---------------------------- MODULE OutagesProofs ----------------------------
(***************************************************************************)
(* Proofs about what has to outlast an end, for any number of sessions,    *)
(* calls and connections: of the daemon and of cores (Checkpoints), of a   *)
(* worker and of its connections (RemoteLink).                             *)
(***************************************************************************)
EXTENDS RemoteLink, Checkpoints, TLAPS

-----------------------------------------------------------------------------
(* Checkpoints *)

\* No copy of a goal is ahead of what became of the goal.
Behind(copy, truth) == (copy # "none" => truth # "none") /\ (copy = "done" => truth = "done")
CopiesBehind == \A g \in Sessions :
    /\ \A s \in Sessions : core[s].on => Behind(core[s].goals[g], own[g])
    /\ file.there => Behind(file.goals[g], own[g])

\* A live session has the goals that its own checkpoint has, but for those a start
\* without a time stamp passed by.
OwnFileKnown == \A s, g \in Sessions :
    file.there /\ file.sid = s /\ core[s].on /\ file.goals[g] # "none" =>
        core[s].goals[g] # "none" \/ g \in robbed

\* The file has the goals that are not finished, whatever the cores have.
ActiveInFile == \A g \in Sessions :
    own[g] = "active" => (file.there /\ file.goals[g] = "active") \/ g \in robbed \cup bare

\* What a stop saved last is in the file, and no older than the time stamp.
PausedInFile == paused # Nothing =>
    /\ phase \in {"stopping", "down"}
    /\ file.there /\ ~file.expired
    /\ file.sid = paused.sid /\ file.turn = paused.turn /\ file.goals = paused.goals
    /\ stamp # Never /\ stamp <= file.at

CheckpointsInv ==
    /\ CheckpointsTypeOK
    /\ stamp <= now /\ (phase = "stopping" => stamp # Never)
    /\ CopiesBehind /\ OwnFileKnown /\ ActiveInFile /\ PausedInFile

LEMMA CheckpointsStart == InitCheckpoints => CheckpointsInv
  <1> SUFFICES ASSUME InitCheckpoints PROVE CheckpointsInv
    OBVIOUS
  <1> USE CheckpointsAssumption DEF InitCheckpoints
  <1>1. CheckpointsTypeOK
    BY DEF CheckpointsTypeOK, Files, Cores, Goals, Status, NoFile, NoCore, Never, Nothing
  <1>2. stamp <= now /\ (phase = "stopping" => stamp # Never)
    BY DEF Never
  <1>3. CopiesBehind /\ OwnFileKnown /\ ActiveInFile /\ PausedInFile
    BY DEF CopiesBehind, OwnFileKnown, ActiveInFile, PausedInFile, NoFile, NoCore
  <1> QED
    BY <1>1, <1>2, <1>3 DEF CheckpointsInv

\* What a value of the file and of an entry of the pool looks like.
LEMMA FileShape ==
  ASSUME NEW f \in Files
  PROVE  \/ f = NoFile /\ ~f.there
         \/ /\ f.there = TRUE /\ f.sid \in Sessions /\ f.turn \in 0 .. MaxTurns /\ f.at \in Nat
            /\ f.goals \in Goals /\ f.expired \in BOOLEAN
  <1>1. CASE f = NoFile
    BY <1>1 DEF NoFile
  <1>2. CASE f \in [there : {TRUE}, sid : Sessions, turn : 0 .. MaxTurns, at : Nat,
                   goals : Goals, expired : BOOLEAN]
    BY <1>2
  <1> QED
    BY <1>1, <1>2 DEF Files

LEMMA CoreShape ==
  ASSUME NEW c \in Cores
  PROVE  \/ c = NoCore /\ ~c.on
         \/ /\ c.on = TRUE /\ c.turn \in 0 .. MaxTurns /\ c.active \in Int /\ c.goals \in Goals
  <1>1. CASE c = NoCore
    BY <1>1 DEF NoCore
  <1>2. CASE c \in [on : {TRUE}, turn : 0 .. MaxTurns, active : Int, goals : Goals]
    BY <1>2
  <1> QED
    BY <1>1, <1>2 DEF Cores

\* mark_expired changes nothing but the mark.
LEMMA ExpiredKeeps ==
  ASSUME CheckpointsTypeOK
  PROVE  /\ Expired \in Files /\ Expired.there = file.there
         /\ file.there => Expired.goals = file.goals /\ Expired.sid = file.sid
  <1>1. file \in Files
    BY DEF CheckpointsTypeOK
  <1>2. CASE file = NoFile
    BY <1>1, <1>2 DEF Expired, NoFile
  <1>3. CASE file \in [there : {TRUE}, sid : Sessions, turn : 0 .. MaxTurns, at : Nat,
                     goals : Goals, expired : BOOLEAN]
    BY <1>3 DEF Expired, Files
  <1> QED
    BY <1>1, <1>2, <1>3 DEF Files

\* What a load gives: a core that was not active in the future, with the goals of the
\* file if it salvages or restores and none otherwise.
LEMMA LoadGives ==
  ASSUME CheckpointsInv, NEW s \in Sessions
  PROVE  /\ LoadedCore(s) \in Cores /\ LoadedCore(s).on /\ LoadedCore(s).active <= now
         /\ \/ (Salvages \/ (Mine(s) /\ ~Late)) /\ LoadedCore(s).goals = file.goals
            \/ ~Salvages /\ ~(Mine(s) /\ ~Late) /\ LoadedCore(s).goals = NoGoals
         /\ LoadedFile(s) \in Files
         /\ LoadedFile(s).there =>
               ~Salvages /\ file.there /\ LoadedFile(s).goals = file.goals
               /\ LoadedFile(s).sid = file.sid
         /\ LoadedFile(s).there \/ Salvages \/ ~file.there
  <1> USE CheckpointsAssumption
  <1>1. file \in Files /\ now \in Nat /\ stamp \in Nat \cup {Never} /\ CheckpointsTypeOK
    BY DEF CheckpointsInv, CheckpointsTypeOK
  <1>2. NoGoals \in Goals
    BY DEF NoGoals, Goals, Status
  <1>3. /\ Cold(file.goals).active = now /\ Cold(file.goals).goals = file.goals
        /\ Cold(NoGoals).active = now /\ Cold(NoGoals).goals = NoGoals
        /\ Cold(NoGoals).on /\ Cold(file.goals).on /\ Cold(NoGoals) \in Cores
        /\ file.there => Cold(file.goals) \in Cores
    <2>1. \A goals \in Goals : [on |-> TRUE, turn |-> 0, active |-> now, goals |-> goals] \in Cores
      BY <1>1 DEF Cores
    <2>2. file.there => file.goals \in Goals
      BY <1>1, FileShape
    <2> QED
      BY <1>2, <2>1, <2>2 DEF Cold
  <1>4. ASSUME Mine(s), ~Late
        PROVE  /\ LoadedCore(s) \in Cores /\ LoadedCore(s).on /\ LoadedCore(s).active <= now
               /\ LoadedCore(s).goals = file.goals /\ ~Salvages
    <2>1. stamp \in Nat /\ file.there /\ ~file.expired
      BY <1>1, <1>4 DEF Mine
    <2>2. file.at \in Nat /\ file.turn \in 0 .. MaxTurns /\ file.goals \in Goals
      BY <1>1, <2>1, FileShape
    <2>3. Elapsed \in Nat
      BY <2>1, <2>2 DEF Elapsed, Larger
    <2>4. now - Smaller(Elapsed, Ttl) \in Int /\ now - Smaller(Elapsed, Ttl) <= now
      BY <1>1, <2>3 DEF Smaller
    <2>5. LoadedCore(s) = [on |-> TRUE, turn |-> file.turn, active |-> now - Smaller(Elapsed, Ttl),
                           goals |-> file.goals]
      BY <1>4 DEF LoadedCore
    <2> HIDE DEF Elapsed, Smaller
    <2> QED
      BY <2>1, <2>2, <2>4, <2>5 DEF Cores, Salvages
  <1>5. ASSUME ~(Mine(s) /\ ~Late)
        PROVE  LoadedCore(s) = Cold(IF Salvages THEN file.goals ELSE NoGoals)
    BY <1>5 DEF LoadedCore
  <1>6. /\ LoadedFile(s) \in Files
        /\ LoadedFile(s).there =>
               ~Salvages /\ file.there /\ LoadedFile(s).goals = file.goals
               /\ LoadedFile(s).sid = file.sid
        /\ LoadedFile(s).there \/ Salvages \/ ~file.there
    <2>1. CASE Salvages
      <3>1. LoadedFile(s) = NoFile
        BY <2>1 DEF LoadedFile, Salvages, Mine
      <3> QED
        BY <2>1, <3>1 DEF NoFile, Files
    <2>2. CASE ~Salvages /\ Mine(s) /\ Late
      BY <2>2, <1>1, ExpiredKeeps DEF LoadedFile, Mine
    <2>3. CASE ~Salvages /\ ~(Mine(s) /\ Late)
      BY <2>3, <1>1 DEF LoadedFile
    <2> QED
      BY <2>1, <2>2, <2>3
  <1>7. Salvages => file.there
    BY DEF Salvages
  <1>8. CASE Mine(s) /\ ~Late
    BY <1>4, <1>6, <1>8
  <1>9. CASE ~(Mine(s) /\ ~Late)
    <2>1. LoadedCore(s) = Cold(IF Salvages THEN file.goals ELSE NoGoals)
      BY <1>5, <1>9
    <2>2. Salvages => LoadedCore(s) = Cold(file.goals)
      BY <2>1
    <2>3. ~Salvages => LoadedCore(s) = Cold(NoGoals)
      BY <2>1
    <2>4. now <= now
      BY <1>1
    <2>5. CASE Salvages
      <3>1. LoadedCore(s) = Cold(file.goals)
        BY <2>2, <2>5
      <3>2. Cold(file.goals) \in Cores
        BY <1>3, <1>7, <2>5
      <3> QED
        BY <1>3, <1>6, <2>4, <2>5, <3>1, <3>2
    <2>6. CASE ~Salvages
      BY <1>3, <1>6, <1>9, <2>3, <2>4, <2>6
    <2> QED
      BY <2>5, <2>6
  <1> QED
    BY <1>8, <1>9

\* What restore_from_checkpoints leaves of the file: its goals, if it has any.
LEMMA RestoreGives ==
  ASSUME CheckpointsInv
  PROVE  /\ RestoredFile \in Files
         /\ RestoredFile.there =>
               file.there /\ RestoredFile.goals = file.goals /\ RestoredFile.sid = file.sid
         /\ file.there /\ ~RestoredFile.there => ~Pinned(file.goals)
         /\ Restores => RestoredFile = file /\ file.there /\ Mine(file.sid) /\ file.sid \in Sessions
  <1>1. file \in Files /\ CheckpointsTypeOK
    BY DEF CheckpointsInv, CheckpointsTypeOK
  <1>2. CASE stamp = Never \/ ~file.there
    BY <1>1, <1>2 DEF RestoredFile, Restores
  <1>3. CASE stamp # Never /\ file.there /\ file.expired /\ ~Pinned(file.goals)
    BY <1>3 DEF RestoredFile, Restores, NoFile, Files
  <1>4. CASE stamp # Never /\ file.there /\ file.expired /\ Pinned(file.goals)
    BY <1>1, <1>4 DEF RestoredFile, Restores
  <1>5. CASE stamp # Never /\ file.there /\ ~file.expired /\ Late
    BY <1>1, <1>5, ExpiredKeeps DEF RestoredFile, Restores
  <1>6. CASE stamp # Never /\ file.there /\ ~file.expired /\ ~Late
    <2>1. RestoredFile = LoadedFile(file.sid)
      BY <1>6 DEF RestoredFile
    <2>2. LoadedFile(file.sid) = file
      BY <1>6 DEF LoadedFile, Salvages
    <2>3. Mine(file.sid) /\ file.sid \in Sessions
      BY <1>1, <1>6, FileShape DEF Mine
    <2> QED
      BY <1>1, <1>6, <2>1, <2>2, <2>3
  <1> QED
    BY <1>2, <1>3, <1>4, <1>5, <1>6

\* What a turn makes of the goals of its session.
LEMMA OutcomeShape ==
  ASSUME CheckpointsInv, NEW s \in Sessions, core[s].on, NEW goals \in Outcomes(s)
  PROVE  /\ goals \in Goals
         /\ \A g \in Sessions :
               \/ goals[g] = core[s].goals[g]
               \/ g = s /\ own[s] = "none" /\ goals[g] = "active"
               \/ core[s].goals[g] = "active" /\ goals[g] = "done"
  <1>1. core[s].goals \in [Sessions -> {"none", "active", "done"}]
    <2>1. core[s] \in Cores
      BY DEF CheckpointsInv, CheckpointsTypeOK
    <2> QED
      BY <2>1, CoreShape DEF Goals, Status
  <1>2. CASE goals = core[s].goals
    BY <1>1, <1>2 DEF Goals, Status
  <1>3. CASE own[s] = "none" /\ goals = [core[s].goals EXCEPT ![s] = "active"]
    BY <1>1, <1>3 DEF Goals, Status
  <1>4. ASSUME NEW g \in Sessions, core[s].goals[g] = "active",
               goals = [core[s].goals EXCEPT ![g] = "done"]
        PROVE  /\ goals \in Goals
               /\ \A h \in Sessions :
                     \/ goals[h] = core[s].goals[h]
                     \/ core[s].goals[h] = "active" /\ goals[h] = "done"
    BY <1>1, <1>4 DEF Goals, Status
  <1> QED
    BY <1>2, <1>3, <1>4 DEF Outcomes

\* A session writes its goals over the checkpoint: none is ahead of the truth then, and
\* what is not finished is written, or noted as robbed.
LEMMA WriteKeeps ==
  ASSUME CheckpointsInv, NEW s \in Sessions, core[s].on, NEW goals \in Goals,
         file' \in Files, file'.there, file'.sid = s, file'.goals = goals,
         own' \in Goals,
         \A g \in Sessions :
            \/ goals[g] = core[s].goals[g] /\ own'[g] = own[g]
            \/ g = s /\ own[s] = "none" /\ goals[g] = "active" /\ own'[g] = "active"
            \/ core[s].goals[g] = "active" /\ goals[g] = "done" /\ own'[g] = "done",
         core' \in [Sessions -> Cores],
         \A r \in Sessions \ {s} : core'[r] = core[r],
         ~core'[s].on \/ core'[s].goals = goals,
         Overwrites(s, goals)
  PROVE  CopiesBehind' /\ OwnFileKnown' /\ ActiveInFile'
  <1> USE DEF Behind
  <1>1. own \in [Sessions -> {"none", "active", "done"}] /\ goals \in [Sessions -> {"none", "active", "done"}]
    BY DEF CheckpointsInv, CheckpointsTypeOK, Goals, Status
  <1>2. \A g \in Sessions : Behind(goals[g], own'[g])
    BY <1>1 DEF CheckpointsInv, CopiesBehind
  <1>3. \A r, g \in Sessions : core[r].on => Behind(core[r].goals[g], own'[g])
    BY <1>1 DEF CheckpointsInv, CopiesBehind
  <1>4. CopiesBehind'
    BY <1>2, <1>3 DEF CopiesBehind
  <1>5. OwnFileKnown'
    BY DEF OwnFileKnown
  <1>6. ActiveInFile'
    <2>1. SUFFICES ASSUME NEW g \in Sessions, own'[g] = "active", goals[g] # "active"
                   PROVE  g \in robbed' \cup bare'
      BY DEF ActiveInFile
    <2>2. own[g] = "active" /\ goals[g] = core[s].goals[g]
      BY <2>1
    <2>3. goals[g] = "none"
      BY <1>1, <2>1, <2>2 DEF CheckpointsInv, CopiesBehind
    <2>4. CASE g \in robbed \cup bare
      BY <2>3, <2>4 DEF Overwrites
    <2>5. CASE file.there /\ file.goals[g] = "active" /\ g \notin robbed
      <3>1. file.sid # s
        BY <2>2, <2>3, <2>5 DEF CheckpointsInv, OwnFileKnown
      <3> QED
        BY <2>3, <2>5, <3>1 DEF Overwrites
    <2> QED
      BY <2>2, <2>4, <2>5 DEF CheckpointsInv, ActiveInFile
  <1> QED
    BY <1>4, <1>5, <1>6

LEMMA BootKeeps == ASSUME CheckpointsInv, Boot PROVE CheckpointsInv'
  <1> USE CheckpointsAssumption
  <1>1. /\ RestoredFile \in Files
        /\ RestoredFile.there =>
               file.there /\ RestoredFile.goals = file.goals /\ RestoredFile.sid = file.sid
        /\ file.there /\ ~RestoredFile.there => ~Pinned(file.goals)
        /\ Restores => RestoredFile = file /\ file.there /\ Mine(file.sid) /\ file.sid \in Sessions
    BY RestoreGives
  <1>2. /\ phase' = "up" /\ file' = RestoredFile /\ paused' = Nothing
        /\ UNCHANGED <<now, stamp, dying, own, robbed, bare>>
    BY DEF Boot
  <1>3. \A s \in Sessions : ~core[s].on /\ dying[s] = "no"
    BY DEF Boot, CheckpointsInv, CheckpointsTypeOK
  <1>4. CASE Restores
    <2> DEFINE s == file.sid
    <2>1. s \in Sessions /\ file' = file /\ core' = [core EXCEPT ![s] = LoadedCore(s)]
      BY <1>1, <1>2, <1>4 DEF Boot
    <2> HIDE DEF s
    <2>2. /\ LoadedCore(s) \in Cores /\ LoadedCore(s).on /\ LoadedCore(s).active <= now
          /\ LoadedCore(s).goals = file.goals
      <3>1. Mine(s) /\ ~Late
        BY <1>1, <1>4 DEF s, Restores
      <3> QED
        BY <2>1, <3>1, LoadGives DEF Salvages, Mine
    <2>3. \A r \in Sessions : core'[r].on => r = s /\ core'[r] = LoadedCore(s)
      BY <1>3, <2>1 DEF CheckpointsInv, CheckpointsTypeOK
    <2>4. CheckpointsTypeOK'
      BY <1>2, <2>1, <2>2, <2>3 DEF CheckpointsInv, CheckpointsTypeOK
    <2>5. CopiesBehind' /\ OwnFileKnown'
      BY <1>1, <1>2, <1>4, <2>1, <2>2, <2>3 DEF CheckpointsInv, CopiesBehind, OwnFileKnown
    <2>6. ActiveInFile' /\ PausedInFile'
      BY <1>2, <2>1 DEF CheckpointsInv, ActiveInFile, PausedInFile
    <2> QED
      BY <1>2, <2>4, <2>5, <2>6 DEF CheckpointsInv
  <1>5. CASE ~Restores
    <2>1. core' = core
      BY <1>5 DEF Boot
    <2>2. CheckpointsTypeOK'
      BY <1>1, <1>2, <1>3, <2>1 DEF CheckpointsInv, CheckpointsTypeOK
    <2>3. CopiesBehind' /\ OwnFileKnown'
      BY <1>1, <1>2, <1>3, <2>1 DEF CheckpointsInv, CopiesBehind, OwnFileKnown
    <2>4. ActiveInFile'
      <3>1. ASSUME NEW g \in Sessions, file.there, file.goals[g] = "active" PROVE Pinned(file.goals)
        BY <3>1 DEF Pinned, NoGoals
      <3> QED
        BY <1>1, <1>2, <3>1 DEF CheckpointsInv, ActiveInFile
    <2> QED
      BY <1>2, <2>2, <2>3, <2>4 DEF CheckpointsInv, PausedInFile
  <1> QED
    BY <1>4, <1>5

LEMMA LoadKeeps == ASSUME CheckpointsInv, NEW s \in Sessions, Load(s) PROVE CheckpointsInv'
  <1> USE CheckpointsAssumption
  <1>1. /\ LoadedCore(s) \in Cores /\ LoadedCore(s).on /\ LoadedCore(s).active <= now
        /\ \/ (Salvages \/ (Mine(s) /\ ~Late)) /\ LoadedCore(s).goals = file.goals
           \/ ~Salvages /\ ~(Mine(s) /\ ~Late) /\ LoadedCore(s).goals = NoGoals
        /\ LoadedFile(s) \in Files
        /\ LoadedFile(s).there =>
              ~Salvages /\ file.there /\ LoadedFile(s).goals = file.goals
              /\ LoadedFile(s).sid = file.sid
        /\ LoadedFile(s).there \/ Salvages \/ ~file.there
    BY LoadGives
  <1>2. /\ phase = "up" /\ ~core[s].on
        /\ core' = [core EXCEPT ![s] = LoadedCore(s)] /\ file' = LoadedFile(s)
        /\ robbed' = robbed \cup (IF PassedBy(s) THEN Carried ELSE {})
        /\ bare' = bare \cup (IF Salvages THEN Carried ELSE {})
        /\ UNCHANGED <<phase, now, stamp, dying, own, paused>>
    BY DEF Load
  <1>3. core \in [Sessions -> Cores]
    BY DEF CheckpointsInv, CheckpointsTypeOK
  <1>4. Carried \subseteq Sessions
    BY DEF Carried
  <1>5. CheckpointsTypeOK'
    BY <1>1, <1>2, <1>3, <1>4 DEF CheckpointsInv, CheckpointsTypeOK
  <1>6. \A r \in Sessions : core'[r] = IF r = s THEN LoadedCore(s) ELSE core[r]
    BY <1>2, <1>3
  <1>7. CopiesBehind'
    <2>1. \A g \in Sessions : Behind(LoadedCore(s).goals[g], own[g])
      BY <1>1 DEF CheckpointsInv, CopiesBehind, Behind, NoGoals, Salvages, Mine
    <2> QED
      BY <1>1, <1>2, <1>6, <2>1 DEF CheckpointsInv, CopiesBehind
  <1>8. OwnFileKnown'
    <2>1. ASSUME NEW g \in Sessions, file'.there, file'.sid = s, file'.goals[g] # "none"
          PROVE  LoadedCore(s).goals[g] # "none" \/ g \in robbed'
      <3>1. ~Salvages /\ file.there /\ file.sid = s /\ file.goals[g] # "none" /\ ~file.expired
        BY <1>1, <1>2, <2>1 DEF Salvages
      <3>2. CASE stamp = Never
        BY <1>2, <3>1, <3>2 DEF PassedBy, Carried
      <3>3. CASE stamp # Never
        <4>1. Pinned(file.goals)
          BY <2>1, <3>1 DEF Pinned, NoGoals
        <4> QED
          BY <1>1, <3>1, <3>3, <4>1 DEF Mine, Late
      <3> QED
        BY <3>2, <3>3
    <2>2. ASSUME NEW r \in Sessions \ {s}, NEW g \in Sessions,
                 file'.there, file'.sid = r, core'[r].on, file'.goals[g] # "none"
          PROVE  core'[r].goals[g] # "none" \/ g \in robbed'
      BY <1>1, <1>2, <1>6, <2>2 DEF CheckpointsInv, OwnFileKnown
    <2> QED
      BY <1>6, <2>1, <2>2 DEF OwnFileKnown
  <1>9. ActiveInFile'
    BY <1>1, <1>2 DEF CheckpointsInv, ActiveInFile, Salvages, Carried
  <1>10. PausedInFile'
    BY <1>2 DEF CheckpointsInv, PausedInFile
  <1> QED
    BY <1>2, <1>5, <1>7, <1>8, <1>9, <1>10 DEF CheckpointsInv

LEMMA TurnKeeps == ASSUME CheckpointsInv, NEW s \in Sessions, Turn(s) PROVE CheckpointsInv'
  <1> USE CheckpointsAssumption
  <1>1. /\ core \in [Sessions -> Cores] /\ own \in Goals /\ now \in Nat
        /\ core[s].on /\ core[s].turn + 1 \in 0 .. MaxTurns /\ phase = "up"
        /\ paused = Nothing
    <2>1. core[s] \in Cores /\ core[s].on /\ core[s].turn < MaxTurns /\ phase = "up"
      BY DEF Turn, CheckpointsInv, CheckpointsTypeOK
    <2>2. core[s].turn \in 0 .. MaxTurns
      BY <2>1, CoreShape
    <2> QED
      BY <2>1, <2>2 DEF CheckpointsInv, CheckpointsTypeOK, PausedInFile
  <1>2. PICK goals \in Outcomes(s) :
          /\ core' = [core EXCEPT ![s] = [on |-> TRUE, turn |-> core[s].turn + 1,
                                          active |-> now, goals |-> goals]]
          /\ own' = [g \in Sessions |-> IF goals[g] # core[s].goals[g] THEN goals[g] ELSE own[g]]
          /\ file' = Checkpoint(s, core[s].turn + 1, goals)
          /\ Overwrites(s, goals)
    BY DEF Turn
  <1>3. UNCHANGED <<phase, now, stamp, dying, paused>>
    BY DEF Turn
  <1>4. /\ goals \in Goals
        /\ \A g \in Sessions :
               \/ goals[g] = core[s].goals[g]
               \/ g = s /\ own[s] = "none" /\ goals[g] = "active"
               \/ core[s].goals[g] = "active" /\ goals[g] = "done"
    BY <1>1, OutcomeShape
  <1>5. /\ [on |-> TRUE, turn |-> core[s].turn + 1, active |-> now, goals |-> goals] \in Cores
        /\ Checkpoint(s, core[s].turn + 1, goals) \in Files
    BY <1>1, <1>4 DEF Cores, Files, Checkpoint
  <1>6. file'.there /\ file'.sid = s /\ file'.goals = goals /\ file' \in Files
    BY <1>2, <1>5 DEF Checkpoint
  <1>7. core' \in [Sessions -> Cores] /\ \A r \in Sessions \ {s} : core'[r] = core[r]
    BY <1>1, <1>2, <1>5
  <1>8. core'[s].goals = goals /\ core'[s].active = now /\ core'[s].on
    BY <1>1, <1>2
  <1>9. /\ own' \in Goals
        /\ \A g \in Sessions :
            \/ goals[g] = core[s].goals[g] /\ own'[g] = own[g]
            \/ g = s /\ own[s] = "none" /\ goals[g] = "active" /\ own'[g] = "active"
            \/ core[s].goals[g] = "active" /\ goals[g] = "done" /\ own'[g] = "done"
    BY <1>1, <1>2, <1>4 DEF Goals
  <1>10. CopiesBehind' /\ OwnFileKnown' /\ ActiveInFile'
    BY <1>1, <1>2, <1>4, <1>6, <1>7, <1>8, <1>9, WriteKeeps
  <1>11. CheckpointsTypeOK'
    <2>1. robbed' \subseteq Sessions /\ bare' \subseteq Sessions
      BY <1>2 DEF Overwrites, CheckpointsInv, CheckpointsTypeOK
    <2>2. \A r \in Sessions : core'[r].on => core'[r].active <= now
      BY <1>1, <1>7, <1>8 DEF CheckpointsInv, CheckpointsTypeOK
    <2> QED
      BY <1>1, <1>3, <1>6, <1>7, <1>9, <2>1, <2>2 DEF CheckpointsInv, CheckpointsTypeOK
  <1>12. PausedInFile'
    BY <1>1, <1>3 DEF PausedInFile
  <1> QED
    BY <1>3, <1>10, <1>11, <1>12 DEF CheckpointsInv

LEMMA FlushKeeps == ASSUME CheckpointsInv, NEW s \in Sessions, Flush(s) PROVE CheckpointsInv'
  <1> USE CheckpointsAssumption
  <1>1. /\ phase = "stopping" /\ core[s].on
        /\ core' = [core EXCEPT ![s] = NoCore] /\ file' = Saved(s)
        /\ Overwrites(s, core[s].goals)
        /\ paused' = [sid |-> s, turn |-> core[s].turn, goals |-> core[s].goals]
        /\ UNCHANGED <<phase, now, stamp, dying, own>>
    BY DEF Flush
  <1>2. core \in [Sessions -> Cores] /\ own \in Goals /\ now \in Nat /\ stamp \in Nat \cup {Never}
    BY DEF CheckpointsInv, CheckpointsTypeOK
  <1>3. core[s].goals \in Goals /\ core[s].turn \in 0 .. MaxTurns
    BY <1>1, <1>2, CoreShape
  <1>4. Saved(s) = [there |-> TRUE, sid |-> s, turn |-> core[s].turn, at |-> now,
                    goals |-> core[s].goals, expired |-> FALSE]
    BY DEF Saved, Checkpoint
  <1>5. file' \in Files /\ file'.there /\ file'.sid = s /\ file'.goals = core[s].goals
    BY <1>1, <1>2, <1>3, <1>4 DEF Files
  <1>6. /\ core' \in [Sessions -> Cores] /\ ~core'[s].on
        /\ \A r \in Sessions \ {s} : core'[r] = core[r]
    BY <1>1, <1>2 DEF NoCore, Cores
  <1>7. CopiesBehind' /\ OwnFileKnown' /\ ActiveInFile'
    <2>1. \A g \in Sessions : own'[g] = own[g]
      BY <1>1
    <2> QED
      BY <1>1, <1>2, <1>3, <1>5, <1>6, <2>1, WriteKeeps
  <1>8. CheckpointsTypeOK'
    <2>1. robbed' \subseteq Sessions /\ bare' \subseteq Sessions
      BY <1>1 DEF Overwrites, CheckpointsInv, CheckpointsTypeOK
    <2>2. paused' \in [sid : Sessions, turn : 0 .. MaxTurns, goals : Goals]
      BY <1>1, <1>3
    <2> QED
      BY <1>1, <1>5, <1>6, <2>1, <2>2 DEF CheckpointsInv, CheckpointsTypeOK
  <1>9. PausedInFile'
    BY <1>1, <1>2, <1>4 DEF PausedInFile, CheckpointsInv
  <1> QED
    BY <1>1, <1>7, <1>8, <1>9 DEF CheckpointsInv

\* The other steps write no goals.
LEMMA OthersKeep ==
  ASSUME CheckpointsInv,
         \/ Stop \/ Dies \/ Tick \/ UNCHANGED checkpoints
         \/ \E s \in Sessions : Pin(s) \/ MarkExpired(s) \/ (\E who \in {"ttl", "command"} : Evict(s, who))
  PROVE  CheckpointsInv'
  <1> USE CheckpointsAssumption DEF CheckpointsInv
  <1>1. NoCore \in Cores /\ ~NoCore.on /\ core \in [Sessions -> Cores] /\ now \in Nat
    BY DEF Cores, NoCore, CheckpointsTypeOK
  <1>2. CASE Stop
    BY <1>2 DEF Stop, CheckpointsTypeOK, CopiesBehind, OwnFileKnown, ActiveInFile, PausedInFile, Never
  <1>3. CASE Dies
    <2>1. \A s \in Sessions : ~core'[s].on
      BY <1>1, <1>3 DEF Dies
    <2>2. CheckpointsTypeOK'
      BY <1>1, <1>3, <2>1 DEF Dies, CheckpointsTypeOK
    <2> QED
      BY <1>3, <2>1, <2>2 DEF Dies, CopiesBehind, OwnFileKnown, ActiveInFile, PausedInFile
  <1>4. CASE Tick
    <2>1. stamp \in Nat \cup {Never} /\ (\A s \in Sessions : core[s] \in Cores)
      BY DEF CheckpointsTypeOK
    <2>2. \A s \in Sessions : core[s].on => core[s].active <= now + 1
      <3>1. ASSUME NEW s \in Sessions, core[s].on PROVE core[s].active <= now + 1
        <4>1. core[s].active <= now
          BY <3>1 DEF CheckpointsTypeOK
        <4>2. core[s].active \in Int
          BY <2>1, <3>1, CoreShape
        <4> QED
          BY <1>1, <4>1, <4>2
      <3> QED
        BY <3>1
    <2>3. stamp <= now + 1
      BY <1>1, <2>1 DEF Never
    <2> QED
      BY <1>1, <1>4, <2>2, <2>3
      DEF Tick, CheckpointsTypeOK, CopiesBehind, OwnFileKnown, ActiveInFile, PausedInFile
  <1>5. ASSUME NEW s \in Sessions, Pin(s) PROVE CheckpointsInv'
    <2>1. /\ core' = [core EXCEPT ![s].active = now] /\ core[s].on
          /\ UNCHANGED <<phase, now, stamp, file, dying, own, robbed, bare, paused>>
      BY <1>5 DEF Pin, Idle
    <2>0. now \in Int
      BY <1>1
    <2>2. core[s] \in [on : {TRUE}, turn : 0 .. MaxTurns, active : Int, goals : Goals]
      BY <1>1, <2>1 DEF Cores, NoCore
    <2>3. /\ core' \in [Sessions -> Cores] /\ core'[s].goals = core[s].goals /\ core'[s].on
          /\ core'[s].active = now
      <3>1. [core[s] EXCEPT !.active = now]
              \in [on : {TRUE}, turn : 0 .. MaxTurns, active : Int, goals : Goals]
        BY <2>0, <2>2, ZenonT(30)
      <3>2. core' = [core EXCEPT ![s] = [core[s] EXCEPT !.active = now]]
        BY <2>1
      <3>3. core'[s] = [core[s] EXCEPT !.active = now]
        BY <1>1, <3>2
      <3>4. core' \in [Sessions -> Cores]
        BY <1>1, <3>1, <3>2 DEF Cores
      <3> QED
        BY <2>2, <3>3, <3>4
    <2>4. \A r \in Sessions \ {s} : core'[r] = core[r]
      BY <1>1, <2>1
    <2>5. CheckpointsTypeOK'
      BY <1>1, <2>1, <2>3, <2>4, <1>5 DEF CheckpointsTypeOK, Pin
    <2>6. CopiesBehind' /\ OwnFileKnown'
      BY <2>1, <2>3, <2>4 DEF CopiesBehind, OwnFileKnown
    <2> QED
      BY <2>1, <2>5, <2>6 DEF ActiveInFile, PausedInFile
  <1>6. ASSUME NEW s \in Sessions, MarkExpired(s) PROVE CheckpointsInv'
    <2>1. /\ file' = Expired /\ paused' = Nothing /\ dying' = [dying EXCEPT ![s] = "no"]
          /\ UNCHANGED <<phase, now, stamp, core, own, robbed, bare>>
      BY <1>6 DEF MarkExpired
    <2>2. CheckpointsTypeOK'
      BY <2>1, ExpiredKeeps DEF CheckpointsTypeOK
    <2> QED
      BY <2>1, <2>2, ExpiredKeeps DEF CopiesBehind, OwnFileKnown, ActiveInFile, PausedInFile
  <1>7. ASSUME NEW s \in Sessions, NEW who \in {"ttl", "command"}, Evict(s, who) PROVE CheckpointsInv'
    <2>1. /\ core' = [core EXCEPT ![s] = NoCore] /\ dying' = [dying EXCEPT ![s] = who]
          /\ phase = "up"
          /\ UNCHANGED <<phase, now, stamp, file, own, robbed, bare, paused>>
      BY <1>7 DEF Evict
    <2>2. core' \in [Sessions -> Cores] /\ \A r \in Sessions : core'[r] = core[r] \/ ~core'[r].on
      BY <1>1, <2>1
    <2>3. CheckpointsTypeOK'
      BY <2>1, <2>2 DEF CheckpointsTypeOK
    <2> QED
      BY <2>1, <2>2, <2>3 DEF CopiesBehind, OwnFileKnown, ActiveInFile, PausedInFile
  <1>8. CASE UNCHANGED checkpoints
    BY <1>8 DEF checkpoints, CheckpointsTypeOK, CopiesBehind, OwnFileKnown, ActiveInFile, PausedInFile
  <1> QED
    BY <1>2, <1>3, <1>4, <1>5, <1>6, <1>7, <1>8

LEMMA CheckpointsStep == CheckpointsInv /\ [NextCheckpoints]_checkpoints => CheckpointsInv'
  BY BootKeeps, LoadKeeps, TurnKeeps, FlushKeeps, OthersKeep DEF NextCheckpoints

\* A goal that is not finished outlasts evictions, stops and deaths of the daemon: the
\* checkpoint has it, or the loss is one of those that GoalsKept names.
THEOREM GoalsOutlast == CheckpointsSpec => [](CheckpointsTypeOK /\ GoalsKept)
  <1>1. CheckpointsInv => CheckpointsTypeOK /\ GoalsKept
    BY DEF CheckpointsInv, ActiveInFile, GoalsKept, Kept
  <1> QED
    BY <1>1, CheckpointsStart, CheckpointsStep, PTL DEF CheckpointsSpec

\* The session that a stop saved last is back after the next start, with its turn and
\* its goals, however long either took: its checkpoint is not older than the time stamp.
THEOREM PausedIsRestored == CheckpointsSpec => PausedResumes
  <1> DEFINE Resumes == phase = "down" /\ phase' = "up" /\ paused # Nothing =>
          LET c == core'[paused.sid]
          IN  c.on /\ c.turn = paused.turn /\ c.goals = paused.goals
  <1>1. CheckpointsInv /\ [NextCheckpoints]_checkpoints => [Resumes]_checkpoints
    <2> SUFFICES ASSUME CheckpointsInv, NextCheckpoints, phase = "down", phase' = "up",
                        paused # Nothing
                 PROVE  Resumes
      OBVIOUS
    <2> USE CheckpointsAssumption
    <2>1. Boot
      BY DEF NextCheckpoints, Stop, Dies, Tick, Load, Turn, Pin, MarkExpired, Flush, Evict
    <2>2. /\ file.there /\ ~file.expired /\ file.sid = paused.sid /\ file.turn = paused.turn
          /\ file.goals = paused.goals /\ stamp # Never /\ stamp <= file.at
      BY DEF CheckpointsInv, PausedInFile
    <2>3. file.sid \in Sessions /\ file.at \in Nat /\ stamp \in Nat /\ core \in [Sessions -> Cores]
      BY <2>2, FileShape DEF CheckpointsInv, CheckpointsTypeOK
    <2>4. Elapsed = 0
      BY <2>2, <2>3 DEF Elapsed, Larger
    <2>5. Restores /\ Mine(file.sid) /\ ~Late
      BY <2>2, <2>4 DEF Restores, Mine, Late
    <2>6. core'[file.sid] = LoadedCore(file.sid)
      BY <2>1, <2>3, <2>5 DEF Boot
    <2>7. /\ LoadedCore(file.sid).on /\ LoadedCore(file.sid).turn = file.turn
          /\ LoadedCore(file.sid).goals = file.goals
      BY <2>5 DEF LoadedCore
    <2> QED
      BY <2>2, <2>6, <2>7
  <1> QED
    BY <1>1, CheckpointsStart, CheckpointsStep, PTL DEF CheckpointsSpec, PausedResumes

-----------------------------------------------------------------------------
(* RemoteLink *)

\* The calls that send one message at a time, and wait for its answer.
Singles == Execs \cup Uses \cup Releases

\* The messages of each direction.
Requests ==
    [call : Execs, step : {"exec", "open", "again"}] \cup [call : Uses, step : {"open"}]
    \cup [call : Releases, step : {"close"}] \cup [call : Pulls, step : {"pull"}]
    \cup [call : Pushes, step : {"push_begin", "push_end"}]
    \cup [call : Pushes, step : {"chunk"}, seq : 0 .. Chunks - 1]
Answers ==
    [call : Execs, step : {"exec", "open", "again"}, fine : BOOLEAN]
    \cup [call : Uses, step : {"open"}, fine : BOOLEAN]
    \cup [call : Releases, step : {"close"}, fine : BOOLEAN]
    \cup [call : Pulls, step : {"pull_begin", "pull_end"}, fine : BOOLEAN]
    \cup [call : Pulls, step : {"chunk"}, seq : 0 .. Chunks - 1]
    \cup [call : Pushes, step : {"push_begin", "push_end"}, fine : BOOLEAN]

\* Where the calls of each kind can stand.
Stations == \A k \in Callers :
    /\ k \in Execs    => pc[k] \in {"idle", "exec", "open", "again", "ok", "not_open", "failed", "cancelled"}
    /\ k \in Uses     => pc[k] \in {"idle", "open", "used", "failed", "cancelled"}
    /\ k \in Releases => pc[k] \in {"idle", "detach", "close", "released"}
    /\ k \in Pushes   => pc[k] \in {"idle", "push_begin", "sending", "push_end", "pushed", "failed", "cancelled"}
    /\ k \in Pulls    => pc[k] \in {"idle", "pull", "pulled", "failed", "cancelled"}

\* What is under way to the worker is on its connection.
Wires ==
    /\ down \in [Conns -> Seq(Requests)] /\ up \in [Conns -> Seq(Answers)]
    /\ \A c \in Conns : c # live => down[c] = <<>>

Registered ==
    /\ live # 0 => registered = live
    /\ \A k \in Callers :
         /\ on[k] # 0 <=> pc[k] \in Awaiting
         /\ on[k] \notin {0, registered} => k \in Pushes /\ on[k] = held[k]

LinkInv == TypeOK /\ Stations /\ Wires /\ Registered

\* A message of one of the Singles that is under way is the only one, and is what the
\* call awaits if it still waits.
OneRequest == \A c, d \in Conns : \A i \in 1 .. Len(down[c]), j \in 1 .. Len(down[d]) :
    down[c][i].call \in Singles /\ down[c][i].call = down[d][j].call => c = d /\ i = j
OneAnswer == \A c, d \in Conns : \A i \in 1 .. Len(up[c]), j \in 1 .. Len(up[d]) :
    up[c][i].call \in Singles /\ up[c][i].call = up[d][j].call => c = d /\ i = j
OneOfThem == \A c, d \in Conns : \A i \in 1 .. Len(down[c]), j \in 1 .. Len(up[d]) :
    down[c][i].call \in Singles => down[c][i].call # up[d][j].call

Fits(at, step) ==
    /\ at \notin {"idle", "detach"}
    /\ at \in Awaiting => step = at
    /\ at = "not_open" => step = "open"
RequestsFit == \A c \in Conns : \A i \in 1 .. Len(down[c]) :
    LET m == down[c][i] IN m.call \in Singles => Fits(pc[m.call], m.step)
AnswersFit == \A c \in Conns : \A i \in 1 .. Len(up[c]) :
    LET m == up[c][i] IN m.call \in Singles => Fits(pc[m.call], m.step)
OneAtATime == OneRequest /\ OneAnswer /\ OneOfThem /\ RequestsFit /\ AnswersFit

\* A command whose request is under way has not run; an answer says whether it has.
RunsToldRight ==
    /\ \A c \in Conns : \A i \in 1 .. Len(down[c]) :
         LET m == down[c][i] IN
         m.call \in Execs => Told[m.call] = 0 /\ (m.step = "exec" => m.call \notin misread)
    /\ \A c \in Conns : \A i \in 1 .. Len(up[c]) :
         LET m == up[c][i] IN
         m.call \in Execs => Told[m.call] = IF m.step # "open" /\ m.fine THEN 1 ELSE 0
    /\ \A k \in Execs :
         /\ Told[k] \in {0, 1}
         /\ pc[k] \in {"idle", "open", "not_open"} => Told[k] = 0
         /\ pc[k] = "ok" => Told[k] = 1
         /\ pc[k] = "idle" => k \notin misread

NotCrossed == crossing = {} => \A u \in Uses, r \in Releases : ~(UnderWay(u) /\ UnderWay(r))
\* Every close under way is followed by a message of u; no close is under way.
ThenOpens(s, u) == \A i \in 1 .. Len(s) :
    s[i].step = "close" => \E j \in 1 .. Len(s) : j > i /\ s[j].call = u
Closeless(s) == \A i \in 1 .. Len(s) : s[i].step # "close"

OpenedLast ==
    crossing = {} /\ live # 0 => \A u \in Uses : pc[u] = "open" => ThenOpens(down[live], u)
NoClose ==
    crossing = {} /\ active => /\ live # 0 => Closeless(down[live])
                               /\ fresh => open

\* A Use is told that the workspace is open, and it still is.
HeardOpen ==
    crossing = {} /\ fresh =>
        \A c \in Conns : \A i \in 1 .. Len(up[c]) :
            LET m == up[c][i] IN m.call \in Uses /\ m.fine /\ pc[m.call] = "open" => open

FilesInv ==
    /\ \A k \in Pushes : part[k] >= 0 => live # 0 /\ held[k] = live
    /\ \A k \in Pulls : part[k] >= 0 => pc[k] \in {"pull", "cancelled"}
    /\ \A k \in Pushes \cup Pulls : pc[k] \in {"pushed", "pulled"} => k \in whole
    /\ \A k \in Pushes : pc[k] = "idle" => part[k] = -1
    /\ \A c \in Conns : \A i \in 1 .. Len(down[c]) : LET m == down[c][i] IN 
         m.call \in Pushes => held[m.call] = c /\ pc[m.call] # "idle"
    /\ \A c \in Conns : \A i \in 1 .. Len(up[c]) : LET m == up[c][i] IN 
         m.call \in Pushes /\ m.step = "push_end" /\ m.fine => m.call \in whole
RemoteInv ==
    /\ LinkInv /\ OneAtATime /\ RunsToldRight
    /\ NotCrossed /\ OpenedLast /\ HeardOpen /\ NoClose /\ FilesInv

\* What appending, taking the first and joining do to the places of a sequence.
LEMMA AppendAt ==
  ASSUME NEW S, NEW s \in Seq(S), NEW m \in S
  PROVE  /\ Append(s, m) \in Seq(S) /\ Len(Append(s, m)) = Len(s) + 1
         /\ Append(s, m)[Len(s) + 1] = m
         /\ \A i \in 1 .. Len(s) : Append(s, m)[i] = s[i]
  OBVIOUS

LEMMA TailAt ==
  ASSUME NEW S, NEW s \in Seq(S), s # <<>>
  PROVE  /\ Len(s) \in Nat \ {0} /\ Head(s) \in S /\ Head(s) = s[1]
         /\ Tail(s) \in Seq(S) /\ Len(Tail(s)) = Len(s) - 1
         /\ \A i \in 1 .. Len(s) - 1 : Tail(s)[i] = s[i + 1]
  OBVIOUS

LEMMA JoinAt ==
  ASSUME NEW S, NEW s \in Seq(S), NEW t \in Seq(S)
  PROVE  /\ s \o t \in Seq(S) /\ Len(s \o t) = Len(s) + Len(t)
         /\ \A i \in 1 .. Len(s) : (s \o t)[i] = s[i]
         /\ \A i \in 1 .. Len(t) : (s \o t)[Len(s) + i] = t[i]
  OBVIOUS

\* What a message looks like.
LEMMA RequestShape ==
  ASSUME NEW m \in Requests
  PROVE  /\ m.call \in Callers
         /\ \/ m.call \in Execs /\ m.step \in {"exec", "open", "again"}
            \/ m.call \in Uses /\ m.step = "open"
            \/ m.call \in Releases /\ m.step = "close"
            \/ m.call \in Pulls /\ m.step = "pull"
            \/ m.call \in Pushes /\ m.step \in {"push_begin", "push_end"}
            \/ m.call \in Pushes /\ m.step = "chunk" /\ m.seq \in 0 .. Chunks - 1
  BY DEF Requests, Callers

LEMMA AnswerShape ==
  ASSUME NEW m \in Answers
  PROVE  /\ m.call \in Callers
         /\ \/ m.call \in Execs /\ m.step \in {"exec", "open", "again"} /\ m.fine \in BOOLEAN
            \/ m.call \in Uses /\ m.step = "open" /\ m.fine \in BOOLEAN
            \/ m.call \in Releases /\ m.step = "close" /\ m.fine \in BOOLEAN
            \/ m.call \in Pulls /\ m.step \in {"pull_begin", "pull_end"} /\ m.fine \in BOOLEAN
            \/ m.call \in Pulls /\ m.step = "chunk" /\ m.seq \in 0 .. Chunks - 1
            \/ m.call \in Pushes /\ m.step \in {"push_begin", "push_end"} /\ m.fine \in BOOLEAN
  BY DEF Answers, Callers

LEMMA RequestsMade ==
  ASSUME NEW k, NEW step, NEW seq,
         \/ k \in Execs /\ step \in {"exec", "open", "again"}
         \/ k \in Uses /\ step = "open"
         \/ k \in Releases /\ step = "close"
         \/ k \in Pulls /\ step = "pull"
         \/ k \in Pushes /\ step \in {"push_begin", "push_end"}
  PROVE  /\ Message(k, step) \in Requests
         /\ Message(k, step).call = k /\ Message(k, step).step = step
  <1>1. Message(k, step).call = k /\ Message(k, step).step = step
    BY DEF Message
  <1>2. Message(k, step) \in Requests
    BY DEF Message, Requests
  <1> QED
    BY <1>1, <1>2

\* The kinds of calls are apart.
LEMMA KindsApart ==
  ASSUME NEW k
  PROVE  /\ k \in Execs => k \notin Uses \cup Releases \cup Pushes \cup Pulls
         /\ k \in Uses => k \notin Releases \cup Pushes \cup Pulls
         /\ k \in Releases => k \notin Pushes \cup Pulls
         /\ k \in Pushes => k \notin Pulls
  BY RemoteAssumption

\* A request goes out on the connection, or the call ends.
RequestOutcome(k, c, step) ==
    /\ pc' \in [Callers -> {"idle", "detach", "sending", "cancelled"} \cup Awaiting \cup Over]
    /\ on' \in [Callers -> 0 .. made]
    /\ \A j \in Callers \ {k} : pc'[j] = pc[j] /\ on'[j] = on[j]
    /\ \/ /\ pc'[k] = step /\ on'[k] = c /\ c # 0
          /\ c = live => down'[live] = Append(down[live], Message(k, step))
       \/ /\ on'[k] = 0
          /\ pc'[k] = IF k \in Releases THEN "released"
                      ELSE IF k \in Execs /\ step = "open" THEN "not_open" ELSE "failed"
          /\ down' = down
    /\ \/ down' = down
       \/ /\ live # 0 /\ c = live /\ down'[live] = Append(down[live], Message(k, step))
          /\ \A d \in Conns \ {live} : down'[d] = down[d]
    /\ down' \in [Conns -> Seq(Requests)]
    /\ \A d \in Conns : d # live => down'[d] = <<>>

LEMMA RequestEffect ==
  ASSUME TypeOK, Wires, NEW k \in Callers, NEW c \in 0 .. made, NEW step \in Awaiting,
         Message(k, step) \in Requests, Request(k, c, step)
  PROVE  RequestOutcome(k, c, step)
  <1> USE RemoteAssumption DEF TypeOK, Wires, Conns
  <1>1. CASE c = 0 \/ c \in ended
    <2> DEFINE end == IF k \in Releases THEN "released"
                      ELSE IF k \in Execs /\ step = "open" THEN "not_open" ELSE "failed"
    <2>1. /\ pc' = [pc EXCEPT ![k] = end] /\ on' = [on EXCEPT ![k] = 0] /\ down' = down
      BY <1>1, KindsApart DEF Request
    <2>2. end \in Over
      BY DEF Over
    <2>3. /\ pc' \in [Callers -> {"idle", "detach", "sending", "cancelled"} \cup Awaiting \cup Over]
          /\ on' \in [Callers -> 0 .. made] /\ pc'[k] = end /\ on'[k] = 0
          /\ \A j \in Callers \ {k} : pc'[j] = pc[j] /\ on'[j] = on[j]
      BY <2>1, <2>2
    <2> QED
      BY <2>1, <2>3 DEF RequestOutcome
  <1>2. CASE ~(c = 0 \/ c \in ended)
    <2>1. /\ pc' = [pc EXCEPT ![k] = step] /\ on' = [on EXCEPT ![k] = c]
          /\ down' = IF c = live THEN [down EXCEPT ![c] = Append(@, Message(k, step))] ELSE down
      BY <1>2 DEF Request
    <2>2. c \in Conns
      BY <1>2
    <2>3. down[c] \in Seq(Requests) /\ Append(down[c], Message(k, step)) \in Seq(Requests)
      BY <2>2, AppendAt
    <2>4. down' \in [Conns -> Seq(Requests)]
      BY <2>1, <2>2, <2>3
    <2> QED
      BY <1>2, <2>1, <2>2, <2>4 DEF RequestOutcome
  <1> QED
    BY <1>1, <1>2

\* What fails is over.
FailOutcome(failing) ==
    /\ pc' \in [Callers -> {"idle", "detach", "sending", "cancelled"} \cup Awaiting \cup Over]
    /\ on' \in [Callers -> 0 .. made] /\ part' \in [Pushes \cup Pulls -> -1 .. Chunks]
    /\ \A k \in Callers \ failing : pc'[k] = pc[k] /\ on'[k] = on[k]
    /\ \A k \in failing : /\ on'[k] = 0
                          /\ pc'[k] = IF k \in Releases THEN "released"
                                      ELSE IF k \in Execs /\ pc[k] = "open" THEN "not_open" ELSE "failed"
    /\ \A k \in Pushes : part'[k] = part[k]
    /\ \A k \in Pulls : part'[k] = IF k \in failing THEN -1 ELSE part[k]

LEMMA FailEffect ==
  ASSUME TypeOK, NEW failing \in SUBSET Callers, Fail(failing)
  PROVE  FailOutcome(failing)
  <1> USE RemoteAssumption DEF TypeOK
  <1>1. \A k \in failing : AfterError(k) =
            IF k \in Releases THEN "released"
            ELSE IF k \in Execs /\ pc[k] = "open" THEN "not_open" ELSE "failed"
    BY KindsApart DEF AfterError
  <1>2. \A k \in failing : AfterError(k) \in Over
    BY <1>1 DEF Over
  <1>3. /\ pc' = [k \in Callers |-> IF k \in failing THEN AfterError(k) ELSE pc[k]]
        /\ on' = [k \in Callers |-> IF k \in failing THEN 0 ELSE on[k]]
        /\ part' = [k \in Pushes \cup Pulls |-> IF k \in failing \cap Pulls THEN -1 ELSE part[k]]
    BY DEF Fail
  <1>4. pc' \in [Callers -> {"idle", "detach", "sending", "cancelled"} \cup Awaiting \cup Over]
    BY <1>2, <1>3
  <1>5. on' \in [Callers -> 0 .. made]
    BY <1>3
  <1>6. part' \in [Pushes \cup Pulls -> -1 .. Chunks]
    BY <1>3
  <1>7. \A k \in Pushes : part'[k] = part[k]
    BY <1>3, KindsApart
  <1>8. \A k \in Pulls : part'[k] = IF k \in failing THEN -1 ELSE part[k]
    BY <1>3
  <1>9. \A k \in Callers \ failing : pc'[k] = pc[k] /\ on'[k] = on[k]
    BY <1>3
  <1>10. \A k \in failing : on'[k] = 0 /\ pc'[k] = AfterError(k)
    BY <1>3
  <1> QED
    BY <1>1, <1>4, <1>5, <1>6, <1>7, <1>8, <1>9, <1>10 DEF FailOutcome

LEMMA LinkStart == Init => LinkInv
  <1> SUFFICES ASSUME Init PROVE LinkInv
    OBVIOUS
  <1> USE RemoteAssumption DEF Init, Conns
  <1>1. TypeOK
    <2>1. /\ pc \in [Callers -> {"idle", "detach", "sending", "cancelled"} \cup Awaiting \cup Over]
          /\ on \in [Callers -> 0 .. made] /\ held \in [Pushes -> 0 .. made]
      OBVIOUS
    <2>2. sent \in [Pushes -> 0 .. Chunks] /\ ran \in [Execs -> Nat] /\ misread \subseteq Execs
      OBVIOUS
    <2>3. part \in [Pushes \cup Pulls -> -1 .. Chunks]
      OBVIOUS
    <2>4. /\ made \in 0..MaxConns /\ live \in 0..made /\ ended \subseteq 1..made
          /\ registered \in 0..made
      OBVIOUS
    <2>5. /\ active \in BOOLEAN /\ open \in BOOLEAN /\ fresh \in BOOLEAN
          /\ whole \subseteq Pushes \cup Pulls /\ crossing \subseteq Releases
      OBVIOUS
    <2> QED
      BY <2>1, <2>2, <2>3, <2>4, <2>5, ZenonT(30) DEF TypeOK
  <1>2. Stations
    BY DEF Stations
  <1>3. Wires
    BY DEF Wires
  <1>4. Registered
    BY DEF Registered, Awaiting
  <1> QED
    BY <1>1, <1>2, <1>3, <1>4 DEF LinkInv

\* The worker's and the daemon's connections come and go.
LEMMA LinkComesAndGoes ==
  ASSUME LinkInv, Connect \/ Break \/ WorkerDies \/ (\E c \in Conns : EndpointEnds(c))
  PROVE  LinkInv'
  <1> USE RemoteAssumption DEF LinkInv
  <1>1. CASE Connect
    <2>1. Failing(registered) \in SUBSET Callers
      BY DEF Failing
    <2>2. FailOutcome(Failing(registered))
      BY <1>1, <2>1, FailEffect DEF Connect
    <2>3. TypeOK'
      BY <1>1, <2>2 DEF Connect, TypeOK, FailOutcome, pushVars, stateVars, workerVars
    <2>4. Stations'
      BY <2>1, <2>2, KindsApart DEF Stations, FailOutcome
    <2>5. Wires'
      BY <1>1 DEF Connect, Wires, Conns
    <2>6. \A k \in Callers : on'[k] # 0 => on[k] = on'[k] /\ on[k] # registered
      BY <2>2 DEF FailOutcome, Failing
    <2>7. \A k \in Callers : on'[k] # 0 <=> pc'[k] \in Awaiting
      BY <2>2 DEF FailOutcome, Registered, Awaiting
    <2>8. \A k \in Callers : on'[k] # 0 => k \in Pushes /\ on'[k] = held'[k]
      BY <1>1, <2>6 DEF Connect, pushVars, Registered
    <2>9. Registered'
      BY <1>1, <2>7, <2>8 DEF Registered, Connect
    <2> QED
      BY <2>3, <2>4, <2>5, <2>9
  <1>2. ASSUME Break \/ WorkerDies PROVE LinkInv'
    <2>1. /\ live # 0 /\ live' = 0 /\ down' = [down EXCEPT ![live] = <<>>]
          /\ part' = [k \in Pushes \cup Pulls |-> IF k \in Pushes THEN -1 ELSE part[k]]
          /\ UNCHANGED <<made, ended, registered, up, pc, on, held, sent, active, crossing, ran, misread, whole>>
          /\ open' \in {open, FALSE} /\ fresh' \in {fresh, FALSE}
      BY <1>2 DEF Break, WorkerDies, Lose, pushVars, stateVars, workerVars
    <2>2. part' \in [Pushes \cup Pulls -> -1 .. Chunks]
      BY <2>1 DEF TypeOK
    <2>3. TypeOK'
      <3>1. live' \in 0 .. made'
        BY <2>1 DEF TypeOK
      <3>2. open \in BOOLEAN /\ fresh \in BOOLEAN
        BY DEF TypeOK
      <3>3. open' \in BOOLEAN /\ fresh' \in BOOLEAN
        BY <2>1, <3>2, Zenon
      <3> QED
        BY <2>1, <2>2, <3>1, <3>3 DEF TypeOK
    <2>4. Stations' /\ Registered'
      BY <2>1 DEF Stations, Registered
    <2>5. Wires'
      <3>1. \A c \in Conns : down'[c] = IF c = live THEN <<>> ELSE down[c]
        BY <2>1 DEF Wires
      <3>2. \A c \in Conns : down'[c] = <<>>
        BY <3>1 DEF Wires
      <3>3. <<>> \in Seq(Requests) /\ down \in [Conns -> Seq(Requests)]
        BY DEF Wires
      <3>4. down' \in [Conns -> Seq(Requests)]
        BY <2>1, <3>3, Zenon
      <3> QED
        BY <2>1, <3>2, <3>4 DEF Wires
    <2> QED
      BY <2>3, <2>4, <2>5
  <1>3. ASSUME NEW c \in Conns, EndpointEnds(c) PROVE LinkInv'
    <2> DEFINE failing == IF registered = c THEN Failing(c) ELSE {}
    <2>1. failing \in SUBSET Callers
      BY DEF Failing
    <2>2. FailOutcome(failing)
      BY <1>3, <2>1, FailEffect DEF EndpointEnds, Unregister
    <2>3. /\ c \in 1 .. made /\ c # live /\ ended' = ended \cup {c} /\ up' = [up EXCEPT ![c] = <<>>]
          /\ registered' = IF registered = c THEN 0 ELSE registered
          /\ UNCHANGED <<made, live, down, held, sent, active, crossing, fresh, open, ran, misread, whole>>
      BY <1>3 DEF EndpointEnds, Unregister, pushVars, stateVars, workerVars
    <2>4. TypeOK'
      BY <2>2, <2>3 DEF TypeOK, FailOutcome
    <2>5. Stations'
      BY <2>1, <2>2, KindsApart DEF Stations, FailOutcome
    <2>6. Wires'
      BY <2>3 DEF Wires
    <2>7. \A k \in Callers : on'[k] # 0 => on[k] = on'[k] /\ (registered = c => on[k] # c)
      BY <2>2, <2>3 DEF FailOutcome, Failing, Conns
    <2>8. \A k \in Callers : on'[k] # 0 <=> pc'[k] \in Awaiting
      BY <2>2 DEF FailOutcome, Registered, Awaiting
    <2>9. \A k \in Callers : on'[k] \notin {0, registered'} => k \in Pushes /\ on'[k] = held'[k]
      BY <2>3, <2>7 DEF Registered
    <2>10. Registered'
      BY <2>3, <2>8, <2>9 DEF Registered, TypeOK
    <2> QED
      BY <2>4, <2>5, <2>6, <2>10
  <1> QED
    BY <1>1, <1>2, <1>3

\* The step is one of those that calls of its kind await.
Suits(k, step) ==
    \/ k \in Execs /\ step \in {"exec", "open", "again"}
    \/ k \in Uses /\ step = "open"
    \/ k \in Releases /\ step = "close"
    \/ k \in Pulls /\ step = "pull"
    \/ k \in Pushes /\ step \in {"push_begin", "push_end"}

\* A request on the registered connection, or a push's on the one it holds.
LEMMA RequestKeepsLink ==
  ASSUME LinkInv, NEW k \in Callers, NEW c \in 0 .. made, NEW step, Suits(k, step),
         Request(k, c, step), UNCHANGED <<linkVars, sent, whole, open>>, crossing' \subseteq Releases,
         held' \in [Pushes -> 0 .. made], \A j \in Pushes \ {k} : held'[j] = held[j],
         c # registered => k \in Pushes /\ c = held'[k],
         up' \in [Conns -> Seq(Answers)], part' \in [Pushes \cup Pulls -> -1 .. Chunks],
         active' \in BOOLEAN, UNCHANGED <<fresh, ran, misread>>
  PROVE  LinkInv' /\ RequestOutcome(k, c, step)
  <1> USE DEF LinkInv
  <1>1. Message(k, step) \in Requests /\ step \in Awaiting
    BY RequestsMade DEF Suits, Awaiting
  <1>2. RequestOutcome(k, c, step)
    BY <1>1, RequestEffect
  <1>3. TypeOK'
    BY <1>2 DEF TypeOK, RequestOutcome, linkVars
  <1>4. Stations'
    <2>1. \A j \in Callers \ {k} : pc'[j] = pc[j]
      BY <1>2 DEF RequestOutcome
    <2>2. pc'[k] = step \/ pc'[k] = IF k \in Releases THEN "released"
                      ELSE IF k \in Execs /\ step = "open" THEN "not_open" ELSE "failed"
      BY <1>2 DEF RequestOutcome
    <2> QED
      BY <2>1, <2>2, KindsApart DEF Stations, Suits
  <1>5. Wires'
    BY <1>2 DEF RequestOutcome, Wires, linkVars
  <1>6. ASSUME NEW j \in Callers
        PROVE  /\ on'[j] # 0 <=> pc'[j] \in Awaiting
               /\ on'[j] \notin {0, registered'} => j \in Pushes /\ on'[j] = held'[j]
    <2>1. CASE j = k
      BY <1>1, <1>2, <2>1 DEF RequestOutcome, Awaiting, linkVars
    <2>2. CASE j # k
      <3>1. pc'[j] = pc[j] /\ on'[j] = on[j] /\ registered' = registered
        BY <1>2, <2>2 DEF RequestOutcome, linkVars
      <3>2. j \in Pushes => held'[j] = held[j]
        BY <2>2
      <3> QED
        BY <3>1, <3>2 DEF Registered
    <2> QED
      BY <2>1, <2>2
  <1>7. Registered'
    BY <1>6 DEF Registered, linkVars
  <1> QED
    BY <1>2, <1>3, <1>4, <1>5, <1>7

\* A chunk goes out.
LEMMA ChunkSent ==
  ASSUME TypeOK, Wires, NEW k \in Pushes, sent[k] \in 0 .. Chunks - 1,
         down' = IF held[k] # live THEN down
                 ELSE [down EXCEPT ![live] = Append(@, Chunk(k, sent[k]))],
         UNCHANGED <<linkVars, up>>
  PROVE  /\ Wires'
         /\ \A c \in Conns :
              \/ down'[c] = down[c]
              \/ c = live /\ c = held[k] /\ down'[c] = Append(down[c], Chunk(k, sent[k]))
         /\ Chunk(k, sent[k]) \in Requests /\ Chunk(k, sent[k]).call = k
         /\ Chunk(k, sent[k]).step = "chunk"
  <1>1. Chunk(k, sent[k]).call = k /\ Chunk(k, sent[k]).step = "chunk"
    BY DEF Chunk
  <1>2. Chunk(k, sent[k]) \in [call : Pushes, step : {"chunk"}, seq : 0 .. Chunks - 1]
    BY DEF Chunk
  <1>3. Chunk(k, sent[k]) \in Requests
    BY <1>2 DEF Requests
  <1>4. \A c \in Conns :
              \/ down'[c] = down[c]
              \/ c = live /\ c = held[k] /\ down'[c] = Append(down[c], Chunk(k, sent[k]))
    BY DEF Wires
  <1>5. CASE live \in Conns /\ held[k] = live
    <2>1. down[live] \in Seq(Requests) /\ Append(down[live], Chunk(k, sent[k])) \in Seq(Requests)
      BY <1>3, <1>5, AppendAt DEF Wires
    <2>2. down' \in [Conns -> Seq(Requests)]
      BY <1>5, <2>1 DEF Wires
    <2> QED
      BY <1>1, <1>3, <1>4, <2>2 DEF Wires, linkVars
  <1>6. CASE ~(live \in Conns /\ held[k] = live)
    <2>1. down' = down
      <3>1. CASE held[k] # live
        BY <3>1
      <3>2. CASE live \notin Conns
        BY <3>2 DEF Wires
      <3> QED
        BY <1>6, <3>1, <3>2
    <2> QED
      BY <1>1, <1>3, <1>4, <2>1 DEF Wires, linkVars
  <1> QED
    BY <1>5, <1>6

\* Calls begin.
LEMMA LinkCallsBegin ==
  ASSUME LinkInv, NEW k \in Callers
  PROVE  /\ Exec(k) => LinkInv' /\ RequestOutcome(k, registered, "exec")
         /\ Use(k) => LinkInv' /\ RequestOutcome(k, registered, "open")
         /\ Push(k) => LinkInv' /\ RequestOutcome(k, registered, "push_begin")
         /\ Pull(k) => LinkInv' /\ RequestOutcome(k, registered, "pull")
         /\ Release(k) => LinkInv'
  <1> USE DEF LinkInv
  <1>1. registered \in 0 .. made /\ held \in [Pushes -> 0 .. made] /\ active \in BOOLEAN
        /\ part \in [Pushes \cup Pulls -> -1 .. Chunks] /\ up \in [Conns -> Seq(Answers)]
        /\ crossing \subseteq Releases
    BY DEF TypeOK, Wires
  <1> USE DEF pushVars, workerVars
  <1>2. ASSUME Exec(k) PROVE LinkInv' /\ RequestOutcome(k, registered, "exec")
    BY <1>1, <1>2, RequestKeepsLink DEF Exec, Begin, Suits
  <1>3. ASSUME Pull(k) PROVE LinkInv' /\ RequestOutcome(k, registered, "pull")
    BY <1>1, <1>3, RequestKeepsLink DEF Pull, Begin, Suits
  <1>4. ASSUME Push(k) PROVE LinkInv' /\ RequestOutcome(k, registered, "push_begin")
    <2>1. k \in Pushes /\ held' = [held EXCEPT ![k] = registered]
      BY <1>4 DEF Push
    <2>2. held' \in [Pushes -> 0 .. made] /\ (\A j \in Pushes \ {k} : held'[j] = held[j]) 
      BY <1>1, <2>1
    <2> QED
      BY <1>1, <1>4, <2>1, <2>2, RequestKeepsLink DEF Push, Begin, Suits
  <1>5. ASSUME Use(k) PROVE LinkInv' /\ RequestOutcome(k, registered, "open")
    <2>1. /\ k \in Uses /\ Request(k, registered, "open")
          /\ UNCHANGED <<linkVars, up, active, fresh, ran, misread, open, held, sent, part, whole>>
      BY <1>5 DEF Use, Begin
    <2>2. /\ TypeOK /\ crossing' \subseteq Releases
      BY <1>5 DEF Use, TypeOK
    <2> QED
      BY <1>1, <2>1, <2>2, RequestKeepsLink DEF Suits
  <1>6. ASSUME Release(k) PROVE LinkInv'
    <2>1. /\ k \in Releases /\ pc[k] = "idle" /\ pc' = [pc EXCEPT ![k] = "detach"]
          /\ crossing' \subseteq crossing \cup {k}
          /\ UNCHANGED <<linkVars, down, up, on, pushVars, active, workerVars, part, whole>>
      BY <1>6 DEF Release
    <2>2. pc' \in [Callers -> {"idle", "detach", "sending", "cancelled"} \cup Awaiting \cup Over]
      BY <2>1 DEF TypeOK
    <2>3. TypeOK'
      BY <2>1, <2>2 DEF TypeOK, linkVars
    <2>4. Stations'
      BY <2>1, KindsApart DEF Stations, TypeOK
    <2>5. Registered'
      BY <2>1 DEF Registered, Awaiting, linkVars, TypeOK
    <2>6. Wires'
      BY <2>1 DEF Wires, linkVars
    <2> QED
      BY <2>3, <2>4, <2>5, <2>6
  <1> QED
    BY <1>2, <1>3, <1>4, <1>5, <1>6

\* Calls go on, give up or are cancelled.
LEMMA LinkCallsGoOn ==
  ASSUME LinkInv, NEW k,
         Expire \/ (k \in Callers /\ (Detached(k) \/ Send(k) \/ TimeOut(k) \/ Cancel(k)))
  PROVE  LinkInv'
  <1> USE DEF LinkInv, pushVars, workerVars, stateVars
  <1>1. registered \in 0 .. made /\ held \in [Pushes -> 0 .. made] /\ active \in BOOLEAN
        /\ part \in [Pushes \cup Pulls -> -1 .. Chunks] /\ up \in [Conns -> Seq(Answers)]
        /\ crossing \subseteq Releases
    BY DEF TypeOK, Wires
  <1>2. CASE k \in Callers /\ Detached(k)
    <2>1. k \in Releases /\ pc[k] = "detach" /\ active' = FALSE
      BY <1>2, KindsApart DEF Detached, Stations, Callers
    <2>2. CASE active
      BY <1>1, <1>2, <2>1, <2>2, RequestKeepsLink DEF Detached, Suits
    <2>3. CASE ~active
      <3>1. /\ pc' = [pc EXCEPT ![k] = "released"] /\ active' = FALSE
            /\ UNCHANGED <<linkVars, on, down, up, held, sent, crossing, fresh, open, ran, misread, part, whole>>
        BY <1>2, <2>3 DEF Detached
      <3>2. pc' \in [Callers -> {"idle", "detach", "sending", "cancelled"} \cup Awaiting \cup Over]
        BY <3>1 DEF TypeOK, Over
      <3>3. TypeOK'
        BY <3>1, <3>2 DEF TypeOK, linkVars
      <3>4. Stations'
        BY <2>1, <3>1, KindsApart DEF Stations, TypeOK
      <3>5. Registered'
        BY <2>1, <3>1 DEF Registered, Awaiting, linkVars, TypeOK
      <3>6. Wires'
        BY <3>1 DEF Wires, linkVars
      <3> QED
        BY <3>3, <3>4, <3>5, <3>6
    <2> QED
      BY <2>2, <2>3
  <1>3. CASE k \in Callers /\ Send(k)
    <2>1. k \in Pushes /\ pc[k] = "sending" /\ held[k] \in 0 .. made /\ sent[k] \in 0 .. Chunks
      BY <1>3 DEF Send, TypeOK
    <2>2. CASE sent[k] = Chunks
      BY <1>1, <1>3, <2>1, <2>2, RequestKeepsLink DEF Send, Suits
    <2>3. CASE sent[k] # Chunks /\ held[k] \in ended
      <3>1. /\ pc' = [pc EXCEPT ![k] = "failed"]
            /\ UNCHANGED <<linkVars, on, down, up, held, sent, active, crossing, fresh, open, ran, misread, part, whole>>
        BY <1>3, <2>3 DEF Send
      <3>2. pc' \in [Callers -> {"idle", "detach", "sending", "cancelled"} \cup Awaiting \cup Over]
        BY <3>1 DEF TypeOK, Over
      <3>3. TypeOK'
        BY <3>1, <3>2 DEF TypeOK, linkVars
      <3>4. Stations'
        BY <2>1, <3>1, KindsApart DEF Stations, TypeOK
      <3>5. Registered'
        BY <2>1, <3>1 DEF Registered, Awaiting, linkVars, TypeOK
      <3>6. Wires'
        BY <3>1 DEF Wires, linkVars
      <3> QED
        BY <3>3, <3>4, <3>5, <3>6
    <2>4. CASE sent[k] # Chunks /\ held[k] \notin ended
      <3>1. /\ sent' = [sent EXCEPT ![k] = @ + 1]
            /\ down' = IF held[k] # live THEN down
                       ELSE [down EXCEPT ![live] = Append(@, Chunk(k, sent[k]))]
            /\ UNCHANGED <<linkVars, pc, on, up, held, active, crossing, fresh, open, ran, misread, part, whole>>
        BY <1>3, <2>4 DEF Send
      <3>2. sent[k] \in 0 .. Chunks - 1 /\ sent' \in [Pushes -> 0 .. Chunks]
        BY <2>1, <2>4, <3>1, RemoteAssumption DEF TypeOK
      <3>3. TypeOK'
        BY <3>1, <3>2 DEF TypeOK, linkVars
      <3>4. Stations' /\ Registered'
        BY <3>1 DEF Stations, Registered, linkVars
      <3>5. Wires'
        BY <2>1, <3>1, <3>2, ChunkSent DEF linkVars
      <3> QED
        BY <3>3, <3>4, <3>5
    <2> QED
      BY <2>2, <2>3, <2>4
  <1>4. CASE k \in Callers /\ TimeOut(k)
    <2>1. FailOutcome({k}) /\ on[k] # 0
      BY <1>4, FailEffect DEF TimeOut
    <2>2. UNCHANGED <<linkVars, down, up, held, sent, active, crossing, fresh, open, ran, misread, whole>>
      BY <1>4 DEF TimeOut
    <2>3. TypeOK'
      BY <2>1, <2>2 DEF TypeOK, FailOutcome, linkVars
    <2>4. Stations'
      BY <2>1, KindsApart DEF Stations, FailOutcome
    <2>5. Registered'
      BY <2>1, <2>2 DEF Registered, FailOutcome, Awaiting, linkVars
    <2>6. Wires'
      BY <2>2 DEF Wires, linkVars
    <2> QED
      BY <2>3, <2>4, <2>5, <2>6
  <1>5. CASE k \in Callers /\ Cancel(k)
    <2>1. /\ k \notin Releases /\ pc' = [pc EXCEPT ![k] = "cancelled"] /\ on' = [on EXCEPT ![k] = 0]
          /\ UNCHANGED <<linkVars, down, up, held, sent, active, crossing, fresh, open, ran, misread, part, whole>>
      BY <1>5 DEF Cancel
    <2>2. /\ pc' \in [Callers -> {"idle", "detach", "sending", "cancelled"} \cup Awaiting \cup Over]
          /\ on' \in [Callers -> 0 .. made]
      <3>1. pc' \in [Callers -> {"idle", "detach", "sending", "cancelled"} \cup Awaiting \cup Over]
        BY <2>1 DEF TypeOK
      <3>2. 0 \in 0 .. made /\ on \in [Callers -> 0 .. made]
        BY RemoteAssumption DEF TypeOK
      <3>3. on' \in [Callers -> 0 .. made]
        BY <2>1, <3>2, Zenon
      <3> QED
        BY <3>1, <3>3
    <2>3. TypeOK'
      BY <2>1, <2>2 DEF TypeOK, linkVars
    <2>4. Stations'
      BY <2>1, KindsApart DEF Stations, TypeOK
    <2>5. Registered'
      BY <2>1 DEF Registered, Awaiting, linkVars, TypeOK
    <2>6. Wires'
      BY <2>1 DEF Wires, linkVars
    <2> QED
      BY <2>3, <2>4, <2>5, <2>6
  <1>6. CASE Expire
    <2>1. /\ active' = FALSE
          /\ UNCHANGED <<linkVars, pc, on, down, up, held, sent, crossing, fresh, open, ran, misread, part, whole>>
      BY <1>6 DEF Expire
    <2>2. TypeOK'
      BY <2>1 DEF TypeOK, linkVars
    <2>3. Stations' /\ Registered' /\ Wires'
      BY <2>1 DEF Stations, Registered, Wires, linkVars
    <2> QED
      BY <2>2, <2>3
  <1> QED
    BY <1>2, <1>3, <1>4, <1>5, <1>6

LEMMA AnswersMade ==
  ASSUME NEW k, NEW step, NEW fine \in BOOLEAN,
         \/ Suits(k, step) /\ k \notin Pulls
         \/ k \in Pulls /\ step \in {"pull_begin", "pull_end"}
  PROVE  /\ Reply(k, step, fine) \in Answers
         /\ Reply(k, step, fine).call = k /\ Reply(k, step, fine).step = step
         /\ Reply(k, step, fine).fine = fine
  <1>1. Reply(k, step, fine).call = k /\ Reply(k, step, fine).step = step
        /\ Reply(k, step, fine).fine = fine
    BY DEF Reply
  <1>2. Reply(k, step, fine) \in Answers
    BY DEF Reply, Answers, Suits
  <1> QED
    BY <1>1, <1>2

\* What the worker has said to a request.
Said(m, r) ==
    /\ r \in Seq(Answers)
    /\ \A c \in Conns : up'[c] = IF c = live THEN up[c] \o r ELSE up[c]
    /\ \A i \in 1 .. Len(r) : r[i].call = m.call
    /\ m.call \in Singles => Len(r) = 1 /\ r[1].step = m.step
    /\ m.call \in Execs => /\ r[1].fine \in BOOLEAN
                           /\ m.step = "exec" => (r[1].fine => open)
                           /\ m.step = "again" => r[1].fine = open
    /\ misread' = IF m.step = "exec" /\ open /\ ~r[1].fine THEN misread \cup {m.call} ELSE misread
    /\ m.call \in Singles /\ m.step = "open" /\ r[1].fine => open'
    /\ m.call \in Pushes => \A i \in 1 .. Len(r) :
         r[i].step = "push_end" /\ r[i].fine => part[m.call] = Chunks /\ m.step = "push_end"

\* The workspace after the request: open, or as it was, or failed to open, or closed.
Reopens(m) ==
    /\ open' \in BOOLEAN /\ fresh' \in BOOLEAN
    /\ \/ open' = open /\ fresh' = fresh
       \/ m.step = "open" /\ open' /\ fresh'
       \/ m.step = "open" /\ ~open' /\ ~fresh'
       \/ m.step = "close" /\ ~open' /\ fresh' = fresh

HandleOutcome(m) ==
    /\ live \in Conns /\ down[live] # <<>> /\ m = Head(down[live]) /\ m \in Requests
    /\ \A c \in Conns : down'[c] = IF c = live THEN Tail(down[c]) ELSE down[c]
    /\ \E r : Said(m, r)
    /\ \A k \in Pushes \cup Pulls : k # m.call => part'[k] = part[k]
    /\ m.call \notin Pushes => part' = part
    /\ \A k \in Execs : ran'[k] = IF k = m.call /\ m.step # "open" /\ open THEN ran[k] + 1 ELSE ran[k]
    /\ Reopens(m)
    /\ whole' = IF m.call \in Pushes /\ m.step = "push_end" /\ part[m.call] = Chunks
                THEN whole \cup {m.call} ELSE whole
    /\ part' \in [Pushes \cup Pulls -> -1 .. Chunks]
    /\ ran' \in [Execs -> Nat] /\ misread' \subseteq Execs

LEMMA HandleExec ==
  ASSUME TypeOK, Wires, live \in Conns, NEW m \in Requests, m.step \in {"exec", "again"}, Handle(m)
  PROVE  /\ \E r : Said(m, r)
         /\ \A k \in Execs : ran'[k] = IF k = m.call /\ open THEN ran[k] + 1 ELSE ran[k]
         /\ ran' \in [Execs -> Nat] /\ UNCHANGED <<open, fresh, part, whole>>
         /\ m.call \in Execs
  <1>1. m.call \in Execs /\ m.call \notin Pushes /\ m.step # "open"
    BY RequestShape, KindsApart
  <1>2. open \in BOOLEAN
    BY DEF TypeOK
  <1>3. PICK fine \in BOOLEAN :
            /\ m.step = "exec" => (fine => open)
            /\ m.step = "again" => fine = open
            /\ misread' = IF m.step = "exec" /\ open /\ ~fine THEN misread \cup {m.call} ELSE misread
            /\ up' = [up EXCEPT ![live] = @ \o <<Reply(m.call, m.step, fine)>>]
    <2>1. CASE m.step = "exec"
      <3>1. PICK misleads \in {FALSE, open} :
                /\ misread' = IF misleads THEN misread \cup {m.call} ELSE misread
                /\ up' = [up EXCEPT ![live] = @ \o <<Reply(m.call, "exec", open /\ ~misleads)>>]
        BY <2>1 DEF Handle
      <3>2. CASE open = TRUE /\ misleads = TRUE
        <4>1. (open /\ ~misleads) = FALSE
          BY <3>2
        <4> QED
          BY <2>1, <3>1, <3>2, <4>1
      <3>3. CASE misleads = FALSE
        <4>1. (open /\ ~misleads) = open
          BY <1>2, <3>3
        <4> QED
          BY <1>2, <2>1, <3>1, <3>3, <4>1
      <3> QED
        BY <1>2, <3>1, <3>2, <3>3
    <2>2. CASE m.step = "again"
      <3>1. /\ up' = [up EXCEPT ![live] = @ \o <<Reply(m.call, "again", open)>>]
            /\ misread' = misread
        BY <2>2 DEF Handle
      <3> QED
        BY <1>2, <2>2, <3>1
    <2> QED
      BY <2>1, <2>2
  <1> DEFINE a == Reply(m.call, m.step, fine)
  <1>4. a \in Answers /\ a.call = m.call /\ a.step = m.step /\ a.fine = fine
    BY <1>1, AnswersMade, KindsApart DEF Suits
  <1>5. /\ ran' = [ran EXCEPT ![m.call] = IF open THEN @ + 1 ELSE @]
        /\ UNCHANGED <<open, fresh, part, whole>>
    BY DEF Handle
  <1>6. /\ \A k \in Execs : ran'[k] = IF k = m.call /\ open THEN ran[k] + 1 ELSE ran[k]
        /\ ran' \in [Execs -> Nat]
    BY <1>1, <1>5 DEF TypeOK
  <1>7. \A c \in Conns : up'[c] = IF c = live THEN up[c] \o <<a>> ELSE up[c]
    BY <1>3 DEF Wires
  <1> HIDE DEF a
  <1>8. <<a>> \in Seq(Answers) /\ Len(<<a>>) = 1 /\ <<a>>[1] = a
    BY <1>4
  <1>9. Said(m, <<a>>)
    BY <1>1, <1>3, <1>4, <1>7, <1>8 DEF Said
  <1> QED
    BY <1>1, <1>5, <1>6, <1>9

LEMMA HandleOpenClose ==
  ASSUME TypeOK, Wires, live \in Conns, NEW m \in Requests, m.step \in {"open", "close"}, Handle(m)
  PROVE  /\ \E r : Said(m, r)
         /\ UNCHANGED <<ran, part, whole>> /\ misread' = misread /\ Reopens(m)
         /\ m.call \in Singles /\ (m.step = "close" => m.call \in Releases)
  <1>1. /\ m.call \in Singles /\ Suits(m.call, m.step) /\ (m.call \in Execs => m.step = "open")
        /\ m.call \notin Pulls \cup Pushes /\ (m.step = "close" => m.call \in Releases)
    BY RequestShape, KindsApart DEF Singles, Suits
  <1>2. open \in BOOLEAN /\ fresh \in BOOLEAN
    BY DEF TypeOK
  <1>3. PICK fine \in BOOLEAN : /\ up' = [up EXCEPT ![live] = @ \o <<Reply(m.call, m.step, fine)>>]
                                /\ UNCHANGED <<ran, misread, part, whole>>
                                /\ m.step = "open" /\ fine => open'
                                /\ Reopens(m)
    <2>1. CASE m.step = "open"
      <3>1. PICK result \in {"opened", "no_directory", "not_started"} :
                /\ open' = (result = "opened" \/ (result = "no_directory" /\ open))
                /\ fresh' = (result = "opened" \/ (result = "no_directory" /\ fresh))
                /\ up' = [up EXCEPT ![live] = @ \o <<Reply(m.call, "open", result = "opened")>>]
        BY <2>1 DEF Handle
      <3>2. UNCHANGED <<ran, misread, part, whole>>
        BY <2>1 DEF Handle
      <3>3. Reopens(m)
        BY <1>2, <2>1, <3>1 DEF Reopens
      <3> QED
        BY <2>1, <3>1, <3>2, <3>3
    <2>2. CASE m.step = "close"
      <3>1. /\ up' = [up EXCEPT ![live] = @ \o <<Reply(m.call, "close", TRUE)>>]
            /\ open' = FALSE /\ UNCHANGED <<fresh, ran, misread, part, whole>>
        BY <2>2 DEF Handle
      <3>2. Reopens(m)
        BY <1>2, <2>2, <3>1 DEF Reopens
      <3> QED
        BY <2>2, <3>1, <3>2
    <2> QED
      BY <2>1, <2>2
  <1> DEFINE a == Reply(m.call, m.step, fine)
  <1>4. a \in Answers /\ a.call = m.call /\ a.step = m.step /\ a.fine = fine
    BY <1>1, AnswersMade
  <1>5. \A c \in Conns : up'[c] = IF c = live THEN up[c] \o <<a>> ELSE up[c]
    BY <1>3 DEF Wires
  <1> HIDE DEF a
  <1>6. <<a>> \in Seq(Answers) /\ Len(<<a>>) = 1 /\ <<a>>[1] = a
    BY <1>4
  <1>7. Said(m, <<a>>)
    BY <1>1, <1>3, <1>4, <1>5, <1>6 DEF Said
  <1> QED
    BY <1>1, <1>3, <1>7

LEMMA HandlePush ==
  ASSUME TypeOK, Wires, live \in Conns, NEW m \in Requests,
         m.step \in {"push_begin", "chunk", "push_end"}, Handle(m)
  PROVE  /\ \E r : Said(m, r)
         /\ UNCHANGED <<ran, misread, open, fresh>> /\ m.call \in Pushes
         /\ part' \in [Pushes \cup Pulls -> -1 .. Chunks]
         /\ \A k \in Pushes \cup Pulls : k # m.call => part'[k] = part[k]
         /\ whole' = IF m.step = "push_end" /\ part[m.call] = Chunks
                     THEN whole \cup {m.call} ELSE whole
  <1> USE RemoteAssumption
  <1>1. m.call \in Pushes /\ (m.step = "chunk" => m.seq \in 0 .. Chunks - 1)
        /\ m.call \notin Pulls \cup Singles
    BY RequestShape, KindsApart DEF Singles
  <1>1a. m.call \notin Execs /\ m.step # "exec"
    BY <1>1, KindsApart
  <1>2. part \in [Pushes \cup Pulls -> -1 .. Chunks] /\ open \in BOOLEAN
    BY DEF TypeOK
  <1>3. ASSUME NEW step \in {"push_begin", "push_end"}, NEW fine \in BOOLEAN,
               step = "push_end" /\ fine => m.step = "push_end" /\ part[m.call] = Chunks,
               up' = [up EXCEPT ![live] = @ \o <<Reply(m.call, step, fine)>>], misread' = misread
        PROVE  \E r : Said(m, r)
    <2> DEFINE a == Reply(m.call, step, fine)
    <2>1. a \in Answers /\ a.call = m.call /\ a.step = step /\ a.fine = fine
      BY <1>1, AnswersMade DEF Suits
    <2>2. \A c \in Conns : up'[c] = IF c = live THEN up[c] \o <<a>> ELSE up[c]
      BY <1>3 DEF Wires
    <2> HIDE DEF a
    <2>3. <<a>> \in Seq(Answers) /\ Len(<<a>>) = 1 /\ <<a>>[1] = a
      BY <2>1
    <2>4. /\ \A i \in 1 .. Len(<<a>>) : <<a>>[i].call = m.call
          /\ \A i \in 1 .. Len(<<a>>) : <<a>>[i].step = "push_end" /\ <<a>>[i].fine =>
               part[m.call] = Chunks /\ m.step = "push_end"
      BY <1>3, <2>1, <2>3
    <2>5. Said(m, <<a>>)
      BY <1>1, <1>1a, <1>3, <2>2, <2>3, <2>4 DEF Said
    <2> QED
      BY <2>5
  <1>4. CASE m.step = "push_begin"
    <2>1. /\ part' = [part EXCEPT ![m.call] = IF open THEN 0 ELSE -1]
          /\ up' = [up EXCEPT ![live] = @ \o <<Reply(m.call, "push_begin", open)>>]
          /\ UNCHANGED <<open, fresh, ran, misread, whole>>
      BY <1>4 DEF Handle, workerVars
    <2>2. \E r : Said(m, r)
      BY <1>2, <1>3, <2>1
    <2> DEFINE v == IF open THEN 0 ELSE -1
    <2>3. v \in -1 .. Chunks /\ part' = [part EXCEPT ![m.call] = v]
      BY <2>1
    <2> HIDE DEF v
    <2>4. part' \in [Pushes \cup Pulls -> -1 .. Chunks]
      BY <1>2, <2>3
    <2> QED
      BY <1>1, <1>2, <1>4, <2>1, <2>2, <2>4
  <1>5. CASE m.step = "chunk"
    <2>1. /\ part' = [part EXCEPT ![m.call] = IF @ = m.seq THEN @ + 1 ELSE -1]
          /\ up' = [up EXCEPT ![live] = @ \o IF part[m.call] \in {-1, m.seq} THEN <<>>
                                             ELSE <<Reply(m.call, "push_end", FALSE)>>]
          /\ UNCHANGED <<open, fresh, ran, misread, whole>>
      BY <1>5 DEF Handle, workerVars
    <2>2. ASSUME part[m.call] \in {-1, m.seq} PROVE \E r : Said(m, r)
      <3> DEFINE none == <<>>
      <3>1. \A c \in Conns : up'[c] = IF c = live THEN up[c] \o none ELSE up[c]
        BY <2>1, <2>2 DEF Wires
      <3>2. none \in Seq(Answers) /\ Len(none) = 0
        OBVIOUS
      <3>3. misread' = misread
        BY <2>1
      <3> HIDE DEF none
      <3>4. Said(m, none)
        BY <1>1, <1>1a, <3>1, <3>2, <3>3 DEF Said
      <3> QED
        BY <3>4
    <2>3. ASSUME part[m.call] \notin {-1, m.seq} PROVE \E r : Said(m, r)
      <3> DEFINE no == FALSE
      <3>1. up' = [up EXCEPT ![live] = @ \o <<Reply(m.call, "push_end", no)>>]
        BY <2>1, <2>3
      <3>2. no \in BOOLEAN /\ ~no
        OBVIOUS
      <3> HIDE DEF no
      <3> QED
        BY <1>3, <2>1, <3>1, <3>2
    <2>4. \E r : Said(m, r)
      BY <2>2, <2>3
    <2>5. part' \in [Pushes \cup Pulls -> -1 .. Chunks]
      BY <1>1, <1>2, <1>5, <2>1
    <2> QED
      BY <1>1, <1>2, <1>5, <2>1, <2>4, <2>5
  <1>6. CASE m.step = "push_end"
    <2>1. /\ part' = [part EXCEPT ![m.call] = -1]
          /\ up' = [up EXCEPT ![live] = @ \o <<Reply(m.call, "push_end", part[m.call] = Chunks)>>]
          /\ whole' = IF part[m.call] = Chunks THEN whole \cup {m.call} ELSE whole
          /\ UNCHANGED <<open, fresh, ran, misread>>
      BY <1>6 DEF Handle, workerVars
    <2>2. (part[m.call] = Chunks) \in BOOLEAN
      OBVIOUS
    <2>3. \E r : Said(m, r)
      BY <1>3, <1>6, <2>1, <2>2
    <2>4. -1 \in -1 .. Chunks
      BY RemoteAssumption
    <2>5. part' \in [Pushes \cup Pulls -> -1 .. Chunks]
      BY <1>2, <2>1, <2>4, Zenon
    <2> QED
      BY <1>1, <1>2, <1>6, <2>1, <2>3, <2>5
  <1> QED
    BY <1>4, <1>5, <1>6

LEMMA HandlePull ==
  ASSUME TypeOK, Wires, live \in Conns, NEW m \in Requests, m.step = "pull", Handle(m)
  PROVE  /\ \E r : Said(m, r)
         /\ UNCHANGED <<ran, misread, open, fresh, part, whole>> /\ m.call \in Pulls
  <1> USE RemoteAssumption
  <1>1. m.call \in Pulls /\ m.call \notin Singles \cup Pushes
    BY RequestShape, KindsApart DEF Singles
  <1>1a. m.call \notin Execs /\ m.step # "exec"
    BY <1>1, KindsApart
  <1> DEFINE chunks == [i \in 1 .. Chunks |-> Chunk(m.call, i - 1)]
             begin == Reply(m.call, "pull_begin", TRUE)
             content == <<begin>> \o chunks
             all(fine) == (IF fine THEN content ELSE <<>>) \o <<Reply(m.call, "pull_end", fine)>>
  <1>2. open \in BOOLEAN /\ Chunks \in Nat
    BY DEF TypeOK
  <1>3. PICK fine \in {FALSE, open} : up' = [up EXCEPT ![live] = @ \o all(fine)]
    BY DEF Handle
  <1>4. UNCHANGED <<ran, misread, open, fresh, part, whole>>
    BY DEF Handle, workerVars
  <1>5. \A b \in BOOLEAN, step \in {"pull_begin", "pull_end"} :
            Reply(m.call, step, b) \in {a \in Answers : a.call = m.call}
    BY <1>1, AnswersMade
  <1>6. ASSUME NEW i \in 1 .. Chunks PROVE Chunk(m.call, i - 1) \in {a \in Answers : a.call = m.call}
    <2>1. i - 1 \in 0 .. Chunks - 1
      BY <1>2
    <2> QED
      BY <1>1, <2>1 DEF Chunk, Answers
  <1> DEFINE Ours == {a \in Answers : a.call = m.call}
  <1>6a. begin \in Ours /\ Reply(m.call, "pull_end", fine) \in Ours
    BY <1>2, <1>5
  <1>6b. \A i \in 1 .. Chunks : Chunk(m.call, i - 1) \in Ours
    BY <1>6
  <1>6c. \A a \in Ours : a \in Answers /\ a.call = m.call
    OBVIOUS
  <1> HIDE DEF Ours
  <1>6d. chunks \in Seq(Ours)
    BY <1>2, <1>6b
  <1> HIDE DEF begin
  <1>8. <<begin>> \in Seq(Ours)
    BY <1>6a
  <1>9. <<Reply(m.call, "pull_end", fine)>> \in Seq(Ours) /\ <<>> \in Seq(Ours)
    BY <1>6a
  <1> HIDE DEF chunks
  <1>10. content \in Seq(Ours)
    BY <1>6d, <1>8, JoinAt
  <1> HIDE DEF content
  <1>11. all(fine) \in Seq(Ours)
    BY <1>9, <1>10
  <1> HIDE DEF all
  <1>12. all(fine) \in Seq(Answers) /\ (\A i \in 1 .. Len(all(fine)) : all(fine)[i].call = m.call)
    BY <1>11, <1>6c
  <1>13. \A c \in Conns : up'[c] = IF c = live THEN up[c] \o all(fine) ELSE up[c]
    BY <1>3 DEF Wires
  <1>14. Said(m, all(fine))
    BY <1>1, <1>1a, <1>4, <1>12, <1>13 DEF Said
  <1> QED
    BY <1>1, <1>4, <1>14

LEMMA HandleEffect ==
  ASSUME TypeOK, Wires, WorkerHandles
  PROVE  HandleOutcome(Head(down[live]))
  <1> DEFINE m == Head(down[live])
  <1>1. live \in Conns /\ down[live] # <<>> /\ down[live] \in Seq(Requests) /\ Handle(m)
    BY RemoteAssumption DEF WorkerHandles, TypeOK, Wires, Conns
  <1>2. m \in Requests
    BY <1>1, TailAt
  <1>3. \A c \in Conns : down'[c] = IF c = live THEN Tail(down[c]) ELSE down[c]
    BY <1>1 DEF WorkerHandles, Wires
  <1> HIDE DEF m
  <1>4. /\ part \in [Pushes \cup Pulls -> -1 .. Chunks] /\ ran \in [Execs -> Nat]
        /\ open \in BOOLEAN /\ fresh \in BOOLEAN /\ misread \subseteq Execs
    BY DEF TypeOK
  <1>5. CASE m.step \in {"exec", "again"}
    <2>1. /\ \E r : Said(m, r)
          /\ \A k \in Execs : ran'[k] = IF k = m.call /\ open THEN ran[k] + 1 ELSE ran[k]
          /\ ran' \in [Execs -> Nat] /\ UNCHANGED <<open, fresh, part, whole>>
          /\ m.call \in Execs /\ m.call \notin Pushes
      BY <1>1, <1>2, <1>5, HandleExec, KindsApart
    <2>2. misread' \subseteq Execs
      BY <1>4, <2>1 DEF Said
    <2>3. Reopens(m)
      BY <1>4, <2>1 DEF Reopens
    <2> QED
      BY <1>1, <1>2, <1>3, <1>4, <1>5, <2>1, <2>2, <2>3 DEF HandleOutcome, m
  <1>6. CASE m.step \in {"open", "close"}
    <2>1. /\ \E r : Said(m, r)
          /\ UNCHANGED <<ran, misread, part, whole>> /\ Reopens(m)
          /\ m.call \in Singles /\ (m.step = "close" => m.call \in Releases) /\ m.call \notin Pushes
      BY <1>1, <1>2, <1>6, HandleOpenClose, KindsApart DEF Singles
    <2>2. \A k \in Execs : k = m.call => m.step = "open"
      BY <1>6, <2>1, KindsApart
    <2> QED
      BY <1>1, <1>2, <1>3, <1>4, <1>6, <2>1, <2>2 DEF HandleOutcome, m
  <1>7. CASE m.step \in {"push_begin", "chunk", "push_end"}
    <2>1. /\ \E r : Said(m, r)
          /\ UNCHANGED <<ran, misread, open, fresh>> /\ m.call \in Pushes /\ m.call \notin Execs
          /\ part' \in [Pushes \cup Pulls -> -1 .. Chunks]
          /\ \A k \in Pushes \cup Pulls : k # m.call => part'[k] = part[k]
          /\ whole' = IF m.step = "push_end" /\ part[m.call] = Chunks
                      THEN whole \cup {m.call} ELSE whole
      BY <1>1, <1>2, <1>7, HandlePush, KindsApart
    <2>2. Reopens(m)
      BY <1>4, <2>1 DEF Reopens
    <2> QED
      BY <1>1, <1>2, <1>3, <1>4, <1>7, <2>1, <2>2 DEF HandleOutcome, m
  <1>8. CASE m.step = "pull"
    <2>1. /\ \E r : Said(m, r)
          /\ UNCHANGED <<ran, misread, open, fresh, part, whole>> /\ m.call \notin Pushes \cup Execs
      BY <1>1, <1>2, <1>8, HandlePull, KindsApart
    <2>2. Reopens(m)
      BY <1>4, <2>1 DEF Reopens
    <2> QED
      BY <1>1, <1>2, <1>3, <1>4, <1>8, <2>1, <2>2 DEF HandleOutcome, m
  <1> QED
    BY <1>2, <1>5, <1>6, <1>7, <1>8, RequestShape DEF m

LEMMA LinkHandles ==
  ASSUME LinkInv, WorkerHandles
  PROVE  LinkInv'
  <1> USE DEF LinkInv
  <1> DEFINE m == Head(down[live])
  <1>1. HandleOutcome(m) /\ down[live] \in Seq(Requests) /\ down[live] # <<>> /\ live \in Conns
    BY HandleEffect DEF HandleOutcome, Wires
  <1>2. UNCHANGED <<linkVars, pc, on, pushVars, stateVars>>
    BY DEF WorkerHandles
  <1>3. TypeOK'
    <2>1. whole' \subseteq Pushes \cup Pulls
      BY <1>1 DEF HandleOutcome, TypeOK
    <2> QED
      BY <1>1, <1>2, <2>1 DEF HandleOutcome, Reopens, TypeOK, linkVars, pushVars, stateVars
  <1>4. Stations' /\ Registered'
    BY <1>2 DEF Stations, Registered, linkVars, pushVars
  <1>5. down' \in [Conns -> Seq(Requests)]
    <2>1. Tail(down[live]) \in Seq(Requests)
      BY <1>1, TailAt
    <2>2. down' = [down EXCEPT ![live] = Tail(@)]
      BY DEF WorkerHandles
    <2> QED
      BY <2>1, <2>2 DEF Wires
  <1>6. up' \in [Conns -> Seq(Answers)]
    <2>1. PICK r : Said(m, r)
      BY <1>1 DEF HandleOutcome
    <2>2. up[live] \o r \in Seq(Answers)
      BY <1>1, <2>1, JoinAt DEF Said, Wires
    <2>3. \A c \in Conns : up'[c] \in Seq(Answers)
      BY <2>1, <2>2 DEF Said, Wires
    <2>4. \E t : up' = [up EXCEPT ![live] = t]
      BY DEF WorkerHandles, Handle
    <2> QED
      BY <2>3, <2>4 DEF Wires
  <1>7. Wires'
    <2>1. \A c \in Conns : c # live => down'[c] = <<>>
      BY <1>1 DEF HandleOutcome, Wires
    <2> QED
      BY <1>2, <1>5, <1>6, <2>1 DEF Wires, linkVars
  <1> QED
    BY <1>3, <1>4, <1>7

\* A call is given its result, or goes on by itself.
LEMMA ReturnKeepsLink ==
  ASSUME LinkInv, NEW k \in Callers, NEW result,
         \/ k \in Execs /\ result \in {"ok", "not_open"}
         \/ k \in Uses /\ result \in {"used", "failed"}
         \/ k \in Releases /\ result = "released"
         \/ k \in Pushes /\ result \in {"sending", "pushed", "failed"}
         \/ k \in Pulls /\ result \in {"pulled", "failed"},
         pc' = [pc EXCEPT ![k] = result], on' = [on EXCEPT ![k] = 0], down' = down,
         UNCHANGED <<linkVars, pushVars, workerVars, crossing>>, whole' \subseteq Pushes \cup Pulls,
         up' \in [Conns -> Seq(Answers)], part' \in [Pushes \cup Pulls -> -1 .. Chunks],
         active' \in BOOLEAN
  PROVE  LinkInv'
  <1> USE DEF LinkInv
  <1>1. /\ pc' \in [Callers -> {"idle", "detach", "sending", "cancelled"} \cup Awaiting \cup Over]
        /\ on' \in [Callers -> 0 .. made]
    BY DEF TypeOK, Over
  <1>2. TypeOK'
    BY <1>1 DEF TypeOK, linkVars, pushVars, workerVars
  <1>3. Stations'
    BY KindsApart DEF Stations, TypeOK
  <1>4. Registered'
    BY DEF Registered, Awaiting, linkVars, pushVars, TypeOK
  <1>5. Wires'
    BY DEF Wires, linkVars
  <1> QED
    BY <1>2, <1>3, <1>4, <1>5

\* The endpoint takes the first answer of its connection.
LEMMA TakesAnswer ==
  ASSUME LinkInv, NEW c \in Conns, EndpointReads(c)
  PROVE  /\ up[c] \in Seq(Answers) /\ up[c] # <<>> /\ Head(up[c]) \in Answers
         /\ Head(up[c]).call \in Callers
         /\ up' \in [Conns -> Seq(Answers)]
         /\ \A d \in Conns : up'[d] = IF d = c THEN Tail(up[d]) ELSE up[d]
  <1>1. up[c] \in Seq(Answers) /\ up[c] # <<>> /\ up' = [up EXCEPT ![c] = Tail(@)]
    BY DEF EndpointReads, LinkInv, Wires
  <1>2. Head(up[c]) \in Answers /\ Tail(up[c]) \in Seq(Answers)
    BY <1>1, TailAt
  <1>3. Head(up[c]).call \in Callers
    BY <1>2, AnswerShape
  <1>4. /\ up' \in [Conns -> Seq(Answers)]
        /\ \A d \in Conns : up'[d] = IF d = c THEN Tail(up[d]) ELSE up[d]
    BY <1>1, <1>2 DEF LinkInv, Wires
  <1> QED
    BY <1>1, <1>2, <1>3, <1>4

\* What reading an answer leads to.
LEMMA ReadCases ==
  ASSUME LinkInv, NEW c \in Conns, EndpointReads(c), NEW m, m = Head(up[c])
  PROVE  /\ UNCHANGED <<linkVars, workerVars>>
         /\ \/ ~Owed(c, m) /\ UNCHANGED <<down, pc, on, pushVars, stateVars, part, whole>>
            \/ /\ Owed(c, m)
               /\ \/ m.call \in Execs /\ ExecAnswered(m.call, m)
                  \/ m.call \in Uses /\ UseAnswered(m.call, m)
                  \/ m.call \in Releases /\ Return(m.call, "released")
                        /\ UNCHANGED <<pushVars, stateVars, part, whole>>
                  \/ m.call \in Pushes /\ PushAnswered(m.call, m)
                  \/ m.call \in Pulls /\ PullAnswered(m.call, m)
  <1>1. m.call \in Callers
    BY TakesAnswer
  <1>2. UNCHANGED <<linkVars, workerVars>>
    BY DEF EndpointReads
  <1>3. CASE ~Owed(c, m)
    BY <1>2, <1>3 DEF EndpointReads
  <1>4. CASE Owed(c, m)
    BY <1>1, <1>2, <1>4, KindsApart DEF EndpointReads, Callers
  <1> QED
    BY <1>3, <1>4

LEMMA LinkReads ==
  ASSUME LinkInv, NEW c \in Conns, EndpointReads(c)
  PROVE  LinkInv'
  <1> USE DEF LinkInv
  <1> DEFINE m == Head(up[c])
  <1>1. m \in Answers /\ m.call \in Callers /\ up' \in [Conns -> Seq(Answers)]
    BY TakesAnswer
  <1> HIDE DEF m
  <1>2. /\ part \in [Pushes \cup Pulls -> -1 .. Chunks] /\ active \in BOOLEAN /\ fresh \in BOOLEAN
        /\ open \in BOOLEAN /\ registered \in 0 .. made /\ held \in [Pushes -> 0 .. made]
        /\ whole \subseteq Pushes \cup Pulls /\ crossing \subseteq Releases
    BY DEF TypeOK
  <1>3. UNCHANGED <<linkVars, workerVars>>
    BY ReadCases DEF m
  <1>4. CASE ~Owed(c, m)
    <2>1. UNCHANGED <<linkVars, workerVars, down, pc, on, pushVars, stateVars, part, whole>>
      BY <1>4, ReadCases DEF m
    <2>2. TypeOK'
      BY <2>1 DEF TypeOK, linkVars, workerVars, pushVars, stateVars
    <2>3. Stations' /\ Registered'
      BY <2>1 DEF Stations, Registered, linkVars, pushVars
    <2>4. Wires'
      BY <1>1, <2>1 DEF Wires, linkVars
    <2> QED
      BY <2>2, <2>3, <2>4
  <1>5. CASE m.call \in Execs /\ ExecAnswered(m.call, m)
    <2>1. UNCHANGED <<pushVars, stateVars, part, whole>>
      BY <1>5 DEF ExecAnswered
    <2>2. \/ Return(m.call, "ok") \/ Return(m.call, "not_open")
          \/ Request(m.call, registered, "open") \/ Request(m.call, registered, "again")
      BY <1>5 DEF ExecAnswered
    <2>3. CASE Return(m.call, "ok") \/ Return(m.call, "not_open")
      BY <1>1, <1>2, <1>3, <1>5, <2>1, <2>3, ReturnKeepsLink DEF Return, stateVars
    <2>4. CASE Request(m.call, registered, "open") \/ Request(m.call, registered, "again")
      BY <1>1, <1>2, <1>3, <1>5, <2>1, <2>4, RequestKeepsLink DEF Suits, stateVars, pushVars, workerVars
    <2> QED
      BY <2>2, <2>3, <2>4
  <1>6. CASE m.call \in Uses /\ UseAnswered(m.call, m)
    <2>1. /\ UNCHANGED <<pushVars, part, whole, crossing>>
          /\ Return(m.call, "used") \/ Return(m.call, "failed")
          /\ active' \in BOOLEAN
      BY <1>2, <1>6 DEF UseAnswered, stateVars
    <2> QED
      BY <1>1, <1>2, <1>3, <1>6, <2>1, ReturnKeepsLink DEF Return
  <1>7. CASE /\ m.call \in Releases /\ Return(m.call, "released")
             /\ UNCHANGED <<pushVars, stateVars, part, whole>>
    BY <1>1, <1>2, <1>3, <1>7, ReturnKeepsLink DEF Return, stateVars
  <1>8. CASE m.call \in Pushes /\ PushAnswered(m.call, m)
    <2>1. UNCHANGED <<pushVars, stateVars, part, whole>>
      BY <1>8 DEF PushAnswered
    <2>2. \E result \in {"failed", "sending", "pushed"} : Return(m.call, result)
      BY <1>8 DEF PushAnswered, Return
    <2> QED
      BY <1>1, <1>2, <1>3, <1>8, <2>1, <2>2, ReturnKeepsLink DEF Return, stateVars
  <1>9. CASE m.call \in Pulls /\ PullAnswered(m.call, m)
    <2>1. UNCHANGED <<down, pushVars, stateVars>>
      BY <1>9 DEF PullAnswered
    <2>2. CASE \/ m.step = "pull_begin" /\ part' = [part EXCEPT ![m.call] = 0]
                     /\ UNCHANGED <<pc, on, whole>>
               \/ m.step = "chunk" /\ part[m.call] = m.seq
                     /\ part' = [part EXCEPT ![m.call] = @ + 1] /\ UNCHANGED <<pc, on, whole>>
      <3>1. m.step = "chunk" => m.seq \in 0 .. Chunks - 1
        BY <1>1, AnswerShape
      <3>2. part' \in [Pushes \cup Pulls -> -1 .. Chunks]
        BY <1>2, <1>9, <2>2, <3>1, RemoteAssumption
      <3>3. TypeOK'
        BY <1>3, <2>1, <2>2, <3>2 DEF TypeOK, linkVars, workerVars, pushVars, stateVars
      <3>4. Stations' /\ Registered'
        BY <1>3, <2>1, <2>2 DEF Stations, Registered, linkVars, pushVars
      <3>5. Wires'
        BY <1>1, <1>3, <2>1 DEF Wires, linkVars
      <3> QED
        BY <3>3, <3>4, <3>5
    <2>3. CASE /\ part' = [part EXCEPT ![m.call] = -1] /\ on' = [on EXCEPT ![m.call] = 0]
               /\ \/ pc' = [pc EXCEPT ![m.call] = "pulled"] /\ whole' = whole \cup {m.call}
                  \/ pc' = [pc EXCEPT ![m.call] = "failed"] /\ UNCHANGED whole
      <3>1. -1 \in -1 .. Chunks
        BY RemoteAssumption
      <3>2. part' \in [Pushes \cup Pulls -> -1 .. Chunks]
        BY <1>2, <2>3, <3>1, Zenon
      <3>3. whole' \subseteq Pushes \cup Pulls
        BY <1>2, <1>9, <2>3
      <3> QED
        BY <1>1, <1>2, <1>3, <1>9, <2>1, <2>3, <3>2, <3>3, ReturnKeepsLink DEF stateVars
    <2> QED
      BY <1>9, <2>2, <2>3 DEF PullAnswered
  <1> QED
    BY <1>4, <1>5, <1>6, <1>7, <1>8, <1>9, ReadCases DEF m

\* Types, stations and connections, through every step.
LEMMA LinkStep ==
  ASSUME LinkInv, [Next]_vars
  PROVE  LinkInv'
  <1>1. CASE UNCHANGED vars
    <2>1. UNCHANGED <<linkVars, down, up, pc, on, pushVars, stateVars, workerVars, part, whole>>
      BY <1>1 DEF vars
    <2>2. TypeOK'
      BY <2>1 DEF LinkInv, TypeOK, linkVars, pushVars, stateVars, workerVars
    <2>3. Stations' /\ Wires' /\ Registered'
      BY <2>1 DEF LinkInv, Stations, Wires, Registered, linkVars, pushVars
    <2> QED
      BY <2>2, <2>3 DEF LinkInv
  <1>2. CASE Connect \/ Break \/ WorkerDies \/ \E c \in Conns : EndpointEnds(c)
    BY <1>2, LinkComesAndGoes
  <1>3. CASE WorkerHandles
    BY <1>3, LinkHandles
  <1>4. CASE \E c \in Conns : EndpointReads(c)
    BY <1>4, LinkReads
  <1>5. CASE \E k \in Callers : Exec(k) \/ Use(k) \/ Push(k) \/ Pull(k) \/ Release(k)
    BY <1>5, LinkCallsBegin
  <1>6. CASE \E k \in Callers : Detached(k) \/ Send(k) \/ TimeOut(k) \/ Cancel(k)
    BY <1>6, LinkCallsGoOn
  <1>7. CASE Expire
    BY <1>7, LinkCallsGoOn
  <1> QED
    BY <1>1, <1>2, <1>3, <1>4, <1>5, <1>6, <1>7 DEF Next

-----------------------------------------------------------------------------
(* What a step does to the messages of the calls that send one at a time *)

\* The station of a call does not tell more of its message than before.
Eased(k) ==
    \/ pc'[k] = pc[k]
    \/ pc[k] = "idle" /\ pc'[k] = "detach"
    \/ pc'[k] \in {"released", "failed", "cancelled"}
    \/ pc[k] = "open" /\ pc'[k] = "not_open"

\* No message is new, none is read.
Quiet ==
    /\ \A c \in Conns : down'[c] \in {down[c], <<>>} /\ up'[c] \in {up[c], <<>>}
    /\ UNCHANGED <<ran, misread>> /\ \A k \in Singles : Eased(k)

\* At most one message is new, the first of its call if that is one of the Singles.
Sends(x) ==
    /\ x \in Requests
    /\ \A c \in Conns : /\ up'[c] = up[c]
                        /\ down'[c] = down[c] \/ (c = live /\ down'[c] = Append(down[c], x))
    /\ UNCHANGED <<ran, misread>> /\ \A k \in Singles \ {x.call} : pc'[k] = pc[k]
    /\ x.call \in Singles => /\ pc[x.call] \in {"idle", "detach"} /\ pc'[x.call] = x.step
                             /\ x.call \in Execs => x.step = "exec"

\* An answer is read from connection c, and its command may go on with a message.
Reads(c, m) ==
    /\ up[c] # <<>> /\ m = Head(up[c]) /\ UNCHANGED <<ran, misread>>
    /\ \A d \in Conns : up'[d] = IF d = c THEN Tail(up[d]) ELSE up[d]
    /\ \A k \in Singles \ {m.call} : pc'[k] = pc[k]
    /\ \/ /\ \A d \in Conns : down'[d] = down[d]
          /\ \/ pc'[m.call] = pc[m.call]
             \/ /\ m.call \in Singles \ Execs /\ pc'[m.call] \notin {"idle", "detach"}
             \/ /\ m.call \notin Singles
             \/ /\ m.call \in Execs /\ pc[m.call] = m.step
                /\ pc'[m.call] \in {IF m.step # "open" /\ m.fine THEN "ok" ELSE "not_open", "failed"}
       \/ /\ m.call \in Execs /\ pc[m.call] = m.step
          /\ \/ m.step = "exec" /\ ~m.fine /\ pc'[m.call] = "open"
             \/ m.step = "open" /\ m.fine /\ pc'[m.call] = "again"
          /\ \A d \in Conns : \/ down'[d] = down[d]
                              \/ d = live /\ down'[d] = Append(down[d], Message(m.call, pc'[m.call]))

SinglesInv == OneAtATime /\ RunsToldRight

LEMMA SinglesStart == Init => SinglesInv
  <1> SUFFICES ASSUME Init PROVE SinglesInv
    OBVIOUS
  <1>1. \A c \in Conns : Len(down[c]) = 0 /\ Len(up[c]) = 0
    BY DEF Init
  <1>2. \A k \in Execs : pc[k] = "idle" /\ Told[k] = 0 /\ k \notin misread
    BY DEF Init, Callers, Told
  <1>3. OneAtATime
    BY <1>1 DEF OneAtATime, OneRequest, OneAnswer, OneOfThem, RequestsFit, AnswersFit
  <1>4. RunsToldRight
    BY <1>1, <1>2 DEF RunsToldRight
  <1> QED
    BY <1>3, <1>4 DEF SinglesInv

LEMMA ToldStands ==
  ASSUME UNCHANGED <<ran, misread>>
  PROVE  Told' = Told
  BY DEF Told

LEMMA SinglesQuiet ==
  ASSUME LinkInv, SinglesInv, Quiet
  PROVE  SinglesInv'
  <1> USE DEF SinglesInv
  <1>1. \A c \in Conns : Len(<<>>) = 0
    OBVIOUS
  <1>2. \A c \in Conns : \A i \in 1 .. Len(down'[c]) : i \in 1 .. Len(down[c]) /\ down'[c] = down[c]
    BY DEF Quiet
  <1>3. \A c \in Conns : \A i \in 1 .. Len(up'[c]) : i \in 1 .. Len(up[c]) /\ up'[c] = up[c]
    BY DEF Quiet
  <1>4. \A k \in Singles : \A step : Fits(pc[k], step) => Fits(pc'[k], step)
    BY DEF Quiet, Eased, Fits, Awaiting
  <1>5. OneRequest' /\ OneAnswer' /\ OneOfThem'
    <2>1. OneRequest'
      BY <1>2 DEF OneAtATime, OneRequest
    <2>2. OneAnswer'
      BY <1>3 DEF OneAtATime, OneAnswer
    <2>3. OneOfThem'
      BY <1>2, <1>3 DEF OneAtATime, OneOfThem
    <2> QED
      BY <2>1, <2>2, <2>3
  <1>6. RequestsFit' /\ AnswersFit'
    BY <1>2, <1>3, <1>4 DEF OneAtATime, RequestsFit, AnswersFit
  <1>6a. Told' = Told /\ misread' = misread
    BY ToldStands DEF Quiet
  <1>7. ASSUME NEW k \in Execs
        PROVE /\ Told'[k] \in {0, 1}
              /\ pc'[k] \in {"idle", "open", "not_open"} => Told'[k] = 0
              /\ pc'[k] = "ok" => Told'[k] = 1
              /\ pc'[k] = "idle" => k \notin misread'
    BY <1>6a, <1>7 DEF RunsToldRight, Quiet, Eased, Singles
  <1>8. RunsToldRight'
    BY <1>2, <1>3, <1>6a, <1>7 DEF RunsToldRight
  <1> QED
    BY <1>5, <1>6, <1>8 DEF OneAtATime

LEMMA SinglesSends ==
  ASSUME LinkInv, SinglesInv, NEW x, Sends(x)
  PROVE  SinglesInv'
  <1> USE DEF SinglesInv
  <1> DEFINE Old(c, i) == i \in 1 .. Len(down[c]) /\ down'[c][i] = down[c][i]
             New(c, i) == c = live /\ i = Len(down[c]) + 1 /\ down'[c][i] = x
  <1>1. ASSUME NEW c \in Conns, NEW i \in 1 .. Len(down'[c]) PROVE Old(c, i) \/ New(c, i)
    <2>1. down[c] \in Seq(Requests) /\ x \in Requests
      BY DEF LinkInv, Wires, Sends
    <2>2. CASE down'[c] = down[c]
      BY <2>2
    <2>3. CASE c = live /\ down'[c] = Append(down[c], x)
      <3>1. /\ Len(down'[c]) = Len(down[c]) + 1 /\ down'[c][Len(down[c]) + 1] = x
            /\ \A j \in 1 .. Len(down[c]) : down'[c][j] = down[c][j]
        BY <2>1, <2>3, AppendAt
      <3>2. Len(down[c]) \in Nat
        BY <2>1
      <3> QED
        BY <2>3, <3>1, <3>2
    <2> QED
      BY <2>2, <2>3 DEF Sends
  <1>2. x.call \in Singles => 
          /\ \A c \in Conns : \A i \in 1 .. Len(down[c]) : down[c][i].call # x.call
          /\ \A c \in Conns : \A i \in 1 .. Len(up[c]) : up[c][i].call # x.call
    BY DEF Sends, OneAtATime, RequestsFit, AnswersFit, Fits
  <1>3. \A c \in Conns : up'[c] = up[c]
    BY DEF Sends
  <1> HIDE DEF Old, New
  <1>4. \A c \in Conns : \A i : Old(c, i) => i \in 1 .. Len(down[c]) /\ down'[c][i] = down[c][i]
    BY DEF Old
  <1>5. \A c \in Conns : \A i : New(c, i) => c = live /\ i = Len(down[c]) + 1 /\ down'[c][i] = x
    BY DEF New
  <1>6. OneRequest'
    <2> SUFFICES ASSUME NEW c \in Conns, NEW d \in Conns,
                        NEW i \in 1 .. Len(down'[c]), NEW j \in 1 .. Len(down'[d]),
                        down'[c][i].call \in Singles, down'[c][i].call = down'[d][j].call
                 PROVE  c = d /\ i = j
      BY DEF OneRequest
    <2>1. CASE Old(c, i) /\ Old(d, j)
      BY <1>4, <2>1 DEF OneAtATime, OneRequest
    <2>2. CASE New(c, i) /\ New(d, j)
      BY <1>5, <2>2
    <2>3. CASE Old(c, i) /\ New(d, j)
      BY <1>2, <1>4, <1>5, <2>3
    <2>4. CASE New(c, i) /\ Old(d, j)
      BY <1>2, <1>4, <1>5, <2>4
    <2> QED
      BY <1>1, <2>1, <2>2, <2>3, <2>4
  <1>7. OneAnswer'
    BY <1>3 DEF OneAtATime, OneAnswer
  <1>8. OneOfThem'
    <2> SUFFICES ASSUME NEW c \in Conns, NEW d \in Conns,
                        NEW i \in 1 .. Len(down'[c]), NEW j \in 1 .. Len(up'[d]),
                        down'[c][i].call \in Singles
                 PROVE  down'[c][i].call # up'[d][j].call
      BY DEF OneOfThem
    <2>1. j \in 1 .. Len(up[d]) /\ up'[d][j] = up[d][j]
      BY <1>3
    <2>2. CASE Old(c, i)
      BY <1>4, <2>1, <2>2 DEF OneAtATime, OneOfThem
    <2>3. CASE New(c, i)
      BY <1>2, <1>5, <2>1, <2>3
    <2> QED
      BY <1>1, <2>2, <2>3
  <1>9. \A k \in Singles \ {x.call} : \A step : Fits(pc[k], step) => Fits(pc'[k], step)
    BY DEF Sends, Fits
  <1>10. RequestsFit'
    <2> SUFFICES ASSUME NEW c \in Conns, NEW i \in 1 .. Len(down'[c]), down'[c][i].call \in Singles
                 PROVE  Fits(pc'[down'[c][i].call], down'[c][i].step)
      BY DEF RequestsFit
    <2>1. CASE Old(c, i)
      <3>1. Fits(pc[down[c][i].call], down[c][i].step) /\ down'[c][i] = down[c][i]
        BY <1>4, <2>1 DEF OneAtATime, RequestsFit
      <3>2. down[c][i].call # x.call
        BY <1>2, <1>4, <2>1
      <3> QED
        BY <1>9, <3>1, <3>2
    <2>2. CASE New(c, i)
      <3>1. down'[c][i] = x /\ pc'[x.call] = x.step /\ x.step \notin {"idle", "detach", "not_open"}
        BY <1>5, <2>2, RequestShape DEF Sends
      <3> QED
        BY <3>1 DEF Fits
    <2> QED
      BY <1>1, <2>1, <2>2
  <1>11. AnswersFit'
    <2> SUFFICES ASSUME NEW c \in Conns, NEW i \in 1 .. Len(up'[c]), up'[c][i].call \in Singles
                 PROVE  Fits(pc'[up'[c][i].call], up'[c][i].step)
      BY DEF AnswersFit
    <2>1. Fits(pc[up[c][i].call], up[c][i].step) /\ up'[c][i] = up[c][i] /\ i \in 1 .. Len(up[c])
      BY <1>3 DEF OneAtATime, AnswersFit
    <2>2. up[c][i].call # x.call
      BY <1>2, <2>1
    <2> QED
      BY <1>9, <2>1, <2>2
  <1>12. RunsToldRight'
    <2>0. Told' = Told /\ misread' = misread
      BY ToldStands DEF Sends
    <2>1. ASSUME NEW c \in Conns, NEW i \in 1 .. Len(down'[c]), down'[c][i].call \in Execs
          PROVE  /\ Told'[down'[c][i].call] = 0
                 /\ down'[c][i].step = "exec" => down'[c][i].call \notin misread'
      <3>1. CASE Old(c, i)
        BY <1>4, <2>0, <2>1, <3>1 DEF RunsToldRight
      <3>2. CASE New(c, i)
        <4>1. x.call \in Execs /\ x.call \in Singles
          BY <1>5, <2>1, <3>2 DEF Singles
        <4>2. pc[x.call] \in {"idle", "detach"} 
          BY <4>1 DEF Sends
        <4>3. pc[x.call] = "idle"
          BY <4>1, <4>2 DEF LinkInv, Stations, Callers
        <4> QED
          BY <1>5, <2>0, <3>2, <4>1, <4>3 DEF RunsToldRight
      <3> QED
        BY <1>1, <3>1, <3>2
    <2>2. ASSUME NEW k \in Execs
          PROVE /\ Told'[k] \in {0, 1}
                /\ pc'[k] \in {"idle", "open", "not_open"} => Told'[k] = 0
                /\ pc'[k] = "ok" => Told'[k] = 1
                /\ pc'[k] = "idle" => k \notin misread'
      <3>1. CASE k = x.call
        <4>1. k \in Singles /\ pc[k] \in {"idle", "detach"} /\ pc'[k] = "exec"
          BY <3>1 DEF Sends, Singles
        <4>2. pc[k] = "idle"
          BY <4>1 DEF LinkInv, Stations, Callers
        <4> QED
          BY <2>0, <4>1, <4>2 DEF RunsToldRight
      <3>2. CASE k # x.call
        <4>1. pc'[k] = pc[k]
          BY <3>2 DEF Sends, Singles
        <4> QED
          BY <2>0, <4>1 DEF RunsToldRight
      <3> QED
        BY <3>1, <3>2
    <2>3. \A c \in Conns : \A i \in 1 .. Len(up'[c]) :
             LET m == up'[c][i] IN
             m.call \in Execs => Told'[m.call] = IF m.step # "open" /\ m.fine THEN 1 ELSE 0
      BY <1>3, <2>0 DEF RunsToldRight
    <2> QED
      BY <2>1, <2>2, <2>3 DEF RunsToldRight
  <1> QED
    BY <1>6, <1>7, <1>8, <1>10, <1>11, <1>12 DEF OneAtATime

LEMMA SinglesHandles ==
  ASSUME LinkInv, SinglesInv, WorkerHandles
  PROVE  SinglesInv'
  <1> USE DEF SinglesInv
  <1> DEFINE m == Head(down[live])
  <1>1. HandleOutcome(m) /\ live \in Conns /\ m \in Requests
    BY HandleEffect DEF LinkInv, HandleOutcome
  <1>2. PICK r : Said(m, r)
    BY <1>1 DEF HandleOutcome
  <1>3. /\ down[live] \in Seq(Requests) /\ down[live] # <<>> /\ m = down[live][1]
        /\ 1 \in 1 .. Len(down[live])
    BY <1>1, TailAt DEF HandleOutcome, LinkInv, Wires
  <1>4. pc' = pc
    BY DEF WorkerHandles
  <1> HIDE DEF m
  <1> DEFINE Shift(c) == IF c = live THEN 1 ELSE 0
             Old(c, i) == i \in 1 .. Len(up[c]) /\ up'[c][i] = up[c][i]
             New(c, i) == /\ c = live /\ up'[c][i].call = m.call
                          /\ m.call \in Singles => /\ i = Len(up[c]) + 1 /\ up'[c][i] = r[1]
                                                   /\ r[1].step = m.step
  <1>5. ASSUME NEW c \in Conns, NEW i \in 1 .. Len(down'[c])
        PROVE  i + Shift(c) \in 1 .. Len(down[c]) /\ down'[c][i] = down[c][i + Shift(c)]
    <2>1. CASE c = live
      <3>1. down'[c] = Tail(down[c])
        BY <1>1, <2>1 DEF HandleOutcome
      <3> QED
        BY <1>3, <2>1, <3>1, TailAt
    <2>2. CASE c # live
      <3>1. down'[c] = down[c] /\ down[c] \in Seq(Requests)
        BY <1>1, <2>2 DEF HandleOutcome, LinkInv, Wires
      <3> QED
        BY <2>2, <3>1
    <2> QED
      BY <2>1, <2>2
  <1>6. ASSUME NEW c \in Conns, NEW i \in 1 .. Len(up'[c]) PROVE Old(c, i) \/ New(c, i)
    <2>1. CASE c = live
      <3>1. up[c] \in Seq(Answers) /\ r \in Seq(Answers) /\ up'[c] = up[c] \o r
        BY <1>2, <2>1 DEF LinkInv, Wires, Said
      <3>2. /\ Len(up'[c]) = Len(up[c]) + Len(r)
            /\ \A j \in 1 .. Len(up[c]) : up'[c][j] = up[c][j]
            /\ \A j \in 1 .. Len(r) : up'[c][Len(up[c]) + j] = r[j]
        BY <3>1, JoinAt
      <3>3. Len(up[c]) \in Nat /\ Len(r) \in Nat
        BY <3>1
      <3>4. CASE i <= Len(up[c])
        BY <3>2, <3>3, <3>4
      <3>5. CASE i > Len(up[c])
        <4>1. i - Len(up[c]) \in 1 .. Len(r) /\ i = Len(up[c]) + (i - Len(up[c]))
          BY <3>2, <3>3, <3>5
        <4>2. up'[c][i] = r[i - Len(up[c])]
          BY <3>2, <4>1
        <4>3. up'[c][i].call = m.call
          BY <1>2, <4>1, <4>2 DEF Said
        <4>4. m.call \in Singles => i - Len(up[c]) = 1 /\ r[1].step = m.step
          BY <1>2, <4>1 DEF Said
        <4>5. m.call \in Singles => i = Len(up[c]) + 1
          BY <3>3, <4>4
        <4> QED
          BY <2>1, <4>2, <4>3, <4>4, <4>5
      <3> QED
        BY <3>3, <3>4, <3>5
    <2>2. CASE c # live
      BY <1>2, <2>2 DEF Said
    <2> QED
      BY <2>1, <2>2
  <1>7. m.call \in Singles =>
          /\ \A c \in Conns : \A i \in 1 .. Len(down'[c]) : down'[c][i].call # m.call
          /\ \A c \in Conns : \A i \in 1 .. Len(up[c]) : up[c][i].call # m.call
          /\ Fits(pc[m.call], m.step)
    <2>1. SUFFICES ASSUME m.call \in Singles
                   PROVE  /\ \A c \in Conns : \A i \in 1 .. Len(down'[c]) : down'[c][i].call # m.call
                          /\ \A c \in Conns : \A i \in 1 .. Len(up[c]) : up[c][i].call # m.call
                          /\ Fits(pc[m.call], m.step)
      OBVIOUS
    <2>2. ASSUME NEW c \in Conns, NEW i \in 1 .. Len(down'[c]) PROVE down'[c][i].call # m.call
      <3>1. i + Shift(c) \in 1 .. Len(down[c]) /\ down'[c][i] = down[c][i + Shift(c)]
        BY <1>5
      <3>2. ~(c = live /\ i + Shift(c) = 1)
        OBVIOUS
      <3> HIDE DEF Shift
      <3> QED
        BY <1>1, <1>3, <2>1, <3>1, <3>2 DEF OneAtATime, OneRequest
    <2>3. ASSUME NEW c \in Conns, NEW i \in 1 .. Len(up[c]) PROVE up[c][i].call # m.call
      BY <1>1, <1>3, <2>1 DEF OneAtATime, OneOfThem
    <2>4. Fits(pc[m.call], m.step)
      BY <1>1, <1>3, <2>1 DEF OneAtATime, RequestsFit
    <2> QED
      BY <2>2, <2>3, <2>4
  <1> DEFINE At(c, i) == i + Shift(c)
  <1>8. \A c \in Conns : \A i \in 1 .. Len(down'[c]) :
           At(c, i) \in 1 .. Len(down[c]) /\ down'[c][i] = down[c][At(c, i)]
    BY <1>5
  <1>9. \A c \in Conns, i \in Nat, j \in Nat : At(c, i) = At(c, j) => i = j
    OBVIOUS
  <1>10. \A c \in Conns : \A i : New(c, i) =>
            /\ c = live /\ up'[c][i].call = m.call
            /\ m.call \in Singles => i = Len(up[c]) + 1 /\ up'[c][i] = r[1] /\ r[1].step = m.step
    OBVIOUS
  <1>11. \A c \in Conns : \A i : Old(c, i) => i \in 1 .. Len(up[c]) /\ up'[c][i] = up[c][i]
    OBVIOUS
  <1> HIDE DEF Shift, Old, New, At
  <1>12. OneRequest'
    <2> SUFFICES ASSUME NEW c \in Conns, NEW d \in Conns,
                        NEW i \in 1 .. Len(down'[c]), NEW j \in 1 .. Len(down'[d]),
                        down'[c][i].call \in Singles, down'[c][i].call = down'[d][j].call
                 PROVE  c = d /\ i = j
      BY DEF OneRequest
    <2>1. /\ At(c, i) \in 1 .. Len(down[c]) /\ down'[c][i] = down[c][At(c, i)]
          /\ At(d, j) \in 1 .. Len(down[d]) /\ down'[d][j] = down[d][At(d, j)]
      BY <1>8
    <2>2. c = d /\ At(c, i) = At(d, j)
      BY <2>1 DEF OneAtATime, OneRequest
    <2> QED
      BY <1>9, <2>2
  <1>13. OneAnswer'
    <2> SUFFICES ASSUME NEW c \in Conns, NEW d \in Conns,
                        NEW i \in 1 .. Len(up'[c]), NEW j \in 1 .. Len(up'[d]),
                        up'[c][i].call \in Singles, up'[c][i].call = up'[d][j].call
                 PROVE  c = d /\ i = j
      BY DEF OneAnswer
    <2>1. CASE Old(c, i) /\ Old(d, j)
      BY <1>11, <2>1 DEF OneAtATime, OneAnswer
    <2>2. CASE New(c, i) /\ New(d, j)
      BY <1>10, <2>2
    <2>3. CASE Old(c, i) /\ New(d, j)
      BY <1>7, <1>10, <1>11, <2>3
    <2>4. CASE New(c, i) /\ Old(d, j)
      BY <1>7, <1>10, <1>11, <2>4
    <2> QED
      BY <1>6, <2>1, <2>2, <2>3, <2>4
  <1>14. OneOfThem'
    <2> SUFFICES ASSUME NEW c \in Conns, NEW d \in Conns,
                        NEW i \in 1 .. Len(down'[c]), NEW j \in 1 .. Len(up'[d]),
                        down'[c][i].call \in Singles
                 PROVE  down'[c][i].call # up'[d][j].call
      BY DEF OneOfThem
    <2>1. CASE Old(d, j)
      <3>1. /\ At(c, i) \in 1 .. Len(down[c]) /\ down'[c][i] = down[c][At(c, i)]
            /\ j \in 1 .. Len(up[d]) /\ up'[d][j] = up[d][j]
        BY <1>8, <1>11, <2>1
      <3> QED
        BY <3>1 DEF OneAtATime, OneOfThem
    <2>2. CASE New(d, j)
      BY <1>7, <1>10, <2>2
    <2> QED
      BY <1>6, <2>1, <2>2
  <1>15. RequestsFit'
    BY <1>4, <1>8 DEF OneAtATime, RequestsFit
  <1>16. AnswersFit'
    <2> SUFFICES ASSUME NEW c \in Conns, NEW i \in 1 .. Len(up'[c]), up'[c][i].call \in Singles
                 PROVE  Fits(pc'[up'[c][i].call], up'[c][i].step)
      BY DEF AnswersFit
    <2>1. CASE Old(c, i)
      BY <1>4, <1>11, <2>1 DEF OneAtATime, AnswersFit
    <2>2. CASE New(c, i)
      BY <1>4, <1>7, <1>10, <2>2
    <2> QED
      BY <1>6, <2>1, <2>2
  <1>17. m.call \in Execs =>
            /\ Told[m.call] = 0 /\ m.call \in Singles /\ r[1].fine \in BOOLEAN
            /\ m.step \in {"exec", "again", "open"}
            /\ m.step = "exec" => m.call \notin misread
    BY <1>1, <1>2, <1>3, RequestShape, KindsApart DEF RunsToldRight, Said, Singles
  <1>18. \A k \in Execs : /\ Told'[k] = IF k = m.call /\ m.step # "open" /\ r[1].fine THEN 1 ELSE Told[k]
                          /\ k # m.call => (k \in misread' <=> k \in misread)
    <2> SUFFICES ASSUME NEW k \in Execs
                 PROVE  /\ Told'[k] = IF k = m.call /\ m.step # "open" /\ r[1].fine THEN 1 ELSE Told[k]
                        /\ k # m.call => (k \in misread' <=> k \in misread)
      OBVIOUS
    <2>1. /\ Told[k] = ran[k] - (IF k \in misread THEN 1 ELSE 0)
          /\ Told'[k] = ran'[k] - (IF k \in misread' THEN 1 ELSE 0)
          /\ ran[k] \in Nat /\ open \in BOOLEAN
      BY DEF Told, LinkInv, TypeOK
    <2>2. /\ ran'[k] = IF k = m.call /\ m.step # "open" /\ open THEN ran[k] + 1 ELSE ran[k]
          /\ misread' = IF m.step = "exec" /\ open /\ ~r[1].fine THEN misread \cup {m.call} ELSE misread
      BY <1>1, <1>2 DEF HandleOutcome, Said
    <2>3. CASE k # m.call
      BY <2>1, <2>2, <2>3
    <2>4. CASE k = m.call /\ m.step = "exec"
      <3>1. r[1].fine => open
        BY <1>2, <2>4 DEF Said
      <3>2. k \notin misread /\ Told[k] = 0
        BY <1>17, <2>4
      <3>3. CASE open /\ r[1].fine
        BY <2>1, <2>2, <2>4, <3>2, <3>3
      <3>4. CASE open /\ ~r[1].fine
        BY <2>1, <2>2, <2>4, <3>2, <3>4
      <3>5. CASE ~open
        BY <2>1, <2>2, <2>4, <3>1, <3>2, <3>5
      <3> QED
        BY <2>1, <3>3, <3>4, <3>5
    <2>5. CASE k = m.call /\ m.step = "again"
      <3>1. r[1].fine = open
        BY <1>2, <2>5 DEF Said
      <3>2. misread' = misread /\ Told[k] = 0
        BY <1>17, <2>2, <2>5
      <3> QED
        BY <2>1, <2>2, <2>5, <3>1, <3>2
    <2>6. CASE k = m.call /\ m.step = "open"
      BY <2>1, <2>2, <2>6
    <2> QED
      BY <1>17, <2>3, <2>4, <2>5, <2>6
  <1>19. RunsToldRight'
    <2>1. ASSUME NEW c \in Conns, NEW i \in 1 .. Len(down'[c]), down'[c][i].call \in Execs
          PROVE  /\ Told'[down'[c][i].call] = 0
                 /\ down'[c][i].step = "exec" => down'[c][i].call \notin misread'
      <3>1. down'[c][i].call # m.call
        BY <1>7, <1>17, <2>1
      <3>2. /\ Told[down'[c][i].call] = 0
            /\ down'[c][i].step = "exec" => down'[c][i].call \notin misread
        BY <1>8, <2>1 DEF RunsToldRight
      <3> QED
        BY <1>18, <2>1, <3>1, <3>2
    <2>2. ASSUME NEW c \in Conns, NEW i \in 1 .. Len(up'[c]), up'[c][i].call \in Execs
          PROVE  Told'[up'[c][i].call] =
                   IF up'[c][i].step # "open" /\ up'[c][i].fine THEN 1 ELSE 0
      <3>1. CASE Old(c, i)
        <4>1. /\ up'[c][i] = up[c][i] /\ i \in 1 .. Len(up[c])
              /\ Told[up[c][i].call] = IF up[c][i].step # "open" /\ up[c][i].fine THEN 1 ELSE 0
          BY <1>11, <2>2, <3>1 DEF RunsToldRight
        <4>2. up[c][i].call # m.call
          BY <1>7, <1>17, <2>2, <4>1
        <4> QED
          BY <1>18, <2>2, <4>1, <4>2
      <3>2. CASE New(c, i)
        <4>1. m.call \in Execs /\ up'[c][i] = r[1] /\ r[1].step = m.step /\ up'[c][i].call = m.call
          BY <1>10, <1>17, <2>2, <3>2
        <4>2. Told'[m.call] = IF m.step # "open" /\ r[1].fine THEN 1 ELSE 0
          BY <1>17, <1>18, <4>1
        <4> QED
          BY <4>1, <4>2
      <3> QED
        BY <1>6, <3>1, <3>2
    <2>3. ASSUME NEW k \in Execs
          PROVE /\ Told'[k] \in {0, 1}
                /\ pc'[k] \in {"idle", "open", "not_open"} => Told'[k] = 0
                /\ pc'[k] = "ok" => Told'[k] = 1
                /\ pc'[k] = "idle" => k \notin misread'
      <3>1. CASE k = m.call
        <4>1. Fits(pc[k], m.step) /\ m.step \in {"exec", "again", "open"} /\ Told[k] = 0
          BY <1>7, <1>17, <3>1
        <4>2. pc[k] # "idle"
          BY <4>1 DEF Fits
        <4>3. m.step # "open" => pc[k] \notin {"open", "not_open"}
          BY <4>1 DEF Fits, Awaiting
        <4>4. Told'[k] = IF m.step # "open" /\ r[1].fine THEN 1 ELSE 0
          BY <1>18, <3>1, <4>1
        <4>5. pc[k] # "ok"
          BY <4>1 DEF RunsToldRight
        <4> QED
          BY <1>4, <4>2, <4>3, <4>4, <4>5
      <3>2. CASE k # m.call
        BY <1>4, <1>18, <3>2 DEF RunsToldRight
      <3> QED
        BY <3>1, <3>2
    <2> QED
      BY <2>1, <2>2, <2>3 DEF RunsToldRight
  <1> QED
    BY <1>12, <1>13, <1>14, <1>15, <1>16, <1>19 DEF OneAtATime

LEMMA SinglesReads ==
  ASSUME LinkInv, SinglesInv, NEW c0 \in Conns, NEW m, Reads(c0, m)
  PROVE  SinglesInv'
  <1> USE DEF SinglesInv
  <1>1. /\ up[c0] \in Seq(Answers) /\ up[c0] # <<>> /\ m = up[c0][1] /\ m \in Answers
        /\ 1 \in 1 .. Len(up[c0])
    BY TailAt DEF Reads, LinkInv, Wires
  <1> DEFINE At(c, i) == IF c = c0 THEN i + 1 ELSE i
  <1>2. ASSUME NEW c \in Conns, NEW i \in 1 .. Len(up'[c])
        PROVE  At(c, i) \in 1 .. Len(up[c]) /\ up'[c][i] = up[c][At(c, i)] /\ ~(c = c0 /\ At(c, i) = 1)
    <2>1. CASE c = c0
      <3>1. up'[c] = Tail(up[c])
        BY <2>1 DEF Reads
      <3> QED
        BY <1>1, <2>1, <3>1, TailAt
    <2>2. CASE c # c0
      <3>1. up'[c] = up[c] /\ up[c] \in Seq(Answers)
        BY <2>2 DEF Reads, LinkInv, Wires
      <3> QED
        BY <2>2, <3>1
    <2> QED
      BY <2>1, <2>2
  <1>3. \A c \in Conns, i \in Nat, j \in Nat : At(c, i) = At(c, j) => i = j
    OBVIOUS
  <1> HIDE DEF At
  <1>4. m.call \in Singles =>
          /\ \A c \in Conns : \A i \in 1 .. Len(down[c]) : down[c][i].call # m.call
          /\ \A c \in Conns : \A i \in 1 .. Len(up'[c]) : up'[c][i].call # m.call
          /\ Fits(pc[m.call], m.step)
    <2>1. SUFFICES ASSUME m.call \in Singles
                   PROVE  /\ \A c \in Conns : \A i \in 1 .. Len(down[c]) : down[c][i].call # m.call
                          /\ \A c \in Conns : \A i \in 1 .. Len(up'[c]) : up'[c][i].call # m.call
                          /\ Fits(pc[m.call], m.step)
      OBVIOUS
    <2>2. ASSUME NEW c \in Conns, NEW i \in 1 .. Len(up'[c]) PROVE up'[c][i].call # m.call
      <3>1. At(c, i) \in 1 .. Len(up[c]) /\ up'[c][i] = up[c][At(c, i)] /\ ~(c = c0 /\ At(c, i) = 1)
        BY <1>2
      <3> QED
        BY <1>1, <2>1, <3>1 DEF OneAtATime, OneAnswer
    <2>3. ASSUME NEW c \in Conns, NEW i \in 1 .. Len(down[c]) PROVE down[c][i].call # m.call
      BY <1>1, <2>1 DEF OneAtATime, OneOfThem
    <2>4. Fits(pc[m.call], m.step)
      BY <1>1, <2>1 DEF OneAtATime, AnswersFit
    <2> QED
      BY <2>2, <2>3, <2>4
  <1>5. m.call \in Execs => /\ m.call \in Singles /\ m.step \in {"exec", "again", "open"}
    BY <1>1, AnswerShape, KindsApart DEF Singles
  <1>5a. Told' = Told /\ misread' = misread
    BY ToldStands DEF Reads
  <1>6. m.call \in Execs => Told[m.call] = IF m.step # "open" /\ m.fine THEN 1 ELSE 0
    BY <1>1 DEF RunsToldRight
  <1>7. OneAnswer'
    <2> SUFFICES ASSUME NEW c \in Conns, NEW d \in Conns,
                        NEW i \in 1 .. Len(up'[c]), NEW j \in 1 .. Len(up'[d]),
                        up'[c][i].call \in Singles, up'[c][i].call = up'[d][j].call
                 PROVE  c = d /\ i = j
      BY DEF OneAnswer
    <2>1. /\ At(c, i) \in 1 .. Len(up[c]) /\ up'[c][i] = up[c][At(c, i)]
          /\ At(d, j) \in 1 .. Len(up[d]) /\ up'[d][j] = up[d][At(d, j)]
      BY <1>2
    <2>2. c = d /\ At(c, i) = At(d, j)
      BY <2>1 DEF OneAtATime, OneAnswer
    <2> QED
      BY <1>3, <2>2
  <1>8. AnswersFit'
    <2> SUFFICES ASSUME NEW c \in Conns, NEW i \in 1 .. Len(up'[c]), up'[c][i].call \in Singles
                 PROVE  Fits(pc'[up'[c][i].call], up'[c][i].step)
      BY DEF AnswersFit
    <2>1. At(c, i) \in 1 .. Len(up[c]) /\ up'[c][i] = up[c][At(c, i)]
      BY <1>2
    <2>2. Fits(pc[up'[c][i].call], up'[c][i].step)
      BY <2>1 DEF OneAtATime, AnswersFit
    <2>3. pc'[up'[c][i].call] = pc[up'[c][i].call]
      BY <1>4 DEF Reads
    <2> QED
      BY <2>2, <2>3
  <1>9. ASSUME NEW c \in Conns, NEW i \in 1 .. Len(up'[c]), up'[c][i].call \in Execs
        PROVE  Told'[up'[c][i].call] =
                 IF up'[c][i].step # "open" /\ up'[c][i].fine THEN 1 ELSE 0
    <2>1. At(c, i) \in 1 .. Len(up[c]) /\ up'[c][i] = up[c][At(c, i)]
      BY <1>2
    <2> QED
      BY <1>5a, <1>9, <2>1 DEF RunsToldRight
  <1>10. ASSUME NEW k \in Execs
         PROVE /\ Told'[k] \in {0, 1}
               /\ pc'[k] \in {"idle", "open", "not_open"} => Told'[k] = 0
               /\ pc'[k] = "ok" => Told'[k] = 1
               /\ pc'[k] = "idle" => k \notin misread'
    <2>1. CASE pc'[k] = pc[k]
      BY <1>5a, <2>1 DEF RunsToldRight
    <2>2. CASE pc'[k] # pc[k]
      <3>1. k = m.call /\ k \in Singles
        BY <2>2 DEF Reads, Singles
      <3>2. Told'[k] = IF m.step # "open" /\ m.fine THEN 1 ELSE 0
        BY <1>5a, <1>6, <3>1
      <3>3. \/ pc'[k] \in {IF m.step # "open" /\ m.fine THEN "ok" ELSE "not_open", "failed"}
            \/ m.step = "exec" /\ ~m.fine /\ pc'[k] = "open"
            \/ m.step = "open" /\ m.fine /\ pc'[k] = "again"
        BY <2>2, <3>1 DEF Reads
      <3> QED
        BY <3>2, <3>3
    <2> QED
      BY <2>1, <2>2
  <1>11. CASE \A d \in Conns : down'[d] = down[d]
    <2>1. OneRequest' 
      BY <1>11 DEF OneAtATime, OneRequest
    <2>2. OneOfThem'
      BY <1>2, <1>11 DEF OneAtATime, OneOfThem
    <2>3. RequestsFit'
      BY <1>4, <1>11 DEF OneAtATime, RequestsFit, Reads
    <2>4. RunsToldRight'
      BY <1>5a, <1>9, <1>10, <1>11 DEF RunsToldRight
    <2> QED
      BY <1>7, <1>8, <2>1, <2>2, <2>3, <2>4 DEF OneAtATime
  <1>12. ASSUME m.call \in Execs, pc[m.call] = m.step,
                \/ m.step = "exec" /\ ~m.fine /\ pc'[m.call] = "open"
                \/ m.step = "open" /\ m.fine /\ pc'[m.call] = "again",
                \A d \in Conns : \/ down'[d] = down[d]
                                 \/ d = live /\ down'[d] = Append(down[d], Message(m.call, pc'[m.call]))
         PROVE  SinglesInv'
    <2> DEFINE x == Message(m.call, pc'[m.call])
               Old(c, i) == i \in 1 .. Len(down[c]) /\ down'[c][i] = down[c][i]
               New(c, i) == c = live /\ i = Len(down[c]) + 1 /\ down'[c][i] = x
    <2>1. x \in Requests /\ x.call = m.call /\ x.step = pc'[m.call] /\ Told[m.call] = 0
      BY <1>6, <1>12, RequestsMade
    <2> HIDE DEF x
    <2>2. ASSUME NEW c \in Conns, NEW i \in 1 .. Len(down'[c]) PROVE Old(c, i) \/ New(c, i)
      <3>1. down[c] \in Seq(Requests)
        BY DEF LinkInv, Wires
      <3>2. CASE down'[c] = down[c]
        BY <3>2
      <3>3. CASE c = live /\ down'[c] = Append(down[c], x)
        <4>1. /\ Len(down'[c]) = Len(down[c]) + 1 /\ down'[c][Len(down[c]) + 1] = x
              /\ \A j \in 1 .. Len(down[c]) : down'[c][j] = down[c][j]
          BY <2>1, <3>1, <3>3, AppendAt
        <4>2. Len(down[c]) \in Nat
          BY <3>1
        <4> QED
          BY <3>3, <4>1, <4>2
      <3> QED
        BY <1>12, <3>2, <3>3 DEF x
    <2>3. \A c \in Conns : \A i : Old(c, i) => i \in 1 .. Len(down[c]) /\ down'[c][i] = down[c][i]
      OBVIOUS
    <2>4. \A c \in Conns : \A i : New(c, i) => c = live /\ i = Len(down[c]) + 1 /\ down'[c][i] = x
      OBVIOUS
    <2> HIDE DEF Old, New
    <2>5. OneRequest'
      <3> SUFFICES ASSUME NEW c \in Conns, NEW d \in Conns,
                          NEW i \in 1 .. Len(down'[c]), NEW j \in 1 .. Len(down'[d]),
                          down'[c][i].call \in Singles, down'[c][i].call = down'[d][j].call
                   PROVE  c = d /\ i = j
        BY DEF OneRequest
      <3>1. CASE Old(c, i) /\ Old(d, j)
        BY <2>3, <3>1 DEF OneAtATime, OneRequest
      <3>2. CASE New(c, i) /\ New(d, j)
        BY <2>4, <3>2
      <3>3. CASE Old(c, i) /\ New(d, j)
        BY <1>4, <1>5, <1>12, <2>1, <2>3, <2>4, <3>3
      <3>4. CASE New(c, i) /\ Old(d, j)
        BY <1>4, <1>5, <1>12, <2>1, <2>3, <2>4, <3>4
      <3> QED
        BY <2>2, <3>1, <3>2, <3>3, <3>4
    <2>6. OneOfThem'
      <3> SUFFICES ASSUME NEW c \in Conns, NEW d \in Conns,
                          NEW i \in 1 .. Len(down'[c]), NEW j \in 1 .. Len(up'[d]),
                          down'[c][i].call \in Singles
                   PROVE  down'[c][i].call # up'[d][j].call
        BY DEF OneOfThem
      <3>1. CASE Old(c, i)
        <4>1. /\ i \in 1 .. Len(down[c]) /\ down'[c][i] = down[c][i]
              /\ At(d, j) \in 1 .. Len(up[d]) /\ up'[d][j] = up[d][At(d, j)]
          BY <1>2, <2>3, <3>1
        <4> QED
          BY <4>1 DEF OneAtATime, OneOfThem
      <3>2. CASE New(c, i)
        BY <1>4, <1>5, <1>12, <2>1, <2>4, <3>2
      <3> QED
        BY <2>2, <3>1, <3>2
    <2>7. RequestsFit'
      <3> SUFFICES ASSUME NEW c \in Conns, NEW i \in 1 .. Len(down'[c]), down'[c][i].call \in Singles
                   PROVE  Fits(pc'[down'[c][i].call], down'[c][i].step)
        BY DEF RequestsFit
      <3>1. CASE Old(c, i)
        <4>1. down[c][i].call # m.call /\ down'[c][i] = down[c][i] /\ i \in 1 .. Len(down[c])
          BY <1>4, <1>5, <1>12, <2>3, <3>1
        <4>2. pc'[down[c][i].call] = pc[down[c][i].call]
          BY <4>1 DEF Reads
        <4>3. Fits(pc[down[c][i].call], down[c][i].step)
          BY <4>1 DEF OneAtATime, RequestsFit
        <4> QED
          BY <4>1, <4>2, <4>3
      <3>2. CASE New(c, i)
        BY <1>12, <2>1, <2>4, <3>2 DEF Fits
      <3> QED
        BY <2>2, <3>1, <3>2
    <2>8. ASSUME NEW c \in Conns, NEW i \in 1 .. Len(down'[c]), down'[c][i].call \in Execs
          PROVE  /\ Told'[down'[c][i].call] = 0
                 /\ down'[c][i].step = "exec" => down'[c][i].call \notin misread'
      <3>1. CASE Old(c, i)
        BY <1>5a, <2>3, <2>8, <3>1 DEF RunsToldRight
      <3>2. CASE New(c, i)
        BY <1>5a, <1>12, <2>1, <2>4, <3>2
      <3> QED
        BY <2>2, <3>1, <3>2
    <2>9. RunsToldRight'
      BY <1>9, <1>10, <2>8 DEF RunsToldRight
    <2> QED
      BY <1>7, <1>8, <2>5, <2>6, <2>7, <2>9 DEF OneAtATime
  <1> QED
    BY <1>11, <1>12 DEF Reads

LEMMA RequestIsSent ==
  ASSUME LinkInv, NEW k \in Callers, NEW c, NEW step, Suits(k, step), RequestOutcome(k, c, step),
         up' = up, UNCHANGED <<ran, misread>>, k \in Singles => pc[k] \in {"idle", "detach"},
         k \in Execs => step = "exec"
  PROVE  Quiet \/ Sends(Message(k, step))
  <1>1. Message(k, step) \in Requests /\ Message(k, step).call = k /\ Message(k, step).step = step
    BY RequestsMade DEF Suits
  <1>2. \A j \in Singles \ {k} : pc'[j] = pc[j]
    BY DEF RequestOutcome, Singles, Callers
  <1>3. CASE pc'[k] = step
    <2>1. \A d \in Conns : \/ down'[d] = down[d]
                           \/ d = live /\ down'[d] = Append(down[d], Message(k, step))
      BY DEF RequestOutcome
    <2> QED
      BY <1>1, <1>2, <1>3, <2>1 DEF Sends
  <1>4. CASE pc'[k] # step
    <2>1. down' = down /\ (k \in Singles => pc'[k] \in {"released", "failed"})
      BY <1>4, KindsApart DEF RequestOutcome, Suits
    <2> QED
      BY <1>2, <2>1 DEF Quiet, Eased
  <1> QED
    BY <1>3, <1>4

LEMMA FailureIsQuiet ==
  ASSUME NEW failing \in SUBSET Callers, FailOutcome(failing), UNCHANGED <<ran, misread>>,
         \A c \in Conns : down'[c] \in {down[c], <<>>} /\ up'[c] \in {up[c], <<>>}
  PROVE  Quiet
  <1>1. \A k \in Singles : Eased(k)
    BY DEF FailOutcome, Eased, Singles, Callers
  <1> QED
    BY <1>1 DEF Quiet

LEMMA ReadIsRead ==
  ASSUME LinkInv, NEW c \in Conns, EndpointReads(c)
  PROVE  Reads(c, Head(up[c]))
  <1> DEFINE m == Head(up[c])
  <1>1. /\ up[c] # <<>> /\ m \in Answers /\ m.call \in Callers
        /\ \A d \in Conns : up'[d] = IF d = c THEN Tail(up[d]) ELSE up[d]
    BY TakesAnswer
  <1>2. UNCHANGED <<ran, misread>>
    BY ReadCases DEF workerVars
  <1>3. Singles \subseteq Callers /\ pc \in [Callers -> {"idle", "detach", "sending", "cancelled"} \cup Awaiting \cup Over]
    BY DEF Singles, Callers, LinkInv, TypeOK
  <1>4. CASE ~Owed(c, m)
    <2>1. UNCHANGED <<down, pc>>
      BY <1>4, ReadCases
    <2> QED
      BY <1>1, <1>2, <2>1 DEF Reads
  <1>5. CASE Owed(c, m)
    <2>1. m.call \notin Pulls => pc[m.call] = m.step
      <3>1. m.call \notin Pulls => pc[m.call] # "pull"
        BY <1>1 DEF LinkInv, Stations, Callers
      <3> QED
        BY <1>5, <3>1 DEF Owed
    <2>2. CASE m.call \in Execs /\ ExecAnswered(m.call, m)
      <3>1. m.step \in {"exec", "again", "open"} /\ registered \in 0 .. made
        BY <1>1, <2>2, AnswerShape, KindsApart DEF LinkInv, TypeOK
      <3>2. m.call \notin Pulls
        BY <2>2, KindsApart
      <3>3. CASE \/ Return(m.call, "ok") /\ m.step # "open" /\ m.fine
                 \/ Return(m.call, "not_open") /\ ~(m.step # "open" /\ m.fine)
        BY <1>1, <1>2, <1>3, <2>1, <2>2, <3>2, <3>3 DEF Reads, Return
      <3>4. CASE Request(m.call, registered, "open") /\ m.step = "exec" /\ ~m.fine
        <4>1. RequestOutcome(m.call, registered, "open")
          BY <1>1, <2>2, <3>1, <3>4, RequestEffect, RequestsMade DEF LinkInv, Awaiting
        <4>2. \A j \in Singles \ {m.call} : pc'[j] = pc[j]
          BY <1>3, <4>1 DEF RequestOutcome
        <4>3. \/ pc'[m.call] = "open"
              \/ pc'[m.call] = "not_open" /\ down' = down
          BY <2>2, <4>1, KindsApart DEF RequestOutcome
        <4>4. \A d \in Conns : \/ down'[d] = down[d]
                               \/ d = live /\ down'[d] = Append(down[d], Message(m.call, "open"))
          BY <4>1 DEF RequestOutcome
        <4>5. CASE pc'[m.call] = "open"
          BY <1>1, <1>2, <2>1, <2>2, <3>2, <3>4, <4>2, <4>4, <4>5 DEF Reads
        <4>6. CASE pc'[m.call] = "not_open" /\ down' = down
          BY <1>1, <1>2, <2>1, <2>2, <3>2, <3>4, <4>2, <4>6 DEF Reads
        <4> QED
          BY <4>3, <4>5, <4>6
      <3>5. CASE Request(m.call, registered, "again") /\ m.step = "open" /\ m.fine
        <4>1. RequestOutcome(m.call, registered, "again")
          BY <1>1, <2>2, <3>1, <3>5, RequestEffect, RequestsMade DEF LinkInv, Awaiting
        <4>2. \A j \in Singles \ {m.call} : pc'[j] = pc[j]
          BY <1>3, <4>1 DEF RequestOutcome
        <4>3. \/ pc'[m.call] = "again"
              \/ pc'[m.call] = "failed" /\ down' = down
          BY <2>2, <4>1, KindsApart DEF RequestOutcome
        <4>4. \A d \in Conns : \/ down'[d] = down[d]
                               \/ d = live /\ down'[d] = Append(down[d], Message(m.call, "again"))
          BY <4>1 DEF RequestOutcome
        <4>5. CASE pc'[m.call] = "again"
          BY <1>1, <1>2, <2>1, <2>2, <3>2, <3>5, <4>2, <4>4, <4>5 DEF Reads
        <4>6. CASE pc'[m.call] = "failed" /\ down' = down
          BY <1>1, <1>2, <2>1, <2>2, <3>2, <3>5, <4>2, <4>6 DEF Reads
        <4> QED
          BY <4>3, <4>5, <4>6
      <3> QED
        BY <2>2, <3>1, <3>3, <3>4, <3>5 DEF ExecAnswered
    <2>3. CASE \/ m.call \in Uses /\ UseAnswered(m.call, m)
               \/ m.call \in Releases /\ Return(m.call, "released")
      <3>1. m.call \in Singles \ Execs
        BY <2>3, KindsApart DEF Singles
      <3>2. Return(m.call, "used") \/ Return(m.call, "failed") \/ Return(m.call, "released")
        BY <2>3 DEF UseAnswered
      <3>3. /\ down' = down /\ pc'[m.call] \notin {"idle", "detach"}
            /\ \A j \in Singles \ {m.call} : pc'[j] = pc[j]
        BY <1>1, <1>3, <3>2 DEF Return
      <3> QED
        BY <1>1, <1>2, <3>1, <3>3 DEF Reads
    <2>4. CASE \/ m.call \in Pushes /\ PushAnswered(m.call, m)
               \/ m.call \in Pulls /\ PullAnswered(m.call, m)
      <3>1. m.call \notin Singles
        BY <2>4, KindsApart DEF Singles
      <3>2. down' = down /\ \A j \in Callers \ {m.call} : pc'[j] = pc[j]
        BY <1>3, <2>4 DEF PushAnswered, PullAnswered, Return
      <3>3. \A j \in Singles : pc'[j] = pc[j]
        BY <1>3, <3>1, <3>2
      <3> QED
        BY <1>1, <1>2, <3>1, <3>2, <3>3 DEF Reads
    <2> QED
      BY <1>5, <2>2, <2>3, <2>4, ReadCases
  <1> QED
    BY <1>4, <1>5

\* Every step is one of the four kinds.
LEMMA FourKinds ==
  ASSUME LinkInv, Next
  PROVE  \/ Quiet \/ (\E x : Sends(x)) \/ WorkerHandles
         \/ \E c \in Conns : EndpointReads(c) /\ Reads(c, Head(up[c]))
  <1> USE DEF pushVars, stateVars, workerVars
  <1>1. Singles \subseteq Callers /\ pc \in [Callers -> {"idle", "detach", "sending", "cancelled"} \cup Awaiting \cup Over]
    BY DEF Singles, Callers, LinkInv, TypeOK
  <1>2. CASE Connect
    <2>1. Failing(registered) \in SUBSET Callers /\ Fail(Failing(registered))
      BY <1>2 DEF Failing, Connect
    <2>2. FailOutcome(Failing(registered))
      BY <2>1, FailEffect DEF LinkInv
    <2> QED
      BY <1>2, <2>1, <2>2, FailureIsQuiet DEF Connect
  <1>3. CASE Break \/ WorkerDies
    <2>1. UNCHANGED <<pc, up, ran, misread>> /\ down' = [down EXCEPT ![live] = <<>>]
      BY <1>3 DEF Break, WorkerDies, Lose
    <2>2. \A c \in Conns : down'[c] \in {down[c], <<>>}
      BY <2>1 DEF LinkInv, Wires
    <2> QED
      BY <2>1, <2>2 DEF Quiet, Eased
  <1>4. ASSUME NEW c \in Conns, EndpointEnds(c) PROVE Quiet
    <2> DEFINE failing == IF registered = c THEN Failing(c) ELSE {}
    <2>1. failing \in SUBSET Callers /\ Fail(failing)
      BY <1>4 DEF EndpointEnds, Unregister, Failing
    <2>2. FailOutcome(failing)
      BY <2>1, FailEffect DEF LinkInv
    <2>3. down' = down /\ UNCHANGED <<ran, misread>> /\ \A d \in Conns : up'[d] \in {up[d], <<>>}
      BY <1>4 DEF EndpointEnds, LinkInv, Wires
    <2> HIDE DEF failing
    <2> QED
      BY <2>1, <2>2, <2>3, FailureIsQuiet
  <1>5. ASSUME NEW k \in Callers, Exec(k) PROVE Quiet \/ \E x : Sends(x)
    <2>1. RequestOutcome(k, registered, "exec")
      BY <1>5, LinkCallsBegin
    <2> QED
      BY <1>5, <2>1, RequestIsSent, KindsApart DEF Exec, Begin, Suits
  <1>6. ASSUME NEW k \in Callers, Use(k) PROVE Quiet \/ \E x : Sends(x)
    <2>1. RequestOutcome(k, registered, "open")
      BY <1>6, LinkCallsBegin
    <2> QED
      BY <1>6, <2>1, RequestIsSent, KindsApart DEF Use, Begin, Suits
  <1>7. ASSUME NEW k \in Callers, Push(k) PROVE Quiet \/ \E x : Sends(x)
    <2>1. RequestOutcome(k, registered, "push_begin")
      BY <1>7, LinkCallsBegin
    <2> QED
      BY <1>7, <2>1, RequestIsSent, KindsApart DEF Push, Begin, Suits
  <1>8. ASSUME NEW k \in Callers, Pull(k) PROVE Quiet \/ \E x : Sends(x)
    <2>1. RequestOutcome(k, registered, "pull")
      BY <1>8, LinkCallsBegin
    <2> QED
      BY <1>8, <2>1, RequestIsSent, KindsApart DEF Pull, Begin, Suits
  <1>9. ASSUME NEW k \in Callers, Release(k) PROVE Quiet
    BY <1>1, <1>9 DEF Release, Quiet, Eased
  <1>10. ASSUME NEW k \in Callers, Detached(k) PROVE Quiet \/ \E x : Sends(x)
    <2>1. k \in Releases /\ k \notin Execs
      BY <1>10, KindsApart DEF Detached, LinkInv, Stations, Callers
    <2>2. CASE active
      <3>1. registered \in 0 .. made /\ Message(k, "close") \in Requests /\ Request(k, registered, "close")
        BY <1>10, <2>1, <2>2, RequestsMade DEF LinkInv, TypeOK, Detached
      <3>2. RequestOutcome(k, registered, "close")
        BY <3>1, RequestEffect DEF LinkInv, Awaiting
      <3> QED
        BY <1>10, <2>1, <3>2, RequestIsSent DEF Detached, Suits
    <2>3. CASE ~active
      BY <1>1, <1>10, <2>3 DEF Detached, Quiet, Eased
    <2> QED
      BY <2>2, <2>3
  <1>11. ASSUME NEW k \in Callers, Send(k) PROVE Quiet \/ \E x : Sends(x)
    <2>1. /\ k \in Pushes /\ k \notin Singles /\ sent[k] \in 0 .. Chunks /\ held[k] \in 0 .. made
          /\ \A j \in Singles \ {k} : j \in Callers
      BY <1>1, <1>11, KindsApart DEF Send, Singles, LinkInv, TypeOK
    <2>2. CASE sent[k] = Chunks
      <3>1. Message(k, "push_end") \in Requests /\ Request(k, held[k], "push_end")
        BY <1>11, <2>1, <2>2, RequestsMade DEF Send
      <3>2. RequestOutcome(k, held[k], "push_end")
        BY <2>1, <3>1, RequestEffect DEF LinkInv, Awaiting
      <3> QED
        BY <1>11, <2>1, <3>2, RequestIsSent DEF Send, Suits, Singles
    <2>3. CASE sent[k] # Chunks /\ held[k] \in ended
      BY <1>1, <1>11, <2>1, <2>3 DEF Send, Quiet, Eased
    <2>4. CASE sent[k] # Chunks /\ held[k] \notin ended
      <3>1. /\ UNCHANGED <<linkVars, pc, up, ran, misread>>
            /\ down' = IF held[k] # live THEN down
                       ELSE [down EXCEPT ![live] = Append(@, Chunk(k, sent[k]))]
        BY <1>11, <2>4 DEF Send
      <3>2. sent[k] \in 0 .. Chunks - 1
        BY <2>1, <2>4, RemoteAssumption
      <3>3. /\ \A c \in Conns :
                 \/ down'[c] = down[c]
                 \/ c = live /\ c = held[k] /\ down'[c] = Append(down[c], Chunk(k, sent[k]))
            /\ Chunk(k, sent[k]) \in Requests /\ Chunk(k, sent[k]).call = k
        BY <2>1, <3>1, <3>2, ChunkSent DEF LinkInv
      <3>4. Sends(Chunk(k, sent[k]))
        BY <2>1, <3>1, <3>3 DEF Sends
      <3> QED
        BY <3>4
    <2> QED
      BY <2>2, <2>3, <2>4
  <1>12. ASSUME NEW k \in Callers, TimeOut(k) PROVE Quiet
    <2>1. Fail({k}) /\ {k} \in SUBSET Callers
      BY <1>12 DEF TimeOut
    <2>2. FailOutcome({k})
      BY <2>1, FailEffect DEF LinkInv
    <2> QED
      BY <1>12, <2>1, <2>2, FailureIsQuiet DEF TimeOut
  <1>13. ASSUME NEW k \in Callers, Cancel(k) PROVE Quiet
    BY <1>1, <1>13 DEF Cancel, Quiet, Eased
  <1>14. CASE Expire
    BY <1>14 DEF Expire, Quiet, Eased
  <1>15. ASSUME NEW c \in Conns, EndpointReads(c) PROVE Reads(c, Head(up[c]))
    BY <1>15, ReadIsRead
  <1> QED
    BY <1>2, <1>3, <1>4, <1>5, <1>6, <1>7, <1>8, <1>9, <1>10, <1>11, <1>12, <1>13, <1>14, <1>15
    DEF Next

\* The types, and what was said of commands.
LEMMA SinglesStep ==
  ASSUME LinkInv, SinglesInv, [Next]_vars
  PROVE  SinglesInv'
  <1>1. CASE Next
    BY <1>1, FourKinds, SinglesQuiet, SinglesSends, SinglesHandles, SinglesReads
  <1>2. CASE UNCHANGED vars
    <2>1. UNCHANGED <<down, up, pc, ran, misread>>
      BY <1>2 DEF vars, workerVars
    <2>2. Quiet
      BY <2>1 DEF Quiet, Eased
    <2> QED
      BY <2>2, SinglesQuiet
  <1> QED
    BY <1>1, <1>2

-----------------------------------------------------------------------------
(* The workspace *)

\* Who is under way was so before, and the history of crossings stands.
LEMMA NotCrossedKeeps ==
  ASSUME NotCrossed, crossing' = crossing,
         \A k \in Uses \cup Releases :
             pc'[k] \notin {"idle", "cancelled"} \cup Over => pc[k] \notin {"idle", "cancelled"} \cup Over
  PROVE  NotCrossed'
  BY DEF NotCrossed, UnderWay

LEMMA NotCrossedStep ==
  ASSUME LinkInv, NotCrossed, Next
  PROVE  NotCrossed' /\ crossing \subseteq crossing'
  <1> USE DEF pushVars, stateVars, workerVars
  <1> DEFINE Free == {"idle", "cancelled"} \cup Over
  <1>1. Uses \cup Releases \subseteq Callers
        /\ pc \in [Callers -> {"idle", "detach", "sending", "cancelled"} \cup Awaiting \cup Over]
    BY DEF Callers, LinkInv, TypeOK
  <1>2. {"released", "not_open", "failed"} \subseteq Free
    BY DEF Over
  <1>3. ASSUME NEW failing \in SUBSET Callers, Fail(failing), crossing' = crossing
        PROVE  NotCrossed' /\ crossing \subseteq crossing'
    <2>1. FailOutcome(failing)
      BY <1>3, FailEffect DEF LinkInv
    <2>2. \A k \in Callers : pc'[k] = pc[k] \/ pc'[k] \in Free
      BY <1>2, <2>1 DEF FailOutcome
    <2> QED
      BY <1>1, <1>3, <2>2, NotCrossedKeeps
  <1>4. CASE Connect
    <2>1. Failing(registered) \in SUBSET Callers
      BY DEF Failing
    <2> QED
      BY <1>3, <1>4, <2>1 DEF Connect
  <1>5. CASE Break \/ WorkerDies \/ WorkerHandles \/ Expire
    <2>1. UNCHANGED <<pc, crossing>>
      BY <1>5 DEF Break, WorkerDies, WorkerHandles, Expire
    <2> QED
      BY <2>1, NotCrossedKeeps
  <1>6. ASSUME NEW c \in Conns, EndpointEnds(c) PROVE NotCrossed' /\ crossing \subseteq crossing'
    <2> DEFINE failing == IF registered = c THEN Failing(c) ELSE {}
    <2>1. failing \in SUBSET Callers /\ Fail(failing) /\ crossing' = crossing
      BY <1>6 DEF EndpointEnds, Unregister, Failing
    <2> QED
      BY <1>3, <2>1
  <1>7. ASSUME NEW k \in Callers, Exec(k) \/ Push(k) \/ Pull(k)
        PROVE  NotCrossed' /\ crossing \subseteq crossing'
    <2>1. k \notin Uses \cup Releases /\ crossing' = crossing
      BY <1>7, KindsApart DEF Exec, Push, Pull
    <2>2. \A j \in Callers \ {k} : pc'[j] = pc[j]
      BY <1>7, LinkCallsBegin DEF RequestOutcome
    <2> QED
      BY <1>1, <2>1, <2>2, NotCrossedKeeps
  <1>8. ASSUME NEW k \in Callers, Use(k) PROVE NotCrossed' /\ crossing \subseteq crossing'
    <2>1. k \in Uses /\ crossing' = crossing \cup {r \in Releases : UnderWay(r)}
      BY <1>8 DEF Use
    <2>2. \A j \in Callers \ {k} : pc'[j] = pc[j]
      BY <1>8, LinkCallsBegin DEF RequestOutcome
    <2>3. ASSUME crossing' = {}, NEW u \in Uses, NEW r \in Releases
          PROVE  ~(UnderWay(u)' /\ UnderWay(r)')
      <3>1. ~UnderWay(r) /\ r \in Callers /\ r # k
        BY <1>1, <2>1, <2>3, KindsApart
      <3> QED
        BY <2>2, <3>1 DEF UnderWay
    <2> QED
      BY <2>1, <2>3 DEF NotCrossed
  <1>9. ASSUME NEW k \in Callers, Release(k) PROVE NotCrossed' /\ crossing \subseteq crossing'
    <2>1. k \in Releases /\ crossing' = crossing \cup {r \in {k} : \E u \in Uses : UnderWay(u)}
          /\ pc' = [pc EXCEPT ![k] = "detach"]
      BY <1>9 DEF Release
    <2>2. ASSUME crossing' = {}, NEW u \in Uses, NEW r \in Releases
          PROVE  ~(UnderWay(u)' /\ UnderWay(r)')
      <3>1. ~UnderWay(u) /\ u \in Callers /\ u # k
        BY <1>1, <2>1, <2>2, KindsApart
      <3> QED
        BY <1>1, <2>1, <3>1 DEF UnderWay
    <2> QED
      BY <2>1, <2>2 DEF NotCrossed
  <1>10. ASSUME NEW k \in Callers, Detached(k) PROVE NotCrossed' /\ crossing \subseteq crossing'
    <2>1. pc[k] = "detach" /\ crossing' = crossing
      BY <1>10 DEF Detached
    <2>2. \A j \in Callers \ {k} : pc'[j] = pc[j]
      BY <1>1, <1>10 DEF Detached, Request
    <2>3. "detach" \notin Free
      BY DEF Over
    <2> QED
      BY <1>1, <2>1, <2>2, <2>3, NotCrossedKeeps
  <1>11. ASSUME NEW k \in Callers, Send(k) PROVE NotCrossed' /\ crossing \subseteq crossing'
    <2>1. k \notin Uses \cup Releases /\ crossing' = crossing
      BY <1>11, KindsApart DEF Send
    <2>2. \A j \in Callers \ {k} : pc'[j] = pc[j]
      BY <1>1, <1>11 DEF Send, Request
    <2> QED
      BY <1>1, <2>1, <2>2, NotCrossedKeeps
  <1>12. ASSUME NEW k \in Callers, TimeOut(k) PROVE NotCrossed' /\ crossing \subseteq crossing'
    BY <1>3, <1>12 DEF TimeOut
  <1>13. ASSUME NEW k \in Callers, Cancel(k) PROVE NotCrossed' /\ crossing \subseteq crossing'
    BY <1>1, <1>13, NotCrossedKeeps DEF Cancel
  <1>14. ASSUME NEW c \in Conns, EndpointReads(c) PROVE NotCrossed' /\ crossing \subseteq crossing'
    <2> DEFINE m == Head(up[c])
    <2>1. Reads(c, m) /\ m.call \in Callers
      BY <1>14, ReadIsRead, TakesAnswer
    <2>2. \A k \in Uses \cup Releases : k # m.call => pc'[k] = pc[k]
      BY <2>1 DEF Reads, Singles
    <2>3. crossing' = crossing
      BY <1>14, ReadCases DEF ExecAnswered, UseAnswered, PushAnswered, PullAnswered
    <2>4. CASE Owed(c, m)
      <3>1. pc[m.call] \in Awaiting
        BY <2>1, <2>4 DEF Owed, LinkInv, Registered, Conns
      <3>2. pc[m.call] \notin Free
        BY <3>1 DEF Over, Awaiting
      <3> QED
        BY <2>2, <2>3, <3>2, NotCrossedKeeps
    <2>5. CASE ~Owed(c, m)
      <3>1. pc' = pc
        BY <1>14, <2>5, ReadCases
      <3> QED
        BY <2>3, <3>1, NotCrossedKeeps
    <2> QED
      BY <2>4, <2>5
  <1> QED
    BY <1>4, <1>5, <1>6, <1>7, <1>8, <1>9, <1>10, <1>11, <1>12, <1>13, <1>14 DEF Next

LEMMA OpensAppend ==
  ASSUME NEW s \in Seq(Requests), NEW x \in Requests, NEW u \in Uses
  PROVE  /\ x.step # "close" /\ ThenOpens(s, u) => ThenOpens(Append(s, x), u)
         /\ x.call = u => ThenOpens(Append(s, x), u)
  <1> DEFINE n == Len(s)
  <1>1. /\ Len(Append(s, x)) = n + 1 /\ Append(s, x)[n + 1] = x
        /\ \A i \in 1 .. n : Append(s, x)[i] = s[i]
    BY AppendAt
  <1>2. n \in Nat
    OBVIOUS
  <1>3. x.call = u => x.step # "close"
    BY RequestShape, KindsApart
  <1> HIDE DEF n
  <1>4. ASSUME x.step # "close", ThenOpens(s, u) PROVE ThenOpens(Append(s, x), u)
    <2> SUFFICES ASSUME NEW i \in 1 .. Len(Append(s, x)), Append(s, x)[i].step = "close"
                 PROVE  \E j \in 1 .. Len(Append(s, x)) : j > i /\ Append(s, x)[j].call = u
      BY DEF ThenOpens
    <2>1. i \in 1 .. n /\ s[i].step = "close"
      BY <1>1, <1>2, <1>4
    <2>2. PICK j \in 1 .. n : j > i /\ s[j].call = u
      BY <1>4, <2>1 DEF ThenOpens, n
    <2>3. j \in 1 .. n + 1 /\ Append(s, x)[j].call = u
      BY <1>1, <1>2, <2>2
    <2> QED
      BY <1>1, <2>2, <2>3
  <1>5. ASSUME x.call = u PROVE ThenOpens(Append(s, x), u)
    <2> SUFFICES ASSUME NEW i \in 1 .. Len(Append(s, x)), Append(s, x)[i].step = "close"
                 PROVE  \E j \in 1 .. Len(Append(s, x)) : j > i /\ Append(s, x)[j].call = u
      BY DEF ThenOpens
    <2>1. i \in 1 .. n
      BY <1>1, <1>2, <1>3, <1>5
    <2>2. n + 1 \in 1 .. n + 1 /\ n + 1 > i
      BY <1>2, <2>1
    <2> QED
      BY <1>1, <1>5, <2>2
  <1> QED
    BY <1>4, <1>5

LEMMA ClosesAppend ==
  ASSUME NEW s \in Seq(Requests), NEW x \in Requests, x.step # "close", Closeless(s)
  PROVE  Closeless(Append(s, x))
  <1>1. /\ Len(Append(s, x)) = Len(s) + 1 /\ Append(s, x)[Len(s) + 1] = x
        /\ \A i \in 1 .. Len(s) : Append(s, x)[i] = s[i]
    BY AppendAt
  <1>2. Len(s) \in Nat
    OBVIOUS
  <1> QED
    BY <1>1, <1>2 DEF Closeless

LEMMA OpensTail ==
  ASSUME NEW s \in Seq(Requests), s # <<>>, NEW u
  PROVE  /\ ThenOpens(s, u) => ThenOpens(Tail(s), u)
         /\ Closeless(s) => Closeless(Tail(s)) /\ Head(s).step # "close"
  <1> DEFINE n == Len(s)
  <1>1. /\ n \in Nat \ {0} /\ Head(s) = s[1] /\ Len(Tail(s)) = n - 1
        /\ \A i \in 1 .. n - 1 : Tail(s)[i] = s[i + 1]
    BY TailAt
  <1> HIDE DEF n
  <1>2. ASSUME ThenOpens(s, u) PROVE ThenOpens(Tail(s), u)
    <2> SUFFICES ASSUME NEW i \in 1 .. Len(Tail(s)), Tail(s)[i].step = "close"
                 PROVE  \E j \in 1 .. Len(Tail(s)) : j > i /\ Tail(s)[j].call = u
      BY DEF ThenOpens
    <2>1. i + 1 \in 1 .. n /\ s[i + 1].step = "close"
      BY <1>1
    <2>2. PICK j \in 1 .. n : j > i + 1 /\ s[j].call = u
      BY <1>2, <2>1 DEF ThenOpens, n
    <2>3. j - 1 \in 1 .. n - 1 /\ j - 1 > i /\ s[(j - 1) + 1].call = u
      BY <1>1, <2>2
    <2> QED
      BY <1>1, <2>3
  <1>3. ASSUME Closeless(s) PROVE Closeless(Tail(s)) /\ Head(s).step # "close"
    BY <1>1, <1>3 DEF Closeless, n
  <1> QED
    BY <1>2, <1>3

\* Nothing is sent, and no workspace comes into use.
LEMMA OpenQuiet ==
  ASSUME OpenedLast, NoClose, live' = live, live # 0 => down'[live] = down[live],
         crossing \subseteq crossing', \A u \in Uses : pc'[u] = "open" => pc[u] = "open",
         active' => active, fresh' => fresh, open' = open
  PROVE  OpenedLast' /\ NoClose'
  <1>1. crossing' = {} => crossing = {}
    OBVIOUS
  <1>2. OpenedLast'
    BY <1>1 DEF OpenedLast
  <1>3. NoClose'
    BY <1>1, Zenon DEF NoClose
  <1> QED
    BY <1>2, <1>3

\* A message is sent.
LEMMA OpenSends ==
  ASSUME LinkInv, OpenedLast, NoClose, live' = live, NEW x \in Requests,
         live # 0 => down'[live] = down[live] \/ down'[live] = Append(down[live], x),
         crossing \subseteq crossing',
         \A u \in Uses : pc'[u] = "open" =>
             \/ pc[u] = "open"
             \/ x.call = u /\ (live # 0 => down'[live] = Append(down[live], x)),
         x.step = "close" => ~active' /\ (crossing' = {} => \A u \in Uses : pc'[u] # "open"),
         active' => active, fresh' => fresh, open' = open
  PROVE  OpenedLast' /\ NoClose'
  <1>1. crossing' = {} => crossing = {}
    OBVIOUS
  <1>2. live # 0 => down[live] \in Seq(Requests)
    BY RemoteAssumption DEF LinkInv, TypeOK, Wires, Conns
  <1>3. ASSUME crossing' = {}, live # 0, NEW u \in Uses, pc'[u] = "open"
        PROVE  ThenOpens(down'[live], u)
    <2>1. x.step # "close"
      BY <1>3
    <2>2. CASE x.call = u /\ down'[live] = Append(down[live], x)
      BY <1>2, <1>3, <2>2, OpensAppend
    <2>3. CASE pc[u] = "open"
      <3>1. ThenOpens(down[live], u)
        BY <1>1, <1>3, <2>3 DEF OpenedLast
      <3> QED
        BY <1>2, <1>3, <2>1, <3>1, OpensAppend
    <2> QED
      BY <1>3, <2>2, <2>3
  <1>4. ASSUME crossing' = {}, active'
        PROVE  (live # 0 => Closeless(down'[live])) /\ (fresh' => open')
    <2>1. x.step # "close"
      BY <1>4
    <2>2. (live # 0 => Closeless(down[live])) /\ (fresh => open)
      BY <1>1, <1>4 DEF NoClose
    <2>3. ASSUME live # 0 PROVE Closeless(down'[live])
      <3>1. Closeless(down[live]) /\ down[live] \in Seq(Requests)
        BY <1>2, <2>2, <2>3
      <3>2. Closeless(Append(down[live], x))
        BY <2>1, <3>1, ClosesAppend
      <3> QED
        BY <2>3, <3>1, <3>2
    <2> QED
      BY <2>2, <2>3, Zenon
  <1>5. OpenedLast'
    BY <1>3 DEF OpenedLast
  <1>6. NoClose'
    BY <1>4, Zenon DEF NoClose
  <1> QED
    BY <1>5, <1>6

\* Only the worker, and its restart, change what is open.
LEMMA OnlyWorkerOpens ==
  ASSUME LinkInv, Next, ~WorkerHandles, fresh'
  PROVE  fresh /\ open' = open
  <1> USE DEF pushVars, stateVars, workerVars
  <1>1. CASE Connect \/ Break \/ WorkerDies \/ Expire
    BY <1>1 DEF Connect, Break, WorkerDies, Expire
  <1>2. ASSUME NEW c \in Conns, EndpointEnds(c) PROVE UNCHANGED <<fresh, open>>
    BY <1>2 DEF EndpointEnds
  <1>3. ASSUME NEW c \in Conns, EndpointReads(c) PROVE UNCHANGED <<fresh, open>>
    BY <1>3, ReadCases
  <1>4. ASSUME NEW k \in Callers, Exec(k) \/ Use(k) \/ Push(k) \/ Pull(k) \/ Release(k)
        PROVE  UNCHANGED <<fresh, open>>
    BY <1>4 DEF Exec, Use, Push, Pull, Release, Begin
  <1>5. ASSUME NEW k \in Callers, Detached(k) \/ Send(k) \/ TimeOut(k) \/ Cancel(k)
        PROVE  UNCHANGED <<fresh, open>>
    BY <1>5 DEF Detached, Send, TimeOut, Cancel
  <1> QED
    BY <1>1, <1>2, <1>3, <1>4, <1>5 DEF Next

\* Whoever is told that the workspace is open still finds it so.
LEMMA HeardStep ==
  ASSUME LinkInv, SinglesInv, NotCrossed, OpenedLast, HeardOpen, Next
  PROVE  HeardOpen'
  <1> SUFFICES ASSUME crossing' = {}, fresh', NEW c \in Conns, NEW i \in 1 .. Len(up'[c]),
                      up'[c][i].call \in Uses, up'[c][i].fine, pc'[up'[c][i].call] = "open"
               PROVE  open'
    BY DEF HeardOpen
  <1> DEFINE u == up'[c][i].call
  <1>1. crossing = {}
    BY NotCrossedStep
  <1>2. u \in Singles /\ u \in Callers /\ u \notin Execs \cup Releases \cup Pulls
    BY KindsApart DEF Singles, Callers
  <1>3. ASSUME ~WorkerHandles, NEW j \in 1 .. Len(up[c]), up[c][j] = up'[c][i], pc[u] = "open"
        PROVE  open'
    <2>1. fresh /\ open' = open
      BY <1>3, OnlyWorkerOpens
    <2> QED
      BY <1>1, <1>3, <2>1 DEF HeardOpen
  <1>4. CASE Quiet /\ ~WorkerHandles
    <2>1. up'[c] = up[c]
      <3>1. Len(<<>>) = 0
        OBVIOUS
      <3> QED
        BY <1>4, <3>1 DEF Quiet
    <2>2. Eased(u)
      BY <1>2, <1>4 DEF Quiet
    <2>3. pc[u] = "open"
      BY <2>2 DEF Eased
    <2> QED
      BY <1>3, <1>4, <2>1, <2>3
  <1>5. ASSUME NEW x, Sends(x), ~WorkerHandles PROVE open'
    <2>1. up'[c] = up[c]
      BY <1>5 DEF Sends
    <2>2. Fits(pc[u], up[c][i].step)
      BY <1>2, <2>1 DEF SinglesInv, OneAtATime, AnswersFit
    <2>3. u # x.call
      BY <1>2, <1>5, <2>2 DEF Sends, Fits
    <2>4. pc[u] = "open"
      BY <1>2, <1>5, <2>3 DEF Sends
    <2> QED
      BY <1>3, <1>5, <2>1, <2>4
  <1>6. ASSUME NEW d \in Conns, EndpointReads(d), ~WorkerHandles PROVE open'
    <2>1. up[d] \in Seq(Answers) /\ up[d] # <<>> /\ Head(up[d]).call \in Callers
          /\ up'[c] = IF c = d THEN Tail(up[c]) ELSE up[c]
      BY <1>6, TakesAnswer
    <2>2. PICK j \in 1 .. Len(up[c]) : up[c][j] = up'[c][i]
      <3>1. CASE c = d
        BY <2>1, <3>1, TailAt
      <3>2. CASE c # d
        BY <2>1, <3>2
      <3> QED
        BY <3>1, <3>2
    <2>3. pc[u] = "open"
      <3> DEFINE m == Head(up[d])
      <3>1. Reads(d, m)
        BY <1>6, ReadIsRead
      <3>2. CASE m.call # u
        BY <1>2, <3>1, <3>2 DEF Reads
      <3>3. CASE m.call = u
        <4>1. \/ UNCHANGED pc
              \/ UseAnswered(m.call, m)
          BY <1>2, <1>6, <3>3, KindsApart, ReadCases
        <4>2. pc \in [Callers -> {"idle", "detach", "sending", "cancelled"} \cup Awaiting \cup Over]
          BY DEF LinkInv, TypeOK
        <4>3. ~UseAnswered(m.call, m)
          BY <1>2, <3>3, <4>2 DEF UseAnswered, Return
        <4> QED
          BY <4>1, <4>3
      <3> QED
        BY <3>2, <3>3
    <2> QED
      BY <1>3, <1>6, <2>2, <2>3
  <1>7. CASE WorkerHandles
    <2> DEFINE m == Head(down[live])
    <2>1. /\ HandleOutcome(m) /\ live \in Conns /\ down[live] \in Seq(Requests) /\ down[live] # <<>>
          /\ pc' = pc /\ live # 0
      BY <1>7, HandleEffect DEF LinkInv, Wires, HandleOutcome, WorkerHandles
    <2>1a. m = down[live][1] /\ 1 \in 1 .. Len(down[live])
      BY <2>1, TailAt
    <2>2. PICK r : Said(m, r)
      BY <2>1 DEF HandleOutcome
    <2> HIDE DEF m
    <2>3. Reopens(m)
      BY <2>1 DEF HandleOutcome
    <2>4. CASE i \in 1 .. Len(up[c]) /\ up'[c][i] = up[c][i]
      <3>1. m.step # "close"
        <4>1. SUFFICES ASSUME m.step = "close" PROVE FALSE
          OBVIOUS
        <4>2. ThenOpens(down[live], u)
          BY <1>1, <2>1 DEF OpenedLast
        <4>3. \E j \in 1 .. Len(down[live]) : down[live][j].call = u
          BY <2>1a, <4>1, <4>2 DEF ThenOpens
        <4> QED
          BY <1>2, <2>1, <2>1a, <2>4, <4>3 DEF SinglesInv, OneAtATime, OneOfThem
      <3>2. fresh => open
        BY <1>1, <2>1, <2>4 DEF HeardOpen
      <3>3. open' \in BOOLEAN
        BY <2>3 DEF Reopens
      <3>4. (open' = open /\ fresh' = fresh) \/ open'
        BY <2>3, <3>1 DEF Reopens
      <3>5. fresh'
        OBVIOUS
      <3> QED
        BY <3>2, <3>4, <3>5, Zenon
    <2>5. CASE ~(i \in 1 .. Len(up[c]) /\ up'[c][i] = up[c][i])
      <3>1. c = live
        BY <2>2, <2>5 DEF Said
      <3>2. up[c] \in Seq(Answers) /\ r \in Seq(Answers) /\ up'[c] = up[c] \o r
        BY <2>2, <3>1 DEF LinkInv, Wires, Said
      <3>3. /\ Len(up'[c]) = Len(up[c]) + Len(r)
            /\ \A j \in 1 .. Len(up[c]) : up'[c][j] = up[c][j]
            /\ \A j \in 1 .. Len(r) : up'[c][Len(up[c]) + j] = r[j]
        BY <3>2, JoinAt
      <3>4. Len(up[c]) \in Nat /\ Len(r) \in Nat
        BY <3>2
      <3>5. i > Len(up[c])
        BY <2>5, <3>3, <3>4
      <3>6. i - Len(up[c]) \in 1 .. Len(r) /\ i = Len(up[c]) + (i - Len(up[c]))
        BY <3>3, <3>4, <3>5
      <3>7. up'[c][i] = r[i - Len(up[c])]
        BY <3>3, <3>6
      <3>8. m.call = u
        BY <2>2, <3>6, <3>7 DEF Said
      <3>9. i - Len(up[c]) = 1
        BY <1>2, <2>2, <3>6, <3>8 DEF Said
      <3>10. r[1].fine /\ m.call \in Singles /\ m.step = "open"
        BY <1>2, <2>1, <3>7, <3>8, <3>9, RequestShape, KindsApart DEF HandleOutcome
      <3> QED
        BY <2>2, <3>10 DEF Said
    <2> QED
      BY <2>4, <2>5
  <1> QED
    BY <1>4, <1>5, <1>6, <1>7, FourKinds

\* What is open on the worker stays so.
LEMMA OpenStep ==
  ASSUME LinkInv, SinglesInv, NotCrossed, OpenedLast, HeardOpen, NoClose, Next
  PROVE  OpenedLast' /\ NoClose'
  <1> USE DEF linkVars, pushVars, stateVars, workerVars
  <1>1. /\ Uses \cup Releases \cup Pushes \cup Pulls \cup Execs \subseteq Callers
        /\ pc \in [Callers -> {"idle", "detach", "sending", "cancelled"} \cup Awaiting \cup Over]
        /\ registered \in 0 .. made /\ (live # 0 => registered = live /\ live \in Conns)
    BY RemoteAssumption DEF Callers, LinkInv, TypeOK, Registered, Conns
  <1>2. crossing \subseteq crossing'
    BY NotCrossedStep
  <1>3. ASSUME NEW failing \in SUBSET Callers, Fail(failing),
               UNCHANGED <<live, down, active, fresh, open>>
        PROVE  OpenedLast' /\ NoClose'
    <2>1. FailOutcome(failing)
      BY <1>3, FailEffect DEF LinkInv
    <2>2. \A u \in Uses : pc'[u] = "open" => pc[u] = "open"
      BY <1>1, <2>1 DEF FailOutcome
    <2> QED
      BY <1>2, <1>3, <2>2, OpenQuiet
  <1>4. CASE Connect
    <2>1. /\ live = 0 /\ live' = made + 1 /\ live' \in Conns /\ down' = down
          /\ UNCHANGED <<active, fresh, open, crossing>>
      BY <1>4, RemoteAssumption DEF Connect, Conns, LinkInv, TypeOK
    <2>2. down'[live'] = <<>>
      BY <2>1 DEF LinkInv, Wires, Conns
    <2>3. \A u \in Uses : ThenOpens(<<>>, u)
      BY DEF ThenOpens
    <2>4. Closeless(<<>>)
      BY DEF Closeless
    <2>5. OpenedLast'
      BY <2>2, <2>3 DEF OpenedLast
    <2>6. NoClose'
      BY <2>1, <2>2, <2>4, Zenon DEF NoClose
    <2> QED
      BY <2>5, <2>6
  <1>5. CASE Break \/ WorkerDies
    <2>1. live' = 0 /\ crossing' = crossing /\ active' = active
          /\ (fresh' => fresh) /\ (fresh' => open' = open)
      BY <1>5 DEF Break, WorkerDies, Lose
    <2>2. OpenedLast'
      BY <2>1 DEF OpenedLast
    <2>3. ASSUME crossing' = {}, active', fresh' PROVE open'
      <3>1. crossing = {} /\ active /\ fresh
        BY <2>1, <2>3
      <3>2. open
        BY <3>1 DEF NoClose
      <3> QED
        BY <2>1, <2>3, <3>2
    <2>4. NoClose'
      BY <2>1, <2>3 DEF NoClose
    <2> QED
      BY <2>2, <2>4
  <1>6. CASE WorkerHandles
    <2> DEFINE m == Head(down[live])
    <2>1. /\ HandleOutcome(m) /\ live \in Conns /\ down[live] \in Seq(Requests)
          /\ down[live] # <<>> /\ down'[live] = Tail(down[live])
          /\ UNCHANGED <<live, pc, active, crossing>>
      BY <1>6, HandleEffect DEF LinkInv, Wires, HandleOutcome, WorkerHandles
    <2>2. OpenedLast'
      BY <2>1, OpensTail DEF OpenedLast
    <2>3. ASSUME crossing' = {}, active'
          PROVE  (live' # 0 => Closeless(down'[live])) /\ (fresh' => open')
      <3>1. Closeless(down[live]) /\ (fresh => open)
        BY <2>1, <2>3, RemoteAssumption DEF NoClose, Conns
      <3>2. Closeless(Tail(down[live])) /\ m.step # "close"
        BY <2>1, <3>1, OpensTail
      <3>3. fresh' => open'
        BY <2>1, <3>1, <3>2 DEF HandleOutcome, Reopens
      <3> QED
        BY <2>1, <3>2, <3>3
    <2>4. NoClose'
      BY <2>1, <2>3, Zenon DEF NoClose
    <2> QED
      BY <2>2, <2>4
  <1>7. CASE Expire
    BY <1>2, <1>7, OpenQuiet DEF Expire
  <1>8. ASSUME NEW c \in Conns, EndpointEnds(c) PROVE OpenedLast' /\ NoClose'
    <2> DEFINE failing == IF registered = c THEN Failing(c) ELSE {}
    <2>1. failing \in SUBSET Callers /\ Fail(failing) /\ UNCHANGED <<live, down, active, fresh, open>>
      BY <1>8 DEF EndpointEnds, Unregister, Failing
    <2> QED
      BY <1>3, <2>1
  <1>9. ASSUME NEW k \in Callers, NEW step, Suits(k, step), RequestOutcome(k, registered, step),
               UNCHANGED <<live, active, fresh, open>>, step # "close"
        PROVE  OpenedLast' /\ NoClose'
    <2>1. /\ Message(k, step) \in Requests /\ Message(k, step).call = k
          /\ Message(k, step).step = step
      BY <1>9, RequestsMade DEF Suits
    <2>2. live # 0 => down'[live] = down[live] \/ down'[live] = Append(down[live], Message(k, step))
      BY <1>1, <1>9 DEF RequestOutcome
    <2>3. ASSUME NEW u \in Uses, pc'[u] = "open", pc[u] # "open"
          PROVE  k = u /\ (live # 0 => down'[live] = Append(down[live], Message(k, step)))
      <3>1. k = u
        BY <1>1, <1>9, <2>3 DEF RequestOutcome
      <3>2. pc'[k] \notin {"released", "not_open", "failed"}
        BY <2>3, <3>1
      <3> QED
        BY <1>1, <1>9, <3>1, <3>2 DEF RequestOutcome
    <2> QED
      BY <1>2, <1>9, <2>1, <2>2, <2>3, OpenSends
  <1>10. ASSUME NEW k \in Callers, Exec(k) \/ Use(k) \/ Push(k) \/ Pull(k)
         PROVE  OpenedLast' /\ NoClose'
    <2>1. UNCHANGED <<live, active, fresh, open>>
      BY <1>10 DEF Exec, Use, Push, Pull, Begin
    <2>2. PICK step \in {"exec", "open", "push_begin", "pull"} :
             Suits(k, step) /\ RequestOutcome(k, registered, step)
      BY <1>10, LinkCallsBegin DEF Exec, Use, Push, Pull, Suits
    <2> QED
      BY <1>9, <2>1, <2>2
  <1>11. ASSUME NEW k \in Callers, Release(k) PROVE OpenedLast' /\ NoClose'
    <2>1. UNCHANGED <<live, down, active, fresh, open>> /\ pc' = [pc EXCEPT ![k] = "detach"]
      BY <1>11 DEF Release
    <2> QED
      BY <1>1, <1>2, <2>1, OpenQuiet
  <1>12. ASSUME NEW k \in Callers, Detached(k) PROVE OpenedLast' /\ NoClose'
    <2>1. /\ k \in Releases /\ pc[k] = "detach" /\ active' = FALSE
          /\ UNCHANGED <<live, fresh, open, crossing>>
      BY <1>12, KindsApart DEF Detached, LinkInv, Stations, Callers
    <2>2. CASE active
      <3>1. Message(k, "close") \in Requests /\ Request(k, registered, "close")
        BY <1>12, <2>1, <2>2, RequestsMade DEF Detached
      <3>2. RequestOutcome(k, registered, "close")
        BY <1>1, <3>1, RequestEffect DEF LinkInv, Awaiting
      <3>3. live # 0 => down'[live] = down[live]
                        \/ down'[live] = Append(down[live], Message(k, "close"))
        BY <1>1, <3>2 DEF RequestOutcome
      <3>4. \A u \in Uses : pc'[u] = pc[u]
        BY <1>1, <2>1, <3>2, KindsApart DEF RequestOutcome
      <3>5. crossing' = {} => \A u \in Uses : pc[u] # "open"
        BY <2>1 DEF NotCrossed, UnderWay, Over
      <3> QED
        BY <1>2, <2>1, <3>1, <3>3, <3>4, <3>5, OpenSends
    <2>3. CASE ~active
      <3>1. pc' = [pc EXCEPT ![k] = "released"] /\ down' = down
        BY <1>12, <2>3 DEF Detached
      <3> QED
        BY <1>1, <1>2, <2>1, <3>1, OpenQuiet
    <2> QED
      BY <2>2, <2>3
  <1>13. ASSUME NEW k \in Callers, Send(k) PROVE OpenedLast' /\ NoClose'
    <2>1. /\ k \in Pushes /\ k \notin Uses /\ sent[k] \in 0 .. Chunks /\ held[k] \in 0 .. made
          /\ UNCHANGED <<live, active, fresh, open>>
      BY <1>1, <1>13, KindsApart DEF Send, LinkInv, TypeOK
    <2>2. CASE sent[k] = Chunks
      <3>1. Message(k, "push_end") \in Requests /\ Request(k, held[k], "push_end")
            /\ Message(k, "push_end").step = "push_end"
        BY <1>13, <2>1, <2>2, RequestsMade DEF Send
      <3>2. RequestOutcome(k, held[k], "push_end")
        BY <2>1, <3>1, RequestEffect DEF LinkInv, Awaiting
      <3>3. live # 0 => down'[live] = down[live]
                        \/ down'[live] = Append(down[live], Message(k, "push_end"))
        BY <1>1, <3>2 DEF RequestOutcome
      <3>4. \A u \in Uses : pc'[u] = pc[u]
        BY <1>1, <2>1, <3>2 DEF RequestOutcome
      <3> QED
        BY <1>2, <2>1, <3>1, <3>3, <3>4, OpenSends
    <2>3. CASE sent[k] # Chunks /\ held[k] \in ended
      <3>1. pc' = [pc EXCEPT ![k] = "failed"] /\ down' = down
        BY <1>13, <2>3 DEF Send
      <3> QED
        BY <1>1, <1>2, <2>1, <3>1, OpenQuiet
    <2>4. CASE sent[k] # Chunks /\ held[k] \notin ended
      <3>1. /\ UNCHANGED <<linkVars, pc, up>>
            /\ down' = IF held[k] # live THEN down
                       ELSE [down EXCEPT ![live] = Append(@, Chunk(k, sent[k]))]
        BY <1>13, <2>4 DEF Send
      <3>2. sent[k] \in 0 .. Chunks - 1
        BY <2>1, <2>4, RemoteAssumption
      <3>3. /\ \A c \in Conns :
                 \/ down'[c] = down[c]
                 \/ c = live /\ c = held[k] /\ down'[c] = Append(down[c], Chunk(k, sent[k]))
            /\ Chunk(k, sent[k]) \in Requests /\ Chunk(k, sent[k]).step = "chunk"
        BY <2>1, <3>1, <3>2, ChunkSent DEF LinkInv
      <3>4. live # 0 => down'[live] = down[live]
                        \/ down'[live] = Append(down[live], Chunk(k, sent[k]))
        BY <1>1, <3>3
      <3> QED
        BY <1>2, <2>1, <3>1, <3>3, <3>4, OpenSends
    <2> QED
      BY <2>2, <2>3, <2>4
  <1>14. ASSUME NEW k \in Callers, TimeOut(k) PROVE OpenedLast' /\ NoClose'
    BY <1>3, <1>14 DEF TimeOut
  <1>15. ASSUME NEW k \in Callers, Cancel(k) PROVE OpenedLast' /\ NoClose'
    <2>1. UNCHANGED <<live, down, active, fresh, open>> /\ pc' = [pc EXCEPT ![k] = "cancelled"]
      BY <1>15 DEF Cancel
    <2> QED
      BY <1>1, <1>2, <2>1, OpenQuiet
  <1>16. ASSUME NEW c \in Conns, EndpointReads(c) PROVE OpenedLast' /\ NoClose'
    <2> DEFINE m == Head(up[c])
    <2>1. m \in Answers /\ m.call \in Callers /\ up[c] \in Seq(Answers) /\ up[c] # <<>>
      BY <1>16, TakesAnswer
    <2>2. UNCHANGED <<live, registered, open, fresh>>
      BY <1>16, ReadCases
    <2> HIDE DEF m
    <2>3. ASSUME NEW result, result # "open", Return(m.call, result), UNCHANGED <<active, fresh>>
          PROVE  OpenedLast' /\ NoClose'
      <3>1. down' = down /\ \A u \in Uses : pc'[u] = "open" => pc[u] = "open"
        BY <1>1, <2>1, <2>3 DEF Return
      <3> QED
        BY <1>2, <2>2, <2>3, <3>1, OpenQuiet
    <2>4. CASE ~Owed(c, m)
      <3>1. UNCHANGED <<down, pc, active, fresh>>
        BY <1>16, <2>4, ReadCases DEF m
      <3> QED
        BY <1>2, <2>2, <3>1, OpenQuiet
    <2>5. CASE m.call \in Execs /\ ExecAnswered(m.call, m)
      <3>1. UNCHANGED <<active, fresh>>
        BY <2>2, <2>5 DEF ExecAnswered
      <3>2. \/ \E result \in {"ok", "not_open"} : Return(m.call, result)
            \/ \E step \in {"open", "again"} : Request(m.call, registered, step)
        BY <2>1, <2>5, AnswerShape, KindsApart DEF ExecAnswered
      <3>3. ASSUME NEW step \in {"open", "again"}, Request(m.call, registered, step)
            PROVE  OpenedLast' /\ NoClose'
        <4>1. RequestOutcome(m.call, registered, step) /\ Suits(m.call, step)
          BY <1>1, <2>1, <2>5, <3>3, RequestEffect, RequestsMade DEF LinkInv, Awaiting, Suits
        <4> QED
          BY <1>9, <2>1, <2>2, <3>1, <3>3, <4>1
      <3> QED
        BY <2>3, <3>1, <3>2, <3>3
    <2>6. CASE Owed(c, m) /\ m.call \in Uses /\ UseAnswered(m.call, m)
      <3>1. CASE ~m.fine
        <4>1. active \in BOOLEAN
          BY DEF LinkInv, TypeOK
        <4>2. Return(m.call, "failed") /\ active' = active
          BY <2>6, <3>1, <4>1 DEF UseAnswered
        <4> QED
          BY <2>2, <2>3, <4>2
      <3>2. CASE m.fine
        <4>1. /\ Return(m.call, "used") /\ UNCHANGED <<fresh, crossing, down>>
          BY <1>16, <2>6, <3>2, ReadCases DEF UseAnswered, Return
        <4>2. \A u \in Uses : pc'[u] = "open" => pc[u] = "open"
          BY <1>1, <2>1, <4>1 DEF Return
        <4>3. m.step = "open" /\ pc[m.call] # "pull" /\ pc[m.call] = "open"
          BY <1>1, <2>1, <2>6, AnswerShape, KindsApart DEF Owed, LinkInv, Stations
        <4>4. ASSUME crossing = {}, live # 0 PROVE Closeless(down[live])
          <5>1. ThenOpens(down[live], m.call)
            BY <2>6, <4>3, <4>4 DEF OpenedLast
          <5>2. \A j \in 1 .. Len(down[live]) : down[live][j].call # m.call
            <6>1. 1 \in 1 .. Len(up[c]) /\ up[c][1] = m
              BY <2>1, TailAt DEF m
            <6> QED
              BY <1>1, <2>6, <4>4, <6>1 DEF SinglesInv, OneAtATime, OneOfThem, Singles
          <5> QED
            BY <5>1, <5>2 DEF ThenOpens, Closeless
        <4>5. OpenedLast'
          BY <2>2, <4>1, <4>2 DEF OpenedLast
        <4>5a. crossing = {} /\ fresh => open
          <5>1. 1 \in 1 .. Len(up[c]) /\ up[c][1] = m
            BY <2>1, TailAt DEF m
          <5> QED
            BY <2>6, <3>2, <4>3, <5>1 DEF HeardOpen
        <4>6. NoClose'
          BY <2>2, <4>1, <4>4, <4>5a DEF NoClose
        <4> QED
          BY <4>5, <4>6
      <3> QED
        BY <3>1, <3>2
    <2>7. CASE m.call \in Releases /\ Return(m.call, "released") /\ UNCHANGED <<active, fresh>>
      BY <2>3, <2>7
    <2>8. CASE m.call \in Pushes /\ PushAnswered(m.call, m)
      <3>1. UNCHANGED <<down, active, fresh>> /\ (\A j \in Callers \ {m.call} : pc'[j] = pc[j])
        BY <1>1, <2>1, <2>2, <2>8 DEF PushAnswered, Return
      <3>2. m.call \notin Uses
        BY <2>8, KindsApart
      <3> QED
        BY <1>1, <1>2, <2>2, <3>1, <3>2, OpenQuiet
    <2>9. CASE m.call \in Pulls /\ PullAnswered(m.call, m)
      <3>1. UNCHANGED <<down, active, fresh>> /\ (\A j \in Callers \ {m.call} : pc'[j] = pc[j])
        BY <1>1, <2>1, <2>2, <2>9 DEF PullAnswered
      <3>2. m.call \notin Uses
        BY <2>9, KindsApart
      <3> QED
        BY <1>1, <1>2, <2>2, <3>1, <3>2, OpenQuiet
    <2> QED
      BY <1>16, <2>4, <2>5, <2>6, <2>7, <2>8, <2>9, ReadCases DEF m
  <1> QED
    BY <1>4, <1>5, <1>6, <1>7, <1>8, <1>10, <1>11, <1>12, <1>13, <1>14, <1>15, <1>16 DEF Next

-----------------------------------------------------------------------------
(* Files *)

\* What a step may do to a push, to a pull, and to the messages.
PushMoves(k) ==
    /\ held'[k] = held[k] \/ pc[k] = "idle"
    /\ pc'[k] = "idle" => pc[k] = "idle" /\ part'[k] \in {part[k], -1}
    /\ \/ ~(part'[k] >= 0)
       \/ part'[k] = part[k] /\ live' = live
       \/ live' = live /\ live # 0 /\ held'[k] = live
    /\ pc'[k] \in {"pushed", "pulled"} => pc'[k] = pc[k] \/ k \in whole'
PullMoves(k) ==
    /\ part'[k] >= 0 => (part[k] >= 0 /\ pc'[k] \in {pc[k], "cancelled"}) \/ pc'[k] = "pull"
    /\ pc'[k] \in {"pushed", "pulled"} => pc'[k] = pc[k] \/ k \in whole'
DownMoves(c) ==
    \/ down'[c] \in {down[c], <<>>}
    \/ down[c] # <<>> /\ down'[c] = Tail(down[c])
    \/ \E x \in Requests : /\ down'[c] = Append(down[c], x)
                           /\ x.call \in Pushes => held'[x.call] = c /\ pc'[x.call] # "idle"
UpMoves(c) ==
    \/ up'[c] \in {up[c], <<>>}
    \/ up[c] # <<>> /\ up'[c] = Tail(up[c])
    \/ \E r \in Seq(Answers) :
         /\ up'[c] = up[c] \o r
         /\ \A i \in 1 .. Len(r) :
              r[i].call \in Pushes /\ r[i].step = "push_end" /\ r[i].fine => r[i].call \in whole'

LEMMA FilesMove ==
  ASSUME LinkInv, FilesInv, whole \subseteq whole',
         \A k \in Pushes : PushMoves(k), \A k \in Pulls : PullMoves(k),
         \A c \in Conns : DownMoves(c), \A c \in Conns : UpMoves(c)
  PROVE  FilesInv'
  <1>1. part \in [Pushes \cup Pulls -> -1 .. Chunks] /\ Chunks \in Nat
    BY RemoteAssumption DEF LinkInv, TypeOK
  <1>2. ASSUME NEW k \in Pushes, part'[k] >= 0 PROVE live' # 0 /\ held'[k] = live'
    <2>1. part[k] \in -1 .. Chunks
      BY <1>1
    <2>2. CASE part'[k] = part[k] /\ live' = live
      <3>1. live # 0 /\ held[k] = live /\ pc[k] # "idle"
        BY <1>2, <2>2 DEF FilesInv
      <3> QED
        BY <2>2, <3>1 DEF PushMoves
    <2>3. CASE live' = live /\ live # 0 /\ held'[k] = live
      BY <2>3
    <2> QED
      BY <1>2, <2>2, <2>3 DEF PushMoves
  <1>3. ASSUME NEW k \in Pulls, part'[k] >= 0 PROVE pc'[k] \in {"pull", "cancelled"}
    BY <1>3 DEF PullMoves, FilesInv
  <1>4. ASSUME NEW k \in Pushes \cup Pulls, pc'[k] \in {"pushed", "pulled"} PROVE k \in whole'
    BY <1>4 DEF PushMoves, PullMoves, FilesInv
  <1>5. ASSUME NEW k \in Pushes, pc'[k] = "idle" PROVE part'[k] = -1
    BY <1>5 DEF PushMoves, FilesInv
  <1>6. ASSUME NEW c \in Conns, NEW i \in 1 .. Len(down'[c]), down'[c][i].call \in Pushes
        PROVE  held'[down'[c][i].call] = c /\ pc'[down'[c][i].call] # "idle"
    <2>1. down[c] \in Seq(Requests) /\ DownMoves(c)
      BY DEF LinkInv, Wires
    <2>2. ASSUME NEW j \in 1 .. Len(down[c]), down'[c][i] = down[c][j]
          PROVE  held'[down'[c][i].call] = c /\ pc'[down'[c][i].call] # "idle"
      <3>1. held[down'[c][i].call] = c /\ pc[down'[c][i].call] # "idle"
        BY <1>6, <2>2 DEF FilesInv
      <3> QED
        BY <1>6, <3>1 DEF PushMoves
    <2>3. CASE down'[c] \in {down[c], <<>>}
      BY <2>2, <2>3
    <2>4. CASE down[c] # <<>> /\ down'[c] = Tail(down[c])
      <3>1. i + 1 \in 1 .. Len(down[c]) /\ down'[c][i] = down[c][i + 1]
        BY <2>1, <2>4, TailAt
      <3> QED
        BY <2>2, <3>1
    <2>5. ASSUME NEW x \in Requests, down'[c] = Append(down[c], x),
                 x.call \in Pushes => held'[x.call] = c /\ pc'[x.call] # "idle"
          PROVE  held'[down'[c][i].call] = c /\ pc'[down'[c][i].call] # "idle"
      <3>1. /\ Len(down'[c]) = Len(down[c]) + 1 /\ down'[c][Len(down[c]) + 1] = x
            /\ \A j \in 1 .. Len(down[c]) : down'[c][j] = down[c][j]
        BY <2>1, <2>5, AppendAt
      <3>2. Len(down[c]) \in Nat
        BY <2>1
      <3>3. i \in 1 .. Len(down[c]) \/ down'[c][i] = x
        BY <3>1, <3>2
      <3> QED
        BY <1>6, <2>2, <2>5, <3>1, <3>3
    <2> QED
      BY <2>1, <2>3, <2>4, <2>5 DEF DownMoves
  <1>7. ASSUME NEW c \in Conns, NEW i \in 1 .. Len(up'[c]), up'[c][i].call \in Pushes,
               up'[c][i].step = "push_end", up'[c][i].fine
        PROVE  up'[c][i].call \in whole'
    <2>1. up[c] \in Seq(Answers) /\ UpMoves(c)
      BY DEF LinkInv, Wires
    <2>2. ASSUME NEW j \in 1 .. Len(up[c]), up'[c][i] = up[c][j]
          PROVE  up'[c][i].call \in whole'
      BY <1>7, <2>2 DEF FilesInv
    <2>3. CASE up'[c] \in {up[c], <<>>}
      BY <2>2, <2>3
    <2>4. CASE up[c] # <<>> /\ up'[c] = Tail(up[c])
      <3>1. i + 1 \in 1 .. Len(up[c]) /\ up'[c][i] = up[c][i + 1]
        BY <2>1, <2>4, TailAt
      <3> QED
        BY <2>2, <3>1
    <2>5. ASSUME NEW r \in Seq(Answers), up'[c] = up[c] \o r,
                 \A j \in 1 .. Len(r) :
                    r[j].call \in Pushes /\ r[j].step = "push_end" /\ r[j].fine => r[j].call \in whole'
          PROVE  up'[c][i].call \in whole'
      <3>1. /\ Len(up'[c]) = Len(up[c]) + Len(r)
            /\ \A j \in 1 .. Len(up[c]) : up'[c][j] = up[c][j]
            /\ \A j \in 1 .. Len(r) : up'[c][Len(up[c]) + j] = r[j]
        BY <2>1, <2>5, JoinAt
      <3>2. Len(up[c]) \in Nat /\ Len(r) \in Nat
        BY <2>1
      <3>3. CASE i <= Len(up[c])
        BY <2>2, <3>1, <3>2, <3>3
      <3>4. CASE i > Len(up[c])
        <4>1. i - Len(up[c]) \in 1 .. Len(r) /\ i = Len(up[c]) + (i - Len(up[c]))
          BY <3>1, <3>2, <3>4
        <4>2. up'[c][i] = r[i - Len(up[c])]
          BY <3>1, <4>1
        <4> QED
          BY <1>7, <2>5, <4>1, <4>2
      <3> QED
        BY <3>2, <3>3, <3>4
    <2> QED
      BY <2>1, <2>3, <2>4, <2>5 DEF UpMoves
  <1> QED
    BY <1>2, <1>3, <1>4, <1>5, <1>6, <1>7 DEF FilesInv

\* Calls fail.
LEMMA FilesFail ==
  ASSUME LinkInv, FilesInv, NEW failing \in SUBSET Callers, Fail(failing), whole' = whole,
         down' = down, held' = held, \A c \in Conns : up'[c] \in {up[c], <<>>},
         live' = live \/ live = 0
  PROVE  FilesInv'
  <1>1. FailOutcome(failing)
    BY FailEffect DEF LinkInv
  <1>2. part \in [Pushes \cup Pulls -> -1 .. Chunks] /\ Pushes \cup Pulls \subseteq Callers
    BY RemoteAssumption DEF LinkInv, TypeOK, Callers
  <1>3. \A k \in Callers : pc'[k] = pc[k] \/ pc'[k] \in {"released", "not_open", "failed"}
    BY <1>1 DEF FailOutcome
  <1>4. ASSUME NEW k \in Pushes PROVE PushMoves(k)
    <2>1. part'[k] = part[k] /\ (live' # live => part[k] < 0)
      BY <1>1, <1>2, RemoteAssumption DEF FailOutcome, FilesInv
    <2> QED
      BY <1>2, <1>3, <2>1 DEF PushMoves
  <1>5. ASSUME NEW k \in Pulls PROVE PullMoves(k)
    <2>1. CASE k \in failing
      BY <1>1, <1>2, <2>1 DEF FailOutcome, PullMoves
    <2>2. CASE k \notin failing
      BY <1>1, <1>2, <2>2 DEF FailOutcome, PullMoves
    <2> QED
      BY <2>1, <2>2
  <1>6. \A c \in Conns : DownMoves(c)
    BY DEF DownMoves
  <1>7. \A c \in Conns : UpMoves(c)
    BY DEF UpMoves
  <1> QED
    BY <1>4, <1>5, <1>6, <1>7, FilesMove

\* A request goes out, or the call fails.
LEMMA FilesRequest ==
  ASSUME LinkInv, FilesInv, NEW k \in Callers, NEW c, NEW step, Suits(k, step),
         RequestOutcome(k, c, step), UNCHANGED <<live, part, whole>>,
         \A d \in Conns : up'[d] = up[d] \/ (up[d] # <<>> /\ up'[d] = Tail(up[d])),
         \A j \in Pushes : held'[j] = held[j] \/ (j = k /\ pc[j] = "idle"),
         k \in Pushes => held'[k] = c, k \in Pulls => pc[k] = "idle"
  PROVE  FilesInv'
  <1>1. Pushes \cup Pulls \subseteq Callers /\ \A j \in Callers \ {k} : pc'[j] = pc[j]
    BY DEF Callers, RequestOutcome
  <1>2. Message(k, step) \in Requests /\ Message(k, step).call = k /\ step # "idle"
    BY RequestsMade DEF Suits
  <1>3. pc'[k] \in {step, "released", "not_open", "failed"}
    BY DEF RequestOutcome
  <1>4. step \notin {"pushed", "pulled"}
    BY DEF Suits
  <1>5. \A j \in Pushes : PushMoves(j)
    BY <1>1, <1>2, <1>3, <1>4 DEF PushMoves
  <1>6. ASSUME NEW j \in Pulls PROVE PullMoves(j)
    <2>1. CASE j = k
      BY <1>3, <1>4, <2>1 DEF PullMoves, FilesInv
    <2>2. CASE j # k
      BY <1>1, <2>2 DEF PullMoves
    <2> QED
      BY <2>1, <2>2
  <1>7. ASSUME NEW d \in Conns PROVE DownMoves(d)
    <2>1. CASE down'[d] = down[d]
      BY <2>1 DEF DownMoves
    <2>2. CASE down'[d] # down[d]
      <3>1. d = live /\ c = live /\ down'[d] = Append(down[d], Message(k, step))
        BY <2>2 DEF RequestOutcome
      <3>2. down' # down
        BY <2>2
      <3>3. pc'[k] = step
        BY <3>2 DEF RequestOutcome
      <3> QED
        BY <1>2, <3>1, <3>3 DEF DownMoves
    <2> QED
      BY <2>1, <2>2
  <1>8. \A d \in Conns : UpMoves(d)
    BY DEF UpMoves
  <1> QED
    BY <1>5, <1>6, <1>7, <1>8, FilesMove

\* Only the place of one call moves, and an answer may be read.
LEMMA FilesElsewhere ==
  ASSUME LinkInv, FilesInv, UNCHANGED <<live, down, held, part, whole>>,
         \A d \in Conns : up'[d] = up[d] \/ (up[d] # <<>> /\ up'[d] = Tail(up[d])),
         \A k \in Pushes : pc'[k] = pc[k] \/ pc'[k] \in {"cancelled", "failed", "sending"}
                             \/ (pc'[k] = "pushed" /\ k \in whole),
         \A k \in Pulls : pc'[k] \in {pc[k], "cancelled"}
  PROVE  FilesInv'
  <1>1. \A k \in Pushes : PushMoves(k)
    BY DEF PushMoves
  <1>2. \A k \in Pulls : PullMoves(k)
    BY DEF PullMoves
  <1>3. \A c \in Conns : DownMoves(c) /\ UpMoves(c)
    BY DEF DownMoves, UpMoves
  <1> QED
    BY <1>1, <1>2, <1>3, FilesMove

\* The worker handles a message of a push on the connection that push holds.
LEMMA FilesHandles ==
  ASSUME LinkInv, FilesInv, WorkerHandles
  PROVE  FilesInv'
  <1> DEFINE m == Head(down[live])
  <1>1. HandleOutcome(m) /\ UNCHANGED <<live, pc, held>>
    BY HandleEffect DEF LinkInv, WorkerHandles, pushVars, linkVars
  <1>2. PICK r : Said(m, r)
    BY <1>1 DEF HandleOutcome
  <1>3. /\ live \in Conns /\ live # 0 /\ down[live] \in Seq(Requests) /\ down[live] # <<>>
        /\ m = down[live][1] /\ 1 \in 1 .. Len(down[live])
    BY <1>1, TailAt, RemoteAssumption DEF HandleOutcome, LinkInv, Wires, Conns
  <1> HIDE DEF m
  <1>4. whole' = IF m.call \in Pushes /\ m.step = "push_end" /\ part[m.call] = Chunks
                 THEN whole \cup {m.call} ELSE whole
    BY <1>1 DEF HandleOutcome
  <1>5. ASSUME NEW k \in Pushes PROVE PushMoves(k)
    <2>1. CASE k = m.call
      <3>1. held[k] = live /\ pc[k] # "idle"
        BY <1>3, <2>1 DEF FilesInv
      <3> QED
        BY <1>1, <1>3, <3>1 DEF PushMoves
    <2>2. CASE k # m.call
      <3>1. part'[k] = part[k]
        BY <1>1, <2>2 DEF HandleOutcome
      <3> QED
        BY <1>1, <3>1 DEF PushMoves
    <2> QED
      BY <2>1, <2>2
  <1>6. ASSUME NEW k \in Pulls PROVE PullMoves(k)
    <2>1. part'[k] = part[k]
      <3>1. k \notin Pushes
        BY KindsApart
      <3> QED
        BY <1>1, <3>1 DEF HandleOutcome
    <2> QED
      BY <1>1, <2>1 DEF PullMoves
  <1>7. \A c \in Conns : DownMoves(c)
    BY <1>1 DEF HandleOutcome, DownMoves
  <1>8. ASSUME NEW c \in Conns PROVE UpMoves(c)
    <2>1. CASE c # live
      BY <1>2, <2>1 DEF Said, UpMoves
    <2>2. CASE c = live
      <3>1. r \in Seq(Answers) /\ up'[c] = up[c] \o r
        BY <1>2, <2>2 DEF Said
      <3>2. ASSUME NEW i \in 1 .. Len(r), r[i].call \in Pushes, r[i].step = "push_end", r[i].fine
            PROVE  r[i].call \in whole'
        <4>1. r[i].call = m.call /\ part[m.call] = Chunks /\ m.step = "push_end"
          BY <1>2, <3>2 DEF Said
        <4> QED
          BY <1>4, <3>2, <4>1
      <3> QED
        BY <3>1, <3>2 DEF UpMoves
    <2> QED
      BY <2>1, <2>2
  <1> QED
    BY <1>4, <1>5, <1>6, <1>7, <1>8, FilesMove

LEMMA FilesReads ==
  ASSUME LinkInv, FilesInv, NEW c \in Conns, EndpointReads(c)
  PROVE  FilesInv'
  <1> USE DEF linkVars, pushVars, stateVars, workerVars
  <1> DEFINE m == Head(up[c])
  <1>1. /\ m \in Answers /\ m.call \in Callers /\ up[c] \in Seq(Answers) /\ up[c] # <<>>
        /\ \A d \in Conns : up'[d] = IF d = c THEN Tail(up[d]) ELSE up[d]
    BY TakesAnswer
  <1>2. UNCHANGED <<live, registered>>
    BY ReadCases
  <1>3. \A d \in Conns : up'[d] = up[d] \/ (up[d] # <<>> /\ up'[d] = Tail(up[d]))
    BY <1>1
  <1>4. m = up[c][1] /\ 1 \in 1 .. Len(up[c])
    BY <1>1, TailAt
  <1>5. /\ Pushes \cup Pulls \subseteq Callers /\ registered \in 0 .. made /\ c # 0
        /\ pc \in [Callers -> {"idle", "detach", "sending", "cancelled"} \cup Awaiting \cup Over]
    BY DEF Callers, LinkInv, TypeOK, Conns
  <1> HIDE DEF m
  <1>6. ASSUME NEW result, Return(m.call, result), UNCHANGED <<held, part, whole>>,
               m.call \notin Pushes \cup Pulls
        PROVE  FilesInv'
    <2>1. down' = down /\ \A k \in Pushes \cup Pulls : pc'[k] = pc[k]
      BY <1>1, <1>5, <1>6 DEF Return
    <2> QED
      BY <1>2, <1>3, <1>6, <2>1, FilesElsewhere
  <1>7. CASE ~Owed(c, m)
    <2>1. UNCHANGED <<down, pc, held, part, whole>>
      BY <1>7, ReadCases DEF m
    <2> QED
      BY <1>2, <1>3, <2>1, FilesElsewhere
  <1>8. CASE m.call \in Execs /\ ExecAnswered(m.call, m)
    <2>1. UNCHANGED <<held, part, whole>> /\ m.call \notin Pushes \cup Pulls
      BY <1>8, KindsApart DEF ExecAnswered
    <2>2. \/ \E result \in {"ok", "not_open"} : Return(m.call, result)
          \/ \E step \in {"open", "again"} : Request(m.call, registered, step)
      BY <1>1, <1>8, AnswerShape, KindsApart DEF ExecAnswered
    <2>3. ASSUME NEW step \in {"open", "again"}, Request(m.call, registered, step)
          PROVE  FilesInv'
      <3>1. RequestOutcome(m.call, registered, step) /\ Suits(m.call, step)
        BY <1>1, <1>5, <1>8, <2>3, RequestEffect, RequestsMade DEF LinkInv, Awaiting, Suits
      <3> QED
        BY <1>1, <1>2, <1>3, <2>1, <3>1, FilesRequest
    <2> QED
      BY <1>6, <2>1, <2>2, <2>3
  <1>9. CASE m.call \in Uses /\ UseAnswered(m.call, m)
    BY <1>6, <1>9, KindsApart DEF UseAnswered
  <1>10. CASE m.call \in Releases /\ Return(m.call, "released") /\ UNCHANGED <<held, part, whole>>
    BY <1>6, <1>10, KindsApart
  <1>11. CASE m.call \in Pushes /\ PushAnswered(m.call, m)
    <2>1. UNCHANGED <<down, held, part, whole>> /\ \A k \in Callers \ {m.call} : pc'[k] = pc[k]
      BY <1>1, <1>5, <1>11 DEF PushAnswered, Return
    <2>2. m.call \notin Pulls
      BY <1>11, KindsApart
    <2>3. pc'[m.call] \in {"failed", "sending"} \/ (pc'[m.call] = "pushed" /\ m.call \in whole)
      <3>1. m.step = "push_begin" \/ ~m.fine \/ (m.step = "push_end" /\ m.fine)
        BY <1>1, <1>11, AnswerShape, KindsApart
      <3>2. m.step = "push_end" /\ m.fine => m.call \in whole
        BY <1>4, <1>11 DEF FilesInv
      <3> QED
        BY <1>1, <1>5, <1>11, <3>1, <3>2 DEF PushAnswered, Return
    <2> QED
      BY <1>2, <1>3, <1>5, <1>11, <2>1, <2>2, <2>3, FilesElsewhere
  <1>12. CASE Owed(c, m) /\ m.call \in Pulls /\ PullAnswered(m.call, m)
    <2>1. UNCHANGED <<down, held>> /\ m.call \notin Pushes
      BY <1>12, KindsApart DEF PullAnswered
    <2>2. pc[m.call] = "pull"
      BY <1>1, <1>5, <1>12, KindsApart DEF Owed, LinkInv, Registered, Stations, Awaiting
    <2>3. part \in [Pushes \cup Pulls -> -1 .. Chunks]
      BY DEF LinkInv, TypeOK
    <2>4. \A k \in (Pushes \cup Pulls) \ {m.call} : pc'[k] = pc[k] /\ part'[k] = part[k]
      BY <1>5, <1>12, <2>3 DEF PullAnswered
    <2>5. /\ whole \subseteq whole'
          /\ \/ pc'[m.call] = "pull"
             \/ part'[m.call] = -1 /\ (pc'[m.call] = "failed" \/ m.call \in whole')
      BY <1>5, <1>12, <2>2, <2>3 DEF PullAnswered
    <2>6. ASSUME NEW k \in Pushes PROVE PushMoves(k)
      BY <1>2, <2>1, <2>4 DEF PushMoves
    <2>7. ASSUME NEW k \in Pulls PROVE PullMoves(k)
      <3>1. CASE k = m.call
        BY <2>5, <3>1 DEF PullMoves
      <3>2. CASE k # m.call
        BY <2>4, <3>2 DEF PullMoves
      <3> QED
        BY <3>1, <3>2
    <2>8. \A d \in Conns : DownMoves(d) /\ UpMoves(d)
      BY <1>3, <2>1 DEF DownMoves, UpMoves
    <2> QED
      BY <2>5, <2>6, <2>7, <2>8, FilesMove
  <1> QED
    BY <1>7, <1>8, <1>9, <1>10, <1>11, <1>12, ReadCases DEF m

LEMMA FilesStep ==
  ASSUME LinkInv, FilesInv, Next
  PROVE  FilesInv'
  <1> USE DEF linkVars, pushVars, stateVars, workerVars
  <1>1. /\ Pushes \cup Pulls \subseteq Callers /\ registered \in 0 .. made
        /\ pc \in [Callers -> {"idle", "detach", "sending", "cancelled"} \cup Awaiting \cup Over]
    BY DEF Callers, LinkInv, TypeOK
  <1>2. CASE Connect
    <2>1. Failing(registered) \in SUBSET Callers
      BY DEF Failing
    <2> QED
      BY <1>2, <2>1, FilesFail DEF Connect
  <1>3. CASE Break \/ WorkerDies
    <2>1. /\ part' = [k \in Pushes \cup Pulls |-> IF k \in Pushes THEN -1 ELSE part[k]]
          /\ down' = [down EXCEPT ![live] = <<>>] /\ UNCHANGED <<up, pc, held, whole>>
      BY <1>3 DEF Break, WorkerDies, Lose
    <2>2. \A k \in Pushes : PushMoves(k)
      BY <2>1 DEF PushMoves
    <2>3. \A k \in Pulls : PullMoves(k)
      BY <2>1, KindsApart DEF PullMoves
    <2>4. \A c \in Conns : DownMoves(c)
      BY <2>1 DEF DownMoves, LinkInv, Wires
    <2>5. \A c \in Conns : UpMoves(c)
      BY <2>1 DEF UpMoves
    <2> QED
      BY <2>1, <2>2, <2>3, <2>4, <2>5, FilesMove
  <1>4. CASE Expire
    BY <1>4, FilesElsewhere DEF Expire
  <1>5. ASSUME NEW c \in Conns, EndpointEnds(c) PROVE FilesInv'
    <2> DEFINE failing == IF registered = c THEN Failing(c) ELSE {}
    <2>1. failing \in SUBSET Callers /\ Fail(failing) /\ UNCHANGED <<live, down, held, whole>>
      BY <1>5 DEF EndpointEnds, Unregister, Failing
    <2>2. \A d \in Conns : up'[d] \in {up[d], <<>>}
      BY <1>5 DEF EndpointEnds, LinkInv, Wires
    <2> HIDE DEF failing
    <2> QED
      BY <2>1, <2>2, FilesFail
  <1>6. ASSUME NEW k \in Callers, Exec(k) PROVE FilesInv'
    <2>1. RequestOutcome(k, registered, "exec")
      BY <1>6, LinkCallsBegin
    <2> QED
      BY <1>6, <2>1, FilesRequest, KindsApart DEF Exec, Begin, Suits
  <1>7. ASSUME NEW k \in Callers, Use(k) PROVE FilesInv'
    <2>1. RequestOutcome(k, registered, "open")
      BY <1>7, LinkCallsBegin
    <2> QED
      BY <1>7, <2>1, FilesRequest, KindsApart DEF Use, Begin, Suits
  <1>8. ASSUME NEW k \in Callers, Push(k) PROVE FilesInv'
    <2>1. RequestOutcome(k, registered, "push_begin")
      BY <1>8, LinkCallsBegin
    <2>2. /\ k \in Pushes /\ pc[k] = "idle" /\ held' = [held EXCEPT ![k] = registered]
          /\ UNCHANGED <<live, part, whole, up>>
      BY <1>8 DEF Push, Begin
    <2>3. held'[k] = registered /\ \A j \in Pushes \ {k} : held'[j] = held[j]
      BY <2>2 DEF LinkInv, TypeOK
    <2> QED
      BY <2>1, <2>2, <2>3, FilesRequest, KindsApart DEF Suits
  <1>9. ASSUME NEW k \in Callers, Pull(k) PROVE FilesInv'
    <2>1. RequestOutcome(k, registered, "pull")
      BY <1>9, LinkCallsBegin
    <2> QED
      BY <1>9, <2>1, FilesRequest, KindsApart DEF Pull, Begin, Suits
  <1>10. ASSUME NEW k \in Callers, Release(k) PROVE FilesInv'
    <2>1. k \notin Pushes \cup Pulls /\ pc' = [pc EXCEPT ![k] = "detach"]
      BY <1>10, KindsApart DEF Release
    <2> QED
      BY <1>1, <1>10, <2>1, FilesElsewhere DEF Release
  <1>11. ASSUME NEW k \in Callers, Detached(k) PROVE FilesInv'
    <2>1. k \in Releases /\ k \notin Pushes \cup Pulls /\ UNCHANGED <<live, part, whole, up, held>>
      BY <1>11, KindsApart DEF Detached, LinkInv, Stations, Callers
    <2>2. CASE active
      <3>1. Message(k, "close") \in Requests /\ Request(k, registered, "close")
        BY <1>11, <2>1, <2>2, RequestsMade DEF Detached
      <3>2. RequestOutcome(k, registered, "close")
        BY <1>1, <3>1, RequestEffect DEF LinkInv, Awaiting
      <3> QED
        BY <2>1, <3>2, FilesRequest DEF Suits
    <2>3. CASE ~active
      <3>1. down' = down /\ pc' = [pc EXCEPT ![k] = "released"]
        BY <1>11, <2>3 DEF Detached
      <3> QED
        BY <1>1, <2>1, <3>1, FilesElsewhere
    <2> QED
      BY <2>2, <2>3
  <1>12. ASSUME NEW k \in Callers, Send(k) PROVE FilesInv'
    <2>1. /\ k \in Pushes /\ pc[k] = "sending" /\ k \notin Pulls
          /\ sent[k] \in 0 .. Chunks /\ held[k] \in 0 .. made
          /\ UNCHANGED <<live, part, whole, up, held>>
      BY <1>12, KindsApart DEF Send, LinkInv, TypeOK
    <2>2. CASE sent[k] = Chunks
      <3>1. Message(k, "push_end") \in Requests /\ Request(k, held[k], "push_end")
        BY <1>12, <2>1, <2>2, RequestsMade DEF Send
      <3>2. RequestOutcome(k, held[k], "push_end")
        BY <2>1, <3>1, RequestEffect DEF LinkInv, Awaiting
      <3> QED
        BY <2>1, <3>2, FilesRequest DEF Suits
    <2>3. CASE sent[k] # Chunks /\ held[k] \in ended
      <3>1. down' = down /\ pc' = [pc EXCEPT ![k] = "failed"]
        BY <1>12, <2>3 DEF Send
      <3> QED
        BY <1>1, <2>1, <3>1, FilesElsewhere
    <2>4. CASE sent[k] # Chunks /\ held[k] \notin ended
      <3>1. /\ UNCHANGED <<linkVars, pc, up>>
            /\ down' = IF held[k] # live THEN down
                       ELSE [down EXCEPT ![live] = Append(@, Chunk(k, sent[k]))]
        BY <1>12, <2>4 DEF Send
      <3>2. sent[k] \in 0 .. Chunks - 1
        BY <2>1, <2>4, RemoteAssumption
      <3>3. /\ \A c \in Conns :
                 \/ down'[c] = down[c]
                 \/ c = live /\ c = held[k] /\ down'[c] = Append(down[c], Chunk(k, sent[k]))
            /\ Chunk(k, sent[k]) \in Requests /\ Chunk(k, sent[k]).call = k
        BY <2>1, <3>1, <3>2, ChunkSent DEF LinkInv
      <3>4. \A j \in Pushes : PushMoves(j)
        BY <2>1, <3>1 DEF PushMoves
      <3>5. \A j \in Pulls : PullMoves(j)
        BY <2>1, <3>1 DEF PullMoves
      <3>6. \A c \in Conns : DownMoves(c) /\ UpMoves(c)
        BY <2>1, <3>1, <3>3 DEF DownMoves, UpMoves
      <3> QED
        BY <2>1, <3>4, <3>5, <3>6, FilesMove
    <2> QED
      BY <2>2, <2>3, <2>4
  <1>13. ASSUME NEW k \in Callers, TimeOut(k) PROVE FilesInv'
    BY <1>13, FilesFail DEF TimeOut
  <1>14. ASSUME NEW k \in Callers, Cancel(k) PROVE FilesInv'
    <2>1. \A j \in Callers : pc'[j] \in {pc[j], "cancelled"}
      BY <1>1, <1>14 DEF Cancel
    <2> QED
      BY <1>1, <1>14, <2>1, FilesElsewhere DEF Cancel
  <1> QED
    BY <1>2, <1>3, <1>4, <1>5, <1>6, <1>7, <1>8, <1>9, <1>10, <1>11, <1>12, <1>13, <1>14,
       FilesHandles, FilesReads DEF Next

-----------------------------------------------------------------------------
(* RemoteLink: the theorems *)

LEMMA RemoteStart == Init => RemoteInv
  <1> SUFFICES ASSUME Init PROVE RemoteInv
    OBVIOUS
  <1>1. LinkInv /\ SinglesInv
    BY LinkStart, SinglesStart
  <1>2. NotCrossed
    BY DEF Init, NotCrossed, UnderWay, Callers
  <1>3. OpenedLast /\ HeardOpen /\ NoClose
    <2>1. \A c \in Conns : Len(up[c]) = 0
      BY DEF Init
    <2>2. HeardOpen
      BY <2>1 DEF HeardOpen
    <2> QED
      BY <2>2 DEF Init, OpenedLast, NoClose
  <1>4. FilesInv
    <2>1. /\ \A c \in Conns : Len(down[c]) = 0 /\ Len(up[c]) = 0
          /\ \A k \in Pushes \cup Pulls : part[k] = -1 /\ pc[k] = "idle"
      BY DEF Init, Callers
    <2> QED
      BY <2>1 DEF FilesInv
  <1> QED
    BY <1>1, <1>2, <1>3, <1>4 DEF RemoteInv, SinglesInv

LEMMA RemoteStep == RemoteInv /\ [Next]_vars => RemoteInv'
  <1> SUFFICES ASSUME RemoteInv, [Next]_vars PROVE RemoteInv'
    OBVIOUS
  <1> USE DEF RemoteInv
  <1>1. SinglesInv
    BY DEF SinglesInv
  <1>2. LinkInv' /\ SinglesInv'
    BY <1>1, LinkStep, SinglesStep
  <1>3. CASE Next
    BY <1>1, <1>2, <1>3, NotCrossedStep, OpenStep, HeardStep, FilesStep DEF SinglesInv
  <1>4. CASE UNCHANGED vars
    <2>1. UNCHANGED <<live, down, up, pc, on, held, active, fresh, open, crossing, part, whole>>
      BY <1>4 DEF vars, linkVars, pushVars, stateVars, workerVars
    <2>2. NotCrossed' /\ FilesInv'
      BY <2>1 DEF NotCrossed, UnderWay, FilesInv
    <2>3. OpenedLast' /\ HeardOpen' /\ NoClose'
      <3>1. HeardOpen'
        BY <2>1 DEF HeardOpen
      <3> QED
        BY <2>1, <3>1, OpenQuiet
    <2> QED
      BY <1>2, <2>2, <2>3 DEF SinglesInv
  <1> QED
    BY <1>3, <1>4

LEMMA RemoteHolds == Spec => []RemoteInv
  BY RemoteStart, RemoteStep, PTL DEF Spec

\* The worker runs no command twice, and what the agent is told of a command is so, but for
\* a first run whose own stderr reads as "not open": an answer that arrives after its command
\* was given up is dropped by its request id, and a command is only sent again, once, when
\* its answer reads as that of a worker that had not run it.
THEOREM RemoteRuns == Spec => [](TypeOK /\ RunsOnce)
  <1>1. RemoteInv => TypeOK /\ RunsOnce
    BY DEF RemoteInv, LinkInv, RunsToldRight, RunsOnce
  <1> QED
    BY <1>1, RemoteHolds, PTL

\* What the daemon holds to be connected and in use is so: a new connection of the
\* worker takes the place of the old one in the same step that fails what the old one
\* owed, and of an opening and a release of one workspace the later one wins, when the
\* two were not under way together; that an opening by another call has failed since,
\* which leaves no workspace open, the daemon does not notice.
THEOREM RemoteUse == Spec => []UseHolds
  <1>1. RemoteInv => UseHolds
    BY DEF RemoteInv, LinkInv, Registered, NoClose, UseHolds
  <1> QED
    BY <1>1, RemoteHolds, PTL

\* A transfer that is called done is whole, though the chunks of a push go on over a
\* connection that may be gone; the worker's temporary file is that of a push on the
\* connection it listens on, the daemon's that of a pull which goes on or was cancelled.
THEOREM RemoteFiles == Spec => []FilesWhole
  <1>1. RemoteInv => FilesWhole
    BY DEF RemoteInv, FilesInv, FilesWhole
  <1> QED
    BY <1>1, RemoteHolds, PTL
=============================================================================
