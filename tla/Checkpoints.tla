----------------------------- MODULE Checkpoints -----------------------------
(***************************************************************************)
(* The checkpoint of one owner across evictions, stops and deaths of the   *)
(* daemon: src/agent_core/agent/checkpoint.py, its writers in AgentCore    *)
(* (src/agent_core/agent/agent.py) and its readers in CorePool             *)
(* (src/system/kernel/core_pool.py), with the goals it carries             *)
(* (src/agent_core/goals/store.py) and the time stamp that                 *)
(* KernelScheduler.stop leaves (src/system/kernel/scheduler.py).           *)
(*                                                                         *)
(* All sessions of an owner share the one file. A turn is one action,      *)
(* because it touches the file at its end only (Conversation and CorePool  *)
(* have its inside); an eviction is two, since it marks the file after its *)
(* summary. A conversation is its number of turns. Each session creates at *)
(* most one goal, named as the session. Time is counted in a few units.    *)
(***************************************************************************)
EXTENDS Integers, FiniteSets

CONSTANTS
    Sessions,    \* sessions of the owner
    Ttl,         \* session_expired_seconds
    MaxTime,     \* bound: the clock
    MaxTurns     \* bound: turns of a conversation

ASSUME CheckpointsAssumption ==
    Ttl \in Nat \ {0} /\ MaxTime \in Nat /\ MaxTurns \in Nat

VARIABLES
    phase,     \* the daemon: down, up or stopping (evict_all)
    now,       \* the wall clock
    stamp,     \* kernel_last_shutdown_at, or Never
    file,      \* checkpoint.json
    core,      \* the session's entry in the pool
    dying,     \* the session's eviction that has yet to mark the file
    own,       \* history: what became of the goal a session created
    robbed,    \* history: goals that another session of the owner wrote over, or a
               \* start without a time stamp passed by
    bare,      \* history: goals that a load took from the file and no turn wrote since
    paused     \* history: what the last flush of a stop saved, or Nothing

checkpoints == <<phase, now, stamp, file, core, dying, own, robbed, bare, paused>>

-----------------------------------------------------------------------------
Status == {"none", "active", "done"}
NoGoals == [g \in Sessions |-> "none"]
HasActive(goals) == \E g \in Sessions : goals[g] = "active"

\* Completed and cancelled goals stay in the store and in the checkpoint.
Pinned(goals) == goals # NoGoals

Never == -1
Nothing == [sid |-> "nobody"]
NoFile == [there |-> FALSE]
NoCore == [on |-> FALSE]

Larger(a, b) == IF a >= b THEN a ELSE b
Smaller(a, b) == IF a <= b THEN a ELSE b

Checkpoint(s, turn, goals) ==
    [there |-> TRUE, sid |-> s, turn |-> turn, at |-> now, goals |-> goals, expired |-> FALSE]
Saved(s) == Checkpoint(s, core[s].turn, core[s].goals)

\* mark_expired reads whatever checkpoint is there.
Expired == IF file.there THEN [file EXCEPT !.expired = TRUE] ELSE file

Cold(goals) == [on |-> TRUE, turn |-> 0, active |-> now, goals |-> goals]

\* Time that counts against the session when the daemon was stopped. (Slip: a negative
\* one is taken for an error.)
ElapsedSigned == IF stamp - file.at < 0 THEN Ttl ELSE stamp - file.at
Elapsed == Larger(0, stamp - file.at)
Late == Elapsed >= Ttl /\ ~Pinned(file.goals)

\* _load: an expired checkpoint gives its goals to whoever loads first; one of the
\* same session is restored if there is a time stamp to compare it with.
Salvages == file.there /\ file.expired
Mine(s) == file.there /\ ~file.expired /\ file.sid = s /\ stamp # Never
LoadedCore(s) ==
    IF Mine(s) /\ ~Late
    THEN [on |-> TRUE, turn |-> file.turn, active |-> now - Smaller(Elapsed, Ttl), goals |-> file.goals]
    ELSE Cold(IF Salvages THEN file.goals ELSE NoGoals)
LoadedFile(s) ==
    CASE Salvages         -> NoFile
      [] Mine(s) /\ Late  -> Expired
      [] OTHER            -> file

-----------------------------------------------------------------------------
(* History *)

\* The goals in the file, and whether a session starts cold beside its own checkpoint.
Carried == {g \in Sessions : file.goals[g] # "none"}
PassedBy(s) == file.there /\ ~file.expired /\ file.sid = s /\ stamp = Never

\* A session writes goals, perhaps over the checkpoint of another one.
Overwrites(s, goals) ==
    /\ robbed' = {g \in Sessions :
          /\ goals[g] = "none"
          /\ \/ g \in robbed
             \/ file.there /\ file.sid # s /\ file.goals[g] # "none"}
    /\ bare' = {g \in bare : goals[g] = "none"}

InitCheckpoints ==
    /\ phase = "down" /\ now = 0 /\ stamp = Never
    /\ file = NoFile
    /\ core = [s \in Sessions |-> NoCore]
    /\ dying = [s \in Sessions |-> "no"]
    /\ own = [s \in Sessions |-> "none"]
    /\ robbed = {} /\ bare = {} /\ paused = Nothing

-----------------------------------------------------------------------------
(* Starting *)

\* restore_from_checkpoints: an expired checkpoint is kept for its goals or removed, a
\* late one marked, any other loaded.
Restores == stamp # Never /\ file.there /\ ~file.expired /\ ~Late

RestoredFile ==
    IF stamp = Never \/ ~file.there THEN file
    ELSE CASE file.expired /\ ~Pinned(file.goals)  -> NoFile
           [] file.expired /\ Pinned(file.goals)   -> file
           [] ~file.expired /\ Late                -> Expired
           [] ~file.expired /\ ~Late               -> LoadedFile(file.sid)

Boot ==
    /\ phase = "down"
    /\ phase' = "up"
    /\ file' = RestoredFile
    /\ core' = IF Restores THEN [core EXCEPT ![file.sid] = LoadedCore(file.sid)] ELSE core
    /\ paused' = Nothing
    /\ UNCHANGED <<now, stamp, dying, own, robbed, bare>>

\* acquire of a session that is not in the pool.
Load(s) ==
    /\ phase = "up" /\ ~core[s].on
    /\ core' = [core EXCEPT ![s] = LoadedCore(s)]
    /\ file' = LoadedFile(s)
    /\ robbed' = robbed \cup (IF PassedBy(s) THEN Carried ELSE {})
    /\ bare' = bare \cup (IF Salvages THEN Carried ELSE {})
    /\ UNCHANGED <<phase, now, stamp, dying, own, paused>>

-----------------------------------------------------------------------------
(* Turns *)

\* The goals after a turn of s: it creates its own, completes one that it has, or
\* neither.
Outcomes(s) ==
    {core[s].goals}
      \cup {[core[s].goals EXCEPT ![s] = "active"] : x \in {x \in {s} : own[s] = "none"}}
      \cup {[core[s].goals EXCEPT ![g] = "done"] : g \in {g \in Sessions : core[s].goals[g] = "active"}}

\* A turn ends, however it ends: _finalize_turn writes the checkpoint. (Slip: it
\* does not.)
TurnSkips(s) ==
    /\ phase = "up" /\ core[s].on /\ core[s].turn < MaxTurns
    /\ \E goals \in Outcomes(s) :
        /\ core' = [core EXCEPT ![s] = [on |-> TRUE, turn |-> core[s].turn + 1,
                                        active |-> now, goals |-> goals]]
        /\ own' = [g \in Sessions |-> IF goals[g] # core[s].goals[g] THEN goals[g] ELSE own[g]]
        /\ UNCHANGED <<file, robbed, bare>>
    /\ UNCHANGED <<phase, now, stamp, dying, paused>>
Turn(s) ==
    /\ phase = "up" /\ core[s].on /\ core[s].turn < MaxTurns
    /\ \E goals \in Outcomes(s) :
        /\ core' = [core EXCEPT ![s] = [on |-> TRUE, turn |-> core[s].turn + 1,
                                        active |-> now, goals |-> goals]]
        /\ own' = [g \in Sessions |-> IF goals[g] # core[s].goals[g] THEN goals[g] ELSE own[g]]
        /\ file' = Checkpoint(s, core[s].turn + 1, goals)
        /\ Overwrites(s, goals)
    /\ UNCHANGED <<phase, now, stamp, dying, paused>>

-----------------------------------------------------------------------------
(* Evictions *)

Idle(s) == core[s].on /\ now - core[s].active > Ttl

\* scan_expired keeps a session with active goals and begins its time anew.
Pin(s) ==
    /\ phase = "up" /\ Idle(s) /\ HasActive(core[s].goals)
    /\ core' = [core EXCEPT ![s].active = now]
    /\ UNCHANGED <<phase, now, stamp, file, dying, own, robbed, bare, paused>>

\* The entry leaves the pool; kill and summary are awaited before the mark.
Evict(s, who) ==
    /\ phase = "up" /\ core[s].on /\ dying[s] = "no"
    /\ who = "ttl" => Idle(s) /\ ~HasActive(core[s].goals)
    /\ core' = [core EXCEPT ![s] = NoCore]
    /\ dying' = [dying EXCEPT ![s] = who]
    /\ UNCHANGED <<phase, now, stamp, file, own, robbed, bare, paused>>

\* A command's eviction may still run while the daemon stops.
MarkExpired(s) ==
    /\ dying[s] # "no"
    /\ file' = Expired
    /\ dying' = [dying EXCEPT ![s] = "no"]
    /\ paused' = Nothing
    /\ UNCHANGED <<phase, now, stamp, core, own, robbed, bare>>

-----------------------------------------------------------------------------
(* Stopping and dying *)

\* stop: the TTL loop is cancelled in its eviction, and the stamp is written before
\* evict_all begins.
Stop ==
    /\ phase = "up"
    /\ phase' = "stopping"
    /\ stamp' = now
    /\ dying' = [s \in Sessions |-> IF dying[s] = "ttl" THEN "no" ELSE dying[s]]
    /\ paused' = Nothing
    /\ UNCHANGED <<now, file, core, own, robbed, bare>>

\* evict with shutdown: flush_checkpoint_for_shutdown.
Flush(s) ==
    /\ phase = "stopping" /\ core[s].on
    /\ core' = [core EXCEPT ![s] = NoCore]
    /\ file' = Saved(s)
    /\ Overwrites(s, core[s].goals)
    /\ paused' = [sid |-> s, turn |-> core[s].turn, goals |-> core[s].goals]
    /\ UNCHANGED <<phase, now, stamp, dying, own>>

\* The end of a stop, or a death at any other moment.
Dies ==
    /\ phase # "down"
    /\ phase' = "down"
    /\ core' = [s \in Sessions |-> NoCore]
    /\ dying' = [s \in Sessions |-> "no"]
    /\ UNCHANGED <<now, stamp, file, own, robbed, bare, paused>>

Tick ==
    /\ now < MaxTime
    /\ now' = now + 1
    /\ UNCHANGED <<phase, stamp, file, core, dying, own, robbed, bare, paused>>

NextCheckpoints ==
    \/ Boot \/ Stop \/ Dies \/ Tick
    \/ \E s \in Sessions :
        \/ Load(s) \/ Turn(s) \/ Pin(s) \/ MarkExpired(s) \/ Flush(s)
        \/ \E who \in {"ttl", "command"} : Evict(s, who)

CheckpointsSpec == InitCheckpoints /\ [][NextCheckpoints]_checkpoints

-----------------------------------------------------------------------------
(* Properties *)

Goals == [Sessions -> Status]
Cores == {NoCore} \cup
    [on : {TRUE}, turn : 0 .. MaxTurns, active : Int, goals : Goals]
Files == {NoFile} \cup
    [there : {TRUE}, sid : Sessions, turn : 0 .. MaxTurns, at : Nat, goals : Goals, expired : BOOLEAN]

\* Every variable keeps its type, nothing is live while the daemon is down, and no
\* session was last active in the future, which would lengthen its time to live.
CheckpointsTypeOK ==
    /\ phase \in {"down", "up", "stopping"}
    /\ now \in Nat /\ stamp \in Nat \cup {Never}
    /\ file \in Files
    /\ core \in [Sessions -> Cores]
    /\ dying \in [Sessions -> {"no", "ttl", "command"}]
    /\ own \in Goals /\ robbed \subseteq Sessions /\ bare \subseteq Sessions
    /\ paused \in {Nothing} \cup [sid : Sessions, turn : 0 .. MaxTurns, goals : Goals]
    /\ \A s \in Sessions : core[s].on => core[s].active <= now
    /\ phase = "down" => \A s \in Sessions : ~core[s].on /\ dying[s] = "no"

\* However long a session was idle and however long the daemon was down, the session
\* that a stop saved last is in the pool after the next start, with its conversation
\* and its goals - unless a command's eviction marked the file after that.
PausedResumes ==
    [][phase = "down" /\ phase' = "up" /\ paused # Nothing =>
          LET c == core'[paused.sid]
          IN  c.on /\ c.turn = paused.turn /\ c.goals = paused.goals]_checkpoints

\* A goal that is not finished is kept through evictions, stops and deaths: it is in a
\* live core or in the file - unless another session wrote its own checkpoint over it,
\* the daemon died before it had ever been stopped, or the only copy was in memory.
Kept(g) ==
    \/ \E s \in Sessions : core[s].on /\ core[s].goals[g] = "active"
    \/ file.there /\ file.goals[g] = "active"
GoalsKept == \A g \in Sessions : own[g] = "active" => Kept(g) \/ g \in robbed \cup bare

\* Goals stay in the session that created them.
GoalsStayHome == \A s, g \in Sessions : core[s].on /\ core[s].goals[g] # "none" => g = s
=============================================================================
