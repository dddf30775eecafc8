-------------------------- MODULE AutomationProofs --------------------------
(***************************************************************************)
(* Proofs about AgentTasks and Automation for any set of jobs, tasks,      *)
(* edits and restarts: the rows tell at every moment what became of a      *)
(* task, which is carried out at most once more for every time the daemon  *)
(* went down on it; loops, file and config.yaml agree whenever they have   *)
(* been compared, so nothing older is written over them; a one-shot job of *)
(* the agent fires once per death in the middle of its firing, and once.   *)
(***************************************************************************)
EXTENDS Automation, TLAPS

-----------------------------------------------------------------------------
(* The queue of tasks *)

\* Rows are inserted in order and never removed.
RowsInOrder == \A t \in Tasks : status[t] = "absent" <=> t > made

\* Without a process there is neither a consumer nor a turn.
DownMeansDown == ~up => phase = "down" /\ turn = "none"

\* The account of turns begun: a task whose turn has not begun in this life has
\* begun at most once for each death it saw.
TurnsAccounted ==
    /\ \A t \in Tasks : status[t] \in {"absent", "pending"} => begun[t] <= cuts[t]
    /\ ~up => \A t \in Tasks : status[t] = "running" => begun[t] <= cuts[t]
    /\ turn \in {"binding", "asked"} =>
          current \in Tasks /\ status[current] = "running" /\ begun[current] <= cuts[current]

TaskIInv ==
    /\ TaskTypeOK
    /\ RowsInOrder
    /\ DownMeansDown
    /\ OneRunning
    /\ TurnsAccounted
    /\ RunsOncePerLife

-----------------------------------------------------------------------------
\* The empty queue satisfies the inductive invariant.
LEMMA TaskInitIInv == TaskInit => TaskIInv
  <1> SUFFICES ASSUME TaskInit PROVE TaskIInv
    OBVIOUS
  <1> USE TasksAssumption DEF TaskInit, Tasks
  <1>1. TaskTypeOK
    <2>1. status \in [Tasks -> Statuses]
      BY DEF Statuses
    <2>2. begun \in [Tasks -> Nat] /\ cuts \in [Tasks -> Nat]
      OBVIOUS
    <2>3. made \in 0 .. MaxTasks /\ current \in 0 .. MaxTasks /\ downs \in 0 .. MaxDowns
      OBVIOUS
    <2>4. up \in BOOLEAN /\ phase \in {"down", "idle", "busy", "dead"} /\ turn \in Turns
      BY DEF Turns
    <2> QED
      BY <2>1, <2>2, <2>3, <2>4 DEF TaskTypeOK
  <1>2. RowsInOrder /\ DownMeansDown /\ OneRunning
    BY DEF RowsInOrder, DownMeansDown, OneRunning
  <1>3. TurnsAccounted /\ RunsOncePerLife
    BY DEF TurnsAccounted, RunsOncePerLife
  <1> QED
    BY <1>1, <1>2, <1>3 DEF TaskIInv

\* Every step of the queue, the consumer, the kernel and the process keeps the types.
LEMMA TaskTypeStep ==
  ASSUME TaskTypeOK, [TaskNext]_taskVars
  PROVE  TaskTypeOK'
  <1> USE TasksAssumption DEF Tasks
  <1>1. CASE Push
    BY <1>1 DEF Push, TaskTypeOK, Statuses
  <1>2. CASE Boot
    <2>1. Recovered \in [Tasks -> Statuses]
      BY DEF Recovered, TaskTypeOK, Statuses
    <2> QED
      BY <1>2, <2>1 DEF Boot, TaskTypeOK
  <1>3. ASSUME NEW t \in Tasks, Pop(t) PROVE TaskTypeOK'
    BY <1>3 DEF Pop, TaskTypeOK, Statuses, Turns
  <1>4. ASSUME NEW result \in Finished, CloseTask(result) PROVE TaskTypeOK'
    BY <1>4 DEF CloseTask, TaskTypeOK, Statuses, Turns
  <1>5. CASE BindFails
    BY <1>5, <1>4 DEF BindFails, Finished
  <1>6. CASE Ask
    BY <1>6 DEF Ask, TaskTypeOK, Turns
  <1>7. CASE Finish
    BY <1>7, <1>4 DEF Finish, ResultOf, Finished
  <1>8. CASE Dies
    BY <1>8 DEF Dies, TaskTypeOK, Turns
  <1>9. CASE TurnBegins
    <2>1. begun' \in [Tasks -> Nat]
      <3>1. CASE current \in Tasks
        BY <1>9, <3>1 DEF TurnBegins, TaskTypeOK
      <3>2. CASE current \notin Tasks
        BY <1>9, <3>2 DEF TurnBegins, TaskTypeOK
      <3> QED
        BY <3>1, <3>2
    <2> QED
      BY <1>9, <2>1 DEF TurnBegins, TaskTypeOK, Turns
  <1>10. ASSUME NEW answer \in Answers, TurnEnds(answer) PROVE TaskTypeOK'
    BY <1>10 DEF TurnEnds, TaskTypeOK, Turns
  <1>11. ASSUME NEW answer \in {"cancelled", "never"}, TurnDropped(answer) PROVE TaskTypeOK'
    BY <1>11 DEF TurnDropped, TaskTypeOK, Turns, Answers
  <1>12. CASE StopConsumer
    BY <1>12 DEF StopConsumer, TaskTypeOK
  <1>13. CASE Down
    <2>1. cuts' \in [Tasks -> Nat]
      BY <1>13 DEF Down, TaskTypeOK
    <2>2. downs' \in 0 .. MaxDowns
      BY <1>13 DEF Down, TaskTypeOK
    <2> QED
      BY <1>13, <2>1, <2>2 DEF Down, TaskTypeOK, Turns
  <1>14. CASE UNCHANGED taskVars
    BY <1>14 DEF taskVars, TaskTypeOK
  <1> QED
    BY <1>1, <1>2, <1>3, <1>5, <1>6, <1>7, <1>8, <1>9, <1>10, <1>11, <1>12, <1>13, <1>14
       DEF TaskNext, ConsumerStep, KernelAnswers

\* Rows and consumer agree after every step, and the account of turns is kept.
LEMMA TaskIInvStep ==
  ASSUME TaskIInv, [TaskNext]_taskVars
  PROVE  TaskIInv'
  <1>0. TaskTypeOK /\ TaskTypeOK'
    BY TaskTypeStep DEF TaskIInv
  <1> SUFFICES RowsInOrder' /\ DownMeansDown' /\ OneRunning' /\ TurnsAccounted'
               /\ RunsOncePerLife'
    BY <1>0 DEF TaskIInv
  <1> USE TasksAssumption DEF Tasks
  <1> USE DEF TaskIInv, RowsInOrder, DownMeansDown, OneRunning, TurnsAccounted, RunsOncePerLife
  <1>1. CASE Push
    <2>1. /\ made' = made + 1 /\ made + 1 \in Tasks /\ status[made + 1] = "absent"
          /\ \A t \in Tasks : status'[t] = IF t = made + 1 THEN "pending" ELSE status[t]
          /\ UNCHANGED <<up, phase, current, turn, begun, cuts>>
      BY <1>0, <1>1 DEF Push, TaskTypeOK
    <2>2. RowsInOrder' /\ DownMeansDown' /\ OneRunning'
      BY <1>0, <2>1 DEF TaskTypeOK
    <2>3. TurnsAccounted' /\ RunsOncePerLife'
      BY <1>0, <2>1 DEF TaskTypeOK
    <2> QED
      BY <2>2, <2>3
  <1>2. CASE Boot
    <2>1. \A t \in Tasks : status'[t] = IF status[t] = "running" THEN "pending" ELSE status[t]
      BY <1>2 DEF Boot, Recovered
    <2>2. UNCHANGED <<made, turn, begun, cuts>> /\ up' /\ ~up /\ phase' = "idle"
      BY <1>2 DEF Boot
    <2> QED
      BY <1>0, <2>1, <2>2 DEF TaskTypeOK
  <1>3. ASSUME NEW t \in Tasks, Pop(t) PROVE RowsInOrder' /\ DownMeansDown' /\ OneRunning'
               /\ TurnsAccounted' /\ RunsOncePerLife'
    BY <1>0, <1>3 DEF Pop, TaskTypeOK
  <1>4. ASSUME NEW result \in Finished, phase = "busy", CloseTask(result)
        PROVE  RowsInOrder' /\ DownMeansDown' /\ OneRunning' /\ TurnsAccounted'
               /\ RunsOncePerLife'
    BY <1>0, <1>4 DEF CloseTask, Finished, TaskTypeOK
  <1>5. CASE BindFails
    BY <1>5, <1>4 DEF BindFails, Finished
  <1>6. CASE Ask
    BY <1>0, <1>6 DEF Ask, TaskTypeOK
  <1>7. CASE Finish
    BY <1>7, <1>4 DEF Finish, ResultOf, Finished
  <1>8. CASE Dies
    BY <1>0, <1>8 DEF Dies, TaskTypeOK
  <1>9. CASE TurnBegins
    BY <1>0, <1>9 DEF TurnBegins, TaskTypeOK
  <1>10. ASSUME NEW answer \in Answers, TurnEnds(answer)
         PROVE  RowsInOrder' /\ DownMeansDown' /\ OneRunning' /\ TurnsAccounted'
                /\ RunsOncePerLife'
    BY <1>0, <1>10 DEF TurnEnds, Answers, TaskTypeOK
  <1>11. ASSUME NEW answer \in {"cancelled", "never"}, TurnDropped(answer)
         PROVE  RowsInOrder' /\ DownMeansDown' /\ OneRunning' /\ TurnsAccounted'
                /\ RunsOncePerLife'
    BY <1>0, <1>11 DEF TurnDropped, TaskTypeOK
  <1>12. CASE StopConsumer
    BY <1>0, <1>12 DEF StopConsumer, TaskTypeOK
  <1>13. CASE Down
    BY <1>0, <1>13 DEF Down, TaskTypeOK
  <1>14. CASE UNCHANGED taskVars
    BY <1>14 DEF taskVars
  <1> QED
    BY <1>1, <1>2, <1>3, <1>5, <1>6, <1>7, <1>8, <1>9, <1>10, <1>11, <1>12, <1>13, <1>14
       DEF TaskNext, ConsumerStep, KernelAnswers

\* The inductive invariant holds in every reachable state.
THEOREM TasksInvariant == TaskSpec => []TaskIInv
  <1>1. TaskInit => TaskIInv
    BY TaskInitIInv
  <1>2. TaskIInv /\ [TaskNext]_taskVars => TaskIInv'
    BY TaskIInvStep
  <1> QED
    BY <1>1, <1>2, PTL DEF TaskSpec

\* The rows, the consumer and the kernel's answer keep their types.
THEOREM TaskTypeCorrect == TaskSpec => []TaskTypeOK
  <1>1. TaskIInv => TaskTypeOK
    BY DEF TaskIInv
  <1> QED
    BY <1>1, TasksInvariant, PTL

\* A task whose outcome was lost is found again: whenever the consumer is idle
\* no row is running, and at most one is at any time.
THEOREM OneRunningCorrect == TaskSpec => []OneRunning
  <1>1. TaskIInv => OneRunning
    BY DEF TaskIInv
  <1> QED
    BY <1>1, TasksInvariant, PTL

\* However often the daemon dies, a task has at most one turn for each of its
\* deaths on that task, and one more.
THEOREM RunsCorrect == TaskSpec => []RunsOncePerLife
  <1>1. TaskIInv => RunsOncePerLife
    BY DEF TaskIInv
  <1> QED
    BY <1>1, TasksInvariant, PTL

\* The outcome of a finished task is never replaced, neither by a restart nor by
\* a late answer.
THEOREM FinalOutcome == TaskSpec => FinishedIsFinal
  <1>1. ASSUME TaskIInv, [TaskNext]_taskVars
        PROVE  [\A t \in Tasks : status[t] \in Finished => status'[t] = status[t]]_taskVars
    <2> SUFFICES ASSUME TaskNext, NEW t \in Tasks, status[t] \in Finished
                 PROVE  status'[t] = status[t]
      BY <1>1
    <2> USE TasksAssumption DEF Tasks
    <2>0. TaskTypeOK
      BY <1>1 DEF TaskIInv
    <2>1. CASE Push
      BY <1>1, <2>0, <2>1 DEF Push, TaskIInv, RowsInOrder, TaskTypeOK, Finished
    <2>2. CASE Boot
      BY <2>0, <2>2 DEF Boot, Recovered, TaskTypeOK, Finished
    <2>3. ASSUME NEW u \in Tasks, Pop(u) PROVE status'[t] = status[t]
      BY <2>0, <2>3 DEF Pop, TaskTypeOK, Finished
    <2>4. ASSUME NEW result, phase = "busy", CloseTask(result) PROVE status'[t] = status[t]
      BY <1>1, <2>0, <2>4 DEF CloseTask, TaskIInv, OneRunning, TaskTypeOK, Finished
    <2>5. CASE BindFails \/ Finish
      BY <2>4, <2>5 DEF BindFails, Finish
    <2>6. CASE Ask \/ Dies \/ KernelAnswers \/ StopConsumer \/ Down
      BY <2>6 DEF Ask, Dies, KernelAnswers, TurnBegins, TurnEnds, TurnDropped, StopConsumer, Down
    <2> QED
      BY <2>1, <2>2, <2>3, <2>5, <2>6 DEF TaskNext, ConsumerStep
  <1> QED
    BY <1>1, TasksInvariant, PTL DEF TaskSpec, FinishedIsFinal

-----------------------------------------------------------------------------
(* The inductive invariant *)

\* A firing that is under way is that of a one shot whose loop has woken up.
FiringAwake ==
    firing # NoJob => sched /\ loop[firing] = "asleep" /\ held[firing].shot

\* The scheduler runs only in a process.
SchedNeedsUp == sched => up

\* What is on disk about a job of config.yaml was written by the synchronisation
\* or is that with the job disabled; its loop was started with the former.
ConfigWritten ==
    \A j \in ConfigJobs :
        /\ file[j] \in {NoDef, ConfigDef(j), Disabled(ConfigDef(j))}
        /\ loop[j] = "asleep" => held[j] = ConfigDef(j)

\* Revisions are those of past edits, and only those have fired.
RevsArePast ==
    \A j \in ToolJobs :
        /\ file[j] # NoDef => file[j].rev <= edits
        /\ loop[j] = "asleep" => held[j].rev <= edits
        /\ \A r \in 0 .. MaxEdits : r > edits => shots[j][r] = 0

\* An enabled one shot that is not firing has not fired, but for torn firings;
\* neither on disk nor in a loop.
ShotsAhead ==
    \A j \in ToolJobs :
        firing # j =>
            /\ Enabled(file[j]) /\ file[j].shot => shots[j][file[j].rev] <= torn[j]
            /\ loop[j] = "asleep" /\ held[j].shot => shots[j][held[j].rev] <= torn[j]

IInv ==
    /\ TypeOK
    /\ FiringAwake
    /\ SchedNeedsUp
    /\ LoopsFollowFile
    /\ ConfigWritten
    /\ ConfigFollowed
    /\ RevsArePast
    /\ ShotsAhead
    /\ ShotOnce

-----------------------------------------------------------------------------
(* The queue *)

\* Every step is a step of the queue or leaves the queue alone.
LEMMA StepIsTaskStep ==
  ASSUME [Next]_vars
  PROVE  [TaskNext]_taskVars
  <1>1. CASE UNCHANGED vars
    BY <1>1 DEF vars
  <1>2. CASE Next
    BY <1>2 DEF Next, Create, Delete, EditConfig, BootDaemon, StartScheduler, Reload, Fire,
                FireEnds, Beside, DaemonDown, Tick, TaskNext, ConsumerStep, KernelAnswers
  <1> QED
    BY <1>1, <1>2

\* Definitions, loops and the watcher touch the queue only by pushing tasks, so what
\* holds of the queue holds in the system.
LEMMA TasksInSystem == Spec => TaskSpec
  <1>1. Init => TaskInit
    BY DEF Init
  <1>2. [Next]_vars => [TaskNext]_taskVars
    BY StepIsTaskStep
  <1> QED
    BY <1>1, <1>2, PTL DEF Spec, TaskSpec

\* In the whole system, too, a lost outcome is found and no second row runs.
THEOREM OneRunningInSystem == Spec => []OneRunning
  BY TasksInSystem, OneRunningCorrect, PTL

\* In the whole system, too, a task runs once and once more per death.
THEOREM RunsInSystem == Spec => []RunsOncePerLife
  BY TasksInSystem, RunsCorrect, PTL

\* In the whole system, too, an outcome is final.
THEOREM FinalInSystem == Spec => FinishedIsFinal
  BY TasksInSystem, FinalOutcome, PTL

-----------------------------------------------------------------------------
(* What the operators do *)

\* Disabling a definition changes nothing else about it.
LEMMA DisabledFacts ==
  ASSUME NEW def \in Defs
  PROVE  /\ Disabled(def) \in Defs
         /\ Disabled(def).enabled = FALSE
         /\ Disabled(def).rev = def.rev
         /\ def # NoDef /\ Disabled(def) # NoDef
         /\ ~Enabled(Disabled(def))
  BY AutomationAssumption DEF Disabled, Defs, Enabled

\* What config.yaml declares is an enabled definition.
LEMMA ConfigDefFacts ==
  ASSUME NEW j \in ConfigJobs
  PROVE  ConfigDef(j) \in Defs /\ Enabled(ConfigDef(j)) /\ ConfigDef(j) # NoDef
  <1>1. \E b \in BOOLEAN :
           ConfigDef(j) = [shot |-> b, at |-> 0, enabled |-> TRUE, rev |-> 0]
    <2>1. CASE j \in OneShots
      <3>1. (j \in OneShots) = TRUE
        BY <2>1
      <3> QED
        BY <3>1 DEF ConfigDef
    <2>2. CASE j \notin OneShots
      <3>1. (j \in OneShots) = FALSE
        BY <2>2
      <3> QED
        BY <3>1 DEF ConfigDef
    <2> QED
      BY <2>1, <2>2
  <1>2. PICK b \in BOOLEAN :
           ConfigDef(j) = [shot |-> b, at |-> 0, enabled |-> TRUE, rev |-> 0]
    BY <1>1
  <1>3. ConfigDef(j) \in Defs
    BY <1>2, AutomationAssumption DEF Defs
  <1>4. ConfigDef(j) # NoDef
    BY <1>3, AutomationAssumption
  <1>5. ConfigDef(j).enabled
    BY DEF ConfigDef
  <1> QED
    BY <1>3, <1>4, <1>5 DEF Enabled

\* The synchronisation writes definitions, leaves the agent's jobs alone, writes
\* what is declared as declared and leaves nothing else of config.yaml enabled.
LEMMA SyncedFacts ==
  ASSUME TypeOK
  PROVE  /\ Synced \in [Jobs -> Defs \cup {NoDef}]
         /\ \A j \in ToolJobs : Synced[j] = file[j]
         /\ \A j \in ConfigJobs :
               \/ config = {} /\ Synced[j] = file[j]
               \/ j \in config /\ Synced[j] = ConfigDef(j)
               \/ j \notin config /\ Enabled(file[j]) /\ Synced[j] = Disabled(file[j])
               \/ j \notin config /\ ~Enabled(file[j]) /\ Synced[j] = file[j]
  <1>1. ASSUME NEW j \in Jobs
        PROVE  Synced[j] = CASE config = {} -> file[j]
                             [] j \in config -> ConfigDef(j)
                             [] j \in ConfigJobs \ config /\ Enabled(file[j]) -> Disabled(file[j])
                             [] OTHER -> file[j]
    BY <1>1 DEF Synced
  <1>2. \A j \in ToolJobs : Synced[j] = file[j]
    BY <1>1, AutomationAssumption DEF Jobs, TypeOK
  <1>3. ASSUME NEW j \in ConfigJobs
        PROVE  \/ config = {} /\ Synced[j] = file[j]
               \/ j \in config /\ Synced[j] = ConfigDef(j)
               \/ j \notin config /\ Enabled(file[j]) /\ Synced[j] = Disabled(file[j])
               \/ j \notin config /\ ~Enabled(file[j]) /\ Synced[j] = file[j]
    <2>1. CASE config = {}
      BY <1>1, <2>1 DEF Jobs
    <2>2. CASE config # {} /\ j \in config
      BY <1>1, <2>2 DEF Jobs
    <2>3. CASE config # {} /\ j \notin config /\ Enabled(file[j])
      BY <1>1, <2>3 DEF Jobs
    <2>4. CASE config # {} /\ j \notin config /\ ~Enabled(file[j])
      BY <1>1, <2>4 DEF Jobs
    <2> QED
      BY <2>1, <2>2, <2>3, <2>4
  <1>4. ASSUME NEW j \in Jobs PROVE Synced[j] \in Defs \cup {NoDef}
    <2>1. file[j] \in Defs \cup {NoDef}
      BY DEF TypeOK
    <2>2. Enabled(file[j]) => Disabled(file[j]) \in Defs
      BY <2>1, DisabledFacts DEF Enabled
    <2> QED
      BY <1>2, <1>3, <2>1, <2>2, ConfigDefFacts DEF Jobs
  <1>5. Synced = [j \in Jobs |-> Synced[j]]
    BY DEF Synced
  <1> QED
    BY <1>2, <1>3, <1>4, <1>5

\* The loops that sleep after an adjustment are those of the enabled jobs, each on
\* its definition, whether it was kept or started.
LEMMA AdjustFacts ==
  ASSUME TypeOK, NEW defs \in [Jobs -> Defs \cup {NoDef}], Adjust(defs)
  PROVE  /\ loop' \in [Jobs -> {"absent", "asleep", "done"}]
         /\ held' \in [Jobs -> Defs \cup {NoDef}]
         /\ dirty' = {}
         /\ \A j \in Jobs : loop'[j] = "asleep" <=> Enabled(defs[j])
         /\ \A j \in Jobs : loop'[j] = "asleep" => held'[j] = defs[j] /\ held'[j] \in Defs
  <1>1. ASSUME NEW j \in Jobs, Enabled(defs[j])
        PROVE  defs[j] \in Defs
    BY <1>1 DEF Enabled
  <1> QED
    BY <1>1 DEF Adjust, Changed, TypeOK

-----------------------------------------------------------------------------
(* The invariant is inductive *)

\* The steps beside the jobs: of the consumer and the kernel, or none.
Quiet == UNCHANGED <<up, jobVars>>

\* Every step is one of the job actions, or leaves the jobs and the process alone.
LEMMA JobStep ==
  ASSUME [Next]_vars
  PROVE  \/ \E j \in ToolJobs, shot \in BOOLEAN, at \in 0 .. MaxTime, enabled \in BOOLEAN :
               Create(j, shot, at, enabled)
         \/ \E j \in ToolJobs : Delete(j)
         \/ \E j \in ConfigJobs : EditConfig(j)
         \/ BootDaemon \/ StartScheduler \/ Reload
         \/ \E j \in Jobs : Fire(j)
         \/ \E j \in Jobs : FireEnds(j)
         \/ DaemonDown \/ Tick \/ Quiet
  <1>1. CASE UNCHANGED vars
    BY <1>1 DEF vars, taskVars, Quiet
  <1>2. ASSUME NEW t \in Tasks, Beside(Pop(t)) PROVE Quiet
    BY <1>2 DEF Beside, Pop, Quiet
  <1>3. ASSUME Beside(BindFails) \/ Beside(Finish) PROVE Quiet
    BY <1>3 DEF Beside, BindFails, Finish, CloseTask, Quiet
  <1>4. ASSUME Beside(Ask) \/ Beside(Dies) \/ Beside(TurnBegins) \/ Beside(StopConsumer)
        PROVE  Quiet
    BY <1>4 DEF Beside, Ask, Dies, TurnBegins, StopConsumer, Quiet
  <1>5. ASSUME NEW answer, Beside(TurnEnds(answer)) \/ Beside(TurnDropped(answer))
        PROVE  Quiet
    BY <1>5 DEF Beside, TurnEnds, TurnDropped, Quiet
  <1> QED
    BY <1>1, <1>2, <1>3, <1>4, <1>5 DEF Next

\* What a definition the agent writes is.
LEMMA CreatedFacts ==
  ASSUME TypeOK, edits < MaxEdits,
         NEW shot \in BOOLEAN, NEW at \in 0 .. MaxTime, NEW enabled \in BOOLEAN
  PROVE  /\ edits + 1 \in 0 .. MaxEdits
         /\ [shot |-> shot, at |-> at, enabled |-> enabled, rev |-> edits + 1] \in Defs
  <1>1. edits + 1 \in 0 .. MaxEdits
    BY AutomationAssumption DEF TypeOK
  <1> QED
    BY <1>1 DEF Defs

\* A counter that is increased stays one.
LEMMA CountUp ==
  ASSUME NEW R, NEW f \in [R -> Nat], NEW r \in R
  PROVE  f[r] + 1 \in Nat /\ [f EXCEPT ![r] = f[r] + 1] \in [R -> Nat]
  OBVIOUS

\* The jobs' state keeps its types.
LEMMA TypeStep ==
  ASSUME TypeOK, FiringAwake, [Next]_vars
  PROVE  TypeOK'
  <1>0. TaskTypeOK'
    BY StepIsTaskStep, TaskTypeStep DEF TypeOK
  <1> USE DEF TypeOK
  <1>1. ASSUME NEW j \in ToolJobs, NEW shot \in BOOLEAN, NEW at \in 0 .. MaxTime,
               NEW enabled \in BOOLEAN, Create(j, shot, at, enabled)
        PROVE  TypeOK'
    <2>1. edits' \in 0 .. MaxEdits /\ file' \in [Jobs -> Defs \cup {NoDef}]
      BY <1>1, CreatedFacts DEF Create
    <2>2. dirty' \subseteq Jobs
      BY <1>1 DEF Create, Jobs
    <2> QED
      BY <1>0, <1>1, <2>1, <2>2 DEF Create
  <1>2. ASSUME NEW j \in ToolJobs, Delete(j) PROVE TypeOK'
    <2>1. edits' \in 0 .. MaxEdits
      BY <1>2, AutomationAssumption DEF Delete
    <2>2. file' \in [Jobs -> Defs \cup {NoDef}]
      BY <1>2 DEF Delete
    <2>3. dirty' \subseteq Jobs
      BY <1>2 DEF Delete, Jobs
    <2> QED
      BY <1>0, <1>2, <2>1, <2>2, <2>3 DEF Delete
  <1>3. ASSUME NEW j \in ConfigJobs, EditConfig(j) PROVE TypeOK'
    <2>1. edits' \in 0 .. MaxEdits
      BY <1>3, AutomationAssumption DEF EditConfig
    <2> QED
      BY <1>0, <1>3, <2>1 DEF EditConfig
  <1>4. CASE BootDaemon
    BY <1>0, <1>4, SyncedFacts DEF BootDaemon
  <1>5. CASE StartScheduler
    BY <1>0, <1>5, AdjustFacts DEF StartScheduler
  <1>6. CASE Reload
    BY <1>0, <1>6, SyncedFacts, AdjustFacts DEF Reload
  <1>7. ASSUME NEW j \in Jobs, Fire(j) PROVE TypeOK'
    <2>1. held[j] \in Defs /\ held[j].rev \in 0 .. MaxEdits
      BY <1>7 DEF Fire, Defs
    <2>2. shots' \in [Jobs -> [0 .. MaxEdits -> Nat]]
      <3>1. shots[j] \in [0 .. MaxEdits -> Nat]
        OBVIOUS
      <3>2. [shots[j] EXCEPT ![held[j].rev] = shots[j][held[j].rev] + 1]
               \in [0 .. MaxEdits -> Nat]
        BY <2>1, <3>1, CountUp
      <3>3. shots' = [shots EXCEPT ![j] = [shots[j] EXCEPT ![held[j].rev] =
                                            shots[j][held[j].rev] + 1]] \/ shots' = shots
        BY <1>7 DEF Fire
      <3> QED
        BY <3>2, <3>3
    <2>3. firing' \in Jobs \cup {NoJob}
      BY <1>7 DEF Fire
    <2> QED
      BY <1>0, <1>7, <2>2, <2>3 DEF Fire
  <1>8. ASSUME NEW j \in Jobs, FireEnds(j) PROVE TypeOK'
    <2>1. held[j] \in Defs
      BY <1>8, AutomationAssumption DEF FireEnds, FiringAwake
    <2>2. file' \in [Jobs -> Defs \cup {NoDef}]
      BY <1>8, <2>1, DisabledFacts DEF FireEnds, Updated
    <2> QED
      BY <1>0, <1>8, <2>2 DEF FireEnds
  <1>9. CASE DaemonDown
    <2>1. torn' \in [Jobs -> Nat]
      BY <1>9 DEF DaemonDown
    <2> QED
      BY <1>0, <1>9, <2>1 DEF DaemonDown
  <1>10. CASE Tick
    <2>1. now' \in 0 .. MaxTime
      BY <1>10, AutomationAssumption DEF Tick
    <2> QED
      BY <1>0, <1>10, <2>1 DEF Tick
  <1>11. CASE Quiet
    BY <1>0, <1>11 DEF Quiet, jobVars
  <1> QED
    BY <1>1, <1>2, <1>3, <1>4, <1>5, <1>6, <1>7, <1>8, <1>9, <1>10, <1>11, JobStep

\* A firing wakes its loop up, and only the end of the process or of the firing
\* itself may follow.
LEMMA FiringStep ==
  ASSUME TypeOK, FiringAwake, SchedNeedsUp, [Next]_vars
  PROVE  FiringAwake' /\ SchedNeedsUp'
  <1> USE DEF FiringAwake, SchedNeedsUp, Idle
  <1>1. ASSUME NEW j \in ToolJobs, NEW shot \in BOOLEAN, NEW at \in 0 .. MaxTime,
               NEW enabled \in BOOLEAN, Create(j, shot, at, enabled)
        PROVE  FiringAwake' /\ SchedNeedsUp'
    BY <1>1 DEF Create, taskVars
  <1>2. ASSUME NEW j \in ToolJobs, Delete(j) PROVE FiringAwake' /\ SchedNeedsUp'
    BY <1>2 DEF Delete, taskVars
  <1>3. ASSUME NEW j \in ConfigJobs, EditConfig(j) PROVE FiringAwake' /\ SchedNeedsUp'
    BY <1>3 DEF EditConfig, taskVars
  <1>4. CASE BootDaemon
    BY <1>4 DEF BootDaemon, Boot
  <1>5. CASE StartScheduler
    BY <1>5 DEF StartScheduler, taskVars
  <1>6. CASE Reload
    BY <1>6 DEF Reload, taskVars
  <1>7. ASSUME NEW j \in Jobs, Fire(j) PROVE FiringAwake' /\ SchedNeedsUp'
    BY <1>7 DEF Fire, Push
  <1>8. ASSUME NEW j \in Jobs, FireEnds(j) PROVE FiringAwake' /\ SchedNeedsUp'
    BY <1>8 DEF FireEnds, taskVars
  <1>9. CASE DaemonDown
    BY <1>9 DEF DaemonDown, Down
  <1>10. CASE Tick
    BY <1>10 DEF Tick, taskVars
  <1>11. CASE Quiet
    BY <1>11 DEF Quiet, jobVars
  <1> QED
    BY <1>1, <1>2, <1>3, <1>4, <1>5, <1>6, <1>7, <1>8, <1>9, <1>10, <1>11, JobStep

\* An edit makes its job dirty, a reload compares everything, and the end of a
\* one shot disables the job and ends its loop together.
LEMMA LoopsStep ==
  ASSUME TypeOK, FiringAwake, SchedNeedsUp, LoopsFollowFile, [Next]_vars
  PROVE  LoopsFollowFile'
  <1> USE DEF LoopsFollowFile
  <1>1. ASSUME NEW j \in ToolJobs, NEW shot \in BOOLEAN, NEW at \in 0 .. MaxTime,
               NEW enabled \in BOOLEAN, Create(j, shot, at, enabled)
        PROVE  LoopsFollowFile'
    BY <1>1 DEF Create, TypeOK
  <1>2. ASSUME NEW j \in ToolJobs, Delete(j) PROVE LoopsFollowFile'
    BY <1>2 DEF Delete, TypeOK
  <1>3. ASSUME NEW j \in ConfigJobs, EditConfig(j) PROVE LoopsFollowFile'
    BY <1>3 DEF EditConfig
  <1>4. CASE BootDaemon
    BY <1>4 DEF BootDaemon, Boot, SchedNeedsUp
  <1>5. CASE StartScheduler
    <2>1. \A j \in Jobs : /\ loop'[j] = "asleep" <=> Enabled(file[j])
                          /\ loop'[j] = "asleep" => held'[j] = file[j]
      BY <1>5, AdjustFacts DEF StartScheduler, TypeOK
    <2> QED
      BY <1>5, <2>1 DEF StartScheduler
  <1>6. CASE Reload
    <2>1. \A j \in Jobs : /\ loop'[j] = "asleep" <=> Enabled(Synced[j])
                          /\ loop'[j] = "asleep" => held'[j] = Synced[j]
      BY <1>6, SyncedFacts, AdjustFacts DEF Reload
    <2> QED
      BY <1>6, <2>1 DEF Reload
  <1>7. ASSUME NEW j \in Jobs, Fire(j) PROVE LoopsFollowFile'
    BY <1>7 DEF Fire
  <1>8. ASSUME NEW j \in Jobs, FireEnds(j) PROVE LoopsFollowFile'
    <2>1. held[j] \in Defs
      BY <1>8, AutomationAssumption DEF FireEnds, FiringAwake, TypeOK
    <2>2. loop'[j] = "done" /\ ~Enabled(file'[j])
      BY <1>8, <2>1, DisabledFacts DEF FireEnds, Updated, Enabled, TypeOK
    <2>3. \A k \in Jobs \ {j} : loop'[k] = loop[k] /\ file'[k] = file[k]
      BY <1>8 DEF FireEnds, Updated, TypeOK
    <2> QED
      BY <1>8, <2>2, <2>3 DEF FireEnds
  <1>9. CASE DaemonDown
    BY <1>9 DEF DaemonDown
  <1>10. CASE Tick
    BY <1>10 DEF Tick
  <1>11. CASE Quiet
    BY <1>11 DEF Quiet, jobVars
  <1> QED
    BY <1>1, <1>2, <1>3, <1>4, <1>5, <1>6, <1>7, <1>8, <1>9, <1>10, <1>11, JobStep

\* The agent's tools write only the agent's jobs.
LEMMA ToolsSpareConfig ==
  ASSUME TypeOK, NEW j \in ToolJobs, NEW k \in ConfigJobs, NEW def,
         file' = [file EXCEPT ![j] = def]
  PROVE  file'[k] = file[k]
  BY AutomationAssumption DEF TypeOK, Jobs

\* What is on disk about config.yaml's jobs changes only by a synchronisation and
\* at the end of a one shot, whose loop holds what is declared.
LEMMA ConfigStep ==
  ASSUME TypeOK, FiringAwake, ConfigWritten, ConfigFollowed, [Next]_vars
  PROVE  ConfigWritten' /\ ConfigFollowed'
  <1>0. \A k \in ConfigJobs : k \in Jobs
    BY DEF Jobs
  <1>a. \A k \in ConfigJobs : /\ ConfigDef(k) \in Defs /\ Enabled(ConfigDef(k))
                              /\ ~Enabled(Disabled(ConfigDef(k))) /\ ConfigDef(k) # NoDef
    BY ConfigDefFacts, DisabledFacts
  <1>b. ~Enabled(NoDef) /\ \A k \in ConfigJobs : ConfigDef(k)' = ConfigDef(k)
    BY DEF Enabled, ConfigDef
  <1>c. \A k \in ConfigJobs : Synced[k] \in {NoDef, ConfigDef(k), Disabled(ConfigDef(k))}
    <2>1. \A k \in ConfigJobs : Enabled(file[k]) => file[k] = ConfigDef(k)
      BY <1>a, <1>b DEF ConfigWritten
    <2> QED
      BY <2>1, SyncedFacts DEF ConfigWritten
  <1>d. config # {} => \A k \in ConfigJobs :
           IF k \in config THEN Synced[k] \in {ConfigDef(k), Disabled(ConfigDef(k))}
                           ELSE ~Enabled(Synced[k])
    <2>1. \A k \in ConfigJobs : Enabled(file[k]) => file[k] = ConfigDef(k)
      BY <1>a, <1>b DEF ConfigWritten
    <2> QED
      BY <1>a, <2>1, SyncedFacts
  <1>1. ASSUME NEW j \in ToolJobs, NEW shot \in BOOLEAN, NEW at \in 0 .. MaxTime,
               NEW enabled \in BOOLEAN, Create(j, shot, at, enabled)
        PROVE  ConfigWritten' /\ ConfigFollowed'
    <2>1. \A k \in ConfigJobs : file'[k] = file[k]
      BY <1>1, ToolsSpareConfig DEF Create
    <2> QED
      BY <1>1, <1>b, <2>1 DEF Create, taskVars, ConfigWritten, ConfigFollowed
  <1>2. ASSUME NEW j \in ToolJobs, Delete(j) PROVE ConfigWritten' /\ ConfigFollowed'
    <2>1. \A k \in ConfigJobs : file'[k] = file[k]
      BY <1>2, ToolsSpareConfig DEF Delete
    <2> QED
      BY <1>2, <1>b, <2>1 DEF Delete, taskVars, ConfigWritten, ConfigFollowed
  <1>3. ASSUME NEW j \in ConfigJobs, EditConfig(j) PROVE ConfigWritten' /\ ConfigFollowed'
    BY <1>3, <1>b DEF EditConfig, ConfigWritten, ConfigFollowed
  <1>4. CASE BootDaemon
    BY <1>4, <1>b, <1>c, <1>d DEF BootDaemon, ConfigWritten, ConfigFollowed
  <1>5. CASE StartScheduler
    <2>1. \A k \in ConfigJobs : loop'[k] = "asleep" => Enabled(file[k]) /\ held'[k] = file[k]
      BY <1>0, <1>5, AdjustFacts DEF StartScheduler, TypeOK
    <2> QED
      BY <1>5, <1>a, <1>b, <2>1 DEF StartScheduler, taskVars, ConfigWritten, ConfigFollowed
  <1>6. CASE Reload
    <2>1. \A k \in ConfigJobs : loop'[k] = "asleep" => Enabled(Synced[k]) /\ held'[k] = Synced[k]
      BY <1>0, <1>6, SyncedFacts, AdjustFacts DEF Reload
    <2>2. ConfigWritten'
      BY <1>6, <1>a, <1>b, <1>c, <2>1 DEF Reload, ConfigWritten
    <2>3. ConfigFollowed'
      BY <1>6, <1>b, <1>d DEF Reload, ConfigFollowed
    <2> QED
      BY <2>2, <2>3
  <1>7. ASSUME NEW j \in Jobs, Fire(j) PROVE ConfigWritten' /\ ConfigFollowed'
    BY <1>7, <1>b DEF Fire, Push, ConfigWritten, ConfigFollowed
  <1>8. ASSUME NEW j \in Jobs, FireEnds(j) PROVE ConfigWritten' /\ ConfigFollowed'
    <2>1. \A k \in ConfigJobs :
             \/ file'[k] = file[k]
             \/ file[k] # NoDef /\ file'[k] = Disabled(ConfigDef(k))
      <3>1. \A k \in ConfigJobs : k # j => file'[k] = file[k]
        BY <1>8 DEF FireEnds, Updated, TypeOK
      <3>2. CASE j \in ConfigJobs
        <4>1. held[j] = ConfigDef(j)
          BY <1>8, <3>2, AutomationAssumption DEF FireEnds, FiringAwake, ConfigWritten
        <4>2. file'[j] = file[j] \/ (file[j] # NoDef /\ file'[j] = Disabled(held[j]))
          BY <1>8 DEF FireEnds, Updated, TypeOK
        <4> QED
          BY <3>1, <4>1, <4>2
      <3>3. CASE j \notin ConfigJobs
        BY <3>1, <3>3
      <3> QED
        BY <3>2, <3>3
    <2>2. \A k \in Jobs : loop'[k] = "asleep" => loop[k] = "asleep"
      BY <1>8 DEF FireEnds, TypeOK
    <2> QED
      BY <1>8, <1>0, <1>a, <1>b, <2>1, <2>2
         DEF FireEnds, taskVars, ConfigWritten, ConfigFollowed
  <1>9. CASE DaemonDown
    <2>1. \A k \in ConfigJobs : loop'[k] = "absent"
      BY <1>9, <1>0 DEF DaemonDown
    <2> QED
      BY <1>9, <1>b, <2>1 DEF DaemonDown, Down, ConfigWritten, ConfigFollowed
  <1>10. CASE Tick
    BY <1>10, <1>b DEF Tick, taskVars, ConfigWritten, ConfigFollowed
  <1>11. CASE Quiet
    BY <1>11, <1>b DEF Quiet, jobVars, ConfigWritten, ConfigFollowed
  <1> QED
    BY <1>1, <1>2, <1>3, <1>4, <1>5, <1>6, <1>7, <1>8, <1>9, <1>10, <1>11, JobStep

\* Revisions grow with the edits, and what is on disk or held is a past one.
LEMMA RevsStep ==
  ASSUME TypeOK, FiringAwake, RevsArePast, [Next]_vars
  PROVE  RevsArePast'
  <1>0. \A k \in ToolJobs : k \in Jobs
    BY DEF Jobs
  <1>a. NoDef \notin Defs /\ edits \in Nat
    BY AutomationAssumption DEF TypeOK
  <1>b. \A def \in Defs : def.rev \in Nat
    BY DEF Defs
  <1> USE DEF RevsArePast
  <1>1. ASSUME NEW j \in ToolJobs, NEW shot \in BOOLEAN, NEW at \in 0 .. MaxTime,
               NEW enabled \in BOOLEAN, Create(j, shot, at, enabled)
        PROVE  RevsArePast'
    <2>1. edits' = edits + 1 /\ UNCHANGED <<loop, held, shots>>
      BY <1>1 DEF Create
    <2>2. \A k \in ToolJobs : file'[k] = file[k] \/ file'[k].rev = edits + 1
      BY <1>0, <1>1 DEF Create, TypeOK
    <2>3. \A k \in ToolJobs :
             /\ file[k] # NoDef => file[k].rev \in Nat
             /\ loop[k] = "asleep" => held[k].rev \in Nat
      BY <1>0, <1>b DEF TypeOK
    <2> QED
      BY <1>a, <2>1, <2>2, <2>3
  <1>2. ASSUME NEW j \in ToolJobs, Delete(j) PROVE RevsArePast'
    <2>1. edits' = edits + 1 /\ UNCHANGED <<loop, held, shots>>
      BY <1>2 DEF Delete
    <2>2. \A k \in ToolJobs : file'[k] = file[k] \/ file'[k] = NoDef
      BY <1>0, <1>2 DEF Delete, TypeOK
    <2>3. \A k \in ToolJobs :
             /\ file[k] # NoDef => file[k].rev \in Nat
             /\ loop[k] = "asleep" => held[k].rev \in Nat
      BY <1>0, <1>b DEF TypeOK
    <2> QED
      BY <1>a, <2>1, <2>2, <2>3
  <1>3. ASSUME NEW j \in ConfigJobs, EditConfig(j) PROVE RevsArePast'
    <2>1. edits' = edits + 1 /\ UNCHANGED <<file, loop, held, shots>>
      BY <1>3 DEF EditConfig
    <2>2. \A k \in ToolJobs :
             /\ file[k] # NoDef => file[k].rev \in Nat
             /\ loop[k] = "asleep" => held[k].rev \in Nat
      BY <1>0, <1>b DEF TypeOK
    <2> QED
      BY <1>a, <2>1, <2>2
  <1>4. CASE BootDaemon
    BY <1>4, SyncedFacts DEF BootDaemon
  <1>5. CASE StartScheduler
    <2>1. \A k \in ToolJobs : loop'[k] = "asleep" => held'[k] = file[k] /\ held'[k] \in Defs
      BY <1>0, <1>5, AdjustFacts DEF StartScheduler, TypeOK
    <2> QED
      BY <1>5, <1>a, <2>1 DEF StartScheduler
  <1>6. CASE Reload
    <2>1. \A k \in ToolJobs : loop'[k] = "asleep" => held'[k] = file[k] /\ held'[k] \in Defs
      BY <1>0, <1>6, SyncedFacts, AdjustFacts DEF Reload
    <2> QED
      BY <1>6, <1>a, <2>1, SyncedFacts DEF Reload
  <1>7. ASSUME NEW j \in Jobs, Fire(j) PROVE RevsArePast'
    <2>1. held[j] \in Defs /\ held[j].rev \in 0 .. MaxEdits
      BY <1>7 DEF Fire, TypeOK, Defs
    <2>2. \A k \in ToolJobs : \A r \in 0 .. MaxEdits :
             shots'[k][r] = shots[k][r] \/ (k = j /\ r = held[j].rev)
      BY <1>0, <1>7, <2>1 DEF Fire, TypeOK
    <2> QED
      BY <1>7, <1>0, <1>a, <1>b, <2>1, <2>2 DEF Fire
  <1>8. ASSUME NEW j \in Jobs, FireEnds(j) PROVE RevsArePast'
    <2>1. loop[j] = "asleep" /\ held[j] \in Defs
      BY <1>8, AutomationAssumption DEF FireEnds, FiringAwake, TypeOK
    <2>2. \A k \in ToolJobs : \/ file'[k] = file[k]
                              \/ k = j /\ file'[k] = Disabled(held[j])
      <3>1. CASE file[j] = NoDef
        BY <1>8, <3>1 DEF FireEnds, Updated
      <3>2. CASE file[j] # NoDef
        BY <1>0, <1>8, <3>2 DEF FireEnds, Updated, TypeOK
      <3> QED
        BY <3>1, <3>2
    <2>3. \A k \in Jobs : loop'[k] = "asleep" => loop[k] = "asleep"
      BY <1>8 DEF FireEnds, TypeOK
    <2>4. Disabled(held[j]).rev = held[j].rev
      BY <2>1, DisabledFacts
    <2> QED
      BY <1>8, <1>0, <2>1, <2>2, <2>3, <2>4 DEF FireEnds
  <1>9. CASE DaemonDown
    <2>1. \A k \in ToolJobs : loop'[k] = "absent"
      BY <1>9, <1>0 DEF DaemonDown
    <2> QED
      BY <1>9, <2>1 DEF DaemonDown
  <1>10. CASE Tick
    BY <1>10 DEF Tick
  <1>11. CASE Quiet
    BY <1>11 DEF Quiet, jobVars
  <1> QED
    BY <1>1, <1>2, <1>3, <1>4, <1>5, <1>6, <1>7, <1>8, <1>9, <1>10, <1>11, JobStep

\* A one shot fires from a loop whose definition has not fired, a new definition
\* has a new revision, and a definition that has fired is disabled before anything
\* else happens, unless the process dies.
LEMMA ShotsStep ==
  ASSUME TypeOK, FiringAwake, RevsArePast, ShotsAhead, ShotOnce, [Next]_vars
  PROVE  ShotsAhead' /\ ShotOnce'
  <1>0. \A k \in ToolJobs : k \in Jobs
    BY DEF Jobs
  <1>a. NoDef \notin Defs /\ NoJob \notin Jobs /\ edits \in Nat
    BY AutomationAssumption DEF TypeOK
  <1>b. \A k \in Jobs : torn[k] \in Nat /\ \A r \in 0 .. MaxEdits : shots[k][r] \in Nat
    BY DEF TypeOK
  <1>c. \A def \in Defs : def.rev \in 0 .. MaxEdits
    BY DEF Defs
  <1>1. ASSUME NEW j \in ToolJobs, NEW shot \in BOOLEAN, NEW at \in 0 .. MaxTime,
               NEW enabled \in BOOLEAN, Create(j, shot, at, enabled)
        PROVE  ShotsAhead' /\ ShotOnce'
    <2>1. UNCHANGED <<loop, held, shots, torn, firing>>
      BY <1>1 DEF Create
    <2>2. edits + 1 \in 0 .. MaxEdits /\ edits + 1 > edits
      BY <1>1, AutomationAssumption DEF Create, TypeOK
    <2>3. \A k \in ToolJobs : file'[k] = file[k] \/ file'[k].rev = edits + 1
      BY <1>0, <1>1 DEF Create, TypeOK
    <2>4. \A k \in ToolJobs : shots[k][edits + 1] <= torn[k]
      BY <1>0, <1>b, <2>2 DEF RevsArePast
    <2> QED
      BY <2>1, <2>3, <2>4 DEF ShotsAhead, ShotOnce
  <1>2. ASSUME NEW j \in ToolJobs, Delete(j) PROVE ShotsAhead' /\ ShotOnce'
    <2>1. \A k \in ToolJobs : file'[k] = file[k] \/ ~Enabled(file'[k])
      BY <1>0, <1>2 DEF Delete, Enabled, TypeOK
    <2> QED
      BY <1>2, <2>1 DEF Delete, ShotsAhead, ShotOnce
  <1>3. ASSUME NEW j \in ConfigJobs, EditConfig(j) PROVE ShotsAhead' /\ ShotOnce'
    BY <1>3 DEF EditConfig, ShotsAhead, ShotOnce
  <1>4. CASE BootDaemon
    BY <1>4, SyncedFacts DEF BootDaemon, ShotsAhead, ShotOnce
  <1>5. CASE StartScheduler
    <2>1. \A k \in ToolJobs : loop'[k] = "asleep" => Enabled(file[k]) /\ held'[k] = file[k]
      BY <1>0, <1>5, AdjustFacts DEF StartScheduler, TypeOK
    <2> QED
      BY <1>5, <2>1 DEF StartScheduler, ShotsAhead, ShotOnce
  <1>6. CASE Reload
    <2>1. \A k \in ToolJobs : loop'[k] = "asleep" => Enabled(file[k]) /\ held'[k] = file[k]
      BY <1>0, <1>6, SyncedFacts, AdjustFacts DEF Reload
    <2> QED
      BY <1>6, <2>1, SyncedFacts DEF Reload, ShotsAhead, ShotOnce
  <1>7. ASSUME NEW j \in Jobs, Fire(j) PROVE ShotsAhead' /\ ShotOnce'
    <2>1. held[j] \in Defs /\ held[j].rev \in 0 .. MaxEdits /\ loop[j] = "asleep" /\ firing = NoJob
      BY <1>7, <1>c DEF Fire, Idle, TypeOK
    <2>2. UNCHANGED <<file, loop, held, torn>>
      BY <1>7 DEF Fire
    <2>3. CASE held[j].shot
      <3>1. firing' = j
        BY <1>7, <2>3 DEF Fire
      <3>2. \A k \in ToolJobs : \A r \in 0 .. MaxEdits :
               shots'[k][r] = IF k = j /\ r = held[j].rev THEN shots[k][r] + 1 ELSE shots[k][r]
        BY <1>0, <1>7, <2>1, <2>3 DEF Fire, TypeOK
      <3>3. j \in ToolJobs => shots[j][held[j].rev] <= torn[j]
        BY <1>a, <2>1, <2>3 DEF ShotsAhead
      <3>4. ShotOnce'
        BY <1>0, <1>b, <2>1, <2>2, <3>2, <3>3 DEF ShotOnce
      <3>5. \A k \in ToolJobs : k # j => shots'[k] = shots[k]
        BY <1>0, <1>7, <2>3 DEF Fire, TypeOK
      <3>6. ShotsAhead'
        BY <1>0, <1>a, <2>1, <2>2, <3>1, <3>5 DEF ShotsAhead
      <3> QED
        BY <3>4, <3>6
    <2>4. CASE ~held[j].shot
      BY <1>7, <2>1, <2>2, <2>4 DEF Fire, ShotsAhead, ShotOnce
    <2> QED
      BY <2>3, <2>4
  <1>8. ASSUME NEW j \in Jobs, FireEnds(j) PROVE ShotsAhead' /\ ShotOnce'
    <2>1. held[j] \in Defs
      BY <1>8, <1>a DEF FireEnds, FiringAwake, TypeOK
    <2>2. ~Enabled(file'[j]) /\ loop'[j] = "done"
      BY <1>8, <2>1, DisabledFacts DEF FireEnds, Updated, Enabled, TypeOK
    <2>3. \A k \in Jobs : k # j => file'[k] = file[k] /\ loop'[k] = loop[k]
      BY <1>8 DEF FireEnds, Updated, TypeOK
    <2>4. firing = j /\ UNCHANGED <<held, shots, torn>>
      BY <1>8 DEF FireEnds
    <2> QED
      BY <1>0, <2>2, <2>3, <2>4 DEF ShotsAhead, ShotOnce
  <1>9. CASE DaemonDown
    <2>1. \A k \in ToolJobs : loop'[k] = "absent"
      BY <1>9, <1>0 DEF DaemonDown
    <2>2. \A k \in ToolJobs : torn'[k] = IF k = firing THEN torn[k] + 1 ELSE torn[k]
      BY <1>9, <1>0 DEF DaemonDown
    <2>3. UNCHANGED <<file, shots>> /\ firing' = NoJob
      BY <1>9 DEF DaemonDown
    <2>4. ShotOnce'
      BY <1>0, <1>b, <2>2, <2>3 DEF ShotOnce
    <2>5. \A k \in ToolJobs : Enabled(file[k]) => file[k].rev \in 0 .. MaxEdits
      BY <1>0, <1>c DEF Enabled, TypeOK
    <2>6. ShotsAhead'
      <3> SUFFICES ASSUME NEW k \in ToolJobs, Enabled(file[k]), file[k].shot
                   PROVE  shots[k][file[k].rev] <= torn'[k]
        BY <2>1, <2>3 DEF ShotsAhead
      <3>1. CASE k = firing
        BY <1>0, <1>b, <2>2, <2>5, <3>1 DEF ShotOnce
      <3>2. CASE k # firing
        BY <2>2, <3>2 DEF ShotsAhead
      <3> QED
        BY <3>1, <3>2
    <2> QED
      BY <2>4, <2>6
  <1>10. CASE Tick
    BY <1>10 DEF Tick, ShotsAhead, ShotOnce
  <1>11. CASE Quiet
    BY <1>11 DEF Quiet, jobVars, ShotsAhead, ShotOnce
  <1> QED
    BY <1>1, <1>2, <1>3, <1>4, <1>5, <1>6, <1>7, <1>8, <1>9, <1>10, <1>11, JobStep

\* The daemon has never run: nothing has fired and no loop sleeps.
LEMMA InitIInv == Init => IInv
  <1> SUFFICES ASSUME Init PROVE IInv
    OBVIOUS
  <1>1. TypeOK
    <2>1. TaskTypeOK
      BY TaskInitIInv DEF Init, TaskIInv
    <2>2. file \in [Jobs -> Defs \cup {NoDef}]
      BY AutomationAssumption DEF Init, Jobs
    <2>3. edits \in 0 .. MaxEdits /\ now \in 0 .. MaxTime
      BY AutomationAssumption DEF Init
    <2>4. shots \in [Jobs -> [0 .. MaxEdits -> Nat]] /\ torn \in [Jobs -> Nat]
      BY DEF Init
    <2>5. /\ loop \in [Jobs -> {"absent", "asleep", "done"}]
          /\ held \in [Jobs -> Defs \cup {NoDef}]
          /\ \A j \in Jobs : loop[j] # "asleep"
      BY DEF Init
    <2> QED
      BY <2>1, <2>2, <2>3, <2>4, <2>5 DEF Init, TypeOK
  <1>2. FiringAwake /\ SchedNeedsUp /\ LoopsFollowFile /\ ConfigFollowed
    BY DEF Init, TaskInit, FiringAwake, SchedNeedsUp, LoopsFollowFile, ConfigFollowed
  <1>3. ConfigWritten
    BY AutomationAssumption DEF Init, ConfigWritten, Jobs
  <1>4. RevsArePast /\ ShotsAhead /\ ShotOnce
    <2>0. edits = 0
      BY DEF Init
    <2>1. \A j \in ToolJobs : /\ loop[j] = "absent" /\ torn[j] = 0
                              /\ \A r \in 0 .. MaxEdits : shots[j][r] = 0
      BY DEF Init, Jobs
    <2>2. \A j \in ToolJobs : file[j] # NoDef => file[j].rev = 0
      <3>1. \A j \in ToolJobs : file[j] \in LeftBehind
        BY DEF Init, Jobs
      <3>2. \A def \in LeftBehind : def # NoDef => def.rev = 0
        BY AutomationAssumption
      <3> QED
        BY <3>1, <3>2
    <2>3. \A j \in ToolJobs : Enabled(file[j]) => file[j].rev \in 0 .. MaxEdits
      BY <2>2, AutomationAssumption DEF Enabled
    <2>4. RevsArePast
      BY <2>1, <2>2, <2>0 DEF RevsArePast
    <2>5. ShotsAhead
      BY <2>1, <2>3 DEF ShotsAhead
    <2>6. ShotOnce
      BY <2>1 DEF ShotOnce
    <2> QED
      BY <2>4, <2>5, <2>6
  <1> QED
    BY <1>1, <1>2, <1>3, <1>4 DEF IInv

\* The inductive invariant holds in every reachable state.
THEOREM JobsInvariant == Spec => []IInv
  <1>1. Init => IInv
    BY InitIInv
  <1>2. IInv /\ [Next]_vars => IInv'
    BY TypeStep, FiringStep, LoopsStep, ConfigStep, RevsStep, ShotsStep DEF IInv
  <1> QED
    BY <1>1, <1>2, PTL DEF Spec

\* Definitions, loops and histories keep their types; a loop that sleeps has a
\* definition.
THEOREM TypeCorrect == Spec => []TypeOK
  <1>1. IInv => TypeOK
    BY DEF IInv
  <1> QED
    BY <1>1, JobsInvariant, PTL

\* After a start or a reload exactly the enabled jobs sleep, on what is on disk.
THEOREM LoopsCorrect == Spec => []LoopsFollowFile
  <1>1. IInv => LoopsFollowFile
    BY DEF IInv
  <1> QED
    BY <1>1, JobsInvariant, PTL

\* A config.yaml that declares a job at all is in force once it has been read.
THEOREM ConfigCorrect == Spec => []ConfigFollowed
  <1>1. IInv => ConfigFollowed
    BY DEF IInv
  <1> QED
    BY <1>1, JobsInvariant, PTL

\* A one shot of the agent pushes one task, and one more for every death between
\* the push and the update.
THEOREM ShotCorrect == Spec => []ShotOnce
  <1>1. IInv => ShotOnce
    BY DEF IInv
  <1> QED
    BY <1>1, JobsInvariant, PTL

\* Whatever is done twice, a death in the middle explains: a push of a one shot by the
\* scheduler, a turn of a task by the consumer.
THEOREM OncePerDeathCorrect == Spec => []OncePerDeath
  <1>1. ShotOnce /\ RunsOncePerLife => OncePerDeath
    BY DEF OncePerDeath
  <1> QED
    BY <1>1, ShotCorrect, RunsInSystem, PTL

\* What the agent has written about a job stands: a firing that ends writes what the loop
\* holds, which is what is on disk (LoopsFollowFile) as soon as a reload has compared
\* them, and the synchronisation leaves the agent's jobs alone.
THEOREM EditsStandCorrect == Spec => EditsStand
  <1>1. ASSUME IInv, [Next]_vars
        PROVE  [\A j \in ToolJobs : file'[j] # file[j] /\ edits' = edits =>
                   /\ file[j] # NoDef
                   /\ j \notin dirty => file'[j] = Disabled(file[j])]_vars
    <2>0. /\ TypeOK /\ FiringAwake /\ LoopsFollowFile
          /\ edits \in Nat
      BY <1>1, AutomationAssumption DEF IInv, TypeOK
    <2> SUFFICES ASSUME NEW k \in ToolJobs, file'[k] # file[k], edits' = edits
                 PROVE  file[k] # NoDef /\ (k \notin dirty => file'[k] = Disabled(file[k]))
      OBVIOUS
    <2>1. Synced[k] = file[k]
      <3>1. k \in Jobs /\ k \notin config /\ k \notin ConfigJobs
        BY <2>0, AutomationAssumption DEF TypeOK, Jobs
      <3> QED
        BY <3>1 DEF Synced
    <2>2. ~\E j \in ToolJobs, shot \in BOOLEAN, at \in 0 .. MaxTime, enabled \in BOOLEAN :
              Create(j, shot, at, enabled)
      BY <2>0 DEF Create
    <2>3. ~\E j \in ToolJobs : Delete(j)
      BY <2>0 DEF Delete
    <2>4. ~(BootDaemon \/ Reload)
      BY <2>1 DEF BootDaemon, Reload
    <2>5. ~(StartScheduler \/ DaemonDown \/ Tick \/ Quiet \/ \E j \in ConfigJobs : EditConfig(j))
      BY DEF StartScheduler, DaemonDown, Tick, Quiet, jobVars, EditConfig
    <2>6. ~\E j \in Jobs : Fire(j)
      BY DEF Fire
    <2>7. ASSUME NEW j \in Jobs, FireEnds(j)
          PROVE  file[k] # NoDef /\ (k \notin dirty => file'[k] = Disabled(file[k]))
      <3>1. file' = Updated(j) /\ firing = j
        BY <2>7 DEF FireEnds
      <3>2. j = k /\ file[k] # NoDef /\ file'[k] = Disabled(held[k])
        BY <2>0, <3>1 DEF Updated, TypeOK
      <3>3. sched /\ loop[k] = "asleep"
        BY <2>0, <3>1, <3>2, AutomationAssumption DEF FiringAwake
      <3>4. k \notin dirty => held[k] = file[k]
        BY <2>0, <3>2, <3>3 DEF LoopsFollowFile
      <3> QED
        BY <3>2, <3>4
    <2> QED
      BY <1>1, <2>2, <2>3, <2>4, <2>5, <2>6, <2>7, JobStep
  <1> QED
    BY <1>1, JobsInvariant, PTL DEF Spec, EditsStand

=============================================================================
