----------------------------- MODULE Automation -----------------------------
(***************************************************************************)
(* Scheduled jobs: the definitions on disk (repositories.py), their        *)
(* synchronisation with config.yaml (config_sync.py), the loop the         *)
(* AutomationScheduler runs for every enabled job, and the watcher that    *)
(* reloads the definitions (scheduler.py). A job that is due pushes a task *)
(* into the queue of AgentTasks.                                           *)
(*                                                                         *)
(* The scheduler's methods contain no await at which they are suspended    *)
(* except the sleeps of the loops and of the watcher, so a firing and a    *)
(* reload are atomic but for the death of the process.                     *)
(***************************************************************************)
EXTENDS AgentTasks

CONSTANTS
    ToolJobs,      \* jobs the agent creates with its tools
    ConfigJobs,    \* jobs config.yaml may declare
    OneShots,      \* the jobs of ConfigJobs that have a run_at
    MaxTime,       \* bound on the clock; a run_at is a time up to it
    MaxEdits,      \* bound on the edits of definitions and of config.yaml
    LeftBehind,    \* definitions of tool jobs that an earlier life left on disk
    NoDef,         \* no definition
    NoJob          \* no job

Jobs == ToolJobs \cup ConfigJobs

\* A JobDefinition: one shot at a time or periodic; rev tells edits apart.
Defs == [shot : BOOLEAN, at : 0 .. MaxTime, enabled : BOOLEAN, rev : 0 .. MaxEdits]

ASSUME AutomationAssumption ==
    /\ ToolJobs \cap ConfigJobs = {}
    /\ OneShots \subseteq ConfigJobs
    /\ MaxTime \in Nat /\ MaxEdits \in Nat
    /\ LeftBehind \subseteq {def \in Defs : def.rev = 0} \cup {NoDef}
    /\ NoDef \notin Defs
    /\ NoJob \notin Jobs

VARIABLES
    config,      \* the jobs config.yaml declares
    file,        \* job_definitions.json
    sched,       \* AutomationScheduler._running
    loop,        \* AutomationScheduler._tasks: absent, asleep or done
    held,        \* the definition a loop was started with, also its snapshot
    firing,      \* the one-shot job between the push and its update
    now,         \* the clock
    edits,       \* edits so far
    dirty,       \* history: jobs edited since the loops were last adjusted
    unsynced,    \* history: config.yaml changed since it was last read
    shots,       \* history: tasks pushed for each one-shot revision of a job
    torn         \* history: how often the process died in the middle of a firing

jobVars == <<config, file, sched, loop, held, firing, now, edits,
             dirty, unsynced, shots, torn>>
vars == <<taskVars, jobVars>>

\* While a firing is under way nothing else runs on the event loop.
Idle == firing = NoJob

\* _config_job_to_definition
ConfigDef(j) == [shot |-> j \in OneShots, at |-> 0, enabled |-> TRUE, rev |-> 0]

Disabled(def) == [def EXCEPT !.enabled = FALSE]
Enabled(def) == IF def = NoDef THEN FALSE ELSE def.enabled

\* _compute_sleep_seconds: a one shot sleeps until its run_at; the wall clock
\* times of periodic jobs are not distinguished.
Due(def) == def.shot => def.at <= now

TypeOK ==
    /\ TaskTypeOK
    /\ config \subseteq ConfigJobs
    /\ file \in [Jobs -> Defs \cup {NoDef}]
    /\ sched \in BOOLEAN
    /\ loop \in [Jobs -> {"absent", "asleep", "done"}]
    /\ held \in [Jobs -> Defs \cup {NoDef}]
    /\ \A j \in Jobs : loop[j] = "asleep" => held[j] \in Defs
    /\ firing \in Jobs \cup {NoJob}
    /\ now \in 0 .. MaxTime
    /\ edits \in 0 .. MaxEdits
    /\ dirty \subseteq Jobs
    /\ unsynced \in BOOLEAN
    /\ shots \in [Jobs -> [0 .. MaxEdits -> Nat]]
    /\ torn \in [Jobs -> Nat]

Init ==
    /\ TaskInit
    /\ config \in SUBSET ConfigJobs
    /\ \E old \in [ToolJobs -> LeftBehind] :
          file = [j \in Jobs |-> IF j \in ToolJobs THEN old[j] ELSE NoDef]
    /\ sched = FALSE
    /\ loop = [j \in Jobs |-> "absent"]
    /\ held = [j \in Jobs |-> NoDef]
    /\ firing = NoJob
    /\ now = 0
    /\ edits = 0
    /\ dirty = {}
    /\ unsynced = TRUE
    /\ shots = [j \in Jobs |-> [r \in 0 .. MaxEdits |-> 0]]
    /\ torn = [j \in Jobs |-> 0]

-----------------------------------------------------------------------------
(* Definitions *)

\* sync_job_definitions_from_config: what is declared is written as declared,
\* what is no longer declared is disabled; nothing happens if nothing is
\* declared.
Synced ==
    [j \in Jobs |->
        CASE config = {} -> file[j]
          [] j \in config -> ConfigDef(j)
          [] j \in ConfigJobs \ config /\ Enabled(file[j]) -> Disabled(file[j])
          [] OTHER -> file[j]]

\* create_scheduled_job; a job of the same name is replaced.
Create(j, shot, at, enabled) ==
    /\ Idle /\ up /\ edits < MaxEdits
    /\ edits' = edits + 1
    /\ file' = [file EXCEPT ![j] = [shot |-> shot, at |-> at, enabled |-> enabled,
                                    rev |-> edits + 1]]
    /\ dirty' = dirty \cup {j}
    /\ UNCHANGED <<taskVars, config, sched, loop, held, firing, now, unsynced, shots, torn>>

\* delete_scheduled_job
Delete(j) ==
    /\ Idle /\ up /\ edits < MaxEdits
    /\ file[j] # NoDef
    /\ edits' = edits + 1
    /\ file' = [file EXCEPT ![j] = NoDef]
    /\ dirty' = dirty \cup {j}
    /\ UNCHANGED <<taskVars, config, sched, loop, held, firing, now, unsynced, shots, torn>>

\* The user adds a job to config.yaml or removes it.
EditConfig(j) ==
    /\ Idle /\ edits < MaxEdits
    /\ edits' = edits + 1
    /\ config' = IF j \in config THEN config \ {j} ELSE config \cup {j}
    /\ unsynced' = TRUE
    /\ UNCHANGED <<taskVars, file, sched, loop, held, firing, now, dirty, shots, torn>>

-----------------------------------------------------------------------------
(* Loops *)

\* _job_changed, over the fields a definition has here.
\* (Slip: a new run_at goes unnoticed.)
ChangedButTime(old, new) == old.shot # new.shot \/ old.enabled # new.enabled
Changed(old, new) == old # new

\* The enabled jobs get a loop, a changed job a new one, the others none.
Adjust(defs) ==
    LET on(j) == Enabled(defs[j])
        keeps(j) == loop[j] = "asleep" /\ ~Changed(held[j], defs[j])
    IN /\ loop' = [j \in Jobs |-> IF on(j) THEN "asleep" ELSE "absent"]
       /\ held' = [j \in Jobs |-> IF ~on(j) THEN NoDef
                                  ELSE IF keeps(j) THEN held[j] ELSE defs[j]]
       /\ dirty' = {}

\* _main: recover the queue, read config.yaml, start the consumer.
BootDaemon ==
    /\ Idle /\ Boot
    /\ file' = Synced
    /\ unsynced' = FALSE
    /\ UNCHANGED <<config, sched, loop, held, firing, now, edits, dirty, shots, torn>>

\* AutomationScheduler.start
StartScheduler ==
    /\ Idle /\ up /\ phase # "down" /\ ~sched
    /\ sched' = TRUE
    /\ Adjust(file)
    /\ UNCHANGED <<taskVars, config, file, firing, now, edits, unsynced, shots, torn>>

\* One round of _watch_job_definitions.
Reload ==
    /\ Idle /\ sched
    /\ file' = Synced
    /\ unsynced' = FALSE
    /\ Adjust(Synced)
    /\ UNCHANGED <<taskVars, config, sched, firing, now, edits, shots, torn>>

\* _run_loop wakes up and run_job_once pushes the task.
Fire(j) ==
    /\ Idle /\ sched
    /\ loop[j] = "asleep"
    /\ Due(held[j])
    /\ Push
    /\ shots' = IF held[j].shot THEN [shots EXCEPT ![j][held[j].rev] = @ + 1] ELSE shots
    /\ firing' = IF held[j].shot THEN j ELSE NoJob
    /\ UNCHANGED <<config, file, sched, loop, held, now, edits, dirty, unsynced, torn>>

\* The finally of run_job_once disables a one shot, by writing the definition
\* the loop holds; the loop ends. (Slips: it is not written; it is written even where
\* the definition was deleted.)
UpdateForgotten(j) == file
UpdateCreates(j) == [file EXCEPT ![j] = Disabled(held[j])]
Updated(j) == IF file[j] = NoDef THEN file
              ELSE [file EXCEPT ![j] = Disabled(held[j])]

FireEnds(j) ==
    /\ firing = j
    /\ firing' = NoJob
    /\ file' = Updated(j)
    /\ loop' = [loop EXCEPT ![j] = "done"]
    /\ UNCHANGED <<taskVars, config, sched, held, now, edits, dirty, unsynced, shots, torn>>

\* The process ends; loops live in memory only.
DaemonDown ==
    /\ Down
    /\ sched' = FALSE
    /\ loop' = [j \in Jobs |-> "absent"]
    /\ held' = [j \in Jobs |-> NoDef]
    /\ firing' = NoJob
    /\ torn' = [j \in Jobs |-> IF j = firing THEN torn[j] + 1 ELSE torn[j]]
    /\ UNCHANGED <<config, file, now, edits, dirty, unsynced, shots>>

Tick ==
    /\ Idle /\ now < MaxTime
    /\ now' = now + 1
    /\ UNCHANGED <<taskVars, config, file, sched, loop, held, firing, edits,
                   dirty, unsynced, shots, torn>>

-----------------------------------------------------------------------------
\* A step of the consumer or the kernel.
Beside(A) == Idle /\ A /\ UNCHANGED jobVars

Next ==
    \/ \E j \in ToolJobs, shot \in BOOLEAN, at \in 0 .. MaxTime, enabled \in BOOLEAN :
          Create(j, shot, at, enabled)
    \/ \E j \in ToolJobs : Delete(j)
    \/ \E j \in ConfigJobs : EditConfig(j)
    \/ BootDaemon
    \/ StartScheduler
    \/ Reload
    \/ \E j \in Jobs : Fire(j)
    \/ \E j \in Jobs : FireEnds(j)
    \/ \E t \in Tasks : Beside(Pop(t))
    \/ Beside(BindFails)
    \/ Beside(Ask)
    \/ Beside(Finish)
    \/ Beside(Dies)
    \/ Beside(TurnBegins)
    \/ \E answer \in Answers : Beside(TurnEnds(answer))
    \/ \E answer \in {"cancelled", "never"} : Beside(TurnDropped(answer))
    \/ Beside(StopConsumer)
    \/ DaemonDown
    \/ Tick

Spec == Init /\ [][Next]_vars

\* The event loop runs what is ready; the service manager starts the daemon
\* again; a turn ends, since its tool iterations and awaits are bounded; a stop
\* that has begun ends the process.
Fairness ==
    /\ WF_vars(BootDaemon)
    /\ WF_vars(StartScheduler)
    /\ WF_vars(Reload)
    /\ \A j \in Jobs : WF_vars(Fire(j)) /\ WF_vars(FireEnds(j))
    /\ WF_vars(Beside(ConsumerStep))
    /\ WF_vars(Beside(KernelAnswers))
    /\ WF_vars(Tick)
    /\ WF_vars(phase = "down" /\ DaemonDown)

FairSpec == Spec /\ Fairness

-----------------------------------------------------------------------------
(* Properties *)

\* Whatever was edited before the last reload is in force: exactly the enabled
\* jobs sleep, each on the definition that is on disk. A loop that works on an
\* older definition can fire only until the next reload.
LoopsFollowFile ==
    sched =>
        \A j \in Jobs \ dirty :
            /\ loop[j] = "asleep" <=> Enabled(file[j])
            /\ loop[j] = "asleep" => held[j] = file[j]

\* Once config.yaml has been read, its jobs are on disk as declared (or have
\* fired) and the others are disabled; but a config.yaml without any job is
\* not looked at.
ConfigFollowed ==
    up /\ ~unsynced /\ config # {} =>
        \A j \in ConfigJobs :
            IF j \in config THEN file[j] \in {ConfigDef(j), Disabled(ConfigDef(j))}
                            ELSE ~Enabled(file[j])

\* A one shot the agent created pushes one task, and another one only when the
\* process died between the push and the update that disables the job.
ShotOnce == \A j \in ToolJobs : \A r \in 0 .. MaxEdits : shots[j][r] <= 1 + torn[j]

\* config.py promises the same of a run_at in config.yaml: "triggered once, then
\* disabled". The synchronisation enables it again.
OneShotStops == \A j \in Jobs : \A r \in 0 .. MaxEdits : shots[j][r] <= 1 + torn[j]

\* Nothing is done twice unless the process died in the middle of it: a one shot of the
\* agent's is not pushed twice, nor the turn of a task run twice.
OncePerDeath == ShotOnce /\ RunsOncePerLife

\* What the agent has written about a job is not written over with what a loop, a reload
\* or a start still has of it: once a reload has seen the definition, only its own firing
\* changes it, by disabling it, and one that was deleted never comes back. (Before the
\* reload the update of an older one shot of that name does overwrite it.)
EditsStand ==
    [][\A j \in ToolJobs : file'[j] # file[j] /\ edits' = edits =>
          /\ file[j] # NoDef
          /\ j \notin dirty => file'[j] = Disabled(file[j])]_vars

\* A task that was pushed is finished, unless its request or an earlier one is never
\* answered or is cancelled, which ends the consumer; every other error does not.
TasksFinish ==
    \A t \in Tasks :
        status[t] = "pending" ~> status[t] \in Finished \/ turn \in {"cancelled", "never"}

\* A one shot that is on disk fires, unless it is edited or overwritten first
\* (by the update of an older one shot of that name), or the bound on tasks is met.
ShotsFire ==
    \A j \in ToolJobs : \A r \in 0 .. MaxEdits :
        Enabled(file[j]) /\ file[j].shot /\ file[j].rev = r
            ~> \/ shots[j][r] > 0
               \/ file[j] = NoDef
               \/ file[j] # NoDef /\ file[j].rev # r
               \/ made = MaxTasks

\* What was asked for is carried out: a job's task is pushed and a pushed task finished,
\* across deaths of the daemon.
WorkGetsDone == ShotsFire /\ TasksFinish

=============================================================================
