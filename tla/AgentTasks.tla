----------------------------- MODULE AgentTasks -----------------------------
(***************************************************************************)
(* The persistent queue of agent tasks (automation/task_queue.py, one row  *)
(* of SQLite per task) and its only consumer (_consume_loop in             *)
(* macchiato_bot_cli/daemon.py), across crashes and restarts of the daemon.*)
(*                                                                         *)
(* The consumer marks the oldest pending task running, submits it to the   *)
(* kernel and awaits the answer. Rows survive a restart; whether the turn  *)
(* of a task that was running had finished does not.                       *)
(***************************************************************************)
EXTENDS Naturals

CONSTANTS
    MaxTasks,      \* bound on the rows ever inserted
    MaxDowns       \* bound on the times the daemon goes down

ASSUME TasksAssumption == MaxTasks \in Nat /\ MaxDowns \in Nat

Tasks == 1 .. MaxTasks      \* rows in the order of created_at

VARIABLES
    up,          \* the daemon process runs
    made,        \* how many rows have been inserted
    status,      \* the status column
    phase,       \* the consumer: it is down, idle, busy with `current`, or dead
    current,     \* the task popped last
    turn,        \* how far the kernel is with the consumer's request
    begun,       \* history: turns begun for a task
    cuts,        \* history: how often the daemon went down on a running task
    downs        \* how often it went down

taskVars == <<up, made, status, phase, current, turn, begun, cuts, downs>>

Finished == {"success", "failed"}
Statuses == {"absent", "pending", "running"} \cup Finished

\* What the kernel's answer is to the consumer: a result, an exception (or a
\* result without the operations the source must perform), a CancelledError.
Answers == {"ok", "bad", "cancelled"}
Turns == {"none", "binding", "asked", "live", "never"} \cup Answers

TaskTypeOK ==
    /\ up \in BOOLEAN
    /\ made \in 0 .. MaxTasks
    /\ status \in [Tasks -> Statuses]
    /\ phase \in {"down", "idle", "busy", "dead"}
    /\ current \in 0 .. MaxTasks
    /\ turn \in Turns
    /\ begun \in [Tasks -> Nat]
    /\ cuts \in [Tasks -> Nat]
    /\ downs \in 0 .. MaxDowns

TaskInit ==
    /\ up = FALSE
    /\ made = 0
    /\ status = [t \in Tasks |-> "absent"]
    /\ phase = "down"
    /\ current = 0
    /\ turn = "none"
    /\ begun = [t \in Tasks |-> 0]
    /\ cuts = [t \in Tasks |-> 0]
    /\ downs = 0

-----------------------------------------------------------------------------
(* The queue *)

\* AgentTaskQueue.push
Push ==
    /\ made < MaxTasks
    /\ made' = made + 1
    /\ status' = [status EXCEPT ![made + 1] = "pending"]
    /\ UNCHANGED <<up, phase, current, turn, begun, cuts, downs>>

\* recover_stale_running: what was running is pending again.
Recovered == [t \in Tasks |-> IF status[t] = "running" THEN "pending" ELSE status[t]]

\* _main up to the creation of the consumer task.
Boot ==
    /\ ~up
    /\ up' = TRUE
    /\ status' = Recovered
    /\ phase' = "idle"
    /\ UNCHANGED <<made, current, turn, begun, cuts, downs>>

\* pop_pending: the oldest pending row.
Pop(t) ==
    /\ phase = "idle"
    /\ status[t] = "pending"
    /\ \A u \in Tasks : status[u] = "pending" => t <= u
    /\ status' = [status EXCEPT ![t] = "running"]
    /\ phase' = "busy"
    /\ current' = t
    /\ turn' = "binding"
    /\ UNCHANGED <<up, made, begun, cuts, downs>>

\* The handler of _consume_loop is left with the row updated and the loop goes on.
CloseTask(result) ==
    /\ status' = [status EXCEPT ![current] = result]
    /\ phase' = "idle"
    /\ turn' = "none"
    /\ UNCHANGED <<up, made, current, begun, cuts, downs>>

\* The remote workspace a task requires cannot be bound.
BindFails ==
    /\ phase = "busy" /\ turn = "binding"
    /\ CloseTask("failed")

\* KernelScheduler.submit
Ask ==
    /\ phase = "busy" /\ turn = "binding"
    /\ turn' = "asked"
    /\ UNCHANGED <<up, made, status, phase, current, begun, cuts, downs>>

-----------------------------------------------------------------------------
(* The kernel, as far as the consumer sees it (module KernelScheduler)       *)

\* The turn of the request begins; it may do so while the daemon stops.
TurnBegins ==
    /\ turn = "asked"
    /\ turn' = "live"
    /\ begun' = [begun EXCEPT ![current] = @ + 1]
    /\ UNCHANGED <<up, made, status, phase, current, cuts, downs>>

TurnEnds(answer) ==
    /\ turn = "live"
    /\ turn' = answer
    /\ UNCHANGED <<up, made, status, phase, current, begun, cuts, downs>>

\* cancel_session_tasks meets a request that has not begun: the dispatch loop
\* answers the queued one, the one that waits for its lock is never answered.
TurnDropped(answer) ==
    /\ turn = "asked"
    /\ turn' = answer
    /\ UNCHANGED <<up, made, status, phase, current, begun, cuts, downs>>

-----------------------------------------------------------------------------
(* The rest of the consumer *)

\* The awaited result, or the exception that `except Exception` handles.
ResultOf(answer) == IF answer = "ok" THEN "success" ELSE "failed"

Finish ==
    /\ phase = "busy" /\ turn \in {"ok", "bad"}
    /\ CloseTask(ResultOf(turn))

\* A CancelledError passes `except Exception` and ends the consumer: that was its last
\* request. (Slip: so does every exception.)
DiesOfAny ==
    /\ phase = "busy" /\ turn \in {"bad", "cancelled"}
    /\ phase' = "dead"
    /\ UNCHANGED <<up, made, status, current, turn, begun, cuts, downs>>

Dies ==
    /\ phase = "busy" /\ turn = "cancelled"
    /\ phase' = "dead"
    /\ UNCHANGED <<up, made, status, current, turn, begun, cuts, downs>>

\* _main's finally cancels the consumer first; the kernel still runs.
StopConsumer ==
    /\ up /\ phase # "down"
    /\ downs < MaxDowns
    /\ phase' = "down"
    /\ UNCHANGED <<up, made, status, current, turn, begun, cuts, downs>>

\* The process ends, after a stop or without one.
Down ==
    /\ up
    /\ downs < MaxDowns
    /\ downs' = downs + 1
    /\ up' = FALSE
    /\ phase' = "down"
    /\ turn' = "none"
    /\ cuts' = [t \in Tasks |-> IF status[t] = "running" THEN cuts[t] + 1 ELSE cuts[t]]
    /\ UNCHANGED <<made, status, current, begun>>

ConsumerStep ==
    \/ \E t \in Tasks : Pop(t)
    \/ BindFails
    \/ Ask
    \/ Finish
    \/ Dies

KernelAnswers ==
    \/ TurnBegins
    \/ \E answer \in Answers : TurnEnds(answer)
    \/ \E answer \in {"cancelled", "never"} : TurnDropped(answer)

TaskNext ==
    \/ Push \/ Boot \/ ConsumerStep \/ KernelAnswers \/ StopConsumer \/ Down

TaskSpec == TaskInit /\ [][TaskNext]_taskVars

-----------------------------------------------------------------------------
(* What the queue promises *)

\* The row the consumer works on is the only running one, and an idle consumer
\* has left none behind: recover_stale_running at the start finds every task
\* whose outcome was lost.
OneRunning ==
    /\ \A t, u \in Tasks : status[t] = "running" /\ status[u] = "running" => t = u
    /\ phase = "idle" => \A t \in Tasks : status[t] # "running"
    /\ phase = "busy" => current \in Tasks /\ status[current] = "running"

\* A task is carried out again only when the daemon went down on it.
RunsOncePerLife == \A t \in Tasks : begun[t] <= cuts[t] + 1

\* No step, restarts included, reopens a finished task or changes its outcome.
FinishedIsFinal ==
    [][\A t \in Tasks : status[t] \in Finished => status'[t] = status[t]]_taskVars

=============================================================================
