-------------------------- MODULE KernelScheduler --------------------------
(***************************************************************************)
(* The kernel's request scheduler (src/system/kernel/scheduler.py) and the *)
(* bus that answers its callers (output_bus.py), at the granularity of the *)
(* asyncio event loop: one action is what a task does between two places   *)
(* where it can really be suspended.                                       *)
(*                                                                         *)
(* A request is submitted (its caller awaits a future) or injected (nobody *)
(* awaits it), waits in the priority queue, is spawned as a task, waits    *)
(* for the lock of its session, runs one agent turn and is cleaned up.     *)
(* Other code takes the same session lock through hold_session_lock: those *)
(* critical sections are the Gates.                                        *)
(***************************************************************************)
EXTENDS Integers, FiniteSets

CONSTANTS
    Sessions,      \* session ids
    Submits,       \* requests that arrive through submit
    Injects,       \* requests that arrive through inject_turn
    Wakes,         \* the injected requests that carry a _wake_id
    Lifecycle,     \* the injected requests that report a subagent's end
    Gates,         \* critical sections entered through hold_session_lock
    Session,       \* the session of each request and gate
    Priority,      \* the priority of each request (smaller runs first)
    Nobody,        \* the owner of a free session lock
    MaxCancels     \* bound on the number of cancel_session_tasks calls

Requests == Submits \cup Injects
Users == Requests \cup Gates

ASSUME SchedulerAssumption ==
    /\ IsFiniteSet(Users)
    /\ Submits \cap Injects = {}
    /\ Requests \cap Gates = {}
    /\ Wakes \subseteq Injects
    /\ Lifecycle \subseteq Injects
    /\ Session \in [Users -> Sessions]
    /\ Priority \in [Requests -> Int]
    /\ Nobody \notin Users
    /\ MaxCancels \in Nat

VARIABLES
    pc,          \* where each request or gate stands
    ahead,       \* users that joined the same line (queue, ready list, lock) earlier
    owner,       \* _session_locks: who holds the lock of a session
    inflight,    \* _inflight_sessions
    queued,      \* _queued_by_session
    cancelled,   \* _cancelled_sessions
    killed,      \* requests whose Task.cancel() has been called
    waitOn,      \* tasks the cancel_session_tasks calls in progress wait for
    registered,  \* keys of OutputBus._pending
    future,      \* state of the future a submit created
    delivery,    \* what the wake store knows of an injected wake
    kernel,      \* phase of start() / stop()
    cancels,     \* calls of cancel_session_tasks so far
    seniors      \* history: requests of the session accepted earlier and still open

vars == <<pc, ahead, owner, inflight, queued, cancelled, killed, waitOn,
          registered, future, delivery, kernel, cancels, seniors>>

busVars == <<registered, future>>
lockVars == <<owner, inflight>>

-----------------------------------------------------------------------------
(* Where users stand *)

Stations == {"new", "queued", "spawned", "lockwait", "running", "returned", "done"}
Unfinished == {"queued", "spawned", "lockwait", "running", "returned"}

\* asyncio: not t.done().
TaskPending == {"spawned", "lockwait", "running"}

At(s, stations) == {r \in Requests : Session[r] = s /\ pc[r] \in stations}
LineAt(station) == {u \in Users : pc[u] = station}
LockLine(s) == {u \in Users : Session[u] = s /\ pc[u] = "lockwait"}
FirstInLine(u) == ahead[u] = {}

\* Users in `gone` leave their line; a user in `joining` goes to the end of `line`.
Requeue(gone, joining, line) ==
    ahead' = [u \in Users |-> IF u \in joining
                              THEN line \ (gone \cup joining)
                              ELSE ahead[u] \ (gone \cup joining)]

\* PriorityQueue.get: the smallest (priority, enqueued_at).
NextOut(r) ==
    /\ pc[r] = "queued"
    /\ \A q \in LineAt("queued") \ {r} :
          \/ Priority[r] < Priority[q]
          \/ Priority[r] = Priority[q] /\ q \notin ahead[r]

\* _track_dequeue and the finally block count down, never below zero.
Less(n) == IF n > 1 THEN n - 1 ELSE 0

\* _maybe_clear_cancelled, given the counters it reads.
ClearMark(s, inflightNow, queuedNow) ==
    cancelled' = IF inflightNow = 0 /\ queuedNow = 0
                 THEN cancelled \ {s} ELSE cancelled

\* OutputBus.publish / publish_error: unlock the waiter, forget the request.
Answer(r, value) ==
    /\ registered' = registered \ {r}
    /\ future' = IF r \in registered /\ future[r] = "pending"
                 THEN [future EXCEPT ![r] = value] ELSE future

\* _finalize_agent_wake_delivery
SettleWake(r, value) ==
    delivery' = IF r \in Wakes THEN [delivery EXCEPT ![r] = value] ELSE delivery

\* Both ways into the queue: _track_enqueue and put.
Accepted(new) ==
    seniors' = [r \in Requests |->
                  IF r \in new THEN At(Session[r], Unfinished) \ new ELSE seniors[r]]

-----------------------------------------------------------------------------
Init ==
    /\ pc = [u \in Users |-> "new"]
    /\ ahead = [u \in Users |-> {}]
    /\ owner = [s \in Sessions |-> Nobody]
    /\ inflight = [s \in Sessions |-> 0]
    /\ queued = [s \in Sessions |-> 0]
    /\ cancelled = {}
    /\ killed = {}
    /\ waitOn = [s \in Sessions |-> {}]
    /\ registered = {}
    /\ future = [r \in Submits |-> "none"]
    /\ delivery = [w \in Wakes |-> "idle"]
    /\ kernel = "down"
    /\ cancels = 0
    /\ seniors = [r \in Requests |-> {}]

\* Common part of submit and inject_turn.
Enqueue(r) ==
    /\ pc[r] = "new"
    /\ pc' = [pc EXCEPT ![r] = "queued"]
    /\ queued' = [queued EXCEPT ![Session[r]] = @ + 1]
    /\ Requeue({}, {r}, LineAt("queued"))
    /\ Accepted({r})
    /\ UNCHANGED <<lockVars, cancelled, killed, waitOn, kernel, cancels>>

Submit(r) ==
    /\ r \in Submits
    /\ Enqueue(r)
    /\ registered' = registered \cup {r}
    /\ future' = [future EXCEPT ![r] = "pending"]
    /\ UNCHANGED delivery

InjectTurn(r) ==
    /\ r \in Injects
    /\ Enqueue(r)
    /\ SettleWake(r, "staged")
    /\ UNCHANGED busVars

-----------------------------------------------------------------------------
(* _dispatch_loop *)

Dequeue(r, station, line) ==
    /\ kernel = "up"
    /\ NextOut(r)
    /\ pc' = [pc EXCEPT ![r] = station]
    /\ queued' = [queued EXCEPT ![Session[r]] = Less(@)]
    /\ Requeue({r}, IF station = "done" THEN {} ELSE {r}, line)
    /\ UNCHANGED <<lockVars, killed, waitOn, delivery, kernel, cancels, seniors>>

DispatchSkip(r) ==
    /\ Session[r] \in cancelled
    /\ Dequeue(r, "done", {})
    /\ Answer(r, "error")
    /\ ClearMark(Session[r], inflight[Session[r]], Less(queued[Session[r]]))

DispatchSpawn(r) ==
    /\ Session[r] \notin cancelled
    /\ Dequeue(r, "spawned", LineAt("spawned"))
    /\ UNCHANGED <<busVars, cancelled>>

-----------------------------------------------------------------------------
(* _run_and_route, first step of the task; the loop starts tasks in order.    *)
(* Its first check, for a marked session, is not an action: SkipNeverNeeded.  *)

StartsNow(r) ==
    /\ pc[r] = "spawned"
    /\ FirstInLine(r)

\* Task.cancel() reached the task before its first step: the coroutine never runs.
KilledUnstarted(r) ==
    /\ StartsNow(r)
    /\ r \in killed
    /\ pc' = [pc EXCEPT ![r] = "returned"]
    /\ Requeue({r}, {}, {})
    /\ UNCHANGED <<lockVars, queued, cancelled, killed, waitOn, busVars, delivery,
                   kernel, cancels, seniors>>

\* The child a lifecycle message reports was reaped meanwhile: nothing to say.
StartSuppress(r) ==
    /\ StartsNow(r)
    /\ r \in Lifecycle \ killed
    /\ Session[r] \notin cancelled
    /\ pc' = [pc EXCEPT ![r] = "returned"]
    /\ Requeue({r}, {}, {})
    /\ SettleWake(r, "aborted")
    /\ UNCHANGED <<lockVars, queued, cancelled, killed, waitOn, busVars, kernel,
                   cancels, seniors>>

\* (Slip: a newcomer takes a free lock past those who wait for it.)
JoinLockBarging(u) ==
    LET s == Session[u] IN
    IF owner[s] = Nobody
    THEN /\ owner' = [owner EXCEPT ![s] = u]
         /\ pc' = [pc EXCEPT ![u] = "running"]
         /\ Requeue({u}, {}, {})
    ELSE /\ pc' = [pc EXCEPT ![u] = "lockwait"]
         /\ Requeue({u}, {u}, LockLine(s))
         /\ UNCHANGED owner

\* (Slip: only the line is looked at, not the lock.)
JoinLockUnowned(u) ==
    LET s == Session[u] IN
    IF LockLine(s) = {}
    THEN /\ owner' = [owner EXCEPT ![s] = u]
         /\ pc' = [pc EXCEPT ![u] = "running"]
         /\ Requeue({u}, {}, {})
    ELSE /\ pc' = [pc EXCEPT ![u] = "lockwait"]
         /\ Requeue({u}, {u}, LockLine(s))
         /\ UNCHANGED owner

\* Take the session lock at once when it is free and nobody waits, else line up.
JoinLock(u) ==
    LET s == Session[u] IN
    IF owner[s] = Nobody /\ LockLine(s) = {}
    THEN /\ owner' = [owner EXCEPT ![s] = u]
         /\ pc' = [pc EXCEPT ![u] = "running"]
         /\ Requeue({u}, {}, {})
    ELSE /\ pc' = [pc EXCEPT ![u] = "lockwait"]
         /\ Requeue({u}, {u}, LockLine(s))
         /\ UNCHANGED owner

StartTurn(r) ==
    /\ StartsNow(r)
    /\ r \notin killed
    /\ Session[r] \notin cancelled
    /\ inflight' = [inflight EXCEPT ![Session[r]] = @ + 1]
    /\ JoinLock(r)
    /\ UNCHANGED <<queued, cancelled, killed, waitOn, busVars, delivery, kernel,
                   cancels, seniors>>

\* asyncio.Lock hands over in order of arrival; a cancelled waiter unwinds instead.
TakeLock(u) ==
    /\ pc[u] = "lockwait"
    /\ u \notin killed
    /\ FirstInLine(u)
    /\ owner[Session[u]] = Nobody
    /\ owner' = [owner EXCEPT ![Session[u]] = u]
    /\ pc' = [pc EXCEPT ![u] = "running"]
    /\ Requeue({u}, {}, {})
    /\ UNCHANGED <<inflight, queued, cancelled, killed, waitOn, busVars, delivery,
                   kernel, cancels, seniors>>

-----------------------------------------------------------------------------
(* The end of _run_and_route: release the lock, then the finally block, which *)
(* flushes what was held back for this session when its last turn ends.       *)

Flushable(s) == {i \in Injects : pc[i] = "new" /\ Session[i] = s}

\* Bound: one flush injects at most one request.
Flush(r, new) ==
    LET s == Session[r] IN
    /\ new \in {{}} \cup {{i} : i \in Flushable(s)}
    /\ new # {} => inflight[s] = 1

EndOf(r, new, owners) ==
    LET s == Session[r] IN
    /\ Flush(r, new)
    /\ pc' = [u \in Users |-> IF u = r THEN "returned"
                              ELSE IF u \in new THEN "queued" ELSE pc[u]]
    /\ owner' = owners
    /\ inflight' = [inflight EXCEPT ![s] = Less(@)]
    /\ queued' = [queued EXCEPT ![s] = @ + Cardinality(new)]
    /\ Requeue({r}, new, LineAt("queued"))
    /\ ClearMark(s, Less(inflight[s]), queued[s] + Cardinality(new))
    /\ Accepted(new)
    /\ UNCHANGED <<killed, waitOn, kernel, cancels>>

\* (Slip: the finally block does not release the lock.)
EndTurnKeepsLock(r, new) == EndOf(r, new, owner)

EndTurn(r, new) ==
    EndOf(r, new, IF owner[Session[r]] = r
                  THEN [owner EXCEPT ![Session[r]] = Nobody] ELSE owner)

Deliver(r, verdict, new) ==
    delivery' = [w \in Wakes |-> IF w = r THEN verdict
                                 ELSE IF w \in new THEN "staged" ELSE delivery[w]]

\* The turn ran to its end (also when a cancellation came too late to be seen).
FinishTurn(r, new) ==
    /\ pc[r] = "running"
    /\ EndTurn(r, new)
    /\ Answer(r, "result")
    /\ Deliver(r, "confirmed", new)

\* (Slip: an exception is logged but not published.)
FailTurnSilent(r, new) ==
    /\ pc[r] = "running"
    /\ EndTurn(r, new)
    /\ Deliver(r, "aborted", new)
    /\ UNCHANGED busVars

\* except Exception: an error for a waiter, an error text for the listeners.
FailTurn(r, new) ==
    /\ pc[r] = "running"
    /\ EndTurn(r, new)
    /\ Answer(r, "error")
    /\ Deliver(r, IF r \in registered THEN "aborted" ELSE "confirmed", new)

\* except CancelledError inside the locked section.
AbortTurn(r, new) ==
    /\ pc[r] = "running"
    /\ r \in killed
    /\ EndTurn(r, new)
    /\ Answer(r, "error")
    /\ Deliver(r, "aborted", new)

\* (Slip: the wait for the lock is outside the try, so its count is never returned.)
KilledWaitingLeaks(r, new) ==
    /\ pc[r] = "lockwait"
    /\ r \in killed
    /\ new = {}
    /\ pc' = [pc EXCEPT ![r] = "returned"]
    /\ Requeue({r}, {}, {})
    /\ UNCHANGED <<lockVars, queued, cancelled, killed, waitOn, busVars, delivery,
                   kernel, cancels, seniors>>

\* Cancelled while waiting for the lock: only the finally block runs.
KilledWaiting(r, new) ==
    /\ pc[r] = "lockwait"
    /\ r \in killed
    /\ EndTurn(r, new)
    /\ Deliver(r, IF r \in Wakes THEN delivery[r] ELSE "idle", new)
    /\ UNCHANGED busVars

\* (Slip: the callback only drops the task.)
CleanupKeepsMark(r) ==
    /\ pc[r] = "returned"
    /\ pc' = [pc EXCEPT ![r] = "done"]
    /\ UNCHANGED <<ahead, lockVars, queued, cancelled, killed, waitOn, busVars, delivery,
                   kernel, cancels, seniors>>

\* _cleanup, the done callback of the task.
Cleanup(r) ==
    /\ pc[r] = "returned"
    /\ pc' = [pc EXCEPT ![r] = "done"]
    /\ ClearMark(Session[r], inflight[Session[r]], queued[Session[r]])
    /\ UNCHANGED <<ahead, lockVars, queued, killed, waitOn, busVars, delivery,
                   kernel, cancels, seniors>>

-----------------------------------------------------------------------------
(* hold_session_lock *)

GateEnter(g) ==
    /\ pc[g] = "new"
    /\ JoinLock(g)
    /\ UNCHANGED <<inflight, queued, cancelled, killed, waitOn, busVars, delivery,
                   kernel, cancels, seniors>>

GateLeave(g) ==
    /\ pc[g] = "running"
    /\ pc' = [pc EXCEPT ![g] = "done"]
    /\ owner' = [owner EXCEPT ![Session[g]] = Nobody]
    /\ UNCHANGED <<ahead, inflight, queued, cancelled, killed, waitOn, busVars,
                   delivery, kernel, cancels, seniors>>

-----------------------------------------------------------------------------
(* cancel_session_tasks: mark, cancel the active tasks, wait until they are done *)

CancelSession(s) ==
    /\ cancels < MaxCancels
    /\ cancels' = cancels + 1
    /\ cancelled' = cancelled \cup {s}
    /\ killed' = killed \cup At(s, TaskPending)
    /\ waitOn' = [waitOn EXCEPT ![s] = @ \cup At(s, TaskPending)]
    /\ UNCHANGED <<pc, ahead, lockVars, queued, busVars, delivery, kernel, seniors>>

\* asyncio.wait returns: its callback was added after _cleanup, so that one has run.
CancelReturns(s) ==
    /\ waitOn[s] # {}
    /\ \A r \in waitOn[s] : pc[r] = "done"
    /\ waitOn' = [waitOn EXCEPT ![s] = {}]
    /\ UNCHANGED <<pc, ahead, lockVars, queued, cancelled, killed, busVars, delivery,
                   kernel, cancels, seniors>>

\* ... or gives up on them after 300 seconds.
CancelTimesOut(s) ==
    /\ \E r \in waitOn[s] : pc[r] \in TaskPending
    /\ waitOn' = [waitOn EXCEPT ![s] = {}]
    /\ ClearMark(s, inflight[s], queued[s])
    /\ UNCHANGED <<pc, ahead, lockVars, queued, killed, busVars, delivery, kernel,
                   cancels, seniors>>

-----------------------------------------------------------------------------
(* wait_result with a timeout, or a caller that is itself cancelled *)

WaiterGivesUp(r) ==
    /\ future[r] = "pending"
    /\ future' = [future EXCEPT ![r] = "dropped"]
    /\ UNCHANGED <<pc, ahead, lockVars, queued, cancelled, killed, waitOn, registered,
                   delivery, kernel, cancels, seniors>>

-----------------------------------------------------------------------------
(* start and stop *)

KernelStep(from, to) ==
    /\ kernel = from
    /\ kernel' = to
    /\ UNCHANGED <<pc, ahead, lockVars, queued, cancelled, killed, waitOn, delivery,
                   cancels, seniors>>

Start == KernelStep("down", "up") /\ UNCHANGED busVars

\* The stop flag is set and the dispatch loop is cancelled.
StopBegins == KernelStep("up", "draining") /\ UNCHANGED busVars

\* gather(*_active_tasks) returns; evict_all follows.
StopDrained ==
    /\ \A r \in Requests : pc[r] \notin TaskPending
    /\ KernelStep("draining", "evicting")
    /\ UNCHANGED busVars

\* (Slip: stop forgets the waiters.)
StopEndsForgets == KernelStep("evicting", "down") /\ UNCHANGED busVars

\* finally: OutputBus.cancel_all
StopEnds ==
    /\ KernelStep("evicting", "down")
    /\ registered' = {}
    /\ future' = [r \in Submits |-> IF r \in registered /\ future[r] = "pending"
                                    THEN "dropped" ELSE future[r]]

-----------------------------------------------------------------------------
RequestStep(r) ==
    \/ DispatchSkip(r) \/ DispatchSpawn(r)
    \/ KilledUnstarted(r) \/ StartSuppress(r) \/ StartTurn(r)
    \/ TakeLock(r)
    \/ \E new \in {{}} \cup {{i} : i \in Injects} :
          \/ FinishTurn(r, new) \/ FailTurn(r, new)
          \/ AbortTurn(r, new) \/ KilledWaiting(r, new)
    \/ Cleanup(r)

GateStep(g) == TakeLock(g) \/ GateLeave(g)

Stop == StopBegins \/ StopDrained \/ StopEnds

Next ==
    \/ \E r \in Requests : Submit(r) \/ InjectTurn(r) \/ RequestStep(r)
    \/ \E g \in Gates : GateEnter(g) \/ GateStep(g)
    \/ \E s \in Sessions : CancelSession(s) \/ CancelReturns(s) \/ CancelTimesOut(s)
    \/ \E r \in Submits : WaiterGivesUp(r)
    \/ Start \/ Stop

Spec == Init /\ [][Next]_vars

-----------------------------------------------------------------------------
(* Fairness: the event loop runs what is ready, turns end (every await inside one *)
(* is bounded by a timeout of the model call or tool), gates are left.            *)

LoopFairness ==
    /\ \A r \in Requests : WF_vars(RequestStep(r))
    /\ \A g \in Gates : WF_vars(GateStep(g))
    /\ \A s \in Sessions : WF_vars(CancelReturns(s))
    /\ WF_vars(StopDrained \/ StopEnds)

FairSpec == Spec /\ LoopFairness

-----------------------------------------------------------------------------
(* Properties *)

\* Types of the state.
TypeOK ==
    /\ pc \in [Users -> Stations]
    /\ ahead \in [Users -> SUBSET Users]
    /\ owner \in [Sessions -> Users \cup {Nobody}]
    /\ inflight \in [Sessions -> Nat]
    /\ queued \in [Sessions -> Nat]
    /\ cancelled \subseteq Sessions
    /\ killed \subseteq Requests
    /\ waitOn \in [Sessions -> SUBSET Requests]
    /\ registered \subseteq Submits
    /\ future \in [Submits -> {"none", "pending", "result", "error", "dropped"}]
    /\ delivery \in [Wakes -> {"idle", "staged", "confirmed", "aborted"}]
    /\ kernel \in {"down", "up", "draining", "evicting"}
    /\ cancels \in Nat
    /\ seniors \in [Requests -> SUBSET Requests]

\* One turn or gate per session at a time: whoever runs holds the session lock
\* (the promise of _get_session_lock: one request drives an AgentCore).
SessionSerial ==
    \A u \in Users : pc[u] = "running" => owner[Session[u]] = u

\* The counters other code decides by (TTL eviction, mark clearing, flushes) count
\* exactly the dispatched unfinished turns and the queued requests of a session.
CountersExact ==
    \A s \in Sessions :
        /\ inflight[s] = Cardinality(At(s, {"lockwait", "running"}))
        /\ queued[s] = Cardinality(At(s, {"queued"}))

\* A task that has not started yet in a cancelled session was itself cancelled, so
\* the check for a marked session at the top of _run_and_route can never be taken.
SkipNeverNeeded ==
    \A r \in Requests : pc[r] = "spawned" /\ Session[r] \in cancelled => r \in killed

\* A turn that held the lock never leaves its caller or its wake unanswered,
\* whichever way it ends.
TurnAnswers ==
    [][\A r \in Requests : pc[r] = "running" /\ pc'[r] # "running" =>
          /\ r \notin registered'
          /\ r \in Submits => future'[r] # "pending"
          /\ r \in Wakes => delivery'[r] # "staged"]_vars

\* Inside a session a request never overtakes an older one of the same or higher
\* urgency: when its turn begins, that one has had its turn or was dropped.
NoOvertaking ==
    [][\A s \in Sessions :
         owner'[s] # owner[s] /\ owner'[s] \in Requests =>
            \A q \in seniors[owner'[s]] :
                Priority[q] <= Priority[owner'[s]] =>
                    pc[q] \notin {"queued", "spawned", "lockwait"}]_vars

\* The mark of a cancelled session never survives the session's last open request:
\* a session cannot refuse requests for ever because of one cancellation.
MarkDiesWithLast ==
    [][\A s \in Sessions :
         At(s, Unfinished) # {} /\ At(s, Unfinished)' = {} => s \notin cancelled']_vars

\* A caller that waits can always be reached through the bus, and once stop() is over
\* it can only be waiting for a request that no task ever took from the queue.
StopReleases ==
    \A r \in Submits : future[r] = "pending" =>
        /\ r \in registered
        /\ kernel = "down" => pc[r] = "queued"

\* No cancel call waits for ever, and while the scheduler stays up every request it
\* accepted reaches its end, cancelled or not.
NothingHangs ==
    []<>(/\ \A s \in Sessions : waitOn[s] = {}
         /\ kernel = "up" => \A s \in Sessions : At(s, Unfinished) = {})

\* The turns of every session, seen from inside them.
PhaseOf(station) ==
    CASE station = "running" -> "inside"
      [] station \in {"returned", "done"} -> "over"
      [] OTHER -> "outside"

TurnPhase == [u \in Users |-> PhaseOf(pc[u])]

Turns == INSTANCE SerialTurns WITH phase <- TurnPhase

\* The scheduler implements serial turns: per session one at a time, each at most
\* once, whatever is cancelled.
ImplementsSerialTurns == Turns!Spec

\* The claims of the code that cancellation breaks.

\* "submit callers get their result precisely through the Future": a request that
\* is over has answered the caller that waits for it.
AnsweredWhenOver ==
    \A r \in Submits : pc[r] = "done" => future[r] # "pending"

\* A wake whose injection was skipped or cancelled is released for another poll.
WakeReleasedWhenOver ==
    \A r \in Wakes : pc[r] = "done" => delivery[r] # "staged"

=============================================================================
