------------------------------- MODULE Notices -------------------------------
(***************************************************************************)
(* The two kinds of turns that a session gives itself: wakes it scheduled  *)
(* (agent_core/tools/agent_wake.py) and notices that one of its background *)
(* jobs has ended (agent_core/tools/bash_job_notify.py), with the job      *)
(* manager whose jobs these are and the watcher of the daemon that polls   *)
(* both.  A notice that falls due while the session is busy is held back   *)
(* and flushed by the scheduler when the session's last turn ends.         *)
(*                                                                         *)
(* One session, and of the scheduler only what decides the fate of its     *)
(* requests (KernelScheduler has the rest): the queue, the tasks created   *)
(* but not yet started, the line for the session lock, whose head runs its *)
(* turn, and the mark of a cancelled session.                              *)
(***************************************************************************)
EXTENDS Integers, FiniteSets, SequencesExt

CONSTANTS
    Names,       \* wake ids that the agent chooses itself, and may use again
    GoalChecks,  \* generated ids of the goal-check wakes
    Jobs,        \* background jobs of the session
    Remote,      \* those that run on the remote worker
    MaxRegs,     \* bound on the wakes registered
    MaxUsers,    \* bound on the requests of users
    MaxCancels,  \* bound on the cancellations of the session
    Nothing

WakeIds == Names \cup GoalChecks
Regs == 1..MaxRegs

ASSUME NoticesAssumption ==
    /\ Remote \subseteq Jobs /\ IsFiniteSet(Jobs) /\ IsFiniteSet(WakeIds)
    /\ Names \cap GoalChecks = {}
    /\ MaxRegs \in Nat /\ MaxUsers \in Nat /\ MaxCancels \in Nat
    /\ Nothing \notin WakeIds \cup Jobs \cup [reg : Regs, due : BOOLEAN, staged : BOOLEAN]

VARIABLES
    wakes,     \* _WAKES: Nothing, or registration number, due and staged
    heldWakes, \* agent_wake._PENDING_BY_SESSION
    status,    \* JobHandle.status; "ended" is finished, failed or timed_out,
               \* "none" is before the start, "lost" when the worker forgot the job
    proc,      \* the process: "alive" or "ended"
    rec,       \* _TrackedJob: "tracked", "staged" or "notified"
    tracked,   \* keys of _TRACKED_BY_SESSION
    heldNotes, \* bash_job_notify._PENDING_BY_SESSION
    goalOpen,  \* should_auto_continue() of the session's goal store
    queue,     \* requests of the session in the order they will be taken
    spawned,   \* tasks created and not started
    line,      \* tasks in _run_and_route; the first holds the session lock
    marked,    \* the session is in _cancelled_sessions
    stopping,  \* the job that a job_stop of the running turn is awaiting
    watcher,   \* jobs the poll has still to visit, or Nothing between two polls
    found,     \* notes the poll has collected
    log,       \* history: id and fate of every registration
    told,      \* history: what became of the notice of each job
    users, cancels

wakeVars == <<wakes, heldWakes, log>>
jobVars == <<status, proc>>
noteVars == <<rec, tracked, heldNotes>>
kernelVars == <<queue, spawned, line, marked>>
vars == <<wakeVars, jobVars, noteVars, kernelVars, goalOpen, stopping, watcher,
          found, told, users, cancels>>

-----------------------------------------------------------------------------
(* Requests and the tasks that run them *)

User == [kind |-> "user"]
WakeRequest(w, r) == [kind |-> "wake", wake |-> w, reg |-> r]
JobRequest(j) == [kind |-> "job", job |-> j]

WakeRequests(ids) == [kind : {"wake"}, wake : ids, reg : Regs]
JobRequests(jobs) == [kind : {"job"}, job : jobs]
Requests == {User} \cup WakeRequests(WakeIds) \cup JobRequests(Jobs)
Tasks == [req : Requests, killed : BOOLEAN]
AsTask(request) == [req |-> request, killed |-> FALSE]

\* What of a sequence lies in a set, in its order.
Only(s, S) ==
    LET kept[n \in 0..Len(s)] ==
            IF n = 0 THEN <<>> ELSE IF s[n] \in S THEN Append(kept[n - 1], s[n]) ELSE kept[n - 1]
    IN kept[Len(s)]

\* PriorityQueue: injected requests (-1) go before those of users (0).
Inject(q, requests) == Only(q, Requests \ {User}) \o requests \o Only(q, {User})

\* session_inflight_request_count
Busy == line # <<>>
\* The turn that holds the lock, unless it is being cancelled.
TurnRuns == Busy /\ ~line[1].killed

\* How often a request is in all the places where it can be.
Count(s, x) == Cardinality({i \in 1..Len(s) : s[i] = x})
Asked(tasks) == [i \in 1..Len(tasks) |-> tasks[i].req]
Copies(request) == Count(heldWakes, request) + Count(heldNotes, request) + Count(queue, request)
                   + Count(Asked(spawned), request) + Count(Asked(line), request)

-----------------------------------------------------------------------------
(* The wake registry *)

Registered(w) == wakes[w] # Nothing

\* Those of a registry that gone names meet their fate.
Fated(registry, entries, gone, fate) ==
    [r \in 1..Len(entries) |->
       IF \E w \in gone : registry[w] # Nothing /\ registry[w].reg = r
       THEN [entries[r] EXCEPT !.fate = fate] ELSE entries[r]]

\* cancel_wake, also once per wake by cancel_pending_wakes.
CancelAll(gone) ==
    /\ wakes' = [w \in WakeIds |-> IF w \in gone THEN Nothing ELSE wakes[w]]
    /\ heldWakes' = Only(heldWakes, WakeRequests(WakeIds \ gone))
    /\ log' = Fated(wakes, log, gone, "cancelled")

\* register_wake
Register(w) == [reg |-> Len(log) + 1, due |-> FALSE, staged |-> FALSE]
Logged(w) == [id |-> w, fate |-> "open"]

\* session_has_deferred_agent_wake
Deferred == \E w \in Names : Registered(w) /\ ~wakes[w].due

-----------------------------------------------------------------------------
Init ==
    /\ wakes = [w \in WakeIds |-> Nothing]
    /\ heldWakes = <<>>
    /\ status = [j \in Jobs |-> "none"]
    /\ proc = [j \in Jobs |-> "none"]
    /\ rec = [j \in Jobs |-> "tracked"]
    /\ tracked = {}
    /\ heldNotes = <<>>
    /\ goalOpen \in BOOLEAN
    /\ queue = <<>> /\ spawned = <<>> /\ line = <<>>
    /\ marked = FALSE
    /\ stopping = Nothing
    /\ watcher = Nothing
    /\ found = <<>>
    /\ log = <<>>
    /\ told = [j \in Jobs |-> "open"]
    /\ users = 0 /\ cancels = 0

-----------------------------------------------------------------------------
(* What the agent does in its turn *)

\* ScheduleWakeTool: the goal-check wakes give way to a wake of the agent's own.
ScheduleWake(w) ==
    /\ TurnRuns
    /\ w \in Names /\ ~Registered(w)
    /\ Len(log) < MaxRegs
    /\ wakes' = [v \in WakeIds |-> IF v = w THEN Register(w)
                                   ELSE IF v \in GoalChecks THEN Nothing ELSE wakes[v]]
    /\ heldWakes' = Only(heldWakes, WakeRequests(Names))
    /\ log' = Append(Fated(wakes, log, GoalChecks, "cancelled"), Logged(w))
    /\ UNCHANGED <<jobVars, noteVars, kernelVars, goalOpen, stopping, watcher, found,
                   told, users, cancels>>

\* _maybe_schedule_goal_continuation_wake, when a turn ends with a goal still open.
GoalCheckWake(w) ==
    /\ Busy
    /\ w \in GoalChecks /\ \A r \in 1..Len(log) : log[r].id # w
    /\ goalOpen /\ ~Deferred
    /\ Len(log) < MaxRegs
    /\ wakes' = [wakes EXCEPT ![w] = Register(w)]
    /\ log' = Append(log, Logged(w))
    /\ UNCHANGED <<heldWakes, jobVars, noteVars, kernelVars, goalOpen, stopping,
                   watcher, found, told, users, cancels>>

\* CancelScheduledWakeTool; a request already queued is not recalled.
CancelWake(w) ==
    /\ TurnRuns
    /\ Registered(w)
    /\ CancelAll({w})
    /\ UNCHANGED <<jobVars, noteVars, kernelVars, goalOpen, stopping, watcher, found,
                   told, users, cancels>>

\* JobManager.start_job, then register_local_job or register_remote_job.
StartJob(j) ==
    /\ TurnRuns
    /\ status[j] = "none"
    /\ status' = [status EXCEPT ![j] = "running"]
    /\ proc' = [proc EXCEPT ![j] = "alive"]
    /\ tracked' = tracked \cup {j}
    /\ UNCHANGED <<wakeVars, rec, heldNotes, kernelVars, goalOpen, stopping, watcher,
                   found, told, users, cancels>>

\* suppress_job_notification: the record, and what was held back; not what is queued.
Suppress(j) ==
    LET held == Only(heldNotes, JobRequests(Jobs \ {j})) IN
    /\ tracked' = tracked \ {j}
    /\ heldNotes' = held
    /\ told' = [told EXCEPT ![j] = IF @ = "open" /\ (Copies(JobRequest(j)) = 0 \/ held # heldNotes)
                                   THEN "stopped" ELSE @]

\* job_stop of a job whose process has ended: nothing to await.
StopEnded(j) ==
    /\ TurnRuns
    /\ stopping = Nothing
    /\ proc[j] = "ended" /\ status[j] # "lost"
    /\ Suppress(j)
    /\ UNCHANGED <<wakeVars, jobVars, rec, kernelVars, goalOpen, stopping, watcher,
                   found, users, cancels>>

\* stop_job signals the process and awaits its end ...
StopSignals(j) ==
    /\ TurnRuns
    /\ stopping = Nothing
    /\ proc[j] = "alive" /\ status[j] # "lost"
    /\ proc' \in {proc, [proc EXCEPT ![j] = "ended"]}
    /\ stopping' = j
    /\ UNCHANGED <<wakeVars, status, noteVars, kernelVars, goalOpen, watcher, found,
                   told, users, cancels>>

\* ... or gives up on it after the grace period; either way the job is cancelled.
StopReturns(j) ==
    /\ TurnRuns
    /\ stopping = j
    /\ status' = [status EXCEPT ![j] = "cancelled"]
    /\ stopping' = Nothing
    /\ Suppress(j)
    /\ UNCHANGED <<wakeVars, proc, rec, kernelVars, goalOpen, watcher, found, users,
                   cancels>>

-----------------------------------------------------------------------------
(* What happens by itself *)

\* A goal is created, completed, blocked or evicted with its core.
GoalFlips ==
    /\ goalOpen' = ~goalOpen
    /\ UNCHANGED <<wakeVars, jobVars, noteVars, kernelVars, stopping, watcher, found,
                   told, users, cancels>>

FallsDue(w) ==
    /\ Registered(w) /\ ~wakes[w].due
    /\ wakes' = [wakes EXCEPT ![w].due = TRUE]
    /\ UNCHANGED <<heldWakes, log, jobVars, noteVars, kernelVars, goalOpen, stopping,
                   watcher, found, told, users, cancels>>

\* The process ends, by itself or because its time is up.
ProcessEnds(j) ==
    /\ proc[j] = "alive"
    /\ proc' = [proc EXCEPT ![j] = "ended"]
    /\ UNCHANGED <<wakeVars, status, noteVars, kernelVars, goalOpen, stopping, watcher,
                   found, told, users, cancels>>

\* _watch_job, unless a stop was quicker.
WatchJob(j) ==
    /\ proc[j] = "ended"
    /\ status[j] = "running"
    /\ status' = [status EXCEPT ![j] = "ended"]
    /\ UNCHANGED <<wakeVars, proc, noteVars, kernelVars, goalOpen, stopping, watcher,
                   found, told, users, cancels>>

\* A remote worker restarts and knows its jobs no longer.
WorkerForgets(j) ==
    /\ j \in Remote /\ status[j] \notin {"none", "lost"}
    /\ status' = [status EXCEPT ![j] = "lost"]
    /\ UNCHANGED <<wakeVars, proc, noteVars, kernelVars, goalOpen, stopping, watcher,
                   found, told, users, cancels>>

-----------------------------------------------------------------------------
(* Delivery.  State is threaded through the notes of one pass as a record.  *)

Now == [wakes |-> wakes, heldWakes |-> heldWakes, rec |-> rec, tracked |-> tracked,
        heldNotes |-> heldNotes, queue |-> queue, log |-> log]

Becomes(x) ==
    /\ wakes' = x.wakes /\ heldWakes' = x.heldWakes
    /\ rec' = x.rec /\ tracked' = x.tracked /\ heldNotes' = x.heldNotes
    /\ queue' = x.queue /\ log' = x.log

\* deliver_via_inject, for one job of a pass after the other: a busy session has the
\* notes held back, and the jobs marked.
Notes(jobs) == [i \in 1..Len(jobs) |-> JobRequest(jobs[i])]
Marked(x, jobs, mark) ==
    [j \in Jobs |-> IF j \in ToSet(jobs) \cap x.tracked THEN mark ELSE x.rec[j]]

DeliverNotes(busy, x, jobs) ==
    LET fresh == Only(jobs, {j \in Jobs : ~(j \in x.tracked /\ x.rec[j] = "staged")}) IN
    IF busy
    THEN [x EXCEPT !.heldNotes = @ \o Notes(fresh), !.rec = Marked(x, fresh, "staged")]
    ELSE [x EXCEPT !.queue = Inject(@, Notes(jobs)),
                   !.rec = Marked(x, jobs, "notified"), !.tracked = @ \ ToSet(jobs)]

\* _wake_still_actionable; a goal-check lapses with its goal.
Actionable(x, w) == x.wakes[w] # Nothing /\ (w \in GoalChecks => goalOpen)

\* Wakes that lapse leave the registry (_mark_fired), others are marked as delivered.
Settled(x, lapsed, sent) ==
    [x EXCEPT !.wakes = [w \in WakeIds |->
                           IF w \in lapsed THEN Nothing
                           ELSE IF w \in sent THEN [x.wakes[w] EXCEPT !.staged = TRUE]
                           ELSE x.wakes[w]],
              !.log = Fated(x.wakes, x.log, lapsed, "lapsed")]

\* deliver_wake_via_inject, for one wake after the other.
DeliverWakes(busy, x, ids) ==
    LET lapsed == {w \in ToSet(ids) : ~Actionable(x, w)}
        sent == Only(ids, {w \in ToSet(ids) \ lapsed : busy => ~x.wakes[w].staged})
        requests == [i \in 1..Len(sent) |-> WakeRequest(sent[i], x.wakes[sent[i]].reg)]
        y == Settled(x, lapsed, ToSet(sent))
    IN IF busy THEN [y EXCEPT !.heldWakes = @ \o requests]
       ELSE [y EXCEPT !.queue = Inject(@, requests)]

\* flush_pending_for_session, then flush_pending_wakes_for_session.
Flushed(x) ==
    LET jobs == [i \in 1..Len(x.heldNotes) |-> x.heldNotes[i].job]
        ids == [i \in 1..Len(x.heldWakes) |-> x.heldWakes[i].wake]
        y == DeliverNotes(FALSE, [x EXCEPT !.heldNotes = <<>>], jobs)
    IN DeliverWakes(FALSE, [y EXCEPT !.heldWakes = <<>>], ids)

-----------------------------------------------------------------------------
(* The watcher: _bash_job_notify_loop with poll_terminal_jobs.  The status of *)
(* a local job is read without suspending, that of a remote one is awaited.   *)

\* _query_job_status in _TERMINAL_STATUSES; JOB_NOT_FOUND counts as a failure.
Terminal(j) == status[j] \in {"ended", "cancelled", "lost"}

Ready(j) == rec[j] = "tracked" /\ Terminal(j)

\* Visits the jobs up to the next one that must be asked for remotely.
LocalsFirst(jobs) ==
    LET asked == {i \in 1..Len(jobs) : jobs[i] \in Remote /\ rec[jobs[i]] = "tracked"}
    IN IF asked = {} THEN jobs ELSE SubSeq(jobs, 1, (CHOOSE i \in asked : \A k \in asked : i <= k) - 1)

\* The end of a pass: deliver the notes, then the wakes that are due.
Deliver(notes) ==
    LET due == {w \in WakeIds : Registered(w) /\ wakes[w].due /\ ~wakes[w].staged} IN
    \E order \in SetToSeqs(due) :
       Becomes(DeliverWakes(Busy, DeliverNotes(Busy, Now, notes), order))

\* poll_terminal_jobs goes on with `jobs`, having collected `notes`.
Visit(jobs, notes) ==
    LET locals == LocalsFirst(jobs)
        rest == SubSeq(jobs, Len(locals) + 1, Len(jobs))
        seen == notes \o Only(locals, {j \in Jobs : Ready(j)})
    IN IF rest = <<>>
       THEN /\ Deliver(seen)
            /\ watcher' = Nothing
            /\ found' = <<>>
       ELSE /\ watcher' = rest
            /\ found' = seen
            /\ UNCHANGED <<wakeVars, noteVars, queue>>

Poll ==
    /\ watcher = Nothing
    /\ \E jobs \in SetToSeqs(tracked) : Visit(jobs, <<>>)
    /\ UNCHANGED <<jobVars, spawned, line, marked, goalOpen, stopping, told, users,
                   cancels>>

Returns(notes) ==
    /\ watcher # Nothing
    /\ Visit(Tail(watcher), notes)
    /\ UNCHANGED <<jobVars, spawned, line, marked, goalOpen, stopping, told, users,
                   cancels>>

WorkerAnswers ==
    LET j == Head(watcher) IN
    Returns(IF Terminal(j) THEN Append(found, j) ELSE found)

\* _query_job_status: an exception leaves the job to a later pass.
QueryFails == Returns(found)

-----------------------------------------------------------------------------
(* The scheduler *)

\* _maybe_clear_cancelled
MarkLeft(lineNow, queueNow) == marked /\ (lineNow # <<>> \/ queueNow # <<>>)

Submit ==
    /\ users < MaxUsers
    /\ users' = users + 1
    /\ queue' = Append(queue, User)
    /\ UNCHANGED <<wakeVars, jobVars, noteVars, spawned, line, marked, goalOpen,
                   stopping, watcher, found, told, cancels>>

\* A request leaves without its turn; only a wake that is aborted is retried.
Drops(request) ==
    /\ log' = IF request.kind = "wake" /\ log[request.reg].fate = "open"
              THEN [log EXCEPT ![request.reg].fate = "dropped"] ELSE log
    /\ told' = IF request.kind = "job" THEN [told EXCEPT ![request.job] = "dropped"]
               ELSE told

\* _dispatch_loop: a request of a cancelled session is skipped, others get a task.
DispatchSkip ==
    /\ queue # <<>> /\ marked
    /\ queue' = Tail(queue)
    /\ marked' = MarkLeft(line, Tail(queue))
    /\ Drops(Head(queue))
    /\ UNCHANGED <<wakes, heldWakes, jobVars, noteVars, spawned, line, goalOpen,
                   stopping, watcher, found, users, cancels>>

DispatchSpawn ==
    /\ queue # <<>> /\ ~marked
    /\ queue' = Tail(queue)
    /\ spawned' = Append(spawned, AsTask(Head(queue)))
    /\ UNCHANGED <<wakeVars, jobVars, noteVars, line, marked, goalOpen, stopping,
                   watcher, found, told, users, cancels>>

\* The task starts and joins the line for the lock, or was cancelled before it could.
StartTask ==
    /\ spawned # <<>>
    /\ spawned' = Tail(spawned)
    /\ IF Head(spawned).killed
       THEN /\ Drops(Head(spawned).req)
            /\ marked' = MarkLeft(line, queue)
            /\ UNCHANGED line
       ELSE /\ line' = Append(line, Head(spawned))
            /\ UNCHANGED <<marked, log, told>>
    /\ UNCHANGED <<wakes, heldWakes, jobVars, noteVars, queue, goalOpen, stopping,
                   watcher, found, users, cancels>>

\* The finally block of _run_and_route: the last one out flushes, then clears the mark.
Ends(lineNow, x) ==
    LET y == IF lineNow = <<>> THEN Flushed(x) ELSE x IN
    /\ Becomes(y)
    /\ line' = lineNow
    /\ marked' = MarkLeft(lineNow, y.queue)
    /\ UNCHANGED <<jobVars, spawned, goalOpen, watcher, found, users, cancels>>

\* confirm_wake_delivered takes the id out of the registry, whoever registered it.
Confirm(x, request) ==
    IF request.kind # "wake" THEN x
    ELSE [x EXCEPT !.wakes[request.wake] = Nothing,
                   !.log[request.reg].fate = IF @ = "open" THEN "heard" ELSE @]

\* (Slips: a wake whose turn is cancelled stays marked as delivered, or is taken for
\* delivered.)
AbortKeeps(x, request) == x
AbortConfirms(x, request) ==
    IF request.kind # "wake" THEN x ELSE [x EXCEPT !.wakes[request.wake] = Nothing]

\* abort_wake_delivery
Abort(x, request) ==
    IF request.kind # "wake" \/ x.wakes[request.wake] = Nothing THEN x
    ELSE [x EXCEPT !.wakes[request.wake].staged = FALSE]

\* The turn ends by itself, in a result or an error text; also after a late cancel.
FinishTurn ==
    /\ Busy /\ stopping = Nothing
    /\ Ends(Tail(line), Confirm(Now, line[1].req))
    /\ told' = IF line[1].req.kind = "job" THEN [told EXCEPT ![line[1].req.job] = "heard"]
               ELSE told
    /\ UNCHANGED stopping

\* The turn is cancelled, in the middle of a job_stop perhaps.
AbortTurn ==
    /\ Busy /\ line[1].killed
    /\ Ends(Tail(line), Abort(Now, line[1].req))
    /\ told' = IF line[1].req.kind = "job" THEN [told EXCEPT ![line[1].req.job] = "dropped"]
               ELSE told
    /\ stopping' = Nothing

\* A cancelled task that waits for the lock leaves the line without a word.
Unwind(i) ==
    /\ i \in 2..Len(line) /\ line[i].killed
    /\ line' = RemoveAt(line, i)
    /\ Drops(line[i].req)
    /\ UNCHANGED <<wakes, heldWakes, jobVars, noteVars, queue, spawned, marked, goalOpen,
                   stopping, watcher, found, users, cancels>>

\* cancel_session_tasks
CancelSession ==
    /\ cancels < MaxCancels
    /\ cancels' = cancels + 1
    /\ marked' = TRUE
    /\ spawned' = [i \in 1..Len(spawned) |-> [spawned[i] EXCEPT !.killed = TRUE]]
    /\ line' = [i \in 1..Len(line) |-> [line[i] EXCEPT !.killed = TRUE]]
    /\ UNCHANGED <<wakeVars, jobVars, noteVars, queue, goalOpen, stopping, watcher,
                   found, told, users>>

-----------------------------------------------------------------------------
Kernel == DispatchSkip \/ DispatchSpawn \/ StartTask \/ FinishTurn \/ AbortTurn
          \/ \E i \in 2..Len(line) : Unwind(i)

Next ==
    \/ \E w \in WakeIds : ScheduleWake(w) \/ GoalCheckWake(w) \/ CancelWake(w) \/ FallsDue(w)
    \/ \E j \in Jobs : \/ StartJob(j) \/ StopEnded(j) \/ StopSignals(j) \/ StopReturns(j)
                       \/ ProcessEnds(j) \/ WatchJob(j) \/ WorkerForgets(j)
    \/ GoalFlips
    \/ Poll \/ WorkerAnswers \/ QueryFails
    \/ Submit \/ CancelSession
    \/ Kernel

Spec == Init /\ [][Next]_vars

-----------------------------------------------------------------------------
(* Properties *)

\* Every variable keeps its type.
TypeOK ==
    /\ wakes \in [WakeIds -> {Nothing} \cup [reg : Regs, due : BOOLEAN, staged : BOOLEAN]]
    /\ heldWakes \in Seq(Requests) /\ heldNotes \in Seq(Requests) /\ queue \in Seq(Requests)
    /\ status \in [Jobs -> {"none", "running", "ended", "cancelled", "lost"}]
    /\ proc \in [Jobs -> {"none", "alive", "ended"}]
    /\ rec \in [Jobs -> {"tracked", "staged", "notified"}]
    /\ tracked \subseteq Jobs
    /\ goalOpen \in BOOLEAN /\ marked \in BOOLEAN
    /\ spawned \in Seq(Tasks) /\ line \in Seq(Tasks)
    /\ stopping \in Jobs \cup {Nothing}
    /\ watcher = Nothing \/ watcher \in Seq(Jobs)
    /\ found \in Seq(Jobs)
    /\ Len(log) <= MaxRegs
    /\ \A r \in 1..Len(log) :
          log[r] \in [id : WakeIds,
                     fate : {"open", "heard", "cancelled", "lapsed", "dropped"}]
    /\ told \in [Jobs -> {"open", "stopped", "dropped", "heard"}]
    /\ users \in 0..MaxUsers /\ cancels \in 0..MaxCancels

\* The id of a registration was used by another one.
Reused(r) == \E q \in 1..Len(log) : q # r /\ log[q].id = log[r].id

\* A wake or a job's end that is marked as taken care of has its one request on its way,
\* and one request only, unless a cancellation of the session dropped it; ids that the
\* agent uses twice excepted (an old turn's end also settles the new wake). What is held
\* back has a turn in progress that will flush it.
CarriedOnce ==
    /\ (heldWakes # <<>> \/ heldNotes # <<>>) => Busy
    /\ \A w \in WakeIds : Registered(w) /\ ~Reused(wakes[w].reg) =>
          LET n == Copies(WakeRequest(w, wakes[w].reg)) IN
          IF wakes[w].staged THEN n = (IF log[wakes[w].reg].fate = "dropped" THEN 0 ELSE 1)
          ELSE n = 0
    /\ \A j \in Jobs : Copies(JobRequest(j)) <= 1
    /\ \A j \in tracked : rec[j] = "staged" <=> Copies(JobRequest(j)) = 1
    /\ \A j \in Jobs : status[j] # "none" /\ j \notin tracked /\ told[j] = "open" =>
          Copies(JobRequest(j)) = 1

\* A registration ends by its turn, by the agent's word or with its goal, never for
\* another reason and never before it is due; reused ids excepted.
WakesEndRightly ==
    [][\A w \in WakeIds :
         Registered(w) /\ wakes'[w] = Nothing /\ ~Reused(wakes[w].reg) =>
           \/ log'[wakes[w].reg].fate \in {"cancelled", "lapsed"}
           \/ log'[wakes[w].reg].fate = "heard" /\ wakes[w].due = TRUE]_vars

\* An agent that stopped a job is not told of its end any more
\* (suppress_job_notification); the watcher may have seen the job just before.
StopSilences ==
    \A j \in Jobs : told[j] = "stopped" => Copies(JobRequest(j)) = 0
=============================================================================
