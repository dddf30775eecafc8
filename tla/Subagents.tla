----------------------------- MODULE Subagents -----------------------------
(***************************************************************************)
(* Subagents of one parent session: the background task that runs each of  *)
(* them (src/system/tools/subagent_tools.py), their entries in the pool    *)
(* and among the zombies, and the three ways their end reaches the parent  *)
(* (core_pool.py and scheduler.py): a lifecycle request injected into the  *)
(* kernel, a blocked wait_subagent, or reap_subagent.                      *)
(*                                                                         *)
(* The parent's requests are its own turns and, per subagent, the request  *)
(* that reports its end: that request is named as the subagent. How the    *)
(* scheduler orders requests is in KernelScheduler; here any queued        *)
(* request may be the next. The clock is abstracted: a timeout may happen  *)
(* at any time. A turn uses one tool at a time.                            *)
(***************************************************************************)
EXTENDS Integers, FiniteSets

CONSTANTS
    Subs,        \* sub session ids
    Turns,       \* the parent's requests from its user
    MaxWaits,    \* bound on the wait_subagent calls (a turn's iterations are bounded)
    MaxCancels   \* bound on the cancellations of the parent's session

Requests == Turns \cup Subs

ASSUME SubagentsAssumption ==
    /\ IsFiniteSet(Requests)
    /\ Turns \cap Subs = {}
    /\ MaxWaits \in Nat
    /\ MaxCancels \in Nat

VARIABLES
    bg,          \* where _run_subagent_task stands
    task,        \* the subagent's own request in the scheduler
    status,      \* sub_status of the entry
    pooled,      \* subs with an entry in _pool
    zombies,     \* subs with an entry in _zombies
    closing,     \* re-acquired subs that an idle eviction is closing
    reused,      \* subs that a message loaded again after their end
    waiters,     \* _subagent_terminal_waiters that are not done
    waited,      \* _parent_got_terminal_via_wait_tool
    reaped,      \* _reaped_subagent_at
    req,         \* where each request of the parent stands
    killed,      \* the parent's requests whose task was cancelled
    marked,      \* the parent is in _cancelled_sessions
    tool,        \* the tool the parent's running turn waits in
    waits,       \* wait_subagent calls so far
    cancels,     \* cancellations of the parent so far
    heard,       \* history: subs whose end was shown to the parent
    told,        \* history: subs a wait or a reap reported before their request began
    abandoned,   \* history: subs of a wait that ended without a report
    dropped,     \* history: subs whose request a cancellation of the parent dropped
    unwanted,    \* history: subs the parent has cancelled
    revivable    \* history: subs reaped while their entry was live or being evicted

entryVars == <<pooled, zombies, closing, reused>>
taskVars == <<bg, task>>
noticeVars == <<waiters, waited, reaped>>
parentVars == <<req, killed, marked, tool>>
boundVars == <<waits, cancels>>
historyVars == <<heard, told, abandoned, dropped, unwanted, revivable>>
vars == <<entryVars, taskVars, status, noticeVars, parentVars, boundVars, historyVars>>

-----------------------------------------------------------------------------
Ended == {"completed", "failed", "cancelled"}
HasEnded(s) == status[s] \in Ended

\* get_entry
Findable == pooled \cup zombies

\* _inflight_sessions and _queued_by_session of the parent.
InflightIn(stations) == {r \in Requests : stations[r] \in {"started", "running"}}
OpenIn(stations) == {r \in Requests : stations[r] \in {"queued", "started", "running"}}

\* _maybe_clear_cancelled
MarkAfter(stations) == marked /\ OpenIn(stations) # {}

NoTool == [kind |-> "none", subs |-> {}]
Running == {r \in Requests : req[r] = "running"}

\* The running turn calls its next tool.
ToolCall == tool = NoTool /\ \E r \in Running : r \notin killed

Blocked(s) == tool.kind \in {"any", "all"} /\ s \in tool.subs

\* Both checks against a late report: a wait returned the end, or the sub is reaped.
Stale == waited \cup reaped

\* flush_pending_subagent_lifecycle_for_parent
Flushed(stations) ==
    [r \in Requests |->
       IF stations[r] # "pending" THEN stations[r]
       ELSE IF r \in Findable \ Stale THEN "queued" ELSE "over"]

\* _stage_parent_lifecycle_notification
Staged(s) ==
    LET stations == [req EXCEPT ![s] = "pending"] IN
    IF InflightIn(req) = {} THEN Flushed(stations) ELSE stations

Init ==
    /\ bg = [s \in Subs |-> "none"]
    /\ task = [s \in Subs |-> "none"]
    /\ status = [s \in Subs |-> "none"]
    /\ pooled = {} /\ zombies = {} /\ closing = {} /\ reused = {}
    /\ waiters = {} /\ waited = {} /\ reaped = {}
    /\ req = [r \in Requests |-> "idle"]
    /\ killed = {}
    /\ marked = FALSE
    /\ tool = NoTool
    /\ waits = 0 /\ cancels = 0
    /\ heard = {} /\ told = {} /\ abandoned = {} /\ dropped = {}
    /\ unwanted = {} /\ revivable = {}

-----------------------------------------------------------------------------
(* The parent's requests *)

UserSends(t) ==
    /\ req[t] = "idle"
    /\ req' = [req EXCEPT ![t] = "queued"]
    /\ UNCHANGED <<entryVars, taskVars, status, noticeVars, killed, marked, tool,
                   boundVars, historyVars>>

\* The dispatch loop drops the request of a cancelled session.
DispatchDrops(r) ==
    /\ req[r] = "queued"
    /\ marked
    /\ req' = [req EXCEPT ![r] = "over"]
    /\ marked' = MarkAfter(req')
    /\ dropped' = dropped \cup ({r} \cap Subs)
    /\ UNCHANGED <<entryVars, taskVars, status, noticeVars, killed, tool, boundVars,
                   heard, told, abandoned, unwanted, revivable>>

\* _should_suppress_reaped_subagent_parent_notify, then the turn counts as in flight.
Dispatch(r) ==
    /\ req[r] = "queued"
    /\ ~marked
    /\ req' = [req EXCEPT ![r] = IF r \in Stale THEN "over" ELSE "started"]
    /\ UNCHANGED <<entryVars, taskVars, status, noticeVars, killed, marked, tool,
                   boundVars, historyVars>>

TurnBegins(r) ==
    /\ req[r] = "started"
    /\ r \notin killed
    /\ Running = {}
    /\ req' = [req EXCEPT ![r] = "running"]
    /\ heard' = heard \cup ({r} \cap Subs)
    /\ UNCHANGED <<entryVars, taskVars, status, noticeVars, killed, marked, tool,
                   boundVars, told, abandoned, dropped, unwanted, revivable>>

\* The end of _run_and_route: the last turn in flight flushes what was staged.
\* A wait the turn was cancelled in leaves its futures where they are.
Leaves(r, stations) ==
    /\ req' = stations
    /\ marked' = MarkAfter(req')
    /\ tool' = IF r \in Running THEN NoTool ELSE tool
    /\ abandoned' = abandoned \cup {s \in Subs : r \in Running /\ Blocked(s)}
    /\ dropped' = IF req[r] = "started" THEN dropped \cup ({r} \cap Subs) ELSE dropped
    /\ UNCHANGED <<entryVars, taskVars, status, noticeVars, killed, boundVars, heard,
                   told, unwanted, revivable>>

MayLeave(r) ==
    \/ req[r] = "running" /\ tool = NoTool
    \/ req[r] \in {"started", "running"} /\ r \in killed

\* (Slip: what was staged while the turn ran stays there.)
TurnEndsUnflushed(r) ==
    /\ MayLeave(r)
    /\ Leaves(r, [req EXCEPT ![r] = "over"])

TurnEnds(r) ==
    LET stations == [req EXCEPT ![r] = "over"] IN
    /\ MayLeave(r)
    /\ Leaves(r, IF InflightIn(stations) = {} THEN Flushed(stations) ELSE stations)

\* cancel_session_tasks of the parent, by its user.
CancelParent ==
    /\ cancels < MaxCancels
    /\ cancels' = cancels + 1
    /\ marked' = TRUE
    /\ killed' = killed \cup InflightIn(req)
    /\ UNCHANGED <<entryVars, taskVars, status, noticeVars, req, tool, waits,
                   historyVars>>

-----------------------------------------------------------------------------
(* create_subagent and _run_subagent_task *)

CreateSub(s) ==
    /\ ToolCall
    /\ bg[s] = "none"
    /\ bg' = [bg EXCEPT ![s] = "opening"]
    /\ status' = [status EXCEPT ![s] = "running"]
    /\ pooled' = pooled \cup {s}
    /\ zombies' = zombies \ {s}
    /\ UNCHANGED <<task, closing, reused, noticeVars, parentVars, boundVars, historyVars>>

\* The remote workspace is open (or there is none): submit.
BgSubmits(s) ==
    /\ bg[s] = "opening"
    /\ bg' = [bg EXCEPT ![s] = "waiting"]
    /\ task' = [task EXCEPT ![s] = "queued"]
    /\ UNCHANGED <<entryVars, status, noticeVars, parentVars, boundVars, historyVars>>

SubTurnStarts(s) ==
    /\ task[s] = "queued"
    /\ task' = [task EXCEPT ![s] = "live"]
    /\ UNCHANGED <<entryVars, bg, status, noticeVars, parentVars, boundVars, historyVars>>

\* The turn publishes its result or error and is over, in one step.
SubTurnEnds(s) ==
    /\ task[s] = "live"
    /\ task' = [task EXCEPT ![s] = "over"]
    /\ bg' = IF bg[s] = "waiting" THEN [bg EXCEPT ![s] = "answered"] ELSE bg
    /\ UNCHANGED <<entryVars, status, noticeVars, parentVars, boundVars, historyVars>>

\* Task.cancel() of the sub's request: a queued one will be dropped.
Stopped(s) == IF task[s] = "queued" THEN [task EXCEPT ![s] = "over"] ELSE task

BgTimesOut(s) ==
    /\ bg[s] = "waiting"
    /\ bg' = [bg EXCEPT ![s] = "stopping"]
    /\ task' = Stopped(s)
    /\ UNCHANGED <<entryVars, status, noticeVars, parentVars, boundVars, historyVars>>

\* notify_subagent_terminal_waiter: a waiter that is not done gets the end, and then
\* nothing is staged.
Announce(s) ==
    /\ waiters' = waiters \ {s}
    /\ req' = IF s \in waiters THEN req ELSE Staged(s)

\* on_sub_complete and on_sub_fail.
BgEnds(s, end) ==
    /\ \/ bg[s] = "answered" /\ end \in {"completed", "failed"}
       \/ bg[s] = "stopping" /\ task[s] = "over" /\ end = "failed"
    /\ bg' = [bg EXCEPT ![s] = "ended"]
    /\ IF s \in Findable /\ status[s] # "cancelled"
       THEN status' = [status EXCEPT ![s] = end] /\ Announce(s)
       ELSE UNCHANGED <<status, waiters, req>>
    /\ UNCHANGED <<entryVars, task, waited, reaped, killed, marked, tool, boundVars,
                   historyVars>>

\* (Slip: the zombie is only entered when everything is closed.)
EvictBeginsBare(s) ==
    /\ bg[s] \in {"ended", "unwinding"}
    /\ bg' = [bg EXCEPT ![s] = IF s \in pooled THEN "evicting" ELSE "done"]
    /\ pooled' = pooled \ {s}
    /\ UNCHANGED <<zombies, closing, reused, task, status, noticeVars, parentVars,
                   boundVars, historyVars>>

\* evict, up to its awaits: the entry of an ended sub is among the zombies at once.
EvictBegins(s) ==
    /\ bg[s] \in {"ended", "unwinding"}
    /\ bg' = [bg EXCEPT ![s] = IF s \in pooled THEN "evicting" ELSE "done"]
    /\ pooled' = pooled \ {s}
    /\ zombies' = IF s \in pooled /\ HasEnded(s) THEN zombies \cup {s} ELSE zombies
    /\ UNCHANGED <<closing, reused, task, status, noticeVars, parentVars, boundVars,
                   historyVars>>

\* ... and after them: it is entered again.
EvictEnds(s) ==
    /\ bg[s] = "evicting"
    /\ bg' = [bg EXCEPT ![s] = "done"]
    /\ zombies' = IF HasEnded(s) THEN zombies \cup {s} ELSE zombies
    /\ UNCHANGED <<pooled, closing, reused, task, status, noticeVars, parentVars,
                   boundVars, historyVars>>

-----------------------------------------------------------------------------
(* A message to an ended sub loads it again (acquire takes the entry over from the *)
(* zombies), and the TTL loop evicts it later.                                     *)

Reacquire(s) ==
    /\ s \in zombies \ (pooled \cup reused)
    /\ pooled' = pooled \cup {s}
    /\ zombies' = zombies \ {s}
    /\ reused' = reused \cup {s}
    /\ UNCHANGED <<closing, taskVars, status, noticeVars, parentVars, boundVars,
                   historyVars>>

IdleEvict(s) ==
    /\ s \in pooled \cap reused
    /\ pooled' = pooled \ {s}
    /\ zombies' = zombies \cup {s}
    /\ closing' = closing \cup {s}
    /\ UNCHANGED <<reused, taskVars, status, noticeVars, parentVars, boundVars,
                   historyVars>>

IdleEvictEnds(s) ==
    /\ s \in closing
    /\ closing' = closing \ {s}
    /\ zombies' = zombies \cup {s}
    /\ UNCHANGED <<pooled, reused, taskVars, status, noticeVars, parentVars, boundVars,
                   historyVars>>

-----------------------------------------------------------------------------
(* wait_subagent *)

\* Staged reports are discarded; only subs that still run get a waiter.
WaitBegins(kind, subs) ==
    /\ ToolCall
    /\ waits < MaxWaits
    /\ subs # {} /\ subs \subseteq Findable
    /\ waits' = waits + 1
    /\ tool' = [kind |-> kind, subs |-> subs]
    /\ waiters' = waiters \cup {s \in subs : ~HasEnded(s)}
    /\ req' = [r \in Requests |-> IF r \in subs /\ req[r] = "pending"
                                  THEN "over" ELSE req[r]]
    /\ UNCHANGED <<entryVars, taskVars, status, waited, reaped, killed, marked, cancels,
                   historyVars>>

Reports(reported, marks) ==
    /\ tool' = NoTool
    /\ waited' = waited \cup marks
    /\ heard' = heard \cup reported
    /\ told' = told \cup {s \in marks : req[s] \notin {"started", "running"}}
    /\ UNCHANGED <<entryVars, taskVars, status, reaped, req, killed, marked, boundVars,
                   abandoned, dropped, unwanted, revivable>>

\* (Slip: the futures that are not done are left to themselves.)
WaitAnyLeavesOthers ==
    /\ tool.kind = "any"
    /\ \E first \in tool.subs \ waiters :
          Reports({s \in tool.subs : HasEnded(s)},
                  IF tool.subs \cap waiters = {} THEN tool.subs ELSE {first})
    /\ UNCHANGED waiters

\* any: the first that is done is marked (all of them if all are), the snapshot of
\* the others is in the answer too, and their futures are cancelled.
WaitAny ==
    /\ tool.kind = "any"
    /\ \E first \in tool.subs \ waiters :
          Reports({s \in tool.subs : HasEnded(s)},
                  IF tool.subs \cap waiters = {} THEN tool.subs ELSE {first})
    /\ waiters' = waiters \ tool.subs

WaitAll ==
    /\ tool.kind = "all"
    /\ tool.subs \cap waiters = {}
    /\ Reports(tool.subs, tool.subs)
    /\ UNCHANGED waiters

\* Nothing is reported, not even the subs that have ended.
WaitTimesOut ==
    /\ tool.kind \in {"any", "all"}
    /\ IF tool.kind = "any" THEN tool.subs \subseteq waiters
       ELSE tool.subs \cap waiters # {}
    /\ tool' = NoTool
    /\ waiters' = waiters \ tool.subs
    /\ abandoned' = abandoned \cup (tool.subs \ waiters)
    /\ UNCHANGED <<entryVars, taskVars, status, waited, reaped, req, killed, marked,
                   boundVars, heard, told, dropped, unwanted, revivable>>

-----------------------------------------------------------------------------
(* cancel_subagent: the background task and the sub's request are cancelled, then *)
(* the caller waits for the request's task, then the entry is marked              *)

\* bg_task.cancel(): a task that has not submitted yet ends outside its try block.
CancelTask(s) ==
    bg' = [bg EXCEPT ![s] = CASE @ = "opening" -> "done"
                              [] @ \in {"waiting", "answered", "stopping"} -> "unwinding"
                              [] OTHER -> @]

MarkCancelled(s) ==
    /\ status' = [status EXCEPT ![s] = "cancelled"]
    /\ waiters' = waiters \ {s}

CancelBegins(s) ==
    /\ ToolCall
    /\ s \in Findable /\ status[s] = "running"
    /\ CancelTask(s)
    /\ task' = Stopped(s)
    /\ IF task[s] = "live"
       THEN tool' = [kind |-> "cancel", subs |-> {s}] /\ UNCHANGED <<status, waiters>>
       ELSE MarkCancelled(s) /\ UNCHANGED tool
    /\ unwanted' = unwanted \cup {s}
    /\ UNCHANGED <<entryVars, waited, reaped, req, killed, marked, boundVars, heard,
                   told, abandoned, dropped, revivable>>

CancelEnds(s) ==
    /\ tool = [kind |-> "cancel", subs |-> {s}]
    /\ task[s] = "over"
    /\ tool' = NoTool
    /\ MarkCancelled(s)
    /\ UNCHANGED <<entryVars, taskVars, waited, reaped, req, killed, marked, boundVars,
                   historyVars>>

-----------------------------------------------------------------------------
(* reap_subagent, and the zombie TTL *)

\* (Slip: the mark of the wait goes and nothing takes its place.)
ReapForgets(s) ==
    /\ zombies' = zombies \ {s}
    /\ waited' = waited \ {s}
    /\ req' = IF req[s] = "pending" THEN [req EXCEPT ![s] = "over"] ELSE req
    /\ UNCHANGED <<reaped, revivable>>

\* reap_zombie. A live entry stays in the pool.
Reap(s) ==
    /\ zombies' = zombies \ {s}
    /\ waited' = waited \ {s}
    /\ reaped' = reaped \cup {s}
    /\ req' = IF req[s] = "pending" THEN [req EXCEPT ![s] = "over"] ELSE req
    /\ revivable' = IF s \in pooled \cup closing \/ bg[s] # "done"
                    THEN revivable \cup {s} ELSE revivable

ReapCall(s) ==
    /\ ToolCall
    /\ s \in Findable /\ HasEnded(s)
    /\ Reap(s)
    /\ heard' = heard \cup {s}
    /\ told' = IF req[s] \in {"started", "running"} THEN told ELSE told \cup {s}
    /\ UNCHANGED <<pooled, closing, reused, taskVars, status, waiters, killed, marked,
                   tool, boundVars, abandoned, dropped, unwanted>>

\* _reap_stale_sub_zombies
ReapStale(s) ==
    /\ s \in zombies /\ HasEnded(s)
    /\ Reap(s)
    /\ UNCHANGED <<pooled, closing, reused, taskVars, status, waiters, killed, marked,
                   tool, boundVars, heard, told, abandoned, dropped, unwanted>>

-----------------------------------------------------------------------------
ParentStep(r) ==
    \/ DispatchDrops(r) \/ Dispatch(r) \/ TurnBegins(r) \/ TurnEnds(r)

BackgroundStep(s) ==
    \/ BgSubmits(s) \/ SubTurnStarts(s) \/ SubTurnEnds(s)
    \/ \E end \in {"completed", "failed"} : BgEnds(s, end)
    \/ EvictBegins(s) \/ EvictEnds(s)
    \/ IdleEvictEnds(s)

ToolReturns ==
    \/ WaitAny \/ WaitAll \/ WaitTimesOut
    \/ \E s \in Subs : CancelEnds(s)

Next ==
    \/ \E t \in Turns : UserSends(t)
    \/ \E r \in Requests : ParentStep(r)
    \/ CancelParent
    \/ ToolReturns
    \/ \E kind \in {"any", "all"}, subs \in SUBSET Subs : WaitBegins(kind, subs)
    \/ \E s \in Subs :
          \/ CreateSub(s) \/ BackgroundStep(s) \/ BgTimesOut(s)
          \/ Reacquire(s) \/ IdleEvict(s)
          \/ CancelBegins(s) \/ ReapCall(s) \/ ReapStale(s)

Spec == Init /\ [][Next]_vars

\* The event loop runs what is ready; turns, tools, loads and evictions end (their
\* awaits have timeouts). Nobody has to send, create, cancel, wait or reap.
FairSpec ==
    /\ Spec
    /\ \A r \in Requests : WF_vars(ParentStep(r))
    /\ \A s \in Subs : WF_vars(BackgroundStep(s))
    /\ WF_vars(ToolReturns)

-----------------------------------------------------------------------------
(* Properties *)

\* Types of the state; one turn of the parent runs at a time, and only a running
\* turn waits in a tool.
TypeOK ==
    /\ bg \in [Subs -> {"none", "opening", "waiting", "answered", "stopping",
                        "unwinding", "ended", "evicting", "done"}]
    /\ task \in [Subs -> {"none", "queued", "live", "over"}]
    /\ status \in [Subs -> {"none", "running"} \cup Ended]
    /\ pooled \cup zombies \cup closing \cup reused \subseteq Subs
    /\ waiters \cup waited \cup reaped \subseteq Subs
    /\ heard \cup told \cup abandoned \cup dropped \cup unwanted \subseteq Subs
    /\ revivable \subseteq Subs
    /\ req \in [Requests -> {"idle", "pending", "queued", "started", "running", "over"}]
    /\ killed \subseteq Requests
    /\ marked \in BOOLEAN
    /\ tool \in [kind : {"none", "any", "all", "cancel"}, subs : SUBSET Subs]
    /\ waits \in 0..MaxWaits /\ cancels \in 0..MaxCancels
    /\ \A r, q \in Running : r = q
    /\ tool # NoTool => Running # {}

\* A sub the parent created and has neither cancelled nor reaped can be found at any
\* moment, also while its eviction is under way: get_subagent_status, wait_subagent
\* and reap_subagent never answer SUBAGENT_NOT_FOUND for it.
FindableUntilReaped ==
    \A s \in Subs : status[s] # "none" => s \in Findable \cup reaped \cup unwanted

\* The parent is told of every end: the report is on its way, or a wait in progress
\* will return it, or it was shown or the sub reaped. What gets lost, gets lost in a
\* wait that timed out or was cancelled, or with a cancellation of the parent.
EndsAnnounced ==
    \A s \in Subs : status[s] \in {"completed", "failed"} =>
        \/ req[s] \in {"pending", "queued", "started", "running"}
        \/ Blocked(s)
        \/ s \in heard \cup reaped \cup abandoned \cup dropped

\* An end that a wait or a reap has reported to the parent is not reported again by
\* a request that had not begun by then.
NotToldTwice ==
    \A s \in told : req[s] \notin {"started", "running"}

\* A reaped sub can be found again only if its entry was live or being evicted when
\* it was reaped.
RevivedOnlyByRace == Findable \cap reaped \subseteq revivable

\* The first end counts: a late answer does not replace a cancellation, nor a
\* cancellation in progress an end.
EndIsFinal ==
    [][\A s \in Subs : HasEnded(s) => status'[s] = status[s]]_vars

\* Every sub that is created comes to the parent's notice, whatever else happens:
\* its end is shown, or the parent cancelled or reaped it or abandoned the wait for
\* it, or cancelled its own requests.
EndIsHeard ==
    \A s \in Subs :
        status[s] = "running" ~>
            s \in heard \cup reaped \cup unwanted \cup abandoned \cup dropped

\* The claims of the code that interleaving breaks.

\* When a waiter swallows the report of an end, the parent is blocked in that wait
\* and gets the end from the tool.
SkippedOnlyForWait ==
    [][\A s \in waiters \ waiters' :
          status[s] = "running" /\ status'[s] \in {"completed", "failed"} => Blocked(s)]_vars

=============================================================================
