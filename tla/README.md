# Specifications of the Macchiato agent daemon

TLA+ modules that model the concurrent core of the daemon in `src/src`, TLC
configurations that check them on small instances, and proofs of the same
properties for every instance, checked by TLAPS. Paths below are relative to
`src/src` unless they begin with `src/`.

## 1. How the system works

The daemon (`macchiato_bot_cli/daemon.py`) is **one process with one asyncio
event loop**. Code interleaves only where a coroutine is really suspended, so a
TLA+ action is what one task does between two such places: everything a
synchronous stretch changes is one action, and every `await` that can suspend
separates two actions. Two asyncio rules matter throughout: `Task.cancel()` only
marks a task, the `CancelledError` is raised when it runs next, and a task
cancelled before its first step never runs at all; `asyncio.Lock` hands itself
over in order of arrival.

```
 CLI / Feishu / web clients        config.yaml        agent's own tools
        |  IPC                          |                    |
   core gateway                 AutomationScheduler     create_subagent, ...
        |  submit, acquire              |  push              |
        |                        AgentTaskQueue (SQLite)     |  submit
        |                               |  pop, submit       |  inject_turn
        v                               v                    v
   +------------------------- KernelScheduler --------------------------+
   |  priority queue -> dispatch loop -> one task per request           |
   |  -> session lock -> turn (AgentKernel) -> OutputBus                |
   +--------------------------------------------------------------------+
        |  acquire / evict (TTL loop, stop)          | flush of held reports
        v                                            v
     CorePool: entries, load locks, zombies  <--- subagent background tasks
```

* Whoever wants a turn **submits** a request and awaits a future of the
  `OutputBus`, or **injects** one nobody waits for (subagent reports, wakes,
  background job notices).
* The scheduler's task takes the **session lock**, acquires the session's core
  from the **pool**, which loads it on demand, and runs the turn. The TTL loop,
  commands and `stop()` evict cores.
* A turn's tools create **subagents**: sessions with a core and requests of their
  own, run by a background task that reports the end to the parent by an injected
  request, a waiting tool call, or on demand.
* **Automation** keeps job definitions in a JSON file that the agent's tools, the
  synchronisation with `config.yaml` and the job loops all write; due jobs push
  rows into a persistent **task queue**, whose consumer submits one request at a
  time to the scheduler.

## 2. Inventory

### Modelled

| Component | State | Operations | What makes it hard | What makes it correct |
|---|---|---|---|---|
| Kernel scheduler, output bus (`system/kernel/scheduler.py`, `output_bus.py`) | priority queue, session locks, in-flight and queue counters, cancel marks, active tasks, pending futures | submit, inject_turn, dispatch, run turn, cleanup, cancel_session_tasks, hold_session_lock, wait_result, start, stop | a cancellation at any await, also before the first step; three lines (queue, ready list, lock) in a row; a caller that gives up | one turn per session at a time; counters exact; order kept; every turn answers; marks and waits end |
| Core pool (`system/kernel/core_pool.py`) | entries, load lock per session, TTL list | acquire (fast and slow way), evict, TTL scan, evict_all | loads and evictions await while others evict, load, run | no double load, no lost core, no eviction under a running turn, nobody waits for ever |
| Subagents (`system/tools/subagent_tools.py`, `core_pool.py`, `scheduler.py`) | background task, status, entry and zombie of each sub, waiters, marks against repeated reports, held reports | create, run, time out, evict, wait (any/all), cancel, reap, stage and flush of reports, loading again by a message | three ways of delivery that exclude each other; a parent cancelled in the middle of a wait; eviction in several steps | the parent hears of every end, once; a sub can be found until reaped; the first end counts |
| Agent task queue and consumer (`system/automation/task_queue.py`, `daemon.py`) | rows, the consumer, its request | push, pop_pending, update_status, recover_stale_running, consume loop | death of the process between any two steps; answers of the kernel that never come or are a CancelledError | carried out once per life of the daemon, finished for good, queue never stuck |
| Automation scheduler, definitions, config sync (`system/automation/scheduler.py`, `repositories.py`, `config_sync.py`) | `config.yaml`, definitions on disk, loops with the definition they began with | create/delete job, synchronise, start, reload, fire, one-shot update | three writers of one file, a watcher that compares snapshots, death between push and update | the loops follow the file, the file follows the config, a one shot fires once |
| AgentCore's turn, AgentKernel, conversation, history (`agent_core/agent/agent.py`, `system/kernel/kernel.py`, `context/conversation.py`, `kernel_interface/loader.py`) | messages, history rows and the highest seen, checkpoint, the turn's iteration | prepare, ask, call tools, store results, fold, recover, goal check, finalize; /clear, /compress, notices, other processes' rows, restart | an await in every phase at which the turn may be cancelled or fail; commands that reach the messages without the session lock | a request is well formed and holds the turn's question; conversation and history agree; turns end |
| Checkpoints and goals (`agent_core/agent/checkpoint.py`, `goals/store.py`, `core_pool.py`) | one file per owner, the time stamp of the last stop, goals | write at a turn's end, mark at an eviction, flush at a stop, restore, expire, salvage goals | two sessions share a file; a death between two steps; a clock that goes on while the daemon is down | a paused session resumes; goals that are not finished are kept |
| Wakes and job notices (`agent_core/tools/agent_wake.py`, `bash_job_notify.py`, `agent_core/job_manager.py`) | registered wakes, jobs, what is held back for a busy session, requests on their way | schedule, cancel, goal check, start/stop/suppress a job, poll, stage, flush, confirm, abort | polls that await a worker between choosing and delivering; ids used again; cancellation at every station | a thing that is marked as on its way is on its way once; a wake ends for a reason |
| Permissions and questions (`agent_core/permissions/`) | futures, registries, grants in memory and on disk, tickets for commands | ask, bypass, show, answer whole or in parts, time out, cancel, grant, restart | a click, a time-out and a cancellation landing in one round of the event loop; grants written one by one | an accepted answer counts; nothing runs that was not approved |
| Messages between agents (`system/tools/subagent_tools.py`, `scheduler.py`) | messages, reply and mail waiters, session locks | send, reply, wait for mail, time out, cancel, reap, stop | a tool that waits holds its session's lock | replies arrive once, mail is heard, no wait is for ever |
| Remote worker: registry, server, program (`agent_core/remote/`, `system/automation/remote_worker_server.py`, `macchiato_remote/client.py`) | connections on both sides, pending requests and streams, activations, sessions of the worker, partial files | connect, lose, replace, execute, open, release, push, pull, expire | the two ends learn of a loss at different times; a call is sent again after the workspace was reopened | a command runs once; what is held open is open; no partial file counts as whole |
| Core gateway, IPC, dashboard and Feishu as clients (`system/automation/core_gateway.py`, `ipc.py`, `frontend/feishu/ipc_bridge.py`) | active session per client, push buffers, recoveries, connections | switch, run_turn_stream, publish, buffer, fetch, poll, expire | a client that goes away before, during or after the final event; several conversations under one client id | a result is at one place; a turn lands in its session; who stays is answered |
| MCP connections (`agent_core/mcp/`) | shared processes with reference counts under one lock, each core's servers | load, attach, detach, reload, close | a load or close cancelled or raising half-way; commands attach while a core closes | a count is the number of its references |
| Shells (`agent_core/bash_runtime.py`, `tools/bash_tool.py`) | the shell's environment, its pipe, snapshot files | run, capture, time out, restore, restart, close | a cancelled command stays in the shell; other cores delete snapshots | what a command exported stays in effect |
| Forum front end (`frontend/shuiyuan_integration/`) | list of known posts in two files, reply tasks, the newest reply that polls, keys with their blocks | round over lists or topics, begin, read, run, post, poll and edit, stop, end, start; choose a key, probe, answer | a death between the two writes, lists that fail one by one, an old poll answered late, one index of keys for several threads | one turn per post, none forgotten; only the newest reply is edited; every free key is tried |

### Not modelled

| Component | State and operations | Why not |
|---|---|---|
| Summaries, core logs (`system/kernel/summarizer.py`, `core_logger.py`) | text, append-only files | awaits of an eviction in `CorePool` |
| Prompts, media, clearing of tool results (`agent_core/agent/tool_result_*.py`, `media_helpers.py`) | texts of a request | data no property here tells apart |
| Tool registry, working set (`agent_core/tools/versioned_registry.py`, `orchestrator/working_set.py`) | versions, pinned and recent tools | sequential data structures with unit tests of their own |
| Paths, grants, capabilities (`agent_core/agent/path_grants.py`, ...) | prefix lists | strings and the file system |
| Memory, chat history (`agent_core/memory/`) | SQLite, text files | single committed statements |
| LLM clients, OAuth (`agent_core/llm/`) | tokens | HTTP translation; a call is an await of a turn |
| Planner, models, other tools (`agent_core/planner/`, `models/`, ...) | tasks, events | one call each, files and web services |
| Automation services, connectors (`system/automation/services.py`, ...) | records | sequential input and output |
| Daemon entry, configuration (`macchiato_bot_cli/main.py`, `agent_core/config.py`) | configuration | wiring and parsing |
| Terminal, web and calendar front ends (`frontend/cli`, `dashboard`, `canvas_integration`, `mcp_server`) | sessions of outside services | input and output around the IPC server |
| Deployment, configuration files, tests, docs | - | not program logic; quoted where a property rests on them |


`PROJECT.json` lists the same components with their notes, and under "hazards"
the places found that are hard to test, at their line, with the properties that
would notice.

## 3. The modules

| Module | Role |
|---|---|
| `SerialTurns` | abstract: what the scheduler promises to code inside a turn |
| `KernelScheduler` | the scheduler and the bus; implements `SerialTurns` |
| `CorePool` | loading and evicting cores |
| `Subagents` | subagents of one parent and the ways their end is reported |
| `AgentTasks` | the persistent queue and its consumer across deaths of the daemon |
| `Automation` | jobs, file, config, loops, composed with `AgentTasks` |
| `Conversation` | a session's turn, messages, history and checkpoint, and the commands beside it |
| `Checkpoints` | one owner's file, sessions and goals across evictions, stops and deaths |
| `Notices` | wakes and job notices of one session on their way to a turn |
| `Questions`, `Messages`, `Mcp`, `Shell` | what a tool call may wait for: a person, another agent, a server, a shell |
| `RemoteLink` | the daemon and one remote worker at the two ends of connections that break |
| `Gateway` | the way of a result from the kernel to the clients |
| `Forum`, `KeyPool` | the forum connector: from a post to its reply; the keys its requests use |
| `KernelSchedulerProofs`, `SubagentsProofs`, `NoticesProofs`, `AutomationProofs` | invariants, lemmas and theorems about each (the last about AgentTasks and Automation) |
| `CoresProofs`, `OutagesProofs`, `FrontsProofs`, `ToolsProofs` | the same about a core from outside and inside (CorePool, Conversation), the modules that have to outlast an end (Checkpoints, RemoteLink), the fronts (KeyPool, Forum, Gateway) and what a tool waits for (Questions, Shell, Messages, Mcp) |
| `MCKernelScheduler`, `MCSubagents`, `MCAutomation`, `MCConversation`, `MCNotices`, `MCKeyPool`, `MCShell` | model values and small functions for TLC |
| `MCCores`, `MCFronts`, `MCTools`, `MCOutages` | put modules that share no state side by side: a behaviour moves one of them. `MCCores` has a core from outside and inside (CorePool, Conversation), `MCFronts` the ways from and to the clients (Gateway, Forum, KeyPool), `MCTools` what a tool waits for, `MCOutages` (Checkpoints, RemoteLink) what has to outlast an end |

Every module's VARIABLES are commented with the attribute they stand for, and
`PROJECT.json` "map" gives the lines of each definition. Variables called
*history* are written and never read by an action. Definitions called *slip* are
plausible mistakes in an operation; they are used by no action and are there to
see that each property notices one ("mutants" in `PROJECT.json`).

**KernelScheduler.** A request goes `new -> queued -> spawned -> lockwait ->
running -> returned -> done`. `ahead` gives each user of a line (priority queue,
ready list of the event loop, lock) those who joined it earlier, so order is
modelled without sequences. `Submit`/`InjectTurn` are `_track_enqueue` and `put`;
`DispatchSkip`/`DispatchSpawn` the dispatch loop; `StartSuppress`, `JoinLock`,
`TakeLock` the task up to the turn; `FinishTurn`, `FailTurn`, `AbortTurn`,
`KilledWaiting`, `KilledUnstarted` its ends, each with the `finally` block and
its flush of reports held for the session; `Cleanup` the done callback. `Gates`
are the other users of the session lock (`hold_session_lock`). `CancelSession`,
`CancelReturns`, `CancelTimesOut` are `cancel_session_tasks` before and after its
wait; `Start`, `StopBegins`, `StopDrained`, `StopEnds` the life of the kernel.
Priorities and sessions are constants; what a turn computes is left out.

**CorePool.** A call of `acquire` goes `new -> (inflight) -> waiting -> loading
-> attaching -> using`, or `updating` when it brings a profile; a core is named
by the call that loaded it, and so is a lock by the call that created it, so that
a lock that was deleted and made again is a different lock. `AcquireFast` is the
way without the lock, `AcquireSlow`, `TakeLoadLock`, `LoadDone`,
`AcquireReturns`, `AcquireFails` the way with it. Evictors are the TTL loop
(`TtlScan`, `WorkerCloses`), commands (`EnderEvicts`, `EnderCloses`) and `stop()`.
The clock is left out: a scan may find any pooled sessions expired.

**Subagents.** `bg` is the stage of `_run_subagent_task`; a report is a request
named as its sub and goes `idle -> pending -> queued -> started -> running ->
over`, `pending` being `_pending_subagent_lifecycle_by_parent`. `EvictBegins` and
`EvictEnds` are the two halves of the background eviction between which the sub
is a zombie only. `WaitBegins`, `WaitAny`, `WaitAll`, `WaitTimesOut`,
`CancelBegins`, `CancelEnds`, `Reap*` are the parent's tools. `Reacquire` and
`IdleEvict*` stand for a message that loads an ended sub again. Which queued
request is next is left open: any order KernelScheduler allows is included.

**AgentTasks and Automation.** `AgentTasks` has the rows, the consumer's phases
and, of the kernel, only how far the consumer's request is: the possible answers
(`ok`, `bad`, `cancelled`, never) are those KernelScheduler produces.
`Automation` extends it: `Fire` pushes a task with the action `Push`;
every other action of the queue happens `Beside` unchanged jobs. A consumer that a
CancelledError has ended keeps that answer as its last (`turn`), by which WorkGetsDone
tells this end from any other. A one-shot firing
is two actions because the process may die in between. `Reload` is one round of
the watcher: synchronisation, then adjustment of the loops.

**Conversation.** A message is its role, its row in the history, the calls it
makes or answers and the rows a summary stands for. `BeginTurn` and `Ask` are
`prepare_turn` before and after the recall; `EnterLlm`, `Iterate`, `Overflow`,
`Summarised` the way to a request; `OverflowError`, `MissingReasoning` its
repetitions; `CallTools`, `Execute`, `Executed`, `StoreResult` the tool calls,
each stored before it runs; `GoalCheck`, `Answer`, `Exhausted`, `EndWithout`,
`Fails`, `Cancelled` the ends. `Request` is what `InternalLoader.assemble` sends:
`Repair` and then `StripOrphans`; each puts a piece for every message together
(`Joined`). `Clear`, `Compress`/`CompressEnd` and `Notice`
need no session lock and may come at any await; `NewGoal`, `OtherRow` and `Crash`
are /goal, another process on the same session and a restart.

**Checkpoints.** A turn is one action, an eviction two (`Evict`, `MarkExpired`,
between them the summary), a stop several (`Stop` writes the time stamp, then
`Flush` per session, then `Dies`). `Boot` is `restore_from_checkpoints`, `Load`
an acquire of a session that is not in the pool.

**Notices.** `Poll`, `WorkerAnswers`, `QueryFails` are one round of
the watcher in `daemon.py`, which handles `LocalsFirst` and awaits the worker for
each remote job; `DeliverNotes` and `DeliverWakes` hand over one after the other what a
pass has found, written as their result for the whole sequence; `Flushed` is the flush at the end of the session's last turn. Of
the scheduler there is what decides a request's fate: `queue`, `spawned`, `line`
and the cancel mark. `rec` is a job's record in the notifier, `status` the job's.

**Questions, Messages, Mcp, Shell.** In the first two a future is `open`, `set`
or cancelled, and `landed` says which of a time-out and a cancellation came
before the tool went on: both overrule what the future was set to. In `Questions`
`Heard` applies the grants prefix by prefix and may fail between two. In
`Messages` a line is a session's lock, and a waiting tool stays at its head. In
`Mcp` a job is one of the calls of a core's manager with its place (`stage`), and
the pool's lock is held from `Joins` or `Starts` to the end. In `Shell` the pipe
is a queue of inputs and outputs: what a cancelled call has written is executed
(`ShellRuns`) and read by the next. A capture finds what it was shown or less
(`found`: 50,000 characters, values of several lines), a snapshot is restored only if
the new shell finds it under its path (`resolves`), and `held` tells a shell that died
from one that was closed, under which a reader fails differently (`Fails`).

**RemoteLink.** Each connection has a queue of messages in both directions;
`Lose`/`Break` end it for the worker, `EndpointEnds` for the daemon, `Connect`
may come between them and replaces the old one (`Unregister` compares). `Handle`
is the worker's loop, one message after the other; an opening has three results,
since one that fails after the old session was closed leaves none open. `Exec` includes
the reopening and second sending of a command whose answer reads as "not open", be it
the worker's or the command's own stderr (`misread`). `fresh` (history) says that no
restart and no failed opening has closed the workspace behind the daemon's back. `Release` the detaching and
closing, `Send`, `PushAnswered`, `PullAnswered` the streams with their chunks.

**Gateway.** `Switch` and `Run` are the two requests of a message, `Publish*` the
output bus with the gateway's listener, `Notice` the handler's discovery that the
client went, `Resume*` the handler after the turn: it keeps the result (`Keep`),
writes it, or fails while writing; `Read`, `Fetch`, `RoundBegins`, `Poll`, `Send`
are the clients. The kernel answers every request once (KernelScheduler).

**Forum, KeyPool.** `ListRound` and `WatchRound` are a round of the connector in
its two modes; the event loop is blocked by the round's requests, so a round is one
action, with a choice of which lists answer and, in `RoundEnds`, of whether the
process ends between the writing of `connector_processed_post_ids.json` and of the
list. A reply goes `spawned -> reading -> ready -> turn -> follow -> polling <->
polled -> over`; with nothing to follow, or a turn of the connector's own, it passes
`answer`. `PollReports` and `Hear` are the two sides of the await of `poll_push`.
`line`, `working` and `reports` are the daemon: one user's turns are run in order
and the reports of their subagents go to the session's push buffer. In `KeyPool` a request
goes `choosing -> using` and back until it is answered; `NextFree` is the
round-robin over `_current_index`, which all requests share.

## 4. Runs

State counts are of distinct states. The configurations with
`CHECK_DEADLOCK FALSE` are those where a finite set of requests is used up or
the kernel is stopped for good, after which the system may really stop.

| Run | Instance | States | Checks |
|---|---|---|---|
| `scheduler` | one session; a submit, an urgent wake, a subagent report, a gate, one cancellation, start and stop; fair | 551,190 | CountersExact, StopReleases, TurnAnswers, NoOvertaking, MarkDiesWithLast, ImplementsSerialTurns, NothingHangs |
| `cores` | the pool: two sessions, a turn each (one with a profile), a gateway call, a command that ends a session, the TTL loop, stop; capacity 1. The conversation: two turns of two iterations with at most two calls at once, one repetition, beside five pairs of events: clear/compress, compress/notice, goal/plan, plan/crash, row/crash; fair | 439,355 | LoadsExclusive, RunningSpared, PooledIsOpen, RequestWellFormed, HistoryKept, QuestionInRequest, CoresEnd |
| `subagents` | two interchangeable subs, one user turn plus the two reports, one wait, one cancellation | 2,653,876 | FindableUntilReaped, EndsAnnounced, NotToldTwice |
| `subagents_live` | one sub, two user turns, one wait, one cancellation; fair | 69,147 | EndIsHeard |
| `automation` | a job of the agent, two of `config.yaml` (one a one shot), two rows, one edit, one death, two clock values; fair | 627,970 | LoopsFollowFile, OncePerDeath, EditsStand, WorkGetsDone |
| `conversation_compress` | one /compress between two turns or under one | to the violation | EveryRequestWellFormed (violated) |
| `notices` | three of: a wake scheduled up to twice, a goal check, a local and a remote job; one user turn, two cancellations | 1.1 million | CarriedOnce, WakesEndRightly |
| `outages` | the checkpoint: two interchangeable sessions, a time to live of 1 and a clock up to 2, two turns. The worker: a command with two openings or a push and a pull of two chunks with one, a release, two connections and one expiry, or three connections around a death of the worker | 3.1 million | RunsOnce, UseHolds, FilesWhole, GoalsKept, PausedResumes |
| `fronts` | the gateway: two turns of a dashboard and one of Feishu, two injected turns, two sessions, buffers of one entry. The forum: three posts (one old) on two lists, two slots, one end of the connector. The keys: three, one request that reads and one that calls, two limits reached; fair | 826,900 | HeldOnce, MentionsHandled, KeysTried, NewestEdited, FrontsEnd |
| `forum_keys` | three keys, two requests that read, no limit | to the violation | EveryKeyTried (violated) |
| `tools` | four questions in three pairs; two agents with two messages, one wait and pairs of events; two cores, a boot and an attached server in four plans; three plans of shell commands, snapshots on, or off and the last one found or not; fair | 531,969 | AnswerHeard, OnlyApproved, MailArrives, CountedRight, EffectsKept, WaitsEnd |
| `shell_timeout` | two exports | to the violation | TimeoutRestores (violated) |

**Why these bounds.** `MaxCancels`: the marks of two cancellations of a session
are one set element, and a second call only adds another wait; one is enough for
a cancellation to meet every station. The run `scheduler` puts every kind of user
on one session, since sessions share nothing but the queue. In `cores` three calls and three kinds of
evictor suffice to delete a lock under a waiter, a holder and a newcomer; the
capacity of one is both met (a load is refused while the other session is
pooled) and exceeded (by two loads at once). Two subs are
what wait_mode any/all, and reports flushed together, tell apart. `MaxWaits`
bounds the waits because a turn's iterations are bounded. In `automation` one
edit separates an old loop from a new definition, one death separates two lives,
and two rows make the order of the queue visible. In the conversation of `cores` two turns
separate what a turn finds from what it adds, two iterations a second request
from the first, two calls a result that is there from one that is missing; `Keep`
of one user turn makes a fold possible at once; the events come in pairs because
each changes the messages by itself and the interesting cases are those of two.
In `notices` two registrations are what an id used again needs. Its constraint `ThreeNotices`
leaves out the behaviours with two wakes and both jobs (4.8 million states with one
cancellation, checked once); a second cancellation finds what the mark of the first left. In `outages` two
sessions of one owner are what it takes to overwrite a file; the
clock passes the time to live (of 1, by 2), so a session left alone becomes idle and a
file late (a conversation has its second turn before the first tick; with two turns at
any time the instance was checked once, 3.6 million states); three
connections are an old one, the one that replaces it and one after the worker's restart,
two chunks a file that is begun and not whole. In `fronts` two
turns under one client id are two tabs of a dashboard, buffers of one entry are
full at once; of three posts one is old, one newest and one in between, and two
lists are one that answers and one that does not; three keys are what it takes for
a request to come back to its own before it has met all. In `tools` three messages were checked too (6.4 million states) and
showed nothing new. The symmetry of
`subagents` and `outages` is used with invariants and action properties, never with
liveness. The proofs below do not depend on any of these numbers.

**Claims kept as definitions, with no run.** They say what one would like to
hold, and interleavings break them; TLC refuted each when it was written, and
section 7 tells the story: AnsweredWhenOver, WakeReleasedWhenOver
(KernelScheduler), SingleLoad, TtlSparesInflight (CorePool), SkippedOnlyForWait
(Subagents), OneShotStops (Automation), StopSilences (Notices), GoalsStayHome
(Checkpoints), HistoryLeftAlone (Forum).

## 5. Fairness

Assumed where a liveness property is checked, and nowhere else; weak but for one
case:

* **The event loop runs what is ready**: weak fairness of each request's, call's
  and background task's own step. asyncio's ready list is first in, first out.
* **Turns, tools, loads and evictions end.** Model calls, tools, MCP and remote
  calls have timeouts and a turn's iterations are bounded, so the fair steps
  include the end of a turn; *how* it ends stays open (result, exception,
  cancellation).
* **Timers fire**: the time-outs of questions, waits and commands. Nobody has to
  click, reply or show anything, and no command has to end by itself.
* **Locks are handed over in order**, so weak fairness is enough. Strong
  fairness is used for one step only, the forwarder's poll of a session: its round may
  be cut short by another session's failure again and again, but not for ever.
* **The daemon is started again** (`Automation` only): the unit
  `src/deploy/systemd/macchiato-automation.service.in` has `Restart=on-failure`
  (after a deliberate stop it is the user who starts it again; a daemon that stays
  off promises nothing); a stop that has begun ends the process; the watcher's rounds and the clock go on.
* **Clients that stay read** (`Gateway`): the handler runs and a client that has
  not left reads what arrives and fetches what was kept for it.
* **The forum's replies go on** (`Forum`, `KeyPool`): a task that holds a slot takes
  its next step, the poll for reports has a wall-clock limit
  (`_SHUIYUAN_INJECT_MAX_WALL_SEC`), a request to the forum is answered or times out.
* **Nobody has to begin anything**: no fairness of submitting, creating,
  cancelling, waiting, reaping, editing, dying, leaving or stopping.

What the liveness properties say: `NothingHangs`, every request, cancellation and
caller of the scheduler reaches its end, apart from the cases the code excludes
and the formula names (a scheduler that is stopped, a caller that gave up, a
waiter that section 7 calls lost); `CoresEnd`, every acquire and every eviction of
the pool and a turn whatever the model answers; `EndIsHeard`, every end of a sub; `WorkGetsDone`, tasks and one shots;
`FrontsEnd`, the result of whoever stays, every reply of the forum and every
request for a key; `WaitsEnd`, everything a tool waits for. `CoresEnd`, `FrontsEnd` and `WaitsEnd` have the form
`<>[](nobody waits)`: the calls of their instances are finite in number and none
begins again, so each says the same as a leads-to for each of them, in one formula
of which TLC has one branch to check.

## 6. Proofs

Checked by TLAPS for all values of the constants that satisfy the named
assumptions (`SchedulerAssumption`, `PoolAssumption`, `ConversationAssumption`, `SubagentsAssumption`,
`TasksAssumption`, `AutomationAssumption`, `CheckpointsAssumption`,
`RemoteAssumption`, `KeyPoolAssumption`, `ForumAssumption`, `GatewayAssumption`,
`NoticesAssumption`, `QuestionsAssumption`, `ShellAssumption`, `TalkAssumption`, `McpAssumption`): the
constants have the obvious types, kinds of users, calls and turns are disjoint, sets
that are counted are finite, and a value that means "nothing" is none of the others.
Every invariance proof has the same shape: `Init => IInv`,
`IInv /\ [Next]_vars => IInv'` with a step per action, `IInv =>` the property.

* **KernelSchedulerProofs.** `IInv` = TypeOK, SessionSerial, CountersExact,
  SkipNeverNeeded. The counters are decremented "not below zero", so that they
  stay exact is what keeps them correct, and exactness needs finite sets:
  `CountOneMore`, `CountOneLess`, `Recount`. SessionSerial is inductive because
  a lock is only ever given to the first in line. On top of it: `StopCorrect`,
  `TurnsAnswer`, `MarksDie`. The refinement `SerialTurnsRefined` maps a user's
  station to outside/inside/over (`PhaseOf`); `MapMove` turns each action into
  Enter, Leave, Drop or a stutter, and Enter needs SessionSerial. NobodyOvertakes
  follows the three lines (queue, ready list, lock): `OrderKept` says that a request
  which another must not overtake is further on than that one, or ahead of it in
  the line where both stand (`Before`).
* **CoresProofs.** *CorePool:* the properties say *who is to blame* when something goes
  wrong, so the invariant follows locks: a call that needs a lock has the one in
  `_locks` or was robbed of it (`LockKept`), a lock has one holder (`OneHolder`),
  a loading call is alone unless somebody was robbed (`LoadingAlone`);
  LoadsExclusive and LostOnlyToRace follow. `ListKept` and `CoreSpared` say what
  the kernel's evictor may still have in hand, which gives RunningSpared.
  *Conversation:* what a request looks like is proved for messages of any number. `Joined`
  is a recursive function, and its value is defined because a least number for which
  it were not would have a predecessor (`LeastOf`, `HandedOn`, `JoinedUnfolds`: the
  library's induction rules take an operator and cannot be used). `JoinedPlaces` then
  says where each piece lies in the whole, in order, and the rest speaks of places:
  `RepairPlaces` which results `Repair` adds, `RepairGood` and `RepairComplete` that
  nothing is answered twice or remains unanswered, `StrippedWellFormed` that
  `StripOrphans` then leaves a well formed request. The invariant `Talk` says of *all* that
  can become the messages - the messages, what a rollback restores, what the turn
  and a /compress have split off, the checkpoint - that rows and calls in them are
  the session's own and not repeated (`AllSound`), and that results after a call are
  its results, each once (`Good`, `AllGood`), unless a /compress intervened; `Open`
  keeps the calls not yet answered at the end of the messages. `Covered` and `Asking`
  carry HistoryKept and QuestionInRequest through splits and restarts. TLC checked
  Talk on the instance of `cores` before. `OnlyCompressBreaks` completes the run
  `conversation_compress`: where /compress is never used, EveryRequestWellFormed holds.
* **SubagentsProofs.** `StagesAgree` ties the background task to the status,
  `WaitersBelong` and `ToolKnows` the waiters to the blocked tool,
  `RecordsTrue` and `GoneIsGone` the marks and records to ends. They are what
  FindableUntilReaped, EndsAnnounced, NotToldTwice and RevivedOnlyByRace need;
  `EndsStay` gives the action property EndIsFinal, which no run repeats.
* **AutomationProofs.** *AgentTasks:* RunsOncePerLife is not inductive alone: `TurnsAccounted`
  counts, for pending rows and for a request not yet begun, at most one turn per
  death. `DownMeansDown` and `RowsInOrder` carry it over restarts. *Automation:* the system's steps are
  steps of the queue or leave it alone, so the queue's theorems hold in it
  (`OneRunningInSystem`, `RunsInSystem`, `FinalInSystem`). EditsStand rests on
  LoopsFollowFile: what a loop writes back is what is on disk. ShotOnce, half of
  OncePerDeath, needs to know that an enabled one shot, on disk or in
  a loop, has not fired yet (`ShotsAhead`), and that no revision of the future has
  (`RevsArePast`); ConfigFollowed needs that only the synchronisation writes what
  is on disk about config jobs (`ConfigWritten`).
* **NoticesProofs.** How often a request is under way is counted over five sequences
  (`UnderWay`), so lemmas about counting come first (`CountConcat`, `OnlyCount`,
  `InjectCount`, `AskedRemove`). The invariant is stated of the record that a delivery
  threads through its notes and not of the variables, which lets a lemma speak of half a
  delivery: `WakesKnown` ties a wake's marks to its one request, by the registration's
  number and as long as no other registration has the id; `JobsKnown` follows a job from
  the watcher's hand (what it has still to visit, what it collected) to the notice; what is
  held back needs a turn (`HeldKnown`). `NotesPolled`, `WakesPolled` and `FlushKeeps` say
  what a delivery keeps; then there is a lemma per action, which also shows how it lets a
  wake end (`WakesEnd`), and with it WakesEndRightly. TLC checked NoticesInv before, on the
  larger instance of section 4.
* **OutagesProofs.** *Checkpoints:* no copy of a goal is ahead of what became of it
  (`CopiesBehind`), so that writing one over another can only lose what is older;
  `ActiveInFile`, with the exceptions named, gives GoalsOutlast, and `PausedInFile`,
  which ties what a stop saved to file and time stamp, PausedIsRestored. *RemoteLink:*
  the invariant is about messages under way. `LinkInv` says on which connection they
  can be; `OneAtATime` that a command, opening or release has one message at most,
  which is the one its call awaits; `RunsToldRight` that a command whose request is
  under way has not run, but for a first run that was misread (RemoteRuns). Four kinds of steps (`Quiet`, `Sends`, `WorkerHandles`,
  `Reads`) keep it, and each action is one of them. `NotCrossed`, `OpenedLast`,
  `HeardOpen` and `NoClose` follow openings and closings of one workspace in the queue
  and the answers on their way back (RemoteUse);
  `FilesInv` the chunks of a push, whose bytes count only while its own connection
  lives (RemoteFiles).
* **FrontsProofs.** *KeyPool:* `PassedBy` orders the keys by how far they are ahead of
  the one used last (`AheadOf`): what the round-robin has passed is used or was
  blocked. *Forum:* `TurnOfTask` says what each stage of a reply means for its turn,
  `SightKnown` that a mark, in memory or on disk, is never ahead of the tasks, and
  `StopEnds` that a stop leaves room for the end. *Gateway:* `TurnHeld` and
  `InjectHeld` give the place of a result from its turn and its handler, `QueuesOnce`
  that no queue has it twice.
* **ToolsProofs.** *Questions:* a future, its registration and what was said to its
  call agree (`OpenIsAwaited`, `SetIsSaid`, `OneSaid`), and permission comes from what
  was said (`RunsAllowed`). *Shell:* `TracesOfCalls` says whose inputs and outputs may
  be in the pipe, `CapturesShow` what a capture read from it must show, `LastHoldsKept` what of it the
  last snapshot holds. *Messages:*
  `LinesHold` gives each request its one place in one line, `WaitsKnown` what the
  future of a waiting tool means, `StruckKnown` where cancellations come from. *Mcp:*
  `Counted` has a server's count as the number of cores that list it plus the
  jobs that have taken theirs off the list or not yet on it; that the two are apart
  needs the places of the jobs (`JobsKnown`, `LoadsKnown`, `ClosesKnown`).

**Proved and therefore not listed in a run**: the TypeOK of all modules with proofs,
SessionSerial, SkipNeverNeeded (KernelScheduler), LostOnlyToRace (CorePool),
RevivedOnlyByRace, EndIsFinal (Subagents), OneRunning, RunsOncePerLife, FinishedIsFinal
(AgentTasks), ConfigFollowed (Automation).

**Only model-checked.** All liveness (NothingHangs, CoresEnd, EndIsHeard, WorkGetsDone,
FrontsEnd, WaitsEnd): leads-to under fairness and ENABLED are out of the prover's
reach. Every safety property that a passing run checks is a theorem.
No module declares a
RECURSIVE operator, so none is excluded from proof for that reason.

## 7. Where code and documentation part

### Shown by a run

| Run | Where | What happens |
|---|---|---|
| `conversation_compress` | `kernel.py` `compress_context` | /compress does not take the session lock: it splits the messages, awaits the summary and replaces them by what it had split. A call stored meanwhile vanishes, its result is kept and stands behind an older call's result in every later request, which `_strip_orphan_tool_messages` says it removes. |
| `forum_keys` | `client.py` `get_post_with_read_fallback` | the loop over the keys ends at one it has used before, but the next key is counted from the one any request used last: with another reply reading at the same time a post is given up as unreadable although a key that may read it was never used. |
| `shell_timeout` | `bash_runtime.py` `start` | the daemon looks for the snapshot in its own directory, the new shell sources the same path in its own, and errors are discarded. With the defaults (a relative `snapshot_dir`, an isolated working directory) a command's time-out loses what the last snapshot holds; comment, configuration and a test (with an absolute path) say it is restored. |

### Divergences: true of the code as written, part of the models or left out, no run

*Scheduler, pool, subagents, automation*

* *A lost waiter*: a task cancelled before its first step or while it waits for
  the session lock does not publish (`_run_and_route`); its caller's future stays
  pending although the class comment promises results through it
  (AnsweredWhenOver).
* *A lost wake*: a wake still queued when its session is cancelled is dropped
  without being released, so it is neither delivered nor polled again
  (WakeReleasedWhenOver; `SkipNeverNeeded` is proved). The same holds for a killed
  task: its wake stays staged for ever, unlike `abort_wake_delivery` says.
* *A double load*: `evict` deletes the load lock after its awaits, under a call
  that holds it by then; the next caller makes a new lock and loads a second core
  (SingleLoad).
* *The TTL loop evicts sessions in flight*: they are filtered once, before the
  evictions are awaited one by one (TtlSparesInflight).
* *An orphan waiter*: a cancelled wait leaves its future registered; the end of
  the sub is handed to it and no report is injected (SkippedOnlyForWait).
* *A one shot in `config.yaml`* is enabled again by every synchronisation and
  fires at every reload (OneShotStops).
* *Requests that arrive after a cancellation are dropped* while older queued ones
  keep the mark alive (KernelScheduler has it; MarkDiesWithLast bounds it).
* *Capacity is checked before the load is awaited*, so loads of several sessions
  together exceed `max_sessions` (CorePool has it).
* *`stop()` cancels the TTL task in the middle of an eviction*: the entry is out
  of the pool and its core is never closed (fate `dropped` in CorePool).
* *cancel_sub* waits while the background task it has cancelled evicts the very
  entry; that eviction finds the sub still "running", enters no zombie, and a
  later reap answers SUBAGENT_NOT_FOUND (FindableUntilReaped exempts cancelled
  subs).
* *Held reports are lost* when the parent's turn is cancelled, and a
  `wait_mode=all` that times out returns none of the ends it knew of
  (EndsAnnounced names both: `dropped`, `abandoned`).
* *Two reports flushed together*: the second has passed its check when the first
  one's turn waits for or reaps that sub, and is delivered all the same
  (NotToldTwice speaks of reports that had not begun).
* *The last line of `evict` inserts the zombie again* without looking whether it
  was reaped meanwhile, and a sub loaded again by a message has a live entry when
  it is reaped (RevivedOnlyByRace says these are the only ways back).
* *An empty job list in `config.yaml`* is not synchronised (`if not jobs: return`),
  so a removed last job stays enabled, unlike
  `src/tests/test_automation_config_sync.py:80` promises (ConfigFollowed exempts it).
* *The consumer ends* on a CancelledError answer and *waits on* for a request that
  is never answered (WorkGetsDone exempts both; the cause is the lost waiter).
* *A one-shot loop writes back the definition it began with*, over one created
  under the same name since the last reload (EditsStand says that it does so until then
  and no longer; WorkGetsDone exempts it).
* Left out: a push that raises still disables the one shot; `log_task_end` raising
  turns success into failed; a death inside the in-place write of the JSON file
  leaves one that parses as empty; wall clock against monotonic clock may fire a
  periodic job twice; `start_time` of an interval job is anchored anew each day.

*Conversation and checkpoints*

* A rollback, or a /compress that is under way, undoes a /clear. Goal checks and
  notices count as user turns and push the question out of the part a fold keeps.
* Rows that another process writes during a turn are hidden for ever by the turn's
  own higher row (HistoryKept exempts them). A turn that exhausts its iterations
  registers two goal-check wakes. A remote workspace is forgotten at a restart.
* One file for all sessions of an owner: evicting one marks whichever checkpoint
  is there, and goals salvaged from an expired one go to whichever session loads
  first, although `goals/store.py` calls itself session-scoped (GoalsStayHome).
  `_load` deletes the expired file before any turn writes the goals again.
* The stop writes its time stamp before the checkpoints, so the time elapsed at
  the next start is zero and a paused session always resumes with its time begun
  anew. A command's eviction may mark a file after its flush (PausedResumes exempts
  it). Goals that are completed pin their session too.

*Wakes and jobs*

* An id used again: the old turn's confirmation removes the new registration. A
  wake cancelled after its request was queued runs all the same.
* A notice of a job is the only copy once it is queued, and a cancellation of the
  session drops it. A job stopped by the agent may still be announced
  (StopSilences; `suppress_job_notification` and `bash_tool.py:1254` say it will
  not). A worker that restarted forgets its jobs, which are announced as failed.
* The worker handles one message at a time: a 10 s request may time out and be
  executed later.

*Tools*

* A click that was accepted ("已批准") can be overruled by a time-out or a
  cancellation that lands before the tool goes on. An `ask_user` batch that timed
  out stays in the registry for ever; answering a whole batch drops single
  answers accepted before. When saving fails between two prefixes the earlier ones
  stay saved although the call reports ACL_PERSIST_FAILED.
* `src/pyproject.toml:10` says Python 3.11 will do, `workspace_paths.py` needs 3.12.
* Two agents that require each other's reply block both sessions until the
  time-out; so does a query to oneself. A message already in line when
  `wait_for_agent_message` begins does not wake it, one that does wake it runs as
  a turn as well and may be answered twice. A replier is told "已唤醒" even if a
  time-out lands in the same round. `stop()` waits for turns whose replies can no
  longer come.
* MCP: a load cancelled while it connects leaves its processes (`close` does
  nothing while `connected` is false, and the `try` does not cover
  `__aenter__`); a close that is cancelled, or aborted by anyio because another
  task started the process, leaves the rest of its keys (CountedRight calls these
  `lost`). A detach whose stop raises leaves the name, and a later attach reports
  success without tools. Two overlapping attaches take two references of which a
  detach returns one.
* Shell: with `snapshot_enabled` (off by default) and a path the shell finds, a restart
  by the tool restores the environment it has just saved, although tool text and answer
  say it clears it; the test that asserts the clearing
  (`src/tests/test_bash_runtime.py:64`) has a relative path the shell does not find.
  A capture is cut at 50,000 characters, leftovers of cancelled commands included, and
  loses values of several lines. No snapshot of an evicted core is ever restored, since a new core starts
  without one; `snapshot_dir` keeps three files for all cores, so others delete
  this one's; a failed capture forgets the last good snapshot; a cancelled
  command's output and end marker are read as the next one's; a turn that goes on
  after its core was closed starts a shell nobody closes.

*Remote worker*

* A command whose own stderr has the words "remote session is not open" is taken for one
  that did not run: it is run a second time or reported as not run (RunsOnce counts it
  as `misread`). An opening that fails on the worker has closed the session before, while
  the daemon goes on holding it for active (UseHolds exempts it: `fresh`).
* A push keeps the connection it looked up and waits for its time-out after a
  replacement. Overlapping releases remove a newer activation. A command that is
  under way when the workspace is released opens it again. An expired activation
  does not close the worker's session. Two commands may both reopen. A cancelled
  pull leaves its `.part` file at the daemon, an abandoned push its temporary file
  at the worker until the connection ends.

*Gateway and front ends*

* Feishu's forwarder makes a new client id for every poll, so the recoveries kept
  under the turn's client id are never fetched ("Poll completed run_turn_stream
  results whose original IPC stream died."). The dashboard has one id per user:
  two tabs' switches and turns interleave (Gateway has it: `ran` may differ from `WantOf`), `app.js`
  takes only the first of several recoveries, and a disconnected browser's IPC
  task reads on, so that the server buffers nothing for it.
* A poll empties the buffer before its answer is written: a lost answer is a lost
  result. A result that could not be sent on is not tried again. Pushes of
  sessions nobody subscribed to are dropped. A forwarder round ends at the first
  session that was deleted.
* Left out: deletion and expiry of sessions. A session can be deleted under its
  running turn, which then writes history again, and `ipc.stop()` waits for every
  open connection on Python 3.12.1 and later.
* Forum: "首次运行只初始化，不处理" holds of the lists that answer; one that fails at
  first is taken for new later (HistoryLeftAlone). A post on a list that fails while a
  newer one is seen is passed over for good, and a watched post that cannot be read
  counts as seen (MentionsHandled calls both excused). A post is marked before its
  task has done anything, so a death loses it. A poll that finds a newer reply drops
  the reports it has just taken out of the daemon's buffer, although the comment at
  `_SHUIYUAN_INJECT_REPLY_GEN` expects the newer reply to get them. With a failed
  connection the turn goes on and nobody posts its answer. A read that meets the
  limit of the day ends with an error and neither blocks the key nor tries the next.
  Left out: the file of the keys' state is written by the pools of all replies, the
  last writer's blocks and index win.

## 8. What is abstracted

Time (a timeout, an expiry or a due time may come at any moment its code allows;
`Checkpoints` counts it in a few units),
contents of requests, prompts and results, logging, summaries, token accounting,
listeners' callbacks, profiles and permissions of subagents, merging of equally
named job definitions, periodic schedules (a periodic loop may fire at any time).
SQLite statements and single file writes are atomic and, but for the grants of
`Questions`, do not fail. A flush
injects at most one request per step in KernelScheduler (Subagents and Notices have flushes of
any size). A turn has its inside in `Conversation` only: elsewhere it is one
action, or a place where a tool waits. Each module has its own small picture of its
neighbours (the scheduler's queue in `Notices` and `Messages`, the answers of the
kernel in `AgentTasks` and `Gateway`), always one that allows whatever the
neighbour's module can do.

In `Conversation` token counts, the shrinking of tool results and model switching
are left out: any iteration may find the window too full; one /compress at a time
waits for its summary. In `Shell` aliases,
functions and unset are, in `RemoteLink` base64 transfers, single file calls and
remote MCP calls, in `Mcp` servers that are not shared, in `Gateway` polling
clients other than the two, in `Forum` posts that turn out to need no answer, in `Notices` output files and the inbox.

Unbounded counters are bounded by guards: `MaxCancels`, `MaxWaits`,
`MaxTasks`, `MaxDowns`, `MaxEdits`, `MaxTime`, `MaxTurns`, `MaxIterations`,
`MaxNudges`, `MaxCalls`, `MaxRegs`, `MaxUsers`, `MaxMsgs`, `MaxConns`, `MaxDeaths`,
`MaxExpiries`, `LastPost`, `MaxLimits`, `Scenarios`. `MaxIterations`, `MaxPush`, `MaxKept`, `MaxSessions`, `Keep`,
`RecoverKeep`, `RetryLimit`, `MaxReplies` are the code's own limits with small values.

## 9. Plan

Done: the scheduler, on which everything rests; what it drives (the pool, the
turn), what depends on both (subagents, messages, wakes and notices), what feeds it
(queue, automation, gateway, forum), what a tool waits for, and what has to outlast an
end (checkpoints, remote worker). Every safety property of these is proved. Next:

1. An abstract `ReportDelivery` (an end is announced once or reaped) that Subagents
   implements outside the races it exempts, with the refinement proved.
2. Deletion and expiry of sessions in `Gateway`, together with the history rows a
   running turn goes on to write; the tool working set as functions.
## 10. Running

```
tlc -workers 2 -config KernelScheduler.cfg MCKernelScheduler
tlapm KernelSchedulerProofs.tla
```

`PROJECT.json` names the module and configuration of every run.
