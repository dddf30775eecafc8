----------------------------- MODULE RemoteLink -----------------------------
(***************************************************************************)
(* The daemon's link to one remote worker (agent_core/remote/              *)
(* worker_registry.py, the websocket endpoint of remote_worker_server.py)  *)
(* and the worker at its other end (macchiato_remote/client.py), with the  *)
(* calls made over it for one session: commands, opening and releasing the *)
(* remote workspace, files pushed to the worker and files pulled from it.  *)
(*                                                                         *)
(* A connection can break at any time; the worker reconnects, and may do   *)
(* so before the daemon has noticed the end of the old connection.  A      *)
(* connection carries its messages in order, and what is under way when it *)
(* breaks is lost.  The worker handles one message after the other.        *)
(***************************************************************************)
EXTENDS Integers, FiniteSets, SequencesExt

CONSTANTS
    Execs,      \* commands of the agent, by _remote_exec_with_reopen
    Uses,       \* remote_workspace_use
    Releases,   \* remote_workspace_release, and the release at an eviction
    Evictions,  \* those of Releases that are evictions
    Pushes,     \* blob_push_from_path
    Pulls,      \* blob_pull_to_path
    Chunks,     \* chunks of every file
    MaxConns,   \* bound on the connections the worker makes
    MaxDeaths,  \* bound on the restarts of the worker
    MaxExpiries \* bound on the expiries of the workspace state

Callers == Execs \cup Uses \cup Releases \cup Pushes \cup Pulls
Conns == 1..MaxConns

ASSUME RemoteAssumption ==
    /\ Evictions \subseteq Releases
    /\ Chunks \in Nat \ {0} /\ MaxConns \in Nat
    /\ MaxDeaths \in Nat /\ MaxExpiries \in Nat
    /\ Execs \cap (Uses \cup Releases \cup Pushes \cup Pulls) = {}
    /\ Uses \cap (Releases \cup Pushes \cup Pulls) = {}
    /\ Releases \cap (Pushes \cup Pulls) = {} /\ Pushes \cap Pulls = {}

VARIABLES
    made,      \* connections the worker has made so far
    live,      \* the connection the worker listens on, 0 between two of them
    ended,     \* connections whose endpoint in the daemon has ended
    registered,\* RemoteWorkerRegistry._connections, 0 when there is none
    down, up,  \* messages under way to the worker and to the daemon
    pc,        \* where each call stands
    on,        \* the connection whose pending (or stream_sessions) the call is in
    held, sent,\* the connection a push goes on using, and the chunks it has sent
    active,    \* the session's RemoteWorkspaceState exists
    open,      \* the worker's _sessions has the session
    part,      \* chunks in the temporary file of a transfer; -1 when there is none
    whole,     \* transfers whose destination has the whole file
    ran,       \* history: how often the worker ran each command
    misread,   \* history: commands that ran and whose own stderr says "not open"
    crossing,  \* history: releases that were under way while an opening was
    fresh,     \* history: the worker has not restarted, nor failed to open the
               \* workspace again, since it last opened it
    deaths, expiries

linkVars == <<made, live, ended, registered>>
workerVars == <<open, fresh, ran, misread>>
stateVars == <<active, crossing>>
bounds == <<deaths, expiries>>
pushVars == <<held, sent>>
vars == <<linkVars, down, up, pc, on, pushVars, stateVars, workerVars, part, whole, bounds>>

-----------------------------------------------------------------------------
(* Calls *)

\* States in which a call awaits an answer to the message of that name.
Awaiting == {"exec", "open", "again", "close", "push_begin", "push_end", "pull"}
Over == {"ok", "not_open", "used", "released", "pushed", "pulled", "failed"}

UnderWay(k) == pc[k] \notin {"idle", "cancelled"} \cup Over

Message(k, step) == [call |-> k, step |-> step]
Chunk(k, seq) == [call |-> k, step |-> "chunk", seq |-> seq]
Reply(k, step, fine) == [call |-> k, step |-> step, fine |-> fine]

\* What an exception, or a time-out, of the awaited request leads to.
\* (Slip: a command whose answer did not come is sent again.)
AfterErrorAgain(k) ==
    CASE k \in Releases -> "released"
      [] pc[k] = "open" /\ k \in Execs -> "not_open"
      [] k \in Execs -> "idle"
      [] OTHER -> "failed"

AfterError(k) ==
    CASE k \in Releases -> "released"
      [] pc[k] = "open" /\ k \in Execs -> "not_open"
      [] OTHER -> "failed"

\* fail_pending of connection c.
Failing(c) == {k \in Callers : on[k] = c /\ c # 0}
Fail(failing) ==
    /\ pc' = [k \in Callers |-> IF k \in failing THEN AfterError(k) ELSE pc[k]]
    /\ on' = [k \in Callers |-> IF k \in failing THEN 0 ELSE on[k]]
    /\ part' = [k \in Pushes \cup Pulls |-> IF k \in failing \cap Pulls THEN -1 ELSE part[k]]

\* RemoteWorkerConnection.request on connection c, for a call that reaches `step`.
\* A send fails once the endpoint has ended; before that it may well be for nothing.
Request(k, c, step) ==
    IF c = 0 \/ c \in ended
    THEN /\ pc' = [pc EXCEPT ![k] = CASE k \in Releases -> "released"
                                      [] k \in Execs /\ step = "open" -> "not_open"
                                      [] OTHER -> "failed"]
         /\ on' = [on EXCEPT ![k] = 0]
         /\ UNCHANGED down
    ELSE /\ pc' = [pc EXCEPT ![k] = step]
         /\ on' = [on EXCEPT ![k] = c]
         /\ down' = IF c = live THEN [down EXCEPT ![c] = Append(@, Message(k, step))] ELSE down

-----------------------------------------------------------------------------
Init ==
    /\ made = 0 /\ live = 0 /\ ended = {} /\ registered = 0
    /\ down = [c \in Conns |-> <<>>] /\ up = [c \in Conns |-> <<>>]
    /\ pc = [k \in Callers |-> "idle"]
    /\ on = [k \in Callers |-> 0]
    /\ held = [k \in Pushes |-> 0] /\ sent = [k \in Pushes |-> 0]
    /\ active = FALSE /\ open = FALSE
    /\ part = [k \in Pushes \cup Pulls |-> -1]
    /\ whole = {}
    /\ ran = [k \in Execs |-> 0] /\ misread = {}
    /\ crossing = {} /\ fresh = TRUE
    /\ deaths = 0 /\ expiries = 0

-----------------------------------------------------------------------------
(* Connections *)

\* run_forever connects; worker_endpoint registers, which fails what the old one owes.
Connect ==
    /\ live = 0 /\ made < MaxConns
    /\ made' = made + 1
    /\ live' = made + 1
    /\ registered' = made + 1
    /\ Fail(Failing(registered))
    /\ UNCHANGED <<ended, down, up, pushVars, stateVars, workerVars, whole, bounds>>

\* The worker loses its connection: _abort_push_sessions.
\* (Slip: it does not abort them.)
LoseKeeps ==
    /\ live # 0
    /\ live' = 0
    /\ down' = [down EXCEPT ![live] = <<>>]
    /\ UNCHANGED part

Lose ==
    /\ live # 0
    /\ live' = 0
    /\ down' = [down EXCEPT ![live] = <<>>]
    /\ part' = [k \in Pushes \cup Pulls |-> IF k \in Pushes THEN -1 ELSE part[k]]

Break ==
    /\ Lose
    /\ UNCHANGED <<made, ended, registered, up, pc, on, pushVars, stateVars, workerVars,
                   whole, bounds>>

WorkerDies ==
    /\ deaths < MaxDeaths
    /\ deaths' = deaths + 1
    /\ Lose
    /\ open' = FALSE
    /\ fresh' = FALSE
    /\ UNCHANGED <<made, ended, registered, up, pc, on, pushVars, active, crossing, ran,
                   misread, whole, expiries>>

\* unregister: only the connection that is registered goes, with what it owes.
\* (Slip: whatever connection is registered goes.)
UnregisterAny(c) ==
    /\ registered' = 0
    /\ Fail(Failing(registered))

Unregister(c) ==
    /\ registered' = IF registered = c THEN 0 ELSE registered
    /\ Fail(IF registered = c THEN Failing(c) ELSE {})

\* The daemon notices that a connection is gone: the finally block of worker_endpoint.
EndpointEnds(c) ==
    /\ c \in 1..made /\ c # live /\ c \notin ended
    /\ ended' = ended \cup {c}
    /\ up' = [up EXCEPT ![c] = <<>>]
    /\ Unregister(c)
    /\ UNCHANGED <<made, live, down, pushVars, stateVars, workerVars, whole, bounds>>

-----------------------------------------------------------------------------
(* Calls begin *)

Begin(k, step) ==
    /\ pc[k] = "idle"
    /\ Request(k, registered, step)
    /\ UNCHANGED <<linkVars, up, active, workerVars, whole, bounds>>

\* The bash tool of a session whose workspace is remote.
Exec(k) == k \in Execs /\ active /\ Begin(k, "exec") /\ UNCHANGED <<pushVars, crossing, part>>

Use(k) ==
    /\ k \in Uses /\ Begin(k, "open")
    /\ crossing' = crossing \cup {r \in Releases : UnderWay(r)}
    /\ UNCHANGED <<pushVars, part>>

\* blob_push_from_path; the connection is looked up once.
Push(k) ==
    /\ k \in Pushes /\ active
    /\ Begin(k, "push_begin")
    /\ held' = [held EXCEPT ![k] = registered]
    /\ UNCHANGED <<sent, crossing, part>>

Pull(k) == k \in Pulls /\ active /\ Begin(k, "pull") /\ UNCHANGED <<pushVars, crossing, part>>

\* A release first detaches the MCP servers; an eviction only when there is a state.
Release(k) ==
    /\ k \in Releases
    /\ pc[k] = "idle"
    /\ k \in Evictions => active
    /\ pc' = [pc EXCEPT ![k] = "detach"]
    /\ crossing' = crossing \cup {r \in {k} : \E u \in Uses : UnderWay(u)}
    /\ UNCHANGED <<linkVars, down, up, on, pushVars, active, workerVars, part, whole, bounds>>

\* release_remote_workspace, then close_workspace if there was a state.
Detached(k) ==
    /\ pc[k] = "detach"
    /\ active' = FALSE
    /\ IF active THEN Request(k, registered, "close")
       ELSE pc' = [pc EXCEPT ![k] = "released"] /\ UNCHANGED <<on, down>>
    /\ UNCHANGED <<linkVars, up, pushVars, crossing, workerVars, part, whole, bounds>>

\* get_remote_workspace_state drops a state past its time, and tells nobody.
Expire ==
    /\ active /\ expiries < MaxExpiries
    /\ expiries' = expiries + 1
    /\ active' = FALSE
    /\ UNCHANGED <<linkVars, down, up, pc, on, pushVars, crossing, workerVars, part,
                   whole, deaths>>

-----------------------------------------------------------------------------
(* The worker handles the next message *)

\* _execute, _open_workspace, _close_workspace, _blob_push_begin, _handle_binary,
\* _blob_push_end and _blob_pull.  A path may turn out not to be a directory or a file.
\* A workspace that is opened again is closed first: if its shell then does not start,
\* none is open.  The first answer to a command reads as "not open" also when the
\* command ran and printed those words to its stderr (_is_remote_session_not_open_result).
Handle(m) ==
    LET k == m.call
        Says(replies) == up' = [up EXCEPT ![live] = @ \o replies]
    IN
    \/ /\ m.step = "exec"
       /\ ran' = [ran EXCEPT ![k] = IF open THEN @ + 1 ELSE @]
       /\ \E misleads \in {FALSE, open} :
            /\ misread' = IF misleads THEN misread \cup {k} ELSE misread
            /\ Says(<<Reply(k, "exec", open /\ ~misleads)>>)
       /\ UNCHANGED <<open, fresh, part, whole>>
    \/ /\ m.step = "again"
       /\ ran' = [ran EXCEPT ![k] = IF open THEN @ + 1 ELSE @]
       /\ Says(<<Reply(k, "again", open)>>)
       /\ UNCHANGED <<open, fresh, misread, part, whole>>
    \/ /\ m.step = "open"
       /\ \E result \in {"opened", "no_directory", "not_started"} :
            /\ open' = (result = "opened" \/ (result = "no_directory" /\ open))
            /\ fresh' = (result = "opened" \/ (result = "no_directory" /\ fresh))
            /\ Says(<<Reply(k, "open", result = "opened")>>)
       /\ UNCHANGED <<ran, misread, part, whole>>
    \/ /\ m.step = "close"
       /\ open' = FALSE
       /\ Says(<<Reply(k, "close", TRUE)>>)
       /\ UNCHANGED <<fresh, ran, misread, part, whole>>
    \/ /\ m.step = "push_begin"
       /\ part' = [part EXCEPT ![k] = IF open THEN 0 ELSE -1]
       /\ Says(<<Reply(k, "push_begin", open)>>)
       /\ UNCHANGED <<workerVars, whole>>
    \/ /\ m.step = "chunk"
       /\ part' = [part EXCEPT ![k] = IF @ = m.seq THEN @ + 1 ELSE -1]
       /\ Says(IF part[k] \in {-1, m.seq} THEN <<>> ELSE <<Reply(k, "push_end", FALSE)>>)
       /\ UNCHANGED <<workerVars, whole>>
    \/ /\ m.step = "push_end"
       /\ part' = [part EXCEPT ![k] = -1]
       /\ whole' = IF part[k] = Chunks THEN whole \cup {k} ELSE whole
       /\ Says(<<Reply(k, "push_end", part[k] = Chunks)>>)
       /\ UNCHANGED workerVars
    \/ /\ m.step = "pull"
       /\ \E fine \in {FALSE, open} :
            Says((IF fine THEN <<Reply(k, "pull_begin", TRUE)>>
                               \o [i \in 1..Chunks |-> Chunk(k, i - 1)]
                  ELSE <<>>)
                 \o <<Reply(k, "pull_end", fine)>>)
       /\ UNCHANGED <<workerVars, part, whole>>

WorkerHandles ==
    /\ live # 0 /\ down[live] # <<>>
    /\ down' = [down EXCEPT ![live] = Tail(@)]
    /\ Handle(Head(down[live]))
    /\ UNCHANGED <<linkVars, pc, on, pushVars, stateVars, bounds>>

-----------------------------------------------------------------------------
(* The endpoint reads an answer: handle_message, handle_binary *)

Return(k, result) ==
    /\ pc' = [pc EXCEPT ![k] = result]
    /\ on' = [on EXCEPT ![k] = 0]
    /\ UNCHANGED down

\* A command is repeated after its workspace was reopened, once.
ExecAnswered(k, m) ==
    /\ CASE m.step # "open" /\ m.fine -> Return(k, "ok")
         [] m.step = "exec" /\ ~m.fine -> Request(k, registered, "open")
         [] m.step = "again" /\ ~m.fine -> Return(k, "not_open")
         [] m.step = "open" /\ m.fine -> Request(k, registered, "again")
         [] OTHER -> Return(k, "not_open")
    /\ UNCHANGED <<pushVars, stateVars, part, whole>>

\* (Slip: the state is set without a look at the answer.)
UseAnsweredBlindly(k, m) ==
    /\ Return(k, "used")
    /\ active' = TRUE
    /\ UNCHANGED <<pushVars, crossing, part, whole>>

UseAnswered(k, m) ==
    /\ Return(k, IF m.fine THEN "used" ELSE "failed")
    /\ active' = (active \/ m.fine)
    /\ UNCHANGED <<pushVars, crossing, part, whole>>

\* The chunks of a push are sent one by one, then its end, all on the same connection.
PushAnswered(k, m) ==
    /\ CASE ~m.fine -> Return(k, "failed")
         [] m.step = "push_begin" ->
              /\ pc' = [pc EXCEPT ![k] = "sending"]
              /\ on' = [on EXCEPT ![k] = 0]
              /\ UNCHANGED down
         [] OTHER -> Return(k, "pushed")
    /\ UNCHANGED <<pushVars, stateVars, part, whole>>

\* _PullSession.on_end: the temporary file becomes the destination, or goes.
PullAnswered(k, m) ==
    /\ CASE m.step = "pull_begin" -> /\ part' = [part EXCEPT ![k] = 0]
                                     /\ UNCHANGED <<pc, on, whole>>
         [] m.step = "chunk" /\ part[k] = m.seq -> /\ part' = [part EXCEPT ![k] = @ + 1]
                                                   /\ UNCHANGED <<pc, on, whole>>
         [] OTHER -> /\ part' = [part EXCEPT ![k] = -1]
                     /\ on' = [on EXCEPT ![k] = 0]
                     /\ IF m.step = "pull_end" /\ m.fine /\ part[k] = Chunks
                        THEN pc' = [pc EXCEPT ![k] = "pulled"] /\ whole' = whole \cup {k}
                        ELSE pc' = [pc EXCEPT ![k] = "failed"] /\ UNCHANGED whole
    /\ UNCHANGED <<down, pushVars, stateVars>>

\* The answer is for a request that this connection still owes.
Owed(c, m) ==
    /\ on[m.call] = c
    /\ m.step = pc[m.call] \/ pc[m.call] = "pull"

EndpointReads(c) ==
    /\ c \in 1..made /\ c \notin ended /\ up[c] # <<>>
    /\ up' = [up EXCEPT ![c] = Tail(@)]
    /\ LET m == Head(up[c]) k == m.call IN
       IF ~Owed(c, m) THEN UNCHANGED <<down, pc, on, pushVars, stateVars, part, whole>>
       ELSE CASE k \in Execs -> ExecAnswered(k, m)
              [] k \in Uses -> UseAnswered(k, m)
              [] k \in Releases -> /\ Return(k, "released")
                                   /\ UNCHANGED <<pushVars, stateVars, part, whole>>
              [] k \in Pushes -> PushAnswered(k, m)
              [] k \in Pulls -> PullAnswered(k, m)
    /\ UNCHANGED <<linkVars, workerVars, bounds>>

-----------------------------------------------------------------------------
(* The callers go on, give up, or are cancelled *)

\* A push looks up no other connection, be its own replaced or not.
Send(k) ==
    /\ k \in Pushes /\ pc[k] = "sending"
    /\ IF sent[k] = Chunks
       THEN Request(k, held[k], "push_end") /\ UNCHANGED sent
       ELSE IF held[k] \in ended
       THEN pc' = [pc EXCEPT ![k] = "failed"] /\ UNCHANGED <<on, down, sent>>
       ELSE /\ sent' = [sent EXCEPT ![k] = @ + 1]
            /\ down' = IF held[k] # live THEN down
                       ELSE [down EXCEPT ![live] = Append(@, Chunk(k, sent[k]))]
            /\ UNCHANGED <<pc, on>>
    /\ UNCHANGED <<linkVars, up, held, stateVars, workerVars, part, whole, bounds>>

\* The time-out of wait_for, and _PullSession._idle_watch.
TimeOut(k) ==
    /\ on[k] # 0
    /\ Fail({k})
    /\ UNCHANGED <<linkVars, down, up, pushVars, stateVars, workerVars, whole, bounds>>

\* The turn of the call is cancelled; the daemon's temporary file of a pull stays behind.
Cancel(k) ==
    /\ k \notin Releases
    /\ pc[k] \in Awaiting \cup {"sending"}
    /\ pc' = [pc EXCEPT ![k] = "cancelled"]
    /\ on' = [on EXCEPT ![k] = 0]
    /\ UNCHANGED <<linkVars, down, up, pushVars, stateVars, workerVars, part, whole, bounds>>

-----------------------------------------------------------------------------
Next ==
    \/ Connect \/ Break \/ WorkerDies \/ WorkerHandles \/ Expire
    \/ \E c \in Conns : EndpointEnds(c) \/ EndpointReads(c)
    \/ \E k \in Callers : \/ Exec(k) \/ Use(k) \/ Push(k) \/ Pull(k) \/ Release(k)
                          \/ Detached(k) \/ Send(k) \/ TimeOut(k) \/ Cancel(k)

Spec == Init /\ [][Next]_vars

-----------------------------------------------------------------------------
(* Properties *)

(* Every variable keeps its type.                                          *)
TypeOK ==
    /\ made \in 0..MaxConns /\ live \in 0..made /\ ended \subseteq 1..made
    /\ registered \in 0..made
    /\ pc \in [Callers -> {"idle", "detach", "sending", "cancelled"} \cup Awaiting \cup Over]
    /\ on \in [Callers -> 0..made] /\ held \in [Pushes -> 0..made]
    /\ sent \in [Pushes -> 0..Chunks]
    /\ active \in BOOLEAN /\ open \in BOOLEAN /\ fresh \in BOOLEAN
    /\ part \in [Pushes \cup Pulls -> -1..Chunks]
    /\ whole \subseteq Pushes \cup Pulls
    /\ ran \in [Execs -> Nat] /\ misread \subseteq Execs /\ crossing \subseteq Releases

\* How often a command has run, as far as its answers can tell.
Told == [k \in Execs |-> ran[k] - IF k \in misread THEN 1 ELSE 0]

(* The worker runs a command at most once, whatever is lost between the    *)
(* two and though a command is sent again after its workspace was          *)
(* reopened; a command the agent has the result of was run, and one it is  *)
(* told found no open workspace was not. Only a command that itself printed *)
(* "remote session is not open" was run once more than this, never twice   *)
(* more: its first answer is taken for one of a worker that ran nothing.   *)
RunsOnce ==
    \A k \in Execs : /\ Told[k] \in {0, 1}
                     /\ (pc[k] = "ok" => Told[k] = 1)
                     /\ (pc[k] = "not_open" => Told[k] = 0)

(* What the daemon holds to be connected is: the worker's connection is the *)
(* registered one, and only a push that looked it up before goes on waiting *)
(* on one that was given up. A remote workspace it holds to be in use is    *)
(* open on the worker - as long as the worker has neither restarted nor     *)
(* failed to open it again since it last opened it, and unless a release    *)
(* and an opening were under way at the same time.                          *)
UseHolds ==
    /\ (live # 0 => registered = live)
    /\ \A k \in Callers :
         /\ (on[k] # 0 <=> pc[k] \in Awaiting)
         /\ (on[k] \notin {0, registered} => k \in Pushes /\ on[k] = held[k])
    /\ active /\ fresh /\ crossing = {} => open

(* What is called transferred is there as a whole, and a temporary file is *)
(* not left behind: the worker's is gone with the connection of its push,  *)
(* the daemon's with the call, unless the call was cancelled.              *)
FilesWhole ==
    /\ \A k \in Pushes \cup Pulls : (pc[k] \in {"pushed", "pulled"} => k \in whole)
    /\ \A k \in Pushes : (part[k] >= 0 => held[k] = live)
    /\ \A k \in Pulls : (part[k] >= 0 => pc[k] \in {"pull", "cancelled"})
=============================================================================
