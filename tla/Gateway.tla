------------------------------- MODULE Gateway -------------------------------
(* How the result of a turn reaches the one who asked, or the one who watches:            *)
(* AutomationIPCServer (system/automation/ipc.py) between the front ends and the          *)
(* CoreGateway (core_gateway.py), which submits to the scheduler and listens on its       *)
(* OutputBus; and the two front ends that fetch what they did not get in the stream, the  *)
(* dashboard (frontend/dashboard) and Feishu's FeishuPushForwarder.                        *)
(*                                                                                        *)
(* A conversation's turn is an ipc request run_turn_stream: its handler binds the         *)
(* session that is active for the client's id, submits, waits for the result and writes   *)
(* it as the final event into the client's connection.  A client may leave at any time.   *)
(* The result of a turn nobody waits for (inject_turn) goes to the push buffer of its     *)
(* session, where the forwarder finds it.  The scheduler is external here: it answers     *)
(* every request once, by a result or an error (KernelScheduler).                         *)
EXTENDS Naturals, Sequences

CONSTANTS
    Turns,       \* messages of users, each a run_turn_stream
    Injects,     \* injected turns
    Sessions,
    Clients,     \* client ids
    Fetching,    \* client ids under which poll_stream_recoveries is called
    ClientOf,    \* the client id of a message: one per user of the dashboard,
                 \* one per message of Feishu
    WantOf,      \* the session a message, or an injected turn, is meant for
    MaxPush,     \* _PUSH_BUFFER_MAXLEN
    MaxKept,     \* _STREAM_RECOVERY_MAXLEN
    Nothing

Requests == Turns \cup Injects

ASSUME GatewayAssumption ==
    /\ Fetching \subseteq Clients /\ Turns \cap Injects = {}
    /\ ClientOf \in [Turns -> Clients] /\ WantOf \in [Requests -> Sessions]
    /\ MaxPush \in Nat \ {0} /\ MaxKept \in Nat \ {0}
    /\ Nothing \notin Sessions

VARIABLES
    active,      \* AutomationIPCServer._client_active_session
    far,         \* where the client stands
    call,        \* where the handler of run_turn_stream stands
    ran,         \* the handler's active_session, the one its turn runs in
    closed,      \* the handler's stream_closed
    kept,        \* _stream_recoveries_by_client
    out,         \* what the scheduler has said of a request
    pending,     \* CoreGateway._pending_submits
    subscribed,  \* CoreGateway._subscriptions
    buffer,      \* CoreGateway._push_buffers
    watched,     \* FeishuPushForwarder._registry
    todo,        \* sessions its round has still to poll
    at, hand,    \* the session it has polled, and the results it has still to send
    ended        \* history: results that were shown, or lost in a way named below

clientVars == <<active, far>>
handlerVars == <<call, ran, closed>>
busVars == <<out, pending, subscribed, buffer>>
forwarderVars == <<watched, todo, at, hand>>
vars == <<clientVars, handlerVars, kept, busVars, forwarderVars, ended>>

Init ==
    /\ active = [c \in Clients |-> Nothing]
    /\ far = [t \in Turns |-> "away"]
    /\ call = [t \in Turns |-> "none"]
    /\ ran = [t \in Turns |-> Nothing]
    /\ closed = [t \in Turns |-> FALSE]
    /\ kept = [c \in Clients |-> <<>>]
    /\ out = [r \in Requests |-> "none"]
    /\ pending = {} /\ subscribed = {}
    /\ buffer = [s \in Sessions |-> <<>>]
    /\ watched = {} /\ todo = {} /\ at = Nothing /\ hand = <<>>
    /\ ended = {}

Elements(q) == {q[i] : i \in 1..Len(q)}

\* A deque of bounded length: what it lets go to take one more in.
Pushed(q, r, max) == IF Len(q) < max THEN Append(q, r) ELSE Append(Tail(q), r)
Falls(q, max) == IF Len(q) < max THEN {} ELSE {q[1]}

-----------------------------------------------------------------------------
(* The client *)

\* session_switch: from now on the client's requests go to the session it wants.
Switch(t) ==
    /\ far[t] = "away"
    /\ far' = [far EXCEPT ![t] = "switched"]
    /\ active' = [active EXCEPT ![ClientOf[t]] = WantOf[t]]
    /\ UNCHANGED <<handlerVars, kept, busVars, forwarderVars, ended>>

\* run_turn_stream up to the submission: the handler fixes its session, subscribes to it
\* and marks the request as its own.
Run(t) ==
    LET s == active[ClientOf[t]] IN
    /\ far[t] = "switched"
    /\ far' = [far EXCEPT ![t] = "reading"]
    /\ call' = [call EXCEPT ![t] = "waiting"]
    /\ ran' = [ran EXCEPT ![t] = s]
    /\ subscribed' = subscribed \cup {s}
    /\ pending' = pending \cup {t}
    /\ out' = [out EXCEPT ![t] = "running"]
    /\ UNCHANGED <<active, closed, kept, buffer, forwarderVars, ended>>

\* The client goes away or gives up; a final event it has not read is gone with the socket.
Leave(t) ==
    /\ far[t] \in {"reading", "holds"}
    /\ far' = [far EXCEPT ![t] = "gone"]
    /\ ended' = IF far[t] = "holds" THEN ended \cup {t} ELSE ended
    /\ UNCHANGED <<active, handlerVars, kept, busVars, forwarderVars>>

\* The client reads the final event and shows it, or the way from there to the user fails
\* (Feishu's service, the browser's connection).  Feishu then watches the session.
Read(t) ==
    /\ far[t] = "holds"
    /\ far' = [far EXCEPT ![t] = "gone"]
    /\ ended' = ended \cup {t}
    /\ watched' = IF ClientOf[t] \in Fetching \/ out[t] = "empty" THEN watched
                  ELSE watched \cup {WantOf[t]}
    /\ UNCHANGED <<active, handlerVars, kept, busVars, todo, at, hand>>

-----------------------------------------------------------------------------
(* The bus *)

\* _on_session_output: a result nobody waits for is buffered for the session, if the
\* gateway listens to the session at all.
Listen(r, s) ==
    LET full == Falls(buffer[s], MaxPush) IN
    IF r \in pending THEN UNCHANGED <<buffer, ended>>
    ELSE IF s \notin subscribed THEN buffer' = buffer /\ ended' = ended \cup {r}
    ELSE /\ buffer' = [buffer EXCEPT ![s] = Pushed(@, r, MaxPush)]
         /\ ended' = ended \cup full

\* publish: the future first, then the listeners, in one step.
PublishTurn(t) ==
    /\ out[t] = "running"
    /\ out' = [out EXCEPT ![t] = "text"]
    /\ call' = [call EXCEPT ![t] = "resolved"]
    /\ Listen(t, ran[t])
    /\ UNCHANGED <<clientVars, ran, closed, kept, pending, subscribed, forwarderVars>>

\* A turn started by inject_turn ends; nobody waits for it.
PublishInject(i) ==
    /\ out[i] = "none"
    /\ out' = [out EXCEPT ![i] = "text"]
    /\ Listen(i, WantOf[i])
    /\ UNCHANGED <<clientVars, handlerVars, kept, pending, subscribed, forwarderVars>>

\* publish_error, of a turn that failed, was cancelled or was skipped; a turn with nothing
\* to say leaves no more behind.
PublishEmpty(t) ==
    /\ out[t] = "running"
    /\ out' = [out EXCEPT ![t] = "empty"]
    /\ call' = [call EXCEPT ![t] = "resolved"]
    /\ UNCHANGED <<clientVars, ran, closed, kept, pending, subscribed, buffer,
                   forwarderVars, ended>>

-----------------------------------------------------------------------------
(* The handler of run_turn_stream *)

\* An event of the running turn is sent into a connection that is gone.
Notice(t) ==
    /\ call[t] = "waiting" /\ far[t] = "gone" /\ ~closed[t]
    /\ closed' = [closed EXCEPT ![t] = TRUE]
    /\ UNCHANGED <<clientVars, call, ran, kept, busVars, forwarderVars, ended>>

\* _buffer_stream_recovery
Keep(t) ==
    LET c == ClientOf[t] IN
    IF out[t] # "text" THEN UNCHANGED <<kept, ended>>
    ELSE /\ kept' = [kept EXCEPT ![c] = Pushed(@, t, MaxKept)]
         /\ ended' = ended \cup Falls(kept[c], MaxKept)

\* The wait is over and the stream is known to be dead: no event is sent any more.
\* (Slip: recovery_sent is left out, and the failed final event keeps the result again.)
ResumeClosedTwice(t) ==
    /\ call[t] = "resolved" /\ closed[t]
    /\ call' = [call EXCEPT ![t] = "over"]
    /\ pending' = pending \ {t}
    /\ kept' = IF out[t] # "text" THEN kept
               ELSE [kept EXCEPT ![ClientOf[t]] = @ \o <<t, t>>]
    /\ closed' = [closed EXCEPT ![t] = FALSE]
    /\ UNCHANGED <<ended, clientVars, ran, out, subscribed, buffer, forwarderVars>>

ResumeClosed(t) ==
    /\ call[t] = "resolved" /\ closed[t]
    /\ call' = [call EXCEPT ![t] = "over"]
    /\ pending' = pending \ {t}
    /\ Keep(t)
    /\ closed' = [closed EXCEPT ![t] = FALSE]
    /\ UNCHANGED <<clientVars, ran, out, subscribed, buffer, forwarderVars>>

\* The final event is written: the client has it, or the writing waits for the client to
\* make room.
\* (Slip: only a result is sent, not what became of a turn that failed.)
ResumeWritesResults(t) ==
    /\ call[t] = "resolved" /\ ~closed[t] /\ far[t] = "reading"
    /\ \/ /\ call' = [call EXCEPT ![t] = "over"]
          /\ far' = IF out[t] = "empty" THEN far ELSE [far EXCEPT ![t] = "holds"]
       \/ /\ call' = [call EXCEPT ![t] = "sending"]
          /\ UNCHANGED far
    /\ pending' = pending \ {t}
    /\ UNCHANGED <<active, ran, closed, kept, out, subscribed, buffer,
                   forwarderVars, ended>>

ResumeWrites(t) ==
    /\ call[t] = "resolved" /\ ~closed[t] /\ far[t] = "reading"
    /\ \/ /\ call' = [call EXCEPT ![t] = "over"]
          /\ far' = [far EXCEPT ![t] = "holds"]
       \/ /\ call' = [call EXCEPT ![t] = "sending"]
          /\ UNCHANGED far
    /\ pending' = pending \ {t}
    /\ UNCHANGED <<active, ran, closed, kept, out, subscribed, buffer,
                   forwarderVars, ended>>

\* The loss shows when the final event is written, or while that waits for room.
ResumeFails(t) ==
    /\ call[t] \in {"resolved", "sending"} /\ ~closed[t] /\ far[t] = "gone"
    /\ call' = [call EXCEPT ![t] = "over"]
    /\ pending' = pending \ {t}
    /\ Keep(t)
    /\ UNCHANGED <<clientVars, ran, closed, out, subscribed, buffer, forwarderVars>>

Drained(t) ==
    /\ call[t] = "sending" /\ far[t] = "reading"
    /\ call' = [call EXCEPT ![t] = "over"]
    /\ far' = [far EXCEPT ![t] = "holds"]
    /\ UNCHANGED <<active, ran, closed, kept, busVars, forwarderVars, ended>>

\* poll_stream_recoveries empties the queue; the page shows the first result and drops the
\* others, if the answer arrives.
Fetch(c) ==
    /\ c \in Fetching /\ kept[c] # <<>>
    /\ kept' = [kept EXCEPT ![c] = <<>>]
    /\ ended' = ended \cup Elements(kept[c])
    /\ UNCHANGED <<clientVars, handlerVars, busVars, forwarderVars>>

-----------------------------------------------------------------------------
(* FeishuPushForwarder *)

RoundBegins ==
    /\ todo = {} /\ hand = <<>> /\ watched # {}
    /\ todo' = watched
    /\ UNCHANGED <<clientVars, handlerVars, kept, busVars, watched, at, hand, ended>>

\* session_switch and poll_push, which empties the buffer.
Poll(s) ==
    /\ s \in todo /\ hand = <<>>
    /\ todo' = todo \ {s}
    /\ at' = IF buffer[s] = <<>> THEN Nothing ELSE s
    /\ hand' = buffer[s]
    /\ buffer' = [buffer EXCEPT ![s] = <<>>]
    /\ UNCHANGED <<clientVars, handlerVars, kept, out, pending, subscribed, watched, ended>>

\* One of the two requests fails, and with it the round; what the buffer held may have
\* been on its way.
PollFails(s) ==
    /\ s \in todo /\ hand = <<>>
    /\ todo' = {}
    /\ \/ UNCHANGED <<buffer, ended>>
       \/ /\ buffer' = [buffer EXCEPT ![s] = <<>>]
          /\ ended' = ended \cup Elements(buffer[s])
    /\ UNCHANGED <<clientVars, handlerVars, kept, out, pending, subscribed, watched, at, hand>>

\* _send_result_payload, and after the last one the session is watched longer if any was
\* sent.
Send ==
    /\ hand # <<>>
    /\ hand' = Tail(hand)
    /\ at' = IF Len(hand) = 1 THEN Nothing ELSE at
    /\ ended' = ended \cup {hand[1]}
    /\ watched' \in {watched, watched \cup {at}}
    /\ UNCHANGED <<clientVars, handlerVars, kept, busVars, todo>>

\* The time of a registration runs out.
Expires(s) ==
    /\ s \in watched
    /\ watched' = watched \ {s}
    /\ UNCHANGED <<clientVars, handlerVars, kept, busVars, todo, at, hand, ended>>

-----------------------------------------------------------------------------
Handler(t) == ResumeClosed(t) \/ ResumeWrites(t) \/ ResumeFails(t) \/ Drained(t)
Answer(t) == PublishTurn(t) \/ PublishEmpty(t)

Next ==
    \/ \E t \in Turns : Switch(t) \/ Run(t) \/ Leave(t) \/ Read(t) \/ Answer(t)
                        \/ Notice(t) \/ Handler(t)
    \/ \E i \in Injects : PublishInject(i)
    \/ \E c \in Clients : Fetch(c)
    \/ RoundBegins \/ Send
    \/ \E s \in Sessions : Poll(s) \/ PollFails(s) \/ Expires(s)

\* The scheduler answers (KernelScheduler), the loop runs what is ready, clients that stay
\* read, pages ask for what was kept and the forwarder polls at its interval; its requests
\* do not fail for ever.
FairGateway ==
    /\ \A t \in Turns : WF_vars(Answer(t)) /\ WF_vars(Handler(t)) /\ WF_vars(Read(t))
    /\ \A c \in Clients : WF_vars(Fetch(c))
    /\ WF_vars(RoundBegins) /\ WF_vars(Send)
    /\ \A s \in Sessions : SF_vars(Poll(s))

Spec == Init /\ [][Next]_vars

-----------------------------------------------------------------------------
(* Properties *)

\* Types.
TypeOK ==
    /\ active \in [Clients -> Sessions \cup {Nothing}]
    /\ far \in [Turns -> {"away", "switched", "reading", "holds", "gone"}]
    /\ call \in [Turns -> {"none", "waiting", "resolved", "sending", "over"}]
    /\ ran \in [Turns -> Sessions \cup {Nothing}]
    /\ closed \in [Turns -> BOOLEAN]
    /\ out \in [Requests -> {"none", "running", "text", "empty"}]
    /\ pending \subseteq Turns /\ subscribed \subseteq Sessions
    /\ kept \in [Clients -> Seq(Turns)] /\ buffer \in [Sessions -> Seq(Requests)]
    /\ watched \subseteq Sessions /\ todo \subseteq Sessions
    /\ at \in Sessions \cup {Nothing} /\ hand \in Seq(Requests)
    /\ ended \subseteq Requests

\* The places a result can be in.
Places(r) ==
    {<<"handler", t>> : t \in {t \in Turns : t = r /\ call[t] \in {"resolved", "sending"}}}
    \cup {<<"client", t>> : t \in {t \in Turns : t = r /\ far[t] = "holds"}}
    \cup {<<"kept", c>> : c \in {c \in Clients : r \in Elements(kept[c])}}
    \cup {<<"buffer", s>> : s \in {s \in Sessions : r \in Elements(buffer[s])}}
    \cup {<<"hand", s>> : s \in {s \in {at} : r \in Elements(hand)}}

Distinct(q) == \A i, j \in 1..Len(q) : q[i] = q[j] => i = j

\* A result with something to say is at one place, and there once, from its publication
\* until it is shown or lost where the model says so: unread in the socket of a client
\* that leaves, pushed out of a full queue, in a session the gateway does not listen to,
\* in an answer that does not arrive, on the way to the user.  Whenever the client leaves
\* it is neither forgotten by its handler nor delivered by two ways.
HeldOnce ==
    /\ \A r \in Requests : out[r] = "text" =>
        \/ r \in ended /\ Places(r) = {}
        \/ r \notin ended /\ \E p \in Places(r) : Places(r) = {p}
    /\ \A c \in Clients : Distinct(kept[c])
    /\ \A s \in Sessions : Distinct(buffer[s])
    /\ Distinct(hand)

\* Who stayed has its answer, a result or an error; what was kept for a client that asks
\* is fetched; and the pushes of a session that stays watched are taken.
Delivered ==
    /\ \A t \in Turns : far[t] # "reading"
    /\ \A c \in Fetching : kept[c] = <<>>
    /\ \A s \in watched : buffer[s] = <<>>
=================================================================================
