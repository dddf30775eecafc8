------------------------------- MODULE Messages -------------------------------
(***************************************************************************)
(* Messages between agents: the tools send_message_to_agent,               *)
(* reply_to_message and wait_for_agent_message                             *)
(* (src/system/tools/subagent_tools.py) and the waiters the scheduler      *)
(* keeps for them.                                                         *)
(*                                                                         *)
(* A message is a request of the session it is sent to. A tool that        *)
(* requires a reply, or waits for mail, blocks its turn and with it the    *)
(* session's lock, so what is sent to the session meanwhile queues up      *)
(* behind it: two agents that ask each other wait until a time-out. A      *)
(* reply wakes the tool that waits for it, and is a message of its own     *)
(* only if none does. As in Questions, a time-out or a cancellation that   *)
(* lands before the tool goes on overrules what the future was set to.     *)
(*                                                                         *)
(* Requests leave the queue in any order; KernelScheduler has the order.   *)
(***************************************************************************)
EXTENDS Naturals, Sequences, FiniteSets, SequencesExt

CONSTANTS
    Agents,      \* sessions
    Subs,        \* those that are subagents
    Turns,       \* requests of users and of create_subagent
    TurnOf,      \* their sessions
    Nobody,      \* in place of a message or of what a turn waits for
    Mail,        \* what wait_for_agent_message waits for
    Happenings,   \* what may happen in one run beside messages: sets of turns, "cancel",
                 \* "stop" and "end" (of a subagent)
    MaxMsgs,     \* bound on the messages
    MaxWaits,    \* bound on wait_for_agent_message: a turn's iterations are bounded
    MaxCancels   \* bound on cancel_session_tasks

Messages == 1..MaxMsgs
Requests == Turns \cup Messages
\* An AgentMessage; re is the query that a reply answers.
Letters == [from : Agents, to : Agents, of : {"notify", "query", "reply"},
            re : Messages \cup {Nobody}]

ASSUME TalkAssumption ==
    /\ TurnOf \in [Turns -> Agents] /\ Subs \subseteq Agents /\ MaxMsgs \in Nat
    /\ Turns \cap Messages = {} /\ Mail # Nobody
    /\ Mail \notin Messages /\ Nobody \notin Messages /\ Nobody \notin Letters

VARIABLES
    plan,       \* the scenario of this run
    place,      \* where a request is: new, queued, spawned, line, over or lost
    letter,     \* the AgentMessage of a message that was sent
    line,       \* of a session: its tasks for the lock, the first one holds it
    wait,       \* what that one's tool waits for: a message's reply, Mail or Nobody
    heard,      \* state of the future it awaits: open, set, cancelled
    came,       \* the message a set future of wait_for_agent_message carries
    landedOn,   \* what landed on the waiting turn beside it
    replyKeys,  \* keys of _p2p_reply_waiters
    mailKeys,   \* keys of _agent_inbox_waiters
    readBy,     \* messages a session's turns read through wait_for_agent_message
    marked,     \* _cancelled_sessions
    hit,        \* tasks that were cancelled
    fate,       \* of a subagent: open, cancelled or reaped
    life,       \* of the kernel: up, draining, down
    mailWaits,  \* calls of wait_for_agent_message so far
    sessionCancels, \* calls of cancel_session_tasks so far
    replies,    \* history: replies to a message so far
    result,     \* history: what send_message_to_agent returned for it
    woken,      \* history: messages whose sender a reply woke
    older,      \* history: messages in line when the session's wait for mail began
    struck      \* history: sessions of which a request was cancelled

talk == <<plan, place, letter, line, wait, heard, came, landedOn, replyKeys, mailKeys,
          readBy, marked, hit, fate, life, mailWaits, sessionCancels, replies,
          result, woken, older, struck>>
histories == <<replies, result, woken, older, struck>>
bounds == <<plan, mailWaits, sessionCancels>>
waits == <<wait, heard, came, landedOn>>

-----------------------------------------------------------------------------
Sent == {m \in Messages : letter[m] # Nobody}
To(r) == IF r \in Turns THEN TurnOf[r] ELSE letter[r].to
Of(a, where) == {r \in Turns \cup Sent : To(r) = a /\ place[r] \in where}

\* The turn of session a, between the awaits of its tools; one that was cancelled calls
\* no more of them.
Running(a) == line[a] # <<>> /\ wait[a] = Nobody
Acts(a) == Running(a) /\ line[a][1] \notin hit
Tasks(a) == Of(a, {"spawned", "line"})

\* _maybe_clear_cancelled, once r has left.
Cleared(a, r) ==
    marked' = IF ToSet(line[a]) \subseteq {r} /\ Of(a, {"queued"}) \subseteq {r}
              THEN marked \ {a} ELSE marked

InitTalk ==
    /\ plan \in Happenings
    /\ place = [r \in Requests |-> "new"]
    /\ letter = [m \in Messages |-> Nobody]
    /\ line = [a \in Agents |-> <<>>]
    /\ wait = [a \in Agents |-> Nobody]
    /\ heard = [a \in Agents |-> "cancelled"]
    /\ came = [a \in Agents |-> Nobody]
    /\ landedOn = [a \in Agents |-> {}]
    /\ replyKeys = {} /\ mailKeys = {}
    /\ readBy = [a \in Agents |-> {}]
    /\ marked = {} /\ hit = {}
    /\ fate = [s \in Subs |-> "open"]
    /\ life = "up"
    /\ mailWaits = 0 /\ sessionCancels = 0
    /\ replies = [m \in Messages |-> 0]
    /\ result = [m \in Messages |-> "none"]
    /\ woken = {}
    /\ older = [a \in Agents |-> {}]
    /\ struck = {}

-----------------------------------------------------------------------------
(* Requests: submit and inject_turn, the dispatch loop, the task's first step *)

SubmitTurn(t) ==
    /\ t \in plan /\ life = "up" /\ place[t] = "new"
    /\ place' = [place EXCEPT ![t] = "queued"]
    /\ UNCHANGED <<letter, line, waits, replyKeys, mailKeys, readBy, marked, hit, fate,
                   life, bounds, histories>>

Dispatch(r) ==
    /\ life = "up" /\ place[r] = "queued"
    /\ LET a == To(r) IN
       IF a \in marked
       THEN place' = [place EXCEPT ![r] = "lost"] /\ Cleared(a, r)
       ELSE place' = [place EXCEPT ![r] = "spawned"] /\ UNCHANGED marked
    /\ UNCHANGED <<letter, line, waits, replyKeys, mailKeys, readBy, hit, fate, life,
                   bounds, histories>>

\* _maybe_wake_agent_inbox_waiter: the key goes whether or not its future is open.
Awaits(a) == a \in mailKeys /\ wait[a] = Mail /\ heard[a] = "open"
WakeMail(a, m) ==
    /\ mailKeys' = mailKeys \ {a}
    /\ heard' = IF Awaits(a) THEN [heard EXCEPT ![a] = "set"] ELSE heard
    /\ came' = IF Awaits(a) THEN [came EXCEPT ![a] = m] ELSE came

\* (Slip: the waiter is looked for while the task holds the session lock.)
StartLate(r) == LET a == To(r) IN
    /\ place[r] = "spawned" /\ r \notin hit
    /\ place' = [place EXCEPT ![r] = "line"]
    /\ line' = [line EXCEPT ![a] = Append(@, r)]
    /\ IF r \in Messages /\ line[a] = <<>>
       THEN WakeMail(a, r) ELSE UNCHANGED <<mailKeys, heard, came>>
    /\ UNCHANGED <<letter, wait, landedOn, replyKeys, readBy, marked, hit, fate, life,
                   bounds, histories>>
Start(r) == LET a == To(r) IN
    /\ place[r] = "spawned" /\ r \notin hit
    /\ place' = [place EXCEPT ![r] = "line"]
    /\ line' = [line EXCEPT ![a] = Append(@, r)]
    /\ IF r \in Messages THEN WakeMail(a, r) ELSE UNCHANGED <<mailKeys, heard, came>>
    /\ UNCHANGED <<letter, wait, landedOn, replyKeys, readBy, marked, hit, fate, life,
                   bounds, histories>>

\* r is in line once.
LineWithout(q, r) == IF r \in ToSet(q) THEN RemoveAt(q, CHOOSE i \in DOMAIN q : q[i] = r) ELSE q

\* A task leaves: the turn is over, or it was cancelled before its first step, in the
\* line for the lock, or (once its tool has given up) in its turn.
Leaves(r, how) == LET a == To(r) IN
    /\ place' = [place EXCEPT ![r] = how]
    /\ line' = [line EXCEPT ![a] = LineWithout(@, r)]
    /\ Cleared(a, r)
    /\ hit' = hit \ {r}
    /\ UNCHANGED <<letter, waits, replyKeys, mailKeys, readBy, fate, life, bounds, histories>>
EndTurn(a) == Running(a) /\ Leaves(line[a][1], "over")
Dies(r) ==
    /\ r \in hit /\ place[r] \in {"spawned", "line"}
    /\ line[To(r)] # <<>> /\ r = line[To(r)][1] => wait[To(r)] = Nobody
    /\ Leaves(r, "lost")

-----------------------------------------------------------------------------
(* The tools *)

Next1 == CHOOSE m \in Messages : m \notin Sent
Post(l) ==
    /\ letter' = [letter EXCEPT ![Next1] = l]
    /\ place' = [place EXCEPT ![Next1] = "queued"]

\* send_message_to_agent; with a reply required the tool waits. A cancelled subagent may
\* not send and a reaped one not be sent to.
Send(a, b, needs) ==
    /\ Acts(a) /\ Sent # Messages
    /\ a \in Subs => fate[a] # "cancelled"
    /\ b \in Subs => fate[b] # "reaped"
    /\ Post([from |-> a, to |-> b, of |-> IF needs THEN "query" ELSE "notify", re |-> Nobody])
    /\ IF needs
       THEN /\ replyKeys' = replyKeys \cup {Next1}
            /\ wait' = [wait EXCEPT ![a] = Next1]
            /\ heard' = [heard EXCEPT ![a] = "open"]
       ELSE UNCHANGED <<replyKeys, wait, heard>>
    /\ UNCHANGED <<line, came, landedOn, mailKeys, readBy, marked, hit, fate, life, bounds,
                   histories>>

\* A query whose message_id the agent has seen: by its turn, or by a wait for mail.
Knows(a, q) ==
    /\ q \in Sent /\ letter[q].to = a /\ letter[q].of = "query"
    /\ place[q] = "over" \/ q = line[a][1] \/ q \in readBy[a]

\* has_p2p_reply_waiter. (Slip: a future that is done still counts.)
HasWaiterDone(q) == q \in replyKeys
HasWaiter(q) ==
    /\ q \in replyKeys
    /\ wait[letter[q].from] = q /\ heard[letter[q].from] = "open"

Reply(a, q) ==
    /\ Acts(a) /\ Knows(a, q)
    /\ replies' = [replies EXCEPT ![q] = @ + 1]
    /\ replyKeys' = replyKeys \ {q}
    /\ LET b == letter[q].from IN
       IF HasWaiter(q)
       THEN /\ heard' = IF heard[b] = "open" /\ wait[b] = q
                        THEN [heard EXCEPT ![b] = "set"] ELSE heard
            /\ woken' = woken \cup {q}
            /\ UNCHANGED <<letter, place>>
       ELSE /\ Sent # Messages
            /\ Post([from |-> a, to |-> b, of |-> "reply", re |-> q])
            /\ UNCHANGED <<heard, woken>>
    /\ UNCHANGED <<line, wait, came, landedOn, mailKeys, readBy, marked, hit, fate, life,
                   bounds, result, older, struck>>

\* wait_for_agent_message
WaitForMail(a) ==
    /\ Acts(a) /\ mailWaits < MaxWaits
    /\ mailWaits' = mailWaits + 1
    /\ mailKeys' = mailKeys \cup {a}
    /\ wait' = [wait EXCEPT ![a] = Mail]
    /\ heard' = [heard EXCEPT ![a] = "open"]
    /\ older' = [older EXCEPT ![a] = ToSet(line[a]) \cap Messages]
    /\ UNCHANGED <<place, letter, line, came, landedOn, replyKeys, readBy, marked, hit,
                   fate, life, plan, sessionCancels, replies, result, woken, struck>>

-----------------------------------------------------------------------------
(* Time-outs and cancellations, and how a tool goes on *)

Land(a, what) ==
    /\ landedOn' = [landedOn EXCEPT ![a] = @ \cup {what}]
    /\ heard' = [heard EXCEPT ![a] = IF @ = "open" THEN "cancelled" ELSE @]

\* (Slip: a wait for a reply has no time-out.)
TimesOutMail(a) ==
    /\ wait[a] = Mail /\ "timeout" \notin landedOn[a]
    /\ Land(a, "timeout")
    /\ UNCHANGED <<place, letter, line, wait, came, replyKeys, mailKeys, readBy, marked,
                   hit, fate, life, bounds, histories>>
TimesOut(a) ==
    /\ wait[a] # Nobody /\ "timeout" \notin landedOn[a]
    /\ Land(a, "timeout")
    /\ UNCHANGED <<place, letter, line, wait, came, replyKeys, mailKeys, readBy, marked,
                   hit, fate, life, bounds, histories>>

\* cancel_session_tasks
CancelSession(a) ==
    /\ "cancel" \in plan /\ sessionCancels < MaxCancels /\ life # "down"
    /\ sessionCancels' = sessionCancels + 1
    /\ marked' = marked \cup {a}
    /\ hit' = hit \cup Tasks(a)
    /\ struck' = struck \cup {a}
    /\ IF wait[a] # Nobody THEN Land(a, "cancelled") ELSE UNCHANGED <<landedOn, heard>>
    /\ UNCHANGED <<place, letter, line, wait, came, replyKeys, mailKeys, readBy, fate,
                   life, plan, mailWaits, replies, result, woken, older>>

\* The tool goes on: with what it waited for, unless something landed. A wait for mail
\* leaves its key behind when nothing came.
GoesOn(a) ==
    /\ wait[a] # Nobody /\ heard[a] # "open"
    /\ LET how == IF landedOn[a] = {} THEN "heard"
                  ELSE IF "cancelled" \in landedOn[a] THEN "cancelled" ELSE "timeout"
       IN IF wait[a] = Mail
          THEN /\ readBy' = IF how = "heard" THEN [readBy EXCEPT ![a] = @ \cup {came[a]}]
                            ELSE readBy
               /\ UNCHANGED <<replyKeys, result>>
          ELSE /\ replyKeys' = replyKeys \ {wait[a]}
               /\ result' = [result EXCEPT ![wait[a]] = how]
               /\ UNCHANGED readBy
    /\ wait' = [wait EXCEPT ![a] = Nobody]
    /\ heard' = [heard EXCEPT ![a] = "cancelled"]
    /\ came' = [came EXCEPT ![a] = Nobody]
    /\ landedOn' = [landedOn EXCEPT ![a] = {}]
    /\ older' = [older EXCEPT ![a] = {}]
    /\ UNCHANGED <<place, letter, line, mailKeys, marked, hit, fate, life, bounds,
                   replies, woken, struck>>

-----------------------------------------------------------------------------
(* The subagent's end and the kernel's *)

\* cancel_subagent sets the status, its background task cancels the turn later.
CancelSub(s) ==
    /\ "end" \in plan /\ fate[s] = "open"
    /\ fate' = [fate EXCEPT ![s] = "cancelled"]
    /\ UNCHANGED <<place, letter, line, waits, replyKeys, mailKeys, readBy, marked, hit,
                   life, bounds, histories>>

\* reap_subagent, once it has ended: cancelled, or its turn is over.
Reap(s) ==
    /\ "end" \in plan
    /\ \/ fate[s] = "cancelled"
       \/ fate[s] = "open" /\ \E t \in Turns : TurnOf[t] = s /\ place[t] \in {"over", "lost"}
    /\ fate' = [fate EXCEPT ![s] = "reaped"]
    /\ UNCHANGED <<place, letter, line, waits, replyKeys, mailKeys, readBy, marked, hit,
                   life, bounds, histories>>

\* stop() ends the dispatch loop, waits for the tasks and only then cancels the waiters.
StopBegins ==
    /\ "stop" \in plan /\ life = "up"
    /\ life' = "draining"
    /\ UNCHANGED <<place, letter, line, waits, replyKeys, mailKeys, readBy, marked, hit,
                   fate, bounds, histories>>
StopEnds ==
    /\ life = "draining" /\ \A a \in Agents : Tasks(a) = {}
    /\ life' = "down"
    /\ replyKeys' = {} /\ mailKeys' = {}
    /\ UNCHANGED <<place, letter, line, waits, readBy, marked, hit, fate, bounds, histories>>

NextTalk ==
    \/ StopBegins \/ StopEnds
    \/ \E t \in Turns : SubmitTurn(t)
    \/ \E r \in Requests : Dispatch(r) \/ Start(r) \/ Dies(r)
    \/ \E s \in Subs : CancelSub(s) \/ Reap(s)
    \/ \E a \in Agents :
        \/ EndTurn(a) \/ WaitForMail(a) \/ TimesOut(a) \/ CancelSession(a) \/ GoesOn(a)
        \/ \E b \in Agents, needs \in BOOLEAN : Send(a, b, needs)
        \/ \E q \in Messages : Reply(a, q)

\* The event loop runs what is ready, timers fire, turns end. Nobody has to send, reply
\* or stop.
FairTalk ==
    /\ \A r \in Requests : WF_talk(Dispatch(r) \/ Start(r) \/ Dies(r))
    /\ \A a \in Agents : WF_talk(EndTurn(a) \/ TimesOut(a) \/ GoesOn(a))
    /\ WF_talk(StopEnds)

TalkSpec == InitTalk /\ [][NextTalk]_talk /\ FairTalk

-----------------------------------------------------------------------------
(* Properties *)

\* Types.
TalkTypeOK ==
    /\ place \in [Requests -> {"new", "queued", "spawned", "line", "over", "lost"}]
    /\ letter \in [Messages -> Letters \cup {Nobody}]
    /\ line \in [Agents -> Seq(Requests)]
    /\ wait \in [Agents -> Messages \cup {Mail, Nobody}]
    /\ heard \in [Agents -> {"open", "set", "cancelled"}]
    /\ came \in [Agents -> Messages \cup {Nobody}]
    /\ landedOn \in [Agents -> SUBSET {"timeout", "cancelled"}]
    /\ replyKeys \subseteq Messages /\ mailKeys \subseteq Agents
    /\ readBy \in [Agents -> SUBSET (Messages \cup {Nobody})]
    /\ marked \subseteq Agents /\ hit \subseteq Requests
    /\ fate \in [Subs -> {"open", "cancelled", "reaped"}] /\ life \in {"up", "draining", "down"}
    /\ replies \in [Messages -> Nat]
    /\ result \in [Messages -> {"none", "heard", "timeout", "cancelled"}]
    /\ woken \subseteq Messages
    /\ older \in [Agents -> SUBSET Messages] /\ struck \subseteq Agents

\* The messages that answer q.
Mailed(q) == {m \in Sent : letter[m].re = q}

\* Every reply reaches the sender of the query once: it is what the waiting tool returns,
\* or a message of its own. One that woke the tool is lost only to a time-out or a
\* cancellation that lands first, one in a message only to a cancellation of the
\* sender's session. The tool returns a reply only if one woke it.
RepliesOnce == \A q \in Sent :
    /\ replies[q] = Cardinality(Mailed(q)) + IF q \in woken THEN 1 ELSE 0
    /\ \A m \in Mailed(q) : place[m] = "lost" => letter[q].from \in struck
    /\ result[q] = "heard" => q \in woken
    /\ q \in woken => \/ result[q] # "none"
                      \/ wait[letter[q].from] = q /\ heard[letter[q].from] = "set"
    /\ result[q] = "cancelled" => letter[q].from \in struck

\* wait_for_agent_message returns the first message whose task starts after the wait
\* began: while it waits, all messages that stand in line have stood there before, and
\* its waiter can be found.
WaitHearsNext == \A a \in Agents :
    wait[a] = Mail =>
        /\ heard[a] = "open" =>
              a \in mailKeys /\ ToSet(line[a]) \cap Messages \subseteq older[a]
        /\ heard[a] = "set" => came[a] \notin older[a] /\ letter[came[a]].to = a

\* Whatever is sent to an agent that waits arrives, once.
MailArrives == RepliesOnce /\ WaitHearsNext

\* No request is under way, or queued unless the kernel stops, and no stop is. (Requests
\* are finitely many, and none comes back: that this holds from some time on says that
\* they all end, however the agents wait for each other, and so does a stop.)
NobodyTalks ==
    /\ \A r \in Requests : place[r] \notin {"spawned", "line"}
    /\ life = "up" => \A r \in Requests : place[r] # "queued"
    /\ life # "draining"
=============================================================================
