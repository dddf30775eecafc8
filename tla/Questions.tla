------------------------------ MODULE Questions ------------------------------
(***************************************************************************)
(* Tools that wait for a person: permissions (src/agent_core/permissions,  *)
(* used by bash, the file tools and request_permission) and ask_user.      *)
(*                                                                         *)
(* A tool registers a future and awaits it with a timeout; a card or a     *)
(* terminal shows the request; a click reaches the daemon over IPC and     *)
(* sets the future. The time-out and the cancellation of the turn may land *)
(* between the click and the moment the tool goes on, and then count in     *)
(* place of the click: asyncio.wait_for of Python 3.12 and later cancels   *)
(* the awaiting task itself (workspace_paths.py does not compile on any    *)
(* older version).                                                         *)
(*                                                                         *)
(* One owner, whose grants all its sessions share. A call asks for the     *)
(* prefixes in Wants and runs at most once.                                *)
(***************************************************************************)
EXTENDS Naturals, FiniteSets

CONSTANTS
    Calls,      \* tool calls that may need a person
    Scenarios,  \* sets of calls that are made in one run
    Kind,       \* of a call: "path" (bash, file tools), "ticket" (request_permission
                \* for a dangerous command), "batch" (ask_user)
    Paths,      \* path prefixes
    Wants,      \* the prefixes that a call asks for
    Items,      \* questions of a batch
    Options     \* what can be answered to a question

ASSUME QuestionsAssumption ==
    /\ Scenarios \subseteq SUBSET Calls
    /\ Kind \in [Calls -> {"path", "ticket", "batch"}]
    /\ Wants \in [Calls -> SUBSET Paths]

VARIABLES
    call,       \* state of a call: idle, asking, gone (restart) or its outcome
    future,     \* its future: none, open, set or cancelled
    registered, \* calls whose future the registry holds
    shown,      \* calls whose card somebody can click
    landed,     \* what landed on a waiting call beside an answer
    answer,     \* what the future was set to
    partial,    \* answers to single questions of a batch
    temp,       \* grants of this process
    saved,      \* grants in the access control file
    tickets,    \* approved commands that wait to be run
    ran,        \* history: calls whose operation ran
    said,       \* history: the accepted answers of a call
    approved    \* history: prefixes that a person, or the bypass, approved

vars == <<call, future, registered, shown, landed, answer, partial, temp,
          saved, tickets, ran, said, approved>>

-----------------------------------------------------------------------------
NoAnswer == [of |-> "nothing"]
None == "none"
Granted == temp \cup saved
Decisions ==
    [of : {"deny", "clarify"}] \cup [of : {"allow"}, persist : BOOLEAN]
Batches == [of : {"answers"}, to : [Items -> Options]]

Waiting(c) == call[c] = "asking"

Init ==
    /\ \E made \in Scenarios : call = [c \in Calls |-> IF c \in made THEN "idle" ELSE "unused"]
    /\ future = [c \in Calls |-> "none"]
    /\ registered = {} /\ shown = {}
    /\ landed = [c \in Calls |-> {}]
    /\ answer = [c \in Calls |-> NoAnswer]
    /\ partial = [c \in Calls |-> [i \in Items |-> None]]
    /\ temp = {} /\ saved = {} /\ tickets = {} /\ ran = {}
    /\ said = [c \in Calls |-> {}]
    /\ approved = {}

-----------------------------------------------------------------------------
(* Asking *)

\* What the call wants is granted already: it runs without a question.
NeedsNobody(c) ==
    /\ call[c] = "idle" /\ Kind[c] = "path" /\ Wants[c] \subseteq Granted
    /\ call' = [call EXCEPT ![c] = "allowed"]
    /\ ran' = ran \cup {c}
    /\ UNCHANGED <<future, registered, shown, landed, answer, partial, temp, saved,
                   tickets, said, approved>>

\* The bypass of the session approves at once, for this process.
Bypass(c) ==
    /\ call[c] = "idle" /\ Kind[c] # "batch"
    /\ call' = [call EXCEPT ![c] = "allowed"]
    /\ temp' = temp \cup Wants[c]
    /\ approved' = approved \cup Wants[c]
    /\ IF Kind[c] = "ticket"
       THEN tickets' = tickets \cup {c} /\ UNCHANGED ran
       ELSE ran' = ran \cup {c} /\ UNCHANGED tickets
    /\ said' = [said EXCEPT ![c] = {[of |-> "allow", persist |-> FALSE]}]
    /\ UNCHANGED <<future, registered, shown, landed, answer, partial, saved>>

Ask(c) ==
    /\ call[c] = "idle" /\ ~(Kind[c] = "path" /\ Wants[c] \subseteq Granted)
    /\ call' = [call EXCEPT ![c] = "asking"]
    /\ future' = [future EXCEPT ![c] = "open"]
    /\ registered' = registered \cup {c}
    /\ UNCHANGED <<shown, landed, answer, partial, temp, saved, tickets, ran, said,
                   approved>>

\* The notice is a task of its own: it may come late, or never.
Show(c) ==
    /\ future[c] # "none" /\ c \notin shown
    /\ shown' = shown \cup {c}
    /\ UNCHANGED <<call, future, registered, landed, answer, partial, temp, saved,
                   tickets, ran, said, approved>>

-----------------------------------------------------------------------------
(* Clicks *)

Open(c) == c \in registered /\ future[c] = "open"
Set(c, d) ==
    /\ future' = [future EXCEPT ![c] = "set"]
    /\ registered' = registered \ {c}
    /\ answer' = [answer EXCEPT ![c] = d]

\* A decision on a permission. One for a future that is no longer open is refused, and
\* the future forgotten.
Click(c) == \E d \in Decisions :
    /\ c \in shown /\ Kind[c] # "batch"
    /\ IF Open(c)
       THEN Set(c, d) /\ said' = [said EXCEPT ![c] = @ \cup {d}]
       ELSE registered' = registered \ {c} /\ UNCHANGED <<future, answer, said>>
    /\ UNCHANGED <<call, shown, landed, partial, temp, saved, tickets, ran, approved>>

\* One question of a batch; the last one that is missing completes it. (Slip: the first
\* answer counts.)
MergedFirst(c, i, o) == [partial[c] EXCEPT ![i] = IF @ = None THEN o ELSE @]
Merged(c, i, o) == [partial[c] EXCEPT ![i] = o]
ClickItem(c, i, o) ==
    /\ c \in shown /\ Kind[c] = "batch" /\ Open(c)
    /\ LET now == Merged(c, i, o)
           whole == \A j \in Items : now[j] # None
       IN  /\ said' = [said EXCEPT ![c] =
                  {[of |-> "answers", to |-> [j \in Items |-> IF j = i THEN o ELSE before[j]]] :
                      before \in IF @ = {} THEN {partial[c]} ELSE {d.to : d \in @}}]
           /\ IF whole
              THEN /\ Set(c, [of |-> "answers", to |-> now])
                   /\ partial' = [partial EXCEPT ![c] = [j \in Items |-> None]]
              ELSE /\ partial' = [partial EXCEPT ![c] = now]
                   /\ UNCHANGED <<future, registered, answer>>
    /\ UNCHANGED <<call, shown, landed, temp, saved, tickets, ran, approved>>

\* All questions at once (terminal, dashboard); single answers given before are dropped.
ClickBatch(c, f) ==
    /\ c \in shown /\ Kind[c] = "batch" /\ Open(c)
    /\ Set(c, f)
    /\ said' = [said EXCEPT ![c] = {f}]
    /\ partial' = [partial EXCEPT ![c] = [j \in Items |-> None]]
    /\ UNCHANGED <<call, shown, landed, temp, saved, tickets, ran, approved>>

-----------------------------------------------------------------------------
(* Time-outs and cancellations *)

\* Either one cancels the future at once, and the task when the future is set already.
Lands(c, what) ==
    /\ Waiting(c) /\ what \notin landed[c]
    /\ landed' = [landed EXCEPT ![c] = @ \cup {what}]
    /\ future' = [future EXCEPT ![c] = IF @ = "open" THEN "cancelled" ELSE @]
    /\ UNCHANGED <<call, registered, shown, answer, partial, temp, saved, tickets,
                   ran, said, approved>>
TimeOut(c) == Lands(c, "timeout")
CancelTurn(c) == Lands(c, "cancelled")

-----------------------------------------------------------------------------
(* The tool goes on *)

\* An approved call: the grants are applied one by one, and writing the file may fail
\* between two. (Slip: they are applied before the decision is looked at.)
HeardEarly(c) ==
    /\ call' = [call EXCEPT ![c] = IF answer[c].of = "allow" THEN "allowed" ELSE answer[c].of]
    /\ temp' = temp \cup Wants[c]
    /\ UNCHANGED <<saved, tickets, ran, approved>>
Heard(c) ==
    \/ /\ answer[c].of # "allow"
       /\ call' = [call EXCEPT ![c] = answer[c].of]
       /\ UNCHANGED <<temp, saved, tickets, ran, approved>>
    \/ /\ answer[c].of = "allow"
       /\ call' = [call EXCEPT ![c] = "allowed"]
       /\ approved' = approved \cup Wants[c]
       /\ IF answer[c].persist
          THEN saved' = saved \cup Wants[c] /\ UNCHANGED temp
          ELSE temp' = temp \cup Wants[c] /\ UNCHANGED saved
       /\ IF Kind[c] = "ticket"
          THEN tickets' = tickets \cup {c} /\ UNCHANGED ran
          ELSE ran' = ran \cup {c} /\ UNCHANGED tickets
    \/ /\ answer[c].of = "allow" /\ answer[c].persist /\ Wants[c] # {}
       /\ call' = [call EXCEPT ![c] = "acl_failed"]
       /\ approved' = approved \cup Wants[c]
       /\ \E some \in SUBSET Wants[c] : some # Wants[c] /\ saved' = saved \cup some
       /\ UNCHANGED <<temp, tickets, ran>>
Counts(c) == future[c] = "set" /\ landed[c] = {}

Resume(c) ==
    /\ Waiting(c) /\ Counts(c)
    /\ IF Kind[c] = "batch"
       THEN call' = [call EXCEPT ![c] = "answered"] /\ UNCHANGED <<temp, saved, tickets, ran, approved>>
       ELSE Heard(c)
    /\ UNCHANGED <<future, registered, shown, landed, answer, partial, said>>

\* The broker takes its future back; ask_user does so for a cancellation only. (Slip:
\* the broker neither.)
TakesBackCancelled(c, what) == what = "cancelled"
TakesBack(c, what) == Kind[c] # "batch" \/ what = "cancelled"
GiveUp(c) ==
    /\ Waiting(c) /\ landed[c] # {} /\ ~Counts(c)
    /\ \E what \in landed[c] :
        /\ what = "timeout" => "cancelled" \notin landed[c]
        /\ call' = [call EXCEPT ![c] = what]
        /\ registered' = IF TakesBack(c, what) THEN registered \ {c} ELSE registered
        /\ partial' = IF TakesBack(c, what)
                      THEN [partial EXCEPT ![c] = [i \in Items |-> None]] ELSE partial
    /\ UNCHANGED <<future, shown, landed, answer, temp, saved, tickets, ran, said, approved>>

\* bash with the permission's id and the same command: once.
UseTicket(c) ==
    /\ c \in tickets
    /\ tickets' = tickets \ {c}
    /\ ran' = ran \cup {c}
    /\ UNCHANGED <<call, future, registered, shown, landed, answer, partial, temp,
                   saved, said, approved>>

\* The daemon starts anew: nothing but the file is left, and old cards.
Restart ==
    /\ call' = [c \in Calls |-> IF Waiting(c) THEN "gone" ELSE call[c]]
    /\ future' = [c \in Calls |-> "none"]
    /\ registered' = {} /\ temp' = {} /\ tickets' = {}
    /\ partial' = [c \in Calls |-> [i \in Items |-> None]]
    /\ UNCHANGED <<shown, landed, answer, saved, ran, said, approved>>

Next ==
    \/ Restart
    \/ \E c \in Calls :
        \/ NeedsNobody(c) \/ Bypass(c) \/ Ask(c) \/ Show(c) \/ Click(c)
        \/ \E i \in Items, o \in Options : ClickItem(c, i, o)
        \/ \E f \in Batches : ClickBatch(c, f)
        \/ TimeOut(c) \/ CancelTurn(c) \/ Resume(c) \/ GiveUp(c) \/ UseTicket(c)

\* Timers fire and a task that can run does. Nobody has to show or click anything.
FairAsks == \A c \in Calls : WF_vars(TimeOut(c) \/ Resume(c) \/ GiveUp(c))

Spec == Init /\ [][Next]_vars /\ FairAsks

-----------------------------------------------------------------------------
(* Properties *)

Outcomes == {"allowed", "deny", "clarify", "acl_failed", "answered", "timeout", "cancelled", "gone"}
Ended(c) == call[c] \in Outcomes

\* Every variable keeps its type. What a batch is told may lack answers.
Tellings == Decisions \cup [of : {"answers"}, to : [Items -> Options \cup {None}]]
TypeOK ==
    /\ call \in [Calls -> {"unused", "idle", "asking"} \cup Outcomes]
    /\ future \in [Calls -> {"none", "open", "set", "cancelled"}]
    /\ answer \in [Calls -> {NoAnswer} \cup Decisions \cup Batches]
    /\ partial \in [Calls -> [Items -> Options \cup {None}]]
    /\ landed \in [Calls -> SUBSET {"timeout", "cancelled"}]
    /\ said \in [Calls -> SUBSET Tellings]
    /\ temp \subseteq Paths /\ saved \subseteq Paths /\ approved \subseteq Paths
    /\ shown \subseteq Calls /\ registered \subseteq Calls
    /\ tickets \subseteq Calls /\ ran \subseteq Calls

\* A click that was accepted is what the tool goes by, and the tool reports a decision
\* only if one was accepted; it may be overruled by a time-out or a cancellation that
\* lands before the tool goes on, and by a restart. A batch has an answer to every
\* question, the last one that was clicked. And a future that nobody awaits any more is
\* not left in the registry, save a batch that timed out, which ask_user never takes back.
Matches(c, d) ==
    CASE Kind[c] = "batch" -> call[c] = "answered" /\ answer[c] = d
      [] d.of = "allow"    -> call[c] \in {"allowed", "acl_failed"}
      [] OTHER             -> call[c] = d.of
AnswerHeard == \A c \in Calls :
    /\ Cardinality(said[c]) <= 1
    /\ Ended(c) /\ (Kind[c] = "batch" => future[c] = "set") =>
          \A d \in said[c] :
              \/ Matches(c, d)
              \/ call[c] = "gone"
              \/ call[c] \in landed[c]
    /\ call[c] \in {"allowed", "acl_failed", "deny", "clarify", "answered"} =>
          said[c] # {} \/ c \in ran
    /\ c \in registered /\ Ended(c) => Kind[c] = "batch" /\ call[c] = "timeout"

\* An operation runs, and a prefix is granted, only after a person approved it or the
\* bypass did; a run never follows a refusal, however late the click.
OnlyApproved ==
    /\ Granted \subseteq approved
    /\ \A c \in ran :
        \/ Kind[c] = "path" /\ said[c] = {} /\ Wants[c] \subseteq approved
        \/ \E d \in said[c] : d.of = "allow"

\* Nobody waits for a person. (Calls are finitely many and none waits twice: that this
\* holds from some time on says that every question ends, with or without an answer.)
NobodyAsks == \A c \in Calls : ~Waiting(c)
=============================================================================
