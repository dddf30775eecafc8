----------------------------- MODULE ToolsProofs -----------------------------
(***************************************************************************)
(* Proofs about what a tool call of an agent can wait for, for any number  *)
(* of calls, agents, cores and servers: a person (Questions), another      *)
(* agent (Messages), an MCP server (Mcp), the shell (Shell).               *)
(***************************************************************************)
EXTENDS Questions, Messages, Mcp, Shell, TLAPS, FiniteSetTheorems, SequenceTheorems,
        WellFoundedInduction

-----------------------------------------------------------------------------
(* Questions: what holds of a call, its future and the registry at any moment *)

\* Nothing has happened to a call that has not asked.
Untouched == \A c \in Calls : call[c] \in {"unused", "idle"} =>
    /\ future[c] = "none" /\ landed[c] = {} /\ said[c] = {}
    /\ c \notin registered \cup tickets \cup ran

\* An open future is awaited, can be found, and nothing has landed on its call.
OpenIsAwaited == \A c \in Calls : future[c] = "open" =>
    Waiting(c) /\ c \in registered /\ landed[c] = {}

\* What a call was told before its future is set: nothing, or the single answers of a
\* batch that has gaps.
ToldInPart == \A c \in Calls : Waiting(c) /\ future[c] # "set" =>
    said[c] \subseteq
        IF Kind[c] = "batch" THEN {[of |-> "answers", to |-> partial[c]]} ELSE {}

\* A set future has left the registry, and its call was told what it holds.
SetIsSaid == \A c \in Calls : future[c] = "set" =>
    /\ c \notin registered /\ said[c] = {answer[c]}
    /\ answer[c] \in IF Kind[c] = "batch" THEN Batches ELSE Decisions

\* A call is told one thing.
OneSaid == \A c \in Calls : \A d, e \in said[c] : d = e

\* Tickets and runs come from calls that were allowed, tickets from a decision.
RunsAllowed ==
    /\ \A c \in tickets \cup ran : call[c] = "allowed"
    /\ \A c \in tickets : \E d \in said[c] : d.of = "allow"

\* AnswerHeard without its count.
HeardAtEnd == \A c \in Calls :
    /\ Ended(c) /\ (Kind[c] = "batch" => future[c] = "set") =>
          \A d \in said[c] : Matches(c, d) \/ call[c] = "gone" \/ call[c] \in landed[c]
    /\ call[c] \in {"allowed", "acl_failed", "deny", "clarify", "answered"} =>
          said[c] # {} \/ c \in ran
    /\ c \in registered /\ Ended(c) => Kind[c] = "batch" /\ call[c] = "timeout"

AskInv ==
    /\ TypeOK
    /\ Untouched /\ OpenIsAwaited /\ ToldInPart /\ SetIsSaid /\ OneSaid
    /\ RunsAllowed /\ HeardAtEnd /\ OnlyApproved

\* A decision is no batch and no gap; one that allows says for how long.
LEMMA DecisionShapes ==
  /\ \A d \in Decisions : d.of \in {"deny", "clarify", "allow"}
  /\ \A d \in Decisions : d.of = "allow" => d.persist \in BOOLEAN
  /\ \A d \in Batches : d.of = "answers"
  /\ NoAnswer.of = "nothing"
  BY DEF Decisions, Batches, NoAnswer

\* The state in which no call was made.
LEMMA AskInit == Init => AskInv
  <1> SUFFICES ASSUME Init PROVE AskInv
    OBVIOUS
  <1> USE QuestionsAssumption
  <1>1. TypeOK
    BY DEF Init, TypeOK, NoAnswer, None, Outcomes
  <1>2. Untouched /\ OpenIsAwaited /\ ToldInPart /\ SetIsSaid /\ OneSaid
    BY DEF Init, Untouched, OpenIsAwaited, ToldInPart, SetIsSaid, OneSaid, Waiting
  <1>3. RunsAllowed /\ HeardAtEnd /\ OnlyApproved
    BY DEF Init, RunsAllowed, HeardAtEnd, OnlyApproved, Ended, Outcomes, Granted
  <1> QED
    BY <1>1, <1>2, <1>3 DEF AskInv

\* An answer to one question of a batch: the call has been told all answers so far, and
\* the future is set by the last one.
LEMMA ItemTells ==
  ASSUME AskInv, NEW c \in Calls, NEW i \in Items, NEW o \in Options, ClickItem(c, i, o)
  PROVE  /\ Merged(c, i, o) \in [Items -> Options \cup {None}]
         /\ Kind[c] = "batch" /\ Open(c)
         /\ said' = [said EXCEPT ![c] = {[of |-> "answers", to |-> Merged(c, i, o)]}]
         /\ \/ /\ Merged(c, i, o) \in [Items -> Options]
               /\ Set(c, [of |-> "answers", to |-> Merged(c, i, o)])
               /\ partial' = [partial EXCEPT ![c] = [j \in Items |-> None]]
            \/ /\ partial' = [partial EXCEPT ![c] = Merged(c, i, o)]
               /\ UNCHANGED <<future, registered, answer>>
         /\ UNCHANGED <<call, shown, landed, temp, saved, tickets, ran, approved>>
  <1> DEFINE Gaps == IF said[c] = {} THEN {partial[c]} ELSE {d.to : d \in said[c]}
             Tells(b) == [of |-> "answers", to |-> [j \in Items |-> IF j = i THEN o ELSE b[j]]]
             Now == Merged(c, i, o)
             Whole == \A j \in Items : Now[j] # None
  <1>1. said' = [said EXCEPT ![c] = {Tells(b) : b \in Gaps}]
    BY DEF ClickItem
  <1>2. said[c] \subseteq {[of |-> "answers", to |-> partial[c]]}
    BY DEF ClickItem, AskInv, OpenIsAwaited, ToldInPart, Open
  <1>3. Gaps = {partial[c]}
    BY <1>2
  <1>4. /\ [j \in Items |-> IF j = i THEN o ELSE partial[c][j]] = Now
        /\ Now \in [Items -> Options \cup {None}]
        /\ Whole => Now \in [Items -> Options]
    BY DEF AskInv, TypeOK, Merged
  <1>5. /\ Kind[c] = "batch" /\ Open(c)
        /\ IF Whole
           THEN /\ Set(c, [of |-> "answers", to |-> Now])
                /\ partial' = [partial EXCEPT ![c] = [j \in Items |-> None]]
           ELSE /\ partial' = [partial EXCEPT ![c] = Now]
                /\ UNCHANGED <<future, registered, answer>>
        /\ UNCHANGED <<call, shown, landed, temp, saved, tickets, ran, approved>>
    BY Zenon DEF ClickItem
  <1> HIDE DEF Gaps, Whole
  <1>6. {Tells(b) : b \in Gaps} = {Tells(partial[c])}
    BY <1>3
  <1> QED
    BY <1>1, <1>4, <1>5, <1>6

\* A step of the questions keeps the types.
LEMMA AskTypeStep ==
  ASSUME AskInv, [Next]_vars
  PROVE  TypeOK'
  <1> USE QuestionsAssumption DEF TypeOK, AskInv, Outcomes
  <1>1. CASE Restart
    BY <1>1 DEF Restart, None, Waiting
  <1>2. ASSUME NEW c \in Calls, NeedsNobody(c) PROVE TypeOK'
    BY <1>2 DEF NeedsNobody
  <1>3. ASSUME NEW c \in Calls, Bypass(c) PROVE TypeOK'
    <2>1. {[of |-> "allow", persist |-> FALSE]} \subseteq Tellings
      BY DEF Tellings, Decisions
    <2> QED
      BY <1>3, <2>1 DEF Bypass
  <1>4. ASSUME NEW c \in Calls, Ask(c) PROVE TypeOK'
    BY <1>4 DEF Ask
  <1>5. ASSUME NEW c \in Calls, Show(c) PROVE TypeOK'
    BY <1>5 DEF Show
  <1>6. ASSUME NEW c \in Calls, Click(c) PROVE TypeOK'
    <2>1. PICK d \in Decisions :
            IF Open(c) THEN Set(c, d) /\ said' = [said EXCEPT ![c] = @ \cup {d}]
            ELSE registered' = registered \ {c} /\ UNCHANGED <<future, answer, said>>
      BY <1>6 DEF Click
    <2>2. said[c] \cup {d} \in SUBSET Tellings
      BY DEF Tellings
    <2>3. UNCHANGED <<call, shown, landed, partial, temp, saved, tickets, ran, approved>>
      BY <1>6 DEF Click
    <2>4. said' \in [Calls -> SUBSET Tellings]
      BY <2>1, <2>2
    <2>5. future' \in [Calls -> {"none", "open", "set", "cancelled"}]
      BY <2>1 DEF Set
    <2>6. answer' \in [Calls -> {NoAnswer} \cup Decisions \cup Batches]
      BY <2>1 DEF Set
    <2>7. registered' \subseteq Calls
      BY <2>1 DEF Set
    <2> HIDE <2>1, <2>2 DEF AskInv
    <2> QED
      BY <2>3, <2>4, <2>5, <2>6, <2>7 DEF AskInv
  <1>7. ASSUME NEW c \in Calls, NEW i \in Items, NEW o \in Options, ClickItem(c, i, o)
        PROVE  TypeOK'
    <2>1. [of |-> "answers", to |-> Merged(c, i, o)] \in Tellings
      BY <1>7, ItemTells DEF Tellings
    <2>2. Merged(c, i, o) \in [Items -> Options] =>
            [of |-> "answers", to |-> Merged(c, i, o)] \in Batches
      BY DEF Batches
    <2>3. UNCHANGED <<call, shown, landed, temp, saved, tickets, ran, approved>>
      BY <1>7, ItemTells
    <2>4. said' \in [Calls -> SUBSET Tellings]
      <3>1. said' = [said EXCEPT ![c] = {[of |-> "answers", to |-> Merged(c, i, o)]}]
        BY <1>7, ItemTells
      <3> QED
        BY <2>1, <3>1
    <2>5. future' \in [Calls -> {"none", "open", "set", "cancelled"}]
      BY <1>7, ItemTells DEF Set
    <2>6. answer' \in [Calls -> {NoAnswer} \cup Decisions \cup Batches]
      BY <1>7, <2>2, ItemTells DEF Set
    <2>7. registered' \subseteq Calls
      BY <1>7, ItemTells DEF Set
    <2>8. partial' \in [Calls -> [Items -> Options \cup {None}]]
      <3>1. Merged(c, i, o) \in [Items -> Options \cup {None}]
        BY <1>7, ItemTells
      <3>2. [j \in Items |-> None] \in [Items -> Options \cup {None}]
        OBVIOUS
      <3>3. \/ partial' = [partial EXCEPT ![c] = [j \in Items |-> None]]
            \/ partial' = [partial EXCEPT ![c] = Merged(c, i, o)]
        BY <1>7, ItemTells
      <3> QED
        BY <3>1, <3>2, <3>3
    <2> QED
      BY <2>3, <2>4, <2>5, <2>6, <2>7, <2>8
  <1>8. ASSUME NEW c \in Calls, NEW f \in Batches, ClickBatch(c, f) PROVE TypeOK'
    <2>1. Batches \subseteq Tellings
      BY DEF Batches, Tellings
    <2> QED
      BY <1>8, <2>1 DEF ClickBatch, Set, None
  <1>9. ASSUME NEW c \in Calls, NEW w \in {"timeout", "cancelled"}, Lands(c, w)
        PROVE  TypeOK'
    BY <1>9 DEF Lands
  <1>10. ASSUME NEW c \in Calls, Resume(c) PROVE TypeOK'
    <2>1. CASE Kind[c] = "batch"
      BY <1>10, <2>1 DEF Resume
    <2>2. CASE Kind[c] # "batch"
      <3>1. answer[c] \in Decisions
        BY <1>10, <2>2 DEF Resume, Counts, SetIsSaid
      <3> QED
        BY <1>10, <2>2, <3>1, DecisionShapes DEF Resume, Heard
    <2> QED
      BY <2>1, <2>2
  <1>11. ASSUME NEW c \in Calls, GiveUp(c) PROVE TypeOK'
    BY <1>11 DEF GiveUp, None
  <1>12. ASSUME NEW c \in Calls, UseTicket(c) PROVE TypeOK'
    BY <1>12 DEF UseTicket
  <1>13. CASE UNCHANGED vars
    BY <1>13 DEF vars
  <1> QED
    BY <1>1, <1>2, <1>3, <1>4, <1>5, <1>6, <1>7, <1>8, <1>9, <1>10, <1>11, <1>12, <1>13
    DEF Next, TimeOut, CancelTurn

\* A step of the questions keeps the rest.
LEMMA AskStep ==
  ASSUME AskInv, TypeOK', Next
  PROVE  AskInv'
  <1> USE QuestionsAssumption DEF TypeOK, Waiting
  <1>1. CASE Restart
    <2>1. Untouched'
      BY <1>1 DEF Restart, AskInv, Untouched
    <2>2. OpenIsAwaited'
      BY <1>1 DEF Restart, AskInv, OpenIsAwaited
    <2>3. ToldInPart'
      BY <1>1 DEF Restart, AskInv, ToldInPart, Untouched, OpenIsAwaited
    <2>4. SetIsSaid'
      BY <1>1 DEF Restart, AskInv, SetIsSaid, Untouched, OpenIsAwaited, ToldInPart
    <2>5. OneSaid'
      BY <1>1 DEF Restart, AskInv, OneSaid, Untouched, OpenIsAwaited, ToldInPart
    <2>6. RunsAllowed'
      BY <1>1 DEF Restart, AskInv, RunsAllowed, Untouched, SetIsSaid, OpenIsAwaited
    <2>7. HeardAtEnd'
      BY <1>1 DEF Restart, AskInv, HeardAtEnd, Ended, Outcomes, Matches, Untouched, OpenIsAwaited, ToldInPart, SetIsSaid
    <2>8. OnlyApproved'
      BY <1>1 DEF Restart, AskInv, OnlyApproved, RunsAllowed, Granted, Untouched, OpenIsAwaited, SetIsSaid
    <2> QED
      BY <2>1, <2>2, <2>3, <2>4, <2>5, <2>6, <2>7, <2>8 DEF AskInv
  <1>2. ASSUME NEW c \in Calls, NeedsNobody(c) PROVE AskInv'
    <2>1. Untouched'
      BY <1>2 DEF NeedsNobody, AskInv, Untouched
    <2>2. OpenIsAwaited'
      BY <1>2 DEF NeedsNobody, AskInv, OpenIsAwaited
    <2>3. ToldInPart'
      BY <1>2 DEF NeedsNobody, AskInv, ToldInPart, Untouched, OpenIsAwaited
    <2>4. SetIsSaid'
      BY <1>2 DEF NeedsNobody, AskInv, SetIsSaid, Untouched, OpenIsAwaited, ToldInPart
    <2>5. OneSaid'
      BY <1>2 DEF NeedsNobody, AskInv, OneSaid, Untouched, OpenIsAwaited, ToldInPart
    <2>6. RunsAllowed'
      BY <1>2 DEF NeedsNobody, AskInv, RunsAllowed, Untouched, SetIsSaid, OpenIsAwaited
    <2>7. HeardAtEnd'
      BY <1>2 DEF NeedsNobody, AskInv, HeardAtEnd, Ended, Outcomes, Matches, Untouched, OpenIsAwaited, ToldInPart, SetIsSaid
    <2>8. OnlyApproved'
      BY <1>2 DEF NeedsNobody, AskInv, OnlyApproved, RunsAllowed, Granted, Untouched, OpenIsAwaited, SetIsSaid
    <2> QED
      BY <2>1, <2>2, <2>3, <2>4, <2>5, <2>6, <2>7, <2>8 DEF AskInv
  <1>3. ASSUME NEW c \in Calls, Bypass(c) PROVE AskInv'
    <2>1. Untouched'
      BY <1>3 DEF Bypass, AskInv, Untouched
    <2>2. OpenIsAwaited'
      BY <1>3 DEF Bypass, AskInv, OpenIsAwaited
    <2>3. ToldInPart'
      BY <1>3 DEF Bypass, AskInv, ToldInPart, Untouched, OpenIsAwaited
    <2>4. SetIsSaid'
      BY <1>3 DEF Bypass, AskInv, SetIsSaid, Untouched, OpenIsAwaited, ToldInPart
    <2>5. OneSaid'
      <3>1. said' = [said EXCEPT ![c] = {[of |-> "allow", persist |-> FALSE]}]
        BY <1>3 DEF Bypass
      <3> QED
        BY <3>1 DEF AskInv, OneSaid
    <2>6. RunsAllowed'
      BY <1>3 DEF Bypass, AskInv, RunsAllowed, Untouched, SetIsSaid, OpenIsAwaited
    <2>7. HeardAtEnd'
      BY <1>3 DEF Bypass, AskInv, HeardAtEnd, Ended, Outcomes, Matches, Untouched, OpenIsAwaited, ToldInPart, SetIsSaid
    <2>8. OnlyApproved'
      BY <1>3 DEF Bypass, AskInv, OnlyApproved, RunsAllowed, Granted, Untouched, OpenIsAwaited, SetIsSaid
    <2> QED
      BY <2>1, <2>2, <2>3, <2>4, <2>5, <2>6, <2>7, <2>8 DEF AskInv
  <1>4. ASSUME NEW c \in Calls, Ask(c) PROVE AskInv'
    <2>1. Untouched'
      BY <1>4 DEF Ask, AskInv, Untouched
    <2>2. OpenIsAwaited'
      BY <1>4 DEF Ask, AskInv, OpenIsAwaited, Untouched
    <2>3. ToldInPart'
      BY <1>4 DEF Ask, AskInv, ToldInPart, Untouched, OpenIsAwaited
    <2>4. SetIsSaid'
      BY <1>4 DEF Ask, AskInv, SetIsSaid, Untouched, OpenIsAwaited, ToldInPart
    <2>5. OneSaid'
      BY <1>4 DEF Ask, AskInv, OneSaid, Untouched, OpenIsAwaited, ToldInPart
    <2>6. RunsAllowed'
      BY <1>4 DEF Ask, AskInv, RunsAllowed, Untouched, SetIsSaid, OpenIsAwaited
    <2>7. HeardAtEnd'
      BY <1>4 DEF Ask, AskInv, HeardAtEnd, Ended, Outcomes, Matches, Untouched, OpenIsAwaited, ToldInPart, SetIsSaid
    <2>8. OnlyApproved'
      BY <1>4 DEF Ask, AskInv, OnlyApproved, RunsAllowed, Granted, Untouched, OpenIsAwaited, SetIsSaid
    <2> QED
      BY <2>1, <2>2, <2>3, <2>4, <2>5, <2>6, <2>7, <2>8 DEF AskInv
  <1>5. ASSUME NEW c \in Calls, Show(c) PROVE AskInv'
    <2>1. Untouched'
      BY <1>5 DEF Show, AskInv, Untouched
    <2>2. OpenIsAwaited'
      BY <1>5 DEF Show, AskInv, OpenIsAwaited
    <2>3. ToldInPart'
      BY <1>5 DEF Show, AskInv, ToldInPart, Untouched, OpenIsAwaited
    <2>4. SetIsSaid'
      BY <1>5 DEF Show, AskInv, SetIsSaid, Untouched, OpenIsAwaited, ToldInPart
    <2>5. OneSaid'
      BY <1>5 DEF Show, AskInv, OneSaid, Untouched, OpenIsAwaited, ToldInPart
    <2>6. RunsAllowed'
      BY <1>5 DEF Show, AskInv, RunsAllowed, Untouched, SetIsSaid, OpenIsAwaited
    <2>7. HeardAtEnd'
      BY <1>5 DEF Show, AskInv, HeardAtEnd, Ended, Outcomes, Matches, Untouched, OpenIsAwaited, ToldInPart, SetIsSaid
    <2>8. OnlyApproved'
      BY <1>5 DEF Show, AskInv, OnlyApproved, RunsAllowed, Granted, Untouched, OpenIsAwaited, SetIsSaid
    <2> QED
      BY <2>1, <2>2, <2>3, <2>4, <2>5, <2>6, <2>7, <2>8 DEF AskInv
  <1>6. ASSUME NEW c \in Calls, NEW w \in {"timeout", "cancelled"}, Lands(c, w) PROVE AskInv'
    <2>1. Untouched'
      BY <1>6 DEF Lands, AskInv, Untouched
    <2>2. OpenIsAwaited'
      BY <1>6 DEF Lands, AskInv, OpenIsAwaited
    <2>3. ToldInPart'
      BY <1>6 DEF Lands, AskInv, ToldInPart, Untouched, OpenIsAwaited
    <2>4. SetIsSaid'
      BY <1>6 DEF Lands, AskInv, SetIsSaid, Untouched, OpenIsAwaited, ToldInPart
    <2>5. OneSaid'
      BY <1>6 DEF Lands, AskInv, OneSaid, Untouched, OpenIsAwaited, ToldInPart
    <2>6. RunsAllowed'
      BY <1>6 DEF Lands, AskInv, RunsAllowed, Untouched, SetIsSaid, OpenIsAwaited
    <2>7. HeardAtEnd'
      BY <1>6 DEF Lands, AskInv, HeardAtEnd, Ended, Outcomes, Matches, Untouched, OpenIsAwaited, ToldInPart, SetIsSaid
    <2>8. OnlyApproved'
      BY <1>6 DEF Lands, AskInv, OnlyApproved, RunsAllowed, Granted, Untouched, OpenIsAwaited, SetIsSaid
    <2> QED
      BY <2>1, <2>2, <2>3, <2>4, <2>5, <2>6, <2>7, <2>8 DEF AskInv
  <1>7. ASSUME NEW c \in Calls, GiveUp(c) PROVE AskInv'
    <2>1. Untouched'
      BY <1>7 DEF GiveUp, TakesBack, Counts, AskInv, Untouched
    <2>2. OpenIsAwaited'
      BY <1>7 DEF GiveUp, TakesBack, Counts, AskInv, OpenIsAwaited
    <2>3. ToldInPart'
      BY <1>7 DEF GiveUp, TakesBack, Counts, AskInv, ToldInPart, Untouched, OpenIsAwaited
    <2>4. SetIsSaid'
      BY <1>7 DEF GiveUp, TakesBack, Counts, AskInv, SetIsSaid, Untouched, OpenIsAwaited, ToldInPart
    <2>5. OneSaid'
      BY <1>7 DEF GiveUp, TakesBack, Counts, AskInv, OneSaid, Untouched, OpenIsAwaited, ToldInPart
    <2>6. RunsAllowed'
      BY <1>7 DEF GiveUp, TakesBack, Counts, AskInv, RunsAllowed, Untouched, SetIsSaid, OpenIsAwaited
    <2>7. HeardAtEnd'
      BY <1>7 DEF GiveUp, TakesBack, Counts, AskInv, HeardAtEnd, Ended, Outcomes, Matches, Untouched, OpenIsAwaited, ToldInPart, SetIsSaid
    <2>8. OnlyApproved'
      BY <1>7 DEF GiveUp, TakesBack, Counts, AskInv, OnlyApproved, RunsAllowed, Granted, Untouched, OpenIsAwaited, SetIsSaid
    <2> QED
      BY <2>1, <2>2, <2>3, <2>4, <2>5, <2>6, <2>7, <2>8 DEF AskInv
  <1>8. ASSUME NEW c \in Calls, UseTicket(c) PROVE AskInv'
    <2>1. Untouched'
      BY <1>8 DEF UseTicket, AskInv, Untouched
    <2>2. OpenIsAwaited'
      BY <1>8 DEF UseTicket, AskInv, OpenIsAwaited
    <2>3. ToldInPart'
      BY <1>8 DEF UseTicket, AskInv, ToldInPart, Untouched, OpenIsAwaited
    <2>4. SetIsSaid'
      BY <1>8 DEF UseTicket, AskInv, SetIsSaid, Untouched, OpenIsAwaited, ToldInPart
    <2>5. OneSaid'
      BY <1>8 DEF UseTicket, AskInv, OneSaid, Untouched, OpenIsAwaited, ToldInPart
    <2>6. RunsAllowed'
      BY <1>8 DEF UseTicket, AskInv, RunsAllowed, Untouched, SetIsSaid, OpenIsAwaited
    <2>7. HeardAtEnd'
      BY <1>8 DEF UseTicket, AskInv, HeardAtEnd, Ended, Outcomes, Matches, Untouched, OpenIsAwaited, ToldInPart, SetIsSaid
    <2>8. OnlyApproved'
      BY <1>8 DEF UseTicket, AskInv, OnlyApproved, RunsAllowed, Granted, Untouched, OpenIsAwaited, SetIsSaid
    <2> QED
      BY <2>1, <2>2, <2>3, <2>4, <2>5, <2>6, <2>7, <2>8 DEF AskInv
  <1>9. ASSUME NEW c \in Calls, Resume(c) PROVE AskInv'
    <2>1. Untouched'
      <3>1. call'[c] \notin {"unused", "idle"}
        <4>1. Kind[c] # "batch" => answer[c].of \in {"deny", "clarify", "allow"}
          BY <1>9, DecisionShapes DEF Resume, Counts, AskInv, SetIsSaid
        <4> QED
          BY <1>9, <4>1 DEF Resume, Heard
      <3>2. tickets' \subseteq tickets \cup {c} /\ ran' \subseteq ran \cup {c}
        BY <1>9 DEF Resume, Heard
      <3>3. \A d \in Calls \ {c} : call'[d] = call[d]
        BY <1>9 DEF Resume, Heard
      <3> QED
        BY <1>9, <3>1, <3>2, <3>3 DEF Resume, AskInv, Untouched
    <2>2. OpenIsAwaited'
      BY <1>9, DecisionShapes DEF Resume, Heard, Counts, AskInv, OpenIsAwaited
    <2>3. ToldInPart'
      BY <1>9, DecisionShapes DEF Resume, Heard, Counts, AskInv, ToldInPart, Untouched, OpenIsAwaited
    <2>4. SetIsSaid'
      BY <1>9, DecisionShapes DEF Resume, Heard, Counts, AskInv, SetIsSaid, Untouched, OpenIsAwaited, ToldInPart
    <2>5. OneSaid'
      BY <1>9, DecisionShapes DEF Resume, Heard, Counts, AskInv, OneSaid, Untouched, OpenIsAwaited, ToldInPart
    <2>6. RunsAllowed'
      BY <1>9, DecisionShapes DEF Resume, Heard, Counts, AskInv, RunsAllowed, Untouched, SetIsSaid, OpenIsAwaited
    <2>7. HeardAtEnd'
      <3>1. said'[c] = {answer'[c]} /\ c \notin registered'
        BY <1>9 DEF Resume, Counts, AskInv, SetIsSaid
      <3>2. Matches(c, answer[c])'
        BY <1>9, DecisionShapes DEF Resume, Heard, Counts, AskInv, SetIsSaid, Matches
      <3>3. \A d \in Calls \ {c} :
              /\ call'[d] = call[d] /\ future'[d] = future[d] /\ said'[d] = said[d]
              /\ landed'[d] = landed[d] /\ answer'[d] = answer[d]
        BY <1>9 DEF Resume, Heard
      <3>4. registered' = registered /\ ran \subseteq ran'
        BY <1>9 DEF Resume, Heard
      <3> DEFINE H(d) ==
            /\ Ended(d) /\ (Kind[d] = "batch" => future[d] = "set") =>
                  \A e \in said[d] : Matches(d, e) \/ call[d] = "gone" \/ call[d] \in landed[d]
            /\ call[d] \in {"allowed", "acl_failed", "deny", "clarify", "answered"} =>
                  said[d] # {} \/ d \in ran
            /\ d \in registered /\ Ended(d) => Kind[d] = "batch" /\ call[d] = "timeout"
      <3>5. H(c)'
        BY <3>1, <3>2 DEF Matches
      <3>6. ASSUME NEW d \in Calls \ {c} PROVE H(d)'
        BY <3>3, <3>4 DEF AskInv, HeardAtEnd, Ended, Matches
      <3> QED
        BY <3>5, <3>6 DEF HeardAtEnd
    <2>8. OnlyApproved'
      BY <1>9, DecisionShapes DEF Resume, Heard, Counts, AskInv, OnlyApproved, RunsAllowed, Granted, Untouched, OpenIsAwaited, SetIsSaid
    <2> QED
      BY <2>1, <2>2, <2>3, <2>4, <2>5, <2>6, <2>7, <2>8 DEF AskInv
  <1>10. ASSUME NEW c \in Calls, Click(c) PROVE AskInv'
    <2>1. Untouched'
      BY <1>10 DEF Click, Set, Open, AskInv, Untouched
    <2>2. OpenIsAwaited'
      BY <1>10 DEF Click, Set, Open, AskInv, OpenIsAwaited
    <2>3. ToldInPart'
      BY <1>10 DEF Click, Set, Open, AskInv, ToldInPart, Untouched, OpenIsAwaited
    <2>4. SetIsSaid'
      BY <1>10 DEF Click, Set, Open, AskInv, SetIsSaid, Untouched, OpenIsAwaited, ToldInPart
    <2>5. OneSaid'
      <3>1. Open(c) => said[c] = {}
        BY <1>10 DEF Click, Open, AskInv, OpenIsAwaited, ToldInPart
      <3>2. PICK d \in Decisions :
              IF Open(c) THEN Set(c, d) /\ said' = [said EXCEPT ![c] = @ \cup {d}]
              ELSE registered' = registered \ {c} /\ UNCHANGED <<future, answer, said>>
        BY <1>10 DEF Click
      <3>3. said' = said \/ said' = [said EXCEPT ![c] = {d}]
        <4>1. Open(c) => said[c] \cup {d} = {d}
          BY <3>1
        <4> QED
          BY <4>1, <3>2
      <3>4. \A x \in Calls : said'[x] = said[x] \/ said'[x] = {d}
        BY <3>3 DEF AskInv
      <3>5. \A x \in Calls : \A a, b \in said'[x] : a = b
        <4>1. \A x \in Calls : \A a, b \in said[x] : a = b
          BY DEF AskInv, OneSaid
        <4> QED
          BY <4>1, <3>4
      <3> QED
        BY <3>5, Zenon DEF OneSaid
    <2>6. RunsAllowed'
      BY <1>10 DEF Click, Set, Open, AskInv, RunsAllowed, Untouched, SetIsSaid, OpenIsAwaited
    <2>7. HeardAtEnd'
      BY <1>10 DEF Click, Set, Open, AskInv, HeardAtEnd, Ended, Outcomes, Matches, Untouched, OpenIsAwaited, ToldInPart, SetIsSaid
    <2>8. OnlyApproved'
      BY <1>10 DEF Click, Set, Open, AskInv, OnlyApproved, RunsAllowed, Granted, Untouched, OpenIsAwaited, SetIsSaid
    <2> QED
      BY <2>1, <2>2, <2>3, <2>4, <2>5, <2>6, <2>7, <2>8 DEF AskInv
  <1>11. ASSUME NEW c \in Calls, NEW f \in Batches, ClickBatch(c, f) PROVE AskInv'
    <2>1. Untouched'
      BY <1>11 DEF ClickBatch, Set, Open, AskInv, Untouched
    <2>2. OpenIsAwaited'
      BY <1>11 DEF ClickBatch, Set, Open, AskInv, OpenIsAwaited
    <2>3. ToldInPart'
      BY <1>11 DEF ClickBatch, Set, Open, AskInv, ToldInPart, Untouched, OpenIsAwaited
    <2>4. SetIsSaid'
      BY <1>11 DEF ClickBatch, Set, Open, AskInv, SetIsSaid, Untouched, OpenIsAwaited, ToldInPart
    <2>5. OneSaid'
      BY <1>11 DEF ClickBatch, Set, Open, AskInv, OneSaid, Untouched, OpenIsAwaited, ToldInPart
    <2>6. RunsAllowed'
      BY <1>11 DEF ClickBatch, Set, Open, AskInv, RunsAllowed, Untouched, SetIsSaid, OpenIsAwaited
    <2>7. HeardAtEnd'
      BY <1>11 DEF ClickBatch, Set, Open, AskInv, HeardAtEnd, Ended, Outcomes, Matches, Untouched, OpenIsAwaited, ToldInPart, SetIsSaid
    <2>8. OnlyApproved'
      BY <1>11 DEF ClickBatch, Set, Open, AskInv, OnlyApproved, RunsAllowed, Granted, Untouched, OpenIsAwaited, SetIsSaid
    <2> QED
      BY <2>1, <2>2, <2>3, <2>4, <2>5, <2>6, <2>7, <2>8 DEF AskInv
  <1>12. ASSUME NEW c \in Calls, NEW i \in Items, NEW o \in Options, ClickItem(c, i, o)
         PROVE  AskInv'
    <2> DEFINE told == [of |-> "answers", to |-> Merged(c, i, o)]
    <2>1. /\ Kind[c] = "batch" /\ future[c] = "open" /\ Waiting(c)
          /\ said' = [said EXCEPT ![c] = {told}]
          /\ UNCHANGED <<call, shown, landed, temp, saved, tickets, ran, approved>>
      <3>1. /\ Kind[c] = "batch" /\ Open(c)
            /\ said' = [said EXCEPT ![c] = {told}]
            /\ UNCHANGED <<call, shown, landed, temp, saved, tickets, ran, approved>>
        BY <1>12, ItemTells, Zenon
      <3> QED
        BY <3>1 DEF Open, AskInv, OpenIsAwaited
    <2>2. \/ /\ told \in Batches
             /\ future' = [future EXCEPT ![c] = "set"] /\ registered' = registered \ {c}
             /\ answer' = [answer EXCEPT ![c] = told]
             /\ partial' = [partial EXCEPT ![c] = [j \in Items |-> None]]
          \/ /\ partial' = [partial EXCEPT ![c] = Merged(c, i, o)]
             /\ UNCHANGED <<future, registered, answer>>
      <3>1. Merged(c, i, o) \in [Items -> Options] => told \in Batches
        BY DEF Batches
      <3> QED
        BY <1>12, <3>1, ItemTells DEF Set
    <2> HIDE DEF told
    <2>3. Untouched'
      BY <2>1, <2>2 DEF AskInv, Untouched
    <2>4. OpenIsAwaited'
      BY <2>1, <2>2 DEF AskInv, OpenIsAwaited
    <2>5. ToldInPart'
      BY <2>1, <2>2 DEF AskInv, ToldInPart, told
    <2>6. SetIsSaid'
      BY <2>1, <2>2 DEF AskInv, SetIsSaid
    <2>7. OneSaid'
      BY <2>1 DEF AskInv, OneSaid
    <2>8. RunsAllowed'
      BY <2>1 DEF AskInv, RunsAllowed
    <2>9. HeardAtEnd'
      BY <2>1, <2>2 DEF AskInv, HeardAtEnd, Ended, Outcomes, Matches
    <2>10. OnlyApproved'
      BY <2>1 DEF AskInv, OnlyApproved, RunsAllowed, Granted
    <2> QED
      BY <2>3, <2>4, <2>5, <2>6, <2>7, <2>8, <2>9, <2>10 DEF AskInv
  <1> QED
    BY <1>1, <1>2, <1>3, <1>4, <1>5, <1>6, <1>7, <1>8, <1>9, <1>10, <1>11, <1>12 DEF Next, TimeOut, CancelTurn

\* The inductive invariant holds at every moment.
THEOREM AskIInvariant == Spec => []AskInv
  <1>1. AskInv /\ [Next]_vars => AskInv'
    <2> SUFFICES ASSUME AskInv, [Next]_vars PROVE AskInv'
      OBVIOUS
    <2>1. CASE Next
      BY <2>1, AskTypeStep, AskStep
    <2>2. CASE UNCHANGED vars
      BY <2>2 DEF vars, AskInv, TypeOK, Untouched, OpenIsAwaited, ToldInPart, SetIsSaid, OneSaid,
                  RunsAllowed, HeardAtEnd, OnlyApproved, Ended, Matches, Waiting, Granted
    <2> QED
      BY <2>1, <2>2
  <1> QED
    BY <1>1, AskInit, PTL DEF Spec

\* What a person answered is what the tool goes by, and nothing a person did not approve
\* is run or granted (registry, broker and ask_user of permissions, bash and file tools).
THEOREM QuestionsCorrect == Spec => [](TypeOK /\ AnswerHeard /\ OnlyApproved)
  <1>1. AskInv => TypeOK /\ AnswerHeard /\ OnlyApproved
    <2> SUFFICES ASSUME AskInv PROVE AnswerHeard
      BY DEF AskInv
    <2>1. ASSUME NEW c \in Calls PROVE Cardinality(said[c]) <= 1
      <3>1. CASE said[c] = {}
        BY <3>1, FS_EmptySet
      <3>2. ASSUME NEW d \in said[c] PROVE Cardinality(said[c]) <= 1
        <4>1. said[c] = {d}
          BY DEF AskInv, OneSaid
        <4>2. Cardinality({d}) = 1
          BY FS_Singleton
        <4> QED
          BY <4>1, <4>2
      <3> QED
        BY <3>1, <3>2
    <2> QED
      BY <2>1 DEF AskInv, HeardAtEnd, AnswerHeard
  <1> QED
    BY <1>1, AskIInvariant, PTL

-----------------------------------------------------------------------------
(* Shell *)

Inputs == {"command", "pwd", "query", "snap", "save"}

\* Types of the shell's state.
ShellTypeOK ==
    /\ uses \subseteq ShellCalls /\ enabled \in BOOLEAN /\ resolves \in BOOLEAN
    /\ ended \in [ShellCalls -> {"new", "ok", "died", "timeout", "cancelled"}]
    /\ doing \in ShellCalls \cup {NoCall} /\ input \in Inputs \cup {"none"}
    /\ phase \in {"idle", "reads", "kills", "starts"} /\ from \in {"none", "last", "saved"}
    /\ held \in BOOLEAN /\ alive \in BOOLEAN /\ closed \in BOOLEAN
    /\ todo \in Seq([call : ShellCalls, as : Inputs])
    /\ out \in Seq([call : ShellCalls, as : Inputs, shows : SUBSET ShellCalls])
    /\ env \subseteq ShellCalls /\ done \subseteq ShellCalls /\ kept \subseteq ShellCalls
    /\ files \in [{"last", "saved"} -> (SUBSET ShellCalls) \cup {NoFile}]
    /\ age \in [{"last", "saved"} -> 0 .. Keep]

\* A call is under way exactly while something is awaited, and has its input.
CallUnderWay ==
    /\ phase = "idle" => doing = NoCall /\ input = "none"
    /\ phase # "idle" => doing \in ShellCalls /\ input \in Inputs /\ ended[doing] = "new"

\* What stands in the pipe or in the output is of a call that has ended or is under way;
\* of its snapshot nothing stands there before it is asked for.
Traces == ToSet(todo) \cup {[call |-> e.call, as |-> e.as] : e \in ToSet(out)}
TracesOfCalls == \A e \in Traces :
    /\ ended[e.call] = "new" => e.call = doing
    /\ e.call = doing /\ e.as = "snap" => input = "snap"

\* What a capture under way has brought shows all that is promised, and a command whose
\* end is in the output is in effect.
CapturesShow == \A e \in ToSet(out) :
    /\ e.call = doing /\ e.as = input /\ input \in {"query", "snap"} => done \subseteq e.shows
    /\ e.as = "command" /\ alive => e.call \in env

LastHoldsKept == files["last"] # NoFile => kept \subseteq files["last"]

ShellInv ==
    /\ ShellTypeOK /\ CallUnderWay /\ TracesOfCalls /\ CapturesShow /\ LastHoldsKept
    /\ EffectsKept

\* What is cut from a sequence, or put at its end.
LEMMA SetOfSuffix ==
  ASSUME NEW S, NEW q \in Seq(S), NEW k \in 0 .. Len(q)
  PROVE  SubSeq(q, k + 1, Len(q)) \in Seq(S) /\ ToSet(SubSeq(q, k + 1, Len(q))) \subseteq ToSet(q)
  <1>1. Len(q) \in Nat /\ k \in Nat /\ k <= Len(q)
    OBVIOUS
  <1> DEFINE p == SubSeq(q, k + 1, Len(q))
  <1>2. /\ p \in Seq(S) /\ Len(p) = Len(q) - k
        /\ \A i \in 1 .. Len(q) - k : p[i] = q[i + k]
    <2>1. \A i \in (k + 1) .. Len(q) : q[i] \in S
      BY <1>1
    <2>2. k + 1 \in Int /\ Len(q) \in Int
      BY <1>1
    <2>3. /\ p \in Seq(S) /\ Len(p) = IF k + 1 <= Len(q) THEN Len(q) - (k + 1) + 1 ELSE 0
          /\ \A i \in 1 .. Len(q) - (k + 1) + 1 : p[i] = q[(k + 1) + i - 1]
      BY <2>1, <2>2, SubSeqProperties
    <2> HIDE DEF p
    <2>4. Len(q) - (k + 1) + 1 = Len(q) - k /\ (~(k + 1 <= Len(q)) => Len(q) - k = 0)
      BY ONLY <1>1
    <2>5. \A i \in 1 .. Len(q) - k : (k + 1) + i - 1 = i + k
      BY ONLY <1>1
    <2> QED
      BY <2>3, <2>4, <2>5
  <1>3. \A i \in 1 .. Len(q) - k : i + k \in 1 .. Len(q)
    BY ONLY <1>1
  <1> HIDE DEF p
  <1>4. ToSet(p) \subseteq ToSet(q)
    BY <1>2, <1>3 DEF ToSet
  <1> QED
    BY <1>2, <1>4 DEF p

LEMMA SetOfAppend ==
  ASSUME NEW S, NEW q \in Seq(S), NEW e \in S
  PROVE  Append(q, e) \in Seq(S) /\ ToSet(Append(q, e)) = ToSet(q) \cup {e}
  <1>1. /\ Append(q, e) \in Seq(S) /\ Len(Append(q, e)) = Len(q) + 1 /\ Len(q) \in Nat
        /\ \A i \in 1 .. Len(q) : Append(q, e)[i] = q[i]
        /\ Append(q, e)[Len(q) + 1] = e
    OBVIOUS
  <1>2. DOMAIN Append(q, e) = 1 .. Len(q) + 1 /\ DOMAIN q = 1 .. Len(q)
    BY <1>1
  <1>3. \A i \in 1 .. Len(q) + 1 : i \in 1 .. Len(q) \/ i = Len(q) + 1
    BY <1>1
  <1>4. 1 .. Len(q) \subseteq 1 .. Len(q) + 1 /\ Len(q) + 1 \in 1 .. Len(q) + 1
    BY <1>1
  <1> QED
    BY <1>1, <1>2, <1>3, <1>4 DEF ToSet

LEMMA SetOfTail ==
  ASSUME NEW S, NEW q \in Seq(S), q # <<>>
  PROVE  /\ Tail(q) \in Seq(S) /\ ToSet(Tail(q)) \subseteq ToSet(q)
         /\ Head(q) \in ToSet(q) /\ Head(q) \in S
  <1>1. /\ Tail(q) \in Seq(S) /\ Len(Tail(q)) = Len(q) - 1 /\ Len(q) \in Nat \ {0}
        /\ \A i \in 1 .. Len(Tail(q)) : Tail(q)[i] = q[i + 1]
        /\ Head(q) = q[1]
    OBVIOUS
  <1>2. \A i \in 1 .. Len(Tail(q)) : i + 1 \in 1 .. Len(q)
    BY <1>1
  <1>3. 1 \in 1 .. Len(q)
    BY <1>1
  <1> QED
    BY <1>1, <1>2, <1>3 DEF ToSet

LEMMA SetOfNone == ToSet(<<>>) = {} /\ \A S : <<>> \in Seq(S)
  BY DEF ToSet

LEMMA ShellStart == InitShell => ShellInv
  <1> SUFFICES ASSUME InitShell PROVE ShellInv
    OBVIOUS
  <1>1. ShellTypeOK
    <2>1. 0 \in 0 .. Keep
      BY ShellAssumption
    <2>2. todo = <<>> /\ out = <<>>
      BY DEF InitShell
    <2>3. todo \in Seq([call : ShellCalls, as : Inputs])
          /\ out \in Seq([call : ShellCalls, as : Inputs, shows : SUBSET ShellCalls])
      BY <2>2, SetOfNone
    <2> QED
      BY <2>1, <2>3, ShellAssumption DEF InitShell, ShellTypeOK
  <1>2. ToSet(todo) = {} /\ ToSet(out) = {}
    BY SetOfNone DEF InitShell
  <1>3. CallUnderWay /\ TracesOfCalls /\ CapturesShow /\ LastHoldsKept /\ EffectsKept
    BY <1>2 DEF InitShell, CallUnderWay, TracesOfCalls, Traces, CapturesShow, LastHoldsKept, EffectsKept
  <1> QED
    BY <1>1, <1>3 DEF ShellInv

\* The parts of the invariant, and of what stands in the two sequences.
LEMMA ShellParts ==
  ASSUME ShellInv
  PROVE  /\ ShellTypeOK /\ CallUnderWay /\ TracesOfCalls /\ CapturesShow /\ LastHoldsKept
         /\ (alive => done \subseteq env) /\ short = {}
  BY DEF ShellInv, EffectsKept

LEMMA SetOfSeq ==
  ASSUME NEW S, NEW q \in Seq(S)
  PROVE  ToSet(q) \subseteq S
  BY DEF ToSet

LEMMA TraceTypes ==
  ASSUME ShellTypeOK
  PROVE  /\ ToSet(todo) \subseteq [call : ShellCalls, as : Inputs]
         /\ ToSet(out) \subseteq [call : ShellCalls, as : Inputs, shows : SUBSET ShellCalls]
         /\ \A e \in Traces : e.call \in ShellCalls /\ e.as \in Inputs
  <1>1. /\ ToSet(todo) \subseteq [call : ShellCalls, as : Inputs]
        /\ ToSet(out) \subseteq [call : ShellCalls, as : Inputs, shows : SUBSET ShellCalls]
    BY SetOfSeq DEF ShellTypeOK
  <1> QED
    BY <1>1 DEF Traces

\* What stands in the pipe or the output stays that of calls.
LEMMA TracesStay ==
  ASSUME ShellInv, ShellTypeOK',
         ToSet(out') \subseteq ToSet(out),
         ToSet(todo') \subseteq ToSet(todo) \cup {[call |-> doing', as |-> input']},
         \A c \in ShellCalls :
            ended'[c] = "new" => ended[c] = "new" /\ (c = doing => c = doing'),
         \/ doing' = doing /\ (input = "snap" => input' = "snap")
         \/ doing' = NoCall
         \/ doing = NoCall /\ ended[doing'] = "new"
  PROVE  TracesOfCalls'
  <1>1. TracesOfCalls /\ ShellTypeOK
    BY ShellParts
  <1>2. \A e \in Traces : e.call \in ShellCalls
    BY <1>1, TraceTypes
  <1>3. ASSUME NEW e \in Traces'
        PROVE  e.call \in ShellCalls /\ (e \in Traces \/ e = [call |-> doing', as |-> input'])
    <2>1. /\ ToSet(todo') \subseteq [call : ShellCalls, as : Inputs]
          /\ ToSet(out') \subseteq [call : ShellCalls, as : Inputs, shows : SUBSET ShellCalls]
      BY SetOfSeq DEF ShellTypeOK
    <2> QED
      BY <2>1 DEF Traces
  <1> SUFFICES ASSUME NEW e \in Traces'
               PROVE  /\ ended'[e.call] = "new" => e.call = doing'
                      /\ e.call = doing' /\ e.as = "snap" => input' = "snap"
    BY DEF TracesOfCalls
  <1>4. CASE e = [call |-> doing', as |-> input']
    BY <1>4
  <1>5. CASE e \in Traces
    <2>1. /\ ended[e.call] = "new" => e.call = doing
          /\ e.call = doing /\ e.as = "snap" => input = "snap"
          /\ e.call \in ShellCalls
      BY <1>1, <1>2, <1>5 DEF TracesOfCalls
    <2>2. ended'[e.call] = "new" => e.call = doing'
      BY <2>1
    <2>3. doing = NoCall /\ ended[doing'] = "new" => e.call # doing'
      BY <2>1, ShellAssumption
    <2>4. doing' = NoCall => e.call # doing'
      BY <2>1, ShellAssumption
    <2> QED
      BY <2>1, <2>2, <2>3, <2>4
  <1> QED
    BY <1>3, <1>4, <1>5

\* A step that promises nothing new.
LEMMA ShellQuiet ==
  ASSUME ShellInv, ShellTypeOK', CallUnderWay',
         done' = done, kept' = kept, short' = short, alive' => alive, env' = env,
         files'["last"] \in {files["last"], NoFile},
         ToSet(out') \subseteq ToSet(out),
         ToSet(todo') \subseteq ToSet(todo) \cup {[call |-> doing', as |-> input']},
         \A c \in ShellCalls :
            ended'[c] = "new" => ended[c] = "new" /\ (c = doing => c = doing'),
         \/ /\ doing' = doing /\ (input' = input \/ input' \notin {"query", "snap"})
            /\ input = "snap" => input' = "snap"
         \/ doing' = NoCall
         \/ doing = NoCall /\ ended[doing'] = "new"
  PROVE  ShellInv'
  <1>1. /\ ShellTypeOK /\ CallUnderWay /\ TracesOfCalls /\ CapturesShow /\ LastHoldsKept
        /\ (alive => done \subseteq env) /\ short = {}
    BY ShellParts
  <1>2. TracesOfCalls'
    BY TracesStay
  <1>3. CapturesShow'
    <2> SUFFICES ASSUME NEW e \in ToSet(out')
                 PROVE  /\ e.call = doing' /\ e.as = input' /\ input' \in {"query", "snap"}
                             => done' \subseteq e.shows
                        /\ e.as = "command" /\ alive' => e.call \in env'
      BY DEF CapturesShow
    <2>1. e \in ToSet(out)
      OBVIOUS
    <2>2. /\ e.call = doing /\ e.as = input /\ input \in {"query", "snap"} => done \subseteq e.shows
          /\ e.as = "command" /\ alive => e.call \in env
      BY <1>1, <2>1 DEF CapturesShow
    <2>3. e.call \in ShellCalls /\ (ended[e.call] = "new" => e.call = doing)
      <3>1. [call |-> e.call, as |-> e.as] \in Traces
        BY <2>1 DEF Traces
      <3> QED
        BY <1>1, <3>1, TraceTypes DEF TracesOfCalls
    <2>4. doing = NoCall /\ ended[doing'] = "new" => e.call # doing'
      BY <2>3, ShellAssumption
    <2>5. doing' = NoCall => e.call # doing'
      BY <2>3, ShellAssumption
    <2> QED
      BY <2>2, <2>4, <2>5
  <1>4. LastHoldsKept' /\ EffectsKept'
    BY <1>1 DEF LastHoldsKept, EffectsKept
  <1> QED
    BY <1>2, <1>3, <1>4 DEF ShellInv

\* A call is given its input, or it ends.
Courses == {"reads", "kills", "starts"}

LEMMA CallGoesOn ==
  ASSUME ShellInv, NEW c \in ShellCalls, NEW i \in Inputs,
         Execute(c, i) \/ \E f \in {"none", "last", "saved"} : Replace(c, i, f)
  PROVE  /\ doing' = c /\ input' = i /\ phase' \in Courses /\ from' \in {"none", "last", "saved"}
         /\ held' \in BOOLEAN /\ alive' \in BOOLEAN /\ (alive' => alive) /\ ended' = ended
         /\ todo' \in Seq([call : ShellCalls, as : Inputs])
         /\ ToSet(todo') \subseteq ToSet(todo) \cup {[call |-> c, as |-> i]}
  <1>1. todo \in Seq([call : ShellCalls, as : Inputs]) /\ held \in BOOLEAN /\ alive \in BOOLEAN
    BY ShellParts DEF ShellTypeOK
  <1>2. [call |-> c, as |-> i] \in [call : ShellCalls, as : Inputs]
    OBVIOUS
  <1>3. /\ Append(todo, [call |-> c, as |-> i]) \in Seq([call : ShellCalls, as : Inputs])
        /\ ToSet(Append(todo, [call |-> c, as |-> i])) = ToSet(todo) \cup {[call |-> c, as |-> i]}
    <2> DEFINE e == [call |-> c, as |-> i]
               S == [call : ShellCalls, as : Inputs]
    <2>1. todo \in Seq(S) /\ e \in S
      BY <1>1, <1>2
    <2> HIDE DEF e, S
    <2>2. Append(todo, e) \in Seq(S) /\ ToSet(Append(todo, e)) = ToSet(todo) \cup {e}
      BY <2>1, SetOfAppend
    <2> QED
      BY <2>2 DEF e, S
  <1>4. CASE Execute(c, i)
    BY <1>1, <1>3, <1>4 DEF Execute, Courses
  <1>5. CASE \E f \in {"none", "last", "saved"} : Replace(c, i, f)
    BY <1>5, SetOfNone DEF Replace, Courses
  <1> QED
    BY <1>4, <1>5

LEMMA CallEnds ==
  ASSUME ShellInv, doing \in ShellCalls, NEW how \in {"ok", "died", "timeout", "cancelled"},
         Ends(how)
  PROVE  /\ doing' = NoCall /\ input' = "none" /\ phase' = "idle" /\ from' = "none"
         /\ held' = held /\ alive' = alive /\ todo' = todo
         /\ ended' \in [ShellCalls -> {"new", "ok", "died", "timeout", "cancelled"}]
         /\ \A c \in ShellCalls : ended'[c] = "new" => ended[c] = "new" /\ c # doing
  <1>1. ended \in [ShellCalls -> {"new", "ok", "died", "timeout", "cancelled"}]
    BY ShellParts DEF ShellTypeOK
  <1> QED
    BY <1>1 DEF Ends

\* A step of a call that promises nothing new: a new call, the next input of one, its end.
LEMMA CallQuiet ==
  ASSUME ShellInv,
         \/ \E c \in ShellCalls, i \in Inputs :
               /\ ended[c] = "new"
               /\ \/ doing = NoCall
                  \/ /\ doing = c /\ (i = input \/ i \notin {"query", "snap"})
                     /\ input = "snap" => i = "snap"
               /\ Execute(c, i) \/ \E f \in {"none", "last", "saved"} : Replace(c, i, f)
         \/ doing \in ShellCalls /\ \E how \in {"ok", "died", "cancelled"} : Ends(how),
         UNCHANGED <<given, env, closed, promises>>,
         out' \in Seq([call : ShellCalls, as : Inputs, shows : SUBSET ShellCalls]),
         ToSet(out') \subseteq ToSet(out), files'["last"] \in {files["last"], NoFile},
         files' \in [{"last", "saved"} -> (SUBSET ShellCalls) \cup {NoFile}],
         age' \in [{"last", "saved"} -> 0 .. Keep]
  PROVE  ShellInv'
  <1>0. UNCHANGED <<uses, enabled, resolves, env, closed, done, kept, short>>
    BY DEF given, promises
  <1>1. ShellTypeOK
    BY ShellParts
  <1>2. ASSUME NEW c \in ShellCalls, NEW i \in Inputs, ended[c] = "new",
               \/ doing = NoCall
               \/ /\ doing = c /\ (i = input \/ i \notin {"query", "snap"})
                  /\ input = "snap" => i = "snap",
               Execute(c, i) \/ \E f \in {"none", "last", "saved"} : Replace(c, i, f)
        PROVE  ShellInv'
    <2>1. /\ doing' = c /\ input' = i /\ phase' \in Courses /\ from' \in {"none", "last", "saved"}
          /\ held' \in BOOLEAN /\ alive' \in BOOLEAN /\ (alive' => alive) /\ ended' = ended
          /\ todo' \in Seq([call : ShellCalls, as : Inputs])
          /\ ToSet(todo') \subseteq ToSet(todo) \cup {[call |-> c, as |-> i]}
      BY <1>2, CallGoesOn
    <2>2. ShellTypeOK'
      BY <1>0, <1>1, <2>1 DEF ShellTypeOK, Courses
    <2>3. CallUnderWay'
      BY <1>2, <2>1 DEF CallUnderWay, Courses
    <2>4. \A d \in ShellCalls : ended'[d] = "new" => ended[d] = "new" /\ (d = doing => d = doing')
      BY <1>2, <2>1, ShellAssumption
    <2> QED
      BY <1>0, <1>2, <2>1, <2>2, <2>3, <2>4, ShellQuiet
  <1>3. ASSUME doing \in ShellCalls, NEW how \in {"ok", "died", "cancelled"}, Ends(how)
        PROVE  ShellInv'
    <2>1. /\ doing' = NoCall /\ input' = "none" /\ phase' = "idle" /\ from' = "none"
          /\ held' = held /\ alive' = alive /\ todo' = todo
          /\ ended' \in [ShellCalls -> {"new", "ok", "died", "timeout", "cancelled"}]
          /\ \A c \in ShellCalls : ended'[c] = "new" => ended[c] = "new" /\ c # doing
      BY <1>3, CallEnds
    <2>2. ShellTypeOK'
      BY <1>0, <1>1, <2>1 DEF ShellTypeOK
    <2>3. CallUnderWay'
      BY <2>1 DEF CallUnderWay
    <2> QED
      BY <1>0, <2>1, <2>2, <2>3, ShellQuiet
  <1> QED
    BY <1>2, <1>3

LEMMA TakesSomeOf ==
  ASSUME ShellInv, TakesSome
  PROVE  /\ out' \in Seq([call : ShellCalls, as : Inputs, shows : SUBSET ShellCalls])
         /\ ToSet(out') \subseteq ToSet(out)
  <1>1. out \in Seq([call : ShellCalls, as : Inputs, shows : SUBSET ShellCalls])
    BY ShellParts DEF ShellTypeOK
  <1> QED
    BY <1>1, SetOfSuffix DEF TakesSome

LEMMA BeginKeeps ==
  ASSUME ShellInv, NEW c \in ShellCalls, Begin(c)
  PROVE  ShellInv'
  <1>1. ShellTypeOK
    BY ShellParts
  <1>2. /\ doing = NoCall /\ ended[c] = "new"
        /\ UNCHANGED <<given, out, env, files, age, closed, promises>>
    BY DEF Begin
  <1>3. Does[c] \in {"export", "exit", "job", "restart"}
    BY ShellAssumption
  <1>4. \E i \in Inputs : Execute(c, i) \/ \E f \in {"none", "last", "saved"} : Replace(c, i, f)
    BY <1>3 DEF Begin, Inputs
  <1> QED
    BY <1>1, <1>2, <1>4, CallQuiet DEF ShellTypeOK

LEMMA FailsKeeps ==
  ASSUME ShellInv, Fails \/ ExecTimesOut \/ CancelCall
  PROVE  ShellInv'
  <1>1. ShellTypeOK /\ CallUnderWay
    BY ShellParts
  <1>2. doing \in ShellCalls /\ input \in Inputs /\ ended[doing] = "new"
    <2>1. phase # "idle"
      BY <1>1 DEF Fails, ExecTimesOut, CancelCall, CallUnderWay
    <2> QED
      BY <1>1, <2>1 DEF CallUnderWay
  <1>3. UNCHANGED <<given, env, age, closed, promises>>
    BY DEF Fails, ExecTimesOut, CancelCall
  <1>4. /\ out' \in Seq([call : ShellCalls, as : Inputs, shows : SUBSET ShellCalls])
        /\ ToSet(out') \subseteq ToSet(out)
    <2>1. CASE TakesSome
      BY <2>1, TakesSomeOf
    <2>2. CASE out' = <<>>
      BY <2>2, SetOfNone
    <2>3. CASE out' = out
      BY <1>1, <2>3 DEF ShellTypeOK
    <2> QED
      BY <2>1, <2>2, <2>3 DEF Fails, ExecTimesOut, CancelCall
  <1>5. files' = files \/ files' = [files EXCEPT !["last"] = NoFile]
    BY DEF Fails, ExecTimesOut, CancelCall, Uncaptured
  <1>6. files'["last"] \in {files["last"], NoFile}
        /\ files' \in [{"last", "saved"} -> (SUBSET ShellCalls) \cup {NoFile}]
    BY <1>1, <1>5 DEF ShellTypeOK
  <1>7. \/ \E i \in Inputs :
              /\ (i = input \/ i \notin {"query", "snap"}) /\ (input = "snap" => i = "snap")
              /\ Execute(doing, i) \/ \E f \in {"none", "last", "saved"} : Replace(doing, i, f)
        \/ \E how \in {"ok", "died", "cancelled"} : Ends(how)
    <2>1. CASE Uncaptured /\ input \in Captures
      <3>1. "pwd" \in Inputs /\ "save" \in Inputs
        BY DEF Inputs
      <3>2. CASE input = "query"
        BY <2>1, <3>1, <3>2 DEF Uncaptured
      <3>3. CASE input = "snap"
        BY <2>1, <3>3 DEF Uncaptured
      <3>4. CASE input = "save"
        BY <2>1, <3>1, <3>4 DEF Uncaptured
      <3> QED
        BY <2>1, <3>2, <3>3, <3>4 DEF Captures
    <2>2. CASE Ends("ok") \/ Ends("died") \/ Ends("cancelled")
      BY <2>2
    <2>3. CASE Replace(doing, input, "last")
      BY <1>2, <2>3
    <2>4. CASE input = "save" /\ Replace(doing, "save", "none")
      BY <1>2, <2>4
    <2>5. CASE Fails
      BY <2>1, <2>2, <2>4, <2>5 DEF Fails
    <2>6. CASE ExecTimesOut
      BY <2>1, <2>3, <2>6 DEF ExecTimesOut
    <2> QED
      BY <2>2, <2>5, <2>6 DEF CancelCall
  <1>8. age' \in [{"last", "saved"} -> 0 .. Keep]
    BY <1>1, <1>3 DEF ShellTypeOK
  <1> QED
    BY <1>2, <1>3, <1>4, <1>6, <1>7, <1>8, CallQuiet

\* What is read up to an input's end mark shows what that input has brought.
LEMMA ReadShows ==
  ASSUME ShellInv, NEW k \in DOMAIN out
  PROVE  /\ out[k] \in ToSet(out) /\ k \in 0 .. Len(out)
         /\ out[k].shows \subseteq Shown(SubSeq(out, 1, k)) /\ Shown(SubSeq(out, 1, k)) \subseteq ShellCalls
  <1> DEFINE S == [call : ShellCalls, as : Inputs, shows : SUBSET ShellCalls]
  <1>1. out \in Seq(S)
    BY ShellParts DEF ShellTypeOK
  <1>2. k \in 1 .. Len(out) /\ Len(out) \in Nat /\ \A i \in 1 .. Len(out) : out[i] \in S
    <2> HIDE DEF S
    <2>1. Len(out) \in Nat /\ DOMAIN out = 1 .. Len(out)
      BY <1>1
    <2>2. \A i \in 1 .. Len(out) : out[i] \in S
      BY <1>1
    <2> QED
      BY <2>1, <2>2
  <1>3. out[k] \in ToSet(out) /\ k \in 0 .. Len(out) /\ k \in Int /\ k \in 1 .. k
    BY <1>2 DEF ToSet
  <1>4. /\ SubSeq(out, 1, k) \in Seq(S)
        /\ Len(SubSeq(out, 1, k)) = IF 1 <= k THEN k - 1 + 1 ELSE 0
        /\ \A i \in 1 .. k - 1 + 1 : SubSeq(out, 1, k)[i] = out[1 + i - 1]
    <2>1. \A i \in 1 .. k : out[i] \in S
      BY <1>2
    <2>2. 1 \in Int
      OBVIOUS
    <2> HIDE DEF S
    <2> QED
      BY <1>3, <2>1, <2>2, SubSeqProperties
  <1>5. Len(SubSeq(out, 1, k)) = k /\ SubSeq(out, 1, k)[k] = out[k]
    <2>1. k - 1 + 1 = k /\ 1 <= k /\ 1 + k - 1 = k
      BY ONLY <1>3, k \in Int
    <2> QED
      BY <1>3, <1>4, <2>1
  <1>6. k \in DOMAIN SubSeq(out, 1, k)
    BY <1>3, <1>4, <1>5
  <1>7. out[k].shows \subseteq Shown(SubSeq(out, 1, k))
    BY <1>5, <1>6 DEF Shown
  <1>8. \A i \in DOMAIN SubSeq(out, 1, k) : SubSeq(out, 1, k)[i] \in S
    BY <1>4
  <1>9. Shown(SubSeq(out, 1, k)) \subseteq ShellCalls
    BY <1>8 DEF Shown
  <1> QED
    BY <1>3, <1>7, <1>9

LEMMA ReturnsKeeps ==
  ASSUME ShellInv, Returns
  PROVE  ShellInv'
  <1>1. PICK k \in DOMAIN out :
          /\ phase = "reads" /\ Own(out[k]) /\ out' = SubSeq(out, k + 1, Len(out))
          /\ UNCHANGED <<given, env, closed>>
          /\ LET brought == Shown(SubSeq(out, 1, k)) IN \E found \in SUBSET brought :
             /\ CASE input = "query" -> Ends("ok")
                  [] input = "snap"  -> Ends("ok")
                  [] input = "save"  -> Replace(doing, "save", "saved")
                  [] OTHER           -> IF alive THEN Execute(doing, "snap") ELSE Ends("ok")
             /\ IF input = "snap" THEN Writes("last", found)
                ELSE IF input = "save" THEN Writes("saved", found)
                ELSE UNCHANGED <<files, age>>
             /\ done' = IF input = "command" THEN done \cup {doing} ELSE done
             /\ kept' = IF input = "snap" THEN done \ (brought \ found) ELSE kept
             /\ short' = IF input = "query" /\ ~(done \subseteq brought) THEN short \cup {doing} ELSE short
    BY DEF Returns
  <1> DEFINE brought == Shown(SubSeq(out, 1, k))
  <1>p. PICK found \in SUBSET brought :
          /\ CASE input = "query" -> Ends("ok")
               [] input = "snap"  -> Ends("ok")
               [] input = "save"  -> Replace(doing, "save", "saved")
               [] OTHER           -> IF alive THEN Execute(doing, "snap") ELSE Ends("ok")
          /\ IF input = "snap" THEN Writes("last", found)
             ELSE IF input = "save" THEN Writes("saved", found)
             ELSE UNCHANGED <<files, age>>
          /\ done' = IF input = "command" THEN done \cup {doing} ELSE done
          /\ kept' = IF input = "snap" THEN done \ (brought \ found) ELSE kept
          /\ short' = IF input = "query" /\ ~(done \subseteq brought) THEN short \cup {doing} ELSE short
    BY <1>1
  <1>g. UNCHANGED <<uses, enabled, resolves, env, closed>>
    BY <1>1 DEF given
  <1>2. /\ ShellTypeOK /\ CallUnderWay /\ TracesOfCalls /\ CapturesShow /\ LastHoldsKept
        /\ (alive => done \subseteq env) /\ short = {}
    BY ShellParts
  <1>3. /\ out[k] \in ToSet(out) /\ k \in 0 .. Len(out)
        /\ out[k].shows \subseteq brought /\ found \subseteq ShellCalls
    BY ReadShows
  <1>4. /\ out' \in Seq([call : ShellCalls, as : Inputs, shows : SUBSET ShellCalls])
        /\ ToSet(out') \subseteq ToSet(out)
    BY <1>1, <1>2, <1>3, SetOfSuffix DEF ShellTypeOK
  <1>5. doing \in ShellCalls /\ input \in Inputs /\ ended[doing] = "new"
    BY <1>1, <1>2 DEF CallUnderWay
  <1>6. out[k].call = doing /\ out[k].as = input
    BY <1>1 DEF Own
  <1>7. input \in {"query", "snap"} => done \subseteq brought
    BY <1>2, <1>3, <1>6 DEF CapturesShow
  <1>8. short' = {}
    BY <1>2, <1>7, <1>p
  <1>9. /\ files' \in [{"last", "saved"} -> (SUBSET ShellCalls) \cup {NoFile}]
        /\ age' \in [{"last", "saved"} -> 0 .. Keep]
        /\ files'["last"] = IF input = "snap" THEN found ELSE files["last"]
    <2>1. /\ files \in [{"last", "saved"} -> (SUBSET ShellCalls) \cup {NoFile}]
          /\ age \in [{"last", "saved"} -> 0 .. Keep]
      BY <1>2 DEF ShellTypeOK
    <2>2. ASSUME NEW f \in {"last", "saved"}, Writes(f, found)
          PROVE  /\ files' \in [{"last", "saved"} -> (SUBSET ShellCalls) \cup {NoFile}]
                 /\ age' \in [{"last", "saved"} -> 0 .. Keep]
                 /\ files'["last"] = IF f = "last" THEN found ELSE files["last"]
      <3>1. /\ files' = [files EXCEPT ![f] = found]
            /\ age' = [g \in DOMAIN age |-> IF g = f THEN 0 ELSE IF age[g] < Keep THEN age[g] + 1 ELSE Keep]
        BY <2>2 DEF Writes
      <3>2. ASSUME NEW n \in 0 .. Keep PROVE (IF n < Keep THEN n + 1 ELSE Keep) \in 0 .. Keep
        BY ONLY <3>2, ShellAssumption
      <3>3. 0 \in 0 .. Keep
        BY ONLY ShellAssumption
      <3>4. age' \in [{"last", "saved"} -> 0 .. Keep]
        BY <2>1, <3>1, <3>2, <3>3
      <3> QED
        BY <1>3, <2>1, <3>1, <3>4
    <2>3. CASE input = "snap"
      BY <1>p, <2>2, <2>3
    <2>4. CASE input = "save"
      BY <1>p, <2>2, <2>4
    <2>5. CASE input \notin {"snap", "save"}
      BY <1>p, <2>1, <2>5
    <2> QED
      BY <2>3, <2>4, <2>5
  <1> HIDE DEF brought
  <1>10. CASE input \in {"query", "save"}
    <2>1. done' = done /\ kept' = kept /\ short' = short
      BY <1>2, <1>8, <1>10, <1>p
    <2>2. files'["last"] \in {files["last"], NoFile}
      BY <1>9, <1>10
    <2>3. Ends("ok") \/ Replace(doing, input, "saved")
      BY <1>10, <1>p
    <2>4. UNCHANGED <<given, env, closed, promises>>
      BY <1>1, <2>1 DEF promises
    <2> QED
      BY <1>4, <1>5, <1>9, <2>2, <2>3, <2>4, CallQuiet
  <1>11. CASE input = "snap"
    <2>1. Ends("ok") /\ done' = done /\ kept' = done \ (brought \ found)
      BY <1>11, <1>p
    <2>2. /\ doing' = NoCall /\ input' = "none" /\ phase' = "idle" /\ from' = "none"
          /\ held' = held /\ alive' = alive /\ todo' = todo
          /\ ended' \in [ShellCalls -> {"new", "ok", "died", "timeout", "cancelled"}]
          /\ \A c \in ShellCalls : ended'[c] = "new" => ended[c] = "new" /\ c # doing
      BY <1>5, <2>1, CallEnds
    <2>3. ShellTypeOK'
      BY <1>2, <1>4, <1>9, <1>g, <2>1, <2>2 DEF ShellTypeOK
    <2>4. CallUnderWay'
      BY <2>2 DEF CallUnderWay
    <2>5. TracesOfCalls'
      BY <1>4, <2>2, <2>3, TracesStay
    <2>6. CapturesShow'
      BY <1>2, <1>4, <1>g, <2>2 DEF CapturesShow
    <2>7. LastHoldsKept'
      BY <1>7, <1>9, <1>11, <2>1 DEF LastHoldsKept
    <2>8. EffectsKept'
      BY <1>2, <1>8, <1>g, <2>1, <2>2 DEF EffectsKept
    <2> QED
      BY <2>3, <2>4, <2>5, <2>6, <2>7, <2>8 DEF ShellInv
  <1>12. CASE input \in {"command", "pwd"}
    <2>1. /\ kept' = kept /\ files' = files /\ age' = age
          /\ done' = IF input = "command" THEN done \cup {doing} ELSE done
          /\ IF alive THEN Execute(doing, "snap") ELSE Ends("ok")
      BY <1>12, <1>p
    <2>2. done' \subseteq ShellCalls /\ (alive => done' \subseteq env)
      <3>1. input = "command" /\ alive => doing \in env
        BY <1>2, <1>3, <1>6 DEF CapturesShow
      <3> QED
        BY <1>2, <1>5, <2>1, <3>1 DEF ShellTypeOK
    <2>3. LastHoldsKept'
      BY <1>2, <2>1 DEF LastHoldsKept
    <2>4. CASE alive
      <3>1. "snap" \in Inputs /\ Execute(doing, "snap")
        BY <2>1, <2>4 DEF Inputs
      <3>2. /\ doing' = doing /\ input' = "snap" /\ phase' \in Courses
            /\ from' \in {"none", "last", "saved"}
            /\ held' \in BOOLEAN /\ alive' \in BOOLEAN /\ (alive' => alive) /\ ended' = ended
            /\ todo' \in Seq([call : ShellCalls, as : Inputs])
            /\ ToSet(todo') \subseteq ToSet(todo) \cup {[call |-> doing, as |-> "snap"]}
        BY <1>5, <3>1, CallGoesOn
      <3>3. ShellTypeOK'
        BY <1>2, <1>4, <1>g, <2>1, <2>2, <3>1, <3>2 DEF ShellTypeOK, Courses
      <3>4. CallUnderWay'
        BY <1>5, <3>1, <3>2 DEF CallUnderWay, Courses
      <3>5. TracesOfCalls'
        BY <1>4, <3>2, <3>3, TracesStay
      <3>6. CapturesShow'
        <4> SUFFICES ASSUME NEW e \in ToSet(out')
                     PROVE  /\ ~(e.call = doing /\ e.as = "snap")
                            /\ e.as = "command" /\ alive' => e.call \in env
          BY <1>g, <3>2 DEF CapturesShow
        <4>1. [call |-> e.call, as |-> e.as] \in Traces
          BY <1>4 DEF Traces
        <4>2. ~(e.call = doing /\ e.as = "snap")
          BY <1>2, <1>12, <4>1 DEF TracesOfCalls
        <4> QED
          BY <1>2, <1>4, <3>2, <4>2 DEF CapturesShow
      <3>7. EffectsKept'
        BY <1>8, <1>g, <2>2, <3>2 DEF EffectsKept
      <3> QED
        BY <2>3, <3>3, <3>4, <3>5, <3>6, <3>7 DEF ShellInv
    <2>5. CASE ~alive
      <3>1. Ends("ok")
        BY <2>1, <2>5
      <3>2. /\ doing' = NoCall /\ input' = "none" /\ phase' = "idle" /\ from' = "none"
            /\ held' = held /\ alive' = alive /\ todo' = todo
            /\ ended' \in [ShellCalls -> {"new", "ok", "died", "timeout", "cancelled"}]
            /\ \A c \in ShellCalls : ended'[c] = "new" => ended[c] = "new" /\ c # doing
        BY <1>5, <3>1, CallEnds
      <3>3. ShellTypeOK'
        BY <1>2, <1>4, <1>g, <2>1, <2>2, <3>2 DEF ShellTypeOK
      <3>4. CallUnderWay'
        BY <3>2 DEF CallUnderWay
      <3>5. TracesOfCalls'
        BY <1>4, <3>2, <3>3, TracesStay
      <3>6. CapturesShow' /\ EffectsKept'
        BY <1>8, <2>5, <3>2 DEF CapturesShow, EffectsKept
      <3> QED
        BY <2>3, <3>3, <3>4, <3>5, <3>6 DEF ShellInv
    <2> QED
      BY <2>4, <2>5
  <1> QED
    BY <1>5, <1>10, <1>11, <1>12 DEF Inputs

LEMMA KilledKeeps ==
  ASSUME ShellInv, Killed \/ CloseCore \/ OthersWrite
  PROVE  ShellInv'
  <1>1. ShellTypeOK /\ CallUnderWay
    BY ShellParts
  <1>2. UNCHANGED <<uses, enabled, resolves, ended, doing, input, from, out, env, files, done,
                    kept, short>>
    BY DEF Killed, CloseCore, OthersWrite, given, promises
  <1>3. /\ held' \in BOOLEAN /\ alive' \in BOOLEAN /\ (alive' => alive) /\ closed' \in BOOLEAN
        /\ todo' = todo \/ todo' = <<>>
        /\ \/ phase' = phase
           \/ phase = "kills" /\ phase' = "starts"
    <2>1. held \in BOOLEAN /\ alive \in BOOLEAN /\ closed \in BOOLEAN
      BY <1>1 DEF ShellTypeOK
    <2>2. CASE Killed
      BY <2>1, <2>2 DEF Killed
    <2>3. CASE CloseCore
      BY <2>1, <2>3 DEF CloseCore
    <2>4. CASE OthersWrite
      BY <2>1, <2>4 DEF OthersWrite
    <2> QED
      BY <2>2, <2>3, <2>4
  <1>4. age' \in [{"last", "saved"} -> 0 .. Keep]
    <2>1. age \in [{"last", "saved"} -> 0 .. Keep]
      BY <1>1 DEF ShellTypeOK
    <2>2. ASSUME NEW n \in 0 .. Keep PROVE (IF n < Keep THEN n + 1 ELSE Keep) \in 0 .. Keep
      BY ONLY <2>2, ShellAssumption
    <2>3. age' = age \/ age' = [f \in DOMAIN age |-> IF age[f] < Keep THEN age[f] + 1 ELSE Keep]
      BY DEF Killed, CloseCore, OthersWrite
    <2> QED
      BY <2>1, <2>2, <2>3
  <1>5. todo' \in Seq([call : ShellCalls, as : Inputs]) /\ ToSet(todo') \subseteq ToSet(todo)
    BY <1>1, <1>3, SetOfNone DEF ShellTypeOK
  <1>6. ShellTypeOK'
    BY <1>1, <1>2, <1>3, <1>4, <1>5 DEF ShellTypeOK
  <1>7. CallUnderWay'
    BY <1>1, <1>2, <1>3 DEF CallUnderWay
  <1> QED
    BY <1>2, <1>3, <1>5, <1>6, <1>7, ShellQuiet

\* A new shell has what its snapshot restores; where that is the last one, this is what
\* was promised of it.
LEMMA StartDoneKeeps ==
  ASSUME ShellInv, StartDone
  PROVE  ShellInv'
  <1>1. ShellTypeOK /\ CallUnderWay /\ LastHoldsKept /\ short = {}
    BY ShellParts
  <1>2. doing \in ShellCalls /\ input \in Inputs /\ ended[doing] = "new"
    BY <1>1 DEF StartDone, CallUnderWay
  <1>3. /\ held' = TRUE /\ alive' = TRUE /\ out' = <<>> /\ env' = Restored(from)
        /\ done' = IF from = "last" /\ There("last") /\ resolves THEN kept ELSE {}
        /\ UNCHANGED <<uses, enabled, resolves, files, age, closed, kept, short>>
    BY DEF StartDone, given
  <1>4. done' \subseteq env' /\ env' \subseteq ShellCalls
    <2>1. ASSUME NEW f \in {"last", "saved"}, There(f) PROVE files[f] \subseteq ShellCalls
      BY <1>1, <2>1 DEF ShellTypeOK, There
    <2>2. env' \subseteq ShellCalls
      BY <1>1, <1>3, <2>1 DEF ShellTypeOK, Restored
    <2>3. from = "last" /\ There("last") /\ resolves => kept \subseteq files["last"]
      BY <1>1 DEF LastHoldsKept, There
    <2>4. from = "last" /\ There("last") /\ resolves => env' = files["last"]
      BY <1>3 DEF Restored
    <2> QED
      BY <1>3, <2>2, <2>3, <2>4
  <1>5. out' \in Seq([call : ShellCalls, as : Inputs, shows : SUBSET ShellCalls]) /\ ToSet(out') = {}
    BY <1>3, SetOfNone
  <1>6. \/ /\ todo' = <<[call |-> doing, as |-> input]>> /\ phase' = "reads"
           /\ UNCHANGED <<ended, doing, input, from>>
        \/ /\ todo' = <<>> /\ phase' = "idle"
           /\ \E how \in {"timeout", "ok"} : ended' = [ended EXCEPT ![doing] = how]
           /\ doing' = NoCall /\ input' = "none" /\ from' = "none"
    BY DEF StartDone
  <1>7. /\ todo' \in Seq([call : ShellCalls, as : Inputs])
        /\ ToSet(todo') \subseteq {[call |-> doing', as |-> input']}
        /\ ended' \in [ShellCalls -> {"new", "ok", "died", "timeout", "cancelled"}]
        /\ \A c \in ShellCalls : ended'[c] = "new" => ended[c] = "new" /\ (c = doing => c = doing')
        /\ doing' \in {doing, NoCall} /\ (doing' = doing => input' = input)
        /\ doing' \in ShellCalls \cup {NoCall} /\ input' \in Inputs \cup {"none"}
        /\ phase' \in {"idle", "reads"} /\ from' \in {"none", "last", "saved"}
    <2>1. ended \in [ShellCalls -> {"new", "ok", "died", "timeout", "cancelled"}]
          /\ from \in {"none", "last", "saved"}
      BY <1>1 DEF ShellTypeOK
    <2>2. CASE /\ todo' = <<[call |-> doing, as |-> input]>> /\ phase' = "reads"
               /\ UNCHANGED <<ended, doing, input, from>>
      <3>1. [call |-> doing, as |-> input] \in [call : ShellCalls, as : Inputs]
        BY <1>2
      <3>2. /\ <<[call |-> doing, as |-> input]>> \in Seq([call : ShellCalls, as : Inputs])
            /\ ToSet(<<[call |-> doing, as |-> input]>>) \subseteq {[call |-> doing, as |-> input]}
        <4> DEFINE e == [call |-> doing, as |-> input]
                   S == [call : ShellCalls, as : Inputs]
        <4>1. e \in S
          BY <3>1
        <4> HIDE DEF e, S
        <4>2. <<e>> \in Seq(S) /\ ToSet(<<e>>) \subseteq {e}
          BY <4>1 DEF ToSet
        <4> QED
          BY <4>2 DEF e, S
      <3> QED
        BY <1>2, <2>1, <2>2, <3>2
    <2>3. CASE /\ todo' = <<>> /\ phase' = "idle"
               /\ \E how \in {"timeout", "ok"} : ended' = [ended EXCEPT ![doing] = how]
               /\ doing' = NoCall /\ input' = "none" /\ from' = "none"
      BY <1>2, <2>1, <2>3, SetOfNone, ShellAssumption
    <2> QED
      BY <1>6, <2>2, <2>3
  <1>8. ShellTypeOK'
    <2>1. done' \subseteq ShellCalls
      BY <1>1, <1>3 DEF ShellTypeOK
    <2> QED
      BY <1>1, <1>3, <1>4, <1>5, <1>7, <2>1 DEF ShellTypeOK
  <1>9. CallUnderWay'
    BY <1>2, <1>6 DEF CallUnderWay
  <1>10. TracesOfCalls'
    BY <1>5, <1>7, <1>8, TracesStay
  <1>11. CapturesShow' /\ LastHoldsKept' /\ EffectsKept'
    BY <1>1, <1>3, <1>4, <1>5 DEF CapturesShow, LastHoldsKept, EffectsKept
  <1> QED
    BY <1>8, <1>9, <1>10, <1>11 DEF ShellInv

LEMMA ShellRunsKeeps ==
  ASSUME ShellInv, ShellRuns
  PROVE  ShellInv'
  <1> DEFINE i == Head(todo)
             e == [call |-> i.call, as |-> i.as, shows |-> IF i.as \in Captures THEN env ELSE {}]
             S == [call : ShellCalls, as : Inputs, shows : SUBSET ShellCalls]
  <1>1. /\ ShellTypeOK /\ CallUnderWay /\ TracesOfCalls /\ CapturesShow /\ LastHoldsKept
        /\ (alive => done \subseteq env) /\ short = {}
    BY ShellParts
  <1>2. /\ Tail(todo) \in Seq([call : ShellCalls, as : Inputs])
        /\ ToSet(Tail(todo)) \subseteq ToSet(todo)
        /\ i \in ToSet(todo) /\ i \in [call : ShellCalls, as : Inputs]
    BY <1>1, SetOfTail DEF ShellRuns, ShellTypeOK
  <1>3. UNCHANGED <<uses, enabled, resolves, ended, doing, phase, input, from, held, files, age,
                    closed, done, kept, short>>
    BY DEF ShellRuns, given, promises
  <1>4. CASE alive' = FALSE /\ todo' = <<>> /\ UNCHANGED <<env, out>>
    <2>1. ShellTypeOK'
      BY <1>1, <1>3, <1>4, SetOfNone DEF ShellTypeOK
    <2>2. CallUnderWay'
      BY <1>1, <1>3 DEF CallUnderWay
    <2> QED
      BY <1>3, <1>4, <2>1, <2>2, SetOfNone, ShellQuiet
  <1>5. CASE /\ env' = IF i.as = "command" THEN env \cup {i.call} ELSE env
             /\ out' = Append(out, e) /\ todo' = Tail(todo) /\ alive' = alive
    <2>1. e \in S /\ out \in Seq(S)
      BY <1>1, <1>2 DEF ShellTypeOK
    <2>2. e.call = i.call /\ e.as = i.as /\ (i.as \in Captures => e.shows = env)
      OBVIOUS
    <2>3. env \subseteq env' /\ env' \subseteq ShellCalls /\ (i.as = "command" => i.call \in env')
      BY <1>1, <1>2, <1>5 DEF ShellTypeOK
    <2>4. alive /\ done \subseteq env
      BY <1>1 DEF ShellRuns
    <2> HIDE DEF e, S
    <2>5. out' \in Seq(S) /\ ToSet(out') = ToSet(out) \cup {e}
      BY <1>5, <2>1, SetOfAppend
    <2>6. ShellTypeOK'
      BY <1>1, <1>2, <1>3, <1>5, <2>3, <2>5 DEF ShellTypeOK, S
    <2>7. CallUnderWay'
      BY <1>1, <1>3 DEF CallUnderWay
    <2>8. TracesOfCalls'
      <3>1. [call |-> e.call, as |-> e.as] = i
        BY <1>2, <2>2
      <3>2. Traces' \subseteq Traces
        BY <1>2, <1>5, <2>5, <3>1 DEF Traces
      <3> QED
        BY <1>1, <1>3, <3>2 DEF TracesOfCalls
    <2>9. CapturesShow'
      <3> SUFFICES ASSUME NEW d \in ToSet(out')
                   PROVE  /\ d.call = doing /\ d.as = input /\ input \in {"query", "snap"}
                                => done \subseteq d.shows
                          /\ d.as = "command" => d.call \in env'
        BY <1>3 DEF CapturesShow
      <3>1. CASE d \in ToSet(out)
        BY <1>1, <2>3, <2>4, <3>1 DEF CapturesShow
      <3>2. CASE d = e
        BY <2>2, <2>3, <2>4, <3>2 DEF Captures
      <3> QED
        BY <2>5, <3>1, <3>2
    <2>10. LastHoldsKept' /\ EffectsKept'
      BY <1>1, <1>3, <2>3, <2>4 DEF LastHoldsKept, EffectsKept
    <2> QED
      BY <2>6, <2>7, <2>8, <2>9, <2>10 DEF ShellInv
  <1> QED
    BY <1>4, <1>5 DEF ShellRuns

LEMMA ShellStep == ShellInv /\ [NextShell]_shell => ShellInv'
  <1> SUFFICES ASSUME ShellInv, [NextShell]_shell PROVE ShellInv'
    OBVIOUS
  <1>1. CASE UNCHANGED shell
    <2>1. /\ ShellTypeOK /\ CallUnderWay /\ TracesOfCalls /\ CapturesShow /\ LastHoldsKept
          /\ EffectsKept
      BY DEF ShellInv
    <2>2. ShellTypeOK' /\ CallUnderWay' /\ LastHoldsKept' /\ EffectsKept'
      BY <1>1, <2>1 DEF ShellTypeOK, CallUnderWay, LastHoldsKept, EffectsKept, shell, given, promises
    <2>3. TracesOfCalls' /\ CapturesShow'
      BY <1>1, <2>1 DEF TracesOfCalls, Traces, CapturesShow, shell, promises
    <2> QED
      BY <2>2, <2>3 DEF ShellInv
  <1> QED
    BY <1>1, BeginKeeps, ReturnsKeeps, FailsKeeps, KilledKeeps, StartDoneKeeps, ShellRunsKeeps
       DEF NextShell

\* What a command that succeeded has exported stays in effect in the shell and in the jobs
\* that ask it, whatever is cancelled, times out or is left in the pipe.
THEOREM ShellEffects == ShellSpec => [](ShellTypeOK /\ EffectsKept)
  <1>1. ShellInv => ShellTypeOK /\ EffectsKept
    BY DEF ShellInv
  <1> QED
    BY <1>1, ShellStart, ShellStep, PTL DEF ShellSpec

-----------------------------------------------------------------------------
(* Messages *)

\* What stands in a session's line is a request of it that is there, once; and who waits
\* is at its head.
LinesHold == \A a \in Agents :
    /\ \A r \in ToSet(line[a]) : r \in Turns \cup Sent /\ To(r) = a /\ place[r] = "line"
    /\ \A i, j \in DOMAIN line[a] : line[a][i] = line[a][j] => i = j
    /\ wait[a] # Nobody => line[a] # <<>>

\* A message has a place once it is sent, and a history only then; a reply goes to the
\* sender of its query.
LettersKnown == \A m \in Messages :
    /\ place[m] # "new" <=> m \in Sent
    /\ m \notin Sent => replies[m] = 0 /\ result[m] = "none" /\ m \notin woken
    /\ m \in Sent /\ letter[m].re # Nobody =>
        letter[m].re \in Sent /\ letter[m].to = letter[letter[m].re].from

\* A tool waits for the reply to a query of its own, which has no result yet; a reply
\* sets its future, and only what lands on it cancels the future.
WaitsKnown == \A a \in Agents :
    /\ wait[a] \in Messages =>
        /\ wait[a] \in Sent /\ letter[wait[a]].from = a /\ result[wait[a]] = "none"
        /\ heard[a] = "set" => wait[a] \in woken
    /\ wait[a] # Nobody /\ heard[a] = "cancelled" => landedOn[a] # {}
    /\ wait[a] = Mail /\ heard[a] = "set" => came[a] \in Sent
    /\ \A m \in older[a] : m \in Sent /\ place[m] \in {"line", "over", "lost"}

\* Cancellations come from cancel_session_tasks.
StruckKnown ==
    /\ marked \subseteq struck
    /\ \A r \in hit : r \in Turns \cup Sent /\ To(r) \in struck
    /\ \A a \in Agents : "cancelled" \in landedOn[a] => a \in struck

TalkInv ==
    /\ TalkTypeOK /\ LinesHold /\ LettersKnown /\ WaitsKnown /\ StruckKnown
    /\ RepliesOnce /\ WaitHearsNext

LEMMA TalkParts ==
  ASSUME TalkInv
  PROVE  /\ TalkTypeOK /\ LinesHold /\ LettersKnown /\ WaitsKnown /\ StruckKnown
         /\ RepliesOnce /\ WaitHearsNext
  BY DEF TalkInv

LEMMA TalkStart == InitTalk => TalkInv
  <1> SUFFICES ASSUME InitTalk PROVE TalkInv
    OBVIOUS
  <1>1. Sent = {}
    BY DEF InitTalk, Sent
  <1>2. TalkTypeOK
    <2>1. line \in [Agents -> Seq(Requests)]
      BY SetOfNone, Zenon DEF InitTalk
    <2> QED
      BY <2>1, TalkAssumption DEF InitTalk, TalkTypeOK
  <1>3. LinesHold /\ WaitHearsNext
    BY TalkAssumption DEF InitTalk, LinesHold, WaitHearsNext, ToSet
  <1>4. LettersKnown /\ WaitsKnown /\ RepliesOnce /\ StruckKnown
    BY <1>1, TalkAssumption DEF InitTalk, LettersKnown, WaitsKnown, RepliesOnce, StruckKnown, Requests
  <1> QED
    BY <1>2, <1>3, <1>4 DEF TalkInv

\* The messages that are sent, and to whom.
LEMMA TalkBasics ==
  ASSUME TalkInv
  PROVE  /\ Sent \subseteq Messages /\ Turns \cup Sent \subseteq Requests
         /\ \A m \in Sent : letter[m] \in Letters
         /\ \A r \in Turns \cup Sent : To(r) \in Agents
  <1>1. Sent \subseteq Messages /\ \A m \in Sent : letter[m] \in Letters
    BY DEF Sent, TalkInv, TalkTypeOK
  <1>2. ASSUME NEW r \in Turns \cup Sent PROVE To(r) \in Agents
    <2>1. r \in Sent => letter[r].to \in Agents
      BY <1>1 DEF Letters
    <2> QED
      BY <2>1, TalkAssumption DEF To
  <1> QED
    BY <1>1, <1>2 DEF Requests

\* Of a line, without one that stands in it once.
LEMMA LineWithoutOne ==
  ASSUME NEW S, NEW q \in Seq(S), NEW r,
         \A i, j \in DOMAIN q : q[i] = q[j] => i = j
  PROVE  /\ LineWithout(q, r) \in Seq(S)
         /\ ToSet(LineWithout(q, r)) = ToSet(q) \ {r}
         /\ \A i, j \in DOMAIN LineWithout(q, r) : LineWithout(q, r)[i] = LineWithout(q, r)[j] => i = j
  <1>1. CASE r \notin ToSet(q)
    BY <1>1 DEF LineWithout
  <1>2. CASE r \in ToSet(q)
    <2> DEFINE k == CHOOSE i \in DOMAIN q : q[i] = r
    <2>1. k \in DOMAIN q /\ q[k] = r
      BY <1>2 DEF ToSet
    <2>2. k \in 1 .. Len(q) /\ Len(q) \in Nat /\ DOMAIN q = 1 .. Len(q)
      BY <2>1
    <2>3. \A i \in 1 .. Len(q) : q[i] \in S
      OBVIOUS
    <2> DEFINE A == SubSeq(q, 1, k - 1)
               B == SubSeq(q, k + 1, Len(q))
               W == A \o B
    <2>4. LineWithout(q, r) = W
      BY <1>2 DEF LineWithout, RemoveAt
    <2> HIDE DEF k
    <2>5. /\ A \in Seq(S) /\ Len(A) = k - 1 /\ \A i \in 1 .. k - 1 : A[i] = q[i]
      <3>1. \A i \in 1 .. k - 1 : q[i] \in S
        BY <2>2, <2>3
      <3> QED
        BY <2>2, <3>1, SubSeqProperties
    <2>6. /\ B \in Seq(S) /\ Len(B) = Len(q) - k /\ \A i \in 1 .. Len(q) - k : B[i] = q[k + i]
      <3>1. (\A i \in k + 1 .. Len(q) : q[i] \in S) /\ k + 1 \in Int /\ Len(q) \in Int
        BY <2>2, <2>3
      <3>2. /\ B \in Seq(S) /\ Len(B) = IF k + 1 <= Len(q) THEN Len(q) - (k + 1) + 1 ELSE 0
            /\ \A i \in 1 .. Len(q) - (k + 1) + 1 : B[i] = q[(k + 1) + i - 1]
        BY <3>1, SubSeqProperties
      <3> HIDE DEF B
      <3>3. Len(q) - (k + 1) + 1 = Len(q) - k /\ (~(k + 1 <= Len(q)) => Len(q) - k = 0)
        <4>1. k \in Nat /\ Len(q) \in Nat /\ k <= Len(q)
          BY <2>2
        <4> QED
          BY ONLY <4>1
      <3>4. \A i \in 1 .. Len(q) - k : (k + 1) + i - 1 = k + i
        BY ONLY <2>2
      <3> QED
        BY <3>2, <3>3, <3>4
    <2> HIDE DEF A, B
    <2>7. /\ W \in Seq(S) /\ Len(W) = Len(q) - 1 /\ DOMAIN W = 1 .. Len(q) - 1
          /\ \A i \in 1 .. Len(q) - 1 : W[i] = IF i < k THEN q[i] ELSE q[i + 1]
      <3>1. /\ W \in Seq(S) /\ Len(W) = Len(A) + Len(B)
            /\ \A i \in 1 .. Len(A) + Len(B) : W[i] = IF i <= Len(A) THEN A[i] ELSE B[i - Len(A)]
        BY <2>5, <2>6, ConcatProperties
      <3> HIDE DEF W
      <3>2. Len(A) + Len(B) = Len(q) - 1
        BY ONLY <2>2, <2>5, <2>6
      <3>3. DOMAIN W = 1 .. Len(q) - 1
        BY <3>1, <3>2
      <3>4. ASSUME NEW i \in 1 .. Len(q) - 1 PROVE W[i] = IF i < k THEN q[i] ELSE q[i + 1]
        <4>1. CASE i < k
          <5>1. i \in 1 .. k - 1 /\ i <= Len(A)
            BY <2>2, <2>5, <4>1
          <5> QED
            BY <2>5, <3>1, <3>2, <4>1, <5>1
        <4>2. CASE ~(i < k)
          <5>1. i - (k - 1) \in 1 .. Len(q) - k /\ ~(i <= k - 1) /\ k + (i - (k - 1)) = i + 1
            BY <2>2, <4>2
          <5> QED
            BY <2>5, <2>6, <3>1, <3>2, <4>2, <5>1
        <4> QED
          BY <4>1, <4>2
      <3> QED
        BY <3>1, <3>2, <3>3, <3>4
    <2> HIDE DEF W
    <2>8. ASSUME NEW i \in DOMAIN W, NEW j \in DOMAIN W, W[i] = W[j] PROVE i = j
      <3> DEFINE n == IF i < k THEN i ELSE i + 1
                 m == IF j < k THEN j ELSE j + 1
      <3>1. n \in 1 .. Len(q) /\ m \in 1 .. Len(q) /\ (n = m => i = j)
        BY <2>2, <2>7
      <3>2. W[i] = q[n] /\ W[j] = q[m]
        BY <2>7
      <3> HIDE DEF n, m
      <3> QED
        BY <2>2, <2>8, <3>1, <3>2
    <2>9. ToSet(W) = ToSet(q) \ {r}
      <3>1. ASSUME NEW i \in DOMAIN W PROVE W[i] \in ToSet(q) \ {r}
        BY <2>1, <2>2, <2>7, <3>1 DEF ToSet
      <3>2. ASSUME NEW i \in DOMAIN q, q[i] # r PROVE \E j \in DOMAIN W : W[j] = q[i]
        <4>1. CASE i < k
          <5>1. i \in DOMAIN W
            BY <2>2, <2>7, <4>1
          <5> QED
            BY <2>7, <4>1, <5>1
        <4>2. CASE i > k
          <5>1. i - 1 \in DOMAIN W
            BY <2>2, <2>7, <4>2
          <5>2. i - 1 + 1 = i /\ ~(i - 1 < k)
            BY <2>2, <4>2
          <5> QED
            BY <2>7, <5>1, <5>2
        <4> QED
          BY <2>1, <2>2, <3>2, <4>1, <4>2
      <3> QED
        BY <3>1, <3>2 DEF ToSet
    <2> QED
      BY <2>4, <2>7, <2>8, <2>9
  <1> QED
    BY <1>1, <1>2

LEMMA LineLonger ==
  ASSUME NEW S, NEW q \in Seq(S), NEW r \in S, r \notin ToSet(q),
         \A i, j \in DOMAIN q : q[i] = q[j] => i = j
  PROVE  /\ Append(q, r) \in Seq(S) /\ ToSet(Append(q, r)) = ToSet(q) \cup {r}
         /\ \A i, j \in DOMAIN Append(q, r) : Append(q, r)[i] = Append(q, r)[j] => i = j
         /\ Append(q, r) # <<>>
  <1> DEFINE W == Append(q, r)
  <1>1. /\ W \in Seq(S) /\ Len(W) = Len(q) + 1 /\ W[Len(q) + 1] = r /\ Len(q) \in Nat
        /\ DOMAIN W = 1 .. Len(q) + 1 /\ DOMAIN q = 1 .. Len(q)
        /\ \A i \in 1 .. Len(q) : W[i] = q[i]
    OBVIOUS
  <1>2. \A i \in DOMAIN q : q[i] # r
    BY DEF ToSet
  <1> HIDE DEF W
  <1>3. \A i, j \in DOMAIN W : W[i] = W[j] => i = j
    BY <1>1, <1>2
  <1>4. ToSet(W) = ToSet(q) \cup {r}
    BY <1>1 DEF ToSet
  <1>5. W # <<>>
    BY <1>1
  <1> QED
    BY <1>1, <1>3, <1>4, <1>5 DEF W

-----------------------------------------------------------------------------
\* While no message is sent.
LEMMA SentStay == ASSUME letter' = letter
  PROVE /\ Sent' = Sent /\ \A r : To(r)' = To(r)
        /\ \A q : Mailed(q)' = Mailed(q)
  BY DEF Sent, To, Mailed

\* What a reply was to bring stays as it is while no reply is given, no tool goes on and a
\* reply is lost only with the sender's session struck.
LEMMA RepliesStay ==
  ASSUME TalkInv, UNCHANGED <<letter, replies, result, woken>>, struck \subseteq struck',
         \A q \in woken : result[q] = "none" =>
            wait'[letter[q].from] = wait[letter[q].from] /\ heard'[letter[q].from] = "set",
         \A m \in Sent : place'[m] = "lost" => place[m] = "lost" \/ letter[m].to \in struck'
  PROVE  RepliesOnce'
  <1>1. RepliesOnce /\ LettersKnown
    BY TalkParts
  <1> SUFFICES ASSUME NEW q \in Sent
               PROVE  /\ replies[q] = Cardinality(Mailed(q)) + IF q \in woken THEN 1 ELSE 0
                      /\ \A m \in Mailed(q) : place'[m] = "lost" => letter[q].from \in struck'
                      /\ result[q] = "heard" => q \in woken
                      /\ q \in woken => \/ result[q] # "none"
                                        \/ wait'[letter[q].from] = q /\ heard'[letter[q].from] = "set"
                      /\ result[q] = "cancelled" => letter[q].from \in struck'
    BY SentStay DEF RepliesOnce
  <1>2. \A m \in Mailed(q) : place'[m] = "lost" => letter[q].from \in struck'
    <2> SUFFICES ASSUME NEW m \in Mailed(q), place'[m] = "lost" PROVE letter[q].from \in struck'
      OBVIOUS
    <2>1. m \in Sent /\ letter[m].re = q /\ m \in Messages /\ q \in Messages
      BY TalkBasics DEF Mailed
    <2>2. letter[m].to = letter[q].from
      BY <1>1, <2>1, TalkAssumption DEF LettersKnown
    <2> QED
      BY <1>1, <2>1, <2>2 DEF RepliesOnce
  <1> QED
    BY <1>1, <1>2 DEF RepliesOnce

\* Lines and waits stay as they are while requests that stand in no line move.
LEMMA WaitsStay ==
  ASSUME TalkInv, UNCHANGED <<letter, line, wait, heard, came, landedOn, result, woken, older>>,
         struck \subseteq struck',
         \A r \in Turns \cup Sent : place[r] \in {"line", "over", "lost"} => place'[r] = place[r]
  PROVE  LinesHold' /\ WaitsKnown'
  <1>1. LinesHold /\ WaitsKnown
    BY TalkParts
  <1>2. LinesHold'
    BY <1>1, SentStay DEF LinesHold
  <1>3. WaitsKnown'
    BY <1>1, SentStay DEF WaitsKnown
  <1> QED
    BY <1>2, <1>3

LEMMA MailStays ==
  ASSUME TalkInv, UNCHANGED <<letter, line, wait, heard, came, older, mailKeys>>
  PROVE  WaitHearsNext'
  BY TalkParts DEF WaitHearsNext

LEMMA LettersStay ==
  ASSUME TalkInv, UNCHANGED <<letter, replies, result, woken>>,
         \A m \in Messages : place'[m] = "new" <=> place[m] = "new"
  PROVE  LettersKnown'
  BY TalkParts, SentStay DEF LettersKnown

LEMMA RequestKeeps ==
  ASSUME TalkInv, NEW r \in Requests, SubmitTurn(r) \/ Dispatch(r), r \in Turns \/ Dispatch(r)
  PROVE  TalkInv'
  <1>1. TalkTypeOK /\ LettersKnown /\ StruckKnown
    BY TalkParts
  <1>2. /\ UNCHANGED <<letter, line, waits, replyKeys, mailKeys, readBy, hit, fate, histories>>
        /\ life' \in {"up", "draining", "down"} /\ life' = life
        /\ place[r] \in {"new", "queued"}
        /\ \E p \in {"queued", "spawned", "lost"} : place' = [place EXCEPT ![r] = p]
        /\ place[r] = "new" => r \in Turns
        /\ marked' \subseteq marked
        /\ place'[r] = "lost" => To(r) \in marked
    BY <1>1 DEF SubmitTurn, Dispatch, Cleared, TalkTypeOK
  <1>3. PICK p \in {"queued", "spawned", "lost"} : place' = [place EXCEPT ![r] = p]
    BY <1>2
  <1>4. /\ place' \in [Requests -> {"new", "queued", "spawned", "line", "over", "lost"}]
        /\ place'[r] = p /\ \A s \in Requests : s # r => place'[s] = place[s]
    BY <1>1, <1>3 DEF TalkTypeOK
  <1>5. TalkTypeOK'
    BY <1>1, <1>2, <1>4 DEF TalkTypeOK, waits, histories
  <1>6. \A m \in Messages : m \in Requests /\ m \notin Turns
    BY TalkAssumption DEF Requests
  <1>7. LettersKnown'
    BY <1>2, <1>4, <1>6, LettersStay DEF histories
  <1>8. LinesHold' /\ WaitsKnown'
    <2>1. \A s \in Turns \cup Sent : place[s] \in {"line", "over", "lost"} => place'[s] = place[s]
      BY <1>2, <1>4, TalkBasics
    <2> QED
      BY <1>2, <2>1, WaitsStay DEF waits, histories
  <1>9. StruckKnown'
    BY <1>1, <1>2, SentStay DEF StruckKnown, waits, histories
  <1>10. RepliesOnce'
    <2>1. \A m \in Sent : place'[m] = "lost" => place[m] = "lost" \/ letter[m].to \in struck'
      <3> SUFFICES ASSUME NEW m \in Sent, place'[m] = "lost", place[m] # "lost"
                   PROVE  letter[m].to \in struck
        BY <1>2 DEF histories
      <3>1. m \in Messages /\ m = r
        BY <1>4, <1>6, TalkBasics
      <3>2. To(r) = letter[r].to
        BY <1>6, <3>1 DEF To
      <3> QED
        BY <1>1, <1>2, <3>1, <3>2 DEF StruckKnown
    <2>2. \A q \in woken : result[q] = "none" =>
            wait'[letter[q].from] = wait[letter[q].from] /\ heard'[letter[q].from] = "set"
      <3>1. \A q \in woken : q \in Sent
        BY <1>1 DEF LettersKnown, TalkTypeOK
      <3> QED
        BY <1>2, <3>1, TalkParts DEF RepliesOnce, waits
    <2> QED
      BY <1>2, <2>1, <2>2, RepliesStay DEF histories
  <1>11. WaitHearsNext'
    BY <1>2, MailStays DEF waits, histories
  <1> QED
    BY <1>5, <1>7, <1>8, <1>9, <1>10, <1>11 DEF TalkInv

LEMMA StartKeeps ==
  ASSUME TalkInv, NEW r \in Requests, Start(r)
  PROVE  TalkInv'
  <1> DEFINE a == To(r)
  <1>1. TalkTypeOK /\ LinesHold /\ LettersKnown /\ WaitsKnown /\ StruckKnown /\ WaitHearsNext
    BY TalkParts
  <1>2. /\ UNCHANGED <<letter, wait, landedOn, replyKeys, readBy, marked, hit, fate, life,
                       bounds, histories>>
        /\ place[r] = "spawned"
        /\ place' = [place EXCEPT ![r] = "line"]
        /\ line' = [line EXCEPT ![a] = Append(line[a], r)]
        /\ r \in Turns => UNCHANGED <<mailKeys, heard, came>>
        /\ r \in Messages => WakeMail(a, r)
    <2>1. r \in Turns => r \notin Messages
      BY TalkAssumption
    <2> QED
      BY <2>1 DEF Start
  <1>3. r \in Turns \cup Sent /\ a \in Agents
    <2>1. r \in Turns \cup Sent
      BY <1>1, <1>2 DEF LettersKnown, Requests
    <2> QED
      BY <2>1, TalkBasics
  <1> HIDE DEF a
  <1>4. /\ place' \in [Requests -> {"new", "queued", "spawned", "line", "over", "lost"}]
        /\ place'[r] = "line" /\ \A s \in Requests : s # r => place'[s] = place[s]
    BY <1>1, <1>2 DEF TalkTypeOK
  <1>5. /\ r \notin ToSet(line[a])
        /\ line[a] \in Seq(Requests)
        /\ \A i, j \in DOMAIN line[a] : line[a][i] = line[a][j] => i = j
    BY <1>1, <1>2, <1>3 DEF LinesHold, TalkTypeOK
  <1>6. /\ line'[a] \in Seq(Requests) /\ ToSet(line'[a]) = ToSet(line[a]) \cup {r}
        /\ \A i, j \in DOMAIN line'[a] : line'[a][i] = line'[a][j] => i = j
        /\ line'[a] # <<>>
    <2> DEFINE q == line[a]
    <2>1. line'[a] = Append(q, r)
      BY <1>1, <1>2, <1>3 DEF TalkTypeOK
    <2>2. q \in Seq(Requests) /\ r \notin ToSet(q) /\ \A i, j \in DOMAIN q : q[i] = q[j] => i = j
      BY <1>5
    <2> HIDE DEF q
    <2>3. /\ Append(q, r) \in Seq(Requests) /\ ToSet(Append(q, r)) = ToSet(q) \cup {r}
          /\ \A i, j \in DOMAIN Append(q, r) : Append(q, r)[i] = Append(q, r)[j] => i = j
          /\ Append(q, r) # <<>>
      BY <2>2, LineLonger
    <2> QED
      BY <2>1, <2>3 DEF q
  <1>7. line' \in [Agents -> Seq(Requests)] /\ \A b \in Agents : b # a => line'[b] = line[b]
    BY <1>1, <1>2, <1>3, <1>6 DEF TalkTypeOK
  <1>8. /\ heard' \in [Agents -> {"open", "set", "cancelled"}]
        /\ came' \in [Agents -> Messages \cup {Nobody}]
        /\ mailKeys' \subseteq mailKeys
        /\ \A b \in Agents : b # a => heard'[b] = heard[b] /\ came'[b] = came[b]
        /\ mailKeys \ {a} \subseteq mailKeys'
        /\ heard'[a] # heard[a] \/ came'[a] # came[a] =>
             r \in Messages /\ wait[a] = Mail /\ heard[a] = "open" /\ heard'[a] = "set" /\ came'[a] = r
        /\ wait[a] = Mail /\ heard[a] = "open" /\ r \in Messages => heard'[a] = "set"
        /\ r \notin Messages => mailKeys' = mailKeys
    <2>1. CASE r \in Turns
      BY <1>1, <1>2, <2>1, TalkAssumption DEF TalkTypeOK
    <2>2. CASE r \in Messages
      <3>1. /\ mailKeys' = mailKeys \ {a}
            /\ heard' = IF Awaits(a) THEN [heard EXCEPT ![a] = "set"] ELSE heard
            /\ came' = IF Awaits(a) THEN [came EXCEPT ![a] = r] ELSE came
        BY <1>2, <2>2 DEF WakeMail
      <3>2. wait[a] = Mail /\ heard[a] = "open" <=> Awaits(a)
        BY <1>1, <1>3 DEF Awaits, WaitHearsNext
      <3>3. heard \in [Agents -> {"open", "set", "cancelled"}] /\ came \in [Agents -> Messages \cup {Nobody}]
        BY <1>1 DEF TalkTypeOK
      <3>4. CASE Awaits(a)
        <4>1. heard' = [heard EXCEPT ![a] = "set"] /\ came' = [came EXCEPT ![a] = r]
          BY <3>1, <3>4
        <4> QED
          BY <1>3, <2>2, <3>1, <3>2, <3>3, <3>4, <4>1
      <3>5. CASE ~Awaits(a)
        <4>1. heard' = heard /\ came' = came
          BY <3>1, <3>5
        <4> QED
          BY <1>3, <2>2, <3>1, <3>2, <3>3, <3>5, <4>1
      <3> QED
        BY <3>4, <3>5
    <2> QED
      BY <2>1, <2>2 DEF Requests
  <1>9. TalkTypeOK'
    BY <1>1, <1>2, <1>4, <1>7, <1>8 DEF TalkTypeOK, histories
  <1>10. LettersKnown'
    <2>1. \A m \in Messages : m \in Requests
      BY DEF Requests
    <2> QED
      BY <1>2, <1>4, <2>1, LettersStay DEF histories
  <1>11. LinesHold'
    <2> SUFFICES ASSUME NEW b \in Agents
                 PROVE  /\ \A s \in ToSet(line'[b]) : s \in Turns \cup Sent /\ To(s) = b /\ place'[s] = "line"
                        /\ \A i, j \in DOMAIN line'[b] : line'[b][i] = line'[b][j] => i = j
                        /\ wait'[b] # Nobody => line'[b] # <<>>
      BY <1>2, SentStay DEF LinesHold
    <2>1. CASE b = a
      BY <1>1, <1>3, <1>4, <1>6, <2>1, TalkBasics DEF LinesHold, a
    <2>2. CASE b # a
      BY <1>1, <1>2, <1>4, <1>7, <2>2, TalkBasics DEF LinesHold
    <2> QED
      BY <2>1, <2>2
  <1>12. WaitsKnown'
    <2> SUFFICES ASSUME NEW b \in Agents
                 PROVE  /\ wait[b] \in Messages =>
                            /\ wait[b] \in Sent /\ letter[wait[b]].from = b /\ result[wait[b]] = "none"
                            /\ heard'[b] = "set" => wait[b] \in woken
                        /\ wait[b] # Nobody /\ heard'[b] = "cancelled" => landedOn[b] # {}
                        /\ wait[b] = Mail /\ heard'[b] = "set" => came'[b] \in Sent
                        /\ \A m \in older[b] : m \in Sent /\ place'[m] \in {"line", "over", "lost"}
      BY <1>2, SentStay DEF WaitsKnown, histories
    <2>1. \A m \in older[b] : m \in Sent /\ place'[m] \in {"line", "over", "lost"}
      BY <1>1, <1>4, TalkBasics DEF WaitsKnown
    <2>2. r \in Messages => r \in Sent
      BY <1>3, TalkAssumption
    <2>3. wait[b] = Mail => wait[b] \notin Messages
      BY TalkAssumption
    <2> QED
      BY <1>1, <1>8, <2>1, <2>2, <2>3 DEF WaitsKnown
  <1>13. StruckKnown'
    BY <1>1, <1>2, SentStay DEF StruckKnown, histories
  <1>14. RepliesOnce'
    <2>1. \A m \in Sent : place'[m] = "lost" => place[m] = "lost"
      BY <1>4, TalkBasics
    <2>2. ASSUME NEW q \in woken, result[q] = "none"
          PROVE wait'[letter[q].from] = wait[letter[q].from] /\ heard'[letter[q].from] = "set"
      <3>1. q \in Sent /\ q \in Messages
        BY <1>1 DEF LettersKnown, TalkTypeOK
      <3>2. wait[letter[q].from] = q /\ heard[letter[q].from] = "set" /\ letter[q].from \in Agents
        BY <2>2, <3>1, TalkParts, TalkBasics DEF RepliesOnce, Letters
      <3>3. q # Mail
        BY <3>1, TalkAssumption
      <3> QED
        BY <1>2, <1>8, <3>2, <3>3
    <2> QED
      BY <1>2, <2>1, <2>2, RepliesStay DEF histories
  <1>15. WaitHearsNext'
    <2> SUFFICES ASSUME NEW b \in Agents, wait[b] = Mail
                 PROVE  /\ heard'[b] = "open" =>
                            b \in mailKeys' /\ ToSet(line'[b]) \cap Messages \subseteq older[b]
                        /\ heard'[b] = "set" => came'[b] \notin older[b] /\ letter[came'[b]].to = b
      BY <1>2 DEF WaitHearsNext, histories
    <2>1. CASE b # a
      BY <1>1, <1>7, <1>8, <2>1 DEF WaitHearsNext
    <2>2. CASE b = a /\ r \in Messages
      <3>1. r \notin older[a] /\ letter[r].to = a
        <4>1. r \notin Turns
          BY <2>2, TalkAssumption
        <4> QED
          BY <1>1, <1>2, <1>3, <4>1 DEF WaitsKnown, To, a
      <3> QED
        BY <1>1, <1>8, <2>2, <3>1 DEF WaitHearsNext
    <2>3. CASE b = a /\ r \notin Messages
      BY <1>1, <1>6, <1>8, <2>3 DEF WaitHearsNext
    <2> QED
      BY <2>1, <2>2, <2>3
  <1> QED
    BY <1>9, <1>10, <1>11, <1>12, <1>13, <1>14, <1>15 DEF TalkInv

LEMMA LeavesKeep ==
  ASSUME TalkInv, NEW r \in Requests, NEW how \in {"over", "lost"}, Leaves(r, how),
         place[r] \in {"spawned", "line"},
         line[To(r)] # <<>> /\ r = line[To(r)][1] => wait[To(r)] = Nobody,
         how = "lost" => r \in hit
  PROVE  TalkInv'
  <1> DEFINE a == To(r)
  <1>1. TalkTypeOK /\ LinesHold /\ LettersKnown /\ WaitsKnown /\ StruckKnown /\ WaitHearsNext
    BY TalkParts
  <1>2. /\ UNCHANGED <<letter, waits, replyKeys, mailKeys, readBy, fate, life, bounds, histories>>
        /\ place' = [place EXCEPT ![r] = how]
        /\ line' = [line EXCEPT ![a] = LineWithout(line[a], r)]
        /\ hit' = hit \ {r} /\ marked' \subseteq marked
    BY DEF Leaves, Cleared
  <1>3. r \in Turns \cup Sent /\ a \in Agents
    <2>1. r \in Turns \cup Sent
      BY <1>1 DEF LettersKnown, Requests
    <2> QED
      BY <2>1, TalkBasics
  <1> HIDE DEF a
  <1>4. /\ place' \in [Requests -> {"new", "queued", "spawned", "line", "over", "lost"}]
        /\ place'[r] = how /\ \A s \in Requests : s # r => place'[s] = place[s]
    BY <1>1, <1>2 DEF TalkTypeOK
  <1>6. /\ line'[a] \in Seq(Requests) /\ ToSet(line'[a]) = ToSet(line[a]) \ {r}
        /\ \A i, j \in DOMAIN line'[a] : line'[a][i] = line'[a][j] => i = j
    <2> DEFINE q == line[a]
    <2>1. line'[a] = LineWithout(q, r)
      BY <1>1, <1>2, <1>3 DEF TalkTypeOK
    <2>2. q \in Seq(Requests) /\ \A i, j \in DOMAIN q : q[i] = q[j] => i = j
      BY <1>1, <1>3 DEF TalkTypeOK, LinesHold
    <2> HIDE DEF q
    <2>3. /\ LineWithout(q, r) \in Seq(Requests)
          /\ ToSet(LineWithout(q, r)) = ToSet(q) \ {r}
          /\ \A i, j \in DOMAIN LineWithout(q, r) : LineWithout(q, r)[i] = LineWithout(q, r)[j] => i = j
      BY <2>2, LineWithoutOne
    <2> QED
      BY <2>1, <2>3 DEF q
  <1>7. line' \in [Agents -> Seq(Requests)] /\ \A b \in Agents : b # a => line'[b] = line[b]
    BY <1>1, <1>2, <1>3, <1>6 DEF TalkTypeOK
  <1>8. wait[a] # Nobody => line'[a] # <<>>
    <2> SUFFICES ASSUME wait[a] # Nobody PROVE line'[a] # <<>>
      OBVIOUS
    <2>1. line[a] # <<>> /\ line[a] \in Seq(Requests)
      BY <1>1, <1>3 DEF LinesHold, TalkTypeOK
    <2>2. line[a][1] # r /\ line[a][1] \in ToSet(line[a])
      <3>1. 1 \in DOMAIN line[a]
        BY <2>1
      <3> QED
        BY <2>1, <3>1 DEF a, ToSet
    <2> QED
      BY <1>6, <2>2, SetOfNone
  <1>9. TalkTypeOK'
    BY <1>1, <1>2, <1>4, <1>7 DEF TalkTypeOK, histories, waits
  <1>10. LettersKnown'
    <2>1. \A m \in Messages : m \in Requests
      BY DEF Requests
    <2> QED
      BY <1>2, <1>4, <2>1, LettersStay DEF histories
  <1>11. LinesHold'
    <2> SUFFICES ASSUME NEW b \in Agents
                 PROVE  /\ \A s \in ToSet(line'[b]) : s \in Turns \cup Sent /\ To(s) = b /\ place'[s] = "line"
                        /\ \A i, j \in DOMAIN line'[b] : line'[b][i] = line'[b][j] => i = j
                        /\ wait[b] # Nobody => line'[b] # <<>>
      BY <1>2, SentStay DEF LinesHold, waits
    <2>1. CASE b = a
      BY <1>1, <1>3, <1>4, <1>6, <1>8, <2>1, TalkBasics DEF LinesHold
    <2>2. CASE b # a
      BY <1>1, <1>2, <1>4, <1>7, <2>2, TalkBasics DEF LinesHold, a
    <2> QED
      BY <2>1, <2>2
  <1>12. WaitsKnown'
    <2>1. \A b \in Agents : \A m \in older[b] : m \in Sent /\ place'[m] \in {"line", "over", "lost"}
      BY <1>1, <1>4, TalkBasics DEF WaitsKnown
    <2> QED
      BY <1>1, <1>2, <2>1, SentStay DEF WaitsKnown, waits, histories
  <1>13. StruckKnown'
    BY <1>1, <1>2, SentStay DEF StruckKnown, histories, waits
  <1>14. RepliesOnce'
    <2>1. ASSUME NEW m \in Sent, place'[m] = "lost"
          PROVE  place[m] = "lost" \/ letter[m].to \in struck'
      <3> SUFFICES ASSUME m = r PROVE letter[m].to \in struck
        BY <1>2, <1>4, <2>1, TalkBasics DEF histories
      <3>1. To(r) = letter[r].to
        BY TalkAssumption, TalkBasics DEF To
      <3>2. how = "lost"
        BY <1>4, <2>1
      <3> QED
        BY <1>1, <3>1, <3>2 DEF StruckKnown
    <2>2. ASSUME NEW q \in woken, result[q] = "none"
          PROVE wait'[letter[q].from] = wait[letter[q].from] /\ heard'[letter[q].from] = "set"
      <3>1. q \in Sent
        BY <1>1 DEF LettersKnown, TalkTypeOK
      <3> QED
        BY <1>2, <2>2, <3>1, TalkParts DEF RepliesOnce, waits
    <2> QED
      BY <1>2, <2>1, <2>2, RepliesStay DEF histories
  <1>15. WaitHearsNext'
    <2>1. \A b \in Agents : ToSet(line'[b]) \subseteq ToSet(line[b])
      BY <1>6, <1>7
    <2> QED
      BY <1>1, <1>2, <2>1 DEF WaitHearsNext, waits, histories
  <1> QED
    BY <1>9, <1>10, <1>11, <1>12, <1>13, <1>14, <1>15 DEF TalkInv

-----------------------------------------------------------------------------
\* A new message: it is queued, nothing is known of it, and it counts for its query.
LEMMA PostAdds ==
  ASSUME TalkInv, NEW l \in Letters, Post(l), Sent # Messages
  PROVE  /\ Next1 \in Messages /\ Next1 \notin Sent /\ Next1 \notin Turns
         /\ letter' \in [Messages -> Letters \cup {Nobody}] /\ letter'[Next1] = l
         /\ \A m \in Sent : letter'[m] = letter[m]
         /\ Sent' = Sent \cup {Next1}
         /\ place' \in [Requests -> {"new", "queued", "spawned", "line", "over", "lost"}]
         /\ place'[Next1] = "queued" /\ \A r \in Requests : r # Next1 => place'[r] = place[r]
         /\ \A r \in Turns \cup Sent : To(r)' = To(r)
         /\ \A q \in Messages : Mailed(q)' = IF q = l.re THEN Mailed(q) \cup {Next1} ELSE Mailed(q)
  <1>1. TalkTypeOK
    BY TalkParts
  <1>2. Next1 \in Messages /\ Next1 \notin Sent
    BY TalkBasics DEF Next1
  <1> DEFINE n == Next1
  <1>3. letter' = [letter EXCEPT ![n] = l] /\ place' = [place EXCEPT ![n] = "queued"]
    BY DEF Post
  <1>4. n \in Messages /\ n \notin Sent /\ n \notin Turns
    BY <1>2, TalkAssumption
  <1> HIDE DEF n
  <1>5. /\ letter' \in [Messages -> Letters \cup {Nobody}] /\ letter'[n] = l
        /\ \A m \in Messages : m # n => letter'[m] = letter[m]
    BY <1>1, <1>3, <1>4 DEF TalkTypeOK
  <1>6. Sent' = Sent \cup {n}
    BY <1>4, <1>5, TalkAssumption DEF Sent
  <1>7. /\ place' \in [Requests -> {"new", "queued", "spawned", "line", "over", "lost"}]
        /\ place'[n] = "queued" /\ \A r \in Requests : r # n => place'[r] = place[r]
    BY <1>1, <1>3, <1>4 DEF TalkTypeOK, Requests
  <1>8. \A m \in Sent : letter'[m] = letter[m] /\ m \in Messages /\ m # n
    BY <1>4, <1>5, TalkBasics
  <1>9. \A r \in Turns \cup Sent : To(r)' = To(r)
    BY <1>8 DEF To
  <1>10. ASSUME NEW q \in Messages
         PROVE  Mailed(q)' = IF q = l.re THEN Mailed(q) \cup {n} ELSE Mailed(q)
    <2>1. Mailed(q)' = {m \in Sent \cup {n} : letter'[m].re = q}
      BY <1>6 DEF Mailed
    <2>2. Mailed(q) = {m \in Sent : letter[m].re = q}
      BY DEF Mailed
    <2> QED
      BY <1>5, <1>8, <2>1, <2>2
  <1> QED
    BY <1>4, <1>5, <1>6, <1>7, <1>8, <1>9, <1>10 DEF n

\* So far nothing is counted for it.
LEMMA NoneYet ==
  ASSUME TalkInv, NEW n \in Messages, n \notin Sent
  PROVE  /\ Mailed(n) = {} /\ replies[n] = 0 /\ n \notin woken /\ result[n] = "none"
         /\ n \notin UNION {older[a] : a \in Agents}
  <1>1. n # Nobody
    BY TalkAssumption
  <1>2. LettersKnown /\ WaitsKnown
    BY TalkParts
  <1>3. Mailed(n) = {}
    BY <1>1, <1>2, TalkBasics DEF LettersKnown, Mailed
  <1>4. n \notin UNION {older[a] : a \in Agents}
    BY <1>2 DEF WaitsKnown
  <1> QED
    BY <1>2, <1>3, <1>4 DEF LettersKnown

\* What a new message leaves as it was.
LEMMA PostKeeps ==
  ASSUME TalkInv, NEW l \in Letters, Post(l), Sent # Messages,
         UNCHANGED <<line, came, landedOn, mailKeys, marked, hit, result, older, struck>>,
         l.re # Nobody => l.re \in Sent /\ l.to = letter[l.re].from,
         \A m \in Messages : m = l.re \/ replies'[m] = replies[m], woken' = woken
  PROVE  /\ LettersKnown' /\ StruckKnown'
         /\ \A q \in Sent' : \A m \in Mailed(q)' : place'[m] = "lost" => letter'[q].from \in struck
         /\ \A r \in Turns \cup Sent : place[r] # "new"  => place'[r] = place[r]
         /\ \A a \in Agents : \A r \in ToSet(line[a]) :
                r \in Turns \cup Sent' /\ To(r)' = a /\ place'[r] = "line"
         /\ \A a \in Agents : \A m \in older[a] : m \in Sent /\ place'[m] \in {"line", "over", "lost"}
  <1> DEFINE n == Next1
  <1>1. LinesHold /\ LettersKnown /\ WaitsKnown /\ StruckKnown /\ RepliesOnce
    BY TalkParts
  <1>2. /\ n \in Messages /\ n \notin Sent /\ n \notin Turns
        /\ letter'[n] = l /\ \A m \in Sent : letter'[m] = letter[m]
        /\ Sent' = Sent \cup {n}
        /\ place'[n] = "queued" /\ \A r \in Requests : r # n => place'[r] = place[r]
        /\ \A r \in Turns \cup Sent : To(r)' = To(r)
        /\ \A q \in Messages : Mailed(q)' = IF q = l.re THEN Mailed(q) \cup {n} ELSE Mailed(q)
    BY PostAdds
  <1> HIDE DEF n
  <1>3. Sent \subseteq Messages /\ Turns \cup Sent \subseteq Requests /\ Messages \subseteq Requests
    BY TalkBasics DEF Requests
  <1>4. \A r \in Turns \cup Sent : place'[r] = place[r]
    BY <1>2, <1>3
  <1>5. LettersKnown'
    <2> SUFFICES ASSUME NEW m \in Messages
                 PROVE  /\ place'[m] # "new" <=> m \in Sent'
                        /\ m \notin Sent' => replies'[m] = 0 /\ result[m] = "none" /\ m \notin woken
                        /\ m \in Sent' /\ letter'[m].re # Nobody =>
                            letter'[m].re \in Sent' /\ letter'[m].to = letter'[letter'[m].re].from
      BY DEF LettersKnown
    <2>1. place'[m] # "new" <=> m \in Sent'
      BY <1>1, <1>2, <1>3 DEF LettersKnown
    <2>2. m \notin Sent' => replies'[m] = 0 /\ result[m] = "none" /\ m \notin woken
      BY <1>1, <1>2, TalkAssumption DEF LettersKnown
    <2>3. ASSUME m \in Sent, letter[m].re # Nobody
          PROVE  letter'[m].re \in Sent' /\ letter'[m].to = letter'[letter'[m].re].from
      BY <1>1, <1>2, <2>3 DEF LettersKnown
    <2>4. ASSUME m = n, l.re # Nobody
          PROVE  letter'[m].re \in Sent' /\ letter'[m].to = letter'[letter'[m].re].from
      BY <1>2, <2>4
    <2> QED
      BY <1>2, <2>1, <2>2, <2>3, <2>4
  <1>6. StruckKnown'
    BY <1>1, <1>2 DEF StruckKnown
  <1>7. ASSUME NEW q \in Sent', NEW m \in Mailed(q)', place'[m] = "lost"
        PROVE  letter'[q].from \in struck
    <2>1. m \in Mailed(q) /\ q \in Messages /\ m # n
      BY <1>2, <1>3, <1>7
    <2>2. m \in Sent /\ place[m] = "lost" /\ letter[m].re = q
      BY <1>2, <1>4, <1>7, <2>1, TalkBasics DEF Mailed
    <2>3. q \in Sent
      BY <1>1, <1>3, <2>1, <2>2, TalkAssumption DEF LettersKnown
    <2> QED
      BY <1>1, <1>2, <2>1, <2>2, <2>3 DEF RepliesOnce
  <1>8. \A a \in Agents : \A r \in ToSet(line[a]) :
                r \in Turns \cup Sent' /\ To(r)' = a /\ place'[r] = "line"
    BY <1>1, <1>2, <1>4 DEF LinesHold
  <1>9. \A a \in Agents : \A m \in older[a] : m \in Sent /\ place'[m] \in {"line", "over", "lost"}
    BY <1>1, <1>4 DEF WaitsKnown
  <1> QED
    BY <1>4, <1>5, <1>6, <1>7, <1>8, <1>9

LEMMA SendKeeps ==
  ASSUME TalkInv, NEW a \in Agents, NEW b \in Agents, NEW needs \in BOOLEAN, Send(a, b, needs)
  PROVE  TalkInv'
  <1> DEFINE l == [from |-> a, to |-> b, of |-> IF needs THEN "query" ELSE "notify", re |-> Nobody]
             n == Next1
  <1>1. TalkTypeOK /\ LinesHold /\ LettersKnown /\ WaitsKnown /\ RepliesOnce /\ WaitHearsNext
    BY TalkParts
  <1>2. /\ Post(l) /\ Sent # Messages /\ line[a] # <<>> /\ wait[a] = Nobody
        /\ UNCHANGED <<line, came, landedOn, mailKeys, readBy, marked, hit, fate, life, bounds,
                       histories>>
        /\ \/ /\ replyKeys' = replyKeys \cup {n} /\ wait' = [wait EXCEPT ![a] = n]
              /\ heard' = [heard EXCEPT ![a] = "open"]
           \/ UNCHANGED <<replyKeys, wait, heard>>
    BY DEF Send, Acts, Running
  <1>3. l \in Letters /\ l.re = Nobody /\ l.from = a
    BY DEF Letters
  <1> HIDE DEF l
  <1>4. /\ n \in Messages /\ n \notin Sent /\ n \notin Turns
        /\ letter' \in [Messages -> Letters \cup {Nobody}]
        /\ letter'[n] = l /\ \A m \in Sent : letter'[m] = letter[m]
        /\ Sent' = Sent \cup {n}
        /\ place' \in [Requests -> {"new", "queued", "spawned", "line", "over", "lost"}]
        /\ \A q \in Messages : Mailed(q)' = Mailed(q)
    <2>1. Nobody \notin Messages
      BY TalkAssumption
    <2> QED
      BY <1>2, <1>3, <2>1, PostAdds
  <1>5. /\ LettersKnown' /\ StruckKnown'
        /\ \A q \in Sent' : \A m \in Mailed(q)' : place'[m] = "lost" => letter'[q].from \in struck
        /\ \A c \in Agents : \A r \in ToSet(line[c]) :
                r \in Turns \cup Sent' /\ To(r)' = c /\ place'[r] = "line"
        /\ \A c \in Agents : \A m \in older[c] : m \in Sent /\ place'[m] \in {"line", "over", "lost"}
    BY <1>2, <1>3, PostKeeps DEF histories
  <1>6. Mailed(n) = {} /\ replies[n] = 0 /\ n \notin woken /\ result[n] = "none"
    BY <1>4, NoneYet
  <1> HIDE DEF n
  <1>7. /\ wait' \in [Agents -> Messages \cup {Mail, Nobody}]
        /\ heard' \in [Agents -> {"open", "set", "cancelled"}]
        /\ replyKeys' \subseteq Messages
        /\ \A c \in Agents : c # a => wait'[c] = wait[c] /\ heard'[c] = heard[c]
        /\ \/ wait'[a] = Nobody
           \/ wait'[a] = n /\ heard'[a] = "open"
    <2>1. /\ wait \in [Agents -> Messages \cup {Mail, Nobody}]
          /\ heard \in [Agents -> {"open", "set", "cancelled"}] /\ replyKeys \subseteq Messages
      BY <1>1 DEF TalkTypeOK
    <2>2. CASE UNCHANGED <<replyKeys, wait, heard>>
      BY <1>2, <2>1, <2>2
    <2>3. CASE /\ replyKeys' = replyKeys \cup {n} /\ wait' = [wait EXCEPT ![a] = n]
               /\ heard' = [heard EXCEPT ![a] = "open"]
      BY <1>4, <2>1, <2>3
    <2> QED
      BY <1>2, <2>2, <2>3
  <1>8. TalkTypeOK'
    BY <1>1, <1>2, <1>4, <1>7 DEF TalkTypeOK, histories
  <1>9. LinesHold'
    BY <1>1, <1>2, <1>5, <1>7 DEF LinesHold
  <1>10. WaitsKnown'
    <2> SUFFICES ASSUME NEW c \in Agents
                 PROVE  /\ wait'[c] \in Messages =>
                            /\ wait'[c] \in Sent' /\ letter'[wait'[c]].from = c /\ result[wait'[c]] = "none"
                            /\ heard'[c] = "set" => wait'[c] \in woken
                        /\ wait'[c] # Nobody /\ heard'[c] = "cancelled" => landedOn[c] # {}
                        /\ wait'[c] = Mail /\ heard'[c] = "set" => came[c] \in Sent'
                        /\ \A m \in older[c] : m \in Sent' /\ place'[m] \in {"line", "over", "lost"}
      BY <1>2 DEF WaitsKnown, histories
    <2>1. CASE c # a
      BY <1>1, <1>4, <1>5, <1>7, <2>1 DEF WaitsKnown
    <2>2. CASE c = a
      BY <1>3, <1>4, <1>5, <1>6, <1>7, <2>2, TalkAssumption
    <2> QED
      BY <2>1, <2>2
  <1>11. RepliesOnce'
    <2> SUFFICES ASSUME NEW q \in Sent'
                 PROVE  /\ replies[q] = Cardinality(Mailed(q)') + IF q \in woken THEN 1 ELSE 0
                        /\ result[q] = "heard" => q \in woken
                        /\ q \in woken => \/ result[q] # "none"
                                          \/ wait'[letter'[q].from] = q /\ heard'[letter'[q].from] = "set"
                        /\ result[q] = "cancelled" => letter'[q].from \in struck
      BY <1>2, <1>5 DEF RepliesOnce, histories
    <2>1. CASE q \in Sent
      <3>1. q # Nobody /\ Mailed(q)' = Mailed(q) /\ letter'[q] = letter[q] /\ letter[q].from \in Agents
        BY <1>4, <2>1, TalkBasics, TalkAssumption DEF Letters
      <3>2. letter[q].from = a => ~(wait[letter[q].from] = q)
        BY <1>2, <3>1
      <3> QED
        BY <1>1, <1>7, <2>1, <3>1, <3>2 DEF RepliesOnce
    <2>2. CASE q = n
      BY <1>4, <1>6, <2>2, FS_EmptySet
    <2> QED
      BY <1>4, <2>1, <2>2
  <1>12. WaitHearsNext'
    <2> SUFFICES ASSUME NEW c \in Agents, wait'[c] = Mail
                 PROVE  /\ heard'[c] = "open" =>
                            c \in mailKeys /\ ToSet(line[c]) \cap Messages \subseteq older[c]
                        /\ heard'[c] = "set" => came[c] \notin older[c] /\ letter'[came[c]].to = c
      BY <1>2 DEF WaitHearsNext, histories
    <2>1. c # a
      BY <1>4, <1>7, TalkAssumption
    <2>2. wait[c] = Mail /\ (heard[c] = "set" => came[c] \in Sent)
      BY <1>1, <1>7, <2>1 DEF WaitsKnown
    <2> QED
      BY <1>1, <1>4, <1>7, <2>1, <2>2 DEF WaitHearsNext
  <1> QED
    BY <1>5, <1>8, <1>9, <1>10, <1>11, <1>12 DEF TalkInv

\* A reply that finds the tool waiting sets its future, once.
LEMMA WakingKeeps ==
  ASSUME TalkInv, NEW a \in Agents, NEW q \in Messages, Reply(a, q), HasWaiter(q)
  PROVE  TalkInv'
  <1> DEFINE b == letter[q].from
  <1>1. TalkTypeOK /\ LinesHold /\ LettersKnown /\ WaitsKnown /\ StruckKnown
        /\ RepliesOnce /\ WaitHearsNext
    BY TalkParts
  <1>2. /\ q \in Sent /\ wait[b] = q /\ heard[b] = "open"
        /\ replies' = [replies EXCEPT ![q] = replies[q] + 1]
        /\ replyKeys' = replyKeys \ {q}
        /\ heard' = [heard EXCEPT ![b] = "set"]
        /\ woken' = woken \cup {q}
        /\ UNCHANGED <<letter, place, line, wait, came, landedOn, mailKeys, readBy, marked, hit,
                       fate, life, bounds, result, older, struck>>
    BY DEF Reply, HasWaiter, Knows
  <1>3. b \in Agents
    BY <1>2, TalkBasics DEF Letters
  <1>4. q \notin woken /\ result[q] = "none"
    BY <1>1, <1>2, <1>3 DEF RepliesOnce, WaitsKnown
  <1>5. /\ heard' \in [Agents -> {"open", "set", "cancelled"}] /\ heard'[b] = "set"
        /\ \A c \in Agents : c # b => heard'[c] = heard[c]
        /\ replies' \in [Messages -> Nat] /\ replies'[q] = replies[q] + 1
        /\ \A m \in Messages : m # q => replies'[m] = replies[m]
    BY <1>1, <1>2, <1>3 DEF TalkTypeOK
  <1>6. TalkTypeOK'
    BY <1>1, <1>2, <1>5 DEF TalkTypeOK
  <1>7. LinesHold' /\ LettersKnown' /\ StruckKnown'
    BY <1>1, <1>2, <1>5, SentStay DEF LinesHold, LettersKnown, StruckKnown
  <1>8. WaitsKnown'
    BY <1>1, <1>2, <1>3, <1>5, SentStay, TalkAssumption DEF WaitsKnown
  <1>9. WaitHearsNext'
    BY <1>1, <1>2, <1>3, <1>5, TalkAssumption DEF WaitHearsNext
  <1>10. RepliesOnce'
    <2> SUFFICES ASSUME NEW p \in Sent
                 PROVE  /\ replies'[p] = Cardinality(Mailed(p)) + IF p \in woken' THEN 1 ELSE 0
                        /\ \A m \in Mailed(p) : place[m] = "lost" => letter[p].from \in struck
                        /\ result[p] = "heard" => p \in woken'
                        /\ p \in woken' => \/ result[p] # "none"
                                           \/ wait[letter[p].from] = p /\ heard'[letter[p].from] = "set"
                        /\ result[p] = "cancelled" => letter[p].from \in struck
      BY <1>2, SentStay DEF RepliesOnce
    <2>1. p \in Messages /\ letter[p].from \in Agents
      BY TalkBasics DEF Letters
    <2>2. Cardinality(Mailed(p)) \in Nat
      <3>1. IsFiniteSet(Messages)
        BY FS_Interval, TalkAssumption DEF Messages
      <3>2. Mailed(p) \subseteq Messages
        BY TalkBasics DEF Mailed
      <3> QED
        BY <3>1, <3>2, FS_Subset, FS_CardinalityType
    <2>3. replies'[p] = Cardinality(Mailed(p)) + IF p \in woken' THEN 1 ELSE 0
      BY <1>1, <1>2, <1>4, <1>5, <2>1, <2>2 DEF RepliesOnce
    <2> QED
      BY <1>1, <1>2, <1>4, <1>5, <2>1, <2>3 DEF RepliesOnce
  <1> QED
    BY <1>1, <1>6, <1>7, <1>8, <1>9, <1>10 DEF TalkInv

\* Any other reply is a message to the sender.
LEMMA MailingKeeps ==
  ASSUME TalkInv, NEW a \in Agents, NEW q \in Messages, Reply(a, q), ~HasWaiter(q)
  PROVE  TalkInv'
  <1> DEFINE l == [from |-> a, to |-> letter[q].from, of |-> "reply", re |-> q]
             n == Next1
  <1>1. TalkTypeOK /\ LinesHold /\ LettersKnown /\ WaitsKnown /\ RepliesOnce /\ WaitHearsNext
    BY TalkParts
  <1>2. /\ q \in Sent /\ Post(l) /\ Sent # Messages
        /\ replies' = [replies EXCEPT ![q] = replies[q] + 1]
        /\ replyKeys' = replyKeys \ {q}
        /\ UNCHANGED <<heard, woken, line, wait, came, landedOn, mailKeys, readBy, marked, hit,
                       fate, life, bounds, result, older, struck>>
    BY DEF Reply, Knows
  <1>3. l \in Letters /\ l.re = q /\ l.to = letter[q].from
    BY <1>2, TalkBasics DEF Letters
  <1> HIDE DEF l
  <1>4. /\ n \in Messages /\ n \notin Sent /\ n \notin Turns
        /\ letter' \in [Messages -> Letters \cup {Nobody}]
        /\ letter'[n] = l /\ \A m \in Sent : letter'[m] = letter[m]
        /\ Sent' = Sent \cup {n}
        /\ place' \in [Requests -> {"new", "queued", "spawned", "line", "over", "lost"}]
        /\ \A p \in Messages : Mailed(p)' = IF p = q THEN Mailed(p) \cup {n} ELSE Mailed(p)
    BY <1>2, <1>3, PostAdds
  <1>5. /\ replies' \in [Messages -> Nat] /\ replies'[q] = replies[q] + 1
        /\ \A m \in Messages : m # q => replies'[m] = replies[m]
    BY <1>1, <1>2 DEF TalkTypeOK
  <1>6. /\ LettersKnown' /\ StruckKnown'
        /\ \A p \in Sent' : \A m \in Mailed(p)' : place'[m] = "lost" => letter'[p].from \in struck
        /\ \A c \in Agents : \A r \in ToSet(line[c]) :
                r \in Turns \cup Sent' /\ To(r)' = c /\ place'[r] = "line"
        /\ \A c \in Agents : \A m \in older[c] : m \in Sent /\ place'[m] \in {"line", "over", "lost"}
    BY <1>2, <1>3, <1>5, PostKeeps
  <1>7. Mailed(n) = {} /\ replies[n] = 0 /\ n \notin woken /\ result[n] = "none"
    BY <1>4, NoneYet
  <1> HIDE DEF n
  <1>8. TalkTypeOK'
    BY <1>1, <1>2, <1>4, <1>5 DEF TalkTypeOK
  <1>9. LinesHold'
    BY <1>1, <1>2, <1>6 DEF LinesHold
  <1>10. WaitsKnown'
    BY <1>1, <1>2, <1>4, <1>6 DEF WaitsKnown
  <1>11. RepliesOnce'
    <2> SUFFICES ASSUME NEW p \in Sent'
                 PROVE  /\ replies'[p] = Cardinality(Mailed(p)') + IF p \in woken THEN 1 ELSE 0
                        /\ result[p] = "heard" => p \in woken
                        /\ p \in woken => \/ result[p] # "none"
                                          \/ wait[letter'[p].from] = p /\ heard[letter'[p].from] = "set"
                        /\ result[p] = "cancelled" => letter'[p].from \in struck
      BY <1>2, <1>6 DEF RepliesOnce
    <2>1. CASE p = n
      <3>1. p # q /\ Mailed(p)' = {} /\ replies'[p] = 0
        BY <1>2, <1>4, <1>5, <1>7, <2>1
      <3> QED
        BY <1>7, <2>1, <3>1, FS_EmptySet
    <2>2. CASE p \in Sent
      <3>1. p \in Messages /\ letter'[p] = letter[p]
        BY <1>4, <2>2, TalkBasics
      <3>2. IsFiniteSet(Mailed(p)) /\ n \notin Mailed(p) /\ Cardinality(Mailed(p)) \in Nat
        <4>1. IsFiniteSet(Messages)
          BY FS_Interval, TalkAssumption DEF Messages
        <4>2. Mailed(p) \subseteq Messages /\ n \notin Mailed(p)
          BY <1>4, TalkBasics DEF Mailed
        <4> QED
          BY <4>1, <4>2, FS_Subset, FS_CardinalityType
      <3>3. Cardinality(Mailed(p) \cup {n}) = Cardinality(Mailed(p)) + 1
        BY <3>2, FS_AddElement
      <3>4. replies'[p] = Cardinality(Mailed(p)') + IF p \in woken THEN 1 ELSE 0
        <4>1. CASE p = q
          <5>1. Mailed(p)' = Mailed(p) \cup {n} /\ replies'[p] = replies[p] + 1
            BY <1>4, <1>5, <3>1, <4>1
          <5>2. replies[p] = Cardinality(Mailed(p)) + IF p \in woken THEN 1 ELSE 0
            BY <1>1, <2>2 DEF RepliesOnce
          <5> QED
            BY <3>2, <3>3, <5>1, <5>2
        <4>2. CASE p # q
          BY <1>1, <1>4, <1>5, <2>2, <3>1, <4>2 DEF RepliesOnce
        <4> QED
          BY <4>1, <4>2
      <3> QED
        BY <1>1, <2>2, <3>1, <3>4 DEF RepliesOnce
    <2> QED
      BY <1>4, <2>1, <2>2
  <1>12. WaitHearsNext'
    BY <1>1, <1>2, <1>4 DEF WaitHearsNext, WaitsKnown
  <1> QED
    BY <1>6, <1>8, <1>9, <1>10, <1>11, <1>12 DEF TalkInv

-----------------------------------------------------------------------------
LEMMA WaitForMailKeeps ==
  ASSUME TalkInv, NEW a \in Agents, WaitForMail(a)
  PROVE  TalkInv'
  <1>1. TalkTypeOK /\ LinesHold /\ LettersKnown /\ WaitsKnown /\ StruckKnown
        /\ RepliesOnce /\ WaitHearsNext
    BY TalkParts
  <1>2. /\ wait[a] = Nobody /\ line[a] # <<>>
        /\ mailKeys' = mailKeys \cup {a}
        /\ wait' = [wait EXCEPT ![a] = Mail] /\ heard' = [heard EXCEPT ![a] = "open"]
        /\ older' = [older EXCEPT ![a] = ToSet(line[a]) \cap Messages]
        /\ UNCHANGED <<place, letter, line, came, landedOn, replyKeys, readBy, marked, hit,
                       fate, life, replies, result, woken, struck>>
    BY DEF WaitForMail, Acts, Running
  <1>3. /\ wait' \in [Agents -> Messages \cup {Mail, Nobody}] /\ wait'[a] = Mail
        /\ heard' \in [Agents -> {"open", "set", "cancelled"}] /\ heard'[a] = "open"
        /\ older' \in [Agents -> SUBSET Messages] /\ older'[a] = ToSet(line[a]) \cap Messages
        /\ mailKeys' \subseteq Agents
        /\ \A c \in Agents : c # a => wait'[c] = wait[c] /\ heard'[c] = heard[c] /\ older'[c] = older[c]
    BY <1>1, <1>2 DEF TalkTypeOK
  <1>4. Mail \notin Messages /\ Nobody \notin Messages /\ Mail # Nobody /\ Turns \cap Messages = {}
    BY TalkAssumption
  <1>5. TalkTypeOK'
    BY <1>1, <1>2, <1>3 DEF TalkTypeOK
  <1>6. LinesHold' /\ LettersKnown' /\ StruckKnown'
    BY <1>1, <1>2, <1>3, SentStay DEF LinesHold, LettersKnown, StruckKnown
  <1>7. WaitsKnown'
    <2> SUFFICES ASSUME NEW c \in Agents
                 PROVE  /\ wait'[c] \in Messages =>
                            /\ wait'[c] \in Sent /\ letter[wait'[c]].from = c /\ result[wait'[c]] = "none"
                            /\ heard'[c] = "set" => wait'[c] \in woken
                        /\ wait'[c] # Nobody /\ heard'[c] = "cancelled" => landedOn[c] # {}
                        /\ wait'[c] = Mail /\ heard'[c] = "set" => came[c] \in Sent
                        /\ \A m \in older'[c] : m \in Sent /\ place[m] \in {"line", "over", "lost"}
      BY <1>2, SentStay DEF WaitsKnown
    <2>1. CASE c # a
      BY <1>1, <1>3, <2>1 DEF WaitsKnown
    <2>2. CASE c = a
      BY <1>1, <1>3, <1>4, <2>2 DEF LinesHold
    <2> QED
      BY <2>1, <2>2
  <1>8. RepliesOnce'
    <2>1. ASSUME NEW q \in woken, result[q] = "none"
          PROVE wait'[letter[q].from] = wait[letter[q].from] /\ heard'[letter[q].from] = "set"
      <3>1. q \in Sent /\ q \in Messages /\ letter[q].from \in Agents
        BY <1>1, TalkBasics DEF LettersKnown, TalkTypeOK, Letters
      <3>2. wait[letter[q].from] = q /\ heard[letter[q].from] = "set"
        BY <1>1, <2>1, <3>1 DEF RepliesOnce
      <3>3. letter[q].from # a
        BY <1>2, <1>4, <3>1, <3>2
      <3> QED
        BY <1>3, <3>1, <3>2, <3>3
    <2> QED
      BY <1>2, <2>1, RepliesStay
  <1>9. WaitHearsNext'
    <2> SUFFICES ASSUME NEW c \in Agents, wait'[c] = Mail
                 PROVE  /\ heard'[c] = "open" =>
                            c \in mailKeys' /\ ToSet(line[c]) \cap Messages \subseteq older'[c]
                        /\ heard'[c] = "set" => came[c] \notin older'[c] /\ letter[came[c]].to = c
      BY <1>2 DEF WaitHearsNext
    <2>1. CASE c # a
      BY <1>1, <1>2, <1>3, <2>1 DEF WaitHearsNext
    <2>2. CASE c = a
      BY <1>2, <1>3, <2>2
    <2> QED
      BY <2>1, <2>2
  <1> QED
    BY <1>5, <1>6, <1>7, <1>8, <1>9 DEF TalkInv

\* What lands on a waiting tool leaves a future that is set as it is.
LEMMA LandKeeps ==
  ASSUME TalkInv, NEW a \in Agents, TimesOut(a) \/ CancelSession(a)
  PROVE  TalkInv'
  <1>1. TalkTypeOK /\ LinesHold /\ LettersKnown /\ WaitsKnown /\ StruckKnown
        /\ RepliesOnce /\ WaitHearsNext
    BY TalkParts
  <1>2. /\ UNCHANGED <<place, letter, line, wait, came, replyKeys, mailKeys, readBy, fate, life,
                       replies, result, woken, older>>
        /\ \/ UNCHANGED <<marked, hit, struck>>
           \/ marked' = marked \cup {a} /\ hit' = hit \cup Tasks(a) /\ struck' = struck \cup {a}
        /\ \/ UNCHANGED <<landedOn, heard>>
           \/ \E landing \in {"timeout", "cancelled"} :
                /\ landedOn' = [landedOn EXCEPT ![a] = landedOn[a] \cup {landing}]
                /\ heard' = [heard EXCEPT ![a] = IF heard[a] = "open" THEN "cancelled" ELSE heard[a]]
                /\ landing = "cancelled" => a \in struck'
    BY DEF TimesOut, CancelSession, Land, histories, bounds
  <1>3. /\ landedOn' \in [Agents -> SUBSET {"timeout", "cancelled"}]
        /\ heard' \in [Agents -> {"open", "set", "cancelled"}]
        /\ \A c \in Agents : c # a => landedOn'[c] = landedOn[c] /\ heard'[c] = heard[c]
        /\ landedOn[a] \subseteq landedOn'[a]
        /\ "cancelled" \in landedOn'[a] => a \in struck' \/ "cancelled" \in landedOn[a]
        /\ \/ heard'[a] = heard[a]
           \/ heard[a] = "open" /\ heard'[a] = "cancelled" /\ landedOn'[a] # {}
    <2>1. landedOn \in [Agents -> SUBSET {"timeout", "cancelled"}] /\ heard \in [Agents -> {"open", "set", "cancelled"}]
      BY <1>1 DEF TalkTypeOK
    <2>2. CASE UNCHANGED <<landedOn, heard>>
      BY <2>1, <2>2
    <2>3. ASSUME NEW landing \in {"timeout", "cancelled"},
                 landedOn' = [landedOn EXCEPT ![a] = landedOn[a] \cup {landing}],
                 heard' = [heard EXCEPT ![a] = IF heard[a] = "open" THEN "cancelled" ELSE heard[a]],
                 landing = "cancelled" => a \in struck'
          PROVE  /\ landedOn' \in [Agents -> SUBSET {"timeout", "cancelled"}]
                 /\ heard' \in [Agents -> {"open", "set", "cancelled"}]
                 /\ \A c \in Agents : c # a => landedOn'[c] = landedOn[c] /\ heard'[c] = heard[c]
                 /\ landedOn[a] \subseteq landedOn'[a]
                 /\ "cancelled" \in landedOn'[a] => a \in struck' \/ "cancelled" \in landedOn[a]
                 /\ \/ heard'[a] = heard[a]
                    \/ heard[a] = "open" /\ heard'[a] = "cancelled" /\ landedOn'[a] # {}
      BY <2>1, <2>3
    <2> QED
      BY <1>2, <2>2, <2>3
  <1>4. /\ marked' \subseteq Agents /\ hit' \subseteq Requests /\ struck' \subseteq Agents
        /\ struck \subseteq struck' /\ marked' \subseteq struck'
        /\ \A r \in hit' : r \in Turns \cup Sent /\ To(r) \in struck'
    <2>1. \A r \in Tasks(a) : r \in Turns \cup Sent /\ To(r) = a
      BY DEF Tasks, Of
    <2> QED
      BY <1>1, <1>2, <2>1, TalkBasics DEF TalkTypeOK, StruckKnown
  <1>5. TalkTypeOK'
    BY <1>1, <1>2, <1>3, <1>4 DEF TalkTypeOK
  <1>6. LinesHold' /\ LettersKnown'
    BY <1>1, <1>2, SentStay DEF LinesHold, LettersKnown
  <1>7. WaitsKnown'
    BY <1>1, <1>2, <1>3, SentStay DEF WaitsKnown
  <1>8. StruckKnown'
    BY <1>1, <1>2, <1>3, <1>4, SentStay DEF StruckKnown
  <1>9. RepliesOnce'
    <2>1. ASSUME NEW q \in woken, result[q] = "none"
          PROVE wait'[letter[q].from] = wait[letter[q].from] /\ heard'[letter[q].from] = "set"
      <3>1. q \in Sent /\ letter[q].from \in Agents
        BY <1>1, TalkBasics DEF LettersKnown, TalkTypeOK, Letters
      <3>2. heard[letter[q].from] = "set"
        BY <1>1, <2>1, <3>1 DEF RepliesOnce
      <3> QED
        BY <1>2, <1>3, <3>1, <3>2
    <2> QED
      BY <1>2, <1>4, <2>1, RepliesStay
  <1>10. WaitHearsNext'
    BY <1>1, <1>2, <1>3 DEF WaitHearsNext
  <1> QED
    BY <1>5, <1>6, <1>7, <1>8, <1>9, <1>10 DEF TalkInv

LEMMA GoesOnKeeps ==
  ASSUME TalkInv, NEW a \in Agents, GoesOn(a)
  PROVE  TalkInv'
  <1>1. TalkTypeOK /\ LinesHold /\ LettersKnown /\ WaitsKnown /\ StruckKnown
        /\ RepliesOnce /\ WaitHearsNext
    BY TalkParts
  <1> DEFINE how == IF landedOn[a] = {} THEN "heard"
                    ELSE IF "cancelled" \in landedOn[a] THEN "cancelled" ELSE "timeout"
             q == wait[a]
  <1>2. /\ wait[a] # Nobody /\ heard[a] # "open"
        /\ wait' = [wait EXCEPT ![a] = Nobody] /\ heard' = [heard EXCEPT ![a] = "cancelled"]
        /\ came' = [came EXCEPT ![a] = Nobody] /\ landedOn' = [landedOn EXCEPT ![a] = {}]
        /\ older' = [older EXCEPT ![a] = {}]
        /\ UNCHANGED <<place, letter, line, mailKeys, marked, hit, fate, life, replies, woken,
                       struck>>
    BY DEF GoesOn
  <1>3. \/ /\ q = Mail /\ UNCHANGED <<replyKeys, result>>
           /\ readBy' = readBy \/ readBy' = [readBy EXCEPT ![a] = readBy[a] \cup {came[a]}]
        \/ /\ q # Mail /\ UNCHANGED readBy /\ replyKeys' = replyKeys \ {q}
           /\ result' = [result EXCEPT ![q] = how]
    BY DEF GoesOn
  <1>4. how \in {"heard", "cancelled", "timeout"}
    OBVIOUS
  <1>5. /\ wait' \in [Agents -> Messages \cup {Mail, Nobody}] /\ wait'[a] = Nobody
        /\ heard' \in [Agents -> {"open", "set", "cancelled"}]
        /\ came' \in [Agents -> Messages \cup {Nobody}]
        /\ landedOn' \in [Agents -> SUBSET {"timeout", "cancelled"}] /\ landedOn'[a] = {}
        /\ older' \in [Agents -> SUBSET Messages] /\ older'[a] = {}
        /\ \A c \in Agents : c # a => /\ wait'[c] = wait[c] /\ heard'[c] = heard[c]
                                      /\ came'[c] = came[c] /\ landedOn'[c] = landedOn[c]
                                      /\ older'[c] = older[c]
    BY <1>1, <1>2 DEF TalkTypeOK
  <1>6. /\ q \in Messages \cup {Mail} /\ Mail \notin Messages
        /\ q \in Messages => q \in Sent /\ letter[q].from = a /\ (landedOn[a] = {} => q \in woken)
                             /\ result[q] = "none"
    <2>1. q \in Messages \cup {Mail} /\ Mail \notin Messages
      BY <1>1, <1>2, TalkAssumption DEF TalkTypeOK
    <2>2. q \in Messages /\ landedOn[a] = {} => heard[a] = "set"
      BY <1>1, <1>2, TalkAssumption DEF TalkTypeOK, WaitsKnown
    <2> QED
      BY <1>1, <2>1, <2>2 DEF WaitsKnown
  <1>7. "cancelled" \in landedOn[a] => a \in struck
    BY <1>1 DEF StruckKnown
  <1>8. /\ how = "heard" => landedOn[a] = {}
        /\ how = "cancelled" => "cancelled" \in landedOn[a]
    OBVIOUS
  <1> HIDE DEF how, q
  <1>9. /\ result' \in [Messages -> {"none", "heard", "timeout", "cancelled"}]
        /\ q \in Messages => result'[q] = how
        /\ \A m \in Messages : m # q => result'[m] = result[m]
    <2>1. result \in [Messages -> {"none", "heard", "timeout", "cancelled"}]
      BY <1>1 DEF TalkTypeOK
    <2>2. CASE q = Mail
      BY <1>3, <1>6, <2>1, <2>2
    <2>3. CASE q # Mail
      BY <1>3, <1>4, <1>6, <2>1, <2>3
    <2> QED
      BY <2>2, <2>3
  <1>10. readBy' \in [Agents -> SUBSET (Messages \cup {Nobody})] /\ replyKeys' \subseteq Messages
    <2>1. /\ readBy \in [Agents -> SUBSET (Messages \cup {Nobody})] /\ replyKeys \subseteq Messages
          /\ came[a] \in Messages \cup {Nobody}
      BY <1>1 DEF TalkTypeOK
    <2>2. readBy[a] \cup {came[a]} \subseteq Messages \cup {Nobody}
      BY <2>1
    <2> QED
      BY <1>3, <2>1, <2>2
  <1>11. TalkTypeOK'
    BY <1>1, <1>2, <1>5, <1>9, <1>10 DEF TalkTypeOK
  <1>12. LinesHold'
    BY <1>1, <1>2, <1>5, SentStay DEF LinesHold
  <1>13. LettersKnown'
    BY <1>1, <1>2, <1>6, <1>9, SentStay DEF LettersKnown
  <1>14. StruckKnown'
    BY <1>1, <1>2, <1>5, SentStay DEF StruckKnown
  <1>15. WaitsKnown'
    <2> SUFFICES ASSUME NEW c \in Agents
                 PROVE  /\ wait'[c] \in Messages =>
                            /\ wait'[c] \in Sent /\ letter[wait'[c]].from = c /\ result'[wait'[c]] = "none"
                            /\ heard'[c] = "set" => wait'[c] \in woken
                        /\ wait'[c] # Nobody /\ heard'[c] = "cancelled" => landedOn'[c] # {}
                        /\ wait'[c] = Mail /\ heard'[c] = "set" => came'[c] \in Sent
                        /\ \A m \in older'[c] : m \in Sent /\ place[m] \in {"line", "over", "lost"}
      BY <1>2, SentStay DEF WaitsKnown
    <2>1. CASE c = a
      BY <1>5, <2>1, TalkAssumption
    <2>2. CASE c # a
      <3>1. wait[c] \in Messages => wait[c] # q
        BY <1>1, <1>6, <2>2 DEF WaitsKnown
      <3> QED
        BY <1>1, <1>5, <1>9, <2>2, <3>1 DEF WaitsKnown
    <2> QED
      BY <2>1, <2>2
  <1>16. RepliesOnce'
    <2> SUFFICES ASSUME NEW p \in Sent
                 PROVE  /\ result'[p] = "heard" => p \in woken
                        /\ p \in woken => \/ result'[p] # "none"
                                          \/ wait'[letter[p].from] = p /\ heard'[letter[p].from] = "set"
                        /\ result'[p] = "cancelled" => letter[p].from \in struck
      BY <1>1, <1>2, SentStay DEF RepliesOnce
    <2>1. p \in Messages /\ letter[p].from \in Agents
      BY TalkBasics DEF Letters
    <2>2. CASE p = q
      BY <1>4, <1>6, <1>7, <1>8, <1>9, <2>1, <2>2
    <2>3. CASE p # q
      BY <1>1, <1>5, <1>9, <2>1, <2>3 DEF RepliesOnce, q
    <2> QED
      BY <2>2, <2>3
  <1>17. WaitHearsNext'
    BY <1>1, <1>2, <1>5, TalkAssumption DEF WaitHearsNext
  <1> QED
    BY <1>11, <1>12, <1>13, <1>14, <1>15, <1>16, <1>17 DEF TalkInv

\* The keys go when no task is left, so nobody waits.
LEMMA EndsKeep ==
  ASSUME TalkInv, \/ \E s \in Subs : CancelSub(s) \/ Reap(s)
                  \/ StopBegins \/ StopEnds
                  \/ UNCHANGED talk
  PROVE  TalkInv'
  <1>1. TalkTypeOK /\ LinesHold /\ LettersKnown /\ WaitsKnown /\ StruckKnown
        /\ RepliesOnce /\ WaitHearsNext
    BY TalkParts
  <1>2. /\ UNCHANGED <<place, letter, line, waits, readBy, marked, hit, histories>>
        /\ fate' = fate \/ \E s \in Subs, f \in {"cancelled", "reaped"} : fate' = [fate EXCEPT ![s] = f]
        /\ life' = life \/ life' \in {"draining", "down"}
        /\ \/ UNCHANGED <<replyKeys, mailKeys>>
           \/ StopEnds /\ replyKeys' = {} /\ mailKeys' = {}
    <2>1. CASE \E s \in Subs : CancelSub(s) \/ Reap(s)
      <3>1. PICK s \in Subs : CancelSub(s) \/ Reap(s)
        BY <2>1
      <3>2. \E f \in {"cancelled", "reaped"} : fate' = [fate EXCEPT ![s] = f]
        BY <3>1 DEF CancelSub, Reap
      <3>3. UNCHANGED <<place, letter, line, waits, readBy, marked, hit, histories, replyKeys,
                        mailKeys, life>>
        BY <3>1 DEF CancelSub, Reap
      <3> QED
        BY <3>2, <3>3
    <2>2. CASE StopBegins
      BY <2>2 DEF StopBegins
    <2>3. CASE StopEnds
      BY <2>3 DEF StopEnds
    <2>4. CASE UNCHANGED talk
      BY <2>4 DEF talk, waits, histories
    <2> QED
      BY <2>1, <2>2, <2>3, <2>4
  <1>3. fate' \in [Subs -> {"open", "cancelled", "reaped"}]
    BY <1>1, <1>2 DEF TalkTypeOK
  <1>4. replyKeys' \subseteq Messages /\ mailKeys' \subseteq Agents
    BY <1>1, <1>2 DEF TalkTypeOK
  <1>5. TalkTypeOK'
    BY <1>1, <1>2, <1>3, <1>4 DEF TalkTypeOK, waits, histories
  <1>6. LinesHold' /\ LettersKnown' /\ StruckKnown'
    BY <1>1, <1>2, SentStay DEF LinesHold, LettersKnown, StruckKnown, waits, histories
  <1>7. WaitsKnown' /\ RepliesOnce'
    BY <1>1, <1>2, SentStay DEF WaitsKnown, RepliesOnce, waits, histories
  <1>8. StopEnds => \A a \in Agents : wait[a] = Nobody
    <2> SUFFICES ASSUME StopEnds, NEW a \in Agents, wait[a] # Nobody PROVE FALSE
      OBVIOUS
    <2>1. line[a] # <<>> /\ line[a] \in Seq(Requests)
      BY <1>1 DEF LinesHold, TalkTypeOK
    <2>2. line[a][1] \in ToSet(line[a])
      BY <2>1 DEF ToSet
    <2>3. line[a][1] \in Tasks(a)
      BY <1>1, <2>2 DEF LinesHold, Tasks, Of
    <2> QED
      BY <2>3 DEF StopEnds
  <1>9. WaitHearsNext'
    BY <1>1, <1>2, <1>8, TalkAssumption DEF WaitHearsNext, waits, histories
  <1> QED
    BY <1>5, <1>6, <1>7, <1>9 DEF TalkInv

LEMMA TalkStep == TalkInv /\ [NextTalk]_talk => TalkInv'
  <1> SUFFICES ASSUME TalkInv, [NextTalk]_talk PROVE TalkInv'
    OBVIOUS
  <1>1. ASSUME NEW t \in Turns, SubmitTurn(t) PROVE TalkInv'
    BY <1>1, RequestKeeps DEF Requests
  <1>2. ASSUME NEW r \in Requests, Dispatch(r) \/ Start(r) PROVE TalkInv'
    BY <1>2, RequestKeeps, StartKeeps
  <1>3. ASSUME NEW r \in Requests, Dies(r) PROVE TalkInv'
    BY <1>3, LeavesKeep DEF Dies
  <1>4. ASSUME NEW a \in Agents, EndTurn(a) PROVE TalkInv'
    <2> DEFINE r == line[a][1]
    <2>1. line[a] # <<>> /\ wait[a] = Nobody /\ Leaves(r, "over")
      BY <1>4 DEF EndTurn, Running
    <2>2. r \in ToSet(line[a])
      <3>1. line[a] \in Seq(Requests)
        BY DEF TalkInv, TalkTypeOK
      <3> QED
        BY <2>1, <3>1 DEF ToSet
    <2>3. r \in Requests /\ To(r) = a /\ place[r] = "line"
      BY <2>2, TalkBasics DEF TalkInv, LinesHold
    <2> HIDE DEF r
    <2> QED
      BY <2>1, <2>3, LeavesKeep
  <1>5. ASSUME NEW a \in Agents, NEW q \in Messages, Reply(a, q) PROVE TalkInv'
    BY <1>5, WakingKeeps, MailingKeeps
  <1>6. ASSUME NEW a \in Agents, NEW b \in Agents, NEW needs \in BOOLEAN, Send(a, b, needs)
        PROVE  TalkInv'
    BY <1>6, SendKeeps
  <1>7. ASSUME NEW a \in Agents, WaitForMail(a) \/ TimesOut(a) \/ CancelSession(a) \/ GoesOn(a)
        PROVE  TalkInv'
    BY <1>7, WaitForMailKeeps, LandKeeps, GoesOnKeeps
  <1>8. CASE \/ \E s \in Subs : CancelSub(s) \/ Reap(s)
             \/ StopBegins \/ StopEnds
             \/ UNCHANGED talk
    BY <1>8, EndsKeep
  <1> QED
    BY <1>1, <1>2, <1>3, <1>4, <1>5, <1>6, <1>7, <1>8 DEF NextTalk

\* Every reply reaches its sender once and a wait for mail hears the next message, however
\* many agents, messages, time-outs and cancellations there are.
THEOREM MailCorrect == TalkSpec => [](TalkTypeOK /\ MailArrives)
  <1>1. TalkInv => TalkTypeOK /\ MailArrives
    BY DEF TalkInv, MailArrives
  <1> QED
    BY <1>1, TalkStart, TalkStep, PTL DEF TalkSpec

-----------------------------------------------------------------------------
(* Mcp *)

\* Types.
McpTypeOK ==
    /\ jobs \subseteq Jobs
    /\ stage \in [Jobs -> {"new", "waits", "starts", "stops", "over"}]
    /\ what \in [Jobs -> Servers] /\ step \in [Jobs -> Nat \ {0}]
    /\ lock \in Jobs \cup {Idle} /\ refs \in [Servers -> Nat]
    /\ core \in [Cores -> {"absent", "loading", "live", "closing", "closed"}]
    /\ connected \subseteq Cores /\ lost \subseteq Cores
    /\ has \in [Cores -> SUBSET Servers] /\ keyOf \in [Cores -> SUBSET Servers]
    /\ keys \in [Cores -> Seq(Servers)]

\* A job is at its server; one that starts a process has the lock, and the process is
\* not counted; one that stops a process has released it.
JobsKnown == \A j \in Jobs :
    /\ j \notin jobs => stage[j] = "new"
    /\ stage[j] = "new" => step[j] = 1
    /\ j.does \in {"attach", "detach", "reload"} => what[j] = j.server
    /\ stage[j] = "starts" => lock = j /\ Acquires(j) /\ refs[what[j]] = 0
    /\ stage[j] = "stops" => ~Acquires(j)

\* One job at most loads a core.
LoadsKnown == \A j \in Jobs : j.does = "load" /\ stage[j] \in {"waits", "starts"} =>
    /\ core[j.core] = "loading"
    /\ \A k \in Jobs : k.does = "load" /\ stage[k] \in {"waits", "starts"} /\ k.core = j.core => k = j

\* One job at most closes a core, and stands in its list.
ClosesKnown == \A j \in Jobs : j.does = "close" =>
    /\ stage[j] \in {"waits", "stops"} =>
        /\ core[j.core] = "closing" /\ step[j] \in DOMAIN keys[j.core]
        /\ stage[j] = "waits" => what[j] = keys[j.core][step[j]]
        /\ \A k \in Jobs : k.does = "close" /\ stage[k] \in {"waits", "stops"} /\ k.core = j.core
              => k = j

\* A core in the pool is connected, and its list has what it can call and detach.
HasListed == \A c \in Cores :
    /\ core[c] = "live" => c \in connected
    /\ core[c] \in {"absent", "loading", "live"} =>
        /\ keyOf[c] \subseteq ToSet(keys[c])
        /\ \A s \in has[c] :
              \/ s \in ToSet(keys[c])
              \/ \E j \in jobs : j.does \in {"detach", "reload"} /\ j.core = c /\ j.server = s
                                 /\ stage[j] # "new"

ClosedEmpty == \A c \in Cores \ lost : core[c] = "closed" => keys[c] = <<>>

Counted == \A s \in Servers :
    /\ IsFiniteSet(Listed(s)) /\ IsFiniteSet(TakenOff(s))
    /\ refs[s] = Cardinality(Listed(s)) + Cardinality(TakenOff(s))

McpInv ==
    /\ McpTypeOK /\ JobsKnown /\ LoadsKnown /\ ClosesKnown /\ HasListed /\ ClosedEmpty /\ Counted

LEMMA LeastOf ==
  ASSUME NEW T, T \subseteq Nat, T # {}
  PROVE  \E x \in T : \A y \in T : x <= y
  <1>1. PICK x \in T : \A y \in T : ~ (<<y, x>> \in OpToRel(<, Nat))
    BY WFMin, NatLessThanWellFounded
  <1>2. \A y \in T : y \in Nat /\ x \in Nat /\ ~(y < x)
    BY <1>1 DEF OpToRel
  <1> QED
    BY <1>2

\* What is renamed one to one counts the same.
LEMMA Renamed ==
  ASSUME NEW A, NEW B, NEW f, IsFiniteSet(A),
         \A x \in A : f[x] \in B,
         \A x, y \in A : f[x] = f[y] => x = y,
         \A y \in B : \E x \in A : f[x] = y
  PROVE  IsFiniteSet(B) /\ Cardinality(B) = Cardinality(A)
  <1> DEFINE g == [x \in A |-> f[x]]
  <1>1. g \in [A -> B]
    OBVIOUS
  <1>2. g \in Injection(A, B) /\ g \in Surjection(A, B)
    BY <1>1 DEF Injection, Surjection, IsInjective
  <1> QED
    BY <1>2, FS_Bijection DEF ExistsBijection, Bijection

LEMMA SeqRemoveAt ==
  ASSUME NEW S, NEW q \in Seq(S), NEW k \in DOMAIN q
  PROVE  /\ RemoveAt(q, k) \in Seq(S) /\ DOMAIN RemoveAt(q, k) = 1 .. Len(q) - 1
         /\ \A i \in 1 .. Len(q) - 1 : RemoveAt(q, k)[i] = IF i < k THEN q[i] ELSE q[i + 1]
         /\ Len(q) \in Nat /\ k \in 1 .. Len(q) /\ DOMAIN q = 1 .. Len(q)
  <1>1. k \in 1 .. Len(q) /\ Len(q) \in Nat /\ DOMAIN q = 1 .. Len(q)
    OBVIOUS
  <1>2. \A i \in 1 .. Len(q) : q[i] \in S
    OBVIOUS
  <1> DEFINE A == SubSeq(q, 1, k - 1)
             B == SubSeq(q, k + 1, Len(q))
             W == A \o B
  <1>3. RemoveAt(q, k) = W
    BY DEF RemoveAt
  <1>4. /\ A \in Seq(S) /\ Len(A) = k - 1 /\ \A i \in 1 .. k - 1 : A[i] = q[i]
    <2>1. \A i \in 1 .. k - 1 : q[i] \in S
      BY <1>1, <1>2
    <2> QED
      BY <1>1, <2>1, SubSeqProperties
  <1>5. /\ B \in Seq(S) /\ Len(B) = Len(q) - k /\ \A i \in 1 .. Len(q) - k : B[i] = q[k + i]
    <2>1. (\A i \in k + 1 .. Len(q) : q[i] \in S) /\ k + 1 \in Int /\ Len(q) \in Int
      BY <1>1, <1>2
    <2>2. /\ B \in Seq(S) /\ Len(B) = IF k + 1 <= Len(q) THEN Len(q) - (k + 1) + 1 ELSE 0
          /\ \A i \in 1 .. Len(q) - (k + 1) + 1 : B[i] = q[(k + 1) + i - 1]
      BY <2>1, SubSeqProperties
    <2> HIDE DEF B
    <2>3. Len(q) - (k + 1) + 1 = Len(q) - k /\ (~(k + 1 <= Len(q)) => Len(q) - k = 0)
      <3>1. k \in Nat /\ Len(q) \in Nat /\ k <= Len(q)
        BY <1>1
      <3> QED
        BY ONLY <3>1
    <2>4. \A i \in 1 .. Len(q) - k : (k + 1) + i - 1 = k + i
      BY ONLY <1>1
    <2> QED
      BY <2>2, <2>3, <2>4
  <1> HIDE DEF A, B
  <1>6. /\ W \in Seq(S) /\ Len(W) = Len(A) + Len(B)
        /\ \A i \in 1 .. Len(A) + Len(B) : W[i] = IF i <= Len(A) THEN A[i] ELSE B[i - Len(A)]
    BY <1>4, <1>5, ConcatProperties
  <1> HIDE DEF W
  <1>7. Len(A) + Len(B) = Len(q) - 1
    BY ONLY <1>1, <1>4, <1>5
  <1>8. DOMAIN W = 1 .. Len(q) - 1
    BY <1>6, <1>7
  <1>9. ASSUME NEW i \in 1 .. Len(q) - 1 PROVE W[i] = IF i < k THEN q[i] ELSE q[i + 1]
    <2>1. CASE i < k
      <3>1. i \in 1 .. k - 1 /\ i <= Len(A)
        BY <1>1, <1>4, <2>1
      <3> QED
        BY <1>4, <1>6, <1>7, <2>1, <3>1
    <2>2. CASE ~(i < k)
      <3>1. i - (k - 1) \in 1 .. Len(q) - k /\ ~(i <= k - 1) /\ k + (i - (k - 1)) = i + 1
        BY <1>1, <2>2
      <3> QED
        BY <1>4, <1>5, <1>6, <1>7, <2>2, <3>1
    <2> QED
      BY <2>1, <2>2
  <1> QED
    BY <1>1, <1>3, <1>6, <1>8, <1>9

LEMMA SeqCut ==
  ASSUME NEW S, NEW q \in Seq(S), NEW k \in 0 .. Len(q)
  PROVE  /\ SubSeq(q, k + 1, Len(q)) \in Seq(S) /\ DOMAIN SubSeq(q, k + 1, Len(q)) = 1 .. Len(q) - k
         /\ \A i \in 1 .. Len(q) - k : SubSeq(q, k + 1, Len(q))[i] = q[i + k]
         /\ Len(q) \in Nat /\ DOMAIN q = 1 .. Len(q)
  <1>0. DOMAIN q = 1 .. Len(q)
    OBVIOUS
  <1>1. Len(q) \in Nat /\ k \in Nat /\ k <= Len(q)
    OBVIOUS
  <1> DEFINE p == SubSeq(q, k + 1, Len(q))
  <1>2. (\A i \in (k + 1) .. Len(q) : q[i] \in S) /\ k + 1 \in Int /\ Len(q) \in Int
    BY <1>1
  <1>3. /\ p \in Seq(S) /\ Len(p) = IF k + 1 <= Len(q) THEN Len(q) - (k + 1) + 1 ELSE 0
        /\ \A i \in 1 .. Len(q) - (k + 1) + 1 : p[i] = q[(k + 1) + i - 1]
    BY <1>2, SubSeqProperties
  <1> HIDE DEF p
  <1>4. Len(q) - (k + 1) + 1 = Len(q) - k /\ (~(k + 1 <= Len(q)) => Len(q) - k = 0)
    BY ONLY <1>1
  <1>5. \A i \in 1 .. Len(q) - k : (k + 1) + i - 1 = i + k
    BY ONLY <1>1
  <1>6. Len(p) = Len(q) - k
    BY <1>3, <1>4
  <1>7. DOMAIN p = 1 .. Len(p)
    BY <1>3
  <1> QED
    BY <1>0, <1>7, <1>1, <1>3, <1>4, <1>5, <1>6 DEF p

LEMMA SeqAppend ==
  ASSUME NEW S, NEW q \in Seq(S), NEW e \in S
  PROVE  /\ Append(q, e) \in Seq(S) /\ DOMAIN Append(q, e) = 1 .. Len(q) + 1
         /\ Append(q, e)[Len(q) + 1] = e /\ \A i \in 1 .. Len(q) : Append(q, e)[i] = q[i]
         /\ Len(q) \in Nat /\ DOMAIN q = 1 .. Len(q)
  <1>1. /\ Append(q, e) \in Seq(S) /\ Len(Append(q, e)) = Len(q) + 1
        /\ Append(q, e)[Len(q) + 1] = e /\ \A i \in 1 .. Len(q) : Append(q, e)[i] = q[i]
        /\ Len(q) \in Nat /\ DOMAIN q = 1 .. Len(q)
    OBVIOUS
  <1>2. DOMAIN Append(q, e) = 1 .. Len(Append(q, e))
    BY <1>1
  <1> QED
    BY <1>1, <1>2

LEMMA McpParts ==
  ASSUME McpInv
  PROVE  /\ McpTypeOK /\ JobsKnown /\ LoadsKnown /\ ClosesKnown /\ HasListed /\ ClosedEmpty
         /\ Counted
  BY DEF McpInv

LEMMA McpStart == InitMcp => McpInv
  <1> SUFFICES ASSUME InitMcp PROVE McpInv
    OBVIOUS
  <1>1. McpTypeOK
    <2>1. keys \in [Cores -> Seq(Servers)]
      BY SetOfNone, Zenon DEF InitMcp
    <2> QED
      BY <2>1, McpAssumption DEF InitMcp, McpTypeOK
  <1>2. JobsKnown /\ LoadsKnown /\ ClosesKnown
    BY DEF InitMcp, JobsKnown, LoadsKnown, ClosesKnown
  <1>3. HasListed /\ ClosedEmpty
    BY DEF InitMcp, HasListed, ClosedEmpty
  <1>4. Counted
    <2> SUFFICES ASSUME NEW s \in Servers
                 PROVE  Listed(s) = {} /\ TakenOff(s) = {} /\ refs[s] = 0
      BY FS_EmptySet DEF Counted
    <2>1. \A c \in Cores : DOMAIN keys[c] = {}
      BY DEF InitMcp
    <2>2. \A j \in jobs : stage[j] # "waits"
      BY <1>1 DEF InitMcp, McpTypeOK
    <2> QED
      BY <2>1, <2>2 DEF InitMcp, Listed, TakenOff
  <1> QED
    BY <1>1, <1>2, <1>3, <1>4 DEF McpInv

\* A reference in a list is its place there.
LEMMA ListedIs ==
  ASSUME NEW s
  PROVE  /\ \A r \in Listed(s) : \E c \in Cores : \E i \in DOMAIN keys[c] :
                r = <<c, i>> /\ keys[c][i] = s /\ ~Passed(c, i)
         /\ \A c \in Cores : \A i : <<c, i>> \in Listed(s) <=>
                i \in DOMAIN keys[c] /\ keys[c][i] = s /\ ~Passed(c, i)
         /\ \A r \in Listed(s)' : \E c \in Cores : \E i \in DOMAIN keys'[c] :
                r = <<c, i>> /\ keys'[c][i] = s /\ ~Passed(c, i)'
         /\ \A c \in Cores : \A i : <<c, i>> \in Listed(s)' <=>
                i \in DOMAIN keys'[c] /\ keys'[c][i] = s /\ ~Passed(c, i)'
  BY DEF Listed

\* Only a close passes over its list.
LEMMA PassedStays ==
  ASSUME jobs' = jobs,
         \A j \in jobs : j.does = "close" => stage'[j] = stage[j] /\ step'[j] = step[j]
  PROVE  \A c, i : Passed(c, i)' <=> Passed(c, i)
  BY DEF Passed

LEMMA ListedStays ==
  ASSUME keys' = keys, NEW s,
         \A c \in Cores : \A i \in DOMAIN keys[c] : Passed(c, i)' <=> Passed(c, i)
  PROVE  Listed(s)' = Listed(s)
  <1>1. ASSUME NEW d \in Cores, NEW i PROVE <<d, i>> \in Listed(s)' <=> <<d, i>> \in Listed(s)
    <2>1. /\ <<d, i>> \in Listed(s)' <=> i \in DOMAIN keys'[d] /\ keys'[d][i] = s /\ ~Passed(d, i)'
          /\ <<d, i>> \in Listed(s) <=> i \in DOMAIN keys[d] /\ keys[d][i] = s /\ ~Passed(d, i)
      BY ListedIs
    <2> QED
      BY <2>1
  <1>2. \A r \in Listed(s) \cup Listed(s)' : \E d \in Cores : \E i : r = <<d, i>>
    BY ListedIs
  <1>3. ASSUME NEW r \in Listed(s) \cup Listed(s)' PROVE r \in Listed(s)' /\ r \in Listed(s)
    <2>1. PICK d \in Cores : \E i : r = <<d, i>>
      BY <1>2
    <2>2. PICK i : r = <<d, i>>
      BY <2>1
    <2> QED
      BY <1>1, <1>3, <2>2
  <1> QED
    BY <1>3

\* A key at the end of a list is one reference more.
LEMMA ListedMore ==
  ASSUME McpInv, NEW c \in Cores, NEW s \in Servers,
         keys' = [keys EXCEPT ![c] = Append(keys[c], s)],
         \A d, i : Passed(d, i)' <=> Passed(d, i)
  PROVE  /\ \A t \in Servers : Listed(t)' = IF t = s THEN Listed(t) \cup {<<c, Len(keys[c]) + 1>>}
                                            ELSE Listed(t)
         /\ <<c, Len(keys[c]) + 1>> \notin Listed(s)
  <1> DEFINE q == keys[c]
             n == Len(keys[c]) + 1
  <1>1. q \in Seq(Servers) /\ keys \in [Cores -> Seq(Servers)]
    BY McpParts DEF McpTypeOK
  <1>2. keys'[c] = Append(q, s) /\ \A d \in Cores : d # c => keys'[d] = keys[d]
    BY <1>1
  <1> HIDE DEF q
  <1>3. /\ DOMAIN Append(q, s) = 1 .. Len(q) + 1
        /\ Append(q, s)[Len(q) + 1] = s /\ \A i \in 1 .. Len(q) : Append(q, s)[i] = q[i]
        /\ Len(q) \in Nat /\ DOMAIN q = 1 .. Len(q)
    BY <1>1, SeqAppend
  <1>4. /\ DOMAIN keys'[c] = DOMAIN keys[c] \cup {n} /\ n \notin DOMAIN keys[c]
        /\ keys'[c][n] = s /\ \A i \in DOMAIN keys[c] : keys'[c][i] = keys[c][i]
        /\ \A i \in DOMAIN keys[c] : i \in Nat /\ i < n
        /\ n \in Nat
    BY <1>2, <1>3 DEF q
  <1>5. ~Passed(c, n)
    <2> SUFFICES ASSUME NEW j \in jobs, j.does = "close", j.core = c,
                        stage[j] \in {"waits", "stops"}, n <= step[j]
                 PROVE  FALSE
      BY <1>4, McpParts DEF Passed, McpTypeOK
    <2>1. j \in Jobs
      BY McpParts DEF McpTypeOK
    <2>2. step[j] \in DOMAIN keys[c]
      BY <2>1, McpParts DEF ClosesKnown
    <2> QED
      BY <1>4, <2>2
  <1> HIDE DEF n
  <1>6. ASSUME NEW t \in Servers
        PROVE  Listed(t)' = IF t = s THEN Listed(t) \cup {<<c, n>>} ELSE Listed(t)
    <2>1. \A d \in Cores : \A i : <<d, i>> \in Listed(t)' <=>
              <<d, i>> \in Listed(t) \/ (t = s /\ d = c /\ i = n)
      <3> SUFFICES ASSUME NEW d \in Cores, NEW i
                   PROVE  <<d, i>> \in Listed(t)' <=> <<d, i>> \in Listed(t) \/ (t = s /\ d = c /\ i = n)
        OBVIOUS
      <3>1. /\ <<d, i>> \in Listed(t)' <=> i \in DOMAIN keys'[d] /\ keys'[d][i] = t /\ ~Passed(d, i)
            /\ <<d, i>> \in Listed(t) <=> i \in DOMAIN keys[d] /\ keys[d][i] = t /\ ~Passed(d, i)
        BY ListedIs
      <3>2. CASE d = c
        BY <1>4, <1>5, <3>1, <3>2
      <3>3. CASE d # c
        BY <1>2, <3>1, <3>3
      <3> QED
        BY <3>2, <3>3
    <2>2. \A r \in Listed(t) \cup Listed(t)' : \E d \in Cores : \E i : r = <<d, i>>
      BY ListedIs
    <2>3. ASSUME NEW r \in Listed(t)' PROVE r \in Listed(t) \/ (t = s /\ r = <<c, n>>)
      BY <2>1, <2>2, <2>3
    <2>4. ASSUME NEW r \in Listed(t) PROVE r \in Listed(t)'
      <3>1. PICK d \in Cores : \E i : r = <<d, i>>
        BY <2>2
      <3>2. PICK i : r = <<d, i>>
        BY <3>1
      <3> QED
        BY <2>1, <2>4, <3>2
    <2>5. t = s => <<c, n>> \in Listed(t)'
      BY <2>1
    <2> QED
      BY <2>3, <2>4, <2>5
  <1>7. <<c, n>> \notin Listed(s)
    BY <1>4, ListedIs
  <1> QED
    BY <1>6, <1>7 DEF n

\* Where a list is cut up to what its close has passed, or further, the rest counts as
\* before.
LEMMA ListedCut ==
  ASSUME McpInv, NEW c \in Cores, NEW k \in 0 .. Len(keys[c]), NEW s \in Servers,
         keys' = [keys EXCEPT ![c] = SubSeq(keys[c], k + 1, Len(keys[c]))],
         \A i \in DOMAIN keys[c] : Passed(c, i) => i <= k,
         \A i : ~Passed(c, i)',
         \A d \in Cores : d # c => \A i : Passed(d, i)' <=> Passed(d, i)
  PROVE  /\ IsFiniteSet(Listed(s)')
         /\ Cardinality(Listed(s)') = Cardinality({r \in Listed(s) : ~(r[1] = c /\ r[2] <= k)})
  <1> DEFINE q == keys[c]
             A == {r \in Listed(s) : ~(r[1] = c /\ r[2] <= k)}
             f == [r \in A |-> <<r[1], IF r[1] = c THEN r[2] - k ELSE r[2]>>]
  <1>1. q \in Seq(Servers) /\ keys \in [Cores -> Seq(Servers)] /\ k \in 0 .. Len(q)
    BY McpParts DEF McpTypeOK
  <1>2. keys'[c] = SubSeq(q, k + 1, Len(q)) /\ \A d \in Cores : d # c => keys'[d] = keys[d]
    BY <1>1
  <1> HIDE DEF q
  <1>3. /\ DOMAIN SubSeq(q, k + 1, Len(q)) = 1 .. Len(q) - k
        /\ \A i \in 1 .. Len(q) - k : SubSeq(q, k + 1, Len(q))[i] = q[i + k]
        /\ Len(q) \in Nat /\ DOMAIN q = 1 .. Len(q)
    BY <1>1, SeqCut
  <1>4. /\ DOMAIN keys[c] = 1 .. Len(q) /\ Len(q) \in Nat /\ k \in Nat
        /\ DOMAIN keys'[c] = 1 .. Len(q) - k
        /\ \A i \in 1 .. Len(q) - k : keys'[c][i] = keys[c][i + k]
    BY <1>1, <1>2, <1>3 DEF q
  <1>5. \A i : <<c, i>> \in A <=> i \in 1 .. Len(q) /\ ~(i <= k) /\ keys[c][i] = s
    <2> SUFFICES ASSUME NEW i
                 PROVE  <<c, i>> \in A <=> i \in 1 .. Len(q) /\ ~(i <= k) /\ keys[c][i] = s
      OBVIOUS
    <2>1. <<c, i>> \in Listed(s) <=> i \in DOMAIN keys[c] /\ keys[c][i] = s /\ ~Passed(c, i)
      BY ListedIs
    <2> QED
      BY <1>4, <2>1
  <1>6. \A i : <<c, i>> \in Listed(s)' <=> i \in 1 .. Len(q) - k /\ keys[c][i + k] = s
    BY <1>4, ListedIs
  <1>7. \A d \in Cores : d # c => \A i : <<d, i>> \in Listed(s)' <=> <<d, i>> \in A
    <2> SUFFICES ASSUME NEW d \in Cores, d # c, NEW i
                 PROVE  <<d, i>> \in Listed(s)' <=> <<d, i>> \in Listed(s)
      OBVIOUS
    <2>1. /\ <<d, i>> \in Listed(s)' <=> i \in DOMAIN keys'[d] /\ keys'[d][i] = s /\ ~Passed(d, i)'
          /\ <<d, i>> \in Listed(s) <=> i \in DOMAIN keys[d] /\ keys[d][i] = s /\ ~Passed(d, i)
      BY ListedIs
    <2> QED
      BY <1>2, <2>1
  <1>8. ASSUME NEW i, <<c, i>> \in A
        PROVE  f[<<c, i>>] = <<c, i - k>> /\ <<c, i - k>> \in Listed(s)' /\ i \in Nat
    <2>1. i \in 1 .. Len(q) /\ ~(i <= k) /\ keys[c][i] = s
      BY <1>5, <1>8
    <2>2. i - k \in 1 .. Len(q) - k /\ i - k + k = i /\ i \in Nat
      BY ONLY <1>4, <2>1
    <2> QED
      BY <1>6, <1>8, <2>1, <2>2
  <1>9. ASSUME NEW d \in Cores, d # c, NEW i, <<d, i>> \in A
        PROVE  f[<<d, i>>] = <<d, i>> /\ <<d, i>> \in Listed(s)'
    BY <1>7, <1>9
  <1>10. \A r \in A \cup Listed(s)' : \E d \in Cores : \E i : r = <<d, i>>
    BY ListedIs
  <1> HIDE DEF f, A
  <1>11. ASSUME NEW r \in A PROVE f[r] \in Listed(s)'
    <2>1. PICK d \in Cores : \E i : r = <<d, i>>
      BY <1>10
    <2>2. PICK i : r = <<d, i>>
      BY <2>1
    <2>3. CASE d = c
      BY <1>8, <1>11, <2>2, <2>3
    <2>4. CASE d # c
      BY <1>9, <1>11, <2>2, <2>4
    <2> QED
      BY <2>3, <2>4
  <1>12. ASSUME NEW r \in A, NEW t \in A, f[r] = f[t] PROVE r = t
    <2>1. PICK d \in Cores : \E i : r = <<d, i>>
      BY <1>10
    <2>2. PICK i : r = <<d, i>>
      BY <2>1
    <2>3. PICK e \in Cores : \E j : t = <<e, j>>
      BY <1>10
    <2>4. PICK j : t = <<e, j>>
      BY <2>3
    <2>5. CASE d = c /\ e = c
      <3>1. <<c, i - k>> = <<c, j - k>> /\ i \in Nat /\ j \in Nat
        BY <1>8, <1>12, <2>2, <2>4, <2>5
      <3>2. i - k = j - k
        BY <3>1
      <3>3. i = j
        BY ONLY <1>4, <3>1, <3>2
      <3> QED
        BY <2>2, <2>4, <2>5, <3>3
    <2>6. CASE ~(d = c /\ e = c)
      <3> DEFINE m == IF d = c THEN i - k ELSE i
                 n == IF e = c THEN j - k ELSE j
      <3>1. f[r] = <<d, m>>
        BY <1>8, <1>9, <2>2
      <3>2. f[t] = <<e, n>>
        BY <1>8, <1>9, <2>4
      <3> HIDE DEF m, n
      <3>3. d = e /\ m = n
        <4>1. <<d, m>> = <<e, n>>
          BY <1>12, <3>1, <3>2
        <4> QED
          BY ONLY <4>1
      <3> QED
        BY <2>2, <2>4, <2>6, <3>3 DEF m, n
    <2> QED
      BY <2>5, <2>6
  <1>13. ASSUME NEW t \in Listed(s)' PROVE \E r \in A : f[r] = t
    <2>1. PICK d \in Cores : \E i : t = <<d, i>>
      BY <1>10
    <2>2. PICK i : t = <<d, i>>
      BY <2>1
    <2>3. CASE d # c
      BY <1>7, <1>9, <2>2, <2>3
    <2>4. CASE d = c
      <3>1. i \in 1 .. Len(q) - k /\ keys[c][i + k] = s
        BY <1>6, <2>2, <2>4
      <3>2. i + k \in 1 .. Len(q) /\ ~(i + k <= k) /\ i + k - k = i
        BY ONLY <1>4, <3>1
      <3>3. <<c, i + k>> \in A
        BY <1>5, <3>1, <3>2
      <3> DEFINE m == i + k
      <3>4. <<c, m>> \in A
        BY <3>3, Zenon
      <3>6. m - k = i
        BY ONLY <1>4, <3>1 DEF m
      <3> HIDE DEF m
      <3>5. f[<<c, m>>] = <<c, m - k>>
        BY <1>8, <3>4
      <3> QED
        BY <2>2, <2>4, <3>4, <3>5, <3>6
    <2> QED
      BY <2>3, <2>4
  <1>14. IsFiniteSet(A)
    BY McpParts, FS_Subset DEF Counted, A
  <1>15. IsFiniteSet(Listed(s)') /\ Cardinality(Listed(s)') = Cardinality(A)
    BY <1>11, <1>12, <1>13, <1>14, Renamed
  <1> QED
    BY <1>15 DEF A

\* A key that is taken off a list that nobody closes is one reference less; the other
\* places move up.
LEMMA ListedLess ==
  ASSUME McpInv, NEW c \in Cores, NEW s \in Servers, s \in ToSet(keys[c]),
         keys' = [keys EXCEPT ![c] = Without(s, keys[c])],
         \A i : ~Passed(c, i), \A d, i : Passed(d, i)' <=> Passed(d, i)
  PROVE  /\ keys' \in [Cores -> Seq(Servers)] /\ \A d \in Cores : d # c => keys'[d] = keys[d]
         /\ \A t \in ToSet(keys[c]) : t # s => t \in ToSet(keys'[c])
         /\ \A t \in Servers : IsFiniteSet(Listed(t)') /\
                Cardinality(Listed(t)') = IF t = s THEN Cardinality(Listed(t)) - 1
                                          ELSE Cardinality(Listed(t))
  <1> DEFINE q == keys[c]
             k == SelectInSeq(q, LAMBDA x : x = s)
  <1>1. q \in Seq(Servers) /\ keys \in [Cores -> Seq(Servers)]
    BY McpParts DEF McpTypeOK
  <1>2. k \in DOMAIN q /\ q[k] = s
    <2> DEFINE I == {i \in 1 .. Len(q) : q[i] = s}
    <2>1. I \subseteq Nat /\ I # {}
      BY <1>1 DEF ToSet
    <2>2. \E x \in I : \A y \in I : x =< y
      BY <2>1, LeastOf
    <2>3. k = CHOOSE x \in I : \A y \in I : x =< y
      BY <2>1 DEF SelectInSeq, Min
    <2> HIDE DEF k
    <2>4. k \in I
      BY <2>2, <2>3
    <2> QED
      BY <1>1, <2>4
  <1>3. Without(s, q) = RemoveAt(q, k)
    BY <1>2 DEF Without
  <1> HIDE DEF k
  <1>4. keys'[c] = RemoveAt(q, k) /\ \A d \in Cores : d # c => keys'[d] = keys[d]
    BY <1>1, <1>3
  <1> HIDE DEF q
  <1>5. /\ RemoveAt(q, k) \in Seq(Servers) /\ DOMAIN RemoveAt(q, k) = 1 .. Len(q) - 1
        /\ \A i \in 1 .. Len(q) - 1 : RemoveAt(q, k)[i] = IF i < k THEN q[i] ELSE q[i + 1]
        /\ Len(q) \in Nat /\ k \in 1 .. Len(q) /\ DOMAIN q = 1 .. Len(q)
    BY <1>1, <1>2, SeqRemoveAt
  <1> DEFINE n == Len(q)
  <1>6. n \in Nat /\ k \in 1 .. n /\ k \in Nat
    BY <1>5
  <1>7. /\ DOMAIN q = 1 .. n /\ DOMAIN keys'[c] = 1 .. n - 1
        /\ \A i \in 1 .. n - 1 : keys'[c][i] = IF i < k THEN q[i] ELSE q[i + 1]
    BY <1>4, <1>5
  <1> HIDE DEF n
  <1>8. keys' \in [Cores -> Seq(Servers)]
    BY <1>1, <1>3, <1>5 DEF q
  <1>9. ASSUME NEW i \in 1 .. n, i # k
        PROVE  /\ i < k => i \in 1 .. n - 1 /\ keys'[c][i] = q[i]
               /\ ~(i < k) => i - 1 \in 1 .. n - 1 /\ keys'[c][i - 1] = q[i]
    <2>1. i < k => i \in 1 .. n - 1
      BY ONLY <1>6, <1>9
    <2>2. ~(i < k) => i - 1 \in 1 .. n - 1 /\ ~(i - 1 < k) /\ i - 1 + 1 = i
      BY ONLY <1>6, <1>9
    <2>3. ASSUME ~(i < k) PROVE keys'[c][i - 1] = q[i]
      <3> DEFINE m == i - 1
      <3>1. m \in 1 .. n - 1 /\ ~(m < k) /\ m + 1 = i
        BY <2>2, <2>3
      <3> HIDE DEF m
      <3>2. keys'[c][m] = q[m + 1]
        BY <1>7, <3>1
      <3>3. keys'[c][m] = q[i]
        BY <3>1, <3>2
      <3> QED
        BY <3>3 DEF m
    <2> QED
      BY <1>7, <2>1, <2>2, <2>3
  <1>10. ASSUME NEW t \in ToSet(keys[c]), t # s PROVE t \in ToSet(keys'[c])
    <2>1. PICK i \in 1 .. n : q[i] = t
      BY <1>7 DEF ToSet, q
    <2>2. i # k
      BY <1>2, <1>10, <2>1
    <2> QED
      BY <1>7, <1>9, <2>1, <2>2 DEF ToSet
  <1>11. ASSUME NEW t \in Servers
         PROVE  IsFiniteSet(Listed(t)') /\
                Cardinality(Listed(t)') = IF t = s THEN Cardinality(Listed(t)) - 1
                                          ELSE Cardinality(Listed(t))
    <2> DEFINE A == Listed(t) \ {<<c, k>>}
               f == [r \in A |-> <<r[1], IF r[1] = c /\ ~(r[2] < k) THEN r[2] - 1 ELSE r[2]>>]
    <2>1. \A i : <<c, i>> \in Listed(t) <=> i \in 1 .. n /\ q[i] = t
      <3> SUFFICES ASSUME NEW i PROVE <<c, i>> \in Listed(t) <=> i \in 1 .. n /\ q[i] = t
        OBVIOUS
      <3>1. <<c, i>> \in Listed(t) <=> i \in DOMAIN keys[c] /\ keys[c][i] = t /\ ~Passed(c, i)
        BY ListedIs
      <3> QED
        BY <1>7, <3>1 DEF q
    <2>2. \A i : <<c, i>> \in Listed(t)' <=> i \in 1 .. n - 1 /\ keys'[c][i] = t
      <3> SUFFICES ASSUME NEW i
                   PROVE  <<c, i>> \in Listed(t)' <=> i \in 1 .. n - 1 /\ keys'[c][i] = t
        OBVIOUS
      <3>1. <<c, i>> \in Listed(t)' <=> i \in DOMAIN keys'[c] /\ keys'[c][i] = t /\ ~Passed(c, i)'
        BY ListedIs
      <3> QED
        BY <1>7, <3>1
    <2>3. ASSUME NEW d \in Cores, d # c, NEW i
          PROVE  <<d, i>> \in Listed(t)' <=> <<d, i>> \in Listed(t)
      <3>1. /\ <<d, i>> \in Listed(t)' <=> i \in DOMAIN keys'[d] /\ keys'[d][i] = t /\ ~Passed(d, i)
            /\ <<d, i>> \in Listed(t) <=> i \in DOMAIN keys[d] /\ keys[d][i] = t /\ ~Passed(d, i)
        BY ListedIs
      <3> QED
        BY <1>4, <2>3, <3>1
    <2>4. \A r \in A \cup Listed(t)' : \E d \in Cores : \E i : r = <<d, i>>
      BY ListedIs
    <2>5. ASSUME NEW i, <<c, i>> \in A
          PROVE  /\ i \in 1 .. n /\ i # k
                 /\ i < k => f[<<c, i>>] = <<c, i>> /\ <<c, i>> \in Listed(t)'
                 /\ ~(i < k) => f[<<c, i>>] = <<c, i - 1>> /\ <<c, i - 1>> \in Listed(t)'
      <3>1. i \in 1 .. n /\ i # k /\ q[i] = t
        BY <2>1, <2>5
      <3>2. i < k => <<c, i>> \in Listed(t)'
        BY <1>9, <2>2, <3>1
      <3>3. ~(i < k) => <<c, i - 1>> \in Listed(t)'
        BY <1>9, <2>2, <3>1
      <3> QED
        BY <2>5, <3>1, <3>2, <3>3
    <2>6. ASSUME NEW d \in Cores, d # c, NEW i, <<d, i>> \in A
          PROVE  f[<<d, i>>] = <<d, i>> /\ <<d, i>> \in Listed(t)'
      BY <2>3, <2>6
    <2>7. IsFiniteSet(A) /\ Cardinality(A) = IF t = s THEN Cardinality(Listed(t)) - 1
                                             ELSE Cardinality(Listed(t))
      <3>1. <<c, k>> \in Listed(t) <=> t = s
        BY <1>2, <1>6, <2>1
      <3> QED
        BY <3>1, McpParts, FS_RemoveElement DEF Counted
    <2>8. \A d \in Cores : \A i : d # c => (<<d, i>> \in A <=> <<d, i>> \in Listed(t))
      OBVIOUS
    <2>9. \A i : i # k => (<<c, i>> \in A <=> <<c, i>> \in Listed(t))
      OBVIOUS
    <2> HIDE DEF f, A
    <2>10. ASSUME NEW r \in A PROVE f[r] \in Listed(t)'
      <3>1. PICK d \in Cores : \E i : r = <<d, i>>
        BY <2>4
      <3>2. PICK i : r = <<d, i>>
        BY <3>1
      <3>3. CASE d = c
        BY <2>5, <2>10, <3>2, <3>3
      <3>4. CASE d # c
        BY <2>6, <2>10, <3>2, <3>4
      <3> QED
        BY <3>3, <3>4
    <2>11. ASSUME NEW r \in A, NEW u \in A, f[r] = f[u] PROVE r = u
      <3>1. PICK d \in Cores : \E i : r = <<d, i>>
        BY <2>4
      <3>2. PICK i : r = <<d, i>>
        BY <3>1
      <3>3. PICK e \in Cores : \E j : u = <<e, j>>
        BY <2>4
      <3>4. PICK j : u = <<e, j>>
        BY <3>3
      <3> DEFINE x == IF d = c /\ ~(i < k) THEN i - 1 ELSE i
                 y == IF e = c /\ ~(j < k) THEN j - 1 ELSE j
      <3>5. f[r] = <<d, x>>
        BY <2>5, <2>6, <3>2
      <3>6. f[u] = <<e, y>>
        BY <2>5, <2>6, <3>4
      <3> HIDE DEF x, y
      <3>7. d = e /\ x = y
        <4>1. <<d, x>> = <<e, y>>
          BY <2>11, <3>5, <3>6
        <4> QED
          BY ONLY <4>1
      <3>8. d = c => i \in 1 .. n /\ j \in 1 .. n /\ i # k /\ j # k
        BY <2>5, <3>2, <3>4, <3>7
      <3>9. i = j
        <4>1. CASE d = c
          BY ONLY <1>6, <3>7, <3>8, <4>1 DEF x, y
        <4>2. CASE d # c
          BY ONLY <3>7, <4>2 DEF x, y
        <4> QED
          BY <4>1, <4>2
      <3> QED
        BY <3>2, <3>4, <3>7, <3>9
    <2>12. ASSUME NEW u \in Listed(t)' PROVE \E r \in A : f[r] = u
      <3>1. PICK d \in Cores : \E i : u = <<d, i>>
        BY <2>4
      <3>2. PICK i : u = <<d, i>>
        BY <3>1
      <3>3. CASE d # c
        BY <2>3, <2>6, <2>8, <3>2, <3>3
      <3>4. CASE d = c
        <4>1. i \in 1 .. n - 1 /\ keys'[c][i] = t
          BY <2>2, <3>2, <3>4
        <4>2. CASE i < k
          <5>1. i \in 1 .. n /\ i # k
            BY ONLY <1>6, <4>1, <4>2
          <5>2. <<c, i>> \in A
            BY <1>7, <2>1, <2>9, <4>1, <4>2, <5>1
          <5> QED
            BY <2>5, <3>2, <3>4, <4>2, <5>2
        <4>3. CASE ~(i < k)
          <5> DEFINE m == i + 1
          <5>1. m \in 1 .. n /\ m # k /\ ~(m < k) /\ m - 1 = i
            BY ONLY <1>6, <4>1, <4>3
          <5>2. q[m] = t
            BY <1>7, <4>1, <4>3
          <5> HIDE DEF m
          <5>3. <<c, m>> \in A
            BY <2>1, <2>9, <5>1, <5>2
          <5>4. f[<<c, m>>] = <<c, m - 1>>
            BY <2>5, <5>1, <5>3
          <5> QED
            BY <3>2, <3>4, <5>1, <5>3, <5>4
        <4> QED
          BY <4>2, <4>3
      <3> QED
        BY <3>3, <3>4
    <2>13. IsFiniteSet(Listed(t)') /\ Cardinality(Listed(t)') = Cardinality(A)
      BY <2>7, <2>10, <2>11, <2>12, Renamed
    <2> QED
      BY <2>7, <2>13
  <1> QED
    BY <1>4, <1>8, <1>10, <1>11

-----------------------------------------------------------------------------
\* What one job does shows in the references taken off by it alone.
LEMMA TakenOffOne ==
  ASSUME jobs' = jobs, NEW j, \A k \in jobs : k # j => stage'[k] = stage[k] /\ step'[k] = step[k], NEW t
  PROVE  TakenOff(t)' \ {j} = TakenOff(t) \ {j}
  BY DEF TakenOff, Acquires

LEMMA TakenOffStays ==
  ASSUME jobs' = jobs, NEW j, \A k \in jobs : k # j => stage'[k] = stage[k] /\ step'[k] = step[k],
         NEW t, j \notin TakenOff(t), j \notin TakenOff(t)'
  PROVE  TakenOff(t)' = TakenOff(t)
  BY TakenOffOne

\* Where both kinds of references stay, so do the counts.
LEMMA CountedStays ==
  ASSUME McpInv, refs' = refs,
         \A t \in Servers : Listed(t)' = Listed(t) /\ TakenOff(t)' = TakenOff(t)
  PROVE  Counted'
  BY McpParts DEF Counted

\* One that is released was counted.
LEMMA OneLess ==
  ASSUME McpInv, NEW s \in Servers, Release(s),
         \A t \in Servers \ {s} : Listed(t)' = Listed(t) /\ TakenOff(t)' = TakenOff(t),
         \/ /\ Listed(s)' = Listed(s)
            /\ \E j \in TakenOff(s) : TakenOff(s)' = TakenOff(s) \ {j}
         \/ /\ TakenOff(s)' = TakenOff(s)
            /\ \E r \in Listed(s) : Listed(s)' = Listed(s) \ {r}
  PROVE  Counted' /\ refs' \in [Servers -> Nat]
  <1>1. Counted /\ refs \in [Servers -> Nat]
    BY McpParts DEF McpTypeOK
  <1>2. refs' \in [Servers -> Nat] /\ \A t \in Servers : t # s => refs'[t] = refs[t]
    BY <1>1 DEF Release
  <1>3. refs'[s] = IF refs[s] = 0 THEN 0 ELSE refs[s] - 1
    BY <1>1 DEF Release
  <1>4. IsFiniteSet(Listed(s)) /\ IsFiniteSet(TakenOff(s))
        /\ refs[s] = Cardinality(Listed(s)) + Cardinality(TakenOff(s))
        /\ Cardinality(Listed(s)) \in Nat /\ Cardinality(TakenOff(s)) \in Nat
    BY <1>1, FS_CardinalityType DEF Counted
  <1>5. /\ IsFiniteSet(Listed(s)') /\ IsFiniteSet(TakenOff(s)')
        /\ refs'[s] = Cardinality(Listed(s)') + Cardinality(TakenOff(s)')
    <2>1. ASSUME Listed(s)' = Listed(s), NEW j \in TakenOff(s), TakenOff(s)' = TakenOff(s) \ {j}
          PROVE  <1>5
      <3>1. IsFiniteSet(TakenOff(s) \ {j})
            /\ Cardinality(TakenOff(s) \ {j}) = Cardinality(TakenOff(s)) - 1
        BY <1>4, FS_RemoveElement
      <3>2. Cardinality(TakenOff(s)) # 0
        BY <1>4, FS_EmptySet
      <3> QED
        BY <1>3, <1>4, <2>1, <3>1, <3>2
    <2>2. ASSUME TakenOff(s)' = TakenOff(s), NEW r \in Listed(s), Listed(s)' = Listed(s) \ {r}
          PROVE  <1>5
      <3>1. IsFiniteSet(Listed(s) \ {r})
            /\ Cardinality(Listed(s) \ {r}) = Cardinality(Listed(s)) - 1
        BY <1>4, FS_RemoveElement
      <3>2. Cardinality(Listed(s)) # 0
        BY <1>4, FS_EmptySet
      <3> QED
        BY <1>3, <1>4, <2>2, <3>1, <3>2
    <2> QED
      BY <2>1, <2>2
  <1> QED
    BY <1>1, <1>2, <1>5 DEF Counted

LEMMA BeginLoadKeeps ==
  ASSUME McpInv, NEW j \in jobs, stage[j] = "new", BeginLoad(j) \/ BeginAttach(j)
  PROVE  McpInv'
  <1> DEFINE c == j.core
  <1>1. McpTypeOK /\ JobsKnown /\ LoadsKnown /\ ClosesKnown /\ HasListed /\ ClosedEmpty
    BY McpParts
  <1>2. j \in Jobs /\ c \in Cores /\ j.does \in {"load", "attach"}
    BY <1>1, McpAssumption DEF McpTypeOK, BeginLoad, BeginAttach
  <1>3. /\ UNCHANGED <<jobs, step, lock, refs, has, keyOf, keys, lost>>
        /\ \E g \in {"waits", "over"} : stage' = [stage EXCEPT ![j] = g]
        /\ j.does = "attach" => UNCHANGED <<what, core, connected>>
        /\ j.does = "load" =>
             /\ core[c] = "absent"
             /\ \/ /\ core' = [core EXCEPT ![c] = "live"] /\ stage' = [stage EXCEPT ![j] = "over"]
                   /\ connected' = connected \cup {c} /\ what' = what
                \/ /\ core' = [core EXCEPT ![c] = "loading"]
                   /\ what' = [what EXCEPT ![j] = Boot[1]] /\ Boot # <<>> /\ connected' = connected
    <2>1. CASE BeginLoad(j)
      BY <2>1 DEF BeginLoad, Goes
    <2>2. CASE BeginAttach(j)
      BY <2>2 DEF BeginAttach, ToAttach, Goes
    <2> QED
      BY <2>1, <2>2
  <1> HIDE DEF c
  <1>4. Boot # <<>> => Boot[1] \in Servers
    BY McpAssumption
  <1>5. /\ stage' \in [Jobs -> {"new", "waits", "starts", "stops", "over"}]
        /\ stage'[j] \in {"waits", "over"} /\ \A k \in Jobs : k # j => stage'[k] = stage[k]
        /\ what' \in [Jobs -> Servers] /\ \A k \in Jobs : k # j => what'[k] = what[k]
        /\ j.does = "attach" => what'[j] = what[j]
        /\ connected \subseteq connected' /\ connected' \subseteq Cores
        /\ core' \in [Cores -> {"absent", "loading", "live", "closing", "closed"}]
        /\ \A d \in Cores : core'[d] # core[d] =>
               /\ d = c /\ j.does = "load" /\ core[d] = "absent"
               /\ core'[d] \in {"live", "loading"}
               /\ core'[d] = "live" => d \in connected' /\ stage'[j] = "over"
        /\ j.does = "load" => core'[c] \in {"live", "loading"} /\ core[c] = "absent"
    <2>1. /\ stage \in [Jobs -> {"new", "waits", "starts", "stops", "over"}]
          /\ what \in [Jobs -> Servers] /\ connected \subseteq Cores
          /\ core \in [Cores -> {"absent", "loading", "live", "closing", "closed"}]
      BY <1>1 DEF McpTypeOK
    <2>2. CASE j.does = "attach"
      BY <1>2, <1>3, <2>1, <2>2
    <2>3. CASE j.does = "load"
      BY <1>2, <1>3, <1>4, <2>1, <2>3
    <2> QED
      BY <1>2, <2>2, <2>3
  <1>6. McpTypeOK'
    BY <1>1, <1>3, <1>5 DEF McpTypeOK
  <1>7. JobsKnown'
    BY <1>1, <1>2, <1>3, <1>5 DEF JobsKnown, Acquires
  <1>8. LoadsKnown'
    <2> SUFFICES ASSUME NEW k \in Jobs, k.does = "load", stage'[k] \in {"waits", "starts"}
                 PROVE  /\ core'[k.core] = "loading"
                        /\ \A l \in Jobs : l.does = "load" /\ stage'[l] \in {"waits", "starts"}
                                           /\ l.core = k.core => l = k
      BY DEF LoadsKnown
    <2>1. CASE k = j
      BY <1>1, <1>2, <1>5, <2>1, McpAssumption DEF LoadsKnown, c
    <2>2. CASE k # j
      BY <1>1, <1>2, <1>5, <2>2, McpAssumption DEF LoadsKnown, c
    <2> QED
      BY <2>1, <2>2
  <1>9. ClosesKnown'
    BY <1>1, <1>2, <1>3, <1>5, McpAssumption DEF ClosesKnown
  <1>10. HasListed'
    <2>1. \A k \in jobs : stage[k] # "new" => stage'[k] # "new"
      BY <1>1, <1>5 DEF McpTypeOK
    <2> QED
      BY <1>1, <1>3, <1>5, <2>1 DEF HasListed
  <1>11. ClosedEmpty'
    BY <1>1, <1>3, <1>5 DEF ClosedEmpty
  <1>12. Counted'
    <2>1. \A k \in jobs : k # j => stage'[k] = stage[k] /\ step'[k] = step[k]
      BY <1>1, <1>3, <1>5 DEF McpTypeOK
    <2>2. \A d, i : Passed(d, i)' <=> Passed(d, i)
      BY <1>2, <1>3, <2>1, PassedStays
    <2>3. \A t : Listed(t)' = Listed(t)
      BY <1>3, <2>2, ListedStays
    <2>4. \A t : j \notin TakenOff(t) /\ j \notin TakenOff(t)'
      BY <1>2 DEF TakenOff
    <2>5. \A t : TakenOff(t)' = TakenOff(t)
      BY <1>3, <2>1, <2>4, TakenOffStays
    <2> QED
      BY <1>3, <2>3, <2>5, CountedStays
  <1> QED
    BY <1>6, <1>7, <1>8, <1>9, <1>10, <1>11, <1>12 DEF McpInv

\* Only the list of a core that is being closed is passed over.
LEMMA NotPassed ==
  ASSUME NEW c
  PROVE  /\ McpTypeOK /\ ClosesKnown /\ core[c] # "closing" => \A i : ~Passed(c, i)
         /\ McpTypeOK' /\ ClosesKnown' /\ core'[c] # "closing" => \A i : ~Passed(c, i)'
  BY DEF McpTypeOK, ClosesKnown, Passed

\* A reference that is taken off a list to be released counts as before.
LEMMA DetachKeeps ==
  ASSUME McpInv, NEW j \in jobs, stage[j] = "new", BeginDetach(j)
  PROVE  McpInv'
  <1> DEFINE c == j.core
             s == j.server
  <1>1. McpTypeOK /\ JobsKnown /\ LoadsKnown /\ ClosesKnown /\ HasListed /\ ClosedEmpty
    BY McpParts
  <1>2. /\ j \in Jobs /\ c \in Cores /\ s \in Servers /\ j.does \in {"detach", "reload"}
        /\ core[c] = "live" /\ step[j] = 1 /\ ~Acquires(j)
    BY <1>1, McpAssumption DEF McpTypeOK, JobsKnown, BeginDetach, Acquires
  <1>3. /\ UNCHANGED <<jobs, what, lock, refs, starter, core, lost, connected>>
        /\ \/ /\ s \in keyOf[c] /\ keyOf' = [keyOf EXCEPT ![c] = keyOf[c] \ {s}]
              /\ keys' = [keys EXCEPT ![c] = Without(s, keys[c])]
              /\ stage' = [stage EXCEPT ![j] = "waits"] /\ has' = has /\ step' = step
           \/ /\ has' = [has EXCEPT ![c] = has[c] \ {s}] /\ keyOf' = keyOf /\ keys' = keys
              /\ \/ stage' = [stage EXCEPT ![j] = "over"] /\ step' = step
                 \/ /\ stage' = [stage EXCEPT ![j] = "waits"] /\ step' = [step EXCEPT ![j] = 2]
                    /\ j.does = "reload"
    BY DEF BeginDetach, Goes, Forget
  <1>4. \A i : ~Passed(c, i)
    BY <1>1, <1>2, NotPassed
  <1>5. s \in keyOf[c] => s \in ToSet(keys[c])
    BY <1>1, <1>2 DEF HasListed
  <1> HIDE DEF c, s
  <1>6. /\ stage' \in [Jobs -> {"new", "waits", "starts", "stops", "over"}]
        /\ stage'[j] \in {"waits", "over"} /\ \A k \in Jobs : k # j => stage'[k] = stage[k]
        /\ step' \in [Jobs -> Nat \ {0}] /\ \A k \in Jobs : k # j => step'[k] = step[k]
        /\ has' \in [Cores -> SUBSET Servers] /\ \A d \in Cores : has'[d] \subseteq has[d]
        /\ keyOf' \in [Cores -> SUBSET Servers] /\ \A d \in Cores : d # c => keyOf'[d] = keyOf[d]
    <2>1. /\ stage \in [Jobs -> {"new", "waits", "starts", "stops", "over"}]
          /\ step \in [Jobs -> Nat \ {0}] /\ has \in [Cores -> SUBSET Servers]
          /\ keyOf \in [Cores -> SUBSET Servers]
      BY <1>1 DEF McpTypeOK
    <2>2. /\ stage' \in [Jobs -> {"new", "waits", "starts", "stops", "over"}]
          /\ stage'[j] \in {"waits", "over"} /\ \A k \in Jobs : k # j => stage'[k] = stage[k]
      BY <1>2, <1>3, <2>1
    <2>3. step' \in [Jobs -> Nat \ {0}] /\ \A k \in Jobs : k # j => step'[k] = step[k]
      BY <1>2, <1>3, <2>1
    <2>4. has' \in [Cores -> SUBSET Servers] /\ \A d \in Cores : has'[d] \subseteq has[d]
      BY <1>2, <1>3, <2>1
    <2>5. keyOf' \in [Cores -> SUBSET Servers] /\ \A d \in Cores : d # c => keyOf'[d] = keyOf[d]
      BY <1>2, <1>3, <2>1
    <2> QED
      BY <2>2, <2>3, <2>4, <2>5
  <1>7. \A k \in jobs : k # j => stage'[k] = stage[k] /\ step'[k] = step[k]
    BY <1>1, <1>6 DEF McpTypeOK
  <1>8. \A d, i : Passed(d, i)' <=> Passed(d, i)
    <2>1. \A k \in jobs : k.does = "close" => stage'[k] = stage[k] /\ step'[k] = step[k]
      BY <1>2, <1>7
    <2> QED
      BY <1>3, <2>1, PassedStays
  <1>9. /\ keys' \in [Cores -> Seq(Servers)] /\ \A d \in Cores : d # c => keys'[d] = keys[d]
        /\ \A t \in ToSet(keys[c]) : t # s => t \in ToSet(keys'[c])
        /\ keyOf'[c] \subseteq keyOf[c]
        /\ keys' # keys => s \notin keyOf'[c] /\ s \in keyOf[c]
        /\ s \in ToSet(keys'[c]) \/ stage'[j] # "new" 
    <2>1. CASE s \in keyOf[c] /\ keys' = [keys EXCEPT ![c] = Without(s, keys[c])]
               /\ keyOf' = [keyOf EXCEPT ![c] = keyOf[c] \ {s}]
      <3>1. /\ keys' \in [Cores -> Seq(Servers)] /\ \A d \in Cores : d # c => keys'[d] = keys[d]
            /\ \A t \in ToSet(keys[c]) : t # s => t \in ToSet(keys'[c])
        BY <1>2, <1>4, <1>5, <1>8, <2>1, ListedLess
      <3>2. keyOf'[c] = keyOf[c] \ {s}
        BY <1>1, <1>2, <2>1 DEF McpTypeOK
      <3> QED
        BY <1>6, <2>1, <3>1, <3>2
    <2>2. CASE keys' = keys /\ keyOf' = keyOf
      BY <1>1, <1>6, <2>2 DEF McpTypeOK
    <2> QED
      BY <1>3, <2>1, <2>2
  <1>10. McpTypeOK'
    BY <1>1, <1>3, <1>6, <1>9 DEF McpTypeOK
  <1>11. JobsKnown'
    BY <1>1, <1>2, <1>3, <1>6 DEF JobsKnown, Acquires
  <1>12. LoadsKnown'
    BY <1>1, <1>2, <1>3, <1>6 DEF LoadsKnown
  <1>13. ClosesKnown'
    <2> SUFFICES ASSUME NEW k \in Jobs, k.does = "close", stage'[k] \in {"waits", "stops"}
                 PROVE  /\ core'[k.core] = "closing" /\ step'[k] \in DOMAIN keys'[k.core]
                        /\ stage'[k] = "waits" => what'[k] = keys'[k.core][step'[k]]
                        /\ \A l \in Jobs : l.does = "close" /\ stage'[l] \in {"waits", "stops"}
                                           /\ l.core = k.core => l = k
      BY DEF ClosesKnown
    <2>1. stage[k] = stage'[k] /\ step'[k] = step[k] /\ k # j
      BY <1>2, <1>6
    <2>2. k.core \in Cores /\ core[k.core] = "closing" /\ k.core # c
      BY <1>1, <1>2, <2>1, McpAssumption DEF ClosesKnown
    <2>3. keys'[k.core] = keys[k.core]
      BY <1>9, <2>2
    <2>4. \A l \in Jobs : l.does = "close" => stage'[l] = stage[l]
      BY <1>2, <1>6
    <2> QED
      BY <1>1, <1>3, <2>1, <2>2, <2>3, <2>4 DEF ClosesKnown
  <1>14. HasListed'
    <2> SUFFICES ASSUME NEW d \in Cores, core[d] \in {"absent", "loading", "live"}
                 PROVE  /\ keyOf'[d] \subseteq ToSet(keys'[d])
                        /\ \A t \in has'[d] :
                              \/ t \in ToSet(keys'[d])
                              \/ \E k \in jobs : k.does \in {"detach", "reload"} /\ k.core = d
                                                 /\ k.server = t /\ stage'[k] # "new"
      BY <1>1, <1>3 DEF HasListed
    <2>1. /\ keyOf[d] \subseteq ToSet(keys[d])
          /\ \A t \in has[d] :
                \/ t \in ToSet(keys[d])
                \/ \E k \in jobs : k.does \in {"detach", "reload"} /\ k.core = d
                                   /\ k.server = t /\ stage[k] # "new"
      BY <1>1 DEF HasListed
    <2>2. \A k \in jobs : stage[k] # "new" => stage'[k] # "new"
      BY <1>1, <1>6 DEF McpTypeOK
    <2>3. CASE d # c
      BY <1>6, <1>9, <2>1, <2>2, <2>3
    <2>4. CASE d = c
      <3>1. keyOf'[d] \subseteq ToSet(keys'[d])
        BY <1>9, <2>1, <2>4
      <3>2. stage'[j] # "new" /\ j.core = d /\ j.server = s
        BY <1>6, <2>4 DEF c, s
      <3> QED
        BY <1>2, <1>6, <1>9, <2>1, <2>2, <2>4, <3>1, <3>2
    <2> QED
      BY <2>3, <2>4
  <1>15. ClosedEmpty'
    BY <1>1, <1>2, <1>3, <1>9 DEF ClosedEmpty
  <1>16. Counted'
    <2>0. \A t : j \notin TakenOff(t)
      BY DEF TakenOff
    <2>1. CASE /\ s \in keyOf[c] /\ keys' = [keys EXCEPT ![c] = Without(s, keys[c])]
               /\ stage' = [stage EXCEPT ![j] = "waits"] /\ step' = step
      <3>1. \A t \in Servers : IsFiniteSet(Listed(t)') /\
                Cardinality(Listed(t)') = IF t = s THEN Cardinality(Listed(t)) - 1
                                          ELSE Cardinality(Listed(t))
        BY <1>2, <1>4, <1>5, <1>8, <2>1, ListedLess
      <3>2. stage'[j] = "waits" /\ ~Acquires(j)'
        BY <1>1, <1>2, <2>1 DEF McpTypeOK, Acquires
      <3>3. \A t \in Servers : j \in TakenOff(t)' <=> t = s
        BY <1>2, <1>3, <3>2 DEF TakenOff, s
      <3>4. \A t \in Servers : TakenOff(t)' = IF t = s THEN TakenOff(t) \cup {j} ELSE TakenOff(t)
        <4> SUFFICES ASSUME NEW t \in Servers
                     PROVE  TakenOff(t)' = IF t = s THEN TakenOff(t) \cup {j} ELSE TakenOff(t)
          OBVIOUS
        <4>1. TakenOff(t)' \ {j} = TakenOff(t) \ {j}
          BY <1>3, <1>7, TakenOffOne
        <4>2. (j \in TakenOff(t)' <=> t = s) /\ j \notin TakenOff(t)
          BY <2>0, <3>3
        <4> QED
          BY <4>1, <4>2
      <3>5. ASSUME NEW t \in Servers
            PROVE  /\ IsFiniteSet(Listed(t)') /\ IsFiniteSet(TakenOff(t)')
                   /\ refs'[t] = Cardinality(Listed(t)') + Cardinality(TakenOff(t)')
        <4>1. /\ IsFiniteSet(Listed(t)) /\ IsFiniteSet(TakenOff(t))
              /\ refs[t] = Cardinality(Listed(t)) + Cardinality(TakenOff(t))
          BY McpParts DEF Counted
        <4>2. Cardinality(Listed(t)) \in Nat /\ Cardinality(TakenOff(t)) \in Nat
          BY <4>1, FS_CardinalityType
        <4>3. /\ IsFiniteSet(TakenOff(t)')
              /\ Cardinality(TakenOff(t)') = IF t = s THEN Cardinality(TakenOff(t)) + 1
                                             ELSE Cardinality(TakenOff(t))
          <5>1. CASE t = s
            BY <2>0, <3>4, <4>1, <5>1, FS_AddElement
          <5>2. CASE t # s
            BY <3>4, <4>1, <5>2
          <5> QED
            BY <5>1, <5>2
        <4> QED
          BY <1>3, <3>1, <4>1, <4>2, <4>3
      <3> QED
        BY <3>5 DEF Counted
    <2>2. CASE /\ keys' = keys
               /\ \/ stage' = [stage EXCEPT ![j] = "over"]
                  \/ step' = [step EXCEPT ![j] = 2] /\ j.does = "reload"
      <3>1. \A t : Listed(t)' = Listed(t)
        BY <1>8, <2>2, ListedStays
      <3>2. stage'[j] = "over" \/ Acquires(j)'
        BY <1>1, <1>2, <2>2 DEF McpTypeOK, Acquires
      <3>3. \A t : j \notin TakenOff(t)'
        BY <3>2 DEF TakenOff
      <3>4. \A t : TakenOff(t)' = TakenOff(t)
        BY <1>3, <1>7, <2>0, <3>3, TakenOffStays
      <3> QED
        BY <1>3, <3>1, <3>4, CountedStays
    <2> QED
      BY <1>3, <2>1, <2>2
  <1> QED
    BY <1>10, <1>11, <1>12, <1>13, <1>14, <1>15, <1>16 DEF McpInv

\* A close begins at the first place of its list, and passes over nothing yet.
LEMMA CloseBegins ==
  ASSUME McpInv, NEW j \in jobs, stage[j] = "new", BeginClose(j)
  PROVE  McpInv'
  <1> DEFINE c == j.core
  <1>1. McpTypeOK /\ JobsKnown /\ LoadsKnown /\ ClosesKnown /\ HasListed /\ ClosedEmpty
    BY McpParts
  <1>2. /\ j \in Jobs /\ c \in Cores /\ j.does = "close" /\ core[c] = "live" /\ step[j] = 1
        /\ c \in connected
    BY <1>1, McpAssumption DEF McpTypeOK, JobsKnown, HasListed, BeginClose
  <1>3. /\ UNCHANGED <<jobs, step, lock, refs, starter, lost>>
        /\ \/ /\ keys[c] = <<>> /\ core' = [core EXCEPT ![c] = "closed"]
              /\ stage' = [stage EXCEPT ![j] = "over"] /\ what' = what
              /\ keys' = [keys EXCEPT ![c] = <<>>] /\ keyOf' = [keyOf EXCEPT ![c] = {}]
              /\ has' = [has EXCEPT ![c] = {}] /\ connected' = connected \ {c}
           \/ /\ keys[c] # <<>> /\ core' = [core EXCEPT ![c] = "closing"]
              /\ stage' = [stage EXCEPT ![j] = "waits"] /\ what' = [what EXCEPT ![j] = keys[c][1]]
              /\ UNCHANGED <<connected, has, keyOf, keys>>
    BY <1>2 DEF BeginClose, Goes, Empties, manager
  <1>4. \A i : ~Passed(c, i)
    BY <1>1, <1>2, NotPassed
  <1>5. keys[c] \in Seq(Servers)
    BY <1>1, <1>2 DEF McpTypeOK
  <1>6. keys[c] # <<>> => 1 \in DOMAIN keys[c] /\ keys[c][1] \in Servers
    BY <1>5
  <1>7. keys' = keys
    BY <1>1, <1>2, <1>3 DEF McpTypeOK
  <1>8. \A k \in Jobs : k.does = "close" /\ stage[k] \in {"waits", "stops"} => k.core # c
    BY <1>1, <1>2 DEF ClosesKnown
  <1>9. \A k \in Jobs : k.does = "load" /\ stage[k] \in {"waits", "starts"} => k.core # c
    BY <1>1, <1>2 DEF LoadsKnown
  <1>10. j.core = c /\ \A k \in Jobs : k.core \in Cores
    BY McpAssumption
  <1> HIDE DEF c
  <1>11. /\ stage' \in [Jobs -> {"new", "waits", "starts", "stops", "over"}]
         /\ stage'[j] = (IF keys[c] = <<>> THEN "over" ELSE "waits")
         /\ \A k \in Jobs : k # j => stage'[k] = stage[k]
         /\ core' \in [Cores -> {"absent", "loading", "live", "closing", "closed"}]
         /\ core'[c] = (IF keys[c] = <<>> THEN "closed" ELSE "closing")
         /\ \A d \in Cores : d # c => core'[d] = core[d]
         /\ what' \in [Jobs -> Servers] /\ \A k \in Jobs : k # j => what'[k] = what[k]
         /\ keys[c] # <<>> => what'[j] = keys[c][1]
         /\ has' \in [Cores -> SUBSET Servers] /\ \A d \in Cores : d # c => has'[d] = has[d]
         /\ keyOf' \in [Cores -> SUBSET Servers] /\ \A d \in Cores : d # c => keyOf'[d] = keyOf[d]
         /\ connected' \subseteq Cores /\ \A d \in Cores : d # c => (d \in connected' <=> d \in connected)
    <2>1. /\ stage \in [Jobs -> {"new", "waits", "starts", "stops", "over"}]
          /\ core \in [Cores -> {"absent", "loading", "live", "closing", "closed"}]
          /\ what \in [Jobs -> Servers] /\ has \in [Cores -> SUBSET Servers]
          /\ keyOf \in [Cores -> SUBSET Servers] /\ connected \subseteq Cores
      BY <1>1 DEF McpTypeOK
    <2>2. CASE keys[c] = <<>>
      BY <1>2, <1>3, <2>1, <2>2
    <2>3. CASE keys[c] # <<>>
      BY <1>2, <1>3, <1>6, <2>1, <2>3
    <2> QED
      BY <2>2, <2>3
  <1>12. McpTypeOK'
    BY <1>1, <1>3, <1>7, <1>11 DEF McpTypeOK
  <1>13. JobsKnown'
    BY <1>1, <1>2, <1>3, <1>11 DEF JobsKnown, Acquires
  <1>14. LoadsKnown'
    BY <1>1, <1>2, <1>9, <1>10, <1>11 DEF LoadsKnown
  <1>15. ClosesKnown'
    <2> SUFFICES ASSUME NEW k \in Jobs, k.does = "close", stage'[k] \in {"waits", "stops"}
                 PROVE  /\ core'[k.core] = "closing" /\ step'[k] \in DOMAIN keys'[k.core]
                        /\ stage'[k] = "waits" => what'[k] = keys'[k.core][step'[k]]
                        /\ \A l \in Jobs : l.does = "close" /\ stage'[l] \in {"waits", "stops"}
                                           /\ l.core = k.core => l = k
      BY DEF ClosesKnown
    <2>1. CASE k = j
      BY <1>2, <1>3, <1>6, <1>7, <1>8, <1>10, <1>11, <2>1
    <2>2. CASE k # j
      <3>1. stage[k] = stage'[k] /\ k.core # c /\ what'[k] = what[k] /\ step'[k] = step[k]
        BY <1>3, <1>8, <1>11, <2>2
      <3>2. core'[k.core] = core[k.core] /\ keys'[k.core] = keys[k.core]
        BY <1>7, <1>10, <1>11, <3>1
      <3>3. \A l \in Jobs : l.core = k.core => stage'[l] = stage[l]
        BY <1>10, <1>11, <3>1
      <3> QED
        BY <1>1, <3>1, <3>2, <3>3 DEF ClosesKnown
    <2> QED
      BY <2>1, <2>2
  <1>16. HasListed'
    <2>1. \A k \in jobs : stage[k] # "new" => stage'[k] # "new"
      BY <1>1, <1>11 DEF McpTypeOK
    <2>2. core'[c] \notin {"absent", "loading", "live"}
      BY <1>11
    <2> QED
      BY <1>1, <1>3, <1>7, <1>11, <2>1, <2>2 DEF HasListed
  <1>17. ClosedEmpty'
    BY <1>1, <1>2, <1>3, <1>7, <1>11 DEF ClosedEmpty
  <1>18. Counted'
    <2>1. \A k \in jobs : k # j => stage'[k] = stage[k] /\ step'[k] = step[k]
      BY <1>1, <1>3, <1>11 DEF McpTypeOK
    <2>2. ASSUME NEW d \in Cores, NEW i \in DOMAIN keys[d]
          PROVE  Passed(d, i)' <=> Passed(d, i)
      <3>1. CASE d # c
        BY <1>3, <1>10, <2>1, <3>1 DEF Passed
      <3>2. CASE d = c
        <4>1. ~Passed(c, i)
          BY <1>4
        <4>2. \A k \in jobs : k.does = "close" /\ k.core = c /\ stage'[k] \in {"waits", "stops"}
                 => k = j /\ stage'[k] = "waits" /\ step'[k] = 1
          BY <1>1, <1>2, <1>3, <1>8, <1>11 DEF McpTypeOK
        <4>3. ~(i < 1)
          BY <1>5, <3>2
        <4>4. ~Passed(c, i)'
          BY <1>3, <4>2, <4>3 DEF Passed
        <4> QED
          BY <3>2, <4>1, <4>4
      <3> QED
        BY <3>1, <3>2
    <2>3. \A t : Listed(t)' = Listed(t)
      BY <1>7, <2>2, ListedStays
    <2>4. \A t : j \notin TakenOff(t) /\ j \notin TakenOff(t)'
      BY <1>2 DEF TakenOff
    <2>5. \A t : TakenOff(t)' = TakenOff(t)
      BY <1>3, <2>1, <2>4, TakenOffStays
    <2> QED
      BY <1>3, <2>3, <2>5, CountedStays
  <1> QED
    BY <1>12, <1>13, <1>14, <1>15, <1>16, <1>17, <1>18 DEF McpInv

\* Who gets the process has one reference more, and it is the last of the list.
LEMMA ConnectsKeeps ==
  ASSUME McpInv, NEW j \in jobs, stage[j] \in {"waits", "starts"}, Acquires(j), NEW ok \in BOOLEAN,
         Connects(j, ok), jobs' = jobs, lock \in {Idle, j}, lock' = Idle,
         refs' = IF ok THEN [refs EXCEPT ![what[j]] = refs[what[j]] + 1] ELSE refs
  PROVE  McpInv'
  <1> DEFINE c == j.core
             s == what[j]
             q == Append(keys[c], s)
  <1>1. McpTypeOK /\ JobsKnown /\ LoadsKnown /\ ClosesKnown /\ HasListed /\ ClosedEmpty
    BY McpParts
  <1>2. j \in Jobs /\ c \in Cores /\ s \in Servers /\ j.does \in {"load", "attach", "reload"}
    BY <1>1, McpAssumption DEF McpTypeOK, Acquires
  <1>3. /\ keys[c] \in Seq(Servers) /\ step[j] \in Nat /\ q \in Seq(Servers)
        /\ DOMAIN q = 1 .. Len(keys[c]) + 1
        /\ q[Len(keys[c]) + 1] = s /\ \A i \in 1 .. Len(keys[c]) : q[i] = keys[c][i]
        /\ Len(keys[c]) \in Nat /\ DOMAIN keys[c] = 1 .. Len(keys[c])
    <2>1. keys[c] \in Seq(Servers) /\ step[j] \in Nat
      BY <1>1, <1>2 DEF McpTypeOK
    <2> QED
      BY <1>2, <2>1, SeqAppend
  <1>4. /\ \/ /\ ok /\ has' = [has EXCEPT ![c] = has[c] \cup {s}]
              /\ keyOf' = [keyOf EXCEPT ![c] = keyOf[c] \cup {s}]
              /\ keys' = [keys EXCEPT ![c] = Append(keys[c], s)]
           \/ ~ok /\ has' = has /\ keyOf' = keyOf /\ keys' = keys
        /\ lost' = IF ok /\ core[c] = "closed" THEN lost \cup {c} ELSE lost
        /\ \/ /\ j.does = "load" /\ step[j] < Len(Boot)
              /\ step' = [step EXCEPT ![j] = step[j] + 1]
              /\ what' = [what EXCEPT ![j] = Boot[step[j] + 1]]
              /\ stage' = [stage EXCEPT ![j] = "waits"] /\ core' = core /\ connected' = connected
           \/ /\ stage' = [stage EXCEPT ![j] = "over"] /\ step' = step /\ what' = what
              /\ core' = (IF j.does = "load" THEN [core EXCEPT ![c] = "live"] ELSE core)
              /\ connected' = connected \cup {c}
    BY DEF Connects, Goes
  <1> HIDE DEF c, s, q
  <1>5. step[j] < Len(Boot) => Boot[step[j] + 1] \in Servers
    BY <1>3, McpAssumption
  <1>6. /\ stage' \in [Jobs -> {"new", "waits", "starts", "stops", "over"}]
        /\ stage'[j] \in {"waits", "over"} /\ \A k \in Jobs : k # j => stage'[k] = stage[k]
        /\ stage'[j] = "waits" => j.does = "load" /\ core' = core
        /\ step' \in [Jobs -> Nat \ {0}] /\ \A k \in Jobs : k # j => step'[k] = step[k]
        /\ what' \in [Jobs -> Servers] /\ \A k \in Jobs : k # j => what'[k] = what[k]
        /\ j.does # "load" => what'[j] = what[j]
        /\ core' \in [Cores -> {"absent", "loading", "live", "closing", "closed"}]
        /\ \A d \in Cores : core'[d] # core[d] => d = c /\ j.does = "load" /\ core'[d] = "live"
                                                  /\ c \in connected'
        /\ connected \subseteq connected' /\ connected' \subseteq Cores
        /\ lost \subseteq lost' /\ lost' \subseteq Cores
    <2>1. /\ stage \in [Jobs -> {"new", "waits", "starts", "stops", "over"}]
          /\ core \in [Cores -> {"absent", "loading", "live", "closing", "closed"}]
          /\ what \in [Jobs -> Servers] /\ connected \subseteq Cores /\ lost \subseteq Cores
          /\ step \in [Jobs -> Nat \ {0}] /\ step[j] + 1 \in Nat \ {0}
      BY <1>1, <1>2 DEF McpTypeOK
    <2>2. lost \subseteq lost' /\ lost' \subseteq Cores
      BY <1>2, <1>4, <2>1
    <2>3. CASE stage' = [stage EXCEPT ![j] = "over"] /\ step' = step /\ what' = what
              /\ core' = (IF j.does = "load" THEN [core EXCEPT ![c] = "live"] ELSE core)
              /\ connected' = connected \cup {c}
      BY <1>2, <2>1, <2>2, <2>3
    <2>4. CASE /\ j.does = "load" /\ step[j] < Len(Boot)
               /\ step' = [step EXCEPT ![j] = step[j] + 1]
               /\ what' = [what EXCEPT ![j] = Boot[step[j] + 1]]
               /\ stage' = [stage EXCEPT ![j] = "waits"] /\ core' = core /\ connected' = connected
      BY <1>2, <1>5, <2>1, <2>2, <2>4
    <2> QED
      BY <1>4, <2>3, <2>4
  <1>7. /\ keys' \in [Cores -> Seq(Servers)] /\ \A d \in Cores : d # c => keys'[d] = keys[d]
        /\ keyOf' \in [Cores -> SUBSET Servers] /\ has' \in [Cores -> SUBSET Servers]
        /\ \A d \in Cores : d # c => keyOf'[d] = keyOf[d] /\ has'[d] = has[d]
        /\ \A i \in DOMAIN keys[c] : i \in DOMAIN keys'[c] /\ keys'[c][i] = keys[c][i]
        /\ ToSet(keys[c]) \subseteq ToSet(keys'[c])
        /\ \A t : (t \in keyOf'[c] => t \in keyOf[c] \/ t \in ToSet(keys'[c]))
                  /\ (t \in has'[c] => t \in has[c] \/ t \in ToSet(keys'[c]))
        /\ keys' # keys => ok
    <2>1. /\ keyOf \in [Cores -> SUBSET Servers] /\ has \in [Cores -> SUBSET Servers]
          /\ keys \in [Cores -> Seq(Servers)]
      BY <1>1 DEF McpTypeOK
    <2>2. CASE ok
      <3>1. /\ has' = [has EXCEPT ![c] = has[c] \cup {s}]
            /\ keyOf' = [keyOf EXCEPT ![c] = keyOf[c] \cup {s}]
            /\ keys' = [keys EXCEPT ![c] = q]
        BY <1>4, <2>2 DEF q
      <3>2. /\ keyOf' \in [Cores -> SUBSET Servers] /\ has' \in [Cores -> SUBSET Servers]
            /\ \A d \in Cores : d # c => keyOf'[d] = keyOf[d] /\ has'[d] = has[d]
            /\ keyOf'[c] = keyOf[c] \cup {s} /\ has'[c] = has[c] \cup {s}
        BY <1>2, <2>1, <3>1
      <3>3. keys'[c] = q /\ \A d \in Cores : d # c => keys'[d] = keys[d]
        BY <1>2, <2>1, <3>1
      <3>4. keys' \in [Cores -> Seq(Servers)]
        BY <1>2, <1>3, <2>1, <3>1, Zenon
      <3>5. \A i \in DOMAIN keys[c] : i \in DOMAIN keys'[c] /\ keys'[c][i] = keys[c][i]
        BY <1>3, <3>3
      <3>6. s \in ToSet(keys'[c])
        BY <1>3, <3>3 DEF ToSet
      <3>7. ToSet(keys[c]) \subseteq ToSet(keys'[c])
        BY <3>5 DEF ToSet
      <3> QED
        BY <2>2, <3>2, <3>3, <3>4, <3>5, <3>6, <3>7
    <2>3. CASE ~ok
      BY <1>4, <2>1, <2>3
    <2> QED
      BY <2>2, <2>3
  <1>8. refs' \in [Servers -> Nat] /\ \A t \in Servers : t # s => refs'[t] = refs[t]
    BY <1>1, <1>2 DEF McpTypeOK, s
  <1>9. McpTypeOK'
    BY <1>1, <1>6, <1>7, <1>8 DEF McpTypeOK
  <1>10. \A k \in Jobs : stage'[k] # "starts"
    BY <1>1, <1>6, McpAssumption DEF JobsKnown
  <1>11. JobsKnown'
    BY <1>1, <1>2, <1>6, <1>10 DEF JobsKnown, Acquires
  <1>12. LoadsKnown'
    <2> SUFFICES ASSUME NEW k \in Jobs, k.does = "load", stage'[k] \in {"waits", "starts"}
                 PROVE  /\ core'[k.core] = "loading"
                        /\ \A l \in Jobs : l.does = "load" /\ stage'[l] \in {"waits", "starts"}
                                           /\ l.core = k.core => l = k
      BY DEF LoadsKnown
    <2>1. \A l \in Jobs : stage'[l] \in {"waits", "starts"} => stage[l] \in {"waits", "starts"}
      BY <1>6
    <2>2. /\ core[k.core] = "loading" /\ stage[k] \in {"waits", "starts"}
          /\ \A l \in Jobs : l.does = "load" /\ stage[l] \in {"waits", "starts"}
                             /\ l.core = k.core => l = k
      BY <1>1, <2>1 DEF LoadsKnown
    <2>3. core'[k.core] = core[k.core]
      <3>1. CASE core' = core
        BY <3>1
      <3>2. CASE core' # core
        <4>1. stage'[j] = "over"
          BY <1>6, <3>2
        <4>2. j.does = "load" => j.core # k.core
          BY <1>2, <2>2, <4>1
        <4> QED
          BY <1>6, <4>2, McpAssumption DEF c
      <3> QED
        BY <3>1, <3>2
    <2> QED
      BY <2>1, <2>2, <2>3
  <1>13. ClosesKnown'
    <2> SUFFICES ASSUME NEW k \in Jobs, k.does = "close", stage'[k] \in {"waits", "stops"}
                 PROVE  /\ core'[k.core] = "closing" /\ step'[k] \in DOMAIN keys'[k.core]
                        /\ stage'[k] = "waits" => what'[k] = keys'[k.core][step'[k]]
                        /\ \A l \in Jobs : l.does = "close" /\ stage'[l] \in {"waits", "stops"}
                                           /\ l.core = k.core => l = k
      BY DEF ClosesKnown
    <2>1. stage[k] = stage'[k] /\ step'[k] = step[k] /\ what'[k] = what[k]
      BY <1>2, <1>6
    <2>2. /\ k.core \in Cores /\ core[k.core] = "closing" /\ step[k] \in DOMAIN keys[k.core]
          /\ stage[k] = "waits" => what[k] = keys[k.core][step[k]]
      BY <1>1, <2>1, McpAssumption DEF ClosesKnown
    <2>3. step[k] \in DOMAIN keys'[k.core] /\ keys'[k.core][step[k]] = keys[k.core][step[k]]
      BY <1>7, <2>2
    <2>4. core'[k.core] = "closing"
      <3>1. j.does = "load" => core[c] = "loading"
        BY <1>1, <1>2 DEF LoadsKnown, c
      <3> QED
        BY <1>6, <2>2, <3>1
    <2>5. \A l \in Jobs : l.does = "close" => stage'[l] = stage[l]
      BY <1>2, <1>6
    <2> QED
      BY <1>1, <2>1, <2>2, <2>3, <2>4, <2>5 DEF ClosesKnown
  <1>14. HasListed'
    <2> SUFFICES ASSUME NEW d \in Cores
                 PROVE  /\ core'[d] = "live" => d \in connected'
                        /\ core'[d] \in {"absent", "loading", "live"} =>
                             /\ keyOf'[d] \subseteq ToSet(keys'[d])
                             /\ \A t \in has'[d] :
                                   \/ t \in ToSet(keys'[d])
                                   \/ \E k \in jobs : k.does \in {"detach", "reload"} /\ k.core = d
                                                      /\ k.server = t /\ stage'[k] # "new"
      BY DEF HasListed
    <2>1. core'[d] = "live" => d \in connected'
      BY <1>1, <1>6 DEF HasListed
    <2>2. ASSUME core'[d] \in {"absent", "loading", "live"}
          PROVE  core[d] \in {"absent", "loading", "live"}
      <3>1. j.does = "load" => core[c] = "loading"
        BY <1>1, <1>2 DEF LoadsKnown, c
      <3> QED
        BY <1>6, <2>2, <3>1
    <2>3. \A k \in jobs : stage[k] # "new" => stage'[k] # "new"
      BY <1>1, <1>6 DEF McpTypeOK
    <2>4. core[d] \in {"absent", "loading", "live"} =>
             /\ keyOf[d] \subseteq ToSet(keys[d])
             /\ \A t \in has[d] :
                   \/ t \in ToSet(keys[d])
                   \/ \E k \in jobs : k.does \in {"detach", "reload"} /\ k.core = d
                                      /\ k.server = t /\ stage[k] # "new"
      BY <1>1 DEF HasListed
    <2>5. CASE d # c
      BY <1>7, <2>1, <2>2, <2>3, <2>4, <2>5
    <2>6. CASE d = c
      BY <1>7, <2>1, <2>2, <2>3, <2>4, <2>6
    <2> QED
      BY <2>5, <2>6
  <1>15. ClosedEmpty'
    <2> SUFFICES ASSUME NEW d \in Cores \ lost', core'[d] = "closed" PROVE keys'[d] = <<>>
      BY DEF ClosedEmpty
    <2>1. core[d] = "closed" /\ d \notin lost
      BY <1>6
    <2>2. keys'[d] = keys[d]
      BY <1>4, <1>7, <2>1
    <2> QED
      BY <1>1, <2>1, <2>2 DEF ClosedEmpty
  <1>16. Counted'
    <2>1. \A k \in jobs : k # j => stage'[k] = stage[k] /\ step'[k] = step[k]
      BY <1>1, <1>6 DEF McpTypeOK
    <2>2. \A d, i : Passed(d, i)' <=> Passed(d, i)
      <3>1. \A k \in jobs : k.does = "close" => stage'[k] = stage[k] /\ step'[k] = step[k]
        BY <1>2, <2>1
      <3> QED
        BY <3>1, PassedStays
    <2>3. \A t : j \notin TakenOff(t) /\ j \notin TakenOff(t)'
      BY <1>6 DEF TakenOff
    <2>4. \A t : TakenOff(t)' = TakenOff(t)
      BY <2>1, <2>3, TakenOffStays
    <2>5. CASE ~ok
      <3>1. \A t : Listed(t)' = Listed(t)
        BY <1>7, <2>2, <2>5, ListedStays
      <3> QED
        BY <2>4, <2>5, <3>1, CountedStays
    <2>6. CASE ok
      <3> DEFINE r == <<c, Len(keys[c]) + 1>>
      <3>1. keys' = [keys EXCEPT ![c] = Append(keys[c], s)]
        BY <1>4, <2>6
      <3>2. /\ \A t \in Servers : Listed(t)' = IF t = s THEN Listed(t) \cup {r} ELSE Listed(t)
            /\ r \notin Listed(s)
        BY <1>2, <2>2, <3>1, ListedMore
      <3> HIDE DEF r
      <3>3. refs'[s] = refs[s] + 1
        BY <1>1, <1>2, <2>6 DEF McpTypeOK, s
      <3>4. ASSUME NEW t \in Servers
            PROVE  /\ IsFiniteSet(Listed(t)') /\ IsFiniteSet(TakenOff(t)')
                   /\ refs'[t] = Cardinality(Listed(t)') + Cardinality(TakenOff(t)')
        <4>1. /\ IsFiniteSet(Listed(t)) /\ IsFiniteSet(TakenOff(t))
              /\ refs[t] = Cardinality(Listed(t)) + Cardinality(TakenOff(t))
          BY McpParts DEF Counted
        <4>2. Cardinality(Listed(t)) \in Nat /\ Cardinality(TakenOff(t)) \in Nat
          BY <4>1, FS_CardinalityType
        <4>3. /\ IsFiniteSet(Listed(t)')
              /\ Cardinality(Listed(t)') = IF t = s THEN Cardinality(Listed(t)) + 1
                                           ELSE Cardinality(Listed(t))
          <5>1. CASE t = s
            BY <3>2, <4>1, <5>1, FS_AddElement
          <5>2. CASE t # s
            BY <3>2, <4>1, <5>2
          <5> QED
            BY <5>1, <5>2
        <4> QED
          BY <1>8, <2>4, <3>3, <4>1, <4>2, <4>3
      <3> QED
        BY <3>4 DEF Counted
    <2> QED
      BY <2>5, <2>6
  <1> QED
    BY <1>9, <1>11, <1>12, <1>13, <1>14, <1>15, <1>16 DEF McpInv

\* While a process starts nobody else has the lock.
LEMMA AcquireKeeps ==
  ASSUME McpInv, NEW j \in jobs, Joins(j) \/ Started(j) \/ StartFails(j)
  PROVE  McpInv'
  <1>1. McpTypeOK /\ JobsKnown
    BY McpParts
  <1>2. j \in Jobs /\ what[j] \in Servers
    BY <1>1 DEF McpTypeOK
  <1>3. CASE Joins(j)
    BY <1>3, ConnectsKeeps DEF Joins
  <1>4. ASSUME stage[j] = "starts" PROVE lock = j /\ Acquires(j) /\ refs[what[j]] = 0
    BY <1>1, <1>2, <1>4 DEF JobsKnown
  <1>5. CASE Started(j)
    <2>1. refs' = [refs EXCEPT ![what[j]] = refs[what[j]] + 1]
      BY <1>1, <1>2, <1>4, <1>5 DEF Started, McpTypeOK
    <2> QED
      BY <1>4, <1>5, <2>1, ConnectsKeeps DEF Started
  <1>6. CASE StartFails(j)
    BY <1>4, <1>6, ConnectsKeeps DEF StartFails
  <1> QED
    BY <1>3, <1>5, <1>6

LEMMA StartsKeeps ==
  ASSUME McpInv, NEW j \in jobs, Starts(j)
  PROVE  McpInv'
  <1>1. McpTypeOK /\ JobsKnown /\ LoadsKnown /\ ClosesKnown /\ HasListed /\ ClosedEmpty
    BY McpParts
  <1>2. j \in Jobs /\ stage[j] = "waits" /\ Acquires(j) /\ lock = Idle /\ refs[what[j]] = 0
    BY <1>1 DEF McpTypeOK, Starts
  <1>3. /\ lock' = j /\ stage' = [stage EXCEPT ![j] = "starts"]
        /\ UNCHANGED <<jobs, what, step, refs, starter, core, connected, has, keyOf, keys, lost>>
    BY DEF Starts, Goes, manager
  <1>4. /\ stage' \in [Jobs -> {"new", "waits", "starts", "stops", "over"}]
        /\ stage'[j] = "starts" /\ \A k \in Jobs : k # j => stage'[k] = stage[k]
    BY <1>1, <1>2, <1>3 DEF McpTypeOK
  <1>5. \A k \in Jobs : stage[k] # "starts"
    BY <1>1, <1>2, McpAssumption DEF JobsKnown
  <1>6. McpTypeOK'
    BY <1>1, <1>2, <1>3, <1>4 DEF McpTypeOK
  <1>7. JobsKnown'
    BY <1>1, <1>2, <1>3, <1>4, <1>5 DEF JobsKnown, Acquires
  <1>8. LoadsKnown'
    BY <1>1, <1>2, <1>3, <1>4 DEF LoadsKnown
  <1>9. ClosesKnown'
    BY <1>1, <1>2, <1>3, <1>4 DEF ClosesKnown
  <1>10. HasListed'
    <2>1. \A k \in jobs : stage[k] # "new" => stage'[k] # "new"
      BY <1>1, <1>4 DEF McpTypeOK
    <2> QED
      BY <1>1, <1>3, <2>1 DEF HasListed
  <1>11. ClosedEmpty'
    BY <1>1, <1>3 DEF ClosedEmpty
  <1>12. Counted'
    <2>1. \A k \in jobs : k # j => stage'[k] = stage[k] /\ step'[k] = step[k]
      BY <1>1, <1>3, <1>4 DEF McpTypeOK
    <2>2. j.does # "close"
      BY <1>2 DEF Acquires
    <2>3. \A d, i : Passed(d, i)' <=> Passed(d, i)
      BY <1>3, <2>1, <2>2, PassedStays
    <2>4. \A t : Listed(t)' = Listed(t)
      BY <1>3, <2>3, ListedStays
    <2>5. \A t : j \notin TakenOff(t) /\ j \notin TakenOff(t)'
      BY <1>2, <1>4 DEF TakenOff
    <2>6. \A t : TakenOff(t)' = TakenOff(t)
      BY <1>3, <2>1, <2>5, TakenOffStays
    <2> QED
      BY <1>3, <2>4, <2>6, CountedStays
  <1> QED
    BY <1>6, <1>7, <1>8, <1>9, <1>10, <1>11, <1>12 DEF McpInv

\* A release counts down to zero and no further.
LEMMA ReleaseCounts ==
  ASSUME refs \in [Servers -> Nat], NEW s \in Servers, Release(s)
  PROVE  refs' \in [Servers -> Nat] /\ \A t \in Servers : refs[t] = 0 => refs'[t] = 0
  <1>1. refs' = [refs EXCEPT ![s] = IF refs[s] = 0 THEN 0 ELSE refs[s] - 1]
    BY DEF Release
  <1>2. (IF refs[s] = 0 THEN 0 ELSE refs[s] - 1) \in Nat
    OBVIOUS
  <1> QED
    BY <1>1, <1>2

\* A detach that goes on has released what it took off, once.
LEMMA DetachGoesOn ==
  ASSUME McpInv, NEW j \in jobs, j.does \in {"detach", "reload"},
         Releases(j) \/ Stopped(j) \/ StopRaises(j)
  PROVE  McpInv'
  <1> DEFINE c == j.core
             s == j.server
  <1>1. McpTypeOK /\ JobsKnown /\ LoadsKnown /\ ClosesKnown /\ HasListed /\ ClosedEmpty
    BY McpParts
  <1>2. j \in Jobs /\ c \in Cores /\ s \in Servers /\ what[j] = s
    BY <1>1, McpAssumption DEF McpTypeOK, JobsKnown
  <1>3. /\ UNCHANGED <<jobs, what, lock, core, connected, keyOf, keys, lost>>
        /\ has' = has \/ has' = [has EXCEPT ![c] = has[c] \ {s}]
        /\ \/ stage' = [stage EXCEPT ![j] = "stops"] /\ step' = step /\ ~Acquires(j)
           \/ stage' = [stage EXCEPT ![j] = "over"] /\ step' = step
           \/ /\ stage' = [stage EXCEPT ![j] = "waits"] \/ stage' = [stage EXCEPT ![j] = "over"]
              /\ step' = [step EXCEPT ![j] = 2] /\ j.does = "reload"
        /\ \/ stage[j] = "waits" /\ ~Acquires(j) /\ Release(s)
           \/ stage[j] = "stops" /\ refs' = refs
    <2>1. CASE Releases(j)
      BY <1>2, <2>1 DEF Releases, Continues, Goes, manager
    <2>2. CASE Stopped(j)
      BY <1>2, <2>2 DEF Stopped, Continues, Goes, manager
    <2>3. CASE StopRaises(j)
      BY <1>2, <2>3 DEF StopRaises, Goes
    <2> QED
      BY <2>1, <2>2, <2>3
  <1> HIDE DEF c, s
  <1>4. /\ stage' \in [Jobs -> {"new", "waits", "starts", "stops", "over"}]
        /\ stage'[j] \in {"stops", "over", "waits"} /\ \A k \in Jobs : k # j => stage'[k] = stage[k]
        /\ step' \in [Jobs -> Nat \ {0}] /\ \A k \in Jobs : k # j => step'[k] = step[k]
        /\ stage'[j] = "stops" => step'[j] = step[j] /\ ~Acquires(j)
        /\ stage'[j] = "waits" => step'[j] = 2 /\ j.does = "reload"
        /\ has' \in [Cores -> SUBSET Servers] /\ \A d \in Cores : has'[d] \subseteq has[d]
    <2>1. /\ stage \in [Jobs -> {"new", "waits", "starts", "stops", "over"}]
          /\ step \in [Jobs -> Nat \ {0}] /\ has \in [Cores -> SUBSET Servers]
      BY <1>1 DEF McpTypeOK
    <2>2. has' \in [Cores -> SUBSET Servers] /\ \A d \in Cores : has'[d] \subseteq has[d]
      BY <1>2, <1>3, <2>1
    <2> QED
      BY <1>2, <1>3, <2>1, <2>2
  <1>5. refs' \in [Servers -> Nat] /\ \A t \in Servers : refs[t] = 0 => refs'[t] = 0
    BY <1>1, <1>2, <1>3, ReleaseCounts DEF McpTypeOK
  <1>6. McpTypeOK'
    BY <1>1, <1>3, <1>4, <1>5 DEF McpTypeOK
  <1>7. JobsKnown'
    <2>1. \A k \in Jobs : what[k] \in Servers
      BY <1>1 DEF McpTypeOK
    <2> QED
      BY <1>1, <1>2, <1>3, <1>4, <1>5, <2>1 DEF JobsKnown, Acquires
  <1>8. LoadsKnown'
    BY <1>1, <1>2, <1>3, <1>4 DEF LoadsKnown
  <1>9. ClosesKnown'
    BY <1>1, <1>2, <1>3, <1>4 DEF ClosesKnown
  <1>10. HasListed'
    <2>1. \A k \in jobs : stage[k] # "new" => stage'[k] # "new"
      BY <1>1, <1>4 DEF McpTypeOK
    <2> QED
      BY <1>1, <1>3, <1>4, <2>1 DEF HasListed
  <1>11. ClosedEmpty'
    BY <1>1, <1>3 DEF ClosedEmpty
  <1>12. Counted'
    <2>1. \A k \in jobs : k # j => stage'[k] = stage[k] /\ step'[k] = step[k]
      BY <1>1, <1>3, <1>4 DEF McpTypeOK
    <2>2. \A d, i : Passed(d, i)' <=> Passed(d, i)
      <3>1. \A k \in jobs : k.does = "close" => stage'[k] = stage[k] /\ step'[k] = step[k]
        BY <2>1
      <3> QED
        BY <1>3, <3>1, PassedStays
    <2>3. \A t : Listed(t)' = Listed(t)
      BY <1>3, <2>2, ListedStays
    <2>4. \A t : j \notin TakenOff(t)'
      BY <1>4 DEF TakenOff, Acquires
    <2>5. \A t : TakenOff(t)' = TakenOff(t) \ {j}
      BY <1>3, <2>1, <2>4, TakenOffOne
    <2>6. CASE stage[j] = "waits" /\ ~Acquires(j) /\ Release(s)
      <3>1. \A t : j \in TakenOff(t) <=> t = s
        BY <2>6 DEF TakenOff, s
      <3>2. \A t \in Servers \ {s} : TakenOff(t)' = TakenOff(t)
        BY <2>5, <3>1
      <3> QED
        BY <1>2, <2>3, <2>5, <2>6, <3>1, <3>2, OneLess
    <2>7. CASE stage[j] = "stops" /\ refs' = refs
      <3>1. \A t : j \notin TakenOff(t)
        BY <2>7 DEF TakenOff
      <3> QED
        BY <2>3, <2>5, <2>7, <3>1, CountedStays
    <2> QED
      BY <1>3, <2>6, <2>7
  <1> QED
    BY <1>6, <1>7, <1>8, <1>9, <1>10, <1>11, <1>12 DEF McpInv

\* What the one close of a core has passed over.
LEMMA ClosePassed ==
  ASSUME McpInv, NEW j \in jobs, j.does = "close", stage[j] \in {"waits", "stops"}
  PROVE  /\ j \in Jobs /\ j.core \in Cores /\ core[j.core] = "closing"
         /\ step[j] \in DOMAIN keys[j.core]
         /\ stage[j] = "waits" => what[j] = keys[j.core][step[j]]
         /\ keys[j.core] \in Seq(Servers) /\ what[j] \in Servers /\ ~Acquires(j)
         /\ \A k \in Jobs : k.does = "close" /\ stage[k] \in {"waits", "stops"} /\ k.core = j.core
               => k = j
         /\ \A i : Passed(j.core, i) <=> IF stage[j] = "waits" THEN i < step[j] ELSE i <= step[j]
  <1>1. McpTypeOK /\ ClosesKnown
    BY McpParts
  <1>2. j \in Jobs /\ j.core \in Cores
    BY <1>1, McpAssumption DEF McpTypeOK
  <1>3. /\ core[j.core] = "closing" /\ step[j] \in DOMAIN keys[j.core]
        /\ stage[j] = "waits" => what[j] = keys[j.core][step[j]]
        /\ \A k \in Jobs : k.does = "close" /\ stage[k] \in {"waits", "stops"} /\ k.core = j.core
              => k = j
    BY <1>1, <1>2 DEF ClosesKnown
  <1>4. keys[j.core] \in Seq(Servers) /\ what[j] \in Servers
    BY <1>1, <1>2 DEF McpTypeOK
  <1>5. \A k \in jobs : k \in Jobs
    BY <1>1 DEF McpTypeOK
  <1>6. \A i : Passed(j.core, i) <=> IF stage[j] = "waits" THEN i < step[j] ELSE i <= step[j]
    BY <1>3, <1>5 DEF Passed
  <1> QED
    BY <1>2, <1>3, <1>4, <1>6 DEF Acquires

\* A close that goes on has released the place it was at, once.
LEMMA CloseNext ==
  ASSUME McpInv, NEW j \in jobs, j.does = "close", stage[j] \in {"waits", "stops"},
         UNCHANGED <<jobs, lock, core, connected, has, keyOf, keys, lost>>,
         \/ stage[j] = "waits" /\ Release(what[j])
         \/ stage[j] = "stops" /\ refs' = refs,
         \/ /\ stage' = [stage EXCEPT ![j] = "stops"] /\ step' = step /\ what' = what
         \/ /\ stage' = [stage EXCEPT ![j] = "waits"] /\ step' = [step EXCEPT ![j] = step[j] + 1]
            /\ what' = [what EXCEPT ![j] = keys[j.core][step[j] + 1]]
            /\ step[j] < Len(keys[j.core])
  PROVE  McpInv'
  <1> DEFINE n == step[j]
  <1>0. PICK s \in Servers : s = what[j]
    BY ClosePassed
  <1>6. PICK c \in Cores : c = j.core
    BY ClosePassed
  <1>1. McpTypeOK /\ JobsKnown /\ LoadsKnown /\ ClosesKnown /\ HasListed /\ ClosedEmpty
    BY McpParts
  <1>2. /\ j \in Jobs /\ c \in Cores /\ core[c] = "closing" /\ n \in DOMAIN keys[c]
        /\ stage[j] = "waits" => s = keys[c][n]
        /\ keys[c] \in Seq(Servers) /\ s \in Servers /\ ~Acquires(j)
        /\ \A k \in Jobs : k.does = "close" /\ stage[k] \in {"waits", "stops"} /\ k.core = c => k = j
        /\ \A i : Passed(c, i) <=> IF stage[j] = "waits" THEN i < n ELSE i <= n
    BY <1>0, <1>6, ClosePassed
  <1>3. /\ n \in Nat \ {0} /\ DOMAIN keys[c] = 1 .. Len(keys[c]) /\ Len(keys[c]) \in Nat
        /\ n < Len(keys[c]) => n + 1 \in DOMAIN keys[c] /\ keys[c][n + 1] \in Servers
    BY <1>2
  <1>4. /\ stage' \in [Jobs -> {"new", "waits", "starts", "stops", "over"}]
        /\ stage'[j] \in {"stops", "waits"} /\ \A k \in Jobs : k # j => stage'[k] = stage[k]
        /\ step' \in [Jobs -> Nat \ {0}] /\ \A k \in Jobs : k # j => step'[k] = step[k]
        /\ what' \in [Jobs -> Servers] /\ \A k \in Jobs : k # j => what'[k] = what[k]
        /\ stage'[j] = "stops" => step'[j] = n
        /\ stage'[j] = "waits" => step'[j] = n + 1 /\ what'[j] = keys[c][n + 1] /\ n < Len(keys[c])
    <2>1. /\ stage \in [Jobs -> {"new", "waits", "starts", "stops", "over"}]
          /\ step \in [Jobs -> Nat \ {0}] /\ what \in [Jobs -> Servers] /\ n + 1 \in Nat \ {0}
      BY <1>1, <1>3 DEF McpTypeOK
    <2> QED
      BY <1>2, <1>3, <1>6, <2>1
  <1>5. refs' \in [Servers -> Nat] /\ \A t \in Servers : refs[t] = 0 => refs'[t] = 0
    BY <1>0, <1>1, <1>2, ReleaseCounts DEF McpTypeOK
  <1> HIDE DEF n
  <1>7. McpTypeOK'
    BY <1>1, <1>4, <1>5 DEF McpTypeOK
  <1>8. JobsKnown'
    <2>1. \A k \in Jobs : what[k] \in Servers
      BY <1>1 DEF McpTypeOK
    <2> QED
      BY <1>1, <1>2, <1>4, <1>5, <2>1 DEF JobsKnown, Acquires
  <1>9. LoadsKnown'
    BY <1>1, <1>2, <1>4 DEF LoadsKnown
  <1>10. ClosesKnown'
    <2> SUFFICES ASSUME NEW k \in Jobs, k.does = "close", stage'[k] \in {"waits", "stops"}
                 PROVE  /\ core'[k.core] = "closing" /\ step'[k] \in DOMAIN keys'[k.core]
                        /\ stage'[k] = "waits" => what'[k] = keys'[k.core][step'[k]]
                        /\ \A l \in Jobs : l.does = "close" /\ stage'[l] \in {"waits", "stops"}
                                           /\ l.core = k.core => l = k
      BY DEF ClosesKnown
    <2>0. \A l \in Jobs : stage'[l] \in {"waits", "stops"} => stage[l] \in {"waits", "stops"}
      BY <1>4
    <2>1. CASE k = j
      BY <1>2, <1>3, <1>4, <1>6, <2>0, <2>1
    <2>2. CASE k # j
      BY <1>1, <1>4, <2>0, <2>2 DEF ClosesKnown
    <2> QED
      BY <2>1, <2>2
  <1>11. HasListed'
    <2>1. \A k \in jobs : stage[k] # "new" => stage'[k] # "new"
      BY <1>1, <1>4 DEF McpTypeOK
    <2> QED
      BY <1>1, <2>1 DEF HasListed
  <1>12. ClosedEmpty'
    BY <1>1 DEF ClosedEmpty
  <1>13. Counted'
    <2>1. \A k \in jobs : k # j => stage'[k] = stage[k] /\ step'[k] = step[k]
      BY <1>1, <1>4 DEF McpTypeOK
    <2>2. \A t : j \notin TakenOff(t) /\ j \notin TakenOff(t)'
      BY DEF TakenOff
    <2>3. \A t : TakenOff(t)' = TakenOff(t)
      BY <2>1, <2>2, TakenOffStays
    <2>4. \A d \in Cores : d # c => \A i : Passed(d, i)' <=> Passed(d, i)
      BY <1>6, <2>1 DEF Passed
    <2>5. ASSUME NEW i \in DOMAIN keys[c] PROVE Passed(c, i)' <=> i <= n
      <3>1. \A k \in jobs : k.does = "close" /\ k.core = c /\ stage'[k] \in {"waits", "stops"} => k = j
        BY <1>1, <1>2, <1>4 DEF McpTypeOK
      <3>2. Passed(c, i)' <=> IF stage'[j] = "waits" THEN i < step'[j] ELSE i <= step'[j]
        BY <1>4, <1>6, <3>1 DEF Passed
      <3>3. i \in Nat
        BY <1>3
      <3> QED
        BY <1>3, <1>4, <3>2, <3>3
    <2>6. CASE stage[j] = "stops" /\ refs' = refs
      <3>1. \A i \in DOMAIN keys[c] : Passed(c, i)' <=> Passed(c, i)
        BY <1>2, <2>5, <2>6
      <3>2. \A d \in Cores : \A i \in DOMAIN keys[d] : Passed(d, i)' <=> Passed(d, i)
        BY <2>4, <3>1
      <3>3. \A t : Listed(t)' = Listed(t)
        BY <3>2, ListedStays
      <3> QED
        BY <2>3, <2>6, <3>3, CountedStays
    <2>7. CASE stage[j] = "waits" /\ Release(s)
      <3>1. \A i \in DOMAIN keys[c] : Passed(c, i) <=> i < n
        BY <1>2, <2>7
      <3>2. ASSUME NEW t, NEW d \in Cores, NEW i
            PROVE  <<d, i>> \in Listed(t)' <=> <<d, i>> \in Listed(t) /\ <<d, i>> # <<c, n>>
        <4>1. /\ <<d, i>> \in Listed(t)' <=> i \in DOMAIN keys'[d] /\ keys'[d][i] = t /\ ~Passed(d, i)'
              /\ <<d, i>> \in Listed(t) <=> i \in DOMAIN keys[d] /\ keys[d][i] = t /\ ~Passed(d, i)
          BY ListedIs
        <4>2. CASE d # c
          BY <2>4, <4>1, <4>2
        <4>3. CASE d = c
          <5>1. i \in DOMAIN keys[c] => (i < n <=> i <= n /\ i # n) /\ (i = n => i <= n)
            BY <1>3
          <5>2. i \in DOMAIN keys[c] => (Passed(c, i)' <=> i <= n) /\ (Passed(c, i) <=> i < n)
            BY <2>5, <3>1
          <5>3. <<d, i>> # <<c, n>> <=> i # n
            BY <4>3
          <5>4. /\ <<c, i>> \in Listed(t)' <=> i \in DOMAIN keys[c] /\ keys[c][i] = t /\ ~Passed(c, i)'
                /\ <<c, i>> \in Listed(t) <=> i \in DOMAIN keys[c] /\ keys[c][i] = t /\ ~Passed(c, i)
            BY <4>1, <4>3
          <5>5. <<c, i>> \in Listed(t)' <=> <<c, i>> \in Listed(t) /\ i # n
            BY <5>1, <5>2, <5>4
          <5> QED
            BY <4>3, <5>3, <5>5
        <4> QED
          BY <4>2, <4>3
      <3>3. ASSUME NEW t PROVE Listed(t)' = Listed(t) \ {<<c, n>>}
        <4>1. \A r \in Listed(t) \cup Listed(t)' : \E d \in Cores : \E i : r = <<d, i>>
          BY ListedIs
        <4>2. ASSUME NEW r \in Listed(t) \cup Listed(t)'
              PROVE  r \in Listed(t)' <=> r \in Listed(t) /\ r # <<c, n>>
          <5>1. PICK d \in Cores : \E i : r = <<d, i>>
            BY <4>1
          <5>2. PICK i : r = <<d, i>>
            BY <5>1
          <5> QED
            BY <3>2, <5>2
        <4> QED
          BY <4>2
      <3>4. \A t : <<c, n>> \in Listed(t) <=> t = s
        <4>1. ~(n < n)
          BY <1>3
        <4> QED
          BY <1>2, <2>7, <3>1, <4>1, ListedIs
      <3>5. \A t \in Servers \ {s} : Listed(t)' = Listed(t)
        BY <3>3, <3>4
      <3>6. \E r \in Listed(s) : Listed(s)' = Listed(s) \ {r}
        <4>1. <<c, n>> \in Listed(s) /\ Listed(s)' = Listed(s) \ {<<c, n>>}
          BY <3>3, <3>4
        <4> QED
          BY <4>1
      <3> QED
        BY <1>2, <2>3, <2>7, <3>5, <3>6, OneLess
    <2> QED
      BY <1>0, <2>6, <2>7
  <1> QED
    BY <1>7, <1>8, <1>9, <1>10, <1>11, <1>12, <1>13 DEF McpInv

\* A close that ends, for whatever reason, leaves the places it did not release to nobody,
\* or has none left.
LEMMA CloseEnds ==
  ASSUME McpInv, NEW j \in jobs, j.does = "close", stage[j] \in {"waits", "stops"},
         UNCHANGED <<jobs, what, step>>, stage' = [stage EXCEPT ![j] = "over"],
         core' = [core EXCEPT ![j.core] = "closed"],
         lock' = lock \/ (lock = j /\ lock' = Idle),
         has' = has \/ has' = [has EXCEPT ![j.core] = {}],
         keyOf' = keyOf \/ keyOf' = [keyOf EXCEPT ![j.core] = {}],
         connected' = connected \/ connected' = connected \ {j.core},
         NEW k \in 0 .. Len(keys[j.core]),
         keys' = [keys EXCEPT ![j.core] = SubSeq(keys[j.core], k + 1, Len(keys[j.core]))],
         lost' = lost \cup {j.core} \/ (lost' = lost /\ keys'[j.core] = <<>>),
         \/ stage[j] = "waits" /\ Release(what[j]) /\ k = step[j] /\ k = Len(keys[j.core])
         \/ stage[j] = "waits" /\ refs' = refs /\ k + 1 = step[j]
         \/ stage[j] = "stops" /\ refs' = refs /\ k = step[j]
  PROVE  McpInv'
  <1>1. McpTypeOK /\ JobsKnown /\ LoadsKnown /\ ClosesKnown /\ HasListed /\ ClosedEmpty
    BY McpParts
  <1>2. PICK c \in Cores : c = j.core
    BY ClosePassed
  <1>3. PICK s \in Servers : s = what[j]
    BY ClosePassed
  <1>4. /\ j \in Jobs /\ core[c] = "closing" /\ step[j] \in DOMAIN keys[c]
        /\ stage[j] = "waits" => s = keys[c][step[j]]
        /\ keys[c] \in Seq(Servers) /\ ~Acquires(j)
        /\ \A l \in Jobs : l.does = "close" /\ stage[l] \in {"waits", "stops"} /\ l.core = c => l = j
        /\ \A i : Passed(c, i) <=> IF stage[j] = "waits" THEN i < step[j] ELSE i <= step[j]
    BY <1>2, <1>3, ClosePassed
  <1>5. /\ SubSeq(keys[c], k + 1, Len(keys[c])) \in Seq(Servers)
        /\ DOMAIN SubSeq(keys[c], k + 1, Len(keys[c])) = 1 .. Len(keys[c]) - k
        /\ Len(keys[c]) \in Nat /\ DOMAIN keys[c] = 1 .. Len(keys[c])
    BY <1>2, <1>4, SeqCut
  <1>6. /\ keys' \in [Cores -> Seq(Servers)] /\ \A d \in Cores : d # c => keys'[d] = keys[d]
        /\ DOMAIN keys'[c] = 1 .. Len(keys[c]) - k
    <2>1. keys \in [Cores -> Seq(Servers)]
      BY <1>1 DEF McpTypeOK
    <2>2. keys' = [keys EXCEPT ![c] = SubSeq(keys[c], k + 1, Len(keys[c]))]
      BY <1>2
    <2>3. keys' \in [Cores -> Seq(Servers)]
      BY <1>5, <2>1, <2>2, Zenon
    <2> QED
      BY <1>5, <2>1, <2>2, <2>3
  <1>7. /\ stage' \in [Jobs -> {"new", "waits", "starts", "stops", "over"}]
        /\ stage'[j] = "over" /\ \A l \in Jobs : l # j => stage'[l] = stage[l]
        /\ core' \in [Cores -> {"absent", "loading", "live", "closing", "closed"}]
        /\ core'[c] = "closed" /\ \A d \in Cores : d # c => core'[d] = core[d]
    BY <1>1, <1>2, <1>4 DEF McpTypeOK
  <1>8. /\ has' \in [Cores -> SUBSET Servers] /\ \A d \in Cores : d # c => has'[d] = has[d]
        /\ keyOf' \in [Cores -> SUBSET Servers] /\ \A d \in Cores : d # c => keyOf'[d] = keyOf[d]
        /\ connected' \subseteq Cores /\ \A d \in Cores : d # c => (d \in connected' <=> d \in connected)
        /\ lost' \subseteq Cores /\ lost \subseteq lost'
    BY <1>1, <1>2 DEF McpTypeOK
  <1>9. refs' \in [Servers -> Nat] /\ \A t \in Servers : refs[t] = 0 => refs'[t] = 0
    BY <1>1, <1>3, ReleaseCounts DEF McpTypeOK
  <1>10. McpTypeOK'
    <2>1. lock' \in Jobs \cup {Idle} /\ what' \in [Jobs -> Servers] /\ step' \in [Jobs -> Nat \ {0}]
          /\ jobs' \subseteq Jobs
      BY <1>1 DEF McpTypeOK
    <2> QED
      BY <1>6, <1>7, <1>8, <1>9, <2>1 DEF McpTypeOK
  <1>11. JobsKnown'
    <2>1. \A l \in Jobs : what[l] \in Servers
      BY <1>1 DEF McpTypeOK
    <2> QED
      BY <1>1, <1>4, <1>7, <1>9, <2>1 DEF JobsKnown, Acquires
  <1>12. LoadsKnown'
    <2>1. \A l \in Jobs : l.does = "load" /\ stage[l] \in {"waits", "starts"} => l.core # c
      BY <1>1, <1>4 DEF LoadsKnown
    <2> QED
      BY <1>1, <1>7, <2>1, McpAssumption DEF LoadsKnown
  <1>13. ClosesKnown'
    <2> SUFFICES ASSUME NEW l \in Jobs, l.does = "close", stage'[l] \in {"waits", "stops"}
                 PROVE  /\ core'[l.core] = "closing" /\ step'[l] \in DOMAIN keys'[l.core]
                        /\ stage'[l] = "waits" => what'[l] = keys'[l.core][step'[l]]
                        /\ \A m \in Jobs : m.does = "close" /\ stage'[m] \in {"waits", "stops"}
                                           /\ m.core = l.core => m = l
      BY DEF ClosesKnown
    <2>1. l # j /\ stage[l] \in {"waits", "stops"} /\ stage'[l] = stage[l]
      BY <1>7
    <2>2. l.core # c /\ l.core \in Cores
      BY <1>4, <2>1, McpAssumption
    <2>3. keys'[l.core] = keys[l.core] /\ core'[l.core] = core[l.core]
      BY <1>6, <1>7, <2>2
    <2>4. \A m \in Jobs : stage'[m] \in {"waits", "stops"} => stage[m] = stage'[m]
      BY <1>7
    <2> QED
      BY <1>1, <2>1, <2>3, <2>4 DEF ClosesKnown
  <1>14. HasListed'
    <2>1. \A l \in jobs : stage[l] # "new" => stage'[l] # "new"
      BY <1>1, <1>7 DEF McpTypeOK
    <2> QED
      BY <1>1, <1>6, <1>7, <1>8, <2>1 DEF HasListed
  <1>15. ClosedEmpty'
    BY <1>1, <1>2, <1>6, <1>7, <1>8 DEF ClosedEmpty
  <1>16. Counted'
    <2>1. \A l \in jobs : l # j => stage'[l] = stage[l] /\ step'[l] = step[l]
      BY <1>1, <1>7 DEF McpTypeOK
    <2>2. \A t : j \notin TakenOff(t) /\ j \notin TakenOff(t)'
      BY DEF TakenOff
    <2>3. \A t : TakenOff(t)' = TakenOff(t)
      BY <2>1, <2>2, TakenOffStays
    <2>4. \A d \in Cores : d # c => \A i : Passed(d, i)' <=> Passed(d, i)
      BY <1>2, <2>1 DEF Passed
    <2>5. \A i : ~Passed(c, i)'
      <3>1. \A l \in jobs : l.does = "close" /\ l.core = c => stage'[l] \notin {"waits", "stops"}
        BY <1>1, <1>4, <1>7 DEF McpTypeOK
      <3> QED
        BY <3>1 DEF Passed
    <2>6. CASE stage[j] = "waits" /\ Release(s) /\ k = step[j] /\ k = Len(keys[c])
      <3>1. \A i \in DOMAIN keys[c] : ~Passed(c, i) <=> i = k
        BY <1>4, <1>5, <2>6
      <3>2. DOMAIN keys'[c] = {} /\ k \in DOMAIN keys[c] /\ keys[c][k] = s
        <4>1. 1 .. Len(keys[c]) - k = {}
          BY <1>5, <2>6
        <4> QED
          BY <1>4, <1>6, <2>6, <4>1
      <3>3. ASSUME NEW t, NEW d \in Cores, NEW i
            PROVE  <<d, i>> \in Listed(t)' <=> <<d, i>> \in Listed(t) /\ <<d, i>> # <<c, k>>
        <4>1. /\ <<d, i>> \in Listed(t)' <=> i \in DOMAIN keys'[d] /\ keys'[d][i] = t /\ ~Passed(d, i)'
              /\ <<d, i>> \in Listed(t) <=> i \in DOMAIN keys[d] /\ keys[d][i] = t /\ ~Passed(d, i)
          BY ListedIs
        <4>2. CASE d # c
          BY <1>6, <2>4, <4>1, <4>2
        <4>3. CASE d = c
          BY <3>1, <3>2, <4>1, <4>3
        <4> QED
          BY <4>2, <4>3
      <3>4. ASSUME NEW t PROVE Listed(t)' = Listed(t) \ {<<c, k>>}
        <4>1. \A r \in Listed(t) \cup Listed(t)' : \E d \in Cores : \E i : r = <<d, i>>
          BY ListedIs
        <4>2. ASSUME NEW r \in Listed(t) \cup Listed(t)'
              PROVE  r \in Listed(t)' <=> r \in Listed(t) /\ r # <<c, k>>
          <5>1. PICK d \in Cores : \E i : r = <<d, i>>
            BY <4>1
          <5>2. PICK i : r = <<d, i>>
            BY <5>1
          <5> QED
            BY <3>3, <5>2
        <4> QED
          BY <4>2
      <3>5. \A t : <<c, k>> \in Listed(t) <=> t = s
        BY <3>1, <3>2, ListedIs
      <3>6. \A t \in Servers \ {s} : Listed(t)' = Listed(t)
        BY <3>4, <3>5
      <3>7. \E r \in Listed(s) : Listed(s)' = Listed(s) \ {r}
        <4>1. <<c, k>> \in Listed(s) /\ Listed(s)' = Listed(s) \ {<<c, k>>}
          BY <3>4, <3>5
        <4> QED
          BY <4>1
      <3> QED
        BY <2>3, <2>6, <3>6, <3>7, OneLess
    <2>7. CASE /\ refs' = refs
               /\ \/ stage[j] = "waits" /\ k + 1 = step[j]
                  \/ stage[j] = "stops" /\ k = step[j]
      <3>1. \A i \in DOMAIN keys[c] : Passed(c, i) <=> i <= k
        <4>1. step[j] \in Nat /\ k \in Nat /\ \A i \in DOMAIN keys[c] : i \in Nat
          BY <1>2, <1>4, <1>5
        <4> QED
          BY <1>4, <2>7, <4>1
      <3>2. k \in 0 .. Len(keys[c])
             /\ keys' = [keys EXCEPT ![c] = SubSeq(keys[c], k + 1, Len(keys[c]))]
        BY <1>2
      <3>3. ASSUME NEW t \in Servers
            PROVE  /\ IsFiniteSet(Listed(t)') /\ IsFiniteSet(TakenOff(t)')
                   /\ refs'[t] = Cardinality(Listed(t)') + Cardinality(TakenOff(t)')
        <4>1. /\ IsFiniteSet(Listed(t)')
              /\ Cardinality(Listed(t)') = Cardinality({r \in Listed(t) : ~(r[1] = c /\ r[2] <= k)})
          <5>1. \A i \in DOMAIN keys[c] : Passed(c, i) => i <= k
            BY <3>1
          <5> QED
            BY ONLY McpInv, <2>4, <2>5, <3>2, <5>1, ListedCut
        <4>2. \A r \in Listed(t) : ~(r[1] = c /\ r[2] <= k)
          <5> SUFFICES ASSUME NEW r \in Listed(t), r[1] = c, r[2] <= k PROVE FALSE
            OBVIOUS
          <5>1. PICK d \in Cores : \E i \in DOMAIN keys[d] : r = <<d, i>> /\ ~Passed(d, i)
            BY ListedIs
          <5>2. PICK i \in DOMAIN keys[d] : r = <<d, i>> /\ ~Passed(d, i)
            BY <5>1
          <5> QED
            BY <3>1, <5>2
        <4>3. {r \in Listed(t) : ~(r[1] = c /\ r[2] <= k)} = Listed(t)
          BY <4>2
        <4> QED
          BY <2>3, <2>7, <4>1, <4>3, McpParts DEF Counted
      <3> QED
        BY <3>3 DEF Counted
    <2> QED
      BY <1>2, <1>3, <2>6, <2>7
  <1> QED
    BY <1>10, <1>11, <1>12, <1>13, <1>14, <1>15, <1>16 DEF McpInv

LEMMA CloseGoesOn ==
  ASSUME McpInv, NEW j \in jobs, j.does = "close",
         Releases(j) \/ Stopped(j) \/ StopRaises(j) \/ Cancelled(j)
  PROVE  McpInv'
  <1>1. McpTypeOK /\ JobsKnown
    BY McpParts
  <1>2. j \in Jobs /\ j.core \in Cores /\ j.does \notin {"detach", "reload", "load"} /\ ~Acquires(j)
    BY <1>1, McpAssumption DEF McpTypeOK, Acquires
  <1>3. stage[j] # "starts"
    BY <1>1, <1>2 DEF JobsKnown
  <1>4. stage[j] \in {"waits", "stops"}
    BY <1>3 DEF Releases, Stopped, StopRaises, Cancelled
  <1>5. /\ step[j] \in DOMAIN keys[j.core] /\ keys[j.core] \in Seq(Servers)
    BY <1>4, ClosePassed
  <1>6. /\ step[j] \in Nat \ {0} /\ step[j] <= Len(keys[j.core]) /\ Len(keys[j.core]) \in Nat
        /\ ~(step[j] < Len(keys[j.core])) => step[j] = Len(keys[j.core])
    BY <1>5
  <1>7. keys \in [Cores -> Seq(Servers)]
    BY <1>1 DEF McpTypeOK
  <1>8. ASSUME Releases(j) \/ Stopped(j)
        PROVE  /\ UNCHANGED <<jobs, lock>>
               /\ \/ stage[j] = "waits" /\ Release(what[j])
                  \/ stage[j] = "stops" /\ refs' = refs
               /\ \/ /\ stage' = [stage EXCEPT ![j] = "stops"]
                     /\ UNCHANGED <<what, step, core, connected, has, keyOf, keys, lost>>
                  \/ Continues(j)
    BY <1>8 DEF Releases, Stopped, Goes, manager
  <1>9. Continues(j) =>
           \/ /\ step[j] < Len(keys[j.core])
              /\ step' = [step EXCEPT ![j] = step[j] + 1]
              /\ what' = [what EXCEPT ![j] = keys[j.core][step[j] + 1]]
              /\ stage' = [stage EXCEPT ![j] = "waits"]
              /\ UNCHANGED <<core, connected, has, keyOf, keys, lost>>
           \/ /\ ~(step[j] < Len(keys[j.core]))
              /\ keys' = [keys EXCEPT ![j.core] = <<>>] /\ keyOf' = [keyOf EXCEPT ![j.core] = {}]
              /\ has' = [has EXCEPT ![j.core] = {}] /\ connected' = connected \ {j.core}
              /\ core' = [core EXCEPT ![j.core] = "closed"]
              /\ stage' = [stage EXCEPT ![j] = "over"]
              /\ UNCHANGED <<what, step, lost>>
    BY <1>2 DEF Continues, Goes, manager, Empties
  <1>10. ASSUME NEW q \in Seq(Servers) PROVE SubSeq(q, Len(q) + 1, Len(q)) = <<>>
    <2> DEFINE p == SubSeq(q, Len(q) + 1, Len(q))
    <2>1. Len(q) \in 0 .. Len(q)
      OBVIOUS
    <2>2. p \in Seq(Servers) /\ DOMAIN p = 1 .. Len(q) - Len(q)
      BY <2>1, SeqCut
    <2> HIDE DEF p
    <2>3. 1 .. Len(q) - Len(q) = {}
      OBVIOUS
    <2>4. p = <<>>
      BY <2>2, <2>3
    <2> QED
      BY <2>4 DEF p
  <1>11. CASE Releases(j) \/ Stopped(j)
    <2>1. CASE /\ stage' = [stage EXCEPT ![j] = "stops"]
               /\ UNCHANGED <<what, step, core, connected, has, keyOf, keys, lost>>
      BY <1>4, <1>8, <1>11, <2>1, CloseNext
    <2>2. CASE /\ step[j] < Len(keys[j.core])
               /\ step' = [step EXCEPT ![j] = step[j] + 1]
               /\ what' = [what EXCEPT ![j] = keys[j.core][step[j] + 1]]
               /\ stage' = [stage EXCEPT ![j] = "waits"]
               /\ UNCHANGED <<core, connected, has, keyOf, keys, lost>>
      BY <1>4, <1>8, <1>11, <2>2, CloseNext
    <2>3. CASE /\ ~(step[j] < Len(keys[j.core]))
               /\ keys' = [keys EXCEPT ![j.core] = <<>>] /\ keyOf' = [keyOf EXCEPT ![j.core] = {}]
               /\ has' = [has EXCEPT ![j.core] = {}] /\ connected' = connected \ {j.core}
               /\ core' = [core EXCEPT ![j.core] = "closed"]
               /\ stage' = [stage EXCEPT ![j] = "over"]
               /\ UNCHANGED <<what, step, lost>>
      <3>1. PICK k \in 0 .. Len(keys[j.core]) : k = Len(keys[j.core])
        BY <1>6
      <3>2. SubSeq(keys[j.core], k + 1, Len(keys[j.core])) = <<>>
        BY <1>5, <1>10, <3>1
      <3>3. keys' = [keys EXCEPT ![j.core] = SubSeq(keys[j.core], k + 1, Len(keys[j.core]))]
        BY <2>3, <3>2
      <3>4. keys'[j.core] = <<>>
        BY <1>2, <1>7, <2>3
      <3>5. k = step[j]
        BY <1>6, <2>3, <3>1
      <3>6. UNCHANGED <<jobs, lock>>
            /\ \/ stage[j] = "waits" /\ Release(what[j])
               \/ stage[j] = "stops" /\ refs' = refs
        BY <1>8, <1>11
      <3> QED
        BY <1>4, <2>3, <3>1, <3>3, <3>4, <3>5, <3>6, CloseEnds
    <2> QED
      BY <1>8, <1>9, <1>11, <2>1, <2>2, <2>3
  <1>12. CASE StopRaises(j)
    <2>1. PICK k \in 0 .. Len(keys[j.core]) : k = step[j]
      BY <1>6
    <2>2. /\ stage[j] = "stops" /\ UNCHANGED <<jobs, what, step, lock, refs, connected, has, keyOf>>
          /\ stage' = [stage EXCEPT ![j] = "over"] /\ core' = [core EXCEPT ![j.core] = "closed"]
          /\ keys' = [keys EXCEPT ![j.core] = SubSeq(keys[j.core], k + 1, Len(keys[j.core]))]
          /\ lost' = lost \cup {j.core}
      BY <1>2, <1>12, <2>1 DEF StopRaises, Goes
    <2> QED
      BY <2>1, <2>2, CloseEnds
  <1>13. CASE Cancelled(j)
    <2>1. PICK k \in 0 .. Len(keys[j.core]) : k = IF stage[j] = "stops" THEN step[j] ELSE step[j] - 1
      BY <1>6
    <2>2. k + 1 = IF stage[j] = "stops" THEN step[j] + 1 ELSE step[j]
      BY <1>6, <2>1
    <2>3. /\ UNCHANGED <<jobs, what, step, refs, connected, has, keyOf>>
          /\ lock' = lock \/ (lock = j /\ lock' = Idle)
          /\ stage' = [stage EXCEPT ![j] = "over"] /\ core' = [core EXCEPT ![j.core] = "closed"]
          /\ lost' = lost \cup {j.core}
      BY <1>13 DEF Cancelled, Goes
    <2>4. keys' = [keys EXCEPT ![j.core] = SubSeq(keys[j.core], k + 1, Len(keys[j.core]))]
      BY <1>2, <1>13, <2>2 DEF Cancelled
    <2> QED
      BY <1>4, <2>1, <2>2, <2>3, <2>4, CloseEnds
  <1> QED
    BY <1>11, <1>12, <1>13

LEMMA LoadCancelled ==
  ASSUME McpInv, NEW j \in jobs, j.does = "load", Cancelled(j)
  PROVE  McpInv'
  <1>1. McpTypeOK /\ JobsKnown /\ LoadsKnown /\ ClosesKnown /\ HasListed /\ ClosedEmpty
    BY McpParts
  <1>2. PICK c \in Cores : c = j.core
    BY <1>1, McpAssumption DEF McpTypeOK
  <1>3. j \in Jobs /\ Acquires(j)
    BY <1>1 DEF McpTypeOK, Acquires
  <1>4. stage[j] \in {"waits", "starts"}
    BY <1>1, <1>3 DEF JobsKnown, Cancelled
  <1>5. /\ core[c] = "loading"
        /\ \A k \in Jobs : k.does = "load" /\ stage[k] \in {"waits", "starts"} /\ k.core = c => k = j
    BY <1>1, <1>2, <1>3, <1>4 DEF LoadsKnown
  <1>6. /\ stage' = [stage EXCEPT ![j] = "over"] /\ core' = [core EXCEPT ![c] = "closed"]
        /\ lock' = (IF lock = j THEN Idle ELSE lock) /\ lost' = lost \cup {c}
        /\ UNCHANGED <<jobs, what, step, refs, starter, connected, has, keyOf, keys>>
    <2>1. keys' = [keys EXCEPT ![c] = keys[c]]
      BY <1>2 DEF Cancelled
    <2>2. keys' = keys
      BY <1>1, <2>1 DEF McpTypeOK
    <2> QED
      BY <1>2, <2>2 DEF Cancelled, Goes
  <1>7. /\ stage' \in [Jobs -> {"new", "waits", "starts", "stops", "over"}]
        /\ stage'[j] = "over" /\ \A k \in Jobs : k # j => stage'[k] = stage[k]
        /\ core' \in [Cores -> {"absent", "loading", "live", "closing", "closed"}]
        /\ core'[c] = "closed" /\ \A d \in Cores : d # c => core'[d] = core[d]
    BY <1>1, <1>3, <1>6 DEF McpTypeOK
  <1>8. McpTypeOK'
    BY <1>1, <1>6, <1>7 DEF McpTypeOK
  <1>9. JobsKnown'
    BY <1>1, <1>3, <1>6, <1>7 DEF JobsKnown, Acquires
  <1>10. LoadsKnown'
    BY <1>1, <1>5, <1>7, McpAssumption DEF LoadsKnown
  <1>11. ClosesKnown'
    <2>1. \A k \in Jobs : k.does = "close" => stage'[k] = stage[k]
      BY <1>7
    <2>2. \A d \in Cores : core[d] = "closing" => core'[d] = "closing"
      BY <1>5, <1>7
    <2> QED
      BY <1>1, <1>6, <2>1, <2>2, McpAssumption DEF ClosesKnown
  <1>12. HasListed'
    <2>1. \A k \in jobs : stage[k] # "new" => stage'[k] # "new"
      BY <1>1, <1>7 DEF McpTypeOK
    <2> QED
      BY <1>1, <1>6, <1>7, <2>1 DEF HasListed
  <1>13. ClosedEmpty'
    BY <1>1, <1>6, <1>7 DEF ClosedEmpty
  <1>14. Counted'
    <2>1. \A k \in jobs : k # j => stage'[k] = stage[k] /\ step'[k] = step[k]
      BY <1>1, <1>6, <1>7 DEF McpTypeOK
    <2>2. \A d, i : Passed(d, i)' <=> Passed(d, i)
      <3>1. \A k \in jobs : k.does = "close" => stage'[k] = stage[k] /\ step'[k] = step[k]
        BY <2>1
      <3> QED
        BY <1>6, <3>1, PassedStays
    <2>3. \A t : Listed(t)' = Listed(t)
      BY <1>6, <2>2, ListedStays
    <2>4. \A t : j \notin TakenOff(t) /\ j \notin TakenOff(t)'
      BY DEF TakenOff
    <2>5. \A t : TakenOff(t)' = TakenOff(t)
      BY <1>6, <2>1, <2>4, TakenOffStays
    <2> QED
      BY <1>6, <2>3, <2>5, CountedStays
  <1> QED
    BY <1>8, <1>9, <1>10, <1>11, <1>12, <1>13, <1>14 DEF McpInv

LEMMA McpStep == McpInv /\ [NextMcp]_mcp => McpInv'
  <1> SUFFICES ASSUME McpInv, [NextMcp]_mcp PROVE McpInv'
    OBVIOUS
  <1>1. CASE UNCHANGED mcp
    <2> USE <1>1 DEF mcp
    <2>1. McpTypeOK' /\ JobsKnown'
      BY McpParts DEF McpTypeOK, JobsKnown, Acquires
    <2>2. LoadsKnown' /\ ClosesKnown'
      BY McpParts DEF LoadsKnown, ClosesKnown
    <2>3. HasListed' /\ ClosedEmpty'
      BY McpParts DEF HasListed, ClosedEmpty
    <2>4. \A t : Listed(t)' = Listed(t) /\ TakenOff(t)' = TakenOff(t)
      <3>1. \A d, i : Passed(d, i)' <=> Passed(d, i)
        BY DEF Passed
      <3>2. \A t : Listed(t)' = Listed(t)
        BY <3>1, ListedStays
      <3>3. \A t : TakenOff(t)' = TakenOff(t)
        BY DEF TakenOff, Acquires
      <3> QED
        BY <3>2, <3>3
    <2>5. Counted'
      BY <2>4, CountedStays
    <2> QED
      BY <2>1, <2>2, <2>3, <2>5 DEF McpInv
  <1>2. ASSUME NEW j \in jobs,
               \/ stage[j] = "new" /\ (BeginLoad(j) \/ BeginAttach(j) \/ BeginDetach(j) \/ BeginClose(j))
               \/ Joins(j) \/ Starts(j) \/ Started(j) \/ StartFails(j)
               \/ Releases(j) \/ Stopped(j) \/ StopRaises(j) \/ Cancelled(j)
        PROVE  McpInv'
    <2>1. CASE stage[j] = "new" /\ (BeginLoad(j) \/ BeginAttach(j))
      BY <2>1, BeginLoadKeeps
    <2>2. CASE stage[j] = "new" /\ BeginDetach(j)
      BY <2>2, DetachKeeps
    <2>3. CASE stage[j] = "new" /\ BeginClose(j)
      BY <2>3, CloseBegins
    <2>4. CASE Joins(j) \/ Started(j) \/ StartFails(j)
      BY <2>4, AcquireKeeps
    <2>5. CASE Starts(j)
      BY <2>5, StartsKeeps
    <2>6. CASE Releases(j) \/ Stopped(j) \/ StopRaises(j)
      <3>1. j.does \in {"detach", "reload", "close"}
        <4>1. McpTypeOK /\ JobsKnown /\ j \in Jobs
          BY McpParts DEF McpTypeOK
        <4>2. ~Acquires(j)
          BY <2>6, <4>1 DEF Releases, Stopped, StopRaises, JobsKnown
        <4> QED
          BY <4>1, <4>2, McpAssumption DEF Acquires
      <3> QED
        BY <2>6, <3>1, DetachGoesOn, CloseGoesOn
    <2>7. CASE Cancelled(j)
      <3>1. j.does \in {"load", "close"}
        BY <2>7 DEF Cancelled
      <3> QED
        BY <2>7, <3>1, LoadCancelled, CloseGoesOn
    <2> QED
      BY <1>2, <2>1, <2>2, <2>3, <2>4, <2>5, <2>6, <2>7
  <1> QED
    BY <1>1, <1>2 DEF NextMcp

\* A server that a core in the pool lists is counted.
LEMMA McpCounts == McpInv => McpTypeOK /\ CountedRight
  <1> SUFFICES ASSUME McpInv PROVE CountedRight
    BY McpParts
  <1>1. McpTypeOK /\ ClosesKnown /\ HasListed /\ ClosedEmpty /\ Counted
    BY McpParts
  <1>2. ASSUME NEW c \in Cores, core[c] = "live", NEW s \in Servers, s \in ToSet(keys[c])
        PROVE  refs[s] > 0
    <2>1. PICK i \in DOMAIN keys[c] : keys[c][i] = s
      BY <1>2 DEF ToSet
    <2>2. ~Passed(c, i)
      BY <1>1, <1>2, NotPassed
    <2>3. <<c, i>> \in Listed(s)
      BY <2>1, <2>2, ListedIs
    <2>4. Cardinality(Listed(s)) # 0
      BY <1>1, <2>3, FS_EmptySet DEF Counted
    <2>5. Cardinality(Listed(s)) \in Nat /\ Cardinality(TakenOff(s)) \in Nat
      BY <1>1, FS_CardinalityType DEF Counted
    <2> QED
      BY <1>1, <2>4, <2>5 DEF Counted
  <1>3. ASSUME NEW c \in Cores, core[c] = "live", NEW s \in has[c]
        PROVE  \/ refs[s] > 0
               \/ \E j \in jobs : j.does \in {"detach", "reload"} /\ j.core = c /\ j.server = s
                                  /\ stage[j] # "new"
    <2>1. s \in Servers
      BY <1>1 DEF McpTypeOK
    <2>2. CASE s \in ToSet(keys[c])
      BY <1>2, <1>3, <2>1, <2>2
    <2>3. CASE s \notin ToSet(keys[c])
      BY <1>1, <1>3, <2>3 DEF HasListed
    <2> QED
      BY <2>2, <2>3
  <1>4. \A s \in Servers : refs[s] = Cardinality(Listed(s)) + Cardinality(TakenOff(s))
    BY <1>1 DEF Counted
  <1>5. \A c \in Cores \ lost : core[c] = "closed" => keys[c] = <<>>
    BY <1>1 DEF ClosedEmpty
  <1> QED
    BY <1>3, <1>4, <1>5 DEF CountedRight

\* The count of a server's process is the number of references to it, in the lists of
\* cores and taken off by a detach, whoever else starts, stops, closes or is cut short:
\* no core's process is stopped under it, and a core that is closed in order keeps none.
THEOREM ServersCounted == McpSpec => [](McpTypeOK /\ CountedRight)
  <1>1. McpInv /\ [NextMcp]_mcp => McpInv'
    BY McpStep
  <1>2. InitMcp => McpInv
    BY McpStart
  <1>3. McpSpec => []McpInv
    BY <1>1, <1>2, PTL DEF McpSpec
  <1> QED
    BY <1>3, McpCounts, PTL
=============================================================================
