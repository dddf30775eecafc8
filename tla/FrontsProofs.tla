----------------------------- MODULE FrontsProofs -----------------------------
(* Proofs about the front ends: the choice of the forum's keys (KeyPool), the forum's    *)
(* connector (Forum) and what the gateway holds of a result (Gateway).               *)
EXTENDS Gateway, Forum, KeyPool, WellFoundedInduction, TLAPS

-----------------------------------------------------------------------------
(* KeyPool *)

\* How far key k is ahead of the one used last; that one itself is the farthest.
AheadOf(k, last) == IF k > last THEN k - last ELSE k + LastKey + 1 - last

\* Of the keys, n is the first after last that is not in shut.
FirstAfter(n, last, shut) ==
    n \in Keys \ shut /\ \A j \in Keys \ shut : AheadOf(n, last) <= AheadOf(j, last)

\* On the way to last, what comes after one of the used keys is used or was shut.
Passed(used, shut, last) == \A k \in used, j \in Keys :
    AheadOf(j, last) >= AheadOf(k, last) => j \in used \cup shut

\* What an undisturbed request has passed by it has used, or it was blocked then.
PassedBy == \A a \in Asks \ disturbed :
    /\ asking[a] = "new" => tried[a] = {}
    /\ asking[a] \in {"choosing", "using"} => Passed(tried[a], barred[a], current)

KeyPoolInv == KeyPoolTypeOK /\ PassedBy /\ KeysTried

\* A number that is smallest, and the free key it belongs to.
LEMMA Smallest ==
  ASSUME NEW T, T \subseteq Nat, T # {}
  PROVE  \E x \in T : \A y \in T : x <= y
  <1>1. PICK x \in T : \A y \in T : ~ (<<y, x>> \in OpToRel(<, Nat))
    BY WFMin, NatLessThanWellFounded
  <1>2. \A y \in T : y \in Nat /\ x \in Nat /\ ~(y < x)
    BY <1>1 DEF OpToRel
  <1> QED
    BY <1>2

LEMMA RestAdded ==
  ASSUME NEW n \in Nat \ {0}, NEW a \in 0 .. n + n - 1
  PROVE  a % n = IF a < n THEN a ELSE a - n
  <1>1. CASE a < n
    <2>1. a \in 0 .. n - 1
      BY <1>1
    <2> QED
      BY <1>1, <2>1
  <1>2. CASE ~(a < n)
    <2>1. a \in n .. n + n - 1
      BY <1>2
    <2> QED
      BY <1>2, <2>1
  <1> QED
    BY <1>1, <1>2

LEMMA NextFreeIsNext ==
  ASSUME current \in Keys, blocked \subseteq Keys, blocked # Keys
  PROVE  FirstAfter(NextFree, current, blocked)
  <1> USE KeyPoolAssumption DEF Keys
  <1> DEFINE distance(k) == (k + LastKey - current) % (LastKey + 1)
             T == {distance(k) : k \in Keys \ blocked}
  <1>1. ASSUME NEW k \in Keys PROVE distance(k) \in Nat /\ AheadOf(k, current) = distance(k) + 1
    <2> DEFINE n == LastKey + 1
               b == k + LastKey - current
    <2>1. b \in 0 .. n + n - 1 /\ n \in Nat \ {0}
      BY <1>1
    <2> HIDE DEF n, b
    <2>2. b % n = IF b < n THEN b ELSE b - n
      BY <2>1, RestAdded
    <2>3. distance(k) = b % n
      BY DEF n, b
    <2> HIDE DEF distance
    <2> QED
      BY <2>2, <2>3 DEF AheadOf, n, b
  <1> HIDE DEF distance
  <1>2. T \subseteq Nat /\ T # {}
    BY <1>1
  <1>3. PICK x \in T : \A y \in T : x <= y
    BY <1>2, Smallest
  <1>4. \E k \in Keys \ blocked : \A j \in Keys \ blocked : distance(k) <= distance(j)
    BY <1>3
  <1>5. NextFree = CHOOSE k \in Keys \ blocked : \A j \in Keys \ blocked : distance(k) <= distance(j)
    BY DEF NextFree, distance
  <1>6. /\ NextFree \in Keys \ blocked
        /\ \A j \in Keys \ blocked : distance(NextFree) <= distance(j)
    BY <1>4, <1>5
  <1> QED
    BY <1>1, <1>6 DEF FirstAfter

\* A choice of the next free key keeps what was passed by, seen from that key; and one
\* that was used already closes the circle.
LEMMA ChoicePasses ==
  ASSUME NEW last \in Keys, NEW n, NEW used \in SUBSET Keys, NEW shut, NEW more,
         FirstAfter(n, last, more), Passed(used, shut, last)
  PROVE  /\ Passed(used \cup {n}, shut \cup more, n)
         /\ n \in used => Keys \subseteq used \cup shut \cup more
  <1> USE KeyPoolAssumption DEF Keys
  <1>1. n \in Keys /\ \A k \in Keys : AheadOf(k, last) \in Nat /\ AheadOf(k, n) \in Nat
    BY DEF FirstAfter, AheadOf
  <1>2. ASSUME n \in used, NEW j \in Keys PROVE j \in used \cup shut \cup more
    BY <1>1, <1>2 DEF FirstAfter, Passed
  <1>3. ASSUME NEW k \in used \cup {n}, NEW j \in Keys, AheadOf(j, n) >= AheadOf(k, n),
               j \notin more, j # n
        PROVE  j \in used \cup shut
    <2>1. k # n
      BY <1>1, <1>3 DEF AheadOf
    <2>2. AheadOf(n, last) < AheadOf(j, last)
      <3>1. AheadOf(n, last) <= AheadOf(j, last)
        BY <1>3 DEF FirstAfter
      <3>2. AheadOf(n, last) # AheadOf(j, last)
        BY <1>1, <1>3 DEF AheadOf
      <3> QED
        BY <1>1, <3>1, <3>2
    <2>3. AheadOf(j, last) >= AheadOf(k, last)
      BY <1>1, <1>3, <2>1, <2>2 DEF AheadOf
    <2> QED
      BY <1>3, <2>1, <2>3 DEF Passed
  <1>4. Passed(used \cup {n}, shut \cup more, n)
    BY <1>3 DEF Passed
  <1> QED
    BY <1>2, <1>4

LEMMA KeysStart == InitKeys => KeyPoolInv
  BY KeyPoolAssumption DEF InitKeys, KeyPoolInv, KeyPoolTypeOK, PassedBy, KeysTried, Keys

\* A choice: those that wait to choose again, or use their key, are disturbed by it.
LEMMA ChooseKeeps ==
  ASSUME KeyPoolInv, NEW a \in Asks, Choose(a)
  PROVE  KeyPoolInv'
  <1> USE DEF KeyPoolInv
  <1>1. /\ asking[a] = "choosing" /\ blocked # Keys /\ current' = NextFree
        /\ key' = [key EXCEPT ![a] = NextFree]
        /\ asking' = [asking EXCEPT ![a] = IF NextFree \in tried[a] THEN "refused" ELSE "using"]
        /\ tried' = [tried EXCEPT ![a] = tried[a] \cup {NextFree}]
        /\ barred' = [barred EXCEPT ![a] = barred[a] \cup blocked]
        /\ disturbed' = disturbed \cup (Active \ {a})
        /\ UNCHANGED <<readers, spent, limits, blocked>>
    BY DEF Choose, AskGoes, forumSide
  <1>2. /\ current \in Keys /\ blocked \subseteq Keys
        /\ tried \in [Asks -> SUBSET Keys] /\ barred \in [Asks -> SUBSET Keys]
        /\ asking \in [Asks -> {"new", "choosing", "using", "done", "refused", "failed"}]
        /\ key \in [Asks -> Keys] /\ disturbed \subseteq Asks
    BY DEF KeyPoolTypeOK
  <1>3. FirstAfter(NextFree, current, blocked) /\ NextFree \in Keys
    BY <1>1, <1>2, NextFreeIsNext DEF FirstAfter
  <1>4. KeyPoolTypeOK'
    <2>1. tried' \in [Asks -> SUBSET Keys]
      BY <1>1, <1>2, <1>3
    <2>2. barred' \in [Asks -> SUBSET Keys]
      BY <1>1, <1>2
    <2>3. asking' \in [Asks -> {"new", "choosing", "using", "done", "refused", "failed"}]
      BY <1>1, <1>2
    <2>4. key' \in [Asks -> Keys] /\ current' \in Keys
      BY <1>1, <1>2, <1>3
    <2>5. disturbed' \subseteq Asks
      BY <1>1, <1>2 DEF Active
    <2> QED
      BY <1>1, <1>2, <2>1, <2>2, <2>3, <2>4, <2>5 DEF KeyPoolTypeOK
  <1>5. ASSUME NEW b \in Asks \ disturbed', b # a
        PROVE  asking'[b] = asking[b] /\ asking[b] \notin {"choosing", "using"}
               /\ tried'[b] = tried[b] /\ barred'[b] = barred[b] /\ b \notin disturbed
    BY <1>1, <1>2, <1>5 DEF Active
  <1>6. ASSUME a \notin disturbed'
        PROVE  /\ Passed(tried[a] \cup {NextFree}, barred[a] \cup blocked, NextFree)
               /\ NextFree \in tried[a] => Keys \subseteq tried[a] \cup barred[a] \cup blocked
    <2>1. Passed(tried[a], barred[a], current) /\ tried[a] \in SUBSET Keys
      BY <1>1, <1>2, <1>6 DEF PassedBy
    <2> QED
      BY <1>2, <1>3, <2>1, ChoicePasses
  <1>7. /\ tried'[a] = tried[a] \cup {NextFree} /\ barred'[a] = barred[a] \cup blocked
        /\ asking'[a] = IF NextFree \in tried[a] THEN "refused" ELSE "using"
    BY <1>1, <1>2
  <1>8. PassedBy'
    <2>1. ASSUME NEW b \in Asks \ disturbed'
          PROVE  /\ asking'[b] = "new" => tried'[b] = {}
                 /\ asking'[b] \in {"choosing", "using"} => Passed(tried'[b], barred'[b], current')
      <3>1. CASE b = a
        <4>1. Passed(tried'[a], barred'[a], current')
          BY <1>1, <1>6, <1>7, <2>1, <3>1 DEF Passed
        <4>2. asking'[a] # "new"
          BY <1>7
        <4> QED
          BY <3>1, <4>1, <4>2
      <3>2. CASE b # a
        BY <1>5, <2>1, <3>2 DEF PassedBy
      <3> QED
        BY <3>1, <3>2
    <2> QED
      BY <2>1 DEF PassedBy
  <1>9. KeysTried'
    <2>1. ASSUME NEW b \in Asks \ disturbed', asking'[b] = "refused"
          PROVE  Keys \subseteq tried'[b] \cup barred'[b]
      <3>1. CASE b = a
        BY <1>6, <1>7, <2>1, <3>1
      <3>2. CASE b # a
        BY <1>5, <2>1, <3>2 DEF KeysTried
      <3> QED
        BY <3>1, <3>2
    <2> QED
      BY <2>1 DEF KeysTried
  <1> QED
    BY <1>4, <1>8, <1>9

\* No other step chooses a key or changes what was tried.
LEMMA NoChoiceKeeps ==
  ASSUME KeyPoolInv, KeyPoolTypeOK', UNCHANGED <<current, tried, barred, disturbed>>,
         \A a \in Asks : \/ asking'[a] = asking[a] \/ asking'[a] \in {"done", "failed"}
                         \/ asking[a] \in {"new", "choosing", "using"} /\ asking'[a] = "choosing"
                         \/ asking'[a] = "refused" /\ tried[a] = Keys
  PROVE  KeyPoolInv'
  <1>1. PassedBy'
    BY DEF KeyPoolInv, PassedBy, Passed
  <1>2. KeysTried'
    BY DEF KeyPoolInv, KeysTried
  <1> QED
    BY <1>1, <1>2 DEF KeyPoolInv

LEMMA KeysStep ==
  ASSUME KeyPoolInv, [NextKeys]_keyring
  PROVE  KeyPoolInv'
  <1> USE DEF forumSide, askSide
  <1>1. /\ current \in Keys /\ blocked \subseteq Keys /\ spent \subseteq Keys
        /\ asking \in [Asks -> {"new", "choosing", "using", "done", "refused", "failed"}]
        /\ key \in [Asks -> Keys] /\ limits \in 0 .. MaxLimits
    BY DEF KeyPoolInv, KeyPoolTypeOK
  <1>2. ASSUME NEW k \in Keys, ReachLimit(k) \/ NewDay(k) \/ BlockEnds(k) PROVE KeyPoolInv'
    <2>1. UNCHANGED <<readers, asking, key, current, tried, barred, disturbed>>
      BY <1>2 DEF ReachLimit, NewDay, BlockEnds
    <2>2. spent' \subseteq Keys /\ blocked' \subseteq Keys /\ limits' \in 0 .. MaxLimits
      BY <1>1, <1>2, KeyPoolAssumption DEF ReachLimit, NewDay, BlockEnds
    <2>3. KeyPoolTypeOK'
      BY <2>1, <2>2 DEF KeyPoolInv, KeyPoolTypeOK
    <2> QED
      BY <2>1, <2>3, NoChoiceKeeps
  <1>3. ASSUME NEW a \in Asks, Begins(a) \/ Exhaust(a) \/ Probe(a) \/ ReadAnswered(a) \/ CallAnswered(a)
        PROVE  KeyPoolInv'
    <2>1. UNCHANGED <<readers, spent, limits, key, current, tried, barred, disturbed>>
      BY <1>3 DEF Begins, Exhaust, Probe, ReadAnswered, CallAnswered
    <2>2. blocked' \subseteq Keys
      BY <1>1, <1>3 DEF Begins, Exhaust, Probe, ReadAnswered, CallAnswered
    <2>3. \/ asking' = asking
          \/ \E s \in {"done", "failed"} : asking' = [asking EXCEPT ![a] = s]
          \/ asking[a] \in {"new", "choosing", "using"} /\ asking' = [asking EXCEPT ![a] = "choosing"]
          \/ asking' = [asking EXCEPT ![a] = "refused"] /\ tried[a] = Keys
      BY <1>3 DEF Begins, Exhaust, Probe, ReadAnswered, CallAnswered, AskGoes
    <2>4. KeyPoolTypeOK'
      <3>1. asking' \in [Asks -> {"new", "choosing", "using", "done", "refused", "failed"}]
        BY <1>1, <2>3
      <3> QED
        BY <2>1, <2>2, <3>1 DEF KeyPoolInv, KeyPoolTypeOK
    <2>5. \A b \in Asks : \/ asking'[b] = asking[b] \/ asking'[b] \in {"done", "failed"}
                          \/ asking[b] \in {"new", "choosing", "using"} /\ asking'[b] = "choosing"
                          \/ asking'[b] = "refused" /\ tried[b] = Keys
      BY <1>1, <2>3
    <2> QED
      BY <2>1, <2>4, <2>5, NoChoiceKeeps
  <1>4. CASE UNCHANGED keyring
    <2>1. KeyPoolTypeOK'
      BY <1>4 DEF keyring, KeyPoolInv, KeyPoolTypeOK
    <2> QED
      BY <1>4, <2>1, NoChoiceKeeps DEF keyring
  <1> QED
    BY <1>2, <1>3, <1>4, ChooseKeeps DEF NextKeys, AskStep

\* A request that no other one disturbs is refused only after every key that was not
\* blocked: the keys are taken in a circle, and it cannot meet one of its own again
\* before the circle is closed.
THEOREM KeysAllTried == KeysSpec => [](KeyPoolTypeOK /\ KeysTried)
  <1>1. KeyPoolInv => KeyPoolTypeOK /\ KeysTried
    BY DEF KeyPoolInv
  <1> QED
    BY <1>1, KeysStart, KeysStep, PTL DEF KeysSpec

-----------------------------------------------------------------------------
(* Forum *)

Early == {"none", "spawned", "reading", "ready"}

\* A post that is known has its task, has had its turn or is excused.
Known(p) == begun[p] = 1 \/ stage[p] \notin {"none", "over"} \/ p \in excused

\* A turn is begun on leaving "ready", a task is over only after it or excused, and has
\* left a mark.
TurnOfTask == \A p \in Posts :
    /\ begun[p] \in {0, 1}
    /\ stage[p] \in Early => begun[p] = 0
    /\ stage[p] \notin Early \cup {"over"} => begun[p] = 1
    /\ stage[p] = "over" => begun[p] = 1 \/ p \in excused
    /\ stage[p] # "none" => p \in marked

\* What is marked is known, and everything up to a post that was seen.
SightKnown ==
    /\ \A p \in marked : Known(p)
    /\ \A k \in seen \cup seenFile : k <= site /\ \A p \in 1 .. k : Known(p)

\* A stop leaves room for the end.
StopEnds == life = "draining" => downs < MaxDowns

ForumInv == ForumTypeOK /\ TurnOfTask /\ SightKnown /\ StopEnds

LEMMA ForumStart == InitForum => ForumInv
  <1> SUFFICES ASSUME InitForum PROVE ForumInv
    OBVIOUS
  <1> USE ForumAssumption DEF InitForum
  <1>1. ForumTypeOK
    <2>1. begun \in [Posts -> Nat] /\ latest \in 0 .. LastPost /\ site \in 0 .. LastPost
          /\ downs \in 0 .. MaxDowns
      OBVIOUS
    <2>2. /\ taken \in [Posts -> SUBSET Posts] /\ text \in [Posts -> SUBSET Posts]
          /\ line \in Seq(Posts) /\ reports \in Seq(Posts)
      OBVIOUS
    <2>3. stage \in [Posts -> {"none", "spawned", "reading", "ready", "turn", "own turn",
                               "answer", "follow", "polling", "polled", "over"}]
      OBVIOUS
    <2>4. {seen, seenFile, marked, working, excused} \subseteq SUBSET Posts
      OBVIOUS
    <2> QED
      BY <2>1, <2>2, <2>3, <2>4 DEF ForumTypeOK
  <1>2. TurnOfTask
    BY DEF TurnOfTask, Early
  <1>3. SightKnown
    BY DEF SightKnown
  <1> QED
    BY <1>1, <1>2, <1>3 DEF ForumInv, StopEnds

\* The task of a post goes on: early it is only marked, a turn begins, or one that has
\* begun ends; and what ends before that is excused.
TaskMoves(p) ==
    \/ stage'[p] = stage[p] /\ begun'[p] = begun[p]
    \/ /\ stage[p] \in Early /\ stage'[p] \in Early \ {"none"}
       /\ begun'[p] = begun[p] /\ p \in marked'
    \/ stage[p] = "ready" /\ stage'[p] \in {"turn", "own turn"} /\ begun'[p] = begun[p] + 1
    \/ /\ stage[p] \notin Early \cup {"over"} /\ stage'[p] \notin Early
       /\ begun'[p] = begun[p]
    \/ stage'[p] = "over" /\ begun'[p] = begun[p] /\ p \in excused' /\ p \in marked'

\* What the task of a post holds.
TurnOf(p) ==
    /\ begun[p] \in {0, 1}
    /\ stage[p] \in Early => begun[p] = 0
    /\ stage[p] \notin Early \cup {"over"} => begun[p] = 1
    /\ stage[p] = "over" => begun[p] = 1 \/ p \in excused
    /\ stage[p] # "none" => p \in marked

LEMMA TurnGoesOn ==
  ASSUME NEW p \in Posts, TurnOf(p), TaskMoves(p), marked \subseteq marked', excused \subseteq excused'
  PROVE  TurnOf(p)' /\ (Known(p) => Known(p)')
  <1> DEFINE s == stage[p]  t == stage'[p]  b == begun[p]  c == begun'[p]
  <1>1. /\ b \in {0, 1} /\ (s \in Early => b = 0) /\ (s \notin Early \cup {"over"} => b = 1)
        /\ s = "over" => b = 1 \/ p \in excused'
        /\ s # "none" => p \in marked'
    BY DEF TurnOf
  <1>2. \/ t = s /\ c = b
        \/ /\ s \in Early /\ t \in Early \ {"none"} /\ c = b /\ p \in marked'
        \/ s = "ready" /\ t \in {"turn", "own turn"} /\ c = b + 1
        \/ s \notin Early \cup {"over"} /\ t \notin Early /\ c = b
        \/ t = "over" /\ c = b /\ p \in excused' /\ p \in marked'
    BY DEF TaskMoves
  <1>3. Known(p) => b = 1 \/ s \notin {"none", "over"} \/ p \in excused'
    BY DEF Known
  <1> HIDE DEF s, t, b, c
  <1>4. /\ c \in {0, 1} /\ (t \in Early => c = 0) /\ (t \notin Early \cup {"over"} => c = 1)
        /\ t = "over" => c = 1 \/ p \in excused'
        /\ t # "none" => p \in marked'
    <2>1. CASE t = s /\ c = b
      BY ONLY <1>1, <2>1
    <2>2. CASE s \in Early /\ t \in Early \ {"none"} /\ c = b /\ p \in marked'
      BY ONLY <1>1, <2>2 DEF Early
    <2>3. CASE s = "ready" /\ t \in {"turn", "own turn"} /\ c = b + 1
      <3>1. b = 0 /\ p \in marked'
        BY ONLY <1>1, <2>3 DEF Early
      <3>2. c = 1
        <4>1. c = b + 1 /\ b = 0
          BY ONLY <2>3, <3>1
        <4> QED
          BY ONLY <4>1
      <3> QED
        BY ONLY <2>3, <3>1, <3>2 DEF Early
    <2>4. CASE s \notin Early \cup {"over"} /\ t \notin Early /\ c = b
      BY ONLY <1>1, <2>4 DEF Early
    <2>5. CASE t = "over" /\ c = b /\ p \in excused' /\ p \in marked'
      BY ONLY <1>1, <2>5 DEF Early
    <2> QED
      BY ONLY <1>2, <2>1, <2>2, <2>3, <2>4, <2>5
  <1>5. b = 1 \/ s \notin {"none", "over"} \/ p \in excused'
          => c = 1 \/ t \notin {"none", "over"} \/ p \in excused'
    BY ONLY <1>1, <1>2 DEF Early
  <1> QED
    BY <1>3, <1>4, <1>5 DEF s, t, b, c, TurnOf, Known

\* The numbers up to a post's are those of posts.
LEMMA UpToPost ==
  ASSUME NEW k \in Posts
  PROVE  k \in Nat /\ 1 .. k \subseteq Posts /\ k \in 1 .. k
  BY ForumAssumption DEF Posts

\* The tasks of posts go on, the marks grow and nothing that is known is forgotten.
LEMMA ForumMoves ==
  ASSUME ForumInv, ForumTypeOK', StopEnds', marked \subseteq marked', excused \subseteq excused',
         site <= site', \A p \in Posts : TaskMoves(p),
         \A p \in marked' : p \in marked \/ Known(p)',
         \A k \in seen' \cup seenFile' :
            k \in seen \cup seenFile \/ (k <= site' /\ \A p \in 1 .. k : Known(p)')
  PROVE  ForumInv'
  <1>1. \A p \in Posts : TurnOf(p)
    BY DEF ForumInv, TurnOfTask, TurnOf
  <1>2. ASSUME NEW p \in Posts PROVE TurnOf(p)' /\ (Known(p) => Known(p)')
    BY <1>1, TurnGoesOn
  <1>3. TurnOfTask'
    BY <1>2 DEF TurnOfTask, TurnOf
  <1>4. marked' \subseteq Posts /\ seen' \cup seenFile' \subseteq Posts
    BY DEF ForumTypeOK
  <1>5. \A p \in marked' : Known(p)'
    BY <1>2, <1>4 DEF ForumInv, SightKnown
  <1>6. ASSUME NEW k \in seen' \cup seenFile'
        PROVE  k <= site' /\ \A p \in 1 .. k : Known(p)'
    <2>1. CASE k \in seen \cup seenFile
      <3>1. k <= site /\ \A p \in 1 .. k : Known(p)
        BY <2>1 DEF ForumInv, SightKnown
      <3>2. k \in Nat /\ 1 .. k \subseteq Posts
        BY <1>4, UpToPost
      <3>3. site \in Nat /\ site' \in Nat
        <4>1. site \in 0 .. LastPost /\ site' \in 0 .. LastPost
          BY DEF ForumInv, ForumTypeOK
        <4> QED
          BY ONLY <4>1, ForumAssumption
      <3>4. k <= site'
        BY ONLY <3>1, <3>2, <3>3, site <= site'
      <3> QED
        BY <1>2, <3>1, <3>2, <3>4
    <2> QED
      BY <2>1
  <1>7. SightKnown'
    BY <1>5, <1>6 DEF SightKnown
  <1> QED
    BY <1>3, <1>7 DEF ForumInv

-----------------------------------------------------------------------------

Stages == {"none", "spawned", "reading", "ready", "turn", "own turn",
           "answer", "follow", "polling", "polled", "over"}

\* The parts of the type.
LEMMA ForumTypes ==
  ForumTypeOK <=>
    /\ watch \in BOOLEAN /\ site \in 0..LastPost
    /\ life \in {"up", "draining", "down"} /\ downs \in 0..MaxDowns
    /\ seen \subseteq Posts /\ seenFile \subseteq Posts /\ marked \subseteq Posts
    /\ working \subseteq Posts /\ excused \subseteq Posts
    /\ stage \in [Posts -> Stages]
    /\ line \in Seq(Posts) /\ reports \in Seq(Posts)
    /\ taken \in [Posts -> SUBSET Posts] /\ text \in [Posts -> SUBSET Posts]
    /\ latest \in 0..LastPost /\ begun \in [Posts -> Nat]
  BY DEF ForumTypeOK, Stages

\* A task goes on, the round stands still.
LEMMA TaskGoesOn ==
  ASSUME ForumInv, NEW p \in Posts, NEW s \in Stages, Goes(p, s),
         UNCHANGED <<watch, site, process, sight>>,
         excused' \in {excused, excused \cup {p}},
         begun' \in {begun, [begun EXCEPT ![p] = @ + 1]},
         TaskMoves(p),
         line' \in Seq(Posts), reports' \in Seq(Posts), working' \subseteq Posts,
         taken' \in [Posts -> SUBSET Posts], text' \in [Posts -> SUBSET Posts],
         latest' \in 0 .. LastPost
  PROVE  ForumInv'
  <1>1. ForumTypeOK
    BY DEF ForumInv
  <1>2. stage' \in [Posts -> Stages]
    BY <1>1, ForumTypes DEF Goes
  <1>3. begun' \in [Posts -> Nat]
    <2>1. begun \in [Posts -> Nat] /\ begun[p] + 1 \in Nat
      BY <1>1, ForumTypes
    <2>2. [begun EXCEPT ![p] = @ + 1] \in [Posts -> Nat]
      BY ONLY <2>1
    <2> QED
      BY <2>1, <2>2
  <1>4. excused' \subseteq Posts
    BY <1>1, ForumTypes
  <1>5. watch' = watch /\ site' = site /\ life' = life /\ downs' = downs /\ seen' = seen
        /\ seenFile' = seenFile /\ marked' = marked
    BY DEF process, sight
  <1>6. ForumTypeOK'
    BY <1>1, <1>2, <1>3, <1>4, <1>5, ForumTypes DEF ForumTypeOK, Stages
  <1>7. ASSUME NEW q \in Posts, q # p PROVE TaskMoves(q)
    <2>1. stage'[q] = stage[q] /\ begun'[q] = begun[q]
      BY <1>1, <1>7, ForumTypes DEF Goes
    <2> QED
      BY <2>1 DEF TaskMoves
  <1>8. site <= site'
    <2>1. site \in 0 .. LastPost
      BY <1>1, ForumTypes
    <2> QED
      BY ONLY <1>5, <2>1, ForumAssumption
  <1>9. StopEnds'
    BY <1>5 DEF ForumInv, StopEnds
  <1> QED
    BY <1>5, <1>6, <1>7, <1>8, <1>9, ForumMoves

LEMMA ForumTaskStep ==
  ASSUME ForumInv, NEW p \in Posts,
         TaskStep(p) \/ Breaks(p) \/ Report(p) \/ PollReports(p) \/ Hear(p) \/ GiveUp(p)
  PROVE  ForumInv'
  <1>1. /\ stage \in [Posts -> Stages] /\ begun \in [Posts -> Nat]
        /\ line \in Seq(Posts) /\ reports \in Seq(Posts) /\ working \subseteq Posts
        /\ taken \in [Posts -> SUBSET Posts] /\ text \in [Posts -> SUBSET Posts]
        /\ latest \in 0 .. LastPost /\ excused \subseteq Posts
    BY ForumTypes DEF ForumInv
  <1>2. stage[p] # "none" => p \in marked
    BY DEF ForumInv, TurnOfTask
  <1>3. ASSUME NEW s \in Stages, Goes(p, s) PROVE stage'[p] = s
    BY <1>1, <1>3 DEF Goes
  <1>4. p \in 0 .. LastPost
    BY ForumAssumption DEF Posts
  <1>5. [taken EXCEPT ![p] = {}] \in [Posts -> SUBSET Posts]
        /\ [taken EXCEPT ![p] = ToSet(reports)] \in [Posts -> SUBSET Posts]
        /\ [text EXCEPT ![p] = text[p] \cup taken[p]] \in [Posts -> SUBSET Posts]
    <2>1. taken[p] \subseteq Posts /\ text[p] \subseteq Posts
      BY <1>1
    <2>2. ToSet(reports) \subseteq Posts
      BY <1>1 DEF ToSet
    <2> QED
      BY <1>1, <2>1, <2>2
  <1>6. Append(line, p) \in Seq(Posts) /\ Append(reports, p) \in Seq(Posts)
    BY <1>1
  <1>7. CASE Begin(p)
    <2>1. PICK s \in {"ready", "reading"} : Goes(p, s)
      BY <1>7 DEF Begin
    <2>2. s \in Stages /\ stage'[p] = s
      BY <1>3, <2>1 DEF Stages
    <2>3. UNCHANGED <<watch, site, process, sight>> /\ excused' = excused /\ begun' = begun
      BY <1>7 DEF Begin, process, sight, daemon, edits
    <2>4. TaskMoves(p)
      BY <1>1, <1>2, <1>7, <2>1, <2>2, <2>3 DEF Begin, TaskMoves, Early, sight
    <2>5. /\ line' \in Seq(Posts) /\ reports' \in Seq(Posts) /\ working' \subseteq Posts
          /\ taken' \in [Posts -> SUBSET Posts] /\ text' \in [Posts -> SUBSET Posts]
          /\ latest' \in 0 .. LastPost
      BY <1>1, <1>4, <1>5, <1>6, <1>7 DEF Begin, daemon, edits
    <2> QED
      BY <2>1, <2>2, <2>3, <2>4, <2>5, TaskGoesOn
  <1>8. CASE HasRead(p)
    <2>1. PICK s \in {"ready"} : Goes(p, s)
      BY <1>8 DEF HasRead
    <2>2. s \in Stages /\ stage'[p] = s
      BY <1>3, <2>1 DEF Stages
    <2>3. UNCHANGED <<watch, site, process, sight>> /\ excused' = excused /\ begun' = begun
      BY <1>8 DEF HasRead, process, sight, daemon, edits
    <2>4. TaskMoves(p)
      BY <1>1, <1>2, <1>8, <2>1, <2>2, <2>3 DEF HasRead, TaskMoves, Early, sight
    <2>5. /\ line' \in Seq(Posts) /\ reports' \in Seq(Posts) /\ working' \subseteq Posts
          /\ taken' \in [Posts -> SUBSET Posts] /\ text' \in [Posts -> SUBSET Posts]
          /\ latest' \in 0 .. LastPost
      BY <1>1, <1>4, <1>5, <1>6, <1>8 DEF HasRead, daemon, edits
    <2> QED
      BY <2>1, <2>2, <2>3, <2>4, <2>5, TaskGoesOn
  <1>9. CASE Fails(p)
    <2>1. PICK s \in {"over"} : Goes(p, s)
      BY <1>9 DEF Fails
    <2>2. s \in Stages /\ stage'[p] = s
      BY <1>3, <2>1 DEF Stages
    <2>3. UNCHANGED <<watch, site, process, sight>> /\ excused' = excused \cup {p} /\ begun' = begun
      BY <1>9 DEF Fails, process, sight, daemon, edits
    <2>4. TaskMoves(p)
      BY <1>1, <1>2, <1>9, <2>1, <2>2, <2>3 DEF Fails, TaskMoves, Early, sight
    <2>5. /\ line' \in Seq(Posts) /\ reports' \in Seq(Posts) /\ working' \subseteq Posts
          /\ taken' \in [Posts -> SUBSET Posts] /\ text' \in [Posts -> SUBSET Posts]
          /\ latest' \in 0 .. LastPost
      BY <1>1, <1>4, <1>5, <1>6, <1>9 DEF Fails, daemon, edits
    <2> QED
      BY <2>1, <2>2, <2>3, <2>4, <2>5, TaskGoesOn
  <1>10. CASE RunTurn(p)
    <2>1. PICK s \in {"turn", "own turn"} : Goes(p, s)
      BY <1>10 DEF RunTurn
    <2>2. s \in Stages /\ stage'[p] = s
      BY <1>3, <2>1 DEF Stages
    <2>3. UNCHANGED <<watch, site, process, sight>> /\ excused' = excused /\ begun' = [begun EXCEPT ![p] = @ + 1]
      BY <1>10 DEF RunTurn, process, sight, daemon, edits
    <2>4. TaskMoves(p)
      BY <1>1, <1>2, <1>10, <2>1, <2>2, <2>3 DEF RunTurn, TaskMoves, Early, sight
    <2>5. /\ line' \in Seq(Posts) /\ reports' \in Seq(Posts) /\ working' \subseteq Posts
          /\ taken' \in [Posts -> SUBSET Posts] /\ text' \in [Posts -> SUBSET Posts]
          /\ latest' \in 0 .. LastPost
      BY <1>1, <1>4, <1>5, <1>6, <1>10 DEF RunTurn, daemon, edits
    <2> QED
      BY <2>1, <2>2, <2>3, <2>4, <2>5, TaskGoesOn
  <1>11. CASE OwnTurnEnds(p)
    <2>1. PICK s \in {"answer"} : Goes(p, s)
      BY <1>11 DEF OwnTurnEnds
    <2>2. s \in Stages /\ stage'[p] = s
      BY <1>3, <2>1 DEF Stages
    <2>3. UNCHANGED <<watch, site, process, sight>> /\ excused' = excused /\ begun' = begun
      BY <1>11 DEF OwnTurnEnds, process, sight, daemon, edits
    <2>4. TaskMoves(p)
      BY <1>1, <1>2, <1>11, <2>1, <2>2, <2>3 DEF OwnTurnEnds, TaskMoves, Early, sight
    <2>5. /\ line' \in Seq(Posts) /\ reports' \in Seq(Posts) /\ working' \subseteq Posts
          /\ taken' \in [Posts -> SUBSET Posts] /\ text' \in [Posts -> SUBSET Posts]
          /\ latest' \in 0 .. LastPost
      BY <1>1, <1>4, <1>5, <1>6, <1>11 DEF OwnTurnEnds, daemon, edits
    <2> QED
      BY <2>1, <2>2, <2>3, <2>4, <2>5, TaskGoesOn
  <1>12. CASE PostAnswer(p)
    <2>1. PICK s \in {"over", "polling"} : Goes(p, s)
      BY <1>12 DEF PostAnswer
    <2>2. s \in Stages /\ stage'[p] = s
      BY <1>3, <2>1 DEF Stages
    <2>3. UNCHANGED <<watch, site, process, sight>> /\ excused' = excused /\ begun' = begun
      BY <1>12 DEF PostAnswer, process, sight, daemon, edits
    <2>4. TaskMoves(p)
      BY <1>1, <1>2, <1>12, <2>1, <2>2, <2>3 DEF PostAnswer, TaskMoves, Early, sight
    <2>5. /\ line' \in Seq(Posts) /\ reports' \in Seq(Posts) /\ working' \subseteq Posts
          /\ taken' \in [Posts -> SUBSET Posts] /\ text' \in [Posts -> SUBSET Posts]
          /\ latest' \in 0 .. LastPost
      BY <1>1, <1>4, <1>5, <1>6, <1>12 DEF PostAnswer, daemon, edits
    <2> QED
      BY <2>1, <2>2, <2>3, <2>4, <2>5, TaskGoesOn
  <1>13. CASE Breaks(p)
    <2>1. PICK s \in {"over"} : Goes(p, s)
      BY <1>13 DEF Breaks
    <2>2. s \in Stages /\ stage'[p] = s
      BY <1>3, <2>1 DEF Stages
    <2>3. UNCHANGED <<watch, site, process, sight>> /\ excused' = excused /\ begun' = begun
      BY <1>13 DEF Breaks, process, sight, daemon, edits
    <2>4. TaskMoves(p)
      BY <1>1, <1>2, <1>13, <2>1, <2>2, <2>3 DEF Breaks, TaskMoves, Early, sight
    <2>5. /\ line' \in Seq(Posts) /\ reports' \in Seq(Posts) /\ working' \subseteq Posts
          /\ taken' \in [Posts -> SUBSET Posts] /\ text' \in [Posts -> SUBSET Posts]
          /\ latest' \in 0 .. LastPost
      BY <1>1, <1>4, <1>5, <1>6, <1>13 DEF Breaks, daemon, edits
    <2> QED
      BY <2>1, <2>2, <2>3, <2>4, <2>5, TaskGoesOn
  <1>14. CASE Report(p)
    <2>1. stage[p] \in Stages /\ Goes(p, stage[p])
      BY <1>1, <1>14 DEF Report, Goes
    <2>2. UNCHANGED <<watch, site, process, sight, begun>> /\ excused' = excused
      BY <1>14 DEF Report
    <2>3. TaskMoves(p)
      BY <1>14 DEF Report, TaskMoves
    <2>4. /\ line' \in Seq(Posts) /\ reports' \in Seq(Posts) /\ working' \subseteq Posts
          /\ taken' \in [Posts -> SUBSET Posts] /\ text' \in [Posts -> SUBSET Posts]
          /\ latest' \in 0 .. LastPost
      BY <1>1, <1>6, <1>14 DEF Report, edits
    <2> QED
      BY <2>1, <2>2, <2>3, <2>4, TaskGoesOn
  <1>15. CASE PollReports(p)
    <2>1. PICK s \in {"polled"} : Goes(p, s)
      BY <1>15 DEF PollReports
    <2>2. s \in Stages /\ stage'[p] = s
      BY <1>3, <2>1 DEF Stages
    <2>3. UNCHANGED <<watch, site, process, sight>> /\ excused' = excused /\ begun' = begun
      BY <1>15 DEF PollReports, process, sight, daemon, edits
    <2>4. TaskMoves(p)
      BY <1>1, <1>2, <1>15, <2>1, <2>2, <2>3 DEF PollReports, TaskMoves, Early, sight
    <2>5. /\ line' \in Seq(Posts) /\ reports' \in Seq(Posts) /\ working' \subseteq Posts
          /\ taken' \in [Posts -> SUBSET Posts] /\ text' \in [Posts -> SUBSET Posts]
          /\ latest' \in 0 .. LastPost
      BY <1>1, <1>4, <1>5, <1>6, <1>15 DEF PollReports, daemon, edits
    <2> QED
      BY <2>1, <2>2, <2>3, <2>4, <2>5, TaskGoesOn
  <1>16. CASE Hear(p)
    <2>1. PICK s \in {"polling"} : Goes(p, s)
      BY <1>16 DEF Hear
    <2>2. s \in Stages /\ stage'[p] = s
      BY <1>3, <2>1 DEF Stages
    <2>3. UNCHANGED <<watch, site, process, sight>> /\ excused' = excused /\ begun' = begun
      BY <1>16 DEF Hear, process, sight, daemon, edits
    <2>4. TaskMoves(p)
      BY <1>1, <1>2, <1>16, <2>1, <2>2, <2>3 DEF Hear, TaskMoves, Early, sight
    <2>5. /\ line' \in Seq(Posts) /\ reports' \in Seq(Posts) /\ working' \subseteq Posts
          /\ taken' \in [Posts -> SUBSET Posts] /\ text' \in [Posts -> SUBSET Posts]
          /\ latest' \in 0 .. LastPost
      BY <1>1, <1>4, <1>5, <1>6, <1>16 DEF Hear, daemon, edits
    <2> QED
      BY <2>1, <2>2, <2>3, <2>4, <2>5, TaskGoesOn
  <1>17. CASE GiveUp(p)
    <2>1. PICK s \in {"over"} : Goes(p, s)
      BY <1>17 DEF GiveUp
    <2>2. s \in Stages /\ stage'[p] = s
      BY <1>3, <2>1 DEF Stages
    <2>3. UNCHANGED <<watch, site, process, sight>> /\ excused' = excused /\ begun' = begun
      BY <1>17 DEF GiveUp, process, sight, daemon, edits
    <2>4. TaskMoves(p)
      BY <1>1, <1>2, <1>17, <2>1, <2>2, <2>3 DEF GiveUp, TaskMoves, Early, sight
    <2>5. /\ line' \in Seq(Posts) /\ reports' \in Seq(Posts) /\ working' \subseteq Posts
          /\ taken' \in [Posts -> SUBSET Posts] /\ text' \in [Posts -> SUBSET Posts]
          /\ latest' \in 0 .. LastPost
      BY <1>1, <1>4, <1>5, <1>6, <1>17 DEF GiveUp, daemon, edits
    <2> QED
      BY <2>1, <2>2, <2>3, <2>4, <2>5, TaskGoesOn
  <1> QED
    BY <1>7, <1>8, <1>9, <1>10, <1>11, <1>12, <1>13, <1>14, <1>15, <1>16, <1>17 DEF TaskStep

\* The daemon ends a turn.
LEMMA ForumTurnEnds ==
  ASSUME ForumInv, TurnEnds
  PROVE  ForumInv'
  <1> DEFINE p == line[1]
  <1>1. /\ stage \in [Posts -> Stages] /\ begun \in [Posts -> Nat]
        /\ line \in Seq(Posts) /\ reports \in Seq(Posts) /\ working \subseteq Posts
        /\ taken \in [Posts -> SUBSET Posts] /\ text \in [Posts -> SUBSET Posts]
        /\ latest \in 0 .. LastPost /\ excused \subseteq Posts
    BY ForumTypes DEF ForumInv
  <1>2. p \in Posts /\ Tail(line) \in Seq(Posts)
    BY <1>1 DEF TurnEnds
  <1>3. stage[p] \in Stages
    BY <1>1, <1>2
  <1>4. PICK t \in {stage[p], "follow", "answer"} :
           Goes(p, t) /\ (stage[p] # "turn" => t = stage[p])
    BY DEF TurnEnds
  <1>5. t \in Stages /\ stage'[p] = t
    BY <1>1, <1>2, <1>3, <1>4 DEF Stages, Goes
  <1>6. UNCHANGED <<watch, site, process, sight, begun, excused>>
    BY DEF TurnEnds
  <1>7. stage[p] = "turn" => t \in {"turn", "follow", "answer"}
    BY <1>4
  <1>8. TaskMoves(p)
    BY <1>4, <1>5, <1>6, <1>7 DEF TaskMoves, Early
  <1>9. line' \in Seq(Posts) /\ working' \subseteq Posts
    BY <1>1, <1>2 DEF TurnEnds
  <1>10. reports' \in Seq(Posts) /\ taken' \in [Posts -> SUBSET Posts]
         /\ text' \in [Posts -> SUBSET Posts] /\ latest' \in 0 .. LastPost
    BY <1>1 DEF TurnEnds, edits
  <1> HIDE DEF p
  <1> QED
    BY <1>2, <1>4, <1>5, <1>6, <1>8, <1>9, <1>10, TaskGoesOn

\* The tasks that end with the process.
LEMMA CeasesKeeps ==
  ASSUME ForumInv, NEW tasks \in SUBSET Posts, Ceases(tasks), Pending \subseteq tasks,
         downs < MaxDowns, begun' = begun, marked \subseteq marked', tasks \subseteq marked'
  PROVE  /\ \A p \in Posts : TaskMoves(p)
         /\ stage' \in [Posts -> Stages] /\ taken' \in [Posts -> SUBSET Posts]
         /\ life' \in {"up", "draining", "down"} /\ downs' \in 0 .. MaxDowns
         /\ excused \subseteq excused' /\ excused' \subseteq Posts /\ tasks \subseteq excused'
         /\ StopEnds'
  <1>1. /\ stage \in [Posts -> Stages] /\ excused \subseteq Posts /\ downs \in 0 .. MaxDowns
    BY ForumTypes DEF ForumInv
  <1>2. ASSUME NEW p \in Posts PROVE TaskMoves(p)
    <2>1. CASE p \in tasks
      BY <2>1 DEF Ceases, TaskMoves
    <2>2. CASE p \notin tasks
      BY <2>2 DEF Ceases, TaskMoves
    <2> QED
      BY <2>1, <2>2
  <1>3. stage' \in [Posts -> Stages] /\ taken' \in [Posts -> SUBSET Posts]
    BY <1>1 DEF Ceases, Stages
  <1>4. life' = "down" /\ downs' = downs + 1
    BY DEF Ceases
  <1>5. downs' \in 0 .. MaxDowns
    BY ONLY <1>1, <1>4, downs < MaxDowns, ForumAssumption
  <1>6. excused \subseteq excused' /\ excused' \subseteq Posts /\ tasks \subseteq excused'
    BY <1>1 DEF Ceases
  <1> QED
    BY <1>2, <1>3, <1>4, <1>5, <1>6 DEF StopEnds

\* A round that knows every post up to its newest, by itself or from before.
LEMMA RoundKeeps ==
  ASSUME ForumInv, NEW known \in SUBSET (1 .. site), NEW fresh \in SUBSET Posts,
         NEW passed \in SUBSET Posts, RoundEnds(known, fresh, passed),
         \A k \in known : \A p \in 1 .. k : p \in fresh \cup passed \/ Known(p)
  PROVE  ForumInv'
  <1>1. ForumTypeOK
    BY DEF ForumInv
  <1>2. marked' = marked \cup fresh /\ UNCHANGED <<watch, site, daemon, text, latest, begun>>
    BY DEF RoundEnds
  <1>3. line' = line /\ working' = working /\ reports' = reports
    BY <1>2 DEF daemon
  <1>4. site \in 0 .. LastPost /\ site <= site' /\ 1 .. site \subseteq Posts
    <2>1. site \in 0 .. LastPost
      BY <1>1, ForumTypes
    <2> QED
      BY ONLY <1>2, <2>1, ForumAssumption DEF Posts
  <1>5. Schedule(fresh) = fresh \ marked /\ \A p \in Schedule(fresh) : stage[p] = "none"
    BY DEF ForumInv, TurnOfTask, Schedule
  <1>6. \A p \in Posts : TurnOf(p)
    BY DEF ForumInv, TurnOfTask, TurnOf
  <1>7. CASE /\ seen' = known /\ seenFile' = known
             /\ stage' = [p \in Posts |-> IF p \in Schedule(fresh) THEN "spawned" ELSE stage[p]]
             /\ excused' = excused \cup passed
             /\ UNCHANGED <<process, taken>>
    <2>1. ASSUME NEW p \in Posts PROVE TaskMoves(p)
      <3>1. CASE p \in Schedule(fresh)
        BY <1>2, <1>5, <1>7, <3>1 DEF TaskMoves, Early
      <3>2. CASE p \notin Schedule(fresh)
        BY <1>2, <1>7, <3>2 DEF TaskMoves
      <3> QED
        BY <3>1, <3>2
    <2>2. ForumTypeOK'
      <3>1. stage' \in [Posts -> Stages]
        BY <1>1, <1>7, ForumTypes DEF Stages
      <3>2. known \subseteq Posts
        BY <1>4
      <3> QED
        BY <1>1, <1>2, <1>3, <1>7, <3>1, <3>2, ForumTypes DEF ForumTypeOK, Stages, process
    <2>3. StopEnds'
      BY <1>7 DEF ForumInv, StopEnds, process
    <2>4. ASSUME NEW p \in Posts, p \in fresh \cup passed \/ Known(p) PROVE Known(p)'
      <3>1. CASE Known(p)
        BY <1>2, <1>6, <1>7, <2>1, <3>1, TurnGoesOn
      <3>2. CASE p \in passed
        BY <1>7, <3>2 DEF Known
      <3>3. CASE p \in fresh /\ p \in marked
        <4>1. Known(p)
          BY <3>3 DEF ForumInv, SightKnown
        <4> QED
          BY <3>1, <4>1
      <3>4. CASE p \in fresh /\ p \notin marked
        BY <1>5, <1>7, <3>4 DEF Known
      <3> QED
        BY <2>4, <3>1, <3>2, <3>3, <3>4
    <2>5. \A p \in marked' : p \in marked \/ Known(p)'
      BY <1>2, <2>4
    <2>6. ASSUME NEW k \in seen' \cup seenFile'
          PROVE  k <= site' /\ \A p \in 1 .. k : Known(p)'
      <3>1. k \in known
        BY <1>7
      <3>2. k \in 1 .. site /\ k \in Posts
        BY <1>4, <3>1
      <3>3. k <= site'
        BY ONLY <1>2, <1>4, <3>2
      <3>4. 1 .. k \subseteq Posts
        BY <3>2, UpToPost
      <3> QED
        BY <2>4, <3>1, <3>3, <3>4
    <2> QED
      BY <1>2, <1>4, <1>7, <2>1, <2>2, <2>3, <2>5, <2>6, ForumMoves
  <1>8. CASE /\ fresh # {} /\ downs < MaxDowns
             /\ Ceases(Pending \cup Schedule(fresh))
             /\ UNCHANGED <<seen, seenFile>>
    <2> DEFINE tasks == Pending \cup Schedule(fresh)
    <2>1. tasks \in SUBSET Posts /\ Pending \subseteq tasks
      BY <1>5 DEF Pending
    <2>2. tasks \subseteq marked'
      BY <1>2, <1>5 DEF Pending, ForumInv, TurnOfTask
    <2>3. Ceases(tasks) /\ marked \subseteq marked'
      BY <1>2, <1>8
    <2>4. Schedule(fresh) \subseteq tasks
      OBVIOUS
    <2> HIDE DEF tasks
    <2>5. /\ \A p \in Posts : TaskMoves(p)
          /\ stage' \in [Posts -> Stages] /\ taken' \in [Posts -> SUBSET Posts]
          /\ life' \in {"up", "draining", "down"} /\ downs' \in 0 .. MaxDowns
          /\ excused \subseteq excused' /\ excused' \subseteq Posts /\ tasks \subseteq excused'
          /\ StopEnds'
      BY <1>2, <1>8, <2>1, <2>2, <2>3, CeasesKeeps
    <2>6. ForumTypeOK'
      BY <1>1, <1>2, <1>3, <1>8, <2>5, ForumTypes DEF ForumTypeOK, Stages
    <2>7. \A p \in marked' : p \in marked \/ Known(p)'
      BY <1>2, <1>5, <2>4, <2>5 DEF Known
    <2> QED
      BY <1>4, <1>8, <2>3, <2>5, <2>6, <2>7, ForumMoves
  <1> QED
    BY <1>7, <1>8 DEF RoundEnds

\* The first round takes every post up to its newest as known.
LEMMA FirstRoundKeeps ==
  ASSUME ForumInv, NEW known \in SUBSET (1 .. site), NEW passed \in SUBSET Posts,
         FirstRound(known, passed), \A k \in known : 1 .. k \subseteq known \cup passed
  PROVE  ForumInv'
  <1>1. ForumTypeOK
    BY DEF ForumInv
  <1>2. /\ seen' = known /\ seenFile' = known /\ excused' = excused \cup known \cup passed
        /\ UNCHANGED <<watch, site, life, downs, marked, stage, line, working, reports, taken, text,
                       latest, begun>>
    BY DEF FirstRound, process, daemon, edits
  <1>3. site \in 0 .. LastPost /\ site <= site' /\ 1 .. site \subseteq Posts
    <2>1. site \in 0 .. LastPost
      BY <1>1, ForumTypes
    <2> QED
      BY ONLY <1>2, <2>1, ForumAssumption DEF Posts
  <1>4. ForumTypeOK'
    BY <1>1, <1>2, <1>3, ForumTypes DEF ForumTypeOK, Stages
  <1>5. StopEnds'
    BY <1>2 DEF ForumInv, StopEnds
  <1>6. \A p \in Posts : TaskMoves(p)
    BY <1>2 DEF TaskMoves
  <1>7. ASSUME NEW k \in seen' \cup seenFile'
        PROVE  k <= site' /\ \A p \in 1 .. k : Known(p)'
    <2>1. k \in known
      BY <1>2
    <2>2. k \in 1 .. site
      BY <2>1
    <2>3. k <= site'
      BY ONLY <1>2, <1>3, <2>2
    <2> QED
      BY <1>2, <2>1, <2>3 DEF Known
  <1> QED
    BY <1>2, <1>3, <1>4, <1>5, <1>6, <1>7, ForumMoves

\* What a round finds is known up to its newest post.
LEMMA ListRoundKeeps ==
  ASSUME ForumInv, ListRound
  PROVE  ForumInv'
  <1>1. PICK answer \in SUBSET Feeds :
          LET found == {p \in 1..site : FeedsOf[p] \cap answer # {}}
              passed == {p \in (1..site) \ found : \E q \in found : q > p}
          IN IF seen = {} THEN FirstRound(found, passed)
             ELSE RoundEnds(found, Fresh(found), passed)
    BY DEF ListRound
  <1> DEFINE found == {p \in 1..site : FeedsOf[p] \cap answer # {}}
             passed == {p \in (1..site) \ found : \E q \in found : q > p}
  <1>2. IF seen = {} THEN FirstRound(found, passed) ELSE RoundEnds(found, Fresh(found), passed)
    BY <1>1
  <1>3. site \in Nat /\ 1 .. site \subseteq Posts
    <2>1. site \in 0 .. LastPost
      BY ForumTypes DEF ForumInv
    <2> QED
      BY ONLY <2>1, ForumAssumption DEF Posts
  <1>4. found \in SUBSET (1 .. site) /\ found \in SUBSET Posts /\ passed \in SUBSET Posts
    BY <1>3
  <1>5. ASSUME NEW k \in found, NEW p \in 1 .. k PROVE p \in found \cup passed
    <2>1. p \in 1 .. site /\ (p = k \/ k > p)
      <3>1. k \in 1 .. site
        OBVIOUS
      <3> QED
        BY ONLY <1>3, <1>5, <3>1
    <2> QED
      BY <2>1
  <1> HIDE DEF found, passed
  <1>6. CASE seen = {}
    BY <1>2, <1>4, <1>5, <1>6, FirstRoundKeeps
  <1>7. CASE seen # {}
    <2>1. RoundEnds(found, Fresh(found), passed) /\ Fresh(found) \in SUBSET Posts
      BY <1>2, <1>4, <1>7 DEF Fresh
    <2>2. ASSUME NEW k \in found, NEW p \in 1 .. k
          PROVE  p \in Fresh(found) \cup passed \/ Known(p)
      <3>1. CASE p \in found /\ p \notin Fresh(found)
        <4>1. PICK j \in found \cap seen : ~(p > j)
          BY <3>1 DEF Fresh
        <4>2. p \in Posts /\ j \in Posts
          BY <1>4, <3>1
        <4>3. p \in 1 .. j
          BY ONLY <4>1, <4>2, ForumAssumption DEF Posts
        <4> QED
          BY <4>1, <4>3 DEF ForumInv, SightKnown
      <3> QED
        BY <1>5, <3>1
    <2> QED
      BY <1>4, <2>1, <2>2, RoundKeeps
  <1> QED
    BY <1>6, <1>7

LEMMA WatchRoundKeeps ==
  ASSUME ForumInv, WatchRound
  PROVE  ForumInv'
  <1>1. PICK unread \in SUBSET ((1..site) \ seen) :
          IF seen = {} THEN unread = {} /\ FirstRound(1..site, {})
          ELSE RoundEnds(1..site, (1..site) \ (seen \cup unread), unread)
    BY DEF WatchRound
  <1>2. site \in Nat /\ 1 .. site \subseteq Posts
    <2>1. site \in 0 .. LastPost
      BY ForumTypes DEF ForumInv
    <2> QED
      BY ONLY <2>1, ForumAssumption DEF Posts
  <1>3. ASSUME NEW k \in 1 .. site PROVE 1 .. k \subseteq 1 .. site
    BY <1>2
  <1>4. CASE seen = {}
    BY <1>1, <1>3, <1>4, FirstRoundKeeps
  <1>5. CASE seen # {}
    <2> DEFINE fresh == (1 .. site) \ (seen \cup unread)
    <2>1. RoundEnds(1 .. site, fresh, unread) /\ fresh \in SUBSET Posts /\ unread \in SUBSET Posts
      BY <1>1, <1>2, <1>5
    <2>2. ASSUME NEW k \in 1 .. site, NEW p \in 1 .. k PROVE p \in fresh \cup unread \/ Known(p)
      <3>1. p \in 1 .. site
        BY <1>3
      <3>2. CASE p \in seen
        <4>1. p \in 1 .. p
          BY <1>2, <3>1, UpToPost
        <4> QED
          BY <3>2, <4>1 DEF ForumInv, SightKnown
      <3> QED
        BY <3>1, <3>2
    <2> HIDE DEF fresh
    <2> QED
      BY <2>1, <2>2, RoundKeeps
  <1> QED
    BY <1>4, <1>5

LEMMA PostAppearsKeeps ==
  ASSUME ForumInv, PostAppears
  PROVE  ForumInv'
  <1>1. ForumTypeOK
    BY DEF ForumInv
  <1>2. /\ site < LastPost /\ site' = site + 1
        /\ UNCHANGED <<watch, life, downs, seen, seenFile, marked, stage, line, working, reports,
                       taken, text, latest, begun, excused>>
    BY DEF PostAppears, process, sight, daemon, edits
  <1>3. site' \in 0 .. LastPost /\ site <= site'
    <2>1. site \in 0 .. LastPost
      BY <1>1, ForumTypes
    <2> QED
      BY ONLY <1>2, <2>1, ForumAssumption
  <1>4. ForumTypeOK'
    BY <1>1, <1>2, <1>3, ForumTypes DEF ForumTypeOK, Stages
  <1>5. \A p \in Posts : TaskMoves(p)
    BY <1>2 DEF TaskMoves
  <1>6. StopEnds'
    BY <1>2 DEF ForumInv, StopEnds
  <1> QED
    BY <1>2, <1>3, <1>4, <1>5, <1>6, ForumMoves

LEMMA StopKeeps ==
  ASSUME ForumInv, Stop
  PROVE  ForumInv'
  <1>1. ForumTypeOK
    BY DEF ForumInv
  <1>2. /\ downs < MaxDowns /\ life' = "draining"
        /\ UNCHANGED <<watch, site, downs, seen, seenFile, marked, stage, line, working, reports,
                       taken, text, latest, begun, excused>>
    BY DEF Stop, sight, daemon, edits
  <1>3. ForumTypeOK'
    BY <1>1, <1>2, ForumTypes DEF ForumTypeOK, Stages
  <1>4. \A p \in Posts : TaskMoves(p)
    BY <1>2 DEF TaskMoves
  <1>5. StopEnds'
    BY <1>2 DEF StopEnds
  <1>6. site <= site'
    <2>1. site \in 0 .. LastPost
      BY <1>1, ForumTypes
    <2> QED
      BY ONLY <1>2, <2>1, ForumAssumption
  <1> QED
    BY <1>2, <1>3, <1>4, <1>5, <1>6, ForumMoves

LEMMA EndKeeps ==
  ASSUME ForumInv, End
  PROVE  ForumInv'
  <1>1. ForumTypeOK
    BY DEF ForumInv
  <1>2. /\ Ceases(Pending)
        /\ UNCHANGED <<watch, site, seen, seenFile, marked, line, working, reports,
                       text, latest, begun>>
    BY DEF End, sight, daemon
  <1>3. downs < MaxDowns
    BY DEF End, ForumInv, StopEnds
  <1>4. Pending \in SUBSET Posts /\ Pending \subseteq marked'
    BY <1>2 DEF Pending, ForumInv, TurnOfTask
  <1>5. /\ \A p \in Posts : TaskMoves(p)
        /\ stage' \in [Posts -> Stages] /\ taken' \in [Posts -> SUBSET Posts]
        /\ life' \in {"up", "draining", "down"} /\ downs' \in 0 .. MaxDowns
        /\ excused \subseteq excused' /\ excused' \subseteq Posts
        /\ StopEnds'
    BY <1>2, <1>3, <1>4, CeasesKeeps
  <1>6. ForumTypeOK'
    BY <1>1, <1>2, <1>5, ForumTypes DEF ForumTypeOK, Stages
  <1>7. site <= site'
    <2>1. site \in 0 .. LastPost
      BY <1>1, ForumTypes
    <2> QED
      BY ONLY <1>2, <2>1, ForumAssumption
  <1> QED
    BY <1>2, <1>5, <1>6, <1>7, ForumMoves

\* What is loaded is what was written.
LEMMA StartKeeps ==
  ASSUME ForumInv, Start
  PROVE  ForumInv'
  <1>1. ForumTypeOK
    BY DEF ForumInv
  <1>2. /\ life' = "up" /\ seen' = seenFile /\ latest' = 0
        /\ marked' = IF marked = {} THEN seenFile ELSE marked
        /\ UNCHANGED <<watch, site, downs, seenFile, stage, line, working, reports, taken, text,
                       begun, excused>>
    BY DEF Start, daemon
  <1>3. site <= site' /\ 0 \in 0 .. LastPost
    <2>1. site \in 0 .. LastPost
      BY <1>1, ForumTypes
    <2> QED
      BY ONLY <1>2, <2>1, ForumAssumption
  <1>4. ForumTypeOK'
    BY <1>1, <1>2, <1>3, ForumTypes DEF ForumTypeOK, Stages
  <1>5. \A p \in Posts : TaskMoves(p)
    BY <1>2 DEF TaskMoves
  <1>6. StopEnds'
    BY <1>2 DEF StopEnds
  <1>7. ASSUME NEW p \in marked' PROVE p \in marked \/ Known(p)'
    <2>1. CASE p \in seenFile
      <3>1. p \in Posts /\ p \in 1 .. p
        BY <1>1, <2>1, ForumTypes, UpToPost
      <3>2. Known(p)
        BY <2>1, <3>1 DEF ForumInv, SightKnown
      <3> QED
        BY <1>2, <3>2 DEF Known
    <2> QED
      BY <1>2, <2>1
  <1> QED
    BY <1>2, <1>3, <1>4, <1>5, <1>6, <1>7, ForumMoves

LEMMA ForumStep == ForumInv /\ [NextForum]_forum => ForumInv'
  <1> SUFFICES ASSUME ForumInv, [NextForum]_forum PROVE ForumInv'
    OBVIOUS
  <1>1. CASE UNCHANGED forum
    <2>1. ForumTypeOK'
      BY <1>1, ForumTypes
         DEF ForumInv, ForumTypeOK, Stages, forum, process, sight, daemon, edits
    <2>2. (TurnOfTask /\ StopEnds)'
      BY <1>1 DEF ForumInv, TurnOfTask, StopEnds, forum, process, sight
    <2>3. SightKnown'
      BY <1>1 DEF ForumInv, SightKnown, Known, forum, sight
    <2> QED
      BY <2>1, <2>2, <2>3 DEF ForumInv
  <1>2. CASE \E p \in Posts :
                TaskStep(p) \/ Breaks(p) \/ Report(p) \/ PollReports(p) \/ Hear(p) \/ GiveUp(p)
    BY <1>2, ForumTaskStep
  <1> QED
    BY <1>1, <1>2, PostAppearsKeeps, ListRoundKeeps, WatchRoundKeeps, ForumTurnEnds, StopKeeps,
       EndKeeps, StartKeeps DEF NextForum

\* Whatever fails and however often the connector ends between its two writes, a post is
\* begun once at most, and one that is known is on its way, was begun or is excused.
THEOREM ForumMentions == ForumSpec => [](ForumTypeOK /\ MentionsHandled)
  <1>1. ForumInv => ForumTypeOK /\ MentionsHandled
    <2> SUFFICES ASSUME ForumInv, NEW p \in Posts
                 PROVE  /\ begun[p] <= 1
                        /\ p \in seen \cup marked /\ begun[p] = 0 => p \in Pending \cup excused
      BY DEF ForumInv, MentionsHandled
    <2>1. begun[p] \in {0, 1}
      BY DEF ForumInv, TurnOfTask
    <2>2. begun[p] <= 1
      BY ONLY <2>1
    <2>3. p \in 1 .. p
      BY UpToPost
    <2>4. p \in seen \cup marked => Known(p)
      BY <2>3 DEF ForumInv, SightKnown
    <2>5. begun[p] = 0 => begun[p] # 1
      BY ONLY <2>1
    <2> QED
      BY <2>2, <2>4, <2>5 DEF Known, Pending
  <1> QED
    BY <1>1, ForumStart, ForumStep, PTL DEF ForumSpec

\* A reply's text only changes while it is the newest that polls.
THEOREM ForumEdits == ForumSpec => NewestEdited
  <1>1. ForumInv /\ [NextForum]_forum => [\A p \in Posts : text'[p] # text[p] => latest = p]_forum
    <2> SUFFICES ASSUME ForumInv, NextForum, NEW p \in Posts, text'[p] # text[p] PROVE latest = p
      OBVIOUS
    <2>1. text' # text
      OBVIOUS
    <2>2. PICK q \in Posts : Hear(q)
      BY <2>1 DEF NextForum, TaskStep, PostAppears, ListRound, WatchRound, FirstRound, RoundEnds,
           Begin, HasRead, Fails, RunTurn, OwnTurnEnds, PostAnswer, Breaks, Report, PollReports,
           GiveUp, TurnEnds, Stop, End, Start, edits
    <2>3. latest = q /\ text' = [text EXCEPT ![q] = text[q] \cup taken[q]]
      BY <2>2 DEF Hear
    <2>4. text \in [Posts -> SUBSET Posts]
      BY ForumTypes DEF ForumInv
    <2> QED
      BY <2>3, <2>4
  <1> QED
    BY <1>1, ForumStart, ForumStep, PTL DEF ForumSpec, NewestEdited

-----------------------------------------------------------------------------
(* Gateway *)

\* Where the result of a user's turn is: nowhere before it is there, then with its
\* handler, and when that is over with the client, kept for it, or at its end.
TurnHeld(t) ==
    /\ call[t] = "none" <=> out[t] = "none"
    /\ call[t] = "waiting" <=> out[t] = "running"
    /\ call[t] = "waiting" => t \in pending
    /\ far[t] \in {"away", "switched"} => call[t] = "none"
    /\ far[t] # "away" => active[ClientOf[t]] \in Sessions
    /\ far[t] = "holds" => call[t] = "over" /\ t \notin ended
    /\ t \in ended => call[t] = "over"
    /\ \A c \in Clients : t \in Elements(kept[c]) =>
        /\ c = ClientOf[t] /\ call[t] = "over" /\ out[t] = "text"
        /\ far[t] # "holds" /\ t \notin ended
    /\ (\A s \in Sessions : t \notin Elements(buffer[s])) /\ t \notin Elements(hand)
    /\ out[t] = "text" /\ call[t] = "over" =>
        far[t] = "holds" \/ t \in ended \/ t \in Elements(kept[ClientOf[t]])

\* Where the result of an injected turn is: in the buffer of its session, in the
\* forwarder's hand, or at its end.
InjectHeld(i) ==
    /\ out[i] = "none" => i \notin ended
    /\ \A c \in Clients : i \notin Elements(kept[c])
    /\ \A s \in Sessions : i \in Elements(buffer[s]) =>
        s = WantOf[i] /\ out[i] = "text" /\ i \notin Elements(hand) /\ i \notin ended
    /\ i \in Elements(hand) => out[i] = "text" /\ i \notin ended
    /\ out[i] = "text" =>
        i \in ended \/ i \in Elements(hand) \/ i \in Elements(buffer[WantOf[i]])

QueuesOnce ==
    /\ \A c \in Clients : Distinct(kept[c])
    /\ \A s \in Sessions : Distinct(buffer[s])
    /\ Distinct(hand)

GatewayInv ==
    /\ TypeOK /\ QueuesOnce
    /\ \A t \in Turns : TurnHeld(t)
    /\ \A i \in Injects : InjectHeld(i)
    /\ hand # <<>> => at \in Sessions

\* Queues.
LEMMA NothingQueued == Elements(<<>>) = {} /\ Distinct(<<>>)
  BY DEF Elements, Distinct

LEMMA QueuedElements ==
  ASSUME NEW S, NEW q \in Seq(S)
  PROVE  Elements(q) \subseteq S /\ (q # <<>> => q[1] \in Elements(q))
  BY DEF Elements

LEMMA TailQueued ==
  ASSUME NEW S, NEW q \in Seq(S), q # <<>>, Distinct(q)
  PROVE  /\ Tail(q) \in Seq(S) /\ Distinct(Tail(q))
         /\ Elements(Tail(q)) = Elements(q) \ {q[1]}
  <1>1. /\ Tail(q) \in Seq(S) /\ Len(Tail(q)) = Len(q) - 1 /\ Len(q) \in Nat \ {0}
        /\ \A i \in 1 .. Len(Tail(q)) : Tail(q)[i] = q[i + 1]
    OBVIOUS
  <1>2. Distinct(Tail(q))
    <2> SUFFICES ASSUME NEW i \in 1 .. Len(Tail(q)), NEW j \in 1 .. Len(Tail(q)),
                        Tail(q)[i] = Tail(q)[j]
                 PROVE  i = j
      BY DEF Distinct
    <2>1. i + 1 \in 1 .. Len(q) /\ j + 1 \in 1 .. Len(q) /\ q[i + 1] = q[j + 1]
      BY <1>1
    <2>2. i + 1 = j + 1
      BY <2>1 DEF Distinct
    <2> QED
      BY ONLY <2>2, <1>1
  <1>3. ASSUME NEW i \in 1 .. Len(Tail(q)) PROVE Tail(q)[i] \in Elements(q) \ {q[1]}
    <2>1. i + 1 \in 1 .. Len(q) /\ 1 \in 1 .. Len(q) /\ i + 1 # 1
      BY <1>1
    <2>2. q[i + 1] # q[1]
      BY <2>1 DEF Distinct
    <2> QED
      BY <1>1, <2>1, <2>2 DEF Elements
  <1>4. ASSUME NEW x \in Elements(q), x # q[1] PROVE x \in Elements(Tail(q))
    <2>1. PICK i \in 1 .. Len(q) : x = q[i]
      BY DEF Elements
    <2>2. i # 1
      BY <1>4, <2>1
    <2>3. i - 1 \in 1 .. Len(Tail(q)) /\ (i - 1) + 1 = i
      BY ONLY <1>1, <2>2, i \in 1 .. Len(q)
    <2>4. Tail(q)[i - 1] = x
      BY <1>1, <2>1, <2>3
    <2> QED
      BY <2>3, <2>4 DEF Elements
  <1>5. Elements(Tail(q)) \subseteq Elements(q) \ {q[1]}
    BY <1>3 DEF Elements
  <1> QED
    BY <1>1, <1>2, <1>4, <1>5

LEMMA AppendQueued ==
  ASSUME NEW S, NEW q \in Seq(S), NEW r \in S, Distinct(q), r \notin Elements(q)
  PROVE  /\ Append(q, r) \in Seq(S) /\ Distinct(Append(q, r))
         /\ Elements(Append(q, r)) = Elements(q) \cup {r}
  <1>1. /\ Append(q, r) \in Seq(S) /\ Len(Append(q, r)) = Len(q) + 1 /\ Len(q) \in Nat
        /\ \A i \in 1 .. Len(q) : Append(q, r)[i] = q[i]
        /\ Append(q, r)[Len(q) + 1] = r
    OBVIOUS
  <1>2. ASSUME NEW i \in 1 .. Len(q) + 1 PROVE i \in 1 .. Len(q) \/ i = Len(q) + 1
    BY <1>1
  <1>3. Distinct(Append(q, r))
    <2> SUFFICES ASSUME NEW i \in 1 .. Len(q) + 1, NEW j \in 1 .. Len(q) + 1,
                        Append(q, r)[i] = Append(q, r)[j]
                 PROVE  i = j
      BY <1>1 DEF Distinct
    <2>1. CASE i \in 1 .. Len(q) /\ j \in 1 .. Len(q)
      BY <1>1, <2>1 DEF Distinct
    <2>2. CASE i \in 1 .. Len(q) /\ j = Len(q) + 1
      BY <1>1, <2>2 DEF Elements
    <2>3. CASE i = Len(q) + 1 /\ j \in 1 .. Len(q)
      BY <1>1, <2>3 DEF Elements
    <2> QED
      BY <1>2, <2>1, <2>2, <2>3
  <1>4. Elements(Append(q, r)) \subseteq Elements(q) \cup {r}
    BY <1>1, <1>2 DEF Elements
  <1>5. ASSUME NEW x \in Elements(q) PROVE x \in Elements(Append(q, r))
    <2>1. PICK i \in 1 .. Len(q) : x = q[i]
      BY DEF Elements
    <2>2. i \in 1 .. Len(Append(q, r)) /\ Append(q, r)[i] = x
      BY <1>1, <2>1
    <2> QED
      BY <2>2 DEF Elements
  <1>6. r \in Elements(Append(q, r))
    <2>1. Len(q) + 1 \in 1 .. Len(Append(q, r))
      BY <1>1
    <2> QED
      BY <1>1, <2>1 DEF Elements
  <1> QED
    BY <1>1, <1>3, <1>4, <1>5, <1>6

\* A result that is pushed is there once, and what falls out was there.
LEMMA PushedQueued ==
  ASSUME NEW S, NEW q \in Seq(S), NEW r \in S, NEW max \in Nat \ {0}, Distinct(q),
         r \notin Elements(q)
  PROVE  /\ Pushed(q, r, max) \in Seq(S) /\ Distinct(Pushed(q, r, max))
         /\ Falls(q, max) \subseteq Elements(q)
         /\ Elements(Pushed(q, r, max)) = (Elements(q) \ Falls(q, max)) \cup {r}
  <1>1. CASE Len(q) < max
    BY <1>1, AppendQueued DEF Pushed, Falls
  <1>2. CASE ~(Len(q) < max)
    <2>1. q # <<>>
      BY <1>2
    <2>2. /\ Tail(q) \in Seq(S) /\ Distinct(Tail(q))
          /\ Elements(Tail(q)) = Elements(q) \ {q[1]} /\ q[1] \in Elements(q)
      BY <2>1, TailQueued, QueuedElements
    <2>3. Pushed(q, r, max) = Append(Tail(q), r) /\ Falls(q, max) = {q[1]}
      BY <1>2 DEF Pushed, Falls
    <2> DEFINE rest == Tail(q)
    <2>4. rest \in Seq(S) /\ Distinct(rest) /\ r \notin Elements(rest)
      BY <2>2
    <2> HIDE DEF rest
    <2>5. /\ Append(rest, r) \in Seq(S) /\ Distinct(Append(rest, r))
          /\ Elements(Append(rest, r)) = Elements(rest) \cup {r}
      BY <2>4, AppendQueued
    <2> QED
      BY <2>2, <2>3, <2>5 DEF rest
  <1> QED
    BY <1>1, <1>2

LEMMA GatewayStart == Init => GatewayInv
  <1> SUFFICES ASSUME Init PROVE GatewayInv
    OBVIOUS
  <1>1. \A s : <<>> \in Seq(s)
    OBVIOUS
  <1>2. TypeOK
    BY <1>1, GatewayAssumption DEF Init, TypeOK
  <1>3. QueuesOnce /\ (hand # <<>> => at \in Sessions)
    BY NothingQueued DEF Init, QueuesOnce
  <1>4. ASSUME NEW t \in Turns PROVE TurnHeld(t)
    BY NothingQueued, GatewayAssumption DEF Init, TurnHeld, Requests
  <1>5. ASSUME NEW i \in Injects PROVE InjectHeld(i)
    BY NothingQueued DEF Init, InjectHeld, Requests
  <1> QED
    BY <1>2, <1>3, <1>4, <1>5 DEF GatewayInv

\* While no queue changes, an injected result stays where it is if its end does.
LEMMA InjectsStay ==
  ASSUME GatewayInv, UNCHANGED <<kept, buffer, hand>>,
         \A i \in Injects : out'[i] = out[i] /\ (i \in ended' <=> i \in ended)
  PROVE  QueuesOnce' /\ \A i \in Injects : InjectHeld(i)'
  <1>1. QueuesOnce'
    BY DEF GatewayInv, QueuesOnce
  <1>2. ASSUME NEW i \in Injects PROVE InjectHeld(i)'
    BY DEF GatewayInv, InjectHeld
  <1> QED
    BY <1>1, <1>2

\* And so does a turn's result that the step is not about.
LEMMA TurnStays ==
  ASSUME GatewayInv, NEW t \in Turns, UNCHANGED <<kept, buffer, hand>>,
         call'[t] = call[t], out'[t] = out[t], far'[t] = far[t],
         t \in pending => t \in pending',
         active[ClientOf[t]] \in Sessions => active'[ClientOf[t]] \in Sessions,
         t \in ended' <=> t \in ended
  PROVE  TurnHeld(t)'
  BY DEF GatewayInv, TurnHeld

\* The parts of the type.
LEMMA GatewayParts ==
  ASSUME GatewayInv
  PROVE  TypeOK /\ QueuesOnce /\ (\A t \in Turns : TurnHeld(t)) /\ \A i \in Injects : InjectHeld(i)
  BY DEF GatewayInv

LEMMA RequestsApart ==
  /\ Turns \subseteq Requests /\ Injects \subseteq Requests
  /\ \A t \in Turns : t \notin Injects
  /\ \A t \in Turns : ClientOf[t] \in Clients /\ WantOf[t] \in Sessions
  /\ \A r \in Requests : WantOf[r] \in Sessions
  BY GatewayAssumption DEF Requests

-----------------------------------------------------------------------------
(* The client's steps *)

LEMMA SwitchKeeps ==
  ASSUME GatewayInv, NEW t \in Turns, Switch(t)
  PROVE  GatewayInv'
  <1>1. TypeOK /\ ClientOf[t] \in Clients /\ WantOf[t] \in Sessions
    BY GatewayParts, RequestsApart
  <1>2. /\ far[t] = "away" /\ far' = [far EXCEPT ![t] = "switched"]
        /\ active' = [active EXCEPT ![ClientOf[t]] = WantOf[t]]
        /\ UNCHANGED <<call, ran, closed, kept, out, pending, subscribed, buffer, watched, todo, at, hand, ended>>
    BY DEF Switch, handlerVars, busVars, forwarderVars
  <1>3. TypeOK'
    BY <1>1, <1>2 DEF TypeOK
  <1>4. \A c \in Clients : active[c] \in Sessions => active'[c] \in Sessions
    BY <1>1, <1>2 DEF TypeOK
  <1>5. TurnHeld(t)'
    <2>1. far'[t] = "switched" /\ active'[ClientOf[t]] \in Sessions
      BY <1>1, <1>2 DEF TypeOK
    <2> QED
      BY <1>2, <2>1 DEF GatewayInv, TurnHeld
  <1>6. ASSUME NEW u \in Turns, u # t PROVE TurnHeld(u)'
    <2>1. far'[u] = far[u]
      BY <1>1, <1>2, <1>6 DEF TypeOK
    <2> QED
      BY <1>2, <1>4, <2>1, RequestsApart, TurnStays
  <1>7. QueuesOnce' /\ \A i \in Injects : InjectHeld(i)'
    BY <1>2, InjectsStay
  <1> QED
    BY <1>2, <1>3, <1>5, <1>6, <1>7 DEF GatewayInv

LEMMA RunKeeps ==
  ASSUME GatewayInv, NEW t \in Turns, Run(t)
  PROVE  GatewayInv'
  <1> DEFINE s == active[ClientOf[t]]
  <1>1. TypeOK /\ t \in Requests
    BY GatewayParts, RequestsApart
  <1>2. /\ far[t] = "switched" /\ far' = [far EXCEPT ![t] = "reading"]
        /\ call' = [call EXCEPT ![t] = "waiting"]
        /\ ran' = [ran EXCEPT ![t] = s] /\ subscribed' = subscribed \cup {s}
        /\ pending' = pending \cup {t} /\ out' = [out EXCEPT ![t] = "running"]
        /\ UNCHANGED <<active, closed, kept, buffer, watched, todo, at, hand, ended>>
    BY DEF Run, forwarderVars
  <1>3. s \in Sessions /\ TurnHeld(t) /\ call[t] = "none" /\ out[t] = "none"
    BY <1>2 DEF GatewayInv, TurnHeld
  <1> HIDE DEF s
  <1>4. TypeOK'
    BY <1>1, <1>2, <1>3 DEF TypeOK
  <1>5. TurnHeld(t)'
    <2>1. far'[t] = "reading" /\ call'[t] = "waiting" /\ out'[t] = "running" /\ t \in pending'
      BY <1>1, <1>2 DEF TypeOK
    <2> QED
      BY <1>2, <1>3, <2>1 DEF TurnHeld
  <1>6. ASSUME NEW u \in Turns, u # t PROVE TurnHeld(u)'
    <2>1. far'[u] = far[u] /\ call'[u] = call[u] /\ out'[u] = out[u]
      BY <1>1, <1>2, <1>6, RequestsApart DEF TypeOK
    <2> QED
      BY <1>2, <2>1, TurnStays
  <1>7. QueuesOnce' /\ \A i \in Injects : InjectHeld(i)'
    <2>1. \A i \in Injects : out'[i] = out[i]
      BY <1>1, <1>2, RequestsApart DEF TypeOK
    <2> QED
      BY <1>2, <2>1, InjectsStay
  <1> QED
    BY <1>2, <1>4, <1>5, <1>6, <1>7 DEF GatewayInv

\* A client that goes or has read holds nothing any more.
LEMMA ClientGoes ==
  ASSUME GatewayInv, NEW t \in Turns, far[t] \in {"reading", "holds"},
         far' = [far EXCEPT ![t] = "gone"],
         ended' = IF far[t] = "holds" THEN ended \cup {t} ELSE ended,
         watched' \subseteq Sessions,
         UNCHANGED <<active, call, ran, closed, kept, out, pending, subscribed, buffer, todo, at, hand>>
  PROVE  GatewayInv'
  <1>1. TypeOK /\ t \in Requests
    BY GatewayParts, RequestsApart
  <1>2. TypeOK'
    BY <1>1 DEF TypeOK
  <1>3. TurnHeld(t)'
    <2>1. far'[t] = "gone" /\ (t \in ended' <=> t \in ended \/ far[t] = "holds")
      BY <1>1 DEF TypeOK
    <2> QED
      BY <2>1 DEF GatewayInv, TurnHeld
  <1>4. ASSUME NEW u \in Turns, u # t PROVE TurnHeld(u)'
    <2>1. far'[u] = far[u] /\ (u \in ended' <=> u \in ended)
      BY <1>1, <1>4 DEF TypeOK
    <2> QED
      BY <2>1, TurnStays
  <1>5. \A i \in Injects : i \in ended' <=> i \in ended
    BY RequestsApart
  <1>6. QueuesOnce' /\ \A i \in Injects : InjectHeld(i)'
    BY <1>5, InjectsStay
  <1> QED
    BY <1>2, <1>3, <1>4, <1>6 DEF GatewayInv

LEMMA LeaveKeeps ==
  ASSUME GatewayInv, NEW t \in Turns, Leave(t) \/ Read(t)
  PROVE  GatewayInv'
  <1>1. watched \subseteq Sessions /\ WantOf[t] \in Sessions
    BY RequestsApart DEF GatewayInv, TypeOK
  <1>2. CASE Leave(t)
    BY <1>1, <1>2, ClientGoes DEF Leave, handlerVars, busVars, forwarderVars
  <1>3. CASE Read(t)
    BY <1>1, <1>3, ClientGoes DEF Read, handlerVars, busVars
  <1> QED
    BY <1>2, <1>3

-----------------------------------------------------------------------------
(* The bus and the handler *)

\* A step of the handler that leaves the queues alone: the turn comes from "waiting" to
\* where its result is, and from there to the client.
LEMMA HandlerGoes ==
  ASSUME GatewayInv, NEW t \in Turns, NEW v \in {"waiting", "resolved", "sending", "over"},
         NEW f \in {"reading", "holds", "gone"}, NEW o \in {"running", "text", "empty"},
         call[t] \notin {"none", "over"}, far[t] = f \/ f = "holds",
         call' = [call EXCEPT ![t] = v], far' = [far EXCEPT ![t] = f], out' = [out EXCEPT ![t] = o],
         v = "waiting" <=> o = "running", v = "over" <=> f = "holds",
         v = "waiting" => t \in pending',
         pending \ {t} \subseteq pending', pending' \subseteq pending,
         closed' \in [Turns -> BOOLEAN],
         UNCHANGED <<active, ran, kept, subscribed, buffer, watched, todo, at, hand, ended>>
  PROVE  GatewayInv'
  <1>1. TypeOK /\ t \in Requests
    BY GatewayParts, RequestsApart
  <1>2. TypeOK'
    BY <1>1 DEF TypeOK
  <1>3. TurnHeld(t)'
    <2>1. far'[t] = f /\ call'[t] = v /\ out'[t] = o
      BY <1>1 DEF TypeOK
    <2>2. TurnHeld(t) /\ t \notin ended /\ \A c \in Clients : t \notin Elements(kept[c])
      BY DEF GatewayInv, TurnHeld
    <2> QED
      BY <2>1, <2>2 DEF TurnHeld
  <1>4. ASSUME NEW u \in Turns, u # t PROVE TurnHeld(u)'
    <2>1. far'[u] = far[u] /\ call'[u] = call[u] /\ out'[u] = out[u]
      BY <1>1, <1>4, RequestsApart DEF TypeOK
    <2> QED
      BY <1>4, <2>1, TurnStays
  <1>5. \A i \in Injects : out'[i] = out[i]
    BY <1>1, RequestsApart DEF TypeOK
  <1>6. QueuesOnce' /\ \A i \in Injects : InjectHeld(i)'
    BY <1>5, InjectsStay
  <1> QED
    BY <1>2, <1>3, <1>4, <1>6 DEF GatewayInv

LEMMA HandlerKeeps ==
  ASSUME GatewayInv, NEW t \in Turns, Answer(t) \/ Notice(t) \/ ResumeWrites(t) \/ Drained(t)
  PROVE  GatewayInv'
  <1>1. /\ call \in [Turns -> {"none", "waiting", "resolved", "sending", "over"}]
        /\ far \in [Turns -> {"away", "switched", "reading", "holds", "gone"}]
        /\ out \in [Requests -> {"none", "running", "text", "empty"}]
        /\ closed \in [Turns -> BOOLEAN] /\ t \in Requests
    BY GatewayParts, RequestsApart DEF TypeOK
  <1>2. TurnHeld(t)
    BY DEF GatewayInv
  <1>3. call[t] \in {"waiting", "resolved", "sending"} => far[t] \in {"reading", "gone"}
    BY <1>1, <1>2 DEF TurnHeld
  <1>4. call[t] \in {"resolved", "sending"} => out[t] \in {"text", "empty"}
    BY <1>1, <1>2 DEF TurnHeld
  <1>5. far = [far EXCEPT ![t] = far[t]] /\ out = [out EXCEPT ![t] = out[t]]
        /\ call = [call EXCEPT ![t] = call[t]]
    BY <1>1
  <1>6. CASE PublishTurn(t)
    <2>1. call[t] = "waiting" /\ t \in pending
      BY <1>2, <1>6 DEF PublishTurn, TurnHeld
    <2>2. UNCHANGED <<buffer, ended>>
      BY <1>6, <2>1 DEF PublishTurn, Listen
    <2>3. /\ call' = [call EXCEPT ![t] = "resolved"] /\ out' = [out EXCEPT ![t] = "text"]
          /\ UNCHANGED <<active, far, ran, closed, kept, pending, subscribed, watched, todo, at, hand>>
      BY <1>6 DEF PublishTurn, clientVars, forwarderVars
    <2> QED
      BY <1>1, <1>3, <1>5, <2>1, <2>2, <2>3, HandlerGoes
  <1>7. CASE PublishEmpty(t)
    <2>1. call[t] = "waiting"
      BY <1>2, <1>7 DEF PublishEmpty, TurnHeld
    <2>2. /\ call' = [call EXCEPT ![t] = "resolved"] /\ out' = [out EXCEPT ![t] = "empty"]
          /\ UNCHANGED <<active, far, ran, closed, kept, pending, subscribed, buffer, watched, todo,
                         at, hand, ended>>
      BY <1>7 DEF PublishEmpty, clientVars, forwarderVars
    <2> QED
      BY <1>1, <1>3, <1>5, <2>1, <2>2, HandlerGoes
  <1>8. CASE Notice(t)
    <2>1. call[t] = "waiting" /\ t \in pending /\ out[t] = "running"
      BY <1>2, <1>8 DEF Notice, TurnHeld
    <2>2. /\ closed' \in [Turns -> BOOLEAN]
          /\ UNCHANGED <<active, far, call, ran, kept, out, pending, subscribed, buffer, watched, todo,
                         at, hand, ended>>
      BY <1>1, <1>8 DEF Notice, clientVars, busVars, forwarderVars
    <2> QED
      BY <1>3, <1>5, <2>1, <2>2, HandlerGoes
  <1>9. CASE ResumeWrites(t)
    <2>1. call[t] = "resolved" /\ far[t] = "reading" /\ pending' = pending \ {t}
          /\ UNCHANGED <<active, ran, closed, kept, out, subscribed, buffer, watched, todo, at, hand, ended>>
      BY <1>9 DEF ResumeWrites, forwarderVars
    <2>2. CASE call' = [call EXCEPT ![t] = "over"] /\ far' = [far EXCEPT ![t] = "holds"]
      BY <1>1, <1>4, <1>5, <2>1, <2>2, HandlerGoes
    <2>3. CASE call' = [call EXCEPT ![t] = "sending"] /\ far' = far
      BY <1>1, <1>4, <1>5, <2>1, <2>3, HandlerGoes
    <2> QED
      BY <1>9, <2>2, <2>3 DEF ResumeWrites
  <1>10. CASE Drained(t)
    <2>1. /\ call[t] = "sending" /\ call' = [call EXCEPT ![t] = "over"]
          /\ far[t] = "reading" /\ far' = [far EXCEPT ![t] = "holds"]
          /\ UNCHANGED <<active, ran, closed, kept, out, pending, subscribed, buffer, watched, todo,
                         at, hand, ended>>
      BY <1>10 DEF Drained, busVars, forwarderVars
    <2> QED
      BY <1>1, <1>4, <1>5, <2>1, HandlerGoes
  <1> QED
    BY <1>6, <1>7, <1>8, <1>9, <1>10 DEF Answer

\* The handler keeps the result of a client that has gone.
LEMMA KeepKeeps ==
  ASSUME GatewayInv, NEW t \in Turns, ResumeClosed(t) \/ ResumeFails(t)
  PROVE  GatewayInv'
  <1> DEFINE c == ClientOf[t]
  <1>1. TypeOK /\ t \in Requests /\ c \in Clients
    BY GatewayParts, RequestsApart
  <1>2. /\ call[t] \in {"resolved", "sending"} /\ call' = [call EXCEPT ![t] = "over"]
        /\ pending' = pending \ {t} /\ Keep(t)
        /\ UNCHANGED <<active, far, ran, out, subscribed, buffer, watched, todo, at, hand>>
    BY DEF ResumeClosed, ResumeFails, clientVars, forwarderVars
  <1>3. closed' \in [Turns -> BOOLEAN]
    BY <1>1 DEF ResumeClosed, ResumeFails, TypeOK
  <1>4. /\ TurnHeld(t) /\ t \notin ended /\ \A d \in Clients : t \notin Elements(kept[d])
        /\ far[t] \notin {"away", "switched", "holds"} /\ out[t] \in {"text", "empty"}
    <2>1. TurnHeld(t)
      BY DEF GatewayInv
    <2> QED
      BY <1>1, <1>2, <2>1 DEF TurnHeld, TypeOK
  <1>5. ASSUME NEW u \in Turns, u # t PROVE call'[u] = call[u] /\ (u \in pending' <=> u \in pending)
    BY <1>1, <1>2, <1>5 DEF TypeOK
  <1>6. call'[t] = "over"
    BY <1>1, <1>2 DEF TypeOK
  <1>7. CASE out[t] # "text"
    <2>1. UNCHANGED <<kept, ended>>
      BY <1>2, <1>7 DEF Keep
    <2>2. TypeOK'
      BY <1>1, <1>2, <1>3, <2>1 DEF TypeOK
    <2>3. TurnHeld(t)'
      BY <1>2, <1>4, <1>6, <1>7, <2>1 DEF TurnHeld
    <2>4. ASSUME NEW u \in Turns, u # t PROVE TurnHeld(u)'
      BY <1>2, <1>5, <2>1, <2>4, TurnStays
    <2>5. QueuesOnce' /\ \A i \in Injects : InjectHeld(i)'
      BY <1>2, <2>1, InjectsStay
    <2> QED
      BY <1>2, <2>2, <2>3, <2>4, <2>5 DEF GatewayInv
  <1>8. CASE out[t] = "text"
    <2> DEFINE q == kept[c]
    <2>1. q \in Seq(Turns) /\ Distinct(q) /\ t \notin Elements(q) /\ MaxKept \in Nat \ {0}
      BY <1>1, <1>4, GatewayParts, GatewayAssumption DEF TypeOK, QueuesOnce
    <2>2. /\ kept' = [kept EXCEPT ![c] = Pushed(q, t, MaxKept)]
          /\ ended' = ended \cup Falls(q, MaxKept)
      BY <1>2, <1>8 DEF Keep
    <2> HIDE DEF q
    <2>3. /\ Pushed(q, t, MaxKept) \in Seq(Turns) /\ Distinct(Pushed(q, t, MaxKept))
          /\ Falls(q, MaxKept) \subseteq Elements(q) /\ Elements(q) \subseteq Turns
          /\ Elements(Pushed(q, t, MaxKept)) = (Elements(q) \ Falls(q, MaxKept)) \cup {t}
      BY <2>1, PushedQueued, QueuedElements
    <2>4. /\ kept'[c] = Pushed(q, t, MaxKept) /\ \A d \in Clients \ {c} : kept'[d] = kept[d]
      BY <1>1, <2>2 DEF TypeOK
    <2>5. /\ t \in Elements(kept'[c]) /\ t \notin ended'
          /\ \A d \in Clients \ {c} : t \notin Elements(kept'[d])
      BY <1>4, <2>1, <2>2, <2>3, <2>4
    <2>6. ASSUME NEW x, x # t
          PROVE  /\ \A d \in Clients : x \in Elements(kept'[d]) =>
                      x \in Elements(kept[d]) /\ (x \in ended' => x \in ended \/ d # c)
                 /\ x \in ended' => x \in ended \/ x \in Elements(kept[c])
                 /\ x \in Elements(kept[c]) => x \in Elements(kept'[c]) \/ x \in ended'
                 /\ \A d \in Clients \ {c} : x \in Elements(kept[d]) => x \in Elements(kept'[d])
                 /\ x \in ended => x \in ended'
      BY <2>2, <2>3, <2>4, <2>6 DEF q
    <2>7. TypeOK'
      <3>1. kept' \in [Clients -> Seq(Turns)]
        BY <1>1, <2>2, <2>3 DEF TypeOK
      <3>2. ended' \subseteq Requests
        BY <1>1, <2>2, <2>3, RequestsApart DEF TypeOK
      <3> QED
        BY <1>1, <1>2, <1>3, <3>1, <3>2 DEF TypeOK
    <2>8. QueuesOnce'
      BY <1>2, <2>3, <2>4, GatewayParts DEF QueuesOnce
    <2>9. TurnHeld(t)'
      <3>1. far'[t] = far[t] /\ out'[t] = "text" /\ active' = active /\ buffer' = buffer
            /\ hand' = hand
        BY <1>2, <1>8
      <3>2. /\ (\A s \in Sessions : t \notin Elements(buffer[s])) /\ t \notin Elements(hand)
            /\ active[c] \in Sessions
        BY <1>4 DEF TurnHeld
      <3> QED
        BY <1>4, <1>6, <2>5, <3>1, <3>2 DEF TurnHeld
    <2>10. ASSUME NEW u \in Turns, u # t PROVE TurnHeld(u)'
      <3>1. TurnHeld(u)
        BY GatewayParts
      <3>2. /\ call'[u] = call[u] /\ (u \in pending' <=> u \in pending) /\ far'[u] = far[u]
            /\ out'[u] = out[u] /\ active' = active /\ buffer' = buffer /\ hand' = hand
        BY <1>2, <1>5, <2>10
      <3>3. ClientOf[u] \in Clients
        BY RequestsApart
      <3>4. u \in ended' => u \in ended \/ (u \in Elements(kept[c]) /\ ClientOf[u] = c)
        BY <1>1, <2>6, <2>10, <3>1 DEF TurnHeld
      <3>5. ASSUME NEW d \in Clients, u \in Elements(kept'[d])
            PROVE  /\ d = ClientOf[u] /\ call[u] = "over" /\ out[u] = "text"
                   /\ far[u] # "holds" /\ u \notin ended'
        <4>1. u \in Elements(kept[d]) /\ (u \in ended' => u \in ended \/ d # c)
          BY <2>6, <2>10, <3>5
        <4> QED
          BY <3>1, <3>4, <4>1 DEF TurnHeld
      <3>6. u \in Elements(kept[ClientOf[u]]) => u \in Elements(kept'[ClientOf[u]]) \/ u \in ended'
        BY <2>6, <2>10, <3>3
      <3>7. u \in ended => u \in ended'
        BY <2>2
      <3>8. u \in ended' => call[u] = "over" /\ far[u] # "holds"
        BY <1>1, <3>1, <3>4 DEF TurnHeld
      <3> QED
        BY <3>1, <3>2, <3>5, <3>6, <3>7, <3>8 DEF TurnHeld
    <2>11. ASSUME NEW i \in Injects PROVE InjectHeld(i)'
      <3>1. i # t /\ InjectHeld(i)
        BY GatewayParts, RequestsApart
      <3>2. (i \in ended' <=> i \in ended) /\ \A d \in Clients : i \notin Elements(kept'[d])
        BY <1>1, <2>6, <3>1 DEF InjectHeld
      <3> QED
        BY <1>2, <3>1, <3>2 DEF InjectHeld
    <2> QED
      BY <1>2, <2>7, <2>8, <2>9, <2>10, <2>11 DEF GatewayInv
  <1> QED
    BY <1>7, <1>8

\* What is fetched has come to its end.
LEMMA FetchKeeps ==
  ASSUME GatewayInv, NEW c \in Clients, Fetch(c)
  PROVE  GatewayInv'
  <1>1. TypeOK /\ QueuesOnce
    BY GatewayParts
  <1>2. /\ kept' = [kept EXCEPT ![c] = <<>>] /\ ended' = ended \cup Elements(kept[c])
        /\ UNCHANGED <<active, far, call, ran, closed, out, pending, subscribed, buffer, watched, todo,
                       at, hand>>
    BY DEF Fetch, clientVars, handlerVars, busVars, forwarderVars
  <1>3. Elements(kept[c]) \subseteq Turns
    BY <1>1, QueuedElements DEF TypeOK
  <1>4. kept'[c] = <<>> /\ \A d \in Clients \ {c} : kept'[d] = kept[d]
    BY <1>1, <1>2 DEF TypeOK
  <1>5. TypeOK'
    <2>1. ended' \subseteq Requests
      BY <1>1, <1>2, <1>3, RequestsApart DEF TypeOK
    <2>2. <<>> \in Seq(Turns)
      OBVIOUS
    <2>3. kept' \in [Clients -> Seq(Turns)]
      BY <1>1, <1>2, <2>2 DEF TypeOK
    <2> QED
      BY <1>1, <1>2, <2>1, <2>3 DEF TypeOK
  <1>6. QueuesOnce'
    BY <1>1, <1>2, <1>4, NothingQueued DEF QueuesOnce
  <1>7. \A d \in Clients, x \in Requests : x \in Elements(kept'[d]) => x \in Elements(kept[d]) /\ d # c
    BY <1>4, NothingQueued
  <1>8. ASSUME NEW u \in Turns PROVE TurnHeld(u)'
    <2>1. TurnHeld(u) /\ u \in Requests /\ ClientOf[u] \in Clients
      BY GatewayParts, RequestsApart
    <2>2. u \in ended' <=> u \in ended \/ u \in Elements(kept[c])
      BY <1>2
    <2>3. u \in Elements(kept[c]) => ClientOf[u] = c /\ call[u] = "over" /\ far[u] # "holds"
      BY <2>1 DEF TurnHeld
    <2>4. ASSUME NEW d \in Clients, u \in Elements(kept'[d])
          PROVE  /\ d = ClientOf[u] /\ call[u] = "over" /\ out[u] = "text"
                 /\ far[u] # "holds" /\ u \notin ended'
      <3>1. u \in Elements(kept[d]) /\ d # c
        BY <1>7, <2>1, <2>4
      <3> QED
        BY <2>1, <2>2, <2>3, <3>1 DEF TurnHeld
    <2>5. u \in Elements(kept[ClientOf[u]]) => u \in Elements(kept'[ClientOf[u]]) \/ u \in ended'
      BY <1>4, <2>1, <2>2
    <2> QED
      BY <1>2, <2>1, <2>2, <2>3, <2>4, <2>5 DEF TurnHeld
  <1>9. ASSUME NEW i \in Injects PROVE InjectHeld(i)'
    <2>1. InjectHeld(i) /\ i \in Requests
      BY GatewayParts, RequestsApart
    <2>2. (i \in ended' <=> i \in ended) /\ \A d \in Clients : i \notin Elements(kept'[d])
      BY <1>2, <1>7, <2>1 DEF InjectHeld
    <2> QED
      BY <1>2, <2>1, <2>2 DEF InjectHeld
  <1> QED
    BY <1>2, <1>5, <1>6, <1>8, <1>9 DEF GatewayInv

-----------------------------------------------------------------------------
(* Injected turns and the forwarder *)

\* The results of users' turns are not in the forwarder's queues.
LEMMA TurnElsewhere ==
  ASSUME GatewayInv, NEW t \in Turns, UNCHANGED <<active, far, call, kept, pending>>,
         out'[t] = out[t], t \in ended' <=> t \in ended,
         \A s \in Sessions : t \notin Elements(buffer'[s]), t \notin Elements(hand')
  PROVE  TurnHeld(t)'
  BY DEF GatewayInv, TurnHeld

LEMMA PublishInjectKeeps ==
  ASSUME GatewayInv, NEW i \in Injects, PublishInject(i)
  PROVE  GatewayInv'
  <1> DEFINE s == WantOf[i]
  <1>1. TypeOK /\ QueuesOnce /\ i \in Requests /\ s \in Sessions /\ i \notin Turns
    BY GatewayParts, RequestsApart
  <1>2. /\ out[i] = "none" /\ out' = [out EXCEPT ![i] = "text"] /\ Listen(i, s)
        /\ UNCHANGED <<active, far, call, ran, closed, kept, pending, subscribed, watched, todo, at, hand>>
    BY DEF PublishInject, clientVars, handlerVars, forwarderVars
  <1>3. InjectHeld(i) /\ i \notin ended /\ i \notin Elements(hand)
        /\ \A x \in Sessions : i \notin Elements(buffer[x])
    BY <1>2, GatewayParts DEF InjectHeld
  <1>4. i \notin pending
    BY <1>1 DEF TypeOK
  <1>5. /\ out'[i] = "text" /\ \A r \in Requests : r # i => out'[r] = out[r]
        /\ out' \in [Requests -> {"none", "running", "text", "empty"}]
    BY <1>1, <1>2 DEF TypeOK
  <1>6. CASE s \notin subscribed
    <2>1. buffer' = buffer /\ ended' = ended \cup {i}
      BY <1>2, <1>4, <1>6 DEF Listen
    <2>2. TypeOK'
      BY <1>1, <1>2, <1>5, <2>1 DEF TypeOK
    <2>3. QueuesOnce'
      BY <1>1, <1>2, <2>1 DEF QueuesOnce
    <2>4. ASSUME NEW t \in Turns PROVE TurnHeld(t)'
      <3>1. t # i /\ t \in Requests /\ TurnHeld(t)
        BY GatewayParts, RequestsApart
      <3>2. (\A x \in Sessions : t \notin Elements(buffer'[x])) /\ t \notin Elements(hand')
        BY <1>2, <2>1, <3>1 DEF TurnHeld
      <3> QED
        BY <1>2, <1>5, <2>1, <3>1, <3>2, TurnElsewhere
    <2>5. ASSUME NEW j \in Injects PROVE InjectHeld(j)'
      <3>1. InjectHeld(j) /\ j \in Requests
        BY GatewayParts, RequestsApart
      <3>2. CASE j = i
        BY <1>2, <1>3, <1>5, <2>1, <3>1, <3>2 DEF InjectHeld
      <3>3. CASE j # i
        BY <1>2, <1>5, <2>1, <3>1, <3>3 DEF InjectHeld
      <3> QED
        BY <3>2, <3>3
    <2> QED
      BY <1>2, <2>2, <2>3, <2>4, <2>5 DEF GatewayInv
  <1>7. CASE s \in subscribed
    <2> DEFINE q == buffer[s]
    <2>1. q \in Seq(Requests) /\ Distinct(q) /\ i \notin Elements(q) /\ MaxPush \in Nat \ {0}
      BY <1>1, <1>3, GatewayAssumption DEF TypeOK, QueuesOnce
    <2>2. /\ buffer' = [buffer EXCEPT ![s] = Pushed(q, i, MaxPush)]
          /\ ended' = ended \cup Falls(q, MaxPush)
      BY <1>2, <1>4, <1>7 DEF Listen
    <2> HIDE DEF q
    <2>3. /\ Pushed(q, i, MaxPush) \in Seq(Requests) /\ Distinct(Pushed(q, i, MaxPush))
          /\ Falls(q, MaxPush) \subseteq Elements(q) /\ Elements(q) \subseteq Requests
          /\ Elements(Pushed(q, i, MaxPush)) = (Elements(q) \ Falls(q, MaxPush)) \cup {i}
      BY <1>1, <2>1, PushedQueued, QueuedElements
    <2>4. /\ buffer'[s] = Pushed(q, i, MaxPush) /\ \A x \in Sessions \ {s} : buffer'[x] = buffer[x]
      BY <1>1, <2>2 DEF TypeOK
    <2>5. /\ i \in Elements(buffer'[s]) /\ i \notin ended'
          /\ \A x \in Sessions \ {s} : i \notin Elements(buffer'[x])
      BY <1>3, <2>1, <2>2, <2>3, <2>4
    <2>6. ASSUME NEW r, r # i
          PROVE  /\ \A x \in Sessions : r \in Elements(buffer'[x]) =>
                      r \in Elements(buffer[x]) /\ (r \in ended' => r \in ended \/ x # s)
                 /\ r \in ended' => r \in ended \/ r \in Elements(buffer[s])
                 /\ r \in Elements(buffer[s]) => r \in Elements(buffer'[s]) \/ r \in ended'
                 /\ \A x \in Sessions \ {s} : r \in Elements(buffer[x]) => r \in Elements(buffer'[x])
                 /\ r \in ended => r \in ended'
      BY <2>2, <2>3, <2>4, <2>6 DEF q
    <2>7. TypeOK'
      <3>1. buffer' \in [Sessions -> Seq(Requests)]
        BY <1>1, <2>2, <2>3 DEF TypeOK
      <3>2. ended' \subseteq Requests
        BY <1>1, <2>2, <2>3 DEF TypeOK
      <3> QED
        BY <1>1, <1>2, <1>5, <3>1, <3>2 DEF TypeOK
    <2>8. QueuesOnce'
      BY <1>1, <1>2, <2>3, <2>4 DEF QueuesOnce
    <2>9. ASSUME NEW t \in Turns PROVE TurnHeld(t)'
      <3>1. t # i /\ t \in Requests /\ TurnHeld(t)
        BY GatewayParts, RequestsApart
      <3>2. /\ \A x \in Sessions : t \notin Elements(buffer[x])
            /\ t \notin Elements(hand')
        BY <1>2, <3>1 DEF TurnHeld
      <3>3. (\A x \in Sessions : t \notin Elements(buffer'[x])) /\ (t \in ended' <=> t \in ended)
        BY <1>1, <2>6, <3>1, <3>2
      <3> QED
        BY <1>2, <1>5, <3>1, <3>2, <3>3, TurnElsewhere
    <2>10. InjectHeld(i)'
      BY <1>2, <1>3, <1>5, <2>5 DEF InjectHeld
    <2>11. ASSUME NEW j \in Injects, j # i PROVE InjectHeld(j)'
      <3>1. InjectHeld(j) /\ j \in Requests /\ WantOf[j] \in Sessions /\ out'[j] = out[j]
        BY <1>5, <2>11, GatewayParts, RequestsApart
      <3>2. j \in ended' => j \in ended \/ (j \in Elements(buffer[s]) /\ WantOf[j] = s)
        BY <1>1, <2>6, <2>11, <3>1 DEF InjectHeld
      <3>3. ASSUME NEW x \in Sessions, j \in Elements(buffer'[x])
            PROVE  x = WantOf[j] /\ out[j] = "text" /\ j \notin Elements(hand) /\ j \notin ended'
        <4>1. j \in Elements(buffer[x]) /\ (j \in ended' => j \in ended \/ x # s)
          BY <2>6, <2>11, <3>3
        <4> QED
          BY <3>1, <3>2, <4>1 DEF InjectHeld
      <3>4. j \in Elements(buffer[WantOf[j]]) => j \in Elements(buffer'[WantOf[j]]) \/ j \in ended'
        BY <2>6, <2>11, <3>1
      <3>5. j \in Elements(hand) => j \notin Elements(buffer[s]) /\ j \notin ended
        BY <1>1, <3>1 DEF InjectHeld
      <3>6. j \in Elements(hand) => j \notin ended'
        BY <2>6, <2>11, <3>5
      <3>7. out[j] = "none" => j \notin ended'
        BY <1>1, <3>1, <3>2 DEF InjectHeld
      <3>8. j \in ended => j \in ended'
        BY <2>2
      <3> QED
        BY <1>2, <3>1, <3>3, <3>4, <3>6, <3>7, <3>8 DEF InjectHeld
    <2> QED
      BY <1>2, <2>7, <2>8, <2>9, <2>10, <2>11 DEF GatewayInv
  <1> QED
    BY <1>6, <1>7

\* A round begins or a registration runs out.
LEMMA RegistryKeeps ==
  ASSUME GatewayInv, RoundBegins \/ \E s \in Sessions : Expires(s)
  PROVE  GatewayInv'
  <1>1. TypeOK
    BY GatewayParts
  <1>2. /\ UNCHANGED <<active, far, call, ran, closed, kept, out, pending, subscribed, buffer, at,
                       hand, ended>>
        /\ watched' \subseteq watched /\ todo' \in {todo, watched}
    BY DEF RoundBegins, Expires, clientVars, handlerVars, busVars
  <1>3. TypeOK'
    BY <1>1, <1>2 DEF TypeOK
  <1>4. \A t \in Turns : TurnHeld(t)'
    BY <1>2, TurnStays
  <1>5. QueuesOnce' /\ \A i \in Injects : InjectHeld(i)'
    BY <1>2, InjectsStay
  <1> QED
    BY <1>2, <1>3, <1>4, <1>5 DEF GatewayInv

\* The forwarder takes a buffer, or it is lost on the way.
LEMMA PollKeeps ==
  ASSUME GatewayInv, NEW s \in Sessions, Poll(s) \/ PollFails(s)
  PROVE  GatewayInv'
  <1>1. TypeOK /\ QueuesOnce
    BY GatewayParts
  <1>2. UNCHANGED <<active, far, call, ran, closed, kept, out, pending, subscribed, watched>>
        /\ hand = <<>>
    BY DEF Poll, PollFails, clientVars, handlerVars
  <1>3. CASE UNCHANGED <<buffer, ended, hand, at>> /\ todo' \subseteq todo
    <2>1. TypeOK'
      BY <1>1, <1>2, <1>3 DEF TypeOK
    <2>2. \A t \in Turns : TurnHeld(t)'
      BY <1>2, <1>3, TurnStays
    <2>3. QueuesOnce' /\ \A i \in Injects : InjectHeld(i)'
      BY <1>2, <1>3, InjectsStay
    <2> QED
      BY <1>3, <2>1, <2>2, <2>3 DEF GatewayInv
  <1>4. CASE /\ buffer' = [buffer EXCEPT ![s] = <<>>] /\ todo' \subseteq todo
             /\ at' \in Sessions \cup {Nothing} /\ (hand' # <<>> => at' \in Sessions)
             /\ \/ hand' = buffer[s] /\ ended' = ended
                \/ hand' = hand /\ ended' = ended \cup Elements(buffer[s])
    <2> DEFINE q == buffer[s]
    <2>1. q \in Seq(Requests) /\ Distinct(q) /\ Elements(q) \subseteq Requests
      BY <1>1, QueuedElements DEF TypeOK, QueuesOnce
    <2>2. /\ buffer'[s] = <<>> /\ \A x \in Sessions \ {s} : buffer'[x] = buffer[x]
      BY <1>1, <1>4 DEF TypeOK
    <2>3. \A x \in Sessions, r \in Requests :
             r \in Elements(buffer'[x]) => r \in Elements(buffer[x]) /\ x # s
      BY <2>2, NothingQueued
    <2>4. \/ Elements(hand') = Elements(q) /\ ended' = ended
          \/ Elements(hand') = {} /\ ended' = ended \cup Elements(q)
      BY <1>2, <1>4, NothingQueued
    <2>5. TypeOK'
      <3>1. <<>> \in Seq(Requests)
        OBVIOUS
      <3>2. buffer' \in [Sessions -> Seq(Requests)]
        BY <1>1, <1>4, <3>1 DEF TypeOK
      <3>3. hand' \in Seq(Requests) /\ ended' \subseteq Requests
        BY <1>1, <1>4, <2>1 DEF TypeOK
      <3> QED
        BY <1>1, <1>2, <1>4, <3>2, <3>3 DEF TypeOK
    <2>6. QueuesOnce'
      BY <1>1, <1>2, <1>4, <2>1, <2>2, NothingQueued DEF QueuesOnce
    <2> HIDE DEF q
    <2>7. ASSUME NEW t \in Turns PROVE TurnHeld(t)'
      <3>1. TurnHeld(t) /\ t \in Requests /\ t \notin Elements(q)
        BY GatewayParts, RequestsApart DEF TurnHeld, q
      <3>2. \A x \in Sessions : t \notin Elements(buffer'[x])
        BY <2>3, <3>1 DEF TurnHeld
      <3>3. t \notin Elements(hand') /\ (t \in ended' <=> t \in ended)
        BY <2>4, <3>1
      <3> QED
        BY <1>2, <3>2, <3>3, TurnElsewhere
    <2>8. ASSUME NEW i \in Injects PROVE InjectHeld(i)'
      <3>1. InjectHeld(i) /\ i \in Requests /\ WantOf[i] \in Sessions
        BY GatewayParts, RequestsApart
      <3>2. i \in Elements(q) => WantOf[i] = s /\ out[i] = "text" /\ i \notin ended
        BY <3>1 DEF InjectHeld, q
      <3>3. i \notin Elements(hand)
        BY <1>2, NothingQueued
      <3>4. ASSUME NEW x \in Sessions, i \in Elements(buffer'[x])
            PROVE  x = WantOf[i] /\ out[i] = "text" /\ i \notin Elements(hand') /\ i \notin ended'
        <4>1. i \in Elements(buffer[x]) /\ x # s
          BY <2>3, <3>1, <3>4
        <4>2. x = WantOf[i] /\ i \notin Elements(q)
          BY <3>1, <3>2, <4>1 DEF InjectHeld
        <4> QED
          BY <2>4, <3>1, <4>1, <4>2 DEF InjectHeld
      <3>5. i \in Elements(buffer[WantOf[i]]) =>
              i \in Elements(buffer'[WantOf[i]]) \/ i \in Elements(hand') \/ i \in ended'
        <4>1. CASE WantOf[i] = s
          BY <2>4, <4>1 DEF q
        <4>2. CASE WantOf[i] # s
          BY <2>2, <3>1, <4>2
        <4> QED
          BY <4>1, <4>2
      <3>6. i \in Elements(hand') => out[i] = "text" /\ i \notin ended'
        BY <2>4, <3>2
      <3>7. out[i] = "none" => i \notin ended'
        BY <2>4, <3>1, <3>2 DEF InjectHeld
      <3>8. i \in ended => i \in ended'
        BY <2>4
      <3> QED
        BY <1>2, <3>1, <3>3, <3>4, <3>5, <3>6, <3>7, <3>8 DEF InjectHeld
    <2> QED
      BY <1>4, <2>5, <2>6, <2>7, <2>8 DEF GatewayInv
  <1>5. todo' \subseteq todo /\ at \in Sessions \cup {Nothing}
    BY <1>1 DEF Poll, PollFails, TypeOK
  <1>6. CASE Poll(s)
    BY <1>2, <1>4, <1>5, <1>6 DEF Poll
  <1>7. CASE PollFails(s)
    <2>1. at' = at /\ hand' = hand
      BY <1>7 DEF PollFails
    <2>2. CASE UNCHANGED <<buffer, ended>>
      BY <1>3, <1>5, <2>1, <2>2
    <2>3. CASE buffer' = [buffer EXCEPT ![s] = <<>>] /\ ended' = ended \cup Elements(buffer[s])
      BY <1>2, <1>4, <1>5, <2>1, <2>3
    <2> QED
      BY <1>7, <2>2, <2>3 DEF PollFails
  <1> QED
    BY <1>6, <1>7

\* The forwarder sends the first result in its hand.
LEMMA SendKeeps ==
  ASSUME GatewayInv, Send
  PROVE  GatewayInv'
  <1>1. TypeOK /\ QueuesOnce /\ at \in Sessions
    BY DEF GatewayInv, Send
  <1>2. /\ hand # <<>> /\ hand' = Tail(hand) /\ ended' = ended \cup {hand[1]}
        /\ at' = IF Len(hand) = 1 THEN Nothing ELSE at
        /\ watched' \in {watched, watched \cup {at}}
        /\ UNCHANGED <<active, far, call, ran, closed, kept, out, pending, subscribed, buffer, todo>>
    BY DEF Send, clientVars, handlerVars, busVars
  <1>3. /\ hand' \in Seq(Requests) /\ Distinct(hand')
        /\ Elements(hand') = Elements(hand) \ {hand[1]}
        /\ hand[1] \in Elements(hand) /\ Elements(hand) \subseteq Requests
    <2>1. hand \in Seq(Requests) /\ Distinct(hand)
      BY <1>1 DEF TypeOK, QueuesOnce
    <2> QED
      BY <1>2, <2>1, TailQueued, QueuedElements
  <1>4. hand' # <<>> => at' \in Sessions
    <2>1. hand \in Seq(Requests)
      BY <1>1 DEF TypeOK
    <2>2. Len(hand) = 1 => Tail(hand) = <<>>
      BY <1>2, <2>1
    <2> QED
      BY <1>1, <1>2, <2>2
  <1>5. TypeOK'
    <2>1. watched' \subseteq Sessions /\ at' \in Sessions \cup {Nothing}
      BY <1>1, <1>2 DEF TypeOK
    <2>2. ended' \subseteq Requests
      BY <1>1, <1>2, <1>3 DEF TypeOK
    <2> QED
      BY <1>1, <1>2, <1>3, <2>1, <2>2 DEF TypeOK
  <1>6. QueuesOnce'
    BY <1>1, <1>2, <1>3 DEF QueuesOnce
  <1>7. ASSUME NEW t \in Turns PROVE TurnHeld(t)'
    <2>1. TurnHeld(t)
      BY GatewayParts
    <2>2. t \notin Elements(hand) /\ \A s \in Sessions : t \notin Elements(buffer'[s])
      BY <1>2, <2>1 DEF TurnHeld
    <2> QED
      BY <1>2, <1>3, <2>2, TurnElsewhere
  <1>8. ASSUME NEW i \in Injects PROVE InjectHeld(i)'
    <2>1. InjectHeld(i)
      BY GatewayParts
    <2> QED
      BY <1>2, <1>3, <2>1 DEF InjectHeld
  <1> QED
    BY <1>4, <1>5, <1>6, <1>7, <1>8 DEF GatewayInv

-----------------------------------------------------------------------------

LEMMA GatewayStep == GatewayInv /\ [Next]_vars => GatewayInv'
  <1> SUFFICES ASSUME GatewayInv, [Next]_vars PROVE GatewayInv'
    OBVIOUS
  <1>1. CASE UNCHANGED vars
    <2>1. UNCHANGED <<active, far, call, ran, closed, kept, out, pending, subscribed, buffer, watched,
                      todo, at, hand, ended>>
      BY <1>1 DEF vars, clientVars, handlerVars, busVars, forwarderVars
    <2>2. TypeOK'
      BY <2>1 DEF GatewayInv, TypeOK
    <2>3. \A t \in Turns : TurnHeld(t)'
      BY <2>1, TurnStays
    <2>4. QueuesOnce' /\ \A i \in Injects : InjectHeld(i)'
      BY <2>1, InjectsStay
    <2> QED
      BY <2>1, <2>2, <2>3, <2>4 DEF GatewayInv
  <1>2. ASSUME NEW t \in Turns,
               Switch(t) \/ Run(t) \/ Leave(t) \/ Read(t) \/ Answer(t) \/ Notice(t) \/ Handler(t)
        PROVE  GatewayInv'
    BY <1>2, SwitchKeeps, RunKeeps, LeaveKeeps, HandlerKeeps, KeepKeeps DEF Handler
  <1> QED
    BY <1>1, <1>2, PublishInjectKeeps, FetchKeeps, RegistryKeeps, PollKeeps, SendKeeps DEF Next

\* A result with something to say is at exactly one place until it is shown or lost where
\* the model says so, whatever the clients, the pages and the forwarder do in between.
THEOREM ResultsHeldOnce == Spec => [](TypeOK /\ HeldOnce)
  <1>1. GatewayInv => TypeOK /\ HeldOnce
    <2> SUFFICES ASSUME GatewayInv PROVE HeldOnce
      BY DEF GatewayInv
    <2>1. ASSUME NEW t \in Turns, out[t] = "text"
          PROVE  \/ t \in ended /\ Places(t) = {}
                 \/ t \notin ended /\ \E p \in Places(t) : Places(t) = {p}
      <3> DEFINE c == ClientOf[t]
      <3>1. /\ TurnHeld(t) /\ c \in Clients
            /\ call[t] \in {"none", "waiting", "resolved", "sending", "over"}
        BY GatewayParts, RequestsApart DEF TypeOK
      <3>2. Places(t) = {p \in {<<"handler", t>>} : call[t] \in {"resolved", "sending"}}
                        \cup {p \in {<<"client", t>>} : far[t] = "holds"}
                        \cup {p \in {<<"kept", c>>} : t \in Elements(kept[c])}
        <4>1. \A s \in Sessions : t \notin Elements(buffer[s])
          BY <3>1 DEF TurnHeld
        <4>2. t \notin Elements(hand)
          BY <3>1 DEF TurnHeld
        <4>3. \A d \in Clients : t \in Elements(kept[d]) => d = c
          BY <3>1 DEF TurnHeld
        <4> HIDE DEF c
        <4> QED
          BY <3>1, <4>1, <4>2, <4>3 DEF Places
      <3>3. call[t] \in {"resolved", "sending", "over"}
        BY <2>1, <3>1 DEF TurnHeld
      <3>4. CASE call[t] \in {"resolved", "sending"}
        <4>1. far[t] # "holds" /\ t \notin Elements(kept[c]) /\ t \notin ended
          BY <3>1, <3>4 DEF TurnHeld
        <4>2. Places(t) = {<<"handler", t>>}
          BY <3>2, <3>4, <4>1
        <4> QED
          BY <4>1, <4>2
      <3>5. CASE call[t] = "over" /\ far[t] = "holds"
        <4>1. t \notin Elements(kept[c]) /\ t \notin ended
          BY <3>1, <3>5 DEF TurnHeld
        <4>2. Places(t) = {<<"client", t>>}
          BY <3>2, <3>5, <4>1
        <4> QED
          BY <4>1, <4>2
      <3>6. CASE call[t] = "over" /\ far[t] # "holds" /\ t \in Elements(kept[c])
        <4>1. t \notin ended
          BY <3>1, <3>6 DEF TurnHeld
        <4>2. Places(t) = {<<"kept", c>>}
          BY <3>2, <3>6
        <4> QED
          BY <4>1, <4>2
      <3>7. CASE call[t] = "over" /\ far[t] # "holds" /\ t \notin Elements(kept[c])
        <4>1. t \in ended
          BY <2>1, <3>1, <3>7 DEF TurnHeld
        <4>2. Places(t) = {}
          BY <3>2, <3>7
        <4> QED
          BY <4>1, <4>2
      <3> QED
        BY <3>3, <3>4, <3>5, <3>6, <3>7
    <2>2. ASSUME NEW i \in Injects, out[i] = "text"
          PROVE  \/ i \in ended /\ Places(i) = {}
                 \/ i \notin ended /\ \E p \in Places(i) : Places(i) = {p}
      <3> DEFINE s == WantOf[i]
      <3>1. InjectHeld(i) /\ s \in Sessions /\ i \notin Turns
        BY GatewayParts, RequestsApart
      <3>2. Places(i) = {p \in {<<"buffer", s>>} : i \in Elements(buffer[s])}
                        \cup {p \in {<<"hand", at>>} : i \in Elements(hand)}
        <4>1. \A d \in Clients : i \notin Elements(kept[d])
          BY <3>1 DEF InjectHeld
        <4>2. \A x \in Sessions : i \in Elements(buffer[x]) => x = s
          BY <3>1 DEF InjectHeld
        <4> HIDE DEF s
        <4> QED
          BY <3>1, <4>1, <4>2 DEF Places
      <3>3. CASE i \in Elements(buffer[s])
        <4>1. i \notin Elements(hand) /\ i \notin ended
          BY <3>1, <3>3 DEF InjectHeld
        <4>2. Places(i) = {<<"buffer", s>>}
          BY <3>2, <3>3, <4>1
        <4> QED
          BY <4>1, <4>2
      <3>4. CASE i \notin Elements(buffer[s]) /\ i \in Elements(hand)
        <4>1. i \notin ended
          BY <3>1, <3>4 DEF InjectHeld
        <4>2. Places(i) = {<<"hand", at>>}
          BY <3>2, <3>4
        <4> QED
          BY <4>1, <4>2
      <3>5. CASE i \notin Elements(buffer[s]) /\ i \notin Elements(hand)
        <4>1. i \in ended
          BY <2>2, <3>1, <3>5 DEF InjectHeld
        <4>2. Places(i) = {}
          BY <3>2, <3>5
        <4> QED
          BY <4>1, <4>2
      <3> QED
        BY <3>3, <3>4, <3>5
    <2>3. Requests = Turns \cup Injects
      BY DEF Requests
    <2> QED
      BY <2>1, <2>2, <2>3, GatewayParts DEF HeldOnce, QueuesOnce
  <1> QED
    BY <1>1, GatewayStart, GatewayStep, PTL DEF Spec
===============================================================================
