---------------------------- MODULE NoticesProofs ----------------------------
(***************************************************************************)
(* Proofs about Notices for any number of wakes, jobs, registrations and   *)
(* cancellations: what is marked as on its way is on its way exactly once  *)
(* (CarriedOnce), and a wake ends by its turn, by the agent's word or with *)
(* its goal (WakesEndRightly).                                             *)
(*                                                                         *)
(* First how often things are in sequences; then what a delivery does to   *)
(* the state, and keeps of what is known; then one lemma per action.       *)
(***************************************************************************)
EXTENDS Notices, FiniteSetTheorems, SequenceTheorems, WellFoundedInduction, TLAPS

-----------------------------------------------------------------------------
(* Counting in sequences *)

\* A set of numbers has a least one.
LEMMA LeastOf ==
  ASSUME NEW T, T \subseteq Nat, T # {}
  PROVE  \E x \in T : \A y \in T : x <= y
  <1>1. PICK x \in T : \A y \in T : ~ (<<y, x>> \in OpToRel(<, Nat))
    BY WFMin, NatLessThanWellFounded
  <1>2. \A y \in T : y \in Nat /\ x \in Nat /\ ~(y < x)
    BY <1>1 DEF OpToRel
  <1> QED
    BY <1>2

At(s, x, n) == {i \in 1 .. n : s[i] = x}

\* The places of x among the first n are finitely many.
LEMMA AtFinite ==
  ASSUME NEW s, NEW x, NEW n \in Nat
  PROVE  IsFiniteSet(At(s, x, n)) /\ Cardinality(At(s, x, n)) \in Nat
  <1>1. IsFiniteSet(1 .. n)
    BY FS_Interval
  <1>2. At(s, x, n) \subseteq 1 .. n
    BY DEF At
  <1> QED
    BY <1>1, <1>2, FS_Subset, FS_CardinalityType

\* A count is a number, and zero for what is nowhere in the sequence.
LEMMA CountIs ==
  ASSUME NEW E, NEW s \in Seq(E), NEW x
  PROVE  /\ Count(s, x) = Cardinality(At(s, x, Len(s))) /\ Count(s, x) \in Nat
         /\ Count(s, x) = 0 <=> \A i \in 1 .. Len(s) : s[i] # x
  <1>1. Count(s, x) = Cardinality(At(s, x, Len(s)))
    BY DEF Count, At
  <1>2. Len(s) \in Nat
    OBVIOUS
  <1>3. IsFiniteSet(At(s, x, Len(s))) /\ Cardinality(At(s, x, Len(s))) \in Nat
    BY <1>2, AtFinite
  <1>4. Cardinality(At(s, x, Len(s))) = 0 <=> At(s, x, Len(s)) = {}
    BY <1>3, FS_EmptySet
  <1>5. At(s, x, Len(s)) = {} <=> \A i \in 1 .. Len(s) : s[i] # x
    BY DEF At
  <1> QED
    BY <1>1, <1>3, <1>4, <1>5

\* One place more.
LEMMA AtNext ==
  ASSUME NEW s, NEW x, NEW n \in Nat
  PROVE  Cardinality(At(s, x, n + 1)) = Cardinality(At(s, x, n)) + IF s[n + 1] = x THEN 1 ELSE 0
  <1>0. n + 1 \notin At(s, x, n)
    BY DEF At
  <1>1. IsFiniteSet(At(s, x, n)) /\ n + 1 \notin At(s, x, n)
    BY <1>0, AtFinite
  <1>2. CASE s[n + 1] = x
    <2>1. At(s, x, n + 1) = At(s, x, n) \cup {n + 1}
      BY <1>2 DEF At
    <2> QED
      BY <1>1, <1>2, <2>1, FS_AddElement
  <1>3. CASE s[n + 1] # x
    <2>1. At(s, x, n + 1) = At(s, x, n)
      BY <1>3 DEF At
    <2>2. Cardinality(At(s, x, n)) \in Nat
      BY AtFinite
    <2> QED
      BY <1>3, <2>1, <2>2
  <1> QED
    BY <1>2, <1>3

\* What the operations on sequences do to a count.
LEMMA CountNothing == \A x : Count(<<>>, x) = 0
  <1> TAKE x
  <1>1. {i \in 1 .. Len(<<>>) : <<>>[i] = x} = {}
    OBVIOUS
  <1> QED
    BY <1>1, FS_EmptySet DEF Count

LEMMA CountAppend ==
  ASSUME NEW E, NEW s \in Seq(E), NEW e \in E, NEW x
  PROVE  Count(Append(s, e), x) = Count(s, x) + IF e = x THEN 1 ELSE 0
  <1> DEFINE t == Append(s, e)
  <1>1. t \in Seq(E) /\ Len(t) = Len(s) + 1 /\ Len(s) \in Nat
    OBVIOUS
  <1>2. t[Len(s) + 1] = e /\ \A i \in 1 .. Len(s) : t[i] = s[i]
    OBVIOUS
  <1>3. At(t, x, Len(s)) = At(s, x, Len(s))
    BY <1>2 DEF At
  <1>4. Count(t, x) = Cardinality(At(t, x, Len(s) + 1)) /\ Count(s, x) = Cardinality(At(s, x, Len(s)))
    BY <1>1, CountIs
  <1> HIDE DEF t
  <1>5. Cardinality(At(t, x, Len(s) + 1)) = Cardinality(At(t, x, Len(s))) + IF t[Len(s) + 1] = x THEN 1 ELSE 0
    BY <1>1, AtNext
  <1>6. Count(t, x) = Count(s, x) + IF e = x THEN 1 ELSE 0
    BY <1>2, <1>3, <1>4, <1>5
  <1> QED
    BY <1>6 DEF t

LEMMA CountConcat ==
  ASSUME NEW E, NEW s \in Seq(E), NEW t \in Seq(E), NEW x
  PROVE  s \o t \in Seq(E) /\ Count(s \o t, x) = Count(s, x) + Count(t, x)
  <1> DEFINE u == s \o t
             m == Len(s)
             Sum(n) == Cardinality(At(u, x, m + n)) = Count(s, x) + Cardinality(At(t, x, n))
  <1>1. /\ u \in Seq(E) /\ Len(u) = m + Len(t) /\ m \in Nat /\ Len(t) \in Nat
        /\ \A i \in 1 .. m : u[i] = s[i]
        /\ \A i \in 1 .. Len(t) : u[m + i] = t[i]
    OBVIOUS
  <1>2. Count(u, x) = Cardinality(At(u, x, m + Len(t))) /\ Count(t, x) = Cardinality(At(t, x, Len(t)))
        /\ Count(s, x) = Cardinality(At(s, x, m)) /\ Count(s, x) \in Nat
    BY <1>1, CountIs
  <1> HIDE DEF u, m
  <1>3. Sum(0)
    <2>1. At(u, x, m) = At(s, x, m) /\ At(t, x, 0) = {}
      BY <1>1 DEF At
    <2>2. Cardinality({}) = 0
      BY FS_EmptySet
    <2>3. m + 0 = m /\ Count(s, x) + 0 = Count(s, x)
      BY <1>1, <1>2
    <2> QED
      BY <1>2, <2>1, <2>2, <2>3
  <1>4. ASSUME NEW n \in 0 .. Len(t) - 1, Sum(n) PROVE Sum(n + 1)
    <2>1. /\ Cardinality(At(u, x, m + n + 1)) = Cardinality(At(u, x, m + n)) + IF u[m + n + 1] = x THEN 1 ELSE 0
          /\ Cardinality(At(t, x, n + 1)) = Cardinality(At(t, x, n)) + IF t[n + 1] = x THEN 1 ELSE 0
      <3>1. m + n \in Nat /\ n \in Nat
        BY <1>1
      <3> QED
        BY <3>1, AtNext
    <2>2. u[m + n + 1] = t[n + 1] /\ m + (n + 1) = m + n + 1
      <3>1. n + 1 \in 1 .. Len(t) /\ m + (n + 1) = m + n + 1
        BY <1>1
      <3> QED
        BY <1>1, <3>1
    <2>3. Cardinality(At(u, x, m + n)) \in Nat /\ Cardinality(At(t, x, n)) \in Nat
      <3>1. m + n \in Nat /\ n \in Nat
        BY <1>1
      <3> QED
        BY <3>1, AtFinite
    <2> QED
      BY <1>2, <1>4, <2>1, <2>2, <2>3
  <1>5. \A n \in 0 .. Len(t) : Sum(n)
    <2> SUFFICES ASSUME \E n \in 0 .. Len(t) : ~Sum(n) PROVE FALSE
      OBVIOUS
    <2> DEFINE T == {n \in 0 .. Len(t) : ~Sum(n)}
    <2> HIDE DEF Sum
    <2>0. T \subseteq Nat /\ T # {}
      BY <1>1
    <2>1. PICK n \in T : \A k \in T : n <= k
      BY <2>0, LeastOf
    <2>2. n # 0
      BY <1>3, <2>1
    <2>3. n - 1 \in 0 .. Len(t) - 1 /\ n - 1 \in 0 .. Len(t) /\ (n - 1) + 1 = n /\ ~(n <= n - 1)
      BY <1>1, <2>1, <2>2
    <2>4. Sum(n - 1)
      BY <2>1, <2>3
    <2>5. Sum((n - 1) + 1)
      BY <1>4, <2>3, <2>4
    <2> QED
      BY <2>1, <2>3, <2>5
  <1>6. Sum(Len(t))
    BY <1>1, <1>5
  <1>7. Count(u, x) = Count(s, x) + Count(t, x)
    BY <1>2, <1>6
  <1> QED
    BY <1>1, <1>7 DEF u

LEMMA CountCut ==
  ASSUME NEW E, NEW s \in Seq(E), NEW k \in 0 .. Len(s), NEW x
  PROVE  /\ SubSeq(s, 1, k) \in Seq(E) /\ SubSeq(s, k + 1, Len(s)) \in Seq(E)
         /\ Len(SubSeq(s, 1, k)) = k
         /\ Count(s, x) = Count(SubSeq(s, 1, k), x) + Count(SubSeq(s, k + 1, Len(s)), x)
  <1>1. SubSeq(s, 1, k) \in Seq(E) /\ SubSeq(s, k + 1, Len(s)) \in Seq(E) /\ Len(SubSeq(s, 1, k)) = k
    OBVIOUS
  <1>2. SubSeq(s, 1, k) \o SubSeq(s, k + 1, Len(s)) = SubSeq(s, 1, Len(s))
    <2>1. 1 \in 1 .. Len(s) + 1 /\ k \in (1 - 1) .. Len(s) /\ Len(s) \in k .. Len(s)
      OBVIOUS
    <2> QED
      BY <2>1, ConcatAdjacentSubSeq
  <1>3. SubSeq(s, 1, Len(s)) = s
    BY SubSeqFull
  <1>4. \A a, b \in Seq(E) : Count(a \o b, x) = Count(a, x) + Count(b, x)
    BY CountConcat
  <1> QED
    BY <1>1, <1>2, <1>3, <1>4

LEMMA CountOne ==
  ASSUME NEW E, NEW e \in E, NEW x
  PROVE  <<e>> \in Seq(E) /\ Count(<<e>>, x) = IF e = x THEN 1 ELSE 0
  <1>1. <<e>> = Append(<<>>, e) /\ <<>> \in Seq(E) /\ <<e>> \in Seq(E)
    OBVIOUS
  <1>2. \A s \in Seq(E) : Count(Append(s, e), x) = Count(s, x) + IF e = x THEN 1 ELSE 0
    BY CountAppend
  <1>3. Count(<<>>, x) = 0
    BY CountNothing
  <1>4. Count(<<e>>, x) = 0 + IF e = x THEN 1 ELSE 0
    BY <1>1, <1>2, <1>3, Zenon
  <1> QED
    BY <1>1, <1>4

LEMMA CountTail ==
  ASSUME NEW E, NEW s \in Seq(E), s # <<>>, NEW x
  PROVE  /\ Tail(s) \in Seq(E) /\ Head(s) \in E
         /\ Count(s, x) = Count(Tail(s), x) + IF Head(s) = x THEN 1 ELSE 0
  <1>1. s = <<Head(s)>> \o Tail(s) /\ Head(s) \in E /\ Tail(s) \in Seq(E) /\ <<Head(s)>> \in Seq(E)
    OBVIOUS
  <1>2. Count(<<Head(s)>>, x) = IF Head(s) = x THEN 1 ELSE 0
    BY <1>1, CountOne
  <1>3. \A a, b \in Seq(E) : Count(a \o b, x) = Count(a, x) + Count(b, x)
    BY CountConcat
  <1>4. Count(Tail(s), x) \in Nat
    BY <1>1, CountIs
  <1>5. Count(s, x) = Count(<<Head(s)>> \o Tail(s), x)
    BY <1>1, Zenon
  <1>6. Count(<<Head(s)>> \o Tail(s), x) = Count(<<Head(s)>>, x) + Count(Tail(s), x)
    BY <1>1, <1>3, Zenon
  <1>7. Count(s, x) = (IF Head(s) = x THEN 1 ELSE 0) + Count(Tail(s), x)
    BY <1>2, <1>5, <1>6, Zenon
  <1> QED
    BY <1>1, <1>4, <1>7

\* A sequence without repetitions.
LEMMA CountDistinct ==
  ASSUME NEW E, NEW s \in Seq(E), \A i, j \in 1 .. Len(s) : i # j => s[i] # s[j], NEW x
  PROVE  Count(s, x) <= 1
  <1>1. CASE At(s, x, Len(s)) = {}
    <2>1. Count(s, x) = 0
      BY <1>1, CountIs, FS_EmptySet
    <2> QED
      BY <2>1
  <1>2. CASE At(s, x, Len(s)) # {}
    <2>1. PICK i \in At(s, x, Len(s)) : TRUE
      BY <1>2
    <2>2. At(s, x, Len(s)) = {i}
      BY <2>1 DEF At
    <2>3. Cardinality({i}) = 1
      BY FS_Singleton
    <2>4. Count(s, x) = Cardinality(At(s, x, Len(s)))
      BY CountIs, Zenon
    <2>5. Count(s, x) = 1
      BY <2>2, <2>3, <2>4, Zenon
    <2> QED
      BY <2>5
  <1> QED
    BY <1>1, <1>2

\* Only: the recursion has its value, and keeps the members of S, each as often as it is
\* there.
Keeps(kept, s, S) ==
    kept = [n \in 0 .. Len(s) |->
              IF n = 0 THEN <<>>
              ELSE IF s[n] \in S THEN Append(kept[n - 1], s[n]) ELSE kept[n - 1]]

\* Only is what its recursive function says it is, for every sequence.
LEMMA OnlyKeeps ==
  ASSUME NEW E, NEW s \in Seq(E), NEW S
  PROVE  \E kept : Keeps(kept, s, S) /\ Only(s, S) = kept[Len(s)]
  <1> DEFINE Next1(t, n) == IF s[n] \in S THEN Append(t, s[n]) ELSE t
             Begins(f, n) == /\ f \in [0 .. n -> Seq(E)] /\ f[0] = <<>>
                             /\ \A k \in 1 .. n : f[k] = Next1(f[k - 1], k)
             Has(n) == \E f : Begins(f, n)
  <1>1. Len(s) \in Nat /\ \A n \in 1 .. Len(s) : s[n] \in E
    OBVIOUS
  <1>2. Has(0)
    <2> DEFINE f == [k \in 0 .. 0 |-> <<>>]
    <2>1. Begins(f, 0)
      OBVIOUS
    <2> QED
      BY <2>1
  <1>3. ASSUME NEW n \in 0 .. Len(s) - 1, Has(n) PROVE Has(n + 1)
    <2>1. PICK f : Begins(f, n)
      BY <1>3
    <2> DEFINE g == [k \in 0 .. n + 1 |-> IF k = n + 1 THEN Next1(f[n], n + 1) ELSE f[k]]
    <2>2. f[n] \in Seq(E) /\ s[n + 1] \in E
      BY <1>1, <2>1
    <2>3. Next1(f[n], n + 1) \in Seq(E)
      BY <2>2
    <2>4. g \in [0 .. n + 1 -> Seq(E)]
      BY <2>1, <2>3
    <2>5. g[0] = <<>>
      BY <2>1
    <2>6. ASSUME NEW k \in 1 .. n + 1 PROVE g[k] = Next1(g[k - 1], k)
      <3>1. k - 1 \in 0 .. n /\ g[k - 1] = f[k - 1]
        BY <2>1
      <3>2. CASE k = n + 1
        BY <3>1, <3>2
      <3>3. CASE k # n + 1
        <4>1. k \in 1 .. n
          BY <3>3
        <4>2. f[k] = Next1(f[k - 1], k) /\ g[k] = f[k]
          BY <2>1, <4>1
        <4> QED
          BY <3>1, <4>2
      <3> QED
        BY <3>2, <3>3
    <2>7. Begins(g, n + 1)
      BY <2>4, <2>5, <2>6
    <2> QED
      BY <2>7
  <1>4. \A n \in 0 .. Len(s) : Has(n)
    <2> SUFFICES ASSUME \E n \in 0 .. Len(s) : ~Has(n) PROVE FALSE
      OBVIOUS
    <2> DEFINE T == {n \in 0 .. Len(s) : ~Has(n)}
    <2> HIDE DEF Has
    <2>1. T \subseteq Nat /\ T # {}
      BY <1>1
    <2>2. PICK n \in T : \A k \in T : n <= k
      BY <2>1, LeastOf
    <2>3. n # 0
      BY <1>2, <2>2
    <2>4. n - 1 \in 0 .. Len(s) - 1 /\ n - 1 \in 0 .. Len(s) /\ (n - 1) + 1 = n /\ ~(n <= n - 1)
      BY <1>1, <2>2, <2>3
    <2>5. Has(n - 1)
      BY <2>2, <2>4
    <2>6. Has((n - 1) + 1)
      BY <1>3, <2>4, <2>5
    <2> QED
      BY <2>2, <2>4, <2>6
  <1>5. PICK f : Begins(f, Len(s))
    <2> HIDE DEF Begins
    <2>1. Len(s) \in 0 .. Len(s)
      BY <1>1
    <2> QED
      BY <1>4, <2>1
  <1>6. Keeps(f, s, S)
    <2>1. \A n \in 0 .. Len(s) : f[n] = IF n = 0 THEN <<>> ELSE Next1(f[n - 1], n)
      <3> SUFFICES ASSUME NEW n \in 0 .. Len(s)
                   PROVE  f[n] = IF n = 0 THEN <<>> ELSE Next1(f[n - 1], n)
        OBVIOUS
      <3>1. n = 0 \/ n \in 1 .. Len(s)
        BY <1>1
      <3>2. f[0] = <<>> /\ \A k \in 1 .. Len(s) : f[k] = Next1(f[k - 1], k)
        BY <1>5
      <3> HIDE DEF Next1
      <3>3. CASE n = 0
        BY <3>2, <3>3
      <3>4. CASE n \in 1 .. Len(s)
        <4>1. n # 0
          BY <1>1, <3>4
        <4> QED
          BY <3>2, <3>4, <4>1
      <3> QED
        BY <3>1, <3>3, <3>4
    <2>2. f = [n \in 0 .. Len(s) |-> f[n]]
      BY <1>5
    <2> QED
      BY <2>1, <2>2 DEF Keeps
  <1> DEFINE c == CHOOSE kept : Keeps(kept, s, S)
  <1>7. Keeps(c, s, S)
    BY <1>6
  <1>8. Only(s, S) = c[Len(s)]
    BY DEF Only, Keeps
  <1> QED
    BY <1>7, <1>8

\* Only loses what is not in S, and nothing else.
LEMMA OnlyCount ==
  ASSUME NEW E, NEW s \in Seq(E), NEW S, NEW x
  PROVE  /\ Only(s, S) \in Seq(E) /\ Only(s, S) \in Seq(S)
         /\ Count(Only(s, S), x) = IF x \in S THEN Count(s, x) ELSE 0
  <1>1. PICK kept : Keeps(kept, s, S) /\ Only(s, S) = kept[Len(s)]
    BY OnlyKeeps
  <1> DEFINE Good(n) == /\ kept[n] \in Seq(E) /\ kept[n] \in Seq(S)
                        /\ Count(kept[n], x) = IF x \in S THEN Cardinality(At(s, x, n)) ELSE 0
  <1>2. Len(s) \in Nat /\ \A n \in 1 .. Len(s) : s[n] \in E
    OBVIOUS
  <1>3. /\ kept[0] = <<>>
        /\ \A n \in 1 .. Len(s) :
              kept[n] = IF s[n] \in S THEN Append(kept[n - 1], s[n]) ELSE kept[n - 1]
    <2>1. \A n \in 0 .. Len(s) :
             kept[n] = IF n = 0 THEN <<>>
                       ELSE IF s[n] \in S THEN Append(kept[n - 1], s[n]) ELSE kept[n - 1]
      BY <1>1, Zenon DEF Keeps
    <2>2. 0 \in 0 .. Len(s) /\ \A n \in 1 .. Len(s) : n \in 0 .. Len(s) /\ n # 0
      BY <1>2
    <2>3. kept[0] = <<>>
      BY <2>1, <2>2, Zenon
    <2>4. ASSUME NEW n \in 1 .. Len(s)
          PROVE  kept[n] = IF s[n] \in S THEN Append(kept[n - 1], s[n]) ELSE kept[n - 1]
      BY <2>1, <2>2, Zenon
    <2> QED
      BY <2>3, <2>4
  <1>4. Good(0)
    <2>1. At(s, x, 0) = {}
      BY DEF At
    <2>2. Cardinality(At(s, x, 0)) = 0
      BY <2>1, FS_EmptySet
    <2>3. Count(kept[0], x) = 0
      BY <1>3, CountNothing
    <2> QED
      BY <1>3, <2>2, <2>3
  <1>5. ASSUME NEW n \in 0 .. Len(s) - 1, Good(n) PROVE Good(n + 1)
    <2>0. n \in Nat /\ n + 1 \in 1 .. Len(s) /\ (n + 1) - 1 = n /\ s[n + 1] \in E
      BY <1>2
    <2>1. Cardinality(At(s, x, n + 1)) = Cardinality(At(s, x, n)) + IF s[n + 1] = x THEN 1 ELSE 0
      BY <2>0, AtNext
    <2>2. kept[n + 1] = IF s[n + 1] \in S THEN Append(kept[n], s[n + 1]) ELSE kept[n]
      BY <1>3, <2>0
    <2>3. Cardinality(At(s, x, n)) \in Nat
      BY <2>0, AtFinite
    <2>4. CASE s[n + 1] \in S
      <3>1. Count(Append(kept[n], s[n + 1]), x) = Count(kept[n], x) + IF s[n + 1] = x THEN 1 ELSE 0
        BY <1>5, <2>0, CountAppend
      <3> QED
        BY <1>5, <2>0, <2>1, <2>2, <2>3, <2>4, <3>1
    <2>5. CASE s[n + 1] \notin S
      BY <1>5, <2>0, <2>1, <2>2, <2>3, <2>5
    <2> QED
      BY <2>4, <2>5
  <1>6. \A n \in 0 .. Len(s) : Good(n)
    <2> SUFFICES ASSUME \E n \in 0 .. Len(s) : ~Good(n) PROVE FALSE
      OBVIOUS
    <2> DEFINE T == {n \in 0 .. Len(s) : ~Good(n)}
    <2> HIDE DEF Good
    <2>1. T \subseteq Nat /\ T # {}
      BY <1>2
    <2>2. PICK n \in T : \A k \in T : n <= k
      BY <2>1, LeastOf
    <2>3. n # 0
      BY <1>4, <2>2
    <2>4. n - 1 \in 0 .. Len(s) - 1 /\ n - 1 \in 0 .. Len(s) /\ (n - 1) + 1 = n /\ ~(n <= n - 1)
      BY <1>2, <2>2, <2>3
    <2>5. Good(n - 1)
      BY <2>2, <2>4
    <2>6. Good((n - 1) + 1)
      BY <1>5, <2>4, <2>5
    <2> QED
      BY <2>2, <2>4, <2>6
  <1>7. Good(Len(s))
    BY <1>2, <1>6
  <1>8. Count(s, x) = Cardinality(At(s, x, Len(s)))
    BY CountIs
  <1> QED
    BY <1>1, <1>7, <1>8

-----------------------------------------------------------------------------
(* The inductive invariant.  It speaks of the state as actions thread it      *)
(* through a delivery (x), and of the tasks that carry requests (sp, li).     *)

UnderWay(x, sp, li, request) ==
    Count(x.heldWakes, request) + Count(x.heldNotes, request) + Count(x.queue, request)
    + Count(Asked(sp), request) + Count(Asked(li), request)

Fates == {"open", "heard", "cancelled", "lapsed", "dropped"}
Entries == [id : WakeIds, fate : Fates]
States == [wakes : [WakeIds -> {Nothing} \cup [reg : Regs, due : BOOLEAN, staged : BOOLEAN]],
           heldWakes : Seq(WakeRequests(WakeIds)),
           rec : [Jobs -> {"tracked", "staged", "notified"}], tracked : SUBSET Jobs,
           heldNotes : Seq(JobRequests(Jobs)), queue : Seq(Requests), log : Seq(Entries)]

\* An entry of the registry is that of its registration, a request on its way that of
\* one; as long as an id is used once, an entry that is marked is due and has its request
\* on the way, or lost it.
Again(entries, r) == \E q \in 1 .. Len(entries) : q # r /\ entries[q].id = entries[r].id
Right(entry, fate, n) ==
    /\ fate \in {"open", "dropped"}
    /\ fate = "dropped" => entry.staged
    /\ entry.staged => entry.due
    /\ n = IF entry.staged /\ fate # "dropped" THEN 1 ELSE 0
WakesKnown(x, sp, li) ==
    /\ \A w \in WakeIds : x.wakes[w] # Nothing =>
          x.wakes[w].reg \in 1 .. Len(x.log) /\ x.log[x.wakes[w].reg].id = w
    /\ \A w \in WakeIds, r \in Regs : UnderWay(x, sp, li, WakeRequest(w, r)) # 0 =>
          r \in 1 .. Len(x.log) /\ x.log[r].id = w
    /\ \A w \in WakeIds : x.wakes[w] # Nothing /\ ~Again(x.log, x.wakes[w].reg) =>
          Right(x.wakes[w], x.log[x.wakes[w].reg].fate,
                UnderWay(x, sp, li, WakeRequest(w, x.wakes[w].reg)))

\* A job that was not started is nowhere; one in the watcher's hand (visits, notes) is
\* there once, and was not delivered; the notice of one that is tracked is held back if
\* its record is marked, and one that is not tracked any more has its notice on the way,
\* unless it was stopped.
JobRight(record, known, stood, heard, visits, notes, held, ways) ==
    /\ stood = "none" => /\ ~known /\ record = "tracked" /\ heard = "open"
                         /\ ways = 0 /\ visits = 0 /\ notes = 0
    /\ visits + notes <= 1
    /\ notes # 0 => record = "tracked"
    /\ visits + notes # 0 /\ record = "tracked" => ways = 0
    /\ ways <= 1 /\ held <= ways
    /\ stood # "none" /\ ~known /\ heard = "open" => ways = 1
    /\ known => held = ways /\ (record = "staged" <=> ways = 1)
JobsKnown(x, sp, li, stood, heard, visits, notes) == \A j \in Jobs :
    JobRight(x.rec[j], j \in x.tracked, stood[j], heard[j], Count(visits, j), Count(notes, j),
             Count(x.heldNotes, JobRequest(j)), UnderWay(x, sp, li, JobRequest(j)))

\* The jobs the watcher has still to visit.
Visits == IF watcher = Nothing THEN <<>> ELSE watcher

\* What is held back waits for the end of a turn; the watcher awaits the answer about a
\* job that was tracked when it asked.
HeldKnown ==
    /\ (heldWakes # <<>> \/ heldNotes # <<>>) => Busy
    /\ watcher # Nothing => watcher # <<>> /\ rec[Head(watcher)] = "tracked"

\* A job that was not started has no process, and is not being stopped.
StartedKnown ==
    /\ \A j \in Jobs : status[j] = "none" => proc[j] = "none"
    /\ stopping # Nothing => status[stopping] # "none"

\* What concerns one record, and the types of the other variables.
Kept(x, sp, li, stood, heard, visits, notes) ==
    /\ x \in States /\ sp \in Seq(Tasks) /\ li \in Seq(Tasks)
    /\ visits \in Seq(Jobs) /\ notes \in Seq(Jobs)
    /\ WakesKnown(x, sp, li) /\ JobsKnown(x, sp, li, stood, heard, visits, notes)

OtherTypes ==
    /\ status \in [Jobs -> {"none", "running", "ended", "cancelled", "lost"}]
    /\ proc \in [Jobs -> {"none", "alive", "ended"}]
    /\ goalOpen \in BOOLEAN /\ marked \in BOOLEAN
    /\ stopping \in Jobs \cup {Nothing}
    /\ watcher = Nothing \/ watcher \in Seq(Jobs)
    /\ Len(log) <= MaxRegs
    /\ told \in [Jobs -> {"open", "stopped", "dropped", "heard"}]
    /\ users \in 0 .. MaxUsers /\ cancels \in 0 .. MaxCancels

Known == Kept(Now, spawned, line, status, told, Visits, found)

NoticesInv ==
    /\ Known
    /\ OtherTypes /\ HeldKnown /\ StartedKnown

\* What is not of a sequence's type is not in it.
LEMMA CountStrange ==
  ASSUME NEW A, NEW s \in Seq(A), NEW x, x \notin A
  PROVE  Count(s, x) = 0
  <1>1. \A i \in 1 .. Len(s) : s[i] \in A
    OBVIOUS
  <1> QED
    BY <1>1, CountIs

\* To be in a sequence is to be counted.
LEMMA InSet ==
  ASSUME NEW A, NEW s \in Seq(A)
  PROVE  ToSet(s) \subseteq A /\ \A e : e \in ToSet(s) <=> Count(s, e) # 0
  <1>1. \A i \in 1 .. Len(s) : s[i] \in A
    OBVIOUS
  <1>2. DOMAIN s = 1 .. Len(s)
    OBVIOUS
  <1>3. \A e : Count(s, e) = 0 <=> \A i \in 1 .. Len(s) : s[i] # e
    BY CountIs
  <1> QED
    BY <1>1, <1>2, <1>3 DEF ToSet

-----------------------------------------------------------------------------
(* Requests *)

\* The three kinds of requests.
LEMMA Kinds ==
  /\ User \in Requests /\ WakeRequests(WakeIds) \subseteq Requests /\ JobRequests(Jobs) \subseteq Requests
  /\ \A w \in WakeIds, r \in Regs : WakeRequest(w, r) \in WakeRequests(WakeIds)
                                    /\ WakeRequest(w, r) \notin JobRequests(Jobs) \cup {User}
  /\ \A j \in Jobs : JobRequest(j) \in JobRequests(Jobs)
                     /\ JobRequest(j) \notin WakeRequests(WakeIds) \cup {User}
  /\ \A q \in Requests : \/ q = User /\ q.kind = "user"
                         \/ q.kind = "wake" /\ q.wake \in WakeIds /\ q.reg \in Regs
                            /\ q = WakeRequest(q.wake, q.reg)
                         \/ q.kind = "job" /\ q.job \in Jobs /\ q = JobRequest(q.job)
  <1>1. ASSUME NEW q \in Requests
        PROVE  \/ q = User /\ q.kind = "user"
               \/ q.kind = "wake" /\ q.wake \in WakeIds /\ q.reg \in Regs
                  /\ q = WakeRequest(q.wake, q.reg)
               \/ q.kind = "job" /\ q.job \in Jobs /\ q = JobRequest(q.job)
    <2>1. CASE q = User
      BY <2>1 DEF User
    <2>2. CASE q \in WakeRequests(WakeIds)
      BY <2>2 DEF WakeRequests, WakeRequest
    <2>3. CASE q \in JobRequests(Jobs)
      BY <2>3 DEF JobRequests, JobRequest
    <2> QED
      BY <2>1, <2>2, <2>3 DEF Requests
  <1>2. User.kind = "user" /\ \A w \in WakeIds, r \in Regs : WakeRequest(w, r).kind = "wake"
        /\ WakeRequest(w, r) \in WakeRequests(WakeIds)
    BY DEF User, WakeRequest, WakeRequests
  <1>3. \A j \in Jobs : JobRequest(j).kind = "job" /\ JobRequest(j) \in JobRequests(Jobs)
    BY DEF JobRequest, JobRequests
  <1>4. (\A q \in WakeRequests(WakeIds) : q.kind = "wake") /\ (\A q \in JobRequests(Jobs) : q.kind = "job")
    BY DEF WakeRequests, JobRequests
  <1> QED
    BY <1>1, <1>2, <1>3, <1>4 DEF Requests

\* A request of a wake names its registration, one of a job names the job.
LEMMA SameRequest ==
  /\ \A w, v \in WakeIds, r, q \in Regs : WakeRequest(w, r) = WakeRequest(v, q) <=> w = v /\ r = q
  /\ \A j, k \in Jobs : JobRequest(j) = JobRequest(k) <=> j = k
  /\ \A w, r : WakeRequest(w, r).kind = "wake" /\ WakeRequest(w, r).wake = w /\ WakeRequest(w, r).reg = r
  /\ \A j : JobRequest(j).kind = "job" /\ JobRequest(j).job = j
  BY DEF WakeRequest, JobRequest

\* Injecting requests adds them, and keeps those that are queued.
LEMMA InjectCount ==
  ASSUME NEW q \in Seq(Requests), NEW new \in Seq(Requests)
  PROVE  /\ Inject(q, new) \in Seq(Requests)
         /\ \A x \in Requests : Count(Inject(q, new), x) = Count(q, x) + Count(new, x)
  <1> DEFINE a == Only(q, Requests \ {User})
             b == Only(q, {User})
  <1>1. a \in Seq(Requests) /\ b \in Seq(Requests)
    BY OnlyCount
  <1>0. \A S, x : Count(Only(q, S), x) = IF x \in S THEN Count(q, x) ELSE 0
    BY OnlyCount
  <1>2. \A x \in Requests : /\ Count(a, x) = IF x \in Requests \ {User} THEN Count(q, x) ELSE 0
                            /\ Count(b, x) = IF x \in {User} THEN Count(q, x) ELSE 0
    BY <1>0, Zenon
  <1>3. \A x \in Requests : Count(q, x) \in Nat /\ Count(new, x) \in Nat
    BY CountIs
  <1>4. Inject(q, new) = (a \o new) \o b
    BY DEF Inject
  <1> HIDE DEF a, b
  <1>5. \A s, t \in Seq(Requests) : s \o t \in Seq(Requests) /\ \A x : Count(s \o t, x) = Count(s, x) + Count(t, x)
    BY CountConcat
  <1>6. a \o new \in Seq(Requests) /\ \A x : Count(a \o new, x) = Count(a, x) + Count(new, x)
    BY <1>1, <1>5, Zenon
  <1>7. (a \o new) \o b \in Seq(Requests)
        /\ \A x : Count((a \o new) \o b, x) = Count(a \o new, x) + Count(b, x)
    BY <1>1, <1>5, <1>6, Zenon
  <1>8. ASSUME NEW x \in Requests PROVE Count((a \o new) \o b, x) = Count(q, x) + Count(new, x)
    <2>1. Count((a \o new) \o b, x) = (Count(a, x) + Count(new, x)) + Count(b, x)
      BY <1>6, <1>7, Zenon
    <2>2. /\ Count(a, x) = IF x # User THEN Count(q, x) ELSE 0
          /\ Count(b, x) = IF x = User THEN Count(q, x) ELSE 0
      BY <1>2
    <2>3. Count(q, x) \in Nat /\ Count(new, x) \in Nat
      BY <1>3
    <2>4. CASE x = User
      <3>1. Count(a, x) = 0 /\ Count(b, x) = Count(q, x)
        BY <2>2, <2>4
      <3> QED
        BY <2>1, <2>3, <3>1
    <2>5. CASE x # User
      <3>1. Count(a, x) = Count(q, x) /\ Count(b, x) = 0
        BY <2>2, <2>5
      <3> QED
        BY <2>1, <2>3, <3>1
    <2> QED
      BY <2>4, <2>5
  <1> QED
    BY <1>4, <1>7, <1>8

\* One note for each job.
LEMMA NotesCount ==
  ASSUME NEW jobs \in Seq(Jobs)
  PROVE  /\ Notes(jobs) \in Seq(JobRequests(Jobs)) /\ Notes(jobs) \in Seq(Requests)
         /\ \A j \in Jobs : Count(Notes(jobs), JobRequest(j)) = Count(jobs, j)
         /\ \A w \in WakeIds, r \in Regs : Count(Notes(jobs), WakeRequest(w, r)) = 0
  <1>1. \A i \in 1 .. Len(jobs) : jobs[i] \in Jobs
    OBVIOUS
  <1>2. Len(jobs) \in Nat /\ \A j \in Jobs : JobRequest(j) \in JobRequests(Jobs) /\ JobRequest(j) \in Requests
    BY Kinds
  <1>3. Notes(jobs) \in Seq(JobRequests(Jobs)) /\ Notes(jobs) \in Seq(Requests)
    BY <1>1, <1>2 DEF Notes
  <1>4. Len(Notes(jobs)) = Len(jobs) /\ \A i \in 1 .. Len(jobs) : Notes(jobs)[i] = JobRequest(jobs[i])
    BY <1>2 DEF Notes
  <1>5. ASSUME NEW j \in Jobs PROVE Count(Notes(jobs), JobRequest(j)) = Count(jobs, j)
    <2>1. \A i \in 1 .. Len(Notes(jobs)) : Notes(jobs)[i] = JobRequest(j) <=> jobs[i] = j
      BY <1>1, <1>4, SameRequest
    <2> QED
      <3>1. {i \in 1 .. Len(Notes(jobs)) : Notes(jobs)[i] = JobRequest(j)} = {i \in 1 .. Len(jobs) : jobs[i] = j}
        BY <1>4, <2>1
      <3> QED
        BY <3>1 DEF Count
  <1>6. \A w \in WakeIds, r \in Regs : Count(Notes(jobs), WakeRequest(w, r)) = 0
    BY <1>3, Kinds, CountStrange
  <1> QED
    BY <1>3, <1>5, <1>6

\* The requests that tasks carry.
LEMMA AskedIs ==
  ASSUME NEW ts \in Seq(Tasks)
  PROVE  /\ Asked(ts) \in Seq(Requests) /\ Len(Asked(ts)) = Len(ts)
         /\ \A i \in 1 .. Len(ts) : Asked(ts)[i] = ts[i].req /\ ts[i] \in Tasks /\ ts[i].req \in Requests
  <1>0. Len(ts) \in Nat /\ \A i \in 1 .. Len(ts) : ts[i] \in Tasks
    OBVIOUS
  <1>1. Len(ts) \in Nat /\ \A i \in 1 .. Len(ts) : ts[i] \in Tasks /\ ts[i].req \in Requests
    BY <1>0 DEF Tasks
  <1> QED
    BY <1>1 DEF Asked

LEMMA AskedAppend ==
  ASSUME NEW ts \in Seq(Tasks), NEW t \in Tasks, NEW x
  PROVE  Count(Asked(Append(ts, t)), x) = Count(Asked(ts), x) + IF t.req = x THEN 1 ELSE 0
  <1>1. Append(ts, t) \in Seq(Tasks) /\ t.req \in Requests /\ Len(Append(ts, t)) = Len(ts) + 1 /\ Len(ts) \in Nat
    BY DEF Tasks
  <1>2. /\ Append(ts, t)[Len(ts) + 1] = t /\ \A i \in 1 .. Len(ts) : Append(ts, t)[i] = ts[i]
    OBVIOUS
  <1>3. /\ Asked(Append(ts, t)) \in Seq(Requests) /\ Len(Asked(Append(ts, t))) = Len(ts) + 1
        /\ \A i \in 1 .. Len(ts) + 1 : Asked(Append(ts, t))[i] = Append(ts, t)[i].req
    BY <1>1, AskedIs
  <1>4. /\ Asked(ts) \in Seq(Requests) /\ Len(Asked(ts)) = Len(ts)
        /\ \A i \in 1 .. Len(ts) : Asked(ts)[i] = ts[i].req
    BY AskedIs
  <1> DEFINE a == Asked(ts)
             b == Asked(Append(ts, t))
  <1>5. b[Len(ts) + 1] = t.req /\ \A i \in 1 .. Len(ts) : b[i] = a[i]
    BY <1>1, <1>2, <1>3, <1>4
  <1> HIDE DEF a, b
  <1>6. /\ Append(a, t.req) \in Seq(Requests) /\ Len(Append(a, t.req)) = Len(ts) + 1
        /\ Append(a, t.req)[Len(ts) + 1] = t.req /\ \A i \in 1 .. Len(ts) : Append(a, t.req)[i] = a[i]
    BY <1>1, <1>4 DEF a
  <1>7. Len(b) = Len(ts) + 1 /\ b \in Seq(Requests) /\ a \in Seq(Requests)
    BY <1>3, <1>4 DEF a, b
  <1>8. \A i \in 1 .. Len(b) : b[i] = x <=> Append(a, t.req)[i] = x
    BY <1>1, <1>5, <1>6, <1>7
  <1>9. Count(b, x) = Count(Append(a, t.req), x)
    <2>1. {i \in 1 .. Len(b) : b[i] = x} = {i \in 1 .. Len(Append(a, t.req)) : Append(a, t.req)[i] = x}
      BY <1>6, <1>7, <1>8
    <2> QED
      BY <2>1 DEF Count
  <1>10. \A s \in Seq(Requests), e \in Requests : Count(Append(s, e), x) = Count(s, x) + IF e = x THEN 1 ELSE 0
    BY CountAppend
  <1>11. Count(b, x) = Count(a, x) + IF t.req = x THEN 1 ELSE 0
    BY <1>1, <1>7, <1>9, <1>10, Zenon
  <1> QED
    BY <1>11 DEF a, b

LEMMA AskedTail ==
  ASSUME NEW ts \in Seq(Tasks), ts # <<>>, NEW x
  PROVE  /\ Tail(ts) \in Seq(Tasks) /\ Head(ts) \in Tasks /\ Head(ts).req \in Requests
         /\ Count(Asked(ts), x) = Count(Asked(Tail(ts)), x) + IF Head(ts).req = x THEN 1 ELSE 0
  <1>1. /\ Tail(ts) \in Seq(Tasks) /\ Head(ts) = ts[1] /\ Len(Tail(ts)) = Len(ts) - 1 /\ Len(ts) \in Nat \ {0}
        /\ \A i \in 1 .. Len(ts) - 1 : Tail(ts)[i] = ts[i + 1]
    OBVIOUS
  <1>2. /\ Asked(ts) \in Seq(Requests) /\ Len(Asked(ts)) = Len(ts)
        /\ \A i \in 1 .. Len(ts) : Asked(ts)[i] = ts[i].req /\ ts[i] \in Tasks /\ ts[i].req \in Requests
    BY AskedIs
  <1>3. /\ Asked(Tail(ts)) \in Seq(Requests) /\ Len(Asked(Tail(ts))) = Len(ts) - 1
        /\ \A i \in 1 .. Len(ts) - 1 : Asked(Tail(ts))[i] = Tail(ts)[i].req
    BY <1>1, AskedIs
  <1> DEFINE a == Asked(ts)
             b == Asked(Tail(ts))
  <1>4. \A i \in 1 .. Len(ts) - 1 : b[i] = a[i + 1]
    BY <1>1, <1>2, <1>3
  <1>5. /\ a \in Seq(Requests) /\ b \in Seq(Requests) /\ Len(a) = Len(ts) /\ Len(b) = Len(ts) - 1
        /\ a[1] = Head(ts).req
    <2>1. 1 \in 1 .. Len(ts)
      BY <1>1
    <2> QED
      BY <1>1, <1>2, <1>3, <2>1
  <1> HIDE DEF a, b
  <1>6. /\ Tail(a) \in Seq(Requests) /\ Len(Tail(a)) = Len(ts) - 1 /\ a # <<>> /\ Head(a) = Head(ts).req
        /\ \A i \in 1 .. Len(ts) - 1 : Tail(a)[i] = a[i + 1]
    BY <1>1, <1>5
  <1>7. Count(Tail(a), x) = Count(b, x)
    <2>1. \A i \in 1 .. Len(Tail(a)) : Tail(a)[i] = x <=> b[i] = x
      BY <1>4, <1>6
    <2> QED
      <3>1. {i \in 1 .. Len(Tail(a)) : Tail(a)[i] = x} = {i \in 1 .. Len(b) : b[i] = x}
        BY <1>5, <1>6, <2>1
      <3> QED
        BY <3>1 DEF Count
  <1>8. Count(a, x) = Count(Tail(a), x) + IF Head(a) = x THEN 1 ELSE 0
    BY <1>5, <1>6, CountTail
  <1>9. Head(ts) \in Tasks /\ Head(ts).req \in Requests
    BY <1>1, <1>2
  <1> QED
    BY <1>1, <1>6, <1>7, <1>8, <1>9 DEF a, b

\* A task more or less in the middle.
LEMMA AskedRemove ==
  ASSUME NEW ts \in Seq(Tasks), NEW i \in 1 .. Len(ts), NEW x
  PROVE  /\ RemoveAt(ts, i) \in Seq(Tasks) /\ ts[i].req \in Requests
         /\ Len(RemoveAt(ts, i)) = Len(ts) - 1
         /\ Count(Asked(ts), x) = Count(Asked(RemoveAt(ts, i)), x) + IF ts[i].req = x THEN 1 ELSE 0
  <1> DEFINE a == Asked(ts)
             b == Asked(RemoveAt(ts, i))
             n == Len(ts)
  <1>1. /\ a \in Seq(Requests) /\ Len(a) = n
        /\ \A k \in 1 .. n : a[k] = ts[k].req /\ ts[k].req \in Requests
    BY AskedIs
  <1>2. /\ RemoveAt(ts, i) \in Seq(Tasks) /\ Len(RemoveAt(ts, i)) = n - 1
        /\ \A k \in 1 .. n - 1 : RemoveAt(ts, i)[k] = IF k < i THEN ts[k] ELSE ts[k + 1]
    <2> DEFINE c == SubSeq(ts, 1, i - 1)
               d == SubSeq(ts, i + 1, Len(ts))
    <2>1. /\ c \in Seq(Tasks) /\ Len(c) = i - 1 /\ \A k \in 1 .. i - 1 : c[k] = ts[k]
      OBVIOUS
    <2>2. /\ d \in Seq(Tasks) /\ Len(d) = n - i /\ \A k \in 1 .. n - i : d[k] = ts[i + k]
      OBVIOUS
    <2>3. RemoveAt(ts, i) = c \o d
      BY DEF RemoveAt
    <2>4. n \in Nat /\ i \in 1 .. n
      OBVIOUS
    <2> HIDE DEF c, d, n
    <2>5. c \o d \in Seq(Tasks) /\ Len(c \o d) = n - 1
      <3>0. c \in Seq(Tasks) /\ d \in Seq(Tasks)
        BY <2>1, <2>2
      <3>1. c \o d \in Seq(Tasks) /\ Len(c \o d) = Len(c) + Len(d)
        BY <3>0
      <3> QED
        BY <2>1, <2>2, <2>4, <3>1
    <2>6. ASSUME NEW k \in 1 .. n - 1 PROVE (c \o d)[k] = IF k < i THEN ts[k] ELSE ts[k + 1]
      <3>1. CASE k < i
        <4>1. k \in 1 .. Len(c) /\ k \in 1 .. i - 1
          BY <2>1, <2>4, <3>1
        <4>2. (c \o d)[k] = c[k]
          BY <2>1, <2>2, <4>1
        <4> QED
          BY <2>1, <3>1, <4>1, <4>2
      <3>2. CASE ~(k < i)
        <4>1. PICK m \in 1 .. n - i : k = (i - 1) + m /\ i + m = k + 1
          <5>1. k - (i - 1) \in 1 .. n - i /\ k = (i - 1) + (k - (i - 1)) /\ i + (k - (i - 1)) = k + 1
            BY <2>4, <3>2
          <5> QED
            BY <5>1, Zenon
        <4>2. m \in 1 .. Len(d) /\ k = Len(c) + m
          BY <2>1, <2>2, <4>1
        <4>3. (c \o d)[Len(c) + m] = d[m]
          BY <2>1, <2>2, <4>2
        <4>4. d[m] = ts[k + 1]
          BY <2>2, <4>1
        <4> QED
          BY <3>2, <4>2, <4>3, <4>4
      <3> QED
        BY <3>1, <3>2
    <2> QED
      BY <2>3, <2>5, <2>6
  <1>3. /\ b \in Seq(Requests) /\ Len(b) = n - 1
        /\ \A k \in 1 .. n - 1 : b[k] = RemoveAt(ts, i)[k].req
    BY <1>2, AskedIs
  <1>4. n \in Nat \ {0} /\ i \in 1 .. n
    OBVIOUS
  <1>5. \A k \in 1 .. n - 1 : b[k] = IF k < i THEN a[k] ELSE a[k + 1]
    BY <1>1, <1>2, <1>3, <1>4
  <1>6. ts[i].req = a[i] /\ ts[i].req \in Requests
    BY <1>1, <1>4
  <1> HIDE DEF a, b, n
  <1>7. /\ SubSeq(a, 1, i) \in Seq(Requests) /\ SubSeq(a, i + 1, n) \in Seq(Requests)
        /\ Count(a, x) = Count(SubSeq(a, 1, i), x) + Count(SubSeq(a, i + 1, n), x)
    <2>1. i \in 0 .. Len(a) /\ Len(a) = n
      BY <1>1, <1>4
    <2>2. \A k \in 0 .. Len(a) :
             /\ SubSeq(a, 1, k) \in Seq(Requests) /\ SubSeq(a, k + 1, Len(a)) \in Seq(Requests)
             /\ Count(a, x) = Count(SubSeq(a, 1, k), x) + Count(SubSeq(a, k + 1, Len(a)), x)
      BY <1>1, CountCut
    <2> QED
      BY <2>1, <2>2
  <1>8. /\ SubSeq(b, 1, i - 1) \in Seq(Requests) /\ SubSeq(b, i, n - 1) \in Seq(Requests)
        /\ Count(b, x) = Count(SubSeq(b, 1, i - 1), x) + Count(SubSeq(b, i, n - 1), x)
    <2>1. i - 1 \in 0 .. Len(b) /\ Len(b) = n - 1 /\ (i - 1) + 1 = i
      BY <1>3, <1>4
    <2>2. \A k \in 0 .. Len(b) :
             /\ SubSeq(b, 1, k) \in Seq(Requests) /\ SubSeq(b, k + 1, Len(b)) \in Seq(Requests)
             /\ Count(b, x) = Count(SubSeq(b, 1, k), x) + Count(SubSeq(b, k + 1, Len(b)), x)
      BY <1>3, CountCut
    <2> QED
      BY <2>1, <2>2
  <1>9. Count(SubSeq(a, i + 1, n), x) = Count(SubSeq(b, i, n - 1), x)
    <2>1. /\ Len(SubSeq(a, i + 1, n)) = n - i /\ Len(SubSeq(b, i, n - 1)) = n - i
          /\ \A k \in 1 .. n - i : SubSeq(a, i + 1, n)[k] = a[i + k] /\ SubSeq(b, i, n - 1)[k] = b[i + k - 1]
      BY <1>1, <1>3, <1>4
    <2>2. \A k \in 1 .. n - i : i + k - 1 \in 1 .. n - 1 /\ ~(i + k - 1 < i) /\ (i + k - 1) + 1 = i + k
      BY <1>4
    <2>3. \A k \in 1 .. n - i : b[i + k - 1] = a[i + k]
      BY <1>5, <2>2
    <2>4. \A k \in 1 .. Len(SubSeq(a, i + 1, n)) : SubSeq(a, i + 1, n)[k] = x <=> SubSeq(b, i, n - 1)[k] = x
      BY <2>1, <2>3
    <2> QED
      <3> DEFINE p == SubSeq(a, i + 1, n)
                 q == SubSeq(b, i, n - 1)
      <3>1. Len(p) = n - i /\ Len(q) = n - i /\ \A k \in 1 .. Len(p) : p[k] = x <=> q[k] = x
        BY <2>1, <2>4
      <3> HIDE DEF p, q
      <3>2. {k \in 1 .. Len(p) : p[k] = x} = {k \in 1 .. Len(q) : q[k] = x}
        BY <3>1
      <3>3. Count(p, x) = Count(q, x)
        BY <3>2 DEF Count
      <3> QED
        BY <3>3 DEF p, q
  <1>10. Count(SubSeq(a, 1, i), x) = Count(SubSeq(b, 1, i - 1), x) + IF a[i] = x THEN 1 ELSE 0
    <2> DEFINE c == SubSeq(b, 1, i - 1)
    <2>1. /\ Len(SubSeq(a, 1, i)) = i /\ Len(c) = i - 1
          /\ (\A k \in 1 .. i : SubSeq(a, 1, i)[k] = a[k]) /\ \A k \in 1 .. i - 1 : c[k] = b[k]
      BY <1>1, <1>3, <1>4
    <2>2. \A k \in 1 .. i - 1 : b[k] = a[k]
      BY <1>4, <1>5
    <2>3. a[i] \in Requests /\ c \in Seq(Requests)
      BY <1>6, <1>8
    <2> HIDE DEF c
    <2>4. /\ Append(c, a[i]) \in Seq(Requests) /\ Len(Append(c, a[i])) = i
          /\ Append(c, a[i])[i] = a[i] /\ \A k \in 1 .. i - 1 : Append(c, a[i])[k] = c[k]
      BY <1>4, <2>1, <2>3
    <2>5. \A k \in 1 .. Len(SubSeq(a, 1, i)) : SubSeq(a, 1, i)[k] = x <=> Append(c, a[i])[k] = x
      BY <1>4, <2>1, <2>2, <2>4
    <2>6. Count(SubSeq(a, 1, i), x) = Count(Append(c, a[i]), x)
      <3> DEFINE p == SubSeq(a, 1, i)
                 q == Append(c, a[i])
      <3>1. Len(p) = i /\ Len(q) = i /\ \A k \in 1 .. Len(p) : p[k] = x <=> q[k] = x
        BY <2>1, <2>4, <2>5
      <3> HIDE DEF p, q
      <3>2. {k \in 1 .. Len(p) : p[k] = x} = {k \in 1 .. Len(q) : q[k] = x}
        BY <3>1
      <3>3. Count(p, x) = Count(q, x)
        BY <3>2 DEF Count
      <3> QED
        BY <3>3 DEF p, q
    <2>7. \A s \in Seq(Requests), e \in Requests : Count(Append(s, e), x) = Count(s, x) + IF e = x THEN 1 ELSE 0
      BY CountAppend
    <2>8. Count(Append(c, a[i]), x) = Count(c, x) + IF a[i] = x THEN 1 ELSE 0
      BY <2>3, <2>7, Zenon
    <2> QED
      BY <2>6, <2>8 DEF c
  <1>11. Count(SubSeq(a, i + 1, n), x) \in Nat /\ Count(SubSeq(b, 1, i - 1), x) \in Nat
    BY <1>7, <1>8, CountIs
  <1>12. Count(a, x) = Count(b, x) + IF a[i] = x THEN 1 ELSE 0
    BY <1>7, <1>8, <1>9, <1>10, <1>11
  <1> QED
    BY <1>2, <1>6, <1>12 DEF a, b, n

\* Cancelling tasks does not change what they were asked.
LEMMA AskedKilled ==
  ASSUME NEW ts \in Seq(Tasks)
  PROVE  LET k == [i \in 1 .. Len(ts) |-> [ts[i] EXCEPT !.killed = TRUE]] IN
         k \in Seq(Tasks) /\ Asked(k) = Asked(ts) /\ Len(k) = Len(ts)
  <1> DEFINE k == [i \in 1 .. Len(ts) |-> [ts[i] EXCEPT !.killed = TRUE]]
  <1>0. Len(ts) \in Nat /\ \A i \in 1 .. Len(ts) : ts[i] \in Tasks
    OBVIOUS
  <1>1. \A t \in Tasks : [t EXCEPT !.killed = TRUE] \in Tasks /\ [t EXCEPT !.killed = TRUE].req = t.req
    BY DEF Tasks
  <1>2. k \in Seq(Tasks) /\ Len(k) = Len(ts) /\ \A i \in 1 .. Len(ts) : k[i].req = ts[i].req
    <2>1. \A i \in 1 .. Len(ts) : k[i] = [ts[i] EXCEPT !.killed = TRUE]
      OBVIOUS
    <2>2. \A i \in 1 .. Len(ts) : k[i] \in Tasks /\ k[i].req = ts[i].req
      BY <1>0, <1>1, <2>1, Zenon
    <2>3. k = [i \in 1 .. Len(ts) |-> k[i]]
      OBVIOUS
    <2> HIDE DEF k
    <2> QED
      BY <1>0, <2>2, <2>3
  <1> HIDE DEF k
  <1>3. Asked(k) = Asked(ts)
    BY <1>2 DEF Asked
  <1> QED
    BY <1>2, <1>3 DEF k

-----------------------------------------------------------------------------
(* What a delivery does to the state *)

\* How often a request is under way is a number.
LEMMA UnderWayNat ==
  ASSUME NEW x \in States, NEW sp \in Seq(Tasks), NEW li \in Seq(Tasks), NEW q
  PROVE  /\ Count(x.heldWakes, q) \in Nat /\ Count(x.heldNotes, q) \in Nat /\ Count(x.queue, q) \in Nat
         /\ Count(Asked(sp), q) \in Nat /\ Count(Asked(li), q) \in Nat
         /\ UnderWay(x, sp, li, q) \in Nat
  <1>1. x.heldWakes \in Seq(WakeRequests(WakeIds)) /\ x.heldNotes \in Seq(JobRequests(Jobs))
        /\ x.queue \in Seq(Requests)
    BY DEF States
  <1>2. Asked(sp) \in Seq(Requests) /\ Asked(li) \in Seq(Requests)
    BY AskedIs
  <1>3. /\ Count(x.heldWakes, q) \in Nat /\ Count(x.heldNotes, q) \in Nat /\ Count(x.queue, q) \in Nat
    BY <1>1, CountIs
  <1>4. Count(Asked(sp), q) \in Nat /\ Count(Asked(li), q) \in Nat
    BY <1>2, CountIs
  <1> QED
    BY <1>3, <1>4 DEF UnderWay

\* What is held back of jobs are notices, and of wakes wakes.
LEMMA HeldApart ==
  ASSUME NEW x \in States
  PROVE  /\ \A w \in WakeIds, r \in Regs : Count(x.heldNotes, WakeRequest(w, r)) = 0
         /\ \A j \in Jobs : Count(x.heldWakes, JobRequest(j)) = 0
  <1>1. x.heldWakes \in Seq(WakeRequests(WakeIds)) /\ x.heldNotes \in Seq(JobRequests(Jobs))
    BY DEF States
  <1> QED
    BY <1>1, Kinds, CountStrange

\* Fated gives a fate to the registrations of some wakes and no other.
LEMMA FatedIs ==
  ASSUME NEW registry, NEW entries \in Seq(Entries), NEW gone, NEW fate \in Fates
  PROVE  LET e == Fated(registry, entries, gone, fate) IN
         /\ e \in Seq(Entries) /\ Len(e) = Len(entries)
         /\ \A r \in 1 .. Len(entries) :
              /\ e[r].id = entries[r].id
              /\ e[r].fate = IF \E w \in gone : registry[w] # Nothing /\ registry[w].reg = r
                             THEN fate ELSE entries[r].fate
  <1> DEFINE Hit(r) == \E w \in gone : registry[w] # Nothing /\ registry[w].reg = r
             e == [r \in 1 .. Len(entries) |->
                     IF Hit(r) THEN [entries[r] EXCEPT !.fate = fate] ELSE entries[r]]
  <1>1. Fated(registry, entries, gone, fate) = e
    BY DEF Fated
  <1>2. \A r \in 1 .. Len(entries) : entries[r] \in Entries
    OBVIOUS
  <1> HIDE DEF Hit
  <1>3. \A r \in 1 .. Len(entries) :
           /\ e[r] \in Entries /\ e[r].id = entries[r].id
           /\ e[r].fate = IF Hit(r) THEN fate ELSE entries[r].fate
    <2> TAKE r \in 1 .. Len(entries)
    <2>1. entries[r] \in Entries
      BY <1>2
    <2>2. e[r] = IF Hit(r) THEN [entries[r] EXCEPT !.fate = fate] ELSE entries[r]
      OBVIOUS
    <2>3. [entries[r] EXCEPT !.fate = fate] \in Entries /\ [entries[r] EXCEPT !.fate = fate].id = entries[r].id
          /\ [entries[r] EXCEPT !.fate = fate].fate = fate
      BY <2>1 DEF Entries
    <2> HIDE DEF e
    <2> QED
      BY <2>1, <2>2, <2>3
  <1>4. e \in Seq(Entries) /\ Len(e) = Len(entries)
    <2>1. Len(entries) \in Nat /\ e = [r \in 1 .. Len(entries) |-> e[r]]
      OBVIOUS
    <2> HIDE DEF e
    <2> QED
      BY <1>3, <2>1
  <1> HIDE DEF e
  <1> QED
    BY <1>1, <1>3, <1>4 DEF Hit

\* A note for each job goes to the queue, and the jobs are no longer tracked.
NotesQueued(x, jobs, sp, li, y) ==
    /\ y \in States /\ y.wakes = x.wakes /\ y.heldWakes = x.heldWakes
    /\ y.log = x.log /\ y.heldNotes = x.heldNotes
    /\ \A j \in Jobs :
         /\ j \in y.tracked <=> j \in x.tracked /\ Count(jobs, j) = 0
         /\ y.rec[j] = IF Count(jobs, j) # 0 /\ j \in x.tracked THEN "notified" ELSE x.rec[j]
         /\ UnderWay(y, sp, li, JobRequest(j)) = UnderWay(x, sp, li, JobRequest(j)) + Count(jobs, j)
    /\ \A w \in WakeIds, r \in Regs :
         UnderWay(y, sp, li, WakeRequest(w, r)) = UnderWay(x, sp, li, WakeRequest(w, r))

\* An idle session has the notices queued, and the jobs forgotten.
LEMMA NotesIdle ==
  ASSUME NEW x \in States, NEW jobs \in Seq(Jobs), NEW sp \in Seq(Tasks), NEW li \in Seq(Tasks)
  PROVE  NotesQueued(x, jobs, sp, li, DeliverNotes(FALSE, x, jobs))
  <1> DEFINE q == Inject(x.queue, Notes(jobs))
             m == Marked(x, jobs, "notified")
             t == x.tracked \ ToSet(jobs)
             y == [x EXCEPT !.queue = q, !.rec = m, !.tracked = t]
  <1>1. DeliverNotes(FALSE, x, jobs) = y
    BY DEF DeliverNotes
  <1>2. x.queue \in Seq(Requests) /\ x.tracked \subseteq Jobs /\ x.rec \in [Jobs -> {"tracked", "staged", "notified"}]
    BY DEF States
  <1>3. /\ Notes(jobs) \in Seq(Requests)
        /\ \A j \in Jobs : Count(Notes(jobs), JobRequest(j)) = Count(jobs, j)
        /\ \A w \in WakeIds, r \in Regs : Count(Notes(jobs), WakeRequest(w, r)) = 0
    BY NotesCount
  <1>4. q \in Seq(Requests) /\ \A z \in Requests : Count(q, z) = Count(x.queue, z) + Count(Notes(jobs), z)
    BY <1>2, <1>3, InjectCount
  <1>5. ToSet(jobs) \subseteq Jobs /\ \A j : j \in ToSet(jobs) <=> Count(jobs, j) # 0
    BY InSet
  <1>6. m \in [Jobs -> {"tracked", "staged", "notified"}]
        /\ \A j \in Jobs : m[j] = IF Count(jobs, j) # 0 /\ j \in x.tracked THEN "notified" ELSE x.rec[j]
    BY <1>2, <1>5 DEF Marked
  <1>7. t \subseteq Jobs /\ \A j \in Jobs : j \in t <=> j \in x.tracked /\ Count(jobs, j) = 0
    BY <1>2, <1>5
  <1> HIDE DEF q, m, t
  <1>8. /\ y \in States /\ y.wakes = x.wakes /\ y.heldWakes = x.heldWakes
        /\ y.log = x.log /\ y.heldNotes = x.heldNotes /\ y.queue = q /\ y.rec = m /\ y.tracked = t
    BY <1>4, <1>6, <1>7 DEF States
  <1> HIDE DEF y
  <1>9. \A j \in Jobs :
           UnderWay(y, sp, li, JobRequest(j)) = UnderWay(x, sp, li, JobRequest(j)) + Count(jobs, j)
    <2> TAKE j \in Jobs
    <2>1. JobRequest(j) \in Requests
      BY Kinds
    <2>2. Count(q, JobRequest(j)) = Count(x.queue, JobRequest(j)) + Count(jobs, j)
      BY <1>3, <1>4, <2>1
    <2>3. /\ Count(x.heldWakes, JobRequest(j)) \in Nat /\ Count(x.heldNotes, JobRequest(j)) \in Nat
          /\ Count(x.queue, JobRequest(j)) \in Nat
          /\ Count(Asked(sp), JobRequest(j)) \in Nat /\ Count(Asked(li), JobRequest(j)) \in Nat
      BY UnderWayNat
    <2>4. Count(jobs, j) \in Nat
      BY CountIs
    <2> QED
      BY <1>8, <2>2, <2>3, <2>4 DEF UnderWay
  <1>10. \A w \in WakeIds, r \in Regs :
           UnderWay(y, sp, li, WakeRequest(w, r)) = UnderWay(x, sp, li, WakeRequest(w, r))
    <2> TAKE w \in WakeIds, r \in Regs
    <2>1. WakeRequest(w, r) \in Requests
      BY Kinds
    <2>2. Count(x.queue, WakeRequest(w, r)) \in Nat
      BY UnderWayNat
    <2>3. Count(q, WakeRequest(w, r)) = Count(x.queue, WakeRequest(w, r))
      BY <1>3, <1>4, <2>1, <2>2
    <2> QED
      BY <1>8, <2>3 DEF UnderWay
  <1> QED
    BY <1>1, <1>6, <1>7, <1>8, <1>9, <1>10 DEF NotesQueued

\* The notes that are not held back yet are, and their jobs are marked.
Fresh(x, jobs, j) == IF j \in x.tracked /\ x.rec[j] = "staged" THEN 0 ELSE Count(jobs, j)
NotesHeld(x, jobs, sp, li, y) ==
    /\ y \in States /\ y.wakes = x.wakes /\ y.heldWakes = x.heldWakes
    /\ y.log = x.log /\ y.tracked = x.tracked
    /\ \A j \in Jobs :
         /\ Count(y.heldNotes, JobRequest(j)) = Count(x.heldNotes, JobRequest(j)) + Fresh(x, jobs, j)
         /\ y.rec[j] = IF Fresh(x, jobs, j) # 0 /\ j \in x.tracked THEN "staged" ELSE x.rec[j]
         /\ UnderWay(y, sp, li, JobRequest(j)) = UnderWay(x, sp, li, JobRequest(j)) + Fresh(x, jobs, j)
    /\ \A w \in WakeIds, r \in Regs :
         UnderWay(y, sp, li, WakeRequest(w, r)) = UnderWay(x, sp, li, WakeRequest(w, r))

\* A busy session has them held back, each once, and the jobs marked.
LEMMA NotesBusy ==
  ASSUME NEW x \in States, NEW jobs \in Seq(Jobs), NEW sp \in Seq(Tasks), NEW li \in Seq(Tasks)
  PROVE  NotesHeld(x, jobs, sp, li, DeliverNotes(TRUE, x, jobs))
  <1> DEFINE S == {j \in Jobs : ~(j \in x.tracked /\ x.rec[j] = "staged")}
             fresh == Only(jobs, S)
             late(j) == Fresh(x, jobs, j)
             h == x.heldNotes \o Notes(fresh)
             m == Marked(x, fresh, "staged")
             y == [x EXCEPT !.heldNotes = h, !.rec = m]
  <1>1. DeliverNotes(TRUE, x, jobs) = y
    BY DEF DeliverNotes
  <1>2. x.heldNotes \in Seq(JobRequests(Jobs)) /\ x.tracked \subseteq Jobs
        /\ x.rec \in [Jobs -> {"tracked", "staged", "notified"}]
    BY DEF States
  <1>3. fresh \in Seq(Jobs) /\ \A j \in Jobs : Count(fresh, j) = late(j)
    <2>1. \A T, j : /\ Only(jobs, T) \in Seq(Jobs) /\ Only(jobs, T) \in Seq(T)
                    /\ Count(Only(jobs, T), j) = IF j \in T THEN Count(jobs, j) ELSE 0
      BY OnlyCount
    <2>2. \A j : fresh \in Seq(Jobs) /\ Count(fresh, j) = IF j \in S THEN Count(jobs, j) ELSE 0
      BY <2>1, Zenon
    <2> HIDE DEF fresh
    <2> QED
      BY <2>2 DEF Fresh
  <1> HIDE DEF fresh
  <1>4. /\ Notes(fresh) \in Seq(JobRequests(Jobs))
        /\ \A j \in Jobs : Count(Notes(fresh), JobRequest(j)) = Count(fresh, j)
        /\ \A w \in WakeIds, r \in Regs : Count(Notes(fresh), WakeRequest(w, r)) = 0
    BY <1>3, NotesCount
  <1>5. h \in Seq(JobRequests(Jobs)) /\ \A z : Count(h, z) = Count(x.heldNotes, z) + Count(Notes(fresh), z)
    <2>1. \A a, b \in Seq(JobRequests(Jobs)) :
             a \o b \in Seq(JobRequests(Jobs)) /\ \A z : Count(a \o b, z) = Count(a, z) + Count(b, z)
      BY CountConcat
    <2> QED
      BY <1>2, <1>4, <2>1, Zenon
  <1>6. ToSet(fresh) \subseteq Jobs /\ \A j : j \in ToSet(fresh) <=> Count(fresh, j) # 0
    BY <1>3, InSet
  <1>7. m \in [Jobs -> {"tracked", "staged", "notified"}]
        /\ \A j \in Jobs : m[j] = IF late(j) # 0 /\ j \in x.tracked THEN "staged" ELSE x.rec[j]
    <2> QED
      BY <1>2, <1>3, <1>6 DEF Marked
  <1> HIDE DEF h, m
  <1>8. /\ y \in States /\ y.wakes = x.wakes /\ y.heldWakes = x.heldWakes /\ y.log = x.log
        /\ y.heldNotes = h /\ y.queue = x.queue /\ y.rec = m /\ y.tracked = x.tracked
    BY <1>5, <1>7 DEF States
  <1> HIDE DEF y, S
  <1>9. \A j \in Jobs :
           /\ Count(h, JobRequest(j)) = Count(x.heldNotes, JobRequest(j)) + late(j)
           /\ UnderWay(y, sp, li, JobRequest(j)) = UnderWay(x, sp, li, JobRequest(j)) + late(j)
    <2> TAKE j \in Jobs
    <2>1. Count(h, JobRequest(j)) = Count(x.heldNotes, JobRequest(j)) + late(j)
      BY <1>3, <1>4, <1>5
    <2>2. /\ Count(x.heldWakes, JobRequest(j)) \in Nat /\ Count(x.heldNotes, JobRequest(j)) \in Nat
          /\ Count(x.queue, JobRequest(j)) \in Nat
          /\ Count(Asked(sp), JobRequest(j)) \in Nat /\ Count(Asked(li), JobRequest(j)) \in Nat
      BY UnderWayNat
    <2>3. late(j) \in Nat
      <3>1. Count(fresh, j) \in Nat
        BY <1>3, CountIs
      <3> QED
        BY <1>3, <3>1
    <2> QED
      BY <1>8, <2>1, <2>2, <2>3 DEF UnderWay
  <1>10. \A w \in WakeIds, r \in Regs :
           UnderWay(y, sp, li, WakeRequest(w, r)) = UnderWay(x, sp, li, WakeRequest(w, r))
    <2> TAKE w \in WakeIds, r \in Regs
    <2>1. Count(x.heldNotes, WakeRequest(w, r)) \in Nat
      BY UnderWayNat
    <2>2. Count(h, WakeRequest(w, r)) = Count(x.heldNotes, WakeRequest(w, r))
      BY <1>4, <1>5, <2>1
    <2> QED
      BY <1>8, <2>2 DEF UnderWay
  <1> QED
    BY <1>1, <1>7, <1>8, <1>9, <1>10 DEF NotesHeld

\* The wakes of a delivery that lapse, and those that are handed over.
Lapsing(x, ids, w) == Count(ids, w) # 0 /\ ~Actionable(x, w)
Sending(busy, x, ids, w) == Count(ids, w) # 0 /\ Actionable(x, w) /\ (busy => ~x.wakes[w].staged)

HandedOver(busy, x, ids, sp, li, y) ==
    /\ y \in States /\ y.rec = x.rec /\ y.tracked = x.tracked /\ y.heldNotes = x.heldNotes
    /\ ~busy => y.heldWakes = x.heldWakes
    /\ y.log = Fated(x.wakes, x.log, {w \in WakeIds : Lapsing(x, ids, w)}, "lapsed")
    /\ \A w \in WakeIds :
         y.wakes[w] = IF Lapsing(x, ids, w) THEN Nothing
                      ELSE IF Sending(busy, x, ids, w) THEN [x.wakes[w] EXCEPT !.staged = TRUE]
                      ELSE x.wakes[w]
    /\ \A j \in Jobs : UnderWay(y, sp, li, JobRequest(j)) = UnderWay(x, sp, li, JobRequest(j))
    /\ \A w \in WakeIds, r \in Regs :
         UnderWay(y, sp, li, WakeRequest(w, r)) =
           UnderWay(x, sp, li, WakeRequest(w, r))
           + IF Sending(busy, x, ids, w) /\ x.wakes[w].reg = r THEN Count(ids, w) ELSE 0

\* Wakes are queued or held back and marked, or lapse.
LEMMA WakesHandedOver ==
  ASSUME NEW x \in States, NEW ids \in Seq(WakeIds), NEW busy \in BOOLEAN,
         NEW sp \in Seq(Tasks), NEW li \in Seq(Tasks)
  PROVE  HandedOver(busy, x, ids, sp, li, DeliverWakes(busy, x, ids))
  <1> DEFINE lapsed == {w \in ToSet(ids) : ~Actionable(x, w)}
             S == {w \in ToSet(ids) \ lapsed : busy => ~x.wakes[w].staged}
             sent == Only(ids, S)
             requests == [i \in 1 .. Len(sent) |-> WakeRequest(sent[i], x.wakes[sent[i]].reg)]
             wk == [w \in WakeIds |->
                      IF w \in lapsed THEN Nothing
                      ELSE IF w \in ToSet(sent) THEN [x.wakes[w] EXCEPT !.staged = TRUE]
                      ELSE x.wakes[w]]
             lg == Fated(x.wakes, x.log, lapsed, "lapsed")
             settled == Settled(x, lapsed, ToSet(sent))
             y == IF busy THEN [settled EXCEPT !.heldWakes = @ \o requests]
                  ELSE [settled EXCEPT !.queue = Inject(@, requests)]
  <1>1. DeliverWakes(busy, x, ids) = y
    BY DEF DeliverWakes
  <1>2. settled = [x EXCEPT !.wakes = wk, !.log = lg]
    BY DEF Settled
  <1>3. /\ x.wakes \in [WakeIds -> {Nothing} \cup [reg : Regs, due : BOOLEAN, staged : BOOLEAN]]
        /\ x.heldWakes \in Seq(WakeRequests(WakeIds)) /\ x.queue \in Seq(Requests) /\ x.log \in Seq(Entries)
    BY DEF States
  <1>4. ToSet(ids) \subseteq WakeIds /\ \A w : w \in ToSet(ids) <=> Count(ids, w) # 0
    BY InSet
  <1>5. lapsed = {w \in WakeIds : Lapsing(x, ids, w)}
    BY <1>4 DEF Lapsing
  <1>6. S \subseteq WakeIds /\ \A w \in WakeIds : w \in S <=> Sending(busy, x, ids, w)
    BY <1>4 DEF Sending
  <1>7. sent \in Seq(WakeIds) /\ sent \in Seq(S)
        /\ \A w : Count(sent, w) = IF w \in S THEN Count(ids, w) ELSE 0
    <2>1. \A T, w : /\ Only(ids, T) \in Seq(WakeIds) /\ Only(ids, T) \in Seq(T)
                    /\ Count(Only(ids, T), w) = IF w \in T THEN Count(ids, w) ELSE 0
      BY OnlyCount
    <2> QED
      BY <2>1, Zenon
  <1>8. \A w : w \in ToSet(sent) <=> Count(sent, w) # 0
    BY <1>7, InSet
  <1>9. \A w \in WakeIds : w \in ToSet(sent) <=> Sending(busy, x, ids, w)
    <2> TAKE w \in WakeIds
    <2>1. Sending(busy, x, ids, w) => Count(ids, w) # 0
      BY DEF Sending
    <2> HIDE DEF S, sent
    <2> QED
      BY <1>6, <1>7, <1>8, <2>1
  <1>10. \A w \in S : x.wakes[w] \in [reg : Regs, due : BOOLEAN, staged : BOOLEAN]
    BY <1>3, <1>6 DEF Sending, Actionable
  <1> HIDE DEF lapsed, S, sent
  <1>11. /\ requests \in Seq(WakeRequests(WakeIds)) /\ requests \in Seq(Requests) /\ Len(requests) = Len(sent)
         /\ \A i \in 1 .. Len(sent) : /\ sent[i] \in S /\ x.wakes[sent[i]].reg \in Regs
                                      /\ requests[i] = WakeRequest(sent[i], x.wakes[sent[i]].reg)
    <2>1. Len(sent) \in Nat /\ \A i \in 1 .. Len(sent) : sent[i] \in S
      BY <1>7
    <2>2. \A i \in 1 .. Len(sent) : sent[i] \in WakeIds /\ x.wakes[sent[i]].reg \in Regs
      BY <1>6, <1>10, <2>1
    <2>3. \A i \in 1 .. Len(sent) : WakeRequest(sent[i], x.wakes[sent[i]].reg) \in WakeRequests(WakeIds)
                                    /\ WakeRequest(sent[i], x.wakes[sent[i]].reg) \in Requests
      BY <2>2, Kinds
    <2>4. \A i \in 1 .. Len(sent) : requests[i] = WakeRequest(sent[i], x.wakes[sent[i]].reg)
      OBVIOUS
    <2>5. Len(requests) = Len(sent) /\ requests = [i \in 1 .. Len(sent) |-> requests[i]]
      BY <2>1
    <2> HIDE DEF requests
    <2>6. requests \in Seq(WakeRequests(WakeIds)) /\ requests \in Seq(Requests)
      BY <2>1, <2>3, <2>4, <2>5
    <2> QED
      BY <2>1, <2>2, <2>4, <2>5, <2>6
  <1> HIDE DEF requests
  <1>12. ASSUME NEW w \in WakeIds, NEW r \in Regs
         PROVE  Count(requests, WakeRequest(w, r))
                  = IF Sending(busy, x, ids, w) /\ x.wakes[w].reg = r THEN Count(ids, w) ELSE 0
    <2>1. \A i \in 1 .. Len(sent) : requests[i] = WakeRequest(w, r) <=> sent[i] = w /\ x.wakes[w].reg = r
      BY <1>6, <1>11, SameRequest
    <2>2. CASE x.wakes[w].reg = r
      <3>1. {i \in 1 .. Len(requests) : requests[i] = WakeRequest(w, r)} = {i \in 1 .. Len(sent) : sent[i] = w}
        BY <1>11, <2>1, <2>2
      <3>2. Count(requests, WakeRequest(w, r)) = Count(sent, w)
        BY <3>1 DEF Count
      <3> QED
        BY <1>6, <1>7, <2>2, <3>2
    <2>3. CASE x.wakes[w].reg # r
      <3>1. \A i \in 1 .. Len(requests) : requests[i] # WakeRequest(w, r)
        BY <1>11, <2>1, <2>3
      <3>2. Count(requests, WakeRequest(w, r)) = 0
        BY <1>11, <3>1, CountIs
      <3> QED
        BY <2>3, <3>2
    <2> QED
      BY <2>2, <2>3
  <1>13. ASSUME NEW j \in Jobs PROVE Count(requests, JobRequest(j)) = 0
    BY <1>11, Kinds, CountStrange
  <1>14. lg \in Seq(Entries)
    BY <1>3, FatedIs DEF Fates
  <1>15. /\ wk \in [WakeIds -> {Nothing} \cup [reg : Regs, due : BOOLEAN, staged : BOOLEAN]]
         /\ \A w \in WakeIds :
              wk[w] = IF Lapsing(x, ids, w) THEN Nothing
                      ELSE IF Sending(busy, x, ids, w) THEN [x.wakes[w] EXCEPT !.staged = TRUE]
                      ELSE x.wakes[w]
    <2>1. ASSUME NEW w \in WakeIds
          PROVE  /\ wk[w] \in {Nothing} \cup [reg : Regs, due : BOOLEAN, staged : BOOLEAN]
                 /\ wk[w] = IF Lapsing(x, ids, w) THEN Nothing
                            ELSE IF Sending(busy, x, ids, w) THEN [x.wakes[w] EXCEPT !.staged = TRUE]
                            ELSE x.wakes[w]
      <3>1. wk[w] = IF w \in lapsed THEN Nothing
                    ELSE IF w \in ToSet(sent) THEN [x.wakes[w] EXCEPT !.staged = TRUE]
                    ELSE x.wakes[w]
        OBVIOUS
      <3>2. w \in lapsed <=> Lapsing(x, ids, w)
        BY <1>5
      <3>3. Sending(busy, x, ids, w) => x.wakes[w] \in [reg : Regs, due : BOOLEAN, staged : BOOLEAN]
        BY <1>6, <1>10
      <3>4. Sending(busy, x, ids, w) =>
               [x.wakes[w] EXCEPT !.staged = TRUE] \in [reg : Regs, due : BOOLEAN, staged : BOOLEAN]
        BY <3>3
      <3>5. x.wakes[w] \in {Nothing} \cup [reg : Regs, due : BOOLEAN, staged : BOOLEAN]
        BY <1>3
      <3> HIDE DEF wk
      <3> QED
        BY <1>9, <3>1, <3>2, <3>4, <3>5
    <2>2. wk = [w \in WakeIds |-> wk[w]]
      OBVIOUS
    <2> HIDE DEF wk
    <2> QED
      BY <2>1, <2>2
  <1> HIDE DEF wk, lg, settled
  <1>16. /\ settled \in States /\ settled.wakes = wk /\ settled.log = lg /\ settled.rec = x.rec
         /\ settled.tracked = x.tracked /\ settled.heldNotes = x.heldNotes
         /\ settled.heldWakes = x.heldWakes /\ settled.queue = x.queue
    BY <1>2, <1>14, <1>15 DEF States
  <1> DEFINE hw == x.heldWakes \o requests
             qu == Inject(x.queue, requests)
  <1>17. hw \in Seq(WakeRequests(WakeIds)) /\ \A z : Count(hw, z) = Count(x.heldWakes, z) + Count(requests, z)
    <2>1. \A a, b \in Seq(WakeRequests(WakeIds)) :
             a \o b \in Seq(WakeRequests(WakeIds)) /\ \A z : Count(a \o b, z) = Count(a, z) + Count(b, z)
      BY CountConcat
    <2> QED
      BY <1>3, <1>11, <2>1, Zenon
  <1>18. qu \in Seq(Requests) /\ \A z \in Requests : Count(qu, z) = Count(x.queue, z) + Count(requests, z)
    BY <1>3, <1>11, InjectCount
  <1>19. y = IF busy THEN [settled EXCEPT !.heldWakes = hw] ELSE [settled EXCEPT !.queue = qu]
    BY <1>16
  <1> HIDE DEF hw, qu, y
  <1>20. /\ y \in States /\ y.wakes = wk /\ y.log = lg /\ y.rec = x.rec
         /\ y.tracked = x.tracked /\ y.heldNotes = x.heldNotes
         /\ y.heldWakes = (IF busy THEN hw ELSE x.heldWakes) /\ y.queue = IF busy THEN x.queue ELSE qu
    <2>1. CASE busy
      BY <1>16, <1>17, <1>19, <2>1 DEF States
    <2>2. CASE ~busy
      BY <1>16, <1>18, <1>19, <2>2 DEF States
    <2> QED
      BY <2>1, <2>2
  <1>21. ASSUME NEW z \in Requests
         PROVE  UnderWay(y, sp, li, z) = UnderWay(x, sp, li, z) + Count(requests, z)
    <2>1. Count(requests, z) \in Nat
      BY <1>11, CountIs
    <2>2. /\ Count(x.heldWakes, z) \in Nat /\ Count(x.heldNotes, z) \in Nat /\ Count(x.queue, z) \in Nat
          /\ Count(Asked(sp), z) \in Nat /\ Count(Asked(li), z) \in Nat
      BY UnderWayNat
    <2>3. Count(y.heldWakes, z) + Count(y.queue, z) = Count(x.heldWakes, z) + Count(x.queue, z) + Count(requests, z)
      BY <1>17, <1>18, <1>20, <2>1, <2>2
    <2>4. Count(y.heldWakes, z) \in Nat /\ Count(y.queue, z) \in Nat
      BY <1>20, UnderWayNat
    <2> QED
      <3>1. UnderWay(y, sp, li, z) = Count(y.heldWakes, z) + Count(x.heldNotes, z) + Count(y.queue, z)
                                     + Count(Asked(sp), z) + Count(Asked(li), z)
        BY <1>20 DEF UnderWay
      <3>2. UnderWay(x, sp, li, z) = Count(x.heldWakes, z) + Count(x.heldNotes, z) + Count(x.queue, z)
                                     + Count(Asked(sp), z) + Count(Asked(li), z)
        BY DEF UnderWay
      <3> DEFINE a == Count(x.heldWakes, z)
                 b == Count(x.heldNotes, z)
                 c == Count(x.queue, z)
                 d == Count(Asked(sp), z)
                 e == Count(Asked(li), z)
                 f == Count(y.heldWakes, z)
                 g == Count(y.queue, z)
                 n == Count(requests, z)
      <3>3. /\ a \in Nat /\ b \in Nat /\ c \in Nat /\ d \in Nat /\ e \in Nat /\ f \in Nat /\ g \in Nat
            /\ n \in Nat /\ f + g = a + c + n
        BY <2>1, <2>2, <2>3, <2>4, Zenon
      <3>4. UnderWay(y, sp, li, z) = f + b + g + d + e /\ UnderWay(x, sp, li, z) = a + b + c + d + e
        BY <3>1, <3>2, Zenon
      <3> HIDE DEF a, b, c, d, e, f, g, n
      <3>5. UnderWay(y, sp, li, z) = UnderWay(x, sp, li, z) + n
        BY <3>3, <3>4
      <3> QED
        BY <3>5 DEF n
  <1>22. ASSUME NEW j \in Jobs PROVE UnderWay(y, sp, li, JobRequest(j)) = UnderWay(x, sp, li, JobRequest(j))
    <2>1. JobRequest(j) \in Requests /\ UnderWay(x, sp, li, JobRequest(j)) \in Nat
      BY Kinds, UnderWayNat
    <2> QED
      BY <1>13, <1>21, <2>1
  <1>23. ASSUME NEW w \in WakeIds, NEW r \in Regs
         PROVE  UnderWay(y, sp, li, WakeRequest(w, r)) =
                  UnderWay(x, sp, li, WakeRequest(w, r))
                  + IF Sending(busy, x, ids, w) /\ x.wakes[w].reg = r THEN Count(ids, w) ELSE 0
    <2>1. WakeRequest(w, r) \in Requests
      BY Kinds
    <2> QED
      BY <1>12, <1>21, <2>1
  <1>24. y.log = Fated(x.wakes, x.log, {w \in WakeIds : Lapsing(x, ids, w)}, "lapsed")
    BY <1>5, <1>20 DEF lg
  <1> QED
    BY <1>1, <1>15, <1>20, <1>22, <1>23, <1>24 DEF HandedOver

-----------------------------------------------------------------------------
(* What a delivery keeps *)

\* What is known of the wakes carries over to a state in which each entry is gone, as it
\* was, or right again.
LEMMA WakesMove ==
  ASSUME NEW x \in States, NEW sp, NEW li, NEW y \in States, NEW tp, NEW mi,
         WakesKnown(x, sp, li),
         Len(y.log) = Len(x.log), \A r \in 1 .. Len(x.log) : y.log[r].id = x.log[r].id,
         \A w \in WakeIds, r \in Regs : UnderWay(y, tp, mi, WakeRequest(w, r)) # 0 =>
            r \in 1 .. Len(x.log) /\ x.log[r].id = w,
         \A w \in WakeIds : y.wakes[w] # Nothing =>
            x.wakes[w] # Nothing /\ y.wakes[w].reg = x.wakes[w].reg,
         \A w \in WakeIds :
            LET r == x.wakes[w].reg IN
            /\ y.wakes[w] # Nothing
            /\ r \in 1 .. Len(x.log) /\ x.log[r].id = w /\ ~Again(x.log, r)
            /\ Right(x.wakes[w], x.log[r].fate, UnderWay(x, sp, li, WakeRequest(w, r)))
            => Right(y.wakes[w], y.log[r].fate, UnderWay(y, tp, mi, WakeRequest(w, r)))
  PROVE  WakesKnown(y, tp, mi)
  <1>1. \A r \in 1 .. Len(x.log) : Again(y.log, r) <=> Again(x.log, r)
    BY DEF Again
  <1>2. ASSUME NEW w \in WakeIds, y.wakes[w] # Nothing
        PROVE  /\ y.wakes[w].reg \in 1 .. Len(y.log) /\ y.log[y.wakes[w].reg].id = w
               /\ ~Again(y.log, y.wakes[w].reg) =>
                    Right(y.wakes[w], y.log[y.wakes[w].reg].fate,
                          UnderWay(y, tp, mi, WakeRequest(w, y.wakes[w].reg)))
    <2> DEFINE r == x.wakes[w].reg
    <2>1. x.wakes[w] # Nothing /\ y.wakes[w].reg = r
      BY <1>2
    <2>2. r \in 1 .. Len(x.log) /\ x.log[r].id = w
      BY <2>1 DEF WakesKnown
    <2>3. ~Again(x.log, r) => Right(x.wakes[w], x.log[r].fate, UnderWay(x, sp, li, WakeRequest(w, r)))
      BY <2>1, Zenon DEF WakesKnown
    <2>4. ~Again(x.log, r) => Right(y.wakes[w], y.log[r].fate, UnderWay(y, tp, mi, WakeRequest(w, r)))
      BY <1>2, <2>2, <2>3, Zenon
    <2> HIDE DEF r
    <2>5. r \in 1 .. Len(y.log) /\ y.log[r].id = w
      BY <2>2
    <2> QED
      BY <1>1, <2>1, <2>2, <2>4, <2>5, Zenon
  <1>3. \A w \in WakeIds, r \in Regs : UnderWay(y, tp, mi, WakeRequest(w, r)) # 0 =>
           r \in 1 .. Len(y.log) /\ y.log[r].id = w
    <2> TAKE w \in WakeIds, r \in Regs
    <2> HAVE UnderWay(y, tp, mi, WakeRequest(w, r)) # 0
    <2>1. r \in 1 .. Len(x.log) /\ x.log[r].id = w
      OBVIOUS
    <2> QED
      BY <2>1
  <1> QED
    BY <1>2, <1>3, Zenon DEF WakesKnown

\* A request on its way is that of the entry, as long as the id is used once.
LEMMA OneRegistration ==
  ASSUME NEW x \in States, NEW sp, NEW li, WakesKnown(x, sp, li),
         NEW w \in WakeIds, NEW r \in Regs, UnderWay(x, sp, li, WakeRequest(w, r)) # 0,
         NEW v \in WakeIds, x.wakes[v] # Nothing, ~Again(x.log, x.wakes[v].reg)
  PROVE  x.wakes[v].reg = r <=> v = w
  <1>1. r \in 1 .. Len(x.log) /\ x.log[r].id = w
    BY DEF WakesKnown
  <1>2. x.wakes[v].reg \in 1 .. Len(x.log) /\ x.log[x.wakes[v].reg].id = v
    BY DEF WakesKnown
  <1> QED
    BY <1>1, <1>2 DEF Again

\* The fate of an entry that does not lapse is left alone.
LEMMA OthersFate ==
  ASSUME NEW x \in States, NEW sp, NEW li, WakesKnown(x, sp, li), NEW gone \in SUBSET WakeIds,
         NEW fate \in Fates
  PROVE  LET e == Fated(x.wakes, x.log, gone, fate) IN
         /\ e \in Seq(Entries) /\ Len(e) = Len(x.log)
         /\ \A r \in 1 .. Len(x.log) : e[r].id = x.log[r].id
                                       /\ (x.log[r].id \notin gone => e[r].fate = x.log[r].fate)
         /\ \A w \in gone : x.wakes[w] # Nothing => e[x.wakes[w].reg].fate = fate
         /\ \A r \in 1 .. Len(x.log) : (\A w \in gone : x.wakes[w] = Nothing \/ x.wakes[w].reg # r)
              => e[r].fate = x.log[r].fate
  <1>1. x.log \in Seq(Entries)
    BY DEF States
  <1> DEFINE e == Fated(x.wakes, x.log, gone, fate)
  <1>2. /\ e \in Seq(Entries) /\ Len(e) = Len(x.log)
        /\ \A r \in 1 .. Len(x.log) :
              /\ e[r].id = x.log[r].id
              /\ e[r].fate = IF \E w \in gone : x.wakes[w] # Nothing /\ x.wakes[w].reg = r
                             THEN fate ELSE x.log[r].fate
    BY <1>1, FatedIs
  <1>3. \A w \in WakeIds : x.wakes[w] # Nothing =>
           x.wakes[w].reg \in 1 .. Len(x.log) /\ x.log[x.wakes[w].reg].id = w
    BY DEF WakesKnown
  <1> HIDE DEF e
  <1>4. \A w \in gone : x.wakes[w] # Nothing => e[x.wakes[w].reg].fate = fate
    BY <1>2, <1>3
  <1>5. ASSUME NEW r \in 1 .. Len(x.log), x.log[r].id \notin gone PROVE e[r].fate = x.log[r].fate
    <2>1. ~ \E w \in gone : x.wakes[w] # Nothing /\ x.wakes[w].reg = r
      BY <1>3, <1>5
    <2> QED
      BY <1>2, <2>1, Zenon
  <1>6. ASSUME NEW r \in 1 .. Len(x.log), \A w \in gone : x.wakes[w] = Nothing \/ x.wakes[w].reg # r
        PROVE  e[r].fate = x.log[r].fate
    <2>1. ~ \E w \in gone : x.wakes[w] # Nothing /\ x.wakes[w].reg = r
      BY <1>6
    <2> QED
      BY <1>2, <2>1, Zenon
  <1>7. e \in Seq(Entries) /\ Len(e) = Len(x.log) /\ \A r \in 1 .. Len(x.log) : e[r].id = x.log[r].id
    BY <1>2
  <1> QED
    BY <1>4, <1>5, <1>6, <1>7 DEF e

\* What handing wakes over does to the registry, in every pass: those that leave it lapse.
Lapsed(x, y) ==
    /\ Len(y.log) = Len(x.log)
    /\ \A w \in WakeIds : x.wakes[w] # Nothing /\ y.wakes[w] = Nothing =>
          y.log[x.wakes[w].reg].fate = "lapsed"
    /\ \A r \in 1 .. Len(x.log) : (\A w \in WakeIds : x.wakes[w] = Nothing \/ x.wakes[w].reg # r)
          => y.log[r].fate = x.log[r].fate

\* A poll hands over the wakes that are due and not marked, each once.
LEMMA WakesPolled ==
  ASSUME NEW x \in States, NEW ids \in Seq(WakeIds), NEW busy \in BOOLEAN,
         NEW sp \in Seq(Tasks), NEW li \in Seq(Tasks), WakesKnown(x, sp, li),
         \A w \in WakeIds : /\ Count(ids, w) <= 1
                            /\ Count(ids, w) # 0 => x.wakes[w] # Nothing /\ x.wakes[w].due /\ ~x.wakes[w].staged
  PROVE  LET y == DeliverWakes(busy, x, ids) IN WakesKnown(y, sp, li) /\ Lapsed(x, y)
  <1> DEFINE y == DeliverWakes(busy, x, ids)
             gone == {w \in WakeIds : Lapsing(x, ids, w)}
  <1>1. /\ y \in States /\ y.log = Fated(x.wakes, x.log, gone, "lapsed")
        /\ \A w \in WakeIds :
             y.wakes[w] = IF Lapsing(x, ids, w) THEN Nothing
                          ELSE IF Sending(busy, x, ids, w) THEN [x.wakes[w] EXCEPT !.staged = TRUE]
                          ELSE x.wakes[w]
        /\ \A w \in WakeIds, r \in Regs :
             UnderWay(y, sp, li, WakeRequest(w, r)) =
               UnderWay(x, sp, li, WakeRequest(w, r))
               + IF Sending(busy, x, ids, w) /\ x.wakes[w].reg = r THEN Count(ids, w) ELSE 0
    <2>1. HandedOver(busy, x, ids, sp, li, y)
      BY WakesHandedOver
    <2> HIDE DEF y
    <2> QED
      BY <2>1, Zenon DEF HandedOver
  <1>2. gone \in SUBSET WakeIds /\ "lapsed" \in Fates
    BY DEF Fates
  <1>5. \A w \in WakeIds : w \in gone <=> Lapsing(x, ids, w)
    OBVIOUS
  <1> HIDE DEF y, gone
  <1>3. /\ Len(y.log) = Len(x.log)
        /\ \A r \in 1 .. Len(x.log) : y.log[r].id = x.log[r].id
                                      /\ (x.log[r].id \notin gone => y.log[r].fate = x.log[r].fate)
        /\ \A w \in gone : x.wakes[w] # Nothing => y.log[x.wakes[w].reg].fate = "lapsed"
        /\ \A r \in 1 .. Len(x.log) : (\A w \in gone : x.wakes[w] = Nothing \/ x.wakes[w].reg # r)
              => y.log[r].fate = x.log[r].fate
    <2>1. LET e == Fated(x.wakes, x.log, gone, "lapsed") IN
          /\ e \in Seq(Entries) /\ Len(e) = Len(x.log)
          /\ \A r \in 1 .. Len(x.log) : e[r].id = x.log[r].id
                                        /\ (x.log[r].id \notin gone => e[r].fate = x.log[r].fate)
          /\ \A w \in gone : x.wakes[w] # Nothing => e[x.wakes[w].reg].fate = "lapsed"
          /\ \A r \in 1 .. Len(x.log) : (\A w \in gone : x.wakes[w] = Nothing \/ x.wakes[w].reg # r)
               => e[r].fate = x.log[r].fate
      BY <1>2, OthersFate, Zenon
    <2>2. y.log = Fated(x.wakes, x.log, gone, "lapsed")
      BY <1>1, Zenon
    <2> QED
      BY <2>1, <2>2
  <1>4. \A w \in WakeIds : x.wakes[w] # Nothing =>
           /\ x.wakes[w] \in [reg : Regs, due : BOOLEAN, staged : BOOLEAN]
           /\ x.wakes[w].reg \in 1 .. Len(x.log) /\ x.log[x.wakes[w].reg].id = w
    BY DEF WakesKnown, States
  <1>6. \A w \in WakeIds : Count(ids, w) \in Nat
    BY CountIs
  <1>7. \A w \in WakeIds, r \in Regs : UnderWay(x, sp, li, WakeRequest(w, r)) \in Nat
    BY UnderWayNat
  <1>8. Nothing \notin [reg : Regs, due : BOOLEAN, staged : BOOLEAN]
    BY NoticesAssumption
  <1>9. \A w \in WakeIds : Sending(busy, x, ids, w) => x.wakes[w] # Nothing /\ Count(ids, w) = 1
    <2> TAKE w \in WakeIds
    <2>1. Count(ids, w) \in Nat
      BY <1>6
    <2> QED
      BY <2>1 DEF Sending, Actionable
  <1>10. \A w \in WakeIds : y.wakes[w] # Nothing => x.wakes[w] # Nothing /\ y.wakes[w].reg = x.wakes[w].reg
    <2> TAKE w \in WakeIds
    <2> HAVE y.wakes[w] # Nothing
    <2>1. y.wakes[w] = IF Sending(busy, x, ids, w) THEN [x.wakes[w] EXCEPT !.staged = TRUE] ELSE x.wakes[w]
      BY <1>1
    <2>2. x.wakes[w] # Nothing
      BY <1>9, <2>1
    <2>3. x.wakes[w] \in [reg : Regs, due : BOOLEAN, staged : BOOLEAN]
      BY <1>4, <2>2
    <2> QED
      BY <2>1, <2>2, <2>3
  <1>11. ASSUME NEW w \in WakeIds, NEW r \in Regs, UnderWay(y, sp, li, WakeRequest(w, r)) # 0
         PROVE  r \in 1 .. Len(x.log) /\ x.log[r].id = w
    <2>1. CASE Sending(busy, x, ids, w) /\ x.wakes[w].reg = r
      BY <1>4, <1>9, <2>1
    <2>2. CASE ~(Sending(busy, x, ids, w) /\ x.wakes[w].reg = r)
      <3>1. UnderWay(y, sp, li, WakeRequest(w, r)) = UnderWay(x, sp, li, WakeRequest(w, r)) + 0
        BY <1>1, <2>2, Zenon
      <3>2. UnderWay(x, sp, li, WakeRequest(w, r)) # 0
        BY <1>7, <1>11, <3>1
      <3> QED
        BY <3>2 DEF WakesKnown
    <2> QED
      BY <2>1, <2>2
  <1>12. ASSUME NEW w \in WakeIds, y.wakes[w] # Nothing,
                x.wakes[w].reg \in 1 .. Len(x.log), x.log[x.wakes[w].reg].id = w,
                Right(x.wakes[w], x.log[x.wakes[w].reg].fate, UnderWay(x, sp, li, WakeRequest(w, x.wakes[w].reg)))
         PROVE  Right(y.wakes[w], y.log[x.wakes[w].reg].fate, UnderWay(y, sp, li, WakeRequest(w, x.wakes[w].reg)))
    <2> DEFINE r == x.wakes[w].reg
               n == UnderWay(x, sp, li, WakeRequest(w, r))
               m == UnderWay(y, sp, li, WakeRequest(w, r))
    <2>1. x.wakes[w] \in [reg : Regs, due : BOOLEAN, staged : BOOLEAN]
      BY <1>4, <1>10, <1>12
    <2>2. w \notin gone /\ ~Lapsing(x, ids, w)
      BY <1>1, <1>5, <1>12
    <2>3. y.log[r].fate = x.log[r].fate
      BY <1>3, <1>12, <2>2
    <2>4. r \in Regs
      BY <2>1
    <2>5. n \in Nat
      BY <1>7, <2>4
    <2>6. m = n + IF Sending(busy, x, ids, w) THEN Count(ids, w) ELSE 0
      BY <1>1, <2>4
    <2>7. y.wakes[w] = IF Sending(busy, x, ids, w) THEN [x.wakes[w] EXCEPT !.staged = TRUE] ELSE x.wakes[w]
      BY <1>1, <2>2
    <2>8. Right(x.wakes[w], x.log[r].fate, n)
      BY <1>12
    <2> HIDE DEF n, m, r
    <2>9. CASE Sending(busy, x, ids, w)
      <3>1. Count(ids, w) = 1 /\ x.wakes[w].due /\ ~x.wakes[w].staged
        BY <1>9, <2>9
      <3>2. n = 0 /\ x.log[r].fate = "open"
        BY <2>8, <3>1 DEF Right
      <3>3. m = 1
        BY <2>6, <2>9, <3>1, <3>2
      <3>4. y.wakes[w].staged /\ y.wakes[w].due
        BY <2>1, <2>7, <2>9, <3>1
      <3> QED
        BY <2>3, <3>2, <3>3, <3>4 DEF Right, r, m
    <2>10. CASE ~Sending(busy, x, ids, w)
      <3>1. m = n /\ y.wakes[w] = x.wakes[w]
        BY <2>5, <2>6, <2>7, <2>10
      <3>2. Right(y.wakes[w], y.log[r].fate, m)
        BY <2>3, <2>8, <3>1
      <3> QED
        BY <3>2 DEF r, m
    <2> QED
      BY <2>9, <2>10
  <1>13. WakesKnown(y, sp, li)
    BY <1>1, <1>3, <1>10, <1>11, <1>12, WakesMove
  <1>14. Lapsed(x, y)
    <2>1. ASSUME NEW w \in WakeIds, x.wakes[w] # Nothing, y.wakes[w] = Nothing
          PROVE  y.log[x.wakes[w].reg].fate = "lapsed"
      <3>1. x.wakes[w] \in [reg : Regs, due : BOOLEAN, staged : BOOLEAN]
        BY <1>4, <2>1
      <3>2. [x.wakes[w] EXCEPT !.staged = TRUE] # Nothing
        BY <1>8, <3>1
      <3>3. Lapsing(x, ids, w)
        BY <1>1, <2>1, <3>2
      <3> QED
        BY <1>3, <1>5, <2>1, <3>3
    <2>2. gone \subseteq WakeIds
      BY <1>2
    <2>3. ASSUME NEW r \in 1 .. Len(x.log), \A w \in WakeIds : x.wakes[w] = Nothing \/ x.wakes[w].reg # r
          PROVE  y.log[r].fate = x.log[r].fate
      <3>1. \A w \in gone : x.wakes[w] = Nothing \/ x.wakes[w].reg # r
        BY <2>2, <2>3
      <3> QED
        BY <1>3, <3>1
    <2> QED
      BY <1>3, <2>1, <2>3 DEF Lapsed
  <1> QED
    BY <1>13, <1>14 DEF y

\* What is held back leaves no trace when it is taken out.
LEMMA NotesOut ==
  ASSUME NEW x \in States, NEW sp \in Seq(Tasks), NEW li \in Seq(Tasks)
  PROVE  LET y == [x EXCEPT !.heldNotes = <<>>]
             jobs == [i \in 1 .. Len(x.heldNotes) |-> x.heldNotes[i].job] IN
         /\ y \in States /\ y.wakes = x.wakes /\ y.heldWakes = x.heldWakes /\ y.log = x.log
         /\ y.rec = x.rec /\ y.tracked = x.tracked /\ y.heldNotes = <<>>
         /\ jobs \in Seq(Jobs)
         /\ \A j \in Jobs :
              /\ Count(jobs, j) = Count(x.heldNotes, JobRequest(j))
              /\ UnderWay(x, sp, li, JobRequest(j)) = UnderWay(y, sp, li, JobRequest(j)) + Count(jobs, j)
         /\ \A w \in WakeIds, r \in Regs :
              UnderWay(y, sp, li, WakeRequest(w, r)) = UnderWay(x, sp, li, WakeRequest(w, r))
  <1> DEFINE y == [x EXCEPT !.heldNotes = <<>>]
             h == x.heldNotes
             jobs == [i \in 1 .. Len(h) |-> h[i].job]
  <1>1. /\ y \in States /\ y.wakes = x.wakes /\ y.heldWakes = x.heldWakes /\ y.log = x.log
        /\ y.rec = x.rec /\ y.tracked = x.tracked /\ y.heldNotes = <<>> /\ y.queue = x.queue
    <2>1. <<>> \in Seq(JobRequests(Jobs))
      OBVIOUS
    <2> QED
      BY <2>1 DEF States
  <1>2. h \in Seq(JobRequests(Jobs))
    BY DEF States
  <1> HIDE DEF h
  <1>3. Len(h) \in Nat /\ \A i \in 1 .. Len(h) : h[i] \in JobRequests(Jobs)
    BY <1>2
  <1>4. \A i \in 1 .. Len(h) : h[i].job \in Jobs /\ h[i] = JobRequest(h[i].job)
    BY <1>3 DEF JobRequests, JobRequest
  <1>5. Len(jobs) = Len(h) /\ \A i \in 1 .. Len(h) : jobs[i] = h[i].job
    BY <1>3
  <1>6. jobs \in Seq(Jobs)
    BY <1>3, <1>4
  <1> HIDE DEF y, jobs
  <1>7. ASSUME NEW j \in Jobs PROVE Count(jobs, j) = Count(h, JobRequest(j))
    <2>1. {i \in 1 .. Len(jobs) : jobs[i] = j} = {i \in 1 .. Len(h) : h[i] = JobRequest(j)}
      BY <1>4, <1>5, SameRequest
    <2> QED
      BY <2>1 DEF Count
  <1>8. \A z : UnderWay(x, sp, li, z) = UnderWay(y, sp, li, z) + Count(h, z)
    <2> TAKE z
    <2>1. Count(<<>>, z) = 0
      BY CountNothing
    <2>2. UnderWay(y, sp, li, z) = Count(x.heldWakes, z) + 0 + Count(x.queue, z)
                                   + Count(Asked(sp), z) + Count(Asked(li), z)
      BY <1>1, <2>1 DEF UnderWay
    <2>3. UnderWay(x, sp, li, z) = Count(x.heldWakes, z) + Count(h, z) + Count(x.queue, z)
                                   + Count(Asked(sp), z) + Count(Asked(li), z)
      BY DEF UnderWay, h
    <2>4. /\ Count(x.heldWakes, z) \in Nat /\ Count(h, z) \in Nat /\ Count(x.queue, z) \in Nat
          /\ Count(Asked(sp), z) \in Nat /\ Count(Asked(li), z) \in Nat
      BY UnderWayNat DEF h
    <2> QED
      BY <2>2, <2>3, <2>4
  <1>9. ASSUME NEW w \in WakeIds, NEW r \in Regs
        PROVE  UnderWay(y, sp, li, WakeRequest(w, r)) = UnderWay(x, sp, li, WakeRequest(w, r))
    <2>1. Count(h, WakeRequest(w, r)) = 0
      BY HeldApart DEF h
    <2>2. UnderWay(y, sp, li, WakeRequest(w, r)) \in Nat
      BY <1>1, UnderWayNat
    <2> QED
      BY <1>8, <2>1, <2>2
  <1> QED
    BY <1>1, <1>6, <1>7, <1>8, <1>9 DEF y, h, jobs

\* The same for the wakes that are held back.
LEMMA WakesOut ==
  ASSUME NEW x \in States, NEW sp \in Seq(Tasks), NEW li \in Seq(Tasks)
  PROVE  LET y == [x EXCEPT !.heldWakes = <<>>] IN
         /\ y \in States /\ y.wakes = x.wakes /\ y.heldWakes = <<>> /\ y.log = x.log
         /\ y.rec = x.rec /\ y.tracked = x.tracked /\ y.heldNotes = x.heldNotes
         /\ \A j \in Jobs : UnderWay(y, sp, li, JobRequest(j)) = UnderWay(x, sp, li, JobRequest(j))
         /\ \A w \in WakeIds, r \in Regs :
              UnderWay(x, sp, li, WakeRequest(w, r)) =
                UnderWay(y, sp, li, WakeRequest(w, r)) + Count(x.heldWakes, WakeRequest(w, r))
  <1> DEFINE y == [x EXCEPT !.heldWakes = <<>>]
             h == x.heldWakes
  <1>1. /\ y \in States /\ y.wakes = x.wakes /\ y.heldWakes = <<>> /\ y.log = x.log
        /\ y.rec = x.rec /\ y.tracked = x.tracked /\ y.heldNotes = x.heldNotes /\ y.queue = x.queue
    <2>1. <<>> \in Seq(WakeRequests(WakeIds))
      OBVIOUS
    <2> QED
      BY <2>1 DEF States
  <1> HIDE DEF y, h
  <1>2. \A z : UnderWay(x, sp, li, z) = UnderWay(y, sp, li, z) + Count(h, z)
    <2> TAKE z
    <2>1. Count(<<>>, z) = 0
      BY CountNothing
    <2>2. UnderWay(y, sp, li, z) = 0 + Count(x.heldNotes, z) + Count(x.queue, z)
                                   + Count(Asked(sp), z) + Count(Asked(li), z)
      BY <1>1, <2>1 DEF UnderWay
    <2>3. UnderWay(x, sp, li, z) = Count(h, z) + Count(x.heldNotes, z) + Count(x.queue, z)
                                   + Count(Asked(sp), z) + Count(Asked(li), z)
      BY DEF UnderWay, h
    <2>4. /\ Count(h, z) \in Nat /\ Count(x.heldNotes, z) \in Nat /\ Count(x.queue, z) \in Nat
          /\ Count(Asked(sp), z) \in Nat /\ Count(Asked(li), z) \in Nat
      BY UnderWayNat DEF h
    <2> QED
      BY <2>2, <2>3, <2>4
  <1>3. ASSUME NEW j \in Jobs
        PROVE  UnderWay(y, sp, li, JobRequest(j)) = UnderWay(x, sp, li, JobRequest(j))
    <2>1. Count(h, JobRequest(j)) = 0
      BY HeldApart DEF h
    <2>2. UnderWay(y, sp, li, JobRequest(j)) \in Nat
      BY <1>1, UnderWayNat
    <2> QED
      BY <1>2, <2>1, <2>2
  <1> QED
    BY <1>1, <1>2, <1>3 DEF y, h

\* The ids of the wakes that are held back, as often as they are.
LEMMA HeldIds ==
  ASSUME NEW x \in States, NEW sp \in Seq(Tasks), NEW li \in Seq(Tasks), WakesKnown(x, sp, li)
  PROVE  LET ids == [i \in 1 .. Len(x.heldWakes) |-> x.heldWakes[i].wake] IN
         /\ ids \in Seq(WakeIds)
         /\ \A w \in WakeIds : x.wakes[w] # Nothing /\ ~Again(x.log, x.wakes[w].reg) =>
               Count(ids, w) = Count(x.heldWakes, WakeRequest(w, x.wakes[w].reg))
  <1> DEFINE h == x.heldWakes
             ids == [i \in 1 .. Len(h) |-> h[i].wake]
  <1>1. h \in Seq(WakeRequests(WakeIds))
    BY DEF States
  <1> HIDE DEF h
  <1>2. Len(h) \in Nat /\ \A i \in 1 .. Len(h) : h[i] \in WakeRequests(WakeIds)
    BY <1>1
  <1>3. \A i \in 1 .. Len(h) : h[i].wake \in WakeIds /\ h[i].reg \in Regs /\ h[i] = WakeRequest(h[i].wake, h[i].reg)
    BY <1>2 DEF WakeRequests, WakeRequest
  <1>4. Len(ids) = Len(h) /\ \A i \in 1 .. Len(h) : ids[i] = h[i].wake
    BY <1>2
  <1>5. ids \in Seq(WakeIds)
    BY <1>2, <1>3
  <1> HIDE DEF ids
  <1>6. ASSUME NEW w \in WakeIds, x.wakes[w] # Nothing, ~Again(x.log, x.wakes[w].reg)
        PROVE  Count(ids, w) = Count(h, WakeRequest(w, x.wakes[w].reg))
    <2>1. x.wakes[w].reg \in Regs
      BY <1>6 DEF States
    <2>2. ASSUME NEW i \in 1 .. Len(h), h[i].wake = w PROVE h[i] = WakeRequest(w, x.wakes[w].reg)
      <3>1. h[i] = WakeRequest(w, h[i].reg) /\ h[i].reg \in Regs
        BY <1>3, <2>2
      <3>2. Count(h, WakeRequest(w, h[i].reg)) # 0
        BY <1>1, <3>1, CountIs
      <3>3. UnderWay(x, sp, li, WakeRequest(w, h[i].reg)) # 0
        <4> DEFINE z == WakeRequest(w, h[i].reg)
        <4>1. /\ Count(h, z) \in Nat /\ Count(x.heldNotes, z) \in Nat /\ Count(x.queue, z) \in Nat
              /\ Count(Asked(sp), z) \in Nat /\ Count(Asked(li), z) \in Nat
          BY UnderWayNat DEF h
        <4>2. UnderWay(x, sp, li, z) = Count(h, z) + Count(x.heldNotes, z) + Count(x.queue, z)
                                   + Count(Asked(sp), z) + Count(Asked(li), z)
          BY DEF UnderWay, h
        <4>3. Count(h, z) # 0
          BY <3>2
        <4> HIDE DEF z
        <4>4. UnderWay(x, sp, li, z) # 0
          BY <4>1, <4>2, <4>3
        <4> QED
          BY <4>4 DEF z
      <3>4. x.wakes[w].reg = h[i].reg
        BY <1>6, <3>1, <3>3, OneRegistration
      <3> QED
        BY <3>1, <3>4
    <2>3. \A i \in 1 .. Len(h) : h[i] = WakeRequest(w, x.wakes[w].reg) => h[i].wake = w
      BY SameRequest
    <2>4. {i \in 1 .. Len(ids) : ids[i] = w} = {i \in 1 .. Len(h) : h[i] = WakeRequest(w, x.wakes[w].reg)}
      BY <1>4, <2>2, <2>3
    <2> QED
      BY <2>4 DEF Count
  <1> QED
    BY <1>5, <1>6 DEF ids, h

\* The flush hands over what was held back: nothing changes for a wake or a job but that
\* its request is in the queue now, a job's record is done and a wake may lapse.
LEMMA FlushKeeps ==
  ASSUME NEW x \in States, NEW sp \in Seq(Tasks), NEW li \in Seq(Tasks), NEW stood, NEW heard,
         NEW visits \in Seq(Jobs), NEW notes \in Seq(Jobs),
         WakesKnown(x, sp, li), JobsKnown(x, sp, li, stood, heard, visits, notes)
  PROVE  LET z == Flushed(x) IN
         /\ z \in States /\ z.heldWakes = <<>> /\ z.heldNotes = <<>>
         /\ WakesKnown(z, sp, li) /\ Lapsed(x, z)
         /\ JobsKnown(z, sp, li, stood, heard, visits, notes)
         /\ \A j \in Jobs : Count(visits, j) # 0 /\ x.rec[j] = "tracked" => z.rec[j] = "tracked"
  <1> DEFINE jobs == [i \in 1 .. Len(x.heldNotes) |-> x.heldNotes[i].job]
             ids == [i \in 1 .. Len(x.heldWakes) |-> x.heldWakes[i].wake]
             a == [x EXCEPT !.heldNotes = <<>>]
             b == DeliverNotes(FALSE, a, jobs)
             c == [b EXCEPT !.heldWakes = <<>>]
             z == DeliverWakes(FALSE, c, ids)
  <1>1. Flushed(x) = z
    BY DEF Flushed
  <1>2. /\ a \in States /\ a.wakes = x.wakes /\ a.heldWakes = x.heldWakes /\ a.log = x.log
        /\ a.rec = x.rec /\ a.tracked = x.tracked /\ a.heldNotes = <<>>
        /\ jobs \in Seq(Jobs)
        /\ \A j \in Jobs :
             /\ Count(jobs, j) = Count(x.heldNotes, JobRequest(j))
             /\ UnderWay(x, sp, li, JobRequest(j)) = UnderWay(a, sp, li, JobRequest(j)) + Count(jobs, j)
        /\ \A w \in WakeIds, r \in Regs :
             UnderWay(a, sp, li, WakeRequest(w, r)) = UnderWay(x, sp, li, WakeRequest(w, r))
    BY NotesOut
  <1>3. ids \in Seq(WakeIds)
        /\ \A w \in WakeIds : x.wakes[w] # Nothing /\ ~Again(x.log, x.wakes[w].reg) =>
               Count(ids, w) = Count(x.heldWakes, WakeRequest(w, x.wakes[w].reg))
    BY HeldIds
  <1> HIDE DEF jobs, ids, a
  <1>4. /\ b \in States /\ b.wakes = a.wakes /\ b.heldWakes = a.heldWakes
        /\ b.log = a.log /\ b.heldNotes = a.heldNotes
        /\ \A j \in Jobs :
             /\ j \in b.tracked <=> j \in a.tracked /\ Count(jobs, j) = 0
             /\ b.rec[j] = IF Count(jobs, j) # 0 /\ j \in a.tracked THEN "notified" ELSE a.rec[j]
             /\ UnderWay(b, sp, li, JobRequest(j)) = UnderWay(a, sp, li, JobRequest(j)) + Count(jobs, j)
        /\ \A w \in WakeIds, r \in Regs :
             UnderWay(b, sp, li, WakeRequest(w, r)) = UnderWay(a, sp, li, WakeRequest(w, r))
    <2>1. NotesQueued(a, jobs, sp, li, b)
      BY <1>2, NotesIdle
    <2> HIDE DEF b
    <2> QED
      BY <2>1 DEF NotesQueued
  <1> HIDE DEF b
  <1>5. /\ c \in States /\ c.wakes = b.wakes /\ c.heldWakes = <<>> /\ c.log = b.log
        /\ c.rec = b.rec /\ c.tracked = b.tracked /\ c.heldNotes = b.heldNotes
        /\ \A j \in Jobs : UnderWay(c, sp, li, JobRequest(j)) = UnderWay(b, sp, li, JobRequest(j))
        /\ \A w \in WakeIds, r \in Regs :
             UnderWay(b, sp, li, WakeRequest(w, r)) =
               UnderWay(c, sp, li, WakeRequest(w, r)) + Count(b.heldWakes, WakeRequest(w, r))
    BY <1>4, WakesOut
  <1> HIDE DEF c
  <1>6. HandedOver(FALSE, c, ids, sp, li, z)
    BY <1>3, <1>5, WakesHandedOver
  <1> HIDE DEF z
  <1> DEFINE gone == {w \in WakeIds : Lapsing(c, ids, w)}
  <1>7. /\ z \in States /\ z.rec = b.rec /\ z.tracked = b.tracked /\ z.heldNotes = <<>> /\ z.heldWakes = <<>>
        /\ z.log = Fated(x.wakes, x.log, gone, "lapsed")
    BY <1>2, <1>4, <1>5, <1>6 DEF HandedOver
  <1>8. \A w \in WakeIds :
          z.wakes[w] = IF Lapsing(c, ids, w) THEN Nothing
                       ELSE IF Sending(FALSE, c, ids, w) THEN [x.wakes[w] EXCEPT !.staged = TRUE]
                       ELSE x.wakes[w]
    <2>1. c.wakes = x.wakes
      BY <1>2, <1>4, <1>5
    <2>2. \A w \in WakeIds :
            z.wakes[w] = IF Lapsing(c, ids, w) THEN Nothing
                         ELSE IF Sending(FALSE, c, ids, w) THEN [c.wakes[w] EXCEPT !.staged = TRUE]
                         ELSE c.wakes[w]
      BY <1>6, Zenon DEF HandedOver
    <2> QED
      BY <2>1, <2>2
  <1>9. \A w \in WakeIds : w \in gone <=> Lapsing(c, ids, w)
    OBVIOUS
  <1>10. gone \in SUBSET WakeIds /\ "lapsed" \in Fates
    BY DEF Fates
  <1>11. \A w \in WakeIds : Sending(FALSE, c, ids, w) => x.wakes[w] # Nothing
    BY <1>2, <1>4, <1>5 DEF Sending, Actionable
  <1>12. \A w \in WakeIds : Sending(FALSE, c, ids, w) <=> Count(ids, w) # 0 /\ ~Lapsing(c, ids, w)
    BY DEF Sending, Lapsing
  <1>13. \A w \in WakeIds, r \in Regs :
           UnderWay(z, sp, li, WakeRequest(w, r)) =
             UnderWay(c, sp, li, WakeRequest(w, r))
             + IF Sending(FALSE, c, ids, w) /\ x.wakes[w].reg = r THEN Count(ids, w) ELSE 0
    <2>1. c.wakes = x.wakes
      BY <1>2, <1>4, <1>5
    <2>2. \A w \in WakeIds, r \in Regs :
           UnderWay(z, sp, li, WakeRequest(w, r)) =
             UnderWay(c, sp, li, WakeRequest(w, r))
             + IF Sending(FALSE, c, ids, w) /\ c.wakes[w].reg = r THEN Count(ids, w) ELSE 0
      BY <1>6, Zenon DEF HandedOver
    <2> QED
      BY <2>1, <2>2
  <1>14. \A w \in WakeIds, r \in Regs :
           /\ UnderWay(x, sp, li, WakeRequest(w, r)) =
                UnderWay(c, sp, li, WakeRequest(w, r)) + Count(x.heldWakes, WakeRequest(w, r))
           /\ UnderWay(c, sp, li, WakeRequest(w, r)) \in Nat
           /\ Count(x.heldWakes, WakeRequest(w, r)) \in Nat
    <2>1. \A q : Count(x.heldWakes, q) \in Nat
      BY UnderWayNat
    <2>2. \A q : UnderWay(c, sp, li, q) \in Nat
      BY <1>5, UnderWayNat
    <2>3. b.heldWakes = x.heldWakes
      BY <1>2, <1>4
    <2> QED
      BY <1>2, <1>4, <1>5, <2>1, <2>2, <2>3
  <1>15. \A j \in Jobs : UnderWay(z, sp, li, JobRequest(j)) = UnderWay(x, sp, li, JobRequest(j))
    BY <1>2, <1>4, <1>5, <1>6 DEF HandedOver
  <1> HIDE DEF gone
  <1>16. /\ Len(z.log) = Len(x.log)
         /\ \A r \in 1 .. Len(x.log) : z.log[r].id = x.log[r].id
                                       /\ (x.log[r].id \notin gone => z.log[r].fate = x.log[r].fate)
         /\ \A w \in gone : x.wakes[w] # Nothing => z.log[x.wakes[w].reg].fate = "lapsed"
         /\ \A r \in 1 .. Len(x.log) : (\A w \in gone : x.wakes[w] = Nothing \/ x.wakes[w].reg # r)
               => z.log[r].fate = x.log[r].fate
    <2>1. LET e == Fated(x.wakes, x.log, gone, "lapsed") IN
          /\ e \in Seq(Entries) /\ Len(e) = Len(x.log)
          /\ \A r \in 1 .. Len(x.log) : e[r].id = x.log[r].id
                                        /\ (x.log[r].id \notin gone => e[r].fate = x.log[r].fate)
          /\ \A w \in gone : x.wakes[w] # Nothing => e[x.wakes[w].reg].fate = "lapsed"
          /\ \A r \in 1 .. Len(x.log) : (\A w \in gone : x.wakes[w] = Nothing \/ x.wakes[w].reg # r)
               => e[r].fate = x.log[r].fate
      BY <1>10, OthersFate, Zenon
    <2> QED
      BY <1>7, <2>1
  <1>17. \A w \in WakeIds : x.wakes[w] # Nothing =>
           /\ x.wakes[w] \in [reg : Regs, due : BOOLEAN, staged : BOOLEAN]
           /\ x.wakes[w].reg \in 1 .. Len(x.log) /\ x.log[x.wakes[w].reg].id = w
    BY DEF WakesKnown, States
  <1>18. \A w \in WakeIds : z.wakes[w] # Nothing => x.wakes[w] # Nothing /\ z.wakes[w].reg = x.wakes[w].reg
    <2> TAKE w \in WakeIds
    <2> HAVE z.wakes[w] # Nothing
    <2>1. z.wakes[w] = IF Sending(FALSE, c, ids, w) THEN [x.wakes[w] EXCEPT !.staged = TRUE] ELSE x.wakes[w]
      BY <1>8
    <2>2. x.wakes[w] # Nothing
      BY <1>11, <2>1
    <2>3. x.wakes[w] \in [reg : Regs, due : BOOLEAN, staged : BOOLEAN]
      BY <1>17, <2>2
    <2> QED
      BY <2>1, <2>2, <2>3
  <1>19. ASSUME NEW w \in WakeIds, NEW r \in Regs, UnderWay(z, sp, li, WakeRequest(w, r)) # 0
         PROVE  r \in 1 .. Len(x.log) /\ x.log[r].id = w
    <2>1. CASE Sending(FALSE, c, ids, w) /\ x.wakes[w].reg = r
      BY <1>11, <1>17, <2>1
    <2>2. CASE ~(Sending(FALSE, c, ids, w) /\ x.wakes[w].reg = r)
      <3>1. UnderWay(z, sp, li, WakeRequest(w, r)) = UnderWay(c, sp, li, WakeRequest(w, r)) + 0
        BY <1>13, <2>2, Zenon
      <3>2. UnderWay(x, sp, li, WakeRequest(w, r)) # 0
        BY <1>14, <1>19, <3>1
      <3> QED
        BY <3>2 DEF WakesKnown
    <2> QED
      BY <2>1, <2>2
  <1>20. ASSUME NEW w \in WakeIds, z.wakes[w] # Nothing,
                x.wakes[w].reg \in 1 .. Len(x.log), x.log[x.wakes[w].reg].id = w, ~Again(x.log, x.wakes[w].reg),
                Right(x.wakes[w], x.log[x.wakes[w].reg].fate, UnderWay(x, sp, li, WakeRequest(w, x.wakes[w].reg)))
         PROVE  Right(z.wakes[w], z.log[x.wakes[w].reg].fate, UnderWay(z, sp, li, WakeRequest(w, x.wakes[w].reg)))
    <2> DEFINE r == x.wakes[w].reg
               n == UnderWay(x, sp, li, WakeRequest(w, r))
               m == UnderWay(z, sp, li, WakeRequest(w, r))
               k == UnderWay(c, sp, li, WakeRequest(w, r))
               h == Count(ids, w)
    <2>1. x.wakes[w] # Nothing /\ x.wakes[w] \in [reg : Regs, due : BOOLEAN, staged : BOOLEAN]
      BY <1>17, <1>18, <1>20
    <2>2. w \notin gone /\ ~Lapsing(c, ids, w)
      BY <1>8, <1>9, <1>20
    <2>3. z.log[r].fate = x.log[r].fate
      BY <1>16, <1>20, <2>2
    <2>4. r \in Regs
      BY <2>1
    <2>5. h = Count(x.heldWakes, WakeRequest(w, r))
      BY <1>3, <1>20, <2>1
    <2>6. n = k + h /\ k \in Nat /\ h \in Nat
      BY <1>14, <2>4, <2>5
    <2>7. m = k + IF Sending(FALSE, c, ids, w) THEN h ELSE 0
      BY <1>13, <2>4
    <2>8. z.wakes[w] = IF Sending(FALSE, c, ids, w) THEN [x.wakes[w] EXCEPT !.staged = TRUE] ELSE x.wakes[w]
      BY <1>8, <2>2
    <2>9. Sending(FALSE, c, ids, w) <=> h # 0
      BY <1>12, <2>2
    <2>10. Right(x.wakes[w], x.log[r].fate, n)
      BY <1>20
    <2> HIDE DEF n, m, r, k, h
    <2>11. m = n
      BY <2>6, <2>7, <2>9
    <2>12. h # 0 => x.wakes[w].staged
      BY <2>6, <2>10 DEF Right
    <2>13. z.wakes[w] = x.wakes[w]
      BY <2>1, <2>8, <2>9, <2>12
    <2>14. Right(z.wakes[w], z.log[r].fate, m)
      BY <2>3, <2>10, <2>11, <2>13
    <2> QED
      BY <2>14 DEF r, m
  <1>21. WakesKnown(z, sp, li)
    BY <1>7, <1>16, <1>18, <1>19, <1>20, WakesMove
  <1>22. Lapsed(x, z)
    <2>0. Nothing \notin [reg : Regs, due : BOOLEAN, staged : BOOLEAN]
      BY NoticesAssumption
    <2>1. ASSUME NEW w \in WakeIds, x.wakes[w] # Nothing, z.wakes[w] = Nothing
          PROVE  z.log[x.wakes[w].reg].fate = "lapsed"
      <3>1. x.wakes[w] \in [reg : Regs, due : BOOLEAN, staged : BOOLEAN]
        BY <1>17, <2>1
      <3>2. [x.wakes[w] EXCEPT !.staged = TRUE] # Nothing
        BY <2>0, <3>1
      <3>3. Lapsing(c, ids, w)
        BY <1>8, <2>1, <3>2
      <3> QED
        BY <1>9, <1>16, <2>1, <3>3
    <2>2. gone \subseteq WakeIds
      BY <1>10
    <2>3. ASSUME NEW r \in 1 .. Len(x.log), \A w \in WakeIds : x.wakes[w] = Nothing \/ x.wakes[w].reg # r
          PROVE  z.log[r].fate = x.log[r].fate
      <3>1. \A w \in gone : x.wakes[w] = Nothing \/ x.wakes[w].reg # r
        BY <2>2, <2>3
      <3> QED
        BY <1>16, <3>1
    <2> QED
      BY <1>16, <2>1, <2>3 DEF Lapsed
  <1>23. ASSUME NEW j \in Jobs
         PROVE  /\ JobRight(z.rec[j], j \in z.tracked, stood[j], heard[j], Count(visits, j), Count(notes, j),
                            Count(z.heldNotes, JobRequest(j)), UnderWay(z, sp, li, JobRequest(j)))
                /\ Count(visits, j) # 0 /\ x.rec[j] = "tracked" => z.rec[j] = "tracked"
    <2> DEFINE h == Count(x.heldNotes, JobRequest(j))
               n == UnderWay(x, sp, li, JobRequest(j))
               v == Count(visits, j)
               f == Count(notes, j)
    <2>1. JobRight(x.rec[j], j \in x.tracked, stood[j], heard[j], v, f, h, n)
      BY DEF JobsKnown
    <2>2. h \in Nat /\ n \in Nat /\ v \in Nat /\ f \in Nat
      BY UnderWayNat, CountIs
    <2>3. /\ j \in z.tracked <=> j \in x.tracked /\ h = 0
          /\ z.rec[j] = IF h # 0 /\ j \in x.tracked THEN "notified" ELSE x.rec[j]
      BY <1>2, <1>4, <1>7
    <2>4. Count(z.heldNotes, JobRequest(j)) = 0 /\ UnderWay(z, sp, li, JobRequest(j)) = n
      BY <1>7, <1>15, CountNothing
    <2> HIDE DEF h, n, v, f
    <2>5. JobRight(z.rec[j], j \in z.tracked, stood[j], heard[j], v, f, 0, n)
          /\ (v # 0 /\ x.rec[j] = "tracked" => z.rec[j] = "tracked")
      <3>1. CASE h = 0
        BY <2>1, <2>2, <2>3, <3>1 DEF JobRight
      <3>2. CASE h # 0
        <4>1. n = 1
          BY <2>1, <2>2, <3>2 DEF JobRight
        <4>2. j \notin z.tracked
          BY <2>3, <3>2
        <4>3. ~(v + f # 0 /\ x.rec[j] = "tracked") /\ (f # 0 => x.rec[j] = "tracked")
          BY <2>1, <4>1 DEF JobRight
        <4>4. f = 0 /\ (v # 0 => x.rec[j] # "tracked")
          BY <2>2, <4>3
        <4>5. z.rec[j] = "tracked" => x.rec[j] = "tracked"
          BY <2>3
        <4> QED
          BY <2>1, <2>2, <4>1, <4>2, <4>4, <4>5 DEF JobRight
      <3> QED
        BY <3>1, <3>2
    <2> QED
      BY <2>4, <2>5 DEF v, f
  <1>24. JobsKnown(z, sp, li, stood, heard, visits, notes)
    BY <1>23 DEF JobsKnown
  <1> QED
    BY <1>1, <1>7, <1>21, <1>22, <1>23, <1>24

PolledNotes(busy, x, sp, li, stood, heard, y) ==
    /\ y \in States /\ y.wakes = x.wakes /\ y.log = x.log /\ y.heldWakes = x.heldWakes
    /\ ~busy => y.heldNotes = x.heldNotes
    /\ WakesKnown(y, sp, li) /\ JobsKnown(y, sp, li, stood, heard, <<>>, <<>>)

\* A poll's notes are held back, or queued with their jobs no longer tracked.
LEMMA NotesPolled ==
  ASSUME NEW x \in States, NEW sp \in Seq(Tasks), NEW li \in Seq(Tasks), NEW stood, NEW heard,
         NEW notes \in Seq(Jobs), NEW busy \in BOOLEAN,
         WakesKnown(x, sp, li), JobsKnown(x, sp, li, stood, heard, <<>>, notes)
  PROVE  PolledNotes(busy, x, sp, li, stood, heard, DeliverNotes(busy, x, notes))
  <1> DEFINE y == DeliverNotes(busy, x, notes)
  <1>1. CASE busy = TRUE
    <2>1. NotesHeld(x, notes, sp, li, y)
      BY <1>1, NotesBusy
    <2> HIDE DEF y
    <2>2. /\ y \in States /\ y.wakes = x.wakes /\ y.heldWakes = x.heldWakes
          /\ y.log = x.log /\ y.tracked = x.tracked
          /\ \A w \in WakeIds, r \in Regs :
               UnderWay(y, sp, li, WakeRequest(w, r)) = UnderWay(x, sp, li, WakeRequest(w, r))
      BY <2>1 DEF NotesHeld
    <2>3. WakesKnown(y, sp, li)
      <3>1. \A w \in WakeIds : x.wakes[w] # Nothing => x.wakes[w].reg \in Regs
        BY DEF States
      <3> QED
        BY <2>2, <3>1 DEF WakesKnown
    <2>4. ASSUME NEW j \in Jobs
          PROVE  JobRight(y.rec[j], j \in y.tracked, stood[j], heard[j], Count(<<>>, j), Count(<<>>, j),
                          Count(y.heldNotes, JobRequest(j)), UnderWay(y, sp, li, JobRequest(j)))
      <3> DEFINE h == Count(x.heldNotes, JobRequest(j))
                 n == UnderWay(x, sp, li, JobRequest(j))
                 f == Count(notes, j)
                 g == Count(y.heldNotes, JobRequest(j))
                 m == UnderWay(y, sp, li, JobRequest(j))
                 s == Fresh(x, notes, j)
      <3>0. Count(<<>>, j) = 0
        BY CountNothing
      <3>1. JobRight(x.rec[j], j \in x.tracked, stood[j], heard[j], 0, f, h, n)
        BY <3>0 DEF JobsKnown
      <3>2. h \in Nat /\ n \in Nat /\ f \in Nat
        BY UnderWayNat, CountIs
      <3>3. /\ g = h + s /\ m = n + s /\ y.tracked = x.tracked
            /\ y.rec[j] = IF s # 0 /\ j \in x.tracked THEN "staged" ELSE x.rec[j]
        BY <2>1 DEF NotesHeld
      <3>4. s = IF j \in x.tracked /\ x.rec[j] = "staged" THEN 0 ELSE f
        BY DEF Fresh
      <3> HIDE DEF h, n, f, g, m, s
      <3>5. JobRight(y.rec[j], j \in y.tracked, stood[j], heard[j], 0, 0, g, m)
        <4>1. CASE f = 0
          <5>1. s = 0
            BY <3>4, <4>1
          <5>2. g = h /\ m = n /\ y.rec[j] = x.rec[j]
            BY <3>2, <3>3, <5>1
          <5> QED
            BY <3>1, <3>2, <3>3, <4>1, <5>2 DEF JobRight
        <4>2. CASE f # 0
          <5>1. f = 1 /\ x.rec[j] = "tracked" /\ n = 0 /\ h = 0 /\ stood[j] # "none"
            BY <3>1, <3>2, <4>2 DEF JobRight
          <5>2. s = 1 /\ g = 1 /\ m = 1
            BY <3>3, <3>4, <5>1
          <5>3. y.rec[j] = IF j \in x.tracked THEN "staged" ELSE "tracked"
            BY <3>3, <5>1, <5>2
          <5> QED
            BY <3>3, <5>1, <5>2, <5>3 DEF JobRight
        <4> QED
          BY <4>1, <4>2
      <3> QED
        BY <3>0, <3>5 DEF g, m
    <2>5. JobsKnown(y, sp, li, stood, heard, <<>>, <<>>)
      BY <2>4 DEF JobsKnown
    <2> QED
      BY <1>1, <2>2, <2>3, <2>5 DEF y, PolledNotes
  <1>2. CASE busy = FALSE
    <2>1. NotesQueued(x, notes, sp, li, y)
      BY <1>2, NotesIdle
    <2> HIDE DEF y
    <2>2. /\ y \in States /\ y.wakes = x.wakes /\ y.heldWakes = x.heldWakes
          /\ y.log = x.log /\ y.heldNotes = x.heldNotes
          /\ \A w \in WakeIds, r \in Regs :
               UnderWay(y, sp, li, WakeRequest(w, r)) = UnderWay(x, sp, li, WakeRequest(w, r))
      BY <2>1 DEF NotesQueued
    <2>3. WakesKnown(y, sp, li)
      <3>1. \A w \in WakeIds : x.wakes[w] # Nothing => x.wakes[w].reg \in Regs
        BY DEF States
      <3> QED
        BY <2>2, <3>1 DEF WakesKnown
    <2>4. ASSUME NEW j \in Jobs
          PROVE  JobRight(y.rec[j], j \in y.tracked, stood[j], heard[j], Count(<<>>, j), Count(<<>>, j),
                          Count(y.heldNotes, JobRequest(j)), UnderWay(y, sp, li, JobRequest(j)))
      <3> DEFINE h == Count(x.heldNotes, JobRequest(j))
                 n == UnderWay(x, sp, li, JobRequest(j))
                 f == Count(notes, j)
                 m == UnderWay(y, sp, li, JobRequest(j))
      <3>0. Count(<<>>, j) = 0
        BY CountNothing
      <3>1. JobRight(x.rec[j], j \in x.tracked, stood[j], heard[j], 0, f, h, n)
        BY <3>0 DEF JobsKnown
      <3>2. h \in Nat /\ n \in Nat /\ f \in Nat
        BY UnderWayNat, CountIs
      <3>3. /\ y.heldNotes = x.heldNotes /\ m = n + f /\ (j \in y.tracked <=> j \in x.tracked /\ f = 0)
            /\ y.rec[j] = IF f # 0 /\ j \in x.tracked THEN "notified" ELSE x.rec[j]
        BY <2>1 DEF NotesQueued
      <3> HIDE DEF n, f, m
      <3>5. JobRight(y.rec[j], j \in y.tracked, stood[j], heard[j], 0, 0, h, m)
        <4> HIDE DEF h
        <4>1. CASE f = 0
          <5>2. m = n /\ y.rec[j] = x.rec[j]
            BY <3>2, <3>3, <4>1
          <5> QED
            BY <3>1, <3>2, <3>3, <4>1, <5>2 DEF JobRight
        <4>2. CASE f # 0
          <5>1. f = 1 /\ x.rec[j] = "tracked" /\ n = 0 /\ h = 0 /\ stood[j] # "none"
            BY <3>1, <3>2, <4>2 DEF JobRight
          <5>2. m = 1 /\ j \notin y.tracked
            BY <3>3, <5>1
          <5> QED
            BY <5>1, <5>2 DEF JobRight
        <4> QED
          BY <4>1, <4>2
      <3> QED
        BY <3>0, <3>3, <3>5 DEF m
    <2>5. JobsKnown(y, sp, li, stood, heard, <<>>, <<>>)
      BY <2>4 DEF JobsKnown
    <2> QED
      BY <1>2, <2>2, <2>3, <2>5 DEF y, PolledNotes
  <1> QED
    BY <1>1, <1>2, Zenon

\* The end of a poll.
PolledOut(busy, x, sp, li, stood, heard, z) ==
    /\ z \in States /\ (~busy => z.heldWakes = x.heldWakes /\ z.heldNotes = x.heldNotes)
    /\ WakesKnown(z, sp, li) /\ Lapsed(x, z)
    /\ JobsKnown(z, sp, li, stood, heard, <<>>, <<>>)

\* A pass of the poll keeps what is known, for its notes and for the wakes that are due.
LEMMA PollKeeps ==
  ASSUME NEW x \in States, NEW sp \in Seq(Tasks), NEW li \in Seq(Tasks), NEW stood, NEW heard,
         NEW notes \in Seq(Jobs), NEW ids \in Seq(WakeIds), NEW busy \in BOOLEAN,
         WakesKnown(x, sp, li), JobsKnown(x, sp, li, stood, heard, <<>>, notes),
         \A w \in WakeIds : /\ Count(ids, w) <= 1
                            /\ Count(ids, w) # 0 => x.wakes[w] # Nothing /\ x.wakes[w].due /\ ~x.wakes[w].staged
  PROVE  PolledOut(busy, x, sp, li, stood, heard, DeliverWakes(busy, DeliverNotes(busy, x, notes), ids))
  <1> DEFINE y == DeliverNotes(busy, x, notes)
             z == DeliverWakes(busy, y, ids)
  <1>1. /\ y \in States /\ y.wakes = x.wakes /\ y.log = x.log /\ y.heldWakes = x.heldWakes
        /\ ~busy => y.heldNotes = x.heldNotes
        /\ WakesKnown(y, sp, li) /\ JobsKnown(y, sp, li, stood, heard, <<>>, <<>>)
    <2>1. PolledNotes(busy, x, sp, li, stood, heard, y)
      BY NotesPolled
    <2> QED
      BY <2>1, Zenon DEF PolledNotes
  <1> HIDE DEF y
  <1>2. WakesKnown(z, sp, li) /\ Lapsed(y, z)
    BY <1>1, WakesPolled
  <1>3. HandedOver(busy, y, ids, sp, li, z)
    BY <1>1, WakesHandedOver
  <1> HIDE DEF z
  <1>4. /\ z \in States /\ z.rec = y.rec /\ z.tracked = y.tracked /\ z.heldNotes = y.heldNotes
        /\ ~busy => z.heldWakes = y.heldWakes
        /\ \A j \in Jobs : UnderWay(z, sp, li, JobRequest(j)) = UnderWay(y, sp, li, JobRequest(j))
    BY <1>3, Zenon DEF HandedOver
  <1>5. JobsKnown(z, sp, li, stood, heard, <<>>, <<>>)
    BY <1>1, <1>4 DEF JobsKnown
  <1>6. Lapsed(x, z)
    BY <1>1, <1>2 DEF Lapsed
  <1>7. z \in States /\ (~busy => z.heldWakes = x.heldWakes /\ z.heldNotes = x.heldNotes)
    BY <1>1, <1>4, Zenon
  <1> QED
    <2>1. PolledOut(busy, x, sp, li, stood, heard, z)
      BY <1>2, <1>5, <1>6, <1>7, Zenon DEF PolledOut
    <2> QED
      BY <2>1 DEF y, z

-----------------------------------------------------------------------------
(* The watcher's round *)

\* The poll goes on to the next job that it must ask a worker about.
LEMMA LocalsAre ==
  ASSUME NEW jobs \in Seq(Jobs)
  PROVE  \E k \in 0 .. Len(jobs) :
           /\ LocalsFirst(jobs) = SubSeq(jobs, 1, k) /\ Len(LocalsFirst(jobs)) = k
           /\ k < Len(jobs) => rec[jobs[k + 1]] = "tracked"
  <1> DEFINE asked == {i \in 1 .. Len(jobs) : jobs[i] \in Remote /\ rec[jobs[i]] = "tracked"}
             least == CHOOSE i \in asked : \A k \in asked : i <= k
  <1>0. Len(jobs) \in Nat
    OBVIOUS
  <1>1. CASE asked = {}
    <2>1. LocalsFirst(jobs) = jobs
      BY <1>1 DEF LocalsFirst
    <2>2. SubSeq(jobs, 1, Len(jobs)) = jobs
      BY SubSeqFull
    <2>3. Len(jobs) \in 0 .. Len(jobs) /\ ~(Len(jobs) < Len(jobs))
      BY <1>0
    <2> QED
      BY <2>1, <2>2, <2>3
  <1>2. CASE asked # {}
    <2>1. LocalsFirst(jobs) = SubSeq(jobs, 1, least - 1)
      BY <1>2 DEF LocalsFirst
    <2>2. asked \subseteq Nat
      BY <1>0
    <2>3. \E i \in asked : \A k \in asked : i <= k
      BY <1>2, <2>2, LeastOf
    <2>4. least \in asked
      BY <2>3
    <2>5. least \in 1 .. Len(jobs) /\ rec[jobs[least]] = "tracked"
      BY <2>4
    <2> HIDE DEF least, asked
    <2>6. least - 1 \in 0 .. Len(jobs) /\ (least - 1) + 1 = least
      BY <1>0, <2>5
    <2>7. Len(SubSeq(jobs, 1, least - 1)) = least - 1
      BY <2>6
    <2> QED
      BY <2>1, <2>5, <2>6, <2>7
  <1> QED
    BY <1>1, <1>2

\* What was found and is still to be visited is known as before.
LEMMA VisitKnows ==
  ASSUME NEW sp \in Seq(Tasks), NEW li \in Seq(Tasks), NEW stood, NEW heard,
         NEW jobs \in Seq(Jobs), NEW notes \in Seq(Jobs), Now \in States,
         JobsKnown(Now, sp, li, stood, heard, jobs, notes)
  PROVE  LET locals == LocalsFirst(jobs)
             rest == SubSeq(jobs, Len(locals) + 1, Len(jobs))
             seen == notes \o Only(locals, {j \in Jobs : Ready(j)}) IN
         /\ rest \in Seq(Jobs) /\ seen \in Seq(Jobs)
         /\ rest # <<>> => rec[Head(rest)] = "tracked"
         /\ JobsKnown(Now, sp, li, stood, heard, rest, seen)
  <1> DEFINE locals == LocalsFirst(jobs)
             rest == SubSeq(jobs, Len(locals) + 1, Len(jobs))
             ready == {j \in Jobs : Ready(j)}
             more == Only(locals, ready)
             seen == notes \o more
  <1>1. PICK k \in 0 .. Len(jobs) :
           /\ locals = SubSeq(jobs, 1, k) /\ Len(locals) = k
           /\ k < Len(jobs) => rec[jobs[k + 1]] = "tracked"
    BY LocalsAre
  <1>2. rest = SubSeq(jobs, k + 1, Len(jobs))
    BY <1>1
  <1>3. /\ locals \in Seq(Jobs) /\ rest \in Seq(Jobs)
        /\ \A j : Count(jobs, j) = Count(locals, j) + Count(rest, j)
    <2>1. \A n \in 0 .. Len(jobs) : \A j :
             /\ SubSeq(jobs, 1, n) \in Seq(Jobs) /\ SubSeq(jobs, n + 1, Len(jobs)) \in Seq(Jobs)
             /\ Count(jobs, j) = Count(SubSeq(jobs, 1, n), j) + Count(SubSeq(jobs, n + 1, Len(jobs)), j)
      BY CountCut
    <2> QED
      BY <1>1, <1>2, <2>1, Zenon
  <1>4. rest # <<>> => rec[Head(rest)] = "tracked"
    <2> SUFFICES ASSUME rest # <<>> PROVE rec[Head(rest)] = "tracked"
      OBVIOUS
    <2>1. k < Len(jobs) /\ Head(rest) = jobs[k + 1]
      BY <1>2
    <2> QED
      BY <1>1, <2>1
  <1> HIDE DEF locals, rest, ready
  <1>5. more \in Seq(Jobs) /\ \A j : Count(more, j) = IF j \in ready THEN Count(locals, j) ELSE 0
    <2>1. \A s \in Seq(Jobs) : \A T, j :
             /\ Only(s, T) \in Seq(Jobs) /\ Only(s, T) \in Seq(T)
             /\ Count(Only(s, T), j) = IF j \in T THEN Count(s, j) ELSE 0
      BY OnlyCount
    <2>2. locals \in Seq(Jobs)
      BY <1>3
    <2> QED
      BY <2>1, <2>2, Zenon DEF more
  <1> HIDE DEF more
  <1>6. seen \in Seq(Jobs) /\ \A j : Count(seen, j) = Count(notes, j) + Count(more, j)
    <2>1. \A a, b \in Seq(Jobs) : a \o b \in Seq(Jobs) /\ \A j : Count(a \o b, j) = Count(a, j) + Count(b, j)
      BY CountConcat
    <2> QED
      BY <1>5, <2>1, Zenon
  <1> HIDE DEF seen
  <1>7. Now.rec = rec /\ \A j \in Jobs : j \in ready => rec[j] = "tracked"
    BY DEF ready, Ready, Now
  <1>8. ASSUME NEW j \in Jobs
        PROVE  JobRight(Now.rec[j], j \in Now.tracked, stood[j], heard[j], Count(rest, j), Count(seen, j),
                        Count(Now.heldNotes, JobRequest(j)), UnderWay(Now, sp, li, JobRequest(j)))
    <2> DEFINE v == Count(jobs, j)
               f == Count(notes, j)
               l == Count(locals, j)
               u == Count(rest, j)
               g == Count(seen, j)
               m == Count(more, j)
               h == Count(Now.heldNotes, JobRequest(j))
               n == UnderWay(Now, sp, li, JobRequest(j))
    <2>1. JobRight(Now.rec[j], j \in Now.tracked, stood[j], heard[j], v, f, h, n)
      BY DEF JobsKnown
    <2>2. l \in Nat /\ u \in Nat /\ f \in Nat
      BY <1>3, CountIs
    <2>3. v = l + u /\ g = f + m /\ m = IF j \in ready THEN l ELSE 0
      BY <1>3, <1>5, <1>6
    <2> HIDE DEF v, f, l, u, g, m, h, n
    <2>4. g \in Nat /\ u + g <= v + f /\ (g # 0 => f # 0 \/ Now.rec[j] = "tracked")
      BY <1>7, <2>2, <2>3
    <2>5. v + f \in Nat
      BY <2>2, <2>3
    <2>6. JobRight(Now.rec[j], j \in Now.tracked, stood[j], heard[j], u, g, h, n)
      <3>1. /\ u + g <= 1 /\ (g # 0 => Now.rec[j] = "tracked")
            /\ (u + g # 0 => v + f # 0) /\ (v = 0 /\ f = 0 => u = 0 /\ g = 0)
        <4>1. v + f <= 1 /\ (f # 0 => Now.rec[j] = "tracked")
          BY <2>1 DEF JobRight
        <4> QED
          BY <2>2, <2>3, <2>4, <4>1
      <3> QED
        BY <2>1, <3>1 DEF JobRight
    <2> QED
      BY <2>6 DEF u, g, h, n
  <1>9. JobsKnown(Now, sp, li, stood, heard, rest, seen)
    BY <1>8 DEF JobsKnown
  <1>10. locals = LocalsFirst(jobs) /\ rest = SubSeq(jobs, Len(locals) + 1, Len(jobs))
         /\ seen = notes \o Only(locals, {j \in Jobs : Ready(j)})
    BY DEF locals, rest, seen, more, ready
  <1> QED
    BY <1>3, <1>4, <1>6, <1>9, <1>10

-----------------------------------------------------------------------------
(* What single operations do to the record *)

\* What leaves the registry, the log and the requests of wakes alone.
LEMMA WakesSame ==
  ASSUME NEW x \in States, NEW sp, NEW li, NEW y, NEW tp, NEW mi, WakesKnown(x, sp, li),
         y.wakes = x.wakes, y.log = x.log,
         \A w \in WakeIds, r \in Regs :
            UnderWay(y, tp, mi, WakeRequest(w, r)) = UnderWay(x, sp, li, WakeRequest(w, r))
  PROVE  WakesKnown(y, tp, mi)
  <1>1. \A w \in WakeIds : x.wakes[w] # Nothing => x.wakes[w].reg \in Regs
    BY DEF States
  <1> QED
    BY <1>1 DEF WakesKnown

\* What leaves the records and the requests of jobs alone.
LEMMA JobsSame ==
  ASSUME NEW x, NEW sp, NEW li, NEW y, NEW tp, NEW mi, NEW stood, NEW heard,
         NEW visits, NEW notes, JobsKnown(x, sp, li, stood, heard, visits, notes),
         y.rec = x.rec, y.tracked = x.tracked, y.heldNotes = x.heldNotes,
         \A j \in Jobs : UnderWay(y, tp, mi, JobRequest(j)) = UnderWay(x, sp, li, JobRequest(j))
  PROVE  JobsKnown(y, tp, mi, stood, heard, visits, notes)
  BY DEF JobsKnown

\* The registrations of cancelled wakes are fated, and no other's.
LEMMA CancelledFates ==
  ASSUME NEW x \in States, NEW sp, NEW li, WakesKnown(x, sp, li), NEW gone \in SUBSET WakeIds
  PROVE  LET e == Fated(x.wakes, x.log, gone, "cancelled") IN
         /\ e \in Seq(Entries) /\ Len(e) = Len(x.log)
         /\ \A r \in 1 .. Len(x.log) : e[r].id = x.log[r].id
                                       /\ (x.log[r].id \notin gone => e[r].fate = x.log[r].fate)
         /\ \A w \in gone : x.wakes[w] # Nothing => e[x.wakes[w].reg].fate = "cancelled"
  <1>1. "cancelled" \in Fates
    BY DEF Fates
  <1>2. LET e == Fated(x.wakes, x.log, gone, "cancelled") IN
         /\ e \in Seq(Entries) /\ Len(e) = Len(x.log)
         /\ \A r \in 1 .. Len(x.log) : e[r].id = x.log[r].id
                                       /\ (x.log[r].id \notin gone => e[r].fate = x.log[r].fate)
         /\ \A w \in gone : x.wakes[w] # Nothing => e[x.wakes[w].reg].fate = "cancelled"
         /\ \A r \in 1 .. Len(x.log) : (\A w \in gone : x.wakes[w] = Nothing \/ x.wakes[w].reg # r)
              => e[r].fate = x.log[r].fate
    BY <1>1, OthersFate, Zenon
  <1> QED
    BY <1>2

\* Wakes leave the registry, with what was held back of them.
Cancels(x, gone, y) ==
    /\ y.wakes = [w \in WakeIds |-> IF w \in gone THEN Nothing ELSE x.wakes[w]]
    /\ y.heldWakes = Only(x.heldWakes, WakeRequests(WakeIds \ gone))
    /\ y.heldNotes = x.heldNotes /\ y.queue = x.queue
    /\ y.log = Fated(x.wakes, x.log, gone, "cancelled")
Cancelled(x, sp, li, gone, y) ==
    /\ WakesKnown(y, sp, li) /\ Len(y.log) = Len(x.log)
    /\ \A w \in gone : x.wakes[w] # Nothing => y.log[x.wakes[w].reg].fate = "cancelled"
    /\ \A j \in Jobs : UnderWay(y, sp, li, JobRequest(j)) = UnderWay(x, sp, li, JobRequest(j))

\* Wakes are cancelled, and what was held back of them with them.
LEMMA Cancelling ==
  ASSUME NEW x \in States, NEW sp \in Seq(Tasks), NEW li \in Seq(Tasks), WakesKnown(x, sp, li),
         NEW gone \in SUBSET WakeIds, NEW y \in States, Cancels(x, gone, y)
  PROVE  Cancelled(x, sp, li, gone, y)
  <1>0. /\ y.wakes = [w \in WakeIds |-> IF w \in gone THEN Nothing ELSE x.wakes[w]]
        /\ y.heldWakes = Only(x.heldWakes, WakeRequests(WakeIds \ gone))
        /\ y.heldNotes = x.heldNotes /\ y.queue = x.queue
        /\ y.log = Fated(x.wakes, x.log, gone, "cancelled")
    BY DEF Cancels
  <1>1. /\ Len(y.log) = Len(x.log)
        /\ \A r \in 1 .. Len(x.log) : y.log[r].id = x.log[r].id
                                      /\ (x.log[r].id \notin gone => y.log[r].fate = x.log[r].fate)
        /\ \A w \in gone : x.wakes[w] # Nothing => y.log[x.wakes[w].reg].fate = "cancelled"
    <2>1. LET e == Fated(x.wakes, x.log, gone, "cancelled") IN
          /\ e \in Seq(Entries) /\ Len(e) = Len(x.log)
          /\ \A r \in 1 .. Len(x.log) : e[r].id = x.log[r].id
                                        /\ (x.log[r].id \notin gone => e[r].fate = x.log[r].fate)
          /\ \A w \in gone : x.wakes[w] # Nothing => e[x.wakes[w].reg].fate = "cancelled"
      BY CancelledFates
    <2> QED
      BY <1>0, <2>1
  <1>2. ASSUME NEW q
        PROVE  UnderWay(y, sp, li, q) = UnderWay(x, sp, li, q) - Count(x.heldWakes, q)
                                        + IF q \in WakeRequests(WakeIds \ gone) THEN Count(x.heldWakes, q) ELSE 0
    <2> DEFINE h == Count(x.heldWakes, q)
               k == IF q \in WakeRequests(WakeIds \ gone) THEN h ELSE 0
               a == Count(x.heldNotes, q)
               b == Count(x.queue, q)
               c == Count(Asked(sp), q)
               d == Count(Asked(li), q)
    <2>1. h \in Nat /\ a \in Nat /\ b \in Nat /\ c \in Nat /\ d \in Nat
      BY UnderWayNat
    <2>2. x.heldWakes \in Seq(WakeRequests(WakeIds))
      BY DEF States
    <2>3. Count(y.heldWakes, q) = k
      <3>1. \A s \in Seq(WakeRequests(WakeIds)) : \A T, e :
               Count(Only(s, T), e) = IF e \in T THEN Count(s, e) ELSE 0
        BY OnlyCount
      <3>2. Count(Only(x.heldWakes, WakeRequests(WakeIds \ gone)), q)
              = IF q \in WakeRequests(WakeIds \ gone) THEN Count(x.heldWakes, q) ELSE 0
        <4> DEFINE T == WakeRequests(WakeIds \ gone)
        <4>1. \A e : Count(Only(x.heldWakes, T), e) = IF e \in T THEN Count(x.heldWakes, e) ELSE 0
          BY <2>2, <3>1
        <4> HIDE DEF T
        <4>2. Count(Only(x.heldWakes, T), q) = IF q \in T THEN Count(x.heldWakes, q) ELSE 0
          BY <4>1
        <4> QED
          BY <4>2 DEF T
      <3> QED
        BY <1>0, <3>2
    <2>4. UnderWay(y, sp, li, q) = k + a + b + c + d /\ UnderWay(x, sp, li, q) = h + a + b + c + d
      BY <1>0, <2>3 DEF UnderWay
    <2>5. k \in Nat
      BY <2>1
    <2> HIDE DEF h, k, a, b, c, d
    <2>6. UnderWay(y, sp, li, q) = UnderWay(x, sp, li, q) - h + k
      BY <2>1, <2>4, <2>5
    <2> QED
      BY <2>6 DEF h, k
  <1>3. ASSUME NEW w \in WakeIds, NEW r \in Regs
        PROVE  /\ w \notin gone => UnderWay(y, sp, li, WakeRequest(w, r)) = UnderWay(x, sp, li, WakeRequest(w, r))
               /\ UnderWay(y, sp, li, WakeRequest(w, r)) # 0 => UnderWay(x, sp, li, WakeRequest(w, r)) # 0
    <2> DEFINE q == WakeRequest(w, r)
               h == Count(x.heldWakes, q)
               a == Count(x.heldNotes, q) + Count(x.queue, q) + Count(Asked(sp), q) + Count(Asked(li), q)
    <2>1. UnderWay(x, sp, li, q) \in Nat /\ h \in Nat
      BY UnderWayNat
    <2>2. q \in WakeRequests(WakeIds \ gone) <=> w \notin gone
      BY DEF WakeRequest, WakeRequests
    <2>3. UnderWay(y, sp, li, q) = UnderWay(x, sp, li, q) - h + IF w \notin gone THEN h ELSE 0
      BY <1>2, <2>2
    <2>4. h <= UnderWay(x, sp, li, q)
      <3>1. a \in Nat /\ UnderWay(x, sp, li, q) = h + a
        <4> DEFINE c == Count(x.heldNotes, q)
                   d == Count(x.queue, q)
                   e == Count(Asked(sp), q)
                   f == Count(Asked(li), q)
        <4>1. c \in Nat /\ d \in Nat /\ e \in Nat /\ f \in Nat
          BY UnderWayNat
        <4>2. UnderWay(x, sp, li, q) = h + c + d + e + f
          BY DEF UnderWay
        <4> HIDE DEF h, c, d, e, f
        <4>3. h + c + d + e + f = h + (c + d + e + f) /\ c + d + e + f \in Nat
          BY <2>1, <4>1 DEF h
        <4> QED
          BY <4>2, <4>3 DEF c, d, e, f
      <3> QED
        BY <2>1, <3>1
    <2> HIDE DEF h, q
    <2> QED
      BY <2>1, <2>3, <2>4 DEF q
  <1>4. \A j \in Jobs : UnderWay(y, sp, li, JobRequest(j)) = UnderWay(x, sp, li, JobRequest(j))
    <2> SUFFICES ASSUME NEW j \in Jobs
                 PROVE  UnderWay(y, sp, li, JobRequest(j)) = UnderWay(x, sp, li, JobRequest(j))
      OBVIOUS
    <2> DEFINE q == JobRequest(j)
    <2>1. UnderWay(x, sp, li, q) \in Nat /\ Count(x.heldWakes, q) = 0
      BY UnderWayNat, HeldApart
    <2>2. UnderWay(y, sp, li, q) = UnderWay(x, sp, li, q) - Count(x.heldWakes, q)
                                        + IF q \in WakeRequests(WakeIds \ gone) THEN Count(x.heldWakes, q) ELSE 0
      BY <1>2
    <2> HIDE DEF q
    <2>3. UnderWay(y, sp, li, q) = UnderWay(x, sp, li, q)
      BY <2>1, <2>2
    <2> QED
      BY <2>3 DEF q
  <1>5. WakesKnown(y, sp, li)
    <2>0. \A w \in WakeIds : /\ y.wakes[w] # Nothing => w \notin gone /\ y.wakes[w] = x.wakes[w]
                             /\ x.wakes[w] # Nothing => x.wakes[w].reg \in Regs
      BY <1>0 DEF States
    <2>1. \A w \in WakeIds, r \in Regs : UnderWay(y, sp, li, WakeRequest(w, r)) # 0 =>
            r \in 1 .. Len(x.log) /\ x.log[r].id = w
      BY <1>3 DEF WakesKnown
    <2>2. \A w \in WakeIds :
            LET r == x.wakes[w].reg IN
            /\ y.wakes[w] # Nothing
            /\ r \in 1 .. Len(x.log) /\ x.log[r].id = w /\ ~Again(x.log, r)
            /\ Right(x.wakes[w], x.log[r].fate, UnderWay(x, sp, li, WakeRequest(w, r)))
            => Right(y.wakes[w], y.log[r].fate, UnderWay(y, sp, li, WakeRequest(w, r)))
      <3> SUFFICES ASSUME NEW w \in WakeIds, NEW r, r = x.wakes[w].reg,
                          y.wakes[w] # Nothing, r \in 1 .. Len(x.log), x.log[r].id = w,
                          Right(x.wakes[w], x.log[r].fate, UnderWay(x, sp, li, WakeRequest(w, r)))
                   PROVE  Right(y.wakes[w], y.log[r].fate, UnderWay(y, sp, li, WakeRequest(w, r)))
        BY Zenon
      <3>1. w \notin gone /\ y.wakes[w] = x.wakes[w] /\ r \in Regs
        BY <2>0
      <3>2. y.log[r].fate = x.log[r].fate
        BY <1>1, <3>1
      <3> QED
        BY <1>3, <3>1, <3>2
    <2> QED
      BY <1>1, <2>0, <2>1, <2>2, WakesMove
  <1> QED
    BY <1>1, <1>4, <1>5 DEF Cancelled

\* A wake enters the registry under the next number.
LEMMA Registering ==
  ASSUME NEW x \in States, NEW sp, NEW li, WakesKnown(x, sp, li),
         NEW w \in WakeIds, x.wakes[w] = Nothing, Len(x.log) < MaxRegs, NEW y \in States,
         y.wakes = [x.wakes EXCEPT ![w] = [reg |-> Len(x.log) + 1, due |-> FALSE, staged |-> FALSE]],
         y.log = Append(x.log, [id |-> w, fate |-> "open"]),
         \A v \in WakeIds, r \in Regs :
            UnderWay(y, sp, li, WakeRequest(v, r)) = UnderWay(x, sp, li, WakeRequest(v, r))
  PROVE  WakesKnown(y, sp, li)
  <1> DEFINE n == Len(x.log) + 1
  <1>0. n \in Regs /\ n - 1 = Len(x.log) /\ n \notin 1 .. Len(x.log) /\ Len(x.log) \in Nat
        /\ x.log \in Seq(Entries)
    BY NoticesAssumption DEF States, Regs
  <1>1. /\ Len(y.log) = n /\ y.log[n] = [id |-> w, fate |-> "open"]
        /\ \A r \in 1 .. Len(x.log) : r \in 1 .. n /\ r # n /\ y.log[r] = x.log[r]
    BY <1>0
  <1>2. \A r \in 1 .. Len(x.log) : Again(x.log, r) => Again(y.log, r)
    BY <1>1 DEF Again
  <1>3. \A v \in WakeIds : /\ y.wakes[v] = IF v = w THEN [reg |-> n, due |-> FALSE, staged |-> FALSE]
                                           ELSE x.wakes[v]
                           /\ x.wakes[v] # Nothing => x.wakes[v].reg \in Regs
    BY DEF States
  <1> HIDE DEF n
  <1>4. ASSUME NEW v \in WakeIds, y.wakes[v] # Nothing
        PROVE  y.wakes[v].reg \in 1 .. Len(y.log) /\ y.log[y.wakes[v].reg].id = v
    <2>1. CASE v = w
      BY <1>0, <1>1, <1>3, <2>1 DEF Regs
    <2>2. CASE v # w
      <3>1. x.wakes[v].reg \in 1 .. Len(x.log) /\ x.log[x.wakes[v].reg].id = v
        BY <1>3, <1>4, <2>2 DEF WakesKnown
      <3> QED
        BY <1>1, <1>3, <2>2, <3>1
    <2> QED
      BY <2>1, <2>2
  <1>5. \A v \in WakeIds, r \in Regs : UnderWay(y, sp, li, WakeRequest(v, r)) # 0 =>
           r \in 1 .. Len(y.log) /\ y.log[r].id = v
    BY <1>1 DEF WakesKnown
  <1>6. ASSUME NEW v \in WakeIds, y.wakes[v] # Nothing, ~Again(y.log, y.wakes[v].reg)
        PROVE  Right(y.wakes[v], y.log[y.wakes[v].reg].fate,
                     UnderWay(y, sp, li, WakeRequest(v, y.wakes[v].reg)))
    <2>1. CASE v = w
      <3>1. y.wakes[v] = [reg |-> n, due |-> FALSE, staged |-> FALSE]
        BY <1>3, <2>1
      <3>2. UnderWay(x, sp, li, WakeRequest(w, n)) = 0
        BY <1>0 DEF WakesKnown
      <3>3. UnderWay(y, sp, li, WakeRequest(v, n)) = 0
        BY <1>0, <2>1, <3>2
      <3> QED
        BY <1>1, <3>1, <3>3 DEF Right
    <2>2. CASE v # w
      <3> DEFINE r == x.wakes[v].reg
      <3>1. y.wakes[v] = x.wakes[v]
        BY <1>3, <2>2
      <3>2. r \in 1 .. Len(x.log) /\ r \in Regs
        BY <1>3, <1>6, <3>1 DEF WakesKnown
      <3>3. ~Again(x.log, r) /\ y.log[r] = x.log[r]
        BY <1>1, <1>2, <1>6, <3>1, <3>2
      <3>4. Right(x.wakes[v], x.log[r].fate, UnderWay(x, sp, li, WakeRequest(v, r)))
        BY <1>6, <3>1, <3>3 DEF WakesKnown
      <3>5. UnderWay(y, sp, li, WakeRequest(v, r)) = UnderWay(x, sp, li, WakeRequest(v, r))
        BY <3>2
      <3> HIDE DEF r
      <3>6. Right(y.wakes[v], y.log[r].fate, UnderWay(y, sp, li, WakeRequest(v, r)))
        BY <3>1, <3>3, <3>4, <3>5
      <3> QED
        BY <3>1, <3>6 DEF r
    <2> QED
      BY <2>1, <2>2
  <1> QED
    BY <1>4, <1>5, <1>6 DEF WakesKnown

\* One request less of a wake on its way: the entry is marked as dropped ...
Less(x, sp, li, y, tp, mi, request) ==
    \A q \in Requests : UnderWay(y, tp, mi, q) = UnderWay(x, sp, li, q) - IF q = request THEN 1 ELSE 0

\* With one request less under way, no other wake has less.
LEMMA LessWakes ==
  ASSUME NEW x \in States, NEW sp \in Seq(Tasks), NEW li \in Seq(Tasks), WakesKnown(x, sp, li),
         NEW y \in States, NEW tp \in Seq(Tasks), NEW mi \in Seq(Tasks),
         NEW request \in Requests, Less(x, sp, li, y, tp, mi, request)
  PROVE  /\ \A w \in WakeIds, r \in Regs : UnderWay(y, tp, mi, WakeRequest(w, r)) # 0 =>
               r \in 1 .. Len(x.log) /\ x.log[r].id = w
         /\ \A w \in WakeIds, r \in Regs : UnderWay(y, tp, mi, WakeRequest(w, r)) =
               UnderWay(x, sp, li, WakeRequest(w, r)) - IF WakeRequest(w, r) = request THEN 1 ELSE 0
         /\ \A w \in WakeIds, r \in Regs : request = WakeRequest(w, r) =>
               UnderWay(x, sp, li, WakeRequest(w, r)) # 0 /\ r \in 1 .. Len(x.log) /\ x.log[r].id = w
  <1>1. \A w \in WakeIds, r \in Regs :
          /\ WakeRequest(w, r) \in Requests
          /\ UnderWay(x, sp, li, WakeRequest(w, r)) \in Nat /\ UnderWay(y, tp, mi, WakeRequest(w, r)) \in Nat
    BY Kinds, UnderWayNat
  <1>2. \A w \in WakeIds, r \in Regs : UnderWay(y, tp, mi, WakeRequest(w, r)) =
               UnderWay(x, sp, li, WakeRequest(w, r)) - IF WakeRequest(w, r) = request THEN 1 ELSE 0
    BY <1>1 DEF Less
  <1>3. \A w \in WakeIds, r \in Regs :
          /\ UnderWay(y, tp, mi, WakeRequest(w, r)) # 0 => UnderWay(x, sp, li, WakeRequest(w, r)) # 0
          /\ request = WakeRequest(w, r) => UnderWay(x, sp, li, WakeRequest(w, r)) # 0
    BY <1>1, <1>2
  <1> QED
    BY <1>2, <1>3 DEF WakesKnown

\* ... if it was open: a request that leaves without its turn,
LEMMA WakeDropped ==
  ASSUME NEW x \in States, NEW sp \in Seq(Tasks), NEW li \in Seq(Tasks), WakesKnown(x, sp, li),
         NEW y \in States, NEW tp \in Seq(Tasks), NEW mi \in Seq(Tasks),
         NEW w \in WakeIds, NEW r \in Regs, Less(x, sp, li, y, tp, mi, WakeRequest(w, r)),
         y.wakes = x.wakes,
         y.log = IF x.log[r].fate = "open" THEN [x.log EXCEPT ![r].fate = "dropped"] ELSE x.log
  PROVE  WakesKnown(y, tp, mi)
  <1>0. WakeRequest(w, r) \in Requests
    BY Kinds
  <1>1. /\ \A v \in WakeIds, q \in Regs : UnderWay(y, tp, mi, WakeRequest(v, q)) # 0 =>
               q \in 1 .. Len(x.log) /\ x.log[q].id = v
        /\ \A v \in WakeIds, q \in Regs : UnderWay(y, tp, mi, WakeRequest(v, q)) =
               UnderWay(x, sp, li, WakeRequest(v, q)) - IF WakeRequest(v, q) = WakeRequest(w, r) THEN 1 ELSE 0
        /\ UnderWay(x, sp, li, WakeRequest(w, r)) # 0 /\ r \in 1 .. Len(x.log) /\ x.log[r].id = w
    BY <1>0, LessWakes
  <1>2. /\ Len(y.log) = Len(x.log) /\ x.log \in Seq(Entries)
        /\ \A q \in 1 .. Len(x.log) :
             /\ y.log[q].id = x.log[q].id
             /\ y.log[q].fate = IF q = r /\ x.log[r].fate = "open" THEN "dropped" ELSE x.log[q].fate
    <2>1. x.log \in Seq(Entries)
      BY DEF States
    <2> QED
      BY <1>1, <2>1 DEF Entries
  <1>3. \A v \in WakeIds : x.wakes[v] # Nothing => x.wakes[v].reg \in Regs
    BY DEF States
  <1>4. ASSUME NEW v \in WakeIds, NEW q, q = x.wakes[v].reg, x.wakes[v] # Nothing,
               q \in 1 .. Len(x.log), ~Again(x.log, q),
               Right(x.wakes[v], x.log[q].fate, UnderWay(x, sp, li, WakeRequest(v, q)))
        PROVE  Right(y.wakes[v], y.log[q].fate, UnderWay(y, tp, mi, WakeRequest(v, q)))
    <2>1. q = r <=> v = w
      BY <1>1, <1>4, OneRegistration
    <2>2. q \in Regs
      BY <1>3, <1>4
    <2>3. UnderWay(y, tp, mi, WakeRequest(v, q)) =
            UnderWay(x, sp, li, WakeRequest(v, q)) - IF v = w THEN 1 ELSE 0
      BY <1>1, <2>1, <2>2, SameRequest
    <2>4. CASE v = w
      <3> DEFINE n == UnderWay(x, sp, li, WakeRequest(v, q))
                 m == UnderWay(y, tp, mi, WakeRequest(v, q))
      <3>1. n # 0 /\ m = n - 1
        BY <1>1, <2>1, <2>3, <2>4
      <3>2. Right(x.wakes[v], x.log[q].fate, n)
        BY <1>4
      <3>3. y.log[q].fate = IF x.log[q].fate = "open" THEN "dropped" ELSE x.log[q].fate
        BY <1>2, <1>4, <2>1, <2>4
      <3> HIDE DEF n, m
      <3>4. n = 1 /\ x.wakes[v].staged /\ x.wakes[v].due /\ x.log[q].fate = "open"
        BY <3>1, <3>2 DEF Right
      <3>5. y.log[q].fate = "dropped" /\ m = 0
        BY <3>1, <3>3, <3>4
      <3>6. Right(y.wakes[v], y.log[q].fate, m)
        BY <3>4, <3>5 DEF Right
      <3> QED
        BY <3>6 DEF m
    <2>5. CASE v # w
      <3>1. UnderWay(y, tp, mi, WakeRequest(v, q)) = UnderWay(x, sp, li, WakeRequest(v, q))
        <4>1. UnderWay(x, sp, li, WakeRequest(v, q)) \in Nat
          BY UnderWayNat
        <4> QED
          BY <2>3, <2>5, <4>1
      <3>2. y.log[q].fate = x.log[q].fate
        BY <1>2, <1>4, <2>1, <2>5
      <3> QED
        BY <1>4, <3>1, <3>2
    <2> QED
      BY <2>4, <2>5
  <1>5. \A v \in WakeIds :
            LET q == x.wakes[v].reg IN
            /\ y.wakes[v] # Nothing
            /\ q \in 1 .. Len(x.log) /\ x.log[q].id = v /\ ~Again(x.log, q)
            /\ Right(x.wakes[v], x.log[q].fate, UnderWay(x, sp, li, WakeRequest(v, q)))
            => Right(y.wakes[v], y.log[q].fate, UnderWay(y, tp, mi, WakeRequest(v, q)))
    BY <1>4, Zenon
  <1>6. \A v \in WakeIds : y.wakes[v] # Nothing => x.wakes[v] # Nothing /\ y.wakes[v].reg = x.wakes[v].reg
    OBVIOUS
  <1>7. /\ Len(y.log) = Len(x.log) /\ \A q \in 1 .. Len(x.log) : y.log[q].id = x.log[q].id
        /\ \A v \in WakeIds, q \in Regs : UnderWay(y, tp, mi, WakeRequest(v, q)) # 0 =>
               q \in 1 .. Len(x.log) /\ x.log[q].id = v
    BY <1>1, <1>2
  <1> QED
    BY <1>5, <1>6, <1>7, WakesMove

\* the request of a turn that ends, which takes the entry of that name,
Hears(x, w, r, y) ==
    /\ y.wakes = [x.wakes EXCEPT ![w] = Nothing]
    /\ y.log = [x.log EXCEPT ![r].fate = IF @ = "open" THEN "heard" ELSE @]
Heard(x, w, r, y) ==
    /\ Len(y.log) = Len(x.log)
    /\ \A v \in WakeIds : y.wakes[v] = IF v = w THEN Nothing ELSE x.wakes[v]
    /\ x.wakes[w] # Nothing /\ ~Again(x.log, x.wakes[w].reg) =>
         /\ x.wakes[w].reg = r /\ x.wakes[w].due = TRUE /\ y.log[r].fate = "heard"
         /\ r \in 1 .. Len(x.log)
         /\ \A v \in WakeIds : y.wakes[v] = Nothing \/ y.wakes[v].reg # r

\* ... or leaves with the end of its turn ...
LEMMA WakeHeard ==
  ASSUME NEW x \in States, NEW sp \in Seq(Tasks), NEW li \in Seq(Tasks), WakesKnown(x, sp, li),
         NEW y \in States, NEW tp \in Seq(Tasks), NEW mi \in Seq(Tasks),
         NEW w \in WakeIds, NEW r \in Regs, Less(x, sp, li, y, tp, mi, WakeRequest(w, r)),
         Hears(x, w, r, y)
  PROVE  WakesKnown(y, tp, mi) /\ Heard(x, w, r, y)
  <1>0. WakeRequest(w, r) \in Requests
    BY Kinds
  <1>1. /\ \A v \in WakeIds, q \in Regs : UnderWay(y, tp, mi, WakeRequest(v, q)) # 0 =>
               q \in 1 .. Len(x.log) /\ x.log[q].id = v
        /\ \A v \in WakeIds, q \in Regs : UnderWay(y, tp, mi, WakeRequest(v, q)) =
               UnderWay(x, sp, li, WakeRequest(v, q)) - IF WakeRequest(v, q) = WakeRequest(w, r) THEN 1 ELSE 0
        /\ UnderWay(x, sp, li, WakeRequest(w, r)) # 0 /\ r \in 1 .. Len(x.log) /\ x.log[r].id = w
    BY <1>0, LessWakes
  <1>2. /\ Len(y.log) = Len(x.log) /\ x.log \in Seq(Entries)
        /\ \A q \in 1 .. Len(x.log) :
             /\ y.log[q].id = x.log[q].id
             /\ y.log[q].fate = IF q = r /\ x.log[r].fate = "open" THEN "heard" ELSE x.log[q].fate
    <2>1. x.log \in Seq(Entries)
      BY DEF States
    <2> QED
      BY <1>1, <2>1 DEF Entries, Hears
  <1>3. \A v \in WakeIds : /\ x.wakes[v] # Nothing => x.wakes[v].reg \in Regs
                           /\ y.wakes[v] = IF v = w THEN Nothing ELSE x.wakes[v]
    BY DEF States, Hears
  <1>4. ASSUME NEW v \in WakeIds, NEW q, q = x.wakes[v].reg, y.wakes[v] # Nothing,
               q \in 1 .. Len(x.log), ~Again(x.log, q),
               Right(x.wakes[v], x.log[q].fate, UnderWay(x, sp, li, WakeRequest(v, q)))
        PROVE  Right(y.wakes[v], y.log[q].fate, UnderWay(y, tp, mi, WakeRequest(v, q)))
    <2>1. v # w /\ x.wakes[v] # Nothing /\ y.wakes[v] = x.wakes[v]
      BY <1>3, <1>4
    <2>2. q # r /\ q \in Regs
      BY <1>1, <1>3, <1>4, <2>1, OneRegistration
    <2>3. UnderWay(y, tp, mi, WakeRequest(v, q)) = UnderWay(x, sp, li, WakeRequest(v, q))
      <3>1. WakeRequest(v, q) # WakeRequest(w, r)
        BY <2>1, <2>2, SameRequest
      <3>2. UnderWay(x, sp, li, WakeRequest(v, q)) \in Nat
        BY UnderWayNat
      <3>3. UnderWay(y, tp, mi, WakeRequest(v, q)) =
               UnderWay(x, sp, li, WakeRequest(v, q)) - IF WakeRequest(v, q) = WakeRequest(w, r) THEN 1 ELSE 0
        BY <1>1, <2>2
      <3> QED
        BY <3>1, <3>2, <3>3
    <2>4. y.log[q].fate = x.log[q].fate
      BY <1>2, <1>4, <2>2
    <2> QED
      BY <1>4, <2>1, <2>3, <2>4
  <1>5. \A v \in WakeIds :
            LET q == x.wakes[v].reg IN
            /\ y.wakes[v] # Nothing
            /\ q \in 1 .. Len(x.log) /\ x.log[q].id = v /\ ~Again(x.log, q)
            /\ Right(x.wakes[v], x.log[q].fate, UnderWay(x, sp, li, WakeRequest(v, q)))
            => Right(y.wakes[v], y.log[q].fate, UnderWay(y, tp, mi, WakeRequest(v, q)))
    BY <1>4, Zenon
  <1>6. WakesKnown(y, tp, mi)
    <2>1. \A v \in WakeIds : y.wakes[v] # Nothing => x.wakes[v] # Nothing /\ y.wakes[v].reg = x.wakes[v].reg
      BY <1>3
    <2>2. /\ Len(y.log) = Len(x.log) /\ \A q \in 1 .. Len(x.log) : y.log[q].id = x.log[q].id
          /\ \A v \in WakeIds, q \in Regs : UnderWay(y, tp, mi, WakeRequest(v, q)) # 0 =>
                 q \in 1 .. Len(x.log) /\ x.log[q].id = v
      BY <1>1, <1>2
    <2> QED
      BY <1>5, <2>1, <2>2, WakesMove
  <1>7. ASSUME x.wakes[w] # Nothing, ~Again(x.log, x.wakes[w].reg)
        PROVE  /\ x.wakes[w].reg = r /\ x.wakes[w].due = TRUE /\ y.log[r].fate = "heard"
               /\ r \in 1 .. Len(x.log)
               /\ \A v \in WakeIds : y.wakes[v] = Nothing \/ y.wakes[v].reg # r
    <2>1. x.wakes[w].reg = r
      BY <1>1, <1>7, OneRegistration
    <2>2. Right(x.wakes[w], x.log[r].fate, UnderWay(x, sp, li, WakeRequest(w, r)))
      BY <1>7, <2>1 DEF WakesKnown
    <2>3. x.wakes[w].due = TRUE /\ x.log[r].fate = "open"
      <3>1. x.wakes[w].staged \in BOOLEAN /\ x.wakes[w].due \in BOOLEAN
        BY <1>7 DEF States
      <3> QED
        BY <1>1, <2>2, <3>1 DEF Right
    <2>4. \A v \in WakeIds : y.wakes[v] = Nothing \/ y.wakes[v].reg # r
      <3> SUFFICES ASSUME NEW v \in WakeIds, y.wakes[v] # Nothing, y.wakes[v].reg = r
                   PROVE  FALSE
        OBVIOUS
      <3>1. r \in 1 .. Len(y.log) /\ y.log[r].id = v
        BY <1>6 DEF WakesKnown
      <3>2. v = w
        BY <1>1, <1>2, <3>1
      <3> QED
        BY <1>3, <3>2
    <2>5. y.log[r].fate = "heard"
      BY <1>1, <1>2, <2>3
    <2> QED
      BY <1>1, <2>1, <2>3, <2>4, <2>5
  <1> QED
    BY <1>2, <1>3, <1>6, <1>7 DEF Heard

\* An entry of the registry that is unmarked.
LEMMA EntryUnmarked ==
  ASSUME NEW e \in [reg : Regs, due : BOOLEAN, staged : BOOLEAN]
  PROVE  LET f == [e EXCEPT !.staged = FALSE] IN
         f # Nothing /\ f.reg = e.reg /\ f.due = e.due /\ f.staged = FALSE
  <1>1. [e EXCEPT !.staged = FALSE] \in [reg : Regs, due : BOOLEAN, staged : BOOLEAN]
    OBVIOUS
  <1>2. [e EXCEPT !.staged = FALSE] # Nothing
    BY <1>1, NoticesAssumption
  <1>3. [e EXCEPT !.staged = FALSE].reg = e.reg /\ [e EXCEPT !.staged = FALSE].due = e.due
        /\ [e EXCEPT !.staged = FALSE].staged = FALSE
    OBVIOUS
  <1> QED
    BY <1>2, <1>3

\* ... or goes with a turn that is cancelled, which leaves the entry unmarked.
Unmarks(x, w, y) ==
    /\ y.wakes = IF x.wakes[w] = Nothing THEN x.wakes ELSE [x.wakes EXCEPT ![w].staged = FALSE]
    /\ y.log = x.log

LEMMA WakeAborted ==
  ASSUME NEW x \in States, NEW sp \in Seq(Tasks), NEW li \in Seq(Tasks), WakesKnown(x, sp, li),
         NEW y \in States, NEW tp \in Seq(Tasks), NEW mi \in Seq(Tasks),
         NEW w \in WakeIds, NEW r \in Regs, Less(x, sp, li, y, tp, mi, WakeRequest(w, r)),
         Unmarks(x, w, y)
  PROVE  /\ WakesKnown(y, tp, mi)
         /\ \A v \in WakeIds : y.wakes[v] = Nothing <=> x.wakes[v] = Nothing
  <1> USE DEF Unmarks
  <1>0. WakeRequest(w, r) \in Requests
    BY Kinds
  <1>1. /\ \A v \in WakeIds, q \in Regs : UnderWay(y, tp, mi, WakeRequest(v, q)) # 0 =>
               q \in 1 .. Len(x.log) /\ x.log[q].id = v
        /\ \A v \in WakeIds, q \in Regs : UnderWay(y, tp, mi, WakeRequest(v, q)) =
               UnderWay(x, sp, li, WakeRequest(v, q)) - IF WakeRequest(v, q) = WakeRequest(w, r) THEN 1 ELSE 0
        /\ UnderWay(x, sp, li, WakeRequest(w, r)) # 0 /\ r \in 1 .. Len(x.log) /\ x.log[r].id = w
    BY <1>0, LessWakes
  <1>3. \A v \in WakeIds :
          /\ x.wakes[v] # Nothing => x.wakes[v] \in [reg : Regs, due : BOOLEAN, staged : BOOLEAN]
          /\ y.wakes[v] # Nothing => y.wakes[v] \in [reg : Regs, due : BOOLEAN, staged : BOOLEAN]
    BY DEF States
  <1>4. \A v \in WakeIds :
          /\ v # w \/ x.wakes[v] = Nothing => y.wakes[v] = x.wakes[v]
          /\ v = w /\ x.wakes[v] # Nothing => y.wakes[v] = [x.wakes[v] EXCEPT !.staged = FALSE]
    <2>1. x.wakes \in [WakeIds -> {Nothing} \cup [reg : Regs, due : BOOLEAN, staged : BOOLEAN]]
      BY DEF States
    <2>2. CASE x.wakes[w] = Nothing
      BY <2>2
    <2>3. CASE x.wakes[w] # Nothing
      BY <2>1, <2>3
    <2> QED
      BY <2>2, <2>3
  <1>5. \A v \in WakeIds :
          /\ y.wakes[v] = Nothing <=> x.wakes[v] = Nothing
          /\ x.wakes[v] # Nothing => y.wakes[v].reg = x.wakes[v].reg
          /\ v = w /\ x.wakes[v] # Nothing => y.wakes[v].due = x.wakes[v].due /\ y.wakes[v].staged = FALSE
    <2>1. \A e \in [reg : Regs, due : BOOLEAN, staged : BOOLEAN] :
             /\ [e EXCEPT !.staged = FALSE] # Nothing /\ [e EXCEPT !.staged = FALSE].reg = e.reg
             /\ [e EXCEPT !.staged = FALSE].due = e.due /\ [e EXCEPT !.staged = FALSE].staged = FALSE
      BY EntryUnmarked
    <2> QED
      BY <1>3, <1>4, <2>1
  <1>6. ASSUME NEW v \in WakeIds, NEW q, q = x.wakes[v].reg, y.wakes[v] # Nothing,
               q \in 1 .. Len(x.log), ~Again(x.log, q),
               Right(x.wakes[v], x.log[q].fate, UnderWay(x, sp, li, WakeRequest(v, q)))
        PROVE  Right(y.wakes[v], y.log[q].fate, UnderWay(y, tp, mi, WakeRequest(v, q)))
    <2>0. x.wakes[v] # Nothing /\ x.wakes[v] \in [reg : Regs, due : BOOLEAN, staged : BOOLEAN]
      BY <1>3, <1>5, <1>6
    <2>1. q = r <=> v = w
      BY <1>1, <1>6, <2>0, OneRegistration
    <2>2. q \in Regs
      BY <1>6, <2>0
    <2>3. UnderWay(y, tp, mi, WakeRequest(v, q)) =
            UnderWay(x, sp, li, WakeRequest(v, q)) - IF v = w THEN 1 ELSE 0
      BY <1>1, <2>1, <2>2, SameRequest
    <2> DEFINE n == UnderWay(x, sp, li, WakeRequest(v, q))
               m == UnderWay(y, tp, mi, WakeRequest(v, q))
    <2>4. n \in Nat /\ Right(x.wakes[v], x.log[q].fate, n) /\ m = n - IF v = w THEN 1 ELSE 0
      BY <1>6, <2>3, UnderWayNat
    <2>5. v = w => n # 0
      BY <1>1, <2>1
    <2> HIDE DEF n, m
    <2>6. CASE v = w
      <3>1. y.wakes[v].staged = FALSE
        BY <1>5, <2>0, <2>6
      <3>2. n = 1 /\ x.log[q].fate = "open" /\ m = 0
        BY <2>4, <2>5, <2>6 DEF Right
      <3> QED
        BY <3>1, <3>2 DEF Right, m
    <2>7. CASE v # w
      <3>1. y.wakes[v] = x.wakes[v] /\ m = n
        BY <1>4, <2>4, <2>7
      <3>2. Right(y.wakes[v], y.log[q].fate, m)
        BY <2>4, <3>1
      <3> QED
        BY <3>2 DEF m
    <2> QED
      BY <2>6, <2>7
  <1>7. \A v \in WakeIds :
            LET q == x.wakes[v].reg IN
            /\ y.wakes[v] # Nothing
            /\ q \in 1 .. Len(x.log) /\ x.log[q].id = v /\ ~Again(x.log, q)
            /\ Right(x.wakes[v], x.log[q].fate, UnderWay(x, sp, li, WakeRequest(v, q)))
            => Right(y.wakes[v], y.log[q].fate, UnderWay(y, tp, mi, WakeRequest(v, q)))
    BY <1>6, Zenon
  <1>8. WakesKnown(y, tp, mi)
    <2>1. \A v \in WakeIds : y.wakes[v] # Nothing => x.wakes[v] # Nothing /\ y.wakes[v].reg = x.wakes[v].reg
      BY <1>5
    <2>2. /\ Len(y.log) = Len(x.log) /\ \A q \in 1 .. Len(x.log) : y.log[q].id = x.log[q].id
          /\ \A v \in WakeIds, q \in Regs : UnderWay(y, tp, mi, WakeRequest(v, q)) # 0 =>
                 q \in 1 .. Len(x.log) /\ x.log[q].id = v
      BY <1>1
    <2> QED
      BY <1>7, <2>1, <2>2, WakesMove
  <1> QED
    BY <1>5, <1>8

\* Requests of jobs and users are none of wakes.
LEMMA OthersLess ==
  ASSUME NEW x \in States, NEW sp \in Seq(Tasks), NEW li \in Seq(Tasks), WakesKnown(x, sp, li),
         NEW y \in States, NEW tp \in Seq(Tasks), NEW mi \in Seq(Tasks),
         NEW request \in Requests, request.kind # "wake", Less(x, sp, li, y, tp, mi, request),
         y.wakes = x.wakes, y.log = x.log
  PROVE  WakesKnown(y, tp, mi)
  <1>1. ASSUME NEW w \in WakeIds, NEW r \in Regs
        PROVE  UnderWay(y, tp, mi, WakeRequest(w, r)) = UnderWay(x, sp, li, WakeRequest(w, r))
    <2>1. WakeRequest(w, r) \in Requests /\ WakeRequest(w, r) # request
      BY Kinds, SameRequest
    <2>2. UnderWay(x, sp, li, WakeRequest(w, r)) \in Nat
      BY UnderWayNat
    <2> QED
      BY <2>1, <2>2 DEF Less
  <1> QED
    BY <1>1, WakesSame

\* The notice of a job leaves: nothing else is known of the job, and its agent has heard
\* of its end or will not any more.
LEMMA NoticeGone ==
  ASSUME NEW x \in States, NEW sp \in Seq(Tasks), NEW li \in Seq(Tasks),
         NEW y \in States, NEW tp \in Seq(Tasks), NEW mi \in Seq(Tasks),
         NEW stood, NEW heard, NEW told2, NEW visits, NEW notes,
         JobsKnown(x, sp, li, stood, heard, visits, notes),
         NEW request \in Requests, Less(x, sp, li, y, tp, mi, request),
         y.rec = x.rec, y.tracked = x.tracked, y.heldNotes = x.heldNotes,
         \A j \in Jobs : IF request = JobRequest(j) THEN told2[j] # "open" ELSE told2[j] = heard[j]
  PROVE  JobsKnown(y, tp, mi, stood, told2, visits, notes)
  <1>1. ASSUME NEW j \in Jobs
        PROVE  JobRight(y.rec[j], j \in y.tracked, stood[j], told2[j], Count(visits, j), Count(notes, j),
                        Count(y.heldNotes, JobRequest(j)), UnderWay(y, tp, mi, JobRequest(j)))
    <2> DEFINE h == Count(x.heldNotes, JobRequest(j))
               n == UnderWay(x, sp, li, JobRequest(j))
               m == UnderWay(y, tp, mi, JobRequest(j))
               v == Count(visits, j)
               f == Count(notes, j)
    <2>1. JobRight(x.rec[j], j \in x.tracked, stood[j], heard[j], v, f, h, n)
      BY DEF JobsKnown
    <2>2. h \in Nat /\ n \in Nat /\ m \in Nat
      BY UnderWayNat
    <2>3. m = n - IF request = JobRequest(j) THEN 1 ELSE 0
      BY Kinds DEF Less
    <2>4. h <= m
      <3> DEFINE a == Count(y.heldWakes, JobRequest(j))
                 b == Count(y.queue, JobRequest(j))
                 c == Count(Asked(tp), JobRequest(j))
                 d == Count(Asked(mi), JobRequest(j))
      <3>1. a \in Nat /\ b \in Nat /\ c \in Nat /\ d \in Nat
        BY UnderWayNat
      <3>2. m = a + h + b + c + d
        BY DEF UnderWay
      <3> HIDE DEF a, b, c, d, h, m
      <3> QED
        BY <2>2, <3>1, <3>2
    <2> HIDE DEF h, n, m, v, f
    <2>5. JobRight(y.rec[j], j \in y.tracked, stood[j], told2[j], v, f, h, m)
      <3>1. CASE request = JobRequest(j)
        <4>1. n = 1 /\ m = 0 /\ h = 0
          BY <2>1, <2>2, <2>3, <2>4, <3>1 DEF JobRight
        <4>2. j \notin x.tracked /\ stood[j] # "none" /\ told2[j] # "open"
          BY <2>1, <3>1, <4>1 DEF JobRight
        <4> QED
          BY <2>1, <4>1, <4>2 DEF JobRight
      <3>2. CASE request # JobRequest(j)
        BY <2>1, <2>2, <2>3, <3>2
      <3> QED
        BY <3>1, <3>2
    <2> QED
      BY <2>5 DEF h, m, v, f
  <1> QED
    BY <1>1 DEF JobsKnown

-----------------------------------------------------------------------------
(* The actions: what each keeps known, and how it lets wakes end *)

WakesEnd ==
    \A w \in WakeIds :
      Registered(w) /\ wakes'[w] = Nothing /\ ~Reused(wakes[w].reg) =>
        \/ log'[wakes[w].reg].fate \in {"cancelled", "lapsed"}
        \/ log'[wakes[w].reg].fate = "heard" /\ wakes[w].due = TRUE

\* The record of the state is the state.
LEMMA NowIs ==
  /\ Now.wakes = wakes /\ Now.heldWakes = heldWakes /\ Now.rec = rec /\ Now.tracked = tracked
  /\ Now.heldNotes = heldNotes /\ Now.queue = queue /\ Now.log = log
  /\ Now'.wakes = wakes' /\ Now'.heldWakes = heldWakes' /\ Now'.rec = rec' /\ Now'.tracked = tracked'
  /\ Now'.heldNotes = heldNotes' /\ Now'.queue = queue' /\ Now'.log = log'
  BY DEF Now

\* A record is told by its fields.
LEMMA Fields ==
  /\ \A x \in States :
       /\ x.wakes \in [WakeIds -> {Nothing} \cup [reg : Regs, due : BOOLEAN, staged : BOOLEAN]]
       /\ x.heldWakes \in Seq(WakeRequests(WakeIds)) /\ x.heldNotes \in Seq(JobRequests(Jobs))
       /\ x.rec \in [Jobs -> {"tracked", "staged", "notified"}] /\ x.tracked \subseteq Jobs
       /\ x.queue \in Seq(Requests) /\ x.log \in Seq(Entries)
  /\ \A y \in States : Becomes(y) => Now' = y
  <1>1. ASSUME NEW y \in States, Becomes(y)
        PROVE  Now' = y
    <2>1. y = [wakes |-> y.wakes, heldWakes |-> y.heldWakes, rec |-> y.rec, tracked |-> y.tracked,
               heldNotes |-> y.heldNotes, queue |-> y.queue, log |-> y.log]
      BY DEF States
    <2> QED
      BY <1>1, <2>1 DEF Becomes, Now
  <1> QED
    BY <1>1 DEF States

\* The new state is one, if its fields are.
LEMMA NowNext ==
  ASSUME wakes' \in [WakeIds -> {Nothing} \cup [reg : Regs, due : BOOLEAN, staged : BOOLEAN]],
         heldWakes' \in Seq(WakeRequests(WakeIds)), heldNotes' \in Seq(JobRequests(Jobs)),
         rec' \in [Jobs -> {"tracked", "staged", "notified"}], tracked' \subseteq Jobs,
         queue' \in Seq(Requests), log' \in Seq(Entries)
  PROVE  Now' \in States
  BY DEF Now, States

\* Jobs whose status moves, but not from "none".
LEMMA StatusMoves ==
  ASSUME NoticesInv, UNCHANGED <<wakeVars, noteVars, kernelVars, watcher, found, told>>,
         \A j \in Jobs : status'[j] = "none" <=> status[j] = "none"
  PROVE  Known' /\ HeldKnown' /\ WakesEnd
  <1>1. /\ Now' = Now /\ spawned' = spawned /\ line' = line /\ told' = told /\ Visits' = Visits
        /\ found' = found
    BY DEF wakeVars, noteVars, kernelVars, Now, Visits
  <1>2. Kept(Now, spawned, line, status, told, Visits, found)
    BY DEF NoticesInv, Known
  <1>3. JobsKnown(Now, spawned, line, status', told, Visits, found)
    BY <1>2 DEF Kept, JobsKnown, JobRight
  <1>4. Kept(Now, spawned, line, status', told, Visits, found)
    BY <1>2, <1>3 DEF Kept
  <1>5. Known'
    BY <1>1, <1>4 DEF Known
  <1>6. HeldKnown'
    BY DEF NoticesInv, HeldKnown, wakeVars, noteVars, kernelVars, Busy
  <1>7. WakesEnd
    BY DEF WakesEnd, Registered, wakeVars
  <1> QED
    BY <1>5, <1>6, <1>7

\* Goals, processes and stops that have not returned concern no notice.
LEMMA GoalFlipsStep ==
  ASSUME NoticesInv, GoalFlips PROVE NoticesInv' /\ WakesEnd
  <1>1. Known' /\ HeldKnown' /\ WakesEnd
    BY StatusMoves DEF GoalFlips, jobVars
  <1>2. OtherTypes' /\ StartedKnown'
    BY DEF NoticesInv, OtherTypes, StartedKnown, GoalFlips, wakeVars, jobVars, kernelVars
  <1> QED
    BY <1>1, <1>2 DEF NoticesInv

LEMMA ProcessEndsStep ==
  ASSUME NoticesInv, NEW j \in Jobs, ProcessEnds(j) PROVE NoticesInv' /\ WakesEnd
  <1>1. Known' /\ HeldKnown' /\ WakesEnd
    BY StatusMoves DEF ProcessEnds
  <1>2. OtherTypes' /\ StartedKnown'
    BY DEF NoticesInv, OtherTypes, StartedKnown, ProcessEnds, wakeVars, kernelVars
  <1> QED
    BY <1>1, <1>2 DEF NoticesInv

LEMMA WatchJobStep ==
  ASSUME NoticesInv, NEW j \in Jobs, WatchJob(j) PROVE NoticesInv' /\ WakesEnd
  <1>0. status \in [Jobs -> {"none", "running", "ended", "cancelled", "lost"}]
    BY DEF NoticesInv, OtherTypes
  <1>1. Known' /\ HeldKnown' /\ WakesEnd
    BY <1>0, StatusMoves DEF WatchJob
  <1>2. OtherTypes' /\ StartedKnown'
    BY DEF NoticesInv, OtherTypes, StartedKnown, WatchJob, wakeVars, kernelVars
  <1> QED
    BY <1>1, <1>2 DEF NoticesInv

LEMMA WorkerForgetsStep ==
  ASSUME NoticesInv, NEW j \in Jobs, WorkerForgets(j) PROVE NoticesInv' /\ WakesEnd
  <1>0. status \in [Jobs -> {"none", "running", "ended", "cancelled", "lost"}]
    BY DEF NoticesInv, OtherTypes
  <1>1. Known' /\ HeldKnown' /\ WakesEnd
    BY <1>0, StatusMoves DEF WorkerForgets
  <1>2. OtherTypes' /\ StartedKnown'
    BY DEF NoticesInv, OtherTypes, StartedKnown, WorkerForgets, wakeVars, kernelVars
  <1> QED
    BY <1>1, <1>2 DEF NoticesInv

LEMMA StopSignalsStep ==
  ASSUME NoticesInv, NEW j \in Jobs, StopSignals(j) PROVE NoticesInv' /\ WakesEnd
  <1>1. Known' /\ HeldKnown' /\ WakesEnd
    BY StatusMoves DEF StopSignals
  <1>2. status[j] # "none"
    BY DEF NoticesInv, StartedKnown, StopSignals
  <1>3. OtherTypes' /\ StartedKnown'
    BY <1>2 DEF NoticesInv, OtherTypes, StartedKnown, StopSignals, wakeVars, kernelVars
  <1> QED
    BY <1>1, <1>3 DEF NoticesInv

\* ProcessEnds and the others say nothing of requests; a wake that falls due does not either.
LEMMA FallsDueStep ==
  ASSUME NoticesInv, NEW w \in WakeIds, FallsDue(w) PROVE NoticesInv' /\ WakesEnd
  <1>1. Kept(Now, spawned, line, status, told, Visits, found)
    BY DEF NoticesInv, Known
  <1>2. /\ spawned' = spawned /\ line' = line /\ status' = status /\ told' = told
        /\ Visits' = Visits /\ found' = found /\ log' = log
        /\ heldWakes' = heldWakes /\ heldNotes' = heldNotes /\ rec' = rec /\ tracked' = tracked
        /\ queue' = queue
    BY DEF FallsDue, jobVars, noteVars, kernelVars, Visits
  <1>3. Now \in States /\ WakesKnown(Now, spawned, line)
        /\ JobsKnown(Now, spawned, line, status, told, Visits, found)
    BY <1>1 DEF Kept
  <1>4. /\ wakes \in [WakeIds -> {Nothing} \cup [reg : Regs, due : BOOLEAN, staged : BOOLEAN]]
        /\ wakes[w] # Nothing /\ wakes' = [wakes EXCEPT ![w] = [wakes[w] EXCEPT !.due = TRUE]]
    BY <1>3, NowIs, Fields DEF FallsDue, Registered
  <1>5. \A e \in [reg : Regs, due : BOOLEAN, staged : BOOLEAN] :
          /\ [e EXCEPT !.due = TRUE] \in [reg : Regs, due : BOOLEAN, staged : BOOLEAN]
          /\ [e EXCEPT !.due = TRUE].reg = e.reg /\ [e EXCEPT !.due = TRUE].staged = e.staged
          /\ [e EXCEPT !.due = TRUE].due = TRUE /\ e # Nothing
    BY NoticesAssumption
  <1>6. /\ wakes' \in [WakeIds -> {Nothing} \cup [reg : Regs, due : BOOLEAN, staged : BOOLEAN]]
        /\ \A v \in WakeIds : wakes'[v] = Nothing <=> wakes[v] = Nothing
        /\ \A v \in WakeIds : wakes[v] # Nothing =>
             /\ wakes'[v].reg = wakes[v].reg /\ wakes'[v].staged = wakes[v].staged
             /\ wakes[v].due => wakes'[v].due
    <2>1. wakes[w] \in [reg : Regs, due : BOOLEAN, staged : BOOLEAN]
      BY <1>4
    <2> DEFINE e == [wakes[w] EXCEPT !.due = TRUE]
    <2>2. /\ e \in [reg : Regs, due : BOOLEAN, staged : BOOLEAN] /\ e # Nothing
          /\ e.reg = wakes[w].reg /\ e.staged = wakes[w].staged /\ e.due = TRUE
      BY <1>5, <2>1
    <2>3. wakes' = [wakes EXCEPT ![w] = e]
      BY <1>4
    <2> HIDE DEF e
    <2>4. \A v \in WakeIds : wakes'[v] = IF v = w THEN e ELSE wakes[v]
      BY <1>4, <2>3
    <2> QED
      BY <1>4, <2>2, <2>3, <2>4
  <1>7. Now' \in States
    BY <1>2, <1>3, <1>6, NowIs, Fields, NowNext
  <1>8. \A q : UnderWay(Now', spawned, line, q) = UnderWay(Now, spawned, line, q)
    BY <1>2, NowIs DEF UnderWay
  <1>9. WakesKnown(Now', spawned, line)
    BY <1>2, <1>3, <1>6, <1>8, NowIs DEF WakesKnown, Right
  <1>10. JobsKnown(Now', spawned, line, status, told, Visits, found)
    BY <1>2, <1>3, <1>8, NowIs, JobsSame
  <1>11. Known'
    BY <1>1, <1>2, <1>7, <1>9, <1>10 DEF Known, Kept
  <1>12. OtherTypes' /\ StartedKnown' /\ HeldKnown'
    BY DEF NoticesInv, OtherTypes, StartedKnown, HeldKnown, FallsDue, jobVars, noteVars, kernelVars, Busy
  <1>13. WakesEnd
    BY <1>6 DEF WakesEnd, Registered
  <1> QED
    BY <1>11, <1>12, <1>13 DEF NoticesInv

\* The registry's own operations leave jobs and tasks alone.
Aside == UNCHANGED <<jobVars, noteVars, kernelVars, goalOpen, stopping, watcher, found, told, users,
                     cancels>>

\* The invariant after an operation of the registry.
LEMMA RegistryMoves ==
  ASSUME NoticesInv, Aside, Now' \in States, WakesKnown(Now', spawned, line),
         \A j \in Jobs : UnderWay(Now', spawned, line, JobRequest(j)) = UnderWay(Now, spawned, line, JobRequest(j)),
         Len(log') <= MaxRegs, Busy
  PROVE  NoticesInv'
  <1>1. /\ spawned' = spawned /\ line' = line /\ status' = status /\ told' = told
        /\ Visits' = Visits /\ found' = found
        /\ heldNotes' = heldNotes /\ rec' = rec /\ tracked' = tracked
    BY DEF Aside, jobVars, noteVars, kernelVars, Visits
  <1>2. Kept(Now, spawned, line, status, told, Visits, found)
    BY DEF NoticesInv, Known
  <1>3. JobsKnown(Now', spawned, line, status, told, Visits, found)
    BY <1>1, <1>2, NowIs, JobsSame DEF Kept
  <1>4. Known'
    BY <1>1, <1>2, <1>3 DEF Known, Kept
  <1>5. OtherTypes' /\ StartedKnown'
    BY DEF NoticesInv, OtherTypes, StartedKnown, Aside, jobVars, kernelVars
  <1>6. HeldKnown'
    BY <1>1 DEF NoticesInv, HeldKnown, Aside, Busy
  <1> QED
    BY <1>4, <1>5, <1>6 DEF NoticesInv

LEMMA CancelWakeStep ==
  ASSUME NoticesInv, NEW w \in WakeIds, CancelWake(w) PROVE NoticesInv' /\ WakesEnd
  <1>0. Now \in States /\ spawned \in Seq(Tasks) /\ line \in Seq(Tasks) /\ WakesKnown(Now, spawned, line)
    BY DEF NoticesInv, Known, Kept
  <1>1. /\ wakes' = [v \in WakeIds |-> IF v \in {w} THEN Nothing ELSE wakes[v]]
        /\ heldWakes' = Only(heldWakes, WakeRequests(WakeIds \ {w}))
        /\ log' = Fated(wakes, log, {w}, "cancelled") /\ Aside /\ Busy
        /\ heldNotes' = heldNotes /\ queue' = queue /\ rec' = rec /\ tracked' = tracked
    BY DEF CancelWake, CancelAll, Aside, TurnRuns, noteVars, kernelVars
  <1>2. heldWakes' \in Seq(WakeRequests(WakeIds))
    <2>1. heldWakes \in Seq(WakeRequests(WakeIds))
      BY <1>0, Fields, NowIs
    <2>2. Only(heldWakes, WakeRequests(WakeIds \ {w})) \in Seq(WakeRequests(WakeIds))
      BY <2>1, OnlyCount
    <2> QED
      BY <1>1, <2>2
  <1>3. log' \in Seq(Entries) /\ Len(log') = Len(log)
    <2>1. {w} \in SUBSET WakeIds
      OBVIOUS
    <2>2. LET e == Fated(Now.wakes, Now.log, {w}, "cancelled") IN e \in Seq(Entries) /\ Len(e) = Len(Now.log)
      BY <1>0, <2>1, CancelledFates
    <2> QED
      BY <1>1, <2>2, NowIs
  <1>4. Now' \in States
    BY <1>0, <1>1, <1>2, <1>3, NowIs, Fields, NowNext
  <1>5. /\ WakesKnown(Now', spawned, line)
        /\ \A v \in {w} : Now.wakes[v] # Nothing => Now'.log[Now.wakes[v].reg].fate = "cancelled"
        /\ \A j \in Jobs : UnderWay(Now', spawned, line, JobRequest(j)) = UnderWay(Now, spawned, line, JobRequest(j))
    <2>1. PICK y \in States : y = Now'
      BY <1>4
    <2>2. Cancels(Now, {w}, y) /\ {w} \in SUBSET WakeIds
      BY <1>1, <2>1, NowIs DEF Cancels
    <2>3. Cancelled(Now, spawned, line, {w}, y)
      BY <1>0, <2>2, Cancelling
    <2> QED
      BY <2>1, <2>3 DEF Cancelled
  <1>6. Len(log') <= MaxRegs
    BY <1>3 DEF NoticesInv, OtherTypes
  <1>7. NoticesInv'
    BY <1>1, <1>4, <1>5, <1>6, RegistryMoves
  <1>8. WakesEnd
    <2> SUFFICES ASSUME NEW v \in WakeIds, wakes[v] # Nothing, wakes'[v] = Nothing
                 PROVE  log'[wakes[v].reg].fate = "cancelled"
      BY DEF WakesEnd, Registered
    <2>1. v \in {w}
      BY <1>1
    <2> QED
      BY <1>5, <2>1, NowIs
  <1> QED
    BY <1>7, <1>8

LEMMA GoalCheckWakeStep ==
  ASSUME NoticesInv, NEW w \in WakeIds, GoalCheckWake(w) PROVE NoticesInv' /\ WakesEnd
  <1>0. Now \in States /\ spawned \in Seq(Tasks) /\ line \in Seq(Tasks) /\ WakesKnown(Now, spawned, line)
    BY DEF NoticesInv, Known, Kept
  <1>1. /\ wakes' = [wakes EXCEPT ![w] = [reg |-> Len(log) + 1, due |-> FALSE, staged |-> FALSE]]
        /\ log' = Append(log, [id |-> w, fate |-> "open"]) /\ Aside /\ Busy
        /\ heldWakes' = heldWakes /\ heldNotes' = heldNotes /\ queue' = queue /\ rec' = rec
        /\ tracked' = tracked /\ Len(log) < MaxRegs /\ \A r \in 1 .. Len(log) : log[r].id # w
    BY DEF GoalCheckWake, Aside, noteVars, kernelVars, Register, Logged
  <1>2. wakes[w] = Nothing
    <2>1. Now.wakes[w] # Nothing => Now.wakes[w].reg \in 1 .. Len(Now.log) /\ Now.log[Now.wakes[w].reg].id = w
      BY <1>0 DEF WakesKnown
    <2> QED
      BY <1>1, <2>1, NowIs
  <1>3. /\ Len(log) \in Nat /\ log \in Seq(Entries)
        /\ wakes \in [WakeIds -> {Nothing} \cup [reg : Regs, due : BOOLEAN, staged : BOOLEAN]]
    BY <1>0, NowIs, Fields
  <1>4. Now' \in States /\ Len(log') = Len(log) + 1
    <2>1. log' \in Seq(Entries) /\ Len(log') = Len(log) + 1
      BY <1>1, <1>3 DEF Entries, Fates
    <2>2. Len(log) + 1 \in Regs
      BY <1>1, <1>3, NoticesAssumption DEF Regs
    <2>3. wakes' \in [WakeIds -> {Nothing} \cup [reg : Regs, due : BOOLEAN, staged : BOOLEAN]]
      BY <1>1, <1>3, <2>2
    <2> QED
      BY <1>0, <1>1, <2>1, <2>3, NowIs, Fields, NowNext
  <1>5. \A q : UnderWay(Now', spawned, line, q) = UnderWay(Now, spawned, line, q)
    BY <1>1, NowIs DEF UnderWay
  <1>6. WakesKnown(Now', spawned, line)
    <2>1. PICK y \in States : y = Now'
      BY <1>4
    <2>2. /\ y.wakes = [Now.wakes EXCEPT ![w] = [reg |-> Len(Now.log) + 1, due |-> FALSE, staged |-> FALSE]]
          /\ y.log = Append(Now.log, [id |-> w, fate |-> "open"])
          /\ Now.wakes[w] = Nothing /\ Len(Now.log) < MaxRegs
      BY <1>1, <1>2, <2>1, NowIs
    <2>3. \A v \in WakeIds, r \in Regs :
            UnderWay(y, spawned, line, WakeRequest(v, r)) = UnderWay(Now, spawned, line, WakeRequest(v, r))
      BY <1>5, <2>1
    <2>4. WakesKnown(y, spawned, line)
      BY <1>0, <2>2, <2>3, Registering
    <2> QED
      BY <2>1, <2>4
  <1>7. NoticesInv'
    <2>1. Len(log') <= MaxRegs
      BY <1>1, <1>3, <1>4, NoticesAssumption
    <2> QED
      BY <1>1, <1>4, <1>5, <1>6, <2>1, RegistryMoves
  <1>8. WakesEnd
    <2> SUFFICES ASSUME NEW v \in WakeIds, wakes[v] # Nothing PROVE wakes'[v] # Nothing
      BY DEF WakesEnd, Registered
    <2> QED
      BY <1>1, <1>2, <1>3
  <1> QED
    BY <1>7, <1>8

LEMMA ScheduleWakeStep ==
  ASSUME NoticesInv, NEW w \in WakeIds, ScheduleWake(w) PROVE NoticesInv' /\ WakesEnd
  <1> DEFINE before == Fated(wakes, log, GoalChecks, "cancelled")
             midst == [wakes |-> [v \in WakeIds |-> IF v \in GoalChecks THEN Nothing ELSE wakes[v]],
                       heldWakes |-> Only(heldWakes, WakeRequests(Names)), rec |-> rec, tracked |-> tracked,
                       heldNotes |-> heldNotes, queue |-> queue, log |-> before]
  <1>0. Now \in States /\ spawned \in Seq(Tasks) /\ line \in Seq(Tasks) /\ WakesKnown(Now, spawned, line)
    BY DEF NoticesInv, Known, Kept
  <1>1. /\ wakes' = [v \in WakeIds |-> IF v = w THEN [reg |-> Len(log) + 1, due |-> FALSE, staged |-> FALSE]
                                       ELSE IF v \in GoalChecks THEN Nothing ELSE wakes[v]]
        /\ heldWakes' = Only(heldWakes, WakeRequests(Names))
        /\ log' = Append(before, [id |-> w, fate |-> "open"]) /\ Aside /\ Busy
        /\ heldNotes' = heldNotes /\ queue' = queue /\ rec' = rec
        /\ tracked' = tracked /\ Len(log) < MaxRegs /\ wakes[w] = Nothing /\ w \in Names
    BY DEF ScheduleWake, Aside, noteVars, kernelVars, Register, Logged, Registered, TurnRuns
  <1>2. /\ Len(log) \in Nat /\ log \in Seq(Entries)
        /\ wakes \in [WakeIds -> {Nothing} \cup [reg : Regs, due : BOOLEAN, staged : BOOLEAN]]
        /\ GoalChecks \in SUBSET WakeIds /\ w \notin GoalChecks
        /\ WakeRequests(Names) = WakeRequests(WakeIds \ GoalChecks)
    <2>1. WakeIds \ GoalChecks = Names /\ GoalChecks \in SUBSET WakeIds
      BY NoticesAssumption DEF WakeIds
    <2>2. w \notin GoalChecks
      BY <1>1, NoticesAssumption
    <2>3. WakeRequests(Names) = WakeRequests(WakeIds \ GoalChecks)
      BY <2>1
    <2>4. /\ Len(log) \in Nat /\ log \in Seq(Entries)
          /\ wakes \in [WakeIds -> {Nothing} \cup [reg : Regs, due : BOOLEAN, staged : BOOLEAN]]
      BY <1>0, NowIs, Fields
    <2> QED
      BY <2>1, <2>2, <2>3, <2>4
  <1>3. before \in Seq(Entries) /\ Len(before) = Len(log)
    <2>2. LET e == Fated(Now.wakes, Now.log, GoalChecks, "cancelled") IN e \in Seq(Entries) /\ Len(e) = Len(Now.log)
      BY <1>0, <1>2, CancelledFates
    <2> QED
      BY <2>2, NowIs
  <1>4. Only(heldWakes, WakeRequests(Names)) \in Seq(WakeRequests(WakeIds))
    <2>1. heldWakes \in Seq(WakeRequests(WakeIds))
      BY <1>0, Fields, NowIs
    <2> QED
      BY <2>1, OnlyCount
  <1> HIDE DEF before
  <1>5. midst \in States
    <2>1. [v \in WakeIds |-> IF v \in GoalChecks THEN Nothing ELSE wakes[v]]
            \in [WakeIds -> {Nothing} \cup [reg : Regs, due : BOOLEAN, staged : BOOLEAN]]
      BY <1>2
    <2>2. /\ rec \in [Jobs -> {"tracked", "staged", "notified"}] /\ tracked \in SUBSET Jobs
          /\ heldNotes \in Seq(JobRequests(Jobs)) /\ queue \in Seq(Requests)
      BY <1>0, NowIs, Fields
    <2> QED
      BY <1>3, <1>4, <2>1, <2>2 DEF States
  <1>6. PICK x \in States : x = midst
    BY <1>5
  <1>7. /\ x.wakes = [v \in WakeIds |-> IF v \in GoalChecks THEN Nothing ELSE wakes[v]]
        /\ x.heldWakes = Only(heldWakes, WakeRequests(WakeIds \ GoalChecks)) /\ x.heldNotes = heldNotes
        /\ x.queue = queue /\ x.log = Fated(wakes, log, GoalChecks, "cancelled") /\ x.log = before
    BY <1>2, <1>6 DEF before
  <1>8. /\ WakesKnown(x, spawned, line) /\ Len(x.log) = Len(log)
        /\ \A v \in GoalChecks : wakes[v] # Nothing => x.log[wakes[v].reg].fate = "cancelled"
        /\ \A j \in Jobs : UnderWay(x, spawned, line, JobRequest(j)) = UnderWay(Now, spawned, line, JobRequest(j))
    <2>1. Cancels(Now, GoalChecks, x)
      BY <1>7, NowIs DEF Cancels
    <2>2. Cancelled(Now, spawned, line, GoalChecks, x)
      BY <1>0, <1>2, <2>1, Cancelling
    <2> QED
      BY <2>2, NowIs DEF Cancelled
  <1>9. Now' \in States /\ Len(log') = Len(log) + 1
    <2>1. log' \in Seq(Entries) /\ Len(log') = Len(log) + 1
      BY <1>1, <1>2, <1>3 DEF Entries, Fates
    <2>2. Len(log) + 1 \in Regs
      BY <1>1, <1>2, NoticesAssumption DEF Regs
    <2>3. wakes' \in [WakeIds -> {Nothing} \cup [reg : Regs, due : BOOLEAN, staged : BOOLEAN]]
      BY <1>1, <1>2, <2>2
    <2> QED
      BY <1>0, <1>1, <1>4, <2>1, <2>3, NowIs, Fields, NowNext
  <1>10. \A q : UnderWay(Now', spawned, line, q) = UnderWay(x, spawned, line, q)
    BY <1>1, <1>2, <1>7, NowIs DEF UnderWay
  <1>11. WakesKnown(Now', spawned, line)
    <2>1. PICK y \in States : y = Now'
      BY <1>9
    <2>2. /\ y.wakes = [x.wakes EXCEPT ![w] = [reg |-> Len(x.log) + 1, due |-> FALSE, staged |-> FALSE]]
          /\ y.log = Append(x.log, [id |-> w, fate |-> "open"])
          /\ x.wakes[w] = Nothing /\ Len(x.log) < MaxRegs
      BY <1>1, <1>2, <1>7, <1>8, <2>1, NowIs
    <2>3. \A v \in WakeIds, r \in Regs :
            UnderWay(y, spawned, line, WakeRequest(v, r)) = UnderWay(x, spawned, line, WakeRequest(v, r))
      BY <1>10, <2>1
    <2>4. WakesKnown(y, spawned, line)
      BY <1>8, <2>2, <2>3, Registering
    <2> QED
      BY <2>1, <2>4
  <1>12. NoticesInv'
    <2>1. Len(log') <= MaxRegs
      BY <1>1, <1>2, <1>9, NoticesAssumption
    <2> QED
      BY <1>1, <1>8, <1>9, <1>10, <1>11, <2>1, RegistryMoves
  <1>13. WakesEnd
    <2> SUFFICES ASSUME NEW v \in WakeIds, wakes[v] # Nothing, wakes'[v] = Nothing
                 PROVE  log'[wakes[v].reg].fate = "cancelled"
      BY DEF WakesEnd, Registered
    <2>1. v \in GoalChecks
      BY <1>1
    <2>2. Now.wakes[v].reg \in 1 .. Len(Now.log)
      BY <1>0, NowIs DEF WakesKnown
    <2>3. wakes[v].reg \in 1 .. Len(before)
      BY <1>3, <2>2, NowIs
    <2>4. log'[wakes[v].reg] = before[wakes[v].reg]
      BY <1>1, <1>3, <2>3
    <2> QED
      BY <1>7, <1>8, <2>1, <2>4
  <1> QED
    BY <1>12, <1>13

LEMMA StartJobStep ==
  ASSUME NoticesInv, NEW j \in Jobs, StartJob(j) PROVE NoticesInv' /\ WakesEnd
  <1>0. Now \in States /\ WakesKnown(Now, spawned, line)
        /\ JobsKnown(Now, spawned, line, status, told, Visits, found)
    BY DEF NoticesInv, Known, Kept
  <1>1. /\ spawned' = spawned /\ line' = line /\ told' = told /\ Visits' = Visits /\ found' = found
        /\ wakes' = wakes /\ heldWakes' = heldWakes /\ log' = log
        /\ heldNotes' = heldNotes /\ rec' = rec /\ queue' = queue
        /\ tracked' = tracked \cup {j} /\ status[j] = "none" /\ status' = [status EXCEPT ![j] = "running"]
    BY DEF StartJob, wakeVars, kernelVars, Visits
  <1>2. Now' \in States
    BY <1>0, <1>1, NowIs, Fields, NowNext
  <1>3. \A q : UnderWay(Now', spawned, line, q) = UnderWay(Now, spawned, line, q)
    BY <1>1, NowIs DEF UnderWay
  <1>4. WakesKnown(Now', spawned, line)
    BY <1>0, <1>1, <1>3, NowIs, WakesSame
  <1>5. spawned \in Seq(Tasks) /\ line \in Seq(Tasks) /\ \A k \in Jobs : Count(heldNotes, JobRequest(k)) \in Nat
    BY UnderWayNat, NowIs DEF NoticesInv, Known, Kept
  <1>6. status \in [Jobs -> {"none", "running", "ended", "cancelled", "lost"}]
    BY DEF NoticesInv, OtherTypes
  <1>7. ASSUME NEW k \in Jobs
        PROVE  JobRight(rec[k], k \in tracked', status'[k], told[k], Count(Visits, k), Count(found, k),
                        Count(heldNotes, JobRequest(k)), UnderWay(Now', spawned, line, JobRequest(k)))
    <2> DEFINE v == Count(Visits, k)
               f == Count(found, k)
               h == Count(heldNotes, JobRequest(k))
               n == UnderWay(Now, spawned, line, JobRequest(k))
    <2>1. JobRight(rec[k], k \in tracked, status[k], told[k], v, f, h, n)
      BY <1>0, NowIs DEF JobsKnown
    <2>2. h \in Nat /\ UnderWay(Now', spawned, line, JobRequest(k)) = n
      BY <1>3, <1>5
    <2> HIDE DEF v, f, h, n
    <2>3. CASE k = j
      <3>1. v = 0 /\ f = 0 /\ h = 0 /\ n = 0 /\ rec[k] = "tracked" /\ told[k] = "open"
        BY <1>1, <2>1, <2>2, <2>3 DEF JobRight
      <3>2. k \in tracked' /\ status'[k] = "running"
        BY <1>1, <1>6, <2>3
      <3>3. JobRight(rec[k], k \in tracked', status'[k], told[k], v, f, h, n)
        BY <3>1, <3>2 DEF JobRight
      <3> QED
        BY <2>2, <3>3 DEF v, f, h
    <2>4. CASE k # j
      <3>1. status'[k] = status[k] /\ (k \in tracked' <=> k \in tracked)
        BY <1>1, <1>6, <2>4
      <3>2. JobRight(rec[k], k \in tracked', status'[k], told[k], v, f, h, n)
        BY <2>1, <3>1
      <3> QED
        BY <2>2, <3>2 DEF v, f, h
    <2> QED
      BY <2>3, <2>4
  <1>8. JobsKnown(Now', spawned, line, status', told, Visits, found)
    BY <1>1, <1>7, NowIs DEF JobsKnown
  <1>9. Known'
    BY <1>1, <1>2, <1>4, <1>8 DEF NoticesInv, Known, Kept
  <1>10. OtherTypes' /\ StartedKnown' /\ HeldKnown'
    BY <1>1, <1>6 DEF NoticesInv, OtherTypes, StartedKnown, HeldKnown, StartJob, wakeVars, kernelVars, Busy
  <1>11. WakesEnd
    BY <1>1 DEF WakesEnd, Registered
  <1> QED
    BY <1>9, <1>10, <1>11 DEF NoticesInv

\* A stop takes the job off the watcher's list, and back what was held back of it.
LEMMA Suppressing ==
  ASSUME NoticesInv, NEW j \in Jobs, Suppress(j), status[j] # "none",
         \A k \in Jobs : status'[k] = "none" <=> status[k] = "none",
         UNCHANGED <<wakeVars, rec, kernelVars, watcher, found>>
  PROVE  Known' /\ HeldKnown' /\ WakesEnd
  <1> DEFINE held == Only(heldNotes, JobRequests(Jobs \ {j}))
  <1>0. /\ Now \in States /\ WakesKnown(Now, spawned, line)
        /\ JobsKnown(Now, spawned, line, status, told, Visits, found)
        /\ spawned \in Seq(Tasks) /\ line \in Seq(Tasks) /\ heldNotes \in Seq(JobRequests(Jobs))
        /\ told \in [Jobs -> {"open", "stopped", "dropped", "heard"}]
    BY NowIs, Fields DEF NoticesInv, Known, Kept, OtherTypes
  <1>1. /\ spawned' = spawned /\ line' = line /\ Visits' = Visits /\ found' = found
        /\ wakes' = wakes /\ heldWakes' = heldWakes /\ log' = log
        /\ heldNotes' = held /\ rec' = rec /\ queue' = queue /\ tracked' = tracked \ {j}
        /\ told' = [told EXCEPT ![j] = IF told[j] = "open" /\ (UnderWay(Now, spawned, line, JobRequest(j)) = 0
                                                               \/ held # heldNotes)
                                       THEN "stopped" ELSE told[j]]
    BY NowIs DEF Suppress, Copies, UnderWay, wakeVars, kernelVars, Visits
  <1>2. held \in Seq(JobRequests(Jobs))
        /\ \A q : Count(held, q) = IF q \in JobRequests(Jobs \ {j}) THEN Count(heldNotes, q) ELSE 0
    <2> DEFINE T == JobRequests(Jobs \ {j})
    <2>1. \A s \in Seq(JobRequests(Jobs)) : \A S, q :
             /\ Only(s, S) \in Seq(JobRequests(Jobs)) /\ Only(s, S) \in Seq(S)
             /\ Count(Only(s, S), q) = IF q \in S THEN Count(s, q) ELSE 0
      BY OnlyCount
    <2>2. heldNotes \in Seq(JobRequests(Jobs))
      BY <1>0
    <2> HIDE DEF T
    <2>3. Only(heldNotes, T) \in Seq(JobRequests(Jobs))
          /\ \A q : Count(Only(heldNotes, T), q) = IF q \in T THEN Count(heldNotes, q) ELSE 0
      BY <2>1, <2>2
    <2> QED
      BY <2>3 DEF T
  <1> HIDE DEF held
  <1>3. Now' \in States
    BY <1>0, <1>1, <1>2, NowIs, Fields, NowNext
  <1>4. ASSUME NEW q
        PROVE  /\ Count(heldNotes, q) \in Nat /\ Count(held, q) \in Nat
               /\ UnderWay(Now, spawned, line, q) \in Nat /\ Count(heldNotes, q) <= UnderWay(Now, spawned, line, q)
               /\ UnderWay(Now', spawned, line, q) = UnderWay(Now, spawned, line, q) - Count(heldNotes, q) + Count(held, q)
    <2> DEFINE h == Count(heldNotes, q)
               k == Count(held, q)
               a == Count(heldWakes, q)
               b == Count(queue, q)
               c == Count(Asked(spawned), q)
               d == Count(Asked(line), q)
    <2>1. h \in Nat /\ a \in Nat /\ b \in Nat /\ c \in Nat /\ d \in Nat
      BY <1>0, UnderWayNat, NowIs
    <2>2. k \in Nat
      BY <1>2, <2>1
    <2>3. UnderWay(Now', spawned, line, q) = a + k + b + c + d /\ UnderWay(Now, spawned, line, q) = a + h + b + c + d
      BY <1>1, NowIs DEF UnderWay
    <2> HIDE DEF h, k, a, b, c, d
    <2>4. /\ h \in Nat /\ k \in Nat /\ UnderWay(Now, spawned, line, q) \in Nat
          /\ h <= UnderWay(Now, spawned, line, q)
          /\ UnderWay(Now', spawned, line, q) = UnderWay(Now, spawned, line, q) - h + k
      BY <2>1, <2>2, <2>3
    <2> QED
      BY <2>4 DEF h, k
  <1>5. WakesKnown(Now', spawned, line)
    <2>1. \A w \in WakeIds, r \in Regs : Count(heldNotes, WakeRequest(w, r)) = 0 /\ Count(held, WakeRequest(w, r)) = 0
      BY <1>0, <1>2, HeldApart, NowIs
    <2>2. \A w \in WakeIds, r \in Regs :
             UnderWay(Now', spawned, line, WakeRequest(w, r)) = UnderWay(Now, spawned, line, WakeRequest(w, r))
      BY <1>4, <2>1
    <2> QED
      BY <1>0, <1>1, <2>2, NowIs, WakesSame
  <1>6. ASSUME NEW k \in Jobs
        PROVE  JobRight(rec[k], k \in tracked', status'[k], told'[k], Count(Visits, k), Count(found, k),
                        Count(held, JobRequest(k)), UnderWay(Now', spawned, line, JobRequest(k)))
    <2> DEFINE v == Count(Visits, k)
               f == Count(found, k)
               h == Count(heldNotes, JobRequest(k))
               g == Count(held, JobRequest(k))
               n == UnderWay(Now, spawned, line, JobRequest(k))
               m == UnderWay(Now', spawned, line, JobRequest(k))
    <2>1. JobRight(rec[k], k \in tracked, status[k], told[k], v, f, h, n)
      BY <1>0, NowIs DEF JobsKnown
    <2>2. h \in Nat /\ g \in Nat /\ n \in Nat /\ h <= n /\ m = n - h + g
      BY <1>4
    <2>3. g = IF k = j THEN 0 ELSE h
      <3>1. JobRequest(k) \in JobRequests(Jobs \ {j}) <=> k # j
        BY DEF JobRequest, JobRequests
      <3> QED
        BY <1>2, <3>1
    <2>4. held = heldNotes => g = h
      OBVIOUS
    <2>5. k = j => told'[k] = IF told[k] = "open" /\ (n = 0 \/ held # heldNotes) THEN "stopped" ELSE told[k]
      BY <1>0, <1>1
    <2>6. k # j => told'[k] = told[k] /\ (k \in tracked' <=> k \in tracked)
      BY <1>0, <1>1
    <2>7. k = j => k \notin tracked'
      BY <1>1
    <2>8. status'[k] = "none" <=> status[k] = "none"
      OBVIOUS
    <2> HIDE DEF v, f, h, g, n, m
    <2>9. JobRight(rec[k], k \in tracked', status'[k], told'[k], v, f, g, m)
      <3>1. CASE k = j
        <4>1. g = 0 /\ m = n - h /\ m \in Nat /\ m <= n
          BY <2>2, <2>3, <3>1
        <4>2. told'[k] = "open" => told[k] = "open" /\ n # 0 /\ h = 0
          BY <2>3, <2>4, <2>5, <3>1
        <4>3. /\ v + f <= 1 /\ (f # 0 => rec[k] = "tracked") /\ n <= 1
              /\ (v + f # 0 /\ rec[k] = "tracked" => n = 0)
          BY <2>1 DEF JobRight
        <4>4. m <= 1 /\ 0 <= m /\ (n = 0 => m = 0) /\ (told'[k] = "open" => m = 1)
          BY <2>2, <4>1, <4>2, <4>3
        <4> QED
          BY <2>7, <2>8, <3>1, <4>1, <4>3, <4>4 DEF JobRight
      <3>2. CASE k # j
        <4>1. g = h /\ m = n
          BY <2>2, <2>3, <3>2
        <4> QED
          BY <2>1, <2>6, <2>8, <3>2, <4>1 DEF JobRight
      <3> QED
        BY <3>1, <3>2
    <2> QED
      BY <2>9 DEF v, f, g, m
  <1>7. JobsKnown(Now', spawned, line, status', told', Visits, found)
    BY <1>1, <1>6, NowIs DEF JobsKnown
  <1>8. Known'
    BY <1>1, <1>3, <1>5, <1>7 DEF NoticesInv, Known, Kept
  <1>9. HeldKnown'
    <2>1. heldNotes = <<>> => held = <<>>
      <3>2. ASSUME heldNotes = <<>> PROVE held = <<>>
        <4>1. \A q : Count(held, q) = 0
          BY <1>2, <3>2, CountNothing
        <4>2. \A i \in 1 .. Len(held) : held[i] # held[i]
          BY <1>2, <4>1, CountIs
        <4>3. Len(held) \in Nat /\ ~(1 <= Len(held))
          BY <1>2, <4>2
        <4> QED
          BY <1>2, <4>3
      <3> QED
        BY <3>2
    <2> QED
      BY <1>1, <2>1 DEF NoticesInv, HeldKnown, Busy
  <1>10. WakesEnd
    BY <1>1 DEF WakesEnd, Registered
  <1> QED
    BY <1>8, <1>9, <1>10

LEMMA StopEndedStep ==
  ASSUME NoticesInv, NEW j \in Jobs, StopEnded(j) PROVE NoticesInv' /\ WakesEnd
  <1>1. status[j] # "none"
    BY DEF NoticesInv, StartedKnown, StopEnded
  <1>2. Known' /\ HeldKnown' /\ WakesEnd
    BY <1>1, Suppressing DEF StopEnded, jobVars
  <1>3. OtherTypes' /\ StartedKnown'
    BY DEF NoticesInv, OtherTypes, StartedKnown, StopEnded, Suppress, wakeVars, jobVars, kernelVars
  <1> QED
    BY <1>2, <1>3 DEF NoticesInv

\* A stop has the job's notice suppressed, whether it had to await its end or not.
LEMMA StopReturnsStep ==
  ASSUME NoticesInv, NEW j \in Jobs, StopReturns(j) PROVE NoticesInv' /\ WakesEnd
  <1>0. status \in [Jobs -> {"none", "running", "ended", "cancelled", "lost"}]
    BY DEF NoticesInv, OtherTypes
  <1>1. status[j] # "none"
    BY NoticesAssumption DEF NoticesInv, StartedKnown, StopReturns
  <1>2. Known' /\ HeldKnown' /\ WakesEnd
    BY <1>0, <1>1, Suppressing DEF StopReturns
  <1>3. OtherTypes' /\ StartedKnown'
    BY <1>1 DEF NoticesInv, OtherTypes, StartedKnown, StopReturns, Suppress, wakeVars, kernelVars
  <1> QED
    BY <1>2, <1>3 DEF NoticesInv

\* Requests and tasks that only change their place.
LEMMA Moving ==
  ASSUME NoticesInv, UNCHANGED <<wakeVars, jobVars, noteVars, watcher, found, told>>,
         queue' \in Seq(Requests), spawned' \in Seq(Tasks), line' \in Seq(Tasks),
         \A q \in Requests : q # User => UnderWay(Now', spawned', line', q) = UnderWay(Now, spawned, line, q),
         line # <<>> => line' # <<>>
  PROVE  Known' /\ HeldKnown' /\ WakesEnd
  <1>0. Now \in States /\ WakesKnown(Now, spawned, line)
        /\ JobsKnown(Now, spawned, line, status, told, Visits, found)
    BY DEF NoticesInv, Known, Kept
  <1>1. /\ status' = status /\ told' = told /\ Visits' = Visits /\ found' = found
        /\ wakes' = wakes /\ heldWakes' = heldWakes /\ log' = log
        /\ heldNotes' = heldNotes /\ rec' = rec /\ tracked' = tracked
    BY DEF wakeVars, jobVars, noteVars, Visits
  <1>2. Now' \in States
    BY <1>0, <1>1, NowIs, Fields, NowNext
  <1>3. /\ \A w \in WakeIds, r \in Regs : WakeRequest(w, r) \in Requests /\ WakeRequest(w, r) # User
        /\ \A j \in Jobs : JobRequest(j) \in Requests /\ JobRequest(j) # User
    BY Kinds
  <1>4. WakesKnown(Now', spawned', line')
    BY <1>0, <1>1, <1>3, NowIs, WakesSame
  <1>5. JobsKnown(Now', spawned', line', status, told, Visits, found)
    BY <1>0, <1>1, <1>3, NowIs, JobsSame
  <1>6. Known'
    BY <1>1, <1>2, <1>4, <1>5 DEF NoticesInv, Known, Kept
  <1>7. HeldKnown'
    BY <1>1 DEF NoticesInv, HeldKnown, Busy
  <1>8. WakesEnd
    BY <1>1 DEF WakesEnd, Registered
  <1> QED
    BY <1>6, <1>7, <1>8

\* A sum of which two parts change.
LEMMA TwoParts ==
  ASSUME NEW x \in States, NEW sp \in Seq(Tasks), NEW li \in Seq(Tasks),
         NEW y \in States, NEW tp \in Seq(Tasks), NEW mi \in Seq(Tasks), NEW q,
         y.heldWakes = x.heldWakes, y.heldNotes = x.heldNotes
  PROVE  UnderWay(y, tp, mi, q) - UnderWay(x, sp, li, q) =
           (Count(y.queue, q) - Count(x.queue, q)) + (Count(Asked(tp), q) - Count(Asked(sp), q))
           + (Count(Asked(mi), q) - Count(Asked(li), q))
  <1> DEFINE h == Count(x.heldWakes, q)
             k == Count(x.heldNotes, q)
             b == Count(x.queue, q)
             c == Count(Asked(sp), q)
             d == Count(Asked(li), q)
             e == Count(y.queue, q)
             f == Count(Asked(tp), q)
             g == Count(Asked(mi), q)
  <1>1. /\ h \in Nat /\ k \in Nat /\ b \in Nat /\ c \in Nat /\ d \in Nat
        /\ e \in Nat /\ f \in Nat /\ g \in Nat
    BY UnderWayNat
  <1>2. UnderWay(y, tp, mi, q) = h + k + e + f + g /\ UnderWay(x, sp, li, q) = h + k + b + c + d
    BY DEF UnderWay
  <1> HIDE DEF h, k, b, c, d, e, f, g
  <1>3. UnderWay(y, tp, mi, q) - UnderWay(x, sp, li, q) = (e - b) + (f - c) + (g - d)
    BY <1>1, <1>2
  <1> QED
    BY <1>3 DEF b, c, d, e, f, g

\* The same of the state and the next.
LEMMA PlacesChange ==
  ASSUME NoticesInv, UNCHANGED <<heldWakes, heldNotes>>, Now' \in States,
         spawned' \in Seq(Tasks), line' \in Seq(Tasks), NEW q, NEW n \in Int,
         (Count(queue', q) - Count(queue, q)) + (Count(Asked(spawned'), q) - Count(Asked(spawned), q))
           + (Count(Asked(line'), q) - Count(Asked(line), q)) = n
  PROVE  UnderWay(Now', spawned', line', q) = UnderWay(Now, spawned, line, q) + n
  <1>0. Now \in States /\ spawned \in Seq(Tasks) /\ line \in Seq(Tasks)
    BY DEF NoticesInv, Known, Kept
  <1>1. PICK x \in States, sp \in Seq(Tasks), li \in Seq(Tasks) : x = Now /\ sp = spawned /\ li = line
    BY <1>0
  <1>2. PICK y \in States, tp \in Seq(Tasks), mi \in Seq(Tasks) : y = Now' /\ tp = spawned' /\ mi = line'
    OBVIOUS
  <1>3. /\ y.heldWakes = x.heldWakes /\ y.heldNotes = x.heldNotes
        /\ (Count(y.queue, q) - Count(x.queue, q)) + (Count(Asked(tp), q) - Count(Asked(sp), q))
             + (Count(Asked(mi), q) - Count(Asked(li), q)) = n
    BY <1>1, <1>2, NowIs
  <1>4. UnderWay(y, tp, mi, q) - UnderWay(x, sp, li, q) = n
    BY <1>3, TwoParts
  <1>5. UnderWay(y, tp, mi, q) \in Nat /\ UnderWay(x, sp, li, q) \in Nat
    BY UnderWayNat
  <1>6. UnderWay(y, tp, mi, q) = UnderWay(x, sp, li, q) + n
    BY <1>4, <1>5
  <1> QED
    BY <1>1, <1>2, <1>6

\* The places as they are counted.
LEMMA PlacesNat ==
  ASSUME NoticesInv
  PROVE  /\ Now \in States /\ spawned \in Seq(Tasks) /\ line \in Seq(Tasks) /\ queue \in Seq(Requests)
         /\ \A q : /\ Count(queue, q) \in Nat /\ Count(Asked(spawned), q) \in Nat
                   /\ Count(Asked(line), q) \in Nat /\ UnderWay(Now, spawned, line, q) \in Nat
  <1>0. Now \in States /\ spawned \in Seq(Tasks) /\ line \in Seq(Tasks)
    BY DEF NoticesInv, Known, Kept
  <1> QED
    BY <1>0, NowIs, Fields, UnderWayNat

\* Requests move from the queue to a task, and cancelled ones stay where they are.
LEMMA SubmitStep ==
  ASSUME NoticesInv, Submit PROVE NoticesInv' /\ WakesEnd
  <1>1. /\ UNCHANGED <<wakeVars, jobVars, noteVars, watcher, found, told>>
        /\ spawned' = spawned /\ line' = line /\ queue' = Append(queue, User)
        /\ heldWakes' = heldWakes /\ heldNotes' = heldNotes
    BY DEF Submit, wakeVars, noteVars
  <1>2. queue' \in Seq(Requests) /\ \A q : Count(queue', q) = Count(queue, q) + IF User = q THEN 1 ELSE 0
    <2>1. User \in Requests
      BY Kinds
    <2> QED
      BY <1>1, <2>1, PlacesNat, CountAppend
  <1>3. Now' \in States
    BY <1>1, <1>2, PlacesNat, NowIs, Fields, NowNext DEF wakeVars, noteVars
  <1>4. ASSUME NEW q \in Requests, q # User
        PROVE  UnderWay(Now', spawned', line', q) = UnderWay(Now, spawned, line, q)
    <2>1. /\ Count(queue', q) = Count(queue, q) /\ Count(queue, q) \in Nat
          /\ Count(Asked(spawned'), q) = Count(Asked(spawned), q) /\ Count(Asked(spawned), q) \in Nat
          /\ Count(Asked(line'), q) = Count(Asked(line), q) /\ Count(Asked(line), q) \in Nat
          /\ UnderWay(Now, spawned, line, q) \in Nat
      BY <1>1, <1>2, <1>4, PlacesNat
    <2>2. (Count(queue', q) - Count(queue, q)) + (Count(Asked(spawned'), q) - Count(Asked(spawned), q))
            + (Count(Asked(line'), q) - Count(Asked(line), q)) = 0 /\ 0 \in Int
      BY <2>1
    <2>3. spawned' \in Seq(Tasks) /\ line' \in Seq(Tasks)
      BY <1>1, PlacesNat
    <2>4. UnderWay(Now', spawned', line', q) = UnderWay(Now, spawned, line, q) + 0
      BY <1>1, <1>3, <2>2, <2>3, PlacesChange
    <2> QED
      BY <2>1, <2>4
  <1>5. Known' /\ HeldKnown' /\ WakesEnd
    BY <1>1, <1>2, <1>4, PlacesNat, Moving
  <1>6. OtherTypes' /\ StartedKnown'
    BY NoticesAssumption DEF NoticesInv, OtherTypes, StartedKnown, Submit, wakeVars, jobVars
  <1> QED
    BY <1>5, <1>6 DEF NoticesInv

LEMMA DispatchSpawnStep ==
  ASSUME NoticesInv, DispatchSpawn PROVE NoticesInv' /\ WakesEnd
  <1>1. /\ UNCHANGED <<wakeVars, jobVars, noteVars, watcher, found, told>>
        /\ spawned' = Append(spawned, AsTask(Head(queue))) /\ line' = line /\ queue' = Tail(queue)
        /\ queue # <<>> /\ heldWakes' = heldWakes /\ heldNotes' = heldNotes
    BY DEF DispatchSpawn, wakeVars, noteVars
  <1>2. /\ queue' \in Seq(Requests) /\ Head(queue) \in Requests
        /\ \A q : Count(queue, q) = Count(queue', q) + IF Head(queue) = q THEN 1 ELSE 0
    BY <1>1, PlacesNat, CountTail
  <1>3. Now' \in States
    BY <1>1, <1>2, PlacesNat, NowIs, Fields, NowNext DEF wakeVars, noteVars
  <1>4. /\ AsTask(Head(queue)) \in Tasks /\ AsTask(Head(queue)).req = Head(queue)
        /\ spawned' \in Seq(Tasks)
        /\ \A q : Count(Asked(spawned'), q) = Count(Asked(spawned), q) + IF Head(queue) = q THEN 1 ELSE 0
    <2>1. AsTask(Head(queue)) \in Tasks /\ AsTask(Head(queue)).req = Head(queue)
      BY <1>2 DEF AsTask, Tasks
    <2> QED
      BY <1>1, <2>1, PlacesNat, AskedAppend
  <1>5. ASSUME NEW q \in Requests, q # User
        PROVE  UnderWay(Now', spawned', line', q) = UnderWay(Now, spawned, line, q)
    <2>0. Count(queue', q) \in Nat
      BY <1>2, CountIs
    <2>1. /\ Count(queue, q) = Count(queue', q) + (IF Head(queue) = q THEN 1 ELSE 0) /\ Count(queue, q) \in Nat
          /\ Count(Asked(spawned'), q) = Count(Asked(spawned), q) + (IF Head(queue) = q THEN 1 ELSE 0)
          /\ Count(Asked(spawned), q) \in Nat
          /\ Count(Asked(line'), q) = Count(Asked(line), q) /\ Count(Asked(line), q) \in Nat
          /\ UnderWay(Now, spawned, line, q) \in Nat
      BY <1>1, <1>2, <1>4, PlacesNat
    <2>2. (Count(queue', q) - Count(queue, q)) + (Count(Asked(spawned'), q) - Count(Asked(spawned), q))
            + (Count(Asked(line'), q) - Count(Asked(line), q)) = 0 /\ 0 \in Int
      BY <2>0, <2>1
    <2>3. spawned' \in Seq(Tasks) /\ line' \in Seq(Tasks)
      BY <1>1, <1>4, PlacesNat
    <2>4. UnderWay(Now', spawned', line', q) = UnderWay(Now, spawned, line, q) + 0
      BY <1>1, <1>3, <2>2, <2>3, PlacesChange
    <2> QED
      BY <2>1, <2>4
  <1>6. Known' /\ HeldKnown' /\ WakesEnd
    BY <1>1, <1>2, <1>4, <1>5, PlacesNat, Moving
  <1>7. OtherTypes' /\ StartedKnown'
    BY DEF NoticesInv, OtherTypes, StartedKnown, DispatchSpawn, wakeVars, jobVars
  <1> QED
    BY <1>6, <1>7 DEF NoticesInv

LEMMA CancelSessionStep ==
  ASSUME NoticesInv, CancelSession PROVE NoticesInv' /\ WakesEnd
  <1>1. /\ UNCHANGED <<wakeVars, jobVars, noteVars, watcher, found, told>> /\ queue' = queue
        /\ spawned' = [i \in 1 .. Len(spawned) |-> [spawned[i] EXCEPT !.killed = TRUE]]
        /\ line' = [i \in 1 .. Len(line) |-> [line[i] EXCEPT !.killed = TRUE]]
        /\ heldWakes' = heldWakes /\ heldNotes' = heldNotes
    BY DEF CancelSession, wakeVars, noteVars
  <1>2. /\ spawned' \in Seq(Tasks) /\ Asked(spawned') = Asked(spawned)
        /\ line' \in Seq(Tasks) /\ Asked(line') = Asked(line) /\ Len(line') = Len(line)
    BY <1>1, PlacesNat, AskedKilled
  <1>3. \A q : UnderWay(Now', spawned', line', q) = UnderWay(Now, spawned, line, q)
    BY <1>1, <1>2, NowIs DEF UnderWay
  <1>4. line # <<>> => line' # <<>>
    BY <1>2, PlacesNat
  <1>5. Known' /\ HeldKnown' /\ WakesEnd
    BY <1>1, <1>2, <1>3, <1>4, PlacesNat, Moving
  <1>6. OtherTypes' /\ StartedKnown'
    BY NoticesAssumption DEF NoticesInv, OtherTypes, StartedKnown, CancelSession, wakeVars, jobVars
  <1> QED
    BY <1>5, <1>6 DEF NoticesInv

\* One registration's fate changes.
LEMMA Refated ==
  ASSUME NEW s \in Seq(Entries), NEW r, NEW f \in Fates
  PROVE  [s EXCEPT ![r].fate = f] \in Seq(Entries) /\ Len([s EXCEPT ![r].fate = f]) = Len(s)
  <1> DEFINE t == [s EXCEPT ![r].fate = f]
  <1>1. Len(s) \in Nat /\ DOMAIN s = 1 .. Len(s) /\ s \in [1 .. Len(s) -> Entries]
    OBVIOUS
  <1>2. t \in [1 .. Len(s) -> Entries]
    <2>1. \A i \in 1 .. Len(s) : [s[i] EXCEPT !.fate = f] \in Entries
      BY <1>1 DEF Entries
    <2>2. t = [i \in 1 .. Len(s) |-> IF i = r THEN [s[i] EXCEPT !.fate = f] ELSE s[i]]
      BY <1>1
    <2> QED
      BY <1>1, <2>1, <2>2
  <1> HIDE DEF t
  <1>3. t \in Seq(Entries) /\ Len(t) = Len(s)
    BY <1>1, <1>2, IsASeq, LenProperties
  <1> QED
    BY <1>3 DEF t

\* A request that leaves without its turn.
LEMMA Dropping ==
  ASSUME NoticesInv, NEW request \in Requests, Drops(request),
         UNCHANGED <<wakes, heldWakes, jobVars, noteVars, watcher, found>>,
         queue' \in Seq(Requests), spawned' \in Seq(Tasks), line' \in Seq(Tasks),
         Now' \in States => Less(Now, spawned, line, Now', spawned', line', request),
         line # <<>> => line' # <<>>
  PROVE  /\ Known' /\ HeldKnown' /\ WakesEnd /\ Len(log') <= MaxRegs
         /\ told' \in [Jobs -> {"open", "stopped", "dropped", "heard"}]
  <1>0. /\ Now \in States /\ WakesKnown(Now, spawned, line) /\ log \in Seq(Entries)
        /\ JobsKnown(Now, spawned, line, status, told, Visits, found)
        /\ spawned \in Seq(Tasks) /\ line \in Seq(Tasks)
        /\ told \in [Jobs -> {"open", "stopped", "dropped", "heard"}] /\ Len(log) <= MaxRegs
    BY NowIs, Fields DEF NoticesInv, Known, Kept, OtherTypes
  <1>1. /\ status' = status /\ Visits' = Visits /\ found' = found
        /\ wakes' = wakes /\ heldWakes' = heldWakes
        /\ heldNotes' = heldNotes /\ rec' = rec /\ tracked' = tracked
    BY DEF jobVars, noteVars, Visits
  <1>2. log' \in Seq(Entries) /\ Len(log') = Len(log)
    <2>1. CASE request.kind = "wake" /\ log[request.reg].fate = "open"
      <3>1. log' = [log EXCEPT ![request.reg].fate = "dropped"]
        BY <2>1 DEF Drops
      <3>2. "dropped" \in Fates
        BY DEF Fates
      <3> QED
        BY <1>0, <3>1, <3>2, Refated
    <2>2. CASE ~(request.kind = "wake" /\ log[request.reg].fate = "open")
      BY <1>0, <2>2 DEF Drops
    <2> QED
      BY <2>1, <2>2
  <1>3. Now' \in States
    BY <1>0, <1>1, <1>2, NowIs, Fields, NowNext
  <1>4. Less(Now, spawned, line, Now', spawned', line', request)
    BY <1>3
  <1>5. PICK y \in States, tp \in Seq(Tasks), mi \in Seq(Tasks) : y = Now' /\ tp = spawned' /\ mi = line'
    BY <1>3
  <1>6. /\ y.wakes = Now.wakes /\ y.rec = Now.rec /\ y.tracked = Now.tracked /\ y.heldNotes = Now.heldNotes
        /\ Less(Now, spawned, line, y, tp, mi, request)
    BY <1>1, <1>4, <1>5, NowIs
  <1>7. WakesKnown(y, tp, mi)
    <2>1. CASE request.kind = "wake"
      <3>1. request.wake \in WakeIds /\ request.reg \in Regs /\ request = WakeRequest(request.wake, request.reg)
        BY <2>1, Kinds
      <3>2. PICK w \in WakeIds, r \in Regs : request = WakeRequest(w, r) /\ r = request.reg
        BY <3>1
      <3>3. y.log = IF Now.log[r].fate = "open" THEN [Now.log EXCEPT ![r].fate = "dropped"] ELSE Now.log
        BY <1>5, <2>1, <3>2, NowIs DEF Drops
      <3>4. Less(Now, spawned, line, y, tp, mi, WakeRequest(w, r))
        BY <1>6, <3>2
      <3> QED
        BY <1>0, <1>6, <3>3, <3>4, WakeDropped
    <2>2. CASE request.kind # "wake"
      <3>1. y.log = Now.log
        BY <1>5, <2>2, NowIs DEF Drops
      <3> QED
        BY <1>0, <1>6, <2>2, <3>1, OthersLess
    <2> QED
      BY <2>1, <2>2
  <1>8. JobsKnown(y, tp, mi, status, told', Visits, found)
    <2>1. \A j \in Jobs : IF request = JobRequest(j) THEN told'[j] # "open" ELSE told'[j] = told[j]
      <3> SUFFICES ASSUME NEW j \in Jobs
                   PROVE  IF request = JobRequest(j) THEN told'[j] # "open" ELSE told'[j] = told[j]
        OBVIOUS
      <3>1. CASE request = JobRequest(j)
        <4>1. request.kind = "job" /\ request.job = j
          BY <3>1, SameRequest
        <4>2. told' = [told EXCEPT ![j] = "dropped"]
          BY <4>1 DEF Drops
        <4> QED
          BY <1>0, <3>1, <4>2
      <3>2. CASE request # JobRequest(j)
        <4>1. request.kind = "job" => request.job # j
          BY <3>2, Kinds
        <4> QED
          BY <1>0, <3>2, <4>1 DEF Drops
      <3> QED
        BY <3>1, <3>2
    <2> QED
      BY <1>0, <1>6, <2>1, NoticeGone
  <1>9. Known'
    BY <1>1, <1>5, <1>7, <1>8 DEF NoticesInv, Known, Kept
  <1>10. HeldKnown'
    BY <1>1 DEF NoticesInv, HeldKnown, Busy
  <1>11. WakesEnd
    BY <1>1 DEF WakesEnd, Registered
  <1>12. told' \in [Jobs -> {"open", "stopped", "dropped", "heard"}]
    BY <1>0 DEF Drops
  <1> QED
    BY <1>0, <1>2, <1>9, <1>10, <1>11, <1>12

\* Requests that are dropped on their way.
LEMMA DispatchSkipStep ==
  ASSUME NoticesInv, DispatchSkip PROVE NoticesInv' /\ WakesEnd
  <1>1. /\ UNCHANGED <<wakes, heldWakes, jobVars, noteVars, watcher, found>>
        /\ spawned' = spawned /\ line' = line /\ queue' = Tail(queue)
        /\ queue # <<>> /\ heldWakes' = heldWakes /\ heldNotes' = heldNotes /\ Drops(Head(queue))
    BY DEF DispatchSkip, noteVars
  <1>2. /\ queue' \in Seq(Requests) /\ Head(queue) \in Requests
        /\ \A q : Count(queue, q) = Count(queue', q) + IF Head(queue) = q THEN 1 ELSE 0
    BY <1>1, PlacesNat, CountTail
  <1>3. ASSUME Now' \in States, NEW q \in Requests
        PROVE  UnderWay(Now', spawned', line', q) = UnderWay(Now, spawned, line, q) - IF q = Head(queue) THEN 1 ELSE 0
    <2>0. Count(queue', q) \in Nat
      BY <1>2, CountIs
    <2> DEFINE n == IF q = Head(queue) THEN 0 - 1 ELSE 0
    <2>1. /\ Count(queue, q) = Count(queue', q) + (IF Head(queue) = q THEN 1 ELSE 0) /\ Count(queue, q) \in Nat
          /\ Count(Asked(spawned'), q) = Count(Asked(spawned), q) /\ Count(Asked(spawned), q) \in Nat
          /\ Count(Asked(line'), q) = Count(Asked(line), q) /\ Count(Asked(line), q) \in Nat
          /\ UnderWay(Now, spawned, line, q) \in Nat
      BY <1>1, <1>2, PlacesNat
    <2>2. (Count(queue', q) - Count(queue, q)) + (Count(Asked(spawned'), q) - Count(Asked(spawned), q))
            + (Count(Asked(line'), q) - Count(Asked(line), q)) = n /\ n \in Int
      BY <2>0, <2>1
    <2>3. spawned' \in Seq(Tasks) /\ line' \in Seq(Tasks)
      BY <1>1, PlacesNat
    <2> HIDE DEF n
    <2>4. UnderWay(Now', spawned', line', q) = UnderWay(Now, spawned, line, q) + n
      BY <1>1, <1>3, <2>2, <2>3, PlacesChange
    <2> QED
      BY <2>1, <2>4 DEF n
  <1>4. /\ Known' /\ HeldKnown' /\ WakesEnd /\ Len(log') <= MaxRegs
        /\ told' \in [Jobs -> {"open", "stopped", "dropped", "heard"}]
    <2>1. Now' \in States => Less(Now, spawned, line, Now', spawned', line', Head(queue))
      BY <1>3 DEF Less
    <2>2. line # <<>> => line' # <<>>
      BY <1>1
    <2> QED
      BY <1>1, <1>2, <2>1, <2>2, PlacesNat, Dropping
  <1>5. OtherTypes' /\ StartedKnown'
    BY <1>4 DEF NoticesInv, OtherTypes, StartedKnown, DispatchSkip, MarkLeft, jobVars
  <1> QED
    BY <1>4, <1>5 DEF NoticesInv

LEMMA StartTaskStep ==
  ASSUME NoticesInv, StartTask PROVE NoticesInv' /\ WakesEnd
  <1> DEFINE t == Head(spawned)
  <1>1. /\ UNCHANGED <<wakes, heldWakes, jobVars, noteVars, watcher, found>>
        /\ spawned' = Tail(spawned) /\ queue' = queue
        /\ spawned # <<>> /\ heldWakes' = heldWakes /\ heldNotes' = heldNotes
    BY DEF StartTask, noteVars
  <1>2. /\ spawned' \in Seq(Tasks) /\ t \in Tasks /\ t.req \in Requests
        /\ \A q : Count(Asked(spawned), q) = Count(Asked(spawned'), q) + IF t.req = q THEN 1 ELSE 0
    BY <1>1, PlacesNat, AskedTail
  <1> HIDE DEF t
  <1>3. \A q : Count(Asked(spawned'), q) \in Nat
    <2>1. Asked(spawned') \in Seq(Requests)
      BY <1>2, AskedIs
    <2> QED
      BY <2>1, CountIs
  <1>4. CASE t.killed
    <2>1. Drops(t.req) /\ line' = line /\ marked' = MarkLeft(line, queue)
      BY <1>4 DEF StartTask, t
    <2>2. ASSUME Now' \in States, NEW q \in Requests
          PROVE  UnderWay(Now', spawned', line', q) = UnderWay(Now, spawned, line, q) - IF q = t.req THEN 1 ELSE 0
      <3> DEFINE n == IF q = t.req THEN 0 - 1 ELSE 0
      <3>1. /\ Count(queue', q) = Count(queue, q) /\ Count(queue, q) \in Nat
            /\ Count(Asked(spawned), q) = Count(Asked(spawned'), q) + (IF t.req = q THEN 1 ELSE 0)
            /\ Count(Asked(spawned), q) \in Nat /\ Count(Asked(spawned'), q) \in Nat
            /\ Count(Asked(line'), q) = Count(Asked(line), q) /\ Count(Asked(line), q) \in Nat
            /\ UnderWay(Now, spawned, line, q) \in Nat
        BY <1>1, <1>2, <1>3, <2>1, PlacesNat
      <3>2. (Count(queue', q) - Count(queue, q)) + (Count(Asked(spawned'), q) - Count(Asked(spawned), q))
              + (Count(Asked(line'), q) - Count(Asked(line), q)) = n /\ n \in Int
        BY <3>1
      <3>3. line' \in Seq(Tasks)
        BY <2>1, PlacesNat
      <3> HIDE DEF n
      <3>4. UnderWay(Now', spawned', line', q) = UnderWay(Now, spawned, line, q) + n
        BY <1>1, <1>2, <2>2, <3>2, <3>3, PlacesChange
      <3> QED
        BY <3>1, <3>4 DEF n
    <2>3. /\ Known' /\ HeldKnown' /\ WakesEnd /\ Len(log') <= MaxRegs
          /\ told' \in [Jobs -> {"open", "stopped", "dropped", "heard"}]
      <3>1. Now' \in States => Less(Now, spawned, line, Now', spawned', line', t.req)
        BY <2>2 DEF Less
      <3>2. line # <<>> => line' # <<>>
        BY <2>1
      <3> QED
        BY <1>1, <1>2, <2>1, <3>1, <3>2, PlacesNat, Dropping
    <2>4. OtherTypes' /\ StartedKnown'
      BY <2>1, <2>3 DEF NoticesInv, OtherTypes, StartedKnown, StartTask, MarkLeft, jobVars
    <2> QED
      BY <2>3, <2>4 DEF NoticesInv
  <1>5. CASE ~t.killed
    <2>1. line' = Append(line, t) /\ UNCHANGED <<marked, log, told>>
      BY <1>5 DEF StartTask, t
    <2>2. /\ line' \in Seq(Tasks) /\ line' # <<>>
          /\ \A q : Count(Asked(line'), q) = Count(Asked(line), q) + IF t.req = q THEN 1 ELSE 0
      BY <1>2, <2>1, PlacesNat, AskedAppend
    <2>3. Now' \in States
      BY <1>1, <2>1, PlacesNat, NowIs, Fields, NowNext DEF noteVars
    <2>4. ASSUME NEW q \in Requests, q # User
          PROVE  UnderWay(Now', spawned', line', q) = UnderWay(Now, spawned, line, q)
      <3>1. /\ Count(queue', q) = Count(queue, q) /\ Count(queue, q) \in Nat
            /\ Count(Asked(spawned), q) = Count(Asked(spawned'), q) + (IF t.req = q THEN 1 ELSE 0)
            /\ Count(Asked(spawned), q) \in Nat /\ Count(Asked(spawned'), q) \in Nat
            /\ Count(Asked(line'), q) = Count(Asked(line), q) + (IF t.req = q THEN 1 ELSE 0)
            /\ Count(Asked(line), q) \in Nat /\ UnderWay(Now, spawned, line, q) \in Nat
        BY <1>1, <1>2, <1>3, <2>2, PlacesNat
      <3>2. (Count(queue', q) - Count(queue, q)) + (Count(Asked(spawned'), q) - Count(Asked(spawned), q))
              + (Count(Asked(line'), q) - Count(Asked(line), q)) = 0 /\ 0 \in Int
        BY <3>1
      <3>4. UnderWay(Now', spawned', line', q) = UnderWay(Now, spawned, line, q) + 0
        BY <1>1, <1>2, <2>2, <2>3, <3>2, PlacesChange
      <3> QED
        BY <3>1, <3>4
    <2>5. Known' /\ HeldKnown' /\ WakesEnd
      <3>1. UNCHANGED <<wakeVars, jobVars, noteVars, watcher, found, told>> /\ queue' \in Seq(Requests)
        BY <1>1, <2>1, PlacesNat DEF wakeVars
      <3> QED
        BY <1>2, <2>2, <2>4, <3>1, Moving
    <2>6. OtherTypes' /\ StartedKnown'
      BY <2>1 DEF NoticesInv, OtherTypes, StartedKnown, StartTask, jobVars
    <2> QED
      BY <2>5, <2>6 DEF NoticesInv
  <1> QED
    BY <1>4, <1>5

LEMMA UnwindStep ==
  ASSUME NoticesInv, NEW i \in 2 .. Len(line), Unwind(i) PROVE NoticesInv' /\ WakesEnd
  <1>1. /\ UNCHANGED <<wakes, heldWakes, jobVars, noteVars, watcher, found>>
        /\ line' = RemoveAt(line, i) /\ queue' = queue /\ spawned' = spawned /\ Drops(line[i].req)
        /\ heldWakes' = heldWakes /\ heldNotes' = heldNotes
    BY DEF Unwind, noteVars
  <1>0. Len(line) \in Nat /\ i \in 1 .. Len(line)
    BY PlacesNat
  <1> DEFINE request == line[i].req
  <1>2. /\ line' \in Seq(Tasks) /\ request \in Requests /\ Len(line') = Len(line) - 1
        /\ \A q : Count(Asked(line), q) = Count(Asked(line'), q) + IF request = q THEN 1 ELSE 0
    BY <1>0, <1>1, PlacesNat, AskedRemove
  <1>3. line' # <<>>
    BY <1>0, <1>2
  <1> HIDE DEF request
  <1>4. ASSUME Now' \in States, NEW q \in Requests
        PROVE  UnderWay(Now', spawned', line', q) = UnderWay(Now, spawned, line, q) - IF q = request THEN 1 ELSE 0
    <2> DEFINE n == IF q = request THEN 0 - 1 ELSE 0
    <2>0. Count(Asked(line'), q) \in Nat
      <3>1. Asked(line') \in Seq(Requests)
        BY <1>2, AskedIs
      <3> QED
        BY <3>1, CountIs
    <2>1. /\ Count(queue', q) = Count(queue, q) /\ Count(queue, q) \in Nat
          /\ Count(Asked(spawned'), q) = Count(Asked(spawned), q) /\ Count(Asked(spawned), q) \in Nat
          /\ Count(Asked(line), q) = Count(Asked(line'), q) + (IF request = q THEN 1 ELSE 0)
          /\ Count(Asked(line), q) \in Nat /\ UnderWay(Now, spawned, line, q) \in Nat
      BY <1>1, <1>2, PlacesNat
    <2>2. (Count(queue', q) - Count(queue, q)) + (Count(Asked(spawned'), q) - Count(Asked(spawned), q))
            + (Count(Asked(line'), q) - Count(Asked(line), q)) = n /\ n \in Int
      BY <2>0, <2>1
    <2>3. spawned' \in Seq(Tasks)
      BY <1>1, PlacesNat
    <2> HIDE DEF n
    <2>4. UnderWay(Now', spawned', line', q) = UnderWay(Now, spawned, line, q) + n
      BY <1>1, <1>2, <1>4, <2>2, <2>3, PlacesChange
    <2> QED
      BY <2>1, <2>4 DEF n
  <1>5. /\ Known' /\ HeldKnown' /\ WakesEnd /\ Len(log') <= MaxRegs
        /\ told' \in [Jobs -> {"open", "stopped", "dropped", "heard"}]
    <2>1. Now' \in States => Less(Now, spawned, line, Now', spawned', line', request)
      BY <1>4 DEF Less
    <2>2. Drops(request)
      BY <1>1 DEF request
    <2> QED
      BY <1>1, <1>2, <1>3, <2>1, <2>2, PlacesNat, Dropping
  <1>6. OtherTypes' /\ StartedKnown'
    BY <1>5 DEF NoticesInv, OtherTypes, StartedKnown, Unwind, jobVars
  <1> QED
    BY <1>5, <1>6 DEF NoticesInv

-----------------------------------------------------------------------------
(* The watcher *)

\* An order of a set has every member once.
LEMMA Orders ==
  ASSUME NEW E, IsFiniteSet(E), NEW S \in SUBSET E, NEW f \in SetToSeqs(S)
  PROVE  f \in Seq(E) /\ \A x : Count(f, x) <= 1 /\ (Count(f, x) # 0 => x \in S)
  <1>1. IsFiniteSet(S) /\ Cardinality(S) \in Nat
    BY FS_Subset, FS_CardinalityType
  <1>2. /\ f \in [1 .. Cardinality(S) -> S]
        /\ \A i, j \in 1 .. Cardinality(S) : i # j => f[i] # f[j]
    BY DEF SetToSeqs
  <1>3. f \in Seq(S) /\ Len(f) = Cardinality(S)
    BY <1>1, <1>2, IsASeq, LenProperties
  <1>4. f \in Seq(E)
    BY <1>1, <1>2, IsASeq
  <1>5. \A x : Count(f, x) <= 1
    <2>1. \A i, j \in 1 .. Len(f) : i # j => f[i] # f[j]
      BY <1>2, <1>3
    <2> QED
      BY <1>3, <2>1, CountDistinct
  <1>6. \A x : Count(f, x) # 0 => x \in S
    BY <1>3, CountStrange
  <1> QED
    BY <1>4, <1>5, <1>6

\* How wakes end in a delivery.
LEMMA LapsedEnds ==
  ASSUME NEW y \in States, Now' = y, Lapsed(Now, y)
  PROVE  WakesEnd
  BY NowIs DEF Lapsed, WakesEnd, Registered

\* A watcher that has nothing left to visit.
LEMMA FewerVisits ==
  ASSUME NEW x, NEW sp, NEW li, NEW stood, NEW heard, NEW visits \in Seq(Jobs), NEW notes \in Seq(Jobs),
         JobsKnown(x, sp, li, stood, heard, visits, notes)
  PROVE  JobsKnown(x, sp, li, stood, heard, <<>>, notes)
  <1> SUFFICES ASSUME NEW j \in Jobs
               PROVE  JobRight(x.rec[j], j \in x.tracked, stood[j], heard[j], Count(<<>>, j), Count(notes, j),
                               Count(x.heldNotes, JobRequest(j)), UnderWay(x, sp, li, JobRequest(j)))
    BY DEF JobsKnown
  <1> DEFINE v == Count(visits, j)
             f == Count(notes, j)
             h == Count(x.heldNotes, JobRequest(j))
             n == UnderWay(x, sp, li, JobRequest(j))
  <1>1. JobRight(x.rec[j], j \in x.tracked, stood[j], heard[j], v, f, h, n)
    BY DEF JobsKnown
  <1>2. v \in Nat /\ f \in Nat /\ Count(<<>>, j) = 0
    BY CountIs, CountNothing
  <1> HIDE DEF v, f, h, n
  <1>3. JobRight(x.rec[j], j \in x.tracked, stood[j], heard[j], 0, f, h, n)
    BY <1>1, <1>2 DEF JobRight
  <1> QED
    BY <1>2, <1>3 DEF f, h, n

\* The watcher goes on, or delivers what it collected.
LEMMA VisitStep ==
  ASSUME NoticesInv, NEW jobs \in Seq(Jobs), NEW notes \in Seq(Jobs),
         JobsKnown(Now, spawned, line, status, told, jobs, notes), Visit(jobs, notes),
         UNCHANGED <<jobVars, spawned, line, marked, goalOpen, stopping, told, users, cancels>>
  PROVE  NoticesInv' /\ WakesEnd
  <1> DEFINE locals == LocalsFirst(jobs)
             rest == SubSeq(jobs, Len(locals) + 1, Len(jobs))
             seen == notes \o Only(locals, {j \in Jobs : Ready(j)})
  <1>0. /\ Now \in States /\ WakesKnown(Now, spawned, line)
        /\ spawned \in Seq(Tasks) /\ line \in Seq(Tasks) /\ Len(log) <= MaxRegs
    BY DEF NoticesInv, Known, Kept, OtherTypes
  <1>1. /\ rest \in Seq(Jobs) /\ seen \in Seq(Jobs)
        /\ rest # <<>> => rec[Head(rest)] = "tracked"
        /\ JobsKnown(Now, spawned, line, status, told, rest, seen)
    BY <1>0, VisitKnows
  <1>2. /\ spawned' = spawned /\ line' = line /\ status' = status /\ told' = told
    BY DEF jobVars
  <1>3. IF rest = <<>>
        THEN Deliver(seen) /\ watcher' = Nothing /\ found' = <<>>
        ELSE watcher' = rest /\ found' = seen /\ UNCHANGED <<wakeVars, noteVars, queue>>
    BY DEF Visit
  <1> HIDE DEF locals, rest, seen
  <1>4. CASE rest = <<>>
    <2> DEFINE due == {w \in WakeIds : Registered(w) /\ wakes[w].due /\ ~wakes[w].staged}
    <2>1. PICK order \in SetToSeqs(due) : Becomes(DeliverWakes(Busy, DeliverNotes(Busy, Now, seen), order))
      BY <1>3, <1>4 DEF Deliver
    <2>2. /\ order \in Seq(WakeIds)
          /\ \A w : Count(order, w) <= 1 /\ (Count(order, w) # 0 => w \in due)
      BY Orders, NoticesAssumption
    <2>3. \A w \in WakeIds :
            /\ Count(order, w) <= 1
            /\ Count(order, w) # 0 => Now.wakes[w] # Nothing /\ Now.wakes[w].due /\ ~Now.wakes[w].staged
      BY <2>2, NowIs DEF Registered
    <2> DEFINE z == DeliverWakes(Busy, DeliverNotes(Busy, Now, seen), order)
    <2>4. JobsKnown(Now, spawned, line, status, told, <<>>, seen)
      BY <1>1, <1>4
    <2>5. Busy \in BOOLEAN
      BY DEF Busy
    <2>6. PolledOut(Busy, Now, spawned, line, status, told, z)
      BY <1>0, <1>1, <2>2, <2>3, <2>4, <2>5, PollKeeps, Zenon
    <2> HIDE DEF z
    <2>7. /\ z \in States /\ (~Busy => z.heldWakes = heldWakes /\ z.heldNotes = heldNotes)
          /\ WakesKnown(z, spawned, line) /\ Lapsed(Now, z)
          /\ JobsKnown(z, spawned, line, status, told, <<>>, <<>>)
      BY <2>6, NowIs DEF PolledOut
    <2>8. Now' = z
      BY <2>1, <2>7, Fields DEF z
    <2>9. watcher' = Nothing /\ found' = <<>> /\ Visits' = <<>> /\ <<>> \in Seq(Jobs)
      BY <1>3, <1>4 DEF Visits
    <2>10. Known'
      BY <1>0, <1>2, <2>7, <2>8, <2>9 DEF Known, Kept
    <2>11. HeldKnown'
      BY <1>2, <2>7, <2>8, <2>9, NowIs DEF NoticesInv, HeldKnown, Busy
    <2>12. WakesEnd
      BY <2>7, <2>8, LapsedEnds
    <2>13. Len(log') <= MaxRegs
      BY <1>0, <2>7, <2>8, NowIs DEF Lapsed
    <2>14. OtherTypes' /\ StartedKnown'
      BY <2>9, <2>13 DEF NoticesInv, OtherTypes, StartedKnown, jobVars
    <2> QED
      BY <2>10, <2>11, <2>12, <2>14 DEF NoticesInv
  <1>5. CASE rest # <<>>
    <2>1. watcher' = rest /\ found' = seen /\ UNCHANGED <<wakeVars, noteVars, queue>>
      BY <1>3, <1>5
    <2>2. Now' = Now /\ Visits' \in {rest, <<>>} /\ <<>> \in Seq(Jobs)
      BY <2>1 DEF Now, wakeVars, noteVars, Visits
    <2>3. JobsKnown(Now, spawned, line, status, told, Visits', seen)
      BY <1>1, <2>2, FewerVisits
    <2>4. Known'
      BY <1>0, <1>1, <1>2, <2>1, <2>2, <2>3 DEF Known, Kept
    <2>5. HeldKnown'
      BY <1>1, <1>2, <1>5, <2>1 DEF NoticesInv, HeldKnown, Busy, wakeVars, noteVars
    <2>6. WakesEnd
      BY <2>1 DEF WakesEnd, Registered, wakeVars
    <2>7. OtherTypes' /\ StartedKnown'
      BY <1>1, <2>1 DEF NoticesInv, OtherTypes, StartedKnown, jobVars, wakeVars
    <2> QED
      BY <2>4, <2>5, <2>6, <2>7 DEF NoticesInv
  <1> QED
    BY <1>4, <1>5

LEMMA PollStep ==
  ASSUME NoticesInv, Poll PROVE NoticesInv' /\ WakesEnd
  <1>0. /\ JobsKnown(Now, spawned, line, status, told, Visits, found) /\ tracked \in SUBSET Jobs
        /\ Visits \in Seq(Jobs) /\ found \in Seq(Jobs) /\ Now \in States
    BY NowIs, Fields DEF NoticesInv, Known, Kept
  <1>1. PICK jobs \in SetToSeqs(tracked) : Visit(jobs, <<>>)
    BY DEF Poll
  <1>2. jobs \in Seq(Jobs) /\ \A x : Count(jobs, x) <= 1 /\ (Count(jobs, x) # 0 => x \in tracked)
    BY <1>0, Orders, NoticesAssumption
  <1>3. ASSUME NEW j \in Jobs
        PROVE  JobRight(rec[j], j \in tracked, status[j], told[j], Count(jobs, j), Count(<<>>, j),
                        Count(heldNotes, JobRequest(j)), UnderWay(Now, spawned, line, JobRequest(j)))
    <2> DEFINE v == Count(Visits, j)
               f == Count(found, j)
               c == Count(jobs, j)
               h == Count(heldNotes, JobRequest(j))
               n == UnderWay(Now, spawned, line, JobRequest(j))
    <2>1. JobRight(rec[j], j \in tracked, status[j], told[j], v, f, h, n)
      BY <1>0, NowIs DEF JobsKnown
    <2>2. Count(<<>>, j) = 0 /\ c \in Nat /\ n \in Nat
      BY <1>2, CountNothing, CountIs, PlacesNat
    <2>3. c <= 1 /\ (c # 0 => j \in tracked)
      BY <1>2
    <2> HIDE DEF v, f, c, h, n
    <2>4. JobRight(rec[j], j \in tracked, status[j], told[j], c, 0, h, n)
      BY <2>1, <2>2, <2>3 DEF JobRight
    <2> QED
      BY <2>2, <2>4 DEF c, h, n
  <1>4. JobsKnown(Now, spawned, line, status, told, jobs, <<>>)
    BY <1>3, NowIs DEF JobsKnown
  <1>5. <<>> \in Seq(Jobs)
    OBVIOUS
  <1> QED
    BY <1>1, <1>2, <1>4, <1>5, VisitStep DEF Poll

LEMMA ReturnsStep ==
  ASSUME NoticesInv, NEW notes \in {found, Append(found, Head(watcher))}, Returns(notes)
  PROVE  NoticesInv' /\ WakesEnd
  <1>0. /\ JobsKnown(Now, spawned, line, status, told, watcher, found)
        /\ watcher \in Seq(Jobs) /\ found \in Seq(Jobs) /\ Now \in States
        /\ watcher # <<>> /\ rec[Head(watcher)] = "tracked"
    BY DEF Returns, NoticesInv, Known, Kept, Visits, OtherTypes, HeldKnown
  <1>1. /\ Tail(watcher) \in Seq(Jobs) /\ Head(watcher) \in Jobs
        /\ \A j : Count(watcher, j) = Count(Tail(watcher), j) + IF Head(watcher) = j THEN 1 ELSE 0
    BY <1>0, CountTail
  <1>2. notes \in Seq(Jobs) /\ \A j : \/ Count(notes, j) = Count(found, j)
                                      \/ Head(watcher) = j /\ Count(notes, j) = Count(found, j) + 1
    <2>1. CASE notes = found
      BY <1>0, <2>1
    <2>2. CASE notes = Append(found, Head(watcher))
      <3>1. \A j : Count(notes, j) = Count(found, j) + IF Head(watcher) = j THEN 1 ELSE 0
        BY <1>0, <1>1, <2>2, CountAppend
      <3>2. \A j : Count(found, j) \in Nat
        BY <1>0, CountIs
      <3> QED
        BY <1>0, <1>1, <2>2, <3>1, <3>2
    <2> QED
      BY <2>1, <2>2
  <1>3. ASSUME NEW j \in Jobs
        PROVE  JobRight(rec[j], j \in tracked, status[j], told[j], Count(Tail(watcher), j), Count(notes, j),
                        Count(heldNotes, JobRequest(j)), UnderWay(Now, spawned, line, JobRequest(j)))
    <2> DEFINE v == Count(watcher, j)
               u == Count(Tail(watcher), j)
               f == Count(found, j)
               g == Count(notes, j)
               h == Count(heldNotes, JobRequest(j))
               n == UnderWay(Now, spawned, line, JobRequest(j))
    <2>1. JobRight(rec[j], j \in tracked, status[j], told[j], v, f, h, n)
      BY <1>0, NowIs DEF JobsKnown
    <2>2. u \in Nat /\ f \in Nat /\ n \in Nat
      BY <1>0, <1>1, CountIs, PlacesNat
    <2>3. /\ v = u + IF Head(watcher) = j THEN 1 ELSE 0
          /\ g = f \/ (Head(watcher) = j /\ g = f + 1)
      BY <1>1, <1>2
    <2> HIDE DEF v, u, f, g, h, n
    <2>4. /\ u + g <= v + f /\ u + g \in Nat /\ v + f \in Nat /\ g \in Nat /\ v \in Nat
          /\ g # 0 => f # 0 \/ rec[j] = "tracked"
          /\ v = 0 => u = 0 /\ g = f
      BY <1>0, <2>2, <2>3
    <2>5. JobRight(rec[j], j \in tracked, status[j], told[j], u, g, h, n)
      <3>1. v + f <= 1 /\ (f # 0 => rec[j] = "tracked")
        BY <2>1 DEF JobRight
      <3>2. u + g <= 1 /\ (g # 0 => rec[j] = "tracked") /\ (u + g # 0 => v + f # 0)
        BY <2>2, <2>4, <3>1
      <3> QED
        BY <2>1, <2>4, <3>2 DEF JobRight
    <2> QED
      BY <2>5 DEF u, g, h, n
  <1>4. JobsKnown(Now, spawned, line, status, told, Tail(watcher), notes)
    BY <1>3, NowIs DEF JobsKnown
  <1> QED
    BY <1>1, <1>2, <1>4, VisitStep DEF Returns

LEMMA WorkerAnswersStep ==
  ASSUME NoticesInv, WorkerAnswers PROVE NoticesInv' /\ WakesEnd
  BY ReturnsStep DEF WorkerAnswers

LEMMA QueryFailsStep ==
  ASSUME NoticesInv, QueryFails PROVE NoticesInv' /\ WakesEnd
  BY ReturnsStep DEF QueryFails

-----------------------------------------------------------------------------
(* The end of a turn *)

\* A turn ends: its request is settled, and what was held back is flushed if it was the
\* last one.
LEMMA Ending ==
  ASSUME NoticesInv, NEW x \in States, line # <<>>, Ends(Tail(line), x),
         WakesKnown(x, spawned, Tail(line)),
         JobsKnown(x, spawned, Tail(line), status, told', Visits, found), x.rec = rec
  PROVE  /\ Known' /\ HeldKnown' /\ marked' \in BOOLEAN /\ Lapsed(x, Now')
  <1>0. /\ Now \in States /\ spawned \in Seq(Tasks) /\ Visits \in Seq(Jobs) /\ found \in Seq(Jobs)
        /\ Tail(line) \in Seq(Tasks)
    BY AskedTail DEF NoticesInv, Known, Kept
  <1>1. PICK y : /\ y = IF Tail(line) = <<>> THEN Flushed(x) ELSE x
                 /\ Becomes(y) /\ marked' = MarkLeft(Tail(line), y.queue)
    BY DEF Ends
  <1>2. /\ line' = Tail(line) /\ status' = status /\ spawned' = spawned /\ Visits' = Visits
        /\ found' = found /\ watcher' = watcher
    BY DEF Ends, jobVars, Visits
  <1>3. /\ y \in States /\ (Tail(line) = <<>> => y.heldWakes = <<>> /\ y.heldNotes = <<>>)
        /\ WakesKnown(y, spawned, Tail(line)) /\ Lapsed(x, y)
        /\ JobsKnown(y, spawned, Tail(line), status, told', Visits, found)
        /\ \A j \in Jobs : Count(Visits, j) # 0 /\ x.rec[j] = "tracked" => y.rec[j] = "tracked"
    <2>1. CASE Tail(line) = <<>>
      <3>1. LET z == Flushed(x) IN
            /\ z \in States /\ z.heldWakes = <<>> /\ z.heldNotes = <<>>
            /\ WakesKnown(z, spawned, Tail(line)) /\ Lapsed(x, z)
            /\ JobsKnown(z, spawned, Tail(line), status, told', Visits, found)
            /\ \A j \in Jobs : Count(Visits, j) # 0 /\ x.rec[j] = "tracked" => z.rec[j] = "tracked"
        BY <1>0, FlushKeeps
      <3> QED
        BY <1>1, <2>1, <3>1
    <2>2. CASE Tail(line) # <<>>
      <3>1. y = x
        BY <1>1, <2>2
      <3> QED
        BY <2>2, <3>1 DEF Lapsed
    <2> QED
      BY <2>1, <2>2
  <1>4. Now' = y
    BY <1>1, <1>3, Fields
  <1>5. Known'
    BY <1>0, <1>2, <1>3, <1>4 DEF Known, Kept
  <1>6. HeldKnown'
    <2>1. (heldWakes' # <<>> \/ heldNotes' # <<>>) => line' # <<>>
      BY <1>2, <1>3, <1>4, NowIs
    <2>2. ASSUME watcher # Nothing PROVE watcher # <<>> /\ rec'[Head(watcher)] = "tracked"
      <3>1. watcher # <<>> /\ rec[Head(watcher)] = "tracked" /\ Visits = watcher
        BY <2>2 DEF NoticesInv, HeldKnown, Visits
      <3>2. Head(watcher) \in Jobs /\ Count(watcher, Head(watcher)) = Count(Tail(watcher), Head(watcher)) + 1
            /\ Tail(watcher) \in Seq(Jobs)
        BY <1>0, <3>1, CountTail
      <3>3. Count(Visits, Head(watcher)) # 0
        <4>1. Count(Tail(watcher), Head(watcher)) \in Nat
          BY <3>2, CountIs
        <4> QED
          BY <3>1, <3>2, <4>1
      <3> QED
        BY <1>3, <1>4, <3>1, <3>2, <3>3, NowIs
    <2> QED
      BY <1>2, <2>1, <2>2 DEF HeldKnown, Busy
  <1>7. marked' \in BOOLEAN
    BY <1>1 DEF MarkLeft, NoticesInv, OtherTypes
  <1> QED
    BY <1>3, <1>4, <1>5, <1>6, <1>7

\* The first of the line leaves it.
LEMMA FirstLeaves ==
  ASSUME NoticesInv, line # <<>>, NEW x \in States,
         x.heldWakes = heldWakes, x.heldNotes = heldNotes, x.queue = queue
  PROVE  /\ line[1].req \in Requests /\ Tail(line) \in Seq(Tasks)
         /\ Less(Now, spawned, line, x, spawned, Tail(line), line[1].req)
  <1>0. Now \in States /\ spawned \in Seq(Tasks) /\ line \in Seq(Tasks)
    BY PlacesNat
  <1>1. line[1] = Head(line)
    BY <1>0
  <1>2. /\ Tail(line) \in Seq(Tasks) /\ Head(line).req \in Requests
        /\ \A q : Count(Asked(line), q) = Count(Asked(Tail(line)), q) + IF Head(line).req = q THEN 1 ELSE 0
    BY <1>0, AskedTail
  <1>3. ASSUME NEW q \in Requests
        PROVE  UnderWay(x, spawned, Tail(line), q) = UnderWay(Now, spawned, line, q)
                                                     - IF q = Head(line).req THEN 1 ELSE 0
    <2> DEFINE h == Count(heldWakes, q)
               k == Count(heldNotes, q)
               b == Count(queue, q)
               c == Count(Asked(spawned), q)
               d == Count(Asked(line), q)
               e == Count(Asked(Tail(line)), q)
    <2>1. h \in Nat /\ k \in Nat /\ b \in Nat /\ c \in Nat /\ d \in Nat
      BY <1>0, UnderWayNat, NowIs
    <2>2. e \in Nat
      <3>1. Asked(Tail(line)) \in Seq(Requests)
        BY <1>2, AskedIs
      <3> QED
        BY <3>1, CountIs
    <2>3. UnderWay(x, spawned, Tail(line), q) = h + k + b + c + e /\ UnderWay(Now, spawned, line, q) = h + k + b + c + d
      BY NowIs DEF UnderWay
    <2>4. d = e + IF q = Head(line).req THEN 1 ELSE 0
      BY <1>2
    <2> HIDE DEF h, k, b, c, d, e
    <2> QED
      BY <2>1, <2>2, <2>3, <2>4
  <1> QED
    BY <1>1, <1>2, <1>3 DEF Less

\* The notice of a turn that ends has been told, or never will be.
LEMMA TurnTold ==
  ASSUME NoticesInv, line # <<>>, NEW x \in States,
         x.heldWakes = heldWakes, x.heldNotes = heldNotes, x.queue = queue,
         x.rec = rec, x.tracked = tracked, NEW word \in {"heard", "dropped"},
         told' = IF line[1].req.kind = "job" THEN [told EXCEPT ![line[1].req.job] = word] ELSE told
  PROVE  /\ JobsKnown(x, spawned, Tail(line), status, told', Visits, found)
         /\ told' \in [Jobs -> {"open", "stopped", "dropped", "heard"}]
  <1>0. /\ Now \in States /\ spawned \in Seq(Tasks) /\ line \in Seq(Tasks)
        /\ JobsKnown(Now, spawned, line, status, told, Visits, found)
        /\ told \in [Jobs -> {"open", "stopped", "dropped", "heard"}]
    BY DEF NoticesInv, Known, Kept, OtherTypes
  <1> DEFINE request == line[1].req
  <1>1. /\ request \in Requests /\ Tail(line) \in Seq(Tasks)
        /\ Less(Now, spawned, line, x, spawned, Tail(line), request)
    BY FirstLeaves
  <1>3. told' = IF request.kind = "job" THEN [told EXCEPT ![request.job] = word] ELSE told
    OBVIOUS
  <1> HIDE DEF request
  <1>2. ASSUME NEW j \in Jobs
        PROVE  IF request = JobRequest(j) THEN told'[j] # "open" ELSE told'[j] = told[j]
    <2>1. CASE request = JobRequest(j)
      <3>1. request.kind = "job" /\ request.job = j
        BY <2>1, SameRequest
      <3>2. told' = [told EXCEPT ![j] = word]
        BY <1>3, <3>1
      <3> QED
        BY <1>0, <2>1, <3>2
    <2>2. CASE request # JobRequest(j)
      <3>1. request.kind = "job" => request.job # j
        BY <1>1, <2>2, Kinds
      <3> QED
        BY <1>0, <1>3, <2>2, <3>1
    <2> QED
      BY <2>1, <2>2
  <1>4. JobsKnown(x, spawned, Tail(line), status, told', Visits, found)
    <2>1. PICK t : t = told'
      OBVIOUS
    <2>2. /\ x.rec = Now.rec /\ x.tracked = Now.tracked /\ x.heldNotes = Now.heldNotes
          /\ \A j \in Jobs : IF request = JobRequest(j) THEN t[j] # "open" ELSE t[j] = told[j]
      BY <1>2, <2>1, NowIs
    <2>3. JobsKnown(x, spawned, Tail(line), status, t, Visits, found)
      BY <1>0, <1>1, <2>2, NoticeGone
    <2> QED
      BY <2>1, <2>3
  <1>5. told' \in [Jobs -> {"open", "stopped", "dropped", "heard"}]
    BY <1>0, <1>3
  <1> QED
    BY <1>4, <1>5

\* A wake's turn that ends confirms it.
LEMMA FinishTurnStep ==
  ASSUME NoticesInv, FinishTurn PROVE NoticesInv' /\ WakesEnd
  <1> DEFINE request == line[1].req
             x == Confirm(Now, request)
  <1>0. /\ Now \in States /\ spawned \in Seq(Tasks) /\ line \in Seq(Tasks) /\ line # <<>>
        /\ WakesKnown(Now, spawned, line) /\ log \in Seq(Entries) /\ Len(log) <= MaxRegs
        /\ wakes \in [WakeIds -> {Nothing} \cup [reg : Regs, due : BOOLEAN, staged : BOOLEAN]]
    BY NowIs, Fields DEF NoticesInv, Known, Kept, OtherTypes, FinishTurn, Busy
  <1>1. request \in Requests
    <2>1. line[1] = Head(line)
      BY <1>0
    <2> QED
      BY <1>0, <2>1, AskedTail
  <1>2. CASE request.kind # "wake"
    <2>1. x = Now
      BY <1>2 DEF Confirm
    <2>2. Less(Now, spawned, line, Now, spawned, Tail(line), request) /\ Tail(line) \in Seq(Tasks)
      BY <1>0, NowIs, FirstLeaves
    <2>3. WakesKnown(Now, spawned, Tail(line))
      BY <1>0, <1>1, <1>2, <2>2, OthersLess
    <2>4. /\ JobsKnown(Now, spawned, Tail(line), status, told', Visits, found)
          /\ told' \in [Jobs -> {"open", "stopped", "dropped", "heard"}]
      BY <1>0, NowIs, TurnTold DEF FinishTurn
    <2>5. Ends(Tail(line), Now) /\ stopping' = stopping
      BY <2>1 DEF FinishTurn
    <2>6. /\ Known' /\ HeldKnown' /\ marked' \in BOOLEAN /\ Lapsed(Now, Now')
      BY <1>0, <2>3, <2>4, <2>5, NowIs, Ending
    <2>7. Now' \in States /\ Len(log') <= MaxRegs
      BY <1>0, <2>6, NowIs DEF Known, Kept, Lapsed
    <2>8. WakesEnd
      BY <2>6, <2>7, LapsedEnds
    <2>9. OtherTypes' /\ StartedKnown'
      BY <2>4, <2>5, <2>6, <2>7 DEF NoticesInv, OtherTypes, StartedKnown, Ends, jobVars
    <2> QED
      BY <2>6, <2>8, <2>9 DEF NoticesInv
  <1>3. CASE request.kind = "wake"
    <2>1. PICK w \in WakeIds, r \in Regs : request = WakeRequest(w, r) /\ w = request.wake /\ r = request.reg
      BY <1>1, <1>3, Kinds
    <2>2. /\ x = [Now EXCEPT !.wakes = [Now.wakes EXCEPT ![w] = Nothing],
                             !.log = [Now.log EXCEPT ![r].fate = IF @ = "open" THEN "heard" ELSE @]]
      BY <1>3, <2>1 DEF Confirm
    <2>3. /\ x.wakes = [wakes EXCEPT ![w] = Nothing] /\ x.heldWakes = heldWakes /\ x.heldNotes = heldNotes
          /\ x.queue = queue /\ x.rec = rec /\ x.tracked = tracked
          /\ x.log = [log EXCEPT ![r].fate = IF @ = "open" THEN "heard" ELSE @]
      BY <2>2 DEF Now
    <2>4. x \in States
      <3>3. x = [wakes |-> x.wakes, heldWakes |-> heldWakes, rec |-> rec, tracked |-> tracked,
                 heldNotes |-> heldNotes, queue |-> queue, log |-> x.log]
        BY <2>2 DEF Now
      <3> HIDE DEF x
      <3>1. x.log \in Seq(Entries)
        <4>1. CASE log[r].fate = "open"
          <5>1. x.log = [log EXCEPT ![r].fate = "heard"] /\ "heard" \in Fates
            BY <2>3, <4>1 DEF Fates
          <5> QED
            BY <1>0, <5>1, Refated
        <4>2. CASE log[r].fate # "open"
          <5>1. x.log = [log EXCEPT ![r].fate = log[r].fate]
            BY <2>3, <4>2
          <5>2. CASE r \in 1 .. Len(log)
            <6>1. log[r] \in Entries
              BY <1>0, <5>2
            <6>2. PICK f \in Fates : f = log[r].fate
              BY <6>1 DEF Entries
            <6>3. x.log = [log EXCEPT ![r].fate = f]
              BY <5>1, <6>2
            <6> QED
              BY <1>0, <6>3, Refated
          <5>3. CASE r \notin 1 .. Len(log)
            <6>1. x.log = log
              BY <1>0, <5>1, <5>3
            <6> QED
              BY <1>0, <6>1
          <5> QED
            BY <5>2, <5>3
        <4> QED
          BY <4>1, <4>2
      <3>2. x.wakes \in [WakeIds -> {Nothing} \cup [reg : Regs, due : BOOLEAN, staged : BOOLEAN]]
        BY <1>0, <2>3
      <3>4. /\ heldWakes \in Seq(WakeRequests(WakeIds)) /\ heldNotes \in Seq(JobRequests(Jobs))
            /\ rec \in [Jobs -> {"tracked", "staged", "notified"}] /\ tracked \in SUBSET Jobs
            /\ queue \in Seq(Requests)
        BY <1>0, NowIs, Fields
      <3> QED
        BY <3>1, <3>2, <3>3, <3>4 DEF States
    <2> HIDE DEF x
    <2>5. Less(Now, spawned, line, x, spawned, Tail(line), WakeRequest(w, r)) /\ Tail(line) \in Seq(Tasks)
      BY <1>0, <2>1, <2>3, <2>4, FirstLeaves
    <2>6. /\ WakesKnown(x, spawned, Tail(line)) /\ Len(x.log) = Len(log)
          /\ \A v \in WakeIds : x.wakes[v] = IF v = w THEN Nothing ELSE wakes[v]
          /\ wakes[w] # Nothing /\ ~Again(log, wakes[w].reg) =>
               /\ wakes[w].reg = r /\ wakes[w].due = TRUE /\ x.log[r].fate = "heard"
               /\ r \in 1 .. Len(log)
               /\ \A v \in WakeIds : x.wakes[v] = Nothing \/ x.wakes[v].reg # r
      <3>1. Hears(Now, w, r, x)
        BY <2>3, NowIs DEF Hears
      <3>2. WakesKnown(x, spawned, Tail(line)) /\ Heard(Now, w, r, x)
        BY <1>0, <2>4, <2>5, <3>1, WakeHeard
      <3> QED
        BY <3>2, NowIs DEF Heard
    <2>7. /\ JobsKnown(x, spawned, Tail(line), status, told', Visits, found)
          /\ told' \in [Jobs -> {"open", "stopped", "dropped", "heard"}]
      BY <1>0, <2>3, <2>4, TurnTold DEF FinishTurn
    <2>8. Ends(Tail(line), x) /\ stopping' = stopping
      BY DEF FinishTurn, x
    <2>9. /\ Known' /\ HeldKnown' /\ marked' \in BOOLEAN /\ Lapsed(x, Now')
      BY <1>0, <2>3, <2>4, <2>6, <2>7, <2>8, Ending
    <2>10. Len(log') <= MaxRegs
      BY <1>0, <2>6, <2>9, NowIs DEF Lapsed
    <2>11. WakesEnd
      <3> SUFFICES ASSUME NEW v \in WakeIds, wakes[v] # Nothing, wakes'[v] = Nothing, ~Again(log, wakes[v].reg)
                   PROVE  \/ log'[wakes[v].reg].fate \in {"cancelled", "lapsed"}
                          \/ log'[wakes[v].reg].fate = "heard" /\ wakes[v].due = TRUE
        BY DEF WakesEnd, Registered, Reused, Again
      <3>1. CASE v = w
        <4>1. /\ wakes[v].reg = r /\ wakes[v].due = TRUE /\ x.log[r].fate = "heard" /\ r \in 1 .. Len(x.log)
              /\ \A u \in WakeIds : x.wakes[u] = Nothing \/ x.wakes[u].reg # r
          BY <2>6, <3>1
        <4>2. log'[r].fate = x.log[r].fate
          BY <2>9, <4>1, NowIs DEF Lapsed
        <4> QED
          BY <4>1, <4>2
      <3>2. CASE v # w
        BY <2>6, <2>9, <3>2, NowIs DEF Lapsed
      <3> QED
        BY <3>1, <3>2
    <2>12. OtherTypes' /\ StartedKnown'
      BY <2>7, <2>8, <2>9, <2>10 DEF NoticesInv, OtherTypes, StartedKnown, Ends, jobVars
    <2> QED
      BY <2>9, <2>11, <2>12 DEF NoticesInv
  <1> QED
    BY <1>2, <1>3

\* A wake whose turn is cancelled may be delivered again.
LEMMA AbortTurnStep ==
  ASSUME NoticesInv, AbortTurn PROVE NoticesInv' /\ WakesEnd
  <1> DEFINE request == line[1].req
             x == Abort(Now, request)
  <1>0. /\ Now \in States /\ spawned \in Seq(Tasks) /\ line \in Seq(Tasks) /\ line # <<>>
        /\ WakesKnown(Now, spawned, line) /\ log \in Seq(Entries) /\ Len(log) <= MaxRegs
        /\ wakes \in [WakeIds -> {Nothing} \cup [reg : Regs, due : BOOLEAN, staged : BOOLEAN]]
    BY NowIs, Fields DEF NoticesInv, Known, Kept, OtherTypes, AbortTurn, Busy
  <1>1. request \in Requests
    <2>1. line[1] = Head(line)
      BY <1>0
    <2> QED
      BY <1>0, <2>1, AskedTail
  <1>2. /\ x.heldWakes = heldWakes /\ x.heldNotes = heldNotes /\ x.queue = queue /\ x.rec = rec
        /\ x.tracked = tracked /\ x.log = log /\ x \in States
        /\ request.kind # "wake" => x.wakes = wakes
        /\ request.kind = "wake" =>
             x.wakes = IF wakes[request.wake] = Nothing THEN wakes ELSE [wakes EXCEPT ![request.wake].staged = FALSE]
    <2>1. CASE request.kind # "wake" \/ wakes[request.wake] = Nothing
      <3>1. x = Now
        BY <2>1, NowIs DEF Abort
      <3> QED
        BY <1>0, <2>1, <3>1, NowIs
    <2>2. CASE request.kind = "wake" /\ wakes[request.wake] # Nothing
      <3>1. x = [Now EXCEPT !.wakes = [Now.wakes EXCEPT ![request.wake].staged = FALSE]]
        BY <2>2, NowIs DEF Abort
      <3>2. x = [wakes |-> [wakes EXCEPT ![request.wake].staged = FALSE], heldWakes |-> heldWakes, rec |-> rec,
                 tracked |-> tracked, heldNotes |-> heldNotes, queue |-> queue, log |-> log]
        BY <3>1 DEF Now
      <3>3. PICK w \in WakeIds : w = request.wake
        BY <1>1, <2>2, Kinds
      <3>4. [wakes EXCEPT ![w].staged = FALSE]
              \in [WakeIds -> {Nothing} \cup [reg : Regs, due : BOOLEAN, staged : BOOLEAN]]
        <4>1. wakes[w] \in [reg : Regs, due : BOOLEAN, staged : BOOLEAN]
          BY <1>0, <2>2, <3>3
        <4>2. [wakes[w] EXCEPT !.staged = FALSE] \in [reg : Regs, due : BOOLEAN, staged : BOOLEAN]
          BY <4>1
        <4> QED
          BY <1>0, <4>2
      <3>5. /\ heldWakes \in Seq(WakeRequests(WakeIds)) /\ heldNotes \in Seq(JobRequests(Jobs))
            /\ rec \in [Jobs -> {"tracked", "staged", "notified"}] /\ tracked \in SUBSET Jobs
            /\ queue \in Seq(Requests)
        BY <1>0, NowIs, Fields
      <3> HIDE DEF x
      <3>6. x \in States
        BY <1>0, <3>2, <3>3, <3>4, <3>5 DEF States
      <3> QED
        BY <2>2, <3>2, <3>6
    <2> QED
      BY <2>1, <2>2
  <1>3. Ends(Tail(line), x) /\ stopping' = Nothing
    BY DEF AbortTurn
  <1> HIDE DEF x
  <1>4. Less(Now, spawned, line, x, spawned, Tail(line), request) /\ Tail(line) \in Seq(Tasks)
    BY <1>0, <1>2, FirstLeaves
  <1>5. /\ JobsKnown(x, spawned, Tail(line), status, told', Visits, found)
        /\ told' \in [Jobs -> {"open", "stopped", "dropped", "heard"}]
    BY <1>0, <1>2, TurnTold DEF AbortTurn
  <1> HIDE DEF request
  <1>6. /\ WakesKnown(x, spawned, Tail(line))
        /\ \A v \in WakeIds : x.wakes[v] = Nothing <=> wakes[v] = Nothing
    <2>1. CASE request.kind # "wake"
      <3>1. WakesKnown(x, spawned, Tail(line))
        BY <1>0, <1>1, <1>2, <1>4, <2>1, NowIs, OthersLess
      <3> QED
        BY <1>2, <2>1, <3>1
    <2>2. CASE request.kind = "wake"
      <3>1. PICK w \in WakeIds, r \in Regs : request = WakeRequest(w, r) /\ w = request.wake
        BY <1>1, <2>2, Kinds
      <3>2. Unmarks(Now, w, x)
        BY <1>2, <2>2, <3>1, NowIs DEF Unmarks
      <3>3. Less(Now, spawned, line, x, spawned, Tail(line), WakeRequest(w, r)) /\ x \in States
        BY <1>2, <1>4, <3>1
      <3>4. /\ WakesKnown(x, spawned, Tail(line))
            /\ \A v \in WakeIds : x.wakes[v] = Nothing <=> Now.wakes[v] = Nothing
        <4>1. Now \in States /\ spawned \in Seq(Tasks) /\ line \in Seq(Tasks) /\ Tail(line) \in Seq(Tasks)
              /\ WakesKnown(Now, spawned, line)
          BY <1>0, <1>4
        <4> QED
          BY <3>2, <3>3, <4>1, WakeAborted
      <3> QED
        BY <3>4, NowIs
    <2> QED
      BY <2>1, <2>2
  <1>7. /\ Known' /\ HeldKnown' /\ marked' \in BOOLEAN /\ Lapsed(x, Now')
    BY <1>0, <1>2, <1>3, <1>5, <1>6, Ending
  <1>8. Len(log') <= MaxRegs
    BY <1>0, <1>2, <1>7, NowIs DEF Lapsed
  <1>9. WakesEnd
    <2> SUFFICES ASSUME NEW v \in WakeIds, wakes[v] # Nothing, wakes'[v] = Nothing
                 PROVE  log'[wakes[v].reg].fate = "lapsed"
      BY DEF WakesEnd, Registered
    <2>1. x.wakes[v] # Nothing /\ Now'.wakes[v] = Nothing
      BY <1>6, NowIs
    <2>2. log'[x.wakes[v].reg].fate = "lapsed"
      BY <1>7, <2>1, NowIs DEF Lapsed
    <2>3. x.wakes[v].reg = wakes[v].reg
      <3>1. wakes[v] \in [reg : Regs, due : BOOLEAN, staged : BOOLEAN]
        BY <1>0
      <3>2. x.wakes = wakes \/ x.wakes = [wakes EXCEPT ![request.wake] = [wakes[request.wake] EXCEPT !.staged = FALSE]]
        BY <1>2
      <3>3. x.wakes[v] = wakes[v] \/ x.wakes[v] = [wakes[v] EXCEPT !.staged = FALSE]
        BY <1>0, <3>2
      <3>4. [wakes[v] EXCEPT !.staged = FALSE].reg = wakes[v].reg
        BY <3>1, EntryUnmarked
      <3> QED
        BY <3>3, <3>4
    <2> QED
      BY <2>2, <2>3
  <1>10. OtherTypes' /\ StartedKnown'
    BY <1>3, <1>5, <1>7, <1>8 DEF NoticesInv, OtherTypes, StartedKnown, Ends, jobVars
  <1> QED
    BY <1>7, <1>9, <1>10 DEF NoticesInv

-----------------------------------------------------------------------------
(* The theorems *)

\* The invariant holds at the start, and every step keeps it.
LEMMA NoticesInit == Init => NoticesInv
  <1> SUFFICES ASSUME Init PROVE NoticesInv
    OBVIOUS
  <1>0. <<>> \in Seq(Jobs) /\ <<>> \in Seq(Tasks) /\ <<>> \in Seq(Requests) /\ <<>> \in Seq(Entries)
        /\ <<>> \in Seq(WakeRequests(WakeIds)) /\ <<>> \in Seq(JobRequests(Jobs)) /\ Len(<<>>) = 0
    OBVIOUS
  <1>1. Now \in States
    BY <1>0 DEF Init, Now, States
  <1>2. \A q : UnderWay(Now, spawned, line, q) = 0
    <2>1. Asked(<<>>) = <<>>
      BY DEF Asked
    <2> QED
      BY <2>1, CountNothing, NowIs DEF Init, UnderWay
  <1>3. WakesKnown(Now, spawned, line)
    BY <1>2, NowIs DEF Init, WakesKnown
  <1>4. Visits = <<>> /\ found = <<>>
    BY DEF Init, Visits
  <1>5. JobsKnown(Now, spawned, line, status, told, Visits, found)
    <2>1. \A j \in Jobs : /\ Now.rec[j] = "tracked" /\ j \notin Now.tracked /\ status[j] = "none" /\ told[j] = "open"
                          /\ Count(Now.heldNotes, JobRequest(j)) = 0
      BY CountNothing, NowIs DEF Init
    <2> QED
      BY <1>2, <1>4, <2>1, CountNothing DEF JobsKnown, JobRight
  <1>6. Known
    BY <1>0, <1>1, <1>3, <1>4, <1>5 DEF Init, Known, Kept
  <1>7. OtherTypes /\ HeldKnown /\ StartedKnown
    <2>1. OtherTypes
      <3>1. /\ 0 <= MaxRegs /\ 0 \in 0 .. MaxUsers /\ 0 \in 0 .. MaxCancels
        BY NoticesAssumption
      <3> QED
        BY <1>0, <3>1 DEF Init, OtherTypes
    <2>2. HeldKnown /\ StartedKnown
      BY DEF Init, HeldKnown, StartedKnown
    <2> QED
      BY <2>1, <2>2
  <1> QED
    BY <1>6, <1>7 DEF NoticesInv

LEMMA NoticesNext == NoticesInv /\ [Next]_vars => NoticesInv' /\ (WakesEnd \/ UNCHANGED vars)
  <1> SUFFICES ASSUME NoticesInv, [Next]_vars PROVE NoticesInv' /\ (WakesEnd \/ UNCHANGED vars)
    OBVIOUS
  <1>1. ASSUME NEW w \in WakeIds, ScheduleWake(w) \/ GoalCheckWake(w) \/ CancelWake(w) \/ FallsDue(w)
        PROVE  NoticesInv' /\ WakesEnd
    BY <1>1, ScheduleWakeStep, GoalCheckWakeStep, CancelWakeStep, FallsDueStep
  <1>2. ASSUME NEW j \in Jobs, \/ StartJob(j) \/ StopEnded(j) \/ StopSignals(j) \/ StopReturns(j)
                               \/ ProcessEnds(j) \/ WatchJob(j) \/ WorkerForgets(j)
        PROVE  NoticesInv' /\ WakesEnd
    BY <1>2, StartJobStep, StopEndedStep, StopSignalsStep, StopReturnsStep, ProcessEndsStep, WatchJobStep,
       WorkerForgetsStep
  <1>3. CASE GoalFlips \/ Poll \/ WorkerAnswers \/ QueryFails \/ Submit \/ CancelSession
    BY <1>3, GoalFlipsStep, PollStep, WorkerAnswersStep, QueryFailsStep, SubmitStep, CancelSessionStep
  <1>4. CASE Kernel
    BY <1>4, DispatchSkipStep, DispatchSpawnStep, StartTaskStep, FinishTurnStep, AbortTurnStep, UnwindStep
       DEF Kernel
  <1>5. CASE UNCHANGED vars
    BY <1>5 DEF NoticesInv, Known, OtherTypes, HeldKnown, StartedKnown, Now, Visits, Busy, vars, wakeVars, jobVars,
       noteVars, kernelVars
  <1> QED
    BY <1>1, <1>2, <1>3, <1>4, <1>5 DEF Next

\* What the invariant says of the state itself.
LEMMA NoticesMeans == NoticesInv => TypeOK /\ CarriedOnce
  <1> SUFFICES ASSUME NoticesInv PROVE TypeOK /\ CarriedOnce
    OBVIOUS
  <1>0. /\ Now \in States /\ WakesKnown(Now, spawned, line)
        /\ JobsKnown(Now, spawned, line, status, told, Visits, found)
        /\ spawned \in Seq(Tasks) /\ line \in Seq(Tasks) /\ found \in Seq(Jobs)
    BY DEF NoticesInv, Known, Kept
  <1>1. TypeOK
    <2>1. WakeRequests(WakeIds) \subseteq Requests /\ JobRequests(Jobs) \subseteq Requests
      BY Kinds
    <2>2. /\ heldWakes \in Seq(WakeRequests(WakeIds)) /\ heldNotes \in Seq(JobRequests(Jobs))
          /\ queue \in Seq(Requests) /\ log \in Seq(Entries)
          /\ wakes \in [WakeIds -> {Nothing} \cup [reg : Regs, due : BOOLEAN, staged : BOOLEAN]]
          /\ rec \in [Jobs -> {"tracked", "staged", "notified"}] /\ tracked \subseteq Jobs
      BY <1>0, NowIs, Fields
    <2>3. heldWakes \in Seq(Requests) /\ heldNotes \in Seq(Requests)
      BY <2>1, <2>2
    <2>4. \A r \in 1 .. Len(log) : log[r] \in [id : WakeIds, fate : {"open", "heard", "cancelled", "lapsed", "dropped"}]
      <3>1. \A r \in 1 .. Len(log) : log[r] \in Entries
        BY <2>2
      <3> QED
        BY <3>1 DEF Entries, Fates
    <2> QED
      BY <1>0, <2>2, <2>3, <2>4 DEF TypeOK, NoticesInv, OtherTypes
  <1>2. \A q : Copies(q) = UnderWay(Now, spawned, line, q) /\ Copies(q) \in Nat
    BY <1>0, UnderWayNat, NowIs DEF Copies, UnderWay
  <1>3. ASSUME NEW w \in WakeIds, Registered(w), ~Reused(wakes[w].reg)
        PROVE  LET n == Copies(WakeRequest(w, wakes[w].reg)) IN
               IF wakes[w].staged THEN n = (IF log[wakes[w].reg].fate = "dropped" THEN 0 ELSE 1) ELSE n = 0
    <2> DEFINE n == Copies(WakeRequest(w, wakes[w].reg))
    <2>1. ~Again(Now.log, Now.wakes[w].reg) /\ Now.wakes[w] # Nothing
      BY <1>3, NowIs DEF Registered, Reused, Again
    <2>2. Right(wakes[w], log[wakes[w].reg].fate, n)
      BY <1>0, <1>2, <2>1, NowIs DEF WakesKnown
    <2> HIDE DEF n
    <2>3. IF wakes[w].staged THEN n = (IF log[wakes[w].reg].fate = "dropped" THEN 0 ELSE 1) ELSE n = 0
      BY <2>2 DEF Right
    <2> QED
      BY <2>3 DEF n
  <1>4. ASSUME NEW j \in Jobs
        PROVE  /\ Copies(JobRequest(j)) <= 1
               /\ j \in tracked => (rec[j] = "staged" <=> Copies(JobRequest(j)) = 1)
               /\ status[j] # "none" /\ j \notin tracked /\ told[j] = "open" => Copies(JobRequest(j)) = 1
    <2>1. JobRight(rec[j], j \in tracked, status[j], told[j], Count(Visits, j), Count(found, j),
                   Count(heldNotes, JobRequest(j)), Copies(JobRequest(j)))
      BY <1>0, <1>2, NowIs DEF JobsKnown
    <2> QED
      BY <2>1 DEF JobRight
  <1>5. CarriedOnce
    <2>1. (heldWakes # <<>> \/ heldNotes # <<>>) => Busy
      BY DEF NoticesInv, HeldKnown
    <2>2. \A w \in WakeIds : Registered(w) /\ ~Reused(wakes[w].reg) =>
            LET n == Copies(WakeRequest(w, wakes[w].reg)) IN
            IF wakes[w].staged THEN n = (IF log[wakes[w].reg].fate = "dropped" THEN 0 ELSE 1) ELSE n = 0
      BY <1>3
    <2>3. /\ \A j \in Jobs : Copies(JobRequest(j)) <= 1
          /\ \A j \in tracked : rec[j] = "staged" <=> Copies(JobRequest(j)) = 1
          /\ \A j \in Jobs : status[j] # "none" /\ j \notin tracked /\ told[j] = "open" => Copies(JobRequest(j)) = 1
      BY <1>1, <1>4 DEF TypeOK
    <2> QED
      BY <2>1, <2>2, <2>3, Zenon DEF CarriedOnce
  <1> QED
    BY <1>1, <1>5

\* A wake or a job's end that is marked as taken care of has its one request on its way,
\* and what is held back has a turn in progress that will flush it: whatever agent, jobs,
\* workers, users and cancellations do, no notice is lost or sent twice.
THEOREM NoticesCarried == Spec => [](TypeOK /\ CarriedOnce)
  <1>1. Spec => []NoticesInv
    <2>1. NoticesInv /\ [Next]_vars => NoticesInv'
      BY NoticesNext
    <2> QED
      BY NoticesInit, <2>1, PTL DEF Spec
  <1> QED
    BY <1>1, NoticesMeans, PTL

\* A registration ends by its turn, which is not before it is due, by the agent's word or
\* with its goal: never by a cancellation of the session or by another wake's end.
THEOREM WakesEndWell == Spec => WakesEndRightly
  <1>1. Spec => []NoticesInv
    <2>1. NoticesInv /\ [Next]_vars => NoticesInv'
      BY NoticesNext
    <2> QED
      BY NoticesInit, <2>1, PTL DEF Spec
  <1>2. NoticesInv /\ [Next]_vars => [WakesEnd]_vars
    BY NoticesNext
  <1>3. Spec => [][WakesEnd]_vars
    BY <1>1, <1>2, PTL DEF Spec
  <1>4. WakesEndRightly <=> [][WakesEnd]_vars
    BY DEF WakesEndRightly, WakesEnd
  <1> QED
    BY <1>3, <1>4
==============================================================================
