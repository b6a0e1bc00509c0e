---------------------------- MODULE QueriesProofs ----------------------------
(***************************************************************************)
(* Proofs about Queries, for any events, filters and limits: what the      *)
(* operators make of a list of events (pick, cut, sort, join), what each   *)
(* branch of HandleReq answers on either store, and from these, that every *)
(* invariant of the specification holds.                                   *)
(***************************************************************************)
EXTENDS Queries, TagCodecProofs

\* No event twice.
NoRepeat(s) == \A i, j \in DOMAIN s : s[i] = s[j] => i = j

\* What a loop that tests each entry keeps is in the order it was in, and nothing else.
LEMMA PickedKeeps ==
    ASSUME NEW S, S \subseteq Event, NEW s \in Seq(S), NEW I \in SUBSET DOMAIN s
    PROVE  /\ Picked(s, I) \in Seq(S)
           /\ Len(Picked(s, I)) <= Len(s)
           /\ ToSet(Picked(s, I)) = {s[i] : i \in I}
           /\ NewestFirst(s) => NewestFirst(Picked(s, I))
           /\ NoRepeat(s) => NoRepeat(Picked(s, I))
<1> DEFINE p == Picked(s, I)
<1>1. PICK h \in [1..Len(p) -> I] :
          /\ \A m, n \in DOMAIN h : m < n => h[m] < h[n]
          /\ \A i \in I : \E n \in DOMAIN h : h[n] = i
          /\ \A n \in DOMAIN h : p[n] = s[h[n]]
    BY PickedFacts
<1>2. p \in Seq(S) /\ Len(p) = Cardinality(I)
    BY PickedFacts
<1>3. Len(p) \in Nat /\ DOMAIN p = 1..Len(p) /\ DOMAIN h = 1..Len(p)
      /\ Len(s) \in Nat /\ DOMAIN s = 1..Len(s)
    BY <1>2, LenProperties
<1> HIDE DEF p
<1>4. Len(p) <= Len(s)
    <2>1. Len(s) \in Nat /\ I \subseteq 1..Len(s)
        BY <1>3
    <2>2. IsFiniteSet(1..Len(s)) /\ Cardinality(1..Len(s)) = Len(s)
        BY <2>1, UpTo
    <2>3. Cardinality(I) <= Len(s)
        BY <2>1, <2>2, FS_Subset
    <2> QED BY <1>2, <2>3
<1>5. ToSet(p) = {s[i] : i \in I}
    BY <1>1, <1>3 DEF ToSet
<1>6. ASSUME NewestFirst(s) PROVE NewestFirst(p)
    BY <1>1, <1>3, <1>6 DEF NewestFirst
<1>7. ASSUME NoRepeat(s) PROVE NoRepeat(p)
    <2> SUFFICES ASSUME NEW i \in DOMAIN p, NEW j \in DOMAIN p, p[i] = p[j] PROVE i = j
        BY DEF NoRepeat
    <2>1. h[i] \in I /\ h[j] \in I /\ s[h[i]] = s[h[j]]
        BY <1>1, <1>3
    <2>2. h[i] = h[j]
        BY <1>7, <2>1 DEF NoRepeat
    <2>3. ~(i < j) /\ ~(j < i)
        BY <1>1, <1>3, <2>1, <2>2
    <2> QED BY <1>3, <2>3
<1> QED BY <1>2, <1>4, <1>5, <1>6, <1>7 DEF p

\* c is a front of s.
IsFront(c, s) == \A i \in DOMAIN c : i \in DOMAIN s /\ c[i] = s[i]

\* Cutting keeps a front of the sequence, and all of it unless the limit is reached.
LEMMA CutKeeps ==
    ASSUME NEW S, NEW s \in Seq(S), NEW n \in Nat \cup {Nil}, NEW c, c = Cut(s, n)
    PROVE  /\ c \in Seq(S)
           /\ Len(c) <= Len(s)
           /\ n \in Nat => Len(c) <= n
           /\ Len(c) < Len(s) => n \in Nat /\ Len(c) = n
           /\ IsFront(c, s)
<1>1. Len(s) \in Nat /\ DOMAIN s = 1..Len(s)
    BY LenProperties
<1>2. CASE n \in Nat /\ Len(s) > n
    <2>1. c = SubSeq(s, 1, n)
        BY <1>2, QueriesAssumption DEF Cut
    <2>2. c \in Seq(S) /\ Len(c) = n
        BY <1>1, <1>2, <2>1, SubSeqProperties
    <2>3. \A i \in 1..n : c[i] = s[i]
        BY <1>1, <1>2, <2>1, SubSeqProperties
    <2>4. DOMAIN c = 1..n
        BY <2>2, LenProperties
    <2>5. DOMAIN c \subseteq DOMAIN s
        BY <1>1, <1>2, <2>4
    <2>6. IsFront(c, s)
        BY <2>3, <2>4, <2>5 DEF IsFront
    <2> QED BY <1>1, <1>2, <2>2, <2>6
<1>3. CASE ~(n \in Nat /\ Len(s) > n)
    <2>1. c = s
        BY <1>3, QueriesAssumption DEF Cut
    <2>2. IsFront(c, s)
        BY <2>1 DEF IsFront
    <2>3. ASSUME n \in Nat PROVE Len(s) <= n
        <3>1. ~(Len(s) > n)
            BY <1>3, <2>3
        <3> QED BY <1>1, <2>3, <3>1
    <2>4. c \in Seq(S) /\ Len(c) <= Len(s) /\ ~(Len(c) < Len(s))
        BY <1>1, <2>1
    <2>5. n \in Nat => Len(c) <= n
        BY <2>1, <2>3
    <2> QED BY <2>2, <2>4, <2>5
<1> QED BY <1>2, <1>3

\* A front keeps the order and adds nothing.
LEMMA FrontKeeps ==
    ASSUME NEW c, NEW s, IsFront(c, s)
    PROVE  /\ ToSet(c) \subseteq ToSet(s)
           /\ NewestFirst(s) => NewestFirst(c)
           /\ NoRepeat(s) => NoRepeat(c)
<1>1. ToSet(c) \subseteq ToSet(s)
    BY DEF ToSet, IsFront
<1>2. NewestFirst(s) => NewestFirst(c)
    BY DEF NewestFirst, IsFront
<1>3. NoRepeat(s) => NoRepeat(c)
    BY DEF NoRepeat, IsFront
<1> QED BY <1>1, <1>2, <1>3

\* What is beyond the cut is no newer than what is before it.
LEMMA CutOff ==
    ASSUME NEW S, NEW s \in Seq(S), NewestFirst(s),
           NEW n \in Nat \cup {Nil}, NEW c, c = Cut(s, n), NEW e \in ToSet(s), e \notin ToSet(c)
    PROVE  /\ n \in Nat /\ Len(c) = n
           /\ \A d \in ToSet(c) : Created[d] >= Created[e]
<1>1. c \in Seq(S) /\ Len(c) <= Len(s)
    BY CutKeeps
<1>2. IsFront(c, s)
    BY CutKeeps
<1>3. Len(c) \in Nat /\ DOMAIN c = 1..Len(c)
    BY <1>1, LenProperties
<1>4. Len(s) \in Nat /\ DOMAIN s = 1..Len(s)
    BY LenProperties
<1>5. PICK i \in DOMAIN s : s[i] = e
    BY DEF ToSet
<1>6. i \notin DOMAIN c
    BY <1>2, <1>5 DEF ToSet, IsFront
<1>7. i \in Nat /\ i <= Len(s) /\ Len(c) < i
    BY <1>3, <1>4, <1>5, <1>6
<1>8. Len(c) < Len(s)
    BY <1>3, <1>4, <1>7
<1>9. \A k \in DOMAIN c : k < i
    BY <1>3, <1>7
<1>10. \A k \in DOMAIN c : Created[c[k]] >= Created[e]
    BY <1>2, <1>5, <1>9 DEF NewestFirst, IsFront
<1>11. \A d \in ToSet(c) : Created[d] >= Created[e]
    BY <1>10 DEF ToSet
<1>12. n \in Nat /\ Len(c) = n
    BY <1>8, CutKeeps
<1> QED BY <1>11, <1>12

\* Sorting lists every event of a set once, newest first.
LEMMA SortedFacts ==
    ASSUME NEW S \in SUBSET Event, NEW s \in Sorted(S)
    PROVE  s \in Seq(S) /\ Len(s) = Cardinality(S) /\ ToSet(s) = S /\ NewestFirst(s) /\ NoRepeat(s)
<1>1. IsFiniteSet(S) /\ Cardinality(S) \in Nat
    BY QueriesAssumption, FS_Subset, FS_CardinalityType
<1>2. s \in [1..Cardinality(S) -> S] /\ ToSet(s) = S /\ NewestFirst(s)
    BY DEF Sorted
<1>3. s \in Seq(S) /\ Len(s) = Cardinality(S) /\ DOMAIN s = 1..Cardinality(S)
    BY <1>1, <1>2
<1>4. NoRepeat(s)
    <2>1. s \in Surjection(1..Cardinality(S), S)
        BY <1>2, <1>3 DEF Surjection, ToSet
    <2>2. IsFiniteSet(1..Cardinality(S)) /\ Cardinality(1..Cardinality(S)) = Cardinality(S)
        BY <1>1, FS_Interval
    <2>3. s \in Injection(1..Cardinality(S), S)
        BY <1>1, <2>1, <2>2, FS_SurjSameCardinalityImpliesInj
    <2> QED BY <1>3, <2>3 DEF NoRepeat, Injection, IsInjective
<1> QED BY <1>2, <1>3, <1>4
-----------------------------------------------------------------------------
\* A list of events of S as the relay sends them; one that ranks before the rest of S.
Ordered(s, S) == s \in Seq(S) /\ NewestFirst(s) /\ NoRepeat(s)

Leading(s, S) ==
    /\ Ordered(s, S)
    /\ \A t \in ToSet(s), d \in S \ ToSet(s) : Created[t] >= Created[d]

\* The entries of a sequence over S are in S.
LEMMA SeqToSet ==
    ASSUME NEW S, NEW s \in Seq(S)
    PROVE  ToSet(s) \subseteq S
BY ElementOfSeq, LenProperties DEF ToSet

\* A sequence over S is one over any larger set ...
LEMMA SeqWiden ==
    ASSUME NEW S, NEW T, S \subseteq T, NEW s \in Seq(S)
    PROVE  s \in Seq(T)
<1>1. Len(s) \in Nat /\ DOMAIN s = 1..Len(s) /\ s \in [1..Len(s) -> S]
    BY LenProperties
<1>2. s \in [1..Len(s) -> T]
    BY <1>1
<1> QED BY <1>1, <1>2

\* ... and its order is not lost.
LEMMA OrderedWiden ==
    ASSUME NEW S, NEW T, S \subseteq T, NEW s, Ordered(s, S)
    PROVE  Ordered(s, T)
BY SeqWiden DEF Ordered

\* Sorted, nothing is left out, so that nothing newer is.
LEMMA SortedOrdered ==
    ASSUME NEW S \in SUBSET Event, NEW s \in Sorted(S)
    PROVE  Ordered(s, S) /\ Leading(s, S)
<1>1. ToSet(s) = S /\ Ordered(s, S)
    BY SortedFacts DEF Ordered
<1> QED BY <1>1 DEF Leading

\* A limit does not disturb the order ...
LEMMA CutOrdered ==
    ASSUME NEW S, NEW s, Ordered(s, S), NEW n \in Nat \cup {Nil}, NEW c, c = Cut(s, n)
    PROVE  Ordered(c, S)
<1>1. s \in Seq(S)
    BY DEF Ordered
<1>2. c \in Seq(S) /\ IsFront(c, s)
    BY <1>1, CutKeeps
<1> QED BY <1>2, FrontKeeps DEF Ordered

\* ... and leaves out only what is no newer.
LEMMA CutLeading ==
    ASSUME NEW S \in SUBSET Event, NEW s, Leading(s, S), NEW n \in Nat \cup {Nil},
           NEW c, c = Cut(s, n)
    PROVE  Leading(c, S)
<1>1. Ordered(s, S) /\ s \in Seq(S) /\ NewestFirst(s)
    BY DEF Ordered, Leading
<1>2. Ordered(c, S)
    BY <1>1, CutOrdered
<1>3. c \in Seq(S) /\ IsFront(c, s)
    BY <1>1, CutKeeps
<1>4. ToSet(c) \subseteq ToSet(s)
    BY <1>3, FrontKeeps
<1>5. ASSUME NEW t \in ToSet(c), NEW d \in S \ ToSet(c)
      PROVE  Created[t] >= Created[d]
    <2>1. CASE d \in ToSet(s)
        BY <1>1, <1>5, <2>1, CutOff
    <2>2. CASE d \notin ToSet(s)
        BY <1>4, <1>5, <2>2 DEF Leading
    <2> QED BY <2>1, <2>2
<1> QED BY <1>2, <1>5 DEF Leading

\* Dropping entries does not disturb the order.
LEMMA PickedOrdered ==
    ASSUME NEW S \in SUBSET Event, NEW s, Ordered(s, S), NEW I \in SUBSET DOMAIN s
    PROVE  Ordered(Picked(s, I), S)
<1>1. s \in Seq(S)
    BY DEF Ordered
<1> QED BY <1>1, PickedKeeps DEF Ordered

\* Dropping no entry changes nothing that matters here.
LEMMA PickedLeading ==
    ASSUME NEW S \in SUBSET Event, NEW s, Leading(s, S), NEW p, p = Picked(s, DOMAIN s)
    PROVE  Leading(p, S) /\ Len(p) = Len(s)
<1>1. Ordered(s, S) /\ s \in Seq(S)
    BY DEF Ordered, Leading
<1>2. Ordered(p, S)
    BY <1>1, PickedOrdered
<1>3. ToSet(p) = ToSet(s)
    <2>1. DOMAIN s \in SUBSET DOMAIN s
        OBVIOUS
    <2>2. ToSet(p) = {s[i] : i \in DOMAIN s}
        BY <1>1, <2>1, PickedKeeps
    <2> QED BY <2>2 DEF ToSet
<1>4. Len(p) = Len(s)
    <2>1. Len(s) \in Nat /\ DOMAIN s = 1..Len(s)
        BY <1>1, LenProperties
    <2>2. Cardinality(DOMAIN s) = Len(s)
        BY <2>1, UpTo
    <2> QED BY <1>1, <2>2, PickedFacts
<1> QED BY <1>2, <1>3, <1>4 DEF Leading

-----------------------------------------------------------------------------
\* The lesser of two numbers, which Min picks from their set.
LEMMA MinOfTwo ==
    ASSUME NEW m \in Nat, NEW n \in Nat
    PROVE  Min({m, n}) = IF m <= n THEN m ELSE n
<1> DEFINE x == CHOOSE x \in {m, n} : \A y \in {m, n} : x <= y
<1>1. \E z \in {m, n} : \A y \in {m, n} : z <= y
    <2>1. m <= n \/ n <= m
        OBVIOUS
    <2> QED BY <2>1
<1>2. x \in {m, n} /\ \A y \in {m, n} : x <= y
    BY <1>1
<1> HIDE DEF x
<1>3. x = IF m <= n THEN m ELSE n
    BY <1>2
<1> QED BY <1>3 DEF Min, x

\* What ORDER BY created_at DESC LIMIT lets back: the newest, as many as the limit.
LEMMA NewestFacts ==
    ASSUME NEW S \in SUBSET Event, NEW n \in Nat \cup {Nil}, NEW T \in Newest(S, n)
    PROVE  /\ T \subseteq S
           /\ \A t \in T, d \in S \ T : Created[t] >= Created[d]
           /\ n = Nil => T = S
           /\ n \in Nat => Cardinality(T) = Min({n, Cardinality(S)})
<1>1. CASE n = Nil
    BY <1>1, QueriesAssumption DEF Newest
<1>2. CASE n # Nil
    <2>1. T \in {R \in SUBSET S :
                    /\ Cardinality(R) = Min({n, Cardinality(S)})
                    /\ \A t \in R, d \in S \ R : Created[t] >= Created[d]}
        BY <1>2 DEF Newest
    <2> QED BY <1>2, <2>1
<1> QED BY <1>1, <1>2

\* Sorted, these rank before all the others that were selected.
LEMMA NewestLeading ==
    ASSUME NEW S \in SUBSET Event, NEW n \in Nat \cup {Nil}, NEW T \in Newest(S, n),
           NEW s \in Sorted(T)
    PROVE  Leading(s, S)
<1>1. T \subseteq S /\ \A t \in T, d \in S \ T : Created[t] >= Created[d]
    BY NewestFacts
<1>2. T \in SUBSET Event
    BY <1>1
<1>3. Ordered(s, T) /\ ToSet(s) = T
    BY <1>2, SortedFacts, SortedOrdered
<1>4. Ordered(s, S)
    BY <1>1, <1>3, OrderedWiden
<1> QED BY <1>1, <1>3, <1>4 DEF Leading
-----------------------------------------------------------------------------
(* Sent *)

\* What HandleReq makes of the list s.
SentFrom(a, s, S, tags) ==
    /\ a \in Seq(S) /\ Len(a) <= Len(s) /\ Len(a) <= MaxPerReq
    /\ ToSet(a) \subseteq ToSet(s)
    /\ Ordered(s, S) => Ordered(a, S)
    /\ \A e \in ToSet(s) \ ToSet(a) : Expired(tags[e]) \/ Len(a) = MaxPerReq
    /\ NewestFirst(s) =>
          \A e \in ToSet(s) \ ToSet(a), d \in ToSet(a) :
              Expired(tags[e]) \/ Created[d] >= Created[e]

\* HandleReq drops what has expired and then cuts: each answer is from one stored list.
LEMMA SentFacts ==
    ASSUME NEW S \in SUBSET Event, NEW stored, \A s \in stored : s \in Seq(S),
           NEW tags, NEW a \in Sent(tags, stored)
    PROVE  \E s \in stored : SentFrom(a, s, S, tags)
<1>1. PICK s \in stored : a = Cut(Picked(s, {k \in DOMAIN s : ~Expired(tags[s[k]])}), MaxPerReq)
    BY DEF Sent
<1>2. PICK I : I = {k \in DOMAIN s : ~Expired(tags[s[k]])}
    OBVIOUS
<1>3. PICK p : p = Picked(s, I)
    OBVIOUS
<1>4. a = Cut(p, MaxPerReq)
    BY <1>1, <1>2, <1>3
<1>5. s \in Seq(S) /\ S \subseteq Event /\ I \in SUBSET DOMAIN s /\ MaxPerReq \in Nat \cup {Nil}
    BY <1>2, QueriesAssumption
<1>6. p \in Seq(S) /\ Len(p) <= Len(s) /\ ToSet(p) = {s[i] : i \in I}
    BY <1>3, <1>5, PickedKeeps
<1>7. a \in Seq(S) /\ Len(a) <= Len(p) /\ Len(a) <= MaxPerReq /\ IsFront(a, p)
    <2>1. a \in Seq(S) /\ Len(a) <= Len(p) /\ IsFront(a, p)
        BY <1>4, <1>5, <1>6, CutKeeps
    <2>2. MaxPerReq \in Nat
        BY QueriesAssumption
    <2>3. Len(a) <= MaxPerReq
        BY <1>4, <1>5, <1>6, <2>2, CutKeeps
    <2> QED BY <2>1, <2>3
<1>8. Len(a) <= Len(s)
    <2>1. Len(a) \in Nat /\ Len(p) \in Nat /\ Len(s) \in Nat
        BY <1>5, <1>6, <1>7, LenProperties
    <2> QED BY <2>1, <1>6, <1>7
<1>9. ToSet(p) \subseteq ToSet(s) /\ ToSet(a) \subseteq ToSet(p)
    <2>1. ToSet(p) \subseteq ToSet(s)
        BY <1>5, <1>6 DEF ToSet
    <2> QED BY <1>7, <2>1, FrontKeeps
<1>10. ASSUME Ordered(s, S) PROVE Ordered(a, S)
    <2>1. Ordered(p, S)
        BY <1>3, <1>5, <1>10, PickedOrdered
    <2> QED BY <1>4, <1>5, <2>1, CutOrdered
<1>11. ASSUME NEW e \in ToSet(s), ~Expired(tags[e]) PROVE e \in ToSet(p)
    BY <1>2, <1>6, <1>11 DEF ToSet
<1>12. ASSUME NEW e \in ToSet(s) \ ToSet(a), ~Expired(tags[e]) PROVE Len(a) = MaxPerReq
    <2>1. e \in ToSet(p) /\ e \notin ToSet(a)
        BY <1>11, <1>12
    <2>2. ~(Len(a) >= Len(p))
        <3> SUFFICES ASSUME Len(a) >= Len(p) PROVE FALSE
            OBVIOUS
        <3>1. Len(a) \in Nat /\ DOMAIN a = 1..Len(a) /\ Len(p) \in Nat /\ DOMAIN p = 1..Len(p)
            BY <1>6, <1>7, LenProperties
        <3>2. DOMAIN p \subseteq DOMAIN a
            BY <3>1
        <3> QED BY <1>7, <2>1, <3>2 DEF ToSet, IsFront
    <2>3. Len(a) \in Nat /\ Len(p) \in Nat
        BY <1>6, <1>7, LenProperties
    <2>4. Len(a) < Len(p)
        BY <2>2, <2>3
    <2>5. p \in Seq(S) /\ MaxPerReq \in Nat \cup {Nil}
        BY <1>5, <1>6
    <2> QED BY <1>4, <2>4, <2>5, CutKeeps
<1>13. ASSUME NewestFirst(s), NEW e \in ToSet(s) \ ToSet(a), NEW d \in ToSet(a),
              ~Expired(tags[e])
       PROVE  Created[d] >= Created[e]
    <2>1. e \in ToSet(p) /\ e \notin ToSet(a)
        BY <1>11, <1>13
    <2>2. NewestFirst(p)
        BY <1>3, <1>5, <1>13, PickedKeeps
    <2> QED BY <1>4, <1>5, <1>6, <2>1, <2>2, CutOff
<1>14. \A e \in ToSet(s) \ ToSet(a) : Expired(tags[e]) \/ Len(a) = MaxPerReq
    BY <1>12
<1>15. NewestFirst(s) =>
          \A e \in ToSet(s) \ ToSet(a), d \in ToSet(a) :
              Expired(tags[e]) \/ Created[d] >= Created[e]
    BY <1>13
<1>16. ToSet(a) \subseteq ToSet(s)
    BY <1>9
<1> QED BY <1>7, <1>8, <1>10, <1>14, <1>15, <1>16 DEF SentFrom

\* What is not sent of an ordered list has expired or is cut behind newer events.
Kept(a, s, tags) ==
    /\ ToSet(a) \subseteq ToSet(s)
    /\ \A x \in ToSet(s) \ ToSet(a) :
          \/ Expired(tags[x])
          \/ Len(a) = MaxPerReq /\ \A d \in ToSet(a) : Created[d] >= Created[x]

LEMMA SentKept ==
    ASSUME NEW S \in SUBSET Event, NEW stored, \A s \in stored : Ordered(s, S),
           NEW tags, NEW a \in Sent(tags, stored)
    PROVE  \E s \in stored : Kept(a, s, tags)
<1>1. \A s \in stored : s \in Seq(S) /\ NewestFirst(s)
    BY DEF Ordered
<1>2. PICK s \in stored : SentFrom(a, s, S, tags)
    BY <1>1, SentFacts
<1> QED BY <1>1, <1>2 DEF SentFrom, Kept

\* If nothing has expired, HandleReq only cuts.
LEMMA SentLeading ==
    ASSUME NEW S \in SUBSET Event, NEW s, Leading(s, S), NEW tags,
           \A e \in ToSet(s) : ~Expired(tags[e]),
           NEW a \in Sent(tags, {s})
    PROVE  Leading(a, S) /\ Len(a) = Min({Len(s), MaxPerReq})
<1>1. a = Cut(Picked(s, {k \in DOMAIN s : ~Expired(tags[s[k]])}), MaxPerReq)
    BY DEF Sent
<1>2. {k \in DOMAIN s : ~Expired(tags[s[k]])} = DOMAIN s
    BY DEF ToSet
<1>3. PICK p : p = Picked(s, DOMAIN s)
    OBVIOUS
<1>4. a = Cut(p, MaxPerReq)
    BY <1>1, <1>2, <1>3
<1>5. MaxPerReq \in Nat /\ MaxPerReq \in Nat \cup {Nil}
    BY QueriesAssumption
<1>6. Leading(p, S) /\ Len(p) = Len(s)
    BY <1>3, PickedLeading
<1>7. Leading(a, S)
    BY <1>4, <1>5, <1>6, CutLeading
<1>8. p \in Seq(S) /\ s \in Seq(S) /\ a \in Seq(S)
    BY <1>6, <1>7 DEF Leading, Ordered
<1>9. Len(a) <= Len(p) /\ Len(a) <= MaxPerReq /\ (Len(a) < Len(p) => Len(a) = MaxPerReq)
    BY <1>4, <1>5, <1>8, CutKeeps
<1>10. Len(a) \in Nat /\ Len(p) \in Nat
    BY <1>8, LenProperties
<1>11. Len(a) = IF Len(p) <= MaxPerReq THEN Len(p) ELSE MaxPerReq
    BY <1>5, <1>9, <1>10
<1>12. Len(a) = Min({Len(p), MaxPerReq})
    BY <1>5, <1>10, <1>11, MinOfTwo
<1> QED BY <1>6, <1>7, <1>12
-----------------------------------------------------------------------------
(* Plain queries *)

\* The WHERE clause of queryFilter, which compares for equality, selects what Matches
\* finds by prefix, if the filter is exact; it ignores the tags Matches looks at.
THEOREM SelectCovers ==
    ASSUME NEW f, Exact(f), rows \subseteq Event, NEW e \in rows, NEW tags, Matches(e, tags, f)
    PROVE  e \in Select(f)
<1>1. In(f.ids, Id[e])
    <2> SUFFICES ASSUME f.ids # Nil PROVE Id[e] \in f.ids
        BY DEF In
    <2>1. PICK w \in f.ids : matchesPrefix(Id[e], w)
        BY DEF Matches, Names, Exact
    <2> QED BY <2>1 DEF Exact
<1>2. In(f.authors, Author[e])
    <2> SUFFICES ASSUME f.authors # Nil PROVE Author[e] \in f.authors
        BY DEF In
    <2>1. PICK w \in f.authors : matchesPrefix(Author[e], w)
        BY DEF Matches, Names, Exact
    <2> QED BY <2>1 DEF Exact
<1>3. f.kinds # Nil => Kind[e] \in ToSet(f.kinds)
    BY DEF Matches, Exact
<1>4. Within(e, f.since, f.until)
    BY DEF Matches
<1> QED BY <1>1, <1>2, <1>3, <1>4 DEF Select

\* What the assumptions say of the filters of a request.
LEMMA FilterFacts ==
    ASSUME NEW fs \in FilterLists
    PROVE  /\ fs # Nil /\ Len(fs) \in Nat \ {0} /\ DOMAIN fs = 1..Len(fs)
           /\ 1 \in DOMAIN fs
           /\ \A i \in DOMAIN fs : fs[i].limit \in Nat \cup {Nil}
           /\ \A i \in DOMAIN fs : fs[i].kinds # Nil => fs[i].kinds \in Seq(ToSet(fs[i].kinds))
<1>1. fs # Nil /\ fs # << >> /\ fs \in Seq(ToSet(fs))
    BY QueriesAssumption DEF IsSequence
<1>2. Len(fs) \in Nat /\ DOMAIN fs = 1..Len(fs)
    BY <1>1, LenProperties
<1>3. Len(fs) # 0
    BY <1>1, EmptySeq
<1>4. \A i \in DOMAIN fs : fs[i].limit \in Nat \cup {Nil}
    BY QueriesAssumption
<1>5. \A i \in DOMAIN fs : fs[i].kinds # Nil => fs[i].kinds \in Seq(ToSet(fs[i].kinds))
    BY QueriesAssumption DEF IsSequence
<1>6. 1 \in DOMAIN fs
    BY <1>2, <1>3
<1> QED BY <1>1, <1>2, <1>3, <1>4, <1>5, <1>6

\* The number of events a limit leaves.
Share(n, S) == IF n = Nil THEN Cardinality(S) ELSE Min({n, Cardinality(S)})

\* What QueryEvents returns to any filters: ordered, no more than the first filter's limit,
\* and, if no filter has a limit, all they select, hence all that Matches asks for ...
THEOREM QueryEventsCorrect ==
    ASSUME rows \subseteq Event, NEW fs, 1 \in DOMAIN fs,
           \A i \in DOMAIN fs : fs[i].limit \in Nat \cup {Nil},
           NEW s \in QueryEvents(fs)
    PROVE  /\ Ordered(s, rows)
           /\ fs[1].limit \in Nat => Len(s) <= fs[1].limit
           /\ (\A i \in DOMAIN fs : fs[i].limit = Nil) =>
                 \A i \in DOMAIN fs : Select(fs[i]) \subseteq ToSet(s)
           /\ (\A i \in DOMAIN fs : Exact(fs[i]) /\ fs[i].limit = Nil) =>
                 \A e \in rows, i \in DOMAIN fs : Matches(e, Tags[e], fs[i]) => e \in ToSet(s)
<1> DEFINE Union(p) == UNION {p[i] : i \in DOMAIN fs}
<1>1. PICK p \in [DOMAIN fs -> SUBSET rows] :
          /\ \A i \in DOMAIN fs : p[i] \in Newest(Select(fs[i]), fs[i].limit)
          /\ \E r \in Sorted(Union(p)) : s = Cut(r, fs[1].limit)
    BY DEF QueryEvents
<1>2. PICK r \in Sorted(Union(p)) : s = Cut(r, fs[1].limit)
    BY <1>1
<1>3. Union(p) \subseteq rows
    OBVIOUS
<1>4. \A i \in DOMAIN fs : p[i] \subseteq Union(p)
    OBVIOUS
<1> HIDE DEF Union
<1>5. Union(p) \in SUBSET Event
    BY <1>3
<1>6. Ordered(r, Union(p)) /\ ToSet(r) = Union(p) /\ r \in Seq(Union(p))
    BY <1>2, <1>5, SortedFacts, SortedOrdered
<1>7. fs[1].limit \in Nat \cup {Nil}
    OBVIOUS
<1>8. Ordered(s, rows)
    <2>1. Ordered(s, Union(p))
        BY <1>2, <1>6, <1>7, CutOrdered
    <2> QED BY <1>3, <2>1, OrderedWiden
<1>9. fs[1].limit \in Nat => Len(s) <= fs[1].limit
    BY <1>2, <1>6, <1>7, CutKeeps
<1>10. ASSUME \A i \in DOMAIN fs : fs[i].limit = Nil, NEW i \in DOMAIN fs
       PROVE  Select(fs[i]) \subseteq ToSet(s)
    <2>1. fs[1].limit = Nil
        BY <1>10
    <2>2. s = r
        BY <1>2, <2>1 DEF Cut
    <2>3. p[i] \in Newest(Select(fs[i]), fs[i].limit) /\ fs[i].limit = Nil
        BY <1>1, <1>10
    <2>4. p[i] = Select(fs[i])
        BY <2>3 DEF Newest
    <2> QED BY <1>4, <1>6, <1>10, <2>2, <2>4
<1>11. ASSUME \A i \in DOMAIN fs : Exact(fs[i]) /\ fs[i].limit = Nil,
              NEW e \in rows, NEW i \in DOMAIN fs, Matches(e, Tags[e], fs[i])
       PROVE  e \in ToSet(s)
    <2>1. e \in Select(fs[i])
        BY <1>11, SelectCovers
    <2> QED BY <1>10, <1>11, <2>1
<1> QED BY <1>8, <1>9, <1>10, <1>11

\* ... and to one of one filter: the newest events it selects.
LEMMA QueryOne ==
    ASSUME rows \subseteq Event, NEW fs \in FilterLists, Len(fs) = 1, NEW s \in QueryEvents(fs)
    PROVE  Leading(s, Select(fs[1])) /\ Len(s) = Share(fs[1].limit, Select(fs[1]))
<1> DEFINE S == Select(fs[1])
           n == fs[1].limit
<1>0. S \in SUBSET Event
    BY DEF Select
<1>1. DOMAIN fs = {1} /\ n \in Nat \cup {Nil}
    BY FilterFacts
<1>2. PICK p \in [DOMAIN fs -> SUBSET rows] :
          /\ \A i \in DOMAIN fs : p[i] \in Newest(Select(fs[i]), fs[i].limit)
          /\ \E r \in Sorted(UNION {p[i] : i \in DOMAIN fs}) : s = Cut(r, fs[1].limit)
    BY DEF QueryEvents
<1>3. p[1] \in Newest(S, n)
    BY <1>1, <1>2
<1>4. UNION {p[i] : i \in DOMAIN fs} = p[1]
    BY <1>1
<1>5. PICK r \in Sorted(p[1]) : s = Cut(r, n)
    BY <1>2, <1>4
<1> HIDE DEF S, n
<1>6. Leading(r, S)
    BY <1>0, <1>1, <1>3, <1>5, NewestLeading
<1>7. Leading(s, S)
    BY <1>0, <1>1, <1>5, <1>6, CutLeading
<1>8. p[1] \in SUBSET Event
    BY <1>0, <1>1, <1>3, NewestFacts
<1>9. Len(r) = Cardinality(p[1]) /\ r \in Seq(p[1])
    BY <1>5, <1>8, SortedFacts
<1>10. CASE n = Nil
    <2>1. s = r
        BY <1>5, <1>10 DEF Cut
    <2>2. p[1] = S
        BY <1>0, <1>1, <1>3, <1>10, NewestFacts
    <2> QED BY <1>7, <1>9, <1>10, <2>1, <2>2 DEF Share, S, n
<1>11. CASE n \in Nat
    <2>1. Cardinality(S) \in Nat
        BY <1>0, QueriesAssumption, FS_Subset, FS_CardinalityType
    <2>2. Len(r) = Min({n, Cardinality(S)})
        BY <1>0, <1>3, <1>9, <1>11, NewestFacts
    <2>3. Len(r) <= n /\ Len(r) \in Nat
        BY <1>11, <2>1, <2>2, MinOfTwo
    <2>4. ~(Len(r) > n)
        BY <1>11, <2>3
    <2>5. s = r
        BY <1>5, <2>4 DEF Cut
    <2>6. n # Nil
        BY <1>11, QueriesAssumption
    <2> QED BY <1>7, <2>2, <2>5, <2>6 DEF Share, S, n
<1> QED BY <1>1, <1>10, <1>11

\* The store in memory matches against all filters and has one limit.
LEMMA MemoryFacts ==
    ASSUME rows \subseteq Event, NEW fs \in FilterLists, NEW s \in MemoryQuery(fs)
    PROVE  /\ Ordered(s, Live)
           /\ fs[1].limit \in Nat => Len(s) <= fs[1].limit
           /\ Leading(s, Asked(fs)) /\ Len(s) = Share(fs[1].limit, Asked(fs))
<1> DEFINE S == Asked(fs)
           n == fs[1].limit
<1>0. S \in SUBSET Event /\ S \subseteq Live
    BY DEF Asked, Live
<1>1. PICK r \in Sorted(S) : s = Cut(r, n)
    BY DEF MemoryQuery
<1>2. n \in Nat \cup {Nil}
    BY FilterFacts
<1> HIDE DEF S, n
<1>3. Leading(r, S) /\ Len(r) = Cardinality(S) /\ r \in Seq(S)
    BY <1>0, <1>1, SortedFacts, SortedOrdered
<1>4. Leading(s, S)
    BY <1>0, <1>1, <1>2, <1>3, CutLeading
<1>5. Ordered(s, Live)
    BY <1>0, <1>4, OrderedWiden DEF Leading
<1>6. /\ s \in Seq(S)
      /\ Len(s) <= Len(r)
    BY <1>1, <1>2, <1>3, CutKeeps
<1>7. /\ n \in Nat => Len(s) <= n
      /\ Len(s) < Len(r) => n \in Nat /\ Len(s) = n
    <2>1. r \in Seq(S) /\ n \in Nat \cup {Nil} /\ s = Cut(r, n)
        BY <1>1, <1>2, <1>3
    <2>2. n \in Nat => Len(s) <= n
        BY <2>1, CutKeeps
    <2>3. Len(s) < Len(r) => n \in Nat /\ Len(s) = n
        BY <2>1, CutKeeps
    <2> QED BY <2>2, <2>3
<1>8. CASE n = Nil
    <2>1. s = r
        BY <1>1, <1>8 DEF Cut
    <2> QED BY <1>3, <1>4, <1>5, <1>7, <1>8, <2>1 DEF Share, S, n
<1>9. CASE n \in Nat
    <2>1. Len(s) \in Nat /\ Cardinality(S) \in Nat
        BY <1>0, <1>6, LenProperties, QueriesAssumption, FS_Subset, FS_CardinalityType
    <2>2. Len(s) = IF n <= Cardinality(S) THEN n ELSE Cardinality(S)
        BY <1>3, <1>6, <1>7, <1>9, <2>1
    <2>3. Len(s) = Min({n, Cardinality(S)}) /\ n # Nil
        BY <1>9, <2>1, <2>2, MinOfTwo, QueriesAssumption
    <2> QED BY <1>4, <1>5, <1>7, <2>3 DEF Share, S, n
<1> QED BY <1>2, <1>8, <1>9

\* What SearchEvents makes of the list s: all of it that fits.
FoundFrom(q, s, fs, tags) ==
    /\ Len(q) <= Len(s) /\ ToSet(q) \subseteq ToSet(s)
    /\ \A e \in ToSet(s) :
          (\E i \in DOMAIN fs : SearchMatches(e, tags[e], fs[i])) => e \in ToSet(q)

\* Searching keeps the order, and drops nothing that fits.
LEMMA FoundFacts ==
    ASSUME NEW S \in SUBSET Event, NEW stored, \A s \in stored : Ordered(s, S),
           NEW fs, NEW tags, NEW q \in Found(fs, tags, stored)
    PROVE  /\ Ordered(q, S)
           /\ \E s \in stored : FoundFrom(q, s, fs, tags)
<1>1. PICK s \in stored :
          q = Picked(s, {k \in DOMAIN s :
                            \E i \in DOMAIN fs : SearchMatches(s[k], tags[s[k]], fs[i])})
    BY DEF Found
<1>2. PICK I : I = {k \in DOMAIN s : \E i \in DOMAIN fs : SearchMatches(s[k], tags[s[k]], fs[i])}
    OBVIOUS
<1>3. q = Picked(s, I) /\ I \in SUBSET DOMAIN s
    BY <1>1, <1>2
<1>4. Ordered(s, S) /\ s \in Seq(S) /\ S \subseteq Event
    BY DEF Ordered
<1>5. Ordered(q, S) /\ Len(q) <= Len(s) /\ ToSet(q) = {s[i] : i \in I}
    BY <1>3, <1>4, PickedOrdered, PickedKeeps
<1>6. ToSet(q) \subseteq ToSet(s)
    BY <1>3, <1>5 DEF ToSet
<1>7. ASSUME NEW e \in ToSet(s), \E i \in DOMAIN fs : SearchMatches(e, tags[e], fs[i])
      PROVE  e \in ToSet(q)
    <2>1. PICK k \in DOMAIN s : e = s[k]
        BY DEF ToSet
    <2>2. k \in I
        BY <1>2, <1>7, <2>1
    <2> QED BY <1>5, <2>1, <2>2
<1> QED BY <1>5, <1>6, <1>7 DEF FoundFrom
-----------------------------------------------------------------------------
(* COUNT *)

\* CountEvents adds up what the filters select.
LEMMA CountFacts ==
    ASSUME rows \subseteq Event, NEW fs \in FilterLists
    PROVE  /\ CountEvents(fs) \in Nat
           /\ Len(fs) = 1 => CountEvents(fs) = Cardinality(Select(fs[1]))
           /\ Cardinality(UNION {Select(fs[i]) : i \in DOMAIN fs}) <= CountEvents(fs)
<1> DEFINE n == Len(fs)
           size == [i \in 1..n |-> Cardinality(Select(fs[i]))]
           Step(f) == [i \in 0..n |-> IF i = 0 THEN 0 ELSE f[i - 1] + Cardinality(Select(fs[i]))]
           total == CHOOSE f : f = Step(f)
<1>1. CountEvents(fs) = total[n]
    BY DEF CountEvents
<1>2. n \in Nat \ {0} /\ DOMAIN fs = 1..n
    BY FilterFacts
<1>3. \A i \in 1..n : Select(fs[i]) \subseteq rows /\ IsFiniteSet(Select(fs[i])) /\ size[i] \in Nat
    BY QueriesAssumption, FS_Subset, FS_CardinalityType DEF Select
<1> HIDE DEF n
<1>4. \E f : f = Step(f)
    <2> HIDE DEF size
    <2>1. PICK step : step = [i \in 1..n |-> [x \in Nat |-> x + size[i]]]
        OBVIOUS
    <2>2. step \in [1..n -> [Nat -> Nat]]
        BY <1>3, <2>1
    <2>3. PICK f \in [0..n -> Nat] : f[0] = 0 /\ \A i \in 1..n : f[i] = step[i][f[i - 1]]
        <3>1. PICK N : N = Nat
            OBVIOUS
        <3>2. n \in Nat /\ 0 \in N /\ \A i \in 1..n : step[i] \in [N -> N]
            BY <1>2, <2>2, <3>1
        <3>3. \E f \in [0..n -> N] : Steps(f, n, 0, step)
            BY <3>2, PrimitiveRecursion
        <3> QED BY <3>1, <3>3 DEF Steps
    <2>4. ASSUME NEW i \in 1..n PROVE f[i] = f[i - 1] + size[i]
        <3>1. f[i - 1] \in Nat
            BY <1>2, <2>3
        <3>2. step[i] = [x \in Nat |-> x + size[i]]
            BY <2>1
        <3>3. f[i] = step[i][f[i - 1]]
            BY <2>3
        <3> QED BY <3>1, <3>2, <3>3
    <2>5. f = [i \in 0..n |-> IF i = 0 THEN 0 ELSE f[i - 1] + size[i]]
        <3>1. ASSUME NEW i \in 0..n PROVE f[i] = IF i = 0 THEN 0 ELSE f[i - 1] + size[i]
            <4>1. i = 0 \/ i \in 1..n
                BY <1>2
            <4> QED BY <2>3, <2>4, <4>1
        <3> QED BY <2>3, <3>1
    <2>6. \A i \in 1..n : size[i] = Cardinality(Select(fs[i]))
        BY DEF size
    <2>7. [i \in 0..n |-> IF i = 0 THEN 0 ELSE f[i - 1] + size[i]] = Step(f)
        BY <1>2, <2>6
    <2> QED BY <2>5, <2>7
<1>5. total = Step(total)
    BY <1>4
<1> HIDE DEF total
<1>6. total[0] = 0 /\ \A i \in 1..n : total[i] = total[i - 1] + size[i]
    BY <1>2, <1>5
<1> DEFINE U == [m \in 0..n |-> UNION {Select(fs[i]) : i \in 1..m}]
           Good == {m \in Nat : m <= n =>
                       /\ total[m] \in Nat
                       /\ IsFiniteSet(U[m]) /\ Cardinality(U[m]) <= total[m]}
<1>7. 0 \in Good
    <2>1. U[0] = {}
        BY <1>2
    <2>2. IsFiniteSet({}) /\ Cardinality({}) = 0
        BY FS_EmptySet
    <2> HIDE DEF U
    <2>3. total[0] = 0 /\ IsFiniteSet(U[0]) /\ Cardinality(U[0]) = 0
        BY <1>6, <2>1, <2>2
    <2> QED BY <2>3
<1>8. ASSUME NEW m \in Nat, m \in Good PROVE m + 1 \in Good
    <2> SUFFICES ASSUME m + 1 <= n
                 PROVE  /\ total[m + 1] \in Nat
                        /\ IsFiniteSet(U[m + 1]) /\ Cardinality(U[m + 1]) <= total[m + 1]
        OBVIOUS
    <2>1. m \in 0..n /\ m + 1 \in 0..n /\ m + 1 \in 1..n
        BY <1>2
    <2>2. U[m + 1] = U[m] \cup Select(fs[m + 1])
        BY <2>1
    <2>3. total[m] \in Nat /\ IsFiniteSet(U[m]) /\ Cardinality(U[m]) <= total[m]
        BY <1>8, <2>1
    <2>4. total[m + 1] = total[m] + size[m + 1]
        BY <1>6, <2>1
    <2>5. size[m + 1] \in Nat /\ size[m + 1] = Cardinality(Select(fs[m + 1]))
          /\ IsFiniteSet(Select(fs[m + 1]))
        BY <1>3, <2>1
    <2> HIDE DEF U, size
    <2>6. PICK A : A = U[m]
        OBVIOUS
    <2>7. PICK B : B = Select(fs[m + 1])
        OBVIOUS
    <2>8. IsFiniteSet(A \cup B) /\ Cardinality(A \cup B) <= Cardinality(A) + Cardinality(B)
        <3>1. /\ IsFiniteSet(A \cup B) /\ IsFiniteSet(A \cap B)
              /\ Cardinality(A \cup B) = Cardinality(A) + Cardinality(B) - Cardinality(A \cap B)
            BY <2>3, <2>5, <2>6, <2>7, FS_Union, FS_Intersection
        <3>2. Cardinality(A) \in Nat /\ Cardinality(B) \in Nat /\ Cardinality(A \cap B) \in Nat
            BY <2>3, <2>5, <2>6, <2>7, <3>1, FS_CardinalityType
        <3> QED BY <3>1, <3>2
    <2>9. Cardinality(U[m + 1]) \in Nat /\ Cardinality(A) \in Nat
        BY <2>2, <2>3, <2>6, <2>7, <2>8, FS_CardinalityType
    <2>10. IsFiniteSet(U[m + 1]) /\ Cardinality(U[m + 1]) <= Cardinality(A) + size[m + 1]
        BY <2>2, <2>5, <2>6, <2>7, <2>8
    <2> QED BY <2>3, <2>4, <2>5, <2>6, <2>9, <2>10
<1>9. n \in Good
    <2> HIDE DEF Good
    <2> QED BY <1>2, <1>7, <1>8, SetInduction
<1>10. total[n] \in Nat /\ Cardinality(U[n]) <= total[n]
    BY <1>2, <1>9
<1>11. U[n] = UNION {Select(fs[i]) : i \in DOMAIN fs}
    BY <1>2
<1>12. ASSUME n = 1 PROVE total[n] = Cardinality(Select(fs[1]))
    <2>1. total[1] = 0 + size[1] /\ size[1] = Cardinality(Select(fs[1])) /\ size[1] \in Nat
        BY <1>3, <1>6, <1>12
    <2> QED BY <1>12, <2>1
<1> HIDE DEF U, size
<1> QED BY <1>1, <1>10, <1>11, <1>12 DEF n
-----------------------------------------------------------------------------
(* Channels *)

\* A set of numbers up to n has a greatest, which Max picks.
LEMMA MaxOfSome ==
    ASSUME NEW n \in Nat, NEW I \in SUBSET (1..n), I # {}
    PROVE  Max(I) \in I
<1> DEFINE Good == {m \in Nat : \A J \in SUBSET (1..m) :
                        J # {} => \E x \in J : \A y \in J : x >= y}
<1>1. 0 \in Good
    <2>1. 1..0 = {}
        OBVIOUS
    <2> QED BY <2>1
<1>2. ASSUME NEW m \in Nat, m \in Good PROVE m + 1 \in Good
    <2> SUFFICES ASSUME NEW J \in SUBSET (1..m + 1), J # {}
                 PROVE  \E x \in J : \A y \in J : x >= y
        OBVIOUS
    <2>1. CASE m + 1 \in J
        BY <2>1
    <2>2. CASE m + 1 \notin J
        <3>1. J \in SUBSET (1..m)
            BY <2>2
        <3> QED BY <1>2, <3>1
    <2> QED BY <2>1, <2>2
<1> HIDE DEF Good
<1>3. n \in Good
    BY <1>1, <1>2, SetInduction
<1>4. \E x \in I : \A y \in I : x >= y
    BY <1>3 DEF Good
<1> QED BY <1>4 DEF Max

\* The limit of a channel query is that of one of the filters, or none.
LEMMA LastLimit ==
    ASSUME NEW fs \in FilterLists
    PROVE  LastOf(fs, "limit") \in Nat \cup {Nil}
<1> DEFINE given == {i \in DOMAIN fs : fs[i].limit # Nil}
<1>1. CASE given = {}
    BY <1>1 DEF LastOf
<1>2. CASE given # {}
    <2>1. Max(given) \in given
        BY <1>2, FilterFacts, MaxOfSome
    <2>2. LastOf(fs, "limit") = fs[Max(given)].limit
        BY <1>2 DEF LastOf
    <2>3. fs[Max(given)].limit \in Nat \cup {Nil}
        BY <2>1, FilterFacts
    <2> QED BY <2>2, <2>3
<1> QED BY <1>1, <1>2

\* With one filter it is that filter's, as are since and until.
LEMMA LastOfOne ==
    ASSUME NEW fs \in FilterLists, Len(fs) = 1, NEW field
    PROVE  LastOf(fs, field) = fs[1][field]
<1> DEFINE given == {i \in DOMAIN fs : fs[i][field] # Nil}
<1>1. DOMAIN fs = {1} /\ given \in SUBSET (1..1)
    BY FilterFacts
<1>2. CASE fs[1][field] = Nil
    <2>1. given = {}
        BY <1>1, <1>2
    <2> QED BY <1>2, <2>1 DEF LastOf
<1>3. CASE fs[1][field] # Nil
    <2>1. given = {1}
        BY <1>1, <1>3
    <2>2. Max(given) = 1
        BY <1>1, <2>1, MaxOfSome
    <2> QED BY <2>1, <2>2 DEF LastOf
<1> QED BY <1>2, <1>3

\* What one channel query returns; without a limit it is everything of the channel.
LEMMA RoomFacts ==
    ASSUME room \subseteq Event, NEW channel, NEW since, NEW until, NEW n \in Nat \cup {Nil},
           NEW s \in QueryChannelEvents(channel, since, until, n)
    PROVE  /\ Ordered(s, room)
           /\ n \in {Nil, 0} =>
                 \A e \in room : Channel[e] = channel /\ Within(e, since, until) => e \in ToSet(s)
<1> DEFINE S == {e \in room : Channel[e] = channel /\ Within(e, since, until)}
           l == IF n = 0 THEN Nil ELSE n
<1>1. PICK r \in Sorted(S) : s = Cut(r, l)
    BY DEF QueryChannelEvents
<1>2. l \in Nat \cup {Nil}
    OBVIOUS
<1>3. S \in SUBSET Event /\ S \subseteq room
    OBVIOUS
<1>4. \A e \in room : Channel[e] = channel /\ Within(e, since, until) => e \in S
    OBVIOUS
<1>5. n \in {Nil, 0} => l = Nil
    OBVIOUS
<1> HIDE DEF S, l
<1>6. Ordered(r, S) /\ ToSet(r) = S
    BY <1>1, <1>3, SortedFacts, SortedOrdered
<1>7. Ordered(s, S)
    BY <1>1, <1>2, <1>6, CutOrdered
<1>8. Ordered(s, room)
    BY <1>3, <1>7, OrderedWiden
<1>9. ASSUME n \in {Nil, 0} PROVE ToSet(s) = S
    <2>1. s = r
        BY <1>1, <1>5, <1>9 DEF Cut
    <2> QED BY <1>6, <2>1
<1> QED BY <1>4, <1>8, <1>9

\* What a channel request is answered from.
LEMMA ChannelFacts ==
    ASSUME room \subseteq Event, NEW fs \in FilterLists, NEW s \in queryChannelEvents(fs)
    PROVE  /\ s \in Seq(room)
           /\ fs[1].kinds = Nil => Ordered(s, room)
           /\ Len(fs) = 1 /\ fs[1].limit \in {Nil, 0} =>
                 \A e \in room :
                     Channel[e] = ChannelOf(fs) /\ Matches(e, Tags[e], fs[1]) => e \in ToSet(s)
<1> DEFINE events == QueryChannelEvents(ChannelOf(fs), LastOf(fs, "since"),
                                        LastOf(fs, "until"), LastOf(fs, "limit"))
           kinds == fs[1].kinds
           Wanted == {e \in room : Channel[e] = ChannelOf(fs) /\ Matches(e, Tags[e], fs[1])}
           All == Len(fs) = 1 /\ fs[1].limit \in {Nil, 0}
<1>1. LastOf(fs, "limit") \in Nat \cup {Nil}
    BY LastLimit
<1>2. \A q \in events : Ordered(q, room)
    BY <1>1, RoomFacts
<1>3. ASSUME All, NEW q \in events PROVE Wanted \subseteq ToSet(q)
    <2>1. /\ LastOf(fs, "since") = fs[1].since /\ LastOf(fs, "until") = fs[1].until
          /\ LastOf(fs, "limit") \in {Nil, 0}
        BY <1>3, LastOfOne
    <2>2. \A e \in Wanted : Within(e, fs[1].since, fs[1].until)
        BY DEF Matches
    <2>3. \A e \in room :
              /\ Channel[e] = ChannelOf(fs)
              /\ Within(e, LastOf(fs, "since"), LastOf(fs, "until"))
              => e \in ToSet(q)
        BY <1>1, <1>3, <2>1, RoomFacts
    <2> QED BY <2>1, <2>2, <2>3
<1>4. \A e \in Wanted : kinds \notin {Nil, << >>} => Kind[e] \in ToSet(kinds)
    BY DEF Matches
<1>5. CASE kinds \in {Nil, << >>}
    <2>1. s \in events
        BY <1>5 DEF queryChannelEvents
    <2>2. Ordered(s, room)
        BY <1>2, <2>1
    <2>3. s \in Seq(room)
        BY <2>2 DEF Ordered
    <2>4. All => Wanted \subseteq ToSet(s)
        BY <1>3, <2>1
    <2> QED BY <2>2, <2>3, <2>4
<1>6. CASE kinds \notin {Nil, << >>}
    <2>1. PICK q \in [DOMAIN kinds -> events] :
              s = FlattenSeq([k \in DOMAIN kinds |->
                                 Picked(q[k], {n \in DOMAIN q[k] : Kind[q[k][n]] = kinds[k]})])
        BY <1>6 DEF queryChannelEvents
    <2> HIDE DEF events
    <2>2. Len(kinds) \in Nat /\ DOMAIN kinds = 1..Len(kinds)
        BY <1>6, FilterFacts, LenProperties
    <2>3. PICK seqs : seqs = [k \in DOMAIN kinds |->
                                 Picked(q[k], {n \in DOMAIN q[k] : Kind[q[k][n]] = kinds[k]})]
        OBVIOUS
    <2>4. ASSUME NEW k \in DOMAIN kinds
          PROVE  /\ seqs[k] \in Seq(room)
                 /\ \A e \in ToSet(q[k]) : Kind[e] = kinds[k] => e \in ToSet(seqs[k])
        <3>1. PICK I : I = {n \in DOMAIN q[k] : Kind[q[k][n]] = kinds[k]}
            OBVIOUS
        <3>2. seqs[k] = Picked(q[k], I) /\ I \in SUBSET DOMAIN q[k]
            BY <2>3, <3>1
        <3>3. q[k] \in Seq(room)
            BY <1>2, <2>1 DEF Ordered
        <3>4. seqs[k] \in Seq(room) /\ ToSet(seqs[k]) = {q[k][i] : i \in I}
            BY <3>2, <3>3, PickedKeeps
        <3>5. ASSUME NEW e \in ToSet(q[k]), Kind[e] = kinds[k] PROVE e \in ToSet(seqs[k])
            BY <3>1, <3>4, <3>5 DEF ToSet
        <3> QED BY <3>4, <3>5
    <2>5. seqs \in Seq(Seq(room)) /\ DOMAIN seqs = DOMAIN kinds
        <3>1. PICK N : N = Seq(room)
            OBVIOUS
        <3>2. seqs \in [1..Len(kinds) -> N]
            BY <2>2, <2>3, <2>4, <3>1
        <3>3. seqs \in Seq(N)
            BY <2>2, <3>2
        <3> QED BY <2>3, <3>1, <3>3
    <2>6. s \in Seq(room) /\ ToSet(s) = UNION {ToSet(seqs[i]) : i \in DOMAIN seqs}
        <3>1. s = FlattenSeq(seqs)
            BY <2>1, <2>3
        <3> QED BY <2>5, <3>1, FlattenFacts
    <2>7. ASSUME All PROVE Wanted \subseteq ToSet(s)
        <3> SUFFICES ASSUME NEW e \in Wanted PROVE e \in ToSet(s)
            OBVIOUS
        <3>1. PICK k \in DOMAIN kinds : Kind[e] = kinds[k]
            BY <1>4, <1>6 DEF ToSet
        <3>2. e \in ToSet(q[k])
            BY <1>3, <2>1, <2>7, <3>1
        <3>3. e \in ToSet(seqs[k])
            BY <2>4, <3>1, <3>2
        <3> QED BY <2>5, <2>6, <3>1, <3>3
    <2> QED BY <1>6, <2>6, <2>7
<1> QED BY <1>5, <1>6

-----------------------------------------------------------------------------
(* HandleReq *)

\* No event twice: as many events as entries.
LEMMA DistinctLength ==
    ASSUME NEW S \in SUBSET Event, NEW s, Ordered(s, S)
    PROVE  Cardinality(ToSet(s)) = Len(s)
<1>1. s \in Seq(S) /\ NoRepeat(s)
    BY DEF Ordered
<1>2. Len(s) \in Nat /\ DOMAIN s = 1..Len(s) /\ s \in [1..Len(s) -> S]
    BY <1>1, LenProperties
<1>3. s \in Bijection(1..Len(s), ToSet(s))
    <2>1. s \in [1..Len(s) -> ToSet(s)]
        BY <1>2 DEF ToSet
    <2>2. s \in Injection(1..Len(s), ToSet(s))
        BY <1>1, <1>2, <2>1 DEF Injection, IsInjective, NoRepeat
    <2>3. s \in Surjection(1..Len(s), ToSet(s))
        BY <1>2, <2>1 DEF Surjection, ToSet
    <2> QED BY <2>2, <2>3 DEF Bijection
<1>4. IsFiniteSet(1..Len(s)) /\ Cardinality(1..Len(s)) = Len(s)
    BY <1>2, UpTo
<1>5. Cardinality(1..Len(s)) = Cardinality(ToSet(s))
    BY <1>3, <1>4, FS_Bijection DEF ExistsBijection
<1> QED BY <1>4, <1>5

\* A request that names no channel.
LEMMA PlainAnswer ==
    ASSUME NEW S \in SUBSET Event, NEW fs \in FilterLists, ChannelOf(fs) = Nil, NEW stored,
           \A s \in stored : Ordered(s, S) /\ (fs[1].limit \in Nat => Len(s) <= fs[1].limit),
           NEW tags, NEW a \in HandleReq(fs, tags, stored)
    PROVE  /\ Ordered(a, S) /\ Len(a) <= MaxPerReq
           /\ fs[1].limit \in Nat => Len(a) <= fs[1].limit
<1> DEFINE Limited(s) == fs[1].limit \in Nat => Len(s) <= fs[1].limit
<1>1. PICK from : /\ a \in Sent(tags, from)
                  /\ from = IF HasSearch(fs) THEN Found(fs, tags, stored) ELSE stored
    BY DEF HandleReq
<1>2. ASSUME NEW s \in from
      PROVE  Ordered(s, S) /\ s \in Seq(S) /\ Limited(s)
    <2>1. CASE HasSearch(fs)
        <3>1. s \in Found(fs, tags, stored)
            BY <1>1, <2>1
        <3>2. Ordered(s, S)
            BY <3>1, FoundFacts
        <3>3. PICK r \in stored : Len(s) <= Len(r)
            BY <3>1, FoundFacts DEF FoundFrom
        <3>4. s \in Seq(S) /\ r \in Seq(S)
            BY <3>2 DEF Ordered
        <3>5. Len(s) \in Nat /\ Len(r) \in Nat
            BY <3>4, LenProperties
        <3>6. ASSUME fs[1].limit \in Nat PROVE Len(s) <= fs[1].limit
            BY <3>3, <3>5, <3>6
        <3> QED BY <3>2, <3>4, <3>6
    <2>2. CASE ~HasSearch(fs)
        <3>1. s \in stored
            BY <1>1, <2>2
        <3> QED BY <2>2, <3>1 DEF Ordered
    <2> QED BY <2>1, <2>2
<1>3. PICK s \in from : /\ a \in Seq(S) /\ Len(a) <= Len(s) /\ Len(a) <= MaxPerReq
                        /\ ToSet(a) \subseteq ToSet(s)
                        /\ Ordered(s, S) => Ordered(a, S)
    <2>1. \A s \in from : s \in Seq(S)
        BY <1>2
    <2> QED BY <1>1, <2>1, SentFacts DEF SentFrom
<1>4. Ordered(a, S) /\ Len(a) <= MaxPerReq
    BY <1>2, <1>3
<1>5. ASSUME fs[1].limit \in Nat PROVE Len(a) <= fs[1].limit
    <2>1. Len(a) \in Nat /\ Len(s) \in Nat
        BY <1>2, <1>3, LenProperties
    <2>2. Len(s) <= fs[1].limit
        BY <1>2, <1>5
    <2> QED BY <1>3, <1>5, <2>1, <2>2
<1> QED BY <1>4, <1>5

\* A request that names a channel.
LEMMA ChannelAnswer ==
    ASSUME room \subseteq Event, NEW fs \in FilterLists, ChannelOf(fs) # Nil, NEW stored,
           NEW tags, NEW a \in HandleReq(fs, tags, stored)
    PROVE  /\ a \in Seq(room) /\ Len(a) <= MaxPerReq
           /\ fs[1].kinds = Nil => Ordered(a, room)
           /\ Len(fs) = 1 /\ fs[1].limit \in {Nil, 0} =>
                 \A e \in room :
                     Channel[e] = ChannelOf(fs) /\ Matches(e, Tags[e], fs[1]) =>
                         \/ e \in ToSet(a) \/ Expired(tags[e]) \/ Len(a) = MaxPerReq
<1>1. PICK from : from = queryChannelEvents(fs)
    OBVIOUS
<1>2. a \in Sent(tags, from) /\ room \in SUBSET Event
    BY <1>1 DEF HandleReq
<1>3. PICK s \in from :
          /\ a \in Seq(room) /\ Len(a) <= MaxPerReq
          /\ Ordered(s, room) => Ordered(a, room)
          /\ \A e \in ToSet(s) \ ToSet(a) : Expired(tags[e]) \/ Len(a) = MaxPerReq
    <2>1. PICK S \in SUBSET Event : S = room
        BY <1>2
    <2>2. \A s \in from : s \in Seq(S)
        BY <1>1, <2>1, ChannelFacts
    <2>3. \E s \in from :
              /\ a \in Seq(S) /\ Len(a) <= MaxPerReq
              /\ Ordered(s, S) => Ordered(a, S)
              /\ \A e \in ToSet(s) \ ToSet(a) : Expired(tags[e]) \/ Len(a) = MaxPerReq
        BY <1>2, <2>2, SentFacts DEF SentFrom
    <2> QED BY <2>1, <2>3
<1>4. fs[1].kinds = Nil => Ordered(a, room)
    BY <1>1, <1>3, ChannelFacts
<1>5. ASSUME Len(fs) = 1, fs[1].limit \in {Nil, 0}, NEW e \in room,
             Channel[e] = ChannelOf(fs), Matches(e, Tags[e], fs[1])
      PROVE  e \in ToSet(a) \/ Expired(tags[e]) \/ Len(a) = MaxPerReq
    <2>1. e \in ToSet(s)
        BY <1>1, <1>3, <1>5, ChannelFacts
    <2> QED BY <1>3, <2>1
<1> QED BY <1>3, <1>4, <1>5

-----------------------------------------------------------------------------
(* The two stores *)

\* A filter that is exact asks for no more than its WHERE clause selects.
LEMMA AskedSelected ==
    ASSUME rows \subseteq Event, NEW fs, \A i \in DOMAIN fs : Exact(fs[i])
    PROVE  /\ \A e \in Asked(fs) : \E i \in DOMAIN fs : e \in Select(fs[i])
           /\ Asked(fs) \subseteq UNION {Select(fs[i]) : i \in DOMAIN fs}
<1>1. ASSUME NEW e \in Asked(fs) PROVE \E i \in DOMAIN fs : e \in Select(fs[i])
    <2>1. PICK i \in DOMAIN fs : Matches(e, Tags[e], fs[i])
        BY DEF Asked
    <2>2. e \in rows
        BY DEF Asked, Live
    <2>3. e \in Select(fs[i])
        BY <2>1, <2>2, SelectCovers
    <2> QED BY <2>3
<1> QED BY <1>1

\* A string is a prefix of itself: an IN with full ids finds no less than Matches.
LEMMA PrefixItself ==
    ASSUME NEW x, IsSequence(x)
    PROVE  matchesPrefix(x, x)
<1>1. x \in Seq(ToSet(x))
    BY DEF IsSequence
<1>2. Len(x) \in Nat /\ SubSeq(x, 1, Len(x)) = x
    BY <1>1, LenProperties, SubSeqFull
<1> QED BY <1>2 DEF matchesPrefix

\* Without tags, and nothing deleted, both select the same events.
LEMMA SelectedAsked ==
    ASSUME rows \subseteq Event, gone = {}, NEW fs, DOMAIN fs = {1}, Exact(fs[1]),
           DOMAIN fs[1].tags = {}
    PROVE  Asked(fs) = Select(fs[1])
<1> DEFINE f == fs[1]
<1>1. Asked(fs) \subseteq Select(f)
    <2>1. \A e \in Asked(fs) : \E i \in DOMAIN fs : e \in Select(fs[i])
        BY AskedSelected
    <2> QED BY <2>1
<1>2. ASSUME NEW e \in Select(f) PROVE e \in Asked(fs)
    <2>1. /\ e \in rows /\ In(f.ids, Id[e]) /\ In(f.authors, Author[e])
          /\ f.kinds # Nil => Kind[e] \in ToSet(f.kinds)
          /\ Within(e, f.since, f.until)
        BY <1>2 DEF Select
    <2>2. IsSequence(Id[e]) /\ IsSequence(Author[e])
        BY <2>1, QueriesAssumption
    <2>3. Names(f.ids, Id[e]) /\ Names(f.authors, Author[e])
        <3>1. matchesPrefix(Id[e], Id[e]) /\ matchesPrefix(Author[e], Author[e])
            BY <2>2, PrefixItself
        <3> QED BY <2>1, <3>1 DEF Names, In
    <2>4. Matches(e, Tags[e], f)
        BY <2>1, <2>3 DEF Matches
    <2> QED BY <2>1, <2>4 DEF Asked, Live
<1> QED BY <1>1, <1>2

\* Two choices of as many of the newest events agree on the ages.
LEMMA LeadingNoOlder ==
    ASSUME NEW S \in SUBSET Event, NEW a, NEW b, Leading(a, S), Leading(b, S), Len(a) = Len(b),
           NEW i \in DOMAIN a
    PROVE  Created[a[i]] >= Created[b[i]]
<1>1. a \in Seq(S) /\ b \in Seq(S) /\ NewestFirst(a) /\ NewestFirst(b) /\ NoRepeat(b)
    BY DEF Leading, Ordered
<1>2. /\ Len(a) \in Nat /\ DOMAIN a = 1..Len(a) /\ DOMAIN b = 1..Len(a)
      /\ \A k \in DOMAIN a : a[k] \in S
    BY <1>1, LenProperties, ElementOfSeq
<1>3. \A k \in DOMAIN b : b[k] \in S
    BY <1>1, LenProperties, ElementOfSeq
<1>4. \A e \in S : Created[e] \in Nat
    BY QueriesAssumption
<1> SUFFICES ASSUME ~(Created[a[i]] >= Created[b[i]]) PROVE FALSE
    OBVIOUS
<1>5. i \in Nat /\ i >= 1 /\ i \in DOMAIN b /\ a[i] \in S /\ b[i] \in S
    BY <1>2, <1>3
<1>6. Created[a[i]] < Created[b[i]]
    BY <1>4, <1>5
<1>7. ASSUME NEW k \in 1..i
      PROVE  \E j \in 1..i - 1 : b[k] = a[j]
    <2>1. k \in DOMAIN b /\ b[k] \in S /\ (k = i \/ k < i)
        BY <1>2, <1>3, <1>5
    <2>2. Created[b[k]] >= Created[b[i]]
        BY <1>1, <1>4, <1>5, <2>1 DEF NewestFirst
    <2>3. Created[a[i]] < Created[b[k]]
        BY <1>4, <1>5, <1>6, <2>1, <2>2
    <2>4. b[k] \in ToSet(a)
        <3> SUFFICES ASSUME b[k] \notin ToSet(a) PROVE FALSE
            OBVIOUS
        <3>1. a[i] \in ToSet(a)
            BY DEF ToSet
        <3>2. Created[a[i]] >= Created[b[k]]
            BY <2>1, <3>1 DEF Leading
        <3> QED BY <1>4, <1>5, <2>1, <2>3, <3>2
    <2>5. PICK j \in DOMAIN a : b[k] = a[j]
        BY <2>4 DEF ToSet
    <2>6. ~(i <= j)
        <3> SUFFICES ASSUME i <= j PROVE FALSE
            OBVIOUS
        <3>1. Created[a[i]] >= Created[a[j]]
            <4>1. i = j \/ i < j
                BY <1>2, <1>5, <2>5
            <4> QED BY <1>1, <1>4, <1>5, <2>5, <4>1 DEF NewestFirst
        <3> QED BY <1>4, <1>5, <2>1, <2>3, <2>5, <3>1
    <2>7. j \in 1..i - 1
        BY <1>2, <1>5, <2>5, <2>6
    <2> QED BY <2>5, <2>7
<1>8. PICK g : g = [k \in 1..i |-> CHOOSE j \in 1..i - 1 : b[k] = a[j]]
    OBVIOUS
<1>9. \A k \in 1..i : g[k] \in 1..i - 1 /\ b[k] = a[g[k]]
    BY <1>7, <1>8
<1>10. g \in [1..i -> 1..i - 1]
    BY <1>8, <1>9
<1>11. /\ IsFiniteSet(1..i) /\ Cardinality(1..i) = i
       /\ IsFiniteSet(1..i - 1) /\ Cardinality(1..i - 1) = i - 1
    <2>1. i - 1 \in Nat
        BY <1>5
    <2> QED BY <1>5, <2>1, UpTo
<1>12. PICK x \in 1..i, y \in 1..i : x # y /\ g[x] = g[y]
    <2>1. Cardinality(1..i - 1) < Cardinality(1..i)
        BY <1>5, <1>11
    <2> QED BY <1>10, <1>11, <2>1, FS_PigeonHole
<1>13. b[x] = b[y] /\ x \in DOMAIN b /\ y \in DOMAIN b
    BY <1>2, <1>5, <1>9, <1>12
<1> QED BY <1>1, <1>12, <1>13 DEF NoRepeat

\* Two lists with the same ages at the same places.
SameAges(a, b) == \A i \in DOMAIN a : Created[a[i]] = Created[b[i]]

\* Both ways: what the two stores cut off leaves the same ages.
LEMMA LeadingAgree ==
    ASSUME NEW S \in SUBSET Event, NEW a, NEW b, Leading(a, S), Leading(b, S), Len(a) = Len(b)
    PROVE  SameAges(a, b)
<1> SUFFICES ASSUME NEW i \in DOMAIN a PROVE Created[a[i]] = Created[b[i]]
    BY DEF SameAges
<1>1. a \in Seq(S) /\ b \in Seq(S)
    BY DEF Leading, Ordered
<1>2. DOMAIN a = 1..Len(a) /\ DOMAIN b = 1..Len(a)
    BY <1>1, LenProperties
<1>3. a[i] \in S /\ b[i] \in S /\ i \in DOMAIN b
    BY <1>1, <1>2, ElementOfSeq
<1>4. Created[a[i]] \in Nat /\ Created[b[i]] \in Nat
    BY <1>3, QueriesAssumption
<1>5. Created[a[i]] >= Created[b[i]]
    BY LeadingNoOlder
<1>6. Created[b[i]] >= Created[a[i]]
    BY <1>3, LeadingNoOlder
<1> QED BY <1>4, <1>5, <1>6

-----------------------------------------------------------------------------
(* The answers *)

\* The part of the inductive invariant that is about the tables and idle states.
Stored ==
    /\ rows \subseteq Event /\ gone \subseteq rows /\ room \subseteq rows
    /\ req \in FilterLists \cup {Nil}
    /\ req = Nil => answer = << >> /\ memory = << >> /\ count = 0 /\ distinct = 0

\* The tables hold saved events only, and between two requests there is no answer: a
\* request is answered in one step, from the tables as they are.
LEMMA StoredInductive == Spec => []Stored
<1>1. Init => Stored
    BY DEF Init, Stored
<1>2. Stored /\ [Next]_vars => Stored'
    <2> SUFFICES ASSUME Stored, [Next]_vars PROVE Stored'
        OBVIOUS
    <2>1. ASSUME NEW e \in Event, Save(e) PROVE Stored'
        BY <2>1 DEF Stored, Save
    <2>2. ASSUME NEW e \in Event, Delete(e) PROVE Stored'
        BY <2>2 DEF Stored, Delete, Live
    <2>3. ASSUME NEW fs \in FilterLists, Ask(fs) PROVE Stored'
        BY <2>3, FilterFacts DEF Stored, Ask
    <2>4. ASSUME Answered PROVE Stored'
        BY <2>4 DEF Stored, Answered
    <2>5. ASSUME UNCHANGED vars PROVE Stored'
        BY <2>5 DEF Stored, vars
    <2> QED BY <2>1, <2>2, <2>3, <2>4, <2>5 DEF Next
<1> QED BY <1>1, <1>2, PTL DEF Spec

\* What the plain queries of both stores return.
LEMMA StoredAnswers ==
    ASSUME Stored, NEW fs \in FilterLists
    PROVE  /\ rows \in SUBSET Event /\ Live \in SUBSET Event /\ room \in SUBSET Event
           /\ \A s \in QueryEvents(fs) :
                 Ordered(s, rows) /\ (fs[1].limit \in Nat => Len(s) <= fs[1].limit)
           /\ \A s \in MemoryQuery(fs) :
                 Ordered(s, Live) /\ (fs[1].limit \in Nat => Len(s) <= fs[1].limit)
<1>1. rows \subseteq Event /\ room \subseteq Event /\ Live \subseteq Event
    BY DEF Stored, Live
<1>2. \A s \in QueryEvents(fs) :
          Ordered(s, rows) /\ (fs[1].limit \in Nat => Len(s) <= fs[1].limit)
    BY <1>1, FilterFacts, QueryEventsCorrect
<1>3. \A s \in MemoryQuery(fs) :
          Ordered(s, Live) /\ (fs[1].limit \in Nat => Len(s) <= fs[1].limit)
    BY <1>1, MemoryFacts
<1> QED BY <1>1, <1>2, <1>3

\* What a request is answered has the type of an answer ...
LEMMA AskTypes ==
    ASSUME Stored, NEW fs \in FilterLists,
           NEW a \in HandleReq(fs, Read, QueryEvents(fs)),
           NEW m \in HandleReq(fs, Tags, MemoryQuery(fs))
    PROVE  /\ ToSet(a) \subseteq rows /\ ToSet(m) \subseteq (rows \ gone) \cup room
           /\ Len(a) <= MaxPerReq /\ Len(m) <= MaxPerReq
           /\ CountEvents(fs) \in Nat /\ MemoryCount(fs) \in 0..Cardinality(rows)
<1>1. rows \subseteq Event /\ room \subseteq rows /\ room \subseteq Event
    BY DEF Stored
<1>2. CountEvents(fs) \in Nat
    BY <1>1, CountFacts
<1>3. MemoryCount(fs) \in 0..Cardinality(rows)
    <2>1. Asked(fs) \in SUBSET rows
        BY DEF Asked, Live
    <2>2. IsFiniteSet(rows)
        BY <1>1, QueriesAssumption, FS_Subset
    <2>3. /\ Cardinality(Asked(fs)) \in Nat /\ Cardinality(rows) \in Nat
          /\ Cardinality(Asked(fs)) <= Cardinality(rows)
        BY <2>1, <2>2, FS_Subset, FS_CardinalityType
    <2> QED BY <2>3 DEF MemoryCount
<1>4. CASE ChannelOf(fs) # Nil
    <2>1. a \in Seq(room) /\ m \in Seq(room) /\ Len(a) <= MaxPerReq /\ Len(m) <= MaxPerReq
        BY <1>1, <1>4, ChannelAnswer
    <2>2. ToSet(a) \subseteq room /\ ToSet(m) \subseteq room
        BY <2>1, SeqToSet
    <2> QED BY <1>1, <1>2, <1>3, <2>1, <2>2
<1>5. CASE ChannelOf(fs) = Nil
    <2>1. Ordered(a, rows) /\ Len(a) <= MaxPerReq
        BY <1>5, StoredAnswers, PlainAnswer
    <2>2. Ordered(m, Live) /\ Len(m) <= MaxPerReq
        BY <1>5, StoredAnswers, PlainAnswer
    <2>3. a \in Seq(rows) /\ m \in Seq(Live)
        BY <2>1, <2>2 DEF Ordered
    <2>4. ToSet(a) \subseteq rows /\ ToSet(m) \subseteq Live
        BY <2>3, SeqToSet
    <2> QED BY <1>2, <1>3, <2>1, <2>2, <2>4 DEF Live
<1> QED BY <1>4, <1>5

\* ... and so has no answer.
LEMMA BlankTypes == Stored /\ req = Nil => TypeOK
<1> SUFFICES ASSUME Stored, req = Nil PROVE TypeOK
    OBVIOUS
<1>1. answer = << >> /\ memory = << >> /\ count = 0 /\ distinct = 0
    BY DEF Stored
<1>2. Cardinality(rows) \in Nat
    BY QueriesAssumption, FS_Subset, FS_CardinalityType DEF Stored
<1>3. ToSet(<< >>) = {} /\ Len(<< >>) = 0
    BY DEF ToSet
<1>4. MaxPerReq \in Nat
    BY QueriesAssumption
<1> QED BY <1>1, <1>2, <1>3, <1>4 DEF Stored, TypeOK

\* Only saved events are sent, from memory only live ones or those of a channel, never
\* more than maxEventsPerREQ, and a store in memory counts no more events than there are.
THEOREM TypeCorrect == Spec => []TypeOK
<1>1. Init => TypeOK
    <2>1. Init => Stored /\ req = Nil
        BY DEF Init, Stored
    <2> QED BY <2>1, BlankTypes
<1>2. (Stored /\ req = Nil)' => TypeOK'
    BY BlankTypes, PTL
<1>3. TypeOK /\ Stored /\ Stored' /\ [Next]_vars => TypeOK'
    <2> SUFFICES ASSUME TypeOK, Stored, Stored', [Next]_vars PROVE TypeOK'
        OBVIOUS
    <2>1. ASSUME NEW e \in Event, Save(e) PROVE TypeOK'
        BY <1>2, <2>1 DEF Save
    <2>2. ASSUME NEW e \in Event, Delete(e) PROVE TypeOK'
        BY <1>2, <2>2 DEF Delete
    <2>3. ASSUME NEW fs \in FilterLists, Ask(fs) PROVE TypeOK'
        <3>1. /\ ToSet(answer') \subseteq rows /\ ToSet(memory') \subseteq (rows \ gone) \cup room
              /\ Len(answer') <= MaxPerReq /\ Len(memory') <= MaxPerReq
              /\ count' \in Nat /\ distinct' \in 0..Cardinality(rows)
            BY <2>3, AskTypes DEF Ask
        <3>2. rows' = rows /\ gone' = gone /\ room' = room
            BY <2>3 DEF Ask
        <3> QED BY <3>1, <3>2 DEF TypeOK, Stored
    <2>4. ASSUME Answered PROVE TypeOK'
        BY <1>2, <2>4 DEF Answered
    <2>5. ASSUME UNCHANGED vars PROVE TypeOK'
        BY <2>5 DEF TypeOK, vars
    <2> QED BY <2>1, <2>2, <2>3, <2>4, <2>5 DEF Next
<1> QED BY <1>1, <1>3, StoredInductive, PTL DEF Spec

-----------------------------------------------------------------------------
\* Each store's answer is in order, whatever branch of HandleReq it comes from.
LEMMA AskInOrder ==
    ASSUME NEW S \in SUBSET Event, room \subseteq Event, NEW fs \in FilterLists, NEW stored,
           \A s \in stored : Ordered(s, S) /\ (fs[1].limit \in Nat => Len(s) <= fs[1].limit),
           NEW tags, NEW s \in HandleReq(fs, tags, stored)
    PROVE  /\ ChannelOf(fs) = Nil \/ fs[1].kinds = Nil =>
                 NewestFirst(s) /\ Cardinality(ToSet(s)) = Len(s)
           /\ ChannelOf(fs) = Nil /\ fs[1].limit # Nil => Len(s) <= fs[1].limit
<1>1. CASE ChannelOf(fs) = Nil
    <2>1. Ordered(s, S) /\ (fs[1].limit \in Nat => Len(s) <= fs[1].limit)
        BY <1>1, PlainAnswer
    <2>2. NewestFirst(s) /\ Cardinality(ToSet(s)) = Len(s)
        BY <2>1, DistinctLength DEF Ordered
    <2>3. fs[1].limit # Nil => fs[1].limit \in Nat
        BY FilterFacts
    <2> QED BY <2>1, <2>2, <2>3
<1>2. CASE ChannelOf(fs) # Nil
    <2>1. ASSUME fs[1].kinds = Nil PROVE NewestFirst(s) /\ Cardinality(ToSet(s)) = Len(s)
        <3>1. Ordered(s, room)
            BY <1>2, <2>1, ChannelAnswer
        <3> QED BY <3>1, DistinctLength DEF Ordered
    <2> QED BY <1>2, <2>1
<1> QED BY <1>1, <1>2

\* HandleReq answers newest first, with no event twice and within the first filter's limit,
\* in every reachable state (a channel request as InOrder says).
THEOREM InOrderCorrect == Spec => []InOrder
<1>1. Init => InOrder
    BY DEF Init, InOrder
<1>2. InOrder /\ Stored /\ [Next]_vars => InOrder'
    <2> SUFFICES ASSUME InOrder, Stored, [Next]_vars PROVE InOrder'
        OBVIOUS
    <2>1. ASSUME req' = Nil PROVE InOrder'
        BY <2>1 DEF InOrder
    <2>2. ASSUME NEW e \in Event, Save(e) \/ Delete(e) PROVE InOrder'
        BY <2>1, <2>2 DEF Save, Delete
    <2>3. ASSUME NEW fs \in FilterLists, Ask(fs) PROVE InOrder'
        <3>1. /\ answer' \in HandleReq(fs, Read, QueryEvents(fs))
              /\ memory' \in HandleReq(fs, Tags, MemoryQuery(fs)) /\ req' = fs
            BY <2>3 DEF Ask
        <3>2. ASSUME NEW s \in {answer', memory'}
              PROVE  /\ ChannelOf(fs) = Nil \/ fs[1].kinds = Nil =>
                           NewestFirst(s) /\ Cardinality(ToSet(s)) = Len(s)
                     /\ ChannelOf(fs) = Nil /\ fs[1].limit # Nil => Len(s) <= fs[1].limit
            <4>1. CASE s = answer'
                BY <3>1, <4>1, StoredAnswers, AskInOrder
            <4>2. CASE s = memory'
                BY <3>1, <4>2, StoredAnswers, AskInOrder
            <4> QED BY <4>1, <4>2
        <3> QED BY <3>1, <3>2 DEF InOrder
    <2>4. ASSUME Answered PROVE InOrder'
        BY <2>1, <2>4 DEF Answered
    <2>5. ASSUME UNCHANGED vars PROVE InOrder'
        BY <2>5 DEF InOrder, vars
    <2> QED BY <2>2, <2>3, <2>4, <2>5 DEF Next
<1> QED BY <1>1, <1>2, StoredInductive, PTL DEF Spec

\* A channel request of one filter without a limit misses no event of the channel the
\* filter matches, one query for each kind or not, unless it is deleted.
THEOREM RoomCompleteCorrect == Spec => []RoomComplete
<1>1. Init => RoomComplete
    BY DEF Init, RoomComplete
<1>2. RoomComplete /\ Stored /\ [Next]_vars => RoomComplete'
    <2> SUFFICES ASSUME RoomComplete, Stored, [Next]_vars PROVE RoomComplete'
        OBVIOUS
    <2>1. ASSUME req' = Nil PROVE RoomComplete'
        BY <2>1 DEF RoomComplete
    <2>2. ASSUME NEW e \in Event, Save(e) \/ Delete(e) PROVE RoomComplete'
        BY <2>1, <2>2 DEF Save, Delete
    <2>3. ASSUME NEW fs \in FilterLists, Ask(fs) PROVE RoomComplete'
        <3>1. /\ answer' \in HandleReq(fs, Read, QueryEvents(fs))
              /\ req' = fs /\ room' = room /\ gone' = gone
            BY <2>3 DEF Ask
        <3>2. room \subseteq Event
            BY DEF Stored
        <3>3. ASSUME ChannelOf(fs) # Nil, Len(fs) = 1, fs[1].limit \in {Nil, 0},
                     NEW e \in room \ gone, Channel[e] = ChannelOf(fs), Matches(e, Tags[e], fs[1])
              PROVE  e \in ToSet(answer') \/ Expired(Read[e]) \/ Len(answer') = MaxPerReq
            BY <3>1, <3>2, <3>3, ChannelAnswer
        <3> QED BY <3>1, <3>3 DEF RoomComplete
    <2>4. ASSUME Answered PROVE RoomComplete'
        BY <2>1, <2>4 DEF Answered
    <2>5. ASSUME UNCHANGED vars PROVE RoomComplete'
        BY <2>5 DEF RoomComplete, vars
    <2> QED BY <2>2, <2>3, <2>4, <2>5 DEF Next
<1> QED BY <1>1, <1>2, StoredInductive, PTL DEF Spec

\* What the store leaves out of what one filter selects is behind as many rows as the
\* limit, none of them older.
LEMMA QueryMisses ==
    ASSUME rows \subseteq Event, NEW fs \in FilterLists,
           (\A i \in DOMAIN fs : fs[i].limit = Nil) \/ Len(fs) = 1,
           NEW s \in QueryEvents(fs), NEW i \in DOMAIN fs, NEW e \in Select(fs[i]), e \notin ToSet(s)
    PROVE  /\ ~(\A j \in DOMAIN fs : fs[j].limit = Nil)
           /\ \A d \in ToSet(s) : Created[d] >= Created[e]
           /\ Cardinality({d \in Select(fs[1]) : Created[d] >= Created[e]}) > fs[1].limit
<1> DEFINE S == Select(fs[1])
           n == fs[1].limit
           newer == {d \in S : Created[d] >= Created[e]}
<1>1. ~(\A j \in DOMAIN fs : fs[j].limit = Nil)
    <2> SUFFICES ASSUME \A j \in DOMAIN fs : fs[j].limit = Nil PROVE FALSE
        OBVIOUS
    <2> QED BY FilterFacts, QueryEventsCorrect
<1>2. DOMAIN fs = {1} /\ Len(fs) = 1
    BY <1>1, FilterFacts
<1>3. n \in Nat /\ n # Nil /\ e \in S
    BY <1>1, <1>2, FilterFacts, QueriesAssumption
<1>4. Leading(s, S) /\ Len(s) = Share(n, S)
    BY <1>2, QueryOne
<1>5. S \in SUBSET Event /\ e \in Event
    BY <1>3 DEF Select
<1> HIDE DEF S, n
<1>6. \A d \in ToSet(s) : Created[d] >= Created[e]
    BY <1>3, <1>4 DEF Leading
<1>7. Ordered(s, S) /\ Cardinality(ToSet(s)) = Len(s) /\ ToSet(s) \subseteq S
    BY <1>4, <1>5, DistinctLength, SeqToSet DEF Leading, Ordered
<1>8. IsFiniteSet(S) /\ IsFiniteSet(newer) /\ IsFiniteSet(ToSet(s))
    BY <1>5, <1>7, QueriesAssumption, FS_Subset
<1>9. Created[e] \in Nat
    BY <1>5, QueriesAssumption
<1>10. ToSet(s) \cup {e} \subseteq newer
    BY <1>3, <1>6, <1>7, <1>9
<1>11. /\ Cardinality(ToSet(s) \cup {e}) = Len(s) + 1
       /\ Cardinality(ToSet(s) \cup {e}) <= Cardinality(newer)
       /\ Cardinality(newer) \in Nat /\ Len(s) \in Nat
    BY <1>7, <1>8, <1>10, FS_AddElement, FS_Subset, FS_CardinalityType
<1>12. Len(s) = n
    <2>1. Cardinality(S) \in Nat /\ Cardinality(newer) <= Cardinality(S)
        BY <1>8, FS_Subset, FS_CardinalityType
    <2>2. Len(s) = IF n <= Cardinality(S) THEN n ELSE Cardinality(S)
        BY <1>3, <1>4, <2>1, MinOfTwo DEF Share
    <2> QED BY <1>3, <1>11, <2>1, <2>2
<1>13. Cardinality(newer) > n
    BY <1>3, <1>11, <1>12
<1> QED BY <1>1, <1>6, <1>13 DEF S, n

\* A plain request whose filters are exact misses nothing that fits ...
LEMMA AskComplete ==
    ASSUME Stored, NEW fs \in FilterLists, ChannelOf(fs) = Nil, ~HasSearch(fs),
           \A i \in DOMAIN fs : Exact(fs[i]),
           (\A i \in DOMAIN fs : fs[i].limit = Nil) \/ Len(fs) = 1,
           NEW a \in HandleReq(fs, Read, QueryEvents(fs)), NEW e \in Asked(fs)
    PROVE  \/ e \in ToSet(a) \/ Expired(Read[e])
           \/ /\ ~(\A i \in DOMAIN fs : fs[i].limit = Nil) \/ Len(a) = MaxPerReq
              /\ \A d \in ToSet(a) : Created[d] >= Created[e]
<1> SUFFICES ASSUME e \notin ToSet(a), ~Expired(Read[e])
             PROVE  /\ ~(\A i \in DOMAIN fs : fs[i].limit = Nil) \/ Len(a) = MaxPerReq
                    /\ \A d \in ToSet(a) : Created[d] >= Created[e]
    OBVIOUS
<1>1. PICK S \in SUBSET Event : S = rows
    BY DEF Stored
<1>2. PICK from : from = QueryEvents(fs)
    OBVIOUS
<1>3. a \in Sent(Read, from) /\ \A s \in from : Ordered(s, S)
    BY <1>1, <1>2, StoredAnswers DEF HandleReq
<1>4. PICK s \in from : Kept(a, s, Read)
    BY <1>3, SentKept
<1>5. PICK i \in DOMAIN fs : e \in Select(fs[i])
    BY AskedSelected DEF Stored
<1>6. CASE e \in ToSet(s)
    BY <1>4, <1>6 DEF Kept
<1>7. CASE e \notin ToSet(s)
    <2>1. /\ ~(\A j \in DOMAIN fs : fs[j].limit = Nil)
          /\ \A d \in ToSet(s) : Created[d] >= Created[e]
        BY <1>2, <1>5, <1>7, QueryMisses DEF Stored
    <2> QED BY <1>4, <2>1 DEF Kept
<1> QED BY <1>6, <1>7

\* ... and neither does one that searches, of what the search fits.
LEMMA AskSearchComplete ==
    ASSUME Stored, NEW fs \in FilterLists, ChannelOf(fs) = Nil, HasSearch(fs),
           \A i \in DOMAIN fs : Exact(fs[i]),
           (\A i \in DOMAIN fs : fs[i].limit = Nil) \/ Len(fs) = 1,
           NEW a \in HandleReq(fs, Read, QueryEvents(fs)),
           NEW e \in Live, \E i \in DOMAIN fs : SearchMatches(e, Read[e], fs[i])
    PROVE  \/ e \in ToSet(a) \/ Expired(Read[e])
           \/ Len(a) = MaxPerReq /\ \A d \in ToSet(a) : Created[d] >= Created[e]
           \/ /\ ~(\A i \in DOMAIN fs : fs[i].limit = Nil)
              /\ Cardinality({d \in Select(fs[1]) : Created[d] >= Created[e]}) > fs[1].limit
              /\ \A d \in ToSet(a) : Created[d] >= Created[e]
<1>1. PICK S \in SUBSET Event : S = rows
    BY DEF Stored
<1>2. PICK stored : stored = QueryEvents(fs)
    OBVIOUS
<1>3. \A s \in stored : Ordered(s, S)
    BY <1>1, <1>2, StoredAnswers
<1>4. PICK from : from = Found(fs, Read, stored)
    OBVIOUS
<1>5. a \in Sent(Read, from) /\ \A q \in from : Ordered(q, S)
    BY <1>2, <1>3, <1>4, FoundFacts DEF HandleReq
<1>6. PICK q \in from : Kept(a, q, Read)
    BY <1>5, SentKept
<1>7. PICK s \in stored :
          /\ ToSet(q) \subseteq ToSet(s)
          /\ \A d \in ToSet(s) :
                (\E i \in DOMAIN fs : SearchMatches(d, Read[d], fs[i])) => d \in ToSet(q)
    <2>1. \E s \in stored : FoundFrom(q, s, fs, Read)
        BY <1>3, <1>4, FoundFacts
    <2> QED BY <2>1 DEF FoundFrom
<1>8. PICK i \in DOMAIN fs : e \in Select(fs[i])
    <2>1. PICK i \in DOMAIN fs : Matches(e, Read[e], fs[i])
        BY DEF SearchMatches
    <2>2. e \in rows /\ rows \subseteq Event
        BY DEF Live, Stored
    <2> QED BY <2>1, <2>2, SelectCovers
<1>9. CASE e \in ToSet(s)
    <2>1. e \in ToSet(q)
        BY <1>7, <1>9
    <2> QED BY <1>6, <2>1 DEF Kept
<1>10. CASE e \notin ToSet(s)
    <2>1. /\ ~(\A j \in DOMAIN fs : fs[j].limit = Nil)
          /\ \A d \in ToSet(s) : Created[d] >= Created[e]
          /\ Cardinality({d \in Select(fs[1]) : Created[d] >= Created[e]}) > fs[1].limit
        BY <1>2, <1>8, <1>10, QueryMisses DEF Stored
    <2>2. \A d \in ToSet(a) : Created[d] >= Created[e]
        BY <1>6, <1>7, <2>1 DEF Kept
    <2> QED BY <2>1, <2>2
<1> QED BY <1>9, <1>10

\* The SELECT of an exact request never misses an event that Matches would send to a
\* subscription, unless a limit cuts it off behind newer ones or it has expired.
THEOREM CompleteCorrect == Spec => []Complete
<1>1. Init => Complete
    BY DEF Init, Complete, Regular
<1>2. Complete /\ Stored /\ [Next]_vars => Complete'
    <2> SUFFICES ASSUME Complete, Stored, [Next]_vars PROVE Complete'
        OBVIOUS
    <2>1. ASSUME req' = Nil PROVE Complete'
        BY <2>1 DEF Complete, Regular
    <2>2. ASSUME NEW e \in Event, Save(e) \/ Delete(e) PROVE Complete'
        BY <2>1, <2>2 DEF Save, Delete
    <2>3. ASSUME NEW fs \in FilterLists, Ask(fs) PROVE Complete'
        <3>1. /\ answer' \in HandleReq(fs, Read, QueryEvents(fs))
              /\ req' = fs /\ rows' = rows /\ gone' = gone
            BY <2>3 DEF Ask
        <3>2. Asked(req)' = Asked(fs)
            BY <3>1 DEF Asked, Live
        <3>3. /\ Regular' => ChannelOf(fs) = Nil /\ ~HasSearch(fs)
              /\ AllExact' => \A i \in DOMAIN fs : Exact(fs[i])
              /\ Limitless' <=> \A i \in DOMAIN fs : fs[i].limit = Nil
            BY <3>1 DEF Regular, AllExact, Limitless
        <3>4. ASSUME Regular', AllExact', Limitless' \/ Len(fs) = 1, NEW e \in Asked(fs)
              PROVE  \/ e \in ToSet(answer') \/ Expired(Read[e])
                     \/ /\ ~Limitless' \/ Len(answer') = MaxPerReq
                        /\ \A d \in ToSet(answer') : Created[d] >= Created[e]
            BY <3>1, <3>3, <3>4, AskComplete
        <3> QED BY <3>1, <3>2, <3>4 DEF Complete
    <2>4. ASSUME Answered PROVE Complete'
        BY <2>1, <2>4 DEF Answered
    <2>5. ASSUME UNCHANGED vars PROVE Complete'
        <3>1. /\ Asked(req)' = Asked(req) /\ Regular' = Regular /\ AllExact' = AllExact
              /\ Limitless' = Limitless /\ req' = req /\ answer' = answer
            BY <2>5 DEF vars, Asked, Live, Regular, AllExact, Limitless
        <3> QED BY <3>1 DEF Complete
    <2> QED BY <2>2, <2>3, <2>4, <2>5 DEF Next
<1> QED BY <1>1, <1>2, StoredInductive, PTL DEF Spec

\* A search of exact filters misses an event it fits only behind as many newer rows as
\* the limit, which the store counts before the search, or as a REQ may be sent.
THEOREM SearchCompleteCorrect == Spec => []SearchComplete
<1>1. Init => SearchComplete
    BY DEF Init, SearchComplete
<1>2. SearchComplete /\ Stored /\ [Next]_vars => SearchComplete'
    <2> SUFFICES ASSUME SearchComplete, Stored, [Next]_vars PROVE SearchComplete'
        OBVIOUS
    <2>1. ASSUME req' = Nil PROVE SearchComplete'
        BY <2>1 DEF SearchComplete
    <2>2. ASSUME NEW e \in Event, Save(e) \/ Delete(e) PROVE SearchComplete'
        BY <2>1, <2>2 DEF Save, Delete
    <2>3. ASSUME NEW fs \in FilterLists, Ask(fs) PROVE SearchComplete'
        <3>1. /\ answer' \in HandleReq(fs, Read, QueryEvents(fs))
              /\ req' = fs /\ rows' = rows /\ gone' = gone
            BY <2>3 DEF Ask
        <3>2. Live' = Live /\ Select(fs[1])' = Select(fs[1])
            BY <3>1 DEF Live, Select
        <3>3. /\ AllExact' => \A i \in DOMAIN fs : Exact(fs[i])
              /\ Limitless' <=> \A i \in DOMAIN fs : fs[i].limit = Nil
            BY <3>1 DEF AllExact, Limitless
        <3>4. ASSUME ChannelOf(fs) = Nil, HasSearch(fs), AllExact', Limitless' \/ Len(fs) = 1,
                     NEW e \in Live, \E i \in DOMAIN fs : SearchMatches(e, Read[e], fs[i])
              PROVE  \/ e \in ToSet(answer') \/ Expired(Read[e])
                     \/ Len(answer') = MaxPerReq /\ \A d \in ToSet(answer') : Created[d] >= Created[e]
                     \/ /\ ~Limitless'
                        /\ Cardinality({d \in Select(fs[1]) : Created[d] >= Created[e]}) > fs[1].limit
                        /\ \A d \in ToSet(answer') : Created[d] >= Created[e]
            BY <3>1, <3>3, <3>4, AskSearchComplete
        <3> QED BY <3>1, <3>2, <3>4 DEF SearchComplete
    <2>4. ASSUME Answered PROVE SearchComplete'
        BY <2>1, <2>4 DEF Answered
    <2>5. ASSUME UNCHANGED vars PROVE SearchComplete'
        <3>1. /\ Live' = Live /\ AllExact' = AllExact /\ Limitless' = Limitless
              /\ req' = req /\ answer' = answer /\ Select(req[1])' = Select(req[1])
            BY <2>5 DEF vars, Live, Select, AllExact, Limitless
        <3> QED BY <3>1 DEF SearchComplete
    <2> QED BY <2>2, <2>3, <2>4, <2>5 DEF Next
<1> QED BY <1>1, <1>2, StoredInductive, PTL DEF Spec

-----------------------------------------------------------------------------
\* One plain query without tags, nothing deleted and nothing expired.
LEMMA AskAgree ==
    ASSUME Stored, gone = {}, NEW fs \in FilterLists, ChannelOf(fs) = Nil, ~HasSearch(fs),
           \A i \in DOMAIN fs : Exact(fs[i]), Len(fs) = 1, DOMAIN fs[1].tags = {}
    PROVE  /\ CountEvents(fs) = MemoryCount(fs)
           /\ (\A e \in rows : ~Expired(Read[e]) /\ ~Expired(Tags[e])) =>
                 \A a \in HandleReq(fs, Read, QueryEvents(fs)),
                    m \in HandleReq(fs, Tags, MemoryQuery(fs)) :
                       Len(a) = Len(m) /\ \A i \in DOMAIN a : Created[a[i]] = Created[m[i]]
<1>1. rows \subseteq Event
    BY DEF Stored
<1>2. DOMAIN fs = {1}
    BY FilterFacts
<1>3. Asked(fs) = Select(fs[1])
    BY <1>1, <1>2, SelectedAsked
<1>4. CountEvents(fs) = MemoryCount(fs)
    BY <1>1, <1>3, CountFacts DEF MemoryCount
<1>5. ASSUME \A e \in rows : ~Expired(Read[e]) /\ ~Expired(Tags[e]),
             NEW a \in HandleReq(fs, Read, QueryEvents(fs)),
             NEW m \in HandleReq(fs, Tags, MemoryQuery(fs))
      PROVE  Len(a) = Len(m) /\ \A i \in DOMAIN a : Created[a[i]] = Created[m[i]]
    <2>1. PICK S \in SUBSET Event : S = Select(fs[1])
        BY <1>1 DEF Select
    <2>2. S \subseteq rows
        BY <2>1 DEF Select
    <2>3. a \in Sent(Read, QueryEvents(fs)) /\ m \in Sent(Tags, MemoryQuery(fs))
        BY DEF HandleReq
    <2>4. PICK s \in QueryEvents(fs) : a \in Sent(Read, {s})
        BY <2>3 DEF Sent
    <2>5. PICK t \in MemoryQuery(fs) : m \in Sent(Tags, {t})
        BY <2>3 DEF Sent
    <2>6. Leading(s, S) /\ Len(s) = Share(fs[1].limit, S)
        BY <1>1, <2>1, QueryOne
    <2>7. Leading(t, S) /\ Len(t) = Share(fs[1].limit, S)
        BY <1>1, <1>3, <2>1, MemoryFacts
    <2>8. ToSet(s) \subseteq rows /\ ToSet(t) \subseteq rows
        BY <2>2, <2>6, <2>7, SeqToSet DEF Leading, Ordered
    <2>9. Leading(a, S) /\ Len(a) = Min({Len(s), MaxPerReq})
        BY <1>5, <2>4, <2>6, <2>8, SentLeading
    <2>10. Leading(m, S) /\ Len(m) = Min({Len(t), MaxPerReq})
        BY <1>5, <2>5, <2>7, <2>8, SentLeading
    <2>11. Len(a) = Len(m)
        BY <2>6, <2>7, <2>9, <2>10
    <2>12. SameAges(a, m)
        BY <2>9, <2>10, <2>11, LeadingAgree
    <2>13. \A i \in DOMAIN a : Created[a[i]] = Created[m[i]]
        BY <2>12 DEF SameAges
    <2> QED BY <2>11, <2>13
<1> QED BY <1>4, <1>5

\* The SQLite store counts no fewer events than the store in memory, and as many for one
\* plain filter; their answers to it then have the same ages at the same places.
THEOREM StoresAgreeCorrect == Spec => []StoresAgree
<1>1. Init => StoresAgree
    BY DEF Init, StoresAgree, Simple, Regular
<1>2. StoresAgree /\ Stored /\ [Next]_vars => StoresAgree'
    <2> SUFFICES ASSUME StoresAgree, Stored, [Next]_vars PROVE StoresAgree'
        OBVIOUS
    <2>1. ASSUME req' = Nil PROVE StoresAgree'
        BY <2>1 DEF StoresAgree, Simple, Regular
    <2>2. ASSUME NEW e \in Event, Save(e) \/ Delete(e) PROVE StoresAgree'
        BY <2>1, <2>2 DEF Save, Delete
    <2>3. ASSUME NEW fs \in FilterLists, Ask(fs) PROVE StoresAgree'
        <3>1. /\ answer' \in HandleReq(fs, Read, QueryEvents(fs))
              /\ memory' \in HandleReq(fs, Tags, MemoryQuery(fs))
              /\ count' = CountEvents(fs) /\ distinct' = MemoryCount(fs)
              /\ req' = fs /\ rows' = rows /\ gone' = gone
            BY <2>3 DEF Ask
        <3>2. /\ AllExact' => \A i \in DOMAIN fs : Exact(fs[i])
              /\ Simple' => /\ ChannelOf(fs) = Nil /\ ~HasSearch(fs) /\ Len(fs) = 1
                            /\ \A i \in DOMAIN fs : Exact(fs[i])
                            /\ DOMAIN fs[1].tags = {} /\ gone = {}
              /\ NoneExpired' => \A e \in rows : ~Expired(Read[e]) /\ ~Expired(Tags[e])
            BY <3>1 DEF AllExact, Simple, Regular, NoneExpired
        <3>3. ASSUME AllExact' PROVE count' >= distinct'
            <4>1. PICK U : U = UNION {Select(fs[i]) : i \in DOMAIN fs}
                OBVIOUS
            <4>2. Asked(fs) \subseteq U /\ U \subseteq rows /\ rows \subseteq Event
                BY <3>2, <3>3, <4>1, AskedSelected DEF Select, Stored
            <4>3. Cardinality(U) <= CountEvents(fs) /\ CountEvents(fs) \in Nat
                BY <4>1, <4>2, CountFacts
            <4>4. IsFiniteSet(U)
                BY <4>2, QueriesAssumption, FS_Subset
            <4>5. /\ Cardinality(Asked(fs)) <= Cardinality(U)
                  /\ Cardinality(U) \in Nat /\ Cardinality(Asked(fs)) \in Nat
                BY <4>2, <4>4, FS_Subset, FS_CardinalityType
            <4>6. Cardinality(Asked(fs)) <= CountEvents(fs)
                BY <4>3, <4>5
            <4> QED BY <3>1, <4>3, <4>5, <4>6 DEF MemoryCount
        <3>4. ASSUME Simple' PROVE count' = distinct'
            BY <3>1, <3>2, <3>4, AskAgree
        <3>5. ASSUME Simple', NoneExpired'
              PROVE  /\ Len(answer') = Len(memory')
                     /\ \A i \in DOMAIN answer' : Created[answer'[i]] = Created[memory'[i]]
            BY <3>1, <3>2, <3>5, AskAgree
        <3> QED BY <3>3, <3>4, <3>5 DEF StoresAgree
    <2>4. ASSUME Answered PROVE StoresAgree'
        BY <2>1, <2>4 DEF Answered
    <2>5. ASSUME UNCHANGED vars PROVE StoresAgree'
        <3>1. /\ Simple' = Simple /\ AllExact' = AllExact /\ NoneExpired' = NoneExpired
              /\ req' = req /\ answer' = answer /\ memory' = memory
              /\ count' = count /\ distinct' = distinct
            BY <2>5 DEF vars, Simple, Regular, AllExact, NoneExpired
        <3> QED BY <3>1 DEF StoresAgree
    <2> QED BY <2>2, <2>3, <2>4, <2>5 DEF Next
<1> QED BY <1>1, <1>2, StoredInductive, PTL DEF Spec

\* The tags of an event the SQLite store answers with are those it was saved with, if no
\* comma or bracket is in them: tagsToJSON wrote them, parseTagsJSON read them.
THEOREM TagsSurviveCorrect == Spec => []TagsSurvive
<1>1. TypeOK => TagsSurvive
    <2> SUFFICES ASSUME TypeOK, NEW e \in ToSet(answer), PlainTags(Tags[e])
                 PROVE  Read[e] = Tags[e]
        BY DEF TagsSurvive
    <2>1. e \in Event
        BY DEF TypeOK
    <2>2. IsTags(Tags[e])
        BY <2>1, QueriesAssumption
    <2>3. parseTagsJSON(tagsToJSON(Tags[e])) = Tags[e]
        BY <2>2, RoundTrip
    <2> QED BY <2>1, <2>3 DEF Read
<1> QED BY <1>1, TypeCorrect, PTL
=============================================================================
