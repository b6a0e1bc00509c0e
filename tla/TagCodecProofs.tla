--------------------------- MODULE TagCodecProofs ---------------------------
(***************************************************************************)
(* Proofs about TagCodec, for any tags: what parseTagsJSON reads of what   *)
(* tagsToJSON wrote are the same tags, if no part of them has a comma or a *)
(* bracket (RoundTrip).  And what they rest on, which is of use elsewhere: *)
(* what Picked returns, joining sequences and finding where the parts of   *)
(* the result begin, counting the values of a rising function.             *)
(*                                                                         *)
(* What recurses over the length of a sequence is taken by SetInduction,   *)
(* which is about a set of numbers where a predicate would be usual.       *)
(***************************************************************************)
EXTENDS TagCodec, FiniteSetTheorems, SequenceTheorems, TLAPS

(* Numbers and sequences *)

\* Induction over the naturals, with a set in place of a predicate.
LEMMA SetInduction ==
    ASSUME NEW S, 0 \in S, \A n \in Nat : n \in S => n + 1 \in S
    PROVE  Nat \subseteq S
<1> DEFINE Before == OpToRel(<, Nat)
<1>1. IsWellFoundedOn(Before, Nat)
    BY NatLessThanWellFounded
<1>2. \A m, n \in Nat : m < n => <<m, n>> \in Before
    BY DEF OpToRel
<1> HIDE DEF Before
<1> SUFFICES ASSUME Nat \ S # {} PROVE FALSE
    OBVIOUS
<1>3. PICK n \in Nat \ S : \A m \in Nat \ S : <<m, n>> \notin Before
    BY <1>1, WFMin
<1>4. n - 1 \in Nat /\ n - 1 < n
    BY <1>3
<1>5. n - 1 \in S
    BY <1>2, <1>3, <1>4
<1> QED BY <1>3, <1>4, <1>5

\* The numbers up to n are n.
LEMMA UpTo ==
    ASSUME NEW n \in Nat
    PROVE  IsFiniteSet(1..n) /\ Cardinality(1..n) = n
BY FS_Interval

\* A function on 1..n is a sequence of length n.
LEMMA SequenceFrom ==
    ASSUME NEW S, NEW n \in Nat, NEW s \in [1..n -> S]
    PROVE  s \in Seq(S) /\ Len(s) = n
OBVIOUS

\* Picked lists the entries at the positions I in the order of their positions.
LEMMA PickedFacts ==
    ASSUME NEW S, NEW s \in Seq(S), NEW I \in SUBSET DOMAIN s
    PROVE  /\ Picked(s, I) \in Seq(S)
           /\ Len(Picked(s, I)) = Cardinality(I)
           /\ \E h \in [1..Len(Picked(s, I)) -> I] :
                 /\ \A m, n \in DOMAIN h : m < n => h[m] < h[n]
                 /\ \A i \in I : \E n \in DOMAIN h : h[n] = i
                 /\ \A n \in DOMAIN h : Picked(s, I)[n] = s[h[n]]
<1>1. Len(s) \in Nat /\ DOMAIN s = 1..Len(s)
    BY LenProperties
<1>2. I \subseteq Nat /\ \A i \in I : s[i] \in S
    BY <1>1, ElementOfSeq
<1>3. IsFiniteSet(I) /\ Cardinality(I) \in Nat
    <2>1. IsFiniteSet(1..Len(s))
        BY <1>1, FS_Interval
    <2> QED BY <1>1, <2>1, FS_Subset, FS_CardinalityType
<1> DEFINE N == Cardinality(I)
           upto == [i \in I |-> {j \in I : j <= i}]
           rank == [i \in I |-> Cardinality(upto[i])]
\* rank counts I from its least element to its greatest
<1>4. \A i \in I : upto[i] \in SUBSET I /\ i \in upto[i]
    BY <1>2
<1>5. \A i, j \in I : i < j => upto[i] \in SUBSET upto[j] /\ j \notin upto[i]
    BY <1>2
<1>6. \A i \in I : IsFiniteSet(upto[i]) /\ rank[i] \in 1..N
    <2> SUFFICES ASSUME NEW i \in I PROVE IsFiniteSet(upto[i]) /\ rank[i] \in 1..N
        OBVIOUS
    <2> HIDE DEF upto
    <2>1. IsFiniteSet(upto[i]) /\ Cardinality(upto[i]) \in Nat /\ Cardinality(upto[i]) <= N
        BY <1>3, <1>4, FS_Subset, FS_CardinalityType
    <2>2. Cardinality(upto[i]) # 0
        BY <1>4, <2>1, FS_EmptySet
    <2> QED BY <2>1, <2>2, <1>3
<1>7. \A i, j \in I : i < j => rank[i] < rank[j]
    <2> SUFFICES ASSUME NEW i \in I, NEW j \in I, i < j PROVE rank[i] < rank[j]
        OBVIOUS
    <2> HIDE DEF upto
    <2>1. upto[i] \in SUBSET upto[j] /\ upto[i] # upto[j]
        BY <1>4, <1>5
    <2>2. /\ Cardinality(upto[i]) <= Cardinality(upto[j])
          /\ Cardinality(upto[i]) # Cardinality(upto[j])
        BY <1>6, <2>1, FS_Subset
    <2>3. rank[i] <= rank[j] /\ rank[i] # rank[j]
        BY <2>2
    <2> HIDE DEF rank
    <2> QED BY <1>6, <2>3
<1> DEFINE h == [n \in 1..N |-> CHOOSE i \in I : Cardinality({j \in I : j <= i}) = n]
<1>8. Picked(s, I) = [n \in 1..N |-> s[h[n]]]
    BY DEF Picked
<1>9. \A n \in 1..N : \E i \in I : rank[i] = n
    <2> HIDE DEF rank, upto
    <2>1. IsFiniteSet(1..N) /\ Cardinality(1..N) = N
        BY <1>3, FS_Interval
    <2>2. rank \in [I -> 1..N]
        BY <1>6 DEF rank
    <2>3. ASSUME NEW i \in I, NEW j \in I, rank[i] = rank[j] PROVE i = j
        <3>1. ~(i < j) /\ ~(j < i)
            BY <1>6, <1>7, <2>3
        <3> QED BY <1>2, <3>1
    <2>4. rank \in Surjection(I, 1..N)
        <3>1. rank \in Injection(I, 1..N)
            BY <2>2, <2>3 DEF Injection, IsInjective
        <3> QED BY <2>1, <3>1, FS_Injection
    <2> QED BY <2>4 DEF Surjection
<1>10. h \in [1..N -> I] /\ \A n \in 1..N : rank[h[n]] = n
    <2> SUFFICES ASSUME NEW n \in 1..N PROVE h[n] \in I /\ rank[h[n]] = n
        OBVIOUS
    <2>1. \E i \in I : Cardinality({j \in I : j <= i}) = n
        BY <1>9
    <2>2. h[n] \in I /\ Cardinality({j \in I : j <= h[n]}) = n
        BY <2>1
    <2> HIDE DEF h
    <2> QED BY <2>2
<1> HIDE DEF h, rank, upto
<1>11. Picked(s, I) \in Seq(S) /\ Len(Picked(s, I)) = N
    <2>1. [n \in 1..N |-> s[h[n]]] \in [1..N -> S]
        BY <1>2, <1>10
    <2> QED BY <1>3, <1>8, <2>1
<1>12. \A m, n \in 1..N : m < n => h[m] < h[n]
    <2> SUFFICES ASSUME NEW m \in 1..N, NEW n \in 1..N, m < n PROVE h[m] < h[n]
        OBVIOUS
    <2>1. h[m] \in I /\ h[n] \in I /\ rank[h[m]] = m /\ rank[h[n]] = n
        BY <1>10
    <2>2. h[m] \in Nat /\ h[n] \in Nat
        BY <1>2, <2>1
    <2>3. ~(h[n] < h[m]) /\ h[n] # h[m]
        BY <1>7, <2>1
    <2> QED BY <2>2, <2>3
<1>13. \A i \in I : \E n \in 1..N : h[n] = i
    <2> SUFFICES ASSUME NEW i \in I PROVE h[rank[i]] = i
        BY <1>6
    <2>1. rank[i] \in 1..N /\ h[rank[i]] \in I /\ rank[h[rank[i]]] = rank[i]
        BY <1>6, <1>10
    <2>2. ~(h[rank[i]] < i) /\ ~(i < h[rank[i]])
        BY <1>6, <1>7, <2>1
    <2>3. PICK x \in Nat : x = h[rank[i]]
        BY <1>2, <2>1
    <2>4. i \in Nat /\ ~(x < i) /\ ~(i < x)
        BY <1>2, <2>2, <2>3
    <2>5. x = i
        BY <2>4
    <2> QED BY <2>3, <2>5
<1>14. h \in [1..Len(Picked(s, I)) -> I] /\ DOMAIN h = 1..N
    BY <1>10, <1>11
<1>15. \A n \in 1..N : Picked(s, I)[n] = s[h[n]]
    BY <1>8
<1>16. /\ \A m, n \in DOMAIN h : m < n => h[m] < h[n]
       /\ \A i \in I : \E n \in DOMAIN h : h[n] = i
       /\ \A n \in DOMAIN h : Picked(s, I)[n] = s[h[n]]
    <2>1. DOMAIN h = 1..N
        BY <1>14
    <2> QED BY <1>12, <1>13, <1>15, <2>1
<1>17. h \in [1..Len(Picked(s, I)) -> I]
    BY <1>14
<1> QED BY <1>11, <1>16, <1>17, Zenon

-----------------------------------------------------------------------------
(* Recursion *)

\* f goes from start by step[1], step[2], ..., step[n].
Steps(f, n, start, step) == f[0] = start /\ \A i \in 1..n : f[i] = step[i][f[i - 1]]

\* Recursion over 1..n from a start and a step for each number defines a function.
LEMMA PrimitiveRecursion ==
    ASSUME NEW n \in Nat, NEW S, NEW start \in S, NEW step,
           \A i \in 1..n : step[i] \in [S -> S]
    PROVE  \E f \in [0..n -> S] : Steps(f, n, start, step)
<1> DEFINE Upto(m, f) == f[0] = start /\ \A i \in 1..m : f[i] = step[i][f[i - 1]]
           Good == {m \in Nat : m <= n => \E f \in [0..m -> S] : Upto(m, f)}
<1>1. 0 \in Good
    <2>1. [i \in 0..0 |-> start] \in [0..0 -> S] /\ Upto(0, [i \in 0..0 |-> start])
        OBVIOUS
    <2> QED BY <2>1
<1>2. ASSUME NEW m \in Nat, m \in Good PROVE m + 1 \in Good
    <2> SUFFICES ASSUME m + 1 <= n PROVE \E f \in [0..m + 1 -> S] : Upto(m + 1, f)
        OBVIOUS
    <2>1. PICK f \in [0..m -> S] : Upto(m, f)
        BY <1>2
    <2>2. f[m] \in S /\ step[m + 1] \in [S -> S]
        OBVIOUS
    <2>3. PICK v : v = step[m + 1][f[m]]
        OBVIOUS
    <2>4. v \in S
        BY <2>2, <2>3
    <2>5. PICK g : g = [i \in 0..m + 1 |-> IF i <= m THEN f[i] ELSE v]
        OBVIOUS
    <2>6. g \in [0..m + 1 -> S]
        BY <2>4, <2>5
    <2>7. g[m + 1] = v /\ \A i \in 0..m : g[i] = f[i]
        BY <2>5
    <2>8. ASSUME NEW i \in 1..m + 1 PROVE g[i] = step[i][g[i - 1]]
        <3>1. CASE i = m + 1
            BY <2>3, <2>7, <3>1
        <3>2. CASE i # m + 1
            <4>1. i \in 1..m /\ i \in 0..m /\ i - 1 \in 0..m
                BY <3>2
            <4>2. f[i] = step[i][f[i - 1]]
                BY <2>1, <4>1
            <4> QED BY <2>7, <4>1, <4>2
        <3> QED BY <3>1, <3>2
    <2>9. g[0] = start
        BY <2>1, <2>7
    <2> QED BY <2>6, <2>8, <2>9
<1> HIDE DEF Good
<1>3. n \in Good
    BY <1>1, <1>2, SetInduction
<1>4. \E f \in [0..n -> S] : Upto(n, f)
    BY <1>3 DEF Good
<1> QED BY <1>4 DEF Steps

\* The entries of two sequences joined.
LEMMA ToSetConcat ==
    ASSUME NEW S, NEW a \in Seq(S), NEW b \in Seq(S)
    PROVE  a \o b \in Seq(S) /\ ToSet(a \o b) = ToSet(a) \cup ToSet(b)
<1>1. Len(a) \in Nat /\ DOMAIN a = 1..Len(a) /\ Len(b) \in Nat /\ DOMAIN b = 1..Len(b)
    BY LenProperties
<1>2. PICK c : c = a \o b
    OBVIOUS
<1>3. c \in Seq(S) /\ Len(c) = Len(a) + Len(b)
    BY <1>2, ConcatProperties
<1>4. \A i \in 1..Len(a) + Len(b) :
          c[i] = IF i <= Len(a) THEN a[i] ELSE b[i - Len(a)]
    BY <1>2, ConcatProperties
<1>5. DOMAIN c = 1..Len(a) + Len(b)
    BY <1>3, LenProperties
<1>6. ASSUME NEW i \in DOMAIN c PROVE c[i] \in ToSet(a) \cup ToSet(b)
    <2>1. i \in 1..Len(a) + Len(b)
        BY <1>5
    <2>2. CASE i <= Len(a)
        <3>1. i \in DOMAIN a /\ c[i] = a[i]
            BY <1>1, <1>4, <2>1, <2>2
        <3> QED BY <3>1 DEF ToSet
    <2>3. CASE ~(i <= Len(a))
        <3>1. i - Len(a) \in DOMAIN b /\ c[i] = b[i - Len(a)]
            BY <1>1, <1>4, <2>1, <2>3
        <3> QED BY <3>1 DEF ToSet
    <2> QED BY <2>2, <2>3
<1>7. ASSUME NEW i \in DOMAIN a PROVE a[i] \in ToSet(c)
    <2>1. i \in DOMAIN c /\ i \in 1..Len(a) + Len(b) /\ i <= Len(a)
        BY <1>1, <1>5
    <2>2. c[i] = a[i]
        BY <1>4, <2>1
    <2> QED BY <2>1, <2>2 DEF ToSet
<1>8. ASSUME NEW i \in DOMAIN b PROVE b[i] \in ToSet(c)
    <2>1. PICK k : k = i + Len(a)
        OBVIOUS
    <2>2. k \in DOMAIN c /\ k \in 1..Len(a) + Len(b) /\ ~(k <= Len(a)) /\ k - Len(a) = i
        BY <1>1, <1>5, <2>1
    <2>3. c[k] = b[i]
        BY <1>4, <2>2
    <2> QED BY <2>2, <2>3 DEF ToSet
<1>9. ToSet(c) = ToSet(a) \cup ToSet(b)
    <2>1. ToSet(c) \subseteq ToSet(a) \cup ToSet(b)
        BY <1>6 DEF ToSet
    <2>2. ToSet(a) \subseteq ToSet(c)
        BY <1>7 DEF ToSet
    <2>3. ToSet(b) \subseteq ToSet(c)
        BY <1>8 DEF ToSet
    <2> QED BY <2>1, <2>2, <2>3
<1> QED BY <1>2, <1>3, <1>9

\* FlattenSeq joins one sequence after the other.
LEMMA FlattenSteps ==
    ASSUME NEW S, NEW seqs \in Seq(Seq(S)), Len(seqs) # 0
    PROVE  \E flat : /\ flat[1] = seqs[1]
                     /\ \A i \in 1..Len(seqs) : i # 1 => flat[i] = flat[i - 1] \o seqs[i]
                     /\ flat[Len(seqs)] = FlattenSeq(seqs)
<1>0. /\ Len(seqs) \in Nat \ {0} /\ DOMAIN seqs = 1..Len(seqs)
      /\ \A i \in DOMAIN seqs : seqs[i] \in Seq(S)
    BY LenProperties, ElementOfSeq
<1> DEFINE n == Len(seqs)
           Step(f) == [i \in 1..n |-> IF i = 1 THEN seqs[i] ELSE f[i - 1] \o seqs[i]]
           flat == CHOOSE f : f = Step(f)
<1>1. FlattenSeq(seqs) = flat[n]
    BY DEF FlattenSeq
<1>2. n \in Nat /\ 1 \in 1..n
    BY <1>0
<1> HIDE DEF n
<1>3. \E f : f = Step(f)
    <2>1. PICK N : N = Seq(S)
        OBVIOUS
    <2>2. PICK step : step = [i \in 1..n |->
                                 [x \in N |-> IF i = 1 THEN seqs[i] ELSE x \o seqs[i]]]
        OBVIOUS
    <2>3. ASSUME NEW i \in 1..n PROVE step[i] \in [N -> N]
        <3>1. seqs[i] \in N
            BY <1>0, <2>1 DEF n
        <3>2. \A x \in N : x \o seqs[i] \in N
            BY <2>1, <3>1, ToSetConcat
        <3> QED BY <2>2, <3>1, <3>2
    <2>4. << >> \in N
        BY <2>1, EmptySeq
    <2>5. PICK f \in [0..n -> N] : Steps(f, n, << >>, step)
        BY <1>2, <2>3, <2>4, PrimitiveRecursion
    <2>6. ASSUME NEW i \in 1..n
          PROVE  f[i] = IF i = 1 THEN seqs[i] ELSE f[i - 1] \o seqs[i]
        <3>1. f[i - 1] \in N
            BY <1>2, <2>5
        <3>2. step[i] = [x \in N |-> IF i = 1 THEN seqs[i] ELSE x \o seqs[i]]
            BY <2>2
        <3>3. f[i] = step[i][f[i - 1]]
            BY <2>5 DEF Steps
        <3> QED BY <3>1, <3>2, <3>3
    <2>7. PICK g : g = [i \in 1..n |-> f[i]]
        OBVIOUS
    <2>8. ASSUME NEW i \in 1..n
          PROVE  g[i] = IF i = 1 THEN seqs[i] ELSE g[i - 1] \o seqs[i]
        <3>1. CASE i = 1
            BY <2>6, <2>7, <3>1
        <3>2. CASE i # 1
            <4>1. i - 1 \in 1..n
                BY <1>2, <3>2
            <4> QED BY <2>6, <2>7, <3>2, <4>1
        <3> QED BY <3>1, <3>2
    <2>9. g = Step(g)
        BY <2>7, <2>8
    <2> QED BY <2>9
<1>4. flat = Step(flat)
    BY <1>3
<1> HIDE DEF flat
<1>5. flat[1] = seqs[1]
    BY <1>2, <1>4
<1>6. \A i \in 1..n : i # 1 => flat[i] = flat[i - 1] \o seqs[i]
    BY <1>4
<1> QED BY <1>1, <1>5, <1>6 DEF n

\* A function that never falls from a number to the next never falls.
LEMMA Rising ==
    ASSUME NEW n \in Nat, NEW f \in [0..n -> Nat], \A i \in 1..n : f[i - 1] <= f[i],
           NEW i \in 0..n, NEW j \in 0..n, i <= j
    PROVE  f[i] <= f[j]
<1> DEFINE Good == {m \in Nat : i + m <= n => f[i] <= f[i + m]}
<1>1. 0 \in Good
    OBVIOUS
<1>2. ASSUME NEW m \in Nat, m \in Good PROVE m + 1 \in Good
    <2> SUFFICES ASSUME i + (m + 1) <= n PROVE f[i] <= f[i + (m + 1)]
        OBVIOUS
    <2>1. PICK k : k = i + (m + 1)
        OBVIOUS
    <2>2. k \in 1..n /\ k - 1 = i + m /\ k \in 0..n /\ k - 1 \in 0..n
        BY <2>1
    <2>3. f[i] <= f[k - 1] /\ f[k - 1] <= f[k]
        BY <1>2, <2>2
    <2> QED BY <2>1, <2>2, <2>3
<1>3. j - i \in Good
    <2> HIDE DEF Good
    <2>1. j - i \in Nat
        OBVIOUS
    <2> QED BY <1>1, <1>2, <2>1, SetInduction
<1>4. i + (j - i) = j /\ i + (j - i) <= n
    OBVIOUS
<1>5. i + (j - i) <= n => f[i] <= f[i + (j - i)]
    BY <1>3
<1> HIDE DEF Good
<1> QED BY <1>4, <1>5

\* off[i] is the length of the first i sequences together, which f begins with.
Ends(seqs, off) ==
    /\ off \in [0..Len(seqs) -> Nat] /\ off[0] = 0
    /\ \A i \in 1..Len(seqs) : off[i] = off[i - 1] + Len(seqs[i])
Begins(f, seqs, off, m) ==
    \A i \in 1..m : \A k \in 1..Len(seqs[i]) : f[off[i - 1] + k] = seqs[i][k]

\* The lengths can be added up.
LEMMA EndsExist ==
    ASSUME NEW S, NEW seqs \in Seq(Seq(S))
    PROVE  \E off : Ends(seqs, off)
<1>1. /\ Len(seqs) \in Nat /\ DOMAIN seqs = 1..Len(seqs)
      /\ \A i \in 1..Len(seqs) : Len(seqs[i]) \in Nat
    BY LenProperties, ElementOfSeq
<1>2. PICK n : n = Len(seqs)
    OBVIOUS
<1>3. PICK N : N = Nat
    OBVIOUS
<1>4. PICK step : step = [i \in 1..n |-> [x \in N |-> x + Len(seqs[i])]]
    OBVIOUS
<1>5. \A i \in 1..n : step[i] \in [N -> N]
    BY <1>1, <1>2, <1>3, <1>4
<1>6. PICK off \in [0..n -> N] : Steps(off, n, 0, step)
    <2>1. 0 \in N /\ n \in Nat
        BY <1>1, <1>2, <1>3
    <2> QED BY <1>5, <2>1, PrimitiveRecursion
<1>7. ASSUME NEW i \in 1..n PROVE off[i] = off[i - 1] + Len(seqs[i])
    <2>1. i - 1 \in 0..n
        BY <1>1, <1>2
    <2>2. off[i] = step[i][off[i - 1]]
        BY <1>6 DEF Steps
    <2>3. off[i - 1] \in N
        BY <1>6, <2>1
    <2> QED BY <1>4, <2>2, <2>3
<1>8. off[0] = 0
    BY <1>6 DEF Steps
<1> QED BY <1>2, <1>3, <1>6, <1>7, <1>8 DEF Ends

\* Where one sequence begins and ends.
LEMMA EndsFacts ==
    ASSUME NEW S, NEW seqs \in Seq(Seq(S)), NEW off, Ends(seqs, off), NEW i \in 1..Len(seqs)
    PROVE  /\ i - 1 \in 0..Len(seqs) /\ i \in 0..Len(seqs)
           /\ off[i - 1] \in Nat /\ off[i] \in Nat /\ Len(seqs[i]) \in Nat
           /\ off[i] = off[i - 1] + Len(seqs[i]) /\ off[i - 1] <= off[i]
<1>1. Len(seqs) \in Nat /\ seqs[i] \in Seq(S)
    BY LenProperties, ElementOfSeq
<1>2. Len(seqs[i]) \in Nat
    BY <1>1, LenProperties
<1>3. i - 1 \in 0..Len(seqs) /\ i \in 0..Len(seqs)
    BY <1>1
<1>4. off \in [0..Len(seqs) -> Nat] /\ off[i] = off[i - 1] + Len(seqs[i])
    BY DEF Ends
<1>5. off[i - 1] \in Nat /\ off[i] \in Nat
    BY <1>3, <1>4
<1> QED BY <1>2, <1>3, <1>4, <1>5

\* A later sequence ends no earlier.
LEMMA EndsRise ==
    ASSUME NEW S, NEW seqs \in Seq(Seq(S)), NEW off, Ends(seqs, off),
           NEW i \in 0..Len(seqs), NEW j \in 0..Len(seqs), i <= j
    PROVE  off[i] <= off[j]
<1>1. Len(seqs) \in Nat
    BY LenProperties
<1>2. off \in [0..Len(seqs) -> Nat]
    BY DEF Ends
<1>3. \A k \in 1..Len(seqs) : off[k - 1] <= off[k]
    BY EndsFacts
<1> QED BY <1>1, <1>2, <1>3, Rising

\* Every place of the joined sequence is in one of them.
LEMMA EndsCover ==
    ASSUME NEW S, NEW seqs \in Seq(Seq(S)), NEW off, Ends(seqs, off),
           NEW p \in 1..off[Len(seqs)]
    PROVE  \E i \in 1..Len(seqs) : p - off[i - 1] \in 1..Len(seqs[i])
<1>1. Len(seqs) \in Nat /\ \A k \in 1..Len(seqs) : Len(seqs[k]) \in Nat
    BY LenProperties, ElementOfSeq
<1>2. off \in [0..Len(seqs) -> Nat] /\ off[0] = 0
    BY DEF Ends
<1>0. p \in Nat /\ p # 0 /\ p <= off[Len(seqs)]
    <2>1. off[Len(seqs)] \in Nat
        BY <1>1, <1>2
    <2> QED BY <2>1
<1> DEFINE Good == {m \in Nat : m <= Len(seqs) /\ p <= off[m] =>
                        \E i \in 1..Len(seqs) : off[i - 1] < p /\ p <= off[i]}
<1>3. 0 \in Good
    BY <1>0, <1>2
<1>4. ASSUME NEW m \in Nat, m \in Good PROVE m + 1 \in Good
    <2> SUFFICES ASSUME m + 1 <= Len(seqs), p <= off[m + 1]
                 PROVE  \E i \in 1..Len(seqs) : off[i - 1] < p /\ p <= off[i]
        OBVIOUS
    <2>1. m \in 0..Len(seqs) /\ m + 1 \in 1..Len(seqs) /\ (m + 1) - 1 = m
        BY <1>1
    <2>2. off[m] \in Nat /\ p \in Nat
        BY <1>0, <1>2, <2>1
    <2>3. CASE p <= off[m]
        BY <1>1, <1>4, <2>1, <2>3
    <2>4. CASE off[m] < p
        <3>1. off[(m + 1) - 1] < p /\ p <= off[m + 1]
            BY <2>1, <2>4
        <3> QED BY <2>1, <3>1
    <2> QED BY <2>2, <2>3, <2>4
<1>5. Len(seqs) \in Good
    <2> HIDE DEF Good
    <2> QED BY <1>1, <1>3, <1>4, SetInduction
<1>6. PICK i \in 1..Len(seqs) : off[i - 1] < p /\ p <= off[i]
    <2> QED BY <1>0, <1>1, <1>5
<1>7. off[i - 1] \in Nat /\ off[i] = off[i - 1] + Len(seqs[i]) /\ p \in Nat
    BY <1>0, EndsFacts
<1>8. p - off[i - 1] \in 1..Len(seqs[i])
    <2>1. PICK n \in Nat : n = Len(seqs[i])
        BY <1>1
    <2>2. PICK x \in Nat : x = off[i - 1]
        BY <1>7
    <2>3. x < p /\ p <= x + n
        BY <1>6, <1>7, <2>1, <2>2
    <2>4. p - x \in 1..n
        BY <1>7, <2>3
    <2> QED BY <2>1, <2>2, <2>4
<1> QED BY <1>8

\* Where the entries of a sequence are once it is joined with others.
LEMMA FlattenAt ==
    ASSUME NEW S, NEW seqs \in Seq(Seq(S)), NEW off, Ends(seqs, off)
    PROVE  /\ FlattenSeq(seqs) \in Seq(S)
           /\ Len(FlattenSeq(seqs)) = off[Len(seqs)]
           /\ Begins(FlattenSeq(seqs), seqs, off, Len(seqs))
<1>1. /\ Len(seqs) \in Nat /\ DOMAIN seqs = 1..Len(seqs)
      /\ \A i \in 1..Len(seqs) : seqs[i] \in Seq(S) /\ Len(seqs[i]) \in Nat
    BY LenProperties, ElementOfSeq
<1>2. off \in [0..Len(seqs) -> Nat] /\ off[0] = 0
    BY DEF Ends
<1>3. CASE Len(seqs) = 0
    <2>1. seqs = << >>
        BY <1>1, <1>3, EmptySeq
    <2>2. FlattenSeq(seqs) = << >>
        BY <1>3, <2>1 DEF FlattenSeq
    <2>3. Begins(<< >>, seqs, off, Len(seqs))
        BY <1>3 DEF Begins
    <2> QED BY <1>2, <1>3, <2>2, <2>3, EmptySeq
<1>4. CASE Len(seqs) # 0
    <2>1. PICK flat : /\ flat[1] = seqs[1]
                      /\ \A i \in 1..Len(seqs) : i # 1 => flat[i] = flat[i - 1] \o seqs[i]
                      /\ flat[Len(seqs)] = FlattenSeq(seqs)
        BY <1>4, FlattenSteps
    <2> DEFINE Done(m) == /\ flat[m] \in Seq(S) /\ Len(flat[m]) = off[m]
                          /\ Begins(flat[m], seqs, off, m)
               Good == {m \in Nat : m + 1 <= Len(seqs) => Done(m + 1)}
    <2>2. 0 \in Good
        <3>1. 1 \in 1..Len(seqs) /\ off[1] = off[0] + Len(seqs[1])
            BY <1>1, <1>4 DEF Ends
        <3>2. flat[1] \in Seq(S) /\ Len(flat[1]) = off[1]
            BY <1>1, <1>2, <2>1, <3>1
        <3>3. Begins(flat[1], seqs, off, 1)
            BY <1>1, <1>2, <2>1, <3>1 DEF Begins
        <3> QED BY <3>2, <3>3
    <2>3. ASSUME NEW m \in Nat, m \in Good PROVE m + 1 \in Good
        <3> SUFFICES ASSUME m + 1 + 1 <= Len(seqs) PROVE Done(m + 1 + 1)
            OBVIOUS
        <3>1. PICK k : k = m + 1 + 1
            OBVIOUS
        <3>2. k \in 1..Len(seqs) /\ k - 1 \in 1..Len(seqs) /\ k # 1 /\ k - 1 = m + 1
            BY <1>1, <3>1
        <3>3. flat[k - 1] \in Seq(S) /\ Len(flat[k - 1]) = off[k - 1]
            BY <2>3, <3>2
        <3>4. Begins(flat[k - 1], seqs, off, k - 1)
            BY <2>3, <3>2
        <3> HIDE DEF Good
        <3>5. PICK a : a = flat[k - 1]
            OBVIOUS
        <3>6. PICK b : b = seqs[k]
            OBVIOUS
        <3>7. flat[k] = a \o b /\ a \in Seq(S) /\ b \in Seq(S)
            BY <1>1, <2>1, <3>2, <3>3, <3>5, <3>6
        <3>8. off[k] = off[k - 1] + Len(b) /\ Len(a) = off[k - 1]
            BY <3>2, <3>3, <3>5, <3>6 DEF Ends
        <3>9. /\ flat[k] \in Seq(S) /\ Len(flat[k]) = off[k]
              /\ \A j \in 1..Len(a) + Len(b) :
                    flat[k][j] = IF j <= Len(a) THEN a[j] ELSE b[j - Len(a)]
            <4>1. PICK c : c = a \o b
                OBVIOUS
            <4>2. c \in Seq(S) /\ Len(c) = Len(a) + Len(b)
                BY <3>7, <4>1, ConcatProperties
            <4>3. \A j \in 1..Len(a) + Len(b) :
                      c[j] = IF j <= Len(a) THEN a[j] ELSE b[j - Len(a)]
                BY <3>7, <4>1, ConcatProperties
            <4> QED BY <3>7, <3>8, <4>1, <4>2, <4>3
        <3>10. Len(a) \in Nat /\ Len(b) \in Nat
            BY <3>7, LenProperties
        <3>11. ASSUME NEW i \in 1..k, NEW j \in 1..Len(seqs[i])
               PROVE  flat[k][off[i - 1] + j] = seqs[i][j]
            <4>1. i \in 1..Len(seqs) /\ i - 1 \in 0..Len(seqs) /\ k - 1 \in 0..Len(seqs)
                BY <1>1, <3>2
            <4>2. PICK n \in Nat : n = Len(seqs[i])
                BY <4>1, EndsFacts
            <4>3. PICK x \in Nat : x = off[i - 1]
                BY <4>1, EndsFacts
            <4>4. off[i] = x + n /\ j \in Nat /\ j # 0 /\ j <= n
                BY <4>1, <4>2, <4>3, EndsFacts
            <4>5. PICK la \in Nat, lb \in Nat : la = Len(a) /\ lb = Len(b)
                BY <3>10
            <4>6. CASE i = k
                <5>1. la = x /\ n = lb
                    BY <3>6, <3>8, <4>2, <4>3, <4>5, <4>6
                <5>2. x + j \in 1..la + lb /\ ~(x + j <= la) /\ (x + j) - la = j
                    BY <4>4, <5>1
                <5> QED BY <3>6, <3>9, <4>3, <4>5, <4>6, <5>2
            <4>7. CASE i # k
                <5>1. i \in 1..k - 1 /\ i <= k - 1 /\ i \in 0..Len(seqs)
                    BY <1>1, <3>2, <4>1, <4>7
                <5>2. off[i] <= off[k - 1]
                    BY <4>1, <5>1, EndsRise
                <5>3. x + n <= la
                    BY <3>8, <4>4, <4>5, <5>2
                <5>4. x + j \in 1..la + lb /\ x + j <= la
                    BY <4>4, <5>3
                <5>5. a[x + j] = seqs[i][j]
                    BY <3>4, <3>5, <4>3, <5>1 DEF Begins
                <5> QED BY <3>9, <4>3, <4>5, <5>4, <5>5
            <4> QED BY <4>6, <4>7
        <3>12. Begins(flat[k], seqs, off, k)
            BY <3>11 DEF Begins
        <3> QED BY <3>1, <3>9, <3>12
    <2>4. Len(seqs) - 1 \in Good
        <3> HIDE DEF Good
        <3>1. Len(seqs) - 1 \in Nat
            BY <1>1, <1>4
        <3> QED BY <2>2, <2>3, <3>1, SetInduction
    <2>5. Done(Len(seqs))
        <3>1. (Len(seqs) - 1) + 1 = Len(seqs)
            BY <1>1
        <3>2. Done((Len(seqs) - 1) + 1)
            <4> HIDE DEF Done
            <4> QED BY <1>1, <2>4, <3>1
        <3> HIDE DEF Done
        <3> QED BY <3>1, <3>2
    <2> QED BY <2>1, <2>5
<1> QED BY <1>3, <1>4

\* The entries of all sequences joined, which FlattenSeq does one after the other.
LEMMA FlattenFacts ==
    ASSUME NEW S, NEW seqs \in Seq(Seq(S))
    PROVE  /\ FlattenSeq(seqs) \in Seq(S)
           /\ ToSet(FlattenSeq(seqs)) = UNION {ToSet(seqs[i]) : i \in DOMAIN seqs}
<1>1. /\ Len(seqs) \in Nat /\ DOMAIN seqs = 1..Len(seqs)
      /\ \A i \in 1..Len(seqs) : seqs[i] \in Seq(S)
    BY LenProperties, ElementOfSeq
<1>2. PICK off : Ends(seqs, off)
    BY EndsExist
<1>3. PICK F : F = FlattenSeq(seqs)
    OBVIOUS
<1>4. F \in Seq(S) /\ Len(F) = off[Len(seqs)] /\ Begins(F, seqs, off, Len(seqs))
    BY <1>2, <1>3, FlattenAt
<1>5. DOMAIN F = 1..Len(F) /\ Len(F) \in Nat
    BY <1>4, LenProperties
<1>6. ASSUME NEW p \in DOMAIN F PROVE \E i \in DOMAIN seqs : F[p] \in ToSet(seqs[i])
    <2>1. PICK i \in 1..Len(seqs) : p - off[i - 1] \in 1..Len(seqs[i])
        <3>1. p \in 1..off[Len(seqs)]
            BY <1>4, <1>5
        <3> QED BY <1>2, <3>1, EndsCover
    <2>2. PICK k \in 1..Len(seqs[i]) : p = off[i - 1] + k
        <3>1. off[i - 1] \in Nat /\ p \in Nat
            BY <1>2, <1>5, EndsFacts
        <3>2. p = off[i - 1] + (p - off[i - 1])
            BY <3>1
        <3> QED BY <2>1, <3>2
    <2>3. F[p] = seqs[i][k]
        BY <1>4, <2>2 DEF Begins
    <2>4. k \in DOMAIN seqs[i]
        BY <1>1, LenProperties
    <2> QED BY <1>1, <2>3, <2>4 DEF ToSet
<1>7. ASSUME NEW i \in DOMAIN seqs, NEW k \in DOMAIN seqs[i] PROVE seqs[i][k] \in ToSet(F)
    <2>1. i \in 1..Len(seqs) /\ k \in 1..Len(seqs[i]) /\ Len(seqs[i]) \in Nat
        BY <1>1, LenProperties
    <2>2. F[off[i - 1] + k] = seqs[i][k]
        BY <1>4, <2>1 DEF Begins
    <2>3. i - 1 \in 0..Len(seqs) /\ i \in 0..Len(seqs) /\ Len(seqs) \in 0..Len(seqs) /\ i <= Len(seqs)
        BY <1>1, <2>1
    <2>4. off[i - 1] \in Nat /\ off[i] = off[i - 1] + Len(seqs[i]) /\ off[i] <= off[Len(seqs)]
        <3>1. off[i] <= off[Len(seqs)]
            BY <1>2, <2>3, EndsRise
        <3> QED BY <1>2, <2>1, <2>3, <3>1 DEF Ends
    <2>5. off[i - 1] + k \in DOMAIN F
        <3>1. PICK x \in Nat, n \in Nat : x = off[i - 1] /\ n = Len(seqs[i])
            BY <2>1, <2>4
        <3>2. x + n <= Len(F) /\ k \in 1..n
            BY <1>4, <2>1, <2>4, <3>1
        <3>3. x + k \in 1..Len(F)
            BY <1>5, <3>2
        <3> QED BY <1>5, <3>1, <3>3
    <2> QED BY <2>2, <2>5 DEF ToSet
<1>8. ToSet(F) \subseteq UNION {ToSet(seqs[i]) : i \in DOMAIN seqs}
    BY <1>6 DEF ToSet
<1>9. ASSUME NEW i \in DOMAIN seqs PROVE ToSet(seqs[i]) \subseteq ToSet(F)
    <2>1. PICK T : T = ToSet(F)
        OBVIOUS
    <2>2. \A k \in DOMAIN seqs[i] : seqs[i][k] \in T
        BY <1>7, <2>1
    <2>3. ToSet(seqs[i]) \subseteq T
        BY <2>2 DEF ToSet
    <2> QED BY <2>1, <2>3
<1>10. UNION {ToSet(seqs[i]) : i \in DOMAIN seqs} \subseteq ToSet(F)
    BY <1>9
<1> QED BY <1>3, <1>4, <1>8, <1>10

-----------------------------------------------------------------------------
(* Positions *)

\* A rising function takes as many values as it has arguments.
LEMMA ImageCount ==
    ASSUME NEW n \in Nat, NEW f, NEW S, S = {f[i] : i \in 1..n},
           \A i, j \in 1..n : f[i] = f[j] => i = j
    PROVE  IsFiniteSet(S) /\ Cardinality(S) = n
<1> DEFINE g == [i \in 1..n |-> f[i]]
<1>1. g \in [1..n -> S] /\ \A i \in 1..n : g[i] = f[i]
    OBVIOUS
<1>2. \A y \in S : \E i \in 1..n : g[i] = y
    OBVIOUS
<1> HIDE DEF g
<1>3. g \in Surjection(1..n, S)
    BY <1>1, <1>2 DEF Surjection
<1>4. g \in Injection(1..n, S)
    BY <1>1 DEF Injection, IsInjective
<1>5. ExistsBijection(1..n, S)
    BY <1>3, <1>4 DEF Bijection, ExistsBijection
<1> QED BY <1>5, UpTo, FS_Bijection

\* A function that rises from each number to the next rises.
LEMMA Climbing ==
    ASSUME NEW n \in Nat, NEW f \in [0..n -> Nat], \A i \in 1..n : f[i - 1] < f[i],
           NEW i \in 0..n, NEW j \in 0..n, i < j
    PROVE  f[i] < f[j]
<1>1. i + 1 \in 1..n /\ (i + 1) - 1 = i /\ i + 1 \in 0..n /\ i + 1 <= j
    OBVIOUS
<1>2. f[i] < f[i + 1]
    BY <1>1
<1>3. \A k \in 1..n : f[k - 1] <= f[k]
    <2> SUFFICES ASSUME NEW k \in 1..n PROVE f[k - 1] <= f[k]
        OBVIOUS
    <2>1. k - 1 \in 0..n /\ k \in 0..n
        OBVIOUS
    <2>2. f[k - 1] \in Nat /\ f[k] \in Nat /\ f[k - 1] < f[k]
        BY <2>1
    <2> QED BY <2>2
<1>4. f[i + 1] <= f[j]
    BY <1>1, <1>3, Rising
<1>5. f[i] \in Nat /\ f[i + 1] \in Nat /\ f[j] \in Nat
    BY <1>1
<1> QED BY <1>2, <1>4, <1>5

\* m values of a rising function come before f[m].
LEMMA RankOf ==
    ASSUME NEW n \in Nat, NEW f \in [0..n -> Nat], \A i \in 1..n : f[i - 1] < f[i],
           NEW S, S = {f[i] : i \in 0..n}, NEW m \in 0..n
    PROVE  Cardinality({q \in S : q < f[m]}) = m
<1>1. \A i, j \in 0..n : i < j => f[i] < f[j]
    BY Climbing
<1>2. \A i \in 0..n : f[i] \in Nat
    OBVIOUS
<1>3. PICK g : g = [i \in 1..m |-> f[i - 1]]
    OBVIOUS
<1>4. \A i \in 1..m : i - 1 \in 0..n /\ g[i] = f[i - 1]
    BY <1>3
<1>5. PICK B : B = {q \in S : q < f[m]}
    OBVIOUS
<1>6. B = {g[i] : i \in 1..m}
    <2>1. ASSUME NEW q \in B PROVE q \in {g[i] : i \in 1..m}
        <3>1. PICK i \in 0..n : q = f[i]
            BY <1>5
        <3>2. f[i] < f[m]
            BY <1>5, <3>1
        <3>3. ~(m < i) /\ i # m
            BY <1>1, <1>2, <3>2
        <3>4. i + 1 \in 1..m /\ (i + 1) - 1 = i
            BY <3>3
        <3>5. g[i + 1] = q
            BY <1>4, <3>1, <3>4
        <3> QED BY <3>4, <3>5
    <2>2. ASSUME NEW i \in 1..m PROVE g[i] \in B
        <3>1. i - 1 \in 0..n /\ i - 1 < m
            OBVIOUS
        <3>2. g[i] = f[i - 1] /\ f[i - 1] < f[m]
            BY <1>1, <1>4, <3>1
        <3> QED BY <1>5, <3>1, <3>2
    <2> QED BY <2>1, <2>2
<1>7. ASSUME NEW i \in 1..m, NEW j \in 1..m, g[i] = g[j] PROVE i = j
    <2>1. i - 1 \in 0..n /\ j - 1 \in 0..n /\ f[i - 1] = f[j - 1]
        BY <1>4, <1>7
    <2>2. ~(i - 1 < j - 1) /\ ~(j - 1 < i - 1)
        BY <1>1, <1>2, <2>1
    <2> QED BY <2>2
<1>8. \A i, j \in 1..m : g[i] = g[j] => i = j
    BY <1>7
<1>9. m \in Nat
    OBVIOUS
<1>10. Cardinality(B) = m
    BY <1>6, <1>8, <1>9, ImageCount
<1> QED BY <1>5, <1>10

\* Picked by the values of a rising function.
LEMMA PickedIs ==
    ASSUME NEW m \in Nat, NEW f \in [0..m -> Nat], f[0] = 0, \A i \in 1..m : f[i - 1] < f[i],
           NEW s, NEW I, I = {f[i] : i \in 1..m}, NEW t, t = [i \in 1..m |-> s[f[i]]]
    PROVE  Picked(s, I) = t
<1>1. \A i, j \in 0..m : i < j => f[i] < f[j]
    BY Climbing
<1>2. \A i \in 0..m : f[i] \in Nat
    OBVIOUS
<1>3. \A i \in 1..m : i \in 0..m
    OBVIOUS
<1>4. ASSUME NEW i \in 1..m, NEW j \in 1..m, f[i] = f[j] PROVE i = j
    <2>1. ~(i < j) /\ ~(j < i)
        BY <1>1, <1>2, <1>3, <1>4
    <2> QED BY <2>1
<1>5. Cardinality(I) = m
    BY <1>4, ImageCount
<1>6. ASSUME NEW k \in 1..m PROVE Cardinality({j \in I : j <= f[k]}) = k
    <2>1. PICK B : B = {j \in I : j <= f[k]}
        OBVIOUS
    <2>2. B = {f[i] : i \in 1..k}
        <3>1. ASSUME NEW q \in B PROVE q \in {f[i] : i \in 1..k}
            <4>1. PICK i \in 1..m : q = f[i]
                BY <2>1
            <4>2. f[i] <= f[k]
                BY <2>1, <4>1
            <4>3. ~(k < i)
                BY <1>1, <1>2, <1>3, <4>2
            <4> QED BY <4>1, <4>3
        <3>2. ASSUME NEW i \in 1..k PROVE f[i] \in B
            <4>1. i \in 1..m /\ (i = k \/ i < k)
                OBVIOUS
            <4>2. f[i] <= f[k]
                BY <1>1, <1>2, <1>3, <4>1
            <4> QED BY <2>1, <4>1, <4>2
        <3> QED BY <3>1, <3>2
    <2>3. \A i, j \in 1..k : f[i] = f[j] => i = j
        <3>1. \A i \in 1..k : i \in 1..m
            OBVIOUS
        <3> QED BY <1>4, <3>1
    <2>4. k \in Nat
        OBVIOUS
    <2>5. Cardinality(B) = k
        BY <2>2, <2>3, <2>4, ImageCount
    <2> QED BY <2>1, <2>5
<1> DEFINE h == [k \in 1..Cardinality(I) |-> CHOOSE i \in I : Cardinality({j \in I : j <= i}) = k]
<1>7. ASSUME NEW k \in 1..m PROVE h[k] = f[k]
    <2>0. k \in 1..Cardinality(I)
        BY <1>5
    <2>1. f[k] \in I /\ Cardinality({j \in I : j <= f[k]}) = k
        BY <1>6
    <2>2. \E i \in I : Cardinality({j \in I : j <= i}) = k
        BY <2>1
    <2>3. h[k] \in I /\ Cardinality({j \in I : j <= h[k]}) = k
        BY <2>0, <2>2
    <2> HIDE DEF h
    <2>4. PICK i \in 1..m : h[k] = f[i]
        BY <2>3
    <2>5. i = k
        BY <1>6, <2>3, <2>4
    <2> QED BY <2>4, <2>5
<1>8. Picked(s, I) = [n \in 1..Cardinality(I) |-> s[h[n]]]
    BY DEF Picked
<1> HIDE DEF h
<1> QED BY <1>5, <1>7, <1>8

-----------------------------------------------------------------------------
(* Joining and splitting *)

\* A sequence with one entry put before it.
LEMMA Prepended ==
    ASSUME NEW S, NEW c \in S, NEW x \in Seq(S), NEW w, w = <<c>> \o x
    PROVE  /\ w \in Seq(S) /\ Len(w) = Len(x) + 1 /\ w[1] = c
           /\ \A k \in 1..Len(x) : w[k + 1] = x[k]
<1>1. PICK a : a = <<c>>
    OBVIOUS
<1>2. a \in Seq(S) /\ Len(a) = 1 /\ a[1] = c
    BY <1>1
<1>3. Len(x) \in Nat
    BY LenProperties
<1>4. w \in Seq(S) /\ Len(w) = 1 + Len(x)
    BY <1>1, <1>2, ConcatProperties
<1>5. \A i \in 1..Len(a) + Len(x) : w[i] = IF i <= Len(a) THEN a[i] ELSE x[i - Len(a)]
    BY <1>1, <1>2, ConcatProperties
<1>6. w[1] = c
    BY <1>2, <1>3, <1>5
<1>7. ASSUME NEW k \in 1..Len(x) PROVE w[k + 1] = x[k]
    <2>1. k + 1 \in 1..Len(a) + Len(x) /\ ~(k + 1 <= Len(a)) /\ (k + 1) - Len(a) = k
        BY <1>2, <1>3
    <2> QED BY <1>5, <2>1
<1> QED BY <1>3, <1>4, <1>6, <1>7

\* The strings are the parts of joined between the places e, where there are commas.
Cuts(joined, strings, e) ==
    /\ e \in [0..Len(strings) -> Nat] /\ e[0] = 0 /\ e[Len(strings)] = Len(joined) + 1
    /\ \A i \in 1..Len(strings) : e[i] = e[i - 1] + Len(strings[i]) + 1
    /\ \A i \in 1..Len(strings) : \A k \in 1..Len(strings[i]) : joined[e[i - 1] + k] = strings[i][k]
    /\ \A i \in 1..Len(strings) - 1 : joined[e[i]] = Comma

\* Where the strings are once they are joined by commas.
LEMMA JoinedAt ==
    ASSUME NEW S, Comma \in S, NEW strings \in Seq(Seq(S)), Len(strings) # 0
    PROVE  Joined(strings) \in Seq(S) /\ \E e : Cuts(Joined(strings), strings, e)
<1> DEFINE n == Len(strings)
           J == Joined(strings)
<1>1. /\ n \in Nat \ {0} /\ DOMAIN strings = 1..n
      /\ \A i \in 1..n : strings[i] \in Seq(S) /\ Len(strings[i]) \in Nat
    BY LenProperties, ElementOfSeq
<1>2. PICK blocks : blocks = [i \in 1..n |-> IF i = 1 THEN strings[i] ELSE <<Comma>> \o strings[i]]
    OBVIOUS
<1>3. J = FlattenSeq(blocks)
    BY <1>1, <1>2 DEF Joined
<1> HIDE DEF n, J
<1>4. ASSUME NEW i \in 1..n, i # 1
      PROVE  /\ blocks[i] \in Seq(S) /\ Len(blocks[i]) = Len(strings[i]) + 1
             /\ blocks[i][1] = Comma
             /\ \A k \in 1..Len(strings[i]) : blocks[i][k + 1] = strings[i][k]
    <2>1. blocks[i] = <<Comma>> \o strings[i] /\ strings[i] \in Seq(S)
        BY <1>1, <1>2, <1>4
    <2> QED BY <2>1, Prepended
<1>5. 1 \in 1..n /\ blocks[1] = strings[1] /\ blocks[1] \in Seq(S)
    BY <1>1, <1>2
<1>6. blocks \in Seq(Seq(S)) /\ Len(blocks) = n
    <2>1. \A i \in 1..n : blocks[i] \in Seq(S)
        BY <1>4, <1>5
    <2>2. PICK N : N = Seq(S)
        OBVIOUS
    <2>3. blocks \in [1..n -> N]
        BY <1>2, <2>1, <2>2
    <2>4. blocks \in Seq(N) /\ Len(blocks) = n
        BY <1>1, <2>3
    <2> QED BY <2>2, <2>4
<1>7. PICK off : Ends(blocks, off)
    BY <1>6, EndsExist
<1>8. J \in Seq(S) /\ Len(J) = off[n] /\ Begins(J, blocks, off, n)
    BY <1>3, <1>6, <1>7, FlattenAt
<1>9. \A i \in 1..n : /\ i - 1 \in 0..n /\ i \in 0..n /\ off[i - 1] \in Nat /\ off[i] \in Nat
                      /\ off[i] = off[i - 1] + Len(blocks[i])
    BY <1>6, <1>7, EndsFacts
<1>10. PICK e : e = [i \in 0..n |-> IF i = 0 THEN 0 ELSE off[i] + 1]
    OBVIOUS
<1>11. \A i \in 1..n : e[i] = off[i] + 1
    BY <1>1, <1>9, <1>10
<1>12. e[0] = 0 /\ e[n] = Len(J) + 1 /\ off[0] = 0
    BY <1>1, <1>6, <1>7, <1>8, <1>10, <1>11 DEF Ends
<1>13. e \in [0..n -> Nat]
    <2>1. ASSUME NEW i \in 0..n PROVE e[i] \in Nat
        <3>1. CASE i = 0
            BY <1>12, <3>1
        <3>2. CASE i # 0
            <4>1. i \in 1..n
                BY <1>1, <3>2
            <4>2. off[i] \in Nat /\ e[i] = off[i] + 1
                BY <1>9, <1>11, <4>1
            <4> QED BY <4>2
        <3> QED BY <3>1, <3>2
    <2> QED BY <1>10, <2>1
<1>14. ASSUME NEW i \in 1..n
       PROVE  /\ e[i] = e[i - 1] + Len(strings[i]) + 1
              /\ \A k \in 1..Len(strings[i]) : J[e[i - 1] + k] = strings[i][k]
    <2>1. Len(strings[i]) \in Nat
        BY <1>1
    <2>2. \A k \in 1..Len(blocks[i]) : J[off[i - 1] + k] = blocks[i][k]
        BY <1>8 DEF Begins
    <2>3. CASE i = 1
        <3>1. /\ blocks[i] = strings[i] /\ e[i - 1] = 0 /\ off[i - 1] = 0
              /\ off[i] = off[i - 1] + Len(blocks[i]) /\ e[i] = off[i] + 1
            <4>1. i - 1 = 0
                BY <2>3
            <4>2. e[i - 1] = 0 /\ off[i - 1] = 0
                BY <1>12, <4>1
            <4>3. off[i] = off[i - 1] + Len(blocks[i])
                BY <1>9
            <4>4. e[i] = off[i] + 1
                BY <1>11
            <4> QED BY <1>5, <2>3, <4>2, <4>3, <4>4
        <3>2. e[i] = e[i - 1] + Len(strings[i]) + 1
            BY <2>1, <3>1
        <3> QED BY <2>2, <3>1, <3>2
    <2>4. CASE i # 1
        <3>1. i - 1 \in 1..n /\ Len(blocks[i]) = Len(strings[i]) + 1
            BY <1>1, <1>4, <2>4
        <3>2. e[i - 1] = off[i - 1] + 1 /\ e[i] = off[i] + 1
            BY <1>11, <3>1
        <3>3. off[i - 1] \in Nat /\ off[i] = off[i - 1] + Len(blocks[i])
            BY <1>9
        <3>4. PICK x \in Nat : x = off[i - 1]
            BY <3>3
        <3>5. e[i] = e[i - 1] + Len(strings[i]) + 1
            <4>1. PICK y \in Nat : y = Len(strings[i])
                BY <2>1
            <4>2. off[i] = x + (y + 1)
                BY <3>1, <3>3, <3>4, <4>1
            <4>3. e[i] = x + (y + 1) + 1 /\ e[i - 1] = x + 1
                BY <3>2, <3>4, <4>2
            <4>4. e[i] = e[i - 1] + y + 1
                BY <4>3
            <4> QED BY <4>1, <4>4
        <3>6. ASSUME NEW k \in 1..Len(strings[i]) PROVE J[e[i - 1] + k] = strings[i][k]
            <4>1. k \in Nat /\ k # 0 /\ k <= Len(strings[i])
                BY <2>1
            <4>2. k + 1 \in 1..Len(blocks[i])
                BY <2>1, <3>1, <4>1
            <4>3. off[i - 1] + (k + 1) = e[i - 1] + k
                <5>1. x + (k + 1) = (x + 1) + k
                    BY <4>1
                <5> QED BY <3>2, <3>4, <5>1
            <4>4. J[off[i - 1] + (k + 1)] = blocks[i][k + 1]
                BY <2>2, <4>2
            <4>5. blocks[i][k + 1] = strings[i][k]
                BY <1>4, <2>4
            <4> QED BY <4>3, <4>4, <4>5
        <3> QED BY <3>5, <3>6
    <2> QED BY <2>3, <2>4
<1>15. ASSUME NEW i \in 1..n - 1 PROVE J[e[i]] = Comma
    <2>1. PICK k : k = i + 1
        OBVIOUS
    <2>2. k \in 1..n /\ k # 1 /\ k - 1 = i /\ i \in 1..n
        BY <1>1, <2>1
    <2>3. Len(blocks[k]) = Len(strings[k]) + 1 /\ blocks[k][1] = Comma /\ Len(strings[k]) \in Nat
        BY <1>1, <1>4, <2>2
    <2>4. 1 \in 1..Len(blocks[k])
        BY <2>3
    <2>5. J[off[k - 1] + 1] = Comma
        BY <1>8, <2>2, <2>3, <2>4 DEF Begins
    <2> QED BY <1>11, <2>2, <2>5
<1>16. Cuts(J, strings, e)
    BY <1>12, <1>13, <1>14, <1>15 DEF Cuts, n
<1> QED BY <1>8, <1>16 DEF J

\* Where one string begins and ends.
LEMMA CutsFacts ==
    ASSUME NEW S, NEW strings \in Seq(Seq(S)), NEW joined, NEW e, Cuts(joined, strings, e),
           NEW i \in 1..Len(strings)
    PROVE  /\ i - 1 \in 0..Len(strings) /\ i \in 0..Len(strings)
           /\ e[i - 1] \in Nat /\ e[i] \in Nat /\ Len(strings[i]) \in Nat
           /\ e[i] = e[i - 1] + Len(strings[i]) + 1 /\ e[i - 1] < e[i]
<1>1. Len(strings) \in Nat /\ strings[i] \in Seq(S)
    BY LenProperties, ElementOfSeq
<1>2. PICK n \in Nat : n = Len(strings[i])
    BY <1>1, LenProperties
<1>3. i - 1 \in 0..Len(strings) /\ i \in 0..Len(strings)
    BY <1>1
<1>4. e \in [0..Len(strings) -> Nat] /\ e[i] = e[i - 1] + n + 1
    BY <1>2 DEF Cuts
<1>5. e[i - 1] \in Nat /\ e[i] \in Nat
    BY <1>3, <1>4
<1>6. e[i - 1] < e[i]
    BY <1>4, <1>5
<1> QED BY <1>2, <1>3, <1>4, <1>5, <1>6

\* Every place is one where a comma joins two strings, or is in one of them.
LEMMA CutsCover ==
    ASSUME NEW S, NEW strings \in Seq(Seq(S)), NEW joined \in Seq(S), NEW e,
           Cuts(joined, strings, e), Len(strings) # 0, NEW p \in 1..Len(joined)
    PROVE  \/ \E i \in 1..Len(strings) - 1 : p = e[i]
           \/ \E i \in 1..Len(strings) : p - e[i - 1] \in 1..Len(strings[i])
<1>1. Len(strings) \in Nat /\ Len(joined) \in Nat
    BY LenProperties
<1>2. e \in [0..Len(strings) -> Nat] /\ e[0] = 0 /\ e[Len(strings)] = Len(joined) + 1
    BY DEF Cuts
<1>3. p \in Nat
    BY <1>1
<1> DEFINE Good == {m \in Nat : m <= Len(strings) /\ p < e[m] =>
                        \E i \in 1..Len(strings) : e[i - 1] <= p /\ p < e[i]}
<1>4. 0 \in Good
    BY <1>1, <1>2
<1>5. ASSUME NEW m \in Nat, m \in Good PROVE m + 1 \in Good
    <2> SUFFICES ASSUME m + 1 <= Len(strings), p < e[m + 1]
                 PROVE  \E i \in 1..Len(strings) : e[i - 1] <= p /\ p < e[i]
        OBVIOUS
    <2>1. m \in 0..Len(strings) /\ m + 1 \in 1..Len(strings) /\ (m + 1) - 1 = m
        BY <1>1
    <2>2. e[m] \in Nat
        BY <1>2, <2>1
    <2>3. CASE p < e[m]
        BY <1>1, <1>5, <2>1, <2>3
    <2>4. CASE e[m] <= p
        <3>1. e[(m + 1) - 1] <= p /\ p < e[m + 1]
            BY <2>1, <2>4
        <3> QED BY <2>1, <3>1
    <2> QED BY <1>3, <2>2, <2>3, <2>4
<1>6. Len(strings) \in Good
    <2> HIDE DEF Good
    <2> QED BY <1>1, <1>4, <1>5, SetInduction
<1>7. PICK i \in 1..Len(strings) : e[i - 1] <= p /\ p < e[i]
    BY <1>1, <1>2, <1>6
<1>8. PICK n \in Nat : n = Len(strings[i])
    BY CutsFacts
<1>9. i - 1 \in 0..Len(strings) /\ e[i - 1] \in Nat /\ e[i] = e[i - 1] + n + 1
    BY <1>8, CutsFacts
<1>10. CASE e[i - 1] = p
    <2>1. i # 1
        BY <1>2, <1>10
    <2>2. i - 1 \in 1..Len(strings) - 1
        BY <1>1, <2>1
    <2> QED BY <1>10, <2>2
<1>11. CASE e[i - 1] # p
    <2>1. PICK x \in Nat : x = e[i - 1]
        BY <1>9
    <2>2. x < p /\ p < x + n + 1
        BY <1>3, <1>7, <1>9, <1>11, <2>1
    <2>3. p - x \in 1..n
        BY <1>3, <2>2
    <2> QED BY <1>8, <2>1, <2>3
<1> QED BY <1>10, <1>11

\* Split at the commas that joined the strings, it is these strings again.
LEMMA SplitAt ==
    ASSUME NEW S, NEW strings \in Seq(Seq(S)), NEW joined \in Seq(S), NEW e,
           Cuts(joined, strings, e), Len(strings) # 0,
           NEW P, P = {e[i] : i \in 1..Len(strings) - 1}
    PROVE  Split(joined, P) = strings
<1>1. PICK n \in Nat \ {0} : n = Len(strings)
    BY LenProperties
<1>2. DOMAIN strings = 1..n /\ \A i \in 1..n : strings[i] \in Seq(S)
    BY <1>1, LenProperties, ElementOfSeq
<1>3. Len(joined) \in Nat
    BY LenProperties
<1>4. e \in [0..n -> Nat] /\ e[0] = 0 /\ e[n] = Len(joined) + 1
    BY <1>1 DEF Cuts
<1>5. \A i \in 1..n : e[i - 1] < e[i]
    BY <1>1, CutsFacts
<1>6. \A i, j \in 0..n : i < j => e[i] < e[j]
    BY <1>4, <1>5, Climbing
<1>7. \A i \in 0..n : e[i] \in Nat
    BY <1>4
<1> DEFINE places == P \cup {0, Len(joined) + 1}
           h(m) == CHOOSE p \in places : Cardinality({q \in places : q < p}) = m
<1>8. places = {e[i] : i \in 0..n}
    <2>1. \A i \in 0..n : i = 0 \/ i = n \/ i \in 1..n - 1
        OBVIOUS
    <2>2. 0 \in 0..n /\ n \in 0..n /\ \A i \in 1..n - 1 : i \in 0..n
        OBVIOUS
    <2>3. P = {e[i] : i \in 1..n - 1}
        BY <1>1
    <2> QED BY <1>4, <2>1, <2>2, <2>3
<1>9. ASSUME NEW m \in 0..n PROVE h(m) = e[m]
    <2>0. PICK Q : Q = places
        OBVIOUS
    <2>1. ASSUME NEW i \in 0..n PROVE Cardinality({q \in Q : q < e[i]}) = i
        <3>1. Q = {e[j] : j \in 0..n}
            BY <1>8, <2>0
        <3>2. n \in Nat
            OBVIOUS
        <3> QED BY <1>4, <1>5, <3>1, <3>2, RankOf
    <2>2. e[m] \in Q /\ Cardinality({q \in Q : q < e[m]}) = m
        BY <1>8, <2>0, <2>1
    <2>3. \E p \in places : Cardinality({q \in places : q < p}) = m
        BY <2>0, <2>2
    <2>4. h(m) \in places /\ Cardinality({q \in places : q < h(m)}) = m
        BY <2>3
    <2> HIDE DEF h, places
    <2>5. PICK i \in 0..n : h(m) = e[i]
        BY <1>8, <2>4
    <2>6. i = m
        BY <2>0, <2>1, <2>4, <2>5
    <2> QED BY <2>5, <2>6
<1>10. Cardinality(P) = n - 1
    <2>1. P = {e[i] : i \in 1..n - 1} /\ n - 1 \in Nat
        BY <1>1
    <2>2. ASSUME NEW i \in 1..n - 1, NEW j \in 1..n - 1, e[i] = e[j] PROVE i = j
        <3>1. i \in 0..n /\ j \in 0..n
            OBVIOUS
        <3>2. ~(i < j) /\ ~(j < i)
            BY <1>6, <1>7, <2>2, <3>1
        <3> QED BY <3>2
    <2> QED BY <2>1, <2>2, ImageCount
<1>11. Split(joined, P) = [i \in 1..Cardinality(P) + 1 |-> SubSeq(joined, h(i - 1) + 1, h(i) - 1)]
    BY DEF Split
<1> HIDE DEF h, places
<1>12. ASSUME NEW i \in 1..n PROVE SubSeq(joined, h(i - 1) + 1, h(i) - 1) = strings[i]
    <2>1. PICK k \in Nat : k = Len(strings[i])
        BY <1>1, CutsFacts
    <2>2. PICK x \in Nat : x = e[i - 1]
        BY <1>1, CutsFacts
    <2>3. e[i] = x + k + 1 /\ i - 1 \in 0..n /\ i \in 0..n
        BY <1>1, <2>1, <2>2, CutsFacts
    <2>4. h(i - 1) = x /\ h(i) = x + k + 1
        BY <1>9, <2>2, <2>3
    <2>5. \A j \in 1..k : joined[x + j] = strings[i][j] /\ strings[i][j] \in S
        BY <1>1, <1>2, <2>1, <2>2, ElementOfSeq DEF Cuts
    <2>6. PICK c : c = SubSeq(joined, x + 1, x + k)
        OBVIOUS
    <2>7. ASSUME NEW j \in x + 1..x + k PROVE joined[j] \in S
        <3>1. j - x \in 1..k /\ x + (j - x) = j
            OBVIOUS
        <3> QED BY <2>5, <3>1
    <2>8. /\ c \in Seq(S) /\ Len(c) = IF x + 1 <= x + k THEN (x + k) - (x + 1) + 1 ELSE 0
          /\ \A j \in 1..(x + k) - (x + 1) + 1 : c[j] = joined[(x + 1) + j - 1]
        BY <2>6, <2>7, SubSeqProperties
    <2>9. Len(c) = k
        BY <2>8
    <2>10. \A j \in 1..k : c[j] = strings[i][j]
        <3>1. \A j \in 1..k : j \in 1..(x + k) - (x + 1) + 1 /\ (x + 1) + j - 1 = x + j
            OBVIOUS
        <3> QED BY <2>5, <2>8, <3>1
    <2>11. c = strings[i]
        BY <1>2, <2>1, <2>8, <2>9, <2>10, SeqEqual
    <2>12. (x + k + 1) - 1 = x + k
        OBVIOUS
    <2> QED BY <2>4, <2>6, <2>11, <2>12
<1>13. strings = [i \in 1..n |-> strings[i]]
    <2>1. strings \in [1..n -> Seq(S)]
        BY <1>1, LenProperties
    <2> QED BY <2>1
<1>14. 1..Cardinality(P) + 1 = 1..n
    BY <1>10
<1> QED BY <1>11, <1>12, <1>13, <1>14

-----------------------------------------------------------------------------
(* Parts *)

\* The characters with a meaning are different.
LEMMA Characters ==
    /\ Quote # Backslash /\ Quote # Comma /\ Quote # "[" /\ Quote # "]"
    /\ Backslash # Comma /\ Backslash # "[" /\ Backslash # "]"
    /\ Comma # "[" /\ Comma # "]" /\ "[" # "]"
BY Zenon DEF Quote, Backslash, Comma

\* What is between the first and the last character.
LEMMA InnerOf ==
    ASSUME NEW S, NEW x \in Seq(S), NEW w \in Seq(S), Len(w) = Len(x) + 2,
           \A k \in 1..Len(x) : w[k + 1] = x[k]
    PROVE  Inner(w) = x
<1>1. PICK n \in Nat : n = Len(x)
    BY LenProperties
<1>2. PICK l \in Int, r \in Int : l = 2 /\ r = n + 1
    OBVIOUS
<1>3. PICK z : z = SubSeq(w, l, r)
    OBVIOUS
<1>4. \A i \in l..r : w[i] \in S
    <2>1. \A i \in 1..n + 2 : w[i] \in S
        BY <1>1, ElementOfSeq
    <2> QED BY <1>2, <2>1
<1>5. /\ z \in Seq(S) /\ Len(z) = IF l <= r THEN r - l + 1 ELSE 0
      /\ \A i \in 1..r - l + 1 : z[i] = w[l + i - 1]
    BY <1>3, <1>4, SubSeqProperties
<1>6. Len(z) = n
    BY <1>2, <1>5
<1>7. \A i \in 1..n : z[i] = x[i]
    <2>1. \A i \in 1..n : i \in 1..r - l + 1 /\ l + i - 1 = i + 1
        BY <1>2
    <2> QED BY <1>1, <1>5, <2>1
<1>8. z = x
    BY <1>1, <1>5, <1>6, <1>7, SeqEqual
<1>9. Len(w) - 1 = r
    BY <1>1, <1>2
<1> QED BY <1>2, <1>3, <1>8, <1>9 DEF Inner

\* A string between two characters.
Wrap(c, x, d) == <<c>> \o x \o <<d>>
Between(w, c, x, d) ==
    /\ Len(w) = Len(x) + 2 /\ w[1] = c /\ w[Len(x) + 2] = d
    /\ \A k \in 1..Len(x) : w[k + 1] = x[k]
    /\ Head(w) = c /\ Last(w) = d /\ Inner(w) = x

\* The characters around a string can be told from it.
LEMMA Wrapped ==
    ASSUME NEW S, NEW c \in S, NEW d \in S, NEW x \in Seq(S)
    PROVE  Wrap(c, x, d) \in Seq(S) /\ Between(Wrap(c, x, d), c, x, d)
<1>0. PICK w : w = Wrap(c, x, d)
    OBVIOUS
<1>1. PICK a : a = <<c>> \o x
    OBVIOUS
<1>2. PICK b : b = <<d>>
    OBVIOUS
<1>3. b \in Seq(S) /\ Len(b) = 1 /\ b[1] = d
    BY <1>2
<1>4. /\ a \in Seq(S) /\ Len(a) = Len(x) + 1 /\ a[1] = c
      /\ \A k \in 1..Len(x) : a[k + 1] = x[k]
    BY <1>1, Prepended
<1>5. PICK n \in Nat : n = Len(x)
    BY LenProperties
<1>6. w = a \o b
    BY <1>0, <1>1, <1>2 DEF Wrap
<1>7. w \in Seq(S) /\ Len(w) = Len(a) + Len(b)
    BY <1>3, <1>4, <1>6, ConcatProperties
<1>8. \A i \in 1..Len(a) + Len(b) : w[i] = IF i <= Len(a) THEN a[i] ELSE b[i - Len(a)]
    BY <1>3, <1>4, <1>6, ConcatProperties
<1>9. Len(a) = n + 1 /\ Len(b) = 1
    BY <1>3, <1>4, <1>5
<1>10. Len(w) = n + 2
    BY <1>7, <1>9
<1>11. w[1] = c
    <2>1. 1 \in 1..Len(a) + Len(b) /\ 1 <= Len(a)
        BY <1>9
    <2> QED BY <1>4, <1>8, <2>1
<1>12. w[n + 2] = d
    <2>1. n + 2 \in 1..Len(a) + Len(b) /\ ~(n + 2 <= Len(a)) /\ (n + 2) - Len(a) = 1
        BY <1>9
    <2> QED BY <1>3, <1>8, <2>1
<1>13. \A k \in 1..n : w[k + 1] = x[k]
    <2> SUFFICES ASSUME NEW k \in 1..n PROVE w[k + 1] = x[k]
        OBVIOUS
    <2>1. k + 1 \in 1..Len(a) + Len(b) /\ k + 1 <= Len(a)
        BY <1>9
    <2> QED BY <1>4, <1>5, <1>8, <2>1
<1>14. Head(w) = c
    <2>1. SubSeq(w, 1, Len(w)) = w
        BY <1>7, SubSeqFull
    <2>2. 1 \in 1..Len(w) /\ Len(w) \in 1..Len(w)
        BY <1>10
    <2>3. Head(SubSeq(w, 1, Len(w))) = w[1]
        BY <1>7, <2>2, HeadTailOfSubSeq
    <2> QED BY <1>11, <2>1, <2>3
<1>15. Last(w) = d
    BY <1>10, <1>12 DEF Last
<1>16. Inner(w) = x
    BY <1>5, <1>7, <1>10, <1>13, InnerOf
<1>17. Between(w, c, x, d)
    BY <1>5, <1>10, <1>11, <1>12, <1>13, <1>14, <1>15, <1>16 DEF Between
<1> QED BY <1>0, <1>7, <1>17

\* The blocks that Escape joins: a quote has two characters, any other has one.
Blocks(p) == [i \in 1..Len(p) |-> IF p[i] = Quote THEN <<Backslash, Quote>> ELSE <<p[i]>>]

\* Escape joins the blocks.
LEMMA BlocksFacts ==
    ASSUME NEW S, Quote \in S, Backslash \in S, NEW p \in Seq(S)
    PROVE  /\ Blocks(p) \in Seq(Seq(S)) /\ Len(Blocks(p)) = Len(p)
           /\ Escape(p) = FlattenSeq(Blocks(p))
           /\ \A i \in 1..Len(p) :
                 /\ p[i] = Quote => /\ Len(Blocks(p)[i]) = 2 /\ Blocks(p)[i][1] = Backslash
                                    /\ Blocks(p)[i][2] = Quote
                 /\ p[i] # Quote => Len(Blocks(p)[i]) = 1 /\ Blocks(p)[i][1] = p[i]
<1>1. Len(p) \in Nat /\ DOMAIN p = 1..Len(p) /\ \A i \in 1..Len(p) : p[i] \in S
    BY LenProperties, ElementOfSeq
<1>2. PICK b : b = Blocks(p)
    OBVIOUS
<1>3. PICK N : N = Seq(S)
    OBVIOUS
<1>4. <<Backslash, Quote>> \in N /\ \A i \in 1..Len(p) : <<p[i]>> \in N
    BY <1>1, <1>3
<1>5. b \in [1..Len(p) -> N]
    BY <1>2, <1>4 DEF Blocks
<1>6. b \in Seq(N) /\ Len(b) = Len(p)
    BY <1>1, <1>5
<1>7. Escape(p) = FlattenSeq(b)
    BY <1>1, <1>2 DEF Escape, Blocks
<1>8. ASSUME NEW i \in 1..Len(p)
      PROVE  /\ p[i] = Quote => Len(b[i]) = 2 /\ b[i][1] = Backslash /\ b[i][2] = Quote
             /\ p[i] # Quote => Len(b[i]) = 1 /\ b[i][1] = p[i]
    BY <1>2 DEF Blocks
<1> QED BY <1>2, <1>3, <1>6, <1>7, <1>8

\* Unescape keeps the last character of each block.
LEMMA UnescapeEscape ==
    ASSUME NEW S, Quote \in S, Backslash \in S, NEW p \in Seq(S)
    PROVE  Escape(p) \in Seq(S) /\ Unescape(Escape(p)) = p
<1>1. PICK n \in Nat : n = Len(p)
    BY LenProperties
<1>2. PICK b : b = Blocks(p)
    OBVIOUS
<1>3. b \in Seq(Seq(S)) /\ Len(b) = n /\ Escape(p) = FlattenSeq(b)
    BY <1>1, <1>2, BlocksFacts
<1>4. \A i \in 1..n :
         /\ p[i] = Quote => Len(b[i]) = 2 /\ b[i][1] = Backslash /\ b[i][2] = Quote
         /\ p[i] # Quote => Len(b[i]) = 1 /\ b[i][1] = p[i]
    BY <1>1, <1>2, BlocksFacts
<1>5. PICK off : Ends(b, off)
    BY <1>3, EndsExist
<1>6. PICK s : s = Escape(p)
    OBVIOUS
<1>7. s \in Seq(S) /\ Len(s) = off[n] /\ Begins(s, b, off, n)
    BY <1>3, <1>5, <1>6, FlattenAt
<1>8. /\ \A i \in 1..n : off[i] = off[i - 1] + Len(b[i])
      /\ off \in [0..n -> Nat] /\ off[0] = 0
    BY <1>3, <1>5 DEF Ends
<1>9. ASSUME NEW i \in 1..n
      PROVE  /\ i - 1 \in 0..n /\ i \in 0..n /\ off[i - 1] \in Nat /\ off[i] \in Nat
             /\ off[i - 1] < off[i] /\ off[i] \in 1..Len(s) /\ s[off[i]] = p[i]
             /\ p[i] = Quote => off[i] = off[i - 1] + 2 /\ s[off[i - 1] + 1] = Backslash
             /\ p[i] # Quote => off[i] = off[i - 1] + 1
    <2>1. i - 1 \in 0..n /\ i \in 0..n /\ n \in 0..n /\ i <= n
        OBVIOUS
    <2>2. off[i - 1] \in Nat /\ off[i] \in Nat /\ off[i] = off[i - 1] + Len(b[i])
        BY <1>8, <2>1
    <2>3. off[i] <= off[n] /\ off[n] \in Nat
        BY <1>3, <1>5, <1>8, <2>1, EndsRise
    <2>4. \A k \in 1..Len(b[i]) : s[off[i - 1] + k] = b[i][k]
        BY <1>7 DEF Begins
    <2>5. CASE p[i] = Quote
        <3>1. Len(b[i]) = 2 /\ b[i][1] = Backslash /\ b[i][2] = Quote
            BY <1>4, <2>5
        <3>2. 1 \in 1..Len(b[i]) /\ 2 \in 1..Len(b[i])
            BY <3>1
        <3>3. s[off[i - 1] + 1] = Backslash /\ s[off[i - 1] + 2] = Quote
            BY <2>4, <3>1, <3>2
        <3>4. off[i] = off[i - 1] + 2
            BY <2>2, <3>1
        <3> QED BY <1>7, <2>1, <2>2, <2>3, <2>5, <3>3, <3>4
    <2>6. CASE p[i] # Quote
        <3>1. Len(b[i]) = 1 /\ b[i][1] = p[i]
            BY <1>4, <2>6
        <3>2. 1 \in 1..Len(b[i])
            BY <3>1
        <3>3. s[off[i - 1] + 1] = p[i]
            BY <2>4, <3>1, <3>2
        <3>4. off[i] = off[i - 1] + 1
            BY <2>2, <3>1
        <3> QED BY <1>7, <2>1, <2>2, <2>3, <2>6, <3>3, <3>4
    <2> QED BY <2>5, <2>6
<1>10. Len(s) \in Nat /\ DOMAIN s = 1..Len(s)
    BY <1>7, LenProperties
<1> DEFINE Dropped(q) == s[q] = Backslash /\ q < Len(s) /\ s[q + 1] = Quote
           kept == {q \in DOMAIN s : ~Dropped(q)}
<1>11. ASSUME NEW i \in 1..n PROVE off[i] \in kept
    <2> SUFFICES ASSUME Dropped(off[i]) PROVE FALSE
        BY <1>9, <1>10
    <2>1. p[i] = Backslash /\ off[i] < Len(s) /\ s[off[i] + 1] = Quote
        BY <1>9
    <2>2. i # n
        BY <1>7, <1>9, <2>1
    <2>3. i + 1 \in 1..n /\ (i + 1) - 1 = i
        BY <2>2
    <2>4. PICK j \in 1..n : j = i + 1 /\ j - 1 = i
        BY <2>3
    <2>5. CASE p[j] = Quote
        <3>1. s[off[j - 1] + 1] = Backslash
            BY <1>9, <2>5
        <3> QED BY <2>1, <2>4, <3>1, Characters
    <2>6. CASE p[j] # Quote
        <3>1. off[j] = off[j - 1] + 1 /\ s[off[j]] = p[j]
            BY <1>9, <2>6
        <3> QED BY <2>1, <2>4, <2>6, <3>1
    <2> QED BY <2>5, <2>6
<1>12. ASSUME NEW q \in kept PROVE \E i \in 1..n : q = off[i]
    <2>1. q \in 1..off[Len(b)]
        BY <1>3, <1>7, <1>10
    <2>2. PICK i \in 1..n : q - off[i - 1] \in 1..Len(b[i])
        BY <1>3, <1>5, <2>1, EndsCover
    <2>3. q \in Nat /\ off[i - 1] \in Nat /\ off[i] = off[i - 1] + Len(b[i]) /\ off[i] <= Len(s)
        BY <1>8, <1>9, <1>10
    <2>4. CASE p[i] = Quote
        <3>1. Len(b[i]) = 2 /\ off[i] = off[i - 1] + 2 /\ s[off[i - 1] + 1] = Backslash
              /\ s[off[i]] = Quote
            BY <1>4, <1>9, <2>4
        <3>2. q = off[i - 1] + 1 \/ q = off[i - 1] + 2
            BY <2>2, <2>3, <3>1
        <3>3. CASE q = off[i - 1] + 1
            <4>1. q + 1 = off[i] /\ q < Len(s)
                BY <2>3, <3>1, <3>3
            <4>2. Dropped(q)
                BY <3>1, <3>3, <4>1
            <4> QED BY <4>2
        <3> QED BY <3>1, <3>2, <3>3
    <2>5. CASE p[i] # Quote
        <3>1. Len(b[i]) = 1
            BY <1>4, <2>5
        <3> QED BY <2>2, <2>3, <3>1
    <2> QED BY <2>4, <2>5
<1>13. kept = {off[i] : i \in 1..n}
    <2> HIDE DEF kept
    <2> QED BY <1>11, <1>12
<1>14. \A i \in 1..n : off[i - 1] < off[i]
    BY <1>9
<1>15. Unescape(s) = Picked(s, kept)
    BY DEF Unescape
<1> HIDE DEF kept
<1>16. p = [i \in 1..n |-> s[off[i]]]
    <2>1. p \in [1..n -> S]
        BY <1>1, LenProperties
    <2> QED BY <1>9, <2>1
<1>17. Picked(s, kept) = p
    <2>1. off \in [0..n -> Nat] /\ off[0] = 0
        BY <1>8
    <2> QED BY <1>13, <1>14, <1>16, <2>1, PickedIs
<1> QED BY <1>6, <1>7, <1>15, <1>17

\* A part comes back from its quotes.
LEMMA QuotedFacts ==
    ASSUME NEW S, Quote \in S, Backslash \in S, NEW p \in Seq(S)
    PROVE  /\ Quoted(p) \in Seq(S) /\ Len(Quoted(p)) >= 2
           /\ Unquote(Quoted(p)) = p
           /\ Plain(p) => Plain(Quoted(p))
<1>1. PICK x : x = Escape(p)
    OBVIOUS
<1>2. x \in Seq(S) /\ Unescape(x) = p
    BY <1>1, UnescapeEscape
<1>3. PICK w : w = Quoted(p)
    OBVIOUS
<1>4. w = Wrap(Quote, x, Quote)
    BY <1>1, <1>3 DEF Quoted, Wrap
<1>5. /\ w \in Seq(S) /\ Len(w) = Len(x) + 2
      /\ w[1] = Quote /\ w[Len(x) + 2] = Quote /\ \A k \in 1..Len(x) : w[k + 1] = x[k]
      /\ Head(w) = Quote /\ Last(w) = Quote /\ Inner(w) = x
    <2>1. w \in Seq(S) /\ Between(w, Quote, x, Quote)
        BY <1>2, <1>4, Wrapped
    <2> QED BY <2>1 DEF Between
<1>6. Len(x) \in Nat /\ DOMAIN x = 1..Len(x) /\ DOMAIN w = 1..Len(w)
    BY <1>2, <1>5, LenProperties
<1>7. Unquote(w) = p
    <2>1. Len(w) >= 2 /\ Head(w) = Quote /\ Last(w) = Quote
        BY <1>5, <1>6
    <2> QED BY <1>2, <1>5, <2>1 DEF Unquote
<1>8. ASSUME Plain(p) PROVE Plain(w)
    <2> DEFINE marks == {Comma, "[", "]"}
    <2>1. ASSUME NEW k \in 1..Len(x) PROVE x[k] \notin marks
        <3>1. PICK b : b = Blocks(p)
            OBVIOUS
        <3>2. b \in Seq(Seq(S)) /\ Len(b) = Len(p) /\ x = FlattenSeq(b)
            BY <1>1, <3>1, BlocksFacts
        <3>3. PICK off : Ends(b, off)
            BY <3>2, EndsExist
        <3>4. Len(x) = off[Len(b)] /\ Begins(x, b, off, Len(b))
            BY <3>2, <3>3, FlattenAt
        <3>5. PICK i \in 1..Len(b) : k - off[i - 1] \in 1..Len(b[i])
            BY <3>2, <3>3, <3>4, EndsCover
        <3>6. PICK j \in 1..Len(b[i]) : k = off[i - 1] + j
            <4>1. off[i - 1] \in Nat
                BY <3>2, <3>3, EndsFacts
            <4>2. k = off[i - 1] + (k - off[i - 1])
                BY <4>1
            <4> QED BY <3>5, <4>2
        <3>7. x[k] = b[i][j]
            BY <3>4, <3>6 DEF Begins
        <3>8. i \in 1..Len(p) /\ i \in DOMAIN p
            BY <3>2, LenProperties
        <3>9. CASE p[i] = Quote
            <4>1. Len(b[i]) = 2 /\ b[i][1] = Backslash /\ b[i][2] = Quote
                BY <3>1, <3>8, <3>9, BlocksFacts
            <4>2. j = 1 \/ j = 2
                BY <4>1
            <4> QED BY <3>7, <4>1, <4>2, Characters
        <3>10. CASE p[i] # Quote
            <4>1. Len(b[i]) = 1 /\ b[i][1] = p[i]
                BY <3>1, <3>8, <3>10, BlocksFacts
            <4>2. j = 1
                BY <4>1
            <4>3. p[i] \notin marks
                BY <1>8, <3>8 DEF Plain
            <4> QED BY <3>7, <4>1, <4>2, <4>3
        <3> QED BY <3>9, <3>10
    <2>2. ASSUME NEW k \in DOMAIN w PROVE w[k] \notin marks
        <3>1. k = 1 \/ k = Len(x) + 2 \/ k - 1 \in 1..Len(x)
            BY <1>5, <1>6
        <3>2. CASE k = 1 \/ k = Len(x) + 2
            BY <1>5, <3>2, Characters
        <3>3. CASE k - 1 \in 1..Len(x)
            <4>1. w[(k - 1) + 1] = x[k - 1]
                BY <1>5, <3>3
            <4>2. (k - 1) + 1 = k
                BY <1>6
            <4>3. x[k - 1] \notin marks
                BY <2>1, <3>3
            <4> QED BY <4>1, <4>2, <4>3
        <3> QED BY <3>1, <3>2, <3>3
    <2> QED BY <2>2 DEF Plain
<1> QED BY <1>3, <1>5, <1>6, <1>7, <1>8

\* Strings without commas are joined at the commas.
LEMMA CommasAt ==
    ASSUME NEW S, NEW strings \in Seq(Seq(S)), NEW joined \in Seq(S), NEW e,
           Cuts(joined, strings, e), Len(strings) # 0,
           \A i \in 1..Len(strings) : Plain(strings[i])
    PROVE  /\ Commas(joined) = {e[i] : i \in 1..Len(strings) - 1}
           /\ \A p \in DOMAIN joined : joined[p] \notin {"[", "]"}
<1>1. Len(strings) \in Nat /\ DOMAIN joined = 1..Len(joined) /\ Len(joined) \in Nat
    BY LenProperties
<1>2. ASSUME NEW i \in 1..Len(strings), NEW p \in Nat, p - e[i - 1] \in 1..Len(strings[i])
      PROVE  joined[p] \notin {Comma, "[", "]"}
    <2>1. PICK k \in 1..Len(strings[i]) : k = p - e[i - 1]
        BY <1>2
    <2>2. e[i - 1] \in Nat
        BY CutsFacts
    <2>3. p = e[i - 1] + k
        BY <2>1, <2>2
    <2>4. joined[p] = strings[i][k]
        BY <2>3 DEF Cuts
    <2>5. k \in DOMAIN strings[i]
        BY ElementOfSeq, LenProperties
    <2> QED BY <2>4, <2>5 DEF Plain
<1>3. ASSUME NEW i \in 1..Len(strings) - 1
      PROVE  e[i] \in DOMAIN joined /\ joined[e[i]] = Comma
    <2>1. PICK n \in Nat : n = Len(strings)
        BY <1>1
    <2>2. i \in 1..n /\ n \in 1..n /\ i \in 0..n /\ n \in 0..n /\ i < n /\ i - 1 \in 0..n
        BY <2>1
    <2>3. e \in [0..n -> Nat] /\ e[n] = Len(joined) + 1
        BY <2>1 DEF Cuts
    <2>4. \A k \in 1..n : e[k - 1] < e[k]
        BY <2>1, CutsFacts
    <2>5. e[i] < e[n] /\ e[i - 1] < e[i]
        BY <2>2, <2>3, <2>4, Climbing
    <2>6. e[i] \in Nat /\ e[i - 1] \in Nat
        BY <2>2, <2>3
    <2>7. e[i] \in DOMAIN joined
        BY <1>1, <2>3, <2>5, <2>6
    <2>8. joined[e[i]] = Comma
        BY DEF Cuts
    <2> QED BY <2>7, <2>8
<1>4. ASSUME NEW p \in DOMAIN joined
      PROVE  \/ \E i \in 1..Len(strings) - 1 : p = e[i]
             \/ joined[p] \notin {Comma, "[", "]"}
    <2>1. p \in 1..Len(joined) /\ p \in Nat
        BY <1>1
    <2>2. CASE \E i \in 1..Len(strings) - 1 : p = e[i]
        BY <2>2
    <2>3. CASE \E i \in 1..Len(strings) : p - e[i - 1] \in 1..Len(strings[i])
        BY <1>2, <2>1, <2>3
    <2> QED BY <2>1, <2>2, <2>3, CutsCover
<1>5. \A p \in DOMAIN joined : joined[p] \notin {"[", "]"}
    BY <1>3, <1>4, Characters
<1>6. Commas(joined) = {e[i] : i \in 1..Len(strings) - 1}
    BY <1>3, <1>4 DEF Commas
<1> QED BY <1>5, <1>6

\* Split at all its commas, it is the strings again.
LEMMA SplitCommas ==
    ASSUME NEW S, NEW strings \in Seq(Seq(S)), NEW joined \in Seq(S), NEW e,
           Cuts(joined, strings, e), Len(strings) # 0,
           \A i \in 1..Len(strings) : Plain(strings[i])
    PROVE  Split(joined, Commas(joined)) = strings
<1>1. PICK P : P = Commas(joined)
    OBVIOUS
<1>2. P = {e[i] : i \in 1..Len(strings) - 1}
    BY <1>1, CommasAt
<1>3. Split(joined, P) = strings
    BY <1>2, SplitAt, SMTT(30)
<1> QED BY <1>1, <1>3

\* How tagsToJSON writes a tag: no brackets but the outer ones.
Written(tag) == Bracketed(Joined([j \in DOMAIN tag |-> Quoted(tag[j])]))
Shell(w) ==
    /\ Len(w) >= 2 /\ w[1] = "[" /\ w[Len(w)] = "]"
    /\ \A k \in 2..Len(w) - 1 : w[k] \notin {"[", "]"}

\* A tag comes back from its string.
LEMMA TagRoundTrip ==
    ASSUME NEW S, {Comma, Quote, Backslash, "[", "]"} \subseteq S,
           NEW tag \in Seq(Seq(S)), \A j \in DOMAIN tag : Plain(tag[j])
    PROVE  /\ Written(tag) \in Seq(S) /\ Shell(Written(tag))
           /\ parseTagString(Written(tag)) = tag
<1>0. Comma \in S /\ Quote \in S /\ Backslash \in S /\ "[" \in S /\ "]" \in S
    OBVIOUS
<1>1. PICK n \in Nat : n = Len(tag)
    BY LenProperties
<1>2. DOMAIN tag = 1..n /\ \A j \in 1..n : tag[j] \in Seq(S)
    BY <1>1, LenProperties, ElementOfSeq
<1>3. PICK q : q = [j \in 1..n |-> Quoted(tag[j])]
    OBVIOUS
<1>4. ASSUME NEW j \in 1..n
      PROVE  q[j] \in Seq(S) /\ Len(q[j]) >= 2 /\ Unquote(q[j]) = tag[j] /\ Plain(q[j])
    <2>1. q[j] = Quoted(tag[j]) /\ tag[j] \in Seq(S) /\ Plain(tag[j])
        BY <1>2, <1>3
    <2> QED BY <1>0, <2>1, QuotedFacts
<1>5. q \in Seq(Seq(S)) /\ Len(q) = n /\ DOMAIN q = 1..n
    <2>1. PICK N : N = Seq(S)
        OBVIOUS
    <2>2. q \in [1..n -> N]
        BY <1>3, <1>4, <2>1
    <2>3. q \in Seq(N) /\ Len(q) = n
        BY <2>2, SequenceFrom
    <2> QED BY <2>1, <2>2, <2>3
<1>6. PICK J : J = Joined(q)
    OBVIOUS
<1>7. PICK w : w = Written(tag)
    OBVIOUS
<1>8. w = Wrap("[", J, "]")
    BY <1>2, <1>3, <1>6, <1>7 DEF Written, Bracketed, Wrap
<1>9. ASSUME J \in Seq(S), \A p \in DOMAIN J : J[p] \notin {"[", "]"}
      PROVE  w \in Seq(S) /\ Shell(w) /\ IsBracketed(w) /\ Inner(w) = J
    <2>1. w \in Seq(S) /\ Between(w, "[", J, "]")
        BY <1>0, <1>8, <1>9, Wrapped
    <2>2. /\ Len(w) = Len(J) + 2 /\ w[1] = "[" /\ w[Len(J) + 2] = "]"
          /\ \A k \in 1..Len(J) : w[k + 1] = J[k]
          /\ Head(w) = "[" /\ Last(w) = "]" /\ Inner(w) = J
        BY <2>1 DEF Between
    <2>3. PICK l \in Nat : l = Len(J)
        BY <1>9, LenProperties
    <2>4. DOMAIN J = 1..l
        BY <1>9, <2>3, LenProperties
    <2>5. Len(w) = l + 2 /\ w[l + 2] = "]"
        BY <2>2, <2>3
    <2>6. ASSUME NEW k \in 2..Len(w) - 1 PROVE w[k] \notin {"[", "]"}
        <3>1. k - 1 \in 1..l /\ (k - 1) + 1 = k
            BY <2>5
        <3>2. w[(k - 1) + 1] = J[k - 1]
            BY <2>2, <2>3, <3>1
        <3> QED BY <1>9, <2>4, <3>1, <3>2
    <2>7. Len(w) >= 2
        BY <2>5
    <2>8. Shell(w)
        BY <2>2, <2>5, <2>6, <2>7 DEF Shell
    <2>9. IsBracketed(w)
        BY <2>2, <2>7 DEF IsBracketed
    <2> QED BY <2>1, <2>2, <2>8, <2>9
<1>10. CASE n = 0
    <2>1. tag = << >> /\ q = << >>
        BY <1>1, <1>5, <1>10, EmptySeq
    <2>2. J = << >>
        BY <1>6, <2>1 DEF Joined, FlattenSeq
    <2>3. J \in Seq(S) /\ \A p \in DOMAIN J : J[p] \notin {"[", "]"}
        BY <2>2
    <2>4. w \in Seq(S) /\ Shell(w) /\ IsBracketed(w) /\ Inner(w) = << >>
        BY <1>9, <2>2, <2>3
    <2>5. parseTagString(w) = << >>
        BY <2>4 DEF parseTagString
    <2> QED BY <1>7, <2>1, <2>4, <2>5
<1>11. CASE n # 0
    <2>1. J \in Seq(S) /\ \E e : Cuts(J, q, e)
        BY <1>0, <1>5, <1>6, <1>11, JoinedAt
    <2>2. PICK e : Cuts(J, q, e)
        BY <2>1
    <2>3. \A i \in 1..Len(q) : Plain(q[i])
        BY <1>4, <1>5
    <2>4. /\ Commas(J) = {e[i] : i \in 1..Len(q) - 1}
          /\ \A p \in DOMAIN J : J[p] \notin {"[", "]"}
        BY <1>5, <1>11, <2>1, <2>2, <2>3, CommasAt
    <2>5. w \in Seq(S) /\ Shell(w) /\ IsBracketed(w) /\ Inner(w) = J
        BY <1>9, <2>1, <2>4
    <2>6. Split(J, Commas(J)) = q
        <3>1. J \in Seq(S)
            BY <2>1
        <3>2. q \in Seq(Seq(S)) /\ Len(q) # 0
            BY <1>5, <1>11
        <3> QED BY <2>2, <2>3, <3>1, <3>2, SplitCommas
    <2>7. J # << >>
        <3>1. SUFFICES ASSUME J = << >> PROVE FALSE
            OBVIOUS
        <3>2. Len(J) = 0
            BY <3>1
        <3>3. e[0] = 0 /\ e[n] = 1 /\ 1 \in 1..n /\ n \in 1..n /\ n \in 0..n
            BY <1>5, <1>11, <2>2, <3>2 DEF Cuts
        <3>4. PICK k \in Nat : k = Len(q[1])
            BY <1>5, <2>2, <3>3, CutsFacts
        <3>5. e[1] = e[0] + k + 1 /\ k >= 2 /\ e \in [0..n -> Nat]
            <4>1. e[1] = e[1 - 1] + k + 1 /\ e \in [0..n -> Nat]
                BY <1>5, <2>2, <3>3, <3>4 DEF Cuts
            <4>2. k >= 2
                BY <1>4, <3>3, <3>4
            <4>3. 1 - 1 = 0
                OBVIOUS
            <4> QED BY <4>1, <4>2, <4>3
        <3>6. \A i \in 1..n : e[i - 1] <= e[i]
            <4> SUFFICES ASSUME NEW i \in 1..n PROVE e[i - 1] <= e[i]
                OBVIOUS
            <4>1. e[i - 1] \in Nat /\ e[i] \in Nat /\ e[i - 1] < e[i]
                BY <1>5, <2>2, CutsFacts
            <4> QED BY <4>1
        <3>7. 1 \in 0..n /\ 1 <= n
            BY <3>3
        <3>8. e[1] <= e[n]
            BY <3>3, <3>5, <3>6, <3>7, Rising
        <3> QED BY <3>3, <3>4, <3>5, <3>8
    <2>8. parseTagString(w) = [i \in DOMAIN q |-> Unquote(q[i])]
        BY <2>5, <2>6, <2>7 DEF parseTagString
    <2>9. tag = [i \in DOMAIN q |-> Unquote(q[i])]
        <3>1. PICK N : N = Seq(S)
            OBVIOUS
        <3>2. tag \in [1..n -> N]
            BY <1>1, <3>1, LenProperties
        <3> QED BY <1>4, <1>5, <3>2
    <2> QED BY <1>7, <2>5, <2>8, <2>9
<1> QED BY <1>10, <1>11

\* The places f[1], ..., f[n] rise, are where the string has the character c, and m of them
\* are at most p.
InPlace(f, n) == f \in [1..n -> Nat \ {0}] /\ \A i, j \in 1..n : i < j => f[i] < f[j]
MarkedBy(string, c, f, n) == \A j \in DOMAIN string : string[j] = c <=> \E i \in 1..n : j = f[i]
Below(f, n, m, p) == (m # 0 => f[m] <= p) /\ (m # n => p < f[m + 1])

LEMMA CountTo ==
    ASSUME NEW n \in Nat, NEW f, InPlace(f, n), NEW string, NEW c, MarkedBy(string, c, f, n),
           NEW p \in Nat, 1..p \subseteq DOMAIN string, NEW m \in 0..n, Below(f, n, m, p)
    PROVE  Cardinality({j \in 1..p : string[j] = c}) = m
<1>0. f \in [1..n -> Nat \ {0}] /\ \A i, j \in 1..n : i < j => f[i] < f[j]
    BY DEF InPlace
<1>1. PICK B : B = {j \in 1..p : string[j] = c}
    OBVIOUS
<1>2. ASSUME NEW i \in 1..n, f[i] <= p PROVE i <= m
    <2> SUFFICES ASSUME ~(i <= m) PROVE FALSE
        OBVIOUS
    <2>1. m + 1 \in 1..n /\ m # n /\ (i = m + 1 \/ m + 1 < i)
        OBVIOUS
    <2>2. PICK k \in 1..n : k = m + 1
        BY <2>1
    <2>3. p < f[k] /\ f[k] \in Nat /\ f[i] \in Nat /\ (i = k \/ f[k] < f[i])
        BY <1>0, <2>1, <2>2 DEF Below
    <2> QED BY <1>2, <2>3
<1>3. ASSUME NEW i \in 1..m PROVE i \in 1..n /\ f[i] \in 1..p
    <2>1. i \in 1..n /\ m \in 1..n /\ m # 0 /\ (i = m \/ i < m)
        OBVIOUS
    <2>2. f[i] \in Nat \ {0} /\ f[m] \in Nat /\ f[m] <= p /\ (i = m \/ f[i] < f[m])
        BY <1>0, <2>1 DEF Below
    <2>3. f[i] \in 1..p
        BY <2>2
    <2> QED BY <2>1, <2>3
<1>4. ASSUME NEW j \in B PROVE \E i \in 1..m : j = f[i]
    <2>1. j \in 1..p /\ string[j] = c
        BY <1>1
    <2>2. PICK i \in 1..n : j = f[i]
        BY <2>1 DEF MarkedBy
    <2>3. f[i] <= p
        BY <2>1, <2>2
    <2>4. i <= m
        BY <1>2, <2>3
    <2> QED BY <2>2, <2>4
<1>5. ASSUME NEW i \in 1..m PROVE f[i] \in B
    BY <1>1, <1>3 DEF MarkedBy
<1>6. B = {f[i] : i \in 1..m}
    BY <1>4, <1>5
<1>7. ASSUME NEW i \in 1..m, NEW j \in 1..m, f[i] = f[j] PROVE i = j
    <2>1. i \in 1..n /\ j \in 1..n /\ f[i] \in Nat
        BY <1>3
    <2>2. ~(i < j) /\ ~(j < i)
        BY <1>0, <1>7, <2>1
    <2> QED BY <2>2
<1>8. m \in Nat
    OBVIOUS
<1>9. Cardinality(B) = m
    BY <1>6, <1>7, <1>8, ImageCount
<1> QED BY <1>1, <1>9

\* Where the written tags open and close in the written list of tags.
Shells(strings) == \A i \in 1..Len(strings) : Shell(strings[i])
Opens(e, n) == [i \in 1..n |-> e[i - 1] + 1]
Closes(e, n) == [i \in 1..n |-> e[i] - 1]

\* The i-th written tag has k characters, from x + 1 on.
ShellIs(joined, strings, e, i, x, k) ==
    /\ k >= 2 /\ k = Len(strings[i]) /\ x \in Nat /\ e[i] = x + k + 1
    /\ joined[x + 1] = "[" /\ joined[x + k] = "]"
    /\ \A d \in 2..k - 1 : joined[x + d] \notin {"[", "]"}

\* A written tag between its brackets.
LEMMA ShellAt ==
    ASSUME NEW S, NEW strings \in Seq(Seq(S)), NEW joined, NEW e,
           Cuts(joined, strings, e), Shells(strings),
           NEW i \in 1..Len(strings), NEW x, x = e[i - 1]
    PROVE  \E k \in Nat : ShellIs(joined, strings, e, i, x, k)
<1>1. PICK k \in Nat : k = Len(strings[i])
    BY CutsFacts
<1>2. x \in Nat /\ e[i] = x + k + 1
    BY <1>1, CutsFacts
<1>3. /\ k >= 2 /\ strings[i][1] = "[" /\ strings[i][k] = "]"
      /\ \A d \in 2..k - 1 : strings[i][d] \notin {"[", "]"}
    BY <1>1 DEF Shells, Shell
<1>4. \A d \in 1..k : joined[x + d] = strings[i][d]
    BY <1>1 DEF Cuts
<1>5. 1 \in 1..k /\ k \in 1..k /\ \A d \in 2..k - 1 : d \in 1..k
    BY <1>3
<1> QED BY <1>1, <1>2, <1>3, <1>4, <1>5 DEF ShellIs

\* Brackets are where written tags open and close, and nowhere else.
LEMMA ShellsAt ==
    ASSUME NEW S, NEW strings \in Seq(Seq(S)), NEW joined \in Seq(S), NEW e,
           Cuts(joined, strings, e), Len(strings) # 0, Shells(strings),
           NEW n \in Nat, n = Len(strings)
    PROVE  MarkedBy(joined, "[", Opens(e, n), n) /\ MarkedBy(joined, "]", Closes(e, n), n)
<1>1. Len(joined) \in Nat /\ DOMAIN joined = 1..Len(joined)
    BY LenProperties
<1>2. ASSUME NEW i \in 1..n
      PROVE  joined[Opens(e, n)[i]] = "[" /\ joined[Closes(e, n)[i]] = "]"
    <2>1. PICK x : x = e[i - 1]
        OBVIOUS
    <2>2. i \in 1..Len(strings)
        OBVIOUS
    <2>3. PICK k \in Nat : ShellIs(joined, strings, e, i, x, k)
        BY <2>1, <2>2, ShellAt
    <2>4. /\ x \in Nat /\ e[i] = x + k + 1
          /\ joined[x + 1] = "[" /\ joined[x + k] = "]"
        BY <2>3 DEF ShellIs
    <2>5. e[i] - 1 = x + k
        <3>1. \A a, b \in Nat : (a + b + 1) - 1 = a + b
            OBVIOUS
        <3> QED BY <2>4, <3>1
    <2>6. Opens(e, n)[i] = x + 1 /\ Closes(e, n)[i] = x + k
        BY <2>1, <2>5 DEF Opens, Closes
    <2> QED BY <2>4, <2>6
<1>3. ASSUME NEW j \in DOMAIN joined
      PROVE  /\ joined[j] = "[" => \E i \in 1..n : j = Opens(e, n)[i]
             /\ joined[j] = "]" => \E i \in 1..n : j = Closes(e, n)[i]
    <2>1. j \in 1..Len(joined) /\ j \in Nat
        BY <1>1
    <2>2. CASE \E i \in 1..Len(strings) - 1 : j = e[i]
        <3>1. PICK i \in 1..Len(strings) - 1 : j = e[i]
            BY <2>2
        <3>2. joined[j] = Comma
            BY <3>1 DEF Cuts
        <3> QED BY <3>2, Characters
    <2>3. CASE \E i \in 1..Len(strings) : j - e[i - 1] \in 1..Len(strings[i])
        <3>1. PICK i \in 1..n : j - e[i - 1] \in 1..Len(strings[i])
            BY <2>3
        <3>2. PICK x : x = e[i - 1]
            OBVIOUS
        <3>3. i \in 1..Len(strings)
            OBVIOUS
        <3>4. PICK k \in Nat : ShellIs(joined, strings, e, i, x, k)
            BY <3>2, <3>3, ShellAt
        <3>5. /\ k >= 2 /\ k = Len(strings[i]) /\ x \in Nat /\ e[i] = x + k + 1
              /\ joined[x + 1] = "[" /\ joined[x + k] = "]"
              /\ \A d \in 2..k - 1 : joined[x + d] \notin {"[", "]"}
            BY <3>4 DEF ShellIs
        <3>6. PICK d \in 1..k : d = j - x
            BY <3>1, <3>2, <3>5
        <3>7. j = x + d /\ e[i] - 1 = x + k
            <4>1. \A a, b \in Nat : (a + b + 1) - 1 = a + b
                OBVIOUS
            <4>2. x \in Nat /\ j = x + (j - x)
                BY <2>1, <3>5
            <4> QED BY <3>5, <3>6, <4>1, <4>2
        <3>8. Opens(e, n)[i] = x + 1 /\ Closes(e, n)[i] = x + k
            BY <3>2, <3>7 DEF Opens, Closes
        <3>9. d = 1 \/ d = k \/ d \in 2..k - 1
            OBVIOUS
        <3>10. CASE d = 1
            BY <3>5, <3>7, <3>8, <3>10, Characters
        <3>11. CASE d = k
            BY <3>5, <3>7, <3>8, <3>11, Characters
        <3>12. CASE d \in 2..k - 1
            BY <3>5, <3>7, <3>12
        <3> QED BY <3>9, <3>10, <3>11, <3>12
    <2> QED BY <2>1, <2>2, <2>3, CutsCover
<1>4. MarkedBy(joined, "[", Opens(e, n), n)
    BY <1>2, <1>3 DEF MarkedBy
<1>5. MarkedBy(joined, "]", Closes(e, n), n)
    BY <1>2, <1>3 DEF MarkedBy
<1> QED BY <1>4, <1>5

\* The brackets of one tag come before those of the next.
LEMMA OpensOrdered ==
    ASSUME NEW S, NEW strings \in Seq(Seq(S)), NEW joined, NEW e,
           Cuts(joined, strings, e), Shells(strings), NEW n \in Nat, n = Len(strings)
    PROVE  /\ \A i, j \in 0..n : i < j => e[i] < e[j]
           /\ InPlace(Opens(e, n), n) /\ InPlace(Closes(e, n), n)
<1>1. e \in [0..n -> Nat] /\ e[0] = 0
    BY DEF Cuts
<1>2. \A i \in 1..n : e[i - 1] < e[i]
    BY CutsFacts
<1>3. \A i, j \in 0..n : i < j => e[i] < e[j]
    BY <1>1, <1>2, Climbing
<1>4. ASSUME NEW i \in 0..n PROVE e[i] \in Nat
    BY <1>1
<1>5. PICK f : f = Opens(e, n)
    OBVIOUS
<1>6. f = [i \in 1..n |-> e[i - 1] + 1]
    BY <1>5 DEF Opens
<1>7. \A i \in 1..n : i - 1 \in 0..n /\ i \in 0..n
    OBVIOUS
<1>8. ASSUME NEW i \in 1..n PROVE f[i] = e[i - 1] + 1 /\ f[i] \in Nat \ {0} /\ e[i - 1] \in Nat
    <2>1. e[i - 1] \in Nat
        BY <1>4, <1>7
    <2> QED BY <1>6, <2>1
<1>9. ASSUME NEW i \in 1..n, NEW j \in 1..n, i < j PROVE f[i] < f[j]
    <2>1. PICK a \in Nat : a = e[i - 1]
        BY <1>8
    <2>2. PICK b \in Nat : b = e[j - 1]
        BY <1>8
    <2>3. i - 1 < j - 1
        BY <1>9
    <2>4. a < b
        BY <1>3, <1>7, <2>1, <2>2, <2>3
    <2>5. f[i] = a + 1 /\ f[j] = b + 1
        BY <1>8, <2>1, <2>2
    <2> QED BY <2>4, <2>5
<1>10. InPlace(f, n)
    <2>1. f \in [1..n -> Nat \ {0}]
        BY <1>6, <1>8
    <2> QED BY <1>9, <2>1 DEF InPlace
<1>11. PICK g : g = Closes(e, n)
    OBVIOUS
<1>12. g = [i \in 1..n |-> e[i] - 1]
    BY <1>11 DEF Closes
<1>13. ASSUME NEW i \in 1..n PROVE g[i] = e[i] - 1 /\ g[i] \in Nat \ {0} /\ e[i] \in Nat
    <2>1. PICK x : x = e[i - 1]
        OBVIOUS
    <2>2. i \in 1..Len(strings)
        OBVIOUS
    <2>3. PICK k \in Nat : ShellIs(joined, strings, e, i, x, k)
        BY <2>1, <2>2, ShellAt
    <2>4. k >= 2 /\ x \in Nat /\ e[i] = x + k + 1
        BY <2>3 DEF ShellIs
    <2>5. PICK y \in Nat : y = e[i]
        BY <1>4, <1>7
    <2>6. y = x + k + 1
        BY <2>4, <2>5
    <2>7. y - 1 \in Nat \ {0}
        BY <2>4, <2>6
    <2> QED BY <1>12, <2>5, <2>7
<1>14. ASSUME NEW i \in 1..n, NEW j \in 1..n, i < j PROVE g[i] < g[j]
    <2>1. PICK a \in Nat : a = e[i]
        BY <1>13
    <2>2. PICK b \in Nat : b = e[j]
        BY <1>13
    <2>3. a < b
        BY <1>3, <1>7, <1>14, <2>1, <2>2
    <2>4. g[i] = a - 1 /\ g[j] = b - 1
        BY <1>13, <2>1, <2>2
    <2> QED BY <2>3, <2>4
<1>15. InPlace(g, n)
    <2>1. g \in [1..n -> Nat \ {0}]
        BY <1>12, <1>13
    <2> QED BY <1>14, <2>1 DEF InPlace
<1> QED BY <1>3, <1>5, <1>10, <1>11, <1>15

\* The depth of a place that m tags open before and l tags close before.
LEMMA DepthIs ==
    ASSUME NEW e, NEW n \in Nat, NEW S, NEW joined \in Seq(S), NEW p \in DOMAIN joined,
           MarkedBy(joined, "[", Opens(e, n), n), MarkedBy(joined, "]", Closes(e, n), n),
           InPlace(Opens(e, n), n), InPlace(Closes(e, n), n),
           NEW m \in 0..n, Below(Opens(e, n), n, m, p),
           NEW l \in 0..n, Below(Closes(e, n), n, l, p)
    PROVE  Depth(joined, p) = m - l
<1>1. DOMAIN joined = 1..Len(joined) /\ Len(joined) \in Nat
    BY LenProperties
<1>2. p \in Nat /\ 1..p \subseteq DOMAIN joined
    BY <1>1
<1>3. Cardinality({j \in 1..p : joined[j] = "["}) = m
    BY <1>2, CountTo
<1>4. Cardinality({j \in 1..p : joined[j] = "]"}) = l
    BY <1>2, CountTo
<1> QED BY <1>3, <1>4 DEF Depth

\* Outside brackets are the commas between the tags, and no comma in a tag.
LEMMA DepthAt ==
    ASSUME NEW S, NEW strings \in Seq(Seq(S)), NEW joined \in Seq(S), NEW e,
           Cuts(joined, strings, e), Len(strings) # 0, Shells(strings)
    PROVE  {i \in Commas(joined) : Depth(joined, i) = 0} = {e[i] : i \in 1..Len(strings) - 1}
<1>1. PICK n \in Nat : n = Len(strings)
    BY LenProperties
<1>2. Len(joined) \in Nat /\ DOMAIN joined = 1..Len(joined)
    BY LenProperties
<1>3. e \in [0..n -> Nat] /\ e[n] = Len(joined) + 1
    BY <1>1 DEF Cuts
<1>4. /\ \A i, j \in 0..n : i < j => e[i] < e[j]
      /\ InPlace(Opens(e, n), n) /\ InPlace(Closes(e, n), n)
    BY <1>1, OpensOrdered
<1>5. MarkedBy(joined, "[", Opens(e, n), n) /\ MarkedBy(joined, "]", Closes(e, n), n)
    BY <1>1, ShellsAt
<1>6. \A i \in 1..n : Opens(e, n)[i] = e[i - 1] + 1 /\ Closes(e, n)[i] = e[i] - 1
    BY DEF Opens, Closes
<1>7. ASSUME NEW m \in 1..n - 1
      PROVE  e[m] \in Commas(joined) /\ Depth(joined, e[m]) = 0
    <2>1. m \in 1..n /\ m \in 0..n /\ n \in 0..n /\ m < n /\ m - 1 \in 0..n /\ m - 1 < m
        OBVIOUS
    <2>2. PICK k : k = m + 1
        OBVIOUS
    <2>3. k \in 1..n /\ k \in 0..n /\ k - 1 = m /\ m < k
        BY <2>2
    <2>4. PICK x \in Nat : x = e[m - 1]
        BY <1>3, <2>1
    <2>5. PICK y \in Nat : y = e[m]
        BY <1>3, <2>1
    <2>6. PICK z \in Nat : z = e[k]
        BY <1>3, <2>3
    <2>7. x < y /\ y < z
        BY <1>4, <2>1, <2>3, <2>4, <2>5, <2>6
    <2>8. y < e[n]
        BY <1>4, <2>1, <2>5
    <2>9. y \in DOMAIN joined
        BY <1>2, <1>3, <2>7, <2>8
    <2>10. joined[y] = Comma
        BY <1>1, <2>5 DEF Cuts
    <2>11. /\ Opens(e, n)[m] = x + 1 /\ Opens(e, n)[k] = y + 1
           /\ Closes(e, n)[m] = y - 1 /\ Closes(e, n)[k] = z - 1
        BY <1>6, <2>1, <2>3, <2>4, <2>5, <2>6
    <2>12. joined[z - 1] = "]"
        <3>1. z - 1 \in DOMAIN joined
            <4>1. PICK l \in Nat : l = Len(joined)
                BY <1>2
            <4>2. k = n \/ k < n
                BY <2>3
            <4>3. z = e[n] \/ z < e[n]
                BY <1>4, <2>1, <2>3, <2>6, <4>2
            <4>4. e[n] = l + 1
                BY <1>3, <4>1
            <4>5. z - 1 \in 1..l
                BY <2>7, <4>3, <4>4
            <4> QED BY <1>2, <4>1, <4>5
        <3> QED BY <1>5, <2>3, <2>11, <3>1 DEF MarkedBy
    <2>13. y # z - 1
        BY <2>10, <2>12, Characters
    <2>14. x + 1 <= y /\ y < y + 1 /\ y - 1 <= y /\ y < z - 1
        BY <2>7, <2>13
    <2>15. Below(Opens(e, n), n, m, y) /\ Below(Closes(e, n), n, m, y)
        BY <2>2, <2>11, <2>14 DEF Below
    <2>16. Depth(joined, y) = m - m
        BY <1>4, <1>5, <2>1, <2>9, <2>15, DepthIs
    <2> QED BY <2>1, <2>5, <2>9, <2>10, <2>16 DEF Commas
<1>8. ASSUME NEW p \in Commas(joined), Depth(joined, p) = 0
      PROVE  \E m \in 1..n - 1 : p = e[m]
    <2>1. p \in DOMAIN joined /\ p \in 1..Len(joined) /\ joined[p] = Comma /\ p \in Nat
        BY <1>2 DEF Commas
    <2> SUFFICES ASSUME ~ \E m \in 1..n - 1 : p = e[m] PROVE FALSE
        OBVIOUS
    <2>2. \E m \in 1..Len(strings) : p - e[m - 1] \in 1..Len(strings[m])
        <3>1. ~ \E m \in 1..Len(strings) - 1 : p = e[m]
            BY <1>1
        <3> QED BY <2>1, <3>1, CutsCover
    <2>3. PICK m \in 1..Len(strings) : p - e[m - 1] \in 1..Len(strings[m])
        BY <2>2
    <2>4. PICK x : x = e[m - 1]
        OBVIOUS
    <2>5. PICK k \in Nat : ShellIs(joined, strings, e, m, x, k)
        BY <2>4, ShellAt
    <2>6. /\ k >= 2 /\ k = Len(strings[m]) /\ x \in Nat /\ e[m] = x + k + 1
          /\ joined[x + 1] = "[" /\ joined[x + k] = "]"
        BY <2>5 DEF ShellIs
    <2>7. p # x + 1 /\ p # x + k
        BY <2>1, <2>6, Characters
    <2>8. x + 1 <= p /\ p < x + k
        <3>1. PICK d \in 1..k : d = p - x
            BY <2>3, <2>4, <2>6
        <3>2. p = x + d
            BY <2>1, <2>6, <3>1
        <3>3. d # k
            BY <2>7, <3>2
        <3> QED BY <2>6, <3>2, <3>3
    <2>9. m \in 1..n /\ m \in 0..n /\ m - 1 \in 0..n /\ m # 0
        BY <1>1
    <2>10. Opens(e, n)[m] = x + 1 /\ Closes(e, n)[m] = x + k
        <3>1. \A a, b \in Nat : (a + b + 1) - 1 = a + b
            OBVIOUS
        <3>2. e[m] - 1 = x + k
            BY <2>6, <3>1
        <3> QED BY <1>6, <2>4, <2>9, <3>2
    <2>11. m # n => p < Opens(e, n)[m + 1]
        <3> SUFFICES ASSUME m # n PROVE p < Opens(e, n)[m + 1]
            OBVIOUS
        <3>1. PICK i \in 1..n : i = m + 1 /\ i - 1 = m
            BY <2>9
        <3>2. Opens(e, n)[i] = (x + k + 1) + 1
            BY <1>6, <2>6, <3>1
        <3>3. p < (x + k + 1) + 1
            BY <2>1, <2>6, <2>8
        <3> QED BY <3>1, <3>2, <3>3
    <2>12. m - 1 # 0 => Closes(e, n)[m - 1] <= p
        <3> SUFFICES ASSUME m - 1 # 0 PROVE Closes(e, n)[m - 1] <= p
            OBVIOUS
        <3>1. PICK i \in 1..n : i = m - 1
            BY <2>9
        <3>2. Closes(e, n)[i] = x - 1
            BY <1>6, <2>4, <3>1
        <3>3. x - 1 <= p
            BY <2>1, <2>6, <2>8
        <3> QED BY <3>1, <3>2, <3>3
    <2>13. PICK l \in 0..n : l = m - 1 /\ l + 1 = m
        BY <2>9
    <2>14. Below(Opens(e, n), n, m, p)
        BY <2>8, <2>10, <2>11 DEF Below
    <2>15. Below(Closes(e, n), n, l, p)
        BY <2>8, <2>10, <2>12, <2>13 DEF Below
    <2>16. Depth(joined, p) = m - l
        BY <1>4, <1>5, <2>1, <2>9, <2>13, <2>14, <2>15, DepthIs
    <2> QED BY <1>8, <2>9, <2>13, <2>16
<1> QED BY <1>1, <1>7, <1>8

-----------------------------------------------------------------------------
(* Round trip *)

\* The brackets around a string can be taken off.
LEMMA BracketedFacts ==
    ASSUME NEW S, "[" \in S, "]" \in S, NEW x \in Seq(S), NEW w, w = Bracketed(x)
    PROVE  IsBracketed(w) /\ Inner(w) = x
<1>1. w = Wrap("[", x, "]")
    BY DEF Bracketed, Wrap
<1>2. w \in Seq(S) /\ Between(w, "[", x, "]")
    BY <1>1, Wrapped
<1>3. Len(w) = Len(x) + 2 /\ Head(w) = "[" /\ Last(w) = "]" /\ Inner(w) = x
    BY <1>2 DEF Between
<1>4. PICK n \in Nat : n = Len(x)
    BY LenProperties
<1>5. Len(w) >= 2
    BY <1>3, <1>4
<1> QED BY <1>3, <1>5 DEF IsBracketed

\* Picked at every position, it is the sequence itself.
LEMMA PickedAll ==
    ASSUME NEW T, NEW s \in Seq(T)
    PROVE  Picked(s, DOMAIN s) = s
<1>1. PICK n \in Nat : n = Len(s)
    BY LenProperties
<1>2. s \in [1..n -> T] /\ DOMAIN s = 1..n
    BY <1>1, LenProperties
<1>3. PICK f : f = [i \in 0..n |-> i]
    OBVIOUS
<1>4. f \in [0..n -> Nat] /\ f[0] = 0 /\ \A i \in 1..n : f[i] = i /\ f[i - 1] = i - 1
    BY <1>3
<1>5. \A i \in 1..n : f[i - 1] < f[i]
    BY <1>4
<1>6. PICK I : I = DOMAIN s
    OBVIOUS
<1>7. I = {f[i] : i \in 1..n}
    <2>1. I = 1..n
        BY <1>2, <1>6
    <2> QED BY <1>4, <2>1
<1>8. s = [i \in 1..n |-> s[f[i]]]
    BY <1>2, <1>4
<1>9. Picked(s, I) = s
    BY <1>4, <1>5, <1>7, <1>8, PickedIs, SMTT(30)
<1> QED BY <1>6, <1>9

\* No position, no entry.
LEMMA PickedNone ==
    ASSUME NEW s
    PROVE  Picked(s, {}) = << >>
<1>1. Cardinality({}) = 0
    BY FS_EmptySet
<1>2. PICK p : p = Picked(s, {})
    OBVIOUS
<1>3. DOMAIN p = 1..0 /\ p = [i \in DOMAIN p |-> p[i]]
    BY <1>1, <1>2 DEF Picked
<1>4. PICK n \in Nat : n = 0
    OBVIOUS
<1>5. p \in [1..n -> {0}]
    BY <1>3, <1>4
<1>6. p \in Seq({0}) /\ Len(p) = n
    BY <1>5
<1>7. p = << >>
    BY <1>4, <1>6, EmptySeq
<1> QED BY <1>2, <1>7

\* Splitting an empty list leaves an empty string, which is no tag.
LEMMA SplitNothing ==
    Split(<< >>, {}) = << << >> >>
<1>1. PICK S : S = {0}
    OBVIOUS
<1>2. PICK x : x = << >>
    OBVIOUS
<1>3. x \in Seq(S) /\ Len(x) = 0
    BY <1>2
<1>4. PICK strings : strings = <<x>>
    OBVIOUS
<1>5. strings \in Seq(Seq(S)) /\ Len(strings) = 1 /\ strings[1] = x
    BY <1>3, <1>4
<1>6. PICK e : e = [i \in 0..1 |-> i]
    OBVIOUS
<1>7. Cuts(x, strings, e)
    <2>1. e \in [0..1 -> Nat] /\ e[0] = 0 /\ e[1] = 1
        BY <1>6
    <2>2. \A i \in 1..1 : i = 1 /\ i - 1 = 0
        OBVIOUS
    <2> QED BY <1>3, <1>5, <2>1, <2>2 DEF Cuts
<1>8. PICK P : P = {}
    OBVIOUS
<1>9. P = {e[i] : i \in 1..Len(strings) - 1} /\ Len(strings) # 0
    BY <1>5, <1>8
<1>10. Split(x, P) = strings
    <2>1. x \in Seq(S) /\ strings \in Seq(Seq(S))
        BY <1>3, <1>5
    <2> QED BY <1>7, <1>9, <2>1, SplitAt, SMTT(30)
<1> QED BY <1>2, <1>4, <1>8, <1>10

\* The same, for strings over the same characters.
LEMMA TagsRoundTrip ==
    ASSUME NEW S, {Comma, Quote, Backslash, "[", "]"} \subseteq S,
           NEW tags \in Seq(Seq(Seq(S))), PlainTags(tags)
    PROVE  parseTagsJSON(tagsToJSON(tags)) = tags
<1>0. Comma \in S /\ "[" \in S /\ "]" \in S
    OBVIOUS
<1>1. PICK T : T = Seq(S)
    OBVIOUS
<1>2. PICK n \in Nat : n = Len(tags)
    BY LenProperties
<1>3. DOMAIN tags = 1..n /\ tags \in [1..n -> Seq(T)]
    BY <1>1, <1>2, LenProperties
<1>4. PICK q : q = [i \in 1..n |-> Written(tags[i])]
    OBVIOUS
<1>5. ASSUME NEW i \in 1..n
      PROVE  q[i] \in T /\ Shell(q[i]) /\ parseTagString(q[i]) = tags[i]
    <2>1. PICK tag : tag = tags[i]
        OBVIOUS
    <2>2. tag \in Seq(Seq(S))
        BY <1>1, <1>3, <2>1
    <2>3. \A j \in DOMAIN tag : Plain(tag[j])
        BY <1>3, <2>1 DEF PlainTags
    <2>4. Written(tag) \in Seq(S) /\ Shell(Written(tag)) /\ parseTagString(Written(tag)) = tag
        BY <2>2, <2>3, TagRoundTrip
    <2> QED BY <1>1, <1>4, <2>1, <2>4
<1>6. q \in Seq(Seq(S)) /\ Len(q) = n /\ DOMAIN q = 1..n
    <2>1. q \in [1..n -> T]
        BY <1>4, <1>5
    <2>2. q \in Seq(T) /\ Len(q) = n
        BY <2>1, SequenceFrom
    <2> QED BY <1>1, <2>1, <2>2
<1>7. PICK J : J = Joined(q)
    OBVIOUS
<1>8. PICK w : w = tagsToJSON(tags)
    OBVIOUS
<1>9. w = Bracketed(J)
    BY <1>3, <1>4, <1>7, <1>8 DEF tagsToJSON, Written
<1> DEFINE P == {i \in Commas(J) : Depth(J, i) = 0}
           parts == Split(J, P)
           kept == Picked(parts, {i \in DOMAIN parts : parts[i] # << >>})
<1>10. ASSUME J \in Seq(S)
       PROVE  parseTagsJSON(w) = [i \in DOMAIN kept |-> parseTagString(kept[i])]
    <2>1. IsBracketed(w) /\ Inner(w) = J
        BY <1>0, <1>9, <1>10, BracketedFacts
    <2> QED BY <2>1 DEF parseTagsJSON
<1>11. CASE n = 0
    <2>1. tags = << >> /\ q = << >>
        BY <1>2, <1>6, <1>11, EmptySeq
    <2>2. J = << >>
        BY <1>7, <2>1 DEF Joined, FlattenSeq
    <2>3. J \in Seq(S) /\ P = {}
        BY <2>2 DEF Commas
    <2> HIDE DEF P
    <2>4. parts = << << >> >>
        BY <2>2, <2>3, SplitNothing
    <2> HIDE DEF parts
    <2>5. {i \in DOMAIN parts : parts[i] # << >>} = {}
        BY <2>4
    <2>6. kept = << >>
        BY <2>5, PickedNone
    <2> HIDE DEF kept
    <2>7. parseTagsJSON(w) = [i \in DOMAIN kept |-> parseTagString(kept[i])]
        BY <1>10, <2>3
    <2>8. parseTagsJSON(w) = << >>
        <3>1. PICK z : z = [i \in DOMAIN kept |-> parseTagString(kept[i])]
            OBVIOUS
        <3>2. PICK m \in Nat : m = 0
            OBVIOUS
        <3>3. DOMAIN kept = 1..m
            BY <2>6, <3>2
        <3>4. z \in [1..m -> {0}]
            BY <3>1, <3>2, <3>3
        <3>5. z \in Seq({0}) /\ Len(z) = m
            BY <3>4
        <3>6. z = << >>
            BY <3>2, <3>5, EmptySeq
        <3> QED BY <2>7, <3>1, <3>6
    <2> QED BY <1>8, <2>1, <2>8
<1>12. CASE n # 0
    <2>1. J \in Seq(S) /\ \E e : Cuts(J, q, e)
        BY <1>0, <1>6, <1>7, <1>12, JoinedAt
    <2>2. PICK e : Cuts(J, q, e)
        BY <2>1
    <2>3. Shells(q) /\ Len(q) # 0
        BY <1>5, <1>6, <1>12 DEF Shells
    <2>4. P = {e[i] : i \in 1..Len(q) - 1}
        BY <1>6, <2>1, <2>2, <2>3, DepthAt
    <2> HIDE DEF P
    <2>5. parts = q
        BY <1>6, <2>1, <2>2, <2>3, <2>4, SplitAt
    <2> HIDE DEF parts
    <2>6. {i \in DOMAIN parts : parts[i] # << >>} = DOMAIN q
        <3>1. ASSUME NEW i \in 1..n PROVE q[i] # << >>
            <4>1. Len(q[i]) >= 2
                BY <1>5 DEF Shell
            <4> SUFFICES ASSUME q[i] = << >> PROVE FALSE
                OBVIOUS
            <4>2. Len(q[i]) = 0
                OBVIOUS
            <4> QED BY <4>1, <4>2
        <3> QED BY <1>6, <2>5, <3>1
    <2>7. kept = q
        <3>1. Picked(q, DOMAIN q) = q
            BY <1>6, PickedAll
        <3> QED BY <2>5, <2>6, <3>1
    <2> HIDE DEF kept
    <2>8. parseTagsJSON(w) = [i \in DOMAIN kept |-> parseTagString(kept[i])]
        BY <1>10, <2>1
    <2>9. tags = [i \in 1..n |-> parseTagString(q[i])]
        BY <1>3, <1>5
    <2> QED BY <1>6, <1>8, <2>7, <2>8, <2>9
<1> QED BY <1>11, <1>12

\* A sequence whose entries are in T.
LEMMA SequenceOf ==
    ASSUME NEW s, IsSequence(s), NEW T, \A i \in DOMAIN s : s[i] \in T
    PROVE  s \in Seq(T)
<1>1. PICK R : R = ToSet(s)
    OBVIOUS
<1>2. s \in Seq(R)
    BY <1>1 DEF IsSequence
<1>3. PICK n \in Nat : n = Len(s)
    BY <1>2, LenProperties
<1>4. s \in [1..n -> R] /\ DOMAIN s = 1..n
    BY <1>2, <1>3, LenProperties
<1>5. s \in [1..n -> T]
    BY <1>4
<1> QED BY <1>5

\* What parseTagsJSON reads of what tagsToJSON wrote are the same tags, when no part of a tag
\* has one of the characters the parser splits by.
THEOREM RoundTrip ==
    ASSUME NEW tags, IsTags(tags), PlainTags(tags)
    PROVE  parseTagsJSON(tagsToJSON(tags)) = tags
<1> DEFINE S == {Comma, Quote, Backslash, "[", "]"} \cup
                UNION {UNION {ToSet(tags[i][j]) : j \in DOMAIN tags[i]} : i \in DOMAIN tags}
<1>1. ASSUME NEW i \in DOMAIN tags, NEW j \in DOMAIN tags[i] PROVE tags[i][j] \in Seq(S)
    <2>1. PICK part : part = tags[i][j]
        OBVIOUS
    <2>2. ToSet(part) \subseteq S
        BY <2>1
    <2>3. \A k \in DOMAIN part : part[k] \in ToSet(part)
        BY DEF ToSet
    <2>4. IsSequence(part)
        BY <2>1 DEF IsTags
    <2> HIDE DEF S
    <2>5. part \in Seq(S)
        BY <2>2, <2>3, <2>4, SequenceOf
    <2> QED BY <2>1, <2>5
<1>2. {Comma, Quote, Backslash, "[", "]"} \subseteq S
    OBVIOUS
<1> HIDE DEF S
<1>3. PICK T : T = Seq(S)
    OBVIOUS
<1>4. ASSUME NEW i \in DOMAIN tags PROVE tags[i] \in Seq(T)
    <2>1. IsSequence(tags[i])
        BY DEF IsTags
    <2>2. \A j \in DOMAIN tags[i] : tags[i][j] \in T
        BY <1>1, <1>3
    <2> QED BY <2>1, <2>2, SequenceOf
<1>5. tags \in Seq(Seq(T))
    <2>1. IsSequence(tags)
        BY DEF IsTags
    <2> QED BY <1>4, <2>1, SequenceOf
<1>6. tags \in Seq(Seq(Seq(S)))
    BY <1>3, <1>5
<1> QED BY <1>2, <1>6, TagsRoundTrip
=============================================================================
