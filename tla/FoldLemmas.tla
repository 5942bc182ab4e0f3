----------------------------- MODULE FoldLemmas -----------------------------
(***************************************************************************)
(* Induction over the natural numbers, recursive functions and the folds   *)
(* of the community modules, as the proofs about Database and Validator    *)
(* use them.  The induction rules of the library take a formula as their   *)
(* parameter; the lemmas here take a set of numbers, or functions, in its  *)
(* place, and rest on the fact that < is well-founded.                     *)
(***************************************************************************)
EXTENDS Integers, Sequences, FiniteSets, SequencesExt, SequenceTheorems,
        FiniteSetTheorems, WellFoundedInduction, TLAPS

-----------------------------------------------------------------------------
(* Induction over the natural numbers, with a set in the place of the      *)
(* formula, and what it gives for functions that are defined recursively.  *)

\* Every set of natural numbers has a least one.
LEMMA LeastNumber ==
    ASSUME NEW T, T \subseteq Nat, T # {}
    PROVE  \E x \in T : \A y \in T : x <= y
  <1>1. PICK x \in T : \A y \in T : ~(<<y, x>> \in OpToRel(<, Nat))
    BY NatLessThanWellFounded, WFMin
  <1>2. ASSUME NEW y \in T, y < x PROVE FALSE
    <2>1. <<y, x>> \in Nat \X Nat /\ <<y, x>>[1] = y /\ <<y, x>>[2] = x
      OBVIOUS
    <2>2. <<y, x>>[1] < <<y, x>>[2]
      BY <1>2, <2>1
    <2>3. <<y, x>> \in OpToRel(<, Nat)
      BY <2>1, <2>2, Zenon DEF OpToRel
    <2> QED  BY <1>1, <2>3
  <1>3. \A y \in T : x <= y
    BY <1>2
  <1> QED  BY <1>3

\* A set that has 0, and with a number the next one, has every number.
LEMMA Induction ==
    ASSUME NEW S, 0 \in S, \A n \in Nat : n \in S => n + 1 \in S
    PROVE  \A n \in Nat : n \in S
  <1> DEFINE T == Nat \ S
  <1>1. CASE T # {}
    <2>1. PICK x \in T : \A y \in T : x <= y
      BY <1>1, LeastNumber
    <2>2. x # 0 /\ x - 1 \in Nat /\ x - 1 \notin T
      BY <2>1
    <2> QED  BY <2>2
  <1> QED  BY <1>1

\* Function g on 0 .. n has the value a at 0, and F[k] leads from the value at
\* k - 1 to the one at k.
Steps(g, n, a, F) == \A k \in 0 .. n : g[k] = IF k = 0 THEN a ELSE F[k][g[k - 1]]

\* A function on 0 .. n can be given by its value at 0 and the step from one
\* value to the next.
LEMMA Recursion ==
    ASSUME NEW S, NEW a \in S, NEW F \in [Nat -> [S -> S]], NEW n \in Nat
    PROVE  \E g \in [0 .. n -> S] : Steps(g, n, a, F)
  <1> DEFINE Good(m, g) == Steps(g, m, a, F)
             N == {m \in Nat : \E g \in [0 .. m -> S] : Good(m, g)}
  <1>1. 0 \in N
    <2>1. [k \in 0 .. 0 |-> a] \in [0 .. 0 -> S] /\ Good(0, [k \in 0 .. 0 |-> a])
      BY DEF Steps
    <2> QED  BY <2>1
  <1>2. ASSUME NEW m \in Nat, m \in N PROVE m + 1 \in N
    <2>1. PICK g \in [0 .. m -> S] : Good(m, g)
      BY <1>2
    <2> DEFINE h == [k \in 0 .. m + 1 |-> IF k = m + 1 THEN F[m + 1][g[m]] ELSE g[k]]
    <2>2. h \in [0 .. m + 1 -> S]
      <3>1. m + 1 \in Nat /\ g[m] \in S
        OBVIOUS
      <3>2. F[m + 1][g[m]] \in S
        BY <3>1
      <3>3. \A k \in 0 .. m + 1 : k # m + 1 => k \in 0 .. m
        OBVIOUS
      <3> QED  BY <3>2, <3>3
    <2>3. Good(m + 1, h)
      <3> SUFFICES ASSUME NEW k \in 0 .. m + 1
                   PROVE  h[k] = IF k = 0 THEN a ELSE F[k][h[k - 1]]
        BY DEF Steps
      <3>1. CASE k = m + 1
        <4>1. k # 0 /\ k - 1 = m /\ m \in 0 .. m + 1 /\ m # m + 1
          BY <3>1
        <4>2. h[m] = g[m]
          BY <4>1
        <4> QED  BY <3>1, <4>1, <4>2
      <3>2. CASE k # m + 1
        <4>1. k \in 0 .. m /\ h[k] = g[k]
          BY <3>2
        <4>2. k # 0 => k - 1 \in 0 .. m + 1 /\ k - 1 # m + 1
          BY <4>1
        <4>3. k # 0 => h[k - 1] = g[k - 1]
          BY <4>2
        <4> QED  BY <2>1, <4>1, <4>3 DEF Steps
      <3> QED  BY <3>1, <3>2
    <2>4. m + 1 \in Nat
      OBVIOUS
    <2> HIDE DEF h, Good
    <2> QED  BY <2>2, <2>3, <2>4
  <1>3. n \in N
    <2> HIDE DEF N
    <2> QED  BY <1>1, <1>2, Induction
  <1> QED  BY <1>3
-----------------------------------------------------------------------------
(* Sequences.                                                              *)

\* What is in a list is in the set of its elements.
LEMMA InToSet ==
    ASSUME NEW S, NEW s \in Seq(S)
    PROVE  /\ DOMAIN s = 1 .. Len(s)
           /\ \A i \in 1 .. Len(s) : s[i] \in ToSet(s)
           /\ \A x \in ToSet(s) : \E i \in 1 .. Len(s) : s[i] = x
           /\ ToSet(s) = {} <=> s = <<>>
           /\ ToSet(s) \subseteq S
  <1>1. DOMAIN s = 1 .. Len(s) /\ Len(s) \in Nat
    OBVIOUS
  <1>2. \A x : x \in ToSet(s) <=> \E i \in 1 .. Len(s) : s[i] = x
    BY <1>1 DEF ToSet
  <1>3. \A i \in 1 .. Len(s) : s[i] \in S
    OBVIOUS
  <1>4. s = <<>> => Len(s) = 0
    OBVIOUS
  <1>5. s # <<>> => 1 \in 1 .. Len(s)
    OBVIOUS
  <1>6. ToSet(s) = {} <=> s = <<>>
    BY <1>2, <1>4, <1>5
  <1> QED  BY <1>1, <1>2, <1>3, <1>6

\* The elements of two lists in one.
LEMMA ToSetConcat ==
    ASSUME NEW S, NEW s \in Seq(S), NEW t \in Seq(S)
    PROVE  ToSet(s \o t) = ToSet(s) \cup ToSet(t)
  <1>1. /\ s \o t \in Seq(S) /\ Len(s \o t) = Len(s) + Len(t)
        /\ Len(s) \in Nat /\ Len(t) \in Nat
        /\ DOMAIN s = 1 .. Len(s) /\ DOMAIN t = 1 .. Len(t)
        /\ DOMAIN (s \o t) = 1 .. Len(s) + Len(t)
    OBVIOUS
  <1>2. \A i \in 1 .. Len(s) : (s \o t)[i] = s[i]
    OBVIOUS
  <1>3. \A i \in 1 .. Len(t) : (s \o t)[Len(s) + i] = t[i]
    OBVIOUS
  <1>4. ASSUME NEW x \in ToSet(s \o t) PROVE x \in ToSet(s) \cup ToSet(t)
    <2>1. PICK i \in 1 .. Len(s) + Len(t) : x = (s \o t)[i]
      BY <1>1 DEF ToSet
    <2>2. CASE i <= Len(s)
      <3>1. i \in 1 .. Len(s)
        BY <1>1, <2>2
      <3> QED  BY <1>1, <1>2, <2>1, <3>1 DEF ToSet
    <2>3. CASE i > Len(s)
      <3>1. i - Len(s) \in 1 .. Len(t) /\ Len(s) + (i - Len(s)) = i
        BY <1>1, <2>3
      <3>2. x = t[i - Len(s)]
        BY <1>3, <2>1, <3>1
      <3> QED  BY <1>1, <3>1, <3>2 DEF ToSet
    <2> QED  BY <1>1, <2>2, <2>3
  <1>5. ASSUME NEW x \in ToSet(s) PROVE x \in ToSet(s \o t)
    <2>1. PICK i \in 1 .. Len(s) : x = s[i]
      BY <1>1 DEF ToSet
    <2>2. i \in 1 .. Len(s) + Len(t) /\ x = (s \o t)[i]
      BY <1>1, <1>2, <2>1
    <2> QED  BY <1>1, <2>2 DEF ToSet
  <1>6. ASSUME NEW x \in ToSet(t) PROVE x \in ToSet(s \o t)
    <2>1. PICK i \in 1 .. Len(t) : x = t[i]
      BY <1>1 DEF ToSet
    <2>2. Len(s) + i \in 1 .. Len(s) + Len(t) /\ x = (s \o t)[Len(s) + i]
      BY <1>1, <1>3, <2>1
    <2> QED  BY <1>1, <2>2 DEF ToSet
  <1> QED  BY <1>4, <1>5, <1>6

\* One more element.
LEMMA ToSetAppend ==
    ASSUME NEW S, NEW s \in Seq(S), NEW x \in S
    PROVE  ToSet(Append(s, x)) = ToSet(s) \cup {x}
  <1>1. Append(s, x) = s \o <<x>> /\ <<x>> \in Seq(S)
    OBVIOUS
  <1>2. ToSet(<<x>>) = {x}
    <2>1. DOMAIN <<x>> = {1} /\ <<x>>[1] = x
      OBVIOUS
    <2> QED  BY <2>1 DEF ToSet
  <1>3. ToSet(s \o <<x>>) = ToSet(s) \cup ToSet(<<x>>)
    BY <1>1, ToSetConcat
  <1> QED  BY <1>1, <1>2, <1>3

\* The elements of a list are finitely many, at most as many as its places.
LEMMA ToSetFinite ==
    ASSUME NEW S, NEW s \in Seq(S)
    PROVE  /\ IsFiniteSet(ToSet(s))
           /\ Cardinality(ToSet(s)) \in Nat
           /\ Cardinality(ToSet(s)) <= Len(s)
  <1>1. DOMAIN s = 1 .. Len(s) /\ Len(s) \in Nat
    OBVIOUS
  <1>2. s \in Surjection(1 .. Len(s), ToSet(s))
    BY <1>1 DEF ToSet, Surjection
  <1>3. IsFiniteSet(1 .. Len(s)) /\ Cardinality(1 .. Len(s)) = Len(s)
    BY <1>1, FS_Interval
  <1>4. IsFiniteSet(ToSet(s)) /\ Cardinality(ToSet(s)) <= Len(s)
    BY <1>2, <1>3, FS_Surjection
  <1> QED  BY <1>4, FS_CardinalityType

-----------------------------------------------------------------------------
(* The greatest and the least of some places.                              *)

\* The greatest of some places is one of them.
LEMMA MaxIsIn ==
    ASSUME NEW n \in Nat, NEW I, I \subseteq 1 .. n, I # {}
    PROVE  Max(I) \in I
  <1> DEFINE T == {n - i : i \in I}
  <1>1. T \subseteq Nat /\ T # {}
    OBVIOUS
  <1>2. PICK x \in T : \A y \in T : x <= y
    BY <1>1, LeastNumber
  <1>3. PICK m \in I : x = n - m
    OBVIOUS
  <1>4. \A i \in I : m >= i
    <2> TAKE i \in I
    <2>1. n - i \in T
      OBVIOUS
    <2>2. n - m <= n - i
      BY <1>2, <1>3, <2>1
    <2> QED  BY <2>2
  <1>5. \E m1 \in I : \A i \in I : m1 >= i
    BY <1>4
  <1> QED  BY <1>5 DEF Max

\* So is the least.
LEMMA MinIsIn ==
    ASSUME NEW I, I \subseteq Nat, I # {}
    PROVE  Min(I) \in I /\ \A i \in I : Min(I) <= i
  <1>1. \E m \in I : \A i \in I : m =< i
    BY LeastNumber
  <1> QED  BY <1>1 DEF Min

\* The greatest of the first k places is k, the least of those from k is k.
LEMMA IntervalEnds ==
    ASSUME NEW n \in Nat, NEW k \in 1 .. n
    PROVE  /\ 1 .. k # {} /\ Max(1 .. k) = k /\ (1 .. k) \ {k} = 1 .. (k - 1)
           /\ k .. n # {} /\ Min(k .. n) = k /\ (k .. n) \ {k} = (k + 1) .. n
  <1>1. k \in 1 .. k /\ k \in k .. n
    OBVIOUS
  <1>2. Max(1 .. k) = k
    <2>1. \A x \in 1 .. k : (\A y \in 1 .. k : x >= y) => x = k
      OBVIOUS
    <2>2. \A y \in 1 .. k : k >= y
      OBVIOUS
    <2> QED  BY <1>1, <2>1, <2>2 DEF Max
  <1>3. Min(k .. n) = k
    <2>1. \A x \in k .. n : (\A y \in k .. n : x =< y) => x = k
      OBVIOUS
    <2>2. \A y \in k .. n : k =< y
      OBVIOUS
    <2> QED  BY <1>1, <2>1, <2>2 DEF Min
  <1>4. (1 .. k) \ {k} = 1 .. (k - 1) /\ (k .. n) \ {k} = (k + 1) .. n
    OBVIOUS
  <1> QED  BY <1>1, <1>2, <1>3, <1>4

-----------------------------------------------------------------------------
(* Folds.  FoldLeft and FoldRight are recursive functions on the sets of   *)
(* places: c[d] is the place of d that is taken next, the greatest or the  *)
(* least, and F[i] what the element at place i does to a value.            *)

FoldsBy(g, D, c, a, F) ==
    \A d \in SUBSET D : g[d] = IF d = {} THEN a ELSE F[c[d]][g[d \ {c[d]}]]

\* There is such a function.
LEMMA SetRecursion ==
    ASSUME NEW D, IsFiniteSet(D), NEW c, \A d \in SUBSET D : d # {} => c[d] \in d,
           NEW S, NEW a \in S, NEW F \in [D -> [S -> S]]
    PROVE  \E g \in [SUBSET D -> S] : FoldsBy(g, D, c, a, F)
  <1> DEFINE Small(k) == {d \in SUBSET D : Cardinality(d) <= k}
             Good(k, g) == \A d \in Small(k) :
                              g[d] = IF d = {} THEN a ELSE F[c[d]][g[d \ {c[d]}]]
             N == {k \in Nat : \E g \in [Small(k) -> S] : Good(k, g)}
  <1>0. \A d \in SUBSET D : /\ IsFiniteSet(d) /\ Cardinality(d) \in Nat
                            /\ Cardinality(d) <= Cardinality(D)
                            /\ Cardinality(d) = 0 <=> d = {}
    BY FS_Subset, FS_EmptySet, FS_CardinalityType
  <1>s. ASSUME NEW d \in SUBSET D, d # {}
        PROVE  /\ c[d] \in D /\ d \ {c[d]} \in SUBSET D
               /\ Cardinality(d \ {c[d]}) = Cardinality(d) - 1
    <2>1. c[d] \in d
      BY <1>s
    <2>2. Cardinality(d \ {c[d]}) = Cardinality(d) - 1
      BY <1>0, <2>1, FS_RemoveElement
    <2> QED  BY <2>1, <2>2
  <1>1. 0 \in N
    <2> DEFINE g == [d \in Small(0) |-> a]
    <2>1. \A d \in Small(0) : d = {}
      BY <1>0
    <2>2. g \in [Small(0) -> S] /\ Good(0, g)
      BY <2>1
    <2> QED  BY <2>2
  <1>2. ASSUME NEW k \in Nat, k \in N PROVE k + 1 \in N
    <2>1. PICK g \in [Small(k) -> S] : Good(k, g)
      BY <1>2
    <2> DEFINE h == [d \in Small(k + 1) |->
                        IF d \in Small(k) THEN g[d] ELSE F[c[d]][g[d \ {c[d]}]]]
    <2>2. ASSUME NEW d \in Small(k + 1), d # {}
          PROVE  c[d] \in D /\ d \ {c[d]} \in Small(k)
      BY <1>0, <1>s, <2>2
    <2>3. ASSUME NEW d \in Small(k + 1), d \notin Small(k) PROVE d # {}
      BY <1>0, <2>3
    <2>4. ASSUME NEW d \in Small(k + 1)
          PROVE  h[d] \in S
      <3>1. CASE d \in Small(k)
        BY <3>1
      <3>2. CASE d \notin Small(k)
        <4>1. g[d \ {c[d]}] \in S /\ F[c[d]] \in [S -> S]
          BY <2>2, <2>3, <3>2
        <4> HIDE DEF Small
        <4> QED  BY <3>2, <4>1
      <3> QED  BY <3>1, <3>2
    <2>5. h \in [Small(k + 1) -> S]
      <3> HIDE DEF Small
      <3> QED  BY <2>4
    <2>6. ASSUME NEW d \in Small(k + 1)
          PROVE  h[d] = IF d = {} THEN a ELSE F[c[d]][h[d \ {c[d]}]]
      <3>1. CASE d = {}
        <4>1. d \in Small(k)
          BY <1>0, <3>1
        <4>2. g[d] = a
          BY <2>1, <4>1, <3>1
        <4> HIDE DEF Small
        <4> QED  BY <3>1, <4>1, <4>2
      <3>2. CASE d # {}
        <4>1. d \ {c[d]} \in Small(k) /\ d \ {c[d]} \in Small(k + 1)
          BY <1>0, <2>2, <3>2
        <4>2. h[d \ {c[d]}] = g[d \ {c[d]}]
          <5> HIDE DEF Small
          <5> QED  BY <4>1
        <4>3. d \in Small(k) => g[d] = F[c[d]][g[d \ {c[d]}]]
          BY <2>1, <3>2
        <4> HIDE DEF Small
        <4> QED  BY <3>2, <4>2, <4>3
      <3> QED  BY <3>1, <3>2
    <2>7. Good(k + 1, h)
      <3> HIDE DEF h, Small
      <3> QED  BY <2>6
    <2> HIDE DEF h, Good, Small
    <2> QED  BY <2>5, <2>7
  <1>3. Cardinality(D) \in N
    <2>1. Cardinality(D) \in Nat
      BY FS_CardinalityType
    <2> HIDE DEF N
    <2> QED  BY <1>1, <1>2, <2>1, Induction
  <1>4. Small(Cardinality(D)) = SUBSET D
    BY <1>0
  <1>5. PICK g \in [SUBSET D -> S] : Good(Cardinality(D), g)
    BY <1>3, <1>4
  <1> QED  BY <1>4, <1>5 DEF FoldsBy

-----------------------------------------------------------------------------
(* FlattenSeq.                                                             *)

\* The lists that FlattenSeq goes through.
Flattens(flat, seqs) ==
    /\ flat[1] = seqs[1]
    /\ \A i \in 2 .. Len(seqs) : flat[i] = flat[i - 1] \o seqs[i]
    /\ FlattenSeq(seqs) = flat[Len(seqs)]

\* FlattenSeq appends the sequences one after the other.
LEMMA FlattenSteps ==
    ASSUME NEW S, NEW seqs \in Seq(Seq(S)), seqs # <<>>
    PROVE  \E flat \in [1 .. Len(seqs) -> Seq(S)] : Flattens(flat, seqs)
  <1> DEFINE n == Len(seqs)
             Body(f) == [i \in 1 .. n |-> IF i = 1 THEN seqs[i]
                                                   ELSE f[i - 1] \o seqs[i]]
             flatten == CHOOSE f : f = Body(f)
             step == [k \in Nat |-> [s \in Seq(S) |->
                        IF k + 1 \in 1 .. n THEN s \o seqs[k + 1] ELSE s]]
  <1>1. n \in Nat /\ n # 0 /\ n - 1 \in Nat /\ seqs[1] \in Seq(S)
    OBVIOUS
  <1>2. step \in [Nat -> [Seq(S) -> Seq(S)]]
    <2>1. ASSUME NEW k \in Nat, NEW s \in Seq(S)
          PROVE  (IF k + 1 \in 1 .. n THEN s \o seqs[k + 1] ELSE s) \in Seq(S)
      OBVIOUS
    <2> QED  BY <2>1
  <1>3. PICK g \in [0 .. n - 1 -> Seq(S)] : Steps(g, n - 1, seqs[1], step)
    <2> HIDE DEF step, n
    <2> QED  BY <1>1, <1>2, Recursion
  <1> DEFINE f == [i \in 1 .. n |-> g[i - 1]]
  <1>4. f = Body(f)
    <2>1. ASSUME NEW i \in 1 .. n
          PROVE  f[i] = IF i = 1 THEN seqs[i] ELSE f[i - 1] \o seqs[i]
      <3>1. CASE i = 1
        <4>1. i - 1 = 0 /\ 0 \in 0 .. n - 1
          BY <3>1, <1>1
        <4>2. g[0] = seqs[1]
          BY <1>3, <4>1 DEF Steps
        <4> QED  BY <3>1, <4>1, <4>2
      <3>2. CASE i # 1
        <4>1. i - 1 \in 0 .. n - 1 /\ i - 1 # 0 /\ i - 1 \in Nat
          BY <3>2, <1>1
        <4>2. i - 1 - 1 \in 0 .. n - 1 /\ i - 1 \in 1 .. n /\ i - 1 + 1 = i
          BY <3>2, <1>1
        <4>3. g[i - 1] = step[i - 1][g[i - 1 - 1]]
          BY <1>3, <4>1 DEF Steps
        <4>4. g[i - 1 - 1] \in Seq(S)
          BY <4>2
        <4>5. step[i - 1][g[i - 1 - 1]] = g[i - 1 - 1] \o seqs[i]
          BY <4>1, <4>2, <4>4
        <4>6. f[i - 1] = g[i - 1 - 1]
          BY <4>2
        <4> QED  BY <3>2, <4>3, <4>5, <4>6
      <3> QED  BY <3>1, <3>2
    <2> QED  BY <2>1
  <1>5. flatten = Body(flatten)
    <2> HIDE DEF f, Body
    <2> QED  BY <1>4
  <1>6. \A i \in 1 .. n : flatten[i] = IF i = 1 THEN seqs[i]
                                            ELSE flatten[i - 1] \o seqs[i]
    <2> HIDE DEF flatten
    <2> QED  BY <1>5
  <1> DEFINE T == {k \in Nat : k + 1 \in 1 .. n => flatten[k + 1] \in Seq(S)}
  <1>7. 0 \in T
    <2>1. flatten[1] = seqs[1]
      <3> HIDE DEF flatten
      <3> QED  BY <1>1, <1>5
    <2> HIDE DEF flatten
    <2> QED  BY <2>1, <1>1
  <1>8. ASSUME NEW k \in Nat, k \in T PROVE k + 1 \in T
    <2> HIDE DEF flatten
    <2>1. ASSUME NEW j \in 1 .. n, j # 1, flatten[j - 1] \in Seq(S)
          PROVE  flatten[j] \in Seq(S)
      <3>1. flatten[j] = flatten[j - 1] \o seqs[j]
        BY <1>6, <2>1
      <3>2. seqs[j] \in Seq(S)
        OBVIOUS
      <3> QED  BY <3>1, <3>2, <2>1
    <2>2. k + 1 \in Nat /\ k + 1 + 1 - 1 = k + 1 /\ k + 1 + 1 # 1
      OBVIOUS
    <2>3. k + 1 + 1 \in 1 .. n => k + 1 \in 1 .. n
      OBVIOUS
    <2> QED  BY <1>8, <2>1, <2>2, <2>3
  <1>9. \A k \in Nat : k \in T
    <2> HIDE DEF T
    <2> QED  BY <1>7, <1>8, Induction
  <1>12. flatten \in [1 .. n -> Seq(S)]
    <2>1. flatten = [i \in 1 .. n |-> flatten[i]]
      <3> HIDE DEF n
      <3> QED  BY <1>5, ZenonT(30)
    <2>2. ASSUME NEW i \in 1 .. n PROVE flatten[i] \in Seq(S)
      <3>1. i - 1 \in Nat /\ i - 1 + 1 = i
        OBVIOUS
      <3>2. i - 1 \in T
        BY <1>9, <3>1
      <3> HIDE DEF flatten
      <3> QED  BY <3>1, <3>2
    <2> HIDE DEF flatten
    <2> QED  BY <2>1, <2>2
  <1>11. FlattenSeq(seqs) = flatten[n]
    BY <1>1 DEF FlattenSeq
  <1>13. flatten[1] = seqs[1] /\ \A i \in 2 .. n : flatten[i] = flatten[i - 1] \o seqs[i]
    <2> HIDE DEF flatten
    <2> QED  BY <1>1, <1>6
  <1> HIDE DEF flatten
  <1> QED  BY <1>11, <1>12, <1>13 DEF Flattens

\* FlattenSeq of a sequence of sequences is a sequence.
LEMMA FlattenSeqType ==
    ASSUME NEW S, NEW seqs \in Seq(Seq(S))
    PROVE  FlattenSeq(seqs) \in Seq(S)
  <1>1. CASE seqs = <<>>
    BY <1>1 DEF FlattenSeq
  <1>2. CASE seqs # <<>>
    <2>1. PICK flat \in [1 .. Len(seqs) -> Seq(S)] : FlattenSeq(seqs) = flat[Len(seqs)]
      BY <1>2, FlattenSteps DEF Flattens
    <2>2. Len(seqs) \in 1 .. Len(seqs)
      BY <1>2
    <2> QED  BY <2>1, <2>2
  <1> QED  BY <1>1, <1>2

-----------------------------------------------------------------------------
(* The values that a fold goes through.  A use of FoldLeft unfolds to the  *)
(* value at 1 .. n of a function iter that some equation determines;       *)
(* LeftFold says that the equation has a solution, and LeftFoldSteps what  *)
(* any solution does.                                                      *)

LeftSolves(g, n, a, F) ==
    \A d \in SUBSET (1 .. n) :
       g[d] = IF d = {} THEN a ELSE F[Max(d)][g[d \ {Max(d)}]]

RightSolves(g, n, a, F) ==
    \A d \in SUBSET (1 .. n) :
       g[d] = IF d = {} THEN a ELSE F[Min(d)][g[d \ {Min(d)}]]

\* A solution among all functions, as long as its values are in S.
LeftIterates(iter, n, S, a, F) ==
    /\ iter[{}] = a
    /\ \A d \in SUBSET (1 .. n) :
          d # {} /\ iter[d \ {Max(d)}] \in S
             => iter[d] = F[Max(d)][iter[d \ {Max(d)}]]

RightIterates(iter, n, S, a, F) ==
    /\ iter[{}] = a
    /\ \A d \in SUBSET (1 .. n) :
          d # {} /\ iter[d \ {Min(d)}] \in S
             => iter[d] = F[Min(d)][iter[d \ {Min(d)}]]

\* The values that F goes through, from a to r.
LeftSteps(acc, n, a, F, r) ==
    /\ acc[0] = a
    /\ \A k \in 1 .. n : acc[k] = F[k][acc[k - 1]]
    /\ acc[n] = r

RightSteps(acc, n, a, F, r) ==
    /\ acc[n + 1] = a
    /\ \A k \in 1 .. n : acc[k] = F[k][acc[k + 1]]
    /\ acc[1] = r

\* There is a function that takes the places from the first to the last.
LEMMA LeftFold ==
    ASSUME NEW n \in Nat, NEW S, NEW a \in S, NEW F \in [1 .. n -> [S -> S]]
    PROVE  \E g \in [SUBSET (1 .. n) -> S] : LeftSolves(g, n, a, F)
  <1> DEFINE D == 1 .. n
             c == [d \in SUBSET D |-> Max(d)]
  <1>1. IsFiniteSet(D)
    BY FS_Interval
  <1>2. \A d \in SUBSET D : c[d] = Max(d)
    OBVIOUS
  <1>3. \A d \in SUBSET D : d # {} => c[d] \in d
    BY <1>2, MaxIsIn
  <1>4. PICK g \in [SUBSET D -> S] : FoldsBy(g, D, c, a, F)
    <2> HIDE DEF c, D
    <2>1. F \in [D -> [S -> S]]
      BY DEF D
    <2> QED  BY <1>1, <1>3, <2>1, SetRecursion
  <1>5. \A d \in SUBSET D : g[d] = IF d = {} THEN a ELSE F[Max(d)][g[d \ {Max(d)}]]
    <2> HIDE DEF c, D
    <2> QED  BY <1>2, <1>4 DEF FoldsBy
  <1> QED  BY <1>5 DEF LeftSolves

\* And one that takes them from the last to the first.
LEMMA RightFold ==
    ASSUME NEW n \in Nat, NEW S, NEW a \in S, NEW F \in [1 .. n -> [S -> S]]
    PROVE  \E g \in [SUBSET (1 .. n) -> S] : RightSolves(g, n, a, F)
  <1> DEFINE D == 1 .. n
             c == [d \in SUBSET D |-> Min(d)]
  <1>1. IsFiniteSet(D)
    BY FS_Interval
  <1>2. \A d \in SUBSET D : c[d] = Min(d)
    OBVIOUS
  <1>3. \A d \in SUBSET D : d # {} => c[d] \in d
    <2> TAKE d \in SUBSET D
    <2> HAVE d # {}
    <2>1. d \subseteq Nat
      OBVIOUS
    <2> QED  BY <1>2, <2>1, MinIsIn
  <1>4. PICK g \in [SUBSET D -> S] : FoldsBy(g, D, c, a, F)
    <2> HIDE DEF c, D
    <2>1. F \in [D -> [S -> S]]
      BY DEF D
    <2> QED  BY <1>1, <1>3, <2>1, SetRecursion
  <1>5. \A d \in SUBSET D : g[d] = IF d = {} THEN a ELSE F[Min(d)][g[d \ {Min(d)}]]
    <2> HIDE DEF c, D
    <2> QED  BY <1>2, <1>4 DEF FoldsBy
  <1> QED  BY <1>5 DEF RightSolves

\* The values of a fold from the left, one for each prefix.
LEMMA LeftFoldSteps ==
    ASSUME NEW n \in Nat, NEW S, NEW a \in S, NEW F \in [1 .. n -> [S -> S]],
           NEW iter, LeftIterates(iter, n, S, a, F)
    PROVE  \E acc \in [0 .. n -> S] : LeftSteps(acc, n, a, F, iter[1 .. n])
  <1> DEFINE acc == [k \in 0 .. n |-> iter[1 .. k]]
             T == {k \in Nat : k \in 0 .. n => acc[k] \in S}
  <1>1. acc[0] = a
    <2>1. 1 .. 0 = {} /\ 0 \in 0 .. n
      OBVIOUS
    <2> QED  BY <2>1 DEF LeftIterates
  <1>2. ASSUME NEW k \in 1 .. n, acc[k - 1] \in S
        PROVE  acc[k] = F[k][acc[k - 1]]
    <2>1. 1 .. k # {} /\ Max(1 .. k) = k /\ (1 .. k) \ {k} = 1 .. (k - 1)
      BY IntervalEnds
    <2>2. 1 .. k \in SUBSET (1 .. n) /\ k \in 0 .. n /\ k - 1 \in 0 .. n
      OBVIOUS
    <2>3. acc[k] = iter[1 .. k] /\ acc[k - 1] = iter[1 .. (k - 1)]
      BY <2>2
    <2>4. (1 .. k) \ {Max(1 .. k)} = 1 .. (k - 1)
      BY <2>1
    <2>5. iter[(1 .. k) \ {Max(1 .. k)}] \in S
      BY <1>2, <2>3, <2>4
    <2>6. iter[1 .. k] = F[Max(1 .. k)][iter[(1 .. k) \ {Max(1 .. k)}]]
      BY <2>1, <2>2, <2>5 DEF LeftIterates
    <2> HIDE DEF acc
    <2> QED  BY <2>1, <2>3, <2>4, <2>6
  <1>3. \A k \in Nat : k \in T
    <2> HIDE DEF acc
    <2>1. 0 \in T
      BY <1>1
    <2>2. ASSUME NEW k \in Nat, k \in T PROVE k + 1 \in T
      <3>1. ASSUME k + 1 \in 0 .. n PROVE acc[k + 1] \in S
        <4>1. k \in 0 .. n /\ k + 1 \in 1 .. n /\ k + 1 - 1 = k
          BY <3>1
        <4>2. acc[k] \in S /\ F[k + 1] \in [S -> S]
          BY <2>2, <4>1
        <4>3. acc[k + 1] = F[k + 1][acc[k]]
          BY <1>2, <4>1, <4>2
        <4> QED  BY <4>2, <4>3
      <3> QED  BY <3>1
    <2> HIDE DEF T
    <2> QED  BY <2>1, <2>2, Induction
  <1>4. \A k \in 0 .. n : acc[k] \in S
    <2> HIDE DEF acc
    <2> QED  BY <1>3
  <1>5. acc \in [0 .. n -> S]
    BY <1>4
  <1>6. \A k \in 1 .. n : acc[k] = F[k][acc[k - 1]]
    <2> TAKE k \in 1 .. n
    <2>1. k - 1 \in 0 .. n
      OBVIOUS
    <2> HIDE DEF acc
    <2> QED  BY <1>2, <1>4, <2>1
  <1>7. acc[n] = iter[1 .. n]
    OBVIOUS
  <1> HIDE DEF acc
  <1> QED  BY <1>1, <1>5, <1>6, <1>7 DEF LeftSteps

\* The values of a fold from the right, one for each suffix.
LEMMA RightFoldSteps ==
    ASSUME NEW n \in Nat, NEW S, NEW a \in S, NEW F \in [1 .. n -> [S -> S]],
           NEW iter, RightIterates(iter, n, S, a, F)
    PROVE  \E acc \in [1 .. n + 1 -> S] : RightSteps(acc, n, a, F, iter[1 .. n])
  <1> DEFINE acc == [k \in 1 .. n + 1 |-> iter[k .. n]]
             T == {k \in Nat : k \in 0 .. n => acc[n + 1 - k] \in S}
  <1>1. acc[n + 1] = a
    <2>1. (n + 1) .. n = {} /\ n + 1 \in 1 .. n + 1
      OBVIOUS
    <2> QED  BY <2>1 DEF RightIterates
  <1>2. ASSUME NEW k \in 1 .. n, acc[k + 1] \in S
        PROVE  acc[k] = F[k][acc[k + 1]]
    <2>1. k .. n # {} /\ Min(k .. n) = k /\ (k .. n) \ {k} = (k + 1) .. n
      BY IntervalEnds
    <2>2. k .. n \in SUBSET (1 .. n) /\ k \in 1 .. n + 1 /\ k + 1 \in 1 .. n + 1
      OBVIOUS
    <2>3. acc[k] = iter[k .. n] /\ acc[k + 1] = iter[(k + 1) .. n]
      BY <2>2
    <2>4. (k .. n) \ {Min(k .. n)} = (k + 1) .. n
      BY <2>1
    <2>5. iter[(k .. n) \ {Min(k .. n)}] \in S
      BY <1>2, <2>3, <2>4
    <2>6. iter[k .. n] = F[Min(k .. n)][iter[(k .. n) \ {Min(k .. n)}]]
      BY <2>1, <2>2, <2>5 DEF RightIterates
    <2> HIDE DEF acc
    <2> QED  BY <2>1, <2>3, <2>4, <2>6
  <1>3. \A k \in Nat : k \in T
    <2> HIDE DEF acc
    <2>1. 0 \in T
      BY <1>1
    <2>2. ASSUME NEW k \in Nat, k \in T PROVE k + 1 \in T
      <3>1. ASSUME k + 1 \in 0 .. n PROVE acc[n + 1 - (k + 1)] \in S
        <4> DEFINE j == n - k
        <4>1. /\ k \in 0 .. n /\ j \in 1 .. n /\ n + 1 - k = j + 1
              /\ n + 1 - (k + 1) = j
          BY <3>1
        <4> HIDE DEF j
        <4>2. acc[j + 1] \in S /\ F[j] \in [S -> S]
          BY <2>2, <4>1
        <4>3. acc[j] = F[j][acc[j + 1]]
          BY <1>2, <4>1, <4>2
        <4> QED  BY <4>1, <4>2, <4>3
      <3> QED  BY <3>1
    <2> HIDE DEF T
    <2> QED  BY <2>1, <2>2, Induction
  <1>4. \A k \in 1 .. n + 1 : acc[k] \in S
    <2> HIDE DEF acc
    <2> TAKE k \in 1 .. n + 1
    <2>1. n + 1 - k \in Nat /\ n + 1 - k \in 0 .. n /\ n + 1 - (n + 1 - k) = k
      OBVIOUS
    <2>2. n + 1 - k \in T
      BY <1>3, <2>1
    <2> QED  BY <2>1, <2>2
  <1>5. acc \in [1 .. n + 1 -> S]
    BY <1>4
  <1>6. \A k \in 1 .. n : acc[k] = F[k][acc[k + 1]]
    <2> TAKE k \in 1 .. n
    <2>1. k + 1 \in 1 .. n + 1
      OBVIOUS
    <2> HIDE DEF acc
    <2> QED  BY <1>2, <1>4, <2>1
  <1>7. acc[1] = iter[1 .. n]
    OBVIOUS
  <1> HIDE DEF acc
  <1> QED  BY <1>1, <1>5, <1>6, <1>7 DEF RightSteps

-----------------------------------------------------------------------------
(* Sums.                                                                   *)

\* FoldLeft adds the numbers up from the first to the last.
LEMMA SumSteps ==
    ASSUME NEW s \in Seq(Nat)
    PROVE  \E acc \in [0 .. Len(s) -> Nat] :
              /\ acc[0] = 0
              /\ \A k \in 1 .. Len(s) : acc[k] = acc[k - 1] + s[k]
              /\ FoldLeft(+, 0, s) = acc[Len(s)]
  <1> DEFINE n == Len(s)
             Body(f) == [d \in SUBSET (1 .. n) |->
                           IF d = {} THEN 0 ELSE f[d \ {Max(d)}] + s[Max(d)]]
             iter == CHOOSE f : f = Body(f)
             F == [i \in 1 .. n |-> [v \in Nat |-> v + s[i]]]
  <1>1. n \in Nat /\ DOMAIN s = 1 .. n /\ \A i \in 1 .. n : s[i] \in Nat
    OBVIOUS
  <1>2. F \in [1 .. n -> [Nat -> Nat]]
    BY <1>1
  <1>3. \A i \in 1 .. n, v \in Nat : F[i][v] = v + s[i]
    OBVIOUS
  <1> HIDE DEF n, F
  <1>4. \A d \in SUBSET (1 .. n) : d # {} => Max(d) \in 1 .. n /\ d \ {Max(d)} \in SUBSET (1 .. n)
    BY <1>1, MaxIsIn
  <1>5. PICK g \in [SUBSET (1 .. n) -> Nat] : LeftSolves(g, n, 0, F)
    <2>1. 0 \in Nat
      OBVIOUS
    <2> QED  BY <1>1, <1>2, <2>1, LeftFold
  <1>6. g = Body(g)
    BY <1>3, <1>4, <1>5 DEF LeftSolves
  <1>7. iter = Body(iter)
    <2> HIDE DEF Body
    <2> QED  BY <1>6
  <1>8. FoldLeft(+, 0, s) = iter[1 .. n]
    BY <1>1 DEF FoldLeft, MapThenFoldSet
  <1> HIDE DEF iter
  <1>9. LeftIterates(iter, n, Nat, 0, F)
    BY <1>3, <1>4, <1>7 DEF LeftIterates
  <1>10. PICK acc \in [0 .. n -> Nat] : LeftSteps(acc, n, 0, F, iter[1 .. n])
    <2>1. 0 \in Nat
      OBVIOUS
    <2> QED  BY <1>1, <1>2, <1>9, <2>1, LeftFoldSteps
  <1>11. \A k \in 1 .. n : acc[k] = acc[k - 1] + s[k]
    <2> TAKE k \in 1 .. n
    <2>1. acc[k - 1] \in Nat
      BY <1>1
    <2> QED  BY <1>3, <1>10, <2>1 DEF LeftSteps
  <1> QED  BY <1>8, <1>10, <1>11 DEF n, LeftSteps

-----------------------------------------------------------------------------
(* Lists of which no element comes twice.                                  *)

\* Two lists in one, of which no element comes twice.
LEMMA ConcatDistinct ==
    ASSUME NEW S, NEW s \in Seq(S), NEW t \in Seq(S)
    PROVE  Cardinality(ToSet(s \o t)) = Len(s \o t)
              <=> /\ Cardinality(ToSet(s)) = Len(s)
                  /\ Cardinality(ToSet(t)) = Len(t)
                  /\ ToSet(s) \cap ToSet(t) = {}
  <1> DEFINE A == ToSet(s)
             B == ToSet(t)
  <1>1. /\ IsFiniteSet(A) /\ Cardinality(A) \in Nat /\ Cardinality(A) <= Len(s)
        /\ IsFiniteSet(B) /\ Cardinality(B) \in Nat /\ Cardinality(B) <= Len(t)
    BY ToSetFinite
  <1>2. Len(s \o t) = Len(s) + Len(t) /\ Len(s) \in Nat /\ Len(t) \in Nat
    OBVIOUS
  <1>3. ToSet(s \o t) = A \cup B
    BY ToSetConcat
  <1> HIDE DEF A, B
  <1>4. Cardinality(A \cup B) = Cardinality(A) + Cardinality(B) - Cardinality(A \cap B)
    BY <1>1, FS_Union
  <1>5. /\ IsFiniteSet(A \cap B) /\ Cardinality(A \cap B) \in Nat
        /\ Cardinality(A \cap B) = 0 <=> A \cap B = {}
    BY <1>1, FS_Intersection, FS_CardinalityType, FS_EmptySet
  <1>6. Cardinality(A \cup B) = Len(s) + Len(t)
           <=> Cardinality(A) = Len(s) /\ Cardinality(B) = Len(t) /\ A \cap B = {}
    BY <1>1, <1>2, <1>4, <1>5
  <1> QED  BY <1>2, <1>3, <1>6 DEF A, B

\* What is in the first k lists.
SetUpto(seqs, k) == UNION {ToSet(seqs[i]) : i \in 1 .. k}

\* What is in the lists that FlattenSeq goes through.
LEMMA FlattenSets ==
    ASSUME NEW S, NEW seqs \in Seq(Seq(S)), NEW flat \in [1 .. Len(seqs) -> Seq(S)],
           Flattens(flat, seqs)
    PROVE  \A k \in 1 .. Len(seqs) : ToSet(flat[k]) = SetUpto(seqs, k)
  <1> DEFINE n == Len(seqs)
             Upto(k) == UNION {ToSet(seqs[i]) : i \in 1 .. k}
             T == {k \in Nat : k + 1 \in 1 .. n => ToSet(flat[k + 1]) = Upto(k + 1)}
  <1>1. n \in Nat /\ \A i \in 1 .. n : seqs[i] \in Seq(S)
    OBVIOUS
  <1>2. /\ flat[1] = seqs[1]
        /\ \A i \in 2 .. n : flat[i] = flat[i - 1] \o seqs[i]
        /\ \A i \in 1 .. n : flat[i] \in Seq(S)
    BY DEF Flattens
  <1> HIDE DEF n
  <1>3. 0 \in T
    <2>1. 1 .. 1 = {1}
      OBVIOUS
    <2>2. Upto(1) = ToSet(seqs[1])
      BY <2>1
    <2> HIDE DEF Upto
    <2> QED  BY <1>2, <2>2
  <1>4. ASSUME NEW k \in Nat, k \in T PROVE k + 1 \in T
    <2> DEFINE j == k + 1
    <2>1. ASSUME j + 1 \in 1 .. n PROVE ToSet(flat[j + 1]) = Upto(j + 1)
      <3>1. j \in 1 .. n /\ j + 1 \in 2 .. n /\ j + 1 - 1 = j /\ j \in Nat
        BY <1>1, <2>1
      <3>2. ToSet(flat[j]) = Upto(j)
        BY <1>4, <3>1
      <3> HIDE DEF j
      <3>3. flat[j + 1] = flat[j] \o seqs[j + 1]
        <4> DEFINE m == j + 1
        <4>1. m \in 2 .. n /\ m - 1 = j
          BY <3>1
        <4> HIDE DEF m
        <4>2. flat[m] = flat[m - 1] \o seqs[m]
          BY <1>2, <4>1
        <4> QED  BY <4>1, <4>2 DEF m
      <3>4. ToSet(flat[j + 1]) = ToSet(flat[j]) \cup ToSet(seqs[j + 1])
        BY <1>1, <1>2, <2>1, <3>1, <3>3, ToSetConcat
      <3>5. 1 .. j + 1 = (1 .. j) \cup {j + 1}
        BY <3>1
      <3>6. Upto(j + 1) = Upto(j) \cup ToSet(seqs[j + 1])
        BY <3>5
      <3> HIDE DEF Upto
      <3> QED  BY <3>2, <3>4, <3>6
    <2> QED  BY <2>1
  <1>5. \A k \in Nat : k \in T
    <2> HIDE DEF T
    <2> QED  BY <1>3, <1>4, Induction
  <1>6. ASSUME NEW k \in 1 .. n PROVE ToSet(flat[k]) = Upto(k)
    <2>1. k - 1 \in Nat /\ k - 1 + 1 = k
      BY <1>1
    <2>2. k - 1 \in T
      BY <1>5, <2>1
    <2> HIDE DEF Upto
    <2> QED  BY <2>1, <2>2
  <1> QED  BY <1>6 DEF n, SetUpto

\* No element comes twice in all lists together exactly if none does in one
\* of them and no two of them have one in common.
LEMMA FlattenDistinct ==
    ASSUME NEW S, NEW seqs \in Seq(Seq(S)), seqs # <<>>,
           NEW flat \in [1 .. Len(seqs) -> Seq(S)], Flattens(flat, seqs)
    PROVE  Cardinality(ToSet(FlattenSeq(seqs))) = Len(FlattenSeq(seqs))
              <=> /\ \A i \in 1 .. Len(seqs) : Cardinality(ToSet(seqs[i])) = Len(seqs[i])
                  /\ \A i, j \in 1 .. Len(seqs) :
                        i < j => ToSet(seqs[i]) \cap ToSet(seqs[j]) = {}
  <1> DEFINE n == Len(seqs)
             One(s) == Cardinality(ToSet(s)) = Len(s)
             Clear(j) == \A i \in 1 .. n : i < j => ToSet(seqs[i]) \cap ToSet(seqs[j]) = {}
  <1>1. n \in Nat /\ n # 0 /\ \A i \in 1 .. n : seqs[i] \in Seq(S)
    OBVIOUS
  <1>2. /\ flat[1] = seqs[1]
        /\ \A i \in 2 .. n : flat[i] = flat[i - 1] \o seqs[i]
        /\ \A i \in 1 .. n : flat[i] \in Seq(S)
        /\ FlattenSeq(seqs) = flat[n]
    BY DEF Flattens
  <1>3. \A k \in 1 .. n : ToSet(flat[k]) = SetUpto(seqs, k)
    BY FlattenSets
  <1>4. ASSUME NEW j \in 2 .. n
        PROVE  One(flat[j]) <=> One(flat[j - 1]) /\ One(seqs[j]) /\ Clear(j)
    <2> HIDE DEF n
    <2>1. j - 1 \in 1 .. n /\ j \in 1 .. n
      BY <1>1
    <2>2. flat[j] = flat[j - 1] \o seqs[j] /\ flat[j - 1] \in Seq(S) /\ seqs[j] \in Seq(S)
      BY <1>1, <1>2, <2>1
    <2>3. One(flat[j]) <=> /\ One(flat[j - 1]) /\ One(seqs[j])
                           /\ ToSet(flat[j - 1]) \cap ToSet(seqs[j]) = {}
      <3> DEFINE a == flat[j - 1]
                 b == seqs[j]
      <3>1. a \in Seq(S) /\ b \in Seq(S) /\ flat[j] = a \o b
        BY <2>2
      <3> HIDE DEF a, b
      <3>2. Cardinality(ToSet(a \o b)) = Len(a \o b)
              <=> /\ Cardinality(ToSet(a)) = Len(a)
                  /\ Cardinality(ToSet(b)) = Len(b)
                  /\ ToSet(a) \cap ToSet(b) = {}
        BY <3>1, ConcatDistinct
      <3> QED  BY <3>1, <3>2 DEF a, b
    <2>4. \A i : i \in 1 .. (j - 1) <=> i \in 1 .. n /\ i < j
      BY <1>1
    <2>5. ToSet(flat[j - 1]) = UNION {ToSet(seqs[i]) : i \in 1 .. (j - 1)}
      BY <1>3, <2>1 DEF SetUpto
    <2>6. ToSet(flat[j - 1]) \cap ToSet(seqs[j]) = {} <=> Clear(j)
      BY <2>4, <2>5
    <2> QED  BY <2>3, <2>6
  <1> HIDE DEF n, One, Clear
  <1> DEFINE All(k) == \A i \in 1 .. k : One(seqs[i]) /\ Clear(i)
             T == {k \in Nat : k + 1 \in 1 .. n => (One(flat[k + 1]) <=> All(k + 1))}
  <1>5. 0 \in T
    <2>1. Clear(1)
      BY <1>1 DEF Clear
    <2>2. 1 .. 1 = {1}
      OBVIOUS
    <2>3. One(flat[1]) <=> All(1)
      BY <1>2, <2>1, <2>2
    <2> QED  BY <2>3
  <1>6. ASSUME NEW k \in Nat, k \in T PROVE k + 1 \in T
    <2> DEFINE j == k + 1
    <2>1. ASSUME j + 1 \in 1 .. n PROVE One(flat[j + 1]) <=> All(j + 1)
      <3>1. j \in 1 .. n /\ j + 1 \in 2 .. n /\ j + 1 - 1 = j
        BY <1>1, <2>1
      <3>2. One(flat[j]) <=> All(j)
        BY <1>6, <3>1
      <3>3. One(flat[j + 1]) <=> One(flat[j]) /\ One(seqs[j + 1]) /\ Clear(j + 1)
        BY <1>4, <3>1
      <3>4. 1 .. j + 1 = (1 .. j) \cup {j + 1}
        OBVIOUS
      <3>5. All(j + 1) <=> All(j) /\ One(seqs[j + 1]) /\ Clear(j + 1)
        BY <3>4
      <3> QED  BY <3>2, <3>3, <3>5
    <2> QED  BY <2>1
  <1>7. \A k \in Nat : k \in T
    <2> HIDE DEF T
    <2> QED  BY <1>5, <1>6, Induction
  <1>8. One(flat[n]) <=> All(n)
    <2>1. n - 1 \in Nat /\ n - 1 + 1 = n /\ n \in 1 .. n
      BY <1>1
    <2>2. n - 1 \in T
      BY <1>7, <2>1
    <2> HIDE DEF All
    <2> QED  BY <2>1, <2>2
  <1>9. All(n) <=> /\ \A i \in 1 .. n : One(seqs[i])
                   /\ \A i, j \in 1 .. n : i < j => ToSet(seqs[i]) \cap ToSet(seqs[j]) = {}
    BY DEF Clear
  <1> QED  BY <1>2, <1>8, <1>9 DEF One, n

-----------------------------------------------------------------------------
(* Sums of lists, and remainders.                                          *)

Total(s) == FoldLeft(+, 0, s)

\* A sum of natural numbers is one; short sums.
LEMMA TotalShort ==
    /\ \A s \in Seq(Nat) : Total(s) \in Nat
    /\ Total(<<>>) = 0
    /\ \A x \in Nat : Total(<<x>>) = x
  <1>1. ASSUME NEW s \in Seq(Nat) PROVE Total(s) \in Nat
    <2>1. PICK acc \in [0 .. Len(s) -> Nat] : FoldLeft(+, 0, s) = acc[Len(s)]
      BY SumSteps
    <2>2. Len(s) \in 0 .. Len(s)
      OBVIOUS
    <2> QED  BY <2>1, <2>2 DEF Total
  <1>2. Total(<<>>) = 0
    <2>1. <<>> \in Seq(Nat) /\ Len(<<>>) = 0
      OBVIOUS
    <2>2. PICK acc \in [0 .. Len(<<>>) -> Nat] : acc[0] = 0 /\ FoldLeft(+, 0, <<>>) = acc[Len(<<>>)]
      BY <2>1, SumSteps
    <2> QED  BY <2>1, <2>2 DEF Total
  <1>3. ASSUME NEW x \in Nat PROVE Total(<<x>>) = x
    <2> DEFINE s == <<x>>
    <2>1. s \in Seq(Nat) /\ Len(s) = 1 /\ s[1] = x
      OBVIOUS
    <2> HIDE DEF s
    <2>2. PICK acc \in [0 .. Len(s) -> Nat] :
            /\ acc[0] = 0
            /\ \A k \in 1 .. Len(s) : acc[k] = acc[k - 1] + s[k]
            /\ FoldLeft(+, 0, s) = acc[Len(s)]
      BY <2>1, SumSteps
    <2>3. \A k \in 1 .. 1 : acc[k] = acc[k - 1] + s[k]
      BY <2>1, <2>2
    <2>4. acc[0] = 0
      BY <2>2
    <2>5. acc[1] = x
      BY <2>1, <2>3, <2>4
    <2>6. Total(s) = acc[1]
      BY <2>1, <2>2 DEF Total
    <2> QED  BY <2>5, <2>6 DEF s
  <1> QED  BY <1>1, <1>2, <1>3

\* The sum of two lists in one.
LEMMA TotalConcat ==
    ASSUME NEW s \in Seq(Nat), NEW t \in Seq(Nat)
    PROVE  Total(s \o t) = Total(s) + Total(t)
  <1> DEFINE st == s \o t
             m == Len(s)
             n == Len(t)
  <1>1. /\ st \in Seq(Nat) /\ m \in Nat /\ n \in Nat /\ Len(st) = m + n
        /\ \A i \in 1 .. m : st[i] = s[i]
        /\ \A i \in 1 .. n : st[m + i] = t[i]
        /\ \A i \in 1 .. n : t[i] \in Nat
    OBVIOUS
  <1>2. PICK a \in [0 .. Len(s) -> Nat] :
              /\ a[0] = 0
              /\ \A k \in 1 .. Len(s) : a[k] = a[k - 1] + s[k]
              /\ FoldLeft(+, 0, s) = a[Len(s)]
    BY SumSteps
  <1>3. PICK b \in [0 .. Len(t) -> Nat] :
              /\ b[0] = 0
              /\ \A k \in 1 .. Len(t) : b[k] = b[k - 1] + t[k]
              /\ FoldLeft(+, 0, t) = b[Len(t)]
    BY SumSteps
  <1> HIDE DEF st
  <1>4. PICK c \in [0 .. Len(st) -> Nat] :
              /\ c[0] = 0
              /\ \A k \in 1 .. Len(st) : c[k] = c[k - 1] + st[k]
              /\ FoldLeft(+, 0, st) = c[Len(st)]
    BY <1>1, SumSteps
  <1>5. /\ a \in [0 .. m -> Nat] /\ a[0] = 0 /\ \A k \in 1 .. m : a[k] = a[k - 1] + s[k]
        /\ b \in [0 .. n -> Nat] /\ b[0] = 0 /\ \A k \in 1 .. n : b[k] = b[k - 1] + t[k]
        /\ c \in [0 .. m + n -> Nat] /\ c[0] = 0
        /\ \A k \in 1 .. m + n : c[k] = c[k - 1] + st[k]
    BY <1>1, <1>2, <1>3, <1>4
  <1>6. Total(s) = a[m] /\ Total(t) = b[n] /\ Total(st) = c[m + n]
    BY <1>1, <1>2, <1>3, <1>4 DEF Total
  <1> HIDE DEF m, n
  <1> DEFINE T == {k \in Nat : k \in 0 .. m => c[k] = a[k]}
             U == {k \in Nat : k \in 0 .. n => c[m + k] = a[m] + b[k]}
  <1>7. 0 \in T
    BY <1>5
  <1>8. ASSUME NEW k \in Nat, k \in T PROVE k + 1 \in T
    <2>1. ASSUME k + 1 \in 0 .. m PROVE c[k + 1] = a[k + 1]
      <3> DEFINE j == k + 1
      <3>1. k \in 0 .. m /\ j \in 1 .. m /\ j \in 1 .. m + n /\ j - 1 = k
        BY <1>1, <2>1
      <3> HIDE DEF j
      <3>2. a[j] = a[j - 1] + s[j] /\ c[j] = c[j - 1] + st[j] /\ st[j] = s[j]
        BY <1>1, <1>5, <3>1
      <3>3. c[k] = a[k]
        BY <1>8, <3>1
      <3>4. c[j] = a[j]
        BY <3>1, <3>2, <3>3
      <3> QED  BY <3>4 DEF j
    <2> QED  BY <2>1
  <1>9. \A k \in Nat : k \in T
    <2> HIDE DEF T
    <2> QED  BY <1>7, <1>8, Induction
  <1>10. 0 \in U
    <2>1. m \in T /\ m \in 0 .. m /\ m + 0 = m
      BY <1>1, <1>9
    <2>2. c[m] = a[m] /\ a[m] \in Nat
      BY <1>5, <2>1
    <2> QED  BY <1>5, <2>1, <2>2
  <1>11. ASSUME NEW k \in Nat, k \in U PROVE k + 1 \in U
    <2>1. ASSUME k + 1 \in 0 .. n PROVE c[m + (k + 1)] = a[m] + b[k + 1]
      <3> DEFINE j == k + 1
                 i == m + j
      <3>1. /\ k \in 0 .. n /\ j \in 1 .. n /\ j - 1 = k
            /\ i \in 1 .. m + n /\ i - 1 = m + k /\ m \in 0 .. m
        BY <1>1, <2>1
      <3>2. i = m + j
        OBVIOUS
      <3> HIDE DEF i, j
      <3>3. b[j] = b[j - 1] + t[j]
        BY <1>5, <3>1
      <3>4. c[i] = c[i - 1] + st[i]
        BY <1>5, <3>1
      <3>5. st[i] = t[j] /\ t[j] \in Nat
        BY <1>1, <3>1, <3>2
      <3>6. c[m + k] = a[m] + b[k]
        BY <1>11, <3>1
      <3>7. a[m] \in Nat /\ b[k] \in Nat
        BY <1>5, <3>1
      <3>8. c[i] = a[m] + b[k] + t[j]
        BY <3>1, <3>4, <3>5, <3>6
      <3>9. b[j] = b[k] + t[j]
        BY <3>1, <3>3
      <3>10. c[i] = a[m] + b[j]
        BY <3>5, <3>7, <3>8, <3>9
      <3> QED  BY <3>10 DEF i, j
    <2> QED  BY <2>1
  <1>12. \A k \in Nat : k \in U
    <2> HIDE DEF U
    <2> QED  BY <1>10, <1>11, Induction
  <1>13. n \in U /\ n \in 0 .. n
    BY <1>1, <1>12
  <1>14. c[m + n] = a[m] + b[n]
    BY <1>13
  <1> QED  BY <1>6, <1>14 DEF st

\* Remainders.
LEMMA ModIs ==
    ASSUME NEW m \in Nat, m > 0, NEW a \in Nat
    PROVE  /\ a % m \in 0 .. m - 1
           /\ a \div m \in Nat
           /\ a = (a % m) + (a \div m) * m
           /\ a < m => a % m = a /\ a \div m = 0
  <1>1. a % m \in 0 .. m - 1 /\ a \div m \in Nat
    OBVIOUS
  <1>2. a = m * (a \div m) + (a % m)
    OBVIOUS
  <1>3. m * (a \div m) = (a \div m) * m
    BY <1>1
  <1>4. a < m => a \div m = 0
    OBVIOUS
  <1> QED  BY <1>1, <1>2, <1>3, <1>4

\* A multiple that is added changes no remainder.
LEMMA ModAdd ==
    ASSUME NEW m \in Nat, m > 0, NEW a \in Nat, NEW q \in Nat
    PROVE  (a + q * m) % m = a % m
  <1> DEFINE b == a + q * m
             r == a % m
             s == b % m
             u == a \div m
             v == b \div m
  <1>1. b \in Nat
    OBVIOUS
  <1> HIDE DEF b
  <1>2. r \in 0 .. m - 1 /\ u \in Nat /\ a = r + u * m
    BY ModIs
  <1>3. s \in 0 .. m - 1 /\ v \in Nat /\ b = s + v * m
    BY <1>1, ModIs
  <1>4. b = a + q * m
    BY DEF b
  <1> HIDE DEF r, s, u, v
  <1>5. r + u * m + q * m = s + v * m
    BY <1>2, <1>3, <1>4
  <1>6. u * m + q * m = (u + q) * m
    BY <1>2
  <1>7. u + q \in Int /\ v \in Int /\ r + (u + q) * m = s + v * m
    BY <1>2, <1>3, <1>5, <1>6
  <1>8. r = s
    BY <1>2, <1>3, <1>7
  <1> QED  BY <1>8 DEF r, s, b

\* The powers of two are positive: they count the subsets of a set.
LEMMA PowerOfTwo ==
    ASSUME NEW n \in Nat
    PROVE  2^n \in Nat /\ 2^n > 0
  <1> DEFINE S == 1 .. n
  <1>1. IsFiniteSet(S) /\ Cardinality(S) = n
    BY FS_Interval
  <1>2. IsFiniteSet(SUBSET S) /\ Cardinality(SUBSET S) = 2^n
    BY <1>1, FS_SUBSET
  <1>3. {} \in SUBSET S
    OBVIOUS
  <1> HIDE DEF S
  <1>4. Cardinality(SUBSET S) \in Nat /\ Cardinality(SUBSET S) # 0
    BY <1>2, <1>3, FS_CardinalityType, FS_EmptySet
  <1> QED  BY <1>2, <1>4

\* The next power of two is twice as large: a set with one more element has
\* twice as many subsets.
LEMMA PowerDoubles ==
    /\ 2^0 = 1
    /\ \A n \in Nat : 2^(n + 1) = 2 * 2^n
  <1>1. 2^0 = 1
    <2>1. IsFiniteSet({}) /\ Cardinality({}) = 0
      BY FS_EmptySet
    <2>2. Cardinality(SUBSET {}) = 2^0
      BY <2>1, FS_SUBSET
    <2>3. SUBSET {} = {{}}
      OBVIOUS
    <2>4. Cardinality({{}}) = 1
      BY FS_Singleton
    <2> QED  BY <2>2, <2>3, <2>4
  <1>2. ASSUME NEW n \in Nat PROVE 2^(n + 1) = 2 * 2^n
    <2> DEFINE m == n + 1
               A == SUBSET (1 .. n)
               B == {T \cup {m} : T \in A}
               f == [T \in A |-> T \cup {m}]
    <2>1. m \in Nat /\ IsFiniteSet(1 .. n) /\ Cardinality(1 .. n) = n
          /\ IsFiniteSet(1 .. m) /\ Cardinality(1 .. m) = m
      BY FS_Interval
    <2>2. /\ IsFiniteSet(A) /\ Cardinality(A) = 2^n
          /\ Cardinality(SUBSET (1 .. m)) = 2^m
      BY <2>1, FS_SUBSET
    <2>3. 1 .. m = (1 .. n) \cup {m} /\ m \notin 1 .. n
      OBVIOUS
    <2> HIDE DEF m
    <2>4. SUBSET (1 .. m) = A \cup B
      <3>1. ASSUME NEW U \in SUBSET (1 .. m) PROVE U \in A \cup B
        <4>1. CASE m \in U
          <5>1. U \ {m} \in A /\ U = (U \ {m}) \cup {m}
            BY <2>3, <4>1
          <5> QED  BY <5>1
        <4>2. CASE m \notin U
          BY <2>3, <4>2
        <4> QED  BY <4>1, <4>2
      <3>2. ASSUME NEW U \in A \cup B PROVE U \in SUBSET (1 .. m)
        BY <2>3
      <3> HIDE DEF A, B
      <3> QED  BY <3>1, <3>2
    <2>5. A \cap B = {}
      BY <2>3
    <2>6. f \in [A -> B] /\ \A T \in A : f[T] = T \cup {m}
      OBVIOUS
    <2>7. \A S, T \in A : f[S] = f[T] => S = T
      <3> SUFFICES ASSUME NEW S \in A, NEW T \in A, S \cup {m} = T \cup {m} PROVE S = T
        BY <2>6
      <3>1. m \notin S /\ m \notin T
        BY <2>3
      <3> QED  BY <3>1
    <2>8. \A U \in B : \E T \in A : f[T] = U
      BY <2>6
    <2> HIDE DEF A, B, f
    <2>9. f \in Bijection(A, B)
      BY <2>6, <2>7, <2>8 DEF Bijection, Injection, Surjection, IsInjective
    <2>10. ExistsBijection(A, B)
      BY <2>9 DEF ExistsBijection
    <2>11. IsFiniteSet(B) /\ Cardinality(B) = Cardinality(A)
      BY <2>2, <2>10, FS_Bijection
    <2>12. Cardinality(A \cup B) = Cardinality(A) + Cardinality(B) - Cardinality(A \cap B)
      BY <2>2, <2>11, FS_Union
    <2>13. Cardinality(A \cap B) = 0
      BY <2>5, FS_EmptySet
    <2>14. Cardinality(A) \in Nat
      BY <2>2, FS_CardinalityType
    <2>15. 2^m = Cardinality(A) + Cardinality(A) - 0
      BY <2>2, <2>4, <2>11, <2>12, <2>13
    <2>16. 2^m = 2 * Cardinality(A)
      BY <2>14, <2>15
    <2> QED  BY <2>2, <2>16 DEF m
  <1> QED  BY <1>1, <1>2

\* A number is below its power of two.
LEMMA BelowPower ==
    ASSUME NEW n \in Nat
    PROVE  n < 2^n
  <1> DEFINE T == {k \in Nat : k < 2^k}
  <1>1. 0 \in T
    BY PowerDoubles
  <1>2. ASSUME NEW k \in Nat, k \in T PROVE k + 1 \in T
    <2>1. PICK p \in Nat : p = 2^k /\ k < p
      BY <1>2, PowerOfTwo
    <2>2. PICK q : q = 2^(k + 1)
      OBVIOUS
    <2>3. q = 2 * p
      BY <2>1, <2>2, PowerDoubles
    <2>4. k + 1 < q
      BY <2>1, <2>3
    <2> QED  BY <2>2, <2>4
  <1>3. \A k \in Nat : k \in T
    <2> HIDE DEF T
    <2> QED  BY <1>1, <1>2, Induction
  <1> QED  BY <1>3
=============================================================================
