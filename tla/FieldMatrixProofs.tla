----------------------------- MODULE FieldMatrixProofs -----------------------------
(***************************************************************************)
(* What the proofs about the encoders share: lemmas on data, and what      *)
(* FieldMatrix.tla computes over any field.  The laws of a field and of    *)
(* the bits of its elements are hypotheses of the lemmas; RlncProofs shows *)
(* them of the prime fields, ShadowProofs of the binary fields.  Rlnc and  *)
(* RsCode instantiate this module, which gives them the operators, so that *)
(* their proofs find the lemmas about the same operators.                  *)
(*                                                                         *)
(* The sections: induction on the natural numbers, and what it says of     *)
(* definitions by recursion; division; sums; vectors, their combinations   *)
(* and linear maps; row operations, and that the elimination decides       *)
(* independence; packing into bytes and back; the inversion, which does to *)
(* one half of its rows what the elimination does, so that the other half  *)
(* becomes the inverse; products; matrices whose rows are the powers of    *)
(* different elements, which are independent; and vectors that packing and *)
(* reading back has made longer.                                           *)
(***************************************************************************)
EXTENDS FieldMatrix, Integers, FiniteSets, FiniteSetsExt,
        SequenceTheorems, FiniteSetTheorems, TLAPS

CONSTANT Elements   \* the elements of the field

(* Whatever is true of every element of a sequence and of one more is true  *)
(* of every element once that one is appended.                              *)
LEMMA AppendElements ==
  ASSUME NEW S, NEW s \in Seq(S), NEW e \in S
  PROVE  /\ Append(s, e) \in Seq(S)
         /\ Len(Append(s, e)) = Len(s) + 1
         /\ \A i \in 1 .. Len(s) : Append(s, e)[i] = s[i]
         /\ Append(s, e)[Len(s) + 1] = e
  BY AppendProperties

-----------------------------------------------------------------------------
(* Induction: a set of natural numbers with zero and the successors of its  *)
(* members has them all.  The least number that it had not would have a     *)
(* predecessor.                                                             *)
LEMMA SetInduction ==
  ASSUME NEW S \in SUBSET Nat, 0 \in S, \A n \in S : n + 1 \in S
  PROVE  S = Nat
<1> DEFINE T == Nat \ S
           R == OpToRel(<, Nat)
<1> SUFFICES ASSUME T # {} PROVE FALSE
  OBVIOUS
<1>1. IsWellFoundedOn(R, Nat)
  BY NatLessThanWellFounded
<1>2. T \subseteq Nat
  OBVIOUS
<1> HIDE DEF T, R
<1>3. PICK x \in T : \A y \in T : ~ (<<y, x>> \in R)
  BY <1>1, <1>2, WFMin
<1>4. \A y \in T : ~ (y < x)
  <2>1. R = {p \in Nat \X Nat : p[1] < p[2]}
    BY DEF R, OpToRel
  <2> QED BY <1>2, <1>3, <2>1
<1>5. x # 0 /\ x \in Nat /\ x - 1 \in Nat
  BY <1>2, <1>3 DEF T
<1>6. x - 1 \in S
  BY <1>4, <1>5 DEF T
<1> QED BY <1>6, <1>5, <1>3 DEF T

(* The same up to a bound. *)
LEMMA BoundedInduction ==
  ASSUME NEW m \in Nat, NEW S, 0 \in S, \A n \in 0 .. m - 1 : n \in S => n + 1 \in S
  PROVE  0 .. m \subseteq S
<1> DEFINE T == {n \in Nat : n <= m => n \in S}
<1>1. 0 \in T /\ \A n \in T : n + 1 \in T
  OBVIOUS
<1>2. T = Nat
  BY <1>1, SetInduction
<1> QED BY <1>2

(* The least member of a set of natural numbers. *)
LEMMA LeastMember ==
  ASSUME NEW S \in SUBSET Nat, S # {}
  PROVE  \E m \in S : \A k \in S : m <= k
<1> DEFINE T == {n \in Nat : \A k \in S : n <= k}
<1>1. 0 \in T
  OBVIOUS
<1>2. T # Nat
  <2>1. PICK k \in S : TRUE
    OBVIOUS
  <2>2. k + 1 \in Nat /\ k + 1 \notin T
    OBVIOUS
  <2> QED BY <2>2
<1>3. PICK n \in T : n + 1 \notin T
  BY <1>1, <1>2, SetInduction
<1>4. PICK k \in S : ~ (n + 1 <= k)
  BY <1>3
<1>5. n <= k /\ k \in Nat /\ n \in Nat
  BY <1>3
<1>6. k = n
  BY <1>4, <1>5
<1> QED BY <1>3, <1>6

(* The greatest member of a finite segment, which folds take first.         *)
LEMMA SegmentMax ==
  ASSUME NEW k \in Nat \ {0}
  PROVE  Max(1 .. k) = k /\ (1 .. k) \ {Max(1 .. k)} = 1 .. k - 1
<1>1. k \in 1 .. k /\ \A y \in 1 .. k : k >= y
  OBVIOUS
<1>2. Max(1 .. k) = k
  BY <1>1 DEF Max
<1> QED BY <1>2

(* The greatest of some numbers up to a bound. *)
LEMMA SubsetMax ==
  ASSUME NEW n \in Nat, NEW s \in SUBSET (1 .. n), s # {}
  PROVE  Max(s) \in s /\ \A y \in s : Max(s) >= y
<1> DEFINE T == {x \in Nat : \E y \in s : y = n - x}
<1>1. PICK m \in T : \A k \in T : m <= k
  <2>1. T # {}
    <3>1. PICK y \in s : TRUE
      OBVIOUS
    <3>2. y \in 1 .. n
      BY <3>1
    <3>3. n - y \in Nat /\ y = n - (n - y)
      BY <3>2
    <3> QED BY <3>1, <3>3
  <2> HIDE DEF T
  <2>2. T \in SUBSET Nat
    BY DEF T
  <2> QED BY <2>1, <2>2, LeastMember
<1>2. n - m \in s /\ \A y \in s : n - m >= y
  <2>1. n - m \in s
    BY <1>1
  <2>2. ASSUME NEW y \in s PROVE n - m >= y
    <3>1. y \in 1 .. n
      OBVIOUS
    <3>2. n - y \in Nat /\ y = n - (n - y)
      BY <3>1
    <3>3. n - y \in T
      BY <3>2
    <3>4. m <= n - y
      BY <1>1, <3>3
    <3> QED BY <1>1, <3>1, <3>4
  <2> QED BY <2>1, <2>2
<1> QED BY <1>2 DEF Max

(* The segments of a segment. *)
LEMMA SegmentOf ==
  ASSUME NEW n \in Nat, NEW k \in 1 .. n
  PROVE  /\ k \in Nat \ {0} /\ 1 .. k # {}
         /\ 1 .. k \in SUBSET (1 .. n) /\ 1 .. k - 1 \in SUBSET (1 .. n)
<1>1. k \in Nat /\ k # 0 /\ k <= n /\ k \in 1 .. k
  OBVIOUS
<1>2. 1 .. k \in SUBSET (1 .. n) /\ 1 .. k - 1 \in SUBSET (1 .. n)
  BY <1>1
<1> QED BY <1>1, <1>2

-----------------------------------------------------------------------------
(* Recursion on the finite subsets of a set, an element taken away at a     *)
(* time: there is a function that does what the definition says.            *)
Chooses(c, D) == \A s \in SUBSET D : s # {} => c[s] \in s

Recurses(g, D, base, c, H) ==
  \A s \in SUBSET D : g[s] = IF s = {} THEN base ELSE H[c[s]][g[s \ {c[s]}]]

LEMMA SubsetRecursion ==
  ASSUME NEW D, IsFiniteSet(D), NEW V, NEW base \in V,
         NEW c, Chooses(c, D), NEW H, \A x \in D, v \in V : H[x][v] \in V
  PROVE  \E g \in [SUBSET D -> V] : Recurses(g, D, base, c, H)
<1> USE DEF Chooses, Recurses
<1> DEFINE Small(k) == {s \in SUBSET D : Cardinality(s) <= k}
           Solves(g, k) ==
             /\ g \in [Small(k) -> V]
             /\ \A s \in Small(k) : g[s] = IF s = {} THEN base ELSE H[c[s]][g[s \ {c[s]}]]
           S == {k \in Nat : \E g : Solves(g, k)}
<1>1. /\ \A s \in SUBSET D : IsFiniteSet(s) /\ Cardinality(s) \in Nat
                             /\ (Cardinality(s) = 0 <=> s = {})
                             /\ Cardinality(s) <= Cardinality(D)
  BY FS_Subset, FS_CardinalityType, FS_EmptySet
<1>2. \A s \in SUBSET D : s # {} =>
        s \ {c[s]} \in SUBSET D /\ Cardinality(s \ {c[s]}) = Cardinality(s) - 1
  BY <1>1, FS_RemoveElement
<1>3. 0 \in S
  <2> DEFINE g == [s \in Small(0) |-> base]
  <2>1. ASSUME NEW s \in Small(0) PROVE s = {}
    <3>1. s \in SUBSET D /\ Cardinality(s) <= 0
      OBVIOUS
    <3> QED BY <1>1, <3>1
  <2>2. Solves(g, 0)
    BY <2>1
  <2> QED BY <2>2
<1>4. ASSUME NEW k \in S PROVE k + 1 \in S
  <2>1. PICK g : Solves(g, k)
    OBVIOUS
  <2> DEFINE h == [s \in Small(k + 1) |-> IF s = {} THEN base ELSE H[c[s]][g[s \ {c[s]}]]]
  <2>2. ASSUME NEW s \in Small(k + 1), s # {} PROVE s \ {c[s]} \in Small(k)
    <3>1. s \in SUBSET D /\ Cardinality(s) <= k + 1 /\ Cardinality(s) \in Nat
      BY <1>1
    <3>2. s \ {c[s]} \in SUBSET D /\ Cardinality(s \ {c[s]}) = Cardinality(s) - 1
      BY <1>2, <2>2, <3>1
    <3> QED BY <3>1, <3>2
  <2>3. ASSUME NEW s \in Small(k) PROVE s \in Small(k + 1) /\ h[s] = g[s]
    <3>1. s \in SUBSET D /\ Cardinality(s) <= k /\ Cardinality(s) \in Nat
      BY <1>1
    <3>2. s \in Small(k + 1)
      BY <3>1
    <3>3. g[s] = IF s = {} THEN base ELSE H[c[s]][g[s \ {c[s]}]]
      BY <2>1
    <3> HIDE DEF Small
    <3> QED BY <3>2, <3>3
  <2>4. h \in [Small(k + 1) -> V]
    <3>1. ASSUME NEW s \in Small(k + 1), s # {} PROVE H[c[s]][g[s \ {c[s]}]] \in V
      <4>1. g[s \ {c[s]}] \in V
        BY <2>1, <2>2, <3>1
      <4>2. c[s] \in D
        BY <3>1
      <4> QED BY <4>1, <4>2
    <3> QED BY <3>1
  <2>5. ASSUME NEW s \in Small(k + 1)
        PROVE  h[s] = IF s = {} THEN base ELSE H[c[s]][h[s \ {c[s]}]]
    <3>1. h[s] = IF s = {} THEN base ELSE H[c[s]][g[s \ {c[s]}]]
      OBVIOUS
    <3>2. s # {} => h[s \ {c[s]}] = g[s \ {c[s]}]
      BY <2>2, <2>3
    <3> HIDE DEF h
    <3> QED BY <3>1, <3>2
  <2>6. Solves(h, k + 1)
    <3> HIDE DEF h, Small
    <3> QED BY <2>4, <2>5
  <2> HIDE DEF Solves, h
  <2>7. \E f : Solves(f, k + 1)
    BY <2>6
  <2> QED BY <2>7
<1>5. Cardinality(D) \in S
  <2> HIDE DEF S
  <2>1. S \in SUBSET Nat
    BY DEF S
  <2>2. S = Nat
    BY <1>3, <1>4, <2>1, SetInduction
  <2> QED BY <1>1, <2>2
<1>6. Small(Cardinality(D)) = SUBSET D
  BY <1>1
<1> QED BY <1>5, <1>6

(* The recursive function of a left fold over a sequence of some length.    *)
FoldRecurses(g, n, base, H) ==
  \A s \in SUBSET (1 .. n) :
    g[s] = IF s = {} THEN base ELSE H[g[s \ {Max(s)}]][Max(s)]

ClosedUnder(H, V, n) == \A v \in V, k \in 1 .. n : H[v][k] \in V

LEMMA FoldRecursion ==
  ASSUME NEW n \in Nat, NEW V, NEW base \in V, NEW H, ClosedUnder(H, V, n)
  PROVE  \E g \in [SUBSET (1 .. n) -> V] : FoldRecurses(g, n, base, H)
<1> USE DEF FoldRecurses, ClosedUnder
<1> DEFINE c == [s \in SUBSET (1 .. n) |-> Max(s)]
           G == [x \in 1 .. n |-> [v \in V |-> H[v][x]]]
<1>1. ASSUME NEW s \in SUBSET (1 .. n), s # {} PROVE Max(s) \in s
  BY <1>1, SubsetMax
<1>2. IsFiniteSet(1 .. n)
  <2>1. 1 \in Int /\ n \in Int
    OBVIOUS
  <2> QED BY <2>1, FS_Interval
<1>3. \A x \in 1 .. n, v \in V : G[x][v] = H[v][x]
  OBVIOUS
<1>4. \A s \in SUBSET (1 .. n) : c[s] = Max(s)
  OBVIOUS
<1> HIDE DEF c, G
<1>a. \A x \in 1 .. n, v \in V : G[x][v] \in V
  BY <1>3
<1>b. \A s \in SUBSET (1 .. n) : s # {} => c[s] \in s
  BY <1>1, <1>4
<1>5. PICK g \in [SUBSET (1 .. n) -> V] :
        \A s \in SUBSET (1 .. n) : g[s] = IF s = {} THEN base ELSE G[c[s]][g[s \ {c[s]}]]
  <2> DEFINE D == 1 .. n
  <2>1. IsFiniteSet(D) /\ Chooses(c, D) /\ \A x \in D, v \in V : G[x][v] \in V
    BY <1>2, <1>a, <1>b DEF Chooses
  <2> HIDE DEF D
  <2>2. \E g \in [SUBSET D -> V] : Recurses(g, D, base, c, G)
    BY <2>1, SubsetRecursion
  <2> QED BY <2>2 DEF D, Recurses
<1>6. ASSUME NEW s \in SUBSET (1 .. n)
      PROVE  g[s] = IF s = {} THEN base ELSE H[g[s \ {Max(s)}]][Max(s)]
  <2>1. s # {} => Max(s) \in 1 .. n /\ g[s \ {Max(s)}] \in V
    BY <1>1
  <2>2. s # {} => G[Max(s)][g[s \ {Max(s)}]] = H[g[s \ {Max(s)}]][Max(s)]
    BY <1>3, <2>1
  <2> QED BY <1>4, <1>5, <2>2
<1> QED BY <1>6

(* What a fold goes through, from the base to its value: the values it has  *)
(* on the segments of the sequence.                                         *)
History(h, n, base, H) == h[0] = base /\ \A k \in 1 .. n : h[k] = H[h[k - 1]][k]

Follows(it, n, V, base, H) ==
  /\ it[{}] = base
  /\ \A k \in 1 .. n : it[1 .. k - 1] \in V => it[1 .. k] = H[it[1 .. k - 1]][k]

LEMMA FoldHistory ==
  ASSUME NEW n \in Nat, NEW V, NEW base \in V, NEW H, ClosedUnder(H, V, n),
         NEW it, Follows(it, n, V, base, H)
  PROVE  \E h \in [0 .. n -> V] : History(h, n, base, H) /\ h[n] = it[1 .. n]
<1> USE DEF History, Follows, ClosedUnder
<1> DEFINE S == {k \in 0 .. n : it[1 .. k] \in V}
           h == [k \in 0 .. n |-> it[1 .. k]]
<1>1. 1 .. 0 = {}
  OBVIOUS
<1>2. 0 \in S
  BY <1>1
<1>3. ASSUME NEW k \in 0 .. n - 1, k \in S PROVE k + 1 \in S
  <2>1. k + 1 \in 1 .. n /\ (k + 1) - 1 = k
    OBVIOUS
  <2>2. it[1 .. k + 1] = H[it[1 .. k]][k + 1]
    BY <1>3, <2>1
  <2>3. H[it[1 .. k]][k + 1] \in V
    BY <1>3, <2>1
  <2> QED BY <2>1, <2>2, <2>3
<1>4. 0 .. n \subseteq S
  <2> HIDE DEF S
  <2> QED BY <1>2, <1>3, BoundedInduction
<1>5. h \in [0 .. n -> V]
  BY <1>4
<1>6. h[0] = base /\ h[n] = it[1 .. n]
  BY <1>1
<1>7. ASSUME NEW k \in 1 .. n PROVE h[k] = H[h[k - 1]][k]
  <2>1. k - 1 \in 0 .. n /\ k \in 0 .. n
    OBVIOUS
  <2>2. it[1 .. k - 1] \in V
    BY <1>4, <2>1
  <2> QED BY <2>1, <2>2
<1> HIDE DEF h
<1> QED BY <1>5, <1>6, <1>7

(* A recursive function on an initial segment of the numbers.               *)
LEMMA BoundedRecursion ==
  ASSUME NEW n \in Nat, NEW V, NEW base \in V, NEW H, ClosedUnder(H, V, n)
  PROVE  \E h \in [0 .. n -> V] : History(h, n, base, H)
<1>1. PICK g \in [SUBSET (1 .. n) -> V] : FoldRecurses(g, n, base, H)
  BY FoldRecursion
<1> DEFINE h == [k \in 0 .. n |-> g[1 .. k]]
<1>2. h \in [0 .. n -> V]
  <2>1. \A k \in 0 .. n : 1 .. k \in SUBSET (1 .. n)
    OBVIOUS
  <2> QED BY <1>1, <2>1
<1>3. h[0] = base
  <2>1. 1 .. 0 = {} /\ h[0] = g[1 .. 0] /\ {} \in SUBSET (1 .. n)
    OBVIOUS
  <2> HIDE DEF h
  <2> QED BY <1>1, <2>1 DEF FoldRecurses
<1>4. ASSUME NEW k \in 1 .. n PROVE h[k] = H[h[k - 1]][k]
  <2>1. k \in 0 .. n /\ k - 1 \in 0 .. n /\ k \in Nat \ {0}
    OBVIOUS
  <2>2. g[1 .. k] = H[g[1 .. k - 1]][k]
    BY <1>1, SegmentOf, SegmentMax DEF FoldRecurses
  <2> QED BY <2>1, <2>2
<1> HIDE DEF h
<1> QED BY <1>2, <1>3, <1>4 DEF History

(* The elements of a sequence, and of a sequence of sequences laid end to   *)
(* end.                                                                     *)
Member(x, s) == \E i \in 1 .. Len(s) : s[i] = x

LEMMA ConcatMembers ==
  ASSUME NEW S, NEW s \in Seq(S), NEW t \in Seq(S), NEW x
  PROVE  s \o t \in Seq(S) /\ (Member(x, s \o t) <=> Member(x, s) \/ Member(x, t))
<1>1. /\ s \o t \in Seq(S) /\ Len(s) \in Nat /\ Len(t) \in Nat /\ Len(s \o t) = Len(s) + Len(t)
      /\ \A i \in 1 .. Len(s) + Len(t) :
           (s \o t)[i] = IF i <= Len(s) THEN s[i] ELSE t[i - Len(s)]
  BY ConcatProperties
<1>2. ASSUME Member(x, s \o t) PROVE Member(x, s) \/ Member(x, t)
  BY <1>1, <1>2 DEF Member
<1>3. ASSUME Member(x, s) PROVE Member(x, s \o t)
  BY <1>1, <1>3 DEF Member
<1>4. ASSUME Member(x, t) PROVE Member(x, s \o t)
  <2>1. PICK i \in 1 .. Len(t) : t[i] = x
    BY <1>4 DEF Member
  <2>2. i + Len(s) \in 1 .. Len(s) + Len(t) /\ ~ (i + Len(s) <= Len(s)) /\ (i + Len(s)) - Len(s) = i
    BY <1>1
  <2> QED BY <1>1, <2>1, <2>2 DEF Member
<1> QED BY <1>1, <1>2, <1>3, <1>4

(* What laying end to end goes through.                                     *)
FlattenRun(h, n, seqs) ==
  \A i \in 1 .. n : h[i] = IF i = 1 THEN seqs[i] ELSE h[i - 1] \o seqs[i]

LEMMA FlattenSteps ==
  ASSUME NEW S, NEW seqs \in Seq(Seq(S)), Len(seqs) # 0
  PROVE  \E h : FlattenRun(h, Len(seqs), seqs) /\ FlattenSeq(seqs) = h[Len(seqs)]
<1> DEFINE n == Len(seqs)
           E(f) == [i \in 1 .. n |-> IF i = 1 THEN seqs[i] ELSE f[i - 1] \o seqs[i]]
           fl == CHOOSE f : f = E(f)
           H == [v \in Seq(S) |-> [k \in 1 .. n |-> v \o seqs[k]]]
<1>0. n \in Nat /\ n # 0
  OBVIOUS
<1>1. (\A i \in 1 .. n : seqs[i] \in Seq(S)) /\ <<>> \in Seq(S)
  OBVIOUS
<1>2. FlattenSeq(seqs) = fl[n]
  BY DEF FlattenSeq
<1> HIDE DEF n
<1>3. \A v \in Seq(S), k \in 1 .. n : v \o seqs[k] \in Seq(S) /\ H[v][k] = v \o seqs[k]
  BY <1>1
<1> HIDE DEF H
<1>4. \E f : f = E(f)
  <2>a. ClosedUnder(H, Seq(S), n)
    BY <1>3 DEF ClosedUnder
  <2>1. PICK g \in [SUBSET (1 .. n) -> Seq(S)] : FoldRecurses(g, n, <<>>, H)
    BY <1>0, <1>1, <2>a, FoldRecursion
  <2> DEFINE f == [i \in 1 .. n |-> g[1 .. i]]
  <2>2. ASSUME NEW i \in 1 .. n
        PROVE  f[i] = IF i = 1 THEN seqs[i] ELSE f[i - 1] \o seqs[i]
    <3>1. /\ i \in Nat \ {0} /\ 1 .. i \in SUBSET (1 .. n) /\ 1 .. i # {}
          /\ 1 .. i - 1 \in SUBSET (1 .. n)
      <4>1. i \in Nat /\ i # 0 /\ i <= n /\ i \in 1 .. i
        BY <1>0
      <4>2. 1 .. i \in SUBSET (1 .. n) /\ 1 .. i - 1 \in SUBSET (1 .. n)
        BY <1>0, <4>1
      <4> QED BY <4>1, <4>2
    <3>2. g[1 .. i] = H[g[1 .. i - 1]][i]
      BY <2>1, <3>1, SegmentMax DEF FoldRecurses
    <3>3. g[1 .. i] = g[1 .. i - 1] \o seqs[i]
      BY <1>3, <3>1, <3>2
    <3>4. CASE i = 1
      <4>1. 1 .. i - 1 = {}
        BY <3>4
      <4>2. g[1 .. i] = <<>> \o seqs[i]
        BY <2>1, <3>1, <3>3, <4>1 DEF FoldRecurses
      <4> QED BY <1>1, <3>4, <4>2
    <3>5. CASE i # 1
      <4>1. i - 1 \in 1 .. n
        BY <1>0, <3>5
      <4> QED BY <3>3, <3>5, <4>1
    <3> QED BY <3>4, <3>5
  <2>3. f = E(f)
    BY <2>2
  <2> QED BY <2>3
<1>5. fl = E(fl)
  <2> HIDE DEF E
  <2> QED BY <1>4
<1> HIDE DEF fl
<1>6. \A i \in 1 .. n : fl[i] = IF i = 1 THEN seqs[i] ELSE fl[i - 1] \o seqs[i]
  BY <1>5
<1> QED BY <1>2, <1>6 DEF FlattenRun, n

LEMMA FlattenMembers ==
  ASSUME NEW S, NEW seqs \in Seq(Seq(S)), NEW x
  PROVE  /\ FlattenSeq(seqs) \in Seq(S)
         /\ Member(x, FlattenSeq(seqs)) <=> \E i \in 1 .. Len(seqs) : Member(x, seqs[i])
<1>1. CASE Len(seqs) = 0
  <2>1. FlattenSeq(seqs) = seqs /\ seqs = <<>>
    BY <1>1 DEF FlattenSeq
  <2> QED BY <1>1, <2>1 DEF Member
<1>2. CASE Len(seqs) # 0
  <2> DEFINE n == Len(seqs)
  <2>0. n \in Nat /\ n # 0
    BY <1>2
  <2>1. \A i \in 1 .. n : seqs[i] \in Seq(S)
    OBVIOUS
  <2>2. PICK fl : FlattenRun(fl, n, seqs) /\ FlattenSeq(seqs) = fl[n]
    BY <1>2, FlattenSteps
  <2> HIDE DEF n
  <2>6. \A i \in 1 .. n : fl[i] = IF i = 1 THEN seqs[i] ELSE fl[i - 1] \o seqs[i]
    BY <2>2 DEF FlattenRun
  <2> DEFINE T == {k \in 0 .. n : k # 0 =>
                     /\ fl[k] \in Seq(S)
                     /\ Member(x, fl[k]) <=> \E i \in 1 .. k : Member(x, seqs[i])}
  <2>7. 0 \in T
    BY <2>0
  <2>8. ASSUME NEW k \in 0 .. n - 1, k \in T PROVE k + 1 \in T
    <3>1. k + 1 \in 1 .. n /\ (k + 1) - 1 = k /\ k + 1 # 0 /\ k \in Nat
      BY <2>0
    <3>2. CASE k = 0
      <4>1. fl[1] = seqs[1]
        BY <2>6, <3>1, <3>2
      <4> QED BY <2>1, <3>1, <3>2, <4>1
    <3>3. CASE k # 0
      <4>1. fl[k + 1] = fl[k] \o seqs[k + 1]
        <5>1. k + 1 # 1
          BY <3>1, <3>3
        <5> QED BY <2>6, <3>1, <5>1
      <4>2. fl[k] \in Seq(S) /\ (Member(x, fl[k]) <=> \E i \in 1 .. k : Member(x, seqs[i]))
        BY <2>8, <3>3
      <4>3. /\ fl[k + 1] \in Seq(S)
            /\ Member(x, fl[k + 1]) <=> Member(x, fl[k]) \/ Member(x, seqs[k + 1])
        BY <2>1, <3>1, <4>1, <4>2, ConcatMembers
      <4>4. \A i : i \in 1 .. k + 1 <=> i \in 1 .. k \/ i = k + 1
        BY <3>1
      <4> QED BY <3>1, <4>2, <4>3, <4>4
    <3> QED BY <3>2, <3>3
  <2>9. n \in T
    <3> HIDE DEF T
    <3>1. 0 .. n \subseteq T
      BY <2>0, <2>7, <2>8, BoundedInduction
    <3> QED BY <2>0, <3>1
  <2> QED BY <2>0, <2>2, <2>9 DEF n
<1> QED BY <1>1, <1>2

-----------------------------------------------------------------------------
(* Division with remainder *)

(* What the provers know of division with remainder, in one place.          *)
LEMMA ModOf ==
  ASSUME NEW x \in Int, NEW p \in Nat \ {0}
  PROVE  x % p \in 0 .. p - 1 /\ x \div p \in Int /\ x = p * (x \div p) + (x % p)
OBVIOUS

(* The only multiple of p that is nearer to zero than p is zero.            *)
LEMMA SmallProduct ==
  ASSUME NEW p \in Nat \ {0}, NEW d \in Int, NEW r \in Int, r > -p, r < p, p * d = r
  PROVE  r = 0
<1>1. CASE d >= 1
  <2>1. p * d >= p
    BY <1>1
  <2> QED BY <2>1
<1>2. CASE d <= -1
  <2>1. p * d <= -p
    BY <1>2
  <2> QED BY <2>1
<1>3. CASE d = 0
  BY <1>3
<1> QED BY <1>1, <1>2, <1>3

(* The remainder is the only number below p with which a multiple of p makes*)
(* the number.                                                              *)
LEMMA ModUnique ==
  ASSUME NEW p \in Nat \ {0}, NEW q \in Int, NEW r \in 0 .. p - 1
  PROVE  (p * q + r) % p = r
<1> DEFINE x == p * q + r
           s == x % p
           k == x \div p
<1>1. x \in Int
  OBVIOUS
<1> HIDE DEF x
<1>2. s \in 0 .. p - 1 /\ k \in Int /\ x = p * k + s
  BY <1>1, ModOf
<1> HIDE DEF s, k
<1>3. p * k + s = p * q + r
  BY <1>2 DEF x
<1>4. p * (k - q) = r - s
  BY <1>2, <1>3
<1>5. r - s = 0
  <2>1. k - q \in Int /\ r - s \in Int /\ r - s > -p /\ r - s < p
    BY <1>2
  <2> DEFINE d == k - q
             t == r - s
  <2>2. d \in Int /\ t \in Int /\ t > -p /\ t < p /\ p * d = t
    BY <1>4, <2>1
  <2> HIDE DEF d, t
  <2>3. t = 0
    BY <2>2, SmallProduct
  <2> QED BY <2>3 DEF t
<1> QED BY <1>2, <1>5 DEF s, x

(* Multiples of p do not change a remainder.                                *)
LEMMA ModShift ==
  ASSUME NEW p \in Nat \ {0}, NEW q \in Int, NEW x \in Int
  PROVE  (x + p * q) % p = x % p
<1> DEFINE r == x % p
           k == x \div p
<1>1. r \in 0 .. p - 1 /\ k \in Int /\ x = p * k + r
  BY ModOf
<1> HIDE DEF r, k
<1>2. x + p * q = p * (k + q) + r /\ k + q \in Int
  BY <1>1
<1> DEFINE d == k + q
<1>3. d \in Int /\ x + p * q = p * d + r
  BY <1>2
<1> HIDE DEF d
<1>4. (p * d + r) % p = r
  BY <1>1, <1>3, ModUnique
<1> QED BY <1>3, <1>4 DEF r

(* Nor do remainders taken before adding or multiplying.                    *)
LEMMA ModInside ==
  ASSUME NEW p \in Nat \ {0}, NEW x \in Int, NEW y \in Int
  PROVE  ((x % p) + y) % p = (x + y) % p /\ ((x % p) * y) % p = (x * y) % p
<1> DEFINE r == x % p
           k == x \div p
<1>1. r \in 0 .. p - 1 /\ k \in Int /\ x = p * k + r
  BY ModOf
<1> HIDE DEF r, k
<1>2. x + y = (r + y) + p * k
  BY <1>1
<1>3. x * y = (r * y) + p * (k * y)
  BY <1>1
<1>4. ((r + y) + p * k) % p = (r + y) % p
  <2> DEFINE z == r + y
  <2>1. z \in Int
    BY <1>1
  <2> HIDE DEF z
  <2>2. (z + p * k) % p = z % p
    BY <1>1, <2>1, ModShift
  <2> QED BY <2>2 DEF z
<1>5. ((r * y) + p * (k * y)) % p = (r * y) % p
  <2> DEFINE z == r * y
             q == k * y
  <2>1. z \in Int /\ q \in Int
    BY <1>1
  <2> HIDE DEF z, q
  <2>2. (z + p * q) % p = z % p
    BY <2>1, ModShift
  <2> QED BY <2>2 DEF z, q
<1> QED BY <1>2, <1>3, <1>4, <1>5 DEF r

LEMMA DivUnique ==
  ASSUME NEW p \in Nat \ {0}, NEW q \in Int, NEW r \in 0 .. p - 1
  PROVE  (p * q + r) \div p = q
<1> DEFINE x == p * q + r
           s == x % p
           k == x \div p
<1>1. x \in Int
  OBVIOUS
<1> HIDE DEF x
<1>2. s \in 0 .. p - 1 /\ k \in Int /\ x = p * k + s
  BY <1>1, ModOf
<1>3. s = r
  BY ModUnique DEF x
<1> HIDE DEF s, k
<1>4. p * k = p * q
  <2>1. p * k + r = p * q + r
    BY <1>2, <1>3 DEF x
  <2> QED BY <1>2, <2>1
<1>5. p * (k - q) = 0
  BY <1>2, <1>4
<1>6. k - q = 0
  BY <1>2, <1>5
<1> QED BY <1>2, <1>6 DEF k, x

LEMMA HalfDiv ==
  ASSUME NEW a \in Nat, NEW m \in Nat \ {0}
  PROVE  a \div (2 * m) = (a \div m) \div 2 /\ a \div m \in Nat
<1> DEFINE x == a \div m
           r == a % m
<1>1. r \in 0 .. m - 1 /\ x \in Int /\ a = m * x + r
  BY ModOf
<1> HIDE DEF x, r
<1>2. x >= 0
  <2>1. CASE x <= -1
    <3>1. m * x <= -m
      BY <1>1, <2>1
    <3> QED BY <1>1, <3>1
  <2> QED BY <1>1, <2>1
<1> DEFINE y == x \div 2
           b == x % 2
<1>3. b \in 0 .. 1 /\ y \in Int /\ x = 2 * y + b
  <2>1. b \in 0 .. 2 - 1 /\ y \in Int /\ x = 2 * y + b
    BY <1>1, ModOf
  <2> QED BY <2>1
<1> HIDE DEF y, b
<1> DEFINE s == m * b + r
           n == 2 * m
<1>4. a = n * y + s
  <2>1. m * (2 * y + b) = (2 * m) * y + m * b
    BY <1>3
  <2> QED BY <1>1, <1>3, <2>1
<1>5. s \in 0 .. n - 1 /\ n \in Nat \ {0}
  <2>1. CASE b = 0
    BY <1>1, <2>1
  <2>2. CASE b = 1
    BY <1>1, <2>2
  <2> QED BY <1>3, <2>1, <2>2
<1> HIDE DEF s, n
<1>6. a \div n = y
  BY <1>3, <1>4, <1>5, DivUnique
<1> QED BY <1>1, <1>2, <1>6 DEF n, y, x

LEMMA DivOne ==
  ASSUME NEW a \in Nat
  PROVE  a \div 1 = a
<1>1. (1 * a + 0) \div 1 = a
  <2>1. 1 \in Nat \ {0} /\ a \in Int /\ 0 \in 0 .. 1 - 1
    OBVIOUS
  <2> QED BY <2>1, DivUnique
<1>2. 1 * a + 0 = a
  OBVIOUS
<1> QED BY <1>1, <1>2

-----------------------------------------------------------------------------
(* The laws of a field, which the operations that the module is             *)
(* instantiated with are shown to have.                                     *)
FieldLaws ==
  /\ Zero \in Elements /\ One \in Elements /\ Zero # One
  /\ \A a, b \in Elements : Add(a, b) \in Elements /\ Sub(a, b) \in Elements /\ Mul(a, b) \in Elements
  /\ \A a, b, c \in Elements :
       /\ Add(a, b) = Add(b, a)
       /\ Add(Add(a, b), c) = Add(a, Add(b, c))
       /\ Add(a, Zero) = a /\ Add(Zero, a) = a
       /\ Sub(a, a) = Zero
       /\ Add(Sub(a, b), b) = a
  /\ \A a, b, c \in Elements :
       /\ Mul(a, b) = Mul(b, a)
       /\ Mul(Mul(a, b), c) = Mul(a, Mul(b, c))
       /\ Mul(a, One) = a /\ Mul(One, a) = a
       /\ Mul(a, Zero) = Zero /\ Mul(Zero, a) = Zero
       /\ Mul(a, Add(b, c)) = Add(Mul(a, b), Mul(a, c))
  /\ \A a \in Elements \ {Zero} : Inv(a) \in Elements /\ Mul(a, Inv(a)) = One

(* Sums, differences and products of elements are elements.                 *)
LEMMA FieldClosed ==
  ASSUME FieldLaws
  PROVE  /\ Zero \in Elements /\ One \in Elements /\ Zero # One
         /\ \A a, b \in Elements : Add(a, b) \in Elements /\ Sub(a, b) \in Elements /\ Mul(a, b) \in Elements
BY DEF FieldLaws

(* Addition is that of a commutative group, ...                             *)
LEMMA AddIsGroup ==
  ASSUME FieldLaws, NEW a \in Elements, NEW b \in Elements, NEW c \in Elements
  PROVE  /\ Add(a, b) = Add(b, a)
         /\ Add(Add(a, b), c) = Add(a, Add(b, c))
         /\ Add(a, Zero) = a /\ Add(Zero, a) = a
         /\ Sub(a, a) = Zero
         /\ Add(Sub(a, b), b) = a
BY DEF FieldLaws

(* ... multiplication is commutative, associative, and distributes over it, *)
LEMMA MulIsMonoid ==
  ASSUME FieldLaws, NEW a \in Elements, NEW b \in Elements, NEW c \in Elements
  PROVE  /\ Mul(a, b) = Mul(b, a)
         /\ Mul(Mul(a, b), c) = Mul(a, Mul(b, c))
         /\ Mul(a, One) = a /\ Mul(One, a) = a
         /\ Mul(a, Zero) = Zero /\ Mul(Zero, a) = Zero
         /\ Mul(a, Add(b, c)) = Add(Mul(a, b), Mul(a, c))
BY DEF FieldLaws

(* ... and every element but zero has an inverse.                           *)
LEMMA InverseExists ==
  ASSUME FieldLaws, NEW a \in Elements, a # Zero
  PROVE  Inv(a) \in Elements /\ Mul(a, Inv(a)) = One
BY DEF FieldLaws

-----------------------------------------------------------------------------
(* Sums *)

(* The partial sums of some terms.                                          *)
Sums(h, n, t) == h[0] = Zero /\ \A k \in 1 .. n : h[k] = Add(h[k - 1], t[k])

LEMMA LenOf ==
  ASSUME NEW S, NEW n \in Nat, NEW t \in [1 .. n -> S]
  PROVE  t \in Seq(S) /\ Len(t) = n /\ DOMAIN t = 1 .. n
<1>1. t \in Seq(S)
  BY DEF Seq
<1> QED BY <1>1, LenProperties

LEMMA TotalSums ==
  ASSUME FieldLaws, NEW n \in Nat, NEW t \in [1 .. n -> Elements]
  PROVE  \E h \in [0 .. n -> Elements] : Sums(h, n, t) /\ h[n] = Total(t)
<1> DEFINE E(f) == [k \in 0 .. n |-> IF k = 0 THEN Zero ELSE Add(f[k - 1], t[k])]
           sum == CHOOSE f : f = E(f)
           H == [v \in Elements |-> [k \in 1 .. n |-> Add(v, t[k])]]
<1>1. Total(t) = sum[n]
  BY LenOf DEF Total
<1>2. ClosedUnder(H, Elements, n)
  BY FieldClosed DEF ClosedUnder
<1>3. \A v \in Elements, k \in 1 .. n : H[v][k] = Add(v, t[k])
  OBVIOUS
<1> HIDE DEF H
<1>4. PICK h \in [0 .. n -> Elements] : History(h, n, Zero, H)
  BY <1>2, FieldClosed, BoundedRecursion
<1>5. \A k \in 1 .. n : k - 1 \in 0 .. n
  OBVIOUS
<1>6. h[0] = Zero /\ \A k \in 1 .. n : h[k] = Add(h[k - 1], t[k])
  BY <1>3, <1>4, <1>5 DEF History
<1>7. h = E(h)
  BY <1>6
<1>8. sum = E(sum)
  <2>1. \E f : f = E(f)
    BY <1>7
  <2> HIDE DEF E
  <2> QED BY <2>1
<1> HIDE DEF sum
<1>9. sum[0] = Zero /\ \A k \in 1 .. n : sum[k] = Add(sum[k - 1], t[k])
  BY <1>8
<1> DEFINE T == {k \in 0 .. n : sum[k] = h[k]}
<1>10. 0 \in T /\ \A k \in 0 .. n - 1 : k \in T => k + 1 \in T
  <2>1. 0 \in T
    BY <1>6, <1>9
  <2>2. ASSUME NEW k \in 0 .. n - 1, k \in T PROVE k + 1 \in T
    <3>1. k + 1 \in 1 .. n /\ (k + 1) - 1 = k
      OBVIOUS
    <3> QED BY <1>6, <1>9, <2>2, <3>1
  <2> QED BY <2>1, <2>2
<1>11. 0 .. n \subseteq T
  <2> HIDE DEF T
  <2> QED BY <1>10, BoundedInduction
<1> QED BY <1>1, <1>4, <1>6, <1>11 DEF Sums

LEMMA TotalIs ==
  ASSUME FieldLaws, NEW n \in Nat, NEW t \in [1 .. n -> Elements], NEW h, Sums(h, n, t)
  PROVE  Total(t) = h[n]
<1>1. PICK g \in [0 .. n -> Elements] : Sums(g, n, t) /\ g[n] = Total(t)
  BY TotalSums
<1> DEFINE T == {k \in 0 .. n : g[k] = h[k]}
<1>2. 0 \in T
  BY <1>1 DEF Sums
<1>3. ASSUME NEW k \in 0 .. n - 1, k \in T PROVE k + 1 \in T
  <2>1. k + 1 \in 1 .. n /\ (k + 1) - 1 = k
    OBVIOUS
  <2> QED BY <1>1, <1>3, <2>1 DEF Sums
<1>4. 0 .. n \subseteq T
  <2> HIDE DEF T
  <2> QED BY <1>2, <1>3, BoundedInduction
<1> QED BY <1>1, <1>4

LEMMA TotalInField ==
  ASSUME FieldLaws, NEW n \in Nat, NEW t \in [1 .. n -> Elements]
  PROVE  Total(t) \in Elements
BY TotalSums

LEMMA TotalOfNone ==
  ASSUME FieldLaws
  PROVE  Total(<<>>) = Zero
<1>1. <<>> \in [1 .. 0 -> Elements]
  OBVIOUS
<1>2. Sums([k \in {0} |-> Zero], 0, <<>>)
  BY DEF Sums
<1> QED BY <1>1, <1>2, TotalIs

LEMMA TotalLast ==
  ASSUME FieldLaws, NEW n \in Nat, NEW t \in [1 .. n + 1 -> Elements]
  PROVE  Total(t) = Add(Total([k \in 1 .. n |-> t[k]]), t[n + 1])
<1> DEFINE s == [k \in 1 .. n |-> t[k]]
<1>1. n + 1 \in Nat /\ n + 1 \in 1 .. n + 1 /\ (n + 1) - 1 = n /\ s \in [1 .. n -> Elements]
  OBVIOUS
<1>2. PICK h \in [0 .. n + 1 -> Elements] : Sums(h, n + 1, t) /\ h[n + 1] = Total(t)
  BY <1>1, TotalSums
<1>3. Sums(h, n, s)
  BY <1>2 DEF Sums
<1>4. Total(s) = h[n]
  BY <1>1, <1>3, TotalIs
<1> QED BY <1>1, <1>2, <1>4 DEF Sums

(* Sums are linear in their terms. *)
LEMMA TotalAdd ==
  ASSUME FieldLaws, NEW n \in Nat, NEW s \in [1 .. n -> Elements], NEW t \in [1 .. n -> Elements]
  PROVE  Total([k \in 1 .. n |-> Add(s[k], t[k])]) = Add(Total(s), Total(t))
<1> DEFINE u == [k \in 1 .. n |-> Add(s[k], t[k])]
<1>1. u \in [1 .. n -> Elements]
  BY FieldClosed
<1>2. PICK g \in [0 .. n -> Elements] : Sums(g, n, s) /\ g[n] = Total(s)
  BY TotalSums
<1>3. PICK h \in [0 .. n -> Elements] : Sums(h, n, t) /\ h[n] = Total(t)
  BY TotalSums
<1> DEFINE v == [k \in 0 .. n |-> Add(g[k], h[k])]
<1>4. Sums(v, n, u)
  <2>1. v[0] = Zero
    BY <1>2, <1>3, FieldClosed, AddIsGroup DEF Sums
  <2>2. ASSUME NEW k \in 1 .. n PROVE v[k] = Add(v[k - 1], u[k])
    <3>1. k - 1 \in 0 .. n /\ k \in 0 .. n
      OBVIOUS
    <3> DEFINE a == g[k - 1]
               b == h[k - 1]
               c == s[k]
               d == t[k]
    <3>2. a \in Elements /\ b \in Elements /\ c \in Elements /\ d \in Elements
      BY <3>1
    <3>3. g[k] = Add(a, c) /\ h[k] = Add(b, d)
      BY <1>2, <1>3 DEF Sums
    <3>4. v[k] = Add(Add(a, c), Add(b, d)) /\ v[k - 1] = Add(a, b) /\ u[k] = Add(c, d)
      BY <3>1, <3>3
    <3> HIDE DEF a, b, c, d
    <3>5. Add(Add(a, c), Add(b, d)) = Add(Add(a, b), Add(c, d))
      <4>1. Add(c, Add(b, d)) = Add(b, Add(c, d))
        BY <3>2, AddIsGroup
      <4>2. Add(b, d) \in Elements /\ Add(c, d) \in Elements
        BY <3>2, FieldClosed
      <4> QED BY <3>2, <4>1, <4>2, AddIsGroup
    <3> QED BY <3>4, <3>5
  <2> HIDE DEF u, v
  <2> QED BY <2>1, <2>2 DEF Sums
<1>5. Total(u) = v[n]
  BY <1>1, <1>4, TotalIs
<1> QED BY <1>2, <1>3, <1>5

LEMMA TotalScale ==
  ASSUME FieldLaws, NEW n \in Nat, NEW a \in Elements, NEW t \in [1 .. n -> Elements]
  PROVE  Total([k \in 1 .. n |-> Mul(a, t[k])]) = Mul(a, Total(t))
<1> DEFINE u == [k \in 1 .. n |-> Mul(a, t[k])]
<1>1. u \in [1 .. n -> Elements]
  BY FieldClosed
<1>2. PICK h \in [0 .. n -> Elements] : Sums(h, n, t) /\ h[n] = Total(t)
  BY TotalSums
<1> DEFINE v == [k \in 0 .. n |-> Mul(a, h[k])]
<1>3. v[0] = Zero
  BY <1>2, FieldClosed, MulIsMonoid DEF Sums
<1>4. ASSUME NEW k \in 1 .. n PROVE v[k] = Add(v[k - 1], u[k])
  <2>1. k - 1 \in 0 .. n /\ k \in 0 .. n /\ h[k - 1] \in Elements /\ t[k] \in Elements
    OBVIOUS
  <2>2. h[k] = Add(h[k - 1], t[k])
    BY <1>2 DEF Sums
  <2>3. Mul(a, Add(h[k - 1], t[k])) = Add(Mul(a, h[k - 1]), Mul(a, t[k]))
    BY <2>1, MulIsMonoid
  <2> QED BY <2>1, <2>2, <2>3
<1>5. Sums(v, n, u)
  <2> HIDE DEF u, v
  <2> QED BY <1>3, <1>4 DEF Sums
<1>6. Total(u) = v[n]
  BY <1>1, <1>5, TotalIs
<1> QED BY <1>2, <1>6

(* A sum with at most one term that is not zero.                            *)
LEMMA TotalOfOne ==
  ASSUME FieldLaws, NEW n \in Nat, NEW t \in [1 .. n -> Elements], NEW i \in 1 .. n,
         \A k \in 1 .. n : k # i => t[k] = Zero
  PROVE  Total(t) = t[i]
<1> DEFINE h == [k \in 0 .. n |-> IF k < i THEN Zero ELSE t[i]]
<1>1. h[0] = Zero
  OBVIOUS
<1>2. ASSUME NEW k \in 1 .. n PROVE h[k] = Add(h[k - 1], t[k])
  <2>1. k - 1 \in 0 .. n /\ k \in 0 .. n /\ t[i] \in Elements /\ t[k] \in Elements
    OBVIOUS
  <2>2. CASE k < i
    <3>1. h[k] = Zero /\ h[k - 1] = Zero /\ t[k] = Zero
      BY <2>1, <2>2
    <3> HIDE DEF h
    <3> QED BY <3>1, FieldClosed, AddIsGroup
  <2>3. CASE k = i
    <3>1. h[k] = t[i] /\ h[k - 1] = Zero
      BY <2>1, <2>3
    <3> HIDE DEF h
    <3> QED BY <2>1, <2>3, <3>1, AddIsGroup
  <2>4. CASE k > i
    <3>1. h[k] = t[i] /\ h[k - 1] = t[i] /\ t[k] = Zero
      BY <2>1, <2>4
    <3> HIDE DEF h
    <3> QED BY <2>1, <3>1, AddIsGroup
  <2> QED BY <2>2, <2>3, <2>4
<1>3. Sums(h, n, t)
  <2> HIDE DEF h
  <2> QED BY <1>1, <1>2 DEF Sums
<1>4. Total(t) = h[n]
  BY <1>3, TotalIs
<1> QED BY <1>4

LEMMA TotalOfZeros ==
  ASSUME FieldLaws, NEW n \in Nat, NEW t \in [1 .. n -> Elements], \A k \in 1 .. n : t[k] = Zero
  PROVE  Total(t) = Zero
<1> DEFINE h == [k \in 0 .. n |-> Zero]
<1>1. Sums(h, n, t)
  BY FieldClosed, AddIsGroup DEF Sums
<1> QED BY <1>1, TotalIs

-----------------------------------------------------------------------------
(* Vectors and matrices *)

Vectors(w) == [1 .. w -> Elements]
Matrices(m, w) == [1 .. m -> Vectors(w)]
VectorAdd(x, y) == [j \in DOMAIN x |-> Add(x[j], y[j])]
VectorMul(a, x) == [j \in DOMAIN x |-> Mul(a, x[j])]
ZeroVector(w) == [j \in 1 .. w |-> Zero]
UnitVector(w, i) == [j \in 1 .. w |-> IF i = j THEN One ELSE Zero]

(* The terms of an entry of a combination. *)
Terms(f, A, j) == [k \in DOMAIN A |-> Mul(f[k], A[k][j])]

LEMMA VectorAddIs ==
  ASSUME FieldLaws, NEW w \in Nat, NEW x \in Vectors(w), NEW y \in Vectors(w)
  PROVE  /\ VectorAdd(x, y) \in Vectors(w)
         /\ \A j \in 1 .. w : /\ VectorAdd(x, y)[j] = Add(x[j], y[j])
                              /\ x[j] \in Elements /\ y[j] \in Elements
BY FieldClosed DEF Vectors, VectorAdd

LEMMA VectorsEqual ==
  ASSUME NEW w \in Nat, NEW x \in Vectors(w), NEW y \in Vectors(w),
         \A j \in 1 .. w : x[j] = y[j]
  PROVE  x = y
BY DEF Vectors

LEMMA VectorMulIs ==
  ASSUME FieldLaws, NEW w \in Nat, NEW x \in Vectors(w), NEW a \in Elements
  PROVE  /\ VectorMul(a, x) \in Vectors(w)
         /\ \A j \in 1 .. w : VectorMul(a, x)[j] = Mul(a, x[j]) /\ x[j] \in Elements
BY FieldClosed DEF Vectors, VectorMul

LEMMA UnitVectorIs ==
  ASSUME FieldLaws, NEW w \in Nat
  PROVE  /\ ZeroVector(w) \in Vectors(w)
         /\ \A i \in 1 .. w : UnitVector(w, i) \in Vectors(w)
BY FieldClosed DEF Vectors, ZeroVector, UnitVector

LEMMA CombinationIs ==
  ASSUME FieldLaws, NEW m \in Nat \ {0}, NEW w \in Nat, NEW A \in Matrices(m, w), NEW f \in Vectors(m)
  PROVE  /\ Combination(f, A) \in Vectors(w)
         /\ \A j \in 1 .. w : /\ Terms(f, A, j) \in [1 .. m -> Elements]
                              /\ \A k \in 1 .. m : Terms(f, A, j)[k] = Mul(f[k], A[k][j])
                              /\ Combination(f, A)[j] = Total(Terms(f, A, j))
<1>1. DOMAIN A = 1 .. m /\ DOMAIN A[1] = 1 .. w
  BY DEF Matrices, Vectors
<1>2. \A j \in 1 .. w, k \in 1 .. m : f[k] \in Elements /\ A[k][j] \in Elements
  BY DEF Matrices, Vectors
<1>3. \A j \in 1 .. w : /\ Terms(f, A, j) \in [1 .. m -> Elements]
                        /\ \A k \in 1 .. m : Terms(f, A, j)[k] = Mul(f[k], A[k][j])
  BY <1>1, <1>2, FieldClosed DEF Terms
<1>4. Combination(f, A) = [j \in 1 .. w |-> Total(Terms(f, A, j))]
  BY <1>1 DEF Combination, Terms
<1>5. \A j \in 1 .. w : Total(Terms(f, A, j)) \in Elements
  BY <1>3, TotalInField
<1> QED BY <1>3, <1>4, <1>5 DEF Vectors

(* A combination is linear in its factors. *)
LEMMA CombinationAdd ==
  ASSUME FieldLaws, NEW m \in Nat \ {0}, NEW w \in Nat, NEW A \in Matrices(m, w),
         NEW f \in Vectors(m), NEW g \in Vectors(m)
  PROVE  Combination(VectorAdd(f, g), A) = VectorAdd(Combination(f, A), Combination(g, A))
<1> DEFINE h == VectorAdd(f, g)
<1>1. h \in Vectors(m) /\ \A k \in 1 .. m : h[k] = Add(f[k], g[k])
  BY VectorAddIs
<1> HIDE DEF h
<1>2. /\ Combination(h, A) \in Vectors(w)
      /\ Combination(f, A) \in Vectors(w)
      /\ Combination(g, A) \in Vectors(w)
  BY <1>1, CombinationIs
<1>3. ASSUME NEW j \in 1 .. w
      PROVE  Combination(h, A)[j] = Add(Combination(f, A)[j], Combination(g, A)[j])
  <2> DEFINE s == Terms(f, A, j)
             t == Terms(g, A, j)
             u == Terms(h, A, j)
  <2>1. /\ s \in [1 .. m -> Elements] /\ t \in [1 .. m -> Elements] /\ u \in [1 .. m -> Elements]
        /\ Combination(f, A)[j] = Total(s) /\ Combination(g, A)[j] = Total(t)
        /\ Combination(h, A)[j] = Total(u)
        /\ \A k \in 1 .. m : /\ s[k] = Mul(f[k], A[k][j]) /\ t[k] = Mul(g[k], A[k][j])
                             /\ u[k] = Mul(h[k], A[k][j])
    BY <1>1, CombinationIs
  <2> HIDE DEF s, t, u
  <2>2. ASSUME NEW k \in 1 .. m PROVE u[k] = Add(s[k], t[k])
    <3>1. f[k] \in Elements /\ g[k] \in Elements /\ A[k][j] \in Elements /\ h[k] \in Elements
      BY <1>1 DEF Vectors, Matrices
    <3>2. Mul(A[k][j], Add(f[k], g[k])) = Add(Mul(A[k][j], f[k]), Mul(A[k][j], g[k]))
      BY <3>1, MulIsMonoid
    <3>3. Mul(Add(f[k], g[k]), A[k][j]) = Add(Mul(f[k], A[k][j]), Mul(g[k], A[k][j]))
      BY <1>1, <3>1, <3>2, MulIsMonoid
    <3> QED BY <1>1, <2>1, <3>3
  <2>3. u = [k \in 1 .. m |-> Add(s[k], t[k])]
    BY <2>1, <2>2
  <2>4. Total(u) = Add(Total(s), Total(t))
    BY <2>1, <2>3, TotalAdd
  <2> QED BY <2>1, <2>4
<1>4. Combination(h, A) = [j \in 1 .. w |-> Add(Combination(f, A)[j], Combination(g, A)[j])]
  BY <1>2, <1>3 DEF Vectors
<1> QED BY <1>2, <1>4 DEF h, VectorAdd, Vectors

LEMMA CombinationScale ==
  ASSUME FieldLaws, NEW m \in Nat \ {0}, NEW w \in Nat, NEW A \in Matrices(m, w),
         NEW f \in Vectors(m), NEW a \in Elements
  PROVE  Combination(VectorMul(a, f), A) = VectorMul(a, Combination(f, A))
<1> DEFINE h == VectorMul(a, f)
<1>1. h \in Vectors(m) /\ \A k \in 1 .. m : h[k] = Mul(a, f[k])
  BY VectorMulIs
<1> HIDE DEF h
<1>2. Combination(h, A) \in Vectors(w) /\ Combination(f, A) \in Vectors(w)
  BY <1>1, CombinationIs
<1>3. ASSUME NEW j \in 1 .. w
      PROVE  Combination(h, A)[j] = Mul(a, Combination(f, A)[j])
  <2> DEFINE s == Terms(f, A, j)
             u == Terms(h, A, j)
  <2>1. /\ s \in [1 .. m -> Elements] /\ u \in [1 .. m -> Elements]
        /\ Combination(f, A)[j] = Total(s) /\ Combination(h, A)[j] = Total(u)
        /\ \A k \in 1 .. m : s[k] = Mul(f[k], A[k][j]) /\ u[k] = Mul(h[k], A[k][j])
    BY <1>1, CombinationIs
  <2> HIDE DEF s, u
  <2>2. ASSUME NEW k \in 1 .. m PROVE u[k] = Mul(a, s[k])
    <3>1. f[k] \in Elements /\ A[k][j] \in Elements
      BY DEF Vectors, Matrices
    <3>2. Mul(Mul(a, f[k]), A[k][j]) = Mul(a, Mul(f[k], A[k][j]))
      BY <3>1, MulIsMonoid
    <3> QED BY <1>1, <2>1, <3>2
  <2>3. u = [k \in 1 .. m |-> Mul(a, s[k])]
    BY <2>1, <2>2
  <2>4. Total(u) = Mul(a, Total(s))
    BY <2>1, <2>3, TotalScale
  <2> QED BY <2>1, <2>4
<1>4. Combination(h, A) = [j \in 1 .. w |-> Mul(a, Combination(f, A)[j])]
  BY <1>2, <1>3 DEF Vectors
<1> QED BY <1>2, <1>4 DEF h, VectorMul, Vectors

(* With a unit vector as factors it is a row ...                            *)
LEMMA CombinationUnit ==
  ASSUME FieldLaws, NEW m \in Nat \ {0}, NEW w \in Nat, NEW A \in Matrices(m, w), NEW i \in 1 .. m,
         NEW f \in Vectors(m), NEW a \in Elements,
         f[i] = a, \A k \in 1 .. m : k # i => f[k] = Zero
  PROVE  Combination(f, A) = VectorMul(a, A[i])
<1>1. Combination(f, A) \in Vectors(w) /\ A[i] \in Vectors(w)
  BY CombinationIs DEF Matrices
<1>2. ASSUME NEW j \in 1 .. w PROVE Combination(f, A)[j] = Mul(a, A[i][j])
  <2> DEFINE s == Terms(f, A, j)
  <2>1. /\ s \in [1 .. m -> Elements] /\ Combination(f, A)[j] = Total(s)
        /\ \A k \in 1 .. m : s[k] = Mul(f[k], A[k][j])
    BY CombinationIs
  <2> HIDE DEF s
  <2>2. ASSUME NEW k \in 1 .. m, k # i PROVE s[k] = Zero
    <3>1. A[k][j] \in Elements
      BY DEF Matrices, Vectors
    <3> QED BY <2>1, <2>2, <3>1, MulIsMonoid
  <2>3. Total(s) = s[i]
    BY <2>1, <2>2, TotalOfOne
  <2> QED BY <2>1, <2>3
<1>3. Combination(f, A) = [j \in 1 .. w |-> Mul(a, A[i][j])]
  BY <1>1, <1>2 DEF Vectors
<1> QED BY <1>1, <1>3 DEF Vectors, VectorMul

LEMMA CombinationRow ==
  ASSUME FieldLaws, NEW m \in Nat \ {0}, NEW w \in Nat, NEW A \in Matrices(m, w), NEW i \in 1 .. m
  PROVE  Combination(UnitVector(m, i), A) = A[i]
<1>1. UnitVector(m, i) \in Vectors(m) /\ One \in Elements /\ UnitVector(m, i)[i] = One
      /\ \A k \in 1 .. m : k # i => UnitVector(m, i)[k] = Zero
  BY FieldClosed DEF UnitVector, Vectors
<1>2. Combination(UnitVector(m, i), A) = VectorMul(One, A[i])
  BY <1>1, CombinationUnit
<1>3. A[i] \in Vectors(w)
  BY DEF Matrices
<1>4. VectorMul(One, A[i]) = A[i]
  BY <1>3, MulIsMonoid DEF VectorMul, Vectors
<1> QED BY <1>2, <1>4

(* ... and with the unit vectors as rows the factors.                       *)
LEMMA CombinationOfUnits ==
  ASSUME FieldLaws, NEW m \in Nat \ {0}, NEW f \in Vectors(m), NEW A \in Matrices(m, m),
         \A i, j \in 1 .. m : A[i][j] = IF i = j THEN One ELSE Zero
  PROVE  Combination(f, A) = f
<1>1. Combination(f, A) \in Vectors(m)
  BY CombinationIs
<1>2. ASSUME NEW j \in 1 .. m PROVE Combination(f, A)[j] = f[j]
  <2> DEFINE s == Terms(f, A, j)
  <2>1. /\ s \in [1 .. m -> Elements] /\ Combination(f, A)[j] = Total(s)
        /\ \A k \in 1 .. m : s[k] = Mul(f[k], A[k][j])
    BY CombinationIs
  <2> HIDE DEF s
  <2>2. \A k \in 1 .. m : f[k] \in Elements
    BY DEF Vectors
  <2>3. \A k \in 1 .. m : k # j => s[k] = Zero
    BY <2>1, <2>2, MulIsMonoid
  <2>4. Total(s) = s[j]
    BY <2>1, <2>3, TotalOfOne
  <2>5. s[j] = f[j]
    BY <2>1, <2>2, MulIsMonoid
  <2> QED BY <2>1, <2>4, <2>5
<1> QED BY <1>1, <1>2 DEF Vectors

(* The last row on its own. *)
LEMMA CombinationLast ==
  ASSUME FieldLaws, NEW m \in Nat \ {0}, NEW w \in Nat, NEW A \in Matrices(m + 1, w),
         NEW f \in Vectors(m + 1), NEW B \in Matrices(m, w), NEW g \in Vectors(m),
         \A k \in 1 .. m : B[k] = A[k] /\ g[k] = f[k]
  PROVE  Combination(f, A) = VectorAdd(Combination(g, B), VectorMul(f[m + 1], A[m + 1]))
<1>1. m + 1 \in Nat \ {0} /\ m + 1 \in 1 .. m + 1 /\ 1 .. m \subseteq 1 .. m + 1
  OBVIOUS
<1>2. /\ Combination(f, A) \in Vectors(w) /\ Combination(g, B) \in Vectors(w)
      /\ A[m + 1] \in Vectors(w) /\ f[m + 1] \in Elements
  BY <1>1, CombinationIs DEF Matrices, Vectors
<1>3. ASSUME NEW j \in 1 .. w
      PROVE  Combination(f, A)[j] = Add(Combination(g, B)[j], Mul(f[m + 1], A[m + 1][j]))
  <2> DEFINE s == Terms(f, A, j)
             t == Terms(g, B, j)
  <2>1. /\ s \in [1 .. m + 1 -> Elements] /\ Combination(f, A)[j] = Total(s)
        /\ \A k \in 1 .. m + 1 : s[k] = Mul(f[k], A[k][j])
    BY <1>1, CombinationIs
  <2>2. /\ t \in [1 .. m -> Elements] /\ Combination(g, B)[j] = Total(t)
        /\ \A k \in 1 .. m : t[k] = Mul(g[k], B[k][j])
    BY <1>1, CombinationIs
  <2> HIDE DEF s, t
  <2>3. t = [k \in 1 .. m |-> s[k]]
    BY <1>1, <2>1, <2>2
  <2>4. Total(s) = Add(Total(t), s[m + 1])
    BY <2>1, <2>3, TotalLast
  <2> QED BY <1>1, <2>1, <2>2, <2>4
<1> DEFINE x == Combination(g, B)
           y == VectorMul(f[m + 1], A[m + 1])
           z == Combination(f, A)
<1>4. y \in Vectors(w) /\ \A j \in 1 .. w : y[j] = Mul(f[m + 1], A[m + 1][j])
  BY <1>2, VectorMulIs
<1>5. VectorAdd(x, y) \in Vectors(w) /\ \A j \in 1 .. w : VectorAdd(x, y)[j] = Add(x[j], y[j])
  BY <1>2, <1>4, VectorAddIs
<1> HIDE DEF x, y
<1> QED BY <1>2, <1>3, <1>4, <1>5 DEF Vectors, x, y

(* What is closed under addition and multiplication contains the            *)
(* combinations of its members.                                             *)
Subspace(S, w) ==
  /\ S \subseteq Vectors(w)
  /\ \A x, y \in S : VectorAdd(x, y) \in S
  /\ \A x \in S, a \in Elements : VectorMul(a, x) \in S

Rows(A, m, S) == \A k \in 1 .. m : A[k] \in S
FirstRows(A, m) == [k \in 1 .. m |-> A[k]]

LEMMA FirstRowsOf ==
  ASSUME FieldLaws, NEW m \in Nat \ {0}, NEW w \in Nat, NEW A \in Matrices(m + 1, w),
         NEW f \in Vectors(m + 1)
  PROVE  /\ FirstRows(A, m) \in Matrices(m, w) /\ FirstRows(f, m) \in Vectors(m)
         /\ f[m + 1] \in Elements /\ A[m + 1] \in Vectors(w)
         /\ Combination(f, A) = VectorAdd(Combination(FirstRows(f, m), FirstRows(A, m)),
                                          VectorMul(f[m + 1], A[m + 1]))
<1> DEFINE B == FirstRows(A, m)
           g == FirstRows(f, m)
<1>1. m + 1 \in 1 .. m + 1 /\ 1 .. m \subseteq 1 .. m + 1
  OBVIOUS
<1>2. /\ B \in Matrices(m, w) /\ g \in Vectors(m) /\ \A k \in 1 .. m : B[k] = A[k] /\ g[k] = f[k]
      /\ f[m + 1] \in Elements /\ A[m + 1] \in Vectors(w)
  BY <1>1 DEF FirstRows, Matrices, Vectors
<1> HIDE DEF B, g
<1>3. Combination(f, A) = VectorAdd(Combination(g, B), VectorMul(f[m + 1], A[m + 1]))
  BY <1>2, CombinationLast
<1> QED BY <1>2, <1>3 DEF B, g

LEMMA CombinationOfOne ==
  ASSUME FieldLaws, NEW w \in Nat, NEW A \in Matrices(1, w), NEW f \in Vectors(1)
  PROVE  /\ f[1] \in Elements /\ A[1] \in Vectors(w)
         /\ Combination(f, A) = VectorMul(f[1], A[1])
<1>1. 1 \in 1 .. 1 /\ 1 \in Nat \ {0} /\ \A k \in 1 .. 1 : k = 1
  OBVIOUS
<1>2. f[1] \in Elements /\ A[1] \in Vectors(w)
  BY <1>1 DEF Matrices, Vectors
<1>3. \A k \in 1 .. 1 : k # 1 => f[k] = Zero
  BY <1>1
<1>4. Combination(f, A) = VectorMul(f[1], A[1])
  BY <1>1, <1>2, <1>3, CombinationUnit
<1> QED BY <1>2, <1>4

LEMMA CombinationInSubspace ==
  ASSUME FieldLaws, NEW w \in Nat, NEW S, Subspace(S, w),
         NEW m \in Nat \ {0}, NEW A \in Matrices(m, w), NEW f \in Vectors(m), Rows(A, m, S)
  PROVE  Combination(f, A) \in S
<1> DEFINE Holds(n) == \A B \in Matrices(n, w), g \in Vectors(n) :
                         Rows(B, n, S) => Combination(g, B) \in S
           T == {n \in Nat : Holds(n + 1)}
<1>1. Holds(1)
  <2>1. ASSUME NEW B \in Matrices(1, w), NEW g \in Vectors(1), Rows(B, 1, S)
        PROVE  Combination(g, B) \in S
    <3>1. g[1] \in Elements /\ Combination(g, B) = VectorMul(g[1], B[1])
      BY CombinationOfOne
    <3>2. B[1] \in S
      BY <2>1 DEF Rows
    <3> QED BY <3>1, <3>2 DEF Subspace
  <2> QED BY <2>1
<1>2. ASSUME NEW n \in Nat \ {0}, Holds(n) PROVE Holds(n + 1)
  <2>1. ASSUME NEW B \in Matrices(n + 1, w), NEW g \in Vectors(n + 1), Rows(B, n + 1, S)
        PROVE  Combination(g, B) \in S
    <3>1. /\ FirstRows(B, n) \in Matrices(n, w) /\ FirstRows(g, n) \in Vectors(n)
          /\ g[n + 1] \in Elements
          /\ Combination(g, B) = VectorAdd(Combination(FirstRows(g, n), FirstRows(B, n)),
                                           VectorMul(g[n + 1], B[n + 1]))
      BY FirstRowsOf
    <3>2. Rows(FirstRows(B, n), n, S) /\ B[n + 1] \in S
      BY <2>1 DEF Rows, FirstRows
    <3>3. Combination(FirstRows(g, n), FirstRows(B, n)) \in S
      BY <1>2, <3>1, <3>2
    <3>4. VectorMul(g[n + 1], B[n + 1]) \in S
      BY <3>1, <3>2 DEF Subspace
    <3> QED BY <3>1, <3>3, <3>4 DEF Subspace
  <2> QED BY <2>1
<1>3. 0 \in T
  BY <1>1
<1>4. ASSUME NEW n \in T PROVE n + 1 \in T
  <2>1. n + 1 \in Nat \ {0} /\ Holds(n + 1) /\ n + 1 \in Nat
    OBVIOUS
  <2> HIDE DEF Holds
  <2>2. Holds((n + 1) + 1)
    BY <1>2, <2>1
  <2> QED BY <2>1, <2>2
<1>5. T = Nat
  <2>1. T \in SUBSET Nat
    OBVIOUS
  <2> HIDE DEF T
  <2> QED BY <1>3, <1>4, <2>1, SetInduction
<1>6. Holds(m)
  <2>1. m - 1 \in Nat /\ (m - 1) + 1 = m
    OBVIOUS
  <2> HIDE DEF Holds
  <2> QED BY <1>5, <2>1
<1> QED BY <1>6

(* A linear map of a combination is the combination of the mapped rows.     *)
Linear(L, w, u) ==
  /\ L \in [Vectors(w) -> Vectors(u)]
  /\ \A x, y \in Vectors(w) : L[VectorAdd(x, y)] = VectorAdd(L[x], L[y])
  /\ \A x \in Vectors(w), a \in Elements : L[VectorMul(a, x)] = VectorMul(a, L[x])

Image(L, A) == [k \in DOMAIN A |-> L[A[k]]]

LEMMA ImageIs ==
  ASSUME NEW w \in Nat, NEW u \in Nat, NEW L, Linear(L, w, u),
         NEW m \in Nat, NEW A \in Matrices(m, w)
  PROVE  Image(L, A) \in Matrices(m, u) /\ \A k \in 1 .. m : Image(L, A)[k] = L[A[k]]
BY DEF Image, Matrices, Linear

LEMMA LinearCombination ==
  ASSUME FieldLaws, NEW w \in Nat, NEW u \in Nat, NEW L, Linear(L, w, u),
         NEW m \in Nat \ {0}, NEW A \in Matrices(m, w), NEW f \in Vectors(m)
  PROVE  L[Combination(f, A)] = Combination(f, Image(L, A))
<1> DEFINE Holds(n) == \A B \in Matrices(n, w), g \in Vectors(n) :
                         L[Combination(g, B)] = Combination(g, Image(L, B))
           T == {n \in Nat : Holds(n + 1)}
<1>1. Holds(1)
  <2>1. ASSUME NEW B \in Matrices(1, w), NEW g \in Vectors(1)
        PROVE  L[Combination(g, B)] = Combination(g, Image(L, B))
    <3>1. g[1] \in Elements /\ B[1] \in Vectors(w) /\ Combination(g, B) = VectorMul(g[1], B[1])
      BY CombinationOfOne
    <3>2. Image(L, B) \in Matrices(1, u) /\ Image(L, B)[1] = L[B[1]]
      BY ImageIs
    <3>3. Combination(g, Image(L, B)) = VectorMul(g[1], Image(L, B)[1])
      BY <3>2, CombinationOfOne
    <3> QED BY <3>1, <3>2, <3>3 DEF Linear
  <2> QED BY <2>1
<1>2. ASSUME NEW n \in Nat \ {0}, Holds(n) PROVE Holds(n + 1)
  <2>1. ASSUME NEW B \in Matrices(n + 1, w), NEW g \in Vectors(n + 1)
        PROVE  L[Combination(g, B)] = Combination(g, Image(L, B))
    <3> DEFINE C == FirstRows(B, n)
               h == FirstRows(g, n)
    <3>1. /\ C \in Matrices(n, w) /\ h \in Vectors(n)
          /\ g[n + 1] \in Elements /\ B[n + 1] \in Vectors(w)
          /\ Combination(g, B) = VectorAdd(Combination(h, C), VectorMul(g[n + 1], B[n + 1]))
      BY FirstRowsOf
    <3>2. /\ Image(L, B) \in Matrices(n + 1, u) /\ Image(L, B)[n + 1] = L[B[n + 1]]
          /\ n + 1 \in 1 .. n + 1
      <4> DEFINE k == n + 1
      <4>1. k \in Nat /\ k \in 1 .. k /\ B \in Matrices(k, w)
        OBVIOUS
      <4> HIDE DEF k
      <4>2. Image(L, B) \in Matrices(k, u) /\ Image(L, B)[k] = L[B[k]]
        BY ONLY <4>1, Linear(L, w, u) DEF Image, Matrices, Linear
      <4> QED BY <4>1, <4>2 DEF k
    <3>3. Combination(g, Image(L, B)) =
            VectorAdd(Combination(h, FirstRows(Image(L, B), n)),
                      VectorMul(g[n + 1], Image(L, B)[n + 1]))
      BY <3>2, FirstRowsOf
    <3>4. FirstRows(Image(L, B), n) = Image(L, C)
      <4>1. DOMAIN B = 1 .. n + 1 /\ 1 .. n \subseteq 1 .. n + 1
        BY DEF Matrices
      <4> QED BY <4>1 DEF FirstRows, Image
    <3>5. L[Combination(h, C)] = Combination(h, Image(L, C))
      BY <1>2, <3>1
    <3>6. Combination(h, C) \in Vectors(w) /\ VectorMul(g[n + 1], B[n + 1]) \in Vectors(w)
      BY <3>1, CombinationIs, VectorMulIs
    <3> HIDE DEF C, h
    <3>7. L[Combination(g, B)] = VectorAdd(L[Combination(h, C)], L[VectorMul(g[n + 1], B[n + 1])])
      BY <3>1, <3>6 DEF Linear
    <3>8. L[VectorMul(g[n + 1], B[n + 1])] = VectorMul(g[n + 1], L[B[n + 1]])
      BY <3>1 DEF Linear
    <3> QED BY <3>2, <3>3, <3>4, <3>5, <3>7, <3>8
  <2> QED BY <2>1
<1>3. 0 \in T
  BY <1>1
<1>4. ASSUME NEW n \in T PROVE n + 1 \in T
  <2>1. n + 1 \in Nat \ {0} /\ Holds(n + 1) /\ n + 1 \in Nat
    OBVIOUS
  <2> HIDE DEF Holds
  <2>2. Holds((n + 1) + 1)
    BY <1>2, <2>1
  <2> QED BY <2>1, <2>2
<1>5. T = Nat
  <2>1. T \in SUBSET Nat
    OBVIOUS
  <2> HIDE DEF T
  <2> QED BY <1>3, <1>4, <2>1, SetInduction
<1>6. Holds(m)
  <2>1. m - 1 \in Nat /\ (m - 1) + 1 = m
    OBVIOUS
  <2> HIDE DEF Holds
  <2> QED BY <1>5, <2>1
<1> QED BY <1>6

-----------------------------------------------------------------------------
(* Row operations *)

MinusOne == Sub(Zero, One)

LEMMA AddCancels ==
  ASSUME FieldLaws, NEW a \in Elements, NEW b \in Elements, NEW c \in Elements, Add(a, c) = Add(b, c)
  PROVE  a = b
<1> DEFINE n == Sub(Zero, c)
<1>1. n \in Elements /\ Add(n, c) = Zero
  BY FieldClosed, AddIsGroup
<1> HIDE DEF n
<1>2. Add(c, n) = Zero
  BY <1>1, AddIsGroup
<1>3. Add(Add(a, c), n) = a /\ Add(Add(b, c), n) = b
  BY <1>1, <1>2, AddIsGroup
<1> QED BY <1>3

LEMMA SubIsAdd ==
  ASSUME FieldLaws, NEW a \in Elements, NEW b \in Elements
  PROVE  MinusOne \in Elements /\ Sub(a, b) = Add(a, Mul(MinusOne, b))
<1>1. MinusOne \in Elements /\ Add(MinusOne, One) = Zero
  BY FieldClosed, AddIsGroup DEF MinusOne
<1> DEFINE n == Mul(MinusOne, b)
<1>2. n \in Elements
  BY <1>1, FieldClosed
<1>3. Add(n, b) = Zero
  <2>1. Mul(b, Add(MinusOne, One)) = Add(Mul(b, MinusOne), Mul(b, One))
    BY <1>1, FieldClosed, MulIsMonoid
  <2>2. Mul(b, MinusOne) = n /\ Mul(b, One) = b /\ Mul(b, Zero) = Zero
    BY <1>1, FieldClosed, MulIsMonoid
  <2> QED BY <1>1, <2>1, <2>2
<1> HIDE DEF n
<1>4. Add(Add(a, n), b) = a
  BY <1>2, <1>3, AddIsGroup
<1>5. Add(Sub(a, b), b) = a
  BY AddIsGroup
<1>6. Add(a, n) \in Elements /\ Sub(a, b) \in Elements
  BY <1>2, FieldClosed
<1>7. Sub(a, b) = Add(a, n)
  BY <1>4, <1>5, <1>6, AddCancels
<1> QED BY <1>1, <1>7 DEF n

LEMMA NoZeroDivisors ==
  ASSUME FieldLaws, NEW a \in Elements, NEW b \in Elements, b # Zero, Mul(a, b) = Zero
  PROVE  a = Zero
<1>1. Inv(b) \in Elements /\ Mul(b, Inv(b)) = One
  BY InverseExists
<1>2. Mul(Mul(a, b), Inv(b)) = Mul(a, Mul(b, Inv(b)))
  BY <1>1, MulIsMonoid
<1>3. Mul(a, One) = a /\ Mul(Zero, Inv(b)) = Zero
  BY <1>1, FieldClosed, MulIsMonoid
<1> QED BY <1>1, <1>2, <1>3

Indep(A, m, w) == \A f \in Vectors(m) : Combination(f, A) = ZeroVector(w) => f = ZeroVector(m)

(* A and B differ by multiples of row i of B.                               *)
Differ(A, B, i, d, m, w) ==
  \A k \in 1 .. m, j \in 1 .. w : A[k][j] = Add(B[k][j], Mul(d[k], B[i][j]))

LEMMA DifferCombination ==
  ASSUME FieldLaws, NEW m \in Nat \ {0}, NEW w \in Nat, NEW A \in Matrices(m, w), NEW B \in Matrices(m, w),
         NEW i \in 1 .. m, NEW d \in Vectors(m), Differ(A, B, i, d, m, w),
         NEW f \in Vectors(m),
         NEW s, s = Total([k \in 1 .. m |-> Mul(f[k], d[k])]),
         NEW g, g = [k \in 1 .. m |-> IF k = i THEN Add(f[k], s) ELSE f[k]]
  PROVE  s \in Elements /\ g \in Vectors(m) /\ Combination(f, A) = Combination(g, B)
<1>1. \A k \in 1 .. m : f[k] \in Elements /\ d[k] \in Elements
  BY DEF Vectors
<1> DEFINE p == [k \in 1 .. m |-> Mul(f[k], d[k])]
<1>2. p \in [1 .. m -> Elements] /\ \A k \in 1 .. m : p[k] = Mul(f[k], d[k])
  BY <1>1, FieldClosed
<1>3. s = Total(p) /\ s \in Elements
  BY <1>2, TotalInField
<1> HIDE DEF p
<1>4. B[i] \in Vectors(w)
  BY DEF Matrices
<1>5. ASSUME NEW j \in 1 .. w
      PROVE  Combination(f, A)[j] = Add(Combination(f, B)[j], Mul(s, B[i][j]))
  <2> DEFINE t == Terms(f, A, j)
             u == Terms(f, B, j)
             b == B[i][j]
  <2>1. /\ t \in [1 .. m -> Elements] /\ Combination(f, A)[j] = Total(t)
        /\ \A k \in 1 .. m : t[k] = Mul(f[k], A[k][j])
    BY CombinationIs
  <2>2. /\ u \in [1 .. m -> Elements] /\ Combination(f, B)[j] = Total(u)
        /\ \A k \in 1 .. m : u[k] = Mul(f[k], B[k][j])
    BY CombinationIs
  <2>3. b \in Elements /\ \A k \in 1 .. m : B[k][j] \in Elements
    BY DEF Matrices, Vectors
  <2>a. \A k \in 1 .. m : A[k][j] = Add(B[k][j], Mul(d[k], b))
    BY DEF Differ
  <2> HIDE DEF t, u, b
  <2> DEFINE v == [k \in 1 .. m |-> Mul(b, p[k])]
  <2>4. v \in [1 .. m -> Elements] /\ Total(v) = Mul(b, s)
    <3>1. v \in [1 .. m -> Elements]
      BY <1>2, <2>3, FieldClosed
    <3>2. Total(v) = Mul(b, Total(p))
      BY <1>2, <2>3, TotalScale
    <3> QED BY <1>3, <3>1, <3>2
  <2>5. ASSUME NEW k \in 1 .. m PROVE t[k] = Add(u[k], v[k])
    <3> DEFINE fk == f[k]
               dk == d[k]
               bk == B[k][j]
    <3>1. fk \in Elements /\ dk \in Elements /\ bk \in Elements /\ Mul(dk, b) \in Elements
      BY <1>1, <2>3, FieldClosed
    <3>2. t[k] = Mul(fk, Add(bk, Mul(dk, b))) /\ u[k] = Mul(fk, bk) /\ v[k] = Mul(b, Mul(fk, dk))
      BY <1>2, <2>1, <2>2, <2>a
    <3> HIDE DEF fk, dk, bk, v
    <3>3. Mul(fk, Add(bk, Mul(dk, b))) = Add(Mul(fk, bk), Mul(fk, Mul(dk, b)))
      BY <3>1, MulIsMonoid
    <3>4. Mul(fk, Mul(dk, b)) = Mul(Mul(fk, dk), b) /\ Mul(fk, dk) \in Elements
      BY <2>3, <3>1, MulIsMonoid, FieldClosed
    <3>5. Mul(Mul(fk, dk), b) = Mul(b, Mul(fk, dk))
      BY <2>3, <3>4, MulIsMonoid
    <3> QED BY <3>2, <3>3, <3>4, <3>5
  <2> HIDE DEF v
  <2>6. t = [k \in 1 .. m |-> Add(u[k], v[k])]
    BY <2>1, <2>5
  <2>7. Total(t) = Add(Total(u), Total(v))
    BY <2>2, <2>4, <2>6, TotalAdd
  <2>8. Mul(b, s) = Mul(s, b)
    BY <1>3, <2>3, MulIsMonoid
  <2> QED BY <2>1, <2>2, <2>4, <2>7, <2>8 DEF b
<1> DEFINE e == [k \in 1 .. m |-> IF k = i THEN s ELSE Zero]
<1>6. e \in Vectors(m) /\ e[i] = s /\ \A k \in 1 .. m : k # i => e[k] = Zero
  BY <1>3, FieldClosed DEF Vectors
<1> HIDE DEF e
<1>7. Combination(e, B) = VectorMul(s, B[i])
  BY <1>3, <1>6, CombinationUnit
<1>8. Combination(VectorAdd(f, e), B) = VectorAdd(Combination(f, B), Combination(e, B))
  BY <1>6, CombinationAdd
<1>9. g = VectorAdd(f, e) /\ g \in Vectors(m)
  <2>1. VectorAdd(f, e) \in Vectors(m) /\ \A k \in 1 .. m : VectorAdd(f, e)[k] = Add(f[k], e[k])
    BY <1>6, VectorAddIs
  <2>2. \A k \in 1 .. m : g[k] = Add(f[k], e[k])
    BY <1>1, <1>6, AddIsGroup
  <2> QED BY <2>1, <2>2 DEF Vectors
<1>10. Combination(f, A) = VectorAdd(Combination(f, B), VectorMul(s, B[i]))
  <2> DEFINE x == Combination(f, B)
             y == VectorMul(s, B[i])
             z == Combination(f, A)
  <2>1. x \in Vectors(w) /\ z \in Vectors(w)
    <3>1. x \in Vectors(w)
      BY CombinationIs
    <3>2. z \in Vectors(w)
      BY CombinationIs
    <3> QED BY <3>1, <3>2
  <2>2. y \in Vectors(w) /\ \A j \in 1 .. w : y[j] = Mul(s, B[i][j])
    <3> DEFINE b == B[i]
    <3>1. b \in Vectors(w)
      BY DEF Matrices
    <3>2. s \in Elements
      BY <1>3
    <3> HIDE DEF b
    <3>3. /\ VectorMul(s, b) \in Vectors(w)
          /\ \A j \in 1 .. w : VectorMul(s, b)[j] = Mul(s, b[j]) /\ b[j] \in Elements
      BY <3>1, <3>2, VectorMulIs
    <3> QED BY <3>3 DEF b
  <2>3. \A j \in 1 .. w : z[j] = Add(x[j], y[j])
    BY <1>5, <2>2
  <2> HIDE DEF x, y, z
  <2>4. VectorAdd(x, y) \in Vectors(w) /\ \A j \in 1 .. w : VectorAdd(x, y)[j] = Add(x[j], y[j])
    BY <2>1, <2>2, VectorAddIs
  <2>5. z = VectorAdd(x, y)
    BY <2>1, <2>3, <2>4, VectorsEqual
  <2> QED BY <2>5 DEF x, y, z
<1> QED BY <1>3, <1>7, <1>8, <1>9, <1>10

LEMMA DifferIndep ==
  ASSUME FieldLaws, NEW m \in Nat \ {0}, NEW w \in Nat, NEW A \in Matrices(m, w), NEW B \in Matrices(m, w),
         NEW i \in 1 .. m, NEW d \in Vectors(m), Differ(A, B, i, d, m, w),
         Add(One, d[i]) # Zero, Indep(B, m, w)
  PROVE  Indep(A, m, w)
<1>1. ASSUME NEW f \in Vectors(m), Combination(f, A) = ZeroVector(w) PROVE f = ZeroVector(m)
  <2> DEFINE p == [k \in 1 .. m |-> Mul(f[k], d[k])]
             s == Total(p)
             g == [k \in 1 .. m |-> IF k = i THEN Add(f[k], s) ELSE f[k]]
  <2>1. s \in Elements /\ g \in Vectors(m) /\ Combination(f, A) = Combination(g, B)
    BY DifferCombination
  <2>2. g = ZeroVector(m)
    BY <1>1, <2>1 DEF Indep
  <2>3. \A k \in 1 .. m : g[k] = Zero
    BY <2>2 DEF ZeroVector
  <2>4. \A k \in 1 .. m : k # i => f[k] = Zero
    BY <2>3
  <2>5. Add(f[i], s) = Zero
    BY <2>3
  <2>6. \A k \in 1 .. m : f[k] \in Elements /\ d[k] \in Elements
    BY DEF Vectors
  <2>7. s = Mul(f[i], d[i])
    <3>1. p \in [1 .. m -> Elements] /\ \A k \in 1 .. m : p[k] = Mul(f[k], d[k])
      BY <2>6, FieldClosed
    <3>2. \A k \in 1 .. m : k # i => p[k] = Zero
      BY <2>4, <2>6, <3>1, MulIsMonoid
    <3> HIDE DEF p
    <3> QED BY <3>1, <3>2, TotalOfOne
  <2>8. Mul(f[i], Add(One, d[i])) = Zero
    <3>1. Mul(f[i], Add(One, d[i])) = Add(Mul(f[i], One), Mul(f[i], d[i]))
      <4> DEFINE x == f[i]
                 y == d[i]
      <4>1. x \in Elements /\ y \in Elements /\ One \in Elements
        BY <2>6, FieldClosed
      <4> HIDE DEF x, y
      <4>2. Mul(x, Add(One, y)) = Add(Mul(x, One), Mul(x, y))
        BY <4>1, MulIsMonoid
      <4> QED BY <4>2 DEF x, y
    <3>2. Mul(f[i], One) = f[i]
      BY <2>6, MulIsMonoid
    <3> QED BY <2>5, <2>7, <3>1, <3>2
  <2>9. f[i] = Zero
    BY <2>6, <2>8, FieldClosed, NoZeroDivisors
  <2> QED BY <2>4, <2>9 DEF Vectors, ZeroVector
<1> QED BY <1>1 DEF Indep

(* ClearColumn *)

Cleared(C, A, i, c, m, w) ==
  /\ C \in Matrices(m, w)
  /\ Inv(A[i][c]) \in Elements /\ Mul(A[i][c], Inv(A[i][c])) = One
  /\ \A j \in 1 .. w : C[i][j] = Mul(A[i][j], Inv(A[i][c]))
  /\ \A k \in 1 .. m, j \in 1 .. w :
       k # i => C[k][j] = Sub(A[k][j], Mul(A[k][c], C[i][j]))

LEMMA ClearColumnIs ==
  ASSUME FieldLaws, NEW m \in Nat \ {0}, NEW w \in Nat, NEW A \in Matrices(m, w),
         NEW i \in 1 .. m, NEW c \in 1 .. w, A[i][c] # Zero,
         NEW C, C = ClearColumn(A, i, c)
  PROVE  Cleared(C, A, i, c, m, w)
<1> DEFINE a == Inv(A[i][c])
           p == [j \in DOMAIN A[i] |-> Mul(A[i][j], a)]
<1>1. \A k \in 1 .. m : A[k] \in Vectors(w) /\ DOMAIN A[k] = 1 .. w
                        /\ \A j \in 1 .. w : A[k][j] \in Elements
  BY DEF Matrices, Vectors
<1>2. a \in Elements /\ Mul(A[i][c], a) = One
  BY <1>1, InverseExists
<1>3. p \in Vectors(w) /\ \A j \in 1 .. w : p[j] = Mul(A[i][j], a)
  BY <1>1, <1>2, FieldClosed DEF Vectors
<1>4. DOMAIN A = 1 .. m
  BY DEF Matrices
<1>5. C = [k \in 1 .. m |->
            IF k = i THEN p ELSE [j \in DOMAIN A[k] |-> Sub(A[k][j], Mul(A[k][c], p[j]))]]
  BY <1>4 DEF ClearColumn
<1> HIDE DEF p, a
<1>6. C[i] = p
  BY <1>5
<1>7. ASSUME NEW k \in 1 .. m, k # i
      PROVE  /\ C[k] \in Vectors(w)
             /\ \A j \in 1 .. w : C[k][j] = Sub(A[k][j], Mul(A[k][c], p[j]))
  <2>1. C[k] = [j \in 1 .. w |-> Sub(A[k][j], Mul(A[k][c], p[j]))]
    BY <1>1, <1>5, <1>7
  <2>2. \A j \in 1 .. w : Sub(A[k][j], Mul(A[k][c], p[j])) \in Elements
    <3>1. \A j \in 1 .. w : p[j] \in Elements /\ A[k][j] \in Elements /\ A[k][c] \in Elements
      BY <1>1, <1>3 DEF Vectors
    <3> QED BY <3>1, FieldClosed
  <2> QED BY <2>1, <2>2 DEF Vectors
<1>8. C \in Matrices(m, w)
  <2>1. \A k \in 1 .. m : C[k] \in Vectors(w)
    BY <1>3, <1>6, <1>7
  <2> QED BY <1>5, <2>1 DEF Matrices
<1> QED BY <1>2, <1>3, <1>6, <1>7, <1>8 DEF a, Cleared

(* The column becomes a unit vector, and where the row was zero nothing     *)
(* changes.                                                                 *)
LEMMA ClearColumnClears ==
  ASSUME FieldLaws, NEW m \in Nat \ {0}, NEW w \in Nat, NEW A \in Matrices(m, w),
         NEW i \in 1 .. m, NEW c \in 1 .. w, A[i][c] # Zero,
         NEW C, C = ClearColumn(A, i, c)
  PROVE  /\ \A k \in 1 .. m : C[k][c] = IF k = i THEN One ELSE Zero
         /\ \A j \in 1 .. w : A[i][j] = Zero => \A k \in 1 .. m : C[k][j] = A[k][j]
<1>1. /\ C \in Matrices(m, w)
      /\ Inv(A[i][c]) \in Elements /\ Mul(A[i][c], Inv(A[i][c])) = One
      /\ \A j \in 1 .. w : C[i][j] = Mul(A[i][j], Inv(A[i][c]))
      /\ \A k \in 1 .. m, j \in 1 .. w :
           k # i => C[k][j] = Sub(A[k][j], Mul(A[k][c], C[i][j]))
  BY ClearColumnIs DEF Cleared
<1>2. \A k \in 1 .. m, j \in 1 .. w : A[k][j] \in Elements
  BY DEF Matrices, Vectors
<1>3. C[i][c] = One
  BY <1>1
<1>4. ASSUME NEW k \in 1 .. m, k # i PROVE C[k][c] = Zero
  <2>1. C[k][c] = Sub(A[k][c], Mul(A[k][c], One))
    BY <1>1, <1>3, <1>4
  <2>2. Mul(A[k][c], One) = A[k][c] /\ Sub(A[k][c], A[k][c]) = Zero
    BY <1>2, MulIsMonoid, AddIsGroup
  <2> QED BY <2>1, <2>2
<1>5. ASSUME NEW j \in 1 .. w, A[i][j] = Zero, NEW k \in 1 .. m PROVE C[k][j] = A[k][j]
  <2>1. C[i][j] = Zero
    BY <1>1, <1>5, MulIsMonoid
  <2>2. CASE k = i
    BY <1>5, <2>1, <2>2
  <2>3. CASE k # i
    <3>1. C[k][j] = Sub(A[k][j], Mul(A[k][c], Zero))
      BY <1>1, <2>1, <2>3
    <3>2. Mul(A[k][c], Zero) = Zero
      BY <1>2, MulIsMonoid
    <3>3. Sub(A[k][j], Zero) = Add(A[k][j], Mul(MinusOne, Zero)) /\ MinusOne \in Elements
      BY <1>2, FieldClosed, SubIsAdd
    <3>4. Mul(MinusOne, Zero) = Zero /\ Add(A[k][j], Zero) = A[k][j]
      BY <1>2, <3>3, MulIsMonoid, AddIsGroup
    <3> QED BY <3>1, <3>2, <3>3, <3>4
  <2> QED BY <2>2, <2>3
<1> QED BY <1>3, <1>4, <1>5

(* It adds multiples of a row to the rows, and can be undone so.            *)
LEMMA ClearColumnDiffers ==
  ASSUME FieldLaws, NEW m \in Nat \ {0}, NEW w \in Nat, NEW A \in Matrices(m, w),
         NEW i \in 1 .. m, NEW c \in 1 .. w, A[i][c] # Zero,
         NEW C, C = ClearColumn(A, i, c)
  PROVE  /\ \E d \in Vectors(m) : Differ(C, A, i, d, m, w) /\ Add(One, d[i]) # Zero
         /\ \E d \in Vectors(m) : Differ(A, C, i, d, m, w) /\ Add(One, d[i]) # Zero
<1> DEFINE a == A[i][c]
           b == Inv(A[i][c])
<1>1. /\ C \in Matrices(m, w)
      /\ b \in Elements /\ Mul(a, b) = One
      /\ \A j \in 1 .. w : C[i][j] = Mul(A[i][j], b)
      /\ \A k \in 1 .. m, j \in 1 .. w :
           k # i => C[k][j] = Sub(A[k][j], Mul(A[k][c], C[i][j]))
  <2>1. Cleared(C, A, i, c, m, w)
    BY ClearColumnIs
  <2> QED BY ONLY <2>1 DEF Cleared
<1>2. a \in Elements /\ \A k \in 1 .. m, j \in 1 .. w : A[k][j] \in Elements /\ C[k][j] \in Elements
  BY <1>1 DEF Matrices, Vectors
<1>0. a # Zero
  OBVIOUS
<1> HIDE DEF a, b
<1>3. b # Zero
  BY <1>1, <1>2, MulIsMonoid, FieldClosed
<1>4. MinusOne \in Elements
  BY FieldClosed, SubIsAdd
(* One and a number less one make the number. *)
<1>5. ASSUME NEW x \in Elements
      PROVE  /\ Sub(x, One) \in Elements /\ Add(One, Sub(x, One)) = x
             /\ \A y \in Elements : Add(y, Mul(Sub(x, One), y)) = Mul(x, y)
  <2>1. Sub(x, One) \in Elements /\ Add(Sub(x, One), One) = x /\ One \in Elements
    BY FieldClosed, AddIsGroup
  <2>2. Add(One, Sub(x, One)) = x
    BY <2>1, AddIsGroup
  <2>3. ASSUME NEW y \in Elements PROVE Add(y, Mul(Sub(x, One), y)) = Mul(x, y)
    <3> DEFINE z == Sub(x, One)
    <3>1. z \in Elements /\ Add(One, z) = x
      BY <2>1, <2>2
    <3> HIDE DEF z
    <3>2. Mul(y, Add(One, z)) = Add(Mul(y, One), Mul(y, z))
      BY <2>1, <3>1, MulIsMonoid
    <3>3. Mul(y, One) = y /\ Mul(y, z) = Mul(z, y) /\ Mul(y, x) = Mul(x, y)
      BY <3>1, MulIsMonoid
    <3> QED BY <3>1, <3>2, <3>3 DEF z
  <2> QED BY <2>1, <2>2, <2>3
<1> DEFINE d == [k \in 1 .. m |-> IF k = i THEN Sub(b, One)
                                 ELSE Mul(MinusOne, Mul(A[k][c], b))]
           e == [k \in 1 .. m |-> IF k = i THEN Sub(a, One) ELSE A[k][c]]
<1>6. d \in Vectors(m) /\ d[i] = Sub(b, One)
      /\ \A k \in 1 .. m : k # i => d[k] = Mul(MinusOne, Mul(A[k][c], b))
  BY <1>1, <1>2, <1>4, <1>5, FieldClosed DEF Vectors
<1>7. e \in Vectors(m) /\ e[i] = Sub(a, One) /\ \A k \in 1 .. m : k # i => e[k] = A[k][c]
  BY <1>2, <1>5 DEF Vectors
<1> HIDE DEF d, e
<1>8. Add(One, d[i]) # Zero /\ Add(One, e[i]) # Zero
  BY <1>0, <1>1, <1>2, <1>3, <1>5, <1>6, <1>7
<1>9. ASSUME NEW k \in 1 .. m, NEW j \in 1 .. w
      PROVE  C[k][j] = Add(A[k][j], Mul(d[k], A[i][j]))
  <2>1. CASE k = i
    <3>1. Add(A[i][j], Mul(Sub(b, One), A[i][j])) = Mul(b, A[i][j])
      BY <1>1, <1>2, <1>5
    <3>2. Mul(b, A[i][j]) = Mul(A[i][j], b)
      BY <1>1, <1>2, MulIsMonoid
    <3> QED BY <1>1, <1>6, <2>1, <3>1, <3>2
  <2>2. CASE k # i
    <3> DEFINE x == A[k][c]
               y == A[i][j]
               z == A[k][j]
    <3>1. x \in Elements /\ y \in Elements /\ z \in Elements
      BY <1>2
    <3>2. C[k][j] = Sub(z, Mul(x, Mul(y, b))) /\ d[k] = Mul(MinusOne, Mul(x, b))
      BY <1>1, <1>6, <2>2
    <3> HIDE DEF x, y, z
    <3>3. Mul(y, b) \in Elements /\ Mul(x, Mul(y, b)) \in Elements /\ Mul(x, b) \in Elements
      BY <1>1, <3>1, FieldClosed
    <3>4. Sub(z, Mul(x, Mul(y, b))) = Add(z, Mul(MinusOne, Mul(x, Mul(y, b))))
      BY <3>1, <3>3, SubIsAdd
    <3>5. Mul(x, Mul(y, b)) = Mul(Mul(x, b), y)
      <4>1. Mul(y, b) = Mul(b, y)
        BY <1>1, <3>1, MulIsMonoid
      <4>2. Mul(x, Mul(b, y)) = Mul(Mul(x, b), y)
        BY <1>1, <3>1, MulIsMonoid
      <4> QED BY <4>1, <4>2
    <3>6. Mul(MinusOne, Mul(Mul(x, b), y)) = Mul(Mul(MinusOne, Mul(x, b)), y)
      BY <1>4, <3>1, <3>3, MulIsMonoid
    <3> QED BY <3>2, <3>4, <3>5, <3>6 DEF y, z
  <2> QED BY <2>1, <2>2
<1>10. ASSUME NEW k \in 1 .. m, NEW j \in 1 .. w
       PROVE  A[k][j] = Add(C[k][j], Mul(e[k], C[i][j]))
  <2>1. CASE k = i
    <3> DEFINE y == A[i][j]
    <3>1. Add(C[i][j], Mul(Sub(a, One), C[i][j])) = Mul(a, C[i][j])
      BY <1>2, <1>5
    <3>2. y \in Elements /\ C[i][j] = Mul(y, b)
      BY <1>1, <1>2
    <3> HIDE DEF y
    <3>3. Mul(a, Mul(y, b)) = y
      <4>1. Mul(y, b) = Mul(b, y) /\ Mul(One, y) = y
        BY <1>1, <3>2, MulIsMonoid
      <4>2. Mul(a, Mul(b, y)) = Mul(Mul(a, b), y)
        BY <1>1, <1>2, <3>2, MulIsMonoid
      <4> QED BY <1>1, <4>1, <4>2
    <3> QED BY <1>7, <2>1, <3>1, <3>2, <3>3 DEF y
  <2>2. CASE k # i
    <3> DEFINE x == A[k][c]
               y == C[i][j]
               z == A[k][j]
    <3>1. x \in Elements /\ y \in Elements /\ z \in Elements
      BY <1>2
    <3>2. C[k][j] = Sub(z, Mul(x, y)) /\ e[k] = x
      BY <1>1, <1>7, <2>2
    <3> HIDE DEF x, y, z
    <3>3. Mul(x, y) \in Elements
      BY <3>1, FieldClosed
    <3>4. Add(Sub(z, Mul(x, y)), Mul(x, y)) = z
      BY <3>1, <3>3, AddIsGroup
    <3> QED BY <3>2, <3>4 DEF y, z
  <2> QED BY <2>1, <2>2
<1> QED BY <1>6, <1>7, <1>8, <1>9, <1>10 DEF Differ

LEMMA ClearColumnIndep ==
  ASSUME FieldLaws, NEW m \in Nat \ {0}, NEW w \in Nat, NEW A \in Matrices(m, w),
         NEW i \in 1 .. m, NEW c \in 1 .. w, A[i][c] # Zero,
         NEW C, C = ClearColumn(A, i, c)
  PROVE  Indep(C, m, w) <=> Indep(A, m, w)
<1>1. C \in Matrices(m, w)
  BY ClearColumnIs DEF Cleared
<1>2. PICK d \in Vectors(m) : Differ(C, A, i, d, m, w) /\ Add(One, d[i]) # Zero
  BY ClearColumnDiffers
<1>3. PICK e \in Vectors(m) : Differ(A, C, i, e, m, w) /\ Add(One, e[i]) # Zero
  BY ClearColumnDiffers
<1> QED BY <1>1, <1>2, <1>3, DifferIndep

(* Swap *)

Swapped(B, A, i, j, m) ==
  \A k \in 1 .. m : B[k] = IF k = j THEN A[i] ELSE IF k = i THEN A[j] ELSE A[k]

LEMMA SwapIs ==
  ASSUME NEW m \in Nat, NEW S, NEW A \in [1 .. m -> S], NEW i \in 1 .. m, NEW j \in 1 .. m
  PROVE  /\ Swap(A, i, j) \in [1 .. m -> S]
         /\ Swapped(Swap(A, i, j), A, i, j, m)
BY DEF Swap, Swapped

LEMMA TotalSwap ==
  ASSUME FieldLaws, NEW n \in Nat, NEW t \in [1 .. n -> Elements], NEW i \in 1 .. n, NEW j \in 1 .. n
  PROVE  Total(Swap(t, i, j)) = Total(t)
<1> DEFINE s == Swap(t, i, j)
<1>1. s \in [1 .. n -> Elements]
      /\ \A k \in 1 .. n : s[k] = IF k = j THEN t[i] ELSE IF k = i THEN t[j] ELSE t[k]
  <2>1. s \in [1 .. n -> Elements] /\ Swapped(s, t, i, j, n)
    BY SwapIs
  <2> QED BY <2>1 DEF Swapped
<1> HIDE DEF s
<1>2. CASE i = j
  <2>1. \A k \in 1 .. n : s[k] = t[k]
    BY <1>1, <1>2
  <2>2. s = t
    BY <1>1, <2>1
  <2> QED BY <2>2 DEF s
<1>3. CASE i # j
  <2> DEFINE u == Sub(t[j], t[i])
             v == Sub(t[i], t[j])
             y == [k \in 1 .. n |-> IF k = i THEN u ELSE Zero]
             z == [k \in 1 .. n |-> IF k = j THEN v ELSE Zero]
  <2>1. /\ u \in Elements /\ v \in Elements /\ t[i] \in Elements /\ t[j] \in Elements
        /\ Add(u, t[i]) = t[j] /\ Add(v, t[j]) = t[i]
    BY FieldClosed, AddIsGroup
  <2> HIDE DEF u, v
  <2>2. y \in [1 .. n -> Elements] /\ y[i] = u /\ \A k \in 1 .. n : k # i => y[k] = Zero
    BY <2>1, FieldClosed
  <2>3. z \in [1 .. n -> Elements] /\ z[j] = v /\ \A k \in 1 .. n : k # j => z[k] = Zero
    BY <2>1, FieldClosed
  <2> HIDE DEF y, z
  <2>4. Total(y) = u /\ Total(z) = v
    BY <2>2, <2>3, TotalOfOne
  <2>5. Add(u, v) = Zero
    <3>1. Add(Add(v, u), t[i]) = Add(v, Add(u, t[i]))
      BY <2>1, AddIsGroup
    <3>2. Add(Zero, t[i]) = t[i] /\ Add(v, u) \in Elements /\ Zero \in Elements
      BY <2>1, FieldClosed, AddIsGroup
    <3>3. Add(v, u) = Zero
      BY <2>1, <3>1, <3>2, AddCancels
    <3> QED BY <2>1, <3>3, AddIsGroup
  <2> DEFINE x == [k \in 1 .. n |-> Add(y[k], z[k])]
  <2>6. Total(x) = Zero
    BY <2>2, <2>3, <2>4, <2>5, TotalAdd
  <2>7. x \in [1 .. n -> Elements] /\ \A k \in 1 .. n : x[k] = Add(y[k], z[k])
    BY <2>2, <2>3, FieldClosed
  <2> HIDE DEF x
  <2>8. ASSUME NEW k \in 1 .. n PROVE s[k] = Add(t[k], x[k])
    <3>1. t[k] \in Elements
      OBVIOUS
    <3>2. CASE k = i
      <4>1. x[k] = u
        BY <1>3, <2>1, <2>2, <2>3, <2>7, <3>2, AddIsGroup
      <4>2. s[k] = t[j] /\ Add(t[i], u) = Add(u, t[i])
        BY <1>1, <1>3, <2>1, <3>2, AddIsGroup
      <4> QED BY <2>1, <3>2, <4>1, <4>2
    <3>3. CASE k = j
      <4>1. x[k] = v
        BY <1>3, <2>1, <2>2, <2>3, <2>7, <3>3, AddIsGroup
      <4>2. s[k] = t[i] /\ Add(t[j], v) = Add(v, t[j])
        BY <1>1, <2>1, <3>3, AddIsGroup
      <4> QED BY <2>1, <3>3, <4>1, <4>2
    <3>4. CASE k # i /\ k # j
      <4>1. x[k] = Zero
        BY <2>2, <2>3, <2>7, <3>4, FieldClosed, AddIsGroup
      <4>2. s[k] = t[k]
        BY <1>1, <3>4
      <4> QED BY <3>1, <4>1, <4>2, AddIsGroup
    <3> QED BY <3>2, <3>3, <3>4
  <2>9. s = [k \in 1 .. n |-> Add(t[k], x[k])]
    BY <1>1, <2>8
  <2>10. Total(s) = Add(Total(t), Total(x))
    BY <2>7, <2>9, TotalAdd
  <2>11. Total(t) \in Elements
    BY TotalInField
  <2> QED BY <2>6, <2>10, <2>11, AddIsGroup DEF s
<1> QED BY <1>2, <1>3

LEMMA SwapCombination ==
  ASSUME FieldLaws, NEW m \in Nat \ {0}, NEW w \in Nat, NEW A \in Matrices(m, w), NEW f \in Vectors(m),
         NEW i \in 1 .. m, NEW j \in 1 .. m
  PROVE  Combination(Swap(f, i, j), Swap(A, i, j)) = Combination(f, A)
<1> DEFINE B == Swap(A, i, j)
           g == Swap(f, i, j)
<1>1. B \in Matrices(m, w)
      /\ \A k \in 1 .. m : B[k] = IF k = j THEN A[i] ELSE IF k = i THEN A[j] ELSE A[k]
  <2>1. B \in Matrices(m, w) /\ Swapped(B, A, i, j, m)
    BY SwapIs DEF Matrices
  <2> QED BY <2>1 DEF Swapped
<1>2. g \in Vectors(m)
      /\ \A k \in 1 .. m : g[k] = IF k = j THEN f[i] ELSE IF k = i THEN f[j] ELSE f[k]
  <2>1. g \in Vectors(m) /\ Swapped(g, f, i, j, m)
    BY SwapIs DEF Vectors
  <2> QED BY <2>1 DEF Swapped
<1> HIDE DEF B, g
<1>3. ASSUME NEW c \in 1 .. w PROVE Combination(g, B)[c] = Combination(f, A)[c]
  <2> DEFINE s == Terms(f, A, c)
             t == Terms(g, B, c)
  <2>1. /\ s \in [1 .. m -> Elements] /\ Combination(f, A)[c] = Total(s)
        /\ \A k \in 1 .. m : s[k] = Mul(f[k], A[k][c])
    BY CombinationIs
  <2>2. /\ t \in [1 .. m -> Elements] /\ Combination(g, B)[c] = Total(t)
        /\ \A k \in 1 .. m : t[k] = Mul(g[k], B[k][c])
    BY <1>1, <1>2, CombinationIs
  <2> HIDE DEF s, t
  <2>3. Swap(s, i, j) \in [1 .. m -> Elements]
        /\ \A k \in 1 .. m : Swap(s, i, j)[k] = IF k = j THEN s[i] ELSE IF k = i THEN s[j] ELSE s[k]
    <3>1. Swap(s, i, j) \in [1 .. m -> Elements] /\ Swapped(Swap(s, i, j), s, i, j, m)
      BY <2>1, SwapIs
    <3> QED BY <3>1 DEF Swapped
  <2>4. \A k \in 1 .. m : t[k] = Swap(s, i, j)[k]
    BY <1>1, <1>2, <2>1, <2>2, <2>3
  <2>5. t = Swap(s, i, j)
    BY <2>2, <2>3, <2>4
  <2> QED BY <2>1, <2>2, <2>5, TotalSwap
<1>4. Combination(g, B) \in Vectors(w) /\ Combination(f, A) \in Vectors(w)
  BY <1>1, <1>2, CombinationIs
<1>5. Combination(g, B) = Combination(f, A)
  BY <1>3, <1>4, VectorsEqual
<1> QED BY <1>5 DEF B, g

LEMMA SwapIndep ==
  ASSUME FieldLaws, NEW m \in Nat \ {0}, NEW w \in Nat, NEW A \in Matrices(m, w),
         NEW i \in 1 .. m, NEW j \in 1 .. m
  PROVE  Swap(A, i, j) \in Matrices(m, w) /\ (Indep(Swap(A, i, j), m, w) <=> Indep(A, m, w))
<1>1. ASSUME NEW B \in Matrices(m, w) PROVE Swap(B, i, j) \in Matrices(m, w)
  BY SwapIs DEF Matrices
<1>2. ASSUME NEW n \in Nat, NEW S, NEW x \in [1 .. n -> S], i \in 1 .. n, j \in 1 .. n
      PROVE  Swap(Swap(x, i, j), i, j) = x
  <2> DEFINE y == Swap(x, i, j)
  <2>1. y \in [1 .. n -> S]
        /\ \A k \in 1 .. n : y[k] = IF k = j THEN x[i] ELSE IF k = i THEN x[j] ELSE x[k]
    <3>1. y \in [1 .. n -> S] /\ Swapped(y, x, i, j, n)
      BY <1>2, SwapIs
    <3> QED BY <3>1 DEF Swapped
  <2> HIDE DEF y
  <2>2. Swap(y, i, j) \in [1 .. n -> S]
        /\ \A k \in 1 .. n : Swap(y, i, j)[k] = IF k = j THEN y[i] ELSE IF k = i THEN y[j] ELSE y[k]
    <3>1. Swap(y, i, j) \in [1 .. n -> S] /\ Swapped(Swap(y, i, j), y, i, j, n)
      BY <1>2, <2>1, SwapIs
    <3> QED BY <3>1 DEF Swapped
  <2>3. \A k \in 1 .. n : Swap(y, i, j)[k] = x[k]
    BY <1>2, <2>1, <2>2
  <2>4. Swap(y, i, j) = x
    BY <2>2, <2>3
  <2> QED BY <2>4 DEF y
<1>3. ASSUME NEW B \in Matrices(m, w), Indep(B, m, w) PROVE Indep(Swap(B, i, j), m, w)
  <2>1. ASSUME NEW f \in Vectors(m), Combination(f, Swap(B, i, j)) = ZeroVector(w)
        PROVE  f = ZeroVector(m)
    <3> DEFINE g == Swap(f, i, j)
    <3>1. g \in Vectors(m)
          /\ \A k \in 1 .. m : g[k] = IF k = j THEN f[i] ELSE IF k = i THEN f[j] ELSE f[k]
      <4>1. g \in Vectors(m) /\ Swapped(g, f, i, j, m)
        BY SwapIs DEF Vectors
      <4> QED BY <4>1 DEF Swapped
    <3>2. Swap(g, i, j) = f
      BY <1>2 DEF Vectors
    <3> HIDE DEF g
    <3>3. Combination(Swap(g, i, j), Swap(B, i, j)) = Combination(g, B)
      BY <3>1, SwapCombination
    <3>4. g = ZeroVector(m)
      BY <1>3, <2>1, <3>1, <3>2, <3>3 DEF Indep
    <3>5. \A k \in 1 .. m : g[k] = Zero
      BY <3>4 DEF ZeroVector
    <3>6. \A k \in 1 .. m : f[k] = Zero
      BY <3>1, <3>5
    <3> QED BY <3>6 DEF Vectors, ZeroVector
  <2> QED BY <2>1 DEF Indep
<1>4. Swap(Swap(A, i, j), i, j) = A
  BY <1>2 DEF Matrices
<1> QED BY <1>1, <1>3, <1>4

-----------------------------------------------------------------------------
(* The elimination *)

LEMMA PivotIs ==
  ASSUME NEW m \in Nat \ {0}, NEW w \in Nat, NEW A \in Matrices(m, w),
         NEW i \in 1 .. m, NEW c, Pivots(A, i, c) # {}
  PROVE  Pivot(A, i, c) \in i .. m /\ A[Pivot(A, i, c)][c] # Zero
<1>1. Len(A) = m
  BY LenOf DEF Matrices
<1>2. Pivots(A, i, c) = {k \in i .. m : A[k][c] # Zero}
  BY <1>1 DEF Pivots
<1>3. Pivots(A, i, c) \in SUBSET Nat
  BY <1>2
<1>4. \E k \in Pivots(A, i, c) : \A l \in Pivots(A, i, c) : k <= l
  BY <1>3, LeastMember
<1>5. Pivot(A, i, c) \in Pivots(A, i, c)
  BY <1>4 DEF Pivot
<1> QED BY <1>2, <1>5

UnitColumn(A, m, j, i) == \A k \in 1 .. m : A[k][j] = IF k = i THEN One ELSE Zero

(* After some columns each row so far has a column of its own where it is   *)
(* one and the others are zero, and the other rows are zero in all of them. *)
Eliminated(s, c, m, w, A0) ==
  /\ s \in [A : Matrices(m, w), rank : 0 .. m]
  /\ s.rank <= c
  /\ Indep(s.A, m, w) <=> Indep(A0, m, w)
  /\ \A k \in 1 .. m, j \in 1 .. c : k > s.rank => s.A[k][j] = Zero
  /\ \E p \in [1 .. s.rank -> 1 .. c] : \A i \in 1 .. s.rank : UnitColumn(s.A, m, p[i], i)
  /\ s.rank = c => \A i \in 1 .. c : UnitColumn(s.A, m, i, i)

LEMMA EliminatedStart ==
  ASSUME NEW m \in Nat \ {0}, NEW w \in Nat, NEW A0 \in Matrices(m, w)
  PROVE  Eliminated([A |-> A0, rank |-> 0], 0, m, w, A0)
<1> DEFINE s == [A |-> A0, rank |-> 0]
<1>1. s.A = A0 /\ s.rank = 0 /\ s \in [A : Matrices(m, w), rank : 0 .. m]
  OBVIOUS
<1> HIDE DEF s
<1>2. \E p \in [1 .. 0 -> 1 .. 0] : TRUE
  <2>1. [i \in 1 .. 0 |-> i] \in [1 .. 0 -> 1 .. 0]
    OBVIOUS
  <2> QED BY <2>1
<1>3. \A i : i \notin 1 .. 0
  OBVIOUS
<1>4. Eliminated(s, 0, m, w, A0)
  <2>1. \A k \in 1 .. m, j \in 1 .. 0 : k > s.rank => s.A[k][j] = Zero
    BY <1>3
  <2>2. \A i \in 1 .. 0 : UnitColumn(s.A, m, i, i)
    BY <1>3
  <2>3. \E p \in [1 .. s.rank -> 1 .. 0] : \A i \in 1 .. s.rank : UnitColumn(s.A, m, p[i], i)
    <3>1. PICK p \in [1 .. 0 -> 1 .. 0] : TRUE
      BY <1>2
    <3>2. \A i \in 1 .. 0 : UnitColumn(s.A, m, p[i], i)
      BY <1>3
    <3> QED BY <1>1, <3>2
  <2>4. s.rank <= 0 /\ (Indep(s.A, m, w) <=> Indep(A0, m, w))
    BY <1>1
  <2> QED BY <1>1, <2>1, <2>2, <2>3, <2>4 DEF Eliminated
<1> QED BY <1>4 DEF s

LEMMA EliminatedStep ==
  ASSUME FieldLaws, NEW m \in Nat \ {0}, NEW w \in Nat, NEW A0 \in Matrices(m, w),
         NEW c \in 0 .. w - 1, NEW s, Eliminated(s, c, m, w, A0),
         NEW t, t = Reduce(s, c + 1)
  PROVE  Eliminated(t, c + 1, m, w, A0)
<1> DEFINE A == s.A
           r == s.rank
           n == r + 1
           col == c + 1
<1>1. /\ s \in [A : Matrices(m, w), rank : 0 .. m]
      /\ A \in Matrices(m, w) /\ r \in 0 .. m /\ r <= c /\ s = [A |-> A, rank |-> r]
      /\ Indep(A, m, w) <=> Indep(A0, m, w)
      /\ \A k \in 1 .. m, j \in 1 .. c : k > r => A[k][j] = Zero
      /\ r = c => \A i \in 1 .. c : UnitColumn(A, m, i, i)
  BY DEF Eliminated
<1>2. PICK p \in [1 .. r -> 1 .. c] : \A i \in 1 .. r : UnitColumn(A, m, p[i], i)
  BY DEF Eliminated
<1>3. Len(A) = m
  BY <1>1, LenOf DEF Matrices
<1>c. col \in 1 .. w /\ c \in Nat /\ 1 .. c \subseteq 1 .. col /\ col \in 1 .. col
      /\ \A j \in 1 .. col : j = col \/ j \in 1 .. c
  OBVIOUS
<1>4. CASE n > m \/ Pivots(A, n, col) = {}
  <2>1. t = s
    BY <1>3, <1>4 DEF Reduce
  <2>2. ASSUME NEW k \in 1 .. m, k > r PROVE A[k][col] = Zero
    <3>1. Pivots(A, n, col) = {}
      BY <1>1, <1>4, <2>2
    <3>2. k \in n .. Len(A)
      BY <1>1, <1>3, <2>2
    <3> QED BY <3>1, <3>2 DEF Pivots
  <2>3. \A k \in 1 .. m, j \in 1 .. col : k > r => A[k][j] = Zero
    BY <1>1, <1>c, <2>2
  <2>4. r <= col /\ r # col
    BY <1>1
  <2>5. p \in [1 .. r -> 1 .. col]
    BY <1>c
  <2> HIDE DEF A, r, col
  <2>6. /\ t \in [A : Matrices(m, w), rank : 0 .. m] /\ t.rank = r /\ t.A = A
    BY <1>1, <2>1 DEF A, r
  <2>7. Eliminated(t, col, m, w, A0)
    BY <1>1, <1>2, <2>3, <2>4, <2>5, <2>6 DEF Eliminated
  <2> QED BY <2>7 DEF col
<1>5. CASE n <= m /\ Pivots(A, n, col) # {}
  <2> DEFINE q == Pivot(A, n, col)
             B == Swap(A, n, q)
             C == ClearColumn(B, n, col)
  <2>1. t = [A |-> C, rank |-> n]
    BY <1>1, <1>3, <1>5 DEF Reduce
  <2>2. n \in 1 .. m
    BY <1>1, <1>5
  <2>3. q \in n .. m /\ A[q][col] # Zero
    BY <1>1, <1>5, <2>2, PivotIs
  <2>4. q \in 1 .. m
    BY <2>2, <2>3
  <2>5. B \in Matrices(m, w) /\ (Indep(B, m, w) <=> Indep(A, m, w))
    BY <1>1, <2>2, <2>4, SwapIndep
  <2>6. \A k \in 1 .. m : B[k] = IF k = q THEN A[n] ELSE IF k = n THEN A[q] ELSE A[k]
    <3>1. Swapped(B, A, n, q, m)
      BY <1>1, <2>2, <2>4, SwapIs DEF Matrices
    <3> QED BY <3>1 DEF Swapped
  <2> HIDE DEF B, q
  <2>7. B[n][col] # Zero
    BY <2>2, <2>3, <2>6
  <2>8. C \in Matrices(m, w) /\ (Indep(C, m, w) <=> Indep(B, m, w))
    <3>1. Cleared(C, B, n, col, m, w)
      BY <1>c, <2>2, <2>5, <2>7, ClearColumnIs
    <3>2. C \in Matrices(m, w)
      BY <3>1 DEF Cleared
    <3> QED BY <1>c, <2>2, <2>5, <2>7, <3>2, ClearColumnIndep
  <2>9. /\ UnitColumn(C, m, col, n)
        /\ \A j \in 1 .. w : B[n][j] = Zero => \A k \in 1 .. m : C[k][j] = B[k][j]
    <3>1. /\ \A k \in 1 .. m : C[k][col] = IF k = n THEN One ELSE Zero
          /\ \A j \in 1 .. w : B[n][j] = Zero => \A k \in 1 .. m : C[k][j] = B[k][j]
      BY <1>c, <2>2, <2>5, <2>7, ClearColumnClears
    <3> QED BY <3>1 DEF UnitColumn
  <2> HIDE DEF C
  <2>10. ASSUME NEW j \in 1 .. c, NEW k \in 1 .. m
         PROVE  C[k][j] = IF k = q THEN A[n][j] ELSE IF k = n THEN A[q][j] ELSE A[k][j]
    <3>1. A[q][j] = Zero /\ A[n][j] = Zero
      BY <1>1, <2>2, <2>3, <2>4
    <3>2. j \in 1 .. w /\ B[n][j] = Zero
      BY <1>c, <2>2, <2>6, <3>1
    <3>3. C[k][j] = B[k][j]
      BY <2>9, <3>2
    <3> QED BY <2>6, <3>3
  <2>11. \A k \in 1 .. m, j \in 1 .. col : k > n => C[k][j] = Zero
    <3>1. ASSUME NEW k \in 1 .. m, NEW j \in 1 .. c, k > n PROVE C[k][j] = Zero
      BY <1>1, <2>2, <2>10, <3>1
    <3>2. ASSUME NEW k \in 1 .. m, k > n PROVE C[k][col] = Zero
      BY <2>2, <2>9, <3>2 DEF UnitColumn
    <3> QED BY <1>c, <3>1, <3>2
  <2>12. ASSUME NEW j \in 1 .. c, NEW i \in 1 .. r, UnitColumn(A, m, j, i)
         PROVE  UnitColumn(C, m, j, i)
    <3>1. i # n /\ i # q /\ i \in 1 .. m
      BY <1>1, <2>2, <2>3
    <3>2. A[n][j] = Zero /\ A[q][j] = Zero
      BY <2>2, <2>4, <2>12, <3>1 DEF UnitColumn
    <3>3. ASSUME NEW k \in 1 .. m PROVE C[k][j] = IF k = i THEN One ELSE Zero
      <4>1. A[k][j] = IF k = i THEN One ELSE Zero
        BY <2>12 DEF UnitColumn
      <4> QED BY <2>10, <3>1, <3>2, <4>1
    <3> QED BY <3>3 DEF UnitColumn
  <2> DEFINE u == [i \in 1 .. n |-> IF i = n THEN col ELSE p[i]]
  <2>13. u \in [1 .. n -> 1 .. col] /\ \A i \in 1 .. n : UnitColumn(C, m, u[i], i)
    <3>1. \A i \in 1 .. n : i = n \/ i \in 1 .. r
      BY <1>1
    <3>2. n \in 1 .. n
      BY <2>2
    <3>3. u[n] = col /\ \A i \in 1 .. r : u[i] = p[i] /\ p[i] \in 1 .. c
      BY <1>1, <3>2
    <3>4. u \in [1 .. n -> 1 .. col]
      BY <1>c, <3>1
    <3>5. \A i \in 1 .. n : UnitColumn(C, m, u[i], i)
      <4> HIDE DEF u
      <4> QED BY <1>2, <2>9, <2>12, <3>1, <3>3
    <3> QED BY <3>4, <3>5
  <2> HIDE DEF u
  <2>14. n <= col /\ n \in 0 .. m
    BY <1>1, <2>2
  <2>15. ASSUME n = col PROVE \A i \in 1 .. col : UnitColumn(C, m, i, i)
    <3>1. r = c
      BY <1>1, <2>15
    <3>2. ASSUME NEW i \in 1 .. c PROVE UnitColumn(C, m, i, i)
      <4>1. UnitColumn(A, m, i, i) /\ i \in 1 .. r
        BY <1>1, <3>1
      <4> QED BY <2>12, <4>1
    <3> QED BY <1>c, <2>9, <2>15, <3>2
  <2> HIDE DEF A, r, n, col
  <2>16. t \in [A : Matrices(m, w), rank : 0 .. m] /\ t.A = C /\ t.rank = n
    BY <2>1, <2>8, <2>14
  <2>17. Eliminated(t, col, m, w, A0)
    BY <1>1, <2>5, <2>8, <2>11, <2>13, <2>14, <2>15, <2>16 DEF Eliminated
  <2> QED BY <2>17 DEF col
<1>6. n > m \/ n <= m
  BY <1>1
<1> QED BY <1>4, <1>5, <1>6

(* The fold of IsLinearlyIndependent. *)

States(m, w) == [A : Matrices(m, w), rank : 0 .. m]

LEMMA ReduceStays ==
  ASSUME FieldLaws, NEW m \in Nat \ {0}, NEW w \in Nat, NEW s \in States(m, w), NEW c \in 1 .. w
  PROVE  Reduce(s, c) \in States(m, w)
<1> DEFINE A == s.A
           n == s.rank + 1
           q == Pivot(A, n, c)
           B == Swap(A, n, q)
           C == ClearColumn(B, n, c)
<1>1. A \in Matrices(m, w) /\ s.rank \in 0 .. m
  BY DEF States
<1>2. Len(A) = m
  BY <1>1, LenOf DEF Matrices
<1>3. CASE n > m \/ Pivots(A, n, c) = {}
  BY <1>2, <1>3 DEF Reduce
<1>4. CASE n <= m /\ Pivots(A, n, c) # {}
  <2>1. Reduce(s, c) = [A |-> C, rank |-> n]
    BY <1>1, <1>2, <1>4 DEF Reduce
  <2>2. n \in 1 .. m
    BY <1>1, <1>4
  <2>3. q \in n .. m /\ A[q][c] # Zero
    BY <1>1, <1>4, <2>2, PivotIs
  <2>4. q \in 1 .. m
    BY <2>2, <2>3
  <2>5. B \in Matrices(m, w) /\ B[n] = A[q]
    <3>1. B \in Matrices(m, w) /\ Swapped(B, A, n, q, m)
      BY <1>1, <2>2, <2>4, SwapIs DEF Matrices
    <3>2. B[n] = IF n = q THEN A[n] ELSE IF n = n THEN A[q] ELSE A[n]
      BY <2>2, <3>1 DEF Swapped
    <3> QED BY <3>1, <3>2
  <2> HIDE DEF B, q
  <2>6. B[n][c] # Zero
    BY <2>3, <2>5
  <2>7. C \in Matrices(m, w)
    <3>1. Cleared(C, B, n, c, m, w)
      BY <2>2, <2>5, <2>6, ClearColumnIs
    <3> QED BY <3>1 DEF Cleared
  <2> HIDE DEF C, n
  <2> QED BY <2>1, <2>2, <2>7 DEF States
<1> QED BY <1>1, <1>3, <1>4

Reduces(h, m, w, A) ==
  h[0] = [A |-> A, rank |-> 0] /\ \A k \in 1 .. w : h[k] = Reduce(h[k - 1], k)

LEMMA ReduceHistory ==
  ASSUME FieldLaws, NEW m \in Nat \ {0}, NEW w \in Nat, NEW A \in Matrices(m, w)
  PROVE  \E h \in [0 .. w -> States(m, w)] :
           Reduces(h, m, w, A) /\ (IsLinearlyIndependent(A) <=> h[w].rank = m)
<1> DEFINE V == States(m, w)
           base == [A |-> A, rank |-> 0]
           H == [v \in V |-> [k \in 1 .. w |-> Reduce(v, k)]]
           columns == [c \in DOMAIN A[1] |-> c]
           E(f) == [s \in SUBSET DOMAIN columns |->
                      IF s = {} THEN base ELSE Reduce(f[s \ {Max(s)}], columns[Max(s)])]
           it == CHOOSE f : f = E(f)
<1>1. IsLinearlyIndependent(A) <=> it[DOMAIN columns].rank = m
  <2>1. Len(A) = m
    BY LenOf DEF Matrices
  <2> QED BY <2>1 DEF IsLinearlyIndependent, FoldLeft, MapThenFoldSet
<1>2. DOMAIN columns = 1 .. w /\ \A k \in 1 .. w : columns[k] = k
  BY DEF Matrices, Vectors
<1>3. \A v \in V, k \in 1 .. w : H[v][k] = Reduce(v, k) /\ Reduce(v, k) \in V
  BY ReduceStays
<1>4. base \in V
  BY DEF States
<1> HIDE DEF columns, V, H, base
<1>5. ClosedUnder(H, V, w)
  BY <1>3 DEF ClosedUnder
<1>6. it = E(it)
  <2>1. PICK g \in [SUBSET (1 .. w) -> V] : FoldRecurses(g, w, base, H)
    BY <1>4, <1>5, FoldRecursion
  <2>2. ASSUME NEW s \in SUBSET (1 .. w), s # {}
        PROVE  g[s] = Reduce(g[s \ {Max(s)}], columns[Max(s)])
    <3>1. Max(s) \in s
      BY <2>2, SubsetMax
    <3>2. g[s] = H[g[s \ {Max(s)}]][Max(s)]
      BY <2>1, <2>2 DEF FoldRecurses
    <3> QED BY <1>2, <1>3, <3>1, <3>2
  <2>3. g[{}] = base
    BY <2>1 DEF FoldRecurses
  <2>4. g = E(g)
    BY <1>2, <2>2, <2>3
  <2> HIDE DEF E
  <2> QED BY <2>4
<1> HIDE DEF it
<1>7. Follows(it, w, V, base, H)
  <2>1. it[{}] = base
    BY <1>6
  <2>2. ASSUME NEW k \in 1 .. w, it[1 .. k - 1] \in V
        PROVE  it[1 .. k] = H[it[1 .. k - 1]][k]
    <3>1. 1 .. k \in SUBSET DOMAIN columns /\ 1 .. k # {} /\ k \in Nat \ {0}
      BY <1>2, SegmentOf
    <3>2. it[1 .. k] = Reduce(it[(1 .. k) \ {Max(1 .. k)}], columns[Max(1 .. k)])
      BY <1>6, <3>1
    <3>3. it[1 .. k] = Reduce(it[1 .. k - 1], k)
      BY <1>2, <3>1, <3>2, SegmentMax
    <3> QED BY <1>3, <2>2, <3>3
  <2> QED BY <2>1, <2>2 DEF Follows
<1>8. PICK h \in [0 .. w -> V] : History(h, w, base, H) /\ h[w] = it[1 .. w]
  BY <1>4, <1>5, <1>7, FoldHistory
<1>9. \A k \in 1 .. w : k - 1 \in 0 .. w
  OBVIOUS
<1>10. h[0] = base /\ \A k \in 1 .. w : h[k] = Reduce(h[k - 1], k)
  BY <1>3, <1>8, <1>9 DEF History
<1> QED BY <1>1, <1>2, <1>8, <1>10 DEF Reduces, V, base

(* It finds out whether the rows are independent, and there are no more     *)
(* such rows than columns.                                                  *)
LEMMA ReduceEliminates ==
  ASSUME FieldLaws, NEW m \in Nat \ {0}, NEW w \in Nat, NEW A \in Matrices(m, w),
         NEW h, Reduces(h, m, w, A)
  PROVE  \A c \in 0 .. w : Eliminated(h[c], c, m, w, A)
<1> DEFINE T == {c \in 0 .. w : Eliminated(h[c], c, m, w, A)}
<1>1. 0 \in T
  BY EliminatedStart DEF Reduces
<1>2. ASSUME NEW c \in 0 .. w - 1, c \in T PROVE c + 1 \in T
  <2>1. c + 1 \in 1 .. w /\ (c + 1) - 1 = c /\ c + 1 \in 0 .. w
    OBVIOUS
  <2>2. h[c + 1] = Reduce(h[c], c + 1)
    BY <2>1 DEF Reduces
  <2> QED BY <1>2, <2>1, <2>2, EliminatedStep
<1>3. 0 .. w \subseteq T
  <2> HIDE DEF T
  <2> QED BY <1>1, <1>2, BoundedInduction
<1> QED BY <1>3

LEMMA EliminatedFull ==
  ASSUME FieldLaws, NEW m \in Nat \ {0}, NEW w \in Nat, NEW A0 \in Matrices(m, w),
         NEW s, Eliminated(s, w, m, w, A0)
  PROVE  Indep(A0, m, w) <=> s.rank = m
<1> DEFINE A == s.A
           r == s.rank
<1>1. /\ A \in Matrices(m, w) /\ r \in 0 .. m /\ (Indep(A, m, w) <=> Indep(A0, m, w))
      /\ \A k \in 1 .. m, j \in 1 .. w : k > r => A[k][j] = Zero
  BY DEF Eliminated
<1>2. PICK p \in [1 .. r -> 1 .. w] : \A i \in 1 .. r : UnitColumn(A, m, p[i], i)
  BY DEF Eliminated
<1> HIDE DEF A, r
<1>3. ASSUME r = m PROVE Indep(A, m, w)
  <2>1. ASSUME NEW f \in Vectors(m), Combination(f, A) = ZeroVector(w), NEW i \in 1 .. m
        PROVE  f[i] = Zero
    <3> DEFINE j == p[i]
               t == Terms(f, A, j)
    <3>1. j \in 1 .. w /\ \A k \in 1 .. m : A[k][j] = IF k = i THEN One ELSE Zero
      BY <1>2, <1>3 DEF UnitColumn
    <3>2. /\ t \in [1 .. m -> Elements] /\ Combination(f, A)[j] = Total(t)
          /\ \A k \in 1 .. m : t[k] = Mul(f[k], A[k][j])
      BY <1>1, <3>1, CombinationIs
    <3>3. \A k \in 1 .. m : f[k] \in Elements
      BY DEF Vectors
    <3> HIDE DEF t, j
    <3>4. \A k \in 1 .. m : k # i => t[k] = Zero
      BY <3>1, <3>2, <3>3, MulIsMonoid
    <3>5. Total(t) = t[i]
      BY <3>2, <3>4, TotalOfOne
    <3>6. t[i] = f[i]
      BY <3>1, <3>2, <3>3, MulIsMonoid
    <3>7. Combination(f, A)[j] = Zero
      BY <2>1, <3>1 DEF ZeroVector
    <3> QED BY <3>2, <3>5, <3>6, <3>7
  <2>2. ASSUME NEW f \in Vectors(m), Combination(f, A) = ZeroVector(w) PROVE f = ZeroVector(m)
    <3>1. \A i \in 1 .. m : f[i] = Zero
      BY <2>1, <2>2
    <3> QED BY <3>1 DEF Vectors, ZeroVector
  <2> QED BY <2>2 DEF Indep
<1>4. ASSUME r # m PROVE ~ Indep(A, m, w)
  <2> DEFINE f == UnitVector(m, m)
  <2>1. m \in 1 .. m /\ f \in Vectors(m)
    BY UnitVectorIs
  <2>2. Combination(f, A) = A[m]
    BY <1>1, <2>1, CombinationRow
  <2>3. A[m] = ZeroVector(w)
    <3>1. \A j \in 1 .. w : A[m][j] = Zero
      BY <1>1, <1>4, <2>1
    <3>2. A[m] \in Vectors(w)
      BY <1>1, <2>1 DEF Matrices
    <3> QED BY <3>1, <3>2 DEF Vectors, ZeroVector
  <2>4. f # ZeroVector(m)
    <3>1. f[m] = One /\ ZeroVector(m)[m] = Zero
      BY <2>1 DEF UnitVector, ZeroVector
    <3> HIDE DEF f
    <3> QED BY <3>1, FieldClosed
  <2> HIDE DEF f
  <2> QED BY <2>1, <2>2, <2>3, <2>4 DEF Indep
<1> QED BY <1>1, <1>3, <1>4 DEF r

LEMMA IndependenceDecided ==
  ASSUME FieldLaws, NEW m \in Nat \ {0}, NEW w \in Nat, NEW A \in Matrices(m, w)
  PROVE  /\ IsLinearlyIndependent(A) <=> Indep(A, m, w)
         /\ IsLinearlyIndependent(A) => m <= w
<1>1. PICK h \in [0 .. w -> States(m, w)] :
        Reduces(h, m, w, A) /\ (IsLinearlyIndependent(A) <=> h[w].rank = m)
  BY ReduceHistory
<1>2. Eliminated(h[w], w, m, w, A)
  BY <1>1, ReduceEliminates
<1>3. h[w].rank <= w
  BY <1>2 DEF Eliminated
<1> QED BY <1>1, <1>2, <1>3, EliminatedFull

-----------------------------------------------------------------------------
(* Packing *)

LEMMA SeqOfLen ==
  ASSUME NEW S, NEW r \in Seq(S), NEW n \in Nat, Len(r) = n
  PROVE  r \in [1 .. n -> S]
OBVIOUS

Joined(r, u, v, p, q, S) ==
  /\ r \in [1 .. p + q -> S]
  /\ \A i \in 1 .. p : r[i] = u[i]
  /\ \A i \in 1 .. q : r[p + i] = v[i]

LEMMA ConcatEntries ==
  ASSUME NEW S, NEW p \in Nat, NEW q \in Nat, NEW u \in [1 .. p -> S], NEW v \in [1 .. q -> S],
         NEW r, r = u \o v
  PROVE  Joined(r, u, v, p, q, S)
<1>1. u \in Seq(S) /\ Len(u) = p /\ v \in Seq(S) /\ Len(v) = q
  BY LenOf
<1>2. /\ r \in Seq(S) /\ Len(r) = p + q
      /\ \A i \in 1 .. p + q : r[i] = IF i <= p THEN u[i] ELSE v[i - p]
  BY <1>1, ConcatProperties
<1>3. \A i \in 1 .. q : p + i \in 1 .. p + q /\ ~ (p + i <= p) /\ (p + i) - p = i
  OBVIOUS
<1>4. \A i \in 1 .. p : i \in 1 .. p + q /\ i <= p
  OBVIOUS
<1>5. r \in [1 .. p + q -> S]
  <2> DEFINE n == p + q
  <2>1. r \in Seq(S) /\ Len(r) = n /\ n \in Nat
    BY <1>2
  <2> HIDE DEF n
  <2>2. r \in [1 .. n -> S]
    BY ONLY <2>1, SeqOfLen
  <2> QED BY <2>2 DEF n
<1>6. \A i \in 1 .. p : r[i] = u[i]
  BY <1>2, <1>4
<1>7. \A i \in 1 .. q : r[p + i] = v[i]
  BY <1>2, <1>3
<1> QED BY <1>5, <1>6, <1>7 DEF Joined

(* The position of an entry of a block. *)
Position(j, i, k) == (j - 1) * k + i

LEMMA PositionOf ==
  ASSUME NEW n \in Nat, NEW k \in Nat, NEW j \in 1 .. n, NEW i \in 1 .. k
  PROVE  /\ Position(j, i, k) \in 1 .. n * k
         /\ (j - 1) * k \in Nat /\ n * k \in Nat /\ j * k \in Nat
         /\ j * k = (j - 1) * k + k /\ j * k <= n * k
<1> DEFINE a == (j - 1) * k
           b == (n - j) * k
<1>1. a \in Nat /\ b \in Nat
  <2>1. j - 1 \in Nat /\ n - j \in Nat
    OBVIOUS
  <2> QED BY <2>1
<1>2. j * k = a + k
  OBVIOUS
<1>3. n * k = a + k + b
  OBVIOUS
<1> HIDE DEF a, b
<1> QED BY <1>1, <1>2, <1>3 DEF a, Position

Laid(s, b, n, k) ==
  \A j \in 1 .. n, i \in 1 .. k : s[Position(j, i, k)] = b[j][i]

LEMMA FlattenBlocks ==
  ASSUME NEW S, NEW n \in Nat \ {0}, NEW k \in Nat, NEW b \in [1 .. n -> [1 .. k -> S]]
  PROVE  FlattenSeq(b) \in [1 .. n * k -> S] /\ Laid(FlattenSeq(b), b, n, k)
<1>1. b \in Seq(Seq(S)) /\ Len(b) = n
  <2>1. \A i \in 1 .. n : b[i] \in Seq(S)
    BY LenOf
  <2>2. b \in [1 .. n -> Seq(S)]
    BY <2>1
  <2> QED BY <2>2, LenOf
<1>2. PICK h : FlattenRun(h, n, b) /\ FlattenSeq(b) = h[n]
  BY <1>1, FlattenSteps
<1> DEFINE T == {c \in 0 .. n : c # 0 => h[c] \in [1 .. c * k -> S] /\ Laid(h[c], b, c, k)}
<1>3. 0 \in T
  OBVIOUS
<1>4. ASSUME NEW c \in 0 .. n - 1, c \in T PROVE c + 1 \in T
  <2>1. c + 1 \in 1 .. n /\ (c + 1) - 1 = c /\ c \in Nat
    OBVIOUS
  <2>2. b[c + 1] \in [1 .. k -> S]
    BY <2>1
  <2>3. CASE c = 0
    <3>1. h[1] = b[1] /\ 1 * k = k
      BY <1>2, <2>1, <2>3 DEF FlattenRun
    <3>2. ASSUME NEW j \in 1 .. 1, NEW i \in 1 .. k PROVE Position(j, i, k) = i /\ j = 1
      <4>1. j = 1
        OBVIOUS
      <4> QED BY <4>1 DEF Position
    <3>3. Laid(h[1], b, 1, k)
      BY <3>1, <3>2 DEF Laid
    <3> QED BY <2>1, <2>2, <2>3, <3>1, <3>3
  <2>4. CASE c # 0
    <3> DEFINE p == c * k
               u == h[c]
               v == b[c + 1]
               r == h[c + 1]
    <3>1. r = u \o v
      <4>1. c + 1 # 1
        BY <2>1, <2>4
      <4> QED BY <1>2, <2>1, <4>1 DEF FlattenRun
    <3>2. p \in Nat /\ (c + 1) * k = p + k /\ u \in [1 .. p -> S] /\ Laid(u, b, c, k)
      BY <1>4, <2>1, <2>4
    <3>3. v \in [1 .. k -> S]
      BY <2>2
    <3> HIDE DEF p, u, v, r
    <3>4. /\ r \in [1 .. p + k -> S]
          /\ \A i \in 1 .. p : r[i] = u[i]
          /\ \A i \in 1 .. k : r[p + i] = v[i]
      <4>1. Joined(r, u, v, p, k, S)
        BY <3>1, <3>2, <3>3, ConcatEntries
      <4> QED BY <4>1 DEF Joined
    <3>5. ASSUME NEW j \in 1 .. c + 1, NEW i \in 1 .. k
          PROVE  r[Position(j, i, k)] = b[j][i]
      <4>1. CASE j = c + 1
        <5>1. Position(j, i, k) = p + i
          BY <2>1, <4>1 DEF Position, p
        <5> QED BY <3>4, <4>1, <5>1 DEF v
      <4>2. CASE j # c + 1
        <5>1. j \in 1 .. c
          BY <2>1, <4>2
        <5>2. Position(j, i, k) \in 1 .. p
          BY <2>1, <5>1, PositionOf DEF p
        <5> QED BY <3>2, <3>4, <5>1, <5>2 DEF Laid
      <4> QED BY <4>1, <4>2
    <3>6. Laid(r, b, c + 1, k)
      BY <3>5 DEF Laid
    <3>7. r \in [1 .. (c + 1) * k -> S]
      BY <3>2, <3>4
    <3>8. c + 1 \in 0 .. n
      BY <2>1
    <3> QED BY <3>6, <3>7, <3>8 DEF r
  <2> QED BY <2>3, <2>4
<1>5. n \in T
  <2> HIDE DEF T
  <2>1. 0 .. n \subseteq T
    BY <1>3, <1>4, BoundedInduction
  <2> QED BY <2>1
<1> QED BY <1>2, <1>5

(* Every position belongs to a block.                                       *)
InBlock(x, n, k) == \E j \in 1 .. n, i \in 1 .. k : x = Position(j, i, k)

LEMMA PositionIn ==
  ASSUME NEW n \in Nat, NEW k \in Nat \ {0}, NEW x \in 1 .. n * k
  PROVE  InBlock(x, n, k)
<1> DEFINE y == x - 1
           q == y \div k
           r == y % k
<1>0. n * k \in Nat
  OBVIOUS
<1>1. y \in Nat /\ y < n * k
  BY <1>0
<1>2. r \in 0 .. k - 1 /\ q \in Nat /\ y = k * q + r
  <2>1. y \in Int
    BY <1>1
  <2> HIDE DEF y
  <2> QED BY <1>1, <2>1, ModOf, HalfDiv
<1> HIDE DEF q, r
<1>3. q < n
  <2>1. CASE q >= n
    <3>1. k * q >= n * k
      <4>1. q - n \in Nat /\ q = n + (q - n)
        BY <1>2, <2>1
      <4>2. k * (q - n) \in Nat
        BY <4>1
      <4>3. k * q = n * k + k * (q - n)
        BY <4>1
      <4> QED BY <1>0, <4>2, <4>3
    <3>2. k * q \in Nat
      BY <1>2
    <3> QED BY <1>0, <1>1, <1>2, <3>1, <3>2
  <2> QED BY <1>2, <2>1
<1>4. q + 1 \in 1 .. n /\ r + 1 \in 1 .. k
  BY <1>2, <1>3
<1>5. x = Position(q + 1, r + 1, k)
  <2>1. (q + 1) - 1 = q /\ q * k = k * q
    BY <1>2
  <2>2. x = k * q + r + 1
    <3>1. k * q \in Int
      BY <1>2
    <3> QED BY <1>2, <3>1 DEF y
  <2> QED BY <1>2, <2>1, <2>2 DEF Position
<1> QED BY <1>4, <1>5 DEF InBlock

(* What the packing asks of bits: a string of them gives an element and an  *)
(* element gives a string of them.  A string of k bits may be wide enough   *)
(* for every element or narrow enough for an element to hold it.            *)
PackingLaws ==
  /\ ByteBits \in Nat \ {0}
  /\ \A k \in Nat : \A s \in BitStrings(k) : FromBits(s) \in Elements
  /\ \A k \in Nat, a \in Elements : Bits(a, k) \in BitStrings(k)

Wide(k) == \A a \in Elements : FromBits(Bits(a, k)) = a
Narrow(k) == \A s \in BitStrings(k) : Bits(FromBits(s), k) = s

(* The bits that fill up the last byte.                                     *)
Rest(n) == (ByteBits - (n % ByteBits)) % ByteBits

LEMMA RestIs ==
  ASSUME PackingLaws, NEW n \in Nat
  PROVE  /\ Rest(n) \in Nat
         /\ n + Rest(n) = ByteBits * ((n + ByteBits - 1) \div ByteBits)
<1> DEFINE b == ByteBits
           q == n \div b
           r == n % b
<1>0. b \in Nat \ {0}
  BY DEF PackingLaws
<1> HIDE DEF b
<1>1. r \in 0 .. b - 1 /\ q \in Int /\ n = b * q + r
  BY <1>0, ModOf
<1> HIDE DEF q, r
<1>2. CASE r = 0
  <2>1. (b - r) % b = 0
    <3>1. (b * 1 + 0) % b = 0
      BY <1>0, ModUnique
    <3> QED BY <1>0, <1>2, <3>1
  <2>2. (b * q + (b - 1)) \div b = q
    BY <1>0, <1>1, DivUnique
  <2>3. n + b - 1 = b * q + (b - 1)
    BY <1>0, <1>1, <1>2
  <2> QED BY <1>0, <1>1, <1>2, <2>1, <2>2, <2>3 DEF Rest, b, r
<1>3. CASE r # 0
  <2>1. (b - r) % b = b - r
    <3>1. b - r \in 0 .. b - 1
      BY <1>0, <1>1, <1>3
    <3>2. (b * 0 + (b - r)) % b = b - r
      BY <1>0, <3>1, ModUnique
    <3>3. b * 0 + (b - r) = b - r
      BY <1>0, <1>1
    <3> QED BY <3>2, <3>3
  <2>2. (b * (q + 1) + (r - 1)) \div b = q + 1
    <3>1. r - 1 \in 0 .. b - 1 /\ q + 1 \in Int
      BY <1>0, <1>1, <1>3
    <3> QED BY <1>0, <3>1, DivUnique
  <2>3. b * (q + 1) = b * q + b /\ b * q \in Int
    BY <1>0, <1>1
  <2>4. n + b - 1 = b * (q + 1) + (r - 1)
    BY <1>0, <1>1, <2>3
  <2>5. n + (b - r) = b * (q + 1)
    BY <1>0, <1>1, <2>3
  <2>6. b - r \in Nat
    BY <1>0, <1>1
  <2> QED BY <2>1, <2>2, <2>4, <2>5, <2>6 DEF Rest, b, r
<1> QED BY <1>2, <1>3

(* A string of bits split into elements: each comes from its part.          *)
Part(s, j, k) == SubSeq(s, (j - 1) * k + 1, j * k)

IsPart(part, s, j, k) ==
  part \in BitStrings(k) /\ \A i \in 1 .. k : part[i] = s[Position(j, i, k)]

LEMMA PartIs ==
  ASSUME NEW n \in Nat, NEW w \in Nat, NEW k \in Nat \ {0}, w * k <= n,
         NEW s \in BitStrings(n), NEW j \in 1 .. w
  PROVE  IsPart(Part(s, j, k), s, j, k)
<1> DEFINE a == (j - 1) * k + 1
           b == j * k
           part == Part(s, j, k)
<1>1. /\ (j - 1) * k \in Nat /\ j * k \in Nat /\ w * k \in Nat
      /\ j * k = (j - 1) * k + k /\ j * k <= w * k
      /\ \A i \in 1 .. k : Position(j, i, k) \in 1 .. w * k
  <2>1. 1 \in 1 .. k
    OBVIOUS
  <2> QED BY <2>1, PositionOf
<1>2. a \in Nat /\ b \in Nat /\ b - a + 1 = k /\ a <= b /\ 1 <= a /\ b <= n
  BY <1>1
<1>3. \A i \in 1 .. k : a + i - 1 = Position(j, i, k)
  BY <1>1 DEF Position
<1> HIDE DEF a, b
<1>4. \A i \in a .. b : s[i] \in {0, 1}
  BY <1>2 DEF BitStrings
<1>5. /\ SubSeq(s, a, b) \in Seq({0, 1}) /\ Len(SubSeq(s, a, b)) = k
      /\ \A i \in 1 .. k : SubSeq(s, a, b)[i] = s[a + i - 1]
  BY <1>2, <1>4, SubSeqProperties
<1>6. part = SubSeq(s, a, b)
  BY DEF a, b, Part
<1> HIDE DEF part
<1>7. part \in Seq({0, 1}) /\ Len(part) = k /\ \A i \in 1 .. k : part[i] = s[a + i - 1]
  BY <1>5, <1>6
<1>8. part \in [1 .. k -> {0, 1}]
  BY ONLY <1>7, SeqOfLen
<1>9. \A i \in 1 .. k : part[i] = s[Position(j, i, k)]
  BY <1>3, <1>7
<1> QED BY <1>8, <1>9 DEF IsPart, BitStrings, part

LEMMA SplitIs ==
  ASSUME PackingLaws, NEW n \in Nat, NEW w \in Nat, NEW k \in Nat \ {0}, w * k <= n, n < w * k + k,
         NEW s \in BitStrings(n)
  PROVE  /\ SplitBitsToFieldElements(s, k) \in Vectors(w)
         /\ \A j \in 1 .. w : SplitBitsToFieldElements(s, k)[j] = FromBits(Part(s, j, k))
<1>1. n \div k = w
  <2> DEFINE r == n - k * w
  <2>1. k * w \in Nat /\ w * k = k * w
    OBVIOUS
  <2>2. r \in 0 .. k - 1 /\ n = k * w + r
    BY <2>1
  <2> HIDE DEF r
  <2>3. (k * w + r) \div k = w
    BY <2>2, DivUnique
  <2> QED BY <2>2, <2>3
<1>2. Len(s) = n
  BY LenOf DEF BitStrings
<1>3. SplitBitsToFieldElements(s, k) = [j \in 1 .. w |-> FromBits(Part(s, j, k))]
  BY <1>1, <1>2 DEF SplitBitsToFieldElements, Part
<1>4. ASSUME NEW j \in 1 .. w PROVE FromBits(Part(s, j, k)) \in Elements
  BY PartIs DEF IsPart, PackingLaws
<1> QED BY <1>3, <1>4 DEF Vectors

(* Elements packed into bytes: their bits, and zeros up to the last byte.   *)
LEMMA PackIs ==
  ASSUME PackingLaws, NEW w \in Nat \ {0}, NEW k \in Nat, NEW v \in Vectors(w)
  PROVE  /\ FieldElementsToBytes(v, k) \in BitStrings(w * k + Rest(w * k))
         /\ \A j \in 1 .. w, i \in 1 .. k :
              FieldElementsToBytes(v, k)[Position(j, i, k)] = Bits(v[j], k)[i]
         /\ \A i \in 1 .. Rest(w * k) : FieldElementsToBytes(v, k)[w * k + i] = 0
<1> DEFINE b == [j \in DOMAIN v |-> Bits(v[j], k)]
           packed == FlattenSeq(b)
           p == w * k
           q == Rest(p)
           zeros == [i \in 1 .. q |-> 0]
           d == FieldElementsToBytes(v, k)
<1>1. b \in [1 .. w -> [1 .. k -> {0, 1}]] /\ \A j \in 1 .. w : b[j] = Bits(v[j], k)
  <2>1. DOMAIN v = 1 .. w /\ \A j \in 1 .. w : v[j] \in Elements
    BY DEF Vectors
  <2>2. ASSUME NEW j \in 1 .. w PROVE Bits(v[j], k) \in [1 .. k -> {0, 1}]
    BY <2>1 DEF BitStrings, PackingLaws
  <2> QED BY <2>1, <2>2
<1> HIDE DEF b
<1>2. packed \in [1 .. p -> {0, 1}] /\ Laid(packed, b, w, k)
  BY <1>1, FlattenBlocks
<1>3. p \in Nat
  OBVIOUS
<1> HIDE DEF packed, p
<1>4. q \in Nat
  BY <1>3, RestIs
<1>5. d = packed \o zeros
  <2>1. Len(packed) = p
    BY <1>2, <1>3, LenOf
  <2> QED BY <2>1 DEF FieldElementsToBytes, packed, b, Rest
<1>6. zeros \in [1 .. q -> {0, 1}] /\ \A i \in 1 .. q : zeros[i] = 0
  OBVIOUS
<1> HIDE DEF q, zeros, d
<1>7. Joined(d, packed, zeros, p, q, {0, 1})
  BY <1>2, <1>3, <1>4, <1>5, <1>6, ConcatEntries
<1>8. ASSUME NEW j \in 1 .. w, NEW i \in 1 .. k
      PROVE  d[Position(j, i, k)] = Bits(v[j], k)[i]
  <2>1. Position(j, i, k) \in 1 .. p
    BY PositionOf DEF p
  <2> QED BY <1>1, <1>2, <1>7, <2>1 DEF Joined, Laid
<1>9. d \in BitStrings(p + q) /\ \A i \in 1 .. q : d[p + i] = 0
  BY <1>6, <1>7 DEF Joined, BitStrings
<1> QED BY <1>8, <1>9 DEF d, p, q

LEMMA BitStringsEqual ==
  ASSUME NEW n \in Nat, NEW s \in BitStrings(n), NEW t \in BitStrings(n),
         \A i \in 1 .. n : s[i] = t[i]
  PROVE  s = t
BY DEF BitStrings

(* Elements come out of their bytes, ...                                    *)
LEMMA SplitOfPack ==
  ASSUME PackingLaws, NEW w \in Nat \ {0}, NEW k \in Nat \ {0}, NEW v \in Vectors(w),
         Wide(k), Rest(w * k) < k
  PROVE  SplitBitsToFieldElements(FieldElementsToBytes(v, k), k) = v
<1> DEFINE p == w * k
           q == Rest(p)
           n == p + q
           d == FieldElementsToBytes(v, k)
           u == SplitBitsToFieldElements(d, k)
<1>1. p \in Nat /\ q \in Nat /\ q < k /\ n \in Nat /\ p <= n /\ n < p + k
  <2>1. p \in Nat /\ q < k
    OBVIOUS
  <2>2. q \in Nat
    BY <2>1, RestIs
  <2> HIDE DEF p, q
  <2> QED BY <2>1, <2>2
<1>2. d \in BitStrings(n)
      /\ \A j \in 1 .. w, i \in 1 .. k : d[Position(j, i, k)] = Bits(v[j], k)[i]
  BY PackIs
<1> HIDE DEF n, d, q
<1>3. u \in Vectors(w) /\ \A j \in 1 .. w : u[j] = FromBits(Part(d, j, k))
  BY <1>1, <1>2, SplitIs
<1>4. ASSUME NEW j \in 1 .. w PROVE u[j] = v[j]
  <2> DEFINE a == v[j]
             s == Part(d, j, k)
             t == Bits(a, k)
  <2>1. a \in Elements
    BY DEF Vectors
  <2>2. s \in BitStrings(k) /\ \A i \in 1 .. k : s[i] = d[Position(j, i, k)]
    <3>1. IsPart(s, d, j, k)
      BY <1>1, <1>2, PartIs
    <3> QED BY <3>1 DEF IsPart
  <2>3. t \in BitStrings(k)
    BY <2>1 DEF PackingLaws
  <2>4. \A i \in 1 .. k : s[i] = t[i]
    BY <1>2, <2>2
  <2> HIDE DEF a, s, t
  <2>5. s = t
    BY <2>2, <2>3, <2>4, BitStringsEqual
  <2>6. FromBits(t) = a
    BY <2>1 DEF Wide, t
  <2> QED BY <1>3, <2>5, <2>6 DEF s, a
<1> HIDE DEF u
<1>5. u = v
  BY <1>3, <1>4, VectorsEqual
<1> QED BY <1>5 DEF u, d

(* ... and bits that fill whole elements and whole bytes out of theirs.     *)
LEMMA PackOfSplit ==
  ASSUME PackingLaws, NEW w \in Nat \ {0}, NEW k \in Nat \ {0}, NEW s \in BitStrings(w * k),
         Narrow(k), Rest(w * k) = 0
  PROVE  /\ SplitBitsToFieldElements(s, k) \in Vectors(w)
         /\ FieldElementsToBytes(SplitBitsToFieldElements(s, k), k) = s
<1> DEFINE p == w * k
           v == SplitBitsToFieldElements(s, k)
           d == FieldElementsToBytes(v, k)
<1>1. p \in Nat /\ p <= p /\ p < p + k
  <2>1. p \in Nat
    OBVIOUS
  <2> HIDE DEF p
  <2> QED BY <2>1
<1>2. s \in BitStrings(p)
  OBVIOUS
<1>3. v \in Vectors(w) /\ \A j \in 1 .. w : v[j] = FromBits(Part(s, j, k))
  BY <1>1, <1>2, SplitIs
<1> HIDE DEF v
<1>4. d \in BitStrings(p)
      /\ \A j \in 1 .. w, i \in 1 .. k : d[Position(j, i, k)] = Bits(v[j], k)[i]
  <2>1. p + Rest(p) = p
    BY <1>1
  <2> QED BY <1>3, <2>1, PackIs
<1> HIDE DEF d
<1>5. ASSUME NEW x \in 1 .. p PROVE d[x] = s[x]
  <2>1. PICK j \in 1 .. w, i \in 1 .. k : x = Position(j, i, k)
    <3>1. InBlock(x, w, k)
      BY PositionIn
    <3> QED BY <3>1 DEF InBlock
  <2> DEFINE part == Part(s, j, k)
  <2>2. part \in BitStrings(k) /\ part[i] = s[Position(j, i, k)]
    <3>1. IsPart(part, s, j, k)
      BY <1>1, <1>2, PartIs
    <3> QED BY <2>1, <3>1 DEF IsPart
  <2> HIDE DEF part
  <2>3. Bits(FromBits(part), k) = part
    BY <2>2 DEF Narrow
  <2> QED BY <1>3, <1>4, <2>1, <2>2, <2>3 DEF part
<1> HIDE DEF p
<1>6. d = s
  BY <1>1, <1>2, <1>4, <1>5, BitStringsEqual
<1> QED BY <1>3, <1>6 DEF d, v

-----------------------------------------------------------------------------
(* Inversion.                                                               *)

(* The rows that the steps of the elimination make stay in a subspace.      *)
LEMMA ClearColumnRows ==
  ASSUME FieldLaws, NEW m \in Nat \ {0}, NEW w \in Nat, NEW A \in Matrices(m, w),
         NEW i \in 1 .. m, NEW c \in 1 .. w, A[i][c] # Zero,
         NEW S, Subspace(S, w), Rows(A, m, S), NEW C, C = ClearColumn(A, i, c)
  PROVE  Rows(C, m, S)
<1>1. Cleared(C, A, i, c, m, w)
  BY ClearColumnIs
<1> DEFINE b == Inv(A[i][c])
           x == C[i]
<1>2. /\ b \in Elements /\ C \in Matrices(m, w)
      /\ \A j \in 1 .. w : C[i][j] = Mul(A[i][j], b)
      /\ \A k \in 1 .. m, j \in 1 .. w :
           k # i => C[k][j] = Sub(A[k][j], Mul(A[k][c], C[i][j]))
  BY <1>1 DEF Cleared
<1>3. \A k \in 1 .. m : A[k] \in Vectors(w) /\ C[k] \in Vectors(w) /\ A[k] \in S
  BY <1>2 DEF Matrices, Rows
<1>4. \A k \in 1 .. m, j \in 1 .. w : A[k][j] \in Elements /\ C[k][j] \in Elements
  BY <1>3 DEF Vectors
<1> HIDE DEF b
<1>5. C[i] \in S
  <2> DEFINE z == VectorMul(b, A[i])
  <2>1. z \in Vectors(w) /\ \A j \in 1 .. w : z[j] = Mul(b, A[i][j])
    BY <1>2, <1>3, VectorMulIs
  <2>2. z \in S
    BY <1>2, <1>3 DEF Subspace
  <2> HIDE DEF z
  <2>3. \A j \in 1 .. w : C[i][j] = z[j]
    BY <1>2, <1>4, <2>1, MulIsMonoid
  <2>4. C[i] = z
    BY <1>3, <2>1, <2>3, VectorsEqual
  <2> QED BY <2>2, <2>4
<1>6. ASSUME NEW k \in 1 .. m, k # i PROVE C[k] \in S
  <2> DEFINE d == Mul(MinusOne, A[k][c])
             y == VectorMul(d, x)
             z == VectorAdd(A[k], y)
  <2>1. MinusOne \in Elements /\ d \in Elements /\ A[k][c] \in Elements
    BY <1>4, SubIsAdd, FieldClosed
  <2> HIDE DEF d
  <2>2. y \in Vectors(w) /\ \A j \in 1 .. w : y[j] = Mul(d, x[j])
    <3>1. x \in Vectors(w)
      BY <1>3
    <3> HIDE DEF x
    <3> QED BY <2>1, <3>1, VectorMulIs
  <2>3. y \in S
    BY <1>5, <2>1 DEF Subspace
  <2> HIDE DEF y
  <2>4. z \in Vectors(w) /\ \A j \in 1 .. w : z[j] = Add(A[k][j], y[j])
    BY <1>3, <2>2, VectorAddIs
  <2>5. z \in S
    BY <1>3, <2>3 DEF Subspace
  <2> HIDE DEF z
  <2>6. ASSUME NEW j \in 1 .. w PROVE C[k][j] = z[j]
    <3>1. C[k][j] = Sub(A[k][j], Mul(A[k][c], x[j])) /\ A[k][j] \in Elements /\ x[j] \in Elements
      BY <1>2, <1>4, <1>6
    <3>2. Mul(A[k][c], x[j]) \in Elements
      BY <2>1, <3>1, FieldClosed
    <3>3. C[k][j] = Add(A[k][j], Mul(MinusOne, Mul(A[k][c], x[j])))
      BY <3>1, <3>2, SubIsAdd
    <3>4. Mul(MinusOne, Mul(A[k][c], x[j])) = Mul(d, x[j])
      BY <2>1, <3>1, MulIsMonoid DEF d
    <3> QED BY <2>2, <2>4, <3>3, <3>4
  <2>7. C[k] = z
    BY <1>3, <2>4, <2>6, VectorsEqual
  <2> QED BY <2>5, <2>7
<1> QED BY <1>5, <1>6 DEF Rows

LEMMA SwapRows ==
  ASSUME NEW m \in Nat, NEW w \in Nat, NEW A \in Matrices(m, w),
         NEW i \in 1 .. m, NEW j \in 1 .. m, NEW S, Rows(A, m, S)
  PROVE  Rows(Swap(A, i, j), m, S)
<1>1. Swapped(Swap(A, i, j), A, i, j, m)
  BY SwapIs DEF Matrices
<1> HIDE DEF Swap
<1> QED BY <1>1 DEF Swapped, Rows

(* The two halves of a matrix next to which its inverse is made.            *)
Left(v, c) == [j \in 1 .. c |-> v[j]]
Right(v, c) == [j \in 1 .. c |-> v[c + j]]
LeftOf(B, c) == [k \in 1 .. c |-> Left(B[k], c)]

LEMMA HalvesAre ==
  ASSUME NEW c \in Nat, NEW v \in Vectors(2 * c)
  PROVE  /\ Left(v, c) \in Vectors(c) /\ Right(v, c) \in Vectors(c)
         /\ \A j \in 1 .. c : /\ Left(v, c)[j] = v[j] /\ Right(v, c)[j] = v[c + j]
                              /\ j \in 1 .. 2 * c /\ c + j \in 1 .. 2 * c
<1>1. \A j \in 1 .. c : j \in 1 .. 2 * c /\ c + j \in 1 .. 2 * c
  OBVIOUS
<1>2. \A j \in 1 .. 2 * c : v[j] \in Elements
  BY DEF Vectors
<1> QED BY <1>1, <1>2 DEF Left, Right, Vectors

LEMMA LeftOfIs ==
  ASSUME NEW c \in Nat, NEW B \in Matrices(c, 2 * c)
  PROVE  /\ LeftOf(B, c) \in Matrices(c, c)
         /\ \A k \in 1 .. c, j \in 1 .. c : LeftOf(B, c)[k][j] = B[k][j] /\ j \in 1 .. 2 * c
<1>1. \A k \in 1 .. c : B[k] \in Vectors(2 * c)
  BY DEF Matrices
<1>2. \A k \in 1 .. c : Left(B[k], c) \in Vectors(c)
                        /\ \A j \in 1 .. c : Left(B[k], c)[j] = B[k][j] /\ j \in 1 .. 2 * c
  BY <1>1, HalvesAre
<1> HIDE DEF Left
<1> QED BY <1>2 DEF LeftOf, Matrices

MatrixEntries(A, B, m, w) == \A k \in 1 .. m, j \in 1 .. w : A[k][j] = B[k][j]

LEMMA MatricesEqual ==
  ASSUME NEW m \in Nat, NEW w \in Nat, NEW A \in Matrices(m, w), NEW B \in Matrices(m, w),
         MatrixEntries(A, B, m, w)
  PROVE  A = B
<1>1. \A k \in 1 .. m : A[k] \in Vectors(w) /\ B[k] \in Vectors(w)
  BY DEF Matrices
<1>2. \A k \in 1 .. m : A[k] = B[k]
  BY <1>1, VectorsEqual DEF MatrixEntries
<1> QED BY <1>2 DEF Matrices

LEMMA LeftOfClear ==
  ASSUME FieldLaws, NEW c \in Nat \ {0}, NEW B \in Matrices(c, 2 * c), NEW i \in 1 .. c, NEW k \in 1 .. c,
         B[i][k] # Zero
  PROVE  LeftOf(ClearColumn(B, i, k), c) = ClearColumn(LeftOf(B, c), i, k)
<1> DEFINE w == 2 * c
           L == LeftOf(B, c)
           C == ClearColumn(B, i, k)
           D == ClearColumn(L, i, k)
           E == LeftOf(C, c)
<1>1. c \in Nat /\ w \in Nat
  OBVIOUS
<1>2. L \in Matrices(c, c) /\ \A x \in 1 .. c, j \in 1 .. c : L[x][j] = B[x][j] /\ j \in 1 .. w
  BY <1>1, LeftOfIs
<1> HIDE DEF L
<1>3. L[i][k] = B[i][k] /\ k \in 1 .. w
  BY <1>2
<1>4. Cleared(C, B, i, k, c, w)
  BY <1>1, <1>3, ClearColumnIs
<1>5. Cleared(D, L, i, k, c, c)
  BY <1>1, <1>2, <1>3, ClearColumnIs
<1>6. C \in Matrices(c, w) /\ D \in Matrices(c, c)
  BY <1>4, <1>5 DEF Cleared
<1> HIDE DEF C, D
<1>7. E \in Matrices(c, c) /\ \A x \in 1 .. c, j \in 1 .. c : E[x][j] = C[x][j]
  BY <1>1, <1>6, LeftOfIs
<1> HIDE DEF E, w
<1>8. ASSUME NEW j \in 1 .. c PROVE C[i][j] = D[i][j]
  BY <1>2, <1>3, <1>4, <1>5 DEF Cleared
<1>9. ASSUME NEW x \in 1 .. c, NEW j \in 1 .. c, x # i PROVE C[x][j] = D[x][j]
  <2>1. C[x][j] = Sub(B[x][j], Mul(B[x][k], C[i][j]))
    BY <1>2, <1>4, <1>9 DEF Cleared
  <2>2. D[x][j] = Sub(L[x][j], Mul(L[x][k], D[i][j]))
    BY <1>5, <1>9 DEF Cleared
  <2> QED BY <1>2, <1>8, <2>1, <2>2
<1>10. MatrixEntries(E, D, c, c)
  BY <1>7, <1>8, <1>9 DEF MatrixEntries
<1>11. E = D
  BY <1>1, <1>6, <1>7, <1>10, MatricesEqual
<1> QED BY <1>11 DEF E, D, C, L

LEMMA LeftOfSwap ==
  ASSUME NEW c \in Nat, NEW B \in Matrices(c, 2 * c), NEW i \in 1 .. c, NEW j \in 1 .. c
  PROVE  Swap(B, i, j) \in Matrices(c, 2 * c) /\ LeftOf(Swap(B, i, j), c) = Swap(LeftOf(B, c), i, j)
<1> DEFINE L == LeftOf(B, c)
           C == Swap(B, i, j)
           D == Swap(L, i, j)
           E == LeftOf(C, c)
<1>1. L \in Matrices(c, c) /\ \A x \in 1 .. c, y \in 1 .. c : L[x][y] = B[x][y]
  BY LeftOfIs
<1> HIDE DEF L
<1>2. C \in Matrices(c, 2 * c) /\ Swapped(C, B, i, j, c)
  BY SwapIs DEF Matrices
<1>3. D \in Matrices(c, c) /\ Swapped(D, L, i, j, c)
  BY <1>1, SwapIs DEF Matrices
<1> HIDE DEF C, D
<1>4. E \in Matrices(c, c) /\ \A x \in 1 .. c, y \in 1 .. c : E[x][y] = C[x][y]
  BY <1>2, LeftOfIs
<1> HIDE DEF E
<1>5. MatrixEntries(E, D, c, c)
  BY <1>1, <1>2, <1>3, <1>4 DEF MatrixEntries, Swapped
<1>6. E = D
  BY <1>3, <1>4, <1>5, MatricesEqual
<1> QED BY <1>2, <1>6 DEF E, D, C, L

LEMMA LeftOfPivots ==
  ASSUME NEW c \in Nat, NEW B \in Matrices(c, 2 * c), NEW i \in 1 .. c, NEW k \in 1 .. c
  PROVE  /\ Pivots(LeftOf(B, c), i, k) = Pivots(B, i, k)
         /\ Pivot(LeftOf(B, c), i, k) = Pivot(B, i, k)
<1> DEFINE L == LeftOf(B, c)
<1>1. L \in Matrices(c, c) /\ \A x \in 1 .. c, y \in 1 .. c : L[x][y] = B[x][y]
  BY LeftOfIs
<1> HIDE DEF L
<1>2. Len(L) = c /\ Len(B) = c
  BY <1>1, LenOf DEF Matrices
<1>3. Pivots(L, i, k) = Pivots(B, i, k)
  <2>1. \A x \in i .. c : x \in 1 .. c
    OBVIOUS
  <2> QED BY <1>1, <1>2, <2>1 DEF Pivots
<1> HIDE DEF Pivots
<1> QED BY <1>3 DEF Pivot, L

(* Beside a row stand the factors that make it from the given matrix.       *)
MadeFrom(A, c) == {v \in Vectors(2 * c) : Left(v, c) = Combination(Right(v, c), A)}

LEMMA MadeFromSubspace ==
  ASSUME FieldLaws, NEW c \in Nat \ {0}, NEW A \in Matrices(c, c)
  PROVE  Subspace(MadeFrom(A, c), 2 * c)
<1> DEFINE S == MadeFrom(A, c)
           w == 2 * c
<1>1. c \in Nat /\ w \in Nat
  OBVIOUS
<1>2. S \subseteq Vectors(w) /\ \A v \in S : Left(v, c) = Combination(Right(v, c), A)
  BY DEF MadeFrom
<1>3. \A v \in Vectors(w) : /\ Left(v, c) \in Vectors(c) /\ Right(v, c) \in Vectors(c)
                            /\ \A j \in 1 .. c : /\ Left(v, c)[j] = v[j] /\ Right(v, c)[j] = v[c + j]
                                                 /\ j \in 1 .. w /\ c + j \in 1 .. w
  BY <1>1, HalvesAre
<1>4. \A v \in Vectors(w) : Left(v, c) = Combination(Right(v, c), A) => v \in S
  BY DEF MadeFrom
<1> HIDE DEF S, w
<1>5. ASSUME NEW x \in S, NEW y \in S PROVE VectorAdd(x, y) \in S
  <2> DEFINE z == VectorAdd(x, y)
             f == Right(x, c)
             g == Right(y, c)
             p == Left(x, c)
             q == Left(y, c)
  <2>1. x \in Vectors(w) /\ y \in Vectors(w) /\ p = Combination(f, A) /\ q = Combination(g, A)
    BY <1>2
  <2>2. z \in Vectors(w) /\ \A j \in 1 .. w : z[j] = Add(x[j], y[j])
    BY <1>1, <2>1, VectorAddIs
  <2> HIDE DEF z
  <2>3. /\ f \in Vectors(c) /\ g \in Vectors(c) /\ p \in Vectors(c) /\ q \in Vectors(c)
        /\ Left(z, c) \in Vectors(c) /\ Right(z, c) \in Vectors(c)
        /\ \A j \in 1 .. c : Left(z, c)[j] = Add(p[j], q[j]) /\ Right(z, c)[j] = Add(f[j], g[j])
    BY <1>3, <2>1, <2>2
  <2> DEFINE l == Left(z, c)
             r == Right(z, c)
  <2> HIDE DEF p, q, f, g, l, r
  <2>4. r = VectorAdd(f, g)
    <3>1. VectorAdd(f, g) \in Vectors(c) /\ \A j \in 1 .. c : VectorAdd(f, g)[j] = Add(f[j], g[j])
      BY <1>1, <2>3, VectorAddIs
    <3> HIDE DEF VectorAdd
    <3> QED BY <1>1, <2>3, <3>1, VectorsEqual DEF r
  <2>5. l = VectorAdd(p, q)
    <3>1. VectorAdd(p, q) \in Vectors(c) /\ \A j \in 1 .. c : VectorAdd(p, q)[j] = Add(p[j], q[j])
      BY <1>1, <2>3, VectorAddIs
    <3> HIDE DEF VectorAdd
    <3> QED BY <1>1, <2>3, <3>1, VectorsEqual DEF l
  <2>6. Combination(VectorAdd(f, g), A) = VectorAdd(Combination(f, A), Combination(g, A))
    BY <1>1, <2>3, CombinationAdd
  <2>7. l = Combination(r, A)
    BY <2>1, <2>4, <2>5, <2>6
  <2> QED BY <1>4, <2>2, <2>7 DEF l, r, z
<1>6. ASSUME NEW x \in S, NEW a \in Elements PROVE VectorMul(a, x) \in S
  <2> DEFINE z == VectorMul(a, x)
             f == Right(x, c)
             p == Left(x, c)
  <2>1. x \in Vectors(w) /\ p = Combination(f, A)
    BY <1>2
  <2>2. z \in Vectors(w) /\ \A j \in 1 .. w : z[j] = Mul(a, x[j])
    BY <1>1, <2>1, VectorMulIs
  <2> HIDE DEF z
  <2>3. /\ f \in Vectors(c) /\ p \in Vectors(c)
        /\ Left(z, c) \in Vectors(c) /\ Right(z, c) \in Vectors(c)
        /\ \A j \in 1 .. c : Left(z, c)[j] = Mul(a, p[j]) /\ Right(z, c)[j] = Mul(a, f[j])
    BY <1>3, <2>1, <2>2
  <2> DEFINE l == Left(z, c)
             r == Right(z, c)
  <2> HIDE DEF p, f, l, r
  <2>4. r = VectorMul(a, f)
    <3>1. VectorMul(a, f) \in Vectors(c) /\ \A j \in 1 .. c : VectorMul(a, f)[j] = Mul(a, f[j])
      BY <1>1, <2>3, VectorMulIs
    <3> QED BY <1>1, <2>3, <3>1, VectorsEqual DEF r
  <2>5. l = VectorMul(a, p)
    <3>1. VectorMul(a, p) \in Vectors(c) /\ \A j \in 1 .. c : VectorMul(a, p)[j] = Mul(a, p[j])
      BY <1>1, <2>3, VectorMulIs
    <3> QED BY <1>1, <2>3, <3>1, VectorsEqual DEF l
  <2>6. Combination(VectorMul(a, f), A) = VectorMul(a, Combination(f, A))
    BY <1>1, <2>3, CombinationScale
  <2>7. l = Combination(r, A)
    BY <2>1, <2>4, <2>5, <2>6
  <2> QED BY <1>4, <2>2, <2>7 DEF l, r, z
<1> QED BY <1>2, <1>5, <1>6 DEF Subspace, S, w

(* Of independent rows every column gives a pivot.                          *)
LEMMA RankGrows ==
  ASSUME FieldLaws, NEW c \in Nat \ {0}, NEW A \in Matrices(c, c),
         NEW h \in [0 .. c -> States(c, c)], Reduces(h, c, c, A), h[c].rank = c
  PROVE  \A k \in 0 .. c : h[k].rank = k
<1> DEFINE T == {d \in 0 .. c : h[c - d].rank = c - d}
<1>1. 0 \in T
  OBVIOUS
<1>2. ASSUME NEW d \in 0 .. c - 1, d \in T PROVE d + 1 \in T
  <2> DEFINE k == c - d
  <2>1. k \in 1 .. c /\ k - 1 \in 0 .. c /\ c - (d + 1) = k - 1 /\ d + 1 \in 0 .. c /\ h[k].rank = k
    BY <1>2
  <2> HIDE DEF k
  <2>2. h[k] = Reduce(h[k - 1], k)
    BY <2>1 DEF Reduces
  <2>3. Eliminated(h[k - 1], k - 1, c, c, A)
    <3>1. c \in Nat
      OBVIOUS
    <3> QED BY <2>1, <3>1, ReduceEliminates
  <2> DEFINE r == h[k - 1].rank
  <2>4. r \in Nat /\ r <= k - 1
    BY <2>1, <2>3 DEF Eliminated
  <2>5. h[k].rank = r \/ h[k].rank = r + 1
    BY <2>2 DEF Reduce
  <2> HIDE DEF r
  <2>6. r = k - 1
    BY <2>1, <2>4, <2>5
  <2> QED BY <2>1, <2>6 DEF r
<1>3. 0 .. c \subseteq T
  <2> HIDE DEF T
  <2> QED BY <1>1, <1>2, BoundedInduction
<1>4. ASSUME NEW k \in 0 .. c PROVE h[k].rank = k
  <2>1. c - k \in 0 .. c /\ c - (c - k) = k
    OBVIOUS
  <2>2. c - k \in T
    BY <1>3, <2>1
  <2> QED BY <2>1, <2>2
<1> QED BY <1>4

(* A step of the inversion does to the left half what a step of the         *)
(* elimination does.                                                        *)
LEMMA InvertStep ==
  ASSUME FieldLaws, NEW c \in Nat \ {0}, NEW k \in 1 .. c, NEW B \in Matrices(c, 2 * c),
         NEW s \in States(c, c), LeftOf(B, c) = s.A, s.rank = k - 1,
         NEW t, t = Reduce(s, k), t.rank = k,
         NEW S, Subspace(S, 2 * c), Rows(B, c, S), NEW D, D = InvertRow(B, k)
  PROVE  D \in Matrices(c, 2 * c) /\ LeftOf(D, c) = t.A /\ Rows(D, c, S)
<1> DEFINE A == s.A
           q == Pivot(B, k, k)
           E == Swap(B, k, q)
           w == 2 * c
<1>1. A \in Matrices(c, c) /\ c \in Nat /\ w \in Nat
  BY DEF States
<1>2. Len(A) = c /\ Len(B) = c
  BY <1>1, LenOf DEF Matrices
<1>3. B # Singular
  <2>1. Len(Singular) = 0
    BY DEF Singular
  <2> QED BY <1>2, <2>1
<1>4. Pivots(A, k, k) = Pivots(B, k, k) /\ Pivot(A, k, k) = q
  BY <1>1, LeftOfPivots
<1>5. s.rank + 1 = k /\ t # s
  OBVIOUS
<1>6. Pivots(A, k, k) # {} /\ t = [A |-> ClearColumn(Swap(A, k, q), k, k), rank |-> k]
  <2>1. t = IF k > Len(A) \/ Pivots(A, k, k) = {} THEN s
            ELSE [A |-> ClearColumn(Swap(A, k, Pivot(A, k, k)), k, k), rank |-> k]
    BY <1>5 DEF Reduce
  <2> HIDE DEF A, q
  <2> QED BY <1>4, <1>5, <2>1
<1>7. t.A = ClearColumn(Swap(A, k, q), k, k)
  BY <1>6
<1>8. D = ClearColumn(E, k, k)
  BY <1>3, <1>4, <1>6 DEF InvertRow
<1>9. q \in k .. c /\ B[q][k] # Zero
  BY <1>1, <1>4, <1>6, PivotIs
<1>10. q \in 1 .. c /\ k \in 1 .. w
  BY <1>9
<1> HIDE DEF q
<1>11. E \in Matrices(c, w) /\ LeftOf(E, c) = Swap(A, k, q)
  BY <1>1, <1>10, LeftOfSwap
<1>12. Rows(E, c, S)
  BY <1>1, <1>10, SwapRows
<1>13. E[k][k] # Zero
  <2>1. Swapped(E, B, k, q, c)
    BY <1>1, <1>10, SwapIs DEF Matrices
  <2>2. E[k] = IF k = q THEN B[k] ELSE IF k = k THEN B[q] ELSE B[k]
    BY <2>1 DEF Swapped
  <2> HIDE DEF E
  <2> QED BY <1>9, <2>2
<1> HIDE DEF E, A
<1>14. Rows(D, c, S)
  BY <1>1, <1>8, <1>10, <1>11, <1>12, <1>13, ClearColumnRows
<1>15. D \in Matrices(c, w)
  <2>1. Cleared(D, E, k, k, c, w)
    BY <1>1, <1>8, <1>10, <1>11, <1>13, ClearColumnIs
  <2> QED BY <2>1 DEF Cleared
<1>16. LeftOf(D, c) = t.A
  BY <1>7, <1>8, <1>11, <1>13, LeftOfClear
<1> QED BY <1>14, <1>15, <1>16

Augmented(A, n) ==
  [i \in 1 .. n |-> A[i] \o [j \in 1 .. n |-> IF i = j THEN One ELSE Zero]]

Inverts(g, c, A) == g[0] = Augmented(A, c) /\ \A k \in 1 .. c : g[k] = InvertRow(g[k - 1], k)

Augments(B, A, c) ==
  \A i \in 1 .. c : Joined(B[i], A[i], UnitVector(c, i), c, c, Elements)

LEMMA AugmentedIs ==
  ASSUME FieldLaws, NEW c \in Nat \ {0}, NEW A \in Matrices(c, c)
  PROVE  /\ Augmented(A, c) \in Matrices(c, 2 * c)
         /\ Augments(Augmented(A, c), A, c)
<1> DEFINE B == Augmented(A, c)
<1>1. c + c = 2 * c /\ c \in Nat
  OBVIOUS
<1>2. ASSUME NEW i \in 1 .. c
      PROVE  B[i] \in Vectors(2 * c) /\ Joined(B[i], A[i], UnitVector(c, i), c, c, Elements)
  <2> DEFINE a == A[i]
             u == UnitVector(c, i)
             b == B[i]
  <2>1. a \in [1 .. c -> Elements] /\ u \in [1 .. c -> Elements]
    BY <1>1, UnitVectorIs DEF Matrices, Vectors
  <2>2. b = a \o u
    BY DEF Augmented, UnitVector
  <2> HIDE DEF a, u, b
  <2>3. Joined(b, a, u, c, c, Elements)
    BY <1>1, <2>1, <2>2, ConcatEntries
  <2>4. b \in Vectors(2 * c)
    BY <1>1, <2>3 DEF Joined, Vectors
  <2> QED BY <2>3, <2>4 DEF a, u, b
<1>3. B = [i \in 1 .. c |-> B[i]]
  BY DEF Augmented
<1> HIDE DEF B
<1>4. B \in Matrices(c, 2 * c)
  BY <1>2, <1>3 DEF Matrices
<1> QED BY <1>2, <1>4 DEF B, Augments

LEMMA InvertRowStays ==
  ASSUME FieldLaws, NEW c \in Nat \ {0}, NEW B \in Matrices(c, 2 * c) \cup {Singular}, NEW k \in 1 .. c
  PROVE  InvertRow(B, k) \in Matrices(c, 2 * c) \cup {Singular}
<1> DEFINE q == Pivot(B, k, k)
           E == Swap(B, k, q)
           w == 2 * c
<1>1. CASE B = Singular \/ Pivots(B, k, k) = {}
  BY <1>1 DEF InvertRow
<1>2. CASE ~ (B = Singular \/ Pivots(B, k, k) = {})
  <2>1. B \in Matrices(c, w) /\ InvertRow(B, k) = ClearColumn(E, k, k) /\ c \in Nat /\ w \in Nat
    BY <1>2 DEF InvertRow
  <2>2. q \in k .. c /\ B[q][k] # Zero
    BY <1>2, <2>1, PivotIs
  <2>3. q \in 1 .. c /\ k \in 1 .. w
    BY <2>2
  <2> HIDE DEF q, w
  <2>4. E \in Matrices(c, w) /\ Swapped(E, B, k, q, c)
    BY <2>1, <2>3, SwapIs DEF Matrices
  <2>5. E[k] = IF k = q THEN B[k] ELSE IF k = k THEN B[q] ELSE B[k]
    BY <2>4 DEF Swapped
  <2> HIDE DEF E
  <2>6. E[k][k] # Zero
    BY <2>2, <2>5
  <2> DEFINE C == ClearColumn(E, k, k)
  <2>7. Cleared(C, E, k, k, c, w)
    BY <2>1, <2>3, <2>4, <2>6, ClearColumnIs
  <2> HIDE DEF C
  <2>8. C \in Matrices(c, w)
    BY <2>7 DEF Cleared
  <2> QED BY <2>1, <2>8 DEF C, w
<1> QED BY <1>1, <1>2

LEMMA InvertHistory ==
  ASSUME FieldLaws, NEW c \in Nat \ {0}, NEW A \in Matrices(c, c)
  PROVE  \E g : /\ Inverts(g, c, A)
                /\ g[c] # Singular =>
                     InvertMatrix(A) = [i \in 1 .. c |-> SubSeq(g[c][i], c + 1, 2 * c)]
<1> DEFINE V == Matrices(c, 2 * c) \cup {Singular}
           base == Augmented(A, c)
           H == [v \in V |-> [k \in 1 .. c |-> InvertRow(v, k)]]
           columns == [i \in 1 .. c |-> i]
           E(f) == [s \in SUBSET DOMAIN columns |->
                      IF s = {} THEN base ELSE InvertRow(f[s \ {Max(s)}], columns[Max(s)])]
           it == CHOOSE f : f = E(f)
<1>0. c \in Nat
  OBVIOUS
<1>1. LET B == it[DOMAIN columns]
      IN  B # Singular => InvertMatrix(A) = [i \in 1 .. c |-> SubSeq(B[i], c + 1, 2 * c)]
  <2>1. Len(A) = c
    BY LenOf DEF Matrices
  <2> QED BY <2>1 DEF InvertMatrix, FoldLeft, MapThenFoldSet, Augmented
<1>2. DOMAIN columns = 1 .. c /\ \A k \in 1 .. c : columns[k] = k
  OBVIOUS
<1>3. \A v \in V, k \in 1 .. c : H[v][k] = InvertRow(v, k) /\ InvertRow(v, k) \in V
  BY InvertRowStays
<1>4. base \in V
  BY AugmentedIs
<1> HIDE DEF columns, V, H, base
<1>5. ClosedUnder(H, V, c)
  BY <1>3 DEF ClosedUnder
<1>6. it = E(it)
  <2>1. PICK g \in [SUBSET (1 .. c) -> V] : FoldRecurses(g, c, base, H)
    BY <1>0, <1>4, <1>5, FoldRecursion
  <2>2. ASSUME NEW s \in SUBSET (1 .. c), s # {}
        PROVE  g[s] = InvertRow(g[s \ {Max(s)}], columns[Max(s)])
    <3>1. Max(s) \in s
      BY <2>2, SubsetMax
    <3>2. g[s] = H[g[s \ {Max(s)}]][Max(s)]
      BY <2>1, <2>2 DEF FoldRecurses
    <3> QED BY <1>2, <1>3, <3>1, <3>2
  <2>3. g[{}] = base
    BY <2>1 DEF FoldRecurses
  <2>4. g = E(g)
    BY <1>2, <2>2, <2>3
  <2> HIDE DEF E
  <2> QED BY <2>4
<1> HIDE DEF it
<1>7. Follows(it, c, V, base, H)
  <2>1. it[{}] = base
    BY <1>6
  <2>2. ASSUME NEW k \in 1 .. c, it[1 .. k - 1] \in V
        PROVE  it[1 .. k] = H[it[1 .. k - 1]][k]
    <3>1. 1 .. k \in SUBSET DOMAIN columns /\ 1 .. k # {} /\ k \in Nat \ {0}
      BY <1>2, SegmentOf
    <3>2. it[1 .. k] = InvertRow(it[(1 .. k) \ {Max(1 .. k)}], columns[Max(1 .. k)])
      BY <1>6, <3>1
    <3>3. it[1 .. k] = InvertRow(it[1 .. k - 1], k)
      BY <1>2, <3>1, <3>2, SegmentMax
    <3> QED BY <1>3, <2>2, <3>3
  <2> QED BY <2>1, <2>2 DEF Follows
<1>8. PICK g \in [0 .. c -> V] : History(g, c, base, H) /\ g[c] = it[1 .. c]
  BY <1>0, <1>4, <1>5, <1>7, FoldHistory
<1>9. \A k \in 1 .. c : k - 1 \in 0 .. c
  OBVIOUS
<1>10. g[0] = base /\ \A k \in 1 .. c : g[k] = InvertRow(g[k - 1], k)
  BY <1>3, <1>8, <1>9 DEF History
<1>11. Inverts(g, c, A)
  BY <1>10 DEF Inverts, base
<1> QED BY <1>1, <1>2, <1>8, <1>11

(* The inverse that is found is one.                                        *)
LEMMA InverseFound ==
  ASSUME FieldLaws, NEW c \in Nat \ {0}, NEW A \in Matrices(c, c), IsLinearlyIndependent(A)
  PROVE  /\ InvertMatrix(A) \in Matrices(c, c)
         /\ \A i \in 1 .. c : Combination(InvertMatrix(A)[i], A) = UnitVector(c, i)
<1> DEFINE S == MadeFrom(A, c)
           w == 2 * c
<1>0. c \in Nat /\ w \in Nat
  OBVIOUS
<1>1. PICK h \in [0 .. c -> States(c, c)] : Reduces(h, c, c, A) /\ h[c].rank = c
  BY <1>0, ReduceHistory
<1>2. PICK g : /\ Inverts(g, c, A)
               /\ g[c] # Singular =>
                    InvertMatrix(A) = [i \in 1 .. c |-> SubSeq(g[c][i], c + 1, 2 * c)]
  BY InvertHistory
<1>3. \A k \in 0 .. c : h[k].rank = k
  BY <1>1, RankGrows
<1>4. Subspace(S, w)
  BY MadeFromSubspace
<1> DEFINE Good(k) == g[k] \in Matrices(c, w) /\ LeftOf(g[k], c) = h[k].A /\ Rows(g[k], c, S)
           T == {k \in 0 .. c : Good(k)}
<1>5. 0 \in T
  <2> DEFINE B == g[0]
  <2>1. B \in Matrices(c, w) /\ Augments(B, A, c)
    BY <1>2, AugmentedIs DEF Inverts
  <2>2. h[0].A = A
    BY <1>1 DEF Reduces
  <2> HIDE DEF B
  <2>3. \A i \in 1 .. c : B[i] \in Vectors(w)
    BY <2>1 DEF Matrices
  <2>4. \A i, j \in 1 .. c : B[i][j] = A[i][j] /\ B[i][c + j] = UnitVector(c, i)[j]
    BY <2>1 DEF Augments, Joined
  <2>5. LeftOf(B, c) = A
    <3>1. LeftOf(B, c) \in Matrices(c, c)
          /\ \A k \in 1 .. c, j \in 1 .. c : LeftOf(B, c)[k][j] = B[k][j]
      BY <1>0, <2>1, LeftOfIs
    <3>2. MatrixEntries(LeftOf(B, c), A, c, c)
      BY <2>4, <3>1 DEF MatrixEntries
    <3> QED BY <1>0, <3>1, <3>2, MatricesEqual
  <2>6. ASSUME NEW i \in 1 .. c PROVE B[i] \in S
    <3> DEFINE v == B[i]
    <3>1. v \in Vectors(w)
      BY <2>3
    <3>2. /\ Left(v, c) \in Vectors(c) /\ Right(v, c) \in Vectors(c)
          /\ \A j \in 1 .. c : Left(v, c)[j] = v[j] /\ Right(v, c)[j] = v[c + j]
      BY <1>0, <3>1, HalvesAre
    <3>3. A[i] \in Vectors(c) /\ UnitVector(c, i) \in Vectors(c)
      BY <1>0, UnitVectorIs DEF Matrices
    <3>4. \A j \in 1 .. c : v[j] = A[i][j] /\ v[c + j] = UnitVector(c, i)[j]
      BY <2>4
    <3> HIDE DEF v
    <3>5. Left(v, c) = A[i]
      <4> DEFINE l == Left(v, c)
                 x == A[i]
      <4>1. l \in Vectors(c) /\ x \in Vectors(c) /\ \A j \in 1 .. c : l[j] = x[j]
        BY <3>2, <3>3, <3>4
      <4> HIDE DEF l, x
      <4>2. l = x
        BY <1>0, <4>1, VectorsEqual
      <4> QED BY <4>2 DEF l, x
    <3>6. Right(v, c) = UnitVector(c, i)
      BY <1>0, <3>2, <3>3, <3>4, VectorsEqual
    <3>7. Combination(UnitVector(c, i), A) = A[i]
      BY <1>0, CombinationRow
    <3>8. v \in S
      BY <3>1, <3>5, <3>6, <3>7 DEF MadeFrom
    <3> QED BY <3>8 DEF v
  <2> QED BY <2>1, <2>2, <2>5, <2>6 DEF Rows, B
<1>6. ASSUME NEW k \in 0 .. c - 1, k \in T PROVE k + 1 \in T
  <2> DEFINE n == k + 1
             s == h[k]
             t == h[n]
             B == g[k]
             D == g[n]
  <2>1. n \in 1 .. c /\ n - 1 = k /\ k \in 0 .. c /\ n \in 0 .. c
    OBVIOUS
  <2>2. B \in Matrices(c, w) /\ LeftOf(B, c) = s.A /\ Rows(B, c, S)
    BY <1>6
  <2>3. s \in States(c, c) /\ s.rank = n - 1 /\ t.rank = n
    BY <1>1, <1>3, <2>1
  <2>4. t = Reduce(s, n) /\ D = InvertRow(B, n)
    BY <1>1, <1>2, <2>1 DEF Reduces, Inverts
  <2> HIDE DEF n, s, t, B, D, S
  <2>5. D \in Matrices(c, 2 * c) /\ LeftOf(D, c) = t.A /\ Rows(D, c, S)
    BY <1>4, <2>1, <2>2, <2>3, <2>4, InvertStep
  <2> QED BY <2>1, <2>5 DEF n, D, t
<1>7. Good(c)
  <2> HIDE DEF T
  <2>1. 0 .. c \subseteq T /\ c \in 0 .. c
    BY <1>0, <1>5, <1>6, BoundedInduction
  <2>2. c \in T
    BY <2>1
  <2> QED BY <2>2 DEF T
<1> DEFINE B == g[c]
           R == InvertMatrix(A)
<1>8. B \in Matrices(c, w) /\ Rows(B, c, S) /\ \A i \in 1 .. c : B[i] \in Vectors(w)
  BY <1>7 DEF Matrices
<1>9. \A i, j \in 1 .. c : B[i][j] = IF i = j THEN One ELSE Zero
  <2>1. Eliminated(h[c], c, c, c, A)
    BY <1>0, <1>1, ReduceEliminates
  <2>2. \A i \in 1 .. c : UnitColumn(h[c].A, c, i, i)
    BY <1>1, <2>1 DEF Eliminated
  <2>3. \A i, j \in 1 .. c : LeftOf(B, c)[i][j] = B[i][j]
    BY <1>0, <1>8, LeftOfIs
  <2> QED BY <1>7, <2>2, <2>3 DEF UnitColumn
<1>10. R = [i \in 1 .. c |-> SubSeq(B[i], c + 1, 2 * c)]
  <2>1. B # Singular
    <3>1. Len(B) = c /\ Len(Singular) = 0
      BY <1>0, <1>8, LenOf DEF Matrices, Singular
    <3> QED BY <3>1
  <2> QED BY <1>2, <2>1
<1> HIDE DEF B, R
<1>11. ASSUME NEW i \in 1 .. c
       PROVE  R[i] \in Vectors(c) /\ Combination(R[i], A) = UnitVector(c, i)
  <2> DEFINE v == B[i]
             a == c + 1
             b == 2 * c
             r == SubSeq(v, a, b)
  <2>1. v \in Vectors(w) /\ v \in S /\ \A j \in 1 .. c : v[j] = IF i = j THEN One ELSE Zero
    BY <1>8, <1>9 DEF Rows
  <2> HIDE DEF v
  <2>2. /\ Left(v, c) \in Vectors(c) /\ Right(v, c) \in Vectors(c)
        /\ \A j \in 1 .. c : Left(v, c)[j] = v[j] /\ Right(v, c)[j] = v[c + j]
    BY <1>0, <2>1, HalvesAre
  <2>3. Left(v, c) = UnitVector(c, i)
    BY <2>1, <2>2 DEF UnitVector, Vectors
  <2>4. r = Right(v, c)
    <3>1. \A j \in a .. b : v[j] \in Elements
      BY <2>1 DEF Vectors
    <3>2. a \in Int /\ b \in Int /\ a <= b /\ b - a + 1 = c /\ \A j \in 1 .. c : a + j - 1 = c + j
      OBVIOUS
    <3> HIDE DEF a, b
    <3>3. /\ SubSeq(v, a, b) \in Seq(Elements) /\ Len(SubSeq(v, a, b)) = c
          /\ \A j \in 1 .. c : SubSeq(v, a, b)[j] = v[a + j - 1]
      BY <3>1, <3>2, SubSeqProperties
    <3> DEFINE u == SubSeq(v, a, b)
    <3>4. u \in Seq(Elements) /\ Len(u) = c /\ \A j \in 1 .. c : u[j] = v[a + j - 1]
      BY <3>3
    <3> HIDE DEF u
    <3>5. u \in [1 .. c -> Elements]
      BY ONLY <1>0, <3>4, SeqOfLen
    <3>6. \A j \in 1 .. c : u[j] = Right(v, c)[j]
      BY <2>2, <3>2, <3>4
    <3>7. u = Right(v, c)
      BY <1>0, <2>2, <3>5, <3>6, VectorsEqual DEF Vectors
    <3> QED BY <3>7 DEF u
  <2>5. Left(v, c) = Combination(Right(v, c), A)
    BY <2>1 DEF MadeFrom
  <2>6. R[i] = r
    BY <1>10 DEF v
  <2> QED BY <2>2, <2>3, <2>4, <2>5, <2>6
<1>12. R = [i \in 1 .. c |-> R[i]]
  BY <1>10
<1>13. R \in Matrices(c, c)
  BY <1>11, <1>12 DEF Matrices
<1> QED BY <1>11, <1>13 DEF R

-----------------------------------------------------------------------------
(* Products of matrices.                                                    *)

(* To combine combinations is to combine with the product.                  *)
LEMMA CombinationTwice ==
  ASSUME FieldLaws, NEW m \in Nat \ {0}, NEW n \in Nat \ {0}, NEW w \in Nat,
         NEW A \in Matrices(m, n), NEW B \in Matrices(n, w), NEW f \in Vectors(m)
  PROVE  /\ MatrixMultiply(A, B) \in Matrices(m, w)
         /\ Combination(Combination(f, A), B) = Combination(f, MatrixMultiply(A, B))
<1> DEFINE L == [v \in Vectors(n) |-> Combination(v, B)]
<1>1. Linear(L, n, w)
  <2>1. L \in [Vectors(n) -> Vectors(w)]
    BY CombinationIs
  <2>2. ASSUME NEW x \in Vectors(n), NEW y \in Vectors(n)
        PROVE  L[VectorAdd(x, y)] = VectorAdd(L[x], L[y])
    <3>1. VectorAdd(x, y) \in Vectors(n)
      BY VectorAddIs
    <3> QED BY <3>1, CombinationAdd
  <2>3. ASSUME NEW x \in Vectors(n), NEW a \in Elements
        PROVE  L[VectorMul(a, x)] = VectorMul(a, L[x])
    <3>1. VectorMul(a, x) \in Vectors(n)
      BY VectorMulIs
    <3> QED BY <3>1, CombinationScale
  <2> HIDE DEF L
  <2> QED BY <2>1, <2>2, <2>3 DEF Linear
<1>2. Image(L, A) = MatrixMultiply(A, B)
  BY DEF Image, MatrixMultiply, Matrices
<1>3. Combination(f, A) \in Vectors(n)
  BY CombinationIs
<1>4. L[Combination(f, A)] = Combination(Combination(f, A), B)
  BY <1>3
<1> HIDE DEF L
<1>5. L[Combination(f, A)] = Combination(f, Image(L, A)) /\ Image(L, A) \in Matrices(m, w)
  BY <1>1, LinearCombination, ImageIs
<1> QED BY <1>2, <1>4, <1>5

(* Independent rows give a vector in one way at most, ...                   *)
LEMMA IndepUnique ==
  ASSUME FieldLaws, NEW m \in Nat \ {0}, NEW w \in Nat, NEW A \in Matrices(m, w), Indep(A, m, w),
         NEW f \in Vectors(m), NEW g \in Vectors(m), Combination(f, A) = Combination(g, A)
  PROVE  f = g
<1> DEFINE h == VectorMul(MinusOne, g)
           d == VectorAdd(f, h)
           x == Combination(f, A)
           y == VectorMul(MinusOne, x)
<1>1. MinusOne \in Elements
  BY FieldClosed, SubIsAdd
<1>2. h \in Vectors(m) /\ \A k \in 1 .. m : h[k] = Mul(MinusOne, g[k]) /\ g[k] \in Elements
  BY <1>1, VectorMulIs
<1>3. Combination(h, A) = y
  BY <1>1, CombinationScale
<1> HIDE DEF h
<1>4. d \in Vectors(m) /\ \A k \in 1 .. m : d[k] = Add(f[k], h[k]) /\ f[k] \in Elements
  BY <1>2, VectorAddIs
<1>5. Combination(d, A) = VectorAdd(x, y)
  BY <1>2, <1>3, CombinationAdd
<1>6. x \in Vectors(w)
  BY CombinationIs
<1> HIDE DEF d, x
<1>7. VectorAdd(x, y) = ZeroVector(w)
  <2>1. y \in Vectors(w) /\ \A j \in 1 .. w : y[j] = Mul(MinusOne, x[j]) /\ x[j] \in Elements
    BY <1>1, <1>6, VectorMulIs
  <2> HIDE DEF y
  <2> DEFINE z == VectorAdd(x, y)
  <2>2. z \in Vectors(w) /\ \A j \in 1 .. w : z[j] = Add(x[j], y[j])
    BY <1>6, <2>1, VectorAddIs
  <2> HIDE DEF z
  <2>3. ASSUME NEW j \in 1 .. w PROVE z[j] = ZeroVector(w)[j]
    <3>1. z[j] = Sub(x[j], x[j])
      BY <2>1, <2>2, SubIsAdd
    <3>2. ZeroVector(w)[j] = Zero
      BY DEF ZeroVector
    <3> QED BY <2>1, <3>1, <3>2, AddIsGroup
  <2>4. ZeroVector(w) \in Vectors(w)
    BY UnitVectorIs
  <2> QED BY <2>2, <2>3, <2>4, VectorsEqual DEF z
<1>8. d = ZeroVector(m)
  BY <1>4, <1>5, <1>7 DEF Indep
<1>9. ASSUME NEW k \in 1 .. m PROVE f[k] = g[k]
  <2>1. Sub(f[k], g[k]) = Zero
    <3>1. d[k] = Zero
      BY <1>8 DEF ZeroVector
    <3> QED BY <1>2, <1>4, <3>1, SubIsAdd
  <2>2. Add(Sub(f[k], g[k]), g[k]) = f[k] /\ Add(Zero, g[k]) = g[k]
    BY <1>2, <1>4, AddIsGroup
  <2> QED BY <2>1, <2>2
<1> QED BY <1>9, VectorsEqual

(* ... so that an inverse on one side is one on the other.                  *)
LEMMA RightInverse ==
  ASSUME FieldLaws, NEW c \in Nat \ {0}, NEW A \in Matrices(c, c), NEW B \in Matrices(c, c),
         Indep(A, c, c), \A i \in 1 .. c : Combination(B[i], A) = UnitVector(c, i)
  PROVE  \A i \in 1 .. c : Combination(A[i], B) = UnitVector(c, i)
<1> SUFFICES ASSUME NEW i \in 1 .. c PROVE Combination(A[i], B) = UnitVector(c, i)
  OBVIOUS
<1> DEFINE f == Combination(A[i], B)
           prod == MatrixMultiply(B, A)
<1>0. c \in Nat /\ A[i] \in Vectors(c)
  BY DEF Matrices
<1>1. f \in Vectors(c)
  BY <1>0, CombinationIs
<1>2. prod \in Matrices(c, c) /\ Combination(f, A) = Combination(A[i], prod)
  BY <1>0, CombinationTwice
<1>3. \A k, j \in 1 .. c : prod[k][j] = IF k = j THEN One ELSE Zero
  BY DEF MatrixMultiply, Matrices, UnitVector
<1> HIDE DEF f, prod
<1>4. Combination(A[i], prod) = A[i]
  BY <1>0, <1>2, <1>3, CombinationOfUnits
<1>5. Combination(UnitVector(c, i), A) = A[i] /\ UnitVector(c, i) \in Vectors(c)
  BY <1>0, CombinationRow, UnitVectorIs
<1> QED BY <1>0, <1>1, <1>2, <1>4, <1>5, IndepUnique DEF f

-----------------------------------------------------------------------------
(* Rows of powers.                                                          *)
PowersOf(A, x, m, w) ==
  \A k \in 1 .. m : A[k][1] = One /\ \A j \in 1 .. w - 1 : A[k][j + 1] = Mul(A[k][j], x[k])

Distinct(x, m) == \A k, l \in 1 .. m : x[k] = x[l] => k = l

Vandermonde(m) ==
  \A A \in Matrices(m, m), x \in Vectors(m) :
    PowersOf(A, x, m, m) /\ Distinct(x, m) => Indep(A, m, m)

LEMMA VandermondeOne ==
  ASSUME FieldLaws
  PROVE  Vandermonde(1)
<1> SUFFICES ASSUME NEW A \in Matrices(1, 1), NEW x \in Vectors(1), PowersOf(A, x, 1, 1),
                    NEW f \in Vectors(1), Combination(f, A) = ZeroVector(1)
             PROVE  f = ZeroVector(1)
  BY DEF Vandermonde, Indep
<1>1. 1 \in Nat /\ 1 \in 1 .. 1
  OBVIOUS
<1>2. f[1] \in Elements /\ A[1] \in Vectors(1) /\ Combination(f, A) = VectorMul(f[1], A[1])
  BY <1>1, CombinationOfOne
<1>3. Combination(f, A)[1] = Mul(f[1], A[1][1])
  BY <1>1, <1>2, VectorMulIs
<1>4. A[1][1] = One /\ ZeroVector(1)[1] = Zero
  BY <1>1 DEF PowersOf, ZeroVector
<1>5. f[1] = Zero
  BY <1>2, <1>3, <1>4, MulIsMonoid
<1>6. \A k \in 1 .. 1 : f[k] = ZeroVector(1)[k]
  BY <1>4, <1>5
<1>7. ZeroVector(1) \in Vectors(1)
  BY <1>1, UnitVectorIs
<1> QED BY <1>1, <1>6, <1>7, VectorsEqual

(* The entries of one power, those of the next, and their difference after  *)
(* the first are multiplied by the last point.                              *)
LEMMA PowersDifference ==
  ASSUME FieldLaws, NEW f \in Elements, NEW p \in Elements, NEW x \in Elements, NEW z \in Elements
  PROVE  Add(Mul(f, Mul(p, x)), Mul(Mul(MinusOne, z), Mul(f, p))) = Mul(Mul(f, Sub(x, z)), p)
<1> DEFINE a == Mul(f, p)
           y == Mul(MinusOne, z)
<1>1. /\ MinusOne \in Elements /\ a \in Elements /\ y \in Elements /\ Sub(x, z) = Add(x, y)
      /\ Sub(x, z) \in Elements
  BY SubIsAdd, FieldClosed
<1> HIDE DEF a, y
<1>2. Mul(f, Mul(p, x)) = Mul(a, x)
  BY MulIsMonoid DEF a
<1>3. Mul(y, a) = Mul(a, y)
  BY <1>1, MulIsMonoid
<1>4. Mul(a, Add(x, y)) = Add(Mul(a, x), Mul(a, y))
  BY <1>1, MulIsMonoid
<1>5. Mul(Mul(f, Sub(x, z)), p) = Mul(a, Sub(x, z))
  <2> DEFINE d == Sub(x, z)
  <2>1. d \in Elements
    BY <1>1
  <2> HIDE DEF d
  <2>2. Mul(Mul(f, d), p) = Mul(f, Mul(d, p)) /\ Mul(d, p) = Mul(p, d)
        /\ Mul(Mul(f, p), d) = Mul(f, Mul(p, d))
    BY <2>1, MulIsMonoid
  <2> QED BY <2>2 DEF a, d
<1> QED BY <1>1, <1>2, <1>3, <1>4, <1>5 DEF a, y

(* The combination f of n + 1 rows of powers is zero.                       *)
VandermondeCase(n, A, x, f) ==
  /\ A \in Matrices(n + 1, n + 1) /\ x \in Vectors(n + 1) /\ f \in Vectors(n + 1)
  /\ PowersOf(A, x, n + 1, n + 1)
  /\ Combination(f, A) = ZeroVector(n + 1)

(* The first n rows and columns, and factors that combine them to zero.     *)
Corner(A, n) == [k \in 1 .. n |-> [j \in 1 .. n |-> A[k][j]]]
Scaled(f, x, n) == [k \in 1 .. n |-> Mul(f[k], Sub(x[k], x[n + 1]))]

LEMMA CornerIs ==
  ASSUME FieldLaws, NEW n \in Nat \ {0}, NEW A, NEW x, NEW f, VandermondeCase(n, A, x, f)
  PROVE  /\ Corner(A, n) \in Matrices(n, n) /\ Scaled(f, x, n) \in Vectors(n)
         /\ PowersOf(Corner(A, n), x, n, n)
<1>1. \A k \in 1 .. n : k \in 1 .. n + 1
  OBVIOUS
<1>2. \A k \in 1 .. n + 1 : /\ x[k] \in Elements /\ f[k] \in Elements
                            /\ \A j \in 1 .. n + 1 : A[k][j] \in Elements
  BY DEF VandermondeCase, Matrices, Vectors
<1>3. Corner(A, n) \in Matrices(n, n)
  BY <1>1, <1>2 DEF Corner, Matrices, Vectors
<1>4. Scaled(f, x, n) \in Vectors(n)
  <2>1. n + 1 \in 1 .. n + 1
    OBVIOUS
  <2>2. \A k \in 1 .. n : Mul(f[k], Sub(x[k], x[n + 1])) \in Elements
    BY <1>1, <1>2, <2>1, FieldClosed
  <2> QED BY <2>2 DEF Scaled, Vectors
<1>5. ASSUME NEW k \in 1 .. n
      PROVE  Corner(A, n)[k][1] = One
             /\ \A j \in 1 .. n - 1 : Corner(A, n)[k][j + 1] = Mul(Corner(A, n)[k][j], x[k])
  <2>1. 1 \in 1 .. n /\ \A j \in 1 .. n - 1 : j \in 1 .. n /\ j + 1 \in 1 .. n /\ j \in 1 .. (n + 1) - 1
    OBVIOUS
  <2>2. \A j \in 1 .. n : Corner(A, n)[k][j] = A[k][j]
    BY DEF Corner
  <2>3. A[k][1] = One /\ \A j \in 1 .. (n + 1) - 1 : A[k][j + 1] = Mul(A[k][j], x[k])
    BY <1>1 DEF VandermondeCase, PowersOf
  <2> QED BY <2>1, <2>2, <2>3
<1> QED BY <1>3, <1>4, <1>5 DEF PowersOf

LEMMA CornerCombination ==
  ASSUME FieldLaws, NEW n \in Nat \ {0}, NEW A, NEW x, NEW f, VandermondeCase(n, A, x, f),
         NEW j \in 1 .. n
  PROVE  Combination(Scaled(f, x, n), Corner(A, n))[j] = Zero
<1> DEFINE m == n + 1
           B == Corner(A, n)
           g == Scaled(f, x, n)
           z == x[m]
           c == Mul(MinusOne, z)
           s == Terms(f, A, j)
           t == Terms(f, A, j + 1)
           v == [k \in 1 .. m |-> Mul(c, s[k])]
           u == [k \in 1 .. m |-> Add(t[k], v[k])]
           r == [k \in 1 .. n |-> u[k]]
<1>1. m \in Nat \ {0} /\ m \in Nat /\ n \in Nat /\ j \in 1 .. m /\ j + 1 \in 1 .. m /\ m \in 1 .. m
      /\ j \in 1 .. m - 1 /\ m = n + 1
  OBVIOUS
<1>2. /\ A \in Matrices(m, m) /\ x \in Vectors(m) /\ f \in Vectors(m)
      /\ PowersOf(A, x, m, m) /\ Combination(f, A) = ZeroVector(m)
  BY DEF VandermondeCase
<1>3. \A k \in 1 .. m : /\ x[k] \in Elements /\ f[k] \in Elements /\ A[k][j] \in Elements
                        /\ A[k][j + 1] = Mul(A[k][j], x[k])
  <2> HIDE DEF m
  <2>1. \A k \in 1 .. m : /\ x[k] \in Elements /\ f[k] \in Elements /\ A[k][j] \in Elements
    BY <1>1, <1>2 DEF Matrices, Vectors
  <2>2. \A k \in 1 .. m : A[k][j + 1] = Mul(A[k][j], x[k])
    BY <1>1, <1>2 DEF PowersOf
  <2> QED BY <2>1, <2>2
<1>4. z \in Elements /\ c \in Elements /\ MinusOne \in Elements
  <2> HIDE DEF m
  <2>1. z \in Elements
    BY <1>1, <1>3
  <2> QED BY <2>1, SubIsAdd, FieldClosed
<1> HIDE DEF m
<1>5. /\ s \in [1 .. m -> Elements] /\ Total(s) = Zero
      /\ t \in [1 .. m -> Elements] /\ Total(t) = Zero
      /\ \A k \in 1 .. m : s[k] = Mul(f[k], A[k][j]) /\ t[k] = Mul(f[k], A[k][j + 1])
  <2>1. Combination(f, A)[j] = Zero /\ Combination(f, A)[j + 1] = Zero
    BY <1>1, <1>2 DEF ZeroVector
  <2> HIDE DEF s, t
  <2>2. /\ s \in [1 .. m -> Elements] /\ \A k \in 1 .. m : s[k] = Mul(f[k], A[k][j])
        /\ Combination(f, A)[j] = Total(s)
    BY <1>1, <1>2, CombinationIs DEF s
  <2>3. /\ t \in [1 .. m -> Elements] /\ \A k \in 1 .. m : t[k] = Mul(f[k], A[k][j + 1])
        /\ Combination(f, A)[j + 1] = Total(t)
    BY <1>1, <1>2, CombinationIs DEF t
  <2> QED BY <2>1, <2>2, <2>3
<1> HIDE DEF s, t
<1>6. v \in [1 .. m -> Elements] /\ Total(v) = Zero
  <2>1. v \in [1 .. m -> Elements]
    BY <1>4, <1>5, FieldClosed
  <2>2. Total(v) = Mul(c, Total(s))
    <3> HIDE DEF c
    <3> QED BY <1>1, <1>4, <1>5, TotalScale
  <2> QED BY <1>4, <1>5, <2>1, <2>2, MulIsMonoid
<1>7. \A k \in 1 .. m : v[k] = Mul(c, s[k])
  OBVIOUS
<1> HIDE DEF v
<1>8. u \in [1 .. m -> Elements] /\ Total(u) = Zero
  <2>1. u \in [1 .. m -> Elements]
    BY <1>5, <1>6, FieldClosed
  <2>2. Total(u) = Add(Total(t), Total(v))
    <3>1. t \in [1 .. m -> Elements] /\ v \in [1 .. m -> Elements] /\ m \in Nat
      BY <1>1, <1>5, <1>6
    <3>2. Total([k \in 1 .. m |-> Add(t[k], v[k])]) = Add(Total(t), Total(v))
      BY <3>1, TotalAdd
    <3> QED BY <3>2
  <2> QED BY <1>5, <1>6, <2>1, <2>2, FieldClosed, AddIsGroup
<1>9. ASSUME NEW k \in 1 .. m PROVE u[k] = Mul(Mul(f[k], Sub(x[k], z)), A[k][j])
  <2>1. u[k] = Add(Mul(f[k], Mul(A[k][j], x[k])), Mul(Mul(MinusOne, z), Mul(f[k], A[k][j])))
    BY <1>3, <1>5, <1>7
  <2> QED BY <1>3, <1>4, <2>1, PowersDifference
<1>10. u[m] = Zero
  <2>1. Sub(x[m], z) = Zero /\ f[m] \in Elements /\ A[m][j] \in Elements
    BY <1>1, <1>3, <1>4, AddIsGroup
  <2>2. Mul(f[m], Zero) = Zero /\ Mul(Zero, A[m][j]) = Zero
    BY <2>1, MulIsMonoid, FieldClosed
  <2> QED BY <1>1, <1>9, <2>1, <2>2
<1>11. Total(r) = Zero /\ r \in [1 .. n -> Elements]
  <2> HIDE DEF u
  <2>0. r \in [1 .. n -> Elements]
    <3>1. \A k \in 1 .. n : k \in 1 .. m
      BY <1>1
    <3> QED BY <1>8, <3>1
  <2>1. u \in [1 .. n + 1 -> Elements]
    BY <1>1, <1>8
  <2>2. Total(u) = Add(Total([k \in 1 .. n |-> u[k]]), u[n + 1])
    BY <1>1, <2>1, TotalLast
  <2>3. Total(u) = Add(Total(r), Zero)
    BY <1>1, <1>10, <2>2
  <2>4. Total(r) \in Elements
    BY <1>1, <2>0, TotalInField
  <2> QED BY <1>8, <2>0, <2>3, <2>4, AddIsGroup
<1>12. B \in Matrices(n, n) /\ g \in Vectors(n)
  BY CornerIs
<1>13. /\ Terms(g, B, j) \in [1 .. n -> Elements]
       /\ \A k \in 1 .. n : Terms(g, B, j)[k] = Mul(g[k], B[k][j])
       /\ Combination(g, B)[j] = Total(Terms(g, B, j))
  <2> HIDE DEF g, B
  <2> QED BY <1>1, <1>12, CombinationIs
<1>14. Terms(g, B, j) = r
  <2>1. ASSUME NEW k \in 1 .. n PROVE Terms(g, B, j)[k] = r[k]
    <3>1. k \in 1 .. m
      BY <1>1
    <3>2. g[k] = Mul(f[k], Sub(x[k], z)) /\ B[k][j] = A[k][j]
      BY DEF Scaled, Corner, m
    <3>3. Terms(g, B, j)[k] = u[k]
      BY <1>9, <1>13, <3>1, <3>2
    <3> HIDE DEF g, B, u
    <3> QED BY <3>3
  <2> HIDE DEF g, B, r
  <2> QED BY <1>11, <1>13, <2>1
<1> QED BY <1>11, <1>13, <1>14

LEMMA VandermondeNext ==
  ASSUME FieldLaws, NEW n \in Nat \ {0}, Vandermonde(n)
  PROVE  Vandermonde(n + 1)
<1> DEFINE m == n + 1
<1> SUFFICES ASSUME NEW A \in Matrices(m, m), NEW x \in Vectors(m), PowersOf(A, x, m, m), Distinct(x, m),
                    NEW f \in Vectors(m), Combination(f, A) = ZeroVector(m)
             PROVE  f = ZeroVector(m)
  BY DEF Vandermonde, Indep
<1>1. VandermondeCase(n, A, x, f)
  BY DEF VandermondeCase
<1> DEFINE B == Corner(A, n)
           g == Scaled(f, x, n)
           y == [k \in 1 .. n |-> x[k]]
<1>2. B \in Matrices(n, n) /\ g \in Vectors(n) /\ PowersOf(B, x, n, n)
  BY <1>1, CornerIs
<1>3. m \in Nat \ {0} /\ m \in Nat /\ n \in Nat /\ m \in 1 .. m
      /\ \A k \in 1 .. n : k \in 1 .. m /\ k # m
  OBVIOUS
<1>4. y \in Vectors(n) /\ Distinct(y, n) /\ PowersOf(B, y, n, n)
  <2>1. y \in Vectors(n)
    BY <1>3 DEF Vectors
  <2>2. Distinct(y, n)
    BY <1>3 DEF Distinct
  <2>3. PowersOf(B, y, n, n)
    <3> HIDE DEF B
    <3> QED BY <1>2 DEF PowersOf
  <2> QED BY <2>1, <2>2, <2>3
<1>5. Indep(B, n, n)
  <2> HIDE DEF B, y
  <2> QED BY <1>2, <1>4 DEF Vandermonde
<1>6. Combination(g, B) = ZeroVector(n)
  <2>1. \A j \in 1 .. n : Combination(g, B)[j] = Zero
    BY <1>1, CornerCombination
  <2> HIDE DEF g, B
  <2>2. Combination(g, B) \in Vectors(n) /\ ZeroVector(n) \in Vectors(n)
    BY <1>2, <1>3, CombinationIs, UnitVectorIs
  <2>3. \A j \in 1 .. n : ZeroVector(n)[j] = Zero
    BY DEF ZeroVector
  <2> QED BY <1>3, <2>1, <2>2, <2>3, VectorsEqual
<1>7. g = ZeroVector(n)
  BY <1>2, <1>5, <1>6 DEF Indep
<1>8. \A k \in 1 .. m : f[k] \in Elements /\ x[k] \in Elements /\ A[k][1] = One
  BY DEF Vectors, PowersOf
<1> HIDE DEF m
<1>9. ASSUME NEW k \in 1 .. n PROVE f[k] = Zero
  <2> DEFINE z == x[m]
             d == Sub(x[k], z)
  <2>1. k \in 1 .. m /\ k # m /\ x[k] \in Elements /\ z \in Elements /\ f[k] \in Elements
    BY <1>3, <1>8
  <2>2. Mul(f[k], d) = Zero
    <3>1. g[k] = Mul(f[k], d)
      BY DEF Scaled, m
    <3>2. g[k] = Zero
      BY <1>7 DEF ZeroVector
    <3> QED BY <3>1, <3>2
  <2>3. d \in Elements /\ Add(d, z) = x[k] /\ Add(Zero, z) = z
    BY <2>1, FieldClosed, AddIsGroup
  <2>4. x[k] # z
    BY <1>3, <2>1 DEF Distinct
  <2> HIDE DEF z, d
  <2>5. d # Zero
    BY <2>3, <2>4
  <2> QED BY <2>1, <2>2, <2>3, <2>5, NoZeroDivisors
<1>10. \A k \in 1 .. m : k # m => f[k] = Zero
  <2>1. \A k \in 1 .. m : k # m => k \in 1 .. n
    BY DEF m
  <2> QED BY <1>9, <2>1
<1>11. f[m] = Zero
  <2>1. f[m] \in Elements
    BY <1>3, <1>8
  <2>2. Combination(f, A) = VectorMul(f[m], A[m])
    BY <1>3, <1>10, <2>1, CombinationUnit
  <2>3. A[m] \in Vectors(m) /\ 1 \in 1 .. m
    BY <1>3 DEF Matrices
  <2>4. VectorMul(f[m], A[m])[1] = Mul(f[m], A[m][1])
    BY <1>3, <2>1, <2>3, VectorMulIs
  <2>5. ZeroVector(m)[1] = Zero
    BY <2>3 DEF ZeroVector
  <2> QED BY <1>3, <1>8, <2>1, <2>2, <2>4, <2>5, MulIsMonoid
<1>12. \A k \in 1 .. m : f[k] = ZeroVector(m)[k]
  BY <1>10, <1>11 DEF ZeroVector
<1>13. ZeroVector(m) \in Vectors(m)
  BY <1>3, UnitVectorIs
<1> QED BY <1>3, <1>12, <1>13, VectorsEqual

(* Rows of powers of distinct points are independent.                       *)
LEMMA VandermondeIndep ==
  ASSUME FieldLaws, NEW m \in Nat \ {0}
  PROVE  Vandermonde(m)
<1> DEFINE T == {n \in Nat : Vandermonde(n + 1)}
<1>1. 0 \in T
  <2>1. 0 + 1 = 1
    OBVIOUS
  <2> QED BY <2>1, VandermondeOne
<1>2. ASSUME NEW n \in T PROVE n + 1 \in T
  <2>1. n + 1 \in Nat \ {0} /\ n + 1 \in Nat
    OBVIOUS
  <2> QED BY <2>1, VandermondeNext
<1>3. T = Nat
  <2>1. T \in SUBSET Nat
    OBVIOUS
  <2> HIDE DEF T
  <2> QED BY <1>1, <1>2, <2>1, SetInduction
<1>4. m - 1 \in Nat /\ (m - 1) + 1 = m
  OBVIOUS
<1>5. Vandermonde((m - 1) + 1)
  BY <1>3, <1>4
<1> QED BY <1>4, <1>5

-----------------------------------------------------------------------------
(* Elements that may leave room for more in their last byte come out of     *)
(* their bytes followed by as many zeros.                                   *)
Pad(v, w, u) == [j \in 1 .. u |-> IF j <= w THEN v[j] ELSE Zero]
Padded(w, k) == (w * k + Rest(w * k)) \div k

Zeros(k) == [i \in 1 .. k |-> 0]

LEMMA PadIs ==
  ASSUME FieldLaws, NEW w \in Nat, NEW u \in Nat, w <= u, NEW v \in Vectors(w)
  PROVE  /\ Pad(v, w, u) \in Vectors(u)
         /\ \A j \in 1 .. w : j \in 1 .. u /\ Pad(v, w, u)[j] = v[j]
         /\ \A j \in 1 .. u : j > w => Pad(v, w, u)[j] = Zero
<1>1. \A j \in 1 .. u : j <= w => j \in 1 .. w
  OBVIOUS
<1>2. \A j \in 1 .. w : j \in 1 .. u /\ j <= w /\ v[j] \in Elements
  BY DEF Vectors
<1>3. Zero \in Elements
  BY FieldClosed
<1>4. Pad(v, w, u) \in Vectors(u)
  BY <1>1, <1>2, <1>3 DEF Pad, Vectors
<1>5. \A j \in 1 .. u : j > w => ~ (j <= w)
  OBVIOUS
<1> QED BY <1>2, <1>4, <1>5 DEF Pad

LEMMA PadLinear ==
  ASSUME FieldLaws, NEW w \in Nat, NEW u \in Nat, w <= u
  PROVE  Linear([v \in Vectors(w) |-> Pad(v, w, u)], w, u)
<1> DEFINE L == [v \in Vectors(w) |-> Pad(v, w, u)]
<1>1. L \in [Vectors(w) -> Vectors(u)]
  BY PadIs
<1>2. ASSUME NEW x \in Vectors(w), NEW y \in Vectors(w)
      PROVE  L[VectorAdd(x, y)] = VectorAdd(L[x], L[y])
  <2> DEFINE z == VectorAdd(x, y)
             p == Pad(x, w, u)
             q == Pad(y, w, u)
             r == Pad(z, w, u)
  <2>1. z \in Vectors(w) /\ \A j \in 1 .. w : z[j] = Add(x[j], y[j])
    BY VectorAddIs
  <2> HIDE DEF z
  <2>2. /\ p \in Vectors(u) /\ q \in Vectors(u) /\ r \in Vectors(u)
        /\ \A j \in 1 .. w : j \in 1 .. u /\ p[j] = x[j] /\ q[j] = y[j] /\ r[j] = z[j]
        /\ \A j \in 1 .. u : j > w => p[j] = Zero /\ q[j] = Zero /\ r[j] = Zero
    BY <2>1, PadIs
  <2> HIDE DEF p, q, r
  <2>3. VectorAdd(p, q) \in Vectors(u) /\ \A j \in 1 .. u : VectorAdd(p, q)[j] = Add(p[j], q[j])
    BY <2>2, VectorAddIs
  <2>4. Add(Zero, Zero) = Zero
    BY FieldClosed, AddIsGroup
  <2>5. ASSUME NEW j \in 1 .. u PROVE r[j] = VectorAdd(p, q)[j]
    <3>1. CASE j <= w
      <4>1. j \in 1 .. w
        BY <3>1
      <4> QED BY <2>1, <2>2, <2>3, <4>1
    <3>2. CASE j > w
      BY <2>2, <2>3, <2>4, <3>2
    <3> QED BY <3>1, <3>2
  <2>6. r = VectorAdd(p, q)
    BY <2>2, <2>3, <2>5, VectorsEqual
  <2> QED BY <2>1, <2>6 DEF p, q, r, z
<1>3. ASSUME NEW x \in Vectors(w), NEW a \in Elements
      PROVE  L[VectorMul(a, x)] = VectorMul(a, L[x])
  <2> DEFINE z == VectorMul(a, x)
             p == Pad(x, w, u)
             r == Pad(z, w, u)
  <2>1. z \in Vectors(w) /\ \A j \in 1 .. w : z[j] = Mul(a, x[j])
    BY VectorMulIs
  <2> HIDE DEF z
  <2>2. /\ p \in Vectors(u) /\ r \in Vectors(u)
        /\ \A j \in 1 .. w : j \in 1 .. u /\ p[j] = x[j] /\ r[j] = z[j]
        /\ \A j \in 1 .. u : j > w => p[j] = Zero /\ r[j] = Zero
    BY <2>1, PadIs
  <2> HIDE DEF p, r
  <2>3. VectorMul(a, p) \in Vectors(u) /\ \A j \in 1 .. u : VectorMul(a, p)[j] = Mul(a, p[j])
    BY <2>2, VectorMulIs
  <2>4. Mul(a, Zero) = Zero
    BY MulIsMonoid, FieldClosed
  <2>5. ASSUME NEW j \in 1 .. u PROVE r[j] = VectorMul(a, p)[j]
    <3>1. CASE j <= w
      <4>1. j \in 1 .. w
        BY <3>1
      <4> QED BY <2>1, <2>2, <2>3, <4>1
    <3>2. CASE j > w
      BY <2>2, <2>3, <2>4, <3>2
    <3> QED BY <3>1, <3>2
  <2>6. r = VectorMul(a, p)
    BY <2>2, <2>3, <2>5, VectorsEqual
  <2> QED BY <2>1, <2>6 DEF p, r, z
<1> HIDE DEF L
<1>4. Linear(L, w, u)
  BY <1>1, <1>2, <1>3 DEF Linear
<1> QED BY <1>4 DEF L

LEMMA PaddedIs ==
  ASSUME PackingLaws, NEW w \in Nat \ {0}, NEW k \in Nat \ {0}
  PROVE  /\ Padded(w, k) \in Nat /\ w <= Padded(w, k)
         /\ w * k + Rest(w * k) \in Nat
         /\ Padded(w, k) * k <= w * k + Rest(w * k)
         /\ w * k + Rest(w * k) < Padded(w, k) * k + k
<1> DEFINE p == w * k
           q == Rest(p)
           n == p + q
           u == n \div k
           r == n % k
<1>1. p \in Nat
  OBVIOUS
<1>2. q \in Nat
  BY <1>1, RestIs
<1> HIDE DEF p, q
<1>3. n \in Nat
  BY <1>1, <1>2
<1> HIDE DEF n
<1>4. r \in 0 .. k - 1 /\ u \in Int /\ n = k * u + r
  BY <1>3, ModOf
<1> HIDE DEF r, u
<1>5. k * u \in Int /\ k * u = u * k
  BY <1>4
<1>6. u \in Nat
  <2>1. CASE u <= -1
    <3>1. k * u <= -k
      <4>1. k * (-1 - u) >= 0
        <5>1. -1 - u \in Nat
          BY <1>4, <2>1
        <5> QED BY <5>1
      <4>2. k * (-1 - u) = -k - k * u
        BY <1>4
      <4> QED BY <1>5, <4>1, <4>2
    <3> QED BY <1>3, <1>4, <1>5, <3>1
  <2> QED BY <1>4, <2>1
<1>7. w <= u
  <2>1. CASE w >= u + 1
    <3>1. (w - u - 1) * k >= 0
      <4>1. w - u - 1 \in Nat
        BY <1>6, <2>1
      <4> QED BY <4>1
    <3>2. (w - u - 1) * k = w * k - u * k - k
      BY <1>6
    <3>3. p >= k * u + k
      BY <1>5, <3>1, <3>2 DEF p
    <3> QED BY <1>1, <1>2, <1>4, <1>5, <3>3 DEF n
  <2> QED BY <1>6, <2>1
<1>8. u * k <= n /\ n < u * k + k
  BY <1>4, <1>5
<1> QED BY <1>3, <1>6, <1>7, <1>8 DEF u, n, q, p, Padded

LEMMA SplitOfPackPadded ==
  ASSUME FieldLaws, PackingLaws, NEW w \in Nat \ {0}, NEW k \in Nat \ {0}, NEW v \in Vectors(w),
         Wide(k), FromBits(Zeros(k)) = Zero
  PROVE  SplitBitsToFieldElements(FieldElementsToBytes(v, k), k) = Pad(v, w, Padded(w, k))
<1> DEFINE p == w * k
           q == Rest(p)
           n == p + q
           x == Padded(w, k)
           d == FieldElementsToBytes(v, k)
           u == SplitBitsToFieldElements(d, k)
           a == Pad(v, w, x)
<1>1. /\ x \in Nat /\ w <= x /\ n \in Nat /\ x * k <= n /\ n < x * k + k
  BY PaddedIs
<1>2. p \in Nat /\ q \in Nat
  <2>1. p \in Nat
    OBVIOUS
  <2> QED BY <2>1, RestIs
<1>3. /\ d \in BitStrings(n)
      /\ \A j \in 1 .. w, i \in 1 .. k : d[Position(j, i, k)] = Bits(v[j], k)[i]
      /\ \A i \in 1 .. q : d[p + i] = 0
  BY PackIs
<1> HIDE DEF n, d, q, x
<1>4. u \in Vectors(x) /\ \A j \in 1 .. x : u[j] = FromBits(Part(d, j, k))
  BY <1>1, <1>3, SplitIs
<1>5. /\ a \in Vectors(x)
      /\ \A j \in 1 .. w : j \in 1 .. x /\ a[j] = v[j]
      /\ \A j \in 1 .. x : j > w => a[j] = Zero
  BY <1>1, PadIs
<1>6. ASSUME NEW j \in 1 .. x
      PROVE  Part(d, j, k) \in BitStrings(k)
             /\ \A i \in 1 .. k : Part(d, j, k)[i] = d[Position(j, i, k)]
  <2>1. IsPart(Part(d, j, k), d, j, k)
    BY <1>1, <1>3, PartIs
  <2> QED BY <2>1 DEF IsPart
<1> HIDE DEF u, a
<1>7. ASSUME NEW j \in 1 .. x PROVE u[j] = a[j]
  <2> DEFINE s == Part(d, j, k)
  <2>1. s \in BitStrings(k) /\ \A i \in 1 .. k : s[i] = d[Position(j, i, k)]
    BY <1>6
  <2> HIDE DEF s
  <2>2. CASE j <= w
    <3> DEFINE t == Bits(v[j], k)
    <3>1. j \in 1 .. w
      BY <2>2
    <3>2. v[j] \in Elements
      BY <3>1 DEF Vectors
    <3>3. t \in BitStrings(k)
      BY <3>2 DEF PackingLaws
    <3>4. \A i \in 1 .. k : s[i] = t[i]
      BY <1>3, <2>1, <3>1
    <3> HIDE DEF t
    <3>5. s = t
      BY <2>1, <3>3, <3>4, BitStringsEqual
    <3>6. FromBits(t) = v[j]
      BY <3>2 DEF Wide, t
    <3>7. u[j] = FromBits(s)
      BY <1>4 DEF s
    <3> QED BY <1>5, <3>1, <3>5, <3>6, <3>7
  <2>3. CASE j > w
    <3>1. ASSUME NEW i \in 1 .. k PROVE s[i] = 0
      <4> DEFINE y == Position(j, i, k)
      <4>1. y \in 1 .. x * k
        BY <1>1, PositionOf
      <4>2. y > p
        <5>1. (j - 1 - w) * k >= 0
          <6>1. j - 1 - w \in Nat
            BY <2>3
          <6> QED BY <6>1
        <5>2. (j - 1 - w) * k = (j - 1) * k - p
          OBVIOUS
        <5>3. (j - 1) * k \in Int /\ i \in Nat \ {0}
          OBVIOUS
        <5>4. y = (j - 1) * k + i
          BY DEF Position
        <5> HIDE DEF y, p
        <5> QED BY <1>2, <5>1, <5>2, <5>3, <5>4
      <4>3. y - p \in 1 .. q /\ p + (y - p) = y
        <5>1. x * k \in Nat
          BY <1>1
        <5> HIDE DEF y, p
        <5> QED BY <1>1, <1>2, <4>1, <4>2, <5>1 DEF n
      <4> HIDE DEF y, p
      <4>4. d[y] = 0
        BY <1>3, <4>3
      <4> QED BY <2>1, <4>4 DEF y
    <3>2. s = Zeros(k)
      <4>1. Zeros(k) \in BitStrings(k) /\ \A i \in 1 .. k : Zeros(k)[i] = 0
        BY DEF Zeros, BitStrings
      <4> QED BY <2>1, <3>1, <4>1, BitStringsEqual
    <3>3. u[j] = FromBits(s)
      BY <1>4 DEF s
    <3> QED BY <1>5, <2>3, <3>2, <3>3
  <2> QED BY <1>1, <2>2, <2>3
<1>8. u = a
  BY <1>1, <1>4, <1>5, <1>7, VectorsEqual
<1> QED BY <1>8 DEF u, a, d, x

(* Bits come out of the elements they were made into, whatever follows.     *)
LEMMA CutOfPack ==
  ASSUME PackingLaws, NEW w \in Nat \ {0}, NEW u \in Nat, w <= u, NEW k \in Nat \ {0},
         NEW v \in Vectors(u), NEW s \in BitStrings(w * k), Narrow(k),
         \A j \in 1 .. w : v[j] = FromBits(Part(s, j, k))
  PROVE  SubSeq(FieldElementsToBytes(v, k), 1, w * k) = s
<1> DEFINE p == w * k
           d == FieldElementsToBytes(v, k)
           n == u * k + Rest(u * k)
           cut == SubSeq(d, 1, p)
<1>1. u \in Nat \ {0} /\ p \in Nat \ {0} /\ p <= u * k /\ u * k \in Nat
  <2>1. u \in Nat \ {0}
    OBVIOUS
  <2>2. (u - w) * k >= 0 /\ (u - w) * k = u * k - w * k
    <3>1. u - w \in Nat
      OBVIOUS
    <3> QED BY <3>1
  <2>3. (w - 1) * k >= 0 /\ (w - 1) * k = w * k - k
    <3>1. w - 1 \in Nat
      OBVIOUS
    <3> QED BY <3>1
  <2>4. w * k \in Int /\ u * k \in Int
    OBVIOUS
  <2> QED BY <2>1, <2>2, <2>3, <2>4
<1>2. n \in Nat /\ p <= n
  <2>1. Rest(u * k) \in Nat
    BY <1>1, RestIs
  <2> HIDE DEF p
  <2> QED BY <1>1, <2>1
<1>3. d \in BitStrings(n) /\ \A j \in 1 .. u, i \in 1 .. k : d[Position(j, i, k)] = Bits(v[j], k)[i]
  BY <1>1, PackIs
<1>4. s \in BitStrings(p)
  OBVIOUS
<1> HIDE DEF d, n
<1>5. ASSUME NEW x \in 1 .. p PROVE d[x] = s[x]
  <2>1. PICK j \in 1 .. w, i \in 1 .. k : x = Position(j, i, k)
    <3>1. InBlock(x, w, k)
      BY PositionIn
    <3> QED BY <3>1 DEF InBlock
  <2> DEFINE part == Part(s, j, k)
  <2>2. part \in BitStrings(k) /\ part[i] = s[Position(j, i, k)]
    <3>1. p <= p
      BY <1>1
    <3>2. IsPart(part, s, j, k)
      BY <1>1, <1>4, <3>1, PartIs
    <3> QED BY <2>1, <3>2 DEF IsPart
  <2> HIDE DEF part
  <2>3. Bits(FromBits(part), k) = part
    BY <2>2 DEF Narrow
  <2>4. j \in 1 .. u
    OBVIOUS
  <2> QED BY <1>3, <2>1, <2>2, <2>3, <2>4 DEF part
<1> HIDE DEF p
<1>6. cut \in BitStrings(p) /\ \A x \in 1 .. p : cut[x] = d[x]
  <2>1. \A i \in 1 .. p : d[i] \in {0, 1}
    BY <1>1, <1>2, <1>3 DEF BitStrings
  <2>2. /\ cut \in Seq({0, 1}) /\ Len(cut) = p - 1 + 1
        /\ \A i \in 1 .. p - 1 + 1 : cut[i] = d[1 + i - 1]
    BY <1>1, <2>1, SubSeqProperties
  <2>3. p - 1 + 1 = p /\ \A i \in 1 .. p : 1 + i - 1 = i
    BY <1>1
  <2> HIDE DEF cut
  <2>4. Len(cut) = p /\ cut \in Seq({0, 1})
    BY <2>2, <2>3
  <2>5. cut \in [1 .. p -> {0, 1}]
    BY ONLY <2>4, <1>1, SeqOfLen
  <2> QED BY <2>2, <2>3, <2>5 DEF BitStrings
<1> HIDE DEF cut
<1>7. cut = s
  BY <1>1, <1>4, <1>5, <1>6, BitStringsEqual
<1> QED BY <1>7 DEF cut, p, d

(* Bits are the concatenation of their parts.                               *)
LEMMA JoinParts ==
  ASSUME NEW c \in Nat \ {0}, NEW n \in Nat \ {0}, NEW s \in BitStrings(c * n)
  PROVE  FlattenSeq([i \in 1 .. c |-> Part(s, i, n)]) = s
<1> DEFINE b == [i \in 1 .. c |-> Part(s, i, n)]
           p == c * n
           f == FlattenSeq(b)
<1>1. p \in Nat /\ p <= p
  <2>1. p \in Nat
    OBVIOUS
  <2> HIDE DEF p
  <2> QED BY <2>1
<1>2. ASSUME NEW i \in 1 .. c PROVE IsPart(b[i], s, i, n)
  BY <1>1, PartIs
<1>3. b \in [1 .. c -> [1 .. n -> {0, 1}]]
  <2>1. DOMAIN b = 1 .. c /\ b = [i \in 1 .. c |-> b[i]]
    OBVIOUS
  <2> HIDE DEF b
  <2> QED BY <1>2, <2>1 DEF IsPart, BitStrings
<1> HIDE DEF b
<1>4. f \in [1 .. p -> {0, 1}] /\ Laid(f, b, c, n)
  BY <1>3, FlattenBlocks
<1> HIDE DEF f
<1>5. ASSUME NEW x \in 1 .. p PROVE f[x] = s[x]
  <2>1. PICK j \in 1 .. c, i \in 1 .. n : x = Position(j, i, n)
    <3>1. InBlock(x, c, n)
      BY PositionIn
    <3> QED BY <3>1 DEF InBlock
  <2>2. f[x] = b[j][i]
    BY <1>4, <2>1 DEF Laid
  <2>3. b[j][i] = s[x]
    BY <1>2, <2>1 DEF IsPart
  <2> QED BY <2>2, <2>3
<1>6. f = s
  <2>1. f \in BitStrings(p) /\ s \in BitStrings(p)
    BY <1>4 DEF BitStrings
  <2> HIDE DEF p
  <2> QED BY <1>1, <1>5, <2>1, BitStringsEqual
<1> QED BY <1>6 DEF f, b

LEMMA CombinationOfZero ==
  ASSUME FieldLaws, NEW m \in Nat \ {0}, NEW w \in Nat, NEW A \in Matrices(m, w)
  PROVE  Combination(ZeroVector(m), A) = ZeroVector(w)
<1> DEFINE f == ZeroVector(m)
           x == Combination(f, A)
<1>1. m \in Nat /\ f \in Vectors(m) /\ ZeroVector(w) \in Vectors(w) /\ \A k \in 1 .. m : f[k] = Zero
  BY UnitVectorIs DEF ZeroVector
<1> HIDE DEF f
<1>2. x \in Vectors(w)
  BY <1>1, CombinationIs
<1>3. ASSUME NEW j \in 1 .. w PROVE x[j] = ZeroVector(w)[j]
  <2> DEFINE s == Terms(f, A, j)
  <2>1. /\ s \in [1 .. m -> Elements] /\ \A k \in 1 .. m : s[k] = Mul(f[k], A[k][j])
        /\ x[j] = Total(s)
    BY <1>1, CombinationIs
  <2> HIDE DEF s
  <2>2. \A k \in 1 .. m : A[k][j] \in Elements
    BY DEF Matrices, Vectors
  <2>3. ASSUME NEW k \in 1 .. m PROVE s[k] = Zero
    <3>1. Mul(Zero, A[k][j]) = Zero
      BY <2>2, FieldClosed, MulIsMonoid
    <3> QED BY <1>1, <2>1, <3>1
  <2>4. Total(s) = Zero
    BY <1>1, <2>1, <2>3, TotalOfZeros
  <2> QED BY <2>1, <2>4 DEF ZeroVector
<1> HIDE DEF x
<1>4. x = ZeroVector(w)
  BY <1>1, <1>2, <1>3, VectorsEqual
<1> QED BY <1>4 DEF x, f

(* Independent rows times a matrix that has an inverse are independent.     *)
LEMMA ProductIndep ==
  ASSUME FieldLaws, NEW c \in Nat \ {0}, NEW A \in Matrices(c, c), NEW B \in Matrices(c, c),
         NEW C \in Matrices(c, c), Indep(A, c, c),
         \A i \in 1 .. c : Combination(B[i], C) = UnitVector(c, i)
  PROVE  Indep(MatrixMultiply(A, B), c, c)
<1> SUFFICES ASSUME NEW f \in Vectors(c), Combination(f, MatrixMultiply(A, B)) = ZeroVector(c)
             PROVE  f = ZeroVector(c)
  BY DEF Indep
<1> DEFINE g == Combination(f, A)
           prod == MatrixMultiply(B, C)
<1>1. g \in Vectors(c) /\ c \in Nat
  BY CombinationIs
<1>2. Combination(g, B) = ZeroVector(c)
  BY <1>1, CombinationTwice
<1> HIDE DEF g
<1>3. prod \in Matrices(c, c) /\ Combination(Combination(g, B), C) = Combination(g, prod)
  BY <1>1, CombinationTwice
<1>4. \A k, j \in 1 .. c : prod[k][j] = IF k = j THEN One ELSE Zero
  BY DEF MatrixMultiply, Matrices, UnitVector
<1> HIDE DEF prod
<1>5. Combination(g, prod) = g
  BY <1>1, <1>3, <1>4, CombinationOfUnits
<1>6. Combination(ZeroVector(c), C) = ZeroVector(c)
  BY <1>1, CombinationOfZero
<1>7. g = ZeroVector(c)
  BY <1>2, <1>3, <1>5, <1>6
<1> QED BY <1>7 DEF g, Indep
=============================================================================
