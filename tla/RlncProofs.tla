------------------------------- MODULE RlncProofs -------------------------------
(***************************************************************************)
(* Proofs about the RLNC encoders of Rlnc.tla: what a node stores and      *)
(* what travels is genuine, and what follows from that for every prime     *)
(* field, every packing that the configuration's checks accept and every   *)
(* number of chunks and nodes.                                             *)
(*                                                                         *)
(* The sections go from the operators to the specification: that the      *)
(* integers modulo the prime are a field, and what its elements' bits are, *)
(* which is all that the lemmas of FieldMatrixProofs.tla on sums, vectors, *)
(* elimination, inversion and packing ask for; commitments. Then           *)
(* GenuineInv, the inductive invariant, and the theorems about             *)
(* independence, knowledge, refused chunks and help; and last the message  *)
(* that a node decodes, which is the published one.                        *)
(***************************************************************************)
EXTENDS Rlnc, SequenceTheorems, FiniteSetTheorems, TLAPS

(* All the later lemmas need of the prime, except that it has no divisors.  *)
LEMMA PIsPositive == P \in Nat \ {0} /\ P > 1
BY PrimeAssumption

(* The field *)

(* Sums, differences and products of elements are elements.                 *)
LEMMA PrimeClosed ==
  /\ Zero \in Elements /\ One \in Elements /\ Zero # One
  /\ \A a, b \in Elements : Add(a, b) \in Elements /\ Sub(a, b) \in Elements /\ Mul(a, b) \in Elements
<1>1. Zero \in Elements /\ One \in Elements /\ Zero # One
  BY PIsPositive DEF Zero, One, Elements
<1>2. ASSUME NEW x \in Int PROVE x % P \in Elements
  BY PIsPositive, ModOf DEF Elements
<1>3. ASSUME NEW a \in Elements, NEW b \in Elements
      PROVE  a + b \in Int /\ a + P - b \in Int /\ a * b \in Int
  BY PIsPositive DEF Elements
<1> QED BY <1>1, <1>2, <1>3 DEF Add, Sub, Mul

(* Addition modulo P, as fieldElement.Add and Sub compute it, is that of a  *)
(* commutative group.                                                       *)
LEMMA PrimeAdd ==
  ASSUME NEW a \in Elements, NEW b \in Elements, NEW c \in Elements
  PROVE  /\ Add(a, b) = Add(b, a)
         /\ Add(Add(a, b), c) = Add(a, Add(b, c))
         /\ Add(a, Zero) = a /\ Add(Zero, a) = a
         /\ Sub(a, a) = Zero
         /\ Add(Sub(a, b), b) = a
<1>0. P \in Nat \ {0} /\ P > 1 /\ a \in Nat /\ b \in Nat /\ c \in Nat /\ a < P /\ b < P /\ c < P
  BY PIsPositive DEF Elements
<1>1. a + b = b + a
  BY <1>0
<1>2. Add(Add(a, b), c) = (a + b + c) % P
  <2>1. a + b \in Int /\ c \in Int
    BY <1>0
  <2>2. (((a + b) % P) + c) % P = ((a + b) + c) % P
    BY <1>0, <2>1, ModInside
  <2> QED BY <2>2 DEF Add
<1>3. Add(a, Add(b, c)) = (a + b + c) % P
  <2>1. b + c \in Int /\ a \in Int
    BY <1>0
  <2>2. (((b + c) % P) + a) % P = ((b + c) + a) % P
    BY <1>0, <2>1, ModInside
  <2>3. (b + c) % P \in Int
    BY <1>0, <2>1, ModOf
  <2>4. ((b + c) % P) + a = a + ((b + c) % P) /\ (b + c) + a = a + b + c
    BY <1>0, <2>3
  <2> QED BY <2>2, <2>4 DEF Add
<1>4. a % P = a
  <2>1. (P * 0 + a) % P = a
    BY <1>0, ModUnique
  <2>2. P * 0 + a = a
    BY <1>0
  <2> QED BY <2>1, <2>2
<1>5. a + 0 = a /\ 0 + a = a
  BY <1>0
<1>6. Sub(a, a) = Zero
  <2>1. (P * 1 + 0) % P = 0
    BY <1>0, ModUnique
  <2>2. a + P - a = P * 1 + 0
    BY <1>0
  <2> QED BY <2>1, <2>2 DEF Sub, Zero
<1>7. Add(Sub(a, b), b) = a
  <2>1. a + P - b \in Int /\ (a + P - b) + b = a + P * 1
    BY <1>0
  <2>2. (((a + P - b) % P) + b) % P = ((a + P - b) + b) % P
    <3> DEFINE x == a + P - b
    <3>1. x \in Int /\ b \in Int
      BY <1>0, <2>1
    <3> HIDE DEF x
    <3>2. ((x % P) + b) % P = (x + b) % P
      BY <1>0, <3>1, ModInside
    <3> QED BY <3>2 DEF x
  <2>3. (a + P * 1) % P = a % P
    <3>1. a \in Int /\ 1 \in Int
      BY <1>0
    <3> QED BY <1>0, <3>1, ModShift
  <2> QED BY <1>4, <2>1, <2>2, <2>3 DEF Add, Sub
<1> QED BY <1>1, <1>2, <1>3, <1>4, <1>5, <1>6, <1>7 DEF Add, Zero

(* Multiplication modulo P is commutative, associative, and distributes over*)
(* addition.                                                                *)
LEMMA PrimeMul ==
  ASSUME NEW a \in Elements, NEW b \in Elements, NEW c \in Elements
  PROVE  /\ Mul(a, b) = Mul(b, a)
         /\ Mul(Mul(a, b), c) = Mul(a, Mul(b, c))
         /\ Mul(a, One) = a /\ Mul(One, a) = a
         /\ Mul(a, Zero) = Zero /\ Mul(Zero, a) = Zero
         /\ Mul(a, Add(b, c)) = Add(Mul(a, b), Mul(a, c))
<1>0. P \in Nat \ {0} /\ P > 1 /\ a \in Nat /\ b \in Nat /\ c \in Nat /\ a < P /\ b < P /\ c < P
  BY PIsPositive DEF Elements
<1>1. a * b = b * a /\ a * 1 = a /\ 1 * a = a /\ a * 0 = 0 /\ 0 * a = 0
  BY <1>0
<1>2. Mul(Mul(a, b), c) = Mul(a, Mul(b, c))
  <2>1. a * b \in Int /\ c \in Int /\ b * c \in Int /\ a \in Int
    BY <1>0
  <2>2. (((a * b) % P) * c) % P = ((a * b) * c) % P
    BY <1>0, <2>1, ModInside
  <2>3. (((b * c) % P) * a) % P = ((b * c) * a) % P
    BY <1>0, <2>1, ModInside
  <2>4. (b * c) % P \in Int
    BY <1>0, <2>1, ModOf
  <2>5. ((b * c) % P) * a = a * ((b * c) % P)
    BY <1>0, <2>4
  <2>6. (a * b) * c = (b * c) * a
    BY <1>0
  <2> QED BY <2>2, <2>3, <2>5, <2>6 DEF Mul
<1>3. a % P = a /\ 0 % P = 0
  <2>1. (P * 0 + a) % P = a /\ (P * 0 + 0) % P = 0
    BY <1>0, ModUnique
  <2>2. P * 0 + a = a /\ P * 0 + 0 = 0
    BY <1>0
  <2> QED BY <2>1, <2>2
<1>4. Mul(a, Add(b, c)) = Add(Mul(a, b), Mul(a, c))
  <2>1. b + c \in Int /\ a \in Int /\ a * b \in Int /\ a * c \in Int
    BY <1>0
  <2>2. (((b + c) % P) * a) % P = ((b + c) * a) % P
    BY <1>0, <2>1, ModInside
  <2>3. (b + c) % P \in Int /\ (a * b) % P \in Int /\ (a * c) % P \in Int
    BY <1>0, <2>1, ModOf
  <2>4. ((b + c) % P) * a = a * ((b + c) % P)
    BY <1>0, <2>3
  <2>5. (((a * b) % P) + ((a * c) % P)) % P = ((a * b) + ((a * c) % P)) % P
    BY <1>0, <2>1, <2>3, ModInside
  <2>6. (((a * c) % P) + (a * b)) % P = ((a * c) + (a * b)) % P
    BY <1>0, <2>1, ModInside
  <2>7. ((a * c) % P) + (a * b) = (a * b) + ((a * c) % P)
    BY <2>1, <2>3
  <2>8. (b + c) * a = (a * c) + (a * b)
    BY <1>0
  <2> QED BY <2>2, <2>4, <2>5, <2>6, <2>7, <2>8 DEF Mul, Add
<1> QED BY <1>1, <1>2, <1>3, <1>4 DEF Mul, Zero, One

(* That P is prime gives inverses: the least positive number that is a      *)
(* multiple of the element modulo P divides P.                              *)
LEMMA PrimeInverse ==
  ASSUME NEW a \in Elements, a # Zero
  PROVE  Inv(a) \in Elements /\ Mul(a, Inv(a)) = One
<1>0. P \in Nat \ {0} /\ P > 1 /\ a \in Nat /\ a < P /\ a > 0
  BY PIsPositive DEF Elements, Zero
<1> DEFINE S == {d \in Nat : d > 0 /\ \E k, l \in Int : d = a * k + P * l}
<1>1. a \in S
  <2>1. a = a * 1 + P * 0
    BY <1>0
  <2> QED BY <1>0, <2>1
<1>2. PICK d \in S : \A m \in S : d <= m
  BY <1>1, LeastMember
<1>3. PICK k \in Int, l \in Int : d = a * k + P * l
  BY <1>2
<1>4. d \in Nat \ {0}
  BY <1>2
<1> DEFINE Multiples == {x \in Int : \E u, v \in Int : x = a * u + P * v}
<1>5. ASSUME NEW x \in Multiples PROVE x % d = 0
  <2>0. PICK u \in Int, v \in Int : x = a * u + P * v
    OBVIOUS
  <2> DEFINE r == x % d
             q == x \div d
  <2>1. r \in 0 .. d - 1 /\ q \in Int /\ x = d * q + r
    BY <1>4, ModOf
  <2> HIDE DEF r, q
  <2>2. r = a * (u - k * q) + P * (v - l * q)
    <3>1. d * q = a * (k * q) + P * (l * q)
      BY <1>0, <1>3, <2>1
    <3>2. r = (a * u + P * v) - (a * (k * q) + P * (l * q))
      BY <1>4, <2>0, <2>1, <3>1
    <3> DEFINE kq == k * q
               lq == l * q
    <3>3. kq \in Int /\ lq \in Int /\ r = (a * u + P * v) - (a * kq + P * lq)
      BY <2>1, <3>2
    <3> HIDE DEF kq, lq
    <3>4. r = a * (u - kq) + P * (v - lq)
      BY <1>0, <3>3
    <3> QED BY <3>4 DEF kq, lq
  <2>3. CASE r = 0
    BY <2>3 DEF r
  <2>4. CASE r > 0
    <3>1. u - k * q \in Int /\ v - l * q \in Int /\ r \in Nat
      BY <2>1
    <3>2. r \in S
      BY <2>2, <2>4, <3>1
    <3>3. d <= r
      BY <1>2, <3>2
    <3> QED BY <1>4, <2>1, <3>3
  <2> QED BY <2>1, <2>3, <2>4
<1>6. a % d = 0 /\ P % d = 0
  <2>1. a \in Int /\ P \in Int /\ a = a * 1 + P * 0 /\ P = a * 0 + P * 1
    BY <1>0
  <2>2. a \in Multiples
    <3>1. \E u, v \in Int : a = a * u + P * v
      <4> WITNESS 1 \in Int, 0 \in Int
      <4> QED BY <2>1
    <3> QED BY <2>1, <3>1
  <2>3. P \in Multiples
    <3>1. \E u, v \in Int : P = a * u + P * v
      <4> WITNESS 0 \in Int, 1 \in Int
      <4> QED BY <2>1
    <3> QED BY <2>1, <3>1
  <2> HIDE DEF Multiples
  <2> QED BY <1>5, <2>2, <2>3
<1>7. d = 1
  <2>1. d <= a
    BY <1>1, <1>2
  <2>2. CASE d >= 2
    <3>1. d \in 2 .. P - 1
      BY <1>0, <1>4, <2>1, <2>2
    <3> QED BY <1>6, <3>1, PrimeAssumption
  <2> QED BY <1>4, <2>2
<1> DEFINE b == k % P
<1>8. b \in Elements
  BY <1>0, ModOf DEF Elements
<1>9. Mul(a, b) = One
  <2>1. ((k % P) * a) % P = (k * a) % P
    <3>1. k \in Int /\ a \in Int
      BY <1>0
    <3> QED BY <1>0, <3>1, ModInside
  <2>2. (P * (-l) + 1) % P = 1
    <3> DEFINE m == -l
    <3>1. m \in Int
      OBVIOUS
    <3> HIDE DEF m
    <3>2. (P * m + 1) % P = 1
      BY <1>0, <3>1, ModUnique
    <3> QED BY <3>2 DEF m
  <2>3. k * a = P * (-l) + 1
    <3>1. k * a = 1 - P * l
      BY <1>0, <1>3, <1>7
    <3> QED BY <1>0, <3>1
  <2>4. k % P \in Int
    BY <1>0, ModOf
  <2>5. (k % P) * a = a * (k % P)
    BY <1>0, <2>4
  <2> QED BY <2>1, <2>2, <2>3, <2>5 DEF Mul, One
<1> HIDE DEF b
<1> QED BY <1>8, <1>9 DEF Inv

(* So the integers modulo P are a field.                                    *)
LEMMA PrimeIsField == FieldLaws
<1>1. \A a, b, c \in Elements :
        /\ Add(a, b) = Add(b, a)
        /\ Add(Add(a, b), c) = Add(a, Add(b, c))
        /\ Add(a, Zero) = a /\ Add(Zero, a) = a
        /\ Sub(a, a) = Zero
        /\ Add(Sub(a, b), b) = a
  BY PrimeAdd
<1>2. \A a, b, c \in Elements :
        /\ Mul(a, b) = Mul(b, a)
        /\ Mul(Mul(a, b), c) = Mul(a, Mul(b, c))
        /\ Mul(a, One) = a /\ Mul(One, a) = a
        /\ Mul(a, Zero) = Zero /\ Mul(Zero, a) = Zero
        /\ Mul(a, Add(b, c)) = Add(Mul(a, b), Mul(a, c))
  BY PrimeMul
<1>3. \A a \in Elements \ {Zero} : Inv(a) \in Elements /\ Mul(a, Inv(a)) = One
  BY PrimeInverse
<1> QED BY <1>1, <1>2, <1>3, PrimeClosed DEF FieldLaws

-----------------------------------------------------------------------------
(* Bits *)

LEMMA PowerRecurses ==
  /\ PowerOfTwo[0] = 1
  /\ \A n \in Nat : PowerOfTwo[n] \in Nat \ {0} /\ PowerOfTwo[n + 1] = 2 * PowerOfTwo[n]
<1> DEFINE Doubles(h, n) == h[0] = 1 /\ \A k \in 1 .. n : h[k] = 2 * h[k - 1]
           E(f) == [n \in Nat |-> IF n = 0 THEN 1 ELSE 2 * f[n - 1]]
           V == Nat \ {0}
           some(n) == CHOOSE h \in [0 .. n -> V] : Doubles(h, n)
           g == [n \in Nat |-> some(n)[n]]
<1>1. ASSUME NEW n \in Nat PROVE \E h \in [0 .. n -> V] : Doubles(h, n)
  <2> DEFINE H == [v \in V |-> [k \in 1 .. n |-> 2 * v]]
  <2>1. \A v \in V, k \in 1 .. n : H[v][k] = 2 * v /\ H[v][k] \in V
    OBVIOUS
  <2>2. 1 \in V
    OBVIOUS
  <2> HIDE DEF H, V
  <2>3. ClosedUnder(H, V, n)
    BY <2>1 DEF ClosedUnder
  <2>4. PICK h \in [0 .. n -> V] : History(h, n, 1, H)
    BY <2>2, <2>3, BoundedRecursion
  <2>5. ASSUME NEW k \in 1 .. n PROVE h[k] = 2 * h[k - 1]
    <3>1. h[k - 1] \in V
      BY <2>4
    <3> QED BY <2>1, <2>4, <3>1 DEF History
  <2>6. Doubles(h, n)
    BY <2>4, <2>5 DEF History
  <2> HIDE DEF Doubles
  <2> QED BY <2>4, <2>6
<1>2. ASSUME NEW n \in Nat, NEW m \in n .. n + 1, NEW h, NEW f, Doubles(h, n), Doubles(f, m)
      PROVE  h[n] = f[n]
  <2> DEFINE T == {k \in 0 .. n : h[k] = f[k]}
  <2>1. 0 \in T
    BY <1>2
  <2>2. ASSUME NEW k \in 0 .. n - 1, k \in T PROVE k + 1 \in T
    <3>1. k + 1 \in 1 .. n /\ k + 1 \in 1 .. m /\ (k + 1) - 1 = k
      OBVIOUS
    <3> QED BY <1>2, <2>2, <3>1
  <2>3. 0 .. n \subseteq T
    <3> HIDE DEF T
    <3> QED BY <2>1, <2>2, BoundedInduction
  <2> QED BY <2>3
<1> HIDE DEF Doubles, V
<1>3. ASSUME NEW n \in Nat PROVE some(n) \in [0 .. n -> V] /\ Doubles(some(n), n)
  BY <1>1
<1> HIDE DEF some
<1>4. ASSUME NEW n \in Nat PROVE g[n] \in V /\ g[n + 1] = 2 * g[n]
  <2>1. n + 1 \in Nat /\ n + 1 \in n .. n + 1 /\ n + 1 \in 1 .. n + 1 /\ n \in 0 .. n /\ (n + 1) - 1 = n
    OBVIOUS
  <2>2. some(n) \in [0 .. n -> V] /\ Doubles(some(n), n) /\ Doubles(some(n + 1), n + 1)
    BY <1>3, <2>1
  <2>3. some(n)[n] = some(n + 1)[n]
    BY <1>2, <2>1, <2>2
  <2>4. some(n + 1)[n + 1] = 2 * some(n + 1)[n]
    BY <2>1, <2>2 DEF Doubles
  <2> QED BY <2>1, <2>2, <2>3, <2>4
<1>5. g[0] = 1
  <2>1. 0 \in Nat /\ Doubles(some(0), 0)
    BY <1>3
  <2> QED BY <2>1 DEF Doubles
<1> HIDE DEF g
<1>6. ASSUME NEW n \in Nat PROVE g[n] = IF n = 0 THEN 1 ELSE 2 * g[n - 1]
  <2>1. CASE n = 0
    BY <1>5, <2>1
  <2>2. CASE n # 0
    <3>1. n - 1 \in Nat /\ (n - 1) + 1 = n
      BY <2>2
    <3>2. g[(n - 1) + 1] = 2 * g[n - 1]
      BY <1>4, <3>1
    <3> QED BY <2>2, <3>1, <3>2
  <2> QED BY <2>1, <2>2
<1>7. g = E(g)
  <2>1. g = [n \in Nat |-> g[n]]
    BY DEF g
  <2> QED BY <1>6, <2>1
<1>8. PowerOfTwo = E(PowerOfTwo)
  <2>1. \E f : f = E(f)
    BY <1>7
  <2>2. PowerOfTwo = CHOOSE f : f = E(f)
    BY DEF PowerOfTwo
  <2> HIDE DEF E
  <2> QED BY <2>1, <2>2
<1>9. PowerOfTwo[0] = 1 /\ \A n \in Nat : PowerOfTwo[n + 1] = 2 * PowerOfTwo[n]
  <2>1. \A n \in Nat : PowerOfTwo[n] = IF n = 0 THEN 1 ELSE 2 * PowerOfTwo[n - 1]
    BY <1>8
  <2>2. \A n \in Nat : n + 1 \in Nat /\ n + 1 # 0 /\ (n + 1) - 1 = n
    OBVIOUS
  <2> QED BY <2>1, <2>2
<1> DEFINE T == {n \in Nat : PowerOfTwo[n] \in Nat \ {0}}
<1>10. T = Nat
  <2>1. 0 \in T
    BY <1>9
  <2>2. ASSUME NEW n \in T PROVE n + 1 \in T
    BY <1>9
  <2>3. T \in SUBSET Nat
    OBVIOUS
  <2> HIDE DEF T
  <2> QED BY <2>1, <2>2, <2>3, SetInduction
<1> QED BY <1>9, <1>10

LEMMA PowerGrows ==
  ASSUME NEW m \in Nat, NEW n \in Nat, m <= n
  PROVE  PowerOfTwo[m] <= PowerOfTwo[n] /\ n < PowerOfTwo[n]
<1> DEFINE S == {k \in Nat : PowerOfTwo[m] <= PowerOfTwo[m + k]}
           T == {k \in Nat : k < PowerOfTwo[k]}
<1>1. S = Nat
  <2>1. 0 \in S
    BY PowerRecurses
  <2>2. ASSUME NEW k \in S PROVE k + 1 \in S
    <3>1. m + k \in Nat /\ m + (k + 1) = (m + k) + 1
      OBVIOUS
    <3>2. PowerOfTwo[m + (k + 1)] = 2 * PowerOfTwo[m + k] /\ PowerOfTwo[m + k] \in Nat \ {0}
          /\ PowerOfTwo[m] \in Nat
      BY <3>1, PowerRecurses
    <3>3. PowerOfTwo[m] <= PowerOfTwo[m + k]
      OBVIOUS
    <3> QED BY <3>2, <3>3
  <2>3. S \in SUBSET Nat
    OBVIOUS
  <2> HIDE DEF S
  <2> QED BY <2>1, <2>2, <2>3, SetInduction
<1>2. T = Nat
  <2>1. 0 \in T
    BY PowerRecurses
  <2>2. ASSUME NEW k \in T PROVE k + 1 \in T
    <3>1. PowerOfTwo[k + 1] = 2 * PowerOfTwo[k] /\ PowerOfTwo[k] \in Nat \ {0} /\ k < PowerOfTwo[k]
      BY PowerRecurses
    <3> QED BY <3>1
  <2>3. T \in SUBSET Nat
    OBVIOUS
  <2> HIDE DEF T
  <2> QED BY <2>1, <2>2, <2>3, SetInduction
<1>3. n - m \in Nat /\ m + (n - m) = n
  OBVIOUS
<1>4. n - m \in S /\ n \in T
  BY <1>1, <1>2, <1>3
<1> QED BY <1>3, <1>4

LEMMA BitsOfP ==
  /\ BitsPerElement \in Nat \ {0}
  /\ PowerOfTwo[BitsPerElement - 1] <= P /\ P < PowerOfTwo[BitsPerElement]
<1> DEFINE S == {n \in Nat : P < PowerOfTwo[n]}
<1>1. P \in S
  BY PIsPositive, PowerGrows
<1>2. PICK n \in S : \A k \in S : n <= k
  BY <1>1, LeastMember
<1>3. n # 0
  BY <1>2, PIsPositive, PowerRecurses
<1>4. n - 1 \in Nat /\ n - 1 \notin S
  BY <1>2, <1>3
<1>5. PowerOfTwo[n - 1] <= P
  BY <1>4, PIsPositive, PowerRecurses
<1>6. n \in 1 .. P
  BY <1>1, <1>2, <1>3, PIsPositive
<1>7. BitsPerElement \in 1 .. P /\ PowerOfTwo[BitsPerElement - 1] <= P
      /\ P < PowerOfTwo[BitsPerElement]
  BY <1>2, <1>5, <1>6 DEF BitsPerElement
<1> QED BY <1>7, PIsPositive

(* What FromBits goes through. *)
Horner(h, k, s) == h[0] = 0 /\ \A i \in 1 .. k : h[i] = 2 * h[i - 1] + s[i]

LEMMA FromBitsIs ==
  ASSUME NEW k \in Nat, NEW s \in BitStrings(k)
  PROVE  /\ \E h \in [0 .. k -> Nat] : Horner(h, k, s)
         /\ \A h : Horner(h, k, s) => FromBits(s) = h[k] % P
<1> DEFINE E(f) == [i \in 0 .. k |-> IF i = 0 THEN 0 ELSE 2 * f[i - 1] + s[i]]
           value == CHOOSE f : f = E(f)
           H == [v \in Nat |-> [i \in 1 .. k |-> 2 * v + s[i]]]
<1>0. s \in [1 .. k -> {0, 1}]
  BY DEF BitStrings
<1>1. FromBits(s) = value[k] % P
  <2>1. Len(s) = k
    BY <1>0, LenOf
  <2> QED BY <2>1 DEF FromBits
<1>2. \A v \in Nat, i \in 1 .. k : H[v][i] = 2 * v + s[i] /\ H[v][i] \in Nat
  BY <1>0
<1> HIDE DEF H
<1>3. PICK h \in [0 .. k -> Nat] : History(h, k, 0, H)
  <2>1. ClosedUnder(H, Nat, k) /\ 0 \in Nat
    BY <1>2 DEF ClosedUnder
  <2> QED BY <2>1, BoundedRecursion
<1>4. Horner(h, k, s)
  <2>1. \A i \in 1 .. k : i - 1 \in 0 .. k
    OBVIOUS
  <2> QED BY <1>2, <1>3, <2>1 DEF History, Horner
<1>5. h = E(h)
  BY <1>4 DEF Horner
<1>6. value = E(value)
  <2>1. \E f : f = E(f)
    BY <1>5
  <2> HIDE DEF E
  <2> QED BY <2>1
<1> HIDE DEF value
<1>7. value[0] = 0 /\ \A i \in 1 .. k : value[i] = 2 * value[i - 1] + s[i]
  BY <1>6
<1>8. ASSUME NEW g, Horner(g, k, s) PROVE g[k] = value[k]
  <2> DEFINE T == {i \in 0 .. k : g[i] = value[i]}
  <2>1. 0 \in T
    BY <1>7, <1>8 DEF Horner
  <2>2. ASSUME NEW i \in 0 .. k - 1, i \in T PROVE i + 1 \in T
    <3>1. i + 1 \in 1 .. k /\ (i + 1) - 1 = i
      OBVIOUS
    <3> QED BY <1>7, <1>8, <2>2, <3>1 DEF Horner
  <2>3. 0 .. k \subseteq T
    <3> HIDE DEF T
    <3> QED BY <2>1, <2>2, BoundedInduction
  <2> QED BY <2>3
<1> QED BY <1>1, <1>3, <1>4, <1>8

LEMMA FromBitsInField ==
  ASSUME NEW k \in Nat, NEW s \in BitStrings(k)
  PROVE  FromBits(s) \in Elements
<1>1. PICK h \in [0 .. k -> Nat] : Horner(h, k, s)
  BY FromBitsIs
<1>2. FromBits(s) = h[k] % P /\ h[k] \in Nat
  BY <1>1, FromBitsIs
<1> DEFINE a == h[k]
<1>3. a \in Int /\ FromBits(s) = a % P
  BY <1>2
<1> HIDE DEF a
<1>4. a % P \in 0 .. P - 1
  BY <1>3, PIsPositive, ModOf
<1> QED BY <1>3, <1>4 DEF Elements

LEMMA HornerBound ==
  ASSUME NEW k \in Nat, NEW s \in BitStrings(k), NEW h \in [0 .. k -> Nat], Horner(h, k, s)
  PROVE  h[k] < PowerOfTwo[k]
<1> DEFINE T == {i \in 0 .. k : h[i] < PowerOfTwo[i]}
<1>1. 0 \in T
  <2>1. h[0] = 0 /\ PowerOfTwo[0] = 1 /\ 0 \in 0 .. k
    BY PowerRecurses DEF Horner
  <2> QED BY <2>1
<1>2. ASSUME NEW i \in 0 .. k - 1, i \in T PROVE i + 1 \in T
  <2>1. i + 1 \in 1 .. k /\ (i + 1) - 1 = i /\ i \in 0 .. k /\ i \in Nat
    OBVIOUS
  <2>2. h[i + 1] = 2 * h[i] + s[i + 1] /\ s[i + 1] \in {0, 1} /\ h[i] \in Nat
    BY <2>1 DEF Horner, BitStrings
  <2>3. PowerOfTwo[i + 1] = 2 * PowerOfTwo[i] /\ PowerOfTwo[i] \in Nat
    BY <2>1, PowerRecurses
  <2> QED BY <1>2, <2>1, <2>2, <2>3
<1>3. 0 .. k \subseteq T
  <2> HIDE DEF T
  <2> QED BY <1>1, <1>2, BoundedInduction
<1> QED BY <1>3

LEMMA BitsAreBits ==
  ASSUME NEW a \in Nat, NEW k \in Nat
  PROVE  Bits(a, k) \in BitStrings(k)
<1>1. ASSUME NEW i \in 1 .. k PROVE (a \div PowerOfTwo[k - i]) % 2 \in {0, 1}
  <2>1. PowerOfTwo[k - i] \in Nat \ {0}
    BY PowerRecurses
  <2>2. a \div PowerOfTwo[k - i] \in Nat
    BY <2>1, HalfDiv
  <2> QED BY <2>2
<1> QED BY <1>1 DEF Bits, BitStrings

(* Enough bits of an element give it back ...                               *)
LEMMA FromBitsOfBits ==
  ASSUME NEW a \in Elements, NEW k \in Nat, a < PowerOfTwo[k]
  PROVE  FromBits(Bits(a, k)) = a
<1> DEFINE h == [i \in 0 .. k |-> a \div PowerOfTwo[k - i]]
           s == Bits(a, k)
<1>0. a \in Nat /\ s \in BitStrings(k)
  BY PIsPositive, BitsAreBits DEF Elements
<1>1. h[0] = 0
  <2>1. PowerOfTwo[k] \in Nat \ {0} /\ k - 0 = k /\ a \in 0 .. PowerOfTwo[k] - 1
    BY <1>0, PowerRecurses
  <2>2. (PowerOfTwo[k] * 0 + a) \div PowerOfTwo[k] = 0
    BY <2>1, DivUnique
  <2>3. PowerOfTwo[k] * 0 + a = a
    BY <1>0, <2>1
  <2> QED BY <2>1, <2>2, <2>3
<1>2. ASSUME NEW i \in 1 .. k PROVE h[i] = 2 * h[i - 1] + s[i]
  <2> DEFINE m == PowerOfTwo[k - i]
             x == a \div m
  <2>1. k - i \in Nat /\ k - (i - 1) = (k - i) + 1 /\ i \in 0 .. k /\ i - 1 \in 0 .. k
    OBVIOUS
  <2>2. m \in Nat \ {0} /\ PowerOfTwo[k - (i - 1)] = 2 * m
    BY <2>1, PowerRecurses
  <2>3. h[i] = x /\ h[i - 1] = a \div (2 * m) /\ s[i] = x % 2
    BY <2>1, <2>2 DEF Bits
  <2> HIDE DEF m
  <2>4. a \div (2 * m) = x \div 2 /\ x \in Nat
    BY <1>0, <2>2, HalfDiv
  <2> HIDE DEF x, h, s
  <2>5. x = 2 * (x \div 2) + (x % 2)
    BY <2>4
  <2> QED BY <2>3, <2>4, <2>5
<1>3. h[k] = a
  <2>1. k - k = 0 /\ k \in 0 .. k
    OBVIOUS
  <2> QED BY <1>0, <2>1, PowerRecurses, DivOne
<1> HIDE DEF h, s
<1>4. Horner(h, k, s)
  BY <1>1, <1>2 DEF Horner
<1>5. FromBits(s) = a % P
  BY <1>0, <1>3, <1>4, FromBitsIs
<1>6. a % P = a
  <2>1. (P * 0 + a) % P = a
    BY PIsPositive, ModUnique DEF Elements
  <2>2. P * 0 + a = a
    BY <1>0, PIsPositive
  <2> QED BY <2>1, <2>2
<1> QED BY <1>5, <1>6 DEF s

(* ... and bits that are not too many come out of the element they make.    *)
LEMMA BitsOfFromBits ==
  ASSUME NEW k \in Nat, NEW s \in BitStrings(k), PowerOfTwo[k] <= P
  PROVE  Bits(FromBits(s), k) = s
<1>1. PICK h \in [0 .. k -> Nat] : Horner(h, k, s)
  BY FromBitsIs
<1> DEFINE a == h[k]
<1>2. a \in Nat /\ a < PowerOfTwo[k]
  BY <1>1, HornerBound
<1> HIDE DEF a
<1>3. FromBits(s) = a
  <2>1. FromBits(s) = a % P
    BY <1>1, FromBitsIs DEF a
  <2>2. a \in 0 .. P - 1
    <3>1. PowerOfTwo[k] \in Nat
      BY PowerRecurses
    <3> QED BY <1>2, <3>1, PIsPositive
  <2>3. (P * 0 + a) % P = a
    BY <2>2, PIsPositive, ModUnique
  <2>4. P * 0 + a = a
    BY <1>2, PIsPositive
  <2> QED BY <2>1, <2>3, <2>4
<1> DEFINE T == {d \in 0 .. k : a \div PowerOfTwo[d] = h[k - d]}
<1>4. 0 \in T
  <2>1. k - 0 = k /\ 0 \in 0 .. k
    OBVIOUS
  <2> QED BY <1>2, <2>1, PowerRecurses, DivOne DEF a
<1>5. ASSUME NEW i \in 1 .. k
      PROVE  h[i] \div 2 = h[i - 1] /\ h[i] % 2 = s[i]
  <2>1. i - 1 \in 0 .. k /\ h[i] = 2 * h[i - 1] + s[i] /\ s[i] \in 0 .. 2 - 1
    BY <1>1 DEF Horner, BitStrings
  <2>2. h[i - 1] \in Int /\ 2 \in Nat \ {0}
    BY <1>1, <2>1
  <2> QED BY <2>1, <2>2, DivUnique, ModUnique
<1>6. ASSUME NEW d \in 0 .. k - 1, d \in T PROVE d + 1 \in T
  <2>1. d + 1 \in 0 .. k /\ d \in Nat /\ k - d \in 1 .. k /\ (k - d) - 1 = k - (d + 1)
    OBVIOUS
  <2>2. PowerOfTwo[d + 1] = 2 * PowerOfTwo[d] /\ PowerOfTwo[d] \in Nat \ {0}
    BY <2>1, PowerRecurses
  <2>3. a \div PowerOfTwo[d + 1] = (a \div PowerOfTwo[d]) \div 2
    BY <1>2, <2>2, HalfDiv
  <2>4. a \div PowerOfTwo[d] = h[k - d]
    BY <1>6
  <2>5. h[k - d] \div 2 = h[k - (d + 1)]
    BY <1>5, <2>1
  <2> QED BY <2>1, <2>3, <2>4, <2>5
<1>7. 0 .. k \subseteq T
  <2> HIDE DEF T
  <2> QED BY <1>4, <1>6, BoundedInduction
<1>8. ASSUME NEW i \in 1 .. k PROVE (a \div PowerOfTwo[k - i]) % 2 = s[i]
  <2>1. k - i \in 0 .. k /\ k - (k - i) = i
    OBVIOUS
  <2>2. a \div PowerOfTwo[k - i] = h[i]
    BY <1>7, <2>1
  <2> QED BY <1>5, <2>2
<1>9. s = [i \in 1 .. k |-> s[i]]
  BY DEF BitStrings
<1> QED BY <1>3, <1>8, <1>9 DEF Bits

(* What the packing asks of the bits, and the strings wide and narrow.      *)
LEMMA PrimePacks == PackingLaws
<1>1. ByteBits \in Nat \ {0}
  BY ConfigAssumption
<1>2. \A k \in Nat : \A s \in BitStrings(k) : FromBits(s) \in Elements
  BY FromBitsInField
<1>3. \A k \in Nat, a \in Elements : Bits(a, k) \in BitStrings(k)
  BY PIsPositive, BitsAreBits DEF Elements
<1> QED BY <1>1, <1>2, <1>3 DEF PackingLaws

LEMMA PrimeWide ==
  ASSUME NEW k \in Nat, P <= PowerOfTwo[k]
  PROVE  Wide(k)
<1>1. ASSUME NEW a \in Elements PROVE a < PowerOfTwo[k]
  <2>1. a \in 0 .. P - 1 /\ PowerOfTwo[k] \in Nat
    BY PowerRecurses DEF Elements
  <2> QED BY <2>1, PIsPositive
<1> QED BY <1>1, FromBitsOfBits DEF Wide

LEMMA PrimeNarrow ==
  ASSUME NEW k \in Nat, PowerOfTwo[k] <= P
  PROVE  Narrow(k)
BY BitsOfFromBits DEF Narrow

USE PrimeIsField, PrimePacks

(* What the configuration's checks come to.                                 *)
LEMMA Sizes ==
  /\ ElementsPerChunk \in Nat \ {0}
  /\ messageBitsPerElement \in Nat \ {0} /\ networkBitsPerElement \in Nat \ {0}
  /\ ElementsPerChunk * messageBitsPerElement = ByteBits * MessageChunkSize
  /\ Narrow(messageBitsPerElement) /\ Wide(networkBitsPerElement)
  /\ Rest(ElementsPerChunk * messageBitsPerElement) = 0
  /\ Rest(ElementsPerChunk * networkBitsPerElement) < networkBitsPerElement
  /\ ElementsPerChunk * networkBitsPerElement + Rest(ElementsPerChunk * networkBitsPerElement)
       = ChunkBits
<1> DEFINE e == ElementsPerChunk
           mb == messageBitsPerElement
           nb == networkBitsPerElement
           b == BitsPerElement
           m == ByteBits * MessageChunkSize
<1>1. e \in Nat \ {0} /\ ByteBits \in Nat \ {0} /\ MessageChunkSize \in Nat \ {0}
      /\ NetworkChunkSize \in Nat \ {0}
  BY ConfigAssumption
<1>2. m \in Nat \ {0} /\ m % e = 0 /\ mb = m \div e
  BY <1>1, ConfigAssumption DEF messageBitsPerElement
<1>3. b \in Nat \ {0} /\ PowerOfTwo[b - 1] <= P /\ P < PowerOfTwo[b]
      /\ mb <= b - 1 /\ nb >= b
  BY BitsOfP, ConfigAssumption DEF BitsPerDataElement
<1>4. nb \in Nat \ {0}
  <2>1. ByteBits * NetworkChunkSize \in Nat
    BY <1>1
  <2>2. nb \in Nat
    BY <1>1, <2>1, HalfDiv DEF networkBitsPerElement
  <2> QED BY <1>3, <2>2
<1> HIDE DEF mb, nb, b, m
<1>5. mb \in Nat /\ m = e * mb
  <2>1. m \div e \in Nat /\ m = e * (m \div e) + (m % e)
    BY <1>1, <1>2, HalfDiv, ModOf
  <2> HIDE DEF e
  <2> QED BY <1>1, <1>2, <2>1
<1>6. mb # 0
  BY <1>1, <1>2, <1>5
<1>7. PowerOfTwo[mb] <= P /\ P <= PowerOfTwo[nb]
  <2>1. PowerOfTwo[mb] <= PowerOfTwo[b - 1] /\ PowerOfTwo[b] <= PowerOfTwo[nb]
    BY <1>3, <1>4, <1>5, PowerGrows
  <2>2. /\ PowerOfTwo[mb] \in Nat /\ PowerOfTwo[b - 1] \in Nat
        /\ PowerOfTwo[b] \in Nat /\ PowerOfTwo[nb] \in Nat
    BY <1>3, <1>4, <1>5, PowerRecurses
  <2> QED BY <1>3, <2>1, <2>2, PIsPositive
<1>8. Rest(e * mb) = 0
  <2>1. m % ByteBits = 0
    <3>1. (ByteBits * MessageChunkSize + 0) % ByteBits = 0
      BY <1>1, ModUnique
    <3>2. ByteBits * MessageChunkSize + 0 = m
      BY <1>1 DEF m
    <3> QED BY <3>1, <3>2
  <2>2. (ByteBits - 0) % ByteBits = 0
    <3>1. (ByteBits * 1 + 0) % ByteBits = 0
      BY <1>1, ModUnique
    <3> QED BY <1>1, <3>1
  <2> QED BY <1>5, <2>1, <2>2 DEF Rest
<1>9. Rest(e * nb) < nb
  BY PaddingAssumption DEF Rest, nb
<1>10. e * nb + Rest(e * nb) = ChunkBits
  <2> DEFINE x == e * nb
  <2>1. x \in Nat
    BY <1>1, <1>4
  <2> HIDE DEF x
  <2>2. x + Rest(x) = ByteBits * ((x + ByteBits - 1) \div ByteBits)
    BY <2>1, RestIs
  <2> QED BY <2>2 DEF x, ChunkBits, nb
<1>11. Narrow(mb) /\ Wide(nb)
  BY <1>4, <1>5, <1>7, PrimeNarrow, PrimeWide
<1> QED BY <1>1, <1>4, <1>5, <1>6, <1>8, <1>9, <1>10, <1>11 DEF mb, nb, m

-----------------------------------------------------------------------------
(* Commitments *)

LEMMA CommitIs ==
  ASSUME NEW v \in Vectors(ElementsPerChunk)
  PROVE  /\ commit(v) \in Elements
         /\ [i \in 1 .. ElementsPerChunk |-> Mul(v[i], Generators[i])]
              \in [1 .. ElementsPerChunk -> Elements]
         /\ commit(v) = Total([i \in 1 .. ElementsPerChunk |-> Mul(v[i], Generators[i])])
<1> DEFINE e == ElementsPerChunk
           t == [i \in 1 .. e |-> Mul(v[i], Generators[i])]
<1>1. e \in Nat /\ Len(v) = e
  BY Sizes, LenOf DEF Vectors
<1>2. Generators \in [1 .. e -> Elements]
  BY MessageAssumption
<1>3. Len(Generators) = e
  BY <1>1, <1>2, LenOf
<1>4. t \in [1 .. e -> Elements]
  BY <1>2, FieldClosed DEF Vectors
<1>5. commit(v) = Total(t)
  <2>1. \A i \in 1 .. e : i <= Len(Generators)
    BY <1>1, <1>3
  <2> QED BY <1>1, <2>1 DEF commit
<1> HIDE DEF t
<1>6. Total(t) \in Elements
  BY <1>1, <1>4, TotalInField
<1> QED BY <1>4, <1>5, <1>6 DEF t

(* Committing is linear: what is true of a combination is what the          *)
(* commitments combine to.                                                  *)
CommitMap == [v \in Vectors(ElementsPerChunk) |-> [j \in 1 .. 1 |-> commit(v)]]

LEMMA CommitLinear == Linear(CommitMap, ElementsPerChunk, 1)
<1> DEFINE e == ElementsPerChunk
           g == Generators
           T(v) == [i \in 1 .. e |-> Mul(v[i], g[i])]
<1>1. e \in Nat /\ \A i \in 1 .. e : g[i] \in Elements
  BY Sizes, MessageAssumption
<1>2. ASSUME NEW v \in Vectors(e)
      PROVE  commit(v) \in Elements /\ T(v) \in [1 .. e -> Elements] /\ commit(v) = Total(T(v))
  BY CommitIs
<1>3. CommitMap \in [Vectors(e) -> Vectors(1)]
  BY <1>2 DEF CommitMap, Vectors
<1>4. ASSUME NEW x \in Vectors(e), NEW y \in Vectors(e)
      PROVE  commit(VectorAdd(x, y)) = Add(commit(x), commit(y))
  <2> DEFINE z == VectorAdd(x, y)
  <2>1. z \in Vectors(e) /\ \A i \in 1 .. e : z[i] = Add(x[i], y[i]) /\ x[i] \in Elements /\ y[i] \in Elements
    BY <1>1, VectorAddIs
  <2> HIDE DEF z
  <2>2. ASSUME NEW i \in 1 .. e PROVE T(z)[i] = Add(T(x)[i], T(y)[i])
    <3>1. Mul(g[i], Add(x[i], y[i])) = Add(Mul(g[i], x[i]), Mul(g[i], y[i]))
          /\ Mul(g[i], x[i]) = Mul(x[i], g[i]) /\ Mul(g[i], y[i]) = Mul(y[i], g[i])
      BY <1>1, <2>1, MulIsMonoid
    <3>2. Mul(g[i], Add(x[i], y[i])) = Mul(Add(x[i], y[i]), g[i])
      BY <1>1, <2>1, MulIsMonoid, FieldClosed
    <3> QED BY <2>1, <3>1, <3>2
  <2> DEFINE s == T(x)
             t == T(y)
  <2>3. s \in [1 .. e -> Elements] /\ t \in [1 .. e -> Elements]
        /\ commit(x) = Total(s) /\ commit(y) = Total(t)
    BY <1>2
  <2>4. T(z) = [i \in 1 .. e |-> Add(s[i], t[i])] /\ commit(z) = Total(T(z))
    BY <1>2, <2>1, <2>2
  <2> HIDE DEF s, t, T
  <2>5. Total([i \in 1 .. e |-> Add(s[i], t[i])]) = Add(Total(s), Total(t))
    BY <1>1, <2>3, TotalAdd
  <2> QED BY <2>3, <2>4, <2>5 DEF z
<1>5. ASSUME NEW x \in Vectors(e), NEW a \in Elements
      PROVE  commit(VectorMul(a, x)) = Mul(a, commit(x))
  <2> DEFINE z == VectorMul(a, x)
  <2>1. z \in Vectors(e) /\ \A i \in 1 .. e : z[i] = Mul(a, x[i]) /\ x[i] \in Elements
    BY <1>1, VectorMulIs
  <2> HIDE DEF z
  <2>2. ASSUME NEW i \in 1 .. e PROVE T(z)[i] = Mul(a, T(x)[i])
    BY <1>1, <2>1, MulIsMonoid
  <2> DEFINE s == T(x)
  <2>3. s \in [1 .. e -> Elements] /\ commit(x) = Total(s)
    BY <1>2
  <2>4. T(z) = [i \in 1 .. e |-> Mul(a, s[i])] /\ commit(z) = Total(T(z))
    BY <1>2, <2>1, <2>2
  <2> HIDE DEF s, T
  <2>5. Total([i \in 1 .. e |-> Mul(a, s[i])]) = Mul(a, Total(s))
    BY <1>1, <2>3, TotalScale
  <2> QED BY <2>3, <2>4, <2>5 DEF z
<1>6. ASSUME NEW v \in Vectors(e)
      PROVE  CommitMap[v] = [j \in 1 .. 1 |-> commit(v)]
  BY DEF CommitMap
<1>7. \A x, y \in Vectors(e) : VectorAdd(x, y) \in Vectors(e)
  BY <1>1, VectorAddIs
<1>8. \A x \in Vectors(e), a \in Elements : VectorMul(a, x) \in Vectors(e)
  BY <1>1, VectorMulIs
<1> HIDE DEF e
<1>9. ASSUME NEW x \in Vectors(e), NEW y \in Vectors(e)
      PROVE  CommitMap[VectorAdd(x, y)] = VectorAdd(CommitMap[x], CommitMap[y])
  <2> DEFINE z == VectorAdd(x, y)
  <2>1. z \in Vectors(e) /\ commit(z) = Add(commit(x), commit(y))
    BY <1>4, <1>7
  <2> HIDE DEF z
  <2>2. /\ CommitMap[z] = [j \in 1 .. 1 |-> commit(z)]
        /\ CommitMap[x] = [j \in 1 .. 1 |-> commit(x)]
        /\ CommitMap[y] = [j \in 1 .. 1 |-> commit(y)]
    BY <1>6, <2>1
  <2>3. CommitMap[z] = [j \in DOMAIN CommitMap[x] |-> Add(CommitMap[x][j], CommitMap[y][j])]
    BY <2>1, <2>2
  <2> QED BY <2>3 DEF VectorAdd, z
<1>10. ASSUME NEW x \in Vectors(e), NEW a \in Elements
       PROVE  CommitMap[VectorMul(a, x)] = VectorMul(a, CommitMap[x])
  <2> DEFINE z == VectorMul(a, x)
  <2>1. z \in Vectors(e) /\ commit(z) = Mul(a, commit(x))
    BY <1>5, <1>8
  <2> HIDE DEF z
  <2>2. /\ CommitMap[z] = [j \in 1 .. 1 |-> commit(z)]
        /\ CommitMap[x] = [j \in 1 .. 1 |-> commit(x)]
    BY <1>6, <2>1
  <2>3. CommitMap[z] = [j \in DOMAIN CommitMap[x] |-> Mul(a, CommitMap[x][j])]
    BY <2>1, <2>2
  <2> QED BY <2>3 DEF VectorMul, z
<1> QED BY <1>3, <1>9, <1>10 DEF Linear, e

LEMMA CommitCombination ==
  ASSUME NEW m \in Nat \ {0}, NEW A \in Matrices(m, ElementsPerChunk), NEW f \in Vectors(m)
  PROVE  commit(Combination(f, A)) = Total([k \in 1 .. m |-> Mul(f[k], commit(A[k]))])
<1> DEFINE e == ElementsPerChunk
           B == Image(CommitMap, A)
           x == Combination(f, A)
<1>1. e \in Nat /\ 1 \in Nat /\ Linear(CommitMap, e, 1)
  BY Sizes, CommitLinear
<1>2. x \in Vectors(e)
  BY <1>1, CombinationIs
<1>3. B \in Matrices(m, 1) /\ \A k \in 1 .. m : B[k] = CommitMap[A[k]]
  <2>1. m \in Nat
    OBVIOUS
  <2> QED BY <1>1, <2>1, ImageIs
<1>4. CommitMap[x] = Combination(f, B)
  BY <1>1, LinearCombination
<1>5. CommitMap[x][1] = commit(x) /\ \A k \in 1 .. m : A[k] \in Vectors(e) /\ B[k][1] = commit(A[k])
  <2> HIDE DEF B, x
  <2>1. \A v \in Vectors(e) : CommitMap[v][1] = commit(v)
    BY DEF CommitMap
  <2>2. \A k \in 1 .. m : A[k] \in Vectors(e)
    BY DEF Matrices
  <2> QED BY <1>2, <1>3, <2>1, <2>2
<1> HIDE DEF B, x
<1>6. /\ Combination(f, B)[1] = Total(Terms(f, B, 1))
      /\ Terms(f, B, 1) \in [1 .. m -> Elements]
      /\ \A k \in 1 .. m : Terms(f, B, 1)[k] = Mul(f[k], B[k][1])
  <2>1. 1 \in 1 .. 1
    OBVIOUS
  <2> QED BY <1>1, <1>3, <2>1, CombinationIs
<1>7. Terms(f, B, 1) = [k \in 1 .. m |-> Mul(f[k], commit(A[k]))]
  BY <1>5, <1>6
<1> QED BY <1>4, <1>5, <1>6, <1>7 DEF x
-----------------------------------------------------------------------------
(* Genuine chunks: what is stored and what is on its way is the combination *)
(* of the published chunks that its coefficients say, and comes with the    *)
(* commitments to them.                                                     *)

(* The published chunks as vectors of elements, and the commitments.        *)
MessageVectors ==
  [i \in 1 .. ChunkCount |-> SplitBitsToFieldElements(Message[i], messageBitsPerElement)]
Commitments == [i \in 1 .. ChunkCount |-> commit(MessageVectors[i])]

Genuine(chunk) ==
  /\ chunk \in Chunks
  /\ chunk.extra.commitments = Commitments
  /\ chunk.data = FieldElementsToBytes(Combination(chunk.coeffs, MessageVectors),
                                       networkBitsPerElement)

(* What a node stores has besides passed the check of independence.         *)
GenuineSeq(s) == s \in Seq(Chunks) /\ \A i \in 1 .. Len(s) : Genuine(s[i])
Held(s) == GenuineSeq(s) /\ (s # <<>> => IsLinearlyIndependent(Coeffs(s)))

(* The inductive invariant.                                                 *)
GenuineInv ==
  /\ TypeOK
  /\ \A n \in Nodes : Held(chunks[n])
  /\ \A d \in inFlight : Genuine(d.chunk)

LEMMA MessageIs ==
  /\ ChunkCount \in Nat \ {0} /\ Coefficients = Vectors(ChunkCount)
  /\ MessageVectors \in Matrices(ChunkCount, ElementsPerChunk)
  /\ \A i \in 1 .. ChunkCount :
       FieldElementsToBytes(MessageVectors[i], messageBitsPerElement) = Message[i]
  /\ Commitments \in Vectors(ChunkCount)
<1> DEFINE c == ChunkCount
           e == ElementsPerChunk
           mb == messageBitsPerElement
           bits == ByteBits * MessageChunkSize
<1>1. Message \in Seq(BitStrings(bits)) /\ Message # <<>>
  BY MessageAssumption
<1>2. c \in Nat \ {0} /\ \A i \in 1 .. c : Message[i] \in BitStrings(bits)
  BY <1>1, EmptySeq DEF ChunkCount
<1> HIDE DEF c
<1>3. ASSUME NEW i \in 1 .. c
      PROVE  /\ MessageVectors[i] \in Vectors(e)
             /\ FieldElementsToBytes(MessageVectors[i], mb) = Message[i]
  <2>1. Message[i] \in BitStrings(e * mb)
    BY <1>2, Sizes
  <2>2. MessageVectors[i] = SplitBitsToFieldElements(Message[i], mb)
    BY DEF MessageVectors, c
  <2> QED BY <2>1, <2>2, Sizes, PackOfSplit
<1>4. MessageVectors \in Matrices(c, e)
  <2>1. MessageVectors = [i \in 1 .. c |-> MessageVectors[i]]
    BY DEF MessageVectors, c
  <2> QED BY <1>3, <2>1 DEF Matrices
<1>5. Commitments \in Vectors(c)
  <2>1. \A i \in 1 .. c : commit(MessageVectors[i]) \in Elements
    BY <1>3, CommitIs
  <2> QED BY <2>1 DEF Commitments, Vectors, c
<1> QED BY <1>2, <1>3, <1>4, <1>5 DEF c, Coefficients, Vectors

LEMMA PackedIs ==
  ASSUME NEW v \in Vectors(ElementsPerChunk)
  PROVE  /\ FieldElementsToBytes(v, networkBitsPerElement) \in BitStrings(ChunkBits)
         /\ splitIntoElements(FieldElementsToBytes(v, networkBitsPerElement)) = v
<1>1. FieldElementsToBytes(v, networkBitsPerElement) \in BitStrings(ChunkBits)
  BY Sizes, PackIs
<1>2. SplitBitsToFieldElements(FieldElementsToBytes(v, networkBitsPerElement),
                               networkBitsPerElement) = v
  BY Sizes, SplitOfPack
<1> QED BY <1>1, <1>2 DEF splitIntoElements

LEMMA GenuineIs ==
  ASSUME NEW chunk, Genuine(chunk)
  PROVE  /\ chunk.coeffs \in Vectors(ChunkCount)
         /\ Combination(chunk.coeffs, MessageVectors) \in Vectors(ElementsPerChunk)
         /\ splitIntoElements(chunk.data) = Combination(chunk.coeffs, MessageVectors)
         /\ chunk.extra \in Extras /\ chunk.extra.commitments = Commitments
<1>1. chunk.coeffs \in Vectors(ChunkCount) /\ chunk.extra \in Extras
  BY MessageIs DEF Genuine, Chunks
<1> DEFINE v == Combination(chunk.coeffs, MessageVectors)
<1>2. v \in Vectors(ElementsPerChunk)
  BY <1>1, MessageIs, Sizes, CombinationIs
<1> HIDE DEF v
<1>3. chunk.data = FieldElementsToBytes(v, networkBitsPerElement)
  BY DEF Genuine, v
<1> QED BY <1>1, <1>2, <1>3, PackedIs DEF v, Genuine

LEMMA GenuineMade ==
  ASSUME NEW n \in Nodes, NEW x \in Vectors(ChunkCount), NEW v, v = Combination(x, MessageVectors),
         NEW e \in Extras, e.commitments = Commitments, NEW chunk,
         chunk = [data |-> FieldElementsToBytes(v, networkBitsPerElement), coeffs |-> x, extra |-> e]
  PROVE  Genuine(chunk)
<1>1. v \in Vectors(ElementsPerChunk)
  BY MessageIs, Sizes, CombinationIs
<1>2. FieldElementsToBytes(v, networkBitsPerElement) \in BitStrings(ChunkBits)
  BY <1>1, PackedIs
<1>3. chunk \in Chunks
  BY <1>2, MessageIs DEF Chunks
<1> QED BY <1>3 DEF Genuine

(* Every genuine chunk is verified.                                         *)
LEMMA GenuineVerifies ==
  ASSUME NEW chunk, Genuine(chunk)
  PROVE  Verify(chunk)
<1> DEFINE x == chunk.coeffs
           c == ChunkCount
           M == MessageVectors
<1>1. x \in Vectors(c) /\ c \in Nat \ {0} /\ M \in Matrices(c, ElementsPerChunk)
      /\ splitIntoElements(chunk.data) = Combination(x, M)
      /\ chunk.extra.commitments = Commitments /\ Commitments \in Vectors(c)
  BY GenuineIs, MessageIs
<1>2. Commitments = [k \in 1 .. c |-> commit(M[k])]
  BY DEF Commitments
<1> HIDE DEF x, c, M
<1>3. Len(x) = c /\ DOMAIN x = 1 .. c /\ Len(Commitments) = c
  BY <1>1, LenOf DEF Vectors
<1>4. commit(Combination(x, M)) = Total([k \in 1 .. c |-> Mul(x[k], commit(M[k]))])
  BY <1>1, CommitCombination
<1>5. [k \in 1 .. c |-> Mul(x[k], commit(M[k]))] = [k \in DOMAIN x |-> Mul(x[k], Commitments[k])]
  BY <1>2, <1>3
<1> QED BY <1>1, <1>3, <1>4, <1>5 DEF Verify, x

(* Combining vectors is linear too.                                         *)
DecodeMap == [x \in Vectors(ChunkCount) |-> Combination(x, MessageVectors)]

LEMMA DecodeLinear == Linear(DecodeMap, ChunkCount, ElementsPerChunk)
<1> DEFINE c == ChunkCount
           e == ElementsPerChunk
           M == MessageVectors
<1>1. c \in Nat \ {0} /\ c \in Nat /\ e \in Nat /\ M \in Matrices(c, e)
  BY MessageIs, Sizes
<1>2. \A x \in Vectors(c) : DecodeMap[x] = Combination(x, M)
  BY DEF DecodeMap
<1>3. DecodeMap \in [Vectors(c) -> Vectors(e)]
  <2>1. \A x \in Vectors(c) : Combination(x, M) \in Vectors(e)
    BY <1>1, CombinationIs
  <2> HIDE DEF M
  <2> QED BY <2>1 DEF DecodeMap, M
<1> HIDE DEF c, e, M
<1>4. ASSUME NEW x \in Vectors(c), NEW y \in Vectors(c)
      PROVE  DecodeMap[VectorAdd(x, y)] = VectorAdd(DecodeMap[x], DecodeMap[y])
  <2> DEFINE z == VectorAdd(x, y)
  <2>1. z \in Vectors(c)
    BY <1>1, VectorAddIs
  <2>2. Combination(z, M) = VectorAdd(Combination(x, M), Combination(y, M))
    BY <1>1, CombinationAdd
  <2> HIDE DEF z
  <2> QED BY <1>2, <2>1, <2>2 DEF z
<1>5. ASSUME NEW x \in Vectors(c), NEW a \in Elements
      PROVE  DecodeMap[VectorMul(a, x)] = VectorMul(a, DecodeMap[x])
  <2> DEFINE z == VectorMul(a, x)
  <2>1. z \in Vectors(c)
    BY <1>1, VectorMulIs
  <2>2. Combination(z, M) = VectorMul(a, Combination(x, M))
    BY <1>1, CombinationScale
  <2> HIDE DEF z
  <2> QED BY <1>2, <2>1, <2>2 DEF z
<1> QED BY <1>3, <1>4, <1>5 DEF Linear, c, e

(* What a node stores, as the coefficients and the vectors of its chunks.   *)
Datas(s) == [i \in DOMAIN s |-> splitIntoElements(s[i].data)]

LEMMA StoredIs ==
  ASSUME NEW s, GenuineSeq(s), NEW m \in Nat, m = Len(s)
  PROVE  /\ DOMAIN s = 1 .. m
         /\ Coeffs(s) \in Matrices(m, ChunkCount)
         /\ \A i \in 1 .. m : Coeffs(s)[i] = s[i].coeffs
         /\ Datas(s) = Image(DecodeMap, Coeffs(s))
<1>1. DOMAIN s = 1 .. m
  BY DEF GenuineSeq
<1>2. ASSUME NEW i \in 1 .. m
      PROVE  /\ s[i].coeffs \in Vectors(ChunkCount)
             /\ splitIntoElements(s[i].data) = DecodeMap[s[i].coeffs]
  <2>1. Genuine(s[i])
    BY DEF GenuineSeq
  <2> DEFINE x == s[i].coeffs
  <2>2. x \in Vectors(ChunkCount) /\ splitIntoElements(s[i].data) = Combination(x, MessageVectors)
    BY <2>1, GenuineIs
  <2> HIDE DEF x
  <2>3. DecodeMap[x] = Combination(x, MessageVectors)
    BY <2>2 DEF DecodeMap
  <2> QED BY <2>2, <2>3 DEF x
<1>3. Coeffs(s) \in Matrices(m, ChunkCount) /\ \A i \in 1 .. m : Coeffs(s)[i] = s[i].coeffs
  BY <1>1, <1>2 DEF Coeffs, Matrices
<1>4. Datas(s) = Image(DecodeMap, Coeffs(s))
  <2>1. DOMAIN Coeffs(s) = 1 .. m
    BY <1>3 DEF Matrices
  <2> QED BY <1>1, <1>2, <1>3, <2>1 DEF Datas, Image
<1> QED BY <1>1, <1>3, <1>4

(* The random factors are elements of the field, and all of them may be     *)
(* zero.                                                                    *)
LEMMA FactorsIs ==
  ASSUME NEW s \in Seq(Chunks), NEW m \in Nat, m = Len(s)
  PROVE  /\ Factors(s) = [1 .. m -> RandomMax(MaxCoefficientBits)]
         /\ Factors(s) \subseteq Vectors(m)
<1>1. DOMAIN s = 1 .. m
  OBVIOUS
<1>2. RandomMax(MaxCoefficientBits) \subseteq Elements
  <2>1. PowerOfTwo[MaxCoefficientBits] \in Nat
    BY ConfigAssumption, PowerRecurses
  <2>2. ASSUME NEW a \in 0 .. PowerOfTwo[MaxCoefficientBits] - 1 PROVE a % P \in Elements
    <3>1. a \in Int
      BY <2>1
    <3> QED BY <3>1, PIsPositive, ModOf DEF Elements
  <2> QED BY <2>2 DEF RandomMax
<1> QED BY <1>1, <1>2 DEF Factors, Vectors

(* A combination of genuine chunks is genuine.                              *)
LEMMA CombinedIs ==
  ASSUME NEW s, GenuineSeq(s), s # <<>>, NEW m \in Nat \ {0}, m = Len(s), NEW f \in Vectors(m)
  PROVE  /\ Genuine(Combined(s, f))
         /\ Combined(s, f).coeffs = Combination(f, Coeffs(s))
<1> DEFINE c == ChunkCount
           A == Coeffs(s)
           x == Combination(f, A)
           v == Combination(f, Datas(s))
           e == s[1].extra
           chunk == Combined(s, f)
<1>1. A \in Matrices(m, c) /\ Datas(s) = Image(DecodeMap, A)
  BY StoredIs
<1>2. c \in Nat /\ ElementsPerChunk \in Nat
  BY MessageIs, Sizes
<1> HIDE DEF A
<1>3. x \in Vectors(c)
  BY <1>1, <1>2, CombinationIs
<1>4. v = Combination(x, MessageVectors)
  <2>1. DecodeMap[x] = v
    BY <1>1, <1>2, DecodeLinear, LinearCombination
  <2> HIDE DEF x, v
  <2> QED BY <1>3, <2>1 DEF DecodeMap
<1>5. e \in Extras /\ e.commitments = Commitments /\ e.publisherID \in Nodes
  <2>1. Genuine(s[1])
    BY DEF GenuineSeq
  <2>2. e \in Extras /\ e.commitments = Commitments
    BY <2>1, GenuineIs
  <2> QED BY <2>2 DEF Extras
<1>6. chunk = [data |-> FieldElementsToBytes(v, networkBitsPerElement), coeffs |-> x, extra |-> e]
  BY DEF Combined, CombineExtras, Coeffs, Datas, A
<1> HIDE DEF x, v, e, chunk
<1>7. Genuine(chunk)
  BY <1>3, <1>4, <1>5, <1>6, GenuineMade
<1>8. chunk.coeffs = x
  BY <1>6
<1> QED BY <1>7, <1>8 DEF x, A, chunk

Appended(t, s, chunk, m) ==
  /\ GenuineSeq(t) /\ Len(t) = m + 1
  /\ Coeffs(t) = Append(Coeffs(s), chunk.coeffs)
  /\ Coeffs(t) \in Matrices(m + 1, ChunkCount)
  /\ \A i \in 1 .. m : Coeffs(t)[i] = Coeffs(s)[i]
  /\ Coeffs(t)[m + 1] = chunk.coeffs

LEMMA AppendIs ==
  ASSUME NEW s, GenuineSeq(s), NEW m \in Nat, m = Len(s), NEW chunk, Genuine(chunk),
         NEW t, t = Append(s, chunk)
  PROVE  Appended(t, s, chunk, m)
<1>1. s \in Seq(Chunks) /\ chunk \in Chunks
  BY DEF GenuineSeq, Genuine
<1>2. /\ t \in Seq(Chunks) /\ Len(t) = m + 1
      /\ \A i \in 1 .. m : t[i] = s[i]
      /\ t[m + 1] = chunk
  BY <1>1, AppendElements
<1>3. ASSUME NEW i \in 1 .. m + 1 PROVE Genuine(t[i])
  <2>1. CASE i = m + 1
    BY <1>2, <2>1
  <2>2. CASE i # m + 1
    <3>1. i \in 1 .. m
      BY <2>2
    <3> QED BY <1>2, <3>1 DEF GenuineSeq
  <2> QED BY <2>1, <2>2
<1>4. GenuineSeq(t)
  BY <1>2, <1>3 DEF GenuineSeq
<1>5. m + 1 \in Nat /\ m + 1 \in 1 .. m + 1 /\ \A i \in 1 .. m : i \in 1 .. m + 1
  OBVIOUS
<1>6. /\ Coeffs(t) \in Matrices(m + 1, ChunkCount)
      /\ \A i \in 1 .. m + 1 : Coeffs(t)[i] = t[i].coeffs
  BY <1>2, <1>4, <1>5, StoredIs
<1>7. /\ Coeffs(s) \in Matrices(m, ChunkCount)
      /\ \A i \in 1 .. m : Coeffs(s)[i] = s[i].coeffs
  BY StoredIs
<1>8. chunk.coeffs \in Vectors(ChunkCount)
  BY GenuineIs
<1>9. Coeffs(t) = Append(Coeffs(s), chunk.coeffs)
  <2> DEFINE a == Coeffs(s)
             b == Coeffs(t)
             x == chunk.coeffs
             V == Vectors(ChunkCount)
             r == Append(a, x)
  <2>1. a \in Seq(V) /\ Len(a) = m /\ b \in Seq(V) /\ Len(b) = m + 1
    BY <1>6, <1>7, <1>5, LenOf DEF Matrices
  <2>2. x \in V
    BY <1>8
  <2> HIDE DEF a, x, V, r, b
  <2>3. /\ r \in Seq(V) /\ Len(r) = m + 1
        /\ \A i \in 1 .. m : r[i] = a[i]
        /\ r[m + 1] = x
    BY <2>1, <2>2, AppendElements DEF r
  <2>4. ASSUME NEW i \in 1 .. m + 1 PROVE b[i] = r[i]
    <3>1. CASE i = m + 1
      BY <1>2, <1>6, <2>3, <3>1 DEF b, x
    <3>2. CASE i # m + 1
      <4>1. i \in 1 .. m
        BY <3>2
      <4> QED BY <1>2, <1>6, <1>7, <2>3, <4>1 DEF b, a
    <3> QED BY <3>1, <3>2
  <2>5. b = r
    BY <2>1, <2>3, <2>4, SeqEqual
  <2> QED BY <2>5 DEF a, b, x, r
<1>10. \A i \in 1 .. m : Coeffs(t)[i] = Coeffs(s)[i]
  BY <1>2, <1>5, <1>6, <1>7
<1>11. Coeffs(t)[m + 1] = chunk.coeffs
  BY <1>2, <1>5, <1>6
<1> QED BY ONLY <1>2, <1>4, <1>6, <1>9, <1>10, <1>11 DEF Appended

(* The chunks of the publisher itself: unit vectors of coefficients.        *)
UnitRows(A, m) == \A i, j \in 1 .. m : A[i][j] = IF i = j THEN One ELSE Zero

LEMMA UnitRowsIndependent ==
  ASSUME NEW m \in Nat \ {0}, NEW A \in Matrices(m, m), UnitRows(A, m)
  PROVE  IsLinearlyIndependent(A)
<1>1. m \in Nat
  OBVIOUS
<1>2. \A f \in Vectors(m) : Combination(f, A) = f
  BY CombinationOfUnits DEF UnitRows
<1>3. Indep(A, m, m)
  BY <1>2 DEF Indep
<1> QED BY <1>1, <1>3, IndependenceDecided

Published(n) ==
  [i \in 1 .. ChunkCount |->
     [data |-> NetworkData[i],
      coeffs |-> [j \in 1 .. ChunkCount |-> IF i = j THEN 1 ELSE 0],
      extra |-> GenerateExtras(n, NetworkData)]]

LEMMA PublishedIs ==
  ASSUME NEW n \in Nodes
  PROVE  /\ GenuineSeq(Published(n)) /\ Len(Published(n)) = ChunkCount
         /\ UnitRows(Coeffs(Published(n)), ChunkCount)
<1> DEFINE c == ChunkCount
           M == MessageVectors
           nb == networkBitsPerElement
           e == GenerateExtras(n, NetworkData)
           unit(i) == UnitVector(c, i)
<1>1. c \in Nat \ {0} /\ c \in Nat /\ M \in Matrices(c, ElementsPerChunk) /\ ElementsPerChunk \in Nat
      /\ Commitments \in Vectors(c) /\ DOMAIN Message = 1 .. c
  BY MessageIs, Sizes, MessageAssumption DEF ChunkCount
<1>2. NetworkData = [i \in 1 .. c |-> FieldElementsToBytes(M[i], nb)]
  BY <1>1 DEF NetworkData, MessageVectors
<1>3. ASSUME NEW i \in 1 .. c
      PROVE  commit(splitIntoElements(NetworkData[i])) = Commitments[i]
  <2>1. M[i] \in Vectors(ElementsPerChunk)
    BY <1>1 DEF Matrices
  <2> HIDE DEF M
  <2>2. NetworkData[i] = FieldElementsToBytes(M[i], nb)
    BY <1>2
  <2>3. splitIntoElements(NetworkData[i]) = M[i]
    BY <2>1, <2>2, PackedIs
  <2> QED BY <2>3 DEF Commitments, M
<1>4. e \in Extras /\ e.commitments = Commitments
  <2>1. DOMAIN NetworkData = 1 .. c
    BY <1>2
  <2>2. Commitments = [i \in 1 .. c |-> Commitments[i]]
    BY DEF Commitments
  <2> HIDE DEF c
  <2>3. e = [publisherID |-> n, commitments |-> Commitments]
    BY <1>3, <2>1, <2>2 DEF GenerateExtras
  <2> QED BY <1>1, <2>3, MessageIs DEF Extras, c
<1> HIDE DEF e
<1>5. ASSUME NEW i \in 1 .. c
      PROVE  Genuine([data |-> NetworkData[i], coeffs |-> unit(i), extra |-> e])
  <2> DEFINE x == unit(i)
             v == Combination(x, M)
             d == NetworkData[i]
             chunk == [data |-> d, coeffs |-> x, extra |-> e]
  <2>1. x \in Vectors(c)
    BY <1>1, UnitVectorIs
  <2>2. v = M[i]
    BY <1>1, CombinationRow
  <2>3. d = FieldElementsToBytes(v, nb)
    BY <1>2, <2>2
  <2> HIDE DEF d, v, x
  <2>4. chunk = [data |-> FieldElementsToBytes(v, nb), coeffs |-> x, extra |-> e]
    BY <2>3
  <2> HIDE DEF chunk
  <2>5. Genuine(chunk)
    BY <1>4, <2>1, <2>4, GenuineMade DEF v
  <2> QED BY <2>5 DEF chunk, x, d
<1> DEFINE s == Published(n)
<1>6. ASSUME NEW i \in 1 .. c
      PROVE  s[i] = [data |-> NetworkData[i], coeffs |-> unit(i), extra |-> e]
  BY DEF Published, UnitVector, e, One, Zero
<1>7. DOMAIN s = 1 .. c
  BY DEF Published
<1> HIDE DEF s, unit
<1>8. \A i \in 1 .. c : Genuine(s[i]) /\ s[i] \in Chunks /\ s[i].coeffs = unit(i)
  <2>1. ASSUME NEW i \in 1 .. c PROVE Genuine(s[i]) /\ s[i].coeffs = unit(i)
    <3> DEFINE r == [data |-> NetworkData[i], coeffs |-> unit(i), extra |-> e]
    <3>1. Genuine(r) /\ s[i] = r
      BY <1>5, <1>6
    <3>2. r.coeffs = unit(i)
      OBVIOUS
    <3> HIDE DEF r
    <3> QED BY <3>1, <3>2
  <2> QED BY <2>1 DEF Genuine
<1>9. s \in [1 .. c -> Chunks]
  <2>1. s = [i \in 1 .. c |-> s[i]]
    BY <1>7 DEF s, Published
  <2> QED BY <1>8, <2>1
<1>10. s \in Seq(Chunks) /\ Len(s) = c
  BY <1>1, <1>9, LenOf
<1>11. GenuineSeq(s)
  BY <1>8, <1>10 DEF GenuineSeq
<1>12. \A i \in 1 .. c : Coeffs(s)[i] = unit(i)
  BY <1>7, <1>8 DEF Coeffs
<1>13. UnitRows(Coeffs(s), c)
  BY <1>12 DEF UnitRows, unit, UnitVector
<1> QED BY <1>10, <1>11, <1>13 DEF s, c

-----------------------------------------------------------------------------
(* The invariant is inductive.                                              *)

(* It holds before anything has been published.                             *)
LEMMA GenuineInit == Init => GenuineInv
<1> SUFFICES ASSUME Init PROVE GenuineInv
  OBVIOUS
<1>1. chunks = [n \in Nodes |-> <<>>] /\ inFlight = {} /\ publishers = {}
  BY DEF Init
<1>2. Held(<<>>)
  <2>1. <<>> \in Seq(Chunks) /\ Len(<<>>) = 0
    OBVIOUS
  <2> QED BY <2>1 DEF Held, GenuineSeq
<1>3. TypeOK
  BY <1>1 DEF TypeOK
<1> QED BY <1>1, <1>2, <1>3 DEF GenuineInv

LEMMA HeldIs ==
  ASSUME GenuineInv, NEW n \in Nodes
  PROVE  GenuineSeq(chunks[n]) /\ Held(chunks[n]) /\ chunks[n] \in Seq(Chunks)
BY DEF GenuineInv, Held, GenuineSeq

LEMMA PublishedHeld ==
  ASSUME NEW n \in Nodes
  PROVE  Held(Published(n)) /\ Published(n) \in Seq(Chunks)
<1> DEFINE s == Published(n)
           c == ChunkCount
<1>1. GenuineSeq(s) /\ Len(s) = c /\ UnitRows(Coeffs(s), c) /\ c \in Nat \ {0}
  BY PublishedIs, MessageIs
<1> HIDE DEF s, c
<1>2. Coeffs(s) \in Matrices(c, ChunkCount) /\ c \in Nat
  BY <1>1, StoredIs
<1>3. IsLinearlyIndependent(Coeffs(s))
  BY <1>1, <1>2, UnitRowsIndependent DEF c
<1> QED BY <1>1, <1>3 DEF Held, GenuineSeq, s

LEMMA AppendedHeld ==
  ASSUME NEW s, Held(s), NEW chunk, Genuine(chunk), Acceptable(s, chunk)
  PROVE  Held(Append(s, chunk)) /\ Append(s, chunk) \in Seq(Chunks)
<1> DEFINE t == Append(s, chunk)
           m == Len(s)
<1>1. GenuineSeq(s) /\ m \in Nat
  BY DEF Held, GenuineSeq
<1> HIDE DEF t, m
<1>2. GenuineSeq(t) /\ Coeffs(t) = Append(Coeffs(s), chunk.coeffs)
  <2>1. t = Append(s, chunk) /\ m = Len(s)
    BY DEF t, m
  <2>2. Appended(t, s, chunk, m)
    BY <1>1, <2>1, AppendIs
  <2> QED BY <2>2 DEF Appended
<1>3. IsLinearlyIndependent(Coeffs(t))
  BY <1>2 DEF Acceptable
<1> QED BY <1>2, <1>3 DEF Held, GenuineSeq, t

(* Every step keeps it: what a publisher stores and what a node combines is *)
(* genuine, and a chunk is stored only after IsLinearlyIndependent has      *)
(* passed all of them.                                                      *)
LEMMA GenuineStep == GenuineInv /\ [Next]_vars => GenuineInv'
<1> SUFFICES ASSUME GenuineInv, [Next]_vars PROVE GenuineInv'
  OBVIOUS
<1>0. /\ chunks \in [Nodes -> Seq(Chunks)]
      /\ inFlight \subseteq [to : Nodes, chunk : Chunks]
      /\ publishers \subseteq Nodes
      /\ \A n \in Nodes : Held(chunks[n])
      /\ \A d \in inFlight : Genuine(d.chunk)
  BY DEF GenuineInv, TypeOK
<1>1. ASSUME NEW n \in Nodes, GenerateThenAddChunks(n) PROVE GenuineInv'
  <2>1. /\ chunks' = [chunks EXCEPT ![n] = Published(n)]
        /\ publishers' = publishers \cup {n} /\ inFlight' = inFlight
    BY <1>1 DEF GenerateThenAddChunks, Published
  <2>2. Held(Published(n)) /\ Published(n) \in Seq(Chunks)
    BY PublishedHeld
  <2>3. chunks' \in [Nodes -> Seq(Chunks)]
    BY <1>0, <2>1, <2>2
  <2>4. \A p \in Nodes : Held(chunks'[p])
    BY <1>0, <2>1, <2>2
  <2>5. TypeOK'
    BY <1>0, <2>1, <2>3 DEF TypeOK
  <2> QED BY <1>0, <2>1, <2>4, <2>5 DEF GenuineInv
<1>2. ASSUME NEW link \in Links, EmitChunk(link[1], link[2]) PROVE GenuineInv'
  <2> DEFINE n == link[1]
             p == link[2]
             s == chunks[n]
             m == Len(s)
  <2>1. n \in Nodes /\ p \in Nodes
    BY MessageAssumption
  <2>2. s # <<>> /\ chunks' = chunks /\ publishers' = publishers
    BY <1>2 DEF EmitChunk
  <2>3. PICK factors \in Factors(s) :
          inFlight' = inFlight \cup {[to |-> p, chunk |-> Combined(s, factors)]}
    BY <1>2 DEF EmitChunk
  <2>4. GenuineSeq(s) /\ s \in Seq(Chunks)
    BY <2>1, HeldIs
  <2> HIDE DEF s
  <2>5. m \in Nat \ {0} /\ m \in Nat
    BY <2>2, <2>4, EmptySeq
  <2> HIDE DEF m
  <2>6. factors \in Vectors(m)
    BY <2>3, <2>4, <2>5, FactorsIs DEF m
  <2> DEFINE chunk == Combined(s, factors)
  <2>7. Genuine(chunk)
    BY <2>2, <2>4, <2>5, <2>6, CombinedIs DEF m
  <2>8. inFlight' = inFlight \cup {[to |-> p, chunk |-> chunk]}
    BY <2>3
  <2> HIDE DEF chunk, n, p
  <2>9. \A d \in inFlight' : Genuine(d.chunk)
    BY <1>0, <2>7, <2>8
  <2>10. inFlight' \subseteq [to : Nodes, chunk : Chunks]
    BY <1>0, <2>1, <2>7, <2>8 DEF Genuine
  <2> QED BY <1>0, <2>2, <2>9, <2>10 DEF GenuineInv, TypeOK
<1>3. ASSUME NEW d \in inFlight, VerifyThenAddChunk(d) PROVE GenuineInv'
  <2> DEFINE s == chunks[d.to]
  <2>1. d.to \in Nodes /\ Genuine(d.chunk)
    BY <1>0
  <2>2. /\ inFlight' = inFlight \ {d} /\ publishers' = publishers
        /\ chunks' = [chunks EXCEPT ![d.to] =
                        IF Acceptable(s, d.chunk) THEN Append(s, d.chunk) ELSE s]
    BY <1>0, <1>3, <2>1 DEF VerifyThenAddChunk
  <2> DEFINE t == IF Acceptable(s, d.chunk) THEN Append(s, d.chunk) ELSE s
  <2>3. Held(s) /\ s \in Seq(Chunks)
    BY <2>1, HeldIs
  <2> HIDE DEF s
  <2>4. Held(t) /\ t \in Seq(Chunks)
    <3>1. CASE Acceptable(s, d.chunk)
      BY <2>1, <2>3, <3>1, AppendedHeld
    <3>2. CASE ~ Acceptable(s, d.chunk)
      BY <2>3, <3>2
    <3> QED BY <3>1, <3>2
  <2>5. chunks' = [chunks EXCEPT ![d.to] = t]
    BY <2>2
  <2> HIDE DEF t
  <2>6. chunks' \in [Nodes -> Seq(Chunks)]
    BY <1>0, <2>4, <2>5
  <2>7. \A p \in Nodes : Held(chunks'[p])
    BY <1>0, <2>1, <2>4, <2>5
  <2>8. TypeOK'
    BY <1>0, <2>2, <2>6 DEF TypeOK
  <2> QED BY <1>0, <2>2, <2>7, <2>8 DEF GenuineInv
<1>4. ASSUME UNCHANGED vars PROVE GenuineInv'
  BY <1>4 DEF GenuineInv, TypeOK, vars
<1> QED BY <1>1, <1>2, <1>3, <1>4 DEF Next

(* Whatever a node stores, and whatever travels, has the data that its      *)
(* coefficients make of the published chunks and carries the publisher's    *)
(* commitments; and what a node stores together has passed the check of     *)
(* independence. This is what EmitChunk, VerifyThenAddChunk and             *)
(* GenerateThenAddChunks maintain between them.                             *)
THEOREM GenuineAlways == Spec => []GenuineInv
<1>1. Init => GenuineInv
  BY GenuineInit
<1>2. GenuineInv /\ [Next]_vars => GenuineInv'
  BY GenuineStep
<1> QED BY <1>1, <1>2, PTL DEF Spec

(* The types of the variables: entries of the chunk cache and what is sent  *)
(* are chunks of the right sizes.                                           *)
THEOREM RlncTypes == Spec => []TypeOK
<1>1. GenuineInv => TypeOK
  BY DEF GenuineInv
<1> QED BY <1>1, GenuineAlways, PTL

(* Independence as the model states it is independence as the lemmas do.    *)
LEMMA IndependentIs ==
  ASSUME NEW m \in Nat \ {0}, NEW A \in Matrices(m, ChunkCount), Indep(A, m, ChunkCount)
  PROVE  Independent(A)
<1>0. ChunkCount \in Nat /\ DOMAIN A = 1 .. m
  BY MessageIs DEF Matrices
<1>1. ASSUME NEW f \in Vectors(m), NEW k \in DOMAIN f, f[k] # Zero
      PROVE  \E j \in 1 .. ChunkCount : Combination(f, A)[j] # Zero
  <2> DEFINE x == Combination(f, A)
  <2>1. x \in Vectors(ChunkCount)
    BY <1>0, CombinationIs
  <2>2. f # ZeroVector(m)
    <3>1. k \in 1 .. m
      BY DEF Vectors
    <3> QED BY <1>1, <3>1 DEF ZeroVector
  <2>3. x # ZeroVector(ChunkCount)
    BY <2>2 DEF Indep
  <2> HIDE DEF x
  <2>4. CASE \A j \in 1 .. ChunkCount : x[j] = Zero
    BY <2>1, <2>3, <2>4 DEF Vectors, ZeroVector
  <2> QED BY <2>4 DEF x
<1> QED BY <1>0, <1>1 DEF Independent, Vectors

LEMMA NothingIndependent ==
  ASSUME NEW A, DOMAIN A = {}
  PROVE  Independent(A)
BY DEF Independent

LEMMA HeldIndependent ==
  ASSUME NEW s, Held(s)
  PROVE  Independent(Coeffs(s))
<1> DEFINE m == Len(s)
<1>1. GenuineSeq(s) /\ m \in Nat /\ s \in Seq(Chunks)
  BY DEF Held, GenuineSeq
<1> HIDE DEF m
<1>2. Coeffs(s) \in Matrices(m, ChunkCount) /\ ChunkCount \in Nat
  BY <1>1, StoredIs, MessageIs DEF m
<1>3. CASE m = 0
  <2>1. DOMAIN Coeffs(s) = {}
    BY <1>2, <1>3 DEF Matrices
  <2> QED BY <2>1, NothingIndependent
<1>4. CASE m # 0
  <2>1. s # <<>>
    BY <1>4 DEF m
  <2>2. IsLinearlyIndependent(Coeffs(s))
    BY <2>1 DEF Held
  <2>3. m \in Nat \ {0}
    BY <1>1, <1>4
  <2> DEFINE A == Coeffs(s)
  <2> HIDE DEF A
  <2>4. Indep(A, m, ChunkCount)
    BY <1>2, <2>2, <2>3, IndependenceDecided DEF A
  <2> QED BY <1>2, <2>3, <2>4, IndependentIs DEF A
<1> QED BY <1>3, <1>4

(* No chunk that a node stores can be made from the others it stores, for as*)
(* long as it runs: VerifyThenAddChunk's elimination lets no dependent      *)
(* vector in.                                                               *)
THEOREM StoredIndependent == Spec => []ChunksIndependent
<1>1. GenuineInv => ChunksIndependent
  BY HeldIndependent DEF GenuineInv, ChunksIndependent
<1> QED BY <1>1, GenuineAlways, PTL

-----------------------------------------------------------------------------
(* What can be derived from stored chunks.                                  *)

LEMMA NoChunks ==
  ASSUME NEW s, GenuineSeq(s), s = <<>>
  PROVE  Coeffs(s) = <<>> /\ Span(Coeffs(s)) = {ZeroVector(ChunkCount)}
<1> DEFINE A == Coeffs(s)
<1>1. Len(s) = 0 /\ 0 \in Nat
  OBVIOUS
<1>2. A \in Matrices(0, ChunkCount)
  BY <1>1, StoredIs
<1> HIDE DEF A
<1>3. A = <<>>
  <2>1. A \in Seq(Vectors(ChunkCount)) /\ Len(A) = 0
    BY <1>1, <1>2, LenOf DEF Matrices
  <2> QED BY <2>1, EmptySeq
<1> QED BY <1>3 DEF A, Span, ZeroVector, Zero

LEMMA SpanOf ==
  ASSUME NEW m \in Nat \ {0}, NEW A \in Matrices(m, ChunkCount)
  PROVE  Span(A) = {Combination(f, A) : f \in Vectors(m)}
<1>1. A # <<>>
  <2>1. Len(A) = m /\ Len(<<>>) = 0
    BY LenOf DEF Matrices
  <2> QED BY <2>1
<1>2. DOMAIN A = 1 .. m
  BY DEF Matrices
<1> QED BY <1>1, <1>2 DEF Span, Vectors

LEMMA SpanSubspace ==
  ASSUME NEW m \in Nat \ {0}, NEW A \in Matrices(m, ChunkCount)
  PROVE  Subspace(Span(A), ChunkCount) /\ Rows(A, m, Span(A))
<1> DEFINE c == ChunkCount
           S == Span(A)
<1>1. c \in Nat /\ m \in Nat
  BY MessageIs
<1>2. S = {Combination(f, A) : f \in Vectors(m)}
  BY SpanOf
<1> HIDE DEF S, c
<1>3. S \subseteq Vectors(c)
  <2>1. \A f \in Vectors(m) : Combination(f, A) \in Vectors(c)
    BY <1>1, CombinationIs DEF c
  <2> QED BY <1>2, <2>1
<1>4. ASSUME NEW x \in S, NEW y \in S PROVE VectorAdd(x, y) \in S
  <2>1. PICK f \in Vectors(m) : x = Combination(f, A)
    BY <1>2
  <2>2. PICK g \in Vectors(m) : y = Combination(g, A)
    BY <1>2
  <2>3. VectorAdd(f, g) \in Vectors(m)
    BY <1>1, VectorAddIs
  <2>4. Combination(VectorAdd(f, g), A) = VectorAdd(x, y)
    BY <1>1, <2>1, <2>2, CombinationAdd DEF c
  <2> QED BY <1>2, <2>3, <2>4
<1>5. ASSUME NEW x \in S, NEW a \in Elements PROVE VectorMul(a, x) \in S
  <2>1. PICK f \in Vectors(m) : x = Combination(f, A)
    BY <1>2
  <2>2. VectorMul(a, f) \in Vectors(m)
    BY <1>1, VectorMulIs
  <2>3. Combination(VectorMul(a, f), A) = VectorMul(a, x)
    BY <1>1, <2>1, CombinationScale DEF c
  <2> QED BY <1>2, <2>2, <2>3
<1>6. ASSUME NEW k \in 1 .. m PROVE A[k] \in S
  <2>1. UnitVector(m, k) \in Vectors(m)
    BY <1>1, UnitVectorIs
  <2>2. Combination(UnitVector(m, k), A) = A[k]
    BY <1>1, CombinationRow DEF c
  <2> QED BY <1>2, <2>1, <2>2
<1> QED BY <1>3, <1>4, <1>5, <1>6 DEF Subspace, Rows, S, c

LEMMA ZeroSubspace ==
  ASSUME NEW w \in Nat
  PROVE  Subspace({ZeroVector(w)}, w)
<1> DEFINE z == ZeroVector(w)
<1>1. z \in Vectors(w) /\ \A j \in 1 .. w : z[j] = Zero
  BY UnitVectorIs DEF ZeroVector
<1> HIDE DEF z
<1>2. VectorAdd(z, z) = z
  <2>1. VectorAdd(z, z) \in Vectors(w) /\ \A j \in 1 .. w : VectorAdd(z, z)[j] = Add(z[j], z[j])
    BY <1>1, VectorAddIs
  <2>2. Add(Zero, Zero) = Zero
    BY AddIsGroup, FieldClosed
  <2> HIDE DEF VectorAdd
  <2> QED BY <1>1, <2>1, <2>2, VectorsEqual
<1>3. ASSUME NEW a \in Elements PROVE VectorMul(a, z) = z
  <2>1. VectorMul(a, z) \in Vectors(w) /\ \A j \in 1 .. w : VectorMul(a, z)[j] = Mul(a, z[j])
    BY <1>1, VectorMulIs
  <2>2. Mul(a, Zero) = Zero
    BY MulIsMonoid, FieldClosed
  <2> QED BY <1>1, <2>1, <2>2, VectorsEqual
<1> QED BY <1>1, <1>2, <1>3 DEF Subspace, z

LEMMA ZeroInSubspace ==
  ASSUME NEW w \in Nat, NEW S, Subspace(S, w), NEW x \in S
  PROVE  ZeroVector(w) \in S
<1>1. x \in Vectors(w) /\ VectorMul(Zero, x) \in S
  BY FieldClosed DEF Subspace
<1>2. VectorMul(Zero, x) = ZeroVector(w)
  <2>1. VectorMul(Zero, x) \in Vectors(w)
        /\ \A j \in 1 .. w : VectorMul(Zero, x)[j] = Mul(Zero, x[j]) /\ x[j] \in Elements
    BY <1>1, FieldClosed, VectorMulIs
  <2>2. \A j \in 1 .. w : VectorMul(Zero, x)[j] = ZeroVector(w)[j]
    BY <2>1, MulIsMonoid DEF ZeroVector
  <2>3. ZeroVector(w) \in Vectors(w)
    BY UnitVectorIs
  <2> QED BY <2>1, <2>2, <2>3, VectorsEqual
<1> QED BY <1>1, <1>2

(* What a node knows is closed, and within whatever closed set has all that *)
(* it stores.                                                               *)
LEMMA KnownSubspace ==
  ASSUME NEW s, GenuineSeq(s)
  PROVE  /\ Subspace(Span(Coeffs(s)), ChunkCount)
         /\ ZeroVector(ChunkCount) \in Span(Coeffs(s))
<1> DEFINE c == ChunkCount
           m == Len(s)
           A == Coeffs(s)
<1>1. c \in Nat /\ m \in Nat
  BY MessageIs DEF GenuineSeq
<1>2. CASE s = <<>>
  BY <1>1, <1>2, NoChunks, ZeroSubspace
<1>3. CASE s # <<>>
  <2>1. m \in Nat \ {0} /\ 1 \in 1 .. m
    BY <1>1, <1>3, EmptySeq DEF GenuineSeq
  <2>2. A \in Matrices(m, c)
    BY <1>1, StoredIs
  <2> HIDE DEF A, m
  <2>3. Subspace(Span(A), c) /\ Rows(A, m, Span(A))
    BY <2>1, <2>2, SpanSubspace
  <2>4. A[1] \in Span(A)
    BY <2>1, <2>3 DEF Rows
  <2> HIDE DEF c
  <2>5. ZeroVector(c) \in Span(A)
    BY <1>1, <2>3, <2>4, ZeroInSubspace
  <2> QED BY <2>3, <2>5 DEF A, c
<1> QED BY <1>2, <1>3

LEMMA SpanWithin ==
  ASSUME NEW s, GenuineSeq(s), NEW S, Subspace(S, ChunkCount), ZeroVector(ChunkCount) \in S,
         \A i \in 1 .. Len(s) : s[i].coeffs \in S
  PROVE  Span(Coeffs(s)) \subseteq S
<1> DEFINE c == ChunkCount
           m == Len(s)
           A == Coeffs(s)
<1>1. c \in Nat /\ m \in Nat
  BY MessageIs DEF GenuineSeq
<1>2. CASE s = <<>>
  BY <1>2, NoChunks
<1>3. CASE s # <<>>
  <2>1. m \in Nat \ {0}
    BY <1>1, <1>3, EmptySeq DEF GenuineSeq
  <2>2. A \in Matrices(m, c) /\ \A i \in 1 .. m : A[i] = s[i].coeffs
    BY <1>1, StoredIs
  <2>3. Rows(A, m, S)
    BY <2>2 DEF Rows
  <2> HIDE DEF A, m, c
  <2>4. Span(A) = {Combination(f, A) : f \in Vectors(m)}
    BY <2>1, <2>2, SpanOf DEF c
  <2>5. ASSUME NEW f \in Vectors(m) PROVE Combination(f, A) \in S
    BY <1>1, <2>1, <2>2, <2>3, CombinationInSubspace DEF c
  <2> QED BY <2>4, <2>5 DEF A
<1> QED BY <1>2, <1>3

LEMMA RowsKnown ==
  ASSUME NEW s, GenuineSeq(s), NEW i \in 1 .. Len(s)
  PROVE  s[i].coeffs \in Span(Coeffs(s))
<1> DEFINE m == Len(s)
           A == Coeffs(s)
<1>1. m \in Nat \ {0} /\ m \in Nat /\ i \in 1 .. m
  <2>1. m \in Nat
    BY DEF GenuineSeq
  <2> HIDE DEF m
  <2>2. i \in 1 .. m
    BY DEF m
  <2> QED BY <2>1, <2>2
<1>2. A \in Matrices(m, ChunkCount) /\ A[i] = s[i].coeffs
  BY <1>1, StoredIs
<1> HIDE DEF A, m
<1>3. Rows(A, m, Span(A))
  BY <1>1, <1>2, SpanSubspace
<1> QED BY <1>1, <1>2, <1>3 DEF Rows, A

(* Adding a chunk keeps what was known, and a publisher knows everything.   *)
LEMMA AppendKeeps ==
  ASSUME NEW s, GenuineSeq(s), NEW chunk, Genuine(chunk)
  PROVE  Span(Coeffs(s)) \subseteq Span(Coeffs(Append(s, chunk)))
<1> DEFINE m == Len(s)
           t == Append(s, chunk)
           S == Span(Coeffs(t))
<1>1. m \in Nat
  BY DEF GenuineSeq
<1>2. Appended(t, s, chunk, m)
  BY <1>1, AppendIs
<1> HIDE DEF t
<1>3. GenuineSeq(t) /\ Len(t) = m + 1 /\ \A i \in 1 .. m : Coeffs(t)[i] = Coeffs(s)[i]
  BY <1>2 DEF Appended
<1>4. Subspace(S, ChunkCount) /\ ZeroVector(ChunkCount) \in S
  BY <1>3, KnownSubspace
<1>5. ASSUME NEW i \in 1 .. m PROVE s[i].coeffs \in S
  <2>1. i \in 1 .. Len(t) /\ m + 1 \in Nat
    BY <1>1, <1>3
  <2>2. t[i].coeffs \in S
    BY <1>3, <2>1, RowsKnown
  <2>3. Coeffs(t)[i] = t[i].coeffs
    BY <1>3, <2>1, StoredIs
  <2>4. Coeffs(s)[i] = s[i].coeffs
    BY <1>1, StoredIs
  <2> QED BY <1>3, <2>2, <2>3, <2>4
<1> HIDE DEF S, m
<1>6. Span(Coeffs(s)) \subseteq S
  BY <1>4, <1>5, SpanWithin DEF m
<1> QED BY <1>6 DEF S, t

LEMMA PublisherKnows ==
  ASSUME NEW s, GenuineSeq(s), NEW n \in Nodes
  PROVE  Span(Coeffs(s)) \subseteq Span(Coeffs(Published(n)))
<1> DEFINE c == ChunkCount
           t == Published(n)
           A == Coeffs(t)
<1>1. GenuineSeq(t) /\ Len(t) = c /\ UnitRows(A, c) /\ c \in Nat \ {0} /\ c \in Nat
  BY PublishedIs, MessageIs
<1> HIDE DEF t
<1>2. A \in Matrices(c, ChunkCount)
  BY <1>1, StoredIs
<1> HIDE DEF A
<1>3. Span(A) = {Combination(f, A) : f \in Vectors(c)}
  BY <1>1, <1>2, SpanOf
<1>4. \A f \in Vectors(c) : Combination(f, A) = f
  BY <1>1, <1>2, CombinationOfUnits DEF UnitRows
<1>5. Span(A) = Vectors(c)
  <2> HIDE DEF c
  <2> QED BY <1>3, <1>4
<1>6. Span(Coeffs(s)) \subseteq Vectors(c)
  BY KnownSubspace DEF Subspace
<1> QED BY <1>5, <1>6 DEF A, t

(* Adding chunks, one's own or others', never loses what could be derived   *)
(* from what was stored.                                                    *)
THEOREM KnowledgeIsKept == Spec => KnowledgeKept
<1>1. ASSUME GenuineInv, [Next]_vars
      PROVE  \A n \in Nodes : chunks'[n] # chunks[n] => Known(n) \subseteq Known(n)'
  <2>0. /\ chunks \in [Nodes -> Seq(Chunks)]
        /\ \A n \in Nodes : GenuineSeq(chunks[n])
        /\ \A d \in inFlight : Genuine(d.chunk) /\ d.to \in Nodes
    BY <1>1, HeldIs DEF GenuineInv, TypeOK
  <2> SUFFICES ASSUME NEW n \in Nodes, chunks'[n] # chunks[n]
               PROVE  Span(Coeffs(chunks[n])) \subseteq Span(Coeffs(chunks'[n]))
    BY DEF Known
  <2>1. ASSUME NEW p \in Nodes, GenerateThenAddChunks(p)
        PROVE  Span(Coeffs(chunks[n])) \subseteq Span(Coeffs(chunks'[n]))
    <3>1. chunks' = [chunks EXCEPT ![p] = Published(p)]
      BY <2>1 DEF GenerateThenAddChunks, Published
    <3>2. chunks'[n] = Published(n)
      BY <2>0, <3>1
    <3> QED BY <2>0, <3>2, PublisherKnows
  <2>2. ASSUME NEW link \in Links, EmitChunk(link[1], link[2]) PROVE FALSE
    BY <2>2 DEF EmitChunk
  <2>3. ASSUME NEW d \in inFlight, VerifyThenAddChunk(d)
        PROVE  Span(Coeffs(chunks[n])) \subseteq Span(Coeffs(chunks'[n]))
    <3>1. chunks'[n] = Append(chunks[n], d.chunk)
      BY <2>0, <2>3 DEF VerifyThenAddChunk
    <3> QED BY <2>0, <3>1, AppendKeeps
  <2>4. chunks' # chunks
    OBVIOUS
  <2> QED BY <1>1, <2>1, <2>2, <2>3, <2>4 DEF Next, vars
<1> QED BY <1>1, GenuineAlways, PTL DEF Spec, KnowledgeKept

(* What depends on independent vectors is a combination of them.            *)
LEMMA SolveFor ==
  ASSUME NEW a \in Elements, a # Zero, NEW u \in Elements, NEW y \in Elements,
         Add(u, Mul(a, y)) = Zero
  PROVE  /\ Mul(MinusOne, Inv(a)) \in Elements
         /\ y = Mul(Mul(MinusOne, Inv(a)), u)
<1> DEFINE i == Inv(a)
           k == Mul(MinusOne, u)
           z == Mul(a, y)
<1>1. /\ i \in Elements /\ Mul(a, i) = One /\ MinusOne \in Elements
      /\ k \in Elements /\ z \in Elements /\ Mul(MinusOne, i) \in Elements
  BY InverseExists, SubIsAdd, FieldClosed
<1>2. Add(u, k) = Zero
  <2>1. Sub(u, u) = Zero
    BY AddIsGroup
  <2> QED BY <2>1, SubIsAdd
<1>3. z = k
  <2> HIDE DEF k, z
  <2>1. Add(z, u) = Add(u, z) /\ Add(k, u) = Add(u, k)
    BY <1>1, AddIsGroup
  <2>2. Add(z, u) = Add(k, u)
    BY <1>2, <2>1 DEF z
  <2> QED BY <1>1, <2>2, AddCancels
<1> HIDE DEF i
<1>4. y = Mul(i, z)
  <2>1. Mul(i, Mul(a, y)) = Mul(Mul(i, a), y) /\ Mul(i, a) = Mul(a, i) /\ Mul(One, y) = y
    BY <1>1, MulIsMonoid
  <2> QED BY <1>1, <2>1
<1>5. Mul(i, k) = Mul(Mul(MinusOne, i), u)
  <2>1. Mul(i, Mul(MinusOne, u)) = Mul(Mul(i, MinusOne), u) /\ Mul(i, MinusOne) = Mul(MinusOne, i)
    BY <1>1, MulIsMonoid
  <2> QED BY <2>1
<1> QED BY <1>1, <1>3, <1>4, <1>5 DEF i

LEMMA DependentRow ==
  ASSUME NEW w \in Nat, NEW S, Subspace(S, w), NEW u \in S, NEW x \in Vectors(w),
         NEW a \in Elements, a # Zero, VectorAdd(u, VectorMul(a, x)) = ZeroVector(w)
  PROVE  x \in S
<1> DEFINE b == Mul(MinusOne, Inv(a))
           y == VectorMul(a, x)
           z == VectorMul(b, u)
<1>1. u \in Vectors(w)
  BY DEF Subspace
<1>2. y \in Vectors(w) /\ \A j \in 1 .. w : y[j] = Mul(a, x[j]) /\ x[j] \in Elements
  BY VectorMulIs
<1> HIDE DEF y
<1>3. \A j \in 1 .. w : VectorAdd(u, y)[j] = Add(u[j], y[j]) /\ u[j] \in Elements
  BY <1>1, <1>2, VectorAddIs
<1>4. \A j \in 1 .. w : Add(u[j], Mul(a, x[j])) = Zero
  <2>1. \A j \in 1 .. w : VectorAdd(u, y)[j] = Zero
    BY DEF ZeroVector, y
  <2> QED BY <1>2, <1>3, <2>1
<1>5. b \in Elements
  BY InverseExists, SubIsAdd, FieldClosed
<1>6. \A j \in 1 .. w : x[j] = Mul(b, u[j])
  BY <1>2, <1>3, <1>4, SolveFor
<1> HIDE DEF b
<1>7. z \in Vectors(w) /\ \A j \in 1 .. w : z[j] = Mul(b, u[j])
  BY <1>1, <1>5, VectorMulIs
<1>8. z \in S
  BY <1>5 DEF Subspace
<1> HIDE DEF z
<1>9. x = z
  BY <1>6, <1>7, VectorsEqual
<1> QED BY <1>8, <1>9

LEMMA RefusedKnown ==
  ASSUME NEW s, Held(s), NEW chunk, Genuine(chunk), ~ Acceptable(s, chunk)
  PROVE  chunk.coeffs \in Span(Coeffs(s))
<1> DEFINE m == Len(s)
           w == ChunkCount
           t == Append(s, chunk)
           A == Coeffs(s)
           B == Coeffs(t)
           x == chunk.coeffs
           S == Span(A)
<1>1. GenuineSeq(s) /\ m \in Nat /\ m + 1 \in Nat \ {0} /\ w \in Nat
  BY MessageIs DEF Held, GenuineSeq
<1>2. Appended(t, s, chunk, m)
  BY <1>1, AppendIs
<1>3. A \in Matrices(m, w)
  BY <1>1, StoredIs
<1>4. x \in Vectors(w)
  BY GenuineIs
<1>5. Subspace(S, w) /\ ZeroVector(w) \in S
  BY <1>1, KnownSubspace
<1> HIDE DEF t
<1>6. /\ B \in Matrices(m + 1, w) /\ B = Append(A, x)
      /\ \A i \in 1 .. m : B[i] = A[i]
      /\ B[m + 1] = x
  BY <1>2 DEF Appended
<1>7. ~ IsLinearlyIndependent(B)
  BY <1>6, GenuineVerifies DEF Acceptable
<1>8. s # <<>> => IsLinearlyIndependent(A)
  BY DEF Held
<1>9. s = <<>> => m = 0
  OBVIOUS
<1> HIDE DEF m, w, A, B, S, x
<1>10. PICK f \in Vectors(m + 1) : Combination(f, B) = ZeroVector(w) /\ f # ZeroVector(m + 1)
  <2>1. ~ Indep(B, m + 1, w)
    BY <1>1, <1>6, <1>7, IndependenceDecided
  <2> QED BY <2>1 DEF Indep
<1> DEFINE a == f[m + 1]
<1>11. a \in Elements
  BY <1>1 DEF Vectors
<1>12. CASE m = 0
  <2>1. B \in Matrices(1, w) /\ f \in Vectors(1) /\ B[1] = x /\ a = f[1]
        /\ Combination(f, B) = ZeroVector(w) /\ f # ZeroVector(1)
    BY <1>6, <1>10, <1>12
  <2>2. Combination(f, B) = VectorMul(a, x)
    BY <1>1, <2>1, CombinationOfOne
  <2>3. a # Zero
    <3>1. ASSUME a = Zero PROVE f = ZeroVector(1)
      <4>0. f[1] = Zero /\ \A i \in 1 .. 1 : i = 1
        BY <2>1, <3>1
      <4>1. \A i \in 1 .. 1 : f[i] = ZeroVector(1)[i]
        BY <4>0 DEF ZeroVector
      <4>2. ZeroVector(1) \in Vectors(1) /\ 1 \in Nat
        BY UnitVectorIs
      <4> QED BY <2>1, <4>1, <4>2, VectorsEqual
    <3> QED BY <2>1, <3>1
  <2> DEFINE z == ZeroVector(w)
             y == VectorMul(a, x)
  <2>4. y \in Vectors(w) /\ z \in Vectors(w) /\ y = z
    BY <1>1, <1>4, <1>11, <2>1, <2>2, VectorMulIs, UnitVectorIs
  <2>5. VectorAdd(z, z) = z
    <3>1. Subspace({z}, w)
      BY <1>1, ZeroSubspace
    <3> HIDE DEF z
    <3> QED BY <3>1 DEF Subspace
  <2>6. VectorAdd(z, y) = z
    BY <2>4, <2>5
  <2> HIDE DEF a
  <2>7. x \in S
    BY <1>1, <1>4, <1>5, <1>11, <2>3, <2>6, DependentRow
  <2> QED BY <2>7 DEF x, S, A
<1>13. CASE m # 0
  <2> DEFINE g == FirstRows(f, m)
             u == Combination(g, A)
  <2>0. m \in Nat \ {0}
    BY <1>1, <1>13
  <2>1. A = FirstRows(B, m)
    <3>1. A = [k \in 1 .. m |-> A[k]]
      BY <1>3 DEF Matrices
    <3>2. [k \in 1 .. m |-> A[k]] = [k \in 1 .. m |-> B[k]]
      BY <1>6
    <3> QED BY <3>1, <3>2 DEF FirstRows
  <2>2. g \in Vectors(m) /\ Combination(f, B) = VectorAdd(u, VectorMul(a, x))
    BY <1>1, <1>6, <1>10, <2>0, <2>1, FirstRowsOf
  <2>3. u \in S
    BY <2>0, <1>3, <2>2, SpanOf DEF S, w
  <2>4. a # Zero
    <3>1. ASSUME a = Zero PROVE FALSE
      <4>1. VectorMul(a, x) = ZeroVector(w)
        <5>1. VectorMul(a, x) \in Vectors(w)
              /\ \A j \in 1 .. w : VectorMul(a, x)[j] = Mul(a, x[j]) /\ x[j] \in Elements
          BY <1>1, <1>4, <1>11, VectorMulIs
        <5>2. \A j \in 1 .. w : VectorMul(a, x)[j] = ZeroVector(w)[j]
          BY <3>1, <5>1, MulIsMonoid DEF ZeroVector
        <5>3. ZeroVector(w) \in Vectors(w)
          BY <1>1, UnitVectorIs
        <5> QED BY <1>1, <5>1, <5>2, <5>3, VectorsEqual
      <4>2. u \in Vectors(w)
        BY <1>1, <2>0, <1>3, <2>2, CombinationIs
      <4>3. VectorAdd(u, ZeroVector(w)) = u
        <5> HIDE DEF u, a
        <5> DEFINE z == ZeroVector(w)
                   v == VectorAdd(u, z)
        <5>1. z \in Vectors(w) /\ \A j \in 1 .. w : z[j] = Zero
          BY <1>1, UnitVectorIs DEF ZeroVector
        <5> HIDE DEF z
        <5>2. v \in Vectors(w) /\ \A j \in 1 .. w : v[j] = Add(u[j], z[j]) /\ u[j] \in Elements
          BY <1>1, <4>2, <5>1, VectorAddIs
        <5> HIDE DEF v
        <5>3. \A j \in 1 .. w : v[j] = u[j]
          BY <5>1, <5>2, AddIsGroup
        <5>4. v = u
          BY <1>1, <4>2, <5>2, <5>3, VectorsEqual
        <5> QED BY <5>4 DEF v, z
      <4>4. Combination(g, A) = ZeroVector(w)
        BY <1>10, <2>2, <4>1, <4>3
      <4>5. Indep(A, m, w)
        BY <1>1, <1>3, <1>8, <1>9, <1>13, <2>0, IndependenceDecided
      <4>6. g = ZeroVector(m)
        BY <2>2, <4>4, <4>5 DEF Indep
      <4>7. \A i \in 1 .. m : f[i] = Zero
        <5>1. \A i \in 1 .. m : g[i] = f[i]
          BY DEF FirstRows
        <5> HIDE DEF g
        <5> QED BY <4>6, <5>1 DEF ZeroVector
      <4>8. \A i \in 1 .. m + 1 : f[i] = ZeroVector(m + 1)[i]
        BY <1>1, <3>1, <4>7 DEF ZeroVector
      <4>9. ZeroVector(m + 1) \in Vectors(m + 1) /\ m + 1 \in Nat
        BY <1>1, UnitVectorIs
      <4>10. f = ZeroVector(m + 1)
        BY <1>10, <4>8, <4>9, VectorsEqual
      <4> QED BY <1>10, <4>10
    <3> QED BY <3>1
  <2>5. VectorAdd(u, VectorMul(a, x)) = ZeroVector(w)
    BY <1>10, <2>2
  <2> HIDE DEF a, u
  <2>6. x \in S
    BY <1>1, <1>4, <1>5, <1>11, <2>3, <2>4, <2>5, DependentRow
  <2> QED BY <2>6 DEF x, S, A
<1> QED BY <1>12, <1>13 DEF x, S, A

(* A genuine chunk that VerifyThenAddChunk refuses could be derived from    *)
(* what the node stores already: the check of the commitments refuses       *)
(* nothing that encoders make, and the check of independence only what      *)
(* depends on the rest.                                                     *)
THEOREM RefusedOnlyUseless == Spec => RefusedIsUseless
<1>1. ASSUME GenuineInv, [Next]_vars
      PROVE  \A d \in inFlight \ inFlight' :
               chunks'[d.to] = chunks[d.to] => d.chunk.coeffs \in Known(d.to)
  <2> SUFFICES ASSUME NEW d \in inFlight, d \notin inFlight', chunks'[d.to] = chunks[d.to]
               PROVE  d.chunk.coeffs \in Known(d.to)
    OBVIOUS
  <2>1. ~ \E n \in Nodes : GenerateThenAddChunks(n)
    BY DEF GenerateThenAddChunks
  <2>2. ~ \E link \in Links : EmitChunk(link[1], link[2])
    BY DEF EmitChunk
  <2>3. inFlight' # inFlight
    OBVIOUS
  <2>4. PICK b \in inFlight : VerifyThenAddChunk(b)
    BY <1>1, <2>1, <2>2, <2>3 DEF Next, vars
  <2>5. b = d
    BY <2>4 DEF VerifyThenAddChunk
  <2> DEFINE s == chunks[d.to]
  <2>6. d.to \in Nodes /\ chunks \in [Nodes -> Seq(Chunks)] /\ Genuine(d.chunk) /\ Held(s)
        /\ s \in Seq(Chunks) /\ d.chunk \in Chunks
    BY <1>1, HeldIs DEF GenuineInv, TypeOK
  <2>7. s = IF Acceptable(s, d.chunk) THEN Append(s, d.chunk) ELSE s
    BY <2>4, <2>5, <2>6 DEF VerifyThenAddChunk
  <2> HIDE DEF s
  <2>8. ~ Acceptable(s, d.chunk)
    <3>1. Len(Append(s, d.chunk)) = Len(s) + 1 /\ Len(s) \in Nat
      BY <2>6, AppendElements
    <3>2. Append(s, d.chunk) # s
      BY <3>1
    <3> QED BY <2>7, <3>2
  <2>9. d.chunk.coeffs \in Span(Coeffs(s))
    BY <2>6, <2>8, RefusedKnown
  <2> QED BY <2>9 DEF Known, s
<1> QED BY <1>1, GenuineAlways, PTL DEF Spec, RefusedIsUseless

(* A node that knows something new stores a chunk that is new, and may      *)
(* happen to send just that one; this takes factors that are not all zero.  *)
LEMMA UnitFactors ==
  ASSUME MaxCoefficientBits # 0, NEW s \in Seq(Chunks), NEW m \in Nat, m = Len(s), NEW i \in 1 .. m
  PROVE  UnitVector(m, i) \in Factors(s)
<1>1. 0 \in RandomMax(MaxCoefficientBits) /\ 1 \in RandomMax(MaxCoefficientBits)
  <2> DEFINE n == PowerOfTwo[MaxCoefficientBits]
  <2>1. 1 < n /\ n \in Nat
    <3>1. MaxCoefficientBits \in Nat /\ MaxCoefficientBits >= 1
      BY ConfigAssumption
    <3>2. MaxCoefficientBits < n /\ n \in Nat
      BY <3>1, PowerGrows, PowerRecurses
    <3> HIDE DEF n
    <3> QED BY <3>1, <3>2
  <2> HIDE DEF n
  <2>2. 0 \in 0 .. n - 1 /\ 1 \in 0 .. n - 1
    BY <2>1
  <2>3. 0 % P = 0 /\ 1 % P = 1
    BY PIsPositive
  <2> QED BY <2>2, <2>3 DEF RandomMax, n
<1>2. Factors(s) = [1 .. m -> RandomMax(MaxCoefficientBits)]
  BY FactorsIs
<1> QED BY <1>1, <1>2 DEF UnitVector, Zero, One

(* A node that knows something another does not may emit, by chance of its  *)
(* factors, a chunk that the other does not refuse. Some factor must be able*)
(* to differ from zero for that, and with MaxCoefficientBits at 0, which    *)
(* NewRlncEncoder accepts, none is.                                         *)
THEOREM HelpIsPossible ==
  ASSUME MaxCoefficientBits # 0
  PROVE  Spec => []HelpPossible
<1>1. ASSUME GenuineInv PROVE HelpPossible
  <2> SUFFICES ASSUME NEW n \in Nodes, NEW p \in Nodes,
                      chunks[n] # <<>>, ~ (Known(n) \subseteq Known(p))
               PROVE  \E factors \in Factors(chunks[n]) :
                        Acceptable(chunks[p], Combined(chunks[n], factors))
    BY DEF HelpPossible
  <2> DEFINE s == chunks[n]
             t == chunks[p]
             m == Len(s)
             S == Span(Coeffs(t))
  <2>1. GenuineSeq(s) /\ s \in Seq(Chunks) /\ Held(t) /\ GenuineSeq(t) /\ s # <<>>
    BY <1>1, HeldIs
  <2>2. ~ (Span(Coeffs(s)) \subseteq S)
    BY DEF Known
  <2>3. Subspace(S, ChunkCount) /\ ZeroVector(ChunkCount) \in S
    BY <2>1, KnownSubspace
  <2> HIDE DEF s, t, S
  <2>4. PICK i \in 1 .. m : s[i].coeffs \notin S
    BY <2>1, <2>2, <2>3, SpanWithin
  <2>5. m \in Nat \ {0} /\ m \in Nat
    BY <2>1, EmptySeq
  <2> HIDE DEF m
  <2> DEFINE f == UnitVector(m, i)
             chunk == Combined(s, f)
             A == Coeffs(s)
  <2>6. f \in Vectors(m) /\ f \in Factors(s)
    BY <2>1, <2>5, UnitVectorIs, UnitFactors DEF m
  <2>7. A \in Matrices(m, ChunkCount) /\ A[i] = s[i].coeffs /\ ChunkCount \in Nat
    BY <2>1, <2>5, StoredIs, MessageIs DEF m
  <2>8. Combination(f, A) = A[i]
    BY <2>5, <2>7, CombinationRow
  <2> HIDE DEF f
  <2>9. Genuine(chunk) /\ chunk.coeffs = Combination(f, A)
    BY <2>1, <2>5, <2>6, CombinedIs DEF m
  <2> HIDE DEF chunk, A
  <2>10. chunk.coeffs \notin S
    BY <2>4, <2>7, <2>8, <2>9
  <2>11. Acceptable(t, chunk)
    BY <2>1, <2>9, <2>10, RefusedKnown DEF S
  <2> QED BY <2>6, <2>11 DEF chunk, s, t
<1> QED BY <1>1, GenuineAlways, PTL

(* A node that has as many chunks as there were decodes the message.        *)
LEMMA HeldDecodes ==
  ASSUME NEW s, Held(s), s # <<>>, Len(s) >= GetMinChunksForReconstruction(s)
  PROVE  ReconstructMessage(s) = Message
<1> DEFINE c == ChunkCount
           m == Len(s)
           A == Coeffs(s)
           D == Datas(s)
           R == InvertMatrix(A)
           mb == messageBitsPerElement
<1>1. /\ GenuineSeq(s) /\ m \in Nat \ {0} /\ m \in Nat
      /\ c \in Nat \ {0} /\ c \in Nat /\ ElementsPerChunk \in Nat
      /\ IsLinearlyIndependent(A)
  BY EmptySeq, MessageIs, Sizes DEF Held, GenuineSeq
<1>2. A \in Matrices(m, c) /\ D = Image(DecodeMap, A)
  BY <1>1, StoredIs
<1>3. m >= c
  <2>1. Genuine(s[1])
    BY <1>1 DEF GenuineSeq
  <2>2. s[1].coeffs \in Vectors(c)
    BY <2>1, GenuineIs
  <2>3. Len(s[1].coeffs) = c
    BY <1>1, <2>2, LenOf DEF Vectors
  <2> QED BY <2>3 DEF GetMinChunksForReconstruction
<1> HIDE DEF A, D, R, m
<1>4. m = c
  <2>1. m <= c
    BY <1>1, <1>2, IndependenceDecided
  <2> QED BY <1>1, <1>3, <2>1
<1>5. A \in Matrices(c, c) /\ Linear(DecodeMap, c, ElementsPerChunk)
  BY <1>2, <1>4, DecodeLinear
<1>6. R \in Matrices(c, c) /\ \A i \in 1 .. c : Combination(R[i], A) = UnitVector(c, i)
  BY <1>1, <1>5, InverseFound DEF R
<1>7. ASSUME NEW i \in 1 .. c PROVE Combination(R[i], D) = MessageVectors[i]
  <2> DEFINE f == R[i]
             u == UnitVector(c, i)
  <2>1. f \in Vectors(c) /\ u \in Vectors(c) /\ Combination(f, A) = u
    BY <1>1, <1>6, UnitVectorIs DEF Matrices
  <2> HIDE DEF f, u, c
  <2>2. DecodeMap[Combination(f, A)] = Combination(f, Image(DecodeMap, A))
    BY <1>1, <1>5, <2>1, LinearCombination
  <2>3. DecodeMap[u] = Combination(u, MessageVectors)
    BY <2>1 DEF DecodeMap, c
  <2>4. Combination(u, MessageVectors) = MessageVectors[i]
    BY <1>1, MessageIs, CombinationRow DEF u, c
  <2> QED BY <1>2, <2>1, <2>2, <2>3, <2>4 DEF f
<1>8. RecoverVectors(A, D) = [i \in 1 .. c |-> MessageVectors[i]]
  <2>1. R # Singular /\ DOMAIN R = 1 .. c
    <3>1. Len(R) = c /\ Len(Singular) = 0 /\ DOMAIN R = 1 .. c
      BY <1>1, <1>6, LenOf DEF Matrices, Singular
    <3> QED BY <1>1, <3>1
  <2>2. RecoverVectors(A, D) = [i \in 1 .. c |-> Combination(R[i], D)]
    BY <2>1 DEF RecoverVectors, MatrixMultiply, R
  <2> HIDE DEF c
  <2> QED BY <1>7, <2>2
<1>9. ReconstructMessage(s) = [i \in 1 .. c |-> FieldElementsToBytes(MessageVectors[i], mb)]
  <2>1. ReconstructMessage(s) =
          LET vectors == RecoverVectors(A, D)
          IN  [i \in DOMAIN vectors |-> FieldElementsToBytes(vectors[i], mb)]
    BY DEF ReconstructMessage, Datas, A, D
  <2> HIDE DEF c, mb
  <2> QED BY <1>8, <2>1
<1>10. [i \in 1 .. c |-> FieldElementsToBytes(MessageVectors[i], mb)] = [i \in 1 .. c |-> Message[i]]
  BY MessageIs
<1>11. Message = [i \in 1 .. c |-> Message[i]]
  BY MessageAssumption DEF ChunkCount
<1> QED BY <1>9, <1>10, <1>11

(* With as many chunks as were published a node reconstructs the published  *)
(* message, bit by bit: inverting the coefficients undoes the combination,  *)
(* and the packing undoes itself.                                           *)
THEOREM ReconstructionIsExact == Spec => []ReconstructionExact
<1>1. ASSUME GenuineInv PROVE ReconstructionExact
  BY <1>1, HeldIs, HeldDecodes DEF ReconstructionExact
<1> QED BY <1>1, GenuineAlways, PTL
=============================================================================
