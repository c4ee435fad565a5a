-------------------------------- MODULE PrimeField --------------------------------
(***************************************************************************)
(* The prime fields of src/ec/field/prime.go.  An element is its value.    *)
(***************************************************************************)
EXTENDS Naturals, Sequences, SequencesExt

CONSTANT P   \* the modulus

ASSUME PrimeAssumption == P \in Nat \ {0, 1} /\ \A a \in 2 .. P - 1 : P % a # 0

Elements == 0 .. P - 1
Zero == 0
One == 1

Add(a, b) == (a + b) % P
Sub(a, b) == (a + P - b) % P
Mul(a, b) == (a * b) % P
Inv(a) == CHOOSE b \in Elements : Mul(a, b) = One

(* 2 ^ n; the provers know its recursion and nothing of the operator. *)
PowerOfTwo[n \in Nat] == IF n = 0 THEN 1 ELSE 2 * PowerOfTwo[n - 1]

(* RandomMax: whatever the random source may give. *)
RandomMax(maxBits) == {a % P : a \in 0 .. PowerOfTwo[maxBits] - 1}

BitsPerElement == CHOOSE n \in 1 .. P : PowerOfTwo[n - 1] <= P /\ P < PowerOfTwo[n]
BitsPerDataElement == BitsPerElement - 1

(* The most significant bit comes first. *)
FromBits(bits) ==
  LET value[i \in 0 .. Len(bits)] == IF i = 0 THEN 0 ELSE 2 * value[i - 1] + bits[i]
  IN  value[Len(bits)] % P
Bits(a, k) == [i \in 1 .. k |-> (a \div PowerOfTwo[k - i]) % 2]
=============================================================================
