-------------------------------- MODULE BinaryField --------------------------------
(***************************************************************************)
(* The binary fields of src/ec/field/binary.go.  The code keeps an element *)
(* as the big integer of its coefficients; here it is the set of the       *)
(* exponents whose coefficient is one, so that x^2 + 1 is {2, 0}, shifting *)
(* adds to the exponents and exclusive or is the symmetric difference.     *)
(***************************************************************************)
EXTENDS Integers, Sequences, SequencesExt, FiniteSetsExt

CONSTANTS
  Degree,       \* BinaryField.n
  Irreducible   \* BinaryField.irreducible

Elements == SUBSET (0 .. Degree - 1)
Zero == {}
One == {0}

Shifted(a, n) == {i + n : i \in a}
Add(a, b) == (a \ b) \cup (b \ a)
Sub(a, b) == Add(a, b)

(* The position of the highest bit; the code's BitLen less one.            *)
High(a) == IF a = {} THEN -1 ELSE Max(a)

-----------------------------------------------------------------------------
(* Polynomials.  Each loop of the code is a fold over the positions that it *)
(* visits, a list of which ends where the loop does at the latest.          *)

Descending(from, to) == [i \in 1 .. from - to + 1 |-> from - i + 1]

polyMul(a, b) == FoldSet(LAMBDA i, sum : Add(sum, Shifted(a, i)), {}, b)

polyDivMod(a, b) ==
  FoldLeft(LAMBDA s, pos :
             IF pos \notin s.remainder THEN s
             ELSE [quotient  |-> s.quotient \cup {pos - High(b)},
                   remainder |-> Add(s.remainder, Shifted(b, pos - High(b)))],
           [quotient |-> {}, remainder |-> a], Descending(High(a), High(b)))

(* Mutant: the highest coefficient is kept. *)
reduceOneShort(val) ==
  FoldLeft(LAMBDA r, pos :
             IF pos \in r THEN Add(r, Shifted(Irreducible, pos - High(Irreducible))) ELSE r,
           val, Descending(High(val), Degree + 1))

(* A bit that the shifted polynomial does not reach is cleared all the same.*)
reduce(val) ==
  FoldLeft(LAMBDA r, pos :
             IF pos \notin r THEN r
             ELSE IF pos < High(Irreducible) THEN r \ {pos}
             ELSE Add(r, Shifted(Irreducible, pos - High(Irreducible))) \ {pos},
           val, Descending(High(val), Degree))

Mul(a, b) == reduce(polyMul(a, b))

(* Extended Euclid.  The remainder loses a degree in every round.           *)
Euclid(s, round) ==
  IF s.r = {} THEN s
  ELSE LET d == polyDivMod(s.old_r, s.r)
       IN  [old_r |-> s.r, r |-> d.remainder,
            old_s |-> s.s, s |-> Add(s.old_s, polyMul(d.quotient, s.s))]

Inv(a) ==
  FoldLeft(Euclid, [old_r |-> Irreducible, r |-> a, old_s |-> {}, s |-> One],
           Descending(Degree, 0)).old_s

ASSUME IrreducibleAssumption ==
  /\ Degree \in Nat \ {0} /\ Irreducible \subseteq 0 .. Degree /\ Degree \in Irreducible
  /\ \A a, b \in Elements : polyMul(a, b) # Irreducible

-----------------------------------------------------------------------------
BitsPerElement == Degree
BitsPerDataElement == Degree

(* The most significant bit comes first; the value is cut to Degree bits.   *)
FromBits(bits) ==
  {Len(bits) - i : i \in {j \in DOMAIN bits : bits[j] = 1}} \cap 0 .. Degree - 1
Bits(a, k) == [i \in 1 .. k |-> IF k - i \in a THEN 1 ELSE 0]
=============================================================================
