------------------------------- MODULE FieldMatrix -------------------------------
(***************************************************************************)
(* The packing of field elements into bytes (src/ec/field/bits.go) and the *)
(* algorithms on matrices over a field (matrix.go).  The field is any that *)
(* offers these operations, as field.Field is for the code.  A matrix is a *)
(* sequence of rows and a byte string the sequence of its bits.            *)
(***************************************************************************)
EXTENDS Naturals, Sequences, SequencesExt

CONSTANTS
  Zero, One, Add(_, _), Sub(_, _), Mul(_, _), Inv(_),   \* field.Element
  FromBits(_),   \* the element of a string of bits
  Bits(_, _),    \* the last so many bits of an element
  ByteBits       \* bits of a byte

BitStrings(n) == [1 .. n -> {0, 1}]

-----------------------------------------------------------------------------
(* bits.go *)

(* Bits that do not fill an element are discarded ...                       *)
SplitBitsToFieldElements(data, k) ==
  [j \in 1 .. Len(data) \div k |-> FromBits(SubSeq(data, (j - 1) * k + 1, j * k))]

(* ... and the last byte is filled up with zeros.                           *)
FieldElementsToBytes(elements, k) ==
  LET packed == FlattenSeq([i \in DOMAIN elements |-> Bits(elements[i], k)])
      rest   == (ByteBits - (Len(packed) % ByteBits)) % ByteBits
  IN  packed \o [i \in 1 .. rest |-> 0]

-----------------------------------------------------------------------------
(* matrix.go *)

Swap(A, i, j) == [A EXCEPT ![i] = A[j], ![j] = A[i]]

(* Row i is divided by its entry in a column, which is not zero, and then   *)
(* subtracted from the other rows so that the column is zero there.         *)
ClearColumn(A, i, col) ==
  LET pivotRow == [j \in DOMAIN A[i] |-> Mul(A[i][j], Inv(A[i][col]))]
  IN  [k \in DOMAIN A |->
        IF k = i THEN pivotRow
        ELSE [j \in DOMAIN A[k] |-> Sub(A[k][j], Mul(A[k][col], pivotRow[j]))]]

(* The rows from i on that may give the pivot of a column; the first does.  *)
Pivots(A, i, col) == {k \in i .. Len(A) : A[k][col] # Zero}
Pivot(A, i, col) == CHOOSE k \in Pivots(A, i, col) :
                      \A l \in Pivots(A, i, col) : k <= l

(* One column of the elimination; a column without a pivot is passed over.  *)
(* Mutant: it counts.                                                       *)
ReduceCounting(state, col) ==
  LET next == state.rank + 1
  IN  IF next > Len(state.A) THEN state
      ELSE IF Pivots(state.A, next, col) = {} THEN [state EXCEPT !.rank = next]
      ELSE [A |-> ClearColumn(Swap(state.A, next, Pivot(state.A, next, col)), next, col),
            rank |-> next]

Reduce(state, col) ==
  LET next == state.rank + 1
  IN  IF next > Len(state.A) \/ Pivots(state.A, next, col) = {} THEN state
      ELSE [A |-> ClearColumn(Swap(state.A, next, Pivot(state.A, next, col)), next, col),
            rank |-> next]

IsLinearlyIndependent(vectors) ==
  LET reduced == FoldLeft(Reduce, [A |-> vectors, rank |-> 0],
                          [col \in DOMAIN vectors[1] |-> col])
  IN  reduced.rank = Len(vectors)

Singular == <<>>

(* One row of the inversion, B and the inverse side by side in a matrix.    *)
(* Mutant: the rows of the inverse stay where they are.                     *)
InvertRowUnswapped(B, i) ==
  IF B = Singular \/ Pivots(B, i, i) = {} THEN Singular
  ELSE LET n == Len(B)
           pivot == Pivot(B, i, i)
           swapped == [k \in DOMAIN B |-> SubSeq(Swap(B, i, pivot)[k], 1, n)
                                          \o SubSeq(B[k], n + 1, 2 * n)]
       IN  ClearColumn(swapped, i, i)

InvertRow(B, i) ==
  IF B = Singular \/ Pivots(B, i, i) = {} THEN Singular
  ELSE ClearColumn(Swap(B, i, Pivot(B, i, i)), i, i)

InvertMatrix(A) ==
  LET n == Len(A)
      identity(i) == [j \in 1 .. n |-> IF i = j THEN One ELSE Zero]
      inverted == FoldLeft(InvertRow, [i \in 1 .. n |-> A[i] \o identity(i)],
                           [i \in 1 .. n |-> i])
  IN  IF inverted = Singular THEN Singular
      ELSE [i \in 1 .. n |-> SubSeq(inverted[i], n + 1, 2 * n)]

(* The terms added up from the first to the last, from Zero on. *)
Total(terms) ==
  LET sum[k \in 0 .. Len(terms)] == IF k = 0 THEN Zero ELSE Add(sum[k - 1], terms[k])
  IN  sum[Len(terms)]

(* A vector times a matrix: the combination of its rows.                    *)
Combination(factors, rows) ==
  [j \in DOMAIN rows[1] |-> Total([k \in DOMAIN rows |-> Mul(factors[k], rows[k][j])])]

(* The callers' matrices fit one another, so that the code does not panic.  *)
MatrixMultiply(A, B) == [i \in DOMAIN A |-> Combination(A[i], B)]

(* A matrix that cannot be inverted is an error of the caller's.            *)
RecoverVectors(A, R) ==
  LET inverse == InvertMatrix(A)
  IN  IF inverse = Singular THEN Singular ELSE MatrixMultiply(inverse, R)
=============================================================================
