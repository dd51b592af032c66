---------------------------- MODULE BinaryMatrix ----------------------------
(***************************************************************************)
(* maths.cpp: matrices over the field of two elements.                     *)
(*                                                                         *)
(* A matrix is a function from its rows 0 .. m - 1 to the sets of columns  *)
(* that hold a 1, a vector the set of its entries that are 1.  The sum of  *)
(* two rows is their symmetric difference: of numbers 0 and 1 that is what *)
(* both ^ and the absolute value of a difference give.                     *)
(***************************************************************************)
EXTENDS Integers, Sequences, SequencesExt, FiniteSets, FiniteSetsExt, Functions

Indices(n) == 0 .. n - 1

Odd(S) == Cardinality(S) % 2 = 1

Identity(n) == [i \in Indices(n) |-> {i}]

Transpose(X, n) == [j \in Indices(n) |-> {i \in DOMAIN X : j \in X[i]}]

Ones(X) ==
  LET count == [i \in DOMAIN X |-> Cardinality(X[i])]
  IN  MapThenSumSet(LAMBDA i : count[i], DOMAIN X)

\* binaryProduct() and binaryProductFloat(): Y has n columns.
Product(X, Y, n) ==
  [i \in DOMAIN X |-> {c \in Indices(n) : Odd({l \in X[i] : c \in Y[l]})}]

\* The same with a column vector.
Times(X, v) == {i \in DOMAIN X : Odd(X[i] \cap v)}

Swap(f, i, j) == [f EXCEPT ![i] = f[j], ![j] = f[i]]

\* Row p of g is added to the other rows that have a 1 in column j of f.
Cleared(f, g, p, j) ==
  [i \in DOMAIN f |-> IF i # p /\ j \in f[i] THEN SymDiff(g[i], g[p]) ELSE g[i]]
-----------------------------------------------------------------------------
\* One column of gaussJordan(): the first row below the last pivot that has a 1
\* becomes the next pivot, if there is one.
GaussColumn(s, j) ==
  LET found == {i \in DOMAIN s.rows : i > s.last /\ j \in s.rows[i]}
      p     == s.last + 1
      rows  == Swap(s.rows, p, Min(found))
      steps == Swap(s.steps, p, Min(found))
  IN  IF found = {} THEN s
      ELSE [rows  |-> Cleared(rows, rows, p, j),
            steps |-> Cleared(rows, steps, p, j),
            last  |-> p]

\* A and P after each of n columns.
GaussColumns(X, n) ==
  LET after[j \in 0 .. n] ==
        IF j = 0 THEN [rows |-> X, steps |-> Identity(Cardinality(DOMAIN X)), last |-> -1]
        ELSE GaussColumn(after[j - 1], j - 1)
  IN  after

\* gaussJordan() of a matrix with n columns: A and P.
GaussJordan(X, n) == GaussColumns(X, n)[n]
-----------------------------------------------------------------------------
\* An entry of a matrix of k columns that was copied into one block of memory.
\* Beyond the last column lies the next row, and beyond the last row whatever
\* memory holds: 1 at the places of beyond.
At(A, k, beyond, row, col) ==
  LET place == row * k + col
      size  == Cardinality(DOMAIN A) * k
  IN  IF place < size THEN place % k \in A[place \div k] ELSE place - size \in beyond

SwapEntries(v, i, j) ==
  (v \ {i, j}) \cup (IF j \in v THEN {i} ELSE {}) \cup (IF i \in v THEN {j} ELSE {})

\* Slip: rows are exchanged in the matrix, but not in the vector.
EliminateColumnSlip(s, k, beyond, i) ==
  LET found == {r \in DOMAIN s.rows : r >= i /\ At(s.rows, k, beyond, r, i)}
      rows  == Swap(s.rows, i, Min(found))
      hit   == {r \in DOMAIN rows \ {i} : At(rows, k, beyond, r, i)}
  IN  IF found = {} THEN s
      ELSE [rows   |-> [r \in DOMAIN rows |-> IF r \in hit THEN SymDiff(rows[r], rows[i])
                                              ELSE rows[r]],
            vector |-> IF i \in s.vector THEN SymDiff(s.vector, hit) ELSE s.vector]

\* One column of gaussElimination(), which counts columns up to the number of
\* rows and so reads beyond those of a matrix that has more rows than columns.
EliminateColumn(s, k, beyond, i) ==
  LET found  == {r \in DOMAIN s.rows : r >= i /\ At(s.rows, k, beyond, r, i)}
      rows   == Swap(s.rows, i, Min(found))
      vector == SwapEntries(s.vector, i, Min(found))
      hit    == {r \in DOMAIN rows \ {i} : At(rows, k, beyond, r, i)}
  IN  IF found = {} THEN s
      ELSE [rows   |-> [r \in DOMAIN rows |-> IF r \in hit THEN SymDiff(rows[r], rows[i])
                                              ELSE rows[r]],
            vector |-> IF i \in vector THEN SymDiff(vector, hit) ELSE vector]

\* gaussElimination() of a matrix with k columns, after each column.
EliminateColumns(A, k, vector, beyond) ==
  LET after[i \in 0 .. Cardinality(DOMAIN A)] ==
        IF i = 0 THEN [rows |-> A, vector |-> vector]
        ELSE EliminateColumn(after[i - 1], k, beyond, i - 1)
  IN  after

GaussElimination(A, k, vector, beyond) ==
  EliminateColumns(A, k, vector, beyond)[Cardinality(DOMAIN A)]
=============================================================================
