---------------------------- MODULE SparseMatrix ----------------------------
(***************************************************************************)
(* SMatrixOL (communication/SMatrixOL.h): the sparse matrix of the master, *)
(* in orthogonal lists.  A cell <<r, c>> says that node r serves node c;   *)
(* doSlaveRequest() walks the row of a server to notify its clients and    *)
(* doConnect() the column of a client to tell it its servers, so the two   *)
(* sets of lists have to agree.                                            *)
(*                                                                         *)
(* A list is the sequence of the keys of its nodes: a row holds columns, a *)
(* column rows.  The element of a cell is never read and is left out.  All *)
(* calls are made under m_smatrix_lock_ or while the process starts.       *)
(***************************************************************************)
EXTENDS Integers, Sequences, SequencesExt, FiniteSets

CONSTANTS
  Ids,        \* node ids: the numbers of rows and columns
  MaxNodes    \* bound: nodes of the lists

ASSUME SparseMatrixAssumption == Ids \subseteq Nat

VARIABLES
  row,        \* m_rowhead and m_right: the columns of each row
  col,        \* m_colhead and m_down: the rows of each column
  aborted     \* an assertion failed: the process is gone

matrixVars == <<row, col, aborted>>

MatrixInit ==
  /\ row = [i \in Ids |-> <<>>]
  /\ col = [i \in Ids |-> <<>>]
  /\ aborted = FALSE

\* Mutant: the walk goes on while the keys are higher.
Place_Backwards(list, key) ==
  CHOOSE p \in 1 .. Len(list) + 1 :
    /\ \A i \in 1 .. p - 1 : list[i] > key
    /\ p <= Len(list) => list[p] <= key

\* The walk along a list stops at the first node whose key is not lower.
Place(list, key) ==
  CHOOSE p \in 1 .. Len(list) + 1 :
    /\ \A i \in 1 .. p - 1 : list[i] < key
    /\ p <= Len(list) => list[p] >= key

\* A cell that is there is noticed only if the walk has not moved.
IsFirst(list, key) == list # <<>> /\ Head(list) = key

\* Mutant: a new first node does not take over the list as its tail.
Linked_NoTail(list, key) ==
  IF Place(list, key) = 1 THEN <<key>> ELSE InsertAt(list, Place(list, key), key)

\* The new node in its list.
Linked(list, key) == InsertAt(list, Place(list, key), key)

\* The number of nodes.
Nodes == FoldFunction(LAMBDA l, n : Len(l) + n, 0, row)

\* insert(): the cell is there, at the head of its row; nothing to do.
InsertFound(r, c) ==
  /\ ~aborted
  /\ IsFirst(row[r], c)
  /\ UNCHANGED matrixVars

\* ... a new node is linked into its row, and then into its column.
InsertNew(r, c) ==
  /\ ~aborted
  /\ ~IsFirst(row[r], c)
  /\ Nodes < MaxNodes
  /\ ~IsFirst(col[c], r)
  /\ row' = [row EXCEPT ![r] = Linked(@, c)]
  /\ col' = [col EXCEPT ![c] = Linked(@, r)]
  /\ UNCHANGED aborted

\* ... the column has the cell at its head: assert(0 == 1), after the row.
InsertAborts(r, c) ==
  /\ ~aborted
  /\ ~IsFirst(row[r], c)
  /\ Nodes < MaxNodes
  /\ IsFirst(col[c], r)
  /\ row' = [row EXCEPT ![r] = Linked(@, c)]
  /\ aborted' = TRUE
  /\ UNCHANGED col

\* clear(): a new configuration.
Clear ==
  /\ ~aborted
  /\ row' = [i \in Ids |-> <<>>]
  /\ col' = [i \in Ids |-> <<>>]
  /\ UNCHANGED aborted

MatrixNext ==
  \/ \E r, c \in Ids : InsertFound(r, c) \/ InsertNew(r, c) \/ InsertAborts(r, c)
  \/ Clear

MatrixSpec == MatrixInit /\ [][MatrixNext]_matrixVars
------------------------------------------------------------------------------
MatrixTypeOK ==
  /\ row \in [Ids -> Seq(Ids)]
  /\ col \in [Ids -> Seq(Ids)]
  /\ aborted \in BOOLEAN

Sorted(list) == \A i, j \in DOMAIN list : i < j => list[i] <= list[j]

\* How often a walk along list finds key.
Occurrences(list, key) == Cardinality({i \in DOMAIN list : list[i] = key})

\* As long as the process lives, a walk along the rows and one down the
\* columns find the same cells, each as often, in the order of the ids:
\* a server notifies a client exactly if the client is told of the server.
MatrixInv ==
  /\ MatrixTypeOK
  /\ \A i \in Ids : Sorted(row[i]) /\ Sorted(col[i])
  /\ ~aborted => \A r, c \in Ids : Occurrences(row[r], c) = Occurrences(col[c], r)

\* The lists implement a set of pairs, whatever is inserted twice.
Cells == {p \in Ids \X Ids : p[2] \in ToSet(row[p[1]])}
Abstract == INSTANCE PairSet WITH pairs <- Cells, over <- aborted
IsPairSet == Abstract!Spec
=============================================================================
