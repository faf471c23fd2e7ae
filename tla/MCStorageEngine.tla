-------------------------- MODULE MCStorageEngine --------------------------
(***************************************************************************)
(* StorageEngine for TLC.  A data page holds two short rows, or one of the *)
(* long ones; Long is a chain of two overflow pages, Pair two chains of    *)
(* one page.  TooLarge has no spilled column but does not fit a page.      *)
(***************************************************************************)
EXTENDS StorageEngine

Text(data) == [type |-> "VarChar", data |-> data]
Bytes(data) == [type |-> "Blob", data |-> data]

Short == <<Text(<<1>>)>>
Long == <<Text(<<1, 2, 3>>)>>
Pair == <<Text(<<1, 2>>), Text(<<3, 4>>)>>
TooLarge == [c \in 1 .. 5 |-> Text(<<1>>)]

TextRows == {Short, Long, Pair, TooLarge}
BlobRows == {Short, <<Bytes(<<1, 2, 3>>)>>}

Symmetry == Permutations(Pages) \cup Permutations(TableNames)

=============================================================================
