---------------------------- MODULE MCTableHeap ----------------------------
(***************************************************************************)
(* TableHeap for TLC.  Mid is spilled to one page, Long to two, Pair to    *)
(* one for each of its columns.  Wide is spilled nowhere and fits no page. *)
(* Huge is longer than the model's u16 can say, by as little as makes the  *)
(* rest of its length fit an empty page.                                   *)
(***************************************************************************)
EXTENDS TableHeap

Text(data) == [type |-> "VarChar", data |-> data]

Mid == <<Text(<<1, 2>>)>>
Long == <<Text(<<1, 2, 3>>)>>
Pair == <<Text(<<1, 2>>), Text(<<3, 4>>)>>
Wide == [c \in 1 .. 6 |-> Text(<<1>>)]
Huge == [c \in 1 .. 16 |-> Text(<<1>>)]

HeapPages == 0 .. 2
HeapRows == {Mid, Long, Pair, Wide, Huge}

=============================================================================
