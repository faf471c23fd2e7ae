--------------------------- MODULE MCSlottedPage ---------------------------
(* SlottedPage for TLC: tuples of three lengths that differ in their bytes. *)
EXTENDS SlottedPage

MCTuples == {<<21>>, <<22, 23>>, <<24, 25, 26>>}

=============================================================================
