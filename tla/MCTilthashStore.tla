--------------------------- MODULE MCTilthashStore ---------------------------
(* Small instances of TilthashStore for TLC. *)
EXTENDS TilthashStore

CONSTANTS c1, c2

MCCallers == {c1, c2}

=============================================================================
