------------------------------ MODULE MCSealer ------------------------------
(* Small instances of Sealer for TLC. *)
EXTENDS Sealer

MCThreadValues == {-1, 1, 2}

=============================================================================
