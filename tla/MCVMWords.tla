------------------------------ MODULE MCVMWords ------------------------------
(* A small instance of VMWords: words of two 2-bit bytes, a 3-bit uint64. *)
EXTENDS VMWords

MCCode  == <<1, 3, 2>>
MCInput == <<3, 1, 2>>

=============================================================================
