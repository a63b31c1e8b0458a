----------------------------- MODULE MCDumpFiles -----------------------------
(* Small instances of DumpFiles for TLC. *)
EXTENDS DumpFiles

=============================================================================
