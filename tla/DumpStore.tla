------------------------------ MODULE DumpStore ------------------------------
(***************************************************************************)
(* What the dump directory of the tilthash engine promises its readers.   *)
(* Each epoch's canonical dump file is either absent or a complete dump;   *)
(* a dump appears whole (it is published in one step) and disappears      *)
(* whole (the deletion of old epochs).  Nothing else changes it.  The      *)
(* detailed module DumpFiles, with its temporary files, partial writes,   *)
(* I/O failures and crashes, is shown to implement this specification.    *)
(***************************************************************************)
CONSTANT Epochs

VARIABLE disk

States == {"none", "full"}

TypeOK == disk \in [Epochs -> States]

Init == disk = [e \in Epochs |-> "none"]

(* A complete dump of epoch e appears under its canonical name. *)
Publish(e) == disk' = [disk EXCEPT ![e] = "full"]

(* The dumps of the epochs in S are removed. *)
Remove(S) == disk' = [e \in Epochs |-> IF e \in S THEN "none" ELSE disk[e]]

Next == \/ \E e \in Epochs : Publish(e)
        \/ \E S \in SUBSET Epochs : Remove(S)

Spec == Init /\ [][Next]_disk
=============================================================================
