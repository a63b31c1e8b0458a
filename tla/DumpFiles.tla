------------------------------ MODULE DumpFiles ------------------------------
(***************************************************************************)
(* The dump files of the tilthash caches (tilthash.go): the disk branch of *)
(* cache.generate, memoryMap, memoryMapAndGenerate with its temporary     *)
(* file and rename, the deletion of old epochs, and release.  Several     *)
(* generators (the once.Do of distinct cache entries, of this process or  *)
(* of another one sharing the directory) run concurrently; every I/O call *)
(* that returns an error in the code may fail here; the process may crash *)
(* and restart, losing its generators but not the files.                  *)
(*                                                                         *)
(* A file is an inode whose content is "zero" (created), "sized"          *)
(* (truncated to magic + size, all zero), "magic" (header written) or     *)
(* "full" (header and words).  Names map to inodes: one canonical name per *)
(* epoch, and the set of temporary names.  The seed, the word values and  *)
(* the endianness suffix are abstracted away.                             *)
(***************************************************************************)
EXTENDS Integers, FiniteSets

CONSTANTS
    Gens,        \* generator goroutines (one per cache entry being generated)
    Epochs,      \* epochs whose caches are requested
    Limit,       \* the limit argument of generate (cachesondisk)
    MaxStarts,   \* bound on the number of generate calls
    MaxFaults,   \* bound on the number of failing I/O calls
    MaxCrashes   \* bound on the number of process crashes

ASSUME DumpAssumption ==
    /\ Gens # {} /\ Epochs \subseteq Nat /\ Epochs # {}
    /\ Limit \in Nat /\ MaxStarts \in Nat /\ MaxFaults \in Nat
    /\ MaxCrashes \in Nat

VARIABLES
    gen,      \* per generator: its step, epoch, temp inode and words
    canon,    \* epoch -> inode under the canonical name, or NoFile
    temps,    \* inodes that have a temporary name
    content,  \* inode -> what has been written to it
    nextIno,  \* the next inode os.Create allocates
    faults, crashes, starts

vars == <<gen, canon, temps, content, nextIno, faults, crashes, starts>>

Ino == 1..MaxStarts
NoFile == 0
NoWords == 0     \* the entry has no words yet
Heap == -1       \* the words were generated into an in-memory buffer
Contents == {"absent", "zero", "sized", "magic", "full"}

(* The steps of one generate call that has missed the in-memory checks. *)
Pcs == {"idle", "load", "create", "truncate", "mapw", "magic", "fill",
        "unmap", "close", "rename", "reopen", "delete", "done"}

(* The steps of memoryMapAndGenerate at which the temp file exists. *)
Writing == {"truncate", "mapw", "magic", "fill", "unmap", "close", "rename"}

(* The calls whose error sends generate to the in-memory fall-back. *)
Fallible == {"create", "truncate", "mapw", "unmap", "close", "rename", "reopen"}

GenType == [pc : Pcs, epoch : Epochs, tmp : Ino \cup {NoFile},
            words : Ino \cup {NoWords, Heap}]

(* A generate call of epoch e at step pc that has no file yet. *)
Entry(pc, e) == [pc |-> pc, epoch |-> e, tmp |-> NoFile, words |-> NoWords]

Idle(e) == Entry("idle", e)

TypeOK ==
    /\ gen \in [Gens -> GenType]
    /\ canon \in [Epochs -> Ino \cup {NoFile}]
    /\ temps \subseteq Ino
    /\ content \in [Ino -> Contents]
    /\ nextIno \in 1..MaxStarts + 1
    /\ faults \in 0..MaxFaults /\ crashes \in 0..MaxCrashes
    /\ starts \in 0..MaxStarts

Init ==
    /\ gen = [g \in Gens |-> Idle(CHOOSE e \in Epochs : TRUE)]
    /\ canon = [e \in Epochs |-> NoFile]
    /\ temps = {}
    /\ content = [i \in Ino |-> "absent"]
    /\ nextIno = 1
    /\ faults = 0 /\ crashes = 0 /\ starts = 0

-----------------------------------------------------------------------------
(* memoryMap accepts a file that can be mapped (not empty) and starts     *)
(* with the two magic words; it does not look at the rest.               *)
Accepts(i) == i # NoFile /\ content[i] \in {"magic", "full"}

(* Generator g moves to step pc, holding temp inode tmp and words w. *)
Moved(g, pc, tmp, w) == [pc |-> pc, epoch |-> gen[g].epoch, tmp |-> tmp, words |-> w]

Step(g, pc) == Moved(g, pc, gen[g].tmp, gen[g].words)

(* A cache entry's once.Do runs generate for its epoch. *)
Start(g) ==
    /\ gen[g].pc = "idle" /\ starts < MaxStarts
    /\ \E e \in Epochs : gen' = [gen EXCEPT ![g] = Entry("load", e)]
    /\ starts' = starts + 1
    /\ UNCHANGED <<canon, temps, content, nextIno, faults, crashes>>

(* generate: try memoryMap(path); on success return at once (no deletion). *)
Load(g) ==
    /\ gen[g].pc = "load"
    /\ LET i == canon[gen[g].epoch]
       IN  gen' = [gen EXCEPT ![g] = IF Accepts(i)
                                     THEN Moved(g, "done", gen[g].tmp, i)
                                     ELSE Step(g, "create")]
    /\ UNCHANGED <<canon, temps, content, nextIno, faults, crashes, starts>>

(* Variant: the dump is created under its final name. *)
CreateInPlace(g) ==
    /\ canon' = [canon EXCEPT ![gen[g].epoch] = nextIno]
    /\ UNCHANGED temps

(* os.Create(path + "." + rand): a fresh, empty file under a temp name. *)
CreateTemp(g) ==
    /\ temps' = temps \cup {nextIno}
    /\ UNCHANGED canon

(* memoryMapAndGenerate: MkdirAll, then os.Create of the temp file. *)
Create(g) ==
    /\ gen[g].pc = "create" /\ nextIno \in Ino
    /\ CreateTemp(g)
    /\ content' = [content EXCEPT ![nextIno] = "zero"]
    /\ gen' = [gen EXCEPT ![g] = Moved(g, "truncate", nextIno, gen[g].words)]
    /\ nextIno' = nextIno + 1
    /\ UNCHANGED <<faults, crashes, starts>>

(* dump.Truncate to magic + size. *)
Truncate(g) ==
    /\ gen[g].pc = "truncate"
    /\ content' = [content EXCEPT ![gen[g].tmp] = "sized"]
    /\ gen' = [gen EXCEPT ![g] = Step(g, "mapw")]
    /\ UNCHANGED <<canon, temps, nextIno, faults, crashes, starts>>

(* memoryMapFile(dump, true); copy(buffer, dumpMagic); generator(data);   *)
(* mem.Unmap(); dump.Close().  Only the two writes change the file.       *)
Advance(g, from, to) ==
    /\ gen[g].pc = from
    /\ gen' = [gen EXCEPT ![g] = Step(g, to)]
    /\ UNCHANGED <<canon, temps, content, nextIno, faults, crashes, starts>>

Write(g, from, to, c) ==
    /\ gen[g].pc = from
    /\ content' = [content EXCEPT ![gen[g].tmp] = c]
    /\ gen' = [gen EXCEPT ![g] = Step(g, to)]
    /\ UNCHANGED <<canon, temps, nextIno, faults, crashes, starts>>

(* os.Rename(temp, path): the temp file replaces the canonical one. *)
Rename(g) ==
    /\ gen[g].pc = "rename"
    /\ canon' = [canon EXCEPT ![gen[g].epoch] = gen[g].tmp]
    /\ temps' = temps \ {gen[g].tmp}
    /\ gen' = [gen EXCEPT ![g] = Step(g, "reopen")]
    /\ UNCHANGED <<content, nextIno, faults, crashes, starts>>

(* return memoryMap(path): whatever the canonical name holds now; if it   *)
(* is gone or rejected, generate falls back to an in-memory cache.       *)
Reopen(g) ==
    /\ gen[g].pc = "reopen"
    /\ LET i == canon[gen[g].epoch]
       IN  gen' = [gen EXCEPT ![g] = Moved(g, "delete", gen[g].tmp,
                                                   IF Accepts(i) THEN i ELSE Heap)]
    /\ UNCHANGED <<canon, temps, content, nextIno, faults, crashes, starts>>

(* One of the calls returns an error: memoryMapAndGenerate returns it     *)
(* as it is, without removing the temp file, and generate builds the     *)
(* cache in memory, then runs the deletion loop.                         *)
Fail(g) ==
    /\ gen[g].pc \in Fallible /\ faults < MaxFaults
    /\ gen' = [gen EXCEPT ![g] = Moved(g, "delete", gen[g].tmp, Heap)]
    /\ faults' = faults + 1
    /\ UNCHANGED <<canon, temps, content, nextIno, crashes, starts>>

(* for ep := epoch - limit; ep >= 0; ep--: os.Remove(path of ep). *)
Delete(g) ==
    /\ gen[g].pc = "delete"
    /\ canon' = [e \in Epochs |-> IF e <= gen[g].epoch - Limit THEN NoFile ELSE canon[e]]
    /\ gen' = [gen EXCEPT ![g] = Step(g, "done")]
    /\ UNCHANGED <<temps, content, nextIno, faults, crashes, starts>>

(* cache.release: unmap and close; the entry is dropped. *)
Release(g) ==
    /\ gen[g].pc = "done"
    /\ gen' = [gen EXCEPT ![g] = Idle(gen[g].epoch)]
    /\ UNCHANGED <<canon, temps, content, nextIno, faults, crashes, starts>>

(* The process dies: every generator is gone, the files stay. *)
Crash ==
    /\ crashes < MaxCrashes
    /\ gen' = [g \in Gens |-> Idle(gen[g].epoch)]
    /\ crashes' = crashes + 1
    /\ UNCHANGED <<canon, temps, content, nextIno, faults, starts>>

Next ==
    \/ \E g \in Gens :
          \/ Start(g) \/ Load(g) \/ Create(g) \/ Truncate(g)
          \/ Advance(g, "mapw", "magic")
          \/ Write(g, "magic", "fill", "magic")
          \/ Write(g, "fill", "unmap", "full")
          \/ Advance(g, "unmap", "close") \/ Advance(g, "close", "rename")
          \/ Rename(g) \/ Reopen(g) \/ Fail(g) \/ Delete(g) \/ Release(g)
    \/ Crash

Spec == Init /\ [][Next]_vars

-----------------------------------------------------------------------------
(* The words generate hands to the cache are complete: every generator    *)
(* that mapped a file mapped a fully written dump, whatever the other     *)
(* generators, the failed calls and the crashes left on disk (memoryMap   *)
(* checks only the header, so this rests on the temp file and rename).    *)
WordsComplete ==
    \A g \in Gens : gen[g].words \in Ino => content[gen[g].words] = "full"

(* Every temporary dump file belongs to a memoryMapAndGenerate call that  *)
(* is still running: no error return and no crash leaves one behind.      *)
NoStrayTempFiles ==
    \A i \in temps : \E g \in Gens : gen[g].tmp = i /\ gen[g].pc \in Writing

(* The canonical names, seen as the abstract dump directory. *)
Disk == [e \in Epochs |-> IF canon[e] = NoFile THEN "none" ELSE content[canon[e]]]

DS == INSTANCE DumpStore WITH disk <- Disk

(* The dump directory implements DumpStore: a canonical dump is always    *)
(* complete, appears in one step (the rename) and is removed whole (the  *)
(* deletion loop), through every interleaving, failure and crash.        *)
ImplementsDumpStore == DS!Spec
=============================================================================
