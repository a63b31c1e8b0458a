--------------------------- MODULE DumpFilesProofs ---------------------------
(***************************************************************************)
(* Proofs about DumpFiles for every value of the constants: the type      *)
(* invariant, the completeness of the words a generator maps, and that   *)
(* the dump directory implements DumpStore.                              *)
(*                                                                         *)
(* The refinement rests on one inductive invariant.  A canonical name     *)
(* only ever holds a complete dump, because the only inode renamed onto   *)
(* it is a temp file its writer has finished.  To know that the writes of *)
(* the other generators cannot touch a canonical or a mapped inode, the  *)
(* invariant records what each writer's temp file holds at each step     *)
(* (never "full" before the generator has run), that writers own distinct *)
(* temp inodes, and that the inodes os.Create has yet to hand out are     *)
(* still absent.                                                          *)
(***************************************************************************)
EXTENDS DumpFiles, TLAPS

(* What the temp file of a generator holds at each step of writing it. *)
Expected(pc) ==
    CASE pc = "truncate"            -> "zero"
      [] pc \in {"mapw", "magic"}   -> "sized"
      [] pc = "fill"                -> "magic"
      [] OTHER                      -> "full"

WritersOk ==
    \A g \in Gens : gen[g].pc \in Writing =>
        /\ gen[g].tmp \in Ino
        /\ content[gen[g].tmp] = Expected(gen[g].pc)

WritersDistinct ==
    \A g, h \in Gens :
        (g # h /\ gen[g].pc \in Writing /\ gen[h].pc \in Writing)
            => gen[g].tmp # gen[h].tmp

CanonFull == \A e \in Epochs : canon[e] # NoFile => content[canon[e]] = "full"

FreshInodes == \A i \in Ino : i >= nextIno => content[i] = "absent"

IInv == /\ TypeOK /\ CanonFull /\ WordsComplete /\ WritersOk
        /\ WritersDistinct /\ FreshInodes

USE DumpAssumption

-----------------------------------------------------------------------------
(* Facts about the generator records the steps build. *)

LEMMA EntryType ==
    ASSUME NEW e \in Epochs, NEW p \in Pcs
    PROVE  /\ Entry(p, e) \in GenType
           /\ Entry(p, e).pc = p /\ Entry(p, e).words \notin Ino
BY DEF Entry, GenType, NoWords, NoFile, Ino

LEMMA MovedType ==
    ASSUME NEW g \in Gens, gen[g] \in GenType, NEW p \in Pcs,
           NEW t \in Ino \cup {NoFile}, NEW w \in Ino \cup {NoWords, Heap}
    PROVE  /\ Moved(g, p, t, w) \in GenType
           /\ Moved(g, p, t, w).pc = p /\ Moved(g, p, t, w).tmp = t
           /\ Moved(g, p, t, w).words = w
BY DEF Moved, GenType

LEMMA StepType ==
    ASSUME NEW g \in Gens, gen[g] \in GenType, NEW p \in Pcs
    PROVE  /\ Step(g, p) \in GenType
           /\ Step(g, p).pc = p /\ Step(g, p).tmp = gen[g].tmp
           /\ Step(g, p).words = gen[g].words
BY DEF Step, Moved, GenType

(* The content a writer expects is never absent, and is complete only   *)
(* at the steps after the words are written.                            *)
LEMMA ExpectedValues ==
    ASSUME NEW pc \in Writing
    PROVE  /\ Expected(pc) \in Contents \ {"absent"}
           /\ Expected(pc) = "full" <=> pc \in {"unmap", "close", "rename"}
BY DEF Expected, Writing, Contents

-----------------------------------------------------------------------------
LEMMA InitIInv == Init => IInv
<1> SUFFICES ASSUME Init PROVE IInv
    OBVIOUS
<1>1. PICK e0 \in Epochs : gen = [g \in Gens |-> Idle(e0)]
    BY DEF Init
<1>2. gen \in [Gens -> GenType] /\ \A g \in Gens : gen[g].pc \notin Writing
                                                /\ gen[g].words \notin Ino
    BY <1>1, EntryType DEF Idle, Pcs, Writing
<1> QED
    BY <1>2 DEF Init, IInv, TypeOK, CanonFull, WordsComplete, WritersOk,
               WritersDistinct, FreshInodes, Ino, NoFile, Contents

-----------------------------------------------------------------------------
(* A step that replaces the record of generator g by r and leaves the    *)
(* files alone keeps IInv, provided r only continues writing the temp    *)
(* file g was writing, at a step that expects the same content, and maps *)
(* only complete inodes.                                                 *)
LEMMA GenStep ==
    ASSUME IInv, NEW g \in Gens, NEW r \in GenType,
           gen' = [gen EXCEPT ![g] = r],
           UNCHANGED <<canon, temps, content, nextIno>>,
           faults' \in 0..MaxFaults, crashes' \in 0..MaxCrashes,
           starts' \in 0..MaxStarts,
           r.pc \in Writing => /\ gen[g].pc \in Writing
                               /\ r.tmp = gen[g].tmp
                               /\ Expected(r.pc) = Expected(gen[g].pc),
           r.words \in Ino => content[r.words] = "full"
    PROVE  IInv'
<1>1. TypeOK'
    BY DEF IInv, TypeOK
<1>2. CanonFull'
    BY DEF IInv, CanonFull
<1>3. WordsComplete'
    BY DEF IInv, TypeOK, WordsComplete
<1>4. WritersOk'
    BY DEF IInv, TypeOK, WritersOk
<1>5. WritersDistinct'
    BY DEF IInv, TypeOK, WritersDistinct
<1>6. FreshInodes'
    BY DEF IInv, FreshInodes
<1> QED
    BY <1>1, <1>2, <1>3, <1>4, <1>5, <1>6 DEF IInv

(* The hypotheses of GenStep about the counters, for a step that leaves *)
(* them alone.                                                            *)
LEMMA CountersKept ==
    ASSUME IInv, UNCHANGED <<faults, crashes, starts>>
    PROVE  faults' \in 0..MaxFaults /\ crashes' \in 0..MaxCrashes
           /\ starts' \in 0..MaxStarts
BY DEF IInv, TypeOK

LEMMA StartIInv ==
    ASSUME IInv, NEW g \in Gens, Start(g)
    PROVE  IInv'
<1>1. PICK e \in Epochs : gen' = [gen EXCEPT ![g] = Entry("load", e)]
    BY DEF Start
<1>2. starts' \in 0..MaxStarts
    BY DEF Start, IInv, TypeOK
<1>3. Entry("load", e) \in GenType /\ Entry("load", e).pc \notin Writing
      /\ Entry("load", e).words \notin Ino
    BY EntryType DEF Pcs, Writing
<1> QED
    BY <1>1, <1>2, <1>3, GenStep DEF Start, IInv, TypeOK

LEMMA LoadIInv ==
    ASSUME IInv, NEW g \in Gens, Load(g)
    PROVE  IInv'
<1> DEFINE i == canon[gen[g].epoch]
<1>1. gen[g] \in GenType /\ i \in Ino \cup {NoFile} /\ gen[g].tmp \in Ino \cup {NoFile}
    BY DEF IInv, TypeOK, GenType
<1>2. Accepts(i) => content[i] = "full" /\ i \in Ino
    BY <1>1 DEF IInv, CanonFull, Accepts, TypeOK, GenType
<1>3. /\ UNCHANGED <<canon, temps, content, nextIno>>
      /\ faults' \in 0..MaxFaults /\ crashes' \in 0..MaxCrashes
      /\ starts' \in 0..MaxStarts
    BY CountersKept DEF Load
<1>4. CASE Accepts(i)
    <2> DEFINE r == Moved(g, "done", gen[g].tmp, i)
    <2>1. gen' = [gen EXCEPT ![g] = r]
        BY <1>4 DEF Load
    <2>2. r \in GenType /\ r.pc = "done" /\ r.words = i
        <3>1. /\ gen[g] \in GenType /\ "done" \in Pcs
              /\ gen[g].tmp \in Ino \cup {NoFile} /\ i \in Ino \cup {NoWords, Heap}
            BY <1>1, <1>2, <1>4 DEF Pcs
        <3>2. /\ Moved(g, "done", gen[g].tmp, i) \in GenType
              /\ Moved(g, "done", gen[g].tmp, i).pc = "done"
              /\ Moved(g, "done", gen[g].tmp, i).words = i
            BY <3>1 DEF Moved, GenType
        <3> QED
            BY <3>2
    <2>3. r.pc \notin Writing /\ (r.words \in Ino => content[r.words] = "full")
        <3>1. r.pc \notin Writing
            BY <2>2 DEF Writing
        <3>2. content[i] = "full"
            BY <1>2, <1>4
        <3> QED
            BY <2>2, <3>1, <3>2
    <2> QED
        BY <1>3, <2>1, <2>2, <2>3, GenStep
<1>5. CASE ~Accepts(i)
    <2> DEFINE r == Step(g, "create")
    <2>1. gen' = [gen EXCEPT ![g] = r]
        BY <1>5 DEF Load
    <2>2. r \in GenType /\ r.pc = "create" /\ r.words = gen[g].words
        BY <1>1, StepType DEF Pcs
    <2>3. r.pc \notin Writing /\ (r.words \in Ino => content[r.words] = "full")
        BY <2>2 DEF Writing, IInv, WordsComplete
    <2> QED
        BY <1>3, <2>1, <2>2, <2>3, GenStep
<1> QED
    BY <1>4, <1>5
LEMMA AdvanceIInv ==
    ASSUME IInv, NEW g \in Gens, NEW from \in Pcs, NEW to \in Pcs,
           to \in Writing => from \in Writing /\ Expected(to) = Expected(from),
           Advance(g, from, to)
    PROVE  IInv'
<1>1. gen[g] \in GenType
    BY DEF IInv, TypeOK
<1>2. Step(g, to) \in GenType /\ Step(g, to).pc = to /\ Step(g, to).tmp = gen[g].tmp
      /\ Step(g, to).words = gen[g].words
    BY <1>1, StepType
<1>3. gen[g].words \in Ino => content[gen[g].words] = "full"
    BY DEF IInv, WordsComplete
<1> QED
    BY <1>2, <1>3, CountersKept, GenStep DEF Advance

(* A write to the temp file of g: the content it leaves is the one the  *)
(* next step expects, and what it overwrites is not yet a complete dump. *)
LEMMA WriteIInv ==
    ASSUME IInv, NEW g \in Gens, NEW from \in Writing, NEW to \in Writing,
           NEW c \in Contents, c = Expected(to), Expected(from) # "full",
           gen[g].pc = from,
           content' = [content EXCEPT ![gen[g].tmp] = c],
           gen' = [gen EXCEPT ![g] = Step(g, to)],
           UNCHANGED <<canon, temps, nextIno, faults, crashes, starts>>
    PROVE  IInv'
<1> DEFINE t == gen[g].tmp
<1>1. gen[g] \in GenType /\ t \in Ino /\ content[t] = Expected(from)
    BY DEF IInv, TypeOK, WritersOk
<1>2. content[t] # "full" /\ content[t] # "absent"
    BY <1>1, ExpectedValues
<1>3. Step(g, to) \in GenType /\ Step(g, to).pc = to /\ Step(g, to).tmp = t
      /\ Step(g, to).words = gen[g].words
    BY <1>1, StepType DEF Writing, Pcs
<1>4. TypeOK'
    BY <1>1, <1>3 DEF IInv, TypeOK
<1>5. CanonFull'
    BY <1>1, <1>2 DEF IInv, TypeOK, CanonFull
<1>6. WordsComplete'
    BY <1>1, <1>2, <1>3 DEF IInv, TypeOK, WordsComplete
<1>7. WritersOk'
    BY <1>1, <1>3 DEF IInv, TypeOK, WritersOk, WritersDistinct
<1>8. WritersDistinct'
    BY <1>1, <1>3 DEF IInv, TypeOK, WritersDistinct
<1>9. FreshInodes'
    BY <1>1, <1>2 DEF IInv, TypeOK, FreshInodes
<1> QED
    BY <1>4, <1>5, <1>6, <1>7, <1>8, <1>9 DEF IInv

LEMMA TruncateIInv ==
    ASSUME IInv, NEW g \in Gens, Truncate(g)
    PROVE  IInv'
<1>1. "truncate" \in Writing /\ "mapw" \in Writing /\ "sized" \in Contents
      /\ "sized" = Expected("mapw") /\ Expected("truncate") # "full"
    BY DEF Writing, Contents, Expected
<1> QED
    BY <1>1, WriteIInv DEF Truncate

LEMMA CreateIInv ==
    ASSUME IInv, NEW g \in Gens, Create(g)
    PROVE  IInv'
<1> DEFINE n == nextIno
           r == Moved(g, "truncate", n, gen[g].words)
<1>1. gen[g] \in GenType /\ n \in Ino /\ content[n] = "absent"
    BY DEF Create, IInv, TypeOK, FreshInodes
<1>2. r \in GenType /\ r.pc = "truncate" /\ r.tmp = n /\ r.words = gen[g].words
    BY <1>1, MovedType DEF Pcs, GenType
<1>3. \A h \in Gens : gen[h].pc \in Writing => gen[h].tmp # n
    BY <1>1, ExpectedValues DEF IInv, WritersOk
<1>4. gen' = [gen EXCEPT ![g] = r] /\ content' = [content EXCEPT ![n] = "zero"]
      /\ nextIno' = n + 1 /\ temps' = temps \cup {n}
      /\ UNCHANGED <<canon, faults, crashes, starts>>
    BY DEF Create, CreateTemp
<1>5. gen[g].pc \notin Writing
    BY DEF Create, Writing
<1>6. TypeOK'
    BY <1>1, <1>2, <1>4 DEF IInv, TypeOK, Ino, Contents
<1>7. CanonFull'
    BY <1>1, <1>4 DEF IInv, TypeOK, CanonFull
<1>8. WordsComplete'
    BY <1>1, <1>2, <1>4 DEF IInv, TypeOK, WordsComplete
<1>9. WritersOk'
    BY <1>1, <1>2, <1>3, <1>4 DEF IInv, TypeOK, WritersOk, Expected
<1>10. WritersDistinct'
    BY <1>2, <1>3, <1>4, <1>5 DEF IInv, TypeOK, WritersDistinct
<1>11. FreshInodes'
    BY <1>1, <1>4 DEF IInv, TypeOK, FreshInodes
<1> QED
    BY <1>6, <1>7, <1>8, <1>9, <1>10, <1>11 DEF IInv
(* The rename publishes the writer's temp file, which is complete. *)
LEMMA RenameIInv ==
    ASSUME IInv, NEW g \in Gens, Rename(g)
    PROVE  IInv'
<1> DEFINE t == gen[g].tmp
<1>1. gen[g] \in GenType /\ gen[g].pc = "rename" /\ t \in Ino /\ content[t] = "full"
    BY DEF Rename, IInv, TypeOK, WritersOk, Writing, Expected
<1>2. Step(g, "reopen") \in GenType /\ Step(g, "reopen").pc \notin Writing
      /\ Step(g, "reopen").words = gen[g].words
    BY <1>1, StepType DEF Pcs, Writing
<1>3. /\ gen' = [gen EXCEPT ![g] = Step(g, "reopen")]
      /\ canon' = [canon EXCEPT ![gen[g].epoch] = t] /\ temps' = temps \ {t}
      /\ UNCHANGED <<content, nextIno, faults, crashes, starts>>
    BY DEF Rename
<1>4. TypeOK'
    BY <1>1, <1>2, <1>3 DEF IInv, TypeOK, GenType
<1>5. CanonFull'
    BY <1>1, <1>3 DEF IInv, TypeOK, CanonFull
<1>6. WordsComplete'
    BY <1>2, <1>3 DEF IInv, TypeOK, WordsComplete
<1>7. WritersOk' /\ WritersDistinct'
    BY <1>2, <1>3 DEF IInv, TypeOK, WritersOk, WritersDistinct
<1>8. FreshInodes'
    BY <1>3 DEF IInv, FreshInodes
<1> QED
    BY <1>4, <1>5, <1>6, <1>7, <1>8 DEF IInv

(* memoryMap of the canonical name maps only what CanonFull makes whole. *)
LEMMA ReopenIInv ==
    ASSUME IInv, NEW g \in Gens, Reopen(g)
    PROVE  IInv'
<1> DEFINE i == canon[gen[g].epoch]
           w == IF Accepts(i) THEN i ELSE Heap
           r == Moved(g, "delete", gen[g].tmp, w)
<1>1. gen[g] \in GenType /\ i \in Ino \cup {NoFile}
    BY DEF IInv, TypeOK, GenType
<1>2. w \in Ino \cup {NoWords, Heap} /\ (w \in Ino => content[w] = "full")
    <2>1. CASE Accepts(i)
        <3>1. gen[g].epoch \in Epochs /\ i # NoFile
            BY <1>1, <2>1 DEF GenType, Accepts
        <3>2. i \in Ino /\ content[i] = "full"
            BY <1>1, <3>1 DEF IInv, CanonFull
        <3> QED
            BY <2>1, <3>2
    <2>2. CASE ~Accepts(i)
        BY <2>2 DEF Heap, Ino
    <2> QED
        BY <2>1, <2>2
<1>3. r \in GenType /\ r.pc = "delete" /\ r.words = w
    BY <1>1, <1>2, MovedType DEF Pcs, GenType
<1> QED
    BY <1>2, <1>3, CountersKept, GenStep DEF Reopen, Writing

LEMMA FailIInv ==
    ASSUME IInv, NEW g \in Gens, Fail(g)
    PROVE  IInv'
<1> DEFINE r == Moved(g, "delete", gen[g].tmp, Heap)
<1>1. gen[g] \in GenType
    BY DEF IInv, TypeOK
<1>2. r \in GenType /\ r.pc = "delete" /\ r.words = Heap /\ Heap \notin Ino
    <2>1. gen[g].tmp \in Ino \cup {NoFile} /\ "delete" \in Pcs
          /\ Heap \in Ino \cup {NoWords, Heap} /\ Heap \notin Ino
        BY <1>1 DEF GenType, Pcs, Heap, Ino
    <2> QED
        BY <1>1, <2>1, MovedType
<1>3. faults' \in 0..MaxFaults
    BY DEF Fail, IInv, TypeOK
<1> QED
    BY <1>2, <1>3, GenStep DEF Fail, Writing, IInv, TypeOK

(* The deletion loop only removes canonical names. *)
LEMMA DeleteIInv ==
    ASSUME IInv, NEW g \in Gens, Delete(g)
    PROVE  IInv'
<1>1. gen[g] \in GenType /\ gen[g].pc = "delete"
    BY DEF Delete, IInv, TypeOK
<1>2. Step(g, "done") \in GenType /\ Step(g, "done").pc \notin Writing
      /\ Step(g, "done").words = gen[g].words
    BY <1>1, StepType DEF Pcs, Writing
<1>3. /\ gen' = [gen EXCEPT ![g] = Step(g, "done")]
      /\ \A e \in Epochs : canon'[e] \in {canon[e], NoFile}
      /\ canon' \in [Epochs -> Ino \cup {NoFile}]
      /\ UNCHANGED <<temps, content, nextIno, faults, crashes, starts>>
    BY DEF Delete, IInv, TypeOK
<1>4. TypeOK' /\ CanonFull'
    BY <1>2, <1>3 DEF IInv, TypeOK, CanonFull
<1>5. WordsComplete' /\ WritersOk' /\ WritersDistinct' /\ FreshInodes'
    BY <1>2, <1>3 DEF IInv, TypeOK, WordsComplete, WritersOk, WritersDistinct,
                      FreshInodes
<1> QED
    BY <1>4, <1>5 DEF IInv

LEMMA ReleaseIInv ==
    ASSUME IInv, NEW g \in Gens, Release(g)
    PROVE  IInv'
<1>1. Idle(gen[g].epoch) \in GenType /\ Idle(gen[g].epoch).pc \notin Writing
      /\ Idle(gen[g].epoch).words \notin Ino
    <2>1. gen[g].epoch \in Epochs /\ "idle" \in Pcs
        BY DEF IInv, TypeOK, GenType, Pcs
    <2>2. /\ Entry("idle", gen[g].epoch) \in GenType
          /\ Entry("idle", gen[g].epoch).pc = "idle"
          /\ Entry("idle", gen[g].epoch).words \notin Ino
        BY <2>1, EntryType
    <2> QED
        BY <2>2 DEF Idle, Writing
<1> QED
    BY <1>1, CountersKept, GenStep DEF Release

(* A crash ends every generator: nobody is writing and nothing is mapped. *)
LEMMA CrashIInv ==
    ASSUME IInv, Crash
    PROVE  IInv'
<1>1. \A g \in Gens : /\ Idle(gen[g].epoch) \in GenType
                      /\ Idle(gen[g].epoch).pc \notin Writing
                      /\ Idle(gen[g].epoch).words \notin Ino
    <2> SUFFICES ASSUME NEW g \in Gens
                 PROVE  /\ Entry("idle", gen[g].epoch) \in GenType
                        /\ Entry("idle", gen[g].epoch).pc \notin Writing
                        /\ Entry("idle", gen[g].epoch).words \notin Ino
        BY DEF Idle
    <2>1. gen[g].epoch \in Epochs /\ "idle" \in Pcs /\ "idle" \notin Writing
        BY DEF IInv, TypeOK, GenType, Pcs, Writing
    <2> QED
        BY <2>1, EntryType
<1>2. gen' \in [Gens -> GenType] /\ \A g \in Gens : gen'[g].pc \notin Writing
                                                 /\ gen'[g].words \notin Ino
    BY <1>1 DEF Crash
<1> QED
    BY <1>2 DEF Crash, IInv, TypeOK, CanonFull, WordsComplete, WritersOk,
                WritersDistinct, FreshInodes
-----------------------------------------------------------------------------
LEMMA NextIInv ==
    ASSUME IInv, [Next]_vars
    PROVE  IInv'
<1>1. CASE UNCHANGED vars
    BY <1>1 DEF vars, IInv, TypeOK, CanonFull, WordsComplete, WritersOk,
                WritersDistinct, FreshInodes
<1>2. CASE Crash
    BY <1>2, CrashIInv
<1>3. CASE \E g \in Gens :
          \/ Start(g) \/ Load(g) \/ Create(g) \/ Truncate(g)
          \/ Advance(g, "mapw", "magic")
          \/ Write(g, "magic", "fill", "magic")
          \/ Write(g, "fill", "unmap", "full")
          \/ Advance(g, "unmap", "close") \/ Advance(g, "close", "rename")
          \/ Rename(g) \/ Reopen(g) \/ Fail(g) \/ Delete(g) \/ Release(g)
    <2>1. PICK g \in Gens :
              \/ Start(g) \/ Load(g) \/ Create(g) \/ Truncate(g)
              \/ Advance(g, "mapw", "magic")
              \/ Write(g, "magic", "fill", "magic")
              \/ Write(g, "fill", "unmap", "full")
              \/ Advance(g, "unmap", "close") \/ Advance(g, "close", "rename")
              \/ Rename(g) \/ Reopen(g) \/ Fail(g) \/ Delete(g) \/ Release(g)
        BY <1>3
    <2>2. CASE Advance(g, "mapw", "magic") \/ Advance(g, "unmap", "close")
               \/ Advance(g, "close", "rename")
        <3>1. /\ "magic" \in Writing => "mapw" \in Writing /\ Expected("magic") = Expected("mapw")
              /\ "close" \in Writing => "unmap" \in Writing /\ Expected("close") = Expected("unmap")
              /\ "rename" \in Writing => "close" \in Writing /\ Expected("rename") = Expected("close")
            BY DEF Writing, Expected
        <3> QED
            BY <2>2, <3>1, AdvanceIInv DEF Pcs
    <2>3. CASE Write(g, "magic", "fill", "magic")
        <3>1. /\ "magic" \in Writing /\ "fill" \in Writing /\ "magic" \in Contents
              /\ "magic" = Expected("fill") /\ Expected("magic") # "full"
            BY DEF Writing, Contents, Expected
        <3> QED
            BY <2>3, <3>1, WriteIInv DEF Write
    <2>4. CASE Write(g, "fill", "unmap", "full")
        <3>1. /\ "fill" \in Writing /\ "unmap" \in Writing /\ "full" \in Contents
              /\ "full" = Expected("unmap") /\ Expected("fill") # "full"
            BY DEF Writing, Contents, Expected
        <3> QED
            BY <2>4, <3>1, WriteIInv DEF Write
    <2> QED
        BY <2>1, <2>2, <2>3, <2>4, StartIInv, LoadIInv, CreateIInv, TruncateIInv,
           RenameIInv, ReopenIInv, FailIInv, DeleteIInv, ReleaseIInv
<1> QED
    BY <1>1, <1>2, <1>3 DEF Next

LEMMA AlwaysIInv == Spec => []IInv
BY InitIInv, NextIInv, PTL DEF Spec

(* Type correctness of the generator records, the file table and the     *)
(* counters of every step of generate, memoryMapAndGenerate and release. *)
THEOREM TypeCorrect == Spec => []TypeOK
BY AlwaysIInv, PTL DEF IInv

(* The words cache.generate hands out are a complete dump: memoryMap     *)
(* checks only the header, so this rests on writing a temp file and      *)
(* renaming it, and holds through any interleaving, failure and crash.   *)
THEOREM WordsCompleteHolds == Spec => []WordsComplete
BY AlwaysIInv, PTL DEF IInv
-----------------------------------------------------------------------------
(* The refinement: DumpFiles implements DumpStore under Disk.           *)

(* A step that keeps the canonical names and every inode they name      *)
(* keeps the abstract directory.                                         *)
LEMMA DiskKept ==
    ASSUME canon' = canon,
           \A e \in Epochs : canon[e] # NoFile => content'[canon[e]] = content[canon[e]]
    PROVE  Disk' = Disk
BY DEF Disk

(* A write to an inode that is not a complete dump keeps the directory. *)
LEMMA WriteKeepsDisk ==
    ASSUME IInv, NEW t \in Ino, content[t] # "full",
           NEW c, content' = [content EXCEPT ![t] = c], canon' = canon
    PROVE  Disk' = Disk
<1>1. \A e \in Epochs : canon[e] # NoFile => canon[e] # t /\ canon[e] \in Ino
    BY DEF IInv, TypeOK, CanonFull
<1> QED
    BY <1>1, DiskKept DEF IInv, TypeOK

LEMMA InitRefines == Init => DS!Init
BY DEF Init, DS!Init, Disk

LEMMA NextRefines ==
    ASSUME IInv, [Next]_vars
    PROVE  [DS!Next]_Disk
<1>1. CASE UNCHANGED <<canon, content>>
    BY <1>1, DiskKept
<1>2. CASE \E g \in Gens : Truncate(g) \/ Write(g, "magic", "fill", "magic")
                           \/ Write(g, "fill", "unmap", "full")
    <2>1. PICK g \in Gens : Truncate(g) \/ Write(g, "magic", "fill", "magic")
                            \/ Write(g, "fill", "unmap", "full")
        BY <1>2
    <2>2. gen[g].pc \in {"truncate", "magic", "fill"}
          /\ content' = [content EXCEPT ![gen[g].tmp] = content'[gen[g].tmp]]
          /\ canon' = canon
        BY <2>1 DEF Truncate, Write, IInv, TypeOK
    <2>3. gen[g].tmp \in Ino /\ content[gen[g].tmp] # "full"
        BY <2>2 DEF IInv, WritersOk, Writing, Expected
    <2> QED
        BY <2>2, <2>3, WriteKeepsDisk
<1>3. CASE \E g \in Gens : Create(g)
    <2>1. PICK g \in Gens : Create(g)
        BY <1>3
    <2>2. nextIno \in Ino /\ content[nextIno] = "absent"
        <3>1. nextIno \in Ino
            BY <2>1 DEF Create
        <3> QED
            BY <3>1 DEF IInv, FreshInodes, Ino
    <2> QED
        BY <2>1, <2>2, WriteKeepsDisk DEF Create, CreateTemp
<1>4. CASE \E g \in Gens : Rename(g)
    <2>1. PICK g \in Gens : Rename(g)
        BY <1>4
    <2>2. gen[g].tmp \in Ino /\ content[gen[g].tmp] = "full" /\ gen[g].epoch \in Epochs
        BY <2>1 DEF Rename, IInv, TypeOK, GenType, WritersOk, Writing, Expected
    <2>3. DS!Publish(gen[g].epoch)
        <3> DEFINE ep == gen[g].epoch
                   t == gen[g].tmp
        <3>1. canon' = [canon EXCEPT ![ep] = t] /\ content' = content
            BY <2>1 DEF Rename
        <3>2. canon \in [Epochs -> Ino \cup {NoFile}] /\ t # NoFile
            BY <2>2 DEF IInv, TypeOK, NoFile, Ino
        <3>3. \A e \in Epochs : Disk'[e] = IF e = ep THEN "full" ELSE Disk[e]
            BY <2>2, <3>1, <3>2 DEF Disk
        <3> QED
            BY <2>2, <3>3 DEF Disk, DS!Publish
    <2> QED
        BY <2>2, <2>3 DEF DS!Next
<1>5. CASE \E g \in Gens : Delete(g)
    <2>1. PICK g \in Gens : Delete(g)
        BY <1>5
    <2> DEFINE S == {e \in Epochs : e <= gen[g].epoch - Limit}
    <2>2. DS!Remove(S)
        BY <2>1 DEF Delete, Disk, DS!Remove
    <2> QED
        BY <2>2 DEF DS!Next
<1> QED
    BY <1>1, <1>2, <1>3, <1>4, <1>5
       DEF Next, vars, Start, Load, Advance, Reopen, Fail, Release, Crash

(* The dump directory implements DumpStore: readers of the canonical     *)
(* names only ever see no dump or a complete one, published in one step  *)
(* by the rename and removed whole by the deletion loop, whatever the    *)
(* interleaving of generators, failed I/O calls and crashes.              *)
THEOREM Refinement == Spec => ImplementsDumpStore
<1>1. Spec => []IInv
    BY AlwaysIInv
<1>2. IInv /\ [Next]_vars => [DS!Next]_Disk
    BY NextRefines
<1> QED
    BY <1>1, <1>2, InitRefines, PTL DEF Spec, ImplementsDumpStore, DS!Spec
=============================================================================
