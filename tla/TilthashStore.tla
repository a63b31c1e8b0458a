---------------------------- MODULE TilthashStore ----------------------------
(***************************************************************************)
(* The epoch-indexed store of verification caches and mining datasets of   *)
(* the tilthash engine (src/consensus/tilthash/tilthash.go):               *)
(*   Tilthash.cache(block) / Tilthash.dataset(block)  lookup under lock,   *)
(*   cache.generate / dataset.generate                 one-shot generation *)
(*   cache.release / dataset.release                   unmap and close     *)
(*   go future.generate(...)                           background pre-gen. *)
(* The two lookups differ in one place only (how a pre-generated future    *)
(* entry is adopted) and the two generators in their fall-back paths, so   *)
(* one module models both, selected by the constant Kind.                  *)
(*                                                                         *)
(* Each goroutine calling cache()/dataset() is a Caller with a program     *)
(* counter.  The engine lock protects the whole lookup, which is therefore *)
(* one atomic step; generation, the timestamp bump and the use of the      *)
(* returned words happen outside the lock and interleave freely.  Entries  *)
(* are heap objects: they are named by ids so that an entry evicted from   *)
(* the map but still held by a goroutine stays visible to the model.       *)
(***************************************************************************)
EXTENDS Integers, FiniteSets

CONSTANTS
    Callers,     \* goroutines that call cache()/dataset()
    MaxEpoch,    \* requested epochs are 0..MaxEpoch
    InMem,       \* cachesinmem / dagsinmem
    Dir,         \* TRUE iff cachedir / dagdir is not ""
    Kind,        \* "cache" or "dataset"
    MaxObjs,     \* bound: number of entry objects ever allocated
    MaxLookups   \* bound: number of lookups performed

ASSUME KindAssumption == Kind \in {"cache", "dataset"}
ASSUME DirAssumption == Dir \in BOOLEAN
ASSUME InMemAssumption == InMem \in Int
ASSUME BoundsAssumption ==
    /\ MaxEpoch \in Nat
    /\ MaxObjs \in Nat
    /\ MaxLookups \in Nat

Epochs == 0..MaxEpoch
Obj == 1..MaxObjs
NoObj == 0                 \* the nil *cache / *dataset pointer

OnceState == {"idle", "running", "done"}     \* sync.Once of an entry
WordsState == {"none", "heap", "mapping"}    \* what the words slice refers to

(* One cache / dataset struct: epoch, the once guard, where its words      *)
(* live, whether its memory map is still mapped, whether release() ran,    *)
(* its used timestamp, and whether its word slice has the size that        *)
(* cacheSize/datasetSize prescribes for the epoch.                         *)
ObjRec == [epoch: Nat, once: OnceState, words: WordsState, mmap: BOOLEAN,
           released: BOOLEAN, used: Nat, sizeOk: BOOLEAN]

PC == {"idle", "gen", "genrun", "bump", "use"}

VARIABLES
    store,     \* tilthash.caches / tilthash.datasets: epoch -> entry
    future,    \* tilthash.fcache / tilthash.fdataset
    obj,       \* the heap: entry id -> entry struct
    nextObj,   \* next fresh entry id
    now,       \* time.Now(), a logical clock
    pc,        \* program counter of each caller
    req,       \* epoch requested by each caller
    cur,       \* local `current` of each caller
    fut,       \* local `future` of each caller
    bg,        \* spawned `go future.generate` not yet inside once.Do
    bgRun,     \* background goroutines running the once body
    lookups    \* number of lookups so far

vars == <<store, future, obj, nextObj, now, pc, req, cur, fut, bg, bgRun, lookups>>

-----------------------------------------------------------------------------
(* &cache{epoch: e}: a zero struct for epoch e. *)
Fresh(e) == [epoch |-> e, once |-> "idle", words |-> "none", mmap |-> FALSE,
             released |-> FALSE, used |-> 0, sizeOk |-> TRUE]

(* release(): unmap and close; the words slice is left as it was. *)
Release(r) == [r EXCEPT !.mmap = FALSE, !.released = TRUE]

(* The possible results of the once body of generate.  With a directory   *)
(* the file is mapped (loaded, or generated then mapped); if mapping and  *)
(* generating fail, a heap buffer is filled instead.  The dataset         *)
(* generator does not return after its in-memory branch when dagdir is    *)
(* "", so it also reaches the disk branch; its heap fall-back allocates   *)
(* dsize/2 words instead of dsize/4.                                       *)
Mapped   == [words |-> "mapping", mmap |-> TRUE, sizeOk |-> TRUE]
Fallback == [words |-> "heap", mmap |-> FALSE, sizeOk |-> Kind = "cache"]
InHeap   == [words |-> "heap", mmap |-> FALSE, sizeOk |-> TRUE]

Outcomes == IF Dir \/ Kind = "dataset" THEN {Mapped, Fallback} ELSE {InHeap}

Generated(r, out) ==
    [r EXCEPT !.once = "done", !.words = out.words, !.mmap = out.mmap,
              !.sizeOk = out.sizeOk]

(* Epochs that have an entry in the in-memory map. *)
Live == {e \in Epochs : store[e] # NoObj}

(* The eviction loop removes least-recently-used entries while           *)
(* len > 0 && len >= InMem.  Each pass removes a minimum of what is left, *)
(* so the removed set is any set of the right size none of whose members *)
(* is newer than an entry that stays.                                    *)
(* Variant: the loop condition written as len > InMem. *)
NumToEvictStrict ==
    IF InMem <= 0 THEN Cardinality(Live)
    ELSE IF Cardinality(Live) > InMem THEN Cardinality(Live) - InMem
    ELSE 0
NumToEvict ==
    IF InMem <= 0 THEN Cardinality(Live)
    ELSE IF Cardinality(Live) >= InMem THEN Cardinality(Live) - InMem + 1
    ELSE 0

Victims ==
    {V \in SUBSET Live :
        /\ Cardinality(V) = NumToEvict
        /\ \A v \in V, w \in Live \ V : obj[store[v]].used <= obj[store[w]].used}

-----------------------------------------------------------------------------
Init ==
    /\ store = [e \in Epochs |-> NoObj]
    /\ future = NoObj
    /\ obj = [o \in Obj |-> Fresh(0)]
    /\ nextObj = 1
    /\ now = 1
    /\ pc = [p \in Callers |-> "idle"]
    /\ req = [p \in Callers |-> 0]
    /\ cur = [p \in Callers |-> NoObj]
    /\ fut = [p \in Callers |-> NoObj]
    /\ bg = {}
    /\ bgRun = {}
    /\ lookups = 0

(* Variant: a dataset adopted without the epoch comparison. *)
AdoptDatasetAnyEpoch(e) == future # NoObj /\ Kind = "dataset"

(* Adoption of the pre-generated entry: the cache lookup takes the future *)
(* object itself; the dataset lookup builds a new object for the same     *)
(* epoch ("Reload from disk") and drops the future one without release.   *)
AdoptCache(e)   == future # NoObj /\ obj[future].epoch = e /\ Kind = "cache"
AdoptDataset(e) == future # NoObj /\ obj[future].epoch = e /\ Kind = "dataset"

(* The epoch a newly built current entry is given: a reloaded dataset   *)
(* copies the epoch of the pre-generated one.                          *)
CurEpoch(e) == IF AdoptDataset(e) THEN obj[future].epoch ELSE e

(* Variant: the slot is not cleared when its entry is adopted. *)
FutureSlotKept(e) == future

(* The future slot once adoption has taken (and cleared) it. *)
FutureSlot(e) == IF AdoptCache(e) \/ AdoptDataset(e) THEN NoObj ELSE future

(* A new future entry for e+1 is needed when the slot is empty or behind. *)
(* Variant: a new future entry only when the slot is empty. *)
NeedsFutureIfEmpty(slot, e) == slot = NoObj
NeedsFuture(slot, e) == slot = NoObj \/ obj[slot].epoch <= e

(* Variant: the future entry built for the previous epoch. *)
FutureEpochPrev(e) == e - 1

(* The epoch of a new future entry: &cache{epoch: epoch + 1}. *)
FutureEpoch(e) == e + 1

(* The entry that becomes current, and the id a new future entry gets. *)
CurEntry(e) == IF AdoptCache(e) THEN future ELSE nextObj
FutureId(e) == IF AdoptCache(e) THEN nextObj ELSE nextObj + 1
Regen(e) == NeedsFuture(FutureSlot(e), e)
NewFuture(e) == IF Regen(e) THEN FutureId(e) ELSE NoObj

(* Entries released under the lock: the evicted ones and a replaced future. *)
Freed(e, V) ==
    {store[v] : v \in V}
        \cup (IF Regen(e) /\ FutureSlot(e) # NoObj THEN {FutureSlot(e)} ELSE {})

(* Locked section of cache()/dataset() when the epoch has no entry, once *)
(* the eviction loop has removed the entries V: take or create the       *)
(* current entry, insert it, replace the future slot if it is empty or   *)
(* not ahead, and stamp the current entry.                               *)
EvictInsert(p, e, V) ==
    /\ (IF Regen(e) THEN FutureId(e) ELSE FutureId(e) - 1) <= MaxObjs
    /\ store' = [x \in Epochs |-> IF x = e THEN CurEntry(e)
                                  ELSE IF x \in V THEN NoObj ELSE store[x]]
    /\ future' = IF Regen(e) THEN FutureId(e) ELSE FutureSlot(e)
    /\ obj' = [o \in Obj |->
                 IF o \in Freed(e, V) THEN Release(obj[o])
                 ELSE IF o = CurEntry(e)
                      THEN [(IF AdoptCache(e) THEN obj[o] ELSE Fresh(CurEpoch(e)))
                               EXCEPT !.used = now]
                 ELSE IF o = NewFuture(e) THEN Fresh(FutureEpoch(e))
                 ELSE obj[o]]
    /\ nextObj' = IF Regen(e) THEN FutureId(e) + 1 ELSE FutureId(e)
    /\ now' = now + 1
    /\ cur' = [cur EXCEPT ![p] = CurEntry(e)]
    /\ fut' = [fut EXCEPT ![p] = NewFuture(e)]

Insert(p, e) == \E V \in Victims : EvictInsert(p, e, V)

(* cache(block)/dataset(block): the whole section under tilthash.lock. *)
Lookup(p, e) ==
    /\ pc[p] = "idle"
    /\ lookups < MaxLookups
    /\ \/ /\ store[e] # NoObj
          /\ cur' = [cur EXCEPT ![p] = store[e]]
          /\ fut' = [fut EXCEPT ![p] = NoObj]
          /\ UNCHANGED <<store, future, obj, nextObj, now>>
       \/ /\ store[e] = NoObj
          /\ Insert(p, e)
    /\ pc' = [pc EXCEPT ![p] = "gen"]
    /\ req' = [req EXCEPT ![p] = e]
    /\ lookups' = lookups + 1
    /\ UNCHANGED <<bg, bgRun>>

(* Variant: the caller that wins once.Do never proceeds to run the body. *)
GenStartStalled(p) ==
    /\ pc[p] = "gen"
    /\ obj[cur[p]].once = "idle"
    /\ obj' = [obj EXCEPT ![cur[p]].once = "running"]
    /\ UNCHANGED <<store, future, nextObj, now, pc, req, cur, fut, bg, bgRun, lookups>>

(* current.generate: this caller enters once.Do first and runs the body. *)
GenStart(p) ==
    /\ pc[p] = "gen"
    /\ obj[cur[p]].once = "idle"
    /\ obj' = [obj EXCEPT ![cur[p]].once = "running"]
    /\ pc' = [pc EXCEPT ![p] = "genrun"]
    /\ UNCHANGED <<store, future, nextObj, now, req, cur, fut, bg, bgRun, lookups>>

(* The once body finishes; its result is written into the struct whether *)
(* or not release() ran on it in the meantime.                           *)
GenFinish(p) ==
    /\ pc[p] = "genrun"
    /\ \E out \in Outcomes : obj' = [obj EXCEPT ![cur[p]] = Generated(@, out)]
    /\ pc' = [pc EXCEPT ![p] = "bump"]
    /\ UNCHANGED <<store, future, nextObj, now, req, cur, fut, bg, bgRun, lookups>>

(* Variant: a one-shot guard that returns while another goroutine is   *)
(* still running the body.                                              *)
GenWaitEarly(p) ==
    /\ pc[p] = "gen"
    /\ obj[cur[p]].once # "idle"
    /\ pc' = [pc EXCEPT ![p] = "bump"]
    /\ UNCHANGED <<store, future, obj, nextObj, now, req, cur, fut, bg, bgRun, lookups>>

(* once.Do returns at once, or after the running body has finished. *)
GenWait(p) ==
    /\ pc[p] = "gen"
    /\ obj[cur[p]].once = "done"
    /\ pc' = [pc EXCEPT ![p] = "bump"]
    /\ UNCHANGED <<store, future, obj, nextObj, now, req, cur, fut, bg, bgRun, lookups>>

(* Bump current.used under current.lock, spawn the background generation *)
(* of the future entry if one was created, and return current's words.   *)
Bump(p) ==
    /\ pc[p] = "bump"
    /\ obj' = [obj EXCEPT ![cur[p]].used = now]
    /\ now' = now + 1
    /\ bg' = IF fut[p] # NoObj THEN bg \cup {fut[p]} ELSE bg
    /\ pc' = [pc EXCEPT ![p] = "use"]
    /\ UNCHANGED <<store, future, nextObj, req, cur, fut, bgRun, lookups>>

(* The caller is done with the returned words (verification or mining). *)
Done(p) ==
    /\ pc[p] = "use"
    /\ pc' = [pc EXCEPT ![p] = "idle"]
    /\ cur' = [cur EXCEPT ![p] = NoObj]
    /\ fut' = [fut EXCEPT ![p] = NoObj]
    /\ UNCHANGED <<store, future, obj, nextObj, now, req, bg, bgRun, lookups>>

(* go future.generate(...): the goroutine enters once.Do first. *)
BgStart(o) ==
    /\ o \in bg
    /\ obj[o].once = "idle"
    /\ obj' = [obj EXCEPT ![o].once = "running"]
    /\ bg' = bg \ {o}
    /\ bgRun' = bgRun \cup {o}
    /\ UNCHANGED <<store, future, nextObj, now, pc, req, cur, fut, lookups>>

(* The goroutine finds the entry already generated and exits. *)
BgSkip(o) ==
    /\ o \in bg
    /\ obj[o].once = "done"
    /\ bg' = bg \ {o}
    /\ UNCHANGED <<store, future, obj, nextObj, now, pc, req, cur, fut, bgRun, lookups>>

BgFinish(o) ==
    /\ o \in bgRun
    /\ \E out \in Outcomes : obj' = [obj EXCEPT ![o] = Generated(@, out)]
    /\ bgRun' = bgRun \ {o}
    /\ UNCHANGED <<store, future, nextObj, now, pc, req, cur, fut, bg, lookups>>

Next ==
    \/ \E p \in Callers, e \in Epochs : Lookup(p, e)
    \/ \E p \in Callers :
          GenStart(p) \/ GenFinish(p) \/ GenWait(p) \/ Bump(p) \/ Done(p)
    \/ \E o \in Obj : BgStart(o) \/ BgSkip(o) \/ BgFinish(o)

(* Goroutines are scheduled fairly once runnable; callers issue lookups *)
(* only when they want to, so Lookup carries no fairness.               *)
Fairness ==
    /\ \A p \in Callers :
          WF_vars(GenStart(p) \/ GenFinish(p) \/ GenWait(p) \/ Bump(p) \/ Done(p))
    /\ \A o \in Obj : WF_vars(BgStart(o) \/ BgSkip(o) \/ BgFinish(o))

Spec == Init /\ [][Next]_vars /\ Fairness

-----------------------------------------------------------------------------
(* Every variable ranges over the values the code can give it. *)
TypeOK ==
    /\ store \in [Epochs -> Obj \cup {NoObj}]
    /\ future \in Obj \cup {NoObj}
    /\ obj \in [Obj -> ObjRec]
    /\ nextObj \in 1..(MaxObjs + 1)
    /\ now \in Nat \ {0}
    /\ pc \in [Callers -> PC]
    /\ req \in [Callers -> Epochs]
    /\ cur \in [Callers -> Obj \cup {NoObj}]
    /\ fut \in [Callers -> Obj \cup {NoObj}]
    /\ bg \in SUBSET Obj
    /\ bgRun \in SUBSET Obj
    /\ lookups \in 0..MaxLookups

(* The in-memory map never holds more entries than cachesinmem/dagsinmem *)
(* allow (at least one), whatever the order of lookups: the eviction loop *)
(* of cache()/dataset() runs before every insertion.                      *)
StoreBounded ==
    Cardinality(Live) <= IF InMem <= 1 THEN 1 ELSE InMem

(* The future slot is always ahead of every epoch in the map: after any   *)
(* sequence of lookups, forwards and backwards, cache()/dataset() never   *)
(* keeps pre-generating an epoch that is already current or behind.       *)
FutureAhead ==
    future # NoObj => \A e \in Live : e < obj[future].epoch

(* Neither the map nor the future slot ever holds an entry that release() *)
(* has unmapped: a later lookup of that epoch would hand out its words.   *)
StoreHoldsLiveEntries ==
    /\ \A e \in Live : ~obj[store[e]].released
    /\ future # NoObj => ~obj[future].released

(* What cache()/dataset() returns belongs to the requested epoch and has *)
(* been generated: callers that found the entry running wait on its once. *)
ReturnedCacheReady ==
    \A p \in Callers :
        pc[p] = "use" => /\ obj[cur[p]].epoch = req[p]
                         /\ obj[cur[p]].once = "done"

(* Words handed back by cache()/dataset() stay mapped while the caller   *)
(* uses them: no concurrent eviction unmaps them underneath it.          *)
NoUseAfterRelease ==
    \A p \in Callers :
        (pc[p] = "use" /\ obj[cur[p]].words = "mapping") => obj[cur[p]].mmap

(* Entries that are reachable from the engine or from a goroutine. *)
Reachable ==
    {store[e] : e \in Live} \cup {future} \cup bg \cup bgRun
        \cup {cur[p] : p \in Callers} \cup {fut[p] : p \in Callers}

(* Every live memory map belongs to an entry something still refers to: *)
(* release() is never skipped, nor run before the map it should unmap.   *)
NoLeakedMapping ==
    \A o \in Obj : obj[o].mmap => o \in Reachable

(* Spec section 9: the one-shot guard makes exactly one goroutine         *)
(* generate an epoch; no two entries of one epoch are generated at once.  *)
SingleGenerationPerEpoch ==
    \A o1, o2 \in Obj :
        (/\ obj[o1].once = "running" /\ obj[o2].once = "running"
         /\ obj[o1].epoch = obj[o2].epoch) => o1 = o2

(* A generated entry always has the size its epoch prescribes. *)
GeneratedSizeCorrect ==
    \A o \in Obj : obj[o].once = "done" => obj[o].sizeOk

(* Spec section 6: an empty directory means in-memory only; nothing is  *)
(* memory mapped.                                                        *)
NoMappingWithoutDir ==
    ~Dir => \A o \in Obj : obj[o].words # "mapping"

(* A caller that entered cache()/dataset() eventually gets its words:   *)
(* waiting on another goroutine's once body never blocks forever.       *)
LookupCompletes ==
    \A p \in Callers : pc[p] = "gen" ~> pc[p] = "use"

=============================================================================
