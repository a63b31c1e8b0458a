------------------------- MODULE TilthashStoreProofs -------------------------
(***************************************************************************)
(* Proofs about TilthashStore for every value of the constants.            *)
(*                                                                         *)
(* FutureAhead is not inductive alone: a lookup that inserts epoch e needs *)
(* to know that the future slot's epoch really is the epoch stored in the  *)
(* entry, that entries already in the map carry their own epoch, and that *)
(* the ids it allocates are fresh, so that writing a new entry cannot      *)
(* overwrite one that the map or the slot already refers to.               *)
(***************************************************************************)
EXTENDS TilthashStore, FiniteSetTheorems, TLAPS

(* Every id the map or the future slot refers to has been allocated. *)
Allocated ==
    /\ \A e \in Epochs : store[e] \in 0..(nextObj - 1)
    /\ future \in 0..(nextObj - 1)

(* The map entry of epoch e is an entry for epoch e. *)
StoreEpochs ==
    \A e \in Epochs : store[e] # NoObj => obj[store[e]].epoch = e

(* The future slot is empty only before the first lookup. *)
FutureSet ==
    future = NoObj => \A e \in Epochs : store[e] = NoObj

IInv == TypeOK /\ Allocated /\ StoreEpochs /\ FutureSet /\ FutureAhead

(* A caller inside cache()/dataset() holds an allocated entry of the     *)
(* epoch it asked for.                                                    *)
CallerEntries ==
    \A p \in Callers : pc[p] # "idle" =>
        /\ cur[p] \in 1..(nextObj - 1)
        /\ obj[cur[p]].epoch = req[p]

(* A caller past once.Do holds a generated entry. *)
CallerReady ==
    \A p \in Callers : pc[p] \in {"bump", "use"} => obj[cur[p]].once = "done"

(* The strengthening of ReturnedCacheReady and StoreHoldsLiveEntries. *)
RInv == IInv /\ CallerEntries /\ CallerReady /\ StoreHoldsLiveEntries

USE KindAssumption, DirAssumption, InMemAssumption, BoundsAssumption

-----------------------------------------------------------------------------
(* Facts about the operators the steps are built from. *)

LEMMA FreshType ==
    ASSUME NEW e \in Nat
    PROVE  Fresh(e) \in ObjRec
BY DEF Fresh, ObjRec, OnceState, WordsState

LEMMA ReleaseType ==
    ASSUME NEW r \in ObjRec
    PROVE  /\ Release(r) \in ObjRec
           /\ Release(r).epoch = r.epoch
           /\ Release(r).once = r.once
BY DEF Release, ObjRec

LEMMA OutcomeFields ==
    \A out \in Outcomes :
        /\ out.words \in WordsState
        /\ out.mmap \in BOOLEAN
        /\ out.sizeOk \in BOOLEAN
<1>1. Mapped.words \in WordsState /\ Mapped.mmap \in BOOLEAN /\ Mapped.sizeOk \in BOOLEAN
    BY DEF Mapped, WordsState
<1>2. Fallback.words \in WordsState /\ Fallback.mmap \in BOOLEAN /\ Fallback.sizeOk \in BOOLEAN
    BY DEF Fallback, WordsState
<1>3. InHeap.words \in WordsState /\ InHeap.mmap \in BOOLEAN /\ InHeap.sizeOk \in BOOLEAN
    BY DEF InHeap, WordsState
<1> QED
    BY <1>1, <1>2, <1>3 DEF Outcomes

LEMMA GeneratedType ==
    ASSUME NEW r \in ObjRec, NEW out \in Outcomes
    PROVE  /\ Generated(r, out) \in ObjRec
           /\ Generated(r, out).epoch = r.epoch
BY OutcomeFields DEF Generated, ObjRec, OnceState

-----------------------------------------------------------------------------
LEMMA InitIInv == Init => IInv
<1> SUFFICES ASSUME Init PROVE IInv
    OBVIOUS
<1>1. obj \in [Obj -> ObjRec]
    BY FreshType DEF Init
<1> QED
    BY <1>1 DEF Init, IInv, TypeOK, Allocated, StoreEpochs, FutureSet,
               FutureAhead, Live, NoObj, PC, Epochs, Obj

-----------------------------------------------------------------------------
(* A step that leaves the map, the slot and the allocator alone and keeps *)
(* the epoch of every entry preserves the non-type part of IInv.          *)
LEMMA EpochPreserving ==
    ASSUME IInv, obj' \in [Obj -> ObjRec],
           \A o \in Obj : obj'[o].epoch = obj[o].epoch,
           UNCHANGED <<store, future, nextObj>>
    PROVE  (Allocated /\ StoreEpochs /\ FutureSet /\ FutureAhead)'
BY DEF IInv, TypeOK, Allocated, StoreEpochs, FutureSet, FutureAhead, Live, NoObj

(* Stamping the used time keeps the type and the epoch. *)
LEMMA StampType ==
    ASSUME NEW r \in ObjRec, NEW t \in Nat
    PROVE  /\ [r EXCEPT !.used = t] \in ObjRec
           /\ [r EXCEPT !.used = t].epoch = r.epoch
           /\ [r EXCEPT !.used = t].once = r.once
           /\ [r EXCEPT !.used = t].released = r.released
BY DEF ObjRec

-----------------------------------------------------------------------------
(* The locked insertion.  The current entry is the adopted future entry  *)
(* or a fresh id, the new future entry is a fresh id above it, and        *)
(* neither is among the released entries; every id allocated before the  *)
(* step keeps its epoch.  These facts carry the invariant over.           *)
LEMMA InsertIInv ==
    ASSUME IInv, NEW p \in Callers, NEW e \in Epochs, store[e] = NoObj,
           NEW V \in Victims, EvictInsert(p, e, V),
           pc' \in [Callers -> PC], req' \in [Callers -> Epochs],
           lookups' \in 0..MaxLookups, UNCHANGED <<bg, bgRun>>
    PROVE  /\ IInv'
           /\ StoreHoldsLiveEntries => StoreHoldsLiveEntries'
           /\ \A o \in 1..(nextObj - 1) : /\ obj'[o].epoch = obj[o].epoch
                                         /\ obj'[o].once = obj[o].once
           /\ CurEntry(e) \in 1..(nextObj' - 1) /\ obj'[CurEntry(e)].epoch = e
           /\ nextObj <= nextObj'
<1> DEFINE c == CurEntry(e)
           fid == FutureId(e)
           slot == FutureSlot(e)
<1> USE DEF NoObj, Epochs, Obj
<1>a. /\ nextObj \in 1..(MaxObjs + 1)
      /\ future \in 0..(nextObj - 1)
      /\ \A x \in Epochs : store[x] \in 0..(nextObj - 1)
      /\ obj \in [Obj -> ObjRec]
      /\ now \in Nat
      /\ \A o \in Obj : obj[o].epoch \in Nat
    BY DEF IInv, TypeOK, Allocated, ObjRec
<1> USE <1>a
<1>0. /\ IF Regen(e) THEN fid <= MaxObjs ELSE fid - 1 <= MaxObjs
      /\ nextObj' = IF Regen(e) THEN fid + 1 ELSE fid
      /\ future' = IF Regen(e) THEN fid ELSE slot
    BY DEF EvictInsert, fid, slot
<1>1. /\ V \subseteq Live
      /\ \A v \in V : store[v] \in 1..(nextObj - 1) /\ obj[store[v]].epoch = v
    BY DEF Victims, Live, StoreEpochs, IInv
<1>2. future # NoObj => \A x \in Live : x < obj[future].epoch
    BY DEF FutureAhead, IInv
<1>3. slot \in {NoObj, future} /\ (slot = NoObj => future = NoObj \/ obj[future].epoch = e)
    BY DEF FutureSlot, AdoptCache, AdoptDataset, slot
<1>4. \A o \in Freed(e, V) : o \in 1..(nextObj - 1)
    BY <1>1, <1>3 DEF Freed, slot
<1>5. /\ c \in Obj
      /\ \/ c = nextObj /\ fid = nextObj + 1
         \/ c < nextObj /\ fid = nextObj
      /\ c \notin Freed(e, V)
      /\ c < nextObj => AdoptCache(e) /\ c = future /\ obj[future].epoch = e
      /\ AdoptCache(e) => c = future /\ c < nextObj /\ obj[future].epoch = e
      /\ ~AdoptCache(e) => c = nextObj
      /\ Regen(e) => /\ fid \in Obj /\ fid >= nextObj /\ fid # c
                     /\ fid \notin Freed(e, V)
    <2>1. CASE AdoptCache(e)
        <3>1. /\ c = future /\ future \in 1..(nextObj - 1) /\ obj[future].epoch = e
              /\ slot = NoObj /\ Regen(e) /\ fid = nextObj
            BY <2>1 DEF CurEntry, FutureSlot, Regen, NeedsFuture, FutureId,
                        AdoptCache, c, slot, fid
        <3>2. c \notin Freed(e, V)
            BY <1>1, <1>2, <3>1 DEF Freed, Live, c
        <3> QED
            BY <1>0, <1>4, <3>1, <3>2, <2>1
    <2>2. CASE ~AdoptCache(e)
        <3>1. c = nextObj /\ fid = nextObj + 1
            BY <2>2 DEF CurEntry, FutureId, c, fid
        <3> QED
            BY <1>0, <1>4, <3>1, <2>2
    <2> QED
        BY <2>1, <2>2
<1>6. /\ nextObj' \in 1..(MaxObjs + 1)
      /\ nextObj' >= nextObj
      /\ c < nextObj'
      /\ Regen(e) => future' = fid /\ fid = nextObj' - 1
      /\ ~Regen(e) => future' = slot
    <2>1. CASE Regen(e)
        <3>1. nextObj' = fid + 1
            BY <1>0, <2>1
        <3>2. future' = fid
            BY <1>0, <2>1
        <3>3. fid <= MaxObjs
            BY <1>0, <2>1
        <3>4. nextObj \in 1..(MaxObjs + 1)
            OBVIOUS
        <3>5. fid \in {nextObj, nextObj + 1}
            BY <1>5
        <3>6. nextObj' \in 1..(MaxObjs + 1)
            BY <3>1, <3>3, <3>4, <3>5
        <3>7. c < nextObj'
            BY <3>1, <3>4, <1>5
        <3>8. nextObj' >= nextObj
            BY <3>1, <3>4, <3>5
        <3>9. fid = nextObj' - 1
            BY <3>1, <3>4, <3>5
        <3> QED
            BY <3>2, <3>6, <3>7, <3>8, <3>9, <2>1
    <2>2. CASE ~Regen(e)
        <3>1. nextObj' = fid /\ future' = slot /\ fid - 1 <= MaxObjs
            BY <1>0, <2>2
        <3>2. fid \in {nextObj, nextObj + 1}
            BY <1>5
        <3>3. c < nextObj'
            BY <1>5, <3>1
        <3> QED
            BY <3>1, <3>2, <3>3, <2>2
    <2> QED
        BY <2>1, <2>2
<1>7. ~Regen(e) => slot = future /\ future # NoObj /\ e < obj[future].epoch
    BY <1>3 DEF Regen, NeedsFuture, slot
<1>8. Regen(e) => \A x \in Live : x <= e
    <2>1. SUFFICES ASSUME Regen(e), NEW x \in Live PROVE x <= e
        OBVIOUS
    <2>2. future # NoObj
        BY <2>1 DEF FutureSet, Live, IInv
    <2>3. obj[future].epoch <= e
        BY <1>3, <2>1, <2>2 DEF Regen, NeedsFuture, slot
    <2> QED
        BY <1>2, <2>2, <2>3 DEF Live
<1>9. NewFuture(e) = IF Regen(e) THEN fid ELSE NoObj
    BY DEF NewFuture, fid
<1>10. \A o \in Obj :
          /\ obj'[o] \in ObjRec
          /\ o < nextObj => obj'[o].epoch = obj[o].epoch
          /\ o = c => obj'[o].epoch = e
          /\ Regen(e) /\ o = fid => obj'[o].epoch = e + 1
          /\ o < nextObj => obj'[o].once = obj[o].once
          /\ o \notin Freed(e, V) /\ o < nextObj => obj'[o].released = obj[o].released
          /\ (o = c /\ ~AdoptCache(e)) \/ (Regen(e) /\ o = fid) => ~obj'[o].released
    <2> SUFFICES ASSUME NEW o \in Obj
                 PROVE  /\ obj'[o] \in ObjRec
                        /\ o < nextObj => obj'[o].epoch = obj[o].epoch
                        /\ o = c => obj'[o].epoch = e
                        /\ Regen(e) /\ o = fid => obj'[o].epoch = e + 1
                        /\ o < nextObj => obj'[o].once = obj[o].once
                        /\ o \notin Freed(e, V) /\ o < nextObj
                               => obj'[o].released = obj[o].released
                        /\ (o = c /\ ~AdoptCache(e)) \/ (Regen(e) /\ o = fid)
                               => ~obj'[o].released
        OBVIOUS
    <2>1. CASE o \in Freed(e, V)
        <3>1. obj'[o] = Release(obj[o])
            BY <2>1 DEF EvictInsert
        <3> QED
            BY <1>5, <2>1, <3>1, ReleaseType
    <2>2. CASE o \notin Freed(e, V) /\ o = c
        <3>1. obj'[o] = [(IF AdoptCache(e) THEN obj[o] ELSE Fresh(CurEpoch(e)))
                          EXCEPT !.used = now]
            BY <2>2 DEF EvictInsert, c
        <3>2. CASE AdoptCache(e)
            <4>1. obj'[o] = [obj[o] EXCEPT !.used = now] /\ o = future /\ o < nextObj
                BY <1>5, <2>2, <3>1, <3>2
            <4>2. /\ obj'[o] \in ObjRec /\ obj'[o].epoch = obj[o].epoch
                  /\ obj'[o].once = obj[o].once /\ obj'[o].released = obj[o].released
                BY <4>1, StampType
            <4> QED
                BY <1>5, <2>2, <3>2, <4>1, <4>2
        <3>3. CASE ~AdoptCache(e)
            <4>0. CurEpoch(e) = e
                BY DEF CurEpoch, AdoptDataset
            <4>1. obj'[o] = [Fresh(e) EXCEPT !.used = now] /\ o = nextObj
                BY <1>5, <2>2, <3>1, <3>3, <4>0
            <4>2. obj'[o] \in ObjRec /\ obj'[o].epoch = e /\ ~obj'[o].released
                BY <4>1, StampType, FreshType DEF Fresh
            <4> QED
                BY <1>5, <2>2, <4>1, <4>2
        <3> QED
            BY <3>2, <3>3
    <2>3. CASE o \notin Freed(e, V) /\ o # c /\ Regen(e) /\ o = fid
        <3>1. obj'[o] = Fresh(e + 1)
            BY <1>9, <2>3 DEF EvictInsert, c, FutureEpoch
        <3>2. ~(o < nextObj)
            BY <1>5, <2>3
        <3>3. /\ obj'[o] \in ObjRec /\ obj'[o].epoch = e + 1
              /\ ~obj'[o].released
            BY <3>1, FreshType DEF Fresh
        <3> QED
            BY <2>3, <3>2, <3>3
    <2>4. CASE o \notin Freed(e, V) /\ o # c /\ ~(Regen(e) /\ o = fid)
        <3>1. o # NewFuture(e)
            BY <1>9, <2>4
        <3>2. obj'[o] = obj[o]
            BY <2>4, <3>1 DEF EvictInsert, c
        <3> QED
            BY <3>2, <2>4
    <2> QED
        BY <2>1, <2>2, <2>3, <2>4
<1>11. \A x \in Epochs : store'[x] = IF x = e THEN c
                                     ELSE IF x \in V THEN NoObj ELSE store[x]
    BY DEF EvictInsert, c
<1>12. TypeOK'
    <2>1. store' \in [Epochs -> Obj \cup {NoObj}]
        <3>1. store' = [x \in Epochs |-> IF x = e THEN c
                                         ELSE IF x \in V THEN NoObj ELSE store[x]]
            BY DEF EvictInsert, c
        <3> QED
            BY <3>1, <1>5
    <2>2. future' \in Obj \cup {NoObj}
        BY <1>0, <1>3, <1>5
    <2>3. obj' \in [Obj -> ObjRec]
        <3>1. obj' = [o \in Obj |-> obj'[o]]
            BY DEF EvictInsert
        <3> QED
            BY <3>1, <1>10
    <2>4. /\ cur' = [cur EXCEPT ![p] = c]
          /\ fut' = [fut EXCEPT ![p] = NewFuture(e)]
          /\ now' = now + 1
        BY DEF EvictInsert, c
    <2>5. NewFuture(e) \in Obj \cup {NoObj}
        BY <1>5, <1>9
    <2>6. /\ cur \in [Callers -> Obj \cup {NoObj}]
          /\ fut \in [Callers -> Obj \cup {NoObj}]
          /\ bg \in SUBSET Obj /\ bgRun \in SUBSET Obj
        BY DEF IInv, TypeOK
    <2>7. /\ cur' \in [Callers -> Obj \cup {NoObj}]
          /\ fut' \in [Callers -> Obj \cup {NoObj}]
          /\ now' \in Nat \ {0}
        BY <1>5, <2>4, <2>5, <2>6
    <2>8. nextObj' \in 1..(MaxObjs + 1)
        BY <1>6
    <2> QED
        BY <2>1, <2>2, <2>3, <2>6, <2>7, <2>8 DEF TypeOK
<1>13. Allocated'
    <2>1. \A x \in Epochs : store'[x] \in 0..(nextObj' - 1)
        <3> SUFFICES ASSUME NEW x \in Epochs PROVE store'[x] \in 0..(nextObj' - 1)
            OBVIOUS
        <3>1. CASE x = e
            BY <1>5, <1>6, <1>11, <3>1
        <3>2. CASE x # e
            <4>1. store'[x] \in {NoObj, store[x]} /\ store[x] \in 0..(nextObj - 1)
                BY <1>11, <3>2
            <4> QED
                BY <1>6, <4>1
        <3> QED
            BY <3>1, <3>2
    <2>2. future' \in 0..(nextObj' - 1)
        <3>1. CASE Regen(e)
            BY <1>0, <1>5, <1>6, <3>1
        <3>2. CASE ~Regen(e)
            BY <1>0, <1>3, <1>6, <3>2
        <3> QED
            BY <3>1, <3>2
    <2> QED
        BY <2>1, <2>2 DEF Allocated
<1>14. StoreEpochs'
    <2> SUFFICES ASSUME NEW x \in Epochs, store'[x] # NoObj
                 PROVE  obj'[store'[x]].epoch = x
        BY DEF StoreEpochs
    <2>1. CASE x = e
        BY <1>5, <1>10, <1>11, <2>1
    <2>2. CASE x # e
        <3>1. store'[x] = store[x] /\ store[x] \in 1..(nextObj - 1)
            BY <1>11, <2>2
        <3>2. obj[store[x]].epoch = x
            BY <3>1 DEF IInv, StoreEpochs
        <3>3. store[x] \in Obj /\ store[x] < nextObj
            BY <3>1
        <3>4. obj'[store[x]].epoch = obj[store[x]].epoch
            BY <1>10, <3>3
        <3> QED
            BY <3>1, <3>2, <3>4
    <2> QED
        BY <2>1, <2>2
<1>15. FutureSet'
    <2>1. future' # NoObj
        BY <1>0, <1>5, <1>7
    <2> QED
        BY <2>1 DEF FutureSet
<1>16. FutureAhead'
    <2>1. \A x \in Live' : x = e \/ (x \in Live /\ store'[x] = store[x])
        BY <1>11, <1>5 DEF Live
    <2>2. CASE Regen(e)
        <3>1. future' = fid /\ fid \in Obj /\ obj'[fid].epoch = e + 1
            BY <1>0, <1>5, <1>10, <2>2
        <3>2. \A x \in Live' : x < e + 1
            BY <1>8, <2>1, <2>2 DEF Live
        <3> QED
            BY <3>1, <3>2 DEF FutureAhead
    <2>3. CASE ~Regen(e)
        <3>1. future' = future /\ future \in 1..(nextObj - 1)
            BY <1>0, <1>7, <2>3
        <3>2. obj'[future].epoch = obj[future].epoch /\ e < obj[future].epoch
            BY <1>7, <1>10, <2>3, <3>1
        <3>3. \A x \in Live' : x < obj[future].epoch
            BY <1>2, <1>7, <2>1, <2>3, <3>2 DEF Live
        <3> QED
            BY <3>1, <3>2, <3>3 DEF FutureAhead
    <2> QED
        BY <2>2, <2>3
<1>17. StoreHoldsLiveEntries => StoreHoldsLiveEntries'
    <2> SUFFICES ASSUME StoreHoldsLiveEntries PROVE StoreHoldsLiveEntries'
        OBVIOUS
    <2>0. \A x \in Live : obj[store[x]].epoch = x /\ store[x] \in 1..(nextObj - 1)
        BY DEF Live, IInv, StoreEpochs
    <2>1. \A x \in Live' : ~obj'[store'[x]].released
        <3> SUFFICES ASSUME NEW x \in Live' PROVE ~obj'[store'[x]].released
            OBVIOUS
        <3>1. CASE x = e /\ AdoptCache(e)
            <4>1. store'[x] = future /\ future \in 1..(nextObj - 1)
                  /\ future \notin Freed(e, V)
                BY <1>5, <1>11, <3>1
            <4>2. ~obj[future].released
                BY <4>1 DEF StoreHoldsLiveEntries
            <4> QED
                BY <1>10, <4>1, <4>2
        <3>2. CASE x = e /\ ~AdoptCache(e)
            BY <1>10, <1>11, <1>5, <3>2
        <3>3. CASE x # e
            <4>1. x \in Live /\ x \notin V /\ store'[x] = store[x]
                BY <1>11, <3>3 DEF Live
            <4>2. \A v \in V : store[x] # store[v]
                BY <1>1, <2>0, <4>1
            <4>3. future # NoObj => store[x] # future
                BY <1>2, <2>0, <4>1
            <4>4. store[x] \notin Freed(e, V)
                BY <1>3, <4>2, <4>3 DEF Freed, slot
            <4>5. ~obj[store[x]].released
                BY <4>1 DEF StoreHoldsLiveEntries
            <4>6. store[x] \in Obj /\ store[x] < nextObj
                BY <2>0, <4>1
            <4>7. obj'[store[x]].released = obj[store[x]].released
                BY <1>10, <4>4, <4>6
            <4> QED
                BY <4>1, <4>5, <4>7
        <3> QED
            BY <3>1, <3>2, <3>3
    <2>2. future' # NoObj => ~obj'[future'].released
        <3>1. CASE Regen(e)
            BY <1>0, <1>5, <1>10, <3>1
        <3>2. CASE ~Regen(e)
            <4>1. future' = future /\ future \in 1..(nextObj - 1)
                BY <1>0, <1>7, <3>2
            <4>2. \A v \in V : store[v] # future
                BY <1>1, <1>2, <1>7, <3>2 DEF Live
            <4>3. future \notin Freed(e, V)
                BY <3>2, <4>2 DEF Freed
            <4>4. ~obj[future].released
                BY <1>7, <3>2 DEF StoreHoldsLiveEntries
            <4> QED
                BY <1>10, <4>1, <4>3, <4>4
        <3> QED
            BY <3>1, <3>2
    <2> QED
        BY <2>1, <2>2 DEF StoreHoldsLiveEntries
<1>18. \A o \in 1..(nextObj - 1) : /\ obj'[o].epoch = obj[o].epoch
                                  /\ obj'[o].once = obj[o].once
    BY <1>10
<1>19. c \in 1..(nextObj' - 1) /\ obj'[c].epoch = e
    BY <1>5, <1>6, <1>10
<1> QED
    BY <1>6, <1>12, <1>13, <1>14, <1>15, <1>16, <1>17, <1>18, <1>19 DEF IInv

-----------------------------------------------------------------------------
(* IInv is inductive: one step per action of Next. *)
LEMMA NextIInv == IInv /\ [Next]_vars => IInv'
<1> SUFFICES ASSUME IInv, [Next]_vars PROVE IInv'
    OBVIOUS
<1>a. TypeOK
    BY DEF IInv
<1>b. obj \in [Obj -> ObjRec] /\ now \in Nat
    BY <1>a DEF TypeOK
<1>1. ASSUME NEW p \in Callers, NEW e \in Epochs, Lookup(p, e) PROVE IInv'
    <2>1. /\ pc' \in [Callers -> PC] /\ req' \in [Callers -> Epochs]
          /\ lookups' \in 0..MaxLookups /\ UNCHANGED <<bg, bgRun>>
        BY <1>1, <1>a DEF Lookup, TypeOK, PC
    <2>2. CASE /\ store[e] # NoObj
               /\ cur' = [cur EXCEPT ![p] = store[e]]
               /\ fut' = [fut EXCEPT ![p] = NoObj]
               /\ UNCHANGED <<store, future, obj, nextObj, now>>
        <3>1. (Allocated /\ StoreEpochs /\ FutureSet /\ FutureAhead)'
            BY <1>b, <2>2, EpochPreserving
        <3>2. TypeOK'
            BY <1>a, <2>1, <2>2 DEF TypeOK
        <3> QED
            BY <3>1, <3>2 DEF IInv
    <2>3. CASE store[e] = NoObj /\ Insert(p, e)
        <3>1. PICK V \in Victims : EvictInsert(p, e, V)
            BY <2>3 DEF Insert
        <3> QED
            BY <2>1, <2>3, <3>1, InsertIInv
    <2> QED
        BY <1>1, <2>2, <2>3 DEF Lookup
<1>2. ASSUME NEW p \in Callers, GenStart(p) PROVE IInv'
    <2>1. /\ obj' \in [Obj -> ObjRec]
          /\ \A o \in Obj : obj'[o].epoch = obj[o].epoch
        BY <1>2, <1>b DEF GenStart, OnceState, ObjRec
    <2> QED
        BY <1>2, <1>a, <2>1, EpochPreserving DEF GenStart, IInv, TypeOK, PC
<1>3. ASSUME NEW p \in Callers, GenFinish(p) PROVE IInv'
    <2>1. PICK out \in Outcomes : obj' = [obj EXCEPT ![cur[p]] = Generated(@, out)]
        BY <1>3 DEF GenFinish
    <2>2. /\ obj' \in [Obj -> ObjRec]
          /\ \A o \in Obj : obj'[o].epoch = obj[o].epoch
        <3>1. cur[p] \in Obj => obj[cur[p]] \in ObjRec
            BY <1>b
        <3>2. cur[p] \in Obj => /\ Generated(obj[cur[p]], out) \in ObjRec
                                /\ Generated(obj[cur[p]], out).epoch = obj[cur[p]].epoch
            BY <3>1, GeneratedType
        <3> QED
            BY <1>b, <2>1, <3>2
    <2> QED
        BY <1>3, <1>a, <2>2, EpochPreserving DEF GenFinish, IInv, TypeOK, PC
<1>4. ASSUME NEW p \in Callers, GenWait(p) PROVE IInv'
    BY <1>4, <1>a, <1>b, EpochPreserving DEF GenWait, IInv, TypeOK, PC
<1>5. ASSUME NEW p \in Callers, Bump(p) PROVE IInv'
    <2>1. /\ obj' \in [Obj -> ObjRec]
          /\ \A o \in Obj : obj'[o].epoch = obj[o].epoch
        BY <1>5, <1>b DEF Bump, ObjRec
    <2>2. bg' \in SUBSET Obj
        BY <1>5, <1>a DEF Bump, TypeOK, NoObj
    <2> QED
        BY <1>5, <1>a, <2>1, <2>2, EpochPreserving DEF Bump, IInv, TypeOK, PC
<1>6. ASSUME NEW p \in Callers, Done(p) PROVE IInv'
    BY <1>6, <1>a, <1>b, EpochPreserving DEF Done, IInv, TypeOK, PC
<1>7. ASSUME NEW o \in Obj, BgStart(o) PROVE IInv'
    <2>1. /\ obj' \in [Obj -> ObjRec]
          /\ \A x \in Obj : obj'[x].epoch = obj[x].epoch
        BY <1>7, <1>b DEF BgStart, OnceState, ObjRec
    <2> QED
        BY <1>7, <1>a, <2>1, EpochPreserving DEF BgStart, IInv, TypeOK
<1>8. ASSUME NEW o \in Obj, BgSkip(o) PROVE IInv'
    BY <1>8, <1>a, <1>b, EpochPreserving DEF BgSkip, IInv, TypeOK
<1>9. ASSUME NEW o \in Obj, BgFinish(o) PROVE IInv'
    <2>1. PICK out \in Outcomes : obj' = [obj EXCEPT ![o] = Generated(@, out)]
        BY <1>9 DEF BgFinish
    <2>2. /\ obj' \in [Obj -> ObjRec]
          /\ \A x \in Obj : obj'[x].epoch = obj[x].epoch
        <3>1. /\ Generated(obj[o], out) \in ObjRec
              /\ Generated(obj[o], out).epoch = obj[o].epoch
            BY <1>b, GeneratedType
        <3> QED
            BY <1>b, <2>1, <3>1
    <2> QED
        BY <1>9, <1>a, <2>2, EpochPreserving DEF BgFinish, IInv, TypeOK
<1>10. CASE UNCHANGED vars
    BY <1>10 DEF vars, IInv, TypeOK, Allocated, StoreEpochs, FutureSet,
                 FutureAhead, Live
<1> QED
    BY <1>1, <1>2, <1>3, <1>4, <1>5, <1>6, <1>7, <1>8, <1>9, <1>10 DEF Next

-----------------------------------------------------------------------------
(* Type correctness: every variable of the store model ranges over the   *)
(* values cache()/dataset(), generate and the background goroutines can   *)
(* give it, in every reachable state and for every value of the constants. *)
THEOREM TypeCorrect == Spec => []TypeOK
<1>1. IInv => TypeOK
    BY DEF IInv
<1> QED
    BY InitIInv, NextIInv, <1>1, PTL DEF Spec

(* FutureAhead for every value of the constants: whatever the order of    *)
(* lookups, cache()/dataset() keep the pre-generated entry strictly ahead *)
(* of every epoch held in the in-memory map.                               *)
THEOREM FutureAheadHolds == Spec => []FutureAhead
<1>1. IInv => FutureAhead
    BY DEF IInv
<1> QED
    BY InitIInv, NextIInv, <1>1, PTL DEF Spec

-----------------------------------------------------------------------------
(* StoreBounded needs no strengthening beyond IInv: every insertion      *)
(* leaves Cardinality(Live) - NumToEvict + 1 entries, at most the bound  *)
(* whatever the previous size, and every other step keeps the map.       *)

LEMMA LiveFinite ==
    ASSUME TypeOK
    PROVE  IsFiniteSet(Live) /\ Cardinality(Live) \in Nat
<1>1. IsFiniteSet(Epochs)
    BY FS_Interval DEF Epochs
<1>2. Live \subseteq Epochs
    BY DEF Live
<1> QED
    BY <1>1, <1>2, FS_Subset, FS_CardinalityType

(* The locked section of a lookup that misses: the map afterwards holds *)
(* the survivors of the eviction loop and the new current entry.        *)
LEMMA InsertBounded ==
    ASSUME IInv, NEW p \in Callers, NEW e \in Epochs, store[e] = NoObj,
           NEW V \in Victims, EvictInsert(p, e, V)
    PROVE  StoreBounded'
<1> DEFINE n == Cardinality(Live)
<1>1. IsFiniteSet(Live) /\ n \in Nat
    BY LiveFinite DEF IInv
<1>2. V \subseteq Live /\ Cardinality(V) = NumToEvict
    BY DEF Victims
<1>3. CurEntry(e) # NoObj
    BY DEF CurEntry, AdoptCache, IInv, TypeOK, NoObj
<1>4. Live' = (Live \ V) \cup {e}
    <2>1. store' = [x \in Epochs |-> IF x = e THEN CurEntry(e)
                                     ELSE IF x \in V THEN NoObj ELSE store[x]]
        BY DEF EvictInsert
    <2> QED
        BY <1>2, <1>3, <2>1 DEF Live
<1>5. IsFiniteSet(Live \ V) /\ Cardinality(Live \ V) = n - NumToEvict
    <2>1. Live \cap V = V
        BY <1>2
    <2> QED
        BY <1>1, <1>2, <2>1, FS_Difference
<1>6. e \notin Live \ V
    BY DEF Live
<1>7. Cardinality(Live') = n - NumToEvict + 1
    BY <1>4, <1>5, <1>6, FS_AddElement
<1> QED
    BY <1>1, <1>7 DEF NumToEvict, StoreBounded

LEMMA BoundedStep ==
    ASSUME IInv, StoreBounded, [Next]_vars
    PROVE  StoreBounded'
<1>1. CASE \E p \in Callers, e \in Epochs : Lookup(p, e)
    <2>1. PICK p \in Callers, e \in Epochs : Lookup(p, e)
        BY <1>1
    <2>2. CASE store[e] # NoObj /\ UNCHANGED store
        BY <2>2 DEF StoreBounded, Live
    <2>3. CASE store[e] = NoObj /\ Insert(p, e)
        BY <2>3, InsertBounded DEF Insert
    <2> QED
        BY <2>1, <2>2, <2>3 DEF Lookup
<1>2. CASE ~\E p \in Callers, e \in Epochs : Lookup(p, e)
    <2>1. UNCHANGED store
        BY <1>2 DEF Next, vars, GenStart, GenFinish, GenWait, Bump, Done,
                    BgStart, BgSkip, BgFinish
    <2> QED
        BY <2>1 DEF StoreBounded, Live
<1> QED
    BY <1>1, <1>2

(* The map of cache()/dataset() never holds more entries than           *)
(* cachesinmem/dagsinmem allow (one when they are 0 or negative), for    *)
(* every value of the constants: the eviction loop before each insertion *)
(* removes exactly enough least-recently-used entries.                   *)
THEOREM StoreBoundedHolds == Spec => []StoreBounded
<1>1. Init => StoreBounded
    <2> SUFFICES ASSUME Init PROVE StoreBounded
        OBVIOUS
    <2>1. Live = {}
        BY DEF Init, Live
    <2> QED
        BY <2>1, FS_EmptySet DEF StoreBounded
<1>2. Spec => []IInv
    BY InitIInv, NextIInv, PTL DEF Spec
<1>3. IInv /\ StoreBounded /\ [Next]_vars => StoreBounded'
    BY BoundedStep
<1> QED
    BY <1>1, <1>2, <1>3, PTL DEF Spec

-----------------------------------------------------------------------------
(* StoreHoldsLiveEntries and ReturnedCacheReady rest on RInv: a caller   *)
(* holds an allocated entry of its epoch, which no later step re-uses    *)
(* (ids are fresh) or moves to another epoch; once.Do only moves an     *)
(* entry from idle to running to done; and release() only reaches the    *)
(* entries the eviction loop removes and a future entry being replaced.  *)

(* A step that keeps the map, the slot, the allocator and every entry's *)
(* epoch, released flag and completed generation, and moves callers only *)
(* in ways the two caller conjuncts allow, keeps them.                   *)
LEMMA ObjStep ==
    ASSUME RInv, UNCHANGED <<store, future, nextObj>>,
           \A q \in Callers : pc'[q] # "idle" =>
                /\ pc[q] # "idle" /\ cur'[q] = cur[q] /\ req'[q] = req[q]
                /\ pc'[q] \in {"bump", "use"} =>
                      pc[q] \in {"bump", "use"} \/ obj'[cur[q]].once = "done",
           \A x \in Obj : /\ obj'[x].epoch = obj[x].epoch
                          /\ obj'[x].released = obj[x].released
                          /\ obj[x].once = "done" => obj'[x].once = "done"
    PROVE  (CallerEntries /\ CallerReady /\ StoreHoldsLiveEntries)'
<1>a. nextObj \in 1..(MaxObjs + 1)
    BY DEF RInv, IInv, TypeOK
<1>1. CallerEntries'
    <2> SUFFICES ASSUME NEW q \in Callers, pc'[q] # "idle"
                 PROVE  cur'[q] \in 1..(nextObj' - 1) /\ obj'[cur'[q]].epoch = req'[q]
        BY DEF CallerEntries
    <2>1. pc[q] # "idle" /\ cur'[q] = cur[q] /\ req'[q] = req[q]
        OBVIOUS
    <2>2. cur[q] \in 1..(nextObj - 1) /\ obj[cur[q]].epoch = req[q]
        BY <2>1 DEF RInv, CallerEntries
    <2>3. cur[q] \in Obj
        BY <1>a, <2>2 DEF Obj
    <2>4. obj'[cur[q]].epoch = obj[cur[q]].epoch
        BY <2>3
    <2>5. nextObj' = nextObj
        OBVIOUS
    <2> QED
        BY <2>1, <2>2, <2>4, <2>5
<1>2. CallerReady'
    <2> SUFFICES ASSUME NEW q \in Callers, pc'[q] \in {"bump", "use"}
                 PROVE  obj'[cur'[q]].once = "done"
        BY DEF CallerReady
    <2>1. pc[q] # "idle" /\ cur'[q] = cur[q]
        OBVIOUS
    <2>2. cur[q] \in Obj
        BY <1>a, <2>1 DEF RInv, CallerEntries, Obj
    <2>3. CASE pc[q] \in {"bump", "use"}
        <3>1. obj[cur[q]].once = "done"
            BY <2>3 DEF RInv, CallerReady
        <3>2. obj[cur[q]].once = "done" => obj'[cur[q]].once = "done"
            BY <2>2
        <3> QED
            BY <2>1, <3>1, <3>2
    <2> QED
        BY <2>1, <2>3
<1>3. StoreHoldsLiveEntries'
    <2>1. \A e \in Live : store[e] \in Obj
        BY DEF Live, RInv, IInv, TypeOK, NoObj
    <2>2. future # NoObj => future \in Obj
        BY DEF RInv, IInv, TypeOK
    <2>3. \A e \in Live : ~obj'[store[e]].released
        <3> SUFFICES ASSUME NEW e \in Live PROVE ~obj'[store[e]].released
            OBVIOUS
        <3>1. ~obj[store[e]].released
            BY DEF RInv, StoreHoldsLiveEntries
        <3>2. obj'[store[e]].released = obj[store[e]].released
            BY <2>1
        <3> QED
            BY <3>1, <3>2
    <2>4. future # NoObj => ~obj'[future].released
        <3> SUFFICES ASSUME future # NoObj PROVE ~obj'[future].released
            OBVIOUS
        <3>1. ~obj[future].released
            BY DEF RInv, StoreHoldsLiveEntries
        <3>2. obj'[future].released = obj[future].released
            BY <2>2
        <3> QED
            BY <3>1, <3>2
    <2>5. Live' = Live
        BY DEF Live
    <2> QED
        BY <2>3, <2>4, <2>5 DEF StoreHoldsLiveEntries
<1> QED
    BY <1>1, <1>2, <1>3

(* A lookup hands its caller the map's entry of the epoch, or the entry *)
(* the insertion creates or adopts; the other callers' entries keep     *)
(* their epoch and generation state.                                     *)
LEMMA LookupRest ==
    ASSUME RInv, NEW p \in Callers, NEW e \in Epochs, Lookup(p, e)
    PROVE  (CallerEntries /\ CallerReady /\ StoreHoldsLiveEntries)'
<1>a. /\ TypeOK /\ nextObj \in 1..(MaxObjs + 1)
      /\ cur \in [Callers -> Obj \cup {NoObj}] /\ pc \in [Callers -> PC]
      /\ req \in [Callers -> Epochs]
    BY DEF RInv, IInv, TypeOK
<1>b. /\ pc' = [pc EXCEPT ![p] = "gen"] /\ req' = [req EXCEPT ![p] = e]
      /\ pc' \in [Callers -> PC] /\ req' \in [Callers -> Epochs]
      /\ lookups' \in 0..MaxLookups /\ UNCHANGED <<bg, bgRun>>
    BY <1>a DEF Lookup, RInv, IInv, TypeOK, PC
<1>c. \A q \in Callers : q # p /\ pc[q] # "idle" =>
          cur[q] \in 1..(nextObj - 1) /\ obj[cur[q]].epoch = req[q]
    BY DEF RInv, CallerEntries
<1>1. CASE /\ store[e] # NoObj
           /\ cur' = [cur EXCEPT ![p] = store[e]]
           /\ UNCHANGED <<store, future, obj, nextObj, now>>
    <2>1. store[e] \in 1..(nextObj - 1) /\ obj[store[e]].epoch = e
        BY <1>1 DEF RInv, IInv, Allocated, StoreEpochs, NoObj
    <2>2. CallerEntries'
        BY <1>a, <1>b, <1>c, <1>1, <2>1 DEF CallerEntries
    <2>3. CallerReady'
        BY <1>a, <1>b, <1>1 DEF CallerReady, RInv
    <2>4. StoreHoldsLiveEntries'
        BY <1>1 DEF StoreHoldsLiveEntries, RInv, Live
    <2> QED
        BY <2>2, <2>3, <2>4
<1>2. CASE store[e] = NoObj /\ Insert(p, e)
    <2>1. PICK V \in Victims : EvictInsert(p, e, V)
        BY <1>2 DEF Insert
    <2>2. /\ StoreHoldsLiveEntries => StoreHoldsLiveEntries'
          /\ \A o \in 1..(nextObj - 1) : /\ obj'[o].epoch = obj[o].epoch
                                        /\ obj'[o].once = obj[o].once
          /\ CurEntry(e) \in 1..(nextObj' - 1) /\ obj'[CurEntry(e)].epoch = e
          /\ nextObj <= nextObj'
        BY <1>b, <1>2, <2>1, InsertIInv DEF RInv
    <2>3. cur' = [cur EXCEPT ![p] = CurEntry(e)]
        BY <2>1 DEF EvictInsert
    <2>7. nextObj' \in Nat
        <3>1. IInv'
            BY <1>b, <1>2, <2>1, InsertIInv DEF RInv
        <3> QED
            BY <3>1 DEF IInv, TypeOK
    <2>4. CallerEntries'
        <3> SUFFICES ASSUME NEW q \in Callers, pc'[q] # "idle"
                     PROVE  cur'[q] \in 1..(nextObj' - 1) /\ obj'[cur'[q]].epoch = req'[q]
            BY DEF CallerEntries
        <3>1. CASE q = p
            BY <1>a, <1>b, <2>2, <2>3, <3>1
        <3>2. CASE q # p
            <4>1. pc[q] # "idle" /\ cur'[q] = cur[q] /\ req'[q] = req[q]
                BY <1>a, <1>b, <2>3, <3>2
            <4>2. cur[q] \in 1..(nextObj - 1) /\ obj[cur[q]].epoch = req[q]
                BY <1>c, <3>2, <4>1
            <4>3. obj'[cur[q]].epoch = obj[cur[q]].epoch
                BY <2>2, <4>2
            <4>4. cur[q] \in 1..(nextObj' - 1)
                BY <1>a, <2>2, <2>7, <4>2
            <4> QED
                BY <4>1, <4>2, <4>3, <4>4
        <3> QED
            BY <3>1, <3>2
    <2>5. CallerReady'
        <3> SUFFICES ASSUME NEW q \in Callers, pc'[q] \in {"bump", "use"}
                     PROVE  obj'[cur'[q]].once = "done"
            BY DEF CallerReady
        <3>1. q # p /\ pc[q] \in {"bump", "use"} /\ cur'[q] = cur[q]
            BY <1>a, <1>b, <2>3
        <3>2. cur[q] \in 1..(nextObj - 1) /\ obj[cur[q]].once = "done"
            BY <1>c, <3>1 DEF RInv, CallerReady
        <3>3. obj'[cur[q]].once = obj[cur[q]].once
            BY <2>2, <3>2
        <3> QED
            BY <3>1, <3>2, <3>3
    <2>6. StoreHoldsLiveEntries'
        BY <2>2 DEF RInv
    <2> QED
        BY <2>4, <2>5, <2>6
<1> QED
    BY <1>1, <1>2 DEF Lookup

LEMMA NextRInv == RInv /\ [Next]_vars => RInv'
<1> SUFFICES ASSUME RInv, [Next]_vars PROVE RInv'
    OBVIOUS
<1>0. IInv'
    BY NextIInv DEF RInv
<1>a. /\ obj \in [Obj -> ObjRec] /\ pc \in [Callers -> PC]
      /\ \A q \in Callers : pc[q] # "idle" => cur[q] \in Obj
    BY DEF RInv, IInv, TypeOK, CallerEntries, Obj
<1> USE <1>a
<1>1. ASSUME NEW p \in Callers, NEW e \in Epochs, Lookup(p, e) PROVE (CallerEntries /\ CallerReady /\ StoreHoldsLiveEntries)'
    BY <1>1, LookupRest
<1>2. ASSUME NEW p \in Callers, GenStart(p) PROVE (CallerEntries /\ CallerReady /\ StoreHoldsLiveEntries)'
    <2>1. cur[p] \in Obj /\ obj[cur[p]].once = "idle"
        BY <1>2 DEF GenStart
    <2>2. \A x \in Obj : /\ obj'[x].epoch = obj[x].epoch
                         /\ obj'[x].released = obj[x].released
                         /\ obj[x].once = "done" => obj'[x].once = "done"
        BY <1>2, <2>1 DEF GenStart
    <2> QED
        BY <1>2, <2>1, <2>2, ObjStep DEF GenStart
<1>3. ASSUME NEW p \in Callers, GenFinish(p) PROVE (CallerEntries /\ CallerReady /\ StoreHoldsLiveEntries)'
    <2>1. PICK out \in Outcomes : obj' = [obj EXCEPT ![cur[p]] = Generated(@, out)]
        BY <1>3 DEF GenFinish
    <2>2. cur[p] \in Obj
        BY <1>3 DEF GenFinish
    <2>3. /\ Generated(obj[cur[p]], out).once = "done"
          /\ Generated(obj[cur[p]], out).epoch = obj[cur[p]].epoch
          /\ Generated(obj[cur[p]], out).released = obj[cur[p]].released
        BY <2>2 DEF Generated, ObjRec
    <2>4. \A x \in Obj : /\ obj'[x].epoch = obj[x].epoch
                         /\ obj'[x].released = obj[x].released
                         /\ obj[x].once = "done" => obj'[x].once = "done"
        BY <2>1, <2>2, <2>3
    <2>5. obj'[cur[p]].once = "done"
        BY <2>1, <2>2, <2>3
    <2>6. \A q \in Callers : pc'[q] # "idle" =>
                /\ pc[q] # "idle" /\ cur'[q] = cur[q] /\ req'[q] = req[q]
                /\ pc'[q] \in {"bump", "use"} =>
                      pc[q] \in {"bump", "use"} \/ obj'[cur[q]].once = "done"
        BY <1>3, <2>5 DEF GenFinish
    <2>7. UNCHANGED <<store, future, nextObj>>
        BY <1>3 DEF GenFinish
    <2> QED
        BY <2>4, <2>6, <2>7, ObjStep, Zenon
<1>4. ASSUME NEW p \in Callers, GenWait(p) PROVE (CallerEntries /\ CallerReady /\ StoreHoldsLiveEntries)'
    BY <1>4, ObjStep, Zenon DEF GenWait
<1>5. ASSUME NEW p \in Callers, Bump(p) PROVE (CallerEntries /\ CallerReady /\ StoreHoldsLiveEntries)'
    <2>1. cur[p] \in Obj
        BY <1>5 DEF Bump
    <2>2. \A x \in Obj : /\ obj'[x].epoch = obj[x].epoch
                         /\ obj'[x].released = obj[x].released
                         /\ obj'[x].once = obj[x].once
        BY <1>5, <2>1 DEF Bump
    <2> QED
        BY <1>5, <2>2, ObjStep DEF Bump
<1>6. ASSUME NEW p \in Callers, Done(p) PROVE (CallerEntries /\ CallerReady /\ StoreHoldsLiveEntries)'
    BY <1>6, ObjStep DEF Done
<1>7. ASSUME NEW o \in Obj, BgStart(o) PROVE (CallerEntries /\ CallerReady /\ StoreHoldsLiveEntries)'
    <2>1. \A x \in Obj : /\ obj'[x].epoch = obj[x].epoch
                         /\ obj'[x].released = obj[x].released
                         /\ obj[x].once = "done" => obj'[x].once = "done"
        BY <1>7 DEF BgStart
    <2> QED
        BY <1>7, <2>1, ObjStep DEF BgStart
<1>8. ASSUME NEW o \in Obj, BgSkip(o) PROVE (CallerEntries /\ CallerReady /\ StoreHoldsLiveEntries)'
    BY <1>8, ObjStep DEF BgSkip
<1>9. ASSUME NEW o \in Obj, BgFinish(o) PROVE (CallerEntries /\ CallerReady /\ StoreHoldsLiveEntries)'
    <2>1. PICK out \in Outcomes : obj' = [obj EXCEPT ![o] = Generated(@, out)]
        BY <1>9 DEF BgFinish
    <2>2. /\ Generated(obj[o], out).once = "done"
          /\ Generated(obj[o], out).epoch = obj[o].epoch
          /\ Generated(obj[o], out).released = obj[o].released
        BY DEF Generated, ObjRec
    <2>3. \A x \in Obj : /\ obj'[x].epoch = obj[x].epoch
                         /\ obj'[x].released = obj[x].released
                         /\ obj'[x].once = "done" \/ obj'[x].once = obj[x].once
        BY <2>1, <2>2
    <2> QED
        BY <1>9, <2>3, ObjStep DEF BgFinish
<1>10. ASSUME UNCHANGED vars
       PROVE  (CallerEntries /\ CallerReady /\ StoreHoldsLiveEntries)'
    BY <1>10, ObjStep, Zenon DEF vars
<1>11. ASSUME Next
       PROVE  (CallerEntries /\ CallerReady /\ StoreHoldsLiveEntries)'
    <2>1. CASE \E p \in Callers, e \in Epochs : Lookup(p, e)
        BY <1>1, <2>1
    <2>2. CASE \E p \in Callers :
                  GenStart(p) \/ GenFinish(p) \/ GenWait(p) \/ Bump(p) \/ Done(p)
        BY <1>2, <1>3, <1>4, <1>5, <1>6, <2>2
    <2>3. CASE \E o \in Obj : BgStart(o) \/ BgSkip(o) \/ BgFinish(o)
        BY <1>7, <1>8, <1>9, <2>3
    <2> QED
        BY <1>11, <2>1, <2>2, <2>3 DEF Next
<1>12. (CallerEntries /\ CallerReady /\ StoreHoldsLiveEntries)'
    BY <1>10, <1>11 DEF vars
<1> QED
    BY <1>0, <1>12 DEF RInv

LEMMA InitRInv == Init => RInv
BY InitIInv DEF Init, RInv, CallerEntries, CallerReady, StoreHoldsLiveEntries, Live,
               Fresh, NoObj

(* Neither the map nor the future slot of cache()/dataset() ever holds an *)
(* entry that release() has unmapped, for every value of the constants:  *)
(* the eviction loop releases only the entries it removes, and a future  *)
(* entry is released only when it is replaced.                           *)
THEOREM StoreHoldsLiveEntriesHolds == Spec => []StoreHoldsLiveEntries
<1>1. RInv => StoreHoldsLiveEntries
    BY DEF RInv
<1> QED
    BY InitRInv, NextRInv, <1>1, PTL DEF Spec

(* What cache()/dataset() returns is of the requested epoch and has been *)
(* generated, for every value of the constants and every interleaving of *)
(* lookups, once.Do bodies and background generations.                   *)
THEOREM ReturnedCacheReadyHolds == Spec => []ReturnedCacheReady
<1>1. RInv => ReturnedCacheReady
    BY DEF RInv, CallerEntries, CallerReady, ReturnedCacheReady
<1> QED
    BY InitRInv, NextRInv, <1>1, PTL DEF Spec
====
