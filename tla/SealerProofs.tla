---------------------------- MODULE SealerProofs ----------------------------
(***************************************************************************)
(* Proofs about one Seal call, for any number of CPUs, any thread counts *)
(* and any number of SetThreads calls: what Seal returns, and type        *)
(* correctness.                                                            *)
(*                                                                         *)
(* SealReturnsResult is not inductive: it speaks only of the state after *)
(* Seal returns.  The invariant adds what holds on the way there: a      *)
(* pending restart (the update case) exists only in the wait and the    *)
(* next start and only with no block received; a wait that will return  *)
(* with no block follows a closed stop; a received block belongs to a   *)
(* miner of the current round, which only Spawn starts.                  *)
(***************************************************************************)
EXTENDS Sealer, TLAPS

(* Only the miners Spawn started in this round are running. *)
InRound == \A i \in Workers : miner[i] # "none" => i \in 1..roundN

(* How the select was left decides what Wait does next. *)
Outcome ==
    /\ restart => sealPc \in {"wait", "start"} /\ result = NoWorker
    /\ sealPc \in {"wait", "done"} /\ ~restart /\ result = NoWorker => stop
    /\ result # NoWorker =>
           sealPc \in {"wait", "done"} /\ ~restart /\ result \in 1..roundN

IInv ==
    /\ miner \in [Workers -> MinerPC]
    /\ sealPc \in SealPC
    /\ threads \in Int /\ roundN \in Int
    /\ restart \in BOOLEAN /\ stop \in BOOLEAN
    /\ InRound /\ Outcome

USE NumCPUAssumption, ThreadsAssumption

LEMMA EffectiveInt ==
    ASSUME NEW n \in Int
    PROVE  Effective(n) \in Int
BY DEF Effective

LEMMA InitIInv == Init => IInv
<1> SUFFICES ASSUME Init PROVE IInv
    OBVIOUS
<1>1. miner \in [Workers -> MinerPC] /\ InRound
    BY DEF Init, InRound, MinerPC
<1>2. Outcome
    BY DEF Init, Outcome
<1>3. sealPc \in SealPC /\ threads \in Int /\ roundN \in Int
    BY DEF Init, SealPC
<1>4. restart \in BOOLEAN /\ stop \in BOOLEAN
    BY Zenon DEF Init
<1> QED
    BY <1>1, <1>2, <1>3, <1>4 DEF IInv

(* A step of one running miner i that only changes its own state. *)
LEMMA MinerStep ==
    ASSUME IInv, NEW i \in Workers, NEW s \in MinerPC,
           miner[i] # "none", s # "none",
           miner' = [miner EXCEPT ![i] = s],
           UNCHANGED <<threads, sealPc, roundN, restart, stop, result>>
    PROVE  IInv'
BY DEF IInv, InRound, Outcome

LEMMA NextIInv ==
    ASSUME IInv, [Next]_vars
    PROVE  IInv'
<1>1. CASE Prepare
    <2>1. roundN' \in Int
        BY <1>1, EffectiveInt DEF Prepare, IInv
    <2>2. result = NoWorker
        BY <1>1 DEF Prepare, IInv, Outcome
    <2> QED
        BY <1>1, <2>1, <2>2 DEF Prepare, IInv, InRound, Outcome, SealPC, MinerPC
<1>2. CASE Spawn
    <2>1. ~restart /\ result = NoWorker
        BY <1>2 DEF Spawn, IInv, Outcome
    <2> QED
        BY <1>2, <2>1 DEF Spawn, IInv, InRound, Outcome, SealPC, MinerPC, Workers
<1>3. CASE StopCase
    BY <1>3 DEF StopCase, IInv, InRound, Outcome, SealPC
<1>4. CASE Wait
    BY <1>4 DEF Wait, IInv, InRound, Outcome, SealPC
<1>5. CASE CloseStop
    BY <1>5 DEF CloseStop, IInv, InRound, Outcome
<1>6. ASSUME NEW n \in ThreadValues, SetThreads(n)
      PROVE  IInv'
    <2>1. threads' \in Int /\ UNCHANGED <<roundN, miner, stop, result>>
        BY <1>6 DEF SetThreads
    <2>2. CASE sealPc = "select"
        <3>1. result = NoWorker
            BY <2>2 DEF IInv, Outcome
        <3> QED
            BY <1>6, <2>1, <2>2, <3>1 DEF SetThreads, IInv, InRound, Outcome, SealPC
    <2>3. CASE sealPc # "select"
        BY <1>6, <2>1, <2>3 DEF SetThreads, IInv, InRound, Outcome
    <2> QED
        BY <2>2, <2>3
<1>7. ASSUME NEW i \in Workers, FoundCase(i)
      PROVE  IInv'
    <2>1. i \in 1..roundN /\ i # NoWorker
        BY <1>7 DEF FoundCase, IInv, InRound, Workers, NoWorker
    <2>2. ~restart
        BY <1>7 DEF FoundCase, IInv, Outcome
    <2> QED
        BY <1>7, <2>1, <2>2 DEF FoundCase, IInv, InRound, Outcome, SealPC, MinerPC
<1>8. ASSUME NEW i \in Workers, Find(i) \/ Quit(i) \/ Discard(i)
      PROVE  IInv'
    BY <1>8, MinerStep DEF Find, Quit, Discard, MinerPC
<1>10. CASE UNCHANGED vars
    BY <1>10 DEF vars, IInv, InRound, Outcome
<1> QED
    BY <1>1, <1>2, <1>3, <1>4, <1>5, <1>6, <1>7, <1>8, <1>10 DEF Next

(* Seal returns nil only when its caller closed stop, and otherwise the  *)
(* block of a miner it spawned in its final round: the update case never *)
(* returns, it waits for the miners and calls Seal again.                *)
THEOREM SealReturnsResultHolds == Spec => []SealReturnsResult
<1>1. IInv => SealReturnsResult
    BY DEF IInv, Outcome, SealReturnsResult
<1>2. Spec => []IInv
    BY InitIInv, NextIInv, PTL DEF Spec
<1> QED
    BY <1>1, <1>2, PTL

-----------------------------------------------------------------------------
(* Type correctness.  The only non-obvious conjunct is roundN: Prepare     *)
(* reads Effective(threads), and threads only ever holds a setting.        *)

(* MaxWorkers is the largest count Seal can read, and it is not negative. *)
LEMMA MaxWorkersBound ==
    /\ MaxWorkers \in EffectiveValues
    /\ \A k \in EffectiveValues : k <= MaxWorkers
BY WorkersBoundAssumption DEF MaxWorkers

LEMMA EffectiveValuesNat == EffectiveValues \subseteq Nat
BY DEF EffectiveValues, Effective

LEMMA EffectiveInRange ==
    ASSUME NEW n \in ThreadValues \cup {InitThreads}
    PROVE  Effective(n) \in 0..MaxWorkers
<1>1. Effective(n) \in EffectiveValues
    BY DEF EffectiveValues
<1>2. Effective(n) \in Nat
    BY DEF Effective
<1> QED
    BY <1>1, <1>2, MaxWorkersBound

LEMMA InitTypeOK == Init => TypeOK
<1>1. 0 \in 0..MaxWorkers
    <2>2. MaxWorkers \in Nat
        BY MaxWorkersBound, EffectiveValuesNat
    <2> QED
        BY <2>2
<1> SUFFICES ASSUME Init PROVE TypeOK
    OBVIOUS
<1>2. miner \in [Workers -> MinerPC]
    BY DEF Init, MinerPC
<1>3. sets \in 0..MaxSets /\ result \in Workers \cup {NoWorker} /\ roundN \in 0..MaxWorkers
    BY <1>1, MaxSetsAssumption DEF Init
<1> QED
    BY <1>2, <1>3 DEF Init, TypeOK, SealPC

LEMMA NextTypeOK ==
    ASSUME TypeOK, [Next]_vars
    PROVE  TypeOK'
<1> USE DEF TypeOK
<1>1. CASE Prepare
    BY <1>1, EffectiveInRange DEF Prepare, SealPC, MinerPC
<1>2. CASE Spawn
    BY <1>2 DEF Spawn, SealPC, MinerPC
<1>3. CASE StopCase \/ Wait \/ CloseStop
    BY <1>3 DEF StopCase, Wait, CloseStop, SealPC
<1>4. ASSUME NEW n \in ThreadValues, SetThreads(n)
      PROVE  TypeOK'
    <2>1. threads' \in ThreadValues /\ sets' \in 0..MaxSets
          /\ UNCHANGED <<roundN, stop, miner, result>>
        BY <1>4, MaxSetsAssumption DEF SetThreads
    <2>2. CASE sealPc = "select"
        BY <1>4, <2>1, <2>2 DEF SetThreads, SealPC
    <2>3. CASE sealPc # "select"
        BY <1>4, <2>1, <2>3 DEF SetThreads
    <2> QED
        BY <2>2, <2>3
<1>5. ASSUME NEW i \in Workers, FoundCase(i)
      PROVE  TypeOK'
    BY <1>5 DEF FoundCase, SealPC, MinerPC
<1>6. ASSUME NEW i \in Workers, Find(i) \/ Quit(i) \/ Discard(i)
      PROVE  TypeOK'
    BY <1>6 DEF Find, Quit, Discard, MinerPC
<1>7. CASE UNCHANGED vars
    BY <1>7 DEF vars
<1> QED
    BY <1>1, <1>2, <1>3, <1>4, <1>5, <1>6, <1>7 DEF Next

(* Every reachable state of one Seal call is well typed: in particular    *)
(* Seal never runs more miners than the largest thread setting asks for,  *)
(* and the result it returns is one of its miners or none.               *)
THEOREM TypeCorrect == Spec => []TypeOK
BY InitTypeOK, NextTypeOK, PTL DEF Spec
=============================================================================
