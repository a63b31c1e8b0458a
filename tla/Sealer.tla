------------------------------- MODULE Sealer -------------------------------
(***************************************************************************)
(* One call of Tilthash.Seal (src/consensus/tilthash/sealer.go) with the   *)
(* miner goroutines it spawns, the caller that may close `stop`, and a     *)
(* user calling Tilthash.SetThreads (tilthash.go) concurrently.            *)
(*                                                                         *)
(* Seal reads the thread count under the engine lock, spawns that many     *)
(* `mine` goroutines and blocks in a select on stop, found and update.     *)
(* SetThreads stores the new count and does a non-blocking send on the     *)
(* unbuffered update channel, so the send succeeds only while Seal is      *)
(* blocked in that select.  A restart closes abort, waits for every miner  *)
(* (pend.Wait) and calls Seal again; the recursion is the `start` state.   *)
(* The nonce search is abstracted to: each attempt may or may not meet the *)
(* target.                                                                 *)
(***************************************************************************)
EXTENDS Integers

CONSTANTS
    NumCPU,         \* runtime.NumCPU()
    InitThreads,    \* tilthash.threads when Seal is called
    ThreadValues,   \* arguments a user may pass to SetThreads
    MaxSets         \* bound: number of SetThreads calls

ASSUME NumCPUAssumption == NumCPU \in Nat \ {0}
ASSUME ThreadsAssumption ==
    /\ InitThreads \in Int
    /\ ThreadValues \subseteq Int
ASSUME MaxSetsAssumption == MaxSets \in Nat

(* Variant: a negative count is used as it is. *)
EffectiveUnclamped(n) == IF n = 0 THEN NumCPU ELSE n

(* Lines 61-66: 0 means all CPUs, a negative count means idle. *)
Effective(n) == IF n = 0 THEN NumCPU ELSE IF n < 0 THEN 0 ELSE n

(* The worker counts Seal can read: one per thread setting. *)
EffectiveValues == {Effective(n) : n \in ThreadValues \cup {InitThreads}}

(* The user passes finitely many settings, so one count is the largest. *)
ASSUME WorkersBoundAssumption ==
    \E m \in EffectiveValues : \A k \in EffectiveValues : k <= m

MaxWorkers ==
    CHOOSE m \in EffectiveValues : \A k \in EffectiveValues : k <= m

Workers == 1..MaxWorkers
NoWorker == 0

SealPC == {"start", "spawn", "select", "wait", "done"}
MinerPC == {"none", "search", "deliver", "exit"}

VARIABLES
    threads,    \* tilthash.threads
    sealPc,     \* where the Seal goroutine is
    roundN,     \* local `threads` of the current Seal invocation
    restart,    \* the select took the update case: recurse after pend.Wait
    abort,      \* the abort channel of the current invocation is closed
    stop,       \* the caller closed stop
    miner,      \* state of each mine goroutine of the current invocation
    result,     \* miner whose sealed block Seal received, or NoWorker
    sets        \* number of SetThreads calls so far

vars == <<threads, sealPc, roundN, restart, abort, stop, miner, result, sets>>

-----------------------------------------------------------------------------
Init ==
    /\ threads = InitThreads
    /\ sealPc = "start"
    /\ roundN = 0
    /\ restart = FALSE
    /\ abort = FALSE
    /\ stop = FALSE
    /\ miner = [i \in Workers |-> "none"]
    /\ result = NoWorker
    /\ sets = 0

(* Lines 47-66: make abort and found, read the thread count under the    *)
(* lock (seeding rand on first use).                                     *)
Prepare ==
    /\ sealPc = "start"
    /\ sealPc' = "spawn"
    /\ roundN' = Effective(threads)
    /\ abort' = FALSE
    /\ restart' = FALSE
    /\ miner' = [i \in Workers |-> "none"]
    /\ UNCHANGED <<threads, stop, result, sets>>

(* Lines 67-74: spawn roundN miners, each from its own random nonce. *)
Spawn ==
    /\ sealPc = "spawn"
    /\ sealPc' = "select"
    /\ miner' = [i \in Workers |-> IF i <= roundN THEN "search" ELSE "none"]
    /\ UNCHANGED <<threads, roundN, restart, abort, stop, result, sets>>

(* case <-stop: close(abort). *)
StopCase ==
    /\ sealPc = "select"
    /\ stop
    /\ sealPc' = "wait"
    /\ abort' = TRUE
    /\ UNCHANGED <<threads, roundN, restart, stop, miner, result, sets>>

(* case result = <-found: the rendezvous with a miner, then close(abort). *)
FoundCase(i) ==
    /\ sealPc = "select"
    /\ miner[i] = "deliver"
    /\ sealPc' = "wait"
    /\ result' = i
    /\ miner' = [miner EXCEPT ![i] = "exit"]
    /\ abort' = TRUE
    /\ UNCHANGED <<threads, roundN, restart, stop, sets>>

(* Variant: Wait counting one goroutine too many. *)
AllExitedPlusOne == \A i \in 1..(roundN + 1) : i \in Workers => miner[i] = "exit"

(* pend.Wait() returns once every spawned miner has called pend.Done(). *)
AllExited == \A i \in 1..roundN : miner[i] = "exit"

(* Variant: the update case returns after pend.Wait instead of calling *)
(* Seal again.                                                          *)
WaitReturnsOnUpdate ==
    /\ sealPc = "wait"
    /\ AllExited
    /\ sealPc' = "done"
    /\ UNCHANGED <<threads, roundN, restart, abort, stop, miner, result, sets>>

(* pend.Wait(), then return the result or, after an update, call Seal again. *)
Wait ==
    /\ sealPc = "wait"
    /\ AllExited
    /\ sealPc' = IF restart THEN "start" ELSE "done"
    /\ UNCHANGED <<threads, roundN, restart, abort, stop, miner, result, sets>>

(* The caller of Seal closes stop. *)
CloseStop ==
    /\ ~stop
    /\ stop' = TRUE
    /\ UNCHANGED <<threads, sealPc, roundN, restart, abort, miner, result, sets>>

(* SetThreads(n): store n under the lock, then try to send on update.    *)
(* The send only succeeds while Seal waits in its select (case           *)
(* <-tilthash.update: close(abort)); otherwise it is dropped.            *)
SetThreads(n) ==
    /\ sets < MaxSets
    /\ sets' = sets + 1
    /\ threads' = n
    /\ IF sealPc = "select"
         THEN /\ sealPc' = "wait"
              /\ restart' = TRUE
              /\ abort' = TRUE
         ELSE UNCHANGED <<sealPc, restart, abort>>
    /\ UNCHANGED <<roundN, stop, miner, result>>

(* mine: an attempt meets the target; the miner tries to deliver. *)
Find(i) ==
    /\ miner[i] = "search"
    /\ ~abort
    /\ miner' = [miner EXCEPT ![i] = "deliver"]
    /\ UNCHANGED <<threads, sealPc, roundN, restart, abort, stop, result, sets>>

(* mine: case <-abort at the top of the loop; mark the hashrate, return. *)
Quit(i) ==
    /\ miner[i] = "search"
    /\ abort
    /\ miner' = [miner EXCEPT ![i] = "exit"]
    /\ UNCHANGED <<threads, sealPc, roundN, restart, abort, stop, result, sets>>

(* mine: case <-abort while offering the sealed block; it is discarded. *)
Discard(i) ==
    /\ miner[i] = "deliver"
    /\ abort
    /\ miner' = [miner EXCEPT ![i] = "exit"]
    /\ UNCHANGED <<threads, sealPc, roundN, restart, abort, stop, result, sets>>

Next ==
    \/ Prepare \/ Spawn \/ StopCase \/ Wait \/ CloseStop
    \/ \E i \in Workers : FoundCase(i) \/ Find(i) \/ Quit(i) \/ Discard(i)
    \/ \E n \in ThreadValues : SetThreads(n)

(* Goroutines that can run eventually do; the caller need not close stop *)
(* and no attempt is bound to meet the target, so CloseStop and Find are  *)
(* not fair.                                                              *)
Fairness ==
    /\ WF_vars(Prepare) /\ WF_vars(Spawn) /\ WF_vars(StopCase) /\ WF_vars(Wait)
    /\ \A i \in Workers :
          WF_vars(FoundCase(i)) /\ WF_vars(Quit(i)) /\ WF_vars(Discard(i))

Spec == Init /\ [][Next]_vars /\ Fairness

-----------------------------------------------------------------------------
(* Every variable ranges over the values the code can give it. *)
TypeOK ==
    /\ threads \in ThreadValues \cup {InitThreads}
    /\ sealPc \in SealPC
    /\ roundN \in 0..MaxWorkers
    /\ restart \in BOOLEAN
    /\ abort \in BOOLEAN
    /\ stop \in BOOLEAN
    /\ miner \in [Workers -> MinerPC]
    /\ result \in Workers \cup {NoWorker}
    /\ sets \in 0..MaxSets

(* What Seal returns: nil only when the caller closed stop, never       *)
(* because a thread-count update ended a round (the update case must    *)
(* call Seal again), and otherwise the block of a miner spawned in the  *)
(* final round, not of one from a round an update aborted.               *)
SealReturnsResult ==
    sealPc = "done" =>
        IF result = NoWorker THEN stop ELSE result \in 1..roundN

(* Spec section 5: a thread-count change during sealing restarts sealing *)
(* with the new count; so whenever Seal waits in its select, it runs as  *)
(* many miners as the current setting asks for.                          *)
ThreadsApplied ==
    sealPc = "select" => roundN = Effective(threads)

(* Once the caller closes stop, Seal returns: no miner or wait blocks it. *)
StopTerminatesSeal ==
    stop ~> sealPc = "done"

=============================================================================
