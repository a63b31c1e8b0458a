------------------------------- MODULE VMCalls -------------------------------
(***************************************************************************)
(* Nested message calls of the TiltVM (src/core/vm/tiltvm.go), the         *)
(* interpreter loop that runs each frame (interpreter.go Run), the call    *)
(* and create opcodes that enter them (instructions.go opCall, opCallCode, *)
(* opDelegateCall, opCreate) and the entry points of core/vm/runtime.      *)
(*                                                                         *)
(* One transaction runs at a time; the frames of the nested calls form a   *)
(* stack whose top is the frame the interpreter is executing, the others   *)
(* wait inside their call opcode.  Cancel() may set the abort flag at any  *)
(* moment from another thread.                                             *)
(*                                                                         *)
(* Data is abstracted: a program is a sequence of opcode names, and the    *)
(* operands an opcode pops (call target, value, gas, jump target, return   *)
(* size, storage value) are chosen from small sets.  The world state and  *)
(* its snapshots stand for the StateDB the VM calls (spec 4.8); the gas    *)
(* schedule and the protocol parameters are constants (spec 4.4).          *)
(***************************************************************************)
EXTENDS Integers, Sequences, FiniteSets

CONSTANTS
    Accounts,        \* externally created accounts
    Origin,          \* the transaction sender
    Target,          \* the address runtime.Execute installs its code at
    Programs,        \* code of each account: [Accounts -> Seq(opcode)]
    InitCode,        \* the init code a CREATE runs
    Deployed,        \* the code a successful init returns (when non-empty)
    Balance0,        \* initial balances: [Accounts -> Nat]
    Values,          \* call values an opcode may pop
    CallTargets,     \* addresses a call opcode may pop
    CallGas,         \* gas amounts a call opcode may pop
    RetSizes,        \* return sizes a RETURN may pop
    GasLimit,        \* gas of the transaction
    CallCreateDepth, \* params.CallCreateDepth (1024)
    MaxCodeSize,     \* params.MaxCodeSize
    CreateDataGas,   \* params.CreateDataGas, per byte of code
    CallStipend,     \* params.CallStipend
    GasStep,         \* cost of a plain opcode, JUMP, JUMPI and JUMPDEST
    GasSstore,       \* cost of SSTORE
    GasCall,         \* base cost of CALL / CALLCODE / DELEGATECALL
    GasCallValue,    \* extra cost of a call that transfers value
    GasCreate,       \* cost of CREATE
    NoRecursion,     \* Config.NoRecursion
    MaxNonce         \* bound: nonces of the accounts

Opcodes == {"ADD", "SSTORE", "JUMP", "JUMPI", "JUMPDEST", "RETURN", "STOP", "SUICIDE",
            "INVALID", "CALL", "CALLCODE", "DELEGATECALL", "CREATE"}

(* crypto.CreateAddress(caller, nonce): distinct for distinct pairs. *)
NewAddr(a, n) == <<a, n>>
Created == {NewAddr(a, n) : a \in Accounts, n \in 0..(MaxNonce - 1)}
Addr == Accounts \cup Created

ASSUME ConfigAssumption ==
    /\ Origin \in Accounts /\ Target \in Accounts
    /\ Programs \in [Accounts -> Seq(Opcodes)]
    /\ InitCode \in Seq(Opcodes) /\ Deployed \in Seq(Opcodes)
    /\ Balance0 \in [Accounts -> Nat]
    /\ Values \subseteq Nat /\ CallTargets \subseteq Addr
    /\ CallGas \subseteq Nat /\ RetSizes \subseteq Nat
    /\ NoRecursion \in BOOLEAN
ASSUME GasAssumption ==
    /\ {GasLimit, CallCreateDepth, MaxCodeSize, CreateDataGas, CallStipend,
        GasStep, GasSstore, GasCall, GasCallValue, GasCreate, MaxNonce} \subseteq Nat
    /\ GasStep > 0 /\ GasSstore > 0 /\ GasCall > 0 /\ GasCreate > 0
    \* a value transfer costs more than the stipend it grants (9000 > 2300)
    /\ CallStipend <= GasCallValue

NoCode == <<>>
Supply == LET s[S \in SUBSET Accounts] ==
                  IF S = {} THEN 0
                  ELSE LET a == CHOOSE x \in S : TRUE IN Balance0[a] + s[S \ {a}]
          IN  s[Accounts]

(* What the StateDB holds for the VM: accounts that exist, balances,     *)
(* nonces, one storage value per account, code, and suicided accounts.  *)
World == [exists: SUBSET Addr, balance: [Addr -> 0..Supply],
          nonce: [Addr -> 0..MaxNonce], storage: [Addr -> {0, 1}],
          code: [Addr -> Seq(Opcodes)], suicided: SUBSET Addr]

(* A frame: the Contract of one Run and where that Run is.  status is   *)
(* "run" while the loop runs, then "ok" or "err" for what Run returned; *)
(* pushed is what the frame's last call opcode pushed (0, 1, or 2 for   *)
(* the address of a created contract).  pre and gasIn record the world  *)
(* and the caller's gas when the opcode that made the frame began.      *)
Kinds == {"call", "callcode", "delegatecall", "create"}

VARIABLES
    world,    \* the StateDB
    snaps,    \* StateDB snapshots: snapshot id i is snaps[i]
    frames,   \* the running Contracts, outermost first
    abort,    \* TiltVM.abort
    phase,    \* "idle", "running", "done": the runtime entry point
    result    \* what the entry point returned: [err, gas]

vars == <<world, snaps, frames, abort, phase, result>>

-----------------------------------------------------------------------------
Init ==
    /\ world = [exists   |-> Accounts,
                balance  |-> [a \in Addr |-> IF a \in Accounts THEN Balance0[a] ELSE 0],
                nonce    |-> [a \in Addr |-> 0],
                storage  |-> [a \in Addr |-> 0],
                code     |-> [a \in Addr |-> IF a \in Accounts THEN Programs[a] ELSE NoCode],
                suicided |-> {}]
    /\ snaps = <<>>
    /\ frames = <<>>
    /\ abort = FALSE
    /\ phase = "idle"
    /\ result = [err |-> FALSE, gas |-> 0]


Depth == Len(frames)                       \* TiltVM.depth: one per running Run
Top == frames[Len(frames)]

(* contract.GetOp(pc): past the end of the code reads as STOP. *)
Op(f) == IF f.pc < Len(f.code) THEN f.code[f.pc + 1] ELSE "STOP"

(* Context.CanTransfer and Context.Transfer (core/evm.go). *)
CanTransfer(w, from, v) == w.balance[from] >= v
Transfer(w, from, to, v) ==
    [w EXCEPT !.balance = [@ EXCEPT ![from] = @ - v, ![to] = @ + v]]

(* StateDB.CreateAccount: a fresh account; a balance it had is kept. *)
CreateAccount(w, a) ==
    [w EXCEPT !.exists = @ \cup {a}, !.nonce[a] = 0, !.storage[a] = 0,
              !.code[a] = NoCode, !.suicided = @ \ {a}]

(* StateDB.Snapshot: the id of the new snapshot is Len(Snapshot(w, s)). *)
Snapshot(w, s) == Append(s, w)

(* Variant: the revert goes to the most recent snapshot. *)
RevertLatest(id) == snaps[Len(snaps)]

(* StateDB.RevertToSnapshot(id): the world of snapshot id; the snapshot *)
(* and every later one are discarded (Discard).                          *)
RevertTo(id) == snaps[id]
Discard(id) == SubSeq(snaps, 1, id - 1)

(* NewContract(caller, self, value, gas) with SetCallCode; `pre` and     *)
(* `gin` are the world and the caller's gas when the opcode began.       *)
NewFrame(kind, self, caller, value, code, gas, snap, pre, gin) ==
    [kind |-> kind, self |-> self, caller |-> caller, value |-> value,
     code |-> code, gas |-> gas, pc |-> 0, snap |-> snap, status |-> "run",
     ret |-> 0, pushed |-> 0, pre |-> pre, gasIn |-> gin]

(* The depth check of Call, CallCode, DelegateCall and Create. *)
TooDeep(d) == d > CallCreateDepth

(* Variant: the balance check left out. *)
PrecheckNoBalance(w, from, v, transfers) ==
    IF NoRecursion /\ Depth > 0 THEN "norecursion"
    ELSE IF TooDeep(Depth) THEN "depth"
    ELSE "go"

(* The checks every entry makes before touching the state, in order:   *)
(* NoRecursion (returns without error), depth, and the balance.         *)
Precheck(w, from, v, transfers) ==
    IF NoRecursion /\ Depth > 0 THEN "norecursion"
    ELSE IF TooDeep(Depth) THEN "depth"
    ELSE IF transfers /\ ~CanTransfer(w, from, v) THEN "balance"
    ELSE "go"

-----------------------------------------------------------------------------
(* The entries.  `c` is the calling contract ([self, caller, value]).    *)
(* Each either returns at once, Back(gas, error?), or snapshots, changes *)
(* the state and starts the callee's frame, Enter(world, snaps, frame).  *)
Back(g, e) == [enter |-> FALSE, gas |-> g, err |-> e]

Enter(w, s, f) == [enter |-> TRUE, world |-> w, snaps |-> s, callee |-> f]

(* TiltVM.Call: a missing callee is created, unless no value moves, in  *)
(* which case the call returns at once (after the snapshot is taken).   *)
CallStart(w, s, c, to, v, gas, pre, gin) ==
    LET p == Precheck(w, c.self, v, TRUE)
        w1 == IF to \in w.exists THEN w ELSE CreateAccount(w, to)
    IN  IF p # "go" THEN Back(gas, p # "norecursion")
        ELSE IF to \notin w.exists /\ v = 0 THEN Back(gas, FALSE)
        ELSE Enter(Transfer(w1, c.self, to, v), Snapshot(w, s),
                   NewFrame("call", to, c.self, v, w.code[to], gas,
                            Len(s) + 1, pre, gin))

(* TiltVM.CallCode: the callee's code runs as the caller; the value is  *)
(* checked against the caller's balance but not moved.                  *)
CallCodeStart(w, s, c, to, v, gas, pre, gin) ==
    LET p == Precheck(w, c.self, v, TRUE)
    IN  IF p # "go" THEN Back(gas, p # "norecursion")
        ELSE Enter(w, Snapshot(w, s),
                   NewFrame("callcode", c.self, c.self, v, w.code[to], gas,
                            Len(s) + 1, pre, gin))

(* TiltVM.DelegateCall: no value and no balance check; AsDelegate keeps *)
(* the caller's caller and value.                                        *)
DelegateCallStart(w, s, c, to, gas, pre, gin) ==
    LET p == Precheck(w, c.self, 0, FALSE)
    IN  IF p # "go" THEN Back(gas, p # "norecursion")
        ELSE Enter(w, Snapshot(w, s),
                   NewFrame("delegatecall", c.self, c.caller, c.value, w.code[to],
                            gas, Len(s) + 1, pre, gin))

(* TiltVM.Create: the caller's nonce is raised BEFORE the snapshot, then *)
(* the new account gets nonce 1 and the value, and the init code runs.   *)
CreateStart(w, s, c, v, gas, pre, gin) ==
    LET p    == Precheck(w, c.self, v, TRUE)
        n    == w.nonce[c.self]
        addr == NewAddr(c.self, n)
        w1   == [w EXCEPT !.nonce[c.self] = n + 1]
        w2   == [CreateAccount(w1, addr) EXCEPT !.nonce[addr] = 1]
    IN  IF p # "go" THEN Back(gas, p # "norecursion")
        ELSE Enter(Transfer(w2, c.self, addr, v), Snapshot(w1, s),
                   NewFrame("create", addr, c.self, v, InitCode, gas,
                            Len(s) + 1, pre, gin))

-----------------------------------------------------------------------------
(* Variant: JUMP and JUMPDEST priced at zero. *)
CostFreeJumps(op, v, cg) ==
    CASE op \in {"JUMP", "JUMPDEST"}         -> 0
      [] op \in {"ADD", "JUMPI"}              -> GasStep
      [] op = "SSTORE"                      -> GasSstore
      [] op \in {"CALL", "CALLCODE"}        -> GasCall + cg + (IF v # 0 THEN GasCallValue ELSE 0)
      [] op = "DELEGATECALL"                -> GasCall + cg
      [] op = "CREATE"                      -> GasCreate
      [] OTHER                              -> 0

(* The gas schedule (jump table, spec 4.4) for the opcodes modelled:     *)
(* a CALL pays its base cost, the value-transfer cost and the gas it     *)
(* forwards; halting opcodes are free.                                    *)
Cost(op, v, cg) ==
    CASE op \in {"ADD", "JUMP", "JUMPI", "JUMPDEST"} -> GasStep
      [] op = "SSTORE"                      -> GasSstore
      [] op \in {"CALL", "CALLCODE"}        -> GasCall + cg + (IF v # 0 THEN GasCallValue ELSE 0)
      [] op = "DELEGATECALL"                -> GasCall + cg
      [] op = "CREATE"                      -> GasCreate
      [] OTHER                              -> 0

(* Variant: gas metering that deducts nothing. *)
ChargeNothing(f, c) == f

(* contract.UseGas(c) once the guard f.gas >= c held. *)
Charge(f, c) == [f EXCEPT !.gas = @ - c]

(* jumpdest analysis: the target is in the code and is a JUMPDEST. *)
ValidJumpdest(code, d) == d < Len(code) /\ code[d + 1] = "JUMPDEST"

SetTop(f) == frames' = [frames EXCEPT ![Len(frames)] = f]
Finish(f, st, r) == [f EXCEPT !.status = st, !.ret = r]

(* The caller after a call opcode: returnGas added, result pushed, pc++. *)
Resume(f, g, pushed) == [f EXCEPT !.gas = @ + g, !.pc = @ + 1, !.pushed = pushed]

-----------------------------------------------------------------------------
(* Interpreter.Run on the top frame.  Run returns nil, nil for empty     *)
(* code before it looks at the abort flag.                                *)
Running == phase = "running" /\ frames # <<>> /\ Top.status = "run"

EmptyCode ==
    /\ Running /\ Top.code = <<>>
    /\ SetTop(Finish(Top, "ok", 0))
    /\ UNCHANGED <<world, snaps, abort, phase, result>>

Loop == Running /\ Top.code # <<>>

(* The loop condition: once abort is set the frame returns nil, nil. *)
Aborted ==
    /\ Loop /\ abort
    /\ SetTop(Finish(Top, "ok", 0))
    /\ UNCHANGED <<world, snaps, abort, phase, result>>

Fetch == Loop /\ ~abort

InvalidOp ==
    /\ Fetch /\ Op(Top) = "INVALID"
    /\ SetTop(Finish(Top, "err", 0))
    /\ UNCHANGED <<world, snaps, abort, phase, result>>

(* UseGas(cost) fails: ErrOutOfGas, gas left as it was. *)
OutOfGas ==
    /\ Fetch /\ Op(Top) # "INVALID"
    /\ \E v \in Values, cg \in CallGas : Top.gas < Cost(Op(Top), v, cg)
    /\ SetTop(Finish(Top, "err", 0))
    /\ UNCHANGED <<world, snaps, abort, phase, result>>

(* ADD stands for every opcode that only touches the frame's stack and   *)
(* memory; it and JUMPDEST are charged and advance pc.                    *)
Plain ==
    /\ Fetch /\ Op(Top) \in {"ADD", "JUMPDEST"}
    /\ Top.gas >= Cost(Op(Top), 0, 0)
    /\ SetTop([Charge(Top, Cost(Op(Top), 0, 0)) EXCEPT !.pc = @ + 1])
    /\ UNCHANGED <<world, snaps, abort, phase, result>>

Sstore ==
    /\ Fetch /\ Op(Top) = "SSTORE"
    /\ Top.gas >= Cost("SSTORE", 0, 0)
    /\ \E val \in {0, 1} : world' = [world EXCEPT !.storage[Top.self] = val]
    /\ SetTop([Charge(Top, Cost("SSTORE", 0, 0)) EXCEPT !.pc = @ + 1])
    /\ UNCHANGED <<snaps, abort, phase, result>>

(* JUMP pops its target, JUMPI a target and a condition: a jump must  *)
(* land on a JUMPDEST or the frame fails; JUMPI on 0 moves to pc + 1.    *)
Jump ==
    /\ Fetch /\ Op(Top) \in {"JUMP", "JUMPI"}
    /\ Top.gas >= Cost(Op(Top), 0, 0)
    /\ \E d \in 0..Len(Top.code), cond \in {0, 1} :
          LET f == Charge(Top, Cost(Op(Top), 0, 0))
          IN  /\ Op(Top) = "JUMP" => cond = 1
              /\ SetTop(IF cond = 0 THEN [f EXCEPT !.pc = @ + 1]
                         ELSE IF ValidJumpdest(Top.code, d) THEN [f EXCEPT !.pc = d]
                         ELSE Finish(f, "err", 0))
    /\ UNCHANGED <<world, snaps, abort, phase, result>>

(* STOP, and RETURN with the size it pops: Run returns res, nil. *)
Halt ==
    /\ Fetch /\ Op(Top) \in {"STOP", "RETURN"}
    /\ \E r \in (IF Op(Top) = "RETURN" THEN RetSizes ELSE {0}) :
          SetTop(Finish(Top, "ok", r))
    /\ UNCHANGED <<world, snaps, abort, phase, result>>

(* SUICIDE: the balance goes to the popped beneficiary (created if      *)
(* missing), then the account is marked and its balance zeroed.          *)
Suicide ==
    /\ Fetch /\ Op(Top) = "SUICIDE"
    /\ \E b \in CallTargets :
          LET bal == world.balance[Top.self]
              w1  == IF b \in world.exists THEN world ELSE CreateAccount(world, b)
              w2  == [w1 EXCEPT !.balance[b] = @ + bal]
          IN  world' = [w2 EXCEPT !.suicided = @ \cup {Top.self},
                                  !.balance[Top.self] = 0]
    /\ SetTop(Finish(Top, "ok", 0))
    /\ UNCHANGED <<snaps, abort, phase, result>>

-----------------------------------------------------------------------------
(* What the calling opcode does with each outcome of an entry: Back     *)
(* resumes the caller at once, Enter pushes the callee's frame above it. *)
BackTo(f, g, pushed) ==
    /\ SetTop(Resume(f, g, pushed))
    /\ UNCHANGED <<world, snaps>>
EnterFrom(f, w, s, callee) ==
    /\ world' = w /\ snaps' = s
    /\ frames' = Append([frames EXCEPT ![Len(frames)] = f], callee)

(* opCall, opCallCode, opDelegateCall: charge the cost (which includes  *)
(* the forwarded gas), add the stipend to a value call, and enter.       *)
CallOp ==
    /\ Fetch /\ Op(Top) \in {"CALL", "CALLCODE", "DELEGATECALL"}
    /\ \E to \in CallTargets, v \in Values, cg \in CallGas :
          LET op   == Op(Top)
              cost == Cost(op, v, cg)
              f    == Charge(Top, cost)
              fwd  == IF op # "DELEGATECALL" /\ v # 0 THEN cg + CallStipend ELSE cg
              r    == CASE op = "CALL" ->
                              CallStart(world, snaps, f, to, v, fwd, world, Top.gas)
                         [] op = "CALLCODE" ->
                              CallCodeStart(world, snaps, f, to, v, fwd, world, Top.gas)
                         [] op = "DELEGATECALL" ->
                              DelegateCallStart(world, snaps, f, to, fwd, world, Top.gas)
          IN  /\ op = "DELEGATECALL" => v = 0
              /\ Top.gas >= cost
              /\ IF r.enter THEN EnterFrom(f, r.world, r.snaps, r.callee)
                 ELSE BackTo(f, r.gas, IF r.err THEN 0 ELSE 1)
    /\ UNCHANGED <<abort, phase, result>>

(* Variant: opCreate without contract.UseGas(gas). *)
CreateChargeDropped(f, g) == f

(* opCreate hands all but 1/64 of the remaining gas to Create and       *)
(* takes it from the caller.                                              *)
CreateCharge(f, g) == Charge(f, g)

(* opCreate: every early return of Create yields the zero address.       *)
CreateOp ==
    /\ Fetch /\ Op(Top) = "CREATE"
    /\ Top.gas >= Cost("CREATE", 0, 0)
    /\ world.nonce[Top.self] < MaxNonce
    /\ \E v \in Values :
          LET f1  == Charge(Top, Cost("CREATE", 0, 0))
              gas == f1.gas - f1.gas \div 64
              f   == CreateCharge(f1, gas)
              r   == CreateStart(world, snaps, f, v, gas, world, Top.gas)
          IN  IF r.enter THEN EnterFrom(f, r.world, r.snaps, r.callee)
              ELSE BackTo(f, r.gas, 0)
    /\ UNCHANGED <<abort, phase, result>>

-----------------------------------------------------------------------------
(* The end of an entry, once the callee's Run has returned.  The frame   *)
(* is popped and the caller resumes (its opcode's tail), or the runtime  *)
(* entry point returns.                                                  *)
Pop(g, pushed, err) ==
    IF Len(frames) = 1
    THEN /\ frames' = <<>> /\ phase' = "done"
         /\ result' = [err |-> err, gas |-> g]
    ELSE /\ frames' = LET rest == SubSeq(frames, 1, Len(frames) - 1)
                      IN  [rest EXCEPT ![Len(rest)] = Resume(@, g, pushed)]
         /\ UNCHANGED <<phase, result>>

Returned == phase = "running" /\ frames # <<>> /\ Top.status \in {"ok", "err"}

(* Call / CallCode / DelegateCall: on error all gas is consumed and the  *)
(* state reverts to the entry's snapshot.                                 *)
CallEnd ==
    /\ Returned /\ Top.kind # "create"
    /\ LET failed == Top.status = "err"
       IN  /\ world' = IF failed THEN RevertTo(Top.snap) ELSE world
           /\ snaps' = IF failed THEN Discard(Top.snap) ELSE snaps
           /\ Pop(IF failed THEN 0 ELSE Top.gas, IF failed THEN 0 ELSE 1, failed)
    /\ UNCHANGED abort

(* Create: code too large, or an error other than ErrCodeStoreOutOfGas, *)
(* reverts and returns no gas with the error as it is (nil when the code *)
(* was only too large); ErrCodeStoreOutOfGas keeps the state and the gas.*)
CreateOutcome(f) ==
    LET exceeded == f.ret > MaxCodeSize
        dataGas  == f.ret * CreateDataGas
    IN  IF exceeded \/ f.status = "err" THEN "reverted"
        ELSE IF f.gas >= dataGas THEN "stored"
        ELSE "codeStoreOOG"

CreateEnd ==
    /\ Returned /\ Top.kind = "create"
    /\ LET f   == Top
           o   == CreateOutcome(f)
           err == f.status = "err" \/ o = "codeStoreOOG"
       IN  /\ world' = CASE o = "reverted" -> RevertTo(f.snap)
                         [] o = "stored"   ->
                              [world EXCEPT !.code[f.self] =
                                   IF f.ret = 0 THEN NoCode ELSE Deployed]
                         [] OTHER          -> world
           /\ snaps' = IF o = "reverted" THEN Discard(f.snap) ELSE snaps
           /\ Pop(CASE o = "reverted" -> 0
                    [] o = "stored"   -> f.gas - f.ret * CreateDataGas
                    [] OTHER          -> f.gas,
                  IF err THEN 0 ELSE 2, err)
    /\ UNCHANGED abort

-----------------------------------------------------------------------------
(* runtime.Execute (install the code at Target, then Call Target),     *)
(* runtime.Call of any address, and runtime.Create, with the sender      *)
(* Origin and the whole GasLimit.                                         *)
Begin ==
    /\ phase = "idle"
    /\ \E mode \in {"execute", "call", "create"}, to \in CallTargets, v \in Values :
          LET w0 == IF mode = "execute"
                    THEN [CreateAccount(world, Target) EXCEPT !.code[Target] = Programs[Target]]
                    ELSE world
              sender == [self |-> Origin, caller |-> Origin, value |-> 0]
              r == CASE mode = "execute" ->
                          CallStart(w0, snaps, sender, Target, v, GasLimit, w0, GasLimit)
                     [] mode = "call" ->
                          CallStart(w0, snaps, sender, to, v, GasLimit, w0, GasLimit)
                     [] mode = "create" ->
                          CreateStart(w0, snaps, sender, v, GasLimit, w0, GasLimit)
          IN  /\ mode \in {"execute", "create"} => to = Target
              /\ IF r.enter
                 THEN /\ world' = r.world /\ snaps' = r.snaps /\ frames' = <<r.callee>>
                      /\ phase' = "running" /\ UNCHANGED result
                 ELSE /\ world' = w0 /\ phase' = "done"
                      /\ result' = [err |-> r.err, gas |-> r.gas]
                      /\ UNCHANGED <<snaps, frames>>
    /\ UNCHANGED abort

(* TiltVM.Cancel, from another goroutine at any time. *)
Cancel ==
    /\ ~abort
    /\ abort' = TRUE
    /\ UNCHANGED <<world, snaps, frames, phase, result>>

(* The entry point has returned; the TiltVM is not reused. *)
Finished == phase = "done" /\ UNCHANGED vars

Step == \/ EmptyCode \/ Aborted \/ InvalidOp \/ OutOfGas \/ Plain \/ Sstore
        \/ Jump \/ Halt \/ Suicide \/ CallOp \/ CreateOp \/ CallEnd \/ CreateEnd

Next == Begin \/ Step \/ Cancel \/ Finished

Spec == Init /\ [][Next]_vars

(* The interpreter runs without pause once a transaction has begun. *)
FairSpec == Spec /\ WF_vars(Step)

-----------------------------------------------------------------------------
FrameType ==
    [kind: Kinds, self: Addr, caller: Addr, value: Values \cup {0},
     code: Seq(Opcodes), gas: 0..GasLimit, pc: Nat, snap: Nat,
     status: {"run", "ok", "err"}, ret: RetSizes \cup {0}, pushed: 0..2,
     pre: World, gasIn: 0..GasLimit]

TypeOK ==
    /\ world \in World
    /\ snaps \in Seq(World)
    /\ frames \in Seq(FrameType)
    /\ abort \in BOOLEAN
    /\ phase \in {"idle", "running", "done"}
    /\ result \in [err: BOOLEAN, gas: 0..GasLimit]

GasSum(fs) == LET s[i \in 0..Len(fs)] == IF i = 0 THEN 0 ELSE s[i - 1] + fs[i].gas
              IN  s[Len(fs)]

(* Gas is never created: whatever nesting of calls, stipends, creates,  *)
(* refunds of unused gas and reverts, the gas held by all open frames,   *)
(* or returned by the entry point, never exceeds the transaction's gas.  *)
GasNeverCreated ==
    GasSum(frames) + (IF phase = "done" THEN result.gas ELSE 0) <= GasLimit

(* A step that ends an entry (pops its frame). *)
Popping == Len(frames') < Len(frames)

(* The entry reverts: its Run failed, or (Create) the code is too large. *)
Reverts(f) == f.status = "err" \/ (f.kind = "create" /\ f.ret > MaxCodeSize)

(* The world the entry's opcode began with, as the snapshot keeps it:   *)
(* Create takes its snapshot after raising the caller's nonce.          *)
Undone(f) == IF f.kind = "create" THEN [f.pre EXCEPT !.nonce[f.caller] = @ + 1]
             ELSE f.pre

(* A Call, CallCode, DelegateCall or Create that fails leaves no trace:  *)
(* the world after it is the world before its opcode (but for Create's   *)
(* nonce), whatever nested entries below it committed in the meantime.   *)
FailedEntryLeavesNoTrace ==
    [][Popping /\ Reverts(Top) => world' = Undone(Top)]_vars

CodeStoreOOG(f) == f.kind = "create" /\ CreateOutcome(f) = "codeStoreOOG"

(* Spec 4.7 and 6: Create that cannot pay for its code rolls back.      *)
CodeStoreOOGRollsBack ==
    [][Popping /\ CodeStoreOOG(Top) => world' = Undone(Top)]_vars

(* Spec 6 and 9: on code-store-out-of-gas CREATE leaves the address of  *)
(* the contract on the caller's stack.                                   *)
CodeStoreOOGPushesAddress ==
    [][Popping /\ CodeStoreOOG(Top) /\ Len(frames) > 1
         => frames'[Len(frames')].pushed = 2]_vars

(* Spec 4.7: code larger than MaxCodeSize is an error, so a CREATE that *)
(* pushes the new address has stored the contract's code.               *)
CreateSuccessMeansStored ==
    [][Popping /\ Top.kind = "create" /\ Len(frames) > 1
         /\ frames'[Len(frames')].pushed = 2
         => /\ Top.self \in world'.exists
            /\ world'.code[Top.self] = IF Top.ret = 0 THEN NoCode ELSE Deployed]_vars

(* Every transaction that begins returns to the runtime entry point,    *)
(* cancelled or not: gas bounds every loop and every nesting.            *)
TxCompletes == phase = "running" ~> phase = "done"
====
