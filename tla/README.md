# Formal models of go-tilt

This directory holds TLA+ models of the concurrent and state-machine parts of
go-tilt (`src/`). It also holds TLC configurations that model-check them on
small instances, and TLAPS proofs of their central invariants. `PROJECT.json`
lists, in machine-readable form:

- the components and their status;
- every run, with its properties;
- the mutants that show each property can fail;
- the line map from every definition to the Go code it translates;
- the findings, the hazards and the theorems.

## The system and its parts

| Part | Source | What it does | Modelled by |
|---|---|---|---|
| PoW cache/dataset store | `consensus/tilthash/tilthash.go` | Epoch-indexed LRU maps of verification caches and mining datasets, plus a "future" slot pre-generated in the background; each entry is generated once (`sync.Once`) outside the engine lock and unmapped by `release()` | `TilthashStore`, `TilthashStoreProofs` |
| PoW dump files | `consensus/tilthash/tilthash.go` (`memoryMap`, `memoryMapFile`, `memoryMapAndGenerate`, the disk branch of `generate`, `release`) | Load a dump from the directory, or write it to a temp file and rename it into place, then delete the dumps of old epochs; several generators and several processes share the directory | `DumpStore` (abstract), `DumpFiles`, `DumpFilesProofs` |
| PoW sealer | `consensus/tilthash/sealer.go`, `SetThreads` in `tilthash.go` | `Seal` spawns miner goroutines and waits on stop / found / update; `SetThreads` pings a running seal to restart | `Sealer` |
| Word arithmetic, code/input reads, memory sizing | `core/vm/instructions.go`, `common.go`, `interpreter.go` | 256-bit opcode semantics, `getData`, `calcMemSize`/`toWordSize` and the overflow checks of the loop | `VMWordArith`, `VMWords`, `VMWordArithProofs` |
| VM environment and interpreter | `core/vm/tiltvm.go`, `interpreter.go`, `instructions.go`, `runtime/runtime.go` | Call / CallCode / DelegateCall / Create with snapshots, gas, depth and abort; the interpreter loop; the runtime entry points | `VMCalls`, `VMCallsProofs`, `VMSnapshotProofs` |
| Node wiring, RPC backends, config, metrics, CLI | `tilt/`, `internal/`, `cmd/`, `params/` | Construction and plumbing | not modelled |

How they interact:

- `Seal` runs one `mine` goroutine per thread.
- Each miner first calls `dataset()` on the store, so miners and verifiers are
  the concurrent callers of the store.
- A store entry's `generate` is one generator of the dump-file model: the
  store model abstracts its outcome to mapped / heap, and `DumpFiles` models
  the file steps behind that outcome.
- The VM is single-threaded, apart from `Cancel`, which sets an atomic flag
  from another thread.

## TilthashStore: the cache/dataset store

The component has one module for both kinds, selected by the constant
`Kind = "cache" | "dataset"`. The two lookups differ in one line: the dataset
lookup adopts the pre-generated entry by building a new struct.

State:

- `store`: the `caches`/`datasets` map from epoch to entry id.
- `future`: `fcache`/`fdataset`.
- `obj`: the heap of entry structs, holding the epoch, the `once` state, where
  the words live, whether the mmap is live, whether `release()` ran, `used`,
  and whether the size is right.
- Per goroutine: a program counter, the requested epoch, and the locals
  `current` and `future`.
- `bg` / `bgRun`: the background `go future.generate` goroutines.

Entries are ids, not values. An entry that was evicted but is still held by a
goroutine therefore stays visible.

Actions and the code they correspond to:

| Action | Code | Notes |
|---|---|---|
| `Lookup` | lines 434-473 | Everything under `tilthash.lock` is one atomic step: the hit; or the eviction loop (`Victims`: any LRU-consistent set of the size the loop condition `len>0 && len>=inmem` removes), adoption of the future entry, the new entry, the future refresh with `release()` of the old future, and the `used` stamp. |
| `GenStart`, `GenFinish`, `GenWait` | `current.generate` | `sync.Once` as idle/running/done. The body's outcome is a choice: a mapped file, the heap fall-back, or an in-memory buffer when there is no directory. |
| `Bump` | lines 478-486 | Re-stamps `used` and spawns the background generation. |
| `Done` | — | The caller is done with the words. |
| `BgStart`, `BgSkip`, `BgFinish` | `go future.generate` | The background generation. |

The file format, the seed and the size arithmetic are abstracted to the flags
`words`, `mmap` and `sizeOk`.

## Sealer

`sealPc` follows one `Seal` call through:

- `Prepare`: lock and read the thread count; 0 means NumCPU, a negative count means 0.
- `Spawn`.
- The select: `StopCase`, `FoundCase`, or the update case inside `SetThreads`.
- `Wait`: `pend.Wait`, then either return or recurse (`start`).

Each miner runs search → deliver → exit. `Find`, `Quit` and `Discard` are the
three ways out of the loop at sealer.go 114-144. `SetThreads` stores the count.
Its send on the unbuffered `update` channel succeeds only while `Seal` is in
its select; otherwise the `default` case drops it.

## VMWords: the word semantics of the opcodes

The model has two modules. `VMWordArith` holds the widths and the
operators that use no bitwise operation: `U256`, `S256`, `opSdiv`,
`opSmod`, `opSlt`, `opSgt` and the memory-size step, with their references
`Signed`, `TruncQuot` and `MemRef`. `VMWords` extends it with `Bitwise`,
the other opcodes and the state machine. The split lets
`VMWordArithProofs` prove facts about the first module: the provers cannot
read `Bitwise`.

Widths are constants. A word is `WordBytes` bytes of `ByteBits` bits, and a
Go `uint64` has `UintBits` bits. The code's 32, 31, 8 and 7 are
`WordBytes`, `WordBytes-1`, `ByteBits` and `ByteBits-1`. The run uses 2-bit
bytes, 2-byte words and a 3-bit `uint64`, so every operand value (0..15)
and every overflow boundary can be enumerated.

- Each opcode function `opAdd` .. `opMulmod`, `opSignExtend` and `opByte` is
  an operator translated line by line from `instructions.go`. `math.U256`
  and `math.S256` (in `common/math`, outside `src/`) are modelled from the
  spec.
- `GetData`, `calcMemSize` and `toWordSize` translate `common.go`.
  `MemorySize` is the memory-size step of `Run` (interpreter.go 149-162):
  `bigUint64`, `toWordSize`, and `SafeMul` by 32.
- The state is the operand stack (top first), the last instruction `last`,
  and the last memory size computed, `msize`. `Next` executes any opcode
  on any stack of up to `StackCap` words. It also executes `makePush(n)` at
  any pc of a fixed code and `CALLDATALOAD` of a fixed input.

Each step is compared with a reference written from the definitions, not
from the code:

- truncating division as a characterisation (`TruncQuot`);
- AND/OR/XOR bit by bit;
- EXP by repeated multiplication;
- SIGNEXTEND and BYTE by shifting.

## VMCalls: nested calls, the interpreter loop and Cancel

State:

- `world`: the StateDB, with accounts that exist, balances, nonces, one
  storage slot per account, code, and suicided accounts.
- `snaps`: the snapshot list. `Snapshot` appends; `RevertToSnapshot(id)`
  restores `snaps[id]` and drops it and every later snapshot.
- `frames`: one `Contract` per running `Run`, outermost first. Its length is
  `TiltVM.depth`. A frame holds the kind of entry, self, caller, value,
  code, gas, pc, its snapshot id, and the status of `Run`. It also holds two
  ghosts for the properties: `pre`, the world, and `gasIn`, the caller's
  gas, both taken when the opcode that opened the frame began.
- `abort`: `TiltVM.abort`.
- `phase` and `result`: the runtime entry point.

A program is a sequence of opcode names. An opcode's operands are chosen
from small sets: target, value, gas, jump target, return size and stored
value. `ADD` stands for every opcode that only touches the frame's stack and
memory. The gas schedule and the protocol parameters are constants:
`params/protocol_params.go` and the jump table are not under `src/`.

| Action | Code |
|---|---|
| `Begin` | `runtime.Execute` (install the code, then `Call`), `runtime.Call` of any address, `runtime.Create` |
| `EmptyCode`, `Aborted`, `InvalidOp`, `OutOfGas` | the exits of `Run`: empty code before the abort check, the loop condition, an invalid opcode, and `UseGas` failing with gas left unchanged |
| `Plain`, `Sstore`, `Jump`, `Halt`, `Suicide` | one loop iteration: charge, execute, then pc++ or halt. `Jump` covers `opJump` and `opJumpi`, each failing on a target that is not a JUMPDEST |
| `CallOp`, `CreateOp` | `opCall`/`opCallCode`/`opDelegateCall` (cost includes the forwarded gas; the stipend is added to a value call) and `opCreate` (forwards all but 1/64), each followed by the prologue of `TiltVM.Call`/`CallCode`/`DelegateCall`/`Create`: `CallStart` etc. with `Precheck` (NoRecursion, depth, balance), the snapshot, the transfer (Call and Create only: CallCode checks the value against the caller's balance but moves nothing) and the new frame, or an early return to the opcode |
| `CallEnd`, `CreateEnd` | the epilogue once `Run` returns: revert and consume all gas on error; for `Create`, `CreateOutcome` (too large, code-store-out-of-gas, or stored), then the opcode's tail (push, `contract.Gas += returnGas`, pc++) or the entry point's return |
| `Cancel` | `TiltVM.Cancel` from another goroutine, at any moment |

Each entry's prologue returns an outcome record, `Back(gas, err)` for an
early return or `Enter(world, snaps, callee)` for a new frame, so that one
prologue serves both callers: an opcode resumes or pushes a frame, and the
entry point returns or starts the first frame.

## DumpStore and DumpFiles: the dump directory

`DumpStore` is what the directory promises a reader of the canonical names:
each epoch's name holds no dump or a complete one (`disk[e] \in {"none",
"full"}`); `Publish(e)` makes a complete dump appear in one step, and
`Remove(S)` deletes the dumps of a set of epochs. Nothing else changes it.

`DumpFiles` is the code. Files are inodes `1..MaxStarts`; `content[i]` is
the stage of what has been written: `"zero"` after `os.Create`, `"sized"`
after `Truncate`, `"magic"` after `copy(buffer, dumpMagic)`, `"full"` after
the generator. `canon[e]` is the inode under epoch `e`'s canonical name,
`temps` the inodes under a temporary name. Each generator in `Gens` (the
`once.Do` of one entry, in this process or another) has a record `gen[g]`:
its step `pc`, its epoch, its temp inode and the words it mapped (an inode,
`Heap` for the in-memory fall-back, or none).

| Action | Code (`tilthash.go`) |
|---|---|
| `Start` | the `once.Do` of `cache.generate` for some epoch (158-169) |
| `Load` | `memoryMap(path)`: accepted when the file exists and starts with the magic (`Accepts`, 64-83); on success `generate` returns at once (184-191) |
| `Create` | `MkdirAll`, then `os.Create` of `path + "." + rand` (107-118) |
| `Truncate` | `dump.Truncate(magic + size)` (119-121) |
| `Advance` | the steps that leave the file alone: `memoryMapFile(dump, true)` (123), `mem.Unmap()` (133) and `dump.Close()` (136) |
| `Write` | `copy(buffer, dumpMagic)` and `generator(data)` (128-131) |
| `Rename` | `os.Rename(temp, path)` (139) |
| `Reopen` | `return memoryMap(path)` (142): whatever the name holds now; an absent or rejected file sends `generate` to the heap |
| `Fail` | any of the calls above returning an error (110, 117, 120, 126, 134, 137, 140, and the reopen): the error is returned as it is, and `generate` builds the words in memory (194-200) |
| `Delete` | the loop `for ep := epoch - limit; ep >= 0; ep--` removing canonical names (201-206) |
| `Release` | `release()`: unmap and close (211-220) |
| `Crash` | the process dies: every generator is gone, the files stay |

The refinement mapping is `Disk`, the content of the inode under each
canonical name (`"none"` for no name). `DS == INSTANCE DumpStore WITH disk <-
Disk`, and `ImplementsDumpStore == DS!Spec`: `Rename` is `Publish`,
`Delete` is `Remove({e : e <= epoch - limit})`, and every other step
(including every write and every crash) leaves `Disk` unchanged.
`dataset.generate` (265-293) runs the same calls on its own directory, so
the same model stands for it.

## Runs

The PoW runs use two callers, model values `c1` and `c2`, and at most 5 or 6 entry
structs (see the bounds below). `CHECK_DEADLOCK FALSE` appears in every cfg because the runs bound the
number of lookups (`MaxLookups`) and `SetThreads` calls. Once the callers stop
calling, the system rests, which is legal.

| Run | Expect | Shows |
|---|---|---|
| TilthashCache | pass | Checks 3 epochs, `cachesinmem = 2` (the default), 3 lookups, and the cache adoption path. Shown: the map never exceeds its bound; the future slot is always ahead of every live epoch; neither the map nor the slot holds a released entry; every caller gets a generated cache of its own epoch; and (liveness) every caller that entered generation gets its words. |
| TilthashDataset | pass | The same for `dataset()` with `dagsinmem = 1` (the default). `StoreHoldsLiveEntries` holds by construction there, because the adopted future is never reused, so it is not checked. |
| Sealer | pass | Seal returns nil only when its caller closed `stop` (a thread update restarts it instead), and otherwise the block of a miner of its final round (`SealReturnsResult`); and closing `stop` always ends Seal, even with a miner blocked on `found` (`StopTerminatesSeal`), with any interleaving of SetThreads calls. |
| CacheUseAfterRelease | violation | Eviction unmaps a cache another goroutine is still using. |
| CacheMappingLeak | violation | c1's lookup of epoch 0 creates a cache; c2's lookup of epoch 1 evicts it (`cachesinmem = 1`) while c1 has not generated it yet; c1 then maps the released cache, and nothing ever unmaps it (eviction at `tilthash.go:447`). Replacing a future whose background generation still runs (line 464) would leak the same way, but with `MaxEpoch = 1` the future is always adopted, so this run does not reach that path. |
| DatasetDuplicateGeneration | violation | Dataset adoption creates a second struct, and a second generation, of the same epoch. |
| DumpFiles | pass | Two generators over three epochs with `limit = 1`, four generate calls, one failing I/O call and one process crash: the canonical names implement `DumpStore`. A reader only ever finds no dump or a complete one, whatever the interleaving of the two writers, their renames over each other, the deletion loop of a later epoch, a failure or a crash. |
| NoStrayTempFiles | violation | `Start`, `Load` (no file), `Create`, then `Truncate` fails: `memoryMapAndGenerate` returns with its temp file still on disk and no generator left to remove it. The same happens on the other error returns and on a crash. |
| SealerThreadsApplied | violation | A SetThreads call outside the select is dropped. |
| VMWords | pass | Every arithmetic, comparison and bitwise opcode agrees with the reference on every stack of 4-bit words: signed extremes, division by zero, and SIGNEXTEND/BYTE indices at and past the word width. PUSH and CALLDATALOAD zero-pad past the end. The memory-size step reports overflow exactly when the rounded size does not fit. |
| VMCalls | pass | With nested calls of all four kinds, creates, reverts, self-destructs and a concurrent Cancel: gas is never created (`GasNeverCreated`); a failing entry leaves the world as it was before its opcode, apart from Create's nonce (`FailedEntryLeavesNoTrace`); and every transaction returns (`TxCompletes`). |
| CreateSuccessMeansStored | violation | Init code that returns more than `MaxCodeSize` is reverted with `err == nil`, so CREATE pushes the address of an account that does not exist. |

More defects are recorded by properties that no run checks. Each
would only restate a single line of code, or a gap the spec already admits.

- `NoMappingWithoutDir` (TilthashStore) is violated by `dataset.generate`:
  the `dagdir == ""` branch (`tilthash.go:253`) has no `return`, so it falls
  through to the disk branch and maps a file relative to the working
  directory. TLC finds it in two steps.
- `CodeStoreOOGPushesAddress` (VMCalls) is violated by `opCreate`: on
  code-store-out-of-gas it pushes 0 (`instructions.go:556`), where spec
  sections 6 and 9 say the address stays visible.
- The deletion loop (`tilthash.go:202`) starts at `epoch - limit` and so
  keeps `limit` epochs, where spec section 6 deletes the caches older than
  `current_epoch - cachesOnDisk`, keeping one more. With a limit of 0 it
  deletes the dump it has just written and mapped. `Delete` models the loop
  as written; the refinement holds for any limit, since `DumpStore` allows
  any set of epochs to be removed.

- `GeneratedSizeCorrect` (TilthashStore) is violated by the dataset heap
  fall-back. At `tilthash.go:285` it allocates `dsize/2` words where every
  other buffer uses `size/4`. The model keeps only a flag for that size.
- `CodeStoreOOGRollsBack` (VMCalls) is violated by Create. On
  code-store-out-of-gas it keeps the new account, its value and the init
  code's writes (`tiltvm.go:274`). The spec's open questions already say
  that this branch has no snapshot revert.

Why the bounds are enough:

- Every branch of the lookup is reached by 3 epochs with 2 callers and 2-3
  lookups. These cover hit, miss, eviction, adoption, a future that is behind
  after a backward request, and a lookup that meets a generation still running.
- The entry bound `MaxObjs` never cuts a behaviour short. A lookup allocates at most 2 entries, but in 3 lookups over 3 epochs the cache store allocates at most 5 and the dataset store at most 6, because adopting the future dataset allocates a new struct. TLC, run with a larger bound, confirms both maxima. `TilthashCache` uses 5 and `TilthashDataset` uses 6.
- `DumpFiles`: two generators can both miss the same epoch and race their
  renames, or be of different epochs so that one's deletion loop (with
  `limit = 1`, epoch 2 deletes 0 and 1) removes the other's file between its
  rename and its reopen. Four starts let a generator start again after a
  release or a crash and find the file on disk. One fault and one crash put
  a failure or a crash at every step of a write; the run has 1.77 million
  distinct states and fires every action.
- `VMWords`: 2-bit bytes and 2-byte words, so every word value is
  enumerated. A 3-bit `uint64` puts the two overflow checks of the memory
  step (the size itself, and the size rounded to words) within reach of the
  operands. The stack holds 3 words, enough for the ternary opcodes.
- `VMCalls`:
  - Accounts: sender `a0`, and contracts `a1` and `a2`.
  - `a1` creates, calls, writes, and then jumps back, jumps to the JUMP
    itself (a loop only gas ends), jumps on to RETURN, or jumps to a bad
    target.
  - `a2` writes, then either self-destructs or branches to CALLCODE and
    DELEGATECALL.
  - The deployed code fails after a write.
  - Other constants: `GasLimit = 12`, call gas 0 or 4, a value of 0 or 1,
    and `CallCreateDepth = 1`.
  - Coverage: two-level nesting of every entry kind, and the depth error one
    level further down. Return sizes 0..2 with `MaxCodeSize = 1` reach
    stored, code-store-out-of-gas and oversized code.
  - Every action fires.

Every mutant listed in `PROJECT.json` is a one-line change of a mapped
definition, and TLC finds it under the run's own cfg.

### Fairness

Fairness is weak fairness on every goroutine's steps after it has started: the
generation, the bump, the background task, and the sealer's and miners' steps.
The Go scheduler runs every runnable goroutine eventually.

There is deliberately no fairness on three actions:

- Lookups: callers issue them only when they want to.
- `CloseStop`: the caller need not close `stop`.
- `Find`: no attempt is bound to meet the target.

`DumpFiles` has no fairness and checks only safety: its claim is about what
a reader can ever find, not that generation ends.

`VMCalls` assumes weak fairness on the interpreter's steps (`Step`). Once a
transaction has begun, the single interpreter thread keeps executing. There
is no fairness on `Begin` (the caller decides) or on `Cancel` (nobody need
cancel). `TxCompletes` therefore rests on gas: every opcode that does not
halt costs gas.

## Proofs

`TilthashStoreProofs` proves, for every value of the constants (any set of
callers, any `MaxEpoch`, `MaxObjs`, `MaxLookups`, and `InMem` any integer):

- `TypeCorrect`: `Spec => []TypeOK`.
- `FutureAheadHolds`: `Spec => []FutureAhead`.
- `StoreBoundedHolds`: `Spec => []StoreBounded`, for every `InMem`,
  including 0 and negative values. It needs no strengthening beyond
  `IInv`'s type facts: an insertion removes `NumToEvict` entries of `Live`
  and adds the missing epoch, leaving `Cardinality(Live) - NumToEvict + 1`
  entries, which is at most the bound whatever the size before
  (`InsertBounded`, from `FS_Difference` and `FS_AddElement`); every other
  step keeps the map.

`FutureAhead` is not inductive by itself, for three reasons:

- A lookup compares the future's epoch with the requested one, not with the
  entries in the map.
- Entries are reached through ids.
- Fresh ids must not alias live ones.

The inductive invariant `IInv` therefore adds three conjuncts:

- `Allocated`: every id the engine or a goroutine refers to is below `nextObj`, and so is the next free id.
- `StoreEpochs`: the entry under key `e` has epoch `e`.
- `FutureSet`: the future entry, if any, has an epoch and an id that are allocated.

`InsertIInv` proves the locked insertion preserves `IInv`. It considers, one
step per object, the freed entries, the current entry (adopted or new), the
new future, and the untouched rest. `NextIInv` proves the same for every
action. The theorems follow by PTL.

Two more theorems rest on a stronger invariant `RInv`:

- `StoreHoldsLiveEntriesHolds`: `Spec => []StoreHoldsLiveEntries`.
- `ReturnedCacheReadyHolds`: `Spec => []ReturnedCacheReady`.

`RInv` is `IInv` plus three conjuncts:

- `CallerEntries`: a caller in the middle of a lookup holds an allocated
  entry of the epoch it asked for.
- `CallerReady`: a caller past the `sync.Once` step holds an entry whose
  generation is done.
- `StoreHoldsLiveEntries` itself.

`InsertIInv` is extended for this. An insertion releases only entries it
removes from the map, and the entries left in the map are not among them,
because they carry other epochs. It keeps every old object's epoch and
`once` state, and the caller's entry is allocated and of its epoch.
`ObjStep` covers every other step: a step that keeps the map and only
advances a caller's `once` to done, or sets `released` on an entry outside
the map, keeps the three conjuncts. `LookupRest` covers the hit and
insertion cases of the locked lookup. `NextRInv` joins them. TLC checked
`RInv` as an invariant of both store runs before it was proved.

`DumpFilesProofs` proves, for any set of generators and epochs, any `limit`
and any bounds on starts, faults and crashes:

- `TypeCorrect`: `Spec => []TypeOK`.
- `WordsCompleteHolds`: `Spec => []WordsComplete`, the words a generator
  maps are those of a fully written dump.
- `Refinement`: `Spec => ImplementsDumpStore`.

The argument: a canonical name only ever names a complete inode
(`CanonFull`), because the only inode renamed onto it is a temp file whose
writer has written the words. For that, the invariant must know that the
writes of the other generators never touch a canonical or mapped inode, so
`IInv` adds:

- `WritersOk`: every generator in the middle of `memoryMapAndGenerate` owns
  a temp inode whose content is what its step expects (`Expected`: never
  `"full"` before the generator has run);
- `WritersDistinct`: two writers own different inodes;
- `FreshInodes`: inodes `os.Create` has not handed out yet are absent, so a
  new temp file cannot be a canonical or mapped one.

`GenStep` proves once that a step replacing one generator's record and
leaving the files alone keeps `IInv`; one lemma per action covers the rest
(`WriteIInv` serves `Truncate` and both writes), and `NextIInv` joins them.
`NextRefines` shows every step is a `Publish`, a `Remove` or a stutter of
`Disk`; the theorem follows by PTL.

`SealerProofs` proves `SealReturnsResultHolds`: `Spec => []SealReturnsResult`,
for any number of CPUs, thread counts and `SetThreads` calls. The property
speaks only of the state after `Seal` returns. The invariant therefore adds
what holds on the way there (`Outcome`):

- a pending restart (the update case) exists only in the wait and the next
  start, and only when no block was received;
- a wait that will return without a block follows a closed `stop`;
- a received block belongs to a miner of the current round.

The last part needs `InRound`: only the miners that `Spawn` started in this
round run. `FoundCase` takes a block only from such a miner, and `roundN`
changes only in `Prepare`, where no block is held.

`VMCallsProofs` holds the lemmas on the sequence operations that the call,
create and return steps apply to `frames`. `VMSnapshotProofs` rests on them.

`VMSnapshotProofs` proves `FailedEntryLeavesNoTraceHolds`:
`Spec => FailedEntryLeavesNoTrace`, for every value of the constants. It
is an action property: a step that pops a reverting frame sets the world
to `Undone(Top)`. The revert reads `snaps[Top.snap]`, so the invariant
`SnapInv` describes the whole snapshot list (`SnapOk(frames, snaps)`):

- every open frame's snapshot id is in `1..Len(snaps)`;
- that snapshot holds `Undone` of the frame: the opcode's world, with the
  nonce raised for a create;
- snapshot ids grow strictly from the outermost frame up;
- no frame is open before the transaction begins.

The ordering is the part that is needed. A failed entry discards its own
snapshot and every later one (`Discard`), and the frames below it keep
theirs only because their ids are smaller (`SnapDrop`). The lemmas follow
the operations on the two lists:

- `SnapReplaceTop` rewrites the top frame outside `KeyFields`. `Charge`,
  `Finish` and `Resume` only rewrite such fields (`Keeps`).
- `SnapPush` appends a callee together with its snapshot.
- `SnapDrop` and `PopSnap` pop a frame.
- `CallEntry`, `CallCodeEntry`, `DelegateCallEntry` and `CreateEntry` show
  that each entry appends `Undone` of the frame it creates (`EntryOk`).

One lemma per group of actions gives `StepOk`: the invariant is kept, and
the action formula holds for the step.

For this proof, the `CASE` expressions of `VMCalls` whose guards overlap
are written as `IF` chains in the code's order: `Precheck`,
`CreateOutcome` and `Jump`'s target. A `CASE` with several true guards
denotes an arbitrary one of their values, while TLC takes the first. An
oversized code with enough gas for it would otherwise not be forced to
revert in the proof.

`SealerProofs` also proves `TypeCorrect`: `Spec => []TypeOK`. The one
conjunct that needs an argument is `roundN \in 0..MaxWorkers`. `Prepare`
sets `roundN` to `Effective(threads)`. `threads` only ever holds
`InitThreads` or a `SetThreads` argument, and `Effective` is never
negative. `MaxWorkers` is the largest of these counts. It exists by the
assumption `WorkersBoundAssumption`, which holds for any finite set of
settings, and TLC evaluates it on every Sealer run.

`VMWordArithProofs` proves, for every word, byte and `uint64` width,
that three groups of word operators agree with their references:

- `SignedDivisionMatchesRef`: for all words `a` and `b`, `opSdiv(a, b)`
  and `opSmod(a, b)` equal spec 4.1's SDIV and SMOD. Those are defined
  from `TruncQuot`, a `CHOOSE` of a quotient whose remainder is smaller
  than the divisor and has the dividend's sign. The proof computes the
  code's quotient and remainder from `\div` and `%` on the magnitudes
  (`DivParts`), shows that the quotient satisfies the predicate and lies
  in the `CHOOSE` range, and shows that the predicate has only one
  solution (`TruncUnique`). The most negative word divided by -1 and a
  zero divisor are covered.
- `SignedCompareMatchesRef`: `opSlt`, which applies `S256` twice to its
  second operand, and `opSgt` compare the two's-complement values.
- `MemorySizeMatchesRef`: for all offsets and lengths, `MemorySize`
  equals `MemRef`, which is offset+length rounded up to whole words, or
  overflow when that exceeds `MaxUint`. The proof has three cases. A size
  over `MaxUint` rounds to more (`RoundUp`). A size in the last word
  below 2^64 meets `toWordSize`'s guard. There the guard's
  `MaxUint/32 + 1` words are exactly 2^64 bytes (`TopWord`), as is the
  rounded size (`Near`). Any other size rounds in the ordinary way.

The provers treat `^` as an uninterpreted operator. The facts about
powers of two that these proofs need are therefore hypotheses of the
theorems: `MaxUint` is a natural number, and `Modulus` is even and at
least 2. Every width satisfies them.

`TopWord` also needs `WordSizeAssumption`: a word size divides 2^64, as 32
does. Without it the statement is false. With 3-byte words and a 3-bit
`uint64`, a size of 6 makes `toWordSize` report 3 words (9 bytes, so
overflow), but rounding 6 up gives 6. TLC evaluates the assumption on the
`VMWords` run.

Only TLC checks the following:

- the liveness properties (`LookupCompletes`, `StopTerminatesSeal`), because
  TLAPS does not handle fairness or `ENABLED`;
- `GasNeverCreated` and `VMCalls`' `TypeOK`. The first sums the gas of
  every open frame (`GasSum`, a recursive function over `frames`), and the
  balance bounds of the second rest on the sum of all balances staying at
  `Supply`. Either proof needs induction over the stack or over the
  accounts, and the provers cannot instantiate the library's induction
  theorems;
- `VMWords`' properties as temporal formulas, and the opcodes that use
  `Bitwise` (AND, OR, XOR, SIGNEXTEND), which the provers cannot read.
  `VMWordArithProofs` proves the `Bitwise`-free parts of two of those
  properties operator by operator (above);
- the remaining safety properties, which are shown on the instances above.

## Not modelled

- The durability of the dump files across an operating-system crash: no
  file is synced before the rename (`tilthash.go:139`), so after a power
  loss the name may hold a file with a magic and without its words.
  `DumpFiles` models process crashes only, in which the kernel keeps every
  completed write.
- The file descriptor leaked by the `Truncate` error return (line 120).
- Hashimoto, cache and dataset generation algorithms: pure hashing, and not
  under `src/`.
- Fake, tester and shared modes.
- In the VM: precompiled contracts, logs, memory contents, the jumpdest
  analysis cache, and the per-opcode dynamic gas (constants stand for the
  gas table). The account-creation surcharge of CALL is not modelled. SHA3
  and the DUP/SWAP/MLOAD/MSTORE data paths are abstracted as `ADD` in
  `VMCalls` and left out of `VMWords`.
- The hashrate meter.
- The node wiring in `tilt/`, the RPC backends, the JavaScript console
  extensions in `internal/quadsext`, and the CLIs in `cmd/`. These are
  construction, plumbing and strings, with no state machine of their own.
