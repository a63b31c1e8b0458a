--------------------------- MODULE VMSnapshotProofs ---------------------------
(***************************************************************************)
(* Proof that an entry of the TiltVM (Call, CallCode, DelegateCall or      *)
(* Create) that fails leaves the world as its opcode found it, for every  *)
(* value of the constants: FailedEntryLeavesNoTrace.                     *)
(*                                                                         *)
(* The revert goes to snaps[Top.snap], so the invariant must say that     *)
(* every open frame's snapshot is still there and holds the world its     *)
(* entry began with, although the entries nested above it have taken     *)
(* later snapshots and discarded some of them.  That needs the snapshot  *)
(* ids to grow with the depth of the frame: a failed entry discards      *)
(* from its own id on, and the ids of the frames below it are smaller.   *)
(***************************************************************************)
EXTENDS VMCallsProofs

(* The fields of a frame that fix the world its revert must restore. *)
KeyFields == {"kind", "caller", "pre", "snap"}

(* g is f with only fields outside KeyFields rewritten. *)
Keeps(f, g) == DOMAIN g = DOMAIN f /\ \A x \in KeyFields : g[x] = f[x]

(* A stack of frames fs over the snapshot list ss: each frame's snapshot *)
(* exists and holds the world its entry began with, and deeper frames    *)
(* took later snapshots.                                                 *)
SnapOk(fs, ss) ==
    /\ IsSeq(fs) /\ IsSeq(ss)
    /\ \A k \in 1..Len(fs) :
          /\ KeyFields \subseteq DOMAIN fs[k]
          /\ fs[k].snap \in 1..Len(ss)
          /\ ss[fs[k].snap] = Undone(fs[k])
    /\ \A j, k \in 1..Len(fs) : j < k => fs[j].snap < fs[k].snap

(* The inductive invariant; a transaction begins with no frame open. *)
SnapInv ==
    /\ SnapOk(frames, snaps)
    /\ phase = "idle" => frames = <<>>

-----------------------------------------------------------------------------
(* Lemmas on SnapOk under the sequence operations the actions apply. *)

LEMMA UndoneKeeps ==
    ASSUME NEW f, NEW g, KeyFields \subseteq DOMAIN f, Keeps(f, g)
    PROVE  /\ Undone(g) = Undone(f)
           /\ g.snap = f.snap
           /\ KeyFields \subseteq DOMAIN g
<1>1. g.kind = f.kind /\ g.caller = f.caller /\ g.pre = f.pre /\ g.snap = f.snap
    BY DEF Keeps, KeyFields
<1> QED
    BY <1>1 DEF Undone, Keeps

LEMMA SnapEmpty ==
    ASSUME NEW ss, IsSeq(ss)
    PROVE  SnapOk(<<>>, ss)
BY DEF SnapOk, IsSeq

(* Rewriting the top frame outside its key fields. *)
LEMMA SnapReplaceTop ==
    ASSUME NEW fs, NEW ss, SnapOk(fs, ss), fs # <<>>,
           NEW g, Keeps(fs[Len(fs)], g)
    PROVE  SnapOk([fs EXCEPT ![Len(fs)] = g], ss)
<1> DEFINE n == Len(fs)
           t == [fs EXCEPT ![n] = g]
<1>1. n \in Nat /\ n >= 1
    BY SeqNonEmpty DEF SnapOk
<1>2. IsSeq(t) /\ Len(t) = n
    <2>1. IsSeq(fs) /\ n \in 1..Len(fs)
        BY <1>1 DEF SnapOk
    <2> QED
        BY <2>1, SeqExcept, Zenon
<1>3. /\ KeyFields \subseteq DOMAIN g
      /\ g.snap = fs[n].snap
      /\ Undone(g) = Undone(fs[n])
    BY <1>1, UndoneKeeps DEF SnapOk
<1>4. \A k \in 1..n : t[k] = IF k = n THEN g ELSE fs[k]
    BY <1>1 DEF SnapOk, IsSeq
<1>5. \A k \in 1..n : /\ KeyFields \subseteq DOMAIN t[k]
                      /\ t[k].snap = fs[k].snap
                      /\ Undone(t[k]) = Undone(fs[k])
    BY <1>3, <1>4 DEF SnapOk
<1> QED
    BY <1>2, <1>5 DEF SnapOk

(* Entering a callee whose snapshot is the one just appended. *)
LEMMA SnapPush ==
    ASSUME NEW fs, NEW ss, SnapOk(fs, ss),
           NEW c, KeyFields \subseteq DOMAIN c, c.snap = Len(ss) + 1
    PROVE  SnapOk(Append(fs, c), Append(ss, Undone(c)))
<1> DEFINE t == Append(fs, c)
           u == Append(ss, Undone(c))
<1>1. IsSeq(t) /\ Len(t) = Len(fs) + 1 /\ IsSeq(u) /\ Len(u) = Len(ss) + 1
    BY SeqAppend DEF SnapOk
<1>2. Len(fs) \in Nat /\ Len(ss) \in Nat
    BY DEF SnapOk, IsSeq
<1>3. \A k \in 1..Len(t) : t[k] = IF k = Len(fs) + 1 THEN c ELSE fs[k]
    BY <1>2 DEF SnapOk, IsSeq
<1>4. \A i \in 1..Len(u) : u[i] = IF i = Len(ss) + 1 THEN Undone(c) ELSE ss[i]
    BY <1>2 DEF SnapOk, IsSeq
<1>5. \A k \in 1..Len(t) : /\ KeyFields \subseteq DOMAIN t[k]
                           /\ t[k].snap \in 1..Len(u)
                           /\ u[t[k].snap] = Undone(t[k])
    BY <1>1, <1>2, <1>3, <1>4 DEF SnapOk
<1>6. ASSUME NEW j \in 1..Len(t), NEW k \in 1..Len(t), j < k
      PROVE  t[j].snap < t[k].snap
    <2>1. j \in 1..Len(fs) /\ t[j] = fs[j]
        BY <1>1, <1>2, <1>3, <1>6
    <2>2. fs[j].snap \in 1..Len(ss)
        BY <2>1 DEF SnapOk
    <2>3. CASE k = Len(fs) + 1
        BY <1>2, <1>3, <2>1, <2>2, <2>3
    <2>4. CASE k # Len(fs) + 1
        <3>1. k \in 1..Len(fs) /\ t[k] = fs[k]
            BY <1>1, <1>2, <1>3, <2>4
        <3> QED
            BY <2>1, <3>1, <1>6 DEF SnapOk
    <2> QED
        BY <2>3, <2>4
<1> QED
    BY <1>1, <1>5, <1>6 DEF SnapOk

LEMMA SeqPrefix ==
    ASSUME NEW s, IsSeq(s), NEW m \in 0..Len(s)
    PROVE  /\ IsSeq(SubSeq(s, 1, m)) /\ Len(SubSeq(s, 1, m)) = m
           /\ \A i \in 1..m : SubSeq(s, 1, m)[i] = s[i]
<1> DEFINE S == {s[j] : j \in DOMAIN s}
<1>1. s \in Seq(S)
    BY DEF IsSeq
<1>2. SubSeq(s, 1, m) \in Seq(S) /\ Len(SubSeq(s, 1, m)) = m
      /\ \A i \in 1..m : SubSeq(s, 1, m)[i] = s[i]
    BY <1>1
<1> QED
    BY <1>2, SeqIsSeq, Zenon

(* Leaving the top frame, keeping the snapshots or discarding the top    *)
(* frame's snapshot and every later one.                                  *)
LEMMA SnapDrop ==
    ASSUME NEW fs, NEW ss, SnapOk(fs, ss), fs # <<>>,
           NEW ss2, \/ ss2 = ss
                    \/ ss2 = SubSeq(ss, 1, fs[Len(fs)].snap - 1)
    PROVE  SnapOk(SubSeq(fs, 1, Len(fs) - 1), ss2)
<1> DEFINE n    == Len(fs)
           top  == fs[n].snap
           rest == SubSeq(fs, 1, n - 1)
<1>1. n \in Nat /\ n >= 1 /\ Len(ss) \in Nat
    BY SeqNonEmpty DEF SnapOk, IsSeq
<1>2. top \in 1..Len(ss)
    BY <1>1 DEF SnapOk
<1>3. IsSeq(rest) /\ Len(rest) = n - 1 /\ \A k \in 1..(n - 1) : rest[k] = fs[k]
    <2>1. IsSeq(fs) /\ n - 1 \in 0..Len(fs)
        BY <1>1 DEF SnapOk
    <2> QED
        BY <2>1, SeqPrefix, Zenon
<1>4. IsSeq(ss2) /\ \A k \in 1..(n - 1) : fs[k].snap \in 1..Len(ss2)
                                            /\ ss2[fs[k].snap] = ss[fs[k].snap]
    <2>1. CASE ss2 = ss
        BY <2>1 DEF SnapOk
    <2>2. CASE ss2 = SubSeq(ss, 1, top - 1)
        <3>1. IsSeq(SubSeq(ss, 1, top - 1)) /\ Len(SubSeq(ss, 1, top - 1)) = top - 1
              /\ \A i \in 1..(top - 1) : SubSeq(ss, 1, top - 1)[i] = ss[i]
            BY <1>2, SeqPrefix DEF SnapOk
        <3>2. \A k \in 1..(n - 1) : fs[k].snap \in 1..(top - 1)
            BY <1>1 DEF SnapOk
        <3> QED
            BY <2>2, <3>1, <3>2
    <2> QED
        BY <2>1, <2>2
<1>5. \A k \in 1..Len(rest) : /\ KeyFields \subseteq DOMAIN rest[k]
                              /\ rest[k].snap \in 1..Len(ss2)
                              /\ ss2[rest[k].snap] = Undone(rest[k])
    BY <1>1, <1>3, <1>4 DEF SnapOk
<1>6. ASSUME NEW j \in 1..Len(rest), NEW k \in 1..Len(rest), j < k
      PROVE  rest[j].snap < rest[k].snap
    <2>1. j \in 1..n /\ k \in 1..n /\ rest[j] = fs[j] /\ rest[k] = fs[k]
        BY <1>1, <1>3
    <2>2. \A a, b \in 1..n : a < b => fs[a].snap < fs[b].snap
        BY DEF SnapOk
    <2> QED
        BY <2>1, <2>2, <1>6
<1> QED
    BY <1>3, <1>4, <1>5, <1>6 DEF SnapOk

-----------------------------------------------------------------------------
(* The frame updates of the interpreter keep the key fields. *)
LEMMA ChargeKeeps ==
    ASSUME NEW f, NEW c
    PROVE  Keeps(f, Charge(f, c)) /\ Keeps(f, [Charge(f, c) EXCEPT !.pc = @ + 1])
BY DEF Keeps, Charge, KeyFields

LEMMA FinishKeeps ==
    ASSUME NEW f, NEW st, NEW r
    PROVE  Keeps(f, Finish(f, st, r))
BY DEF Keeps, Finish, KeyFields

LEMMA ResumeKeeps ==
    ASSUME NEW f, NEW g, NEW pu
    PROVE  Keeps(f, Resume(f, g, pu))
BY DEF Keeps, Resume, KeyFields

LEMMA KeepsTrans ==
    ASSUME NEW f, NEW g, NEW h, Keeps(f, g), Keeps(g, h)
    PROVE  Keeps(f, h)
BY DEF Keeps

-----------------------------------------------------------------------------
(* An entry that enters its callee appends the snapshot the callee's     *)
(* revert must restore, when the opcode's world is the one it snapshots. *)
EntryOk(r, s) ==
    /\ r.snaps = Append(s, Undone(r.callee))
    /\ r.callee.snap = Len(s) + 1
    /\ KeyFields \subseteq DOMAIN r.callee

LEMMA CallEntry ==
    ASSUME NEW w, NEW s, NEW c, NEW to, NEW v, NEW gas, NEW gin,
           CallStart(w, s, c, to, v, gas, w, gin).enter
    PROVE  EntryOk(CallStart(w, s, c, to, v, gas, w, gin), s)
<1>1. Precheck(w, c.self, v, TRUE) = "go" /\ ~(to \notin w.exists /\ v = 0)
    BY DEF CallStart, Back, Enter
<1> QED
    BY <1>1 DEF CallStart, Enter, NewFrame, Snapshot, Undone, EntryOk, KeyFields

LEMMA CallCodeEntry ==
    ASSUME NEW w, NEW s, NEW c, NEW to, NEW v, NEW gas, NEW gin,
           CallCodeStart(w, s, c, to, v, gas, w, gin).enter
    PROVE  EntryOk(CallCodeStart(w, s, c, to, v, gas, w, gin), s)
<1>1. Precheck(w, c.self, v, TRUE) = "go"
    BY DEF CallCodeStart, Back, Enter
<1> QED
    BY <1>1 DEF CallCodeStart, Enter, NewFrame, Snapshot, Undone, EntryOk, KeyFields

LEMMA DelegateCallEntry ==
    ASSUME NEW w, NEW s, NEW c, NEW to, NEW gas, NEW gin,
           DelegateCallStart(w, s, c, to, gas, w, gin).enter
    PROVE  EntryOk(DelegateCallStart(w, s, c, to, gas, w, gin), s)
<1>1. Precheck(w, c.self, 0, FALSE) = "go"
    BY DEF DelegateCallStart, Back, Enter
<1> QED
    BY <1>1 DEF DelegateCallStart, Enter, NewFrame, Snapshot, Undone, EntryOk, KeyFields

(* Create snapshots the world with the caller's nonce already raised,    *)
(* which is what Undone restores for a create frame.                      *)
LEMMA CreateEntry ==
    ASSUME NEW w, NEW s, NEW c, NEW v, NEW gas, NEW gin,
           CreateStart(w, s, c, v, gas, w, gin).enter
    PROVE  EntryOk(CreateStart(w, s, c, v, gas, w, gin), s)
<1> DEFINE n    == w.nonce[c.self]
           addr == NewAddr(c.self, n)
           w1   == [w EXCEPT !.nonce[c.self] = n + 1]
           w2   == [CreateAccount(w1, addr) EXCEPT !.nonce[addr] = 1]
           cal  == NewFrame("create", addr, c.self, v, InitCode, gas, Len(s) + 1, w, gin)
<1>1. Precheck(w, c.self, v, TRUE) = "go"
    BY Zenon DEF CreateStart, Back, Enter
<1>2. CreateStart(w, s, c, v, gas, w, gin) = Enter(Transfer(w2, c.self, addr, v),
                                                  Snapshot(w1, s), cal)
    BY <1>1, Zenon DEF CreateStart
<1>3. Undone(cal) = w1
    BY DEF Undone, NewFrame
<1>4. cal.snap = Len(s) + 1 /\ KeyFields \subseteq DOMAIN cal
    BY DEF NewFrame, KeyFields
<1> QED
    BY <1>2, <1>3, <1>4 DEF Enter, Snapshot, EntryOk

-----------------------------------------------------------------------------
(* What every step must do: keep the invariant, and restore the entry's  *)
(* world when it pops a reverting frame.                                  *)
StepOk ==
    /\ SnapInv'
    /\ Popping /\ Reverts(Top) => world' = Undone(Top)

(* A step that rewrites the top frame and keeps the snapshots. *)
LEMMA TopStepOk ==
    ASSUME SnapInv, frames # <<>>, NEW g, SetTop(g), Keeps(Top, g),
           snaps' = snaps, phase' = phase
    PROVE  StepOk
<1>1. SnapOk(frames', snaps')
    BY SnapReplaceTop DEF SnapInv, SetTop, Top
<1>2. Len(frames') = Len(frames)
    <2>1. IsSeq(frames) /\ Len(frames) \in 1..Len(frames)
        BY SeqNonEmpty DEF SnapInv, SnapOk
    <2> QED
        BY <2>1, SeqExcept, Zenon DEF SetTop
<1> QED
    BY <1>1, <1>2 DEF StepOk, SnapInv, Popping

(* A step that enters a callee above the rewritten caller. *)
LEMMA EnterStepOk ==
    ASSUME SnapInv, frames # <<>>, NEW f, Keeps(Top, f), NEW r,
           EntryOk(r, snaps), EnterFrom(f, r.world, r.snaps, r.callee),
           phase' = phase
    PROVE  StepOk
<1> DEFINE t == [frames EXCEPT ![Len(frames)] = f]
<1>1. SnapOk(t, snaps)
    BY SnapReplaceTop DEF SnapInv, Top
<1>2. SnapOk(Append(t, r.callee), Append(snaps, Undone(r.callee)))
    BY <1>1, SnapPush DEF EntryOk
<1>3. frames' = Append(t, r.callee) /\ snaps' = Append(snaps, Undone(r.callee))
    BY DEF EnterFrom, EntryOk
<1>4. Len(frames') = Len(frames) + 1 /\ Len(frames) \in Nat
    <2>1. IsSeq(frames) /\ Len(frames) \in 1..Len(frames)
        BY SeqNonEmpty DEF SnapInv, SnapOk
    <2>2. IsSeq(t) /\ Len(t) = Len(frames)
        BY <2>1, SeqExcept, Zenon
    <2> QED
        BY <1>3, <2>1, <2>2, SeqAppend
<1> QED
    BY <1>2, <1>3, <1>4 DEF StepOk, SnapInv, Popping

LEMMA NatNotOne ==
    ASSUME NEW n \in Nat, n >= 2
    PROVE  n # 1
OBVIOUS

(* Pop keeps the invariant, with the snapshots kept or discarded from    *)
(* the popped frame's id on.                                              *)
LEMMA PopSnap ==
    ASSUME SnapInv, frames # <<>>, NEW g, NEW pu, NEW e, Pop(g, pu, e),
           snaps' = snaps \/ snaps' = Discard(Top.snap)
    PROVE  SnapOk(frames', snaps') /\ Len(frames') < Len(frames)
<1> DEFINE n    == Len(frames)
           rest == SubSeq(frames, 1, n - 1)
<1>1. n \in Nat /\ n >= 1
    BY SeqNonEmpty DEF SnapInv, SnapOk
<1>2. SnapOk(rest, snaps')
    BY SnapDrop DEF SnapInv, Discard, Top
<1>3. IsSeq(rest) /\ Len(rest) = n - 1
    <2>1. IsSeq(frames) /\ n - 1 \in 0..Len(frames)
        BY <1>1 DEF SnapInv, SnapOk
    <2> QED
        BY <2>1, SeqPrefix, Zenon
<1>4. CASE n = 1
    <2>1. frames' = <<>>
        BY <1>4 DEF Pop
    <2>2. IsSeq(snaps')
        BY <1>2 DEF SnapOk
    <2> QED
        BY <1>4, <2>1, <2>2, SnapEmpty
<1>5. CASE n >= 2
    <2>0. n # 1
        BY <1>1, <1>5, NatNotOne, Zenon
    <2>1. frames' = [rest EXCEPT ![Len(rest)] = Resume(rest[Len(rest)], g, pu)]
        BY <2>0, Zenon DEF Pop
    <2>2. rest # <<>>
        <3>1. Len(rest) # 0
            BY <1>3, <1>5
        <3> QED
            BY <3>1
    <2>3. SnapOk(frames', snaps')
        BY <1>2, <2>1, <2>2, ResumeKeeps, SnapReplaceTop
    <2>4. IsSeq(frames') /\ Len(frames') = n - 1
        <3>1. Len(rest) \in 1..Len(rest)
            BY <1>3, <1>5
        <3> QED
            BY <1>3, <2>1, <3>1, SeqExcept, Zenon
    <2> QED
        BY <1>1, <2>3, <2>4
<1> QED
    BY <1>1, <1>4, <1>5, NatSplit

(* The end of a Call, CallCode or DelegateCall entry. *)
LEMMA CallEndOk ==
    ASSUME SnapInv, CallEnd
    PROVE  StepOk
<1> DEFINE failed == Top.status = "err"
<1>1. frames # <<>> /\ phase = "running"
    BY DEF CallEnd, Returned
<1>2. Pop(IF failed THEN 0 ELSE Top.gas, IF failed THEN 0 ELSE 1, failed)
      /\ (snaps' = snaps \/ snaps' = Discard(Top.snap))
    BY DEF CallEnd
<1>3. SnapOk(frames', snaps') /\ Len(frames') < Len(frames)
    BY <1>1, <1>2, PopSnap
<1>4. phase' # "idle"
    BY <1>1, <1>2 DEF Pop
<1>5. ASSUME Reverts(Top) PROVE world' = Undone(Top)
    <2>1. failed
        BY <1>5 DEF CallEnd, Reverts
    <2>2. world' = snaps[Top.snap]
        BY <2>1 DEF CallEnd, RevertTo
    <2>3. Len(frames) \in 1..Len(frames)
        BY <1>1, SeqNonEmpty DEF SnapInv, SnapOk
    <2> QED
        BY <2>2, <2>3 DEF SnapInv, SnapOk, Top
<1> QED
    BY <1>3, <1>4, <1>5 DEF StepOk, SnapInv

(* The end of a Create entry: only the "reverted" outcome reverts. *)
LEMMA CreateEndOk ==
    ASSUME SnapInv, CreateEnd
    PROVE  StepOk
<1> DEFINE f   == Top
           o   == CreateOutcome(f)
           err == f.status = "err" \/ o = "codeStoreOOG"
<1>1. frames # <<>> /\ phase = "running"
    BY DEF CreateEnd, Returned
<1>2. /\ Pop(CASE o = "reverted" -> 0
               [] o = "stored"   -> f.gas - f.ret * CreateDataGas
               [] OTHER          -> f.gas,
             IF err THEN 0 ELSE 2, err)
      /\ (snaps' = snaps \/ snaps' = Discard(Top.snap))
    BY Zenon DEF CreateEnd
<1>3. SnapOk(frames', snaps') /\ Len(frames') < Len(frames)
    BY <1>1, <1>2, PopSnap
<1>4. phase' # "idle"
    BY <1>1, <1>2 DEF Pop
<1>5. ASSUME Reverts(Top) PROVE world' = Undone(Top)
    <2>1. o = "reverted"
        <3>1. f.kind = "create"
            BY DEF CreateEnd
        <3>2. f.status = "err" \/ f.ret > MaxCodeSize
            BY <1>5, <3>1 DEF Reverts
        <3> QED
            BY <3>2 DEF CreateOutcome
    <2>2. world' = snaps[Top.snap]
        BY <2>1 DEF CreateEnd, RevertTo
    <2>3. Len(frames) \in 1..Len(frames)
        BY <1>1, SeqNonEmpty DEF SnapInv, SnapOk
    <2> QED
        BY <2>2, <2>3 DEF SnapInv, SnapOk, Top
<1> QED
    BY <1>3, <1>4, <1>5 DEF StepOk, SnapInv

(* The interpreter steps that only rewrite the top frame. *)
LEMMA InterpStepOk ==
    ASSUME SnapInv,
           EmptyCode \/ Aborted \/ InvalidOp \/ OutOfGas \/ Plain \/ Sstore
             \/ Jump \/ Halt \/ Suicide
    PROVE  StepOk
<1>1. frames # <<>> /\ snaps' = snaps /\ phase' = phase
    BY DEF EmptyCode, Aborted, InvalidOp, OutOfGas, Plain, Sstore, Jump, Halt,
           Suicide, Loop, Fetch, Running
<1>2. CASE EmptyCode \/ Aborted \/ InvalidOp \/ OutOfGas \/ Suicide
    <2>1. PICK st : SetTop(Finish(Top, st, 0))
        BY <1>2, Zenon DEF EmptyCode, Aborted, InvalidOp, OutOfGas, Suicide
    <2> QED
        BY <1>1, <2>1, FinishKeeps, TopStepOk
<1>3. CASE Halt
    <2>1. PICK r : SetTop(Finish(Top, "ok", r))
        BY <1>3, Zenon DEF Halt
    <2> QED
        BY <1>1, <2>1, FinishKeeps, TopStepOk
<1>4. CASE Plain \/ Sstore
    <2>1. PICK c : SetTop([Charge(Top, c) EXCEPT !.pc = @ + 1])
        BY <1>4, Zenon DEF Plain, Sstore
    <2> QED
        BY <1>1, <2>1, ChargeKeeps, TopStepOk
<1>5. CASE Jump
    <2>1. PICK d \in 0..Len(Top.code), cond \in {0, 1} :
              LET f == Charge(Top, Cost(Op(Top), 0, 0))
              IN  /\ Op(Top) = "JUMP" => cond = 1
                  /\ SetTop(IF cond = 0 THEN [f EXCEPT !.pc = @ + 1]
                            ELSE IF ValidJumpdest(Top.code, d) THEN [f EXCEPT !.pc = d]
                            ELSE Finish(f, "err", 0))
        BY <1>5, Zenon DEF Jump
    <2> DEFINE f == Charge(Top, Cost(Op(Top), 0, 0))
    <2>2. /\ Keeps(Top, [f EXCEPT !.pc = @ + 1])
          /\ Keeps(Top, [f EXCEPT !.pc = d])
          /\ Keeps(Top, Finish(f, "err", 0))
        <3>1. Keeps(Top, f)
            BY ChargeKeeps
        <3>2. Keeps(f, [f EXCEPT !.pc = @ + 1]) /\ Keeps(f, [f EXCEPT !.pc = d])
            BY DEF Keeps, KeyFields
        <3> QED
            BY <3>1, <3>2, FinishKeeps, KeepsTrans
    <2>3. CASE cond = 0
        BY <1>1, <2>1, <2>2, <2>3, TopStepOk
    <2>4. CASE cond # 0 /\ ValidJumpdest(Top.code, d)
        BY <1>1, <2>1, <2>2, <2>4, TopStepOk
    <2>5. CASE cond # 0 /\ ~ValidJumpdest(Top.code, d)
        BY <1>1, <2>1, <2>2, <2>5, TopStepOk
    <2> QED
        BY <2>3, <2>4, <2>5
<1> QED
    BY <1>2, <1>3, <1>4, <1>5

(* The call opcodes: the callee's snapshot is the opcode's world. *)
LEMMA CallOpOk ==
    ASSUME SnapInv, CallOp
    PROVE  StepOk
<1>1. frames # <<>> /\ phase' = phase
    BY DEF CallOp, Fetch, Loop, Running
<1>2. PICK to \in CallTargets, v \in Values, cg \in CallGas :
          LET op   == Op(Top)
              cost == Cost(op, v, cg)
              f    == Charge(Top, cost)
              fwd  == IF op # "DELEGATECALL" /\ v # 0 THEN cg + CallStipend ELSE cg
              r    == CASE op = "CALL" ->
                              CallStart(world, snaps, f, to, v, fwd, world, Top.gas)
                         [] op = "CALLCODE" ->
                              CallCodeStart(world, snaps, f, to, v, fwd, world, Top.gas)
                         [] op = "DELEGATECALL" ->
                              DelegateCallStart(world, snaps, f, to, fwd, world, Top.gas)
          IN  /\ op = "DELEGATECALL" => v = 0
              /\ Top.gas >= cost
              /\ IF r.enter THEN EnterFrom(f, r.world, r.snaps, r.callee)
                 ELSE BackTo(f, r.gas, IF r.err THEN 0 ELSE 1)
    BY Zenon DEF CallOp
<1> DEFINE op   == Op(Top)
           cost == Cost(op, v, cg)
           f    == Charge(Top, cost)
           fwd  == IF op # "DELEGATECALL" /\ v # 0 THEN cg + CallStipend ELSE cg
           r    == CASE op = "CALL" ->
                          CallStart(world, snaps, f, to, v, fwd, world, Top.gas)
                     [] op = "CALLCODE" ->
                          CallCodeStart(world, snaps, f, to, v, fwd, world, Top.gas)
                     [] op = "DELEGATECALL" ->
                          DelegateCallStart(world, snaps, f, to, fwd, world, Top.gas)
<1>3. op \in {"CALL", "CALLCODE", "DELEGATECALL"}
    BY DEF CallOp
<1>4. Keeps(Top, f)
    BY ChargeKeeps
<1>5. CASE r.enter
    <2>1. EntryOk(r, snaps)
        <3>1. CASE op = "CALL"
            BY <1>5, <3>1, CallEntry, Zenon
        <3>2. CASE op = "CALLCODE"
            BY <1>5, <3>2, CallCodeEntry, Zenon
        <3>3. CASE op = "DELEGATECALL"
            BY <1>5, <3>3, DelegateCallEntry, Zenon
        <3> QED
            BY <1>3, <3>1, <3>2, <3>3
    <2>2. EnterFrom(f, r.world, r.snaps, r.callee)
        BY <1>2, <1>5, Zenon
    <2> QED
        BY <1>1, <1>4, <2>1, <2>2, EnterStepOk
<1>6. CASE ~r.enter
    <2>1. SetTop(Resume(f, r.gas, IF r.err THEN 0 ELSE 1)) /\ snaps' = snaps
        BY <1>2, <1>6, Zenon DEF BackTo
    <2>2. Keeps(Top, Resume(f, r.gas, IF r.err THEN 0 ELSE 1))
        BY <1>4, ResumeKeeps, KeepsTrans
    <2> QED
        BY <1>1, <2>1, <2>2, TopStepOk
<1> QED
    BY <1>5, <1>6

(* CREATE: the callee's snapshot is the world with the nonce raised. *)
LEMMA CreateOpOk ==
    ASSUME SnapInv, CreateOp
    PROVE  StepOk
<1>1. frames # <<>> /\ phase' = phase
    BY DEF CreateOp, Fetch, Loop, Running
<1>2. PICK v \in Values :
          LET f1  == Charge(Top, Cost("CREATE", 0, 0))
              gas == f1.gas - f1.gas \div 64
              f   == CreateCharge(f1, gas)
              r   == CreateStart(world, snaps, f, v, gas, world, Top.gas)
          IN  IF r.enter THEN EnterFrom(f, r.world, r.snaps, r.callee)
              ELSE BackTo(f, r.gas, 0)
    BY Zenon DEF CreateOp
<1> DEFINE f1  == Charge(Top, Cost("CREATE", 0, 0))
           gas == f1.gas - f1.gas \div 64
           f   == CreateCharge(f1, gas)
           r   == CreateStart(world, snaps, f, v, gas, world, Top.gas)
<1>3. Keeps(Top, f)
    BY ChargeKeeps, KeepsTrans DEF CreateCharge
<1>4. CASE r.enter
    <2>1. EntryOk(r, snaps)
        BY <1>4, CreateEntry, Zenon
    <2>2. EnterFrom(f, r.world, r.snaps, r.callee)
        BY <1>2, <1>4, Zenon
    <2> QED
        BY <1>1, <1>3, <2>1, <2>2, EnterStepOk
<1>5. CASE ~r.enter
    <2>1. SetTop(Resume(f, r.gas, 0)) /\ snaps' = snaps
        BY <1>2, <1>5, Zenon DEF BackTo
    <2>2. Keeps(Top, Resume(f, r.gas, 0))
        BY <1>3, ResumeKeeps, KeepsTrans
    <2> QED
        BY <1>1, <2>1, <2>2, TopStepOk
<1> QED
    BY <1>4, <1>5

(* The runtime entry point: the outermost entry's snapshot is the world  *)
(* after Execute installed the code, or the world as it was.             *)
LEMMA BeginOk ==
    ASSUME SnapInv, Begin
    PROVE  StepOk
<1>1. PICK mode \in {"execute", "call", "create"}, to \in CallTargets, v \in Values :
          LET w0 == IF mode = "execute"
                    THEN [CreateAccount(world, Target) EXCEPT !.code[Target] = Programs[Target]]
                    ELSE world
              sender == [self |-> Origin, caller |-> Origin, value |-> 0]
              r == CASE mode = "execute" ->
                          CallStart(w0, snaps, sender, Target, v, GasLimit, w0, GasLimit)
                     [] mode = "call" ->
                          CallStart(w0, snaps, sender, to, v, GasLimit, w0, GasLimit)
                     [] mode = "create" ->
                          CreateStart(w0, snaps, sender, v, GasLimit, w0, GasLimit)
          IN  /\ mode \in {"execute", "create"} => to = Target
              /\ IF r.enter
                 THEN /\ world' = r.world /\ snaps' = r.snaps /\ frames' = <<r.callee>>
                      /\ phase' = "running" /\ UNCHANGED result
                 ELSE /\ world' = w0 /\ phase' = "done"
                      /\ result' = [err |-> r.err, gas |-> r.gas]
                      /\ UNCHANGED <<snaps, frames>>
    BY Zenon DEF Begin
<1> DEFINE w0 == IF mode = "execute"
                 THEN [CreateAccount(world, Target) EXCEPT !.code[Target] = Programs[Target]]
                 ELSE world
           sender == [self |-> Origin, caller |-> Origin, value |-> 0]
           r == CASE mode = "execute" ->
                       CallStart(w0, snaps, sender, Target, v, GasLimit, w0, GasLimit)
                  [] mode = "call" ->
                       CallStart(w0, snaps, sender, to, v, GasLimit, w0, GasLimit)
                  [] mode = "create" ->
                       CreateStart(w0, snaps, sender, v, GasLimit, w0, GasLimit)
<1>2. frames = <<>> /\ Len(frames) = 0
    BY DEF Begin, SnapInv
<1>3. CASE r.enter
    <2>1. EntryOk(r, snaps)
        <3>1. CASE mode = "execute"
            BY <1>3, <3>1, CallEntry, Zenon
        <3>2. CASE mode = "call"
            BY <1>3, <3>2, CallEntry, Zenon
        <3>3. CASE mode = "create"
            BY <1>3, <3>3, CreateEntry, Zenon
        <3> QED
            BY <3>1, <3>2, <3>3
    <2>2. frames' = <<r.callee>> /\ snaps' = r.snaps /\ phase' = "running"
        BY <1>1, <1>3, Zenon
    <2>3. SnapOk(Append(<<>>, r.callee), Append(snaps, Undone(r.callee)))
        <3>1. SnapOk(<<>>, snaps)
            <4>1. IsSeq(snaps)
                BY DEF SnapInv, SnapOk
            <4> QED
                BY <4>1, SnapEmpty
        <3>2. KeyFields \subseteq DOMAIN r.callee /\ r.callee.snap = Len(snaps) + 1
            BY <2>1 DEF EntryOk
        <3> QED
            BY <3>1, <3>2, SnapPush, Zenon
    <2>4. Append(<<>>, r.callee) = <<r.callee>>
        OBVIOUS
    <2>5. SnapOk(frames', snaps')
        BY <2>1, <2>2, <2>3, <2>4, Zenon DEF EntryOk
    <2>6. ~Popping
        BY <1>2, <2>2 DEF Popping
    <2> QED
        BY <2>2, <2>5, <2>6 DEF StepOk, SnapInv
<1>4. CASE ~r.enter
    <2>1. frames' = frames /\ snaps' = snaps /\ phase' = "done"
        BY <1>1, <1>4, Zenon
    <2> QED
        BY <1>2, <2>1 DEF StepOk, SnapInv, Popping
<1> QED
    BY <1>3, <1>4

LEMMA InitSnap == Init => SnapInv
BY DEF Init, SnapInv, SnapOk, IsSeq

LEMMA NextStepOk ==
    ASSUME SnapInv, [Next]_vars
    PROVE  StepOk
<1>1. CASE Begin
    BY <1>1, BeginOk
<1>2. CASE EmptyCode \/ Aborted \/ InvalidOp \/ OutOfGas \/ Plain \/ Sstore
             \/ Jump \/ Halt \/ Suicide
    BY <1>2, InterpStepOk
<1>3. CASE CallOp
    BY <1>3, CallOpOk
<1>4. CASE CreateOp
    BY <1>4, CreateOpOk
<1>5. CASE CallEnd
    BY <1>5, CallEndOk
<1>6. CASE CreateEnd
    BY <1>6, CreateEndOk
<1>7. CASE Cancel \/ Finished \/ UNCHANGED vars
    BY <1>7 DEF Cancel, Finished, vars, StepOk, SnapInv, Popping
<1> QED
    BY <1>1, <1>2, <1>3, <1>4, <1>5, <1>6, <1>7 DEF Next, Step

(* For every value of the constants: when a Call, CallCode,             *)
(* DelegateCall or Create fails (its Run returned an error, or the       *)
(* created code is too large), the RevertToSnapshot in TiltVM.Call,      *)
(* CallCode, DelegateCall and Create restores the world the entry's     *)
(* opcode began with (for Create, with the caller's nonce raised), what *)
(* the nested entries committed in between included.                     *)
THEOREM FailedEntryLeavesNoTraceHolds == Spec => FailedEntryLeavesNoTrace
<1>1. SnapInv /\ [Next]_vars => SnapInv'
    BY NextStepOk DEF StepOk
<1>2. Spec => []SnapInv
    BY InitSnap, <1>1, PTL DEF Spec
<1>3. SnapInv /\ [Next]_vars => [Popping /\ Reverts(Top) => world' = Undone(Top)]_vars
    BY NextStepOk DEF StepOk
<1> QED
    BY <1>2, <1>3, PTL DEF Spec, FailedEntryLeavesNoTrace

====
