---------------------------- MODULE VMCallsProofs ----------------------------
(***************************************************************************)
(* Lemmas about the stack of running Contracts of the TiltVM (VMCalls):  *)
(* what the sequence operations the call, create and return steps apply *)
(* to frames return.  VMSnapshotProofs rests on them.                   *)
(***************************************************************************)
EXTENDS VMCalls, TLAPS

(* frames is a finite sequence (of whatever its elements are).           *)
IsSeq(s) == s \in Seq({s[i] : i \in DOMAIN s})

-----------------------------------------------------------------------------
(* Lemmas on the sequence operations the actions apply to frames. *)
LEMMA SeqIsSeq ==
    ASSUME NEW S, NEW s \in Seq(S)
    PROVE  IsSeq(s)
<1>1. DOMAIN s = 1..Len(s) /\ Len(s) \in Nat
    OBVIOUS
<1>2. s \in [1..Len(s) -> {s[j] : j \in DOMAIN s}]
    BY <1>1
<1> QED
    BY <1>1, <1>2 DEF IsSeq

LEMMA SeqExcept ==
    ASSUME NEW s, IsSeq(s), NEW i \in 1..Len(s), NEW x
    PROVE  IsSeq([s EXCEPT ![i] = x]) /\ Len([s EXCEPT ![i] = x]) = Len(s)
<1> DEFINE S == {s[j] : j \in DOMAIN s}
           t == [s EXCEPT ![i] = x]
<1>1. s \in Seq(S)
    BY DEF IsSeq
<1>2. t \in Seq(S \cup {x}) /\ Len(t) = Len(s)
    BY <1>1
<1>3. IsSeq(t)
    BY <1>2, SeqIsSeq, Zenon
<1> QED
    BY <1>2, <1>3

LEMMA SeqAppend ==
    ASSUME NEW s, IsSeq(s), NEW x
    PROVE  IsSeq(Append(s, x)) /\ Len(Append(s, x)) = Len(s) + 1
<1> DEFINE S == {s[j] : j \in DOMAIN s}
<1>1. s \in Seq(S)
    BY DEF IsSeq
<1>2. Append(s, x) \in Seq(S \cup {x}) /\ Len(Append(s, x)) = Len(s) + 1
    BY <1>1
<1>3. IsSeq(Append(s, x))
    BY <1>2, SeqIsSeq, Zenon
<1> QED
    BY <1>2, <1>3

LEMMA NatSplit ==
    ASSUME NEW n \in Nat, n >= 1
    PROVE  n = 1 \/ n >= 2
OBVIOUS

LEMMA SeqNonEmpty ==
    ASSUME NEW s, IsSeq(s), s # <<>>
    PROVE  Len(s) \in Nat /\ Len(s) >= 1
<1>1. s \in Seq({s[j] : j \in DOMAIN s})
    BY DEF IsSeq
<1> QED
    BY <1>1

=============================================================================
