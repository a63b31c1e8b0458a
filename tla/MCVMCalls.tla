------------------------------ MODULE MCVMCalls ------------------------------
(* An instance of VMCalls: three accounts, the sender a0 without code,  *)
(* the called contract a1 and a second contract a2.                      *)
EXTENDS VMCalls

CONSTANTS a0, a1, a2

MCAccounts == {a0, a1, a2}

(* a1 creates a contract, calls out, writes storage, then jumps back to *)
(* the start, to the JUMP itself (a loop only gas ends), on to its       *)
(* RETURN, or to a bad target.  a2 writes, then either self-destructs  *)
(* or branches to code that runs others' code through CALLCODE and      *)
(* DELEGATECALL.  The deployed code fails after a write.                 *)
MCPrograms ==
    [a \in MCAccounts |->
        CASE a = a1 -> <<"JUMPDEST", "CREATE", "CALL", "SSTORE", "JUMPDEST",
                         "JUMP", "JUMPDEST", "RETURN">>
          [] a = a2 -> <<"SSTORE", "JUMPI", "SUICIDE", "JUMPDEST", "CALLCODE",
                         "DELEGATECALL", "ADD">>
          [] OTHER  -> <<>>]

MCInitCode == <<"SSTORE", "RETURN">>
MCDeployed == <<"SSTORE", "INVALID">>
MCBalance0 == [a \in MCAccounts |-> IF a = a0 THEN 2 ELSE IF a = a1 THEN 1 ELSE 0]
MCCallTargets == {a0, a1, a2, NewAddr(a1, 0)}
====
