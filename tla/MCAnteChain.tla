---------------------------- MODULE MCAnteChain -----------------------------
(***************************************************************************)
(* AnteChain for TLC: transactions of two accounts that compete for         *)
(* sequences, funds, the packet and the circuit breaker.                    *)
(***************************************************************************)
EXTENDS AnteChain

SomeTx ==
    LET T(a, n, f, m) == [signer |-> a, seq |-> n, fee |-> f, msg |-> m, signed |-> TRUE,
                        timeout |-> 0]
    IN  {[T("alice", 0, 1, "send") EXCEPT !.timeout = 1], T("alice", 0, 4, "relay"), T("alice", 1, 1, "exec"),
         T("alice", 2, 1, "relay"),
         T("gov", 0, 0, "trip"), T("gov", 0, 1, "relay"), T("gov", 1, 1, "send"),
         [T("alice", 1, 1, "send") EXCEPT !.signed = FALSE]}
=============================================================================
