-------------------------- MODULE MCTransferStack ---------------------------
(***************************************************************************)
(* TransferStack with the history that its quotas are about: what leaves B  *)
(* in a period, by the accounts and not by the flows that B keeps.          *)
(***************************************************************************)
EXTENDS TransferStack

(* A transfer of two coins is above the quota for C as long as nothing has  *)
(* come in from there.                                                      *)
MCMaxSend == [A |-> 2, C |-> 1]
MCMaxRecv == [A |-> 2, C |-> 2]

VARIABLE
    base  \* what was out through a channel when its quota was reset, and what
          \* failed forwards have given back since then

(* What has gone out from B to a peer and not come back.                    *)
Position(peer) ==
    IF SenderChainIsSource("B", peer) THEN net.escrow[<<"B", peer>>]
    ELSE Stranded("B") - Supply("B")

MCInit == Init /\ base = [c \in Peer |-> Position(c)]

(* A forward has failed when the packet that it forwarded gets an error     *)
(* acknowledgement only now; one that should go right back changes nothing. *)
Failed(peer) ==
    {i \in DOMAIN net.packets : /\ net.packets[i].from = peer /\ net.packets[i].dest # peer
                                /\ net.packets[i].phase = "waiting"
                                /\ net'.packets[i].phase = "error"}

MCNext ==
    \/ /\ Step
       /\ base' = [c \in Peer |-> base[c] + SumFunctionOnSet(Amounts, Failed(c))]
    \/ /\ ResetRateLimits
       /\ base' = [c \in Peer |-> Position(c)]

MCSpec == MCInit /\ [][MCNext]_<<vars, base>> /\ Fairness

(* Within a period no more than the quota leaves B through a channel, apart *)
(* from what failed forwards give back: those are not undone in the flows,  *)
(* because the forwarding module is above the rate limit.                   *)
QuotaHolds == \A peer \in Peer : Position(peer) - base[peer] <= MaxSend[peer]

=============================================================================
