-------------------------- MODULE TransferPromise ---------------------------
(***************************************************************************)
(* What a transfer over IBC promises its users, however many chains it goes *)
(* through: the coins are taken from the sender, and then the receiver has  *)
(* them or the sender has them back, once and in the end.                   *)
(***************************************************************************)
EXTENDS Naturals

CONSTANTS Chain,         \* one user on each
          Amount,        \* what may be sent
          MaxTransfers   \* bound on the number of transfers

VARIABLES
    bal,     \* coins of the user of each chain
    sent,    \* the number of transfers so far
    onTheWay,\* transfers whose coins nobody has
    heldUp   \* the ids of transfers for which nothing more may happen

vars == <<bal, sent, onTheWay, heldUp>>

Transfer == [id : 1 .. MaxTransfers, sender : Chain, receiver : Chain, amt : Amount]

Init == bal \in [Chain -> Nat] /\ sent = 0 /\ onTheWay = {} /\ heldUp = {}

(* A transfer that is on the way from now on.                               *)
Send(t) ==
    /\ t \in Transfer /\ t.id = sent + 1
    /\ bal[t.sender] >= t.amt
    /\ sent' = t.id
    /\ bal' = [bal EXCEPT ![t.sender] = @ - t.amt]
    /\ onTheWay' = onTheWay \cup {t}

Settle(t, user) ==
    /\ bal' = [bal EXCEPT ![user] = @ + t.amt]
    /\ onTheWay' = onTheWay \ {t}
    /\ UNCHANGED sent

Next ==
    /\ \/ UNCHANGED <<bal, sent, onTheWay>>
       \/ \E t \in onTheWay' : Send(t)
       \/ \E t \in onTheWay : Settle(t, t.receiver) \/ Settle(t, t.sender)
    /\ heldUp' \subseteq 1 .. sent'

Travels(id) == \E t \in onTheWay : t.id = id

(* Every transfer arrives or comes back, if it is not held up.              *)
Arrives == \A id \in 1 .. MaxTransfers : Travels(id) ~> ~Travels(id) \/ id \in heldUp

Spec == Init /\ [][Next]_vars /\ Arrives
=============================================================================
