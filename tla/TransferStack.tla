--------------------------- MODULE TransferStack ----------------------------
(***************************************************************************)
(* The transfer stack of app.go: packet forwarding over fees over rate      *)
(* limit over transfer, on the middle one, B, of three chains A, B and C.   *)
(* A and C have fees over transfer, no limits, and forward nothing.  There  *)
(* is one token, whose home is any of the chains.  Fees are enabled on some *)
(* channels or on none; of them only what they do to acknowledgements.      *)
(*                                                                          *)
(* The middlewares and the transfer module are dependencies; how they are   *)
(* stacked on the way in and wired on the way out is app.go's.              *)
(***************************************************************************)
EXTENDS Integers, Sequences, FiniteSetsExt

CONSTANTS Homes,        \* where the token may come from
          FeeEnabled,   \* channels, by B's peer, that may have fees enabled
          Funds,        \* coins of the user of each chain at first
          Amount,       \* what may be sent
          MaxSend,      \* quotas of B for what leaves, by the peer it leaves to
          MaxRecv,      \* quotas of B for what comes in, by the peer
          MaxRetries,   \* bound on the retries that a sender may ask for
          MaxTransfers  \* bound on the number of transfers

Chain == {"A", "B", "C"}
Peer == {"A", "C"}
Channel == {<<"A", "B">>, <<"B", "A">>, <<"B", "C">>, <<"C", "B">>}

(* One user on each chain, and B's account for coins that are forwarded.    *)
Account == Chain \cup {"forwarder"}

ASSUME AmountAssumption ==
    /\ Homes \subseteq Chain /\ FeeEnabled \subseteq Peer
    /\ Funds \in Nat /\ MaxSend \in [Peer -> Nat] /\ MaxRecv \in [Peer -> Nat]
    /\ MaxRetries \in Nat /\ MaxTransfers \in Nat
    /\ Amount \subseteq Nat \ {0}

VARIABLES
    home,  \* where the token comes from
    fees,  \* peers whose channel with B has fees enabled
    net    \* the accounts, B's rate limits, and the packets

vars == <<home, fees, net>>

(* A packet; parent is the packet that it forwards, of which the forwarding *)
(* module keeps a record, or 0.                                             *)
Packet == [from : Chain, to : Chain, dest : Chain, amt : Amount, parent : Nat,
           retries : 0 .. MaxRetries,
           phase : {"sent", "waiting", "ok", "error", "delivered", "returned"}]

Net == [ok : BOOLEAN, bal : [Account -> Nat], escrow : [Channel -> Nat],
        flow : [Peer -> [in : Nat, out : Nat]], pending : SUBSET Nat, packets : Seq(Packet)]

(* Denomination traces: seen from the home of the token a chain further out *)
(* has vouchers, which the chain nearer to it backs by what it escrows.     *)
Distance(c) ==
    LET at == [A |-> 1, B |-> 2, C |-> 3]
    IN  IF at[c] > at[home] THEN at[c] - at[home] ELSE at[home] - at[c]

SenderChainIsSource(from, to) == Distance(to) > Distance(from)

-----------------------------------------------------------------------------
(* The transfer module.  Handlers take and return the net; those that fail  *)
(* clear ok.                                                                *)

Credit(s, who, amt) == [s EXCEPT !.bal[who] = @ + amt]

Debit(s, who, amt) == [s EXCEPT !.ok = @ /\ s.bal[who] >= amt, !.bal[who] = @ - amt]

Escrow(s, ch, amt) == [s EXCEPT !.escrow[ch] = @ + amt]

Unescrow(s, ch, amt) == [s EXCEPT !.ok = @ /\ s.escrow[ch] >= amt, !.escrow[ch] = @ - amt]

(* Coins are escrowed, or vouchers are burned.                              *)
SendTransfer(s, who, p) ==
    LET debited == Debit(s, who, p.amt)
    IN  IF SenderChainIsSource(p.from, p.to)
        THEN Escrow(debited, <<p.from, p.to>>, p.amt) ELSE debited

(* Vouchers are minted, or escrowed coins are given out.                    *)
RecvTransfer(s, who, p) ==
    LET credited == Credit(s, who, p.amt)
    IN  IF SenderChainIsSource(p.from, p.to)
        THEN credited ELSE Unescrow(credited, <<p.to, p.from>>, p.amt)

RefundTransfer(s, who, p) ==
    LET credited == Credit(s, who, p.amt)
    IN  IF SenderChainIsSource(p.from, p.to)
        THEN Unescrow(credited, <<p.from, p.to>>, p.amt) ELSE credited

-----------------------------------------------------------------------------
(* The rate limit. *)

AddOutflow(s, peer, amt) ==
    [s EXCEPT !.ok = @ /\ s.flow[peer].out - s.flow[peer].in + amt <= MaxSend[peer],
              !.flow[peer].out = @ + amt]

AddInflow(s, peer, amt) ==
    [s EXCEPT !.ok = @ /\ s.flow[peer].in - s.flow[peer].out + amt <= MaxRecv[peer],
              !.flow[peer].in = @ + amt]

(* Mutant: packets of an earlier period are undone too.                     *)
UndoAlways(s, i) ==
    LET p == s.packets[i]
    IN  [s EXCEPT !.flow[p.to].out = @ - p.amt, !.pending = @ \ {i}]

(* A packet of an earlier period is not pending any more.                   *)
Undo(s, i) ==
    LET p == s.packets[i]
    IN  IF i \in s.pending
        THEN [s EXCEPT !.flow[p.to].out = @ - p.amt, !.pending = @ \ {i}] ELSE s

-----------------------------------------------------------------------------
(* The way out: the transfer keeper's ICS4 wrapper is the rate limit, whose *)
(* wrapper is the fee keeper, whose is the channel keeper.                  *)

(* Mutant: the transfer keeper's wrapper is the fee keeper.                 *)
SendPacketUnlimited(s, p) == [s EXCEPT !.packets = Append(@, p)]

SendPacket(s, p) ==
    LET counted == [AddOutflow(s, p.to, p.amt) EXCEPT
                        !.pending = @ \cup {Len(s.packets) + 1}]
    IN  [(IF p.from = "B" THEN counted ELSE s) EXCEPT !.packets = Append(@, p)]

Transfer(s, who, p) == SendPacket(SendTransfer(s, who, p), p)

-----------------------------------------------------------------------------
(* The way in: forwarding, fees, rate limit, transfer. *)

Phase(s, i, phase) == [s EXCEPT !.packets[i].phase = phase]

(* Below the forwarding module.                                             *)
LowerOnRecvPacket(s, who, p) ==
    RecvTransfer(IF p.to = "B" THEN AddInflow(s, p.from, p.amt) ELSE s, who, p)

LowerOnTimeoutPacket(s, who, i) == RefundTransfer(Undo(s, i), who, s.packets[i])

LowerOnAcknowledgementPacket(s, i) ==
    LET p == s.packets[i]
    IN  IF p.phase = "error" THEN RefundTransfer(Undo(s, i), p.from, p)
        ELSE [s EXCEPT !.pending = @ \ {i}]

(* The coins leave at once again, with the transfer keeper that app.go      *)
(* gives to the forwarding keeper.                                          *)
ForwardTransferPacket(s, i, retries) ==
    LET p == s.packets[i]
    IN  Transfer(s, "forwarder",
            [from |-> "B", to |-> p.dest, dest |-> p.dest, amt |-> p.amt,
             parent |-> i, retries |-> retries, phase |-> "sent"])

OnRecvPacket(s, i) ==
    LET p == s.packets[i]
    IN  IF p.to # p.dest
        THEN Phase(ForwardTransferPacket(LowerOnRecvPacket(s, "forwarder", p), i, p.retries),
                   i, "waiting")
        ELSE Phase(LowerOnRecvPacket(s, p.dest, p), i, "ok")

(* Mutant: the coins stay where the forward had put them.                   *)
WriteAcknowledgementOnly(s, i, result) ==
    Phase(s, s.packets[i].parent, result)

(* A forward that failed takes its coins back to where the packet that it   *)
(* forwarded had found them, and passes the error on.  Vouchers that left   *)
(* for nearer home are minted into that escrow account, even if they had    *)
(* been minted when they came.                                              *)
WriteAcknowledgementForForwardedPacket(s, i, result) ==
    LET p      == s.packets[i]
        parent == s.packets[p.parent]
        back   == <<"B", parent.from>>
        taken  == Unescrow(s, <<"B", p.to>>, p.amt)
        undone == IF ~SenderChainIsSource("B", p.to) THEN Escrow(s, back, p.amt)
                  ELSE IF SenderChainIsSource("B", parent.from)
                       THEN Escrow(taken, back, p.amt) ELSE taken
    IN  Phase(IF result = "error" THEN undone ELSE s, p.parent, result)

(* On a channel with fees the fee middlewares wrap acknowledgements.        *)
(* Forwarding, above the fees, reads none that are wrapped, and writes its  *)
(* own straight to the channel, where the other chain expects a wrapped one.*)
Readable(p) ==
    /\ p.from = "B" => p.to \notin fees
    /\ p.to = "B" /\ p.dest # "B" => p.from \notin fees

OnAcknowledgementPacket(s, i) ==
    LET p    == s.packets[i]
        read == [s EXCEPT !.ok = @ /\ Readable(p)]
    IN  IF p.parent # 0
        THEN WriteAcknowledgementForForwardedPacket(read, i, p.phase)
        ELSE LowerOnAcknowledgementPacket(read, i)

(* Mutant: the forwarding module does not see timeouts.                     *)
OnTimeoutPacketBelow(s, i) ==
    LET p == s.packets[i]
    IN  LowerOnTimeoutPacket(s, IF p.parent # 0 THEN "forwarder" ELSE p.from, i)

(* A forward with no retries left, and app.go gives it none, fails.         *)
OnTimeoutPacket(s, i) ==
    LET p == s.packets[i]
    IN  IF p.parent = 0 THEN LowerOnTimeoutPacket(s, p.from, i)
        ELSE IF p.retries = 0 THEN WriteAcknowledgementForForwardedPacket(s, i, "error")
        ELSE ForwardTransferPacket(LowerOnTimeoutPacket(s, "forwarder", i), p.parent, p.retries - 1)

-----------------------------------------------------------------------------
Amounts == [i \in DOMAIN net.packets |-> net.packets[i].amt]

(* The coins of a chain, which are vouchers unless it is home: its users'   *)
(* and those in each of its escrow accounts.                                *)
Supply(c) ==
    net.bal[c] + (IF c = "B" THEN net.bal["forwarder"] ELSE 0)
    + SumFunctionOnSet(net.escrow, {ch \in Channel : ch[1] = c})

(* What a chain has minted for transfers from home that it should send      *)
(* right back, when that failed: the sender at home has the coins again.    *)
Stranded(c) ==
    SumFunctionOnSet(Amounts,
        {i \in DOMAIN net.packets :
            LET p == net.packets[i]
            IN  /\ p.from = home /\ p.to = c /\ p.dest = home
                /\ p.phase \in {"error", "returned"}
                /\ \E j \in DOMAIN net.packets : net.packets[j].parent = i})

(* The transfers that were made before: every user has coins.               *)
Init ==
    /\ home \in Homes /\ fees \in SUBSET FeeEnabled
    /\ net = [ok |-> TRUE, bal |-> [a \in Account |-> IF a = "forwarder" THEN 0 ELSE Funds],
              escrow |-> [ch \in Channel |->
                  IF ~SenderChainIsSource(ch[1], ch[2]) THEN 0
                  ELSE IF "B" \in {home, ch[1]} THEN Funds ELSE 2 * Funds],
              flow |-> [c \in Peer |-> [in |-> 0, out |-> 0]],
              pending |-> {}, packets |-> <<>>]

Roots == {i \in DOMAIN net.packets : net.packets[i].parent = 0}

(* A message of a user: a transfer over one channel, with or without a      *)
(* memo that asks B to forward it, be it back to where it comes from.       *)
MsgTransfer ==
    \E ch \in Channel, dest \in Chain, amt \in Amount, retries \in 0 .. MaxRetries :
        LET sent == Transfer(net, ch[1],
                        [from |-> ch[1], to |-> ch[2], dest |-> dest, amt |-> amt,
                         parent |-> 0, retries |-> retries, phase |-> "sent"])
        IN  /\ dest = ch[2] \/ (ch[2] = "B" /\ dest # "B")
            /\ dest = ch[2] => retries = 0
            /\ Cardinality(Roots) < MaxTransfers
            /\ sent.ok
            /\ net' = sent
            /\ UNCHANGED <<home, fees>>

(* A relayer brings a packet.  What fails changes nothing but the           *)
(* acknowledgement; a receiver may not be able to have coins at all.        *)
MsgRecvPacket(i) ==
    /\ net.packets[i].phase = "sent"
    /\ LET received == OnRecvPacket(net, i)
       IN  \/ received.ok /\ net' = received
           \/ /\ received.ok => net.packets[i].to = net.packets[i].dest
              /\ net' = Phase(net, i, "error")
    /\ UNCHANGED <<home, fees>>

(* A message whose handler fails is not executed, and may be sent again.    *)
Handled(i, s) ==
    /\ s.ok
    /\ net' = Phase(s, i, IF net.packets[i].phase = "ok" THEN "delivered" ELSE "returned")
    /\ UNCHANGED <<home, fees>>

MsgAcknowledgement(i) ==
    /\ net.packets[i].phase \in {"ok", "error"}
    /\ Handled(i, OnAcknowledgementPacket(net, i))

(* The clock of the receiving chain has passed the packet's timeout before  *)
(* anybody brought the packet.                                              *)
MsgTimeout(i) ==
    /\ net.packets[i].phase = "sent"
    /\ Handled(i, OnTimeoutPacket(net, i))

(* B's begin-blocker starts the flows again at the end of a period, which is *)
(* the same for both channels.                                              *)
ResetRateLimits ==
    /\ net' = [net EXCEPT !.flow = [c \in Peer |-> [in |-> 0, out |-> 0]], !.pending = {}]
    /\ UNCHANGED <<home, fees>>

Step ==
    \/ MsgTransfer
    \/ \E i \in DOMAIN net.packets :
           MsgRecvPacket(i) \/ MsgAcknowledgement(i) \/ MsgTimeout(i)

Next == Step \/ ResetRateLimits

(* Relayers bring acknowledgements and timeouts, and periods end; packets   *)
(* may be left undelivered.                                                 *)
Relayed == \E i \in DOMAIN net.packets : MsgAcknowledgement(i) \/ MsgTimeout(i)

Fairness == WF_vars(Relayed) /\ WF_vars(ResetRateLimits)

Spec == Init /\ [][Next]_vars

FairSpec == Spec /\ Fairness

-----------------------------------------------------------------------------
(* Properties. *)

(* Nobody owes coins, no flow is negative, and no handler's failure stays.  *)
TypeOK ==
    /\ home \in Homes /\ fees \subseteq FeeEnabled /\ net \in Net /\ net.ok

(* Vouchers are backed: what a chain has escrowed is what the chain further *)
(* out has issued, and what is on its way between them, through all         *)
(* failures of forwards and their refunds.  The exception: what is minted   *)
(* for transfers that came from home and fail on their way back, all of     *)
(* which stays in an escrow account that no handler pays anything from.     *)
Backed ==
    \A ch \in Channel :
        LET InTransit == {i \in DOMAIN net.packets :
                              /\ {net.packets[i].from, net.packets[i].to} = {ch[1], ch[2]}
                              /\ net.packets[i].phase \in {"sent", "error"}}
        IN  IF SenderChainIsSource(ch[1], ch[2])
            THEN net.escrow[ch] + Stranded(ch[2])
                     = Supply(ch[2]) + SumFunctionOnSet(Amounts, InTransit)
            ELSE net.escrow[ch] = Stranded(ch[1])

(* Every transfer arrives once or comes back, never both, and in the end    *)
(* does, whatever hop is late or fails: TransferPromise, of the users'      *)
(* balances and the transfers that are neither paid nor returned.  The      *)
(* exceptions: an acknowledgement that cannot be read, and a forward above  *)
(* the whole quota, let out when coins had come in, that is to be retried.  *)
Paid(i) ==
    \E j \in DOMAIN net.packets :
        LET p == net.packets[j]
        IN  /\ j = i \/ p.parent = i
            /\ p.to = net.packets[i].dest /\ p.phase \in {"ok", "delivered"}

Id(i) == Cardinality({j \in Roots : j <= i})

OnTheWay ==
    {[id |-> Id(i), sender |-> net.packets[i].from,
      receiver |-> net.packets[i].dest, amt |-> net.packets[i].amt] :
        i \in {i \in Roots : ~Paid(i) /\ net.packets[i].phase # "returned"}}

Stuck(p) ==
    \/ p.phase \in {"ok", "error"} /\ ~Readable(p)
    \/ p.phase = "sent" /\ p.parent # 0 /\ p.retries > 0 /\ p.amt > MaxSend[p.to]

HeldUp ==
    {Id(i) : i \in {i \in Roots : \E j \in DOMAIN net.packets :
        (j = i \/ net.packets[j].parent = i) /\ Stuck(net.packets[j])}}

Promise == INSTANCE TransferPromise WITH
    bal <- [c \in Chain |-> net.bal[c]],
    sent <- Cardinality(Roots),
    onTheWay <- OnTheWay, heldUp <- HeldUp

Promised == Promise!Spec
=============================================================================
