------------------------ MODULE TransferStack_proofs -------------------------
(***************************************************************************)
(* Proofs about TransferStack: for any home of the token, any fees, funds,  *)
(* amounts, quotas and retries, and any number of transfers.                *)
(***************************************************************************)
EXTENDS MCTransferStack, SumTheorems, SequenceTheorems

(* A handler clears ok and goes on: until then, accounts may be below zero. *)
Net0 == [ok : BOOLEAN, bal : [Account -> Int], escrow : [Channel -> Int],
         flow : [Peer -> [in : Int, out : Int]], pending : SUBSET Nat,
         packets : Seq(Packet)]

(* Nobody owes coins.                                                       *)
Solvent(s) ==
    /\ \A a \in Account : s.bal[a] >= 0
    /\ \A ch \in Channel : s.escrow[ch] >= 0

(* Where the coins of the accounts of a chain are.                          *)
Accounts(c) == IF c = "B" THEN {"B", "forwarder"} ELSE {c}

(* t is s with other accounts and flows.                                    *)
Is(t, s, b, e, f) ==
    /\ t \in Net0 /\ t.bal = b /\ t.escrow = e /\ t.flow = f
    /\ t.pending = s.pending /\ t.packets = s.packets

(* A packet between neighbours.                                             *)
Hop(p) == p \in Packet /\ <<p.from, p.to>> \in Channel

-----------------------------------------------------------------------------
(* The constants and the chains. *)

LEMMA Constants ==
    /\ Amount \subseteq Nat /\ Amount \subseteq Int /\ 0 \notin Amount
    /\ MaxRetries \in Nat /\ Funds \in Nat
    /\ MaxSend \in [Peer -> Nat] /\ MaxRecv \in [Peer -> Nat]
    /\ Homes \subseteq Chain
BY AmountAssumption

(* Which of two neighbours is further out.                                  *)
LEMMA Directions ==
    ASSUME home \in Chain
    PROVE  /\ SenderChainIsSource("A", "B") <=> home = "A"
           /\ SenderChainIsSource("B", "A") <=> home # "A"
           /\ SenderChainIsSource("C", "B") <=> home = "C"
           /\ SenderChainIsSource("B", "C") <=> home # "C"
<1>1. CASE home = "A"
  BY <1>1 DEF SenderChainIsSource, Distance
<1>2. CASE home = "B"
  BY <1>2 DEF SenderChainIsSource, Distance
<1>3. CASE home = "C"
  BY <1>3 DEF SenderChainIsSource, Distance
<1> QED
  BY <1>1, <1>2, <1>3 DEF Chain

-----------------------------------------------------------------------------
(* What the steps of the handlers do: a record with new fields is one       *)
(* lemma, what the new fields are another.                                  *)

LEMMA WithBal ==
    ASSUME NEW s \in Net0, NEW b \in [Account -> Int]
    PROVE  /\ Is([s EXCEPT !.bal = b], s, b, s.escrow, s.flow)
           /\ [s EXCEPT !.bal = b].ok = s.ok
BY DEF Net0, Is

LEMMA WithEscrow ==
    ASSUME NEW s \in Net0, NEW e \in [Channel -> Int]
    PROVE  /\ Is([s EXCEPT !.escrow = e], s, s.bal, e, s.flow)
           /\ [s EXCEPT !.escrow = e].ok = s.ok
BY DEF Net0, Is

LEMMA CreditIs ==
    ASSUME NEW s \in Net0, NEW who \in Account, NEW amt \in Int
    PROVE  /\ Is(Credit(s, who, amt), s, [s.bal EXCEPT ![who] = @ + amt], s.escrow, s.flow)
           /\ Credit(s, who, amt).ok = s.ok
<1> DEFINE b == [s.bal EXCEPT ![who] = @ + amt]
<1>1. b \in [Account -> Int]
  BY DEF Net0
<1>2. Credit(s, who, amt) = [s EXCEPT !.bal = b]
  BY DEF Credit
<1> HIDE DEF b
<1> QED
  BY <1>1, <1>2, WithBal DEF b

LEMMA DebitIs ==
    ASSUME NEW s \in Net0, NEW who \in Account, NEW amt \in Int
    PROVE  /\ Is(Debit(s, who, amt), s, [s.bal EXCEPT ![who] = @ - amt], s.escrow, s.flow)
           /\ Debit(s, who, amt).ok => s.ok /\ s.bal[who] >= amt
<1> DEFINE b == [s.bal EXCEPT ![who] = @ - amt]
           o == s.ok /\ s.bal[who] >= amt
<1>1. b \in [Account -> Int] /\ o \in BOOLEAN
  BY DEF Net0
<1>2. Debit(s, who, amt) = [s EXCEPT !.ok = o, !.bal = b]
  BY DEF Debit
<1>3. o => s.ok /\ s.bal[who] >= amt
  OBVIOUS
<1> HIDE DEF b, o
<1>4. Is([s EXCEPT !.ok = o, !.bal = b], s, b, s.escrow, s.flow) /\ [s EXCEPT !.ok = o, !.bal = b].ok = o
  BY <1>1 DEF Net0, Is
<1>5. Debit(s, who, amt).ok => s.ok /\ s.bal[who] >= amt
  BY <1>2, <1>3, <1>4
<1> QED
  BY <1>2, <1>4, <1>5 DEF b

LEMMA EscrowIs ==
    ASSUME NEW s \in Net0, NEW ch \in Channel, NEW amt \in Int
    PROVE  /\ Is(Escrow(s, ch, amt), s, s.bal, [s.escrow EXCEPT ![ch] = @ + amt], s.flow)
           /\ Escrow(s, ch, amt).ok = s.ok
<1> DEFINE e == [s.escrow EXCEPT ![ch] = @ + amt]
<1>1. e \in [Channel -> Int]
  BY DEF Net0
<1>2. Escrow(s, ch, amt) = [s EXCEPT !.escrow = e]
  BY DEF Escrow
<1> HIDE DEF e
<1> QED
  BY <1>1, <1>2, WithEscrow DEF e

LEMMA UnescrowIs ==
    ASSUME NEW s \in Net0, NEW ch \in Channel, NEW amt \in Int
    PROVE  /\ Is(Unescrow(s, ch, amt), s, s.bal, [s.escrow EXCEPT ![ch] = @ - amt], s.flow)
           /\ Unescrow(s, ch, amt).ok => s.ok /\ s.escrow[ch] >= amt
<1> DEFINE e == [s.escrow EXCEPT ![ch] = @ - amt]
           o == s.ok /\ s.escrow[ch] >= amt
<1>1. e \in [Channel -> Int] /\ o \in BOOLEAN
  BY DEF Net0
<1>2. Unescrow(s, ch, amt) = [s EXCEPT !.ok = o, !.escrow = e]
  BY DEF Unescrow
<1>3. o => s.ok /\ s.escrow[ch] >= amt
  OBVIOUS
<1> HIDE DEF e, o
<1>4. Is([s EXCEPT !.ok = o, !.escrow = e], s, s.bal, e, s.flow) /\ [s EXCEPT !.ok = o, !.escrow = e].ok = o
  BY <1>1 DEF Net0, Is
<1>5. Unescrow(s, ch, amt).ok => s.ok /\ s.escrow[ch] >= amt
  BY <1>2, <1>3, <1>4
<1> QED
  BY <1>2, <1>4, <1>5 DEF e

LEMMA AddOutflowIs ==
    ASSUME NEW s \in Net0, NEW peer \in Peer, NEW amt \in Int
    PROVE  /\ Is(AddOutflow(s, peer, amt), s, s.bal, s.escrow, [s.flow EXCEPT ![peer].out = @ + amt])
           /\ AddOutflow(s, peer, amt).ok => s.ok /\ s.flow[peer].out - s.flow[peer].in + amt <= MaxSend[peer]
<1> DEFINE f == [s.flow EXCEPT ![peer].out = @ + amt]
           o == s.ok /\ s.flow[peer].out - s.flow[peer].in + amt <= MaxSend[peer]
<1>1. f \in [Peer -> [in : Int, out : Int]] /\ o \in BOOLEAN
  <2>1. s.flow[peer] \in [in : Int, out : Int]
    BY DEF Net0
  <2>2. [s.flow[peer] EXCEPT !.out = @ + amt] \in [in : Int, out : Int]
    BY <2>1
  <2> QED
    BY <2>2 DEF Net0
<1>2. AddOutflow(s, peer, amt) = [s EXCEPT !.ok = o, !.flow = f]
  BY DEF AddOutflow
<1>3. o => s.ok /\ s.flow[peer].out - s.flow[peer].in + amt <= MaxSend[peer]
  OBVIOUS
<1> HIDE DEF f, o
<1>4. Is([s EXCEPT !.ok = o, !.flow = f], s, s.bal, s.escrow, f) /\ [s EXCEPT !.ok = o, !.flow = f].ok = o
  BY <1>1 DEF Net0, Is
<1>5. AddOutflow(s, peer, amt).ok => s.ok /\ s.flow[peer].out - s.flow[peer].in + amt <= MaxSend[peer]
  BY <1>2, <1>3, <1>4
<1> QED
  BY <1>2, <1>4, <1>5 DEF f

LEMMA AddInflowIs ==
    ASSUME NEW s \in Net0, NEW peer \in Peer, NEW amt \in Int
    PROVE  /\ Is(AddInflow(s, peer, amt), s, s.bal, s.escrow, [s.flow EXCEPT ![peer].in = @ + amt])
           /\ AddInflow(s, peer, amt).ok => s.ok
<1> DEFINE f == [s.flow EXCEPT ![peer].in = @ + amt]
           o == s.ok /\ s.flow[peer].in - s.flow[peer].out + amt <= MaxRecv[peer]
<1>1. f \in [Peer -> [in : Int, out : Int]] /\ o \in BOOLEAN
  <2>1. s.flow[peer] \in [in : Int, out : Int]
    BY DEF Net0
  <2>2. [s.flow[peer] EXCEPT !.in = @ + amt] \in [in : Int, out : Int]
    BY <2>1
  <2> QED
    BY <2>2 DEF Net0
<1>2. AddInflow(s, peer, amt) = [s EXCEPT !.ok = o, !.flow = f]
  BY DEF AddInflow
<1>3. o => s.ok
  OBVIOUS
<1> HIDE DEF f, o
<1>4. Is([s EXCEPT !.ok = o, !.flow = f], s, s.bal, s.escrow, f) /\ [s EXCEPT !.ok = o, !.flow = f].ok = o
  BY <1>1 DEF Net0, Is
<1>5. AddInflow(s, peer, amt).ok => s.ok
  BY <1>2, <1>3, <1>4
<1> QED
  BY <1>2, <1>4, <1>5 DEF f

LEMMA PacketIs ==
    ASSUME NEW s \in Net0, NEW i \in DOMAIN s.packets
    PROVE  /\ s.packets[i] \in Packet
           /\ s.packets[i].amt \in Int /\ s.packets[i].amt > 0 /\ s.packets[i].amt \in Amount
           /\ s.packets[i].retries \in 0 .. MaxRetries /\ s.packets[i].parent \in Nat
           /\ i \in Nat /\ i # 0
<1>1. s.packets \in Seq(Packet) /\ i \in 1 .. Len(s.packets)
  BY DEF Net0
<1>2. s.packets[i] \in Packet
  BY <1>1, ElementOfSeq
<1>3. /\ s.packets[i].amt \in Amount /\ s.packets[i].parent \in Nat
      /\ s.packets[i].retries \in 0 .. MaxRetries
  BY <1>2 DEF Packet
<1>4. \A a \in Amount : a \in Int /\ a > 0
  BY AmountAssumption
<1> QED
  BY <1>1, <1>2, <1>3, <1>4

LEMMA UndoIs ==
    ASSUME NEW s \in Net0, NEW i \in DOMAIN s.packets,
           i \in s.pending => s.packets[i].to \in Peer
    PROVE  LET t == Undo(s, i)
           IN  /\ t \in Net0 /\ t.ok = s.ok /\ t.bal = s.bal /\ t.escrow = s.escrow
               /\ t.packets = s.packets /\ t.pending = s.pending \ {i}
               /\ t.flow = IF i \in s.pending
                           THEN [s.flow EXCEPT ![s.packets[i].to].out = @ - s.packets[i].amt]
                           ELSE s.flow
<1> DEFINE p == s.packets[i]
           f == [s.flow EXCEPT ![p.to].out = @ - p.amt]
<1>1. p.amt \in Int
  BY PacketIs
<1>2. CASE i \in s.pending
  <2>1. s.flow[p.to] \in [in : Int, out : Int]
    BY <1>2 DEF Net0
  <2>2. [s.flow[p.to] EXCEPT !.out = @ - p.amt] \in [in : Int, out : Int]
    BY <1>1, <2>1
  <2>3. f \in [Peer -> [in : Int, out : Int]]
    BY <2>2 DEF Net0
  <2>4. Undo(s, i) = [s EXCEPT !.flow = f, !.pending = @ \ {i}]
    BY <1>2 DEF Undo
  <2> HIDE DEF f
  <2>5. LET t == [s EXCEPT !.flow = f, !.pending = @ \ {i}]
        IN  /\ t \in Net0 /\ t.ok = s.ok /\ t.bal = s.bal /\ t.escrow = s.escrow
            /\ t.packets = s.packets /\ t.pending = s.pending \ {i} /\ t.flow = f
    BY <2>3 DEF Net0
  <2> QED
    BY <1>2, <2>4, <2>5 DEF f
<1>3. CASE i \notin s.pending
  BY <1>3 DEF Undo
<1> QED
  BY <1>2, <1>3

(* The packets are the same, but for what happened to packet i.             *)
Rephased(q, r, i, phase) ==
    /\ r \in Seq(Packet) /\ DOMAIN r = DOMAIN q /\ Len(r) = Len(q)
    /\ r[i] = [q[i] EXCEPT !.phase = phase]
    /\ \A j \in DOMAIN q : j # i => r[j] = q[j]

LEMMA PhaseIs ==
    ASSUME NEW s \in Net0, NEW i \in DOMAIN s.packets,
           NEW phase \in {"sent", "waiting", "ok", "error", "delivered", "returned"}
    PROVE  LET t == Phase(s, i, phase)
           IN  /\ t \in Net0 /\ t.ok = s.ok /\ t.bal = s.bal /\ t.escrow = s.escrow
               /\ t.flow = s.flow /\ t.pending = s.pending
               /\ Rephased(s.packets, t.packets, i, phase)
<1> DEFINE q == [s.packets EXCEPT ![i].phase = phase]
           t == [s EXCEPT !.packets = q]
<1>1. s.packets \in Seq(Packet) /\ s.packets[i] \in Packet
  BY DEF Net0
<1>2. [s.packets[i] EXCEPT !.phase = phase] \in Packet
  BY <1>1 DEF Packet
<1>3. q \in Seq(Packet) /\ Rephased(s.packets, q, i, phase)
  BY <1>1, <1>2, ExceptSeq DEF Rephased
<1>4. Phase(s, i, phase) = t
  BY DEF Phase
<1> HIDE DEF q
<1>5. /\ t \in Net0 /\ t.ok = s.ok /\ t.bal = s.bal /\ t.escrow = s.escrow
      /\ t.flow = s.flow /\ t.pending = s.pending /\ t.packets = q
  BY <1>3 DEF Net0
<1> HIDE DEF t
<1> QED
  BY <1>3, <1>4, <1>5 DEF Is

LEMMA SendPacketIs ==
    ASSUME NEW s \in Net0, NEW p, Hop(p)
    PROVE  LET t == SendPacket(s, p)
           IN  /\ t \in Net0 /\ t.bal = s.bal /\ t.escrow = s.escrow
               /\ t.ok => s.ok
               /\ t.ok /\ p.from = "B" =>
                      s.flow[p.to].out - s.flow[p.to].in + p.amt <= MaxSend[p.to]
               /\ t.packets = Append(s.packets, p)
               /\ t.pending = IF p.from = "B" THEN s.pending \cup {Len(s.packets) + 1}
                              ELSE s.pending
               /\ t.flow = IF p.from = "B" THEN [s.flow EXCEPT ![p.to].out = @ + p.amt]
                           ELSE s.flow
<1>1. p \in Packet /\ p.amt \in Int
  BY Constants DEF Hop, Packet
<1>2. Append(s.packets, p) \in Seq(Packet) /\ Len(s.packets) + 1 \in Nat
  BY <1>1 DEF Net0
<1>3. CASE p.from = "B"
  <2> DEFINE u == AddOutflow(s, p.to, p.amt)
             n == s.pending \cup {Len(s.packets) + 1}
             q == Append(s.packets, p)
  <2>1. p.to \in Peer
    BY <1>3 DEF Hop, Channel, Peer
  <2>2. /\ Is(u, s, s.bal, s.escrow, [s.flow EXCEPT ![p.to].out = @ + p.amt])
        /\ u.ok => s.ok /\ s.flow[p.to].out - s.flow[p.to].in + p.amt <= MaxSend[p.to]
    BY <1>1, <2>1, AddOutflowIs
  <2>3. SendPacket(s, p) = [[u EXCEPT !.pending = n] EXCEPT !.packets = q]
    <3>1. u.pending = s.pending /\ u.packets = s.packets
      BY <2>2 DEF Is
    <3>2. DOMAIN u = {"ok", "bal", "escrow", "flow", "pending", "packets"}
      BY <2>2 DEF Is, Net0
    <3> QED
      BY <1>3, <3>1, <3>2 DEF SendPacket
  <2>4. n \in SUBSET Nat /\ u \in Net0
    BY <1>2, <2>2 DEF Net0, Is
  <2> HIDE DEF u, n, q
  <2>5. LET t == [[u EXCEPT !.pending = n] EXCEPT !.packets = q]
        IN  /\ t \in Net0 /\ t.ok = u.ok /\ t.bal = u.bal /\ t.escrow = u.escrow
            /\ t.flow = u.flow /\ t.pending = n /\ t.packets = q
    BY <1>2, <2>4 DEF Net0, q
  <2> QED
    BY <1>3, <2>2, <2>3, <2>5 DEF Is, n, q
<1>4. CASE p.from # "B"
  <2> DEFINE q == Append(s.packets, p)
  <2>1. SendPacket(s, p) = [s EXCEPT !.packets = q]
    BY <1>4 DEF SendPacket
  <2> HIDE DEF q
  <2>2. LET t == [s EXCEPT !.packets = q]
        IN  /\ t \in Net0 /\ t.ok = s.ok /\ t.bal = s.bal /\ t.escrow = s.escrow
            /\ t.flow = s.flow /\ t.pending = s.pending /\ t.packets = q
    BY <1>2 DEF Net0, q
  <2> QED
    BY <1>4, <2>1, <2>2 DEF q
<1> QED
  BY <1>3, <1>4

-----------------------------------------------------------------------------
(* What the handlers of the transfer module do to the ledger: Ledger(s, c)  *)
(* is what is escrowed on the channel of B and c, less what is issued       *)
(* there for it.                                                            *)

Ledger(s, c) ==
    IF home = c
    THEN s.escrow[<<c, "B">>] - s.bal["B"] - s.bal["forwarder"]
             - s.escrow[<<"B", IF c = "A" THEN "C" ELSE "A">>]
    ELSE s.escrow[<<"B", c>>] - s.bal[c]

(* What a packet carries on the channel of B and c.                         *)
Carried(p, c) == IF c \in {p.from, p.to} THEN p.amt ELSE 0

(* What has gone out from B to c and not come back.                         *)
Out(s, c) ==
    IF home = c
    THEN - (s.bal["B"] + s.bal["forwarder"] + s.escrow[<<"B", IF c = "A" THEN "C" ELSE "A">>])
    ELSE s.escrow[<<"B", c>>]

(* The same packets and flows, and nothing below zero that was not.         *)
Moved(s, t) ==
    /\ t \in Net0 /\ t.flow = s.flow /\ t.pending = s.pending /\ t.packets = s.packets
    /\ t.ok => s.ok
    /\ t.ok /\ Solvent(s) => Solvent(t)

LEMMA Channels ==
    /\ Channel = {<<"A", "B">>, <<"B", "A">>, <<"B", "C">>, <<"C", "B">>}
    /\ Account = {"A", "B", "C", "forwarder"} /\ Peer = {"A", "C"} /\ Chain = {"A", "B", "C"}
BY DEF Channel, Account, Peer, Chain

(* A movement of b coins into an account of x, which is B or its peer c:    *)
(* out of escrow if x is the nearer one, newly issued if not.               *)
Source(c) == IF home = c THEN <<c, "B">> ELSE <<"B", c>>

Shift(s, t, c, x, who, b) ==
    /\ t.bal = [s.bal EXCEPT ![who] = @ + b]
    /\ t.escrow = IF (home = c) <=> (x = c)
                  THEN [s.escrow EXCEPT ![Source(c)] = @ - b] ELSE s.escrow

LEMMA Coins ==
    ASSUME NEW s \in Net0
    PROVE  /\ \A a \in {"A", "B", "C", "forwarder"} : s.bal[a] \in Int
           /\ \A ch \in {<<"A", "B">>, <<"B", "A">>, <<"B", "C">>, <<"C", "B">>} :
                  s.escrow[ch] \in Int
           /\ DOMAIN s.bal = {"A", "B", "C", "forwarder"}
           /\ DOMAIN s.escrow = {<<"A", "B">>, <<"B", "A">>, <<"B", "C">>, <<"C", "B">>}
BY Channels DEF Net0

LEMMA LedgerType ==
    ASSUME NEW s \in Net0, home \in Chain, NEW c \in Peer
    PROVE  Ledger(s, c) \in Int /\ Out(s, c) \in Int
<1>1. CASE c = "A"
  BY <1>1, Coins DEF Ledger, Out
<1>2. CASE c = "C"
  BY <1>2, Coins DEF Ledger, Out
<1> QED
  BY <1>1, <1>2 DEF Peer

LEMMA ShiftLedger ==
    ASSUME NEW s \in Net0, NEW t \in Net0, home \in Chain, NEW c \in Peer, NEW x \in {"B", c},
           NEW who \in Accounts(x), NEW b \in Int, Shift(s, t, c, x, who, b), NEW d \in Peer
    PROVE  /\ Ledger(t, d) = Ledger(s, d) - IF d = c THEN b ELSE 0
           /\ Out(t, d) = Out(s, d) - IF d = c /\ x = "B" THEN b ELSE 0
<1>1. CASE c = "A"
  <2>1. CASE x = "B"
    BY <1>1, Coins, <2>1 DEF Shift, Ledger, Out, Source, Accounts, Peer, Chain
  <2>2. CASE x = c
    BY <1>1, Coins, <2>2 DEF Shift, Ledger, Out, Source, Accounts, Peer, Chain
  <2> QED
    BY <2>1, <2>2
<1>2. CASE c = "C"
  <2>1. CASE x = "B"
    BY <1>2, Coins, <2>1 DEF Shift, Ledger, Out, Source, Accounts, Peer, Chain
  <2>2. CASE x = c
    BY <1>2, Coins, <2>2 DEF Shift, Ledger, Out, Source, Accounts, Peer, Chain
  <2> QED
    BY <2>1, <2>2
<1> QED
  BY <1>1, <1>2 DEF Peer

(* The peer of B on whose channel a packet is.                              *)
PeerOf(p) == IF p.from = "B" THEN p.to ELSE p.from

LEMMA HopIs ==
    ASSUME NEW p, Hop(p), home \in Chain
    PROVE  /\ p \in Packet /\ p.amt \in Int /\ p.amt > 0
           /\ PeerOf(p) \in Peer
           /\ p.from \in {"B", PeerOf(p)} /\ p.to \in {"B", PeerOf(p)} /\ p.from # p.to
           /\ SenderChainIsSource(p.from, p.to) <=> ((home = PeerOf(p)) <=> (p.from = PeerOf(p)))
           /\ SenderChainIsSource(p.from, p.to) => <<p.from, p.to>> = Source(PeerOf(p))
           /\ ~SenderChainIsSource(p.from, p.to) => <<p.to, p.from>> = Source(PeerOf(p))
           /\ Source(PeerOf(p)) \in Channel
           /\ \A c \in Peer : Carried(p, c) = IF c = PeerOf(p) THEN p.amt ELSE 0
<1>1. p \in Packet /\ p.amt \in Int /\ p.amt > 0
  <2>1. p.amt \in Amount
    BY DEF Hop, Packet
  <2>2. \A a \in Amount : a \in Int /\ a > 0
    BY AmountAssumption
  <2> QED
    BY <2>1, <2>2 DEF Hop
<1>2. CASE p.from = "A" /\ p.to = "B"
  BY <1>1, <1>2, Directions DEF PeerOf, Peer, Source, Channel, Carried
<1>3. CASE p.from = "B" /\ p.to = "A"
  BY <1>1, <1>3, Directions DEF PeerOf, Peer, Source, Channel, Carried
<1>4. CASE p.from = "B" /\ p.to = "C"
  BY <1>1, <1>4, Directions DEF PeerOf, Peer, Source, Channel, Carried
<1>5. CASE p.from = "C" /\ p.to = "B"
  BY <1>1, <1>5, Directions DEF PeerOf, Peer, Source, Channel, Carried
<1> QED
  BY <1>2, <1>3, <1>4, <1>5 DEF Hop, Channel

LEMMA AccountsIs ==
    ASSUME NEW c \in Chain
    PROVE  Accounts(c) \subseteq Account /\ c \in Accounts(c) /\ "forwarder" \in Accounts("B")
BY DEF Accounts, Account, Chain

LEMMA SendTransferIs ==
    ASSUME NEW s \in Net0, home \in Chain, NEW p, Hop(p), NEW who \in Accounts(p.from)
    PROVE  LET t == SendTransfer(s, who, p)
           IN  /\ Moved(s, t)
               /\ \A c \in Peer : /\ Ledger(t, c) = Ledger(s, c) + Carried(p, c)
                                  /\ Out(t, c) = Out(s, c) + IF p.to = c THEN p.amt ELSE 0
<1> DEFINE d == Debit(s, who, p.amt)
           t == SendTransfer(s, who, p)
           c == PeerOf(p)
           a == - p.amt
<1>1. /\ p.amt \in Int /\ p.amt > 0 /\ who \in Account /\ <<p.from, p.to>> \in Channel
      /\ p.from \in Chain /\ p.to \in Chain
  BY HopIs, AccountsIs DEF Hop, Packet
<1>2. /\ Is(d, s, [s.bal EXCEPT ![who] = @ - p.amt], s.escrow, s.flow)
      /\ d.ok => s.ok /\ s.bal[who] >= p.amt
  BY <1>1, DebitIs
<1>3. d \in Net0
  BY <1>2 DEF Is
<1>4. s.bal \in [Account -> Int] /\ s.escrow \in [Channel -> Int]
  BY DEF Net0
<1>5. [s.bal EXCEPT ![who] = @ - p.amt] = [s.bal EXCEPT ![who] = @ + a]
  BY <1>1, <1>4
<1>6. Moved(s, t) /\ Shift(s, t, c, p.from, who, a)
  <2>1. CASE SenderChainIsSource(p.from, p.to)
    <3>1. t = Escrow(d, <<p.from, p.to>>, p.amt)
      BY <2>1 DEF SendTransfer
    <3>2. /\ Is(t, d, d.bal, [d.escrow EXCEPT ![<<p.from, p.to>>] = @ + p.amt], d.flow)
          /\ t.ok = d.ok
      BY <1>1, <1>3, <3>1, EscrowIs
    <3>3. [s.escrow EXCEPT ![<<p.from, p.to>>] = @ + p.amt] = [s.escrow EXCEPT ![Source(c)] = @ - a]
      BY <1>1, <1>4, <2>1, HopIs
    <3>4. Shift(s, t, c, p.from, who, a)
      BY <1>2, <1>5, <2>1, <3>2, <3>3, HopIs DEF Is, Shift
    <3>5. Moved(s, t)
      BY <1>1, <1>2, <1>4, <3>2 DEF Is, Moved, Solvent
    <3> QED
      BY <3>4, <3>5
  <2>2. CASE ~SenderChainIsSource(p.from, p.to)
    <3>1. t = d
      BY <2>2 DEF SendTransfer
    <3>2. Shift(s, t, c, p.from, who, a)
      BY <1>2, <1>5, <2>2, <3>1, HopIs DEF Is, Shift
    <3>3. Moved(s, t)
      BY <1>1, <1>2, <1>4, <3>1 DEF Is, Moved, Solvent
    <3> QED
      BY <3>2, <3>3
  <2> QED
    BY <2>1, <2>2
<1>7. /\ t \in Net0 /\ c \in Peer /\ p.from \in {"B", c} /\ a \in Int /\ p.from # p.to
      /\ p.to \in {"B", c} /\ \A e \in Peer : Carried(p, e) = IF e = c THEN p.amt ELSE 0
  BY <1>1, <1>6, HopIs DEF Moved
<1> HIDE DEF t, c, a
<1>8. ASSUME NEW e \in Peer
      PROVE  /\ Ledger(t, e) = Ledger(s, e) - IF e = c THEN a ELSE 0
             /\ Out(t, e) = Out(s, e) - IF e = c /\ p.from = "B" THEN a ELSE 0
             /\ Ledger(s, e) \in Int /\ Out(s, e) \in Int
  BY <1>6, <1>7, ShiftLedger, LedgerType
<1>9. ASSUME NEW e \in Peer
      PROVE  /\ Ledger(t, e) = Ledger(s, e) + Carried(p, e)
             /\ Out(t, e) = Out(s, e) + IF p.to = e THEN p.amt ELSE 0
  BY <1>1, <1>7, <1>8 DEF a, Peer
<1> QED
  BY <1>6, <1>9 DEF t

LEMMA RecvTransferIs ==
    ASSUME NEW s \in Net0, home \in Chain, NEW p, Hop(p), NEW who \in Accounts(p.to)
    PROVE  LET t == RecvTransfer(s, who, p)
           IN  /\ Moved(s, t)
               /\ \A c \in Peer : /\ Ledger(t, c) = Ledger(s, c) - Carried(p, c)
                                  /\ Out(t, c) = Out(s, c) - IF p.from = c THEN p.amt ELSE 0
<1> DEFINE d == Credit(s, who, p.amt)
           t == RecvTransfer(s, who, p)
           c == PeerOf(p)
<1>1. /\ p.amt \in Int /\ p.amt > 0 /\ who \in Account
      /\ <<p.from, p.to>> \in Channel /\ <<p.to, p.from>> \in Channel
      /\ p.from \in Chain /\ p.to \in Chain
  BY HopIs, AccountsIs DEF Hop, Packet, Channel
<1>2. Is(d, s, [s.bal EXCEPT ![who] = @ + p.amt], s.escrow, s.flow) /\ d.ok = s.ok
  BY <1>1, CreditIs
<1>3. d \in Net0
  BY <1>2 DEF Is
<1>4. s.bal \in [Account -> Int] /\ s.escrow \in [Channel -> Int]
  BY DEF Net0
<1>5. Moved(s, t) /\ Shift(s, t, c, p.to, who, p.amt)
  <2>1. CASE ~SenderChainIsSource(p.from, p.to)
    <3>1. t = Unescrow(d, <<p.to, p.from>>, p.amt)
      BY <2>1 DEF RecvTransfer
    <3>2. /\ Is(t, d, d.bal, [d.escrow EXCEPT ![<<p.to, p.from>>] = @ - p.amt], d.flow)
          /\ t.ok => d.ok /\ d.escrow[<<p.to, p.from>>] >= p.amt
      BY <1>1, <1>3, <3>1, UnescrowIs
    <3>3. Shift(s, t, c, p.to, who, p.amt)
      BY <1>2, <2>1, <3>2, HopIs DEF Is, Shift
    <3>4. Moved(s, t)
      BY <1>1, <1>2, <1>4, <3>2 DEF Is, Moved, Solvent
    <3> QED
      BY <3>3, <3>4
  <2>2. CASE SenderChainIsSource(p.from, p.to)
    <3>1. t = d
      BY <2>2 DEF RecvTransfer
    <3>2. Shift(s, t, c, p.to, who, p.amt)
      BY <1>2, <2>2, <3>1, HopIs DEF Is, Shift
    <3>3. Moved(s, t)
      BY <1>1, <1>2, <1>4, <3>1 DEF Is, Moved, Solvent
    <3> QED
      BY <3>2, <3>3
  <2> QED
    BY <2>1, <2>2
<1>6. /\ t \in Net0 /\ c \in Peer /\ p.to \in {"B", c} /\ p.from # p.to
      /\ p.from \in {"B", c} /\ \A e \in Peer : Carried(p, e) = IF e = c THEN p.amt ELSE 0
  BY <1>1, <1>5, HopIs DEF Moved
<1> HIDE DEF t, c
<1>7. ASSUME NEW e \in Peer
      PROVE  /\ Ledger(t, e) = Ledger(s, e) - IF e = c THEN p.amt ELSE 0
             /\ Out(t, e) = Out(s, e) - IF e = c /\ p.to = "B" THEN p.amt ELSE 0
             /\ Ledger(s, e) \in Int /\ Out(s, e) \in Int
  BY <1>1, <1>5, <1>6, ShiftLedger, LedgerType
<1>8. ASSUME NEW e \in Peer
      PROVE  /\ Ledger(t, e) = Ledger(s, e) - Carried(p, e)
             /\ Out(t, e) = Out(s, e) - IF p.from = e THEN p.amt ELSE 0
  BY <1>1, <1>6, <1>7 DEF Peer
<1> QED
  BY <1>5, <1>8 DEF t

LEMMA RefundTransferIs ==
    ASSUME NEW s \in Net0, home \in Chain, NEW p, Hop(p), NEW who \in Accounts(p.from)
    PROVE  LET t == RefundTransfer(s, who, p)
           IN  /\ Moved(s, t)
               /\ \A c \in Peer : /\ Ledger(t, c) = Ledger(s, c) - Carried(p, c)
                                  /\ Out(t, c) = Out(s, c) - IF p.to = c THEN p.amt ELSE 0
<1> DEFINE d == Credit(s, who, p.amt)
           t == RefundTransfer(s, who, p)
           c == PeerOf(p)
<1>1. /\ p.amt \in Int /\ p.amt > 0 /\ who \in Account
      /\ <<p.from, p.to>> \in Channel /\ <<p.to, p.from>> \in Channel
      /\ p.from \in Chain /\ p.to \in Chain
  BY HopIs, AccountsIs DEF Hop, Packet, Channel
<1>2. Is(d, s, [s.bal EXCEPT ![who] = @ + p.amt], s.escrow, s.flow) /\ d.ok = s.ok
  BY <1>1, CreditIs
<1>3. d \in Net0
  BY <1>2 DEF Is
<1>4. s.bal \in [Account -> Int] /\ s.escrow \in [Channel -> Int]
  BY DEF Net0
<1>5. Moved(s, t) /\ Shift(s, t, c, p.from, who, p.amt)
  <2>1. CASE SenderChainIsSource(p.from, p.to)
    <3>1. t = Unescrow(d, <<p.from, p.to>>, p.amt)
      BY <2>1 DEF RefundTransfer
    <3>2. /\ Is(t, d, d.bal, [d.escrow EXCEPT ![<<p.from, p.to>>] = @ - p.amt], d.flow)
          /\ t.ok => d.ok /\ d.escrow[<<p.from, p.to>>] >= p.amt
      BY <1>1, <1>3, <3>1, UnescrowIs
    <3>3. Shift(s, t, c, p.from, who, p.amt)
      BY <1>2, <2>1, <3>2, HopIs DEF Is, Shift
    <3>4. Moved(s, t)
      BY <1>1, <1>2, <1>4, <3>2 DEF Is, Moved, Solvent
    <3> QED
      BY <3>3, <3>4
  <2>2. CASE ~SenderChainIsSource(p.from, p.to)
    <3>1. t = d
      BY <2>2 DEF RefundTransfer
    <3>2. Shift(s, t, c, p.from, who, p.amt)
      BY <1>2, <2>2, <3>1, HopIs DEF Is, Shift
    <3>3. Moved(s, t)
      BY <1>1, <1>2, <1>4, <3>1 DEF Is, Moved, Solvent
    <3> QED
      BY <3>2, <3>3
  <2> QED
    BY <2>1, <2>2
<1>6. /\ t \in Net0 /\ c \in Peer /\ p.from \in {"B", c} /\ p.from # p.to
      /\ p.to \in {"B", c} /\ \A e \in Peer : Carried(p, e) = IF e = c THEN p.amt ELSE 0
  BY <1>1, <1>5, HopIs DEF Moved
<1> HIDE DEF t, c
<1>7. ASSUME NEW e \in Peer
      PROVE  /\ Ledger(t, e) = Ledger(s, e) - IF e = c THEN p.amt ELSE 0
             /\ Out(t, e) = Out(s, e) - IF e = c /\ p.from = "B" THEN p.amt ELSE 0
             /\ Ledger(s, e) \in Int /\ Out(s, e) \in Int
  BY <1>1, <1>5, <1>6, ShiftLedger, LedgerType
<1>8. ASSUME NEW e \in Peer
      PROVE  /\ Ledger(t, e) = Ledger(s, e) - Carried(p, e)
             /\ Out(t, e) = Out(s, e) - IF p.to = e THEN p.amt ELSE 0
  BY <1>1, <1>6, <1>7 DEF Peer
<1> QED
  BY <1>5, <1>8 DEF t

(* A forward that failed: its coins are taken back from the channel that it *)
(* was sent on and put where the packet that it forwards came from.         *)
LEMMA UndoneIs ==
    ASSUME NEW s \in Net0, home \in Chain, NEW p, Hop(p), NEW parent, Hop(parent),
           p.from = "B", parent.to = "B", p.amt = parent.amt
    PROVE  LET back   == <<"B", parent.from>>
               taken  == Unescrow(s, <<"B", p.to>>, p.amt)
               t      == IF ~SenderChainIsSource("B", p.to) THEN Escrow(s, back, p.amt)
                         ELSE IF SenderChainIsSource("B", parent.from)
                              THEN Escrow(taken, back, p.amt) ELSE taken
           IN  /\ Moved(s, t)
               /\ \A c \in Peer :
                      /\ Ledger(t, c) = Ledger(s, c) - Carried(p, c) + Carried(parent, c)
                      /\ Out(t, c) = Out(s, c) - (IF p.to = c THEN p.amt ELSE 0)
                                               + (IF parent.from = c THEN p.amt ELSE 0)
<1> DEFINE o == p.to
           r == parent.from
           back   == <<"B", r>>
           taken  == Unescrow(s, <<"B", o>>, p.amt)
           t      == IF ~SenderChainIsSource("B", o) THEN Escrow(s, back, p.amt)
                     ELSE IF SenderChainIsSource("B", r)
                          THEN Escrow(taken, back, p.amt) ELSE taken
           e1 == [s.escrow EXCEPT ![<<"B", o>>] = @ - p.amt]
           e == IF ~SenderChainIsSource("B", o) THEN [s.escrow EXCEPT ![back] = @ + p.amt]
                ELSE IF SenderChainIsSource("B", r) THEN [e1 EXCEPT ![back] = @ + p.amt] ELSE e1
<1>1. /\ p.amt \in Int /\ p.amt > 0 /\ o \in Peer /\ r \in Peer
      /\ back \in Channel /\ <<"B", o>> \in Channel
  BY HopIs DEF Hop, Channel, Peer, PeerOf
<1>2. /\ Is(taken, s, s.bal, e1, s.flow)
      /\ taken.ok => s.ok /\ s.escrow[<<"B", o>>] >= p.amt
  BY <1>1, UnescrowIs
<1>3. taken \in Net0 /\ s.escrow \in [Channel -> Int]
  BY <1>2 DEF Is, Net0
<1>4. Is(t, s, s.bal, e, s.flow) /\ Moved(s, t)
  <2>1. CASE ~SenderChainIsSource("B", o)
    <3>1. t = Escrow(s, back, p.amt)
      BY <2>1
    <3>2. Is(t, s, s.bal, [s.escrow EXCEPT ![back] = @ + p.amt], s.flow) /\ t.ok = s.ok
      BY <1>1, <3>1, EscrowIs
    <3> HIDE DEF t
    <3> QED
      BY <1>1, <1>3, <2>1, <3>2 DEF Moved, Is, Solvent
  <2>2. CASE SenderChainIsSource("B", o) /\ SenderChainIsSource("B", r)
    <3>1. t = Escrow(taken, back, p.amt)
      BY <2>2
    <3>2. /\ Is(t, taken, taken.bal, [taken.escrow EXCEPT ![back] = @ + p.amt], taken.flow)
          /\ t.ok = taken.ok
      BY <1>1, <1>3, <3>1, EscrowIs
    <3> HIDE DEF t, taken
    <3> QED
      BY <1>1, <1>2, <1>3, <2>2, <3>2 DEF Moved, Is, Solvent
  <2>3. CASE SenderChainIsSource("B", o) /\ ~SenderChainIsSource("B", r)
    <3>1. t = taken
      BY <2>3
    <3> HIDE DEF t, taken
    <3> QED
      BY <1>1, <1>2, <1>3, <2>3, <3>1 DEF Moved, Is, Solvent
  <2> QED
    BY <2>1, <2>2, <2>3
<1>5. t.bal = s.bal /\ t.escrow = e
  BY <1>4 DEF Is
<1> HIDE DEF t
<1>6. ASSUME NEW c \in Peer
      PROVE  /\ Ledger(t, c) = Ledger(s, c) - Carried(p, c) + Carried(parent, c)
             /\ Out(t, c) = Out(s, c) - (IF o = c THEN p.amt ELSE 0)
                                      + (IF r = c THEN p.amt ELSE 0)
  <2>1. /\ Carried(p, c) = IF o = c THEN p.amt ELSE 0
        /\ Carried(parent, c) = IF r = c THEN p.amt ELSE 0
    BY <1>1 DEF Carried, Peer
  <2> HIDE DEF o, r
  <2>2. CASE o = "A" /\ r = "A"
    BY <1>1, <1>5, <2>1, <2>2, Coins, Directions DEF Ledger, Out, Peer, Chain
  <2>3. CASE o = "A" /\ r = "C"
    <3>1. CASE home = "A"
      BY <1>1, <1>5, <2>1, <2>3, <3>1, Coins, Directions DEF Ledger, Out, Peer, Chain
    <3>2. CASE home = "B"
      BY <1>1, <1>5, <2>1, <2>3, <3>2, Coins, Directions DEF Ledger, Out, Peer, Chain
    <3>3. CASE home = "C"
      BY <1>1, <1>5, <2>1, <2>3, <3>3, Coins, Directions DEF Ledger, Out, Peer, Chain
    <3> QED
      BY <3>1, <3>2, <3>3 DEF Chain
  <2>4. CASE o = "C" /\ r = "A"
    <3>1. CASE home = "A"
      BY <1>1, <1>5, <2>1, <2>4, <3>1, Coins, Directions DEF Ledger, Out, Peer, Chain
    <3>2. CASE home = "B"
      BY <1>1, <1>5, <2>1, <2>4, <3>2, Coins, Directions DEF Ledger, Out, Peer, Chain
    <3>3. CASE home = "C"
      BY <1>1, <1>5, <2>1, <2>4, <3>3, Coins, Directions DEF Ledger, Out, Peer, Chain
    <3> QED
      BY <3>1, <3>2, <3>3 DEF Chain
  <2>5. CASE o = "C" /\ r = "C"
    BY <1>1, <1>5, <2>1, <2>5, Coins, Directions DEF Ledger, Out, Peer, Chain
  <2> QED
    BY <1>1, <2>2, <2>3, <2>4, <2>5 DEF Peer
<1> QED
  BY <1>4, <1>6 DEF t

-----------------------------------------------------------------------------
(* What the packets carry. *)

(* What is on its way: sent, or with an error that the sender has not seen. *)
InTransit(p, c) == IF p.phase \in {"sent", "error"} THEN Carried(p, c) ELSE 0

Transit(q, c) == SumFunctionOnSet([i \in DOMAIN q |-> InTransit(q[i], c)], DOMAIN q)

(* What the flow of B to c can still be lowered by, for packets in n.       *)
Sent(p, c) == IF p.to = c THEN p.amt ELSE 0

Pending(q, n, c) ==
    SumFunctionOnSet([i \in DOMAIN q |-> IF i \in n THEN Sent(q[i], c) ELSE 0], DOMAIN q)

LEMMA Carries ==
    ASSUME NEW p \in Packet, NEW c
    PROVE  p.amt \in Nat /\ Carried(p, c) \in Nat /\ InTransit(p, c) \in Nat /\ Sent(p, c) \in Nat
<1>1. p.amt \in Nat
  BY Constants DEF Packet
<1> QED
  BY <1>1 DEF Carried, InTransit, Sent

LEMMA Domain ==
    ASSUME NEW q \in Seq(Packet)
    PROVE  /\ DOMAIN q = 1 .. Len(q) /\ IsFiniteSet(DOMAIN q) /\ Len(q) + 1 \notin DOMAIN q
           /\ \A i \in DOMAIN q : q[i] \in Packet /\ i \in Nat
<1>1. Len(q) \in Nat /\ DOMAIN q = 1 .. Len(q)
  OBVIOUS
<1>2. IsFiniteSet(1 .. Len(q))
  BY <1>1, FS_Interval
<1> QED
  BY <1>1, <1>2

LEMMA SumsType ==
    ASSUME NEW q \in Seq(Packet), NEW c, NEW n
    PROVE  Transit(q, c) \in Nat /\ Pending(q, n, c) \in Nat
<1> DEFINE D == DOMAIN q
           f == [i \in D |-> InTransit(q[i], c)]
           g == [i \in D |-> IF i \in n THEN Sent(q[i], c) ELSE 0]
<1>1. IsFiniteSet(D) /\ \A i \in D : f[i] \in Nat /\ g[i] \in Nat
  BY Domain, Carries
<1> HIDE DEF D, f, g
<1>2. SumFunctionOnSet(f, D) \in Nat /\ SumFunctionOnSet(g, D) \in Nat
  BY <1>1, SumNat
<1> QED
  BY <1>2 DEF Transit, Pending, D, f, g

LEMMA TransitAppend ==
    ASSUME NEW q \in Seq(Packet), NEW p \in Packet, NEW c
    PROVE  Transit(Append(q, p), c) = Transit(q, c) + InTransit(p, c)
<1> DEFINE r == Append(q, p)
           D == DOMAIN q
           x == Len(q) + 1
           f == [i \in D |-> InTransit(q[i], c)]
           g == [i \in DOMAIN r |-> InTransit(r[i], c)]
<1>1. /\ DOMAIN r = D \cup {x} /\ IsFiniteSet(D) /\ x \notin D
      /\ r[x] = p /\ \A i \in D : r[i] = q[i]
  BY Domain
<1>2. /\ \A i \in D : f[i] = g[i] /\ g[i] \in Int
      /\ g[x] = InTransit(p, c) /\ g[x] \in Int
  BY <1>1, Domain, Carries
<1> HIDE DEF D, r, x, f, g
<1>3. SumFunctionOnSet(g, D \cup {x}) = SumFunctionOnSet(g, D) + g[x]
  BY <1>1, <1>2, SumAdd
<1>4. SumFunctionOnSet(f, D) = SumFunctionOnSet(g, D)
  BY <1>1, <1>2, SumSame
<1> QED
  BY <1>1, <1>2, <1>3, <1>4 DEF Transit, D, r, f, g

LEMMA PendingAppend ==
    ASSUME NEW q \in Seq(Packet), NEW p \in Packet, NEW c, NEW n, n \subseteq DOMAIN q
    PROVE  /\ Pending(Append(q, p), n, c) = Pending(q, n, c)
           /\ Pending(Append(q, p), n \cup {Len(q) + 1}, c) = Pending(q, n, c) + Sent(p, c)
<1> DEFINE r == Append(q, p)
           D == DOMAIN q
           x == Len(q) + 1
           f == [i \in D |-> IF i \in n THEN Sent(q[i], c) ELSE 0]
           g == [i \in DOMAIN r |-> IF i \in n THEN Sent(r[i], c) ELSE 0]
           h == [i \in DOMAIN r |-> IF i \in n \cup {x} THEN Sent(r[i], c) ELSE 0]
<1>1. /\ DOMAIN r = D \cup {x} /\ IsFiniteSet(D) /\ x \notin D
      /\ r[x] = p /\ \A i \in D : r[i] = q[i]
  BY Domain
<1>2. /\ \A i \in D : f[i] = g[i] /\ g[i] \in Int /\ f[i] = h[i] /\ h[i] \in Int
      /\ g[x] = 0 /\ h[x] = Sent(p, c) /\ h[x] \in Int
  BY <1>1, Domain, Carries
<1>3. /\ Pending(q, n, c) = SumFunctionOnSet(f, D)
      /\ Pending(r, n, c) = SumFunctionOnSet(g, DOMAIN r)
      /\ Pending(r, n \cup {x}, c) = SumFunctionOnSet(h, DOMAIN r)
  BY DEF Pending
<1> HIDE DEF D, r, x, f, g, h
<1>4. /\ \A i \in D : g[i] \in Int /\ f[i] = g[i]
      /\ \A i \in D : h[i] \in Int /\ f[i] = h[i]
      /\ g[x] \in Int
  BY <1>2
<1>5. SumFunctionOnSet(g, D \cup {x}) = SumFunctionOnSet(g, D) + g[x]
  BY <1>1, <1>4, SumAdd
<1>6. SumFunctionOnSet(h, D \cup {x}) = SumFunctionOnSet(h, D) + h[x]
  BY <1>1, <1>2, <1>4, SumAdd
<1>7. /\ SumFunctionOnSet(f, D) = SumFunctionOnSet(g, D)
      /\ SumFunctionOnSet(f, D) = SumFunctionOnSet(h, D)
  BY <1>1, <1>4, SumSame
<1>8. /\ Pending(r, n, c) = Pending(q, n, c)
      /\ Pending(r, n \cup {x}, c) = Pending(q, n, c) + Sent(p, c)
  BY <1>1, <1>2, <1>3, <1>5, <1>6, <1>7, SumsType
<1> QED
  BY <1>8 DEF r, x

(* One packet changes, and not what it carries.                             *)
LEMMA TransitChange ==
    ASSUME NEW q \in Seq(Packet), NEW r \in Seq(Packet), NEW i \in DOMAIN q, NEW c,
           DOMAIN r = DOMAIN q, \A j \in DOMAIN q : j # i => r[j] = q[j]
    PROVE  Transit(r, c) = Transit(q, c) - InTransit(q[i], c) + InTransit(r[i], c)
<1> DEFINE D == DOMAIN q
           f == [j \in D |-> InTransit(q[j], c)]
           g == [j \in D |-> InTransit(r[j], c)]
<1>1. /\ IsFiniteSet(D) /\ i \in D /\ g[i] \in Int
      /\ \A j \in D : f[j] \in Int
      /\ \A j \in D \ {i} : g[j] = f[j]
      /\ f[i] = InTransit(q[i], c) /\ g[i] = InTransit(r[i], c)
  BY Domain, Carries
<1>2. Transit(q, c) = SumFunctionOnSet(f, D) /\ Transit(r, c) = SumFunctionOnSet(g, D)
  BY DEF Transit
<1> HIDE DEF D, f, g
<1>3. SumFunctionOnSet(g, D) = SumFunctionOnSet(f, D) - f[i] + g[i]
  <2>1. ChangesAt(i, f, g, D)
    BY <1>1 DEF ChangesAt
  <2> QED
    BY <2>1, SumChange
<1> QED
  BY <1>1, <1>2, <1>3

LEMMA PendingSame ==
    ASSUME NEW q \in Seq(Packet), NEW r \in Seq(Packet), NEW n, NEW c, DOMAIN r = DOMAIN q,
           \A j \in DOMAIN q : r[j].to = q[j].to /\ r[j].amt = q[j].amt
    PROVE  Pending(r, n, c) = Pending(q, n, c)
<1> DEFINE D == DOMAIN q
           f == [j \in D |-> IF j \in n THEN Sent(q[j], c) ELSE 0]
           g == [j \in D |-> IF j \in n THEN Sent(r[j], c) ELSE 0]
<1>1. IsFiniteSet(D) /\ \A j \in D : f[j] = g[j]
  BY Domain DEF Sent
<1>2. Pending(q, n, c) = SumFunctionOnSet(f, D) /\ Pending(r, n, c) = SumFunctionOnSet(g, D)
  BY DEF Pending
<1> HIDE DEF D, f, g
<1> QED
  BY <1>1, <1>2, SumSame

LEMMA PendingLess ==
    ASSUME NEW q \in Seq(Packet), NEW i \in DOMAIN q, NEW n, NEW c
    PROVE  Pending(q, n \ {i}, c) = Pending(q, n, c) - IF i \in n THEN Sent(q[i], c) ELSE 0
<1> DEFINE D == DOMAIN q
           f == [j \in D |-> IF j \in n THEN Sent(q[j], c) ELSE 0]
           g == [j \in D |-> IF j \in n \ {i} THEN Sent(q[j], c) ELSE 0]
<1>1. /\ IsFiniteSet(D) /\ g[i] \in Int
      /\ \A j \in D : f[j] \in Int
      /\ \A j \in D \ {i} : g[j] = f[j]
      /\ f[i] = (IF i \in n THEN Sent(q[i], c) ELSE 0) /\ g[i] = 0 /\ i \in D
  BY Domain, Carries
<1>2. /\ Pending(q, n, c) = SumFunctionOnSet(f, D) /\ Pending(q, n \ {i}, c) = SumFunctionOnSet(g, D)
      /\ Pending(q, n, c) \in Int
  BY SumsType DEF Pending
<1> HIDE DEF D, f, g
<1>3. SumFunctionOnSet(g, D) = SumFunctionOnSet(f, D) - f[i] + g[i]
  <2>1. ChangesAt(i, f, g, D)
    BY <1>1 DEF ChangesAt
  <2> QED
    BY <2>1, SumChange
<1> QED
  BY <1>1, <1>2, <1>3

LEMMA PendingNone ==
    ASSUME NEW q \in Seq(Packet), NEW c
    PROVE  Pending(q, {}, c) = 0
<1> DEFINE D == DOMAIN q
           f == [j \in D |-> IF j \in {} THEN Sent(q[j], c) ELSE 0]
<1>1. IsFiniteSet(D) /\ {} \in SUBSET D /\ \A j \in D : f[j] = 0
  BY Domain
<1>2. SumFunctionOnSet(f, {}) = SumFunctionOnSet([j \in D |-> IF j \in {} THEN f[j] ELSE 0], D)
  BY <1>1, SumWhere
<1>3. [j \in D |-> IF j \in {} THEN f[j] ELSE 0] = f
  BY <1>1
<1> QED
  BY <1>2, <1>3, SumEmpty DEF Pending

-----------------------------------------------------------------------------
(* The invariant. *)

(* Packet i forwards the packet that it names.                              *)
Forwards(q, i) ==
    LET u == q[q[i].parent]
    IN  /\ q[i].parent \in DOMAIN q /\ q[i].from = "B" /\ q[i].dest = q[i].to
        /\ u.to = "B" /\ u.dest = q[i].to /\ u.amt = q[i].amt

Linked(q) ==
    \A i \in DOMAIN q :
        /\ Hop(q[i])
        /\ q[i].dest # q[i].to => q[i].to = "B"
        /\ q[i].parent # 0 => Forwards(q, i)

(* A forward that is not over: the packet that it forwards waits for it,    *)
(* and for it alone.                                                        *)
Live(p) == p.parent # 0 /\ p.phase \in {"sent", "ok", "error"}

Waited(q) ==
    \A i \in DOMAIN q : Live(q[i]) =>
        /\ q[q[i].parent].phase = "waiting"
        /\ \A j \in DOMAIN q : Live(q[j]) /\ q[j].parent = q[i].parent => j = i

(* Flows are large enough for what may be taken from them, and within the   *)
(* quota.                                                                   *)
Flows(s) ==
    /\ s.pending \subseteq {i \in DOMAIN s.packets : s.packets[i].from = "B"}
    /\ \A c \in Peer :
           /\ s.flow[c].in >= 0 /\ Pending(s.packets, s.pending, c) <= s.flow[c].out
           /\ s.ok => s.flow[c].out - s.flow[c].in <= MaxSend[c]

Sane(s) == s \in Net0 /\ Linked(s.packets) /\ Flows(s)

(* What is escrowed for vouchers that are nowhere.                          *)
Gap(s, c) == Ledger(s, c) - Transit(s.packets, c)

IInv ==
    /\ home \in Homes /\ fees \subseteq FeeEnabled
    /\ Sane(net) /\ net.ok /\ Solvent(net) /\ Waited(net.packets)
    /\ \A c \in Peer : Gap(net, c) = 0

(* What the flow of B to c allows for beyond what is out there.             *)
Slack(s, c) == s.flow[c].out - s.flow[c].in - Out(s, c)

-----------------------------------------------------------------------------
(* What the handlers keep, whatever they are given. *)

Kept(s, t) ==
    /\ Sane(t)
    /\ t.ok => s.ok
    /\ t.ok /\ Solvent(s) => Solvent(t)

(* The same packet, in whatever phase.                                      *)
Alike(p, u) ==
    /\ p.from = u.from /\ p.to = u.to /\ p.dest = u.dest
    /\ p.amt = u.amt /\ p.parent = u.parent

LEMMA RephasedFields ==
    ASSUME NEW q \in Seq(Packet), NEW r, NEW i \in DOMAIN q, NEW phase, Rephased(q, r, i, phase)
    PROVE  r[i].phase = phase /\ \A j \in DOMAIN q : Alike(r[j], q[j])
<1>1. q[i] \in Packet
  BY Domain
<1>2. /\ r[i].from = q[i].from /\ r[i].to = q[i].to /\ r[i].dest = q[i].dest
      /\ r[i].amt = q[i].amt /\ r[i].parent = q[i].parent /\ r[i].phase = phase
  BY <1>1 DEF Rephased, Packet
<1>3. ASSUME NEW j \in DOMAIN q PROVE Alike(r[j], q[j])
  BY <1>2 DEF Rephased, Alike
<1> QED
  BY <1>2, <1>3

LEMMA LinkedRephased ==
    ASSUME NEW q \in Seq(Packet), Linked(q), NEW r, NEW i \in DOMAIN q, NEW phase,
           Rephased(q, r, i, phase)
    PROVE  Linked(r)
<1>1. \A j \in DOMAIN q : Alike(r[j], q[j])
  BY RephasedFields
<1>2. r \in Seq(Packet) /\ DOMAIN r = DOMAIN q
  BY DEF Rephased
<1>3. \A j \in DOMAIN q : r[j] \in Packet
  BY <1>2, Domain
<1> QED
  BY <1>1, <1>2, <1>3 DEF Linked, Hop, Forwards, Alike

LEMMA LinkedAppend ==
    ASSUME NEW q \in Seq(Packet), Linked(q), NEW p, Hop(p), p.dest # p.to => p.to = "B",
           p.parent # 0 => /\ p.parent \in DOMAIN q /\ p.from = "B" /\ p.dest = p.to
                           /\ q[p.parent].to = "B" /\ q[p.parent].dest = p.to
                           /\ q[p.parent].amt = p.amt
    PROVE  Linked(Append(q, p))
<1> DEFINE r == Append(q, p)
           x == Len(q) + 1
<1>1. /\ DOMAIN r = DOMAIN q \cup {x} /\ r[x] = p /\ \A j \in DOMAIN q : r[j] = q[j]
  BY Domain DEF Hop
<1> HIDE DEF r, x
<1>2. ASSUME NEW i \in DOMAIN q
      PROVE  /\ Hop(r[i]) /\ (r[i].dest # r[i].to => r[i].to = "B")
             /\ r[i].parent # 0 => Forwards(r, i)
  BY <1>1, <1>2 DEF Linked, Forwards
<1>3. /\ Hop(r[x]) /\ (r[x].dest # r[x].to => r[x].to = "B")
      /\ r[x].parent # 0 => Forwards(r, x)
  BY <1>1 DEF Forwards
<1> QED
  BY <1>1, <1>2, <1>3 DEF Linked, r

(* The packets of a net.                                                    *)
LEMMA PacketsOf ==
    ASSUME NEW s, Sane(s), NEW i \in DOMAIN s.packets
    PROVE  /\ s \in Net0 /\ s.packets \in Seq(Packet) /\ s.packets[i] \in Packet
           /\ Hop(s.packets[i])
           /\ i \in s.pending => s.packets[i].to \in Peer
<1>1. s \in Net0 /\ s.packets \in Seq(Packet) /\ Hop(s.packets[i])
  BY DEF Sane, Net0, Linked
<1>2. i \in s.pending => s.packets[i].from = "B"
  BY DEF Sane, Flows
<1> QED
  BY <1>1, <1>2 DEF Hop, Channel, Peer

LEMMA GapType ==
    ASSUME NEW s, Sane(s), home \in Chain, NEW c \in Peer
    PROVE  /\ s \in Net0 /\ s.packets \in Seq(Packet) /\ Linked(s.packets) /\ Flows(s)
           /\ Ledger(s, c) \in Int /\ Transit(s.packets, c) \in Int /\ Gap(s, c) \in Int
           /\ Out(s, c) \in Int /\ Slack(s, c) \in Int
           /\ s.flow[c].in \in Int /\ s.flow[c].out \in Int
<1>1. s \in Net0 /\ s.packets \in Seq(Packet) /\ Linked(s.packets) /\ Flows(s)
  BY DEF Sane, Net0
<1>2. Ledger(s, c) \in Int /\ Out(s, c) \in Int
  BY <1>1, LedgerType
<1>5. Transit(s.packets, c) \in Int
  <2>1. Transit(s.packets, c) \in Nat
    BY <1>1, SumsType
  <2> QED
    BY <2>1
<1>3. s.flow[c] \in [in : Int, out : Int]
  BY <1>1 DEF Net0
<1>4. s.flow[c].in \in Int /\ s.flow[c].out \in Int
  BY <1>3
<1> QED
  BY <1>1, <1>2, <1>4, <1>5 DEF Gap, Slack

(* The transfer module moves coins and nothing else.                        *)
LEMMA MovedKept ==
    ASSUME NEW s, Sane(s), NEW t, Moved(s, t)
    PROVE  Kept(s, t)
BY DEF Kept, Moved, Sane, Flows

LEMMA KeptTwice ==
    ASSUME NEW s, NEW t, NEW u, Kept(s, t), Kept(t, u)
    PROVE  Kept(s, u)
BY DEF Kept

LEMMA RephaseKept ==
    ASSUME NEW s, Sane(s), home \in Chain, NEW i \in DOMAIN s.packets,
           NEW phase \in {"sent", "waiting", "ok", "error", "delivered", "returned"}
    PROVE  LET t == Phase(s, i, phase)
           IN  /\ Kept(s, t) /\ t.ok = s.ok /\ Rephased(s.packets, t.packets, i, phase)
               /\ \A c \in Peer :
                      /\ Gap(t, c) = Gap(s, c) + InTransit(s.packets[i], c)
                                               - InTransit(t.packets[i], c)
                      /\ Slack(t, c) = Slack(s, c)
<1> DEFINE t == Phase(s, i, phase)
           q == s.packets
           r == t.packets
<1>1. s \in Net0 /\ q \in Seq(Packet) /\ Linked(q) /\ Flows(s)
  BY DEF Sane, Net0
<1>2. /\ t \in Net0 /\ t.ok = s.ok /\ t.bal = s.bal /\ t.escrow = s.escrow
      /\ t.flow = s.flow /\ t.pending = s.pending
      /\ Rephased(q, r, i, phase)
  BY <1>1, PhaseIs
<1>3. r \in Seq(Packet) /\ DOMAIN r = DOMAIN q /\ i \in DOMAIN q
  BY <1>2 DEF Rephased
<1>4. \A j \in DOMAIN q : j # i => r[j] = q[j]
  BY <1>2 DEF Rephased
<1> HIDE DEF t, q, r
<1>9. Linked(r) /\ \A j \in DOMAIN q : Alike(r[j], q[j])
  BY <1>1, <1>2, <1>3, LinkedRephased, RephasedFields
<1>10. q = s.packets /\ r = t.packets
  BY DEF q, r
<1>5. ASSUME NEW c PROVE Pending(r, t.pending, c) = Pending(q, s.pending, c)
  BY <1>1, <1>2, <1>3, <1>9, PendingSame DEF Alike
<1>6. Flows(t)
  BY <1>1, <1>2, <1>3, <1>5, <1>9, <1>10 DEF Flows, Alike
<1>7. Kept(s, t)
  BY <1>2, <1>6, <1>9, <1>10 DEF Kept, Sane, Solvent
<1>8. ASSUME NEW c \in Peer
      PROVE  /\ Gap(t, c) = Gap(s, c) + InTransit(q[i], c) - InTransit(r[i], c)
             /\ Slack(t, c) = Slack(s, c)
  <2>1. Ledger(t, c) = Ledger(s, c) /\ Out(t, c) = Out(s, c)
    BY <1>2 DEF Ledger, Out
  <2>2. Transit(r, c) = Transit(q, c) - InTransit(q[i], c) + InTransit(r[i], c)
    BY <1>1, <1>2, <1>3, <1>4, TransitChange
  <2>3. /\ Ledger(s, c) \in Int /\ Transit(q, c) \in Int
        /\ InTransit(q[i], c) \in Int /\ InTransit(r[i], c) \in Int
    <3>1. q[i] \in Packet /\ r[i] \in Packet
      BY <1>1, <1>2, <1>3, <1>4, Domain
    <3>2. InTransit(q[i], c) \in Nat /\ InTransit(r[i], c) \in Nat
      BY <3>1, Carries
    <3> QED
      BY <1>10, <3>2, GapType
  <2> QED
    BY <1>2, <1>10, <2>1, <2>2, <2>3 DEF Gap, Slack
<1> QED
  BY <1>2, <1>4, <1>7, <1>8 DEF t, q, r

(* A transfer: what its packet carries is on the books at once.             *)
LEMMA TransferKept ==
    ASSUME NEW s, Sane(s), home \in Chain, NEW p, Hop(p), p.phase = "sent",
           Linked(Append(s.packets, p)), NEW who \in Accounts(p.from)
    PROVE  LET t == Transfer(s, who, p)
           IN  /\ Kept(s, t) /\ t.packets = Append(s.packets, p)
               /\ \A c \in Peer : Gap(t, c) = Gap(s, c) /\ Slack(t, c) >= Slack(s, c)
<1> DEFINE m == SendTransfer(s, who, p)
           t == Transfer(s, who, p)
           q == s.packets
           r == Append(q, p)
           x == Len(q) + 1
<1>1. /\ s \in Net0 /\ q \in Seq(Packet) /\ Flows(s) /\ p \in Packet
      /\ p.amt \in Int /\ p.amt > 0
  BY HopIs DEF Sane, Net0, Hop
<1>2. /\ Moved(s, m)
      /\ \A c \in Peer : /\ Ledger(m, c) = Ledger(s, c) + Carried(p, c)
                         /\ Out(m, c) = Out(s, c) + IF p.to = c THEN p.amt ELSE 0
  BY <1>1, SendTransferIs
<1>3. /\ m \in Net0 /\ m.flow = s.flow /\ m.pending = s.pending /\ m.packets = q
      /\ m.ok => s.ok
      /\ m.ok /\ Solvent(s) => Solvent(m)
  BY <1>2 DEF Moved
<1>4. t = SendPacket(m, p)
  BY DEF Transfer
<1> HIDE DEF m, t
<1>5. /\ t \in Net0 /\ t.bal = m.bal /\ t.escrow = m.escrow
      /\ t.ok => m.ok
      /\ t.ok /\ p.from = "B" => s.flow[p.to].out - s.flow[p.to].in + p.amt <= MaxSend[p.to]
      /\ t.packets = r
      /\ t.pending = IF p.from = "B" THEN s.pending \cup {x} ELSE s.pending
      /\ t.flow = IF p.from = "B" THEN [s.flow EXCEPT ![p.to].out = @ + p.amt] ELSE s.flow
  <2>1. /\ t \in Net0 /\ t.bal = m.bal /\ t.escrow = m.escrow
        /\ t.ok => m.ok
        /\ t.ok /\ p.from = "B" =>
               m.flow[p.to].out - m.flow[p.to].in + p.amt <= MaxSend[p.to]
        /\ t.packets = Append(m.packets, p)
        /\ t.pending = IF p.from = "B" THEN m.pending \cup {Len(m.packets) + 1} ELSE m.pending
        /\ t.flow = IF p.from = "B" THEN [m.flow EXCEPT ![p.to].out = @ + p.amt] ELSE m.flow
    BY <1>3, <1>4, SendPacketIs
  <2> QED
    BY <1>3, <2>1
<1>6. /\ r \in Seq(Packet) /\ DOMAIN r = DOMAIN q \cup {x} /\ r[x] = p
      /\ \A j \in DOMAIN q : r[j] = q[j]
  BY <1>1, Domain
<1>7. /\ p.from = "B" => p.to \in Peer
      /\ p.from # "B" => p.to = "B"
  BY DEF Hop, Channel, Peer
<1>8. s.pending \subseteq DOMAIN q
  BY <1>1 DEF Flows
<1>9. ASSUME NEW c \in Peer
      PROVE  /\ Transit(r, c) = Transit(q, c) + Carried(p, c)
             /\ Pending(r, t.pending, c) = Pending(q, s.pending, c) + Sent(p, c)
             /\ t.flow[c].in = s.flow[c].in
             /\ t.flow[c].out = s.flow[c].out + Sent(p, c)
             /\ Transit(q, c) \in Int /\ Pending(q, s.pending, c) \in Int
             /\ Sent(p, c) \in Int /\ Carried(p, c) \in Int
  <2>1. Transit(r, c) = Transit(q, c) + InTransit(p, c) /\ InTransit(p, c) = Carried(p, c)
    BY <1>1, TransitAppend DEF InTransit
  <2>2. Transit(q, c) \in Nat /\ Pending(q, s.pending, c) \in Nat
    BY <1>1, SumsType
  <2>3. Sent(p, c) \in Nat /\ Carried(p, c) \in Nat
    BY <1>1, Carries
  <2>4. /\ s.flow \in [Peer -> [in : Int, out : Int]] /\ s.flow[c] \in [in : Int, out : Int]
    BY <1>1 DEF Net0
  <2>5. CASE p.from = "B"
    <3>1. Pending(r, s.pending \cup {x}, c) = Pending(q, s.pending, c) + Sent(p, c)
      BY <1>1, <1>8, PendingAppend
    <3>2. /\ t.flow[c].in = s.flow[c].in
          /\ t.flow[c].out = s.flow[c].out + Sent(p, c)
      BY <1>1, <1>5, <1>7, <2>4, <2>5 DEF Sent
    <3> QED
      BY <1>5, <2>1, <2>2, <2>3, <2>5, <3>1, <3>2
  <2>6. CASE p.from # "B"
    <3>1. Pending(r, s.pending, c) = Pending(q, s.pending, c)
      BY <1>1, <1>8, PendingAppend
    <3>2. Sent(p, c) = 0
      BY <1>7, <2>6 DEF Sent, Peer
    <3> QED
      BY <1>5, <2>1, <2>2, <2>3, <2>4, <2>6, <3>1, <3>2
  <2> QED
    BY <2>5, <2>6
<1>10. Flows(t)
  <2>1. t.pending \subseteq {i \in DOMAIN r : r[i].from = "B"}
    BY <1>1, <1>5, <1>6 DEF Flows
  <2>2. ASSUME NEW c \in Peer
        PROVE  /\ t.flow[c].in >= 0 /\ Pending(r, t.pending, c) <= t.flow[c].out
               /\ t.ok => t.flow[c].out - t.flow[c].in <= MaxSend[c]
    <3>1. /\ s.flow[c].in >= 0 /\ Pending(q, s.pending, c) <= s.flow[c].out
          /\ s.ok => s.flow[c].out - s.flow[c].in <= MaxSend[c]
          /\ s.flow[c].in \in Int /\ s.flow[c].out \in Int /\ MaxSend[c] \in Int
      BY <1>1, GapType, Constants DEF Flows
    <3>2. t.ok => s.ok /\ s.flow[c].out - s.flow[c].in + Sent(p, c) <= MaxSend[c]
      <4>1. CASE p.to = c
        BY <1>3, <1>5, <1>7, <4>1 DEF Peer, Sent
      <4>2. CASE p.to # c
        BY <1>3, <1>5, <3>1, <4>2 DEF Sent
      <4> QED
        BY <4>1, <4>2
    <3> HIDE DEF r, q, x
    <3> QED
      BY <1>9, <3>1, <3>2
  <2> QED
    BY <1>5, <2>1, <2>2 DEF Flows
<1>11. Kept(s, t)
  BY <1>3, <1>5, <1>10 DEF Kept, Sane, Solvent
<1>12. ASSUME NEW c \in Peer
       PROVE  Gap(t, c) = Gap(s, c) /\ Slack(t, c) >= Slack(s, c)
  <2>1. Ledger(t, c) = Ledger(m, c) /\ Out(t, c) = Out(m, c)
    BY <1>5 DEF Ledger, Out
  <2>2. Ledger(m, c) = Ledger(s, c) + Carried(p, c) /\ Out(m, c) = Out(s, c) + Sent(p, c)
    BY <1>2 DEF Sent
  <2>3. /\ Ledger(s, c) \in Int /\ Out(s, c) \in Int
        /\ s.flow[c].in \in Int /\ s.flow[c].out \in Int
    BY GapType
  <2>4. Gap(t, c) = Ledger(t, c) - Transit(r, c) /\ Gap(s, c) = Ledger(s, c) - Transit(q, c)
    BY <1>5 DEF Gap
  <2> HIDE DEF r, q, x
  <2> QED
    BY <1>9, <2>1, <2>2, <2>3, <2>4 DEF Slack
<1> QED
  BY <1>5, <1>11, <1>12 DEF t

LEMMA LowerRecvKept ==
    ASSUME NEW s, Sane(s), home \in Chain, NEW p, Hop(p), NEW who \in Accounts(p.to)
    PROVE  LET t == LowerOnRecvPacket(s, who, p)
           IN  /\ Kept(s, t) /\ t.packets = s.packets
               /\ \A c \in Peer : /\ Gap(t, c) = Gap(s, c) - Carried(p, c)
                                  /\ Slack(t, c) >= Slack(s, c)
<1> DEFINE m == IF p.to = "B" THEN AddInflow(s, p.from, p.amt) ELSE s
           t == LowerOnRecvPacket(s, who, p)
<1>1. /\ s \in Net0 /\ Flows(s) /\ p.amt \in Int /\ p.amt > 0 /\ p \in Packet
      /\ s.flow \in [Peer -> [in : Int, out : Int]]
  BY HopIs DEF Sane, Net0, Hop
<1>2. /\ p.to = "B" => p.from \in Peer
      /\ p.to # "B" => p.from = "B"
  BY DEF Hop, Channel, Peer
<1>3. /\ m \in Net0 /\ m.bal = s.bal /\ m.escrow = s.escrow
      /\ m.pending = s.pending /\ m.packets = s.packets
      /\ m.ok => s.ok
      /\ m.flow = IF p.to = "B" THEN [s.flow EXCEPT ![p.from].in = @ + p.amt] ELSE s.flow
  BY <1>1, <1>2, AddInflowIs DEF Is
<1>4. t = RecvTransfer(m, who, p)
  BY DEF LowerOnRecvPacket
<1> HIDE DEF m, t
<1>5. /\ Moved(m, t)
      /\ \A c \in Peer : /\ Ledger(t, c) = Ledger(m, c) - Carried(p, c)
                         /\ Out(t, c) = Out(m, c) - IF p.from = c THEN p.amt ELSE 0
  BY <1>3, <1>4, RecvTransferIs
<1>6. ASSUME NEW c \in Peer
      PROVE  /\ m.flow[c].out = s.flow[c].out
             /\ m.flow[c].in = s.flow[c].in + IF p.from = c THEN p.amt ELSE 0
             /\ s.flow[c].in \in Int /\ s.flow[c].out \in Int
  <2>1. s.flow[c] \in [in : Int, out : Int]
    BY <1>1
  <2>2. CASE p.to = "B"
    BY <1>1, <1>2, <1>3, <2>1, <2>2
  <2>3. CASE p.to # "B"
    BY <1>1, <1>2, <1>3, <2>1, <2>3 DEF Peer
  <2> QED
    BY <2>2, <2>3
<1>7. Flows(m)
  <2>1. ASSUME NEW c \in Peer
        PROVE  /\ m.flow[c].in >= 0 /\ Pending(s.packets, s.pending, c) <= m.flow[c].out
               /\ m.ok => m.flow[c].out - m.flow[c].in <= MaxSend[c]
    <3>1. /\ s.flow[c].in >= 0 /\ Pending(s.packets, s.pending, c) <= s.flow[c].out
          /\ s.ok => s.flow[c].out - s.flow[c].in <= MaxSend[c]
          /\ MaxSend[c] \in Int
      BY <1>1, Constants DEF Flows
    <3> QED
      BY <1>1, <1>3, <1>6, <3>1
  <2> QED
    BY <1>1, <1>3, <2>1 DEF Flows
<1>8. Kept(s, m)
  BY <1>3, <1>7 DEF Kept, Sane, Solvent
<1>9. Kept(s, t)
  BY <1>5, <1>8, MovedKept, KeptTwice DEF Kept
<1>10. ASSUME NEW c \in Peer
       PROVE  Gap(t, c) = Gap(s, c) - Carried(p, c) /\ Slack(t, c) >= Slack(s, c)
  <2>1. Ledger(m, c) = Ledger(s, c) /\ Out(m, c) = Out(s, c)
    BY <1>3 DEF Ledger, Out
  <2>2. t.packets = s.packets /\ t.flow = m.flow
    BY <1>3, <1>5 DEF Moved
  <2>3. /\ Ledger(t, c) = Ledger(m, c) - Carried(p, c)
        /\ Out(t, c) = Out(m, c) - IF p.from = c THEN p.amt ELSE 0
    BY <1>5
  <2>4. /\ Ledger(s, c) \in Int /\ Out(s, c) \in Int /\ Transit(s.packets, c) \in Int
    BY GapType
  <2>5. Carried(p, c) \in Int
    BY <1>1 DEF Carried
  <2> QED
    BY <1>1, <1>6, <2>1, <2>2, <2>3, <2>4, <2>5 DEF Gap, Slack
<1> QED
  BY <1>3, <1>5, <1>9, <1>10 DEF t, Moved

LEMMA NotPendingKept ==
    ASSUME NEW s, Sane(s), home \in Chain, NEW i \in DOMAIN s.packets,
           NEW f \in [Peer -> [in : Int, out : Int]],
           \A c \in Peer :
               /\ f[c].in = s.flow[c].in
               /\ \/ f[c].out = s.flow[c].out
                  \/ /\ i \in s.pending /\ f[c].out = s.flow[c].out - Sent(s.packets[i], c),
           NEW t \in Net0, t.ok = s.ok, t.bal = s.bal, t.escrow = s.escrow,
           t.packets = s.packets, t.pending = s.pending \ {i}, t.flow = f
    PROVE  /\ Kept(s, t)
           /\ \A c \in Peer : /\ Gap(t, c) = Gap(s, c)
                              /\ Slack(t, c) >= Slack(s, c) - Sent(s.packets[i], c)
                              /\ f[c].out = s.flow[c].out => Slack(t, c) = Slack(s, c)
<1> DEFINE q == s.packets
<1>1. /\ s \in Net0 /\ q \in Seq(Packet) /\ Flows(s) /\ q[i] \in Packet
  BY PacketsOf DEF Sane
<1>2. ASSUME NEW c \in Peer
      PROVE  /\ Pending(q, t.pending, c)
                    = Pending(q, s.pending, c) - IF i \in s.pending THEN Sent(q[i], c) ELSE 0
             /\ Pending(q, s.pending, c) \in Int /\ Sent(q[i], c) \in Nat
  <2>1. Pending(q, s.pending, c) \in Nat
    BY <1>1, SumsType
  <2> QED
    BY <1>1, <2>1, PendingLess, Carries
<1>3. ASSUME NEW c \in Peer
      PROVE  /\ t.flow[c].in >= 0 /\ Pending(q, t.pending, c) <= t.flow[c].out
             /\ t.ok => t.flow[c].out - t.flow[c].in <= MaxSend[c]
  <2>1. /\ s.flow[c].in >= 0 /\ Pending(q, s.pending, c) <= s.flow[c].out
        /\ s.ok => s.flow[c].out - s.flow[c].in <= MaxSend[c]
        /\ s.flow[c].in \in Int /\ s.flow[c].out \in Int /\ MaxSend[c] \in Int
    BY <1>1, GapType, Constants DEF Flows
  <2>2. /\ f[c].in = s.flow[c].in
        /\ \/ f[c].out = s.flow[c].out
           \/ i \in s.pending /\ f[c].out = s.flow[c].out - Sent(q[i], c)
    OBVIOUS
  <2> DEFINE new == Pending(q, t.pending, c)
             old == Pending(q, s.pending, c)
             a   == Sent(q[i], c)
  <2>3. /\ new = old - IF i \in s.pending THEN a ELSE 0
        /\ old \in Int /\ a \in Nat
    BY <1>2
  <2> HIDE DEF q, new, old, a
  <2>4. new <= t.flow[c].out
    BY <2>1, <2>2, <2>3 DEF old, a
  <2>5. t.flow[c].in >= 0 /\ (t.ok => t.flow[c].out - t.flow[c].in <= MaxSend[c])
    BY <2>1, <2>2, <2>3 DEF a
  <2> QED
    BY <2>4, <2>5 DEF new
<1>4. Flows(t)
  BY <1>1, <1>3 DEF Flows
<1>5. Kept(s, t)
  BY <1>4 DEF Kept, Sane, Solvent
<1>6. ASSUME NEW c \in Peer
      PROVE  /\ Gap(t, c) = Gap(s, c) /\ Slack(t, c) >= Slack(s, c) - Sent(q[i], c)
             /\ f[c].out = s.flow[c].out => Slack(t, c) = Slack(s, c)
  <2>1. Ledger(t, c) = Ledger(s, c) /\ Out(t, c) = Out(s, c)
    BY DEF Ledger, Out
  <2>2. /\ s.flow[c].in \in Int /\ s.flow[c].out \in Int /\ Out(s, c) \in Int
        /\ Sent(q[i], c) \in Nat
    BY <1>2, GapType
  <2> QED
    BY <2>1, <2>2 DEF Gap, Slack
<1> QED
  BY <1>5, <1>6

LEMMA UndoKept ==
    ASSUME NEW s, Sane(s), home \in Chain, NEW i \in DOMAIN s.packets
    PROVE  LET t == Undo(s, i)
           IN  /\ Kept(s, t) /\ t.packets = s.packets
               /\ \A c \in Peer : /\ Gap(t, c) = Gap(s, c)
                                  /\ Slack(t, c) >= Slack(s, c) - Sent(s.packets[i], c)
<1> DEFINE t == Undo(s, i)
           p == s.packets[i]
           f == IF i \in s.pending THEN [s.flow EXCEPT ![p.to].out = @ - p.amt] ELSE s.flow
<1>1. s \in Net0 /\ p \in Packet /\ (i \in s.pending => p.to \in Peer) /\ p.amt \in Int
  <2>1. s \in Net0 /\ p \in Packet /\ (i \in s.pending => p.to \in Peer)
    BY PacketsOf
  <2> QED
    BY <2>1, PacketIs
<1>2. /\ t \in Net0 /\ t.ok = s.ok /\ t.bal = s.bal /\ t.escrow = s.escrow
      /\ t.packets = s.packets /\ t.pending = s.pending \ {i} /\ t.flow = f
  BY <1>1, UndoIs
<1>3. f \in [Peer -> [in : Int, out : Int]]
  BY <1>2 DEF Net0
<1>4. ASSUME NEW c \in Peer
      PROVE  /\ f[c].in = s.flow[c].in
             /\ \/ f[c].out = s.flow[c].out
                \/ i \in s.pending /\ f[c].out = s.flow[c].out - Sent(p, c)
  <2>1. s.flow \in [Peer -> [in : Int, out : Int]] /\ s.flow[c] \in [in : Int, out : Int]
    BY <1>1 DEF Net0
  <2>2. CASE i \in s.pending /\ p.to = c
    BY <1>1, <2>1, <2>2 DEF Sent
  <2>3. CASE ~(i \in s.pending /\ p.to = c)
    BY <1>1, <2>1, <2>3
  <2> QED
    BY <2>2, <2>3
<1> HIDE DEF t, f
<1>5. /\ Kept(s, t)
      /\ \A c \in Peer : Gap(t, c) = Gap(s, c) /\ Slack(t, c) >= Slack(s, c) - Sent(p, c)
  BY <1>2, <1>3, <1>4, NotPendingKept
<1> QED
  BY <1>2, <1>5 DEF t

(* A packet is undone and its coins are given back.                         *)
LEMMA RefundKept ==
    ASSUME NEW s, Sane(s), home \in Chain, NEW i \in DOMAIN s.packets,
           NEW who \in Accounts(s.packets[i].from)
    PROVE  LET t == RefundTransfer(Undo(s, i), who, s.packets[i])
           IN  /\ Kept(s, t) /\ t.packets = s.packets
               /\ \A c \in Peer : /\ Gap(t, c) = Gap(s, c) - Carried(s.packets[i], c)
                                  /\ Slack(t, c) >= Slack(s, c)
<1> DEFINE p == s.packets[i]
           m == Undo(s, i)
           t == RefundTransfer(m, who, p)
<1>1. /\ Kept(s, m) /\ m.packets = s.packets
      /\ \A c \in Peer : Gap(m, c) = Gap(s, c) /\ Slack(m, c) >= Slack(s, c) - Sent(p, c)
  BY UndoKept
<1>2. Hop(p) /\ p \in Packet
  BY PacketsOf
<1> HIDE DEF m
<1>3. Sane(m) /\ m \in Net0
  BY <1>1 DEF Kept, Sane
<1>4. /\ Moved(m, t)
      /\ \A c \in Peer : /\ Ledger(t, c) = Ledger(m, c) - Carried(p, c)
                         /\ Out(t, c) = Out(m, c) - IF p.to = c THEN p.amt ELSE 0
  BY <1>2, <1>3, RefundTransferIs
<1> HIDE DEF t
<1>5. Kept(s, t)
  BY <1>1, <1>3, <1>4, MovedKept, KeptTwice
<1>6. ASSUME NEW c \in Peer
      PROVE  Gap(t, c) = Gap(s, c) - Carried(p, c) /\ Slack(t, c) >= Slack(s, c)
  <2>1. t.packets = m.packets /\ t.flow = m.flow
    BY <1>4 DEF Moved
  <2>2. Ledger(t, c) = Ledger(m, c) - Carried(p, c) /\ Out(t, c) = Out(m, c) - Sent(p, c)
    BY <1>4 DEF Sent
  <2>3. /\ Ledger(m, c) \in Int /\ Transit(m.packets, c) \in Int /\ Out(m, c) \in Int
        /\ m.flow[c].in \in Int /\ m.flow[c].out \in Int
        /\ Gap(s, c) \in Int /\ Slack(s, c) \in Int
    BY <1>3, GapType
  <2>4. Carried(p, c) \in Nat /\ Sent(p, c) \in Nat
    BY <1>2, Carries
  <2>5. Gap(t, c) = Gap(m, c) - Carried(p, c) /\ Slack(t, c) = Slack(m, c) + Sent(p, c)
    BY <2>1, <2>2, <2>3, <2>4 DEF Gap, Slack
  <2>6. Slack(m, c) \in Int
    BY <1>3, GapType
  <2> QED
    BY <1>1, <2>3, <2>4, <2>5, <2>6
<1> QED
  BY <1>1, <1>4, <1>5, <1>6 DEF t, m, Moved

LEMMA LowerAckKept ==
    ASSUME NEW s, Sane(s), home \in Chain, NEW i \in DOMAIN s.packets
    PROVE  LET t == LowerOnAcknowledgementPacket(s, i)
               p == s.packets[i]
           IN  /\ Kept(s, t) /\ t.packets = s.packets
               /\ \A c \in Peer :
                      /\ Gap(t, c) = Gap(s, c) - IF p.phase = "error" THEN Carried(p, c) ELSE 0
                      /\ Slack(t, c) >= Slack(s, c)
<1> DEFINE p == s.packets[i]
           t == LowerOnAcknowledgementPacket(s, i)
<1>1. CASE p.phase = "error"
  <2>1. t = RefundTransfer(Undo(s, i), p.from, p)
    BY <1>1 DEF LowerOnAcknowledgementPacket
  <2>2. p.from \in Accounts(p.from)
    BY DEF Accounts
  <2>3. /\ Kept(s, t) /\ t.packets = s.packets
        /\ \A c \in Peer : Gap(t, c) = Gap(s, c) - Carried(p, c) /\ Slack(t, c) >= Slack(s, c)
    BY <2>1, <2>2, RefundKept
  <2> QED
    BY <1>1, <2>3
<1>2. CASE p.phase # "error"
  <2> DEFINE n == s.pending \ {i}
             u == [s EXCEPT !.pending = n]
  <2>1. t = u
    BY <1>2 DEF LowerOnAcknowledgementPacket
  <2>2. s \in Net0 /\ n \in SUBSET Nat
    BY DEF Sane, Net0
  <2> HIDE DEF n
  <2>3. /\ u \in Net0 /\ u.ok = s.ok /\ u.bal = s.bal /\ u.escrow = s.escrow
        /\ u.packets = s.packets /\ u.pending = n /\ u.flow = s.flow
    BY <2>2 DEF Net0
  <2>4. n = s.pending \ {i} /\ s.flow \in [Peer -> [in : Int, out : Int]]
    BY <2>2 DEF n, Net0
  <2> HIDE DEF t, u
  <2>5. Kept(s, u) /\ \A c \in Peer : Gap(u, c) = Gap(s, c) /\ Slack(u, c) = Slack(s, c)
    BY <2>3, <2>4, NotPendingKept
  <2>6. ASSUME NEW c \in Peer PROVE Gap(s, c) \in Int /\ Slack(s, c) \in Int
    BY GapType
  <2>7. /\ Kept(s, t) /\ t.packets = s.packets
        /\ \A c \in Peer : Gap(t, c) = Gap(s, c) - 0 /\ Slack(t, c) >= Slack(s, c)
    BY <2>1, <2>3, <2>5, <2>6
  <2> QED
    BY <1>2, <2>7 DEF t
<1> QED
  BY <1>1, <1>2

LEMMA InTransitIs ==
    ASSUME NEW q \in Seq(Packet), NEW r, NEW i \in DOMAIN q, NEW phase, Rephased(q, r, i, phase),
           NEW c
    PROVE  /\ r[i] \in Packet /\ q[i] \in Packet
           /\ InTransit(r[i], c) = IF phase \in {"sent", "error"} THEN Carried(q[i], c) ELSE 0
<1>1. r[i].phase = phase /\ Alike(r[i], q[i])
  BY RephasedFields
<1>2. r[i] \in Packet /\ q[i] \in Packet
  BY Domain DEF Rephased
<1> QED
  BY <1>1, <1>2 DEF InTransit, Carried, Alike

(* The packet that a forward forwards.                                      *)
LEMMA ParentIs ==
    ASSUME NEW s, Sane(s), NEW i \in DOMAIN s.packets, s.packets[i].parent # 0
    PROVE  LET p == s.packets[i]
               u == s.packets[p.parent]
           IN  /\ p.parent \in DOMAIN s.packets /\ p.from = "B" /\ p.dest = p.to
               /\ Hop(p) /\ Hop(u) /\ u.to = "B" /\ u.dest = p.to /\ u.amt = p.amt
               /\ p.parent # i /\ u.parent = 0 /\ u.dest # u.to
<1> DEFINE p == s.packets[i]
           u == s.packets[p.parent]
<1>1. /\ p.parent \in DOMAIN s.packets /\ p.from = "B" /\ p.dest = p.to
      /\ u.to = "B" /\ u.dest = p.to /\ u.amt = p.amt /\ Hop(p)
  BY DEF Sane, Linked, Forwards
<1>2. Hop(u) /\ (u.parent # 0 => u.from = "B")
  BY <1>1 DEF Sane, Linked, Forwards
<1> HIDE DEF u
<1>3. p.to # "B" /\ u.from # "B"
  BY <1>1, <1>2 DEF Hop, Channel
<1> QED
  BY <1>1, <1>2, <1>3 DEF u

LEMMA WriteAckKept ==
    ASSUME NEW s, Sane(s), home \in Chain, NEW i \in DOMAIN s.packets, s.packets[i].parent # 0,
           s.packets[s.packets[i].parent].phase = "waiting", NEW result \in {"ok", "error"}
    PROVE  LET t == WriteAcknowledgementForForwardedPacket(s, i, result)
               p == s.packets[i]
               u == s.packets[p.parent]
           IN  /\ Kept(s, t) /\ Rephased(s.packets, t.packets, p.parent, result)
               /\ \A c \in Peer :
                      /\ Gap(t, c) = Gap(s, c) - IF result = "error" THEN Carried(p, c) ELSE 0
                      /\ Slack(t, c) >= Slack(s, c)
                                            - IF result = "error" /\ u.from = c /\ u.dest # c THEN u.amt ELSE 0
<1> DEFINE p == s.packets[i]
           u == s.packets[p.parent]
           back   == <<"B", u.from>>
           taken  == Unescrow(s, <<"B", p.to>>, p.amt)
           undone == IF ~SenderChainIsSource("B", p.to) THEN Escrow(s, back, p.amt)
                     ELSE IF SenderChainIsSource("B", u.from)
                          THEN Escrow(taken, back, p.amt) ELSE taken
           m == IF result = "error" THEN undone ELSE s
           t == WriteAcknowledgementForForwardedPacket(s, i, result)
<1>1. /\ s \in Net0 /\ s.packets \in Seq(Packet) /\ Hop(p) /\ Hop(u) /\ p \in Packet /\ u \in Packet
      /\ p.parent \in DOMAIN s.packets /\ p.from = "B" /\ u.to = "B" /\ u.amt = p.amt
      /\ u.dest = p.to
  <2>1. s \in Net0 /\ s.packets \in Seq(Packet)
    BY DEF Sane, Net0
  <2>2. /\ Hop(p) /\ Hop(u) /\ p.parent \in DOMAIN s.packets /\ p.from = "B"
        /\ u.to = "B" /\ u.amt = p.amt /\ u.dest = p.to
    BY ParentIs
  <2> QED
    BY <2>1, <2>2 DEF Hop
<1>2. t = Phase(m, p.parent, result)
  BY DEF WriteAcknowledgementForForwardedPacket
<1>3. /\ Moved(s, undone)
      /\ \A c \in Peer :
             /\ Ledger(undone, c) = Ledger(s, c) - Carried(p, c) + Carried(u, c)
             /\ Out(undone, c) = Out(s, c) - (IF p.to = c THEN p.amt ELSE 0)
                                           + (IF u.from = c THEN p.amt ELSE 0)
  <2> HIDE DEF p, u
  <2>1. p.amt = u.amt
    BY <1>1
  <2> QED
    BY <1>1, <2>1, UndoneIs
<1> HIDE DEF undone
<1>4. ASSUME NEW c \in Peer
      PROVE  /\ Carried(p, c) \in Nat /\ Carried(u, c) \in Nat /\ Sent(p, c) \in Nat
             /\ Gap(s, c) \in Int /\ Slack(s, c) \in Int /\ u.amt \in Nat
             /\ Ledger(s, c) \in Int /\ Transit(s.packets, c) \in Int /\ Out(s, c) \in Int
             /\ s.flow[c].in \in Int /\ s.flow[c].out \in Int
  <2>1. /\ Gap(s, c) \in Int /\ Slack(s, c) \in Int
        /\ Ledger(s, c) \in Int /\ Transit(s.packets, c) \in Int /\ Out(s, c) \in Int
        /\ s.flow[c].in \in Int /\ s.flow[c].out \in Int
    BY GapType
  <2>2. Carried(p, c) \in Nat /\ Carried(u, c) \in Nat /\ Sent(p, c) \in Nat /\ u.amt \in Nat
    BY <1>1, Carries
  <2> QED
    BY <2>1, <2>2
<1>5. /\ Kept(s, m) /\ m.packets = s.packets /\ m.flow = s.flow
      /\ m.ok => s.ok
  BY <1>3, MovedKept DEF Moved, Kept, Sane
<1>6. ASSUME NEW c \in Peer
      PROVE  /\ Gap(m, c) = Gap(s, c) - (IF result = "error" THEN Carried(p, c) ELSE 0)
                                      + (IF result = "error" THEN Carried(u, c) ELSE 0)
             /\ Slack(m, c) >= Slack(s, c)
                                   - IF result = "error" /\ u.from = c /\ u.dest # c THEN u.amt ELSE 0
  <2>1. CASE result = "error"
    <3>1. /\ Ledger(m, c) = Ledger(s, c) - Carried(p, c) + Carried(u, c)
          /\ Out(m, c) = Out(s, c) - Sent(p, c) + (IF u.from = c THEN u.amt ELSE 0)
      BY <1>1, <1>3, <2>1 DEF Sent
    <3>2. Sent(p, c) = IF u.dest = c THEN u.amt ELSE 0
      BY <1>1 DEF Sent
    <3> HIDE DEF m, p, u
    <3> QED
      BY <1>4, <1>5, <2>1, <3>1, <3>2 DEF Gap, Slack
  <2>2. CASE result # "error"
    <3>1. Gap(m, c) = Gap(s, c) /\ Slack(m, c) = Slack(s, c)
      BY <2>2
    <3> HIDE DEF m, p, u
    <3> QED
      BY <1>4, <2>2, <3>1
  <2> QED
    BY <2>1, <2>2
<1> HIDE DEF m
<1>7. Sane(m) /\ result \in {"sent", "waiting", "ok", "error", "delivered", "returned"}
  BY <1>5 DEF Kept
<1>8. /\ Kept(m, t) /\ Rephased(s.packets, t.packets, p.parent, result)
      /\ \A c \in Peer :
             /\ Gap(t, c) = Gap(m, c) + InTransit(u, c) - InTransit(t.packets[p.parent], c)
             /\ Slack(t, c) = Slack(m, c)
  BY <1>1, <1>2, <1>5, <1>7, RephaseKept
<1> HIDE DEF t
<1>9. Kept(s, t)
  BY <1>5, <1>8, KeptTwice
<1>10. ASSUME NEW c \in Peer
       PROVE  /\ Gap(t, c) = Gap(s, c) - IF result = "error" THEN Carried(p, c) ELSE 0
              /\ Slack(t, c) >= Slack(s, c)
                                    - IF result = "error" /\ u.from = c /\ u.dest # c THEN u.amt ELSE 0
  <2>1. InTransit(u, c) = 0
    BY DEF InTransit
  <2>2. InTransit(t.packets[p.parent], c) = IF result = "error" THEN Carried(u, c) ELSE 0
    <3> DEFINE k == p.parent
               q == s.packets
               r == t.packets
    <3>1. q \in Seq(Packet) /\ k \in DOMAIN q /\ Rephased(q, r, k, result)
      BY <1>1, <1>8
    <3> HIDE DEF k, q, r
    <3>2. InTransit(r[k], c) = IF result \in {"sent", "error"} THEN Carried(q[k], c) ELSE 0
      BY <3>1, InTransitIs
    <3> QED
      BY <3>2 DEF k, q, r
  <2>3. Gap(t, c) = Gap(m, c) + InTransit(u, c) - InTransit(t.packets[p.parent], c)
    BY <1>8
  <2>4. Gap(m, c) \in Int
    BY <1>7, GapType
  <2> HIDE DEF p, u
  <2> QED
    BY <1>4, <1>6, <1>8, <2>1, <2>2, <2>3, <2>4
<1> QED
  BY <1>8, <1>9, <1>10 DEF t

(* The coins of a packet leave again, under what it says about retries.     *)
LEMMA ForwardKept ==
    ASSUME NEW s, Sane(s), home \in Chain, NEW i \in DOMAIN s.packets,
           s.packets[i].to = "B", s.packets[i].dest # "B", NEW n \in 0 .. MaxRetries
    PROVE  LET p == [from |-> "B", to |-> s.packets[i].dest, dest |-> s.packets[i].dest,
                     amt |-> s.packets[i].amt, parent |-> i, retries |-> n, phase |-> "sent"]
               t == ForwardTransferPacket(s, i, n)
           IN  /\ Kept(s, t) /\ t.packets = Append(s.packets, p) /\ p \in Packet
               /\ \A c \in Peer : Gap(t, c) = Gap(s, c) /\ Slack(t, c) >= Slack(s, c)
<1> DEFINE u == s.packets[i]
           p == [from |-> "B", to |-> u.dest, dest |-> u.dest, amt |-> u.amt,
                 parent |-> i, retries |-> n, phase |-> "sent"]
<1>1. /\ s \in Net0 /\ s.packets \in Seq(Packet) /\ u \in Packet /\ Linked(s.packets)
      /\ i \in Nat /\ i # 0
  BY PacketsOf, PacketIs DEF Sane
<1>2. Hop(p)
  <2>1. u.dest \in Chain /\ u.amt \in Amount
    BY <1>1 DEF Packet
  <2>2. p \in Packet
    BY <1>1, <2>1 DEF Packet, Chain
  <2>3. <<"B", u.dest>> \in Channel
    BY <2>1 DEF Chain, Channel
  <2> QED
    BY <2>2, <2>3 DEF Hop
<1>3. /\ p.from = "B" /\ p.to = u.dest /\ p.dest = p.to /\ p.parent = i /\ p.amt = u.amt
      /\ p.phase = "sent"
  OBVIOUS
<1>4. ForwardTransferPacket(s, i, n) = Transfer(s, "forwarder", p)
  BY DEF ForwardTransferPacket
<1> HIDE DEF p
<1>5. Linked(Append(s.packets, p))
  BY <1>1, <1>2, <1>3, LinkedAppend
<1>6. "forwarder" \in Accounts(p.from)
  BY <1>3 DEF Accounts
<1> QED
  BY <1>2, <1>3, <1>4, <1>5, <1>6, TransferKept DEF p, Hop

-----------------------------------------------------------------------------
(* Forwards and the packets that wait for them. *)

LEMMA WaitedRoot ==
    ASSUME NEW q \in Seq(Packet), Linked(q), Waited(q), NEW p \in Packet, p.parent = 0
    PROVE  Waited(Append(q, p))
<1> DEFINE r == Append(q, p)
           x == Len(q) + 1
<1>1. DOMAIN r = DOMAIN q \cup {x} /\ r[x] = p /\ \A j \in DOMAIN q : r[j] = q[j]
  BY Domain
<1> HIDE DEF r, x
<1>2. \A j \in DOMAIN r : Live(r[j]) => j \in DOMAIN q /\ Live(q[j])
  BY <1>1 DEF Live
<1>3. \A j \in DOMAIN q : Live(q[j]) => q[j].parent \in DOMAIN q
  BY DEF Live, Linked, Forwards
<1> QED
  BY <1>1, <1>2, <1>3 DEF Waited, r

(* A packet for which nobody waits, and that waits for nobody, moves on.    *)
LEMMA WaitedMoves ==
    ASSUME NEW q \in Seq(Packet), Linked(q), Waited(q), NEW r, NEW i \in DOMAIN q, NEW phase,
           Rephased(q, r, i, phase), q[i].phase # "waiting", Live(r[i]) => Live(q[i])
    PROVE  Waited(r)
<1>1. DOMAIN r = DOMAIN q /\ (\A j \in DOMAIN q : j # i => r[j] = q[j])
  BY DEF Rephased
<1>2. \A j \in DOMAIN q : r[j].parent = q[j].parent
  BY RephasedFields DEF Alike
<1>3. \A j \in DOMAIN r : Live(r[j]) => Live(q[j])
  BY <1>1
<1>4. \A j \in DOMAIN q : Live(q[j]) => q[j].parent \in DOMAIN q /\ q[j].parent # i
  BY DEF Live, Linked, Forwards, Waited
<1> QED
  BY <1>1, <1>2, <1>3, <1>4 DEF Waited

(* The forward is over, and so is what waited for it.                       *)
LEMMA WaitedOver ==
    ASSUME NEW q \in Seq(Packet), Linked(q), Waited(q), NEW i \in DOMAIN q, Live(q[i]),
           NEW m, NEW result, Rephased(q, m, q[i].parent, result),
           NEW r, NEW phase, Rephased(m, r, i, phase), phase \notin {"sent", "ok", "error"}
    PROVE  Waited(r)
<1> DEFINE k == q[i].parent
<1>1. /\ k \in DOMAIN q /\ q[i].from = "B" /\ q[k].to = "B" /\ k # 0
      /\ q[i].phase # "waiting"
  BY DEF Live, Linked, Forwards
<1>2. q[k].parent = 0 /\ k # i
  <2>1. Hop(q[k]) /\ Hop(q[i]) /\ (q[k].parent # 0 => q[k].from = "B")
    BY <1>1 DEF Linked, Forwards
  <2> HIDE DEF k
  <2> QED
    BY <1>1, <2>1 DEF Hop, Channel
<1> HIDE DEF k
<1>3. /\ DOMAIN m = DOMAIN q /\ m \in Seq(Packet)
      /\ \A j \in DOMAIN q : j # k => m[j] = q[j]
      /\ \A j \in DOMAIN q : m[j].parent = q[j].parent
  <2>1. k \in DOMAIN q /\ Rephased(q, m, k, result)
    BY <1>1 DEF k
  <2>2. \A j \in DOMAIN q : Alike(m[j], q[j])
    BY <2>1, RephasedFields
  <2> QED
    BY <2>1, <2>2 DEF Rephased, Alike
<1>4. /\ DOMAIN r = DOMAIN q /\ r[i].phase = phase
      /\ \A j \in DOMAIN q : j # i => r[j] = m[j]
      /\ \A j \in DOMAIN q : r[j].parent = m[j].parent
  <2>1. m \in Seq(Packet) /\ i \in DOMAIN m /\ Rephased(m, r, i, phase)
    BY <1>3
  <2>2. r[i].phase = phase /\ \A j \in DOMAIN m : Alike(r[j], m[j])
    BY <2>1, RephasedFields
  <2> QED
    BY <1>3, <2>1, <2>2 DEF Rephased, Alike
<1>5. \A j \in DOMAIN q : r[j].parent = q[j].parent
  BY <1>3, <1>4
<1>6. \A j \in DOMAIN r : Live(r[j]) => j # i /\ j # k /\ Live(q[j])
  BY <1>2, <1>3, <1>4, <1>5 DEF Live
<1>7. ASSUME NEW j \in DOMAIN q, Live(q[j]), j # i
      PROVE  /\ q[j].parent # i /\ q[j].parent # k /\ q[j].parent \in DOMAIN q
             /\ q[q[j].parent].phase = "waiting"
  BY <1>1, <1>7 DEF Live, Linked, Forwards, Waited, k
<1> QED
  BY <1>3, <1>4, <1>5, <1>6, <1>7 DEF Waited

(* A packet waits for a new forward, instead of the one that is over, or    *)
(* from now on.                                                             *)
LEMMA WaitedForward ==
    ASSUME NEW q \in Seq(Packet), Linked(q), Waited(q), NEW i \in DOMAIN q,
           NEW p \in Packet, p.parent = i, q[i].phase = "sent", q[i].parent = 0,
           NEW r, Rephased(Append(q, p), r, i, "waiting"), i # 0
    PROVE  Waited(r)
<1> DEFINE m == Append(q, p)
           x == Len(q) + 1
<1>1. /\ DOMAIN m = DOMAIN q \cup {x} /\ m[x] = p /\ x \notin DOMAIN q /\ m \in Seq(Packet)
      /\ \A j \in DOMAIN q : m[j] = q[j]
  BY Domain
<1> HIDE DEF m, x
<1>2. /\ DOMAIN r = DOMAIN m /\ r[i].phase = "waiting"
      /\ \A j \in DOMAIN m : j # i => r[j] = m[j]
      /\ \A j \in DOMAIN m : r[j].parent = m[j].parent
  <2>1. m \in Seq(Packet) /\ i \in DOMAIN m /\ Rephased(m, r, i, "waiting")
    BY <1>1 DEF m
  <2>2. r[i].phase = "waiting" /\ \A j \in DOMAIN m : Alike(r[j], m[j])
    BY <2>1, RephasedFields
  <2> QED
    BY <2>1, <2>2 DEF Rephased, Alike
<1>3. ASSUME NEW j \in DOMAIN q
      PROVE  r[j].parent = q[j].parent /\ (j # i => r[j] = q[j])
  BY <1>1, <1>2
<1>4. r[x] = p
  BY <1>1, <1>2
<1>5. \A j \in DOMAIN q : Live(r[j]) => j # i /\ Live(q[j])
  BY <1>2, <1>3 DEF Live
<1>6. \A j \in DOMAIN q : Live(q[j]) =>
          /\ q[j].parent # i /\ q[j].parent \in DOMAIN q /\ q[q[j].parent].phase = "waiting"
  BY DEF Live, Linked, Forwards, Waited
<1>7. ASSUME NEW j \in DOMAIN r, Live(r[j])
      PROVE  /\ r[r[j].parent].phase = "waiting"
             /\ \A l \in DOMAIN r : Live(r[l]) /\ r[l].parent = r[j].parent => l = j
  <2>1. CASE j = x
    BY <1>1, <1>2, <1>3, <1>4, <1>5, <1>6, <2>1
  <2>2. CASE j # x
    <3>1. j \in DOMAIN q /\ Live(q[j]) /\ r[j].parent = q[j].parent
      BY <1>1, <1>2, <1>3, <1>5, <1>7, <2>2
    <3> QED
      BY <1>1, <1>2, <1>3, <1>4, <1>5, <1>6, <3>1 DEF Waited
  <2> QED
    BY <2>1, <2>2
<1> QED
  BY <1>7 DEF Waited

LEMMA WaitedRetry ==
    ASSUME NEW q \in Seq(Packet), Linked(q), Waited(q), NEW i \in DOMAIN q, Live(q[i]),
           NEW p \in Packet, p.parent = q[i].parent,
           NEW r, NEW phase, Rephased(Append(q, p), r, i, phase),
           phase \notin {"sent", "ok", "error"}
    PROVE  Waited(r)
<1> DEFINE m == Append(q, p)
           x == Len(q) + 1
           k == q[i].parent
<1>1. /\ DOMAIN m = DOMAIN q \cup {x} /\ m[x] = p /\ x \notin DOMAIN q /\ m \in Seq(Packet)
      /\ \A j \in DOMAIN q : m[j] = q[j]
  BY Domain
<1> HIDE DEF m, x
<1>2. /\ DOMAIN r = DOMAIN m /\ r[i].phase = phase
      /\ \A j \in DOMAIN m : j # i => r[j] = m[j]
      /\ \A j \in DOMAIN m : r[j].parent = m[j].parent
  <2>1. m \in Seq(Packet) /\ i \in DOMAIN m /\ Rephased(m, r, i, phase)
    BY <1>1 DEF m
  <2>2. r[i].phase = phase /\ \A j \in DOMAIN m : Alike(r[j], m[j])
    BY <2>1, RephasedFields
  <2> QED
    BY <2>1, <2>2 DEF Rephased, Alike
<1>3. ASSUME NEW j \in DOMAIN q
      PROVE  r[j].parent = q[j].parent /\ (j # i => r[j] = q[j])
  BY <1>1, <1>2
<1>4. r[x] = p
  BY <1>1, <1>2
<1>5. \A j \in DOMAIN q : Live(r[j]) => j # i /\ Live(q[j])
  BY <1>2, <1>3 DEF Live
<1>6. \A j \in DOMAIN q : Live(q[j]) =>
          /\ q[j].parent # i /\ q[j].parent \in DOMAIN q /\ q[q[j].parent].phase = "waiting"
          /\ j # i => q[j].parent # k
  BY DEF Live, Linked, Forwards, Waited
<1>7. ASSUME NEW j \in DOMAIN r, Live(r[j])
      PROVE  /\ r[r[j].parent].phase = "waiting"
             /\ \A l \in DOMAIN r : Live(r[l]) /\ r[l].parent = r[j].parent => l = j
  <2>1. CASE j = x
    BY <1>1, <1>2, <1>3, <1>4, <1>5, <1>6, <2>1
  <2>2. CASE j # x
    <3>1. j \in DOMAIN q /\ Live(q[j]) /\ r[j].parent = q[j].parent /\ j # i
      BY <1>1, <1>2, <1>3, <1>5, <1>7, <2>2
    <3> QED
      BY <1>1, <1>2, <1>3, <1>4, <1>5, <1>6, <3>1 DEF Waited
  <2> QED
    BY <2>1, <2>2
<1> QED
  BY <1>7 DEF Waited

-----------------------------------------------------------------------------
(* What the messages do. *)

Fits(s, t) ==
    /\ Kept(s, t) /\ Waited(t.packets)
    /\ \A c \in Peer : Gap(t, c) = Gap(s, c)

(* No more is out than the flows allow for, unless a forward has failed.    *)
Within(s, t, c) ==
    \/ Slack(t, c) >= Slack(s, c)
    \/ \E k \in DOMAIN s.packets :
           /\ s.packets[k].from = c /\ s.packets[k].dest # c
           /\ s.packets[k].phase = "waiting" /\ t.packets[k].phase = "error"
           /\ Slack(t, c) >= Slack(s, c) - s.packets[k].amt

LEMMA ReadKept ==
    ASSUME NEW s, Sane(s), home \in Chain, NEW o \in BOOLEAN
    PROVE  LET t == [s EXCEPT !.ok = s.ok /\ o]
           IN  /\ Kept(s, t) /\ t.packets = s.packets
               /\ \A c \in Peer : Gap(t, c) = Gap(s, c) /\ Slack(t, c) = Slack(s, c)
<1> DEFINE n == s.ok /\ o
           t == [s EXCEPT !.ok = n]
<1>1. s \in Net0 /\ n \in BOOLEAN /\ (n => s.ok)
  BY DEF Sane, Net0
<1> HIDE DEF n
<1>2. /\ t \in Net0 /\ t.ok = n /\ t.bal = s.bal /\ t.escrow = s.escrow
      /\ t.flow = s.flow /\ t.pending = s.pending /\ t.packets = s.packets
  BY <1>1 DEF Net0
<1> HIDE DEF t
<1>3. Kept(s, t)
  BY <1>1, <1>2 DEF Kept, Sane, Flows, Solvent
<1>4. \A c \in Peer : Gap(t, c) = Gap(s, c) /\ Slack(t, c) = Slack(s, c)
  BY <1>2 DEF Gap, Slack, Ledger, Out
<1> QED
  BY <1>2, <1>3, <1>4 DEF t, n

LEMMA RecvFits ==
    ASSUME NEW s, Sane(s), home \in Chain, Waited(s.packets), NEW i \in DOMAIN s.packets,
           s.packets[i].phase = "sent"
    PROVE  LET t == OnRecvPacket(s, i)
           IN  Fits(s, t) /\ \A c \in Peer : Slack(t, c) >= Slack(s, c)
<1> DEFINE p == s.packets[i]
           q == s.packets
           t == OnRecvPacket(s, i)
<1>1. /\ s \in Net0 /\ q \in Seq(Packet) /\ Linked(q) /\ p \in Packet /\ Hop(p)
      /\ p.retries \in 0 .. MaxRetries /\ i # 0 /\ i \in DOMAIN q
  BY PacketsOf, PacketIs DEF Sane
<1>2. CASE p.to # p.dest
  <2> DEFINE a == LowerOnRecvPacket(s, "forwarder", p)
             n == p.retries
             b == ForwardTransferPacket(a, i, n)
             u == [from |-> "B", to |-> a.packets[i].dest, dest |-> a.packets[i].dest,
                   amt |-> a.packets[i].amt, parent |-> i, retries |-> n, phase |-> "sent"]
  <2>1. p.to = "B" /\ p.dest # "B" /\ p.parent = 0 /\ "forwarder" \in Accounts(p.to)
    BY <1>1, <1>2 DEF Linked, Forwards, Accounts
  <2>2. /\ Kept(s, a) /\ a.packets = q
        /\ \A c \in Peer : /\ Gap(a, c) = Gap(s, c) - Carried(p, c)
                           /\ Slack(a, c) >= Slack(s, c)
    BY <1>1, <2>1, LowerRecvKept
  <2>3. t = Phase(b, i, "waiting") /\ n \in 0 .. MaxRetries
    BY <1>1, <1>2 DEF OnRecvPacket
  <2> HIDE DEF a, n
  <2>4. /\ Sane(a) /\ a.packets[i] = p /\ i \in DOMAIN a.packets
        /\ a.packets[i].to = "B" /\ a.packets[i].dest # "B"
    BY <2>1, <2>2 DEF Kept
  <2>5. /\ Kept(a, b) /\ b.packets = Append(q, u) /\ u \in Packet
        /\ \A c \in Peer : Gap(b, c) = Gap(a, c) /\ Slack(b, c) >= Slack(a, c)
    <3>1. /\ Kept(a, b) /\ b.packets = Append(a.packets, u) /\ u \in Packet
          /\ \A c \in Peer : Gap(b, c) = Gap(a, c) /\ Slack(b, c) >= Slack(a, c)
      <4> HIDE DEF p, q, t
      <4> QED
        BY <2>3, <2>4, ForwardKept
    <3> QED
      BY <2>2, <3>1
  <2>6. u.parent = i
    OBVIOUS
  <2> HIDE DEF b, u
  <2>7. Sane(b) /\ b.packets \in Seq(Packet) /\ i \in DOMAIN b.packets /\ b.packets[i] = p
    <3>1. DOMAIN Append(q, u) = DOMAIN q \cup {Len(q) + 1} /\ Append(q, u)[i] = q[i]
      BY <1>1, <2>5, Domain
    <3> QED
      BY <1>1, <2>5, <3>1 DEF Kept, Sane, Net0
  <2>8. /\ Kept(b, t) /\ Rephased(b.packets, t.packets, i, "waiting")
        /\ \A c \in Peer : /\ Gap(t, c) = Gap(b, c) + InTransit(p, c) - InTransit(t.packets[i], c)
                           /\ Slack(t, c) = Slack(b, c)
    BY <2>3, <2>7, RephaseKept
  <2> HIDE DEF t
  <2>9. Kept(s, t)
    BY <2>2, <2>5, <2>8, KeptTwice
  <2>10. Waited(t.packets)
    BY <1>1, <2>1, <2>5, <2>6, <2>8, WaitedForward
  <2>11. ASSUME NEW c \in Peer
         PROVE  Gap(t, c) = Gap(s, c) /\ Slack(t, c) >= Slack(s, c)
    <3>1. InTransit(p, c) = Carried(p, c) /\ InTransit(t.packets[i], c) = 0
      <4>1. t.packets[i].phase = "waiting"
        BY <2>7, <2>8, RephasedFields
      <4> QED
        BY <4>1 DEF InTransit
    <3>2. /\ Gap(s, c) \in Int /\ Slack(s, c) \in Int /\ Slack(a, c) \in Int /\ Slack(b, c) \in Int
      BY <2>4, <2>7, GapType
    <3>3. Carried(p, c) \in Nat
      BY <1>1, Carries
    <3> HIDE DEF p
    <3> QED
      BY <2>2, <2>5, <2>8, <3>1, <3>2, <3>3
  <2> QED
    BY <2>9, <2>10, <2>11 DEF Fits, t
<1>3. CASE p.to = p.dest
  <2> DEFINE a == LowerOnRecvPacket(s, p.dest, p)
  <2>1. p.dest \in Accounts(p.to)
    BY <1>3 DEF Accounts
  <2>2. /\ Kept(s, a) /\ a.packets = q
        /\ \A c \in Peer : /\ Gap(a, c) = Gap(s, c) - Carried(p, c)
                           /\ Slack(a, c) >= Slack(s, c)
    BY <1>1, <2>1, LowerRecvKept
  <2>3. t = Phase(a, i, "ok")
    BY <1>3 DEF OnRecvPacket
  <2> HIDE DEF a
  <2>4. Sane(a) /\ a.packets[i] = p /\ i \in DOMAIN a.packets
    BY <2>2 DEF Kept
  <2>5. /\ Kept(a, t) /\ Rephased(q, t.packets, i, "ok")
        /\ \A c \in Peer : /\ Gap(t, c) = Gap(a, c) + InTransit(p, c) - InTransit(t.packets[i], c)
                           /\ Slack(t, c) = Slack(a, c)
    BY <2>2, <2>3, <2>4, RephaseKept
  <2> HIDE DEF t
  <2>6. Kept(s, t)
    BY <2>2, <2>5, KeptTwice
  <2>7. t.packets[i].phase = "ok" /\ t.packets[i].parent = p.parent
    BY <1>1, <2>5, RephasedFields DEF Alike
  <2>8. Waited(t.packets)
    <3>1. q[i].phase # "waiting" /\ (Live(t.packets[i]) => Live(q[i]))
      BY <2>7 DEF Live
    <3> QED
      BY <1>1, <2>5, <3>1, WaitedMoves
  <2>9. ASSUME NEW c \in Peer
        PROVE  Gap(t, c) = Gap(s, c) /\ Slack(t, c) >= Slack(s, c)
    <3>1. InTransit(p, c) = Carried(p, c) /\ InTransit(t.packets[i], c) = 0
      BY <2>7 DEF InTransit
    <3>2. /\ Gap(s, c) \in Int /\ Slack(s, c) \in Int /\ Slack(a, c) \in Int
      BY <2>4, GapType
    <3>3. Carried(p, c) \in Nat
      BY <1>1, Carries
    <3> HIDE DEF p
    <3> QED
      BY <2>2, <2>5, <3>1, <3>2, <3>3
  <2> QED
    BY <2>6, <2>8, <2>9 DEF Fits, t
<1> QED
  BY <1>2, <1>3

(* The last thing that happens to a packet that is not a forward, or to an  *)
(* acknowledgement that says that it was not received.                      *)
LEMMA MovesFit ==
    ASSUME NEW s, Sane(s), home \in Chain, Waited(s.packets), NEW i \in DOMAIN s.packets,
           s.packets[i].phase \in {"sent", "ok", "error"},
           NEW m, Kept(s, m), m.packets = s.packets,
           NEW phase \in {"error", "delivered", "returned"},
           NEW d, d = IF phase \in {"sent", "error"} THEN 0 ELSE 1,
           \A c \in Peer : /\ Gap(m, c) = Gap(s, c) - d * InTransit(s.packets[i], c)
                           /\ Slack(m, c) >= Slack(s, c),
           phase = "error" => s.packets[i].phase = "sent"
    PROVE  LET t == Phase(m, i, phase)
           IN  Fits(s, t) /\ \A c \in Peer : Slack(t, c) >= Slack(s, c)
<1> DEFINE p == s.packets[i]
           q == s.packets
           t == Phase(m, i, phase)
<1>1. /\ s \in Net0 /\ q \in Seq(Packet) /\ Linked(q) /\ p \in Packet /\ i \in DOMAIN q
  BY PacketsOf DEF Sane
<1>2. Sane(m) /\ i \in DOMAIN m.packets /\ m.packets[i] = p
  BY DEF Kept
<1>3. /\ Kept(m, t) /\ Rephased(q, t.packets, i, phase)
      /\ \A c \in Peer : /\ Gap(t, c) = Gap(m, c) + InTransit(p, c) - InTransit(t.packets[i], c)
                         /\ Slack(t, c) = Slack(m, c)
  BY <1>2, RephaseKept
<1> HIDE DEF t
<1>4. Kept(s, t)
  BY <1>3, KeptTwice
<1>5. /\ t.packets[i].phase = phase
      /\ Alike(t.packets[i], p)
  BY <1>1, <1>3, RephasedFields
<1>6. Waited(t.packets)
  <2>1. q[i].phase # "waiting" /\ (Live(t.packets[i]) => Live(q[i]))
    BY <1>5 DEF Live, Alike
  <2> QED
    BY <1>1, <1>3, <2>1, WaitedMoves
<1>7. ASSUME NEW c \in Peer
      PROVE  Gap(t, c) = Gap(s, c) /\ Slack(t, c) >= Slack(s, c)
  <2>1. InTransit(t.packets[i], c) = (1 - d) * InTransit(p, c) /\ InTransit(p, c) \in Nat
    <3>1. CASE phase = "error"
      <4>1. InTransit(t.packets[i], c) = InTransit(p, c)
        BY <1>5, <3>1 DEF InTransit, Carried, Alike
      <4>2. InTransit(p, c) \in Nat /\ d = 0
        BY <1>1, <3>1, Carries
      <4> HIDE DEF p
      <4> QED
        BY <4>1, <4>2
    <3>2. CASE phase # "error"
      BY <1>1, <1>5, <3>2, Carries DEF InTransit
    <3> QED
      BY <3>1, <3>2
  <2>2. /\ Gap(s, c) \in Int /\ Slack(s, c) \in Int /\ Slack(m, c) \in Int
    BY <1>2, GapType
  <2>3. d \in {0, 1}
    OBVIOUS
  <2> DEFINE x == InTransit(p, c)
             y == InTransit(t.packets[i], c)
  <2>4. /\ Gap(m, c) = Gap(s, c) - d * x /\ Slack(m, c) >= Slack(s, c)
        /\ Gap(t, c) = Gap(m, c) + x - y /\ Slack(t, c) = Slack(m, c)
        /\ y = (1 - d) * x /\ x \in Nat
    BY <1>3, <2>1
  <2> HIDE DEF x, y
  <2>5. CASE d = 0
    BY <2>2, <2>4, <2>5
  <2>6. CASE d = 1
    BY <2>2, <2>4, <2>6
  <2> QED
    BY <2>3, <2>5, <2>6
<1> QED
  BY <1>4, <1>6, <1>7 DEF Fits, t

(* A forward is over, with the result that the packet that waits for it     *)
(* gets.                                                                    *)
LEMMA OverFits ==
    ASSUME NEW s, Sane(s), home \in Chain, Waited(s.packets), NEW i \in DOMAIN s.packets,
           Live(s.packets[i]), NEW result \in {"ok", "error"},
           s.packets[i].phase = "ok" <=> result = "ok", NEW last \in {"delivered", "returned"}
    PROVE  LET t == Phase(WriteAcknowledgementForForwardedPacket(s, i, result), i, last)
           IN  Fits(s, t) /\ \A c \in Peer : Within(s, t, c)
<1> DEFINE p == s.packets[i]
           k == p.parent
           u == s.packets[k]
           q == s.packets
           m == WriteAcknowledgementForForwardedPacket(s, i, result)
           t == Phase(m, i, last)
<1>1. /\ s \in Net0 /\ q \in Seq(Packet) /\ Linked(q) /\ p \in Packet /\ i \in DOMAIN q
  BY PacketsOf DEF Sane
<1>2. /\ k # 0 /\ k \in DOMAIN q /\ k # i /\ u.phase = "waiting" /\ u \in Packet
      /\ u.amt \in Nat
  <2>1. k # 0
    BY DEF Live
  <2>2. k \in DOMAIN q /\ k # i
    BY <2>1, ParentIs
  <2>3. u.phase = "waiting" /\ u \in Packet
    BY <1>1, <2>2, Domain DEF Waited
  <2> QED
    BY <2>1, <2>2, <2>3, Carries
<1>3. /\ Kept(s, m) /\ Rephased(q, m.packets, k, result)
      /\ \A c \in Peer :
             /\ Gap(m, c) = Gap(s, c) - IF result = "error" THEN Carried(p, c) ELSE 0
             /\ Slack(m, c) >= Slack(s, c) - IF result = "error" /\ u.from = c /\ u.dest # c THEN u.amt ELSE 0
  BY <1>2, WriteAckKept
<1> HIDE DEF m
<1>4. /\ Sane(m) /\ m.packets \in Seq(Packet) /\ DOMAIN m.packets = DOMAIN q
      /\ m.packets[i] = p /\ m.packets[k].phase = result
  <2>1. m.packets[k].phase = result
    BY <1>1, <1>2, <1>3, RephasedFields
  <2> QED
    BY <1>1, <1>2, <1>3, <2>1 DEF Rephased, Kept
<1>5. /\ Kept(m, t) /\ Rephased(m.packets, t.packets, i, last)
      /\ \A c \in Peer : /\ Gap(t, c) = Gap(m, c) + InTransit(p, c) - InTransit(t.packets[i], c)
                         /\ Slack(t, c) = Slack(m, c)
  BY <1>1, <1>4, RephaseKept
<1> HIDE DEF t
<1>6. Kept(s, t)
  BY <1>3, <1>5, KeptTwice
<1>7. Waited(t.packets)
  <2>1. last \notin {"sent", "ok", "error"}
    OBVIOUS
  <2> QED
    BY <1>1, <1>3, <1>5, <2>1, WaitedOver
<1>8. t.packets[i].phase = last /\ t.packets[k].phase = result
  <2>1. t.packets[i].phase = last
    BY <1>1, <1>4, <1>5, RephasedFields
  <2> QED
    BY <1>2, <1>4, <1>5, <2>1 DEF Rephased
<1>9. ASSUME NEW c \in Peer
      PROVE  Gap(t, c) = Gap(s, c) /\ Within(s, t, c)
  <2>1. InTransit(t.packets[i], c) = 0
    BY <1>8 DEF InTransit
  <2>2. InTransit(p, c) = IF result = "error" THEN Carried(p, c) ELSE 0
    BY DEF InTransit, Live
  <2>3. Gap(s, c) \in Int /\ Slack(s, c) \in Int /\ Slack(m, c) \in Int
    BY <1>4, GapType
  <2>4. Carried(p, c) \in Nat
    BY <1>1, Carries
  <2> HIDE DEF p, k, u
  <2>5. Gap(t, c) = Gap(s, c)
    BY <1>3, <1>5, <2>1, <2>2, <2>3, <2>4
  <2>6. CASE result = "error" /\ u.from = c /\ u.dest # c
    <3>1. Slack(t, c) >= Slack(s, c) - u.amt
      BY <1>3, <1>5, <2>6
    <3> QED
      BY <1>2, <1>8, <2>5, <2>6, <3>1 DEF Within, u
  <2>7. CASE ~(result = "error" /\ u.from = c /\ u.dest # c)
    <3>1. Slack(t, c) >= Slack(s, c)
      BY <1>3, <1>5, <2>3, <2>7
    <3> QED
      BY <2>5, <3>1 DEF Within
  <2> QED
    BY <2>6, <2>7
<1> QED
  BY <1>6, <1>7, <1>9 DEF Fits, t, m

LEMMA WithinSlack ==
    ASSUME NEW s, NEW t, NEW c, Slack(t, c) >= Slack(s, c)
    PROVE  Within(s, t, c)
BY DEF Within

LEMMA AckFits ==
    ASSUME NEW s, Sane(s), home \in Chain, Waited(s.packets), NEW i \in DOMAIN s.packets,
           s.packets[i].phase \in {"ok", "error"}
    PROVE  LET t == Phase(OnAcknowledgementPacket(s, i), i,
                          IF s.packets[i].phase = "ok" THEN "delivered" ELSE "returned")
           IN  Fits(s, t) /\ \A c \in Peer : Within(s, t, c)
<1> DEFINE p == s.packets[i]
           last == IF p.phase = "ok" THEN "delivered" ELSE "returned"
           read == [s EXCEPT !.ok = @ /\ Readable(p)]
           m == OnAcknowledgementPacket(s, i)
           t == Phase(m, i, last)
<1>1. /\ Kept(s, read) /\ read.packets = s.packets
      /\ \A c \in Peer : Gap(read, c) = Gap(s, c) /\ Slack(read, c) = Slack(s, c)
  <2>1. read = [s EXCEPT !.ok = s.ok /\ Readable(p)]
    OBVIOUS
  <2>2. Readable(p) \in BOOLEAN
    BY DEF Readable
  <2> QED
    BY <2>1, <2>2, ReadKept
<1>2. m = IF p.parent # 0 THEN WriteAcknowledgementForForwardedPacket(read, i, p.phase)
          ELSE LowerOnAcknowledgementPacket(read, i)
  BY DEF OnAcknowledgementPacket
<1>3. p \in Packet
  BY PacketsOf
<1> HIDE DEF read, m
<1>4. Sane(read) /\ last \in {"delivered", "returned"}
  BY <1>1 DEF Kept
<1>5. CASE p.parent # 0
  <2>1. Live(p) /\ Waited(read.packets) /\ read.packets[i] = p /\ i \in DOMAIN read.packets
    BY <1>1, <1>5 DEF Live
  <2>2. m = WriteAcknowledgementForForwardedPacket(read, i, p.phase)
    BY <1>2, <1>5
  <2>3. Fits(read, t) /\ \A c \in Peer : Within(read, t, c)
    BY <1>1, <1>4, <2>1, <2>2, OverFits
  <2> HIDE DEF t
  <2>4. Kept(s, t)
    BY <1>1, <2>3, KeptTwice DEF Fits
  <2>5. Fits(s, t) /\ \A c \in Peer : Within(s, t, c)
    BY <1>1, <2>3, <2>4 DEF Fits, Within
  <2> QED
    BY <2>5 DEF t, m
<1>6. CASE p.parent = 0
  <2>1. m = LowerOnAcknowledgementPacket(read, i) /\ read.packets[i] = p /\ i \in DOMAIN read.packets
    BY <1>1, <1>2, <1>6
  <2>2. /\ Kept(read, m) /\ m.packets = s.packets
        /\ \A c \in Peer :
               /\ Gap(m, c) = Gap(read, c) - IF p.phase = "error" THEN Carried(p, c) ELSE 0
               /\ Slack(m, c) >= Slack(read, c)
    BY <1>1, <1>4, <2>1, LowerAckKept
  <2>3. Kept(s, m)
    BY <1>1, <2>2, KeptTwice
  <2>4. ASSUME NEW c \in Peer
        PROVE  Gap(m, c) = Gap(s, c) - 1 * InTransit(p, c) /\ Slack(m, c) >= Slack(s, c)
    <3>1. Carried(p, c) \in Nat
      BY <1>3, Carries
    <3>2. InTransit(p, c) = IF p.phase = "error" THEN Carried(p, c) ELSE 0
      BY DEF InTransit
    <3> HIDE DEF p
    <3> QED
      BY <1>1, <2>2, <3>1, <3>2
  <2>5. Fits(s, t) /\ \A c \in Peer : Slack(t, c) >= Slack(s, c)
    BY <1>4, <2>2, <2>3, <2>4, MovesFit
  <2> QED
    BY <2>5, WithinSlack DEF m
<1> QED
  BY <1>5, <1>6 DEF m

LEMMA TimeoutFits ==
    ASSUME NEW s, Sane(s), home \in Chain, Waited(s.packets), NEW i \in DOMAIN s.packets,
           s.packets[i].phase = "sent"
    PROVE  LET t == Phase(OnTimeoutPacket(s, i), i, "returned")
           IN  Fits(s, t) /\ \A c \in Peer : Within(s, t, c)
<1> DEFINE p == s.packets[i]
           q == s.packets
           m == OnTimeoutPacket(s, i)
           t == Phase(m, i, "returned")
<1>1. /\ s \in Net0 /\ q \in Seq(Packet) /\ Linked(q) /\ p \in Packet /\ i \in DOMAIN q
      /\ p.retries \in 0 .. MaxRetries
  BY PacketsOf, PacketIs DEF Sane
<1>2. CASE p.parent = 0
  <2>1. m = RefundTransfer(Undo(s, i), p.from, p)
    BY <1>2 DEF OnTimeoutPacket, LowerOnTimeoutPacket
  <2>2. p.from \in Accounts(p.from)
    BY DEF Accounts
  <2>3. /\ Kept(s, m) /\ m.packets = s.packets
        /\ \A c \in Peer : Gap(m, c) = Gap(s, c) - Carried(p, c) /\ Slack(m, c) >= Slack(s, c)
    BY <2>1, <2>2, RefundKept
  <2> HIDE DEF m
  <2>4. ASSUME NEW c \in Peer
        PROVE  Gap(m, c) = Gap(s, c) - 1 * InTransit(p, c) /\ Slack(m, c) >= Slack(s, c)
    <3>1. Carried(p, c) \in Nat /\ InTransit(p, c) = Carried(p, c)
      BY <1>1, Carries DEF InTransit
    <3> HIDE DEF p
    <3> QED
      BY <2>3, <3>1
  <2>5. Fits(s, t) /\ \A c \in Peer : Slack(t, c) >= Slack(s, c)
    BY <2>3, <2>4, MovesFit
  <2> QED
    BY <2>5, WithinSlack DEF m
<1>3. CASE p.parent # 0 /\ p.retries = 0
  <2>1. m = WriteAcknowledgementForForwardedPacket(s, i, "error") /\ Live(p)
    BY <1>3 DEF OnTimeoutPacket, Live
  <2> QED
    BY <2>1, OverFits
<1>4. CASE p.parent # 0 /\ p.retries # 0
  <2> DEFINE k == p.parent
             n == p.retries - 1
             a == LowerOnTimeoutPacket(s, "forwarder", i)
             u == [from |-> "B", to |-> a.packets[k].dest, dest |-> a.packets[k].dest,
                   amt |-> a.packets[k].amt, parent |-> k, retries |-> n, phase |-> "sent"]
  <2>1. /\ k \in DOMAIN q /\ p.from = "B" /\ q[k].to = "B" /\ q[k].dest # "B" /\ Live(p)
    BY <1>4, ParentIs DEF Live
  <2>2. m = ForwardTransferPacket(a, k, n)
    BY <1>4 DEF OnTimeoutPacket
  <2>3. n \in 0 .. MaxRetries /\ "forwarder" \in Accounts(p.from)
    BY <1>1, <1>4, <2>1, Constants DEF Accounts
  <2>4. a = RefundTransfer(Undo(s, i), "forwarder", p)
    BY DEF LowerOnTimeoutPacket
  <2>5. /\ Kept(s, a) /\ a.packets = q
        /\ \A c \in Peer : Gap(a, c) = Gap(s, c) - Carried(p, c) /\ Slack(a, c) >= Slack(s, c)
    BY <2>3, <2>4, RefundKept
  <2> HIDE DEF a, m, n, k
  <2>6. Sane(a) /\ k \in DOMAIN a.packets /\ a.packets[k].to = "B" /\ a.packets[k].dest # "B"
    BY <2>1, <2>5 DEF Kept
  <2>7. /\ Kept(a, m) /\ m.packets = Append(q, u) /\ u \in Packet
        /\ \A c \in Peer : Gap(m, c) = Gap(a, c) /\ Slack(m, c) >= Slack(a, c)
    BY <2>2, <2>3, <2>5, <2>6, ForwardKept
  <2>8. u.parent = k
    OBVIOUS
  <2> HIDE DEF u
  <2>9. Sane(m) /\ i \in DOMAIN m.packets /\ m.packets[i] = p
    <3>1. DOMAIN Append(q, u) = DOMAIN q \cup {Len(q) + 1} /\ Append(q, u)[i] = q[i]
      BY <1>1, <2>7, Domain
    <3> QED
      BY <1>1, <2>7, <3>1 DEF Kept
  <2>10. /\ Kept(m, t) /\ Rephased(m.packets, t.packets, i, "returned")
         /\ \A c \in Peer : /\ Gap(t, c) = Gap(m, c) + InTransit(p, c) - InTransit(t.packets[i], c)
                            /\ Slack(t, c) = Slack(m, c)
    BY <2>9, RephaseKept
  <2> HIDE DEF t
  <2>11. Kept(s, t)
    BY <2>5, <2>7, <2>10, KeptTwice
  <2>12. Waited(t.packets)
    <3>1. "returned" \notin {"sent", "ok", "error"} /\ u.parent = q[i].parent /\ Live(q[i])
      BY <2>1, <2>8 DEF k
    <3> QED
      BY <1>1, <2>7, <2>10, <3>1, WaitedRetry
  <2>13. ASSUME NEW c \in Peer
         PROVE  Gap(t, c) = Gap(s, c) /\ Within(s, t, c)
    <3>1. InTransit(p, c) = Carried(p, c) /\ InTransit(t.packets[i], c) = 0
      <4>1. m.packets \in Seq(Packet)
        BY <2>9 DEF Sane, Net0
      <4>2. t.packets[i].phase = "returned"
        BY <2>9, <2>10, <4>1, RephasedFields
      <4> QED
        BY <4>2 DEF InTransit
    <3>2. /\ Gap(s, c) \in Int /\ Slack(s, c) \in Int /\ Slack(a, c) \in Int /\ Slack(m, c) \in Int
      BY <2>6, <2>9, GapType
    <3>3. Carried(p, c) \in Nat
      BY <1>1, Carries
    <3> HIDE DEF p
    <3>4. Gap(t, c) = Gap(s, c) /\ Slack(t, c) >= Slack(s, c)
      BY <2>5, <2>7, <2>10, <3>1, <3>2, <3>3
    <3> QED
      BY <3>4, WithinSlack
  <2> QED
    BY <2>11, <2>12, <2>13 DEF Fits, t, m
<1> QED
  BY <1>2, <1>3, <1>4

-----------------------------------------------------------------------------
(* The invariant is one. *)

LEMMA InitIInv == Init => IInv
<1> SUFFICES ASSUME Init PROVE IInv
  OBVIOUS
<1>1. home \in Homes /\ home \in Chain /\ fees \subseteq FeeEnabled /\ Funds \in Nat
  BY Constants DEF Init
<1> DEFINE b == [a \in Account |-> IF a = "forwarder" THEN 0 ELSE Funds]
           e == [ch \in Channel |->
                    IF ~SenderChainIsSource(ch[1], ch[2]) THEN 0
                    ELSE IF "B" \in {home, ch[1]} THEN Funds ELSE 2 * Funds]
           f == [c \in Peer |-> [in |-> 0, out |-> 0]]
<1>2. net = [ok |-> TRUE, bal |-> b, escrow |-> e, flow |-> f, pending |-> {}, packets |-> <<>>]
  BY DEF Init
<1>3. b \in [Account -> Nat] /\ e \in [Channel -> Nat] /\ f \in [Peer -> [in : Nat, out : Nat]]
  BY <1>1
<1>4. /\ b["A"] = Funds /\ b["B"] = Funds /\ b["C"] = Funds /\ b["forwarder"] = 0
  BY Channels
<1>5. /\ e[<<"A", "B">>] = IF home = "A" THEN 2 * Funds ELSE 0
      /\ e[<<"C", "B">>] = IF home = "C" THEN 2 * Funds ELSE 0
      /\ e[<<"B", "A">>] = IF home = "A" THEN 0 ELSE Funds
      /\ e[<<"B", "C">>] = IF home = "C" THEN 0 ELSE Funds
  <2>1. \A ch \in {<<"A", "B">>, <<"B", "A">>, <<"B", "C">>, <<"C", "B">>} :
            e[ch] = IF ~SenderChainIsSource(ch[1], ch[2]) THEN 0
                    ELSE IF "B" \in {home, ch[1]} THEN Funds ELSE 2 * Funds
    BY Channels
  <2> HIDE DEF e
  <2> QED
    BY <1>1, <2>1, Directions
<1>6. \A c \in Peer : f[c].in = 0 /\ f[c].out = 0
  OBVIOUS
<1> HIDE DEF b, e, f
<1>7. /\ net.ok /\ net.bal = b /\ net.escrow = e /\ net.flow = f /\ net.pending = {}
      /\ net.packets = <<>> /\ net \in Net0
  BY <1>2, <1>3 DEF Net0
<1>8. DOMAIN net.packets = {} /\ net.packets \in Seq(Packet)
  BY <1>7 DEF Net0
<1>9. \A c \in Peer : Pending(net.packets, net.pending, c) = 0 /\ Transit(net.packets, c) = 0
  BY <1>7, <1>8, PendingNone, SumEmpty DEF Transit
<1>10. Linked(net.packets) /\ Waited(net.packets)
  BY <1>8 DEF Linked, Waited
<1>11. Flows(net)
  BY <1>6, <1>7, <1>9, Constants DEF Flows
<1>12. Solvent(net)
  BY <1>3, <1>7 DEF Solvent
<1>13. \A c \in Peer : Ledger(net, c) = 0
  BY <1>1, <1>4, <1>5, <1>7 DEF Ledger, Peer, Chain
<1> QED
  BY <1>1, <1>7, <1>9, <1>10, <1>11, <1>12, <1>13 DEF IInv, Sane, Gap

LEMMA HomeIs == ASSUME IInv PROVE home \in Chain /\ Sane(net) /\ Waited(net.packets)
BY Constants DEF IInv

LEMMA FitsIInv ==
    ASSUME IInv, Fits(net, net'), net'.ok, UNCHANGED <<home, fees>>
    PROVE  IInv'
<1>1. Sane(net') /\ Waited(net'.packets) /\ Solvent(net')
  BY DEF IInv, Fits, Kept
<1>2. \A c \in Peer : Gap(net', c) = 0
  BY DEF IInv, Fits
<1>3. \A c \in Peer : Gap(net, c)' = Gap(net', c)
  BY DEF Gap, Ledger
<1>4. Sane(net)' /\ Waited(net.packets)' /\ Solvent(net)'
  BY <1>1 DEF Sane, Solvent, Flows
<1> QED
  BY <1>2, <1>3, <1>4 DEF IInv

LEMMA TransferStep ==
    ASSUME IInv, MsgTransfer
    PROVE  Fits(net, net') /\ net'.ok /\ (\A c \in Peer : Within(net, net', c))
<1>1. PICK ch \in Channel, dest \in Chain, amt \in Amount, retries \in 0 .. MaxRetries :
          /\ dest = ch[2] \/ (ch[2] = "B" /\ dest # "B")
          /\ net' = Transfer(net, ch[1],
                        [from |-> ch[1], to |-> ch[2], dest |-> dest, amt |-> amt,
                         parent |-> 0, retries |-> retries, phase |-> "sent"])
          /\ net'.ok
  BY DEF MsgTransfer
<1> DEFINE p == [from |-> ch[1], to |-> ch[2], dest |-> dest, amt |-> amt,
                 parent |-> 0, retries |-> retries, phase |-> "sent"]
           q == net.packets
<1>2. /\ ch[1] \in Chain /\ ch[2] \in Chain /\ <<ch[1], ch[2]>> \in Channel
  BY DEF Channel, Chain
<1>3. Hop(p)
  <2>1. p \in Packet
    BY <1>2 DEF Packet
  <2> QED
    BY <1>2, <2>1 DEF Hop
<1>4. /\ p.from = ch[1] /\ p.to = ch[2] /\ p.dest = dest /\ p.parent = 0 /\ p.phase = "sent"
      /\ p \in Packet
  BY <1>3 DEF Hop
<1>5. net' = Transfer(net, ch[1], p)
  BY <1>1
<1> HIDE DEF p
<1>6. q \in Seq(Packet) /\ Linked(q) /\ Waited(q) /\ home \in Chain /\ Sane(net)
  BY HomeIs DEF Sane, Net0
<1>7. Linked(Append(q, p)) /\ Waited(Append(q, p))
  BY <1>1, <1>3, <1>4, <1>6, LinkedAppend, WaitedRoot
<1>8. ch[1] \in Accounts(p.from)
  BY <1>4 DEF Accounts
<1>9. /\ Kept(net, net') /\ net'.packets = Append(q, p)
      /\ \A c \in Peer : Gap(net', c) = Gap(net, c) /\ Slack(net', c) >= Slack(net, c)
  BY <1>3, <1>4, <1>5, <1>6, <1>7, <1>8, TransferKept
<1> QED
  BY <1>1, <1>7, <1>9, WithinSlack DEF Fits

LEMMA RecvStep ==
    ASSUME IInv, NEW i \in DOMAIN net.packets, MsgRecvPacket(i)
    PROVE  Fits(net, net') /\ net'.ok /\ (\A c \in Peer : Within(net, net', c))
<1>1. Sane(net) /\ home \in Chain /\ Waited(net.packets) /\ net.packets[i].phase = "sent"
  BY HomeIs DEF MsgRecvPacket
<1>2. CASE OnRecvPacket(net, i).ok /\ net' = OnRecvPacket(net, i)
  <2>1. Fits(net, net') /\ \A c \in Peer : Slack(net', c) >= Slack(net, c)
    BY <1>1, <1>2, RecvFits
  <2> QED
    BY <1>2, <2>1, WithinSlack
<1>3. CASE net' = Phase(net, i, "error")
  <2>1. Kept(net, net)
    BY <1>1 DEF Kept
  <2>2. ASSUME NEW c \in Peer
        PROVE  Gap(net, c) = Gap(net, c) - 0 * InTransit(net.packets[i], c) /\ Slack(net, c) >= Slack(net, c)
    <3>1. Gap(net, c) \in Int /\ Slack(net, c) \in Int
      BY <1>1, GapType
    <3>2. InTransit(net.packets[i], c) \in Nat
      BY <1>1, PacketsOf, Carries
    <3> QED
      BY <3>1, <3>2
  <2>3. Fits(net, net') /\ \A c \in Peer : Slack(net', c) >= Slack(net, c)
    BY <1>1, <1>3, <2>1, <2>2, MovesFit
  <2>4. net'.ok
    BY <1>1, <1>3, PhaseIs DEF IInv, Sane
  <2> QED
    BY <2>3, <2>4, WithinSlack
<1> QED
  BY <1>2, <1>3 DEF MsgRecvPacket

LEMMA AckStep ==
    ASSUME IInv, NEW i \in DOMAIN net.packets, MsgAcknowledgement(i)
    PROVE  Fits(net, net') /\ net'.ok /\ (\A c \in Peer : Within(net, net', c))
<1> DEFINE s == OnAcknowledgementPacket(net, i)
           last == IF net.packets[i].phase = "ok" THEN "delivered" ELSE "returned"
<1>1. /\ Sane(net) /\ home \in Chain /\ Waited(net.packets)
      /\ net.packets[i].phase \in {"ok", "error"}
      /\ s.ok /\ net' = Phase(s, i, last)
  BY HomeIs DEF MsgAcknowledgement, Handled
<1>2. Fits(net, net') /\ \A c \in Peer : Within(net, net', c)
  BY <1>1, AckFits
<1>3. net'.ok
  BY <1>1 DEF Phase
<1> QED
  BY <1>2, <1>3

LEMMA TimeoutStep ==
    ASSUME IInv, NEW i \in DOMAIN net.packets, MsgTimeout(i)
    PROVE  Fits(net, net') /\ net'.ok /\ (\A c \in Peer : Within(net, net', c))
<1> DEFINE s == OnTimeoutPacket(net, i)
<1>1. /\ Sane(net) /\ home \in Chain /\ Waited(net.packets) /\ net.packets[i].phase = "sent"
      /\ s.ok /\ net' = Phase(s, i, "returned")
  BY HomeIs DEF MsgTimeout, Handled
<1>2. Fits(net, net') /\ \A c \in Peer : Within(net, net', c)
  BY <1>1, TimeoutFits
<1>3. net'.ok
  BY <1>1 DEF Phase
<1> QED
  BY <1>2, <1>3

LEMMA StepFits ==
    ASSUME IInv, Step
    PROVE  IInv' /\ (\A c \in Peer : Within(net, net', c))
<1>1. UNCHANGED <<home, fees>>
  BY DEF Step, MsgTransfer, MsgRecvPacket, MsgAcknowledgement, MsgTimeout, Handled
<1>2. Fits(net, net') /\ net'.ok /\ (\A c \in Peer : Within(net, net', c))
  BY TransferStep, RecvStep, AckStep, TimeoutStep DEF Step
<1> QED
  BY <1>1, <1>2, FitsIInv

LEMMA ResetIInv ==
    ASSUME IInv, ResetRateLimits
    PROVE  /\ IInv'
           /\ \A c \in Peer : /\ net'.flow[c].out = 0 /\ net'.flow[c].in = 0
                              /\ Out(net', c) = Out(net, c)
<1> DEFINE f == [c \in Peer |-> [in |-> 0, out |-> 0]]
<1>1. net' = [net EXCEPT !.flow = f, !.pending = {}] /\ UNCHANGED <<home, fees>>
  BY DEF ResetRateLimits
<1>2. f \in [Peer -> [in : Int, out : Int]] /\ \A c \in Peer : f[c].in = 0 /\ f[c].out = 0
  OBVIOUS
<1>3. Sane(net) /\ net \in Net0 /\ home \in Chain /\ net.packets \in Seq(Packet)
  BY HomeIs DEF Sane, Net0
<1> HIDE DEF f
<1>4. /\ net' \in Net0 /\ net'.ok = net.ok /\ net'.bal = net.bal /\ net'.escrow = net.escrow
      /\ net'.packets = net.packets /\ net'.pending = {} /\ net'.flow = f
  BY <1>1, <1>2, <1>3 DEF Net0
<1>5. \A c \in Peer : Pending(net.packets, {}, c) = 0
  BY <1>3, PendingNone
<1>6. Flows(net')
  BY <1>2, <1>4, <1>5, Constants DEF Flows
<1>7. Fits(net, net')
  BY <1>3, <1>4, <1>6 DEF Fits, Kept, Sane, Solvent, IInv, Gap, Ledger
<1>8. IInv'
  BY <1>1, <1>4, <1>7, FitsIInv DEF IInv
<1> QED
  BY <1>2, <1>4, <1>8 DEF Out

(* However packets are brought, acknowledged, timed out, forwarded and      *)
(* retried: the ledgers of both channels balance, flows cover what may be   *)
(* taken from them, and a packet waits for at most one forward.             *)
THEOREM Invariant == Spec => []IInv
<1>1. IInv /\ [Next]_vars => IInv'
  <2> SUFFICES ASSUME IInv, [Next]_vars PROVE IInv'
    OBVIOUS
  <2>1. CASE Step
    BY <2>1, StepFits
  <2>2. CASE ResetRateLimits
    BY <2>2, ResetIInv
  <2>3. CASE UNCHANGED vars
    BY <2>3 DEF vars, IInv, Sane, Solvent, Flows, Gap, Ledger
  <2> QED
    BY <2>1, <2>2, <2>3 DEF Next
<1> QED
  BY InitIInv, <1>1, PTL DEF Spec

-----------------------------------------------------------------------------
(* What follows from it. *)

(* Nobody owes coins, and no failure of a handler stays.                    *)
LEMMA TypeIs == IInv => TypeOK
<1> SUFFICES ASSUME IInv PROVE TypeOK
  OBVIOUS
<1>1. Sane(net) /\ net \in Net0 /\ Flows(net) /\ home \in Chain /\ net.packets \in Seq(Packet)
  BY HomeIs DEF Sane, Net0
<1> DEFINE b == net.bal
           e == net.escrow
           f == net.flow
<1>2. b \in [Account -> Nat]
  BY <1>1 DEF IInv, Solvent, Net0
<1>3. e \in [Channel -> Nat]
  BY <1>1 DEF IInv, Solvent, Net0
<1>4. f \in [Peer -> [in : Nat, out : Nat]]
  <2>1. ASSUME NEW c \in Peer PROVE f[c] \in [in : Nat, out : Nat]
    <3>1. Pending(net.packets, net.pending, c) \in Nat
      BY <1>1, SumsType
    <3>2. f[c].in >= 0 /\ Pending(net.packets, net.pending, c) <= f[c].out
      BY <1>1 DEF Flows
    <3>3. f[c].in \in Int /\ f[c].out \in Int /\ f[c] \in [in : Int, out : Int]
      BY <1>1 DEF Net0
    <3>4. f[c].in \in Nat /\ f[c].out \in Nat
      BY <3>1, <3>2, <3>3
    <3> QED
      BY <3>3, <3>4
  <2>2. f \in [Peer -> [in : Int, out : Int]]
    BY <1>1 DEF Net0
  <2> QED
    BY <2>1, <2>2
<1>5. net \in Net
  <2>1. net = [ok |-> net.ok, bal |-> b, escrow |-> e, flow |-> f, pending |-> net.pending,
               packets |-> net.packets]
    BY <1>1 DEF Net0
  <2>2. net.ok \in BOOLEAN /\ net.pending \in SUBSET Nat
    BY <1>1 DEF Net0
  <2> HIDE DEF b, e, f
  <2> QED
    BY <1>1, <1>2, <1>3, <1>4, <2>1, <2>2 DEF Net
<1> QED
  BY <1>5 DEF TypeOK, IInv

THEOREM TypeCorrect == Spec => []TypeOK
BY Invariant, TypeIs, PTL

-----------------------------------------------------------------------------
(* What the handlers do to the accounts. *)

(* The channel of B and c on which no vouchers are escrowed for c or B.      *)
Dead(c) == IF home = c THEN <<"B", c>> ELSE <<c, "B">>

Idle(s, t) == \A c \in Peer : t.escrow[Dead(c)] = s.escrow[Dead(c)]

Took(s, t, who, amt) ==
    /\ t \in Net0 /\ t.packets = s.packets /\ Idle(s, t)
    /\ t.bal = [s.bal EXCEPT ![who] = @ - amt]
    /\ t.ok => s.bal[who] >= amt

Gave(s, t, who, amt) ==
    /\ t \in Net0 /\ t.packets = s.packets /\ Idle(s, t)
    /\ t.bal = [s.bal EXCEPT ![who] = @ + amt]

LEMMA Users == Chain \in SUBSET Account /\ "forwarder" \in Account /\ "forwarder" \notin Chain
BY DEF Chain, Account

LEMMA HopChannels ==
    ASSUME NEW p, Hop(p)
    PROVE  /\ p \in Packet /\ p.amt \in Int /\ p.amt \in Nat
           /\ p.from \in Chain /\ p.to \in Chain /\ p.dest \in Chain /\ p.amt \in Amount
           /\ <<p.from, p.to>> \in Channel /\ <<p.to, p.from>> \in Channel
<1>1. p \in Packet /\ <<p.from, p.to>> \in Channel
  BY DEF Hop
<1>2. p.from \in Chain /\ p.to \in Chain /\ p.dest \in Chain /\ p.amt \in Amount
  BY <1>1 DEF Packet
<1>3. <<p.to, p.from>> \in Channel
  BY <1>1, <1>2 DEF Channel, Chain
<1>4. p.amt \in Nat
  BY <1>1, Carries
<1>. QED  BY <1>1, <1>2, <1>3, <1>4

LEMMA DeadIs ==
    ASSUME home \in Chain
    PROVE  /\ \A c \in Peer : Dead(c) \in Channel
           /\ \A c \in Peer, ch \in Channel : SenderChainIsSource(ch[1], ch[2]) => ch # Dead(c)
<1>1. ASSUME NEW c \in Peer PROVE Dead(c) \in Channel
  BY DEF Dead, Peer, Channel
<1>2. ASSUME NEW c \in Peer, NEW ch \in Channel, SenderChainIsSource(ch[1], ch[2])
      PROVE  ch # Dead(c)
  BY <1>2, Directions DEF Dead, Peer, Channel
<1>. QED  BY <1>1, <1>2

(* Neighbours have one channel, on which one of them is the source.         *)
LEMMA HopDead ==
    ASSUME home \in Chain, NEW p, Hop(p)
    PROVE  /\ SenderChainIsSource(p.from, p.to) => \A c \in Peer : Dead(c) # <<p.from, p.to>>
           /\ ~SenderChainIsSource(p.from, p.to) => \A c \in Peer : Dead(c) # <<p.to, p.from>>
<1>1. <<p.from, p.to>> \in Channel
  BY DEF Hop
<1>2. CASE p.from = "A" /\ p.to = "B"
  BY <1>2, Directions DEF Dead, Peer
<1>3. CASE p.from = "B" /\ p.to = "A"
  BY <1>3, Directions DEF Dead, Peer
<1>4. CASE p.from = "B" /\ p.to = "C"
  BY <1>4, Directions DEF Dead, Peer
<1>5. CASE p.from = "C" /\ p.to = "B"
  BY <1>5, Directions DEF Dead, Peer
<1>. QED  BY <1>1, <1>2, <1>3, <1>4, <1>5 DEF Channel

(* Escrow that changes on another channel.                                  *)
LEMMA IdleChange ==
    ASSUME NEW s \in Net0, NEW ch \in Channel, NEW x, NEW t, NEW u, u.escrow = s.escrow,
           t.escrow = [u.escrow EXCEPT ![ch] = x], \A c \in Peer : Dead(c) # ch, home \in Chain
    PROVE  Idle(s, t)
<1>1. \A c \in Peer : Dead(c) \in Channel
  BY DeadIs
<1>2. s.escrow \in [Channel -> Int]
  BY DEF Net0
<1>. QED  BY <1>1, <1>2 DEF Idle

LEMMA SendTook ==
    ASSUME home \in Chain, NEW s \in Net0, NEW p, Hop(p), NEW who \in Account,
           NEW t, t = SendTransfer(s, who, p)
    PROVE  Took(s, t, who, p.amt)
<1>. DEFINE d == Debit(s, who, p.amt)
<1>1. p.amt \in Int /\ <<p.from, p.to>> \in Channel
  BY HopChannels
<1>2. /\ Is(d, s, [s.bal EXCEPT ![who] = @ - p.amt], s.escrow, s.flow)
      /\ d.ok => s.bal[who] >= p.amt
  BY <1>1, DebitIs
<1>3. d \in Net0
  BY <1>2 DEF Is
<1>4. t = IF SenderChainIsSource(p.from, p.to) THEN Escrow(d, <<p.from, p.to>>, p.amt) ELSE d
  BY DEF SendTransfer
<1>. HIDE DEF d
<1>5. CASE SenderChainIsSource(p.from, p.to)
  <2>1. t = Escrow(d, <<p.from, p.to>>, p.amt)
    BY <1>4, <1>5
  <2>2. /\ Is(t, d, d.bal, [d.escrow EXCEPT ![<<p.from, p.to>>] = @ + p.amt], d.flow)
        /\ t.ok = d.ok
    BY <1>1, <1>3, <2>1, EscrowIs
  <2>3. Idle(s, t)
    <3>. DEFINE x == d.escrow[<<p.from, p.to>>] + p.amt
    <3>1. t.escrow = [d.escrow EXCEPT ![<<p.from, p.to>>] = x] /\ d.escrow = s.escrow
      BY <1>2, <2>2 DEF Is
    <3>. HIDE DEF x
    <3>2. \A c \in Peer : Dead(c) # <<p.from, p.to>>
      BY <1>5, HopDead
    <3>. QED  BY <1>1, <3>1, <3>2, IdleChange
  <2>. QED  BY <1>2, <2>2, <2>3 DEF Is, Took
<1>6. CASE ~SenderChainIsSource(p.from, p.to)
  BY <1>2, <1>4, <1>6 DEF Is, Took, Idle
<1>. QED  BY <1>5, <1>6

LEMMA CreditGave ==
    ASSUME home \in Chain, NEW s \in Net0, NEW p, Hop(p), NEW who \in Account,
           NEW ch \in Channel, NEW direct, direct \/ \A c \in Peer : Dead(c) # ch, NEW t,
           t = IF direct THEN Credit(s, who, p.amt)
               ELSE Unescrow(Credit(s, who, p.amt), ch, p.amt)
    PROVE  Gave(s, t, who, p.amt)
<1>. DEFINE d == Credit(s, who, p.amt)
<1>1. p.amt \in Int
  BY HopChannels
<1>2. Is(d, s, [s.bal EXCEPT ![who] = @ + p.amt], s.escrow, s.flow)
  BY <1>1, CreditIs
<1>3. d \in Net0
  BY <1>2 DEF Is
<1>. HIDE DEF d
<1>4. CASE direct
  <2>1. t = d
    BY <1>4 DEF d
  <2>. QED  BY <1>2, <2>1 DEF Is, Gave, Idle
<1>5. CASE ~direct
  <2>1. t = Unescrow(d, ch, p.amt)
    BY <1>5 DEF d
  <2>2. Is(t, d, d.bal, [d.escrow EXCEPT ![ch] = @ - p.amt], d.flow)
    BY <1>1, <1>3, <2>1, UnescrowIs
  <2>3. Idle(s, t)
    <3>. DEFINE x == d.escrow[ch] - p.amt
    <3>1. t.escrow = [d.escrow EXCEPT ![ch] = x] /\ d.escrow = s.escrow
      BY <1>2, <2>2 DEF Is
    <3>. HIDE DEF x
    <3>. QED  BY <1>5, <3>1, IdleChange
  <2>. QED  BY <1>2, <2>2, <2>3 DEF Is, Gave
<1>. QED  BY <1>4, <1>5

LEMMA RecvGave ==
    ASSUME home \in Chain, NEW s \in Net0, NEW p, Hop(p), NEW who \in Account,
           NEW t, t = RecvTransfer(s, who, p)
    PROVE  Gave(s, t, who, p.amt)
<1>. DEFINE direct == SenderChainIsSource(p.from, p.to)
            ch == <<p.to, p.from>>
<1>1. t = IF direct THEN Credit(s, who, p.amt)
          ELSE Unescrow(Credit(s, who, p.amt), ch, p.amt)
  BY DEF RecvTransfer
<1>2. ch \in Channel
  BY HopChannels
<1>3. direct \/ \A c \in Peer : Dead(c) # ch
  BY HopDead
<1>. HIDE DEF direct, ch
<1>. QED  BY <1>1, <1>2, <1>3, CreditGave

LEMMA RefundGave ==
    ASSUME home \in Chain, NEW s \in Net0, NEW p, Hop(p), NEW who \in Account,
           NEW t, t = RefundTransfer(s, who, p)
    PROVE  Gave(s, t, who, p.amt)
<1>. DEFINE direct == ~SenderChainIsSource(p.from, p.to)
            ch == <<p.from, p.to>>
<1>1. t = IF direct THEN Credit(s, who, p.amt)
          ELSE Unescrow(Credit(s, who, p.amt), ch, p.amt)
  BY DEF RefundTransfer
<1>2. ch \in Channel
  BY HopChannels
<1>3. direct \/ \A c \in Peer : Dead(c) # ch
  BY HopDead
<1>. HIDE DEF direct, ch
<1>. QED  BY <1>1, <1>2, <1>3, CreditGave

(* A packet has left, with coins of who.                                    *)
Left(s, t, who, p) ==
    /\ t.bal = [s.bal EXCEPT ![who] = @ - p.amt]
    /\ t.ok => s.bal[who] >= p.amt
    /\ t.packets = Append(s.packets, p) /\ Idle(s, t)

LEMMA TransferTook ==
    ASSUME home \in Chain, NEW s \in Net0, NEW p, Hop(p), NEW who \in Account,
           NEW t, t = Transfer(s, who, p)
    PROVE  Left(s, t, who, p)
<1>. DEFINE m == SendTransfer(s, who, p)
<1>1. Took(s, m, who, p.amt)
  BY SendTook
<1>2. t = SendPacket(m, p)
  BY DEF Transfer
<1>. HIDE DEF m
<1>3. m \in Net0
  BY <1>1 DEF Took
<1>4. /\ SendPacket(m, p).bal = m.bal /\ (SendPacket(m, p).ok => m.ok)
      /\ SendPacket(m, p).packets = Append(m.packets, p)
      /\ SendPacket(m, p).escrow = m.escrow
  BY <1>3, SendPacketIs
<1>. QED  BY <1>1, <1>2, <1>4 DEF Took, Left, Idle

LEMMA LowerRecvGave ==
    ASSUME home \in Chain, NEW s \in Net0, NEW p, Hop(p), NEW who \in Account,
           NEW t, t = LowerOnRecvPacket(s, who, p)
    PROVE  Gave(s, t, who, p.amt)
<1>. DEFINE m == IF p.to = "B" THEN AddInflow(s, p.from, p.amt) ELSE s
<1>1. m \in Net0 /\ m.bal = s.bal /\ m.packets = s.packets /\ m.escrow = s.escrow
  <2>1. CASE p.to = "B"
    <3>1. p.from \in Peer /\ p.amt \in Int
      BY <2>1, HopChannels DEF Hop, Channel, Peer
    <3>2. Is(m, s, s.bal, s.escrow, [s.flow EXCEPT ![p.from].in = @ + p.amt])
      BY <2>1, <3>1, AddInflowIs
    <3>. QED  BY <3>2 DEF Is
  <2>2. CASE p.to # "B"
    BY <2>2
  <2>. QED  BY <2>1, <2>2
<1>2. t = RecvTransfer(m, who, p)
  BY DEF LowerOnRecvPacket
<1>. HIDE DEF m
<1>3. Gave(m, t, who, p.amt)
  BY <1>1, <1>2, RecvGave
<1>. QED  BY <1>1, <1>3 DEF Gave, Idle

LEMMA UndoRefundGave ==
    ASSUME home \in Chain, NEW s, Sane(s), NEW i \in DOMAIN s.packets, NEW who \in Account,
           NEW t, t = RefundTransfer(Undo(s, i), who, s.packets[i])
    PROVE  Gave(s, t, who, s.packets[i].amt)
<1>. DEFINE m == Undo(s, i)
            p == s.packets[i]
<1>1. s \in Net0 /\ Hop(p) /\ (i \in s.pending => p.to \in Peer)
  BY PacketsOf
<1>2. m \in Net0 /\ m.bal = s.bal /\ m.packets = s.packets /\ m.escrow = s.escrow
  BY <1>1, UndoIs
<1>. HIDE DEF m
<1>3. t = RefundTransfer(m, who, p)
  BY DEF m
<1>. HIDE DEF p
<1>4. Gave(m, t, who, p.amt)
  BY <1>1, <1>2, <1>3, RefundGave
<1>. QED  BY <1>2, <1>4 DEF Gave, Idle, p

(* A new packet that forwards packet i.                                     *)
Forwarded(s, t, i) ==
    /\ Idle(s, t)
    /\ t.bal = [s.bal EXCEPT !["forwarder"] = @ - s.packets[i].amt]
    /\ \E u \in Packet : /\ u.parent = i /\ u.phase = "sent"
                         /\ t.packets = Append(s.packets, u)

LEMMA ForwardTook ==
    ASSUME home \in Chain, NEW s, Sane(s), NEW i \in DOMAIN s.packets,
           s.packets[i].to = "B", s.packets[i].dest # "B", NEW n \in 0 .. MaxRetries,
           NEW t, t = ForwardTransferPacket(s, i, n)
    PROVE  Forwarded(s, t, i)
<1>. DEFINE u == s.packets[i]
            p == [from |-> "B", to |-> u.dest, dest |-> u.dest, amt |-> u.amt,
                  parent |-> i, retries |-> n, phase |-> "sent"]
<1>1. s \in Net0 /\ u \in Packet /\ i \in Nat
  BY PacketsOf, PacketIs DEF Sane
<1>2. p \in Packet /\ Hop(p)
  <2>1. u.dest \in Chain /\ u.amt \in Amount
    BY <1>1 DEF Packet
  <2>2. p \in Packet
    BY <1>1, <2>1 DEF Packet, Chain
  <2>3. <<"B", u.dest>> \in Channel
    BY <2>1 DEF Chain, Channel
  <2>. QED  BY <2>2, <2>3 DEF Hop
<1>3. p.amt = u.amt /\ p.parent = i /\ p.phase = "sent"
  OBVIOUS
<1>4. t = Transfer(s, "forwarder", p) /\ "forwarder" \in Account
  BY DEF ForwardTransferPacket, Account
<1>. HIDE DEF p
<1>5. Left(s, t, "forwarder", p)
  BY <1>1, <1>2, <1>4, TransferTook
<1>. QED  BY <1>2, <1>3, <1>5 DEF Forwarded, Left

LEMMA WriteAckBal ==
    ASSUME NEW s, Sane(s), NEW i \in DOMAIN s.packets, s.packets[i].parent # 0,
           NEW result \in {"ok", "error"},
           NEW t, t = WriteAcknowledgementForForwardedPacket(s, i, result)
    PROVE  t.bal = s.bal
<1>. DEFINE p == s.packets[i]
            u == s.packets[p.parent]
            back   == <<"B", u.from>>
            taken  == Unescrow(s, <<"B", p.to>>, p.amt)
            undone == IF ~SenderChainIsSource("B", p.to) THEN Escrow(s, back, p.amt)
                      ELSE IF SenderChainIsSource("B", u.from)
                           THEN Escrow(taken, back, p.amt) ELSE taken
            m == IF result = "error" THEN undone ELSE s
<1>1. /\ s \in Net0 /\ Hop(p) /\ Hop(u) /\ p.from = "B" /\ u.to = "B"
      /\ p.parent \in DOMAIN s.packets
  BY ParentIs DEF Sane
<1>2. back \in Channel /\ <<"B", p.to>> \in Channel /\ p.amt \in Int
  <2>1. <<u.to, u.from>> \in Channel /\ <<p.from, p.to>> \in Channel /\ p.amt \in Int
    <3>. HIDE DEF p, u
    <3>. QED  BY <1>1, HopChannels
  <2>. QED  BY <1>1, <2>1
<1>3. t = Phase(m, p.parent, result)
  BY DEF WriteAcknowledgementForForwardedPacket
<1>4. taken \in Net0 /\ taken.bal = s.bal /\ taken.packets = s.packets
  <2>1. Is(taken, s, s.bal, [s.escrow EXCEPT ![<<"B", p.to>>] = @ - p.amt], s.flow)
    BY <1>1, <1>2, UnescrowIs
  <2>. QED  BY <2>1 DEF Is
<1>. HIDE DEF taken, back
<1>5. ASSUME NEW x \in Net0
      PROVE  /\ Escrow(x, back, p.amt) \in Net0 /\ Escrow(x, back, p.amt).bal = x.bal
             /\ Escrow(x, back, p.amt).packets = x.packets
  <2>1. Is(Escrow(x, back, p.amt), x, x.bal, [x.escrow EXCEPT ![back] = @ + p.amt], x.flow)
    BY <1>2, EscrowIs
  <2>. QED  BY <2>1 DEF Is
<1>6. m \in Net0 /\ m.bal = s.bal /\ m.packets = s.packets
  BY <1>1, <1>4, <1>5
<1>. HIDE DEF m
<1>7. p.parent \in DOMAIN m.packets
      /\ result \in {"sent", "waiting", "ok", "error", "delivered", "returned"}
  BY <1>1, <1>6
<1>8. Phase(m, p.parent, result).bal = m.bal
  BY <1>6, <1>7, PhaseIs
<1>. QED  BY <1>3, <1>6, <1>8

-----------------------------------------------------------------------------
(* What is minted for transfers from home that should go right back.        *)

AmtsOf(q) == [i \in DOMAIN q |-> q[i].amt]

(* A packet that B has not brought further.                                 *)
Lost(q, j) ==
    /\ q[j].to = "B" /\ q[j].phase \in {"error", "returned"}
    /\ \E i \in DOMAIN q : q[i].parent = j

VainOf(q) == {j \in DOMAIN q : q[j].from = home /\ q[j].dest = home /\ Lost(q, j)}

Vain(q) == SumFunctionOnSet(AmtsOf(q), VainOf(q))

(* A packet that has been forwarded has been received.                      *)
Begun(q) == \A i \in DOMAIN q : q[i].parent # 0 => q[q[i].parent].phase # "sent"

(* What escrow accounts on the way home have in s they have in t, and what  *)
(* was lost in between.                                                     *)
Even(s, t) ==
    \A c \in Peer : t.escrow[Dead(c)]
        = s.escrow[Dead(c)] + IF home = c THEN Vain(t.packets) - Vain(s.packets) ELSE 0

Vained(s) ==
    /\ Begun(s.packets)
    /\ \A c \in Peer : s.escrow[Dead(c)] = IF home = c THEN Vain(s.packets) ELSE 0

LEMMA VainType ==
    ASSUME NEW q \in Seq(Packet)
    PROVE  Vain(q) \in Int /\ IsFiniteSet(VainOf(q)) /\ \A j \in DOMAIN q : AmtsOf(q)[j] \in Int
<1>. DEFINE S == VainOf(q)
            f == AmtsOf(q)
<1>1. \A j \in DOMAIN q : f[j] \in Int
  BY Domain, Carries, SMTT(30) DEF AmtsOf
<1>2. S \in SUBSET DOMAIN q /\ IsFiniteSet(DOMAIN q)
  BY Domain DEF VainOf
<1>. HIDE DEF S, f
<1>3. IsFiniteSet(S)
  BY <1>2, FS_Subset
<1>4. SumFunctionOnSet(f, S) \in Int
  BY <1>1, <1>2, <1>3, SumInt
<1>. QED  BY <1>1, <1>3, <1>4 DEF Vain, S, f

LEMMA VainSame ==
    ASSUME NEW q \in Seq(Packet), NEW r, VainOf(r) = VainOf(q), DOMAIN q \in SUBSET DOMAIN r,
           \A j \in DOMAIN q : r[j].amt = q[j].amt
    PROVE  Vain(r) = Vain(q)
<1>. DEFINE S == VainOf(q)
            f == AmtsOf(q)
            g == AmtsOf(r)
<1>1. IsFiniteSet(S)
  BY VainType
<1>2. \A j \in S : g[j] = f[j]
  BY DEF AmtsOf, VainOf
<1>. HIDE DEF S, f, g
<1>3. SumFunctionOnSet(g, S) = SumFunctionOnSet(f, S)
  BY <1>1, <1>2, SumSame
<1>. QED  BY <1>3 DEF Vain, S, f, g

LEMMA VainAppend ==
    ASSUME NEW q \in Seq(Packet), NEW p \in Packet, p.phase = "sent",
           p.parent # 0 => p.parent \in DOMAIN q /\ q[p.parent].phase \notin {"error", "returned"}
    PROVE  Vain(Append(q, p)) = Vain(q)
<1>. DEFINE r == Append(q, p)
            x == Len(q) + 1
<1>1. /\ DOMAIN r = DOMAIN q \cup {x} /\ r[x] = p /\ (\A j \in DOMAIN q : r[j] = q[j] /\ j # 0)
      /\ x \notin DOMAIN q /\ Len(q) \in Nat
  BY Domain
<1>. HIDE DEF r, x
<1>2. ASSUME NEW j \in DOMAIN q PROVE Lost(r, j) <=> Lost(q, j)
  <2>1. CASE p.parent = j
    BY <1>1, <2>1 DEF Lost
  <2>2. CASE p.parent # j
    BY <1>1, <2>2 DEF Lost
  <2>. QED  BY <2>1, <2>2
<1>3. ~Lost(r, x)
  BY <1>1 DEF Lost
<1>4. VainOf(r) = VainOf(q)
  BY <1>1, <1>2, <1>3 DEF VainOf
<1>5. Vain(r) = Vain(q)
  BY <1>1, <1>4, VainSame
<1>. QED  BY <1>5 DEF r

LEMMA VainRephase ==
    ASSUME NEW q \in Seq(Packet), NEW i \in DOMAIN q, NEW phase, NEW r, Rephased(q, r, i, phase),
           \/ q[i].to # "B"
           \/ phase \in {"error", "returned"} <=> q[i].phase \in {"error", "returned"}
           \/ \A j \in DOMAIN q : q[j].parent # i
    PROVE  Vain(r) = Vain(q)
<1>1. r[i].phase = phase /\ \A j \in DOMAIN q : Alike(r[j], q[j])
  BY RephasedFields
<1>2. DOMAIN r = DOMAIN q /\ \A j \in DOMAIN q : j # i => r[j] = q[j]
  BY DEF Rephased
<1>3. ASSUME NEW j \in DOMAIN q PROVE Lost(r, j) <=> Lost(q, j)
  <2>1. CASE j = i
    BY <1>1, <1>2, <2>1 DEF Lost, Alike
  <2>2. CASE j # i
    BY <1>1, <1>2, <2>2 DEF Lost, Alike
  <2>. QED  BY <2>1, <2>2
<1>4. VainOf(r) = VainOf(q)
  BY <1>1, <1>2, <1>3 DEF VainOf, Alike
<1>. QED  BY <1>1, <1>2, <1>4, VainSame DEF Alike

(* A forward fails: the packet that waits for it is lost.                   *)
LEMMA VainMore ==
    ASSUME NEW q \in Seq(Packet), NEW i \in DOMAIN q, NEW r, Rephased(q, r, i, "error"),
           q[i].phase = "waiting", q[i].to = "B", \E j \in DOMAIN q : q[j].parent = i
    PROVE  Vain(r) = Vain(q) + IF q[i].from = home /\ q[i].dest = home THEN q[i].amt ELSE 0
<1>1. r[i].phase = "error" /\ \A j \in DOMAIN q : Alike(r[j], q[j])
  BY RephasedFields
<1>2. DOMAIN r = DOMAIN q /\ (\A j \in DOMAIN q : j # i => r[j] = q[j]) /\ r \in Seq(Packet)
  BY DEF Rephased
<1>3. ASSUME NEW j \in DOMAIN q PROVE Lost(r, j) <=> Lost(q, j) \/ j = i
  <2>1. CASE j = i
    BY <1>1, <1>2, <2>1 DEF Lost, Alike
  <2>2. CASE j # i
    BY <1>1, <1>2, <2>2 DEF Lost, Alike
  <2>. QED  BY <2>1, <2>2
<1>4. i \notin VainOf(q)
  BY DEF VainOf, Lost
<1>5. CASE q[i].from = home /\ q[i].dest = home
  <2>. DEFINE S == VainOf(q)
              f == AmtsOf(q)
              g == AmtsOf(r)
  <2>1. VainOf(r) = S \cup {i}
    BY <1>1, <1>2, <1>3, <1>5 DEF VainOf, Alike
  <2>2. IsFiniteSet(S) /\ i \notin S /\ (\A j \in S : f[j] = g[j] /\ g[j] \in Int)
    <3>1. IsFiniteSet(S) /\ i \notin S
      BY <1>4, VainType
    <3>2. \A j \in DOMAIN q : g[j] = f[j] /\ f[j] \in Int
      BY <1>1, <1>2, VainType DEF AmtsOf, Alike
    <3>. QED  BY <3>1, <3>2 DEF VainOf
  <2>3. g[i] = q[i].amt /\ g[i] \in Int
    BY <1>1, <1>2, VainType DEF AmtsOf, Alike
  <2>4. Vain(r) = SumFunctionOnSet(g, S \cup {i}) /\ Vain(q) = SumFunctionOnSet(f, S)
    BY <2>1 DEF Vain
  <2>. HIDE DEF S, f, g
  <2>5. SumFunctionOnSet(g, S \cup {i}) = SumFunctionOnSet(g, S) + g[i]
    <3>1. i \notin S /\ (\A y \in S : g[y] \in Int) /\ g[i] \in Int /\ IsFiniteSet(S)
      BY <2>2, <2>3
    <3>. HIDE DEF S, g
    <3>. QED  BY <3>1, SumAdd
  <2>6. SumFunctionOnSet(g, S) = SumFunctionOnSet(f, S)
    BY <2>2, SumSame
  <2>. QED  BY <1>5, <2>3, <2>4, <2>5, <2>6
<1>6. CASE ~(q[i].from = home /\ q[i].dest = home)
  <2>1. VainOf(r) = VainOf(q)
    BY <1>1, <1>2, <1>3, <1>6 DEF VainOf, Alike
  <2>2. Vain(r) = Vain(q) /\ Vain(q) \in Int
    BY <1>1, <1>2, <2>1, VainSame, VainType DEF Alike
  <2>. QED  BY <1>6, <2>2
<1>. QED  BY <1>5, <1>6

LEMMA BegunRephased ==
    ASSUME NEW q \in Seq(Packet), Linked(q), Begun(q), NEW i \in DOMAIN q, NEW phase, NEW r,
           Rephased(q, r, i, phase), phase # "sent"
    PROVE  Begun(r)
<1>1. r[i].phase = phase /\ \A j \in DOMAIN q : r[j].parent = q[j].parent
  BY RephasedFields DEF Alike
<1>2. DOMAIN r = DOMAIN q /\ \A j \in DOMAIN q : j # i => r[j] = q[j]
  BY DEF Rephased
<1>3. \A j \in DOMAIN q : q[j].parent # 0 => q[j].parent \in DOMAIN q
  BY DEF Linked, Forwards
<1>. QED  BY <1>1, <1>2, <1>3 DEF Begun

LEMMA BegunAppend ==
    ASSUME NEW q \in Seq(Packet), Linked(q), Begun(q), NEW p \in Packet, p.parent = 0
    PROVE  Begun(Append(q, p))
<1>. DEFINE r == Append(q, p)
            x == Len(q) + 1
<1>1. DOMAIN r = DOMAIN q \cup {x} /\ r[x] = p /\ (\A j \in DOMAIN q : r[j] = q[j])
  BY Domain
<1>. HIDE DEF r, x
<1>2. \A j \in DOMAIN q : q[j].parent # 0 => q[j].parent \in DOMAIN q
  BY DEF Linked, Forwards
<1>3. Begun(r)
  BY <1>1, <1>2 DEF Begun
<1>. QED  BY <1>3 DEF r

LEMMA BegunForward ==
    ASSUME NEW q \in Seq(Packet), Linked(q), Begun(q), NEW u \in Packet, u.parent \in DOMAIN q,
           NEW i \in DOMAIN q, NEW phase, phase # "sent",
           u.parent = i \/ q[u.parent].phase # "sent",
           NEW r, Rephased(Append(q, u), r, i, phase)
    PROVE  Begun(r)
<1>. DEFINE a == Append(q, u)
            x == Len(q) + 1
<1>1. /\ DOMAIN a = DOMAIN q \cup {x} /\ a[x] = u /\ (\A j \in DOMAIN q : a[j] = q[j])
      /\ a \in Seq(Packet) /\ Rephased(a, r, i, phase)
  BY Domain
<1>. HIDE DEF a, x
<1>2. r[i].phase = phase /\ \A j \in DOMAIN a : r[j].parent = a[j].parent
  BY <1>1, RephasedFields DEF Alike
<1>3. DOMAIN r = DOMAIN a /\ \A j \in DOMAIN a : j # i => r[j] = a[j]
  BY <1>1 DEF Rephased
<1>4. \A j \in DOMAIN q : q[j].parent # 0 => q[j].parent \in DOMAIN q
  BY DEF Linked, Forwards
<1>5. ASSUME NEW j \in DOMAIN q, r[j].parent # 0 PROVE r[r[j].parent].phase # "sent"
  BY <1>1, <1>2, <1>3, <1>4, <1>5 DEF Begun
<1>6. r[r[x].parent].phase # "sent"
  BY <1>1, <1>2, <1>3
<1>. QED  BY <1>1, <1>3, <1>5, <1>6 DEF Begun

LEMMA EvenTwice ==
    ASSUME home \in Chain, NEW s \in Net0, NEW m \in Net0, NEW t \in Net0, Even(s, m), Even(m, t)
    PROVE  Even(s, t)
<1>. SUFFICES ASSUME NEW c \in Peer
              PROVE  t.escrow[Dead(c)] = s.escrow[Dead(c)]
                         + IF home = c THEN Vain(t.packets) - Vain(s.packets) ELSE 0
  BY DEF Even
<1>1. s.packets \in Seq(Packet) /\ m.packets \in Seq(Packet) /\ t.packets \in Seq(Packet)
  BY DEF Net0
<1>2. Vain(s.packets) \in Int /\ Vain(m.packets) \in Int /\ Vain(t.packets) \in Int
  BY <1>1, VainType
<1>3. s.escrow[Dead(c)] \in Int /\ m.escrow[Dead(c)] \in Int
  BY DeadIs DEF Net0
<1>. QED  BY <1>2, <1>3 DEF Even

LEMMA IdleEven ==
    ASSUME home \in Chain, NEW s \in Net0, NEW t, Idle(s, t),
           Vain(t.packets) = Vain(s.packets)
    PROVE  Even(s, t)
<1>1. Vain(s.packets) \in Int
  <2>1. s.packets \in Seq(Packet)
    BY DEF Net0
  <2>. QED  BY <2>1, VainType
<1>2. \A c \in Peer : s.escrow[Dead(c)] \in Int
  BY DeadIs DEF Net0
<1>. QED  BY <1>1, <1>2 DEF Even, Idle

LEMMA GaveEven ==
    ASSUME home \in Chain, NEW s \in Net0, NEW t, NEW who, NEW amt, Gave(s, t, who, amt)
    PROVE  Even(s, t)
BY IdleEven DEF Gave

LEMMA PhaseEven ==
    ASSUME home \in Chain, NEW s \in Net0, NEW i \in DOMAIN s.packets,
           NEW phase \in {"sent", "waiting", "ok", "error", "delivered", "returned"},
           \/ s.packets[i].to # "B"
           \/ phase \in {"error", "returned"} <=> s.packets[i].phase \in {"error", "returned"}
           \/ \A j \in DOMAIN s.packets : s.packets[j].parent # i,
           NEW t, t = Phase(s, i, phase)
    PROVE  Even(s, t) /\ t \in Net0 /\ Rephased(s.packets, t.packets, i, phase)
<1>1. LET u == Phase(s, i, phase)
      IN  u \in Net0 /\ u.escrow = s.escrow /\ Rephased(s.packets, u.packets, i, phase)
  BY PhaseIs
<1>2. t \in Net0 /\ t.escrow = s.escrow /\ Rephased(s.packets, t.packets, i, phase)
  BY <1>1
<1>3. s.packets \in Seq(Packet)
  BY DEF Net0
<1>4. Vain(t.packets) = Vain(s.packets)
  BY <1>2, <1>3, VainRephase
<1>5. Even(s, t)
  BY <1>2, <1>4, IdleEven DEF Idle
<1>. QED  BY <1>2, <1>5

(* An escrow account that is not the source of its channel gets more when   *)
(* the packet that has it is lost, and at no other time.                    *)
LEMMA WriteAckEven ==
    ASSUME NEW s, Sane(s), home \in Chain, NEW i \in DOMAIN s.packets, s.packets[i].parent # 0,
           s.packets[s.packets[i].parent].phase = "waiting", NEW result \in {"ok", "error"},
           NEW t, t = WriteAcknowledgementForForwardedPacket(s, i, result)
    PROVE  Even(s, t)
<1>. DEFINE q == s.packets
            p == q[i]
            k == p.parent
            u == q[k]
            back   == <<"B", u.from>>
            over   == <<"B", p.to>>
            taken  == Unescrow(s, over, p.amt)
            undone == IF ~SenderChainIsSource("B", p.to) THEN Escrow(s, back, p.amt)
                      ELSE IF SenderChainIsSource("B", u.from)
                           THEN Escrow(taken, back, p.amt) ELSE taken
            m == IF result = "error" THEN undone ELSE s
<1>1. /\ s \in Net0 /\ Hop(p) /\ Hop(u) /\ p.from = "B" /\ u.to = "B" /\ u.dest = p.to
      /\ k \in DOMAIN q /\ u.amt = p.amt /\ q \in Seq(Packet) /\ u.phase = "waiting"
      /\ \E j \in DOMAIN q : q[j].parent = k
  <2>1. /\ Hop(p) /\ Hop(u) /\ p.from = "B" /\ u.to = "B" /\ u.dest = p.to
        /\ k \in DOMAIN q /\ u.amt = p.amt
    BY ParentIs
  <2>2. s \in Net0 /\ q \in Seq(Packet) /\ u.phase = "waiting"
    BY PacketsOf
  <2>3. \E j \in DOMAIN q : q[j].parent = k
    OBVIOUS
  <2>. QED  BY <2>1, <2>2, <2>3
<1>2. back \in Channel /\ over \in Channel /\ p.amt \in Int /\ u.from \in Peer /\ p.to \in Peer
  <2>1. /\ <<u.to, u.from>> \in Channel /\ <<p.from, p.to>> \in Channel /\ p.amt \in Int
    <3>. HIDE DEF p, u
    <3>. QED  BY <1>1, HopChannels
  <2>. QED  BY <1>1, <2>1 DEF Channel, Peer
<1>3. t = Phase(m, k, result)
  BY DEF WriteAcknowledgementForForwardedPacket
<1>4. taken \in Net0 /\ taken.escrow = [s.escrow EXCEPT ![over] = @ - p.amt] /\ taken.packets = q
  <2>1. Is(taken, s, s.bal, [s.escrow EXCEPT ![over] = @ - p.amt], s.flow)
    <3>. HIDE DEF over, p
    <3>. QED  BY <1>1, <1>2, UnescrowIs
  <2>. QED  BY <2>1 DEF Is
<1>. HIDE DEF taken
<1>5. ASSUME NEW x \in Net0
      PROVE  /\ Escrow(x, back, p.amt) \in Net0
             /\ Escrow(x, back, p.amt).escrow = [x.escrow EXCEPT ![back] = @ + p.amt]
             /\ Escrow(x, back, p.amt).packets = x.packets
  <2>1. Is(Escrow(x, back, p.amt), x, x.bal, [x.escrow EXCEPT ![back] = @ + p.amt], x.flow)
    <3>. HIDE DEF back, p
    <3>. QED  BY <1>2, EscrowIs
  <2>. QED  BY <2>1 DEF Is
<1>6. m \in Net0 /\ m.packets = q
  BY <1>1, <1>4, <1>5
<1>7. /\ Phase(m, k, result).escrow = m.escrow
      /\ Rephased(q, Phase(m, k, result).packets, k, result)
  <2>. HIDE DEF m, q, k
  <2>1. k \in DOMAIN m.packets
        /\ result \in {"sent", "waiting", "ok", "error", "delivered", "returned"}
    BY <1>1, <1>6
  <2>2. LET v == Phase(m, k, result)
        IN  v.escrow = m.escrow /\ Rephased(m.packets, v.packets, k, result)
    BY <1>6, <2>1, PhaseIs
  <2>. QED  BY <1>6, <2>2
<1>8. t.escrow = m.escrow /\ Rephased(q, t.packets, k, result)
  BY <1>3, <1>7
<1>9. /\ \A c \in Peer : Dead(c) \in Channel /\ s.escrow[Dead(c)] \in Int
      /\ s.escrow \in [Channel -> Int] /\ taken.escrow \in [Channel -> Int]
  BY <1>1, <1>4, DeadIs DEF Net0
<1>10. CASE result = "ok"
  <2>1. Idle(s, t)
    BY <1>8, <1>10 DEF Idle
  <2>2. Vain(t.packets) = Vain(q)
    <3>. HIDE DEF q, k
    <3>1. Rephased(q, t.packets, k, "ok")
      BY <1>8, <1>10
    <3>2. "ok" \in {"error", "returned"} <=> q[k].phase \in {"error", "returned"}
      BY <1>1
    <3>. QED  BY <1>1, <3>1, <3>2, VainRephase
  <2>. QED  BY <1>1, <2>1, <2>2, IdleEven
<1>11. CASE result = "error"
  <2>. DEFINE d == IF u.from = home /\ u.dest = home THEN u.amt ELSE 0
  <2>1. Vain(t.packets) = Vain(q) + d /\ Vain(q) \in Int
    <3>. HIDE DEF q, k
    <3>1. Rephased(q, t.packets, k, "error")
      BY <1>8, <1>11
    <3>. QED  BY <1>1, <3>1, VainMore, VainType
  <2>2. d \in Int
    BY <1>1, <1>2
  <2>3. ASSUME NEW c \in Peer
        PROVE  m.escrow[Dead(c)] = s.escrow[Dead(c)] + IF home = c THEN d ELSE 0
    <3>1. CASE ~SenderChainIsSource("B", p.to)
      <4>1. home = p.to
        BY <1>2, <3>1, Directions DEF Peer
      <4>2. m.escrow = [s.escrow EXCEPT ![back] = @ + p.amt]
        BY <1>1, <1>5, <1>11, <3>1
      <4>3. CASE c = home /\ u.from = home
        <5>1. Dead(c) = back /\ d = p.amt
          BY <1>1, <4>1, <4>3 DEF Dead
        <5>. QED  BY <1>9, <4>2, <4>3, <5>1
      <4>4. CASE ~(c = home /\ u.from = home)
        <5>1. Dead(c) # back /\ (home = c => d = 0)
          BY <1>2, <4>4 DEF Dead, Peer
        <5>2. m.escrow[Dead(c)] = s.escrow[Dead(c)]
          BY <1>9, <4>2, <5>1
        <5>. HIDE DEF m, d
        <5>. QED  BY <1>9, <5>1, <5>2
      <4>. QED  BY <4>3, <4>4
    <3>2. CASE SenderChainIsSource("B", p.to)
      <4>1. home # p.to /\ d = 0
        BY <1>1, <1>2, <3>2, Directions DEF Peer
      <4>2. Dead(c) # over
        BY <1>2, <4>1 DEF Dead, Peer
      <4>3. taken.escrow[Dead(c)] = s.escrow[Dead(c)]
        BY <1>4, <1>9, <4>2
      <4>4. CASE SenderChainIsSource("B", u.from)
        <5>1. home # u.from
          BY <1>2, <4>4, Directions DEF Peer
        <5>2. Dead(c) # back
          BY <1>2, <5>1 DEF Dead, Peer
        <5>3. m.escrow = [taken.escrow EXCEPT ![back] = @ + p.amt]
          BY <1>4, <1>5, <1>11, <3>2, <4>4
        <5>4. m.escrow[Dead(c)] = s.escrow[Dead(c)]
          BY <1>9, <4>3, <5>2, <5>3
        <5>. HIDE DEF m, d
        <5>. QED  BY <1>9, <4>1, <5>4
      <4>5. CASE ~SenderChainIsSource("B", u.from)
        <5>1. m = taken
          BY <1>11, <3>2, <4>5
        <5>. QED  BY <1>9, <4>1, <4>3, <5>1
      <4>. QED  BY <4>4, <4>5
    <3>. QED  BY <3>1, <3>2
  <2>. HIDE DEF d, m
  <2>. QED  BY <1>8, <1>9, <2>1, <2>2, <2>3 DEF Even
<1>. QED  BY <1>10, <1>11

(* t has a ledger like that of s, but for what was lost.                    *)
Evened(s, t) == t \in Net0 /\ Even(s, t) /\ Begun(t.packets)

LEMMA BegunNone ==
    ASSUME NEW s, Sane(s), Begun(s.packets), NEW i \in DOMAIN s.packets,
           s.packets[i].phase = "sent"
    PROVE  \A j \in DOMAIN s.packets : s.packets[j].parent # i
<1>1. i # 0
  BY PacketIs DEF Sane
<1>. QED  BY <1>1 DEF Begun

(* A packet's phase changes and it is not lost, or was not brought further. *)
LEMMA PhaseEvened ==
    ASSUME home \in Chain, NEW s, NEW m, Evened(s, m), s \in Net0, Linked(m.packets),
           NEW i \in DOMAIN m.packets,
           NEW phase \in {"waiting", "ok", "error", "delivered", "returned"},
           \/ m.packets[i].to # "B"
           \/ phase \in {"error", "returned"} <=> m.packets[i].phase \in {"error", "returned"}
           \/ \A j \in DOMAIN m.packets : m.packets[j].parent # i,
           NEW t, t = Phase(m, i, phase)
    PROVE  Evened(s, t)
<1>1. m \in Net0 /\ Even(s, m) /\ Begun(m.packets) /\ m.packets \in Seq(Packet)
  BY DEF Evened, Net0
<1>2. Even(m, t) /\ t \in Net0 /\ Rephased(m.packets, t.packets, i, phase)
  BY <1>1, PhaseEven
<1>3. Begun(t.packets)
  BY <1>1, <1>2, BegunRephased
<1>4. Even(s, t)
  BY <1>1, <1>2, EvenTwice
<1>. QED  BY <1>2, <1>3, <1>4 DEF Evened

(* The coins of a packet leave again, and its phase or that of the forward  *)
(* before changes.                                                          *)
LEMMA ForwardEven ==
    ASSUME home \in Chain, NEW s, Sane(s), Begun(s.packets), NEW m \in Net0, NEW who, NEW amt,
           Gave(s, m, who, amt), NEW k \in DOMAIN s.packets, NEW u, u \in Net0,
           Forwarded(m, u, k), NEW i \in DOMAIN s.packets,
           s.packets[k].phase \notin {"error", "returned"},
           k = i \/ s.packets[k].phase # "sent",
           s.packets[i].phase = "sent",
           NEW phase \in {"waiting", "returned"}, phase = "returned" => s.packets[i].to # "B",
           NEW t, t = Phase(u, i, phase)
    PROVE  Evened(s, t)
<1>. DEFINE q == s.packets
<1>1. s \in Net0 /\ q \in Seq(Packet) /\ Linked(q)
  BY DEF Sane, Net0
<1>2. m.packets = q /\ Even(s, m)
  BY <1>1, GaveEven DEF Gave
<1>3. PICK p \in Packet : p.parent = k /\ p.phase = "sent" /\ u.packets = Append(q, p)
  BY <1>2 DEF Forwarded
<1>4. Vain(u.packets) = Vain(m.packets)
  BY <1>1, <1>2, <1>3, VainAppend
<1>5. Even(m, u)
  BY <1>4, IdleEven DEF Forwarded
<1>6. Even(s, u)
  BY <1>1, <1>2, <1>5, EvenTwice
<1>7. i \in DOMAIN u.packets /\ u.packets[i] = q[i]
  BY <1>1, <1>3, Domain
<1>8. Even(u, t) /\ t \in Net0 /\ Rephased(u.packets, t.packets, i, phase)
  <2>1. phase \in {"sent", "waiting", "ok", "error", "delivered", "returned"}
    OBVIOUS
  <2>2. \/ u.packets[i].to # "B"
        \/ phase \in {"error", "returned"} <=> u.packets[i].phase \in {"error", "returned"}
    BY <1>7
  <2>. QED  BY <1>7, <2>1, <2>2, PhaseEven
<1>9. Even(s, t)
  BY <1>1, <1>6, <1>8, EvenTwice
<1>10. Begun(t.packets)
  BY <1>1, <1>3, <1>8, BegunForward
<1>. QED  BY <1>8, <1>9, <1>10 DEF Evened

LEMMA RecvEven ==
    ASSUME home \in Chain, NEW s, Sane(s), Begun(s.packets), NEW i \in DOMAIN s.packets,
           s.packets[i].phase = "sent", NEW t, t = OnRecvPacket(s, i)
    PROVE  Evened(s, t)
<1>. DEFINE p == s.packets[i]
<1>1. /\ s \in Net0 /\ s.packets \in Seq(Packet) /\ Linked(s.packets) /\ p \in Packet /\ Hop(p)
      /\ p.retries \in 0 .. MaxRetries /\ i # 0
  BY PacketsOf, PacketIs DEF Sane
<1>2. CASE p.to # p.dest
  <2>. DEFINE a == LowerOnRecvPacket(s, "forwarder", p)
              b == ForwardTransferPacket(a, i, p.retries)
  <2>1. p.to = "B" /\ p.dest # "B" /\ "forwarder" \in Accounts(p.to)
    BY <1>1, <1>2 DEF Linked, Accounts
  <2>2. Kept(s, a) /\ a.packets = s.packets
    BY <1>1, <2>1, LowerRecvKept
  <2>3. Gave(s, a, "forwarder", p.amt)
    BY <1>1, Users, LowerRecvGave
  <2>4. t = Phase(b, i, "waiting")
    BY <1>2 DEF OnRecvPacket
  <2>. HIDE DEF a
  <2>5. Sane(a) /\ a \in Net0
    BY <2>2 DEF Kept, Sane
  <2>6. Kept(a, b)
    BY <1>1, <2>1, <2>2, <2>5, ForwardKept
  <2>7. Forwarded(a, b, i)
    BY <1>1, <2>1, <2>2, <2>5, ForwardTook
  <2>. HIDE DEF b
  <2>8. b \in Net0
    BY <2>6 DEF Kept, Sane
  <2>. QED  BY <1>1, <2>3, <2>4, <2>5, <2>7, <2>8, ForwardEven
<1>3. CASE p.to = p.dest
  <2>. DEFINE a == LowerOnRecvPacket(s, p.dest, p)
  <2>1. p.dest \in Account
    BY <1>1, Users, HopChannels
  <2>2. Gave(s, a, p.dest, p.amt)
    BY <1>1, <2>1, LowerRecvGave
  <2>3. t = Phase(a, i, "ok")
    BY <1>3 DEF OnRecvPacket
  <2>. HIDE DEF a
  <2>4. a \in Net0 /\ a.packets = s.packets /\ Even(s, a)
    BY <1>1, <2>2, GaveEven DEF Gave
  <2>5. Evened(s, a)
    BY <2>4 DEF Evened
  <2>. QED  BY <1>1, <2>3, <2>4, <2>5, PhaseEvened
<1>. QED  BY <1>2, <1>3

(* The coins of a packet of a user come back.                               *)
LEMMA ReturnEven ==
    ASSUME home \in Chain, NEW s, Sane(s), Begun(s.packets), NEW i \in DOMAIN s.packets,
           s.packets[i].phase \in {"sent", "error"},
           NEW m, Gave(s, m, s.packets[i].from, s.packets[i].amt),
           NEW t, t = Phase(m, i, "returned")
    PROVE  Evened(s, t)
<1>1. s \in Net0 /\ Linked(s.packets)
  BY DEF Sane
<1>2. m \in Net0 /\ m.packets = s.packets /\ Even(s, m)
  BY <1>1, GaveEven DEF Gave
<1>3. Evened(s, m)
  BY <1>2 DEF Evened
<1>4. \/ s.packets[i].phase = "error"
      \/ \A j \in DOMAIN s.packets : s.packets[j].parent # i
  BY BegunNone
<1>. QED  BY <1>1, <1>2, <1>3, <1>4, PhaseEvened

(* A forward is over.                                                       *)
LEMMA OverEven ==
    ASSUME home \in Chain, NEW s, Sane(s), Begun(s.packets), Waited(s.packets),
           NEW i \in DOMAIN s.packets, Live(s.packets[i]),
           NEW result \in {"ok", "error"}, NEW last \in {"delivered", "returned"},
           NEW t, t = Phase(WriteAcknowledgementForForwardedPacket(s, i, result), i, last)
    PROVE  Evened(s, t)
<1>. DEFINE q == s.packets
            p == q[i]
            k == p.parent
            m == WriteAcknowledgementForForwardedPacket(s, i, result)
<1>1. /\ s \in Net0 /\ q \in Seq(Packet) /\ Linked(q) /\ p.parent # 0 /\ Hop(p)
  BY PacketsOf DEF Live, Sane
<1>2. k \in DOMAIN q /\ k # i /\ q[k].phase = "waiting" /\ p.from = "B"
  BY <1>1, ParentIs DEF Waited
<1>3. Kept(s, m) /\ Rephased(q, m.packets, k, result)
  BY <1>1, <1>2, WriteAckKept
<1>4. Even(s, m)
  BY <1>1, <1>2, WriteAckEven
<1>5. t = Phase(m, i, last)
  OBVIOUS
<1>. HIDE DEF m
<1>6. m \in Net0 /\ Linked(m.packets)
  BY <1>3 DEF Kept, Sane
<1>7. Begun(m.packets)
  BY <1>1, <1>2, <1>3, BegunRephased
<1>8. Evened(s, m)
  BY <1>4, <1>6, <1>7 DEF Evened
<1>9. i \in DOMAIN m.packets /\ m.packets[i].to # "B"
  <2>1. p.to # "B"
    BY <1>1, <1>2 DEF Hop, Channel
  <2>2. i \in DOMAIN m.packets /\ m.packets[i] = p
    BY <1>2, <1>3 DEF Rephased
  <2>. QED  BY <2>1, <2>2
<1>. QED  BY <1>1, <1>5, <1>6, <1>8, <1>9, PhaseEvened

LEMMA AckEven ==
    ASSUME home \in Chain, NEW s, Sane(s), Begun(s.packets), Waited(s.packets),
           NEW i \in DOMAIN s.packets, s.packets[i].phase \in {"ok", "error"},
           NEW last, last = (IF s.packets[i].phase = "ok" THEN "delivered" ELSE "returned"),
           NEW t, t = Phase(OnAcknowledgementPacket(s, i), i, last)
    PROVE  Evened(s, t)
<1>. DEFINE p == s.packets[i]
            o == Readable(p)
            read == [s EXCEPT !.ok = s.ok /\ o]
            m == OnAcknowledgementPacket(s, i)
<1>1. o \in BOOLEAN
  BY DEF Readable
<1>2. m = IF p.parent # 0 THEN WriteAcknowledgementForForwardedPacket(read, i, p.phase)
          ELSE LowerOnAcknowledgementPacket(read, i)
  BY DEF OnAcknowledgementPacket
<1>3. t = Phase(m, i, last)
  OBVIOUS
<1>. HIDE DEF o, m
<1>4. Kept(s, read) /\ read.packets = s.packets
  BY <1>1, ReadKept
<1>5. read.escrow = s.escrow /\ read.pending = s.pending
  BY DEF Sane, Net0
<1>. HIDE DEF read
<1>6. /\ Sane(read) /\ read \in Net0 /\ Linked(read.packets) /\ Begun(read.packets)
      /\ Waited(read.packets) /\ i \in DOMAIN read.packets /\ read.packets[i] = p
  BY <1>4 DEF Kept, Sane
<1>7. Evened(read, t)
  <2>1. CASE p.parent # 0
    <3>1. /\ Live(p) /\ p.phase \in {"ok", "error"} /\ last \in {"delivered", "returned"}
          /\ t = Phase(WriteAcknowledgementForForwardedPacket(read, i, p.phase), i, last)
      BY <1>2, <1>3, <2>1 DEF Live
    <3>. HIDE DEF p
    <3>. QED  BY <1>6, <3>1, OverEven
  <2>2. CASE p.parent = 0 /\ p.phase = "error"
    <3>1. m = RefundTransfer(Undo(read, i), p.from, p)
      BY <1>2, <1>6, <2>2 DEF LowerOnAcknowledgementPacket
    <3>2. p.from \in Account /\ t = Phase(m, i, "returned")
      <4>1. Hop(p)
        BY PacketsOf
      <4>2. p.from \in Chain
        BY <4>1, HopChannels
      <4>. QED  BY <1>3, <2>2, <4>2, Users
    <3>. HIDE DEF p
    <3>3. Gave(read, m, p.from, p.amt)
      BY <1>6, <3>1, <3>2, UndoRefundGave
    <3>. QED  BY <1>6, <2>2, <3>2, <3>3, ReturnEven
  <2>3. CASE p.parent = 0 /\ p.phase = "ok"
    <3>. DEFINE n == read.pending \ {i}
    <3>1. m = [read EXCEPT !.pending = n]
      BY <1>2, <1>6, <2>3 DEF LowerOnAcknowledgementPacket
    <3>2. n \in SUBSET Nat
      BY <1>6 DEF Net0
    <3>. HIDE DEF n
    <3>3. m \in Net0 /\ m.packets = read.packets /\ m.escrow = read.escrow
      BY <1>6, <3>1, <3>2 DEF Net0
    <3>4. last = "delivered"
      BY <2>3
    <3>5. Even(read, m)
      BY <1>6, <3>3, IdleEven DEF Idle
    <3>6. Evened(read, m)
      BY <1>6, <3>3, <3>5 DEF Evened
    <3>. HIDE DEF p
    <3>. QED  BY <1>3, <1>6, <2>3, <3>3, <3>4, <3>6, PhaseEvened
  <2>. QED  BY <2>1, <2>2, <2>3
<1>. QED  BY <1>4, <1>5, <1>7 DEF Evened, Even

LEMMA TimeoutEven ==
    ASSUME home \in Chain, NEW s, Sane(s), Begun(s.packets), Waited(s.packets),
           NEW i \in DOMAIN s.packets, s.packets[i].phase = "sent",
           NEW t, t = Phase(OnTimeoutPacket(s, i), i, "returned")
    PROVE  Evened(s, t)
<1>. DEFINE p == s.packets[i]
            m == OnTimeoutPacket(s, i)
<1>1. /\ s \in Net0 /\ s.packets \in Seq(Packet) /\ Linked(s.packets) /\ p \in Packet /\ Hop(p)
      /\ p.retries \in 0 .. MaxRetries
  BY PacketsOf, PacketIs DEF Sane
<1>2. CASE p.parent = 0
  <2>1. m = RefundTransfer(Undo(s, i), p.from, p)
    BY <1>2 DEF OnTimeoutPacket, LowerOnTimeoutPacket
  <2>2. p.from \in Account
    BY <1>1, HopChannels, Users
  <2>. HIDE DEF p, m
  <2>3. Gave(s, m, s.packets[i].from, s.packets[i].amt)
    BY <1>1, <2>1, <2>2, UndoRefundGave DEF p
  <2>4. t = Phase(m, i, "returned")
    BY DEF m
  <2>. QED  BY <2>3, <2>4, ReturnEven
<1>3. CASE p.parent # 0 /\ p.retries = 0
  <2>1. m = WriteAcknowledgementForForwardedPacket(s, i, "error") /\ Live(p)
    BY <1>3 DEF OnTimeoutPacket, Live
  <2>. QED  BY <2>1, OverEven
<1>4. CASE p.parent # 0 /\ p.retries # 0
  <2>. DEFINE k == p.parent
              n == p.retries - 1
              a == LowerOnTimeoutPacket(s, "forwarder", i)
  <2>1. /\ k \in DOMAIN s.packets /\ p.from = "B" /\ s.packets[k].to = "B"
        /\ s.packets[k].dest # "B"
    <3>1. /\ k \in DOMAIN s.packets /\ p.from = "B" /\ s.packets[k].to = "B"
          /\ s.packets[k].dest # s.packets[k].to
      BY <1>4, ParentIs
    <3>. QED  BY <3>1
  <2>2. m = ForwardTransferPacket(a, k, n)
    BY <1>4 DEF OnTimeoutPacket
  <2>3. n \in 0 .. MaxRetries /\ "forwarder" \in Accounts(p.from)
    BY <1>1, <1>4, <2>1, Constants DEF Accounts
  <2>4. a = RefundTransfer(Undo(s, i), "forwarder", p)
    BY DEF LowerOnTimeoutPacket
  <2>5. Kept(s, a) /\ a.packets = s.packets
    BY <1>1, <2>3, <2>4, RefundKept
  <2>6. Gave(s, a, "forwarder", p.amt)
    BY <1>1, <2>4, Users, UndoRefundGave
  <2>7. t = Phase(m, i, "returned")
    OBVIOUS
  <2>8. p.to # "B" /\ s.packets[k].phase = "waiting"
    BY <1>1, <1>4, <2>1 DEF Hop, Channel, Waited, Live
  <2>. HIDE DEF a, m, n, k
  <2>9. Sane(a) /\ a \in Net0 /\ k \in DOMAIN a.packets /\ a.packets[k].to = "B" /\ a.packets[k].dest # "B"
    BY <2>1, <2>5 DEF Kept, Sane
  <2>10. Kept(a, m)
    BY <2>2, <2>3, <2>9, ForwardKept
  <2>11. Forwarded(a, m, k)
    BY <2>2, <2>3, <2>9, ForwardTook
  <2>12. m \in Net0
    BY <2>10 DEF Kept, Sane
  <2>. QED  BY <2>1, <2>6, <2>7, <2>8, <2>9, <2>11, <2>12, ForwardEven
<1>. QED  BY <1>2, <1>3, <1>4

LEMMA TransferEven ==
    ASSUME IInv, Begun(net.packets), MsgTransfer
    PROVE  Even(net, net') /\ Begun(net'.packets)
<1>1. PICK ch \in Channel, dest \in Chain, amt \in Amount, retries \in 0 .. MaxRetries :
          net' = Transfer(net, ch[1],
                        [from |-> ch[1], to |-> ch[2], dest |-> dest, amt |-> amt,
                         parent |-> 0, retries |-> retries, phase |-> "sent"])
  BY DEF MsgTransfer
<1>. DEFINE p == [from |-> ch[1], to |-> ch[2], dest |-> dest, amt |-> amt,
                  parent |-> 0, retries |-> retries, phase |-> "sent"]
<1>2. ch[1] \in Chain /\ ch[2] \in Chain /\ <<ch[1], ch[2]>> \in Channel
  BY DEF Channel, Chain
<1>3. p \in Packet /\ Hop(p)
  <2>1. p \in Packet
    BY <1>2 DEF Packet
  <2>. QED  BY <1>2, <2>1 DEF Hop
<1>4. p.parent = 0 /\ p.phase = "sent"
  OBVIOUS
<1>5. net' = Transfer(net, ch[1], p)
  BY <1>1
<1>. HIDE DEF p
<1>6. net \in Net0 /\ net.packets \in Seq(Packet) /\ Linked(net.packets) /\ home \in Chain
  BY HomeIs DEF Sane, Net0
<1>7. ch[1] \in Account
  BY <1>2, Users
<1>8. Left(net, Transfer(net, ch[1], p), ch[1], p)
  BY <1>3, <1>6, <1>7, TransferTook
<1>9. net'.packets = Append(net.packets, p) /\ Idle(net, net')
  BY <1>5, <1>8 DEF Left
<1>10. Vain(Append(net.packets, p)) = Vain(net.packets)
  BY <1>3, <1>4, <1>6, VainAppend
<1>11. Begun(Append(net.packets, p))
  BY <1>3, <1>4, <1>6, BegunAppend
<1>12. Even(net, net')
  BY <1>6, <1>9, <1>10, IdleEven
<1>. QED  BY <1>9, <1>11, <1>12

LEMMA EvenedVained ==
    ASSUME home \in Chain, NEW s \in Net0, Vained(s), NEW t \in Net0, Even(s, t), Begun(t.packets)
    PROVE  Vained(t)
<1>1. s.packets \in Seq(Packet) /\ t.packets \in Seq(Packet)
  BY DEF Net0
<1>2. Vain(s.packets) \in Int /\ Vain(t.packets) \in Int
  BY <1>1, VainType
<1>. QED  BY <1>2 DEF Vained, Even

LEMMA InitVained == Init => Vained(net)
<1>. SUFFICES ASSUME Init PROVE Vained(net)
  OBVIOUS
<1>. DEFINE e == [ch \in Channel |->
                    IF ~SenderChainIsSource(ch[1], ch[2]) THEN 0
                    ELSE IF "B" \in {home, ch[1]} THEN Funds ELSE 2 * Funds]
            q == net.packets
<1>1. home \in Chain /\ net.escrow = e /\ q = <<>>
  BY Constants DEF Init
<1>2. ASSUME NEW c \in Peer PROVE e[Dead(c)] = 0
  <2>1. /\ e[<<"B", "A">>] = IF home = "A" THEN 0 ELSE e[<<"B", "A">>]
        /\ e[<<"B", "C">>] = IF home = "C" THEN 0 ELSE e[<<"B", "C">>]
        /\ e[<<"A", "B">>] = IF home = "A" THEN e[<<"A", "B">>] ELSE 0
        /\ e[<<"C", "B">>] = IF home = "C" THEN e[<<"C", "B">>] ELSE 0
    <3>1. \A ch \in {<<"A", "B">>, <<"B", "A">>, <<"B", "C">>, <<"C", "B">>} :
              ~SenderChainIsSource(ch[1], ch[2]) => e[ch] = 0
      BY Channels
    <3>. HIDE DEF e
    <3>. QED  BY <1>1, <3>1, Directions
  <2>. HIDE DEF e
  <2>. QED  BY <2>1 DEF Dead, Peer
<1>3. Vain(q) = 0 /\ Begun(q)
  <2>1. DOMAIN q = {}
    BY <1>1
  <2>2. VainOf(q) = {}
    BY <2>1 DEF VainOf
  <2>. QED  BY <2>1, <2>2, SumEmpty DEF Vain, Begun
<1>. QED  BY <1>1, <1>2, <1>3 DEF Vained

LEMMA NextEven ==
    ASSUME IInv, Vained(net), Step
    PROVE  Even(net, net') /\ Begun(net'.packets)
<1>1. Sane(net) /\ home \in Chain /\ Waited(net.packets) /\ Begun(net.packets)
      /\ net \in Net0 /\ Linked(net.packets)
  BY HomeIs DEF Vained, Sane
<1>2. CASE MsgTransfer
  BY <1>1, <1>2, TransferEven
<1>3. ASSUME NEW i \in DOMAIN net.packets, MsgRecvPacket(i)
      PROVE  Evened(net, net')
  <2>1. net.packets[i].phase = "sent"
    BY <1>3 DEF MsgRecvPacket
  <2>2. CASE net' = Phase(net, i, "error")
    <3>1. Evened(net, net)
      BY <1>1, IdleEven DEF Evened, Idle
    <3>2. \A j \in DOMAIN net.packets : net.packets[j].parent # i
      BY <1>1, <2>1, BegunNone
    <3>. QED  BY <1>1, <2>2, <3>1, <3>2, PhaseEvened
  <2>3. CASE net' = OnRecvPacket(net, i)
    BY <1>1, <2>1, <2>3, RecvEven
  <2>. QED  BY <1>3, <2>2, <2>3 DEF MsgRecvPacket
<1>4. ASSUME NEW i \in DOMAIN net.packets, MsgAcknowledgement(i)
      PROVE  Evened(net, net')
  <2>. DEFINE last == IF net.packets[i].phase = "ok" THEN "delivered" ELSE "returned"
  <2>1. net.packets[i].phase \in {"ok", "error"} /\ net' = Phase(OnAcknowledgementPacket(net, i), i, last)
    BY <1>4 DEF MsgAcknowledgement, Handled
  <2>. QED  BY <1>1, <2>1, AckEven
<1>5. ASSUME NEW i \in DOMAIN net.packets, MsgTimeout(i)
      PROVE  Evened(net, net')
  <2>1. net.packets[i].phase = "sent" /\ net' = Phase(OnTimeoutPacket(net, i), i, "returned")
    BY <1>5 DEF MsgTimeout, Handled
  <2>. QED  BY <1>1, <2>1, TimeoutEven
<1>. QED  BY <1>2, <1>3, <1>4, <1>5 DEF Step, Evened

LEMMA NextVained ==
    ASSUME IInv, Vained(net), [Next]_vars
    PROVE  Vained(net)'
<1>1. home' = home
  BY DEF Next, Step, ResetRateLimits, MsgTransfer, MsgRecvPacket, MsgAcknowledgement, MsgTimeout,
         Handled, vars
<1>2. net \in Net0 /\ home \in Chain
  BY HomeIs DEF Sane
<1>3. Vained(net')
  <2>1. CASE Step
    <3>1. IInv'
      BY <2>1, StepFits
    <3>2. net' \in Net0
      BY <3>1 DEF IInv, Sane, Net0
    <3>. QED  BY <1>2, <2>1, <3>2, NextEven, EvenedVained
  <2>2. CASE ResetRateLimits
    <3>1. net'.packets = net.packets /\ net'.escrow = net.escrow
      BY <1>2, <2>2 DEF ResetRateLimits, Net0
    <3>. QED  BY <3>1 DEF Vained
  <2>3. CASE UNCHANGED vars
    BY <2>3 DEF vars, Vained
  <2>. QED  BY <2>1, <2>2, <2>3 DEF Next
<1>. QED  BY <1>1, <1>3 DEF Vained, Begun, Dead, Vain, VainOf, Lost, AmtsOf

(* No escrow account on the way home has anything but what was minted in    *)
(* vain.                                                                    *)
LEMMA AlwaysVained == Spec => [](IInv /\ Vained(net))
<1>1. IInv /\ Vained(net) /\ [Next]_vars => Vained(net)'
  BY NextVained
<1>. QED  BY Invariant, InitVained, <1>1, PTL DEF Spec

-----------------------------------------------------------------------------
(* Every voucher is backed.                                                 *)

LEMMA SupplyIs ==
    ASSUME net \in Net0
    PROVE  /\ Supply("A") = net.bal["A"] + net.escrow[<<"A", "B">>]
           /\ Supply("C") = net.bal["C"] + net.escrow[<<"C", "B">>]
           /\ Supply("B") = net.bal["B"] + net.bal["forwarder"]
                                + net.escrow[<<"B", "A">>] + net.escrow[<<"B", "C">>]
<1>. DEFINE E(c) == {ch \in Channel : ch[1] = c}
<1>1. /\ E("A") = {<<"A", "B">>} /\ E("C") = {<<"C", "B">>}
      /\ E("B") = {<<"B", "A">>} \cup {<<"B", "C">>}
  <2>1. ASSUME NEW c
        PROVE  E(c) = {ch \in {<<"A", "B">>, <<"B", "A">>, <<"B", "C">>, <<"C", "B">>} : ch[1] = c}
    BY Channels
  <2>. HIDE DEF E
  <2>2. E("A") = {<<"A", "B">>}
    BY <2>1
  <2>3. E("C") = {<<"C", "B">>}
    BY <2>1
  <2>4. E("B") = {<<"B", "A">>} \cup {<<"B", "C">>}
    BY <2>1
  <2>. QED  BY <2>2, <2>3, <2>4
<1>2. \A c : Supply(c) = net.bal[c] + (IF c = "B" THEN net.bal["forwarder"] ELSE 0)
                             + SumFunctionOnSet(net.escrow, E(c))
  BY DEF Supply
<1>. HIDE DEF E
<1>3. /\ net.bal["A"] \in Int /\ net.bal["B"] \in Int /\ net.bal["C"] \in Int
      /\ net.bal["forwarder"] \in Int
      /\ net.escrow[<<"B", "C">>] \in Int /\ net.escrow[<<"B", "A">>] \in Int
      /\ net.escrow[<<"A", "B">>] \in Int /\ net.escrow[<<"C", "B">>] \in Int
  BY Coins
<1>4. /\ SumFunctionOnSet(net.escrow, {<<"A", "B">>}) = net.escrow[<<"A", "B">>]
      /\ SumFunctionOnSet(net.escrow, {<<"C", "B">>}) = net.escrow[<<"C", "B">>]
      /\ SumFunctionOnSet(net.escrow, {<<"B", "A">>}) = net.escrow[<<"B", "A">>]
  BY <1>3, SumOne
<1>5. SumFunctionOnSet(net.escrow, {<<"B", "A">>} \cup {<<"B", "C">>})
          = net.escrow[<<"B", "A">>] + net.escrow[<<"B", "C">>]
  <2>. DEFINE S == {<<"B", "A">>}
              y == <<"B", "C">>
              f == net.escrow
  <2>1. IsFiniteSet(S) /\ y \notin S /\ (\A z \in S : f[z] \in Int) /\ f[y] \in Int
    BY <1>3, FS_Singleton
  <2>. HIDE DEF S, y, f
  <2>2. SumFunctionOnSet(f, S \cup {y}) = SumFunctionOnSet(f, S) + f[y]
    BY <2>1, SumAdd
  <2>. QED  BY <1>4, <2>2 DEF S, y, f
<1>6. /\ Supply("A") = net.bal["A"] + 0 + SumFunctionOnSet(net.escrow, E("A"))
      /\ Supply("C") = net.bal["C"] + 0 + SumFunctionOnSet(net.escrow, E("C"))
      /\ Supply("B") = net.bal["B"] + net.bal["forwarder"] + SumFunctionOnSet(net.escrow, E("B"))
  BY <1>2
<1>7. /\ SumFunctionOnSet(net.escrow, E("A")) = net.escrow[<<"A", "B">>]
      /\ SumFunctionOnSet(net.escrow, E("C")) = net.escrow[<<"C", "B">>]
      /\ SumFunctionOnSet(net.escrow, E("B"))
             = net.escrow[<<"B", "A">>] + net.escrow[<<"B", "C">>]
  BY <1>1, <1>4, <1>5
<1>. QED  BY <1>3, <1>6, <1>7

LEMMA StrandedIs ==
    ASSUME IInv, Vained(net)
    PROVE  /\ Stranded("A") = 0 /\ Stranded("C") = 0 /\ Stranded("B") \in Int
           /\ home = "A" => net.escrow[<<"B", "A">>] = Stranded("B")
           /\ home = "C" => net.escrow[<<"B", "C">>] = Stranded("B")
           /\ home # "A" => net.escrow[<<"A", "B">>] = 0
           /\ home # "C" => net.escrow[<<"C", "B">>] = 0
           /\ home = "B" => Stranded("B") = 0
<1>. DEFINE q == net.packets
            V(c) == {i \in DOMAIN q :
                        /\ q[i].from = home /\ q[i].to = c /\ q[i].dest = home
                        /\ q[i].phase \in {"error", "returned"}
                        /\ \E j \in DOMAIN q : q[j].parent = i}
<1>1. q \in Seq(Packet) /\ Linked(q) /\ home \in Chain
  BY HomeIs DEF Sane, Net0
<1>2. Amounts = AmtsOf(q) /\ \A c : Stranded(c) = SumFunctionOnSet(Amounts, V(c))
  BY DEF Amounts, AmtsOf, Stranded
<1>3. V("B") = VainOf(q)
  BY DEF VainOf, Lost
<1>4. ASSUME NEW i \in DOMAIN q, q[i].dest = home, q[i].from = home
      PROVE  q[i].to = "B" /\ home # "B"
  BY <1>1, <1>4 DEF Linked, Hop, Channel
<1>5. V("A") = {} /\ V("C") = {} /\ (home = "B" => V("B") = {})
  BY <1>4
<1>. HIDE DEF V, q
<1>6. Stranded("B") = Vain(q) /\ Stranded("A") = 0 /\ Stranded("C") = 0
      /\ (home = "B" => Stranded("B") = 0)
  BY <1>2, <1>3, <1>5, SumEmpty DEF Vain
<1>7. Vain(q) \in Int
  BY <1>1, VainType
<1>8. /\ net.escrow[Dead("A")] = IF home = "A" THEN Vain(q) ELSE 0
      /\ net.escrow[Dead("C")] = IF home = "C" THEN Vain(q) ELSE 0
  BY DEF Vained, Peer, q
<1>. QED  BY <1>6, <1>7, <1>8 DEF Dead

LEMMA BackedIs == IInv /\ Vained(net) => Backed
<1> SUFFICES ASSUME IInv, Vained(net), NEW ch \in Channel
             PROVE  LET T == {i \in DOMAIN net.packets :
                                 /\ {net.packets[i].from, net.packets[i].to} = {ch[1], ch[2]}
                                 /\ net.packets[i].phase \in {"sent", "error"}}
                    IN  IF SenderChainIsSource(ch[1], ch[2])
                        THEN net.escrow[ch] + Stranded(ch[2])
                                 = Supply(ch[2]) + SumFunctionOnSet(Amounts, T)
                        ELSE net.escrow[ch] = Stranded(ch[1])
  BY DEF Backed
<1> DEFINE c == IF ch[1] = "B" THEN ch[2] ELSE ch[1]
           q == net.packets
           D == DOMAIN q
           T == {i \in D : /\ {q[i].from, q[i].to} = {ch[1], ch[2]}
                           /\ q[i].phase \in {"sent", "error"}}
           f == [i \in D |-> InTransit(q[i], c)]
           g == [i \in D |-> IF i \in T THEN Amounts[i] ELSE 0]
<1>1. net \in Net0 /\ home \in Chain /\ q \in Seq(Packet) /\ Linked(q)
  BY HomeIs DEF Sane, Net0
<1>2. c \in Peer /\ {ch[1], ch[2]} = {"B", c}
  BY Channels
<1>3. \A i \in D : f[i] = g[i] /\ Amounts[i] \in Int
  <2>1. ASSUME NEW i \in D PROVE f[i] = g[i] /\ Amounts[i] \in Int
    <3>1. Hop(q[i]) /\ q[i].amt \in Nat
      <4>1. Hop(q[i])
        BY <1>1 DEF Linked
      <4> QED
        BY <4>1, Carries DEF Hop
    <3>2. {q[i].from, q[i].to} = {"B", c} <=> c \in {q[i].from, q[i].to}
      BY <1>2, <3>1 DEF Hop, Channel, Peer
    <3>3. Amounts[i] = q[i].amt
      BY DEF Amounts
    <3>4. i \in T <=> c \in {q[i].from, q[i].to} /\ q[i].phase \in {"sent", "error"}
      BY <1>2, <3>2
    <3> HIDE DEF c, T
    <3>5. InTransit(q[i], c) = IF i \in T THEN q[i].amt ELSE 0
      BY <3>4 DEF InTransit, Carried
    <3> QED
      BY <3>1, <3>3, <3>5
  <2> QED
    BY <2>1
<1>4. IsFiniteSet(D) /\ T \in SUBSET D
  BY <1>1, Domain
<1>5. SumFunctionOnSet(Amounts, T) = SumFunctionOnSet(g, D)
  <2> HIDE DEF D, T
  <2> QED
    BY <1>3, <1>4, SumWhere
<1>6. Transit(q, c) = SumFunctionOnSet(f, D)
  BY DEF Transit
<1>7. SumFunctionOnSet(f, D) = SumFunctionOnSet(g, D)
  <2> HIDE DEF D, f, g
  <2> QED
    BY <1>3, <1>4, SumSame
<1>8. Ledger(net, c) = Transit(q, c) /\ Transit(q, c) \in Int
  <2>1. Ledger(net, c) \in Int /\ Transit(q, c) \in Int
    BY <1>2, HomeIs, GapType
  <2>2. Gap(net, c) = 0
    BY <1>2 DEF IInv
  <2> QED
    BY <2>1, <2>2 DEF Gap
<1> DEFINE sum == Transit(q, c)
<1>9. SumFunctionOnSet(Amounts, T) = sum /\ sum \in Int /\ Ledger(net, c) = sum
  BY <1>5, <1>6, <1>7, <1>8
<1> HIDE DEF sum, T
<1>10. ASSUME SenderChainIsSource(ch[1], ch[2])
       PROVE  net.escrow[ch] + Stranded(ch[2]) = Supply(ch[2]) + sum
  <2>1. CASE ch = <<"A", "B">>
    BY <1>1, <1>9, <1>10, <2>1, Directions, SupplyIs, StrandedIs, Coins, SMTT(90) DEF Ledger
  <2>2. CASE ch = <<"B", "A">>
    BY <1>1, <1>9, <1>10, <2>2, Directions, SupplyIs, StrandedIs, Coins, SMTT(90) DEF Ledger
  <2>3. CASE ch = <<"B", "C">>
    BY <1>1, <1>9, <1>10, <2>3, Directions, SupplyIs, StrandedIs, Coins, SMTT(30) DEF Ledger
  <2>4. CASE ch = <<"C", "B">>
    BY <1>1, <1>9, <1>10, <2>4, Directions, SupplyIs, StrandedIs, Coins, SMTT(30) DEF Ledger
  <2> QED
    BY <2>1, <2>2, <2>3, <2>4, Channels
<1>11. ASSUME ~SenderChainIsSource(ch[1], ch[2])
       PROVE  net.escrow[ch] = Stranded(ch[1])
  <2>1. CASE ch = <<"A", "B">>
    BY <1>1, <1>11, <2>1, Directions, StrandedIs
  <2>2. CASE ch = <<"B", "A">>
    BY <1>1, <1>11, <2>2, Directions, StrandedIs
  <2>3. CASE ch = <<"B", "C">>
    BY <1>1, <1>11, <2>3, Directions, StrandedIs
  <2>4. CASE ch = <<"C", "B">>
    BY <1>1, <1>11, <2>4, Directions, StrandedIs
  <2> QED
    BY <2>1, <2>2, <2>3, <2>4, Channels
<1> QED
  BY <1>9, <1>10, <1>11 DEF T

(* Every voucher is backed, through failures of forwards and their refunds, *)
(* but those that are minted for transfers that fail on their way back home:*)
(* B has as many of them as such transfers have failed with, in the escrow  *)
(* account towards home, and no other chain has any.                        *)
THEOREM VouchersBacked == Spec => []Backed
BY AlwaysVained, BackedIs, PTL

-----------------------------------------------------------------------------
(* The quotas, with the history of MCTransferStack. *)

QInv == base \in [Peer -> Int] /\ \A c \in Peer : base[c] + Slack(net, c) >= 0

LEMMA PositionIs ==
    ASSUME IInv, Vained(net), NEW c \in Peer
    PROVE  Position(c) = Out(net, c) /\ Out(net, c) \in Int
<1>1. net \in Net0 /\ home \in Chain
  BY HomeIs DEF Sane
<1>2. Out(net, c) \in Int
  BY <1>1, LedgerType
<1>3. CASE c = "A"
  BY <1>1, <1>3, Directions, SupplyIs, StrandedIs, Coins DEF Position, Out
<1>4. CASE c = "C"
  BY <1>1, <1>4, Directions, SupplyIs, StrandedIs, Coins DEF Position, Out
<1> QED
  BY <1>2, <1>3, <1>4 DEF Peer

LEMMA FailedSum ==
    ASSUME IInv, NEW c
    PROVE  LET sum == SumFunctionOnSet(Amounts, Failed(c))
           IN  /\ sum \in Nat
               /\ \A k \in Failed(c) : net.packets[k].amt <= sum
<1> DEFINE D == DOMAIN net.packets
           F == Failed(c)
<1>1. net.packets \in Seq(Packet)
  BY HomeIs DEF Sane, Net0
<1>2. F \in SUBSET D /\ IsFiniteSet(D)
  BY <1>1, Domain DEF Failed
<1>3. ASSUME NEW k \in D PROVE Amounts[k] = net.packets[k].amt /\ Amounts[k] \in Nat
  <2>1. net.packets[k] \in Packet
    BY <1>1, Domain
  <2> QED
    BY <2>1, Carries DEF Amounts
<1> HIDE DEF D, F
<1>4. IsFiniteSet(F) /\ \A k \in F : Amounts[k] \in Nat
  BY <1>2, <1>3, FS_Subset
<1>5. SumFunctionOnSet(Amounts, F) \in Nat
  BY <1>4, SumNat
<1>6. \A k \in F : Amounts[k] <= SumFunctionOnSet(Amounts, F)
  BY <1>4, SumBounds
<1>7. \A k \in F : net.packets[k].amt <= SumFunctionOnSet(Amounts, F)
  BY <1>2, <1>3, <1>6
<1> QED
  BY <1>5, <1>7 DEF F

LEMMA QInvInit == MCInit => QInv
<1> SUFFICES ASSUME MCInit PROVE QInv
  OBVIOUS
<1>1. IInv /\ Vained(net)
  BY InitIInv, InitVained DEF MCInit
<1>2. ASSUME NEW c \in Peer
      PROVE  base[c] = Out(net, c) /\ Out(net, c) \in Int /\ Slack(net, c) = 0 - Out(net, c)
  <2>1. base[c] = Out(net, c) /\ Out(net, c) \in Int
    BY <1>1, PositionIs DEF MCInit
  <2>2. net.flow[c].in = 0 /\ net.flow[c].out = 0
    BY DEF MCInit, Init
  <2> QED
    BY <2>1, <2>2 DEF Slack
<1>3. base = [c \in Peer |-> Position(c)]
  BY DEF MCInit
<1>4. base \in [Peer -> Int]
  BY <1>1, <1>3, PositionIs
<1>5. \A c \in Peer : base[c] + Slack(net, c) >= 0
  BY <1>2
<1> QED
  BY <1>4, <1>5 DEF QInv

LEMMA QInvNext == IInv /\ Vained(net) /\ QInv /\ [MCNext]_<<vars, base>> => QInv'
<1> SUFFICES ASSUME IInv, Vained(net), QInv, [MCNext]_<<vars, base>> PROVE QInv'
  OBVIOUS
<1>1. ASSUME Step, base' = [c \in Peer |-> base[c] + SumFunctionOnSet(Amounts, Failed(c))]
      PROVE  QInv'
  <2>1. IInv' /\ (\A c \in Peer : Within(net, net', c)) /\ home' = home
    <3>1. home' = home
      BY <1>1 DEF Step, MsgTransfer, MsgRecvPacket, MsgAcknowledgement, MsgTimeout, Handled
    <3> QED
      BY <1>1, <3>1, StepFits
  <2>2. ASSUME NEW c \in Peer
        PROVE  base'[c] \in Int /\ base'[c] + Slack(net', c) >= 0
    <3> DEFINE sum == SumFunctionOnSet(Amounts, Failed(c))
    <3>1. sum \in Nat /\ \A k \in Failed(c) : net.packets[k].amt <= sum
      BY FailedSum
    <3>2. base'[c] = base[c] + sum /\ base[c] \in Int /\ base[c] + Slack(net, c) >= 0
      BY <1>1 DEF QInv
    <3> HIDE DEF sum
    <3>3. home \in Chain /\ Sane(net) /\ Sane(net')
      BY <2>1, HomeIs DEF IInv
    <3>4. Slack(net, c) \in Int /\ Slack(net', c) \in Int
      BY <3>3, GapType
    <3>5. CASE Slack(net', c) >= Slack(net, c)
      BY <3>1, <3>2, <3>4, <3>5
    <3>6. CASE ~(Slack(net', c) >= Slack(net, c))
      <4>1. PICK k \in DOMAIN net.packets :
                /\ net.packets[k].from = c /\ net.packets[k].dest # c
                /\ net.packets[k].phase = "waiting" /\ net'.packets[k].phase = "error"
                /\ Slack(net', c) >= Slack(net, c) - net.packets[k].amt
        BY <2>1, <3>6 DEF Within
      <4>2. k \in Failed(c)
        BY <4>1 DEF Failed
      <4>3. net.packets[k].amt <= sum /\ net.packets[k].amt \in Int
        <5>1. net.packets[k] \in Packet
          BY <3>3, PacketsOf
        <5>2. net.packets[k].amt \in Nat
          BY <5>1, Carries
        <5> QED
          BY <3>1, <4>2, <5>2
      <4> QED
        BY <3>1, <3>2, <3>4, <4>1, <4>3
    <3> QED
      BY <3>5, <3>6
  <2>3. \A c \in Peer : Slack(net, c)' = Slack(net', c)
    BY <2>1 DEF Slack, Out
  <2>4. base' \in [Peer -> Int]
    BY <1>1, <2>2
  <2> QED
    BY <2>2, <2>3, <2>4 DEF QInv
<1>2. ASSUME ResetRateLimits, base' = [c \in Peer |-> Position(c)]
      PROVE  QInv'
  <2>1. IInv' /\ \A c \in Peer : /\ net'.flow[c].out = 0 /\ net'.flow[c].in = 0
                                 /\ Out(net', c) = Out(net, c)
    BY <1>2, ResetIInv
  <2>2. home' = home
    BY <1>2 DEF ResetRateLimits
  <2>3. ASSUME NEW c \in Peer
        PROVE  base'[c] = Out(net, c) /\ Out(net, c) \in Int /\ Slack(net', c) = 0 - Out(net, c)
    <3>1. base'[c] = Out(net, c) /\ Out(net, c) \in Int
      BY <1>2, PositionIs
    <3> QED
      BY <2>1, <3>1 DEF Slack
  <2>4. \A c \in Peer : Slack(net, c)' = Slack(net', c)
    BY <2>2 DEF Slack, Out
  <2>5. base' \in [Peer -> Int]
    BY <1>2, <2>3
  <2>6. \A c \in Peer : base'[c] + Slack(net', c) >= 0
    BY <2>3
  <2> QED
    BY <2>4, <2>5, <2>6 DEF QInv
<1>3. CASE UNCHANGED <<vars, base>>
  BY <1>3 DEF vars, QInv, Slack, Out
<1> QED
  BY <1>1, <1>2, <1>3 DEF MCNext

LEMMA QuotaIs == IInv /\ Vained(net) /\ QInv => QuotaHolds
<1> SUFFICES ASSUME IInv, Vained(net), QInv, NEW c \in Peer PROVE Position(c) - base[c] <= MaxSend[c]
  BY DEF QuotaHolds
<1>1. home \in Chain /\ Sane(net)
  BY HomeIs
<1>2. net.flow[c].out - net.flow[c].in <= MaxSend[c] /\ MaxSend[c] \in Int
  BY <1>1, Constants DEF IInv, Sane, Flows
<1>3. /\ net.flow[c].in \in Int /\ net.flow[c].out \in Int
      /\ Out(net, c) \in Int /\ Position(c) = Out(net, c)
  BY <1>1, GapType, PositionIs
<1>4. base[c] \in Int /\ base[c] + Slack(net, c) >= 0
  BY DEF QInv
<1> QED
  BY <1>2, <1>3, <1>4 DEF Slack

(* With its history the system still does what it does.                     *)
LEMMA MCIsSpec == MCSpec => Spec
<1>1. MCInit => Init
  BY DEF MCInit
<1>2. [MCNext]_<<vars, base>> => [Next]_vars
  BY DEF MCNext, Next
<1> QED
  BY <1>1, <1>2, PTL DEF MCSpec, Spec

(* Whatever the quotas are, no more leaves through a channel in a period,   *)
(* but for what failed forwards give back.                                  *)
THEOREM QuotasHold == MCSpec => []QuotaHolds
<1>1. MCSpec => [](IInv /\ Vained(net))
  BY MCIsSpec, AlwaysVained, PTL
<1>2. IInv /\ Vained(net) /\ QInv /\ [MCNext]_<<vars, base>> => QInv'
  BY QInvNext
<1> QED
  BY <1>1, <1>2, QInvInit, QuotaIs, PTL DEF MCSpec

-----------------------------------------------------------------------------
(* The transfers that are on the way, by the packets.                       *)

RootsOf(q) == {i \in DOMAIN q : q[i].parent = 0}

Done(p) == p.to = p.dest /\ p.phase \in {"ok", "delivered"}

PaidIn(q, i) == \E j \in DOMAIN q : (j = i \/ q[j].parent = i) /\ Done(q[j])

IdIn(q, i) == Cardinality({j \in RootsOf(q) : j <= i})

TransferAt(q, i) ==
    [id |-> IdIn(q, i), sender |-> q[i].from, receiver |-> q[i].dest, amt |-> q[i].amt]

Open(q) == {i \in RootsOf(q) : ~PaidIn(q, i) /\ q[i].phase # "returned"}

WayOf(q) == {TransferAt(q, i) : i \in Open(q)}

(* A forward that has arrived for good is one whose packet knows it.        *)
Decided(q) ==
    \A j \in DOMAIN q : q[j].parent # 0 /\ q[j].phase = "delivered"
        => q[q[j].parent].phase \in {"ok", "delivered"}

LEMMA PaidIs ==
    ASSUME NEW q \in Seq(Packet), Linked(q), NEW i \in DOMAIN q
    PROVE  PaidIn(q, i) <=> \E j \in DOMAIN q :
                                /\ j = i \/ q[j].parent = i
                                /\ q[j].to = q[i].dest /\ q[j].phase \in {"ok", "delivered"}
<1>1. i # 0
  BY Domain
<1>2. ASSUME NEW j \in DOMAIN q, q[j].parent = i
      PROVE  q[j].dest = q[j].to /\ q[i].dest = q[j].to
  BY <1>1, <1>2 DEF Linked, Forwards
<1>. QED  BY <1>2 DEF PaidIn, Done

LEMMA RootsFinite ==
    ASSUME NEW q \in Seq(Packet)
    PROVE  /\ IsFiniteSet(RootsOf(q)) /\ RootsOf(q) \in SUBSET DOMAIN q
           /\ \A i \in RootsOf(q) : i \in Nat /\ i # 0
<1>1. RootsOf(q) \in SUBSET DOMAIN q
  BY DEF RootsOf
<1>2. IsFiniteSet(DOMAIN q) /\ \A i \in DOMAIN q : i \in Nat /\ i # 0
  BY Domain
<1>3. IsFiniteSet(RootsOf(q))
  BY <1>1, <1>2, FS_Subset
<1>. QED  BY <1>1, <1>2, <1>3

LEMMA IdGrows ==
    ASSUME NEW q \in Seq(Packet), NEW i \in RootsOf(q), NEW j \in RootsOf(q), i < j
    PROVE  IdIn(q, i) # IdIn(q, j)
<1>. DEFINE U(k) == {m \in RootsOf(q) : m <= k}
            S == U(i)
            T == U(j)
<1>1. i \in Nat /\ j \in Nat /\ IsFiniteSet(RootsOf(q)) /\ \A m \in RootsOf(q) : m \in Nat
  BY RootsFinite
<1>2. S \in SUBSET T /\ T \in SUBSET RootsOf(q)
  <2>1. ASSUME NEW m \in RootsOf(q), m <= i PROVE m <= j
    BY <1>1, <2>1
  <2>. QED  BY <2>1
<1>3. j \in T /\ j \notin S
  BY <1>1
<1>4. IdIn(q, i) = Cardinality(S) /\ IdIn(q, j) = Cardinality(T)
  BY DEF IdIn
<1>. HIDE DEF U, S, T
<1>5. IsFiniteSet(T)
  BY <1>1, <1>2, FS_Subset
<1>6. Cardinality(T) = Cardinality(S) => T = S
  BY <1>2, <1>5, FS_Subset
<1>. QED  BY <1>3, <1>4, <1>6

LEMMA IdsDiffer ==
    ASSUME NEW q \in Seq(Packet), NEW i \in RootsOf(q), NEW j \in RootsOf(q), i # j
    PROVE  IdIn(q, i) # IdIn(q, j)
<1>1. i \in Nat /\ j \in Nat
  BY RootsFinite
<1>2. i < j \/ j < i
  BY <1>1
<1>. QED  BY <1>2, IdGrows

LEMMA IdBounds ==
    ASSUME NEW q \in Seq(Packet), NEW i \in RootsOf(q)
    PROVE  IdIn(q, i) \in 1 .. Cardinality(RootsOf(q)) /\ Cardinality(RootsOf(q)) \in Nat
<1>. DEFINE R == RootsOf(q)
            S == {m \in R : m <= i}
<1>1. IsFiniteSet(R) /\ i \in Nat
  BY RootsFinite
<1>2. S \in SUBSET R /\ i \in S
  BY <1>1
<1>3. IdIn(q, i) = Cardinality(S)
  BY DEF IdIn
<1>. HIDE DEF S, R
<1>4. IsFiniteSet(S) /\ Cardinality(S) <= Cardinality(R)
  BY <1>1, <1>2, FS_Subset
<1>5. Cardinality(S) \in Nat /\ Cardinality(R) \in Nat
  BY <1>1, <1>4, FS_CardinalityType
<1>6. Cardinality(S) # 0
  BY <1>2, <1>4, FS_EmptySet
<1>. QED  BY <1>3, <1>4, <1>5, <1>6 DEF R

(* A step that matters to no transfer: forwards begin or fail, and news of  *)
(* what has happened already goes back.                                     *)
Quiet(q, r) ==
    /\ r \in Seq(Packet) /\ DOMAIN q \in SUBSET DOMAIN r
    /\ \A j \in DOMAIN q :
           /\ Alike(r[j], q[j]) /\ (Done(r[j]) <=> Done(q[j]))
           /\ q[j].parent = 0 => (r[j].phase = "returned" <=> q[j].phase = "returned")
    /\ \A j \in DOMAIN r \ DOMAIN q : r[j].parent # 0 /\ ~Done(r[j])

LEMMA QuietWay ==
    ASSUME NEW q \in Seq(Packet), NEW r, Quiet(q, r)
    PROVE  RootsOf(r) = RootsOf(q) /\ WayOf(r) = WayOf(q)
<1>1. RootsOf(r) = RootsOf(q)
  BY DEF RootsOf, Quiet, Alike
<1>2. ASSUME NEW i \in RootsOf(q) PROVE PaidIn(r, i) <=> PaidIn(q, i)
  <2>1. i \in DOMAIN q
    BY DEF RootsOf
  <2>2. ASSUME NEW j \in DOMAIN q PROVE (j = i \/ r[j].parent = i) <=> (j = i \/ q[j].parent = i)
    BY DEF Quiet, Alike
  <2>3. ASSUME NEW j \in DOMAIN r, Done(r[j]) PROVE j \in DOMAIN q
    BY <2>3 DEF Quiet
  <2>4. \A j \in DOMAIN q : j \in DOMAIN r /\ (Done(r[j]) <=> Done(q[j]))
    BY DEF Quiet
  <2>. QED  BY <2>2, <2>3, <2>4 DEF PaidIn
<1>3. Open(r) = Open(q)
  BY <1>1, <1>2 DEF Open, RootsOf, Quiet
<1>4. ASSUME NEW i \in Open(q) PROVE TransferAt(r, i) = TransferAt(q, i)
  <2>1. Alike(r[i], q[i])
    BY DEF Open, RootsOf, Quiet
  <2>. QED  BY <1>1, <2>1 DEF TransferAt, IdIn, Alike
<1>5. WayOf(r) = WayOf(q)
  BY <1>3, <1>4 DEF WayOf
<1>. QED  BY <1>1, <1>5

(* A transfer is over.                                                      *)
Closes(q, r, k) ==
    /\ r \in Seq(Packet) /\ DOMAIN r = DOMAIN q
    /\ \A j \in DOMAIN q : Alike(r[j], q[j])
    /\ k \in Open(q) /\ Open(r) = Open(q) \ {k}

LEMMA CloseWay ==
    ASSUME NEW q \in Seq(Packet), NEW r, NEW k, Closes(q, r, k)
    PROVE  /\ RootsOf(r) = RootsOf(q)
           /\ TransferAt(q, k) \in WayOf(q) /\ WayOf(r) = WayOf(q) \ {TransferAt(q, k)}
<1>1. RootsOf(r) = RootsOf(q)
  BY DEF RootsOf, Closes, Alike
<1>2. k \in Open(q) /\ Open(r) = Open(q) \ {k} /\ Open(q) \in SUBSET RootsOf(q)
  BY DEF Closes, Open
<1>3. ASSUME NEW i \in Open(q) PROVE TransferAt(r, i) = TransferAt(q, i)
  <2>1. Alike(r[i], q[i])
    BY DEF Open, RootsOf, Closes
  <2>. QED  BY <1>1, <2>1 DEF TransferAt, IdIn, Alike
<1>4. ASSUME NEW i \in Open(q), i # k PROVE TransferAt(q, i) # TransferAt(q, k)
  <2>1. IdIn(q, i) # IdIn(q, k)
    BY <1>2, <1>4, IdsDiffer
  <2>2. TransferAt(q, i).id = IdIn(q, i) /\ TransferAt(q, k).id = IdIn(q, k)
    BY DEF TransferAt
  <2>. QED  BY <2>1, <2>2
<1>5. WayOf(q) = {TransferAt(q, i) : i \in Open(q)}
      /\ WayOf(r) = {TransferAt(q, i) : i \in Open(q) \ {k}}
  BY <1>2, <1>3 DEF WayOf
<1>. QED  BY <1>1, <1>2, <1>4, <1>5

(* A user's packet.                                                         *)
Joined(q, r, p, y) ==
    /\ Cardinality(RootsOf(r)) = Cardinality(RootsOf(q)) + 1
    /\ y = [id |-> Cardinality(RootsOf(q)) + 1, sender |-> p.from, receiver |-> p.dest,
            amt |-> p.amt]
    /\ WayOf(r) = WayOf(q) \cup {y}

LEMMA RootWay ==
    ASSUME NEW q \in Seq(Packet), Linked(q), NEW p \in Packet, p.parent = 0,
           p.phase = "sent", NEW r, r = Append(q, p)
    PROVE  Joined(q, r, p, TransferAt(r, Len(q) + 1))
<1>. DEFINE x == Len(q) + 1
<1>1. /\ r \in Seq(Packet) /\ DOMAIN r = DOMAIN q \cup {x} /\ r[x] = p /\ x \notin DOMAIN q
      /\ \A j \in DOMAIN q : r[j] = q[j]
  BY Domain
<1>2. DOMAIN q = 1 .. Len(q) /\ Len(q) \in Nat /\ x = Len(q) + 1
  BY Domain
<1>. HIDE DEF x
<1>3. RootsOf(r) = RootsOf(q) \cup {x} /\ x \notin RootsOf(q)
  BY <1>1 DEF RootsOf
<1>4. IsFiniteSet(RootsOf(q)) /\ Cardinality(RootsOf(q)) \in Nat
  <2>1. IsFiniteSet(RootsOf(q))
    BY RootsFinite
  <2>. QED  BY <2>1, FS_CardinalityType
<1>5. Cardinality(RootsOf(r)) = Cardinality(RootsOf(q)) + 1
  <2>. DEFINE R == RootsOf(q)
  <2>1. IsFiniteSet(R) /\ x \notin R
    BY <1>3, <1>4
  <2>. HIDE DEF R
  <2>2. Cardinality(R \cup {x}) = Cardinality(R) + 1
    BY <2>1, FS_AddElement
  <2>. QED  BY <1>3, <2>2 DEF R
<1>6. IdIn(r, x) = Cardinality(RootsOf(r))
  <2>1. \A m \in RootsOf(r) : m <= x
    BY <1>1, <1>2 DEF RootsOf
  <2>. QED  BY <2>1 DEF IdIn
<1>7. ASSUME NEW i \in RootsOf(q) PROVE IdIn(r, i) = IdIn(q, i)
  <2>1. i \in DOMAIN q
    BY DEF RootsOf
  <2>2. {m \in RootsOf(r) : m <= i} = {m \in RootsOf(q) : m <= i}
    BY <1>2, <1>3, <2>1
  <2>. QED  BY <2>2 DEF IdIn
<1>8. ASSUME NEW i \in RootsOf(q) PROVE PaidIn(r, i) <=> PaidIn(q, i)
  <2>1. i \in DOMAIN q
    BY DEF RootsOf
  <2>2. ~Done(r[x])
    BY <1>1 DEF Done
  <2>. QED  BY <1>1, <2>1, <2>2 DEF PaidIn
<1>9. ~PaidIn(r, x)
  <2>1. ~Done(r[x])
    BY <1>1 DEF Done
  <2>2. ASSUME NEW j \in DOMAIN q PROVE q[j].parent # x
    <3>1. x # 0
      BY <1>2
    <3>. QED  BY <1>1, <3>1 DEF Linked, Forwards
  <2>. QED  BY <1>1, <2>1, <2>2 DEF PaidIn
<1>10. Open(r) = Open(q) \cup {x}
  <2>1. r[x].phase # "returned"
    BY <1>1
  <2>2. \A i \in RootsOf(q) : r[i] = q[i]
    BY <1>1 DEF RootsOf
  <2>. QED  BY <1>3, <1>8, <1>9, <2>1, <2>2 DEF Open
<1>11. ASSUME NEW i \in Open(q) PROVE TransferAt(r, i) = TransferAt(q, i)
  <2>1. i \in RootsOf(q) /\ r[i] = q[i]
    BY <1>1 DEF Open, RootsOf
  <2>. QED  BY <1>7, <2>1 DEF TransferAt
<1>12. WayOf(r) = WayOf(q) \cup {TransferAt(r, x)}
  BY <1>10, <1>11 DEF WayOf
<1>13. TransferAt(r, x) = [id |-> Cardinality(RootsOf(q)) + 1, sender |-> p.from,
                           receiver |-> p.dest, amt |-> p.amt]
  BY <1>1, <1>5, <1>6 DEF TransferAt
<1>. QED  BY <1>2, <1>5, <1>12, <1>13 DEF Joined, x

LEMMA QuietTwice ==
    ASSUME NEW q, NEW m, NEW r, Quiet(q, m), Quiet(m, r)
    PROVE  Quiet(q, r)
<1>1. r \in Seq(Packet) /\ DOMAIN q \in SUBSET DOMAIN r
  BY DEF Quiet
<1>2. ASSUME NEW j \in DOMAIN q
      PROVE  /\ Alike(r[j], q[j]) /\ (Done(r[j]) <=> Done(q[j]))
             /\ q[j].parent = 0 => (r[j].phase = "returned" <=> q[j].phase = "returned")
  BY DEF Quiet, Alike
<1>3. ASSUME NEW j \in DOMAIN r \ DOMAIN q
      PROVE  r[j].parent # 0 /\ ~Done(r[j])
  <2>1. CASE j \in DOMAIN m
    BY <2>1 DEF Quiet, Alike
  <2>2. CASE j \notin DOMAIN m
    BY <2>2 DEF Quiet
  <2>. QED  BY <2>1, <2>2
<1>. QED  BY <1>1, <1>2, <1>3 DEF Quiet

(* What makes nobody's coins arrive or come back.                           *)
LEMMA QuietRephase ==
    ASSUME NEW q \in Seq(Packet), NEW i \in DOMAIN q, NEW phase, NEW r,
           Rephased(q, r, i, phase),
           \/ q[i].to # q[i].dest
           \/ phase \in {"ok", "delivered"} <=> q[i].phase \in {"ok", "delivered"},
           q[i].parent = 0 => phase # "returned" /\ q[i].phase # "returned"
    PROVE  Quiet(q, r)
<1>1. r[i].phase = phase /\ \A j \in DOMAIN q : Alike(r[j], q[j])
  BY RephasedFields
<1>2. r \in Seq(Packet) /\ DOMAIN r = DOMAIN q /\ \A j \in DOMAIN q : j # i => r[j] = q[j]
  BY DEF Rephased
<1>3. Done(r[i]) <=> Done(q[i])
  BY <1>1 DEF Done, Alike
<1>. QED  BY <1>1, <1>2, <1>3 DEF Quiet

LEMMA QuietAppend ==
    ASSUME NEW q \in Seq(Packet), NEW u \in Packet, u.parent # 0, u.phase = "sent"
    PROVE  Quiet(q, Append(q, u))
<1>. DEFINE r == Append(q, u)
            x == Len(q) + 1
<1>1. /\ r \in Seq(Packet) /\ DOMAIN r = DOMAIN q \cup {x} /\ r[x] = u
      /\ \A j \in DOMAIN q : r[j] = q[j]
  BY Domain
<1>. HIDE DEF r, x
<1>2. ~Done(u)
  BY DEF Done
<1>3. Quiet(q, r)
  BY <1>1, <1>2 DEF Quiet, Alike
<1>. QED  BY <1>3 DEF r

LEMMA DecidedRephased ==
    ASSUME NEW q \in Seq(Packet), Linked(q), Decided(q), NEW i \in DOMAIN q, NEW phase, NEW r,
           Rephased(q, r, i, phase),
           q[i].phase \in {"ok", "delivered"} => phase \in {"ok", "delivered"},
           q[i].parent # 0 /\ phase = "delivered"
               => q[q[i].parent].phase \in {"ok", "delivered"}
    PROVE  Decided(r)
<1>1. r[i].phase = phase /\ \A j \in DOMAIN q : r[j].parent = q[j].parent
  BY RephasedFields DEF Alike
<1>2. DOMAIN r = DOMAIN q /\ \A j \in DOMAIN q : j # i => r[j] = q[j]
  BY DEF Rephased
<1>3. ASSUME NEW k, q[k].phase \in {"ok", "delivered"}, k \in DOMAIN q
      PROVE  r[k].phase \in {"ok", "delivered"}
  BY <1>1, <1>2, <1>3
<1>4. ASSUME NEW j \in DOMAIN q, r[j].parent # 0, r[j].phase = "delivered"
      PROVE  r[r[j].parent].phase \in {"ok", "delivered"}
  <2>1. q[q[j].parent].phase \in {"ok", "delivered"}
    BY <1>1, <1>2, <1>4 DEF Decided
  <2>2. q[j].parent \in DOMAIN q
    BY <1>1, <1>4 DEF Linked, Forwards
  <2>. QED  BY <1>1, <1>3, <2>1, <2>2
<1>. QED  BY <1>2, <1>4 DEF Decided

LEMMA DecidedAppend ==
    ASSUME NEW q \in Seq(Packet), Linked(q), Decided(q), NEW u \in Packet, u.phase = "sent"
    PROVE  Decided(Append(q, u))
<1>. DEFINE r == Append(q, u)
            x == Len(q) + 1
<1>1. DOMAIN r = DOMAIN q \cup {x} /\ r[x] = u /\ \A j \in DOMAIN q : r[j] = q[j]
  BY Domain
<1>. HIDE DEF r, x
<1>2. ASSUME NEW j \in DOMAIN q, q[j].parent # 0 PROVE q[j].parent \in DOMAIN q
  BY <1>2 DEF Linked, Forwards
<1>3. Decided(r)
  BY <1>1, <1>2 DEF Decided
<1>. QED  BY <1>3 DEF r

(* Nobody has been paid for a packet that is sent or failed, or that waits  *)
(* for a forward that is not received.                                      *)
LEMMA NotPaid ==
    ASSUME NEW q \in Seq(Packet), Linked(q), Waited(q), Decided(q), NEW k \in DOMAIN q,
           q[k].phase \in {"sent", "error", "waiting"},
           q[k].phase = "waiting" =>
               \E i \in DOMAIN q : q[i].parent = k /\ Live(q[i]) /\ q[i].phase # "ok"
    PROVE  ~PaidIn(q, k)
<1>. SUFFICES ASSUME NEW j \in DOMAIN q, j = k \/ q[j].parent = k, Done(q[j])
              PROVE  FALSE
  BY DEF PaidIn
<1>1. j # k /\ q[j].parent = k /\ k # 0
  BY Domain DEF Done
<1>2. q[j].phase = "ok"
  BY <1>1 DEF Done, Decided
<1>3. Live(q[j]) /\ q[k].phase = "waiting"
  BY <1>1, <1>2 DEF Live, Waited
<1>4. PICK i \in DOMAIN q : q[i].parent = k /\ Live(q[i]) /\ q[i].phase # "ok"
  BY <1>3
<1>5. i = j
  BY <1>1, <1>3, <1>4 DEF Waited
<1>. QED  BY <1>2, <1>4, <1>5

LEMMA PaidCloses ==
    ASSUME NEW q \in Seq(Packet), Linked(q), Waited(q), Decided(q), NEW i \in DOMAIN q,
           q[i].phase = "sent", q[i].to = q[i].dest, NEW r, Rephased(q, r, i, "ok"),
           NEW k, k = IF q[i].parent = 0 THEN i ELSE q[i].parent,
           k \in RootsOf(q)
    PROVE  Closes(q, r, k)
<1>1. r[i].phase = "ok" /\ \A j \in DOMAIN q : Alike(r[j], q[j])
  BY RephasedFields
<1>2. r \in Seq(Packet) /\ DOMAIN r = DOMAIN q /\ \A j \in DOMAIN q : j # i => r[j] = q[j]
  BY DEF Rephased
<1>3. RootsOf(r) = RootsOf(q) /\ k \in DOMAIN q /\ q[k].parent = 0
  BY <1>1, <1>2 DEF RootsOf, Alike
<1>4. q[k].phase \in {"sent", "waiting"} /\ ~PaidIn(q, k)
  <2>1. CASE q[i].parent = 0
    <3>1. k = i
      BY <2>1
    <3>. QED  BY <3>1, NotPaid
  <2>2. CASE q[i].parent # 0
    <3>1. k = q[i].parent
      BY <2>2
    <3>2. Live(q[i]) /\ q[k].phase = "waiting"
      BY <2>2, <3>1 DEF Live, Waited
    <3>3. \E j \in DOMAIN q : q[j].parent = k /\ Live(q[j]) /\ q[j].phase # "ok"
      BY <3>1, <3>2
    <3>. QED  BY <1>3, <3>2, <3>3, NotPaid
  <2>. QED  BY <2>1, <2>2
<1>5. k \in Open(q)
  BY <1>3, <1>4 DEF Open, RootsOf
<1>6. PaidIn(r, k)
  <2>1. Done(r[i]) /\ (i = k \/ r[i].parent = k)
    BY <1>1 DEF Done, Alike
  <2>. QED  BY <1>2, <2>1 DEF PaidIn
<1>7. ASSUME NEW n \in RootsOf(q), n # k
      PROVE  r[n] = q[n] /\ (PaidIn(r, n) <=> PaidIn(q, n))
  <2>1. n \in DOMAIN q /\ q[n].parent = 0 /\ n # 0
    BY Domain DEF RootsOf
  <2>2. i # n /\ q[i].parent # n
    BY <1>7, <2>1
  <2>3. \A j \in DOMAIN q : r[j].parent = q[j].parent
    BY <1>1 DEF Alike
  <2>. QED  BY <1>2, <2>1, <2>2, <2>3 DEF PaidIn
<1>8. Open(r) = Open(q) \ {k}
  BY <1>3, <1>6, <1>7 DEF Open
<1>. QED  BY <1>1, <1>2, <1>5, <1>8 DEF Closes

LEMMA ReturnedCloses ==
    ASSUME NEW q \in Seq(Packet), Linked(q), Waited(q), Decided(q), NEW i \in DOMAIN q,
           q[i].phase \in {"sent", "error"}, q[i].parent = 0,
           NEW r, Rephased(q, r, i, "returned")
    PROVE  Closes(q, r, i)
<1>1. r[i].phase = "returned" /\ \A j \in DOMAIN q : Alike(r[j], q[j])
  BY RephasedFields
<1>2. r \in Seq(Packet) /\ DOMAIN r = DOMAIN q /\ \A j \in DOMAIN q : j # i => r[j] = q[j]
  BY DEF Rephased
<1>3. RootsOf(r) = RootsOf(q) /\ i \in RootsOf(q)
  BY <1>1, <1>2 DEF RootsOf, Alike
<1>4. ~PaidIn(q, i)
  BY NotPaid
<1>5. i \in Open(q)
  BY <1>3, <1>4 DEF Open
<1>6. ASSUME NEW j \in DOMAIN q PROVE r[j].parent = q[j].parent /\ (Done(r[j]) <=> Done(q[j]))
  BY <1>1, <1>2 DEF Done, Alike
<1>7. ASSUME NEW n PROVE PaidIn(r, n) <=> PaidIn(q, n)
  BY <1>2, <1>6 DEF PaidIn
<1>8. Open(r) = Open(q) \ {i}
  <2>1. ASSUME NEW n \in RootsOf(q), n # i PROVE r[n] = q[n]
    BY <1>2, <2>1 DEF RootsOf
  <2>. QED  BY <1>1, <1>3, <1>7, <2>1 DEF Open
<1>. QED  BY <1>1, <1>2, <1>5, <1>8 DEF Closes

-----------------------------------------------------------------------------
(* What the messages do to the users. *)

Orderly(s) == Sane(s) /\ Waited(s.packets) /\ Decided(s.packets)

(* Nothing, that they would notice.                                         *)
Still(s, t) ==
    /\ Quiet(s.packets, t.packets) /\ Decided(t.packets)
    /\ \A c \in Chain : t.bal[c] = s.bal[c]

(* The user has the coins of transfer k.                                    *)
Earned(s, t, user, amt) ==
    \A c \in Chain : t.bal[c] = s.bal[c] + IF c = user THEN amt ELSE 0

Settled(s, t, k, user) ==
    /\ Closes(s.packets, t.packets, k) /\ Decided(t.packets) /\ user \in Chain
    /\ Earned(s, t, user, s.packets[k].amt)

LEMMA GaveUser ==
    ASSUME NEW s \in Net0, NEW m, NEW who \in Account, NEW amt \in Int, Gave(s, m, who, amt),
           NEW t, t.bal = m.bal
    PROVE  Earned(s, t, who, amt)
<1>. SUFFICES ASSUME NEW c \in Chain PROVE t.bal[c] = s.bal[c] + IF c = who THEN amt ELSE 0
  BY DEF Earned
<1>1. c \in Account /\ s.bal \in [Account -> Int]
  BY Users DEF Net0
<1>2. t.bal = [s.bal EXCEPT ![who] = @ + amt]
  BY DEF Gave
<1>. QED  BY <1>1, <1>2

LEMMA PhaseStill ==
    ASSUME NEW s \in Net0, Linked(s.packets), Decided(s.packets), NEW i \in DOMAIN s.packets,
           NEW phase \in {"sent", "waiting", "ok", "error", "delivered", "returned"},
           \/ s.packets[i].to # s.packets[i].dest
           \/ phase \in {"ok", "delivered"} <=> s.packets[i].phase \in {"ok", "delivered"},
           s.packets[i].parent = 0 => phase # "returned" /\ s.packets[i].phase # "returned",
           s.packets[i].phase \in {"ok", "delivered"} => phase \in {"ok", "delivered"},
           s.packets[i].parent # 0 /\ phase = "delivered"
               => s.packets[s.packets[i].parent].phase \in {"ok", "delivered"},
           NEW t, t = Phase(s, i, phase)
    PROVE  Still(s, t)
<1>1. /\ Phase(s, i, phase).bal = s.bal
      /\ Rephased(s.packets, Phase(s, i, phase).packets, i, phase)
  BY PhaseIs
<1>2. t.bal = s.bal /\ Rephased(s.packets, t.packets, i, phase) /\ s.packets \in Seq(Packet)
  BY <1>1 DEF Net0
<1>3. Quiet(s.packets, t.packets)
  BY <1>2, QuietRephase
<1>4. Decided(t.packets)
  BY <1>2, DecidedRephased
<1>. QED  BY <1>2, <1>3, <1>4 DEF Still

LEMMA StillTwice ==
    ASSUME NEW s, NEW m, NEW t, Still(s, m), Still(m, t)
    PROVE  Still(s, t)
<1>1. Quiet(s.packets, t.packets)
  BY QuietTwice DEF Still
<1>. QED  BY <1>1 DEF Still

LEMMA ForwardedStill ==
    ASSUME NEW s, Sane(s), Decided(s.packets), NEW i \in DOMAIN s.packets, NEW a \in Net0,
           NEW t, Gave(s, a, "forwarder", s.packets[i].amt), NEW k \in DOMAIN s.packets,
           s.packets[k].amt = s.packets[i].amt, Forwarded(a, t, k)
    PROVE  Still(s, t)
<1>. DEFINE q == s.packets
            amt == q[i].amt
<1>1. /\ s \in Net0 /\ q \in Seq(Packet) /\ Linked(q) /\ amt \in Int /\ k \in Nat /\ k # 0
  BY PacketsOf, PacketIs DEF Sane
<1>2. a.packets = q /\ a.bal = [s.bal EXCEPT !["forwarder"] = @ + amt]
  BY DEF Gave
<1>3. PICK u \in Packet : u.parent = k /\ u.phase = "sent" /\ t.packets = Append(q, u)
  BY <1>2 DEF Forwarded
<1>4. t.bal = [a.bal EXCEPT !["forwarder"] = @ - amt]
  BY <1>2 DEF Forwarded
<1>5. ASSUME NEW c \in Chain PROVE t.bal[c] = s.bal[c]
  <2>1. c \in Account /\ c # "forwarder" /\ s.bal \in [Account -> Int] /\ a.bal \in [Account -> Int]
    BY <1>1, Users DEF Net0
  <2>. HIDE DEF amt
  <2>. QED  BY <1>2, <1>4, <2>1
<1>6. Quiet(q, t.packets) /\ Decided(t.packets)
  BY <1>1, <1>3, QuietAppend, DecidedAppend
<1>. QED  BY <1>5, <1>6 DEF Still

LEMMA RecvForwards ==
    ASSUME NEW s, Orderly(s), home \in Chain, NEW i \in DOMAIN s.packets,
           s.packets[i].phase = "sent", s.packets[i].to # s.packets[i].dest,
           NEW t, t = OnRecvPacket(s, i)
    PROVE  Still(s, t)
<1>. DEFINE p == s.packets[i]
            a == LowerOnRecvPacket(s, "forwarder", p)
            b == ForwardTransferPacket(a, i, p.retries)
<1>1. /\ s \in Net0 /\ s.packets \in Seq(Packet) /\ Linked(s.packets) /\ p \in Packet /\ Hop(p)
      /\ p.retries \in 0 .. MaxRetries /\ i # 0 /\ Sane(s) /\ Decided(s.packets)
  BY PacketsOf, PacketIs DEF Sane, Orderly
<1>2. p.to = "B" /\ p.dest # "B" /\ p.parent = 0 /\ "forwarder" \in Accounts(p.to)
  BY <1>1 DEF Linked, Forwards, Accounts
<1>3. Kept(s, a) /\ a.packets = s.packets
  BY <1>1, <1>2, LowerRecvKept
<1>4. Gave(s, a, "forwarder", p.amt)
  BY <1>1, Users, LowerRecvGave
<1>5. t = Phase(b, i, "waiting")
  BY DEF OnRecvPacket
<1>. HIDE DEF a
<1>6. Sane(a) /\ a \in Net0
  BY <1>3 DEF Kept, Sane
<1>7. Kept(a, b)
  BY <1>1, <1>2, <1>3, <1>6, ForwardKept
<1>8. Forwarded(a, b, i)
  BY <1>1, <1>2, <1>3, <1>6, ForwardTook
<1>. HIDE DEF b
<1>9. Still(s, b)
  BY <1>1, <1>4, <1>6, <1>8, ForwardedStill
<1>10. /\ b \in Net0 /\ Linked(b.packets) /\ Decided(b.packets) /\ i \in DOMAIN b.packets
       /\ b.packets[i] = p
  <2>1. PICK u \in Packet : b.packets = Append(s.packets, u)
    BY <1>3, <1>8 DEF Forwarded
  <2>2. i \in DOMAIN b.packets /\ b.packets[i] = p
    BY <1>1, <2>1, Domain
  <2>. QED  BY <1>7, <1>9, <2>2 DEF Kept, Sane, Still
<1>11. Still(b, t)
  BY <1>2, <1>5, <1>10, PhaseStill
<1>. QED  BY <1>9, <1>11, StillTwice

LEMMA RecvPays ==
    ASSUME NEW s, Orderly(s), home \in Chain, NEW i \in DOMAIN s.packets,
           s.packets[i].phase = "sent", s.packets[i].to = s.packets[i].dest,
           NEW t, t = OnRecvPacket(s, i)
    PROVE  \E k \in Open(s.packets) : Settled(s, t, k, s.packets[k].dest)
<1>. DEFINE q == s.packets
            p == q[i]
            a == LowerOnRecvPacket(s, p.dest, p)
            k == IF p.parent = 0 THEN i ELSE p.parent
<1>1. /\ s \in Net0 /\ q \in Seq(Packet) /\ Linked(q) /\ p \in Packet /\ Hop(p)
      /\ Sane(s) /\ Waited(q) /\ Decided(q)
  BY PacketsOf, PacketIs DEF Sane, Orderly
<1>2. p.dest \in Chain /\ p.dest \in Account /\ p.amt \in Int
  BY <1>1, Users, HopChannels
<1>3. Gave(s, a, p.dest, p.amt)
  BY <1>1, <1>2, LowerRecvGave
<1>4. t = Phase(a, i, "ok")
  BY DEF OnRecvPacket
<1>. HIDE DEF a
<1>5. a \in Net0 /\ a.packets = q
  BY <1>3 DEF Gave
<1>6. t.bal = a.bal /\ Rephased(q, t.packets, i, "ok")
  BY <1>4, <1>5, PhaseIs
<1>7. k \in RootsOf(q) /\ q[k].dest = p.dest /\ q[k].amt = p.amt
  <2>1. CASE p.parent = 0
    BY <2>1 DEF RootsOf
  <2>2. CASE p.parent # 0
    BY <1>1, <2>2, ParentIs DEF RootsOf
  <2>. QED  BY <2>1, <2>2
<1>8. k = IF q[i].parent = 0 THEN i ELSE q[i].parent
  OBVIOUS
<1>. HIDE DEF k
<1>9. Closes(q, t.packets, k)
  BY <1>1, <1>6, <1>7, <1>8, PaidCloses
<1>10. Decided(t.packets)
  BY <1>1, <1>6, DecidedRephased
<1>11. Earned(s, t, p.dest, p.amt)
  BY <1>1, <1>2, <1>3, <1>6, GaveUser
<1>12. Settled(s, t, k, q[k].dest)
  BY <1>2, <1>7, <1>9, <1>10, <1>11 DEF Settled
<1>. QED  BY <1>9, <1>12 DEF Closes

LEMMA ReturnPays ==
    ASSUME NEW s, Orderly(s), NEW i \in DOMAIN s.packets,
           s.packets[i].phase \in {"sent", "error"}, s.packets[i].parent = 0,
           NEW m, Gave(s, m, s.packets[i].from, s.packets[i].amt),
           NEW t, t = Phase(m, i, "returned")
    PROVE  i \in Open(s.packets) /\ Settled(s, t, i, s.packets[i].from)
<1>. DEFINE q == s.packets
            p == q[i]
<1>1. /\ s \in Net0 /\ q \in Seq(Packet) /\ Linked(q) /\ p \in Packet /\ Hop(p)
      /\ Waited(q) /\ Decided(q)
  BY PacketsOf, PacketIs DEF Sane, Orderly
<1>2. p.from \in Chain /\ p.from \in Account /\ p.amt \in Int
  BY <1>1, Users, HopChannels
<1>3. m \in Net0 /\ m.packets = q
  BY DEF Gave
<1>4. t.bal = m.bal /\ Rephased(q, t.packets, i, "returned")
  BY <1>3, PhaseIs
<1>5. Closes(q, t.packets, i)
  BY <1>1, <1>4, ReturnedCloses
<1>6. Decided(t.packets)
  BY <1>1, <1>4, DecidedRephased
<1>7. Earned(s, t, p.from, p.amt)
  BY <1>1, <1>2, <1>4, GaveUser
<1>8. Settled(s, t, i, p.from)
  BY <1>2, <1>5, <1>6, <1>7 DEF Settled
<1>. QED  BY <1>5, <1>8 DEF Closes

(* A forward is over, and the packet that waits for it hears of it.         *)
LEMMA OverStill ==
    ASSUME NEW s, Orderly(s), home \in Chain, NEW i \in DOMAIN s.packets, Live(s.packets[i]),
           NEW result \in {"ok", "error"}, s.packets[i].phase = "ok" <=> result = "ok",
           NEW last, last = (IF result = "ok" THEN "delivered" ELSE "returned"),
           NEW t, t = Phase(WriteAcknowledgementForForwardedPacket(s, i, result), i, last)
    PROVE  Still(s, t)
<1>. DEFINE q == s.packets
            p == q[i]
            k == p.parent
            m == WriteAcknowledgementForForwardedPacket(s, i, result)
<1>1. /\ s \in Net0 /\ q \in Seq(Packet) /\ Linked(q) /\ p \in Packet /\ Sane(s)
      /\ Waited(q) /\ Decided(q) /\ p.parent # 0
  BY PacketsOf DEF Sane, Orderly, Live
<1>2. k \in DOMAIN q /\ k # i /\ q[k].parent = 0 /\ q[k].to # q[k].dest /\ q[k].phase = "waiting"
  BY <1>1, ParentIs DEF Waited
<1>3. Kept(s, m) /\ Rephased(q, m.packets, k, result)
  BY <1>1, <1>2, WriteAckKept
<1>4. m.bal = s.bal
  BY <1>1, WriteAckBal
<1>5. t = Phase(m, i, last)
  OBVIOUS
<1>. HIDE DEF m
<1>6. Quiet(q, m.packets) /\ Decided(m.packets)
  BY <1>1, <1>2, <1>3, QuietRephase, DecidedRephased
<1>7. Still(s, m)
  BY <1>4, <1>6 DEF Still
<1>8. m.packets[k].phase = result /\ m.packets[i] = p /\ i \in DOMAIN m.packets
  <2>1. m.packets[k].phase = result
    BY <1>1, <1>2, <1>3, RephasedFields
  <2>. QED  BY <1>2, <1>3, <2>1 DEF Rephased
<1>9. m \in Net0 /\ Linked(m.packets)
  BY <1>3 DEF Kept, Sane
<1>10. Still(m, t)
  <2>1. last \in {"delivered", "returned"} /\ (last = "delivered" <=> result = "ok")
    OBVIOUS
  <2>2. p.phase \in {"ok", "delivered"} <=> last = "delivered"
    BY <2>1 DEF Live
  <2>3. last = "delivered" => m.packets[p.parent].phase \in {"ok", "delivered"}
    BY <1>8, <2>1
  <2>. HIDE DEF p
  <2>. QED  BY <1>1, <1>5, <1>6, <1>8, <1>9, <2>1, <2>2, <2>3, PhaseStill
<1>. QED  BY <1>7, <1>10, StillTwice

(* Nothing, or the coins of packet i come back to the user who sent it.     *)
Over(s, t, i) ==
    \/ Still(s, t)
    \/ i \in Open(s.packets) /\ Settled(s, t, i, s.packets[i].from)

LEMMA AckUsers ==
    ASSUME NEW s, Orderly(s), home \in Chain, NEW i \in DOMAIN s.packets,
           s.packets[i].phase \in {"ok", "error"},
           NEW last, last = (IF s.packets[i].phase = "ok" THEN "delivered" ELSE "returned"),
           NEW t, t = Phase(OnAcknowledgementPacket(s, i), i, last)
    PROVE  Over(s, t, i)
<1>. DEFINE p == s.packets[i]
            o == Readable(p)
            read == [s EXCEPT !.ok = s.ok /\ o]
            m == OnAcknowledgementPacket(s, i)
<1>1. o \in BOOLEAN
  BY DEF Readable
<1>2. m = IF p.parent # 0 THEN WriteAcknowledgementForForwardedPacket(read, i, p.phase)
          ELSE LowerOnAcknowledgementPacket(read, i)
  BY DEF OnAcknowledgementPacket
<1>3. t = Phase(m, i, last)
  OBVIOUS
<1>. HIDE DEF o, m
<1>4. Kept(s, read) /\ read.packets = s.packets
  BY <1>1, ReadKept DEF Orderly
<1>5. read.bal = s.bal
  BY DEF Orderly, Sane, Net0
<1>. HIDE DEF read
<1>6. /\ Orderly(read) /\ read \in Net0 /\ Linked(read.packets) /\ Decided(read.packets)
      /\ i \in DOMAIN read.packets /\ read.packets[i] = p
  BY <1>4 DEF Kept, Orderly, Sane
<1>7. CASE p.parent # 0
  <2>1. Live(p) /\ p.phase \in {"ok", "error"} /\ last = (IF p.phase = "ok" THEN "delivered" ELSE "returned")
    BY <1>7 DEF Live
  <2>2. t = Phase(WriteAcknowledgementForForwardedPacket(read, i, p.phase), i, last)
    BY <1>2, <1>3, <1>7
  <2>. HIDE DEF p
  <2>3. Still(read, t)
    BY <1>6, <2>1, <2>2, OverStill
  <2>. QED  BY <1>4, <1>5, <2>3 DEF Still, Over
<1>8. CASE p.parent = 0 /\ p.phase = "error"
  <2>1. m = RefundTransfer(Undo(read, i), p.from, p)
    BY <1>2, <1>6, <1>8 DEF LowerOnAcknowledgementPacket
  <2>2. p.from \in Account /\ t = Phase(m, i, "returned")
    <3>1. Hop(p)
      BY PacketsOf DEF Orderly
    <3>2. p.from \in Chain
      BY <3>1, HopChannels
    <3>. QED  BY <1>3, <1>8, <3>2, Users
  <2>. HIDE DEF p
  <2>3. Gave(read, m, p.from, p.amt)
    BY <1>6, <2>1, <2>2, UndoRefundGave DEF Orderly
  <2>4. i \in Open(read.packets) /\ Settled(read, t, i, p.from)
    BY <1>6, <1>8, <2>2, <2>3, ReturnPays
  <2>. QED  BY <1>4, <1>5, <2>4 DEF Settled, Earned, p, Over
<1>9. CASE p.parent = 0 /\ p.phase = "ok"
  <2>. DEFINE n == read.pending \ {i}
  <2>1. m = [read EXCEPT !.pending = n]
    BY <1>2, <1>6, <1>9 DEF LowerOnAcknowledgementPacket
  <2>2. n \in SUBSET Nat
    BY <1>6 DEF Net0
  <2>. HIDE DEF n, p
  <2>3. m \in Net0 /\ m.packets = read.packets /\ m.bal = read.bal
    BY <1>6, <2>1, <2>2 DEF Net0
  <2>4. last = "delivered"
    BY <1>9 DEF p
  <2>5. Still(m, t)
    BY <1>3, <1>6, <1>9, <2>3, <2>4, PhaseStill
  <2>. QED  BY <1>4, <1>5, <2>3, <2>5 DEF Still, Over
<1>. QED  BY <1>7, <1>8, <1>9

LEMMA TimeoutUsers ==
    ASSUME NEW s, Orderly(s), home \in Chain, NEW i \in DOMAIN s.packets,
           s.packets[i].phase = "sent",
           NEW t, t = Phase(OnTimeoutPacket(s, i), i, "returned")
    PROVE  Over(s, t, i)
<1>. DEFINE p == s.packets[i]
            m == OnTimeoutPacket(s, i)
<1>1. /\ s \in Net0 /\ s.packets \in Seq(Packet) /\ Linked(s.packets) /\ p \in Packet /\ Hop(p)
      /\ p.retries \in 0 .. MaxRetries /\ Sane(s) /\ Decided(s.packets)
  BY PacketsOf, PacketIs DEF Sane, Orderly
<1>2. CASE p.parent = 0
  <2>1. m = RefundTransfer(Undo(s, i), p.from, p)
    BY <1>2 DEF OnTimeoutPacket, LowerOnTimeoutPacket
  <2>2. p.from \in Account
    BY <1>1, HopChannels, Users
  <2>. HIDE DEF p, m
  <2>3. Gave(s, m, s.packets[i].from, s.packets[i].amt)
    BY <1>1, <2>1, <2>2, UndoRefundGave DEF p
  <2>4. t = Phase(m, i, "returned") /\ s.packets[i].parent = 0
    BY <1>2 DEF m, p
  <2>5. i \in Open(s.packets) /\ Settled(s, t, i, s.packets[i].from)
    BY <2>3, <2>4, ReturnPays
  <2>. QED  BY <2>5 DEF Over
<1>3. CASE p.parent # 0 /\ p.retries = 0
  <2>1. m = WriteAcknowledgementForForwardedPacket(s, i, "error") /\ Live(p)
    BY <1>3 DEF OnTimeoutPacket, Live
  <2>2. Still(s, t)
    BY <2>1, OverStill
  <2>. QED  BY <2>2 DEF Over
<1>4. CASE p.parent # 0 /\ p.retries # 0
  <2>. DEFINE k == p.parent
              n == p.retries - 1
              a == LowerOnTimeoutPacket(s, "forwarder", i)
  <2>1. /\ k \in DOMAIN s.packets /\ p.from = "B" /\ s.packets[k].to = "B"
        /\ s.packets[k].dest # "B" /\ s.packets[k].amt = p.amt
    <3>1. /\ k \in DOMAIN s.packets /\ p.from = "B" /\ s.packets[k].to = "B"
          /\ s.packets[k].dest # s.packets[k].to /\ s.packets[k].amt = p.amt
      BY <1>1, <1>4, ParentIs
    <3>. QED  BY <3>1
  <2>2. m = ForwardTransferPacket(a, k, n)
    BY <1>4 DEF OnTimeoutPacket
  <2>3. n \in 0 .. MaxRetries /\ "forwarder" \in Accounts(p.from)
    BY <1>1, <1>4, <2>1, Constants DEF Accounts
  <2>4. a = RefundTransfer(Undo(s, i), "forwarder", p)
    BY DEF LowerOnTimeoutPacket
  <2>5. Kept(s, a) /\ a.packets = s.packets
    BY <1>1, <2>3, <2>4, RefundKept
  <2>6. Gave(s, a, "forwarder", p.amt)
    BY <1>1, <2>4, Users, UndoRefundGave
  <2>7. t = Phase(m, i, "returned")
    OBVIOUS
  <2>. HIDE DEF a, m, n, k
  <2>8. Sane(a) /\ a \in Net0 /\ k \in DOMAIN a.packets /\ a.packets[k].to = "B" /\ a.packets[k].dest # "B"
    BY <2>1, <2>5 DEF Kept, Sane
  <2>9. Kept(a, m)
    BY <2>2, <2>3, <2>8, ForwardKept
  <2>10. Forwarded(a, m, k)
    BY <2>2, <2>3, <2>8, ForwardTook
  <2>11. Still(s, m)
    BY <1>1, <2>1, <2>6, <2>8, <2>10, ForwardedStill
  <2>12. /\ m \in Net0 /\ Linked(m.packets) /\ Decided(m.packets) /\ i \in DOMAIN m.packets
         /\ m.packets[i] = p
    <3>1. PICK u \in Packet : m.packets = Append(s.packets, u)
      BY <2>5, <2>10 DEF Forwarded
    <3>2. i \in DOMAIN m.packets /\ m.packets[i] = p
      BY <1>1, <3>1, Domain
    <3>. QED  BY <2>9, <2>11, <3>2 DEF Kept, Sane, Still
  <2>13. Still(m, t)
    BY <1>4, <2>7, <2>12, PhaseStill
  <2>14. Still(s, t)
    BY <2>11, <2>13, StillTwice
  <2>. QED  BY <2>14 DEF Over
<1>. QED  BY <1>2, <1>3, <1>4

(* A user's coins have left.                                                *)
Started(s, t, p) ==
    /\ p \in Packet /\ p.parent = 0 /\ p.phase = "sent"
    /\ t.packets = Append(s.packets, p) /\ Decided(t.packets)
    /\ s.bal[p.from] >= p.amt
    /\ \A c \in Chain : t.bal[c] = s.bal[c] - IF c = p.from THEN p.amt ELSE 0

LEMMA TransferUsers ==
    ASSUME IInv, Decided(net.packets), MsgTransfer
    PROVE  Cardinality(Roots) < MaxTransfers /\ \E p : Started(net, net', p)
<1>1. PICK ch \in Channel, dest \in Chain, amt \in Amount, retries \in 0 .. MaxRetries :
          /\ net' = Transfer(net, ch[1],
                        [from |-> ch[1], to |-> ch[2], dest |-> dest, amt |-> amt,
                         parent |-> 0, retries |-> retries, phase |-> "sent"])
          /\ net'.ok
  BY DEF MsgTransfer
<1>. DEFINE p == [from |-> ch[1], to |-> ch[2], dest |-> dest, amt |-> amt,
                  parent |-> 0, retries |-> retries, phase |-> "sent"]
<1>2. ch[1] \in Chain /\ ch[2] \in Chain /\ <<ch[1], ch[2]>> \in Channel
  BY DEF Channel, Chain
<1>3. p \in Packet /\ Hop(p)
  <2>1. p \in Packet
    BY <1>2 DEF Packet
  <2>. QED  BY <1>2, <2>1 DEF Hop
<1>4. p.from = ch[1] /\ p.parent = 0 /\ p.phase = "sent"
  OBVIOUS
<1>5. net' = Transfer(net, ch[1], p)
  BY <1>1
<1>. HIDE DEF p
<1>6. /\ net \in Net0 /\ net.packets \in Seq(Packet) /\ Linked(net.packets)
      /\ net.bal \in [Account -> Int] /\ home \in Chain
  BY HomeIs DEF Sane, Net0
<1>7. ch[1] \in Account /\ p.from \in Account /\ p.amt \in Int
  BY <1>2, <1>3, <1>4, Users, HopChannels
<1>8. Left(net, Transfer(net, ch[1], p), ch[1], p)
  BY <1>3, <1>6, <1>7, TransferTook
<1>9. /\ net'.bal = [net.bal EXCEPT ![p.from] = @ - p.amt] /\ net.bal[p.from] >= p.amt
      /\ net'.packets = Append(net.packets, p)
  BY <1>1, <1>4, <1>5, <1>8 DEF Left
<1>10. Decided(Append(net.packets, p))
  BY <1>3, <1>4, <1>6, DecidedAppend
<1>11. ASSUME NEW c \in Chain
       PROVE  net'.bal[c] = net.bal[c] - IF c = p.from THEN p.amt ELSE 0
  <2>1. c \in Account
    BY Users
  <2>. QED  BY <1>6, <1>7, <1>9, <2>1
<1>12. Started(net, net', p)
  BY <1>3, <1>4, <1>9, <1>10, <1>11 DEF Started
<1>. QED  BY <1>12 DEF MsgTransfer

(* Every step takes coins from the user who sends them, or gives those of a *)
(* transfer to its receiver or its sender, or does nothing of the kind.     *)
LEMMA NextUsers ==
    ASSUME IInv, Decided(net.packets), Next
    PROVE  \/ Cardinality(Roots) < MaxTransfers /\ \E p : Started(net, net', p)
           \/ Still(net, net')
           \/ \E k \in Open(net.packets) :
                  \/ Settled(net, net', k, net.packets[k].dest)
                  \/ Settled(net, net', k, net.packets[k].from)
<1>1. Orderly(net) /\ home \in Chain /\ net \in Net0 /\ Linked(net.packets)
  BY HomeIs DEF Orderly, Sane
<1>2. CASE MsgTransfer
  BY <1>2, TransferUsers
<1>3. ASSUME NEW i \in DOMAIN net.packets, MsgRecvPacket(i)
      PROVE  \/ Still(net, net')
             \/ \E k \in Open(net.packets) : Settled(net, net', k, net.packets[k].dest)
  <2>1. net.packets[i].phase = "sent"
    BY <1>3 DEF MsgRecvPacket
  <2>2. CASE net' = Phase(net, i, "error")
    BY <1>1, <2>1, <2>2, PhaseStill DEF Orderly
  <2>3. CASE net' = OnRecvPacket(net, i)
    BY <1>1, <2>1, <2>3, RecvForwards, RecvPays
  <2>. QED  BY <1>3, <2>2, <2>3 DEF MsgRecvPacket
<1>4. ASSUME NEW i \in DOMAIN net.packets, MsgAcknowledgement(i)
      PROVE  Over(net, net', i)
  <2>. DEFINE last == IF net.packets[i].phase = "ok" THEN "delivered" ELSE "returned"
  <2>1. net.packets[i].phase \in {"ok", "error"} /\ net' = Phase(OnAcknowledgementPacket(net, i), i, last)
    BY <1>4 DEF MsgAcknowledgement, Handled
  <2>. QED  BY <1>1, <2>1, AckUsers
<1>5. ASSUME NEW i \in DOMAIN net.packets, MsgTimeout(i)
      PROVE  Over(net, net', i)
  <2>1. net.packets[i].phase = "sent" /\ net' = Phase(OnTimeoutPacket(net, i), i, "returned")
    BY <1>5 DEF MsgTimeout, Handled
  <2>. QED  BY <1>1, <2>1, TimeoutUsers
<1>6. CASE ResetRateLimits
  <2>1. net'.packets = net.packets /\ net'.bal = net.bal
    BY <1>1, <1>6 DEF ResetRateLimits, Net0
  <2>2. Quiet(net.packets, net.packets)
    BY <1>1 DEF Quiet, Alike, Net0
  <2>. QED  BY <2>1, <2>2 DEF Still
<1>. QED  BY <1>2, <1>3, <1>4, <1>5, <1>6 DEF Next, Step, Over

-----------------------------------------------------------------------------
(* What TransferPromise sees of the net. *)

Readied == net.packets \in Seq(Packet) /\ Linked(net.packets) /\ net \in Net0

View ==
    /\ Roots = RootsOf(net.packets) /\ OnTheWay = WayOf(net.packets)
    /\ HeldUp \in SUBSET (1 .. Cardinality(Roots)) /\ Cardinality(Roots) \in Nat

LEMMA ViewIs == Readied => View
<1>. SUFFICES ASSUME Readied PROVE View
  OBVIOUS
<1>. DEFINE q == net.packets
<1>1. q \in Seq(Packet) /\ Linked(q)
  BY DEF Readied
<1>2. Roots = RootsOf(q)
  BY DEF Roots, RootsOf
<1>3. ASSUME NEW i \in RootsOf(q)
      PROVE  (Paid(i) <=> PaidIn(q, i)) /\ Id(i) = IdIn(q, i)
  <2>1. i \in DOMAIN q
    BY DEF RootsOf
  <2>2. Paid(i) <=> PaidIn(q, i)
    BY <1>1, <2>1, PaidIs DEF Paid
  <2>3. Id(i) = IdIn(q, i)
    BY <1>2 DEF Id, IdIn
  <2>. QED  BY <2>2, <2>3
<1>4. OnTheWay = WayOf(q)
  <2>. DEFINE S == {i \in Roots : ~Paid(i) /\ net.packets[i].phase # "returned"}
  <2>1. S = Open(q)
    BY <1>2, <1>3 DEF Open
  <2>2. OnTheWay = {[id |-> Id(i), sender |-> net.packets[i].from,
                     receiver |-> net.packets[i].dest, amt |-> net.packets[i].amt] : i \in S}
    BY DEF OnTheWay
  <2>. HIDE DEF S
  <2>3. \A i \in S : Id(i) = IdIn(q, i)
    BY <1>3, <2>1 DEF Open
  <2>. QED  BY <2>1, <2>2, <2>3 DEF WayOf, TransferAt
<1>5. Cardinality(Roots) \in Nat
  <2>1. IsFiniteSet(Roots)
    BY <1>1, <1>2, RootsFinite
  <2>. QED  BY <2>1, FS_CardinalityType
<1>6. HeldUp \in SUBSET (1 .. Cardinality(Roots))
  <2>1. ASSUME NEW i \in Roots PROVE Id(i) \in 1 .. Cardinality(Roots)
    <3>1. IdIn(q, i) \in 1 .. Cardinality(RootsOf(q))
      BY <1>1, <1>2, IdBounds
    <3>. QED  BY <1>2, <1>3, <3>1
  <2>. QED  BY <2>1 DEF HeldUp
<1>. QED  BY <1>2, <1>4, <1>5, <1>6 DEF View

LEMMA IsReadied == IInv => Readied
BY DEF IInv, Readied, Sane, Net0

(* The same of the net that a step leads to.                                *)
LEMMA ViewNext ==
    ASSUME IInv, IInv'
    PROVE  /\ View
           /\ Cardinality(Roots)' = Cardinality(RootsOf(net'.packets))
           /\ OnTheWay' = WayOf(net'.packets)
           /\ HeldUp' \in SUBSET (1 .. Cardinality(Roots)')
           /\ net \in Net0 /\ net' \in Net0
<1>2. View /\ Readied
  BY IsReadied, ViewIs
<1>3. IInv' => Readied'
  BY IsReadied, PTL
<1>4. Readied' => View'
  BY ViewIs, PTL
<1>5. View' /\ Readied'
  BY <1>3, <1>4
<1>. QED  BY <1>2, <1>5 DEF View, Readied

LEMMA TransferAtIs ==
    ASSUME NEW q \in Seq(Packet), NEW i \in RootsOf(q)
    PROVE  /\ q[i] \in Packet
           /\ TransferAt(q, i).id = IdIn(q, i) /\ TransferAt(q, i).amt = q[i].amt
           /\ TransferAt(q, i).sender = q[i].from /\ TransferAt(q, i).receiver = q[i].dest
<1>1. q[i] \in Packet
  BY Domain DEF RootsOf
<1>. QED  BY <1>1 DEF TransferAt

LEMMA StartedSends ==
    ASSUME IInv, IInv', Cardinality(Roots) < MaxTransfers, NEW p, Started(net, net', p)
    PROVE  Promise!Next /\ Decided(net'.packets)
<1>. DEFINE q == net.packets
            r == Append(q, p)
            x == Len(q) + 1
            n == Cardinality(RootsOf(q))
            y == TransferAt(r, x)
            b == [c \in Chain |-> net.bal[c]]
            d == [c \in Chain |-> net'.bal[c]]
<1>1. /\ q \in Seq(Packet) /\ Linked(q) /\ net'.packets = r /\ p \in Packet /\ p.parent = 0
      /\ p.phase = "sent" /\ Decided(net'.packets) /\ net.bal[p.from] >= p.amt
      /\ \A c \in Chain : net'.bal[c] = net.bal[c] - IF c = p.from THEN p.amt ELSE 0
  BY DEF IInv, Sane, Net0, Started
<1>2. /\ Cardinality(RootsOf(r)) = n + 1
      /\ y = [id |-> n + 1, sender |-> p.from, receiver |-> p.dest, amt |-> p.amt]
      /\ WayOf(r) = WayOf(q) \cup {y}
  <2>1. Joined(q, r, p, y)
    BY <1>1, RootWay
  <2>. HIDE DEF y
  <2>. QED  BY <2>1 DEF Joined
<1>3. /\ View /\ Cardinality(Roots)' = Cardinality(RootsOf(r)) /\ OnTheWay' = WayOf(r)
      /\ HeldUp' \in SUBSET (1 .. Cardinality(Roots)')
  BY <1>1, ViewNext
<1>4. Cardinality(Roots) = n /\ n \in Nat /\ OnTheWay = WayOf(q)
  BY <1>3 DEF View
<1>5. p.from \in Chain /\ p.dest \in Chain /\ p.amt \in Amount
  BY <1>1 DEF Packet
<1>. HIDE DEF n, r
<1>6. n + 1 \in 1 .. MaxTransfers
  BY <1>4, AmountAssumption
<1>7. y \in Promise!Transfer
  BY <1>2, <1>5, <1>6 DEF Promise!Transfer
<1>8. y.id = n + 1 /\ y.sender = p.from /\ y.amt = p.amt
  BY <1>2
<1>. HIDE DEF y
<1>9. d = [b EXCEPT ![p.from] = @ - p.amt]
  <2>1. \A c \in Chain : net.bal[c] \in Int /\ net.bal[c] - 0 = net.bal[c]
    <3>1. net.bal \in [Account -> Int]
      BY ViewNext DEF Net0
    <3>. QED  BY <3>1, Users
  <2>2. ASSUME NEW c \in Chain
        PROVE  net'.bal[c] = IF c = p.from THEN net.bal[c] - p.amt ELSE net.bal[c]
    BY <1>1, <2>1
  <2>. QED  BY <1>5, <2>2
<1>10. b[y.sender] >= y.amt
  BY <1>1, <1>5, <1>8
<1>11. Promise!Send(y)
  BY <1>1, <1>2, <1>3, <1>4, <1>7, <1>8, <1>9, <1>10 DEF Promise!Send
<1>12. y \in OnTheWay'
  BY <1>2, <1>3
<1>. QED  BY <1>1, <1>3, <1>11, <1>12 DEF Promise!Next, Promise!Send

LEMMA StillPromised ==
    ASSUME IInv, IInv', Still(net, net')
    PROVE  Promise!Next /\ Decided(net'.packets)
<1>1. /\ net.packets \in Seq(Packet) /\ Quiet(net.packets, net'.packets) /\ Decided(net'.packets)
      /\ \A c \in Chain : net'.bal[c] = net.bal[c]
  BY DEF IInv, Sane, Net0, Still
<1>2. RootsOf(net'.packets) = RootsOf(net.packets) /\ WayOf(net'.packets) = WayOf(net.packets)
  BY <1>1, QuietWay
<1>3. /\ View /\ Cardinality(Roots)' = Cardinality(RootsOf(net'.packets))
      /\ OnTheWay' = WayOf(net'.packets) /\ HeldUp' \in SUBSET (1 .. Cardinality(Roots)')
  BY ViewNext
<1>4. Cardinality(Roots)' = Cardinality(Roots) /\ OnTheWay' = OnTheWay
  BY <1>2, <1>3 DEF View
<1>5. [c \in Chain |-> net'.bal[c]] = [c \in Chain |-> net.bal[c]]
  BY <1>1
<1>. QED  BY <1>1, <1>3, <1>4, <1>5 DEF Promise!Next

LEMMA SettledPromised ==
    ASSUME IInv, IInv', NEW k \in Open(net.packets), NEW user, Settled(net, net', k, user),
           user \in {net.packets[k].dest, net.packets[k].from}
    PROVE  Promise!Next /\ Decided(net'.packets)
<1>. DEFINE q == net.packets
            y == TransferAt(q, k)
            b == [c \in Chain |-> net.bal[c]]
            d == [c \in Chain |-> net'.bal[c]]
<1>1. /\ q \in Seq(Packet) /\ Closes(q, net'.packets, k) /\ Decided(net'.packets)
      /\ user \in Chain /\ k \in RootsOf(q)
      /\ \A c \in Chain : net'.bal[c] = net.bal[c] + IF c = user THEN q[k].amt ELSE 0
  BY DEF IInv, Sane, Net0, Settled, Earned, Open
<1>2. /\ RootsOf(net'.packets) = RootsOf(q)
      /\ y \in WayOf(q) /\ WayOf(net'.packets) = WayOf(q) \ {y}
  BY <1>1, CloseWay
<1>3. /\ View /\ Cardinality(Roots)' = Cardinality(RootsOf(net'.packets))
      /\ OnTheWay' = WayOf(net'.packets) /\ HeldUp' \in SUBSET (1 .. Cardinality(Roots)')
  BY ViewNext
<1>4. y \in OnTheWay /\ OnTheWay' = OnTheWay \ {y} /\ Cardinality(Roots)' = Cardinality(Roots)
  BY <1>2, <1>3 DEF View
<1>5. y.amt = q[k].amt /\ y.receiver = q[k].dest /\ y.sender = q[k].from
  BY <1>1, TransferAtIs
<1>. HIDE DEF y
<1>6. d = [b EXCEPT ![user] = @ + y.amt]
  <2>1. \A c \in Chain : net.bal[c] \in Int /\ net.bal[c] + 0 = net.bal[c]
    <3>1. net.bal \in [Account -> Int]
      BY ViewNext DEF Net0
    <3>. QED  BY <3>1, Users
  <2>2. ASSUME NEW c \in Chain
        PROVE  net'.bal[c] = IF c = user THEN net.bal[c] + y.amt ELSE net.bal[c]
    <3>1. net'.bal[c] = net.bal[c] + IF c = user THEN y.amt ELSE 0
      BY <1>1, <1>5
    <3>. QED  BY <2>1, <3>1
  <2>. QED  BY <1>1, <2>2
<1>7. user = y.receiver \/ user = y.sender
  BY <1>5
<1>. QED  BY <1>1, <1>3, <1>4, <1>6, <1>7 DEF Promise!Next, Promise!Settle

LEMMA PromiseInit == Init => Promise!Init /\ Decided(net.packets)
<1>. SUFFICES ASSUME Init PROVE Promise!Init /\ Decided(net.packets)
  OBVIOUS
<1>1. /\ net.packets = <<>> /\ DOMAIN net.packets = {}
      /\ net.bal = [a \in Account |-> IF a = "forwarder" THEN 0 ELSE Funds]
  BY DEF Init
<1>2. Roots = {} /\ OnTheWay = {} /\ HeldUp = {}
  BY <1>1 DEF Roots, OnTheWay, HeldUp
<1>3. Cardinality(Roots) = 0
  BY <1>2, FS_EmptySet
<1>4. [c \in Chain |-> net.bal[c]] \in [Chain -> Nat]
  BY <1>1, Users, Constants
<1>5. Decided(net.packets)
  BY <1>1 DEF Decided
<1>. QED  BY <1>2, <1>3, <1>4, <1>5 DEF Promise!Init

LEMMA PromiseNext ==
    ASSUME IInv, IInv', Decided(net.packets), [Next]_vars
    PROVE  [Promise!Next]_(Promise!vars) /\ Decided(net.packets)'
<1>1. CASE Next
  <2>1. Promise!Next /\ Decided(net'.packets)
    BY <1>1, NextUsers, StartedSends, StillPromised, SettledPromised
  <2>. QED  BY <2>1
<1>2. CASE UNCHANGED vars
  <2>1. net' = net
    BY <1>2 DEF vars
  <2>2. Roots' = Roots /\ OnTheWay' = OnTheWay /\ HeldUp' = HeldUp /\ Decided(net.packets)'
    BY <1>2 DEF vars, Roots, OnTheWay, HeldUp, Paid, Id, Stuck, Readable
  <2>. QED  BY <2>1, <2>2 DEF Promise!vars
<1>. QED  BY <1>1, <1>2

(* Coins that a user sends are on the way until the receiver has them or    *)
(* the sender has them back, and are given to one of them once: the safety  *)
(* of TransferPromise, whatever is relayed, fails, times out or is retried, *)
(* in whatever order.                                                       *)
THEOREM NeverPaidTwice == Spec => Promise!Init /\ [][Promise!Next]_(Promise!vars)
<1>1. Init => Promise!Init /\ Decided(net.packets)
  BY PromiseInit
<1>2. IInv /\ IInv' /\ Decided(net.packets) /\ [Next]_vars
      => [Promise!Next]_(Promise!vars) /\ Decided(net.packets)'
  BY PromiseNext
<1>. QED  BY Invariant, <1>1, <1>2, PTL DEF Spec
=============================================================================
