-------------------------- MODULE AnteChain_proofs --------------------------
(***************************************************************************)
(* Proofs about AnteChain, for any accounts, transactions, funds and        *)
(* bounds: what was executed, what it has paid, and what the mempool holds. *)
(***************************************************************************)
EXTENDS AnteChain, SequenceTheorems, SumTheorems

Mode == {"check", "recheck", "finalize"}
Run == [ok : BOOLEAN, tx : Tx, mode : Mode, s : State, counter : Nat]

(* What no decorator touches.                                               *)
Kept(s, t) == t.height = s.height /\ t.tripped = s.tripped /\ t.spent = s.spent

(* What they may touch.                                                     *)
Became(s, t, b, q, f, c, r) ==
    /\ t \in State /\ Kept(s, t)
    /\ t.bal = b /\ t.seq = q /\ t.fees = f /\ t.counter = c /\ t.received = r
Same(s, t) == Became(s, t, s.bal, s.seq, s.fees, s.counter, s.received)

(* The number of the next transaction.                                      *)
CountNow(s) == IF s.counter.height = s.height THEN s.counter.next ELSE 0

LEMMA TxType ==
    ASSUME NEW tx \in Tx
    PROVE  /\ tx.signer \in Acct /\ tx.seq \in Nat /\ tx.fee \in Nat /\ tx.timeout \in Nat
           /\ tx.msg \in Msg /\ tx.signed \in BOOLEAN
BY TxAssumption

LEMMA StateType ==
    ASSUME NEW s \in State
    PROVE  /\ s.height \in Nat /\ s.bal \in [Acct -> Nat] /\ s.seq \in [Acct -> Nat]
           /\ s.fees \in Nat /\ s.spent \in Nat /\ s.tripped \in BOOLEAN
           /\ s.received \in BOOLEAN /\ s.counter \in [height : Nat, next : Nat]
           /\ CountNow(s) \in Nat /\ Same(s, s)
BY DEF State, CountNow, Same, Became, Kept

-----------------------------------------------------------------------------
(* One lemma per decorator: it maps runs to runs, what it changes and what  *)
(* it requires.                                                             *)

(* The run goes on, with the same transaction in the same mode.             *)
Continues(a, b) == b \in Run /\ b.tx = a.tx /\ b.mode = a.mode

LEMMA RequireType ==
    ASSUME NEW a \in Run, NEW c \in BOOLEAN
    PROVE  /\ Continues(a, Require(a, c)) /\ Require(a, c).s = a.s
           /\ Require(a, c).counter = a.counter
           /\ Require(a, c).ok = (a.ok /\ c)
BY DEF Require, Run, Continues

LEMMA RunState ==
    ASSUME NEW a \in Run, NEW t \in State
    PROVE  LET b == [a EXCEPT !.s = t]
           IN  Continues(a, b) /\ b.s = t /\ b.ok = a.ok /\ b.counter = a.counter
BY DEF Run, Continues

LEMMA CountTXType ==
    ASSUME NEW a \in Run
    PROVE  /\ Continues(a, CountTX(a)) /\ CountTX(a).ok = a.ok
           /\ CountTX(a).counter = CountNow(a.s)
           /\ Became(a.s, CountTX(a).s, a.s.bal, a.s.seq, a.s.fees,
                     [height |-> a.s.height, next |-> CountNow(a.s) + 1], a.s.received)
<1>. DEFINE n == IF a.s.counter.height = a.s.height THEN a.s.counter.next ELSE 0
            c == [height |-> a.s.height, next |-> n + 1]
            t == [a.s EXCEPT !.counter = c]
<1>1. n \in Nat /\ a.s \in State /\ n = CountNow(a.s)
  BY StateType DEF Run, CountNow
<1>2. CountTX(a) = [a EXCEPT !.counter = n, !.s = t]
  BY DEF CountTX
<1>3. c \in [height : Nat, next : Nat] /\ c = [height |-> a.s.height, next |-> CountNow(a.s) + 1]
  BY <1>1, StateType
<1>. HIDE DEF n, c
<1>4. Became(a.s, t, a.s.bal, a.s.seq, a.s.fees, c, a.s.received)
  BY <1>1, <1>3 DEF State, Kept, Became
<1>5. t \in State
  BY <1>4 DEF Became
<1>. HIDE DEF t
<1>6. /\ [a EXCEPT !.counter = n, !.s = t] \in Run /\ [a EXCEPT !.counter = n, !.s = t].s = t
      /\ Continues(a, [a EXCEPT !.counter = n, !.s = t])
      /\ [a EXCEPT !.counter = n, !.s = t].ok = a.ok
      /\ [a EXCEPT !.counter = n, !.s = t].counter = n
  BY <1>1, <1>5 DEF Run, Continues
<1>. QED  BY <1>1, <1>2, <1>3, <1>4, <1>6

LEMMA CircuitBreakerType ==
    ASSUME NEW a \in Run
    PROVE  /\ Continues(a, CircuitBreaker(a)) /\ CircuitBreaker(a).s = a.s
           /\ CircuitBreaker(a).counter = a.counter
           /\ CircuitBreaker(a).ok => a.ok
BY RequireType DEF CircuitBreaker

LEMMA TxTimeoutHeightType ==
    ASSUME NEW a \in Run
    PROVE  /\ Continues(a, TxTimeoutHeight(a)) /\ TxTimeoutHeight(a).s = a.s
           /\ TxTimeoutHeight(a).counter = a.counter
           /\ TxTimeoutHeight(a).ok => a.ok /\ (a.tx.timeout = 0 \/ a.s.height <= a.tx.timeout)
BY RequireType DEF TxTimeoutHeight

LEMMA ChargeType ==
    ASSUME NEW s \in State, NEW payer \in Acct, NEW fee \in Nat, s.bal[payer] >= fee
    PROVE  Became(s, Charge(s, payer, fee), [s.bal EXCEPT ![payer] = s.bal[payer] - fee],
                  s.seq, s.fees + fee, s.counter, s.received)
<1>. DEFINE b == [s.bal EXCEPT ![payer] = s.bal[payer] - fee]
            f == s.fees + fee
<1>1. b \in [Acct -> Nat] /\ f \in Nat
  BY StateType
<1>2. Charge(s, payer, fee) = [s EXCEPT !.bal = b, !.fees = f]
  BY DEF Charge
<1>. HIDE DEF b, f
<1>3. Became(s, [s EXCEPT !.bal = b, !.fees = f], b, s.seq, f, s.counter, s.received)
  BY <1>1 DEF State, Kept, Became
<1>. QED  BY <1>2, <1>3 DEF b, f

LEMMA DeductFeeType ==
    ASSUME NEW a \in Run
    PROVE  /\ Continues(a, DeductFee(a)) /\ DeductFee(a).counter = a.counter
           /\ DeductFee(a).ok => /\ a.ok /\ a.s.bal[a.tx.signer] >= a.tx.fee
                                 /\ DeductFee(a).s = Charge(a.s, a.tx.signer, a.tx.fee)
<1>. DEFINE t == Charge(a.s, a.tx.signer, a.tx.fee)
<1>1. a.s \in State /\ a.tx \in Tx
  BY DEF Run
<1>2. CASE DeductFee(a) = Require(a, FALSE)
  <2>. DEFINE r == Require(a, FALSE)
  <2>1. Continues(a, r) /\ r.counter = a.counter /\ ~r.ok
    BY RequireType
  <2>2. DeductFee(a) = r
    BY <1>2
  <2>. HIDE DEF r
  <2>. QED  BY <2>1, <2>2
<1>3. CASE DeductFee(a) = [a EXCEPT !.s = t] /\ a.s.bal[a.tx.signer] >= a.tx.fee
  <2>1. t \in State
    BY <1>1, <1>3, ChargeType, TxType DEF Became
  <2>. HIDE DEF t
  <2>. QED  BY <1>3, <2>1, RunState DEF t
<1>. QED  BY <1>2, <1>3 DEF DeductFee

LEMMA SigVerificationType ==
    ASSUME NEW a \in Run
    PROVE  /\ Continues(a, SigVerification(a)) /\ SigVerification(a).s = a.s
           /\ SigVerification(a).counter = a.counter
           /\ SigVerification(a).ok => /\ a.ok /\ a.tx.seq = a.s.seq[a.tx.signer]
                                       /\ a.mode # "recheck" => a.tx.signed
<1>. DEFINE c == /\ a.tx.seq = a.s.seq[a.tx.signer]
                 /\ a.mode # "recheck" => a.tx.signed
<1>1. c \in BOOLEAN
  BY TxType DEF Run
<1>2. SigVerification(a) = Require(a, c)
  BY DEF SigVerification
<1>3. c => /\ a.tx.seq = a.s.seq[a.tx.signer]
           /\ a.mode # "recheck" => a.tx.signed
  OBVIOUS
<1>. HIDE DEF c
<1>4. /\ Continues(a, SigVerification(a)) /\ SigVerification(a).s = a.s
      /\ SigVerification(a).counter = a.counter
      /\ SigVerification(a).ok = (a.ok /\ c)
  BY <1>1, <1>2, RequireType
<1>5. SigVerification(a).ok => a.ok /\ c
  BY <1>4
<1>. QED  BY <1>3, <1>4, <1>5

LEMMA IncrementSequenceType ==
    ASSUME NEW a \in Run
    PROVE  /\ Continues(a, IncrementSequence(a)) /\ IncrementSequence(a).ok = a.ok
           /\ IncrementSequence(a).counter = a.counter
           /\ Became(a.s, IncrementSequence(a).s, a.s.bal,
                     [a.s.seq EXCEPT ![a.tx.signer] = a.s.seq[a.tx.signer] + 1],
                     a.s.fees, a.s.counter, a.s.received)
<1>. DEFINE q == [a.s.seq EXCEPT ![a.tx.signer] = a.s.seq[a.tx.signer] + 1]
            t == [a.s EXCEPT !.seq = q]
<1>1. a.s \in State /\ a.tx.signer \in Acct /\ q \in [Acct -> Nat]
  BY TxType, StateType DEF Run
<1>2. IncrementSequence(a) = [a EXCEPT !.s = t]
  BY <1>1 DEF IncrementSequence
<1>. HIDE DEF q
<1>3. Became(a.s, t, a.s.bal, q, a.s.fees, a.s.counter, a.s.received)
  BY <1>1 DEF State, Kept, Became
<1>4. t \in State
  BY <1>3 DEF Became
<1>. HIDE DEF t
<1>. QED  BY <1>2, <1>3, <1>4, RunState DEF q

LEMMA RedundantRelayType ==
    ASSUME NEW a \in Run
    PROVE  LET Relay == a.mode # "finalize" /\ a.tx.msg = "relay"
           IN  /\ Continues(a, RedundantRelay(a)) /\ RedundantRelay(a).counter = a.counter
               /\ RedundantRelay(a).ok => a.ok
               /\ RedundantRelay(a).ok /\ Relay => ~a.s.received
               /\ Became(a.s, RedundantRelay(a).s, a.s.bal, a.s.seq, a.s.fees, a.s.counter,
                         a.s.received \/ Relay)
<1>. DEFINE r == Require(a, ~a.s.received)
            t == [a.s EXCEPT !.received = TRUE]
<1>1. a.s \in State /\ a.s.received \in BOOLEAN
  BY StateType DEF Run
<1>2. Became(a.s, t, a.s.bal, a.s.seq, a.s.fees, a.s.counter, TRUE)
  BY <1>1 DEF State, Kept, Became
<1>3. Continues(a, r) /\ r.counter = a.counter /\ (r.ok => a.ok /\ ~a.s.received)
  BY <1>1, RequireType
<1>4. CASE a.mode # "finalize" /\ a.tx.msg = "relay"
  <2>1. RedundantRelay(a) = [r EXCEPT !.s = t]
    BY <1>4 DEF RedundantRelay
  <2>2. r \in Run /\ t \in State
    BY <1>2, <1>3 DEF Continues, Became
  <2>. HIDE DEF r, t
  <2>3. /\ Continues(r, RedundantRelay(a)) /\ RedundantRelay(a).s = t
        /\ RedundantRelay(a).ok = r.ok /\ RedundantRelay(a).counter = r.counter
    BY <2>1, <2>2, RunState
  <2>. QED  BY <1>1, <1>2, <1>3, <1>4, <2>3 DEF Continues
<1>5. CASE ~(a.mode # "finalize" /\ a.tx.msg = "relay")
  <2>1. RedundantRelay(a) = a
    BY <1>5 DEF RedundantRelay
  <2>2. Same(a.s, a.s)
    BY <1>1, StateType
  <2>. QED  BY <1>1, <1>5, <2>1, <2>2 DEF Continues, Same
<1>. QED  BY <1>4, <1>5

(* The whole chain: a transaction gets to its end only with the account's   *)
(* sequence, which is used up, and fee, which is paid.                      *)
Relays(tx, m) == m # "finalize" /\ tx.msg = "relay"
Passed(s, tx, m, t) ==
    Became(s, t, [s.bal EXCEPT ![tx.signer] = s.bal[tx.signer] - tx.fee],
           [s.seq EXCEPT ![tx.signer] = s.seq[tx.signer] + 1], s.fees + tx.fee,
           [height |-> s.height, next |-> CountNow(s) + 1], s.received \/ Relays(tx, m))

LEMMA AnteType ==
    ASSUME NEW s \in State, NEW tx \in Tx, NEW m \in Mode,
           NEW a, a = Ante(s, tx, m), a.ok
    PROVE  /\ Passed(s, tx, m, a.s) /\ a.counter = CountNow(s)
           /\ tx.seq = s.seq[tx.signer] /\ s.bal[tx.signer] >= tx.fee
           /\ tx.timeout = 0 \/ s.height <= tx.timeout
           /\ m # "recheck" => tx.signed
           /\ Relays(tx, m) => ~s.received
<1>. DEFINE r0 == [ok |-> TRUE, tx |-> tx, mode |-> m, s |-> s, counter |-> 0]
            r1 == CountTX(r0)
            r2 == CircuitBreaker(r1)
            r3 == TxTimeoutHeight(r2)
            r4 == DeductFee(r3)
            r5 == SigVerification(r4)
            r6 == IncrementSequence(r5)
            n  == [height |-> s.height, next |-> CountNow(s) + 1]
            b  == [s.bal EXCEPT ![tx.signer] = s.bal[tx.signer] - tx.fee]
            q  == [s.seq EXCEPT ![tx.signer] = s.seq[tx.signer] + 1]
            Here(r) == r \in Run /\ r.tx = tx /\ r.mode = m
<1>0. Here(r0) /\ r0.s = s
  BY DEF Run
<1>1. a = RedundantRelay(r6)
  BY DEF Ante, AnteHandler
<1>. HIDE DEF r0
<1>2. /\ Here(r1) /\ r1.counter = CountNow(s)
      /\ Became(s, r1.s, s.bal, s.seq, s.fees, n, s.received)
  BY <1>0, CountTXType DEF Continues
<1>. HIDE DEF r1
<1>3. Here(r2) /\ r2.counter = r1.counter /\ r2.s = r1.s
  BY <1>2, CircuitBreakerType DEF Continues
<1>. HIDE DEF r2
<1>4. /\ Here(r3) /\ r3.counter = r1.counter /\ r3.s = r1.s
      /\ r3.ok => tx.timeout = 0 \/ s.height <= tx.timeout
  <2>1. Continues(r2, r3) /\ r3.s = r2.s /\ r3.counter = r2.counter
    BY <1>3, TxTimeoutHeightType
  <2>2. r3.ok => r2.tx.timeout = 0 \/ r2.s.height <= r2.tx.timeout
    BY <1>3, TxTimeoutHeightType
  <2>. QED  BY <1>2, <1>3, <2>1, <2>2 DEF Continues, Became, Kept
<1>. HIDE DEF r3
<1>5. /\ Here(r4) /\ r4.counter = r1.counter
      /\ r4.ok => /\ r3.ok /\ s.bal[tx.signer] >= tx.fee
                  /\ Became(s, r4.s, b, s.seq, s.fees + tx.fee, n, s.received)
  <2>1. Continues(r3, r4) /\ r4.counter = r3.counter
    BY <1>4, DeductFeeType
  <2>2. r3.tx = tx /\ r3.s \in State /\ r3.s.bal = s.bal /\ tx.signer \in Acct /\ tx.fee \in Nat
    BY <1>2, <1>4, TxType DEF Became
  <2>3. ASSUME r4.ok
        PROVE  /\ r3.ok /\ s.bal[tx.signer] >= tx.fee
               /\ r4.s = Charge(r3.s, tx.signer, tx.fee)
    BY <1>4, <2>2, <2>3, DeductFeeType
  <2>4. ASSUME r4.ok PROVE Became(s, r4.s, b, s.seq, s.fees + tx.fee, n, s.received)
    <3>1. Became(r3.s, r4.s, [r3.s.bal EXCEPT ![tx.signer] = r3.s.bal[tx.signer] - tx.fee],
                 r3.s.seq, r3.s.fees + tx.fee, r3.s.counter, r3.s.received)
      BY <2>2, <2>3, <2>4, ChargeType
    <3>. QED  BY <1>2, <1>4, <3>1 DEF Became, Kept
  <2>. QED  BY <1>4, <2>1, <2>3, <2>4 DEF Continues
<1>. HIDE DEF r4, b, n
<1>6. /\ Here(r5) /\ r5.counter = r1.counter /\ r5.s = r4.s
      /\ r5.ok => r4.ok /\ tx.seq = s.seq[tx.signer] /\ (m # "recheck" => tx.signed)
  <2>1. Continues(r4, r5) /\ r5.s = r4.s /\ r5.counter = r4.counter
    BY <1>5, SigVerificationType
  <2>2. r5.ok => /\ r4.ok /\ r4.tx.seq = r4.s.seq[r4.tx.signer]
                 /\ r4.mode # "recheck" => r4.tx.signed
    BY <1>5, SigVerificationType
  <2>3. r4.ok => r4.s.seq = s.seq
    BY <1>5 DEF Became
  <2>. QED  BY <1>5, <2>1, <2>2, <2>3 DEF Continues
<1>. HIDE DEF r5
<1>7. /\ Here(r6) /\ r6.counter = r1.counter /\ (r6.ok => r5.ok)
      /\ r6.ok => Became(s, r6.s, b, q, s.fees + tx.fee, n, s.received)
  <2>1. /\ Continues(r5, r6) /\ r6.ok = r5.ok /\ r6.counter = r5.counter
        /\ Became(r5.s, r6.s, r5.s.bal, [r5.s.seq EXCEPT ![r5.tx.signer] = r5.s.seq[r5.tx.signer] + 1],
                  r5.s.fees, r5.s.counter, r5.s.received)
    BY <1>6, IncrementSequenceType
  <2>2. ASSUME r6.ok PROVE Became(s, r6.s, b, q, s.fees + tx.fee, n, s.received)
    BY <1>5, <1>6, <2>1, <2>2 DEF Became, Kept
  <2>. QED  BY <1>6, <2>1, <2>2 DEF Continues
<1>. HIDE DEF r6, q
<1>8. /\ r6.ok /\ a.counter = CountNow(s) /\ (Relays(tx, m) => ~r6.s.received)
      /\ Became(r6.s, a.s, r6.s.bal, r6.s.seq, r6.s.fees, r6.s.counter,
                r6.s.received \/ Relays(tx, m))
  BY <1>1, <1>2, <1>7, RedundantRelayType DEF Relays
<1>9. Became(s, a.s, b, q, s.fees + tx.fee, n, s.received \/ Relays(tx, m))
  BY <1>7, <1>8 DEF Became, Kept
<1>10. r6.s.received = s.received
  BY <1>7, <1>8 DEF Became
<1>. QED  BY <1>4, <1>5, <1>6, <1>7, <1>8, <1>9, <1>10 DEF Passed, b, q, n

(* A message leaves sequences, fees and counter alone, takes no more than   *)
(* it counts as spent, and nothing when the breaker is tripped.             *)
LEMMA RunMsgsType ==
    ASSUME NEW s \in State, NEW tx \in Tx
    PROVE  LET t == RunMsgs(s, tx)
           IN  /\ t \in State /\ t.height = s.height /\ t.seq = s.seq
               /\ t.fees = s.fees /\ t.counter = s.counter
               /\ s.tripped => t.spent = s.spent
               /\ \/ t.bal = s.bal /\ t.spent = s.spent
                  \/ /\ s.bal[tx.signer] >= 1 /\ t.spent = s.spent + 1
                     /\ t.bal = [s.bal EXCEPT ![tx.signer] = s.bal[tx.signer] - 1]
<1>. DEFINE b == [s.bal EXCEPT ![tx.signer] = s.bal[tx.signer] - 1]
            n == s.spent + 1
            t == s.tripped \/ (tx.msg = "trip" /\ tx.signer = Admin)
            r == s.received \/ tx.msg = "relay"
<1>1. s.bal \in [Acct -> Nat] /\ s.spent \in Nat /\ tx.signer \in Acct
  BY TxType, StateType
<1>2. t \in BOOLEAN /\ r \in BOOLEAN /\ n \in Nat /\ n = s.spent + 1
  BY <1>1
<1>3. CASE /\ ~s.tripped /\ s.bal[tx.signer] > 0
           /\ RunMsgs(s, tx) = [s EXCEPT !.bal = b, !.spent = n]
  <2>1. b \in [Acct -> Nat] /\ s.bal[tx.signer] >= 1
    BY <1>1, <1>3
  <2>. DEFINE u == [s EXCEPT !.bal = b, !.spent = n]
  <2>. HIDE DEF b, n
  <2>2. /\ u \in State /\ u.height = s.height /\ u.seq = s.seq /\ u.fees = s.fees
        /\ u.counter = s.counter /\ u.bal = b /\ u.spent = n
    BY <1>2, <2>1 DEF State
  <2>. HIDE DEF u
  <2>3. RunMsgs(s, tx) = u
    BY <1>3 DEF u
  <2>. QED  BY <1>2, <1>3, <2>1, <2>2, <2>3 DEF b
<1>4. CASE RunMsgs(s, tx) = [s EXCEPT !.tripped = t, !.received = r]
  <2>. DEFINE u == [s EXCEPT !.tripped = t, !.received = r]
  <2>. HIDE DEF t, r
  <2>1. /\ u \in State /\ u.height = s.height /\ u.seq = s.seq /\ u.fees = s.fees
        /\ u.counter = s.counter /\ u.bal = s.bal /\ u.spent = s.spent
    BY <1>2 DEF State
  <2>. HIDE DEF u
  <2>2. RunMsgs(s, tx) = u
    BY <1>4 DEF u
  <2>. QED  BY <2>1, <2>2
<1>. QED  BY <1>3, <1>4 DEF RunMsgs, Routed

-----------------------------------------------------------------------------
(* Sums and numbers over sequences of transactions that grow by one.        *)

(* q1 is q, of length n, with e at its end.                                 *)
Longer(T, q, q1, n, e) ==
    /\ n \in Nat /\ e \in T
    /\ q \in [1 .. n -> T] /\ q1 \in [1 .. n + 1 -> T]
    /\ \A i \in 1 .. n : q1[i] = q[i]
    /\ q1[n + 1] = e

LEMMA Appended ==
    ASSUME NEW T, NEW q \in Seq(T), NEW e \in T
    PROVE  Longer(T, q, Append(q, e), Len(q), e)
<1>. DEFINE p == Append(q, e)
<1>1. /\ p \in Seq(T) /\ Len(p) = Len(q) + 1 /\ p[Len(q) + 1] = e
      /\ \A i \in 1 .. Len(q) : p[i] = q[i]
  BY AppendProperties
<1>. HIDE DEF p
<1>2. Len(q) \in Nat /\ q \in [1 .. Len(q) -> T] /\ p \in [1 .. Len(p) -> T]
  BY <1>1, LenProperties
<1>. QED  BY <1>1, <1>2 DEF Longer, p

LEMMA Positions ==
    ASSUME NEW n \in Nat, NEW q \in [1 .. n -> Tx], NEW a
    PROVE  /\ By(a, q) \in SUBSET (1 .. n) /\ IsFiniteSet(By(a, q))
           /\ Cardinality(By(a, q)) \in Nat
<1>1. By(a, q) \in SUBSET (1 .. n) /\ IsFiniteSet(1 .. n)
  BY FS_Interval DEF By
<1>. QED  BY <1>1, FS_Subset, FS_CardinalityType

LEMMA ByLonger ==
    ASSUME NEW q, NEW q1, NEW n, NEW tx, Longer(Tx, q, q1, n, tx), NEW a
    PROVE  By(a, q1) = IF tx.signer = a THEN By(a, q) \cup {n + 1} ELSE By(a, q)
<1>1. DOMAIN q = 1 .. n /\ DOMAIN q1 = 1 .. n + 1 /\ n \in Nat
  BY DEF Longer
<1>2. \A i : i \in 1 .. n + 1 <=> i \in 1 .. n \/ i = n + 1
  BY <1>1
<1>3. \A i \in 1 .. n : q1[i] = q[i]
  BY DEF Longer
<1>4. q1[n + 1] = tx
  BY DEF Longer
<1>5. \A i : i \in By(a, q1) <=> (i \in By(a, q) \/ (i = n + 1 /\ tx.signer = a))
  BY <1>1, <1>2, <1>3, <1>4 DEF By
<1>. QED  BY <1>5

LEMMA CountLonger ==
    ASSUME NEW q, NEW q1, NEW n, NEW tx, Longer(Tx, q, q1, n, tx), NEW a
    PROVE  Cardinality(By(a, q1)) = Cardinality(By(a, q)) + IF tx.signer = a THEN 1 ELSE 0
<1>1. IsFiniteSet(By(a, q)) /\ Cardinality(By(a, q)) \in Nat /\ n + 1 \notin By(a, q)
  <2>1. n \in Nat /\ q \in [1 .. n -> Tx]
    BY DEF Longer
  <2>. QED  BY <2>1, Positions
<1>2. Cardinality(By(a, q) \cup {n + 1}) = Cardinality(By(a, q)) + 1
  BY <1>1, FS_AddElement
<1>. QED  BY <1>1, <1>2, ByLonger

LEMMA FeesType ==
    ASSUME NEW n \in Nat, NEW q \in [1 .. n -> Tx], NEW S \in SUBSET (1 .. n)
    PROVE  FeesOf(q, S) \in Nat /\ IsFiniteSet(S)
<1>0. IsFiniteSet(1 .. n)
  BY FS_Interval
<1>1. IsFiniteSet(S)
  BY <1>0, FS_Subset
<1>. DEFINE f == [i \in DOMAIN q |-> q[i].fee]
<1>2. \A i \in S : f[i] \in Nat
  BY TxType
<1>. HIDE DEF f
<1>3. SumFunctionOnSet(f, S) \in Nat
  BY <1>1, <1>2, SumNat
<1>. QED  BY <1>1, <1>3 DEF FeesOf, f

LEMMA FeesLonger ==
    ASSUME NEW q, NEW q1, NEW n, NEW tx, Longer(Tx, q, q1, n, tx), NEW S \in SUBSET (1 .. n)
    PROVE  /\ FeesOf(q1, S) = FeesOf(q, S)
           /\ FeesOf(q1, S \cup {n + 1}) = FeesOf(q, S) + tx.fee
<1>. DEFINE f == [i \in DOMAIN q |-> q[i].fee]
            g == [i \in DOMAIN q1 |-> q1[i].fee]
<1>1. /\ n \in Nat /\ DOMAIN q = 1 .. n /\ DOMAIN q1 = 1 .. n + 1
      /\ \A i \in 1 .. n : q1[i] = q[i]
      /\ q1[n + 1] = tx /\ tx.fee \in Nat
      /\ q \in [1 .. n -> Tx] /\ q1 \in [1 .. n + 1 -> Tx]
  BY TxType DEF Longer
<1>2. \A i \in S : g[i] = f[i] /\ g[i] \in Int
  BY <1>1, TxType
<1>3. g[n + 1] = tx.fee /\ g[n + 1] \in Int /\ n + 1 \notin S
  BY <1>1
<1>4. IsFiniteSet(S)
  BY <1>1, FeesType
<1>. HIDE DEF f, g
<1>5. SumFunctionOnSet(g, S) = SumFunctionOnSet(f, S)
  BY <1>2, <1>4, SumSame
<1>6. SumFunctionOnSet(g, S \cup {n + 1}) = SumFunctionOnSet(g, S) + g[n + 1]
  BY <1>2, <1>3, <1>4, SumAdd
<1>. QED  BY <1>3, <1>5, <1>6 DEF FeesOf, f, g

(* Who pays has less.                                                       *)
LEMMA PaidFrom ==
    ASSUME NEW b \in [Acct -> Nat], NEW x \in Acct, NEW n \in Nat, b[x] >= n
    PROVE  /\ SumFunctionOnSet([b EXCEPT ![x] = b[x] - n], Acct) = SumFunctionOnSet(b, Acct) - n
           /\ SumFunctionOnSet(b, Acct) \in Nat
<1>. DEFINE c == [b EXCEPT ![x] = b[x] - n]
<1>1. IsFiniteSet(Acct)
  BY BoundAssumption
<1>2. c[x] = b[x] - n /\ (\A y \in Acct \ {x} : c[y] = b[y]) /\ c[x] \in Int /\ b[x] \in Nat
  OBVIOUS
<1>. HIDE DEF c
<1>3. ChangesAt(x, b, c, Acct)
  BY <1>1, <1>2 DEF ChangesAt
<1>4. SumFunctionOnSet(c, Acct) = SumFunctionOnSet(b, Acct) - b[x] + c[x]
  BY <1>3, SumChange
<1>5. SumFunctionOnSet(b, Acct) \in Nat
  BY <1>1, SumNat
<1>. QED  BY <1>2, <1>4, <1>5 DEF c

(* A sum of equals.                                                         *)
LEMMA SumOfFunds ==
    SumFunctionOnSet([a \in Acct |-> Funds], Acct) = Cardinality(Acct) * Funds
<1>. DEFINE f == [a \in Acct |-> Funds]
            Good == {s \in SUBSET Acct : SumFunctionOnSet(f, s) = Cardinality(s) * Funds}
<1>0. IsFiniteSet(Acct) /\ Funds \in Nat
  BY BoundAssumption
<1>1. ASSUME NEW s \in SUBSET Acct, \A r \in SUBSET s : r # s => r \in Good
      PROVE  s \in Good
  <2>1. CASE s = {}
    <3>1. SumFunctionOnSet(f, {}) = 0 /\ Cardinality({}) * Funds = 0
      BY <1>0, SumEmpty, FS_EmptySet
    <3>. QED  BY <2>1, <3>1
  <2>2. CASE s # {}
    <3>1. PICK x \in s : TRUE
      BY <2>2
    <3>. DEFINE r == s \ {x}
    <3>2. r \in SUBSET s /\ r # s /\ r \in SUBSET Acct /\ s = r \cup {x} /\ x \notin r
      BY <3>1
    <3>3. IsFiniteSet(r) /\ Cardinality(r) \in Nat
      BY <1>0, <3>2, FS_Subset, FS_CardinalityType
    <3>4. SumFunctionOnSet(f, r) = Cardinality(r) * Funds
      BY <1>1, <3>2
    <3>5. f[x] = Funds /\ \A y \in r : f[y] \in Int
      BY <1>0, <3>1, <3>2
    <3>. HIDE DEF f, r
    <3>6. SumFunctionOnSet(f, s) = SumFunctionOnSet(f, r) + Funds
      BY <1>0, <3>2, <3>3, <3>5, SumAdd
    <3>7. Cardinality(s) = Cardinality(r) + 1
      BY <3>2, <3>3, FS_AddElement
    <3>8. (Cardinality(r) + 1) * Funds = Cardinality(r) * Funds + Funds
      BY <1>0, <3>3
    <3>. QED  BY <3>4, <3>6, <3>7, <3>8
  <2>. QED  BY <2>1, <2>2
<1>. HIDE DEF Good
<1>2. Acct \in Good
  BY <1>0, <1>1, SubsetInduction
<1>. QED  BY <1>2 DEF Good

-----------------------------------------------------------------------------
(* The inductive invariant.  Outside of a block its state and the committed *)
(* one agree, so the next block goes on from there.  What has been executed *)
(* is in the accounts of the block's state, and has its number and a        *)
(* sequence below that of its account.  The check state is ahead of the     *)
(* committed one by what is in the mempool.                                 *)

Entry == [tx : Tx, height : Nat, counter : Nat]
InBlock(q, h) == {i \in DOMAIN q : q[i].height = h}
RelaysIn(q) == {i \in DOMAIN q : q[i].msg = "relay"}

Pending == pc = "recheck" => todo # <<>>
Resumable == IF pc = "block" THEN final.height = committed.height + 1 ELSE final = committed

UsedUp == \A i \in DOMAIN log : log[i].tx.seq < final.seq[log[i].tx.signer]
Numbered ==
    /\ final.counter.height <= final.height
    /\ \A i \in DOMAIN log : log[i].height <= final.height
    /\ CountNow(final) = Cardinality(InBlock(log, final.height))
Accounted ==
    /\ final.fees = FeesOf(Logged, DOMAIN log)
    /\ \A a \in Acct : final.seq[a] = Cardinality(By(a, Logged))
    /\ SumFunctionOnSet(final.bal, Acct) + final.fees + final.spent = Cardinality(Acct) * Funds
History == UsedUp /\ NotTwice /\ Numbered /\ CountersInOrder /\ Accounted

(* A check state k with mempool q, above the committed state c.             *)
AheadOf(c, k, q) ==
    \A a \in Acct :
        /\ k.seq[a] = c.seq[a] + Cardinality(By(a, q))
        /\ k.bal[a] + FeesOf(q, By(a, q)) = c.bal[a]
        /\ \A i \in By(a, q) :
               q[i].seq = c.seq[a] + Cardinality({j \in By(a, q) : j < i})
TimelyFor(c, k, q) ==
    /\ k.height = c.height
    /\ \A tx \in Range(q) : tx.timeout # 0 => tx.timeout >= c.height
RelayedBy(c, k, q) ==
    /\ k.received <=> c.received \/ RelaysIn(q) # {}
    /\ Cardinality(RelaysIn(q)) <= IF c.received THEN 0 ELSE 1
PoolOf(c, k, q) == AheadOf(c, k, q) /\ TimelyFor(c, k, q) /\ RelayedBy(c, k, q)

Ahead == AheadOf(committed, check, mempool)
Timely == TimelyFor(committed, check, mempool)
Relayed == RelayedBy(committed, check, mempool)
Pool == Ahead /\ Timely /\ Relayed

IInv == TypeOK /\ Pending /\ Resumable /\ History /\ Pool

-----------------------------------------------------------------------------
(* The history. *)

(* What one executed transaction does to the state of the block.            *)
Executed(s, tx, t) ==
    /\ t \in State /\ t.height = s.height
    /\ t.counter = [height |-> s.height, next |-> CountNow(s) + 1]
    /\ t.seq = [s.seq EXCEPT ![tx.signer] = s.seq[tx.signer] + 1]
    /\ t.fees = s.fees + tx.fee
    /\ SumFunctionOnSet(t.bal, Acct) + t.spent
           = SumFunctionOnSet(s.bal, Acct) - tx.fee + s.spent
    /\ s.tripped => t.spent = s.spent
    /\ tx.signed /\ tx.seq = s.seq[tx.signer]

LEMMA ExecutedType ==
    ASSUME NEW s \in State, NEW tx \in Tx, NEW a, a = Ante(s, tx, "finalize"), a.ok
    PROVE  Executed(s, tx, RunMsgs(a.s, tx)) /\ a.counter = CountNow(s)
<1>. DEFINE u == a.s
            t == RunMsgs(u, tx)
            b == [s.bal EXCEPT ![tx.signer] = s.bal[tx.signer] - tx.fee]
<1>1. "finalize" \in Mode /\ "finalize" # "recheck"
  BY DEF Mode
<1>2. /\ Passed(s, tx, "finalize", u) /\ a.counter = CountNow(s)
      /\ tx.seq = s.seq[tx.signer] /\ s.bal[tx.signer] >= tx.fee /\ tx.signed
  BY <1>1, AnteType
<1>. HIDE DEF u
<1>3. /\ u \in State /\ u.bal = b /\ u.fees = s.fees + tx.fee /\ u.height = s.height
      /\ u.spent = s.spent /\ u.tripped = s.tripped
      /\ u.seq = [s.seq EXCEPT ![tx.signer] = s.seq[tx.signer] + 1]
      /\ u.counter = [height |-> s.height, next |-> CountNow(s) + 1]
  BY <1>2 DEF Passed, Became, Kept
<1>4. /\ tx.signer \in Acct /\ tx.fee \in Nat /\ s.bal \in [Acct -> Nat] /\ s.spent \in Nat
      /\ u.bal \in [Acct -> Nat]
  BY <1>3, TxType, StateType
<1>5. /\ SumFunctionOnSet(u.bal, Acct) = SumFunctionOnSet(s.bal, Acct) - tx.fee
      /\ SumFunctionOnSet(s.bal, Acct) \in Nat
  BY <1>2, <1>3, <1>4, PaidFrom
<1>. HIDE DEF b
<1>6. /\ t \in State /\ t.height = u.height /\ t.seq = u.seq
      /\ t.fees = u.fees /\ t.counter = u.counter
      /\ u.tripped => t.spent = u.spent
  BY <1>3, RunMsgsType
<1>7. \/ t.bal = u.bal /\ t.spent = u.spent
      \/ /\ u.bal[tx.signer] >= 1 /\ t.spent = u.spent + 1
         /\ t.bal = [u.bal EXCEPT ![tx.signer] = u.bal[tx.signer] - 1]
  BY <1>3, RunMsgsType
<1>. HIDE DEF t
<1>8. SumFunctionOnSet(t.bal, Acct) + t.spent = SumFunctionOnSet(s.bal, Acct) - tx.fee + s.spent
  <2>1. CASE t.bal = u.bal /\ t.spent = u.spent
    BY <1>3, <1>4, <1>5, <2>1
  <2>2. CASE /\ u.bal[tx.signer] >= 1 /\ t.spent = u.spent + 1
             /\ t.bal = [u.bal EXCEPT ![tx.signer] = u.bal[tx.signer] - 1]
    <3>1. SumFunctionOnSet(t.bal, Acct) = SumFunctionOnSet(u.bal, Acct) - 1
      BY <1>4, <2>2, PaidFrom
    <3>. QED  BY <1>3, <1>4, <1>5, <2>2, <3>1
  <2>. QED  BY <1>7, <2>1, <2>2
<1>. QED  BY <1>2, <1>3, <1>6, <1>8 DEF Executed, t, u

(* The step of the history: tx was executed and is its last entry.          *)
Logs(n, tx, e) ==
    /\ final \in State /\ Executed(final, tx, final')
    /\ Longer(Entry, log, log', n, e)
    /\ e.tx = tx /\ e.height = final.height /\ e.counter = CountNow(final)

LEMMA LogsType ==
    ASSUME NEW n, NEW tx, NEW e, Logs(n, tx, e)
    PROVE  /\ n \in Nat /\ DOMAIN log = 1 .. n /\ DOMAIN log' = 1 .. n + 1
           /\ log \in [1 .. n -> Entry] /\ log' \in [1 .. n + 1 -> Entry]
           /\ \A i \in 1 .. n : log'[i] = log[i] /\ log[i].tx \in Tx
                                /\ log[i].height \in Nat
           /\ log'[n + 1] = e
           /\ final.seq \in [Acct -> Nat] /\ final.height \in Nat /\ CountNow(final) \in Nat
<1>1. /\ n \in Nat /\ DOMAIN log = 1 .. n /\ DOMAIN log' = 1 .. n + 1
      /\ log \in [1 .. n -> Entry] /\ log' \in [1 .. n + 1 -> Entry]
      /\ \A i \in 1 .. n : log'[i] = log[i]
      /\ log'[n + 1] = e
  BY DEF Logs, Longer
<1>2. \A i \in 1 .. n : log[i].tx \in Tx /\ log[i].height \in Nat
  BY <1>1 DEF Entry
<1>3. final.seq \in [Acct -> Nat] /\ final.height \in Nat /\ CountNow(final) \in Nat
  BY StateType DEF Logs
<1>. QED  BY <1>1, <1>2, <1>3

LEMMA LoggedLonger ==
    ASSUME NEW n, NEW tx \in Tx, NEW e, Logs(n, tx, e)
    PROVE  Longer(Tx, Logged, Logged', n, tx)
<1>1. /\ n \in Nat /\ DOMAIN log = 1 .. n /\ DOMAIN log' = 1 .. n + 1
      /\ \A i \in 1 .. n : log'[i] = log[i] /\ log[i].tx \in Tx
      /\ log'[n + 1] = e /\ e.tx = tx
  BY LogsType DEF Logs
<1>. DEFINE q == [i \in 1 .. n |-> log[i].tx]
            p == [i \in 1 .. n + 1 |-> log'[i].tx]
<1>2. \A i \in 1 .. n + 1 : i = n + 1 \/ i \in 1 .. n
  BY <1>1
<1>3. q \in [1 .. n -> Tx] /\ p \in [1 .. n + 1 -> Tx]
  BY <1>1, <1>2
<1>4. (\A i \in 1 .. n : p[i] = q[i]) /\ p[n + 1] = tx
  BY <1>1
<1>5. Logged = q /\ Logged' = p
  BY <1>1 DEF Logged
<1>. HIDE DEF p, q
<1>. QED  BY <1>1, <1>3, <1>4, <1>5 DEF Longer

(* Its sequence was the account's, hence above those of all before it, and  *)
(* is below the account's afterwards.                                       *)
LEMMA SequencesStep ==
    ASSUME UsedUp, NotTwice, NEW n, NEW tx \in Tx, NEW e, Logs(n, tx, e)
    PROVE  UsedUp' /\ NotTwice'
<1>1. /\ n \in Nat /\ DOMAIN log = 1 .. n /\ DOMAIN log' = 1 .. n + 1
      /\ \A i \in 1 .. n : log'[i] = log[i] /\ log[i].tx \in Tx
      /\ log'[n + 1] = e /\ e.tx = tx
      /\ final.seq \in [Acct -> Nat]
  BY LogsType DEF Logs
<1>2. /\ tx.signed /\ tx.seq = final.seq[tx.signer] /\ tx.signer \in Acct
      /\ final'.seq = [final.seq EXCEPT ![tx.signer] = final.seq[tx.signer] + 1]
  BY TxType DEF Logs, Executed
<1>3. \A i \in 1 .. n : /\ log[i].tx.signed /\ log[i].tx.seq \in Nat
                        /\ log[i].tx.signer \in Acct
                        /\ log[i].tx.seq < final.seq[log[i].tx.signer]
  BY <1>1, TxType DEF UsedUp, NotTwice
<1>4. \A i \in 1 .. n + 1 : i = n + 1 \/ i \in 1 .. n
  BY <1>1
<1>5. ASSUME NEW i \in 1 .. n + 1
      PROVE  log'[i].tx.signed /\ log'[i].tx.seq < final'.seq[log'[i].tx.signer]
  <2>1. CASE i = n + 1
    BY <1>1, <1>2, <2>1
  <2>2. CASE i \in 1 .. n
    BY <1>1, <1>2, <1>3, <2>2
  <2>. QED  BY <1>4, <2>1, <2>2
<1>6. ASSUME NEW i \in 1 .. n + 1, NEW j \in 1 .. n + 1,
             i < j, log'[i].tx.signer = log'[j].tx.signer
      PROVE  log'[i].tx.seq < log'[j].tx.seq
  <2>1. i \in 1 .. n /\ log'[i] = log[i]
    BY <1>1, <1>6
  <2>2. CASE j = n + 1
    BY <1>1, <1>2, <1>3, <1>6, <2>1, <2>2
  <2>3. CASE j \in 1 .. n
    BY <1>1, <1>6, <2>1, <2>3 DEF NotTwice
  <2>. QED  BY <1>4, <2>2, <2>3
<1>. QED  BY <1>1, <1>5, <1>6 DEF UsedUp, NotTwice

(* It has the number that comes next in its block.                          *)
LEMMA NumbersStep ==
    ASSUME Numbered, CountersInOrder, NEW n, NEW tx \in Tx, NEW e, Logs(n, tx, e)
    PROVE  Numbered' /\ CountersInOrder'
<1>1. /\ n \in Nat /\ DOMAIN log = 1 .. n /\ DOMAIN log' = 1 .. n + 1
      /\ \A i \in 1 .. n : log'[i] = log[i] /\ log[i].height \in Nat
      /\ log'[n + 1] = e /\ e.height = final.height /\ e.counter = CountNow(final)
      /\ final.height \in Nat /\ CountNow(final) \in Nat
  BY LogsType DEF Logs
<1>2. /\ final'.height = final.height
      /\ final'.counter = [height |-> final.height, next |-> CountNow(final) + 1]
  BY DEF Logs, Executed
<1>3. \A i : i \in 1 .. n + 1 <=> i \in 1 .. n \/ i = n + 1
  BY <1>1
<1>. DEFINE S == InBlock(log, final.height)
<1>4. InBlock(log', final.height) = S \cup {n + 1} /\ n + 1 \notin S /\ S \in SUBSET (1 .. n)
  <2>1. \A i : i \in InBlock(log', final.height) <=> i \in S \/ i = n + 1
    BY <1>1, <1>3 DEF InBlock
  <2>2. S \in SUBSET (1 .. n)
    BY <1>1 DEF InBlock
  <2>. HIDE DEF S
  <2>. QED  BY <1>1, <2>1, <2>2
<1>5. IsFiniteSet(S) /\ Cardinality(S) \in Nat
  <2>1. IsFiniteSet(1 .. n)
    BY <1>1, FS_Interval
  <2>. HIDE DEF S
  <2>. QED  BY <1>4, <2>1, FS_Subset, FS_CardinalityType
<1>6. Cardinality(S) = CountNow(final)
  BY DEF Numbered
<1>7. Cardinality(InBlock(log', final.height)) = CountNow(final) + 1
  <2>. HIDE DEF S
  <2>. QED  BY <1>4, <1>5, <1>6, FS_AddElement
<1>8. CountNow(final') = CountNow(final) + 1
  BY <1>2 DEF CountNow
<1>9. ASSUME NEW i \in 1 .. n + 1 PROVE log'[i].height <= final.height
  <2>1. CASE i = n + 1
    BY <1>1, <2>1
  <2>2. CASE i \in 1 .. n
    BY <1>1, <2>2 DEF Numbered
  <2>. QED  BY <1>3, <2>1, <2>2
<1>10. Numbered'
  BY <1>1, <1>2, <1>7, <1>8, <1>9 DEF Numbered
<1>11. ASSUME NEW i \in 1 .. n + 1
       PROVE  log'[i].counter = Cardinality({j \in 1 .. i - 1 : log'[j].height = log'[i].height})
  <2>1. CASE i = n + 1
    <3>1. {j \in 1 .. i - 1 : log'[j].height = log'[i].height} = S
      BY <1>1, <2>1 DEF InBlock
    <3>. QED  BY <1>1, <1>6, <2>1, <3>1
  <2>2. CASE i \in 1 .. n
    <3>1. \A j \in 1 .. i - 1 : log'[j] = log[j]
      BY <1>1, <2>2
    <3>2. {j \in 1 .. i - 1 : log'[j].height = log'[i].height}
              = {j \in 1 .. i - 1 : log[j].height = log[i].height}
      BY <1>1, <2>2, <3>1
    <3>3. log[i].counter = Cardinality({j \in 1 .. i - 1 : log[j].height = log[i].height})
      BY <1>1, <2>2 DEF CountersInOrder
    <3>. QED  BY <1>1, <2>2, <3>2, <3>3
  <2>. QED  BY <1>3, <2>1, <2>2
<1>. QED  BY <1>1, <1>10, <1>11 DEF CountersInOrder

(* It has paid and used up one sequence.                                    *)
LEMMA AccountsStep ==
    ASSUME Accounted, NEW n, NEW tx \in Tx, NEW e, Logs(n, tx, e)
    PROVE  Accounted'
<1>. DEFINE q == Logged
            p == Logged'
<1>1. /\ n \in Nat /\ DOMAIN log = 1 .. n /\ DOMAIN log' = 1 .. n + 1
      /\ final \in State /\ Executed(final, tx, final')
  BY LogsType DEF Logs
<1>2. Longer(Tx, q, p, n, tx)
  BY LoggedLonger
<1>3. /\ final.fees = FeesOf(q, 1 .. n)
      /\ \A a \in Acct : final.seq[a] = Cardinality(By(a, q))
      /\ SumFunctionOnSet(final.bal, Acct) + final.fees + final.spent = Cardinality(Acct) * Funds
  BY <1>1 DEF Accounted
<1>4. /\ final'.fees = final.fees + tx.fee
      /\ final'.seq = [final.seq EXCEPT ![tx.signer] = final.seq[tx.signer] + 1]
      /\ SumFunctionOnSet(final'.bal, Acct) + final'.spent
             = SumFunctionOnSet(final.bal, Acct) - tx.fee + final.spent
      /\ final'.spent \in Nat /\ final'.bal \in [Acct -> Nat]
  BY <1>1, StateType DEF Executed
<1>5. /\ tx.signer \in Acct /\ tx.fee \in Nat /\ final.fees \in Nat /\ final.spent \in Nat
      /\ final.seq \in [Acct -> Nat] /\ final.bal \in [Acct -> Nat]
  BY <1>1, TxType, StateType
<1>. HIDE DEF p, q
<1>6. final'.fees = FeesOf(p, 1 .. n + 1)
  <2>1. FeesOf(p, (1 .. n) \cup {n + 1}) = FeesOf(q, 1 .. n) + tx.fee
    <3>. DEFINE S == 1 .. n
    <3>1. S \in SUBSET (1 .. n)
      OBVIOUS
    <3>. HIDE DEF S
    <3>2. FeesOf(p, S \cup {n + 1}) = FeesOf(q, S) + tx.fee
      BY <1>2, <3>1, FeesLonger
    <3>. QED  BY <3>2 DEF S
  <2>2. (1 .. n) \cup {n + 1} = 1 .. n + 1
    BY <1>1
  <2>. QED  BY <1>3, <1>4, <2>1, <2>2
<1>7. ASSUME NEW a \in Acct PROVE final'.seq[a] = Cardinality(By(a, p))
  <2>1. Cardinality(By(a, p)) = Cardinality(By(a, q)) + IF tx.signer = a THEN 1 ELSE 0
    BY <1>2, CountLonger
  <2>2. final.seq[a] = Cardinality(By(a, q)) /\ final.seq[a] \in Nat
    BY <1>3, <1>5
  <2>3. final'.seq[a] = final.seq[a] + IF tx.signer = a THEN 1 ELSE 0
    BY <1>4, <1>5
  <2>. QED  BY <2>1, <2>2, <2>3
<1>8. SumFunctionOnSet(final.bal, Acct) \in Nat /\ SumFunctionOnSet(final'.bal, Acct) \in Nat
  <2>1. IsFiniteSet(Acct)
    BY BoundAssumption
  <2>. QED  BY <1>4, <1>5, <2>1, SumNat
<1>. DEFINE k == SumFunctionOnSet(final.bal, Acct)
            l == SumFunctionOnSet(final'.bal, Acct)
            c == Cardinality(Acct) * Funds
<1>9. l + final'.fees + final'.spent = c
  <2>1. k + final.fees + final.spent = c /\ l + final'.spent = k - tx.fee + final.spent
        /\ k \in Nat /\ l \in Nat
    BY <1>3, <1>4, <1>8
  <2>. HIDE DEF k, l, c
  <2>. QED  BY <1>4, <1>5, <2>1
<1>. QED  BY <1>1, <1>6, <1>7, <1>9 DEF Accounted, p

LEMMA HistoryStep ==
    ASSUME History, NEW n, NEW tx \in Tx, NEW e, Logs(n, tx, e)
    PROVE  History'
BY SequencesStep, NumbersStep, AccountsStep DEF History

(* The history depends on the log and the state of the block only.          *)
LEMMA HistoryKept ==
    ASSUME History, log' = log, final' = final
    PROVE  History'
<1>1. Logged' = Logged
  BY DEF Logged
<1>. QED  BY <1>1 DEF History, UsedUp, NotTwice, Numbered, CountersInOrder, Accounted

(* A new block has no transactions yet.                                     *)
LEMMA HistoryOfNewBlock ==
    ASSUME History, log' = log, final \in State, log \in Seq(Entry),
           final' = [final EXCEPT !.height = final.height + 1]
    PROVE  History'
<1>1. Logged' = Logged
  BY DEF Logged
<1>2. /\ final'.seq = final.seq /\ final'.bal = final.bal /\ final'.fees = final.fees
      /\ final'.spent = final.spent /\ final'.counter = final.counter
      /\ final'.height = final.height + 1
  BY DEF State
<1>3. UsedUp' /\ NotTwice' /\ CountersInOrder' /\ Accounted'
  BY <1>1, <1>2 DEF History, UsedUp, NotTwice, CountersInOrder, Accounted
<1>4. /\ final.height \in Nat /\ final.counter.height \in Nat
      /\ \A i \in DOMAIN log : log[i].height \in Nat
  <2>1. \A i \in DOMAIN log : log[i] \in Entry
    BY ElementOfSeq, LenProperties
  <2>. QED  BY <2>1, StateType DEF Entry
<1>5. InBlock(log, final.height + 1) = {}
  BY <1>4 DEF InBlock, History, Numbered
<1>6. CountNow(final') = 0
  BY <1>2, <1>4 DEF CountNow, History, Numbered
<1>7. Cardinality(InBlock(log, final.height + 1)) = 0
  BY <1>5, FS_EmptySet
<1>8. Numbered'
  BY <1>2, <1>4, <1>6, <1>7 DEF History, Numbered
<1>. QED  BY <1>3, <1>8 DEF History

-----------------------------------------------------------------------------
(* The mempool. *)

(* The step of the mempool: tx passed the check and is its last entry.      *)
Checks(n, tx, m) ==
    /\ check \in State /\ committed \in State /\ committed' = committed
    /\ Longer(Tx, mempool, mempool', n, tx)
    /\ m \in Mode /\ m # "finalize"
    /\ Passed(check, tx, m, check')
    /\ tx.seq = check.seq[tx.signer] /\ check.bal[tx.signer] >= tx.fee
    /\ tx.timeout = 0 \/ check.height <= tx.timeout
    /\ Relays(tx, m) => ~check.received

LEMMA ChecksType ==
    ASSUME NEW n, NEW tx, NEW m, Checks(n, tx, m)
    PROVE  /\ n \in Nat /\ tx \in Tx /\ DOMAIN mempool = 1 .. n /\ DOMAIN mempool' = 1 .. n + 1
           /\ mempool \in [1 .. n -> Tx] /\ mempool' \in [1 .. n + 1 -> Tx]
           /\ \A i \in 1 .. n : mempool'[i] = mempool[i]
           /\ mempool'[n + 1] = tx
           /\ \A i : i \in 1 .. n + 1 <=> i \in 1 .. n \/ i = n + 1
           /\ check'.bal = [check.bal EXCEPT ![tx.signer] = check.bal[tx.signer] - tx.fee]
           /\ check'.seq = [check.seq EXCEPT ![tx.signer] = check.seq[tx.signer] + 1]
           /\ check'.height = check.height
           /\ check'.received = (check.received \/ tx.msg = "relay")
           /\ check.bal \in [Acct -> Nat] /\ check.seq \in [Acct -> Nat]
           /\ committed.bal \in [Acct -> Nat] /\ committed.seq \in [Acct -> Nat]
<1>1. /\ n \in Nat /\ tx \in Tx /\ DOMAIN mempool = 1 .. n /\ DOMAIN mempool' = 1 .. n + 1
      /\ mempool \in [1 .. n -> Tx] /\ mempool' \in [1 .. n + 1 -> Tx]
      /\ \A i \in 1 .. n : mempool'[i] = mempool[i]
      /\ mempool'[n + 1] = tx
  BY DEF Checks, Longer
<1>2. \A i : i \in 1 .. n + 1 <=> i \in 1 .. n \/ i = n + 1
  BY <1>1
<1>3. /\ check'.bal = [check.bal EXCEPT ![tx.signer] = check.bal[tx.signer] - tx.fee]
      /\ check'.seq = [check.seq EXCEPT ![tx.signer] = check.seq[tx.signer] + 1]
      /\ check'.height = check.height
      /\ check'.received = (check.received \/ tx.msg = "relay")
  BY DEF Checks, Passed, Became, Kept, Relays
<1>4. /\ check.bal \in [Acct -> Nat] /\ check.seq \in [Acct -> Nat]
      /\ committed.bal \in [Acct -> Nat] /\ committed.seq \in [Acct -> Nat]
  BY StateType DEF Checks
<1>. QED  BY <1>1, <1>2, <1>3, <1>4

LEMMA AheadStep ==
    ASSUME Ahead, NEW n, NEW tx, NEW m, Checks(n, tx, m)
    PROVE  Ahead'
<1>. DEFINE q == mempool
            p == mempool'
            Before(a, i) == {j \in By(a, q) : j < i}
<1>1. /\ n \in Nat /\ tx \in Tx /\ q \in [1 .. n -> Tx] /\ p \in [1 .. n + 1 -> Tx]
      /\ \A i \in 1 .. n : p[i] = q[i]
      /\ p[n + 1] = tx
      /\ check'.bal = [check.bal EXCEPT ![tx.signer] = check.bal[tx.signer] - tx.fee]
      /\ check'.seq = [check.seq EXCEPT ![tx.signer] = check.seq[tx.signer] + 1]
      /\ check.bal \in [Acct -> Nat] /\ check.seq \in [Acct -> Nat]
      /\ committed.bal \in [Acct -> Nat] /\ committed.seq \in [Acct -> Nat]
  BY ChecksType
<1>2. /\ Longer(Tx, q, p, n, tx) /\ committed' = committed
      /\ tx.seq = check.seq[tx.signer] /\ check.bal[tx.signer] >= tx.fee
      /\ tx.signer \in Acct /\ tx.fee \in Nat
  BY <1>1, TxType DEF Checks
<1>3. ASSUME NEW a \in Acct
      PROVE  /\ check'.seq[a] = committed.seq[a] + Cardinality(By(a, p))
             /\ check'.bal[a] + FeesOf(p, By(a, p)) = committed.bal[a]
             /\ \A i \in By(a, p) :
                    p[i].seq = committed.seq[a] + Cardinality({j \in By(a, p) : j < i})
  <2>1. /\ check.seq[a] = committed.seq[a] + Cardinality(By(a, q))
        /\ check.bal[a] + FeesOf(q, By(a, q)) = committed.bal[a]
        /\ \A i \in By(a, q) : q[i].seq = committed.seq[a] + Cardinality(Before(a, i))
    BY DEF Ahead, AheadOf
  <2>2. /\ By(a, q) \in SUBSET (1 .. n) /\ IsFiniteSet(By(a, q)) /\ Cardinality(By(a, q)) \in Nat
        /\ FeesOf(q, By(a, q)) \in Nat
    BY <1>1, Positions, FeesType
  <2>. HIDE DEF p, q
  <2>3. Cardinality(By(a, p)) = Cardinality(By(a, q)) + IF tx.signer = a THEN 1 ELSE 0
    BY <1>2, CountLonger
  <2>4. By(a, p) = IF tx.signer = a THEN By(a, q) \cup {n + 1} ELSE By(a, q)
    BY <1>2, ByLonger
  <2>5. FeesOf(p, By(a, p)) = FeesOf(q, By(a, q)) + IF tx.signer = a THEN tx.fee ELSE 0
    <3>. DEFINE S == By(a, q)
    <3>. HIDE DEF S
    <3>1. S \in SUBSET (1 .. n) /\ FeesOf(q, S) \in Nat
      BY <2>2 DEF S
    <3>2. FeesOf(p, S) = FeesOf(q, S) /\ FeesOf(p, S \cup {n + 1}) = FeesOf(q, S) + tx.fee
      BY <1>2, <3>1, FeesLonger
    <3>3. By(a, p) = IF tx.signer = a THEN S \cup {n + 1} ELSE S
      BY <2>4 DEF S
    <3>4. CASE tx.signer = a
      BY <3>2, <3>3, <3>4 DEF S
    <3>5. CASE tx.signer # a
      BY <3>1, <3>2, <3>3, <3>5 DEF S
    <3>. QED  BY <3>4, <3>5
  <2>6. check'.seq[a] = committed.seq[a] + Cardinality(By(a, p))
    <3>1. check'.seq[a] = check.seq[a] + IF tx.signer = a THEN 1 ELSE 0
      BY <1>1, <1>2
    <3>2. check.seq[a] \in Nat /\ committed.seq[a] \in Nat
      BY <1>1
    <3>. QED  BY <2>1, <2>2, <2>3, <3>1, <3>2
  <2>7. check'.bal[a] + FeesOf(p, By(a, p)) = committed.bal[a]
    BY <1>1, <1>2, <2>1, <2>2, <2>5, SMTT(30)
  <2>8. ASSUME NEW i \in By(a, p)
        PROVE  p[i].seq = committed.seq[a] + Cardinality({j \in By(a, p) : j < i})
    <3>1. CASE i = n + 1 /\ tx.signer = a
      <4>1. {j \in By(a, p) : j < i} = By(a, q)
        BY <1>1, <2>2, <2>4, <3>1
      <4>. QED  BY <1>1, <1>2, <2>1, <3>1, <4>1
    <3>2. CASE i \in By(a, q)
      <4>1. i \in 1 .. n /\ i \in Nat /\ ~(n + 1 < i)
        BY <1>1, <2>2, <3>2
      <4>2. {j \in By(a, p) : j < i} = Before(a, i)
        BY <2>4, <4>1 DEF Before
      <4>. QED  BY <1>1, <2>1, <3>2, <4>1, <4>2
    <3>. QED  BY <2>4, <3>1, <3>2
  <2>. QED  BY <2>6, <2>7, <2>8
<1>. QED  BY <1>2, <1>3 DEF Ahead, AheadOf

LEMMA TimelyStep ==
    ASSUME Timely, NEW n, NEW tx, NEW m, Checks(n, tx, m)
    PROVE  Timely'
<1>1. /\ check'.height = check.height /\ committed' = committed
      /\ tx.timeout = 0 \/ check.height <= tx.timeout
      /\ check.height = committed.height
      /\ tx \in Tx /\ committed.height \in Nat
  BY ChecksType, StateType DEF Checks, Timely, TimelyFor
<1>2. \A t \in Range(mempool') : t = tx \/ t \in Range(mempool)
  <2>1. /\ DOMAIN mempool = 1 .. n /\ DOMAIN mempool' = 1 .. n + 1
        /\ \A i \in 1 .. n : mempool'[i] = mempool[i]
        /\ mempool'[n + 1] = tx
        /\ \A i : i \in 1 .. n + 1 <=> i \in 1 .. n \/ i = n + 1
    BY ChecksType
  <2>. QED  BY <2>1 DEF Range
<1>3. tx.timeout # 0 => tx.timeout >= committed.height
  BY <1>1, TxType
<1>4. \A t \in Range(mempool') : t.timeout # 0 => t.timeout >= committed.height
  BY <1>2, <1>3 DEF Timely, TimelyFor
<1>. QED  BY <1>1, <1>4 DEF Timely, TimelyFor

LEMMA RelayedStep ==
    ASSUME Relayed, NEW n, NEW tx, NEW m, Checks(n, tx, m)
    PROVE  Relayed'
<1>. DEFINE S == RelaysIn(mempool)
            R == RelaysIn(mempool')
<1>1. /\ DOMAIN mempool = 1 .. n /\ DOMAIN mempool' = 1 .. n + 1 /\ n \in Nat
      /\ \A i \in 1 .. n : mempool'[i] = mempool[i]
      /\ mempool'[n + 1] = tx
      /\ \A i : i \in 1 .. n + 1 <=> i \in 1 .. n \/ i = n + 1
      /\ check'.received = (check.received \/ tx.msg = "relay")
  BY ChecksType
<1>2. /\ tx.msg = "relay" => ~check.received
      /\ committed' = committed
  BY DEF Checks, Relays
<1>3. /\ check.received <=> committed.received \/ S # {}
      /\ Cardinality(S) <= IF committed.received THEN 0 ELSE 1
  BY DEF Relayed, RelayedBy
<1>4. CASE tx.msg = "relay"
  <2>1. S = {} /\ ~committed.received
    BY <1>2, <1>3, <1>4
  <2>2. R = {n + 1}
    <3>1. \A i \in 1 .. n : mempool[i].msg # "relay"
      BY <1>1, <2>1 DEF RelaysIn
    <3>. QED  BY <1>1, <1>4, <3>1 DEF RelaysIn
  <2>3. Cardinality(R) = 1
    BY <2>2, FS_Singleton
  <2>4. check'.received
    BY <1>1, <1>4
  <2>. HIDE DEF R, S
  <2>. QED  BY <1>2, <2>1, <2>2, <2>3, <2>4 DEF Relayed, RelayedBy, R
<1>5. CASE tx.msg # "relay"
  <2>1. R = S
    BY <1>1, <1>5 DEF RelaysIn
  <2>2. check'.received <=> check.received
    BY <1>1, <1>5
  <2>. HIDE DEF R, S
  <2>. QED  BY <1>2, <1>3, <2>1, <2>2 DEF Relayed, RelayedBy, R
<1>. QED  BY <1>4, <1>5

LEMMA PoolStep ==
    ASSUME Pool, NEW n, NEW tx, NEW m, Checks(n, tx, m)
    PROVE  Pool'
BY AheadStep, TimelyStep, RelayedStep DEF Pool

LEMMA PoolKept ==
    ASSUME Pool, UNCHANGED <<committed, check, mempool>>
    PROVE  Pool'
BY DEF Pool, Ahead, AheadOf, Timely, TimelyFor, Relayed, RelayedBy

(* After a block the mempool is checked from the beginning.                 *)
LEMMA PoolEmpty ==
    ASSUME NEW c \in State
    PROVE  PoolOf(c, c, <<>>)
<1>1. RelaysIn(<<>>) = {} /\ Range(<<>>) = {} /\ \A a : By(a, <<>>) = {}
  BY DEF RelaysIn, Range, By
<1>2. Cardinality({}) = 0
  BY FS_EmptySet
<1>3. FeesOf(<<>>, {}) = 0
  BY SumEmpty DEF FeesOf
<1>4. ASSUME NEW a \in Acct
      PROVE  /\ c.seq[a] = c.seq[a] + Cardinality(By(a, <<>>))
             /\ c.bal[a] + FeesOf(<<>>, By(a, <<>>)) = c.bal[a]
             /\ By(a, <<>>) = {}
  <2>1. /\ By(a, <<>>) = {} /\ Cardinality(By(a, <<>>)) = 0
        /\ FeesOf(<<>>, By(a, <<>>)) = 0
    BY <1>1, <1>2, <1>3
  <2>2. c.seq[a] \in Nat /\ c.bal[a] \in Nat
    BY StateType
  <2>. QED  BY <2>1, <2>2
<1>5. AheadOf(c, c, <<>>)
  BY <1>4 DEF AheadOf
<1>6. TimelyFor(c, c, <<>>)
  BY <1>1 DEF TimelyFor
<1>7. RelayedBy(c, c, <<>>)
  <2>1. c.received \in BOOLEAN /\ Cardinality(RelaysIn(<<>>)) = 0
    BY <1>1, <1>2, StateType
  <2>. QED  BY <1>1, <2>1 DEF RelayedBy
<1>. QED  BY <1>5, <1>6, <1>7 DEF PoolOf

-----------------------------------------------------------------------------
(* One step lemma per action. *)

LEMMA GenesisType == Genesis \in State
<1>1. /\ [a \in Acct |-> Funds] \in [Acct -> Nat] /\ [a \in Acct |-> 0] \in [Acct -> Nat]
      /\ [height |-> 0, next |-> 0] \in [height : Nat, next : Nat]
  BY BoundAssumption
<1>. QED  BY <1>1 DEF Genesis, State

LEMMA InitIInv == Init => IInv
<1>. SUFFICES ASSUME Init PROVE IInv
  OBVIOUS
<1>1. TypeOK
  BY GenesisType DEF Init, TypeOK
<1>2. log = <<>> /\ DOMAIN log = {} /\ final = Genesis /\ DOMAIN Logged = {}
  BY DEF Init, Logged
<1>3. UsedUp /\ NotTwice /\ CountersInOrder
  BY <1>2 DEF UsedUp, NotTwice, CountersInOrder
<1>4. Cardinality({}) = 0
  BY FS_EmptySet
<1>5. Numbered
  <2>1. CountNow(final) = 0 /\ final.counter.height = 0 /\ final.height = 0
    BY <1>2 DEF Genesis, CountNow
  <2>2. InBlock(log, 0) = {}
    BY <1>2 DEF InBlock
  <2>3. CountNow(final) = Cardinality(InBlock(log, final.height))
    BY <1>4, <2>1, <2>2
  <2>4. final.counter.height <= final.height
    BY <2>1
  <2>5. \A i \in DOMAIN log : log[i].height <= final.height
    BY <1>2
  <2>. QED  BY <2>3, <2>4, <2>5 DEF Numbered
<1>6. Accounted
  <2>1. /\ final.fees = 0 /\ final.spent = 0
        /\ final.bal = [a \in Acct |-> Funds] /\ final.seq = [a \in Acct |-> 0]
    BY <1>2 DEF Genesis
  <2>2. FeesOf(Logged, DOMAIN log) = 0
    BY <1>2, SumEmpty DEF FeesOf
  <2>3. ASSUME NEW a \in Acct PROVE final.seq[a] = Cardinality(By(a, Logged))
    <3>1. By(a, Logged) = {}
      BY <1>2 DEF By
    <3>. QED  BY <1>4, <2>1, <3>1
  <2>4. SumFunctionOnSet(final.bal, Acct) \in Nat
    <3>1. final.bal \in [Acct -> Nat] /\ IsFiniteSet(Acct)
      BY <2>1, BoundAssumption
    <3>. QED  BY <3>1, SumNat
  <2>5. SumFunctionOnSet(final.bal, Acct) = Cardinality(Acct) * Funds
    BY <2>1, SumOfFunds
  <2>6. SumFunctionOnSet(final.bal, Acct) + final.fees + final.spent = Cardinality(Acct) * Funds
    BY <2>1, <2>4, <2>5
  <2>. QED  BY <2>1, <2>2, <2>3, <2>6 DEF Accounted
<1>7. Pool
  <2>1. PoolOf(Genesis, Genesis, <<>>)
    BY GenesisType, PoolEmpty
  <2>. QED  BY <2>1 DEF Init, Pool, PoolOf, Ahead, Timely, Relayed
<1>. QED  BY <1>1, <1>3, <1>5, <1>6, <1>7 DEF Init, IInv, History, Pending, Resumable

LEMMA CheckTxStep ==
    ASSUME IInv, NEW tx \in Tx, CheckTx(tx)
    PROVE  IInv'
<1>. DEFINE a == Ante(check, tx, "check")
<1>1. /\ check' = a.s /\ mempool' = Append(mempool, tx) /\ log' = log /\ final' = final
      /\ committed' = committed /\ pc' = pc /\ block' = block /\ todo' = todo /\ a.ok
  BY DEF CheckTx
<1>2. /\ "check" \in Mode /\ "check" # "finalize"
      /\ check \in State /\ committed \in State /\ mempool \in Seq(Tx)
  BY DEF IInv, TypeOK, Mode
<1>3. a = Ante(check, tx, "check")
  OBVIOUS
<1>. HIDE DEF a
<1>4. Longer(Tx, mempool, mempool', Len(mempool), tx) /\ mempool' \in Seq(Tx)
  BY <1>1, <1>2, Appended, AppendProperties
<1>5. Checks(Len(mempool), tx, "check")
  BY <1>1, <1>2, <1>3, <1>4, AnteType DEF Checks
<1>6. check' \in State
  BY <1>5 DEF Checks, Passed, Became
<1>7. TypeOK'
  BY <1>1, <1>4, <1>6 DEF IInv, TypeOK
<1>8. Pool'
  BY <1>5, PoolStep DEF IInv
<1>. QED  BY <1>1, <1>7, <1>8, HistoryKept DEF IInv, Pending, Resumable

LEMMA BeginBlockStep ==
    ASSUME IInv, BeginBlock
    PROVE  IInv'
<1>1. /\ committed \in State /\ final = committed /\ log \in Seq(Entry)
      /\ final' = [final EXCEPT !.height = final.height + 1]
      /\ pc' = "block" /\ log' = log
      /\ UNCHANGED <<committed, check, mempool>>
  BY DEF IInv, TypeOK, Resumable, BeginBlock, Entry
<1>2. final.height + 1 \in Nat
  BY <1>1, StateType
<1>3. final' \in State /\ final'.height = committed.height + 1
  BY <1>1, <1>2 DEF State
<1>4. TypeOK'
  BY <1>3, EmptySeq DEF IInv, TypeOK, BeginBlock
<1>5. History'
  BY <1>1, HistoryOfNewBlock DEF IInv
<1>6. Pool'
  BY <1>1, PoolKept DEF IInv
<1>. QED  BY <1>1, <1>3, <1>4, <1>5, <1>6 DEF IInv, Pending, Resumable

LEMMA DeliverTxStep ==
    ASSUME IInv, NEW tx \in Tx, DeliverTx(tx)
    PROVE  IInv'
<1>. DEFINE a == Ante(final, tx, "finalize")
            e == [tx |-> tx, height |-> final.height, counter |-> a.counter]
<1>0. /\ block' = Append(block, tx) /\ pc = "block" /\ pc' = pc /\ todo' = todo
      /\ UNCHANGED <<committed, check, mempool>>
  BY DEF DeliverTx
<1>1. block' \in Seq(Tx)
  BY <1>0, AppendProperties DEF IInv, TypeOK
<1>2. Pool'
  BY <1>0, PoolKept DEF IInv
<1>3. CASE ~a.ok
  <2>1. final' = final /\ log' = log
    BY <1>3 DEF DeliverTx
  <2>2. TypeOK'
    BY <1>0, <1>1, <2>1 DEF IInv, TypeOK
  <2>. QED  BY <1>0, <1>2, <2>1, <2>2, HistoryKept DEF IInv, Pending, Resumable
<1>4. CASE a.ok
  <2>1. final \in State /\ log \in Seq(Entry)
    BY DEF IInv, TypeOK, Entry
  <2>2. final' = RunMsgs(a.s, tx) /\ log' = Append(log, e)
    BY <1>4 DEF DeliverTx
  <2>3. a = Ante(final, tx, "finalize")
    OBVIOUS
  <2>4. e.tx = tx /\ e.height = final.height /\ e.counter = a.counter
    OBVIOUS
  <2>5. e = [tx |-> tx, height |-> final.height, counter |-> a.counter]
    OBVIOUS
  <2>. HIDE DEF a, e
  <2>6. Executed(final, tx, final') /\ a.counter = CountNow(final)
    BY <1>4, <2>1, <2>2, <2>3, ExecutedType
  <2>7. e \in Entry
    BY <2>1, <2>5, <2>6, StateType DEF Entry
  <2>8. Longer(Entry, log, log', Len(log), e) /\ log' \in Seq(Entry)
    BY <2>1, <2>2, <2>7, Appended, AppendProperties
  <2>9. Logs(Len(log), tx, e)
    BY <2>1, <2>4, <2>6, <2>8 DEF Logs
  <2>10. History'
    BY <2>9, HistoryStep DEF IInv
  <2>11. TypeOK'
    BY <1>0, <1>1, <2>6, <2>8 DEF IInv, TypeOK, Executed, Entry
  <2>12. Resumable'
    BY <1>0, <2>6 DEF IInv, Resumable, Executed
  <2>. QED  BY <1>0, <1>2, <2>10, <2>11, <2>12 DEF IInv, Pending
<1>. QED  BY <1>3, <1>4

LEMMA CommitStep ==
    ASSUME IInv, Commit
    PROVE  IInv'
<1>1. TypeOK'
  BY EmptySeq DEF IInv, TypeOK, Commit
<1>2. log' = log /\ final' = final /\ committed' = final /\ check' = final /\ mempool' = <<>>
  BY DEF Commit
<1>3. Pool'
  <2>1. final \in State
    BY DEF IInv, TypeOK
  <2>2. PoolOf(final, final, <<>>)
    BY <2>1, PoolEmpty
  <2>3. PoolOf(committed', check', mempool')
    BY <1>2, <2>2
  <2>. QED  BY <2>3 DEF Pool, PoolOf, Ahead, Timely, Relayed
<1>4. Pending' /\ Resumable'
  BY <1>2 DEF Pending, Resumable, Commit
<1>. QED  BY <1>1, <1>2, <1>3, <1>4, HistoryKept DEF IInv

LEMMA RecheckTxStep ==
    ASSUME IInv, RecheckTx
    PROVE  IInv'
<1>. DEFINE tx == Head(todo)
            a  == Ante(check, tx, "recheck")
<1>1. todo \in Seq(Tx) /\ todo # <<>>
  BY DEF IInv, TypeOK, Pending, RecheckTx
<1>2. tx \in Tx /\ Tail(todo) \in Seq(Tx)
  BY <1>1, HeadTailProperties
<1>3. /\ todo' = Tail(todo) /\ log' = log /\ final' = final /\ committed' = committed
      /\ block' = block /\ pc' = IF Tail(todo) = <<>> THEN "open" ELSE "recheck"
      /\ pc = "recheck"
  BY DEF RecheckTx
<1>4. check' \in State /\ mempool' \in Seq(Tx) /\ Pool'
  <2>1. CASE a.ok /\ check' = a.s /\ mempool' = Append(mempool, tx)
    <3>1. a = Ante(check, tx, "recheck")
      OBVIOUS
    <3>2. /\ "recheck" \in Mode /\ "recheck" # "finalize"
          /\ check \in State /\ committed \in State /\ mempool \in Seq(Tx)
      BY DEF IInv, TypeOK, Mode
    <3>. HIDE DEF tx, a
    <3>3. Longer(Tx, mempool, mempool', Len(mempool), tx) /\ mempool' \in Seq(Tx)
      BY <1>2, <2>1, <3>2, Appended, AppendProperties
    <3>4. Checks(Len(mempool), tx, "recheck")
      BY <1>2, <1>3, <2>1, <3>1, <3>2, <3>3, AnteType DEF Checks
    <3>5. check' \in State
      BY <3>4 DEF Checks, Passed, Became
    <3>6. Pool'
      BY <3>4, PoolStep DEF IInv
    <3>. QED  BY <3>3, <3>5, <3>6
  <2>2. CASE check' = check /\ mempool' = mempool
    BY <1>3, <2>2, PoolKept DEF IInv, TypeOK
  <2>. QED  BY <2>1, <2>2 DEF RecheckTx
<1>. HIDE DEF a, tx
<1>5. TypeOK'
  BY <1>2, <1>3, <1>4 DEF IInv, TypeOK
<1>. QED  BY <1>3, <1>4, <1>5, HistoryKept DEF IInv, Pending, Resumable

LEMMA StutterStep ==
    ASSUME IInv, UNCHANGED vars
    PROVE  IInv'
BY HistoryKept, PoolKept DEF IInv, TypeOK, Pending, Resumable, vars

(* The inductive invariant holds in every state of every run of blocks,     *)
(* whatever the proposers put in them.                                      *)
THEOREM Invariant == Spec => []IInv
<1>1. IInv /\ [Next]_vars => IInv'
  <2>1. SUFFICES ASSUME IInv, [Next]_vars PROVE IInv'
    OBVIOUS
  <2>2. ASSUME NEW tx \in Tx, CheckTx(tx) PROVE IInv'
    BY <2>1, <2>2, CheckTxStep
  <2>3. ASSUME NEW tx \in Tx, DeliverTx(tx) PROVE IInv'
    BY <2>1, <2>3, DeliverTxStep
  <2>4. CASE BeginBlock
    BY <2>1, <2>4, BeginBlockStep
  <2>5. CASE Commit
    BY <2>1, <2>5, CommitStep
  <2>6. CASE RecheckTx
    BY <2>1, <2>6, RecheckTxStep
  <2>7. CASE Stopped
    BY <2>1, <2>7, StutterStep DEF Stopped
  <2>8. CASE UNCHANGED vars
    BY <2>1, <2>8, StutterStep
  <2>. QED  BY <2>1, <2>2, <2>3, <2>4, <2>5, <2>6, <2>7, <2>8 DEF Next
<1>. QED  BY InitIInv, <1>1, PTL DEF Spec

(* Balances never become negative: fees and messages take only what an      *)
(* account has, and sequences, counters and the mempool keep their types.   *)
THEOREM TypeCorrect == Spec => []TypeOK
<1>1. IInv => TypeOK
  BY DEF IInv
<1>. QED  BY Invariant, <1>1, PTL

(* No transaction is executed twice, nor without its account's signature,   *)
(* in whatever order and however often proposers put it into blocks.        *)
THEOREM ExecutedOnce == Spec => []NotTwice
<1>1. IInv => NotTwice
  BY DEF IInv, History
<1>. QED  BY Invariant, <1>1, PTL

(* Whatever got through the ante chain has paid and used up a sequence,     *)
(* failed or not, and nothing else has; no coin is lost or made.            *)
THEOREM AllPay == Spec => []EverybodyPays
<1>1. IInv => EverybodyPays
  BY DEF IInv, History, Accounted, EverybodyPays
<1>. QED  BY Invariant, <1>1, PTL

(* Contracts see the transactions of any block numbered without gaps.       *)
THEOREM NumberedInOrder == Spec => []CountersInOrder
<1>1. IInv => CountersInOrder
  BY DEF IInv, History
<1>. QED  BY Invariant, <1>1, PTL

(* However blocks and the mempool overtake each other, what the mempool     *)
(* keeps would pass as it stands.                                           *)
THEOREM MempoolIsInSequence == Spec => []MempoolInSequence
<1>1. IInv => MempoolInSequence
  <2>1. SUFFICES ASSUME IInv, NEW a \in Acct
                 PROVE  FeesOf(mempool, By(a, mempool)) <= committed.bal[a]
    BY DEF IInv, Pool, Ahead, AheadOf, Timely, TimelyFor, MempoolInSequence
  <2>2. check.bal[a] + FeesOf(mempool, By(a, mempool)) = committed.bal[a]
    BY <2>1 DEF IInv, Pool, Ahead, AheadOf
  <2>3. check.bal[a] \in Nat /\ committed.bal[a] \in Nat
    BY <2>1, StateType DEF IInv, TypeOK
  <2>4. FeesOf(mempool, By(a, mempool)) \in Nat
    <3>1. Len(mempool) \in Nat /\ mempool \in [1 .. Len(mempool) -> Tx]
      BY <2>1, LenProperties DEF IInv, TypeOK
    <3>. QED  BY <3>1, Positions, FeesType
  <2>. QED  BY <2>2, <2>3, <2>4
<1>. QED  BY Invariant, <1>1, PTL

(* The mempool never holds a packet that the chain has, nor one twice.      *)
THEOREM RelaysAreNews == Spec => []NoRedundantRelay
<1>1. IInv => NoRedundantRelay
  BY DEF IInv, Pool, Relayed, RelayedBy, RelaysIn, NoRedundantRelay
<1>. QED  BY Invariant, <1>1, PTL

(* In any block, once the breaker is tripped no transaction sends coins.    *)
THEOREM BreakerHolds == Spec => NothingSentWhenTripped
<1>. DEFINE Held == pc = "block" /\ final.tripped => final'.spent = final.spent
<1>1. IInv /\ [Next]_vars => [Held]_vars
  <2>1. SUFFICES ASSUME IInv, [Next]_vars, pc = "block", final.tripped
                 PROVE  final'.spent = final.spent
    OBVIOUS
  <2>2. ASSUME NEW tx \in Tx, DeliverTx(tx) PROVE final'.spent = final.spent
    <3>. DEFINE a == Ante(final, tx, "finalize")
    <3>1. CASE ~a.ok
      BY <2>2, <3>1 DEF DeliverTx
    <3>2. CASE a.ok
      <4>1. final \in State
        BY <2>1 DEF IInv, TypeOK
      <4>2. final' = RunMsgs(a.s, tx)
        BY <2>2, <3>2 DEF DeliverTx
      <4>3. a = Ante(final, tx, "finalize")
        OBVIOUS
      <4>. HIDE DEF a
      <4>4. Executed(final, tx, final')
        BY <3>2, <4>1, <4>2, <4>3, ExecutedType
      <4>. QED  BY <2>1, <4>4 DEF Executed
    <3>. QED  BY <3>1, <3>2
  <2>3. ASSUME NEW tx \in Tx, CheckTx(tx) PROVE final'.spent = final.spent
    BY <2>3 DEF CheckTx
  <2>4. CASE BeginBlock \/ Commit \/ RecheckTx \/ Stopped \/ UNCHANGED vars
    BY <2>1, <2>4 DEF BeginBlock, Commit, RecheckTx, Stopped, vars
  <2>. QED  BY <2>1, <2>2, <2>3, <2>4 DEF Next
<1>. QED  BY Invariant, <1>1, PTL DEF Spec, NothingSentWhenTripped
=============================================================================
