----------------------------- MODULE AnteChain ------------------------------
(***************************************************************************)
(* What a transaction passes through: the ante handlers in the order of     *)
(* app/ante.go, the message router with its circuit breaker, and the two    *)
(* states that app.go's BaseApp runs them on - the check state behind the   *)
(* mempool and the state of the block.  Blocks hold any transactions: the   *)
(* proposer may be another node.                                            *)
(*                                                                          *)
(* The decorators and the mempool are dependencies; decorators that only    *)
(* look at the form of a transaction (basic validation, memo, size, gas,    *)
(* extension options, number of signatures) are left out.                   *)
(***************************************************************************)
EXTENDS Naturals, FiniteSets, SequencesExt

CONSTANTS Acct,       \* accounts
          Admin,      \* the account that may trip the circuit breaker
          Tx,         \* the transactions that were ever signed, or made up
          Funds,      \* coins of each account at first
          MinFee,     \* minimum-gas-prices of this node
          MaxHeight,  \* bound on the height of the chain
          MaxBlock,   \* bound on the transactions of a block
          MaxPool     \* bound on the mempool

(* A transaction has one message: a MsgSend, a MsgExec of a MsgSend, a      *)
(* MsgTripCircuitBreaker for MsgSend, or a MsgRecvPacket of the one packet. *)
Msg == {"send", "exec", "trip", "relay"}

ASSUME TxAssumption ==
    Tx \subseteq [signer : Acct, seq : Nat, fee : Nat, msg : Msg, signed : BOOLEAN,
                  timeout : Nat]   \* a height, 0 for none
ASSUME BoundAssumption ==
    /\ Admin \in Acct /\ IsFiniteSet(Acct)
    /\ Funds \in Nat /\ MinFee \in Nat
    /\ MaxHeight \in Nat /\ MaxBlock \in Nat /\ MaxPool \in Nat

VARIABLES
    committed,  \* the state of the last block
    check,      \* checkState
    final,      \* finalizeBlockState
    pc,         \* "open", "block" (in FinalizeBlock) or "recheck"
    block,      \* the transactions of the block so far
    mempool,    \* the transactions that were accepted, in order
    todo,       \* those of the last mempool that are still to be checked again
    log         \* history: the transactions that got through the ante chain

vars == <<committed, check, final, pc, block, mempool, todo, log>>

State == [height : Nat, bal : [Acct -> Nat], seq : [Acct -> Nat], fees : Nat, spent : Nat,
          counter : [height : Nat, next : Nat], tripped : BOOLEAN, received : BOOLEAN]

Genesis == [height |-> 0, bal |-> [a \in Acct |-> Funds], seq |-> [a \in Acct |-> 0],
            fees |-> 0, spent |-> 0, counter |-> [height |-> 0, next |-> 0],
            tripped |-> FALSE, received |-> FALSE]

TypeOK ==
    /\ committed \in State /\ check \in State /\ final \in State
    /\ pc \in {"open", "block", "recheck"}
    /\ block \in Seq(Tx) /\ mempool \in Seq(Tx) /\ todo \in Seq(Tx)
    /\ log \in Seq([tx : Tx, height : Nat, counter : Nat])

Init ==
    /\ committed = Genesis /\ check = Genesis /\ final = Genesis
    /\ pc = "open"
    /\ block = <<>> /\ mempool = <<>> /\ todo = <<>> /\ log = <<>>

-----------------------------------------------------------------------------
(* The decorators.  A run a of the chain is the transaction, the mode, the  *)
(* state as the decorators have changed it, the counter in the context, and *)
(* whether all have called the next one so far.                             *)

Require(a, condition) == [a EXCEPT !.ok = a.ok /\ condition]

(* The number of the transaction in its block, for wasm contracts.          *)
CountTX(a) ==
    LET n == IF a.s.counter.height = a.s.height THEN a.s.counter.next ELSE 0
        counted == [a.s EXCEPT !.counter = [height |-> a.s.height, next |-> n + 1]]
    IN  [a EXCEPT !.counter = n, !.s = counted]

(* Only the messages of the transaction itself are looked at.               *)
CircuitBreaker(a) == Require(a, ~(a.tx.msg = "send" /\ a.s.tripped))

(* The height of the check state is that of the last block.                 *)
TxTimeoutHeight(a) == Require(a, a.tx.timeout = 0 \/ a.s.height <= a.tx.timeout)

Charge(s, payer, fee) ==
    [s EXCEPT !.bal = [s.bal EXCEPT ![payer] = s.bal[payer] - fee], !.fees = s.fees + fee]

(* Mutant: the payer's balance is not looked at.                            *)
DeductFeeUnchecked(a) ==
    IF a.mode # "finalize" => a.tx.fee >= MinFee
    THEN [a EXCEPT !.s = Charge(a.s, a.tx.signer, a.tx.fee)]
    ELSE Require(a, FALSE)

(* The fee goes to the fee collector; a node's own minimum counts only when *)
(* it checks for its mempool.                                               *)
DeductFee(a) ==
    LET payer    == a.tx.signer
        suffices == a.s.bal[payer] >= a.tx.fee
    IN  IF suffices /\ (a.mode # "finalize" => a.tx.fee >= MinFee)
        THEN [a EXCEPT !.s = Charge(a.s, payer, a.tx.fee)]
        ELSE Require(a, FALSE)

(* The sequence is compared always, the signature not again in a recheck.   *)
SigVerification(a) ==
    Require(a, /\ a.tx.seq = a.s.seq[a.tx.signer]
               /\ a.mode # "recheck" => a.tx.signed)

IncrementSequence(a) == [a EXCEPT !.s.seq[a.tx.signer] = @ + 1]

(* For the mempool only: a relayed packet is marked as received, and one    *)
(* that was is refused.                                                     *)
RedundantRelay(a) ==
    IF a.mode # "finalize" /\ a.tx.msg = "relay"
    THEN [Require(a, ~a.s.received) EXCEPT !.s = [a.s EXCEPT !.received = TRUE]]
    ELSE a

(* Mutant: the sequence is not incremented.                                 *)
AnteHandlerNoSequence(a) ==
    RedundantRelay(SigVerification(DeductFee(TxTimeoutHeight(CircuitBreaker(CountTX(a))))))

(* Mutant: fees are not deducted.                                           *)
AnteHandlerNoFee(a) ==
    RedundantRelay(IncrementSequence(SigVerification(TxTimeoutHeight(CircuitBreaker(CountTX(a))))))

(* Mutant: transactions are not counted.                                    *)
AnteHandlerNoCount(a) ==
    RedundantRelay(IncrementSequence(SigVerification(DeductFee(TxTimeoutHeight(CircuitBreaker(a))))))

(* Mutant: redundant packets are not looked for.                            *)
AnteHandlerNoRelay(a) ==
    IncrementSequence(SigVerification(DeductFee(TxTimeoutHeight(CircuitBreaker(CountTX(a))))))

(* Mutant: signatures and sequences are not verified.                       *)
AnteHandlerNoVerification(a) ==
    RedundantRelay(IncrementSequence(DeductFee(TxTimeoutHeight(CircuitBreaker(CountTX(a))))))

(* ChainAnteDecorators: the chain, innermost first.                         *)
AnteHandler(a) ==
    RedundantRelay(IncrementSequence(SigVerification(DeductFee(
        TxTimeoutHeight(CircuitBreaker(CountTX(a)))))))

Ante(state, tx, mode) ==
    AnteHandler([ok |-> TRUE, tx |-> tx, mode |-> mode, s |-> state, counter |-> 0])

-----------------------------------------------------------------------------
(* The messages. *)

(* Mutant: SetCircuitBreaker is not called.                                 *)
RoutedAlways(s) == TRUE

(* The message router asks the circuit breaker too, for nested messages.    *)
Routed(s) == ~s.tripped

(* runMsgs and the empty post handler, on a branch of the state that is     *)
(* dropped when the message fails.                                          *)
RunMsgs(s, tx) ==
    IF tx.msg \in {"send", "exec"} /\ Routed(s) /\ s.bal[tx.signer] > 0
    THEN [s EXCEPT !.bal = [s.bal EXCEPT ![tx.signer] = s.bal[tx.signer] - 1],
                   !.spent = s.spent + 1]
    ELSE [s EXCEPT !.tripped  = s.tripped \/ (tx.msg = "trip" /\ tx.signer = Admin),
                   !.received = s.received \/ tx.msg = "relay"]

-----------------------------------------------------------------------------
(* The mempool and the blocks. *)

(* A transaction that is refused leaves nothing: the check state is         *)
(* branched for it.                                                         *)
CheckTx(tx) ==
    LET a == Ante(check, tx, "check")
    IN  /\ pc # "recheck"
        /\ Len(mempool) < MaxPool
        /\ a.ok
        /\ check' = a.s
        /\ mempool' = Append(mempool, tx)
        /\ UNCHANGED <<committed, final, pc, block, todo, log>>

(* FinalizeBlock begins a block of transactions that may be in the mempool  *)
(* of this node or not.                                                     *)
BeginBlock ==
    /\ pc = "open"
    /\ committed.height < MaxHeight
    /\ pc' = "block"
    /\ block' = <<>>
    /\ final' = [committed EXCEPT !.height = committed.height + 1]
    /\ UNCHANGED <<committed, check, mempool, todo, log>>

(* What the ante chain writes is kept when it gets to its end, even if the  *)
(* message fails, and dropped otherwise.                                    *)
DeliverTx(tx) ==
    LET a == Ante(final, tx, "finalize")
    IN  /\ pc = "block"
        /\ Len(block) < MaxBlock
        /\ block' = Append(block, tx)
        /\ IF a.ok
           THEN /\ final' = RunMsgs(a.s, tx)
                /\ log' = Append(log, [tx |-> tx, height |-> final.height,
                                       counter |-> a.counter])
           ELSE UNCHANGED <<final, log>>
        /\ UNCHANGED <<committed, check, pc, mempool, todo>>

(* The check state starts again from the block.                             *)
Commit ==
    /\ pc = "block"
    /\ committed' = final /\ check' = final
    /\ mempool' = <<>> /\ todo' = mempool
    /\ pc' = IF mempool = <<>> THEN "open" ELSE "recheck"
    /\ UNCHANGED <<final, block, log>>

(* The mempool, locked meanwhile, drops what was in the block, failed or    *)
(* not, and has the rest checked again.                                     *)
RecheckTx ==
    LET tx == Head(todo)
        a  == Ante(check, tx, "recheck")
    IN  /\ pc = "recheck"
        /\ todo' = Tail(todo)
        /\ IF tx \notin Range(block) /\ a.ok
           THEN check' = a.s /\ mempool' = Append(mempool, tx)
           ELSE UNCHANGED <<check, mempool>>
        /\ pc' = IF Tail(todo) = <<>> THEN "open" ELSE "recheck"
        /\ UNCHANGED <<committed, final, block, log>>

(* The bound on the height ends the story.                                  *)
Stopped == pc = "open" /\ committed.height = MaxHeight /\ UNCHANGED vars

Next ==
    \/ \E tx \in Tx : CheckTx(tx) \/ DeliverTx(tx)
    \/ BeginBlock \/ Commit \/ RecheckTx
    \/ Stopped

Spec == Init /\ [][Next]_vars

-----------------------------------------------------------------------------
(* Properties. *)

(* Where the transactions of an account are in a sequence, and the fees of  *)
(* those at some positions.                                                 *)
By(a, q) == {i \in DOMAIN q : q[i].signer = a}
FeesOf(q, S) == SumFunctionOnSet([i \in DOMAIN q |-> q[i].fee], S)
Logged == [i \in DOMAIN log |-> log[i].tx]

(* No transaction is executed twice, nor two with the same sequence of one  *)
(* account, nor one that its account did not sign, whatever transactions    *)
(* proposers repeat or reorder.                                             *)
NotTwice ==
    \A i, j \in DOMAIN log :
        /\ log[i].tx.signed
        /\ i < j /\ log[i].tx.signer = log[j].tx.signer => log[i].tx.seq < log[j].tx.seq

(* What got through the ante chain has paid its fee and used up its         *)
(* sequence, whether its message failed or not; nothing else has, and no    *)
(* coin is lost.                                                            *)
EverybodyPays ==
    pc = "block" =>
        /\ final.fees = FeesOf(Logged, DOMAIN log)
        /\ \A a \in Acct : final.seq[a] = Cardinality(By(a, Logged))
        /\ SumFunctionOnSet(final.bal, Acct) + final.fees + final.spent
               = Cardinality(Acct) * Funds

(* Contracts see the executed transactions of a block numbered 0, 1, 2 and  *)
(* so on: two never share a number, one that fails in the chain takes none. *)
CountersInOrder ==
    \A i \in DOMAIN log :
        log[i].counter = Cardinality({j \in 1 .. i - 1 : log[j].height = log[i].height})

(* Once the circuit breaker is tripped no coins are sent, neither by a      *)
(* message that the chain lets through nor by one inside another.           *)
NothingSentWhenTripped ==
    [][pc = "block" /\ final.tripped => final'.spent = final.spent]_vars

(* A proposer that takes the mempool in its order proposes, for every       *)
(* account, the sequences from the committed one on, and fees that the      *)
(* account can pay: even right after a block that overtook the mempool.     *)
(* None of them had timed out before the last block.                        *)
MempoolInSequence ==
    pc = "open" => \A a \in Acct :
        /\ \A tx \in Range(mempool) : tx.timeout # 0 => tx.timeout >= committed.height
        /\ \A i \in By(a, mempool) :
               mempool[i].seq = committed.seq[a] + Cardinality({j \in By(a, mempool) : j < i})
        /\ FeesOf(mempool, By(a, mempool)) <= committed.bal[a]

(* A mempool has no transaction that relays what the chain has received or  *)
(* what another one in it relays.                                           *)
NoRedundantRelay ==
    LET Relays == {i \in DOMAIN mempool : mempool[i].msg = "relay"}
    IN  pc = "open" => Cardinality(Relays) <= IF committed.received THEN 0 ELSE 1
=============================================================================
