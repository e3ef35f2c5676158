--------------------------- MODULE ModuleAccounts ---------------------------
(***************************************************************************)
(* The coins of the module accounts: their permissions and the addresses    *)
(* that are blocked (app/app.go), the orders in which the modules begin and  *)
(* end blocks and read a genesis, and an export that starts a new chain.    *)
(*                                                                          *)
(* A module keeps records of the coins it holds for others, and at several  *)
(* places panics when its account does not agree with them.  The records    *)
(* are totals: what the bonded validators and the others have, what is      *)
(* unbonding, outstanding, in the community pool, and deposited.  The       *)
(* modules are dependencies; which accounts they may use, who may pay into  *)
(* them and when they are called is decided here.                           *)
(***************************************************************************)
EXTENDS Integers, FiniteSets

CONSTANTS User,                   \* accounts with keys
          Funds,                  \* coins of a user in the first genesis
          Inflation,              \* coins minted in a block
          InvCheckPeriod,         \* --inv-check-period, 0 for never
          SkipGenesisInvariants,  \* --x-crisis-skip-assert-invariants
          MaxHeight,              \* bound on the blocks of all chains
          MaxOps,                 \* bound on the transactions of all chains
          MaxGen                  \* bound on the number of successive chains

ModuleAcc == {"fee_collector", "distribution", "mint", "bonded_tokens_pool",
              "not_bonded_tokens_pool", "gov"}

(* "escrow" stands for the IBC channels' accounts, which are no module      *)
(* accounts.                                                                *)
Acct == User \cup ModuleAcc \cup {"escrow"}

ASSUME UserAssumption ==
    /\ User # {} /\ IsFiniteSet(User)
    /\ User \cap (ModuleAcc \cup {"escrow"}) = {}
ASSUME AmountAssumption ==
    Funds \in Nat \ {0} /\ Inflation \in Nat /\ InvCheckPeriod \in Nat
ASSUME BoundAssumption ==
    /\ SkipGenesisInvariants \in BOOLEAN
    /\ MaxHeight \in Nat /\ MaxOps \in Nat /\ MaxGen \in Nat

VARIABLES
    pc,      \* "genesis", "block", "committed", "exported"; "refused" when a
             \* genesis makes a module panic, "panicked" when a block or an
             \* invariant does, "aborted" when an export dies further on
    gen,     \* which chain this is
    height,  \* the last block
    ops,     \* transactions so far
    s,       \* the coins and the records
    spent    \* history: coins that proposals have sent from gov's account

vars == <<pc, gen, height, ops, s, spent>>

Records == [ok : BOOLEAN,        \* no module has panicked
            bal : [Acct -> Nat],
            gentxs : BOOLEAN,    \* the genesis has gentxs
            bonded : Nat, notBonded : Nat, unbonding : Nat,
            outstanding : Nat, pool : Nat, deposits : Nat]

TypeOK ==
    /\ pc \in {"genesis", "block", "committed", "exported", "refused", "panicked",
              "aborted"}
    /\ gen \in Nat /\ height \in Nat /\ ops \in Nat /\ spent \in Nat
    /\ s \in Records

Init ==
    /\ pc = "genesis" /\ gen = 1 /\ height = 0 /\ ops = 0 /\ spent = 0
    /\ s = [ok |-> TRUE, gentxs |-> TRUE,
            bal |-> [a \in Acct |-> IF a \in User THEN Funds ELSE 0],
            bonded |-> 0, notBonded |-> 0, unbonding |-> 0,
            outstanding |-> 0, pool |-> 0, deposits |-> 0]

-----------------------------------------------------------------------------
(* Accounts. *)

(* Mutant: gov may not burn.                                                *)
maccPermsNoGovBurner ==
    [m \in ModuleAcc |->
        CASE m = "mint"                                            -> {"minter"}
          [] m \in {"bonded_tokens_pool", "not_bonded_tokens_pool"} -> {"burner", "staking"}
          [] OTHER                                                 -> {}]

(* maccPerms: what each module may do with its account.                     *)
maccPerms ==
    [m \in ModuleAcc |->
        CASE m = "mint"                                            -> {"minter"}
          [] m \in {"bonded_tokens_pool", "not_bonded_tokens_pool"} -> {"burner", "staking"}
          [] m = "gov"                                             -> {"burner"}
          [] OTHER                                                 -> {}]

(* Mutant: only accounts with permissions are blocked.                      *)
BlockedAddressesWithPerms == {m \in DOMAIN maccPerms : maccPerms[m] # {}} \ {"gov"}

(* BlockedAddresses: every module account but gov's, which may receive.     *)
BlockedAddresses == DOMAIN maccPerms \ {"gov"}

(* A module panics.                                                         *)
Require(x, condition) == [x EXCEPT !.ok = x.ok /\ condition]

Pays(x, a, n) == x.bal[a] >= n

SendCoins(x, from, to, n) ==
    LET paid == [x.bal EXCEPT ![from] = @ - n]
    IN  [x EXCEPT !.bal = [paid EXCEPT ![to] = @ + n]]

MintCoins(x, m, n) ==
    [Require(x, "minter" \in maccPerms[m]) EXCEPT !.bal[m] = @ + n]

(* A module burns what its account has, or else panics.                     *)
BurnCoins(x, m, n) ==
    IF Pays(x, m, n)
    THEN [Require(x, "burner" \in maccPerms[m]) EXCEPT !.bal[m] = @ - n]
    ELSE Require(x, FALSE)

DelegateCoins(x, u, m, n) == SendCoins(Require(x, "staking" \in maccPerms[m]), u, m, n)

UndelegateCoins(x, m, u, n) ==
    SendCoins(Require(x, "staking" \in maccPerms[m] /\ Pays(x, m, n)), m, u, n)

PoolsMatch(x) ==
    /\ x.bal["bonded_tokens_pool"] = x.bonded
    /\ x.bal["not_bonded_tokens_pool"] = x.notBonded + x.unbonding

DistributionMatches(x) == x.bal["distribution"] = x.outstanding + x.pool

(* The crisis invariants about module accounts.  Only gov's account may     *)
(* have more than its records say.                                          *)
Invariants(x) ==
    PoolsMatch(x) /\ DistributionMatches(x) /\ x.bal["gov"] >= x.deposits

-----------------------------------------------------------------------------
(* The modules' handlers, and the orders in which the module manager calls  *)
(* them (innermost first).                                                  *)

MintBeginBlock(x) ==
    SendCoins(MintCoins(x, "mint", Inflation), "mint", "fee_collector", Inflation)

(* The fees and the inflation are allocated; half stands for the community  *)
(* tax.                                                                     *)
DistrBeginBlock(x, h) ==
    LET fees == x.bal["fee_collector"]
    IN  IF h <= 1 THEN x
        ELSE [SendCoins(x, "fee_collector", "distribution", fees) EXCEPT
                 !.outstanding = @ + fees - fees \div 2, !.pool = @ + fees \div 2]

(* What the bonded validators and the unbonding delegations are slashed by. *)
SlashingBeginBlock(x, b, e) ==
    LET burnt == BurnCoins(BurnCoins(x, "bonded_tokens_pool", b),
                           "not_bonded_tokens_pool", e)
    IN  [burnt EXCEPT !.bonded = @ - b, !.unbonding = @ - e]

(* Mutant: the fees are allocated before the inflation is minted.           *)
BeginBlockerDistrFirst(x, h, b, e) ==
    SlashingBeginBlock(MintBeginBlock(DistrBeginBlock(x, h)), b, e)

BeginBlocker(x, h, b, e) ==
    SlashingBeginBlock(DistrBeginBlock(MintBeginBlock(x), h), b, e)

CrisisEndBlock(x, h) ==
    IF InvCheckPeriod = 0 \/ h % InvCheckPeriod # 0 THEN x ELSE Require(x, Invariants(x))

(* Deposits of d are burned, or refunded to u.  When gov's account cannot   *)
(* pay, this is logged and the deposits stay.                               *)
DeleteAndBurnDeposits(x, d) ==
    IF Pays(x, "gov", d)
    THEN [BurnCoins(x, "gov", d) EXCEPT !.deposits = @ - d] ELSE x

RefundAndDeleteDeposits(x, d, u) ==
    IF Pays(x, "gov", d)
    THEN [SendCoins(x, "gov", u, d) EXCEPT !.deposits = @ - d] ELSE x

(* Mutant: the balance is not looked at.                                    *)
SendsFromGovUnchecked(x, msg, r) == msg = "send" /\ r \notin BlockedAddresses

(* The message of a proposal that passed, executed as gov: a                *)
(* MsgCommunityPoolSpend or a MsgSend of one coin to r.  A proposal whose   *)
(* message fails changes nothing.                                           *)
SendsFromGov(x, msg, r) == msg = "send" /\ r \notin BlockedAddresses /\ Pays(x, "gov", 1)

ExecuteProposal(x, msg, r) ==
    IF msg = "spend" /\ r \notin BlockedAddresses /\ x.pool >= 1
    THEN [SendCoins(x, "distribution", r, 1) EXCEPT !.pool = @ - 1]
    ELSE IF SendsFromGov(x, msg, r) THEN SendCoins(x, "gov", r, 1) ELSE x

(* How a proposal may end: with which deposits, whose, and a message.       *)
Ending == [outcome : {"none", "burn", "refund"}, deposit : 0 .. s.deposits, by : User,
           msg : {"none"}, to : {"gov"}]
          \cup [outcome : {"passed"}, deposit : 0 .. s.deposits, by : User,
                msg : {"spend", "send"}, to : Acct]

GovEndBlock(x, g) ==
    CASE g.outcome = "none"   -> x
      [] g.outcome = "burn"   -> DeleteAndBurnDeposits(x, g.deposit)
      [] g.outcome = "refund" -> RefundAndDeleteDeposits(x, g.deposit, g.by)
      [] g.outcome = "passed" ->
            ExecuteProposal(RefundAndDeleteDeposits(x, g.deposit, g.by), g.msg, g.to)

(* Validators with n tokens leave or enter the set, or n tokens of u are    *)
(* unbonded.                                                                *)
StakingEndBlock(x, change, n, u) ==
    CASE change = "leave"  -> [SendCoins(x, "bonded_tokens_pool", "not_bonded_tokens_pool", n)
                                  EXCEPT !.bonded = @ - n, !.notBonded = @ + n]
      [] change = "enter"  -> [SendCoins(x, "not_bonded_tokens_pool", "bonded_tokens_pool", n)
                                  EXCEPT !.bonded = @ + n, !.notBonded = @ - n]
      [] change = "mature" -> [UndelegateCoins(x, "not_bonded_tokens_pool", u, n)
                                  EXCEPT !.unbonding = @ - n]

Changeable(x, change) ==
    CASE change = "leave" -> x.bonded [] change = "enter" -> x.notBonded
      [] change = "mature" -> x.unbonding

EndBlocker(x, h, g, change, n, u) ==
    StakingEndBlock(GovEndBlock(CrisisEndBlock(x, h), g), change, n, u)

(* Each gentx creates a validator with one coin of a user, which is bonded  *)
(* by the update that follows.                                              *)
GenutilInitGenesis(x) ==
    LET n == Cardinality(User)
        created == [Require(x, "staking" \in maccPerms["not_bonded_tokens_pool"]) EXCEPT
                       !.bal = [a \in Acct |->
                           IF a \in User THEN x.bal[a] - 1
                           ELSE IF a = "not_bonded_tokens_pool" THEN x.bal[a] + n
                           ELSE x.bal[a]],
                       !.notBonded = @ + n]
    IN  IF x.gentxs
        THEN [StakingEndBlock(created, "enter", n, CHOOSE u \in User : TRUE) EXCEPT
                 !.gentxs = FALSE]
        ELSE x

(* Mutant: genutil before staking.                                          *)
InitGenesisGenutilFirst(x) ==
    LET genutil == GenutilInitGenesis(x)
        distr   == Require(genutil, DistributionMatches(x))
        staking == Require(distr, x.bal["bonded_tokens_pool"] = genutil.bonded)
    IN  Require(staking, staking.bonded > 0)

(* The genesis of each module in genesisModuleOrder that has one about      *)
(* coins: distribution, staking, gov, crisis, genutil.  The manager wants   *)
(* a validator in the end.                                                  *)
InitGenesis(x) ==
    LET distr   == Require(x, DistributionMatches(x))
        staking == Require(distr, PoolsMatch(x))
        gov     == Require(staking, x.bal["gov"] = x.deposits)
        crisis  == Require(gov, SkipGenesisInvariants \/ Invariants(x))
        genutil == GenutilInitGenesis(crisis)
    IN  Require(genutil, genutil.bonded > 0)

-----------------------------------------------------------------------------
(* The chain. *)

(* Of a step in which a module panics nothing is written.                   *)
Step(x, next, otherwise) ==
    /\ s' = IF x.ok THEN x ELSE [s EXCEPT !.ok = FALSE]
    /\ pc' = IF x.ok THEN next ELSE otherwise

(* InitChainer.                                                             *)
InitChain ==
    /\ pc = "genesis" \/ (pc = "exported" /\ gen < MaxGen)
    /\ gen' = IF pc = "exported" THEN gen + 1 ELSE gen
    /\ Step(InitGenesis(s), "committed", "refused")
    /\ UNCHANGED <<height, ops, spent>>

BeginBlock(b, e) ==
    /\ pc = "committed"
    /\ height < MaxHeight
    /\ s.bonded > 0
    /\ b <= s.bonded /\ e <= s.unbonding
    /\ height' = height + 1
    /\ Step(BeginBlocker(s, height + 1, b, e), "block", "panicked")
    /\ UNCHANGED <<gen, ops, spent>>

EndBlock(g, change, n, u) ==
    /\ pc = "block"
    /\ n <= Changeable(s, change)
    /\ Step(EndBlocker(s, height, g, change, n, u), "committed", "panicked")
    /\ spent' = IF g.outcome = "passed"
                   /\ SendsFromGov(RefundAndDeleteDeposits(s, g.deposit, g.by), g.msg, g.to)
                THEN spent + 1 ELSE spent
    /\ UNCHANGED <<gen, height, ops>>

(* A transaction of one coin of a, which leaves x.                          *)
Transaction(a, x) ==
    /\ pc = "block" /\ ops < MaxOps
    /\ ops' = ops + 1
    /\ Pays(s, a, 1)
    /\ s' = x
    /\ UNCHANGED <<pc, gen, height, spent>>

(* The fee of a transaction whose message fails.                            *)
PayFee(u) == Transaction(u, SendCoins(s, u, "fee_collector", 1))

(* MsgSend, and what comes back through IBC: not to a blocked address.      *)
Send(a, to) ==
    /\ to \notin BlockedAddresses
    /\ Transaction(a, SendCoins(s, a, to, 1))

(* MsgFundCommunityPool, and tokenfactory's fee for a new denomination.     *)
FundCommunityPool(u) ==
    Transaction(u, [SendCoins(s, u, "distribution", 1) EXCEPT !.pool = @ + 1])

(* Rewards go to the delegator's withdraw address, which is not blocked.    *)
WithdrawRewards(to) ==
    /\ to \notin BlockedAddresses
    /\ s.outstanding > 0
    /\ Transaction("distribution",
                   [SendCoins(s, "distribution", to, 1) EXCEPT !.outstanding = @ - 1])

Deposit(u) == Transaction(u, [SendCoins(s, u, "gov", 1) EXCEPT !.deposits = @ + 1])

(* MsgDelegate to a bonded validator, or to one that is not.                *)
Delegate(u) ==
    \/ Transaction(u, [DelegateCoins(s, u, "bonded_tokens_pool", 1) EXCEPT !.bonded = @ + 1])
    \/ Transaction(u, [DelegateCoins(s, u, "not_bonded_tokens_pool", 1) EXCEPT
                          !.notBonded = @ + 1])

(* MsgUndelegate from a bonded validator, or from one that is not.          *)
Undelegate ==
    \/ /\ s.bonded > 0
       /\ Transaction("bonded_tokens_pool",
              [SendCoins(s, "bonded_tokens_pool", "not_bonded_tokens_pool", 1) EXCEPT
                  !.bonded = @ - 1, !.unbonding = @ + 1])
    \/ /\ s.notBonded > 0
       /\ Transaction("not_bonded_tokens_pool",
              [s EXCEPT !.notBonded = @ - 1, !.unbonding = @ + 1])

(* The withdrawals of prepForZeroHeightGenesis: w coins to an account that   *)
(* stands for all the withdraw addresses, which are not blocked; the rest is *)
(* donated to the community pool.                                           *)
WithdrawAll(x, w, to) ==
    [SendCoins(x, "distribution", to, w) EXCEPT
        !.outstanding = 0, !.pool = @ + x.outstanding - w]

(* ExportAppStateAndValidators.  The preparation for height zero asserts    *)
(* the invariants and withdraws all rewards.                                *)
Export(zero, w, to) ==
    /\ pc = "committed"
    /\ IF zero
       THEN /\ w <= s.outstanding /\ to \notin BlockedAddresses
            /\ Step(WithdrawAll(Require(s, Invariants(s)), w, to), "exported", "panicked")
            /\ height' = 0
       ELSE /\ w = 0
            /\ Step(s, "exported", "panicked")
            /\ UNCHANGED height
    /\ UNCHANGED <<gen, ops, spent>>

(* An export that passes the assertion may die of an address that cannot be *)
(* parsed, in the withdrawals of a slashed delegation, or in the update of  *)
(* the validator set; ZeroHeightExport says when.  Nothing is written.      *)
ExportAborts ==
    /\ pc = "committed"
    /\ Invariants(s)
    /\ pc' = "aborted"
    /\ s' = [s EXCEPT !.ok = FALSE]
    /\ UNCHANGED <<gen, height, ops, spent>>

(* A panic, or a bound of the model, ends the story.                        *)
Stopped ==
    /\ \/ pc \in {"panicked", "refused", "aborted"}
       \/ pc = "exported" /\ gen = MaxGen
    /\ UNCHANGED vars

Next ==
    \/ InitChain
    \/ \E b \in 0 .. s.bonded, e \in 0 .. s.unbonding : BeginBlock(b, e)
    \/ \E g \in Ending, change \in {"leave", "enter", "mature"}, u \in User :
          \E n \in 0 .. Changeable(s, change) : EndBlock(g, change, n, u)
    \/ \E u \in User : PayFee(u) \/ FundCommunityPool(u) \/ Deposit(u) \/ Delegate(u)
    \/ \E a \in User \cup {"escrow"}, to \in Acct : Send(a, to)
    \/ \E to \in Acct : WithdrawRewards(to)
    \/ Undelegate
    \/ \E zero \in BOOLEAN, w \in 0 .. s.outstanding, to \in Acct : Export(zero, w, to)
    \/ ExportAborts
    \/ Stopped

Spec == Init /\ [][Next]_vars

-----------------------------------------------------------------------------
(* Properties. *)

(* Whatever users, proposals, slashes and exports do, the pools and the     *)
(* distribution account hold exactly what their modules' records say, and   *)
(* gov's account falls short of the deposits only by what proposals have    *)
(* sent from it.                                                            *)
InvariantsHold ==
    /\ PoolsMatch(s) /\ DistributionMatches(s)
    /\ s.bal["gov"] + spent >= s.deposits

(* No module ever lacks a permission or is short of coins it must pay, and  *)
(* no account but gov's fails an invariant: blocks, and the assertion at    *)
(* the beginning of an export, die only after proposals have sent deposits  *)
(* away, and a genesis only when gov's account differs from the deposits or *)
(* nobody is bonded.  The faults of the rest of an export ("aborted") are   *)
(* not about coins: PanicsExplained of ZeroHeightExport names them.         *)
PanicsExplained ==
    /\ pc = "panicked" => s.bal["gov"] < s.deposits
    /\ pc = "refused" => s.bal["gov"] # s.deposits \/ (s.bonded = 0 /\ ~s.gentxs)

(* What is minted, and the fees of the block before, are allocated at the   *)
(* start of each block but the first: nothing waits in mint's account or in *)
(* the fee collector.                                                       *)
AllAllocated ==
    [][height' > height /\ height' > 1 /\ pc' = "block" =>
          s'.bal["mint"] = 0 /\ s'.bal["fee_collector"] = 0]_vars
=============================================================================
