-------------------------- MODULE ZeroHeightExport --------------------------
(***************************************************************************)
(* app/export.go: a chain runs, an operator stops it after a block and      *)
(* exports its state ("vectord export", with or without --for-zero-height), *)
(* and the exported genesis starts a new chain, which can be exported again.*)
(*                                                                          *)
(* The running chain is the environment of the export: the SDK's staking,   *)
(* slashing and distribution modules, which are dependencies.  The export   *)
(* itself is one action per loop iteration or call of                       *)
(* prepForZeroHeightGenesis, in the order of the code.                      *)
(***************************************************************************)
EXTENDS Distribution

CONSTANTS Val,            \* validators, by operator address; the operator of v
                          \* is delegator v: it is the same account
          MaxValidators,  \* staking parameter
          Stake,          \* tokens of one delegation
          Reward,         \* coins allocated to a validator by a block
          Commission,     \* the part of them, in decimal units, it keeps
          MaxHeight,      \* bound on the height of a chain
          MaxOps,         \* bound on the staking transactions of all chains
          MaxGen          \* bound on the number of successive chains

ASSUME ValAssumption == Val \subseteq Nat \cap Del /\ Val # {}
ASSUME AmountAssumption ==
    /\ Stake \in Nat \ {0} /\ Reward \in Nat /\ Commission \in 0 .. Reward * Unit
ASSUME BoundAssumption ==
    /\ MaxValidators \in Nat \ {0}
    /\ MaxHeight \in Nat /\ MaxOps \in Nat /\ MaxGen \in Nat \ {0}
    /\ IsFiniteSet(Del) /\ MaxPeriod > Cardinality(Del)

VARIABLES
    pc,          \* where the chain or the export is
    gen,         \* which chain this is: 1 is the chain of the gentxs
    height,      \* the last block
    ops,         \* staking transactions so far
    staking,     \* the Validator records
    shares,      \* the delegations: shares of each delegator, 0 for none
    jailed,      \* the jailed validators
    bonded,      \* the last validator set
    powerIndex,  \* the validators in the by-power index
    entries,     \* unbonding and redelegation entries, with creation height
    signStart,   \* the StartHeight of the signing infos
    dist,        \* the distribution records of each validator
    pool,        \* the community pool, in decimal units
    bal,         \* coins held by the distribution module account
    ex           \* the export's local variables

chain == <<gen, height, ops, staking, shares, jailed, bonded, powerIndex, entries, signStart>>
vars  == <<pc, gen, height, ops, staking, shares, jailed, bonded, powerIndex, entries,
           signStart, dist, pool, bal, ex>>

ExportStages == {"commission", "rewards", "validators", "delegations",
                 "staking", "apply", "signing"}
Stages == {"genesis", "block", "committed", "exported", "panicked"} \cup ExportStages

Validator == [tokens : Int, shares : Int, unbondingHeight : Nat]
Delegation == Del \X Val
Entry == [del : Del, val : Val, kind : {"ubd", "red"}, at : Nat]
(* What an export is or was: none, at the height, at height zero, or at     *)
(* height zero with a preparation that returned early.                      *)
Modes == {"none", "height", "zero", "partial"}
(* What an export can meet that this module does not model: an invariant of *)
(* another module that does not hold (gov's can fail, see ModuleAccounts),  *)
(* or an address in --jail-allowed-addrs that cannot be parsed.             *)
Faults == {"none", "invariant", "address"}

(* apply: applyAllowedAddrs; allow: the validators of allowedAddrsMap, which*)
(* may be none although a list is given; dels: what is left of a loop over  *)
(* the delegations, read: dels of the code, read once and gone over twice.  *)
ExportLocals == [mode : Modes, apply : BOOLEAN, allow : SUBSET Val, fault : Faults,
                 vals : SUBSET Val, dels : SUBSET Delegation, read : SUBSET Delegation]
NoExport == [mode |-> "none", apply |-> FALSE, allow |-> {}, fault |-> "none",
             vals |-> {}, dels |-> {}, read |-> {}]

TypeOK ==
    /\ pc \in Stages
    /\ gen \in Nat /\ height \in Nat /\ ops \in Nat
    /\ staking \in [Val -> Validator]
    /\ shares \in [Val -> [Del -> Int]]
    /\ jailed \subseteq Val /\ bonded \subseteq Val /\ powerIndex \subseteq Val
    /\ entries \subseteq Entry
    /\ signStart \in [Val -> Nat]
    /\ dist \in [Val -> ValidatorRewards]
    /\ pool \in Int /\ bal \in Int
    /\ ex \in ExportLocals

-----------------------------------------------------------------------------
(* Staking arithmetic. *)

(* TokensFromShares, in decimal units.                                      *)
TokensFromShares(k, s) ==
    IF k.shares <= 0 THEN 0 ELSE (s * k.tokens * Unit) \div k.shares

StakeOf(d, v) == TokensFromShares(staking[v], shares[v][d])

(* Tokens that s shares are worth, in whole tokens, when they are unbonded. *)
TokensOf(k, s) == IF s = k.shares THEN k.tokens ELSE TokensFromShares(k, s) \div Unit

AddTokens(k, amount) ==
    LET issued == IF k.tokens <= 0 THEN amount ELSE (amount * k.shares) \div k.tokens
    IN  [tokens |-> k.tokens + amount, shares |-> k.shares + issued,
         unbondingHeight |-> k.unbondingHeight]

AllDelegations == {x \in Delegation : shares[x[2]][x[1]] # 0}

(* The by-power index lists v after w.                                      *)
Outranks(w, v) == \/ staking[w].tokens > staking[v].tokens
                  \/ staking[w].tokens = staking[v].tokens /\ w < v
Above(v, S) == {w \in S : Outranks(w, v)}

(* What ApplyAndReturnValidatorSetUpdates makes the validator set.          *)
TopValidators ==
    {v \in powerIndex : /\ Cardinality(Above(v, powerIndex)) < MaxValidators
                        /\ staking[v].tokens > 0}

(* The update walks down the index to MaxValidators or to the first         *)
(* validator without power, and panics on a jailed one.                     *)
RetrievesJailed ==
    \E v \in powerIndex :
        /\ v \in jailed
        /\ Cardinality(Above(v, powerIndex)) < MaxValidators
        /\ \A w \in Above(v, powerIndex) : staking[w].tokens > 0

(* The by-address order of the store; the export's last loop walks it       *)
(* backwards.                                                               *)
LowestAddr(S) == CHOOSE v \in S : \A w \in S : v <= w
HighestAddr(S) == CHOOSE v \in S : \A w \in S : v >= w

(* GetAllDelegations returns them in one key order, the same for both loops.*)
FirstDelegation(S) == CHOOSE x \in S : TRUE

(* The distribution module account holds exactly what is outstanding and    *)
(* what is in the community pool.                                           *)
ModuleAccount ==
    bal * Unit = pool + SumFunctionOnSet([v \in Val |-> dist[v].out], Val)

-----------------------------------------------------------------------------
(* The chain. *)

(* Each validator is created by a gentx of its operator, delivered by       *)
(* InitChain in a context of height 0.                                      *)
Init ==
    /\ pc = "genesis" /\ gen = 1 /\ height = 0 /\ ops = 0
    /\ staking = [v \in Val |-> [tokens |-> Stake, shares |-> Stake, unbondingHeight |-> 0]]
    /\ jailed = {}
    /\ shares = [v \in Val |-> [d \in Del |-> IF d = v THEN Stake ELSE 0]]
    /\ powerIndex = Val
    /\ bonded = TopValidators
    /\ entries = {}
    /\ signStart = [v \in Val |-> 0]
    /\ dist = LET created == AfterValidatorCreated(NoRewards)
                  begun   == IncrementValidatorPeriod(created, 0)
              IN  [v \in Val |-> AfterDelegationModified(begun, v, Stake * Unit, 0)]
    /\ pool = 0 /\ bal = 0
    /\ ex = NoExport

Allocate(x) == [x EXCEPT !.cur = @ + Reward * Unit - Commission,
                         !.com = @ + Commission,
                         !.out = @ + Reward * Unit]

(* The bound on periods leaves the export one withdrawal per delegator.     *)
PeriodsLeft(v) == dist[v].period + 1 + Cardinality(Del) <= MaxPeriod

StartBlock(v) ==
    /\ pc \in {"genesis", "committed"}
    /\ height < MaxHeight
    /\ v \in bonded
    /\ pc' = "block"
    /\ height' = height + 1
    /\ bal' = bal + Reward

(* distribution's BeginBlock allocates the fees of the last block.          *)
BeginBlock(v) ==
    /\ StartBlock(v)
    /\ dist' = [dist EXCEPT ![v] = Allocate(@)]
    /\ UNCHANGED <<gen, ops, staking, shares, jailed, bonded, powerIndex, entries,
                   signStart, pool, ex>>

(* slashing and evidence run after distribution and may slash and jail a    *)
(* validator w by half.                                                     *)
BeginBlockSlash(v, w) ==
    LET allocated == [dist EXCEPT ![v] = Allocate(@)]
        before    == staking[w].tokens
        after     == before - before \div 2
    IN  /\ StartBlock(v)
        /\ w \in bonded /\ w \notin jailed /\ before > 0
        /\ PeriodsLeft(w)
        /\ dist' = [allocated EXCEPT
                       ![w] = BeforeValidatorSlashed(@, before, after, height + 1)]
        /\ staking' = [staking EXCEPT ![w].tokens = after]
        /\ jailed' = jailed \cup {w}
        /\ powerIndex' = powerIndex \ {w}
        /\ UNCHANGED <<gen, ops, shares, bonded, entries, signStart, pool, ex>>

(* A staking transaction of d in the current block.                         *)
Transaction(d, v) ==
    /\ pc = "block"
    /\ ops < MaxOps
    /\ ops' = ops + 1
    /\ PeriodsLeft(v)
    /\ shares[v][d] # 0 => ~FinalStakePanics(dist[v], dist[v].info[d], height, StakeOf(d, v))
    /\ UNCHANGED <<pc, gen, height, bonded, signStart, ex>>

PayoutOf(d, v, h) == Payout(dist[v], d, staking[v].tokens, StakeOf(d, v), h)
Settled(d, v, h)  == Settle(dist[v], d, staking[v].tokens, StakeOf(d, v), h)

PaidOut(d, v, h) ==
    /\ bal' = bal - PayoutOf(d, v, h) \div Unit
    /\ pool' = pool + (PayoutOf(d, v, h) % Unit) + Donated(dist[v], staking[v].tokens)

(* MsgWithdrawDelegatorReward.                                              *)
Withdraw(d, v) ==
    /\ Transaction(d, v)
    /\ shares[v][d] # 0
    /\ PaidOut(d, v, height)
    /\ dist' = [dist EXCEPT ![v] =
                   AfterDelegationModified(Settled(d, v, height), d, StakeOf(d, v), height)]
    /\ UNCHANGED <<staking, shares, jailed, powerIndex, entries>>

(* The validator record and the share of d after d delegated amount to v.   *)
Delegated(d, v, amount) ==
    LET k == AddTokens(staking[v], amount)
        s == shares[v][d] + k.shares - staking[v].shares
    IN  [validator |-> k, shares |-> s,
         dist |-> AfterDelegationModified(
                    IF shares[v][d] = 0
                    THEN IncrementValidatorPeriod(dist[v], staking[v].tokens)
                    ELSE Settled(d, v, height),
                    d, TokensFromShares(k, s), height)]

(* MsgDelegate, first delegation or addition to one.                        *)
Delegate(d, v) ==
    LET new == Delegated(d, v, Stake)
    IN  /\ Transaction(d, v)
        /\ staking[v].tokens > 0 /\ new.shares # 0
        /\ IF shares[v][d] = 0
           THEN /\ pool' = pool + Donated(dist[v], staking[v].tokens)
                /\ UNCHANGED bal
           ELSE PaidOut(d, v, height)
        /\ dist' = [dist EXCEPT ![v] = new.dist]
        /\ staking' = [staking EXCEPT ![v] = new.validator]
        /\ shares' = [shares EXCEPT ![v][d] = new.shares]
        /\ UNCHANGED <<jailed, powerIndex, entries>>

(* An operator that takes its own delegation away jails its validator.      *)
Unbonded(d, v) ==
    LET k == staking[v]
        s == shares[v][d]
    IN  [tokens |-> k.tokens - TokensOf(k, s), shares |-> k.shares - s,
         unbondingHeight |-> k.unbondingHeight]
JailSelf(d, v) ==
    /\ jailed' = jailed \cup ({v} \cap {d})
    /\ powerIndex' = powerIndex \ ({v} \cap {d})

(* MsgUndelegate of the whole delegation.  An entry completes after the     *)
(* unbonding time, which no chain here lives to see.                        *)
Undelegate(d, v) ==
    /\ Transaction(d, v)
    /\ shares[v][d] # 0
    /\ PaidOut(d, v, height)
    /\ dist' = [dist EXCEPT ![v] = Settled(d, v, height)]
    /\ staking' = [staking EXCEPT ![v] = Unbonded(d, v)]
    /\ shares' = [shares EXCEPT ![v][d] = 0]
    /\ JailSelf(d, v)
    /\ entries' = entries \cup {[del |-> d, val |-> v, kind |-> "ubd", at |-> height]}

(* MsgBeginRedelegate of the whole delegation to a validator d is new to.   *)
Redelegate(d, v, w) ==
    LET amount == TokensOf(staking[v], shares[v][d])
        new    == Delegated(d, w, amount)
    IN  /\ Transaction(d, v)
        /\ v # w /\ shares[v][d] # 0 /\ amount > 0
        /\ shares[w][d] = 0 /\ staking[w].tokens > 0 /\ new.shares # 0
        /\ PeriodsLeft(w)
        /\ bal' = bal - PayoutOf(d, v, height) \div Unit
        /\ pool' = pool + (PayoutOf(d, v, height) % Unit)
                        + Donated(dist[v], staking[v].tokens)
                       + Donated(dist[w], staking[w].tokens)
        /\ dist' = [dist EXCEPT ![v] = Settled(d, v, height), ![w] = new.dist]
        /\ staking' = [staking EXCEPT ![v] = Unbonded(d, v), ![w] = new.validator]
        /\ shares' = [shares EXCEPT ![v][d] = 0, ![w][d] = new.shares]
        /\ entries' = entries \cup {[del |-> d, val |-> v, kind |-> "red", at |-> height]}
        /\ JailSelf(d, v)

(* MsgUnjail by the operator of v.                                          *)
Unjail(v) ==
    /\ pc = "block" /\ ops < MaxOps
    /\ v \in jailed /\ shares[v][v] # 0
    /\ ops' = ops + 1
    /\ jailed' = jailed \ {v}
    /\ powerIndex' = powerIndex \cup {v}
    /\ UNCHANGED <<pc, gen, height, staking, shares, bonded, entries, signStart, dist,
                   pool, bal, ex>>

(* staking's EndBlock: a validator that leaves the set starts unbonding, one *)
(* that enters it starts a new signing window.                              *)
EndBlock ==
    /\ pc = "block"
    /\ pc' = "committed"
    /\ bonded' = TopValidators
    /\ staking' = [v \in Val |-> IF v \in bonded \ TopValidators
                                 THEN [staking[v] EXCEPT !.unbondingHeight = height]
                                 ELSE staking[v]]
    /\ signStart' = [v \in Val |-> IF v \in TopValidators \ bonded THEN height
                                                              ELSE signStart[v]]
    /\ UNCHANGED <<gen, height, ops, shares, jailed, powerIndex, entries, dist, pool, bal, ex>>

-----------------------------------------------------------------------------
(* The export. *)

(* ExportAppStateAndValidators, up to the distribution loops of             *)
(* prepForZeroHeightGenesis: all registered invariants are asserted, then   *)
(* the addresses of the list are parsed (log.Fatal).  Of distribution's own *)
(* invariants, ReferenceCounts and CanWithdraw hold in every running state. *)
(* An export at the current height prepares nothing and reads no list.      *)
BeginExport(zero, apply, allow, fault) ==
    /\ pc = "committed"
    /\ apply => zero
    /\ allow # {} \/ fault = "address" => apply
    /\ fault = "invariant" => zero
    /\ pc' = IF ~zero THEN "exported"
             ELSE IF ModuleAccount /\ fault = "none" THEN "commission" ELSE "panicked"
    /\ ex' = [mode |-> IF zero THEN "zero" ELSE "height",
              apply |-> apply, allow |-> allow, fault |-> fault,
              vals |-> Val, dels |-> {}, read |-> {}]
    /\ UNCHANGED <<chain, dist, pool, bal>>

(* One validator of a loop over all of them, in the order of their keys;    *)
(* the loop is followed by stage next.                                      *)
NextValidator(v, stage, next) ==
    /\ pc = stage
    /\ v \in ex.vals
    /\ pc' = IF ex.vals = {v} THEN next ELSE stage

(* Withdraw the commission of a validator; an error is ignored: the one     *)
(* that occurs, no commission to withdraw, comes before any change.         *)
WithdrawCommission(v) ==
    LET coins == dist[v].com \div Unit
    IN  /\ NextValidator(v, "commission", "rewards")
        /\ v = LowestAddr(ex.vals)
        /\ dist' = [dist EXCEPT ![v].com = @ - coins * Unit, ![v].out = @ - coins * Unit]
        /\ bal' = bal - coins
        /\ LET dels == IF ex.vals = {v} THEN AllDelegations ELSE {}
           IN  ex' = [ex EXCEPT !.vals = @ \ {v}, !.dels = dels, !.read = dels]
        /\ UNCHANGED <<chain, pool>>

(* Mutant: an operator is taken to be paid with the commission.             *)
WithdrawRewardsNotOfOperator(d, v) ==
    /\ pc = "rewards"
    /\ ex.dels # {} /\ <<d, v>> = FirstDelegation(ex.dels)
    /\ dist[v].period < MaxPeriod
    /\ ~FinalStakePanics(dist[v], dist[v].info[d], 0, StakeOf(d, v))
    /\ IF d = v THEN UNCHANGED <<bal, pool, dist>>
       ELSE /\ PaidOut(d, v, 0)
            /\ dist' = [dist EXCEPT ![v] =
                   AfterDelegationModified(Settled(d, v, 0), d, StakeOf(d, v), 0)]
    /\ ex' = [ex EXCEPT !.dels = @ \ {<<d, v>>}]
    /\ UNCHANGED <<pc, chain>>

(* WithdrawDelegationRewards for one delegation.  The context's height is   *)
(* already 0: the slash events are not walked through, and a delegation     *)
(* that started at height 0 counts as started in this block.                *)
WithdrawRewards(d, v) ==
    /\ pc = "rewards"
    /\ ex.dels # {} /\ <<d, v>> = FirstDelegation(ex.dels)
    /\ dist[v].period < MaxPeriod
    /\ ~FinalStakePanics(dist[v], dist[v].info[d], 0, StakeOf(d, v))
    /\ PaidOut(d, v, 0)
    /\ dist' = [dist EXCEPT ![v] =
                   AfterDelegationModified(Settled(d, v, 0), d, StakeOf(d, v), 0)]
    /\ ex' = [ex EXCEPT !.dels = @ \ {<<d, v>>}]
    /\ UNCHANGED <<pc, chain>>

(* ... or the keeper's stake sanity check takes the process down.           *)
WithdrawRewardsPanics(d, v) ==
    /\ pc = "rewards"
    /\ ex.dels # {} /\ <<d, v>> = FirstDelegation(ex.dels)
    /\ FinalStakePanics(dist[v], dist[v].info[d], 0, StakeOf(d, v))
    /\ pc' = "panicked"
    /\ UNCHANGED <<chain, dist, pool, bal, ex>>

(* Mutant: the historical rewards are not deleted.                          *)
ClearOnlySlashes ==
    /\ pc = "rewards" /\ ex.dels = {}
    /\ pc' = "validators"
    /\ dist' = [v \in Val |-> [dist[v] EXCEPT !.slashes = {}]]
    /\ ex' = [ex EXCEPT !.vals = Val]
    /\ UNCHANGED <<chain, pool, bal>>

(* Delete all slash events and all historical rewards.                      *)
ClearHistory ==
    /\ pc = "rewards" /\ ex.dels = {}
    /\ pc' = "validators"
    /\ dist' = [v \in Val |-> [dist[v] EXCEPT !.slashes = {},
                                              !.ref = [p \in Periods |-> 0]]]
    /\ ex' = [ex EXCEPT !.vals = Val]
    /\ UNCHANGED <<chain, pool, bal>>

(* Mutant: the scraps are dropped instead of donated.                       *)
ReinitValidatorNoScraps(v) ==
    /\ NextValidator(v, "validators", "delegations")
    /\ v = LowestAddr(ex.vals)
    /\ dist' = [dist EXCEPT ![v] = AfterValidatorCreated(@)]
    /\ ex' = [ex EXCEPT !.vals = @ \ {v},
                        !.dels = IF ex.vals = {v} THEN ex.read ELSE {}]
    /\ UNCHANGED <<chain, bal, pool>>

(* Mutant: donating without calling AfterValidatorCreated.                  *)
ReinitValidatorNotCreated(v) ==
    /\ NextValidator(v, "validators", "delegations")
    /\ v = LowestAddr(ex.vals)
    /\ pool' = pool + dist[v].out
    /\ dist' = [dist EXCEPT ![v].out = 0]
    /\ ex' = [ex EXCEPT !.vals = @ \ {v},
                        !.dels = IF ex.vals = {v} THEN ex.read ELSE {}]
    /\ UNCHANGED <<chain, bal>>

(* Mutant: donating without AfterValidatorCreated's reset of the commission.*)
ReinitValidatorKeepCommission(v) ==
    /\ NextValidator(v, "validators", "delegations")
    /\ v = LowestAddr(ex.vals)
    /\ pool' = pool + dist[v].out
    /\ dist' = [dist EXCEPT ![v] = [AfterValidatorCreated(@) EXCEPT !.com = dist[v].com]]
    /\ ex' = [ex EXCEPT !.vals = @ \ {v},
                        !.dels = IF ex.vals = {v} THEN ex.read ELSE {}]
    /\ UNCHANGED <<chain, bal>>

(* Donate what a validator has left to the community pool, create it anew.  *)
ReinitValidator(v) ==
    /\ NextValidator(v, "validators", "delegations")
    /\ v = LowestAddr(ex.vals)
    /\ pool' = pool + dist[v].out
    /\ dist' = [dist EXCEPT ![v] = AfterValidatorCreated(@)]
    /\ ex' = [ex EXCEPT !.vals = @ \ {v},
                        !.dels = IF ex.vals = {v} THEN ex.read ELSE {}]
    /\ UNCHANGED <<chain, bal>>

(* Mutant: AfterDelegationModified without BeforeDelegationCreated.         *)
ReinitDelegationSamePeriod(d, v) ==
    /\ pc = "delegations"
    /\ ex.dels # {} /\ <<d, v>> = FirstDelegation(ex.dels)
    /\ dist' = [dist EXCEPT ![v] = AfterDelegationModified(@, d, StakeOf(d, v), 0)]
    /\ ex' = [ex EXCEPT !.dels = @ \ {<<d, v>>}]
    /\ UNCHANGED <<pc, chain, pool, bal>>

(* Mutant: the stake is taken from the shares, as if never slashed.         *)
ReinitDelegationUnslashed(d, v) ==
    LET begun == IncrementValidatorPeriod(dist[v], staking[v].tokens)
    IN  /\ pc = "delegations"
        /\ ex.dels # {} /\ <<d, v>> = FirstDelegation(ex.dels)
        /\ dist[v].period < MaxPeriod
        /\ pool' = pool + Donated(dist[v], staking[v].tokens)
        /\ dist' = [dist EXCEPT ![v] =
                       AfterDelegationModified(begun, d, shares[v][d] * Unit, 0)]
        /\ ex' = [ex EXCEPT !.dels = @ \ {<<d, v>>}]
        /\ UNCHANGED <<pc, chain, bal>>

(* BeforeDelegationCreated and AfterDelegationModified for one delegation.  *)
ReinitDelegation(d, v) ==
    LET begun == IncrementValidatorPeriod(dist[v], staking[v].tokens)
    IN  /\ pc = "delegations"
        /\ ex.dels # {} /\ <<d, v>> = FirstDelegation(ex.dels)
        /\ dist[v].period < MaxPeriod
        /\ pool' = pool + Donated(dist[v], staking[v].tokens)
        /\ dist' = [dist EXCEPT ![v] = AfterDelegationModified(begun, d, StakeOf(d, v), 0)]
        /\ ex' = [ex EXCEPT !.dels = @ \ {<<d, v>>}]
        /\ UNCHANGED <<pc, chain, bal>>

(* Mutant: the loop over the redelegations is missing.                      *)
ResetUnbondingOnly ==
    /\ pc = "delegations" /\ ex.dels = {}
    /\ pc' = "staking"
    /\ entries' = {IF e.kind = "ubd" THEN [e EXCEPT !.at = 0] ELSE e : e \in entries}
    /\ ex' = [ex EXCEPT !.vals = Val]
    /\ UNCHANGED <<gen, height, ops, staking, shares, jailed, bonded, powerIndex, signStart,
                   dist, pool, bal>>

(* The context gets its height back; the entries get creation height 0.     *)
ResetEntries ==
    /\ pc = "delegations" /\ ex.dels = {}
    /\ pc' = "staking"
    /\ entries' = {[e EXCEPT !.at = 0] : e \in entries}
    /\ ex' = [ex EXCEPT !.vals = Val]
    /\ UNCHANGED <<gen, height, ops, staking, shares, jailed, bonded, powerIndex, signStart,
                   dist, pool, bal>>

(* Mutant: applyAllowedAddrs is not tested: no list jails everybody.        *)
ResetValidatorAlwaysJails(v) ==
    /\ NextValidator(v, "staking", "apply")
    /\ v = HighestAddr(ex.vals)
    /\ staking' = [staking EXCEPT ![v].unbondingHeight = 0]
    /\ jailed' = IF v \in ex.allow THEN jailed ELSE jailed \cup {v}
    /\ ex' = [ex EXCEPT !.vals = @ \ {v}]
    /\ UNCHANGED <<gen, height, ops, shares, bonded, powerIndex, entries, signStart,
                   dist, pool, bal>>

(* SetValidator for one validator, jailed when a list is given and does not *)
(* name it.  SetValidator leaves the by-power index alone.                  *)
ResetValidator(v) ==
    /\ NextValidator(v, "staking", "apply")
    /\ v = HighestAddr(ex.vals)
    /\ staking' = [staking EXCEPT ![v].unbondingHeight = 0]
    /\ jailed' = IF ex.apply /\ v \notin ex.allow THEN jailed \cup {v} ELSE jailed
    /\ ex' = [ex EXCEPT !.vals = @ \ {v}]
    /\ UNCHANGED <<gen, height, ops, shares, bonded, powerIndex, entries, signStart,
                   dist, pool, bal>>

(* The iterator fails to close: the preparation returns, logging the error, *)
(* and the export goes on with what there is.                               *)
CloseIteratorFails ==
    /\ pc = "apply"
    /\ pc' = "exported"
    /\ ex' = [ex EXCEPT !.mode = "partial"]
    /\ UNCHANGED <<chain, dist, pool, bal>>

(* ApplyAndReturnValidatorSetUpdates, in a context with the old height.     *)
ApplyValidatorSetUpdates ==
    /\ pc = "apply"
    /\ ~RetrievesJailed
    /\ pc' = "signing"
    /\ bonded' = TopValidators
    /\ staking' = [v \in Val |-> IF v \in bonded \ TopValidators
                                 THEN [staking[v] EXCEPT !.unbondingHeight = height]
                                 ELSE staking[v]]
    /\ signStart' = [v \in Val |-> IF v \in TopValidators \ bonded THEN height
                                                              ELSE signStart[v]]
    /\ UNCHANGED <<gen, height, ops, shares, jailed, powerIndex, entries, dist, pool, bal, ex>>

ApplyValidatorSetUpdatesPanics ==
    /\ pc = "apply"
    /\ RetrievesJailed
    /\ pc' = "panicked"
    /\ UNCHANGED <<chain, dist, pool, bal, ex>>

(* Reset the signing infos; the module manager then writes the genesis.     *)
ResetSigningInfos ==
    /\ pc = "signing"
    /\ pc' = "exported"
    /\ signStart' = [v \in Val |-> 0]
    /\ UNCHANGED <<gen, height, ops, staking, shares, jailed, bonded, powerIndex, entries,
                   dist, pool, bal, ex>>

(* InitGenesis of a new chain from the exported state: it starts at the     *)
(* height of the export; the index is rebuilt; distribution panics when the *)
(* account does not match the records.                                      *)
Restart ==
    /\ pc = "exported"
    /\ gen < MaxGen
    /\ pc' = IF ModuleAccount THEN "genesis" ELSE "panicked"
    /\ gen' = gen + 1
    /\ height' = IF ex.mode = "height" THEN height ELSE 0
    /\ powerIndex' = Val \ jailed
    /\ ex' = NoExport
    /\ UNCHANGED <<ops, staking, shares, jailed, bonded, entries, signStart, dist, pool, bal>>

(* The program has stopped, or a bound of the model ends the story.         *)
Stopped ==
    /\ \/ pc = "panicked"
       \/ pc = "exported" /\ gen = MaxGen
       \/ pc = "genesis" /\ (height = MaxHeight \/ bonded = {})
    /\ UNCHANGED vars

ChainStep ==
    \/ \E v \in Val : BeginBlock(v) \/ Unjail(v)
    \/ \E v, w \in Val : BeginBlockSlash(v, w)
    \/ \E d \in Del, v \in Val : Withdraw(d, v) \/ Delegate(d, v) \/ Undelegate(d, v)
    \/ \E d \in Del, v, w \in Val : Redelegate(d, v, w)
    \/ EndBlock
    \/ Restart

ExportStep ==
    \/ \E v \in Val : WithdrawCommission(v) \/ ReinitValidator(v) \/ ResetValidator(v)
    \/ \E d \in Del, v \in Val : \/ WithdrawRewards(d, v) \/ WithdrawRewardsPanics(d, v)
                                 \/ ReinitDelegation(d, v)
    \/ ClearHistory \/ ResetEntries \/ CloseIteratorFails \/ ResetSigningInfos
    \/ ApplyValidatorSetUpdates \/ ApplyValidatorSetUpdatesPanics

Next ==
    \/ ChainStep
    \/ \E zero, apply \in BOOLEAN, allow \in SUBSET Val, fault \in Faults :
           BeginExport(zero, apply, allow, fault)
    \/ ExportStep
    \/ Stopped

Spec == Init /\ [][Next]_vars

-----------------------------------------------------------------------------
(* Properties. *)

Running == pc \in {"genesis", "block", "committed"}

(* The distribution records of v are in use: not between the deletion of    *)
(* the historical rewards and the re-creation of v.                         *)
Live(v) == pc = "validators" => v \notin ex.vals

(* The starting info of d at v is backed by a historical record: not while  *)
(* the delegation waits to be initialized again.                            *)
Backed(d, v) ==
    /\ dist[v].info[d] # NoInfo
    /\ pc # "validators"
    /\ pc = "delegations" => <<d, v>> \notin ex.dels

BackedAt(v) == {d \in Del : Backed(d, v)}

(* No past period has two referrers among the delegations and slash events  *)
(* of its validator: every new start and every slash ends a period first.   *)
(* This is what keeps the keeper from its "reference count should never     *)
(* exceed 2" panic, and what the export must rebuild (export.go 156-173).   *)
OneReferrer ==
    \A v \in Val : Live(v) => DistinctReferrers(dist[v], BackedAt(v))

(* The reference counts are exact: no historical record is deleted while    *)
(* something will read it, none is kept for nothing, and no decrement goes  *)
(* below zero (a panic) - in the chain, and at every step in which the      *)
(* export tears the records down and builds them up again.                  *)
ReferenceCounts ==
    \A v \in Val : Live(v) => /\ CountsReferrers(dist[v], BackedAt(v))
                             /\ ReferrersInThePast(dist[v], BackedAt(v))

(* At any time of a running chain, all delegators of a validator and its    *)
(* operator can withdraw all they have accrued from what is outstanding.    *)
(* The export must hand this over to the new chain.                         *)
CanWithdraw ==
    Running => \A v \in Val :
        LET x == IncrementValidatorPeriod(dist[v], staking[v].tokens)
            Delegators == {d \in Del : shares[v][d] # 0}
            accrued == [d \in Delegators |->
                           Accrued(x, x.info[d], height + 1, StakeOf(d, v))]
        IN  x.com + SumFunctionOnSet(accrued, Delegators) <= x.out

(* A withdrawal in the next block of a running chain never fails the stake  *)
(* sanity check, slashes and restarts from an export notwithstanding.       *)
WithdrawalsNeverPanic ==
    Running => \A v \in Val, d \in Del : shares[v][d] # 0 =>
        ~FinalStakePanics(dist[v], dist[v].info[d], height + 1, StakeOf(d, v))

SlashedSinceStart(d, v) ==
    \E e \in dist[v].slashes : e.period > dist[v].info[d].prev

(* A zero-height export dies before it has changed anything, of another     *)
(* module's broken invariant or of an address it cannot parse, or of one of *)
(* two faults of its own: the early height 0 on a delegation that has been  *)
(* slashed, and jailing a validator of the by-power index.  Distribution's  *)
(* invariant stops neither an export nor the chain that starts from it, and *)
(* no withdrawal fails for another reason.                                  *)
PanicsExplained ==
    pc = "panicked" =>
        \/ ex.fault # "none"
        \/ \E x \in AllDelegations : SlashedSinceStart(x[1], x[2])
        \/ ex.apply /\ ~(powerIndex \subseteq ex.allow)

(* "prepare for fresh start at zero height": in the exported state nothing  *)
(* refers to a height of the old chain, nothing is outstanding and every    *)
(* delegation starts anew.  Signing infos keep their heights only when the  *)
(* iterator failed to close.                                                *)
FreshStart ==
    pc = "exported" /\ ex.mode # "height" =>
        /\ \A v \in Val : /\ dist[v].slashes = {}
                          /\ dist[v].out = 0 /\ dist[v].com = 0 /\ dist[v].cur = 0
                          /\ staking[v].unbondingHeight = 0
                          /\ ex.mode = "zero" => signStart[v] = 0
        /\ \A v \in Val, d \in Del :
               IF shares[v][d] = 0 THEN dist[v].info[d] = NoInfo
               ELSE /\ dist[v].info[d].height = 0
                    /\ dist[v].info[d].stake = StakeOf(d, v)
        /\ \A e \in entries : e.at = 0

(* The export withdraws the rewards of a delegation "as if they could       *)
(* withdraw from the start of the next block", when the delegation did not  *)
(* start at height 0 and has seen no slash.                                 *)
PaysAsInNextBlock(d, v) == bal - bal' = PayoutOf(d, v, height + 1) \div Unit

WithdrawnNow(d, v) == pc = "rewards" /\ <<d, v>> \in ex.dels \ ex'.dels

UnslashedPaidInFull ==
    [][\A d \in Del, v \in Val :
          WithdrawnNow(d, v) /\ dist[v].info[d].height # 0 /\ ~SlashedSinceStart(d, v)
              => PaysAsInNextBlock(d, v)]_vars
=============================================================================
