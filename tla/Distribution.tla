---------------------------- MODULE Distribution ----------------------------
(***************************************************************************)
(* The bookkeeping of the Cosmos SDK's distribution keeper (F1 fee          *)
(* distribution), of one denomination, as app/export.go drives it through   *)
(* app.DistrKeeper and its staking hooks.  The keeper is a dependency: its  *)
(* code is not part of this repository.                                     *)
(*                                                                          *)
(* Everything the keeper stores about one validator is one record x:        *)
(*   period   the current period;  cur  the rewards collected in it         *)
(*   cum      the cumulative reward ratio at the end of each past period    *)
(*   ref      the reference count of each past period's record, 0 when the  *)
(*            record is deleted                                             *)
(*   slashes  the slash events;  out, com  outstanding rewards, commission  *)
(*   info     the starting info of each delegator, NoInfo when there is none *)
(* Amounts are decimals: integers in units of 1/Unit of a coin.             *)
(***************************************************************************)
EXTENDS Integers, FiniteSets, SequencesExt

CONSTANTS Del,        \* delegators
          Unit,       \* decimal units per coin
          MaxPeriod   \* bound on a validator's period counter

ASSUME UnitAssumption == Unit \in Nat \ {0}
ASSUME MaxPeriodAssumption == MaxPeriod \in Nat \ {0}

Periods == 0 .. MaxPeriod

(* "No starting info": no delegation starts at period -1.                   *)
NoInfo == [prev |-> -1, stake |-> 0, height |-> -1]

StartingInfo == [prev : Int, stake : Int, height : Int]
SlashEvent == [height : Nat, period : Nat, before : Nat, after : Int]

ValidatorRewards ==
    [period : Nat \ {0}, cur : Int, out : Int, com : Int,
     cum : [Periods -> Int], ref : [Periods -> Nat],
     slashes : SUBSET SlashEvent, info : [Del -> StartingInfo]]

NoRewards ==
    [period |-> 1, cur |-> 0, out |-> 0, com |-> 0,
     cum |-> [p \in Periods |-> 0], ref |-> [p \in Periods |-> 0],
     slashes |-> {}, info |-> [d \in Del |-> NoInfo]]

(* A deleted record reads as the zero record.                               *)
Cum(x, p) == IF x.ref[p] = 0 THEN 0 ELSE x.cum[p]

(* AfterValidatorCreated: initializeValidator.                              *)
AfterValidatorCreated(x) ==
    [x EXCEPT !.cum = [x.cum EXCEPT ![0] = 0], !.ref = [x.ref EXCEPT ![0] = 1],
              !.period = 1, !.cur = 0, !.com = 0, !.out = 0]

(* What IncrementValidatorPeriod gives to the community pool: the rewards   *)
(* of a validator with no tokens, which nobody could ever claim.            *)
Donated(x, tokens) == IF tokens = 0 THEN x.cur ELSE 0

(* IncrementValidatorPeriod: end the current period and open the next.      *)
IncrementValidatorPeriod(x, tokens) ==
    LET ratio == IF tokens > 0 THEN x.cur \div tokens ELSE 0
    IN  [x EXCEPT !.cum = [x.cum EXCEPT ![x.period] = Cum(x, x.period - 1) + ratio],
                  !.ref = [x.ref EXCEPT ![x.period - 1] = x.ref[x.period - 1] - 1,
                                        ![x.period] = 1],
                  !.out = x.out - Donated(x, tokens),
                  !.cur = 0,
                  !.period = x.period + 1]

(* The rewards of stake from the end of period p to the end of period q.    *)
Between(x, p, q, stake) == ((Cum(x, q) - Cum(x, p)) * stake) \div Unit

(* CalculateDelegationRewards, first half: walk through the slash events a  *)
(* delegation has lived through by the context's height h, the earliest     *)
(* first.  No event is visited unless h is above the starting height.       *)
SeenSlashes(x, i, h) ==
    {e \in x.slashes : h > i.height /\ e.height \in i.height .. h /\ e.period > i.prev}

LatestSlash(E) == CHOOSE e \in E : \A f \in E : f.period <= e.period

WalkThrough(x, i, E) ==
    LET Step(e, a) == [rewards |-> a.rewards + Between(x, a.prev, e.period, a.stake),
                       stake   |-> (a.stake * e.after) \div e.before,
                       prev    |-> e.period]
    IN  MapThenFoldSet(Step, [rewards |-> 0, stake |-> i.stake, prev |-> i.prev],
                       LAMBDA e : e, LatestSlash, E)

ThroughSlashes(x, i, h) == WalkThrough(x, i, SeenSlashes(x, i, h))

(* The keeper tolerates three of its smallest units of rounding.            *)
MarginOfErr == 3

(* The stake sanity check: "calculated final stake for delegator greater    *)
(* than current stake" is a panic.                                          *)
FinalStakePanics(x, i, h, current) ==
    /\ i.height # h
    /\ ThroughSlashes(x, i, h).stake > current + MarginOfErr

(* CalculateDelegationRewards, for a period that has just been ended: a     *)
(* delegation that started at height h has no rewards yet.                  *)
Accrued(x, i, h, current) ==
    LET s     == ThroughSlashes(x, i, h)
        stake == IF s.stake > current THEN current ELSE s.stake
    IN  IF i.height = h THEN 0
        ELSE s.rewards + Between(x, s.prev, x.period - 1, stake)

(* Rounding may leave less than that outstanding: the rest is forgone.      *)
Due(x, i, h, current) ==
    LET raw == Accrued(x, i, h, current)
    IN  IF raw \in 0 .. x.out THEN raw ELSE x.out

(* What withdrawing d's rewards pays out of x, before truncation to coins.  *)
Payout(x, d, tokens, current, h) ==
    Due(IncrementValidatorPeriod(x, tokens), x.info[d], h, current)

(* decrementReferenceCount, incrementReferenceCount.                        *)
Release(x, p) == [x.ref EXCEPT ![p] = x.ref[p] - 1]
Retain(x, p)  == [x.ref EXCEPT ![p] = x.ref[p] + 1]

(* withdrawDelegationRewards: pay, release the starting period, forget the  *)
(* starting info.                                                           *)
Settle(x, d, tokens, current, h) ==
    LET y == IncrementValidatorPeriod(x, tokens)
    IN  [y EXCEPT !.out = y.out - Due(y, x.info[d], h, current),
                  !.ref = Release(y, x.info[d].prev),
                  !.info = [x.info EXCEPT ![d] = NoInfo]]

(* AfterDelegationModified: initializeDelegation.                           *)
AfterDelegationModified(x, d, stake, h) ==
    [x EXCEPT !.ref = Retain(x, x.period - 1),
              !.info = [x.info EXCEPT ![d] =
                          [prev |-> x.period - 1, stake |-> stake, height |-> h]]]

(* BeforeValidatorSlashed: updateValidatorSlashFraction.                    *)
BeforeValidatorSlashed(x, before, after, h) ==
    LET y == IncrementValidatorPeriod(x, before)
    IN  [y EXCEPT !.ref = Retain(y, x.period),
                  !.slashes = x.slashes \cup {[height |-> h, period |-> x.period,
                                       before |-> before, after |-> after]}]

-----------------------------------------------------------------------------
(* What it means for the records x of a validator to be consistent, when B  *)
(* are the delegators whose starting infos count.                           *)

Refers(x, d, p)   == x.info[d].prev = p
SlashRefers(x, p) == \E e \in x.slashes : e.period = p

(* The reference count of a period's record is the number of its referrers: *)
(* delegations, slash events, and the current period, which follows it.     *)
CountsReferrers(x, B) ==
    \A p \in Periods :
        x.ref[p] = (IF \E d \in B : Refers(x, d, p) THEN 1 ELSE 0)
                 + (IF SlashRefers(x, p) THEN 1 ELSE 0)
                 + (IF p = x.period - 1 THEN 1 ELSE 0)

(* No past period has two referrers among delegations and slash events.     *)
DistinctReferrers(x, B) ==
    /\ \A c, d \in B : x.info[c].prev = x.info[d].prev => c = d
    /\ \A d \in B, e \in x.slashes : e.period # x.info[d].prev
    /\ \A e, f \in x.slashes : e.period = f.period => e = f

(* Everything that is referred to is a period that has ended.               *)
ReferrersInThePast(x, B) ==
    /\ x.period <= MaxPeriod
    /\ \A d \in B : x.info[d].prev \in 0 .. x.period - 1
    /\ \A e \in x.slashes : e.period \in 0 .. x.period - 1
=============================================================================
