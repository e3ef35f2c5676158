---------------------- MODULE ZeroHeightExport_proofs -----------------------
(***************************************************************************)
(* What holds of every chain and of every export, whatever the validators,  *)
(* the delegators, the amounts and the bounds:                              *)
(*   the reference counts of the distribution records are exact,            *)
(*   the distribution account holds what the records add up to,             *)
(*   an export for height zero leaves a fresh start,                        *)
(*   no withdrawal of a running chain fails the stake sanity check, and     *)
(*   an export panics for two reasons only,                                 *)
(*   who has not been slashed is paid in full, and                          *)
(*   all delegators and the operator of a validator can withdraw at once.   *)
(* First come the operations of the distribution keeper on the records of   *)
(* one validator, then the steps of the chain and of the export.            *)
(***************************************************************************)
EXTENDS ZeroHeightExport, SumTheorems

-----------------------------------------------------------------------------
(* What the operations of the distribution keeper preserve: consistency of  *)
(* a validator's records.                                                   *)

(* The records x are consistent when the delegators in B count.             *)
Good(x, B) == /\ CountsReferrers(x, B)
              /\ DistinctReferrers(x, B)
              /\ ReferrersInThePast(x, B)

(* The last ended period of x is not yet referred to.                       *)
Fresh(x, B) == /\ \A d \in B : x.info[d].prev # x.period - 1
               /\ \A e \in x.slashes : e.period # x.period - 1

(* Ending a period keeps the records consistent, changes neither the        *)
(* starting infos nor the slash events, and leaves a period nothing refers  *)
(* to (IncrementValidatorPeriod).                                           *)
LEMMA IncrementGood ==
    ASSUME NEW x \in ValidatorRewards, NEW B \in SUBSET Del, NEW tokens \in Int,
           Good(x, B), x.period < MaxPeriod
    PROVE  LET y == IncrementValidatorPeriod(x, tokens)
           IN  /\ y \in ValidatorRewards
               /\ y.period = x.period + 1
               /\ y.info = x.info /\ y.slashes = x.slashes
               /\ Good(y, B) /\ Fresh(y, B)
<1> DEFINE y == IncrementValidatorPeriod(x, tokens)
           P == x.period
<1>1. P \in Periods /\ P - 1 \in Periods /\ P \in Nat \ {0}
  BY MaxPeriodAssumption DEF ValidatorRewards, Periods
<1>2. /\ y.period = P + 1 /\ y.info = x.info /\ y.slashes = x.slashes
      /\ y.ref = [x.ref EXCEPT ![P - 1] = @ - 1, ![P] = 1]
      /\ y.com = x.com /\ y.cur = 0
  BY DEF IncrementValidatorPeriod, ValidatorRewards
<1>3. x.ref \in [Periods -> Nat] /\ x.info \in [Del -> StartingInfo]
  BY DEF ValidatorRewards
<1>4. \A p \in Periods : y.ref[p] = IF p = P THEN 1
                                    ELSE IF p = P - 1 THEN x.ref[p] - 1 ELSE x.ref[p]
  BY <1>1, <1>2, <1>3
<1>5. \A d \in B : x.info[d].prev \in 0 .. P - 1
  BY DEF Good, ReferrersInThePast
<1>6. \A e \in x.slashes : e.period \in 0 .. P - 1
  BY DEF Good, ReferrersInThePast
<1>7. ~(\E d \in B : Refers(x, d, P)) /\ ~SlashRefers(x, P)
  BY <1>1, <1>5, <1>6 DEF Refers, SlashRefers
<1>8. CountsReferrers(y, B)
  <2> SUFFICES ASSUME NEW p \in Periods
               PROVE  y.ref[p] = (IF \E d \in B : Refers(x, d, p) THEN 1 ELSE 0)
                               + (IF SlashRefers(x, p) THEN 1 ELSE 0)
                               + (IF p = P THEN 1 ELSE 0)
    BY <1>1, <1>2 DEF CountsReferrers, Refers, SlashRefers
  <2>1. x.ref[p] = (IF \E d \in B : Refers(x, d, p) THEN 1 ELSE 0)
                 + (IF SlashRefers(x, p) THEN 1 ELSE 0)
                 + (IF p = P - 1 THEN 1 ELSE 0)
    BY DEF Good, CountsReferrers
  <2>. HIDE DEF P, y
  <2>2. CASE p = P
    BY <2>2, <1>1, <1>4, <1>7
  <2>3. CASE p # P
    BY <2>1, <2>3, <1>1, <1>3, <1>4
  <2>. QED  BY <2>2, <2>3
<1>9. DistinctReferrers(y, B)
  BY <1>2 DEF Good, DistinctReferrers
<1>10. ReferrersInThePast(y, B)
  BY <1>1, <1>2, <1>5, <1>6, MaxPeriodAssumption DEF ReferrersInThePast, Periods
<1>11. Fresh(y, B)
  BY <1>1, <1>2, <1>5, <1>6 DEF Fresh
<1>12. y \in ValidatorRewards
  <2>1. x.ref[P - 1] >= 1
    BY <1>1, <1>3 DEF Good, CountsReferrers
  <2>2. y.ref \in [Periods -> Nat]
    BY <2>1, <1>1, <1>2, <1>3
  <2>3. Cum(x, P - 1) \in Int /\ x.cur \in Int /\ x.out \in Int
    BY <1>1 DEF Cum, ValidatorRewards
  <2>4. tokens > 0 => x.cur \div tokens \in Int
    BY <2>3
  <2>5. y.cum \in [Periods -> Int] /\ y.out \in Int
    BY <2>3, <2>4, <1>1 DEF IncrementValidatorPeriod, Donated, ValidatorRewards
  <2>6. y = [x EXCEPT !.cum = y.cum, !.ref = y.ref, !.out = y.out, !.cur = y.cur,
                      !.period = y.period]
    BY DEF IncrementValidatorPeriod, ValidatorRewards
  <2>7. y.cur \in Int /\ y.period \in Nat \ {0}
    BY <1>1, <1>2
  <2>. HIDE DEF y
  <2>. QED  BY <2>2, <2>5, <2>6, <2>7 DEF ValidatorRewards
<1>. QED  BY <1>2, <1>8, <1>9, <1>10, <1>11, <1>12 DEF Good

(* Re-created records are consistent, with no delegator, when the history   *)
(* has been deleted before (AfterValidatorCreated).                         *)
LEMMA CreatedGood ==
    ASSUME NEW x \in ValidatorRewards, x.slashes = {},
           \A p \in Periods : x.ref[p] = 0
    PROVE  LET y == AfterValidatorCreated(x)
           IN  /\ y \in ValidatorRewards
               /\ y.period = 1 /\ y.info = x.info /\ y.slashes = {}
               /\ Good(y, {})
<1> DEFINE y == AfterValidatorCreated(x)
<1>1. 0 \in Periods /\ x.ref \in [Periods -> Nat] /\ x.cum \in [Periods -> Int]
  BY MaxPeriodAssumption DEF ValidatorRewards, Periods
<1>2. /\ y.period = 1 /\ y.info = x.info /\ y.slashes = {}
      /\ y.ref = [x.ref EXCEPT ![0] = 1] /\ y.cum = [x.cum EXCEPT ![0] = 0]
      /\ y.cur = 0 /\ y.com = 0 /\ y.out = 0
  BY DEF AfterValidatorCreated, ValidatorRewards
<1>3. y.ref \in [Periods -> Nat] /\ y.cum \in [Periods -> Int]
  BY <1>1, <1>2
<1>4. y \in ValidatorRewards
  <2>1. y = [x EXCEPT !.cum = y.cum, !.ref = y.ref, !.period = y.period,
                      !.cur = y.cur, !.com = y.com, !.out = y.out]
    BY DEF AfterValidatorCreated, ValidatorRewards
  <2>. HIDE DEF y
  <2>. QED  BY <1>2, <1>3, <2>1 DEF ValidatorRewards
<1>5. Good(y, {})
  BY <1>1, <1>2, MaxPeriodAssumption
     DEF Good, CountsReferrers, DistinctReferrers, ReferrersInThePast, SlashRefers
<1>. QED  BY <1>2, <1>4, <1>5

(* Withdrawing d's rewards takes d off the referrers and leaves a fresh     *)
(* period, whatever is paid (withdrawDelegationRewards).                    *)
LEMMA SettleGood ==
    ASSUME NEW x \in ValidatorRewards, NEW B \in SUBSET Del, NEW d \in B,
           NEW tokens \in Int, NEW current, NEW h,
           Good(x, B), x.period < MaxPeriod,
           NEW z, z = Settle(x, d, tokens, current, h), NEW C, C = B \ {d}
    PROVE  /\ z \in ValidatorRewards
           /\ z.period = x.period + 1 /\ z.slashes = x.slashes
           /\ z.info = [x.info EXCEPT ![d] = NoInfo]
           /\ Good(z, C) /\ Fresh(z, C)
<1> DEFINE y == IncrementValidatorPeriod(x, tokens)
           q == x.info[d].prev
<1>1. /\ y \in ValidatorRewards /\ y.period = x.period + 1
      /\ y.info = x.info /\ y.slashes = x.slashes
      /\ Good(y, B) /\ Fresh(y, B)
  BY IncrementGood
<1>2. /\ y.ref \in [Periods -> Nat] /\ y.info \in [Del -> StartingInfo] /\ d \in Del
      /\ y.out \in Int /\ y.period \in Nat
  BY <1>1 DEF ValidatorRewards
<1>3. /\ z.period = y.period /\ z.slashes = y.slashes /\ z.cum = y.cum
      /\ z.ref = [y.ref EXCEPT ![q] = y.ref[q] - 1]
      /\ z.info = [y.info EXCEPT ![d] = NoInfo]
      /\ z.out = y.out - Due(y, x.info[d], h, current)
      /\ z = [y EXCEPT !.out = z.out, !.ref = z.ref, !.info = z.info]
  <2>. HIDE DEF y
  <2>. QED  BY <1>1 DEF Settle, Release, ValidatorRewards, y
<1>. HIDE DEF y
<1>4. q \in Periods /\ q # y.period - 1 /\ q = y.info[d].prev
  <2>1. y.period <= MaxPeriod /\ q \in 0 .. y.period - 1 /\ q # y.period - 1
    BY <1>1 DEF Good, Fresh, ReferrersInThePast
  <2>. QED  BY <1>1, <1>2, <2>1, MaxPeriodAssumption DEF Periods
<1>. HIDE DEF q
<1>5. z.out \in Int
  BY <1>2, <1>3 DEF Due
<1>6. y.ref[q] = 1
  BY <1>1, <1>4 DEF Good, CountsReferrers, DistinctReferrers, Refers, SlashRefers
<1>7. NoInfo \in StartingInfo
  BY DEF NoInfo, StartingInfo
<1>8. z.ref \in [Periods -> Nat] /\ z.info \in [Del -> StartingInfo]
  BY <1>2, <1>3, <1>4, <1>6, <1>7
<1>9. z \in ValidatorRewards
  BY <1>1, <1>3, <1>5, <1>8 DEF ValidatorRewards
<1>10. \A c \in B \ {d} : z.info[c] = y.info[c]
  BY <1>2, <1>3
<1>11. CountsReferrers(z, B \ {d})
  <2>. SUFFICES ASSUME NEW p \in Periods
                PROVE  z.ref[p] = (IF \E c \in B \ {d} : Refers(z, c, p) THEN 1 ELSE 0)
                                + (IF SlashRefers(z, p) THEN 1 ELSE 0)
                                + (IF p = z.period - 1 THEN 1 ELSE 0)
    BY DEF CountsReferrers
  <2>1. y.ref[p] = (IF \E c \in B : Refers(y, c, p) THEN 1 ELSE 0)
                 + (IF SlashRefers(y, p) THEN 1 ELSE 0)
                 + (IF p = y.period - 1 THEN 1 ELSE 0)
    BY <1>1 DEF Good, CountsReferrers
  <2>2. SlashRefers(z, p) <=> SlashRefers(y, p)
    BY <1>3 DEF SlashRefers
  <2>3. CASE p = q
    <3>1. ~\E c \in B \ {d} : Refers(z, c, p)
      BY <2>3, <1>1, <1>4, <1>10 DEF Good, DistinctReferrers, Refers
    <3>2. ~SlashRefers(y, p)
      BY <2>3, <1>1, <1>4 DEF Good, DistinctReferrers, SlashRefers
    <3>3. z.ref[p] = 0
      BY <2>3, <1>2, <1>3, <1>4, <1>6
    <3>4. p # z.period - 1
      BY <2>3, <1>3, <1>4
    <3>. QED  BY <2>2, <3>1, <3>2, <3>3, <3>4
  <2>4. CASE p # q
    <3>1. (\E c \in B \ {d} : Refers(z, c, p)) <=> (\E c \in B : Refers(y, c, p))
      BY <2>4, <1>4, <1>10 DEF Refers
    <3>2. z.ref[p] = y.ref[p]
      BY <2>4, <1>2, <1>3
    <3>. QED  BY <2>1, <2>2, <3>1, <3>2, <1>3
  <2>. QED  BY <2>3, <2>4
<1>12. DistinctReferrers(z, B \ {d})
  BY <1>1, <1>3, <1>10 DEF Good, DistinctReferrers
<1>13. ReferrersInThePast(z, B \ {d})
  BY <1>1, <1>3, <1>10 DEF Good, ReferrersInThePast
<1>14. Fresh(z, B \ {d})
  BY <1>1, <1>3, <1>10 DEF Fresh
<1>15. z.info = [x.info EXCEPT ![d] = NoInfo] /\ z.slashes = x.slashes
  BY <1>1, <1>3
<1>. QED  BY <1>1, <1>3, <1>9, <1>11, <1>12, <1>13, <1>14, <1>15 DEF Good

(* A delegation that starts at a fresh period becomes a referrer of it      *)
(* (initializeDelegation).                                                  *)
LEMMA StartGood ==
    ASSUME NEW x \in ValidatorRewards, NEW B \in SUBSET Del, NEW d \in Del \ B,
           NEW stake \in Int, NEW h \in Int, Good(x, B), Fresh(x, B),
           NEW z, z = AfterDelegationModified(x, d, stake, h), NEW C, C = B \cup {d},
           NEW i, i = [prev |-> x.period - 1, stake |-> stake, height |-> h]
    PROVE  /\ z \in ValidatorRewards
           /\ z.period = x.period /\ z.slashes = x.slashes
           /\ z.info = [x.info EXCEPT ![d] = i]
           /\ Good(z, C)
<1> DEFINE q == x.period - 1
<1>1. /\ x.ref \in [Periods -> Nat] /\ x.info \in [Del -> StartingInfo]
      /\ x.period \in Nat \ {0}
  BY DEF ValidatorRewards
<1>2. /\ z.period = x.period /\ z.slashes = x.slashes
      /\ z.ref = [x.ref EXCEPT ![q] = x.ref[q] + 1]
      /\ z.info = [x.info EXCEPT ![d] = i]
      /\ z = [x EXCEPT !.ref = z.ref, !.info = z.info]
  BY DEF AfterDelegationModified, Retain, ValidatorRewards
<1>3. q \in Periods /\ q \in Nat /\ i \in StartingInfo /\ i.prev = q
  <2>1. x.period <= MaxPeriod
    BY DEF Good, ReferrersInThePast
  <2>2. q \in Periods /\ q \in Nat
    BY <1>1, <2>1, MaxPeriodAssumption DEF Periods
  <2>. QED  BY <2>2 DEF StartingInfo
<1>4. z.ref \in [Periods -> Nat] /\ z.info \in [Del -> StartingInfo]
  BY <1>1, <1>2, <1>3
<1>5. z \in ValidatorRewards
  BY <1>2, <1>4 DEF ValidatorRewards
<1>6. z.info[d] = i /\ \A c \in B : z.info[c] = x.info[c]
  BY <1>1, <1>2
<1>7. CountsReferrers(z, B \cup {d})
  <2>. SUFFICES ASSUME NEW p \in Periods
                PROVE  z.ref[p] = (IF \E c \in B \cup {d} : Refers(z, c, p) THEN 1 ELSE 0)
                                + (IF SlashRefers(z, p) THEN 1 ELSE 0)
                                + (IF p = z.period - 1 THEN 1 ELSE 0)
    BY DEF CountsReferrers
  <2>1. x.ref[p] = (IF \E c \in B : Refers(x, c, p) THEN 1 ELSE 0)
                 + (IF SlashRefers(x, p) THEN 1 ELSE 0)
                 + (IF p = x.period - 1 THEN 1 ELSE 0)
    BY DEF Good, CountsReferrers
  <2>2. SlashRefers(z, p) <=> SlashRefers(x, p)
    BY <1>2 DEF SlashRefers
  <2>3. CASE p = q
    <3>1. /\ ~\E c \in B : Refers(x, c, p)
          /\ ~SlashRefers(x, p)
          /\ \E c \in B \cup {d} : Refers(z, c, p)
      BY <2>3, <1>3, <1>6 DEF Fresh, Refers, SlashRefers
    <3>2. z.ref[p] = x.ref[p] + 1
      BY <2>3, <1>1, <1>2, <1>3
    <3>. QED  BY <2>1, <2>2, <2>3, <3>1, <3>2, <1>2
  <2>4. CASE p # q
    <3>1. (\E c \in B \cup {d} : Refers(z, c, p)) <=> (\E c \in B : Refers(x, c, p))
      BY <2>4, <1>3, <1>6 DEF Refers
    <3>2. z.ref[p] = x.ref[p]
      BY <2>4, <1>1, <1>2
    <3>. QED  BY <2>1, <2>2, <3>1, <3>2, <1>2
  <2>. QED  BY <2>3, <2>4
<1>8. DistinctReferrers(z, B \cup {d})
  BY <1>2, <1>3, <1>6 DEF Good, Fresh, DistinctReferrers
<1>9. ReferrersInThePast(z, B \cup {d})
  BY <1>1, <1>2, <1>3, <1>6 DEF Good, ReferrersInThePast
<1>. QED  BY <1>2, <1>5, <1>7, <1>8, <1>9 DEF Good

(* End the period and start, when B count already: BeforeDelegationCreated  *)
(* and AfterDelegationModified.                                             *)
LEMMA NewStartGood ==
    ASSUME NEW x \in ValidatorRewards, NEW B \in SUBSET Del, NEW d \in Del \ B,
           NEW tokens \in Int, NEW stake \in Int, NEW h \in Int,
           Good(x, B), x.period < MaxPeriod, NEW C, C = B \cup {d},
           NEW z, z = AfterDelegationModified(IncrementValidatorPeriod(x, tokens), d, stake, h)
    PROVE  /\ z \in ValidatorRewards /\ Good(z, C)
           /\ z.info[d] # NoInfo /\ \A c \in Del \ {d} : z.info[c] = x.info[c]
<1> DEFINE y == IncrementValidatorPeriod(x, tokens)
           i == [prev |-> y.period - 1, stake |-> stake, height |-> h]
<1>1. y \in ValidatorRewards /\ y.info = x.info /\ Good(y, B) /\ Fresh(y, B)
  BY IncrementGood
<1>2. /\ z = AfterDelegationModified(y, d, stake, h)
      /\ i = [prev |-> y.period - 1, stake |-> stake, height |-> h]
  OBVIOUS
<1>3. y.period \in Nat \ {0}
  BY <1>1 DEF ValidatorRewards
<1>. HIDE DEF y
<1>4. i # NoInfo
  BY <1>3 DEF NoInfo
<1>. HIDE DEF i
<1>5. z \in ValidatorRewards /\ z.info = [y.info EXCEPT ![d] = i] /\ Good(z, C)
  BY <1>1, <1>2, StartGood
<1>. QED  BY <1>1, <1>4, <1>5 DEF ValidatorRewards

(* A slash ends a period and its event becomes the referrer of it           *)
(* (updateValidatorSlashFraction).                                          *)
LEMMA SlashGood ==
    ASSUME NEW x \in ValidatorRewards, NEW B \in SUBSET Del,
           NEW before \in Nat, NEW after \in Int, NEW h \in Nat,
           Good(x, B), x.period < MaxPeriod
    PROVE  LET z == BeforeValidatorSlashed(x, before, after, h)
           IN  /\ z \in ValidatorRewards /\ z.info = x.info /\ Good(z, B)
<1> DEFINE y == IncrementValidatorPeriod(x, before)
           z == BeforeValidatorSlashed(x, before, after, h)
           q == x.period
           e == [height |-> h, period |-> q, before |-> before, after |-> after]
<1>1. /\ y \in ValidatorRewards /\ y.period = q + 1
      /\ y.info = x.info /\ y.slashes = x.slashes
      /\ Good(y, B) /\ Fresh(y, B)
  BY IncrementGood
<1>2. /\ y.ref \in [Periods -> Nat] /\ q \in Periods /\ q = y.period - 1
      /\ q \in Nat /\ y.slashes \subseteq SlashEvent
  <2>1. q \in Nat
    BY DEF ValidatorRewards
  <2>2. y.ref \in [Periods -> Nat] /\ y.slashes \subseteq SlashEvent
    BY <1>1 DEF ValidatorRewards
  <2>3. q < MaxPeriod
    OBVIOUS
  <2>. HIDE DEF y, q
  <2>4. q \in Periods /\ q = y.period - 1
    BY <1>1, <2>1, <2>3, MaxPeriodAssumption DEF Periods
  <2>. QED  BY <2>1, <2>2, <2>4
<1>3. /\ z.period = y.period /\ z.info = y.info
      /\ z.ref = [y.ref EXCEPT ![q] = y.ref[q] + 1]
      /\ z.slashes = y.slashes \cup {e}
      /\ z = [y EXCEPT !.ref = z.ref, !.slashes = z.slashes]
  <2>. HIDE DEF y
  <2>. QED  BY <1>1 DEF BeforeValidatorSlashed, Retain, ValidatorRewards, y
<1>4. e \in SlashEvent /\ e.period = q
  BY <1>2 DEF SlashEvent
<1>. HIDE DEF y, z, q, e
<1>5. z \in ValidatorRewards
  <2>1. z.ref \in [Periods -> Nat] /\ z.slashes \subseteq SlashEvent
    BY <1>2, <1>3, <1>4
  <2>. QED  BY <1>1, <1>3, <2>1 DEF ValidatorRewards
<1>6. CountsReferrers(z, B)
  <2>. SUFFICES ASSUME NEW p \in Periods
                PROVE  z.ref[p] = (IF \E c \in B : Refers(z, c, p) THEN 1 ELSE 0)
                                + (IF SlashRefers(z, p) THEN 1 ELSE 0)
                                + (IF p = z.period - 1 THEN 1 ELSE 0)
    BY DEF CountsReferrers
  <2>1. y.ref[p] = (IF \E c \in B : Refers(y, c, p) THEN 1 ELSE 0)
                 + (IF SlashRefers(y, p) THEN 1 ELSE 0)
                 + (IF p = y.period - 1 THEN 1 ELSE 0)
    BY <1>1 DEF Good, CountsReferrers
  <2>2. (\E c \in B : Refers(z, c, p)) <=> (\E c \in B : Refers(y, c, p))
    BY <1>3 DEF Refers
  <2>3. CASE p = q
    <3>1. ~SlashRefers(y, p) /\ SlashRefers(z, p)
      BY <2>3, <1>1, <1>2, <1>3, <1>4 DEF Fresh, SlashRefers
    <3>2. z.ref[p] = y.ref[p] + 1
      BY <2>3, <1>2, <1>3
    <3>. QED  BY <2>1, <2>2, <3>1, <3>2, <1>3
  <2>4. CASE p # q
    <3>1. SlashRefers(y, p) <=> SlashRefers(z, p)
      BY <2>4, <1>3, <1>4 DEF SlashRefers
    <3>2. z.ref[p] = y.ref[p]
      BY <2>4, <1>2, <1>3
    <3>. QED  BY <2>1, <2>2, <3>1, <3>2, <1>3
  <2>. QED  BY <2>3, <2>4
<1>7. DistinctReferrers(z, B)
  BY <1>1, <1>2, <1>3, <1>4 DEF Good, Fresh, DistinctReferrers
<1>8. ReferrersInThePast(z, B)
  <2>1. ReferrersInThePast(y, B)
    BY <1>1 DEF Good
  <2>2. \A f \in z.slashes : f.period \in 0 .. z.period - 1
    <3>. SUFFICES ASSUME NEW f \in z.slashes PROVE f.period \in 0 .. y.period - 1
      BY <1>3
    <3>1. CASE f \in y.slashes
      BY <2>1, <3>1 DEF ReferrersInThePast
    <3>2. CASE f = e
      BY <1>2, <1>4, <3>2
    <3>. QED  BY <1>3, <3>1, <3>2
  <2>. QED  BY <1>3, <2>1, <2>2 DEF ReferrersInThePast
<1>. QED  BY <1>1, <1>3, <1>5, <1>6, <1>7, <1>8 DEF Good, z

-----------------------------------------------------------------------------
(* The records of a validator between two operations of the chain: all who  *)
(* have a starting info count.                                              *)
Started(x) == {d \in Del : x.info[d] # NoInfo}

WellFormed(x) == x \in ValidatorRewards /\ Good(x, Started(x))

(* Amounts do not matter to consistency.                                    *)
LEMMA AmountsWellFormed ==
    ASSUME NEW x, WellFormed(x), NEW z \in ValidatorRewards,
           z.info = x.info, z.period = x.period, z.slashes = x.slashes, z.ref = x.ref
    PROVE  WellFormed(z)
<1>1. Started(z) = Started(x)
  BY DEF Started
<1>2. Good(z, Started(x))
  BY DEF WellFormed, Good, CountsReferrers, DistinctReferrers, ReferrersInThePast,
         Refers, SlashRefers
<1>. QED  BY <1>1, <1>2 DEF WellFormed

(* A delegation that is settled for good leaves well-formed records.        *)
LEMMA SettleWellFormed ==
    ASSUME NEW x, WellFormed(x), NEW d \in Started(x), NEW tokens \in Int,
           NEW current, NEW h, x.period < MaxPeriod,
           NEW z, z = Settle(x, d, tokens, current, h)
    PROVE  /\ WellFormed(z) /\ Fresh(z, Started(z))
           /\ Started(z) = Started(x) \ {d}
           /\ z.period = x.period + 1
<1> DEFINE C == Started(x) \ {d}
<1>1. Started(x) \in SUBSET Del /\ x \in ValidatorRewards /\ Good(x, Started(x))
  BY DEF Started, WellFormed
<1>2. /\ z \in ValidatorRewards /\ z.info = [x.info EXCEPT ![d] = NoInfo]
      /\ z.period = x.period + 1
      /\ Good(z, C) /\ Fresh(z, C)
  <2>. HIDE DEF C
  <2>. QED  BY <1>1, SettleGood DEF C
<1>3. Started(z) = Started(x) \ {d}
  BY <1>1, <1>2 DEF Started, ValidatorRewards
<1>. QED  BY <1>2, <1>3 DEF WellFormed

(* A delegation that starts after its period was ended leaves them so too.  *)
LEMMA StartWellFormed ==
    ASSUME NEW x, WellFormed(x), Fresh(x, Started(x)), NEW d \in Del \ Started(x),
           NEW stake \in Int, NEW h \in Int,
           NEW z, z = AfterDelegationModified(x, d, stake, h)
    PROVE  /\ WellFormed(z) /\ z.period = x.period
           /\ Started(z) = Started(x) \cup {d}
<1> DEFINE C == Started(x) \cup {d}
           i == [prev |-> x.period - 1, stake |-> stake, height |-> h]
<1>1. Started(x) \in SUBSET Del /\ x \in ValidatorRewards /\ Good(x, Started(x))
  BY DEF Started, WellFormed
<1>2. /\ z \in ValidatorRewards /\ z.info = [x.info EXCEPT ![d] = i]
      /\ z.period = x.period /\ Good(z, C)
  <2>1. /\ C = Started(x) \cup {d}
        /\ i = [prev |-> x.period - 1, stake |-> stake, height |-> h]
    OBVIOUS
  <2>. HIDE DEF C, i
  <2>. QED  BY <1>1, <2>1, StartGood
<1>3. i # NoInfo
  BY <1>1 DEF NoInfo, ValidatorRewards
<1>. HIDE DEF i
<1>4. Started(z) = Started(x) \cup {d}
  BY <1>1, <1>2, <1>3 DEF Started, ValidatorRewards
<1>. QED  BY <1>2, <1>4 DEF WellFormed

(* Withdraw and start again: MsgWithdrawDelegatorReward.                    *)
LEMMA RestartWellFormed ==
    ASSUME NEW x, WellFormed(x), NEW d \in Started(x), NEW tokens \in Int,
           NEW current, NEW h, NEW stake \in Int, NEW k \in Int, x.period < MaxPeriod,
           NEW z, z = AfterDelegationModified(Settle(x, d, tokens, current, h), d, stake, k)
    PROVE  WellFormed(z) /\ Started(z) = Started(x) /\ z.period = x.period + 1
<1> DEFINE y == Settle(x, d, tokens, current, h)
<1>1. /\ WellFormed(y) /\ Fresh(y, Started(y)) /\ Started(y) = Started(x) \ {d}
      /\ y.period = x.period + 1
  <2>. HIDE DEF y
  <2>. QED  BY SettleWellFormed DEF y
<1>2. d \in Del \ Started(y) /\ Started(x) = Started(y) \cup {d}
  BY <1>1 DEF Started
<1>3. z = AfterDelegationModified(y, d, stake, k)
  OBVIOUS
<1>. HIDE DEF y
<1>. QED  BY <1>1, <1>2, <1>3, StartWellFormed

(* End the period and start: a new delegation.                              *)
LEMMA NewStartWellFormed ==
    ASSUME NEW x, WellFormed(x), NEW d \in Del \ Started(x), NEW tokens \in Int,
           NEW stake \in Int, NEW k \in Int, x.period < MaxPeriod,
           NEW z, z = AfterDelegationModified(IncrementValidatorPeriod(x, tokens),
                                              d, stake, k)
    PROVE  /\ WellFormed(z) /\ Started(z) = Started(x) \cup {d}
           /\ z.period = x.period + 1
<1> DEFINE y == IncrementValidatorPeriod(x, tokens)
<1>1. Started(x) \in SUBSET Del /\ x \in ValidatorRewards /\ Good(x, Started(x))
  BY DEF Started, WellFormed
<1>2. /\ y \in ValidatorRewards /\ y.info = x.info /\ y.period = x.period + 1
      /\ Good(y, Started(x)) /\ Fresh(y, Started(x))
  BY <1>1, IncrementGood
<1>3. z = AfterDelegationModified(y, d, stake, k)
  OBVIOUS
<1>. HIDE DEF y
<1>4. Started(y) = Started(x)
  BY <1>2 DEF Started
<1>5. WellFormed(y) /\ Fresh(y, Started(y)) /\ d \in Del \ Started(y)
  BY <1>2, <1>4 DEF WellFormed
<1>. QED  BY <1>2, <1>3, <1>4, <1>5, StartWellFormed

(* A slash keeps them well formed.                                          *)
LEMMA SlashWellFormed ==
    ASSUME NEW x, WellFormed(x), NEW before \in Nat, NEW after \in Int, NEW h \in Nat,
           x.period < MaxPeriod, NEW z, z = BeforeValidatorSlashed(x, before, after, h)
    PROVE  WellFormed(z) /\ z.info = x.info
<1>1. Started(x) \in SUBSET Del /\ x \in ValidatorRewards /\ Good(x, Started(x))
  BY DEF Started, WellFormed
<1>2. z \in ValidatorRewards /\ z.info = x.info /\ Good(z, Started(x))
  BY <1>1, SlashGood
<1>3. Started(z) = Started(x)
  BY <1>2 DEF Started
<1>. QED  BY <1>2, <1>3 DEF WellFormed

-----------------------------------------------------------------------------
(* The walk through the slash events of a delegation.  It is a fold over a  *)
(* set, latest event first, of which the provers know nothing: here are its *)
(* two equations.                                                           *)

Walked(x, e, a) ==
    [rewards |-> a.rewards + Between(x, a.prev, e.period, a.stake),
     stake   |-> (a.stake * e.after) \div e.before,
     prev    |-> e.period]

LEMMA WalkedStake ==
    ASSUME NEW x, NEW e, NEW a
    PROVE  Walked(x, e, a).stake = (a.stake * e.after) \div e.before
BY DEF Walked

Unwalked(i) == [rewards |-> 0, stake |-> i.stake, prev |-> i.prev]

IsWalk(g, x, i, S) ==
    g = [s \in SUBSET S |-> IF s = {} THEN Unwalked(i)
                            ELSE Walked(x, LatestSlash(s), g[s \ {LatestSlash(s)}])]

Dated(S) == IsFiniteSet(S) /\ \A e \in S : e.period \in Nat

LEMMA LatestIn ==
    ASSUME NEW S, Dated(S), S # {}
    PROVE  LatestSlash(S) \in S /\ \A f \in S : f.period <= LatestSlash(S).period
<1>. DEFINE Right == {s \in SUBSET S : s # {} => \E e \in s : \A f \in s : f.period <= e.period}
<1>1. ASSUME NEW s \in SUBSET S, \A r \in SUBSET s : r # s => r \in Right
      PROVE  s \in Right
  <2>. SUFFICES ASSUME s # {} PROVE \E e \in s : \A f \in s : f.period <= e.period
    OBVIOUS
  <2>1. PICK c \in s : TRUE
    OBVIOUS
  <2>2. s \ {c} \in Right /\ \A f \in s : f.period \in Nat
    BY <1>1, <2>1 DEF Dated
  <2>3. CASE s \ {c} = {}
    BY <2>1, <2>2, <2>3
  <2>4. CASE s \ {c} # {}
    <3>1. PICK e \in s \ {c} : \A f \in s \ {c} : f.period <= e.period
      BY <2>2, <2>4
    <3>2. CASE e.period <= c.period
      <4>1. \A f \in s : f.period <= c.period
        BY <2>1, <2>2, <3>1, <3>2
      <4>. QED  BY <2>1, <4>1
    <3>3. CASE ~(e.period <= c.period)
      <4>1. \A f \in s : f.period <= e.period
        BY <2>1, <2>2, <3>1, <3>3
      <4>. QED  BY <3>1, <4>1
    <3>. QED  BY <3>2, <3>3
  <2>. QED  BY <2>3, <2>4
<1>2. \A s \in SUBSET S : s \in Right
  <2>. HIDE DEF Right
  <2>. QED  BY <1>1, SubsetInduction DEF Dated
<1>3. \E e \in S : \A f \in S : f.period <= e.period
  BY <1>2
<1>. QED  BY <1>3 DEF LatestSlash

LEMMA DatedSubset ==
    ASSUME NEW S, Dated(S), NEW s \in SUBSET S
    PROVE  Dated(s)
BY FS_Subset DEF Dated

LEMMA WalksAgree ==
    ASSUME NEW S, Dated(S), NEW T, NEW x, NEW i, NEW g, NEW h,
           IsWalk(g, x, i, S), IsWalk(h, x, i, T)
    PROVE  \A s \in SUBSET (S \cap T) : g[s] = h[s]
<1>. DEFINE Right == {s \in SUBSET (S \cap T) : g[s] = h[s]}
<1>1. IsFiniteSet(S \cap T)
  BY FS_Subset DEF Dated
<1>2. ASSUME NEW s \in SUBSET (S \cap T), \A r \in SUBSET s : r # s => r \in Right
      PROVE  s \in Right
  <2>1. CASE s = {}
    BY <2>1 DEF IsWalk
  <2>2. CASE s # {}
    <3>1. LatestSlash(s) \in s
      BY <2>2, DatedSubset, LatestIn
    <3>2. s \ {LatestSlash(s)} \in Right
      BY <1>2, <3>1
    <3>3. /\ g[s] = Walked(x, LatestSlash(s), g[s \ {LatestSlash(s)}])
          /\ h[s] = Walked(x, LatestSlash(s), h[s \ {LatestSlash(s)}])
      BY <2>2 DEF IsWalk
    <3>. QED  BY <3>2, <3>3
  <2>. QED  BY <2>1, <2>2
<1>3. \A s \in SUBSET (S \cap T) : s \in Right
  <2>. HIDE DEF Right
  <2>. QED  BY <1>1, <1>2, SubsetInduction
<1>. QED  BY <1>3

LEMMA WalkExists ==
    ASSUME NEW S, Dated(S), NEW x, NEW i
    PROVE  \E g : IsWalk(g, x, i, S)
<1>. DEFINE Right == {s \in SUBSET S : \E g : IsWalk(g, x, i, s)}
            H(r) == CHOOSE g : IsWalk(g, x, i, r)
<1>1. ASSUME NEW s \in SUBSET S, \A r \in SUBSET s : r # s => r \in Right
      PROVE  s \in Right
  <2>. DEFINE last(r) == LatestSlash(r)
              g == [r \in SUBSET s |->
                       IF r # s THEN H(r)[r]
                       ELSE IF s = {} THEN Unwalked(i)
                       ELSE Walked(x, last(s), H(s \ {last(s)})[s \ {last(s)}])]
  <2>1. ASSUME NEW r \in SUBSET s, r # s PROVE IsWalk(H(r), x, i, r) /\ Dated(r)
    BY <1>1, <2>1, DatedSubset
  <2>. HIDE DEF H
  <2>2. ASSUME NEW r \in SUBSET s
        PROVE  g[r] = IF r = {} THEN Unwalked(i) ELSE Walked(x, last(r), g[r \ {last(r)}])
    <3>1. CASE r = {} /\ r # s
      BY <2>1, <3>1 DEF IsWalk
    <3>2. CASE r = {} /\ r = s
      BY <3>2
    <3>3. CASE r # {}
      <4>. DEFINE q == r \ {last(r)}
      <4>1. last(r) \in r /\ q \in SUBSET r /\ q # s
        BY <3>3, DatedSubset, LatestIn
      <4>2. g[q] = H(q)[q]
        BY <4>1
      <4>3. CASE r = s
        BY <3>3, <4>2, <4>3
      <4>4. CASE r # s
        <5>1. H(r)[r] = Walked(x, last(r), H(r)[q])
          BY <2>1, <3>3, <4>4 DEF IsWalk
        <5>2. H(r)[q] = H(q)[q]
          <6>1. IsWalk(H(r), x, i, r) /\ IsWalk(H(q), x, i, q) /\ Dated(r)
            BY <2>1, <4>1, <4>4
          <6>2. q \in SUBSET (r \cap q)
            OBVIOUS
          <6>. HIDE DEF q
          <6>. QED  BY <6>1, <6>2, WalksAgree
        <5>. QED  BY <3>3, <4>2, <4>4, <5>1, <5>2
      <4>. QED  BY <4>3, <4>4
    <3>. QED  BY <3>1, <3>2, <3>3
  <2>3. g = [r \in SUBSET s |-> g[r]]
    OBVIOUS
  <2>. HIDE DEF g
  <2>4. IsWalk(g, x, i, s)
    BY <2>2, <2>3 DEF IsWalk
  <2>. QED  BY <2>4
<1>2. \A s \in SUBSET S : s \in Right
  <2>. HIDE DEF Right
  <2>. QED  BY <1>1, SubsetInduction DEF Dated
<1>. QED  BY <1>2

LEMMA WalkIs ==
    ASSUME NEW S, Dated(S), NEW x, NEW i
    PROVE  \E g : IsWalk(g, x, i, S) /\ \A s \in SUBSET S : WalkThrough(x, i, s) = g[s]
<1>. DEFINE G(s) == CHOOSE g : IsWalk(g, x, i, s)
<1>1. ASSUME NEW s \in SUBSET S
      PROVE  Dated(s) /\ IsWalk(G(s), x, i, s)
  BY DatedSubset, WalkExists
<1>2. ASSUME NEW s \in SUBSET S
      PROVE  WalkThrough(x, i, s) = G(s)[s]
  BY DEF WalkThrough, MapThenFoldSet, IsWalk, Walked, Unwalked
<1>. HIDE DEF G
<1>3. ASSUME NEW s \in SUBSET S PROVE G(S)[s] = G(s)[s]
  <2>1. s \in SUBSET (S \cap s) /\ IsWalk(G(S), x, i, S) /\ IsWalk(G(s), x, i, s)
    BY <1>1
  <2>. QED  BY <2>1, WalksAgree
<1>. QED  BY <1>1, <1>2, <1>3

(* Who has lived through no slash has its stake of the start.               *)
LEMMA WalkEmpty ==
    ASSUME NEW x, NEW i
    PROVE  WalkThrough(x, i, {}) = Unwalked(i)
<1>1. Dated({})
  BY FS_EmptySet DEF Dated
<1>2. PICK g : IsWalk(g, x, i, {}) /\ \A s \in SUBSET {} : WalkThrough(x, i, s) = g[s]
  BY <1>1, WalkIs
<1>. QED  BY <1>2 DEF IsWalk

(* The latest slash is the last step of the walk.                           *)
LEMMA WalkLast ==
    ASSUME NEW S, Dated(S), NEW e, Dated(S \cup {e}), \A f \in S : f.period < e.period,
           NEW x, NEW i
    PROVE  WalkThrough(x, i, S \cup {e}) = Walked(x, e, WalkThrough(x, i, S))
<1>. DEFINE T == S \cup {e}
<1>1. PICK g : IsWalk(g, x, i, T) /\ \A s \in SUBSET T : WalkThrough(x, i, s) = g[s]
  BY WalkIs
<1>2. LatestSlash(T) = e
  <2>1. /\ LatestSlash(T) \in T
        /\ \A f \in T : f.period <= LatestSlash(T).period
    BY LatestIn
  <2>2. e.period \in Nat /\ \A f \in S : f.period \in Nat
    BY DEF Dated
  <2>. QED  BY <2>1, <2>2
<1>3. T \ {e} = S
  <2>1. e \notin S
    BY DEF Dated
  <2>. QED  BY <2>1
<1>4. g[T] = Walked(x, e, g[T \ {e}])
  <2>. HIDE DEF T
  <2>1. T \in SUBSET T /\ T # {}
    BY DEF T
  <2>. QED  BY <1>1, <1>2, <2>1 DEF IsWalk
<1>. QED  BY <1>1, <1>3, <1>4

(* The stake after the walk does not depend on the rewards on the way.      *)
LEMMA WalkStake ==
    ASSUME NEW S, Dated(S), NEW x, NEW y, NEW i
    PROVE  WalkThrough(x, i, S).stake = WalkThrough(y, i, S).stake
<1>1. PICK g : IsWalk(g, x, i, S) /\ \A s \in SUBSET S : WalkThrough(x, i, s) = g[s]
  BY WalkIs
<1>2. PICK h : IsWalk(h, y, i, S) /\ \A s \in SUBSET S : WalkThrough(y, i, s) = h[s]
  BY WalkIs
<1>. DEFINE Right == {s \in SUBSET S : g[s].stake = h[s].stake}
<1>3. ASSUME NEW s \in SUBSET S, \A r \in SUBSET s : r # s => r \in Right
      PROVE  s \in Right
  <2>1. CASE s = {}
    BY <1>1, <1>2, <2>1 DEF IsWalk
  <2>2. CASE s # {}
    <3>1. LatestSlash(s) \in s
      BY <2>2, DatedSubset, LatestIn
    <3>2. s \ {LatestSlash(s)} \in Right
      BY <1>3, <3>1
    <3>3. /\ g[s] = Walked(x, LatestSlash(s), g[s \ {LatestSlash(s)}])
          /\ h[s] = Walked(y, LatestSlash(s), h[s \ {LatestSlash(s)}])
      BY <1>1, <1>2, <2>2 DEF IsWalk
    <3>4. /\ g[s].stake = (g[s \ {LatestSlash(s)}].stake * LatestSlash(s).after)
                              \div LatestSlash(s).before
          /\ h[s].stake = (h[s \ {LatestSlash(s)}].stake * LatestSlash(s).after)
                              \div LatestSlash(s).before
      BY <3>3, WalkedStake
    <3>5. g[s \ {LatestSlash(s)}].stake = h[s \ {LatestSlash(s)}].stake
      BY <3>2
    <3>. QED  BY <3>4, <3>5
  <2>. QED  BY <2>1, <2>2
<1>4. \A s \in SUBSET S : s \in Right
  <2>. HIDE DEF Right
  <2>. QED  BY <1>3, SubsetInduction DEF Dated
<1>. QED  BY <1>1, <1>2, <1>4

LEMMA SlashesDated ==
    ASSUME NEW x, WellFormed(x)
    PROVE  Dated(x.slashes) /\ \A e \in x.slashes : e.period < x.period
<1>. DEFINE P == 0 .. x.period - 1
            f == [e \in x.slashes |-> e.period]
<1>1. /\ x.period \in Nat /\ \A e \in x.slashes : e.period \in P
      /\ \A e, g \in x.slashes : e.period = g.period => e = g
  BY DEF WellFormed, Good, ReferrersInThePast, DistinctReferrers, ValidatorRewards
<1>2. f \in Injection(x.slashes, P)
  BY <1>1 DEF Injection, IsInjective
<1>3. IsFiniteSet(P)
  <2>1. 0 \in Int /\ x.period - 1 \in Int
    BY <1>1
  <2>. QED  BY <2>1, FS_Interval
<1>4. IsFiniteSet(x.slashes)
  <2>. HIDE DEF P, f
  <2>. QED  BY <1>2, <1>3, FS_Injection
<1>. QED  BY <1>1, <1>4 DEF Dated

-----------------------------------------------------------------------------
(* The inductive invariant of the counts.                                   *)

(* The delegations are those with a starting info.                          *)
SharesStarted ==
    \A v \in Val, d \in Del : shares[v][d] # 0 <=> d \in Started(dist[v])

LoopsOverDelegations ==
    /\ pc \in {"rewards", "delegations"} => ex.dels \subseteq AllDelegations
    /\ pc \in {"rewards", "validators"} => ex.read = AllDelegations

Plain == pc \notin {"validators", "delegations"}

(* The delegations that ReinitDelegation has dealt with.                    *)
Initialized(v) == {d \in Started(dist[v]) : <<d, v>> \notin ex.dels}

Records ==
    /\ Plain => \A v \in Val : WellFormed(dist[v])
    /\ pc = "validators" =>
          \A v \in Val : IF v \in ex.vals
                         THEN /\ dist[v].slashes = {}
                              /\ \A p \in Periods : dist[v].ref[p] = 0
                         ELSE Good(dist[v], {})
    /\ pc = "delegations" => \A v \in Val : Good(dist[v], Initialized(v))

(* The inductive invariant: the stage of the export says which starting     *)
(* infos count.                                                             *)
IInv == TypeOK /\ SharesStarted /\ LoopsOverDelegations /\ Records

-----------------------------------------------------------------------------
(* Types of the amounts. *)

LEMMA StakeInt ==
    ASSUME NEW k \in Validator, NEW s \in Int
    PROVE  TokensFromShares(k, s) \in Int
<1>1. k.tokens \in Int /\ k.shares \in Int /\ Unit \in Int
  BY UnitAssumption DEF Validator
<1>2. s * k.tokens * Unit \in Int
  BY <1>1
<1>3. CASE k.shares > 0
  BY <1>1, <1>2, <1>3 DEF TokensFromShares
<1>4. CASE ~(k.shares > 0)
  BY <1>1, <1>4 DEF TokensFromShares
<1>. QED  BY <1>3, <1>4

LEMMA StakeOfInt ==
    ASSUME TypeOK, NEW d \in Del, NEW v \in Val
    PROVE  StakeOf(d, v) \in Int
BY StakeInt DEF TypeOK, StakeOf

LEMMA TokensOfInt ==
    ASSUME NEW k \in Validator, NEW s \in Int
    PROVE  TokensOf(k, s) \in Int
<1>1. TokensFromShares(k, s) \in Int /\ k.tokens \in Int
  BY StakeInt DEF Validator
<1>. QED  BY <1>1, UnitAssumption DEF TokensOf

LEMMA AddTokensType ==
    ASSUME NEW k \in Validator, NEW amount \in Int
    PROVE  AddTokens(k, amount) \in Validator
<1>. DEFINE issued == IF k.tokens <= 0 THEN amount ELSE (amount * k.shares) \div k.tokens
<1>1. k.tokens \in Int /\ k.shares \in Int /\ k.unbondingHeight \in Nat
  BY DEF Validator
<1>2. amount * k.shares \in Int
  BY <1>1
<1>3. issued \in Int
  BY <1>1, <1>2
<1>4. AddTokens(k, amount) = [tokens |-> k.tokens + amount, shares |-> k.shares + issued,
                              unbondingHeight |-> k.unbondingHeight]
  BY DEF AddTokens
<1>. HIDE DEF issued
<1>5. k.tokens + amount \in Int /\ k.shares + issued \in Int
  BY <1>1, <1>3
<1>. QED  BY <1>1, <1>4, <1>5 DEF Validator

LEMMA UnbondedType ==
    ASSUME TypeOK, NEW d \in Del, NEW v \in Val
    PROVE  Unbonded(d, v) \in Validator
<1>. DEFINE k == staking[v]
            s == shares[v][d]
            t == TokensOf(k, s)
<1>1. k \in Validator /\ s \in Int
  BY DEF TypeOK
<1>2. t \in Int
  BY <1>1, TokensOfInt
<1>3. k.tokens \in Int /\ k.shares \in Int /\ k.unbondingHeight \in Nat
  BY <1>1 DEF Validator
<1>4. Unbonded(d, v) = [tokens |-> k.tokens - t, shares |-> k.shares - s,
                        unbondingHeight |-> k.unbondingHeight]
  BY DEF Unbonded
<1>. HIDE DEF k, s, t
<1>5. k.tokens - t \in Int /\ k.shares - s \in Int
  BY <1>1, <1>2, <1>3
<1>. QED  BY <1>3, <1>4, <1>5 DEF Validator

LEMMA PayoutInt ==
    ASSUME NEW x, WellFormed(x), x.period < MaxPeriod, NEW d, NEW tokens \in Int,
           NEW current, NEW h
    PROVE  Payout(x, d, tokens, current, h) \in Int /\ Donated(x, tokens) \in Int
<1> DEFINE y == IncrementValidatorPeriod(x, tokens)
<1>1. Started(x) \in SUBSET Del /\ x \in ValidatorRewards /\ Good(x, Started(x))
  BY DEF Started, WellFormed
<1>2. y \in ValidatorRewards
  BY <1>1, IncrementGood
<1>3. y.out \in Int /\ x.cur \in Int
  BY <1>1, <1>2 DEF ValidatorRewards
<1>. HIDE DEF y
<1>4. Due(y, x.info[d], h, current) \in Int
  BY <1>3 DEF Due
<1>. QED  BY <1>3, <1>4 DEF Payout, Donated, y

LEMMA DonatedInt ==
    ASSUME TypeOK, NEW v \in Val
    PROVE  Donated(dist[v], staking[v].tokens) \in Int
BY DEF TypeOK, ValidatorRewards, Donated

LEMMA PaidOutType ==
    ASSUME TypeOK, NEW d \in Del, NEW v \in Val, NEW h, WellFormed(dist[v]),
           dist[v].period < MaxPeriod, PaidOut(d, v, h)
    PROVE  bal' \in Int /\ pool' \in Int
<1>1. staking[v].tokens \in Int /\ pool \in Int /\ bal \in Int
  BY DEF TypeOK, Validator
<1>2. PayoutOf(d, v, h) \in Int /\ Donated(dist[v], staking[v].tokens) \in Int
  BY <1>1, PayoutInt DEF PayoutOf
<1>. QED  BY <1>1, <1>2, UnitAssumption DEF PaidOut

LEMMA PeriodsLeftBound ==
    ASSUME TypeOK, NEW v \in Val, PeriodsLeft(v)
    PROVE  dist[v].period < MaxPeriod
<1>1. Cardinality(Del) \in Nat
  BY BoundAssumption, FS_CardinalityType
<1>2. dist[v].period \in Nat
  BY DEF TypeOK, ValidatorRewards
<1>. QED  BY <1>1, <1>2, MaxPeriodAssumption DEF PeriodsLeft

(* For steps between plain states that change the records of v only.        *)
LEMMA PlainOne ==
    ASSUME IInv, Plain, NEW v \in Val, NEW z, WellFormed(z), dist' = [dist EXCEPT ![v] = z]
    PROVE  /\ dist' \in [Val -> ValidatorRewards]
           /\ \A w \in Val : WellFormed(dist'[w])
           /\ dist'[v] = z /\ \A w \in Val \ {v} : dist'[w] = dist[w]
<1>1. dist \in [Val -> ValidatorRewards] /\ z \in ValidatorRewards
  BY DEF IInv, TypeOK, WellFormed
<1>2. \A w \in Val : WellFormed(dist[w])
  BY DEF IInv, Records
<1>. QED  BY <1>1, <1>2

(* The invariant after a step that does not end in the two stages in which  *)
(* the export rebuilds the records.                                         *)
LEMMA PlainStep ==
    ASSUME TypeOK', Plain', SharesStarted', LoopsOverDelegations',
           \A w \in Val : WellFormed(dist'[w])
    PROVE  IInv'
BY DEF IInv, Records, Plain

-----------------------------------------------------------------------------
(* Steps of the chain. *)

LEMMA AllocateWellFormed ==
    ASSUME NEW x, WellFormed(x)
    PROVE  WellFormed(Allocate(x)) /\ Allocate(x).info = x.info
                                  /\ Allocate(x).period = x.period
<1>. DEFINE cur == x.cur + Reward * Unit - Commission
            com == x.com + Commission
            out == x.out + Reward * Unit
            z   == Allocate(x)
<1>1. x.cur \in Int /\ x.com \in Int /\ x.out \in Int
  BY DEF WellFormed, ValidatorRewards
<1>2. Reward * Unit \in Int /\ Commission \in Int
  BY AmountAssumption, UnitAssumption
<1>3. cur \in Int /\ com \in Int /\ out \in Int
  BY <1>1, <1>2
<1>4. /\ z = [x EXCEPT !.cur = cur, !.com = com, !.out = out]
      /\ x \in ValidatorRewards
  BY DEF Allocate, WellFormed, ValidatorRewards
<1>. HIDE DEF cur, com, out, z
<1>5. /\ z \in ValidatorRewards /\ z.info = x.info /\ z.period = x.period
      /\ z.slashes = x.slashes /\ z.ref = x.ref
  BY <1>3, <1>4 DEF ValidatorRewards
<1>6. WellFormed(z)
  BY <1>5, AmountsWellFormed
<1>. QED  BY <1>5, <1>6 DEF z

LEMMA StartBlockType ==
    ASSUME TypeOK, NEW v \in Val, StartBlock(v)
    PROVE  /\ Plain /\ pc' = "block" /\ Plain'
           /\ height' \in Nat /\ bal' \in Int
BY AmountAssumption DEF StartBlock, TypeOK, Plain

LEMMA BeginBlockStep ==
    ASSUME IInv, NEW v \in Val, BeginBlock(v)
    PROVE  IInv'
<1>. DEFINE z == Allocate(dist[v])
<1>1. TypeOK /\ StartBlock(v) /\ SharesStarted
  BY DEF IInv, BeginBlock
<1>2. Plain /\ pc' = "block" /\ Plain' /\ height' \in Nat /\ bal' \in Int
  BY <1>1, StartBlockType
<1>3. WellFormed(dist[v])
  BY <1>2 DEF IInv, Records
<1>4. WellFormed(z) /\ z.info = dist[v].info
  BY <1>3, AllocateWellFormed
<1>5. dist' = [dist EXCEPT ![v] = z]
  BY DEF BeginBlock
<1>. HIDE DEF z
<1>6. /\ dist' \in [Val -> ValidatorRewards]
      /\ \A w \in Val : WellFormed(dist'[w])
      /\ dist'[v] = z /\ \A w \in Val \ {v} : dist'[w] = dist[w]
  BY <1>2, <1>4, <1>5, PlainOne
<1>7. TypeOK'
  BY <1>1, <1>2, <1>6 DEF BeginBlock, TypeOK, Stages
<1>8. SharesStarted'
  BY <1>1, <1>4, <1>6 DEF SharesStarted, Started, BeginBlock
<1>9. LoopsOverDelegations'
  BY <1>2 DEF LoopsOverDelegations
<1>. QED  BY <1>2, <1>6, <1>7, <1>8, <1>9, PlainStep

LEMMA BeginBlockSlashStep ==
    ASSUME IInv, NEW v \in Val, NEW w \in Val, BeginBlockSlash(v, w)
    PROVE  IInv'
<1>. DEFINE allocated == [dist EXCEPT ![v] = Allocate(dist[v])]
            before    == staking[w].tokens
            after     == before - before \div 2
            z         == BeforeValidatorSlashed(allocated[w], before, after, height + 1)
<1>1. TypeOK /\ StartBlock(v) /\ SharesStarted /\ PeriodsLeft(w)
  BY DEF IInv, BeginBlockSlash
<1>2. Plain /\ pc' = "block" /\ Plain' /\ height' \in Nat /\ bal' \in Int
  BY <1>1, StartBlockType
<1>3. \A u \in Val : WellFormed(dist[u])
  BY <1>2 DEF IInv, Records
<1>4. \A u \in Val : /\ WellFormed(allocated[u])
                     /\ allocated[u].info = dist[u].info
                     /\ allocated[u].period = dist[u].period
  BY <1>1, <1>3, AllocateWellFormed DEF TypeOK
<1>5. before \in Nat /\ after \in Int /\ height + 1 \in Nat
  <2>1. before \in Int /\ before > 0 /\ height \in Nat
    BY <1>1 DEF TypeOK, Validator, BeginBlockSlash
  <2>. HIDE DEF before
  <2>. QED  BY <2>1
<1>6. dist[w].period < MaxPeriod
  BY <1>1, PeriodsLeftBound
<1>7. dist' = [allocated EXCEPT ![w] = z]
  BY DEF BeginBlockSlash
<1>8. /\ staking' = [staking EXCEPT ![w] = [staking[w] EXCEPT !.tokens = after]]
      /\ jailed' = jailed \cup {w} /\ powerIndex' = powerIndex \ {w}
  BY DEF BeginBlockSlash
<1>9. allocated \in [Val -> ValidatorRewards]
  BY <1>4, <1>1 DEF TypeOK, WellFormed
<1>10. z = BeforeValidatorSlashed(allocated[w], before, after, height + 1)
  OBVIOUS
<1>. HIDE DEF allocated, before, after, z
<1>11. WellFormed(z) /\ z.info = dist[w].info
  BY <1>4, <1>5, <1>6, <1>10, SlashWellFormed
<1>12. z \in ValidatorRewards
  BY <1>11 DEF WellFormed
<1>13. /\ dist' \in [Val -> ValidatorRewards]
       /\ \A u \in Val : WellFormed(dist'[u]) /\ dist'[u].info = dist[u].info
  BY <1>4, <1>7, <1>9, <1>11, <1>12
<1>14. staking' \in [Val -> Validator]
  <2>1. staking \in [Val -> Validator]
    BY <1>1 DEF TypeOK
  <2>2. [staking[w] EXCEPT !.tokens = after] \in Validator
    BY <1>5, <2>1 DEF Validator
  <2>. QED  BY <1>8, <2>1, <2>2
<1>15. TypeOK'
  BY <1>1, <1>2, <1>8, <1>13, <1>14 DEF BeginBlockSlash, TypeOK, Stages
<1>16. SharesStarted'
  BY <1>1, <1>13 DEF SharesStarted, Started, BeginBlockSlash
<1>17. LoopsOverDelegations'
  BY <1>2 DEF LoopsOverDelegations
<1>. QED  BY <1>2, <1>13, <1>15, <1>16, <1>17, PlainStep

LEMMA TransactionType ==
    ASSUME IInv, NEW d \in Del, NEW v \in Val, Transaction(d, v)
    PROVE  /\ TypeOK /\ SharesStarted /\ Plain /\ Plain' /\ LoopsOverDelegations'
           /\ WellFormed(dist[v]) /\ dist[v].period < MaxPeriod
           /\ ops' \in Nat /\ height \in Nat /\ staking[v].tokens \in Int
           /\ StakeOf(d, v) \in Int
           /\ (d \in Started(dist[v]) <=> shares[v][d] # 0)
<1>1. TypeOK /\ SharesStarted /\ pc = "block" /\ pc' = pc
  BY DEF IInv, Transaction
<1>2. /\ Plain /\ Plain' /\ LoopsOverDelegations'
      /\ (d \in Started(dist[v]) <=> shares[v][d] # 0)
  BY <1>1 DEF Plain, LoopsOverDelegations, SharesStarted
<1>3. ops' \in Nat /\ height \in Nat /\ staking[v].tokens \in Int
  BY <1>1 DEF TypeOK, Transaction, Validator
<1>4. dist[v].period < MaxPeriod
  BY <1>1, PeriodsLeftBound DEF Transaction
<1>5. StakeOf(d, v) \in Int
  BY <1>1, StakeOfInt
<1>. QED  BY <1>1, <1>2, <1>3, <1>4, <1>5 DEF IInv, Records

LEMMA WithdrawStep ==
    ASSUME IInv, NEW d \in Del, NEW v \in Val, Withdraw(d, v)
    PROVE  IInv'
<1>. DEFINE tokens == staking[v].tokens
            stake  == StakeOf(d, v)
            z == AfterDelegationModified(Settle(dist[v], d, tokens, stake, height),
                                         d, stake, height)
<1>1. Transaction(d, v) /\ shares[v][d] # 0 /\ PaidOut(d, v, height)
  BY DEF Withdraw
<1>2. /\ TypeOK /\ SharesStarted /\ Plain /\ Plain' /\ LoopsOverDelegations'
      /\ WellFormed(dist[v]) /\ dist[v].period < MaxPeriod /\ ops' \in Nat
      /\ tokens \in Int /\ stake \in Int /\ height \in Int /\ d \in Started(dist[v])
  BY <1>1, TransactionType
<1>3. dist' = [dist EXCEPT ![v] = z]
  BY DEF Withdraw, Settled
<1>4. z = AfterDelegationModified(Settle(dist[v], d, tokens, stake, height), d, stake, height)
  OBVIOUS
<1>. HIDE DEF tokens, stake, z
<1>5. WellFormed(z) /\ Started(z) = Started(dist[v])
  BY <1>2, <1>4, RestartWellFormed
<1>6. /\ dist' \in [Val -> ValidatorRewards]
      /\ \A w \in Val : WellFormed(dist'[w])
      /\ dist'[v] = z /\ \A w \in Val \ {v} : dist'[w] = dist[w]
  BY <1>2, <1>3, <1>5, PlainOne
<1>7. bal' \in Int /\ pool' \in Int
  BY <1>1, <1>2, PaidOutType
<1>8. TypeOK'
  BY <1>1, <1>2, <1>6, <1>7 DEF Withdraw, Transaction, TypeOK
<1>9. SharesStarted'
  BY <1>2, <1>5, <1>6 DEF SharesStarted, Withdraw
<1>. QED  BY <1>2, <1>6, <1>8, <1>9, PlainStep

(* A delegator of v, or a new one, delegates.                               *)
LEMMA DelegatedGood ==
    ASSUME TypeOK, NEW d \in Del, NEW v \in Val, NEW amount \in Int,
           WellFormed(dist[v]), dist[v].period < MaxPeriod,
           (d \in Started(dist[v]) <=> shares[v][d] # 0),
           NEW new, new = Delegated(d, v, amount)
    PROVE  /\ new.validator \in Validator /\ new.shares \in Int
           /\ WellFormed(new.dist) /\ Started(new.dist) = Started(dist[v]) \cup {d}
<1>. DEFINE k == AddTokens(staking[v], amount)
            s == shares[v][d] + k.shares - staking[v].shares
            stake == TokensFromShares(k, s)
            tokens == staking[v].tokens
            current == StakeOf(d, v)
<1>1. /\ tokens \in Int /\ current \in Int /\ height \in Int
      /\ staking[v] \in Validator /\ shares[v][d] \in Int
  BY StakeOfInt DEF TypeOK, Validator
<1>2. k \in Validator
  BY <1>1, AddTokensType
<1>3. /\ new.validator = k /\ new.shares = s
      /\ new.dist = AfterDelegationModified(
                       IF shares[v][d] = 0 THEN IncrementValidatorPeriod(dist[v], tokens)
                       ELSE Settle(dist[v], d, tokens, current, height), d, stake, height)
  BY DEF Delegated, Settled
<1>. HIDE DEF k
<1>4. s \in Int
  <2>1. k.shares \in Int /\ staking[v].shares \in Int
    BY <1>1, <1>2 DEF Validator
  <2>. QED  BY <1>1, <2>1
<1>. HIDE DEF s
<1>5. stake \in Int
  BY <1>2, <1>4, StakeInt
<1>. HIDE DEF stake, tokens, current
<1>6. CASE shares[v][d] = 0
  <2>1. d \in Del \ Started(dist[v])
    BY <1>6
  <2>2. new.dist = AfterDelegationModified(IncrementValidatorPeriod(dist[v], tokens),
                                           d, stake, height)
    BY <1>3, <1>6
  <2>3. WellFormed(new.dist) /\ Started(new.dist) = Started(dist[v]) \cup {d}
    BY <1>1, <1>5, <2>1, <2>2, NewStartWellFormed
  <2>. QED  BY <1>2, <1>3, <1>4, <2>3
<1>7. CASE shares[v][d] # 0
  <2>1. d \in Started(dist[v])
    BY <1>7
  <2>2. new.dist = AfterDelegationModified(Settle(dist[v], d, tokens, current, height),
                                           d, stake, height)
    BY <1>3, <1>7
  <2>3. WellFormed(new.dist) /\ Started(new.dist) = Started(dist[v])
    BY <1>1, <1>5, <2>1, <2>2, RestartWellFormed
  <2>. QED  BY <1>2, <1>3, <1>4, <2>1, <2>3
<1>. QED  BY <1>6, <1>7

LEMMA DelegateStep ==
    ASSUME IInv, NEW d \in Del, NEW v \in Val, Delegate(d, v)
    PROVE  IInv'
<1>. DEFINE new == Delegated(d, v, Stake)
<1>1. /\ Transaction(d, v) /\ new.shares # 0
      /\ dist' = [dist EXCEPT ![v] = new.dist]
      /\ staking' = [staking EXCEPT ![v] = new.validator]
      /\ shares' = [shares EXCEPT ![v] = [shares[v] EXCEPT ![d] = new.shares]]
  BY DEF Delegate
<1>2. /\ TypeOK /\ SharesStarted /\ Plain /\ Plain' /\ LoopsOverDelegations'
      /\ WellFormed(dist[v]) /\ dist[v].period < MaxPeriod /\ ops' \in Nat
      /\ staking[v].tokens \in Int /\ (d \in Started(dist[v]) <=> shares[v][d] # 0)
  BY <1>1, TransactionType
<1>3. Stake \in Int
  BY AmountAssumption
<1>4. new = Delegated(d, v, Stake)
  OBVIOUS
<1>5. bal' \in Int /\ pool' \in Int
  <2>1. CASE shares[v][d] = 0
    <3>1. Donated(dist[v], staking[v].tokens) \in Int
      BY <1>2, DonatedInt
    <3>2. /\ pool' = pool + Donated(dist[v], staking[v].tokens) /\ bal' = bal
      BY <2>1 DEF Delegate
    <3>. QED  BY <1>2, <3>1, <3>2 DEF TypeOK
  <2>2. CASE shares[v][d] # 0
    <3>1. PaidOut(d, v, height)
      BY <2>2 DEF Delegate
    <3>. QED  BY <1>2, <3>1, PaidOutType
  <2>. QED  BY <2>1, <2>2
<1>. HIDE DEF new
<1>6. /\ new.validator \in Validator /\ new.shares \in Int
      /\ WellFormed(new.dist) /\ Started(new.dist) = Started(dist[v]) \cup {d}
  BY <1>2, <1>3, <1>4, DelegatedGood
<1>7. /\ dist' \in [Val -> ValidatorRewards]
      /\ \A w \in Val : WellFormed(dist'[w])
      /\ dist'[v] = new.dist /\ \A w \in Val \ {v} : dist'[w] = dist[w]
  BY <1>1, <1>2, <1>6, PlainOne
<1>8. staking' \in [Val -> Validator] /\ shares' \in [Val -> [Del -> Int]]
  BY <1>1, <1>2, <1>6 DEF TypeOK
<1>9. TypeOK'
  BY <1>1, <1>2, <1>5, <1>7, <1>8 DEF Delegate, Transaction, TypeOK
<1>10. SharesStarted'
  <2>1. \A c \in Del : shares'[v][c] = IF c = d THEN new.shares ELSE shares[v][c]
    BY <1>1, <1>2 DEF TypeOK
  <2>2. \A w \in Val \ {v} : shares'[w] = shares[w]
    BY <1>1, <1>2 DEF TypeOK
  <2>. QED  BY <1>1, <1>2, <1>6, <1>7, <2>1, <2>2 DEF SharesStarted
<1>. QED  BY <1>2, <1>7, <1>9, <1>10, PlainStep

LEMMA UndelegateStep ==
    ASSUME IInv, NEW d \in Del, NEW v \in Val, Undelegate(d, v)
    PROVE  IInv'
<1>. DEFINE tokens == staking[v].tokens
            stake  == StakeOf(d, v)
            z == Settle(dist[v], d, tokens, stake, height)
            k == Unbonded(d, v)
            e == [del |-> d, val |-> v, kind |-> "ubd", at |-> height]
<1>1. /\ Transaction(d, v) /\ shares[v][d] # 0 /\ PaidOut(d, v, height)
      /\ staking' = [staking EXCEPT ![v] = k]
      /\ shares' = [shares EXCEPT ![v] = [shares[v] EXCEPT ![d] = 0]]
      /\ entries' = entries \cup {e}
      /\ JailSelf(d, v)
  BY DEF Undelegate
<1>2. /\ TypeOK /\ SharesStarted /\ Plain /\ Plain' /\ LoopsOverDelegations'
      /\ WellFormed(dist[v]) /\ dist[v].period < MaxPeriod /\ ops' \in Nat
      /\ tokens \in Int /\ stake \in Int /\ height \in Nat /\ d \in Started(dist[v])
  BY <1>1, TransactionType
<1>3. dist' = [dist EXCEPT ![v] = z]
  BY DEF Undelegate, Settled
<1>4. k \in Validator
  BY <1>2, UnbondedType
<1>5. e \in Entry
  BY <1>2 DEF Entry
<1>6. z = Settle(dist[v], d, tokens, stake, height)
  OBVIOUS
<1>. HIDE DEF tokens, stake, z, k, e
<1>7. WellFormed(z) /\ Started(z) = Started(dist[v]) \ {d}
  BY <1>2, <1>6, SettleWellFormed
<1>8. /\ dist' \in [Val -> ValidatorRewards]
      /\ \A w \in Val : WellFormed(dist'[w])
      /\ dist'[v] = z /\ \A w \in Val \ {v} : dist'[w] = dist[w]
  BY <1>2, <1>3, <1>7, PlainOne
<1>9. bal' \in Int /\ pool' \in Int
  BY <1>1, <1>2, PaidOutType
<1>10. /\ staking' \in [Val -> Validator] /\ shares' \in [Val -> [Del -> Int]]
       /\ entries' \subseteq Entry /\ jailed' \subseteq Val /\ powerIndex' \subseteq Val
  BY <1>1, <1>2, <1>4, <1>5 DEF TypeOK, JailSelf
<1>11. TypeOK'
  BY <1>1, <1>2, <1>8, <1>9, <1>10 DEF Undelegate, Transaction, TypeOK
<1>12. SharesStarted'
  <2>1. \A c \in Del : shares'[v][c] = IF c = d THEN 0 ELSE shares[v][c]
    BY <1>1, <1>2 DEF TypeOK
  <2>2. \A w \in Val \ {v} : shares'[w] = shares[w]
    BY <1>1, <1>2 DEF TypeOK
  <2>. QED  BY <1>2, <1>7, <1>8, <2>1, <2>2 DEF SharesStarted
<1>. QED  BY <1>2, <1>8, <1>11, <1>12, PlainStep

LEMMA RedelegateStep ==
    ASSUME IInv, NEW d \in Del, NEW v \in Val, NEW w \in Val, Redelegate(d, v, w)
    PROVE  IInv'
<1>. DEFINE tokens == staking[v].tokens
            stake  == StakeOf(d, v)
            amount == TokensOf(staking[v], shares[v][d])
            new == Delegated(d, w, amount)
            z == Settle(dist[v], d, tokens, stake, height)
            k == Unbonded(d, v)
            e == [del |-> d, val |-> v, kind |-> "red", at |-> height]
            paid == PayoutOf(d, v, height)
<1>1. /\ Transaction(d, v) /\ shares[v][d] # 0 /\ v # w
      /\ shares[w][d] = 0 /\ new.shares # 0 /\ PeriodsLeft(w)
      /\ dist' = [dist EXCEPT ![v] = z, ![w] = new.dist]
      /\ staking' = [staking EXCEPT ![v] = k, ![w] = new.validator]
      /\ shares' = [shares EXCEPT ![v] = [shares[v] EXCEPT ![d] = 0],
                                  ![w] = [shares[w] EXCEPT ![d] = new.shares]]
      /\ entries' = entries \cup {e}
      /\ JailSelf(d, v)
      /\ bal' = bal - paid \div Unit
      /\ pool' = pool + (paid % Unit) + Donated(dist[v], staking[v].tokens)
                                     + Donated(dist[w], staking[w].tokens)
  <2>1. shares' = [shares EXCEPT ![v][d] = 0, ![w][d] = new.shares] /\ v # w
    BY DEF Redelegate
  <2>2. shares' = [shares EXCEPT ![v] = [shares[v] EXCEPT ![d] = 0],
                                 ![w] = [shares[w] EXCEPT ![d] = new.shares]]
    <3>. HIDE DEF new
    <3>. QED  BY <2>1
  <2>. QED  BY <2>2 DEF Redelegate, Settled
<1>2. /\ TypeOK /\ SharesStarted /\ Plain /\ Plain' /\ LoopsOverDelegations'
      /\ WellFormed(dist[v]) /\ dist[v].period < MaxPeriod /\ ops' \in Nat
      /\ tokens \in Int /\ stake \in Int /\ height \in Nat /\ d \in Started(dist[v])
  BY <1>1, TransactionType
<1>3. /\ \A u \in Val : WellFormed(dist[u])
      /\ (d \in Started(dist[w]) <=> shares[w][d] # 0) /\ dist[w].period < MaxPeriod
  BY <1>1, <1>2, PeriodsLeftBound DEF IInv, Records, SharesStarted
<1>4. k \in Validator
  BY <1>2, UnbondedType
<1>5. e \in Entry
  BY <1>2 DEF Entry
<1>6. amount \in Int
  BY <1>2, TokensOfInt DEF TypeOK
<1>7. paid \in Int
  <2>. HIDE DEF stake
  <2>1. paid = Payout(dist[v], d, tokens, stake, height)
    BY DEF PayoutOf, stake
  <2>. QED  BY <1>2, <2>1, PayoutInt
<1>8. z = Settle(dist[v], d, tokens, stake, height) /\ new = Delegated(d, w, amount)
  OBVIOUS
<1>. HIDE DEF tokens, stake, z, k, e, new, amount, paid
<1>9. WellFormed(z) /\ Started(z) = Started(dist[v]) \ {d}
  BY <1>2, <1>8, SettleWellFormed
<1>10. /\ new.validator \in Validator /\ new.shares \in Int
       /\ WellFormed(new.dist) /\ Started(new.dist) = Started(dist[w]) \cup {d}
  BY <1>2, <1>3, <1>6, <1>8, DelegatedGood
<1>11. /\ dist' \in [Val -> ValidatorRewards]
       /\ \A u \in Val : WellFormed(dist'[u])
       /\ dist'[v] = z /\ dist'[w] = new.dist
       /\ \A u \in Val \ {v, w} : dist'[u] = dist[u]
  BY <1>1, <1>2, <1>3, <1>9, <1>10 DEF TypeOK, WellFormed
<1>12. bal' \in Int /\ pool' \in Int
  <2>1. /\ Donated(dist[v], staking[v].tokens) \in Int
        /\ Donated(dist[w], staking[w].tokens) \in Int
    BY <1>2, DonatedInt
  <2>2. pool \in Int /\ bal \in Int /\ paid \div Unit \in Int /\ paid % Unit \in Int
    BY <1>2, <1>7, UnitAssumption DEF TypeOK
  <2>. QED  BY <1>1, <2>1, <2>2
<1>. DEFINE rest == [shares[v] EXCEPT ![d] = 0]
            more == [shares[w] EXCEPT ![d] = new.shares]
<1>13. /\ rest \in [Del -> Int] /\ more \in [Del -> Int]
       /\ \A c \in Del : rest[c] = IF c = d THEN 0 ELSE shares[v][c]
       /\ \A c \in Del : more[c] = IF c = d THEN new.shares ELSE shares[w][c]
  BY <1>2, <1>10 DEF TypeOK
<1>14. shares' = [shares EXCEPT ![v] = rest, ![w] = more]
  BY <1>1
<1>. HIDE DEF rest, more
<1>15. /\ shares' \in [Val -> [Del -> Int]]
       /\ shares'[v] = rest /\ shares'[w] = more
       /\ \A u \in Val \ {v, w} : shares'[u] = shares[u]
  <2>1. shares \in [Val -> [Del -> Int]] /\ rest \in [Del -> Int] /\ more \in [Del -> Int]
    BY <1>2, <1>13 DEF TypeOK
  <2>2. v # w
    BY <1>1
  <2>. QED  BY <2>1, <2>2, <1>14
<1>16. staking' \in [Val -> Validator]
  <2>1. staking \in [Val -> Validator] /\ staking' = [staking EXCEPT ![v] = k, ![w] = new.validator]
    BY <1>1, <1>2 DEF TypeOK
  <2>. QED  BY <2>1, <1>4, <1>10
<1>17. entries' \subseteq Entry /\ jailed' \subseteq Val /\ powerIndex' \subseteq Val
  BY <1>1, <1>2, <1>5 DEF TypeOK, JailSelf
<1>18. TypeOK'
  <2>1. UNCHANGED <<pc, gen, height, bonded, signStart, ex>>
    BY <1>1 DEF Transaction
  <2>. QED  BY <1>2, <1>11, <1>12, <1>15, <1>16, <1>17, <2>1 DEF TypeOK
<1>19. SharesStarted'
  <2>. SUFFICES ASSUME NEW u \in Val, NEW c \in Del
                PROVE  shares'[u][c] # 0 <=> c \in Started(dist'[u])
    BY DEF SharesStarted
  <2>1. shares[u][c] # 0 <=> c \in Started(dist[u])
    BY <1>2 DEF SharesStarted
  <2>2. CASE u = v
    BY <2>1, <2>2, <1>9, <1>11, <1>13, <1>15
  <2>3. CASE u = w
    BY <2>1, <2>3, <1>1, <1>10, <1>11, <1>13, <1>15
  <2>4. CASE u \notin {v, w}
    BY <2>1, <2>4, <1>11, <1>15
  <2>. QED  BY <2>2, <2>3, <2>4
<1>. QED  BY <1>2, <1>11, <1>18, <1>19, PlainStep

(* Steps that leave the distribution records and the delegations alone.     *)
LEMMA SameRecords ==
    ASSUME IInv, Plain, Plain', TypeOK', LoopsOverDelegations',
           UNCHANGED <<dist, shares>>
    PROVE  IInv'
BY PlainStep DEF IInv, Records, SharesStarted

LEMMA UnjailStep ==
    ASSUME IInv, NEW v \in Val, Unjail(v)
    PROVE  IInv'
<1>1. Plain /\ Plain' /\ LoopsOverDelegations'
  BY DEF Unjail, Plain, LoopsOverDelegations
<1>2. TypeOK'
  BY DEF IInv, Unjail, TypeOK
<1>. QED  BY <1>1, <1>2, SameRecords DEF Unjail

(* The validator set changes, in EndBlock and in the export.                *)
LEMMA ValidatorSetType ==
    ASSUME TypeOK, NEW S, S \subseteq Val,
           staking' = [v \in Val |-> IF v \in bonded \ S
                                     THEN [staking[v] EXCEPT !.unbondingHeight = height]
                                     ELSE staking[v]],
           signStart' = [v \in Val |-> IF v \in S \ bonded THEN height ELSE signStart[v]]
    PROVE  staking' \in [Val -> Validator] /\ signStart' \in [Val -> Nat]
<1>1. staking \in [Val -> Validator] /\ height \in Nat /\ signStart \in [Val -> Nat]
  BY DEF TypeOK
<1>2. \A v \in Val : [staking[v] EXCEPT !.unbondingHeight = height] \in Validator
  BY <1>1 DEF Validator
<1>. QED  BY <1>1, <1>2

LEMMA EndBlockStep ==
    ASSUME IInv, EndBlock
    PROVE  IInv'
<1>1. Plain /\ Plain' /\ LoopsOverDelegations'
  BY DEF EndBlock, Plain, LoopsOverDelegations
<1>2. TopValidators \subseteq Val
  BY DEF IInv, TypeOK, TopValidators
<1>3. staking' \in [Val -> Validator] /\ signStart' \in [Val -> Nat]
  BY <1>2, ValidatorSetType DEF IInv, EndBlock
<1>4. TypeOK'
  BY <1>2, <1>3 DEF IInv, EndBlock, TypeOK, Stages
<1>. QED  BY <1>1, <1>4, SameRecords DEF EndBlock

LEMMA RestartStep ==
    ASSUME IInv, Restart
    PROVE  IInv'
<1>1. pc' \in {"genesis", "panicked"}
  BY DEF Restart
<1>2. Plain /\ Plain' /\ LoopsOverDelegations'
  BY <1>1 DEF Restart, Plain, LoopsOverDelegations
<1>3. TypeOK'
  BY <1>1 DEF IInv, Restart, TypeOK, Stages, NoExport, ExportLocals, Modes, Faults
<1>. QED  BY <1>2, <1>3, SameRecords DEF Restart

-----------------------------------------------------------------------------
(* Steps of the export. *)

LEMMA ExType ==
    ASSUME TypeOK
    PROVE  /\ ex.mode \in Modes /\ ex.allow \subseteq Val /\ ex.vals \subseteq Val
           /\ ex.dels \subseteq Delegation /\ ex.read \subseteq Delegation
           /\ AllDelegations \subseteq Delegation
           /\ \A V \in SUBSET Val, D \in SUBSET Delegation :
                 /\ [ex EXCEPT !.vals = V] \in ExportLocals
                 /\ [ex EXCEPT !.dels = D] \in ExportLocals
                 /\ [ex EXCEPT !.vals = V, !.dels = D] \in ExportLocals
                 /\ [ex EXCEPT !.vals = V, !.dels = D, !.read = D] \in ExportLocals
<1>1. ex \in ExportLocals
  BY DEF TypeOK
<1>2. AllDelegations \subseteq Delegation
  BY DEF AllDelegations
<1>. QED  BY <1>1, <1>2 DEF ExportLocals

LEMMA BeginExportStep ==
    ASSUME IInv, NEW zero \in BOOLEAN, NEW apply \in BOOLEAN, NEW allow \in SUBSET Val,
           NEW fault \in Faults, BeginExport(zero, apply, allow, fault)
    PROVE  IInv'
<1>1. pc' \in {"exported", "commission", "panicked"} /\ pc = "committed"
  BY DEF BeginExport
<1>2. Plain /\ Plain' /\ LoopsOverDelegations'
  BY <1>1 DEF Plain, LoopsOverDelegations
<1>3. ex' \in ExportLocals
  BY DEF BeginExport, ExportLocals, Modes
<1>4. TypeOK'
  BY <1>1, <1>3 DEF IInv, BeginExport, TypeOK, Stages, ExportStages, chain
<1>. QED  BY <1>2, <1>4, SameRecords DEF BeginExport, chain

LEMMA WithdrawCommissionStep ==
    ASSUME IInv, NEW v \in Val, WithdrawCommission(v)
    PROVE  IInv'
<1>. DEFINE coins == dist[v].com \div Unit
            com   == dist[v].com - coins * Unit
            out   == dist[v].out - coins * Unit
            z     == [dist[v] EXCEPT !.com = com, !.out = out]
            dels  == IF ex.vals = {v} THEN AllDelegations ELSE {}
<1>1. /\ pc = "commission" /\ pc' = IF ex.vals = {v} THEN "rewards" ELSE "commission"
      /\ dist' = [dist EXCEPT ![v] = z]
      /\ bal' = bal - coins
      /\ ex' = [ex EXCEPT !.vals = ex.vals \ {v}, !.dels = dels, !.read = dels]
      /\ UNCHANGED <<chain, pool>>
  BY DEF WithdrawCommission, NextValidator
<1>2. Plain /\ Plain' /\ TypeOK /\ SharesStarted /\ AllDelegations' = AllDelegations
  BY <1>1 DEF Plain, IInv, AllDelegations, chain
<1>3. WellFormed(dist[v])
  BY <1>2 DEF IInv, Records
<1>4. dist[v].com \in Int /\ dist[v].out \in Int /\ dist[v] \in ValidatorRewards
  BY <1>3 DEF WellFormed, ValidatorRewards
<1>5. coins \in Int /\ com \in Int /\ out \in Int
  <2>1. coins \in Int
    BY <1>4, UnitAssumption
  <2>. HIDE DEF coins
  <2>. QED  BY <1>4, <2>1, UnitAssumption
<1>. HIDE DEF coins, com, out
<1>6. /\ z \in ValidatorRewards /\ z.info = dist[v].info /\ z.period = dist[v].period
      /\ z.slashes = dist[v].slashes /\ z.ref = dist[v].ref
  BY <1>4, <1>5 DEF ValidatorRewards
<1>. HIDE DEF z
<1>7. WellFormed(z)
  BY <1>3, <1>6, AmountsWellFormed
<1>8. /\ dist' \in [Val -> ValidatorRewards]
      /\ \A w \in Val : WellFormed(dist'[w])
      /\ dist'[v] = z /\ \A w \in Val \ {v} : dist'[w] = dist[w]
  BY <1>1, <1>2, <1>7, PlainOne
<1>9. dels \subseteq Delegation /\ ex.vals \ {v} \in SUBSET Val
  BY <1>2, ExType
<1>10. LoopsOverDelegations'
  BY <1>1, <1>2 DEF LoopsOverDelegations, TypeOK
<1>. HIDE DEF dels
<1>11. ex' \in ExportLocals
  BY <1>1, <1>2, <1>9, ExType
<1>12. TypeOK'
  BY <1>1, <1>2, <1>5, <1>8, <1>11 DEF TypeOK, Stages, ExportStages, chain
<1>13. SharesStarted'
  BY <1>1, <1>2, <1>6, <1>8 DEF SharesStarted, Started, chain
<1>. QED  BY <1>2, <1>8, <1>10, <1>12, <1>13, PlainStep

(* The delegation that a loop deals with is one that is left to deal with.  *)
LEMMA FirstIsADelegation ==
    ASSUME IInv, NEW d \in Del, NEW v \in Val, pc \in {"rewards", "delegations"},
           ex.dels # {}, <<d, v>> = FirstDelegation(ex.dels)
    PROVE  <<d, v>> \in ex.dels /\ d \in Started(dist[v])
<1>1. <<d, v>> \in ex.dels
  BY DEF FirstDelegation
<1>2. <<d, v>> \in AllDelegations
  BY <1>1 DEF IInv, LoopsOverDelegations
<1>3. shares[v][d] # 0
  BY <1>2 DEF AllDelegations
<1>. QED  BY <1>1, <1>3 DEF IInv, SharesStarted

LEMMA WithdrawRewardsStep ==
    ASSUME IInv, NEW d \in Del, NEW v \in Val, WithdrawRewards(d, v)
    PROVE  IInv'
<1>. DEFINE tokens == staking[v].tokens
            stake  == StakeOf(d, v)
            dels   == ex.dels \ {<<d, v>>}
            z == AfterDelegationModified(Settle(dist[v], d, tokens, stake, 0), d, stake, 0)
<1>1. /\ pc = "rewards" /\ pc' = pc /\ dist[v].period < MaxPeriod
      /\ PaidOut(d, v, 0) /\ dist' = [dist EXCEPT ![v] = z]
      /\ ex' = [ex EXCEPT !.dels = dels] /\ UNCHANGED chain
  BY DEF WithdrawRewards, Settled
<1>2. Plain /\ Plain' /\ TypeOK /\ SharesStarted /\ AllDelegations' = AllDelegations
  BY <1>1 DEF Plain, IInv, AllDelegations, chain
<1>3. d \in Started(dist[v])
  BY <1>1, FirstIsADelegation DEF WithdrawRewards
<1>4. WellFormed(dist[v]) /\ tokens \in Int /\ stake \in Int
  BY <1>2, StakeOfInt DEF IInv, Records, TypeOK, Validator
<1>5. z = AfterDelegationModified(Settle(dist[v], d, tokens, stake, 0), d, stake, 0)
  OBVIOUS
<1>. HIDE DEF tokens, stake, z
<1>6. WellFormed(z) /\ Started(z) = Started(dist[v])
  BY <1>1, <1>3, <1>4, <1>5, RestartWellFormed
<1>7. /\ dist' \in [Val -> ValidatorRewards]
      /\ \A w \in Val : WellFormed(dist'[w])
      /\ dist'[v] = z /\ \A w \in Val \ {v} : dist'[w] = dist[w]
  BY <1>1, <1>2, <1>6, PlainOne
<1>8. bal' \in Int /\ pool' \in Int
  BY <1>1, <1>2, <1>4, PaidOutType
<1>9. dels \subseteq AllDelegations /\ dels \in SUBSET Delegation
  BY <1>1, <1>2, ExType DEF IInv, LoopsOverDelegations
<1>. HIDE DEF dels
<1>10. /\ ex' \in ExportLocals
       /\ ex'.dels = dels /\ ex'.read = ex.read
  BY <1>1, <1>2, <1>9, ExType DEF TypeOK, ExportLocals
<1>11. LoopsOverDelegations'
  BY <1>1, <1>2, <1>9, <1>10 DEF IInv, LoopsOverDelegations
<1>12. TypeOK'
  BY <1>1, <1>2, <1>7, <1>8, <1>10 DEF TypeOK, chain
<1>13. SharesStarted'
  BY <1>1, <1>2, <1>6, <1>7 DEF SharesStarted, chain
<1>. QED  BY <1>2, <1>7, <1>11, <1>12, <1>13, PlainStep

LEMMA ClearHistoryStep ==
    ASSUME IInv, ClearHistory
    PROVE  IInv'
<1>. DEFINE none == [p \in Periods |-> 0]
            Cleared(v) == [dist[v] EXCEPT !.slashes = {}, !.ref = none]
<1>1. /\ pc = "rewards" /\ pc' = "validators"
      /\ dist' = [v \in Val |-> Cleared(v)]
      /\ ex' = [ex EXCEPT !.vals = Val] /\ UNCHANGED <<chain, pool, bal>>
  BY DEF ClearHistory
<1>2. TypeOK /\ SharesStarted /\ ex' \in ExportLocals
  BY <1>1, ExType DEF IInv
<1>3. none \in [Periods -> Nat] /\ \A p \in Periods : none[p] = 0
  OBVIOUS
<1>. HIDE DEF none
<1>4. \A v \in Val : /\ Cleared(v) \in ValidatorRewards /\ Cleared(v).info = dist[v].info
                     /\ Cleared(v).slashes = {} /\ Cleared(v).ref = none
  <2>. SUFFICES ASSUME NEW v \in Val
                PROVE  /\ Cleared(v) \in ValidatorRewards /\ Cleared(v).info = dist[v].info
                       /\ Cleared(v).slashes = {} /\ Cleared(v).ref = none
    OBVIOUS
  <2>1. dist[v] \in ValidatorRewards
    BY <1>2 DEF TypeOK
  <2>. QED  BY <2>1, <1>3 DEF ValidatorRewards
<1>. HIDE DEF Cleared
<1>5. TypeOK'
  BY <1>1, <1>2, <1>4 DEF TypeOK, Stages, ExportStages, chain
<1>6. SharesStarted'
  BY <1>1, <1>2, <1>4 DEF SharesStarted, Started, chain
<1>7. LoopsOverDelegations'
  <2>1. ex'.read = ex.read /\ ex.read = AllDelegations
    BY <1>1, <1>2 DEF TypeOK, ExportLocals, IInv, LoopsOverDelegations
  <2>. QED  BY <1>1, <2>1 DEF LoopsOverDelegations, AllDelegations, chain
<1>8. \A v \in Val : dist'[v].slashes = {} /\ \A p \in Periods : dist'[v].ref[p] = 0
  BY <1>1, <1>3, <1>4
<1>9. ex'.vals = Val
  BY <1>1, <1>2 DEF TypeOK
<1>10. Records'
  BY <1>1, <1>8, <1>9 DEF Records, Plain
<1>. QED  BY <1>5, <1>6, <1>7, <1>10 DEF IInv

LEMMA ReinitValidatorStep ==
    ASSUME IInv, NEW v \in Val, ReinitValidator(v)
    PROVE  IInv'
<1>. DEFINE z    == AfterValidatorCreated(dist[v])
            left == ex.vals \ {v}
            dels == IF ex.vals = {v} THEN ex.read ELSE {}
<1>1. /\ pc = "validators" /\ pc' = IF ex.vals = {v} THEN "delegations" ELSE "validators"
      /\ v \in ex.vals
      /\ pool' = pool + dist[v].out /\ dist' = [dist EXCEPT ![v] = z]
      /\ ex' = [ex EXCEPT !.vals = left, !.dels = dels] /\ UNCHANGED <<chain, bal>>
  BY DEF ReinitValidator, NextValidator
<1>2. TypeOK /\ SharesStarted /\ AllDelegations' = AllDelegations /\ ex.read = AllDelegations
  BY <1>1 DEF IInv, LoopsOverDelegations, AllDelegations, chain
<1>3. dels \subseteq Delegation /\ left \in SUBSET Val
  BY <1>2, ExType
<1>4. /\ dist[v] \in ValidatorRewards /\ dist[v].slashes = {}
      /\ \A p \in Periods : dist[v].ref[p] = 0
  BY <1>1, <1>2 DEF TypeOK, IInv, Records
<1>5. z \in ValidatorRewards /\ z.info = dist[v].info /\ Good(z, {})
  BY <1>4, CreatedGood
<1>. HIDE DEF z
<1>6. /\ dist' \in [Val -> ValidatorRewards] /\ dist'[v] = z
      /\ \A w \in Val \ {v} : dist'[w] = dist[w]
  BY <1>1, <1>2, <1>5 DEF TypeOK
<1>7. pool' \in Int
  BY <1>1, <1>2, <1>4 DEF TypeOK, ValidatorRewards
<1>8. SharesStarted'
  BY <1>1, <1>2, <1>5, <1>6 DEF SharesStarted, Started, chain
<1>. HIDE DEF dels
<1>9. /\ ex' \in ExportLocals
      /\ ex'.vals = left /\ ex'.dels = dels /\ ex'.read = ex.read
  BY <1>1, <1>2, <1>3, ExType DEF TypeOK, ExportLocals
<1>10. TypeOK'
  BY <1>1, <1>2, <1>6, <1>7, <1>9 DEF TypeOK, Stages, ExportStages, chain
<1>11. CASE ex.vals = {v}
  <2>1. pc' = "delegations" /\ ex'.dels = AllDelegations /\ ~Plain'
    BY <1>1, <1>2, <1>9, <1>11 DEF dels, Plain
  <2>2. \A w \in Val : Good(dist'[w], {})
    BY <1>1, <1>5, <1>6, <1>11 DEF IInv, Records
  <2>3. \A w \in Val : Initialized(w)' = {}
    BY <1>1, <1>8, <2>1 DEF Initialized, SharesStarted, AllDelegations, Started, Delegation, chain
  <2>4. Records'
    BY <2>1, <2>2, <2>3 DEF Records
  <2>. QED  BY <1>2, <1>8, <1>10, <2>1, <2>4 DEF IInv, LoopsOverDelegations
<1>12. CASE ex.vals # {v}
  <2>1. pc' = "validators" /\ ~Plain'
    BY <1>1, <1>12 DEF Plain
  <2>2. \A w \in Val : IF w \in ex'.vals
                       THEN dist'[w].slashes = {} /\ \A p \in Periods : dist'[w].ref[p] = 0
                       ELSE Good(dist'[w], {})
    BY <1>1, <1>5, <1>6, <1>9 DEF IInv, Records
  <2>3. Records'
    BY <2>1, <2>2 DEF Records
  <2>. QED  BY <1>2, <1>8, <1>9, <1>10, <2>1, <2>3 DEF IInv, LoopsOverDelegations
<1>. QED  BY <1>11, <1>12

LEMMA ReinitDelegationStep ==
    ASSUME IInv, NEW d \in Del, NEW v \in Val, ReinitDelegation(d, v)
    PROVE  IInv'
<1>. DEFINE x == dist[v]
            tokens == staking[v].tokens
            stake  == StakeOf(d, v)
            z == AfterDelegationModified(IncrementValidatorPeriod(x, tokens), d, stake, 0)
            B == Initialized(v)
            C == B \cup {d}
            dels == ex.dels \ {<<d, v>>}
<1>1. /\ pc = "delegations" /\ pc' = pc /\ x.period < MaxPeriod
      /\ ex.dels # {} /\ <<d, v>> = FirstDelegation(ex.dels)
      /\ pool' = pool + Donated(x, tokens) /\ dist' = [dist EXCEPT ![v] = z]
      /\ ex' = [ex EXCEPT !.dels = dels] /\ UNCHANGED <<chain, bal>>
  BY DEF ReinitDelegation
<1>2. TypeOK /\ SharesStarted /\ AllDelegations' = AllDelegations /\ ~Plain'
  BY <1>1 DEF IInv, AllDelegations, chain, Plain
<1>3. <<d, v>> \in ex.dels /\ d \in Started(x)
  BY <1>1, FirstIsADelegation
<1>4. /\ x \in ValidatorRewards /\ tokens \in Int /\ stake \in Int
      /\ B \in SUBSET Del /\ d \in Del \ B /\ Good(x, B)
  BY <1>1, <1>2, <1>3, StakeOfInt
     DEF TypeOK, Validator, Initialized, Started, IInv, Records
<1>5. pool' \in Int
  BY <1>1, <1>2, DonatedInt DEF TypeOK
<1>. HIDE DEF B, x, tokens, stake
<1>6. /\ z = AfterDelegationModified(IncrementValidatorPeriod(x, tokens), d, stake, 0)
      /\ C = B \cup {d}
  OBVIOUS
<1>. HIDE DEF z, C, dels
<1>9. /\ z \in ValidatorRewards /\ Good(z, C)
      /\ z.info[d] # NoInfo /\ \A c \in Del \ {d} : z.info[c] = x.info[c]
  BY <1>1, <1>4, <1>6, NewStartGood
<1>10. Started(z) = Started(x)
  BY <1>3, <1>9 DEF Started
<1>11. /\ dist' \in [Val -> ValidatorRewards] /\ dist'[v] = z
       /\ \A w \in Val \ {v} : dist'[w] = dist[w]
  BY <1>1, <1>2, <1>9 DEF TypeOK
<1>12. SharesStarted'
  BY <1>1, <1>2, <1>10, <1>11 DEF SharesStarted, chain, x
<1>13. dels \subseteq AllDelegations /\ dels \in SUBSET Delegation
  BY <1>1, <1>2, ExType DEF IInv, LoopsOverDelegations, dels
<1>14. /\ ex' \in ExportLocals
       /\ ex'.dels = dels
  BY <1>1, <1>2, <1>13, ExType DEF TypeOK, ExportLocals
<1>15. TypeOK'
  BY <1>1, <1>2, <1>5, <1>11, <1>14 DEF TypeOK, chain
<1>16. LoopsOverDelegations'
  BY <1>1, <1>2, <1>13, <1>14 DEF LoopsOverDelegations
<1>17. Initialized(v)' = C
  BY <1>3, <1>6, <1>10, <1>11, <1>14 DEF Initialized, B, x, dels
<1>18. \A w \in Val \ {v} : Initialized(w)' = Initialized(w)
  BY <1>11, <1>14 DEF Initialized, dels
<1>19. \A w \in Val \ {v} : Good(dist[w], Initialized(w))
  BY <1>1 DEF IInv, Records
<1>20. Records'
  BY <1>1, <1>2, <1>9, <1>11, <1>17, <1>18, <1>19 DEF Records
<1>. QED  BY <1>12, <1>15, <1>16, <1>20 DEF IInv

LEMMA ResetEntriesStep ==
    ASSUME IInv, ResetEntries
    PROVE  IInv'
<1>1. /\ pc = "delegations" /\ ex.dels = {} /\ pc' = "staking"
      /\ entries' = {[e EXCEPT !.at = 0] : e \in entries}
      /\ ex' = [ex EXCEPT !.vals = Val] /\ UNCHANGED <<shares, dist>>
  BY DEF ResetEntries
<1>2. /\ TypeOK /\ SharesStarted /\ Plain' /\ LoopsOverDelegations'
      /\ ex' \in ExportLocals
  BY <1>1, ExType DEF IInv, Plain, LoopsOverDelegations
<1>3. entries' \subseteq Entry
  <2>1. \A e \in entries : [e EXCEPT !.at = 0] \in Entry
    BY <1>2 DEF TypeOK, Entry
  <2>. QED  BY <1>1, <2>1
<1>4. TypeOK'
  BY <1>1, <1>2, <1>3 DEF ResetEntries, TypeOK, Stages, ExportStages
<1>5. \A v \in Val : Good(dist[v], Started(dist[v]))
  <2>1. \A v \in Val : Initialized(v) = Started(dist[v])
    BY <1>1 DEF Initialized, Started
  <2>. QED  BY <1>1, <2>1 DEF IInv, Records
<1>6. \A v \in Val : WellFormed(dist'[v])
  BY <1>1, <1>2, <1>5 DEF WellFormed, TypeOK
<1>7. SharesStarted'
  BY <1>1, <1>2 DEF SharesStarted
<1>. QED  BY <1>2, <1>4, <1>6, <1>7, PlainStep

LEMMA ResetValidatorStep ==
    ASSUME IInv, NEW v \in Val, ResetValidator(v)
    PROVE  IInv'
<1>1. /\ pc = "staking" /\ pc' = IF ex.vals = {v} THEN "apply" ELSE "staking"
      /\ staking' = [staking EXCEPT ![v] = [staking[v] EXCEPT !.unbondingHeight = 0]]
      /\ jailed' \in {jailed, jailed \cup {v}}
      /\ ex' = [ex EXCEPT !.vals = ex.vals \ {v}]
  BY DEF ResetValidator, NextValidator
<1>2. Plain /\ Plain' /\ LoopsOverDelegations' /\ TypeOK
  BY <1>1 DEF IInv, Plain, LoopsOverDelegations
<1>3. ex.vals \ {v} \in SUBSET Val
  BY <1>2, ExType
<1>4. ex' \in ExportLocals
  BY <1>1, <1>2, <1>3, ExType
<1>5. staking' \in [Val -> Validator]
  <2>1. staking \in [Val -> Validator]
    BY <1>2 DEF TypeOK
  <2>2. [staking[v] EXCEPT !.unbondingHeight = 0] \in Validator
    BY <2>1 DEF Validator
  <2>. QED  BY <1>1, <2>1, <2>2
<1>6. TypeOK'
  BY <1>1, <1>2, <1>4, <1>5 DEF ResetValidator, TypeOK, Stages, ExportStages
<1>. QED  BY <1>2, <1>6, SameRecords DEF ResetValidator

LEMMA ApplyStep ==
    ASSUME IInv, ApplyValidatorSetUpdates
    PROVE  IInv'
<1>1. Plain /\ Plain' /\ LoopsOverDelegations'
  BY DEF ApplyValidatorSetUpdates, Plain, LoopsOverDelegations
<1>2. TopValidators \subseteq Val
  BY DEF IInv, TypeOK, TopValidators
<1>3. staking' \in [Val -> Validator] /\ signStart' \in [Val -> Nat]
  BY <1>2, ValidatorSetType DEF IInv, ApplyValidatorSetUpdates
<1>4. TypeOK'
  BY <1>2, <1>3 DEF IInv, ApplyValidatorSetUpdates, TypeOK, Stages, ExportStages
<1>. QED  BY <1>1, <1>4, SameRecords DEF ApplyValidatorSetUpdates

(* The last steps, and the ways in which the export fails.                  *)
LEMMA EndingStep ==
    ASSUME IInv,
           \/ CloseIteratorFails
           \/ ApplyValidatorSetUpdatesPanics
           \/ ResetSigningInfos
           \/ \E d \in Del, v \in Val : WithdrawRewardsPanics(d, v)
    PROVE  IInv'
<1>1. CASE CloseIteratorFails
  <2>1. Plain /\ Plain' /\ LoopsOverDelegations'
    BY <1>1 DEF CloseIteratorFails, Plain, LoopsOverDelegations
  <2>2. ex' \in ExportLocals
    BY <1>1 DEF CloseIteratorFails, IInv, TypeOK, ExportLocals, Modes
  <2>3. TypeOK'
    BY <1>1, <2>2 DEF IInv, CloseIteratorFails, TypeOK, Stages, chain
  <2>. QED  BY <1>1, <2>1, <2>3, SameRecords DEF CloseIteratorFails, chain
<1>2. CASE ApplyValidatorSetUpdatesPanics
  <2>1. Plain /\ Plain' /\ LoopsOverDelegations'
    BY <1>2 DEF ApplyValidatorSetUpdatesPanics, Plain, LoopsOverDelegations
  <2>2. TypeOK'
    BY <1>2 DEF IInv, ApplyValidatorSetUpdatesPanics, TypeOK, Stages, chain
  <2>. QED  BY <1>2, <2>1, <2>2, SameRecords DEF ApplyValidatorSetUpdatesPanics, chain
<1>3. CASE ResetSigningInfos
  <2>1. Plain /\ Plain' /\ LoopsOverDelegations'
    BY <1>3 DEF ResetSigningInfos, Plain, LoopsOverDelegations
  <2>2. TypeOK'
    BY <1>3 DEF IInv, ResetSigningInfos, TypeOK, Stages
  <2>. QED  BY <1>3, <2>1, <2>2, SameRecords DEF ResetSigningInfos
<1>4. CASE \E d \in Del, v \in Val : WithdrawRewardsPanics(d, v)
  <2>1. pc = "rewards" /\ pc' = "panicked" /\ UNCHANGED <<chain, dist, pool, bal, ex>>
    BY <1>4 DEF WithdrawRewardsPanics
  <2>2. Plain /\ Plain' /\ LoopsOverDelegations'
    BY <2>1 DEF Plain, LoopsOverDelegations
  <2>3. TypeOK'
    BY <2>1 DEF IInv, TypeOK, Stages, chain
  <2>. QED  BY <2>1, <2>2, <2>3, SameRecords DEF chain
<1>. QED  BY <1>1, <1>2, <1>3, <1>4

-----------------------------------------------------------------------------
(* The theorems. *)

LEMMA InitRecord ==
    ASSUME NEW v \in Val, NEW z,
           z = AfterDelegationModified(
                 IncrementValidatorPeriod(AfterValidatorCreated(NoRewards), 0),
                 v, Stake * Unit, 0)
    PROVE  WellFormed(z) /\ Started(z) = {v}
<1>. DEFINE x == AfterValidatorCreated(NoRewards)
            stake == Stake * Unit
<1>1. NoRewards \in ValidatorRewards
  BY DEF NoRewards, ValidatorRewards, NoInfo, StartingInfo
<1>2. /\ NoRewards.slashes = {} /\ \A p \in Periods : NoRewards.ref[p] = 0
      /\ NoRewards.info = [d \in Del |-> NoInfo]
  BY DEF NoRewards
<1>3. /\ x \in ValidatorRewards /\ x.period = 1 /\ x.info = NoRewards.info
      /\ Good(x, {})
  BY <1>1, <1>2, CreatedGood
<1>4. z = AfterDelegationModified(IncrementValidatorPeriod(x, 0), v, stake, 0)
  OBVIOUS
<1>5. 0 \in Int /\ stake \in Int
  BY AmountAssumption, UnitAssumption
<1>. HIDE DEF x, stake
<1>6. Started(x) = {} /\ v \in Del
  BY <1>2, <1>3, ValAssumption DEF Started
<1>7. WellFormed(x)
  BY <1>3, <1>6 DEF WellFormed
<1>8. x.period < MaxPeriod
  <2>1. Cardinality(Del) \in Nat /\ Cardinality(Del) # 0
    BY <1>6, BoundAssumption, FS_CardinalityType, FS_EmptySet
  <2>. QED  BY <1>3, <2>1, BoundAssumption, MaxPeriodAssumption
<1>9. v \in Del \ Started(x)
  BY <1>6
<1>. QED  BY <1>4, <1>5, <1>6, <1>7, <1>8, <1>9, NewStartWellFormed

LEMMA InitInvariant == Init => IInv
<1>. SUFFICES ASSUME Init PROVE IInv
  OBVIOUS
<1>. DEFINE Record(v) == AfterDelegationModified(
                           IncrementValidatorPeriod(AfterValidatorCreated(NoRewards), 0),
                           v, Stake * Unit, 0)
<1>1. dist = [v \in Val |-> Record(v)]
  BY DEF Init
<1>2. \A v \in Val : WellFormed(Record(v)) /\ Started(Record(v)) = {v}
  <2>. SUFFICES ASSUME NEW v \in Val
                PROVE  WellFormed(Record(v)) /\ Started(Record(v)) = {v}
    OBVIOUS
  <2>. DEFINE z == Record(v)
  <2>1. z = AfterDelegationModified(
              IncrementValidatorPeriod(AfterValidatorCreated(NoRewards), 0),
              v, Stake * Unit, 0)
    OBVIOUS
  <2>. HIDE DEF z
  <2>2. WellFormed(z) /\ Started(z) = {v}
    BY <2>1, InitRecord
  <2>. QED  BY <2>2 DEF z
<1>. HIDE DEF Record
<1>3. dist \in [Val -> ValidatorRewards] /\ \A v \in Val : WellFormed(dist[v])
  BY <1>1, <1>2 DEF WellFormed
<1>4. Stake \in Int /\ Stake # 0
  BY AmountAssumption
<1>5. TypeOK
  <2>1. TopValidators \subseteq Val
    BY DEF Init, TopValidators
  <2>. QED  BY <1>3, <1>4, <2>1
            DEF Init, TypeOK, Stages, Validator, NoExport, ExportLocals, Modes, Faults
<1>6. SharesStarted
  BY <1>1, <1>2, <1>4 DEF Init, SharesStarted
<1>. QED  BY <1>3, <1>5, <1>6 DEF Init, IInv, LoopsOverDelegations, Records, Plain

LEMMA NextInvariant == IInv /\ [Next]_vars => IInv'
<1>. SUFFICES ASSUME IInv, [Next]_vars PROVE IInv'
  OBVIOUS
<1>1. CASE ChainStep
  BY <1>1, BeginBlockStep, UnjailStep, BeginBlockSlashStep, WithdrawStep, DelegateStep,
     UndelegateStep, RedelegateStep, EndBlockStep, RestartStep DEF ChainStep
<1>2. CASE \E zero, apply \in BOOLEAN, allow \in SUBSET Val, fault \in Faults :
           BeginExport(zero, apply, allow, fault)
  BY <1>2, BeginExportStep
<1>3. CASE ExportStep
  BY <1>3, WithdrawCommissionStep, ReinitValidatorStep, ResetValidatorStep,
     WithdrawRewardsStep, ReinitDelegationStep, ClearHistoryStep, ResetEntriesStep,
     ApplyStep, EndingStep DEF ExportStep
<1>4. CASE UNCHANGED vars
  BY <1>4 DEF vars, IInv, TypeOK, SharesStarted, LoopsOverDelegations, AllDelegations,
              Records, Plain, Initialized
<1>5. CASE Stopped
  BY <1>4, <1>5 DEF Stopped
<1>. QED  BY <1>1, <1>2, <1>3, <1>4, <1>5 DEF Next

(* The inductive invariant holds in every state of every chain and export:  *)
(* types, exact reference counts, and the starting infos that each loop of  *)
(* prepForZeroHeightGenesis has removed or rebuilt so far.                  *)
THEOREM Invariant == Spec => []IInv
<1>. QED  BY InitInvariant, NextInvariant, PTL DEF Spec

(* What is typed stays typed, for every instance: no reference count, above *)
(* all, goes below zero, which is a panic of the keeper.                    *)
THEOREM TypeCorrect == Spec => []TypeOK
<1>1. IInv => TypeOK
  BY DEF IInv
<1>. QED  BY <1>1, Invariant, PTL

(* The starting infos that are backed are those the invariant counts.       *)
LEMMA BackedAreCounted ==
    ASSUME IInv, NEW v \in Val, Live(v)
    PROVE  Good(dist[v], BackedAt(v))
<1>1. CASE Plain
  <2>1. BackedAt(v) = Started(dist[v])
    BY <1>1 DEF BackedAt, Backed, Started, Plain
  <2>. QED  BY <1>1, <2>1 DEF IInv, Records, WellFormed
<1>2. CASE pc = "validators"
  <2>1. BackedAt(v) = {}
    BY <1>2 DEF BackedAt, Backed
  <2>. QED  BY <1>2, <2>1 DEF IInv, Records, Live
<1>3. CASE pc = "delegations"
  <2>1. BackedAt(v) = Initialized(v)
    BY <1>3 DEF BackedAt, Backed, Initialized, Started
  <2>. QED  BY <1>3, <2>1 DEF IInv, Records
<1>. QED  BY <1>1, <1>2, <1>3 DEF Plain

(* In every state of every chain and export the reference count of every    *)
(* historical record is the number of its referrers.                        *)
THEOREM CountsAreExact == Spec => []ReferenceCounts
<1>1. IInv => ReferenceCounts
  BY BackedAreCounted DEF ReferenceCounts, Good
<1>. QED  BY <1>1, Invariant, PTL

(* No past period ever has two referrers: a count never exceeds 2.          *)
THEOREM OneReferrerEach == Spec => []OneReferrer
<1>1. IInv => OneReferrer
  BY BackedAreCounted DEF OneReferrer, Good
<1>. QED  BY <1>1, Invariant, PTL

-----------------------------------------------------------------------------
(* What the keeper's operations do to the rest of the records.              *)

(* The starting info of d becomes i, the others stay. *)
InfoSet(x, d, i, z) == z.info = [x.info EXCEPT ![d] = i]

(* A period ends, with coins given to the community pool and paid out.      *)
Ended(x, given, paid, z) ==
    /\ z.out = (x.out - given) - paid /\ z.cur = 0 /\ z.com = x.com
    /\ z.slashes = x.slashes /\ z.period = x.period + 1

LEMMA IncrementFields ==
    ASSUME NEW x \in ValidatorRewards, NEW tokens,
           NEW y, y = IncrementValidatorPeriod(x, tokens)
    PROVE  /\ y.out = x.out - Donated(x, tokens) /\ y.cur = 0 /\ y.com = x.com
           /\ y.info = x.info /\ y.slashes = x.slashes /\ y.period = x.period + 1
BY DEF IncrementValidatorPeriod, ValidatorRewards

LEMMA SettleFields ==
    ASSUME NEW x \in ValidatorRewards, NEW tokens, NEW d \in Del, NEW current, NEW h,
           NEW z, z = Settle(x, d, tokens, current, h)
    PROVE  /\ Ended(x, Donated(x, tokens), Payout(x, d, tokens, current, h), z)
           /\ InfoSet(x, d, NoInfo, z)
<1>. DEFINE y == IncrementValidatorPeriod(x, tokens)
<1>1. /\ y.out = x.out - Donated(x, tokens) /\ y.cur = 0 /\ y.com = x.com
      /\ y.info = x.info /\ y.slashes = x.slashes /\ y.period = x.period + 1
  <2>. HIDE DEF y
  <2>. QED  BY IncrementFields DEF y
<1>2. y = [y EXCEPT !.out = y.out]
  BY DEF IncrementValidatorPeriod, ValidatorRewards
<1>3. z = [y EXCEPT !.out = y.out - Due(y, x.info[d], h, current),
                    !.ref = Release(y, x.info[d].prev),
                    !.info = [x.info EXCEPT ![d] = NoInfo]]
  BY DEF Settle
<1>4. Payout(x, d, tokens, current, h) = Due(y, x.info[d], h, current)
  BY DEF Payout
<1>5. DOMAIN y = {"period", "cur", "out", "com", "cum", "ref", "slashes", "info"}
  BY DEF IncrementValidatorPeriod, ValidatorRewards
<1>. HIDE DEF y
<1>. QED  BY <1>1, <1>3, <1>4, <1>5 DEF InfoSet, Ended

LEMMA StartFields ==
    ASSUME NEW x \in ValidatorRewards, NEW d \in Del, NEW stake, NEW h,
           NEW z, z = AfterDelegationModified(x, d, stake, h)
    PROVE  /\ z.out = x.out /\ z.cur = x.cur /\ z.com = x.com
           /\ z.slashes = x.slashes /\ z.period = x.period
           /\ InfoSet(x, d, [prev |-> x.period - 1, stake |-> stake, height |-> h], z)
BY DEF InfoSet, AfterDelegationModified, ValidatorRewards

(* A delegation is settled and starts again, or a new one starts.           *)
LEMMA RestartFields ==
    ASSUME NEW x, WellFormed(x), x.period < MaxPeriod, NEW d \in Started(x),
           NEW tokens \in Int, NEW current, NEW h, NEW stake, NEW k,
           NEW z, z = AfterDelegationModified(Settle(x, d, tokens, current, h), d, stake, k)
    PROVE  /\ Ended(x, Donated(x, tokens), Payout(x, d, tokens, current, h), z)
           /\ InfoSet(x, d, [prev |-> x.period, stake |-> stake, height |-> k], z)
<1>. DEFINE y == Settle(x, d, tokens, current, h)
<1>1. x \in ValidatorRewards /\ d \in Del
  BY DEF WellFormed, Started
<1>2. y = Settle(x, d, tokens, current, h)
  OBVIOUS
<1>3. z = AfterDelegationModified(y, d, stake, k)
  OBVIOUS
<1>. HIDE DEF y
<1>4. y \in ValidatorRewards
  BY <1>2, SettleWellFormed DEF WellFormed
<1>5. /\ Ended(x, Donated(x, tokens), Payout(x, d, tokens, current, h), y)
           /\ InfoSet(x, d, NoInfo, y)
  BY <1>1, <1>2, SettleFields
<1>6. /\ z.out = y.out /\ z.cur = y.cur /\ z.com = y.com
      /\ z.slashes = y.slashes /\ z.period = y.period
      /\ InfoSet(y, d, [prev |-> y.period - 1, stake |-> stake, height |-> k], z)
  BY <1>1, <1>3, <1>4, StartFields
<1>7. y.period - 1 = x.period /\ x.info \in [Del -> StartingInfo]
  BY <1>1, <1>5 DEF ValidatorRewards, Ended
<1>8. InfoSet(x, d, [prev |-> x.period, stake |-> stake, height |-> k], z)
  BY <1>1, <1>5, <1>6, <1>7 DEF InfoSet, Ended
<1>. QED  BY <1>5, <1>6, <1>8 DEF Ended

Opened(x, given, z) ==
    /\ z.out = x.out - given /\ z.cur = 0 /\ z.com = x.com
    /\ z.slashes = x.slashes /\ z.period = x.period + 1

LEMMA NewStartFields ==
    ASSUME NEW x \in ValidatorRewards, NEW B \in SUBSET Del, Good(x, B),
           x.period < MaxPeriod, NEW d \in Del, NEW tokens \in Int, NEW stake, NEW k,
           NEW z, z = AfterDelegationModified(IncrementValidatorPeriod(x, tokens),
                                              d, stake, k)
    PROVE  /\ Opened(x, Donated(x, tokens), z)
           /\ InfoSet(x, d, [prev |-> x.period, stake |-> stake, height |-> k], z)
<1>. DEFINE y == IncrementValidatorPeriod(x, tokens)
<1>1. y \in ValidatorRewards
  BY IncrementGood
<1>2. y = IncrementValidatorPeriod(x, tokens)
  OBVIOUS
<1>3. z = AfterDelegationModified(y, d, stake, k)
  OBVIOUS
<1>. HIDE DEF y
<1>4. /\ y.out = x.out - Donated(x, tokens) /\ y.cur = 0 /\ y.com = x.com
      /\ y.info = x.info /\ y.slashes = x.slashes /\ y.period = x.period + 1
  BY <1>2, IncrementFields
<1>5. /\ z.out = y.out /\ z.cur = y.cur /\ z.com = y.com
      /\ z.slashes = y.slashes /\ z.period = y.period
      /\ InfoSet(y, d, [prev |-> y.period - 1, stake |-> stake, height |-> k], z)
  BY <1>1, <1>3, StartFields
<1>6. y.period - 1 = x.period
  BY <1>4 DEF ValidatorRewards
<1>. QED  BY <1>4, <1>5, <1>6 DEF InfoSet, Opened

LEMMA SlashFields ==
    ASSUME NEW x \in ValidatorRewards, NEW B \in SUBSET Del, Good(x, B),
           x.period < MaxPeriod, NEW before \in Nat, NEW after, NEW h,
           NEW z, z = BeforeValidatorSlashed(x, before, after, h)
    PROVE  /\ z.out = x.out - Donated(x, before) /\ z.cur = 0 /\ z.com = x.com
           /\ z.slashes = x.slashes \cup {[height |-> h, period |-> x.period,
                                           before |-> before, after |-> after]}
           /\ z.info = x.info /\ z.period = x.period + 1
<1>. DEFINE y == IncrementValidatorPeriod(x, before)
<1>1. y \in ValidatorRewards
  BY IncrementGood
<1>2. y = IncrementValidatorPeriod(x, before)
  OBVIOUS
<1>3. z = [y EXCEPT !.ref = Retain(y, x.period),
                    !.slashes = x.slashes \cup {[height |-> h, period |-> x.period,
                                                 before |-> before, after |-> after]}]
  BY DEF BeforeValidatorSlashed
<1>. HIDE DEF y
<1>4. /\ y.out = x.out - Donated(x, before) /\ y.cur = 0 /\ y.com = x.com
      /\ y.info = x.info /\ y.period = x.period + 1
  BY <1>2, IncrementFields
<1>. QED  BY <1>1, <1>3, <1>4 DEF ValidatorRewards

LEMMA AllocateFields ==
    ASSUME NEW x \in ValidatorRewards, NEW z, z = Allocate(x)
    PROVE  /\ z.out = x.out + Reward * Unit /\ z.com = x.com + Commission
           /\ z.cur = x.cur + Reward * Unit - Commission
           /\ z.slashes = x.slashes /\ z.info = x.info /\ z.period = x.period
           /\ z.ref = x.ref /\ z.cum = x.cum
BY DEF Allocate, ValidatorRewards

LEMMA CreatedFields ==
    ASSUME NEW x \in ValidatorRewards, NEW z, z = AfterValidatorCreated(x)
    PROVE  /\ z.out = 0 /\ z.com = 0 /\ z.cur = 0 /\ z.period = 1
           /\ z.slashes = x.slashes /\ z.info = x.info
BY DEF AfterValidatorCreated, ValidatorRewards

-----------------------------------------------------------------------------
(* The module account. *)

Outstanding(f) == SumFunctionOnSet([v \in Val |-> f[v].out], Val)

LEMMA ValFinite == IsFiniteSet(Val)
BY ValAssumption, BoundAssumption, FS_Subset

LEMMA OutstandingChange ==
    ASSUME NEW f \in [Val -> ValidatorRewards], NEW g \in [Val -> ValidatorRewards],
           NEW v \in Val, \A w \in Val \ {v} : g[w].out = f[w].out
    PROVE  /\ Outstanding(f) \in Int /\ Outstanding(g) \in Int
           /\ Outstanding(g) = Outstanding(f) - f[v].out + g[v].out
<1>. DEFINE F == [w \in Val |-> f[w].out]
            G == [w \in Val |-> g[w].out]
<1>1. \A w \in Val : F[w] = f[w].out /\ G[w] = g[w].out /\ F[w] \in Int /\ G[w] \in Int
  BY DEF ValidatorRewards
<1>2. Outstanding(f) = SumFunctionOnSet(F, Val) /\ Outstanding(g) = SumFunctionOnSet(G, Val)
  BY DEF Outstanding
<1>. HIDE DEF F, G
<1>3. ChangesAt(v, F, G, Val)
  BY <1>1, ValFinite DEF ChangesAt
<1>4. SumFunctionOnSet(G, Val) = SumFunctionOnSet(F, Val) - F[v] + G[v]
  BY <1>3, SumChange
<1>5. SumFunctionOnSet(F, Val) \in Int /\ SumFunctionOnSet(G, Val) \in Int
  BY <1>1, ValFinite, SumInt
<1>. QED  BY <1>1, <1>2, <1>4, <1>5

(* A payment is cut into whole coins and the rest.                          *)
Splits(b, p, o, given, paid) ==
    (b - paid \div Unit) * Unit = (p + (paid % Unit) + given) + (o - given - paid)

LEMMA PaymentSplits ==
    ASSUME NEW paid \in Int, NEW b \in Int, NEW p \in Int, NEW o \in Int, NEW given \in Int,
           b * Unit = p + o
    PROVE  Splits(b, p, o, given, paid)
<1>. DEFINE q == paid \div Unit
            r == paid % Unit
<1>1. q \in Int /\ r \in Int /\ paid = Unit * q + r
  BY UnitAssumption
<1>. HIDE DEF q, r
<1>2. (b - q) * Unit = b * Unit - Unit * q
  BY <1>1, UnitAssumption
<1>. QED  BY <1>1, <1>2, UnitAssumption DEF q, r, Splits

(* The account after a step that changes the records of v alone.            *)
LEMMA AccountStep ==
    ASSUME TypeOK, TypeOK', ModuleAccount, NEW v \in Val,
           \A w \in Val \ {v} : dist'[w].out = dist[w].out,
           bal' * Unit - bal * Unit = (pool' - pool) + (dist'[v].out - dist[v].out)
    PROVE  ModuleAccount'
<1>. DEFINE f == dist
            g == dist'
            a == f[v].out
            b == g[v].out
<1>1. f \in [Val -> ValidatorRewards] /\ g \in [Val -> ValidatorRewards]
  BY DEF TypeOK
<1>2. a \in Int /\ b \in Int
  BY <1>1 DEF ValidatorRewards
<1>3. \A w \in Val \ {v} : g[w].out = f[w].out
  OBVIOUS
<1>4. bal * Unit = pool + Outstanding(f) /\ (ModuleAccount' <=> bal' * Unit = pool' + Outstanding(g))
  BY DEF ModuleAccount, Outstanding
<1>. HIDE DEF f, g
<1>5. /\ Outstanding(f) \in Int /\ Outstanding(g) \in Int
      /\ Outstanding(g) = Outstanding(f) - f[v].out + g[v].out
  BY <1>1, <1>3, OutstandingChange
<1>6. bal * Unit \in Int /\ bal' * Unit \in Int /\ pool \in Int /\ pool' \in Int
  BY UnitAssumption DEF TypeOK
<1>7. bal' * Unit - bal * Unit = (pool' - pool) + (b - a)
  BY DEF f, g
<1>. HIDE DEF a, b
<1>8. Outstanding(g) = Outstanding(f) - a + b
  BY <1>5 DEF a, b
<1>9. bal' * Unit = pool' + Outstanding(g)
  BY <1>2, <1>4, <1>5, <1>6, <1>7, <1>8
<1>. QED  BY <1>4, <1>9

LEMMA AccountUnchanged ==
    ASSUME TypeOK, TypeOK', ModuleAccount, UNCHANGED <<pool, bal>>,
           \A w \in Val : dist'[w].out = dist[w].out
    PROVE  ModuleAccount'
<1>1. PICK v : v \in Val
  BY ValAssumption
<1>2. dist[v].out \in Int /\ dist'[v].out = dist[v].out /\ bal * Unit \in Int /\ pool \in Int
  BY <1>1, UnitAssumption DEF TypeOK, ValidatorRewards
<1>3. bal' * Unit - bal * Unit = (pool' - pool) + (dist'[v].out - dist[v].out)
  BY <1>2
<1>. QED  BY <1>1, <1>3, AccountStep

LEMMA BeginBlockAccount ==
    ASSUME TypeOK, TypeOK', ModuleAccount, NEW v \in Val, BeginBlock(v)
    PROVE  ModuleAccount'
<1>. DEFINE z == Allocate(dist[v])
<1>1. dist' = [dist EXCEPT ![v] = z] /\ bal' = bal + Reward /\ pool' = pool
  BY DEF BeginBlock, StartBlock
<1>2. /\ dist \in [Val -> ValidatorRewards] /\ dist[v] \in ValidatorRewards
      /\ bal \in Int /\ pool \in Int
  BY DEF TypeOK
<1>. HIDE DEF z
<1>3. z.out = dist[v].out + Reward * Unit
  BY <1>2, AllocateFields DEF z
<1>4. dist'[v].out = dist[v].out + Reward * Unit
  BY <1>1, <1>2, <1>3
<1>5. \A w \in Val \ {v} : dist'[w].out = dist[w].out
  BY <1>1, <1>2
<1>6. dist[v].out \in Int /\ Reward \in Int /\ Unit \in Int
  BY <1>2, AmountAssumption, UnitAssumption DEF ValidatorRewards
<1>7. bal' * Unit = bal * Unit + Reward * Unit /\ bal * Unit \in Int /\ Reward * Unit \in Int
  BY <1>1, <1>2, <1>6
<1>8. bal' * Unit - bal * Unit = (pool' - pool) + (dist'[v].out - dist[v].out)
  BY <1>1, <1>2, <1>4, <1>6, <1>7
<1>. QED  BY <1>5, <1>8, AccountStep

LEMMA BeginBlockSlashAccount ==
    ASSUME IInv, TypeOK', ModuleAccount, NEW v \in Val, NEW w \in Val, BeginBlockSlash(v, w)
    PROVE  ModuleAccount'
<1>. DEFINE allocated == [dist EXCEPT ![v] = Allocate(dist[v])]
            before    == staking[w].tokens
            after     == before - before \div 2
            x         == allocated[w]
            z         == BeforeValidatorSlashed(x, before, after, height + 1)
<1>1. /\ TypeOK /\ StartBlock(v) /\ PeriodsLeft(w) /\ before > 0
      /\ dist' = [allocated EXCEPT ![w] = z]
      /\ bal' = bal + Reward /\ pool' = pool
  BY DEF IInv, BeginBlockSlash, StartBlock
<1>2. /\ dist \in [Val -> ValidatorRewards] /\ dist[v] \in ValidatorRewards
      /\ bal \in Int /\ pool \in Int /\ before \in Nat
  <2>1. staking[w].tokens \in Int
    BY <1>1 DEF TypeOK, Validator
  <2>. QED  BY <1>1, <2>1 DEF TypeOK
<1>3. \A u \in Val : WellFormed(dist[u])
  BY <1>1, StartBlockType DEF IInv, Records
<1>4. /\ WellFormed(Allocate(dist[v]))
      /\ Allocate(dist[v]).period = dist[v].period
      /\ Allocate(dist[v]).out = dist[v].out + Reward * Unit
  BY <1>2, <1>3, AllocateWellFormed, AllocateFields
<1>5. /\ \A u \in Val : WellFormed(allocated[u]) /\ allocated[u].period = dist[u].period
      /\ allocated[v].out = dist[v].out + Reward * Unit
      /\ \A u \in Val \ {v} : allocated[u].out = dist[u].out
      /\ allocated \in [Val -> ValidatorRewards]
  BY <1>2, <1>3, <1>4 DEF WellFormed
<1>6. x = allocated[w] /\ z = BeforeValidatorSlashed(x, before, after, height + 1)
  OBVIOUS
<1>7. x \in ValidatorRewards /\ Started(x) \in SUBSET Del /\ Good(x, Started(x))
  BY <1>5 DEF WellFormed, Started
<1>. HIDE DEF z, x, allocated, before, after
<1>8. x.period < MaxPeriod
  BY <1>1, <1>5, <1>6, PeriodsLeftBound
<1>9. z.out = x.out - Donated(x, before)
  BY <1>2, <1>6, <1>7, <1>8, SlashFields
<1>10. z.out = x.out
  BY <1>1, <1>2, <1>7, <1>9 DEF Donated, ValidatorRewards
<1>11. \A u \in Val : dist'[u].out = allocated[u].out
  BY <1>1, <1>5, <1>6, <1>10
<1>12. dist[v].out \in Int /\ Reward \in Int /\ Unit \in Int
  BY <1>2, AmountAssumption, UnitAssumption DEF ValidatorRewards
<1>13. bal' * Unit = bal * Unit + Reward * Unit /\ bal * Unit \in Int /\ Reward * Unit \in Int
  BY <1>1, <1>2, <1>12
<1>14. bal' * Unit - bal * Unit = (pool' - pool) + (dist'[v].out - dist[v].out)
  BY <1>1, <1>2, <1>5, <1>11, <1>12, <1>13
<1>15. \A u \in Val \ {v} : dist'[u].out = dist[u].out
  BY <1>5, <1>11
<1>. QED  BY <1>1, <1>14, <1>15, AccountStep

(* What is paid to a delegator leaves the account in whole coins, the rest  *)
(* goes to the community pool.                                              *)
LEMMA PaidAccount ==
    ASSUME TypeOK, TypeOK', ModuleAccount, NEW v \in Val, NEW d, NEW h,
           WellFormed(dist[v]), dist[v].period < MaxPeriod, PaidOut(d, v, h),
           NEW z, dist' = [dist EXCEPT ![v] = z],
           z.out = (dist[v].out - Donated(dist[v], staking[v].tokens)) - PayoutOf(d, v, h)
    PROVE  ModuleAccount'
<1>. DEFINE given == Donated(dist[v], staking[v].tokens)
            paid  == PayoutOf(d, v, h)
            all   == Outstanding(dist)
<1>1. staking[v].tokens \in Int /\ pool \in Int /\ bal \in Int /\ dist[v].out \in Int
  BY DEF TypeOK, Validator, ValidatorRewards
<1>2. paid \in Int /\ given \in Int
  BY <1>1, PayoutInt DEF PayoutOf
<1>3. bal' = bal - paid \div Unit /\ pool' = pool + (paid % Unit) + given
  BY DEF PaidOut
<1>4. /\ dist \in [Val -> ValidatorRewards] /\ dist'[v] = z
      /\ \A w \in Val \ {v} : dist'[w].out = dist[w].out
  BY DEF TypeOK
<1>5. dist'[v].out = (dist[v].out - given) - paid
  BY <1>4
<1>. HIDE DEF given, paid
<1>6. bal * Unit = pool + all
  BY DEF ModuleAccount, Outstanding
<1>7. all \in Int
  BY <1>4, OutstandingChange
<1>. HIDE DEF all
<1>8. Splits(bal, pool, all, given, paid)
  BY <1>1, <1>2, <1>6, <1>7, PaymentSplits
<1>9. bal' * Unit = pool' + (all - given - paid)
  BY <1>3, <1>8 DEF Splits
<1>10. pool' \in Int
  BY DEF TypeOK
<1>11. bal' * Unit - bal * Unit = (pool' - pool) + (dist'[v].out - dist[v].out)
  BY <1>1, <1>2, <1>5, <1>6, <1>7, <1>9, <1>10
<1>. QED  BY <1>4, <1>11, AccountStep

(* A new delegation starts: what the old records donate is in the pool.     *)
LEMMA GivenAccount ==
    ASSUME TypeOK, TypeOK', ModuleAccount, NEW v \in Val,
           NEW given, pool' = pool + given, bal' = bal,
           NEW z, dist' = [dist EXCEPT ![v] = z], z.out = dist[v].out - given, given \in Int
    PROVE  ModuleAccount'
<1>1. /\ dist \in [Val -> ValidatorRewards] /\ dist'[v].out = dist[v].out - given
      /\ \A w \in Val \ {v} : dist'[w].out = dist[w].out
  BY DEF TypeOK
<1>2. pool \in Int /\ bal * Unit \in Int /\ dist[v].out \in Int
  BY UnitAssumption DEF TypeOK, ValidatorRewards
<1>3. bal' * Unit - bal * Unit = (pool' - pool) + (dist'[v].out - dist[v].out)
  BY <1>1, <1>2
<1>. QED  BY <1>1, <1>3, AccountStep

LEMMA WithdrawAccount ==
    ASSUME IInv, TypeOK', ModuleAccount, NEW d \in Del, NEW v \in Val, Withdraw(d, v)
    PROVE  ModuleAccount'
<1>. DEFINE tokens == staking[v].tokens
            stake  == StakeOf(d, v)
            x == dist[v]
            z == AfterDelegationModified(Settle(x, d, tokens, stake, height), d, stake, height)
<1>1. /\ Transaction(d, v) /\ shares[v][d] # 0 /\ PaidOut(d, v, height)
      /\ dist' = [dist EXCEPT ![v] = z]
  BY DEF Withdraw, Settled
<1>2. /\ TypeOK /\ WellFormed(x) /\ x.period < MaxPeriod /\ d \in Started(x)
      /\ tokens \in Int
  BY <1>1, TransactionType
<1>3. /\ z = AfterDelegationModified(Settle(x, d, tokens, stake, height), d, stake, height)
      /\ PayoutOf(d, v, height) = Payout(x, d, tokens, stake, height)
  BY DEF PayoutOf
<1>. HIDE DEF stake, z
<1>4. Ended(x, Donated(x, tokens), Payout(x, d, tokens, stake, height), z)
  BY <1>2, <1>3, RestartFields
<1>5. z.out = (x.out - Donated(x, tokens)) - PayoutOf(d, v, height)
  BY <1>3, <1>4 DEF Ended
<1>. QED  BY <1>1, <1>2, <1>5, PaidAccount

(* The records after a delegation, by a delegator of v or by a new one.     *)
DelegationMade(x, d, v, k, stake, paid, new) ==
    /\ new.validator = k /\ new.shares = shares[v][d] + k.shares - staking[v].shares
    /\ Ended(x, Donated(x, staking[v].tokens), paid, new.dist)
    /\ InfoSet(x, d, [prev |-> x.period, stake |-> stake, height |-> height], new.dist)

LEMMA DelegatedFields ==
    ASSUME IInv, NEW d \in Del, NEW v \in Val, NEW amount,
           WellFormed(dist[v]), dist[v].period < MaxPeriod, NEW x, x = dist[v],
           NEW new, new = Delegated(d, v, amount), NEW k, k = AddTokens(staking[v], amount),
           NEW stake, stake = TokensFromShares(k, new.shares),
           NEW paid, paid = IF shares[v][d] = 0 THEN 0 ELSE PayoutOf(d, v, height)
    PROVE  DelegationMade(x, d, v, k, stake, paid, new)
<1>. DEFINE tokens  == staking[v].tokens
            current == StakeOf(d, v)
            y == IF shares[v][d] = 0 THEN IncrementValidatorPeriod(x, tokens)
                 ELSE Settle(x, d, tokens, current, height)
<1>1. /\ new.validator = k /\ new.shares = shares[v][d] + k.shares - staking[v].shares
      /\ new.dist = AfterDelegationModified(y, d, stake, height)
  BY DEF Delegated, Settled
<1>2. /\ x \in ValidatorRewards /\ Started(x) \in SUBSET Del /\ Good(x, Started(x))
      /\ tokens \in Int /\ (shares[v][d] # 0 <=> d \in Started(x)) /\ x.out \in Int
      /\ Donated(x, tokens) \in Int
  BY DonatedInt DEF WellFormed, Started, IInv, SharesStarted, TypeOK, Validator, ValidatorRewards
<1>3. PayoutOf(d, v, height) = Payout(x, d, tokens, current, height)
  BY DEF PayoutOf
<1>. HIDE DEF current, tokens
<1>4. CASE shares[v][d] = 0
  <2>1. new.dist = AfterDelegationModified(IncrementValidatorPeriod(x, tokens), d, stake, height)
    BY <1>1, <1>4
  <2>2. /\ Opened(x, Donated(x, tokens), new.dist)
        /\ InfoSet(x, d, [prev |-> x.period, stake |-> stake, height |-> height], new.dist)
    BY <1>2, <2>1, NewStartFields
  <2>. QED  BY <1>1, <1>2, <1>4, <2>2 DEF Opened, Ended, tokens, DelegationMade
<1>5. CASE shares[v][d] # 0
  <2>1. new.dist = AfterDelegationModified(Settle(x, d, tokens, current, height),
                                           d, stake, height)
    BY <1>1, <1>5
  <2>2. d \in Started(x)
    BY <1>2, <1>5
  <2>3. /\ Ended(x, Donated(x, tokens), Payout(x, d, tokens, current, height), new.dist)
        /\ InfoSet(x, d, [prev |-> x.period, stake |-> stake, height |-> height], new.dist)
    BY <1>2, <2>1, <2>2, RestartFields
  <2>. QED  BY <1>1, <1>3, <1>5, <2>3 DEF tokens, DelegationMade
<1>. QED  BY <1>4, <1>5

LEMMA DelegateAccount ==
    ASSUME IInv, TypeOK', ModuleAccount, NEW d \in Del, NEW v \in Val, Delegate(d, v)
    PROVE  ModuleAccount'
<1>. DEFINE new == Delegated(d, v, Stake)
            x == dist[v]
            given == Donated(x, staking[v].tokens)
            k     == AddTokens(staking[v], Stake)
            stake == TokensFromShares(k, new.shares)
            paid  == IF shares[v][d] = 0 THEN 0 ELSE PayoutOf(d, v, height)
<1>1. Transaction(d, v) /\ dist' = [dist EXCEPT ![v] = new.dist]
  BY DEF Delegate
<1>2. TypeOK /\ WellFormed(x) /\ x.period < MaxPeriod
  BY <1>1, TransactionType
<1>3. /\ new = Delegated(d, v, Stake)
      /\ k = AddTokens(staking[v], Stake) /\ stake = TokensFromShares(k, new.shares)
      /\ paid = IF shares[v][d] = 0 THEN 0 ELSE PayoutOf(d, v, height)
  OBVIOUS
<1>. HIDE DEF new, k, stake, paid
<1>4. Ended(x, given, paid, new.dist)
  <2>1. DelegationMade(x, d, v, k, stake, paid, new)
    BY <1>2, <1>3, DelegatedFields
  <2>. QED  BY <2>1 DEF DelegationMade
<1>5. x.out \in Int /\ given \in Int
  BY <1>2, DonatedInt DEF TypeOK, ValidatorRewards
<1>6. CASE shares[v][d] = 0
  <2>1. pool' = pool + given /\ bal' = bal
    BY <1>6 DEF Delegate
  <2>2. new.dist.out = x.out - given
    BY <1>4, <1>5, <1>6 DEF Ended, paid
  <2>. QED  BY <1>1, <1>2, <1>5, <2>1, <2>2, GivenAccount
<1>7. CASE shares[v][d] # 0
  <2>1. PaidOut(d, v, height)
    BY <1>7 DEF Delegate
  <2>2. new.dist.out = (x.out - given) - PayoutOf(d, v, height)
    BY <1>4, <1>7 DEF Ended, paid
  <2>. QED  BY <1>1, <1>2, <2>1, <2>2, PaidAccount
<1>. QED  BY <1>6, <1>7

LEMMA UndelegateAccount ==
    ASSUME IInv, TypeOK', ModuleAccount, NEW d \in Del, NEW v \in Val, Undelegate(d, v)
    PROVE  ModuleAccount'
<1>. DEFINE tokens == staking[v].tokens
            stake  == StakeOf(d, v)
            x == dist[v]
            z == Settle(x, d, tokens, stake, height)
<1>1. Transaction(d, v) /\ PaidOut(d, v, height) /\ dist' = [dist EXCEPT ![v] = z]
  BY DEF Undelegate, Settled
<1>2. TypeOK /\ WellFormed(x) /\ x.period < MaxPeriod /\ x \in ValidatorRewards
  BY <1>1, TransactionType DEF WellFormed
<1>3. /\ z = Settle(x, d, tokens, stake, height)
      /\ PayoutOf(d, v, height) = Payout(x, d, tokens, stake, height)
  BY DEF PayoutOf
<1>. HIDE DEF stake, z
<1>4. Ended(x, Donated(x, tokens), Payout(x, d, tokens, stake, height), z)
  BY <1>2, <1>3, SettleFields
<1>5. z.out = (x.out - Donated(x, tokens)) - PayoutOf(d, v, height)
  BY <1>3, <1>4 DEF Ended
<1>. QED  BY <1>1, <1>2, <1>5, PaidAccount

LEMMA RedelegateAccount ==
    ASSUME IInv, TypeOK', ModuleAccount, NEW d \in Del, NEW v \in Val, NEW w \in Val,
           Redelegate(d, v, w)
    PROVE  ModuleAccount'
<1>. DEFINE tokens == staking[v].tokens
            current == StakeOf(d, v)
            x == dist[v]
            amount == TokensOf(staking[v], shares[v][d])
            z   == Settle(x, d, tokens, current, height)
            new == Delegated(d, w, amount)
            paid  == PayoutOf(d, v, height)
            given == Donated(x, tokens)
            more  == Donated(dist[w], staking[w].tokens)
            k     == AddTokens(staking[w], amount)
            stake == TokensFromShares(k, new.shares)
            none  == IF shares[w][d] = 0 THEN 0 ELSE PayoutOf(d, w, height)
<1>1. /\ Transaction(d, v) /\ v # w /\ shares[w][d] = 0 /\ shares[v][d] # 0 /\ PeriodsLeft(w)
      /\ dist' = [dist EXCEPT ![v] = z, ![w] = new.dist]
      /\ bal' = bal - paid \div Unit
      /\ pool' = pool + (paid % Unit) + given + more
  BY DEF Redelegate, Settled
<1>2. /\ TypeOK /\ WellFormed(x) /\ x.period < MaxPeriod /\ x \in ValidatorRewards
      /\ tokens \in Int /\ d \in Started(x)
  BY <1>1, TransactionType DEF WellFormed
<1>3. WellFormed(dist[w]) /\ dist[w].period < MaxPeriod
  BY <1>1, <1>2, TransactionType, PeriodsLeftBound DEF IInv, Records
<1>4. /\ z = Settle(x, d, tokens, current, height)
      /\ paid = Payout(x, d, tokens, current, height)
      /\ new = Delegated(d, w, amount) /\ k = AddTokens(staking[w], amount)
      /\ stake = TokensFromShares(k, new.shares)
      /\ none = IF shares[w][d] = 0 THEN 0 ELSE PayoutOf(d, w, height)
  BY DEF PayoutOf
<1>. HIDE DEF tokens, current, amount, z, new, paid, k, stake, none
<1>5. given \in Int /\ more \in Int /\ paid \in Int
  BY <1>2, <1>4, DonatedInt, PayoutInt DEF tokens
<1>. HIDE DEF given, more
<1>6. z.out = (x.out - given) - paid /\ z \in ValidatorRewards
  <2>1. Ended(x, Donated(x, tokens), Payout(x, d, tokens, current, height), z)
    BY <1>2, <1>4, SettleFields
  <2>2. WellFormed(z)
    BY <1>2, <1>4, SettleWellFormed
  <2>. QED  BY <1>4, <2>1, <2>2 DEF Ended, given, WellFormed
<1>7. new.dist.out = dist[w].out - more
  <2>1. DelegationMade(dist[w], d, w, k, stake, none, new)
    BY <1>3, <1>4, DelegatedFields
  <2>2. none = 0
    BY <1>1, <1>4
  <2>3. dist[w].out \in Int
    BY <1>2 DEF TypeOK, ValidatorRewards
  <2>. QED  BY <1>5, <2>1, <2>2, <2>3 DEF DelegationMade, Ended, more
<1>. DEFINE f == dist
            g == [f EXCEPT ![v] = z]
            h == dist'
<1>8. /\ f \in [Val -> ValidatorRewards] /\ h \in [Val -> ValidatorRewards]
      /\ h = [f EXCEPT ![v] = z, ![w] = new.dist]
      /\ bal \in Int /\ pool \in Int /\ pool' \in Int /\ f[v] = x
  BY <1>1, <1>2 DEF TypeOK
<1>9. bal * Unit = pool + Outstanding(f) /\ (ModuleAccount' <=> bal' * Unit = pool' + Outstanding(h))
  BY DEF ModuleAccount, Outstanding
<1>10. f[w].out \in Int /\ f[v].out \in Int /\ new.dist.out = f[w].out - more
  BY <1>7, <1>8 DEF ValidatorRewards
<1>. HIDE DEF f, h
<1>11. /\ g \in [Val -> ValidatorRewards] /\ g[v] = z /\ \A u \in Val \ {v} : g[u] = f[u]
       /\ h[w] = new.dist /\ \A u \in Val \ {w} : h[u] = g[u]
  BY <1>1, <1>6, <1>8
<1>12. \A u \in Val \ {v} : g[u].out = f[u].out
  BY <1>11
<1>13. \A u \in Val \ {w} : h[u].out = g[u].out
  BY <1>11
<1>. HIDE DEF g
<1>14. /\ Outstanding(f) \in Int /\ Outstanding(g) \in Int
       /\ Outstanding(g) = Outstanding(f) - f[v].out + g[v].out
  <2>1. f \in [Val -> ValidatorRewards] /\ g \in [Val -> ValidatorRewards]
    BY <1>8, <1>11
  <2>. QED  BY <1>12, <2>1, OutstandingChange
<1>15. /\ Outstanding(h) \in Int
       /\ Outstanding(h) = Outstanding(g) - g[w].out + h[w].out
  <2>1. /\ g \in [Val -> ValidatorRewards] /\ h \in [Val -> ValidatorRewards]
        /\ w \in Val
    BY <1>8, <1>11
  <2>. QED  BY <1>13, <2>1, OutstandingChange
<1>16. g[w] = f[w] /\ z.out = (f[v].out - given) - paid
  BY <1>1, <1>6, <1>8, <1>11
<1>17. Outstanding(h) = Outstanding(f) - given - paid - more
  BY <1>5, <1>10, <1>11, <1>14, <1>15, <1>16
<1>18. Splits(bal, pool, Outstanding(f), given, paid)
  BY <1>5, <1>8, <1>9, <1>14, PaymentSplits
<1>19. paid % Unit \in Int
  BY <1>5, UnitAssumption
<1>20. bal' * Unit = (pool + (paid % Unit) + given) + (Outstanding(f) - given - paid)
  BY <1>1, <1>18 DEF Splits
<1>. QED  BY <1>1, <1>5, <1>8, <1>9, <1>14, <1>17, <1>19, <1>20

LEMMA WithdrawCommissionAccount ==
    ASSUME TypeOK, TypeOK', ModuleAccount, NEW v \in Val, WithdrawCommission(v)
    PROVE  ModuleAccount'
<1>. DEFINE coins == dist[v].com \div Unit
            com   == dist[v].com - coins * Unit
            out   == dist[v].out - coins * Unit
<1>1. /\ dist' = [dist EXCEPT ![v] = [dist[v] EXCEPT !.com = com, !.out = out]]
      /\ bal' = bal - coins /\ pool' = pool
  BY DEF WithdrawCommission
<1>2. /\ dist \in [Val -> ValidatorRewards] /\ dist[v] \in ValidatorRewards
      /\ bal \in Int /\ pool \in Int /\ Unit \in Int
  BY UnitAssumption DEF TypeOK
<1>3. coins \in Int /\ dist[v].out \in Int
  BY <1>2, UnitAssumption DEF ValidatorRewards
<1>. HIDE DEF coins
<1>4. out = dist[v].out - coins * Unit
  OBVIOUS
<1>. HIDE DEF com, out
<1>5. dist'[v].out = out /\ \A w \in Val \ {v} : dist'[w].out = dist[w].out
  BY <1>1, <1>2 DEF ValidatorRewards
<1>6. bal' * Unit = bal * Unit - coins * Unit /\ bal * Unit \in Int /\ coins * Unit \in Int
  BY <1>1, <1>2, <1>3
<1>7. bal' * Unit - bal * Unit = (pool' - pool) + (dist'[v].out - dist[v].out)
  BY <1>1, <1>2, <1>3, <1>4, <1>5, <1>6
<1>. QED  BY <1>5, <1>7, AccountStep

LEMMA WithdrawRewardsAccount ==
    ASSUME IInv, TypeOK', ModuleAccount, NEW d \in Del, NEW v \in Val, WithdrawRewards(d, v)
    PROVE  ModuleAccount'
<1>. DEFINE tokens == staking[v].tokens
            stake  == StakeOf(d, v)
            x == dist[v]
            z == AfterDelegationModified(Settle(x, d, tokens, stake, 0), d, stake, 0)
<1>1. /\ pc = "rewards" /\ x.period < MaxPeriod /\ PaidOut(d, v, 0)
      /\ dist' = [dist EXCEPT ![v] = z]
  BY DEF WithdrawRewards, Settled
<1>2. TypeOK /\ WellFormed(x) /\ tokens \in Int
  BY <1>1 DEF Plain, IInv, Records, TypeOK, Validator
<1>3. d \in Started(x)
  BY <1>1, FirstIsADelegation DEF WithdrawRewards
<1>4. /\ z = AfterDelegationModified(Settle(x, d, tokens, stake, 0), d, stake, 0)
      /\ PayoutOf(d, v, 0) = Payout(x, d, tokens, stake, 0)
  BY DEF PayoutOf
<1>. HIDE DEF stake, z
<1>5. Ended(x, Donated(x, tokens), Payout(x, d, tokens, stake, 0), z)
  BY <1>1, <1>2, <1>3, <1>4, RestartFields
<1>6. z.out = (x.out - Donated(x, tokens)) - PayoutOf(d, v, 0)
  BY <1>4, <1>5 DEF Ended
<1>. QED  BY <1>1, <1>2, <1>6, PaidAccount

LEMMA ReinitValidatorAccount ==
    ASSUME TypeOK, TypeOK', ModuleAccount, NEW v \in Val, ReinitValidator(v)
    PROVE  ModuleAccount'
<1>. DEFINE z == AfterValidatorCreated(dist[v])
            given == dist[v].out
<1>1. dist' = [dist EXCEPT ![v] = z] /\ pool' = pool + given /\ bal' = bal
  BY DEF ReinitValidator
<1>2. dist[v] \in ValidatorRewards /\ given \in Int
  BY DEF TypeOK, ValidatorRewards
<1>3. z = AfterValidatorCreated(dist[v])
  OBVIOUS
<1>. HIDE DEF z
<1>4. z.out = 0
  BY <1>2, <1>3, CreatedFields
<1>5. z.out = dist[v].out - given
  BY <1>2, <1>4
<1>. QED  BY <1>1, <1>2, <1>5, GivenAccount

LEMMA ReinitDelegationAccount ==
    ASSUME IInv, TypeOK', ModuleAccount, NEW d \in Del, NEW v \in Val, ReinitDelegation(d, v)
    PROVE  ModuleAccount'
<1>. DEFINE tokens == staking[v].tokens
            stake  == StakeOf(d, v)
            x == dist[v]
            B == Initialized(v)
            z == AfterDelegationModified(IncrementValidatorPeriod(x, tokens), d, stake, 0)
            given == Donated(x, tokens)
<1>1. /\ pc = "delegations" /\ x.period < MaxPeriod
      /\ dist' = [dist EXCEPT ![v] = z] /\ pool' = pool + given /\ bal' = bal
  BY DEF ReinitDelegation
<1>2. /\ TypeOK /\ x \in ValidatorRewards /\ tokens \in Int
      /\ B \in SUBSET Del /\ Good(x, B)
  BY <1>1 DEF TypeOK, Validator, Initialized, Started, IInv, Records
<1>3. z = AfterDelegationModified(IncrementValidatorPeriod(x, tokens), d, stake, 0)
  OBVIOUS
<1>4. given \in Int
  BY <1>2, DonatedInt
<1>5. x.period < MaxPeriod
  BY <1>1
<1>. HIDE DEF stake, z, x, tokens, B
<1>6. z.out = x.out - Donated(x, tokens)
  <2>1. Opened(x, Donated(x, tokens), z)
    BY <1>2, <1>3, <1>5, NewStartFields
  <2>. QED  BY <2>1 DEF Opened
<1>. QED  BY <1>1, <1>2, <1>4, <1>6, GivenAccount DEF x

LEMMA InitAccount == Init => ModuleAccount
<1>. SUFFICES ASSUME Init PROVE ModuleAccount
  OBVIOUS
<1>. DEFINE y == IncrementValidatorPeriod(AfterValidatorCreated(NoRewards), 0)
            Record(v) == AfterDelegationModified(y, v, Stake * Unit, 0)
            F == [v \in Val |-> dist[v].out]
            zero == [v \in Val |-> 0]
<1>1. y.out = 0
  BY MaxPeriodAssumption DEF IncrementValidatorPeriod, AfterValidatorCreated, NoRewards, Donated
<1>2. dist = [v \in Val |-> Record(v)] /\ bal = 0 /\ pool = 0
  BY DEF Init
<1>3. \A v \in Val : Record(v).out = y.out
  BY DEF AfterDelegationModified, IncrementValidatorPeriod, AfterValidatorCreated, NoRewards
<1>. HIDE DEF y, Record
<1>4. \A v \in Val : F[v] = 0
  BY <1>1, <1>2, <1>3
<1>5. \A v \in Val : F[v] = zero[v]
  BY <1>4
<1>6. SumFunctionOnSet(F, Val) = 0
  BY <1>4, ValFinite, SumZero
<1>. QED  BY <1>2, <1>6, UnitAssumption DEF ModuleAccount

LEMMA ClearedFields ==
    ASSUME TypeOK, ClearHistory, NEW v \in Val
    PROVE  /\ dist'[v].out = dist[v].out /\ dist'[v].info = dist[v].info
           /\ dist'[v].slashes = {}
<1>. DEFINE none == [p \in Periods |-> 0]
            z == [dist[v] EXCEPT !.slashes = {}, !.ref = none]
<1>1. dist'[v] = z
  BY DEF ClearHistory
<1>2. dist[v] \in ValidatorRewards
  BY DEF TypeOK
<1>. HIDE DEF none
<1>3. z.out = dist[v].out /\ z.info = dist[v].info /\ z.slashes = {}
  BY <1>2 DEF ValidatorRewards
<1>. QED  BY <1>1, <1>3

LEMMA NextAccount == IInv /\ IInv' /\ ModuleAccount /\ [Next]_vars => ModuleAccount'
<1>. SUFFICES ASSUME IInv, IInv', ModuleAccount, [Next]_vars PROVE ModuleAccount'
  OBVIOUS
<1>. TypeOK /\ TypeOK'
  BY DEF IInv
<1>1. CASE UNCHANGED <<dist, pool, bal>>
  BY <1>1, AccountUnchanged
<1>2. CASE ChainStep
  <2>1. CASE \E v \in Val : Unjail(v)
    BY <1>1, <2>1 DEF Unjail
  <2>2. CASE EndBlock \/ Restart
    BY <1>1, <2>2 DEF EndBlock, Restart
  <2>. QED  BY <1>2, <2>1, <2>2, BeginBlockAccount, BeginBlockSlashAccount,
               WithdrawAccount, DelegateAccount, UndelegateAccount, RedelegateAccount
            DEF ChainStep
<1>3. CASE \E zero, apply \in BOOLEAN, allow \in SUBSET Val, fault \in Faults :
           BeginExport(zero, apply, allow, fault)
  BY <1>1, <1>3 DEF BeginExport
<1>4. CASE ExportStep
  <2>1. CASE ClearHistory
    <3>1. \A v \in Val : dist'[v].out = dist[v].out
      BY <2>1, ClearedFields
    <3>. QED  BY <2>1, <3>1, AccountUnchanged DEF ClearHistory
  <2>2. CASE \/ \E v \in Val : ResetValidator(v)
             \/ \E d \in Del, v \in Val : WithdrawRewardsPanics(d, v)
    BY <1>1, <2>2 DEF ResetValidator, WithdrawRewardsPanics
  <2>3. CASE \/ ResetEntries \/ CloseIteratorFails \/ ResetSigningInfos
             \/ ApplyValidatorSetUpdates \/ ApplyValidatorSetUpdatesPanics
    BY <1>1, <2>3 DEF ResetEntries, CloseIteratorFails, ResetSigningInfos,
                      ApplyValidatorSetUpdates, ApplyValidatorSetUpdatesPanics
  <2>. QED  BY <1>4, <2>1, <2>2, <2>3, WithdrawCommissionAccount, WithdrawRewardsAccount,
               ReinitValidatorAccount, ReinitDelegationAccount
            DEF ExportStep
<1>5. CASE Stopped \/ UNCHANGED vars
  BY <1>1, <1>5 DEF Stopped, vars
<1>. QED  BY <1>2, <1>3, <1>4, <1>5 DEF Next

(* The distribution module account holds exactly what is outstanding and    *)
(* what is in the community pool, in every state of every chain and export: *)
(* whatever is withdrawn, cut off, donated or thrown together by            *)
(* prepForZeroHeightGenesis is accounted for, to the last decimal.          *)
THEOREM AccountBalanced == Spec => []ModuleAccount
<1>. QED  BY InitAccount, NextAccount, Invariant, PTL DEF Spec

-----------------------------------------------------------------------------
(* The new chain: what FreshStart says of the exported state comes about    *)
(* loop by loop.                                                            *)

Rebuilt ==
    \/ pc \in {"delegations", "staking", "apply", "signing"}
    \/ pc = "exported" /\ ex.mode # "height"

SlashesCleared == Rebuilt \/ pc = "validators" => \A v \in Val : dist[v].slashes = {}

Empty(x) == x.out = 0 /\ x.com = 0 /\ x.cur = 0

Emptied ==
    \A v \in Val : Rebuilt \/ (pc = "validators" /\ v \notin ex.vals) => Empty(dist[v])

StartsAnew(d, v) == dist[v].info[d].height = 0 /\ dist[v].info[d].stake = StakeOf(d, v)

Restarted ==
    Rebuilt => \A v \in Val, d \in Del :
        shares[v][d] # 0 /\ (pc = "delegations" => <<d, v>> \notin ex.dels)
            => StartsAnew(d, v)

EntriesReset == Rebuilt /\ pc # "delegations" => \A e \in entries : e.at = 0

ValidatorsReset ==
    Rebuilt /\ pc # "delegations" => \A v \in Val :
        (pc = "staking" => v \notin ex.vals) => staking[v].unbondingHeight = 0

SigningReset == pc = "exported" /\ ex.mode = "zero" => \A v \in Val : signStart[v] = 0

(* The validator set is up to date: its update in the export changes        *)
(* nothing.                                                                 *)
SetUpToDate == pc = "committed" \/ pc \in ExportStages => bonded = TopValidators

FreshSoFar ==
    /\ SlashesCleared /\ Emptied /\ Restarted
    /\ EntriesReset /\ ValidatorsReset /\ SigningReset /\ SetUpToDate

(* Nothing is said of a chain or of an export that has rebuilt nothing yet. *)
LEMMA NothingRebuilt ==
    ASSUME \/ pc' \in {"genesis", "block", "committed", "commission", "rewards", "panicked"}
           \/ pc' = "exported" /\ ex'.mode = "height",
           SetUpToDate'
    PROVE  FreshSoFar'
BY DEF FreshSoFar, SlashesCleared, Emptied, Restarted, EntriesReset, ValidatorsReset,
       SigningReset, Rebuilt

LEMMA SameTop ==
    ASSUME TypeOK, powerIndex' = powerIndex,
           \A v \in Val : staking'[v].tokens = staking[v].tokens
    PROVE  TopValidators' = TopValidators
<1>1. powerIndex \subseteq Val
  BY DEF TypeOK
<1>2. \A v, w \in powerIndex : Outranks(w, v)' <=> Outranks(w, v)
  BY <1>1 DEF Outranks
<1>3. \A v \in powerIndex : Above(v, powerIndex)' = Above(v, powerIndex)
  BY <1>2 DEF Above
<1>. QED  BY <1>1, <1>3 DEF TopValidators

LEMMA SameStake ==
    ASSUME NEW d \in Del, NEW v \in Val,
           staking'[v].tokens = staking[v].tokens, staking'[v].shares = staking[v].shares,
           shares'[v][d] = shares[v][d]
    PROVE  StakeOf(d, v)' = StakeOf(d, v)
BY DEF StakeOf, TokensFromShares

(* The set stays up to date while powers stay.                              *)
LEMMA SameSet ==
    ASSUME TypeOK, SetUpToDate, pc = "committed" \/ pc \in ExportStages,
           bonded' = bonded, powerIndex' = powerIndex,
           \A v \in Val : staking'[v].tokens = staking[v].tokens
    PROVE  SetUpToDate'
BY SameTop DEF SetUpToDate

LEMMA StagesOfChain ==
    ASSUME ChainStep
    PROVE  EndBlock \/ pc' \in {"genesis", "block", "panicked"}
<1>1. ASSUME NEW d \in Del, NEW v \in Val, NEW w \in Val,
             Withdraw(d, v) \/ Delegate(d, v) \/ Undelegate(d, v) \/ Redelegate(d, v, w)
      PROVE  Transaction(d, v)
  BY <1>1 DEF Withdraw, Delegate, Undelegate, Redelegate
<1>2. ASSUME NEW d \in Del, NEW v \in Val, Transaction(d, v) PROVE pc' = "block"
  BY <1>2 DEF Transaction
<1>3. ASSUME NEW v \in Val, NEW w \in Val,
             BeginBlock(v) \/ Unjail(v) \/ BeginBlockSlash(v, w)
      PROVE  pc' = "block"
  BY <1>3 DEF BeginBlock, Unjail, BeginBlockSlash, StartBlock
<1>4. ASSUME Restart PROVE pc' \in {"genesis", "panicked"}
  BY <1>4 DEF Restart
<1>. QED  BY <1>1, <1>2, <1>3, <1>4 DEF ChainStep

LEMMA ChainFresh ==
    ASSUME IInv, FreshSoFar, ChainStep
    PROVE  FreshSoFar'
<1>1. CASE EndBlock
  <2>1. \A v \in Val : staking'[v].tokens = staking[v].tokens
    <3>. SUFFICES ASSUME NEW v \in Val PROVE staking'[v].tokens = staking[v].tokens
      OBVIOUS
    <3>1. staking[v] \in Validator
      BY DEF IInv, TypeOK
    <3>. QED  BY <1>1, <3>1 DEF EndBlock, Validator
  <2>2. TopValidators' = TopValidators
    BY <1>1, <2>1, SameTop DEF IInv, EndBlock
  <2>3. SetUpToDate' /\ pc' = "committed"
    BY <1>1, <2>2 DEF EndBlock, SetUpToDate
  <2>. QED  BY <2>3, NothingRebuilt
<1>2. CASE ~EndBlock
  <2>1. pc' \in {"genesis", "block", "panicked"}
    BY <1>2, StagesOfChain
  <2>2. SetUpToDate'
    BY <2>1 DEF SetUpToDate, ExportStages
  <2>. QED  BY <2>1, <2>2, NothingRebuilt
<1>. QED  BY <1>1, <1>2

LEMMA BeginExportFresh ==
    ASSUME IInv, FreshSoFar, NEW zero \in BOOLEAN, NEW apply \in BOOLEAN,
           NEW allow \in SUBSET Val, NEW fault \in Faults, BeginExport(zero, apply, allow, fault)
    PROVE  FreshSoFar'
<1>1. /\ pc = "committed" /\ UNCHANGED <<bonded, powerIndex, staking>>
      /\ \/ pc' \in {"commission", "panicked"}
         \/ pc' = "exported" /\ ex'.mode = "height"
  BY DEF BeginExport, chain
<1>2. SetUpToDate'
  BY <1>1, SameSet DEF IInv, FreshSoFar
<1>. QED  BY <1>1, <1>2, NothingRebuilt

(* The steps before the historical records are deleted, and the panics.     *)
LEMMA EarlyFresh ==
    ASSUME IInv, FreshSoFar,
           \/ \E v \in Val : WithdrawCommission(v)
           \/ \E d \in Del, v \in Val : WithdrawRewards(d, v) \/ WithdrawRewardsPanics(d, v)
           \/ ApplyValidatorSetUpdatesPanics
    PROVE  FreshSoFar'
<1>1. /\ pc \in ExportStages /\ UNCHANGED <<bonded, powerIndex, staking>>
      /\ pc' \in {"commission", "rewards", "panicked"}
  BY DEF ExportStages, WithdrawCommission, NextValidator, WithdrawRewards, chain,
         WithdrawRewardsPanics, ApplyValidatorSetUpdatesPanics
<1>2. SetUpToDate'
  BY <1>1, SameSet DEF IInv, FreshSoFar
<1>. QED  BY <1>1, <1>2, NothingRebuilt

LEMMA ClearHistoryFresh ==
    ASSUME IInv, FreshSoFar, ClearHistory
    PROVE  FreshSoFar'
<1>1. /\ pc = "rewards" /\ pc' = "validators" /\ ex' = [ex EXCEPT !.vals = Val]
      /\ UNCHANGED <<bonded, powerIndex, staking>>
  BY DEF ClearHistory, chain
<1>2. SetUpToDate'
  BY <1>1, SameSet DEF IInv, FreshSoFar, ExportStages
<1>3. \A v \in Val : dist'[v].slashes = {}
  BY ClearedFields DEF IInv
<1>4. ex'.vals = Val
  BY <1>1 DEF IInv, TypeOK
<1>. QED  BY <1>1, <1>2, <1>3, <1>4
          DEF FreshSoFar, SlashesCleared, Emptied, Restarted, EntriesReset, ValidatorsReset,
              SigningReset, Rebuilt

LEMMA ReinitValidatorFresh ==
    ASSUME IInv, FreshSoFar, NEW v \in Val, ReinitValidator(v)
    PROVE  FreshSoFar'
<1>. DEFINE z    == AfterValidatorCreated(dist[v])
            left == ex.vals \ {v}
            dels == IF ex.vals = {v} THEN ex.read ELSE {}
<1>1. /\ pc = "validators" /\ pc' = IF ex.vals = {v} THEN "delegations" ELSE "validators"
      /\ v \in ex.vals
      /\ dist' = [dist EXCEPT ![v] = z]
      /\ ex' = [ex EXCEPT !.vals = left, !.dels = dels] /\ UNCHANGED chain
  BY DEF ReinitValidator, NextValidator
<1>2. dist \in [Val -> ValidatorRewards] /\ dist[v] \in ValidatorRewards /\ ex.read = AllDelegations
  BY <1>1 DEF IInv, TypeOK, LoopsOverDelegations
<1>3. z = AfterValidatorCreated(dist[v])
  OBVIOUS
<1>. HIDE DEF z
<1>4. Empty(z) /\ z.slashes = dist[v].slashes
  BY <1>2, <1>3, CreatedFields DEF Empty
<1>5. dist'[v] = z /\ \A w \in Val \ {v} : dist'[w] = dist[w]
  BY <1>1, <1>2
<1>6. ex'.vals = left /\ ex'.dels = dels
  BY <1>1 DEF IInv, TypeOK, ExportLocals
<1>7. SetUpToDate'
  <2>1. UNCHANGED <<bonded, powerIndex, staking>>
    BY <1>1 DEF chain
  <2>. QED  BY <1>1, <2>1, SameSet DEF IInv, FreshSoFar, ExportStages
<1>8. SlashesCleared'
  BY <1>1, <1>4, <1>5 DEF FreshSoFar, SlashesCleared
<1>9. Emptied'
  <2>. SUFFICES ASSUME NEW w \in Val, w # v, (Rebuilt \/ (pc = "validators" /\ w \notin ex.vals))'
                PROVE  Empty(dist[w])
    BY <1>4, <1>5 DEF Emptied
  <2>1. w \notin ex.vals
    BY <1>1, <1>6 DEF Rebuilt
  <2>. QED  BY <1>1, <2>1 DEF FreshSoFar, Emptied
<1>10. Restarted'
  <2>. SUFFICES ASSUME Rebuilt', NEW w \in Val, NEW d \in Del, shares'[w][d] # 0
                PROVE  pc' = "delegations" /\ <<d, w>> \in ex'.dels
    BY DEF Restarted
  <2>1. pc' = "delegations" /\ ex.vals = {v}
    BY <1>1 DEF Rebuilt
  <2>2. <<d, w>> \in AllDelegations
    BY <1>1 DEF AllDelegations, Delegation, chain
  <2>. QED  BY <1>2, <1>6, <2>1, <2>2
<1>11. EntriesReset' /\ ValidatorsReset' /\ SigningReset'
  BY <1>1 DEF EntriesReset, ValidatorsReset, SigningReset, Rebuilt
<1>. QED  BY <1>7, <1>8, <1>9, <1>10, <1>11 DEF FreshSoFar

LEMMA ReinitDelegationFresh ==
    ASSUME IInv, FreshSoFar, NEW d \in Del, NEW v \in Val, ReinitDelegation(d, v)
    PROVE  FreshSoFar'
<1>. DEFINE x == dist[v]
            tokens == staking[v].tokens
            stake  == StakeOf(d, v)
            z == AfterDelegationModified(IncrementValidatorPeriod(x, tokens), d, stake, 0)
            B == Initialized(v)
            dels == ex.dels \ {<<d, v>>}
            i == [prev |-> x.period, stake |-> stake, height |-> 0]
<1>1. /\ pc = "delegations" /\ pc' = "delegations"
      /\ dist' = [dist EXCEPT ![v] = z]
      /\ ex' = [ex EXCEPT !.dels = dels] /\ UNCHANGED chain
  BY DEF ReinitDelegation
<1>2. /\ x \in ValidatorRewards /\ tokens \in Int /\ B \in SUBSET Del /\ Good(x, B)
      /\ x.info \in [Del -> StartingInfo]
  BY <1>1 DEF IInv, TypeOK, Validator, Initialized, Started, Records, ValidatorRewards
<1>3. /\ z = AfterDelegationModified(IncrementValidatorPeriod(x, tokens), d, stake, 0)
      /\ i = [prev |-> x.period, stake |-> stake, height |-> 0]
  OBVIOUS
<1>4. x.period < MaxPeriod
  BY DEF ReinitDelegation
<1>5. Empty(x) /\ x.slashes = {}
  BY <1>1 DEF FreshSoFar, Emptied, SlashesCleared, Rebuilt
<1>6. dist'[v] = z /\ \A w \in Val \ {v} : dist'[w] = dist[w]
  BY <1>1 DEF IInv, TypeOK
<1>7. ex'.dels = dels
  BY <1>1 DEF IInv, TypeOK
<1>. HIDE DEF x, z, tokens, B, stake
<1>8. Opened(x, Donated(x, tokens), z) /\ InfoSet(x, d, i, z)
  BY <1>2, <1>3, <1>4, NewStartFields
<1>. HIDE DEF i
<1>9. Empty(z) /\ z.slashes = {}
  BY <1>5, <1>8 DEF Opened, Empty, Donated
<1>10. z.info[d] = i /\ \A c \in Del \ {d} : z.info[c] = x.info[c]
  BY <1>2, <1>8 DEF InfoSet
<1>11. SetUpToDate'
  <2>1. UNCHANGED <<bonded, powerIndex, staking>>
    BY <1>1 DEF chain
  <2>. QED  BY <1>1, <2>1, SameSet DEF IInv, FreshSoFar, ExportStages
<1>12. SlashesCleared' /\ Emptied'
  BY <1>1, <1>6, <1>9 DEF FreshSoFar, SlashesCleared, Emptied, Rebuilt
<1>13. Restarted'
  <2>. SUFFICES ASSUME NEW w \in Val, NEW c \in Del, shares'[w][c] # 0, <<c, w>> \notin dels
                PROVE  StartsAnew(c, w)'
    BY <1>1, <1>7 DEF Restarted
  <2>1. StakeOf(c, w)' = StakeOf(c, w) /\ shares[w][c] # 0
    BY <1>1, SameStake DEF chain
  <2>2. CASE c = d /\ w = v
    <3>1. dist'[w].info[c] = i
      BY <1>6, <1>10, <2>2
    <3>2. i.height = 0 /\ i.stake = StakeOf(c, w)
      BY <2>2 DEF i, stake
    <3>. QED  BY <2>1, <3>1, <3>2 DEF StartsAnew
  <2>3. CASE ~(c = d /\ w = v)
    <3>1. dist'[w].info[c] = dist[w].info[c]
      BY <1>6, <1>10, <2>3 DEF x
    <3>2. StartsAnew(c, w)
      BY <1>1, <2>1, <2>3 DEF FreshSoFar, Restarted, Rebuilt
    <3>. QED  BY <2>1, <3>1, <3>2 DEF StartsAnew
  <2>. QED  BY <2>2, <2>3
<1>14. EntriesReset' /\ ValidatorsReset' /\ SigningReset'
  BY <1>1 DEF EntriesReset, ValidatorsReset, SigningReset
<1>. QED  BY <1>11, <1>12, <1>13, <1>14 DEF FreshSoFar

(* After the loops over validators and delegations their records stay.      *)
LEMMA RecordsStayFresh ==
    ASSUME FreshSoFar, Rebuilt, pc = "delegations" => ex.dels = {}, UNCHANGED <<dist, shares>>,
           \A v \in Val : /\ staking'[v].tokens = staking[v].tokens
                          /\ staking'[v].shares = staking[v].shares
    PROVE  SlashesCleared' /\ Emptied' /\ Restarted'
<1>1. ASSUME NEW v \in Val, NEW d \in Del, shares[v][d] # 0 PROVE StartsAnew(d, v)'
  <2>1. StartsAnew(d, v)
    BY <1>1 DEF FreshSoFar, Restarted
  <2>2. StakeOf(d, v)' = StakeOf(d, v)
    BY SameStake
  <2>. QED  BY <2>1, <2>2 DEF StartsAnew
<1>. QED  BY <1>1 DEF FreshSoFar, SlashesCleared, Emptied, Restarted

LEMMA ResetEntriesFresh ==
    ASSUME IInv, FreshSoFar, ResetEntries
    PROVE  FreshSoFar'
<1>1. /\ pc = "delegations" /\ ex.dels = {} /\ pc' = "staking"
      /\ entries' = {[e EXCEPT !.at = 0] : e \in entries}
      /\ ex' = [ex EXCEPT !.vals = Val]
      /\ UNCHANGED <<shares, dist, staking, bonded, powerIndex>>
  BY DEF ResetEntries
<1>2. SlashesCleared' /\ Emptied' /\ Restarted'
  BY <1>1, RecordsStayFresh DEF Rebuilt
<1>3. SetUpToDate'
  BY <1>1, SameSet DEF IInv, FreshSoFar, ExportStages
<1>4. \A e \in entries : [e EXCEPT !.at = 0].at = 0
  BY DEF IInv, TypeOK, Entry
<1>5. EntriesReset'
  BY <1>1, <1>4 DEF EntriesReset
<1>6. ex'.vals = Val
  BY <1>1 DEF IInv, TypeOK
<1>7. ValidatorsReset' /\ SigningReset'
  BY <1>1, <1>6 DEF ValidatorsReset, SigningReset
<1>. QED  BY <1>2, <1>3, <1>5, <1>7 DEF FreshSoFar

LEMMA ResetValidatorFresh ==
    ASSUME IInv, FreshSoFar, NEW v \in Val, ResetValidator(v)
    PROVE  FreshSoFar'
<1>. DEFINE k == [staking[v] EXCEPT !.unbondingHeight = 0]
<1>1. /\ pc = "staking" /\ pc' = IF ex.vals = {v} THEN "apply" ELSE "staking"
      /\ staking' = [staking EXCEPT ![v] = k]
      /\ ex' = [ex EXCEPT !.vals = ex.vals \ {v}]
      /\ UNCHANGED <<shares, dist, entries, bonded, powerIndex>>
  BY DEF ResetValidator, NextValidator
<1>2. staking \in [Val -> Validator]
  BY DEF IInv, TypeOK
<1>3. k.tokens = staking[v].tokens /\ k.shares = staking[v].shares /\ k.unbondingHeight = 0
  BY <1>2 DEF Validator
<1>. HIDE DEF k
<1>4. \A w \in Val : /\ staking'[w].tokens = staking[w].tokens
                     /\ staking'[w].shares = staking[w].shares
                     /\ staking'[w].unbondingHeight
                           = IF w = v THEN 0 ELSE staking[w].unbondingHeight
  BY <1>1, <1>2, <1>3
<1>5. SlashesCleared' /\ Emptied' /\ Restarted'
  BY <1>1, <1>4, RecordsStayFresh DEF Rebuilt
<1>6. SetUpToDate'
  BY <1>1, <1>4, SameSet DEF IInv, FreshSoFar, ExportStages
<1>7. EntriesReset' /\ SigningReset'
  BY <1>1 DEF FreshSoFar, EntriesReset, SigningReset, Rebuilt
<1>8. ex'.vals = ex.vals \ {v}
  BY <1>1 DEF IInv, TypeOK
<1>9. ValidatorsReset'
  <2>. SUFFICES ASSUME NEW w \in Val, (pc = "staking" => w \notin ex.vals)'
                PROVE  staking'[w].unbondingHeight = 0
    BY DEF ValidatorsReset
  <2>1. CASE w = v
    BY <1>4, <2>1
  <2>2. CASE w # v
    <3>1. w \notin ex.vals
      BY <1>1, <1>8, <2>2
    <3>. QED  BY <1>1, <1>4, <2>2, <3>1 DEF FreshSoFar, ValidatorsReset, Rebuilt
  <2>. QED  BY <2>1, <2>2
<1>. QED  BY <1>5, <1>6, <1>7, <1>9 DEF FreshSoFar

LEMMA ApplyFresh ==
    ASSUME IInv, FreshSoFar, ApplyValidatorSetUpdates
    PROVE  FreshSoFar'
<1>1. bonded = TopValidators /\ pc = "apply" /\ pc' = "signing"
  BY DEF ApplyValidatorSetUpdates, FreshSoFar, SetUpToDate, ExportStages
<1>2. \A v \in Val : staking'[v] = staking[v]
  BY <1>1 DEF ApplyValidatorSetUpdates
<1>3. bonded' = bonded /\ UNCHANGED <<shares, dist, entries, powerIndex>>
  BY <1>1 DEF ApplyValidatorSetUpdates
<1>4. SlashesCleared' /\ Emptied' /\ Restarted'
  BY <1>1, <1>2, <1>3, RecordsStayFresh DEF Rebuilt
<1>5. SetUpToDate'
  BY <1>1, <1>2, <1>3, SameSet DEF IInv, FreshSoFar, ExportStages
<1>6. EntriesReset' /\ ValidatorsReset' /\ SigningReset'
  BY <1>1, <1>2, <1>3 DEF FreshSoFar, EntriesReset, ValidatorsReset, SigningReset, Rebuilt
<1>. QED  BY <1>4, <1>5, <1>6 DEF FreshSoFar

LEMMA EndingFresh ==
    ASSUME IInv, FreshSoFar, CloseIteratorFails \/ ResetSigningInfos
    PROVE  FreshSoFar'
<1>1. /\ pc \in {"apply", "signing"} /\ pc' = "exported"
      /\ UNCHANGED <<shares, dist, entries, powerIndex, staking>>
  BY DEF CloseIteratorFails, ResetSigningInfos, chain
<1>2. SlashesCleared' /\ Emptied' /\ Restarted'
  BY <1>1, RecordsStayFresh DEF Rebuilt
<1>3. SetUpToDate'
  BY <1>1 DEF SetUpToDate, ExportStages
<1>4. SigningReset'
  <2>1. CASE CloseIteratorFails
    <3>1. ex'.mode = "partial"
      BY <2>1 DEF CloseIteratorFails, IInv, TypeOK
    <3>. QED  BY <3>1 DEF SigningReset
  <2>2. CASE ResetSigningInfos
    BY <2>2 DEF ResetSigningInfos, SigningReset
  <2>. QED  BY <2>1, <2>2
<1>5. EntriesReset' /\ ValidatorsReset'
  BY <1>1 DEF FreshSoFar, EntriesReset, ValidatorsReset, Rebuilt
<1>. QED  BY <1>2, <1>3, <1>4, <1>5 DEF FreshSoFar

LEMMA InitFresh == Init => FreshSoFar
BY DEF Init, FreshSoFar, SlashesCleared, Emptied, Restarted, EntriesReset, ValidatorsReset,
       SigningReset, SetUpToDate, Rebuilt, ExportStages

LEMMA NextFresh == IInv /\ FreshSoFar /\ [Next]_vars => FreshSoFar'
<1>. SUFFICES ASSUME IInv, FreshSoFar, [Next]_vars PROVE FreshSoFar'
  OBVIOUS
<1>1. CASE ChainStep
  BY <1>1, ChainFresh
<1>2. CASE \E zero, apply \in BOOLEAN, allow \in SUBSET Val, fault \in Faults :
           BeginExport(zero, apply, allow, fault)
  BY <1>2, BeginExportFresh
<1>3. CASE ExportStep
  BY <1>3, EarlyFresh, ClearHistoryFresh, ReinitValidatorFresh, ReinitDelegationFresh,
     ResetEntriesFresh, ResetValidatorFresh, ApplyFresh, EndingFresh DEF ExportStep
<1>4. CASE UNCHANGED vars
  BY <1>4, SameTop
     DEF IInv, vars, FreshSoFar, SlashesCleared, Emptied, Restarted, EntriesReset,
         ValidatorsReset, SigningReset, SetUpToDate, Rebuilt, StartsAnew, StakeOf
<1>5. CASE Stopped
  BY <1>4, <1>5 DEF Stopped
<1>. QED  BY <1>1, <1>2, <1>3, <1>4, <1>5 DEF Next

LEMMA FreshAlways == Spec => []FreshSoFar
<1>. QED  BY InitFresh, NextFresh, Invariant, PTL DEF Spec

(* The state exported for height zero refers to no height of the old chain, *)
(* leaves nothing outstanding and starts every delegation anew with its     *)
(* stake of today; signing infos keep their heights only when the iterator  *)
(* failed to close.                                                         *)
THEOREM StartsFresh == Spec => []FreshStart
<1>1. IInv /\ FreshSoFar => FreshStart
  <2>. SUFFICES ASSUME IInv, FreshSoFar, pc = "exported", ex.mode # "height"
                PROVE  FreshStart
    BY DEF FreshStart
  <2>1. \A v \in Val, d \in Del : shares[v][d] = 0 => dist[v].info[d] = NoInfo
    BY DEF IInv, SharesStarted, Started
  <2>2. \A v \in Val, d \in Del :
           shares[v][d] # 0 => /\ dist[v].info[d].height = 0
                               /\ dist[v].info[d].stake = StakeOf(d, v)
    BY DEF FreshSoFar, Restarted, Rebuilt, StartsAnew
  <2>3. \A v \in Val : /\ dist[v].slashes = {}
                       /\ dist[v].out = 0 /\ dist[v].com = 0 /\ dist[v].cur = 0
                       /\ staking[v].unbondingHeight = 0
                       /\ ex.mode = "zero" => signStart[v] = 0
    BY DEF FreshSoFar, SlashesCleared, Emptied, ValidatorsReset, SigningReset, Rebuilt, Empty
  <2>4. \A e \in entries : e.at = 0
    BY DEF FreshSoFar, EntriesReset, Rebuilt
  <2>. QED  BY <2>1, <2>2, <2>3, <2>4 DEF FreshStart
<1>. QED  BY <1>1, Invariant, FreshAlways, PTL
-----------------------------------------------------------------------------
(* Tokens and shares.  A delegation is worth its part of the validator's    *)
(* tokens; rounding is always in favour of those who stay, so that only a   *)
(* slash makes it worth less.                                               *)

AddsUp(k, f) ==
    /\ k.tokens \in Nat /\ \A d \in Del : f[d] \in Nat
    /\ SumFunctionOnSet(f, Del) = k.shares

StakesAdd == \A v \in Val : AddsUp(staking[v], shares[v])

KeepsWorth(k, n) == k.shares > 0 /\ n.shares > 0 => n.tokens * k.shares >= k.tokens * n.shares

Better(k, n, f, g) == AddsUp(n, g) /\ KeepsWorth(k, n)

LEMMA FloorBound ==
    ASSUME NEW a \in Nat, NEW b \in Nat \ {0}
    PROVE  a \div b \in Nat /\ (a \div b) * b <= a /\ \A q \in Nat : q * b <= a => q <= a \div b
<1>. DEFINE r == a \div b
<1>1. r \in Nat /\ r * b <= a /\ a < (r + 1) * b
  OBVIOUS
<1>. HIDE DEF r
<1>2. ASSUME NEW q \in Nat, q * b <= a PROVE q <= r
  <2>. SUFFICES ASSUME q >= r + 1 PROVE FALSE
    BY <1>1
  <2>1. q * b >= (r + 1) * b
    BY <1>1
  <2>. QED  BY <1>1, <1>2, <2>1
<1>3. r = a \div b
  BY DEF r
<1>. QED  BY <1>1, <1>2, <1>3

LEMMA WorthNat ==
    ASSUME NEW k \in Validator, k.tokens \in Nat, NEW s \in Nat
    PROVE  TokensFromShares(k, s) \in Nat
<1>. DEFINE a == s * k.tokens * Unit
            b == k.shares
<1>1. CASE k.shares <= 0
  BY <1>1 DEF TokensFromShares
<1>2. CASE ~(k.shares <= 0)
  <2>1. a \in Nat
    BY UnitAssumption
  <2>2. b \in Nat \ {0}
    BY <1>2 DEF Validator
  <2>3. TokensFromShares(k, s) = a \div b
    BY <1>2 DEF TokensFromShares
  <2>. HIDE DEF a, b
  <2>. QED  BY <2>1, <2>2, <2>3, FloorBound
<1>. QED  BY <1>1, <1>2

(* Where worth is kept, no delegation is worth less.                        *)
LEMMA WorthKept ==
    ASSUME NEW k \in Validator, NEW n \in Validator, k.tokens \in Nat, n.tokens \in Nat,
           k.shares > 0, n.shares > 0, KeepsWorth(k, n), NEW s \in Nat
    PROVE  TokensFromShares(k, s) <= TokensFromShares(n, s)
<1>. DEFINE T == k.tokens
            S == k.shares
            V == n.tokens
            N == n.shares
            a == s * T * Unit
            b == s * V * Unit
            q == a \div S
            r == b \div N
<1>1. /\ T \in Nat /\ V \in Nat /\ S \in Nat \ {0} /\ N \in Nat \ {0} /\ V * S >= T * N
      /\ Unit \in Nat
  BY UnitAssumption DEF Validator, KeepsWorth
<1>2. TokensFromShares(k, s) = q /\ TokensFromShares(n, s) = r
  BY <1>1 DEF TokensFromShares
<1>3. a \in Nat /\ b \in Nat
  BY <1>1
<1>4. s * Unit \in Nat /\ a = (s * Unit) * T /\ b = (s * Unit) * V
  <2>. HIDE DEF T, V
  <2>. QED  BY <1>1
<1>. HIDE DEF T, S, V, N, a, b, q, r
<1>5. /\ q \in Nat /\ q * S <= a
      /\ \A p \in Nat : p * N <= b => p <= r
  <2>1. q \in Nat /\ q * S <= a
    BY <1>1, <1>3, FloorBound DEF q
  <2>2. \A p \in Nat : p * N <= b => p <= r
    BY <1>1, <1>3, FloorBound DEF r
  <2>. QED  BY <2>1, <2>2
<1>6. q * N <= b
  <2>. DEFINE m == s * Unit
  <2>1. m \in Nat /\ a = m * T /\ b = m * V
    BY <1>4
  <2>. HIDE DEF m
  <2>2. (q * S) * N <= (m * T) * N
    BY <1>1, <1>3, <1>5, <2>1
  <2>3. (m * T) * N = m * (T * N) /\ m * (T * N) <= m * (V * S)
    BY <1>1, <2>1
  <2>4. (q * N) * S = (q * S) * N /\ m * (V * S) = b * S
    BY <1>1, <1>5, <2>1
  <2>5. (q * N) * S <= b * S
    BY <2>2, <2>3, <2>4, <1>1, <1>3, <1>5, <2>1
  <2>6. q * N \in Nat
    BY <1>1, <1>5
  <2>. DEFINE c == q * N
  <2>. HIDE DEF c
  <2>7. c \in Nat /\ c * S <= b * S
    BY <2>5, <2>6 DEF c
  <2>8. c <= b
    BY <1>1, <1>3, <2>7
  <2>. QED  BY <2>8 DEF c
<1>. QED  BY <1>2, <1>5, <1>6

LEMMA DelFinite == IsFiniteSet(Del)
BY BoundAssumption

LEMMA AddsUpBound ==
    ASSUME NEW k, NEW f, AddsUp(k, f), NEW d \in Del
    PROVE  f[d] \in Nat /\ f[d] <= k.shares /\ k.shares \in Nat
<1>1. /\ \A c \in Del : f[c] \in Nat
      /\ SumFunctionOnSet(f, Del) = k.shares
  BY DEF AddsUp
<1>2. f[d] <= SumFunctionOnSet(f, Del)
  BY <1>1, DelFinite, SumBounds
<1>3. SumFunctionOnSet(f, Del) \in Nat
  BY <1>1, DelFinite, SumNat
<1>. QED  BY <1>1, <1>2, <1>3

(* The shares f become g, of which d has s.                                 *)
ShareSet(f, d, s, g) == f \in [Del -> Int] /\ g = [f EXCEPT ![d] = s]

SharesOf(g, total) ==
    /\ \A c \in Del : g[c] \in Nat
    /\ SumFunctionOnSet(g, Del) = total

LEMMA SharesChange ==
    ASSUME NEW k, NEW f, AddsUp(k, f), NEW d \in Del, NEW s \in Nat,
           NEW g, ShareSet(f, d, s, g)
    PROVE  SharesOf(g, k.shares - f[d] + s)
<1>1. /\ \A c \in Del : f[c] \in Nat
      /\ SumFunctionOnSet(f, Del) = k.shares
  BY DEF AddsUp
<1>2. g[d] = s /\ \A c \in Del \ {d} : g[c] = f[c]
  BY DEF ShareSet
<1>3. \A c \in Del : g[c] \in Nat
  BY <1>1, <1>2
<1>4. ChangesAt(d, f, g, Del)
  BY <1>1, <1>2, DelFinite DEF ChangesAt
<1>5. SumFunctionOnSet(g, Del) = SumFunctionOnSet(f, Del) - f[d] + g[d]
  BY <1>4, SumChange
<1>. QED  BY <1>1, <1>2, <1>3, <1>5 DEF SharesOf

LEMMA BetterSame ==
    ASSUME NEW k \in Validator, NEW f, AddsUp(k, f), NEW n \in Validator,
           n.tokens = k.tokens, n.shares = k.shares
    PROVE  Better(k, n, f, f)
<1>1. n.tokens * k.shares = k.tokens * n.shares
  OBVIOUS
<1>2. n.tokens * k.shares \in Int
  BY DEF Validator
<1>. QED  BY <1>1, <1>2 DEF Better, AddsUp, KeepsWorth

(* Delegating tokens to a validator that has some.                          *)
LEMMA BetterDelegated ==
    ASSUME NEW k \in Validator, NEW f, AddsUp(k, f), k.tokens > 0,
           NEW amount \in Nat, NEW d \in Del, NEW n, n = AddTokens(k, amount),
           NEW s, s = f[d] + n.shares - k.shares, NEW g, ShareSet(f, d, s, g)
    PROVE  Better(k, n, f, g)
<1>. DEFINE T == k.tokens
            S == k.shares
            issued == (amount * S) \div T
<1>1. T \in Nat \ {0} /\ S \in Nat /\ f[d] \in Nat
  BY AddsUpBound DEF AddsUp
<1>2. n.tokens = T + amount /\ n.shares = S + issued
  BY <1>1 DEF AddTokens
<1>3. amount * S \in Nat
  BY <1>1
<1>. HIDE DEF T, S, issued
<1>4. issued \in Nat /\ issued * T <= amount * S
  BY <1>1, <1>3, FloorBound DEF issued
<1>5. s = f[d] + issued /\ s \in Nat
  BY <1>1, <1>2, <1>4 DEF S
<1>6. SharesOf(g, k.shares - f[d] + s)
  BY <1>5, SharesChange
<1>7. AddsUp(n, g)
  BY <1>1, <1>2, <1>4, <1>5, <1>6 DEF AddsUp, SharesOf, S
<1>8. (T + amount) * S >= T * (S + issued)
  <2>1. (T + amount) * S = T * S + amount * S /\ T * (S + issued) = T * S + issued * T
    BY <1>1, <1>4
  <2>2. T * S \in Nat /\ issued * T \in Nat
    BY <1>1, <1>4
  <2>. QED  BY <1>3, <1>4, <2>1, <2>2
<1>. QED  BY <1>2, <1>7, <1>8 DEF Better, KeepsWorth, T, S

(* Taking a whole delegation away.                                          *)
LEMMA BetterUnbonded ==
    ASSUME NEW k \in Validator, NEW f, AddsUp(k, f), NEW d \in Del, f[d] # 0,
           NEW n, n.tokens = k.tokens - TokensOf(k, f[d]), n.shares = k.shares - f[d],
           NEW g, ShareSet(f, d, 0, g)
    PROVE  Better(k, n, f, g) /\ TokensOf(k, f[d]) \in Nat
<1>. DEFINE T == k.tokens
            S == k.shares
            s == f[d]
            t == TokensOf(k, s)
            a == s * T * Unit
            w == a \div S
<1>1. T \in Nat /\ S \in Nat \ {0} /\ s \in Nat \ {0} /\ s <= S
  BY AddsUpBound DEF AddsUp
<1>2. a \in Nat /\ Unit \in Nat \ {0}
  BY <1>1, UnitAssumption
<1>3. t = IF s = S THEN T ELSE w \div Unit
  BY <1>1 DEF TokensOf, TokensFromShares
<1>. HIDE DEF T, S, s, t, w
<1>4. w \in Nat /\ w * S <= a
  <2>. HIDE DEF a
  <2>. QED  BY <1>1, <1>2, FloorBound DEF w
<1>5. t \in Nat /\ t * S <= s * T
  <2>1. CASE s = S
    BY <1>1, <1>3, <2>1
  <2>2. CASE s # S
    <3>1. t = w \div Unit
      BY <1>3, <2>2
    <3>2. t \in Nat /\ t * Unit <= w
      BY <1>2, <1>4, <3>1, FloorBound
    <3>3. (t * Unit) * S <= w * S
      BY <1>1, <1>2, <1>4, <3>2
    <3>. DEFINE p == t * S
                q == s * T
    <3>4. p * Unit = (t * Unit) * S /\ q * Unit = a /\ p \in Nat /\ q \in Nat
      BY <1>1, <1>2, <3>2
    <3>. HIDE DEF p, q, a
    <3>5. w * S \in Nat
      BY <1>1, <1>4
    <3>6. p * Unit <= q * Unit
      BY <1>2, <1>4, <3>3, <3>4, <3>5
    <3>7. p <= q
      BY <1>2, <3>4, <3>6
    <3>. QED  BY <3>2, <3>7 DEF p, q
  <2>. QED  BY <2>1, <2>2
<1>6. t <= T
  <2>1. s * T <= S * T
    BY <1>1
  <2>2. t * S <= T * S
    BY <1>1, <1>5, <2>1
  <2>. QED  BY <1>1, <1>5, <2>2
<1>7. SharesOf(g, k.shares - f[d] + 0)
  BY SharesChange
<1>8. AddsUp(n, g)
  <2>1. n.tokens = T - t /\ n.shares = S - s
    BY DEF T, t, S, s
  <2>. QED  BY <1>1, <1>5, <1>6, <1>7, <2>1 DEF AddsUp, SharesOf, S, s
<1>9. (T - t) * S >= T * (S - s)
  <2>1. (T - t) * S = T * S - t * S /\ T * (S - s) = T * S - s * T
    BY <1>1, <1>5
  <2>2. T * S \in Int /\ t * S \in Int /\ s * T \in Int
    BY <1>1, <1>5
  <2>. QED  BY <1>5, <2>1, <2>2
<1>10. KeepsWorth(k, n)
  BY <1>9 DEF KeepsWorth, T, t, S, s
<1>. QED  BY <1>5, <1>8, <1>10 DEF Better, t, s

(* A slash by half.                                                         *)
LEMMA SlashedAddsUp ==
    ASSUME NEW k \in Validator, NEW f, AddsUp(k, f), NEW n, n.shares = k.shares,
           n.tokens = k.tokens - k.tokens \div 2
    PROVE  AddsUp(n, f)
BY DEF AddsUp

(* A step after which the stakes still add up and no one who stays has lost.*)
NobodyLoses == \A v \in Val : Better(staking[v], staking'[v], shares[v], shares'[v])

LEMMA SameNobodyLoses ==
    ASSUME TypeOK, TypeOK', StakesAdd, shares' = shares,
           \A v \in Val : /\ staking'[v].tokens = staking[v].tokens
                          /\ staking'[v].shares = staking[v].shares
    PROVE  NobodyLoses
<1>. SUFFICES ASSUME NEW v \in Val
              PROVE  Better(staking[v], staking'[v], shares[v], shares'[v])
  BY DEF NobodyLoses
<1>1. staking[v] \in Validator /\ staking'[v] \in Validator /\ AddsUp(staking[v], shares[v])
  BY DEF TypeOK, StakesAdd
<1>. QED  BY <1>1, BetterSame

(* One validator's numbers change.                                          *)
LEMMA OneNobodyLoses ==
    ASSUME TypeOK, StakesAdd, NEW v \in Val,
           \A w \in Val \ {v} : staking'[w] = staking[w] /\ shares'[w] = shares[w],
           Better(staking[v], staking'[v], shares[v], shares'[v])
    PROVE  NobodyLoses
<1>. SUFFICES ASSUME NEW w \in Val \ {v}
              PROVE  Better(staking[w], staking'[w], shares[w], shares'[w])
  BY DEF NobodyLoses
<1>1. /\ staking[w] \in Validator /\ AddsUp(staking[w], shares[w])
      /\ staking'[w] = staking[w] /\ shares'[w] = shares[w]
  BY DEF TypeOK, StakesAdd
<1>2. Better(staking[w], staking[w], shares[w], shares[w])
  BY <1>1, BetterSame
<1>. QED  BY <1>1, <1>2

(* The numbers of v after d delegated to it.                                *)
LEMMA DelegatedBetter ==
    ASSUME TypeOK, StakesAdd, NEW d \in Del, NEW v \in Val, NEW amount \in Nat,
           staking[v].tokens > 0, NEW new, new = Delegated(d, v, amount),
           NEW g, g = [shares[v] EXCEPT ![d] = new.shares]
    PROVE  Better(staking[v], new.validator, shares[v], g)
<1>. DEFINE k == staking[v]
            n == AddTokens(k, amount)
            s == shares[v][d] + n.shares - k.shares
            f == shares[v]
<1>1. new.validator = n /\ new.shares = s
  BY DEF Delegated
<1>2. k \in Validator /\ f \in [Del -> Int] /\ AddsUp(k, f)
  BY DEF TypeOK, StakesAdd
<1>3. ShareSet(f, d, s, g)
  BY <1>1, <1>2 DEF ShareSet
<1>4. n = AddTokens(k, amount) /\ s = f[d] + n.shares - k.shares /\ k.tokens > 0
  OBVIOUS
<1>. HIDE DEF k, n, s, f
<1>5. Better(k, n, f, g)
  BY <1>2, <1>3, <1>4, BetterDelegated
<1>. QED  BY <1>1, <1>5 DEF k, f

LEMMA UnbondedBetter ==
    ASSUME TypeOK, StakesAdd, NEW d \in Del, NEW v \in Val, shares[v][d] # 0,
           NEW n, n = Unbonded(d, v), NEW g, g = [shares[v] EXCEPT ![d] = 0]
    PROVE  Better(staking[v], n, shares[v], g) /\ TokensOf(staking[v], shares[v][d]) \in Nat
<1>. DEFINE k == staking[v]
            f == shares[v]
<1>1. n.tokens = k.tokens - TokensOf(k, f[d]) /\ n.shares = k.shares - f[d]
  BY DEF Unbonded
<1>2. k \in Validator /\ f \in [Del -> Int] /\ AddsUp(k, f) /\ f[d] # 0
  BY DEF TypeOK, StakesAdd
<1>3. ShareSet(f, d, 0, g)
  BY <1>2 DEF ShareSet
<1>. HIDE DEF k, f
<1>4. Better(k, n, f, g) /\ TokensOf(k, f[d]) \in Nat
  BY <1>1, <1>2, <1>3, BetterUnbonded
<1>. QED  BY <1>4 DEF k, f

LEMMA DelegateNobodyLoses ==
    ASSUME TypeOK, StakesAdd, NEW d \in Del, NEW v \in Val, Delegate(d, v)
    PROVE  NobodyLoses
<1>. DEFINE new == Delegated(d, v, Stake)
            g == [shares[v] EXCEPT ![d] = new.shares]
<1>1. /\ staking[v].tokens > 0
      /\ staking' = [staking EXCEPT ![v] = new.validator]
      /\ shares' = [shares EXCEPT ![v] = g]
  BY DEF Delegate
<1>2. new = Delegated(d, v, Stake) /\ g = [shares[v] EXCEPT ![d] = new.shares] /\ Stake \in Nat
  BY AmountAssumption
<1>. HIDE DEF new, g
<1>3. Better(staking[v], new.validator, shares[v], g)
  BY <1>1, <1>2, DelegatedBetter
<1>4. /\ staking'[v] = new.validator /\ shares'[v] = g
      /\ \A w \in Val \ {v} : staking'[w] = staking[w] /\ shares'[w] = shares[w]
  BY <1>1 DEF TypeOK
<1>. QED  BY <1>3, <1>4, OneNobodyLoses

LEMMA UndelegateNobodyLoses ==
    ASSUME TypeOK, StakesAdd, NEW d \in Del, NEW v \in Val, Undelegate(d, v)
    PROVE  NobodyLoses
<1>. DEFINE n == Unbonded(d, v)
            g == [shares[v] EXCEPT ![d] = 0]
<1>1. /\ shares[v][d] # 0
      /\ staking' = [staking EXCEPT ![v] = n]
      /\ shares' = [shares EXCEPT ![v] = g]
  BY DEF Undelegate
<1>2. n = Unbonded(d, v) /\ g = [shares[v] EXCEPT ![d] = 0]
  OBVIOUS
<1>. HIDE DEF n, g
<1>3. Better(staking[v], n, shares[v], g)
  BY <1>1, <1>2, UnbondedBetter
<1>4. /\ staking'[v] = n /\ shares'[v] = g
      /\ \A w \in Val \ {v} : staking'[w] = staking[w] /\ shares'[w] = shares[w]
  BY <1>1 DEF TypeOK
<1>. QED  BY <1>3, <1>4, OneNobodyLoses

LEMMA RedelegateNobodyLoses ==
    ASSUME TypeOK, StakesAdd, NEW d \in Del, NEW v \in Val, NEW w \in Val, Redelegate(d, v, w)
    PROVE  NobodyLoses
<1>. DEFINE amount == TokensOf(staking[v], shares[v][d])
            n   == Unbonded(d, v)
            g   == [shares[v] EXCEPT ![d] = 0]
            new == Delegated(d, w, amount)
            h   == [shares[w] EXCEPT ![d] = new.shares]
<1>1. /\ v # w /\ shares[v][d] # 0 /\ staking[w].tokens > 0
      /\ staking' = [staking EXCEPT ![v] = n, ![w] = new.validator]
      /\ shares' = [shares EXCEPT ![v] = g, ![w] = h]
  BY DEF Redelegate
<1>2. /\ n = Unbonded(d, v) /\ g = [shares[v] EXCEPT ![d] = 0]
      /\ amount = TokensOf(staking[v], shares[v][d])
      /\ new = Delegated(d, w, amount) /\ h = [shares[w] EXCEPT ![d] = new.shares]
  OBVIOUS
<1>. HIDE DEF amount, n, g, new, h
<1>3. Better(staking[v], n, shares[v], g) /\ amount \in Nat
  BY <1>1, <1>2, UnbondedBetter
<1>4. Better(staking[w], new.validator, shares[w], h)
  BY <1>1, <1>2, <1>3, DelegatedBetter
<1>5. /\ staking'[v] = n /\ shares'[v] = g /\ staking'[w] = new.validator /\ shares'[w] = h
      /\ \A u \in Val \ {v, w} : staking'[u] = staking[u] /\ shares'[u] = shares[u]
  BY <1>1 DEF TypeOK
<1>6. ASSUME NEW u \in Val \ {v, w}
      PROVE  Better(staking[u], staking'[u], shares[u], shares'[u])
  <2>1. staking[u] \in Validator /\ AddsUp(staking[u], shares[u])
    BY DEF TypeOK, StakesAdd
  <2>2. Better(staking[u], staking[u], shares[u], shares[u])
    BY <2>1, BetterSame
  <2>. QED  BY <1>5, <2>2
<1>. QED  BY <1>3, <1>4, <1>5, <1>6 DEF NobodyLoses

Slash == \E v, w \in Val : BeginBlockSlash(v, w)

LEMMA SlashStakesAdd ==
    ASSUME TypeOK, StakesAdd, NEW v \in Val, NEW w \in Val, BeginBlockSlash(v, w)
    PROVE  StakesAdd'
<1>. DEFINE after == staking[w].tokens - staking[w].tokens \div 2
            n == [staking[w] EXCEPT !.tokens = after]
<1>1. staking' = [staking EXCEPT ![w] = n] /\ shares' = shares
  BY DEF BeginBlockSlash
<1>2. staking[w] \in Validator
  BY DEF TypeOK
<1>3. n.tokens = staking[w].tokens - staking[w].tokens \div 2 /\ n.shares = staking[w].shares
  BY <1>2 DEF Validator
<1>. HIDE DEF after, n
<1>4. AddsUp(n, shares[w])
  BY <1>2, <1>3, SlashedAddsUp DEF StakesAdd
<1>5. staking'[w] = n /\ \A u \in Val \ {w} : staking'[u] = staking[u]
  BY <1>1 DEF TypeOK
<1>. QED  BY <1>1, <1>4, <1>5 DEF StakesAdd

LEMMA SetChangeKeepsNumbers ==
    ASSUME TypeOK, NEW T, NEW h,
           staking' = [v \in Val |-> IF v \in T THEN [staking[v] EXCEPT !.unbondingHeight = h]
                                     ELSE staking[v]]
    PROVE  \A v \in Val : /\ staking'[v].tokens = staking[v].tokens
                          /\ staking'[v].shares = staking[v].shares
<1>. SUFFICES ASSUME NEW v \in Val
              PROVE  /\ staking'[v].tokens = staking[v].tokens
                     /\ staking'[v].shares = staking[v].shares
  OBVIOUS
<1>1. staking[v] \in Validator
  BY DEF TypeOK
<1>. QED  BY <1>1 DEF Validator

LEMMA NextNobodyLoses ==
    ASSUME TypeOK, TypeOK', StakesAdd, [Next]_vars, ~Slash
    PROVE  NobodyLoses
<1>1. CASE UNCHANGED <<staking, shares>>
  BY <1>1, SameNobodyLoses
<1>2. CASE ChainStep
  <2>1. CASE \/ \E v \in Val : BeginBlock(v) \/ Unjail(v)
             \/ \E d \in Del, v \in Val : Withdraw(d, v)
             \/ Restart
    BY <1>1, <2>1 DEF BeginBlock, Unjail, Withdraw, Restart
  <2>2. CASE EndBlock
    <3>1. shares' = shares
          /\ staking' = [v \in Val |-> IF v \in bonded \ TopValidators
                                       THEN [staking[v] EXCEPT !.unbondingHeight = height]
                                       ELSE staking[v]]
      BY <2>2 DEF EndBlock
    <3>. QED  BY <3>1, SetChangeKeepsNumbers, SameNobodyLoses
  <2>. QED  BY <1>2, <2>1, <2>2, DelegateNobodyLoses, UndelegateNobodyLoses,
               RedelegateNobodyLoses
            DEF ChainStep, Slash
<1>3. CASE \E zero, apply \in BOOLEAN, allow \in SUBSET Val, fault \in Faults :
           BeginExport(zero, apply, allow, fault)
  BY <1>1, <1>3 DEF BeginExport, chain
<1>4. CASE ExportStep
  <2>1. CASE \E v \in Val : ResetValidator(v)
    <3>1. PICK v \in Val : ResetValidator(v)
      BY <2>1
    <3>2. /\ shares' = shares
          /\ staking' = [staking EXCEPT ![v] = [staking[v] EXCEPT !.unbondingHeight = 0]]
      BY <3>1 DEF ResetValidator
    <3>3. staking \in [Val -> Validator]
      BY DEF TypeOK
    <3>4. \A w \in Val : /\ staking'[w].tokens = staking[w].tokens
                         /\ staking'[w].shares = staking[w].shares
      BY <3>2, <3>3 DEF Validator
    <3>. QED  BY <3>2, <3>4, SameNobodyLoses
  <2>2. CASE ApplyValidatorSetUpdates
    <3>1. shares' = shares
          /\ staking' = [v \in Val |-> IF v \in bonded \ TopValidators
                                       THEN [staking[v] EXCEPT !.unbondingHeight = height]
                                       ELSE staking[v]]
      BY <2>2 DEF ApplyValidatorSetUpdates
    <3>. QED  BY <3>1, SetChangeKeepsNumbers, SameNobodyLoses
  <2>3. CASE \/ \E v \in Val : WithdrawCommission(v) \/ ReinitValidator(v)
             \/ \E d \in Del, v \in Val : \/ WithdrawRewards(d, v) \/ WithdrawRewardsPanics(d, v)
                                          \/ ReinitDelegation(d, v)
             \/ ClearHistory \/ ResetEntries \/ CloseIteratorFails \/ ResetSigningInfos
             \/ ApplyValidatorSetUpdatesPanics
    BY <1>1, <2>3 DEF WithdrawCommission, ReinitValidator, WithdrawRewards,
       WithdrawRewardsPanics, ReinitDelegation, ClearHistory, ResetEntries,
       CloseIteratorFails, ResetSigningInfos, ApplyValidatorSetUpdatesPanics, chain
  <2>. QED  BY <1>4, <2>1, <2>2, <2>3 DEF ExportStep
<1>5. CASE Stopped \/ UNCHANGED vars
  BY <1>1, <1>5 DEF Stopped, vars
<1>. QED  BY <1>2, <1>3, <1>4, <1>5 DEF Next

LEMMA InitStakesAdd == Init => StakesAdd
<1>. SUFFICES ASSUME Init, NEW v \in Val PROVE AddsUp(staking[v], shares[v])
  BY DEF StakesAdd
<1>. DEFINE zero == [d \in Del |-> 0]
            f == shares[v]
<1>1. v \in Del /\ Stake \in Nat /\ \A d \in Del : zero[d] = 0 /\ zero[d] \in Int
  BY ValAssumption, AmountAssumption
<1>2. staking[v].tokens = Stake /\ staking[v].shares = Stake
  BY DEF Init
<1>3. f = [d \in Del |-> IF d = v THEN Stake ELSE 0]
  BY DEF Init
<1>4. f[v] = Stake /\ \A d \in Del \ {v} : f[d] = zero[d]
  BY <1>1, <1>3
<1>. HIDE DEF zero, f
<1>5. SumFunctionOnSet(zero, Del) = 0
  BY <1>1, DelFinite, SumZero
<1>6. ChangesAt(v, zero, f, Del)
  BY <1>1, <1>4, DelFinite DEF ChangesAt
<1>7. SumFunctionOnSet(f, Del) = SumFunctionOnSet(zero, Del) - zero[v] + f[v]
  BY <1>6, SumChange
<1>8. \A d \in Del : f[d] \in Nat
  BY <1>1, <1>4
<1>. QED  BY <1>1, <1>2, <1>4, <1>5, <1>7, <1>8 DEF AddsUp, f

LEMMA StakesAlwaysAdd == Spec => []StakesAdd
<1>1. IInv /\ IInv' /\ StakesAdd /\ [Next]_vars => StakesAdd'
  <2>. SUFFICES ASSUME TypeOK, TypeOK', StakesAdd, [Next]_vars PROVE StakesAdd'
    BY DEF IInv
  <2>1. CASE Slash
    BY <2>1, SlashStakesAdd DEF Slash
  <2>2. CASE ~Slash
    BY <2>2, NextNobodyLoses DEF NobodyLoses, Better, StakesAdd
  <2>. QED  BY <2>1, <2>2
<1>. QED  BY <1>1, InitStakesAdd, Invariant, PTL DEF Spec

-----------------------------------------------------------------------------
(* Starting infos and slash events.                                         *)

(* The height in the context of a hook.                                     *)
ContextHeight == IF pc = "block" THEN height ELSE 0

NewInfo(d, v) == [prev |-> dist[v].period, stake |-> StakeOf(d, v)', height |-> ContextHeight]

(* A step without slashes: a delegation goes on, ends, or starts (again)    *)
(* with the period that ends now and with what it is worth now.             *)
Moves(v) ==
    /\ dist'[v].slashes = dist[v].slashes
    /\ \A d \in Del : \/ /\ dist'[v].info[d] = dist[v].info[d]
                         /\ shares'[v][d] = shares[v][d]
                      \/ dist'[v].info[d] = NoInfo
                      \/ dist'[v].info[d] = NewInfo(d, v)

NothingMoves ==
    \A v \in Val : /\ dist'[v].info = dist[v].info /\ dist'[v].slashes = dist[v].slashes
                   /\ shares'[v] = shares[v]

LEMMA NothingMoved == ASSUME NothingMoves PROVE \A v \in Val : Moves(v)
BY DEF NothingMoves, Moves

(* The records of v move, those of the others stay.                         *)
LEMMA OneMoves ==
    ASSUME TypeOK, NEW v \in Val, NEW z, dist' = [dist EXCEPT ![v] = z], Moves(v),
           \A w \in Val \ {v} : shares'[w] = shares[w]
    PROVE  \A w \in Val : Moves(w)
<1>. SUFFICES ASSUME NEW w \in Val, w # v PROVE Moves(w)
  OBVIOUS
<1>1. dist'[w] = dist[w] /\ shares'[w] = shares[w]
  BY DEF TypeOK
<1>. QED  BY <1>1 DEF Moves

(* The delegation of d at v ends or starts, the others go on.               *)
LEMMA InfoMoves ==
    ASSUME TypeOK, NEW v \in Val, NEW d \in Del, NEW i, InfoSet(dist[v], d, i, dist'[v]),
           dist'[v].slashes = dist[v].slashes, i = NoInfo \/ i = NewInfo(d, v),
           \A c \in Del \ {d} : shares'[v][c] = shares[v][c]
    PROVE  Moves(v)
<1>1. dist[v].info \in [Del -> StartingInfo]
  BY DEF TypeOK, ValidatorRewards
<1>2. dist'[v].info[d] = i /\ \A c \in Del \ {d} : dist'[v].info[c] = dist[v].info[c]
  BY <1>1 DEF InfoSet
<1>. QED  BY <1>2 DEF Moves

LEMMA WithdrawMoves ==
    ASSUME IInv, NEW d \in Del, NEW v \in Val, Withdraw(d, v)
    PROVE  \A w \in Val : Moves(w)
<1>. DEFINE tokens == staking[v].tokens
            stake  == StakeOf(d, v)
            x == dist[v]
            z == AfterDelegationModified(Settle(x, d, tokens, stake, height), d, stake, height)
            i == [prev |-> x.period, stake |-> stake, height |-> height]
<1>1. /\ Transaction(d, v) /\ shares[v][d] # 0 /\ pc = "block"
      /\ dist' = [dist EXCEPT ![v] = z] /\ UNCHANGED <<staking, shares>>
  BY DEF Withdraw, Settled, Transaction
<1>2. /\ TypeOK /\ WellFormed(x) /\ x.period < MaxPeriod /\ d \in Started(x)
      /\ tokens \in Int
  BY <1>1, TransactionType
<1>3. /\ z = AfterDelegationModified(Settle(x, d, tokens, stake, height), d, stake, height)
      /\ i = [prev |-> x.period, stake |-> stake, height |-> height]
  OBVIOUS
<1>4. StakeOf(d, v)' = stake
  BY <1>1, SameStake
<1>5. i = NewInfo(d, v)
  BY <1>1, <1>4 DEF NewInfo, ContextHeight
<1>6. dist'[v] = z
  BY <1>1, <1>2 DEF TypeOK
<1>. HIDE DEF stake, z, i
<1>7. z.slashes = x.slashes /\ InfoSet(x, d, i, z)
  <2>1. /\ Ended(x, Donated(x, tokens), Payout(x, d, tokens, stake, height), z)
        /\ InfoSet(x, d, [prev |-> x.period, stake |-> stake, height |-> height], z)
    BY <1>2, <1>3, RestartFields
  <2>. QED  BY <1>3, <2>1 DEF Ended
<1>8. Moves(v)
  BY <1>1, <1>2, <1>5, <1>6, <1>7, InfoMoves
<1>. QED  BY <1>1, <1>2, <1>8, OneMoves

LEMMA DelegateMoves ==
    ASSUME IInv, NEW d \in Del, NEW v \in Val, Delegate(d, v)
    PROVE  \A w \in Val : Moves(w)
<1>. DEFINE new == Delegated(d, v, Stake)
            x == dist[v]
            k     == AddTokens(staking[v], Stake)
            stake == TokensFromShares(k, new.shares)
            paid  == IF shares[v][d] = 0 THEN 0 ELSE PayoutOf(d, v, height)
            i == [prev |-> x.period, stake |-> stake, height |-> height]
<1>1. /\ Transaction(d, v) /\ dist' = [dist EXCEPT ![v] = new.dist] /\ pc = "block"
      /\ staking' = [staking EXCEPT ![v] = new.validator]
      /\ shares' = [shares EXCEPT ![v] = [shares[v] EXCEPT ![d] = new.shares]]
  BY DEF Delegate, Transaction
<1>2. TypeOK /\ WellFormed(x) /\ x.period < MaxPeriod
  BY <1>1, TransactionType
<1>3. /\ new = Delegated(d, v, Stake)
      /\ k = AddTokens(staking[v], Stake) /\ stake = TokensFromShares(k, new.shares)
      /\ paid = IF shares[v][d] = 0 THEN 0 ELSE PayoutOf(d, v, height)
      /\ i = [prev |-> x.period, stake |-> stake, height |-> height]
  OBVIOUS
<1>. HIDE DEF new, k, stake, paid, i
<1>4. DelegationMade(x, d, v, k, stake, paid, new)
  BY <1>2, <1>3, DelegatedFields
<1>5. new.validator = k /\ new.dist.slashes = x.slashes /\ InfoSet(x, d, i, new.dist)
  BY <1>3, <1>4 DEF DelegationMade, Ended
<1>6. /\ dist'[v] = new.dist /\ staking'[v] = k /\ shares'[v][d] = new.shares
      /\ \A c \in Del \ {d} : shares'[v][c] = shares[v][c]
      /\ \A w \in Val \ {v} : shares'[w] = shares[w]
  BY <1>1, <1>2, <1>5 DEF TypeOK
<1>7. StakeOf(d, v)' = stake
  BY <1>3, <1>6 DEF StakeOf
<1>8. i = NewInfo(d, v)
  BY <1>1, <1>3, <1>7 DEF NewInfo, ContextHeight
<1>9. Moves(v)
  BY <1>2, <1>5, <1>6, <1>8, InfoMoves
<1>. QED  BY <1>1, <1>2, <1>6, <1>9, OneMoves

LEMMA UndelegateMoves ==
    ASSUME IInv, NEW d \in Del, NEW v \in Val, Undelegate(d, v)
    PROVE  \A w \in Val : Moves(w)
<1>. DEFINE tokens == staking[v].tokens
            stake  == StakeOf(d, v)
            x == dist[v]
            z == Settle(x, d, tokens, stake, height)
<1>1. /\ Transaction(d, v) /\ dist' = [dist EXCEPT ![v] = z]
      /\ shares' = [shares EXCEPT ![v] = [shares[v] EXCEPT ![d] = 0]]
  BY DEF Undelegate, Settled
<1>2. TypeOK /\ x \in ValidatorRewards
  BY <1>1, TransactionType DEF WellFormed
<1>3. z = Settle(x, d, tokens, stake, height)
  OBVIOUS
<1>. HIDE DEF stake, z
<1>4. z.slashes = x.slashes /\ InfoSet(x, d, NoInfo, z)
  <2>1. /\ Ended(x, Donated(x, tokens), Payout(x, d, tokens, stake, height), z)
        /\ InfoSet(x, d, NoInfo, z)
    BY <1>2, <1>3, SettleFields
  <2>. QED  BY <2>1 DEF Ended
<1>5. /\ dist'[v] = z
      /\ \A c \in Del \ {d} : shares'[v][c] = shares[v][c]
      /\ \A w \in Val \ {v} : shares'[w] = shares[w]
  BY <1>1, <1>2 DEF TypeOK
<1>6. Moves(v)
  BY <1>2, <1>4, <1>5, InfoMoves
<1>. QED  BY <1>1, <1>2, <1>5, <1>6, OneMoves

LEMMA RedelegateMoves ==
    ASSUME IInv, NEW d \in Del, NEW v \in Val, NEW w \in Val, Redelegate(d, v, w)
    PROVE  \A u \in Val : Moves(u)
<1>. DEFINE tokens == staking[v].tokens
            current == StakeOf(d, v)
            x == dist[v]
            y == dist[w]
            amount == TokensOf(staking[v], shares[v][d])
            z   == Settle(x, d, tokens, current, height)
            new == Delegated(d, w, amount)
            k     == AddTokens(staking[w], amount)
            stake == TokensFromShares(k, new.shares)
            none  == IF shares[w][d] = 0 THEN 0 ELSE PayoutOf(d, w, height)
            i == [prev |-> y.period, stake |-> stake, height |-> height]
            n == Unbonded(d, v)
<1>1. /\ Transaction(d, v) /\ v # w /\ PeriodsLeft(w) /\ pc = "block"
      /\ dist' = [dist EXCEPT ![v] = z, ![w] = new.dist]
      /\ staking' = [staking EXCEPT ![v] = n, ![w] = new.validator]
      /\ shares' = [shares EXCEPT ![v] = [shares[v] EXCEPT ![d] = 0],
                                  ![w] = [shares[w] EXCEPT ![d] = new.shares]]
  BY DEF Redelegate, Settled, Transaction
<1>2. TypeOK /\ x \in ValidatorRewards /\ Plain
  BY <1>1, TransactionType DEF WellFormed
<1>3. WellFormed(y) /\ y.period < MaxPeriod
  BY <1>1, <1>2, PeriodsLeftBound DEF IInv, Records
<1>4. /\ z = Settle(x, d, tokens, current, height)
      /\ new = Delegated(d, w, amount) /\ k = AddTokens(staking[w], amount)
      /\ stake = TokensFromShares(k, new.shares)
      /\ none = IF shares[w][d] = 0 THEN 0 ELSE PayoutOf(d, w, height)
      /\ i = [prev |-> y.period, stake |-> stake, height |-> height]
  OBVIOUS
<1>. HIDE DEF tokens, current, amount, z, new, k, stake, none, i, n
<1>5. z.slashes = x.slashes /\ InfoSet(x, d, NoInfo, z)
  <2>1. /\ Ended(x, Donated(x, tokens), Payout(x, d, tokens, current, height), z)
        /\ InfoSet(x, d, NoInfo, z)
    BY <1>2, <1>4, SettleFields
  <2>. QED  BY <2>1 DEF Ended
<1>6. DelegationMade(y, d, w, k, stake, none, new)
  BY <1>2, <1>3, <1>4, DelegatedFields
<1>7. new.validator = k /\ new.dist.slashes = y.slashes /\ InfoSet(y, d, i, new.dist)
  BY <1>4, <1>6 DEF DelegationMade, Ended
<1>8. /\ dist'[v] = z /\ dist'[w] = new.dist /\ staking'[w] = k /\ shares'[w][d] = new.shares
      /\ \A c \in Del \ {d} : shares'[v][c] = shares[v][c] /\ shares'[w][c] = shares[w][c]
      /\ \A u \in Val \ {v, w} : dist'[u] = dist[u] /\ shares'[u] = shares[u]
  BY <1>1, <1>2, <1>7 DEF TypeOK
<1>9. StakeOf(d, w)' = stake
  BY <1>4, <1>8 DEF StakeOf
<1>10. i = NewInfo(d, w)
  BY <1>1, <1>4, <1>9 DEF NewInfo, ContextHeight
<1>11. Moves(v)
  BY <1>2, <1>5, <1>8, InfoMoves
<1>12. Moves(w)
  BY <1>2, <1>7, <1>8, <1>10, InfoMoves
<1>13. ASSUME NEW u \in Val \ {v, w} PROVE Moves(u)
  BY <1>8, <1>13 DEF Moves
<1>. QED  BY <1>11, <1>12, <1>13

LEMMA WithdrawRewardsMoves ==
    ASSUME IInv, NEW d \in Del, NEW v \in Val, WithdrawRewards(d, v)
    PROVE  \A w \in Val : Moves(w)
<1>. DEFINE tokens == staking[v].tokens
            stake  == StakeOf(d, v)
            x == dist[v]
            z == AfterDelegationModified(Settle(x, d, tokens, stake, 0), d, stake, 0)
            i == [prev |-> x.period, stake |-> stake, height |-> 0]
<1>1. /\ pc = "rewards" /\ x.period < MaxPeriod
      /\ dist' = [dist EXCEPT ![v] = z] /\ UNCHANGED <<staking, shares>>
  BY DEF WithdrawRewards, Settled, chain
<1>2. TypeOK /\ WellFormed(x) /\ tokens \in Int
  BY <1>1 DEF Plain, IInv, Records, TypeOK, Validator
<1>3. d \in Started(x)
  BY <1>1, FirstIsADelegation DEF WithdrawRewards
<1>4. /\ z = AfterDelegationModified(Settle(x, d, tokens, stake, 0), d, stake, 0)
      /\ i = [prev |-> x.period, stake |-> stake, height |-> 0]
  OBVIOUS
<1>5. StakeOf(d, v)' = stake
  BY <1>1, SameStake
<1>6. i = NewInfo(d, v)
  BY <1>1, <1>5 DEF NewInfo, ContextHeight
<1>7. dist'[v] = z
  BY <1>1, <1>2 DEF TypeOK
<1>. HIDE DEF stake, z, i
<1>8. z.slashes = x.slashes /\ InfoSet(x, d, i, z)
  <2>1. /\ Ended(x, Donated(x, tokens), Payout(x, d, tokens, stake, 0), z)
        /\ InfoSet(x, d, [prev |-> x.period, stake |-> stake, height |-> 0], z)
    BY <1>1, <1>2, <1>3, <1>4, RestartFields
  <2>. QED  BY <1>4, <2>1 DEF Ended
<1>9. Moves(v)
  BY <1>1, <1>2, <1>6, <1>7, <1>8, InfoMoves
<1>. QED  BY <1>1, <1>2, <1>9, OneMoves

LEMMA ReinitDelegationMoves ==
    ASSUME IInv, NEW d \in Del, NEW v \in Val, ReinitDelegation(d, v)
    PROVE  \A w \in Val : Moves(w)
<1>. DEFINE x == dist[v]
            tokens == staking[v].tokens
            stake  == StakeOf(d, v)
            z == AfterDelegationModified(IncrementValidatorPeriod(x, tokens), d, stake, 0)
            B == Initialized(v)
            i == [prev |-> x.period, stake |-> stake, height |-> 0]
<1>1. /\ pc = "delegations" /\ x.period < MaxPeriod
      /\ dist' = [dist EXCEPT ![v] = z] /\ UNCHANGED <<staking, shares>>
  BY DEF ReinitDelegation, chain
<1>2. /\ TypeOK /\ x \in ValidatorRewards /\ tokens \in Int /\ B \in SUBSET Del /\ Good(x, B)
  BY <1>1 DEF IInv, TypeOK, Validator, Initialized, Started, Records, ValidatorRewards
<1>3. /\ z = AfterDelegationModified(IncrementValidatorPeriod(x, tokens), d, stake, 0)
      /\ i = [prev |-> x.period, stake |-> stake, height |-> 0]
  OBVIOUS
<1>4. StakeOf(d, v)' = stake
  BY <1>1, SameStake
<1>5. i = NewInfo(d, v)
  BY <1>1, <1>4 DEF NewInfo, ContextHeight
<1>6. dist'[v] = z /\ x.period < MaxPeriod
  BY <1>1, <1>2 DEF TypeOK
<1>. HIDE DEF z, B, stake, tokens, i
<1>7. z.slashes = x.slashes /\ InfoSet(x, d, i, z)
  <2>1. /\ Opened(x, Donated(x, tokens), z)
        /\ InfoSet(x, d, [prev |-> x.period, stake |-> stake, height |-> 0], z)
    BY <1>2, <1>3, <1>6, NewStartFields
  <2>. QED  BY <1>3, <2>1 DEF Opened
<1>8. Moves(v)
  BY <1>1, <1>2, <1>5, <1>6, <1>7, InfoMoves
<1>. QED  BY <1>1, <1>2, <1>8, OneMoves

(* A step that changes other fields of one record, if any.                  *)
LEMMA OtherFieldsMove ==
    ASSUME TypeOK, shares' = shares, NEW v \in Val, NEW z, dist' = [dist EXCEPT ![v] = z],
           z.info = dist[v].info, z.slashes = dist[v].slashes
    PROVE  NothingMoves
<1>1. dist'[v] = z /\ \A w \in Val \ {v} : dist'[w] = dist[w]
  BY DEF TypeOK
<1>. QED  BY <1>1 DEF NothingMoves

LEMMA AmountsMove ==
    ASSUME IInv, NEW v \in Val, BeginBlock(v) \/ WithdrawCommission(v) \/ ReinitValidator(v)
    PROVE  NothingMoves
<1>1. TypeOK /\ shares' = shares /\ dist[v] \in ValidatorRewards
  BY DEF IInv, TypeOK, BeginBlock, WithdrawCommission, ReinitValidator, chain
<1>2. CASE BeginBlock(v)
  <2>. DEFINE z == Allocate(dist[v])
  <2>1. dist' = [dist EXCEPT ![v] = z] /\ z = Allocate(dist[v])
    BY <1>2 DEF BeginBlock
  <2>. HIDE DEF z
  <2>2. z.info = dist[v].info /\ z.slashes = dist[v].slashes
    BY <1>1, <2>1, AllocateFields
  <2>. QED  BY <1>1, <2>1, <2>2, OtherFieldsMove
<1>3. CASE WithdrawCommission(v)
  <2>. DEFINE coins == dist[v].com \div Unit
              com   == dist[v].com - coins * Unit
              out   == dist[v].out - coins * Unit
              z     == [dist[v] EXCEPT !.com = com, !.out = out]
  <2>1. dist' = [dist EXCEPT ![v] = z]
    BY <1>3 DEF WithdrawCommission
  <2>. HIDE DEF com, out
  <2>2. z.info = dist[v].info /\ z.slashes = dist[v].slashes
    BY <1>1 DEF ValidatorRewards
  <2>. HIDE DEF z
  <2>. QED  BY <1>1, <2>1, <2>2, OtherFieldsMove
<1>4. CASE ReinitValidator(v)
  <2>. DEFINE z == AfterValidatorCreated(dist[v])
  <2>1. dist' = [dist EXCEPT ![v] = z] /\ z = AfterValidatorCreated(dist[v])
    BY <1>4 DEF ReinitValidator
  <2>. HIDE DEF z
  <2>2. z.info = dist[v].info /\ z.slashes = dist[v].slashes
    BY <1>1, <2>1, CreatedFields
  <2>. QED  BY <1>1, <2>1, <2>2, OtherFieldsMove
<1>. QED  BY <1>2, <1>3, <1>4

LEMMA NextMoves ==
    ASSUME IInv, [Next]_vars, ~Slash, ~ClearHistory
    PROVE  \A v \in Val : Moves(v)
<1>1. CASE UNCHANGED <<dist, shares>>
  BY <1>1, NothingMoved DEF NothingMoves
<1>2. CASE ChainStep
  <2>1. CASE \E v \in Val : BeginBlock(v)
    BY <2>1, AmountsMove, NothingMoved
  <2>2. CASE (\E v \in Val : Unjail(v)) \/ EndBlock \/ Restart
    BY <1>1, <2>2 DEF Unjail, EndBlock, Restart
  <2>. QED  BY <1>2, <2>1, <2>2, WithdrawMoves, DelegateMoves, UndelegateMoves, RedelegateMoves
            DEF ChainStep, Slash
<1>3. CASE \E zero, apply \in BOOLEAN, allow \in SUBSET Val, fault \in Faults :
           BeginExport(zero, apply, allow, fault)
  BY <1>1, <1>3 DEF BeginExport, chain
<1>4. CASE ExportStep
  <2>1. CASE \E v \in Val : WithdrawCommission(v) \/ ReinitValidator(v)
    BY <2>1, AmountsMove, NothingMoved
  <2>2. CASE \/ \E v \in Val : ResetValidator(v)
             \/ \E d \in Del, v \in Val : WithdrawRewardsPanics(d, v)
             \/ ResetEntries \/ CloseIteratorFails \/ ResetSigningInfos
             \/ ApplyValidatorSetUpdates \/ ApplyValidatorSetUpdatesPanics
    BY <1>1, <2>2 DEF ResetValidator, WithdrawRewardsPanics, ResetEntries, CloseIteratorFails,
       ResetSigningInfos, ApplyValidatorSetUpdates, ApplyValidatorSetUpdatesPanics, chain
  <2>. QED  BY <1>4, <2>1, <2>2, WithdrawRewardsMoves, ReinitDelegationMoves DEF ExportStep
<1>5. CASE Stopped \/ UNCHANGED vars
  BY <1>1, <1>5 DEF Stopped, vars
<1>. QED  BY <1>2, <1>3, <1>4, <1>5 DEF Next

SlashAdded(x, e, z) == z.info = x.info /\ z.slashes = x.slashes \cup {e}

LEMMA SlashAdds ==
    ASSUME NEW x, WellFormed(x), x.period < MaxPeriod, NEW before \in Nat, NEW after, NEW h,
           NEW e, e = [height |-> h, period |-> x.period, before |-> before, after |-> after],
           NEW z, z = BeforeValidatorSlashed(x, before, after, h)
    PROVE  SlashAdded(x, e, z)
<1>. DEFINE B == Started(x)
<1>1. x \in ValidatorRewards /\ Good(x, B) /\ B \in SUBSET Del
  BY DEF WellFormed, Started
<1>. HIDE DEF B
<1>2. /\ z.slashes = x.slashes \cup {[height |-> h, period |-> x.period,
                                     before |-> before, after |-> after]}
      /\ z.info = x.info
  BY <1>1, SlashFields
<1>. QED  BY <1>2 DEF SlashAdded

(* What a slash of w does.                                                  *)
HalfOf(k) == k.tokens - k.tokens \div 2
NewSlash(w) == [height |-> height + 1, period |-> dist[w].period,
                before |-> staking[w].tokens, after |-> HalfOf(staking[w])]

Slashed(w) ==
    /\ pc \in {"genesis", "committed"} /\ pc' = "block"
    /\ height' = height + 1 /\ shares' = shares
    /\ \A v \in Val : dist'[v].info = dist[v].info /\ staking'[v].shares = staking[v].shares
    /\ \A v \in Val \ {w} : /\ dist'[v].slashes = dist[v].slashes
                            /\ staking'[v].tokens = staking[v].tokens
    /\ staking[w].tokens > 0 /\ staking'[w].tokens = HalfOf(staking[w])
    /\ dist'[w].slashes = dist[w].slashes \cup {NewSlash(w)}

LEMMA SlashMoves ==
    ASSUME IInv, NEW v \in Val, NEW w \in Val, BeginBlockSlash(v, w)
    PROVE  Slashed(w)
<1>. DEFINE allocated == [dist EXCEPT ![v] = Allocate(dist[v])]
            x         == allocated[w]
            before    == staking[w].tokens
            after     == before - before \div 2
            z         == BeforeValidatorSlashed(x, before, after, height + 1)
            k         == [staking[w] EXCEPT !.tokens = after]
<1>1. /\ pc \in {"genesis", "committed"} /\ pc' = "block" /\ height' = height + 1
      /\ shares' = shares /\ before > 0
  BY DEF BeginBlockSlash, StartBlock
<1>2. /\ dist' = [allocated EXCEPT ![w] = z]
      /\ staking' = [staking EXCEPT ![w] = k] /\ PeriodsLeft(w)
  BY DEF BeginBlockSlash
<1>3. /\ TypeOK /\ \A u \in Val : WellFormed(dist[u]) /\ dist[u] \in ValidatorRewards
      /\ staking \in [Val -> Validator] /\ dist \in [Val -> ValidatorRewards]
  BY <1>1 DEF IInv, Records, Plain, TypeOK
<1>4. /\ \A u \in Val : /\ WellFormed(allocated[u])
                        /\ allocated[u].info = dist[u].info
                        /\ allocated[u].period = dist[u].period
                        /\ allocated[u].slashes = dist[u].slashes
  <2>1. WellFormed(Allocate(dist[v])) /\ Allocate(dist[v]).info = dist[v].info
        /\ Allocate(dist[v]).period = dist[v].period
    BY <1>3, AllocateWellFormed
  <2>. DEFINE a == Allocate(dist[v])
  <2>2. a = Allocate(dist[v])
    OBVIOUS
  <2>. HIDE DEF a
  <2>3. a.slashes = dist[v].slashes
    BY <1>3, <2>2, AllocateFields
  <2>4. WellFormed(a) /\ a.info = dist[v].info /\ a.period = dist[v].period
    BY <2>1, <2>2
  <2>. QED  BY <1>3, <2>2, <2>3, <2>4
<1>5. x.period < MaxPeriod
  BY <1>2, <1>3, <1>4, PeriodsLeftBound
<1>6. before \in Nat
  BY <1>1, <1>3 DEF Validator
<1>7. z = BeforeValidatorSlashed(x, before, after, height + 1)
  OBVIOUS
<1>8. WellFormed(x)
  BY <1>4
<1>9. staking[w].shares = k.shares /\ k.tokens = after
  BY <1>3 DEF Validator
<1>10. DOMAIN allocated = Val
  BY <1>3
<1>11. /\ x.info = dist[w].info /\ x.period = dist[w].period /\ x.slashes = dist[w].slashes
  BY <1>4
<1>. DEFINE h == height + 1
            e == [height |-> h, period |-> x.period, before |-> before, after |-> after]
<1>12. e = NewSlash(w) /\ z = BeforeValidatorSlashed(x, before, after, h)
  BY <1>7, <1>11 DEF NewSlash, HalfOf
<1>. e = [height |-> h, period |-> x.period, before |-> before, after |-> after]
  OBVIOUS
<1>. HIDE DEF allocated, x, after, z, k, before, e, h
<1>13. z.info = x.info /\ z.slashes = x.slashes \cup {e}
  <2>1. SlashAdded(x, e, z)
    BY <1>5, <1>6, <1>8, <1>12, SlashAdds
  <2>. QED  BY <2>1 DEF SlashAdded
<1>14. /\ dist'[w] = z /\ \A u \in Val \ {w} : dist'[u] = allocated[u]
       /\ staking'[w] = k /\ \A u \in Val \ {w} : staking'[u] = staking[u]
  BY <1>2, <1>3, <1>10
<1>15. /\ \A u \in Val : dist'[u].info = dist[u].info
       /\ \A u \in Val \ {w} : dist'[u].slashes = dist[u].slashes
  BY <1>4, <1>11, <1>13, <1>14
<1>16. dist'[w].slashes = dist[w].slashes \cup {NewSlash(w)}
  BY <1>11, <1>12, <1>13, <1>14
<1>17. /\ \A u \in Val : staking'[u].shares = staking[u].shares
       /\ \A u \in Val \ {w} : staking'[u].tokens = staking[u].tokens
       /\ staking'[w].tokens = HalfOf(staking[w])
  BY <1>9, <1>14 DEF after, before, HalfOf
<1>. QED  BY <1>1, <1>15, <1>16, <1>17 DEF Slashed, before

(* The history of delegations and slashes.                                  *)

StartedInTime ==
    \A v \in Val, d \in Del :
        d \in Started(dist[v]) => dist[v].info[d].height \in 0 .. height

SlashesInTime ==
    \A v \in Val : \A e \in dist[v].slashes :
        /\ e.height <= height
        /\ \A d \in Started(dist[v]) :
              e.period > dist[v].info[d].prev => e.height >= dist[v].info[d].height

SlashesSince(x, i) == {e \in x.slashes : e.period > i.prev}

(* What is left of the stake of d after the slashes since its start: never  *)
(* more than what its delegation is worth.                                  *)
StakeLeft(x, d) == WalkThrough(x, x.info[d], SlashesSince(x, x.info[d])).stake

Held(d, v) == StakeLeft(dist[v], d) \in 0 .. StakeOf(d, v)

StakesHold == Plain => \A v \in Val, d \in Del : d \in Started(dist[v]) => Held(d, v)

LEMMA PastSlashes ==
    ASSUME IInv, FreshSoFar, NEW v \in Val, NEW e \in dist[v].slashes
    PROVE  e.period < dist[v].period /\ e.height \in Nat /\ e.period \in Nat
<1>1. e.height \in Nat /\ e.period \in Nat
  BY DEF IInv, TypeOK, ValidatorRewards, SlashEvent
<1>2. Plain
  BY DEF FreshSoFar, SlashesCleared, Rebuilt, Plain
<1>3. e.period < dist[v].period
  BY <1>2, SlashesDated DEF IInv, Records
<1>. QED  BY <1>1, <1>3

LEMMA HeightsGrow ==
    ASSUME TypeOK, [Next]_vars, ~Restart
    PROVE  height' >= height
<1>1. height \in Nat
  BY DEF TypeOK
<1>2. ASSUME NEW v \in Val, NEW w \in Val, BeginBlock(v) \/ BeginBlockSlash(v, w)
      PROVE  height' = height + 1
  BY <1>2 DEF BeginBlock, BeginBlockSlash, StartBlock
<1>3. ASSUME NEW d \in Del, NEW v \in Val, NEW w \in Val,
             Withdraw(d, v) \/ Delegate(d, v) \/ Undelegate(d, v) \/ Redelegate(d, v, w)
      PROVE  height' = height
  BY <1>3 DEF Withdraw, Delegate, Undelegate, Redelegate, Transaction
<1>4. ASSUME ExportStep PROVE height' = height
  BY <1>4 DEF ExportStep, WithdrawCommission, ReinitValidator, ResetValidator, WithdrawRewards,
              WithdrawRewardsPanics, ReinitDelegation, ClearHistory, ResetEntries,
              CloseIteratorFails, ResetSigningInfos, ApplyValidatorSetUpdates,
              ApplyValidatorSetUpdatesPanics, chain
<1>5. ASSUME NEW v \in Val, Unjail(v) PROVE height' = height
  BY <1>5 DEF Unjail
<1>6. EndBlock => height' = height
  BY DEF EndBlock
<1>7. ASSUME NEW zero \in BOOLEAN, NEW apply \in BOOLEAN, NEW allow \in SUBSET Val,
             NEW fault \in Faults, BeginExport(zero, apply, allow, fault)
      PROVE  height' = height
  BY <1>7 DEF BeginExport, chain
<1>8. Stopped \/ UNCHANGED vars => height' = height
  BY DEF Stopped, vars
<1>9. ChainStep => height' = height \/ height' = height + 1
  BY <1>2, <1>3, <1>5, <1>6 DEF ChainStep
<1>10. height' = height \/ height' = height + 1
  BY <1>4, <1>7, <1>8, <1>9 DEF Next
<1>. QED  BY <1>1, <1>10

(* A chain that restarts at height zero has no history.                     *)
LEMMA RestartHistory ==
    ASSUME IInv, FreshSoFar, Restart
    PROVE  /\ dist' = dist /\ shares' = shares
           /\ \/ height' = height
              \/ /\ height' = 0
                 /\ \A v \in Val : dist[v].slashes = {}
                 /\ \A v \in Val, d \in Del :
                       d \in Started(dist[v]) => dist[v].info[d].height = 0
<1>1. /\ dist' = dist /\ shares' = shares /\ pc = "exported"
      /\ height' = IF ex.mode = "height" THEN height ELSE 0
  BY DEF Restart
<1>2. CASE ex.mode = "height"
  BY <1>1, <1>2
<1>3. CASE ex.mode # "height"
  <2>1. \A v \in Val : dist[v].slashes = {}
    BY <1>1, <1>3 DEF FreshSoFar, SlashesCleared, Rebuilt
  <2>2. \A v \in Val, d \in Del : d \in Started(dist[v]) => dist[v].info[d].height = 0
    BY <1>1, <1>3 DEF IInv, SharesStarted, FreshSoFar, Restarted, Rebuilt, StartsAnew
  <2>. QED  BY <1>1, <1>3, <2>1, <2>2
<1>. QED  BY <1>2, <1>3

LEMMA ClearHistoryInfo ==
    ASSUME TypeOK, ClearHistory, NEW v \in Val
    PROVE  dist'[v].info = dist[v].info /\ dist'[v].slashes = {}
BY ClearedFields

LEMMA NextStarted ==
    ASSUME IInv, IInv', FreshSoFar, StartedInTime, [Next]_vars
    PROVE  StartedInTime'
<1>. SUFFICES ASSUME NEW v \in Val, NEW d \in Del, d \in Started(dist'[v])
              PROVE  dist'[v].info[d].height \in 0 .. height'
  BY DEF StartedInTime
<1>1. height \in Nat /\ height' \in Nat
  BY DEF IInv, TypeOK
<1>2. CASE Restart
  <2>1. dist'[v].info[d] = dist[v].info[d] /\ d \in Started(dist[v])
    BY <1>2, RestartHistory
  <2>2. dist[v].info[d].height \in 0 .. height
    BY <2>1 DEF StartedInTime
  <2>3. height' = height \/ dist[v].info[d].height = 0
    BY <1>2, <2>1, RestartHistory
  <2>. QED  BY <1>1, <2>1, <2>2, <2>3
<1>3. CASE ~Restart
  <2>1. height' >= height
    BY <1>3, HeightsGrow DEF IInv
  <2>2. CASE dist'[v].info[d] = dist[v].info[d]
    <3>1. dist[v].info[d].height \in 0 .. height
      BY <2>2 DEF StartedInTime, Started
    <3>. QED  BY <1>1, <2>1, <2>2, <3>1
  <2>3. CASE dist'[v].info[d] # dist[v].info[d]
    <3>1. ~Slash
      BY <2>3, SlashMoves DEF Slash, Slashed
    <3>2. ~ClearHistory
      BY <2>3, ClearHistoryInfo DEF IInv
    <3>3. dist'[v].info[d] = NewInfo(d, v)
      BY <2>3, <3>1, <3>2, NextMoves DEF Moves, Started
    <3>4. dist'[v].info[d].height = ContextHeight
      BY <3>3 DEF NewInfo
    <3>. QED  BY <1>1, <2>1, <3>4 DEF ContextHeight
  <2>. QED  BY <2>2, <2>3
<1>. QED  BY <1>2, <1>3

LEMMA NextSlashes ==
    ASSUME IInv, IInv', FreshSoFar, StartedInTime, SlashesInTime, [Next]_vars
    PROVE  SlashesInTime'
<1>1. height \in Nat /\ height' \in Nat
  BY DEF IInv, TypeOK
<1>2. CASE Restart
  <2>1. CASE height' = height
    BY <1>2, <2>1, RestartHistory DEF SlashesInTime
  <2>2. CASE height' # height
    BY <1>2, <2>2, RestartHistory DEF SlashesInTime
  <2>. QED  BY <2>1, <2>2
<1>3. CASE ClearHistory
  BY <1>3, ClearHistoryInfo DEF SlashesInTime, IInv
<1>4. CASE Slash
  <2>1. PICK w \in Val : Slashed(w)
    BY <1>4, SlashMoves DEF Slash
  <2>. SUFFICES ASSUME NEW v \in Val, NEW e \in dist'[v].slashes
                PROVE  /\ e.height <= height'
                       /\ \A d \in Started(dist'[v]) :
                             e.period > dist'[v].info[d].prev
                                 => e.height >= dist'[v].info[d].height
    BY DEF SlashesInTime
  <2>2. dist'[v].info = dist[v].info /\ Started(dist'[v]) = Started(dist[v]) /\ height' = height + 1
    BY <2>1 DEF Slashed, Started
  <2>3. CASE e \in dist[v].slashes
    <3>1. e.height \in Nat
      BY <2>3, PastSlashes
    <3>. QED  BY <1>1, <2>2, <2>3, <3>1 DEF SlashesInTime
  <2>4. CASE e \notin dist[v].slashes
    <3>1. e = NewSlash(w)
      BY <2>1, <2>4 DEF Slashed
    <3>2. e.height = height + 1
      BY <3>1 DEF NewSlash
    <3>3. \A d \in Started(dist[v]) : dist[v].info[d].height \in 0 .. height
      BY DEF StartedInTime, Started
    <3>. QED  BY <1>1, <2>2, <3>2, <3>3
  <2>. QED  BY <2>3, <2>4
<1>5. CASE ~Restart /\ ~ClearHistory /\ ~Slash
  <2>. SUFFICES ASSUME NEW v \in Val, NEW e \in dist'[v].slashes
                PROVE  /\ e.height <= height'
                       /\ \A d \in Started(dist'[v]) :
                             e.period > dist'[v].info[d].prev
                                 => e.height >= dist'[v].info[d].height
    BY DEF SlashesInTime
  <2>1. Moves(v) /\ height' >= height
    BY <1>5, NextMoves, HeightsGrow DEF IInv
  <2>2. e \in dist[v].slashes
    BY <2>1 DEF Moves
  <2>3. e.period < dist[v].period /\ e.height \in Nat /\ e.period \in Nat /\ e.height <= height
    BY <2>2, PastSlashes DEF SlashesInTime
  <2>4. ASSUME NEW d \in Started(dist'[v]), e.period > dist'[v].info[d].prev
        PROVE  e.height >= dist'[v].info[d].height
    <3>1. dist'[v].info[d] # NoInfo /\ d \in Del
      BY DEF Started
    <3>2. CASE dist'[v].info[d] = NewInfo(d, v)
      <4>1. dist'[v].info[d].prev = dist[v].period
        BY <3>2 DEF NewInfo
      <4>2. dist[v].period \in Nat
        BY DEF IInv, TypeOK, ValidatorRewards
      <4>. QED  BY <2>3, <2>4, <4>1, <4>2
    <3>3. CASE dist'[v].info[d] = dist[v].info[d]
      BY <2>2, <2>4, <3>1, <3>3 DEF SlashesInTime, Started
    <3>. QED  BY <2>1, <3>1, <3>2, <3>3 DEF Moves
  <2>. QED  BY <1>1, <2>1, <2>3, <2>4
<1>. QED  BY <1>2, <1>3, <1>4, <1>5

(* A slash takes no more from what a delegation is worth than from the      *)
(* stake that is left of it.                                                *)
LEMMA SlashWorth ==
    ASSUME NEW k \in Validator, k.tokens > 0, k.shares > 0, NEW s \in Nat,
           NEW a \in Nat, NEW n \in Validator, n.tokens = a, n.shares = k.shares,
           NEW w \in 0 .. TokensFromShares(k, s)
    PROVE  (w * a) \div k.tokens \in 0 .. TokensFromShares(n, s)
<1>. DEFINE b == k.tokens
            S == k.shares
            p == s * b * Unit
            r == s * a * Unit
            q == (w * a) \div b
<1>1. b \in Nat \ {0} /\ S \in Nat \ {0} /\ Unit \in Nat
  BY UnitAssumption DEF Validator
<1>2. TokensFromShares(k, s) = p \div S /\ TokensFromShares(n, s) = r \div S
  BY <1>1 DEF TokensFromShares
<1>3. p \in Nat /\ r \in Nat
  BY <1>1
<1>4. s * Unit \in Nat /\ p = (s * Unit) * b /\ r = (s * Unit) * a
  <2>. HIDE DEF b
  <2>. QED  BY <1>1
<1>. HIDE DEF b, S, p, r
<1>5. w \in Nat /\ w <= p \div S /\ (p \div S) * S <= p /\ p \div S \in Nat
  <2>1. (p \div S) * S <= p /\ p \div S \in Nat
    BY <1>1, <1>3, FloorBound
  <2>. QED  BY <1>2, <2>1
<1>6. w * S <= p
  <2>. DEFINE u == p \div S
  <2>. HIDE DEF u
  <2>1. w * S <= u * S
    BY <1>1, <1>5 DEF u
  <2>2. w * S \in Nat /\ u * S \in Nat
    BY <1>1, <1>5 DEF u
  <2>. QED  BY <1>3, <1>5, <2>1, <2>2 DEF u
<1>7. q \in Nat /\ q * b <= w * a
  <2>1. w * a \in Nat
    BY <1>5
  <2>. QED  BY <1>1, <2>1, FloorBound
<1>. HIDE DEF q
<1>8. q * S <= r
  <2>. DEFINE m == s * Unit
              c == q * S
  <2>1. m \in Nat /\ p = m * b /\ r = m * a
    BY <1>4
  <2>. HIDE DEF m
  <2>2. (q * b) * S <= (w * a) * S
    BY <1>1, <1>5, <1>7
  <2>3. (w * S) * a <= p * a
    BY <1>1, <1>3, <1>5, <1>6
  <2>4. (w * a) * S = (w * S) * a /\ p * a = (m * a) * b /\ (q * b) * S = (q * S) * b
    BY <1>1, <1>5, <1>7, <2>1
  <2>5. c * b <= r * b /\ c \in Nat
    <3>1. (q * S) * b \in Nat /\ (w * S) * a \in Nat /\ r * b \in Nat /\ q * S \in Nat
      BY <1>1, <1>3, <1>5, <1>7
    <3>. QED  BY <2>1, <2>2, <2>3, <2>4, <3>1
  <2>. HIDE DEF c
  <2>6. c <= r
    BY <1>1, <1>3, <2>5
  <2>. QED  BY <2>6 DEF c
<1>9. q <= r \div S /\ r \div S \in Nat
  BY <1>1, <1>3, <1>7, <1>8, FloorBound
<1>. QED  BY <1>2, <1>7, <1>9 DEF q, b

(* A delegation that has seen no slash.                                     *)
LEMMA HeldUnslashed ==
    ASSUME NEW x, NEW d, SlashesSince(x, x.info[d]) = {}
    PROVE  StakeLeft(x, d) = x.info[d].stake
<1>1. StakeLeft(x, d) = Unwalked(x.info[d]).stake
  BY WalkEmpty DEF StakeLeft
<1>. QED  BY <1>1 DEF Unwalked

LEMMA WorthOf ==
    ASSUME NEW k \in Validator, NEW f, AddsUp(k, f), NEW d \in Del
    PROVE  TokensFromShares(k, f[d]) \in Nat
BY WorthNat DEF AddsUp

LEMMA HeldMoves ==
    ASSUME IInv, IInv', StakesAdd, StakesAdd', StakesHold, Plain, Plain', NobodyLoses,
           NEW v \in Val, Moves(v), NEW d \in Del, d \in Started(dist'[v])
    PROVE  Held(d, v)'
<1>. DEFINE x == dist[v]
            y == dist'[v]
            i == y.info[d]
            worth  == StakeOf(d, v)
            worthy == StakeOf(d, v)'
<1>1. WellFormed(x) /\ WellFormed(y) /\ y.slashes = x.slashes
  BY DEF IInv, Records, Moves
<1>2. worthy \in Nat
  <2>1. staking'[v] \in Validator /\ AddsUp(staking'[v], shares'[v])
    BY DEF IInv, TypeOK, StakesAdd
  <2>. QED  BY <2>1, WorthOf DEF StakeOf
<1>3. (i = x.info[d] /\ shares'[v][d] = shares[v][d]) \/ i = NewInfo(d, v)
  BY DEF Moves, Started
<1>4. CASE i = NewInfo(d, v)
  <2>1. i.prev = x.period /\ i.stake = worthy
    BY <1>4 DEF NewInfo
  <2>2. \A e \in y.slashes : e.period < x.period /\ e.period \in Nat
    BY <1>1, SlashesDated DEF Dated
  <2>3. x.period \in Nat
    BY <1>1 DEF WellFormed, ValidatorRewards
  <2>4. SlashesSince(y, i) = {}
    <3>. HIDE DEF i, x, y
    <3>. QED  BY <2>1, <2>2, <2>3 DEF SlashesSince
  <2>5. StakeLeft(y, d) = i.stake
    <3>. HIDE DEF y
    <3>. QED  BY <2>4, HeldUnslashed
  <2>. QED  BY <1>2, <2>1, <2>5 DEF Held
<1>5. CASE i = x.info[d] /\ shares'[v][d] = shares[v][d]
  <2>. DEFINE E == SlashesSince(x, i)
  <2>1. E \in SUBSET x.slashes /\ E = SlashesSince(y, i) /\ Dated(E)
    <3>1. E \in SUBSET x.slashes /\ E = SlashesSince(y, i)
      BY <1>1 DEF SlashesSince
    <3>2. Dated(x.slashes)
      BY <1>1, SlashesDated
    <3>. HIDE DEF E
    <3>. QED  BY <3>1, <3>2, DatedSubset
  <2>2. WalkThrough(x, i, E).stake = WalkThrough(y, i, E).stake
    <3>. HIDE DEF E, x, y, i
    <3>. QED  BY <2>1, WalkStake
  <2>3. StakeLeft(y, d) = StakeLeft(x, d)
    BY <1>5, <2>1, <2>2 DEF StakeLeft
  <2>4. d \in Started(x) /\ shares[v][d] # 0
    BY <1>5 DEF IInv, SharesStarted, Started
  <2>5. StakeLeft(x, d) \in 0 .. worth
    BY <2>4 DEF StakesHold, Held
  <2>6. worth <= worthy
    <3>. DEFINE k == staking[v]
                n == staking'[v]
                s == shares[v][d]
    <3>1. /\ k \in Validator /\ n \in Validator /\ KeepsWorth(k, n)
          /\ AddsUp(k, shares[v]) /\ AddsUp(n, shares'[v])
      BY DEF IInv, TypeOK, NobodyLoses, Better, StakesAdd
    <3>2. s \in Nat /\ s <= k.shares /\ k.shares \in Nat
      BY <3>1, AddsUpBound
    <3>3. s <= n.shares /\ n.shares \in Nat
      BY <1>5, <3>1, AddsUpBound
    <3>4. k.tokens \in Nat /\ n.tokens \in Nat /\ k.shares > 0 /\ n.shares > 0
      BY <2>4, <3>1, <3>2, <3>3 DEF AddsUp
    <3>5. worth = TokensFromShares(k, s) /\ worthy = TokensFromShares(n, s)
      BY <1>5 DEF StakeOf
    <3>. HIDE DEF k, n, s
    <3>. QED  BY <3>1, <3>2, <3>4, <3>5, WorthKept
  <2>7. worth \in Nat
    <3>1. staking[v] \in Validator /\ AddsUp(staking[v], shares[v])
      BY DEF IInv, TypeOK, StakesAdd
    <3>. QED  BY <3>1, WorthOf DEF StakeOf
  <2>8. Held(d, v)' <=> StakeLeft(y, d) \in 0 .. worthy
    BY DEF Held
  <2>. HIDE DEF worth, worthy, x, y
  <2>. QED  BY <1>2, <2>3, <2>5, <2>6, <2>7, <2>8
<1>. QED  BY <1>3, <1>4, <1>5

LEMMA HeldSlashed ==
    ASSUME IInv, IInv', StakesAdd, StakesAdd', StakesHold, NEW w \in Val, Slashed(w),
           NEW v \in Val, NEW d \in Del, d \in Started(dist'[v])
    PROVE  Held(d, v)'
<1>. DEFINE x == dist[v]
            y == dist'[v]
            i == x.info[d]
            E == SlashesSince(x, i)
<1>1. /\ Plain /\ y.info = x.info /\ d \in Started(x) /\ shares' = shares
      /\ staking'[v].shares = staking[v].shares
  BY DEF Slashed, Plain, Started
<1>2. WellFormed(x) /\ Held(d, v)
  BY <1>1 DEF IInv, Records, StakesHold
<1>3. Dated(x.slashes) /\ Dated(E)
  <2>1. Dated(x.slashes)
    BY <1>2, SlashesDated
  <2>2. E \in SUBSET x.slashes
    BY DEF SlashesSince
  <2>. HIDE DEF E
  <2>. QED  BY <2>1, <2>2, DatedSubset
<1>4. CASE v # w
  <2>1. y.slashes = x.slashes /\ staking'[v].tokens = staking[v].tokens
    BY <1>4 DEF Slashed
  <2>2. StakeOf(d, v)' = StakeOf(d, v)
    BY <1>1, <2>1, SameStake
  <2>3. WalkThrough(x, i, E).stake = WalkThrough(y, i, E).stake
    <3>. HIDE DEF E, x, y, i
    <3>. QED  BY <1>3, WalkStake
  <2>4. StakeLeft(y, d) = StakeLeft(x, d)
    BY <1>1, <2>1, <2>3 DEF StakeLeft, SlashesSince
  <2>. QED  BY <1>2, <2>2, <2>4 DEF Held
<1>5. CASE v = w
  <2>. DEFINE e == NewSlash(v)
              k == staking[v]
              n == staking'[v]
              s == shares[v][d]
              left == StakeLeft(x, d)
  <2>1. /\ y.slashes = x.slashes \cup {e} /\ k.tokens > 0 /\ n.tokens = HalfOf(k)
        /\ n.shares = k.shares
    BY <1>1, <1>5 DEF Slashed
  <2>2. e.period = x.period /\ e.before = k.tokens /\ e.after = n.tokens
    BY <2>1 DEF NewSlash
  <2>3. x.period \in Nat /\ i.prev < x.period /\ i.prev \in Int
    BY <1>1, <1>2 DEF WellFormed, ValidatorRewards, Good, ReferrersInThePast, Started
  <2>4. \A f \in x.slashes : f.period < x.period
    BY <1>2, SlashesDated
  <2>5. SlashesSince(y, i) = E \cup {e}
    <3>. HIDE DEF e, i, x, y
    <3>. QED  BY <2>1, <2>2, <2>3 DEF SlashesSince
  <2>6. \A f \in E : f.period < e.period
    BY <2>2, <2>4 DEF SlashesSince
  <2>7. Dated(E \cup {e})
    <3>. HIDE DEF E, e
    <3>1. IsFiniteSet(E \cup {e})
      BY <1>3, FS_AddElement DEF Dated
    <3>. QED  BY <1>3, <2>2, <2>3, <3>1 DEF Dated
  <2>8. WalkThrough(y, i, E \cup {e}) = Walked(y, e, WalkThrough(y, i, E))
    <3>. HIDE DEF E, e, x, y, i
    <3>. QED  BY <1>3, <2>6, <2>7, WalkLast
  <2>9. WalkThrough(y, i, E).stake = left
    <3>1. left = WalkThrough(x, i, E).stake
      BY DEF StakeLeft
    <3>. HIDE DEF E, x, y, i, left
    <3>. QED  BY <1>3, <3>1, WalkStake
  <2>10. StakeLeft(y, d) = (left * n.tokens) \div k.tokens
    <3>1. StakeLeft(y, d) = WalkThrough(y, i, E \cup {e}).stake
      BY <1>1, <2>5 DEF StakeLeft
    <3>2. WalkThrough(y, i, E \cup {e}).stake
             = (WalkThrough(y, i, E).stake * e.after) \div e.before
      <4>. HIDE DEF E, e, x, y, i
      <4>. QED  BY <2>8, WalkedStake
    <3>. HIDE DEF E, e, x, y, i, left, k, n
    <3>. QED  BY <2>2, <2>9, <3>1, <3>2
  <2>11. /\ k \in Validator /\ n \in Validator /\ k.tokens \in Nat /\ n.tokens \in Nat
         /\ AddsUp(k, shares[v])
    BY DEF IInv, TypeOK, StakesAdd, AddsUp
  <2>12. s \in Nat /\ s <= k.shares /\ k.shares \in Nat /\ s # 0
    <3>1. s # 0
      BY <1>1 DEF IInv, SharesStarted
    <3>. QED  BY <2>11, <3>1, AddsUpBound
  <2>13. left \in 0 .. TokensFromShares(k, s)
    BY <1>2 DEF Held, StakeOf
  <2>14. StakeOf(d, v)' = TokensFromShares(n, s)
    BY <1>1 DEF StakeOf
  <2>15. Held(d, v)' <=> StakeLeft(y, d) \in 0 .. TokensFromShares(n, s)
    BY <2>14 DEF Held
  <2>16. k.shares > 0
    BY <2>12
  <2>. HIDE DEF k, n, s, left, x, y, e
  <2>17. (left * n.tokens) \div k.tokens \in 0 .. TokensFromShares(n, s)
    BY <2>1, <2>11, <2>12, <2>13, <2>16, SlashWorth
  <2>. QED  BY <2>10, <2>15, <2>17
<1>. QED  BY <1>4, <1>5

LEMMA StagesOfRebuilding ==
    ASSUME [Next]_vars, ~Plain
    PROVE  pc' \in {"validators", "delegations", "staking"}
<1>1. pc \in {"validators", "delegations"}
  BY DEF Plain
<1>2. ~ChainStep
  <2>1. \A v, w \in Val : ~BeginBlock(v) /\ ~Unjail(v) /\ ~BeginBlockSlash(v, w)
    BY <1>1 DEF BeginBlock, Unjail, BeginBlockSlash, StartBlock
  <2>2. \A d \in Del, v \in Val : ~Transaction(d, v)
    BY <1>1 DEF Transaction
  <2>3. \A d \in Del, v, w \in Val : /\ ~Withdraw(d, v) /\ ~Delegate(d, v)
                                     /\ ~Undelegate(d, v) /\ ~Redelegate(d, v, w)
    BY <2>2 DEF Withdraw, Delegate, Undelegate, Redelegate
  <2>4. ~EndBlock /\ ~Restart
    BY <1>1 DEF EndBlock, Restart
  <2>. QED  BY <2>1, <2>3, <2>4 DEF ChainStep
<1>3. \A zero, apply \in BOOLEAN, allow \in SUBSET Val, fault \in Faults :
           ~BeginExport(zero, apply, allow, fault)
  BY <1>1 DEF BeginExport
<1>4. CASE ExportStep
  BY <1>1, <1>4 DEF ExportStep, WithdrawCommission, ReinitValidator, ResetValidator, NextValidator,
     WithdrawRewards, WithdrawRewardsPanics, ReinitDelegation, ClearHistory, ResetEntries,
     CloseIteratorFails, ResetSigningInfos, ApplyValidatorSetUpdates,
     ApplyValidatorSetUpdatesPanics
<1>5. Stopped \/ UNCHANGED vars => pc' = pc
  BY DEF Stopped, vars
<1>. QED  BY <1>1, <1>2, <1>3, <1>4, <1>5 DEF Next

(* After the rebuilding every delegation has started anew.                  *)
LEMMA HeldAnew ==
    ASSUME IInv', FreshSoFar', StakesAdd', Rebuilt', pc' # "delegations",
           NEW v \in Val, NEW d \in Del, d \in Started(dist'[v])
    PROVE  Held(d, v)'
<1>. DEFINE x == dist'[v]
<1>1. x.slashes = {} /\ x.info[d].stake = StakeOf(d, v)'
  BY DEF FreshSoFar, SlashesCleared, Restarted, StartsAnew, IInv, SharesStarted
<1>2. SlashesSince(x, x.info[d]) = {}
  BY <1>1 DEF SlashesSince
<1>3. StakeOf(d, v)' \in Nat
  <2>1. staking'[v] \in Validator /\ AddsUp(staking'[v], shares'[v])
    BY DEF IInv, TypeOK, StakesAdd
  <2>. QED  BY <2>1, WorthOf DEF StakeOf
<1>4. StakeLeft(x, d) = x.info[d].stake
  <2>. HIDE DEF x
  <2>. QED  BY <1>2, HeldUnslashed
<1>. QED  BY <1>1, <1>3, <1>4 DEF Held

LEMMA NextHold ==
    ASSUME IInv, IInv', FreshSoFar, FreshSoFar', StakesAdd, StakesAdd', StakesHold, [Next]_vars
    PROVE  StakesHold'
<1>. SUFFICES ASSUME Plain', NEW v \in Val, NEW d \in Del, d \in Started(dist'[v])
              PROVE  Held(d, v)'
  BY DEF StakesHold
<1>1. CASE ~Plain
  <2>1. Rebuilt' /\ pc' # "delegations"
    BY <1>1, StagesOfRebuilding DEF Rebuilt, Plain
  <2>. QED  BY <2>1, HeldAnew
<1>2. CASE Plain /\ Slash
  BY <1>2, SlashMoves, HeldSlashed DEF Slash
<1>3. CASE Plain /\ ~Slash
  <2>1. ~ClearHistory
    BY DEF ClearHistory, Plain
  <2>2. Moves(v) /\ NobodyLoses
    BY <1>3, <2>1, NextMoves, NextNobodyLoses DEF IInv
  <2>. QED  BY <1>3, <2>2, HeldMoves
<1>. QED  BY <1>1, <1>2, <1>3

LEMMA InitStart ==
    ASSUME NEW v \in Val, NEW z,
           z = AfterDelegationModified(
                 IncrementValidatorPeriod(AfterValidatorCreated(NoRewards), 0),
                 v, Stake * Unit, 0)
    PROVE  /\ Started(z) = {v} /\ z.slashes = {}
           /\ z.info[v].height = 0 /\ z.info[v].stake = Stake * Unit
<1>1. Started(z) = {v}
  BY InitRecord
<1>2. z.slashes = {}
  BY DEF AfterDelegationModified, IncrementValidatorPeriod, AfterValidatorCreated, NoRewards
<1>. DEFINE y == IncrementValidatorPeriod(AfterValidatorCreated(NoRewards), 0)
<1>3. v \in Del /\ y.info = [d \in Del |-> NoInfo]
  BY ValAssumption DEF IncrementValidatorPeriod, AfterValidatorCreated, NoRewards
<1>4. z.info = [y.info EXCEPT ![v] = [prev |-> y.period - 1, stake |-> Stake * Unit,
                                      height |-> 0]]
  BY DEF AfterDelegationModified, IncrementValidatorPeriod, AfterValidatorCreated, NoRewards
<1>. HIDE DEF y
<1>5. z.info[v] = [prev |-> y.period - 1, stake |-> Stake * Unit, height |-> 0]
  BY <1>3, <1>4
<1>. QED  BY <1>1, <1>2, <1>5

LEMMA FullWorth ==
    ASSUME NEW k, k.tokens = Stake, k.shares = Stake
    PROVE  Stake * Unit \in 0 .. TokensFromShares(k, Stake)
<1>. DEFINE a == Stake * Stake * Unit
            q == Stake * Unit
<1>1. Stake \in Nat \ {0} /\ Unit \in Nat \ {0}
  BY AmountAssumption, UnitAssumption
<1>2. a \in Nat /\ q \in Nat /\ q * Stake <= a
  BY <1>1
<1>3. TokensFromShares(k, Stake) = a \div Stake
  BY <1>1 DEF TokensFromShares
<1>4. q <= a \div Stake /\ a \div Stake \in Nat
  <2>. HIDE DEF a, q
  <2>. QED  BY <1>1, <1>2, FloorBound
<1>. QED  BY <1>2, <1>3, <1>4

LEMMA InitHistory == Init => StartedInTime /\ SlashesInTime /\ StakesHold
<1>. SUFFICES ASSUME Init PROVE StartedInTime /\ SlashesInTime /\ StakesHold
  OBVIOUS
<1>1. ASSUME NEW v \in Val
      PROVE  /\ Started(dist[v]) = {v} /\ dist[v].slashes = {}
             /\ dist[v].info[v].height = 0 /\ dist[v].info[v].stake = Stake * Unit
  <2>. DEFINE z == AfterDelegationModified(
                     IncrementValidatorPeriod(AfterValidatorCreated(NoRewards), 0),
                     v, Stake * Unit, 0)
  <2>1. z = AfterDelegationModified(
              IncrementValidatorPeriod(AfterValidatorCreated(NoRewards), 0),
              v, Stake * Unit, 0)
    OBVIOUS
  <2>2. dist[v] = z
    BY DEF Init
  <2>. HIDE DEF z
  <2>. QED  BY <2>1, <2>2, InitStart
<1>2. height = 0
  BY DEF Init
<1>3. ASSUME NEW v \in Val PROVE Held(v, v) /\ v \in Del
  <2>1. v \in Del
    BY ValAssumption
  <2>2. SlashesSince(dist[v], dist[v].info[v]) = {}
    BY <1>1 DEF SlashesSince
  <2>3. StakeLeft(dist[v], v) = Stake * Unit
    BY <1>1, <2>2, HeldUnslashed
  <2>. DEFINE k == staking[v]
  <2>4. k.tokens = Stake /\ k.shares = Stake /\ StakeOf(v, v) = TokensFromShares(k, Stake)
    BY <2>1 DEF Init, StakeOf
  <2>. HIDE DEF k
  <2>. QED  BY <2>1, <2>3, <2>4, FullWorth DEF Held
<1>. QED  BY <1>1, <1>2, <1>3 DEF StartedInTime, SlashesInTime, StakesHold

LEMMA HistoryAlways == Spec => [](StartedInTime /\ SlashesInTime /\ StakesHold)
<1>. DEFINE H == StartedInTime /\ SlashesInTime /\ StakesHold
            S == IInv /\ FreshSoFar /\ StakesAdd
<1>1. S /\ S' /\ H /\ [Next]_vars => H'
  BY NextStarted, NextSlashes, NextHold
<1>2. Init => H
  BY InitHistory
<1>3. Spec => []S
  <2>. HIDE DEF H
  <2>. QED  BY Invariant, FreshAlways, StakesAlwaysAdd, PTL
<1>. HIDE DEF S, H
<1>4. Spec => []H
  BY <1>1, <1>2, <1>3, PTL DEF Spec
<1>. QED  BY <1>4 DEF H

(* In a context of the next block's height the walk meets every slash since *)
(* the start of a delegation.                                               *)
LEMMA AllSlashesSeen ==
    ASSUME IInv, StartedInTime, SlashesInTime, NEW v \in Val, NEW d \in Del,
           d \in Started(dist[v])
    PROVE  SeenSlashes(dist[v], dist[v].info[d], height + 1)
               = SlashesSince(dist[v], dist[v].info[d])
<1>. DEFINE x == dist[v]
            i == x.info[d]
<1>1. height \in Nat /\ i.height \in 0 .. height
  BY DEF IInv, TypeOK, StartedInTime
<1>2. ASSUME NEW e \in x.slashes, e.period > i.prev
      PROVE  e.height \in i.height .. height + 1
  <2>1. e.height \in Nat
    BY DEF IInv, TypeOK, ValidatorRewards, SlashEvent
  <2>2. e.height <= height /\ e.height >= i.height
    BY <1>2 DEF SlashesInTime
  <2>. HIDE DEF x, i
  <2>. QED  BY <1>1, <2>1, <2>2
<1>. HIDE DEF x, i
<1>3. SeenSlashes(x, i, height + 1) = SlashesSince(x, i)
  BY <1>1, <1>2 DEF SeenSlashes, SlashesSince
<1>. QED  BY <1>3 DEF x, i

LEMMA HeldPassesCheck ==
    ASSUME NEW x, NEW d, NEW h, NEW current \in Nat, StakeLeft(x, d) \in 0 .. current,
           SeenSlashes(x, x.info[d], h) = SlashesSince(x, x.info[d])
    PROVE  ~FinalStakePanics(x, x.info[d], h, current)
<1>1. ThroughSlashes(x, x.info[d], h).stake = StakeLeft(x, d)
  BY DEF ThroughSlashes, StakeLeft
<1>. QED  BY <1>1 DEF FinalStakePanics, MarginOfErr

LEMMA StakeOfNat ==
    ASSUME TypeOK, StakesAdd, NEW v \in Val, NEW d \in Del
    PROVE  StakeOf(d, v) \in Nat
<1>1. staking[v] \in Validator /\ AddsUp(staking[v], shares[v])
  BY DEF TypeOK, StakesAdd
<1>. QED  BY <1>1, WorthOf DEF StakeOf

(* In a running chain a withdrawal in the next block never fails the stake  *)
(* sanity check of the keeper, whatever slashes a delegation has lived      *)
(* through and from whatever exports the chain has come.                    *)
THEOREM NoWithdrawalPanics == Spec => []WithdrawalsNeverPanic
<1>1. IInv /\ StakesAdd /\ StartedInTime /\ SlashesInTime /\ StakesHold
         => WithdrawalsNeverPanic
  <2>. SUFFICES ASSUME IInv, StakesAdd, StartedInTime, SlashesInTime, StakesHold, Running,
                       NEW v \in Val, NEW d \in Del, shares[v][d] # 0
                PROVE  ~FinalStakePanics(dist[v], dist[v].info[d], height + 1, StakeOf(d, v))
    BY DEF WithdrawalsNeverPanic
  <2>1. d \in Started(dist[v]) /\ Plain
    BY DEF IInv, SharesStarted, Running, Plain
  <2>2. StakeLeft(dist[v], d) \in 0 .. StakeOf(d, v)
    BY <2>1 DEF StakesHold, Held
  <2>3. StakeOf(d, v) \in Nat
    BY StakeOfNat DEF IInv
  <2>. QED  BY <2>1, <2>2, <2>3, AllSlashesSeen, HeldPassesCheck
<1>. QED  BY <1>1, Invariant, StakesAlwaysAdd, HistoryAlways, PTL

-----------------------------------------------------------------------------
(* What may take the export down.                                           *)

(* No jailed validator is in the by-power index until the export jails      *)
(* those that its list does not name, leaving them in the index.            *)
Indexed ==
    /\ Running => ex = NoExport
    /\ \A v \in powerIndex \cap jailed : ex.apply /\ v \notin ex.allow

LEMMA InitIndexed == Init => Indexed
BY DEF Init, Indexed

LEMMA ChainIndexed ==
    ASSUME TypeOK, Indexed, ChainStep
    PROVE  Indexed'
<1>1. CASE \E v \in Val : BeginBlock(v) \/ Unjail(v)
  BY <1>1 DEF BeginBlock, StartBlock, Unjail, Indexed, Running
<1>2. CASE \E v, w \in Val : BeginBlockSlash(v, w)
  BY <1>2 DEF BeginBlockSlash, StartBlock, Indexed, Running
<1>3. CASE \E d \in Del, v \in Val : Withdraw(d, v) \/ Delegate(d, v)
  BY <1>3 DEF Withdraw, Delegate, Transaction, Indexed, Running
<1>4. CASE \E d \in Del, v, w \in Val : Undelegate(d, v) \/ Redelegate(d, v, w)
  BY <1>4 DEF Undelegate, Redelegate, Transaction, JailSelf, Indexed, Running
<1>5. CASE EndBlock
  BY <1>5 DEF EndBlock, Indexed, Running
<1>6. CASE Restart
  BY <1>6 DEF Restart, Indexed, Running
<1>. QED  BY <1>1, <1>2, <1>3, <1>4, <1>5, <1>6 DEF ChainStep

LEMMA ExportIndexed ==
    ASSUME TypeOK, Indexed, ExportStep
    PROVE  Indexed'
<1>. ex \in ExportLocals
  BY DEF TypeOK
<1>. USE DEF ExportLocals
<1>1. CASE \E v \in Val : ResetValidator(v)
  BY <1>1 DEF ResetValidator, NextValidator, Indexed, Running, TypeOK
<1>2. CASE \E v \in Val : WithdrawCommission(v) \/ ReinitValidator(v)
  BY <1>2 DEF WithdrawCommission, ReinitValidator, NextValidator, chain, Indexed, Running, TypeOK
<1>3. CASE \E d \in Del, v \in Val : WithdrawRewards(d, v) \/ WithdrawRewardsPanics(d, v)
                                        \/ ReinitDelegation(d, v)
  BY <1>3 DEF WithdrawRewards, WithdrawRewardsPanics, ReinitDelegation, chain, Indexed, Running,
     TypeOK
<1>4. CASE ClearHistory \/ ResetEntries \/ CloseIteratorFails \/ ResetSigningInfos
             \/ ApplyValidatorSetUpdates \/ ApplyValidatorSetUpdatesPanics
  BY <1>4 DEF ClearHistory, ResetEntries, CloseIteratorFails, ResetSigningInfos,
     ApplyValidatorSetUpdates, ApplyValidatorSetUpdatesPanics, chain, Indexed, Running, TypeOK
<1>. QED  BY <1>1, <1>2, <1>3, <1>4 DEF ExportStep

LEMMA NextIndexed == TypeOK /\ Indexed /\ [Next]_vars => Indexed'
<1>. SUFFICES ASSUME TypeOK, Indexed, [Next]_vars PROVE Indexed'
  OBVIOUS
<1>1. CASE \E zero, apply \in BOOLEAN, allow \in SUBSET Val, fault \in Faults :
           BeginExport(zero, apply, allow, fault)
  <2>1. pc = "committed" /\ pc' \notin {"genesis", "block", "committed"}
        /\ powerIndex' = powerIndex /\ jailed' = jailed
    BY <1>1 DEF BeginExport, chain
  <2>2. powerIndex \cap jailed = {}
    BY <2>1 DEF Indexed, Running, NoExport
  <2>. QED  BY <2>1, <2>2 DEF Indexed, Running
<1>2. CASE Stopped \/ UNCHANGED vars
  BY <1>2 DEF Stopped, vars, Indexed, Running
<1>. QED  BY <1>1, <1>2, ChainIndexed, ExportIndexed DEF Next

LEMMA IndexedAlways == Spec => []Indexed
<1>1. IInv => TypeOK
  BY DEF IInv
<1>. QED  BY <1>1, InitIndexed, NextIndexed, Invariant, PTL DEF Spec

LEMMA NothingSeenAtZero ==
    ASSUME IInv, StartedInTime, NEW v \in Val, NEW d \in Del, d \in Started(dist[v])
    PROVE  SeenSlashes(dist[v], dist[v].info[d], 0) = {}
<1>1. dist[v].info[d].height \in 0 .. height /\ height \in Nat
  BY DEF StartedInTime, IInv, TypeOK
<1>. QED  BY <1>1 DEF SeenSlashes

(* The height 0 hides the slashes: a delegation without one passes.         *)
LEMMA PanicsOnSlashed ==
    ASSUME IInv, StakesAdd, StartedInTime, StakesHold, NEW d \in Del, NEW v \in Val,
           WithdrawRewardsPanics(d, v)
    PROVE  <<d, v>> \in AllDelegations /\ SlashedSinceStart(d, v)
<1>. DEFINE x == dist[v]
            i == x.info[d]
<1>1. /\ pc = "rewards" /\ ex.dels # {} /\ <<d, v>> = FirstDelegation(ex.dels)
      /\ FinalStakePanics(x, i, 0, StakeOf(d, v))
  BY DEF WithdrawRewardsPanics
<1>2. <<d, v>> \in AllDelegations
  BY <1>1 DEF IInv, LoopsOverDelegations, FirstDelegation
<1>3. d \in Started(x) /\ Plain
  BY <1>1, <1>2 DEF AllDelegations, IInv, SharesStarted, Plain
<1>4. Held(d, v) /\ StakeOf(d, v) \in Nat
  BY <1>3, StakeOfNat DEF StakesHold, IInv
<1>5. SeenSlashes(x, i, 0) = {}
  BY <1>3, NothingSeenAtZero
<1>6. SlashesSince(x, i) # {}
  <2>. SUFFICES ASSUME SlashesSince(x, i) = {} PROVE FALSE
    OBVIOUS
  <2>1. ~FinalStakePanics(x, x.info[d], 0, StakeOf(d, v))
    <3>1. StakeLeft(x, d) \in 0 .. StakeOf(d, v)
      BY <1>4 DEF Held
    <3>2. SeenSlashes(x, x.info[d], 0) = SlashesSince(x, x.info[d])
      BY <1>5
    <3>. HIDE DEF x
    <3>. QED  BY <1>4, <3>1, <3>2, HeldPassesCheck
  <2>. QED  BY <1>1, <2>1
<1>7. SlashedSinceStart(d, v)
  BY <1>6 DEF SlashesSince, SlashedSinceStart
<1>. QED  BY <1>2, <1>7

LEMMA WaysToPanic ==
    ASSUME ModuleAccount, [Next]_vars, pc' = "panicked"
    PROVE  \/ \E d \in Del, v \in Val : WithdrawRewardsPanics(d, v)
           \/ ApplyValidatorSetUpdatesPanics
           \/ ex'.fault # "none"
           \/ UNCHANGED vars
<1>1. ~ChainStep
  <2>1. \A v, w \in Val : ~BeginBlock(v) /\ ~BeginBlockSlash(v, w)
    BY DEF BeginBlock, BeginBlockSlash, StartBlock
  <2>2. \A d \in Del, v, w \in Val : /\ ~Withdraw(d, v) /\ ~Delegate(d, v)
                                     /\ ~Undelegate(d, v) /\ ~Redelegate(d, v, w)
    BY DEF Withdraw, Delegate, Undelegate, Redelegate, Transaction
  <2>3. ~EndBlock /\ ~Restart
    BY DEF EndBlock, Restart
  <2>4. \A v \in Val : ~Unjail(v)
    BY DEF Unjail
  <2>. QED  BY <2>1, <2>2, <2>3, <2>4 DEF ChainStep
<1>2. \A zero, apply \in BOOLEAN, allow \in SUBSET Val, fault \in Faults :
           BeginExport(zero, apply, allow, fault) => ex'.fault # "none"
  BY DEF BeginExport
<1>3. ASSUME ExportStep
      PROVE  \/ \E d \in Del, v \in Val : WithdrawRewardsPanics(d, v)
             \/ ApplyValidatorSetUpdatesPanics
  BY <1>3 DEF ExportStep, WithdrawCommission, ReinitValidator, ResetValidator, NextValidator,
     WithdrawRewards, ReinitDelegation, ClearHistory, ResetEntries, CloseIteratorFails,
     ResetSigningInfos, ApplyValidatorSetUpdates
<1>4. Stopped => UNCHANGED vars
  BY DEF Stopped
<1>. QED  BY <1>1, <1>2, <1>3, <1>4 DEF Next

LEMMA NextExplained ==
    ASSUME IInv, ModuleAccount, StakesAdd, StartedInTime, StakesHold, Indexed,
           PanicsExplained, [Next]_vars
    PROVE  PanicsExplained'
<1>. SUFFICES ASSUME pc' = "panicked" PROVE PanicsExplained'
  BY DEF PanicsExplained
<1>1. CASE \E d \in Del, v \in Val : WithdrawRewardsPanics(d, v)
  <2>1. PICK d \in Del, v \in Val : WithdrawRewardsPanics(d, v)
    BY <1>1
  <2>2. <<d, v>> \in AllDelegations /\ SlashedSinceStart(d, v)
    BY <2>1, PanicsOnSlashed
  <2>3. shares' = shares /\ dist' = dist
    BY <2>1 DEF WithdrawRewardsPanics, chain
  <2>4. <<d, v>> \in AllDelegations' /\ SlashedSinceStart(d, v)'
    BY <2>2, <2>3 DEF AllDelegations, SlashedSinceStart
  <2>5. \E x \in AllDelegations' : SlashedSinceStart(x[1], x[2])'
    <3>. USE <2>4
    <3>. WITNESS <<d, v>> \in AllDelegations'
    <3>. QED  OBVIOUS
  <2>. QED  BY <2>5 DEF PanicsExplained
<1>2. CASE ApplyValidatorSetUpdatesPanics
  <2>1. PICK v \in powerIndex : v \in jailed
    BY <1>2 DEF ApplyValidatorSetUpdatesPanics, RetrievesJailed
  <2>2. ex.apply /\ ~(powerIndex \subseteq ex.allow)
    BY <2>1 DEF Indexed
  <2>3. ex' = ex /\ powerIndex' = powerIndex
    BY <1>2 DEF ApplyValidatorSetUpdatesPanics, chain
  <2>. QED  BY <2>2, <2>3 DEF PanicsExplained
<1>3. CASE UNCHANGED vars
  BY <1>3 DEF vars, PanicsExplained, AllDelegations, SlashedSinceStart
<1>4. CASE ex'.fault # "none"
  BY <1>4 DEF PanicsExplained
<1>. QED  BY <1>1, <1>2, <1>3, <1>4, WaysToPanic

(* A zero-height export dies only of a broken invariant of another module   *)
(* or an address of its list that cannot be parsed, of a delegation that    *)
(* has been slashed since it started, which the early height 0 hides from   *)
(* the withdrawal, or of a list that does not name a validator of the       *)
(* by-power index; distribution's invariant stops neither an export nor the *)
(* chain that starts from it.                                               *)
THEOREM DeathsExplained == Spec => []PanicsExplained
<1>1. Init => PanicsExplained
  BY DEF Init, PanicsExplained
<1>. QED  BY <1>1, NextExplained, Invariant, AccountBalanced, StakesAlwaysAdd, HistoryAlways,
             IndexedAlways, PTL DEF Spec

-----------------------------------------------------------------------------
(* What the export pays.                                                    *)

(* A delegation without a slash has seen none in either context.            *)
LEMMA SameWithoutSlash ==
    ASSUME NEW x, NEW i, NEW h, NEW k, NEW current,
           SeenSlashes(x, i, h) = {}, SeenSlashes(x, i, k) = {}, i.height # h, i.height # k
    PROVE  Due(x, i, h, current) = Due(x, i, k, current)
BY DEF Due, Accrued, ThroughSlashes

LEMMA SamePayout ==
    ASSUME IInv, StartedInTime, SlashesInTime, NEW d \in Del, NEW v \in Val,
           d \in Started(dist[v]), dist[v].info[d].height # 0, ~SlashedSinceStart(d, v)
    PROVE  PayoutOf(d, v, 0) = PayoutOf(d, v, height + 1)
<1>. DEFINE x == dist[v]
            i == x.info[d]
            y == IncrementValidatorPeriod(x, staking[v].tokens)
<1>1. i.height \in 0 .. height /\ height \in Nat
  BY DEF StartedInTime, IInv, TypeOK
<1>2. i.height # height + 1 /\ i.height # 0
  BY <1>1
<1>3. SeenSlashes(x, i, 0) = {}
  BY NothingSeenAtZero
<1>4. SeenSlashes(x, i, height + 1) = {}
  <2>1. SeenSlashes(x, i, height + 1) = SlashesSince(x, i)
    BY AllSlashesSeen
  <2>. QED  BY <2>1 DEF SlashesSince, SlashedSinceStart
<1>5. \A h : SeenSlashes(y, i, h) = SeenSlashes(x, i, h)
  <2>1. x \in ValidatorRewards
    BY DEF IInv, TypeOK
  <2>2. y.slashes = x.slashes
    BY <2>1 DEF IncrementValidatorPeriod, ValidatorRewards
  <2>. HIDE DEF x, i, y
  <2>. QED  BY <2>2 DEF SeenSlashes
<1>6. \A h : PayoutOf(d, v, h) = Due(y, i, h, StakeOf(d, v))
  BY DEF PayoutOf, Payout
<1>. HIDE DEF x, i, y
<1>7. SeenSlashes(y, i, 0) = {} /\ SeenSlashes(y, i, height + 1) = {}
  BY <1>3, <1>4, <1>5
<1>8. Due(y, i, 0, StakeOf(d, v)) = Due(y, i, height + 1, StakeOf(d, v))
  BY <1>2, <1>7, SameWithoutSlash
<1>. QED  BY <1>6, <1>8

(* Who withdraws in the loop over the delegations.                          *)
LEMMA WhoWithdraws ==
    ASSUME IInv, [Next]_vars, NEW d \in Del, NEW v \in Val, WithdrawnNow(d, v)
    PROVE  WithdrawRewards(d, v)
<1>1. pc = "rewards" /\ <<d, v>> \in ex.dels /\ <<d, v>> \notin ex'.dels
  BY DEF WithdrawnNow
<1>2. ex' # ex
  BY <1>1
<1>3. ~ChainStep
  <2>1. \A u, w \in Val : ~BeginBlock(u) /\ ~BeginBlockSlash(u, w)
    BY <1>1 DEF BeginBlock, BeginBlockSlash, StartBlock
  <2>2. \A c \in Del, u, w \in Val : /\ ~Withdraw(c, u) /\ ~Delegate(c, u)
                                     /\ ~Undelegate(c, u) /\ ~Redelegate(c, u, w)
    BY <1>1 DEF Withdraw, Delegate, Undelegate, Redelegate, Transaction
  <2>3. ~EndBlock /\ ~Restart /\ \A u \in Val : ~Unjail(u)
    BY <1>1 DEF EndBlock, Restart, Unjail
  <2>. QED  BY <2>1, <2>2, <2>3 DEF ChainStep
<1>4. \A zero, apply \in BOOLEAN, allow \in SUBSET Val, fault \in Faults :
           ~BeginExport(zero, apply, allow, fault)
  BY <1>1 DEF BeginExport
<1>5. ~Stopped /\ ~UNCHANGED vars
  BY <1>2 DEF Stopped, vars
<1>6. ExportStep
  BY <1>3, <1>4, <1>5 DEF Next
<1>7. \E c \in Del, u \in Val : WithdrawRewards(c, u)
  BY <1>1, <1>2, <1>6 DEF ExportStep, WithdrawCommission, ReinitValidator, ResetValidator,
     NextValidator, WithdrawRewardsPanics, ReinitDelegation, ClearHistory, ResetEntries,
     CloseIteratorFails, ResetSigningInfos, ApplyValidatorSetUpdates,
     ApplyValidatorSetUpdatesPanics
<1>8. PICK c \in Del, u \in Val : WithdrawRewards(c, u)
  BY <1>7
<1>9. ex'.dels = ex.dels \ {<<c, u>>}
  BY <1>8 DEF WithdrawRewards, IInv, TypeOK
<1>10. c = d /\ u = v
  BY <1>1, <1>9
<1>. QED  BY <1>8, <1>10

(* The export pays a delegation that did not start at height 0 and has not  *)
(* been slashed since all it could withdraw from the next block on.         *)
THEOREM UnslashedArePaid == Spec => UnslashedPaidInFull
<1>. DEFINE Paid == \A d \in Del, v \in Val :
                WithdrawnNow(d, v) /\ dist[v].info[d].height # 0 /\ ~SlashedSinceStart(d, v)
                    => PaysAsInNextBlock(d, v)
<1>1. IInv /\ StartedInTime /\ SlashesInTime /\ [Next]_vars => Paid
  <2>. SUFFICES ASSUME IInv, StartedInTime, SlashesInTime, [Next]_vars,
                       NEW d \in Del, NEW v \in Val, WithdrawnNow(d, v),
                       dist[v].info[d].height # 0, ~SlashedSinceStart(d, v)
                PROVE  PaysAsInNextBlock(d, v)
    OBVIOUS
  <2>1. WithdrawRewards(d, v)
    BY WhoWithdraws
  <2>2. <<d, v>> \in AllDelegations
    BY DEF WithdrawnNow, IInv, LoopsOverDelegations
  <2>3. d \in Started(dist[v])
    BY <2>2 DEF AllDelegations, IInv, SharesStarted
  <2>4. WellFormed(dist[v]) /\ dist[v].period < MaxPeriod
    BY <2>1 DEF WithdrawRewards, IInv, Records, Plain
  <2>5. bal' = bal - PayoutOf(d, v, 0) \div Unit
    BY <2>1 DEF WithdrawRewards, PaidOut
  <2>6. PayoutOf(d, v, 0) = PayoutOf(d, v, height + 1)
    BY <2>3, SamePayout
  <2>7. bal \in Int /\ PayoutOf(d, v, 0) \in Int /\ Unit \in Nat \ {0}
    <3>1. bal \in Int /\ staking[v].tokens \in Int
      BY DEF IInv, TypeOK, Validator
    <3>. QED  BY <2>4, <3>1, PayoutInt, UnitAssumption DEF PayoutOf
  <2>. DEFINE p == PayoutOf(d, v, 0)
              q == p \div Unit
  <2>8. q \in Int
    <3>. HIDE DEF p
    <3>. QED  BY <2>7 DEF p
  <2>9. bal - bal' = q
    <3>. HIDE DEF q
    <3>1. bal' = bal - q
      BY <2>5 DEF q
    <3>. QED  BY <2>7, <2>8, <3>1
  <2>. QED  BY <2>6, <2>9 DEF PaysAsInNextBlock
<1>2. Spec => [][Paid]_vars
  <2>. HIDE DEF Paid
  <2>. QED  BY <1>1, Invariant, HistoryAlways, PTL DEF Spec
<1>. QED  BY <1>2 DEF UnslashedPaidInFull

-----------------------------------------------------------------------------
(* What the delegators may claim.  The rewards of a delegation are, before  *)
(* any rounding of what it has earned since the last slash, proportional to *)
(* its stake; the stakes fit into the tokens; so a period that ends never   *)
(* promises more than was collected in it.                                  *)

(* The cumulative ratio at the end of period p has a record.                *)
Kept(x, p) == p \in Periods /\ x.ref[p] # 0

SameRatios(x, z) == \A p \in Periods : Kept(x, p) /\ Kept(z, p) => z.cum[p] = x.cum[p]

Rising(x) == \A p, q \in Periods : Kept(x, p) /\ Kept(x, q) /\ p <= q => x.cum[p] <= x.cum[q]

Walk(x, d) == WalkThrough(x, x.info[d], SlashesSince(x, x.info[d]))

(* What a unit of stake has earned since the last slash.                    *)
Gain(x, d) == Cum(x, x.period - 1) - Cum(x, Walk(x, d).prev)

(* In units of 1/Unit of the decimal unit.                                  *)
Earned(x, d) == Walk(x, d).rewards * Unit + Gain(x, d) * Walk(x, d).stake

EarnedBy(x) == [d \in Del |-> IF d \in Started(x) THEN Earned(x, d) ELSE 0]

Claims(x) == SumFunctionOnSet(EarnedBy(x), Del)

StakesLeft(x) == [d \in Del |-> IF d \in Started(x) THEN Walk(x, d).stake ELSE 0]

Walkers(x) == \A d \in Started(x) : Walk(x, d).rewards \in Nat /\ Walk(x, d).stake \in Nat

(* All that is claimed, commission and current rewards are outstanding.     *)
Solvent(x) ==
    /\ x.com \in Nat /\ x.cur \in Nat
    /\ Rising(x) /\ Walkers(x)
    /\ (x.com + x.cur) * Unit + Claims(x) <= x.out * Unit

(* Everything that is referred to has a record.                             *)
LEMMA ReferredKept ==
    ASSUME NEW x, WellFormed(x)
    PROVE  /\ \A d \in Started(x) : Kept(x, x.info[d].prev)
           /\ \A e \in x.slashes : Kept(x, e.period)
           /\ Kept(x, x.period - 1)
           /\ \A p : Kept(x, p) => p \in 0 .. x.period - 1
<1>. DEFINE B == Started(x)
<1>1. x \in ValidatorRewards /\ CountsReferrers(x, B) /\ ReferrersInThePast(x, B)
  BY DEF WellFormed, Good
<1>2. x.period \in Nat \ {0} /\ x.period <= MaxPeriod /\ MaxPeriod \in Nat
  BY <1>1, MaxPeriodAssumption DEF ValidatorRewards, ReferrersInThePast
<1>3. \A p \in 0 .. x.period - 1 : p \in Periods
  BY <1>2 DEF Periods
<1>4. /\ \A d \in B : x.info[d].prev \in 0 .. x.period - 1
      /\ \A e \in x.slashes : e.period \in 0 .. x.period - 1
      /\ x.period - 1 \in 0 .. x.period - 1
  BY <1>1, <1>2 DEF ReferrersInThePast
<1>5. ASSUME NEW p \in Periods
      PROVE  x.ref[p] = (IF \E d \in B : x.info[d].prev = p THEN 1 ELSE 0)
                      + (IF \E e \in x.slashes : e.period = p THEN 1 ELSE 0)
                      + (IF p = x.period - 1 THEN 1 ELSE 0)
  BY <1>1 DEF CountsReferrers, Refers, SlashRefers
<1>. HIDE DEF B
<1>6. \A d \in B : Kept(x, x.info[d].prev)
  BY <1>3, <1>4, <1>5 DEF Kept
<1>7. \A e \in x.slashes : Kept(x, e.period)
  BY <1>3, <1>4, <1>5 DEF Kept
<1>8. Kept(x, x.period - 1)
  BY <1>3, <1>4, <1>5 DEF Kept
<1>9. ASSUME NEW p, Kept(x, p) PROVE p \in 0 .. x.period - 1
  BY <1>4, <1>5, <1>9 DEF Kept
<1>. QED  BY <1>6, <1>7, <1>8, <1>9 DEF B

LEMMA KeptCum ==
    ASSUME NEW x, NEW z, SameRatios(x, z), NEW p, Kept(x, p), Kept(z, p)
    PROVE  Cum(z, p) = Cum(x, p)
BY DEF SameRatios, Kept, Cum

(* The walk reads the ratios of its start and of the slashes.               *)
WalkReads(i, S) == {i.prev} \cup {e.period : e \in S}

LEMMA WalkPrev ==
    ASSUME NEW S, Dated(S), NEW x, NEW i
    PROVE  WalkThrough(x, i, S).prev \in WalkReads(i, S)
<1>1. PICK g : IsWalk(g, x, i, S) /\ \A s \in SUBSET S : WalkThrough(x, i, s) = g[s]
  BY WalkIs
<1>2. CASE S = {}
  <2>1. g[S] = Unwalked(i)
    BY <1>1, <1>2 DEF IsWalk
  <2>2. Unwalked(i).prev = i.prev
    BY DEF Unwalked
  <2>. QED  BY <1>1, <2>1, <2>2 DEF WalkReads
<1>3. CASE S # {}
  <2>1. g[S].prev = LatestSlash(S).period
    BY <1>1, <1>3 DEF IsWalk, Walked
  <2>. QED  BY <1>1, <1>3, <2>1, LatestIn DEF WalkReads
<1>. QED  BY <1>2, <1>3

LEMMA WalkSame ==
    ASSUME NEW S, Dated(S), NEW x, NEW y, NEW i,
           \A p \in WalkReads(i, S) : Cum(y, p) = Cum(x, p)
    PROVE  WalkThrough(y, i, S) = WalkThrough(x, i, S)
<1>1. PICK g : IsWalk(g, x, i, S) /\ \A s \in SUBSET S : WalkThrough(x, i, s) = g[s]
  BY WalkIs
<1>2. PICK h : IsWalk(h, y, i, S) /\ \A s \in SUBSET S : WalkThrough(y, i, s) = h[s]
  BY WalkIs
<1>. DEFINE Right == {s \in SUBSET S : g[s] = h[s]}
<1>3. ASSUME NEW s \in SUBSET S, \A r \in SUBSET s : r # s => r \in Right
      PROVE  s \in Right
  <2>1. CASE s = {}
    BY <1>1, <1>2, <2>1 DEF IsWalk
  <2>2. CASE s # {}
    <3>. DEFINE e == LatestSlash(s)
                r == s \ {e}
    <3>1. e \in s
      BY <2>2, DatedSubset, LatestIn
    <3>2. r \in Right /\ r \in SUBSET S
      BY <1>3, <3>1
    <3>3. g[s] = Walked(x, e, g[r]) /\ h[s] = Walked(y, e, h[r])
      BY <1>1, <1>2, <2>2 DEF IsWalk
    <3>4. g[r].prev \in WalkReads(i, S) /\ e.period \in WalkReads(i, S)
      <4>1. g[r] = WalkThrough(x, i, r) /\ Dated(r)
        BY <1>1, <3>2, DatedSubset
      <4>. HIDE DEF r, e
      <4>2. g[r].prev \in WalkReads(i, r)
        BY <4>1, WalkPrev
      <4>. QED  BY <3>1, <3>2, <4>2 DEF WalkReads
    <3>5. g[r] = h[r]
      BY <3>2
    <3>. HIDE DEF r, e
    <3>6. Between(x, g[r].prev, e.period, g[r].stake) = Between(y, g[r].prev, e.period, g[r].stake)
      BY <3>4 DEF Between
    <3>7. g[s] = h[s]
      BY <3>3, <3>5, <3>6 DEF Walked
    <3>. QED  BY <3>7
  <2>. QED  BY <2>1, <2>2
<1>4. \A s \in SUBSET S : s \in Right
  <2>. HIDE DEF Right
  <2>. QED  BY <1>3, SubsetInduction DEF Dated
<1>. QED  BY <1>1, <1>2, <1>4

LEMMA SinceDated ==
    ASSUME NEW x, WellFormed(x), NEW i
    PROVE  Dated(SlashesSince(x, i)) /\ SlashesSince(x, i) \in SUBSET x.slashes
<1>. DEFINE E == SlashesSince(x, i)
<1>1. Dated(x.slashes) /\ E \in SUBSET x.slashes
  BY SlashesDated DEF SlashesSince
<1>. HIDE DEF E
<1>2. Dated(E)
  BY <1>1, DatedSubset
<1>. QED  BY <1>1, <1>2 DEF E

(* The walk of a delegation ends at a ratio with a record.                  *)
LEMMA WalkKept ==
    ASSUME NEW x, WellFormed(x), NEW d \in Started(x)
    PROVE  /\ \A p \in WalkReads(x.info[d], SlashesSince(x, x.info[d])) : Kept(x, p)
           /\ Kept(x, Walk(x, d).prev)
<1>. DEFINE i == x.info[d]
            E == SlashesSince(x, i)
<1>1. Dated(E) /\ E \in SUBSET x.slashes
  BY SinceDated
<1>2. Kept(x, i.prev) /\ \A e \in E : Kept(x, e.period)
  BY <1>1, ReferredKept
<1>3. \A p \in WalkReads(i, E) : Kept(x, p)
  BY <1>2 DEF WalkReads
<1>4. Walk(x, d) = WalkThrough(x, i, E)
  BY DEF Walk
<1>5. Walk(x, d).prev \in WalkReads(i, E)
  <2>. HIDE DEF i, E
  <2>. QED  BY <1>1, <1>4, WalkPrev
<1>. QED  BY <1>3, <1>5

(* A delegation that goes on, in records that keep their ratios.            *)
LEMMA WalkStays ==
    ASSUME NEW x, WellFormed(x), NEW z, WellFormed(z), SameRatios(x, z),
           z.slashes = x.slashes,
           NEW d \in Started(x), d \in Started(z), z.info[d] = x.info[d]
    PROVE  Walk(z, d) = Walk(x, d) /\ Cum(z, Walk(x, d).prev) = Cum(x, Walk(x, d).prev)
<1>. DEFINE i == x.info[d]
            E == SlashesSince(x, i)
<1>1. Dated(E) /\ E = SlashesSince(z, i)
  BY SinceDated DEF SlashesSince
<1>2. \A p \in WalkReads(i, E) : Kept(x, p) /\ Kept(z, p)
  <2>1. \A p \in WalkReads(i, E) : Kept(x, p)
    BY WalkKept
  <2>2. \A p \in WalkReads(i, SlashesSince(z, i)) : Kept(z, p)
    BY WalkKept
  <2>. QED  BY <1>1, <2>1, <2>2
<1>3. \A p \in WalkReads(i, E) : Cum(z, p) = Cum(x, p)
  BY <1>2, KeptCum
<1>4. Walk(x, d) = WalkThrough(x, i, E) /\ Walk(z, d) = WalkThrough(z, i, E)
  BY <1>1 DEF Walk
<1>. HIDE DEF i, E
<1>5. Walk(z, d) = Walk(x, d)
  BY <1>1, <1>3, <1>4, WalkSame
<1>6. Walk(x, d).prev \in WalkReads(i, E)
  BY <1>1, <1>4, WalkPrev
<1>. QED  BY <1>3, <1>5, <1>6

LEMMA PeriodBounds ==
    ASSUME NEW x, WellFormed(x)
    PROVE  /\ x.period \in Nat /\ x.period - 1 \in Nat /\ x.period \in Periods
           /\ x.period - 1 \in Periods /\ x \in ValidatorRewards
<1>1. x \in ValidatorRewards /\ x.period <= MaxPeriod
  BY DEF WellFormed, Good, ReferrersInThePast
<1>2. x.period \in Nat \ {0} /\ MaxPeriod \in Nat
  BY <1>1, MaxPeriodAssumption DEF ValidatorRewards
<1>. QED  BY <1>1, <1>2 DEF Periods

LEMMA CumInt ==
    ASSUME NEW x, WellFormed(x), NEW p, Kept(x, p)
    PROVE  Cum(x, p) \in Int /\ Cum(x, p) = x.cum[p]
BY DEF WellFormed, ValidatorRewards, Kept, Cum

(* What has been earned is not negative.                                    *)
LEMMA EarnedNat ==
    ASSUME NEW x, WellFormed(x), Rising(x), Walkers(x), NEW d \in Started(x)
    PROVE  /\ Gain(x, d) \in Nat /\ Earned(x, d) \in Nat
           /\ Walk(x, d).rewards \in Nat /\ Walk(x, d).stake \in Nat
<1>. DEFINE p == Walk(x, d).prev
            q == x.period - 1
<1>1. Kept(x, p) /\ Kept(x, q) /\ p <= q
  <2>1. Kept(x, p)
    BY WalkKept
  <2>2. Kept(x, q) /\ p \in 0 .. q
    BY <2>1, ReferredKept
  <2>. QED  BY <2>1, <2>2
<1>2. Cum(x, p) \in Int /\ Cum(x, q) \in Int /\ Cum(x, p) <= Cum(x, q)
  <2>. HIDE DEF p, q
  <2>1. p \in Periods /\ q \in Periods
    BY <1>1 DEF Kept
  <2>2. x.cum[p] <= x.cum[q]
    BY <1>1, <2>1 DEF Rising
  <2>. QED  BY <1>1, <2>2, CumInt
<1>3. Gain(x, d) = Cum(x, q) - Cum(x, p)
  BY DEF Gain
<1>. HIDE DEF p, q
<1>4. Gain(x, d) \in Nat
  BY <1>2, <1>3
<1>5. Walk(x, d).rewards \in Nat /\ Walk(x, d).stake \in Nat /\ Unit \in Nat
  BY UnitAssumption DEF Walkers
<1>6. Earned(x, d) = Walk(x, d).rewards * Unit + Gain(x, d) * Walk(x, d).stake
  BY DEF Earned
<1>7. Earned(x, d) \in Nat
  BY <1>4, <1>5, <1>6
<1>. QED  BY <1>4, <1>5, <1>7

LEMMA StartedFinite == ASSUME NEW x PROVE Started(x) \in SUBSET Del /\ IsFiniteSet(Del)
BY DelFinite DEF Started

LEMMA ClaimsNat ==
    ASSUME NEW x, WellFormed(x), Rising(x), Walkers(x)
    PROVE  /\ \A d \in Del : EarnedBy(x)[d] \in Nat /\ StakesLeft(x)[d] \in Nat
           /\ Claims(x) \in Nat
<1>1. \A d \in Del : EarnedBy(x)[d] \in Nat /\ StakesLeft(x)[d] \in Nat
  BY EarnedNat DEF EarnedBy, StakesLeft
<1>. DEFINE f == EarnedBy(x)
<1>2. SumFunctionOnSet(f, Del) \in Nat
  <2>. HIDE DEF f
  <2>. QED  BY <1>1, DelFinite, SumNat DEF f
<1>. QED  BY <1>1, <1>2 DEF Claims

RatioOf(x, tokens) == IF tokens > 0 THEN x.cur \div tokens ELSE 0

(* The records y go on from x: what is kept stays, and the latest ratio is  *)
(* greater by more.                                                         *)
GoesOn(x, y, more) ==
    /\ Started(y) = Started(x) /\ Rising(y)
    /\ y.info = x.info /\ y.slashes = x.slashes
    /\ \A d \in Started(x) : /\ Walk(y, d) = Walk(x, d)
                             /\ Gain(y, d) = Gain(x, d) + more
                             /\ Earned(y, d) = Earned(x, d) + more * Walk(x, d).stake

LEMMA RatioNat ==
    ASSUME NEW x, x.cur \in Nat, NEW tokens \in Nat
    PROVE  RatioOf(x, tokens) \in Nat /\ RatioOf(x, tokens) * tokens <= x.cur
BY FloorBound DEF RatioOf

(* IncrementValidatorPeriod: the new ratio is the latest.                   *)
LEMMA IncrementRatios ==
    ASSUME NEW x, WellFormed(x), Rising(x), x.cur \in Nat, NEW tokens \in Nat,
           NEW y, y = IncrementValidatorPeriod(x, tokens)
    PROVE  /\ SameRatios(x, y) /\ Rising(y)
           /\ Cum(y, x.period) = Cum(x, x.period - 1) + RatioOf(x, tokens)
<1>. DEFINE P == x.period
            r == RatioOf(x, tokens)
            c == Cum(x, P - 1) + r
<1>1. P \in Nat /\ P - 1 \in Nat /\ P \in Periods /\ P - 1 \in Periods /\ x \in ValidatorRewards
  BY PeriodBounds
<1>2. r \in Nat
  BY RatioNat
<1>3. /\ y.cum = [x.cum EXCEPT ![P] = c]
      /\ y.ref = [x.ref EXCEPT ![P - 1] = x.ref[P - 1] - 1, ![P] = 1]
  BY DEF IncrementValidatorPeriod, RatioOf, ValidatorRewards
<1>4. Kept(x, P - 1) /\ \A p : Kept(x, p) => p \in 0 .. P - 1
  BY ReferredKept
<1>5. Cum(x, P - 1) = x.cum[P - 1] /\ x.cum \in [Periods -> Int] /\ x.ref \in [Periods -> Nat]
  BY <1>1, <1>4, CumInt DEF ValidatorRewards
<1>. HIDE DEF P, r
<1>6. y.cum[P] = c /\ y.ref[P] = 1 /\ \A p \in Periods \ {P} : y.cum[p] = x.cum[p]
  BY <1>1, <1>3, <1>5
<1>7. \A p : Kept(y, p) /\ p # P => Kept(x, p)
  BY <1>1, <1>3, <1>4, <1>5 DEF Kept
<1>8. SameRatios(x, y)
  BY <1>1, <1>4, <1>6 DEF SameRatios, Kept
<1>9. Rising(y)
  <2>. SUFFICES ASSUME NEW p \in Periods, NEW q \in Periods, Kept(y, p), Kept(y, q), p <= q
                PROVE  y.cum[p] <= y.cum[q]
    BY DEF Rising
  <2>0. p \in Nat /\ q \in Nat /\ x.cum[P - 1] \in Int /\ x.cum[p] \in Int /\ c \in Int
    <3>1. p \in Nat /\ q \in Nat
      BY MaxPeriodAssumption DEF Periods
    <3>. QED  BY <1>1, <1>2, <1>5, <3>1
  <2>1. CASE p = P /\ q = P
    BY <1>6, <2>0, <2>1
  <2>2. CASE p = P /\ q # P
    <3>1. q \in 0 .. P - 1
      BY <1>4, <1>7, <2>2
    <3>. QED  BY <1>1, <2>2, <3>1
  <2>3. CASE p # P /\ q # P
    <3>1. Kept(x, p) /\ Kept(x, q)
      BY <1>7, <2>3
    <3>2. x.cum[p] <= x.cum[q]
      BY <3>1 DEF Rising
    <3>. QED  BY <1>6, <2>3, <3>2
  <2>4. CASE p # P /\ q = P
    <3>1. Kept(x, p) /\ p \in 0 .. P - 1
      BY <1>4, <1>7, <2>4
    <3>2. x.cum[p] <= x.cum[P - 1]
      BY <1>1, <1>4, <3>1 DEF Rising
    <3>3. y.cum[p] = x.cum[p] /\ y.cum[q] = x.cum[P - 1] + r
      BY <1>5, <1>6, <2>4
    <3>. QED  BY <1>2, <2>0, <3>2, <3>3
  <2>. QED  BY <2>1, <2>2, <2>3, <2>4
<1>10. Cum(y, P) = c
  BY <1>6 DEF Cum
<1>. QED  BY <1>8, <1>9, <1>10 DEF P, r

(* It keeps the records that a walk reads.                                  *)
LEMMA IncrementReads ==
    ASSUME NEW x, WellFormed(x), NEW tokens, NEW y, y = IncrementValidatorPeriod(x, tokens),
           NEW d \in Started(x), NEW p \in WalkReads(x.info[d], SlashesSince(x, x.info[d]))
    PROVE  Kept(y, p)
<1>. DEFINE P == x.period
            B == Started(x)
<1>1. P - 1 \in Periods /\ P \in Periods /\ P \in Nat /\ x \in ValidatorRewards
  BY PeriodBounds
<1>2. y.ref = [x.ref EXCEPT ![P - 1] = x.ref[P - 1] - 1, ![P] = 1]
  BY DEF IncrementValidatorPeriod, ValidatorRewards
<1>3. Kept(x, p) /\ p \in 0 .. P - 1
  <2>1. Kept(x, p)
    BY WalkKept
  <2>. QED  BY <2>1, ReferredKept
<1>4. (\E c \in B : x.info[c].prev = p) \/ (\E e \in x.slashes : e.period = p)
  BY DEF WalkReads, SlashesSince
<1>5. x.ref[p] = (IF \E c \in B : x.info[c].prev = p THEN 1 ELSE 0)
               + (IF \E e \in x.slashes : e.period = p THEN 1 ELSE 0)
               + (IF p = P - 1 THEN 1 ELSE 0)
  BY <1>3 DEF WellFormed, Good, CountsReferrers, Refers, SlashRefers, Kept
<1>6. x.ref \in [Periods -> Nat] /\ p \in Periods /\ x.ref[p] # 0
  BY <1>1, <1>3 DEF ValidatorRewards, Kept
<1>. HIDE DEF P, B
<1>7. CASE p = P - 1
  <2>1. x.ref[p] # 1
    BY <1>4, <1>5, <1>7
  <2>2. y.ref[p] = x.ref[p] - 1
    BY <1>1, <1>2, <1>6, <1>7
  <2>. QED  BY <1>6, <2>1, <2>2 DEF Kept
<1>8. CASE p # P - 1
  <2>1. y.ref[p] = x.ref[p]
    BY <1>1, <1>2, <1>3, <1>6, <1>8
  <2>. QED  BY <1>6, <2>1 DEF Kept
<1>. QED  BY <1>7, <1>8

(* IncrementValidatorPeriod: every unit of stake earns the same.            *)
LEMMA IncrementGoesOn ==
    ASSUME NEW x, WellFormed(x), Rising(x), Walkers(x), x.cur \in Nat, NEW tokens \in Nat,
           NEW y, y = IncrementValidatorPeriod(x, tokens)
    PROVE  GoesOn(x, y, RatioOf(x, tokens))
<1>. DEFINE B == Started(x)
            r == RatioOf(x, tokens)
<1>1. x \in ValidatorRewards /\ x.period \in Nat
  BY PeriodBounds
<1>2. y.period = x.period + 1 /\ y.info = x.info /\ y.slashes = x.slashes
  BY <1>1 DEF IncrementValidatorPeriod, ValidatorRewards
<1>3. Started(y) = B
  BY <1>2 DEF Started
<1>4. SameRatios(x, y) /\ Rising(y) /\ Cum(y, x.period) = Cum(x, x.period - 1) + r
  BY IncrementRatios
<1>5. ASSUME NEW d \in B
      PROVE  /\ Walk(y, d) = Walk(x, d) /\ Gain(y, d) = Gain(x, d) + r
             /\ Earned(y, d) = Earned(x, d) + r * Walk(x, d).stake
  <2>1. Walk(y, d) = Walk(x, d) /\ Cum(y, Walk(x, d).prev) = Cum(x, Walk(x, d).prev)
    <3>. DEFINE i == x.info[d]
                E == SlashesSince(x, i)
    <3>1. Dated(E) /\ Walk(x, d) = WalkThrough(x, i, E) /\ Walk(y, d) = WalkThrough(y, i, E)
      BY <1>2, SinceDated DEF Walk, SlashesSince
    <3>2. \A p \in WalkReads(i, E) : Kept(x, p) /\ Kept(y, p)
      BY WalkKept, IncrementReads
    <3>3. \A p \in WalkReads(i, E) : Cum(y, p) = Cum(x, p)
      BY <1>4, <3>2, KeptCum
    <3>. HIDE DEF i, E
    <3>4. Walk(x, d).prev \in WalkReads(i, E)
      BY <3>1, WalkPrev
    <3>. QED  BY <3>1, <3>3, <3>4, WalkSame
  <2>2. Kept(x, Walk(x, d).prev) /\ Kept(x, x.period - 1)
    BY WalkKept, ReferredKept
  <2>. DEFINE a == Cum(x, Walk(x, d).prev)
              b == Cum(x, x.period - 1)
              s == Walk(x, d).stake
              e == Walk(x, d).rewards
  <2>3. a \in Int /\ b \in Int
    BY <2>2, CumInt
  <2>4. s \in Nat /\ e \in Nat /\ r \in Nat /\ Unit \in Nat
    BY RatioNat, UnitAssumption DEF Walkers
  <2>5. Earned(x, d) = e * Unit + (b - a) * s /\ Gain(x, d) = b - a
    BY DEF Earned, Gain
  <2>6. Earned(y, d) = e * Unit + ((b + r) - a) * s /\ Gain(y, d) = (b + r) - a
    <3>1. y.period - 1 = x.period
      BY <1>1, <1>2
    <3>2. Cum(y, y.period - 1) = b + r
      BY <1>4, <3>1
    <3>. QED  BY <2>1, <3>2 DEF Earned, Gain
  <2>. HIDE DEF a, b, s, e, r
  <2>7. ((b + r) - a) * s = (b - a) * s + r * s
    BY <2>3, <2>4
  <2>8. (b - a) * s \in Int /\ r * s \in Int /\ e * Unit \in Int
    BY <2>3, <2>4
  <2>9. Earned(y, d) = Earned(x, d) + r * s
    BY <2>5, <2>6, <2>7, <2>8
  <2>10. Gain(y, d) = Gain(x, d) + r
    BY <2>3, <2>4, <2>5, <2>6
  <2>. QED  BY <2>1, <2>9, <2>10 DEF s, r
<1>. QED  BY <1>2, <1>3, <1>4, <1>5 DEF GoesOn

Stakes(x) == SumFunctionOnSet(StakesLeft(x), Del)

LEMMA ClaimsGoOn ==
    ASSUME NEW x, WellFormed(x), Rising(x), Walkers(x), NEW more \in Nat, NEW y,
           GoesOn(x, y, more)
    PROVE  Claims(y) = Claims(x) + more * Stakes(x) /\ Walkers(y) /\ Stakes(x) \in Nat
<1>. DEFINE f == EarnedBy(x)
            g == EarnedBy(y)
            l == StakesLeft(x)
            e == [d \in Del |-> more * l[d]]
<1>1. \A d \in Del : f[d] \in Nat /\ l[d] \in Nat
  BY ClaimsNat
<1>2. \A d \in Del : e[d] = more * l[d] /\ e[d] \in Int
  BY <1>1
<1>3. ASSUME NEW d \in Del PROVE g[d] = f[d] + e[d]
  <2>1. CASE d \in Started(x)
    <3>1. g[d] = Earned(y, d) /\ f[d] = Earned(x, d) /\ l[d] = Walk(x, d).stake
      BY <2>1 DEF EarnedBy, StakesLeft, GoesOn
    <3>2. Earned(y, d) = Earned(x, d) + more * Walk(x, d).stake
      BY <2>1 DEF GoesOn
    <3>. QED  BY <1>2, <3>1, <3>2
  <2>2. CASE d \notin Started(x)
    <3>1. g[d] = 0 /\ f[d] = 0 /\ l[d] = 0
      BY <2>2 DEF EarnedBy, StakesLeft, GoesOn
    <3>. QED  BY <1>2, <3>1
  <2>. QED  BY <2>1, <2>2
<1>. HIDE DEF f, g, l, e
<1>4. SumFunctionOnSet(e, Del) = more * SumFunctionOnSet(l, Del)
  BY <1>1, <1>2, DelFinite, SumScale
<1>5. SumFunctionOnSet(g, Del) = SumFunctionOnSet(f, Del) + SumFunctionOnSet(e, Del)
  <2>1. \A d \in Del : f[d] \in Int /\ e[d] \in Int /\ g[d] = f[d] + e[d]
    BY <1>1, <1>2, <1>3
  <2>. QED  BY <2>1, DelFinite, SumPlus
<1>6. Claims(y) = Claims(x) + more * Stakes(x)
  BY <1>4, <1>5 DEF f, g, l, Claims, Stakes
<1>7. SumFunctionOnSet(l, Del) \in Nat
  BY <1>1, DelFinite, SumNat
<1>8. Walkers(y)
  BY DEF Walkers, GoesOn
<1>. QED  BY <1>6, <1>7, <1>8 DEF Stakes, l

(* A period that ends does not overdraw what was collected in it.           *)
LEMMA IncrementSolvent ==
    ASSUME NEW x, WellFormed(x), Solvent(x), NEW tokens \in Nat, Stakes(x) <= tokens * Unit,
           NEW y, y = IncrementValidatorPeriod(x, tokens)
    PROVE  Solvent(y) /\ GoesOn(x, y, RatioOf(x, tokens))
<1>. DEFINE r == RatioOf(x, tokens)
            claims == Claims(x)
            stakes == Stakes(x)
            out == x.out
            cur == x.cur
            com == x.com
            given == Donated(x, tokens)
<1>1. /\ Rising(x) /\ Walkers(x) /\ cur \in Nat /\ com \in Nat
      /\ (com + cur) * Unit + claims <= out * Unit
  BY DEF Solvent
<1>2. GoesOn(x, y, r)
  BY <1>1, IncrementGoesOn
<1>3. r \in Nat /\ r * tokens <= cur
  BY <1>1, RatioNat
<1>4. Claims(y) = claims + r * stakes /\ Walkers(y) /\ stakes \in Nat
  <2>. HIDE DEF r
  <2>. QED  BY <1>1, <1>2, <1>3, ClaimsGoOn
<1>5. claims \in Nat /\ out \in Int /\ Unit \in Nat \ {0}
  BY <1>1, ClaimsNat, UnitAssumption DEF WellFormed, ValidatorRewards
<1>6. y.out = out - given /\ y.cur = 0 /\ y.com = com
  BY IncrementFields DEF WellFormed
<1>7. tokens * Unit \in Nat /\ stakes <= tokens * Unit
  BY <1>5
<1>8. (com + 0) * Unit + Claims(y) <= (out - given) * Unit
  <2>1. CASE tokens = 0
    <3>1. r = 0 /\ given = cur
      BY <2>1 DEF RatioOf, Donated
    <3>. HIDE DEF claims, stakes, out, cur, com, given, r
    <3>2. Claims(y) = claims
      BY <1>4, <1>5, <3>1
    <3>3. (com + cur) * Unit = com * Unit + cur * Unit /\ (out - given) * Unit = out * Unit - cur * Unit
      BY <1>1, <1>5, <3>1
    <3>4. com * Unit \in Int /\ cur * Unit \in Int /\ out * Unit \in Int
      BY <1>1, <1>5
    <3>5. com + 0 = com
      BY <1>1
    <3>. QED  BY <1>1, <1>5, <3>2, <3>3, <3>4, <3>5
  <2>2. CASE tokens # 0
    <3>1. given = 0
      BY <2>2 DEF Donated
    <3>. HIDE DEF claims, stakes, out, cur, com, given, r
    <3>2. r * stakes <= r * (tokens * Unit)
      <4>. DEFINE most == tokens * Unit
      <4>. HIDE DEF most
      <4>1. stakes <= most /\ most \in Nat
        BY <1>7 DEF most
      <4>. QED  BY <1>3, <1>4, <4>1 DEF most
    <3>3. (r * tokens) * Unit <= cur * Unit
      BY <1>1, <1>3, <1>5
    <3>4. r * (tokens * Unit) = (r * tokens) * Unit
      BY <1>3, <1>5
    <3>5. r * stakes \in Int /\ (r * tokens) * Unit \in Int /\ cur * Unit \in Int
          /\ com * Unit \in Int /\ out * Unit \in Int
      BY <1>1, <1>3, <1>4, <1>5
    <3>6. r * stakes <= cur * Unit
      BY <3>2, <3>3, <3>4, <3>5
    <3>7. (com + cur) * Unit = com * Unit + cur * Unit /\ com + 0 = com /\ out - given = out
      BY <1>1, <1>5, <3>1
    <3>. QED  BY <1>1, <1>4, <1>5, <3>5, <3>6, <3>7
  <2>. QED  BY <2>1, <2>2
<1>9. Solvent(y)
  <2>1. y.com \in Nat /\ y.cur \in Nat
    BY <1>1, <1>6
  <2>2. Rising(y)
    BY <1>2 DEF GoesOn
  <2>3. (y.com + y.cur) * Unit + Claims(y) <= y.out * Unit
    BY <1>6, <1>8
  <2>. QED  BY <1>4, <2>1, <2>2, <2>3 DEF Solvent
<1>. QED  BY <1>2, <1>9

(* A new period has begun.                                                  *)
Begun(x, y) ==
    /\ WellFormed(y) /\ Solvent(y) /\ Fresh(y, Started(y)) /\ Started(y) = Started(x)
    /\ y.info = x.info /\ y.slashes = x.slashes /\ y.period = x.period + 1

LEMMA IncrementBegins ==
    ASSUME NEW x, WellFormed(x), Solvent(x), NEW tokens \in Nat, Stakes(x) <= tokens * Unit,
           x.period < MaxPeriod, NEW y, y = IncrementValidatorPeriod(x, tokens)
    PROVE  Begun(x, y)
<1>1. x \in ValidatorRewards /\ Started(x) \in SUBSET Del /\ Good(x, Started(x)) /\ tokens \in Int
  BY DEF WellFormed, Started
<1>2. /\ y \in ValidatorRewards /\ y.period = x.period + 1 /\ y.info = x.info
      /\ y.slashes = x.slashes /\ Good(y, Started(x)) /\ Fresh(y, Started(x))
  BY <1>1, IncrementGood
<1>3. Started(y) = Started(x)
  BY <1>2 DEF Started
<1>4. Solvent(y)
  BY IncrementSolvent
<1>. QED  BY <1>2, <1>3, <1>4 DEF Begun, WellFormed

(* A delegation that goes on while another one ends or starts.              *)
LEMMA OthersGoOn ==
    ASSUME NEW y, WellFormed(y), NEW z, WellFormed(z), SameRatios(y, z),
           z.period = y.period, z.slashes = y.slashes,
           NEW c \in Started(y), c \in Started(z), z.info[c] = y.info[c]
    PROVE  Walk(z, c) = Walk(y, c) /\ Earned(z, c) = Earned(y, c)
<1>1. Walk(z, c) = Walk(y, c) /\ Cum(z, Walk(y, c).prev) = Cum(y, Walk(y, c).prev)
  BY WalkStays
<1>2. Cum(z, z.period - 1) = Cum(y, y.period - 1)
  <2>1. Kept(y, y.period - 1) /\ Kept(z, z.period - 1)
    BY ReferredKept
  <2>. QED  BY <2>1, KeptCum
<1>. QED  BY <1>1, <1>2 DEF Earned, Gain

(* What the keeper computes for a delegation is covered by what it has      *)
(* earned, when it sees all slashes since the start.                        *)
SeesAll(x, i, h) == i.height # h => SeenSlashes(x, i, h) = SlashesSince(x, i)

Covered(raw, x, d) == raw \in Nat /\ raw * Unit <= Earned(x, d)

Earning(x, d) == Gain(x, d) \in Nat /\ Walk(x, d).rewards \in Nat /\ Walk(x, d).stake \in Nat

LEMMA AccruedCovered ==
    ASSUME NEW x, NEW d, Earning(x, d), NEW h,
           NEW i, i = x.info[d], SeesAll(x, i, h), NEW current \in Nat,
           NEW raw, raw = Accrued(x, i, h, current)
    PROVE  Covered(raw, x, d)
<1>. DEFINE w == Walk(x, d)
            g == Gain(x, d)
            s == w.stake
            e == w.rewards
<1>1. g \in Nat /\ e \in Nat /\ s \in Nat /\ Unit \in Nat \ {0}
  BY UnitAssumption DEF Earning
<1>2. CASE i.height = h
  <2>1. raw = 0
    BY <1>2 DEF Accrued
  <2>2. Earned(x, d) = e * Unit + g * s
    BY DEF Earned
  <2>. HIDE DEF w, g, s, e
  <2>3. e * Unit \in Nat /\ g * s \in Nat
    BY <1>1
  <2>. QED  BY <1>1, <2>1, <2>2, <2>3 DEF Covered
<1>3. CASE i.height # h
  <2>. DEFINE t == IF s > current THEN current ELSE s
              q == (g * t) \div Unit
  <2>1. ThroughSlashes(x, i, h) = w
    BY <1>3 DEF ThroughSlashes, Walk, SeesAll
  <2>2. raw = e + q
    BY <1>3, <2>1 DEF Accrued, Between, Gain
  <2>3. t \in Nat /\ t <= s
    BY <1>1
  <2>4. Earned(x, d) = e * Unit + g * s
    BY DEF Earned
  <2>. HIDE DEF w, g, s, e, t
  <2>5. g * t \in Nat /\ g * t <= g * s /\ g * s \in Nat
    BY <1>1, <2>3
  <2>6. q \in Nat /\ q * Unit <= g * t
    BY <1>1, <2>5, FloorBound
  <2>. HIDE DEF q
  <2>7. (e + q) * Unit = e * Unit + q * Unit /\ e * Unit \in Nat /\ q * Unit \in Nat
    BY <1>1, <2>6
  <2>8. raw \in Nat /\ raw * Unit <= Earned(x, d)
    BY <1>1, <2>2, <2>4, <2>5, <2>6, <2>7
  <2>. QED  BY <2>8 DEF Covered
<1>. QED  BY <1>2, <1>3

LEMMA EarnedClaimed ==
    ASSUME NEW x, WellFormed(x), Rising(x), Walkers(x), NEW d \in Started(x)
    PROVE  Earned(x, d) \in Nat /\ Earned(x, d) <= Claims(x) /\ Claims(x) \in Nat
<1>. DEFINE f == EarnedBy(x)
<1>1. d \in Del /\ f[d] = Earned(x, d)
  BY DEF Started, EarnedBy
<1>2. /\ \A c \in Del : f[c] \in Nat
      /\ Claims(x) \in Nat
  BY ClaimsNat
<1>. HIDE DEF f
<1>3. f[d] <= SumFunctionOnSet(f, Del)
  BY <1>1, <1>2, DelFinite, SumBounds
<1>. QED  BY <1>1, <1>2, <1>3 DEF Claims, f

(* All that is due is paid: what is outstanding always suffices.            *)
LEMMA DueCovered ==
    ASSUME NEW x, WellFormed(x), Solvent(x), NEW d \in Started(x), NEW h,
           NEW i, i = x.info[d], SeesAll(x, i, h), NEW current \in Nat,
           NEW paid, paid = Due(x, i, h, current)
    PROVE  Covered(paid, x, d)
<1>. DEFINE raw == Accrued(x, i, h, current)
            claims == Claims(x)
            out == x.out
            kept == x.com + x.cur
<1>1. Rising(x) /\ Walkers(x) /\ kept \in Nat /\ kept * Unit + claims <= out * Unit
  BY DEF Solvent
<1>2. Covered(raw, x, d)
  <2>1. Earning(x, d)
    BY <1>1, EarnedNat DEF Earning
  <2>. QED  BY <2>1, AccruedCovered
<1>3. paid = IF raw \in 0 .. out THEN raw ELSE out
  BY DEF Due
<1>4. Earned(x, d) \in Nat /\ Earned(x, d) <= claims /\ claims \in Nat
  BY <1>1, EarnedClaimed
<1>5. out \in Int /\ Unit \in Nat \ {0}
  BY UnitAssumption DEF WellFormed, ValidatorRewards
<1>. HIDE DEF raw, claims, out, kept
<1>6. raw \in Nat /\ raw * Unit <= Earned(x, d)
  BY <1>2 DEF Covered
<1>7. kept * Unit \in Nat /\ raw * Unit \in Nat /\ out * Unit \in Int
  BY <1>1, <1>5, <1>6
<1>8. raw * Unit <= out * Unit
  BY <1>1, <1>4, <1>6, <1>7
<1>9. raw <= out
  BY <1>5, <1>6, <1>8
<1>10. paid = raw
  BY <1>3, <1>5, <1>6, <1>9
<1>. QED  BY <1>2, <1>10

LEMMA RisingStays ==
    ASSUME NEW y, Rising(y), NEW z, z.cum = y.cum, \A p : Kept(z, p) => Kept(y, p)
    PROVE  Rising(z) /\ SameRatios(y, z)
BY DEF Rising, SameRatios

(* withdrawDelegationRewards: who leaves takes no more than it has earned.  *)
LEMMA SettleRatios ==
    ASSUME NEW x \in ValidatorRewards, NEW tokens, NEW d \in Del, NEW current, NEW h,
           NEW y, y = IncrementValidatorPeriod(x, tokens),
           NEW z, z = Settle(x, d, tokens, current, h)
    PROVE  z.cum = y.cum /\ z.ref = Release(y, y.info[d].prev)
<1>1. y.info = x.info
  BY IncrementFields
<1>2. z = [y EXCEPT !.out = y.out - Due(y, x.info[d], h, current),
                    !.ref = Release(y, x.info[d].prev),
                    !.info = [x.info EXCEPT ![d] = NoInfo]]
  BY DEF Settle
<1>3. DOMAIN y = {"period", "cur", "out", "com", "cum", "ref", "slashes", "info"}
  BY DEF IncrementValidatorPeriod, ValidatorRewards
<1>. QED  BY <1>1, <1>2, <1>3

LEMMA SettleSolvent ==
    ASSUME NEW x, WellFormed(x), Solvent(x), NEW tokens \in Nat, Stakes(x) <= tokens * Unit,
           x.period < MaxPeriod, NEW d \in Started(x), NEW h, SeesAll(x, x.info[d], h),
           NEW current \in Nat, NEW z, z = Settle(x, d, tokens, current, h)
    PROVE  Solvent(z)
<1>. DEFINE y == IncrementValidatorPeriod(x, tokens)
            i == y.info[d]
            paid == Due(y, i, h, current)
<1>0. y = IncrementValidatorPeriod(x, tokens)
  OBVIOUS
<1>. HIDE DEF y
<1>1. Begun(x, y)
  BY <1>0, IncrementBegins
<1>2. /\ WellFormed(y) /\ Solvent(y) /\ Started(y) = Started(x) /\ y.info = x.info
      /\ y.slashes = x.slashes /\ y.period = x.period + 1
  BY <1>1 DEF Begun
<1>3. d \in Del /\ x \in ValidatorRewards /\ tokens \in Int
  BY DEF WellFormed, Started
<1>4. /\ Ended(x, Donated(x, tokens), Payout(x, d, tokens, current, h), z)
      /\ InfoSet(x, d, NoInfo, z)
  BY <1>3, SettleFields
<1>5. z.cum = y.cum /\ z.ref = Release(y, y.info[d].prev)
  BY <1>0, <1>3, SettleRatios
<1>6. WellFormed(z) /\ Started(z) = Started(x) \ {d}
  BY <1>3, SettleWellFormed
<1>7. y.out = x.out - Donated(x, tokens) /\ y.cur = 0 /\ y.com = x.com
  BY <1>0, <1>3, IncrementFields
<1>8. /\ z.out = y.out - paid /\ z.cur = y.cur /\ z.com = y.com
      /\ z.slashes = y.slashes /\ z.period = y.period
  BY <1>0, <1>2, <1>4, <1>7 DEF Ended, Payout
<1>9. Rising(y) /\ Walkers(y) /\ y.com \in Nat /\ y.cur \in Nat
      /\ (y.com + y.cur) * Unit + Claims(y) <= y.out * Unit
  BY <1>2 DEF Solvent
<1>10. Rising(z) /\ SameRatios(y, z)
  <2>1. Kept(y, i.prev)
    BY <1>2, ReferredKept
  <2>2. \A p : Kept(z, p) => Kept(y, p)
    BY <1>2, <1>5, <2>1 DEF Kept, Release, WellFormed, ValidatorRewards
  <2>. QED  BY <1>5, <1>9, <2>2, RisingStays
<1>11. ASSUME NEW c \in Started(z)
       PROVE  c \in Started(y) /\ Walk(z, c) = Walk(y, c) /\ Earned(z, c) = Earned(y, c)
  <2>1. c \in Started(y) /\ c # d /\ c \in Del
    BY <1>2, <1>6 DEF Started
  <2>2. z.info[c] = y.info[c]
    BY <1>2, <1>3, <1>4, <2>1 DEF InfoSet, ValidatorRewards
  <2>. QED  BY <1>2, <1>6, <1>8, <1>10, <2>1, <2>2, OthersGoOn
<1>12. Walkers(z)
  BY <1>9, <1>11 DEF Walkers
<1>13. Covered(paid, y, d)
  <2>1. SeesAll(y, i, h)
    BY <1>2 DEF SeesAll, SeenSlashes, SlashesSince
  <2>. QED  BY <1>2, <2>1, DueCovered
<1>14. Claims(z) = Claims(y) - Earned(y, d)
  <2>. DEFINE f == EarnedBy(y)
              g == EarnedBy(z)
  <2>1. f[d] = Earned(y, d) /\ g[d] = 0
    BY <1>2, <1>3, <1>6 DEF EarnedBy
  <2>2. \A c \in Del : f[c] \in Nat
    BY <1>2, <1>9, ClaimsNat
  <2>3. ASSUME NEW c \in Del \ {d} PROVE g[c] = f[c]
    BY <1>2, <1>6, <1>11 DEF EarnedBy
  <2>. HIDE DEF f, g
  <2>4. ChangesAt(d, f, g, Del)
    BY <1>3, <2>1, <2>2, <2>3, DelFinite DEF ChangesAt
  <2>5. SumFunctionOnSet(g, Del) = SumFunctionOnSet(f, Del) - f[d] + g[d]
    BY <2>4, SumChange
  <2>6. SumFunctionOnSet(f, Del) \in Nat /\ f[d] \in Nat
    BY <1>3, <2>2, DelFinite, SumNat
  <2>7. SumFunctionOnSet(g, Del) = SumFunctionOnSet(f, Del) - f[d]
    BY <2>1, <2>5, <2>6
  <2>. QED  BY <2>1, <2>7 DEF Claims, f, g
<1>15. (z.com + z.cur) * Unit + Claims(z) <= z.out * Unit
  <2>. DEFINE kept == y.com + y.cur
              out == y.out
              claims == Claims(y)
              earned == Earned(y, d)
  <2>1. z.com + z.cur = kept /\ z.out = out - paid /\ Claims(z) = claims - earned
    BY <1>8, <1>14
  <2>2. kept * Unit + claims <= out * Unit /\ kept \in Nat
    BY <1>9
  <2>3. earned \in Nat /\ claims \in Nat
    BY <1>2, <1>9, EarnedClaimed
  <2>4. out \in Int /\ Unit \in Nat
    BY <1>2, UnitAssumption DEF WellFormed, ValidatorRewards
  <2>5. paid \in Nat /\ paid * Unit <= earned
    BY <1>13 DEF Covered
  <2>. HIDE DEF kept, out, claims, earned, paid
  <2>6. (out - paid) * Unit = out * Unit - paid * Unit /\ out * Unit \in Int
        /\ paid * Unit \in Int /\ kept * Unit \in Int
    BY <2>2, <2>4, <2>5
  <2>. QED  BY <2>1, <2>2, <2>3, <2>5, <2>6
<1>. QED  BY <1>8, <1>9, <1>10, <1>12, <1>15 DEF Solvent

(* Who has just started has earned nothing.                                 *)
EarnsNothing(x, d) ==
    Earned(x, d) = 0 /\ Walk(x, d).rewards = 0 /\ Walk(x, d).stake \in Nat

LEMMA NothingEarnedYet ==
    ASSUME NEW x, NEW d, NEW i, i = x.info[d], SlashesSince(x, i) = {}, i.stake \in Nat,
           Cum(x, i.prev) \in Int, Cum(x, x.period - 1) = Cum(x, i.prev)
    PROVE  EarnsNothing(x, d)
<1>1. Walk(x, d) = Unwalked(i)
  BY WalkEmpty DEF Walk
<1>2. Walk(x, d).rewards = 0 /\ Walk(x, d).stake = i.stake /\ Walk(x, d).prev = i.prev
  BY <1>1 DEF Unwalked
<1>3. Gain(x, d) = 0
  BY <1>2 DEF Gain
<1>4. Earned(x, d) = 0
  BY <1>2, <1>3, UnitAssumption DEF Earned
<1>. QED  BY <1>2, <1>4 DEF EarnsNothing

(* AfterDelegationModified: whoever starts claims nothing.                  *)
LEMMA StartSolvent ==
    ASSUME NEW x, WellFormed(x), Fresh(x, Started(x)), Solvent(x),
           NEW d \in Del \ Started(x), NEW stake \in Nat, NEW h \in Int,
           NEW z, z = AfterDelegationModified(x, d, stake, h)
    PROVE  Solvent(z)
<1>. DEFINE P == x.period - 1
            i == [prev |-> P, stake |-> stake, height |-> h]
<1>1. x \in ValidatorRewards /\ d \in Del /\ stake \in Int
  BY DEF WellFormed
<1>2. /\ z.out = x.out /\ z.cur = x.cur /\ z.com = x.com
      /\ z.slashes = x.slashes /\ z.period = x.period /\ InfoSet(x, d, i, z)
  BY <1>1, StartFields
<1>3. z.cum = x.cum /\ z.ref = Retain(x, P)
  BY <1>1 DEF AfterDelegationModified, ValidatorRewards
<1>4. WellFormed(z) /\ Started(z) = Started(x) \cup {d}
  BY <1>1, StartWellFormed
<1>5. /\ Rising(x) /\ Walkers(x) /\ x.com \in Nat /\ x.cur \in Nat
      /\ (x.com + x.cur) * Unit + Claims(x) <= x.out * Unit
  BY DEF Solvent
<1>6. Kept(x, P) /\ Kept(z, P) /\ P \in Nat
  BY <1>2, <1>4, ReferredKept, PeriodBounds
<1>7. Rising(z) /\ SameRatios(x, z)
  <2>1. \A p : Kept(z, p) => Kept(x, p)
    BY <1>1, <1>3, <1>6 DEF Kept, Retain, ValidatorRewards
  <2>. QED  BY <1>3, <1>5, <2>1, RisingStays
<1>8. z.info[d] = i /\ \A c \in Del \ {d} : z.info[c] = x.info[c]
  BY <1>1, <1>2 DEF InfoSet, ValidatorRewards
<1>9. EarnsNothing(z, d)
  <2>1. SlashesSince(z, i) = {}
    <3>1. \A e \in x.slashes : e.period < x.period /\ e.period \in Nat
      BY SlashesDated DEF Dated
    <3>2. x.period \in Nat /\ i.prev = x.period - 1
      BY PeriodBounds
    <3>. HIDE DEF i
    <3>. QED  BY <1>2, <3>1, <3>2 DEF SlashesSince
  <2>2. Cum(z, P) \in Int
    BY <1>4, <1>6, CumInt
  <2>3. i.prev = P /\ i.stake = stake /\ z.period - 1 = P
    BY <1>2
  <2>. HIDE DEF i
  <2>. QED  BY <1>8, <2>1, <2>2, <2>3, NothingEarnedYet
<1>10. ASSUME NEW c \in Started(x)
       PROVE  Walk(z, c) = Walk(x, c) /\ Earned(z, c) = Earned(x, c)
  <2>1. c \in Started(z) /\ c # d /\ c \in Del
    BY <1>4 DEF Started
  <2>2. z.info[c] = x.info[c]
    BY <1>8, <2>1
  <2>. QED  BY <1>2, <1>4, <1>7, <2>1, <2>2, OthersGoOn
<1>11. Walkers(z)
  BY <1>4, <1>5, <1>9, <1>10 DEF Walkers, EarnsNothing
<1>12. Claims(z) = Claims(x)
  <2>. DEFINE f == EarnedBy(x)
              g == EarnedBy(z)
  <2>1. ASSUME NEW c \in Del PROVE g[c] = f[c]
    BY <1>4, <1>9, <1>10 DEF EarnedBy, EarnsNothing
  <2>. HIDE DEF f, g
  <2>2. SumFunctionOnSet(g, Del) = SumFunctionOnSet(f, Del)
    BY <2>1, DelFinite, SumSame
  <2>. QED  BY <2>2 DEF f, g, Claims
<1>. QED  BY <1>2, <1>5, <1>7, <1>11, <1>12 DEF Solvent

(* Records that differ in amounts only.                                     *)
SameLedger(x, z) ==
    /\ WellFormed(z) /\ z.info = x.info /\ z.period = x.period /\ z.slashes = x.slashes
    /\ z.ref = x.ref /\ z.cum = x.cum

LEMMA LedgerClaims ==
    ASSUME NEW x, WellFormed(x), Rising(x), Walkers(x), NEW z, SameLedger(x, z)
    PROVE  /\ Rising(z) /\ Walkers(z) /\ Claims(z) = Claims(x)
           /\ Started(z) = Started(x) /\ \A d \in Started(x) : Walk(z, d) = Walk(x, d)
<1>1. /\ WellFormed(z) /\ z.info = x.info /\ z.period = x.period /\ z.slashes = x.slashes
      /\ z.ref = x.ref /\ z.cum = x.cum
  BY DEF SameLedger
<1>2. Started(z) = Started(x)
  BY <1>1 DEF Started
<1>3. Rising(z) /\ SameRatios(x, z)
  <2>1. \A p : Kept(z, p) => Kept(x, p)
    BY <1>1 DEF Kept
  <2>. QED  BY <1>1, <2>1, RisingStays
<1>4. ASSUME NEW d \in Started(x)
      PROVE  Walk(z, d) = Walk(x, d) /\ Earned(z, d) = Earned(x, d)
  <2>1. d \in Started(z) /\ z.info[d] = x.info[d]
    BY <1>1, <1>2
  <2>. QED  BY <1>1, <1>3, <2>1, OthersGoOn
<1>5. Walkers(z)
  BY <1>2, <1>4 DEF Walkers
<1>6. EarnedBy(z) = EarnedBy(x)
  BY <1>2, <1>4 DEF EarnedBy
<1>. QED  BY <1>2, <1>3, <1>4, <1>5, <1>6 DEF Claims

LEMMA AllocateSolvent ==
    ASSUME NEW x, WellFormed(x), Solvent(x), NEW z, z = Allocate(x), WellFormed(z)
    PROVE  /\ Solvent(z) /\ Started(z) = Started(x)
           /\ \A d \in Started(x) : Walk(z, d) = Walk(x, d)
<1>. DEFINE R == Reward * Unit
            C == Commission
            com == x.com
            cur == x.cur
            out == x.out
            claims == Claims(x)
<1>1. /\ z.out = out + R /\ z.com = com + C /\ z.cur = cur + R - C
      /\ z.slashes = x.slashes /\ z.info = x.info /\ z.period = x.period
      /\ z.ref = x.ref /\ z.cum = x.cum
  BY AllocateFields DEF WellFormed
<1>2. SameLedger(x, z)
  BY <1>1 DEF SameLedger
<1>3. /\ Rising(x) /\ Walkers(x) /\ com \in Nat /\ cur \in Nat
      /\ (com + cur) * Unit + claims <= out * Unit
  BY DEF Solvent
<1>4. /\ Rising(z) /\ Walkers(z) /\ Claims(z) = claims
      /\ Started(z) = Started(x) /\ \A d \in Started(x) : Walk(z, d) = Walk(x, d)
  BY <1>2, <1>3, LedgerClaims
<1>5. C \in 0 .. R /\ R \in Nat /\ Unit \in Nat
  BY AmountAssumption, UnitAssumption
<1>6. out \in Int /\ claims \in Nat
  BY <1>3, ClaimsNat DEF WellFormed, ValidatorRewards
<1>. HIDE DEF R, C, com, cur, out, claims
<1>7. z.com \in Nat /\ z.cur \in Nat /\ z.com + z.cur = (com + cur) + R
  BY <1>1, <1>3, <1>5
<1>8. /\ ((com + cur) + R) * Unit = (com + cur) * Unit + R * Unit
      /\ (out + R) * Unit = out * Unit + R * Unit
      /\ (com + cur) * Unit \in Int /\ R * Unit \in Int /\ out * Unit \in Int
  BY <1>3, <1>5, <1>6
<1>9. (z.com + z.cur) * Unit + Claims(z) <= z.out * Unit
  BY <1>1, <1>3, <1>4, <1>6, <1>7, <1>8
<1>. QED  BY <1>4, <1>7, <1>9 DEF Solvent

(* The commission is paid in whole coins.                                   *)
LEMMA CommissionSolvent ==
    ASSUME NEW x, WellFormed(x), Solvent(x), NEW coins, coins = x.com \div Unit,
           NEW z, SameLedger(x, z), z.cur = x.cur,
           z.com = x.com - coins * Unit, z.out = x.out - coins * Unit
    PROVE  Solvent(z)
<1>. DEFINE com == x.com
            cur == x.cur
            out == x.out
            claims == Claims(x)
            paid == coins * Unit
<1>1. /\ Rising(x) /\ Walkers(x) /\ com \in Nat /\ cur \in Nat
      /\ (com + cur) * Unit + claims <= out * Unit
  BY DEF Solvent
<1>2. Rising(z) /\ Walkers(z) /\ Claims(z) = claims
  BY <1>1, LedgerClaims
<1>3. out \in Int /\ claims \in Nat /\ Unit \in Nat \ {0}
  BY <1>1, ClaimsNat, UnitAssumption DEF WellFormed, ValidatorRewards
<1>4. coins \in Nat /\ paid <= com /\ paid \in Nat
  <2>1. com \in Nat /\ coins = com \div Unit /\ paid = coins * Unit
    BY <1>1
  <2>. HIDE DEF com, paid
  <2>2. coins \in Nat /\ coins * Unit <= com
    BY <1>3, <2>1, FloorBound
  <2>3. coins * Unit \in Nat
    BY <1>3, <2>2
  <2>. QED  BY <2>1, <2>2, <2>3
<1>5. z.com = com - paid /\ z.cur = cur /\ z.out = out - paid
  OBVIOUS
<1>. HIDE DEF com, cur, out, claims, paid
<1>6. z.com \in Nat /\ z.cur \in Nat /\ z.com + z.cur = (com + cur) - paid
  BY <1>1, <1>4, <1>5
<1>7. /\ ((com + cur) - paid) * Unit = (com + cur) * Unit - paid * Unit
      /\ (out - paid) * Unit = out * Unit - paid * Unit
      /\ (com + cur) * Unit \in Int /\ paid * Unit \in Int /\ out * Unit \in Int
  BY <1>1, <1>3, <1>4
<1>8. (z.com + z.cur) * Unit + Claims(z) <= z.out * Unit
  BY <1>1, <1>2, <1>3, <1>5, <1>6, <1>7
<1>. QED  BY <1>2, <1>6, <1>8 DEF Solvent

(* BeforeValidatorSlashed: what was earned before the slash is rounded      *)
(* down, and from then on a smaller stake earns.                            *)
SlashLedger(x, e, y, z) ==
    /\ z.cum = y.cum /\ z.ref = Retain(y, x.period)
    /\ z.out = y.out /\ z.cur = y.cur /\ z.com = y.com /\ z.period = y.period
    /\ z.info = y.info /\ z.slashes = y.slashes \cup {e}

LEMMA SlashRecord ==
    ASSUME NEW x \in ValidatorRewards, NEW before, NEW after, NEW h,
           NEW y, y = IncrementValidatorPeriod(x, before),
           NEW e, e = [height |-> h, period |-> x.period, before |-> before, after |-> after],
           NEW z, z = BeforeValidatorSlashed(x, before, after, h)
    PROVE  SlashLedger(x, e, y, z)
<1>1. y.slashes = x.slashes
  BY IncrementFields
<1>2. z = [y EXCEPT !.ref = Retain(y, x.period), !.slashes = x.slashes \cup {e}]
  BY DEF BeforeValidatorSlashed
<1>3. DOMAIN y = {"period", "cur", "out", "com", "cum", "ref", "slashes", "info"}
  BY DEF IncrementValidatorPeriod, ValidatorRewards
<1>. QED  BY <1>1, <1>2, <1>3 DEF SlashLedger

(* The last step of the walk takes no more than has been earned.            *)
StepsDown(x, y, d) ==
    /\ Walk(y, d).rewards \in Nat /\ Walk(y, d).stake \in Nat
    /\ Earned(y, d) \in Nat /\ Earned(y, d) <= Earned(x, d)

LEMMA SlashEarned ==
    ASSUME NEW y, WellFormed(y), Rising(y), Walkers(y), NEW z, WellFormed(z), SameRatios(y, z),
           z.period = y.period, z.info = y.info,
           NEW e, z.slashes = y.slashes \cup {e}, e.period = y.period - 1,
           \A f \in y.slashes : f.period < e.period,
           e.before \in Nat \ {0}, e.after \in Nat,
           NEW d \in Started(y), y.info[d].prev < e.period
    PROVE  StepsDown(y, z, d)
<1>. DEFINE i == y.info[d]
            E == SlashesSince(y, i)
            p == Walk(y, d).prev
            P == y.period - 1
            s == Walk(y, d).stake
            r == Walk(y, d).rewards
            g == Gain(y, d)
<1>1. Dated(E) /\ E \in SUBSET y.slashes
  BY SinceDated
<1>2. P \in Nat /\ Kept(y, P) /\ Kept(z, P)
  <2>1. Kept(z, z.period - 1)
    BY ReferredKept
  <2>. QED  BY <2>1, PeriodBounds, ReferredKept
<1>3. SlashesSince(z, i) = E \cup {e} /\ d \in Started(z) /\ z.info[d] = i
  <2>1. d \in Started(z) /\ z.info[d] = i
    BY DEF Started
  <2>. HIDE DEF i
  <2>2. SlashesSince(z, i) = E \cup {e}
    BY DEF SlashesSince, i
  <2>. QED  BY <2>1, <2>2
<1>4. \A q \in WalkReads(i, E) : Cum(z, q) = Cum(y, q)
  <2>1. \A q \in WalkReads(y.info[d], SlashesSince(y, y.info[d])) : Kept(y, q)
    BY WalkKept
  <2>2. \A q \in WalkReads(z.info[d], SlashesSince(z, z.info[d])) : Kept(z, q)
    BY <1>3, WalkKept
  <2>3. WalkReads(i, E) \subseteq WalkReads(i, E \cup {e})
    BY DEF WalkReads
  <2>4. ASSUME NEW q \in WalkReads(i, E) PROVE Kept(y, q) /\ Kept(z, q)
    BY <1>3, <2>1, <2>2, <2>3
  <2>. QED  BY <2>4, KeptCum
<1>5. Walk(y, d) = WalkThrough(y, i, E) /\ Walk(z, d) = WalkThrough(z, i, E \cup {e})
  BY <1>3 DEF Walk
<1>6. Dated(E \cup {e}) /\ \A f \in E : f.period < e.period
  <2>. HIDE DEF E, i
  <2>1. IsFiniteSet(E \cup {e})
    BY <1>1, FS_AddElement DEF Dated
  <2>. QED  BY <1>1, <1>2, <2>1 DEF Dated
<1>7. Walk(z, d) = Walked(z, e, Walk(y, d))
  <2>. HIDE DEF E, i
  <2>1. WalkThrough(z, i, E) = WalkThrough(y, i, E)
    BY <1>1, <1>4, WalkSame
  <2>2. WalkThrough(z, i, E \cup {e}) = Walked(z, e, WalkThrough(z, i, E))
    BY <1>1, <1>6, WalkLast
  <2>. QED  BY <1>5, <2>1, <2>2
<1>8. Cum(z, p) = Cum(y, p) /\ Cum(z, P) = Cum(y, P)
  <2>1. p \in WalkReads(i, E)
    <3>. HIDE DEF E, i
    <3>. QED  BY <1>1, <1>5, WalkPrev
  <2>. QED  BY <1>2, <1>4, <2>1, KeptCum
<1>9. g \in Nat /\ r \in Nat /\ s \in Nat /\ Earned(y, d) = r * Unit + g * s
  BY EarnedNat DEF Earned
<1>. DEFINE q == (g * s) \div Unit
<1>10. Walk(z, d).rewards = r + q /\ Walk(z, d).stake = (s * e.after) \div e.before
       /\ Walk(z, d).prev = P
  BY <1>7, <1>8 DEF Walked, Between, Gain
<1>11. Gain(z, d) = 0
  <2>1. Cum(z, P) \in Int
    BY <1>2, CumInt
  <2>. QED  BY <1>10, <2>1 DEF Gain
<1>12. Unit \in Nat \ {0} /\ g * s \in Nat
  BY <1>9, UnitAssumption
<1>13. q \in Nat /\ q * Unit <= g * s
  <2>. DEFINE m == g * s
  <2>1. m \in Nat
    BY <1>12
  <2>. HIDE DEF m
  <2>2. m \div Unit \in Nat /\ (m \div Unit) * Unit <= m
    BY <1>12, <2>1, FloorBound
  <2>. QED  BY <2>2 DEF m
<1>14. Walk(z, d).stake \in Nat
  <2>. DEFINE m == s * e.after
  <2>1. m \in Nat
    BY <1>9
  <2>. HIDE DEF m
  <2>2. m \div e.before \in Nat
    BY <2>1, FloorBound
  <2>. QED  BY <1>10, <2>2 DEF m
<1>15. Earned(z, d) = (r + q) * Unit
  <2>. DEFINE t == Walk(z, d).stake
  <2>1. Earned(z, d) = (r + q) * Unit + 0 * t
    BY <1>10, <1>11 DEF Earned
  <2>. HIDE DEF t, r, q
  <2>2. 0 * t = 0 /\ (r + q) * Unit \in Nat
    BY <1>9, <1>12, <1>13, <1>14 DEF t
  <2>. QED  BY <2>1, <2>2
<1>. HIDE DEF g, r, s, q
<1>16. (r + q) * Unit = r * Unit + q * Unit /\ (r + q) * Unit \in Nat
       /\ r * Unit \in Nat /\ q * Unit \in Nat
  BY <1>9, <1>12, <1>13
<1>17. Earned(z, d) \in Nat /\ Earned(z, d) <= Earned(y, d)
  BY <1>9, <1>12, <1>13, <1>15, <1>16
<1>18. Walk(z, d).rewards \in Nat
  BY <1>9, <1>10, <1>13
<1>. QED  BY <1>14, <1>17, <1>18 DEF StepsDown

LEMMA SlashSolvent ==
    ASSUME NEW x, WellFormed(x), Solvent(x), NEW before \in Nat \ {0},
           Stakes(x) <= before * Unit, x.period < MaxPeriod, NEW after \in Nat, NEW h \in Nat,
           NEW z, z = BeforeValidatorSlashed(x, before, after, h)
    PROVE  Solvent(z)
<1>. DEFINE y == IncrementValidatorPeriod(x, before)
            e == [height |-> h, period |-> x.period, before |-> before, after |-> after]
<1>0. /\ y = IncrementValidatorPeriod(x, before)
      /\ e = [height |-> h, period |-> x.period, before |-> before, after |-> after]
  OBVIOUS
<1>1. e.period = x.period /\ e.before = before /\ e.after = after
  OBVIOUS
<1>. HIDE DEF y, e
<1>2. Begun(x, y)
  BY <1>0, IncrementBegins
<1>3. /\ WellFormed(y) /\ Solvent(y) /\ Fresh(y, Started(y)) /\ Started(y) = Started(x)
      /\ y.info = x.info /\ y.slashes = x.slashes /\ y.period = x.period + 1
  BY <1>2 DEF Begun
<1>4. SlashLedger(x, e, y, z)
  BY <1>0, SlashRecord DEF WellFormed
<1>5. /\ z.cum = y.cum /\ z.ref = Retain(y, x.period)
      /\ z.out = y.out /\ z.cur = y.cur /\ z.com = y.com /\ z.period = y.period
      /\ z.info = y.info /\ z.slashes = y.slashes \cup {e}
  BY <1>4 DEF SlashLedger
<1>6. WellFormed(z)
  BY SlashWellFormed
<1>7. Started(z) = Started(y)
  BY <1>5 DEF Started
<1>8. /\ Rising(y) /\ Walkers(y) /\ y.com \in Nat /\ y.cur \in Nat
      /\ (y.com + y.cur) * Unit + Claims(y) <= y.out * Unit
  BY <1>3 DEF Solvent
<1>9. y.period - 1 = x.period /\ x.period \in Nat
  BY <1>3, PeriodBounds
<1>10. Rising(z) /\ SameRatios(y, z)
  <2>1. Kept(y, x.period)
    BY <1>3, <1>9, ReferredKept
  <2>2. \A p : Kept(z, p) => Kept(y, p)
    BY <1>3, <1>5, <2>1 DEF Kept, Retain, WellFormed, ValidatorRewards
  <2>. QED  BY <1>5, <1>8, <2>2, RisingStays
<1>11. ASSUME NEW d \in Started(y) PROVE StepsDown(y, z, d)
  <2>1. y.info[d].prev < e.period
    <3>1. x.info[d].prev \in 0 .. x.period - 1
      BY <1>3 DEF WellFormed, Good, ReferrersInThePast
    <3>. QED  BY <1>1, <1>3, <1>9, <3>1
  <2>2. \A f \in y.slashes : f.period < e.period
    BY <1>1, <1>3, SlashesDated
  <2>. QED  BY <1>1, <1>3, <1>5, <1>6, <1>8, <1>9, <1>10, <2>1, <2>2, SlashEarned
<1>12. Walkers(z)
  BY <1>7, <1>11 DEF Walkers, StepsDown
<1>13. Claims(z) <= Claims(y) /\ Claims(z) \in Nat /\ Claims(y) \in Nat
  <2>. DEFINE f == EarnedBy(z)
              g == EarnedBy(y)
  <2>1. \A d \in Del : f[d] \in Nat /\ g[d] \in Nat
    BY <1>3, <1>6, <1>8, <1>10, <1>12, ClaimsNat
  <2>2. ASSUME NEW d \in Del PROVE f[d] <= g[d]
    BY <1>7, <1>11, <2>1 DEF EarnedBy, StepsDown
  <2>3. \A d \in Del : f[d] \in Int /\ g[d] \in Int /\ f[d] <= g[d]
    BY <2>1, <2>2
  <2>. HIDE DEF f, g
  <2>4. SumFunctionOnSet(f, Del) <= SumFunctionOnSet(g, Del)
    BY <2>3, DelFinite, SumLeq
  <2>5. SumFunctionOnSet(f, Del) \in Nat /\ SumFunctionOnSet(g, Del) \in Nat
    BY <2>1, DelFinite, SumNat
  <2>. QED  BY <2>4, <2>5 DEF Claims, f, g
<1>14. (z.com + z.cur) * Unit + Claims(z) <= z.out * Unit
  <2>. DEFINE kept == (y.com + y.cur) * Unit
              out == y.out * Unit
  <2>1. kept \in Int /\ out \in Int
    BY <1>3, <1>8, UnitAssumption DEF WellFormed, ValidatorRewards
  <2>2. kept + Claims(y) <= out
    BY <1>8
  <2>3. (z.com + z.cur) * Unit = kept /\ z.out * Unit = out
    BY <1>5
  <2>. HIDE DEF kept, out
  <2>. QED  BY <1>13, <2>1, <2>2, <2>3
<1>. QED  BY <1>5, <1>8, <1>10, <1>12, <1>14 DEF Solvent

(* Records in which nothing has ever been earned.                           *)
Blank(x) == \A p \in Periods : Kept(x, p) => x.cum[p] = 0

LEMMA BlankSolvent ==
    ASSUME NEW x, WellFormed(x), Blank(x), x.slashes = {}, x.out = 0, x.com = 0, x.cur = 0,
           \A d \in Started(x) : x.info[d].stake \in Nat
    PROVE  Solvent(x)
<1>1. \A p : Kept(x, p) => Cum(x, p) = 0
  BY CumInt DEF Kept, Blank
<1>2. ASSUME NEW d \in Started(x) PROVE EarnsNothing(x, d)
  <2>. DEFINE i == x.info[d]
  <2>1. Cum(x, i.prev) = 0 /\ Cum(x, x.period - 1) = 0
    BY <1>1, ReferredKept
  <2>2. SlashesSince(x, i) = {} /\ i.stake \in Nat
    BY DEF SlashesSince
  <2>. HIDE DEF i
  <2>3. i = x.info[d]
    BY DEF i
  <2>. QED  BY <2>1, <2>2, <2>3, NothingEarnedYet
<1>3. Rising(x)
  BY DEF Rising, Blank
<1>4. Walkers(x)
  BY <1>2 DEF Walkers, EarnsNothing
<1>5. Claims(x) = 0
  <2>. DEFINE f == EarnedBy(x)
  <2>1. \A d \in Del : f[d] = 0
    BY <1>2 DEF EarnedBy, EarnsNothing
  <2>. HIDE DEF f
  <2>2. SumFunctionOnSet(f, Del) = 0
    BY <2>1, DelFinite, SumZero
  <2>. QED  BY <2>2 DEF f, Claims
<1>. QED  BY <1>3, <1>4, <1>5, UnitAssumption DEF Solvent

(* The stakes of the delegations fit into the tokens of the validator.      *)
LEMMA StakesFit ==
    ASSUME NEW k \in Validator, NEW f, AddsUp(k, f), NEW x, NEW l, l = StakesLeft(x),
           \A d \in Del : l[d] \in 0 .. TokensFromShares(k, f[d])
    PROVE  Stakes(x) <= k.tokens * Unit
<1>. DEFINE S == k.shares
            T == k.tokens * Unit
            sum == SumFunctionOnSet(l, Del)
            e == [d \in Del |-> S * l[d]]
            g == [d \in Del |-> T * f[d]]
<1>1. /\ k.tokens \in Nat /\ Unit \in Nat \ {0} /\ SumFunctionOnSet(f, Del) = S
      /\ \A d \in Del : f[d] \in Nat
  BY UnitAssumption DEF AddsUp
<1>2. S \in Nat /\ T \in Nat
  BY <1>1, DelFinite, SumNat
<1>3. \A d \in Del : l[d] \in Nat
  BY <1>1, WorthNat
<1>4. sum \in Nat
  <2>. HIDE DEF sum
  <2>. QED  BY <1>3, DelFinite, SumNat DEF sum
<1>5. Stakes(x) = sum
  BY DEF Stakes
<1>6. CASE S = 0
  <2>1. \A d \in Del : l[d] = 0
    BY <1>3, <1>6 DEF TokensFromShares
  <2>2. SumFunctionOnSet(l, Del) = 0
    BY <2>1, DelFinite, SumZero
  <2>. QED  BY <1>2, <1>5, <2>2
<1>7. CASE S # 0
  <2>1. ASSUME NEW d \in Del PROVE S * l[d] <= T * f[d]
    <3>. DEFINE a == f[d] * k.tokens * Unit
                t == f[d]
                s == l[d]
    <3>1. t \in Nat /\ s \in Nat /\ a \in Nat
      BY <1>1, <1>3
    <3>2. TokensFromShares(k, t) = a \div S
      BY <1>2, <1>7 DEF TokensFromShares
    <3>3. a = T * t
      <4>. DEFINE m == k.tokens
      <4>1. m \in Nat /\ a = t * m * Unit /\ T = m * Unit
        BY <1>1
      <4>. HIDE DEF m, a, T, t
      <4>. QED  BY <1>1, <3>1, <4>1
    <3>4. s <= a \div S
      BY <3>2
    <3>. HIDE DEF a, s, t, S, T
    <3>5. a \div S \in Nat /\ (a \div S) * S <= a
      BY <1>2, <1>7, <3>1, FloorBound
    <3>. DEFINE q == a \div S
    <3>6. q \in Nat /\ q * S <= a /\ s <= q
      BY <3>4, <3>5
    <3>. HIDE DEF q
    <3>7. S * s <= q * S
      BY <1>2, <3>1, <3>6
    <3>8. S * s <= a
      BY <1>2, <3>1, <3>6, <3>7
    <3>. QED  BY <3>3, <3>8 DEF s, t
  <2>2. \A d \in Del : e[d] = S * l[d] /\ g[d] = T * f[d]
    OBVIOUS
  <2>. HIDE DEF S, T, e, g, sum
  <2>3. \A d \in Del : e[d] \in Int /\ g[d] \in Int /\ e[d] <= g[d]
    BY <1>1, <1>2, <1>3, <2>1, <2>2
  <2>4. SumFunctionOnSet(e, Del) <= SumFunctionOnSet(g, Del)
    BY <2>3, DelFinite, SumLeq
  <2>5. SumFunctionOnSet(e, Del) = S * sum
    <3>1. \A d \in Del : l[d] \in Int /\ e[d] = S * l[d]
      BY <1>3, <2>2
    <3>2. SumFunctionOnSet(e, Del) = S * SumFunctionOnSet(l, Del)
      BY <1>2, <3>1, DelFinite, SumScale
    <3>. QED  BY <3>2 DEF sum
  <2>6. SumFunctionOnSet(g, Del) = T * S
    <3>1. \A d \in Del : f[d] \in Int /\ g[d] = T * f[d]
      BY <1>1, <2>2
    <3>2. T \in Int
      BY <1>2
    <3>3. SumFunctionOnSet(g, Del) = T * SumFunctionOnSet(f, Del)
      BY <3>1, <3>2, DelFinite, SumScale
    <3>. QED  BY <1>1, <3>3
  <2>7. S * sum <= T * S
    BY <2>4, <2>5, <2>6
  <2>8. sum <= T
    BY <1>2, <1>4, <1>7, <2>7
  <2>. QED  BY <1>5, <2>8 DEF T
<1>. QED  BY <1>6, <1>7

(* Withdraw and start again.                                                *)
LEMMA RestartSolvent ==
    ASSUME NEW x, WellFormed(x), Solvent(x), NEW tokens \in Nat, Stakes(x) <= tokens * Unit,
           x.period < MaxPeriod, NEW d \in Started(x), NEW h, SeesAll(x, x.info[d], h),
           NEW current \in Nat, NEW stake \in Nat, NEW k \in Int,
           NEW z, z = AfterDelegationModified(Settle(x, d, tokens, current, h), d, stake, k)
    PROVE  Solvent(z)
<1>. DEFINE y == Settle(x, d, tokens, current, h)
<1>1. y = Settle(x, d, tokens, current, h)
  OBVIOUS
<1>. HIDE DEF y
<1>2. WellFormed(y) /\ Fresh(y, Started(y)) /\ Started(y) = Started(x) \ {d}
  BY <1>1, SettleWellFormed
<1>3. Solvent(y)
  BY <1>1, SettleSolvent
<1>4. d \in Del \ Started(y)
  BY <1>2 DEF Started
<1>5. z = AfterDelegationModified(y, d, stake, k)
  BY <1>1
<1>. QED  BY <1>2, <1>3, <1>4, <1>5, StartSolvent

(* End the period and start: a new delegation.                              *)
LEMMA NewStartSolvent ==
    ASSUME NEW x, WellFormed(x), Solvent(x), NEW tokens \in Nat, Stakes(x) <= tokens * Unit,
           x.period < MaxPeriod, NEW d \in Del \ Started(x), NEW stake \in Nat, NEW k \in Int,
           NEW z, z = AfterDelegationModified(IncrementValidatorPeriod(x, tokens),
                                              d, stake, k)
    PROVE  Solvent(z)
<1>. DEFINE y == IncrementValidatorPeriod(x, tokens)
<1>1. y = IncrementValidatorPeriod(x, tokens)
  OBVIOUS
<1>. HIDE DEF y
<1>2. Begun(x, y)
  BY <1>1, IncrementBegins
<1>3. WellFormed(y) /\ Solvent(y) /\ Fresh(y, Started(y)) /\ d \in Del \ Started(y)
  BY <1>2 DEF Begun
<1>4. z = AfterDelegationModified(y, d, stake, k)
  BY <1>1
<1>. QED  BY <1>3, <1>4, StartSolvent

(* What the earlier invariants say of a state.                              *)
Background ==
    /\ IInv /\ FreshSoFar /\ StakesAdd
    /\ StartedInTime /\ SlashesInTime /\ StakesHold

(* From the clearing of the history to the re-creation of the delegations   *)
(* nothing has been earned in the records; whenever nothing is being paid   *)
(* out or rebuilt by an export, the records are solvent.                    *)
BlankSoFar ==
    /\ pc = "validators" => \A v \in Val : v \in ex.vals \/ Blank(dist[v])
    /\ pc = "delegations" => \A v \in Val : Blank(dist[v])

SolventSoFar ==
    pc \notin {"rewards", "validators", "delegations", "panicked"}
        => \A v \in Val : Solvent(dist[v])

LEMMA FitOf ==
    ASSUME Background, Plain, NEW v \in Val
    PROVE  Stakes(dist[v]) <= staking[v].tokens * Unit /\ staking[v].tokens \in Nat
<1>. DEFINE k == staking[v]
            f == shares[v]
            x == dist[v]
            l == StakesLeft(x)
<1>1. k \in Validator /\ AddsUp(k, f) /\ l = StakesLeft(x)
  BY DEF Background, IInv, TypeOK, StakesAdd
<1>2. ASSUME NEW d \in Del PROVE l[d] \in 0 .. TokensFromShares(k, f[d])
  <2>1. CASE d \in Started(x)
    <3>1. StakeLeft(x, d) \in 0 .. StakeOf(d, v)
      BY <2>1 DEF Background, StakesHold, Held
    <3>2. StakeLeft(x, d) = Walk(x, d).stake
      BY DEF StakeLeft, Walk
    <3>. QED  BY <2>1, <3>1, <3>2 DEF StakesLeft, StakeOf
  <2>2. CASE d \notin Started(x)
    <3>1. l[d] = 0
      BY <2>2 DEF StakesLeft
    <3>2. TokensFromShares(k, f[d]) \in Nat
      BY <1>1, WorthOf
    <3>. QED  BY <3>1, <3>2
  <2>. QED  BY <2>1, <2>2
<1>3. staking[v].tokens \in Nat
  BY <1>1 DEF AddsUp
<1>. HIDE DEF k, f, x, l
<1>4. Stakes(x) <= k.tokens * Unit
  BY <1>1, <1>2, StakesFit
<1>. QED  BY <1>3, <1>4 DEF k, x

(* In the context of a block the walk meets every slash since the start.    *)
LEMMA AllSeenInBlock ==
    ASSUME Background, NEW v \in Val, NEW d \in Started(dist[v])
    PROVE  SeesAll(dist[v], dist[v].info[d], height)
<1>. DEFINE x == dist[v]
            i == x.info[d]
<1>1. height \in Nat /\ i.height \in 0 .. height
  BY DEF Background, IInv, TypeOK, StartedInTime, Started
<1>2. ASSUME NEW e \in x.slashes, e.period > i.prev
      PROVE  e.height \in i.height .. height
  <2>1. e.height \in Nat
    BY DEF Background, IInv, TypeOK, ValidatorRewards, SlashEvent
  <2>2. e.height <= height /\ e.height >= i.height
    BY <1>2 DEF Background, SlashesInTime
  <2>. HIDE DEF x, i
  <2>. QED  BY <1>1, <2>1, <2>2
<1>. HIDE DEF x, i
<1>3. SeesAll(x, i, height)
  BY <1>1, <1>2 DEF SeesAll, SeenSlashes, SlashesSince
<1>. QED  BY <1>3 DEF x, i

LEMMA OneSolvent ==
    ASSUME TypeOK, \A w \in Val : Solvent(dist[w]), NEW v \in Val, NEW z, Solvent(z),
           dist' = [dist EXCEPT ![v] = z]
    PROVE  \A w \in Val : Solvent(dist'[w])
BY DEF TypeOK

LEMMA TransactionReady ==
    ASSUME Background, SolventSoFar, NEW d \in Del, NEW v \in Val, Transaction(d, v)
    PROVE  /\ TypeOK /\ \A w \in Val : Solvent(dist[w])
           /\ WellFormed(dist[v]) /\ Stakes(dist[v]) <= staking[v].tokens * Unit
           /\ dist[v].period < MaxPeriod /\ staking[v].tokens \in Nat
           /\ StakeOf(d, v) \in Nat /\ height \in Int
           /\ d \in Started(dist[v]) => SeesAll(dist[v], dist[v].info[d], height)
           /\ (d \in Started(dist[v]) <=> shares[v][d] # 0)
<1>1. /\ TypeOK /\ Plain /\ WellFormed(dist[v]) /\ dist[v].period < MaxPeriod /\ height \in Nat
      /\ (d \in Started(dist[v]) <=> shares[v][d] # 0)
  BY TransactionType DEF Background
<1>2. \A w \in Val : Solvent(dist[w])
  BY DEF SolventSoFar, Transaction
<1>3. StakeOf(d, v) \in Nat
  BY <1>1, StakeOfNat DEF Background
<1>4. Stakes(dist[v]) <= staking[v].tokens * Unit /\ staking[v].tokens \in Nat
  BY <1>1, FitOf
<1>. QED  BY <1>1, <1>2, <1>3, <1>4, AllSeenInBlock

LEMMA WithdrawSolvent ==
    ASSUME Background, SolventSoFar, NEW d \in Del, NEW v \in Val, Withdraw(d, v)
    PROVE  \A w \in Val : Solvent(dist'[w])
<1>. DEFINE tokens == staking[v].tokens
            stake  == StakeOf(d, v)
            z == AfterDelegationModified(Settle(dist[v], d, tokens, stake, height),
                                         d, stake, height)
<1>1. Transaction(d, v) /\ shares[v][d] # 0
  BY DEF Withdraw
<1>2. /\ TypeOK /\ \A w \in Val : Solvent(dist[w])
      /\ WellFormed(dist[v]) /\ Stakes(dist[v]) <= tokens * Unit
      /\ dist[v].period < MaxPeriod /\ tokens \in Nat /\ stake \in Nat /\ height \in Int
      /\ d \in Started(dist[v]) /\ SeesAll(dist[v], dist[v].info[d], height)
  BY <1>1, TransactionReady
<1>3. dist' = [dist EXCEPT ![v] = z]
  BY DEF Withdraw, Settled
<1>4. z = AfterDelegationModified(Settle(dist[v], d, tokens, stake, height), d, stake, height)
  OBVIOUS
<1>. HIDE DEF tokens, stake, z
<1>5. Solvent(z)
  BY <1>2, <1>4, RestartSolvent
<1>. QED  BY <1>2, <1>3, <1>5, OneSolvent

(* A delegator of v, or a new one, delegates.                               *)
LEMMA DelegatedSolvent ==
    ASSUME Background, SolventSoFar, NEW d \in Del, NEW v \in Val, Plain,
           NEW x, x = dist[v], WellFormed(x), Solvent(x), x.period < MaxPeriod,
           NEW amount, NEW new, new = Delegated(d, v, amount),
           NEW stake \in Nat, stake = TokensFromShares(AddTokens(staking[v], amount), new.shares)
    PROVE  Solvent(new.dist)
<1>. DEFINE tokens == staking[v].tokens
            current == StakeOf(d, v)
<1>1. /\ new.dist = AfterDelegationModified(
                       IF shares[v][d] = 0 THEN IncrementValidatorPeriod(x, tokens)
                       ELSE Settle(x, d, tokens, current, height), d, stake, height)
  BY DEF Delegated, Settled
<1>2. /\ tokens \in Nat /\ current \in Nat /\ height \in Int /\ Stakes(x) <= tokens * Unit
      /\ (d \in Started(x) <=> shares[v][d] # 0)
  <2>1. current \in Nat /\ height \in Int /\ (d \in Started(x) <=> shares[v][d] # 0)
    BY StakeOfNat DEF Background, IInv, TypeOK, SharesStarted
  <2>. QED  BY <2>1, FitOf
<1>3. d \in Started(x) => SeesAll(x, x.info[d], height)
  BY AllSeenInBlock
<1>. HIDE DEF tokens, current
<1>4. CASE shares[v][d] = 0
  <2>1. new.dist = AfterDelegationModified(IncrementValidatorPeriod(x, tokens), d, stake, height)
    BY <1>1, <1>4
  <2>2. d \in Del \ Started(x)
    BY <1>2, <1>4
  <2>. QED  BY <1>2, <2>1, <2>2, NewStartSolvent
<1>5. CASE shares[v][d] # 0
  <2>1. new.dist = AfterDelegationModified(Settle(x, d, tokens, current, height),
                                           d, stake, height)
    BY <1>1, <1>5
  <2>2. d \in Started(x)
    BY <1>2, <1>5
  <2>. QED  BY <1>2, <1>3, <2>1, <2>2, RestartSolvent
<1>. QED  BY <1>4, <1>5

LEMMA DelegateSolvent ==
    ASSUME Background, Background', SolventSoFar, NEW d \in Del, NEW v \in Val, Delegate(d, v)
    PROVE  \A w \in Val : Solvent(dist'[w])
<1>. DEFINE new == Delegated(d, v, Stake)
            k     == AddTokens(staking[v], Stake)
            stake == TokensFromShares(k, new.shares)
            x     == dist[v]
<1>1. /\ Transaction(d, v) /\ dist' = [dist EXCEPT ![v] = new.dist]
      /\ staking' = [staking EXCEPT ![v] = new.validator]
      /\ shares' = [shares EXCEPT ![v][d] = new.shares]
  BY DEF Delegate
<1>2. /\ TypeOK /\ \A w \in Val : Solvent(dist[w])
      /\ WellFormed(x) /\ x.period < MaxPeriod
  BY <1>1, TransactionReady
<1>3. new.validator = k
  BY DEF Delegated
<1>4. /\ new = Delegated(d, v, Stake)
      /\ stake = TokensFromShares(AddTokens(staking[v], Stake), new.shares)
      /\ x = dist[v]
  OBVIOUS
<1>. HIDE DEF new, k
<1>5. stake \in Nat
  <2>1. staking'[v] = k /\ shares'[v][d] = new.shares
    BY <1>1, <1>2, <1>3 DEF TypeOK
  <2>2. staking'[v] \in Validator /\ AddsUp(staking'[v], shares'[v])
    BY DEF Background, IInv, TypeOK, StakesAdd
  <2>3. TokensFromShares(staking'[v], shares'[v][d]) \in Nat
    BY <2>2, WorthOf
  <2>. QED  BY <2>1, <2>3
<1>. HIDE DEF stake, x
<1>6. Plain
  BY <1>1 DEF Transaction, Plain
<1>7. Solvent(new.dist)
  BY <1>2, <1>4, <1>5, <1>6, DelegatedSolvent
<1>. DEFINE z == new.dist
<1>8. Solvent(z) /\ dist' = [dist EXCEPT ![v] = z]
  BY <1>1, <1>7
<1>. HIDE DEF z
<1>. QED  BY <1>2, <1>8, OneSolvent

LEMMA UndelegateSolvent ==
    ASSUME Background, SolventSoFar, NEW d \in Del, NEW v \in Val, Undelegate(d, v)
    PROVE  \A w \in Val : Solvent(dist'[w])
<1>. DEFINE tokens == staking[v].tokens
            stake  == StakeOf(d, v)
            z == Settle(dist[v], d, tokens, stake, height)
<1>1. Transaction(d, v) /\ shares[v][d] # 0 /\ dist' = [dist EXCEPT ![v] = z]
  BY DEF Undelegate, Settled
<1>2. /\ TypeOK /\ \A w \in Val : Solvent(dist[w])
      /\ WellFormed(dist[v]) /\ Stakes(dist[v]) <= tokens * Unit
      /\ dist[v].period < MaxPeriod /\ tokens \in Nat /\ stake \in Nat
      /\ d \in Started(dist[v]) /\ SeesAll(dist[v], dist[v].info[d], height)
  BY <1>1, TransactionReady
<1>3. z = Settle(dist[v], d, tokens, stake, height)
  OBVIOUS
<1>. HIDE DEF tokens, stake, z
<1>4. Solvent(z)
  BY <1>2, <1>3, SettleSolvent
<1>. QED  BY <1>1, <1>2, <1>4, OneSolvent

LEMMA RedelegateSolvent ==
    ASSUME Background, Background', SolventSoFar,
           NEW d \in Del, NEW v \in Val, NEW w \in Val, Redelegate(d, v, w)
    PROVE  \A u \in Val : Solvent(dist'[u])
<1>. DEFINE tokens == staking[v].tokens
            current == StakeOf(d, v)
            amount == TokensOf(staking[v], shares[v][d])
            z   == Settle(dist[v], d, tokens, current, height)
            new == Delegated(d, w, amount)
            k     == AddTokens(staking[w], amount)
            stake == TokensFromShares(k, new.shares)
            x   == dist[w]
<1>1. /\ Transaction(d, v) /\ v # w /\ shares[v][d] # 0 /\ PeriodsLeft(w)
      /\ dist' = [dist EXCEPT ![v] = z, ![w] = new.dist]
      /\ staking' = [staking EXCEPT ![v] = Unbonded(d, v), ![w] = new.validator]
      /\ shares' = [shares EXCEPT ![v][d] = 0, ![w][d] = new.shares]
  BY DEF Redelegate, Settled
<1>2. /\ TypeOK /\ \A u \in Val : Solvent(dist[u])
      /\ WellFormed(dist[v]) /\ Stakes(dist[v]) <= tokens * Unit
      /\ dist[v].period < MaxPeriod /\ tokens \in Nat /\ current \in Nat
      /\ d \in Started(dist[v]) /\ SeesAll(dist[v], dist[v].info[d], height)
  BY <1>1, TransactionReady
<1>3. new.validator = k
  BY DEF Delegated
<1>4. /\ z = Settle(dist[v], d, tokens, current, height)
      /\ new = Delegated(d, w, amount) /\ x = dist[w]
      /\ stake = TokensFromShares(AddTokens(staking[w], amount), new.shares)
  OBVIOUS
<1>. HIDE DEF tokens, current, amount, z, new, k
<1>5. Solvent(z)
  BY <1>2, <1>4, SettleSolvent
<1>6. stake \in Nat
  <2>1. staking'[w] = k /\ shares'[w][d] = new.shares
    BY <1>1, <1>2, <1>3 DEF TypeOK
  <2>2. staking'[w] \in Validator /\ AddsUp(staking'[w], shares'[w])
    BY DEF Background, IInv, TypeOK, StakesAdd
  <2>3. TokensFromShares(staking'[w], shares'[w][d]) \in Nat
    BY <2>2, WorthOf
  <2>. QED  BY <2>1, <2>3
<1>7. Plain
  BY <1>1 DEF Transaction, Plain
<1>8. WellFormed(x) /\ Solvent(x) /\ x.period < MaxPeriod
  BY <1>1, <1>2, <1>7, PeriodsLeftBound DEF Background, IInv, Records
<1>. HIDE DEF stake, x
<1>9. Solvent(new.dist)
  BY <1>4, <1>6, <1>7, <1>8, DelegatedSolvent
<1>10. /\ dist'[v] = z /\ dist'[w] = new.dist
       /\ \A u \in Val \ {v, w} : dist'[u] = dist[u]
  BY <1>1, <1>2 DEF TypeOK
<1>. QED  BY <1>2, <1>5, <1>9, <1>10

LEMMA BeginBlockSolvent ==
    ASSUME Background, SolventSoFar, NEW v \in Val, BeginBlock(v)
    PROVE  \A w \in Val : Solvent(dist'[w])
<1>. DEFINE z == Allocate(dist[v])
<1>1. TypeOK /\ StartBlock(v) /\ dist' = [dist EXCEPT ![v] = z]
  BY DEF Background, IInv, BeginBlock
<1>2. WellFormed(dist[v]) /\ \A w \in Val : Solvent(dist[w])
  BY <1>1 DEF Background, IInv, Records, Plain, StartBlock, SolventSoFar
<1>3. WellFormed(z) /\ z = Allocate(dist[v])
  BY <1>2, AllocateWellFormed
<1>. HIDE DEF z
<1>4. Solvent(z)
  BY <1>2, <1>3, AllocateSolvent
<1>. QED  BY <1>1, <1>2, <1>4, OneSolvent

LEMMA SameWalksSameStakes ==
    ASSUME NEW x, NEW z, Started(z) = Started(x),
           \A d \in Started(x) : Walk(z, d) = Walk(x, d)
    PROVE  Stakes(z) = Stakes(x)
<1>1. StakesLeft(z) = StakesLeft(x)
  BY DEF StakesLeft
<1>. QED  BY <1>1 DEF Stakes

LEMMA BeginBlockSlashSolvent ==
    ASSUME Background, SolventSoFar, NEW v \in Val, NEW w \in Val, BeginBlockSlash(v, w)
    PROVE  \A u \in Val : Solvent(dist'[u])
<1>. DEFINE a         == Allocate(dist[v])
            allocated == [dist EXCEPT ![v] = a]
            x         == allocated[w]
            before    == staking[w].tokens
            after     == before - before \div 2
            h         == height + 1
            z         == BeforeValidatorSlashed(x, before, after, h)
<1>1. /\ StartBlock(v) /\ before > 0 /\ PeriodsLeft(w)
      /\ dist' = [allocated EXCEPT ![w] = z]
  BY DEF BeginBlockSlash
<1>2. /\ TypeOK /\ Plain /\ \A u \in Val : WellFormed(dist[u]) /\ Solvent(dist[u])
      /\ dist \in [Val -> ValidatorRewards] /\ height \in Nat
  BY <1>1 DEF Background, IInv, Records, Plain, StartBlock, SolventSoFar, TypeOK
<1>3. WellFormed(a) /\ a.period = dist[v].period /\ a = Allocate(dist[v])
  BY <1>2, AllocateWellFormed
<1>. HIDE DEF a
<1>4. /\ Solvent(a) /\ Started(a) = Started(dist[v])
      /\ \A d \in Started(dist[v]) : Walk(a, d) = Walk(dist[v], d)
  BY <1>2, <1>3, AllocateSolvent
<1>5. Stakes(a) = Stakes(dist[v])
  BY <1>4, SameWalksSameStakes
<1>6. \A u \in Val : /\ WellFormed(allocated[u]) /\ Solvent(allocated[u])
                     /\ allocated[u].period = dist[u].period
                     /\ Stakes(allocated[u]) = Stakes(dist[u])
  BY <1>2, <1>3, <1>4, <1>5
<1>7. x.period < MaxPeriod
  BY <1>1, <1>2, <1>6, PeriodsLeftBound
<1>8. before \in Nat \ {0} /\ Stakes(x) <= before * Unit
  <2>1. before \in Nat /\ Stakes(dist[w]) <= before * Unit
    BY <1>2, FitOf
  <2>. QED  BY <1>1, <1>6, <2>1
<1>9. after \in Nat /\ h \in Nat
  <2>. HIDE DEF before
  <2>. QED  BY <1>2, <1>8
<1>10. z = BeforeValidatorSlashed(x, before, after, h) /\ WellFormed(x) /\ Solvent(x)
  BY <1>6
<1>11. DOMAIN allocated = Val
  BY <1>2
<1>. HIDE DEF x, before, after, h, z, allocated
<1>12. Solvent(z)
  BY <1>7, <1>8, <1>9, <1>10, SlashSolvent
<1>13. dist'[w] = z /\ \A u \in Val \ {w} : dist'[u] = allocated[u]
  BY <1>1, <1>11
<1>. QED  BY <1>6, <1>12, <1>13

LEMMA WithdrawCommissionSolvent ==
    ASSUME Background, SolventSoFar, NEW v \in Val, WithdrawCommission(v)
    PROVE  \A w \in Val : Solvent(dist'[w])
<1>. DEFINE x == dist[v]
            coins == x.com \div Unit
            com   == x.com - coins * Unit
            out   == x.out - coins * Unit
            z     == [x EXCEPT !.com = com, !.out = out]
<1>1. pc = "commission" /\ dist' = [dist EXCEPT ![v] = z]
  BY DEF WithdrawCommission, NextValidator
<1>2. TypeOK /\ WellFormed(x) /\ \A w \in Val : Solvent(dist[w])
  BY <1>1 DEF Background, IInv, Records, Plain, SolventSoFar
<1>3. x.com \in Int /\ x.out \in Int /\ x \in ValidatorRewards
  BY <1>2 DEF WellFormed, ValidatorRewards
<1>4. coins \in Int /\ com \in Int /\ out \in Int
  <2>1. coins \in Int
    BY <1>3, UnitAssumption
  <2>. HIDE DEF coins
  <2>. QED  BY <1>3, <2>1, UnitAssumption
<1>5. coins = x.com \div Unit /\ com = x.com - coins * Unit /\ out = x.out - coins * Unit
  OBVIOUS
<1>. HIDE DEF coins, com, out
<1>6. /\ z \in ValidatorRewards /\ z.info = x.info /\ z.period = x.period
      /\ z.slashes = x.slashes /\ z.ref = x.ref /\ z.cum = x.cum
      /\ z.cur = x.cur /\ z.com = com /\ z.out = out
  BY <1>3, <1>4 DEF ValidatorRewards
<1>7. WellFormed(z)
  <2>. HIDE DEF z
  <2>. QED  BY <1>2, <1>6, AmountsWellFormed
<1>. HIDE DEF z
<1>8. SameLedger(x, z)
  BY <1>6, <1>7 DEF SameLedger
<1>9. Solvent(z)
  <2>1. Solvent(x)
    BY <1>2
  <2>2. z.com = x.com - coins * Unit /\ z.out = x.out - coins * Unit
    BY <1>5, <1>6
  <2>. HIDE DEF x
  <2>. QED  BY <1>2, <1>5, <1>6, <1>8, <2>1, <2>2, CommissionSolvent
<1>. QED  BY <1>1, <1>2, <1>9, OneSolvent

LEMMA CreatedBlank ==
    ASSUME NEW x \in ValidatorRewards, \A p \in Periods : x.ref[p] = 0,
           NEW z, z = AfterValidatorCreated(x)
    PROVE  Blank(z)
<1>1. 0 \in Periods /\ x.ref \in [Periods -> Nat] /\ x.cum \in [Periods -> Int]
  BY MaxPeriodAssumption DEF ValidatorRewards, Periods
<1>2. z.ref = [x.ref EXCEPT ![0] = 1] /\ z.cum = [x.cum EXCEPT ![0] = 0]
  BY DEF AfterValidatorCreated, ValidatorRewards
<1>. QED  BY <1>1, <1>2 DEF Blank, Kept

(* A period without rewards ends.                                           *)
LEMMA IncrementBlank ==
    ASSUME NEW x \in ValidatorRewards, Blank(x), x.cur = 0, x.period < MaxPeriod,
           x.ref[x.period - 1] # 0, NEW tokens \in Int,
           NEW y, y = IncrementValidatorPeriod(x, tokens)
    PROVE  Blank(y) /\ y.ref[x.period] = 1
<1>. DEFINE P == x.period
            ratio == IF tokens > 0 THEN x.cur \div tokens ELSE 0
            last == Cum(x, P - 1)
<1>1. P \in Periods /\ P - 1 \in Periods /\ P \in Nat \ {0}
  BY MaxPeriodAssumption, SMTT(30) DEF ValidatorRewards, Periods
<1>2. y.cum = [x.cum EXCEPT ![P] = last + ratio]
      /\ y.ref = [x.ref EXCEPT ![P - 1] = x.ref[P - 1] - 1, ![P] = 1]
  BY DEF IncrementValidatorPeriod, ValidatorRewards
<1>3. ratio = 0
  BY DEF ValidatorRewards
<1>4. last = 0
  BY <1>1 DEF Cum, Blank, Kept
<1>5. x.ref \in [Periods -> Nat] /\ x.cum \in [Periods -> Int]
  BY DEF ValidatorRewards
<1>. HIDE DEF ratio, last
<1>6. y.cum[P] = 0 /\ y.ref[P] = 1
  BY <1>1, <1>2, <1>3, <1>4, <1>5
<1>7. ASSUME NEW p \in Periods, p # P, y.ref[p] # 0 PROVE y.cum[p] = 0
  <2>1. x.ref[p] # 0 /\ y.cum[p] = x.cum[p]
    BY <1>1, <1>2, <1>5, <1>7
  <2>. QED  BY <2>1 DEF Blank, Kept
<1>. QED  BY <1>6, <1>7 DEF Blank, Kept

LEMMA NewStartBlank ==
    ASSUME NEW x \in ValidatorRewards, Blank(x), x.cur = 0, x.period < MaxPeriod,
           NEW B, Good(x, B), NEW tokens \in Int, NEW d, NEW stake, NEW h,
           NEW z, z = AfterDelegationModified(IncrementValidatorPeriod(x, tokens), d, stake, h)
    PROVE  Blank(z)
<1>. DEFINE y == IncrementValidatorPeriod(x, tokens)
<1>1. x.period \in Nat \ {0} /\ x.period - 1 \in Periods /\ x.period \in Periods
  BY MaxPeriodAssumption DEF ValidatorRewards, Periods
<1>2. x.ref[x.period - 1] # 0
  BY <1>1 DEF Good, CountsReferrers
<1>3. y.period = x.period + 1
  BY DEF IncrementValidatorPeriod, ValidatorRewards
<1>4. z.cum = y.cum /\ z.ref = Retain(y, y.period - 1)
  BY DEF AfterDelegationModified, IncrementValidatorPeriod, ValidatorRewards
<1>5. y = IncrementValidatorPeriod(x, tokens)
  OBVIOUS
<1>6. DOMAIN y.ref = Periods
  BY <1>1 DEF IncrementValidatorPeriod, ValidatorRewards
<1>. HIDE DEF y
<1>7. Blank(y) /\ y.ref[x.period] = 1
  BY <1>2, <1>5, IncrementBlank
<1>8. z.ref = [y.ref EXCEPT ![x.period] = 2]
  BY <1>1, <1>3, <1>4, <1>7 DEF Retain
<1>9. ASSUME NEW p \in Periods, z.ref[p] # 0 PROVE y.ref[p] # 0
  BY <1>1, <1>6, <1>7, <1>8, <1>9
<1>. QED  BY <1>4, <1>7, <1>9 DEF Blank, Kept

LEMMA ReinitValidatorBlank ==
    ASSUME IInv, BlankSoFar, NEW v \in Val, ReinitValidator(v)
    PROVE  BlankSoFar'
<1>. DEFINE z == AfterValidatorCreated(dist[v])
<1>1. /\ pc = "validators" /\ v \in ex.vals /\ dist' = [dist EXCEPT ![v] = z]
      /\ pc' = IF ex.vals = {v} THEN "delegations" ELSE "validators"
      /\ ex'.vals = ex.vals \ {v}
  BY DEF ReinitValidator, NextValidator, IInv, TypeOK
<1>2. /\ dist \in [Val -> ValidatorRewards] /\ dist[v] \in ValidatorRewards
      /\ \A p \in Periods : dist[v].ref[p] = 0
  BY <1>1 DEF TypeOK, IInv, Records
<1>3. z = AfterValidatorCreated(dist[v])
  OBVIOUS
<1>. HIDE DEF z
<1>4. Blank(z)
  BY <1>2, <1>3, CreatedBlank
<1>5. dist'[v] = z /\ \A w \in Val \ {v} : dist'[w] = dist[w]
  BY <1>1, <1>2
<1>. QED  BY <1>1, <1>4, <1>5 DEF BlankSoFar

LEMMA ReinitDelegationBlank ==
    ASSUME IInv, FreshSoFar, BlankSoFar, NEW d \in Del, NEW v \in Val, ReinitDelegation(d, v)
    PROVE  BlankSoFar'
<1>. DEFINE x == dist[v]
            tokens == staking[v].tokens
            stake  == StakeOf(d, v)
            z == AfterDelegationModified(IncrementValidatorPeriod(x, tokens), d, stake, 0)
            B == Initialized(v)
<1>1. /\ pc = "delegations" /\ pc' = pc /\ x.period < MaxPeriod
      /\ dist' = [dist EXCEPT ![v] = z]
  BY DEF ReinitDelegation
<1>2. /\ x \in ValidatorRewards /\ tokens \in Int /\ Good(x, B)
      /\ dist \in [Val -> ValidatorRewards]
  BY <1>1 DEF TypeOK, Validator, IInv, Records
<1>3. x.cur = 0 /\ \A w \in Val : Blank(dist[w])
  BY <1>1 DEF FreshSoFar, Emptied, Rebuilt, Empty, BlankSoFar
<1>4. z = AfterDelegationModified(IncrementValidatorPeriod(x, tokens), d, stake, 0) /\ Blank(x)
  BY <1>3
<1>. HIDE DEF x, tokens, stake, z, B
<1>5. Blank(z)
  BY <1>1, <1>2, <1>3, <1>4, NewStartBlank
<1>6. \A w \in Val : Blank(dist'[w])
  BY <1>1, <1>2, <1>3, <1>5
<1>. QED  BY <1>1, <1>6 DEF BlankSoFar

(* When all delegations have started anew, nothing is owed to anybody.      *)
LEMMA ResetEntriesSolvent ==
    ASSUME Background, Background', BlankSoFar, ResetEntries
    PROVE  \A w \in Val : Solvent(dist'[w])
<1>. SUFFICES ASSUME NEW w \in Val PROVE Solvent(dist'[w])
  OBVIOUS
<1>. DEFINE x == dist[w]
<1>1. /\ pc = "delegations" /\ pc' = "staking" /\ ex.dels = {} /\ dist' = dist
  BY DEF ResetEntries
<1>2. WellFormed(dist'[w])
  BY <1>1 DEF Background, IInv, Records, Plain
<1>3. Blank(x) /\ x.slashes = {} /\ x.out = 0 /\ x.com = 0 /\ x.cur = 0
  BY <1>1 DEF BlankSoFar, Background, FreshSoFar, SlashesCleared, Emptied, Rebuilt, Empty
<1>4. ASSUME NEW d \in Started(x) PROVE x.info[d].stake \in Nat
  <2>1. d \in Del /\ shares[w][d] # 0
    BY DEF Started, Background, IInv, SharesStarted
  <2>2. x.info[d].stake = StakeOf(d, w)
    BY <1>1, <2>1 DEF Background, FreshSoFar, Restarted, Rebuilt, StartsAnew
  <2>. QED  BY <2>1, <2>2, StakeOfNat DEF Background, IInv
<1>5. WellFormed(x) /\ dist'[w] = x
  BY <1>1, <1>2
<1>. HIDE DEF x
<1>. QED  BY <1>3, <1>4, <1>5, BlankSolvent

(* Steps that leave the records alone do not leave the stages of rebuilding.*)
LEMMA RecordsStaySolvent ==
    ASSUME SolventSoFar, dist' = dist, pc' \notin {"validators", "delegations"},
           pc' \in {"rewards", "panicked"}
             \/ pc \notin {"rewards", "validators", "delegations", "panicked"}
    PROVE  SolventSoFar' /\ BlankSoFar'
BY DEF SolventSoFar, BlankSoFar

LEMMA StayPut ==
    ASSUME SolventSoFar, BlankSoFar, dist' = dist, pc' = pc, ex'.vals = ex.vals
    PROVE  SolventSoFar' /\ BlankSoFar'
BY DEF SolventSoFar, BlankSoFar

LEMMA PaysSolvent ==
    ASSUME pc' \notin {"validators", "delegations"}, \A w \in Val : Solvent(dist'[w])
    PROVE  SolventSoFar' /\ BlankSoFar'
BY DEF SolventSoFar, BlankSoFar

LEMMA ChainSolvent ==
    ASSUME Background, Background', SolventSoFar, BlankSoFar, ChainStep
    PROVE  SolventSoFar' /\ BlankSoFar'
<1>1. EndBlock \/ pc' \in {"genesis", "block", "panicked"}
  BY StagesOfChain
<1>2. pc' \notin {"validators", "delegations"}
  BY <1>1 DEF EndBlock
<1>3. CASE \/ \E v \in Val : BeginBlock(v)
           \/ \E v, w \in Val : BeginBlockSlash(v, w)
  BY <1>2, <1>3, BeginBlockSolvent, BeginBlockSlashSolvent, PaysSolvent
<1>4. CASE \/ \E d \in Del, v \in Val : Withdraw(d, v) \/ Delegate(d, v) \/ Undelegate(d, v)
           \/ \E d \in Del, v, w \in Val : Redelegate(d, v, w)
  BY <1>2, <1>4, WithdrawSolvent, DelegateSolvent, UndelegateSolvent, RedelegateSolvent,
     PaysSolvent
<1>5. CASE EndBlock \/ Restart \/ \E v \in Val : Unjail(v)
  <2>1. dist' = dist /\ pc \notin {"rewards", "validators", "delegations", "panicked"}
    BY <1>5 DEF EndBlock, Restart, Unjail
  <2>. QED  BY <1>2, <2>1, RecordsStaySolvent
<1>. QED  BY <1>3, <1>4, <1>5 DEF ChainStep

LEMMA ExportSolvent ==
    ASSUME Background, Background', SolventSoFar, BlankSoFar, ExportStep
    PROVE  SolventSoFar' /\ BlankSoFar'
<1>1. ASSUME NEW v \in Val, WithdrawCommission(v) PROVE SolventSoFar' /\ BlankSoFar'
  <2>1. pc' \notin {"validators", "delegations"}
    BY <1>1 DEF WithdrawCommission, NextValidator
  <2>. QED  BY <1>1, <2>1, WithdrawCommissionSolvent, PaysSolvent
<1>2. ASSUME NEW v \in Val, ReinitValidator(v) PROVE SolventSoFar' /\ BlankSoFar'
  <2>1. pc' \in {"validators", "delegations"}
    BY <1>2 DEF ReinitValidator, NextValidator
  <2>. QED  BY <1>2, <2>1, ReinitValidatorBlank DEF SolventSoFar, Background
<1>3. ASSUME NEW d \in Del, NEW v \in Val, ReinitDelegation(d, v)
      PROVE  SolventSoFar' /\ BlankSoFar'
  <2>1. pc' = "delegations"
    BY <1>3 DEF ReinitDelegation
  <2>. QED  BY <1>3, <2>1, ReinitDelegationBlank DEF SolventSoFar, Background
<1>4. CASE ClearHistory
  <2>1. pc' = "validators" /\ ex'.vals = Val
    BY <1>4 DEF ClearHistory, Background, IInv, TypeOK, ExportLocals
  <2>. QED  BY <2>1 DEF SolventSoFar, BlankSoFar
<1>5. CASE ResetEntries
  <2>1. pc' = "staking"
    BY <1>5 DEF ResetEntries
  <2>. QED  BY <1>5, <2>1, ResetEntriesSolvent, PaysSolvent
<1>6. CASE \E d \in Del, v \in Val : WithdrawRewards(d, v) \/ WithdrawRewardsPanics(d, v)
  <2>1. pc' \in {"rewards", "panicked"}
    BY <1>6 DEF WithdrawRewards, WithdrawRewardsPanics
  <2>. QED  BY <2>1 DEF SolventSoFar, BlankSoFar
<1>7. CASE \/ \E v \in Val : ResetValidator(v)
           \/ CloseIteratorFails \/ ResetSigningInfos
           \/ ApplyValidatorSetUpdates \/ ApplyValidatorSetUpdatesPanics
  <2>1. /\ dist' = dist /\ pc' \notin {"validators", "delegations"}
        /\ pc \notin {"rewards", "validators", "delegations", "panicked"}
    BY <1>7 DEF ResetValidator, NextValidator, CloseIteratorFails, ResetSigningInfos,
                ApplyValidatorSetUpdates, ApplyValidatorSetUpdatesPanics
  <2>. QED  BY <2>1, RecordsStaySolvent
<1>. QED  BY <1>1, <1>2, <1>3, <1>4, <1>5, <1>6, <1>7 DEF ExportStep

LEMMA NextSolvent ==
    ASSUME Background, Background', SolventSoFar, BlankSoFar, [Next]_vars
    PROVE  SolventSoFar' /\ BlankSoFar'
<1>1. CASE ChainStep
  BY <1>1, ChainSolvent
<1>2. CASE ExportStep
  BY <1>2, ExportSolvent
<1>3. CASE \E zero, apply \in BOOLEAN, allow \in SUBSET Val, fault \in Faults :
           BeginExport(zero, apply, allow, fault)
  <2>1. /\ dist' = dist /\ pc = "committed" /\ pc' \notin {"validators", "delegations"}
    BY <1>3 DEF BeginExport
  <2>. QED  BY <2>1, RecordsStaySolvent
<1>4. CASE Stopped \/ UNCHANGED vars
  BY <1>4, StayPut DEF Stopped, vars
<1>. QED  BY <1>1, <1>2, <1>3, <1>4 DEF Next

LEMMA InitSolvent == Init => SolventSoFar /\ BlankSoFar
<1>. SUFFICES ASSUME Init, NEW v \in Val PROVE Solvent(dist[v])
  BY DEF Init, SolventSoFar, BlankSoFar
<1>. DEFINE x == AfterValidatorCreated(NoRewards)
            stake == Stake * Unit
            z == AfterDelegationModified(IncrementValidatorPeriod(x, 0), v, stake, 0)
<1>1. NoRewards \in ValidatorRewards
  BY DEF NoRewards, ValidatorRewards, NoInfo, StartingInfo
<1>2. NoRewards.slashes = {} /\ \A p \in Periods : NoRewards.ref[p] = 0
  BY DEF NoRewards
<1>3. x \in ValidatorRewards /\ x.period = 1 /\ Good(x, {}) /\ x.slashes = {}
  BY <1>1, <1>2, CreatedGood
<1>4. x.cur = 0 /\ x.out = 0 /\ x.com = 0
  BY <1>1, CreatedFields
<1>5. Blank(x)
  BY <1>1, <1>2, CreatedBlank
<1>6. dist[v] = z
  BY DEF Init
<1>7. WellFormed(z)
  BY InitRecord
<1>8. Started(z) = {v} /\ z.slashes = {} /\ z.info[v].stake = stake
  BY InitStart
<1>9. z = AfterDelegationModified(IncrementValidatorPeriod(x, 0), v, stake, 0)
  OBVIOUS
<1>10. x.period < MaxPeriod /\ stake \in Nat /\ v \in Del
  <2>1. v \in Del /\ stake \in Nat
    BY ValAssumption, AmountAssumption, UnitAssumption
  <2>2. Cardinality(Del) \in Nat /\ Cardinality(Del) # 0
    BY <2>1, BoundAssumption, FS_CardinalityType, FS_EmptySet
  <2>. QED  BY <1>3, <2>1, <2>2, BoundAssumption, MaxPeriodAssumption
<1>. HIDE DEF x, stake, z
<1>11. Blank(z)
  BY <1>3, <1>4, <1>5, <1>9, <1>10, NewStartBlank
<1>12. z.out = 0 /\ z.com = 0 /\ z.cur = 0
  <2>. DEFINE i == [prev |-> x.period, stake |-> stake, height |-> 0]
  <2>. HIDE DEF i
  <2>1. Opened(x, Donated(x, 0), z)
    <3>1. {} \in SUBSET Del /\ 0 \in Int
      OBVIOUS
    <3>. QED  BY <1>3, <1>9, <1>10, <3>1, NewStartFields
  <2>. QED  BY <1>4, <2>1 DEF Opened, Donated
<1>. QED  BY <1>6, <1>7, <1>8, <1>10, <1>11, <1>12, BlankSolvent

LEMMA SolventAlways == Spec => [](Background /\ SolventSoFar)
<1>. DEFINE S == SolventSoFar /\ BlankSoFar
<1>1. Background /\ Background' /\ S /\ [Next]_vars => S'
  BY NextSolvent
<1>2. Init => S
  BY InitSolvent
<1>3. Spec => []Background
  <2>1. Spec => [](StartedInTime /\ SlashesInTime /\ StakesHold)
    BY HistoryAlways
  <2>. QED  BY <2>1, Invariant, FreshAlways, StakesAlwaysAdd, PTL DEF Background
<1>. HIDE DEF S
<1>4. Spec => []S
  BY <1>1, <1>2, <1>3, PTL DEF Spec
<1>. QED  BY <1>3, <1>4, PTL DEF S

(* What all delegators of v would be paid in the next block.                *)
LEMMA AllCovered ==
    ASSUME NEW x, WellFormed(x), Solvent(x), NEW tokens \in Nat, Stakes(x) <= tokens * Unit,
           NEW y, y = IncrementValidatorPeriod(x, tokens),
           NEW T, T = Started(x), NEW accrued, \A d \in T : Covered(accrued[d], y, d)
    PROVE  y.com + SumFunctionOnSet(accrued, T) <= y.out
<1>. DEFINE f == EarnedBy(y)
            e == [d \in T |-> Unit * accrued[d]]
            sum == SumFunctionOnSet(accrued, T)
<1>1. Solvent(y) /\ GoesOn(x, y, RatioOf(x, tokens))
  BY IncrementSolvent
<1>2. /\ y.com \in Nat /\ y.cur \in Nat
      /\ (y.com + y.cur) * Unit + Claims(y) <= y.out * Unit
  BY <1>1 DEF Solvent
<1>3. T \in SUBSET Del /\ IsFiniteSet(T) /\ IsFiniteSet(Del) /\ Started(y) = T
  BY <1>1, DelFinite, FS_Subset DEF Started, GoesOn
<1>4. ASSUME NEW d \in T PROVE Earned(y, d) \in Int
  <2>1. Earned(y, d) = Earned(x, d) + RatioOf(x, tokens) * Walk(x, d).stake
    BY <1>1 DEF GoesOn
  <2>2. Rising(x) /\ Walkers(x) /\ x.cur \in Nat
    BY DEF Solvent
  <2>3. Earned(x, d) \in Nat /\ Walk(x, d).stake \in Nat /\ RatioOf(x, tokens) \in Nat
    BY <2>2, EarnedNat, RatioNat
  <2>. QED  BY <2>1, <2>3
<1>5. \A d \in Del : f[d] = IF d \in T THEN Earned(y, d) ELSE 0
  BY <1>3 DEF EarnedBy
<1>6. Claims(y) = SumFunctionOnSet(f, T)
  <2>1. f = [d \in Del |-> IF d \in T THEN f[d] ELSE 0]
    BY <1>3, <1>5 DEF EarnedBy
  <2>2. \A d \in Del : f[d] \in Int
    BY <1>4, <1>5
  <2>3. Claims(y) = SumFunctionOnSet(f, Del)
    BY DEF Claims
  <2>. HIDE DEF f
  <2>4. SumFunctionOnSet(f, T) = SumFunctionOnSet([d \in Del |-> IF d \in T THEN f[d] ELSE 0], Del)
    BY <1>3, <2>2, SumWhere
  <2>. QED  BY <2>1, <2>3, <2>4
<1>7. Unit \in Nat \ {0} /\ Unit \in Int
  BY UnitAssumption
<1>8. \A d \in T : accrued[d] \in Int /\ accrued[d] * Unit <= Earned(y, d)
  BY DEF Covered
<1>9. \A d \in T : e[d] \in Int /\ f[d] \in Int /\ e[d] <= f[d]
  <2>. SUFFICES ASSUME NEW d \in T PROVE e[d] \in Int /\ f[d] \in Int /\ e[d] <= f[d]
    OBVIOUS
  <2>1. e[d] = Unit * accrued[d] /\ f[d] = Earned(y, d)
    BY <1>3, <1>5
  <2>. HIDE DEF e, f
  <2>. QED  BY <1>4, <1>7, <1>8, <2>1
<1>10. SumFunctionOnSet(e, T) <= SumFunctionOnSet(f, T)
  <2>. HIDE DEF e, f
  <2>. QED  BY <1>3, <1>9, SumLeq
<1>11. SumFunctionOnSet(e, T) = Unit * sum
  <2>1. \A d \in T : accrued[d] \in Int /\ e[d] = Unit * accrued[d]
    BY <1>8
  <2>. HIDE DEF e
  <2>. QED  BY <1>3, <1>7, <2>1, SumScale
<1>12. sum \in Int
  BY <1>3, <1>8, SumInt
<1>13. y.out \in Int
  <2>1. x \in ValidatorRewards /\ x.cur \in Nat
    BY DEF WellFormed, Solvent
  <2>2. x.out \in Int /\ Donated(x, tokens) \in Int /\ y.out = x.out - Donated(x, tokens)
    BY <2>1, IncrementFields DEF ValidatorRewards, Donated
  <2>. QED  BY <2>2
<1>. DEFINE claims == Claims(y)
            out == y.out
            com == y.com
            cur == y.cur
<1>14. (com + cur) * Unit + claims <= out * Unit /\ Unit * sum <= claims /\ claims \in Int
       /\ com \in Nat /\ cur \in Nat /\ out \in Int
  <2>1. claims \in Int
    <3>. HIDE DEF f
    <3>1. SumFunctionOnSet(f, T) \in Int
      BY <1>3, <1>9, SumInt
    <3>. QED  BY <1>6, <3>1
  <2>. QED  BY <1>2, <1>6, <1>10, <1>11, <1>13, <2>1
<1>. HIDE DEF claims, out, com, cur, sum, e, f
<1>15. (com + sum) * Unit <= out * Unit
  <2>1. com * Unit \in Int /\ cur * Unit \in Nat /\ sum * Unit \in Int /\ out * Unit \in Int
    BY <1>7, <1>12, <1>14
  <2>2. (com + cur) * Unit = com * Unit + cur * Unit /\ (com + sum) * Unit = com * Unit + sum * Unit
    BY <1>7, <1>12, <1>14
  <2>3. Unit * sum = sum * Unit
    BY <1>7, <1>12
  <2>. QED  BY <1>14, <2>1, <2>2, <2>3
<1>16. com + sum \in Int
  BY <1>12, <1>14
<1>17. com + sum <= out
  <2>. DEFINE t == com + sum
  <2>1. t \in Int /\ t * Unit <= out * Unit
    BY <1>15, <1>16
  <2>. HIDE DEF t
  <2>2. t <= out
    BY <1>7, <1>14, <2>1
  <2>. QED  BY <2>2 DEF t
<1>. QED  BY <1>17 DEF com, sum, out

(* What the delegations of v have earned when its period ends now.          *)
LEMMA AllEarning ==
    ASSUME NEW x, WellFormed(x), Solvent(x), NEW tokens \in Nat, Stakes(x) <= tokens * Unit,
           NEW y, y = IncrementValidatorPeriod(x, tokens), NEW d \in Started(x)
    PROVE  Earning(y, d)
<1>1. GoesOn(x, y, RatioOf(x, tokens))
  BY IncrementSolvent
<1>2. Rising(x) /\ Walkers(x) /\ x.cur \in Nat
  BY DEF Solvent
<1>3. /\ Gain(x, d) \in Nat /\ Walk(x, d).rewards \in Nat /\ Walk(x, d).stake \in Nat
      /\ RatioOf(x, tokens) \in Nat
  BY <1>2, EarnedNat, RatioNat
<1>4. Walk(y, d) = Walk(x, d) /\ Gain(y, d) = Gain(x, d) + RatioOf(x, tokens)
  BY <1>1 DEF GoesOn
<1>. QED  BY <1>3, <1>4 DEF Earning

(* In a running chain every validator's outstanding rewards suffice to pay  *)
(* its commission and, in the next block, all that its delegations have     *)
(* accrued: WithdrawDelegationRewards never meets the cut of its claim that *)
(* the keeper makes against rounding, whatever slashes and zero-height      *)
(* exports the chain has lived through.                                     *)
THEOREM EverybodyCanWithdraw == Spec => []CanWithdraw
<1>1. Background /\ SolventSoFar => CanWithdraw
  <2>. SUFFICES ASSUME Background, SolventSoFar, Running, NEW v \in Val
                PROVE  LET y == IncrementValidatorPeriod(dist[v], staking[v].tokens)
                           Delegators == {d \in Del : shares[v][d] # 0}
                           accrued == [d \in Delegators |->
                                          Accrued(y, y.info[d], height + 1, StakeOf(d, v))]
                       IN  y.com + SumFunctionOnSet(accrued, Delegators) <= y.out
    BY DEF CanWithdraw
  <2>. DEFINE x == dist[v]
              tokens == staking[v].tokens
              y == IncrementValidatorPeriod(x, tokens)
              Delegators == {d \in Del : shares[v][d] # 0}
              accrued == [d \in Delegators |->
                             Accrued(y, y.info[d], height + 1, StakeOf(d, v))]
  <2>1. Plain /\ WellFormed(x) /\ Solvent(x)
    <3>1. Plain
      BY DEF Running, Plain
    <3>2. WellFormed(x)
      BY <3>1 DEF Background, IInv, Records
    <3>3. Solvent(x)
      BY DEF Running, SolventSoFar
    <3>. QED  BY <3>1, <3>2, <3>3
  <2>2. Stakes(x) <= tokens * Unit /\ tokens \in Nat
    BY <2>1, FitOf
  <2>3. Delegators = Started(x)
    BY <2>1 DEF Background, IInv, SharesStarted, Started
  <2>4. ASSUME NEW d \in Delegators PROVE Covered(accrued[d], y, d)
    <3>. DEFINE i == y.info[d]
                stake == StakeOf(d, v)
                raw == Accrued(y, i, height + 1, stake)
    <3>1. d \in Started(x) /\ d \in Del
      BY <2>3
    <3>2. y.info = x.info /\ y.slashes = x.slashes
      BY <2>1, IncrementFields DEF WellFormed
    <3>3. SeesAll(y, i, height + 1)
      <4>1. SeenSlashes(x, x.info[d], height + 1) = SlashesSince(x, x.info[d])
        BY <3>1, AllSlashesSeen DEF Background
      <4>. QED  BY <3>2, <4>1 DEF SeesAll, SeenSlashes, SlashesSince
    <3>4. stake \in Nat
      BY <3>1, StakeOfNat DEF Background, IInv
    <3>5. Earning(y, d)
      <4>. HIDE DEF x, tokens
      <4>1. y = IncrementValidatorPeriod(x, tokens)
        OBVIOUS
      <4>. HIDE DEF y
      <4>. QED  BY <2>1, <2>2, <3>1, <4>1, AllEarning
    <3>6. accrued[d] = raw
      OBVIOUS
    <3>7. i = y.info[d] /\ raw = Accrued(y, i, height + 1, stake)
      OBVIOUS
    <3>. HIDE DEF i, stake, raw, y, accrued
    <3>8. Covered(raw, y, d)
      BY <3>3, <3>4, <3>5, <3>7, AccruedCovered
    <3>. QED  BY <3>6, <3>8
  <2>5. y = IncrementValidatorPeriod(x, tokens)
    OBVIOUS
  <2>. HIDE DEF accrued, y, x, tokens, Delegators
  <2>6. y.com + SumFunctionOnSet(accrued, Delegators) <= y.out
    BY <2>1, <2>2, <2>3, <2>4, <2>5, AllCovered
  <2>. QED  BY <2>6 DEF accrued, y, x, tokens, Delegators
<1>. QED  BY <1>1, SolventAlways, PTL
=============================================================================
