----------------------- MODULE ModuleAccounts_proofs ------------------------
(***************************************************************************)
(* Proofs about ModuleAccounts, for any users, funds, inflation, settings   *)
(* of the crisis module and bounds: the records of the modules agree with   *)
(* the coins of their accounts, and why modules panic.                      *)
(***************************************************************************)
EXTENDS ModuleAccounts, FiniteSetTheorems, TLAPS

(* The records of y are those of x: at most the balances differ.            *)
SameRecords(x, y) ==
    /\ y.bonded = x.bonded /\ y.notBonded = x.notBonded /\ y.unbonding = x.unbonding
    /\ y.outstanding = x.outstanding /\ y.pool = x.pool /\ y.deposits = x.deposits
    /\ y.gentxs = x.gentxs

LEMMA Accounts ==
    /\ ModuleAcc \subseteq Acct /\ User \subseteq Acct
    /\ BlockedAddresses = ModuleAcc \ {"gov"}
    /\ \A u \in User : u \notin ModuleAcc
BY UserAssumption DEF Acct, BlockedAddresses, maccPerms

LEMMA Permissions ==
    /\ "minter" \in maccPerms["mint"]
    /\ \A m \in {"bonded_tokens_pool", "not_bonded_tokens_pool"} :
          "burner" \in maccPerms[m] /\ "staking" \in maccPerms[m]
    /\ "burner" \in maccPerms["gov"]
BY DEF maccPerms, ModuleAcc

-----------------------------------------------------------------------------
(* The bank. *)

LEMMA RequireType ==
    ASSUME NEW x \in Records, NEW c \in BOOLEAN
    PROVE  /\ Require(x, c) \in Records
           /\ Require(x, c).bal = x.bal /\ SameRecords(x, Require(x, c))
           /\ Require(x, c).ok = (x.ok /\ c)
BY DEF Require, Records, SameRecords

LEMMA SendCoinsType ==
    ASSUME NEW x \in Records, NEW from \in Acct, NEW to \in Acct, NEW n \in Nat,
           x.bal[from] >= n
    PROVE  LET y == SendCoins(x, from, to, n)
           IN  /\ y \in Records /\ SameRecords(x, y) /\ y.ok = x.ok
               /\ \A a \in Acct :
                     y.bal[a] = IF from = to THEN x.bal[a]
                                ELSE IF a = from THEN x.bal[a] - n
                                ELSE IF a = to THEN x.bal[a] + n ELSE x.bal[a]
<1>. DEFINE p == [x.bal EXCEPT ![from] = @ - n]
            b == [p EXCEPT ![to] = @ + n]
<1>1. x.bal \in [Acct -> Nat] /\ p \in [Acct -> Nat]
  BY DEF Records
<1>2. /\ b \in [Acct -> Nat]
      /\ \A a \in Acct : b[a] = IF from = to THEN x.bal[a]
                                ELSE IF a = from THEN x.bal[a] - n
                                ELSE IF a = to THEN x.bal[a] + n ELSE x.bal[a]
  BY <1>1
<1>. HIDE DEF b
<1>3. SendCoins(x, from, to, n) = [x EXCEPT !.bal = b]
  BY DEF SendCoins, b
<1>. QED  BY <1>2, <1>3 DEF Records, SameRecords

LEMMA BurnCoinsType ==
    ASSUME NEW x \in Records, NEW m \in {"bonded_tokens_pool", "not_bonded_tokens_pool", "gov"},
           NEW n \in Nat, x.bal[m] >= n
    PROVE  LET y == BurnCoins(x, m, n)
           IN  /\ y \in Records /\ SameRecords(x, y) /\ y.ok = x.ok
               /\ \A a \in Acct : y.bal[a] = IF a = m THEN x.bal[a] - n ELSE x.bal[a]
<1>. DEFINE r == Require(x, "burner" \in maccPerms[m])
            b == [x.bal EXCEPT ![m] = @ - n]
<1>1. x.bal \in [Acct -> Nat] /\ m \in Acct
  BY Accounts DEF Records, ModuleAcc
<1>2. b \in [Acct -> Nat] /\ \A a \in Acct : b[a] = IF a = m THEN x.bal[a] - n ELSE x.bal[a]
  BY <1>1
<1>3. r \in Records /\ r.bal = x.bal /\ SameRecords(x, r) /\ r.ok = x.ok
  BY Permissions, RequireType DEF Records
<1>4. BurnCoins(x, m, n) = [r EXCEPT !.bal = [r.bal EXCEPT ![m] = @ - n]]
  BY DEF BurnCoins, Pays
<1>5. BurnCoins(x, m, n) = [r EXCEPT !.bal = b]
  BY <1>3, <1>4
<1>. HIDE DEF b, r
<1>. QED  BY <1>2, <1>3, <1>5 DEF Records, SameRecords

-----------------------------------------------------------------------------
(* The handlers.  Exact is what they all preserve; what they may do to gov  *)
(* is stated for each of them.                                              *)

Exact(x) == PoolsMatch(x) /\ DistributionMatches(x) /\ x.bal["mint"] = 0

(* gov's coins, the deposits and the state of the genesis.                  *)
GovKept(x, y) ==
    y.bal["gov"] = x.bal["gov"] /\ y.deposits = x.deposits /\ y.gentxs = x.gentxs

LEMMA Names ==
    {"fee_collector", "distribution", "mint", "bonded_tokens_pool",
     "not_bonded_tokens_pool", "gov", "escrow"} \subseteq Acct
BY DEF Acct, ModuleAcc

LEMMA MintCoinsType ==
    ASSUME NEW x \in Records, NEW n \in Nat
    PROVE  LET y == MintCoins(x, "mint", n)
           IN  /\ y \in Records /\ SameRecords(x, y) /\ y.ok = x.ok
               /\ \A a \in Acct : y.bal[a] = IF a = "mint" THEN x.bal[a] + n ELSE x.bal[a]
<1>. DEFINE r == Require(x, "minter" \in maccPerms["mint"])
            b == [x.bal EXCEPT !["mint"] = @ + n]
<1>1. x.bal \in [Acct -> Nat] /\ "mint" \in Acct
  BY Names DEF Records
<1>2. b \in [Acct -> Nat] /\ \A a \in Acct : b[a] = IF a = "mint" THEN x.bal[a] + n ELSE x.bal[a]
  BY <1>1
<1>3. r \in Records /\ r.bal = x.bal /\ SameRecords(x, r) /\ r.ok = x.ok
  BY Permissions, RequireType DEF Records
<1>4. MintCoins(x, "mint", n) = [r EXCEPT !.bal["mint"] = @ + n]
  BY DEF MintCoins
<1>5. MintCoins(x, "mint", n) = [r EXCEPT !.bal = b]
  BY <1>3, <1>4 DEF Records
<1>. HIDE DEF b, r
<1>. QED  BY <1>2, <1>3, <1>5 DEF Records, SameRecords

LEMMA MintBeginBlockType ==
    ASSUME NEW x \in Records, Exact(x)
    PROVE  LET y == MintBeginBlock(x)
           IN  /\ y \in Records /\ Exact(y) /\ SameRecords(x, y) /\ GovKept(x, y)
               /\ y.ok = x.ok
<1>. DEFINE m == MintCoins(x, "mint", Inflation)
            y == SendCoins(m, "mint", "fee_collector", Inflation)
<1>1. /\ m \in Records /\ SameRecords(x, m) /\ m.ok = x.ok
      /\ \A a \in Acct : m.bal[a] = IF a = "mint" THEN x.bal[a] + Inflation ELSE x.bal[a]
  BY MintCoinsType, AmountAssumption
<1>2. m.bal["mint"] = Inflation
  BY <1>1, Names, AmountAssumption DEF Exact
<1>. HIDE DEF m
<1>3. /\ y \in Records /\ SameRecords(m, y) /\ y.ok = m.ok
      /\ \A a \in Acct : y.bal[a] = IF a = "mint" THEN m.bal[a] - Inflation
                                    ELSE IF a = "fee_collector" THEN m.bal[a] + Inflation
                                    ELSE m.bal[a]
  BY <1>1, <1>2, Names, SendCoinsType, AmountAssumption
<1>4. MintBeginBlock(x) = y
  BY DEF MintBeginBlock, m
<1>. HIDE DEF y
<1>5. SameRecords(x, y)
  BY <1>1, <1>3 DEF SameRecords
<1>6. /\ y.bal["mint"] = 0
      /\ \A a \in Acct \ {"mint", "fee_collector"} : y.bal[a] = x.bal[a]
  BY <1>1, <1>2, <1>3, Names, AmountAssumption
<1>7. Exact(y) /\ GovKept(x, y)
  BY <1>5, <1>6, Names DEF Exact, PoolsMatch, DistributionMatches, SameRecords, GovKept
<1>. QED  BY <1>1, <1>3, <1>4, <1>5, <1>7

LEMMA DistrBeginBlockType ==
    ASSUME NEW x \in Records, Exact(x), NEW h \in Nat
    PROVE  LET y == DistrBeginBlock(x, h)
           IN  /\ y \in Records /\ Exact(y) /\ GovKept(x, y) /\ y.ok = x.ok
               /\ y.bonded = x.bonded /\ y.unbonding = x.unbonding
               /\ h > 1 => y.bal["fee_collector"] = 0
<1>1. CASE h <= 1
  BY <1>1 DEF DistrBeginBlock, GovKept
<1>2. CASE h > 1
  <2>. DEFINE fees == x.bal["fee_collector"]
              q == fees \div 2
              sent == SendCoins(x, "fee_collector", "distribution", fees)
              o == x.outstanding + fees - q
              p == x.pool + q
              t == [sent EXCEPT !.outstanding = o]
              y == [t EXCEPT !.pool = p]
  <2>1. fees \in Nat /\ q \in Nat /\ q <= fees
    <3>1. fees \in Nat
      BY Names DEF Records
    <3>. HIDE DEF fees
    <3>. QED  BY <3>1
  <2>2. /\ sent \in Records /\ SameRecords(x, sent) /\ sent.ok = x.ok
        /\ \A a \in Acct : sent.bal[a] = IF a = "fee_collector" THEN x.bal[a] - fees
                                         ELSE IF a = "distribution" THEN x.bal[a] + fees
                                         ELSE x.bal[a]
    <3>. HIDE DEF fees
    <3>. QED  BY <2>1, Names, SendCoinsType DEF fees
  <2>3. DistrBeginBlock(x, h) = y
    <3>1. ~(h <= 1)
      BY <1>2
    <3>2. DistrBeginBlock(x, h) =
             [sent EXCEPT !.outstanding = @ + fees - q, !.pool = @ + q]
      BY <3>1 DEF DistrBeginBlock
    <3>3. sent.outstanding = x.outstanding /\ sent.pool = x.pool
      BY <2>2 DEF SameRecords
    <3>. HIDE DEF sent, fees, q
    <3>. QED  BY <3>2, <3>3
  <2>4. o \in Nat /\ p \in Nat /\ o + p = x.outstanding + x.pool + fees
    <3>. HIDE DEF fees, q
    <3>. QED  BY <2>1 DEF Records
  <2>. HIDE DEF sent, o, p, fees, q
  <2>5. t \in Records /\ t.bal = sent.bal /\ t.ok = sent.ok /\ t.outstanding = o
        /\ t.bonded = sent.bonded /\ t.notBonded = sent.notBonded
        /\ t.unbonding = sent.unbonding /\ t.deposits = sent.deposits
        /\ t.gentxs = sent.gentxs
    BY <2>2, <2>4 DEF Records
  <2>. HIDE DEF t
  <2>6. y \in Records /\ y.bal = sent.bal /\ y.ok = sent.ok /\ y.outstanding = o /\ y.pool = p
        /\ y.bonded = sent.bonded /\ y.notBonded = sent.notBonded
        /\ y.unbonding = sent.unbonding /\ y.deposits = sent.deposits
        /\ y.gentxs = sent.gentxs
    BY <2>4, <2>5 DEF Records
  <2>. HIDE DEF y
  <2>7. x.bal["distribution"] \in Nat /\ x.bal["fee_collector"] = fees
    BY Names DEF Records, fees
  <2>8. DistributionMatches(y) /\ y.bal["fee_collector"] = 0
    BY <2>1, <2>2, <2>4, <2>6, <2>7, Names DEF Exact, DistributionMatches
  <2>9. PoolsMatch(y) /\ y.bal["mint"] = 0 /\ GovKept(x, y)
    BY <2>2, <2>6, Names DEF Exact, PoolsMatch, SameRecords, GovKept
  <2>. QED  BY <2>2, <2>3, <2>6, <2>8, <2>9 DEF Exact, SameRecords
<1>. QED  BY <1>1, <1>2

LEMMA SlashingBeginBlockType ==
    ASSUME NEW x \in Records, Exact(x), NEW b \in 0 .. x.bonded, NEW e \in 0 .. x.unbonding
    PROVE  LET y == SlashingBeginBlock(x, b, e)
           IN  /\ y \in Records /\ Exact(y) /\ GovKept(x, y) /\ y.ok = x.ok
               /\ y.bal["fee_collector"] = x.bal["fee_collector"]
<1>. DEFINE first == BurnCoins(x, "bonded_tokens_pool", b)
            burnt == BurnCoins(first, "not_bonded_tokens_pool", e)
            t == [burnt EXCEPT !.bonded = @ - b]
            y == [t EXCEPT !.unbonding = @ - e]
<1>0. /\ b \in Nat /\ e \in Nat /\ x.bonded - b \in Nat /\ x.unbonding - e \in Nat
      /\ x.notBonded \in Nat
      /\ x.bal["bonded_tokens_pool"] \in Nat /\ x.bal["not_bonded_tokens_pool"] \in Nat
  BY Names DEF Records
<1>1. /\ x.bal["bonded_tokens_pool"] >= b /\ x.bal["not_bonded_tokens_pool"] >= e
  BY <1>0 DEF Exact, PoolsMatch, Records
<1>2. /\ first \in Records /\ SameRecords(x, first) /\ first.ok = x.ok
      /\ \A a \in Acct : first.bal[a] = IF a = "bonded_tokens_pool" THEN x.bal[a] - b
                                        ELSE x.bal[a]
  BY <1>0, <1>1, BurnCoinsType
<1>. HIDE DEF first
<1>3. first.bal["not_bonded_tokens_pool"] >= e
  BY <1>1, <1>2, Names
<1>4. /\ burnt \in Records /\ SameRecords(first, burnt) /\ burnt.ok = first.ok
      /\ \A a \in Acct : burnt.bal[a] = IF a = "not_bonded_tokens_pool" THEN first.bal[a] - e
                                        ELSE first.bal[a]
  BY <1>0, <1>2, <1>3, BurnCoinsType
<1>5. SlashingBeginBlock(x, b, e) = y
  BY DEF SlashingBeginBlock, first
<1>. HIDE DEF burnt
<1>6. burnt.bonded = x.bonded /\ burnt.unbonding = x.unbonding
  BY <1>2, <1>4 DEF SameRecords
<1>7. /\ t \in Records /\ t.bal = burnt.bal /\ t.ok = burnt.ok /\ t.bonded = x.bonded - b
      /\ t.notBonded = burnt.notBonded /\ t.unbonding = burnt.unbonding
      /\ t.outstanding = burnt.outstanding /\ t.pool = burnt.pool
      /\ t.deposits = burnt.deposits /\ t.gentxs = burnt.gentxs
  BY <1>0, <1>4, <1>6 DEF Records
<1>. HIDE DEF t
<1>8. /\ y \in Records /\ y.bal = t.bal /\ y.ok = t.ok /\ y.unbonding = x.unbonding - e
      /\ y.notBonded = t.notBonded /\ y.bonded = t.bonded
      /\ y.outstanding = t.outstanding /\ y.pool = t.pool
      /\ y.deposits = t.deposits /\ y.gentxs = t.gentxs
  BY <1>0, <1>6, <1>7 DEF Records
<1>. HIDE DEF y
<1>9. PoolsMatch(y)
  BY <1>0, <1>2, <1>4, <1>7, <1>8, Names DEF Exact, PoolsMatch, SameRecords, Records
<1>10. DistributionMatches(y) /\ y.bal["mint"] = 0
  BY <1>2, <1>4, <1>7, <1>8, Names DEF Exact, DistributionMatches, SameRecords
<1>11. GovKept(x, y) /\ y.bal["fee_collector"] = x.bal["fee_collector"]
  BY <1>2, <1>4, <1>7, <1>8, Names DEF GovKept, SameRecords
<1>. QED  BY <1>2, <1>4, <1>5, <1>7, <1>8, <1>9, <1>10, <1>11 DEF Exact

(* No module panics at the start of a block, and from the second block on   *)
(* nothing is left in the fee collector.                                    *)
LEMMA BeginBlockerType ==
    ASSUME NEW x \in Records, Exact(x), NEW h \in Nat,
           NEW b \in 0 .. x.bonded, NEW e \in 0 .. x.unbonding
    PROVE  LET y == BeginBlocker(x, h, b, e)
           IN  /\ y \in Records /\ Exact(y) /\ GovKept(x, y) /\ y.ok = x.ok
               /\ h > 1 => y.bal["fee_collector"] = 0
<1>. DEFINE m == MintBeginBlock(x)
            d == DistrBeginBlock(m, h)
            y == SlashingBeginBlock(d, b, e)
<1>1. m \in Records /\ Exact(m) /\ SameRecords(x, m) /\ GovKept(x, m) /\ m.ok = x.ok
  BY MintBeginBlockType
<1>. HIDE DEF m
<1>2. /\ d \in Records /\ Exact(d) /\ GovKept(m, d) /\ d.ok = m.ok
      /\ d.bonded = m.bonded /\ d.unbonding = m.unbonding
      /\ h > 1 => d.bal["fee_collector"] = 0
  BY <1>1, DistrBeginBlockType
<1>. HIDE DEF d
<1>3. b \in 0 .. d.bonded /\ e \in 0 .. d.unbonding
  BY <1>1, <1>2 DEF SameRecords
<1>4. /\ y \in Records /\ Exact(y) /\ GovKept(d, y) /\ y.ok = d.ok
      /\ y.bal["fee_collector"] = d.bal["fee_collector"]
  BY <1>2, <1>3, SlashingBeginBlockType
<1>5. BeginBlocker(x, h, b, e) = y
  BY DEF BeginBlocker, m, d
<1>. HIDE DEF y
<1>. QED  BY <1>1, <1>2, <1>4, <1>5 DEF GovKept

(* The crisis module changes nothing, and halts the chain only over gov's   *)
(* account.                                                                 *)
LEMMA CrisisEndBlockType ==
    ASSUME NEW x \in Records, Exact(x), x.ok, NEW h \in Nat
    PROVE  LET y == CrisisEndBlock(x, h)
           IN  \/ y = x
               \/ y \in Records /\ ~y.ok /\ y.bal = x.bal /\ SameRecords(x, y)
                  /\ x.bal["gov"] < x.deposits
<1>1. x.bal["gov"] \in Nat /\ x.deposits \in Nat
  BY Names DEF Records
<1>2. CrisisEndBlock(x, h) = x \/ CrisisEndBlock(x, h) = Require(x, Invariants(x))
  BY Zenon DEF CrisisEndBlock
<1>3. CASE Invariants(x)
  <2>1. Require(x, Invariants(x)) = [x EXCEPT !.ok = TRUE]
    BY <1>3, Zenon DEF Require
  <2>2. [x EXCEPT !.ok = TRUE] = x
    BY DEF Records
  <2>. QED  BY <1>2, <2>1, <2>2
<1>4. CASE ~Invariants(x)
  <2>1. Require(x, Invariants(x)) = Require(x, FALSE)
    BY <1>4, Zenon DEF Require
  <2>2. x.bal["gov"] < x.deposits
    BY <1>1, <1>4 DEF Invariants, Exact
  <2>. DEFINE y == Require(x, FALSE)
  <2>3. y \in Records /\ y.bal = x.bal /\ SameRecords(x, y) /\ ~y.ok
    BY RequireType
  <2>4. CrisisEndBlock(x, h) = x \/ CrisisEndBlock(x, h) = y
    BY <1>2, <2>1
  <2>. HIDE DEF y
  <2>. QED  BY <2>2, <2>3, <2>4
<1>. QED  BY <1>3, <1>4

(* What the end of a block does to gov: the records of the other modules    *)
(* stay exact, and gov's surplus over the deposits shrinks by k at most.    *)
GovStep(x, y, k) ==
    /\ y \in Records /\ Exact(y) /\ y.ok = x.ok /\ y.gentxs = x.gentxs
    /\ y.bonded = x.bonded /\ y.notBonded = x.notBonded /\ y.unbonding = x.unbonding
    /\ y.bal["gov"] + k + x.deposits >= x.bal["gov"] + y.deposits

LEMMA GovIdle ==
    ASSUME NEW x \in Records, Exact(x)
    PROVE  GovStep(x, x, 0)
<1>1. x.bal["gov"] \in Nat /\ x.deposits \in Nat
  BY Names DEF Records
<1>. QED  BY <1>1 DEF GovStep

LEMMA DeleteAndBurnDepositsType ==
    ASSUME NEW x \in Records, Exact(x), NEW d \in 0 .. x.deposits
    PROVE  GovStep(x, DeleteAndBurnDeposits(x, d), 0)
<1>. DEFINE t == BurnCoins(x, "gov", d)
            y == [t EXCEPT !.deposits = @ - d]
<1>0. x.bal["gov"] \in Nat /\ x.deposits \in Nat /\ d \in Nat /\ x.deposits - d \in Nat
  BY Names DEF Records
<1>1. CASE x.bal["gov"] >= d
  <2>1. /\ t \in Records /\ SameRecords(x, t) /\ t.ok = x.ok
        /\ \A a \in Acct : t.bal[a] = IF a = "gov" THEN x.bal[a] - d ELSE x.bal[a]
    BY <1>0, <1>1, BurnCoinsType
  <2>2. DeleteAndBurnDeposits(x, d) = y
    BY <1>1 DEF DeleteAndBurnDeposits, Pays
  <2>. HIDE DEF t
  <2>3. t.deposits = x.deposits
    BY <2>1 DEF SameRecords
  <2>4. /\ y \in Records /\ y.bal = t.bal /\ y.ok = t.ok /\ y.deposits = x.deposits - d
        /\ y.bonded = t.bonded /\ y.notBonded = t.notBonded /\ y.unbonding = t.unbonding
        /\ y.outstanding = t.outstanding /\ y.pool = t.pool /\ y.gentxs = t.gentxs
    BY <1>0, <2>1, <2>3 DEF Records
  <2>. HIDE DEF y
  <2>5. Exact(y)
    BY <2>1, <2>4, Names DEF Exact, PoolsMatch, DistributionMatches, SameRecords
  <2>6. y.bal["gov"] = x.bal["gov"] - d
    BY <2>1, <2>4, Names
  <2>. QED  BY <1>0, <2>1, <2>2, <2>4, <2>5, <2>6 DEF GovStep, SameRecords
<1>2. CASE ~(x.bal["gov"] >= d)
  BY <1>2, GovIdle DEF DeleteAndBurnDeposits, Pays
<1>. QED  BY <1>1, <1>2

LEMMA RefundAndDeleteDepositsType ==
    ASSUME NEW x \in Records, Exact(x), NEW d \in 0 .. x.deposits, NEW u \in User
    PROVE  GovStep(x, RefundAndDeleteDeposits(x, d, u), 0)
<1>. DEFINE t == SendCoins(x, "gov", u, d)
            y == [t EXCEPT !.deposits = @ - d]
<1>0. /\ x.bal["gov"] \in Nat /\ x.deposits \in Nat /\ d \in Nat /\ x.deposits - d \in Nat
      /\ u \in Acct /\ u \notin ModuleAcc
  BY Names, Accounts DEF Records
<1>1. CASE x.bal["gov"] >= d
  <2>1. /\ t \in Records /\ SameRecords(x, t) /\ t.ok = x.ok
        /\ \A a \in Acct : t.bal[a] = IF a = "gov" THEN x.bal[a] - d
                                      ELSE IF a = u THEN x.bal[a] + d ELSE x.bal[a]
    <3>1. u # "gov"
      BY <1>0 DEF ModuleAcc
    <3>. QED  BY <1>0, <1>1, <3>1, Names, SendCoinsType
  <2>2. RefundAndDeleteDeposits(x, d, u) = y
    BY <1>1 DEF RefundAndDeleteDeposits, Pays
  <2>. HIDE DEF t
  <2>3. t.deposits = x.deposits
    BY <2>1 DEF SameRecords
  <2>4. /\ y \in Records /\ y.bal = t.bal /\ y.ok = t.ok /\ y.deposits = x.deposits - d
        /\ y.bonded = t.bonded /\ y.notBonded = t.notBonded /\ y.unbonding = t.unbonding
        /\ y.outstanding = t.outstanding /\ y.pool = t.pool /\ y.gentxs = t.gentxs
    BY <1>0, <2>1, <2>3 DEF Records
  <2>. HIDE DEF y
  <2>5. /\ \A a \in ModuleAcc \ {"gov"} : y.bal[a] = x.bal[a]
        /\ y.bal["gov"] = x.bal["gov"] - d
    BY <1>0, <2>1, <2>4, Names, Accounts
  <2>6. Exact(y)
    BY <2>1, <2>4, <2>5 DEF Exact, PoolsMatch, DistributionMatches, SameRecords, ModuleAcc
  <2>. QED  BY <1>0, <2>1, <2>2, <2>4, <2>5, <2>6 DEF GovStep, SameRecords
<1>2. CASE ~(x.bal["gov"] >= d)
  BY <1>2, GovIdle DEF RefundAndDeleteDeposits, Pays
<1>. QED  BY <1>1, <1>2

(* What a proposal's message takes from gov's account.                      *)
Taken(x, msg, r) == IF SendsFromGov(x, msg, r) THEN 1 ELSE 0

LEMMA ExecuteProposalType ==
    ASSUME NEW x \in Records, Exact(x), NEW msg, NEW r \in Acct
    PROVE  GovStep(x, ExecuteProposal(x, msg, r), Taken(x, msg, r))
<1>0. /\ x.bal["gov"] \in Nat /\ x.bal["distribution"] \in Nat /\ x.deposits \in Nat
      /\ x.pool \in Nat /\ x.outstanding \in Nat
  BY Names DEF Records
<1>1. CASE msg = "spend" /\ r \notin BlockedAddresses /\ x.pool >= 1
  <2>. DEFINE t == SendCoins(x, "distribution", r, 1)
              y == [t EXCEPT !.pool = @ - 1]
  <2>1. x.bal["distribution"] >= 1 /\ r \notin ModuleAcc \ {"gov"} /\ x.pool - 1 \in Nat
    BY <1>0, <1>1, Accounts DEF Exact, DistributionMatches
  <2>2. /\ t \in Records /\ SameRecords(x, t) /\ t.ok = x.ok
        /\ \A a \in Acct : t.bal[a] = IF a = "distribution" THEN x.bal[a] - 1
                                      ELSE IF a = r THEN x.bal[a] + 1 ELSE x.bal[a]
    <3>1. r # "distribution"
      BY <2>1 DEF ModuleAcc
    <3>. QED  BY <2>1, <3>1, Names, SendCoinsType
  <2>3. ExecuteProposal(x, msg, r) = y /\ Taken(x, msg, r) = 0
    BY <1>1 DEF ExecuteProposal, Taken, SendsFromGov
  <2>. HIDE DEF t
  <2>4. t.pool = x.pool
    BY <2>2 DEF SameRecords
  <2>5. /\ y \in Records /\ y.bal = t.bal /\ y.ok = t.ok /\ y.pool = x.pool - 1
        /\ y.bonded = t.bonded /\ y.notBonded = t.notBonded /\ y.unbonding = t.unbonding
        /\ y.outstanding = t.outstanding /\ y.deposits = t.deposits /\ y.gentxs = t.gentxs
    BY <2>1, <2>2, <2>4 DEF Records
  <2>. HIDE DEF y
  <2>6. /\ \A a \in ModuleAcc \ {"gov", "distribution"} : y.bal[a] = x.bal[a]
        /\ y.bal["distribution"] = x.bal["distribution"] - 1
        /\ y.bal["gov"] >= x.bal["gov"]
    BY <1>0, <2>1, <2>2, <2>5, Names, Accounts
  <2>7. Exact(y)
    BY <1>0, <2>2, <2>5, <2>6 DEF Exact, PoolsMatch, DistributionMatches, SameRecords, ModuleAcc
  <2>8. y.bal["gov"] \in Nat /\ y.deposits = x.deposits
    BY <2>2, <2>5, Names DEF Records, SameRecords
  <2>. QED  BY <1>0, <2>2, <2>3, <2>5, <2>6, <2>7, <2>8 DEF GovStep, SameRecords
<1>2. CASE SendsFromGov(x, msg, r)
  <2>. DEFINE y == SendCoins(x, "gov", r, 1)
  <2>1. msg = "send" /\ x.bal["gov"] >= 1 /\ r \notin ModuleAcc \ {"gov"}
    BY <1>2, Accounts DEF SendsFromGov, Pays
  <2>2. /\ y \in Records /\ SameRecords(x, y) /\ y.ok = x.ok
        /\ \A a \in Acct : y.bal[a] = IF "gov" = r THEN x.bal[a]
                                      ELSE IF a = "gov" THEN x.bal[a] - 1
                                      ELSE IF a = r THEN x.bal[a] + 1 ELSE x.bal[a]
    BY <2>1, Names, SendCoinsType
  <2>3. ExecuteProposal(x, msg, r) = y /\ Taken(x, msg, r) = 1
    BY <1>2, <2>1 DEF ExecuteProposal, Taken
  <2>. HIDE DEF y
  <2>4. /\ \A a \in ModuleAcc \ {"gov"} : y.bal[a] = x.bal[a]
        /\ y.bal["gov"] + 1 >= x.bal["gov"]
    BY <1>0, <2>1, <2>2, Names, Accounts
  <2>5. Exact(y)
    BY <2>2, <2>4 DEF Exact, PoolsMatch, DistributionMatches, SameRecords, ModuleAcc
  <2>6. y.bal["gov"] \in Nat
    BY <2>2, Names DEF Records
  <2>. QED  BY <1>0, <2>2, <2>3, <2>4, <2>5, <2>6 DEF GovStep, SameRecords
<1>3. CASE ExecuteProposal(x, msg, r) = x /\ ~SendsFromGov(x, msg, r)
  BY <1>3, GovIdle DEF Taken
<1>. QED  BY <1>1, <1>2, <1>3 DEF ExecuteProposal

(* The coin that the proposal g takes from gov's account, its deposits      *)
(* being refunded first.                                                    *)
Sent(x, g) ==
    g.outcome = "passed" /\ SendsFromGov(RefundAndDeleteDeposits(x, g.deposit, g.by), g.msg, g.to)

LEMMA GovEndBlockType ==
    ASSUME NEW x \in Records, Exact(x), NEW g \in Ending, x.deposits = s.deposits
    PROVE  GovStep(x, GovEndBlock(x, g), IF Sent(x, g) THEN 1 ELSE 0)
<1>1. /\ g.outcome \in {"none", "burn", "refund", "passed"}
      /\ g.deposit \in 0 .. x.deposits /\ g.by \in User
      /\ g.to \in Acct
  BY Names DEF Ending
<1>2. CASE g.outcome = "none"
  BY <1>2, GovIdle DEF GovEndBlock, Sent
<1>3. CASE g.outcome = "burn"
  BY <1>1, <1>3, DeleteAndBurnDepositsType DEF GovEndBlock, Sent
<1>4. CASE g.outcome = "refund"
  BY <1>1, <1>4, RefundAndDeleteDepositsType DEF GovEndBlock, Sent
<1>5. CASE g.outcome = "passed"
  <2>. DEFINE r == RefundAndDeleteDeposits(x, g.deposit, g.by)
              k == Taken(r, g.msg, g.to)
              y == ExecuteProposal(r, g.msg, g.to)
  <2>1. GovStep(x, r, 0)
    BY <1>1, RefundAndDeleteDepositsType
  <2>2. GovEndBlock(x, g) = y
    BY <1>5 DEF GovEndBlock
  <2>3. k = IF Sent(x, g) THEN 1 ELSE 0
    BY <1>5 DEF Taken, Sent
  <2>. HIDE DEF r
  <2>4. GovStep(r, y, k)
    BY <1>1, <2>1, ExecuteProposalType DEF GovStep
  <2>5. k \in Nat
    BY <2>3
  <2>. HIDE DEF y, k
  <2>6. /\ r \in Records /\ y \in Records
        /\ \A z \in {x, r, y} : z.bal["gov"] \in Nat /\ z.deposits \in Nat
    BY <2>1, <2>4, Names DEF Records, GovStep
  <2>7. y.bal["gov"] + k + x.deposits >= x.bal["gov"] + y.deposits
    BY <2>1, <2>4, <2>5, <2>6 DEF GovStep
  <2>8. GovStep(x, y, k)
    BY <2>1, <2>4, <2>7 DEF GovStep
  <2>. QED  BY <2>2, <2>3, <2>8
<1>. QED  BY <1>1, <1>2, <1>3, <1>4, <1>5

LEMMA StakingEndBlockType ==
    ASSUME NEW x \in Records, Exact(x), NEW change \in {"leave", "enter", "mature"},
           NEW n \in 0 .. Changeable(x, change), NEW u \in User
    PROVE  LET y == StakingEndBlock(x, change, n, u)
           IN  /\ y \in Records /\ Exact(y) /\ GovKept(x, y) /\ y.ok = x.ok
               /\ change = "enter" => y.bonded = x.bonded + n
<1>0. /\ x.bal["bonded_tokens_pool"] \in Nat /\ x.bal["not_bonded_tokens_pool"] \in Nat
      /\ x.bonded \in Nat /\ x.notBonded \in Nat /\ x.unbonding \in Nat
      /\ x.bal["bonded_tokens_pool"] = x.bonded
      /\ x.bal["not_bonded_tokens_pool"] = x.notBonded + x.unbonding
      /\ u \in Acct /\ u \notin ModuleAcc
  BY Names, Accounts DEF Records, Exact, PoolsMatch
<1>1. CASE change = "leave"
  <2>. DEFINE t == SendCoins(x, "bonded_tokens_pool", "not_bonded_tokens_pool", n)
              v == [t EXCEPT !.bonded = @ - n]
              y == [v EXCEPT !.notBonded = @ + n]
  <2>1. n \in Nat /\ n <= x.bonded
    BY <1>0, <1>1 DEF Changeable
  <2>2. /\ t \in Records /\ SameRecords(x, t) /\ t.ok = x.ok
        /\ \A a \in Acct : t.bal[a] = IF a = "bonded_tokens_pool" THEN x.bal[a] - n
                                      ELSE IF a = "not_bonded_tokens_pool" THEN x.bal[a] + n
                                      ELSE x.bal[a]
    BY <1>0, <2>1, Names, SendCoinsType
  <2>3. StakingEndBlock(x, change, n, u) = y
    BY <1>1 DEF StakingEndBlock
  <2>. HIDE DEF t
  <2>4. /\ v \in Records /\ v.bal = t.bal /\ v.ok = t.ok /\ v.bonded = x.bonded - n
        /\ v.notBonded = t.notBonded /\ v.unbonding = t.unbonding
        /\ v.outstanding = t.outstanding /\ v.pool = t.pool
        /\ v.deposits = t.deposits /\ v.gentxs = t.gentxs
    BY <1>0, <2>1, <2>2 DEF Records, SameRecords
  <2>. HIDE DEF v
  <2>5. /\ y \in Records /\ y.bal = v.bal /\ y.ok = v.ok /\ y.notBonded = x.notBonded + n
        /\ y.bonded = v.bonded /\ y.unbonding = v.unbonding
        /\ y.outstanding = v.outstanding /\ y.pool = v.pool
        /\ y.deposits = v.deposits /\ y.gentxs = v.gentxs
    BY <1>0, <2>1, <2>2, <2>4 DEF Records, SameRecords
  <2>. HIDE DEF y
  <2>6. PoolsMatch(y)
    BY <1>0, <2>1, <2>2, <2>4, <2>5, Names DEF PoolsMatch, SameRecords
  <2>. QED  BY <1>1, <2>2, <2>3, <2>4, <2>5, <2>6, Names
            DEF Exact, DistributionMatches, GovKept, SameRecords
<1>2. CASE change = "enter"
  <2>. DEFINE t == SendCoins(x, "not_bonded_tokens_pool", "bonded_tokens_pool", n)
              v == [t EXCEPT !.bonded = @ + n]
              y == [v EXCEPT !.notBonded = @ - n]
  <2>1. n \in Nat /\ n <= x.notBonded
    BY <1>0, <1>2 DEF Changeable
  <2>2. /\ t \in Records /\ SameRecords(x, t) /\ t.ok = x.ok
        /\ \A a \in Acct : t.bal[a] = IF a = "not_bonded_tokens_pool" THEN x.bal[a] - n
                                      ELSE IF a = "bonded_tokens_pool" THEN x.bal[a] + n
                                      ELSE x.bal[a]
    BY <1>0, <2>1, Names, SendCoinsType
  <2>3. StakingEndBlock(x, change, n, u) = y
    BY <1>2 DEF StakingEndBlock
  <2>. HIDE DEF t
  <2>4. /\ v \in Records /\ v.bal = t.bal /\ v.ok = t.ok /\ v.bonded = x.bonded + n
        /\ v.notBonded = t.notBonded /\ v.unbonding = t.unbonding
        /\ v.outstanding = t.outstanding /\ v.pool = t.pool
        /\ v.deposits = t.deposits /\ v.gentxs = t.gentxs
    BY <1>0, <2>1, <2>2 DEF Records, SameRecords
  <2>. HIDE DEF v
  <2>5. /\ y \in Records /\ y.bal = v.bal /\ y.ok = v.ok /\ y.notBonded = x.notBonded - n
        /\ y.bonded = v.bonded /\ y.unbonding = v.unbonding
        /\ y.outstanding = v.outstanding /\ y.pool = v.pool
        /\ y.deposits = v.deposits /\ y.gentxs = v.gentxs
    BY <1>0, <2>1, <2>2, <2>4 DEF Records, SameRecords
  <2>. HIDE DEF y
  <2>6. PoolsMatch(y)
    BY <1>0, <2>1, <2>2, <2>4, <2>5, Names DEF PoolsMatch, SameRecords
  <2>. QED  BY <1>2, <2>2, <2>3, <2>4, <2>5, <2>6, Names
            DEF Exact, DistributionMatches, GovKept, SameRecords
<1>3. CASE change = "mature"
  <2>. DEFINE c == "staking" \in maccPerms["not_bonded_tokens_pool"]
                   /\ Pays(x, "not_bonded_tokens_pool", n)
              r == Require(x, c)
              t == SendCoins(r, "not_bonded_tokens_pool", u, n)
              y == [t EXCEPT !.unbonding = @ - n]
  <2>1. n \in Nat /\ n <= x.unbonding /\ x.unbonding - n \in Nat
    BY <1>0, <1>3 DEF Changeable
  <2>2. c
    BY <1>0, <2>1, Permissions DEF Pays
  <2>3. StakingEndBlock(x, change, n, u) = y
    BY <1>3 DEF StakingEndBlock, UndelegateCoins
  <2>. HIDE DEF c
  <2>4. r \in Records /\ r.bal = x.bal /\ SameRecords(x, r) /\ r.ok = x.ok
    BY <2>2, RequireType DEF Records
  <2>. HIDE DEF r
  <2>5. /\ t \in Records /\ SameRecords(r, t) /\ t.ok = r.ok
        /\ \A a \in Acct : t.bal[a] = IF a = "not_bonded_tokens_pool" THEN r.bal[a] - n
                                      ELSE IF a = u THEN r.bal[a] + n ELSE r.bal[a]
    <3>1. u # "not_bonded_tokens_pool"
      BY <1>0 DEF ModuleAcc
    <3>2. r.bal["not_bonded_tokens_pool"] >= n
      BY <1>0, <2>1, <2>4
    <3>3. u \in Acct /\ "not_bonded_tokens_pool" \in Acct /\ n \in Nat
      BY <1>0, <2>1, Names
    <3>. QED  BY <2>4, <3>1, <3>2, <3>3, SendCoinsType
  <2>. HIDE DEF t
  <2>6. t.unbonding = x.unbonding
    BY <2>4, <2>5 DEF SameRecords
  <2>7. /\ y \in Records /\ y.bal = t.bal /\ y.ok = t.ok /\ y.unbonding = x.unbonding - n
        /\ y.bonded = t.bonded /\ y.notBonded = t.notBonded
        /\ y.outstanding = t.outstanding /\ y.pool = t.pool
        /\ y.deposits = t.deposits /\ y.gentxs = t.gentxs
    BY <2>1, <2>5, <2>6 DEF Records
  <2>. HIDE DEF y
  <2>8. /\ \A a \in ModuleAcc \ {"not_bonded_tokens_pool"} : y.bal[a] = x.bal[a]
        /\ y.bal["not_bonded_tokens_pool"] = x.bal["not_bonded_tokens_pool"] - n
    BY <1>0, <2>4, <2>5, <2>7, Names, Accounts
  <2>9. PoolsMatch(y)
    BY <1>0, <2>1, <2>4, <2>5, <2>7, <2>8 DEF PoolsMatch, SameRecords, ModuleAcc
  <2>. QED  BY <1>3, <2>3, <2>4, <2>5, <2>7, <2>8, <2>9
            DEF Exact, DistributionMatches, GovKept, SameRecords, ModuleAcc
<1>. QED  BY <1>1, <1>2, <1>3

(* The end of a block: the crisis module halts the chain, or the records    *)
(* stay exact.                                                              *)
LEMMA EndBlockerType ==
    ASSUME NEW x \in Records, x = s, Exact(x), x.ok, NEW h \in Nat, NEW g \in Ending,
           NEW change \in {"leave", "enter", "mature"}, NEW n \in 0 .. Changeable(x, change),
           NEW u \in User
    PROVE  LET y == EndBlocker(x, h, g, change, n, u)
               k == IF Sent(x, g) THEN 1 ELSE 0
           IN  \/ ~y.ok /\ x.bal["gov"] < x.deposits
               \/ /\ y \in Records /\ Exact(y) /\ y.ok /\ y.gentxs = x.gentxs
                  /\ y.bal["gov"] + k + x.deposits >= x.bal["gov"] + y.deposits
<1>. DEFINE c == CrisisEndBlock(x, h)
            v == GovEndBlock(c, g)
            y == StakingEndBlock(v, change, n, u)
            k(z) == IF Sent(z, g) THEN 1 ELSE 0
<1>1. \/ c = x
      \/ c \in Records /\ ~c.ok /\ c.bal = x.bal /\ SameRecords(x, c)
         /\ x.bal["gov"] < x.deposits
  BY CrisisEndBlockType
<1>2. EndBlocker(x, h, g, change, n, u) = y
  BY DEF EndBlocker
<1>. HIDE DEF c
<1>3. /\ c \in Records /\ Exact(c) /\ c.deposits = x.deposits /\ c.bal = x.bal
      /\ c.gentxs = x.gentxs
      /\ c.bonded = x.bonded /\ c.notBonded = x.notBonded /\ c.unbonding = x.unbonding
  BY <1>1 DEF SameRecords, Exact, PoolsMatch, DistributionMatches
<1>4. GovStep(c, v, k(c))
  BY <1>3, GovEndBlockType
<1>. HIDE DEF v
<1>5. n \in 0 .. Changeable(v, change)
  BY <1>3, <1>4 DEF Changeable, GovStep
<1>6. y \in Records /\ Exact(y) /\ GovKept(v, y) /\ y.ok = v.ok
  BY <1>4, <1>5, StakingEndBlockType DEF GovStep
<1>. HIDE DEF y, k
<1>7. CASE c = x
  BY <1>2, <1>4, <1>6, <1>7 DEF GovStep, GovKept, k
<1>8. CASE ~c.ok /\ x.bal["gov"] < x.deposits
  BY <1>2, <1>4, <1>6, <1>8 DEF GovStep
<1>. QED  BY <1>1, <1>7, <1>8

-----------------------------------------------------------------------------
(* The genesis. *)

(* A genesis with gentxs is the first one: nobody but users has coins.      *)
FirstGenesis(x) ==
    /\ x.bonded = 0 /\ x.notBonded = 0 /\ x.unbonding = 0 /\ x.deposits = 0
    /\ \A u \in User : x.bal[u] = Funds
    /\ x.bal["gov"] = 0

(* The gentxs create validators, whom the update bonds.                     *)
LEMMA GenutilInitGenesisType ==
    ASSUME NEW x \in Records, Exact(x), x.gentxs => FirstGenesis(x)
    PROVE  LET y == GenutilInitGenesis(x)
           IN  /\ y \in Records /\ Exact(y) /\ y.ok = x.ok /\ ~y.gentxs
               /\ y.bal["gov"] = x.bal["gov"] /\ y.deposits = x.deposits
               /\ y.bonded > 0 <=> (x.gentxs \/ x.bonded > 0)
<1>1. CASE ~x.gentxs
  BY <1>1 DEF GenutilInitGenesis, Records
<1>2. CASE x.gentxs
  <2>. DEFINE k == Cardinality(User)
              r == Require(x, "staking" \in maccPerms["not_bonded_tokens_pool"])
              b == [a \in Acct |-> IF a \in User THEN x.bal[a] - 1
                                   ELSE IF a = "not_bonded_tokens_pool" THEN x.bal[a] + k
                                   ELSE x.bal[a]]
              t == [r EXCEPT !.bal = b]
              created == [t EXCEPT !.notBonded = @ + k]
              w == CHOOSE u \in User : TRUE
              v == StakingEndBlock(created, "enter", k, w)
              y == [v EXCEPT !.gentxs = FALSE]
  <2>1. k \in Nat /\ k > 0 /\ w \in User
    <3>1. k \in Nat /\ k # 0
      BY UserAssumption, FS_CardinalityType, FS_EmptySet
    <3>2. w \in User
      BY UserAssumption
    <3>. HIDE DEF k, w
    <3>. QED  BY <3>1, <3>2
  <2>2. GenutilInitGenesis(x) = y
    BY <1>2 DEF GenutilInitGenesis
  <2>3. r \in Records /\ r.bal = x.bal /\ SameRecords(x, r) /\ r.ok = x.ok
    BY Permissions, RequireType DEF Records
  <2>. HIDE DEF k, r, w
  <2>4. /\ b \in [Acct -> Nat]
        /\ \A a \in ModuleAcc \ {"not_bonded_tokens_pool"} : b[a] = x.bal[a]
        /\ b["not_bonded_tokens_pool"] = x.bal["not_bonded_tokens_pool"] + k
    <3>1. \A a \in Acct : x.bal[a] \in Nat /\ (a \in User => x.bal[a] - 1 \in Nat)
      BY <1>2, AmountAssumption DEF FirstGenesis, Records
    <3>2. ModuleAcc \subseteq Acct /\ "not_bonded_tokens_pool" \in ModuleAcc
          /\ \A a \in ModuleAcc : a \notin User
      BY Accounts DEF ModuleAcc
    <3>. QED  BY <2>1, <3>1, <3>2
  <2>. HIDE DEF b
  <2>5. /\ t \in Records /\ t.bal = b /\ t.ok = x.ok /\ t.gentxs = x.gentxs
        /\ t.bonded = 0 /\ t.notBonded = 0 /\ t.unbonding = 0 /\ t.deposits = x.deposits
        /\ t.outstanding = x.outstanding /\ t.pool = x.pool
    BY <1>2, <2>3, <2>4 DEF Records, SameRecords, FirstGenesis
  <2>. HIDE DEF t
  <2>6. /\ created \in Records /\ created.bal = b /\ created.ok = x.ok
        /\ created.bonded = 0 /\ created.notBonded = k /\ created.unbonding = 0
        /\ created.deposits = x.deposits
        /\ created.outstanding = x.outstanding /\ created.pool = x.pool
    BY <2>1, <2>5 DEF Records
  <2>. HIDE DEF created
  <2>7. Exact(created)
    <3>1. x.bal["not_bonded_tokens_pool"] = 0 /\ x.bal["bonded_tokens_pool"] = 0
      BY <1>2 DEF Exact, PoolsMatch, FirstGenesis
    <3>. QED  BY <2>1, <2>4, <2>6, <3>1 DEF Exact, PoolsMatch, DistributionMatches, ModuleAcc
  <2>8. k \in 0 .. Changeable(created, "enter")
    BY <2>1, <2>6 DEF Changeable
  <2>9. /\ v \in Records /\ Exact(v) /\ GovKept(created, v) /\ v.ok = created.ok
        /\ v.bonded = created.bonded + k
    BY <2>1, <2>6, <2>7, <2>8, StakingEndBlockType
  <2>. HIDE DEF v
  <2>10. /\ y \in Records /\ y.bal = v.bal /\ y.ok = v.ok /\ ~y.gentxs
         /\ y.bonded = v.bonded /\ y.notBonded = v.notBonded /\ y.unbonding = v.unbonding
         /\ y.outstanding = v.outstanding /\ y.pool = v.pool /\ y.deposits = v.deposits
    BY <2>9 DEF Records
  <2>. HIDE DEF y
  <2>11. Exact(y)
    BY <2>9, <2>10 DEF Exact, PoolsMatch, DistributionMatches
  <2>12. y.bal["gov"] = x.bal["gov"] /\ y.deposits = x.deposits
    BY <2>4, <2>6, <2>9, <2>10 DEF GovKept, ModuleAcc
  <2>. QED  BY <1>2, <2>1, <2>2, <2>6, <2>9, <2>10, <2>11, <2>12
<1>. QED  BY <1>1, <1>2

(* A genesis makes a module panic only over gov's account, or because       *)
(* nobody is bonded.                                                        *)
LEMMA InitGenesisType ==
    ASSUME NEW x \in Records, Exact(x), x.ok, x.gentxs => FirstGenesis(x)
    PROVE  LET y == InitGenesis(x)
           IN  \/ ~y.ok /\ (x.bal["gov"] # x.deposits \/ (x.bonded = 0 /\ ~x.gentxs))
               \/ /\ y \in Records /\ Exact(y) /\ y.ok /\ ~y.gentxs
                  /\ y.bal["gov"] = x.bal["gov"] /\ y.deposits = x.deposits
<1>. DEFINE c1 == DistributionMatches(x)
            distr == Require(x, c1)
            c2 == PoolsMatch(x)
            staking == Require(distr, c2)
            c3 == (x.bal["gov"] = x.deposits)
            gov == Require(staking, c3)
            c4 == (SkipGenesisInvariants \/ Invariants(x))
            crisis == Require(gov, c4)
            genutil == GenutilInitGenesis(crisis)
            c5 == (genutil.bonded > 0)
            y == Require(genutil, c5)
<1>1. InitGenesis(x) = y
  BY Zenon DEF InitGenesis
<1>2. c1 /\ c1 \in BOOLEAN
  BY DEF Exact, DistributionMatches
<1>. HIDE DEF c1
<1>3. distr \in Records /\ distr.bal = x.bal /\ SameRecords(x, distr) /\ distr.ok
  BY <1>2, RequireType
<1>. HIDE DEF distr
<1>4. c2 /\ c2 \in BOOLEAN
  BY DEF Exact, PoolsMatch
<1>. HIDE DEF c2
<1>5. staking \in Records /\ staking.bal = x.bal /\ SameRecords(x, staking) /\ staking.ok
  BY <1>3, <1>4, RequireType DEF SameRecords
<1>. HIDE DEF staking
<1>6. c3 \in BOOLEAN /\ (c3 <=> x.bal["gov"] = x.deposits)
  OBVIOUS
<1>. HIDE DEF c3
<1>7. gov \in Records /\ gov.bal = x.bal /\ SameRecords(x, gov) /\ gov.ok = c3
  BY <1>5, <1>6, RequireType DEF SameRecords
<1>. HIDE DEF gov
<1>8. c4 \in BOOLEAN /\ (c3 => c4)
  <2>1. c4 \in BOOLEAN
    BY BoundAssumption DEF Invariants, PoolsMatch
  <2>2. ASSUME c3 PROVE Invariants(x)
    <3>1. x.bal["gov"] \in Nat
      BY Names DEF Records
    <3>. QED  BY <1>6, <2>2, <3>1 DEF Invariants, Exact
  <2>. QED  BY <2>1, <2>2
<1>. HIDE DEF c4
<1>9. crisis \in Records /\ crisis.bal = x.bal /\ SameRecords(x, crisis) /\ crisis.ok = c3
  <2>1. /\ crisis \in Records /\ crisis.bal = gov.bal /\ SameRecords(gov, crisis)
        /\ crisis.ok = (gov.ok /\ c4)
    BY <1>7, <1>8, RequireType
  <2>2. crisis.ok = c3
    BY <1>6, <1>7, <1>8, <2>1
  <2>. HIDE DEF crisis
  <2>. QED  BY <1>7, <2>1, <2>2 DEF SameRecords
<1>. HIDE DEF crisis
<1>10. Exact(crisis) /\ (crisis.gentxs => FirstGenesis(crisis))
  BY <1>9 DEF Exact, PoolsMatch, DistributionMatches, SameRecords, FirstGenesis
<1>11. /\ genutil \in Records /\ Exact(genutil) /\ genutil.ok = c3 /\ ~genutil.gentxs
       /\ genutil.bal["gov"] = x.bal["gov"] /\ genutil.deposits = x.deposits
       /\ genutil.bonded > 0 <=> (x.gentxs \/ x.bonded > 0)
  BY <1>9, <1>10, GenutilInitGenesisType DEF SameRecords
<1>. HIDE DEF genutil
<1>12. c5 \in BOOLEAN
  BY <1>11 DEF Records
<1>13. ~c5 => x.bonded = 0 /\ ~x.gentxs
  BY <1>11 DEF Records
<1>. HIDE DEF c5
<1>14. /\ y \in Records /\ y.bal = genutil.bal /\ SameRecords(genutil, y)
       /\ y.ok = (c3 /\ c5)
  BY <1>11, <1>12, RequireType
<1>. HIDE DEF y
<1>15. Exact(y) /\ ~y.gentxs /\ y.bal["gov"] = x.bal["gov"] /\ y.deposits = x.deposits
  BY <1>11, <1>14 DEF Exact, PoolsMatch, DistributionMatches, SameRecords
<1>16. CASE c3 /\ c5
  BY <1>1, <1>14, <1>15, <1>16
<1>17. CASE ~c3
  BY <1>1, <1>6, <1>14, <1>17
<1>18. CASE ~c5
  BY <1>1, <1>13, <1>14, <1>18
<1>. QED  BY <1>16, <1>17, <1>18

-----------------------------------------------------------------------------
(* The inductive invariant. *)

Running == pc \notin {"refused", "panicked", "aborted"}
Started == pc = "genesis" <=> s.gentxs
Surplus == s.bal["gov"] + spent >= s.deposits

IInv ==
    /\ TypeOK
    /\ Exact(s) /\ Surplus
    /\ s.ok <=> Running
    /\ s.gentxs => FirstGenesis(s)
    /\ Started
    /\ PanicsExplained

LEMMA InitIInv == Init => IInv
<1>. SUFFICES ASSUME Init PROVE IInv
  OBVIOUS
<1>. DEFINE b == [a \in Acct |-> IF a \in User THEN Funds ELSE 0]
<1>1. b \in [Acct -> Nat]
  BY AmountAssumption
<1>2. /\ \A a \in ModuleAcc : b[a] = 0
      /\ \A u \in User : b[u] = Funds
  BY Accounts
<1>3. s.bal = b
  BY DEF Init
<1>. HIDE DEF b
<1>4. /\ s.ok /\ s.gentxs /\ s.bonded = 0 /\ s.notBonded = 0 /\ s.unbonding = 0
      /\ s.outstanding = 0 /\ s.pool = 0 /\ s.deposits = 0
      /\ pc = "genesis" /\ gen = 1 /\ height = 0 /\ ops = 0 /\ spent = 0
  BY DEF Init
<1>5. s \in Records
  BY <1>1 DEF Init, Records, b
<1>6. TypeOK
  BY <1>4, <1>5 DEF TypeOK
<1>7. Exact(s) /\ Surplus /\ FirstGenesis(s)
  BY <1>2, <1>3, <1>4 DEF Exact, PoolsMatch, DistributionMatches, Surplus, FirstGenesis, ModuleAcc
<1>. QED  BY <1>4, <1>6, <1>7 DEF IInv, Running, Started, PanicsExplained

(* A step in which a module panics keeps the coins and the records.         *)
LEMMA PanicKeeps ==
    ASSUME IInv, s' = [s EXCEPT !.ok = FALSE], pc' \in {"refused", "panicked", "aborted"},
           ~s.gentxs, spent' \in Nat, spent' >= spent,
           gen' \in Nat, height' \in Nat, ops' \in Nat,
           pc' = "panicked" => s.bal["gov"] < s.deposits,
           pc' = "refused" => s.bal["gov"] # s.deposits \/ s.bonded = 0
    PROVE  IInv'
<1>1. /\ s' \in Records /\ s'.bal = s.bal /\ ~s'.ok /\ ~s'.gentxs /\ s'.deposits = s.deposits
      /\ s'.bonded = s.bonded /\ s'.notBonded = s.notBonded /\ s'.unbonding = s.unbonding
      /\ s'.outstanding = s.outstanding /\ s'.pool = s.pool
  BY DEF IInv, TypeOK, Records
<1>2. TypeOK'
  BY <1>1 DEF TypeOK
<1>3. Exact(s)'
  BY <1>1 DEF IInv, Exact, PoolsMatch, DistributionMatches
<1>4. Surplus'
  <2>1. s.bal["gov"] \in Nat /\ s.deposits \in Nat /\ spent \in Nat
    BY Names DEF IInv, TypeOK, Records
  <2>. QED  BY <1>1, <2>1 DEF IInv, Surplus
<1>5. PanicsExplained'
  BY <1>1 DEF PanicsExplained
<1>. QED  BY <1>1, <1>2, <1>3, <1>4, <1>5 DEF IInv, Running, Started

(* A step in which no module panics.                                        *)
LEMMA Proceeds ==
    ASSUME NEW x \in Records, s' = x, x.ok, Exact(x), ~x.gentxs,
           pc' \in {"block", "committed", "exported"}, spent' \in Nat,
           gen' \in Nat, height' \in Nat, ops' \in Nat,
           x.bal["gov"] + spent' >= x.deposits
    PROVE  IInv'
<1>1. TypeOK'
  BY DEF TypeOK
<1>2. Exact(s)' /\ Surplus'
  BY DEF Exact, PoolsMatch, DistributionMatches, Surplus
<1>. QED  BY <1>1, <1>2 DEF IInv, Running, Started, PanicsExplained

LEMMA Numbers ==
    ASSUME IInv
    PROVE  /\ s \in Records /\ Exact(s)
           /\ s.bal["gov"] \in Nat /\ s.deposits \in Nat /\ spent \in Nat
           /\ gen \in Nat /\ height \in Nat /\ ops \in Nat
           /\ gen + 1 \in Nat /\ height + 1 \in Nat /\ ops + 1 \in Nat /\ spent + 1 \in Nat
           /\ s.bal["gov"] + spent >= s.deposits
BY Names DEF IInv, TypeOK, Records, Surplus

LEMMA InitChainStep ==
    ASSUME IInv, InitChain
    PROVE  IInv'
<1>. DEFINE y == InitGenesis(s)
<1>1. /\ s.ok /\ (s.gentxs => FirstGenesis(s))
      /\ gen' \in Nat /\ height' \in Nat /\ ops' \in Nat /\ spent' = spent
  BY Numbers DEF IInv, Running, InitChain
<1>2. \/ ~y.ok /\ (s.bal["gov"] # s.deposits \/ (s.bonded = 0 /\ ~s.gentxs))
      \/ /\ y \in Records /\ Exact(y) /\ y.ok /\ ~y.gentxs
         /\ y.bal["gov"] = s.bal["gov"] /\ y.deposits = s.deposits
  BY <1>1, Numbers, InitGenesisType
<1>3. /\ s' = IF y.ok THEN y ELSE [s EXCEPT !.ok = FALSE]
      /\ pc' = IF y.ok THEN "committed" ELSE "refused"
  BY DEF InitChain, Step
<1>. HIDE DEF y
<1>4. CASE ~y.ok
  <2>1. s.bal["gov"] # s.deposits \/ s.bonded = 0
    BY <1>2, <1>4
  <2>2. ~s.gentxs
    BY <1>2, <1>4 DEF IInv, FirstGenesis
  <2>. QED  BY <1>1, <1>3, <1>4, <2>1, <2>2, Numbers, PanicKeeps
<1>5. CASE y.ok
  BY <1>1, <1>2, <1>3, <1>5, Numbers, Proceeds
<1>. QED  BY <1>4, <1>5

LEMMA BeginBlockStep ==
    ASSUME IInv, NEW b \in 0 .. s.bonded, NEW e \in 0 .. s.unbonding, BeginBlock(b, e)
    PROVE  /\ IInv'
           /\ height' > 1 => s'.bal["mint"] = 0 /\ s'.bal["fee_collector"] = 0
<1>. DEFINE y == BeginBlocker(s, height + 1, b, e)
<1>1. /\ pc = "committed" /\ gen' = gen /\ height' = height + 1 /\ ops' = ops /\ spent' = spent
      /\ s' = IF y.ok THEN y ELSE [s EXCEPT !.ok = FALSE]
      /\ pc' = IF y.ok THEN "block" ELSE "panicked"
  BY DEF BeginBlock, Step
<1>2. /\ y \in Records /\ Exact(y) /\ GovKept(s, y) /\ y.ok = s.ok
      /\ height + 1 > 1 => y.bal["fee_collector"] = 0
  BY Numbers, BeginBlockerType
<1>. HIDE DEF y
<1>3. s.ok /\ ~s.gentxs
  BY <1>1 DEF IInv, Running, Started
<1>. QED  BY <1>1, <1>2, <1>3, Numbers, Proceeds DEF GovKept, Exact

LEMMA EndBlockStep ==
    ASSUME IInv, NEW g \in Ending, NEW change \in {"leave", "enter", "mature"},
           NEW u \in User, NEW n \in 0 .. Changeable(s, change), EndBlock(g, change, n, u)
    PROVE  IInv'
<1>. DEFINE y == EndBlocker(s, height, g, change, n, u)
            k == IF Sent(s, g) THEN 1 ELSE 0
<1>1. /\ pc = "block" /\ gen' = gen /\ height' = height /\ ops' = ops /\ spent' = spent + k
      /\ s' = IF y.ok THEN y ELSE [s EXCEPT !.ok = FALSE]
      /\ pc' = IF y.ok THEN "committed" ELSE "panicked"
  BY Numbers DEF EndBlock, Step, Sent
<1>2. s.ok /\ ~s.gentxs
  BY <1>1 DEF IInv, Running, Started
<1>3. \/ ~y.ok /\ s.bal["gov"] < s.deposits
      \/ /\ y \in Records /\ Exact(y) /\ y.ok /\ y.gentxs = s.gentxs
         /\ y.bal["gov"] + k + s.deposits >= s.bal["gov"] + y.deposits
  BY <1>2, Numbers, EndBlockerType
<1>. HIDE DEF y
<1>4. k \in Nat
  OBVIOUS
<1>. HIDE DEF k
<1>5. spent' \in Nat /\ spent' >= spent
  BY <1>1, <1>4, Numbers
<1>6. CASE ~y.ok
  BY <1>1, <1>2, <1>3, <1>5, <1>6, Numbers, PanicKeeps
<1>7. CASE y.ok
  <2>1. y.bal["gov"] \in Nat /\ y.deposits \in Nat
    BY <1>3, <1>7, Names DEF Records
  <2>2. y.bal["gov"] + spent' >= y.deposits
    BY <1>1, <1>3, <1>4, <1>7, <2>1, Numbers
  <2>. QED  BY <1>1, <1>2, <1>3, <1>5, <1>7, <2>2, Numbers, Proceeds
<1>. QED  BY <1>6, <1>7

(* A transaction that leaves x, with gov's surplus no smaller.              *)
LEMMA TransactionStep ==
    ASSUME IInv, NEW a \in Acct, NEW x \in Records, Transaction(a, x),
           Exact(x), x.ok = s.ok, x.gentxs = s.gentxs,
           x.bal["gov"] + s.deposits >= s.bal["gov"] + x.deposits
    PROVE  IInv'
<1>1. /\ pc = "block" /\ pc' = pc /\ gen' = gen /\ height' = height /\ ops' = ops + 1
      /\ spent' = spent /\ s' = x
  BY DEF Transaction
<1>2. s.ok /\ ~s.gentxs
  BY <1>1 DEF IInv, Running, Started
<1>3. x.bal["gov"] \in Nat /\ x.deposits \in Nat
  BY Names DEF Records
<1>4. x.bal["gov"] + spent' >= x.deposits
  BY <1>1, <1>3, Numbers
<1>. QED  BY <1>1, <1>2, <1>4, Numbers, Proceeds

(* One coin is sent, and only the sender's and the receiver's modules know. *)
LEMMA OneCoin ==
    ASSUME IInv, NEW from \in Acct, NEW to \in Acct, from # to, Pays(s, from, 1)
    PROVE  LET t == SendCoins(s, from, to, 1)
           IN  /\ t \in Records /\ SameRecords(s, t) /\ t.ok = s.ok
               /\ \A a \in Acct : t.bal[a] = IF a = from THEN s.bal[a] - 1
                                             ELSE IF a = to THEN s.bal[a] + 1 ELSE s.bal[a]
BY Numbers, SendCoinsType DEF Pays

LEMMA PayFeeStep ==
    ASSUME IInv, NEW u \in User, PayFee(u)
    PROVE  IInv'
<1>. DEFINE t == SendCoins(s, u, "fee_collector", 1)
<1>1. Transaction(u, t) /\ Pays(s, u, 1) /\ u \in Acct /\ u \notin ModuleAcc
  BY Accounts DEF PayFee, Transaction
<1>2. u # "fee_collector"
  BY <1>1 DEF ModuleAcc
<1>3. /\ t \in Records /\ SameRecords(s, t) /\ t.ok = s.ok
      /\ \A a \in Acct : t.bal[a] = IF a = u THEN s.bal[a] - 1
                                    ELSE IF a = "fee_collector" THEN s.bal[a] + 1 ELSE s.bal[a]
  BY <1>1, <1>2, Names, OneCoin
<1>. HIDE DEF t
<1>4. \A a \in ModuleAcc \ {"fee_collector"} : t.bal[a] = s.bal[a]
  BY <1>1, <1>3, Accounts
<1>5. Exact(t) /\ t.bal["gov"] = s.bal["gov"]
  BY <1>3, <1>4, Numbers DEF Exact, PoolsMatch, DistributionMatches, SameRecords, ModuleAcc
<1>. QED  BY <1>1, <1>3, <1>5, Numbers, TransactionStep DEF SameRecords

LEMMA SendStep ==
    ASSUME IInv, NEW a \in User \cup {"escrow"}, NEW to \in Acct, Send(a, to)
    PROVE  IInv'
<1>. DEFINE t == SendCoins(s, a, to, 1)
<1>1. Transaction(a, t) /\ Pays(s, a, 1) /\ a \in Acct /\ a \notin ModuleAcc
      /\ to \notin ModuleAcc \ {"gov"}
  BY Accounts, Names DEF Send, Transaction, ModuleAcc
<1>2. /\ t \in Records /\ SameRecords(s, t) /\ t.ok = s.ok
      /\ \A c \in Acct : t.bal[c] = IF a = to THEN s.bal[c]
                                    ELSE IF c = a THEN s.bal[c] - 1
                                    ELSE IF c = to THEN s.bal[c] + 1 ELSE s.bal[c]
  BY <1>1, Numbers, SendCoinsType DEF Pays
<1>. HIDE DEF t
<1>3. /\ \A c \in ModuleAcc \ {"gov"} : t.bal[c] = s.bal[c]
      /\ t.bal["gov"] >= s.bal["gov"]
  <2>1. ModuleAcc \subseteq Acct /\ "gov" \in ModuleAcc /\ s.bal["gov"] \in Nat
    BY Accounts, Numbers DEF ModuleAcc
  <2>. QED  BY <1>1, <1>2, <2>1
<1>4. Exact(t)
  BY <1>2, <1>3, Numbers DEF Exact, PoolsMatch, DistributionMatches, SameRecords, ModuleAcc
<1>5. t.bal["gov"] \in Nat /\ t.deposits = s.deposits /\ t.gentxs = s.gentxs
  BY <1>2, Names DEF Records, SameRecords
<1>6. t.bal["gov"] + s.deposits >= s.bal["gov"] + t.deposits
  BY <1>3, <1>5, Numbers
<1>. QED  BY <1>1, <1>2, <1>4, <1>5, <1>6, TransactionStep

LEMMA FundCommunityPoolStep ==
    ASSUME IInv, NEW u \in User, FundCommunityPool(u)
    PROVE  IInv'
<1>. DEFINE t == SendCoins(s, u, "distribution", 1)
            y == [t EXCEPT !.pool = @ + 1]
<1>1. Transaction(u, y) /\ Pays(s, u, 1) /\ u \in Acct /\ u \notin ModuleAcc
  BY Accounts DEF FundCommunityPool, Transaction
<1>2. u # "distribution"
  BY <1>1 DEF ModuleAcc
<1>3. /\ t \in Records /\ SameRecords(s, t) /\ t.ok = s.ok
      /\ \A a \in Acct : t.bal[a] = IF a = u THEN s.bal[a] - 1
                                    ELSE IF a = "distribution" THEN s.bal[a] + 1 ELSE s.bal[a]
  BY <1>1, <1>2, Names, OneCoin
<1>. HIDE DEF t
<1>4. t.pool = s.pool /\ s.pool \in Nat /\ s.pool + 1 \in Nat /\ s.outstanding \in Nat
  BY <1>3, Numbers DEF SameRecords, Records
<1>5. /\ y \in Records /\ y.bal = t.bal /\ y.ok = t.ok /\ y.pool = s.pool + 1
      /\ y.bonded = t.bonded /\ y.notBonded = t.notBonded /\ y.unbonding = t.unbonding
      /\ y.outstanding = t.outstanding /\ y.deposits = t.deposits /\ y.gentxs = t.gentxs
  BY <1>3, <1>4 DEF Records
<1>. HIDE DEF y
<1>6. /\ \A a \in ModuleAcc \ {"distribution"} : y.bal[a] = s.bal[a]
      /\ y.bal["distribution"] = s.bal["distribution"] + 1
  BY <1>1, <1>2, <1>3, <1>5, Accounts, Names
<1>7. Exact(y) /\ y.bal["gov"] = s.bal["gov"]
  BY <1>3, <1>4, <1>5, <1>6, Numbers
     DEF Exact, PoolsMatch, DistributionMatches, SameRecords, ModuleAcc
<1>. QED  BY <1>1, <1>3, <1>5, <1>7, Numbers, TransactionStep DEF SameRecords

LEMMA WithdrawRewardsStep ==
    ASSUME IInv, NEW to \in Acct, WithdrawRewards(to)
    PROVE  IInv'
<1>. DEFINE t == SendCoins(s, "distribution", to, 1)
            y == [t EXCEPT !.outstanding = @ - 1]
<1>1. /\ Transaction("distribution", y) /\ Pays(s, "distribution", 1)
      /\ to \notin ModuleAcc \ {"gov"} /\ s.outstanding > 0
  BY Accounts DEF WithdrawRewards, Transaction
<1>2. to # "distribution"
  BY <1>1 DEF ModuleAcc
<1>3. /\ t \in Records /\ SameRecords(s, t) /\ t.ok = s.ok
      /\ \A a \in Acct : t.bal[a] = IF a = "distribution" THEN s.bal[a] - 1
                                    ELSE IF a = to THEN s.bal[a] + 1 ELSE s.bal[a]
  BY <1>1, <1>2, Names, OneCoin
<1>. HIDE DEF t
<1>4. /\ t.outstanding = s.outstanding /\ s.outstanding \in Nat /\ s.outstanding - 1 \in Nat
      /\ s.pool \in Nat
  BY <1>1, <1>3, Numbers DEF SameRecords, Records
<1>5. /\ y \in Records /\ y.bal = t.bal /\ y.ok = t.ok /\ y.outstanding = s.outstanding - 1
      /\ y.bonded = t.bonded /\ y.notBonded = t.notBonded /\ y.unbonding = t.unbonding
      /\ y.pool = t.pool /\ y.deposits = t.deposits /\ y.gentxs = t.gentxs
  BY <1>3, <1>4 DEF Records
<1>. HIDE DEF y
<1>6. /\ \A a \in ModuleAcc \ {"distribution", "gov"} : y.bal[a] = s.bal[a]
      /\ y.bal["distribution"] = s.bal["distribution"] - 1
      /\ y.bal["gov"] >= s.bal["gov"]
  <2>1. ModuleAcc \subseteq Acct /\ "gov" \in ModuleAcc /\ "distribution" \in ModuleAcc
        /\ s.bal["gov"] \in Nat
    BY Accounts, Numbers DEF ModuleAcc
  <2>. QED  BY <1>1, <1>3, <1>5, <2>1
<1>7. Exact(y)
  BY <1>3, <1>4, <1>5, <1>6, Numbers
     DEF Exact, PoolsMatch, DistributionMatches, SameRecords, ModuleAcc
<1>8. y.bal["gov"] \in Nat /\ y.deposits = s.deposits /\ y.gentxs = s.gentxs
  BY <1>3, <1>5, Names DEF Records, SameRecords
<1>9. y.bal["gov"] + s.deposits >= s.bal["gov"] + y.deposits
  BY <1>6, <1>8, Numbers
<1>. QED  BY <1>1, <1>3, <1>5, <1>7, <1>8, <1>9, Names, TransactionStep

LEMMA DepositStep ==
    ASSUME IInv, NEW u \in User, Deposit(u)
    PROVE  IInv'
<1>. DEFINE t == SendCoins(s, u, "gov", 1)
            y == [t EXCEPT !.deposits = @ + 1]
<1>1. Transaction(u, y) /\ Pays(s, u, 1) /\ u \in Acct /\ u \notin ModuleAcc
  BY Accounts DEF Deposit, Transaction
<1>2. u # "gov"
  BY <1>1 DEF ModuleAcc
<1>3. /\ t \in Records /\ SameRecords(s, t) /\ t.ok = s.ok
      /\ \A a \in Acct : t.bal[a] = IF a = u THEN s.bal[a] - 1
                                    ELSE IF a = "gov" THEN s.bal[a] + 1 ELSE s.bal[a]
  BY <1>1, <1>2, Names, OneCoin
<1>. HIDE DEF t
<1>4. t.deposits = s.deposits /\ s.deposits + 1 \in Nat
  BY <1>3, Numbers DEF SameRecords
<1>5. /\ y \in Records /\ y.bal = t.bal /\ y.ok = t.ok /\ y.deposits = s.deposits + 1
      /\ y.bonded = t.bonded /\ y.notBonded = t.notBonded /\ y.unbonding = t.unbonding
      /\ y.outstanding = t.outstanding /\ y.pool = t.pool /\ y.gentxs = t.gentxs
  BY <1>3, <1>4 DEF Records
<1>. HIDE DEF y
<1>6. /\ \A a \in ModuleAcc \ {"gov"} : y.bal[a] = s.bal[a]
      /\ y.bal["gov"] = s.bal["gov"] + 1
  BY <1>1, <1>2, <1>3, <1>5, Accounts, Names
<1>7. Exact(y)
  BY <1>3, <1>5, <1>6, Numbers
     DEF Exact, PoolsMatch, DistributionMatches, SameRecords, ModuleAcc
<1>8. y.bal["gov"] + s.deposits >= s.bal["gov"] + y.deposits
  BY <1>5, <1>6, Numbers
<1>. QED  BY <1>1, <1>3, <1>5, <1>7, <1>8, TransactionStep DEF SameRecords

LEMMA DelegateStep ==
    ASSUME IInv, NEW u \in User, Delegate(u)
    PROVE  IInv'
<1>0. /\ u \in Acct /\ u \notin ModuleAcc
      /\ s.bonded + 1 \in Nat /\ s.notBonded + 1 \in Nat
      /\ s.bonded \in Nat /\ s.notBonded \in Nat /\ s.unbonding \in Nat
  BY Accounts, Numbers DEF Records
<1>1. ASSUME NEW m \in {"bonded_tokens_pool", "not_bonded_tokens_pool"}, Pays(s, u, 1)
      PROVE  LET t == DelegateCoins(s, u, m, 1)
             IN  /\ t \in Records /\ SameRecords(s, t) /\ t.ok = s.ok
                 /\ \A a \in ModuleAcc : t.bal[a] = IF a = m THEN s.bal[a] + 1 ELSE s.bal[a]
  <2>. DEFINE c == "staking" \in maccPerms[m]
              r == Require(s, c)
              t == SendCoins(r, u, m, 1)
  <2>1. c
    BY Permissions
  <2>. HIDE DEF c
  <2>2. r \in Records /\ r.bal = s.bal /\ SameRecords(s, r) /\ r.ok = s.ok
    BY <2>1, Numbers, RequireType DEF Records
  <2>3. t = DelegateCoins(s, u, m, 1)
    BY DEF DelegateCoins, c
  <2>. HIDE DEF r
  <2>4. m \in Acct /\ m \in ModuleAcc /\ u # m /\ r.bal[u] >= 1
    BY <1>0, <1>1, <2>2, Names DEF ModuleAcc, Pays
  <2>5. /\ t \in Records /\ SameRecords(r, t) /\ t.ok = r.ok
        /\ \A a \in Acct : t.bal[a] = IF a = u THEN r.bal[a] - 1
                                      ELSE IF a = m THEN r.bal[a] + 1 ELSE r.bal[a]
    BY <1>0, <2>2, <2>4, SendCoinsType
  <2>. HIDE DEF t
  <2>6. \A a \in ModuleAcc : t.bal[a] = IF a = m THEN s.bal[a] + 1 ELSE s.bal[a]
    BY <1>0, <2>2, <2>4, <2>5, Accounts
  <2>. QED  BY <2>2, <2>3, <2>5, <2>6 DEF SameRecords
<1>2. CASE Transaction(u, [DelegateCoins(s, u, "bonded_tokens_pool", 1) EXCEPT !.bonded = @ + 1])
  <2>. DEFINE t == DelegateCoins(s, u, "bonded_tokens_pool", 1)
              y == [t EXCEPT !.bonded = @ + 1]
  <2>1. Transaction(u, y) /\ Pays(s, u, 1)
    BY <1>2 DEF Transaction
  <2>2. /\ t \in Records /\ SameRecords(s, t) /\ t.ok = s.ok
        /\ \A a \in ModuleAcc : t.bal[a] = IF a = "bonded_tokens_pool" THEN s.bal[a] + 1
                                           ELSE s.bal[a]
    BY <1>1, <2>1
  <2>. HIDE DEF t
  <2>3. /\ y \in Records /\ y.bal = t.bal /\ y.ok = t.ok /\ y.bonded = s.bonded + 1
        /\ y.notBonded = t.notBonded /\ y.unbonding = t.unbonding /\ y.deposits = t.deposits
        /\ y.outstanding = t.outstanding /\ y.pool = t.pool /\ y.gentxs = t.gentxs
    BY <1>0, <2>2 DEF Records, SameRecords
  <2>. HIDE DEF y
  <2>4. Exact(y) /\ y.bal["gov"] = s.bal["gov"]
    BY <1>0, <2>2, <2>3, Numbers
       DEF Exact, PoolsMatch, DistributionMatches, SameRecords, ModuleAcc
  <2>. QED  BY <1>0, <2>1, <2>2, <2>3, <2>4, Numbers, TransactionStep DEF SameRecords
<1>3. CASE Transaction(u, [DelegateCoins(s, u, "not_bonded_tokens_pool", 1) EXCEPT
                              !.notBonded = @ + 1])
  <2>. DEFINE t == DelegateCoins(s, u, "not_bonded_tokens_pool", 1)
              y == [t EXCEPT !.notBonded = @ + 1]
  <2>1. Transaction(u, y) /\ Pays(s, u, 1)
    BY <1>3 DEF Transaction
  <2>2. /\ t \in Records /\ SameRecords(s, t) /\ t.ok = s.ok
        /\ \A a \in ModuleAcc : t.bal[a] = IF a = "not_bonded_tokens_pool" THEN s.bal[a] + 1
                                           ELSE s.bal[a]
    BY <1>1, <2>1
  <2>. HIDE DEF t
  <2>3. /\ y \in Records /\ y.bal = t.bal /\ y.ok = t.ok /\ y.notBonded = s.notBonded + 1
        /\ y.bonded = t.bonded /\ y.unbonding = t.unbonding /\ y.deposits = t.deposits
        /\ y.outstanding = t.outstanding /\ y.pool = t.pool /\ y.gentxs = t.gentxs
    BY <1>0, <2>2 DEF Records, SameRecords
  <2>. HIDE DEF y
  <2>4. Exact(y) /\ y.bal["gov"] = s.bal["gov"]
    BY <1>0, <2>2, <2>3, Numbers
       DEF Exact, PoolsMatch, DistributionMatches, SameRecords, ModuleAcc
  <2>. QED  BY <1>0, <2>1, <2>2, <2>3, <2>4, Numbers, TransactionStep DEF SameRecords
<1>. QED  BY <1>2, <1>3 DEF Delegate

LEMMA UndelegateStep ==
    ASSUME IInv, Undelegate
    PROVE  IInv'
<1>0. /\ s.bonded \in Nat /\ s.notBonded \in Nat /\ s.unbonding \in Nat
      /\ s.unbonding + 1 \in Nat
      /\ s.bal["bonded_tokens_pool"] \in Nat /\ s.bal["not_bonded_tokens_pool"] \in Nat
  BY Numbers, Names DEF Records
<1>1. CASE /\ s.bonded > 0
           /\ Transaction("bonded_tokens_pool",
                 [SendCoins(s, "bonded_tokens_pool", "not_bonded_tokens_pool", 1) EXCEPT
                     !.bonded = @ - 1, !.unbonding = @ + 1])
  <2>. DEFINE t == SendCoins(s, "bonded_tokens_pool", "not_bonded_tokens_pool", 1)
              v == [t EXCEPT !.bonded = @ - 1]
              y == [v EXCEPT !.unbonding = @ + 1]
  <2>1. /\ Transaction("bonded_tokens_pool", y) /\ Pays(s, "bonded_tokens_pool", 1)
        /\ s.bonded - 1 \in Nat
    BY <1>0, <1>1 DEF Transaction
  <2>2. /\ t \in Records /\ SameRecords(s, t) /\ t.ok = s.ok
        /\ \A a \in Acct : t.bal[a] = IF a = "bonded_tokens_pool" THEN s.bal[a] - 1
                                      ELSE IF a = "not_bonded_tokens_pool" THEN s.bal[a] + 1
                                      ELSE s.bal[a]
    BY <2>1, Names, OneCoin
  <2>. HIDE DEF t
  <2>3. /\ v \in Records /\ v.bal = t.bal /\ v.ok = t.ok /\ v.bonded = s.bonded - 1
        /\ v.notBonded = t.notBonded /\ v.unbonding = t.unbonding /\ v.deposits = t.deposits
        /\ v.outstanding = t.outstanding /\ v.pool = t.pool /\ v.gentxs = t.gentxs
    BY <2>1, <2>2 DEF Records, SameRecords
  <2>. HIDE DEF v
  <2>4. /\ y \in Records /\ y.bal = v.bal /\ y.ok = v.ok /\ y.unbonding = s.unbonding + 1
        /\ y.bonded = v.bonded /\ y.notBonded = v.notBonded /\ y.deposits = v.deposits
        /\ y.outstanding = v.outstanding /\ y.pool = v.pool /\ y.gentxs = v.gentxs
    BY <1>0, <2>2, <2>3 DEF Records, SameRecords
  <2>. HIDE DEF y
  <2>5. PoolsMatch(y)
    BY <1>0, <2>2, <2>3, <2>4, Names, Numbers DEF Exact, PoolsMatch, SameRecords
  <2>6. Exact(y) /\ y.bal["gov"] = s.bal["gov"]
    BY <2>2, <2>3, <2>4, <2>5, Names, Numbers DEF Exact, DistributionMatches, SameRecords
  <2>. QED  BY <2>1, <2>2, <2>3, <2>4, <2>6, Names, Numbers, TransactionStep DEF SameRecords
<1>2. CASE /\ s.notBonded > 0
           /\ Transaction("not_bonded_tokens_pool",
                 [s EXCEPT !.notBonded = @ - 1, !.unbonding = @ + 1])
  <2>. DEFINE v == [s EXCEPT !.notBonded = @ - 1]
              y == [v EXCEPT !.unbonding = @ + 1]
  <2>1. /\ Transaction("not_bonded_tokens_pool", y)
        /\ s.notBonded - 1 \in Nat
    BY <1>0, <1>2
  <2>2. /\ v \in Records /\ v.bal = s.bal /\ v.ok = s.ok /\ v.notBonded = s.notBonded - 1
        /\ v.bonded = s.bonded /\ v.unbonding = s.unbonding /\ v.deposits = s.deposits
        /\ v.outstanding = s.outstanding /\ v.pool = s.pool /\ v.gentxs = s.gentxs
    BY <2>1, Numbers DEF Records
  <2>. HIDE DEF v
  <2>3. /\ y \in Records /\ y.bal = v.bal /\ y.ok = v.ok /\ y.unbonding = s.unbonding + 1
        /\ y.bonded = v.bonded /\ y.notBonded = v.notBonded /\ y.deposits = v.deposits
        /\ y.outstanding = v.outstanding /\ y.pool = v.pool /\ y.gentxs = v.gentxs
    BY <1>0, <2>2 DEF Records
  <2>. HIDE DEF y
  <2>4. Exact(y) /\ y.bal["gov"] = s.bal["gov"]
    BY <1>0, <2>2, <2>3, Numbers DEF Exact, PoolsMatch, DistributionMatches
  <2>. QED  BY <2>1, <2>2, <2>3, <2>4, Names, Numbers, TransactionStep
<1>. QED  BY <1>1, <1>2 DEF Undelegate

LEMMA ExportStep ==
    ASSUME IInv, NEW zero \in BOOLEAN, NEW w \in 0 .. s.outstanding, NEW to \in Acct,
           Export(zero, w, to)
    PROVE  IInv'
<1>1. pc = "committed" /\ gen' = gen /\ ops' = ops /\ spent' = spent
  BY DEF Export
<1>2. s.ok /\ ~s.gentxs
  BY <1>1 DEF IInv, Running, Started
<1>3. CASE ~zero
  <2>1. s' = s /\ pc' = "exported" /\ height' = height
    BY <1>2, <1>3 DEF Export, Step
  <2>. QED  BY <1>1, <1>2, <2>1, Numbers, Proceeds
<1>4. CASE zero
  <2>. DEFINE c == Invariants(s)
              r == Require(s, c)
              t == SendCoins(r, "distribution", to, w)
              v == [t EXCEPT !.outstanding = 0]
              y == [v EXCEPT !.pool = @ + s.outstanding - w]
  <2>0. r.outstanding = s.outstanding
    BY Numbers DEF Require, Records
  <2>1. /\ s' = IF y.ok THEN y ELSE [s EXCEPT !.ok = FALSE]
        /\ pc' = IF y.ok THEN "exported" ELSE "panicked"
        /\ height' = 0 /\ to \notin BlockedAddresses
    BY <1>4, <2>0 DEF Export, WithdrawAll, Step
  <2>2. c \in BOOLEAN /\ (~c => s.bal["gov"] < s.deposits)
    <3>1. c \in BOOLEAN
      BY DEF Invariants, PoolsMatch
    <3>2. ~c => ~(s.bal["gov"] >= s.deposits)
      BY Numbers DEF Invariants, Exact
    <3>. QED  BY <3>1, <3>2, Numbers
  <2>3. /\ to \notin ModuleAcc \ {"gov"} /\ to # "distribution"
        /\ w \in Nat /\ w <= s.outstanding
        /\ s.outstanding \in Nat /\ s.pool \in Nat /\ s.pool + s.outstanding - w \in Nat
        /\ s.bal["distribution"] = s.outstanding + s.pool
    BY <2>1, Accounts, Numbers DEF Records, ModuleAcc, Exact, DistributionMatches
  <2>. HIDE DEF c
  <2>4. r \in Records /\ r.bal = s.bal /\ SameRecords(s, r) /\ r.ok = c
    BY <1>2, <2>2, Numbers, RequireType
  <2>. HIDE DEF r
  <2>5. r.bal["distribution"] >= w
    BY <2>3, <2>4
  <2>6. /\ t \in Records /\ SameRecords(r, t) /\ t.ok = r.ok
        /\ \A a \in Acct : t.bal[a] = IF a = "distribution" THEN r.bal[a] - w
                                      ELSE IF a = to THEN r.bal[a] + w ELSE r.bal[a]
    BY <2>3, <2>4, <2>5, Names, SendCoinsType, SMTT(30)
  <2>. HIDE DEF t
  <2>7. /\ v \in Records /\ v.bal = t.bal /\ v.ok = t.ok /\ v.outstanding = 0
        /\ v.bonded = s.bonded /\ v.notBonded = s.notBonded /\ v.unbonding = s.unbonding
        /\ v.pool = s.pool /\ v.deposits = s.deposits /\ v.gentxs = s.gentxs
    BY <2>4, <2>6 DEF Records, SameRecords
  <2>. HIDE DEF v
  <2>8. /\ y \in Records /\ y.bal = v.bal /\ y.ok = v.ok /\ y.outstanding = 0
        /\ y.pool = s.pool + s.outstanding - w
        /\ y.bonded = s.bonded /\ y.notBonded = s.notBonded /\ y.unbonding = s.unbonding
        /\ y.deposits = s.deposits /\ y.gentxs = s.gentxs
    BY <2>3, <2>7 DEF Records
  <2>. HIDE DEF y
  <2>9. /\ \A a \in ModuleAcc \ {"distribution", "gov"} : y.bal[a] = s.bal[a]
        /\ y.bal["distribution"] = s.bal["distribution"] - w
        /\ y.bal["gov"] \in Nat /\ y.bal["gov"] >= s.bal["gov"]
    <3>1. ModuleAcc \subseteq Acct /\ "gov" \in ModuleAcc /\ "distribution" \in ModuleAcc
          /\ s.bal["gov"] \in Nat
      BY Accounts, Numbers DEF ModuleAcc
    <3>. QED  BY <2>3, <2>4, <2>6, <2>7, <2>8, <3>1
  <2>10. Exact(y)
    BY <2>3, <2>8, <2>9, Numbers DEF Exact, PoolsMatch, DistributionMatches, ModuleAcc
  <2>11. y.ok = c
    BY <2>4, <2>6, <2>7, <2>8
  <2>12. CASE c
    <3>1. y.bal["gov"] + spent >= y.deposits
      BY <2>8, <2>9, Numbers DEF IInv, Surplus
    <3>. QED  BY <1>1, <1>2, <2>1, <2>8, <2>10, <2>11, <2>12, <3>1, Numbers, Proceeds
  <2>13. CASE ~c
    BY <1>1, <1>2, <2>1, <2>2, <2>11, <2>13, Numbers, PanicKeeps
  <2>. QED  BY <2>12, <2>13
<1>. QED  BY <1>3, <1>4

LEMMA ExportAbortsStep ==
    ASSUME IInv, ExportAborts
    PROVE  IInv'
<1>1. ~s.gentxs
  BY DEF ExportAborts, IInv, Started
<1>. QED  BY <1>1, Numbers, PanicKeeps DEF ExportAborts

LEMMA Stutter ==
    ASSUME IInv, UNCHANGED vars
    PROVE  IInv'
BY DEF IInv, vars, TypeOK, Exact, PoolsMatch, DistributionMatches, Surplus, Running, Started,
       FirstGenesis, PanicsExplained

(* Every step preserves the invariant, one lemma for each action.           *)
THEOREM Inductive == IInv /\ [Next]_vars => IInv'
<1>. SUFFICES ASSUME IInv, [Next]_vars PROVE IInv'
  OBVIOUS
<1>1. CASE InitChain
  BY <1>1, InitChainStep
<1>2. ASSUME NEW b \in 0 .. s.bonded, NEW e \in 0 .. s.unbonding, BeginBlock(b, e)
      PROVE  IInv'
  BY <1>2, BeginBlockStep
<1>3. ASSUME NEW g \in Ending, NEW change \in {"leave", "enter", "mature"}, NEW u \in User,
             NEW n \in 0 .. Changeable(s, change), EndBlock(g, change, n, u)
      PROVE  IInv'
  BY <1>3, EndBlockStep
<1>4. ASSUME NEW u \in User,
             PayFee(u) \/ FundCommunityPool(u) \/ Deposit(u) \/ Delegate(u)
      PROVE  IInv'
  BY <1>4, PayFeeStep, FundCommunityPoolStep, DepositStep, DelegateStep
<1>5. ASSUME NEW a \in User \cup {"escrow"}, NEW to \in Acct, Send(a, to)
      PROVE  IInv'
  BY <1>5, SendStep
<1>6. ASSUME NEW to \in Acct, WithdrawRewards(to)
      PROVE  IInv'
  BY <1>6, WithdrawRewardsStep
<1>7. CASE Undelegate
  BY <1>7, UndelegateStep
<1>8. ASSUME NEW zero \in BOOLEAN, NEW w \in 0 .. s.outstanding, NEW to \in Acct,
             Export(zero, w, to)
      PROVE  IInv'
  BY <1>8, ExportStep
<1>9. CASE ExportAborts
  BY <1>9, ExportAbortsStep
<1>10. CASE Stopped \/ UNCHANGED vars
  BY <1>10, Stutter DEF Stopped
<1>. QED  BY <1>1, <1>2, <1>3, <1>4, <1>5, <1>6, <1>7, <1>8, <1>9, <1>10 DEF Next

-----------------------------------------------------------------------------
(* What follows. *)

(* The invariant holds in every state of every behaviour.                   *)
THEOREM Invariant == Spec => []IInv
<1>. QED  BY InitIInv, Inductive, PTL DEF Spec

(* Balances and records are numbers: nobody ever spends what is not there.  *)
THEOREM TypeCorrect == Spec => []TypeOK
<1>1. IInv => TypeOK
  BY DEF IInv
<1>. QED  BY <1>1, Invariant, PTL

(* The pools and the distribution account hold what the records say, and    *)
(* gov's account lacks no more than proposals have sent.                    *)
THEOREM RecordsHold == Spec => []InvariantsHold
<1>1. IInv => InvariantsHold
  BY DEF IInv, Exact, Surplus, InvariantsHold
<1>. QED  BY <1>1, Invariant, PTL

(* Over its coins a block dies, and an export fails its assertion, only     *)
(* when deposits are missing from gov's account, and a genesis only over    *)
(* that account or a missing validator set.                                 *)
THEOREM PanicsForKnownReasons == Spec => []PanicsExplained
<1>1. IInv => PanicsExplained
  BY DEF IInv
<1>. QED  BY <1>1, Invariant, PTL

(* Every block but the first one allocates all that was minted and paid.    *)
THEOREM EverythingAllocated == Spec => AllAllocated
<1>. DEFINE A == height' > height /\ height' > 1 /\ pc' = "block" =>
                     s'.bal["mint"] = 0 /\ s'.bal["fee_collector"] = 0
<1>1. IInv /\ [Next]_vars => [A]_vars
  <2>. SUFFICES ASSUME IInv, Next, height' > height, height' > 1
                PROVE  s'.bal["mint"] = 0 /\ s'.bal["fee_collector"] = 0
    BY DEF vars
  <2>1. PICK b \in 0 .. s.bonded, e \in 0 .. s.unbonding : BeginBlock(b, e)
    <3>1. ~(height' = height) /\ ~(height' = 0)
      BY Numbers
    <3>. QED  BY <3>1 DEF Next, InitChain, EndBlock, PayFee, FundCommunityPool, Deposit,
                          Delegate, Send, WithdrawRewards, Undelegate, Transaction, Export,
                          ExportAborts, Stopped, vars
  <2>. QED  BY <2>1, BeginBlockStep
<1>. QED  BY <1>1, Invariant, PTL DEF Spec, AllAllocated
=============================================================================
