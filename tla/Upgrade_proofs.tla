--------------------------- MODULE Upgrade_proofs ---------------------------
(***************************************************************************)
(* Proofs about Upgrade, for any bounds and any stores: what holds however   *)
(* binaries are exchanged, and that with a careful operator a node           *)
(* implements the coordinated upgrade of UpgradePlan.                        *)
(***************************************************************************)
EXTENDS Upgrade, TLAPS

(* The next block applies an upgrade.                                       *)
Applies(s) == Due(s) /\ ~Skipped(s)

(* What an execution of a block that schedules tx leaves, if anything, is   *)
(* the next block of the chain, made by the installed binary; of what was   *)
(* executed before, no more than the one thrown away used up the check of   *)
(* the version.                                                             *)
NextBlock(r, tx) ==
    LET begun == PreBlocker(disk, binary)
    IN  r.ok = "yes" =>
            /\ ~Needed(disk, binary) /\ ~TooEarly(disk, binary)
            /\ r.state.height = disk.height + 1
            /\ r.state.software = binary
            /\ r.state.plan = Schedule(begun, tx)
            /\ r.state.done = begun.done
            /\ r.state.ver = IF disk.height = 0 THEN binary ELSE begun.ver
            /\ discarded \/ Applies(disk) \/ Last(disk) \subseteq {binary}

(* The process has loaded the committed state, but for the params that it   *)
(* has migrated.                                                            *)
Loaded == cms = [disk EXCEPT !.params = cms.params]

(* Before the first block there is nothing but the genesis, and no upgrade  *)
(* was applied in the future.                                               *)
Genesis ==
    /\ disk.height = 0 => disk.plan = NoPlan /\ disk.done = NoState.done /\ disk.ver = Old
    /\ \A n \in Binary : disk.done[n] <= disk.height
    /\ work.of = "genesis" =>
           /\ disk.height = 0 /\ work.result.state.height = 0
           /\ work.result.state.plan = NoPlan /\ work.result.state.done = NoState.done
           /\ work.result.state.ver = binary

(* An optimistic execution is of the next block, and so is the work.        *)
Executions ==
    /\ decided # NoBlock => disk.height < MaxHeight
    /\ oe.stage # "none" => disk.height \in 1 .. MaxHeight - 1 /\ oe.tx \in Tx
    /\ oe.stage = "done" => NextBlock(oe.result, oe.tx)
    /\ work.of = "block" => decided # NoBlock /\ NextBlock(work.result, decided)
    /\ work.of = "block" /\ proc = "up" => work.result.ok = "yes"
    /\ proc = "down" => oe = NoOE /\ work = NoWork /\ ~verified /\ ~discarded

(* Where the check of the version is used up without a result that was      *)
(* thrown away, it was passed, not needed, or failed.                       *)
Checked ==
    verified /\ ~discarded =>
        \/ Applies(disk) \/ Last(disk) \subseteq {binary}
        \/ oe.stage = "done" /\ oe.result.ok = "no"
        \/ work.of = "block" /\ work.result.ok = "no"

IInv == TypeOK /\ Loaded /\ Genesis /\ Executions /\ Checked

(* With a careful operator: the installed binary is that of the chain, or   *)
(* the one that was told to apply the upgrade; and the file speaks of an     *)
(* upgrade that was applied last, or of the one that is next.               *)
Told(name) ==
    /\ info = [name |-> name, height |-> disk.height + 1]
    /\ Applies(disk) /\ disk.plan.name = name

CarefulInv ==
    /\ disk.software = disk.ver
    /\ binary = disk.ver \/ Told(binary)
    /\ \/ info \in {NoFile, BrokenFile}
       \/ info.height <= disk.height /\ info.name = disk.ver
       \/ Told(info.name)
    /\ disk.height # 0 => Stores(disk.ver) \subseteq disk.stores
    /\ proc = "refused" => info = BrokenFile

-----------------------------------------------------------------------------
(* Names and heights. *)

(* A binary has the handler of its own name and no other.                   *)
LEMMA OwnHandler == ASSUME NEW b \in Binary PROVE Handlers(b) = {b}
BY DEF Handlers, Upgrades, Binary, Old, New

LEMMA NoPlans == NoPlan \notin Plan /\ NoBlock \notin Tx
BY BoundAssumption
DEF NoPlan, Plan, NoBlock, Tx, Abstract!NoPlan, Abstract!Plan, Abstract!NoBlock

LEMMA PlanType ==
    ASSUME NEW p \in Tx, p # NoPlan PROVE p.name \in Binary /\ p.height \in 1 .. MaxHeight
BY DEF Tx, Plan, Abstract!Plan

LEMMA NoStateType == NoState \in State /\ NoResult \in Result
BY BoundAssumption DEF NoState, NoResult, State, Result, Tx, Binary, Old, Params

-----------------------------------------------------------------------------
(* What an execution makes of a state. *)

LEMMA PreBlockerType ==
    ASSUME NEW s \in State, NEW b \in Binary, s.height < MaxHeight
    PROVE  /\ PreBlocker(s, b) \in State
           /\ PreBlocker(s, b).height = s.height /\ PreBlocker(s, b).params = s.params
<1>1. CASE ~Due(s) \/ Skipped(s)
  BY <1>1 DEF PreBlocker, State, Tx
<1>2. CASE Due(s) /\ ~Skipped(s)
  <2>1. s.plan.name \in Binary /\ s.height + 1 \in 0 .. MaxHeight
    BY <1>2, PlanType, BoundAssumption DEF Due, State
  <2>. DEFINE done == [s.done EXCEPT ![s.plan.name] = s.height + 1]
  <2>2. done \in [Binary -> 0 .. MaxHeight]
    BY <2>1 DEF State
  <2>3. PreBlocker(s, b) = [s EXCEPT !.ver = b, !.done = done, !.plan = NoPlan]
    BY <1>2 DEF PreBlocker, RunMigrations
  <2>. HIDE DEF done
  <2>. QED  BY <2>2, <2>3 DEF State, Tx
<1>. QED  BY <1>1, <1>2

LEMMA ScheduleType ==
    ASSUME NEW s \in State, NEW tx \in Tx \cup {NoBlock} PROVE Schedule(s, tx) \in Tx
BY DEF Schedule, State, Tx

LEMMA ExecuteType ==
    ASSUME NEW s \in State, NEW b \in Binary, NEW tx \in Tx \cup {NoBlock}, s.height < MaxHeight
    PROVE  Execute(s, tx, b) \in Result
<1>. DEFINE begun == PreBlocker(s, b)
            plan == Schedule(begun, tx)
            t == [begun EXCEPT !.height = s.height + 1, !.software = b, !.plan = plan]
<1>1. begun \in State /\ plan \in Tx
  BY PreBlockerType, ScheduleType
<1>2. s.height + 1 \in 0 .. MaxHeight /\ s.params \in Params
  BY BoundAssumption DEF State
<1>3. Execute(s, tx, b) = [NoResult EXCEPT !.read = s.params]
      \/ Execute(s, tx, b) = [ok |-> "yes", read |-> s.params, state |-> t]
  BY DEF Execute
<1>. HIDE DEF begun, plan
<1>4. t \in State
  BY <1>1, <1>2 DEF State
<1>. HIDE DEF t
<1>. QED  BY <1>2, <1>3, <1>4, NoStateType DEF NoResult, Result

(* The check of the version is only passed if it was not used up before.    *)
LEMMA ExecuteOk ==
    ASSUME NEW s \in State, NEW b \in Binary, NEW tx \in Tx \cup {NoBlock},
           s.height < MaxHeight, Execute(s, tx, b).ok = "yes"
    PROVE  LET begun == PreBlocker(s, b)
               t     == Execute(s, tx, b).state
           IN  /\ ~Needed(s, b) /\ ~TooEarly(s, b)
               /\ verified \/ Applies(s) \/ Last(s) \subseteq {b}
               /\ t.height = s.height + 1 /\ t.software = b
               /\ t.plan = Schedule(begun, tx)
               /\ t.done = begun.done /\ t.ver = begun.ver
<1>. DEFINE begun == PreBlocker(s, b)
            plan == Schedule(begun, tx)
<1>1. begun \in State
  BY PreBlockerType
<1>2. ~WrongVersion(s, b) /\ ~Needed(s, b) /\ ~TooEarly(s, b)
  BY DEF Execute, NoResult
<1>3. verified \/ Applies(s) \/ Last(s) \subseteq {b}
  BY <1>2, OwnHandler DEF WrongVersion, Applies
<1>4. Execute(s, tx, b).state =
          [begun EXCEPT !.height = s.height + 1, !.software = b, !.plan = plan]
  BY <1>2 DEF Execute
<1>. HIDE DEF begun, plan
<1>5. LET t == Execute(s, tx, b).state
      IN  /\ t.height = s.height + 1 /\ t.software = b /\ t.plan = plan
          /\ t.done = begun.done /\ t.ver = begun.ver
  BY <1>1, <1>4 DEF State
<1>. QED  BY <1>2, <1>3, <1>5 DEF begun, plan

(* Neither the params nor the stores of a state matter to the next block.   *)
LEMMA SameNextBlock ==
    ASSUME NEW s \in State, NEW t \in State, NEW b \in Binary, NEW tx \in Tx \cup {NoBlock},
           s.height < MaxHeight,
           s.height = t.height, s.plan = t.plan, s.done = t.done
    PROVE  /\ Applies(s) <=> Applies(t)
           /\ Needed(s, b) <=> Needed(t, b)
           /\ TooEarly(s, b) <=> TooEarly(t, b)
           /\ Last(s) = Last(t)
           /\ PreBlocker(s, b).done = PreBlocker(t, b).done
           /\ Schedule(PreBlocker(s, b), tx) = Schedule(PreBlocker(t, b), tx)
           /\ s.ver = t.ver => PreBlocker(s, b).ver = PreBlocker(t, b).ver
           /\ ~Due(s) => PreBlocker(s, b).ver = s.ver
<1>1. (Due(s) <=> Due(t)) /\ (Skipped(s) <=> Skipped(t))
  BY DEF Due, Skipped
<1>2. Last(s) = Last(t)
  BY DEF Last
<1>3. ASSUME NEW u \in {s, t}
      PROVE  /\ u \in State
             /\ PreBlocker(u, b) \in State /\ PreBlocker(u, b).height = u.height
             /\ Due(u) /\ ~Skipped(u) =>
                    /\ PreBlocker(u, b).plan = NoPlan /\ PreBlocker(u, b).ver = b
                    /\ PreBlocker(u, b).done = [u.done EXCEPT ![u.plan.name] = u.height + 1]
             /\ Due(u) /\ Skipped(u) =>
                    /\ PreBlocker(u, b).plan = NoPlan /\ PreBlocker(u, b).ver = u.ver
                    /\ PreBlocker(u, b).done = u.done
             /\ ~Due(u) => PreBlocker(u, b) = u
  <2>1. u \in State /\ u.height < MaxHeight
    BY <1>3
  <2>2. PreBlocker(u, b) \in State /\ PreBlocker(u, b).height = u.height
    BY <2>1, PreBlockerType
  <2>3. CASE Due(u) /\ ~Skipped(u)
    <3>. DEFINE done == [u.done EXCEPT ![u.plan.name] = u.height + 1]
    <3>1. PreBlocker(u, b) = [u EXCEPT !.ver = b, !.done = done, !.plan = NoPlan]
      BY <2>3 DEF PreBlocker, RunMigrations
    <3>. HIDE DEF done
    <3>2. /\ PreBlocker(u, b).plan = NoPlan /\ PreBlocker(u, b).ver = b
          /\ PreBlocker(u, b).done = done
      BY <2>1, <3>1 DEF State
    <3>. QED  BY <2>1, <2>2, <2>3, <3>2 DEF done
  <2>4. CASE ~(Due(u) /\ ~Skipped(u))
    BY <2>1, <2>2, <2>4 DEF PreBlocker, State
  <2>. QED  BY <2>3, <2>4
<1>4. /\ PreBlocker(s, b).plan = PreBlocker(t, b).plan
      /\ PreBlocker(s, b).done = PreBlocker(t, b).done
      /\ s.ver = t.ver => PreBlocker(s, b).ver = PreBlocker(t, b).ver
      /\ ~Due(s) => PreBlocker(s, b).ver = s.ver
  BY <1>1, <1>3
<1>5. PreBlocker(s, b).height = PreBlocker(t, b).height
  BY <1>3
<1>6. Schedule(PreBlocker(s, b), tx) = Schedule(PreBlocker(t, b), tx)
  BY <1>4, <1>5 DEF Schedule
<1>. QED  BY <1>1, <1>2, <1>4, <1>6 DEF Applies, Needed, TooEarly

(* An execution on top of the committed state, or of the genesis, leaves    *)
(* the next block of the chain.                                             *)
LEMMA ExecuteNext ==
    ASSUME TypeOK, Genesis, NEW s \in State, NEW tx \in Tx \cup {NoBlock},
           disk.height < MaxHeight,
           s.height = disk.height, s.plan = disk.plan, s.done = disk.done,
           s.ver = IF disk.height = 0 THEN binary ELSE disk.ver,
           Execute(s, tx, binary).ok = "yes"
    PROVE  LET begun == PreBlocker(disk, binary)
               t     == Execute(s, tx, binary).state
           IN  /\ ~Needed(disk, binary) /\ ~TooEarly(disk, binary)
               /\ verified \/ Applies(disk) \/ Last(disk) \subseteq {binary}
               /\ t.height = disk.height + 1 /\ t.software = binary
               /\ t.plan = Schedule(begun, tx) /\ t.done = begun.done
               /\ t.ver = IF disk.height = 0 THEN binary ELSE begun.ver
<1>1. binary \in Binary /\ disk \in State
  BY DEF TypeOK
<1>2. disk.height = 0 => ~Due(s)
  BY DEF Genesis, Due
<1>. QED  BY <1>1, <1>2, SameNextBlock, ExecuteOk

-----------------------------------------------------------------------------
(* The invariant. *)

(* What is the next block stays it, while the state on disk and the binary  *)
(* stay.                                                                    *)
LEMMA NextBlockKept ==
    ASSUME UNCHANGED <<disk, binary, skip>>, discarded => discarded',
           NEW r, NEW tx, NextBlock(r, tx)
    PROVE  NextBlock(r, tx)'
BY DEF NextBlock, Applies, Skipped, Needed, TooEarly, PreBlocker

LEMMA ExecutionsKept ==
    ASSUME Executions, UNCHANGED <<disk, binary, skip, oe, work, proc>>, discarded => discarded',
           decided = NoBlock \/ UNCHANGED decided, decided' # NoBlock => disk.height < MaxHeight,
           proc # "down"
    PROVE  Executions'
BY NextBlockKept DEF Executions

LEMMA InitInvariant == Init => IInv /\ (Careful => CarefulInv)
<1>. SUFFICES ASSUME Init PROVE IInv /\ (Careful => CarefulInv)
  OBVIOUS
<1>1. TypeOK
  <2>1. /\ oe \in [stage : {"none", "running", "done"}, tx : Tx \cup {NoBlock}, result : Result]
        /\ work \in [of : {"none", "genesis", "block"}, result : Result]
    BY NoStateType DEF Init, NoOE, NoWork
  <2>2. skip \subseteq 1 .. MaxHeight /\ binary \in Binary
    BY DEF Init, Binary
  <2>3. disk \in State /\ cms \in State
    BY NoStateType DEF Init
  <2>4. info \in UpgradeInfo /\ crashes \in 0 .. MaxCrashes
    BY BoundAssumption DEF Init, UpgradeInfo
  <2>. QED
    BY <2>1, <2>2, <2>3, <2>4 DEF Init, TypeOK
<1>2. Loaded
  BY DEF Init, Loaded, NoState
<1>3. Genesis /\ Executions /\ Checked
  BY DEF Init, Genesis, Executions, Checked, NoState, NoOE, NoWork
<1>4. Careful => CarefulInv
  BY DEF Init, CarefulInv, NoState, Stores, Old, New
<1>. QED  BY <1>1, <1>2, <1>3, <1>4 DEF IInv

LEMMA StartStep == ASSUME IInv, NEW b \in Binary, Start(b) PROVE IInv'
<1>1. TypeOK'
  BY DEF IInv, Start, TypeOK, durable, volatile
<1>2. Loaded'
  BY DEF IInv, Loaded, Start, durable, volatile
<1>3. proc' \in {"up", "refused"} /\ oe' = NoOE /\ work' = NoWork /\ ~verified'
  BY DEF IInv, Executions, Start, durable, volatile
<1>4. Genesis' /\ Checked'
  BY <1>3 DEF IInv, Genesis, Checked, Start, durable, volatile, NoWork
<1>5. Executions'
  BY <1>3 DEF IInv, Executions, Start, durable, volatile, NoWork, NoOE
<1>. QED  BY <1>1, <1>2, <1>4, <1>5 DEF IInv

LEMMA InitChainStep == ASSUME IInv, InitChain PROVE IInv'
<1>. DEFINE params == IF Has50(binary) THEN "set" ELSE "legacy"
            t == [cms EXCEPT !.ver = binary, !.software = binary, !.params = params]
            r == [NoResult EXCEPT !.state = t]
<1>1. /\ cms \in State /\ cms.height = 0 /\ disk.height = 0
      /\ cms.plan = disk.plan /\ cms.done = disk.done
      /\ binary \in Binary /\ disk \in State
  BY DEF IInv, InitChain, TypeOK, Loaded, State
<1>2. params \in Params
  BY DEF Params
<1>3. work' = [of |-> "genesis", result |-> r] /\ work.of = "none"
  BY DEF InitChain, NoWork
<1>. HIDE DEF params
<1>4. /\ t \in State /\ t.height = 0 /\ t.plan = cms.plan /\ t.done = cms.done
      /\ t.ver = binary
  BY <1>1, <1>2 DEF State
<1>. HIDE DEF t
<1>5. r \in Result /\ r.state = t
  BY <1>4, NoStateType DEF Result, NoResult
<1>. HIDE DEF r
<1>6. TypeOK'
  BY <1>3, <1>5 DEF IInv, TypeOK, InitChain, durable
<1>7. Genesis'
  BY <1>1, <1>3, <1>4, <1>5 DEF IInv, Genesis, InitChain, durable
<1>8. Executions'
  BY <1>3, NextBlockKept DEF IInv, Executions, InitChain, durable
<1>9. Loaded' /\ Checked'
  BY <1>3 DEF IInv, Loaded, Checked, InitChain, durable, Applies, Skipped
<1>. QED  BY <1>6, <1>7, <1>8, <1>9 DEF IInv

LEMMA ProcessProposalStep == ASSUME IInv, NEW tx \in Tx, ProcessProposal(tx) PROVE IInv'
<1>1. oe' = [stage |-> "running", tx |-> tx, result |-> NoResult]
  BY DEF ProcessProposal
<1>2. disk.height = cms.height
  BY DEF IInv, TypeOK, Loaded, State
<1>3. TypeOK'
  BY <1>1, NoStateType DEF IInv, TypeOK, ProcessProposal, durable
<1>4. Loaded' /\ Genesis'
  BY DEF IInv, Loaded, Genesis, ProcessProposal, durable
<1>5. Executions'
  BY <1>1, <1>2, NextBlockKept DEF IInv, Executions, ProcessProposal, durable
<1>6. Checked'
  BY DEF IInv, Checked, ProcessProposal, durable, Applies, Skipped
<1>. QED  BY <1>3, <1>4, <1>5, <1>6 DEF IInv

(* upgrade-info.json names a version and a height of the chain.             *)
LEMMA LeavesType ==
    ASSUME TypeOK, NEW s \in State, s.height < MaxHeight, Leaves(s)
    PROVE  verified' = TRUE /\ info' \in UpgradeInfo
<1>1. Needed(s, binary) => s.plan.name \in Binary /\ s.height + 1 \in 1 .. MaxHeight
  BY PlanType, BoundAssumption DEF Needed, Due, State
<1>. QED  BY <1>1 DEF Leaves, TypeOK, UpgradeInfo

LEMMA OptimisticExecutionStep == ASSUME IInv, OptimisticExecution PROVE IInv'
<1>. DEFINE r == Execute(cms, oe.tx, binary)
<1>1. /\ cms \in State /\ disk \in State /\ binary \in Binary /\ oe.tx \in Tx
      /\ disk.height \in 1 .. MaxHeight - 1
      /\ cms.height = disk.height /\ cms.plan = disk.plan /\ cms.done = disk.done
      /\ cms.ver = disk.ver
      /\ oe.stage = "running" /\ proc = "up"
  BY DEF IInv, TypeOK, Loaded, State, Executions, OptimisticExecution
<1>2. r \in Result /\ cms.height < MaxHeight
  BY <1>1, ExecuteType, BoundAssumption DEF State
<1>3. oe'.stage = "done" /\ oe'.tx = oe.tx /\ oe'.result = r
      /\ oe' \in [stage : {"none", "running", "done"}, tx : Tx \cup {NoBlock}, result : Result]
  BY <1>2 DEF IInv, TypeOK, OptimisticExecution
<1>4. verified' = TRUE /\ info' \in UpgradeInfo
  BY <1>1, <1>2, LeavesType DEF IInv, OptimisticExecution
<1>5. verified => discarded \/ Applies(disk) \/ Last(disk) \subseteq {binary}
  BY <1>1 DEF IInv, Checked, Executions
<1>6. NextBlock(r, oe.tx)
  BY <1>1, <1>2, <1>5, ExecuteNext DEF IInv, NextBlock
<1>. HIDE DEF r
<1>7. TypeOK'
  BY <1>3, <1>4 DEF IInv, TypeOK, OptimisticExecution
<1>8. Loaded' /\ Genesis'
  BY DEF IInv, Loaded, Genesis, OptimisticExecution
<1>9. Executions'
  BY <1>1, <1>3, <1>6, NextBlockKept DEF IInv, Executions, OptimisticExecution
<1>10. Checked'
  BY <1>2, <1>3, <1>6 DEF IInv, Checked, OptimisticExecution, NextBlock, Applies, Skipped, Result
<1>. QED  BY <1>7, <1>8, <1>9, <1>10 DEF IInv

LEMMA MigrateParamsStep == ASSUME IInv, MigrateParams PROVE IInv'
<1>1. cms' = [cms EXCEPT !.params = "migrated"] \/ cms' = cms
  BY DEF MigrateParams
<1>2. proc' \in {proc, "stuck"} /\ proc = "up"
  BY DEF MigrateParams, Ready
<1>3. "migrated" \in Params
  BY DEF Params
<1>4. cms \in State /\ disk \in State /\ cms = [disk EXCEPT !.params = cms.params]
  BY DEF IInv, TypeOK, Loaded
<1>5. cms' \in State /\ cms' = [disk EXCEPT !.params = cms'.params]
  BY <1>1, <1>3, <1>4 DEF State
<1>6. TypeOK'
  BY <1>2, <1>5 DEF IInv, TypeOK, MigrateParams, durable
<1>7. Loaded' /\ Genesis'
  BY <1>5 DEF IInv, Loaded, Genesis, MigrateParams, durable
<1>8. Executions'
  BY <1>2, NextBlockKept DEF IInv, Executions, MigrateParams, durable
<1>9. Checked'
  BY DEF IInv, Checked, MigrateParams, durable, Applies, Skipped
<1>. QED  BY <1>6, <1>7, <1>8, <1>9 DEF IInv

(* What a block is executed on: the committed state, or the genesis.        *)
LEMMA BaseIs ==
    ASSUME IInv, Ready
    PROVE  /\ Base \in State /\ Base.height = disk.height
           /\ Base.plan = disk.plan /\ Base.done = disk.done
           /\ Base.ver = IF disk.height = 0 THEN binary ELSE disk.ver
<1>1. /\ cms \in State /\ disk \in State
      /\ cms.height = disk.height /\ cms.plan = disk.plan /\ cms.done = disk.done
      /\ cms.ver = disk.ver
  BY DEF IInv, TypeOK, Loaded, State
<1>2. work.result.state \in State
  BY DEF IInv, TypeOK, Result
<1>. QED  BY <1>1, <1>2 DEF IInv, Ready, Base, Genesis

LEMMA FinalizeBlockStep == ASSUME IInv, FinalizeBlock PROVE IInv'
<1>1. /\ Ready /\ proc = "up" /\ decided \in Tx /\ disk.height < MaxHeight
      /\ oe.stage # "running" /\ work.of # "block"
      /\ binary \in Binary /\ oe.result \in Result
  BY DEF IInv, TypeOK, FinalizeBlock, Finalizing, Ready, Executions
<1>2. CASE oe.stage = "done" /\ oe.tx = decided /\ Finish(oe.result)
           /\ UNCHANGED <<info, verified, oe, discarded>>
  <2>1. work'.of = "block" /\ work'.result = oe.result
    BY <1>2 DEF Finish
  <2>2. NextBlock(oe.result, decided)
    BY <1>2 DEF IInv, Executions
  <2>3. TypeOK'
    BY <1>1, <1>2 DEF IInv, TypeOK, Finish
  <2>4. Loaded' /\ Genesis'
    BY <1>2, <2>1 DEF IInv, Loaded, Genesis, Finish
  <2>5. Executions'
    BY <1>1, <1>2, <2>1, <2>2, NextBlockKept DEF IInv, Executions, Finish, FinalizeBlock, Finalizing
  <2>6. Checked'
    BY <1>1, <1>2, <2>1 DEF IInv, Checked, Finish, Applies, Skipped
  <2>. QED  BY <2>3, <2>4, <2>5, <2>6 DEF IInv
<1>3. CASE /\ Finish(Execute(Base, decided, binary))
           /\ Leaves(Base)
           /\ oe' = NoOE
           /\ discarded' = (discarded \/ oe.stage = "done")
  <2>. DEFINE r == Execute(Base, decided, binary)
  <2>1. Base.height < MaxHeight /\ r \in Result
    BY <1>1, BaseIs, ExecuteType
  <2>2. verified' = TRUE /\ info' \in UpgradeInfo
    BY <1>1, <1>3, <2>1, BaseIs, LeavesType DEF IInv
  <2>3. verified => discarded' \/ Applies(disk) \/ Last(disk) \subseteq {binary}
    BY <1>1, <1>3 DEF IInv, Checked
  <2>4. r.ok = "yes" =>
            LET begun == PreBlocker(disk, binary)
            IN  /\ ~Needed(disk, binary) /\ ~TooEarly(disk, binary)
                /\ r.state.height = disk.height + 1
                /\ r.state.software = binary
                /\ r.state.plan = Schedule(begun, decided)
                /\ r.state.done = begun.done
                /\ r.state.ver = IF disk.height = 0 THEN binary ELSE begun.ver
                /\ discarded' \/ Applies(disk) \/ Last(disk) \subseteq {binary}
    BY <1>1, <2>3, BaseIs, ExecuteNext DEF IInv
  <2>5. work' = [of |-> "block", result |-> r] /\ proc' = IF r.ok = "yes" THEN "up" ELSE "stuck"
    BY <1>3 DEF Finish
  <2>6. UNCHANGED <<binary, crashes, skip, disk, decided, cms, once>>
    BY <1>3 DEF Finish
  <2>. HIDE DEF r
  <2>7. NextBlock(work.result, decided)'
    BY <2>4, <2>5, <2>6 DEF NextBlock, Applies, Skipped, Needed, TooEarly, PreBlocker
  <2>8. TypeOK'
    BY <1>1, <1>3, <2>1, <2>2, <2>5, <2>6, NoStateType DEF IInv, TypeOK, NoOE
  <2>9. Loaded' /\ Genesis'
    BY <2>5, <2>6 DEF IInv, Loaded, Genesis
  <2>10. Executions'
    BY <1>1, <1>3, <2>5, <2>6, <2>7 DEF IInv, Executions, NoOE, FinalizeBlock, Finalizing
  <2>11. Checked'
    BY <2>1, <2>4, <2>5, <2>6 DEF IInv, Checked, Applies, Skipped, Result
  <2>. QED  BY <2>8, <2>9, <2>10, <2>11 DEF IInv
<1>. QED  BY <1>2, <1>3 DEF FinalizeBlock

(* What a commit makes of the committed state.                              *)
LEMMA CommitIs ==
    ASSUME IInv, Commit
    PROVE  LET begun == PreBlocker(disk, binary)
           IN  /\ disk' \in State /\ disk.height < MaxHeight /\ decided \in Tx
               /\ ~Needed(disk, binary) /\ ~TooEarly(disk, binary)
               /\ disk'.height = disk.height + 1
               /\ disk'.software = binary
               /\ disk'.plan = Schedule(begun, decided)
               /\ disk'.done = begun.done
               /\ disk'.ver = IF disk.height = 0 THEN binary ELSE begun.ver
               /\ discarded \/ Applies(disk) \/ Last(disk) \subseteq {binary}
               /\ disk'.stores = disk.stores \cup Stores(binary)
               /\ cms' = disk'
<1>. DEFINE s == work.result.state
            params == IF s.params \in Missing /\ cms.params = "migrated"
                      THEN "migrated" ELSE s.params
            stores == disk.stores \cup Stores(binary)
<1>1. disk' = [s EXCEPT !.params = params, !.stores = stores] /\ cms' = disk'
  BY DEF Commit
<1>2. s \in State /\ decided \in Tx /\ disk.height < MaxHeight
  BY DEF IInv, TypeOK, Result, Executions, Commit
<1>3. params \in Params /\ stores \in SUBSET Added
  BY <1>2 DEF State, Params, Stores, IInv, TypeOK
<1>4. NextBlock(work.result, decided) /\ work.result.ok = "yes"
  BY DEF IInv, Executions, Commit
<1>5. LET begun == PreBlocker(disk, binary)
      IN  /\ ~Needed(disk, binary) /\ ~TooEarly(disk, binary)
          /\ s.height = disk.height + 1
          /\ s.software = binary
          /\ s.plan = Schedule(begun, decided)
          /\ s.done = begun.done
          /\ s.ver = IF disk.height = 0 THEN binary ELSE begun.ver
          /\ discarded \/ Applies(disk) \/ Last(disk) \subseteq {binary}
  BY <1>4 DEF NextBlock
<1>. HIDE DEF s, params, stores
<1>6. /\ disk' \in State /\ disk'.height = s.height /\ disk'.software = s.software
      /\ disk'.plan = s.plan /\ disk'.done = s.done /\ disk'.ver = s.ver
      /\ disk'.stores = stores
  BY <1>1, <1>2, <1>3 DEF State
<1>. QED  BY <1>1, <1>2, <1>5, <1>6 DEF stores

(* The upgrades applied after a block: the binary's, or those before it.    *)
LEMMA PreBlockerDone ==
    ASSUME IInv, ~Needed(disk, binary)
    PROVE  LET begun == PreBlocker(disk, binary)
           IN  IF Applies(disk)
               THEN /\ disk.plan.name = binary /\ begun.ver = binary /\ begun.plan = NoPlan
                    /\ begun.done = [disk.done EXCEPT ![binary] = disk.height + 1]
               ELSE /\ begun.done = disk.done /\ begun.ver = disk.ver
                    /\ begun.plan = IF Due(disk) THEN NoPlan ELSE disk.plan
<1>1. disk \in State /\ binary \in Binary
  BY DEF IInv, TypeOK
<1>2. CASE Applies(disk)
  <2>1. disk.plan.name = binary
    BY <1>1, <1>2, OwnHandler DEF Needed, Applies
  <2>. DEFINE done == [disk.done EXCEPT ![binary] = disk.height + 1]
  <2>2. PreBlocker(disk, binary) = [disk EXCEPT !.ver = binary, !.done = done, !.plan = NoPlan]
    BY <1>2, <2>1 DEF PreBlocker, RunMigrations, Applies
  <2>. HIDE DEF done
  <2>3. /\ PreBlocker(disk, binary).ver = binary /\ PreBlocker(disk, binary).done = done
        /\ PreBlocker(disk, binary).plan = NoPlan
    BY <1>1, <2>2 DEF State
  <2>. QED  BY <1>2, <2>1, <2>3 DEF done
<1>3. CASE ~Applies(disk)
  BY <1>1, <1>3 DEF PreBlocker, Applies, State
<1>. QED  BY <1>2, <1>3

LEMMA CommitStep == ASSUME IInv, Commit PROVE IInv'
<1>1. /\ disk \in State /\ disk' \in State /\ binary \in Binary
      /\ disk'.height = disk.height + 1 /\ disk.height \in Nat
  BY CommitIs DEF IInv, TypeOK, State
<1>2. disk'.done = IF Applies(disk) THEN [disk.done EXCEPT ![binary] = disk.height + 1]
                   ELSE disk.done
  BY CommitIs, PreBlockerDone
<1>3. \A n \in Binary : disk.done[n] \in Nat /\ disk.done[n] <= disk.height
  BY <1>1 DEF IInv, Genesis, State
<1>4. TypeOK'
  BY CommitIs, NoStateType DEF IInv, TypeOK, Commit, NoOE, NoWork
<1>5. Loaded'
  BY <1>1, CommitIs DEF Loaded, State
<1>6. Genesis'
  BY <1>1, <1>2, <1>3 DEF Genesis, Commit, NoWork, State
<1>7. Executions'
  BY DEF Executions, Commit, NoOE, NoWork
<1>8. discarded \/ Last(disk') \subseteq {binary}
  <2>1. CASE Applies(disk)
    <3>1. disk'.done[binary] = disk.height + 1
      BY <1>1, <1>2, <2>1 DEF State
    <3>2. \A n \in Binary \ {binary} : disk'.done[n] <= disk.height /\ disk'.done[n] \in Nat
      BY <1>1, <1>2, <1>3, <2>1 DEF State
    <3>. QED  BY <1>1, <3>1, <3>2 DEF Last
  <2>2. CASE ~Applies(disk)
    BY <1>2, <2>2, CommitIs DEF Last
  <2>. QED  BY <2>1, <2>2
<1>9. Checked'
  BY <1>8 DEF Checked, Commit
<1>. QED  BY <1>4, <1>5, <1>6, <1>7, <1>9 DEF IInv

LEMMA DecideStep == ASSUME IInv, NEW tx \in Tx, Decide(tx) PROVE IInv'
<1>1. TypeOK'
  BY DEF IInv, TypeOK, Decide, volatile
<1>2. Loaded' /\ Genesis'
  BY DEF IInv, Loaded, Genesis, Decide, volatile
<1>3. decided = NoBlock /\ work.of # "block"
  BY DEF IInv, Executions, Decide
<1>4. Executions'
  BY <1>3, NextBlockKept DEF IInv, Executions, Decide, volatile
<1>5. Checked'
  BY DEF IInv, Checked, Decide, volatile, Applies, Skipped
<1>. QED  BY <1>1, <1>2, <1>4, <1>5 DEF IInv

(* A process that is down has nothing but what is on disk.                  *)
LEMMA DownStep ==
    ASSUME IInv, Down, crashes' \in 0 .. MaxCrashes, info' \in UpgradeInfo PROVE IInv'
<1>1. oe' = NoOE /\ work' = NoWork
  BY DEF Down
<1>2. /\ oe' \in [stage : {"none", "running", "done"}, tx : Tx \cup {NoBlock}, result : Result]
      /\ work' \in [of : {"none", "genesis", "block"}, result : Result]
  BY <1>1, NoStateType DEF NoOE, NoWork
<1>3. TypeOK'
  BY <1>2 DEF IInv, TypeOK, Down
<1>4. Loaded'
  BY DEF IInv, TypeOK, State, Loaded, Down
<1>5. Genesis' /\ Executions' /\ Checked'
  BY <1>1 DEF IInv, Genesis, Executions, Checked, Down, NoOE, NoWork
<1>. QED  BY <1>3, <1>4, <1>5 DEF IInv

LEMMA TakenDownStep == ASSUME IInv, Crash \/ CrashWhileDumping \/ TakeDown PROVE IInv'
<1>1. Down /\ crashes' \in 0 .. MaxCrashes
  BY BoundAssumption DEF IInv, TypeOK, Crash, CrashWhileDumping, TakeDown
<1>2. info' \in UpgradeInfo
  BY DEF IInv, TypeOK, Crash, CrashWhileDumping, TakeDown, UpgradeInfo
<1>. QED  BY <1>1, <1>2, DownStep

LEMMA StutterStep == ASSUME IInv, UNCHANGED vars PROVE IInv'
<1>. USE DEF vars, durable, volatile
<1>1. TypeOK' /\ Loaded' /\ Genesis'
  BY DEF IInv, TypeOK, Loaded, Genesis
<1>2. Executions'
  BY NextBlockKept DEF IInv, Executions
<1>3. Checked'
  BY DEF IInv, Checked, Applies, Skipped
<1>. QED  BY <1>1, <1>2, <1>3 DEF IInv

LEMMA NextInvariant == IInv /\ [Next]_vars => IInv'
BY StartStep, InitChainStep, ProcessProposalStep, DecideStep, OptimisticExecutionStep,
   MigrateParamsStep, FinalizeBlockStep, CommitStep, TakenDownStep, StutterStep
DEF Next, Stopped

(* The inductive invariant, whatever the operator does.                     *)
THEOREM Invariant == Spec => []IInv
<1>1. Init => IInv
  BY InitInvariant
<1>. QED  BY <1>1, NextInvariant, PTL DEF Spec

(* TypeOK: heights, files and executions stay in range, whatever crashes    *)
(* there are and whichever binary runs.                                     *)
THEOREM TypeCorrect == Spec => []TypeOK
<1>1. IInv => TypeOK
  BY DEF IInv
<1>. QED  BY <1>1, Invariant, PTL

-----------------------------------------------------------------------------
(* However binaries are exchanged. *)

LEMMA OnlyCommits == ASSUME IInv, [Next]_vars, UNCHANGED disk => FALSE PROVE Commit
BY DEF Next, Start, InitChain, ProcessProposal, Decide, OptimisticExecution, MigrateParams,
       FinalizeBlock, Finish, Crash, CrashWhileDumping, TakeDown, Down, Stopped,
       vars, durable, volatile

LEMMA BlocksCommitted == ASSUME IInv, [Next]_vars, CommitsBlock PROVE Commit
<1>1. disk.height \in Nat
  BY DEF IInv, TypeOK, State
<1>. QED  BY <1>1, OnlyCommits DEF CommitsBlock

(* NeverTooEarly: no binary commits a block while the upgrade that it is    *)
(* named after is planned for later.                                        *)
THEOREM NotBeforeItsTime == Spec => NeverTooEarly
<1>1. ASSUME IInv, [Next]_vars
      PROVE  CommitsBlock /\ disk.plan # NoPlan /\ ~Due(disk) => disk.plan.name # binary
  BY <1>1, BlocksCommitted, CommitIs, OwnHandler DEF TooEarly, IInv, TypeOK
<1>2. IInv /\ [Next]_vars =>
          [CommitsBlock /\ disk.plan # NoPlan /\ ~Due(disk) => disk.plan.name # binary]_vars
  BY <1>1
<1>. QED  BY <1>2, Invariant, PTL DEF Spec, NeverTooEarly

(* AppliedInItsBlock: an upgrade that is due is applied in its block by the *)
(* binary of its name, or, where it is skipped, not at all.                 *)
THEOREM AppliedInTime == Spec => AppliedInItsBlock
<1>. DEFINE P == CommitsBlock /\ disk.height # 0 =>
                    IF Due(disk) /\ ~Skipped(disk)
                    THEN /\ disk.plan.name = binary
                         /\ disk'.ver = binary
                         /\ disk'.done[disk.plan.name] = disk'.height
                    ELSE disk'.ver = disk.ver /\ disk'.done = disk.done
<1>1. IInv /\ [Next]_vars => [P]_vars
  <2>. SUFFICES ASSUME IInv, [Next]_vars, CommitsBlock, disk.height # 0 PROVE P
    OBVIOUS
  <2>1. Commit
    BY BlocksCommitted
  <2>2. disk.done \in [Binary -> 0 .. MaxHeight] /\ binary \in Binary
    BY DEF IInv, TypeOK, State
  <2>. QED  BY <2>1, <2>2, CommitIs, PreBlockerDone DEF Applies
<1>. QED  BY <1>1, Invariant, PTL DEF Spec, AppliedInItsBlock

(* NeverDowngraded: a block that applies no upgrade is not executed by a    *)
(* binary that the last upgrade does not name, unless the one check of the  *)
(* process was used up by an execution that was thrown away.                *)
THEOREM NotDowngraded == Spec => NeverDowngraded
<1>. DEFINE P == CommitsBlock /\ ~(Due(disk) /\ ~Skipped(disk)) /\ ~discarded
                    => Last(disk) \subseteq {binary}
<1>1. IInv /\ [Next]_vars => [P]_vars
  BY BlocksCommitted, CommitIs DEF Applies
<1>. QED  BY <1>1, Invariant, PTL DEF Spec, NeverDowngraded

-----------------------------------------------------------------------------
(* With a careful operator. *)

LEMMA CarefulKept ==
    ASSUME CarefulInv, UNCHANGED <<disk, binary, info, skip>>,
           proc' = "refused" => proc = "refused"
    PROVE  CarefulInv'
BY DEF CarefulInv, Told, Applies, Skipped, Stores

LEMMA CarefulStart ==
    ASSUME IInv, Careful, CarefulInv, NEW b \in Binary, Start(b) PROVE CarefulInv'
<1>1. UNCHANGED <<disk, info, skip>> /\ binary' = b /\ (b = binary \/ b = info.name)
  BY DEF Start, MayRun, durable
<1>2. b = disk.ver \/ Told(b)
  BY <1>1 DEF CarefulInv, NoFile, BrokenFile, Binary, Old, New
<1>3. info # BrokenFile => Loads(b)
  <2>. SUFFICES ASSUME disk.height # 0 PROVE Stores(b) \subseteq disk.stores \cup StoreLoader(b)
    BY DEF Loads
  <2>1. CASE b = disk.ver
    BY <2>1 DEF CarefulInv
  <2>2. CASE Told(b)
    BY <2>2 DEF Told, Applies, Skipped, StoreLoader, Stores, Upgrades
  <2>. QED  BY <1>2, <2>1, <2>2
<1>4. proc' = "refused" => info = BrokenFile
  BY <1>3 DEF Start
<1>. QED  BY <1>1, <1>2, <1>4 DEF CarefulInv, Told, Applies, Skipped, Stores

(* The file is only written for an upgrade that the binary cannot apply.    *)
LEMMA NeededIsTold ==
    ASSUME IInv, CarefulInv, Needed(disk, binary)
    PROVE  /\ binary = disk.ver
           /\ info' = [name |-> disk.plan.name, height |-> disk.height + 1]
                 /\ UNCHANGED <<disk, skip>> => Told(info.name)'
<1>1. disk.plan.name # binary /\ Applies(disk)
  BY OwnHandler DEF Needed, IInv, TypeOK, Applies
<1>. QED  BY <1>1 DEF CarefulInv, Told, Applies, Skipped

LEMMA CarefulLeaves ==
    ASSUME IInv, CarefulInv, UNCHANGED <<disk, binary, skip>>, proc' # "refused",
           NEW s \in State, s.height < MaxHeight,
           s.height = disk.height, s.plan = disk.plan, s.done = disk.done, Leaves(s)
    PROVE  CarefulInv'
<1>1. Needed(s, binary) => Needed(disk, binary)
  BY DEF Needed, Due, Skipped
<1>2. \/ UNCHANGED info
      \/ Needed(disk, binary) /\ info' = [name |-> disk.plan.name, height |-> disk.height + 1]
  BY <1>1 DEF Leaves
<1>3. CASE UNCHANGED info
  BY <1>3, CarefulKept
<1>4. CASE /\ Needed(disk, binary)
           /\ info' = [name |-> disk.plan.name, height |-> disk.height + 1]
  BY <1>4, NeededIsTold DEF CarefulInv, Stores
<1>. QED  BY <1>2, <1>3, <1>4

LEMMA CarefulCommit == ASSUME IInv, CarefulInv, Commit PROVE CarefulInv' /\ disk'.ver = binary
<1>1. /\ disk.height \in Nat /\ disk'.height = disk.height + 1 /\ disk'.software = binary
      /\ disk'.stores = disk.stores \cup Stores(binary)
  BY CommitIs DEF IInv, TypeOK, State
<1>2. UNCHANGED <<binary, info, skip, proc>> /\ proc = "up"
  BY DEF Commit
<1>3. Applies(disk) => disk.plan.name = binary
  BY CommitIs, PreBlockerDone
<1>4. disk'.ver = binary
  BY CommitIs, PreBlockerDone DEF CarefulInv, Told
<1>5. \/ info \in {NoFile, BrokenFile}
      \/ info.height <= disk'.height /\ info.name = disk'.ver
  <2>1. CASE info.height <= disk.height /\ info.name = disk.ver
    <3>1. binary = disk.ver \/ info.height = disk.height + 1
      BY DEF CarefulInv, Told
    <3>. QED  BY <1>1, <1>4, <2>1, <3>1, SMT DEF IInv, TypeOK, UpgradeInfo
  <2>2. CASE Told(info.name)
    <3>1. info.height = disk.height + 1 /\ info.name = binary
      BY <1>3, <2>2 DEF Told
    <3>. QED  BY <1>1, <1>4, <3>1
  <2>. QED  BY <2>1, <2>2 DEF CarefulInv
<1>. QED  BY <1>1, <1>2, <1>4, <1>5 DEF CarefulInv, Stores

LEMMA CarefulNext == ASSUME IInv, Careful, CarefulInv, [Next]_vars PROVE CarefulInv'
<1>1. ASSUME NEW b \in Binary, Start(b) PROVE CarefulInv'
  BY <1>1, CarefulStart
<1>2. CASE InitChain \/ MigrateParams \/ UNCHANGED vars
           \/ \E tx \in Tx : ProcessProposal(tx) \/ Decide(tx)
  <2>1. UNCHANGED <<disk, binary, info, skip>> /\ proc' \in {proc, "stuck"}
    BY <1>2
    DEF InitChain, MigrateParams, ProcessProposal, Decide, vars, durable, volatile
  <2>. QED  BY <2>1, CarefulKept
<1>3. CASE OptimisticExecution
  <2>1. /\ cms \in State /\ cms.height < MaxHeight
        /\ cms.height = disk.height /\ cms.plan = disk.plan /\ cms.done = disk.done
    BY <1>3, BoundAssumption
    DEF IInv, TypeOK, State, Loaded, Executions, OptimisticExecution
  <2>2. UNCHANGED <<disk, binary, skip>> /\ proc' # "refused" /\ Leaves(cms)
    BY <1>3 DEF OptimisticExecution
  <2>. QED  BY <2>1, <2>2, CarefulLeaves
<1>4. CASE FinalizeBlock
  <2>1. Ready /\ disk.height < MaxHeight
    BY <1>4 DEF IInv, Executions, FinalizeBlock, Finalizing
  <2>2. UNCHANGED <<disk, binary, skip>> /\ proc' # "refused"
    BY <1>4 DEF FinalizeBlock, Finish
  <2>3. UNCHANGED info \/ Leaves(Base)
    BY <1>4 DEF FinalizeBlock
  <2>. QED  BY <2>1, <2>2, <2>3, BaseIs, CarefulKept, CarefulLeaves
<1>5. CASE Commit
  BY <1>5, CarefulCommit
<1>6. CASE Crash \/ TakeDown
  <2>1. UNCHANGED <<disk, binary, skip>> /\ proc' = "down"
    BY <1>6 DEF Crash, TakeDown, Down
  <2>2. UNCHANGED info \/ (info = BrokenFile /\ info' = NoFile)
    BY <1>6 DEF Crash, TakeDown
  <2>3. info = BrokenFile => ~Told(binary)
    BY DEF Told, BrokenFile, IInv, TypeOK, Binary, Old, New
  <2>. QED  BY <2>1, <2>2, <2>3, CarefulKept DEF CarefulInv, Stores
<1>7. CASE CrashWhileDumping
  <2>1. UNCHANGED <<disk, binary, skip>> /\ proc' = "down" /\ info' = BrokenFile
    BY <1>7 DEF CrashWhileDumping, Down
  <2>2. Base.height = disk.height /\ Base.plan = disk.plan
    BY <1>7, BaseIs DEF CrashWhileDumping, Finalizing, Ready, Base, IInv, Executions, TypeOK, Loaded, State
  <2>3. Needed(disk, binary)
    BY <1>7, <2>2 DEF CrashWhileDumping, Needed, Due, Skipped
  <2>. QED  BY <2>1, <2>3, NeededIsTold DEF CarefulInv, Stores
<1>. QED  BY <1>1, <1>2, <1>3, <1>4, <1>5, <1>6, <1>7 DEF Next, Stopped

(* The inductive invariant, with a careful operator.                        *)
THEOREM CarefulInvariant == ASSUME Careful PROVE Spec => []CarefulInv
<1>1. Init => CarefulInv
  BY InitInvariant
<1>2. IInv /\ CarefulInv /\ [Next]_vars => CarefulInv'
  BY CarefulNext
<1>. QED  BY <1>1, <1>2, Invariant, PTL DEF Spec

(* RightSoftware: every block is executed by the software whose modules'    *)
(* state it is on.                                                          *)
THEOREM SoftwareIsRight == ASSUME Careful PROVE Spec => []RightSoftware
<1>1. CarefulInv => RightSoftware
  BY DEF CarefulInv, RightSoftware
<1>. QED  BY <1>1, CarefulInvariant, PTL

(* RefusalsExplained: a process only refuses to start because of a file     *)
(* that a crash has cut off; the stores of an upgrade are always announced. *)
THEOREM RefusalsAreExplained == ASSUME Careful PROVE Spec => []RefusalsExplained
<1>1. CarefulInv => RefusalsExplained
  BY DEF CarefulInv, RefusalsExplained
<1>. QED  BY <1>1, CarefulInvariant, PTL

LEMMA CommitIsBlock == ASSUME IInv, CarefulInv, Commit PROVE Abstract!Block
<1>. DEFINE begun == PreBlocker(disk, binary)
<1>1. /\ disk'.height = disk.height + 1 /\ decided # NoBlock /\ decided' = NoBlock
      /\ UNCHANGED skip
  BY CommitIs, NoPlans DEF Commit
<1>2. begun.height = disk.height
  BY CommitIs, PreBlockerType DEF IInv, TypeOK
<1>3. /\ disk'.done = begun.done
      /\ disk'.plan = IF decided \in Plan /\ decided.height >= disk.height + 1
                            /\ disk'.done[decided.name] = 0
                      THEN decided ELSE begun.plan
  BY <1>2, CommitIs DEF Schedule
<1>4. disk'.ver = binary
  BY CarefulCommit
<1>5. CASE Applies(disk)
  <2>1. /\ disk.plan.name = binary /\ begun.plan = NoPlan
        /\ begun.done = [disk.done EXCEPT ![binary] = disk.height + 1]
    BY <1>5, CommitIs, PreBlockerDone
  <2>2. Abstract!AppliedUpgrade
    BY <1>1, <1>3, <1>4, <1>5, <2>1
    DEF Applies, Due, Skipped, NoPlan, Plan, Abstract!AppliedUpgrade, Abstract!Due,
        Abstract!Scheduling
  <2>. QED  BY <1>1, <2>2 DEF Abstract!Block, NoBlock
<1>6. CASE ~Applies(disk)
  <2>1. begun.done = disk.done /\ begun.plan = IF Due(disk) THEN NoPlan ELSE disk.plan
    BY <1>6, CommitIs, PreBlockerDone
  <2>2. disk'.ver = disk.ver
    BY <1>4, <1>6 DEF CarefulInv, Told
  <2>3. Abstract!OrdinaryBlock \/ Abstract!SkippedUpgrade
    BY <1>1, <1>3, <1>6, <2>1, <2>2
    DEF Applies, Due, Skipped, NoPlan, Plan, Abstract!OrdinaryBlock, Abstract!SkippedUpgrade,
        Abstract!Due, Abstract!Scheduling
  <2>. QED  BY <1>1, <2>3 DEF Abstract!Block, NoBlock
<1>. QED  BY <1>5, <1>6

(* Coordinated: a node whose operator is careful implements UpgradePlan.    *)
(* Deciding and committing a block are its steps; executing, proposing,     *)
(* crashing and restarting are not seen there.                              *)
THEOREM Implements == ASSUME Careful PROVE Spec => Coordinated
<1>. DEFINE absvars == <<disk.height, disk.plan, disk.done, disk.ver, skip, decided>>
<1>1. Init => Abstract!Init
  BY DEF Init, Abstract!Init, NoState, NoPlan, NoBlock, Old
<1>2. IInv /\ CarefulInv /\ [Next]_vars => [Abstract!Next]_absvars
  <2>. SUFFICES ASSUME IInv, CarefulInv, [Next]_vars PROVE [Abstract!Next]_absvars
    OBVIOUS
  <2>1. CASE Commit
    BY <2>1, CommitIsBlock DEF Abstract!Next
  <2>2. ASSUME NEW tx \in Tx, Decide(tx) PROVE Abstract!Next
    BY <2>2
    DEF Decide, volatile, Tx, Plan, NoPlan, NoBlock, Abstract!Next, Abstract!Decide
  <2>3. CASE ~Commit /\ ~(\E tx \in Tx : Decide(tx))
    <3>1. UNCHANGED <<disk, skip, decided>>
      BY <2>3
      DEF Next, Start, InitChain, ProcessProposal, OptimisticExecution, MigrateParams,
          FinalizeBlock, Finish, Crash, CrashWhileDumping, TakeDown, Down, Stopped,
          vars, durable, volatile
    <3>. QED  BY <3>1
  <2>. QED  BY <2>1, <2>2, <2>3
<1>. QED  BY <1>1, <1>2, Invariant, CarefulInvariant, PTL DEF Spec, Coordinated, Abstract!Spec
=============================================================================
