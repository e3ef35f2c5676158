------------------------------ MODULE Upgrade -------------------------------
(***************************************************************************)
(* The life of a node through a software upgrade: app/upgrades.go, the      *)
(* start-up and the ABCI handlers of app/app.go.                            *)
(*                                                                          *)
(* A node is a process that runs one of two binaries, a committed state on  *)
(* disk and the file upgrade-info.json.  The network proposes and decides   *)
(* blocks; the process may execute a proposal optimistically, crash at any  *)
(* step, and be restarted with either binary.  The upgrade keeper and       *)
(* baseapp are dependencies.                                                *)
(***************************************************************************)
EXTENDS Naturals, FiniteSets

CONSTANTS Added,      \* StoreUpgrades.Added of the new binary's upgrade
          Legacy,     \* the old binary keeps the consensus params in x/params,
                      \* and executes nothing optimistically (an older SDK)
          Careful,    \* binaries are only exchanged when upgrade-info.json says so
          MaxHeight,  \* bound on the height of the chain
          MaxCrashes  \* bound on the number of crashes

ASSUME FlagAssumption == Legacy \in BOOLEAN /\ Careful \in BOOLEAN
ASSUME BoundAssumption == MaxHeight \in Nat \ {0} /\ MaxCrashes \in Nat

VARIABLES
    proc,      \* the process: down, up, stuck (FinalizeBlock failed), refused to start
    binary,    \* the installed binary
    skip,      \* --unsafe-skip-upgrades, the same in the whole network
    crashes,   \* crashes so far
    disk,      \* the committed state
    info,      \* upgrade-info.json
    decided,   \* the block that the network decided for the next height
    cms,       \* the root multi-store of the process
    once,      \* ChainApp.once has run
    verified,  \* the keeper's downgradeVerified
    oe,        \* the optimistic execution
    discarded, \* this process has thrown away a finished optimistic execution
    work       \* finalizeBlockState

durable  == <<skip, disk, info, decided>>
volatile == <<cms, once, verified, oe, discarded, work>>
vars == <<proc, binary, crashes, durable, volatile>>

Old == "v1"
New == "v2"
Binary == {Old, New}

(* Upgrades: the list compiled into a binary.                               *)
Upgrades(b) == IF b = New THEN {New} ELSE {}

(* Mutant: no handler is registered.                                        *)
HandlersNone(b) == {}

(* Mutant: every name has a handler.                                        *)
HandlersOfAll(b) == Binary

(* RegisterUpgradeHandlers: the names with a handler.  A binary without     *)
(* upgrades registers its own version.                                      *)
Handlers(b) == IF Upgrades(b) = {} THEN {b} ELSE Upgrades(b)

(* The stores mounted by a binary that not every chain has.                 *)
Stores(b) == IF b = New THEN Added ELSE {}

Abstract == INSTANCE UpgradePlan WITH
    Name <- Binary, Genesis <- Old, height <- disk.height, plan <- disk.plan,
    done <- disk.done, software <- disk.ver,
    next <- decided

NoPlan == Abstract!NoPlan
Plan   == Abstract!Plan
Tx     == Plan \cup {NoPlan}   \* what a block may schedule
NoBlock == Abstract!NoBlock

NoFile     == [name |-> "none", height |-> 0]
BrokenFile == [name |-> "broken", height |-> 0]
UpgradeInfo == [name : Binary, height : 1 .. MaxHeight] \cup {NoFile, BrokenFile}

(* Where the consensus params are: nowhere, in the legacy subspace of        *)
(* baseapp, or in x/consensus, from there or by the genesis.                 *)
Params == {"none", "legacy", "migrated", "set"}
Missing == {"none", "legacy"}   \* "collections: not found"

State == [height : 0 .. MaxHeight, plan : Tx, done : [Binary -> 0 .. MaxHeight],
          ver : Binary, software : Binary, params : Params,
          stores : SUBSET Added]

NoState == [height |-> 0, plan |-> NoPlan, done |-> [n \in Binary |-> 0],
            ver |-> Old, software |-> Old, params |-> "none", stores |-> {}]

(* What an execution of a block leaves: it failed, or a state; and what it  *)
(* read as consensus params.                                                *)
Result == [ok : {"yes", "no"}, state : State, read : Params]
NoResult == [ok |-> "no", state |-> NoState, read |-> "none"]
NoOE == [stage |-> "none", tx |-> NoBlock, result |-> NoResult]
NoWork == [of |-> "none", result |-> NoResult]

TypeOK ==
    /\ proc \in {"down", "up", "stuck", "refused"}
    /\ binary \in Binary
    /\ skip \subseteq 1 .. MaxHeight
    /\ crashes \in 0 .. MaxCrashes
    /\ disk \in State /\ cms \in State
    /\ info \in UpgradeInfo
    /\ decided \in Tx \cup {NoBlock}
    /\ once \in BOOLEAN /\ verified \in BOOLEAN /\ discarded \in BOOLEAN
    /\ oe \in [stage : {"none", "running", "done"}, tx : Tx \cup {NoBlock}, result : Result]
    /\ work \in [of : {"none", "genesis", "block"}, result : Result]

Init ==
    /\ proc = "down"
    /\ binary \in IF Careful THEN {Old} ELSE Binary
    /\ skip \in {{}} \cup {{h} : h \in 1 .. MaxHeight}
    /\ crashes = 0
    /\ disk = NoState /\ cms = NoState
    /\ info = NoFile
    /\ decided = NoBlock
    /\ once = FALSE /\ verified = FALSE /\ discarded = FALSE
    /\ oe = NoOE /\ work = NoWork

-----------------------------------------------------------------------------
(* The upgrade keeper. *)

Due(s)     == s.plan # NoPlan /\ s.plan.height <= s.height + 1
Skipped(s) == s.height + 1 \in skip

(* The upgrade that was applied last.                                       *)
Last(s) == {n \in Binary : s.done[n] # 0 /\ \A m \in Binary : s.done[m] <= s.done[n]}

(* "wrong app version": checked by the first block of a process only.       *)
WrongVersion(s, b) ==
    /\ ~verified
    /\ ~Due(s) \/ Skipped(s)
    /\ ~(Last(s) \subseteq Handlers(b))

(* "UPGRADE NEEDED".                                                        *)
Needed(s, b) == Due(s) /\ ~Skipped(s) /\ s.plan.name \notin Handlers(b)

(* "BINARY UPDATED BEFORE TRIGGER".                                         *)
TooEarly(s, b) == s.plan # NoPlan /\ ~Due(s) /\ s.plan.name \in Handlers(b)

(* Mutant: the handler returns without mm.RunMigrations.                    *)
RunMigrationsForgotten(s, b) ==
    [s EXCEPT !.done = [s.done EXCEPT ![s.plan.name] = s.height + 1], !.plan = NoPlan]

(* The handler of the applied upgrade: the module versions of the binary.   *)
RunMigrations(s, b) ==
    [s EXCEPT !.ver = b, !.done = [s.done EXCEPT ![s.plan.name] = s.height + 1],
              !.plan = NoPlan]

(* Mutant: app.SetPreBlocker is not called.                                 *)
PreBlockerMissing(s, b) == s

(* ChainApp.PreBlocker: the upgrade module is the only one of its order.    *)
PreBlocker(s, b) ==
    IF ~Due(s) THEN s
    ELSE IF Skipped(s) THEN [s EXCEPT !.plan = NoPlan]
    ELSE RunMigrations(s, b)

(* MsgSoftwareUpgrade: not in the past, and never the same name twice.      *)
Schedule(s, tx) ==
    IF tx \in Plan /\ tx.height >= s.height + 1 /\ s.done[tx.name] = 0 THEN tx ELSE s.plan

(* internalFinalizeBlock of a block on top of s.                            *)
Execute(s, tx, b) ==
    LET begun == PreBlocker(s, b)
    IN  IF WrongVersion(s, b) \/ Needed(s, b) \/ TooEarly(s, b)
        THEN [NoResult EXCEPT !.read = s.params]
        ELSE [ok |-> "yes", read |-> s.params,
              state |-> [begun EXCEPT !.height = s.height + 1, !.software = b,
                                      !.plan = Schedule(begun, tx)]]

(* Mutant: the file names the block after the upgrade.                      *)
LeavesNextHeight(s) ==
    /\ verified' = TRUE
    /\ info' = IF Needed(s, binary) /\ ~WrongVersion(s, binary)
               THEN [name |-> s.plan.name, height |-> s.height + 2] ELSE info

(* An execution marks the check of the version as done and, when an upgrade *)
(* is needed, dumps upgrade-info.json.                                      *)
Leaves(s) ==
    /\ verified' = TRUE
    /\ info' = IF Needed(s, binary) /\ ~WrongVersion(s, binary)
               THEN [name |-> s.plan.name, height |-> s.height + 1] ELSE info

-----------------------------------------------------------------------------
(* The process. *)

(* Mutant: the store loader is never set.                                   *)
StoreLoaderMissing(b) == {}

(* Mutant: the store loader acts when the upgrade's block is committed.     *)
StoreLoaderOffByOne(b) ==
    IF info.height \notin skip /\ info.name \in Upgrades(b) /\ info.height = disk.height
    THEN Added ELSE {}

(* The store loader is set for the upgrade of the file, unless it is to be  *)
(* skipped; it adds stores when the file names the next height.             *)
StoreLoader(b) ==
    IF info.height \notin skip /\ info.name \in Upgrades(b) /\ info.height = disk.height + 1
    THEN Added ELSE {}

(* A store that is mounted but neither known nor added cannot be loaded.    *)
Loads(b) == disk.height = 0 \/ Stores(b) \subseteq disk.stores \cup StoreLoader(b)

(* The binary of a careful operator is the one that was told last.          *)
MayRun(b) == Careful => b = binary \/ b = info.name

(* NewChainApp: a file that cannot be read and stores that cannot be loaded *)
(* are panics.                                                              *)
Start(b) ==
    /\ proc = "down"
    /\ MayRun(b)
    /\ binary' = b
    /\ proc' = IF info # BrokenFile /\ Loads(b) THEN "up" ELSE "refused"
    /\ UNCHANGED <<crashes, durable, volatile>>

(* The features of this repository's app that such a binary lacks.       *)
Has50(b) == b = New \/ ~Legacy

(* InitChainer: sets the module versions; the genesis has consensus params. *)
InitChain ==
    /\ proc = "up"
    /\ cms.height = 0 /\ work = NoWork
    /\ work' = [of |-> "genesis",
                result |-> [NoResult EXCEPT !.state =
                   [cms EXCEPT !.ver = binary, !.software = binary,
                               !.params = IF Has50(binary) THEN "set" ELSE "legacy"]]]
    /\ UNCHANGED <<proc, binary, crashes, durable, cms, once, verified, oe, discarded>>

Ready == proc = "up" /\ (cms.height # 0 \/ work.of = "genesis")
Base  == IF cms.height = 0 THEN work.result.state ELSE cms

(* ProcessProposal of a new round, with optimistic execution: what another  *)
(* round executed is abandoned, once its goroutine has returned.  The first *)
(* block is not executed optimistically.                                    *)
ProcessProposal(tx) ==
    /\ proc = "up" /\ Has50(binary)
    /\ decided = NoBlock /\ cms.height \in 1 .. MaxHeight - 1
    /\ oe.stage # "running"
    /\ oe' = [stage |-> "running", tx |-> tx, result |-> NoResult]
    /\ discarded' = (discarded \/ oe.stage = "done")
    /\ UNCHANGED <<proc, binary, crashes, durable, cms, once, verified, work>>

(* The goroutine of the optimistic execution.                               *)
OptimisticExecution ==
    /\ proc = "up"
    /\ oe.stage = "running"
    /\ oe' = [oe EXCEPT !.stage = "done", !.result = Execute(cms, oe.tx, binary)]
    /\ Leaves(cms)
    /\ UNCHANGED <<proc, binary, crashes, skip, disk, decided, cms, once, discarded, work>>

(* initParamsKeeper: the legacy subspaces that are given a key table.  Of    *)
(* another one, x/params panics when a parameter that is there is read.     *)
KeyTables == {"ibc", "transfer", "icacontroller", "icahost", "packetfowardmiddleware"}

(* ChainApp.FinalizeBlock, the part in once.Do: consensus params that are   *)
(* missing are migrated from x/params, in an uncached context.  On a new    *)
(* chain the genesis is not in that context yet, and there are none.        *)
MigrateParams ==
    /\ Ready /\ Has50(binary)
    /\ decided # NoBlock
    /\ ~once
    /\ once' = TRUE
    /\ IF cms.params = "legacy" /\ "baseapp" \notin KeyTables
       THEN proc' = "stuck" /\ UNCHANGED cms
       ELSE /\ cms' = IF cms.params \in Missing THEN [cms EXCEPT !.params = "migrated"]
                      ELSE cms
            /\ UNCHANGED proc
    /\ UNCHANGED <<binary, crashes, durable, verified, oe, discarded, work>>

(* ChainApp.FinalizeBlock, BaseApp's part: take the result of an optimistic *)
(* execution of the decided block, or execute it now.                       *)
Finalizing ==
    /\ Ready
    /\ decided # NoBlock
    /\ once \/ ~Has50(binary)
    /\ oe.stage # "running" /\ work.of # "block"

Finish(result) ==
    /\ proc' = IF result.ok = "yes" THEN "up" ELSE "stuck"
    /\ work' = [of |-> "block", result |-> result]
    /\ UNCHANGED <<binary, crashes, skip, disk, decided, cms, once>>

(* Mutant: what was executed for another round's proposal is not abandoned. *)
FinalizeBlockAnyProposal ==
    /\ Finalizing
    /\ \/ /\ oe.stage = "done"
          /\ Finish(oe.result)
          /\ UNCHANGED <<info, verified, oe, discarded>>
       \/ /\ Finish(Execute(Base, decided, binary))
          /\ Leaves(Base)
          /\ oe' = NoOE
          /\ discarded' = (discarded \/ oe.stage = "done")

FinalizeBlock ==
    /\ Finalizing
    /\ \/ /\ oe.stage = "done" /\ oe.tx = decided
          /\ Finish(oe.result)
          /\ UNCHANGED <<info, verified, oe, discarded>>
       \/ /\ Finish(Execute(Base, decided, binary))
          /\ Leaves(Base)
          /\ oe' = NoOE
          /\ discarded' = (discarded \/ oe.stage = "done")

(* What the block did not write itself is there from the uncached context.  *)
Commit ==
    /\ proc = "up"
    /\ work.of = "block"
    /\ LET s == work.result.state
       IN  disk' = [s EXCEPT !.params = IF s.params \in Missing /\ cms.params = "migrated"
                                       THEN "migrated" ELSE s.params,
                             !.stores = disk.stores \cup Stores(binary)]
    /\ cms' = disk'
    /\ decided' = NoBlock
    /\ oe' = NoOE /\ work' = NoWork
    /\ UNCHANGED <<proc, binary, crashes, skip, info, once, verified, discarded>>

-----------------------------------------------------------------------------
(* The network and the operator. *)

Decide(tx) ==
    /\ decided = NoBlock
    /\ disk.height < MaxHeight
    /\ decided' = tx
    /\ UNCHANGED <<proc, binary, crashes, skip, disk, info, volatile>>

Down ==
    /\ proc' = "down"
    /\ cms' = disk
    /\ once' = FALSE /\ verified' = FALSE /\ discarded' = FALSE
    /\ oe' = NoOE /\ work' = NoWork
    /\ UNCHANGED <<binary, skip, disk, decided>>

Crash ==
    /\ proc = "up"
    /\ crashes < MaxCrashes
    /\ crashes' = crashes + 1
    /\ Down
    /\ UNCHANGED info

(* upgrade-info.json is not written atomically.                             *)
CrashWhileDumping ==
    /\ oe.stage = "running" \/ Finalizing
    /\ proc = "up"
    /\ Needed(Base, binary) /\ ~WrongVersion(Base, binary)
    /\ crashes < MaxCrashes
    /\ crashes' = crashes + 1
    /\ Down
    /\ info' = BrokenFile

(* The operator takes down a process that is stuck or did not start, and    *)
(* removes a file that cannot be read.                                      *)
TakeDown ==
    /\ proc \in {"stuck", "refused"}
    /\ Down
    /\ info' = IF proc = "refused" /\ info = BrokenFile THEN NoFile ELSE info
    /\ UNCHANGED crashes

Stopped ==
    /\ disk.height = MaxHeight
    /\ UNCHANGED vars

Next ==
    \/ \E b \in Binary : Start(b)
    \/ InitChain
    \/ \E tx \in Tx : ProcessProposal(tx) \/ Decide(tx)
    \/ OptimisticExecution \/ MigrateParams \/ FinalizeBlock \/ Commit
    \/ Crash \/ CrashWhileDumping \/ TakeDown
    \/ Stopped

Spec == Init /\ [][Next]_vars

(* The process makes progress, the network decides every height, and the    *)
(* operator restarts what is down, with the binary named by the file when   *)
(* he is asked to again and again.  Crashes are finitely many.              *)
Fairness ==
    /\ WF_vars(InitChain) /\ WF_vars(OptimisticExecution) /\ WF_vars(MigrateParams)
    /\ WF_vars(FinalizeBlock) /\ WF_vars(Commit) /\ WF_vars(TakeDown)
    /\ WF_vars(\E tx \in Tx : Decide(tx))
    /\ WF_vars(\E b \in Binary : Start(b))
    /\ SF_vars(Start(New))

FairSpec == Spec /\ Fairness

-----------------------------------------------------------------------------
(* Properties. *)

(* With a careful operator, the committed states of a node go through       *)
(* exactly the steps of a coordinated upgrade, whatever crashes, proposals  *)
(* and optimistic executions there are.                                     *)
Coordinated == Abstract!Spec

(* ... and every block is executed by the software whose modules' state it  *)
(* is on: nodes never disagree about the rules of a block.                  *)
RightSoftware == disk.software = disk.ver

CommitsBlock == disk'.height = disk.height + 1

(* No binary executes a block before the upgrade it is named after.         *)
NeverTooEarly ==
    [][CommitsBlock /\ disk.plan # NoPlan /\ ~Due(disk)
          => disk.plan.name # binary]_vars

(* An upgrade that is due and not skipped is applied in its block, by the   *)
(* binary of its name; a block of any other kind leaves the versions of     *)
(* the modules alone.                                                       *)
AppliedInItsBlock ==
    [][CommitsBlock /\ disk.height # 0 =>
          IF Due(disk) /\ ~Skipped(disk)
          THEN /\ disk.plan.name = binary
               /\ disk'.ver = binary
               /\ disk'.done[disk.plan.name] = disk'.height
          ELSE disk'.ver = disk.ver /\ disk'.done = disk.done]_vars

(* A binary that the last upgrade does not name executes no block,          *)
(* unless the one check of the process was spent on an optimistic execution *)
(* that was thrown away, or on a block with an upgrade that is due.         *)
NeverDowngraded ==
    [][CommitsBlock /\ ~(Due(disk) /\ ~Skipped(disk)) /\ ~discarded
          => Last(disk) \subseteq {binary}]_vars

(* With a careful operator, a process refuses to start only because of a    *)
(* file that was cut off by a crash: the stores that the upgrade adds are   *)
(* always announced by the file that the other binary left.                 *)
RefusalsExplained == proc = "refused" => info = BrokenFile

(* When governance plans no upgrade to the version that is running, the     *)
(* chain gets through every upgrade.                                        *)
GetsThrough ==
    [](disk.plan.name # Old) => <>(disk.height = MaxHeight)
=============================================================================
