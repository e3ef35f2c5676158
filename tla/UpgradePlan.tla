---------------------------- MODULE UpgradePlan -----------------------------
(***************************************************************************)
(* What a coordinated upgrade promises: the blocks of the chain, the plan   *)
(* that governance scheduled, and which version of the software every block *)
(* belongs to.  No processes, no crashes, no files: a block is one step.    *)
(***************************************************************************)
EXTENDS Naturals

CONSTANTS Name,       \* the versions of the software, which upgrades are named after
          Genesis,    \* the version that starts the chain
          MaxHeight   \* bound on the height of the chain

VARIABLES height,     \* the last block
          plan,       \* the scheduled upgrade, or NoPlan
          done,       \* the height at which each upgrade was applied, 0 for not yet
          software,   \* the version of the last block
          skip,       \* the heights at which the network agreed to skip an upgrade
          next        \* the decided block: the upgrade it schedules, NoPlan, or NoBlock

NoPlan == [name |-> "none", height |-> 0]
Plan == [name : Name, height : 1 .. MaxHeight]
NoBlock == [name |-> "undecided", height |-> 0]

Init ==
    /\ height = 0
    /\ plan = NoPlan
    /\ done = [n \in Name |-> 0]
    /\ software = Genesis
    /\ skip \subseteq 1 .. MaxHeight
    /\ next = NoBlock

Due == plan # NoPlan /\ plan.height <= height + 1

(* A block schedules an upgrade that was not applied before and is not in   *)
(* the past, in place of the plan p there was.                              *)
Scheduling(p) ==
    plan' = IF next \in Plan /\ next.height >= height + 1 /\ done'[next.name] = 0
            THEN next ELSE p

OrdinaryBlock ==
    /\ ~Due
    /\ Scheduling(plan)
    /\ UNCHANGED <<done, software>>

SkippedUpgrade ==
    /\ Due /\ height + 1 \in skip
    /\ Scheduling(NoPlan)
    /\ UNCHANGED <<done, software>>

AppliedUpgrade ==
    /\ Due /\ height + 1 \notin skip
    /\ software' = plan.name
    /\ done' = [done EXCEPT ![plan.name] = height + 1]
    /\ Scheduling(NoPlan)

Decide(block) ==
    /\ next = NoBlock /\ height < MaxHeight
    /\ next' = block
    /\ UNCHANGED <<height, plan, done, software, skip>>

Block ==
    /\ next # NoBlock
    /\ next' = NoBlock
    /\ height' = height + 1
    /\ OrdinaryBlock \/ SkippedUpgrade \/ AppliedUpgrade
    /\ UNCHANGED skip

Next == Block \/ \E block \in Plan \cup {NoPlan} : Decide(block)

Spec == Init /\ [][Next]_<<height, plan, done, software, skip, next>>
=============================================================================
