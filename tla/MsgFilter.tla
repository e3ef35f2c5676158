----------------------------- MODULE MsgFilter ------------------------------
(***************************************************************************)
(* The message filter of app/decorators: an ante decorator that refuses     *)
(* transactions with a message of a blocked type, also when it is wrapped   *)
(* in authz's MsgExec.  The decorator is a template; here it is set.        *)
(*                                                                          *)
(* A transaction is a forest of messages, numbered so that a message comes  *)
(* after the one that wraps it.  What runs is decided by the modules that   *)
(* unwrap messages, one level at a time: authz, and those of app.go that    *)
(* the filter does not look into.                                           *)
(***************************************************************************)
EXTENDS Naturals

CONSTANTS Plain,    \* the types of messages that wrap none
          Size      \* bound on the number of messages of a transaction

Exec     == "exec"      \* authz's MsgExec
Propose  == "propose"   \* MsgSubmitProposal of gov or group, to be voted on
Dispatch == "dispatch"  \* a message that is not authz's and has others run in
                        \* the same transaction: group's MsgSubmitProposal,
                        \* MsgVote (with EXEC_TRY) and MsgExec, a call of a
                        \* wasm contract, a packet for the ICA host

Wrapper == {Exec, Propose, Dispatch}
Kind    == Plain \cup Wrapper

ASSUME PlainAssumption == Plain \cap Wrapper = {}
ASSUME SizeAssumption == Size \in Nat \ {0}

Msg == 1 .. Size

(* "unused" numbers are for transactions with fewer messages; valid is      *)
(* whether the wrapped messages of a MsgExec can be unpacked.               *)
Tx == {t \in [kind : [Msg -> Kind \cup {"unused"}], in : [Msg -> 0 .. Size - 1],
              valid : [Msg -> BOOLEAN]] :
          \A m \in Msg :
             /\ t.in[m] < m
             /\ t.in[m] # 0 => t.kind[t.in[m]] \in Wrapper
             /\ t.kind[m] = "unused" => t.in[m] = 0
             /\ t.kind[m] # Exec => t.valid[m]}

NoTx == [kind |-> [m \in Msg |-> "unused"], in |-> [m \in Msg |-> 0],
         valid |-> [m \in Msg |-> TRUE]]

VARIABLES
    blockedTypes,  \* of the decorator
    pc,            \* "idle", "running" or "refused"
    tx,            \* the transaction
    done           \* its messages that have run

vars == <<blockedTypes, pc, tx, done>>

Used(t) == {m \in Msg : t.kind[m] # "unused"}
Inside(t, m) == {n \in Used(t) : t.in[n] = m}

(* GetMsgs.                                                                 *)
GetMsgs(t) == {m \in Used(t) : t.in[m] = 0}

(* FilterDecorator: the blocked types are fixed when it is made.            *)
FilterDecorator(types) == blockedTypes = types

Init ==
    /\ \E types \in SUBSET Kind : FilterDecorator(types)
    /\ pc = "idle" /\ tx = NoTx /\ done = {}

-----------------------------------------------------------------------------
(* The filter. *)

(* Mutant: nested messages are compared, but not searched further.          *)
HasDisallowedMessageOneLevel(t, msgs) ==
    \E m \in msgs \cup UNION {Inside(t, n) : n \in {n \in msgs : t.kind[n] = Exec}} :
        ~t.valid[m] \/ t.kind[m] \in blockedTypes

(* Mutant: what any message wraps is searched.                              *)
HasDisallowedMessageAnywhere(t, msgs) ==
    \E m \in Used(t) : ~t.valid[m] \/ t.kind[m] \in blockedTypes

(* HasDisallowedMessage: a message is disallowed by its type, or as a       *)
(* MsgExec that cannot be unpacked or wraps a disallowed message.           *)
HasDisallowedMessage(t, msgs) ==
    LET disallowed[m \in Msg] ==
            \/ t.kind[m] = Exec /\ (~t.valid[m] \/ \E n \in Inside(t, m) : disallowed[n])
            \/ t.kind[m] \in blockedTypes
    IN  \E m \in msgs : disallowed[m]

AnteHandle(t) ==
    /\ tx' = t
    /\ pc' = IF HasDisallowedMessage(t, GetMsgs(t)) THEN "refused" ELSE "running"
    /\ UNCHANGED <<blockedTypes, done>>

-----------------------------------------------------------------------------
(* What runs. *)

(* The messages of the transaction run, and those of a MsgExec or of a      *)
(* dispatching message after it; what is proposed waits for the vote, and   *)
(* is no part of this run.                                                  *)
Running  == {n \in done : tx.kind[n] \in {Exec, Dispatch}}
Runnable == GetMsgs(tx) \cup UNION {Inside(tx, m) : m \in Running}

RunMsg(m) ==
    /\ pc = "running"
    /\ m \in Runnable \ done
    /\ tx.valid[m]
    /\ done' = done \cup {m}
    /\ UNCHANGED <<blockedTypes, pc, tx>>

(* The transaction is over: it ran, failed for a lack of grants or for      *)
(* another reason, or was refused.                                          *)
End ==
    /\ pc # "idle"
    /\ pc' = "idle" /\ tx' = NoTx /\ done' = {}
    /\ UNCHANGED blockedTypes

Next ==
    \/ pc = "idle" /\ \E t \in Tx : AnteHandle(t)
    \/ \E m \in Msg : RunMsg(m)
    \/ End

Spec == Init /\ [][Next]_vars

-----------------------------------------------------------------------------
(* Properties. *)

(* n is one of the messages that wrap m, up to the transaction.             *)
Wraps(t, n, m) ==
    \E path \in SUBSET (n .. m - 1) :
        n \in path /\ \A k \in (path \ {n}) \cup {m} : t.in[k] \in path

(* No message of a blocked type runs, however deeply MsgExecs wrap it, but  *)
(* for one hole: inside a dispatching message that has run and is not of a  *)
(* blocked type itself.  The filter stops everything that it is to stop     *)
(* only where the dispatching messages are blocked as well.                 *)
NothingBlockedRuns ==
    \A m \in done : tx.kind[m] \in blockedTypes =>
        \E n \in done : /\ tx.kind[n] = Dispatch /\ Dispatch \notin blockedTypes
                        /\ Wraps(tx, n, m)

(* The filter does not look into m.                                         *)
Hidden(t, m) ==
    \E n \in Used(t) : t.kind[n] \in {Propose, Dispatch} /\ Wraps(t, n, m)

(* The filter refuses no other transaction: there is a message of a blocked *)
(* type that is not hidden in a proposal or a dispatching message, or one   *)
(* such is a MsgExec that cannot be unpacked.                               *)
OthersUnhindered ==
    pc = "refused" =>
        \E m \in Used(tx) : (tx.kind[m] \in blockedTypes \/ ~tx.valid[m]) /\ ~Hidden(tx, m)
=============================================================================
