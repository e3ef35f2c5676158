-------------------------- MODULE MsgFilter_proofs --------------------------
(***************************************************************************)
(* What the message filter of app/decorators lets through and what it       *)
(* refuses, for transactions of any size and depth.                         *)
(*                                                                          *)
(* The filter is a recursion over the nesting of messages.  A message comes *)
(* after the one that wraps it, so the recursion has a solution, found from *)
(* the last message backwards (FilterExists); of the solution the proofs    *)
(* use its equation alone.                                                  *)
(***************************************************************************)
EXTENDS MsgFilter, SumTheorems

(* What disallows a message m of t, when f says which messages are.         *)
Disallows(f, t, m) ==
    \/ t.kind[m] = Exec /\ (~t.valid[m] \/ \E n \in Inside(t, m) : f[n])
    \/ t.kind[m] \in blockedTypes

IsFilter(f, t, S) == f = [m \in S |-> Disallows(f, t, m)]

LEMMA MsgFinite == Size \in Nat /\ Msg \subseteq Nat
BY SizeAssumption DEF Msg

LEMMA InsideComesAfter ==
    ASSUME NEW t \in Tx, NEW m \in Msg, NEW n \in Inside(t, m)
    PROVE  n \in Msg /\ n > m
BY DEF Inside, Used, Tx

Last(k) == {m \in Msg : m > Size - k}

LEMMA FilterExists ==
    ASSUME NEW t \in Tx
    PROVE  \E f : IsFilter(f, t, Msg)
<1>. DEFINE Bad == {k \in 0 .. Size : ~\E f : IsFilter(f, t, Last(k))}
<1>. SUFFICES ASSUME ~\E f : IsFilter(f, t, Msg) PROVE FALSE
  OBVIOUS
<1>1. Last(0) = {} /\ Last(Size) = Msg
  BY MsgFinite DEF Last, Msg
<1>2. Size \in Bad
  BY <1>1, MsgFinite
<1>3. PICK k \in Bad : \A j \in Bad : k <= j
  <2>1. Bad \in SUBSET Nat /\ Bad # {}
    BY <1>2
  <2>. HIDE DEF Bad
  <2>. QED  BY <2>1, LeastNat
<1>4. k # 0
  <2>1. IsFilter([m \in {} |-> TRUE], t, {})
    BY DEF IsFilter
  <2>. QED  BY <1>1, <2>1
<1>5. k - 1 \in 0 .. Size /\ k - 1 \notin Bad
  <2>1. k \in 0 .. Size /\ Size \in Nat
    BY SizeAssumption
  <2>2. k - 1 \in 0 .. Size /\ ~(k <= k - 1)
    BY <1>4, <2>1
  <2>. HIDE DEF Bad
  <2>. QED  BY <1>3, <2>2
<1>6. PICK f : IsFilter(f, t, Last(k - 1))
  BY <1>5
<1>. DEFINE g == [m \in Last(k) |-> Disallows(f, t, m)]
<1>7. ASSUME NEW m \in Last(k)
      PROVE  Inside(t, m) \subseteq Last(k - 1)
  <2>. SUFFICES ASSUME NEW n \in Inside(t, m) PROVE n \in Last(k - 1)
    OBVIOUS
  <2>1. m \in Msg /\ m > Size - k /\ m \in Nat /\ k \in Nat
    BY MsgFinite DEF Last
  <2>2. n \in Msg /\ n > m /\ n \in Nat
    BY <2>1, InsideComesAfter, MsgFinite
  <2>. QED  BY <2>1, <2>2, MsgFinite DEF Last
<1>8. ASSUME NEW m \in Last(k - 1) PROVE m \in Last(k) /\ g[m] = f[m]
  <2>1. m \in Last(k)
    BY MsgFinite DEF Last
  <2>2. f[m] = Disallows(f, t, m)
    BY <1>6 DEF IsFilter
  <2>. QED  BY <2>1, <2>2
<1>9. ASSUME NEW m \in Last(k) PROVE Disallows(g, t, m) = Disallows(f, t, m)
  <2>1. \A n \in Inside(t, m) : g[n] = f[n]
    BY <1>7, <1>8
  <2>. HIDE DEF g
  <2>. QED  BY <2>1 DEF Disallows
<1>10. IsFilter(g, t, Last(k))
  BY <1>9 DEF IsFilter
<1>. QED  BY <1>3, <1>10

(* The filter disallows m, top-level or not.                                *)
Filter(t) == CHOOSE f : IsFilter(f, t, Msg)
Disallowed(t, m) == Filter(t)[m]

LEMMA FilterIs ==
    ASSUME NEW t \in Tx, NEW m \in Msg
    PROVE  Disallowed(t, m) = Disallows(Filter(t), t, m)
<1>1. IsFilter(Filter(t), t, Msg)
  BY FilterExists DEF Filter
<1>. DEFINE f == Filter(t)
<1>2. f = [k \in Msg |-> Disallows(f, t, k)]
  BY <1>1 DEF IsFilter
<1>. HIDE DEF f
<1>3. f[m] = Disallows(f, t, m)
  BY <1>2
<1>. QED  BY <1>3 DEF f, Disallowed

LEMMA FilterSearches ==
    ASSUME NEW t \in Tx, NEW msgs
    PROVE  HasDisallowedMessage(t, msgs) <=> \E m \in msgs : Disallowed(t, m)
BY DEF HasDisallowedMessage, Disallowed, Filter, IsFilter, Disallows

-----------------------------------------------------------------------------
(* The inductive invariant: nothing that has run is disallowed, but for     *)
(* what an unblocked dispatching message that has run wraps.                *)

Forest == tx \in Tx /\ done \subseteq Msg

Dispatched(m) ==
    \E n \in done : /\ tx.kind[n] = Dispatch /\ Dispatch \notin blockedTypes
                    /\ Wraps(tx, n, m)

Foreseen ==
    pc = "running" => /\ ~\E m \in GetMsgs(tx) : Disallowed(tx, m)
                      /\ \A m \in done : ~Disallowed(tx, m) \/ Dispatched(m)

Refused == pc = "refused" => \E m \in GetMsgs(tx) : Disallowed(tx, m)

IInv == Forest /\ Foreseen /\ Refused /\ (pc # "running" => done = {})

LEMMA NoTxIsOne == NoTx \in Tx
<1>1. 0 \in 0 .. Size - 1 /\ \A m \in Msg : 0 < m
  BY SizeAssumption DEF Msg
<1>. QED  BY <1>1 DEF NoTx, Tx, Exec

LEMMA AnteHandleStep ==
    ASSUME IInv, pc = "idle", NEW t \in Tx, AnteHandle(t)
    PROVE  IInv'
<1>1. tx' = t /\ done = {} /\ done' = {} /\ blockedTypes' = blockedTypes
  BY DEF AnteHandle, IInv
<1>2. pc' = IF \E m \in GetMsgs(t) : Disallowed(t, m) THEN "refused" ELSE "running"
  BY FilterSearches DEF AnteHandle
<1>3. \A m : Disallowed(t, m)' <=> Disallowed(t, m)
  BY <1>1 DEF Disallowed, Filter, IsFilter, Disallows
<1>. QED  BY <1>1, <1>2, <1>3 DEF IInv, Forest, Foreseen, Refused

(* What wraps a message wraps what is inside it.                            *)
LEMMA WrapsInside ==
    ASSUME NEW t \in Tx, NEW n \in Msg, NEW m \in Msg, NEW k \in Inside(t, m),
           Wraps(t, n, m)
    PROVE  Wraps(t, n, k)
<1>1. PICK path \in SUBSET (n .. m - 1) :
          n \in path /\ \A l \in (path \ {n}) \cup {m} : t.in[l] \in path
  BY DEF Wraps
<1>. DEFINE longer == path \cup {m}
<1>2. k \in Msg /\ k > m /\ t.in[k] = m
  BY InsideComesAfter DEF Inside
<1>3. longer \in SUBSET (n .. k - 1)
  <2>1. n \in Int /\ m \in Int /\ k \in Int
    BY <1>2, MsgFinite
  <2>2. n <= m - 1
    BY <1>1, <2>1
  <2>. QED  BY <1>1, <1>2, <2>1, <2>2
<1>4. n \in longer /\ \A l \in (longer \ {n}) \cup {k} : t.in[l] \in longer
  BY <1>1, <1>2
<1>. HIDE DEF longer
<1>. QED  BY <1>3, <1>4 DEF Wraps

LEMMA WrapsItsInside ==
    ASSUME NEW t \in Tx, NEW m \in Msg, NEW k \in Inside(t, m)
    PROVE  Wraps(t, m, k)
<1>. DEFINE path == {m}
<1>1. k \in Msg /\ k > m /\ t.in[k] = m
  BY InsideComesAfter DEF Inside
<1>2. path \in SUBSET (m .. k - 1)
  BY <1>1, MsgFinite
<1>3. m \in path /\ \A l \in (path \ {m}) \cup {k} : t.in[l] \in path
  BY <1>1
<1>. HIDE DEF path
<1>. QED  BY <1>2, <1>3 DEF Wraps

(* A message that may run is foreseen, by the filter or as dispatched.      *)
LEMMA RunnableForeseen ==
    ASSUME IInv, pc = "running", NEW m \in Runnable
    PROVE  ~Disallowed(tx, m) \/ Dispatched(m)
<1>1. tx \in Tx /\ done \subseteq Msg
  BY DEF IInv, Forest
<1>2. CASE m \in GetMsgs(tx)
  BY <1>2 DEF IInv, Foreseen
<1>3. CASE m \notin GetMsgs(tx)
  <2>1. PICK n \in done : tx.kind[n] \in {Exec, Dispatch} /\ m \in Inside(tx, n)
    BY <1>3 DEF Runnable, Running
  <2>2. n \in Msg /\ (~Disallowed(tx, n) \/ Dispatched(n))
    BY <1>1, <2>1 DEF IInv, Foreseen
  <2>3. ASSUME Dispatched(n) PROVE Dispatched(m)
    <3>1. PICK k \in done : /\ tx.kind[k] = Dispatch /\ Dispatch \notin blockedTypes
                           /\ Wraps(tx, k, n)
      BY <2>3 DEF Dispatched
    <3>2. Wraps(tx, k, m)
      BY <1>1, <2>1, <2>2, <3>1, WrapsInside
    <3>. QED  BY <3>1, <3>2 DEF Dispatched
  <2>4. ASSUME ~Disallowed(tx, n) PROVE ~Disallowed(tx, m) \/ Dispatched(m)
    <3>1. ~Disallows(Filter(tx), tx, n)
      BY <1>1, <2>2, <2>4, FilterIs
    <3>2. CASE tx.kind[n] = Exec
      BY <2>1, <3>1, <3>2 DEF Disallows, Disallowed
    <3>3. CASE tx.kind[n] = Dispatch
      <4>1. Dispatch \notin blockedTypes
        BY <3>1, <3>3 DEF Disallows
      <4>2. Wraps(tx, n, m)
        BY <1>1, <2>1, <2>2, WrapsItsInside
      <4>. QED  BY <2>1, <3>3, <4>1, <4>2 DEF Dispatched
    <3>. QED  BY <2>1, <3>2, <3>3
  <2>. QED  BY <2>2, <2>3, <2>4
<1>. QED  BY <1>2, <1>3

LEMMA RunMsgStep ==
    ASSUME IInv, NEW m \in Msg, RunMsg(m)
    PROVE  IInv'
<1>1. /\ pc = "running" /\ m \in Runnable /\ done' = done \cup {m}
      /\ UNCHANGED <<blockedTypes, pc, tx>>
  BY DEF RunMsg
<1>2. tx \in Tx /\ done \subseteq Msg
  BY DEF IInv, Forest
<1>3. ~Disallowed(tx, m) \/ Dispatched(m)
  BY <1>1, RunnableForeseen
<1>4. \A n : Disallowed(tx, n)' <=> Disallowed(tx, n)
  BY <1>1 DEF Disallowed, Filter, IsFilter, Disallows
<1>5. \A n : Dispatched(n) => Dispatched(n)'
  BY <1>1 DEF Dispatched, Wraps
<1>6. \A n \in done' : ~Disallowed(tx, n)' \/ Dispatched(n)'
  <2>1. \A n \in done : ~Disallowed(tx, n) \/ Dispatched(n)
    BY <1>1 DEF IInv, Foreseen
  <2>. QED  BY <1>1, <1>3, <1>4, <1>5, <2>1
<1>. QED  BY <1>1, <1>2, <1>4, <1>6 DEF IInv, Forest, Foreseen, Refused, GetMsgs, Used

(* Whatever is nested in whatever, in the states of every run.              *)
THEOREM Invariant == Spec => []IInv
<1>1. Init => IInv
  BY NoTxIsOne DEF Init, IInv, Forest, Foreseen, Refused
<1>2. IInv /\ [Next]_vars => IInv'
  <2>. SUFFICES ASSUME IInv, [Next]_vars PROVE IInv'
    OBVIOUS
  <2>1. CASE End
    BY <2>1, NoTxIsOne DEF End, IInv, Forest, Foreseen, Refused
  <2>2. CASE UNCHANGED vars
    <3>1. \A t, m : Disallowed(t, m)' <=> Disallowed(t, m)
      BY <2>2 DEF vars, Disallowed, Filter, IsFilter, Disallows
    <3>2. \A m : Dispatched(m)' <=> Dispatched(m)
      BY <2>2 DEF vars, Dispatched, Wraps
    <3>. QED  BY <2>2, <3>1, <3>2 DEF vars, IInv, Forest, Foreseen, Refused
  <2>. QED  BY <2>1, <2>2, AnteHandleStep, RunMsgStep DEF Next
<1>. QED  BY <1>1, <1>2, PTL DEF Spec

(* No message of a blocked type runs, however deeply MsgExecs wrap it,      *)
(* unless it is inside a dispatching message that has run in the same       *)
(* transaction and is itself not blocked.                                   *)
THEOREM BlockedNeverRun == Spec => []NothingBlockedRuns
<1>1. IInv => NothingBlockedRuns
  <2>. SUFFICES ASSUME IInv, NEW m \in done, tx.kind[m] \in blockedTypes
                PROVE  Dispatched(m)
    BY DEF NothingBlockedRuns, Dispatched
  <2>1. pc = "running" /\ tx \in Tx /\ m \in Msg
    BY DEF IInv, Forest
  <2>2. ~Disallowed(tx, m) \/ Dispatched(m)
    BY <2>1 DEF IInv, Foreseen
  <2>3. Disallowed(tx, m)
    BY <2>1, FilterIs DEF Disallows
  <2>. QED  BY <2>2, <2>3
<1>. QED  BY <1>1, Invariant, PTL

-----------------------------------------------------------------------------
(* What is refused.                                                         *)

LEMMA TopIsFree ==
    ASSUME NEW t \in Tx, NEW m \in GetMsgs(t)
    PROVE  ~Hidden(t, m)
<1>1. t.in[m] = 0 /\ 0 \notin Msg
  BY DEF GetMsgs, Msg
<1>. SUFFICES ASSUME NEW n \in Used(t), Wraps(t, n, m) PROVE FALSE
  BY DEF Hidden
<1>2. PICK path \in SUBSET (n .. m - 1) : 0 \in path
  BY <1>1 DEF Wraps
<1>. QED  BY <1>1, <1>2, MsgFinite DEF Used, Msg

(* What a MsgExec wraps is not hidden, if the MsgExec is not.               *)
LEMMA InsideIsFree ==
    ASSUME NEW t \in Tx, NEW m \in Msg, t.kind[m] = Exec, ~Hidden(t, m),
           NEW k \in Inside(t, m)
    PROVE  ~Hidden(t, k)
<1>. SUFFICES ASSUME NEW n \in Used(t), t.kind[n] \in {Propose, Dispatch}, Wraps(t, n, k)
              PROVE  FALSE
  BY DEF Hidden
<1>1. PICK path \in SUBSET (n .. k - 1) :
          n \in path /\ \A l \in (path \ {n}) \cup {k} : t.in[l] \in path
  BY DEF Wraps
<1>2. t.in[k] = m /\ m # n /\ m \in path
  BY <1>1 DEF Inside, Exec, Propose, Dispatch
<1>. DEFINE upper == {l \in path : l < m}
<1>3. n \in Nat /\ m \in Nat /\ k \in Nat /\ n < m
  <2>1. n \in Nat /\ m \in Nat /\ k \in Nat
    BY InsideComesAfter, MsgFinite DEF Used
  <2>. QED  BY <1>1, <1>2, <2>1
<1>4. upper \in SUBSET (n .. m - 1) /\ n \in upper
  <2>1. ASSUME NEW l \in path, l < m PROVE l \in n .. m - 1
    <3>1. l \in n .. k - 1
      BY <1>1
    <3>. QED  BY <1>3, <2>1, <3>1
  <2>. QED  BY <1>1, <1>3, <2>1
<1>5. ASSUME NEW l \in (upper \ {n}) \cup {m} PROVE t.in[l] \in upper
  <2>1. l \in path /\ l # n /\ l <= m
    BY <1>2, <1>3
  <2>2. t.in[l] \in path
    BY <1>1, <2>1
  <2>3. l \in Msg
    <3>1. l \in n .. k - 1 /\ 1 <= n /\ k <= Size
      BY <1>1, <2>1, InsideComesAfter, MsgFinite DEF Used, Msg
    <3>. QED  BY <1>3, <3>1, MsgFinite DEF Msg
  <2>4. t.in[l] < l /\ t.in[l] \in Nat /\ l \in Nat
    BY <2>3, MsgFinite DEF Tx
  <2>. QED  BY <1>3, <2>1, <2>2, <2>4
<1>6. Wraps(t, n, m)
  <2>. HIDE DEF upper
  <2>. QED  BY <1>4, <1>5 DEF Wraps
<1>. QED  BY <1>6 DEF Hidden

Culprit(t, m) == ~Hidden(t, m) /\ (t.kind[m] \in blockedTypes \/ ~t.valid[m])

(* The deepest disallowed message that is not hidden is the culprit.        *)
LEMMA SomebodyIsToBlame ==
    ASSUME NEW t \in Tx, NEW m \in GetMsgs(t), Disallowed(t, m)
    PROVE  \E n \in Used(t) : Culprit(t, n)
<1>. DEFINE Suspects == {n \in Used(t) : Disallowed(t, n) /\ ~Hidden(t, n)}
            Depths   == {Size - n : n \in Suspects}
<1>1. m \in Suspects
  BY TopIsFree DEF GetMsgs
<1>2. Depths \in SUBSET Nat /\ Depths # {}
  BY <1>1, SizeAssumption DEF Used, Msg
<1>3. PICK a \in Depths : \A b \in Depths : a <= b
  <2>. HIDE DEF Depths
  <2>. QED  BY <1>2, LeastNat
<1>4. PICK n \in Suspects : a = Size - n
  BY <1>3
<1>5. n \in Used(t) /\ n \in Msg /\ Disallowed(t, n) /\ ~Hidden(t, n)
  BY <1>4 DEF Used
<1>6. Disallows(Filter(t), t, n)
  BY <1>5, FilterIs
<1>7. CASE t.kind[n] \in blockedTypes \/ ~t.valid[n]
  BY <1>5, <1>7 DEF Culprit
<1>8. CASE ~(t.kind[n] \in blockedTypes \/ ~t.valid[n])
  <2>1. t.kind[n] = Exec /\ \E k \in Inside(t, n) : Disallowed(t, k)
    BY <1>6, <1>8 DEF Disallows, Disallowed
  <2>2. PICK k \in Inside(t, n) : Disallowed(t, k)
    BY <2>1
  <2>3. k \in Used(t) /\ k \in Msg /\ k > n
    BY <1>5, <2>2, InsideComesAfter DEF Inside
  <2>4. k \in Suspects
    BY <1>5, <2>1, <2>2, <2>3, InsideIsFree
  <2>5. a <= Size - k
    BY <1>3, <2>4
  <2>. QED  BY <1>4, <1>5, <2>3, <2>5, SizeAssumption DEF Msg
<1>. QED  BY <1>7, <1>8

(* The filter refuses no transaction without a message of a blocked type    *)
(* that is not hidden in a proposal or a dispatching message, or such a     *)
(* MsgExec that cannot be unpacked.                                         *)
THEOREM OthersPass == Spec => []OthersUnhindered
<1>1. IInv => OthersUnhindered
  <2>. SUFFICES ASSUME IInv, pc = "refused" PROVE OthersUnhindered
    BY DEF OthersUnhindered
  <2>1. PICK m \in GetMsgs(tx) : Disallowed(tx, m)
    BY DEF IInv, Refused
  <2>2. PICK n \in Used(tx) : Culprit(tx, n)
    BY <2>1, SomebodyIsToBlame DEF IInv, Forest
  <2>. QED  BY <2>2 DEF OthersUnhindered, Culprit, Hidden
<1>. QED  BY <1>1, Invariant, PTL
=============================================================================
