------------------------- MODULE MCZeroHeightExport -------------------------
(***************************************************************************)
(* ZeroHeightExport for TLC, and what the comments of app/export.go say of  *)
(* the export that it does not do.                                          *)
(***************************************************************************)
EXTENDS ZeroHeightExport

(* export.go:102 "withdraw all delegator rewards", for an operator who      *)
(* passes no --jail-allowed-addrs: an export that passes the assertion of   *)
(* the invariants gets through the loop.                                    *)
WithdrawalLoopCompletes == ~(pc = "panicked" /\ ex.fault = "none" /\ ~ex.apply)

(* export.go:22 "as if they could withdraw from the start of the next       *)
(* block", for every delegation that the loop withdraws.                    *)
AllPaidAsInNextBlock ==
    [][\A d \in Del, v \in Val : WithdrawnNow(d, v) => PaysAsInNextBlock(d, v)]_vars

(* export.go:72 "check if there is a allowed address list": a validator     *)
(* that is not on the list is exported jailed, and the export completes.    *)
AllowListIsApplied ==
    ~(pc = "panicked" /\ ex.fault = "none" /\ ex.dels = {} /\ ex.apply)
=============================================================================
