------------------------------ MODULE MCUpgrade -----------------------------
(***************************************************************************)
(* What a comment of app/app.go says of the migration of the consensus      *)
(* params, asked of a node that was run by an older SDK.                    *)
(***************************************************************************)
EXTENDS Upgrade

(* app.go:1080 "ensure that the migration is executed when needed and not   *)
(* panics": when FinalizeBlock fails, it is for the block, not for the      *)
(* migration.                                                               *)
MigrationNeverPanics == proc = "stuck" => work.of = "block"
=============================================================================
