------------------------------ MODULE MCFields ------------------------------
(****************************************************************************)
(* Two goroutines over three types: one in use, one deactivated, one that   *)
(* is not in the table; one obligation exists and one can be created.       *)
(****************************************************************************)
EXTENDS FieldVocabulary, TLC

CONSTANTS risk, right, duty, o1, o2, r1, r2

MCTypes == (risk :> "active") @@ (right :> "inactive") @@ (duty :> "absent")

MCUse == (o1 :> risk) @@ (o2 :> None)
=============================================================================
