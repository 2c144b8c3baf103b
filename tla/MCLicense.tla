------------------------------ MODULE MCLicense ------------------------------
(****************************************************************************)
(* Two goroutines serving licences: one licence and two obligations exist,  *)
(* one licence can be created, and one obligation id is unknown.            *)
(****************************************************************************)
EXTENDS LicenseHandlers, TLC

CONSTANTS l1, l2, o1, o2, o3, n1, n2, t1, t2, r1, r2

MCRow == [name |-> n1, text |-> t1, updatable |-> TRUE, active |-> TRUE]

MCInitialRows == (l1 :> MCRow) @@ (l2 :> None)
              @@ (o1 :> MCRow) @@ (o2 :> MCRow) @@ (o3 :> None)

MCInitialLinks == {<<l1, o1>>}

MCForms == {[name |-> n1, text |-> t1, updatable |-> FALSE, active |-> TRUE,
             related |-> {o1}]}

MCPatches == {[text |-> t2],
              [updatable |-> FALSE, name |-> n2],
              [related |-> {o2}, text |-> t1],
              [related |-> {o1, o3}, active |-> FALSE],
              [related |-> {}, updatable |-> TRUE, text |-> t2],
              [text |-> EmptyText]}
=============================================================================
