----------------------------- MODULE MCCatalogue -----------------------------
(****************************************************************************)
(* Two goroutines serving licences and obligations: one of each exists and  *)
(* one of each can be created.                                              *)
(****************************************************************************)
EXTENDS Catalogue, TLC

CONSTANTS l1, l2, o1, o2, n1, n2, t1, t2, w1, w2, r1, r2

MCRow == [name |-> n1, text |-> t1, updatable |-> TRUE, active |-> TRUE]

MCInitialRows == (l1 :> MCRow) @@ (l2 :> None) @@ (o1 :> MCRow) @@ (o2 :> None)

MCInitialLinks == {<<l1, o1>>}

Related(p, S) == p @@ [related |-> S]

MCLicenseForms == {Related(MCRow, {o1})}
MCLicensePatches == {[related |-> {}], [related |-> {o1, o2}]}

\* A new type and a new classification, with which a PATCH meets at the name of
\* the one and at the colour of the other.
MCObligationForms ==
    {[type |-> w1, classification |-> w1] @@ Related(MCRow, {l1})}
MCObligationPatches == {[related |-> {}, updatable |-> FALSE],
                        [related |-> {l1}, name |-> n2, text |-> t2],
                        [active |-> TRUE, text |-> EmptyText],
                        [active |-> TRUE, type |-> w1, classification |-> w2]}
=============================================================================
