------------------------------ MODULE MCImport ------------------------------
(****************************************************************************)
(* An import beside another import, or beside a PATCH or a DELETE.  One     *)
(* licence and one obligation exist and are associated; the id of a second  *)
(* of each is known to a file from elsewhere; two more are free, one for    *)
(* each record that comes without an id.                                    *)
(****************************************************************************)
EXTENDS ImportHandlers, TLC

CONSTANTS l1, l2, l3, l4, o1, o2, o3, o4, n1, n2, t1, t2, w1, r1, r2

MCRow == [name |-> n1, text |-> t1, updatable |-> TRUE, active |-> TRUE]

MCInitialRows == [x \in Ids |-> IF x \in {l1, o1} THEN MCRow ELSE None]

MCInitialLinks == {<<l1, o1>>}

MCLicensePatches == {[updatable |-> FALSE, related |-> {o1}]}

MCObligationPatches ==
    {[updatable |-> FALSE, related |-> {l1}, type |-> w1, category |-> w1]}

\* A licence to update that names an unknown obligation and one to create;
\* records that are refused at each guard; a record without a text.
MCLicenseFiles ==
    {<<[id |-> l1, patch |-> [name |-> n2, text |-> t2, related |-> {o1, o2}]],
       [id |-> l2, patch |-> [name |-> n1, text |-> t1, related |-> {o1}]]>>,
     <<[id |-> None, patch |-> [name |-> n1, text |-> t1]],
       [id |-> l1, patch |-> [name |-> EmptyText, text |-> t1]],
       [id |-> None, patch |-> [text |-> t1]]>>,
     <<[id |-> l2, patch |-> [name |-> n2]],
       [id |-> l1, patch |-> [name |-> n2]]>>}

\* The second and the third file of obligations create the same one, and the
\* third goes on to update it, with a type that the second adds.
MCObligationFiles ==
    {<<[id |-> o1, patch |-> [name |-> n2, text |-> t2, related |-> {l1}]],
       [id |-> None, patch |-> [name |-> n1, text |-> t1, related |-> {l1, l2}]]>>,
     <<[id |-> o2, patch |-> [name |-> n1, text |-> t1, type |-> w1, category |-> w1]],
       [id |-> None, patch |-> [name |-> n1]],
       [id |-> None, patch |-> [text |-> t1]]>>,
     <<[id |-> o2, patch |-> [name |-> n1, text |-> t2]],
       [id |-> o2, patch |-> [name |-> n1, type |-> w1]]>>,
     <<[id |-> o1, patch |-> [active |-> FALSE]]>>}
=============================================================================
