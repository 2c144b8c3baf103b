----------------------------- MODULE MCListing -----------------------------
(****************************************************************************)
(* Every kind of list over a table of at most three rows, in words of four  *)
(* bits.  The first pages asked for are below the first, the first, the     *)
(* second, one whose offset does not fit into a word, and one that does not *)
(* fit itself; the limits likewise.                                         *)
(****************************************************************************)
EXTENDS Listing, TLC

CONSTANTS a, b, c

MCLists == {LicenseList, AuditList, UserList}

MCPageParams == {-1, 2, 5, 9}

MCLimitParams == {-1, 0, 2}

In(k) == [key |-> k, matches |-> TRUE]
Out(k) == [key |-> k, matches |-> FALSE]

MCInitialTables ==
    {(a :> In(2)) @@ (b :> Out(2)) @@ (c :> None),
     (a :> In(1)) @@ (b :> In(2)) @@ (c :> In(3)),
     (a :> None) @@ (b :> None) @@ (c :> None)}
=============================================================================
