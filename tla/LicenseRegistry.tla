-------------------------- MODULE LicenseRegistry --------------------------
(****************************************************************************)
(* What the licence endpoints promise their clients, whoever else is using  *)
(* them: a creation or an update of a licence happens at once, or not at    *)
(* all.  An update changes the fields it names, on top of whatever the      *)
(* licence holds at that moment, and replaces the associated obligations    *)
(* when it gives a list of them.  Nothing else changes.                     *)
(****************************************************************************)
EXTENDS Records

CONSTANTS LicenseForms, LicensePatches, InitialRows, InitialLinks

VARIABLES rows, links

registryVars == <<rows, links>>

RegistryInit == /\ rows = InitialRows
                /\ links = InitialLinks

AllExist(S) == \A y \in S : rows[y] # None

Create(x, f) ==
    /\ rows[x] = None
    /\ AllExist(f["related"])
    /\ rows' = [rows EXCEPT ![x] = Apply(BlankRow, f)]
    /\ links' = Relink(links, x, f["related"])

Update(x, p) ==
    /\ rows[x] # None
    /\ ~HasEmptyText(p)
    /\ Relates(p) => AllExist(p["related"])
    /\ rows' = [rows EXCEPT ![x] = Apply(rows[x], p)]
    /\ links' = IF Relates(p) THEN Relink(links, x, p["related"]) ELSE links

RegistryNext == \E x \in LicenseIds : \/ \E f \in LicenseForms : Create(x, f)
                                      \/ \E p \in LicensePatches : Update(x, p)

RegistrySpec == RegistryInit /\ [][RegistryNext]_registryVars
=============================================================================
