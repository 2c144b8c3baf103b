----------------------------- MODULE Catalogue -----------------------------
(****************************************************************************)
(* The licence and the obligation endpoints over one database.  The two     *)
(* kinds of request meet in the join table, which both replace, and in the  *)
(* rows of the other kind, which Association.Replace upserts: so they can   *)
(* wait for each other in a circle, which PostgreSQL resolves by failing    *)
(* one of them.  Obligation requests also wait for each other, at the types,*)
(* classifications and categories that they add.                            *)
(****************************************************************************)
EXTENDS LicenseHandlers, ObligationHandlers

\* The foreign keys of obligation_licenses hold when the server starts.
ASSUME CatalogueAssumption ==
    \A e \in InitialLinks : InitialRows[e[1]] # None /\ InitialRows[e[2]] # None

\* A smallest set of requests each of which waits for another one of the set.
WaitInCircle(S) ==
    LET stuck(T) == T # {} /\ \A r \in T : \E q \in T \ {r} : Blocks(q, r)
    IN  stuck(S) /\ \A T \in SUBSET S : stuck(T) => T = S

\* PostgreSQL's deadlock detector fails the statement of one of them (40P01),
\* and the handler answers with an error.
AbortDeadlock(r) ==
    /\ \E S \in SUBSET Requests : r \in S /\ WaitInCircle(S)
    /\ Rollback(r)
    /\ reply' = [reply EXCEPT ![r] = "rejected"]
    /\ UNCHANGED bounds

CatalogueStep(r) == LicenseStep(r) \/ ObligationStep(r) \/ AbortDeadlock(r)

CatalogueNext == \/ LicenseNext
                 \/ ObligationNext
                 \/ \E r \in Requests : AbortDeadlock(r)

\* As for the licences alone; the deadlock detector runs after deadlock_timeout.
CatalogueSpec ==
    /\ Init
    /\ [][CatalogueNext]_vars
    /\ \A r \in Requests : WF_vars(CatalogueStep(r))

----------------------------------------------------------------------------
(* Properties. *)

\* Type invariant of the tables and of all requests.
CatalogueTypeOK == StoreTypeOK(LicenseInputs \cup ObligationInputs)

\* Every association is between a licence and an obligation that exist: both
\* map actions look each id up before they insert, and a created record and its
\* pairs appear together.
NoDanglingLinks == \A e \in links : rows[e[1]] # None /\ rows[e[2]] # None

\* A deadlock is always between the two kinds: licence requests alone, or
\* obligation requests alone, never wait for each other in a circle.  What
\* Association.Replace waits for belongs to a request of the other kind; and an
\* UpdateObligation that holds its row and waits to save a new type, or a
\* CreateObligation that does, waits for one that is further in the same order.
DeadlockNeedsBothKinds ==
    \A S \in SUBSET Requests : WaitInCircle(S) =>
        \E q, r \in S : ServesLicense(q) /\ ServesObligation(r)

\* The version of an obligation that an UpdateObligation holds is the newest
\* committed one with nothing but the fields of its body changed, the topic
\* excepted, even while DELETE requests write whole records back.
NoStaleObligation ==
    \A r \in Requests : image[r] # None /\ ServesObligation(r) =>
        LET x == Target(r) IN
        /\ Operation(r) = "create" => rows[x] = None
        /\ Operation(r) # "create" =>
              image[r] \in IF pc[r] \in Fields \cup {"write"} THEN {rows[x]}
                          ELSE {rows[x], ApplyExcept(rows[x], Patch(r), {"name"})}

\* An obligation that was deleted comes back only through an UpdateObligation
\* whose body says so.
ReactivatedOnlyByUpdate ==
    [][\A x \in ObligationIds :
        rows[x] # None /\ ~rows[x]["active"] /\ rows'[x]["active"] =>
            \E r \in Requests :
                /\ pc[r] = "commit" /\ pc'[r] = "idle"
                /\ Target(r) = x /\ "active" \in DOMAIN Patch(r) /\ Patch(r)["active"]]_vars

\* "marks an existing obligation record as inactive": that is all a DELETE does
\* to the obligation.
DeleteOnlyDeactivates ==
    [][\A r \in Requests :
        pc[r] = "deactivate" /\ reply'[r] = "ok" =>
            rows'[Target(r)] = [rows[Target(r)] EXCEPT !["active"] = FALSE]]_vars
=============================================================================
