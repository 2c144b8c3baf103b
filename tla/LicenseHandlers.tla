-------------------------- MODULE LicenseHandlers --------------------------
(****************************************************************************)
(* CreateLicense and UpdateLicense, statement by statement.  Both run in    *)
(* one transaction, from which they also answer the client: c.JSON is       *)
(* called before COMMIT and the error of COMMIT is dropped.                 *)
(****************************************************************************)
EXTENDS Store

CONSTANTS LicenseForms,     \* bodies of POST /licenses
          LicensePatches    \* bodies of PATCH /licenses/{id}

LicenseInputs == [op : {"create"}, id : LicenseIds, patch : LicenseForms]
            \cup [op : {"update"}, id : LicenseIds, patch : LicensePatches]

ASSUME LicenseInputAssumption ==
    /\ \A x \in LicenseIds : /\ \A f \in LicenseForms : IsFormOf(f, x)
                             /\ \A p \in LicensePatches : IsPatchOf(p, x)
    /\ None \notin LicenseInputs

ServesLicense(r) == input[r] # None /\ input[r].id \in LicenseIds

----------------------------------------------------------------------------
(* Requests that fail to bind or to validate are answered before any        *)
(* statement runs, and are left out.                                        *)

ReceiveCreateLicense(r) ==
    \E x \in LicenseIds, f \in LicenseForms :
        Fresh(x) /\ Receive(r, "create", x, f, "insert")

ReceiveUpdateLicense(r) ==
    \E x \in LicenseIds, p \in LicensePatches : Receive(r, "update", x, p, "find")

----------------------------------------------------------------------------
(* CreateLicense *)

\* The empty models.LicenseDB{} is what the change log compares with.
InsertLicense(r) ==
    /\ ServesLicense(r)
    /\ Goto(r, "insert", "findRelated")
    /\ seen' = [seen EXCEPT ![r] = BlankRow]
    /\ image' = [image EXCEPT ![r] = Apply(BlankRow, Patch(r))]
    /\ UNCHANGED <<tables, bounds, input, linked, found, ins, del, entered, note, reply>>

----------------------------------------------------------------------------
(* UpdateLicense *)

FindLicense(r) ==
    /\ ServesLicense(r)
    /\ Goto(r, "find", IF rows[Target(r)] = None THEN "reject" ELSE "preload")
    /\ seen' = [seen EXCEPT ![r] = rows[Target(r)]]
    /\ UNCHANGED <<tables, bounds, input, linked, image, found, ins, del, entered, note,
                   reply>>

\* The body changes the text of a licence that was read as not updatable.
ForbiddenText(r) == /\ "text" \in DOMAIN Patch(r)
                    /\ Patch(r)["text"] # seen[r]["text"]
                    /\ ~seen[r]["updatable"]

\* Preload("Obligations") is a query of its own; the guard follows it.
PreloadObligations(r) ==
    /\ ServesLicense(r)
    /\ Goto(r, "preload", IF ForbiddenText(r) THEN "reject" ELSE "merge")
    /\ linked' = [linked EXCEPT ![r] = RelatedTo(Target(r), links)]
    /\ UNCHANGED <<tables, bounds, input, seen, image, found, ins, del, entered, note,
                   reply>>

\* Mutant: the record that was read is saved, not the fields of the body.
MergeLicenseRef_FromRead(r) ==
    /\ ServesLicense(r)
    /\ Goto(r, "merge", "write")
    /\ Granted(r)
    /\ image' = [image EXCEPT ![r] = seen[r]]
    /\ UNCHANGED <<tables, bounds, input, seen, linked, found, ins, del, entered, note,
                   reply>>

\* UPDATE ... SET external_ref takes the row lock, and the newest version.
MergeLicenseRef(r) ==
    /\ ServesLicense(r)
    /\ Goto(r, "merge", "write")
    /\ Granted(r)
    /\ image' = [image EXCEPT ![r] = rows[Target(r)]]
    /\ UNCHANGED <<tables, bounds, input, seen, linked, found, ins, del, entered, note,
                   reply>>

\* Updates(&newLicense) sets the non-nil columns; BeforeUpdate refuses an
\* empty string.
WriteLicense(r) ==
    /\ ServesLicense(r)
    /\ ~HasEmptyText(Patch(r))
    /\ Goto(r, "write", IF Relates(Patch(r)) THEN "findRelated" ELSE "reload")
    /\ image' = [image EXCEPT ![r] = Apply(image[r], Patch(r))]
    /\ UNCHANGED <<tables, bounds, input, seen, linked, found, ins, del, entered, note,
                   reply>>

RefuseLicense(r) ==
    /\ ServesLicense(r)
    /\ HasEmptyText(Patch(r))
    /\ Goto(r, "write", "reject")
    /\ UNCHANGED <<tables, bounds, input, seen, linked, image, found, ins, del, entered,
                   note, reply>>

----------------------------------------------------------------------------
(* Both end alike. *)

ReplaceObligations(r) == ServesLicense(r) /\ ReplaceAssociations(r)

ReloadLicense(r) ==
    /\ ServesLicense(r)
    /\ Goto(r, "reload", "commit")
    /\ WriteChangeLog(r)
    /\ reply' = [reply EXCEPT ![r] = "ok"]
    /\ UNCHANGED <<tables, bounds, input, seen, linked, image, found, ins, del, entered>>

CommitLicense(r) == ServesLicense(r) /\ Commit(r) /\ UNCHANGED reply

RejectLicense(r) == ServesLicense(r) /\ Reject(r)

\* COMMIT fails: `_ = db.DB.Transaction(...)`, and the answer is out already.
LicenseCommitFails(r) ==
    /\ ServesLicense(r)
    /\ pc[r] = "commit"
    /\ failures < MaxFailures
    /\ failures' = failures + 1
    /\ Rollback(r)
    /\ UNCHANGED <<served, reply>>

LicenseStatementFails(r) == ServesLicense(r) /\ StatementFails(r)

----------------------------------------------------------------------------

LicenseStep(r) ==
    \/ InsertLicense(r) \/ FindLicense(r) \/ PreloadObligations(r)
    \/ MergeLicenseRef(r) \/ WriteLicense(r) \/ RefuseLicense(r)
    \/ ReplaceObligations(r) \/ ReloadLicense(r)
    \/ CommitLicense(r) \/ RejectLicense(r)

LicenseNext ==
    \E r \in Requests :
        \/ ReceiveCreateLicense(r) \/ ReceiveUpdateLicense(r)
        \/ LicenseStep(r)
        \/ LicenseCommitFails(r) \/ LicenseStatementFails(r)

\* The Go scheduler runs every goroutine that can run, and PostgreSQL grants a
\* lock that is free; clients and failures owe nothing.
LicenseSpec ==
    /\ Init
    /\ [][LicenseNext]_vars
    /\ \A r \in Requests : WF_vars(LicenseStep(r))

----------------------------------------------------------------------------
(* Properties. *)

\* Type invariant of the tables and of the licence requests.
LicenseTypeOK == StoreTypeOK(LicenseInputs)

\* The version of a licence that an UpdateLicense holds is at every moment the
\* newest committed one with nothing but the fields of its body changed, and no
\* two requests hold versions of one licence: no PATCH writes back what it read
\* before another PATCH committed.
NoStaleVersion ==
    \A r \in Requests : image[r] # None =>
        /\ \A q \in Requests \ {r} : ~Holds(q, Target(r))
        /\ IF input[r].op = "create"
           THEN rows[Target(r)] = None /\ image[r] = Apply(BlankRow, Patch(r))
           ELSE \/ pc[r] \in {"write", "reject"} /\ image[r] = rows[Target(r)]
                \/ pc[r] # "write" /\ image[r] = Apply(rows[Target(r)], Patch(r))

\* CreateLicense and UpdateLicense implement the registry: the tables change
\* only when one of them commits, by the whole of its request and nothing else.
Registry == INSTANCE LicenseRegistry WITH
    LicenseForms <- LicenseForms, LicensePatches <- LicensePatches,
    InitialRows <- InitialRows, InitialLinks <- InitialLinks,
    rows <- rows, links <- links
RefinesRegistry == Registry!RegistrySpec

\* A request whose audit a step commits.
Audited == audits'[Len(audits')]

\* What an audit says a field was changed to is what the same commit stores,
\* in the row and in the join table.
AuditTellsOutcome ==
    [][Len(audits') > Len(audits) =>
        \A c \in DOMAIN Audited.changes :
            Audited.changes[c].new =
                Snapshot(rows'[Audited.id], RelatedTo(Audited.id, links'))[c]]_vars

\* The change log of a commit is the change of each audited field, from what was
\* stored before to what is stored now, for every field whose stored value is
\* the one that the request read at its beginning: only a stale read leaves a
\* gap or a wrong old value in the change history.
OnlyStaleReadsEscapeAudit ==
    [][\A r \in Requests : ServesLicense(r) /\ input'[r] = None /\ tables' # tables =>
        LET x == Target(r)
            before == Snapshot(IF input[r].op = "create" THEN BlankRow ELSE rows[x],
                               RelatedTo(x, links))
            after == Snapshot(rows'[x], RelatedTo(x, links'))
            read == Snapshot(seen[r], linked[r])
        IN  \A c \in AuditedColumns : read[c] = before[c] =>
                IF before[c] = after[c] THEN c \notin DOMAIN note[r]
                ELSE c \in DOMAIN note[r] /\ note[r][c] = [old |-> before[c], new |-> after[c]]]_vars

\* Licence requests alone need no deadlock detector: as long as one is running,
\* one of them has all the locks that its next statement wants.
SomebodyProceeds ==
    (\E r \in Requests : pc[r] # "idle") => \E r \in Requests : pc[r] # "idle" /\ Granted(r)

\* Every request that is received ends, whatever the others hold.
EveryRequestEnds == \A r \in Requests : pc[r] # "idle" ~> pc[r] = "idle"

\* "Field `text_updatable` needs to be true to update the text": the text of a
\* licence changes only while the licence is updatable.
TextNeedsPermission ==
    [][\A x \in LicenseIds :
        rows[x] # None /\ rows'[x]["text"] # rows[x]["text"] => rows[x]["updatable"]]_vars

\* "License updated successfully": a request that was answered so leaves its
\* version of the licence in the table when it ends.
AcknowledgedIsStored ==
    [][\A r \in Requests :
        ServesLicense(r) /\ reply[r] = "ok" /\ pc'[r] = "idle" =>
            rows'[Target(r)] = image[r]]_vars
=============================================================================
