--------------------------- MODULE ImportHandlers ---------------------------
(****************************************************************************)
(* ImportLicenses and ImportObligations beside the other endpoints.  A file *)
(* is a list of records; each is stored in a transaction of its own, and    *)
(* the client gets one summary at the end.  A record without an id, or with *)
(* an id that is not in the table, is created, any other updates the row.   *)
(*                                                                          *)
(* What sets an import apart from the endpoints: an id of a related record  *)
(* that is not found is reported, but the rest of the record is stored; the *)
(* error of the transaction is dropped; a field that is missing may stop    *)
(* the handler in a nil pointer, which gin recovers from; and an obligation *)
(* is compared, for its change log, with a record whose licences were never *)
(* loaded.                                                                  *)
(****************************************************************************)
EXTENDS Catalogue

CONSTANTS LicenseFiles,     \* bodies of POST /licenses/import
          ObligationFiles   \* bodies of POST /obligations/import

RecordsOf(Files) == UNION {{f[i] : i \in DOMAIN f} : f \in Files}

\* A record of a file: `id` is None when the file gives none.
IsRecordOf(rec, kind) ==
    /\ rec.id \in kind \cup {None}
    /\ \A x \in kind : IsPatchOf(rec.patch, x)

ImportInputs == {[op |-> "import", id |-> x, patch |-> rec.patch] :
                    x \in LicenseIds, rec \in RecordsOf(LicenseFiles)}
           \cup {[op |-> "import", id |-> x, patch |-> rec.patch] :
                    x \in ObligationIds, rec \in RecordsOf(ObligationFiles)}

ASSUME ImportAssumption ==
    /\ \A rec \in RecordsOf(LicenseFiles) : IsRecordOf(rec, LicenseIds)
    /\ \A rec \in RecordsOf(ObligationFiles) : IsRecordOf(rec, ObligationIds)
    /\ \A f \in LicenseFiles \cup ObligationFiles :
           f # <<>> /\ f \in Seq({f[i] : i \in DOMAIN f})
    /\ LicenseFiles \cap ObligationFiles = {}
    /\ None \notin ImportInputs

VARIABLES
    file,      \* the file a request imports, <<>> when it imports none
    done,      \* the number of its records that are settled
    summary    \* the answers so far: the record's id and what became of it

importVars == <<file, done, summary>>
allVars == <<vars, importVars>>

Importing(r) == file[r] # <<>>
Record(r) == file[r][done[r] + 1]
OfLicenses(r) == file[r] \in LicenseFiles
Kind(r) == IF OfLicenses(r) THEN LicenseIds ELSE ObligationIds

ImportsLicense(r) == Importing(r) /\ OfLicenses(r) /\ input[r] # None
ImportsObligation(r) == Importing(r) /\ ~OfLicenses(r) /\ input[r] # None

Created(r) == seen[r] = BlankRow

\* The columns a row gets when its form leaves them out.
ColumnDefaults == [BlankRow EXCEPT !["updatable"] = FALSE, !["active"] = TRUE]

\* BeforeCreate wants a name and a text.
Creatable(p) == {"name", "text"} \subseteq DOMAIN p /\ ~HasEmptyText(p)

\* The first statement of a creation: the hook refuses a record before the saves.
BeginCreation(p) == IF Creatable(p) THEN NextSave("import", p, 0, "insert") ELSE "insert"

----------------------------------------------------------------------------
(* The summary. *)

\* The record is settled, with or without an answer for it.
Settle(r) == done' = [done EXCEPT ![r] = @ + 1] /\ UNCHANGED file

\* Mutant: no `return` after the answer that the record failed.
Answer_NoReturn(r, x, status) ==
    /\ Settle(r)
    /\ summary' = [summary EXCEPT ![r] = @ \o <<[id |-> x, status |-> "failed"],
                                              [id |-> x, status |-> status]>>]

Answer(r, x, status) ==
    /\ Settle(r)
    /\ summary' = [summary EXCEPT ![r] = Append(@, [id |-> x, status |-> status])]

\* Every related id of the record was found.
AllFound(r) == Relates(Patch(r)) => found[r] = Patch(r)["related"]

\* IMPORT_LICENSE_CREATED, IMPORT_LICENSE_UPDATED, or the statuses that tell
\* of associations that failed; an obligation tells of them in its message.
ImportStatus(r) == IF ~AllFound(r) THEN "unlinked"
                   ELSE IF Created(r) THEN "created" ELSE "updated"

\* A nil pointer: gorm rolls back, gin answers 500, and the rest of the file
\* and the summary are gone.
Panic(r) ==
    /\ Rollback(r)
    /\ reply' = [reply EXCEPT ![r] = "rejected"]
    /\ file' = [file EXCEPT ![r] = <<>>]
    /\ done' = [done EXCEPT ![r] = 0]
    /\ summary' = [summary EXCEPT ![r] = <<>>]
    /\ UNCHANGED bounds

\* The record is refused and what its transaction wrote is rolled back.
RefuseRecord(r) ==
    /\ Rollback(r)
    /\ Answer(r, Record(r).id, "failed")
    /\ UNCHANGED <<bounds, reply>>

----------------------------------------------------------------------------
(* A request that has no file, or one that does not decode, is answered     *)
(* before any statement runs, and is left out.                              *)

ReceiveFile(r, Files) ==
    /\ pc[r] = "idle"
    /\ ~Importing(r)
    /\ served < MaxRequests
    /\ served' = served + 1
    /\ reply' = [reply EXCEPT ![r] = "none"]
    /\ \E f \in Files : file' = [file EXCEPT ![r] = f]
    /\ UNCHANGED <<tables, pc, input, seen, linked, image, found, ins, del, entered, note,
                   failures, done, summary>>

ReceiveImportLicenses(r) == ReceiveFile(r, LicenseFiles)

ReceiveImportObligations(r) == ReceiveFile(r, ObligationFiles)

Between(r) == Importing(r) /\ pc[r] = "idle" /\ done[r] < Len(file[r])

\* validate:"required" on the shortname of a licence; an obligation is not
\* validated.
Invalid(r) == OfLicenses(r) /\ "name" \notin DOMAIN Record(r).patch

RefuseInvalid(r) ==
    /\ Between(r)
    /\ Invalid(r)
    /\ Answer(r, Record(r).id, "failed")
    /\ UNCHANGED vars

\* The transaction begins.
TakeRecord(r) ==
    /\ Between(r)
    /\ ~Invalid(r)
    /\ IF Record(r).id = None
       THEN /\ Goto(r, "idle", BeginCreation(Record(r).patch))
            /\ \E x \in Kind(r) :
                /\ Fresh(x)
                /\ \A q \in Requests : \A i \in DOMAIN file[q] : file[q][i].id # x
                /\ input' = [input EXCEPT ![r] =
                       [op |-> "import", id |-> x, patch |-> Record(r).patch]]
       ELSE /\ Goto(r, "idle", "find")
            /\ input' = [input EXCEPT ![r] =
                   [op |-> "import", id |-> Record(r).id, patch |-> Record(r).patch]]
    /\ UNCHANGED <<tables, bounds, seen, linked, image, found, ins, del, entered, note,
                   reply, importVars>>

SendSummary(r) ==
    /\ Importing(r)
    /\ pc[r] = "idle"
    /\ done[r] = Len(file[r])
    /\ reply' = [reply EXCEPT ![r] = "ok"]
    /\ file' = [file EXCEPT ![r] = <<>>]
    /\ done' = [done EXCEPT ![r] = 0]
    /\ summary' = [summary EXCEPT ![r] = <<>>]
    /\ UNCHANGED <<tables, bounds, pc, input, seen, linked, image, found, ins, del,
                   entered, note>>

----------------------------------------------------------------------------
(* Creating a record.                                                       *)

AfterWrite(r) == IF Relates(Patch(r)) THEN "findRelated" ELSE "reload"

\* Create(&record).  The primary key makes it wait for another transaction
\* that writes the row of that id.
CreateRecord(r) ==
    /\ Creatable(Patch(r))
    /\ MayResolve(r)
    /\ rows[Target(r)] = None
    /\ Granted(r)
    /\ Goto(r, "insert", AfterWrite(r))
    /\ seen' = [seen EXCEPT ![r] = BlankRow]
    /\ image' = [image EXCEPT ![r] = Apply(ColumnDefaults, Patch(r))]
    /\ UNCHANGED <<tables, bounds, input, linked, found, ins, del, entered, note, reply,
                   importVars>>

\* The BeforeCreate hook refuses the record; or its id was inserted meanwhile, or
\* one of its fields has no id, and the database refuses it.
CannotCreate(r) ==
    /\ pc[r] = "insert"
    /\ \/ ~Creatable(Patch(r))
       \/ Granted(r) /\ (rows[Target(r)] # None \/ MayNotResolve(r))

\* The type, the classification and the category of an obligation.
ImportSaveAssociations(r) == ImportsObligation(r) /\ SaveWord(r) /\ UNCHANGED importVars

ImportCreateLicense(r) == ImportsLicense(r) /\ CreateRecord(r)

ImportRefuseLicense(r) == ImportsLicense(r) /\ CannotCreate(r) /\ RefuseRecord(r)

ImportCreateObligation(r) == ImportsObligation(r) /\ CreateRecord(r)

\* The answer quotes *ob.Topic.  The callback returns the outer err, which is
\* nil, so gorm commits: nothing, for nothing was written yet, or the database
\* has given the transaction up.
ImportRefuseObligation(r) ==
    /\ ImportsObligation(r)
    /\ CannotCreate(r)
    /\ IF "name" \in DOMAIN Patch(r) THEN RefuseRecord(r) ELSE Panic(r)

----------------------------------------------------------------------------
(* Updating a record.                                                       *)

\* First(&oldLicense); without a row the record is created.
ImportFindLicense(r) ==
    /\ ImportsLicense(r)
    /\ Goto(r, "find", IF rows[Target(r)] = None THEN BeginCreation(Patch(r)) ELSE "preload")
    /\ seen' = [seen EXCEPT ![r] = rows[Target(r)]]
    /\ UNCHANGED <<tables, bounds, input, linked, image, found, ins, del, entered, note,
                   reply, importVars>>

\* Preload("Obligations") comes with it; the guard follows both.
ImportPreloadObligations(r) ==
    /\ ImportsLicense(r)
    /\ "text" \in DOMAIN Patch(r)
    /\ Goto(r, "preload", IF ForbiddenText(r) THEN "reject" ELSE "merge")
    /\ linked' = [linked EXCEPT ![r] = RelatedTo(Target(r), links)]
    /\ UNCHANGED <<tables, bounds, input, seen, image, found, ins, del, entered, note,
                   reply, importVars>>

\* *oldLicense.Text != *newLicense.Text, for a record without a text.
ImportLicenseWithoutText(r) ==
    /\ ImportsLicense(r)
    /\ pc[r] = "preload"
    /\ "text" \notin DOMAIN Patch(r)
    /\ Panic(r)

\* Mutant: the import does not look at text_updatable.
ImportFindObligation_NoGuard(r) ==
    /\ ImportsObligation(r)
    /\ Goto(r, "find", IF rows[Target(r)] = None THEN BeginCreation(Patch(r)) ELSE "merge")
    /\ seen' = [seen EXCEPT ![r] = rows[Target(r)]]
    /\ UNCHANGED <<tables, bounds, input, linked, image, found, ins, del, entered, note,
                   reply, importVars>>

\* First(&oldObligation), without its licences; the guard follows.
ImportFindObligation(r) ==
    /\ ImportsObligation(r)
    /\ LET row == rows[Target(r)]
           frozen == "text" \in DOMAIN Patch(r) /\ Patch(r)["text"] # row["text"]
                     /\ ~row["updatable"]
       IN  Goto(r, "find", IF row = None THEN BeginCreation(Patch(r))
                           ELSE IF frozen THEN "reject" ELSE "merge")
    /\ seen' = [seen EXCEPT ![r] = rows[Target(r)]]
    /\ UNCHANGED <<tables, bounds, input, linked, image, found, ins, del, entered, note,
                   reply, importVars>>

\* Mutant: the record is saved as it was read.
LockRecord_FromRead(r) ==
    /\ Goto(r, "merge", NextSave("import", Patch(r), 0, "write"))
    /\ Granted(r)
    /\ image' = [image EXCEPT ![r] = seen[r]]
    /\ UNCHANGED <<tables, bounds, input, seen, linked, found, ins, del, entered, note,
                   reply, importVars>>

\* UPDATE ... SET external_ref takes the row lock, and the newest version.
LockRecord(r) ==
    /\ Goto(r, "merge", NextSave("import", Patch(r), 0, "write"))
    /\ Granted(r)
    /\ image' = [image EXCEPT ![r] = rows[Target(r)]]
    /\ UNCHANGED <<tables, bounds, input, seen, linked, found, ins, del, entered, note,
                   reply, importVars>>

\* Updates(&record); BeforeUpdate refuses an empty string.
WriteRecord(r, omitted) ==
    /\ Goto(r, "write", IF HasEmptyText(Patch(r)) THEN "reject" ELSE AfterWrite(r))
    /\ image' = IF HasEmptyText(Patch(r)) THEN image
                ELSE [image EXCEPT ![r] = ApplyExcept(image[r], Patch(r), omitted)]
    /\ UNCHANGED <<tables, bounds, input, seen, linked, found, ins, del, entered, note,
                   reply, importVars>>

ImportWriteLicense(r) == ImportsLicense(r) /\ (LockRecord(r) \/ WriteRecord(r, {}))

\* Omit("ExternalRef", "Licenses", "Topic").
ImportWriteObligation(r) ==
    ImportsObligation(r) /\ (LockRecord(r) \/ WriteRecord(r, {"name"}))

\* Mutant: a refused record is tried again.
ImportReject_Retries(r) ==
    /\ Importing(r)
    /\ pc[r] = "reject"
    /\ Rollback(r)
    /\ UNCHANGED <<bounds, reply, importVars>>

\* What the guards or the hooks found is answered and rolled back.
ImportReject(r) ==
    /\ Importing(r)
    /\ pc[r] = "reject"
    /\ RefuseRecord(r)

----------------------------------------------------------------------------
(* Both kinds end alike. *)

\* An id that was not found does not stop the record.
ImportDeleteLinks(r) ==
    /\ Goto(r, "unlink", "reload")
    /\ Granted(r)
    /\ del' = [del EXCEPT ![r] = Stale(r)]
    /\ UNCHANGED <<tables, bounds, input, seen, linked, image, found, ins, entered, note,
                   reply>>

ImportAssociations(r) ==
    /\ Importing(r)
    /\ FindRelated(r) \/ UpsertRelated(r) \/ InsertLinks(r) \/ ImportDeleteLinks(r)
    /\ UNCHANGED importVars

ReloadRecord(r) ==
    /\ Goto(r, "reload", "commit")
    /\ WriteChangeLog(r)
    /\ UNCHANGED <<tables, bounds, input, seen, linked, image, found, ins, del, entered,
                   reply, importVars>>

ImportReloadLicense(r) == ImportsLicense(r) /\ ReloadRecord(r)

\* The answer to an update quotes *ob.Topic, that to a creation the row's.
ImportReloadObligation(r) ==
    /\ ImportsObligation(r)
    /\ Created(r) \/ "name" \in DOMAIN Patch(r)
    /\ ReloadRecord(r)

ImportObligationWithoutTopic(r) ==
    /\ ImportsObligation(r)
    /\ pc[r] = "reload"
    /\ ~Created(r)
    /\ "name" \notin DOMAIN Patch(r)
    /\ Panic(r)

ImportCommit(r) ==
    /\ Importing(r)
    /\ Commit(r)
    /\ Answer(r, Target(r), ImportStatus(r))
    /\ UNCHANGED reply

----------------------------------------------------------------------------
(* Failures of the database. *)

DatabaseFails == failures < MaxFailures /\ failures' = failures + 1 /\ UNCHANGED served

\* BEGIN fails: the callback does not run, the record has no answer; the log
\* line of a licence quotes *lic.Id.
ImportBeginFails(r) ==
    /\ Between(r)
    /\ ~Invalid(r)
    /\ DatabaseFails
    /\ UNCHANGED <<tables, pc, input, seen, linked, image, found, ins, del, entered, note>>
    /\ IF OfLicenses(r) /\ Record(r).id = None
       THEN /\ file' = [file EXCEPT ![r] = <<>>]
            /\ done' = [done EXCEPT ![r] = 0]
            /\ summary' = [summary EXCEPT ![r] = <<>>]
            /\ reply' = [reply EXCEPT ![r] = "rejected"]
       ELSE Settle(r) /\ UNCHANGED <<summary, reply>>

\* The answer to an obligation without an id that cannot be read back, as when
\* replacing its associations failed the transaction, is not in the summary.
Unanswered(r) == /\ ~OfLicenses(r)
                 /\ Record(r).id = None
                 /\ pc[r] \in {"findRelated", "upsert", "link", "unlink", "reload"}

\* The statement, and with it the transaction, is lost.
LoseRecord(r) ==
    /\ Rollback(r)
    /\ IF Unanswered(r) THEN Settle(r) /\ UNCHANGED summary
                        ELSE Answer(r, Record(r).id, "failed")
    /\ UNCHANGED reply

ImportStatementFails(r) ==
    /\ Importing(r)
    /\ pc[r] \notin {"idle", "reject", "commit"}
    /\ pc[r] = "insert" => Creatable(Patch(r))
    /\ DatabaseFails
    /\ LoseRecord(r)

\* The error of COMMIT is dropped.
ImportCommitFails(r) ==
    /\ Importing(r)
    /\ pc[r] = "commit"
    /\ DatabaseFails
    /\ Rollback(r)
    /\ Answer(r, Target(r), ImportStatus(r))
    /\ UNCHANGED reply

ImportAbortDeadlock(r) ==
    /\ Importing(r)
    /\ \E S \in SUBSET Requests : r \in S /\ WaitInCircle(S)
    /\ LoseRecord(r)
    /\ UNCHANGED bounds

----------------------------------------------------------------------------

ImportStep(r) ==
    \/ RefuseInvalid(r) \/ TakeRecord(r) \/ SendSummary(r)
    \/ ImportSaveAssociations(r) \/ ImportCreateLicense(r) \/ ImportRefuseLicense(r)
    \/ ImportCreateObligation(r) \/ ImportRefuseObligation(r)
    \/ ImportFindLicense(r) \/ ImportPreloadObligations(r) \/ ImportLicenseWithoutText(r)
    \/ ImportFindObligation(r)
    \/ ImportWriteLicense(r) \/ ImportWriteObligation(r) \/ ImportReject(r)
    \/ ImportAssociations(r)
    \/ ImportReloadLicense(r) \/ ImportReloadObligation(r) \/ ImportObligationWithoutTopic(r)
    \/ ImportCommit(r) \/ ImportAbortDeadlock(r)

EndpointStep(r) == ~Importing(r) /\ CatalogueStep(r) /\ UNCHANGED importVars

\* The other requests at work beside an import.
EndpointReceives(r) ==
    /\ ~Importing(r)
    /\ \/ ReceiveUpdateLicense(r) \/ ReceiveUpdateObligation(r) \/ ReceiveDeleteObligation(r)
    /\ UNCHANGED importVars

ImportInit ==
    /\ Init
    /\ file = [r \in Requests |-> <<>>]
    /\ done = [r \in Requests |-> 0]
    /\ summary = [r \in Requests |-> <<>>]

ImportNext ==
    \E r \in Requests :
        \/ ReceiveImportLicenses(r) \/ ReceiveImportObligations(r) \/ EndpointReceives(r)
        \/ ImportStep(r) \/ EndpointStep(r)
        \/ ImportBeginFails(r) \/ ImportStatementFails(r) \/ ImportCommitFails(r)

ImportSpec ==
    /\ ImportInit
    /\ [][ImportNext]_allVars
    /\ \A r \in Requests : WF_allVars(ImportStep(r)) /\ WF_allVars(EndpointStep(r))

----------------------------------------------------------------------------
(* Properties. *)

Statuses == {"created", "updated", "unlinked", "failed"}

\* Type invariant of the tables, of all requests and of the imports.
ImportTypeOK ==
    /\ StoreTypeOK(LicenseInputs \cup ObligationInputs \cup ImportInputs)
    /\ file \in [Requests -> LicenseFiles \cup ObligationFiles \cup {<<>>}]
    /\ summary \in [Requests -> Seq([id : Ids \cup {None}, status : Statuses])]
    /\ \A r \in Requests :
        /\ done[r] \in 0..Len(file[r])
        /\ input[r] # None /\ Importing(r) =>
               /\ Target(r) \in Kind(r)
               /\ Patch(r) = Record(r).patch
        /\ Len(summary[r]) <= done[r]

\* What the summary of an import says of a record is what became of it when it
\* was settled, whatever runs beside: a failed record left no trace, a created
\* one has its own fields and the defaults, an updated one differs from the
\* newest version by nothing but the fields the file gives.  Only a COMMIT that
\* fails is told as a success.
SummaryTellsOutcome ==
    [][\A r \in Requests : Len(summary'[r]) > Len(summary[r]) =>
        LET answer == summary'[r][Len(summary'[r])]
            x == answer.id
            kept == IF OfLicenses(r) THEN {} ELSE {"name"}
            stored == IF Created(r) THEN rows[x] = None
                                        /\ rows'[x] = Apply(ColumnDefaults, Patch(r))
                      ELSE rows'[x] = ApplyExcept(rows[x], Patch(r), kept)
        IN  IF answer.status = "failed" THEN UNCHANGED tables
            ELSE failures' = failures => stored]_allVars

\* The text of a licence or an obligation is replaced only by a request that
\* read it as updatable, by one that takes back a change to the text it read,
\* or by a DELETE, which writes the whole record back: an import cannot get
\* round the flag.
TextNeedsReadPermission ==
    [][\A x \in Ids :
        rows[x] # None /\ rows'[x]["text"] # rows[x]["text"] =>
            \E r \in Requests :
                /\ input[r] # None /\ Target(r) = x
                /\ \/ pc[r] = "deactivate"
                   \/ /\ pc[r] = "commit"
                      /\ seen[r]["updatable"] \/ seen[r]["text"] = rows'[x]["text"]]_allVars

\* Beside imports too a deadlock is between the two kinds of request, with one
\* exception: an import that has saved the type, the classification or the
\* category of an obligation it is about to create finds that the obligation has
\* been created meanwhile, and is being changed by somebody who waits for that
\* type.  The endpoints, which create records under fresh ids, know no such race.
ImportDeadlockNeedsBothKinds ==
    \A S \in SUBSET Requests : WaitInCircle(S) =>
        \/ \E q, r \in S : ServesLicense(q) /\ ServesObligation(r)
        \/ \E r \in S : Importing(r) /\ pc[r] = "insert" /\ entered[r] # {}

\* Every import and every other request ends, whatever the others hold and
\* whatever the file leaves out.
EveryImportEnds ==
    \A r \in Requests : (Importing(r) \/ pc[r] # "idle") ~> (~Importing(r) /\ pc[r] = "idle")

\* "adds changelogs for the updated fields": the fields that a change log lists
\* are those that the same commit changed.
ChangeLogListsChanges ==
    [][\A r \in Requests : pc[r] = "commit" /\ pc'[r] = "idle" /\ failures' = failures =>
        LET x == Target(r)
            before == Snapshot(IF rows[x] = None THEN BlankRow ELSE rows[x],
                               RelatedTo(x, links))
            after == Snapshot(rows'[x], RelatedTo(x, links'))
        IN  DOMAIN note[r] = {c \in AuditedColumns : before[c] # after[c]}]_allVars
=============================================================================
