---------------------------- MODULE ImportProofs ----------------------------
(****************************************************************************)
(* Imports beside each other and beside PATCH and DELETE requests, for any  *)
(* number of requests, files and records: types, the join table, the truth  *)
(* of the summaries and the permission to change a text.                    *)
(*                                                                          *)
(* The invariant speaks of a request at work, whether it serves an endpoint *)
(* or a record of a file: it tells by the blank row that it read, and not   *)
(* by its operation, whether the request creates its row, because a record  *)
(* with an unknown id is looked up before it is created.                    *)
(****************************************************************************)
EXTENDS ImportHandlers, CatalogueProofs

Answers == [id : Ids \cup {None}, status : Statuses]

ImportTypes ==
    /\ StoreTypeOK(CatInputs \cup ImportInputs)
    /\ file \in [Requests -> LicenseFiles \cup ObligationFiles \cup {<<>>}]
    /\ done \in [Requests -> Nat]
    /\ summary \in [Requests -> Seq(Answers)]

\* How far a request is with its file, and what it works on.
ImportProgress(r) ==
    /\ done[r] <= Len(file[r])
    /\ Len(summary[r]) <= done[r]
    /\ input[r] # None /\ Importing(r) =>
           /\ done[r] < Len(file[r])
           /\ Target(r) \in Kind(r)
           /\ Patch(r) = Record(r).patch
    /\ input[r] # None /\ ~Importing(r) => input[r] \in CatInputs

\* What it has read by then.
ImportControl(r) ==
    /\ input[r] = None <=> pc[r] = "idle"
    /\ pc[r] = "insert" => Importing(r)
    /\ pc[r] \in {"preload", "merge", "deactivate", "write"}
           => seen[r] \in Row /\ rows[Target(r)] # None
    /\ pc[r] \in Fields => pc[r] \in DOMAIN Patch(r)
    /\ pc[r] \in Fields /\ image[r] = None => Importing(r)
    /\ pc[r] \in Fields /\ image[r] # None => seen[r] \in Row /\ rows[Target(r)] # None
    /\ pc[r] \in {"findRelated", "upsert", "link", "unlink", "reload", "commit"}
           => seen[r] # None
    /\ pc[r] \in {"findRelated", "upsert", "link", "unlink"} => Relates(Patch(r))

\* A request has written its row from the statement that locks it to its end.
ImportLocking(r) ==
    /\ pc[r] \in {"idle", "insert", "find", "preload", "merge", "deactivate"}
           => image[r] = None
    /\ pc[r] \in {"write", "findRelated", "upsert", "link", "unlink", "reload", "commit"}
           => image[r] # None

\* What it wrote: a row that nobody has committed yet, or a version of the
\* newest one.
ImportWritten(r) ==
    image[r] # None =>
        IF Created(r)
        THEN rows[Target(r)] = None /\ image[r] = Apply(ColumnDefaults, Patch(r))
        ELSE /\ rows[Target(r)] # None
             /\ \/ /\ pc[r] \in Fields \cup {"write", "reject"}
                   /\ image[r] = rows[Target(r)]
                \/ /\ pc[r] \notin Fields \cup {"write"}
                   /\ image[r] = ApplyExcept(rows[Target(r)], Patch(r), Kept(Target(r)))

\* An update goes on only with a text that it may write.
ImportPermitted(r) ==
    /\ \/ pc[r] \in {"merge", "write", "findRelated", "upsert", "link", "unlink", "reload",
                     "commit"}
       \/ pc[r] \in Fields /\ image[r] # None
    /\ ~Created(r)
    /\ "text" \in DOMAIN Patch(r)
    => seen[r]["updatable"] \/ seen[r]["text"] = Patch(r)["text"]

ImportRequest(r) ==
    /\ ImportProgress(r) /\ ImportControl(r) /\ ImportLocking(r)
    /\ ImportWritten(r) /\ ImportPermitted(r) /\ CatLinking(r)

\* Two requests never write the same row.
ImportExclusion ==
    \A q, r \in Requests :
        q # r /\ image[q] # None /\ image[r] # None => Target(q) # Target(r)

ImportInv == /\ ImportTypes
             /\ NoDanglingLinks
             /\ \A r \in Requests : ImportRequest(r)
             /\ ImportExclusion

----------------------------------------------------------------------------
(* Rows, bodies and records. *)

LEMMA RowNotBlank ==
    ASSUME NEW row \in Row
    PROVE  row # BlankRow /\ row # None
  BY NoneAssumption DEF Row, BlankRow, Columns, ValuesOf

\* A record with a name and a text gives a row, whatever else it leaves out.
LEMMA DefaultsGiveRow ==
    ASSUME NEW x, NEW p, IsPatchOf(p, x), Creatable(p)
    PROVE  Apply(ColumnDefaults, p) \in Row
<1> DEFINE a == Apply(ColumnDefaults, p)
<1>1. \A c \in Columns : a[c] \in ValuesOf(c)
  <2>1. ColumnDefaults["updatable"] \in BOOLEAN /\ ColumnDefaults["active"] \in BOOLEAN
    BY DEF ColumnDefaults, BlankRow, Columns
  <2>2. \A c \in DOMAIN p \cap Columns : p[c] \in ValuesOf(c)
    BY DEF IsPatchOf, Creatable, HasEmptyText
  <2>3. {"name", "text"} \subseteq DOMAIN p
    BY DEF Creatable
  <2> HIDE DEF ColumnDefaults
  <2>4. QED
    BY <2>1, <2>2, <2>3 DEF Apply, ApplyExcept, Columns, ValuesOf
<1>2. \A c \in Columns : ValuesOf(c) \subseteq Names \cup Texts \cup BOOLEAN
  BY DEF ValuesOf
<1>3. a \in [Columns -> Names \cup Texts \cup BOOLEAN]
  <2>1. a = [c \in Columns |-> a[c]]
    BY DEF Apply, ApplyExcept
  <2> HIDE DEF a
  <2>2. QED
    BY <1>1, <1>2, <2>1
<1>4. QED
  BY <1>1, <1>3 DEF Row

LEMMA EndpointBodyTyped ==
    ASSUME NEW body \in CatInputs
    PROVE  body # None /\ body.id \in Ids /\ IsPatchOf(body.patch, body.id)
<1>1. IsPatchOf(NoBody, body.id)
  BY DEF IsPatchOf, NoBody
<1>2. CASE body \in LicenseInputs
  BY <1>2, LicenseInputAssumption DEF LicenseInputs, Ids, IsFormOf
<1>3. CASE body \in ObligationInputs
  BY <1>1, <1>3, ObligationInputAssumption DEF ObligationInputs, Ids, IsFormOf
<1>4. QED
  BY <1>2, <1>3 DEF CatInputs

LEMMA ImportBodyTyped ==
    ASSUME NEW body \in ImportInputs
    PROVE  body # None /\ body.id \in Ids /\ IsPatchOf(body.patch, body.id)
  BY ImportAssumption DEF ImportInputs, IsRecordOf, Ids

LEMMA WorkTyped ==
    ASSUME ImportTypes, NEW r \in Requests, input[r] # None
    PROVE  /\ Target(r) \in Ids
           /\ IsPatchOf(Patch(r), Target(r))
  BY EndpointBodyTyped, ImportBodyTyped DEF ImportTypes, StoreTypeOK, Target, Patch

LEMMA FileTyped ==
    ASSUME ImportTypes, NEW r \in Requests
    PROVE  /\ Len(file[r]) \in Nat
           /\ Importing(r) => file[r] \in LicenseFiles \cup ObligationFiles
           /\ ~Importing(r) => Len(file[r]) = 0
           /\ Kind(r) \subseteq Ids
  BY ImportAssumption DEF ImportTypes, Importing, Kind, Ids

\* The next record of a file.
LEMMA RecordTyped ==
    ASSUME ImportTypes, NEW r \in Requests, Importing(r), done[r] < Len(file[r])
    PROVE  /\ Record(r).id \in Kind(r) \cup {None}
           /\ \A x \in Kind(r) :
                [op |-> "import", id |-> x, patch |-> Record(r).patch] \in ImportInputs
<1>1. /\ file[r] \in LicenseFiles \cup ObligationFiles
      /\ file[r] \in Seq({file[r][i] : i \in DOMAIN file[r]})
      /\ done[r] \in Nat
  BY ImportAssumption DEF ImportTypes, Importing
<1>2. done[r] + 1 \in DOMAIN file[r]
  BY <1>1
<1>3. CASE OfLicenses(r)
  <2>1. Record(r) \in RecordsOf(LicenseFiles) /\ Kind(r) = LicenseIds
    BY <1>2, <1>3 DEF Record, RecordsOf, OfLicenses, Kind
  <2>2. QED
    BY <2>1, ImportAssumption DEF ImportInputs, IsRecordOf
<1>4. CASE ~OfLicenses(r)
  <2>1. Record(r) \in RecordsOf(ObligationFiles) /\ Kind(r) = ObligationIds
    BY <1>1, <1>2, <1>4 DEF Record, RecordsOf, OfLicenses, Kind
  <2>2. QED
    BY <2>1, ImportAssumption DEF ImportInputs, IsRecordOf
<1>5. QED
  BY <1>3, <1>4

----------------------------------------------------------------------------
(* The steps within a transaction: one request moves on, and the tables and *)
(* the imports stay as they are.                                            *)

Moves(r) ==
    /\ UNCHANGED <<tables, bounds, input, importVars>>
    /\ reply' \in [Requests -> {"none", "ok", "rejected"}]
    /\ pc' = [pc EXCEPT ![r] = pc'[r]] /\ pc'[r] \in Labels
    /\ seen' = [seen EXCEPT ![r] = seen'[r]] /\ seen'[r] \in Row \cup {None, BlankRow}
    /\ linked' = [linked EXCEPT ![r] = linked'[r]] /\ linked'[r] \in SUBSET Ids
    /\ image' = [image EXCEPT ![r] = image'[r]] /\ image'[r] \in Row \cup {None}
    /\ found' = [found EXCEPT ![r] = found'[r]] /\ found'[r] \in SUBSET Ids
    /\ ins' = [ins EXCEPT ![r] = ins'[r]] /\ ins'[r] \in SUBSET Pairs
    /\ del' = [del EXCEPT ![r] = del'[r]] /\ del'[r] \in SUBSET Pairs
    /\ entered' = [entered EXCEPT ![r] = entered'[r]] /\ entered'[r] \in SUBSET (Fields \X Words)
    /\ DOMAIN note' = Requests /\ \A q \in Requests \ {r} : note'[q] = note[q]
    /\ IsChangeLog(note'[r])

LEMMA MovesTyped ==
    ASSUME ImportTypes, NEW r \in Requests, Moves(r)
    PROVE  ImportTypes'
<1> USE DEF ImportTypes, StoreTypeOK, Moves, tables, bounds, importVars
<1>1. /\ rows' \in [Ids -> Row \cup {None}]
      /\ links' \subseteq Pairs
      /\ audits' \in Seq({audits'[i] : i \in DOMAIN audits'})
      /\ \A i \in DOMAIN audits' : audits'[i].id \in Ids /\ IsChangeLog(audits'[i].changes)
      /\ vocabulary' \subseteq Fields \X Words
      /\ input' \in [Requests -> CatInputs \cup ImportInputs \cup {None}]
      /\ served' \in 0..MaxRequests
      /\ failures' \in 0..MaxFailures
  OBVIOUS
<1>2. /\ file' \in [Requests -> LicenseFiles \cup ObligationFiles \cup {<<>>}]
      /\ done' \in [Requests -> Nat]
      /\ summary' \in [Requests -> Seq(Answers)]
  OBVIOUS
<1>3. pc' \in [Requests -> Labels] /\ seen' \in [Requests -> Row \cup {None, BlankRow}]
  OBVIOUS
<1>4. linked' \in [Requests -> SUBSET Ids] /\ image' \in [Requests -> Row \cup {None}]
  OBVIOUS
<1>5. /\ found' \in [Requests -> SUBSET Ids]
      /\ ins' \in [Requests -> SUBSET Pairs]
      /\ del' \in [Requests -> SUBSET Pairs]
      /\ entered' \in [Requests -> SUBSET (Fields \X Words)]
  OBVIOUS
<1>6. DOMAIN note' = Requests /\ \A q \in Requests : IsChangeLog(note'[q])
  OBVIOUS
<1>7. QED
  BY <1>1, <1>2, <1>3, <1>4, <1>5, <1>6

\* What the invariant of a request speaks of, apart from the tables.
Undisturbed(q) ==
    /\ pc'[q] = pc[q] /\ input'[q] = input[q] /\ seen'[q] = seen[q] /\ image'[q] = image[q]
    /\ found'[q] = found[q] /\ ins'[q] = ins[q] /\ entered'[q] = entered[q]
    /\ file'[q] = file[q] /\ done'[q] = done[q] /\ summary'[q] = summary[q]

LEMMA MovesDisturbNobody ==
    ASSUME ImportTypes, NEW r \in Requests, Moves(r), NEW q \in Requests \ {r}
    PROVE  Undisturbed(q)
  BY DEF ImportTypes, StoreTypeOK, Moves, Undisturbed, importVars

LEMMA UndisturbedInv ==
    ASSUME NEW q \in Requests, ImportRequest(q), Undisturbed(q), UNCHANGED rows
    PROVE  ImportRequest(q)'
<1> USE DEF ImportRequest, Undisturbed, Target, Patch, Importing
<1>1. ImportProgress(q)'
  BY DEF ImportProgress, Kind, OfLicenses, Record
<1>2. ImportControl(q)' /\ ImportLocking(q)'
  BY DEF ImportControl, ImportLocking
<1>3. ImportWritten(q)' /\ ImportPermitted(q)'
  BY DEF ImportWritten, ImportPermitted, Created
<1>4. CatLinking(q)'
  BY DEF CatLinking, Wanted
<1>5. QED
  BY <1>1, <1>2, <1>3, <1>4

LEMMA MovesProgress ==
    ASSUME ImportTypes, NEW r \in Requests, Moves(r), ImportProgress(r)
    PROVE  ImportProgress(r)'
  BY DEF Moves, importVars, ImportProgress, Importing, Target, Patch, Kind, OfLicenses, Record

(* The statements, of the endpoints and of the imports side by side. *)

Creating(r) == ImportCreateLicense(r) \/ ImportCreateObligation(r)

Finding(r) ==
    \/ FindLicense(r) \/ FindObligation(r)
    \/ ImportFindLicense(r) \/ ImportFindObligation(r)

Preloading(r) == PreloadObligations(r) \/ PreloadLicenses(r) \/ ImportPreloadObligations(r)

Saving(r) == (ServesObligation(r) \/ ImportsObligation(r)) /\ SaveWord(r)

Merging(r) == MergeLicenseRef(r) \/ MergeObligationRef(r) \/ LockRecord(r)

Writing(r) ==
    \/ WriteLicense(r) \/ WriteObligation(r) \/ RefuseLicense(r) \/ RefuseObligation(r)
    \/ ImportsLicense(r) /\ WriteRecord(r, {})
    \/ ImportsObligation(r) /\ WriteRecord(r, {"name"})

Replacing(r) == ReplaceAssociations(r) \/ ImportDeleteLinks(r)

Reloading(r) == ReloadLicense(r) \/ ReloadObligation(r) \/ ReloadRecord(r)

Statement(r) ==
    /\ input[r] # None
    /\ UNCHANGED importVars
    /\ \/ Creating(r) \/ Finding(r) \/ Preloading(r) \/ Merging(r) \/ Saving(r)
       \/ Writing(r) \/ Replacing(r) \/ Reloading(r)

\* A creation begins with a save, or with the insertion itself.
LEMMA BeginCreationGoes ==
    ASSUME NEW p
    PROVE  BeginCreation(p) = "insert" \/ (BeginCreation(p) \in Fields \cap DOMAIN p)
  BY NextSaveLater DEF BeginCreation

LEMMA CreatingInv ==
    ASSUME ImportTypes, NEW r \in Requests, ImportRequest(r), input[r] # None,
           UNCHANGED importVars, Creating(r)
    PROVE  Moves(r) /\ ImportRequest(r)'
<1> USE DEF ImportTypes, StoreTypeOK, tables, bounds, Goto
<1>1. /\ Target(r) \in Ids
      /\ IsPatchOf(Patch(r), Target(r))
      /\ Creatable(Patch(r))
  BY WorkTyped DEF Creating, ImportCreateLicense, ImportCreateObligation, CreateRecord
<1>2. Apply(ColumnDefaults, Patch(r)) \in Row
  BY <1>1, DefaultsGiveRow
<1>3. /\ pc[r] = "insert" /\ rows[Target(r)] = None
      /\ pc' = [pc EXCEPT ![r] = AfterWrite(r)]
      /\ seen' = [seen EXCEPT ![r] = BlankRow]
      /\ image' = [image EXCEPT ![r] = Apply(ColumnDefaults, Patch(r))]
      /\ UNCHANGED <<tables, bounds, input, linked, found, ins, del, entered, note, reply, importVars>>
  BY DEF Creating, ImportCreateLicense, ImportCreateObligation, CreateRecord
<1>4. AfterWrite(r) \in {"findRelated", "reload"} /\ (AfterWrite(r) = "findRelated" => Relates(Patch(r)))
  BY DEF AfterWrite
<1>5. Moves(r)
  BY <1>2, <1>3, <1>4 DEF Moves, Labels
<1>6. /\ pc'[r] = AfterWrite(r) /\ seen'[r] = BlankRow
      /\ image'[r] = Apply(ColumnDefaults, Patch(r))
      /\ UNCHANGED <<rows, links, input, found, ins>>
  BY <1>3
<1>7. image'[r] # None /\ seen'[r] # None
  BY <1>2, <1>6, NoneAssumption
<1>8. ImportProgress(r)'
  BY <1>5, MovesProgress DEF ImportRequest
<1>9. ImportControl(r)' /\ ImportLocking(r)' /\ ImportWritten(r)' /\ ImportPermitted(r)'
  BY <1>3, <1>4, <1>6, <1>7
  DEF ImportRequest, ImportControl, ImportLocking, ImportWritten, ImportPermitted, Created,
      Target, Patch, Fields
<1>10. CatLinking(r)'
  BY <1>3, <1>4, <1>6 DEF ImportRequest, CatLinking, Target, Wanted, Fields
<1>11. QED
  BY <1>5, <1>8, <1>9, <1>10 DEF ImportRequest

LEMMA FindingInv ==
    ASSUME ImportTypes, NEW r \in Requests, ImportRequest(r), input[r] # None,
           UNCHANGED importVars, Finding(r)
    PROVE  Moves(r) /\ ImportRequest(r)'
<1> USE DEF ImportTypes, StoreTypeOK, tables, bounds, Goto
<1> DEFINE next == IF rows[Target(r)] = None THEN Fields \cup {"insert", "reject"}
                   ELSE {"reject", "deactivate", "preload", "merge"}
<1>1. Target(r) \in Ids /\ rows[Target(r)] \in Row \cup {None}
  BY WorkTyped
<1>2. /\ pc[r] = "find"
      /\ \E l \in next :
            /\ pc' = [pc EXCEPT ![r] = l]
            /\ l \in Fields \cup {"insert"} => Importing(r)
            /\ l \in Fields => l \in DOMAIN Patch(r)
            /\ l = "merge" /\ "text" \in DOMAIN Patch(r) =>
                  rows[Target(r)]["updatable"] \/ rows[Target(r)]["text"] = Patch(r)["text"]
      /\ seen' = [seen EXCEPT ![r] = rows[Target(r)]]
      /\ UNCHANGED <<tables, bounds, input, linked, image, found, ins, del, entered, note, reply>>
  <2> DEFINE Well(l) == /\ l \in next
                        /\ l \in Fields \cup {"insert"} => Importing(r)
                        /\ l \in Fields => l \in DOMAIN Patch(r)
                        /\ l # "merge"
  <2>1. CASE FindLicense(r)
    <3>1. Well(IF rows[Target(r)] = None THEN "reject" ELSE "preload")
      BY DEF Fields
    <3>2. QED
      BY <2>1, <3>1 DEF FindLicense
  <2>2. CASE FindObligation(r)
    <3>1. Well(IF rows[Target(r)] = None THEN "reject"
               ELSE IF Operation(r) = "delete" THEN "deactivate" ELSE "preload")
      BY DEF Fields
    <3>2. QED
      BY <2>2, <3>1 DEF FindObligation
  <2>3. CASE ImportFindLicense(r)
    BY <2>3, BeginCreationGoes DEF ImportFindLicense, ImportsLicense, Fields
  <2>4. CASE ImportFindObligation(r)
    BY <2>4, BeginCreationGoes DEF ImportFindObligation, ImportsObligation, Fields
  <2>5. QED
    BY <2>1, <2>2, <2>3, <2>4 DEF Finding
<1>3. next \subseteq Labels
  BY DEF Labels
<1>4. Moves(r)
  BY <1>1, <1>2, <1>3 DEF Moves
<1>5. /\ pc'[r] \in next
      /\ pc'[r] \in Fields \cup {"insert"} => Importing(r)
      /\ pc'[r] \in Fields => pc'[r] \in DOMAIN Patch(r)
      /\ pc'[r] = "merge" /\ "text" \in DOMAIN Patch(r) =>
            rows[Target(r)]["updatable"] \/ rows[Target(r)]["text"] = Patch(r)["text"]
      /\ seen'[r] = rows[Target(r)]
      /\ UNCHANGED <<rows, links, input, image, found, ins, file>>
  BY <1>2 DEF importVars
<1>6. ImportProgress(r)'
  BY <1>4, MovesProgress DEF ImportRequest
<1>7. ImportControl(r)' /\ ImportLocking(r)' /\ ImportWritten(r)' /\ ImportPermitted(r)'
  BY <1>1, <1>2, <1>5
  DEF ImportRequest, ImportControl, ImportLocking, ImportWritten, ImportPermitted, Created,
      Target, Patch, Importing, Fields
<1>8. CatLinking(r)'
  BY <1>2, <1>5 DEF ImportRequest, CatLinking, Target, Wanted, Fields
<1>9. QED
  BY <1>4, <1>6, <1>7, <1>8 DEF ImportRequest

LEMMA PreloadingInv ==
    ASSUME ImportTypes, NEW r \in Requests, ImportRequest(r), input[r] # None,
           UNCHANGED importVars, Preloading(r)
    PROVE  Moves(r) /\ ImportRequest(r)'
<1> USE DEF ImportTypes, StoreTypeOK, tables, bounds, Goto
<1>1. RelatedTo(Target(r), links) \in SUBSET Ids
  BY WorkTyped, LinksOfEither
<1>2. /\ pc[r] = "preload"
      /\ \E l \in {"reject", "merge"} :
            /\ pc' = [pc EXCEPT ![r] = l]
            /\ l = "merge" /\ "text" \in DOMAIN Patch(r) =>
                  seen[r]["updatable"] \/ seen[r]["text"] = Patch(r)["text"]
      /\ linked' = [linked EXCEPT ![r] = RelatedTo(Target(r), links)]
      /\ UNCHANGED <<tables, bounds, input, seen, image, found, ins, del, entered, note, reply>>
  <2>1. CASE PreloadObligations(r)
    BY <2>1 DEF PreloadObligations, ForbiddenText
  <2>2. CASE PreloadLicenses(r)
    BY <2>2 DEF PreloadLicenses, ForbiddenObligationText
  <2>3. CASE ImportPreloadObligations(r)
    BY <2>3 DEF ImportPreloadObligations, ForbiddenText
  <2>4. QED
    BY <2>1, <2>2, <2>3 DEF Preloading
<1>3. Moves(r)
  BY <1>1, <1>2 DEF Moves, Labels
<1>4. /\ pc'[r] \in {"reject", "merge"}
      /\ pc'[r] = "merge" /\ "text" \in DOMAIN Patch(r) =>
            seen[r]["updatable"] \/ seen[r]["text"] = Patch(r)["text"]
      /\ UNCHANGED <<rows, links, input, seen, image, found, ins>>
  BY <1>2
<1>5. ImportProgress(r)'
  BY <1>3, MovesProgress DEF ImportRequest
<1>6. ImportControl(r)' /\ ImportLocking(r)' /\ ImportWritten(r)' /\ ImportPermitted(r)'
  BY <1>2, <1>4
  DEF ImportRequest, ImportControl, ImportLocking, ImportWritten, ImportPermitted, Created,
      Target, Patch, Fields
<1>7. CatLinking(r)'
  BY <1>2, <1>4 DEF ImportRequest, CatLinking, Target, Wanted, Fields
<1>8. QED
  BY <1>3, <1>5, <1>6, <1>7 DEF ImportRequest

LEMMA MergingInv ==
    ASSUME ImportTypes, NEW r \in Requests, ImportRequest(r), input[r] # None,
           UNCHANGED importVars, Merging(r)
    PROVE  Moves(r) /\ ImportRequest(r)'
<1> USE DEF ImportTypes, StoreTypeOK, tables, bounds, Goto
<1>1. Target(r) \in Ids /\ rows[Target(r)] \in Row \cup {None}
  BY WorkTyped
<1>2. PICK l \in Fields \cup {"write"} :
          /\ pc[r] = "merge"
          /\ pc' = [pc EXCEPT ![r] = l]
          /\ l \in Fields => l \in DOMAIN Patch(r)
          /\ image' = [image EXCEPT ![r] = rows[Target(r)]]
          /\ UNCHANGED <<tables, bounds, input, seen, linked, found, ins, del, entered, note,
                         reply>>
  <2>1. CASE MergeLicenseRef(r)
    BY <2>1 DEF MergeLicenseRef, Fields
  <2>2. ASSUME NEW op
        PROVE  NextSave(op, Patch(r), 0, "write") \in (Fields \cap DOMAIN Patch(r)) \cup {"write"}
    BY NextSaveLater
  <2>3. CASE MergeObligationRef(r)
    BY <2>2, <2>3 DEF MergeObligationRef, Fields
  <2>4. CASE LockRecord(r)
    BY <2>2, <2>4 DEF LockRecord, Fields
  <2>5. QED
    BY <2>1, <2>3, <2>4 DEF Merging
<1>3. Moves(r)
  <2>1. l \in Labels
    BY DEF Labels
  <2>2. QED
    BY <1>1, <1>2, <2>1 DEF Moves
<1>4. /\ pc'[r] \in Fields \cup {"write"} /\ image'[r] = rows[Target(r)]
      /\ pc'[r] \in Fields => pc'[r] \in DOMAIN Patch(r)
      /\ UNCHANGED <<rows, links, input, seen, found, ins>>
  BY <1>2
<1>5. ImportProgress(r)'
  BY <1>3, MovesProgress DEF ImportRequest
<1>6. seen[r] # BlankRow /\ seen[r] # None
  BY <1>2, RowNotBlank DEF ImportRequest, ImportControl
<1>7. ImportControl(r)' /\ ImportLocking(r)' /\ ImportWritten(r)' /\ ImportPermitted(r)'
  BY <1>2, <1>4, <1>6
  DEF ImportRequest, ImportControl, ImportLocking, ImportWritten, ImportPermitted, Created,
      Target, Patch, Fields
<1>8. CatLinking(r)'
  BY <1>2, <1>4 DEF ImportRequest, CatLinking, Target, Wanted, Fields
<1>9. QED
  BY <1>3, <1>5, <1>7, <1>8 DEF ImportRequest

LEMMA SavingInv ==
    ASSUME ImportTypes, NEW r \in Requests, ImportRequest(r), input[r] # None,
           UNCHANGED importVars, Saving(r)
    PROVE  Moves(r) /\ ImportRequest(r)'
<1> USE DEF ImportTypes, StoreTypeOK, tables, bounds, Goto
<1>1. /\ pc[r] \in Fields
      /\ UNCHANGED <<tables, bounds, input, seen, linked, image, found, ins, del, note, reply>>
      /\ entered' \in {entered, [entered EXCEPT ![r] = @ \cup {Word(r, pc[r])}]}
  BY DEF Saving, SaveWord
<1>2. \E l : /\ pc' = [pc EXCEPT ![r] = l]
             /\ \/ l = IF image[r] = None THEN "insert" ELSE "write"
                \/ l \in Fields /\ l \in DOMAIN Patch(r)
  BY SaveWordGoes DEF Saving
<1>3. Word(r, pc[r]) \in Fields \X Words
  BY <1>1, WorkTyped DEF ImportRequest, ImportControl, Word, IsPatchOf
<1>4. Moves(r)
  BY <1>1, <1>2, <1>3 DEF Moves, Labels
<1>5. /\ \/ pc'[r] = IF image[r] = None THEN "insert" ELSE "write"
         \/ pc'[r] \in Fields /\ pc'[r] \in DOMAIN Patch(r)
      /\ UNCHANGED <<rows, links, input, seen, image, found, ins>>
  BY <1>1, <1>2
<1>6. ImportProgress(r)'
  BY <1>4, MovesProgress DEF ImportRequest
<1>7. UNCHANGED file
  BY DEF importVars
<1>8. ImportControl(r)' /\ ImportLocking(r)'
  BY <1>1, <1>5, <1>7
  DEF ImportRequest, ImportControl, ImportLocking, Target, Patch, Importing, Fields
<1>9. ImportWritten(r)' /\ ImportPermitted(r)'
  BY <1>1, <1>5, RowNotBlank
  DEF ImportRequest, ImportControl, ImportWritten, ImportPermitted, Created, Target, Patch,
      Fields
<1>10. CatLinking(r)'
  BY <1>1, <1>5 DEF ImportRequest, CatLinking, Target, Wanted, Fields
<1>11. QED
  BY <1>4, <1>6, <1>8, <1>9, <1>10 DEF ImportRequest

LEMMA WritingInv ==
    ASSUME ImportTypes, NEW r \in Requests, ImportRequest(r), input[r] # None,
           UNCHANGED importVars, Writing(r)
    PROVE  Moves(r) /\ ImportRequest(r)'
<1> USE DEF ImportTypes, StoreTypeOK, tables, bounds, Goto
<1> DEFINE new == ApplyExcept(rows[Target(r)], Patch(r), Kept(Target(r)))
<1>1. /\ Target(r) \in Ids
      /\ IsPatchOf(Patch(r), Target(r))
      /\ rows[Target(r)] \in Row \cup {None}
  BY WorkTyped
<1>2. /\ pc[r] = "write"
      /\ \/ /\ ~HasEmptyText(Patch(r))
            /\ pc' = [pc EXCEPT ![r] = AfterWrite(r)]
            /\ image' = [image EXCEPT ![r] =
                            ApplyExcept(image[r], Patch(r), Kept(Target(r)))]
         \/ /\ pc' = [pc EXCEPT ![r] = "reject"]
            /\ UNCHANGED image
      /\ UNCHANGED <<tables, bounds, input, seen, linked, found, ins, del, entered, note, reply>>
  <2>1. CASE WriteLicense(r) \/ RefuseLicense(r)
    <3>1. Kept(Target(r)) = {}
      BY <2>1 DEF WriteLicense, RefuseLicense, ServesLicense, Kept, Target
    <3>2. QED
      BY <2>1, <3>1 DEF WriteLicense, RefuseLicense, AfterWrite, Apply
  <2>2. CASE WriteObligation(r) \/ RefuseObligation(r)
    <3>1. Kept(Target(r)) = {"name"}
      BY <2>2, IdsAssumption DEF WriteObligation, RefuseObligation, ServesObligation, Kept, Target
    <3>2. QED
      BY <2>2, <3>1 DEF WriteObligation, RefuseObligation, AfterWrite
  <2>3. CASE ImportsLicense(r) /\ WriteRecord(r, {})
    <3>1. Kept(Target(r)) = {}
      BY <2>3 DEF ImportsLicense, ImportRequest, ImportProgress, Kind, Kept
    <3>2. QED
      BY <2>3, <3>1 DEF WriteRecord
  <2>4. CASE ImportsObligation(r) /\ WriteRecord(r, {"name"})
    <3>1. Kept(Target(r)) = {"name"}
      BY <2>4, IdsAssumption
      DEF ImportsObligation, ImportRequest, ImportProgress, Kind, Kept
    <3>2. QED
      BY <2>4, <3>1 DEF WriteRecord
  <2>5. QED
    BY <2>1, <2>2, <2>3, <2>4 DEF Writing
<1>3. /\ image[r] = rows[Target(r)] /\ image[r] # None /\ image[r] \in Row
      /\ seen[r] # BlankRow /\ seen[r] # None
  BY <1>1, <1>2, RowNotBlank
  DEF ImportRequest, ImportControl, ImportLocking, ImportWritten, Created
<1>4. ~HasEmptyText(Patch(r)) => new \in Row
  BY <1>1, <1>3, ApplyExceptKeepsRow
<1>5. AfterWrite(r) \in {"findRelated", "reload"} /\ (AfterWrite(r) = "findRelated" => Relates(Patch(r)))
  BY DEF AfterWrite
<1>6. /\ UNCHANGED <<rows, links, input, seen, found, ins>>
      /\ image'[r] \in Row
      /\ image'[r] # None
      /\ \/ pc'[r] = "reject" /\ image'[r] = rows[Target(r)]
         \/ pc'[r] = AfterWrite(r) /\ image'[r] = new
  BY <1>2, <1>3, <1>4, RowNotBlank
<1>7. Moves(r)
  BY <1>2, <1>3, <1>5, <1>6 DEF Moves, Labels
<1> HIDE DEF new
<1>8. ImportProgress(r)'
  BY <1>7, MovesProgress DEF ImportRequest
<1>9. ImportControl(r)' /\ ImportLocking(r)'
  BY <1>2, <1>3, <1>5, <1>6
  DEF ImportRequest, ImportControl, ImportLocking, Target, Patch, Fields
<1>10. ImportWritten(r)' /\ ImportPermitted(r)'
  BY <1>2, <1>3, <1>5, <1>6
  DEF ImportRequest, ImportControl, ImportWritten, ImportPermitted, Created, Target, Patch,
      Fields, new
<1>11. CatLinking(r)'
  BY <1>2, <1>5, <1>6 DEF ImportRequest, CatLinking, Target, Wanted, Fields
<1>12. QED
  BY <1>7, <1>8, <1>9, <1>10, <1>11 DEF ImportRequest

LEMMA ReplacingInv ==
    ASSUME ImportTypes, NEW r \in Requests, ImportRequest(r), input[r] # None,
           UNCHANGED importVars, Replacing(r)
    PROVE  Moves(r) /\ ImportRequest(r)'
<1> USE DEF ImportTypes, StoreTypeOK, tables, bounds, Goto
<1>1. Target(r) \in Ids /\ IsPatchOf(Patch(r), Target(r))
  BY WorkTyped
<1>2. /\ UNCHANGED <<tables, bounds, input, seen, linked, image, entered, note, reply>>
      /\ pc[r] \in {"findRelated", "upsert", "link", "unlink"}
      /\ \E l \in {"upsert", "link", "unlink", "reload", "reject"} : pc' = [pc EXCEPT ![r] = l]
  BY DEF Replacing, ReplaceAssociations, FindRelated, UpsertRelated, InsertLinks, DeleteLinks,
         ImportDeleteLinks
<1>3. Relates(Patch(r)) /\ image[r] # None /\ seen[r] # None
  BY <1>2 DEF ImportRequest, ImportControl, ImportLocking
<1>4. /\ found' = [found EXCEPT ![r] = found'[r]] /\ found'[r] \in SUBSET Ids
      /\ ins' = [ins EXCEPT ![r] = ins'[r]] /\ ins'[r] \in SUBSET Pairs
      /\ del' = [del EXCEPT ![r] = del'[r]] /\ del'[r] \in SUBSET Pairs
      /\ CatLinking(r)'
  <2>1. CASE FindRelated(r)
    <3>1. /\ pc[r] = "findRelated" /\ pc'[r] = "upsert"
          /\ found' = [found EXCEPT ![r] = {y \in Patch(r)["related"] : rows[y] # None}]
          /\ UNCHANGED <<rows, input, ins, del>>
      BY <2>1 DEF FindRelated
    <3>2. Patch(r)["related"] \subseteq Opposite(Target(r)) /\ Opposite(Target(r)) \subseteq Ids
      BY <1>1, <1>3, LinksOfEither DEF Relates, IsPatchOf
    <3>3. QED
      BY <3>1, <3>2 DEF ImportRequest, CatLinking, Target, Wanted, Fields
  <2>2. CASE UpsertRelated(r)
    <3>1. /\ pc[r] = "upsert" /\ pc'[r] = "link"
          /\ UNCHANGED <<rows, input, found, ins, del>>
      BY <2>2 DEF UpsertRelated
    <3>2. QED
      BY <3>1 DEF ImportRequest, CatLinking, Target, Wanted, Fields
  <2>3. CASE InsertLinks(r)
    <3>1. /\ pc[r] = "link" /\ pc'[r] = "unlink"
          /\ ins' = [ins EXCEPT ![r] = Wanted(r) \ links]
          /\ UNCHANGED <<rows, input, found, del>>
      BY <2>3 DEF InsertLinks
    <3>2. Wanted(r) \subseteq Pairs
      BY <1>1, LinksOfEither DEF ImportRequest, CatLinking, Wanted
    <3>3. QED
      BY <3>1, <3>2 DEF ImportRequest, CatLinking, Target, Wanted, Fields
  <2>4. CASE DeleteLinks(r) \/ ImportDeleteLinks(r)
    <3>1. /\ pc[r] = "unlink" /\ pc'[r] \in {"reload", "reject"}
          /\ del' = [del EXCEPT ![r] = Stale(r)]
          /\ UNCHANGED <<rows, input, found, ins>>
      BY <2>4 DEF DeleteLinks, ImportDeleteLinks
    <3>2. Stale(r) \subseteq Pairs
      <4>1. RelatedTo(Target(r), links) \ found[r] \subseteq Opposite(Target(r))
        BY <1>1, LinksOfEither
      <4>2. QED
        BY <1>1, <4>1, LinksOfEither DEF Stale
    <3>3. QED
      BY <3>1, <3>2 DEF ImportRequest, CatLinking, Target, Wanted, Fields
  <2>5. QED
    BY <2>1, <2>2, <2>3, <2>4 DEF Replacing, ReplaceAssociations
<1>5. Moves(r)
  BY <1>2, <1>4 DEF Moves, Labels
<1>6. /\ pc'[r] \in {"upsert", "link", "unlink", "reload", "reject"}
      /\ UNCHANGED <<rows, input, seen, image>>
  BY <1>2
<1>7. ImportProgress(r)'
  BY <1>5, MovesProgress DEF ImportRequest
<1>8. ImportControl(r)' /\ ImportLocking(r)' /\ ImportWritten(r)' /\ ImportPermitted(r)'
  BY <1>2, <1>3, <1>6
  DEF ImportRequest, ImportControl, ImportLocking, ImportWritten, ImportPermitted, Created,
      Target, Patch, Fields
<1>9. QED
  BY <1>4, <1>5, <1>7, <1>8 DEF ImportRequest

LEMMA ReloadingInv ==
    ASSUME ImportTypes, NEW r \in Requests, ImportRequest(r), input[r] # None,
           UNCHANGED importVars, Reloading(r)
    PROVE  Moves(r) /\ ImportRequest(r)'
<1> USE DEF ImportTypes, StoreTypeOK, tables, bounds, Goto
<1>1. /\ pc[r] = "reload"
      /\ pc' = [pc EXCEPT ![r] = "commit"]
      /\ WriteChangeLog(r)
      /\ UNCHANGED <<tables, bounds, input, seen, linked, image, found, ins, del, entered>>
  BY DEF Reloading, ReloadLicense, ReloadObligation, ReloadRecord
<1>2. reply' \in [Requests -> {"none", "ok", "rejected"}]
  BY DEF Reloading, ReloadLicense, ReloadObligation, ReloadRecord
<1>3. IsChangeLog(note'[r]) /\ DOMAIN note' = Requests /\ \A q \in Requests \ {r} : note'[q] = note[q]
  <2>1. seen[r] \in Row \cup {BlankRow} /\ image[r] \in Row \cup {BlankRow}
    BY <1>1 DEF ImportRequest, ImportControl, ImportLocking
  <2>2. linked[r] \in SUBSET Ids /\ RelatedTo(Target(r), Visible(r)) \in SUBSET Ids
    BY WorkTyped, LinksOfEither
  <2>3. IsChangeLog(ChangeLog(Snapshot(seen[r], linked[r]),
                              Snapshot(image[r], RelatedTo(Target(r), Visible(r)))))
    BY <2>1, <2>2, SnapshotTyped, ChangeLogTyped
  <2>4. QED
    BY <1>1, <2>3 DEF WriteChangeLog
<1>4. Moves(r)
  BY <1>1, <1>2, <1>3 DEF Moves, Labels
<1>5. pc'[r] = "commit" /\ UNCHANGED <<rows, links, input, seen, image, found, ins>>
  BY <1>1
<1>6. ImportProgress(r)'
  BY <1>4, MovesProgress DEF ImportRequest
<1>7. ImportControl(r)' /\ ImportLocking(r)' /\ ImportWritten(r)' /\ ImportPermitted(r)'
  BY <1>1, <1>5
  DEF ImportRequest, ImportControl, ImportLocking, ImportWritten, ImportPermitted, Created,
      Target, Patch, Fields
<1>8. CatLinking(r)'
  BY <1>1, <1>5 DEF ImportRequest, CatLinking, Target, Wanted, Fields
<1>9. QED
  BY <1>4, <1>6, <1>7, <1>8 DEF ImportRequest

LEMMA StatementInv ==
    ASSUME ImportTypes, NEW r \in Requests, ImportRequest(r), Statement(r)
    PROVE  Moves(r) /\ ImportRequest(r)'
  BY CreatingInv, FindingInv, PreloadingInv, MergingInv, SavingInv, WritingInv, ReplacingInv,
     ReloadingInv
  DEF Statement

----------------------------------------------------------------------------
(* The other steps. *)

Replies == [Requests -> {"none", "ok", "rejected"}]

\* What a step of r may do to its import: nothing, settle a record with or
\* without an answer, or end it.
Accounting(r) ==
    \/ UNCHANGED importVars
    \/ /\ Importing(r) /\ done[r] < Len(file[r])
       /\ Settle(r)
       /\ \/ UNCHANGED summary
          \/ \E answer \in Answers : summary' = [summary EXCEPT ![r] = Append(@, answer)]
    \/ /\ file' = [file EXCEPT ![r] = <<>>]
       /\ done' = [done EXCEPT ![r] = 0]
       /\ summary' = [summary EXCEPT ![r] = <<>>]

\* A request or a transaction begins.
Beginning(r) ==
    /\ pc[r] = "idle"
    /\ \E body \in CatInputs \cup ImportInputs, l \in Fields \cup {"insert", "find"} :
          /\ pc' = [pc EXCEPT ![r] = l]
          /\ input' = [input EXCEPT ![r] = body]
          /\ l # "find" => Importing(r)
          /\ l \in Fields => l \in DOMAIN body.patch
          /\ Importing(r) => /\ done[r] < Len(file[r])
                             /\ body.id \in Kind(r)
                             /\ body.patch = Record(r).patch
          /\ ~Importing(r) => body \in CatInputs
    /\ reply' \in Replies
    /\ served' \in 0..MaxRequests
    /\ UNCHANGED <<tables, seen, linked, image, found, ins, del, entered, note, failures,
                   importVars>>

\* An import begins or ends, or a record is settled without a transaction.
Outside(r) ==
    /\ pc[r] = "idle"
    /\ \/ Accounting(r)
       \/ /\ ~Importing(r)
          /\ \E f \in LicenseFiles \cup ObligationFiles : file' = [file EXCEPT ![r] = f]
          /\ UNCHANGED <<done, summary>>
    /\ reply' \in Replies
    /\ served' \in 0..MaxRequests
    /\ failures' \in 0..MaxFailures
    /\ UNCHANGED <<tables, pc, input, seen, linked, image, found, ins, del, entered, note>>

\* A transaction ends: it is rolled back, committed, or the single UPDATE of a
\* DELETE request.
Ending(r) ==
    /\ Finish(r)
    /\ Accounting(r)
    /\ reply' \in Replies
    /\ served' = served
    /\ failures' \in 0..MaxFailures
    /\ \/ UNCHANGED tables
       \/ input[r] # None /\ Commit(r)
       \/ ~Importing(r) /\ DeactivateObligation(r)

LEMMA AnswerAccounted ==
    ASSUME ImportTypes, NEW r \in Requests, Importing(r), done[r] < Len(file[r]),
           NEW x \in Ids \cup {None}, NEW s \in Statuses, Answer(r, x, s)
    PROVE  Accounting(r)
  BY DEF Answer, Accounting, Answers

LEMMA AtWork ==
    ASSUME ImportTypes, NEW r \in Requests, ImportRequest(r), pc[r] # "idle", Importing(r)
    PROVE  /\ input[r] # None
           /\ done[r] < Len(file[r])
           /\ Target(r) \in Ids
           /\ Record(r).id \in Ids \cup {None}
  BY WorkTyped, FileTyped, RecordTyped DEF ImportRequest, ImportControl, ImportProgress

\* How the imports refuse, lose, panic and fail.
LEMMA ImportEnds ==
    ASSUME ImportTypes, NEW r \in Requests, ImportRequest(r), Importing(r),
           \/ ImportRefuseLicense(r) \/ ImportRefuseObligation(r)
           \/ ImportLicenseWithoutText(r) \/ ImportObligationWithoutTopic(r)
           \/ ImportReject(r) \/ ImportAbortDeadlock(r)
           \/ ImportStatementFails(r) \/ ImportCommitFails(r)
           \/ ImportCommit(r)
    PROVE  Ending(r)
<1>1. pc[r] # "idle"
  <2>1. ImportAbortDeadlock(r) => pc[r] # "idle"
    BY DEF ImportAbortDeadlock, WaitInCircle, Blocks, Fields
  <2>2. QED
    BY <2>1
    DEF ImportRefuseLicense, ImportRefuseObligation, CannotCreate, ImportLicenseWithoutText,
        ImportObligationWithoutTopic, ImportReject, ImportStatementFails, ImportCommitFails,
        ImportCommit, Commit
<1>2. /\ input[r] # None
      /\ done[r] < Len(file[r])
      /\ Target(r) \in Ids
      /\ Record(r).id \in Ids \cup {None}
  BY <1>1, AtWork
<1>3. ImportStatus(r) \in Statuses /\ "failed" \in Statuses
  BY DEF ImportStatus, Statuses
<1>4. reply \in Replies /\ failures \in 0..MaxFailures
  BY DEF ImportTypes, StoreTypeOK, Replies
<1>5. ASSUME RefuseRecord(r)
      PROVE  Ending(r)
  BY <1>2, <1>3, <1>4, <1>5, AnswerAccounted DEF RefuseRecord, Rollback, Ending, bounds
<1>6. ASSUME Panic(r)
      PROVE  Ending(r)
  <2>1. reply' \in Replies
    BY <1>4, <1>6 DEF Panic, Replies
  <2>2. Accounting(r)
    BY <1>6 DEF Panic, Accounting
  <2>3. QED
    BY <1>4, <1>6, <2>1, <2>2 DEF Panic, Rollback, Ending, bounds
<1>7. ASSUME LoseRecord(r), served' = served, failures' \in 0..MaxFailures
      PROVE  Ending(r)
  <2>1. Accounting(r)
    BY <1>2, <1>3, <1>7, AnswerAccounted DEF LoseRecord, Accounting
  <2>2. QED
    BY <1>4, <1>7, <2>1 DEF LoseRecord, Rollback, Ending
<1>8. DatabaseFails => served' = served /\ failures' \in 0..MaxFailures
  BY <1>4, StoreAssumption DEF DatabaseFails
<1>9. CASE ImportCommitFails(r)
  BY <1>2, <1>3, <1>4, <1>8, <1>9, AnswerAccounted DEF ImportCommitFails, Rollback, Ending
<1>10. CASE ImportCommit(r)
  BY <1>2, <1>3, <1>4, <1>10, AnswerAccounted DEF ImportCommit, Commit, Ending, bounds
<1>11. CASE ImportStatementFails(r)
  BY <1>7, <1>8, <1>11 DEF ImportStatementFails
<1>12. CASE ImportAbortDeadlock(r)
  BY <1>4, <1>7, <1>12 DEF ImportAbortDeadlock, bounds
<1>13. QED
  BY <1>5, <1>6, <1>9, <1>10, <1>11, <1>12
  DEF ImportRefuseLicense, ImportRefuseObligation, ImportLicenseWithoutText,
      ImportObligationWithoutTopic, ImportReject

LEMMA ImportStepSorted ==
    ASSUME ImportTypes, NEW r \in Requests, ImportRequest(r),
           \/ ImportStep(r) \/ ImportBeginFails(r) \/ ImportStatementFails(r)
           \/ ImportCommitFails(r)
    PROVE  Statement(r) \/ Beginning(r) \/ Outside(r) \/ Ending(r)
<1>1. reply \in Replies /\ served \in 0..MaxRequests /\ failures \in 0..MaxFailures
  BY DEF ImportTypes, StoreTypeOK, Replies
<1>2. CASE \/ ImportRefuseLicense(r) \/ ImportRefuseObligation(r)
           \/ ImportLicenseWithoutText(r) \/ ImportObligationWithoutTopic(r)
           \/ ImportReject(r) \/ ImportAbortDeadlock(r)
           \/ ImportStatementFails(r) \/ ImportCommitFails(r)
           \/ ImportCommit(r)
  <2>1. Importing(r)
    BY <1>2
    DEF ImportRefuseLicense, ImportRefuseObligation, ImportLicenseWithoutText,
        ImportObligationWithoutTopic, ImportReject, ImportAbortDeadlock, ImportStatementFails,
        ImportCommitFails, ImportCommit, ImportsLicense, ImportsObligation
  <2>2. QED
    BY <1>2, <2>1, ImportEnds
<1>3. CASE \/ ImportCreateLicense(r) \/ ImportCreateObligation(r)
           \/ ImportFindLicense(r) \/ ImportFindObligation(r) \/ ImportPreloadObligations(r)
           \/ ImportSaveAssociations(r)
           \/ ImportWriteLicense(r) \/ ImportWriteObligation(r) \/ ImportAssociations(r)
           \/ ImportReloadLicense(r) \/ ImportReloadObligation(r)
  <2>1. input[r] # None
    <3>1. ImportAssociations(r) => pc[r] # "idle"
      BY DEF ImportAssociations, FindRelated, UpsertRelated, InsertLinks, ImportDeleteLinks, Goto
    <3>2. QED
      BY <1>3, <3>1
      DEF ImportRequest, ImportControl, ImportCreateLicense, ImportCreateObligation,
          ImportFindLicense, ImportFindObligation, ImportPreloadObligations,
          ImportSaveAssociations, ImportWriteLicense, ImportWriteObligation, ImportReloadLicense,
          ImportReloadObligation, ImportsLicense, ImportsObligation
  <2>2. UNCHANGED importVars
    BY <1>3
    DEF ImportCreateLicense, ImportCreateObligation, CreateRecord, ImportFindLicense,
        ImportFindObligation, ImportPreloadObligations, ImportSaveAssociations,
        ImportWriteLicense, ImportWriteObligation, LockRecord, WriteRecord, ImportAssociations,
        ImportReloadLicense, ImportReloadObligation, ReloadRecord, importVars
  <2>3. \/ Creating(r) \/ Finding(r) \/ Preloading(r) \/ Merging(r) \/ Saving(r)
        \/ Writing(r) \/ Replacing(r) \/ Reloading(r)
    BY <1>3
    DEF Saving, ImportSaveAssociations, Creating, Finding, Preloading, Merging,
        Writing, Replacing, Reloading,
        ImportWriteLicense, ImportWriteObligation, ImportAssociations, ReplaceAssociations,
        ImportReloadLicense, ImportReloadObligation
  <2>4. QED
    BY <2>1, <2>2, <2>3 DEF Statement
<1>4. CASE RefuseInvalid(r)
  <2>1. Importing(r) /\ done[r] < Len(file[r]) /\ pc[r] = "idle" /\ UNCHANGED vars
    BY <1>4 DEF RefuseInvalid, Between
  <2>2. Record(r).id \in Ids \cup {None}
    BY <2>1, RecordTyped, FileTyped
  <2>3. Accounting(r)
    BY <1>4, <2>1, <2>2, AnswerAccounted DEF RefuseInvalid, Statuses
  <2>4. QED
    BY <1>1, <2>1, <2>3 DEF Outside, vars, tables
<1>5. CASE TakeRecord(r)
  <2>1. Importing(r) /\ done[r] < Len(file[r]) /\ pc[r] = "idle"
    BY <1>5 DEF TakeRecord, Between
  <2>2. PICK x \in Kind(r), l \in Fields \cup {"insert", "find"} :
           /\ pc' = [pc EXCEPT ![r] = l]
           /\ input' = [input EXCEPT ![r] =
                           [op |-> "import", id |-> x, patch |-> Record(r).patch]]
           /\ l \in Fields => l \in DOMAIN Record(r).patch
    BY <1>5, <2>1, RecordTyped, BeginCreationGoes DEF TakeRecord, Goto, Fields
  <2>3. [op |-> "import", id |-> x, patch |-> Record(r).patch] \in ImportInputs
    BY <2>1, RecordTyped
  <2>4. UNCHANGED <<tables, bounds, seen, linked, image, found, ins, del, entered, note,
                    reply, importVars>>
    BY <1>5 DEF TakeRecord
  <2>5. QED
    BY <1>1, <2>1, <2>2, <2>3, <2>4 DEF Beginning, bounds
<1>6. CASE SendSummary(r)
  <2>1. reply' \in Replies /\ Accounting(r)
    BY <1>1, <1>6 DEF SendSummary, Replies, Accounting
  <2>2. QED
    BY <1>1, <1>6, <2>1 DEF SendSummary, Outside, bounds
<1>7. CASE ImportBeginFails(r)
  <2>1. /\ Importing(r) /\ done[r] < Len(file[r]) /\ pc[r] = "idle"
        /\ served' = served /\ failures' \in 0..MaxFailures
    BY <1>1, <1>7, StoreAssumption DEF ImportBeginFails, Between, DatabaseFails
  <2>2. reply' \in Replies /\ Accounting(r)
    BY <1>1, <1>7, <2>1 DEF ImportBeginFails, Replies, Accounting
  <2>3. QED
    BY <1>1, <1>7, <2>1, <2>2 DEF ImportBeginFails, Outside
<1>8. QED
  BY <1>2, <1>3, <1>4, <1>5, <1>6, <1>7 DEF ImportStep

LEMMA EndpointStepSorted ==
    ASSUME ImportTypes, NEW r \in Requests, ImportRequest(r),
           EndpointReceives(r) \/ EndpointStep(r)
    PROVE  Statement(r) \/ Beginning(r) \/ Ending(r)
<1>1. /\ reply \in Replies /\ served \in 0..MaxRequests /\ failures \in 0..MaxFailures
      /\ ~Importing(r) /\ UNCHANGED importVars
      /\ pc[r] # "insert"
  BY DEF ImportTypes, StoreTypeOK, Replies, EndpointReceives, EndpointStep, ImportRequest,
         ImportControl
<1>2. CASE EndpointReceives(r)
  <2>1. PICK op, x, p :
           /\ [op |-> op, id |-> x, patch |-> p] \in CatInputs
           /\ Receive(r, op, x, p, "find")
    BY <1>2
    DEF EndpointReceives, ReceiveUpdateLicense, ReceiveUpdateObligation,
        ReceiveDeleteObligation, LicenseInputs, ObligationInputs, CatInputs
  <2>2. served' \in 0..MaxRequests /\ reply' \in Replies
    BY <1>1, <2>1, StoreAssumption DEF Receive, Replies
  <2>3. QED
    BY <1>1, <2>1, <2>2 DEF Receive, Goto, Beginning, Fields
<1>3. CASE RejectLicense(r) \/ RejectObligation(r) \/ AbortDeadlock(r)
  <2>1. reply' \in Replies /\ Rollback(r) /\ UNCHANGED bounds
    BY <1>1, <1>3 DEF RejectLicense, RejectObligation, Reject, AbortDeadlock, Replies
  <2>2. QED
    BY <1>1, <2>1 DEF Rollback, Ending, Accounting, bounds
<1>4. CASE CommitLicense(r) \/ CommitObligation(r)
  <2>1. reply' \in Replies /\ Commit(r) /\ input[r] # None
    BY <1>1, <1>4 DEF CommitLicense, CommitObligation, Replies, ServesLicense, ServesObligation
  <2>2. QED
    BY <1>1, <2>1 DEF Commit, Ending, Accounting, bounds
<1>5. CASE DeactivateObligation(r)
  <2>1. reply' \in Replies /\ Finish(r) /\ UNCHANGED bounds
    BY <1>1, <1>5 DEF DeactivateObligation, Replies
  <2>2. QED
    BY <1>1, <1>5, <2>1 DEF Ending, Accounting, bounds
<1>6. CASE \/ FindLicense(r) \/ FindObligation(r)
           \/ PreloadObligations(r) \/ PreloadLicenses(r)
           \/ MergeLicenseRef(r) \/ MergeObligationRef(r)
           \/ SaveAssociations(r)
           \/ WriteLicense(r) \/ WriteObligation(r) \/ RefuseLicense(r) \/ RefuseObligation(r)
           \/ ReplaceObligations(r) \/ ReplaceLicenses(r)
           \/ ReloadLicense(r) \/ ReloadObligation(r)
  <2>1. input[r] # None
    BY <1>6
    DEF FindLicense, FindObligation, PreloadObligations, PreloadLicenses, MergeLicenseRef,
        MergeObligationRef, SaveAssociations, WriteLicense, WriteObligation, RefuseLicense,
        RefuseObligation, ReplaceObligations, ReplaceLicenses, ReloadLicense,
        ReloadObligation, ServesLicense,
        ServesObligation
  <2>2. QED
    BY <1>1, <1>6, <2>1
    DEF Statement, Finding, Preloading, Merging, Saving, Writing, Replacing, Reloading,
        SaveAssociations, ReplaceObligations, ReplaceLicenses
<1>7. ~InsertLicense(r) /\ ~InsertObligation(r) /\ ~RefuseInsertion(r)
  BY <1>1 DEF InsertLicense, InsertObligation, RefuseInsertion, Goto
<1>8. QED
  BY <1>2, <1>3, <1>4, <1>5, <1>6, <1>7
  DEF EndpointStep, CatalogueStep, LicenseStep, ObligationStep

----------------------------------------------------------------------------
(* What these steps leave behind. *)

\* The import of r, and the imports of the others.
LEMMA Accounted ==
    ASSUME ImportTypes, NEW r \in Requests, ImportProgress(r), Accounting(r)
    PROVE  /\ file' \in [Requests -> LicenseFiles \cup ObligationFiles \cup {<<>>}]
           /\ done' \in [Requests -> Nat]
           /\ summary' \in [Requests -> Seq(Answers)]
           /\ done'[r] <= Len(file'[r])
           /\ Len(summary'[r]) <= done'[r]
           /\ \A q \in Requests \ {r} : /\ file'[q] = file[q] /\ done'[q] = done[q]
                                        /\ summary'[q] = summary[q]
<1> USE DEF ImportTypes
<1>1. CASE UNCHANGED importVars
  BY <1>1 DEF importVars, ImportProgress
<1>2. CASE /\ Importing(r) /\ done[r] < Len(file[r])
           /\ Settle(r)
           /\ \/ UNCHANGED summary
              \/ \E answer \in Answers : summary' = [summary EXCEPT ![r] = Append(@, answer)]
  <2>1. /\ UNCHANGED file /\ done' = [done EXCEPT ![r] = done[r] + 1]
        /\ done[r] \in Nat /\ Len(file[r]) \in Nat /\ Len(summary[r]) \in Nat
    BY <1>2, FileTyped DEF Settle
  <2>2. CASE UNCHANGED summary
    BY <1>2, <2>1, <2>2 DEF ImportProgress
  <2>3. CASE \E answer \in Answers : summary' = [summary EXCEPT ![r] = Append(@, answer)]
    <3>1. PICK answer \in Answers : summary' = [summary EXCEPT ![r] = Append(summary[r], answer)]
      BY <2>3
    <3>2. /\ Append(summary[r], answer) \in Seq(Answers)
          /\ Len(Append(summary[r], answer)) = Len(summary[r]) + 1
      OBVIOUS
    <3>3. QED
      BY <1>2, <2>1, <3>1, <3>2 DEF ImportProgress
  <2>4. QED
    BY <1>2, <2>2, <2>3
<1>3. CASE /\ file' = [file EXCEPT ![r] = <<>>]
           /\ done' = [done EXCEPT ![r] = 0]
           /\ summary' = [summary EXCEPT ![r] = <<>>]
  BY <1>3
<1>4. QED
  BY <1>1, <1>2, <1>3 DEF Accounting

LEMMA BeginningInv ==
    ASSUME ImportTypes, NEW r \in Requests, ImportRequest(r), Beginning(r)
    PROVE  /\ ImportTypes' /\ ImportRequest(r)'
           /\ \A q \in Requests \ {r} : Undisturbed(q)
           /\ UNCHANGED <<rows, links, image>>
<1> USE DEF ImportTypes, StoreTypeOK
<1>1. PICK body \in CatInputs \cup ImportInputs, l \in Fields \cup {"insert", "find"} :
          /\ pc' = [pc EXCEPT ![r] = l]
          /\ input' = [input EXCEPT ![r] = body]
          /\ l # "find" => Importing(r)
          /\ l \in Fields => l \in DOMAIN body.patch
          /\ Importing(r) => /\ done[r] < Len(file[r])
                             /\ body.id \in Kind(r)
                             /\ body.patch = Record(r).patch
          /\ ~Importing(r) => body \in CatInputs
  BY DEF Beginning
<1>2. /\ pc[r] = "idle" /\ UNCHANGED <<rows, links, audits, seen, linked, image, found, ins,
                                      del, entered, note, failures, vocabulary, file, done,
                                      summary>>
      /\ reply' \in [Requests -> {"none", "ok", "rejected"}]
      /\ served' \in 0..MaxRequests
  BY DEF Beginning, tables, importVars, Replies
<1>3. ImportTypes'
  <2>1. pc' \in [Requests -> Labels]
    BY <1>1 DEF Labels
  <2>2. input' \in [Requests -> CatInputs \cup ImportInputs \cup {None}]
    BY <1>1
  <2>3. QED
    BY <1>2, <2>1, <2>2
<1>4. /\ body # None
      /\ pc'[r] = l /\ input'[r] = body
  BY <1>1, EndpointBodyTyped, ImportBodyTyped
<1>5. found[r] = {} /\ ins[r] = {} /\ image[r] = None
  BY <1>2 DEF ImportRequest, ImportControl, ImportLocking, CatLinking
<1>6. ImportProgress(r)'
  BY <1>1, <1>2, <1>4
  DEF ImportRequest, ImportProgress, Importing, Target, Patch, Kind, OfLicenses, Record
<1>7. ImportControl(r)' /\ ImportLocking(r)' /\ ImportWritten(r)' /\ ImportPermitted(r)'
  BY <1>1, <1>2, <1>4, <1>5
  DEF ImportControl, ImportLocking, ImportWritten, ImportPermitted, Importing, Patch, Fields
<1>8. CatLinking(r)'
  BY <1>2, <1>4, <1>5 DEF CatLinking, Fields
<1>9. QED
  BY <1>1, <1>2, <1>3, <1>6, <1>7, <1>8 DEF ImportRequest, Undisturbed

LEMMA OutsideInv ==
    ASSUME ImportTypes, NEW r \in Requests, ImportRequest(r), Outside(r)
    PROVE  /\ ImportTypes' /\ ImportRequest(r)'
           /\ \A q \in Requests \ {r} : Undisturbed(q)
           /\ UNCHANGED <<rows, links, input, image>>
<1> USE DEF ImportTypes, StoreTypeOK
<1>1. /\ pc[r] = "idle"
      /\ UNCHANGED <<rows, links, audits, vocabulary, pc, input, seen, linked, image, found, ins,
                     del, entered, note>>
      /\ reply' \in [Requests -> {"none", "ok", "rejected"}]
      /\ served' \in 0..MaxRequests /\ failures' \in 0..MaxFailures
  BY DEF Outside, tables, Replies
<1>2. /\ file' \in [Requests -> LicenseFiles \cup ObligationFiles \cup {<<>>}]
      /\ done' \in [Requests -> Nat]
      /\ summary' \in [Requests -> Seq(Answers)]
      /\ done'[r] <= Len(file'[r])
      /\ Len(summary'[r]) <= done'[r]
      /\ \A q \in Requests \ {r} : /\ file'[q] = file[q] /\ done'[q] = done[q]
                                   /\ summary'[q] = summary[q]
  <2>1. CASE Accounting(r)
    BY <2>1, Accounted DEF ImportRequest
  <2>2. CASE /\ ~Importing(r)
             /\ \E f \in LicenseFiles \cup ObligationFiles : file' = [file EXCEPT ![r] = f]
             /\ UNCHANGED <<done, summary>>
    <3>1. PICK f \in LicenseFiles \cup ObligationFiles : file' = [file EXCEPT ![r] = f]
      BY <2>2
    <3>2. Len(f) \in Nat
      BY ImportAssumption
    <3>3. done[r] = 0 /\ Len(summary[r]) <= done[r]
      BY <2>2, FileTyped DEF ImportRequest, ImportProgress
    <3>4. QED
      BY <2>2, <3>1, <3>2, <3>3
  <2>3. QED
    BY <2>1, <2>2 DEF Outside
<1>3. ImportTypes'
  BY <1>1, <1>2
<1>4. input[r] = None /\ image[r] = None
  BY <1>1 DEF ImportRequest, ImportControl, ImportLocking
<1>5. ImportProgress(r)'
  BY <1>1, <1>2, <1>4 DEF ImportProgress
<1>6. ImportControl(r)' /\ ImportLocking(r)' /\ ImportWritten(r)' /\ ImportPermitted(r)'
  BY <1>1, <1>4 DEF ImportControl, ImportLocking, ImportWritten, ImportPermitted, Fields
<1>7. CatLinking(r)'
  BY <1>1 DEF ImportRequest, CatLinking, Wanted, Target
<1>8. QED
  BY <1>1, <1>2, <1>3, <1>5, <1>6, <1>7 DEF ImportRequest, Undisturbed

\* The row that the end of a request writes.
LEMMA EndingWrites ==
    ASSUME ImportTypes, NEW r \in Requests, ImportRequest(r), Ending(r)
    PROVE  /\ links' \subseteq Pairs
           /\ audits' \in Seq({audits'[i] : i \in DOMAIN audits'})
           /\ \A i \in DOMAIN audits' : audits'[i].id \in Ids /\ IsChangeLog(audits'[i].changes)
           /\ vocabulary' \subseteq Fields \X Words
           /\ \/ UNCHANGED rows
              \/ /\ input[r] # None
                 /\ (pc[r] = "deactivate" /\ Granted(r)) \/ image[r] # None
                 /\ \E row \in Row : rows' = [rows EXCEPT ![Target(r)] = row]
<1> USE DEF ImportTypes, StoreTypeOK
<1>1. CASE UNCHANGED tables
  BY <1>1 DEF tables
<1>2. CASE input[r] # None /\ Commit(r)
  <2>1. image[r] # None /\ image[r] \in Row /\ Target(r) \in Ids
    BY <1>2, WorkTyped DEF Commit, ImportRequest, ImportLocking
  <2>2. audits' \in {audits, Append(audits, [id |-> Target(r), changes |-> note[r]])}
    BY <1>2 DEF Commit
  <2>3. /\ audits' \in Seq({audits'[i] : i \in DOMAIN audits'})
        /\ \A i \in DOMAIN audits' : audits'[i].id \in Ids /\ IsChangeLog(audits'[i].changes)
    BY <2>1, <2>2, AuditsTyped
  <2>4. links' \subseteq Pairs /\ vocabulary' \subseteq Fields \X Words
    BY <1>2 DEF Commit, Visible
  <2>5. QED
    BY <1>2, <2>1, <2>3, <2>4 DEF Commit
<1>3. CASE DeactivateObligation(r)
  <2>1. /\ input[r] # None /\ pc[r] = "deactivate" /\ Granted(r)
        /\ rows' = [rows EXCEPT ![Target(r)] = [seen[r] EXCEPT !["active"] = FALSE]]
        /\ UNCHANGED <<links, audits, vocabulary>>
    BY <1>3 DEF DeactivateObligation, ServesObligation
  <2>2. [seen[r] EXCEPT !["active"] = FALSE] \in Row
    BY <2>1, InactiveIsRow DEF ImportRequest, ImportControl
  <2>3. QED
    BY <2>1, <2>2
<1>4. QED
  BY <1>1, <1>2, <1>3 DEF Ending

LEMMA EndingInv ==
    ASSUME ImportTypes, NEW r \in Requests, ImportRequest(r), Ending(r)
    PROVE  /\ ImportTypes' /\ ImportRequest(r)'
           /\ \A q \in Requests \ {r} : Undisturbed(q)
           /\ image' = [image EXCEPT ![r] = None]
<1> USE DEF ImportTypes, StoreTypeOK
<1>1. Finish(r) /\ served' = served /\ failures' \in 0..MaxFailures
  BY DEF Ending
<1>2. /\ reply' \in [Requests -> {"none", "ok", "rejected"}]
  BY DEF Ending, Replies
<1>3. /\ file' \in [Requests -> LicenseFiles \cup ObligationFiles \cup {<<>>}]
      /\ done' \in [Requests -> Nat]
      /\ summary' \in [Requests -> Seq(Answers)]
      /\ done'[r] <= Len(file'[r])
      /\ Len(summary'[r]) <= done'[r]
      /\ \A q \in Requests \ {r} : /\ file'[q] = file[q] /\ done'[q] = done[q]
                                   /\ summary'[q] = summary[q]
  BY Accounted DEF Ending, ImportRequest
<1>4. /\ rows' \in [Ids -> Row \cup {None}]
      /\ links' \subseteq Pairs
      /\ audits' \in Seq({audits'[i] : i \in DOMAIN audits'})
      /\ \A i \in DOMAIN audits' : audits'[i].id \in Ids /\ IsChangeLog(audits'[i].changes)
      /\ vocabulary' \subseteq Fields \X Words
  BY EndingWrites
<1>5. ImportTypes'
  BY <1>1, <1>2, <1>3, <1>4, NoChangesTyped DEF Finish, Labels
<1>6. /\ pc'[r] = "idle" /\ input'[r] = None /\ image'[r] = None
      /\ found'[r] = {} /\ ins'[r] = {}
      /\ image' = [image EXCEPT ![r] = None]
  BY <1>1 DEF Finish
<1>7. ImportProgress(r)'
  BY <1>3, <1>6 DEF ImportProgress
<1>8. ImportControl(r)' /\ ImportLocking(r)' /\ ImportWritten(r)' /\ ImportPermitted(r)'
  BY <1>6 DEF ImportControl, ImportLocking, ImportWritten, ImportPermitted, Fields
<1>9. CatLinking(r)'
  BY <1>6 DEF CatLinking
<1>10. \A q \in Requests \ {r} : Undisturbed(q)
  BY <1>1, <1>3 DEF Finish, Undisturbed
<1>11. QED
  BY <1>5, <1>6, <1>7, <1>8, <1>9, <1>10 DEF ImportRequest

\* A row that somebody writes stays a row, and is not one that another request
\* has written.
LEMMA EndingBeside ==
    ASSUME ImportInv, NEW r \in Requests, Ending(r), NEW q \in Requests \ {r}
    PROVE  ImportRequest(q)'
<1>1. /\ ImportTypes /\ ImportRequest(r) /\ ImportRequest(q)
      /\ Undisturbed(q)
  BY EndingInv DEF ImportInv
<1>2. CASE UNCHANGED rows
  BY <1>1, <1>2, UndisturbedInv
<1>3. CASE /\ input[r] # None
           /\ (pc[r] = "deactivate" /\ Granted(r)) \/ image[r] # None
           /\ \E row \in Row : rows' = [rows EXCEPT ![Target(r)] = row]
  <2>1. PICK row \in Row : rows' = [rows EXCEPT ![Target(r)] = row]
    BY <1>3
  <2>2. Target(r) \in Ids /\ rows \in [Ids -> Row \cup {None}]
    BY <1>1, <1>3, WorkTyped DEF ImportTypes, StoreTypeOK
  <2>3. image[q] # None => Target(q) # Target(r)
    BY <1>3 DEF ImportInv, ImportExclusion, Granted, Blocks, Holds, Target
  <2>4. \A y \in Ids : rows[y] # None => rows'[y] # None
    BY <2>1, <2>2, RowNotBlank
  <2>5. input[q] # None => /\ Target(q) \in Ids
                           /\ Target(q) # Target(r) => rows'[Target(q)] = rows[Target(q)]
    BY <1>1, <2>1, <2>2, WorkTyped
  <2>6. input[q] = None => image[q] = None
    BY <1>1 DEF ImportRequest, ImportControl, ImportLocking
  <2> USE DEF Undisturbed, Target, Patch, Importing
  <2>7. ImportProgress(q)'
    BY <1>1 DEF ImportRequest, ImportProgress, Kind, OfLicenses, Record
  <2>8. ImportControl(q)' /\ ImportLocking(q)'
    BY <1>1, <2>4, <2>5 DEF ImportRequest, ImportControl, ImportLocking
  <2>9. ImportWritten(q)'
    BY <1>1, <2>3, <2>5, <2>6 DEF ImportRequest, ImportWritten, Created
  <2>10. ImportPermitted(q)'
    BY <1>1 DEF ImportRequest, ImportPermitted, Created
  <2>11. CatLinking(q)'
    <3>1. \A y \in found[q] : rows'[y] # None
      BY <1>1, <2>4 DEF ImportRequest, CatLinking, ImportTypes, StoreTypeOK
    <3>2. QED
      BY <1>1, <3>1 DEF ImportRequest, CatLinking, Wanted
  <2>12. QED
    BY <2>7, <2>8, <2>9, <2>10, <2>11 DEF ImportRequest
<1>4. QED
  BY <1>1, <1>2, <1>3, EndingWrites

LEMMA EndingLinks ==
    ASSUME ImportInv, NEW r \in Requests, Ending(r)
    PROVE  NoDanglingLinks'
<1>1. /\ ImportTypes /\ ImportRequest(r) /\ NoDanglingLinks
      /\ rows \in [Ids -> Row \cup {None}] /\ links \subseteq Pairs
  BY DEF ImportInv, ImportTypes, StoreTypeOK
<1>2. CASE UNCHANGED tables
  BY <1>1, <1>2 DEF NoDanglingLinks, tables
<1>3. CASE ~UNCHANGED tables
  <2>1. input[r] # None
    BY <1>3 DEF Ending, DeactivateObligation, ServesObligation
  <2>2. Target(r) \in Ids
    BY <1>1, <2>1, WorkTyped
  <2>3. \A y \in Ids : rows[y] # None => rows'[y] # None
    BY <1>1, <2>2, EndingWrites, RowNotBlank
  <2>4. \A e \in links : e[1] \in Ids /\ e[2] \in Ids
    BY <1>1 DEF Pairs, Ids
  <2>5. \A e \in links : rows'[e[1]] # None /\ rows'[e[2]] # None
    BY <1>1, <2>3, <2>4 DEF NoDanglingLinks
  <2>6. CASE DeactivateObligation(r)
    BY <2>5, <2>6 DEF DeactivateObligation, NoDanglingLinks
  <2>7. CASE Commit(r)
    <3>1. links' \subseteq links \cup ins[r] /\ ins[r] \subseteq Wanted(r)
      BY <1>1, <2>1, <2>7 DEF Commit, Visible, ImportRequest, CatLinking
    <3>2. \A y \in found[r] : rows'[y] # None
      BY <1>1, <2>3 DEF ImportRequest, CatLinking, ImportTypes, StoreTypeOK
    <3>3. rows'[Target(r)] # None
      BY <1>1, <2>2, <2>7 DEF Commit, ImportRequest, ImportLocking
    <3>4. ASSUME NEW e \in Wanted(r)
          PROVE  rows'[e[1]] # None /\ rows'[e[2]] # None
      <4>1. PICK y \in found[r] : e = Pair(Target(r), y)
        BY DEF Wanted, LinksTo
      <4>2. e = <<Target(r), y>> \/ e = <<y, Target(r)>>
        BY <4>1 DEF Pair
      <4>3. QED
        BY <3>2, <3>3, <4>2
    <3>5. QED
      BY <2>5, <3>1, <3>4 DEF NoDanglingLinks
  <2>8. QED
    BY <1>3, <2>6, <2>7 DEF Ending
<1>4. QED
  BY <1>2, <1>3

----------------------------------------------------------------------------
(* The invariant is inductive. *)

\* Nobody else has written the row that r has written.
Alone(r) == image[r] # None => \A q \in Requests \ {r} : image[q] # None => Target(q) # Target(r)

LEMMA ImportExclusionKept ==
    ASSUME ImportInv, NEW r \in Requests, \A q \in Requests \ {r} : Undisturbed(q), Alone(r)'
    PROVE  ImportExclusion'
<1>1. ImportExclusion
  BY DEF ImportInv
<1>2. \A q \in Requests \ {r} : Target(q)' = Target(q) /\ image'[q] = image[q]
  BY DEF Undisturbed, Target
<1>3. ASSUME NEW p \in Requests, NEW q \in Requests, p # q,
             image'[p] # None, image'[q] # None
      PROVE  Target(p)' # Target(q)'
  <2>1. CASE p # r /\ q # r
    BY <1>1, <1>2, <1>3, <2>1 DEF ImportExclusion
  <2>2. CASE p = r \/ q = r
    BY <1>3, <2>2 DEF Alone
  <2>3. QED
    BY <2>1, <2>2
<1>4. QED
  BY <1>3 DEF ImportExclusion, Target

LEMMA StatementExclusion ==
    ASSUME ImportInv, NEW r \in Requests, Statement(r)
    PROVE  ImportExclusion'
<1>1. /\ ImportTypes /\ Moves(r) /\ ImportRequest(r)
      /\ Target(r)' = Target(r)
      /\ \A q \in Requests \ {r} : Undisturbed(q)
  BY StatementInv, MovesDisturbNobody DEF ImportInv, Moves, Target
<1>2. CASE image[r] # None
  BY <1>1, <1>2, ImportExclusionKept DEF ImportInv, ImportExclusion, Alone, Undisturbed, Target
<1>3. CASE Creating(r)
  BY <1>1, <1>3, ImportExclusionKept
  DEF Creating, ImportCreateLicense, ImportCreateObligation, CreateRecord, Goto, Granted,
      Blocks, Holds, Target, Alone, Undisturbed
<1>4. CASE Merging(r)
  BY <1>1, <1>4, ImportExclusionKept
  DEF Merging, MergeLicenseRef, MergeObligationRef, LockRecord, Goto, Granted, Blocks, Holds,
      Target, Alone, Undisturbed
<1>5. CASE Writing(r)
  <2>1. image[r] # None
    BY <1>1, <1>5
    DEF Writing, WriteLicense, WriteObligation, RefuseLicense, RefuseObligation, WriteRecord,
        Goto, ImportRequest, ImportLocking
  <2>2. QED
    BY <1>2, <2>1
<1>6. CASE Finding(r) \/ Preloading(r) \/ Saving(r) \/ Reloading(r)
  <2>1. UNCHANGED image
    BY <1>6
    DEF Saving, SaveWord, Finding, FindLicense, FindObligation, ImportFindLicense, ImportFindObligation,
        Preloading, PreloadObligations, PreloadLicenses, ImportPreloadObligations,
        Reloading, ReloadLicense, ReloadObligation, ReloadRecord
  <2>2. QED
    BY <1>1, <2>1, <1>2, ImportExclusionKept DEF Alone
<1>7. CASE Replacing(r)
  <2>1. UNCHANGED image
    BY <1>7
    DEF Replacing, ReplaceAssociations, FindRelated, UpsertRelated, InsertLinks, DeleteLinks,
        ImportDeleteLinks
  <2>2. QED
    BY <1>1, <2>1, <1>2, ImportExclusionKept DEF Alone
<1>8. QED
  BY <1>3, <1>4, <1>5, <1>6, <1>7 DEF Statement

LEMMA ImportInitInv ==
    ASSUME ImportInit
    PROVE  ImportInv
<1>1. ImportTypes
  <2>1. audits \in Seq({audits[i] : i \in DOMAIN audits}) /\ DOMAIN audits = {}
    BY DEF ImportInit, Init
  <2>2. served \in 0..MaxRequests /\ failures \in 0..MaxFailures
    BY StoreAssumption DEF ImportInit, Init
  <2>3. StoreTypeOK(CatInputs \cup ImportInputs)
    BY <2>1, <2>2, StoreAssumption, NoChangesTyped DEF ImportInit, Init, StoreTypeOK, Labels
  <2>4. <<>> \in Seq(Answers)
    OBVIOUS
  <2>5. QED
    BY <2>3, <2>4 DEF ImportInit, ImportTypes
<1>2. \A r \in Requests : ImportRequest(r)
  BY DEF ImportInit, Init, ImportRequest, ImportProgress, ImportControl, ImportLocking,
         ImportWritten, ImportPermitted, CatLinking, Fields
<1>3. NoDanglingLinks
  BY CatalogueAssumption DEF ImportInit, Init, NoDanglingLinks
<1>4. ImportExclusion
  BY DEF ImportInit, Init, ImportExclusion
<1>5. QED
  BY <1>1, <1>2, <1>3, <1>4 DEF ImportInv

LEMMA ImportNextSorted ==
    ASSUME ImportInv, ImportNext
    PROVE  \E r \in Requests : Statement(r) \/ Beginning(r) \/ Outside(r) \/ Ending(r)
<1>1. PICK r \in Requests :
          \/ ReceiveImportLicenses(r) \/ ReceiveImportObligations(r) \/ EndpointReceives(r)
          \/ ImportStep(r) \/ EndpointStep(r)
          \/ ImportBeginFails(r) \/ ImportStatementFails(r) \/ ImportCommitFails(r)
  BY DEF ImportNext
<1>2. ImportTypes /\ ImportRequest(r)
  BY DEF ImportInv
<1>3. CASE ReceiveImportLicenses(r) \/ ReceiveImportObligations(r)
  <2>1. /\ reply \in Replies /\ served \in 0..MaxRequests /\ failures \in 0..MaxFailures
        /\ MaxRequests \in Nat
    BY <1>2, StoreAssumption DEF ImportTypes, StoreTypeOK, Replies
  <2>2. Outside(r)
    BY <1>3, <2>1
    DEF ReceiveImportLicenses, ReceiveImportObligations, ReceiveFile, Outside, Replies
  <2>3. QED
    BY <2>2
<1>4. QED
  BY <1>1, <1>2, <1>3, ImportStepSorted, EndpointStepSorted

LEMMA ImportNextInv ==
    ASSUME ImportInv, ImportNext
    PROVE  ImportInv'
<1>1. PICK r \in Requests : Statement(r) \/ Beginning(r) \/ Outside(r) \/ Ending(r)
  BY ImportNextSorted
<1>2. /\ ImportTypes /\ NoDanglingLinks /\ ImportExclusion
      /\ \A q \in Requests : ImportRequest(q)
  BY DEF ImportInv
<1>3. ASSUME ImportTypes', ImportRequest(r)', ImportExclusion', UNCHANGED <<rows, links>>,
             \A q \in Requests \ {r} : Undisturbed(q)
      PROVE  ImportInv'
  <2>1. NoDanglingLinks'
    BY <1>2, <1>3 DEF NoDanglingLinks
  <2>2. \A q \in Requests \ {r} : ImportRequest(q)'
    BY <1>2, <1>3, UndisturbedInv
  <2>3. QED
    BY <1>3, <2>1, <2>2 DEF ImportInv
<1>4. CASE Statement(r)
  <2>1. Moves(r) /\ ImportRequest(r)'
    BY <1>2, <1>4, StatementInv
  <2>2. /\ ImportTypes' /\ UNCHANGED <<rows, links>>
        /\ \A q \in Requests \ {r} : Undisturbed(q)
    BY <1>2, <2>1, MovesTyped, MovesDisturbNobody DEF Moves, tables
  <2>3. QED
    BY <1>3, <1>4, <2>1, <2>2, StatementExclusion
<1>5. CASE Beginning(r)
  <2>1. /\ ImportTypes' /\ ImportRequest(r)'
        /\ \A q \in Requests \ {r} : Undisturbed(q)
        /\ UNCHANGED <<rows, links, image>>
    BY <1>2, <1>5, BeginningInv
  <2>2. image[r] = None
    BY <1>2, <1>5 DEF Beginning, ImportRequest, ImportLocking
  <2>3. ImportExclusion'
    BY <2>1, <2>2, ImportExclusionKept DEF Alone
  <2>4. QED
    BY <1>3, <2>1, <2>3
<1>6. CASE Outside(r)
  <2>1. /\ ImportTypes' /\ ImportRequest(r)'
        /\ \A q \in Requests \ {r} : Undisturbed(q)
        /\ UNCHANGED <<rows, links, input, image>>
    BY <1>2, <1>6, OutsideInv
  <2>2. ImportExclusion'
    BY <1>2, <2>1 DEF ImportExclusion, Target
  <2>3. QED
    BY <1>3, <2>1, <2>2
<1>7. CASE Ending(r)
  <2>1. /\ ImportTypes' /\ ImportRequest(r)'
        /\ \A q \in Requests \ {r} : Undisturbed(q)
        /\ image' = [image EXCEPT ![r] = None]
    BY <1>2, <1>7, EndingInv
  <2>2. image'[r] = None
    BY <1>2, <2>1 DEF ImportTypes, StoreTypeOK
  <2>3. ImportExclusion'
    BY <2>1, <2>2, ImportExclusionKept DEF Alone
  <2>4. NoDanglingLinks'
    BY <1>7, EndingLinks
  <2>5. \A q \in Requests \ {r} : ImportRequest(q)'
    BY <1>7, EndingBeside
  <2>6. QED
    BY <2>1, <2>3, <2>4, <2>5 DEF ImportInv
<1>8. QED
  BY <1>1, <1>4, <1>5, <1>6, <1>7

LEMMA ImportStutterInv ==
    ASSUME ImportInv, UNCHANGED allVars
    PROVE  ImportInv'
<1>1. UNCHANGED vars /\ UNCHANGED importVars
  BY DEF allVars
<1>2. ImportTypes' /\ NoDanglingLinks' /\ ImportExclusion'
  BY <1>1 DEF vars, importVars, ImportInv, ImportTypes, StoreTypeOK, NoDanglingLinks,
              ImportExclusion, Target
<1>3. \A r \in Requests : Undisturbed(r) /\ UNCHANGED rows
  BY <1>1 DEF vars, importVars, Undisturbed
<1>4. \A r \in Requests : ImportRequest(r)'
  BY <1>3, UndisturbedInv DEF ImportInv
<1>5. QED
  BY <1>2, <1>4 DEF ImportInv

\* What each request knows and holds is as its statements assume, whatever the
\* imports and the endpoints do meanwhile.
THEOREM ImportInvariantHolds == ImportSpec => []ImportInv
<1>1. ImportInit => ImportInv
  BY ImportInitInv
<1>2. ImportInv /\ [ImportNext]_allVars => ImportInv'
  BY ImportNextInv, ImportStutterInv
<1>3. QED
  BY <1>1, <1>2, PTL DEF ImportSpec

----------------------------------------------------------------------------
(* What follows. *)

\* Files, summaries and requests keep their types, and a summary never has more
\* answers than records that are settled.
THEOREM ImportTypeCorrect == ImportSpec => []ImportTypeOK
<1>1. ImportInv => ImportTypeOK
  <2> SUFFICES ASSUME ImportInv
               PROVE  ImportTypeOK
    OBVIOUS
  <2>1. ImportTypes /\ \A r \in Requests : ImportRequest(r)
    BY DEF ImportInv
  <2>2. StoreTypeOK(LicenseInputs \cup ObligationInputs \cup ImportInputs)
    BY <2>1 DEF ImportTypes, CatInputs
  <2>3. ASSUME NEW r \in Requests
        PROVE  /\ done[r] \in 0..Len(file[r])
               /\ input[r] # None /\ Importing(r) =>
                      /\ Target(r) \in Kind(r)
                      /\ Patch(r) = Record(r).patch
               /\ Len(summary[r]) <= done[r]
    BY <2>1, FileTyped DEF ImportTypes, ImportRequest, ImportProgress
  <2>4. QED
    BY <2>1, <2>2, <2>3 DEF ImportTypes, ImportTypeOK, Answers
<1>2. QED
  BY <1>1, ImportInvariantHolds, PTL

\* No pair of the join table is left dangling by an import that skips the ids it
\* does not find, nor by one whose records fail, deadlock or race another's.
THEOREM ImportKeepsJoinTable == ImportSpec => []NoDanglingLinks
<1>1. ImportInv => NoDanglingLinks
  BY DEF ImportInv
<1>2. QED
  BY <1>1, ImportInvariantHolds, PTL

\* The steps that write to a summary.
LEMMA SummaryWritten ==
    ASSUME NEW r \in Requests,
           \/ ReceiveImportLicenses(r) \/ ReceiveImportObligations(r) \/ EndpointReceives(r)
           \/ ImportStep(r) \/ EndpointStep(r)
           \/ ImportBeginFails(r) \/ ImportStatementFails(r) \/ ImportCommitFails(r)
    PROVE  \/ UNCHANGED summary
           \/ summary' = [summary EXCEPT ![r] = <<>>]
           \/ UNCHANGED tables /\ \E x : Answer(r, x, "failed")
           \/ Importing(r) /\ Commit(r) /\ Answer(r, Target(r), ImportStatus(r))
           \/ failures' = failures + 1 /\ Answer(r, Target(r), ImportStatus(r))
<1>1. CASE \/ ReceiveImportLicenses(r) \/ ReceiveImportObligations(r)
           \/ EndpointReceives(r) \/ EndpointStep(r)
  BY <1>1 DEF ReceiveImportLicenses, ReceiveImportObligations, ReceiveFile, EndpointReceives,
              EndpointStep, importVars
<1>2. CASE ImportBeginFails(r) \/ ImportStatementFails(r) \/ ImportAbortDeadlock(r)
  BY <1>2 DEF ImportBeginFails, ImportStatementFails, ImportAbortDeadlock, LoseRecord, Rollback
<1>3. CASE ImportCommitFails(r) \/ ImportCommit(r)
  BY <1>3 DEF ImportCommitFails, ImportCommit, DatabaseFails
<1>4. CASE RefuseInvalid(r) \/ SendSummary(r) \/ TakeRecord(r)
  BY <1>4 DEF RefuseInvalid, SendSummary, TakeRecord, importVars, vars, tables
<1>5. CASE \/ ImportRefuseLicense(r) \/ ImportRefuseObligation(r)
           \/ ImportLicenseWithoutText(r) \/ ImportObligationWithoutTopic(r)
           \/ ImportReject(r)
  BY <1>5 DEF ImportRefuseLicense, ImportRefuseObligation, ImportLicenseWithoutText,
              ImportObligationWithoutTopic, ImportReject, RefuseRecord, Panic, Rollback
<1>6. CASE \/ ImportCreateLicense(r) \/ ImportCreateObligation(r)
           \/ ImportFindLicense(r) \/ ImportFindObligation(r) \/ ImportPreloadObligations(r)
           \/ ImportSaveAssociations(r)
           \/ ImportWriteLicense(r) \/ ImportWriteObligation(r) \/ ImportAssociations(r)
           \/ ImportReloadLicense(r) \/ ImportReloadObligation(r)
  BY <1>6 DEF ImportSaveAssociations, SaveWord, ImportCreateLicense,
    ImportCreateObligation, CreateRecord, ImportFindLicense,
              ImportFindObligation, ImportPreloadObligations, ImportWriteLicense,
              ImportWriteObligation, LockRecord, WriteRecord, ImportAssociations,
              ImportReloadLicense, ImportReloadObligation, ReloadRecord, importVars
<1>7. QED
  BY <1>1, <1>2, <1>3, <1>4, <1>5, <1>6 DEF ImportStep

\* A summary tells the truth of every record, whatever the other requests wrote
\* since the import read its row: a failed record left no trace, and a success
\* is exactly what the file asked for on top of the newest version.
THEOREM SummariesAreTrue == ImportSpec => SummaryTellsOutcome
<1> DEFINE Last(r) == summary'[r][Len(summary'[r])]
           Stored(r, x) ==
              IF Created(r) THEN rows[x] = None /\ rows'[x] = Apply(ColumnDefaults, Patch(r))
              ELSE rows'[x] = ApplyExcept(rows[x], Patch(r),
                                          IF OfLicenses(r) THEN {} ELSE {"name"})
           Told(r) == IF Last(r).status = "failed" THEN UNCHANGED tables
                      ELSE failures' = failures => Stored(r, Last(r).id)
<1>1. ASSUME ImportInv, ImportNext, NEW r \in Requests, Len(summary'[r]) > Len(summary[r])
      PROVE  Told(r)
  <2>1. PICK q \in Requests :
            \/ ReceiveImportLicenses(q) \/ ReceiveImportObligations(q) \/ EndpointReceives(q)
            \/ ImportStep(q) \/ EndpointStep(q)
            \/ ImportBeginFails(q) \/ ImportStatementFails(q) \/ ImportCommitFails(q)
    BY <1>1 DEF ImportNext
  <2>2. /\ ImportTypes /\ ImportRequest(r)
        /\ summary \in [Requests -> Seq(Answers)]
        /\ failures \in Nat
    BY <1>1 DEF ImportInv, ImportTypes, StoreTypeOK
  <2>3. ASSUME NEW x, NEW s, Answer(q, x, s)
        PROVE  q = r /\ Last(r) = [id |-> x, status |-> s]
    BY <1>1, <2>2, <2>3 DEF Answer
  <2>4. ImportStatus(q) # "failed"
    BY DEF ImportStatus
  <2>5. CASE UNCHANGED summary \/ summary' = [summary EXCEPT ![q] = <<>>]
    BY <1>1, <2>2, <2>5
  <2>6. CASE UNCHANGED tables /\ \E x : Answer(q, x, "failed")
    <3>1. PICK x : Answer(q, x, "failed")
      BY <2>6
    <3>2. q = r /\ Last(r) = [id |-> x, status |-> "failed"]
      BY <2>3, <3>1
    <3>3. QED
      BY <2>6, <3>2
  <2>7. CASE failures' = failures + 1 /\ Answer(q, Target(q), ImportStatus(q))
    <3>1. q = r /\ Last(r) = [id |-> Target(r), status |-> ImportStatus(r)]
      BY <2>3, <2>7
    <3>2. failures' # failures
      BY <2>2, <2>7
    <3>3. QED
      BY <2>4, <3>1, <3>2
  <2>8. CASE Importing(q) /\ Commit(q) /\ Answer(q, Target(q), ImportStatus(q))
    <3>1. q = r /\ Last(r) = [id |-> Target(r), status |-> ImportStatus(r)]
      BY <2>3, <2>8
    <3>2. /\ pc[r] = "commit" /\ input[r] # None /\ image[r] # None
          /\ rows' = [rows EXCEPT ![Target(r)] = image[r]]
          /\ Target(r) \in Kind(r)
      BY <2>2, <2>8, <3>1
      DEF Commit, ImportRequest, ImportControl, ImportLocking, ImportProgress
    <3>3. rows'[Target(r)] = image[r]
      BY <2>2, <3>2, WorkTyped DEF ImportTypes, StoreTypeOK
    <3>4. Kept(Target(r)) = IF OfLicenses(r) THEN {} ELSE {"name"}
      BY <3>2, IdsAssumption DEF Kind, Kept
    <3>5. Stored(r, Target(r))
      BY <2>2, <3>2, <3>3, <3>4 DEF ImportRequest, ImportWritten, Fields
    <3>6. QED
      BY <2>4, <3>1, <3>5
  <2>9. QED
    BY <2>1, <2>5, <2>6, <2>7, <2>8, SummaryWritten
<1>2. ImportInv /\ [ImportNext]_allVars =>
        [\A r \in Requests : Len(summary'[r]) > Len(summary[r]) => Told(r)]_allVars
  BY <1>1
<1>3. QED
  BY <1>2, ImportInvariantHolds, PTL DEF ImportSpec, SummaryTellsOutcome

\* Whatever was frozen, unfrozen or rewritten in between, a request replaces a
\* text only if it read the record as updatable, or to take back a change made
\* since it read the record; a DELETE writes back what it read.
THEOREM TextsNeedPermission == ImportSpec => TextNeedsReadPermission
<1> DEFINE Changed(x) == rows[x] # None /\ rows'[x]["text"] # rows[x]["text"]
           By(x) == \E r \in Requests :
                       /\ input[r] # None /\ Target(r) = x
                       /\ \/ pc[r] = "deactivate"
                          \/ /\ pc[r] = "commit"
                             /\ seen[r]["updatable"] \/ seen[r]["text"] = rows'[x]["text"]
<1>1. ASSUME ImportInv, ImportNext, NEW x \in Ids, Changed(x)
      PROVE  By(x)
  <2>1. PICK r \in Requests : Statement(r) \/ Beginning(r) \/ Outside(r) \/ Ending(r)
    BY <1>1, ImportNextSorted
  <2>2. /\ ImportTypes /\ ImportRequest(r)
        /\ rows \in [Ids -> Row \cup {None}]
    BY <1>1 DEF ImportInv, ImportTypes, StoreTypeOK
  <2>3. Statement(r) \/ Beginning(r) \/ Outside(r) => UNCHANGED rows
    BY <2>2, StatementInv DEF Moves, Beginning, Outside, tables
  <2>4. CASE input[r] # None /\ Commit(r)
    <3>1. /\ pc[r] = "commit" /\ image[r] # None
          /\ rows' = [rows EXCEPT ![Target(r)] = image[r]]
      BY <2>2, <2>4 DEF Commit, ImportRequest, ImportLocking
    <3>2. Target(r) = x /\ rows'[x] = image[r]
      BY <1>1, <2>2, <3>1
    <3>3. ~Created(r) /\ image[r] = ApplyExcept(rows[x], Patch(r), Kept(x))
      BY <1>1, <2>2, <3>1, <3>2 DEF ImportRequest, ImportWritten
    <3>4. "text" \in DOMAIN Patch(r) /\ rows'[x]["text"] = Patch(r)["text"]
      BY <1>1, <3>2, <3>3 DEF ApplyExcept, Columns
    <3>5. seen[r]["updatable"] \/ seen[r]["text"] = rows'[x]["text"]
      BY <2>2, <3>1, <3>3, <3>4 DEF ImportRequest, ImportPermitted
    <3>6. QED
      BY <2>4, <3>1, <3>2, <3>5
  <2>5. CASE DeactivateObligation(r)
    <3>1. /\ input[r] # None /\ pc[r] = "deactivate"
          /\ rows' = [rows EXCEPT ![Target(r)] = [seen[r] EXCEPT !["active"] = FALSE]]
      BY <2>5 DEF DeactivateObligation, ServesObligation
    <3>2. Target(r) = x
      BY <1>1, <2>2, <3>1
    <3>3. QED
      BY <3>1, <3>2
  <2>6. QED
    BY <1>1, <2>1, <2>3, <2>4, <2>5 DEF Ending, tables
<1>2. ImportInv /\ [ImportNext]_allVars => [\A x \in Ids : Changed(x) => By(x)]_allVars
  BY <1>1
<1>3. QED
  BY <1>2, ImportInvariantHolds, PTL DEF ImportSpec, TextNeedsReadPermission

----------------------------------------------------------------------------
(* Who waits for whom. *)

\* A statement leaves a version that was written, and makes pairs only of the
\* record it works on.
LEMMA StatementPairs ==
    ASSUME ImportTypes, NEW r \in Requests, ImportRequest(r), CatPairs(r), Statement(r)
    PROVE  CatPairs(r)'
<1> USE DEF ImportTypes, StoreTypeOK, Goto
<1>1. Moves(r) /\ ImportRequest(r)' /\ input[r] # None /\ UNCHANGED input
  BY StatementInv DEF Statement, Moves
<1>2. CASE Replacing(r)
  <2>1. /\ UNCHANGED image
        /\ ins'[r] \in {ins[r], Wanted(r) \ links}
        /\ del'[r] \in {del[r], Stale(r)}
    BY <1>2 DEF Replacing, ReplaceAssociations, FindRelated, UpsertRelated, InsertLinks,
       DeleteLinks, ImportDeleteLinks
  <2>2. image[r] # None
    BY <1>2 DEF Replacing, ReplaceAssociations, FindRelated, UpsertRelated, InsertLinks,
       DeleteLinks, ImportDeleteLinks, ImportRequest, ImportLocking
  <2>3. Target(r) \in Ids /\ found[r] \subseteq Opposite(Target(r))
    BY <1>1, WorkTyped DEF ImportRequest, CatLinking
  <2>4. /\ Wanted(r) \subseteq LinksTo(Target(r), Opposite(Target(r)))
        /\ Stale(r) \subseteq LinksTo(Target(r), Opposite(Target(r)))
    BY <2>3, LinksOfEither DEF Wanted, Stale, LinksTo
  <2>5. QED
    BY <1>1, <2>1, <2>2, <2>4 DEF CatPairs, Target
<1>3. CASE ~Replacing(r)
  <2>1. UNCHANGED <<ins, del>>
    BY <1>3
    DEF Statement, Creating, ImportCreateLicense, ImportCreateObligation, CreateRecord,
        Finding, FindLicense, FindObligation, ImportFindLicense, ImportFindObligation,
        Preloading, PreloadObligations, PreloadLicenses, ImportPreloadObligations,
        Merging, MergeLicenseRef, MergeObligationRef, LockRecord, Saving, SaveWord,
        Writing, WriteLicense, WriteObligation, RefuseLicense, RefuseObligation, WriteRecord,
        Reloading, ReloadLicense, ReloadObligation, ReloadRecord
  <2>2. CASE Creating(r) \/ Merging(r)
    BY <1>1, <2>1, <2>2
    DEF Creating, ImportCreateLicense, ImportCreateObligation, CreateRecord, Merging,
        MergeLicenseRef, MergeObligationRef, LockRecord, ImportRequest, ImportLocking, CatPairs
  <2>3. CASE Finding(r) \/ Preloading(r) \/ Saving(r) \/ Reloading(r)
    <3>1. UNCHANGED image
      BY <2>3
      DEF Saving, SaveWord, Finding, FindLicense, FindObligation, ImportFindLicense, ImportFindObligation,
          Preloading, PreloadObligations, PreloadLicenses, ImportPreloadObligations,
          Reloading, ReloadLicense, ReloadObligation, ReloadRecord
    <3>2. QED
      BY <1>1, <2>1, <3>1 DEF CatPairs, Target
  <2>4. CASE Writing(r)
    <3>1. pc[r] = "write" /\ (UNCHANGED image \/ pc'[r] \in {"findRelated", "reload"})
      BY <2>4 DEF Writing, WriteLicense, WriteObligation, RefuseLicense, RefuseObligation,
         WriteRecord, AfterWrite
    <3>2. image[r] # None /\ image'[r] # None
      BY <1>1, <3>1 DEF ImportRequest, ImportLocking
    <3>3. QED
      BY <1>1, <2>1, <3>2 DEF CatPairs, Target
  <2>5. QED
    BY <1>3, <2>2, <2>3, <2>4 DEF Statement
<1>4. QED
  BY <1>2, <1>3

\* What a request inserted of its fields comes before the one that it is about to
\* save.
ImportWords(r) ==
    /\ pc[r] \in {"idle", "find", "preload", "merge", "deactivate"} => entered[r] = {}
    /\ pc[r] \in Fields =>
          \A w \in entered[r] :
              SavePlace(Operation(r))[w[1]] < SavePlace(Operation(r))[pc[r]]

LEMMA StatementWords ==
    ASSUME ImportTypes, NEW r \in Requests, ImportRequest(r), ImportWords(r), Statement(r)
    PROVE  ImportWords(r)'
<1> USE DEF ImportTypes, StoreTypeOK, Goto
<1>1. CASE Finding(r) \/ Preloading(r) \/ Merging(r)
  <2>1. pc[r] \in {"find", "preload", "merge"} /\ UNCHANGED entered
    BY <1>1
    DEF Finding, FindLicense, FindObligation, ImportFindLicense, ImportFindObligation,
        Preloading, PreloadObligations, PreloadLicenses, ImportPreloadObligations,
        Merging, MergeLicenseRef, MergeObligationRef, LockRecord
  <2>2. QED
    BY <2>1 DEF ImportWords
<1>2. CASE Creating(r) \/ Writing(r) \/ Replacing(r) \/ Reloading(r)
  <2>1. pc'[r] \notin Fields \cup {"idle", "find", "preload", "merge", "deactivate"}
    <3>1. CASE Creating(r) \/ Writing(r)
      BY <3>1
      DEF Creating, ImportCreateLicense, ImportCreateObligation, CreateRecord, AfterWrite,
          Writing, WriteLicense, WriteObligation, RefuseLicense, RefuseObligation,
          WriteRecord, Fields
    <3>2. CASE Replacing(r) \/ Reloading(r)
      BY <3>2
      DEF Replacing, ReplaceAssociations, FindRelated, UpsertRelated, InsertLinks,
          DeleteLinks, ImportDeleteLinks, Reloading, ReloadLicense, ReloadObligation,
          ReloadRecord, Fields
    <3>3. QED
      BY <1>2, <3>1, <3>2
  <2>2. QED
    BY <2>1 DEF ImportWords
<1>3. CASE Saving(r)
  <2> DEFINE place(f) == SavePlace(Operation(r))[f]
  <2>1. pc[r] \in Fields /\ UNCHANGED input
    BY <1>3 DEF Saving, SaveWord
  <2>2. \/ pc'[r] = IF image[r] = None THEN "insert" ELSE "write"
        \/ pc'[r] \in Fields /\ place(pc'[r]) > place(pc[r])
    BY <1>3, SaveWordGoes DEF Saving, Operation
  <2>3. entered'[r] \subseteq entered[r] \cup {Word(r, pc[r])}
    BY <1>3 DEF Saving, SaveWord
  <2>4. \A f \in Fields : place(f) \in Nat
    BY DEF SavePlace, Fields
  <2>5. \A w \in entered'[r] : w[1] \in Fields /\ place(w[1]) <= place(pc[r])
    BY <2>1, <2>3, <2>4 DEF ImportWords, Word
  <2>6. pc'[r] \in Fields => \A w \in entered'[r] : place(w[1]) < place(pc'[r])
    <3> HIDE DEF place
    <3>1. pc'[r] \in Fields => place(pc'[r]) > place(pc[r])
      BY <2>2 DEF Fields
    <3>2. QED
      BY <2>1, <2>4, <2>5, <3>1
  <2>7. QED
    BY <2>1, <2>2, <2>6 DEF ImportWords, Operation, Fields
<1>4. QED
  BY <1>1, <1>2, <1>3 DEF Statement

\* The invariant together with the pairs and the words.
ImportLockInv == ImportInv /\ \A r \in Requests : CatPairs(r) /\ ImportWords(r)

LEMMA ImportPairsNext ==
    ASSUME ImportLockInv, [ImportNext]_allVars
    PROVE  ImportLockInv'
<1>1. /\ ImportInv /\ ImportTypes
      /\ \A q \in Requests : CatPairs(q) /\ ImportWords(q) /\ ImportRequest(q)
  BY DEF ImportLockInv, ImportInv
<1>2. ImportInv'
  BY <1>1, ImportNextInv, ImportStutterInv
<1>3. CASE UNCHANGED allVars
  BY <1>1, <1>2, <1>3 DEF allVars, vars, ImportLockInv, CatPairs, ImportWords, Operation,
     Target
<1>4. CASE ImportNext
  <2>1. PICK r \in Requests : Statement(r) \/ Beginning(r) \/ Outside(r) \/ Ending(r)
    BY <1>1, <1>4, ImportNextSorted
  <2> DEFINE Apart(q) == /\ input'[q] = input[q] /\ image'[q] = image[q] /\ pc'[q] = pc[q]
                         /\ ins'[q] = ins[q] /\ del'[q] = del[q] /\ entered'[q] = entered[q]
  <2>2. ASSUME \A q \in Requests \ {r} : Apart(q), CatPairs(r)', ImportWords(r)'
        PROVE  ImportLockInv'
    BY <1>1, <1>2, <2>2 DEF ImportLockInv, CatPairs, ImportWords, Operation, Target
  <2>3. CASE Statement(r)
    <3>1. Moves(r)
      BY <1>1, <2>3, StatementInv
    <3>2. \A q \in Requests \ {r} : Apart(q)
      BY <1>1, <3>1 DEF Moves, ImportTypes, StoreTypeOK
    <3>3. QED
      BY <1>1, <2>2, <2>3, <3>2, StatementPairs, StatementWords
  <2>4. CASE Beginning(r) \/ Outside(r)
    <3>1. /\ UNCHANGED <<image, ins, del, entered>>
          /\ image[r] = None /\ entered[r] = {}
          /\ \A q \in Requests \ {r} : Apart(q)
      BY <1>1, <2>4 DEF Beginning, Outside, ImportRequest, ImportLocking, ImportWords,
         ImportTypes, StoreTypeOK
    <3>2. QED
      BY <1>1, <2>2, <3>1 DEF CatPairs, ImportWords
  <2>5. CASE Ending(r)
    <3>1. Finish(r)
      BY <2>5 DEF Ending
    <3>2. CatPairs(r)' /\ ImportWords(r)'
      BY <1>1, <3>1 DEF Finish, CatPairs, ImportWords, ImportTypes, StoreTypeOK
    <3>3. QED
      BY <1>1, <2>2, <3>1, <3>2 DEF Finish, ImportTypes, StoreTypeOK
  <2>6. QED
    BY <2>1, <2>3, <2>4, <2>5
<1>5. QED
  BY <1>3, <1>4

LEMMA ImportLocksHold == ImportSpec => []ImportLockInv
<1>1. ImportInit => ImportLockInv
  BY ImportInitInv DEF ImportInit, Init, ImportLockInv, CatPairs, ImportWords, Fields
<1>2. ImportLockInv /\ [ImportNext]_allVars => ImportLockInv'
  BY ImportPairsNext
<1>3. QED
  BY <1>1, <1>2, PTL DEF ImportSpec

\* Whoever is in a circle of one kind, without the race of a creation, saves a
\* field that somebody else in it has saved.
LEMMA ImportCircleOfOneKind ==
    ASSUME ImportLockInv, NEW S \in SUBSET Requests, WaitInCircle(S),
           ~ \E q, r \in S : ServesLicense(q) /\ ServesObligation(r),
           ~ \E r \in S : Importing(r) /\ pc[r] = "insert" /\ entered[r] # {},
           NEW r \in S
    PROVE  /\ pc[r] \in Fields
           /\ \E q \in S : \E w \in entered[q] : w[1] = pc[r]
<1>1. PICK q \in S \ {r} : Blocks(q, r)
  BY CircleMembers
<1>2. PICK p \in S \ {r} : Blocks(r, p)
  BY CircleMembers
<1>3. /\ ImportTypes /\ ImportRequest(q) /\ ImportRequest(r) /\ CatPairs(q) /\ CatPairs(r)
      /\ ImportWords(r)
      /\ image[q] # None /\ image[r] # None => Target(q) # Target(r)
  BY DEF ImportLockInv, ImportInv, ImportExclusion
<1>4. pc[r] \notin {"insert", "merge", "deactivate"}
  <2>1. image[r] # None \/ entered[r] # {}
    BY <1>2, <1>3 DEF Blocks, Holds, CatPairs
  <2>2. pc[r] = "insert" => Importing(r) /\ image[r] = None
    BY <1>3 DEF ImportRequest, ImportControl, ImportLocking
  <2>3. QED
    BY <1>3, <2>1, <2>2 DEF ImportRequest, ImportLocking, ImportWords
<1>5. CASE pc[r] \in {"upsert", "link", "unlink"}
  <2>1. /\ image[r] # None
        /\ input[r] # None /\ (image[q] # None => input[q] # None)
    BY <1>3, <1>5 DEF ImportRequest, ImportControl, ImportLocking
  <2>2. Target(r) \in Ids /\ (image[q] # None => Target(q) \in Ids)
    BY <1>3, <2>1, WorkTyped
  <2>3. pc[r] \notin {"insert", "merge", "deactivate"} \cup Fields
    BY <1>5 DEF Fields
  <2>4. image[q] # None /\ (Target(q) \in LicenseIds <=> Target(r) \in ObligationIds)
    BY <1>1, <1>3, <2>1, <2>2, <2>3, WaitsAcross DEF ImportRequest, CatLinking
  <2>5. \/ ServesLicense(q) /\ ServesObligation(r)
        \/ ServesLicense(r) /\ ServesObligation(q)
    BY <2>1, <2>2, <2>4, IdsAssumption DEF ServesLicense, ServesObligation, Target, Ids
  <2>6. QED
    BY <2>5
<1>6. CASE pc[r] \notin {"upsert", "link", "unlink"}
  <2>1. pc[r] \in Fields /\ \E w \in entered[q] : Meets(w, Word(r, pc[r]))
    BY <1>1, <1>4, <1>6 DEF Blocks
  <2>2. \E w \in entered[q] : w[1] = pc[r]
    BY <2>1 DEF Meets, Word
  <2>3. QED
    BY <2>1, <2>2
<1>7. QED
  BY <1>5, <1>6

\* Imports of one kind of record never deadlock with each other or with the
\* requests of that kind, whatever their files have in common and in whatever
\* order, but for the import of an obligation that is created under its eyes.
THEOREM ImportDeadlocksAreAcross == ImportSpec => []ImportDeadlockNeedsBothKinds
<1>1. ASSUME ImportLockInv, NEW S \in SUBSET Requests, WaitInCircle(S)
      PROVE  \/ \E q, r \in S : ServesLicense(q) /\ ServesObligation(r)
             \/ \E r \in S : Importing(r) /\ pc[r] = "insert" /\ entered[r] # {}
  <2> SUFFICES ASSUME ~ \E q, r \in S : ServesLicense(q) /\ ServesObligation(r),
                      ~ \E r \in S : Importing(r) /\ pc[r] = "insert" /\ entered[r] # {}
               PROVE  FALSE
    OBVIOUS
  <2> DEFINE place == [type |-> 1, classification |-> 2, category |-> 3]
  <2>1. ASSUME NEW r \in S
        PROVE  pc[r] \in Fields /\ \E q \in S : place[pc[r]] < place[pc[q]]
    <3>1. pc[r] \in Fields
      BY <1>1, ImportCircleOfOneKind
    <3>2. PICK q \in S : \E w \in entered[q] : w[1] = pc[r]
      BY <1>1, ImportCircleOfOneKind
    <3>3. PICK w \in entered[q] : w[1] = pc[r]
      BY <3>2
    <3>4. pc[q] \in Fields /\ ImportWords(q)
      BY <1>1, ImportCircleOfOneKind DEF ImportLockInv
    <3>5. place[w[1]] < place[pc[q]]
      BY <3>3, <3>4 DEF ImportWords, SavePlace
    <3>6. QED
      BY <3>1, <3>3, <3>5
  <2>2. \A r \in S : pc[r] # "category"
    BY <2>1 DEF Fields
  <2>3. \A r \in S : pc[r] # "classification"
    BY <2>1, <2>2 DEF Fields
  <2>4. \A r \in S : pc[r] # "type"
    BY <2>1, <2>2, <2>3 DEF Fields
  <2>5. S # {}
    BY <1>1 DEF WaitInCircle
  <2>6. QED
    BY <2>1, <2>2, <2>3, <2>4, <2>5 DEF Fields
<1>2. ImportLockInv => ImportDeadlockNeedsBothKinds
  BY <1>1 DEF ImportDeadlockNeedsBothKinds
<1>3. QED
  BY <1>2, ImportLocksHold, PTL
=============================================================================
