-------------------------- MODULE CatalogueProofs --------------------------
(****************************************************************************)
(* The licence and obligation requests over one database, with lock waits,  *)
(* deadlocks and failures: types, the join table and the newest versions    *)
(* are safe for any number of requests, records and bodies, and a deadlock  *)
(* is always between the two kinds.                                         *)
(****************************************************************************)
EXTENDS CatalogueInvariant, LicenseHandlersProofs

CatInputs == LicenseInputs \cup ObligationInputs

(* Rows, bodies and pairs of either kind. *)

\* Values stored by an UPDATE have the type of their column, whichever columns
\* it leaves out.
LEMMA ApplyExceptKeepsRow ==
    ASSUME NEW row \in Row, NEW x, NEW p, IsPatchOf(p, x), ~HasEmptyText(p), NEW S
    PROVE  ApplyExcept(row, p, S) \in Row
<1> DEFINE a == ApplyExcept(row, p, S)
<1>1. \A c \in Columns : a[c] \in ValuesOf(c)
  BY DEF ApplyExcept, Row, IsPatchOf, HasEmptyText
<1>2. \A c \in Columns : ValuesOf(c) \subseteq Names \cup Texts \cup BOOLEAN
  BY DEF ValuesOf
<1>3. a \in [Columns -> Names \cup Texts \cup BOOLEAN]
  <2>1. a = [c \in Columns |-> a[c]]
    BY DEF ApplyExcept
  <2> HIDE DEF a
  <2>2. QED
    BY <1>1, <1>2, <2>1
<1>4. QED
  BY <1>1, <1>3 DEF Row

\* Clearing `active` keeps a row a row.
LEMMA InactiveIsRow ==
    ASSUME NEW row \in Row
    PROVE  [row EXCEPT !["active"] = FALSE] \in Row /\ [row EXCEPT !["active"] = FALSE]["active"] = FALSE
  BY DEF Row, Columns, ValuesOf

LEMMA LinksOfEither ==
    ASSUME NEW x \in Ids, NEW S
    PROVE  /\ S \subseteq Opposite(x) => LinksTo(x, S) \subseteq Pairs
           /\ RelatedTo(x, S) \subseteq Opposite(x)
           /\ Opposite(x) \subseteq Ids
  BY IdsAssumption DEF LinksTo, Pairs, Pair, RelatedTo, Opposite, Ids

LEMMA CatBodyTyped ==
    ASSUME CatalogueTypeOK, NEW r \in Requests, input[r] # None
    PROVE  /\ input[r] \in CatInputs
           /\ Target(r) \in Ids
           /\ Creates(r) \/ Updates(r) \/ Deletes(r)
           /\ ~(Creates(r) /\ Updates(r)) /\ ~(Creates(r) /\ Deletes(r))
           /\ ~(Deletes(r) /\ Updates(r))
           /\ Creates(r) => IsFormOf(Patch(r), Target(r))
           /\ Updates(r) => IsPatchOf(Patch(r), Target(r))
           /\ Deletes(r) => ~Relates(Patch(r))
<1>1. input[r] \in CatInputs
  BY DEF CatalogueTypeOK, StoreTypeOK, CatInputs
<1>2. CASE input[r] \in LicenseInputs
  BY <1>1, <1>2, LicenseInputAssumption
  DEF LicenseInputs, Target, Patch, Creates, Updates, Deletes, Ids, IsFormOf
<1>3. CASE input[r] \in ObligationInputs
  BY <1>1, <1>3, ObligationInputAssumption
  DEF ObligationInputs, Target, Patch, Creates, Updates, Deletes, Ids, NoBody, Relates, IsFormOf
<1>4. QED
  BY <1>1, <1>2, <1>3 DEF CatInputs

\* The next save is of a later field of the body, if it is one.
LEMMA NextSaveLater ==
    ASSUME NEW op, NEW p, NEW i \in Nat, NEW last
    PROVE  LET l == NextSave(op, p, i, last)
           IN  \/ l = last
               \/ l \in Fields /\ l \in DOMAIN p /\ SavePlace(op)[l] > i
<1> DEFINE later == {f \in Saves(p) : SavePlace(op)[f] > i}
           First(f) == \A g \in later : SavePlace(op)[f] <= SavePlace(op)[g]
<1>1. CASE later = {}
  BY <1>1 DEF NextSave
<1>2. CASE later # {}
  <2>1. later \subseteq Fields /\ later \subseteq DOMAIN p
    BY DEF Saves
  <2>2. \E f \in later : First(f)
    <3>1. CASE "type" \in later
      BY <2>1, <3>1 DEF SavePlace, Fields
    <3>2. CASE "type" \notin later /\ "classification" \in later
      BY <2>1, <3>2 DEF SavePlace, Fields
    <3>3. CASE later = {"category"}
      BY <3>3 DEF SavePlace
    <3>4. QED
      BY <1>2, <2>1, <3>1, <3>2, <3>3 DEF Fields
  <2>3. NextSave(op, p, i, last) = CHOOSE f \in later : First(f)
    BY <1>2 DEF NextSave
  <2>4. NextSave(op, p, i, last) \in later
    BY <2>2, <2>3
  <2>5. QED
    BY <2>1, <2>4
<1>3. QED
  BY <1>1, <1>2

----------------------------------------------------------------------------
(* The statements of the two kinds of request, side by side. *)

Inserts(r) == InsertLicense(r) \/ InsertObligation(r)
Finds(r) == FindLicense(r) \/ FindObligation(r)
Preloads(r) == PreloadObligations(r) \/ PreloadLicenses(r)
Merges(r) == MergeLicenseRef(r) \/ MergeObligationRef(r)
Writes(r) == WriteLicense(r) \/ WriteObligation(r)
Refuses(r) == RefuseLicense(r) \/ RefuseObligation(r) \/ RefuseInsertion(r)
Replaces(r) == ReplaceObligations(r) \/ ReplaceLicenses(r)
Reloads(r) == ReloadLicense(r) \/ ReloadObligation(r)
Commits(r) == CommitLicense(r) \/ CommitObligation(r)

\* A request that ends without a trace.
Undone(r) ==
    /\ Rollback(r)
    /\ reply' \in [Requests -> {"none", "ok", "rejected"}]
    /\ served' = served
    /\ failures' \in 0..MaxFailures

Receives(r) ==
    \/ ReceiveCreateLicense(r) \/ ReceiveUpdateLicense(r)
    \/ ReceiveCreateObligation(r) \/ ReceiveUpdateObligation(r) \/ ReceiveDeleteObligation(r)

LEMMA Ends ==
    ASSUME CatalogueTypeOK, NEW r \in Requests,
           \/ RejectLicense(r) \/ RejectObligation(r)
           \/ LicenseCommitFails(r) \/ LicenseStatementFails(r)
           \/ ObligationCommitFails(r) \/ ObligationStatementFails(r)
           \/ AbortDeadlock(r)
    PROVE  Undone(r)
<1>1. reply' \in [Requests -> {"none", "ok", "rejected"}]
  BY DEF CatalogueTypeOK, StoreTypeOK, RejectLicense, RejectObligation, Reject, LicenseCommitFails,
         LicenseStatementFails, ObligationCommitFails, ObligationStatementFails,
         StatementFails, AbortDeadlock
<1>2. served' = served /\ failures' \in 0..MaxFailures
  BY StoreAssumption
  DEF CatalogueTypeOK, StoreTypeOK, RejectLicense, RejectObligation, Reject, bounds,
      LicenseCommitFails, LicenseStatementFails, ObligationCommitFails,
      ObligationStatementFails, StatementFails, AbortDeadlock
<1>3. Rollback(r)
  BY DEF RejectLicense, RejectObligation, Reject, LicenseCommitFails,
         LicenseStatementFails, ObligationCommitFails, ObligationStatementFails,
         StatementFails, AbortDeadlock
<1>4. QED
  BY <1>1, <1>2, <1>3 DEF Undone

\* Every step of the system is one of these.
LEMMA StepsSorted ==
    ASSUME CatalogueTypeOK, CatalogueNext
    PROVE  \E r \in Requests :
              \/ Receives(r)
              \/ Inserts(r) \/ Finds(r) \/ Preloads(r) \/ Merges(r) \/ Writes(r)
              \/ Refuses(r) \/ SaveAssociations(r) \/ Replaces(r) \/ Reloads(r) \/ Commits(r)
              \/ DeactivateObligation(r)
              \/ Undone(r)
  BY Ends
  DEF CatalogueNext, LicenseNext, ObligationNext, LicenseStep, ObligationStep, Receives,
      Inserts, Finds, Preloads, Merges, Writes, Refuses, Replaces, Reloads, Commits

\* After a save comes the save of a later field, or the statement on the row.
LEMMA SaveWordGoes ==
    ASSUME NEW r \in Requests, pc \in [Requests -> Labels], SaveWord(r)
    PROVE  \E l : /\ Goto(r, pc[r], l)
                  /\ \/ l = IF image[r] = None THEN "insert" ELSE "write"
                     \/ /\ l \in Fields /\ l \in DOMAIN Patch(r)
                        /\ SavePlace(input[r].op)[l] > SavePlace(input[r].op)[pc[r]]
<1> DEFINE place == SavePlace(input[r].op)[pc[r]]
           last == IF image[r] = None THEN "insert" ELSE "write"
           l == NextSave(input[r].op, Patch(r), place, last)
<1>1. Goto(r, pc[r], l)
  BY DEF SaveWord, Goto
<1>2. place \in Nat
  BY DEF SaveWord, SavePlace, Fields
<1>3. \/ l = last
      \/ l \in Fields /\ l \in DOMAIN Patch(r) /\ SavePlace(input[r].op)[l] > place
  BY <1>2, NextSaveLater
<1>4. QED
  BY <1>1, <1>3

----------------------------------------------------------------------------
(* Types. *)

LEMMA CatFinishTyped ==
    ASSUME CatalogueTypeOK, NEW r \in Requests, Finish(r)
    PROVE  /\ pc' \in [Requests -> Labels]
           /\ input' \in [Requests -> CatInputs \cup {None}]
           /\ seen' \in [Requests -> Row \cup {None, BlankRow}]
           /\ linked' \in [Requests -> SUBSET Ids]
           /\ image' \in [Requests -> Row \cup {None}]
           /\ found' \in [Requests -> SUBSET Ids]
           /\ ins' \in [Requests -> SUBSET Pairs]
           /\ del' \in [Requests -> SUBSET Pairs]
           /\ entered' \in [Requests -> SUBSET (Fields \X Words)]
           /\ DOMAIN note' = Requests /\ \A q \in Requests : IsChangeLog(note'[q])
  BY NoChangesTyped DEF CatalogueTypeOK, StoreTypeOK, Finish, Labels, CatInputs

\* A new audit among typed ones.
LEMMA AuditsTyped ==
    ASSUME audits \in Seq({audits[i] : i \in DOMAIN audits}),
           \A i \in DOMAIN audits : audits[i].id \in Ids /\ IsChangeLog(audits[i].changes),
           NEW x \in Ids, NEW log, IsChangeLog(log),
           audits' \in {audits, Append(audits, [id |-> x, changes |-> log])}
    PROVE  /\ audits' \in Seq({audits'[i] : i \in DOMAIN audits'})
           /\ \A i \in DOMAIN audits' : audits'[i].id \in Ids /\ IsChangeLog(audits'[i].changes)
<1> DEFINE e == [id |-> x, changes |-> log]
           S == {audits[i] : i \in DOMAIN audits}
<1>1. CASE audits' = audits
  BY <1>1
<1>2. CASE audits' = Append(audits, e)
  <2>1. e.id \in Ids /\ IsChangeLog(e.changes)
    OBVIOUS
  <2> HIDE DEF e
  <2>2. audits \in Seq(S \cup {e})
    BY SeqMonotonic
  <2>3. /\ DOMAIN audits' = 1..(Len(audits) + 1)
        /\ \A i \in 1..Len(audits) : audits'[i] = audits[i]
        /\ audits'[Len(audits) + 1] = e
        /\ audits' \in Seq(S \cup {e})
    BY <1>2, <2>2
  <2>4. \A i \in DOMAIN audits' : audits'[i].id \in Ids /\ IsChangeLog(audits'[i].changes)
    BY <2>1, <2>2, <2>3
  <2>5. S \cup {e} \subseteq {audits'[i] : i \in DOMAIN audits'}
    BY <2>2, <2>3
  <2>6. QED
    BY <2>3, <2>4, <2>5
<1>3. QED
  BY <1>1, <1>2

LEMMA CatReceiveTyped ==
    ASSUME CatalogueTypeOK, NEW r \in Requests, Receives(r)
    PROVE  CatalogueTypeOK'
<1>1. PICK op, x, p, l :
        /\ [op |-> op, id |-> x, patch |-> p] \in CatInputs
        /\ l \in {"insert", "find"} \cup Fields
        /\ Receive(r, op, x, p, l)
  BY NextSaveLater DEF Receives, ReceiveCreateLicense, ReceiveUpdateLicense, ReceiveCreateObligation,
         ReceiveUpdateObligation, ReceiveDeleteObligation, LicenseInputs, ObligationInputs,
         CatInputs
<1>2. served' \in 0..MaxRequests
  BY <1>1, StoreAssumption DEF Receive, CatalogueTypeOK, StoreTypeOK
<1>3. QED
  BY <1>1, <1>2 DEF Receive, Goto, tables, CatalogueTypeOK, StoreTypeOK, Labels, CatInputs

LEMMA CatStepTyped ==
    ASSUME CatInv, NEW r \in Requests,
           \/ Inserts(r) \/ Finds(r) \/ Preloads(r) \/ Merges(r) \/ Writes(r)
           \/ Refuses(r) \/ SaveAssociations(r) \/ Replaces(r) \/ Reloads(r) \/ Commits(r)
           \/ DeactivateObligation(r)
    PROVE  CatalogueTypeOK'
<1> USE DEF tables, bounds, CatalogueTypeOK, StoreTypeOK
<1>1. CatalogueTypeOK /\ CatControl(r) /\ CatLocking(r) /\ CatLinking(r)
  BY DEF CatInv, CatRequest
<1>2. input[r] # None
  BY DEF Inserts, InsertLicense, InsertObligation, Finds, FindLicense, FindObligation,
         Preloads, PreloadObligations, PreloadLicenses, Merges, MergeLicenseRef,
         MergeObligationRef, Writes, WriteLicense, WriteObligation, Refuses, RefuseLicense,
         RefuseObligation, RefuseInsertion, Replaces, ReplaceObligations, ReplaceLicenses, Reloads,
         ReloadLicense, ReloadObligation, Commits, CommitLicense, CommitObligation,
         DeactivateObligation, SaveAssociations, ServesLicense, ServesObligation
<1>3. /\ Target(r) \in Ids
      /\ Creates(r) => IsFormOf(Patch(r), Target(r))
      /\ Updates(r) => IsPatchOf(Patch(r), Target(r))
      /\ Creates(r) \/ Updates(r) => IsPatchOf(Patch(r), Target(r))
  BY <1>1, <1>2, CatBodyTyped DEF IsFormOf
<1>4. CASE Inserts(r)
  <2>1. Apply(BlankRow, Patch(r)) \in Row
    BY <1>1, <1>3, <1>4, FormGivesRow
    DEF Inserts, InsertLicense, InsertObligation, Goto, CatControl
  <2>2. /\ pc' = [pc EXCEPT ![r] = "findRelated"]
        /\ seen' = [seen EXCEPT ![r] = BlankRow]
        /\ image' = [image EXCEPT ![r] = Apply(BlankRow, Patch(r))]
        /\ UNCHANGED <<tables, bounds, input, linked, found, ins, del, entered, note, reply>>
    BY <1>4 DEF Inserts, InsertLicense, InsertObligation, Goto
  <2>3. QED
    BY <1>1, <2>1, <2>2 DEF Labels
<1>5. CASE Finds(r)
  <2>1. PICK l \in {"reject", "deactivate", "preload"} : Goto(r, "find", l)
    BY <1>5 DEF Finds, FindLicense, FindObligation
  <2>2. /\ pc' = [pc EXCEPT ![r] = l]
        /\ seen' = [seen EXCEPT ![r] = rows[Target(r)]]
        /\ UNCHANGED <<tables, bounds, input, linked, image, found, ins, del, entered,
                       note, reply>>
    BY <1>5, <2>1 DEF Finds, FindLicense, FindObligation, Goto
  <2>3. rows[Target(r)] \in Row \cup {None}
    BY <1>1, <1>3
  <2>4. QED
    BY <1>1, <2>2, <2>3 DEF Labels
<1>6. CASE Preloads(r)
  <2>1. RelatedTo(Target(r), links) \in SUBSET Ids
    BY <1>3, LinksOfEither
  <2>2. QED
    <3>1. PICK l \in {"reject", "merge"} : Goto(r, "preload", l)
      BY <1>6 DEF Preloads, PreloadObligations, PreloadLicenses
    <3>2. /\ pc' = [pc EXCEPT ![r] = l]
          /\ linked' = [linked EXCEPT ![r] = RelatedTo(Target(r), links)]
          /\ UNCHANGED <<tables, bounds, input, seen, image, found, ins, del, entered,
                         note, reply>>
      BY <1>6, <3>1 DEF Preloads, PreloadObligations, PreloadLicenses, Goto
    <3>3. QED
      BY <1>1, <2>1, <3>2 DEF Labels
<1>7. CASE Merges(r)
  <2>1. PICK l \in Fields \cup {"write"} : Goto(r, "merge", l)
    BY <1>7, NextSaveLater DEF Merges, MergeLicenseRef, MergeObligationRef
  <2>2. /\ pc' = [pc EXCEPT ![r] = l]
        /\ image' = [image EXCEPT ![r] = rows[Target(r)]]
        /\ UNCHANGED <<tables, bounds, input, seen, linked, found, ins, del, entered,
                       note, reply>>
    BY <1>7, <2>1 DEF Merges, MergeLicenseRef, MergeObligationRef, Goto
  <2>3. rows[Target(r)] \in Row \cup {None}
    BY <1>1, <1>3
  <2>4. QED
    BY <1>1, <2>2, <2>3 DEF Labels
<1>8. CASE Writes(r)
  <2>1. image[r] \in Row /\ IsPatchOf(Patch(r), Target(r)) /\ ~HasEmptyText(Patch(r))
    BY <1>1, <1>3, <1>8
    DEF Writes, WriteLicense, WriteObligation, Goto, CatLocking
  <2>2. \A S : ApplyExcept(image[r], Patch(r), S) \in Row
    BY <2>1, ApplyExceptKeepsRow
  <2>3. PICK S : image' = [image EXCEPT ![r] = ApplyExcept(image[r], Patch(r), S)]
    BY <1>8 DEF Writes, WriteLicense, WriteObligation, Apply
  <2>4. image' \in [Requests -> Row \cup {None}]
    BY <1>1, <2>2, <2>3
  <2>5. PICK l \in {"findRelated", "reload"} : Goto(r, "write", l)
    BY <1>8 DEF Writes, WriteLicense, WriteObligation
  <2>6. /\ pc' = [pc EXCEPT ![r] = l]
        /\ UNCHANGED <<tables, bounds, input, seen, linked, found, ins, del, entered,
                       note, reply>>
    BY <1>8, <2>5 DEF Writes, WriteLicense, WriteObligation, Goto
  <2>7. QED
    BY <1>1, <2>4, <2>6 DEF Labels
<1>9. CASE Refuses(r)
  BY <1>1, <1>9 DEF Refuses, RefuseLicense, RefuseObligation, RefuseInsertion, Goto, Labels
<1>10. CASE Replaces(r)
  <2>1. CASE FindRelated(r)
    <3>1. Creates(r) \/ Updates(r)
      BY <1>1, <2>1 DEF FindRelated, Goto, CatLocking
    <3>2. Patch(r)["related"] \subseteq Ids
      BY <1>1, <1>3, <2>1, <3>1, LinksOfEither
      DEF FindRelated, Goto, CatControl, Relates, IsPatchOf
    <3>3. QED
      BY <1>1, <2>1, <3>2 DEF FindRelated, Goto, Labels
  <2>2. CASE UpsertRelated(r)
    BY <1>1, <2>2 DEF UpsertRelated, Goto, Labels
  <2>3. CASE InsertLinks(r)
    <3>1. Wanted(r) \subseteq Pairs
      BY <1>1, <1>2, <1>3, LinksOfEither DEF CatLinking, Wanted
    <3>2. QED
      BY <1>1, <2>3, <3>1 DEF InsertLinks, Goto, Labels
  <2>4. CASE DeleteLinks(r)
    <3>1. Stale(r) \subseteq Pairs
      <4>1. RelatedTo(Target(r), links) \ found[r] \subseteq Opposite(Target(r))
        BY <1>3, LinksOfEither
      <4>2. QED
        BY <1>3, <4>1, LinksOfEither DEF Stale
    <3>2. QED
      BY <1>1, <2>4, <3>1 DEF DeleteLinks, Goto, Labels
  <2>5. QED
    BY <1>10, <2>1, <2>2, <2>3, <2>4
    DEF Replaces, ReplaceObligations, ReplaceLicenses, ReplaceAssociations
<1>11. CASE Reloads(r)
  <2>1. /\ seen[r] \in Row \cup {BlankRow}
        /\ image[r] \in Row \cup {BlankRow}
        /\ linked[r] \in SUBSET Ids
    BY <1>1, <1>11 DEF Reloads, ReloadLicense, ReloadObligation, Goto, CatControl, CatLocking
  <2>2. RelatedTo(Target(r), Visible(r)) \in SUBSET Ids
    BY <1>3, LinksOfEither
  <2>3. IsChangeLog(ChangeLog(Snapshot(seen[r], linked[r]),
                              Snapshot(image[r], RelatedTo(Target(r), Visible(r)))))
    BY <2>1, <2>2, SnapshotTyped, ChangeLogTyped
  <2>4. DOMAIN note' = Requests /\ \A q \in Requests : IsChangeLog(note'[q])
    BY <1>1, <1>11, <2>3 DEF Reloads, ReloadLicense, ReloadObligation, WriteChangeLog
  <2>5. reply' \in [Requests -> {"none", "ok", "rejected"}]
    BY <1>1, <1>11 DEF Reloads, ReloadLicense, ReloadObligation
  <2>6. QED
    BY <1>1, <1>11, <2>4, <2>5 DEF Reloads, ReloadLicense, ReloadObligation, Goto, Labels
<1>12. CASE Commits(r)
  <2>0. Commit(r) /\ Finish(r)
    BY <1>12 DEF Commits, CommitLicense, CommitObligation, Commit
  <2>1. rows' \in [Ids -> Row \cup {None}] /\ links' \subseteq Pairs
    BY <1>1, <1>3, <2>0 DEF Commit, Visible
  <2>2. reply' \in [Requests -> {"none", "ok", "rejected"}]
    BY <1>1, <1>12 DEF Commits, CommitLicense, CommitObligation
  <2>3. /\ audits' \in Seq({audits'[i] : i \in DOMAIN audits'})
        /\ \A i \in DOMAIN audits' : audits'[i].id \in Ids /\ IsChangeLog(audits'[i].changes)
    <3>1. audits' \in {audits, Append(audits, [id |-> Target(r), changes |-> note[r]])}
      BY <2>0 DEF Commit
    <3>2. QED
      BY <1>1, <1>3, <3>1, AuditsTyped
  <2>4. UNCHANGED <<served, failures>> /\ vocabulary' \subseteq Fields \X Words
    BY <1>1, <2>0 DEF Commit
  <2>5. QED
    BY <1>1, <2>0, <2>1, <2>2, <2>3, <2>4, CatFinishTyped DEF CatInputs
<1>13. CASE DeactivateObligation(r)
  <2>1. seen[r] \in Row
    BY <1>1, <1>13 DEF DeactivateObligation, CatControl
  <2>2. rows' \in [Ids -> Row \cup {None}]
    BY <1>1, <1>3, <1>13, <2>1, InactiveIsRow DEF DeactivateObligation
  <2>3. reply' \in [Requests -> {"none", "ok", "rejected"}] /\ Finish(r)
    BY <1>1, <1>13 DEF DeactivateObligation
  <2>4. UNCHANGED <<links, audits, vocabulary, served, failures>>
    BY <1>13 DEF DeactivateObligation
  <2>5. QED
    BY <1>1, <2>2, <2>3, <2>4, CatFinishTyped DEF CatInputs
<1>14. CASE SaveAssociations(r)
  <2>1. PICK l \in Labels : Goto(r, pc[r], l)
    BY <1>1, <1>14, SaveWordGoes DEF SaveAssociations, Labels
  <2>2. Word(r, pc[r]) \in Fields \X Words
    BY <1>1, <1>3, <1>14 DEF SaveAssociations, SaveWord, Word, CatControl, IsPatchOf
  <2>3. entered' \in [Requests -> SUBSET (Fields \X Words)]
    BY <1>1, <1>14, <2>2 DEF SaveAssociations, SaveWord
  <2>4. /\ pc' = [pc EXCEPT ![r] = l]
        /\ UNCHANGED <<tables, bounds, input, seen, linked, image, found, ins, del, note,
                       reply>>
    BY <1>14, <2>1 DEF SaveAssociations, SaveWord, Goto
  <2>5. QED
    BY <1>1, <2>1, <2>3, <2>4
<1>15. QED
  BY <1>4, <1>5, <1>6, <1>7, <1>8, <1>9, <1>10, <1>11, <1>12, <1>13, <1>14

LEMMA UndoneTyped ==
    ASSUME CatalogueTypeOK, NEW r \in Requests, Undone(r)
    PROVE  CatalogueTypeOK'
  BY CatFinishTyped DEF CatalogueTypeOK, StoreTypeOK, Undone, Rollback, tables, CatInputs

----------------------------------------------------------------------------
(* The other requests. *)

LEMMA CatFinishKeepsOthers ==
    ASSUME CatalogueTypeOK, NEW r \in Requests, Finish(r)
    PROVE  OthersKept(r)
  BY DEF Finish, OthersKept, CatalogueTypeOK, StoreTypeOK

LEMMA CatStepKeepsOthers ==
    ASSUME CatalogueTypeOK, NEW r \in Requests,
           \/ Receives(r)
           \/ Inserts(r) \/ Finds(r) \/ Preloads(r) \/ Merges(r) \/ Writes(r)
           \/ Refuses(r) \/ SaveAssociations(r) \/ Replaces(r) \/ Reloads(r) \/ Commits(r)
           \/ DeactivateObligation(r)
           \/ Undone(r)
    PROVE  OthersKept(r)
<1> USE DEF CatalogueTypeOK, StoreTypeOK, Goto, OthersKept
<1>1. CASE Receives(r)
  BY <1>1 DEF Receives, ReceiveCreateLicense, ReceiveUpdateLicense, ReceiveCreateObligation,
     ReceiveUpdateObligation, ReceiveDeleteObligation, Receive
<1>2. CASE Commits(r) \/ DeactivateObligation(r) \/ Undone(r)
  <2>1. Finish(r)
    BY <1>2 DEF Commits, CommitLicense, CommitObligation, Commit, DeactivateObligation, Undone,
       Rollback
  <2>2. QED
    BY <2>1, CatFinishKeepsOthers
<1>3. CASE Inserts(r) \/ Finds(r) \/ Preloads(r)
  BY <1>3 DEF Inserts, InsertLicense, InsertObligation, Finds, FindLicense, FindObligation,
     Preloads, PreloadObligations, PreloadLicenses
<1>4. CASE Merges(r) \/ Writes(r) \/ Refuses(r)
  BY <1>4 DEF Merges, MergeLicenseRef, MergeObligationRef, Writes, WriteLicense,
     WriteObligation, Refuses, RefuseLicense, RefuseObligation, RefuseInsertion
<1>5. CASE Replaces(r)
  BY <1>5 DEF Replaces, ReplaceObligations, ReplaceLicenses, ReplaceAssociations, FindRelated,
     UpsertRelated, InsertLinks, DeleteLinks
<1>6. CASE Reloads(r) \/ SaveAssociations(r)
  BY <1>6 DEF Reloads, ReloadLicense, ReloadObligation, SaveAssociations, SaveWord
<1>7. QED
  BY <1>1, <1>2, <1>3, <1>4, <1>5, <1>6

\* A request does not notice a step of another one that leaves the tables alone.
LEMMA CatOtherInv ==
    ASSUME NEW r \in Requests, NEW q \in Requests \ {r}, CatRequest(q),
           OthersKept(r), UNCHANGED rows
    PROVE  CatRequest(q)'
  BY DEF CatRequest, CatControl, CatLocking, CatExistence, CatWritten, CatLinking, OthersKept,
         Creates, Updates, Deletes, Target, Patch, Wanted

\* A request that is over holds nothing.
LEMMA CatFinishInv ==
    ASSUME CatalogueTypeOK, NEW r \in Requests, Finish(r)
    PROVE  CatRequest(r)'
  BY DEF Finish, CatRequest, CatControl, CatLocking, CatExistence, CatWritten, CatLinking,
         Creates, Updates, Deletes, CatalogueTypeOK, StoreTypeOK, Fields

LEMMA CatReceiveInv ==
    ASSUME CatInv, NEW r \in Requests, Receives(r)
    PROVE  CatRequest(r)' /\ UNCHANGED <<rows, links>>
<1>1. CatalogueTypeOK /\ CatRequest(r)
  BY DEF CatInv
<1>2. PICK op, x, p, l :
        /\ [op |-> op, id |-> x, patch |-> p] \in CatInputs
        /\ \/ /\ op = "create" /\ rows[x] = None
              /\ l = "insert" \/ (l \in Fields /\ l \in DOMAIN p)
           \/ op \in {"update", "delete"} /\ l = "find"
        /\ Receive(r, op, x, p, l)
  BY NextSaveLater DEF Receives, ReceiveCreateLicense, ReceiveUpdateLicense, ReceiveCreateObligation,
         ReceiveUpdateObligation, ReceiveDeleteObligation, LicenseInputs, ObligationInputs,
         CatInputs, Fresh
<1>3. /\ input'[r] = [op |-> op, id |-> x, patch |-> p]
      /\ pc'[r] = l
      /\ pc[r] = "idle"
      /\ UNCHANGED <<rows, links, seen, image, found, ins>>
  BY <1>1, <1>2 DEF Receive, Goto, CatalogueTypeOK, StoreTypeOK, CatInputs, tables
<1>4. input'[r] # None
  BY <1>2, <1>3, LicenseInputAssumption, ObligationInputAssumption DEF CatInputs
<1>5. found[r] = {} /\ ins[r] = {} /\ image[r] = None
  BY <1>1, <1>3 DEF CatRequest, CatLocking, CatLinking, CatControl
<1>6. QED
  BY <1>1, <1>2, <1>3, <1>4, <1>5
  DEF CatRequest, CatControl, CatLocking, CatExistence, CatWritten, CatLinking, Creates,
      Updates, Deletes, Target, Patch, Fields

\* The statements of r itself, its end excepted.
LEMMA CatOwnInv ==
    ASSUME CatInv, NEW r \in Requests,
           \/ Inserts(r) \/ Finds(r) \/ Preloads(r) \/ Merges(r) \/ Writes(r)
           \/ Refuses(r) \/ SaveAssociations(r) \/ Replaces(r) \/ Reloads(r)
    PROVE  CatRequest(r)' /\ UNCHANGED <<rows, links>>
<1> USE DEF tables, bounds, CatalogueTypeOK, StoreTypeOK, Goto, Fields
<1>1. CatalogueTypeOK /\ CatRequest(r)
  BY DEF CatInv
<1>2. input[r] # None
  BY DEF Inserts, InsertLicense, InsertObligation, Finds, FindLicense, FindObligation,
         Preloads, PreloadObligations, PreloadLicenses, Merges, MergeLicenseRef,
         MergeObligationRef, Writes, WriteLicense, WriteObligation, Refuses, RefuseLicense,
         RefuseObligation, RefuseInsertion, Replaces, ReplaceObligations, ReplaceLicenses, Reloads,
         ReloadLicense, ReloadObligation, SaveAssociations, ServesLicense, ServesObligation
<1>3. /\ Target(r) \in Ids
      /\ Creates(r) \/ Updates(r) \/ Deletes(r)
      /\ ~(Creates(r) /\ Updates(r)) /\ ~(Creates(r) /\ Deletes(r))
      /\ ~(Deletes(r) /\ Updates(r))
      /\ Creates(r) => IsFormOf(Patch(r), Target(r))
      /\ Updates(r) => IsPatchOf(Patch(r), Target(r))
      /\ Creates(r) \/ Updates(r) => IsPatchOf(Patch(r), Target(r))
  BY <1>1, <1>2, CatBodyTyped DEF IsFormOf
<1>4. CASE Inserts(r)
  <2>1. pc[r] = "insert" /\ Creates(r)
    BY <1>1, <1>4 DEF Inserts, InsertLicense, InsertObligation, CatRequest, CatControl
  <2>2. Apply(BlankRow, Patch(r)) \in Row /\ Relates(Patch(r))
    BY <1>3, <2>1, FormGivesRow
  <2>3. /\ pc'[r] = "findRelated"
        /\ image'[r] = Apply(BlankRow, Patch(r)) /\ seen'[r] = BlankRow
        /\ UNCHANGED <<rows, links, input, found, ins>>
    BY <1>1, <1>4 DEF Inserts, InsertLicense, InsertObligation
  <2>4. image'[r] # None /\ seen'[r] # None
    BY <2>2, <2>3, NoneAssumption
  <2>5. QED
    BY <1>1, <1>2, <1>3, <2>1, <2>2, <2>3, <2>4
    DEF CatRequest, CatControl, CatLocking, CatExistence, CatWritten, CatLinking, Creates,
        Updates, Deletes, Target, Patch, Wanted
<1>5. CASE Finds(r)
  <2>1. pc[r] = "find" /\ (Updates(r) \/ Deletes(r))
    BY <1>1, <1>5 DEF Finds, FindLicense, FindObligation, CatRequest, CatControl
  <2>2. Deletes(r) => Target(r) \notin LicenseIds
    BY <1>1, <1>2, IdsAssumption DEF Deletes, LicenseInputs, ObligationInputs, Target
  <2>3. /\ IF rows[Target(r)] = None THEN pc'[r] = "reject"
           ELSE pc'[r] = IF Deletes(r) THEN "deactivate" ELSE "preload"
        /\ seen'[r] = rows[Target(r)]
        /\ UNCHANGED <<rows, links, input, image, found, ins>>
    BY <1>1, <1>2, <1>3, <1>5, <2>2
    DEF Finds, FindLicense, FindObligation, ServesLicense, ServesObligation, Operation,
        Deletes, Target
  <2>4. rows[Target(r)] # None => rows[Target(r)] \in Row
    BY <1>1, <1>3
  <2>5. QED
    BY <1>1, <1>2, <1>3, <2>1, <2>3, <2>4
    DEF CatRequest, CatControl, CatLocking, CatExistence, CatWritten, CatLinking, Creates,
        Updates, Deletes, Target, Patch, Wanted
<1>6. CASE Preloads(r)
  <2>1. /\ pc[r] = "preload" /\ pc'[r] \in {"reject", "merge"}
        /\ UNCHANGED <<rows, links, input, seen, image, found, ins>>
    BY <1>1, <1>6 DEF Preloads, PreloadObligations, PreloadLicenses
  <2>2. QED
    BY <1>1, <1>2, <1>3, <2>1
    DEF CatRequest, CatControl, CatLocking, CatExistence, CatWritten, CatLinking, Creates,
        Updates, Deletes, Target, Patch, Wanted
<1>7. CASE Merges(r)
  <2>1. /\ pc[r] = "merge" /\ image'[r] = rows[Target(r)]
        /\ UNCHANGED <<rows, links, input, seen, found, ins>>
    BY <1>1, <1>7 DEF Merges, MergeLicenseRef, MergeObligationRef
  <2>2. pc'[r] = "write" \/ (pc'[r] \in Fields /\ pc'[r] \in DOMAIN Patch(r))
    <3>1. pc'[r] = "write" \/ pc'[r] = NextSave("update", Patch(r), 0, "write")
      BY <1>1, <1>7 DEF Merges, MergeLicenseRef, MergeObligationRef
    <3>2. QED
      BY <3>1, NextSaveLater
  <2>3. QED
    BY <1>1, <1>2, <1>3, <2>1, <2>2
    DEF CatRequest, CatControl, CatLocking, CatExistence, CatWritten, CatLinking, Creates,
        Updates, Deletes, Target, Patch, Wanted
<1>8. CASE Writes(r)
  <2>1. /\ pc[r] = "write" /\ Updates(r) /\ image[r] = rows[Target(r)]
        /\ rows[Target(r)] \in Row
        /\ ~HasEmptyText(Patch(r))
    BY <1>1, <1>3, <1>8
    DEF Writes, WriteLicense, WriteObligation, CatRequest, CatControl, CatLocking, CatExistence,
        CatWritten
  <2>2. ApplyExcept(image[r], Patch(r), Kept(Target(r))) # None
    BY <1>3, <2>1, ApplyExceptKeepsRow, NoneAssumption
  <2>3. image'[r] = ApplyExcept(image[r], Patch(r), Kept(Target(r)))
    BY <1>1, <1>8, IdsAssumption
    DEF Writes, WriteLicense, WriteObligation, Apply, Kept, ServesLicense, ServesObligation,
        Target
  <2>4. /\ pc'[r] = IF Relates(Patch(r)) THEN "findRelated" ELSE "reload"
        /\ UNCHANGED <<rows, links, input, seen, found, ins>>
    BY <1>1, <1>8 DEF Writes, WriteLicense, WriteObligation
  <2>5. QED
    BY <1>1, <1>2, <1>3, <2>1, <2>2, <2>3, <2>4
    DEF CatRequest, CatControl, CatLocking, CatExistence, CatWritten, CatLinking, Creates,
        Updates, Deletes, Target, Patch, Wanted
<1>9. CASE Refuses(r)
  <2>1. /\ pc[r] \in {"insert", "write"} /\ pc'[r] = "reject"
        /\ UNCHANGED <<rows, links, input, seen, image, found, ins>>
    BY <1>1, <1>9 DEF Refuses, RefuseLicense, RefuseObligation, RefuseInsertion
  <2>2. QED
    BY <1>1, <1>2, <1>3, <2>1
    DEF CatRequest, CatControl, CatLocking, CatExistence, CatWritten, CatLinking, Creates,
        Updates, Deletes, Target, Patch, Wanted
<1>10. CASE Replaces(r)
  <2>1. CASE FindRelated(r)
    <3>1. /\ pc[r] = "findRelated" /\ pc'[r] = "upsert"
          /\ found'[r] = {y \in Patch(r)["related"] : rows[y] # None}
          /\ UNCHANGED <<rows, links, input, seen, image, ins>>
      BY <1>1, <2>1 DEF FindRelated
    <3>2. Patch(r)["related"] \subseteq Opposite(Target(r))
      BY <1>1, <1>3, <3>1 DEF CatRequest, CatControl, CatLocking, Relates, IsPatchOf
    <3>3. QED
      BY <1>1, <1>2, <1>3, <3>1, <3>2
      DEF CatRequest, CatControl, CatLocking, CatExistence, CatWritten, CatLinking, Creates,
          Updates, Deletes, Target, Patch, Wanted
  <2>2. CASE UpsertRelated(r)
    <3>1. /\ pc[r] = "upsert" /\ pc'[r] = "link"
          /\ UNCHANGED <<rows, links, input, seen, image, found, ins>>
      BY <1>1, <2>2 DEF UpsertRelated
    <3>2. QED
      BY <1>1, <1>2, <1>3, <3>1
      DEF CatRequest, CatControl, CatLocking, CatExistence, CatWritten, CatLinking, Creates,
          Updates, Deletes, Target, Patch, Wanted
  <2>3. CASE InsertLinks(r)
    <3>1. /\ pc[r] = "link" /\ pc'[r] = "unlink" /\ ins'[r] = Wanted(r) \ links
          /\ UNCHANGED <<rows, links, input, seen, image, found>>
      BY <1>1, <2>3 DEF InsertLinks
    <3>2. QED
      BY <1>1, <1>2, <1>3, <3>1
      DEF CatRequest, CatControl, CatLocking, CatExistence, CatWritten, CatLinking, Creates,
          Updates, Deletes, Target, Patch, Wanted
  <2>4. CASE DeleteLinks(r)
    <3>1. /\ pc[r] = "unlink" /\ pc'[r] \in {"reload", "reject"}
          /\ UNCHANGED <<rows, links, input, seen, image, found, ins>>
      BY <1>1, <2>4 DEF DeleteLinks
    <3>2. QED
      BY <1>1, <1>2, <1>3, <3>1
      DEF CatRequest, CatControl, CatLocking, CatExistence, CatWritten, CatLinking, Creates,
          Updates, Deletes, Target, Patch, Wanted
  <2>5. QED
    BY <1>10, <2>1, <2>2, <2>3, <2>4
    DEF Replaces, ReplaceObligations, ReplaceLicenses, ReplaceAssociations
<1>11. CASE Reloads(r)
  <2>1. /\ pc[r] = "reload" /\ pc'[r] = "commit"
        /\ UNCHANGED <<rows, links, input, seen, image, found, ins>>
    BY <1>1, <1>11 DEF Reloads, ReloadLicense, ReloadObligation
  <2>2. QED
    BY <1>1, <1>2, <1>3, <2>1
    DEF CatRequest, CatControl, CatLocking, CatExistence, CatWritten, CatLinking, Creates,
        Updates, Deletes, Target, Patch, Wanted
<1>12. CASE SaveAssociations(r)
  <2>1. pc[r] \in Fields /\ UNCHANGED <<rows, links, input, seen, image, found, ins>>
    BY <1>12 DEF SaveAssociations, SaveWord
  <2>2. \/ pc'[r] = IF image[r] = None THEN "insert" ELSE "write"
        \/ pc'[r] \in Fields /\ pc'[r] \in DOMAIN Patch(r)
    BY <1>1, <1>12, SaveWordGoes DEF SaveAssociations
  <2>3. QED
    BY <1>1, <1>2, <1>3, <2>1, <2>2
    DEF CatRequest, CatControl, CatLocking, CatExistence, CatWritten, CatLinking, Creates,
        Updates, Deletes, Target, Patch, Wanted
<1>13. QED
  BY <1>4, <1>5, <1>6, <1>7, <1>8, <1>9, <1>10, <1>11, <1>12

----------------------------------------------------------------------------
(* Steps that write a row: the COMMIT of a request, and the DELETE of an    *)
(* obligation.                                                              *)

\* Nobody else holds the row that r is about to write, or creates it.
LEMMA WriterAlone ==
    ASSUME CatInv, NEW r \in Requests, Commits(r) \/ DeactivateObligation(r),
           NEW q \in Requests \ {r}
    PROVE  /\ image[q] # None => Target(q) # Target(r)
           /\ Creates(q) => Target(q) # Target(r)
<1>1. /\ CatalogueTypeOK /\ CatRequest(r) /\ CatRequest(q)
      /\ CatExclusion
  BY DEF CatInv
<1>2. CASE Commits(r)
  <2>1. image[r] # None /\ (Creates(r) \/ Updates(r))
    BY <1>1, <1>2
    DEF Commits, CommitLicense, CommitObligation, Commit, CatRequest, CatLocking
  <2>2. Creates(q) => Target(q) # Target(r)
    BY <1>1, <2>1 DEF CatExclusion, CatRequest, CatExistence
  <2>3. QED
    BY <1>1, <2>1, <2>2 DEF CatExclusion
<1>3. CASE DeactivateObligation(r)
  <2>1. pc[r] = "deactivate" /\ rows[Target(r)] # None /\ Granted(r)
    BY <1>1, <1>3 DEF DeactivateObligation, CatRequest, CatExistence
  <2>2. image[q] # None => Target(q) # Target(r)
    BY <2>1 DEF Granted, Blocks, Holds, Target
  <2>3. QED
    BY <1>1, <2>1, <2>2 DEF CatRequest, CatExistence
<1>4. QED
  BY <1>2, <1>3

LEMMA WriteEffect ==
    ASSUME CatInv, NEW r \in Requests, Commits(r) \/ DeactivateObligation(r)
    PROVE  /\ Finish(r)
           /\ Target(r) \in Ids
           /\ \E row \in Row : rows' = [rows EXCEPT ![Target(r)] = row]
<1>1. CatalogueTypeOK /\ CatRequest(r)
  BY DEF CatInv
<1>2. Target(r) \in Ids
  BY <1>1, CatBodyTyped
  DEF Commits, CommitLicense, CommitObligation, DeactivateObligation, ServesLicense,
      ServesObligation
<1>3. CASE Commits(r)
  <2>1. Commit(r) /\ Finish(r)
    BY <1>3 DEF Commits, CommitLicense, CommitObligation, Commit
  <2>2. image[r] \in Row /\ rows' = [rows EXCEPT ![Target(r)] = image[r]]
    BY <1>1, <2>1 DEF Commit, CatRequest, CatLocking, CatalogueTypeOK, StoreTypeOK
  <2>3. QED
    BY <1>2, <2>1, <2>2
<1>4. CASE DeactivateObligation(r)
  <2>1. seen[r] \in Row
    BY <1>1, <1>4 DEF DeactivateObligation, CatRequest, CatControl
  <2>2. QED
    BY <1>2, <1>4, <2>1, InactiveIsRow DEF DeactivateObligation
<1>5. QED
  BY <1>3, <1>4

LEMMA WriteInv ==
    ASSUME CatInv, NEW r \in Requests, Commits(r) \/ DeactivateObligation(r),
           NEW q \in Requests \ {r}
    PROVE  CatRequest(q)'
<1>1. /\ CatalogueTypeOK /\ CatRequest(q)
      /\ image[q] # None => Target(q) # Target(r)
      /\ Creates(q) => Target(q) # Target(r)
  BY WriterAlone DEF CatInv
<1>2. OthersKept(r) /\ Target(r) \in Ids
  BY <1>1, WriteEffect, CatFinishKeepsOthers
<1>3. PICK row \in Row : rows' = [rows EXCEPT ![Target(r)] = row]
  BY WriteEffect
<1>4. \A y \in Ids : rows[y] # None => rows'[y] # None
  BY <1>1, <1>3, NoneAssumption DEF CatalogueTypeOK, StoreTypeOK
<1>5. input[q] # None =>
          /\ Target(q) \in Ids
          /\ Target(q) # Target(r) => rows'[Target(q)] = rows[Target(q)]
  BY <1>1, <1>3, CatBodyTyped DEF CatalogueTypeOK, StoreTypeOK
<1>6. CatControl(q)' /\ CatLocking(q)'
  BY <1>1, <1>2
  DEF OthersKept, CatRequest, CatControl, CatLocking, Creates, Updates, Deletes, Patch
<1>7. CatExistence(q)'
  <2>1. pc[q] \in {"preload", "merge", "deactivate"} => input[q] # None
    BY <1>1 DEF CatRequest, CatControl
  <2>2. QED
    BY <1>1, <1>2, <1>4, <1>5, <2>1
    DEF OthersKept, CatRequest, CatExistence, Creates, Updates, Target
<1>8. CatWritten(q)'
  BY <1>1, <1>2, <1>5 DEF OthersKept, CatRequest, CatWritten, Updates, Target, Patch
<1>9. CatLinking(q)'
  <2>1. \A y \in found[q] : rows'[y] # None
    BY <1>1, <1>4 DEF CatRequest, CatLinking, CatalogueTypeOK, StoreTypeOK
  <2>2. QED
    BY <1>1, <1>2, <2>1 DEF OthersKept, CatRequest, CatLinking, Target, Wanted
<1>10. QED
  BY <1>6, <1>7, <1>8, <1>9 DEF CatRequest

\* What is inserted into the join table was looked up, and rows stay.
LEMMA WriteLinks ==
    ASSUME CatInv, NEW r \in Requests, Commits(r) \/ DeactivateObligation(r)
    PROVE  NoDanglingLinks'
<1>1. CatalogueTypeOK /\ CatRequest(r) /\ NoDanglingLinks
  BY DEF CatInv
<1>2. Target(r) \in Ids
  BY WriteEffect
<1>3. PICK row \in Row : rows' = [rows EXCEPT ![Target(r)] = row]
  BY WriteEffect
<1>4. /\ rows'[Target(r)] # None
      /\ \A y \in Ids : rows[y] # None => rows'[y] # None
  BY <1>1, <1>2, <1>3, NoneAssumption DEF CatalogueTypeOK, StoreTypeOK
<1>5. \A e \in links : e[1] \in Ids /\ e[2] \in Ids
  BY <1>1 DEF CatalogueTypeOK, StoreTypeOK, Pairs, Ids
<1>6. \A e \in links : rows'[e[1]] # None /\ rows'[e[2]] # None
  BY <1>1, <1>4, <1>5 DEF NoDanglingLinks
<1>7. CASE DeactivateObligation(r)
  BY <1>6, <1>7 DEF DeactivateObligation, NoDanglingLinks
<1>8. CASE Commits(r)
  <2>1. input[r] # None /\ links' \subseteq links \cup ins[r]
    BY <1>8
    DEF Commits, CommitLicense, CommitObligation, Commit, Visible, ServesLicense,
        ServesObligation
  <2>2. ins[r] \subseteq Wanted(r) /\ \A y \in found[r] : rows[y] # None /\ y \in Ids
    BY <1>1, <2>1 DEF CatRequest, CatLinking, CatalogueTypeOK, StoreTypeOK
  <2>3. ASSUME NEW e \in Wanted(r)
        PROVE  rows'[e[1]] # None /\ rows'[e[2]] # None
    <3>1. PICK y \in found[r] : e = Pair(Target(r), y)
      BY DEF Wanted, LinksTo
    <3>2. e = <<Target(r), y>> \/ e = <<y, Target(r)>>
      BY <3>1 DEF Pair
    <3>3. QED
      BY <1>4, <2>2, <3>2
  <2>4. QED
    BY <1>6, <2>1, <2>2, <2>3 DEF NoDanglingLinks
<1>9. QED
  BY <1>7, <1>8

----------------------------------------------------------------------------
(* Exclusion. *)

LEMMA CatExclusionKept ==
    ASSUME CatInv, NEW r \in Requests, OthersKept(r),
           image'[r] # None => \A q \in Requests \ {r} : image[q] # None => Target(q) # Target(r)',
           Creates(r)' => \A q \in Requests \ {r} : Creates(q) => Target(q) # Target(r)'
    PROVE  CatExclusion'
  BY DEF CatInv, CatExclusion, OthersKept, Target, Creates

LEMMA CatExclusionStep ==
    ASSUME CatInv, NEW r \in Requests,
           \/ Receives(r)
           \/ Inserts(r) \/ Finds(r) \/ Preloads(r) \/ Merges(r) \/ Writes(r)
           \/ Refuses(r) \/ SaveAssociations(r) \/ Replaces(r) \/ Reloads(r) \/ Commits(r)
           \/ DeactivateObligation(r)
           \/ Undone(r)
    PROVE  CatExclusion'
<1> USE DEF CatalogueTypeOK, StoreTypeOK, Goto
<1>1. CatalogueTypeOK /\ CatRequest(r) /\ CatExclusion /\ OthersKept(r)
  BY CatStepKeepsOthers DEF CatInv
<1>2. CASE ReceiveCreateLicense(r) \/ ReceiveCreateObligation(r)
  <2>1. PICK x, f, l : Fresh(x) /\ Receive(r, "create", x, f, l)
    BY <1>2 DEF ReceiveCreateLicense, ReceiveCreateObligation
  <2>2. Target(r)' = x /\ image'[r] = None
    BY <1>1, <2>1 DEF Receive, Target, CatRequest, CatLocking
  <2>3. QED
    BY <1>1, <2>1, <2>2, CatExclusionKept DEF Fresh, Creates, Target
<1>3. CASE ReceiveUpdateLicense(r) \/ ReceiveUpdateObligation(r) \/ ReceiveDeleteObligation(r)
  <2>1. PICK op, x, p : op \in {"update", "delete"} /\ Receive(r, op, x, p, "find")
    BY <1>3 DEF ReceiveUpdateLicense, ReceiveUpdateObligation, ReceiveDeleteObligation
  <2>2. ~Creates(r)' /\ image'[r] = None
    BY <1>1, <2>1 DEF Receive, Creates, CatRequest, CatLocking
  <2>3. QED
    BY <1>1, <2>2, CatExclusionKept
<1>4. CASE Finish(r)
  <2>1. ~Creates(r)' /\ image'[r] = None
    BY <1>1, <1>4 DEF Finish, Creates
  <2>2. QED
    BY <1>1, <2>1, CatExclusionKept
<1>5. CASE Inserts(r)
  <2>1. Creates(r) /\ rows[Target(r)] = None /\ UNCHANGED input
    BY <1>1, <1>5
    DEF Inserts, InsertLicense, InsertObligation, CatRequest, CatControl, CatExistence
  <2>2. ASSUME NEW q \in Requests \ {r}, image[q] # None
        PROVE  Target(q) # Target(r)
    <3>1. CatRequest(q) /\ (Creates(q) \/ Updates(q))
      BY <2>2 DEF CatInv, CatRequest, CatLocking
    <3>2. QED
      BY <1>1, <2>1, <2>2, <3>1 DEF CatRequest, CatExistence, CatExclusion
  <2>3. QED
    BY <1>1, <2>1, <2>2, CatExclusionKept DEF Target, Creates, CatExclusion
<1>6. CASE Merges(r)
  <2>1. pc[r] = "merge" /\ Granted(r) /\ UNCHANGED input
    BY <1>6 DEF Merges, MergeLicenseRef, MergeObligationRef
  <2>2. Updates(r) /\ ~Creates(r)'
    BY <1>1, <2>1 DEF CatRequest, CatControl, Updates, Creates
  <2>3. \A q \in Requests \ {r} : image[q] # None => Target(q) # Target(r)
    BY <2>1 DEF Granted, Blocks, Holds, Target
  <2>4. QED
    BY <1>1, <2>1, <2>2, <2>3, CatExclusionKept DEF Target
<1>7. CASE UNCHANGED <<input, image>> \/ Writes(r)
  <2>1. UNCHANGED input /\ (image'[r] # None => image[r] # None)
    BY <1>1, <1>7 DEF Writes, WriteLicense, WriteObligation, CatRequest, CatLocking
  <2>2. QED
    BY <1>1, <2>1, CatExclusionKept DEF Target, Creates, CatExclusion
<1>8. Finds(r) \/ Preloads(r) \/ Refuses(r) \/ Reloads(r) \/ SaveAssociations(r)
          => UNCHANGED <<input, image>>
  BY DEF SaveAssociations, SaveWord, Finds, FindLicense, FindObligation, Preloads,
     PreloadObligations, PreloadLicenses,
     Refuses, RefuseLicense, RefuseObligation, RefuseInsertion, Reloads, ReloadLicense, ReloadObligation
<1>9. Replaces(r) => UNCHANGED <<input, image>>
  BY DEF Replaces, ReplaceObligations, ReplaceLicenses, ReplaceAssociations, FindRelated,
     UpsertRelated, InsertLinks, DeleteLinks
<1>10. Commits(r) \/ DeactivateObligation(r) \/ Undone(r) => Finish(r)
  BY DEF Commits, CommitLicense, CommitObligation, Commit, DeactivateObligation, Undone,
     Rollback
<1>11. QED
  BY <1>2, <1>3, <1>4, <1>5, <1>6, <1>7, <1>8, <1>9, <1>10 DEF Receives

----------------------------------------------------------------------------
(* The invariant is inductive. *)

LEMMA CatInitInv ==
    ASSUME Init
    PROVE  CatInv
<1>1. CatalogueTypeOK
  <2>1. audits \in Seq({audits[i] : i \in DOMAIN audits}) /\ DOMAIN audits = {}
    BY DEF Init
  <2>2. served \in 0..MaxRequests /\ failures \in 0..MaxFailures
    BY StoreAssumption DEF Init
  <2>3. QED
    BY <2>1, <2>2, StoreAssumption, NoChangesTyped
    DEF Init, CatalogueTypeOK, StoreTypeOK, Labels
<1>2. \A r \in Requests : CatRequest(r)
  BY DEF Init, CatRequest, CatControl, CatLocking, CatExistence, CatWritten, CatLinking,
         Creates, Updates, Deletes, Fields
<1>3. CatExclusion
  BY DEF Init, CatExclusion, Creates
<1>4. NoDanglingLinks
  BY CatalogueAssumption DEF Init, NoDanglingLinks
<1>5. QED
  BY <1>1, <1>2, <1>3, <1>4 DEF CatInv

LEMMA CatNextInv ==
    ASSUME CatInv, CatalogueNext
    PROVE  CatInv'
<1>0. /\ CatalogueTypeOK
      /\ NoDanglingLinks
      /\ \A q \in Requests : CatRequest(q)
  BY DEF CatInv
<1>1. PICK r \in Requests :
          \/ Receives(r)
          \/ Inserts(r) \/ Finds(r) \/ Preloads(r) \/ Merges(r) \/ Writes(r)
          \/ Refuses(r) \/ SaveAssociations(r) \/ Replaces(r) \/ Reloads(r) \/ Commits(r)
          \/ DeactivateObligation(r)
          \/ Undone(r)
  BY <1>0, StepsSorted
<1>2. CatExclusion' /\ OthersKept(r)
  BY <1>0, <1>1, CatExclusionStep, CatStepKeepsOthers
<1>3. CASE \/ Receives(r)
           \/ Inserts(r) \/ Finds(r) \/ Preloads(r) \/ Merges(r) \/ Writes(r)
           \/ Refuses(r) \/ SaveAssociations(r) \/ Replaces(r) \/ Reloads(r)
  <2>1. CatRequest(r)' /\ UNCHANGED <<rows, links>>
    BY <1>3, CatReceiveInv, CatOwnInv
  <2>2. CatalogueTypeOK'
    BY <1>0, <1>3, CatReceiveTyped, CatStepTyped
  <2>3. NoDanglingLinks'
    BY <1>0, <2>1 DEF NoDanglingLinks
  <2>4. \A q \in Requests \ {r} : CatRequest(q)'
    BY <1>0, <1>2, <2>1, CatOtherInv
  <2>5. QED
    BY <1>2, <2>1, <2>2, <2>3, <2>4 DEF CatInv
<1>4. CASE Commits(r) \/ DeactivateObligation(r)
  <2>1. CatRequest(r)'
    BY <1>0, <1>4, WriteEffect, CatFinishInv
  <2>2. CatalogueTypeOK'
    BY <1>4, CatStepTyped
  <2>3. QED
    BY <1>2, <1>4, <2>1, <2>2, WriteInv, WriteLinks DEF CatInv
<1>5. CASE Undone(r)
  <2>1. Finish(r) /\ UNCHANGED <<rows, links>>
    BY <1>5 DEF Undone, Rollback, tables
  <2>2. CatalogueTypeOK' /\ CatRequest(r)'
    BY <1>0, <1>5, <2>1, UndoneTyped, CatFinishInv
  <2>3. NoDanglingLinks'
    BY <1>0, <2>1 DEF NoDanglingLinks
  <2>4. \A q \in Requests \ {r} : CatRequest(q)'
    BY <1>0, <1>2, <2>1, CatOtherInv
  <2>5. QED
    BY <1>2, <2>2, <2>3, <2>4 DEF CatInv
<1>6. QED
  BY <1>1, <1>3, <1>4, <1>5

LEMMA CatStutterInv ==
    ASSUME CatInv, UNCHANGED vars
    PROVE  CatInv'
<1>1. CatalogueTypeOK' /\ NoDanglingLinks' /\ CatExclusion'
  BY DEF vars, CatInv, CatalogueTypeOK, StoreTypeOK, NoDanglingLinks, CatExclusion, Creates, Target
<1>2. \A r \in Requests : CatRequest(r)'
  <2> SUFFICES ASSUME NEW r \in Requests
               PROVE  CatRequest(r)'
    OBVIOUS
  <2>1. CatRequest(r) /\ UNCHANGED <<rows, pc, input, seen, image, found, ins>>
    BY DEF vars, CatInv
  <2>2. QED
    BY <2>1 DEF CatRequest, CatControl, CatLocking, CatExistence, CatWritten, CatLinking,
       Creates, Updates, Deletes, Target, Patch, Wanted
<1>3. QED
  BY <1>1, <1>2 DEF CatInv

\* What each request knows and holds is as its handler's code assumes, whatever
\* the requests of either kind do meanwhile.
THEOREM CatalogueInvariantHolds == CatalogueSpec => []CatInv
<1>1. Init => CatInv
  BY CatInitInv
<1>2. CatInv /\ [CatalogueNext]_vars => CatInv'
  BY CatNextInv, CatStutterInv
<1>3. QED
  BY <1>1, <1>2, PTL DEF CatalogueSpec

\* The tables, the join table, the audits and all requests keep their types: a
\* DELETE writes back a whole row, and no empty text is ever stored.
THEOREM CatalogueTypeCorrect == CatalogueSpec => []CatalogueTypeOK
<1>1. CatInv => CatalogueTypeOK
  BY DEF CatInv
<1>2. QED
  BY <1>1, CatalogueInvariantHolds, PTL

\* No association is ever between records that are not both there, whatever
\* requests replace the associations of both at once, fail or deadlock.
THEOREM JoinTableConsistent == CatalogueSpec => []NoDanglingLinks
<1>1. CatInv => NoDanglingLinks
  BY DEF CatInv
<1>2. QED
  BY <1>1, CatalogueInvariantHolds, PTL

\* UpdateObligation never holds, and so never commits, an obligation with a
\* field that somebody replaced meanwhile.
THEOREM NeverStaleObligation == CatalogueSpec => []NoStaleObligation
<1>1. ASSUME CatInv, NEW r \in Requests, image[r] # None, ServesObligation(r)
      PROVE  /\ Operation(r) = "create" => rows[Target(r)] = None
             /\ Operation(r) # "create" =>
                   image[r] \in IF pc[r] \in Fields \cup {"write"} THEN {rows[Target(r)]}
                               ELSE {rows[Target(r)],
                                     ApplyExcept(rows[Target(r)], Patch(r), {"name"})}
  <2>1. CatRequest(r) /\ (Creates(r) \/ Updates(r)) /\ ~(Creates(r) /\ Updates(r))
    BY <1>1 DEF CatInv, CatRequest, CatLocking, Creates, Updates
  <2>2. Kept(Target(r)) = {"name"}
    BY <1>1, IdsAssumption DEF Kept, ServesObligation, Target
  <2>3. Operation(r) = "create" => rows[Target(r)] = None
    BY <2>1 DEF CatRequest, CatExistence, Creates, Updates, Operation
  <2>4. Operation(r) # "create" => Updates(r)
    BY <2>1 DEF Creates, Operation
  <2>5. Updates(r) => image[r] \in IF pc[r] \in Fields \cup {"write"} THEN {rows[Target(r)]}
                               ELSE {rows[Target(r)],
                                     ApplyExcept(rows[Target(r)], Patch(r), {"name"})}
    BY <1>1, <2>1, <2>2 DEF CatRequest, CatWritten
  <2>6. QED
    BY <2>3, <2>4, <2>5
<1>2. CatInv => NoStaleObligation
  BY <1>1 DEF NoStaleObligation
<1>3. QED
  BY <1>2, CatalogueInvariantHolds, PTL

\* A deleted obligation comes back only by an UpdateObligation that asks for it:
\* neither a request that read it while it was active nor a second DELETE
\* brings it back.
THEOREM OnlyUpdatesReactivate == CatalogueSpec => ReactivatedOnlyByUpdate
<1> DEFINE Back(x) == rows[x] # None /\ ~rows[x]["active"] /\ rows'[x]["active"]
           Asked(x) == \E r \in Requests :
                          /\ pc[r] = "commit" /\ pc'[r] = "idle"
                          /\ Target(r) = x /\ "active" \in DOMAIN Patch(r) /\ Patch(r)["active"]
<1>1. ASSUME CatInv, [CatalogueNext]_vars, NEW x \in ObligationIds, Back(x)
      PROVE  Asked(x)
  <2>1. CatalogueTypeOK /\ rows' # rows
    BY <1>1 DEF CatInv
  <2>2. PICK r \in Requests : Commits(r) \/ DeactivateObligation(r)
    <3>1. CatalogueNext
      BY <1>1, <2>1 DEF vars
    <3>2. PICK r \in Requests :
              \/ Receives(r)
              \/ Inserts(r) \/ Finds(r) \/ Preloads(r) \/ Merges(r) \/ Writes(r)
              \/ Refuses(r) \/ SaveAssociations(r) \/ Replaces(r) \/ Reloads(r) \/ Commits(r)
              \/ DeactivateObligation(r)
              \/ Undone(r)
      BY <2>1, <3>1, StepsSorted
    <3>3. Undone(r) => UNCHANGED rows
      BY DEF Undone, Rollback, tables
    <3>4. QED
      BY <1>1, <2>1, <3>2, <3>3, CatReceiveInv, CatOwnInv
  <2>3. CatRequest(r) /\ pc \in [Requests -> Labels] /\ rows \in [Ids -> Row \cup {None}] /\ x \in Ids
    BY <1>1 DEF CatInv, CatalogueTypeOK, StoreTypeOK, Ids
  <2>4. CASE DeactivateObligation(r)
    <3>1. seen[r] \in Row
      BY <2>3, <2>4 DEF DeactivateObligation, CatRequest, CatControl
    <3>2. rows'[x] = rows[x] \/ rows'[x] = [seen[r] EXCEPT !["active"] = FALSE]
      BY <2>3, <2>4 DEF DeactivateObligation
    <3>3. QED
      BY <1>1, <3>1, <3>2, InactiveIsRow
  <2>5. CASE Commits(r)
    <3>1. Commit(r) /\ pc[r] = "commit" /\ pc'[r] = "idle"
      BY <2>3, <2>5 DEF Commits, CommitLicense, CommitObligation, Commit, Finish
    <3>2. rows' = [rows EXCEPT ![Target(r)] = image[r]]
      BY <3>1 DEF Commit
    <3>3. Target(r) = x /\ image[r] = rows'[x]
      BY <1>1, <2>3, <3>2
    <3>4. Updates(r) /\ image[r] # None
      BY <1>1, <2>3, <3>1, <3>3 DEF CatRequest, CatLocking, CatExistence
    <3>5. image[r] = ApplyExcept(rows[x], Patch(r), Kept(x))
      BY <2>3, <3>1, <3>3, <3>4 DEF CatRequest, CatWritten, Fields
    <3>6. "active" \in DOMAIN Patch(r) /\ Patch(r)["active"]
      BY <1>1, <3>3, <3>5 DEF ApplyExcept, Columns
    <3>7. QED
      BY <3>1, <3>3, <3>6
  <2>6. QED
    BY <2>2, <2>4, <2>5
<1>2. CatInv /\ [CatalogueNext]_vars => [\A x \in ObligationIds : Back(x) => Asked(x)]_vars
  BY <1>1
<1>3. QED
  BY <1>2, CatalogueInvariantHolds, PTL DEF CatalogueSpec, ReactivatedOnlyByUpdate

----------------------------------------------------------------------------
(* Who waits for whom. *)

\* A request begins and ends without pairs, and the two statements that make
\* some work on its own record.
LEMMA CatPairsStep ==
    ASSUME CatInv, CatInv', NEW r \in Requests, CatPairs(r),
           \/ Receives(r)
           \/ Inserts(r) \/ Finds(r) \/ Preloads(r) \/ Merges(r) \/ Writes(r)
           \/ Refuses(r) \/ SaveAssociations(r) \/ Replaces(r) \/ Reloads(r) \/ Commits(r)
           \/ DeactivateObligation(r)
           \/ Undone(r)
    PROVE  CatPairs(r)'
<1> USE DEF CatalogueTypeOK, StoreTypeOK, Goto
<1>1. CatalogueTypeOK /\ CatRequest(r) /\ CatRequest(r)'
  BY DEF CatInv
<1>2. CASE Commits(r) \/ DeactivateObligation(r) \/ Undone(r)
  <2>1. Finish(r)
    BY <1>2 DEF Commits, CommitLicense, CommitObligation, Commit, DeactivateObligation, Undone,
       Rollback
  <2>2. QED
    BY <1>1, <2>1 DEF Finish, CatPairs
<1>3. CASE Receives(r)
  <2>1. image[r] = None /\ UNCHANGED <<image, ins, del>>
    BY <1>1, <1>3 DEF Receives, ReceiveCreateLicense, ReceiveUpdateLicense,
       ReceiveCreateObligation, ReceiveUpdateObligation, ReceiveDeleteObligation, Receive,
       CatRequest, CatLocking
  <2>2. QED
    BY <2>1 DEF CatPairs
<1>4. CASE \/ Inserts(r) \/ Finds(r) \/ Preloads(r) \/ Merges(r) \/ Refuses(r)
           \/ SaveAssociations(r) \/ Reloads(r)
  <2>1. UNCHANGED <<input, ins, del>> /\ (image[r] # None => image'[r] = image[r])
    BY <1>1, <1>4 DEF Inserts, InsertLicense, InsertObligation, Finds, FindLicense,
       FindObligation, Preloads, PreloadObligations, PreloadLicenses, Merges, MergeLicenseRef,
       MergeObligationRef, Refuses, RefuseLicense, RefuseObligation, RefuseInsertion,
       Reloads, ReloadLicense,
       ReloadObligation, SaveAssociations, SaveWord, CatRequest, CatLocking
  <2>2. QED
    BY <2>1 DEF CatPairs, Target
<1>5. CASE Writes(r)
  <2>1. UNCHANGED <<input, ins, del>> /\ image[r] # None
    BY <1>1, <1>5 DEF Writes, WriteLicense, WriteObligation, CatRequest, CatLocking
  <2>2. image'[r] # None
    BY <1>1, <1>5 DEF Writes, WriteLicense, WriteObligation, CatRequest, CatLocking
  <2>3. QED
    BY <2>1, <2>2 DEF CatPairs, Target
<1>6. CASE Replaces(r)
  <2>1. /\ UNCHANGED <<input, image, links>>
        /\ image[r] # None /\ input[r] # None
        /\ ins'[r] \in {ins[r], Wanted(r) \ links}
        /\ del'[r] \in {del[r], Stale(r)}
    BY <1>1, <1>6 DEF Replaces, ReplaceObligations, ReplaceLicenses, ReplaceAssociations,
       FindRelated, UpsertRelated, InsertLinks, DeleteLinks, tables, CatRequest, CatLocking,
       CatControl, ServesLicense, ServesObligation
  <2>2. Target(r) \in Ids /\ found[r] \subseteq Opposite(Target(r))
    BY <1>1, <2>1, CatBodyTyped DEF CatRequest, CatLinking
  <2>3. /\ Wanted(r) \subseteq LinksTo(Target(r), Opposite(Target(r)))
        /\ Stale(r) \subseteq LinksTo(Target(r), Opposite(Target(r)))
    BY <2>2, LinksOfEither DEF Wanted, Stale, LinksTo
  <2>4. QED
    BY <2>1, <2>3 DEF CatPairs, Target
<1>7. QED
  BY <1>2, <1>3, <1>4, <1>5, <1>6

\* A request inserts its words in the order of the fields.
LEMMA CatWordsStep ==
    ASSUME CatInv, NEW r \in Requests, CatWords(r),
           \/ Receives(r)
           \/ Inserts(r) \/ Finds(r) \/ Preloads(r) \/ Merges(r) \/ Writes(r)
           \/ Refuses(r) \/ SaveAssociations(r) \/ Replaces(r) \/ Reloads(r) \/ Commits(r)
           \/ DeactivateObligation(r)
           \/ Undone(r)
    PROVE  CatWords(r)'
<1> USE DEF CatalogueTypeOK, StoreTypeOK, Goto
<1>1. CatalogueTypeOK /\ CatRequest(r)
  BY DEF CatInv
<1>2. CASE Commits(r) \/ DeactivateObligation(r) \/ Undone(r)
  <2>1. Finish(r)
    BY <1>2 DEF Commits, CommitLicense, CommitObligation, Commit, DeactivateObligation, Undone,
       Rollback
  <2>2. QED
    BY <1>1, <2>1 DEF Finish, CatWords, Fields
<1>3. CASE Receives(r)
  <2>1. entered[r] = {} /\ UNCHANGED entered
    BY <1>1, <1>3 DEF Receives, ReceiveCreateLicense, ReceiveUpdateLicense,
       ReceiveCreateObligation, ReceiveUpdateObligation, ReceiveDeleteObligation, Receive,
       CatWords
  <2>2. CASE ReceiveCreateObligation(r)
    <3>1. PICK x \in ObligationIds, f \in ObligationForms :
              Receive(r, "create", x, f, NextSave("create", f, 0, "insert"))
      BY <2>2 DEF ReceiveCreateObligation
    <3>2. input'[r] = [op |-> "create", id |-> x, patch |-> f] /\ input'[r] # None
      BY <1>1, <3>1, ObligationInputAssumption DEF Receive, ObligationInputs
    <3>3. QED
      BY <2>1, <3>2 DEF CatWords, ServesObligation
  <2>3. CASE ~ReceiveCreateObligation(r)
    <3>1. pc'[r] \in {"insert", "find"}
      BY <1>1, <1>3, <2>3 DEF Receives, ReceiveCreateLicense, ReceiveUpdateLicense,
         ReceiveUpdateObligation, ReceiveDeleteObligation, Receive
    <3>2. QED
      BY <2>1, <3>1 DEF CatWords, Fields
  <2>4. QED
    BY <2>2, <2>3
<1>4. CASE \/ Inserts(r) \/ Finds(r) \/ Preloads(r) \/ Writes(r) \/ Refuses(r)
           \/ Replaces(r) \/ Reloads(r)
  <2>1. UNCHANGED <<input, entered>>
    BY <1>4 DEF Inserts, InsertLicense, InsertObligation, Finds, FindLicense, FindObligation,
       Preloads, PreloadObligations, PreloadLicenses, Writes, WriteLicense, WriteObligation,
       Refuses, RefuseLicense, RefuseObligation, RefuseInsertion, Reloads, ReloadLicense,
       ReloadObligation, Replaces, ReplaceObligations, ReplaceLicenses, ReplaceAssociations,
       FindRelated, UpsertRelated, InsertLinks, DeleteLinks
  <2>2. /\ pc'[r] \notin Fields \cup {"idle", "find"}
        /\ pc'[r] \in {"preload", "merge", "deactivate"} => pc[r] \in {"find", "preload"}
    <3>1. CASE Inserts(r) \/ Finds(r) \/ Preloads(r)
      BY <1>1, <3>1 DEF Inserts, InsertLicense, InsertObligation, Finds, FindLicense,
         FindObligation, Preloads, PreloadObligations, PreloadLicenses, Fields
    <3>2. CASE Writes(r) \/ Refuses(r) \/ Reloads(r)
      BY <1>1, <3>2 DEF Writes, WriteLicense, WriteObligation, Refuses, RefuseLicense,
         RefuseObligation, RefuseInsertion, Reloads, ReloadLicense, ReloadObligation, Fields
    <3>3. CASE Replaces(r)
      BY <1>1, <3>3 DEF Replaces, ReplaceObligations, ReplaceLicenses, ReplaceAssociations,
         FindRelated, UpsertRelated, InsertLinks, DeleteLinks, Fields
    <3>4. QED
      BY <1>4, <3>1, <3>2, <3>3
  <2>3. QED
    BY <2>1, <2>2 DEF CatWords, ServesObligation
<1>5. CASE Merges(r)
  <2>1. UNCHANGED <<input, entered>> /\ entered[r] = {}
    BY <1>1, <1>5 DEF Merges, MergeLicenseRef, MergeObligationRef, CatWords
  <2>2. pc'[r] = "write" \/ (ServesObligation(r) /\ pc'[r] = NextSave("update", Patch(r), 0, "write"))
    BY <1>1, <1>5 DEF Merges, MergeLicenseRef, MergeObligationRef
  <2>3. pc'[r] = "write" \/ (ServesObligation(r) /\ pc'[r] \in Fields)
    BY <2>2, NextSaveLater
  <2>4. QED
    BY <2>1, <2>3 DEF CatWords, ServesObligation, Fields
<1>6. CASE SaveAssociations(r)
  <2> DEFINE place(f) == SavePlace(Operation(r))[f]
  <2>1. pc[r] \in Fields /\ ServesObligation(r) /\ UNCHANGED input
    BY <1>6 DEF SaveAssociations, SaveWord
  <2>2. \/ pc'[r] = IF image[r] = None THEN "insert" ELSE "write"
        \/ pc'[r] \in Fields /\ place(pc'[r]) > place(pc[r])
    BY <1>1, <1>6, SaveWordGoes DEF SaveAssociations, Operation
  <2>3. entered'[r] \subseteq entered[r] \cup {Word(r, pc[r])}
    BY <1>1, <1>6 DEF SaveAssociations, SaveWord
  <2>4. \A f \in Fields : place(f) \in Nat
    BY DEF SavePlace, Fields
  <2>5. \A w \in entered'[r] : w[1] \in Fields /\ place(w[1]) <= place(pc[r])
    BY <1>1, <2>1, <2>3, <2>4 DEF CatWords, Word
  <2>6. pc'[r] \in Fields => \A w \in entered'[r] : place(w[1]) < place(pc'[r])
    <3> HIDE DEF place
    <3>1. pc'[r] \in Fields => place(pc'[r]) > place(pc[r])
      BY <2>2 DEF Fields
    <3>2. QED
      BY <2>1, <2>4, <2>5, <3>1
  <2>7. QED
    BY <2>1, <2>2, <2>6 DEF CatWords, ServesObligation, Operation, Fields
<1>7. QED
  BY <1>2, <1>3, <1>4, <1>5, <1>6

\* The invariant together with the pairs and the words.
CatLockInv == CatInv /\ \A r \in Requests : CatPairs(r) /\ CatWords(r)

LEMMA CatPairsNext ==
    ASSUME CatLockInv, [CatalogueNext]_vars
    PROVE  CatLockInv'
<1>1. CatInv /\ CatalogueTypeOK /\ \A q \in Requests : CatPairs(q) /\ CatWords(q)
  BY DEF CatLockInv, CatInv
<1>2. CatInv'
  BY <1>1, CatNextInv, CatStutterInv
<1>3. CASE UNCHANGED vars
  BY <1>1, <1>2, <1>3 DEF vars, CatLockInv, CatPairs, CatWords, ServesObligation,
     Operation, Target
<1>4. CASE CatalogueNext
  <2>1. PICK r \in Requests :
            \/ Receives(r)
            \/ Inserts(r) \/ Finds(r) \/ Preloads(r) \/ Merges(r) \/ Writes(r)
            \/ Refuses(r) \/ SaveAssociations(r) \/ Replaces(r) \/ Reloads(r) \/ Commits(r)
            \/ DeactivateObligation(r)
            \/ Undone(r)
    BY <1>1, <1>4, StepsSorted
  <2>2. CatPairs(r)' /\ CatWords(r)' /\ OthersKept(r)
    BY <1>1, <1>2, <2>1, CatPairsStep, CatWordsStep, CatStepKeepsOthers
  <2>3. ASSUME NEW q \in Requests \ {r} PROVE CatPairs(q)' /\ CatWords(q)'
    BY <1>1, <2>2 DEF OthersKept, CatPairs, CatWords, ServesObligation, Operation, Target
  <2>4. QED
    BY <1>2, <2>2, <2>3 DEF CatLockInv
<1>5. QED
  BY <1>3, <1>4

LEMMA CatLocksHold == CatalogueSpec => []CatLockInv
<1>1. Init => CatLockInv
  BY CatInitInv DEF Init, CatLockInv, CatPairs, CatWords, Fields
<1>2. CatLockInv /\ [CatalogueNext]_vars => CatLockInv'
  BY CatPairsNext
<1>3. QED
  BY <1>1, <1>2, PTL DEF CatalogueSpec

\* Pairs of two records of one kind are different pairs.
LEMMA PairsOfOneKind ==
    ASSUME NEW x \in Ids, NEW z \in Ids, x # z, x \in LicenseIds <=> z \in LicenseIds,
           NEW S, NEW T
    PROVE  LinksTo(x, S) \cap LinksTo(z, T) = {}
  BY DEF LinksTo, Pair

\* What a request that holds its row may wait for: another row holder, whose
\* record is of the other kind.
LEMMA WaitsAcross ==
    ASSUME NEW q \in Requests, NEW r \in Requests,
           Blocks(q, r), CatPairs(q),
           pc[r] \notin {"insert", "merge", "deactivate"} \cup Fields,
           Target(r) \in Ids, found[r] \subseteq Opposite(Target(r)),
           image[q] # None => Target(q) \in Ids /\ Target(q) # Target(r)
    PROVE  image[q] # None /\ (Target(q) \in LicenseIds <=> Target(r) \in ObligationIds)
<1>1. CASE pc[r] = "upsert" /\ \E y \in found[r] : Holds(q, y)
  BY <1>1, IdsAssumption DEF Holds, Target, Opposite, Ids
<1>2. CASE Wanted(r) \cap (ins[q] \cup del[q]) # {} \/ Stale(r) \cap del[q] # {}
  <2>1. image[q] # None
    BY <1>2 DEF CatPairs
  <2>2. LinksTo(Target(r), found[r] \cup RelatedTo(Target(r), links))
            \cap LinksTo(Target(q), Opposite(Target(q))) # {}
    BY <1>2, <2>1 DEF CatPairs, Wanted, Stale, LinksTo
  <2>3. ~(Target(q) \in LicenseIds <=> Target(r) \in LicenseIds)
    BY <2>1, <2>2, PairsOfOneKind
  <2>4. QED
    BY <2>1, <2>3, IdsAssumption DEF Ids
<1>3. QED
  BY <1>1, <1>2 DEF Blocks

\* In a smallest circle, every member waits for a member and is waited for by one.
LEMMA CircleMembers ==
    ASSUME NEW S, WaitInCircle(S), NEW r \in S
    PROVE  /\ \E q \in S \ {r} : Blocks(q, r)
           /\ \E p \in S \ {r} : Blocks(r, p)
<1> DEFINE stuck(T) == T # {} /\ \A t \in T : \E q \in T \ {t} : Blocks(q, t)
           W == {q \in S : \E p \in S \ {q} : Blocks(q, p)}
<1>1. stuck(S) /\ \A T \in SUBSET S : stuck(T) => T = S
  BY DEF WaitInCircle
<1>2. \A t \in S : \E q \in W \ {t} : Blocks(q, t)
  BY <1>1
<1>3. stuck(W) /\ W \in SUBSET S
  BY <1>1, <1>2
<1>4. r \in W
  <2> HIDE DEF W
  <2>1. W = S
    BY <1>1, <1>3
  <2>2. QED
    BY <2>1
<1>5. \E p \in S \ {r} : Blocks(r, p)
  BY <1>4
<1>6. QED
  BY <1>1, <1>5

\* Whoever is in a circle of one kind saves a field that somebody else in it has
\* saved: a request that waits for a row has nothing that others wait for, and one
\* that replaces associations waits for the other kind.
LEMMA CircleOfOneKind ==
    ASSUME CatLockInv, NEW S \in SUBSET Requests, WaitInCircle(S),
           ~ \E q, r \in S : ServesLicense(q) /\ ServesObligation(r),
           NEW r \in S
    PROVE  /\ pc[r] \in Fields
           /\ \E q \in S : \E w \in entered[q] : w[1] = pc[r]
<1>1. PICK q \in S \ {r} : Blocks(q, r)
  BY CircleMembers
<1>2. PICK p \in S \ {r} : Blocks(r, p)
  BY CircleMembers
<1>3. /\ CatalogueTypeOK /\ CatRequest(q) /\ CatRequest(r) /\ CatPairs(q) /\ CatPairs(r)
      /\ CatWords(r)
      /\ image[q] # None /\ image[r] # None => Target(q) # Target(r)
      /\ Creates(q) /\ Creates(r) => Target(q) # Target(r)
  BY DEF CatLockInv, CatInv, CatExclusion
<1>4. pc[r] \notin {"merge", "deactivate"}
  <2>1. image[r] # None \/ entered[r] # {}
    BY <1>2, <1>3 DEF Blocks, Holds, CatPairs
  <2>2. QED
    BY <1>3, <2>1 DEF CatRequest, CatLocking, CatWords
<1>5. ~(pc[r] = "insert" /\ Holds(q, Target(r)))
  <2>1. image[q] # None => Creates(q) \/ (Updates(q) /\ rows[Target(q)] # None)
    BY <1>3 DEF CatRequest, CatLocking, CatExistence
  <2>2. pc[r] = "insert" => Creates(r) /\ rows[Target(r)] = None
    BY <1>3 DEF CatRequest, CatControl, CatExistence
  <2>3. QED
    BY <1>3, <2>1, <2>2 DEF Holds, Target
<1>6. CASE pc[r] \in {"upsert", "link", "unlink"}
  <2>1. /\ image[r] # None
        /\ input[r] # None /\ (image[q] # None => input[q] # None)
    BY <1>3, <1>6 DEF CatRequest, CatLocking, Creates, Updates
  <2>2. Target(r) \in Ids /\ (image[q] # None => Target(q) \in Ids)
    BY <1>3, <2>1, CatBodyTyped
  <2>3. pc[r] \notin {"insert", "merge", "deactivate"} \cup Fields
    BY <1>6 DEF Fields
  <2>4. image[q] # None /\ (Target(q) \in LicenseIds <=> Target(r) \in ObligationIds)
    BY <1>1, <1>3, <2>1, <2>2, <2>3, WaitsAcross DEF CatRequest, CatLinking
  <2>5. \/ ServesLicense(q) /\ ServesObligation(r)
        \/ ServesLicense(r) /\ ServesObligation(q)
    BY <2>1, <2>2, <2>4, IdsAssumption DEF ServesLicense, ServesObligation, Target, Ids
  <2>6. QED
    BY <2>5
<1>7. CASE pc[r] \notin {"upsert", "link", "unlink"}
  <2>1. pc[r] \in Fields /\ \E w \in entered[q] : Meets(w, Word(r, pc[r]))
    BY <1>1, <1>4, <1>5, <1>7 DEF Blocks
  <2>2. \E w \in entered[q] : w[1] = pc[r]
    BY <2>1 DEF Meets, Word
  <2>3. QED
    BY <2>1, <2>2
<1>8. QED
  BY <1>6, <1>7

\* The licence requests alone, or the obligation requests alone, never deadlock:
\* whoever waits in such a circle saves a field, and waits for somebody who saves
\* a later one.
THEOREM DeadlocksAreAcross == CatalogueSpec => []DeadlockNeedsBothKinds
<1>1. ASSUME CatLockInv, NEW S \in SUBSET Requests, WaitInCircle(S)
      PROVE  \E q, r \in S : ServesLicense(q) /\ ServesObligation(r)
  <2> SUFFICES ASSUME ~ \E q, r \in S : ServesLicense(q) /\ ServesObligation(r)
               PROVE  FALSE
    OBVIOUS
  <2> DEFINE place == [type |-> 1, classification |-> 2, category |-> 3]
  <2>1. ASSUME NEW r \in S
        PROVE  pc[r] \in Fields /\ \E q \in S : place[pc[r]] < place[pc[q]]
    <3>1. pc[r] \in Fields
      BY <1>1, CircleOfOneKind
    <3>2. PICK q \in S : \E w \in entered[q] : w[1] = pc[r]
      BY <1>1, CircleOfOneKind
    <3>3. PICK w \in entered[q] : w[1] = pc[r]
      BY <3>2
    <3>4. pc[q] \in Fields /\ CatWords(q)
      BY <1>1, CircleOfOneKind DEF CatLockInv
    <3>5. place[w[1]] < place[pc[q]]
      BY <3>3, <3>4 DEF CatWords, SavePlace
    <3>6. QED
      BY <3>1, <3>3, <3>5
  <2>2. \A r \in S : pc[r] # "category"
    BY <2>1 DEF Fields
  <2>3. \A r \in S : pc[r] # "classification"
    BY <2>1, <2>2 DEF Fields
  <2>4. \A r \in S : pc[r] # "type"
    BY <2>1, <2>2, <2>3 DEF Fields
  <2>5. S # {}
    BY <1>1 DEF WaitInCircle
  <2>6. QED
    BY <2>1, <2>2, <2>3, <2>4, <2>5 DEF Fields
<1>2. CatLockInv => DeadlockNeedsBothKinds
  BY <1>1 DEF DeadlockNeedsBothKinds
<1>3. QED
  BY <1>2, CatLocksHold, PTL
=============================================================================
