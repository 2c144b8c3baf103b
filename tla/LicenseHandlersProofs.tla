----------------------- MODULE LicenseHandlersProofs -----------------------
(****************************************************************************)
(* The licence handlers keep their types, never work on a stale version of  *)
(* a licence, implement the registry, and never deadlock among themselves,  *)
(* for every set of licences, obligations, request bodies and goroutines.   *)
(****************************************************************************)
EXTENDS LicenseInvariant, SequenceTheorems, TLAPS

(* Rows and patches. *)

\* Values stored by an UPDATE have the type of their column.
LEMMA ApplyKeepsRow ==
    ASSUME NEW row \in Row, NEW x, NEW p, IsPatchOf(p, x), ~HasEmptyText(p)
    PROVE  Apply(row, p) \in Row
<1> DEFINE a == Apply(row, p)
<1>1. \A c \in Columns : a[c] \in ValuesOf(c)
  BY DEF Apply, ApplyExcept, Row, IsPatchOf, HasEmptyText
<1>2. \A c \in Columns : ValuesOf(c) \subseteq Names \cup Texts \cup BOOLEAN
  BY DEF ValuesOf
<1>3. a \in [Columns -> Names \cup Texts \cup BOOLEAN]
  <2>1. a = [c \in Columns |-> a[c]]
    BY DEF Apply, ApplyExcept
  <2> HIDE DEF a
  <2>2. QED
    BY <1>1, <1>2, <2>1
<1>4. QED
  BY <1>1, <1>3 DEF Row

\* A form gives a row, and has no empty text.
LEMMA FormGivesRow ==
    ASSUME NEW x, NEW f, IsFormOf(f, x)
    PROVE  Apply(BlankRow, f) \in Row /\ ~HasEmptyText(f) /\ Relates(f)
<1> DEFINE a == Apply(BlankRow, f)
<1>1. \A c \in Columns : a[c] \in ValuesOf(c)
  BY DEF Apply, ApplyExcept, IsFormOf
<1>2. \A c \in Columns : ValuesOf(c) \subseteq Names \cup Texts \cup BOOLEAN
  BY DEF ValuesOf
<1>3. a \in [Columns -> Names \cup Texts \cup BOOLEAN]
  <2>1. a = [c \in Columns |-> a[c]]
    BY DEF Apply, ApplyExcept
  <2> HIDE DEF a
  <2>2. QED
    BY <1>1, <1>2, <2>1
<1>4. ~HasEmptyText(f)
  BY NoneAssumption DEF HasEmptyText, IsFormOf, ValuesOf, Columns
<1>5. QED
  BY <1>1, <1>3, <1>4 DEF Row, Relates, IsFormOf

\* What a change log may hold of a row and its associations.
LEMMA SnapshotTyped ==
    ASSUME NEW row \in Row \cup {BlankRow}, NEW S \in SUBSET Ids, NEW c \in AuditedColumns
    PROVE  Snapshot(row, S)[c] \in AuditValues(c)
  BY DEF Snapshot, AuditedColumns, AuditValues, Row, BlankRow, ValuesOf, Columns

LEMMA ChangeLogTyped ==
    ASSUME NEW old, NEW new,
           \A c \in AuditedColumns : old[c] \in AuditValues(c) /\ new[c] \in AuditValues(c)
    PROVE  IsChangeLog(ChangeLog(old, new))
  BY DEF IsChangeLog, ChangeLog

LEMMA NoChangesTyped == IsChangeLog(NoChanges)
  BY DEF IsChangeLog, NoChanges

LEMMA LinksTyped ==
    ASSUME NEW x \in LicenseIds, NEW S
    PROVE  /\ S \subseteq ObligationIds => LinksTo(x, S) \subseteq Pairs
           /\ RelatedTo(x, S) \subseteq ObligationIds
  BY DEF LinksTo, Pairs, Pair, RelatedTo, Opposite

LEMMA BodyTyped ==
    ASSUME LicenseTypeOK, NEW r \in Requests, ServesLicense(r)
    PROVE  /\ input[r] \in LicenseInputs
           /\ Target(r) \in LicenseIds
           /\ IsPatchOf(Patch(r), Target(r))
           /\ Creates(r) => IsFormOf(Patch(r), Target(r))
           /\ Creates(r) \/ Updates(r)
           /\ ~(Creates(r) /\ Updates(r))
  BY LicenseInputAssumption
  DEF LicenseTypeOK, StoreTypeOK, ServesLicense, LicenseInputs, Target, Patch, IsFormOf,
      Creates, Updates

----------------------------------------------------------------------------
(* Types. *)

LEMMA FinishTyped ==
    ASSUME LicenseTypeOK, NEW r \in Requests, Finish(r)
    PROVE  /\ pc' \in [Requests -> Labels]
           /\ input' \in [Requests -> LicenseInputs \cup {None}]
           /\ seen' \in [Requests -> Row \cup {None, BlankRow}]
           /\ linked' \in [Requests -> SUBSET Ids]
           /\ image' \in [Requests -> Row \cup {None}]
           /\ found' \in [Requests -> SUBSET Ids]
           /\ ins' \in [Requests -> SUBSET Pairs]
           /\ del' \in [Requests -> SUBSET Pairs]
           /\ entered' \in [Requests -> SUBSET (Fields \X Words)]
           /\ DOMAIN note' = Requests /\ \A q \in Requests : IsChangeLog(note'[q])
  BY NoChangesTyped DEF LicenseTypeOK, StoreTypeOK, Finish, Labels

LEMMA RollbackTyped ==
    ASSUME LicenseTypeOK, NEW r \in Requests, Rollback(r),
           reply' \in [Requests -> {"none", "ok", "rejected"}],
           served' \in 0..MaxRequests, failures' \in 0..MaxFailures
    PROVE  LicenseTypeOK'
  BY FinishTyped DEF LicenseTypeOK, StoreTypeOK, Rollback, tables

LEMMA ReceiveTyped ==
    ASSUME LicenseTypeOK, NEW r \in Requests,
           ReceiveCreateLicense(r) \/ ReceiveUpdateLicense(r)
    PROVE  LicenseTypeOK'
<1>1. PICK op, x, p, l :
        /\ [op |-> op, id |-> x, patch |-> p] \in LicenseInputs
        /\ l \in {"insert", "find"}
        /\ Receive(r, op, x, p, l)
  BY DEF ReceiveCreateLicense, ReceiveUpdateLicense, LicenseInputs
<1>2. served' \in 0..MaxRequests
  BY <1>1, StoreAssumption DEF Receive, LicenseTypeOK, StoreTypeOK
<1>3. QED
  BY <1>1, <1>2 DEF Receive, Goto, tables, LicenseTypeOK, StoreTypeOK, Labels

LEMMA StepTyped ==
    ASSUME IInv, NEW r \in Requests, LicenseStep(r)
    PROVE  LicenseTypeOK'
<1> USE DEF tables, bounds
<1> LicenseTypeOK
  BY DEF IInv
<1>0. ServesLicense(r)
  BY DEF LicenseStep, InsertLicense, FindLicense, PreloadObligations, MergeLicenseRef,
         WriteLicense, RefuseLicense, ReplaceObligations, ReloadLicense, CommitLicense,
         RejectLicense
<1>a. /\ Target(r) \in LicenseIds
      /\ Target(r) \in Ids
      /\ IsPatchOf(Patch(r), Target(r))
      /\ Creates(r) => IsFormOf(Patch(r), Target(r))
  BY <1>0, BodyTyped DEF Ids
<1>b. Control(r) /\ Locking(r) /\ Linking(r)
  BY DEF IInv, RequestInv
<1>1. CASE InsertLicense(r)
  <2>1. Apply(BlankRow, Patch(r)) \in Row
    BY <1>1, <1>a, <1>b, FormGivesRow DEF InsertLicense, Goto, Control
  <2>2. QED
    BY <1>1, <2>1 DEF InsertLicense, Goto, LicenseTypeOK, StoreTypeOK, Labels
<1>2. CASE FindLicense(r)
  BY <1>2, <1>a DEF FindLicense, Goto, LicenseTypeOK, StoreTypeOK, Labels
<1>3. CASE PreloadObligations(r)
  <2>1. RelatedTo(Target(r), links) \in SUBSET Ids
    BY <1>a, LinksTyped DEF Ids
  <2>2. QED
    BY <1>3, <2>1 DEF PreloadObligations, Goto, LicenseTypeOK, StoreTypeOK, Labels
<1>4. CASE MergeLicenseRef(r)
  BY <1>4, <1>a DEF MergeLicenseRef, Goto, LicenseTypeOK, StoreTypeOK, Labels
<1>5. CASE WriteLicense(r)
  <2>1. image[r] \in Row
    BY <1>5, <1>b DEF WriteLicense, Goto, Locking, LicenseTypeOK, StoreTypeOK
  <2>2. Apply(image[r], Patch(r)) \in Row
    BY <1>5, <1>a, <2>1, ApplyKeepsRow DEF WriteLicense
  <2>3. QED
    BY <1>5, <2>2 DEF WriteLicense, Goto, LicenseTypeOK, StoreTypeOK, Labels
<1>6. CASE RefuseLicense(r)
  BY <1>6 DEF RefuseLicense, Goto, LicenseTypeOK, StoreTypeOK, Labels
<1>7. CASE ReplaceObligations(r)
  <2>1. CASE FindRelated(r)
    <3>1. Patch(r)["related"] \subseteq Ids
      BY <2>1, <1>a, <1>b DEF FindRelated, Goto, Control, Relates, IsPatchOf, Opposite, Ids
    <3>2. QED
      BY <2>1, <3>1 DEF FindRelated, Goto, LicenseTypeOK, StoreTypeOK, Labels
  <2>2. CASE UpsertRelated(r)
    BY <2>2 DEF UpsertRelated, Goto, LicenseTypeOK, StoreTypeOK, Labels
  <2>3. CASE InsertLinks(r)
    <3>1. found[r] \subseteq ObligationIds
      BY <2>3, <1>a, <1>b DEF InsertLinks, Goto, Control, Relates, IsPatchOf, Opposite, Linking
    <3>2. Wanted(r) \subseteq Pairs
      BY <1>a, <3>1, LinksTyped DEF Wanted
    <3>3. QED
      BY <2>3, <3>2 DEF InsertLinks, Goto, LicenseTypeOK, StoreTypeOK, Labels
  <2>4. CASE DeleteLinks(r)
    <3>1. Stale(r) \subseteq Pairs
      BY <1>a, LinksTyped DEF Stale
    <3>2. QED
      BY <2>4, <3>1 DEF DeleteLinks, Goto, LicenseTypeOK, StoreTypeOK, Labels
  <2>5. QED
    BY <1>7, <2>1, <2>2, <2>3, <2>4 DEF ReplaceObligations, ReplaceAssociations
<1>8. CASE ReloadLicense(r)
  <2>1. /\ seen[r] \in Row \cup {BlankRow}
        /\ image[r] \in Row \cup {BlankRow}
        /\ linked[r] \in SUBSET Ids
    BY <1>8, <1>b DEF ReloadLicense, Goto, Control, Locking, LicenseTypeOK, StoreTypeOK
  <2>2. RelatedTo(Target(r), Visible(r)) \in SUBSET Ids
    BY <1>a, LinksTyped DEF Ids
  <2>3. IsChangeLog(ChangeLog(Snapshot(seen[r], linked[r]),
                              Snapshot(image[r], RelatedTo(Target(r), Visible(r)))))
    BY <2>1, <2>2, SnapshotTyped, ChangeLogTyped
  <2>4. DOMAIN note' = Requests /\ \A q \in Requests : IsChangeLog(note'[q])
    BY <1>8, <2>3 DEF ReloadLicense, WriteChangeLog, LicenseTypeOK, StoreTypeOK
  <2>5. QED
    BY <1>8, <2>4 DEF ReloadLicense, Goto, LicenseTypeOK, StoreTypeOK, Labels
<1>9. CASE CommitLicense(r)
  <2>1. rows' \in [Ids -> Row \cup {None}]
    BY <1>9, <1>a DEF CommitLicense, Commit, LicenseTypeOK, StoreTypeOK
  <2>2. links' \subseteq Pairs
    BY <1>9 DEF CommitLicense, Commit, Visible, LicenseTypeOK, StoreTypeOK
  <2>3. /\ audits' \in Seq({audits'[i] : i \in DOMAIN audits'})
        /\ \A i \in DOMAIN audits' : audits'[i].id \in Ids /\ IsChangeLog(audits'[i].changes)
    <3> DEFINE e == [id |-> Target(r), changes |-> note[r]]
               S == {audits[i] : i \in DOMAIN audits}
    <3>1. audits \in Seq(S)
      BY DEF LicenseTypeOK, StoreTypeOK
    <3>2. CASE audits' = audits
      BY <3>2 DEF LicenseTypeOK, StoreTypeOK
    <3>3. CASE audits' = Append(audits, e)
      <4>1. e.id \in Ids /\ IsChangeLog(e.changes)
        BY <1>a DEF LicenseTypeOK, StoreTypeOK
      <4> HIDE DEF e
      <4>2. audits \in Seq(S \cup {e})
        BY <3>1, SeqMonotonic
      <4>3. /\ DOMAIN audits' = 1..(Len(audits) + 1)
            /\ \A i \in 1..Len(audits) : audits'[i] = audits[i]
            /\ audits'[Len(audits) + 1] = e
            /\ audits' \in Seq(S \cup {e})
        BY <3>3, <4>2
      <4>4. \A i \in DOMAIN audits' : audits'[i].id \in Ids /\ IsChangeLog(audits'[i].changes)
        BY <4>1, <4>2, <4>3 DEF LicenseTypeOK, StoreTypeOK
      <4>5. S \cup {e} \subseteq {audits'[i] : i \in DOMAIN audits'}
        BY <4>2, <4>3
      <4>6. QED
        BY <4>3, <4>4, <4>5
    <3>4. QED
      BY <1>9, <3>2, <3>3 DEF CommitLicense, Commit
  <2>4. QED
    BY <1>9, <2>1, <2>2, <2>3, FinishTyped DEF CommitLicense, Commit, LicenseTypeOK, StoreTypeOK
<1>10. CASE RejectLicense(r)
  BY <1>10, RollbackTyped DEF RejectLicense, Reject, LicenseTypeOK, StoreTypeOK
<1>11. QED
  BY <1>1, <1>2, <1>3, <1>4, <1>5, <1>6, <1>7, <1>8, <1>9, <1>10 DEF LicenseStep

----------------------------------------------------------------------------
(* One request's part of the invariant.                                     *)

\* A step of r leaves what the other requests hold alone.
OthersKept(r) ==
    \A q \in Requests \ {r} :
        /\ pc'[q] = pc[q] /\ input'[q] = input[q] /\ seen'[q] = seen[q]
        /\ image'[q] = image[q] /\ found'[q] = found[q]
        /\ ins'[q] = ins[q] /\ del'[q] = del[q] /\ entered'[q] = entered[q]

LEMMA FinishKeepsOthers ==
    ASSUME LicenseTypeOK, NEW r \in Requests, Finish(r)
    PROVE  OthersKept(r)
  BY DEF Finish, OthersKept, LicenseTypeOK, StoreTypeOK

LEMMA StepKeepsOthers ==
    ASSUME LicenseTypeOK, NEW r \in Requests,
           \/ ReceiveCreateLicense(r) \/ ReceiveUpdateLicense(r)
           \/ LicenseStep(r) \/ LicenseCommitFails(r) \/ LicenseStatementFails(r)
    PROVE  OthersKept(r)
<1>1. CASE ReceiveCreateLicense(r) \/ ReceiveUpdateLicense(r)
  BY <1>1 DEF ReceiveCreateLicense, ReceiveUpdateLicense, Receive, Goto, OthersKept,
              LicenseTypeOK, StoreTypeOK
<1>2. CASE LicenseCommitFails(r) \/ LicenseStatementFails(r)
  BY <1>2, FinishKeepsOthers
  DEF LicenseCommitFails, LicenseStatementFails, StatementFails, Rollback
<1>3. CASE CommitLicense(r) \/ RejectLicense(r)
  BY <1>3, FinishKeepsOthers DEF CommitLicense, RejectLicense, Commit, Reject, Rollback
<1>4. CASE ReplaceObligations(r)
  BY <1>4 DEF ReplaceObligations, ReplaceAssociations, FindRelated, UpsertRelated,
              InsertLinks, DeleteLinks, Goto, OthersKept, LicenseTypeOK, StoreTypeOK
<1>5. CASE InsertLicense(r) \/ FindLicense(r) \/ PreloadObligations(r) \/ MergeLicenseRef(r)
  BY <1>5 DEF InsertLicense, FindLicense, PreloadObligations, MergeLicenseRef, Goto,
              OthersKept, LicenseTypeOK, StoreTypeOK
<1>6. CASE WriteLicense(r) \/ RefuseLicense(r) \/ ReloadLicense(r)
  BY <1>6 DEF WriteLicense, RefuseLicense, ReloadLicense, Goto,
              OthersKept, LicenseTypeOK, StoreTypeOK
<1>7. QED
  BY <1>1, <1>2, <1>3, <1>4, <1>5, <1>6 DEF LicenseStep

\* A request does not notice a step of another one that leaves the tables alone.
LEMMA OtherInv ==
    ASSUME NEW r \in Requests, NEW q \in Requests \ {r}, RequestInv(q),
           OthersKept(r), UNCHANGED <<rows, links>>
    PROVE  RequestInv(q)'
  BY DEF RequestInv, Control, Locking, Existence, Written, Linking, OthersKept, Creates,
         Updates, Own, Target, Patch, Wanted, Stale

\* A request that is over holds nothing.
LEMMA FinishInv ==
    ASSUME LicenseTypeOK, NEW r \in Requests, Finish(r)
    PROVE  RequestInv(r)'
  BY DEF Finish, RequestInv, Control, Locking, Existence, Written, Linking, Creates,
         Updates, LicenseTypeOK, StoreTypeOK

LEMMA ReceiveInv ==
    ASSUME IInv, NEW r \in Requests,
           ReceiveCreateLicense(r) \/ ReceiveUpdateLicense(r)
    PROVE  RequestInv(r)'
<1>1. LicenseTypeOK /\ RequestInv(r)
  BY DEF IInv
<1>2. PICK op, x, p, l :
        /\ [op |-> op, id |-> x, patch |-> p] \in LicenseInputs
        /\ \/ op = "create" /\ l = "insert" /\ rows[x] = None
           \/ op = "update" /\ l = "find"
        /\ Receive(r, op, x, p, l)
  BY DEF ReceiveCreateLicense, ReceiveUpdateLicense, LicenseInputs, Fresh
<1>3. /\ input'[r] = [op |-> op, id |-> x, patch |-> p]
      /\ pc'[r] = l
      /\ pc[r] = "idle"
      /\ UNCHANGED <<tables, seen, linked, image, found, ins, del, entered, note, failures>>
  BY <1>1, <1>2 DEF Receive, Goto, LicenseTypeOK, StoreTypeOK
<1>4. input'[r] # None
  BY <1>2, <1>3, LicenseInputAssumption
<1>5. QED
  BY <1>1, <1>2, <1>3, <1>4 DEF RequestInv, Control, Locking, Existence, Written, Linking,
      Creates, Updates, Target, tables

\* Pairs of different licences are different.
LEMMA PairsApart ==
    ASSUME NEW x \in LicenseIds, NEW z \in LicenseIds, x # z, NEW S, NEW T
    PROVE  LinksTo(x, S) \cap LinksTo(z, T) = {}
  BY DEF LinksTo, Pair

\* The statements of r itself, its end excepted.
LEMMA OwnInv ==
    ASSUME IInv, NEW r \in Requests, LicenseStep(r),
           ~CommitLicense(r), ~RejectLicense(r)
    PROVE  RequestInv(r)' /\ UNCHANGED <<rows, links>>
<1> USE DEF tables, bounds, LicenseTypeOK, StoreTypeOK
<1>1. LicenseTypeOK /\ RequestInv(r)
  BY DEF IInv
<1>0. ServesLicense(r)
  BY DEF LicenseStep, InsertLicense, FindLicense, PreloadObligations, MergeLicenseRef,
         WriteLicense, RefuseLicense, ReplaceObligations, ReloadLicense
<1>2. /\ Target(r) \in LicenseIds
      /\ Target(r) \in Ids
      /\ IsPatchOf(Patch(r), Target(r))
      /\ Creates(r) => IsFormOf(Patch(r), Target(r))
      /\ Creates(r) \/ Updates(r)
      /\ ~(Creates(r) /\ Updates(r))
  BY <1>0, <1>1, BodyTyped DEF Ids
<1>3. CASE InsertLicense(r)
  <2>1. /\ Creates(r)
        /\ Apply(BlankRow, Patch(r)) \in Row
        /\ Relates(Patch(r))
        /\ ~HasEmptyText(Patch(r))
    BY <1>1, <1>2, <1>3, FormGivesRow DEF InsertLicense, Goto, RequestInv, Control
  <2>2. /\ pc'[r] = "findRelated" /\ image'[r] = Apply(BlankRow, Patch(r))
        /\ seen'[r] = BlankRow
        /\ ins[r] = {} /\ del[r] = {}
        /\ UNCHANGED <<rows, links, input, found, ins, del, entered>>
    BY <1>1, <1>3 DEF InsertLicense, Goto, RequestInv, Locking
  <2>3. image'[r] # None /\ seen'[r] # None
    BY <2>1, <2>2, NoneAssumption
  <2>4. QED
    BY <1>1, <1>2, <2>1, <2>2, <2>3
    DEF RequestInv, Control, Locking, Existence, Written, Linking, Creates, Updates, Target,
        Patch, Own
<1>4. CASE FindLicense(r)
  BY <1>1, <1>2, <1>4
  DEF FindLicense, Goto, RequestInv, Control, Locking, Existence, Written, Linking, Creates,
      Updates, Target, Patch, Own
<1>5. CASE PreloadObligations(r)
  BY <1>1, <1>2, <1>5
  DEF PreloadObligations, Goto, RequestInv, Control, Locking, Existence, Written, Linking,
      Creates, Updates, Target, Patch, Own
<1>6. CASE MergeLicenseRef(r)
  BY <1>1, <1>2, <1>6
  DEF MergeLicenseRef, Goto, RequestInv, Control, Locking, Existence, Written, Linking,
      Creates, Updates, Target, Patch, Own
<1>7. CASE WriteLicense(r)
  <2>1. Updates(r) /\ rows[Target(r)] \in Row /\ image[r] = rows[Target(r)]
    BY <1>1, <1>2, <1>7 DEF WriteLicense, Goto, RequestInv, Control, Locking, Existence, Written
  <2>2. Apply(image[r], Patch(r)) # None
    BY <1>2, <1>7, <2>1, ApplyKeepsRow, NoneAssumption DEF WriteLicense
  <2>3. QED
    BY <1>1, <1>2, <1>7, <2>1, <2>2
    DEF WriteLicense, Goto, RequestInv, Control, Locking, Existence, Written, Linking,
        Creates, Updates, Target, Patch, Own
<1>8. CASE RefuseLicense(r)
  BY <1>1, <1>2, <1>8
  DEF RefuseLicense, Goto, RequestInv, Control, Locking, Existence, Written, Linking,
      Creates, Updates, Target, Patch, Own
<1>9. CASE ReplaceObligations(r)
  <2>1. CASE FindRelated(r)
    BY <1>1, <1>2, <2>1
    DEF FindRelated, Goto, RequestInv, Control, Locking, Existence, Written, Linking,
        Creates, Updates, Target, Patch, Own
  <2>2. CASE UpsertRelated(r)
    BY <1>1, <1>2, <2>2
    DEF UpsertRelated, Goto, RequestInv, Control, Locking, Existence, Written, Linking,
        Creates, Updates, Target, Patch, Own
  <2>3. CASE InsertLinks(r)
    <3>1. Wanted(r) \subseteq Own(r)
      <4>1. found[r] \subseteq ObligationIds
        BY <1>1, <1>2, <2>3 DEF InsertLinks, Goto, RequestInv, Control, Linking, Relates,
           IsPatchOf, Opposite
      <4>2. QED
        BY <4>1 DEF Wanted, Own, LinksTo
    <3>2. QED
      BY <1>1, <1>2, <2>3, <3>1
      DEF InsertLinks, Goto, RequestInv, Control, Locking, Existence, Written, Linking,
          Creates, Updates, Target, Patch, Own, Wanted
  <2>4. CASE DeleteLinks(r)
    <3>1. Stale(r) \subseteq Own(r)
      BY <1>2 DEF Stale, Own, LinksTo, RelatedTo, Opposite
    <3>2. QED
      BY <1>1, <1>2, <2>4, <3>1
      DEF DeleteLinks, Goto, RequestInv, Control, Locking, Existence, Written, Linking,
          Creates, Updates, Target, Patch, Own, Wanted, Stale
  <2>5. QED
    BY <1>9, <2>1, <2>2, <2>3, <2>4 DEF ReplaceObligations, ReplaceAssociations
<1>10. CASE ReloadLicense(r)
  BY <1>1, <1>2, <1>10
  DEF ReloadLicense, Goto, RequestInv, Control, Locking, Existence, Written, Linking,
      Creates, Updates, Target, Patch, Own, Wanted, Stale
<1>11. QED
  BY <1>3, <1>4, <1>5, <1>6, <1>7, <1>8, <1>9, <1>10 DEF LicenseStep

\* A commit changes one licence and its pairs, which are nobody else's.
LEMMA CommitInv ==
    ASSUME IInv, NEW r \in Requests, CommitLicense(r),
           NEW q \in Requests \ {r}
    PROVE  RequestInv(q)'
<1> USE DEF LicenseTypeOK, StoreTypeOK
<1>1. /\ LicenseTypeOK /\ RequestInv(r) /\ RequestInv(q)
      /\ image[q] # None => Target(q) # Target(r)
      /\ Creates(q) /\ Creates(r) => Target(q) # Target(r)
  <2>1. image[r] # None
    BY DEF IInv, RequestInv, Locking, CommitLicense, Commit
  <2>2. QED
    BY <2>1 DEF IInv, Exclusion
<1>2. OthersKept(r)
  BY <1>1, FinishKeepsOthers DEF CommitLicense, Commit
<1>3. /\ image[r] # None
      /\ rows' = [rows EXCEPT ![Target(r)] = image[r]]
      /\ links' = (links \cup ins[r]) \ del[r]
      /\ ins[r] \subseteq Own(r) /\ del[r] \subseteq Own(r)
      /\ Target(r) \in LicenseIds
      /\ Creates(r) \/ Updates(r)
  BY <1>1, BodyTyped DEF CommitLicense, Commit, Visible, RequestInv, Locking, Linking
<1>4. CASE input[q] = None
  <2>1. pc[q] = "idle" /\ image[q] = None
    BY <1>1, <1>4 DEF RequestInv, Control, Locking
  <2>2. QED
    BY <1>1, <1>2, <1>4, <2>1
    DEF OthersKept, RequestInv, Control, Locking, Existence, Written, Linking, Creates, Updates
<1>5. CASE input[q] # None
  <2>1. Target(q) \in LicenseIds
    BY <1>1, <1>5, BodyTyped DEF ServesLicense, LicenseInputs
  <2>2. ~(Creates(q) /\ Updates(q))
    BY DEF Creates, Updates
  <2>3. \A y \in Ids : rows[y] # None => rows'[y] # None
    BY <1>1, <1>3 DEF Ids
  <2>4. Target(q) # Target(r) => rows'[Target(q)] = rows[Target(q)]
    BY <1>1, <1>3, <2>1 DEF Ids
  <2>5. Creates(q) => Target(q) # Target(r)
    BY <1>1, <1>3 DEF RequestInv, Existence
  <2>6. Target(q) # Target(r) =>
            /\ \A S : LinksTo(Target(q), S) \ links' = LinksTo(Target(q), S) \ links
            /\ RelatedTo(Target(q), links') = RelatedTo(Target(q), links)
    <3>1. ASSUME Target(q) # Target(r), NEW S
          PROVE  LinksTo(Target(q), S) \ links' = LinksTo(Target(q), S) \ links
      BY <1>3, <2>1, <3>1, PairsApart DEF Own
    <3>2. ASSUME Target(q) # Target(r), NEW y \in ObligationIds
          PROVE  Pair(Target(q), y) \in links' <=> Pair(Target(q), y) \in links
      <4>1. Pair(Target(q), y) \in LinksTo(Target(q), {y})
        BY DEF LinksTo
      <4>2. Pair(Target(q), y) \notin Own(r)
        BY <1>3, <2>1, <3>2, <4>1, PairsApart DEF Own
      <4>3. QED
        BY <1>3, <4>2
    <3>3. QED
      BY <2>1, <3>1, <3>2 DEF RelatedTo, Opposite
  <2>7. /\ Control(q)' /\ Locking(q)'
    BY <1>1, <1>2 DEF OthersKept, RequestInv, Control, Locking, Creates, Updates, Patch
  <2>8. Existence(q)'
    BY <1>1, <1>2, <2>1, <2>3, <2>4, <2>5
    DEF OthersKept, RequestInv, Existence, Creates, Updates, Target, Ids
  <2>9. Written(q)'
    BY <1>1, <1>2, <2>4
    DEF OthersKept, RequestInv, Written, Creates, Updates, Target, Patch
  <2>10. Linking(q)'
    <3>1. image[q] = None =>
              pc[q] \notin {"write", "findRelated", "upsert", "link", "unlink", "reload", "commit"}
      BY <1>1 DEF RequestInv, Locking
    <3>2. pc[q] \in {"upsert", "link", "unlink", "reload", "commit"} /\ Relates(Patch(q))
              => found[q] \subseteq Ids
      BY <1>1
    <3>3. /\ Target(q)' = Target(q) /\ Patch(q)' = Patch(q) /\ Own(q)' = Own(q)
          /\ Wanted(q)' = Wanted(q)
      BY <1>2 DEF OthersKept, Target, Patch, Own, Wanted
    <3>4. Target(q) # Target(r) => Stale(q)' = Stale(q)
      BY <1>2, <2>6, <3>3 DEF OthersKept, Stale
    <3>5. Target(q) # Target(r) => (Wanted(q) \ links)' = Wanted(q) \ links
      BY <2>6, <3>3 DEF Wanted
    <3>6. \A y \in found[q] : rows[y] # None => rows'[y] # None
      BY <1>1, <2>3
    <3>7. QED
      BY <1>1, <1>2, <3>1, <3>3, <3>4, <3>5, <3>6 DEF OthersKept, RequestInv, Linking
  <2>11. QED
    BY <2>7, <2>8, <2>9, <2>10 DEF RequestInv
<1>6. QED
  BY <1>4, <1>5

----------------------------------------------------------------------------
(* Exclusion: decided where a licence is named for creation, inserted, or    *)
(* locked.                                                                   *)

LEMMA ExclusionKept ==
    ASSUME IInv, NEW r \in Requests, OthersKept(r),
           image'[r] # None => \A q \in Requests \ {r} : image[q] # None => Target(q) # Target(r)',
           Creates(r)' => \A q \in Requests \ {r} : Creates(q) => Target(q) # Target(r)'
    PROVE  Exclusion'
  BY DEF IInv, Exclusion, OthersKept, Target, Creates

LEMMA ExclusionStep ==
    ASSUME IInv, NEW r \in Requests,
           \/ ReceiveCreateLicense(r) \/ ReceiveUpdateLicense(r)
           \/ LicenseStep(r) \/ LicenseCommitFails(r) \/ LicenseStatementFails(r)
    PROVE  Exclusion'
<1> USE DEF LicenseTypeOK, StoreTypeOK
<1>1. LicenseTypeOK /\ OthersKept(r) /\ RequestInv(r) /\ Exclusion
  BY StepKeepsOthers DEF IInv
<1>2. CASE ReceiveCreateLicense(r)
  <2>1. PICK x \in LicenseIds, f \in LicenseForms :
            Fresh(x) /\ Receive(r, "create", x, f, "insert")
    BY <1>2 DEF ReceiveCreateLicense
  <2>2. Target(r)' = x /\ image'[r] = None
    BY <1>1, <2>1 DEF Receive, Goto, Target, RequestInv, Locking
  <2>3. QED
    BY <1>1, <2>1, <2>2, ExclusionKept DEF Fresh, Creates, Target
<1>3. CASE ReceiveUpdateLicense(r)
  <2>1. ~Creates(r)' /\ image'[r] = None
    BY <1>1, <1>3 DEF ReceiveUpdateLicense, Receive, Goto, Creates, RequestInv, Locking
  <2>2. QED
    BY <1>1, <2>1, ExclusionKept
<1>4. CASE Finish(r)
  <2>1. ~Creates(r)' /\ image'[r] = None
    BY <1>1, <1>4 DEF Finish, Creates
  <2>2. QED
    BY <1>1, <2>1, ExclusionKept
<1>5. CASE InsertLicense(r)
  <2>1. Creates(r) /\ rows[Target(r)] = None /\ UNCHANGED input
    BY <1>1, <1>5 DEF InsertLicense, Goto, RequestInv, Control, Existence
  <2>2. ASSUME NEW q \in Requests \ {r}, image[q] # None
        PROVE  Target(q) # Target(r)
    <3>1. Creates(q) \/ Updates(q)
      BY <2>2, BodyTyped DEF IInv, RequestInv, Control, Locking, ServesLicense, LicenseInputs,
         Creates, Updates
    <3>2. QED
      BY <1>1, <2>1, <2>2, <3>1 DEF IInv, RequestInv, Existence, Exclusion
  <2>3. QED
    BY <1>1, <2>1, <2>2, ExclusionKept DEF Target, Creates, Exclusion
<1>6. CASE MergeLicenseRef(r)
  <2>1. Updates(r) /\ UNCHANGED input
    BY <1>1, <1>6 DEF MergeLicenseRef, Goto, RequestInv, Control
  <2>2. \A q \in Requests \ {r} : image[q] # None => Target(q) # Target(r)
    BY <1>6 DEF MergeLicenseRef, Granted, Blocks, Holds, Goto, Target
  <2>3. ~Creates(r)'
    BY <2>1 DEF Creates, Updates
  <2>4. QED
    BY <1>1, <2>1, <2>2, <2>3, ExclusionKept DEF Target
<1>7. CASE UNCHANGED <<input, image>> \/ WriteLicense(r)
  <2>1. /\ UNCHANGED input
        /\ image'[r] # None => image[r] # None
    BY <1>1, <1>7 DEF WriteLicense, Goto, RequestInv, Locking
  <2>2. QED
    BY <1>1, <2>1, ExclusionKept DEF Target, Creates, Exclusion
<1>8. LicenseStep(r) =>
         \/ InsertLicense(r) \/ MergeLicenseRef(r) \/ WriteLicense(r)
         \/ UNCHANGED <<input, image>> \/ Finish(r)
  BY DEF LicenseStep, FindLicense, PreloadObligations, RefuseLicense, ReplaceObligations,
         ReplaceAssociations, FindRelated, UpsertRelated, InsertLinks, DeleteLinks,
         ReloadLicense, CommitLicense, Commit, RejectLicense, Reject, Rollback
<1>9. LicenseCommitFails(r) \/ LicenseStatementFails(r) => Finish(r)
  BY DEF LicenseCommitFails, LicenseStatementFails, StatementFails, Rollback
<1>10. QED
  BY <1>2, <1>3, <1>4, <1>5, <1>6, <1>7, <1>8, <1>9

----------------------------------------------------------------------------
(* The invariant is inductive. *)

\* No request is being served when the server starts.
LEMMA InitInv ==
    ASSUME Init
    PROVE  IInv
<1>1. LicenseTypeOK
  <2>1. audits \in Seq({audits[i] : i \in DOMAIN audits}) /\ DOMAIN audits = {}
    BY DEF Init
  <2>2. served \in 0..MaxRequests /\ failures \in 0..MaxFailures
    BY StoreAssumption DEF Init
  <2>3. QED
    BY <2>1, <2>2, StoreAssumption, NoChangesTyped
    DEF Init, LicenseTypeOK, StoreTypeOK, Labels
<1>2. \A r \in Requests : RequestInv(r)
  BY DEF Init, RequestInv, Control, Locking, Existence, Written, Linking, Creates, Updates
<1>3. Exclusion
  BY DEF Init, Exclusion, Creates
<1>4. QED
  BY <1>1, <1>2, <1>3 DEF IInv

\* Every step of a licence request keeps what each request knows and holds.
LEMMA NextInv ==
    ASSUME IInv, NEW r \in Requests,
           \/ ReceiveCreateLicense(r) \/ ReceiveUpdateLicense(r)
           \/ LicenseStep(r) \/ LicenseCommitFails(r) \/ LicenseStatementFails(r)
    PROVE  IInv'
<1>0. /\ LicenseTypeOK
      /\ Exclusion'
      /\ OthersKept(r)
      /\ \A q \in Requests : RequestInv(q)
  BY ExclusionStep, StepKeepsOthers DEF IInv
<1>1. CASE ReceiveCreateLicense(r) \/ ReceiveUpdateLicense(r)
  <2>1. UNCHANGED <<rows, links>>
    BY <1>1 DEF ReceiveCreateLicense, ReceiveUpdateLicense, Receive, tables
  <2>2. QED
    BY <1>0, <1>1, <2>1, ReceiveTyped, ReceiveInv, OtherInv DEF IInv
<1>2. CASE LicenseStep(r) /\ ~CommitLicense(r) /\ ~RejectLicense(r)
  BY <1>0, <1>2, StepTyped, OwnInv, OtherInv DEF IInv
<1>3. CASE CommitLicense(r)
  <2>1. RequestInv(r)' /\ LicenseTypeOK'
    BY <1>0, <1>3, FinishInv, StepTyped DEF CommitLicense, Commit, LicenseStep
  <2>2. QED
    BY <1>0, <1>3, <2>1, CommitInv DEF IInv
<1>4. CASE RejectLicense(r) \/ LicenseCommitFails(r) \/ LicenseStatementFails(r)
  <2>1. Rollback(r)
    BY <1>4 DEF RejectLicense, Reject, LicenseCommitFails, LicenseStatementFails,
                StatementFails
  <2>2. /\ reply' \in [Requests -> {"none", "ok", "rejected"}]
        /\ served' \in 0..MaxRequests
        /\ failures' \in 0..MaxFailures
    BY <1>0, <1>4, StoreAssumption
    DEF RejectLicense, Reject, LicenseCommitFails, LicenseStatementFails, StatementFails,
        bounds, LicenseTypeOK, StoreTypeOK
  <2>3. UNCHANGED <<rows, links>> /\ Finish(r)
    BY <2>1 DEF Rollback, tables
  <2>4. QED
    BY <1>0, <2>1, <2>2, <2>3, RollbackTyped, FinishInv, OtherInv DEF IInv
<1>5. QED
  BY <1>1, <1>2, <1>3, <1>4

LEMMA StutterInv ==
    ASSUME IInv, UNCHANGED vars
    PROVE  IInv'
<1>1. LicenseTypeOK'
  BY DEF vars, IInv, LicenseTypeOK, StoreTypeOK
<1>2. \A r \in Requests : RequestInv(r)'
  <2> SUFFICES ASSUME NEW r \in Requests
               PROVE  RequestInv(r)'
    OBVIOUS
  <2>1. RequestInv(r) /\ UNCHANGED <<rows, links, pc, input, seen, image, found, ins, del,
                                        entered>>
    BY DEF vars, IInv
  <2>2. Control(r)' /\ Locking(r)' /\ Existence(r)' /\ Written(r)'
    BY <2>1 DEF RequestInv, Control, Locking, Existence, Written, Creates, Updates, Target,
       Patch
  <2>3. Linking(r)'
    BY <2>1 DEF RequestInv, Linking, Own, Target, Patch, Wanted, Stale
  <2>4. QED
    BY <2>2, <2>3 DEF RequestInv
<1>3. Exclusion'
  BY DEF vars, IInv, Exclusion, Creates, Target
<1>4. QED
  BY <1>1, <1>2, <1>3 DEF IInv

\* What each licence request knows and holds is as its handler's code assumes,
\* at every moment.
THEOREM InvariantHolds == LicenseSpec => []IInv
<1>1. Init => IInv
  BY InitInv
<1>2. IInv /\ [LicenseNext]_vars => IInv'
  BY NextInv, StutterInv DEF LicenseNext
<1>3. QED
  BY <1>1, <1>2, PTL DEF LicenseSpec

\* The tables and the requests keep their types: no empty text is ever stored
\* (the BeforeUpdate hook), no join row names a thing of the wrong kind.
THEOREM TypeCorrect == LicenseSpec => []LicenseTypeOK
<1>1. IInv => LicenseTypeOK
  BY DEF IInv
<1>2. QED
  BY <1>1, InvariantHolds, PTL

\* UpdateLicense never holds, and so never commits, a licence version with a
\* field that an UpdateLicense committed meanwhile has replaced.
THEOREM NeverStale == LicenseSpec => []NoStaleVersion
<1>1. IInv => NoStaleVersion
  <2> SUFFICES ASSUME IInv, NEW r \in Requests, image[r] # None
               PROVE  /\ \A q \in Requests \ {r} : ~Holds(q, Target(r))
                      /\ IF input[r].op = "create"
                         THEN rows[Target(r)] = None /\ image[r] = Apply(BlankRow, Patch(r))
                         ELSE \/ pc[r] \in {"write", "reject"} /\ image[r] = rows[Target(r)]
                              \/ pc[r] # "write" /\ image[r] = Apply(rows[Target(r)], Patch(r))
    BY DEF NoStaleVersion
  <2>1. RequestInv(r) /\ Exclusion /\ LicenseTypeOK
    BY DEF IInv
  <2>2. \A q \in Requests \ {r} : ~Holds(q, Target(r))
    BY <2>1 DEF Exclusion, Holds, Target
  <2>3. Creates(r) \/ Updates(r)
    BY <2>1, BodyTyped DEF RequestInv, Control, Locking, ServesLicense, LicenseInputs,
       LicenseTypeOK, StoreTypeOK
  <2>4. QED
    BY <2>1, <2>2, <2>3 DEF RequestInv, Existence, Written, Creates, Updates
<1>2. QED
  BY <1>1, InvariantHolds, PTL

----------------------------------------------------------------------------
(* The handlers implement the registry. *)

\* Association.Replace leaves exactly the associations that were asked for:
\* inserting the wanted pairs that are missing and deleting the stale ones
\* amounts to replacing them all.
LEMMA ReplaceIsRelink ==
    ASSUME NEW x \in LicenseIds, NEW S \in SUBSET ObligationIds, links \subseteq Pairs
    PROVE  (links \cup (LinksTo(x, S) \ links)) \ LinksTo(x, RelatedTo(x, links) \ S)
               = Relink(links, x, S)
<1>1. \A T : LinksTo(x, T) = {<<x, y>> : y \in T}
  BY DEF LinksTo, Pair
<1>2. RelatedTo(x, links) = {y \in ObligationIds : <<x, y>> \in links}
  BY DEF RelatedTo, Pair, Opposite
<1>3. Opposite(x) = ObligationIds
  BY DEF Opposite
<1>4. \A e \in links : \E l \in LicenseIds, o \in ObligationIds : e = <<l, o>>
  BY DEF Pairs
<1>5. QED
  BY <1>1, <1>2, <1>3, <1>4 DEF Relink

\* The registry's operators on records are the handlers'.
LEMMA SameRecords ==
    /\ Registry!BlankRow = BlankRow
    /\ \A p : Registry!Relates(p) <=> Relates(p)
    /\ \A p : Registry!HasEmptyText(p) <=> HasEmptyText(p)
    /\ \A row, p : Registry!Apply(row, p) = Apply(row, p)
    /\ \A L, x, S : Registry!Relink(L, x, S) = Relink(L, x, S)
<1>1. Registry!BlankRow = BlankRow
  BY DEF Registry!BlankRow, BlankRow, Registry!Columns, Columns
<1>2. \A p : Registry!Relates(p) <=> Relates(p)
  BY DEF Registry!Relates, Relates
<1>3. \A p : Registry!HasEmptyText(p) <=> HasEmptyText(p)
  BY DEF Registry!HasEmptyText, HasEmptyText, Registry!Columns, Columns
<1>4. \A row, p : Registry!Apply(row, p) = Apply(row, p)
  BY DEF Registry!Apply, Apply, Registry!ApplyExcept, ApplyExcept, Registry!Columns, Columns
<1>5. \A L, x, S : Registry!Relink(L, x, S) = Relink(L, x, S)
  BY DEF Registry!Relink, Relink, Registry!LinksTo, LinksTo, Registry!Pair, Pair,
     Registry!Opposite, Opposite
<1>6. QED
  BY <1>1, <1>2, <1>3, <1>4, <1>5

\* A commit is one operation of the registry.
LEMMA CommitRefines ==
    ASSUME IInv, NEW r \in Requests, CommitLicense(r)
    PROVE  Registry!RegistryNext
<1> DEFINE x == Target(r)
           p == Patch(r)
<1> USE DEF LicenseTypeOK, StoreTypeOK
<1>1. LicenseTypeOK /\ RequestInv(r) /\ pc[r] = "commit" /\ image[r] # None
  BY DEF IInv, RequestInv, Locking, CommitLicense, Commit
<1>2. /\ x \in LicenseIds
      /\ IsPatchOf(p, x)
      /\ Creates(r) => p \in LicenseForms /\ IsFormOf(p, x)
      /\ Updates(r) => p \in LicensePatches
      /\ Creates(r) \/ Updates(r)
  BY <1>1, BodyTyped DEF CommitLicense, ServesLicense, LicenseInputs, Creates, Updates,
     Patch, Target
<1>3. rows' = [rows EXCEPT ![x] = image[r]] /\ links' = Visible(r)
  BY DEF CommitLicense, Commit
<1>4. IF Relates(p)
      THEN (\A y \in p["related"] : rows[y] # None) /\ links' = Relink(links, x, p["related"])
      ELSE links' = links
  <2>1. CASE Relates(p)
    <3>1. p["related"] \in SUBSET ObligationIds
      BY <1>2, <2>1 DEF Relates, IsPatchOf, Opposite
    <3>2. /\ found[r] = p["related"]
          /\ \A y \in found[r] : rows[y] # None
          /\ ins[r] = Wanted(r) \ links
          /\ del[r] = Stale(r)
      BY <1>1, <2>1 DEF RequestInv, Linking
    <3>3. links' = (links \cup (LinksTo(x, p["related"]) \ links))
                       \ LinksTo(x, RelatedTo(x, links) \ p["related"])
      BY <1>3, <3>2 DEF Visible, Wanted, Stale
    <3>4. QED
      BY <1>1, <1>2, <2>1, <3>1, <3>2, <3>3, ReplaceIsRelink
  <2>2. CASE ~Relates(p)
    BY <1>1, <1>3, <2>2 DEF RequestInv, Linking, Visible
  <2>3. QED
    BY <2>1, <2>2
<1>5. CASE Creates(r)
  <2>1. /\ rows[x] = None
        /\ image[r] = Apply(BlankRow, p)
        /\ Relates(p)
    BY <1>1, <1>2, <1>5, FormGivesRow DEF RequestInv, Existence, Written
  <2>2. Registry!Create(x, p)
    BY <1>3, <1>4, <2>1, SameRecords DEF Registry!Create, Registry!AllExist
  <2>3. QED
    BY <1>2, <1>5, <2>2 DEF Registry!RegistryNext
<1>6. CASE Updates(r)
  <2>1. /\ rows[x] # None
        /\ image[r] = Apply(rows[x], p)
        /\ ~HasEmptyText(p)
    BY <1>1, <1>6 DEF RequestInv, Existence, Written
  <2>2. Registry!Update(x, p)
    BY <1>3, <1>4, <2>1, SameRecords DEF Registry!Update, Registry!AllExist
  <2>3. QED
    BY <1>2, <1>6, <2>2 DEF Registry!RegistryNext
<1>7. QED
  BY <1>2, <1>5, <1>6

\* CreateLicense and UpdateLicense, interleaved statement by statement, with
\* every failure, change the tables only as the registry says: each request
\* takes effect at its commit, whole, or not at all.
THEOREM Refinement == LicenseSpec => RefinesRegistry
<1>1. Init => Registry!RegistryInit
  BY DEF Init, Registry!RegistryInit
<1>2. IInv /\ [LicenseNext]_vars => [Registry!RegistryNext]_(Registry!registryVars)
  <2> SUFFICES ASSUME IInv, [LicenseNext]_vars
               PROVE  Registry!RegistryNext \/ UNCHANGED <<rows, links>>
    BY DEF Registry!registryVars
  <2>1. CASE UNCHANGED vars
    BY <2>1 DEF vars
  <2>2. ASSUME NEW r \in Requests, ReceiveCreateLicense(r) \/ ReceiveUpdateLicense(r)
        PROVE  UNCHANGED <<rows, links>>
    BY <2>2 DEF ReceiveCreateLicense, ReceiveUpdateLicense, Receive, tables
  <2>3. ASSUME NEW r \in Requests, LicenseStep(r)
        PROVE  Registry!RegistryNext \/ UNCHANGED <<rows, links>>
    BY <2>3, CommitRefines, OwnInv DEF RejectLicense, Reject, Rollback, tables
  <2>4. ASSUME NEW r \in Requests, LicenseCommitFails(r) \/ LicenseStatementFails(r)
        PROVE  UNCHANGED <<rows, links>>
    BY <2>4 DEF LicenseCommitFails, LicenseStatementFails, StatementFails, Rollback, tables
  <2>5. QED
    BY <2>1, <2>2, <2>3, <2>4 DEF LicenseNext
<1>3. QED
  BY <1>1, <1>2, InvariantHolds, PTL DEF LicenseSpec, RefinesRegistry, Registry!RegistrySpec

----------------------------------------------------------------------------
(* Audits. *)

\* The change log that r is about to commit tells the two versions apart that it
\* read and wrote, and what its join rows make of the newest join table.
NoteRight(r) ==
    pc[r] = "commit" =>
        note[r] = ChangeLog(Snapshot(seen[r], linked[r]),
                            Snapshot(image[r], RelatedTo(Target(r), Visible(r))))

AuditInv == IInv /\ \A r \in Requests : NoteRight(r)

\* A step of one request leaves what the others have for their audits.
LEMMA StepKeepsNotes ==
    ASSUME LicenseTypeOK, NEW r \in Requests,
           \/ ReceiveCreateLicense(r) \/ ReceiveUpdateLicense(r)
           \/ LicenseStep(r) \/ LicenseCommitFails(r) \/ LicenseStatementFails(r)
    PROVE  \A q \in Requests \ {r} : linked'[q] = linked[q] /\ note'[q] = note[q]
<1> USE DEF LicenseTypeOK, StoreTypeOK
<1>1. CASE ReceiveCreateLicense(r) \/ ReceiveUpdateLicense(r)
  BY <1>1 DEF ReceiveCreateLicense, ReceiveUpdateLicense, Receive
<1>2. ASSUME Finish(r)
      PROVE  \A q \in Requests \ {r} : linked'[q] = linked[q] /\ note'[q] = note[q]
  BY <1>2 DEF Finish
<1>3. CASE LicenseCommitFails(r) \/ LicenseStatementFails(r)
  BY <1>2, <1>3 DEF LicenseCommitFails, LicenseStatementFails, StatementFails, Rollback
<1>4. CASE CommitLicense(r) \/ RejectLicense(r)
  BY <1>2, <1>4 DEF CommitLicense, RejectLicense, Commit, Reject, Rollback
<1>5. CASE ReplaceObligations(r)
  BY <1>5 DEF ReplaceObligations, ReplaceAssociations, FindRelated, UpsertRelated,
              InsertLinks, DeleteLinks
<1>6. CASE \/ InsertLicense(r) \/ FindLicense(r) \/ PreloadObligations(r)
           \/ MergeLicenseRef(r) \/ WriteLicense(r) \/ RefuseLicense(r)
  BY <1>6 DEF InsertLicense, FindLicense, PreloadObligations, MergeLicenseRef, WriteLicense,
              RefuseLicense
<1>7. CASE ReloadLicense(r)
  BY <1>7 DEF ReloadLicense, WriteChangeLog
<1>8. QED
  BY <1>1, <1>3, <1>4, <1>5, <1>6, <1>7 DEF LicenseStep

\* Only ReloadLicense leads to COMMIT.
LEMMA ToCommit ==
    ASSUME LicenseTypeOK, NEW r \in Requests, pc'[r] = "commit",
           \/ ReceiveCreateLicense(r) \/ ReceiveUpdateLicense(r)
           \/ LicenseStep(r) \/ LicenseCommitFails(r) \/ LicenseStatementFails(r)
    PROVE  ReloadLicense(r)
<1> USE DEF LicenseTypeOK, StoreTypeOK
<1>1. ~ReceiveCreateLicense(r) /\ ~ReceiveUpdateLicense(r)
  BY DEF ReceiveCreateLicense, ReceiveUpdateLicense, Receive, Goto
<1>2. ~Finish(r)
  BY DEF Finish
<1>3. /\ ~LicenseCommitFails(r) /\ ~LicenseStatementFails(r)
      /\ ~CommitLicense(r) /\ ~RejectLicense(r)
  BY <1>2 DEF LicenseCommitFails, LicenseStatementFails, StatementFails, Rollback,
              CommitLicense, RejectLicense, Commit, Reject
<1>4. ~ReplaceObligations(r)
  BY DEF ReplaceObligations, ReplaceAssociations, FindRelated, UpsertRelated, InsertLinks,
         DeleteLinks, Goto
<1>5. /\ ~InsertLicense(r) /\ ~FindLicense(r) /\ ~PreloadObligations(r)
      /\ ~MergeLicenseRef(r) /\ ~WriteLicense(r) /\ ~RefuseLicense(r)
  BY DEF InsertLicense, FindLicense, PreloadObligations, MergeLicenseRef, WriteLicense,
         RefuseLicense, Goto
<1>6. QED
  BY <1>1, <1>3, <1>4, <1>5 DEF LicenseStep

\* Another request's commit does not change what r's licence is associated with.
LEMMA AssociationsKept ==
    ASSUME IInv, NEW r \in Requests, NEW q \in Requests \ {r}, CommitLicense(q),
           image[r] # None, OthersKept(q)
    PROVE  RelatedTo(Target(r), Visible(r))' = RelatedTo(Target(r), Visible(r))
<1>1. /\ LicenseTypeOK /\ RequestInv(q) /\ RequestInv(r) /\ image[q] # None
  BY DEF IInv, RequestInv, Locking, CommitLicense, Commit
<1>2. Target(q) # Target(r)
  BY <1>1 DEF IInv, Exclusion
<1>3. /\ Target(q) \in LicenseIds
      /\ ins[q] \subseteq Own(q) /\ del[q] \subseteq Own(q)
      /\ links' = (links \cup ins[q]) \ del[q]
  BY <1>1, BodyTyped DEF CommitLicense, Commit, Visible, RequestInv, Linking
<1>4. input[r] # None /\ ServesLicense(r)
  BY <1>1 DEF RequestInv, Control, Locking, ServesLicense, LicenseTypeOK, StoreTypeOK,
      LicenseInputs
<1>5. Target(r) \in LicenseIds
  BY <1>1, <1>4, BodyTyped
<1>6. \A y \in ObligationIds : Pair(Target(r), y) \notin Own(q)
  BY <1>2, <1>3, <1>5 DEF Own, LinksTo, Pair
<1>7. \A y \in ObligationIds : Pair(Target(r), y) \in links' <=> Pair(Target(r), y) \in links
  BY <1>3, <1>6
<1>8. Target(r)' = Target(r) /\ ins'[r] = ins[r] /\ del'[r] = del[r]
  BY DEF OthersKept, Target
<1>9. QED
  BY <1>5, <1>7, <1>8 DEF RelatedTo, Visible, Opposite

LEMMA NotesKept ==
    ASSUME AuditInv, NEW q \in Requests,
           \/ ReceiveCreateLicense(q) \/ ReceiveUpdateLicense(q)
           \/ LicenseStep(q) \/ LicenseCommitFails(q) \/ LicenseStatementFails(q),
           NEW r \in Requests
    PROVE  NoteRight(r)'
<1>1. IInv /\ LicenseTypeOK /\ NoteRight(r) /\ RequestInv(r)
  BY DEF AuditInv, IInv
<1> SUFFICES ASSUME pc'[r] = "commit"
             PROVE  note'[r] = ChangeLog(Snapshot(seen[r], linked[r]),
                                         Snapshot(image[r], RelatedTo(Target(r), Visible(r))))'
  BY DEF NoteRight
<1>2. CASE q = r
  <2>1. ReloadLicense(r)
    BY <1>1, <1>2, ToCommit
  <2>2. UNCHANGED <<rows, links, input, seen, linked, image, ins, del>>
    BY <2>1 DEF ReloadLicense, tables
  <2>3. note'[r] = ChangeLog(Snapshot(seen[r], linked[r]),
                             Snapshot(image[r], RelatedTo(Target(r), Visible(r))))
    BY <1>1, <2>1 DEF ReloadLicense, WriteChangeLog, LicenseTypeOK, StoreTypeOK
  <2>4. RelatedTo(Target(r), Visible(r))' = RelatedTo(Target(r), Visible(r))
    BY <2>2 DEF RelatedTo, Visible, Target
  <2>5. QED
    BY <2>2, <2>3, <2>4
<1>3. CASE q # r
  <2>1. OthersKept(q) /\ linked'[r] = linked[r] /\ note'[r] = note[r]
    BY <1>1, <1>3, StepKeepsOthers, StepKeepsNotes
  <2>2. pc[r] = "commit" /\ seen'[r] = seen[r] /\ image'[r] = image[r]
    BY <1>3, <2>1 DEF OthersKept
  <2>3. image[r] # None
    BY <1>1, <2>2 DEF RequestInv, Locking
  <2>4. RelatedTo(Target(r), Visible(r))' = RelatedTo(Target(r), Visible(r))
    <3>1. CASE CommitLicense(q)
      BY <1>1, <1>3, <2>1, <2>3, <3>1, AssociationsKept
    <3>2. CASE ~CommitLicense(q)
      <4>1. UNCHANGED <<rows, links>>
        BY <1>1, <3>2, OwnInv DEF ReceiveCreateLicense, ReceiveUpdateLicense, Receive,
           RejectLicense, Reject, LicenseCommitFails, LicenseStatementFails, StatementFails,
           Rollback, tables
      <4>2. QED
        BY <1>3, <2>1, <4>1 DEF OthersKept, RelatedTo, Visible, Target
    <3>3. QED
      BY <3>1, <3>2
  <2>5. QED
    BY <1>1, <2>1, <2>2, <2>4 DEF NoteRight
<1>4. QED
  BY <1>2, <1>3

LEMMA NotesAreRight == LicenseSpec => []AuditInv
<1>1. Init => AuditInv
  BY InitInv DEF Init, AuditInv, NoteRight
<1>2. AuditInv /\ [LicenseNext]_vars => AuditInv'
  <2> SUFFICES ASSUME AuditInv, [LicenseNext]_vars
               PROVE  AuditInv'
    OBVIOUS
  <2>1. CASE UNCHANGED vars
    <3>1. UNCHANGED <<rows, links, pc, input, seen, linked, image, ins, del, note>>
      BY <2>1 DEF vars
    <3>2. \A r \in Requests : NoteRight(r)'
      BY <3>1 DEF AuditInv, NoteRight, RelatedTo, Visible, Target
    <3>3. QED
      BY <2>1, <3>2, StutterInv DEF AuditInv
  <2>2. CASE LicenseNext
    <3>1. PICK q \in Requests :
            \/ ReceiveCreateLicense(q) \/ ReceiveUpdateLicense(q)
            \/ LicenseStep(q) \/ LicenseCommitFails(q) \/ LicenseStatementFails(q)
      BY <2>2 DEF LicenseNext
    <3>2. QED
      BY <3>1, NextInv, NotesKept DEF AuditInv
  <2>3. QED
    BY <2>1, <2>2
<1>3. QED
  BY <1>1, <1>2, PTL DEF LicenseSpec

\* The tables change only when a request commits: it stores the version it wrote
\* and the join rows it sees, and appends the change log it noted.
LEMMA OnlyCommitWrites ==
    ASSUME AuditInv, LicenseNext, tables' # tables
    PROVE  \E q \in Requests :
               /\ CommitLicense(q) /\ OthersKept(q) /\ NoteRight(q)
               /\ image[q] # None /\ ServesLicense(q) /\ Target(q) \in LicenseIds
               /\ rows'[Target(q)] = image[q]
               /\ links' = Visible(q)
<1>1. PICK q \in Requests :
        \/ ReceiveCreateLicense(q) \/ ReceiveUpdateLicense(q)
        \/ LicenseStep(q) \/ LicenseCommitFails(q) \/ LicenseStatementFails(q)
  BY DEF LicenseNext
<1>2. LicenseTypeOK /\ RequestInv(q) /\ NoteRight(q)
  BY DEF AuditInv, IInv
<1>3. CommitLicense(q)
  <2>1. CASE ReceiveCreateLicense(q) \/ ReceiveUpdateLicense(q)
    BY <2>1 DEF ReceiveCreateLicense, ReceiveUpdateLicense, Receive
  <2>2. CASE LicenseCommitFails(q) \/ LicenseStatementFails(q)
    BY <2>2 DEF LicenseCommitFails, LicenseStatementFails, StatementFails, Rollback
  <2>3. CASE RejectLicense(q)
    BY <2>3 DEF RejectLicense, Reject, Rollback
  <2>4. CASE ReplaceObligations(q)
    BY <2>4 DEF ReplaceObligations, ReplaceAssociations, FindRelated, UpsertRelated,
                InsertLinks, DeleteLinks
  <2>5. CASE \/ InsertLicense(q) \/ FindLicense(q) \/ PreloadObligations(q)
             \/ MergeLicenseRef(q) \/ WriteLicense(q) \/ RefuseLicense(q)
             \/ ReloadLicense(q)
    BY <2>5 DEF InsertLicense, FindLicense, PreloadObligations, MergeLicenseRef,
                WriteLicense, RefuseLicense, ReloadLicense
  <2>6. QED
    BY <1>1, <2>1, <2>2, <2>3, <2>4, <2>5 DEF LicenseStep
<1>4. OthersKept(q)
  BY <1>1, <1>2, StepKeepsOthers
<1>5. image[q] # None /\ ServesLicense(q)
  BY <1>2, <1>3 DEF RequestInv, Locking, CommitLicense, Commit
<1>6. Target(q) \in LicenseIds
  BY <1>2, <1>5, BodyTyped
<1>7. rows'[Target(q)] = image[q] /\ links' = Visible(q)
  BY <1>2, <1>3, <1>6 DEF CommitLicense, Commit, LicenseTypeOK, StoreTypeOK, Ids
<1>8. QED
  BY <1>2, <1>3, <1>4, <1>5, <1>6, <1>7

\* What the change log of a commit holds for a field, given what was read.
LEMMA CommittedLog ==
    ASSUME AuditInv, NEW r \in Requests, CommitLicense(r),
           rows'[Target(r)] = image[r], links' = Visible(r)
    PROVE  LET read == Snapshot(seen[r], linked[r])
               after == Snapshot(rows'[Target(r)], RelatedTo(Target(r), links'))
           IN  /\ DOMAIN note[r] = {c \in AuditedColumns : read[c] # after[c]}
               /\ \A c \in DOMAIN note[r] : note[r][c] = [old |-> read[c], new |-> after[c]]
<1>1. note[r] = ChangeLog(Snapshot(seen[r], linked[r]),
                          Snapshot(image[r], RelatedTo(Target(r), Visible(r))))
  BY DEF AuditInv, NoteRight, CommitLicense, Commit
<1>2. QED
  BY <1>1 DEF ChangeLog

\* What an audit says a field was changed to is what its commit stores.
THEOREM AuditsTellOutcome == LicenseSpec => AuditTellsOutcome
<1>1. AuditInv /\ [LicenseNext]_vars =>
        [Len(audits') > Len(audits) =>
            \A c \in DOMAIN Audited.changes :
                Audited.changes[c].new =
                    Snapshot(rows'[Audited.id], RelatedTo(Audited.id, links'))[c]]_vars
  <2> SUFFICES ASSUME AuditInv, LicenseNext, Len(audits') > Len(audits)
               PROVE  \A c \in DOMAIN Audited.changes :
                          Audited.changes[c].new =
                              Snapshot(rows'[Audited.id], RelatedTo(Audited.id, links'))[c]
    OBVIOUS
  <2>1. audits \in Seq({audits[i] : i \in DOMAIN audits}) /\ Len(audits) \in Nat
    BY DEF AuditInv, IInv, LicenseTypeOK, StoreTypeOK
  <2>2. audits' # audits
    BY <2>1
  <2>3. PICK q \in Requests :
          /\ CommitLicense(q)
          /\ rows'[Target(q)] = image[q] /\ links' = Visible(q)
    BY <2>2, OnlyCommitWrites DEF tables
  <2> DEFINE entry == [id |-> Target(q), changes |-> note[q]]
  <2>4. audits' = Append(audits, entry)
    BY <2>2, <2>3 DEF CommitLicense, Commit
  <2> HIDE DEF entry
  <2>5. Audited = entry
    <3> DEFINE S == {audits[i] : i \in DOMAIN audits} \cup {entry}
    <3>1. audits \in [1..Len(audits) -> S] /\ Len(audits) \in Nat
      BY <2>1
    <3>2. entry \in S
      OBVIOUS
    <3> HIDE DEF S
    <3>3. Len(audits') = Len(audits) + 1 /\ audits'[Len(audits) + 1] = entry
      BY <2>4, <3>1, <3>2
    <3>4. QED
      BY <3>3 DEF Audited
  <2>6. Audited.id = Target(q) /\ Audited.changes = note[q]
    BY <2>5 DEF entry
  <2> DEFINE read == Snapshot(seen[q], linked[q])
             after == Snapshot(rows'[Target(q)], RelatedTo(Target(q), links'))
  <2>7. \A c \in DOMAIN note[q] : note[q][c] = [old |-> read[c], new |-> after[c]]
    BY <2>3, CommittedLog
  <2> HIDE DEF read, after
  <2>8. \A c \in DOMAIN note[q] : note[q][c].new = after[c]
    <3>1. TAKE c \in DOMAIN note[q]
    <3>2. note[q][c] = [old |-> read[c], new |-> after[c]]
      BY <2>7
    <3>3. QED
      BY <3>2
  <2>9. after = Snapshot(rows'[Audited.id], RelatedTo(Audited.id, links'))
    BY <2>6 DEF after
  <2>10. \A c \in DOMAIN Audited.changes : Audited.changes[c].new = after[c]
    BY <2>6, <2>8, Zenon
  <2>11. QED
    BY <2>9, <2>10
<1>2. QED
  BY <1>1, NotesAreRight, PTL DEF LicenseSpec, AuditTellsOutcome

\* The change log of a commit is the change of every field whose stored value
\* is the one that its request read.
THEOREM OnlyStaleReads == LicenseSpec => OnlyStaleReadsEscapeAudit
<1>1. AuditInv /\ [LicenseNext]_vars =>
        [\A r \in Requests : ServesLicense(r) /\ input'[r] = None /\ tables' # tables =>
            LET x == Target(r)
                before == Snapshot(IF input[r].op = "create" THEN BlankRow ELSE rows[x],
                                   RelatedTo(x, links))
                after == Snapshot(rows'[x], RelatedTo(x, links'))
                read == Snapshot(seen[r], linked[r])
            IN  \A c \in AuditedColumns : read[c] = before[c] =>
                    IF before[c] = after[c] THEN c \notin DOMAIN note[r]
                    ELSE c \in DOMAIN note[r]
                         /\ note[r][c] = [old |-> before[c], new |-> after[c]]]_vars
  <2> SUFFICES ASSUME AuditInv, LicenseNext, NEW r \in Requests,
                      ServesLicense(r), input'[r] = None, tables' # tables
               PROVE  LET x == Target(r)
                          before == Snapshot(IF input[r].op = "create" THEN BlankRow
                                             ELSE rows[x], RelatedTo(x, links))
                          after == Snapshot(rows'[x], RelatedTo(x, links'))
                          read == Snapshot(seen[r], linked[r])
                      IN  \A c \in AuditedColumns : read[c] = before[c] =>
                              IF before[c] = after[c] THEN c \notin DOMAIN note[r]
                              ELSE c \in DOMAIN note[r]
                                   /\ note[r][c] = [old |-> before[c], new |-> after[c]]
    OBVIOUS
  <2>1. PICK q \in Requests :
          /\ CommitLicense(q) /\ OthersKept(q)
          /\ rows'[Target(q)] = image[q] /\ links' = Visible(q)
    BY OnlyCommitWrites
  <2>2. q = r
    BY <2>1 DEF OthersKept, ServesLicense
  <2> DEFINE x == Target(r)
             before == Snapshot(IF input[r].op = "create" THEN BlankRow ELSE rows[x],
                                RelatedTo(x, links))
             after == Snapshot(rows'[x], RelatedTo(x, links'))
             read == Snapshot(seen[r], linked[r])
  <2>3. /\ DOMAIN note[r] = {c \in AuditedColumns : read[c] # after[c]}
        /\ \A c \in DOMAIN note[r] : note[r][c] = [old |-> read[c], new |-> after[c]]
    BY <2>1, <2>2, CommittedLog
  <2> HIDE DEF x, before, after, read
  <2>4. \A c \in AuditedColumns : read[c] = before[c] =>
            IF before[c] = after[c] THEN c \notin DOMAIN note[r]
            ELSE c \in DOMAIN note[r] /\ note[r][c] = [old |-> before[c], new |-> after[c]]
    BY <2>3
  <2>5. QED
    BY <2>4 DEF x, before, after, read
<1>2. QED
  BY <1>1, NotesAreRight, PTL DEF LicenseSpec, OnlyStaleReadsEscapeAudit

----------------------------------------------------------------------------
(* Who waits for whom. *)

\* A request that has written its row waits for nobody: the licences are
\* different ones, and no other request has obligations.
LEMMA HoldersGo ==
    ASSUME IInv, NEW r \in Requests, image[r] # None, NEW q \in Requests \ {r}
    PROVE  ~Blocks(q, r)
<1>1. LicenseTypeOK /\ RequestInv(r) /\ RequestInv(q) /\ Exclusion
  BY DEF IInv
<1>2. input[r] # None /\ (image[q] # None => input[q] # None /\ Target(q) # Target(r))
  BY <1>1 DEF RequestInv, Control, Locking, Exclusion
<1>3. /\ Target(r) \in LicenseIds /\ IsPatchOf(Patch(r), Target(r))
      /\ image[q] # None => Target(q) \in LicenseIds
  BY <1>1, <1>2, BodyTyped
  DEF ServesLicense, LicenseTypeOK, StoreTypeOK, LicenseInputs, Target
<1>4. pc[r] \notin {"insert", "merge", "deactivate"} \cup Fields
  BY <1>1 DEF RequestInv, Control, Locking, Fields
<1>5. pc[r] = "upsert" => \A y \in found[r] : ~Holds(q, y)
  <2>1. pc[r] = "upsert" => found[r] \subseteq ObligationIds
    BY <1>1, <1>3 DEF RequestInv, Control, Linking, IsPatchOf, Relates, Opposite
  <2>2. QED
    BY <1>3, <2>1, IdsAssumption DEF Holds, Target
<1>6. (ins[q] \cup del[q]) \cap LinksTo(Target(r), found[r] \cup RelatedTo(Target(r), links)) = {}
  <2>1. CASE image[q] = None
    BY <1>1, <2>1 DEF RequestInv, Locking
  <2>2. CASE image[q] # None
    <3>1. ins[q] \cup del[q] \subseteq LinksTo(Target(q), ObligationIds)
      BY <1>1, <2>2 DEF RequestInv, Linking, Own
    <3>2. QED
      BY <1>2, <1>3, <2>2, <3>1, PairsApart
  <2>3. QED
    BY <2>1, <2>2
<1>7. Wanted(r) \cap (ins[q] \cup del[q]) = {} /\ Stale(r) \cap del[q] = {}
  BY <1>6 DEF Wanted, Stale, LinksTo
<1>8. QED
  BY <1>4, <1>5, <1>7 DEF Blocks

\* Licence requests never wait for each other in a circle, however many there
\* are: as long as one is running, one has all the locks it wants next.
THEOREM LicensesProceed == LicenseSpec => []SomebodyProceeds
<1>1. ASSUME IInv, NEW r \in Requests, pc[r] # "idle"
      PROVE  \E p \in Requests : pc[p] # "idle" /\ Granted(p)
  <2>1. CASE \E p \in Requests : image[p] # None
    <3>1. PICK p \in Requests : image[p] # None
      BY <2>1
    <3>2. pc[p] # "idle"
      BY <1>1, <3>1 DEF IInv, RequestInv, Locking
    <3>3. Granted(p)
      BY <1>1, <3>1, HoldersGo DEF Granted
    <3>4. QED
      BY <3>2, <3>3
  <2>2. CASE \A p \in Requests : image[p] = None
    <3>1. \A q \in Requests : ins[q] = {} /\ del[q] = {}
      BY <1>1, <2>2 DEF IInv, RequestInv, Locking
    <3>2. Granted(r)
      BY <1>1, <2>2, <3>1 DEF Granted, Blocks, Holds, IInv, RequestInv, Control, Fields
    <3>3. QED
      BY <1>1, <3>2
  <2>3. QED
    BY <2>1, <2>2
<1>2. IInv => SomebodyProceeds
  BY <1>1 DEF SomebodyProceeds
<1>3. QED
  BY <1>2, InvariantHolds, PTL
=============================================================================
