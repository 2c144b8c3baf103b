------------------------- MODULE ObligationHandlers -------------------------
(****************************************************************************)
(* CreateObligation, UpdateObligation and DeleteObligation, statement by    *)
(* statement.  UpdateObligation differs from UpdateLicense in that it reads *)
(* before its transaction begins, never writes the topic, and answers after *)
(* COMMIT.  DeleteObligation reads the row, clears `active` in memory and   *)
(* writes the whole record back in a second, independent statement, with no *)
(* audit.  gorm saves the type, the classification and the category of the  *)
(* body before the obligation: what that does to their tables, and what the *)
(* endpoints of those tables do meanwhile, is in FieldVocabulary; here it   *)
(* is a wait of a request that may hold its row for another one.            *)
(****************************************************************************)
EXTENDS Store

CONSTANTS ObligationForms,     \* bodies of POST /obligations
          ObligationPatches    \* bodies of PATCH /obligations/{id}

NoBody == [c \in {} |-> None]

ObligationInputs == [op : {"create"}, id : ObligationIds, patch : ObligationForms]
               \cup [op : {"update"}, id : ObligationIds, patch : ObligationPatches]
               \cup [op : {"delete"}, id : ObligationIds, patch : {NoBody}]

ASSUME ObligationInputAssumption ==
    /\ \A x \in ObligationIds : /\ \A f \in ObligationForms : IsFormOf(f, x)
                                /\ \A p \in ObligationPatches : IsPatchOf(p, x)
    /\ None \notin ObligationInputs

ServesObligation(r) == input[r] # None /\ input[r].id \in ObligationIds

Operation(r) == input[r].op

----------------------------------------------------------------------------

ReceiveCreateObligation(r) ==
    \E x \in ObligationIds, f \in ObligationForms :
        Fresh(x) /\ Receive(r, "create", x, f, NextSave("create", f, 0, "insert"))

ReceiveUpdateObligation(r) ==
    \E x \in ObligationIds, p \in ObligationPatches : Receive(r, "update", x, p, "find")

ReceiveDeleteObligation(r) ==
    \E x \in ObligationIds : Receive(r, "delete", x, NoBody, "find")

----------------------------------------------------------------------------

SaveAssociations(r) == ServesObligation(r) /\ SaveWord(r)

InsertObligation(r) ==
    /\ ServesObligation(r)
    /\ MayResolve(r)
    /\ Goto(r, "insert", "findRelated")
    /\ seen' = [seen EXCEPT ![r] = BlankRow]
    /\ image' = [image EXCEPT ![r] = Apply(BlankRow, Patch(r))]
    /\ UNCHANGED <<tables, bounds, input, linked, found, ins, del, entered, note, reply>>

\* The insertion breaks a foreign key.
RefuseInsertion(r) ==
    /\ ServesObligation(r)
    /\ MayNotResolve(r)
    /\ Goto(r, "insert", "reject")
    /\ UNCHANGED <<tables, bounds, input, seen, linked, image, found, ins, del, entered,
                   note, reply>>

FindObligation(r) ==
    /\ ServesObligation(r)
    /\ Goto(r, "find", IF rows[Target(r)] = None THEN "reject"
                       ELSE IF Operation(r) = "delete" THEN "deactivate" ELSE "preload")
    /\ seen' = [seen EXCEPT ![r] = rows[Target(r)]]
    /\ UNCHANGED <<tables, bounds, input, linked, image, found, ins, del, entered, note,
                   reply>>

ForbiddenObligationText(r) == /\ "text" \in DOMAIN Patch(r)
                              /\ Patch(r)["text"] # seen[r]["text"]
                              /\ ~seen[r]["updatable"]

PreloadLicenses(r) ==
    /\ ServesObligation(r)
    /\ Goto(r, "preload", IF ForbiddenObligationText(r) THEN "reject" ELSE "merge")
    /\ linked' = [linked EXCEPT ![r] = RelatedTo(Target(r), links)]
    /\ UNCHANGED <<tables, bounds, input, seen, image, found, ins, del, entered, note,
                   reply>>

\* Mutant: the row lock is not taken before the fields are written.
MergeObligationRef_NoLock(r) ==
    /\ ServesObligation(r)
    /\ Goto(r, "merge", NextSave("update", Patch(r), 0, "write"))
    /\ image' = [image EXCEPT ![r] = rows[Target(r)]]
    /\ UNCHANGED <<tables, bounds, input, seen, linked, found, ins, del, entered, note,
                   reply>>

\* The transaction begins here; the hook follows, and the saves.
MergeObligationRef(r) ==
    /\ ServesObligation(r)
    /\ Goto(r, "merge", NextSave("update", Patch(r), 0, "write"))
    /\ Granted(r)
    /\ image' = [image EXCEPT ![r] = rows[Target(r)]]
    /\ UNCHANGED <<tables, bounds, input, seen, linked, found, ins, del, entered, note,
                   reply>>

\* Mutant: the record that was read is saved with the fields of the body.
WriteObligation_FromRead(r) ==
    /\ ServesObligation(r)
    /\ ~HasEmptyText(Patch(r))
    /\ Goto(r, "write", IF Relates(Patch(r)) THEN "findRelated" ELSE "reload")
    /\ image' = [image EXCEPT ![r] = ApplyExcept(seen[r], Patch(r), {"name"})]
    /\ UNCHANGED <<tables, bounds, input, seen, linked, found, ins, del, entered, note,
                   reply>>

\* Omit("ExternalRef", "Licenses", "Topic"): a topic in the body is dropped, but
\* BeforeUpdate still refuses an empty one.
WriteObligation(r) ==
    /\ ServesObligation(r)
    /\ ~HasEmptyText(Patch(r))
    /\ Goto(r, "write", IF Relates(Patch(r)) THEN "findRelated" ELSE "reload")
    /\ image' = [image EXCEPT ![r] = ApplyExcept(image[r], Patch(r), {"name"})]
    /\ UNCHANGED <<tables, bounds, input, seen, linked, found, ins, del, entered, note,
                   reply>>

RefuseObligation(r) ==
    /\ ServesObligation(r)
    /\ HasEmptyText(Patch(r))
    /\ Goto(r, "write", "reject")
    /\ UNCHANGED <<tables, bounds, input, seen, linked, image, found, ins, del, entered,
                   note, reply>>

ReplaceLicenses(r) == ServesObligation(r) /\ ReplaceAssociations(r)

\* A creation answers here, inside its transaction.
ReloadObligation(r) ==
    /\ ServesObligation(r)
    /\ Goto(r, "reload", "commit")
    /\ WriteChangeLog(r)
    /\ reply' = IF Operation(r) = "create" THEN [reply EXCEPT ![r] = "ok"] ELSE reply
    /\ UNCHANGED <<tables, bounds, input, seen, linked, image, found, ins, del, entered>>

CommitObligation(r) ==
    /\ ServesObligation(r)
    /\ Commit(r)
    /\ reply' = [reply EXCEPT ![r] = "ok"]

\* Updates(&obligation) writes back every column of the record that was read.
DeactivateObligation(r) ==
    /\ ServesObligation(r)
    /\ pc[r] = "deactivate"
    /\ Granted(r)
    /\ rows' = [rows EXCEPT ![Target(r)] = [seen[r] EXCEPT !["active"] = FALSE]]
    /\ reply' = [reply EXCEPT ![r] = "ok"]
    /\ Finish(r)
    /\ UNCHANGED <<links, audits, vocabulary, bounds>>

RejectObligation(r) == ServesObligation(r) /\ Reject(r)

\* UpdateObligation looks at the error of its transaction, CreateObligation
\* drops it after it has answered.
ObligationCommitFails(r) ==
    /\ ServesObligation(r)
    /\ pc[r] = "commit"
    /\ failures < MaxFailures
    /\ failures' = failures + 1
    /\ Rollback(r)
    /\ reply' = IF Operation(r) = "create" THEN reply ELSE [reply EXCEPT ![r] = "rejected"]
    /\ UNCHANGED served

ObligationStatementFails(r) == ServesObligation(r) /\ StatementFails(r)

----------------------------------------------------------------------------

ObligationStep(r) ==
    \/ SaveAssociations(r) \/ InsertObligation(r) \/ RefuseInsertion(r)
    \/ FindObligation(r) \/ PreloadLicenses(r) \/ MergeObligationRef(r)
    \/ WriteObligation(r) \/ RefuseObligation(r)
    \/ ReplaceLicenses(r) \/ ReloadObligation(r)
    \/ CommitObligation(r) \/ DeactivateObligation(r) \/ RejectObligation(r)

ObligationNext ==
    \E r \in Requests :
        \/ ReceiveCreateObligation(r) \/ ReceiveUpdateObligation(r)
        \/ ReceiveDeleteObligation(r)
        \/ ObligationStep(r)
        \/ ObligationCommitFails(r) \/ ObligationStatementFails(r)
=============================================================================
