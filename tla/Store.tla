------------------------------- MODULE Store -------------------------------
(****************************************************************************)
(* The database as the request handlers meet it, and the steps the licence  *)
(* and obligation handlers share.                                           *)
(*                                                                          *)
(* A request is a goroutine of the gin server running one handler.  Each    *)
(* SQL statement of a handler is one atomic step; between two statements    *)
(* every other request may run.  PostgreSQL runs at READ COMMITTED: a query *)
(* sees what is committed when it starts, and what its own transaction      *)
(* wrote; an UPDATE waits for the transaction that changed the row and then *)
(* works on the newest version; the change stays private, and the row       *)
(* locked, until COMMIT.                                                    *)
(****************************************************************************)
EXTENDS Records

CONSTANTS
    Requests,        \* goroutines that may serve a request at the same time
    InitialRows,     \* the tables when the server starts
    InitialLinks,
    MaxRequests,     \* bound: requests served in a behaviour
    MaxFailures      \* bound: statements or commits the database fails

ASSUME StoreAssumption ==
    /\ InitialRows \in [Ids -> Row \cup {None}]
    /\ InitialLinks \subseteq Pairs
    /\ MaxRequests \in Nat
    /\ MaxFailures \in Nat

VARIABLES
    \* committed state
    rows,      \* license_dbs and obligations: id -> row, or None
    links,     \* obligation_licenses
    audits,    \* audits with their change_logs, in commit order
    vocabulary,\* what obligations added to the tables of their fields
    \* requests
    pc,        \* the statement a request runs next
    input,     \* the request: operation, id and body, or None
    seen,      \* the row it read first (oldLicense, oldObligation), or None
    linked,    \* the associations it preloaded with that row
    image,     \* the version of the row its transaction wrote, or None
    found,     \* the related records it found by id
    ins,       \* pairs its transaction inserted
    del,       \* pairs its transaction deleted
    entered,   \* types, classifications and categories its transaction inserted
    note,      \* the change log it wrote, or NoChanges
    reply,     \* the answer the handler gave, sent when it returns
    \* bounds
    served, failures

tables == <<rows, links, audits, vocabulary>>
bounds == <<served, failures>>
vars == <<rows, links, audits, vocabulary, pc, input, seen, linked, image, found, ins,
          del, entered, note, reply, served, failures>>

Labels == {"idle", "insert", "find", "preload", "merge", "write", "deactivate",
           "findRelated", "upsert", "link", "unlink", "reload", "commit", "reject"}
          \cup Fields

NoChanges == <<>>

Init ==
    /\ rows = InitialRows
    /\ links = InitialLinks
    /\ audits = <<>>
    /\ vocabulary = {}
    /\ pc = [r \in Requests |-> "idle"]
    /\ input = [r \in Requests |-> None]
    /\ seen = [r \in Requests |-> None]
    /\ linked = [r \in Requests |-> {}]
    /\ image = [r \in Requests |-> None]
    /\ found = [r \in Requests |-> {}]
    /\ ins = [r \in Requests |-> {}]
    /\ del = [r \in Requests |-> {}]
    /\ entered = [r \in Requests |-> {}]
    /\ note = [r \in Requests |-> NoChanges]
    /\ reply = [r \in Requests |-> "none"]
    /\ served = 0
    /\ failures = 0

----------------------------------------------------------------------------
(* Types. *)

AuditValues(c) == CASE c = "related" -> SUBSET Ids
                    [] c = "text"    -> Texts \cup {EmptyText}
                    [] OTHER         -> BOOLEAN \cup {EmptyText}

IsChangeLog(log) ==
    /\ DOMAIN log \subseteq AuditedColumns
    /\ \A c \in DOMAIN log : /\ log[c].old \in AuditValues(c)
                             /\ log[c].new \in AuditValues(c)

\* The types of the tables and of the requests, whose inputs are in Inputs.
StoreTypeOK(Inputs) ==
    /\ rows \in [Ids -> Row \cup {None}]
    /\ links \subseteq Pairs
    /\ audits \in Seq({audits[i] : i \in DOMAIN audits})
    /\ \A i \in DOMAIN audits : audits[i].id \in Ids /\ IsChangeLog(audits[i].changes)
    /\ vocabulary \subseteq Fields \X Words
    /\ pc \in [Requests -> Labels]
    /\ input \in [Requests -> Inputs \cup {None}]
    /\ seen \in [Requests -> Row \cup {None, BlankRow}]
    /\ linked \in [Requests -> SUBSET Ids]
    /\ image \in [Requests -> Row \cup {None}]
    /\ found \in [Requests -> SUBSET Ids]
    /\ ins \in [Requests -> SUBSET Pairs]
    /\ del \in [Requests -> SUBSET Pairs]
    /\ entered \in [Requests -> SUBSET (Fields \X Words)]
    /\ DOMAIN note = Requests /\ \A r \in Requests : IsChangeLog(note[r])
    /\ reply \in [Requests -> {"none", "ok", "rejected"}]
    /\ served \in 0..MaxRequests
    /\ failures \in 0..MaxFailures

----------------------------------------------------------------------------
(* Locks and visibility. *)

Goto(r, from, to) == /\ pc[r] = from
                     /\ pc' = [pc EXCEPT ![r] = to]

Target(r) == input[r].id
Patch(r) == input[r].patch

\* r wrote a version of row x that is not committed, and so holds its lock.
Holds(r, x) == image[r] # None /\ input[r].id = x

Visible(r) == (links \cup ins[r]) \ del[r]

\* The pairs that Association.Replace inserts, and those it deletes.
Wanted(r) == LinksTo(Target(r), found[r])
Stale(r) == LinksTo(Target(r), RelatedTo(Target(r), links) \ found[r])

\* The value that the body of r gives to field f.
Word(r, f) == <<f, Patch(r)[f]>>

\* Two values that no table lists meet at a unique index if they have the name
\* in common, or are classifications: those are saved without a colour, and the
\* colour is unique too.
Meets(v, w) == v = w \/ (v[1] = "classification" /\ w[1] = "classification")

\* The next statement of r waits for the transaction of q: an UPDATE, and the
\* insertion of a row by id, for the version of the row that q wrote; the upsert
\* of related rows for a version q wrote of one of them; the insertion of pairs
\* for one that q inserted or deleted; their deletion for one that q deleted;
\* the save of a type, classification or category for one that q inserted.
Blocks(q, r) ==
    \/ pc[r] \in {"insert", "merge", "deactivate"} /\ Holds(q, Target(r))
    \/ pc[r] = "upsert" /\ \E y \in found[r] : Holds(q, y)
    \/ pc[r] = "link" /\ Wanted(r) \cap (ins[q] \cup del[q]) # {}
    \/ pc[r] = "unlink" /\ Stale(r) \cap del[q] # {}
    \/ pc[r] \in Fields /\ \E w \in entered[q] : Meets(w, Word(r, pc[r]))

Granted(r) == \A q \in Requests \ {r} : ~Blocks(q, r)

\* A fresh uuid: no row has it, no request names it.
Fresh(x) == /\ rows[x] = None
            /\ \A q \in Requests : input[q] # None => input[q].id # x

Receive(r, op, x, p, label) ==
    /\ Goto(r, "idle", label)
    /\ served < MaxRequests
    /\ served' = served + 1
    /\ input' = [input EXCEPT ![r] = [op |-> op, id |-> x, patch |-> p]]
    /\ reply' = [reply EXCEPT ![r] = "none"]
    /\ UNCHANGED <<tables, seen, linked, image, found, ins, del, entered, note, failures>>

----------------------------------------------------------------------------
(* The save of an obligation's type, classification and category, which     *)
(* gorm runs after the hooks and before the obligation itself.              *)

\* Mutant: an update saves its associations backwards.
SavePlace_ByOperation(op) ==
    IF op = "update" THEN [type |-> 3, classification |-> 2, category |-> 1]
                     ELSE [type |-> 1, classification |-> 2, category |-> 3]

\* The associations are saved in the order of the fields of the Go struct, in a
\* creation as in an update.
SavePlace(op) == [type |-> 1, classification |-> 2, category |-> 3]

\* The hooks refuse an empty text before anything is saved.
Saves(p) == IF HasEmptyText(p) THEN {} ELSE DOMAIN p \cap Fields

\* The save that follows the i-th one, or the statement after the saves.
NextSave(op, p, i, last) ==
    LET later == {f \in Saves(p) : SavePlace(op)[f] > i}
    IN  IF later = {} THEN last
        ELSE CHOOSE f \in later : \A g \in later : SavePlace(op)[f] <= SavePlace(op)[g]

\* INSERT ... ON CONFLICT DO NOTHING, of a value that the hook did not find.
SaveWord(r) ==
    LET w == Word(r, pc[r])
        place == SavePlace(input[r].op)[pc[r]]
    IN  /\ pc[r] \in Fields
        /\ Granted(r)
        /\ pc' = [pc EXCEPT ![r] =
                  NextSave(input[r].op, Patch(r), place,
                           IF image[r] = None THEN "insert" ELSE "write")]
        /\ entered' = IF \E v \in vocabulary : Meets(v, w) THEN entered
                      ELSE [entered EXCEPT ![r] = @ \cup {w}]
        /\ UNCHANGED <<tables, bounds, input, seen, linked, image, found, ins, del, note,
                       reply>>

\* A field has an id if its value was inserted, or was there when the hook looked
\* it up: a value that somebody else adds is found or not, as the hook comes
\* after or before.  A creation without one of the ids breaks a foreign key.
MayResolve(r) ==
    \A f \in DOMAIN Patch(r) \cap Fields : Word(r, f) \in entered[r] \cup vocabulary

MayNotResolve(r) == \E f \in DOMAIN Patch(r) \cap Fields : Word(r, f) \notin entered[r]

----------------------------------------------------------------------------
(* PerformLicenseMapActions and PerformObligationMapActions, which replace  *)
(* the associations of the record: mirror images of each other.             *)

\* One SELECT by primary key for each id of the list.
FindRelated(r) ==
    /\ Goto(r, "findRelated", "upsert")
    /\ found' = [found EXCEPT ![r] = {y \in Patch(r)["related"] : rows[y] # None}]
    /\ UNCHANGED <<tables, bounds, input, seen, linked, image, ins, del, entered, note,
                   reply>>

\* Association.Replace first upserts the related rows (ON CONFLICT DO NOTHING,
\* so none changes) ...
UpsertRelated(r) ==
    /\ Goto(r, "upsert", "link")
    /\ Granted(r)
    /\ UNCHANGED <<tables, bounds, input, seen, linked, image, found, ins, del, entered,
                   note, reply>>

\* ... then inserts the pairs (ON CONFLICT DO NOTHING) ...
InsertLinks(r) ==
    /\ Goto(r, "link", "unlink")
    /\ Granted(r)
    /\ ins' = [ins EXCEPT ![r] = Wanted(r) \ links]
    /\ UNCHANGED <<tables, bounds, input, seen, linked, image, found, del, entered, note,
                   reply>>

\* Mutant: Association.Append in the place of Replace.
DeleteLinks_Append(r) ==
    /\ Goto(r, "unlink", IF found[r] = Patch(r)["related"] THEN "reload" ELSE "reject")
    /\ UNCHANGED <<tables, bounds, input, seen, linked, image, found, ins, del, entered,
                   note, reply>>

\* ... and deletes the record's other pairs.  An id that was not found is
\* reported only after all that.
DeleteLinks(r) ==
    /\ Goto(r, "unlink", IF found[r] = Patch(r)["related"] THEN "reload" ELSE "reject")
    /\ Granted(r)
    /\ del' = [del EXCEPT ![r] = Stale(r)]
    /\ UNCHANGED <<tables, bounds, input, seen, linked, image, found, ins, entered, note,
                   reply>>

ReplaceAssociations(r) ==
    FindRelated(r) \/ UpsertRelated(r) \/ InsertLinks(r) \/ DeleteLinks(r)

----------------------------------------------------------------------------
(* Reading back, auditing, and the end of the transaction. *)

\* Mutant: an updated row is read again outside its transaction.
WriteChangeLog_OutsideTransaction(r) ==
    note' = [note EXCEPT ![r] =
        ChangeLog(Snapshot(seen[r], linked[r]),
                  Snapshot(IF rows[Target(r)] = None THEN image[r] ELSE rows[Target(r)],
                           RelatedTo(Target(r), Visible(r))))]

\* Mutant: Replace works on the record that was read, whose associations the
\* change log then takes for the old ones.
WriteChangeLog_SharedModel(r) ==
    LET related == RelatedTo(Target(r), Visible(r))
    IN  note' = [note EXCEPT ![r] =
            ChangeLog(Snapshot(seen[r], related), Snapshot(image[r], related))]

\* The row is read again, with its associations, in the same transaction, and
\* compared with what was read first; the audit is written if they differ.
WriteChangeLog(r) ==
    note' = [note EXCEPT ![r] =
        ChangeLog(Snapshot(seen[r], linked[r]),
                  Snapshot(image[r], RelatedTo(Target(r), Visible(r))))]

\* The request is over; its goroutine can serve another one.
Finish(r) ==
    /\ pc' = [pc EXCEPT ![r] = "idle"]
    /\ input' = [input EXCEPT ![r] = None]
    /\ seen' = [seen EXCEPT ![r] = None]
    /\ linked' = [linked EXCEPT ![r] = {}]
    /\ image' = [image EXCEPT ![r] = None]
    /\ found' = [found EXCEPT ![r] = {}]
    /\ ins' = [ins EXCEPT ![r] = {}]
    /\ del' = [del EXCEPT ![r] = {}]
    /\ entered' = [entered EXCEPT ![r] = {}]
    /\ note' = [note EXCEPT ![r] = NoChanges]

Commit(r) ==
    /\ pc[r] = "commit"
    /\ rows' = [rows EXCEPT ![Target(r)] = image[r]]
    /\ links' = Visible(r)
    /\ audits' = IF DOMAIN note[r] = {} THEN audits
                 ELSE Append(audits, [id |-> Target(r), changes |-> note[r]])
    /\ vocabulary' = vocabulary \cup entered[r]
    /\ Finish(r)
    /\ UNCHANGED bounds

Rollback(r) == Finish(r) /\ UNCHANGED tables

\* Mutant: the transaction is neither committed nor rolled back.
Reject_LeavesOpen(r) ==
    /\ Goto(r, "reject", "idle")
    /\ reply' = [reply EXCEPT ![r] = "rejected"]
    /\ UNCHANGED <<tables, bounds, input, seen, linked, image, found, ins, del, entered,
                   note>>

\* Mutant: a transaction that was refused is rolled back and tried again.
Reject_Retries(r) ==
    /\ Goto(r, "reject", "find")
    /\ image' = [image EXCEPT ![r] = None]
    /\ ins' = [ins EXCEPT ![r] = {}]
    /\ del' = [del EXCEPT ![r] = {}]
    /\ entered' = [entered EXCEPT ![r] = {}]
    /\ UNCHANGED <<tables, bounds, input, seen, linked, found, note, reply>>

\* The handler found a reason to refuse: the callback of db.DB.Transaction
\* returns the error and gorm rolls back.
Reject(r) ==
    /\ pc[r] = "reject"
    /\ Rollback(r)
    /\ reply' = [reply EXCEPT ![r] = "rejected"]
    /\ UNCHANGED bounds

\* The database fails a statement (connection lost, disk full): the handler
\* answers with an error and gorm rolls back.
StatementFails(r) ==
    /\ pc[r] \notin {"idle", "reject", "commit"}
    /\ failures < MaxFailures
    /\ failures' = failures + 1
    /\ Rollback(r)
    /\ reply' = [reply EXCEPT ![r] = "rejected"]
    /\ UNCHANGED served
=============================================================================
