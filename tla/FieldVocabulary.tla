-------------------------- MODULE FieldVocabulary --------------------------
(****************************************************************************)
(* The values an obligation may take for one of its fields: its type, its   *)
(* classification or its category.  The three tables are handled by three   *)
(* copies of the same code; this module is one of them, told as the types.  *)
(*                                                                          *)
(* A type is created or reactivated by POST, deactivated by DELETE unless   *)
(* an obligation refers to it, and looked up by the hooks of the obligation *)
(* when one is created or updated.  Every SQL statement is a step, as in    *)
(* Store: what a transaction wrote is private, and its row locked, until it *)
(* commits.  The audit a change of type inserts is part of the statement    *)
(* before it: only the commit shows either.                                 *)
(****************************************************************************)
EXTENDS Naturals, Sequences

CONSTANTS
    Types,             \* names: obligation_types.type is UNIQUE
    ObligationIds,
    None,              \* no type, no request
    Requests,          \* goroutines that may serve a request at the same time
    InitialTypes,      \* obligation_types and obligations when the server starts
    InitialUse,
    MaxRequests,       \* bound: requests served in a behaviour
    MaxFailures        \* bound: statements or commits the database fails

Statuses == {"absent", "active", "inactive"}

Operations == {"createType", "deleteType", "createObligation", "updateObligation"}

Job == [op : Operations, type : Types, obligation : ObligationIds \cup {None}]

\* The audit of a change of status with its change log.
Note == [type : Types, old : Statuses, new : Statuses]

ASSUME VocabularyAssumption ==
    /\ InitialTypes \in [Types -> Statuses]
    /\ InitialUse \in [ObligationIds -> Types \cup {None}]
    /\ MaxRequests \in Nat
    /\ MaxFailures \in Nat
    /\ None \notin Types \cup ObligationIds \cup Statuses \cup Job \cup Note

VARIABLES
    types,     \* obligation_types: absent, active or inactive
    use,       \* obligations: the type each refers to, None before its creation
    history,   \* audits of type TYPE, in commit order
    pc,        \* the statement a request runs next
    job,       \* the request: operation, type and obligation, or None
    seen,      \* the status of the type when the request looked it up
    wrote,     \* the status its transaction gave the type, or None
    chosen,    \* the obligation's hook has a row of the type, with its id
    note,      \* the audit of its transaction, or None
    reply,     \* the answer
    news,      \* history variable: obligations that came to use its type since it counted
    served, failures

Labels == {"idle", "find", "insert", "count", "toggle", "lock", "resolve", "saveType",
           "store", "done", "reject", "commit"}

tables == <<types, use, history>>
bounds == <<served, failures>>
vars == <<types, use, history, pc, job, seen, wrote, chosen, note, reply, news,
          served, failures>>

Init ==
    /\ types = InitialTypes
    /\ use = InitialUse
    /\ history = <<>>
    /\ pc = [r \in Requests |-> "idle"]
    /\ job = [r \in Requests |-> None]
    /\ seen = [r \in Requests |-> None]
    /\ wrote = [r \in Requests |-> None]
    /\ chosen = [r \in Requests |-> FALSE]
    /\ note = [r \in Requests |-> None]
    /\ reply = [r \in Requests |-> "none"]
    /\ news = [r \in Requests |-> {}]
    /\ served = 0
    /\ failures = 0

----------------------------------------------------------------------------

Goto(r, from, to) == /\ pc[r] = from
                     /\ pc' = [pc EXCEPT ![r] = to]

Opposite(status) == IF status = "active" THEN "inactive" ELSE "active"

Deciding(r) == job[r] # None /\ job[r].op \in {"createType", "deleteType"}

\* No other transaction has inserted or updated the row of this type; none has
\* updated the row of this obligation.
TypeFree(r) == \A q \in Requests \ {r} : wrote[q] # None => job[q].type # job[r].type

ObligationFree(r) ==
    \A q \in Requests \ {r} :
        pc[q] \in {"resolve", "saveType", "store", "commit"} =>
            job[q].obligation # job[r].obligation

Receive(r, op, n, o, label) ==
    /\ Goto(r, "idle", label)
    /\ served < MaxRequests
    /\ served' = served + 1
    /\ job' = [job EXCEPT ![r] = [op |-> op, type |-> n, obligation |-> o]]
    /\ reply' = [reply EXCEPT ![r] = "none"]
    /\ UNCHANGED <<tables, seen, wrote, chosen, note, news, failures>>

ReceiveType(r) == \E n \in Types : \/ Receive(r, "createType", n, None, "find")
                                   \/ Receive(r, "deleteType", n, None, "find")

\* The id of a new obligation is a fresh uuid.
ReceiveObligation(r) ==
    \E n \in Types, o \in ObligationIds :
        IF use[o] = None
        THEN /\ \A q \in Requests : job[q] # None => job[q].obligation # o
             /\ Receive(r, "createObligation", n, o, "resolve")
        ELSE Receive(r, "updateObligation", n, o, "lock")

----------------------------------------------------------------------------
(* CreateObType and DeleteObligationType. *)

\* Mutant: a DELETE does not mind a type that is not found.
FindType_Unchecked(r) ==
    LET n == job[r].type
        next == CASE job[r].op = "deleteType" -> "count"
                  [] types[n] = "absent"      -> "insert"
                  [] types[n] = "active"      -> "reject"
                  [] OTHER                    -> "toggle"
    IN  /\ Goto(r, "find", next)
        /\ seen' = [seen EXCEPT ![r] = types[n]]
        /\ UNCHANGED <<tables, bounds, job, wrote, chosen, note, reply, news>>

\* POST: FirstOrCreate looks for the name first; an active type is a conflict,
\* an inactive one is reactivated.  DELETE: an unknown type is an error, an
\* inactive one is done with.
FindType(r) ==
    LET n == job[r].type
        next == CASE job[r].op = "createType" /\ types[n] = "absent"   -> "insert"
                  [] job[r].op = "createType" /\ types[n] = "inactive" -> "toggle"
                  [] job[r].op = "deleteType" /\ types[n] = "active"   -> "count"
                  [] job[r].op = "deleteType" /\ types[n] = "inactive" -> "done"
                  [] OTHER -> "reject"
    IN  /\ Goto(r, "find", next)
        /\ seen' = [seen EXCEPT ![r] = types[n]]
        /\ UNCHANGED <<tables, bounds, job, wrote, chosen, note, reply, news>>

\* Waits for another insertion of the name, and is refused if that one commits.
InsertType(r) ==
    /\ pc[r] = "insert" /\ TypeFree(r)
    /\ IF types[job[r].type] = "absent"
       THEN /\ Goto(r, "insert", "commit")
            /\ wrote' = [wrote EXCEPT ![r] = "active"]
            /\ note' = [note EXCEPT ![r] = [type |-> job[r].type, old |-> "absent",
                                            new |-> "active"]]
       ELSE /\ Goto(r, "insert", "reject")
            /\ UNCHANGED <<wrote, note>>
    /\ UNCHANGED <<tables, bounds, job, seen, chosen, reply, news>>

\* Mutant: the references are not counted.
CountReferences_Skipped(r) ==
    /\ Goto(r, "count", "toggle")
    /\ news' = [news EXCEPT ![r] = {}]
    /\ UNCHANGED <<tables, bounds, job, seen, wrote, chosen, note, reply>>

\* Outside of any transaction.
CountReferences(r) ==
    /\ Goto(r, "count",
            IF \E o \in ObligationIds : use[o] = job[r].type THEN "reject" ELSE "toggle")
    /\ news' = [news EXCEPT ![r] = {}]
    /\ UNCHANGED <<tables, bounds, job, seen, wrote, chosen, note, reply>>

\* Mutant: old and new are given to the change log the wrong way round.
ToggleType_Swapped(r) ==
    /\ Goto(r, "toggle", "commit")
    /\ TypeFree(r)
    /\ wrote' = [wrote EXCEPT ![r] = Opposite(seen[r])]
    /\ note' = [note EXCEPT ![r] = [type |-> job[r].type, old |-> Opposite(seen[r]),
                                    new |-> seen[r]]]
    /\ UNCHANGED <<tables, bounds, job, seen, chosen, reply, news>>

\* Writes the opposite of the status that was read, whatever it is by now.
ToggleType(r) ==
    /\ Goto(r, "toggle", "commit")
    /\ TypeFree(r)
    /\ wrote' = [wrote EXCEPT ![r] = Opposite(seen[r])]
    /\ note' = [note EXCEPT ![r] = [type |-> job[r].type, old |-> seen[r],
                                    new |-> Opposite(seen[r])]]
    /\ UNCHANGED <<tables, bounds, job, seen, chosen, reply, news>>

----------------------------------------------------------------------------
(* The hooks of an obligation and the save of its belongs-to associations. *)

\* UpdateObligation locks the row of the obligation before the hook runs.
LockObligation(r) ==
    /\ Goto(r, "lock", "resolve")
    /\ ObligationFree(r)
    /\ UNCHANGED <<tables, bounds, job, seen, wrote, chosen, note, reply, news>>

\* The hook reads all types and takes the active one of that name.  Its check
\* that there is one compares the printed zero uuid with "" and never fails.
ResolveType(r) ==
    /\ Goto(r, "resolve", "saveType")
    /\ seen' = [seen EXCEPT ![r] = types[job[r].type]]
    /\ chosen' = [chosen EXCEPT ![r] = types[job[r].type] = "active"]
    /\ UNCHANGED <<tables, bounds, job, wrote, note, reply, news>>

\* gorm saves the type before the obligation, ON CONFLICT DO NOTHING: a type
\* that is nowhere in the table is created, one that is there stays as it is
\* and gives its id only if the hook had it.
SaveType(r) ==
    /\ Goto(r, "saveType", "store")
    /\ TypeFree(r)
    /\ IF ~chosen[r] /\ types[job[r].type] = "absent"
       THEN /\ wrote' = [wrote EXCEPT ![r] = "active"]
            /\ chosen' = [chosen EXCEPT ![r] = TRUE]
       ELSE UNCHANGED <<wrote, chosen>>
    /\ UNCHANGED <<tables, bounds, job, seen, note, reply, news>>

\* Without an id a new obligation breaks the foreign key, and an update leaves
\* the column out.
StoreObligation(r) ==
    /\ Goto(r, "store",
            IF job[r].op = "createObligation" /\ ~chosen[r] THEN "reject" ELSE "commit")
    /\ UNCHANGED <<tables, bounds, job, seen, wrote, chosen, note, reply, news>>

----------------------------------------------------------------------------
(* The end of a request. *)

Finish(r) ==
    /\ pc' = [pc EXCEPT ![r] = "idle"]
    /\ job' = [job EXCEPT ![r] = None]
    /\ seen' = [seen EXCEPT ![r] = None]
    /\ wrote' = [wrote EXCEPT ![r] = None]
    /\ chosen' = [chosen EXCEPT ![r] = FALSE]
    /\ note' = [note EXCEPT ![r] = None]

\* A DELETE of an inactive type.
NothingToDo(r) ==
    /\ pc[r] = "done"
    /\ Finish(r)
    /\ reply' = [reply EXCEPT ![r] = "ok"]
    /\ news' = [news EXCEPT ![r] = {}]
    /\ UNCHANGED <<tables, bounds>>

Commit(r) ==
    LET n == job[r].type
        o == job[r].obligation
        uses == ~Deciding(r) /\ chosen[r]
    IN  /\ pc[r] = "commit"
        /\ types' = IF wrote[r] = None THEN types ELSE [types EXCEPT ![n] = wrote[r]]
        /\ use' = IF uses THEN [use EXCEPT ![o] = n] ELSE use
        /\ history' = IF note[r] = None THEN history ELSE Append(history, note[r])
        /\ news' = [q \in Requests |->
                       CASE q = r                              -> {}
                         [] uses /\ job[q] # None /\ job[q].type = n -> news[q] \cup {o}
                         [] OTHER                              -> news[q]]
        /\ Finish(r)
        /\ reply' = [reply EXCEPT ![r] = "ok"]
        /\ UNCHANGED bounds

\* A conflict, an unknown or referenced type, a broken constraint: rollback.
Reject(r) ==
    /\ pc[r] = "reject"
    /\ Finish(r)
    /\ reply' = [reply EXCEPT ![r] = "rejected"]
    /\ news' = [news EXCEPT ![r] = {}]
    /\ UNCHANGED <<tables, bounds>>

\* Mutant: a transaction that fails is neither committed nor rolled back.
Fail_LeavesOpen(r) ==
    /\ pc[r] \notin {"idle", "done", "reject"}
    /\ failures < MaxFailures
    /\ failures' = failures + 1
    /\ pc' = [pc EXCEPT ![r] = "idle"]
    /\ reply' = [reply EXCEPT ![r] = "rejected"]
    /\ UNCHANGED <<tables, job, seen, wrote, chosen, note, news, served>>

\* The database fails a statement or the commit.
Fail(r) ==
    /\ pc[r] \notin {"idle", "done", "reject"}
    /\ failures < MaxFailures
    /\ failures' = failures + 1
    /\ Finish(r)
    /\ reply' = [reply EXCEPT ![r] = "rejected"]
    /\ news' = [news EXCEPT ![r] = {}]
    /\ UNCHANGED <<tables, served>>

TypeStep(r) == FindType(r) \/ InsertType(r) \/ CountReferences(r) \/ ToggleType(r)

ObligationStep(r) ==
    LockObligation(r) \/ ResolveType(r) \/ SaveType(r) \/ StoreObligation(r)

FieldStep(r) ==
    TypeStep(r) \/ ObligationStep(r) \/ NothingToDo(r) \/ Commit(r) \/ Reject(r)

Next == \E r \in Requests :
            ReceiveType(r) \/ ReceiveObligation(r) \/ FieldStep(r) \/ Fail(r)

\* As in LicenseSpec.
Spec == /\ Init
        /\ [][Next]_vars
        /\ \A r \in Requests : WF_vars(FieldStep(r))

----------------------------------------------------------------------------
(* Properties. *)

\* Type invariant of the tables and requests; a type is toggled only when it
\* was found.
FieldsTypeOK ==
    /\ types \in [Types -> Statuses]
    /\ use \in [ObligationIds -> Types \cup {None}]
    /\ history \in Seq(Note)
    /\ pc \in [Requests -> Labels]
    /\ job \in [Requests -> Job \cup {None}]
    /\ seen \in [Requests -> Statuses \cup {None}]
    /\ wrote \in [Requests -> {"active", "inactive", None}]
    /\ chosen \in [Requests -> BOOLEAN]
    /\ note \in [Requests -> Note \cup {None}]
    /\ news \in [Requests -> SUBSET ObligationIds]
    /\ \A r \in Requests : /\ pc[r] \in {"count", "toggle"} => seen[r] \in {"active", "inactive"}
                           /\ job[r] = None <=> pc[r] = "idle"

InUse(n) == \E o \in ObligationIds : use[o] = n

\* An obligation comes to refer to an inactive type in two ways only, both of
\* which need a DELETE at the same time: the DELETE counted before the
\* obligation was committed, or the obligation was looked up before the DELETE
\* was.
InactiveUseNeedsRace ==
    [][\A o \in ObligationIds :
        LET bad(n) == n # None /\ types[n] = "inactive" IN
        bad(use[o])' /\ ~bad(use[o]) =>
            \E r \in Requests :
                \/ pc[r] = "commit" /\ Deciding(r) /\ o \in news[r]
                \/ pc[r] = "commit" /\ job[r].obligation = o /\ seen[r] = "active"]_vars

\* Every change of a type's status is in the audits, with the new status, but
\* for the types that the save of an obligation creates.
UnauditedOnlyBySave ==
    [][\A n \in Types : types'[n] # types[n] =>
        \/ /\ Len(history') = Len(history) + 1
           /\ history'[Len(history')].type = n
           /\ history'[Len(history')].new = types'[n]
        \/ types[n] = "absent" /\ InUse(n)']_vars

\* Locks are taken in one order, that of an obligation before that of a type, so
\* that as long as a request is running one of them gets the locks it wants.
SomebodyProceeds ==
    (\E r \in Requests : pc[r] # "idle") =>
        \E r \in Requests : /\ pc[r] # "idle"
                            /\ pc[r] = "lock" => ObligationFree(r)
                            /\ pc[r] \in {"insert", "toggle", "saveType"} => TypeFree(r)

\* Every request that is received ends.
FieldRequestEnds == \A r \in Requests : pc[r] # "idle" ~> pc[r] = "idle"
=============================================================================
