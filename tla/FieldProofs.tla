---------------------------- MODULE FieldProofs ----------------------------
(****************************************************************************)
(* For any number of types, obligations and requests: an obligation comes   *)
(* to an inactive type only in a race with a DELETE of the type, and only   *)
(* the save of an obligation changes a type without an audit; the requests  *)
(* never deadlock.  The invariant says what each request has read and       *)
(* written at each of its statements, and that two requests never write the *)
(* same type.                                                               *)
(****************************************************************************)
EXTENDS FieldVocabulary, SequenceTheorems, TLAPS

\* What a request is about, and what it knows before it writes.
Knows(r) ==
    /\ job[r] = None <=> pc[r] = "idle"
    /\ pc[r] \in {"count", "toggle"} => Deciding(r)
    /\ pc[r] = "count" => job[r].op = "deleteType" /\ seen[r] = "active"
    /\ pc[r] = "toggle" => seen[r] = IF job[r].op = "deleteType" THEN "active" ELSE "inactive"
    /\ pc[r] \in {"find", "insert"} => Deciding(r)
    /\ pc[r] = "insert" => job[r].op = "createType"
    /\ pc[r] \in {"lock", "resolve", "saveType", "store"} => ~Deciding(r)
    /\ job[r] # None /\ ~Deciding(r) => job[r].obligation \in ObligationIds

\* What its transaction wrote: a DELETE the inactive status, the others the
\* active one, a decision with its audit, an obligation a type that is in
\* nobody's table.
Wrote(r) ==
    /\ wrote[r] # None => pc[r] \in {"store", "commit", "reject"}
    /\ wrote[r] # None /\ Deciding(r) =>
          /\ pc[r] = "commit"
          /\ wrote[r] = IF job[r].op = "deleteType" THEN "inactive" ELSE "active"
          /\ note[r] # None /\ note[r].type = job[r].type /\ note[r].new = wrote[r]
    /\ wrote[r] # None /\ ~Deciding(r) =>
          wrote[r] = "active" /\ chosen[r] /\ types[job[r].type] = "absent"
    /\ note[r] # None => wrote[r] # None /\ Deciding(r)

\* An obligation has a type that was active when it was looked up or that its
\* own transaction creates.
Chose(r) ==
    chosen[r] => /\ pc[r] \in {"saveType", "store", "commit", "reject"}
                 /\ seen[r] = "active" \/ wrote[r] = "active"

\* Whatever refers to a type that is being deleted came after the count.
Counted(r) ==
    job[r] # None /\ job[r].op = "deleteType" /\ pc[r] \in {"toggle", "commit"} =>
        \A o \in ObligationIds : use[o] = job[r].type => o \in news[r]

\* Two requests never write the same type.
TypeLocks ==
    \A q, r \in Requests :
        q # r /\ wrote[q] # None /\ wrote[r] # None => job[q].type # job[r].type

FieldInv ==
    /\ FieldsTypeOK
    /\ \A r \in Requests : Knows(r) /\ Wrote(r) /\ Chose(r) /\ Counted(r)
    /\ TypeLocks

----------------------------------------------------------------------------

\* A step of one request that leaves the tables alone: the others know and
\* hold what they did.
LEMMA OneRequest ==
  ASSUME FieldInv, NEW r \in Requests, UNCHANGED tables,
         pc' \in [Requests -> Labels], job' \in [Requests -> Job \cup {None}],
         seen' \in [Requests -> Statuses \cup {None}],
         wrote' \in [Requests -> {"active", "inactive", None}],
         chosen' \in [Requests -> BOOLEAN], note' \in [Requests -> Note \cup {None}],
         news' \in [Requests -> SUBSET ObligationIds],
         \A q \in Requests \ {r} :
            /\ pc'[q] = pc[q] /\ job'[q] = job[q] /\ seen'[q] = seen[q]
            /\ wrote'[q] = wrote[q] /\ chosen'[q] = chosen[q] /\ note'[q] = note[q]
            /\ news'[q] = news[q],
         Knows(r)', Wrote(r)', Chose(r)', Counted(r)',
         wrote'[r] # None => job'[r] = job[r] /\ (wrote[r] # None \/ TypeFree(r))
  PROVE  FieldInv'
  <1>1. \A q \in Requests \ {r} : (Knows(q) /\ Wrote(q) /\ Chose(q) /\ Counted(q))'
    BY DEF FieldInv, FieldsTypeOK, Knows, Wrote, Chose, Counted, Deciding, tables
  <1>2. \A q \in Requests : pc'[q] \in {"count", "toggle"} => seen'[q] \in {"active", "inactive"}
    BY <1>1 DEF Knows
  <1>3. \A q \in Requests : job'[q] = None <=> pc'[q] = "idle"
    BY <1>1 DEF Knows
  <1>4. FieldsTypeOK'
    BY <1>2, <1>3 DEF FieldInv, FieldsTypeOK, tables
  <1>5. TypeLocks'
    BY DEF FieldInv, TypeLocks, TypeFree
  <1> QED
    BY <1>1, <1>4, <1>5 DEF FieldInv

LEMMA InitInv == Init => FieldInv
  <1> SUFFICES ASSUME Init PROVE FieldInv
    OBVIOUS
  <1>1. FieldsTypeOK
    BY VocabularyAssumption DEF Init, FieldsTypeOK, Labels
  <1>2. ASSUME NEW r \in Requests PROVE Knows(r) /\ Wrote(r) /\ Chose(r) /\ Counted(r)
    BY DEF Init, Knows, Wrote, Chose, Counted, Deciding
  <1>3. TypeLocks
    BY DEF Init, TypeLocks
  <1> QED
    BY <1>1, <1>2, <1>3 DEF FieldInv

LEMMA ReceiveInv ==
  ASSUME FieldInv, NEW r \in Requests, ReceiveType(r) \/ ReceiveObligation(r)
  PROVE  FieldInv'
  <1>1. PICK op \in Operations, n \in Types, o \in ObligationIds \cup {None},
             l \in {"find", "resolve", "lock"} :
           /\ Receive(r, op, n, o, l)
           /\ IF l = "find" THEN op \in {"createType", "deleteType"}
              ELSE op \in {"createObligation", "updateObligation"} /\ o \in ObligationIds
    <2>1. CASE ReceiveType(r)
      BY <2>1 DEF ReceiveType, Operations
    <2>2. CASE ReceiveObligation(r)
      BY <2>2 DEF ReceiveObligation, Operations
    <2> QED
      BY <2>1, <2>2
  <1>2. FieldsTypeOK /\ Knows(r) /\ Wrote(r) /\ Chose(r)
    BY DEF FieldInv
  <1> DEFINE j == [op |-> op, type |-> n, obligation |-> o]
  <1>3. j \in Job /\ j # None /\ j.op = op /\ j.obligation = o
    BY VocabularyAssumption DEF Job
  <1>4. /\ pc' = [pc EXCEPT ![r] = l] /\ pc[r] = "idle" /\ job' = [job EXCEPT ![r] = j]
        /\ UNCHANGED <<tables, seen, wrote, chosen, note, news>>
    BY <1>1 DEF Receive, Goto
  <1>5. pc'[r] = l /\ job'[r] = j /\ wrote'[r] = None /\ ~chosen'[r] /\ note'[r] = None
    BY <1>2, <1>4 DEF FieldsTypeOK, Wrote, Chose
  <1>6. (Knows(r) /\ Wrote(r) /\ Chose(r) /\ Counted(r))'
    <2> HIDE DEF j
    <2> QED
      BY <1>1, <1>3, <1>5 DEF Knows, Wrote, Chose, Counted, Deciding
  <1>7. l \in Labels
    BY DEF Labels
  <1> HIDE DEF j
  <1> QED
    BY <1>2, <1>3, <1>4, <1>5, <1>6, <1>7, OneRequest DEF FieldsTypeOK

LEMMA TypeStepInv ==
  ASSUME FieldInv, NEW r \in Requests, TypeStep(r)
  PROVE  FieldInv'
  <1>1. FieldsTypeOK /\ Knows(r) /\ Wrote(r) /\ Chose(r)
    BY DEF FieldInv
  <1>2. pc[r] \in {"find", "insert", "count", "toggle"}
    BY DEF TypeStep, FindType, InsertType, CountReferences, ToggleType, Goto
  <1>3. /\ Deciding(r) /\ job[r] # None /\ job[r] \in Job /\ job[r].op \in {"createType", "deleteType"}
        /\ job[r].type \in Types /\ types[job[r].type] \in Statuses
        /\ wrote[r] = None /\ ~chosen[r] /\ note[r] = None
    BY <1>1, <1>2 DEF FieldsTypeOK, Knows, Wrote, Chose, Deciding, Job
  <1>4. job' = job /\ chosen' = chosen /\ UNCHANGED tables
    BY DEF TypeStep, FindType, InsertType, CountReferences, ToggleType
  <1>5. Deciding(r)'
    BY <1>3, <1>4 DEF Deciding
  <1>6. CASE FindType(r)
    <2>1. PICK to \in {"insert", "toggle", "count", "done", "reject"} :
             /\ pc' = [pc EXCEPT ![r] = to]
             /\ to = "insert" => job[r].op = "createType"
             /\ to = "toggle" => job[r].op = "createType" /\ types[job[r].type] = "inactive"
             /\ to = "count" => job[r].op = "deleteType" /\ types[job[r].type] = "active"
      BY <1>6 DEF FindType, Goto
    <2>2. /\ seen' = [seen EXCEPT ![r] = types[job[r].type]]
          /\ wrote' = wrote /\ note' = note /\ news' = news
      BY <1>6 DEF FindType
    <2>3. pc'[r] = to /\ seen'[r] = types[job[r].type]
      BY <1>1, <2>1, <2>2 DEF FieldsTypeOK
    <2>4. Knows(r)'
      BY <1>3, <1>4, <1>5, <2>1, <2>3 DEF Knows
    <2>5. (Wrote(r) /\ Chose(r) /\ Counted(r))'
      <3>1. pc'[r] # "toggle" \/ job[r].op # "deleteType"
        BY <2>1, <2>3
      <3>2. pc'[r] # "commit"
        BY <2>1, <2>3
      <3> QED
        BY <1>3, <1>4, <2>2, <3>1, <3>2 DEF Wrote, Chose, Counted
    <2>6. to \in Labels
      BY DEF Labels
    <2> QED
      BY <1>1, <1>3, <1>4, <2>1, <2>2, <2>4, <2>5, <2>6, OneRequest DEF FieldsTypeOK
  <1>7. CASE InsertType(r)
    <2>1. TypeFree(r) /\ pc[r] = "insert" /\ seen' = seen /\ news' = news
      BY <1>7 DEF InsertType
    <2>2. CASE types[job[r].type] = "absent"
      <3> DEFINE n == [type |-> job[r].type, old |-> "absent", new |-> "active"]
      <3>1. n \in Note /\ n # None /\ n.type = job[r].type /\ n.new = "active"
        BY <1>3, VocabularyAssumption DEF Note, Statuses
      <3>2. /\ pc' = [pc EXCEPT ![r] = "commit"] /\ wrote' = [wrote EXCEPT ![r] = "active"]
            /\ note' = [note EXCEPT ![r] = n]
        BY <1>7, <2>2 DEF InsertType, Goto
      <3> HIDE DEF n
      <3>3. pc'[r] = "commit" /\ wrote'[r] = "active" /\ note'[r] = n
        BY <1>1, <3>2 DEF FieldsTypeOK
      <3>4. job[r].op = "createType" /\ "active" # None
        BY <1>1, <2>1, VocabularyAssumption DEF Knows, Statuses
      <3>5. (Knows(r) /\ Wrote(r) /\ Chose(r) /\ Counted(r))'
        BY <1>3, <1>4, <1>5, <3>1, <3>3, <3>4 DEF Knows, Wrote, Chose, Counted
      <3> QED
        BY <1>1, <1>4, <2>1, <3>1, <3>2, <3>5, OneRequest DEF FieldsTypeOK, Labels
    <2>3. CASE types[job[r].type] # "absent"
      <3>1. pc' = [pc EXCEPT ![r] = "reject"] /\ wrote' = wrote /\ note' = note
        BY <1>7, <2>3 DEF InsertType, Goto
      <3>2. pc'[r] = "reject"
        BY <1>1, <3>1 DEF FieldsTypeOK
      <3>3. (Knows(r) /\ Wrote(r) /\ Chose(r) /\ Counted(r))'
        BY <1>1, <1>2, <1>3, <1>4, <1>5, <2>1, <3>1, <3>2 DEF Knows, Wrote, Chose, Counted
      <3> QED
        BY <1>1, <1>3, <1>4, <2>1, <3>1, <3>3, OneRequest DEF FieldsTypeOK, Labels
    <2> QED
      BY <2>2, <2>3
  <1>8. CASE CountReferences(r)
    <2>1. /\ pc[r] = "count" /\ UNCHANGED <<seen, wrote, note>>
          /\ news' = [news EXCEPT ![r] = {}]
      BY <1>8 DEF CountReferences, Goto
    <2>2. PICK to \in {"reject", "toggle"} :
             /\ pc' = [pc EXCEPT ![r] = to]
             /\ to = "toggle" => \A o \in ObligationIds : use[o] # job[r].type
      BY <1>8 DEF CountReferences, Goto
    <2>3. pc'[r] = to
      BY <1>1, <2>2 DEF FieldsTypeOK
    <2>4. job[r].op = "deleteType" /\ seen[r] = "active"
      BY <1>1, <2>1 DEF Knows
    <2>5. use' = use
      BY <1>4 DEF tables
    <2>6. (Knows(r) /\ Wrote(r) /\ Chose(r) /\ Counted(r))'
      BY <1>1, <1>3, <1>4, <1>5, <2>1, <2>2, <2>3, <2>4, <2>5 DEF Knows, Wrote, Chose, Counted
    <2> QED
      BY <1>1, <1>3, <1>4, <2>1, <2>2, <2>6, OneRequest DEF FieldsTypeOK, Labels
  <1>9. CASE ToggleType(r)
    <2> DEFINE w == Opposite(seen[r])
               n == [type |-> job[r].type, old |-> seen[r], new |-> w]
    <2>1. /\ TypeFree(r) /\ pc[r] = "toggle" /\ seen' = seen /\ news' = news
          /\ pc' = [pc EXCEPT ![r] = "commit"] /\ wrote' = [wrote EXCEPT ![r] = w]
          /\ note' = [note EXCEPT ![r] = n]
      BY <1>9 DEF ToggleType, Goto
    <2>2. w = (IF job[r].op = "deleteType" THEN "inactive" ELSE "active")
      BY <1>1, <2>1 DEF Knows, Opposite
    <2>3. n \in Note /\ n # None /\ n.type = job[r].type /\ n.new = w
      BY <1>1, <1>3, <2>1, <2>2, VocabularyAssumption DEF Note, Statuses, Knows
    <2> HIDE DEF n, w
    <2>4. pc'[r] = "commit" /\ wrote'[r] = w /\ note'[r] = n
      BY <1>1, <2>1 DEF FieldsTypeOK
    <2>5. Counted(r)'
      BY <1>4, <2>1 DEF FieldInv, Counted, tables
    <2>6. (Knows(r) /\ Wrote(r) /\ Chose(r))'
      BY <1>1, <1>3, <1>4, <1>5, <2>1, <2>2, <2>3, <2>4, VocabularyAssumption
      DEF Knows, Wrote, Chose, Statuses
    <2> QED
      BY <1>1, <1>4, <2>1, <2>2, <2>3, <2>5, <2>6, OneRequest DEF FieldsTypeOK, Labels
  <1> QED
    BY <1>6, <1>7, <1>8, <1>9 DEF TypeStep

LEMMA ObligationStepInv ==
  ASSUME FieldInv, NEW r \in Requests, ObligationStep(r)
  PROVE  FieldInv'
  <1>1. FieldsTypeOK /\ Knows(r) /\ Wrote(r) /\ Chose(r)
    BY DEF FieldInv
  <1>2. pc[r] \in {"lock", "resolve", "saveType", "store"}
    BY DEF ObligationStep, LockObligation, ResolveType, SaveType, StoreObligation, Goto
  <1>3. /\ ~Deciding(r) /\ job[r] # None /\ job[r] \in Job
        /\ job[r].type \in Types /\ types[job[r].type] \in Statuses
        /\ job[r].obligation \in ObligationIds
        /\ note[r] = None
    <2>1. ~Deciding(r) /\ job[r] # None /\ job[r] \in Job
      BY <1>1, <1>2 DEF FieldsTypeOK, Knows
    <2> QED
      BY <1>1, <1>2, <2>1 DEF FieldsTypeOK, Knows, Wrote, Job
  <1>4. /\ job' = job /\ note' = note /\ news' = news /\ UNCHANGED tables
    BY DEF ObligationStep, LockObligation, ResolveType, SaveType, StoreObligation
  <1>5. ~Deciding(r)' /\ job[r].op # "deleteType"
    BY <1>3, <1>4 DEF Deciding
  <1>6. CASE LockObligation(r)
    <2>1. pc[r] = "lock" /\ pc' = [pc EXCEPT ![r] = "resolve"] /\ UNCHANGED <<seen, wrote, chosen>>
      BY <1>6 DEF LockObligation, Goto
    <2>2. pc'[r] = "resolve" /\ wrote[r] = None /\ ~chosen[r]
      BY <1>1, <2>1 DEF FieldsTypeOK, Wrote, Chose
    <2>3. (Knows(r) /\ Wrote(r) /\ Chose(r) /\ Counted(r))'
      BY <1>3, <1>4, <1>5, <2>1, <2>2 DEF Knows, Wrote, Chose, Counted
    <2> QED
      BY <1>1, <1>4, <2>1, <2>2, <2>3, OneRequest DEF FieldsTypeOK, Labels
  <1>7. CASE ResolveType(r)
    <2>1. /\ pc[r] = "resolve" /\ pc' = [pc EXCEPT ![r] = "saveType"] /\ wrote' = wrote
          /\ seen' = [seen EXCEPT ![r] = types[job[r].type]]
          /\ chosen' = [chosen EXCEPT ![r] = types[job[r].type] = "active"]
      BY <1>7 DEF ResolveType, Goto
    <2>2. /\ pc'[r] = "saveType" /\ wrote[r] = None
          /\ seen'[r] = types[job[r].type] /\ (chosen'[r] <=> seen'[r] = "active")
      BY <1>1, <2>1 DEF FieldsTypeOK, Wrote
    <2>3. (Knows(r) /\ Wrote(r) /\ Chose(r) /\ Counted(r))'
      BY <1>3, <1>4, <1>5, <2>1, <2>2 DEF Knows, Wrote, Chose, Counted
    <2> QED
      BY <1>1, <1>3, <1>4, <2>1, <2>2, <2>3, OneRequest DEF FieldsTypeOK, Labels
  <1>8. CASE SaveType(r)
    <2>1. /\ pc[r] = "saveType" /\ pc' = [pc EXCEPT ![r] = "store"] /\ TypeFree(r)
          /\ seen' = seen
      BY <1>8 DEF SaveType, Goto
    <2>2. pc'[r] = "store" /\ wrote[r] = None
      BY <1>1, <2>1 DEF FieldsTypeOK, Wrote
    <2>3. CASE ~chosen[r] /\ types[job[r].type] = "absent"
      <3>1. wrote' = [wrote EXCEPT ![r] = "active"] /\ chosen' = [chosen EXCEPT ![r] = TRUE]
        BY <1>8, <2>3 DEF SaveType
      <3>2. wrote'[r] = "active" /\ chosen'[r] /\ types' = types /\ "active" # None
        BY <1>1, <1>4, <3>1, VocabularyAssumption DEF FieldsTypeOK, tables, Statuses
      <3>3. (Knows(r) /\ Wrote(r) /\ Chose(r) /\ Counted(r))'
        BY <1>3, <1>4, <1>5, <2>2, <2>3, <3>2 DEF Knows, Wrote, Chose, Counted
      <3> QED
        BY <1>1, <1>4, <2>1, <3>1, <3>3, OneRequest DEF FieldsTypeOK, Labels
    <2>4. CASE ~(~chosen[r] /\ types[job[r].type] = "absent")
      <3>1. wrote' = wrote /\ chosen' = chosen
        BY <1>8, <2>4 DEF SaveType
      <3>2. chosen[r] => seen[r] = "active"
        BY <2>2, <1>1, VocabularyAssumption DEF Chose, Statuses
      <3>3. (Knows(r) /\ Wrote(r) /\ Chose(r) /\ Counted(r))'
        BY <1>3, <1>4, <1>5, <2>1, <2>2, <3>1, <3>2 DEF Knows, Wrote, Chose, Counted
      <3> QED
        BY <1>1, <1>4, <2>1, <2>2, <3>1, <3>3, OneRequest DEF FieldsTypeOK, Labels
    <2> QED
      BY <2>3, <2>4
  <1>9. CASE StoreObligation(r)
    <2>1. PICK to \in {"reject", "commit"} : pc' = [pc EXCEPT ![r] = to]
      BY <1>9 DEF StoreObligation, Goto
    <2>2. pc[r] = "store" /\ pc'[r] = to /\ UNCHANGED <<seen, wrote, chosen>>
      BY <1>1, <1>9, <2>1 DEF FieldsTypeOK, StoreObligation, Goto
    <2>3. types' = types
      BY <1>4 DEF tables
    <2>4. (Knows(r) /\ Wrote(r) /\ Chose(r) /\ Counted(r))'
      BY <1>1, <1>3, <1>4, <1>5, <2>1, <2>2, <2>3 DEF Knows, Wrote, Chose, Counted
    <2> QED
      BY <1>1, <1>3, <1>4, <2>1, <2>2, <2>4, OneRequest DEF FieldsTypeOK, Labels
  <1> QED
    BY <1>6, <1>7, <1>8, <1>9 DEF ObligationStep

\* What is left of a request that has ended.
LEMMA FinishEffect ==
  ASSUME FieldsTypeOK, NEW r \in Requests, Finish(r)
  PROVE  /\ pc' \in [Requests -> Labels] /\ pc'[r] = "idle"
         /\ job' \in [Requests -> Job \cup {None}] /\ job'[r] = None
         /\ seen' \in [Requests -> Statuses \cup {None}]
         /\ wrote' \in [Requests -> {"active", "inactive", None}] /\ wrote'[r] = None
         /\ chosen' \in [Requests -> BOOLEAN] /\ ~chosen'[r]
         /\ note' \in [Requests -> Note \cup {None}] /\ note'[r] = None
         /\ \A q \in Requests \ {r} :
              /\ pc'[q] = pc[q] /\ job'[q] = job[q] /\ seen'[q] = seen[q]
              /\ wrote'[q] = wrote[q] /\ chosen'[q] = chosen[q] /\ note'[q] = note[q]
         /\ (Knows(r) /\ Wrote(r) /\ Chose(r) /\ Counted(r))'
  <1>1. /\ pc' \in [Requests -> Labels] /\ pc'[r] = "idle"
        /\ job' \in [Requests -> Job \cup {None}] /\ job'[r] = None
        /\ seen' \in [Requests -> Statuses \cup {None}]
        /\ wrote' \in [Requests -> {"active", "inactive", None}] /\ wrote'[r] = None
        /\ chosen' \in [Requests -> BOOLEAN] /\ ~chosen'[r]
        /\ note' \in [Requests -> Note \cup {None}] /\ note'[r] = None
    BY DEF FieldsTypeOK, Finish, Labels
  <1>2. \A q \in Requests \ {r} :
           /\ pc'[q] = pc[q] /\ job'[q] = job[q] /\ seen'[q] = seen[q]
           /\ wrote'[q] = wrote[q] /\ chosen'[q] = chosen[q] /\ note'[q] = note[q]
    BY DEF FieldsTypeOK, Finish
  <1>3. (Knows(r) /\ Wrote(r) /\ Chose(r) /\ Counted(r))'
    BY <1>1 DEF Knows, Wrote, Chose, Counted, Deciding
  <1> QED
    BY <1>1, <1>2, <1>3

LEMMA EndInv ==
  ASSUME FieldInv, NEW r \in Requests, NothingToDo(r) \/ Reject(r) \/ Fail(r)
  PROVE  FieldInv'
  <1>1. FieldsTypeOK
    BY DEF FieldInv
  <1>2. Finish(r) /\ UNCHANGED tables /\ news' = [news EXCEPT ![r] = {}]
    BY DEF NothingToDo, Reject, Fail
  <1>3. /\ news' \in [Requests -> SUBSET ObligationIds]
        /\ \A q \in Requests \ {r} : news'[q] = news[q]
    BY <1>1, <1>2 DEF FieldsTypeOK
  <1> QED
    BY <1>1, <1>2, <1>3, FinishEffect, OneRequest

\* What a commit does to the tables.
LEMMA CommitEffect ==
  ASSUME FieldInv, NEW r \in Requests, Commit(r)
  PROVE  /\ job[r] \in Job /\ pc[r] = "commit"
         /\ types' \in [Types -> Statuses]
         /\ \A n \in Types : types'[n] = IF wrote[r] # None /\ n = job[r].type
                                         THEN wrote[r] ELSE types[n]
         /\ use' \in [ObligationIds -> Types \cup {None}]
         /\ \A o \in ObligationIds :
                use'[o] = IF ~Deciding(r) /\ chosen[r] /\ o = job[r].obligation
                          THEN job[r].type ELSE use[o]
         /\ history' = IF note[r] = None THEN history ELSE Append(history, note[r])
         /\ history' \in Seq(Note)
  <1>1. FieldsTypeOK /\ pc[r] = "commit" /\ Knows(r)
    BY DEF FieldInv, Commit
  <1>2. job[r] \in Job /\ job[r].type \in Types /\ job[r] # None
    BY <1>1 DEF FieldsTypeOK, Job
  <1>3. ~Deciding(r) => job[r].obligation \in ObligationIds
    BY <1>1, <1>2 DEF Knows
  <1>4. wrote[r] # None => wrote[r] \in Statuses
    BY <1>1 DEF FieldsTypeOK, Statuses
  <1>5. types' = (IF wrote[r] = None THEN types ELSE [types EXCEPT ![job[r].type] = wrote[r]])
    BY DEF Commit
  <1>6. use' = (IF ~Deciding(r) /\ chosen[r]
                THEN [use EXCEPT ![job[r].obligation] = job[r].type] ELSE use)
    BY DEF Commit
  <1>7. history' = (IF note[r] = None THEN history ELSE Append(history, note[r]))
    BY DEF Commit
  <1>8. history' \in Seq(Note)
    BY <1>1, <1>7 DEF FieldsTypeOK
  <1>9. /\ types' \in [Types -> Statuses]
        /\ \A n \in Types : types'[n] = IF wrote[r] # None /\ n = job[r].type
                                        THEN wrote[r] ELSE types[n]
    BY <1>1, <1>2, <1>4, <1>5 DEF FieldsTypeOK
  <1>10. /\ use' \in [ObligationIds -> Types \cup {None}]
         /\ \A o \in ObligationIds :
                use'[o] = IF ~Deciding(r) /\ chosen[r] /\ o = job[r].obligation
                          THEN job[r].type ELSE use[o]
    BY <1>1, <1>2, <1>3, <1>6 DEF FieldsTypeOK
  <1> QED
    BY <1>1, <1>2, <1>7, <1>8, <1>9, <1>10

LEMMA CommitInv ==
  ASSUME FieldInv, NEW r \in Requests, Commit(r)
  PROVE  FieldInv'
  <1>1. FieldsTypeOK
    BY DEF FieldInv
  <1>2. Finish(r)
    BY DEF Commit
  <1>3. /\ news' \in [Requests -> SUBSET ObligationIds]
        /\ \A q \in Requests \ {r} :
              news'[q] = IF ~Deciding(r) /\ chosen[r] /\ job[q] # None
                            /\ job[q].type = job[r].type
                         THEN news[q] \cup {job[r].obligation} ELSE news[q]
    <2>1. ~Deciding(r) => job[r].obligation \in ObligationIds
      BY CommitEffect, VocabularyAssumption DEF FieldInv, Knows
    <2> QED
      BY <1>1, <2>1 DEF Commit, FieldsTypeOK
  <1>4. ASSUME NEW q \in Requests, q # r
        PROVE  (Knows(q) /\ Wrote(q) /\ Chose(q) /\ Counted(q))'
    <2>1. /\ pc'[q] = pc[q] /\ job'[q] = job[q] /\ seen'[q] = seen[q]
          /\ wrote'[q] = wrote[q] /\ chosen'[q] = chosen[q] /\ note'[q] = note[q]
      BY <1>1, <1>2, <1>4, FinishEffect
    <2>2. Knows(q) /\ Wrote(q) /\ Chose(q) /\ Counted(q)
      BY DEF FieldInv
    <2>3. (Deciding(q) <=> Deciding(q)')
      BY <2>1 DEF Deciding
    <2>4. Knows(q)' /\ Chose(q)'
      BY <2>1, <2>2, <2>3 DEF Knows, Chose
    <2>5. Wrote(q)'
      <3>1. ASSUME wrote[q] # None, ~Deciding(q) PROVE types'[job[q].type] = "absent"
        <4>1. wrote[r] # None => job[q].type # job[r].type
          BY <1>4, <3>1 DEF FieldInv, TypeLocks
        <4>2. job[q].type \in Types /\ types[job[q].type] = "absent"
          <5>1. job[q] \in Job
            BY <1>1, <2>2, <3>1 DEF FieldsTypeOK, Knows, Wrote
          <5> QED
            BY <2>2, <3>1, <5>1 DEF Wrote, Job
        <4> QED
          BY <4>1, <4>2, CommitEffect
      <3> QED
        BY <2>1, <2>2, <2>3, <3>1 DEF Wrote
    <2>6. Counted(q)'
      <3> SUFFICES ASSUME job[q] # None, job[q].op = "deleteType", pc[q] \in {"toggle", "commit"},
                          NEW o \in ObligationIds, use'[o] = job[q].type
                   PROVE  o \in news'[q]
        BY <2>1 DEF Counted
      <3>1. CASE use[o] = job[q].type
        BY <1>3, <1>4, <2>2, <3>1 DEF Counted
      <3>2. CASE use[o] # job[q].type
        <4>1. ~Deciding(r) /\ chosen[r] /\ o = job[r].obligation /\ job[r].type = job[q].type
          BY <3>2, CommitEffect
        <4> QED
          BY <1>3, <1>4, <4>1
      <3> QED
        BY <3>1, <3>2
    <2> QED
      BY <2>4, <2>5, <2>6
  <1>5. (Knows(r) /\ Wrote(r) /\ Chose(r) /\ Counted(r))'
    BY <1>1, <1>2, FinishEffect
  <1>6. FieldsTypeOK'
    <2>1. \A q \in Requests : Knows(q)'
      BY <1>4, <1>5
    <2>2. /\ \A q \in Requests : pc'[q] \in {"count", "toggle"} => seen'[q] \in {"active", "inactive"}
          /\ \A q \in Requests : job'[q] = None <=> pc'[q] = "idle"
      BY <2>1 DEF Knows
    <2>3. /\ pc' \in [Requests -> Labels] /\ job' \in [Requests -> Job \cup {None}]
          /\ seen' \in [Requests -> Statuses \cup {None}]
          /\ wrote' \in [Requests -> {"active", "inactive", None}]
          /\ chosen' \in [Requests -> BOOLEAN] /\ note' \in [Requests -> Note \cup {None}]
      BY <1>1, <1>2, FinishEffect
    <2>4. /\ types' \in [Types -> Statuses]
          /\ use' \in [ObligationIds -> Types \cup {None}] /\ history' \in Seq(Note)
      BY CommitEffect
    <2> QED
      BY <1>3, <2>2, <2>3, <2>4 DEF FieldsTypeOK
  <1>7. TypeLocks'
    <2>1. wrote'[r] = None /\ \A q \in Requests \ {r} : job'[q] = job[q] /\ wrote'[q] = wrote[q]
      BY <1>1, <1>2, FinishEffect
    <2> QED
      BY <2>1 DEF FieldInv, TypeLocks
  <1> QED
    BY <1>4, <1>5, <1>6, <1>7 DEF FieldInv

LEMMA NextInv == FieldInv /\ [Next]_vars => FieldInv'
  <1> SUFFICES ASSUME FieldInv, [Next]_vars PROVE FieldInv'
    OBVIOUS
  <1>1. CASE UNCHANGED vars
    BY <1>1 DEF vars, FieldInv, FieldsTypeOK, Knows, Wrote, Chose, Counted, TypeLocks, Deciding
  <1>2. ASSUME NEW r \in Requests,
               \/ ReceiveType(r) \/ ReceiveObligation(r)
               \/ TypeStep(r) \/ ObligationStep(r) \/ Commit(r)
               \/ NothingToDo(r) \/ Reject(r) \/ Fail(r)
        PROVE  FieldInv'
    BY <1>2, ReceiveInv, TypeStepInv, ObligationStepInv, CommitInv, EndInv
  <1> QED
    BY <1>1, <1>2 DEF Next, FieldStep

\* Nothing but a commit touches the tables.
LEMMA OnlyCommits ==
  ASSUME [Next]_vars, UNCHANGED tables => FALSE
  PROVE  \E r \in Requests : Commit(r)
  <1>1. ASSUME NEW r \in Requests, ReceiveType(r) \/ ReceiveObligation(r)
        PROVE  UNCHANGED tables
    BY <1>1 DEF ReceiveType, ReceiveObligation, Receive
  <1>2. ASSUME NEW r \in Requests, TypeStep(r) \/ ObligationStep(r)
        PROVE  UNCHANGED tables
    BY <1>2 DEF TypeStep, FindType, InsertType, CountReferences, ToggleType,
                ObligationStep, LockObligation, ResolveType, SaveType, StoreObligation
  <1>3. ASSUME NEW r \in Requests, NothingToDo(r) \/ Reject(r) \/ Fail(r)
        PROVE  UNCHANGED tables
    BY <1>3 DEF NothingToDo, Reject, Fail
  <1>4. UNCHANGED vars => UNCHANGED tables
    BY DEF vars, tables
  <1> QED
    BY <1>1, <1>2, <1>3, <1>4 DEF Next, FieldStep

----------------------------------------------------------------------------

\* The tables of types and of obligations, the audits and the requests keep
\* their types; a type is toggled only when it was found.
THEOREM FieldsTypeCorrect == Spec => []FieldsTypeOK
  <1>1. FieldInv => FieldsTypeOK
    BY DEF FieldInv
  <1> QED
    BY <1>1, InitInv, NextInv, PTL DEF Spec

\* An obligation comes to refer to an inactive type only if the DELETE of the
\* type had counted before the obligation was committed, or the obligation had
\* looked its type up before it was deleted.
THEOREM InactiveUseIsARace == Spec => InactiveUseNeedsRace
  <1> DEFINE bad(o) == use[o] # None /\ types[use[o]] = "inactive"
             race(o) == \E r \in Requests :
                          \/ pc[r] = "commit" /\ Deciding(r) /\ o \in news[r]
                          \/ pc[r] = "commit" /\ job[r].obligation = o /\ seen[r] = "active"
  <1>1. ASSUME FieldInv, [Next]_vars, NEW o \in ObligationIds, bad(o)', ~bad(o)
        PROVE  race(o)
    <2>1. PICK r \in Requests : Commit(r)
      <3>1. UNCHANGED tables => FALSE
        BY <1>1 DEF tables
      <3> QED
        BY <1>1, <3>1, OnlyCommits
    <2>2. FieldsTypeOK /\ Wrote(r) /\ Chose(r) /\ Counted(r) /\ pc[r] = "commit"
      BY <1>1, <2>1 DEF FieldInv, Commit
    <2>3. use'[o] \in Types /\ types'[use'[o]] = "inactive"
      BY <1>1, <2>1, CommitEffect
    <2>4. CASE use'[o] = use[o]
      <3>1. types[use[o]] # "inactive"
        BY <1>1, <2>4
      <3>2. wrote[r] = "inactive" /\ wrote[r] # None /\ use[o] = job[r].type
        BY <1>1, <2>1, <2>3, <2>4, <3>1, CommitEffect
      <3>3. Deciding(r)
        BY <2>2, <3>2 DEF Wrote
      <3>4. job[r] # None /\ job[r].op = "deleteType"
        BY <2>2, <3>2, <3>3 DEF Wrote, Deciding
      <3> QED
        BY <2>2, <3>2, <3>3, <3>4 DEF Counted
    <2>5. CASE use'[o] # use[o]
      <3>1. ~Deciding(r) /\ chosen[r] /\ o = job[r].obligation /\ use'[o] = job[r].type
        BY <1>1, <2>1, <2>5, CommitEffect
      <3>2. wrote[r] # "active"
        <4> SUFFICES ASSUME wrote[r] = "active" PROVE FALSE
          OBVIOUS
        <4>1. "active" # None
          BY VocabularyAssumption DEF Statuses
        <4> QED
          BY <1>1, <2>1, <2>3, <3>1, <4>1, CommitEffect
      <3> QED
        BY <2>2, <3>1, <3>2 DEF Chose
    <2> QED
      BY <2>4, <2>5
  <1>2. FieldInv /\ [Next]_vars
          => [\A o \in ObligationIds : bad(o)' /\ ~bad(o) => race(o)]_vars
    BY <1>1
  <1>3. Spec => []FieldInv
    BY InitInv, NextInv, PTL DEF Spec
  <1> QED
    BY <1>2, <1>3, PTL DEF Spec, InactiveUseNeedsRace

\* Every change of a type is in the audits with its new status, except that the
\* save of an obligation creates a type without one.
THEOREM TypeChangesAreAudited == Spec => UnauditedOnlyBySave
  <1> DEFINE audited(n) == /\ Len(history') = Len(history) + 1
                           /\ history'[Len(history')].type = n
                           /\ history'[Len(history')].new = types'[n]
             saved(n) == types[n] = "absent" /\ InUse(n)'
  <1>1. ASSUME FieldInv, [Next]_vars, NEW n \in Types, types'[n] # types[n]
        PROVE  audited(n) \/ saved(n)
    <2>1. PICK r \in Requests : Commit(r)
      <3>1. UNCHANGED tables => FALSE
        BY <1>1 DEF tables
      <3> QED
        BY <1>1, <3>1, OnlyCommits
    <2>2. FieldsTypeOK /\ Wrote(r) /\ Knows(r) /\ pc[r] = "commit"
      BY <1>1, <2>1 DEF FieldInv, Commit
    <2>3. wrote[r] # None /\ n = job[r].type /\ types'[n] = wrote[r]
      BY <1>1, <2>1, CommitEffect
    <2>4. CASE Deciding(r)
      <3>1. note[r] # None /\ note[r].type = n /\ note[r].new = wrote[r]
        BY <2>2, <2>3, <2>4 DEF Wrote
      <3>2. note[r] \in Note /\ history \in Seq(Note)
        BY <2>2, <3>1 DEF FieldsTypeOK
      <3>3. history' = Append(history, note[r])
        BY <1>1, <2>1, <3>1, CommitEffect
      <3>4. Len(history') = Len(history) + 1 /\ history'[Len(history')] = note[r]
        BY <3>2, <3>3
      <3> QED
        BY <2>3, <3>1, <3>4
    <2>5. CASE ~Deciding(r)
      <3>1. chosen[r] /\ types[n] = "absent"
        BY <2>2, <2>3, <2>5 DEF Wrote
      <3>2. job[r].obligation \in ObligationIds
        BY <1>1, <2>1, <2>2, <2>5, CommitEffect, VocabularyAssumption DEF Knows
      <3>3. use'[job[r].obligation] = n
        BY <1>1, <2>1, <2>3, <2>5, <3>1, <3>2, CommitEffect
      <3> QED
        BY <3>1, <3>2, <3>3 DEF InUse
    <2> QED
      BY <2>4, <2>5
  <1>2. FieldInv /\ [Next]_vars
          => [\A n \in Types : types'[n] # types[n] =>
                 \/ /\ Len(history') = Len(history) + 1
                    /\ history'[Len(history')].type = n
                    /\ history'[Len(history')].new = types'[n]
                 \/ types[n] = "absent" /\ InUse(n)']_vars
    BY <1>1
  <1>3. Spec => []FieldInv
    BY InitInv, NextInv, PTL DEF Spec
  <1> QED
    BY <1>2, <1>3, PTL DEF Spec, UnauditedOnlyBySave

\* Requests for types and for obligations never wait for each other in a circle:
\* who has written a type waits for nobody, and who has locked an obligation
\* waits for a type only.
THEOREM FieldsProceed == Spec => []SomebodyProceeds
<1> DEFINE Free(r) == /\ pc[r] # "idle"
                      /\ pc[r] = "lock" => ObligationFree(r)
                      /\ pc[r] \in {"insert", "toggle", "saveType"} => TypeFree(r)
<1>1. ASSUME FieldInv, NEW r \in Requests, pc[r] \in {"insert", "toggle", "saveType"}
      PROVE  \E p \in Requests : Free(p)
  <2>1. CASE TypeFree(r)
    BY <1>1, <2>1
  <2>2. CASE ~TypeFree(r)
    <3>1. PICK q \in Requests : wrote[q] # None
      BY <2>2 DEF TypeFree
    <3>2. pc[q] \in {"store", "commit", "reject"}
      BY <1>1, <3>1 DEF FieldInv, Wrote
    <3>3. QED
      BY <3>2
  <2>3. QED
    BY <2>1, <2>2
<1>2. ASSUME FieldInv, NEW r \in Requests, pc[r] # "idle"
      PROVE  \E p \in Requests : Free(p)
  <2>1. CASE pc[r] = "lock" /\ ~ObligationFree(r)
    <3>1. PICK q \in Requests : pc[q] \in {"resolve", "saveType", "store", "commit"}
      BY <2>1 DEF ObligationFree
    <3>2. CASE pc[q] = "saveType"
      BY <1>1, <1>2, <3>2
    <3>3. CASE pc[q] # "saveType"
      BY <3>1, <3>3
    <3>4. QED
      BY <3>2, <3>3
  <2>2. CASE pc[r] = "lock" /\ ObligationFree(r)
    BY <2>2
  <2>3. CASE pc[r] # "lock"
    BY <1>1, <1>2, <2>3
  <2>4. QED
    BY <2>1, <2>2, <2>3
<1>3. FieldInv => SomebodyProceeds
  BY <1>2 DEF SomebodyProceeds
<1>4. QED
  BY <1>3, InitInv, NextInv, PTL DEF Spec
=============================================================================
