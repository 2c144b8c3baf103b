------------------------------ MODULE Listing ------------------------------
(****************************************************************************)
(* A client walks a paginated list, following the `next` links, while       *)
(* others change the table.  A page takes two queries without a common      *)
(* snapshot, one to count the rows and one to read them, and nothing ties   *)
(* a page to the one before it but its number.                              *)
(****************************************************************************)
EXTENDS Paging, FiniteSets

CONSTANTS
    Rows,           \* rows that the table may have
    Keys,           \* values of the column it is sorted by
    Lists,          \* the routes under study
    PageParams,     \* `page` and `limit` of a first request
    LimitParams,
    InitialTables,
    None,           \* no row
    MaxChanges,     \* bound: changes by others during a walk
    MaxFailures     \* bound: queries the database fails

\* A row as a list sees it: the sort column, and whether the filter takes it.
Entry == [key : Keys, matches : BOOLEAN]

Kinds == [sorted : BOOLEAN, countsMatching : BOOLEAN, history : BOOLEAN]

ASSUME ListingAssumption ==
    /\ IsFiniteSet(Rows) /\ Cardinality(Rows) < WordMax
    /\ Keys \subseteq Nat
    /\ None \notin Entry
    /\ Lists \subseteq Kinds
    /\ PageParams \cup LimitParams \subseteq Int
    /\ InitialTables \subseteq [Rows -> Entry \cup {None}]
    /\ MaxChanges \in Nat
    /\ MaxFailures \in Nat

\* GET /licenses filters, sorts by one of three columns, none of them unique,
\* and then counts and reads.
LicenseList == [sorted |-> TRUE, countsMatching |-> TRUE, history |-> FALSE]

\* GET /obligations counts before it adds the order, which changes nothing.
ObligationList == [sorted |-> TRUE, countsMatching |-> TRUE, history |-> FALSE]

\* GET /audits has no filter and gives the latest first.
AuditList == [sorted |-> TRUE, countsMatching |-> TRUE, history |-> TRUE]

\* GET /obligations/:id/audits is GET /audits with a filter.
ObligationAuditList == [sorted |-> TRUE, countsMatching |-> TRUE, history |-> TRUE]

\* GET /users counts before it adds the filter, and does not sort.
UserList == [sorted |-> FALSE, countsMatching |-> FALSE, history |-> FALSE]

VARIABLES
    table,     \* the rows stored
    pc,        \* what the client or the handler of its request does next
    list,      \* the list the client walks
    start,     \* the page it asked for first
    page, limit,
    total,     \* what Count answered
    chunk,     \* the rows of the page that is being read
    got,       \* how often the client has each row; 2 stands for more
    \* history of the walk
    still,     \* rows in the list all the time and not touched
    came,      \* keys at which rows came into the list
    gone,      \* keys at which rows left it
    between,   \* what happened between the two queries of a page
    \* bounds
    changes, failures

request == <<list, start, page, limit>>
answers == <<total, chunk, got>>
history == <<still, came, gone, between>>
vars == <<table, pc, request, answers, history, changes, failures>>

Labels == {"start", "count", "page", "entities", "answer", "done"}

Matching == {x \in Rows : table[x] # None /\ table[x].matches}

\* The orders in which PostgreSQL may give the rows: ties fall as they may.
Orders ==
    {s \in [1..Cardinality(Matching) -> Matching] :
        /\ \A i, j \in DOMAIN s : i # j => s[i] # s[j]
        /\ list.sorted => \A i, j \in DOMAIN s : i < j => table[s[i]].key <= table[s[j]].key}

Init ==
    /\ table \in InitialTables
    /\ pc = "start"
    /\ list \in Lists
    /\ start = 0 /\ page = 0 /\ limit = 0
    /\ total = 0 /\ chunk = <<>> /\ got = [x \in Rows |-> 0]
    /\ still = {} /\ came = {} /\ gone = {} /\ between = {}
    /\ changes = 0 /\ failures = 0

----------------------------------------------------------------------------
(* The client and the handler. *)

\* PaginationMiddleware parses the parameters.  A request that is refused for
\* another one of its parameters has no page and is left out.
Ask ==
    /\ pc = "start"
    /\ pc' = "count"
    /\ \E p \in PageParams, l \in LimitParams :
        /\ start' = PageOf(p)
        /\ page' = PageOf(p)
        /\ limit' = LimitOf(l)
    /\ still' = Matching
    /\ UNCHANGED <<table, list, answers, came, gone, between, changes, failures>>

\* query.Count(&totalRows)
Count ==
    /\ pc = "count"
    /\ pc' = "page"
    /\ total' = Cardinality(IF list.countsMatching THEN Matching
                            ELSE {x \in Rows : table[x] # None})
    /\ between' = {}
    /\ UNCHANGED <<table, request, chunk, got, still, came, gone, changes, failures>>

\* query.Offset(...).Limit(...), Find
ReadPage ==
    /\ pc = "page"
    /\ pc' = IF list.history THEN "entities" ELSE "answer"
    /\ \E s \in Orders : chunk' = PageOfRows(s, page, limit)
    /\ UNCHANGED <<table, request, total, got, history, changes, failures>>

\* GetAuditEntity for each audit.  What an audit is about is never removed, so
\* the entity is found unless the database fails.
FindEntities ==
    /\ pc = "entities"
    /\ pc' = "answer"
    /\ UNCHANGED <<table, request, answers, history, changes, failures>>

\* Mutant: the link leads to the page it is on.
Answer_SamePage ==
    /\ pc = "answer"
    /\ got' = [x \in Rows |-> IF got[x] < 2 /\ \E i \in DOMAIN chunk : chunk[i] = x
                              THEN got[x] + 1 ELSE got[x]]
    /\ pc' = IF HasNext(page, total, limit) THEN "count" ELSE "done"
    /\ page' = page
    /\ UNCHANGED <<table, list, start, limit, total, chunk, history, changes, failures>>

\* The middleware adds the meta data; the client follows `next`, if it is there.
Answer ==
    /\ pc = "answer"
    /\ got' = [x \in Rows |-> IF got[x] < 2 /\ \E i \in DOMAIN chunk : chunk[i] = x
                              THEN got[x] + 1 ELSE got[x]]
    /\ IF HasNext(page, total, limit)
       THEN pc' = "count" /\ page' = PageOf(page + 1)
       ELSE pc' = "done" /\ page' = page
    /\ UNCHANGED <<table, list, start, limit, total, chunk, history, changes, failures>>

\* A query fails, which Find reports even if it was Count; the client gets an
\* error and asks for the page again.
Fail ==
    /\ pc \in {"count", "page", "entities"}
    /\ failures < MaxFailures
    /\ failures' = failures + 1
    /\ pc' = "count"
    /\ UNCHANGED <<table, request, answers, history, changes>>

----------------------------------------------------------------------------
(* The other requests. *)

Walking == pc \notin {"start", "done"} /\ changes < MaxChanges

\* Row x is e from now on.
Put(x, e) ==
    LET leaves == x \in Matching /\ ~(e.matches /\ e.key = table[x].key)
        enters == e.matches /\ ~(x \in Matching /\ e.key = table[x].key)
        events == (IF leaves THEN {"gone"} ELSE {}) \cup (IF enters THEN {"came"} ELSE {})
    IN  /\ table' = [table EXCEPT ![x] = e]
        /\ still' = still \ {x}
        /\ gone' = IF leaves THEN gone \cup {table[x].key} ELSE gone
        /\ came' = IF enters THEN came \cup {e.key} ELSE came
        /\ between' = IF pc = "page" THEN between \cup events ELSE between

\* A row is created.  It may come anywhere, an audit too: its timestamp is taken
\* before the COMMIT that shows it, so a later one may be there already.
Insert(x) ==
    /\ Walking
    /\ table[x] = None
    /\ \E e \in Entry : Put(x, e)
    /\ changes' = changes + 1
    /\ UNCHANGED <<pc, request, answers, failures>>

\* A row is updated: its flags or its name change.  No handler changes an
\* audit, and none removes a row that is in a list.
Update(x) ==
    /\ Walking
    /\ ~list.history
    /\ table[x] # None
    /\ \E e \in Entry \ {table[x]} : Put(x, e)
    /\ changes' = changes + 1
    /\ UNCHANGED <<pc, request, answers, failures>>

Walk == Ask \/ Count \/ ReadPage \/ FindEntities \/ Answer

Next == Walk \/ Fail \/ \E x \in Rows : Insert(x) \/ Update(x)

\* The server answers, and the client follows every link it is given.
Spec == Init /\ [][Next]_vars /\ WF_vars(Walk)

----------------------------------------------------------------------------
(* Properties. *)

\* Type invariant of the table, of the client's request and of the walk.
ListingTypeOK ==
    /\ table \in [Rows -> Entry \cup {None}]
    /\ pc \in Labels
    /\ list \in Lists
    /\ {start, page, limit} \subseteq Word
    /\ pc # "start" => start # 0 /\ page # 0 /\ limit # 0
    /\ total \in 0..Cardinality(Rows)
    /\ chunk \in Seq(Rows) /\ Len(chunk) <= Cardinality(Rows)
    /\ got \in [Rows -> 0..2]
    /\ still \subseteq Matching
    /\ came \subseteq Keys /\ gone \subseteq Keys
    /\ between \subseteq {"came", "gone"}
    /\ changes \in 0..MaxChanges
    /\ failures \in 0..MaxFailures

\* A page has as many rows as the count says and the link to the next one is
\* there as long as rows are left, if nothing happened between the two queries
\* and the offset fits into a word.
PageAsCounted ==
    pc = "answer" /\ list.countsMatching /\ between = {} /\ page > 0 /\ limit > 0
        /\ (page - 1) * limit < WordMax =>
        LET left == total - (page - 1) * limit
        IN  /\ Len(chunk) = IF left < 0 THEN 0 ELSE IF left < limit THEN left ELSE limit
            /\ HasNext(page, total, limit) <=> left > limit

\* Nothing orders x against another row with its key.
Tied(x) == \/ table[x].key \in came \cup gone
           \/ \E y \in Matching \ {x} : table[y].key = table[x].key

\* A walk from the first page, or from one before it with a positive limit,
\* misses a row that was in the list all the time only if another row has the
\* same key, if a row before it left, so that the rows moved up across a page,
\* or if one came between the count and the last page.
SkippedOnlyByChange ==
    pc = "done" /\ list.sorted /\ (start = 1 \/ (start < 1 /\ limit > 0)) =>
        \A x \in still :
            \/ got[x] > 0
            \/ Tied(x)
            \/ \E k \in gone : k < table[x].key
            \/ "came" \in between

\* A walk that does not start before the first page gives such a row twice only
\* if another row has the same key, or if one came before it.
RepeatedOnlyByChange ==
    list.sorted /\ start >= 1 =>
        \A x \in still : got[x] > 1 =>
            Tied(x) \/ \E k \in came : k < table[x].key

\* A walk ends, wherever it starts and whatever its limit.
WalkEnds == (pc = "count") ~> (pc = "done")
=============================================================================
