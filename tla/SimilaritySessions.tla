------------------------- MODULE SimilaritySessions -------------------------
(****************************************************************************)
(* POST /licenses/similarity and POST /obligations/similarity.  Both set    *)
(* the threshold that the operator % compares with, a parameter of a        *)
(* PostgreSQL session, and query then.  The two statements are not in one   *)
(* transaction, so each takes a connection of its own from the pool of      *)
(* database/sql, and other requests use the same pool.                      *)
(****************************************************************************)
EXTENDS Naturals, Sequences

CONSTANTS
    Requests,      \* goroutines that may use the database at the same time
    Connections,   \* connections that may be open
    MaxIdle,       \* database/sql keeps that many idle connections, 2 by default
    Thresholds,
    Variable,      \* SIMILARITY_THRESHOLD, or anything that is no number
    CodeDefault,   \* 0.7
    ServerDefault, \* 0.3, the value a session starts with
    None           \* no connection; a connection that is closed

ASSUME SessionsAssumption ==
    /\ MaxIdle \in Nat \ {0}
    /\ {CodeDefault, ServerDefault} \subseteq Thresholds
    /\ None \notin Thresholds \cup Connections

VARIABLES
    session,     \* the threshold of each open connection
    idle,        \* the pool's free connections, the last one returned at the end
    pc,          \* what a request does next
    conn,        \* the connection a request holds
    own,         \* history: the one its SET ran on, if it succeeded, while it is open
    disturbed    \* history: another one used the pool since its SET began

vars == <<session, idle, pc, conn, own, disturbed>>

Labels == {"idle", "set", "between", "query", "other"}

Open == {c \in Connections : session[c] # None}

Init ==
    /\ session = [c \in Connections |-> None]
    /\ idle = <<>>
    /\ pc = [r \in Requests |-> "idle"]
    /\ conn = [r \in Requests |-> None]
    /\ own = [r \in Requests |-> None]
    /\ disturbed = [r \in Requests |-> FALSE]

\* Mutant: the variable is not parsed.
Threshold_Unparsed == Variable

\* A variable that does not parse is logged and the default taken.
Threshold == IF Variable \in Thresholds THEN Variable ELSE CodeDefault

----------------------------------------------------------------------------
(* The pool. *)

\* Everybody but r finds that the pool was used meanwhile.
Disturb(r) == [q \in Requests |-> disturbed[q] \/ q # r]

Goto(r, from, to) == /\ pc[r] = from
                     /\ pc' = [pc EXCEPT ![r] = to]

\* The connection returned last is taken first; a new one is opened if none is
\* free.
Acquire(r) ==
    IF idle # <<>>
    THEN /\ conn' = [conn EXCEPT ![r] = idle[Len(idle)]]
         /\ idle' = SubSeq(idle, 1, Len(idle) - 1)
         /\ UNCHANGED session
    ELSE \E c \in Connections \ Open :
            /\ conn' = [conn EXCEPT ![r] = c]
            /\ session' = [session EXCEPT ![c] = ServerDefault]
            /\ UNCHANGED idle

\* r returns its connection, whose threshold is t now; it is closed if the pool
\* has enough.
Release(r, t) ==
    /\ conn' = [conn EXCEPT ![r] = None]
    /\ IF Len(idle) < MaxIdle
       THEN /\ idle' = Append(idle, conn[r])
            /\ session' = [session EXCEPT ![conn[r]] = t]
       ELSE /\ session' = [session EXCEPT ![conn[r]] = None]
            /\ UNCHANGED idle

----------------------------------------------------------------------------
(* The requests. *)

BeginSet(r) ==
    /\ Goto(r, "idle", "set")
    /\ Acquire(r)
    /\ own' = [own EXCEPT ![r] = None]
    /\ disturbed' = [Disturb(r) EXCEPT ![r] = FALSE]

\* Mutant: SET LOCAL, which ends with the statement.
SetThreshold_Local(r) ==
    /\ Goto(r, "set", "between")
    /\ Release(r, session[conn[r]])
    /\ own' = [own EXCEPT ![r] = conn[r]]
    /\ disturbed' = Disturb(r)

\* SET pg_trgm.similarity_threshold
SetThreshold(r) ==
    /\ Goto(r, "set", "between")
    /\ Release(r, Threshold)
    /\ own' = [own EXCEPT ![r] = conn[r]]
    /\ disturbed' = Disturb(r)

\* SET fails, which is only logged: PostgreSQL refuses the value ...
SetFails(r) ==
    /\ Goto(r, "set", "between")
    /\ Release(r, session[conn[r]])
    /\ disturbed' = Disturb(r)
    /\ UNCHANGED own

\* ... or the connection is lost.
SetLosesConnection(r) ==
    /\ Goto(r, "set", "between")
    /\ session' = [session EXCEPT ![conn[r]] = None]
    /\ conn' = [conn EXCEPT ![r] = None]
    /\ disturbed' = Disturb(r)
    /\ UNCHANGED <<idle, own>>

BeginQuery(r) ==
    /\ Goto(r, "between", "query")
    /\ Acquire(r)
    /\ disturbed' = Disturb(r)
    /\ UNCHANGED own

\* SELECT ... WHERE rf_text % ?, and the answer
EndQuery(r) ==
    /\ Goto(r, "query", "idle")
    /\ Release(r, session[conn[r]])
    /\ disturbed' = Disturb(r)
    /\ UNCHANGED own

\* Any other handler takes a connection for a statement or a transaction.
BeginOther(r) ==
    /\ Goto(r, "idle", "other")
    /\ Acquire(r)
    /\ disturbed' = Disturb(r)
    /\ UNCHANGED own

EndOther(r) ==
    /\ Goto(r, "other", "idle")
    /\ Release(r, session[conn[r]])
    /\ disturbed' = Disturb(r)
    /\ UNCHANGED own

\* The server closes a connection that is free, and the pool notices: what was set
\* on it is gone.
LoseIdle(i) ==
    /\ session' = [session EXCEPT ![idle[i]] = None]
    /\ idle' = [j \in 1..(Len(idle) - 1) |-> IF j < i THEN idle[j] ELSE idle[j + 1]]
    /\ own' = [q \in Requests |-> IF own[q] = idle[i] THEN None ELSE own[q]]
    /\ UNCHANGED <<pc, conn, disturbed>>

Next ==
    \/ \E r \in Requests :
        \/ BeginSet(r) \/ SetThreshold(r) \/ SetFails(r) \/ SetLosesConnection(r)
        \/ BeginQuery(r) \/ EndQuery(r)
        \/ BeginOther(r) \/ EndOther(r)
    \/ \E i \in DOMAIN idle : LoseIdle(i)

Spec == Init /\ [][Next]_vars

----------------------------------------------------------------------------
(* Properties. *)

\* Type invariant of the pool and the requests.
SessionsTypeOK ==
    /\ session \in [Connections -> Thresholds \cup {None}]
    /\ idle \in Seq(Connections) /\ Len(idle) <= MaxIdle
    /\ pc \in [Requests -> Labels]
    /\ conn \in [Requests -> Connections \cup {None}]
    /\ own \in [Requests -> Connections \cup {None}]
    /\ disturbed \in [Requests -> BOOLEAN]

\* A similarity query compares with another threshold than the one it has set
\* only in three cases: the SET failed, the server closed the connection it ran on
\* while that was free, or another request used the pool between SET and query.
WrongThresholdNeedsDisturbance ==
    \A r \in Requests :
        pc[r] = "query" /\ own[r] # None /\ ~disturbed[r] =>
            session[conn[r]] = Threshold
=============================================================================
