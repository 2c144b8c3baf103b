------------------------------ MODULE Accounts ------------------------------
(****************************************************************************)
(* The users of the service, their OIDC clients and the requests that       *)
(* create, change, deactivate, log in and authenticate them.  As in Store,  *)
(* every SQL statement is a step and PostgreSQL runs at READ COMMITTED; but *)
(* the two unique columns, the name and the e-mail address, have an index   *)
(* each, and an INSERT, or an UPDATE that changes one of them, enters them  *)
(* one after the other: each may make it wait, with its row locked and the  *)
(* earlier entry made.                                                      *)
(****************************************************************************)
EXTENDS Naturals

CONSTANTS
    UserIds, Names, Emails, Displays,
    Clients,           \* oidc_clients.client_id is UNIQUE
    Blank,             \* the empty client_id, which gorm leaves out of a WHERE
    None,
    External,          \* user names the OIDC provider issues tokens for
    Requests,          \* goroutines that may serve a request at the same time
    UserPatches,       \* bodies of PATCH /users/{username}
    ProfilePatches,    \* bodies of PATCH /users
    NewEmails,         \* addresses, display names and levels in bodies of POST /users
    NewDisplays,
    NewLevels,
    InitialUsers, InitialClients, InitialSessions,
    MaxRequests,       \* bound: requests served in a behaviour
    MaxFailures        \* bound: statements or commits that fail, tokens that expire

Levels == {"USER", "ADMIN"}

\* What users.user_password may hold: nothing for a user who came by OIDC, and
\* text in clear for one who was inserted by hand.
Passwords == {"absent", "clear", "hashed"}

\* user_name and user_email, which are UNIQUE, display_name, and so on.
UserRow == [name : Names, email : Emails, display : Displays, level : Levels,
            active : BOOLEAN, password : Passwords]

UserColumns == {"name", "email", "display", "level", "active", "password"}
AuditedUserColumns == UserColumns \ {"password"}

\* An access token and a refresh token, which lives longer.
SessionStates == {"none", "refreshable", "live"}

IsUserPatch(p) == \E row \in UserRow :
                      /\ DOMAIN p \subseteq UserColumns
                      /\ \A c \in DOMAIN p : p[c] = row[c]

\* What a request is about: its operation, the user of its token, the user it
\* names or the client, and the fields of its body.
Jobs ==
    [op : {"createUser"}, actor : UserIds, name : Names, email : NewEmails,
     display : NewDisplays, level : NewLevels]
    \cup [op : {"createOidcUser"}, name : External, email : NewEmails,
          display : NewDisplays]
    \cup [op : {"updateUser"}, actor : UserIds, name : Names, patch : UserPatches]
    \cup [op : {"updateProfile"}, actor : UserIds, patch : ProfilePatches]
    \cup [op : {"deleteUser"}, actor : UserIds, name : Names]
    \cup [op : {"login"}, name : Names]
    \cup [op : {"refresh"}, actor : UserIds]
    \cup [op : {"addClient", "revoke"}, actor : UserIds, client : Clients]

\* An entry of a change log: a new user has no old values.
Change(values) == [old : values \cup {None}, new : values]

\* An audit of a user: by whom, of whom, and the columns that changed with
\* their values before and after.
UserAudits(columns) ==
    [by : UserIds, of : UserIds,
     changes : [columns -> Change(Names) \cup Change(Emails) \cup Change(Displays)
                              \cup Change(Levels) \cup Change(BOOLEAN)]]

\* The unique columns and the foreign keys hold when the server starts.
ASSUME AccountsAssumption ==
    /\ InitialUsers \in [UserIds -> UserRow \cup {None}]
    /\ \A u, v \in {w \in UserIds : InitialUsers[w] # None} :
           \/ InitialUsers[u].name = InitialUsers[v].name
           \/ InitialUsers[u].email = InitialUsers[v].email
           => u = v
    /\ InitialClients \in [Clients -> {u \in UserIds : InitialUsers[u] # None} \cup {None}]
    /\ InitialSessions \in [UserIds -> SessionStates]
    /\ \A u \in UserIds : InitialSessions[u] # "none" => InitialUsers[u] # None
    /\ Blank \in Clients
    /\ External \subseteq Names
    /\ \A p \in UserPatches \cup ProfilePatches : IsUserPatch(p)
    /\ \A p \in ProfilePatches : DOMAIN p \subseteq {"email", "display", "password"}
    /\ NewEmails \subseteq Emails /\ NewDisplays \subseteq Displays
    /\ NewLevels \subseteq Levels
    /\ {MaxRequests, MaxFailures} \subseteq Nat
    /\ None \notin UserIds \cup UserRow \cup Jobs
    /\ \A columns \in SUBSET AuditedUserColumns : None \notin UserAudits(columns)

VARIABLES
    users,     \* users: id -> row, or None
    clients,   \* oidc_clients: client_id -> owner, or None
    trail,     \* audits: the one of type USER that was committed last, or None
    sessions,  \* the tokens a user holds
    pc,        \* the statement a request runs next
    job,       \* the request: operation, actor, and what it is about, or None
    who,       \* the id of the user it works on, or None
    seen,      \* the row of that user when it was read, or None
    image,     \* the version its transaction wrote, or None
    purged,    \* clients its transaction deleted
    note,      \* the audit it will commit, or None
    owned,     \* history variable: clients the user has had since it was read
    served, failures

Labels == {"idle", "lookup", "insert", "find", "update", "index", "mail", "purge",
           "audit", "commit", "reject", "verify", "refresh", "findClient", "addClient",
           "revoke"}

tables == <<users, clients, trail>>
bounds == <<served, failures>>
vars == <<users, clients, trail, sessions, pc, job, who, seen, image, purged, note,
          owned, served, failures>>

Init ==
    /\ users = InitialUsers
    /\ clients = InitialClients
    /\ trail = None
    /\ sessions = InitialSessions
    /\ pc = [r \in Requests |-> "idle"]
    /\ job = [r \in Requests |-> None]
    /\ who = [r \in Requests |-> None]
    /\ seen = [r \in Requests |-> None]
    /\ image = [r \in Requests |-> None]
    /\ purged = [r \in Requests |-> {}]
    /\ note = [r \in Requests |-> None]
    /\ owned = [r \in Requests |-> {}]
    /\ served = 0
    /\ failures = 0

----------------------------------------------------------------------------
(* Rows, locks and index entries. *)

Goto(r, from, to) == /\ pc[r] = from
                     /\ pc' = [pc EXCEPT ![r] = to]

Op(r) == job[r].op
Actor(r) == job[r].actor

Existing == {u \in UserIds : users[u] # None}
Named(n) == {u \in Existing : users[u].name = n}
Mailed(e) == {u \in Existing : users[u].email = e}
OwnedBy(u) == {c \in Clients : clients[c] = u}

Patched(row, p) == [c \in UserColumns |-> IF c \in DOMAIN p THEN p[c] ELSE row[c]]

\* Mutant: UpdateUser saves the row it read, with the body's fields.
Written_Stale(r) ==
    CASE Op(r) = "deleteUser" -> [seen[r] EXCEPT !.active = FALSE]
      [] Op(r) = "login"      -> [seen[r] EXCEPT !.password = "hashed"]
      [] OTHER                -> Patched(seen[r], job[r].patch)

\* Mutant: UpdateProfile saves the row it read.
Written_StaleProfile(r) ==
    CASE Op(r) = "deleteUser"    -> [seen[r] EXCEPT !.active = FALSE]
      [] Op(r) = "login"         -> [seen[r] EXCEPT !.password = "hashed"]
      [] Op(r) = "updateProfile" -> Patched(seen[r], job[r].patch)
      [] OTHER                   -> Patched(users[who[r]], job[r].patch)

\* Updates writes the non-nil fields of a struct.  DeleteUser and Login give it
\* the user they read, so they write every column; the others give the body's.
Written(r) ==
    CASE Op(r) = "deleteUser" -> [seen[r] EXCEPT !.active = FALSE]
      [] Op(r) = "login"      -> [seen[r] EXCEPT !.password = "hashed"]
      [] OTHER                -> Patched(users[who[r]], job[r].patch)

Writes(q, u) == image[q] # None /\ who[q] = u

SameKeys(v, w) == v.name = w.name /\ v.email = w.email

\* Mutant: the row is locked FOR UPDATE, which a foreign key waits for.
ChangesKey_AnyUpdate(q, u) == Writes(q, u)

\* An UPDATE of a unique column conflicts with the KEY SHARE lock that a foreign
\* key takes; any other does not.
ChangesKey(q, u) == Writes(q, u) /\ users[u] # None /\ ~SameKeys(image[q], users[u])

\* q inserted an entry of this name, or changes the row that has it: whoever
\* wants to insert one waits for q.
NameBusy(q, n) ==
    /\ image[q] # None
    /\ \/ who[q] \in Named(n)
       \/ pc[q] # "index" /\ image[q].name = n

EmailBusy(q, e) ==
    /\ image[q] # None
    /\ \/ who[q] \in Mailed(e)
       \/ pc[q] \notin {"index", "mail"} /\ image[q].email = e

OldValues(r) == IF Op(r) = "createUser" THEN [c \in AuditedUserColumns |-> None]
                ELSE seen[r]

Differing(r) == {c \in AuditedUserColumns : OldValues(r)[c] # image[r][c]}

\* The next statement of r waits for the transaction of q.
Blocks(q, r) ==
    \/ /\ pc[r] = "update"
       /\ \/ Writes(q, who[r])
          \/ /\ note[q] # None /\ note[q].by = who[r]
             /\ ~SameKeys(Written(r), users[who[r]])
    \/ pc[r] = "insert" /\ NameBusy(q, job[r].name)
    \/ pc[r] = "index" /\ NameBusy(q, image[r].name)
    \/ pc[r] = "mail" /\ EmailBusy(q, image[r].email)
    \/ pc[r] = "audit" /\ Differing(r) # {} /\ ChangesKey(q, Actor(r))
    \/ pc[r] = "addClient" /\ (ChangesKey(q, Actor(r)) \/ job[r].client \in purged[q])
    \/ pc[r] = "revoke" /\ OwnedBy(Actor(r)) \cap purged[q] # {}

Granted(r) == \A q \in Requests \ {r} : ~Blocks(q, r)

----------------------------------------------------------------------------
(* The middleware. *)

\* A token of the service is good for an active user; one of the OIDC provider
\* for any user, found by name or through a client.
Admitted(u) ==
    \/ sessions[u] = "live" /\ users[u].active
    \/ users[u].name \in External
    \/ OwnedBy(u) # {}

Begin(r, input, label) ==
    /\ Goto(r, "idle", label)
    /\ served < MaxRequests
    /\ served' = served + 1
    /\ job' = [job EXCEPT ![r] = input]
    /\ UNCHANGED <<tables, sessions, who, seen, image, purged, note, owned, failures>>

\* The role is that of the row, not that of the token.
AdminRequest(r) ==
    \E u \in Existing, n \in Names :
        /\ Admitted(u)
        /\ users[u].level = "ADMIN"
        /\ \/ \E e \in NewEmails, d \in NewDisplays, l \in NewLevels :
                  Begin(r, [op |-> "createUser", actor |-> u, name |-> n, email |-> e,
                            display |-> d, level |-> l], "lookup")
           \/ \E p \in UserPatches :
                  Begin(r, [op |-> "updateUser", actor |-> u, name |-> n, patch |-> p], "find")
           \/ Begin(r, [op |-> "deleteUser", actor |-> u, name |-> n], "find")

OwnRequest(r) ==
    \E u \in Existing :
        /\ Admitted(u)
        /\ \/ \E p \in ProfilePatches :
                  Begin(r, [op |-> "updateProfile", actor |-> u, patch |-> p], "find")
           \/ \E c \in Clients :
                  \/ Begin(r, [op |-> "addClient", actor |-> u, client |-> c], "findClient")
                  \/ Begin(r, [op |-> "revoke", actor |-> u, client |-> c], "revoke")

OpenRequest(r) ==
    \/ \E n \in Names : Begin(r, [op |-> "login", name |-> n], "find")
    \/ \E n \in External, e \in NewEmails, d \in NewDisplays :
           Begin(r, [op |-> "createOidcUser", name |-> n, email |-> e, display |-> d],
                 "lookup")
    \/ \E u \in UserIds : /\ sessions[u] # "none"
                          /\ Begin(r, [op |-> "refresh", actor |-> u], "refresh")

----------------------------------------------------------------------------
(* The end of a request. *)

Release(r) == /\ image' = [image EXCEPT ![r] = None]
              /\ purged' = [purged EXCEPT ![r] = {}]
              /\ note' = [note EXCEPT ![r] = None]

\* The clients a RevokeClient deletes: with the empty client_id, all of the user.
Doomed(r) == {c \in OwnedBy(Actor(r)) : job[r].client \in {c, Blank}}

\* lost are the clients that the request has deleted.
End(r, lost) ==
    /\ Release(r)
    /\ pc' = [pc EXCEPT ![r] = "idle"]
    /\ job' = [job EXCEPT ![r] = None]
    /\ who' = [who EXCEPT ![r] = None]
    /\ seen' = [seen EXCEPT ![r] = None]
    /\ owned' = [q \in Requests |-> IF q = r THEN {} ELSE owned[q] \ lost]

\* Mutant: the handler returns without ending its transaction.
RollBack_LeavesOpen(r) ==
    /\ pc' = [pc EXCEPT ![r] = "idle"]
    /\ UNCHANGED <<job, who, seen, image, purged, note, owned>>

\* Login goes on to the password, whatever became of the UPDATE.
GoOn(r) == /\ Release(r)
           /\ pc' = [pc EXCEPT ![r] = "verify"]
           /\ UNCHANGED <<job, who, seen, owned>>

\* A statement was refused or failed: the handler answers with an error.  Where
\* the callback then returns nil, gorm commits, and PostgreSQL rolls the failed
\* transaction back.
RollBack(r) == IF Op(r) = "login" /\ pc[r] # "find" THEN GoOn(r) ELSE End(r, {})

\* The database fails a statement or a COMMIT.
Fail(r) ==
    /\ pc[r] \notin {"idle", "verify", "reject"}
    /\ failures < MaxFailures
    /\ failures' = failures + 1
    /\ RollBack(r)
    /\ UNCHANGED <<tables, sessions, served>>

\* A smallest set of requests each of which waits for another one of the set.
WaitInCircle(S) ==
    LET stuck(T) == T # {} /\ \A r \in T : \E q \in T \ {r} : Blocks(q, r)
    IN  stuck(S) /\ \A T \in SUBSET S : stuck(T) => T = S

\* PostgreSQL's deadlock detector fails the statement of one of them.
AbortDeadlock(r) ==
    /\ \E S \in SUBSET Requests : r \in S /\ WaitInCircle(S)
    /\ RollBack(r)
    /\ UNCHANGED <<tables, sessions, bounds>>

----------------------------------------------------------------------------
(* CreateUser and CreateOidcUser: FirstOrCreate looks the name up, but not  *)
(* the address, then inserts the user; only the first of them runs a        *)
(* transaction and audits.                                                  *)

LookUpName(r) ==
    /\ Goto(r, "lookup", IF Named(job[r].name) = {} THEN "insert" ELSE "reject")
    /\ UNCHANGED <<tables, sessions, bounds, job, who, seen, image, purged, note, owned>>

NewUser(r) == [name |-> job[r].name, email |-> job[r].email, display |-> job[r].display,
               level |-> IF Op(r) = "createUser" THEN job[r].level ELSE "USER",
               active |-> TRUE,
               password |-> IF Op(r) = "createUser" THEN "hashed" ELSE "absent"]

\* The id of a new user is a fresh uuid.
InsertUser(r) ==
    /\ pc[r] = "insert"
    /\ Granted(r)
    /\ IF Named(job[r].name) # {}
       THEN RollBack(r)
       ELSE \E u \in UserIds \ Existing :
                /\ \A q \in Requests : who[q] # u
                /\ Goto(r, "insert", "mail")
                /\ who' = [who EXCEPT ![r] = u]
                /\ image' = [image EXCEPT ![r] = NewUser(r)]
                /\ UNCHANGED <<job, seen, purged, note, owned>>
    /\ UNCHANGED <<tables, sessions, bounds>>

----------------------------------------------------------------------------
(* UpdateUser, UpdateProfile, DeleteUser, and Login as far as it writes.    *)

\* Mutant: Login does not ask whether there is a password.
Wanted_AnyPassword(r) ==
    CASE Op(r) = "updateProfile" -> {Actor(r)}
      [] Op(r) = "updateUser"    -> Named(job[r].name)
      [] OTHER                   -> {u \in Named(job[r].name) : users[u].active}

\* The profile is found by id, a user by name; DeleteUser and Login want an
\* active one, Login one with a password.
Wanted(r) ==
    CASE Op(r) = "updateProfile" -> {Actor(r)}
      [] Op(r) = "updateUser"    -> Named(job[r].name)
      [] Op(r) = "deleteUser"    -> {u \in Named(job[r].name) : users[u].active}
      [] Op(r) = "login"         -> {u \in Named(job[r].name) :
                                        users[u].active /\ users[u].password # "absent"}

FindUser(r) ==
    /\ pc[r] = "find"
    /\ IF Wanted(r) = {}
       THEN /\ Goto(r, "find", "reject")
            /\ UNCHANGED <<who, seen, owned>>
       ELSE \E u \in Wanted(r) :
                /\ Goto(r, "find", IF Op(r) = "login" /\ users[u].password = "hashed"
                                   THEN "verify" ELSE "update")
                /\ who' = [who EXCEPT ![r] = u]
                /\ seen' = [seen EXCEPT ![r] = users[u]]
                /\ owned' = [owned EXCEPT ![r] = OwnedBy(u)]
    /\ UNCHANGED <<tables, sessions, bounds, job, image, purged, note>>

AfterWrite(r) == CASE Op(r) = "deleteUser"                   -> "purge"
                   [] Op(r) \in {"login", "createOidcUser"} -> "commit"
                   [] OTHER                                  -> "audit"

\* The UPDATE takes the lock of the row ...
UpdateUserRow(r) ==
    /\ Goto(r, "update",
            IF SameKeys(Written(r), users[who[r]]) THEN AfterWrite(r) ELSE "index")
    /\ Granted(r)
    /\ image' = [image EXCEPT ![r] = Written(r)]
    /\ UNCHANGED <<tables, sessions, bounds, job, who, seen, purged, note, owned>>

\* ... and then, if one of the unique columns changes, enters the new version in
\* the index of names ...
IndexName(r) ==
    /\ pc[r] = "index"
    /\ Granted(r)
    /\ IF Named(image[r].name) \ {who[r]} # {}
       THEN RollBack(r)
       ELSE /\ Goto(r, "index", "mail")
            /\ UNCHANGED <<job, who, seen, image, purged, note, owned>>
    /\ UNCHANGED <<tables, sessions, bounds>>

\* ... and, like an INSERT, in that of the addresses.
IndexEmail(r) ==
    /\ pc[r] = "mail"
    /\ Granted(r)
    /\ IF Mailed(image[r].email) \ {who[r]} # {}
       THEN RollBack(r)
       ELSE /\ Goto(r, "mail", AfterWrite(r))
            /\ UNCHANGED <<job, who, seen, image, purged, note, owned>>
    /\ UNCHANGED <<tables, sessions, bounds>>

\* Mutant: the clients of a user are kept.
PurgeClients_Kept(r) ==
    /\ Goto(r, "purge", "audit")
    /\ UNCHANGED <<tables, sessions, bounds, job, who, seen, image, purged, note, owned>>

PurgeClients(r) ==
    /\ Goto(r, "purge", "audit")
    /\ purged' = [purged EXCEPT ![r] = OwnedBy(who[r])]
    /\ UNCHANGED <<tables, sessions, bounds, job, who, seen, image, note, owned>>

\* Mutant: the change log compares with what the body asks for.
AuditUser_Asked(r) ==
    /\ Goto(r, "audit", "commit")
    /\ Granted(r)
    /\ note' = [note EXCEPT ![r] =
           IF Op(r) \in {"updateUser", "updateProfile"}
           THEN [by |-> Actor(r), of |-> who[r],
                 changes |-> [c \in DOMAIN job[r].patch \ {"password"} |->
                                 [old |-> OldValues(r)[c], new |-> image[r][c]]]]
           ELSE None]
    /\ UNCHANGED <<tables, sessions, bounds, job, who, seen, image, purged, owned>>

\* AddChangelogsForUser compares with the row that was read first; an audit
\* refers to its actor.
AuditUser(r) ==
    /\ Goto(r, "audit", "commit")
    /\ Granted(r)
    /\ note' = [note EXCEPT ![r] =
           IF Differing(r) = {} THEN None
           ELSE [by |-> Actor(r), of |-> who[r],
                 changes |-> [c \in Differing(r) |->
                                 [old |-> OldValues(r)[c], new |-> image[r][c]]]]]
    /\ UNCHANGED <<tables, sessions, bounds, job, who, seen, image, purged, owned>>

CommitUser(r) ==
    /\ pc[r] = "commit"
    /\ users' = [users EXCEPT ![who[r]] = image[r]]
    /\ clients' = [c \in Clients |-> IF c \in purged[r] THEN None ELSE clients[c]]
    /\ trail' = IF note[r] = None THEN trail ELSE note[r]
    /\ IF Op(r) = "login" THEN GoOn(r) ELSE End(r, purged[r])
    /\ UNCHANGED <<sessions, bounds>>

Reject(r) ==
    /\ pc[r] = "reject"
    /\ End(r, {})
    /\ UNCHANGED <<tables, sessions, bounds>>

----------------------------------------------------------------------------
(* Tokens. *)

\* The password is right, and tokens are issued for the user that was read, or
\* it is wrong.
VerifyPassword(r) ==
    /\ pc[r] = "verify"
    /\ sessions' \in {sessions, [sessions EXCEPT ![who[r]] = "live"]}
    /\ End(r, {})
    /\ UNCHANGED <<tables, bounds>>

\* Mutant: any user may refresh.
RefreshTokens_AnyUser(r) ==
    /\ pc[r] = "refresh"
    /\ sessions' = [sessions EXCEPT ![Actor(r)] = "live"]
    /\ End(r, {})
    /\ UNCHANGED <<tables, bounds>>

RefreshTokens(r) ==
    /\ pc[r] = "refresh"
    /\ sessions' = IF users[Actor(r)].active THEN [sessions EXCEPT ![Actor(r)] = "live"]
                   ELSE sessions
    /\ End(r, {})
    /\ UNCHANGED <<tables, bounds>>

Expire(u) ==
    /\ sessions[u] # "none"
    /\ failures < MaxFailures
    /\ failures' = failures + 1
    /\ sessions' = [sessions EXCEPT ![u] = IF @ = "live" THEN "refreshable" ELSE "none"]
    /\ UNCHANGED <<tables, pc, job, who, seen, image, purged, note, owned, served>>

----------------------------------------------------------------------------
(* OIDC clients, one statement at a time and without a transaction. *)

\* The empty client_id is left out of the condition: any client is found.
FindClient(r) ==
    LET c == job[r].client
        found == IF c = Blank THEN \E d \in Clients : clients[d] # None
                 ELSE clients[c] # None
    IN  /\ Goto(r, "findClient", IF found THEN "reject" ELSE "addClient")
        /\ UNCHANGED <<tables, sessions, bounds, job, who, seen, image, purged, note,
                       owned>>

InsertClient(r) ==
    LET c == job[r].client
    IN  /\ pc[r] = "addClient"
        /\ Granted(r)
        /\ IF clients[c] # None
           THEN /\ RollBack(r)
                /\ UNCHANGED clients
           ELSE /\ clients' = [clients EXCEPT ![c] = Actor(r)]
                /\ End(r, {})
        /\ UNCHANGED <<users, trail, sessions, bounds>>

RevokeClient(r) ==
    /\ pc[r] = "revoke"
    /\ Granted(r)
    /\ clients' = [c \in Clients |-> IF c \in Doomed(r) THEN None ELSE clients[c]]
    /\ End(r, Doomed(r))
    /\ UNCHANGED <<users, trail, sessions, bounds>>

----------------------------------------------------------------------------

UserStep(r) ==
    LookUpName(r) \/ InsertUser(r) \/ FindUser(r) \/ UpdateUserRow(r) \/ IndexName(r)
        \/ IndexEmail(r) \/ PurgeClients(r) \/ AuditUser(r) \/ CommitUser(r) \/ Reject(r)

TokenStep(r) == VerifyPassword(r) \/ RefreshTokens(r)

ClientStep(r) == FindClient(r) \/ InsertClient(r) \/ RevokeClient(r)

AccountStep(r) == UserStep(r) \/ TokenStep(r) \/ ClientStep(r) \/ AbortDeadlock(r)

Next ==
    \/ \E r \in Requests : \/ AdminRequest(r) \/ OwnRequest(r) \/ OpenRequest(r)
                           \/ AccountStep(r) \/ Fail(r)
    \/ \E u \in UserIds : Expire(u)

\* As in LicenseSpec; the detector's step is one of the request that it fails.
Spec == /\ Init
        /\ [][Next]_vars
        /\ \A r \in Requests : WF_vars(AccountStep(r))

----------------------------------------------------------------------------
(* Properties. *)

\* Type invariant of the tables and the requests; names and e-mail addresses are
\* unique, a deletion begins with an active user, and a password is encrypted only
\* if there is one in clear.
AccountsTypeOK ==
    /\ users \in [UserIds -> UserRow \cup {None}]
    /\ clients \in [Clients -> Existing \cup {None}]
    /\ sessions \in [UserIds -> SessionStates]
    /\ trail # None => {trail.by, trail.of} \subseteq Existing
    /\ \A u, v \in Existing :
           users[u].name = users[v].name \/ users[u].email = users[v].email => u = v
    /\ \A u \in UserIds : sessions[u] # "none" => u \in Existing
    /\ pc \in [Requests -> Labels]
    /\ job \in [Requests -> Jobs \cup {None}]
    /\ who \in [Requests -> UserIds \cup {None}]
    /\ seen \in [Requests -> UserRow \cup {None}]
    /\ image \in [Requests -> UserRow \cup {None}]
    /\ purged \in [Requests -> SUBSET Clients]
    /\ owned \in [Requests -> SUBSET Clients]
    /\ \A r \in Requests :
        /\ job[r] = None <=> pc[r] = "idle"
        /\ pc[r] \in {"update", "index", "purge"} => seen[r] # None
        /\ pc[r] = "update" /\ Op(r) = "login" => seen[r].password = "clear"
        /\ pc[r] = "purge" => seen[r].active

Committing(r, u) == pc[r] = "commit" /\ who[r] = u

\* The step is that commit, and it succeeds.
Commits(r, u) == Committing(r, u) /\ pc'[r] # "commit" /\ failures' = failures

\* The columns a request is about.
Asked(r) == CASE Op(r) = "deleteUser" -> {"active"}
              [] Op(r) = "login"      -> {"password"}
              [] OTHER                -> DOMAIN job[r].patch

\* A column of a user changes only in a request about that column, or when a
\* DELETE or a login saves a user that was changed since it was read: the whole
\* record is written back by these two, and by no other.
OverwritesAreOvertaken ==
    [][\A u \in Existing, c \in UserColumns :
        users'[u][c] # users[u][c] =>
            \E r \in Requests :
                /\ Committing(r, u)
                /\ \/ c \in Asked(r)
                   \/ Op(r) \in {"deleteUser", "login"} /\ seen[r] # users[u]]_vars

\* "marks an existing user record as inactive": a user who is inactive becomes
\* active only by a PATCH that says so, or by a login that found the user active
\* and then encrypted the password.
ReactivationIsAsked ==
    [][\A u \in Existing :
        ~users[u].active /\ users'[u].active =>
            \E r \in Requests :
                /\ Committing(r, u)
                /\ \/ Op(r) = "updateUser" /\ "active" \in Asked(r)
                   \/ Op(r) = "login" /\ seen[r].active]_vars

\* When a DELETE of a user commits, none of the clients the user has had since it
\* began is left, though clients are added and revoked beside it.
ClientsGoWithUser ==
    [][\A r \in Requests :
        Commits(r, who[r]) /\ Op(r) = "deleteUser" =>
            \A c \in owned[r] : clients'[c] # who[r]]_vars

\* A commit of a PATCH or of a DELETE of a user adds an audit of exactly the
\* audited columns it changes, with the values before and after, unless the user
\* was changed since the request read it.
AuditTellsTheChange ==
    [][\A r \in Requests, u \in Existing :
        LET changed == {c \in AuditedUserColumns : users'[u][c] # users[u][c]}
            audit == [by |-> Actor(r), of |-> u,
                      changes |-> [c \in changed |-> [old |-> users[u][c],
                                                     new |-> users'[u][c]]]]
        IN  Commits(r, u) /\ Op(r) # "login" /\ seen[r] = users[u] =>
                trail' = IF changed = {} THEN trail ELSE audit]_vars

\* An inactive user is given tokens only by a login that found the user active.
TokensNeedActiveUser ==
    [][\A u \in Existing :
        sessions[u] # "live" /\ sessions'[u] = "live" /\ ~users[u].active =>
            \E r \in Requests :
                pc[r] = "verify" /\ who[r] = u /\ seen[r].active]_vars

\* A deadlock needs a change of a unique column: of requests that wait for each
\* other in a circle, one has written another name or another e-mail address into
\* the row of a user there is.  Creations alone, with the names and the addresses
\* of each other, never deadlock, nor do changes of any other column, nor
\* deletions and logins that write back the name and the address that are there.
DeadlockNeedsKeyChange ==
    \A S \in SUBSET Requests : WaitInCircle(S) =>
        \E q \in S : /\ image[q] # None /\ who[q] \in Existing
                     /\ ~SameKeys(image[q], users[who[q]])

\* Every request that is received ends, in spite of locks taken in any order.
AccountRequestEnds == \A r \in Requests : pc[r] # "idle" ~> pc[r] = "idle"
=============================================================================
