--------------------------- MODULE AccountsProofs ---------------------------
(****************************************************************************)
(* For any number of users, names, e-mail addresses, clients and requests:  *)
(* names and addresses stay unique, a deadlock needs a request that changes *)
(* one of them, and a request loses what another one wrote, reactivates a   *)
(* user or gives an inactive one tokens only in the ways that Accounts      *)
(* names.                                                                   *)
(*                                                                          *)
(* The invariant says, for each statement, what the request has read and    *)
(* what version it has written in terms of the current row, that its row    *)
(* lock keeps the others off that row, and that the entries which requests  *)
(* have in the indexes of names and of addresses are apart from each other  *)
(* and from those of the table.                                             *)
(****************************************************************************)
EXTENDS Accounts, TLAPS

Creating == {"createUser", "createOidcUser"}
Changing == {"updateUser", "updateProfile", "deleteUser", "login"}

\* The request has written a row.
HasWritten == {"index", "mail", "purge", "audit", "commit"}

\* Which statements a request of each kind runs.
Control(r) ==
    /\ job[r] = None <=> pc[r] = "idle"
    /\ pc[r] \in {"lookup", "insert"} => Op(r) \in Creating
    /\ pc[r] \in {"find", "update", "index"} => Op(r) \in Changing
    /\ pc[r] = "purge" => Op(r) = "deleteUser"
    /\ pc[r] = "audit" => Op(r) \in {"createUser", "updateUser", "updateProfile", "deleteUser"}
    /\ pc[r] \in {"mail", "commit"} => Op(r) \in Creating \cup Changing
    /\ pc[r] = "verify" => Op(r) = "login"
    /\ pc[r] = "refresh" => Op(r) = "refresh"
    /\ pc[r] \in {"findClient", "addClient"} => Op(r) = "addClient"
    /\ pc[r] = "revoke" => Op(r) = "revoke"
    /\ job[r] # None /\ Op(r) \notin {"login", "createOidcUser"} => Actor(r) \in Existing

\* What it has read by then: a DELETE and a login found an active user, and a
\* login goes on to write only for a password in clear.
Reading(r) ==
    /\ pc[r] = "idle" => seen[r] = None
    /\ pc[r] \in {"update", "verify"} \cup HasWritten /\ Op(r) \in Changing
           => who[r] \in Existing /\ seen[r] \in UserRow
    /\ seen[r] # None /\ Op(r) \in {"deleteUser", "login"} => seen[r].active
    /\ pc[r] = "update" /\ Op(r) = "login" => seen[r].password = "clear"

\* The version it wrote, in terms of the current row.
Writing(r) ==
    /\ image[r] # None <=> pc[r] \in HasWritten
    /\ image[r] # None => who[r] \in UserIds
    /\ image[r] # None /\ Op(r) \in Creating => who[r] \notin Existing
    /\ image[r] # None /\ Op(r) \in Changing => image[r] = Written(r)

\* The entries it has in the indexes of names and of addresses.
Indexing(r) ==
    image[r] # None =>
        /\ pc[r] # "index" =>
              \A u \in Existing \ {who[r]} : users[u].name # image[r].name
        /\ pc[r] \notin {"index", "mail"} =>
              \A u \in Existing \ {who[r]} : users[u].email # image[r].email

\* The audit it has inserted.
Auditing(r) ==
    /\ note[r] # None => pc[r] = "commit"
    /\ pc[r] = "commit" /\ Op(r) \notin {"login", "createOidcUser"} =>
          note[r] = IF Differing(r) = {} THEN None
                    ELSE [by |-> Actor(r), of |-> who[r],
                          changes |-> [c \in Differing(r) |->
                                          [old |-> OldValues(r)[c], new |-> image[r][c]]]]
    /\ pc[r] = "commit" /\ Op(r) \in {"login", "createOidcUser"} => note[r] = None

\* The clients of a user who is being deleted.
Purging(r) ==
    /\ pc[r] \in {"idle", "lookup", "insert", "find"} => owned[r] = {}
    /\ owned[r] # {} => who[r] \in UserIds
    /\ \A c \in owned[r] : clients[c] = who[r]
    /\ pc[r] \in {"audit", "commit"} /\ Op(r) = "deleteUser" => owned[r] \subseteq purged[r]
    /\ purged[r] # {} => pc[r] \in {"audit", "commit"} /\ Op(r) = "deleteUser"

\* Two requests never write the same user, nor have the same entry in an index.
Apart(q, r) ==
    image[q] # None /\ image[r] # None =>
        /\ who[q] # who[r]
        /\ pc[q] # "index" /\ pc[r] # "index" => image[q].name # image[r].name
        /\ {pc[q], pc[r]} \cap {"index", "mail"} = {} => image[q].email # image[r].email

Request(r) ==
    Control(r) /\ Reading(r) /\ Writing(r) /\ Indexing(r) /\ Auditing(r) /\ Purging(r)

AccountsInv ==
    /\ AccountsTypeOK
    /\ note = [r \in Requests |-> note[r]]
    /\ failures \in Nat
    /\ \A r \in Requests : Request(r)
    /\ \A q, r \in Requests : q # r => Apart(q, r)

----------------------------------------------------------------------------
(* Jobs, rows and audits. *)

LEMMA JobFields ==
  ASSUME NEW j \in Jobs
  PROVE  /\ j # None
         /\ j.op \in Creating \cup Changing \cup {"refresh", "addClient", "revoke"}
         /\ j.op \notin {"login", "createOidcUser"} => j.actor \in UserIds
         /\ j.op = "updateUser" => j.patch \in UserPatches
         /\ j.op = "updateProfile" => j.patch \in ProfilePatches
         /\ j.op = "createUser" => j.name \in Names /\ j.level \in NewLevels
         /\ j.op = "createOidcUser" => j.name \in External
         /\ j.op \in Creating => j.display \in NewDisplays /\ j.email \in NewEmails
         /\ j.op \in {"addClient", "revoke"} => j.client \in Clients
  BY AccountsAssumption DEF Jobs, Creating, Changing

LEMMA PatchedIsRow ==
  ASSUME NEW row \in UserRow, NEW p \in UserPatches \cup ProfilePatches
  PROVE  Patched(row, p) \in UserRow
  <1>1. PICK other \in UserRow : DOMAIN p \subseteq UserColumns /\ \A c \in DOMAIN p : p[c] = other[c]
    BY AccountsAssumption DEF IsUserPatch
  <1> QED
    BY <1>1 DEF Patched, UserColumns, UserRow

----------------------------------------------------------------------------
(* A step of one request that leaves the users alone. *)

\* What the invariant of a request speaks of, apart from the tables.
Same(q) == /\ pc'[q] = pc[q] /\ job'[q] = job[q] /\ who'[q] = who[q] /\ seen'[q] = seen[q]
           /\ image'[q] = image[q] /\ purged'[q] = purged[q] /\ note'[q] = note[q]

LEMMA OtherInv ==
  ASSUME NEW q \in Requests, Request(q), Same(q), users' = users,
         owned'[q] \subseteq owned[q], \A c \in owned'[q] : clients'[c] = clients[c]
  PROVE  Request(q)'
  <1>1. /\ Op(q)' = Op(q) /\ Actor(q)' = Actor(q) /\ Existing' = Existing
        /\ OldValues(q)' = OldValues(q)
    BY DEF Same, Op, Actor, Existing, OldValues
  <1>2. Differing(q)' = Differing(q)
    BY <1>1 DEF Same, Differing
  <1>3. Written(q)' = Written(q)
    BY <1>1 DEF Same, Written
  <1>4. Control(q)' /\ Reading(q)' /\ Writing(q)' /\ Indexing(q)'
    BY <1>1, <1>3 DEF Same, Request, Control, Reading, Writing, Indexing
  <1>5. Auditing(q)'
    BY <1>1, <1>2 DEF Same, Request, Auditing
  <1>6. Purging(q)'
    BY <1>1 DEF Same, Request, Purging
  <1> QED
    BY <1>4, <1>5, <1>6 DEF Request

LEMMA ApartSymmetric ==
  ASSUME NEW q \in Requests, NEW r \in Requests
  PROVE  /\ Apart(q, r) => Apart(r, q)
         /\ Apart(q, r)' => Apart(r, q)'
  BY DEF Apart

RequestTypes ==
    /\ pc \in [Requests -> Labels]
    /\ job \in [Requests -> Jobs \cup {None}]
    /\ who \in [Requests -> UserIds \cup {None}]
    /\ seen \in [Requests -> UserRow \cup {None}]
    /\ image \in [Requests -> UserRow \cup {None}]
    /\ purged \in [Requests -> SUBSET Clients]
    /\ owned \in [Requests -> SUBSET Clients]
    /\ note = [r \in Requests |-> note[r]]
    /\ failures \in Nat

TableTypes ==
    /\ users \in [UserIds -> UserRow \cup {None}]
    /\ clients \in [Clients -> Existing \cup {None}]
    /\ sessions \in [UserIds -> SessionStates]
    /\ trail # None => {trail.by, trail.of} \subseteq Existing
    /\ \A u, v \in Existing :
           users[u].name = users[v].name \/ users[u].email = users[v].email => u = v
    /\ \A u \in UserIds : sessions[u] # "none" => u \in Existing

AllRequests == \A r \in Requests : Request(r)

LEMMA Types == /\ AccountsInv => TableTypes /\ RequestTypes
               /\ TableTypes /\ RequestTypes /\ AllRequests => AccountsTypeOK
  <1>1. AccountsInv => TableTypes /\ RequestTypes
    BY DEF AccountsInv, AccountsTypeOK, TableTypes, RequestTypes
  <1>2. ASSUME TableTypes, RequestTypes, NEW r \in Requests, Request(r)
        PROVE  /\ job[r] = None <=> pc[r] = "idle"
               /\ pc[r] \in {"update", "index", "purge"} => seen[r] # None
               /\ pc[r] = "update" /\ Op(r) = "login" => seen[r].password = "clear"
               /\ pc[r] = "purge" => seen[r].active
    <2>1. Control(r) /\ Reading(r)
      BY <1>2 DEF Request
    <2>2. pc[r] \in {"update", "index", "purge"} => Op(r) \in Changing /\ seen[r] \in UserRow
      BY <2>1 DEF Control, Reading, Changing, HasWritten
    <2>3. None \notin UserRow
      BY AccountsAssumption
    <2> QED
      BY <2>1, <2>2, <2>3 DEF Control, Reading
  <1> QED
    BY <1>1, <1>2 DEF AccountsTypeOK, TableTypes, RequestTypes, AllRequests

LEMMA TypesPrimed ==
  TableTypes' /\ RequestTypes' /\ AllRequests' => AccountsTypeOK'
  BY Types, PTL

LEMMA OneRequest ==
  ASSUME AccountsInv, NEW r \in Requests, RequestTypes',
         users' = users, trail' = trail,
         clients' \in [Clients -> Existing \cup {None}],
         sessions' \in [UserIds -> SessionStates],
         \A u \in UserIds : sessions'[u] # "none" => u \in Existing,
         \A q \in Requests \ {r} :
            /\ Same(q)
            /\ owned'[q] \subseteq owned[q]
            /\ \A c \in owned'[q] : clients'[c] = clients[c],
         Request(r)',
         \A q \in Requests \ {r} : Apart(q, r)'
  PROVE  AccountsInv'
  <1>1. \A q \in Requests \ {r} : Request(q)'
    BY OtherInv DEF AccountsInv
  <1>2. \A q \in Requests : Request(q)'
    BY <1>1
  <1>3. TableTypes'
    <2>1. TableTypes
      BY Types
    <2>2. Existing' = Existing
      BY DEF Existing
    <2> QED
      BY <2>1, <2>2 DEF TableTypes
  <1>4. AccountsTypeOK'
    BY <1>2, <1>3, TypesPrimed DEF AllRequests
  <1>5. ASSUME NEW p \in Requests, NEW q \in Requests, p # q
        PROVE  Apart(p, q)'
    <2>1. CASE p # r /\ q # r
      BY <1>5, <2>1 DEF AccountsInv, Apart, Same
    <2>2. CASE q = r
      BY <1>5, <2>2
    <2>3. CASE p = r
      BY <1>5, <2>3, ApartSymmetric
    <2> QED
      BY <2>1, <2>2, <2>3
  <1>6. note' = [q \in Requests |-> note'[q]] /\ failures' \in Nat
    BY DEF RequestTypes
  <1> QED
    BY <1>2, <1>4, <1>5, <1>6 DEF AccountsInv


\* The same when the step is one of r alone.
LEMMA LocalStep ==
  ASSUME AccountsInv, NEW r \in Requests, RequestTypes', UNCHANGED <<tables, sessions>>,
         \A q \in Requests \ {r} : Same(q) /\ owned'[q] = owned[q],
         Request(r)',
         \A q \in Requests \ {r} : Apart(q, r)'
  PROVE  AccountsInv'
  <1>1. TableTypes
    BY Types
  <1>2. UNCHANGED <<users, clients, trail, sessions>>
    BY DEF tables
  <1>3. \A q \in Requests \ {r} : owned'[q] \subseteq owned[q]
                                  /\ \A c \in owned'[q] : clients'[c] = clients[c]
    BY <1>2
  <1> QED
    BY <1>1, <1>2, <1>3, OneRequest DEF TableTypes

----------------------------------------------------------------------------
(* How requests end. *)

LEMMA EndEffect ==
  ASSUME RequestTypes, NEW r \in Requests, NEW lost, End(r, lost), failures' \in Nat
  PROVE  /\ RequestTypes' /\ Request(r)'
         /\ \A q \in Requests \ {r} : /\ Same(q)
                                     /\ owned'[q] = owned[q] \ lost
                                     /\ Apart(q, r)'
  <1>1. RequestTypes'
    BY DEF RequestTypes, End, Release, Labels
  <1>2. /\ pc'[r] = "idle" /\ job'[r] = None /\ seen'[r] = None /\ image'[r] = None
        /\ purged'[r] = {} /\ note'[r] = None /\ owned'[r] = {}
    BY DEF RequestTypes, End, Release
  <1>3. \A q \in Requests \ {r} : Same(q) /\ owned'[q] = owned[q] \ lost
    BY DEF RequestTypes, End, Release, Same
  <1>4. Request(r)'
    BY <1>2 DEF Request, Control, Reading, Writing, Indexing, Auditing, Purging, HasWritten
  <1>5. \A q \in Requests \ {r} : Apart(q, r)'
    BY <1>2 DEF Apart
  <1> QED
    BY <1>1, <1>3, <1>4, <1>5

LEMMA GoOnEffect ==
  ASSUME RequestTypes, NEW r \in Requests, Request(r), GoOn(r), failures' \in Nat,
         Op(r) = "login", pc[r] \in {"update", "index", "mail", "commit"},
         Existing \subseteq Existing', \A c \in owned[r] : clients'[c] = clients[c]
  PROVE  /\ RequestTypes' /\ Request(r)'
         /\ \A q \in Requests \ {r} : /\ Same(q)
                                     /\ owned'[q] = owned[q]
                                     /\ Apart(q, r)'
  <1>1. RequestTypes'
    BY DEF RequestTypes, GoOn, Release, Labels
  <1>2. /\ pc'[r] = "verify" /\ job'[r] = job[r] /\ seen'[r] = seen[r] /\ image'[r] = None
        /\ purged'[r] = {} /\ note'[r] = None /\ owned'[r] = owned[r] /\ who'[r] = who[r]
    BY DEF RequestTypes, GoOn, Release
  <1>3. \A q \in Requests \ {r} : Same(q) /\ owned'[q] = owned[q]
    BY DEF RequestTypes, GoOn, Release, Same
  <1>4. Control(r)' /\ Reading(r)' /\ Writing(r)' /\ Indexing(r)' /\ Auditing(r)'
    BY <1>2 DEF Op, Request, Control, Reading, Writing, Indexing, Auditing, HasWritten, Changing
  <1>5. Purging(r)'
    BY <1>2 DEF Op, Request, Purging
  <1>6. \A q \in Requests \ {r} : Apart(q, r)'
    BY <1>2 DEF Apart
  <1> QED
    BY <1>1, <1>3, <1>4, <1>5, <1>6 DEF Request

LEMMA EndInv ==
  ASSUME AccountsInv, NEW r \in Requests, End(r, {}), UNCHANGED <<tables, sessions>>,
         failures' \in Nat
  PROVE  AccountsInv'
  <1>1. RequestTypes
    BY Types
  <1>2. /\ RequestTypes' /\ Request(r)'
        /\ \A q \in Requests \ {r} : Same(q) /\ owned'[q] = owned[q] \ {} /\ Apart(q, r)'
    BY <1>1, EndEffect
  <1>3. \A q \in Requests : owned[q] \ {} = owned[q]
    OBVIOUS
  <1>4. \A q \in Requests \ {r} : Same(q) /\ owned'[q] = owned[q]
    BY <1>2, <1>3
  <1> QED
    BY <1>2, <1>4, LocalStep

LEMMA RollBackInv ==
  ASSUME AccountsInv, NEW r \in Requests, RollBack(r), UNCHANGED <<tables, sessions>>,
         failures' \in Nat, pc[r] \notin {"idle", "verify", "reject"}
  PROVE  AccountsInv'
  <1>1. RequestTypes /\ Request(r)
    BY Types DEF AccountsInv
  <1>2. UNCHANGED <<users, clients, trail, sessions>> /\ Existing' = Existing
    BY DEF tables, Existing
  <1>3. CASE Op(r) = "login" /\ pc[r] # "find"
    <2>1. GoOn(r)
      BY <1>3 DEF RollBack
    <2>2. pc[r] \in {"update", "index", "mail", "commit"}
      BY <1>1, <1>3 DEF RequestTypes, Labels, Request, Control, Creating
    <2> QED
      BY <1>1, <1>2, <1>3, <2>1, <2>2, GoOnEffect, LocalStep
  <1>4. CASE ~(Op(r) = "login" /\ pc[r] # "find")
    <2>1. End(r, {})
      BY <1>4 DEF RollBack
    <2> QED
      BY <2>1, EndInv
  <1> QED
    BY <1>3, <1>4

\* Waiting requests are about to run a statement.
LEMMA WaitingIsRunning ==
  ASSUME NEW r \in Requests, \E S \in SUBSET Requests : r \in S /\ WaitInCircle(S)
  PROVE  pc[r] \in {"update", "insert", "index", "mail", "audit", "addClient", "revoke"}
  BY DEF WaitInCircle, Blocks

----------------------------------------------------------------------------
(* The steps of a request, one after the other. *)

LEMMA BeginInv ==
  ASSUME AccountsInv, NEW r \in Requests, NEW input \in Jobs, NEW label, Begin(r, input, label),
         input.op \notin {"login", "createOidcUser"} => input.actor \in Existing,
         \/ label = "lookup" /\ input.op \in Creating
         \/ label = "find" /\ input.op \in Changing
         \/ label = "refresh" /\ input.op = "refresh"
         \/ label = "findClient" /\ input.op = "addClient"
         \/ label = "revoke" /\ input.op = "revoke"
  PROVE  AccountsInv'
  <1>1. RequestTypes /\ Request(r)
    BY Types DEF AccountsInv
  <1>2. UNCHANGED <<users, clients, trail, sessions, who, seen, image, purged, note, owned, failures>>
    BY DEF Begin, tables
  <1>3. /\ pc[r] = "idle" /\ pc'[r] = label /\ job'[r] = input
        /\ \A q \in Requests \ {r} : Same(q)
    BY <1>1, <1>2 DEF Begin, Goto, RequestTypes, Same
  <1>4. RequestTypes'
    BY <1>1, <1>2 DEF Begin, Goto, RequestTypes, Labels
  <1>5. Control(r)'
    BY <1>2, <1>3, JobFields DEF Control, Op, Actor, Existing, Creating, Changing
  <1>6. Reading(r)' /\ Writing(r)' /\ Indexing(r)' /\ Auditing(r)' /\ Purging(r)'
    BY <1>1, <1>2, <1>3
    DEF Request, Reading, Writing, Indexing, Auditing, Purging, HasWritten, Existing
  <1>7. image'[r] = None
    BY <1>1, <1>2, <1>3 DEF Request, Writing, HasWritten
  <1>8. \A q \in Requests \ {r} : Apart(q, r)'
    BY <1>7 DEF Apart
  <1> QED
    BY <1>2, <1>3, <1>4, <1>5, <1>6, <1>8, LocalStep DEF Request, tables

LEMMA RequestInv ==
  ASSUME AccountsInv, NEW r \in Requests,
         AdminRequest(r) \/ OwnRequest(r) \/ OpenRequest(r)
  PROVE  AccountsInv'
  <1>1. External \subseteq Names /\ Existing \subseteq UserIds
    BY AccountsAssumption DEF Existing
  <1>2. CASE AdminRequest(r)
    <2>1. PICK u \in Existing, n \in Names :
            \/ \E e \in NewEmails, d \in NewDisplays, l \in NewLevels :
                  Begin(r, [op |-> "createUser", actor |-> u, name |-> n, email |-> e,
                            display |-> d, level |-> l], "lookup")
            \/ \E p \in UserPatches :
                  Begin(r, [op |-> "updateUser", actor |-> u, name |-> n, patch |-> p], "find")
            \/ Begin(r, [op |-> "deleteUser", actor |-> u, name |-> n], "find")
      BY <1>2 DEF AdminRequest
    <2>2. CASE \E e \in NewEmails, d \in NewDisplays, l \in NewLevels :
                  Begin(r, [op |-> "createUser", actor |-> u, name |-> n, email |-> e,
                            display |-> d, level |-> l], "lookup")
      <3>1. PICK e \in NewEmails, d \in NewDisplays, l \in NewLevels :
                  Begin(r, [op |-> "createUser", actor |-> u, name |-> n, email |-> e,
                            display |-> d, level |-> l], "lookup")
        BY <2>2
      <3>2. [op |-> "createUser", actor |-> u, name |-> n, email |-> e, display |-> d,
             level |-> l] \in Jobs
        BY <1>1 DEF Jobs
      <3> QED
        BY <3>1, <3>2, BeginInv DEF Creating
    <2>3. CASE \E p \in UserPatches :
                  Begin(r, [op |-> "updateUser", actor |-> u, name |-> n, patch |-> p], "find")
      <3>1. PICK p \in UserPatches :
                  Begin(r, [op |-> "updateUser", actor |-> u, name |-> n, patch |-> p], "find")
        BY <2>3
      <3>2. [op |-> "updateUser", actor |-> u, name |-> n, patch |-> p] \in Jobs
        BY <1>1 DEF Jobs
      <3> QED
        BY <3>1, <3>2, BeginInv DEF Changing
    <2>4. CASE Begin(r, [op |-> "deleteUser", actor |-> u, name |-> n], "find")
      <3>1. [op |-> "deleteUser", actor |-> u, name |-> n] \in Jobs
        BY <1>1 DEF Jobs
      <3> QED
        BY <2>4, <3>1, BeginInv DEF Changing
    <2> QED
      BY <2>1, <2>2, <2>3, <2>4
  <1>3. CASE OwnRequest(r)
    <2>1. PICK u \in Existing :
            \/ \E p \in ProfilePatches :
                  Begin(r, [op |-> "updateProfile", actor |-> u, patch |-> p], "find")
            \/ \E c \in Clients :
                  \/ Begin(r, [op |-> "addClient", actor |-> u, client |-> c], "findClient")
                  \/ Begin(r, [op |-> "revoke", actor |-> u, client |-> c], "revoke")
      BY <1>3 DEF OwnRequest
    <2>2. CASE \E p \in ProfilePatches :
                  Begin(r, [op |-> "updateProfile", actor |-> u, patch |-> p], "find")
      <3>1. PICK p \in ProfilePatches :
                  Begin(r, [op |-> "updateProfile", actor |-> u, patch |-> p], "find")
        BY <2>2
      <3>2. [op |-> "updateProfile", actor |-> u, patch |-> p] \in Jobs
        BY <1>1 DEF Jobs
      <3> QED
        BY <3>1, <3>2, BeginInv DEF Changing
    <2>3. CASE \E c \in Clients :
                  \/ Begin(r, [op |-> "addClient", actor |-> u, client |-> c], "findClient")
                  \/ Begin(r, [op |-> "revoke", actor |-> u, client |-> c], "revoke")
      <3>1. PICK c \in Clients :
                  \/ Begin(r, [op |-> "addClient", actor |-> u, client |-> c], "findClient")
                  \/ Begin(r, [op |-> "revoke", actor |-> u, client |-> c], "revoke")
        BY <2>3
      <3>2. /\ [op |-> "addClient", actor |-> u, client |-> c] \in Jobs
            /\ [op |-> "revoke", actor |-> u, client |-> c] \in Jobs
        BY <1>1 DEF Jobs
      <3> QED
        BY <3>1, <3>2, BeginInv
    <2> QED
      BY <2>1, <2>2, <2>3
  <1>4. CASE OpenRequest(r)
    <2>1. ASSUME NEW n \in Names, Begin(r, [op |-> "login", name |-> n], "find")
          PROVE  AccountsInv'
      <3>1. [op |-> "login", name |-> n] \in Jobs
        BY DEF Jobs
      <3> QED
        BY <2>1, <3>1, BeginInv DEF Changing
    <2>2. ASSUME NEW n \in External, NEW e \in NewEmails, NEW d \in NewDisplays,
                 Begin(r, [op |-> "createOidcUser", name |-> n, email |-> e, display |-> d],
                       "lookup")
          PROVE  AccountsInv'
      <3>1. [op |-> "createOidcUser", name |-> n, email |-> e, display |-> d] \in Jobs
        BY DEF Jobs
      <3> QED
        BY <2>2, <3>1, BeginInv DEF Creating
    <2>3. ASSUME NEW u \in UserIds, sessions[u] # "none",
                 Begin(r, [op |-> "refresh", actor |-> u], "refresh")
          PROVE  AccountsInv'
      <3>1. [op |-> "refresh", actor |-> u] \in Jobs
        BY DEF Jobs
      <3>2. u \in Existing
        BY <2>3, Types DEF TableTypes
      <3> QED
        BY <2>3, <3>1, <3>2, BeginInv
    <2> QED
      BY <1>4, <2>1, <2>2, <2>3 DEF OpenRequest
  <1> QED
    BY <1>2, <1>3, <1>4

LEMMA LookUpNameInv ==
  ASSUME AccountsInv, NEW r \in Requests, LookUpName(r)
  PROVE  AccountsInv'
  <1>1. RequestTypes /\ Request(r)
    BY Types DEF AccountsInv
  <1>2. UNCHANGED <<users, clients, trail, sessions, job, who, seen, image, purged, note, owned,
                    failures>>
    BY DEF LookUpName, tables, bounds
  <1>3. /\ pc[r] = "lookup" /\ pc'[r] \in {"insert", "reject"}
        /\ \A q \in Requests \ {r} : Same(q)
    BY <1>1, <1>2 DEF LookUpName, Goto, RequestTypes, Same
  <1>4. RequestTypes'
    BY <1>1, <1>2, <1>3 DEF LookUpName, Goto, RequestTypes, Labels
  <1>5. Request(r)' /\ image'[r] = None
    BY <1>1, <1>2, <1>3 DEF Request, Control, Reading, Writing, Indexing, Auditing, Purging,
                            HasWritten, Op, Actor, Existing
  <1>6. \A q \in Requests \ {r} : Apart(q, r)'
    BY <1>5 DEF Apart
  <1> QED
    BY <1>2, <1>3, <1>4, <1>5, <1>6, LocalStep DEF tables

LEMMA InsertUserInv ==
  ASSUME AccountsInv, NEW r \in Requests, InsertUser(r)
  PROVE  AccountsInv'
  <1>1. RequestTypes /\ Request(r)
    BY Types DEF AccountsInv
  <1>2. UNCHANGED <<users, clients, trail, sessions, failures>> /\ pc[r] = "insert" /\ Granted(r)
    BY DEF InsertUser, tables, bounds
  <1>3. CASE Named(job[r].name) # {}
    <2>1. RollBack(r)
      BY <1>3 DEF InsertUser
    <2> QED
      BY <1>1, <1>2, <2>1, RollBackInv DEF RequestTypes, tables
  <1>4. CASE Named(job[r].name) = {}
    <2>1. PICK u \in UserIds \ Existing :
                /\ \A q \in Requests : who[q] # u
                /\ Goto(r, "insert", "mail")
                /\ who' = [who EXCEPT ![r] = u]
                /\ image' = [image EXCEPT ![r] = NewUser(r)]
                /\ UNCHANGED <<job, seen, purged, note, owned>>
      BY <1>4 DEF InsertUser
    <2>2. Op(r) \in Creating /\ job[r] \in Jobs /\ job[r] # None
      BY <1>1, <1>2 DEF Request, Control, RequestTypes
    <2>3. NewUser(r) \in UserRow /\ NewUser(r) # None /\ NewUser(r).name = job[r].name
      <3>1. /\ job[r].op \in Creating /\ job[r].display \in NewDisplays
            /\ job[r].email \in NewEmails
            /\ job[r].op = "createUser" => job[r].name \in Names /\ job[r].level \in NewLevels
            /\ job[r].op = "createOidcUser" => job[r].name \in External
        BY <2>2, JobFields DEF Op
      <3>2. job[r].name \in Names /\ job[r].email \in Emails /\ job[r].display \in Displays
        BY <3>1, AccountsAssumption DEF Creating
      <3>3. (IF job[r].op = "createUser" THEN job[r].level ELSE "USER") \in Levels
        BY <3>1, AccountsAssumption DEF Levels
      <3>4. NewUser(r) \in UserRow
        BY <3>2, <3>3 DEF NewUser, UserRow, Passwords, Op
      <3>5. None \notin UserRow
        BY AccountsAssumption
      <3> QED
        BY <3>4, <3>5 DEF NewUser
    <2>4. /\ pc'[r] = "mail"
          /\ who'[r] = u /\ image'[r] = NewUser(r)
          /\ \A q \in Requests \ {r} : Same(q) /\ owned'[q] = owned[q]
      BY <1>1, <2>1 DEF Goto, RequestTypes, Same
    <2>5. RequestTypes'
      BY <1>1, <1>2, <2>1, <2>3 DEF Goto, RequestTypes, Labels
    <2>6. Control(r)' /\ Reading(r)' /\ Purging(r)' /\ Auditing(r)'
      BY <1>1, <1>2, <2>1, <2>2, <2>4
      DEF Request, Control, Reading, Purging, Auditing, Op, Actor, Existing, Creating, Changing,
          HasWritten
    <2>7. Writing(r)' /\ Indexing(r)'
      BY <1>1, <1>2, <1>4, <2>1, <2>2, <2>3, <2>4
      DEF Writing, Indexing, Op, Existing, Named, Creating, Changing, HasWritten
    <2>8. ASSUME NEW q \in Requests \ {r}
          PROVE  Apart(q, r)'
      <3>1. ~Blocks(q, r)
        BY <1>2 DEF Granted
      <3>2. image[q] # None /\ pc[q] # "index" => image[q].name # job[r].name
        BY <1>2, <3>1 DEF Blocks, NameBusy
      <3> QED
        BY <2>1, <2>3, <2>4, <3>2 DEF Apart, Same
    <2> QED
      BY <1>2, <2>4, <2>5, <2>6, <2>7, <2>8, LocalStep DEF Request, tables
  <1> QED
    BY <1>3, <1>4

LEMMA FindUserInv ==
  ASSUME AccountsInv, NEW r \in Requests, FindUser(r)
  PROVE  AccountsInv'
  <1>1. RequestTypes /\ Request(r) /\ TableTypes
    BY Types DEF AccountsInv
  <1>2. UNCHANGED <<users, clients, trail, sessions, failures, job, image, purged, note>>
    BY DEF FindUser, tables, bounds
  <1>3. pc[r] = "find" /\ Op(r) \in Changing /\ image[r] = None
    BY <1>1 DEF FindUser, Request, Control, Writing, HasWritten
  <1>4. image'[r] = None /\ \A q \in Requests \ {r} : Apart(q, r)'
    BY <1>2, <1>3 DEF Apart
  <1>5. CASE Wanted(r) = {}
    <2>1. Goto(r, "find", "reject") /\ UNCHANGED <<who, seen, owned>>
      BY <1>5 DEF FindUser
    <2>2. pc'[r] = "reject" /\ \A q \in Requests \ {r} : Same(q) /\ owned'[q] = owned[q]
      BY <1>1, <1>2, <2>1 DEF Goto, RequestTypes, Same
    <2>3. RequestTypes'
      BY <1>1, <1>2, <2>1 DEF Goto, RequestTypes, Labels
    <2>4. Request(r)'
      BY <1>1, <1>2, <1>3, <2>1, <2>2
      DEF Request, Control, Reading, Writing, Indexing, Auditing, Purging, HasWritten, Op, Actor,
          Existing
    <2> QED
      BY <1>2, <1>4, <2>2, <2>3, <2>4, LocalStep DEF tables
  <1>6. CASE Wanted(r) # {}
    <2>1. PICK u \in Wanted(r) :
                /\ Goto(r, "find", IF Op(r) = "login" /\ users[u].password = "hashed"
                                   THEN "verify" ELSE "update")
                /\ who' = [who EXCEPT ![r] = u]
                /\ seen' = [seen EXCEPT ![r] = users[u]]
                /\ owned' = [owned EXCEPT ![r] = OwnedBy(u)]
      BY <1>6 DEF FindUser
    <2>2. /\ u \in Existing
          /\ Op(r) \in {"deleteUser", "login"} => users[u].active
          /\ Op(r) = "login" => users[u].password # "absent"
      <3>1. Op(r) = "updateProfile" => u \in Existing
        BY <1>1, <1>3 DEF Wanted, Request, Control
      <3>2. Op(r) = "updateUser" => u \in Existing
        BY DEF Wanted, Named
      <3>3. Op(r) = "deleteUser" => u \in Existing /\ users[u].active
        BY DEF Wanted, Named
      <3>4. Op(r) = "login" => u \in Existing /\ users[u].active /\ users[u].password # "absent"
        BY DEF Wanted, Named
      <3> QED
        BY <1>3, <3>1, <3>2, <3>3, <3>4 DEF Changing
    <2>3. users[u] \in UserRow /\ u \in UserIds /\ OwnedBy(u) \subseteq Clients
      BY <1>1, <2>2 DEF TableTypes, Existing, OwnedBy
    <2>4. /\ pc'[r] = IF Op(r) = "login" /\ users[u].password = "hashed"
                      THEN "verify" ELSE "update"
          /\ who'[r] = u /\ seen'[r] = users[u] /\ owned'[r] = OwnedBy(u)
          /\ \A q \in Requests \ {r} : Same(q) /\ owned'[q] = owned[q]
      BY <1>1, <1>2, <2>1 DEF Goto, RequestTypes, Same
    <2>5. RequestTypes'
      BY <1>1, <1>2, <2>1, <2>3 DEF Goto, RequestTypes, Labels
    <2>6. Control(r)' /\ Writing(r)' /\ Indexing(r)' /\ Auditing(r)'
      BY <1>1, <1>2, <1>3, <1>4, <2>4
      DEF Request, Control, Writing, Indexing, Auditing, HasWritten, Op, Actor, Existing
    <2>7. Reading(r)'
      BY <1>2, <2>2, <2>3, <2>4 DEF Reading, HasWritten, Op, Existing, UserRow, Passwords
    <2>8. Purging(r)'
      BY <1>1, <1>2, <1>3, <2>3, <2>4 DEF Request, Purging, OwnedBy
    <2> QED
      BY <1>2, <1>4, <2>4, <2>5, <2>6, <2>7, <2>8, LocalStep DEF Request, tables
  <1> QED
    BY <1>5, <1>6

\* What an UPDATE writes.
LEMMA WrittenIsRow ==
  ASSUME AccountsInv, NEW r \in Requests, Op(r) \in Changing, job[r] # None,
         who[r] \in Existing, seen[r] \in UserRow
  PROVE  Written(r) \in UserRow /\ Written(r) # None
  <1>1. job[r] \in Jobs /\ users[who[r]] \in UserRow
    BY Types DEF RequestTypes, TableTypes, Existing
  <1>2. ASSUME Op(r) \in {"deleteUser", "login"}
        PROVE  Written(r) \in UserRow
    BY <1>2 DEF Written, UserRow, Passwords
  <1>3. ASSUME Op(r) \in {"updateUser", "updateProfile"}
        PROVE  Written(r) \in UserRow
    <2>1. job[r].patch \in UserPatches \cup ProfilePatches
      BY <1>1, <1>3, JobFields DEF Op
    <2>2. Written(r) = Patched(users[who[r]], job[r].patch)
      BY <1>3 DEF Written
    <2> QED
      BY <1>1, <2>1, <2>2, PatchedIsRow
  <1>4. None \notin UserRow
    BY AccountsAssumption
  <1> QED
    BY <1>2, <1>3, <1>4 DEF Changing

\* Which statement follows a write.
LEMMA AfterWriteIs ==
  ASSUME NEW r \in Requests, Op(r) \in Creating \cup Changing
  PROVE  \/ Op(r) = "deleteUser" /\ AfterWrite(r) = "purge"
         \/ Op(r) \in {"login", "createOidcUser"} /\ AfterWrite(r) = "commit"
         \/ Op(r) \in {"createUser", "updateUser", "updateProfile"} /\ AfterWrite(r) = "audit"
  BY DEF Creating, Changing, AfterWrite

LEMMA UpdateUserRowInv ==
  ASSUME AccountsInv, NEW r \in Requests, UpdateUserRow(r)
  PROVE  AccountsInv'
  <1>1. RequestTypes /\ Request(r) /\ TableTypes
    BY Types DEF AccountsInv
  <1>2. /\ UNCHANGED <<users, clients, trail, sessions, failures, job, who, seen, purged, note, owned>>
        /\ pc[r] = "update" /\ Granted(r)
    BY DEF UpdateUserRow, Goto, tables, bounds
  <1>3. /\ Op(r) \in Changing /\ job[r] # None /\ who[r] \in Existing /\ seen[r] \in UserRow
        /\ image[r] = None
    BY <1>1, <1>2 DEF Request, Control, Reading, Writing, HasWritten
  <1>4. Written(r) \in UserRow /\ Written(r) # None
    BY <1>3, WrittenIsRow
  <1>5. /\ pc'[r] = IF SameKeys(Written(r), users[who[r]]) THEN AfterWrite(r) ELSE "index"
        /\ image'[r] = Written(r)
        /\ \A q \in Requests \ {r} : Same(q) /\ owned'[q] = owned[q]
    BY <1>1, <1>2 DEF UpdateUserRow, Goto, RequestTypes, Same
  <1>6. \/ Op(r) = "deleteUser" /\ pc'[r] \in {"index", "purge"}
        \/ Op(r) = "login" /\ pc'[r] \in {"index", "commit"}
        \/ Op(r) \in {"updateUser", "updateProfile"} /\ pc'[r] \in {"index", "audit"}
    BY <1>3, <1>5, AfterWriteIs DEF Changing
  <1>7. RequestTypes'
    <2>1. pc'[r] \in Labels
      BY <1>6 DEF Labels
    <2> QED
      BY <1>1, <1>2, <1>4, <1>5, <2>1 DEF UpdateUserRow, Goto, RequestTypes
  <1>8. Op(r)' = Op(r) /\ Actor(r)' = Actor(r) /\ Existing' = Existing /\ Written(r)' = Written(r)
    BY <1>2 DEF Op, Actor, Existing, Written
  <1>9. Control(r)' /\ Reading(r)'
    BY <1>1, <1>2, <1>3, <1>6, <1>8 DEF Request, Control, Reading, Changing, HasWritten
  <1>10. Writing(r)'
    BY <1>2, <1>3, <1>4, <1>5, <1>6, <1>8 DEF Writing, HasWritten, Changing, Creating, Existing
  <1>11. Indexing(r)'
    BY <1>1, <1>2, <1>3, <1>5, <1>8 DEF Indexing, TableTypes, SameKeys
  <1>12. Auditing(r)' /\ Purging(r)'
    BY <1>1, <1>2, <1>5, <1>6, <1>8 DEF Request, Auditing, Purging
  <1>13. ASSUME NEW q \in Requests \ {r}
         PROVE  Apart(q, r)'
    <2>1. Indexing(q)
      BY DEF AccountsInv, Request
    <2>2. image[q] # None => who[q] # who[r]
      BY <1>2 DEF Granted, Blocks, Writes
    <2>3. pc'[r] # "index" => /\ image'[r].name = users[who[r]].name
                             /\ image'[r].email = users[who[r]].email
      BY <1>5 DEF SameKeys
    <2>4. image[q] # None => who[r] \in Existing \ {who[q]}
      BY <1>3, <2>2
    <2>5. /\ image[q] # None /\ pc[q] # "index" => users[who[r]].name # image[q].name
          /\ image[q] # None /\ pc[q] \notin {"index", "mail"} =>
                users[who[r]].email # image[q].email
      BY <2>1, <2>4 DEF Indexing
    <2>6. pc'[q] = pc[q] /\ image'[q] = image[q] /\ who'[q] = who[q] /\ who'[r] = who[r]
      BY <1>2, <1>5 DEF Same
    <2> QED
      BY <2>2, <2>3, <2>5, <2>6 DEF Apart
  <1> QED
    BY <1>2, <1>5, <1>7, <1>9, <1>10, <1>11, <1>12, <1>13, LocalStep DEF Request, tables

LEMMA IndexNameInv ==
  ASSUME AccountsInv, NEW r \in Requests, IndexName(r)
  PROVE  AccountsInv'
  <1>1. RequestTypes /\ Request(r) /\ TableTypes
    BY Types DEF AccountsInv
  <1>2. UNCHANGED <<users, clients, trail, sessions, failures>> /\ pc[r] = "index" /\ Granted(r)
    BY DEF IndexName, tables, bounds
  <1>3. CASE Named(image[r].name) \ {who[r]} # {}
    <2>1. RollBack(r)
      BY <1>3 DEF IndexName
    <2> QED
      BY <1>1, <1>2, <2>1, RollBackInv DEF RequestTypes, tables
  <1>4. CASE Named(image[r].name) \ {who[r]} = {}
    <2>1. Goto(r, "index", "mail") /\ UNCHANGED <<job, who, seen, image, purged, note, owned>>
      BY <1>4 DEF IndexName
    <2>2. Op(r) \in Changing /\ image[r] # None
      BY <1>1, <1>2 DEF Request, Control, Writing, HasWritten
    <2>3. /\ pc'[r] = "mail"
          /\ \A q \in Requests \ {r} : Same(q) /\ owned'[q] = owned[q]
      BY <1>1, <2>1 DEF Goto, RequestTypes, Same
    <2>4. RequestTypes'
      BY <1>1, <1>2, <2>1 DEF Goto, RequestTypes, Labels
    <2>5. Op(r)' = Op(r) /\ Actor(r)' = Actor(r) /\ Existing' = Existing /\ Written(r)' = Written(r)
      BY <1>2, <2>1 DEF Op, Actor, Existing, Written
    <2>6. Control(r)' /\ Reading(r)'
      BY <1>1, <1>2, <2>1, <2>2, <2>3, <2>5 DEF Request, Control, Reading, HasWritten
    <2>7. Writing(r)'
      BY <1>1, <1>2, <2>1, <2>2, <2>3, <2>5 DEF Request, Writing, HasWritten
    <2>8. Indexing(r)'
      BY <1>2, <1>4, <2>1, <2>3, <2>5 DEF Indexing, Named
    <2>9. Auditing(r)' /\ Purging(r)'
      BY <1>1, <1>2, <2>1, <2>3, <2>5 DEF Request, Auditing, Purging
    <2>10. ASSUME NEW q \in Requests \ {r}
           PROVE  Apart(q, r)'
      <3>1. Apart(q, r)
        BY DEF AccountsInv
      <3>2. image[q] # None /\ pc[q] # "index" => image[q].name # image[r].name
        BY <1>2 DEF Granted, Blocks, NameBusy
      <3> QED
        BY <2>1, <2>3, <3>1, <3>2 DEF Apart, Same
    <2> QED
      BY <1>2, <2>3, <2>4, <2>6, <2>7, <2>8, <2>9, <2>10, LocalStep DEF Request, tables
  <1> QED
    BY <1>3, <1>4

LEMMA IndexEmailInv ==
  ASSUME AccountsInv, NEW r \in Requests, IndexEmail(r)
  PROVE  AccountsInv'
  <1>1. RequestTypes /\ Request(r) /\ TableTypes
    BY Types DEF AccountsInv
  <1>2. UNCHANGED <<users, clients, trail, sessions, failures>> /\ pc[r] = "mail" /\ Granted(r)
    BY DEF IndexEmail, tables, bounds
  <1>3. CASE Mailed(image[r].email) \ {who[r]} # {}
    <2>1. RollBack(r)
      BY <1>3 DEF IndexEmail
    <2> QED
      BY <1>1, <1>2, <2>1, RollBackInv DEF RequestTypes, tables
  <1>4. CASE Mailed(image[r].email) \ {who[r]} = {}
    <2>1. Goto(r, "mail", AfterWrite(r)) /\ UNCHANGED <<job, who, seen, image, purged, note, owned>>
      BY <1>4 DEF IndexEmail
    <2>2. Op(r) \in Creating \cup Changing /\ image[r] # None /\ job[r] # None
      BY <1>1, <1>2 DEF Request, Control, Writing, HasWritten
    <2>3. /\ pc'[r] = AfterWrite(r)
          /\ \A q \in Requests \ {r} : Same(q) /\ owned'[q] = owned[q]
      BY <1>1, <2>1 DEF Goto, RequestTypes, Same
    <2>4. \/ Op(r) = "deleteUser" /\ pc'[r] = "purge"
          \/ Op(r) \in {"login", "createOidcUser"} /\ pc'[r] = "commit"
          \/ Op(r) \in {"createUser", "updateUser", "updateProfile"} /\ pc'[r] = "audit"
      BY <2>2, <2>3, AfterWriteIs
    <2>5. RequestTypes'
      <3>1. pc'[r] \in Labels
        BY <2>4 DEF Labels
      <3> QED
        BY <1>1, <1>2, <2>1, <3>1 DEF Goto, RequestTypes
    <2>6. Op(r)' = Op(r) /\ Actor(r)' = Actor(r) /\ Existing' = Existing /\ Written(r)' = Written(r)
      BY <1>2, <2>1 DEF Op, Actor, Existing, Written
    <2>7. Control(r)' /\ Reading(r)'
      BY <1>1, <1>2, <2>1, <2>2, <2>4, <2>6
      DEF Request, Control, Reading, Creating, Changing, HasWritten
    <2>8. Writing(r)'
      BY <1>1, <1>2, <2>1, <2>2, <2>4, <2>6 DEF Request, Writing, HasWritten
    <2>9. Indexing(r)'
      BY <1>1, <1>2, <1>4, <2>1, <2>4, <2>6 DEF Request, Indexing, Mailed
    <2>10. Auditing(r)'
      BY <1>1, <1>2, <2>1, <2>4, <2>6 DEF Request, Auditing
    <2>11. Purging(r)'
      BY <1>1, <1>2, <2>1, <2>4, <2>6 DEF Request, Purging
    <2>12. ASSUME NEW q \in Requests \ {r}
           PROVE  Apart(q, r)'
      <3>1. Apart(q, r)
        BY DEF AccountsInv
      <3>2. image[q] # None /\ pc[q] \notin {"index", "mail"} => image[q].email # image[r].email
        BY <1>2 DEF Granted, Blocks, EmailBusy
      <3> QED
        BY <1>2, <2>1, <2>3, <3>1, <3>2 DEF Apart, Same
    <2> QED
      BY <1>2, <2>3, <2>5, <2>7, <2>8, <2>9, <2>10, <2>11, <2>12, LocalStep DEF Request, tables
  <1> QED
    BY <1>3, <1>4

LEMMA PurgeClientsInv ==
  ASSUME AccountsInv, NEW r \in Requests, PurgeClients(r)
  PROVE  AccountsInv'
  <1>1. RequestTypes /\ Request(r)
    BY Types DEF AccountsInv
  <1>2. /\ UNCHANGED <<users, clients, trail, sessions, failures, job, who, seen, image, note, owned>>
        /\ pc[r] = "purge"
    BY DEF PurgeClients, Goto, tables, bounds
  <1>3. /\ pc'[r] = "audit" /\ purged'[r] = OwnedBy(who[r])
        /\ \A q \in Requests \ {r} : Same(q) /\ owned'[q] = owned[q]
    BY <1>1, <1>2 DEF PurgeClients, Goto, RequestTypes, Same
  <1>4. RequestTypes'
    BY <1>1, <1>2 DEF PurgeClients, Goto, RequestTypes, Labels, OwnedBy
  <1>5. Op(r)' = Op(r) /\ Actor(r)' = Actor(r) /\ Existing' = Existing /\ Written(r)' = Written(r)
    BY <1>2 DEF Op, Actor, Existing, Written
  <1>6. Control(r)' /\ Reading(r)' /\ Writing(r)' /\ Indexing(r)' /\ Auditing(r)'
    BY <1>1, <1>2, <1>3, <1>5
    DEF Request, Control, Reading, Writing, Indexing, Auditing, HasWritten
  <1>7. Purging(r)'
    BY <1>1, <1>2, <1>3, <1>5 DEF Request, Control, Purging, OwnedBy, RequestTypes
  <1>8. \A q \in Requests \ {r} : Apart(q, r)'
    BY <1>2, <1>3 DEF AccountsInv, Apart, Same
  <1> QED
    BY <1>2, <1>3, <1>4, <1>6, <1>7, <1>8, LocalStep DEF Request, tables

LEMMA AuditUserInv ==
  ASSUME AccountsInv, NEW r \in Requests, AuditUser(r)
  PROVE  AccountsInv'
  <1>1. RequestTypes /\ Request(r)
    BY Types DEF AccountsInv
  <1>2. /\ UNCHANGED <<users, clients, trail, sessions, failures, job, who, seen, image, purged,
                       owned>>
        /\ pc[r] = "audit"
    BY DEF AuditUser, Goto, tables, bounds
  <1>3. /\ pc'[r] = "commit"
        /\ note'[r] = IF Differing(r) = {} THEN None
                      ELSE [by |-> Actor(r), of |-> who[r],
                            changes |-> [c \in Differing(r) |->
                                            [old |-> OldValues(r)[c], new |-> image[r][c]]]]
        /\ \A q \in Requests \ {r} : Same(q) /\ owned'[q] = owned[q]
    BY <1>1, <1>2 DEF AuditUser, Goto, RequestTypes, Same
  <1>4. RequestTypes'
    BY <1>1, <1>2 DEF AuditUser, Goto, RequestTypes, Labels
  <1>5. /\ Op(r)' = Op(r) /\ Actor(r)' = Actor(r) /\ Existing' = Existing
        /\ Written(r)' = Written(r) /\ OldValues(r)' = OldValues(r)
    BY <1>2 DEF Op, Actor, Existing, Written, OldValues
  <1>6. Differing(r)' = Differing(r)
    BY <1>2, <1>5 DEF Differing
  <1>7. Control(r)' /\ Reading(r)' /\ Writing(r)' /\ Indexing(r)' /\ Purging(r)'
    BY <1>1, <1>2, <1>3, <1>5
    DEF Request, Control, Reading, Writing, Indexing, Purging, HasWritten, Creating, Changing
  <1>8. Auditing(r)'
    BY <1>1, <1>2, <1>3, <1>5, <1>6 DEF Request, Control, Auditing
  <1>9. \A q \in Requests \ {r} : Apart(q, r)'
    BY <1>2, <1>3 DEF AccountsInv, Apart, Same
  <1> QED
    BY <1>2, <1>3, <1>4, <1>7, <1>8, <1>9, LocalStep DEF Request, tables

\* A request that commits has a row to write, which may be a new one.
LEMMA Committed ==
  ASSUME AccountsInv, NEW r \in Requests, pc[r] = "commit"
  PROVE  /\ who[r] \in UserIds /\ image[r] \in UserRow /\ image[r] # None
         /\ Op(r) \in Creating \cup Changing
         /\ note[r] # None => note[r].by \in Existing /\ note[r].of = who[r]
  <1>1. RequestTypes /\ Request(r)
    BY Types DEF AccountsInv
  <1>2. /\ who[r] \in UserIds /\ image[r] \in UserRow /\ image[r] # None
        /\ Op(r) \in Creating \cup Changing
    BY <1>1 DEF Request, Control, Writing, HasWritten, RequestTypes
  <1>3. ASSUME note[r] # None
        PROVE  note[r].by \in Existing /\ note[r].of = who[r]
    <2>1. Op(r) \notin {"login", "createOidcUser"}
      BY <1>1, <1>3 DEF Request, Auditing
    <2>2. Actor(r) \in Existing
      BY <1>1, <2>1 DEF Request, Control
    <2>3. note[r] = [by |-> Actor(r), of |-> who[r],
                     changes |-> [c \in Differing(r) |->
                                     [old |-> OldValues(r)[c], new |-> image[r][c]]]]
      BY <1>1, <1>3, <2>1 DEF Request, Auditing
    <2> QED
      BY <2>2, <2>3
  <1> QED
    BY <1>2, <1>3

\* What a commit does to the tables.
LEMMA CommitEffect ==
  ASSUME AccountsInv, NEW r \in Requests, CommitUser(r)
  PROVE  /\ users'[who[r]] = image[r]
         /\ \A u \in UserIds \ {who[r]} : users'[u] = users[u]
         /\ Existing' = Existing \cup {who[r]}
         /\ TableTypes'
  <1>1. RequestTypes /\ Request(r) /\ TableTypes /\ pc[r] = "commit"
    BY Types DEF AccountsInv, CommitUser
  <1>2. /\ who[r] \in UserIds /\ image[r] \in UserRow /\ image[r] # None
        /\ note[r] # None => note[r].by \in Existing /\ note[r].of = who[r]
    BY <1>1, Committed
  <1>3. /\ users' \in [UserIds -> UserRow \cup {None}]
        /\ users'[who[r]] = image[r]
        /\ \A u \in UserIds \ {who[r]} : users'[u] = users[u]
    BY <1>1, <1>2 DEF CommitUser, TableTypes
  <1>4. Existing' = Existing \cup {who[r]}
    BY <1>2, <1>3 DEF Existing
  <1>5. clients' \in [Clients -> Existing' \cup {None}]
    BY <1>1, <1>4 DEF CommitUser, TableTypes
  <1>6. trail' # None => {trail'.by, trail'.of} \subseteq Existing'
    BY <1>1, <1>2, <1>4 DEF CommitUser, TableTypes
  <1>7. ASSUME NEW u \in Existing', NEW v \in Existing',
               users'[u].name = users'[v].name \/ users'[u].email = users'[v].email
        PROVE  u = v
    <2>1. Existing \subseteq UserIds
      BY DEF Existing
    <2>2. \A w \in Existing \ {who[r]} : /\ users[w].name # image[r].name
                                         /\ users[w].email # image[r].email
      BY <1>1, <1>2 DEF Request, Indexing
    <2>3. \A w \in Existing \ {who[r]} : users'[w] = users[w]
      BY <1>3, <2>1
    <2> QED
      BY <1>1, <1>3, <1>4, <1>7, <2>2, <2>3 DEF TableTypes
  <1>8. /\ sessions' \in [UserIds -> SessionStates]
        /\ \A u \in UserIds : sessions'[u] # "none" => u \in Existing'
    BY <1>1, <1>4 DEF CommitUser, TableTypes
  <1> QED
    BY <1>3, <1>4, <1>5, <1>6, <1>7, <1>8 DEF TableTypes

\* A commit does not touch what another request has read, written or entered.
LEMMA CommitOther ==
  ASSUME AccountsInv, NEW r \in Requests, CommitUser(r), NEW q \in Requests \ {r},
         Same(q), owned'[q] \subseteq owned[q] \ purged[r]
  PROVE  Request(q)'
  <1>1. /\ RequestTypes /\ Request(q) /\ Request(r) /\ pc[r] = "commit"
        /\ Apart(q, r)
    BY Types DEF AccountsInv, CommitUser
  <1>2. /\ users'[who[r]] = image[r]
        /\ \A u \in UserIds \ {who[r]} : users'[u] = users[u]
        /\ Existing' = Existing \cup {who[r]}
    BY CommitEffect
  <1>3. image[r] # None /\ who[r] \in UserIds
    BY <1>1, Committed
  <1>4. Op(q)' = Op(q) /\ Actor(q)' = Actor(q) /\ OldValues(q)' = OldValues(q)
    BY DEF Same, Op, Actor, OldValues
  <1>5. Differing(q)' = Differing(q)
    BY <1>4 DEF Same, Differing
  <1>6. image[q] # None => who[q] # who[r] /\ users'[who[q]] = users[who[q]]
    BY <1>1, <1>2, <1>3 DEF Apart, Request, Writing
  <1>7. image[q] # None => Written(q)' = Written(q)
    BY <1>4, <1>6 DEF Same, Written
  <1>8. Control(q)' /\ Reading(q)' /\ Writing(q)'
    BY <1>1, <1>2, <1>4, <1>6, <1>7 DEF Same, Request, Control, Reading, Writing
  <1>9. Indexing(q)'
    <2>1. ASSUME image[q] # None, NEW u \in Existing' \ {who[q]}
          PROVE  /\ pc[q] # "index" => users'[u].name # image[q].name
                 /\ pc[q] \notin {"index", "mail"} => users'[u].email # image[q].email
      <3>1. CASE u = who[r]
        BY <1>1, <1>2, <1>3, <2>1, <3>1 DEF Apart
      <3>2. CASE u # who[r]
        <4>1. u \in Existing /\ users'[u] = users[u]
          BY <1>2, <2>1, <3>2 DEF Existing
        <4> QED
          BY <1>1, <2>1, <4>1 DEF Request, Indexing
      <3> QED
        BY <3>1, <3>2
    <2> QED
      BY <2>1 DEF Indexing, Same
  <1>10. Auditing(q)'
    BY <1>1, <1>4, <1>5 DEF Same, Request, Auditing
  <1>11. Purging(q)'
    <2>1. \A c \in owned'[q] : clients'[c] = clients[c]
      BY <1>1 DEF CommitUser, RequestTypes
    <2> QED
      BY <1>1, <1>4, <2>1 DEF Same, Request, Purging
  <1> QED
    BY <1>8, <1>9, <1>10, <1>11 DEF Request

LEMMA CommitUserInv ==
  ASSUME AccountsInv, NEW r \in Requests, CommitUser(r)
  PROVE  AccountsInv'
  <1>1. /\ RequestTypes /\ Request(r) /\ pc[r] = "commit"
        /\ failures' = failures
    BY Types DEF AccountsInv, CommitUser, bounds
  <1>2. Existing' = Existing \cup {who[r]} /\ TableTypes'
    BY CommitEffect
  <1>3. /\ RequestTypes' /\ Request(r)'
        /\ \A q \in Requests \ {r} : /\ Same(q)
                                    /\ owned'[q] \subseteq owned[q] \ purged[r]
                                    /\ Apart(q, r)'
    <2>1. CASE Op(r) = "login"
      <3>1. GoOn(r)
        BY <2>1 DEF CommitUser
      <3>2. purged[r] = {}
        BY <1>1, <2>1 DEF Request, Purging
      <3>3. \A c \in owned[r] : clients'[c] = clients[c]
        BY <1>1, <3>2 DEF CommitUser, RequestTypes
      <3>4. /\ RequestTypes' /\ Request(r)'
            /\ \A q \in Requests \ {r} : Same(q) /\ owned'[q] = owned[q] /\ Apart(q, r)'
        BY <1>1, <1>2, <2>1, <3>1, <3>3, GoOnEffect DEF RequestTypes
      <3> QED
        BY <3>2, <3>4
    <2>2. CASE Op(r) # "login"
      <3>1. End(r, purged[r])
        BY <2>2 DEF CommitUser
      <3> QED
        BY <1>1, <3>1, EndEffect DEF RequestTypes
    <2> QED
      BY <2>1, <2>2
  <1>4. \A q \in Requests : Request(q)'
    BY <1>3, CommitOther
  <1>5. AccountsTypeOK'
    BY <1>2, <1>3, <1>4, TypesPrimed DEF AllRequests
  <1>6. ASSUME NEW p \in Requests, NEW q \in Requests, p # q
        PROVE  Apart(p, q)'
    <2>1. CASE p # r /\ q # r
      BY <1>3, <1>6, <2>1 DEF AccountsInv, Apart, Same
    <2>2. CASE q = r
      BY <1>3, <1>6, <2>2
    <2>3. CASE p = r
      BY <1>3, <1>6, <2>3, ApartSymmetric
    <2> QED
      BY <2>1, <2>2, <2>3
  <1>7. note' = [q \in Requests |-> note'[q]] /\ failures' \in Nat
    BY <1>3 DEF RequestTypes
  <1> QED
    BY <1>4, <1>5, <1>6, <1>7 DEF AccountsInv

\* Tokens are given to users there are.
LEMMA TokenInv ==
  ASSUME AccountsInv, NEW r \in Requests, VerifyPassword(r) \/ RefreshTokens(r)
  PROVE  AccountsInv'
  <1>1. RequestTypes /\ Request(r) /\ TableTypes
    BY Types DEF AccountsInv
  <1>2. UNCHANGED <<users, clients, trail, failures>> /\ End(r, {})
    BY DEF VerifyPassword, RefreshTokens, tables, bounds
  <1>3. \E u \in Existing : sessions' \in {sessions, [sessions EXCEPT ![u] = "live"]}
    <2>1. CASE VerifyPassword(r)
      <3>1. who[r] \in Existing
        BY <1>1, <2>1 DEF VerifyPassword, Request, Control, Reading, Changing
      <3> QED
        BY <2>1, <3>1 DEF VerifyPassword
    <2>2. CASE RefreshTokens(r)
      <3>1. Actor(r) \in Existing
        BY <1>1, <2>2 DEF RefreshTokens, Request, Control
      <3> QED
        BY <2>2, <3>1 DEF RefreshTokens
    <2> QED
      BY <2>1, <2>2
  <1>4. /\ sessions' \in [UserIds -> SessionStates]
        /\ \A u \in UserIds : sessions'[u] # "none" => u \in Existing
    BY <1>1, <1>3 DEF TableTypes, SessionStates
  <1>5. /\ RequestTypes' /\ Request(r)'
        /\ \A q \in Requests \ {r} : Same(q) /\ owned'[q] = owned[q] \ {} /\ Apart(q, r)'
    BY <1>1, <1>2, EndEffect DEF RequestTypes
  <1>6. \A q \in Requests \ {r} : /\ owned'[q] \subseteq owned[q]
                                /\ \A c \in owned'[q] : clients'[c] = clients[c]
    BY <1>2, <1>5
  <1>7. clients' \in [Clients -> Existing \cup {None}]
    BY <1>1, <1>2 DEF TableTypes
  <1> QED
    BY <1>2, <1>4, <1>5, <1>6, <1>7, OneRequest

LEMMA FindClientInv ==
  ASSUME AccountsInv, NEW r \in Requests, FindClient(r)
  PROVE  AccountsInv'
  <1>1. RequestTypes /\ Request(r)
    BY Types DEF AccountsInv
  <1>2. UNCHANGED <<users, clients, trail, sessions, job, who, seen, image, purged, note, owned,
                    failures>>
    BY DEF FindClient, tables, bounds
  <1>3. /\ pc[r] = "findClient" /\ pc'[r] \in {"addClient", "reject"}
        /\ \A q \in Requests \ {r} : Same(q)
    BY <1>1, <1>2 DEF FindClient, Goto, RequestTypes, Same
  <1>4. RequestTypes'
    BY <1>1, <1>2, <1>3 DEF FindClient, Goto, RequestTypes, Labels
  <1>5. Request(r)' /\ image'[r] = None
    BY <1>1, <1>2, <1>3 DEF Request, Control, Reading, Writing, Indexing, Auditing, Purging,
                            HasWritten, Op, Actor, Existing
  <1>6. \A q \in Requests \ {r} : Apart(q, r)'
    BY <1>5 DEF Apart
  <1> QED
    BY <1>2, <1>3, <1>4, <1>5, <1>6, LocalStep DEF tables

\* A step of a client's request that frees some clients, or enters one in place
\* of nobody's.
LEMMA ClientsInv ==
  ASSUME AccountsInv, NEW r \in Requests, NEW lost, End(r, lost),
         UNCHANGED <<users, trail, sessions, failures>>,
         clients' \in [Clients -> Existing \cup {None}],
         \A c \in Clients \ lost : clients[c] # None => clients'[c] = clients[c]
  PROVE  AccountsInv'
  <1>1. RequestTypes /\ TableTypes
    BY Types
  <1>2. /\ RequestTypes' /\ Request(r)'
        /\ \A q \in Requests \ {r} : Same(q) /\ owned'[q] = owned[q] \ lost /\ Apart(q, r)'
    BY <1>1, EndEffect DEF RequestTypes
  <1>3. ASSUME NEW q \in Requests \ {r}, NEW c \in owned'[q]
        PROVE  clients'[c] = clients[c]
    <2>1. c \in owned[q] /\ c \in Clients /\ c \notin lost
      BY <1>1, <1>2, <1>3 DEF RequestTypes
    <2>2. clients[c] = who[q] /\ who[q] \in UserIds
      BY <2>1 DEF AccountsInv, Request, Purging
    <2>3. None \notin UserIds
      BY AccountsAssumption
    <2> QED
      BY <2>1, <2>2, <2>3
  <1>4. /\ sessions' \in [UserIds -> SessionStates]
        /\ \A u \in UserIds : sessions'[u] # "none" => u \in Existing
    BY <1>1 DEF TableTypes
  <1>5. \A q \in Requests \ {r} : owned'[q] \subseteq owned[q]
    BY <1>2
  <1> QED
    BY <1>2, <1>3, <1>4, <1>5, OneRequest

LEMMA InsertClientInv ==
  ASSUME AccountsInv, NEW r \in Requests, InsertClient(r)
  PROVE  AccountsInv'
  <1>1. RequestTypes /\ Request(r) /\ TableTypes
    BY Types DEF AccountsInv
  <1>2. UNCHANGED <<users, trail, sessions, failures>> /\ pc[r] = "addClient"
    BY DEF InsertClient, bounds
  <1>3. CASE clients[job[r].client] # None
    <2>1. RollBack(r) /\ UNCHANGED clients
      BY <1>3 DEF InsertClient
    <2> QED
      BY <1>1, <1>2, <2>1, RollBackInv DEF RequestTypes, tables
  <1>4. CASE clients[job[r].client] = None
    <2>1. clients' = [clients EXCEPT ![job[r].client] = Actor(r)] /\ End(r, {})
      BY <1>4 DEF InsertClient
    <2>2. Actor(r) \in Existing
      BY <1>1, <1>2 DEF Request, Control
    <2>3. /\ clients' \in [Clients -> Existing \cup {None}]
          /\ \A c \in Clients \ {} : clients[c] # None => clients'[c] = clients[c]
      BY <1>1, <1>4, <2>1, <2>2 DEF TableTypes
    <2> QED
      BY <1>2, <2>1, <2>3, ClientsInv
  <1> QED
    BY <1>3, <1>4

LEMMA RevokeClientInv ==
  ASSUME AccountsInv, NEW r \in Requests, RevokeClient(r)
  PROVE  AccountsInv'
  <1>1. TableTypes
    BY Types
  <1>2. /\ UNCHANGED <<users, trail, sessions, failures>>
        /\ clients' = [c \in Clients |-> IF c \in Doomed(r) THEN None ELSE clients[c]]
        /\ End(r, Doomed(r))
    BY DEF RevokeClient, bounds
  <1>3. clients' \in [Clients -> Existing \cup {None}]
    BY <1>1, <1>2 DEF TableTypes
  <1>4. \A c \in Clients \ Doomed(r) : clients[c] # None => clients'[c] = clients[c]
    BY <1>2
  <1> QED
    BY <1>2, <1>3, <1>4, ClientsInv

LEMMA ExpireInv ==
  ASSUME AccountsInv, NEW u \in UserIds, Expire(u)
  PROVE  AccountsInv'
  <1>1. RequestTypes /\ TableTypes
    BY Types
  <1>2. /\ UNCHANGED <<users, clients, trail, pc, job, who, seen, image, purged, note, owned>>
        /\ failures' \in Nat
    BY <1>1 DEF Expire, tables, RequestTypes
  <1>3. RequestTypes'
    BY <1>1, <1>2 DEF RequestTypes
  <1>4. TableTypes'
    <2>1. /\ sessions' \in [UserIds -> SessionStates]
          /\ \A v \in UserIds : sessions'[v] # "none" => v \in Existing
      BY <1>1 DEF Expire, TableTypes, SessionStates
    <2>2. Existing' = Existing
      BY <1>2 DEF Existing
    <2> QED
      BY <1>1, <1>2, <2>1, <2>2 DEF TableTypes
  <1>5. \A q \in Requests : Request(q)'
    BY <1>2, OtherInv DEF AccountsInv, Same
  <1>6. \A p, q \in Requests : p # q => Apart(p, q)'
    BY <1>2 DEF AccountsInv, Apart
  <1> QED
    BY <1>2, <1>3, <1>4, <1>5, <1>6, TypesPrimed DEF AccountsInv, AllRequests, RequestTypes

LEMMA StutterInv ==
  ASSUME AccountsInv, UNCHANGED vars
  PROVE  AccountsInv'
  <1>1. RequestTypes /\ TableTypes
    BY Types
  <1>2. UNCHANGED <<users, clients, trail, sessions, pc, job, who, seen, image, purged, note, owned,
                    failures>>
    BY DEF vars
  <1>3. RequestTypes' /\ TableTypes'
    BY <1>1, <1>2 DEF RequestTypes, TableTypes, Existing
  <1>4. \A q \in Requests : Request(q)'
    BY <1>2, OtherInv DEF AccountsInv, Same
  <1>5. \A p, q \in Requests : p # q => Apart(p, q)'
    BY <1>2 DEF AccountsInv, Apart
  <1> QED
    BY <1>2, <1>3, <1>4, <1>5, TypesPrimed DEF AccountsInv, AllRequests, RequestTypes

----------------------------------------------------------------------------
(* The invariant. *)

LEMMA InitInv == Init => AccountsInv
  <1> SUFFICES ASSUME Init
               PROVE  AccountsInv
    OBVIOUS
  <1>1. RequestTypes
    BY AccountsAssumption DEF Init, RequestTypes, Labels
  <1>2. Existing = {u \in UserIds : InitialUsers[u] # None}
    BY DEF Init, Existing
  <1>3. TableTypes
    BY <1>2, AccountsAssumption DEF Init, TableTypes, Existing
  <1>4. \A r \in Requests : Request(r)
    BY DEF Init, Request, Control, Reading, Writing, Indexing, Auditing, Purging, HasWritten
  <1>5. \A q, r \in Requests : Apart(q, r)
    BY DEF Init, Apart
  <1> QED
    BY <1>1, <1>3, <1>4, <1>5, Types DEF AccountsInv, AllRequests, RequestTypes

LEMMA StepInv ==
  ASSUME AccountsInv, NEW r \in Requests, AccountStep(r)
  PROVE  AccountsInv'
  <1>1. failures \in Nat
    BY DEF AccountsInv
  <1>2. ASSUME Reject(r)
        PROVE  AccountsInv'
    BY <1>1, <1>2, EndInv DEF Reject, bounds
  <1>3. ASSUME AbortDeadlock(r)
        PROVE  AccountsInv'
    BY <1>1, <1>3, WaitingIsRunning, RollBackInv DEF AbortDeadlock, bounds
  <1>4. ASSUME UserStep(r)
        PROVE  AccountsInv'
    BY <1>2, <1>4, LookUpNameInv, InsertUserInv, FindUserInv, UpdateUserRowInv, IndexNameInv,
       IndexEmailInv, PurgeClientsInv, AuditUserInv, CommitUserInv DEF UserStep
  <1> QED
    BY <1>3, <1>4, TokenInv, FindClientInv, InsertClientInv, RevokeClientInv
    DEF AccountStep, TokenStep, ClientStep

LEMMA NextInv == AccountsInv /\ [Next]_vars => AccountsInv'
  <1> SUFFICES ASSUME AccountsInv, [Next]_vars
               PROVE  AccountsInv'
    OBVIOUS
  <1>1. ASSUME NEW r \in Requests, Fail(r)
        PROVE  AccountsInv'
    <2>1. failures' \in Nat
      BY <1>1 DEF Fail, AccountsInv
    <2> QED
      BY <1>1, <2>1, RollBackInv DEF Fail
  <1> QED
    BY <1>1, RequestInv, StepInv, ExpireInv, StutterInv DEF Next

THEOREM AccountsInvariant == Spec => []AccountsInv
  BY InitInv, NextInv, PTL DEF Spec

\* The type invariant: names and addresses stay unique although a name is looked up
\* and entered in separate statements, and tokens and clients belong to users there are.
THEOREM AccountsTypeCorrect == Spec => []AccountsTypeOK
  <1>1. AccountsInv => AccountsTypeOK
    BY DEF AccountsInv
  <1> QED
    BY <1>1, AccountsInvariant, PTL

----------------------------------------------------------------------------
(* Who changes a user, and how. *)

\* Only the commit of a request changes a user.
LEMMA UserChanges ==
  ASSUME AccountsInv, [Next]_vars, NEW u \in UserIds, users'[u] # users[u]
  PROVE  \E r \in Requests : CommitUser(r) /\ who[r] = u
  <1>1. users' # users
    OBVIOUS
  <1>2. \E r \in Requests : CommitUser(r)
    <2>1. ASSUME NEW r \in Requests, AdminRequest(r) \/ OwnRequest(r) \/ OpenRequest(r)
          PROVE  users' = users
      BY <2>1 DEF AdminRequest, OwnRequest, OpenRequest, Begin, tables
    <2>2. ASSUME NEW r \in Requests, AccountStep(r), ~CommitUser(r)
          PROVE  users' = users
      BY <2>2 DEF AccountStep, UserStep, TokenStep, ClientStep, LookUpName, InsertUser, FindUser,
         UpdateUserRow, IndexName, IndexEmail, PurgeClients, AuditUser, Reject, VerifyPassword,
         RefreshTokens, FindClient, InsertClient, RevokeClient, AbortDeadlock, tables
    <2>3. ASSUME NEW r \in Requests, Fail(r)
          PROVE  users' = users
      BY <2>3 DEF Fail, tables
    <2>4. ASSUME NEW v \in UserIds, Expire(v)
          PROVE  users' = users
      BY <2>4 DEF Expire, tables
    <2>5. UNCHANGED vars => users' = users
      BY DEF vars
    <2> QED
      BY <1>1, <2>1, <2>2, <2>3, <2>4, <2>5 DEF Next
  <1> QED
    BY <1>2, CommitEffect

\* The version that is committed for a user there was, by the request's operation.
LEMMA WhatIsWritten ==
  ASSUME AccountsInv, NEW r \in Requests, CommitUser(r), who[r] \in Existing
  PROVE  /\ pc[r] = "commit" /\ Op(r) \in Changing /\ image[r] # None
         /\ seen[r] \in UserRow /\ users[who[r]] \in UserRow
         /\ users'[who[r]] = image[r]
         /\ Op(r) = "deleteUser" => image[r] = [seen[r] EXCEPT !.active = FALSE]
         /\ Op(r) = "login" => image[r] = [seen[r] EXCEPT !.password = "hashed"]
         /\ Op(r) \in {"updateUser", "updateProfile"} =>
               image[r] = Patched(users[who[r]], job[r].patch)
  <1>1. RequestTypes /\ TableTypes /\ Request(r) /\ pc[r] = "commit"
    BY Types DEF AccountsInv, CommitUser
  <1>2. Op(r) \in Creating \cup Changing /\ image[r] # None
    BY <1>1, Committed
  <1>3. Op(r) \in Changing
    BY <1>1, <1>2 DEF Request, Writing
  <1>4. image[r] = Written(r) /\ seen[r] \in UserRow /\ users[who[r]] \in UserRow
    BY <1>1, <1>2, <1>3 DEF Request, Writing, Reading, HasWritten, TableTypes, Existing
  <1>5. users'[who[r]] = image[r]
    BY CommitEffect
  <1>6. /\ Op(r) = "deleteUser" => Written(r) = [seen[r] EXCEPT !.active = FALSE]
        /\ Op(r) = "login" => Written(r) = [seen[r] EXCEPT !.password = "hashed"]
        /\ Op(r) \in {"updateUser", "updateProfile"} =>
               Written(r) = Patched(users[who[r]], job[r].patch)
    BY DEF Written
  <1> QED
    BY <1>1, <1>2, <1>3, <1>4, <1>5, <1>6

\* Columns of a user change only in requests about them, except when a DELETE or a
\* login saves the whole record and the user was changed since it was read.
THEOREM OverwritesOnlyOvertaken == Spec => OverwritesAreOvertaken
  <1>1. ASSUME AccountsInv, [Next]_vars, NEW u \in Existing, NEW c \in UserColumns,
               users'[u][c] # users[u][c]
        PROVE  \E r \in Requests :
                /\ Committing(r, u)
                /\ \/ c \in Asked(r)
                   \/ Op(r) \in {"deleteUser", "login"} /\ seen[r] # users[u]
    <2>1. PICK r \in Requests : CommitUser(r) /\ who[r] = u
      BY <1>1, UserChanges DEF Existing
    <2>2. /\ pc[r] = "commit" /\ Op(r) \in Changing
          /\ seen[r] \in UserRow /\ users[u] \in UserRow /\ users'[u] = image[r]
          /\ Op(r) = "deleteUser" => image[r] = [seen[r] EXCEPT !.active = FALSE]
          /\ Op(r) = "login" => image[r] = [seen[r] EXCEPT !.password = "hashed"]
          /\ Op(r) \in {"updateUser", "updateProfile"} =>
                image[r] = Patched(users[u], job[r].patch)
      BY <1>1, <2>1, WhatIsWritten
    <2>3. CASE Op(r) = "deleteUser"
      <3>1. c # "active" => image[r][c] = seen[r][c]
        BY <1>1, <2>2, <2>3 DEF UserRow, UserColumns
      <3>2. Asked(r) = {"active"}
        BY <2>3 DEF Asked
      <3> QED
        BY <1>1, <2>1, <2>2, <2>3, <3>1, <3>2 DEF Committing
    <2>4. CASE Op(r) = "login"
      <3>1. c # "password" => image[r][c] = seen[r][c]
        BY <1>1, <2>2, <2>4 DEF UserRow, UserColumns
      <3>2. Asked(r) = {"password"}
        BY <2>4 DEF Asked
      <3> QED
        BY <1>1, <2>1, <2>2, <2>4, <3>1, <3>2 DEF Committing
    <2>5. CASE Op(r) \in {"updateUser", "updateProfile"}
      <3>1. c \notin DOMAIN job[r].patch => image[r][c] = users[u][c]
        BY <1>1, <2>2, <2>5 DEF Patched
      <3>2. Asked(r) = DOMAIN job[r].patch
        BY <2>5 DEF Asked
      <3> QED
        BY <1>1, <2>1, <2>2, <3>1, <3>2 DEF Committing
    <2> QED
      BY <2>2, <2>3, <2>4, <2>5 DEF Changing
  <1>2. AccountsInv /\ [Next]_vars =>
            \A u \in Existing, c \in UserColumns :
                users'[u][c] # users[u][c] =>
                    \E r \in Requests :
                        /\ Committing(r, u)
                        /\ \/ c \in Asked(r)
                           \/ Op(r) \in {"deleteUser", "login"} /\ seen[r] # users[u]
    BY <1>1
  <1> QED
    BY <1>2, AccountsInvariant, PTL DEF Spec, OverwritesAreOvertaken

\* A user who was deleted becomes active only by a PATCH that says so, or by a
\* login that had found the user active.
THEOREM ReactivationOnlyAsked == Spec => ReactivationIsAsked
  <1>1. ASSUME AccountsInv, [Next]_vars, NEW u \in Existing, ~users[u].active, users'[u].active
        PROVE  \E r \in Requests :
                /\ Committing(r, u)
                /\ \/ Op(r) = "updateUser" /\ "active" \in Asked(r)
                   \/ Op(r) = "login" /\ seen[r].active
    <2>1. PICK r \in Requests : CommitUser(r) /\ who[r] = u
      BY <1>1, UserChanges DEF Existing
    <2>2. /\ pc[r] = "commit" /\ Op(r) \in Changing
          /\ seen[r] \in UserRow /\ users[u] \in UserRow /\ users'[u] = image[r]
          /\ Op(r) = "deleteUser" => image[r] = [seen[r] EXCEPT !.active = FALSE]
          /\ Op(r) = "login" => image[r] = [seen[r] EXCEPT !.password = "hashed"]
          /\ Op(r) \in {"updateUser", "updateProfile"} =>
                image[r] = Patched(users[u], job[r].patch)
      BY <1>1, <2>1, WhatIsWritten
    <2>3. Op(r) # "deleteUser"
      BY <1>1, <2>2 DEF UserRow
    <2>4. ASSUME Op(r) = "login"
          PROVE  seen[r].active
      BY <1>1, <2>2, <2>4 DEF UserRow
    <2>5. ASSUME Op(r) \in {"updateUser", "updateProfile"}
          PROVE  "active" \in DOMAIN job[r].patch
      BY <1>1, <2>2, <2>5 DEF Patched, UserColumns
    <2>6. Op(r) # "updateProfile"
      <3>1. ASSUME Op(r) = "updateProfile"
            PROVE  FALSE
        <4>1. job[r] \in Jobs
          BY <1>1, <2>2, Types DEF RequestTypes, AccountsInv, Request, Control
        <4>2. job[r].patch \in ProfilePatches
          BY <3>1, <4>1, JobFields DEF Op
        <4> QED
          BY <2>5, <3>1, <4>2, AccountsAssumption
      <3> QED
        BY <3>1
    <2>7. Op(r) = "updateUser" => Asked(r) = DOMAIN job[r].patch
      BY DEF Asked
    <2> QED
      BY <2>1, <2>2, <2>3, <2>4, <2>5, <2>6, <2>7 DEF Changing, Committing
  <1>2. AccountsInv /\ [Next]_vars =>
            \A u \in Existing :
                ~users[u].active /\ users'[u].active =>
                    \E r \in Requests :
                        /\ Committing(r, u)
                        /\ \/ Op(r) = "updateUser" /\ "active" \in Asked(r)
                           \/ Op(r) = "login" /\ seen[r].active
    BY <1>1
  <1> QED
    BY <1>2, AccountsInvariant, PTL DEF Spec, ReactivationIsAsked

\* An inactive user is given tokens only by a login that found the user active.
THEOREM TokensNeedActive == Spec => TokensNeedActiveUser
  <1>1. ASSUME AccountsInv, [Next]_vars, NEW u \in Existing,
               sessions[u] # "live", sessions'[u] = "live", ~users[u].active
        PROVE  \E r \in Requests : pc[r] = "verify" /\ who[r] = u /\ seen[r].active
    <2>1. sessions' # sessions /\ TableTypes
      BY <1>1, Types
    <2>2. ASSUME NEW r \in Requests, AdminRequest(r) \/ OwnRequest(r) \/ OpenRequest(r)
          PROVE  FALSE
      BY <2>1, <2>2 DEF AdminRequest, OwnRequest, OpenRequest, Begin
    <2>3. ASSUME NEW r \in Requests, AccountStep(r), ~TokenStep(r)
          PROVE  FALSE
      BY <2>1, <2>3 DEF AccountStep, UserStep, ClientStep, LookUpName, InsertUser, FindUser,
         UpdateUserRow, IndexName, IndexEmail, PurgeClients, AuditUser, CommitUser, Reject,
         FindClient, InsertClient, RevokeClient, AbortDeadlock
    <2>4. ASSUME NEW r \in Requests, Fail(r)
          PROVE  FALSE
      BY <2>1, <2>4 DEF Fail
    <2>5. ASSUME NEW v \in UserIds, Expire(v)
          PROVE  FALSE
      BY <1>1, <2>1, <2>5 DEF Expire, TableTypes, Existing
    <2>6. \E r \in Requests : TokenStep(r)
      BY <1>1, <2>1, <2>2, <2>3, <2>4, <2>5 DEF Next, vars
    <2>7. PICK r \in Requests : VerifyPassword(r) \/ RefreshTokens(r)
      BY <2>6 DEF TokenStep
    <2>8. ~RefreshTokens(r)
      BY <1>1, <2>1 DEF RefreshTokens, TableTypes, Existing
    <2>9. pc[r] = "verify" /\ who[r] = u
      BY <1>1, <2>1, <2>7, <2>8 DEF VerifyPassword, TableTypes, Existing
    <2>10. Control(r) /\ Reading(r)
      BY <1>1 DEF AccountsInv, Request
    <2>11. Op(r) = "login" /\ seen[r] \in UserRow
      BY <2>9, <2>10 DEF Control, Reading, Changing
    <2>12. None \notin UserRow
      BY AccountsAssumption
    <2>13. seen[r].active
      BY <2>10, <2>11, <2>12 DEF Reading
    <2> QED
      BY <2>9, <2>13
  <1>2. AccountsInv /\ [Next]_vars =>
            \A u \in Existing :
                sessions[u] # "live" /\ sessions'[u] = "live" /\ ~users[u].active =>
                    \E r \in Requests :
                        pc[r] = "verify" /\ who[r] = u /\ seen[r].active
    BY <1>1
  <1> QED
    BY <1>2, AccountsInvariant, PTL DEF Spec, TokensNeedActiveUser

----------------------------------------------------------------------------
(* What a commit leaves behind. *)

\* A request that leaves its COMMIT without a failure has committed.
LEMMA CommitStep ==
  ASSUME AccountsInv, [Next]_vars, NEW r \in Requests, NEW u, Commits(r, u)
  PROVE  CommitUser(r) /\ who[r] = u
  <1>1. pc[r] = "commit" /\ pc'[r] # "commit" /\ failures' = failures /\ who[r] = u
    BY DEF Commits, Committing
  <1>2. RequestTypes
    BY Types
  <1>3. ASSUME NEW q \in Requests, q # r, AccountStep(q) \/ AdminRequest(q) \/ OwnRequest(q)
                                             \/ OpenRequest(q) \/ Fail(q)
        PROVE  FALSE
    <2>1. \/ \E label : pc' = [pc EXCEPT ![q] = label]
          \/ \E lost : End(q, lost)
          \/ GoOn(q)
      <3>1. ASSUME RollBack(q)
            PROVE  End(q, {}) \/ GoOn(q)
        BY <3>1 DEF RollBack
      <3>2. ASSUME AdminRequest(q) \/ OwnRequest(q) \/ OpenRequest(q)
            PROVE  \E label : pc' = [pc EXCEPT ![q] = label]
        BY <3>2 DEF AdminRequest, OwnRequest, OpenRequest, Begin, Goto
      <3>3. ASSUME LookUpName(q) \/ FindUser(q) \/ UpdateUserRow(q) \/ PurgeClients(q)
                      \/ AuditUser(q) \/ FindClient(q)
            PROVE  \E label : pc' = [pc EXCEPT ![q] = label]
        BY <3>3 DEF LookUpName, FindUser, UpdateUserRow, PurgeClients, AuditUser, FindClient, Goto
      <3>4. ASSUME InsertUser(q) \/ IndexName(q) \/ IndexEmail(q)
            PROVE  RollBack(q) \/ \E label : pc' = [pc EXCEPT ![q] = label]
        BY <3>4 DEF InsertUser, IndexName, IndexEmail, Goto
      <3>5. ASSUME CommitUser(q) \/ Reject(q) \/ TokenStep(q) \/ InsertClient(q) \/ RevokeClient(q)
                      \/ AbortDeadlock(q) \/ Fail(q)
            PROVE  RollBack(q) \/ GoOn(q) \/ \E lost : End(q, lost)
        BY <3>5 DEF CommitUser, Reject, TokenStep, VerifyPassword, RefreshTokens, InsertClient,
                    RevokeClient, AbortDeadlock, Fail
      <3> QED
        BY <1>3, <3>1, <3>2, <3>3, <3>4, <3>5 DEF AccountStep, UserStep, ClientStep
    <2>2. \E label : pc' = [pc EXCEPT ![q] = label]
      BY <2>1 DEF End, GoOn
    <2> QED
      BY <1>1, <1>2, <1>3, <2>2 DEF RequestTypes
  <1>4. ~Fail(r) /\ ~AbortDeadlock(r)
    BY <1>1, <1>2, WaitingIsRunning DEF Fail, AbortDeadlock, RequestTypes
  <1>5. ~AdminRequest(r) /\ ~OwnRequest(r) /\ ~OpenRequest(r)
    BY <1>1 DEF AdminRequest, OwnRequest, OpenRequest, Begin, Goto
  <1>6. AccountStep(r) => CommitUser(r)
    BY <1>1, <1>4 DEF AccountStep, UserStep, TokenStep, ClientStep, LookUpName, InsertUser, FindUser,
       UpdateUserRow, IndexName, IndexEmail, PurgeClients, AuditUser, Reject, VerifyPassword,
       RefreshTokens, FindClient, InsertClient, RevokeClient, Goto
  <1>7. \A v \in UserIds : ~Expire(v)
    BY <1>1 DEF Expire
  <1>8. ~UNCHANGED vars
    BY <1>1 DEF vars
  <1> QED
    BY <1>1, <1>3, <1>4, <1>5, <1>6, <1>7, <1>8 DEF Next

\* A DELETE of a user that commits leaves none of the clients the user has had
\* since the request began.
THEOREM ClientsGo == Spec => ClientsGoWithUser
  <1>1. ASSUME AccountsInv, [Next]_vars, NEW r \in Requests, Commits(r, who[r]), Op(r) = "deleteUser",
               NEW c \in owned[r]
        PROVE  clients'[c] # who[r]
    <2>1. CommitUser(r) /\ pc[r] = "commit"
      BY <1>1, CommitStep DEF Commits, Committing
    <2>2. RequestTypes /\ Purging(r) /\ who[r] \in UserIds
      BY <1>1, <2>1, Types, Committed DEF AccountsInv, Request
    <2>3. c \in purged[r] /\ c \in Clients
      BY <1>1, <2>1, <2>2 DEF Purging, RequestTypes
    <2>4. clients'[c] = None
      BY <2>1, <2>3 DEF CommitUser
    <2> QED
      BY <2>2, <2>4, AccountsAssumption
  <1>2. AccountsInv /\ [Next]_vars =>
            \A r \in Requests :
                Commits(r, who[r]) /\ Op(r) = "deleteUser" =>
                    \A c \in owned[r] : clients'[c] # who[r]
    BY <1>1
  <1> QED
    BY <1>2, AccountsInvariant, PTL DEF Spec, ClientsGoWithUser

\* An audit of the columns that differ between two rows is an entry of a change log.
LEMMA AuditIsThere ==
  ASSUME NEW columns \in SUBSET AuditedUserColumns, NEW old \in UserRow, NEW new \in UserRow,
         NEW by \in UserIds, NEW of \in UserIds
  PROVE  [by |-> by, of |-> of,
          changes |-> [c \in columns |-> [old |-> old[c], new |-> new[c]]]] # None
  <1>1. [c \in columns |-> [old |-> old[c], new |-> new[c]]] \in
          [columns -> Change(Names) \cup Change(Emails) \cup Change(Displays)
                       \cup Change(Levels) \cup Change(BOOLEAN)]
    BY DEF AuditedUserColumns, UserColumns, UserRow, Change
  <1>2. [by |-> by, of |-> of,
         changes |-> [c \in columns |-> [old |-> old[c], new |-> new[c]]]] \in UserAudits(columns)
    BY <1>1 DEF UserAudits
  <1>3. None \notin UserAudits(columns)
    BY AccountsAssumption
  <1> QED
    BY <1>2, <1>3

\* A PATCH or a DELETE of a user that nobody overtook adds an audit of exactly
\* what it changes, with the values before and after.
THEOREM AuditsTell == Spec => AuditTellsTheChange
  <1>1. ASSUME AccountsInv, [Next]_vars, NEW r \in Requests, NEW u \in Existing,
               Commits(r, u), Op(r) # "login", seen[r] = users[u],
               NEW changed, changed = {c \in AuditedUserColumns : users'[u][c] # users[u][c]}
        PROVE  trail' = IF changed = {} THEN trail
                        ELSE [by |-> Actor(r), of |-> u,
                              changes |-> [c \in changed |-> [old |-> users[u][c],
                                                             new |-> users'[u][c]]]]
    <2>1. CommitUser(r) /\ who[r] = u
      BY <1>1, CommitStep
    <2>2. /\ pc[r] = "commit" /\ Op(r) \in Changing
          /\ seen[r] \in UserRow /\ users[u] \in UserRow /\ users'[u] = image[r]
      BY <1>1, <2>1, WhatIsWritten
    <2>3. image[r] \in UserRow /\ u \in UserIds
      BY <1>1, <2>1, <2>2, Committed
    <2>4. OldValues(r) = users[u]
      BY <1>1, <2>2 DEF OldValues, Changing
    <2>5. Differing(r) = changed
      BY <1>1, <2>2, <2>4 DEF Differing
    <2>6. Auditing(r) /\ Control(r) /\ RequestTypes
      BY <1>1, Types DEF AccountsInv, Request
    <2>7. note[r] = IF changed = {} THEN None
                    ELSE [by |-> Actor(r), of |-> u,
                          changes |-> [c \in changed |-> [old |-> users[u][c],
                                                         new |-> users'[u][c]]]]
      BY <1>1, <2>1, <2>2, <2>4, <2>5, <2>6 DEF Auditing, Changing
    <2>8. Actor(r) \in UserIds
      BY <1>1, <2>2, <2>6 DEF Control, Changing, Existing
    <2>9. [by |-> Actor(r), of |-> u,
           changes |-> [c \in changed |-> [old |-> users[u][c],
                                          new |-> users'[u][c]]]] # None
      BY <1>1, <2>2, <2>3, <2>8, AuditIsThere
    <2>10. trail' = IF note[r] = None THEN trail ELSE note[r]
      BY <2>1 DEF CommitUser
    <2> QED
      BY <2>7, <2>9, <2>10
  <1>2. AccountsInv /\ [Next]_vars =>
            \A r \in Requests, u \in Existing :
                LET changed == {c \in AuditedUserColumns : users'[u][c] # users[u][c]}
                    audit == [by |-> Actor(r), of |-> u,
                              changes |-> [c \in changed |-> [old |-> users[u][c],
                                                             new |-> users'[u][c]]]]
                IN  Commits(r, u) /\ Op(r) # "login" /\ seen[r] = users[u] =>
                        trail' = IF changed = {} THEN trail ELSE audit
    BY <1>1
  <1> QED
    BY <1>2, AccountsInvariant, PTL DEF Spec, AuditTellsTheChange

----------------------------------------------------------------------------
(* Deadlocks. *)

\* An UPDATE that is about to enter an index changes the user's name or address.
KeyChanging(r) ==
    pc[r] \in {"index", "mail"} /\ Op(r) \in Changing => ~SameKeys(image[r], users[who[r]])

AccountLockInv == AccountsInv /\ \A r \in Requests : KeyChanging(r)

\* A request that has yet to enter an index stays as it is.
Entering(r) ==
    /\ pc[r] \in {"index", "mail"}
    /\ image'[r] = image[r] /\ who'[r] = who[r] /\ job'[r] = job[r]

\* A request comes before an index by its UPDATE or INSERT alone; otherwise a step
\* that leaves it there is one of another request, or leads to the next index.
LEMMA BeforeTheIndex ==
  ASSUME AccountsInv, [Next]_vars, NEW r \in Requests, pc'[r] \in {"index", "mail"},
         ~UpdateUserRow(r), ~InsertUser(r)
  PROVE  Entering(r)
  <1>1. RequestTypes
    BY Types
  <1>2. ASSUME NEW q \in Requests, RollBack(q)
        PROVE  (\E lost : End(q, lost)) \/ GoOn(q)
    BY <1>2 DEF RollBack
  <1>3. ASSUME NEW q \in Requests, (\E lost : End(q, lost)) \/ GoOn(q)
        PROVE  Entering(r)
    BY <1>1, <1>3 DEF End, GoOn, Release, RequestTypes, Entering
  <1>4. ASSUME NEW q \in Requests, AdminRequest(q) \/ OwnRequest(q) \/ OpenRequest(q)
        PROVE  Entering(r)
    BY <1>1, <1>4 DEF AdminRequest, OwnRequest, OpenRequest, Begin, Goto, RequestTypes, Entering
  <1>5. ASSUME NEW q \in Requests,
               LookUpName(q) \/ FindUser(q) \/ PurgeClients(q) \/ AuditUser(q) \/ FindClient(q)
        PROVE  Entering(r)
    BY <1>1, <1>5
    DEF LookUpName, FindUser, PurgeClients, AuditUser, FindClient, Goto, RequestTypes, Entering
  <1>6. ASSUME NEW q \in Requests, UpdateUserRow(q)
        PROVE  Entering(r)
    BY <1>1, <1>6 DEF UpdateUserRow, Goto, RequestTypes, Entering
  <1>7. ASSUME NEW q \in Requests, InsertUser(q), ~RollBack(q)
        PROVE  Entering(r)
    BY <1>1, <1>7 DEF InsertUser, Goto, RequestTypes, Entering
  <1>8. ASSUME NEW q \in Requests, IndexName(q) \/ IndexEmail(q), ~RollBack(q)
        PROVE  Entering(r)
    BY <1>1, <1>8 DEF IndexName, IndexEmail, Goto, RequestTypes, Entering
  <1>9. ASSUME NEW q \in Requests,
               CommitUser(q) \/ Reject(q) \/ TokenStep(q) \/ InsertClient(q) \/ RevokeClient(q)
                  \/ AbortDeadlock(q) \/ Fail(q)
        PROVE  RollBack(q) \/ (\E lost : End(q, lost)) \/ GoOn(q)
    BY <1>9 DEF CommitUser, Reject, TokenStep, VerifyPassword, RefreshTokens, InsertClient,
                RevokeClient, AbortDeadlock, Fail
  <1>10. ASSUME NEW u \in UserIds, Expire(u)
         PROVE  Entering(r)
    BY <1>10 DEF Expire, Entering
  <1>11. UNCHANGED vars => Entering(r)
    BY DEF vars, Entering
  <1>12. ASSUME NEW q \in Requests, AccountStep(q)
         PROVE  Entering(r)
    BY <1>2, <1>3, <1>5, <1>6, <1>7, <1>8, <1>9, <1>12 DEF AccountStep, UserStep, ClientStep
  <1>13. ASSUME NEW q \in Requests, Fail(q)
         PROVE  Entering(r)
    BY <1>2, <1>3, <1>9, <1>13
  <1> QED
    BY <1>4, <1>10, <1>11, <1>12, <1>13 DEF Next

\* What it changes is still another name or address when it gets there: the row is
\* its own until it ends.
LEMMA KeyChangingNext ==
  ASSUME AccountLockInv, [Next]_vars, NEW r \in Requests
  PROVE  KeyChanging(r)'
  <1> SUFFICES ASSUME pc'[r] \in {"index", "mail"}, Op(r)' \in Changing
               PROVE  ~SameKeys(image'[r], users'[who'[r]])
    BY DEF KeyChanging
  <1>1. /\ AccountsInv /\ RequestTypes /\ TableTypes
        /\ Control(r) /\ Reading(r) /\ Writing(r) /\ KeyChanging(r)
    BY Types DEF AccountLockInv, AccountsInv, Request
  <1>2. CASE UpdateUserRow(r)
    <2>1. /\ ~SameKeys(Written(r), users[who[r]]) /\ image'[r] = Written(r)
          /\ who' = who /\ users' = users
      BY <1>1, <1>2 DEF UpdateUserRow, Goto, AfterWrite, RequestTypes, tables
    <2> QED
      BY <2>1
  <1>3. CASE InsertUser(r)
    <2>1. Op(r) \in Creating
      BY <1>1, <1>3 DEF InsertUser, Control
    <2>2. ~RollBack(r)
      BY <1>1 DEF RollBack, End, GoOn, RequestTypes
    <2>3. job' = job
      BY <1>3, <2>2 DEF InsertUser
    <2> QED
      BY <2>1, <2>3 DEF Op, Creating, Changing
  <1>4. CASE ~UpdateUserRow(r) /\ ~InsertUser(r)
    <2>1. /\ pc[r] \in {"index", "mail"} /\ image'[r] = image[r] /\ who'[r] = who[r]
          /\ Op(r) \in Changing
      BY <1>1, <1>4, BeforeTheIndex DEF Entering, Op
    <2>2. image[r] # None /\ who[r] \in UserIds
      BY <1>1, <2>1 DEF Writing, HasWritten
    <2>3. users'[who[r]] = users[who[r]]
      <3>1. ASSUME users'[who[r]] # users[who[r]]
            PROVE  FALSE
        <4>1. PICK q \in Requests : CommitUser(q) /\ who[q] = who[r]
          BY <1>1, <2>2, <3>1, UserChanges
        <4>2. pc[q] = "commit" /\ image[q] # None
          BY <1>1, <4>1, Committed DEF CommitUser
        <4>3. q # r
          BY <2>1, <4>2
        <4> QED
          BY <1>1, <2>2, <4>1, <4>2, <4>3 DEF AccountsInv, Apart
      <3> QED
        BY <3>1
    <2> QED
      BY <1>1, <2>1, <2>3 DEF KeyChanging
  <1> QED
    BY <1>2, <1>3, <1>4

LEMMA AccountLocksHold == Spec => []AccountLockInv
  <1>1. Init => AccountLockInv
    BY InitInv DEF AccountLockInv, Init, KeyChanging
  <1>2. AccountLockInv /\ [Next]_vars => AccountLockInv'
    <2>1. AccountLockInv /\ [Next]_vars => AccountsInv'
      BY NextInv DEF AccountLockInv
    <2>2. AccountLockInv /\ [Next]_vars => \A r \in Requests : KeyChanging(r)'
      BY KeyChangingNext
    <2> QED
      BY <2>1, <2>2 DEF AccountLockInv
  <1> QED
    BY <1>1, <1>2, PTL DEF Spec

\* Of requests that wait in a circle each waits for one of them and keeps one of
\* them waiting.
LEMMA CircleMembers ==
  ASSUME NEW S, WaitInCircle(S), NEW r \in S
  PROVE  /\ \E q \in S \ {r} : Blocks(q, r)
         /\ \E p \in S \ {r} : Blocks(r, p)
  <1> DEFINE stuck(T) == T # {} /\ \A t \in T : \E q \in T \ {t} : Blocks(q, t)
             W == {q \in S : \E p \in S \ {q} : Blocks(q, p)}
  <1>1. stuck(S) /\ \A T \in SUBSET S : stuck(T) => T = S
    BY DEF WaitInCircle
  <1>2. \A t \in S : \E q \in W \ {t} : Blocks(q, t)
    BY <1>1
  <1>3. stuck(W) /\ W \in SUBSET S
    BY <1>1, <1>2
  <1>4. r \in W
    <2> HIDE DEF W
    <2> QED
      BY <1>1, <1>3
  <1> QED
    BY <1>1, <1>4

\* Whoever keeps another one waiting has written a row.
LEMMA BlockersHold ==
  ASSUME AccountsInv, NEW q \in Requests, NEW r \in Requests, Blocks(q, r)
  PROVE  image[q] # None
  <1>1. RequestTypes /\ Writing(q) /\ Auditing(q) /\ Purging(q)
    BY Types DEF AccountsInv, Request
  <1>2. note[q] # None \/ purged[q] # {} => image[q] # None
    BY <1>1 DEF Writing, Auditing, Purging, HasWritten
  <1>3. \/ image[q] # None \/ note[q] # None \/ purged[q] # {}
    BY DEF Blocks, Writes, NameBusy, EmailBusy, ChangesKey
  <1> QED
    BY <1>2, <1>3

\* In a circle everybody holds a row, and waits: before an index, because of the
\* name or address that it changes itself, or with its audit, because of an actor
\* whose name or address is being changed, or as a creation that has entered its
\* name, for the address: but then for a request of the circle that is not such a
\* creation.  So requests that change no unique column never deadlock.
THEOREM DeadlocksNeedKeyChange == Spec => []DeadlockNeedsKeyChange
  <1> DEFINE changer(q) == /\ image[q] # None /\ who[q] \in Existing
                           /\ ~SameKeys(image[q], users[who[q]])
  <1>1. ASSUME AccountLockInv, NEW S \in SUBSET Requests, WaitInCircle(S)
        PROVE  \E q \in S : changer(q)
    <2>1. ASSUME NEW r \in S
          PROVE  /\ AccountsInv /\ Control(r) /\ Reading(r) /\ Writing(r) /\ KeyChanging(r)
                 /\ image[r] # None /\ pc[r] \in HasWritten
                 /\ \E q \in S \ {r} : Blocks(q, r)
      <3>1. AccountsInv /\ Control(r) /\ Reading(r) /\ Writing(r) /\ KeyChanging(r)
        BY <1>1 DEF AccountLockInv, AccountsInv, Request
      <3>2. \E q \in S \ {r} : Blocks(q, r)
        BY <1>1, CircleMembers
      <3>3. PICK p \in S \ {r} : Blocks(r, p)
        BY <1>1, CircleMembers
      <3>4. image[r] # None
        BY <3>1, <3>3, BlockersHold
      <3> QED
        BY <3>1, <3>2, <3>4 DEF Writing
    <2>2. ASSUME NEW r \in S, pc[r] = "mail" => Op(r) \in Changing
          PROVE  \E q \in S : changer(q)
      <3>1. PICK q \in S \ {r} : Blocks(q, r)
        BY <2>1
      <3>2. CASE pc[r] \in {"index", "mail"}
        <4>1. Op(r) \in Changing /\ who[r] \in Existing
          BY <2>1, <2>2, <3>2 DEF Control, Reading, HasWritten
        <4>2. changer(r)
          BY <2>1, <3>2, <4>1 DEF KeyChanging
        <4> QED
          BY <4>2
      <3>3. CASE pc[r] \notin {"index", "mail"}
        <4>1. ChangesKey(q, Actor(r))
          BY <2>1, <3>1, <3>3 DEF Blocks, HasWritten
        <4>2. who[q] = Actor(r) /\ who[q] \in UserIds
          BY <2>1, <3>1, <4>1 DEF ChangesKey, Writes, Writing
        <4>3. changer(q)
          BY <4>1, <4>2 DEF ChangesKey, Writes, Existing
        <4> QED
          BY <4>3
      <3> QED
        BY <3>2, <3>3
    <2>3. PICK r \in S : TRUE
      BY <1>1 DEF WaitInCircle
    <2>4. CASE pc[r] = "mail"
      <3>1. PICK q \in S \ {r} : Blocks(q, r)
        BY <2>1
      <3>2. who[q] \in Existing \/ pc[q] # "mail"
        BY <2>4, <3>1 DEF Blocks, EmailBusy, Mailed
      <3>3. pc[q] = "mail" => Op(q) \in Changing
        BY <2>1, <3>1, <3>2 DEF Control, Writing
      <3> QED
        BY <2>2, <3>1, <3>3
    <2> QED
      BY <2>2, <2>3, <2>4
  <1>2. AccountLockInv => DeadlockNeedsKeyChange
    BY <1>1 DEF DeadlockNeedsKeyChange
  <1> QED
    BY <1>2, AccountLocksHold, PTL
=============================================================================
