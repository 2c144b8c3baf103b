-------------------------- MODULE LicenseInvariant --------------------------
(****************************************************************************)
(* The inductive invariant of the licence requests: what each request knows *)
(* and holds at each of its statements.  The theorems of                    *)
(* LicenseHandlersProofs follow from it.                                    *)
(****************************************************************************)
EXTENDS LicenseHandlers

Creates(r) == input[r] # None /\ input[r].op = "create"
Updates(r) == input[r] # None /\ input[r].op = "update"

\* The pairs of the licence r is about.
Own(r) == LinksTo(Target(r), ObligationIds)

\* Which statements a request of each kind runs, and what it has by then.
Control(r) ==
    /\ input[r] = None <=> pc[r] = "idle"
    /\ pc[r] \notin {"deactivate", "type", "classification", "category"}
    /\ entered[r] = {}
    /\ pc[r] \in {"insert"} => Creates(r)
    /\ pc[r] \in {"find", "preload", "merge", "write"} => Updates(r)
    /\ pc[r] \in {"findRelated", "upsert", "link", "unlink"} => Relates(Patch(r))
    /\ pc[r] \in {"preload", "merge", "write", "findRelated", "upsert", "link", "unlink",
                  "reload", "commit"} => seen[r] # None

\* A request has written its row from the statement that locks it to its end.
Locking(r) ==
    /\ pc[r] \in {"idle", "insert", "find", "preload", "merge"} => image[r] = None
    /\ pc[r] \in {"write", "findRelated", "upsert", "link", "unlink", "reload", "commit"}
           => image[r] # None
    /\ image[r] = None => ins[r] = {} /\ del[r] = {}

\* A licence that is being created is in nobody's table yet, one that is being
\* updated is there.
Existence(r) ==
    /\ Creates(r) => rows[Target(r)] = None
    /\ pc[r] \in {"preload", "merge"} => rows[Target(r)] # None
    /\ Updates(r) /\ image[r] # None => rows[Target(r)] # None

\* What the transaction wrote into the row.
Written(r) ==
    image[r] # None =>
        /\ Creates(r) => image[r] = Apply(BlankRow, Patch(r))
        /\ Updates(r) => \/ pc[r] \in {"write", "reject"} /\ image[r] = rows[Target(r)]
                         \/ /\ pc[r] # "write"
                            /\ image[r] = Apply(rows[Target(r)], Patch(r))
        /\ pc[r] \notin {"write", "reject"} => ~HasEmptyText(Patch(r))

\* What the transaction did to the join table.
Linking(r) ==
    /\ image[r] # None => ins[r] \subseteq Own(r) /\ del[r] \subseteq Own(r)
    /\ pc[r] \in {"upsert", "link", "unlink"}
           => \A y \in found[r] : y \in Patch(r)["related"] /\ rows[y] # None
    /\ pc[r] \in {"write", "findRelated", "upsert", "link"} => ins[r] = {}
    /\ pc[r] \in {"write", "findRelated", "upsert", "link", "unlink"} => del[r] = {}
    /\ pc[r] = "unlink" => ins[r] = Wanted(r) \ links
    /\ pc[r] \in {"reload", "commit"} =>
           IF Relates(Patch(r))
           THEN /\ found[r] = Patch(r)["related"]
                /\ \A y \in found[r] : rows[y] # None
                /\ ins[r] = Wanted(r) \ links
                /\ del[r] = Stale(r)
           ELSE ins[r] = {} /\ del[r] = {}

RequestInv(r) ==
    Control(r) /\ Locking(r) /\ Existence(r) /\ Written(r) /\ Linking(r)

\* Two requests neither write the same licence nor create it.
Exclusion ==
    \A q, r \in Requests : q # r =>
        /\ image[q] # None /\ image[r] # None => Target(q) # Target(r)
        /\ Creates(q) /\ Creates(r) => Target(q) # Target(r)

IInv == /\ LicenseTypeOK
        /\ \A r \in Requests : RequestInv(r)
        /\ Exclusion
=============================================================================
