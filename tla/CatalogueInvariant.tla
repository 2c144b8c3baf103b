------------------------- MODULE CatalogueInvariant -------------------------
(****************************************************************************)
(* The inductive invariant of the licence and obligation requests together: *)
(* what each request knows and holds at each of its statements, whatever    *)
(* kind of record it is about.  CatalogueProofs follows from it.            *)
(****************************************************************************)
EXTENDS Catalogue, LicenseInvariant

Deletes(r) == input[r] # None /\ input[r].op = "delete"

\* The column that an update of x never writes.
Kept(x) == IF x \in LicenseIds THEN {} ELSE {"name"}

\* Which statements a request of each kind runs, and what it has read by then.
CatControl(r) ==
    /\ input[r] = None <=> pc[r] = "idle"
    /\ pc[r] = "insert" => Creates(r)
    /\ pc[r] = "find" => Updates(r) \/ Deletes(r)
    /\ pc[r] \in {"preload", "merge", "write"} => Updates(r)
    /\ pc[r] \in Fields => (Creates(r) \/ Updates(r)) /\ pc[r] \in DOMAIN Patch(r)
    /\ pc[r] \in Fields /\ Updates(r) => seen[r] # None
    /\ pc[r] = "deactivate" => Deletes(r) /\ seen[r] \in Row
    /\ pc[r] \in {"findRelated", "upsert", "link", "unlink"} => Relates(Patch(r))
    /\ pc[r] \in {"preload", "merge", "write", "findRelated", "upsert", "link", "unlink",
                  "reload", "commit"} => seen[r] # None

\* A request has written its row from the statement that locks it to its end.
CatLocking(r) ==
    /\ pc[r] \in {"idle", "insert", "find", "preload", "merge", "deactivate"}
           => image[r] = None
    /\ pc[r] \in {"write", "findRelated", "upsert", "link", "unlink", "reload", "commit"}
           => image[r] # None
    /\ pc[r] \in Fields => (image[r] # None <=> Updates(r))
    /\ image[r] # None => Creates(r) \/ Updates(r)

\* A record that is being created is in nobody's table yet, one that is being
\* updated or deleted is there.
CatExistence(r) ==
    /\ Creates(r) => rows[Target(r)] = None
    /\ pc[r] \in {"preload", "merge", "deactivate"} => rows[Target(r)] # None
    /\ Updates(r) /\ image[r] # None => rows[Target(r)] # None

\* What an update wrote into the row: nothing yet, or its fields into the newest
\* version.
CatWritten(r) ==
    Updates(r) /\ image[r] # None =>
        \/ pc[r] \in Fields \cup {"write", "reject"} /\ image[r] = rows[Target(r)]
        \/ /\ pc[r] \notin Fields \cup {"write"}
           /\ image[r] = ApplyExcept(rows[Target(r)], Patch(r), Kept(Target(r)))

\* The records it will be associated with were looked up.
CatLinking(r) ==
    /\ input[r] = None => found[r] = {}
    /\ \A y \in found[r] : rows[y] # None
    /\ input[r] # None => found[r] \subseteq Opposite(Target(r)) /\ ins[r] \subseteq Wanted(r)
    /\ pc[r] \notin {"unlink", "reload", "commit", "reject"} => ins[r] = {}

\* What it inserted into the join table and deleted from it are pairs of its own
\* record, whose row it holds as long as there are any.
CatPairs(r) ==
    /\ image[r] = None => ins[r] = {} /\ del[r] = {}
    /\ image[r] # None =>
          ins[r] \cup del[r] \subseteq LinksTo(Target(r), Opposite(Target(r)))

\* What it inserted of its fields comes before the one that it is about to save;
\* a licence has none.
CatWords(r) ==
    /\ pc[r] \in {"idle", "find", "preload", "merge", "deactivate"} => entered[r] = {}
    /\ pc[r] \in Fields \/ entered[r] # {} => ServesObligation(r)
    /\ pc[r] \in Fields =>
          \A w \in entered[r] :
              SavePlace(Operation(r))[w[1]] < SavePlace(Operation(r))[pc[r]]

CatRequest(r) ==
    CatControl(r) /\ CatLocking(r) /\ CatExistence(r) /\ CatWritten(r) /\ CatLinking(r)

\* Two requests neither write the same record nor create it.
CatExclusion ==
    \A q, r \in Requests : q # r =>
        /\ image[q] # None /\ image[r] # None => Target(q) # Target(r)
        /\ Creates(q) /\ Creates(r) => Target(q) # Target(r)

CatInv == /\ CatalogueTypeOK
          /\ NoDanglingLinks
          /\ \A r \in Requests : CatRequest(r)
          /\ CatExclusion
=============================================================================
