------------------------------ MODULE Records ------------------------------
(****************************************************************************)
(* The records LicenseDb keeps and the pure operators on them that the      *)
(* handlers and the abstract registry share: rows of `license_dbs` and      *)
(* `obligations`, partial updates (the PATCH DTOs, whose nil pointers are   *)
(* absent fields), the pairs of the join table `obligation_licenses`, and   *)
(* the change logs of an audit.                                             *)
(*                                                                          *)
(* A row keeps the columns some rule of the code tells apart:               *)
(*   name       rf_shortname / topic: patched, but never audited            *)
(*   text       rf_text / text: frozen while text_updatable is false        *)
(*   updatable  rf_text_updatable / text_updatable                          *)
(*   active     rf_active / active: cleared by the DELETE of an obligation  *)
(* The other columns are patched and audited like `active`, but for the     *)
(* type, the classification and the category of an obligation, which refer  *)
(* to tables of their own: a body gives them here only to name a value that *)
(* is in no table yet.                                                      *)
(****************************************************************************)
EXTENDS Naturals, Sequences, FiniteSets

CONSTANTS
    LicenseIds,      \* primary keys of license_dbs
    ObligationIds,   \* primary keys of obligations
    Names,           \* non-empty shortnames and topics
    Texts,           \* non-empty texts
    Words,           \* types, classifications and categories in no table
    EmptyText,       \* the empty string: a nil value in a change log, an invalid input
    None             \* no row, no request

Ids == LicenseIds \cup ObligationIds

Columns == {"name", "text", "updatable", "active"}

\* The belongs-to associations of an obligation.
Fields == {"type", "classification", "category"}

ValuesOf(c) == CASE c = "name" -> Names
                 [] c = "text" -> Texts
                 [] OTHER      -> BOOLEAN

Row == {row \in [Columns -> Names \cup Texts \cup BOOLEAN] :
            \A c \in Columns : row[c] \in ValuesOf(c)}

\* models.LicenseDB{} and models.Obligation{}: every pointer nil, which a
\* change log prints as the empty string.
BlankRow == [c \in Columns |-> EmptyText]

ASSUME IdsAssumption == LicenseIds \cap ObligationIds = {}
ASSUME NoneAssumption == /\ None \notin Row
                         /\ None # BlankRow
                         /\ EmptyText \notin Names \cup Texts \cup BOOLEAN

\* A partial update of record x: some columns, and maybe the set of records of
\* the other kind that are to be associated with x.  An input string may be
\* empty, an input id unknown.
Opposite(x) == IF x \in LicenseIds THEN ObligationIds ELSE LicenseIds

IsPatchOf(p, x) ==
    /\ DOMAIN p \subseteq Columns \cup {"related"}
                         \cup (IF x \in ObligationIds THEN Fields ELSE {})
    /\ \A f \in DOMAIN p \cap Fields : p[f] \in Words
    /\ \A c \in DOMAIN p \cap Columns : p[c] \in ValuesOf(c) \cup {EmptyText}
    /\ "related" \in DOMAIN p => p["related"] \subseteq Opposite(x)

\* A creation form gives every column and the associations.
IsFormOf(f, x) ==
    /\ IsPatchOf(f, x)
    /\ Columns \cup {"related"} \subseteq DOMAIN f
    /\ \A c \in Columns : f[c] \in ValuesOf(c)

\* Mutant: the BeforeUpdate hooks are gone.
HasEmptyText_NoHook(p) == FALSE

HasEmptyText(p) == \E c \in DOMAIN p \cap Columns : p[c] = EmptyText

Relates(p) == "related" \in DOMAIN p

\* UPDATE ... SET with the non-nil columns of p; the columns in `omitted` stay.
ApplyExcept(row, p, omitted) ==
    [c \in Columns |-> IF c \in DOMAIN p \ omitted THEN p[c] ELSE row[c]]

Apply(row, p) == ApplyExcept(row, p, {})

----------------------------------------------------------------------------
(* The join table is a set of pairs <<licence, obligation>>. *)

Pair(x, y) == IF x \in LicenseIds THEN <<x, y>> ELSE <<y, x>>

Pairs == LicenseIds \X ObligationIds

LinksTo(x, S) == {Pair(x, y) : y \in S}

RelatedTo(x, L) == {y \in Opposite(x) : Pair(x, y) \in L}

\* Association(...).Replace(S) on record x.
Relink(L, x, S) == (L \ LinksTo(x, Opposite(x))) \cup LinksTo(x, S)

----------------------------------------------------------------------------
(* Change logs: the audited columns that differ, with both values.  The     *)
(* name (shortname or topic) is not among them.                             *)

AuditedColumns == {"text", "updatable", "active", "related"}

Snapshot(row, related) ==
    [c \in AuditedColumns |-> IF c = "related" THEN related ELSE row[c]]

ChangeLog(old, new) ==
    [c \in {d \in AuditedColumns : old[d] # new[d]} |-> [old |-> old[c], new |-> new[c]]]
=============================================================================
