--------------------------- MODULE ListingProofs ---------------------------
(****************************************************************************)
(* For any table, any parameters and any size of a word: the walk keeps its *)
(* types, and a page between whose two queries nothing happened has the     *)
(* rows that the count promises and a link as long as rows are left. A row  *)
(* that a walk over a sorted list leaves out or shows twice was moved by a  *)
(* change of the table, or shares its key with another row.                 *)
(*                                                                          *)
(* The invariant of the walk follows one row: its place in the order is the *)
(* number of rows with lower keys, and it is compared with what the pages   *)
(* so far have passed.                                                      *)
(****************************************************************************)
EXTENDS Listing, FiniteSetTheorems, SequenceTheorems, TLAPS

\* How many rows are left for the page.
Left == total - (page - 1) * limit

\* A page of which something can be promised.
Plain == page > 0 /\ limit > 0 /\ (page - 1) * limit < WordMax

Full(n) == IF n < 0 THEN 0 ELSE IF n < limit THEN n ELSE limit

Undisturbed == list.countsMatching /\ between = {}

Counted ==
    /\ pc = "page" /\ Undisturbed => total = Cardinality(Matching)
    /\ pc \in {"entities", "answer"} /\ Undisturbed /\ Plain => Len(chunk) = Full(Left)

ListingInv == ListingTypeOK /\ Counted

Has(s, x) == \E i \in DOMAIN s : s[i] = x

\* The rows that every order of the list puts before x.
Before(x) == {y \in Matching : table[y].key < table[x].key}

Position(x) == Cardinality(Before(x))

\* The rows on the pages before this one, and on this one as well.
Passed == (page - 1) * limit
PassedThen == page * limit

Shown(x) == Has(chunk, x)

\* Rows that nothing has moved back, or forward, across a page.
NotMovedUp(x) == ~Tied(x) /\ ~\E k \in gone : k < table[x].key
NotMovedDown(x) == ~Tied(x) /\ ~\E k \in came : k < table[x].key

\* No more rows to read than the count said.
NoneCame ==
    pc = "page" /\ "came" \notin between => Cardinality(Matching) <= total

FromTheFirst == list.sorted /\ (start = 1 \/ (start < 1 /\ limit > 0)) /\ pc # "start"

\* Below the first page nothing is missed, since the first page is still to
\* come; from then on the offset fits, or there is one page with every row.
OnItsWay ==
    FromTheFirst =>
        \/ page < 1 /\ limit > 0 /\ pc # "done"
        \/ page = 1 /\ limit < 0
        \/ page >= 1 /\ limit > 0 /\ Passed < WordMax

\* A row that the client does not have is on this page or on one after it,
\* and the link leads there.
StillToCome ==
    FromTheFirst /\ page >= 1 =>
        \A x \in still : NotMovedUp(x) /\ got[x] = 0 =>
            /\ pc # "done" /\ limit > 0 => Passed <= Position(x)
            /\ pc \in {"entities", "answer"} =>
                   \/ Shown(x)
                   \/ /\ limit > 0 /\ PassedThen <= Position(x)
                      /\ "came" \notin between => PassedThen < total
            /\ pc = "done" => "came" \in between

FromAPage == list.sorted /\ start >= 1 /\ pc # "start"

\* The offset fits from the second page of the walk on.
Onwards ==
    FromAPage =>
        /\ page >= 1
        /\ pc # "done" => \/ \A x \in Rows : got[x] = 0
                          \/ limit > 0 /\ Passed < WordMax

\* A row that the client has lies before this page.
LeftBehind ==
    FromAPage =>
        \A x \in still : NotMovedDown(x) =>
            /\ got[x] <= 1
            /\ pc # "done" /\ got[x] = 1 => Position(x) < Passed
            /\ pc \in {"entities", "answer"} /\ Shown(x) =>
                   got[x] = 0 /\ (limit > 0 => Position(x) < PassedThen)

Unasked == pc = "start" => still = {} /\ \A x \in Rows : got[x] = 0

WalkInv == NoneCame /\ OnItsWay /\ StillToCome /\ Onwards /\ LeftBehind /\ Unasked

----------------------------------------------------------------------------
(* The arithmetic of pages. *)

LEMMA ProductNat == \A m, n \in Nat : m * n \in Nat
  OBVIOUS

LEMMA ProductMonotonic ==
  ASSUME NEW m \in Int, NEW n \in Int, m <= n, NEW l \in Nat
  PROVE  m * l <= n * l
  <1>1. PICK d \in Nat : n = m + d
    <2>1. n - m \in Nat /\ n = m + (n - m)
      OBVIOUS
    <2> QED
      BY <2>1
  <1>2. n * l = m * l + d * l
    BY <1>1
  <1>3. d * l >= 0
    BY ProductNat
  <1> QED
    BY <1>2, <1>3

\* A number that fits stays as it is.
LEMMA WrapFits == ASSUME NEW i \in Word PROVE Wrap(i) = i
  <1>1. i + WordMax \in 0 .. (2 * WordMax - 1) /\ WordMax \in Nat \ {0}
    BY PagingAssumption DEF Word
  <1>2. (i + WordMax) % (2 * WordMax) = i + WordMax
    BY <1>1
  <1> QED
    BY <1>1, <1>2 DEF Wrap, Word

LEMMA WrapIsWord == ASSUME NEW i \in Int PROVE Wrap(i) \in Word
  <1>1. WordMax \in Nat \ {0}
    BY PagingAssumption
  <1>2. (i + WordMax) % (2 * WordMax) \in 0 .. (2 * WordMax - 1)
    BY <1>1
  <1> QED
    BY <1>1, <1>2 DEF Wrap, Word

\* There is a next page exactly when the rows do not fit on the pages so far.
LEMMA NextWhenRowsLeft ==
  ASSUME NEW p \in Int, NEW n \in Nat, NEW l \in Nat \ {0}
  PROVE  HasNext(p, n, l) <=> n - (p - 1) * l > l
  <1> DEFINE q == (n + l - 1) \div l
  <1>1. q \in Int /\ q * l <= n + l - 1 /\ n + l - 1 < q * l + l
    OBVIOUS
  <1>2. (p - 1) * l = p * l - l /\ (p + 1) * l = p * l + l /\ p * l \in Int
    OBVIOUS
  <1>3. ASSUME p < q PROVE n - (p - 1) * l > l
    <2>1. (p + 1) * l <= q * l
      BY <1>1, <1>3, ProductMonotonic
    <2> QED
      BY <1>1, <1>2, <2>1
  <1>4. ASSUME ~(p < q) PROVE ~(n - (p - 1) * l > l)
    <2>1. q * l <= p * l
      BY <1>1, <1>4, ProductMonotonic
    <2> QED
      BY <1>1, <1>2, <2>1
  <1> QED
    BY <1>3, <1>4 DEF HasNext, TotalPages

\* A page is a part of the sequence it is taken from ...
LEMMA PageIsPart ==
  ASSUME NEW S, NEW s \in Seq(S), NEW p \in Int, NEW l \in Int
  PROVE  /\ PageOfRows(s, p, l) \in Seq(S)
         /\ Len(PageOfRows(s, p, l)) <= Len(s)
  <1> DEFINE o == GetOffset(p, l)
             first == IF o > 0 THEN o + 1 ELSE 1
             last == IF l < 0 \/ Len(s) < first + l THEN Len(s) ELSE first + l - 1
  <1>1. o \in Int
    BY WrapIsWord, PagingAssumption DEF GetOffset, Word
  <1>2. first \in Nat \ {0} /\ last \in Int /\ last <= Len(s) /\ Len(s) \in Nat
    BY <1>1
  <1>3. SubSeq(s, first, last) \in Seq(S) /\ Len(SubSeq(s, first, last)) <= Len(s)
    <2>1. CASE first <= last
      BY <1>2, <2>1, SubSeqProperties
    <2>2. CASE last < first
      BY <1>2, <2>2
    <2> QED
      BY <1>2, <2>1, <2>2
  <1> QED
    BY <1>3 DEF PageOfRows

\* A page whose offset fits into a word begins there ...
LEMMA PlainPage ==
  ASSUME NEW S, NEW s \in Seq(S), NEW p \in Word, NEW l \in Word,
         p > 0, l > 0, (p - 1) * l < WordMax
  PROVE  /\ (p - 1) * l \in Nat
         /\ PageOfRows(s, p, l) =
               SubSeq(s, (p - 1) * l + 1,
                      IF Len(s) < (p - 1) * l + 1 + l THEN Len(s) ELSE (p - 1) * l + l)
  <1> DEFINE o == (p - 1) * l
             last == IF Len(s) < o + 1 + l THEN Len(s) ELSE o + l
  <1>1. p \in Int /\ l \in Int /\ WordMax \in Nat
    BY PagingAssumption DEF Word
  <1>2. o \in Nat
    BY <1>1, ProductNat
  <1>3. p - 1 \in Word /\ o \in Word
    BY <1>1, <1>2 DEF Word
  <1>4. GetOffset(p, l) = o
    BY <1>3, WrapFits DEF GetOffset
  <1> HIDE DEF o
  <1>5. (IF o > 0 THEN o + 1 ELSE 1) = o + 1
    BY <1>2
  <1>6. (IF l < 0 \/ Len(s) < o + 1 + l THEN Len(s) ELSE o + 1 + l - 1) = last
    BY <1>1, <1>2
  <1>7. PageOfRows(s, p, l) =
           SubSeq(s, IF o > 0 THEN o + 1 ELSE 1,
                  IF l < 0 \/ Len(s) < (IF o > 0 THEN o + 1 ELSE 1) + l THEN Len(s)
                  ELSE (IF o > 0 THEN o + 1 ELSE 1) + l - 1)
    BY <1>4, Zenon DEF PageOfRows
  <1>8. PageOfRows(s, p, l) = SubSeq(s, o + 1, last)
    BY <1>5, <1>6, <1>7, Zenon
  <1> QED
    BY <1>2, <1>8 DEF o

\* ... has the length that the rows left allow ...
LEMMA PageLength ==
  ASSUME NEW S, NEW s \in Seq(S), NEW p \in Word, NEW l \in Word,
         p > 0, l > 0, (p - 1) * l < WordMax
  PROVE  LET left == Len(s) - (p - 1) * l
         IN  Len(PageOfRows(s, p, l)) = IF left < 0 THEN 0 ELSE IF left < l THEN left ELSE l
  <1> DEFINE o == (p - 1) * l
             last == IF Len(s) < o + 1 + l THEN Len(s) ELSE o + l
  <1>0. o \in Nat /\ PageOfRows(s, p, l) = SubSeq(s, o + 1, last)
    BY PlainPage, Zenon
  <1>1. l \in Int /\ o \in Nat /\ PageOfRows(s, p, l) = SubSeq(s, o + 1, last)
    BY <1>0, PagingAssumption DEF Word
  <1> HIDE DEF o
  <1>2. o + 1 \in Nat \ {0} /\ last \in Int /\ last <= Len(s) /\ Len(s) \in Nat
    BY <1>1
  <1>3. Len(SubSeq(s, o + 1, last)) = IF o + 1 <= last THEN last - o ELSE 0
    <2>1. CASE o + 1 <= last
      BY <1>1, <1>2, <2>1, SubSeqProperties
    <2>2. CASE last < o + 1
      BY <1>1, <1>2, <2>2
    <2> QED
      BY <1>1, <1>2, <2>1, <2>2
  <1>4. Len(PageOfRows(s, p, l)) =
           IF Len(s) - o < 0 THEN 0 ELSE IF Len(s) - o < l THEN Len(s) - o ELSE l
    BY <1>1, <1>2, <1>3
  <1> QED
    BY <1>4 DEF o

\* ... and shows the rows at its places in the list.
LEMMA PageShows ==
  ASSUME NEW S, NEW s \in Seq(S), NEW p \in Word, NEW l \in Word,
         p > 0, l > 0, (p - 1) * l < WordMax,
         \A i, j \in 1 .. Len(s) : i # j => s[i] # s[j],
         NEW n \in 1 .. Len(s)
  PROVE  Has(PageOfRows(s, p, l), s[n]) <=> (p - 1) * l < n /\ n <= p * l
  <1> DEFINE o == (p - 1) * l
             last == IF Len(s) < o + 1 + l THEN Len(s) ELSE o + l
             rows == PageOfRows(s, p, l)
  <1>0. o \in Nat /\ rows = SubSeq(s, o + 1, last)
    BY PlainPage, Zenon
  <1>1. l \in Int /\ p \in Int /\ o \in Nat /\ rows = SubSeq(s, o + 1, last)
    BY <1>0, PagingAssumption DEF Word
  <1>2. p * l = o + l
    BY <1>1
  <1> HIDE DEF o
  <1>3. o + 1 \in Nat \ {0} /\ last \in Int /\ last <= Len(s) /\ Len(s) \in Nat
    BY <1>1
  <1>4. CASE o + 1 <= last
    <2>1. /\ DOMAIN rows = 1 .. (last - o)
          /\ \A i \in 1 .. (last - o) : rows[i] = s[o + i]
      <3>1. /\ rows \in Seq(S) /\ Len(rows) = last - o
            /\ \A i \in 1 .. (last - o) : rows[i] = s[o + 1 + i - 1]
        BY <1>1, <1>3, <1>4, SubSeqProperties
      <3>2. \A i \in 1 .. (last - o) : o + 1 + i - 1 = o + i
        BY <1>1, <1>3
      <3>3. DOMAIN rows = 1 .. Len(rows)
        BY <3>1
      <3> HIDE DEF rows, last
      <3>4. \A i \in 1 .. (last - o) : rows[i] = s[o + i]
        BY <3>1, <3>2, Zenon
      <3> QED
        BY <3>1, <3>3, <3>4, Zenon
    <2> HIDE DEF rows
    <2>2. ASSUME Has(rows, s[n]) PROVE o < n /\ n <= o + l
      <3>1. PICK i \in 1 .. (last - o) : s[o + i] = s[n]
        BY <2>1, <2>2, Zenon DEF Has
      <3>2. o + i \in 1 .. Len(s)
        BY <1>1, <1>3
      <3>3. o + i = n
        BY <3>1, <3>2, Zenon
      <3> QED
        BY <1>1, <1>3, <3>3
    <2>3. ASSUME o < n, n <= o + l PROVE Has(rows, s[n])
      <3>1. n - o \in 1 .. (last - o) /\ o + (n - o) = n
        BY <1>1, <1>3, <2>3
      <3>2. n - o \in DOMAIN rows /\ rows[n - o] = s[o + (n - o)]
        BY <2>1, <3>1, Zenon
      <3> QED
        BY <3>1, <3>2, Zenon DEF Has
    <2>4. Has(rows, s[n]) <=> o < n /\ n <= p * l
      BY <1>2, <2>2, <2>3
    <2> QED
      BY <2>4 DEF o, rows
  <1>5. CASE last < o + 1
    <2>1. rows = <<>>
      BY <1>1, <1>3, <1>5
    <2>2. ~(o < n /\ n <= o + l)
      BY <1>1, <1>3, <1>5
    <2>3. ~Has(rows, s[n])
      BY <2>1 DEF Has
    <2> QED
      BY <1>2, <2>2, <2>3 DEF o
  <1> QED
    BY <1>1, <1>3, <1>4, <1>5

\* Without a limit the first page is the whole list.
LEMMA WholePage ==
  ASSUME NEW S, NEW s \in Seq(S), NEW l \in Word, l < 0
  PROVE  PageOfRows(s, 1, l) = s
  <1>1. l \in Int /\ 0 \in Word
    BY PagingAssumption DEF Word
  <1>2. GetOffset(1, l) = 0
    <2>1. Wrap(1 - 1) = 0 /\ Wrap(0 * l) = 0
      BY <1>1, WrapFits
    <2> QED
      BY <2>1 DEF GetOffset
  <1>3. PageOfRows(s, 1, l) = SubSeq(s, 1, Len(s))
    BY <1>2 DEF PageOfRows
  <1> QED
    BY <1>3

----------------------------------------------------------------------------
(* The rows of a list. *)

LEMMA ListOfRows ==
  ASSUME NEW S \in SUBSET Rows
  PROVE  Cardinality(S) \in Nat /\ Cardinality(S) \in 0 .. Cardinality(Rows)
  <1>1. IsFiniteSet(S) /\ Cardinality(S) <= Cardinality(Rows) /\ IsFiniteSet(Rows)
    BY ListingAssumption, FS_Subset
  <1> QED
    BY <1>1, FS_CardinalityType

LEMMA OrderOfRows ==
  ASSUME NEW s \in Orders
  PROVE  s \in Seq(Rows) /\ Len(s) = Cardinality(Matching)
  <1>1. s \in [1 .. Cardinality(Matching) -> Matching] /\ Matching \in SUBSET Rows
    BY DEF Orders, Matching
  <1>2. Cardinality(Matching) \in Nat
    BY <1>1, ListOfRows
  <1>3. s \in [1 .. Cardinality(Matching) -> Rows]
    BY <1>1
  <1> QED
    BY <1>2, <1>3, IsASeq, LenProperties

LEMMA PositionType ==
  ASSUME NEW x
  PROVE  Position(x) \in Nat /\ Position(x) <= Cardinality(Rows)
  <1>1. Before(x) \in SUBSET Rows
    BY DEF Before, Matching
  <1> QED
    BY <1>1, ListOfRows DEF Position

\* Whatever order PostgreSQL chooses, a row that is tied with no other one comes
\* after the rows with a lower key.
LEMMA PlaceInOrder ==
  ASSUME ListingTypeOK, list.sorted, NEW s \in Orders, NEW x \in Matching,
         \A y \in Matching \ {x} : table[y].key # table[x].key
  PROVE  Position(x) + 1 \in 1 .. Len(s) /\ s[Position(x) + 1] = x
  <1> DEFINE n == Cardinality(Matching)
  <1>1. /\ s \in [1 .. n -> Matching] /\ n \in Nat /\ Len(s) = n
        /\ \A i, j \in 1 .. n : i # j => s[i] # s[j]
        /\ \A i, j \in 1 .. n : i < j => table[s[i]].key <= table[s[j]].key
    BY OrderOfRows, ListOfRows DEF Orders, Matching
  <1>2. IsFiniteSet(Matching) /\ \A y \in Matching : table[y].key \in Nat
    <2>1. Matching \in SUBSET Rows
      BY DEF Matching
    <2> QED
      BY <2>1, ListingAssumption, FS_Subset DEF Matching, ListingTypeOK, Entry
  <1>3. s \in Surjection(1 .. n, Matching)
    <2>1. s \in Injection(1 .. n, Matching)
      BY <1>1 DEF Injection, IsInjective
    <2>2. Cardinality(1 .. n) = n
      BY <1>1, FS_Interval
    <2> QED
      BY <1>2, <2>1, <2>2, FS_Injection
  <1>4. PICK i \in 1 .. n : s[i] = x
    BY <1>3 DEF Surjection
  <1> DEFINE T == 1 .. (i - 1)
             g == [j \in T |-> s[j]]
  <1> HIDE DEF n
  <1>5. \A j \in T : j \in 1 .. n /\ s[j] \in Before(x)
    <2> SUFFICES ASSUME NEW j \in T PROVE j \in 1 .. n /\ s[j] \in Before(x)
      OBVIOUS
    <2>1. j \in 1 .. n /\ j < i
      BY <1>1
    <2>2. s[j] \in Matching /\ s[j] # x /\ table[s[j]].key <= table[x].key
      BY <1>1, <1>4, <2>1
    <2>3. table[s[j]].key # table[x].key
      BY <2>2
    <2> QED
      BY <1>2, <2>1, <2>2, <2>3 DEF Before
  <1>6. \A y \in Before(x) : \E j \in T : s[j] = y
    <2> SUFFICES ASSUME NEW y \in Before(x) PROVE \E j \in T : s[j] = y
      OBVIOUS
    <2>1. y \in Matching /\ table[y].key < table[x].key
      BY DEF Before
    <2>2. PICK j \in 1 .. n : s[j] = y
      BY <1>3, <2>1 DEF Surjection
    <2>3. ~(i < j) /\ i # j
      BY <1>1, <1>2, <1>4, <2>1, <2>2
    <2>4. j \in T
      BY <1>1, <2>3
    <2> QED
      BY <2>2, <2>4
  <1>7. g \in Bijection(T, Before(x))
    <2>1. g \in [T -> Before(x)] /\ \A j \in T : g[j] = s[j]
      BY <1>5
    <2> HIDE DEF g
    <2>2. \A j, k \in T : g[j] = g[k] => j = k
      BY <1>1, <1>5, <2>1
    <2>3. \A y \in Before(x) : \E j \in T : g[j] = y
      BY <1>6, <2>1
    <2> QED
      BY <2>1, <2>2, <2>3 DEF Bijection, Injection, Surjection, IsInjective
  <1>8. Position(x) = i - 1
    <2>1. IsFiniteSet(T) /\ Cardinality(T) = i - 1
      BY <1>1, FS_Interval
    <2>2. ExistsBijection(T, Before(x))
      BY <1>7 DEF ExistsBijection
    <2> QED
      BY <2>1, <2>2, FS_Bijection DEF Position
  <1> QED
    BY <1>1, <1>4, <1>8

\* Parameters, and the numbers of the pages after them, fit into a word.
LEMMA PageIsWord == ASSUME NEW q PROVE PageOf(q) \in Word \ {0}
  BY PagingAssumption DEF PageOf, ParseInt, DefaultPage, Word

LEMMA LimitIsWord == ASSUME NEW q PROVE LimitOf(q) \in Word \ {0}
  BY PagingAssumption DEF LimitOf, ParseInt, Word

----------------------------------------------------------------------------
(* The steps. *)

LEMMA InitInv == Init => ListingInv
  <1> SUFFICES ASSUME Init PROVE ListingInv
    OBVIOUS
  <1>1. /\ table \in [Rows -> Entry \cup {None}] /\ list \in Lists /\ pc = "start"
        /\ start = 0 /\ page = 0 /\ limit = 0 /\ total = 0 /\ chunk = <<>>
        /\ got = [x \in Rows |-> 0] /\ still = {} /\ came = {} /\ gone = {} /\ between = {}
        /\ changes = 0 /\ failures = 0
    BY ListingAssumption DEF Init
  <1>2. 0 \in Word
    BY PagingAssumption DEF Word
  <1>3. chunk \in Seq(Rows) /\ Len(chunk) = 0
    BY <1>1
  <1>4. Cardinality(Rows) \in Nat
    BY ListOfRows
  <1> QED
    BY <1>1, <1>2, <1>3, <1>4, ListingAssumption
    DEF ListingInv, ListingTypeOK, Counted, Labels

LEMMA AskInv == ListingInv /\ Ask => ListingInv'
  <1> SUFFICES ASSUME ListingInv, Ask PROVE ListingInv'
    OBVIOUS
  <1>1. PICK p \in PageParams, l \in LimitParams :
            start' = PageOf(p) /\ page' = PageOf(p) /\ limit' = LimitOf(l)
    BY DEF Ask
  <1>2. start' \in Word \ {0} /\ page' \in Word \ {0} /\ limit' \in Word \ {0}
    BY <1>1, PageIsWord, LimitIsWord
  <1>3. Matching' = Matching
    BY DEF Ask, Matching
  <1> QED
    BY <1>2, <1>3
    DEF Ask, ListingInv, ListingTypeOK, Counted, Labels, answers

LEMMA CountInv == ListingInv /\ Count => ListingInv'
  <1> SUFFICES ASSUME ListingInv, Count PROVE ListingInv'
    OBVIOUS
  <1>1. Matching' = Matching /\ list' = list
    BY DEF Count, Matching, request
  <1>2. total' \in 0 .. Cardinality(Rows)
    <2>1. Matching \in SUBSET Rows /\ {x \in Rows : table[x] # None} \in SUBSET Rows
      BY DEF Matching
    <2> QED
      BY <2>1, ListOfRows DEF Count
  <1>3. list.countsMatching => total' = Cardinality(Matching)
    BY DEF Count
  <1> QED
    BY <1>1, <1>2, <1>3
    DEF Count, ListingInv, ListingTypeOK, Counted, Undisturbed, Labels, request

LEMMA ReadPageInv == ListingInv /\ ReadPage => ListingInv'
  <1> SUFFICES ASSUME ListingInv, ReadPage PROVE ListingInv'
    OBVIOUS
  <1>1. PICK s \in Orders : chunk' = PageOfRows(s, page, limit)
    BY DEF ReadPage
  <1>2. page \in Word /\ limit \in Word /\ page \in Int /\ limit \in Int
    BY PagingAssumption DEF ListingInv, ListingTypeOK, Word
  <1>3. s \in Seq(Rows) /\ Len(s) = Cardinality(Matching)
    BY OrderOfRows
  <1>4. Cardinality(Matching) <= Cardinality(Rows)
        /\ Cardinality(Matching) \in Nat /\ Cardinality(Rows) \in Nat
    <2>1. Matching \in SUBSET Rows
      BY DEF Matching
    <2> QED
      BY <2>1, ListOfRows
  <1>5. chunk' \in Seq(Rows) /\ Len(chunk') <= Cardinality(Rows)
    <2>1. chunk' \in Seq(Rows) /\ Len(chunk') <= Len(s)
      BY <1>1, <1>2, <1>3, PageIsPart
    <2> QED
      BY <1>3, <1>4, <2>1
  <1>6. Undisturbed /\ Plain => Len(chunk') = Full(Left)
    <2> SUFFICES ASSUME Undisturbed, Plain PROVE Len(chunk') = Full(Left)
      OBVIOUS
    <2>1. total = Len(s)
      BY <1>3 DEF ReadPage, ListingInv, Counted
    <2> QED
      BY <1>1, <1>2, <1>3, <2>1, PageLength DEF Plain, Full, Left
  <1>7. Matching' = Matching
    BY DEF ReadPage, Matching
  <1>8. ListingTypeOK'
    BY <1>5, <1>7 DEF ReadPage, ListingInv, ListingTypeOK, Labels, request, history
  <1>9. Counted'
    <2>1. /\ pc' # "page" /\ list' = list /\ between' = between
          /\ page' = page /\ limit' = limit /\ total' = total
      BY DEF ReadPage, request, history
    <2>2. Undisturbed' = Undisturbed /\ Plain' = Plain /\ Full(Left)' = Full(Left)
      BY <2>1 DEF Undisturbed, Plain, Full, Left
    <2> QED
      BY <1>6, <2>1, <2>2 DEF Counted
  <1> QED
    BY <1>8, <1>9 DEF ListingInv

LEMMA FindEntitiesInv == ListingInv /\ FindEntities => ListingInv'
  BY DEF FindEntities, ListingInv, ListingTypeOK, Counted, Undisturbed, Plain, Full, Left,
         Matching, Labels, request, answers, history

LEMMA AnswerInv == ListingInv /\ Answer => ListingInv'
  <1> SUFFICES ASSUME ListingInv, Answer PROVE ListingInv'
    OBVIOUS
  <1>1. page' \in Word /\ page' # 0
    BY PageIsWord DEF Answer, ListingInv, ListingTypeOK
  <1>2. pc' \in {"count", "done"}
    BY DEF Answer
  <1>3. Matching' = Matching
    BY DEF Answer, Matching
  <1>4. got' \in [Rows -> 0..2]
    BY DEF Answer, ListingInv, ListingTypeOK
  <1> QED
    BY <1>1, <1>2, <1>3, <1>4
    DEF Answer, ListingInv, ListingTypeOK, Counted, Labels, history

LEMMA FailInv == ListingInv /\ Fail => ListingInv'
  <1> SUFFICES ASSUME ListingInv, Fail PROVE ListingInv'
    OBVIOUS
  <1>1. Matching' = Matching
    BY DEF Fail, Matching
  <1>2. failures' \in 0 .. MaxFailures
    BY ListingAssumption DEF Fail, ListingInv, ListingTypeOK
  <1> QED
    BY <1>1, <1>2
    DEF Fail, ListingInv, ListingTypeOK, Counted, Labels, request, answers, history

\* A change between the two queries is on record, if the list notices it.
LEMMA PutInv ==
  ASSUME ListingInv, Walking, NEW x \in Rows, NEW e \in Entry, Put(x, e),
         changes' = changes + 1, UNCHANGED <<pc, request, answers, failures>>
  PROVE  ListingInv'
  <1> DEFINE leaves == x \in Matching /\ ~(e.matches /\ e.key = table[x].key)
             enters == e.matches /\ ~(x \in Matching /\ e.key = table[x].key)
  <1>1. table' = [table EXCEPT ![x] = e] /\ table' \in [Rows -> Entry \cup {None}]
    BY DEF Put, ListingInv, ListingTypeOK
  <1>2. \A y \in Rows \ {x} : y \in Matching' <=> y \in Matching
    BY <1>1 DEF Matching, ListingInv, ListingTypeOK
  <1>3. x \in Matching' <=> e.matches
    BY <1>1, ListingAssumption DEF Matching, ListingInv, ListingTypeOK
  <1>4. still' \subseteq Matching'
    BY <1>2 DEF Put, ListingInv, ListingTypeOK, Matching
  <1>5. came' \subseteq Keys /\ gone' \subseteq Keys /\ between' \subseteq {"came", "gone"}
    <2>1. e.key \in Keys
      BY DEF Entry
    <2>2. leaves => table[x].key \in Keys
      BY DEF Matching, Entry, ListingInv, ListingTypeOK
    <2>3. came' = (IF enters THEN came \cup {e.key} ELSE came)
          /\ gone' = (IF leaves THEN gone \cup {table[x].key} ELSE gone)
      BY DEF Put
    <2>4. between' \subseteq between \cup {"came", "gone"}
      BY DEF Put
    <2> QED
      BY <2>1, <2>2, <2>3, <2>4 DEF ListingInv, ListingTypeOK
  <1>6. changes' \in 0 .. MaxChanges
    BY ListingAssumption DEF Walking, ListingInv, ListingTypeOK
  <1>7. ListingTypeOK'
    BY <1>1, <1>4, <1>5, <1>6 DEF ListingInv, ListingTypeOK, request, answers
  <1>8. between' = {} => between = {}
    BY DEF Put
  <1>9. pc = "page" /\ between' = {} => Matching' = Matching
    <2>1. pc = "page" /\ between' = {} => ~leaves /\ ~enters
      BY DEF Put
    <2>2. ~leaves /\ ~enters => (x \in Matching <=> e.matches)
      OBVIOUS
    <2>3. Matching' \subseteq Rows /\ Matching \subseteq Rows
      BY DEF Matching
    <2> QED
      BY <1>2, <1>3, <2>1, <2>2, <2>3
  <1>10. Counted'
    <2>1. /\ pc' = pc /\ list' = list /\ page' = page /\ limit' = limit
          /\ total' = total /\ chunk' = chunk
      BY DEF request, answers
    <2>2. Undisturbed' => Undisturbed
      BY <1>8, <2>1 DEF Undisturbed
    <2>3. Plain' = Plain /\ Full(Left)' = Full(Left)
      BY <2>1 DEF Plain, Full, Left
    <2>4. pc' = "page" /\ Undisturbed' => total' = Cardinality(Matching)'
      BY <1>9, <2>1, <2>2 DEF ListingInv, Counted, Undisturbed
    <2> QED
      BY <2>1, <2>2, <2>3, <2>4 DEF ListingInv, Counted
  <1> QED
    BY <1>7, <1>10 DEF ListingInv

LEMMA NextInv == ListingInv /\ [Next]_vars => ListingInv'
  <1> SUFFICES ASSUME ListingInv, [Next]_vars PROVE ListingInv'
    OBVIOUS
  <1>1. CASE Walk
    BY <1>1, AskInv, CountInv, ReadPageInv, FindEntitiesInv, AnswerInv DEF Walk
  <1>2. CASE Fail
    BY <1>2, FailInv
  <1>3. ASSUME NEW x \in Rows, Insert(x) \/ Update(x) PROVE ListingInv'
    <2>1. PICK e \in Entry : Put(x, e)
      BY <1>3 DEF Insert, Update
    <2>2. Walking /\ changes' = changes + 1 /\ UNCHANGED <<pc, request, answers, failures>>
      BY <1>3 DEF Insert, Update
    <2> QED
      BY <2>1, <2>2, PutInv
  <1>4. CASE UNCHANGED vars
    BY <1>4 DEF vars, ListingInv, ListingTypeOK, Counted, Undisturbed, Plain, Full, Left,
                Matching, request, answers, history
  <1> QED
    BY <1>1, <1>2, <1>3, <1>4 DEF Next

----------------------------------------------------------------------------
(* The walk. *)

\* What a walk has passed grows by a page with each page.
LEMMA PassedGrows ==
  ASSUME ListingInv
  PROVE  /\ page \in Int /\ limit \in Int /\ total \in Nat /\ WordMax \in Nat
         /\ total < WordMax
         /\ Passed \in Int /\ PassedThen \in Int
         /\ PassedThen = Passed + limit
         /\ page >= 1 /\ limit > 0 => Passed \in Nat
         /\ page = 1 => Passed = 0
  <1>1. page \in Int /\ limit \in Int /\ total \in Nat /\ WordMax \in Nat /\ total < WordMax
    <2>1. Cardinality(Rows) \in Nat
      BY ListOfRows
    <2> QED
      BY <2>1, PagingAssumption, ListingAssumption DEF ListingInv, ListingTypeOK, Word
  <1>2. page >= 1 /\ limit > 0 => (page - 1) * limit \in Nat
    BY <1>1, ProductNat
  <1> QED
    BY <1>1, <1>2 DEF Passed, PassedThen

\* A step that leaves the table and its history alone moves no row.
LEMMA SamePlaces ==
  ASSUME UNCHANGED <<table, came, gone>>
  PROVE  /\ Matching' = Matching
         /\ \A x : /\ Position(x)' = Position(x)
                   /\ NotMovedUp(x)' <=> NotMovedUp(x)
                   /\ NotMovedDown(x)' <=> NotMovedDown(x)
  BY DEF Matching, Position, Before, NotMovedUp, NotMovedDown, Tied

LEMMA WalkInit == Init => WalkInv
  BY DEF Init, WalkInv, NoneCame, OnItsWay, StillToCome, Onwards, LeftBehind, FromTheFirst,
         FromAPage, Unasked

LEMMA AskWalk == ListingInv /\ WalkInv /\ ListingInv' /\ Ask => WalkInv'
  <1> SUFFICES ASSUME ListingInv, WalkInv, ListingInv', Ask PROVE WalkInv'
    OBVIOUS
  <1>1. /\ pc' = "count" /\ page' = start' /\ list' = list
        /\ start' \in Int /\ start' # 0 /\ limit' \in Int /\ limit' # 0
        /\ UNCHANGED <<table, came, gone, got>>
    BY PagingAssumption DEF Ask, answers, ListingInv, ListingTypeOK, Word
  <1>2. \A x \in Rows : got'[x] = 0
    BY <1>1 DEF Ask, WalkInv, Unasked
  <1>3. still' \subseteq Rows
    BY DEF Ask, Matching
  <1>4. page' = 1 => Passed' = 0
    <2>1. page' = 1 => page' - 1 = 0
      OBVIOUS
    <2>2. page' - 1 = 0 => Passed' = 0 * limit'
      BY Zenon DEF Passed
    <2>3. 0 * limit' = 0
      <3>1. \A l \in Int : 0 * l = 0
        OBVIOUS
      <3> QED
        BY <1>1, <3>1, Zenon
    <2> QED
      BY <2>1, <2>2, <2>3
  <1>5. \A x : Position(x)' \in Nat
    BY <1>1, SamePlaces, PositionType
  <1>6. NoneCame' /\ Unasked'
    BY <1>1 DEF NoneCame, Unasked
  <1>7. OnItsWay'
    BY <1>1, <1>4, PagingAssumption DEF OnItsWay, FromTheFirst
  <1>8. StillToCome'
    BY <1>1, <1>4, <1>5 DEF StillToCome, FromTheFirst
  <1>9. Onwards'
    BY <1>1, <1>2 DEF Onwards, FromAPage
  <1>10. LeftBehind'
    BY <1>1, <1>2, <1>3 DEF LeftBehind, FromAPage
  <1> QED
    BY <1>6, <1>7, <1>8, <1>9, <1>10 DEF WalkInv

\* The count, and going back to it after a failure.
LEMMA CountWalk ==
  ASSUME ListingInv, WalkInv, Count \/ Fail
  PROVE  WalkInv'
  <1>1. /\ pc \in {"count", "page", "entities"} /\ pc' \in {"count", "page"}
        /\ UNCHANGED <<request, table, came, gone, got, still>>
    BY DEF Count, Fail, answers, history
  <1>2. NoneCame'
    <2>1. CASE Fail
      BY <2>1 DEF Fail, NoneCame
    <2>2. CASE Count
      <3>1. Matching \subseteq {x \in Rows : table[x] # None}
            /\ Matching \in SUBSET Rows /\ {x \in Rows : table[x] # None} \in SUBSET Rows
        BY DEF Matching
      <3>2. IsFiniteSet({x \in Rows : table[x] # None})
        BY <3>1, ListingAssumption, FS_Subset
      <3>3. Cardinality(Matching) <= Cardinality({x \in Rows : table[x] # None})
        BY <3>1, <3>2, FS_Subset
      <3>4. Cardinality(Matching) \in Nat
        BY <3>1, ListOfRows
      <3> QED
        BY <1>1, <2>2, <3>3, <3>4, SamePlaces DEF Count, NoneCame
    <2> QED
      BY <2>1, <2>2
  <1>3. /\ FromTheFirst' = FromTheFirst /\ FromAPage' = FromAPage
        /\ Passed' = Passed /\ page' = page /\ limit' = limit
    BY <1>1 DEF FromTheFirst, FromAPage, request, Passed
  <1>4. OnItsWay' /\ Onwards'
    BY <1>1, <1>3 DEF WalkInv, OnItsWay, Onwards
  <1>5. StillToCome'
    BY <1>1, <1>3, SamePlaces DEF WalkInv, StillToCome
  <1>6. LeftBehind'
    BY <1>1, <1>3, SamePlaces DEF WalkInv, LeftBehind
  <1>7. Unasked'
    BY <1>1 DEF Unasked
  <1> QED
    BY <1>2, <1>4, <1>5, <1>6, <1>7 DEF WalkInv

LEMMA FindEntitiesWalk == WalkInv /\ FindEntities => WalkInv'
  <1> SUFFICES ASSUME WalkInv, FindEntities PROVE WalkInv'
    OBVIOUS
  <1>1. /\ pc = "entities" /\ pc' = "answer"
        /\ UNCHANGED <<request, table, came, gone, got, still, chunk, between, total>>
    BY DEF FindEntities, answers, history
  <1>2. /\ FromTheFirst' = FromTheFirst /\ FromAPage' = FromAPage
        /\ Passed' = Passed /\ PassedThen' = PassedThen /\ page' = page /\ limit' = limit
        /\ \A x : Shown(x)' = Shown(x)
    BY <1>1 DEF FromTheFirst, FromAPage, request, Passed, PassedThen, Shown
  <1>3. OnItsWay' /\ Onwards'
    BY <1>1, <1>2 DEF WalkInv, OnItsWay, Onwards
  <1>4. StillToCome'
    BY <1>1, <1>2, SamePlaces DEF WalkInv, StillToCome
  <1>5. LeftBehind'
    BY <1>1, <1>2, SamePlaces DEF WalkInv, LeftBehind
  <1>6. NoneCame' /\ Unasked'
    BY <1>1 DEF NoneCame, Unasked
  <1> QED
    BY <1>3, <1>4, <1>5, <1>6 DEF WalkInv

\* What a page shows of a row whose place in the list is settled.
LEMMA PageShowsPlace ==
  ASSUME ListingInv, list.sorted, NEW s \in Orders, NEW x \in Matching, ~Tied(x)
  PROVE  /\ page >= 1 /\ limit > 0 /\ Passed < WordMax =>
                (Has(PageOfRows(s, page, limit), x)
                     <=> Passed <= Position(x) /\ Position(x) < PassedThen)
         /\ page = 1 /\ limit < 0 => Has(PageOfRows(s, page, limit), x)
         /\ Position(x) < Cardinality(Matching)
  <1> DEFINE n == Position(x) + 1
  <1>1. s \in Seq(Rows) /\ Len(s) = Cardinality(Matching)
    BY OrderOfRows
  <1>2. n \in 1 .. Len(s) /\ s[n] = x
    BY PlaceInOrder DEF ListingInv, Tied
  <1>3. Position(x) \in Nat
    BY PositionType
  <1>4. page \in Word /\ limit \in Word
    BY DEF ListingInv, ListingTypeOK
  <1>5. Matching \in SUBSET Rows
    BY DEF Matching
  <1>6. Cardinality(Matching) \in Nat
    BY <1>5, ListOfRows
  <1>7. \A i, j \in 1 .. Len(s) : i # j => s[i] # s[j]
    BY <1>1, <1>6 DEF Orders
  <1>8. ASSUME page >= 1, limit > 0, Passed < WordMax
        PROVE  Has(PageOfRows(s, page, limit), x)
                   <=> Passed <= Position(x) /\ Position(x) < PassedThen
    <2>1. page \in Int /\ page > 0
      BY <1>8, PassedGrows
    <2> HIDE DEF n
    <2>2. Has(PageOfRows(s, page, limit), s[n]) <=> Passed < n /\ n <= PassedThen
      BY <1>1, <1>2, <1>4, <1>7, <1>8, <2>1, PageShows DEF Passed, PassedThen
    <2> QED
      BY <1>2, <1>3, <2>2, PassedGrows DEF n
  <1>9. ASSUME page = 1, limit < 0 PROVE Has(PageOfRows(s, page, limit), x)
    <2>1. PageOfRows(s, page, limit) = s
      BY <1>1, <1>4, <1>9, WholePage
    <2>2. n \in DOMAIN s
      BY <1>1, <1>2
    <2> HIDE DEF n
    <2> QED
      BY <1>2, <2>1, <2>2 DEF Has
  <1>10. Position(x) < Cardinality(Matching)
    BY <1>1, <1>2, <1>3, <1>6
  <1> QED
    BY <1>8, <1>9, <1>10

LEMMA ReadPageWalk == ListingInv /\ WalkInv /\ ReadPage => WalkInv'
  <1> SUFFICES ASSUME ListingInv, WalkInv, ReadPage PROVE WalkInv'
    OBVIOUS
  <1>1. /\ pc = "page" /\ pc' \in {"entities", "answer"}
        /\ UNCHANGED <<request, table, came, gone, got, still, between, total>>
    BY DEF ReadPage, history
  <1>2. /\ FromTheFirst' = FromTheFirst /\ FromAPage' = FromAPage
        /\ Passed' = Passed /\ PassedThen' = PassedThen /\ page' = page /\ limit' = limit
    BY <1>1 DEF FromTheFirst, FromAPage, request, Passed, PassedThen
  <1>3. PICK s \in Orders : chunk' = PageOfRows(s, page, limit)
    BY DEF ReadPage
  <1>4. \A x : Shown(x)' <=> Has(PageOfRows(s, page, limit), x)
    BY <1>3 DEF Shown, Has
  <1>5. still \subseteq Matching /\ still \subseteq Rows /\ limit \in Int /\ limit # 0
        /\ page \in Int /\ \A x \in Rows : got[x] \in 0 .. 2
    BY <1>1, PassedGrows DEF ListingInv, ListingTypeOK, Matching
  <1>6. Matching \in SUBSET Rows /\ Cardinality(Matching) \in Nat
        /\ Cardinality(Matching) <= Cardinality(Rows) /\ Cardinality(Rows) \in Nat
    <2>1. Matching \in SUBSET Rows
      BY DEF Matching
    <2> QED
      BY <2>1, ListOfRows
  <1>7. OnItsWay' /\ Onwards'
    BY <1>1, <1>2 DEF WalkInv, OnItsWay, Onwards
  <1>8. NoneCame' /\ Unasked'
    BY <1>1 DEF NoneCame, Unasked
  <1>9. StillToCome'
    <2> SUFFICES ASSUME FromTheFirst, page >= 1, NEW x \in still, NotMovedUp(x), got[x] = 0
                 PROVE  /\ limit > 0 => Passed <= Position(x)
                        /\ \/ Shown(x)'
                           \/ /\ limit > 0 /\ PassedThen <= Position(x)
                              /\ "came" \notin between => PassedThen < total
      BY <1>1, <1>2, SamePlaces DEF StillToCome
    <2>1. limit > 0 => Passed <= Position(x)
      BY <1>1 DEF WalkInv, StillToCome
    <2>2. x \in Matching /\ ~Tied(x) /\ list.sorted
      BY <1>5 DEF NotMovedUp, FromTheFirst
    <2>3. CASE limit > 0
      <3>1. Passed < WordMax
        BY <1>5, <2>3 DEF WalkInv, OnItsWay
      <3>2. Shown(x)' \/ PassedThen <= Position(x)
        BY <1>4, <2>1, <2>2, <2>3, <3>1, PageShowsPlace, PassedGrows, PositionType
      <3>3. "came" \notin between => Position(x) < total
        BY <1>1, <1>6, <2>2, PageShowsPlace, PassedGrows, PositionType DEF WalkInv, NoneCame
      <3> QED
        BY <2>1, <2>3, <3>2, <3>3, PassedGrows, PositionType
    <2>4. CASE limit < 0
      <3>1. page = 1
        BY <1>5, <2>4 DEF WalkInv, OnItsWay
      <3> QED
        BY <1>4, <1>5, <2>2, <2>4, <3>1, PageShowsPlace
    <2> QED
      BY <1>5, <2>3, <2>4
  <1>10. LeftBehind'
    <2> SUFFICES ASSUME FromAPage, NEW x \in still, NotMovedDown(x)
                 PROVE  /\ got[x] <= 1
                        /\ got[x] = 1 => Position(x) < Passed
                        /\ Shown(x)' => got[x] = 0 /\ (limit > 0 => Position(x) < PassedThen)
      BY <1>1, <1>2, SamePlaces DEF LeftBehind
    <2>1. got[x] <= 1 /\ (got[x] = 1 => Position(x) < Passed)
      BY <1>1 DEF WalkInv, LeftBehind
    <2>2. x \in Rows /\ x \in Matching /\ ~Tied(x) /\ list.sorted /\ page >= 1
      BY <1>5 DEF NotMovedDown, FromAPage, WalkInv, Onwards
    <2>3. (\A y \in Rows : got[y] = 0) \/ (limit > 0 /\ Passed < WordMax)
      BY <1>1 DEF WalkInv, Onwards
    <2>4. limit > 0 /\ Passed < WordMax =>
             (Shown(x)' <=> Passed <= Position(x) /\ Position(x) < PassedThen)
      BY <1>4, <2>2, PageShowsPlace
    <2>5. ASSUME Shown(x)' PROVE got[x] = 0
      <3>1. got[x] \in 0 .. 2
        BY <1>5, <2>2
      <3> QED
        BY <2>1, <2>2, <2>3, <2>4, <2>5, <3>1, PassedGrows, PositionType
    <2>6. ASSUME Shown(x)', limit > 0 PROVE Position(x) < PassedThen
      <3>1. CASE Passed < WordMax
        BY <2>4, <2>6, <3>1
      <3>2. CASE ~(Passed < WordMax)
        <4>1. Position(x) < WordMax /\ Position(x) \in Nat
          BY <1>6, PositionType, PassedGrows, ListingAssumption
        <4> QED
          BY <2>6, <3>2, <4>1, PassedGrows
      <3> QED
        BY <3>1, <3>2
    <2> QED
      BY <2>1, <2>5, <2>6
  <1> QED
    BY <1>7, <1>8, <1>9, <1>10 DEF WalkInv

\* A link leads to the page after this one, or to the first one.
LEMMA NextPage ==
  ASSUME ListingInv, HasNext(page, total, limit), pc # "start"
  PROVE  /\ page >= 1 /\ limit > 0 => PageOf(page + 1) = page + 1 /\ PassedThen < total
         /\ page < 0 => PageOf(page + 1) = IF page = -1 THEN 1 ELSE page + 1
  <1>1. page \in Word /\ page # 0
    BY DEF ListingInv, ListingTypeOK
  <1>2. ASSUME page >= 1, limit > 0 PROVE PassedThen < total
    <2>1. total - (page - 1) * limit > limit
      BY <1>2, NextWhenRowsLeft, PassedGrows
    <2> QED
      BY <1>2, <2>1, PassedGrows DEF Passed
  <1>3. ASSUME page >= 1, limit > 0 PROVE PageOf(page + 1) = page + 1
    <2>1. page * 1 <= page * limit
      <3>1. page \in Nat /\ limit \in Nat /\ 1 <= limit
        BY <1>3, PassedGrows
      <3>2. 1 * page <= limit * page
        BY <3>1, ProductMonotonic
      <3> QED
        BY <3>1, <3>2
    <2>2. page < total
      BY <1>2, <1>3, <2>1, PassedGrows DEF PassedThen
    <2> QED
      BY <1>3, <2>2, PassedGrows DEF PageOf, ParseInt, Word
  <1>4. ASSUME page < 0
        PROVE  PageOf(page + 1) = IF page = -1 THEN 1 ELSE page + 1
    BY <1>1, <1>4, PassedGrows DEF PageOf, ParseInt, Word, DefaultPage
  <1> QED
    BY <1>2, <1>3, <1>4

LEMMA AnswerWalk == ListingInv /\ WalkInv /\ Answer => WalkInv'
  <1> SUFFICES ASSUME ListingInv, WalkInv, Answer PROVE WalkInv'
    OBVIOUS
  <1> DEFINE more == HasNext(page, total, limit)
  <1>1. /\ pc = "answer" /\ pc' = IF more THEN "count" ELSE "done"
        /\ page' = IF more THEN PageOf(page + 1) ELSE page
        /\ UNCHANGED <<table, list, start, limit, came, gone, still, between, total>>
    BY DEF Answer, history
  <1>2. \A x \in Rows : /\ got[x] \in 0 .. 2
                        /\ got'[x] = IF got[x] < 2 /\ Shown(x) THEN got[x] + 1 ELSE got[x]
    BY DEF Answer, Shown, Has, ListingInv, ListingTypeOK
  <1>3. still \subseteq Rows /\ limit # 0 /\ page # 0 /\ limit \in Int /\ page \in Int
        /\ total \in Nat
    BY <1>1, PassedGrows DEF ListingInv, ListingTypeOK, Matching
  <1>4. FromTheFirst' = FromTheFirst /\ FromAPage' = FromAPage
    BY <1>1 DEF FromTheFirst, FromAPage
  <1>5. page >= 1 /\ limit < 0 => ~more
    <2>1. limit < 0 => total \div (-limit) \in Nat
      BY <1>3
    <2> QED
      BY <1>3, <2>1 DEF HasNext, TotalPages
  <1>6. page < 0 /\ limit > 0 => more
    <2>1. limit > 0 => (total + limit - 1) \div limit \in Nat
      BY <1>3
    <2> QED
      BY <1>3, <2>1 DEF HasNext, TotalPages
  <1>7. page >= 1 /\ more => limit > 0 /\ page' = page + 1 /\ Passed' = PassedThen
                             /\ PassedThen < total
    <2> SUFFICES ASSUME page >= 1, more
                 PROVE  limit > 0 /\ page' = page + 1 /\ Passed' = PassedThen
                        /\ PassedThen < total
      OBVIOUS
    <2>1. limit > 0
      BY <1>3, <1>5
    <2>2. page' = page + 1 /\ PassedThen < total
      BY <1>1, <2>1, NextPage
    <2>3. limit' = limit /\ page' - 1 = page
      BY <1>1, <1>3, <2>2
    <2>4. Passed' = (page' - 1) * limit'
      BY Zenon DEF Passed
    <2>5. Passed' = PassedThen
      BY <2>3, <2>4, Zenon DEF PassedThen
    <2> QED
      BY <2>1, <2>2, <2>5
  <1>8. page < 0 /\ more => page' = IF page = -1 THEN 1 ELSE page + 1
    BY <1>1, NextPage
  <1>9. page' = 1 /\ more /\ page < 0 => Passed' = 0
    <2>1. page' = 1 => Passed' = 0 * limit
      BY <1>1 DEF Passed
    <2> QED
      BY <1>3, <2>1
  <1> HIDE DEF more
  <1>10. NoneCame' /\ Unasked'
    BY <1>1 DEF NoneCame, Unasked
  <1>11. OnItsWay'
    <2> SUFFICES ASSUME FromTheFirst
                 PROVE  \/ page' < 1 /\ limit > 0 /\ pc' # "done"
                        \/ page' = 1 /\ limit < 0
                        \/ page' >= 1 /\ limit > 0 /\ Passed' < WordMax
      BY <1>1, <1>4 DEF OnItsWay
    <2>1. CASE page < 1
      <3>1. limit > 0 /\ page < 0
        BY <1>3, <2>1 DEF WalkInv, OnItsWay
      <3> QED
        BY <1>1, <1>3, <1>6, <1>8, <1>9, <3>1, PassedGrows, PagingAssumption
    <2>2. CASE page >= 1 /\ more
      BY <1>3, <1>7, <2>2, PassedGrows
    <2>3. CASE page >= 1 /\ ~more
      <3>1. page' = page /\ Passed' = Passed
        BY <1>1, <2>3 DEF Passed
      <3> QED
        BY <1>3, <2>3, <3>1 DEF WalkInv, OnItsWay
    <2> QED
      BY <1>3, <2>1, <2>2, <2>3
  <1>12. StillToCome'
    <2> SUFFICES ASSUME FromTheFirst, page' >= 1,
                        NEW x \in still, NotMovedUp(x), got'[x] = 0
                 PROVE  /\ pc' # "done" /\ limit > 0 => Passed' <= Position(x)
                        /\ pc' = "done" => "came" \in between
      BY <1>1, <1>4, SamePlaces DEF StillToCome
    <2>1. ~Shown(x) /\ got[x] = 0
      BY <1>2, <1>3
    <2>2. CASE page < 1
      <3>1. limit > 0 /\ page < 0
        BY <1>3, <2>2 DEF WalkInv, OnItsWay
      <3>2. more /\ page' = 1
        BY <1>3, <1>6, <1>8, <3>1
      <3> QED
        BY <1>1, <1>9, <3>1, <3>2, PositionType
    <2>3. CASE page >= 1
      <3>1. limit > 0 /\ PassedThen <= Position(x)
            /\ ("came" \notin between => PassedThen < total)
        BY <1>1, <2>1, <2>3 DEF WalkInv, StillToCome
      <3>2. PassedThen < total => more
        <4>1. PassedThen < total => total - (page - 1) * limit > limit
          BY <3>1, PassedGrows DEF Passed
        <4> QED
          BY <1>3, <3>1, <4>1, NextWhenRowsLeft DEF more
      <3> QED
        BY <1>1, <1>7, <2>3, <3>1, <3>2
    <2> QED
      BY <1>3, <2>2, <2>3
  <1>13. Onwards'
    <2> SUFFICES ASSUME FromAPage
                 PROVE  page' >= 1 /\ (more => limit > 0 /\ Passed' < WordMax)
      BY <1>1, <1>4 DEF Onwards
    <2>1. page >= 1
      BY DEF WalkInv, Onwards
    <2> QED
      BY <1>1, <1>3, <1>7, <2>1, PassedGrows
  <1>14. LeftBehind'
    <2> SUFFICES ASSUME FromAPage, NEW x \in still, NotMovedDown(x)
                 PROVE  /\ got'[x] <= 1
                        /\ more /\ got'[x] = 1 => Position(x) < Passed'
      BY <1>1, <1>4, SamePlaces DEF LeftBehind
    <2>1. page >= 1 /\ x \in Rows
      BY <1>3 DEF WalkInv, Onwards
    <2>2. /\ got[x] <= 1
          /\ got[x] = 1 => Position(x) < Passed
          /\ Shown(x) => got[x] = 0 /\ (limit > 0 => Position(x) < PassedThen)
      BY <1>1 DEF WalkInv, LeftBehind
    <2>3. got'[x] <= 1
      BY <1>2, <2>1, <2>2
    <2>4. ASSUME more, got'[x] = 1 PROVE Position(x) < Passed'
      <3>1. limit > 0 /\ Passed' = PassedThen
        BY <1>7, <2>1, <2>4
      <3>2. Shown(x) \/ got[x] = 1
        BY <1>2, <2>1, <2>4
      <3> QED
        BY <2>2, <3>1, <3>2, PassedGrows, PositionType
    <2> QED
      BY <2>3, <2>4
  <1> QED
    BY <1>10, <1>11, <1>12, <1>13, <1>14 DEF WalkInv

\* A change by another request moves a row only in a way that its history
\* tells.
LEMMA PutPlaces ==
  ASSUME ListingInv, NEW x \in Rows, NEW e \in Entry, Put(x, e), NEW y \in still'
  PROVE  /\ y \in still /\ y # x
         /\ NotMovedUp(y)' => NotMovedUp(y) /\ Position(y) <= Position(y)'
         /\ NotMovedDown(y)' => NotMovedDown(y) /\ Position(y)' <= Position(y)
  <1> DEFINE leaves == x \in Matching /\ ~(e.matches /\ e.key = table[x].key)
             enters == e.matches /\ ~(x \in Matching /\ e.key = table[x].key)
  <1>1. /\ y \in still /\ y # x
        /\ table' = [table EXCEPT ![x] = e]
        /\ gone' = IF leaves THEN gone \cup {table[x].key} ELSE gone
        /\ came' = IF enters THEN came \cup {e.key} ELSE came
    BY DEF Put
  <1>2. y \in Rows /\ table'[x] = e /\ \A z \in Rows \ {x} : table'[z] = table[z]
    BY <1>1 DEF ListingInv, ListingTypeOK, Matching
  <1>3. /\ \A z \in Rows \ {x} : z \in Matching' <=> z \in Matching
        /\ x \in Matching' <=> e.matches
        /\ Matching' \in SUBSET Rows /\ Matching \in SUBSET Rows
    BY <1>2, ListingAssumption DEF Matching
  <1> HIDE DEF leaves, enters
  <1>4. ~Tied(y)' => ~Tied(y)
    <2> SUFFICES ASSUME ~Tied(y)', NEW z \in Matching \ {y}, table[z].key = table[y].key
                 PROVE  FALSE
      BY <1>1, <1>2 DEF Tied
    <2>1. table'[y].key = table[y].key
      BY <1>1, <1>2
    <2>2. CASE z # x
      BY <1>2, <1>3, <2>1, <2>2 DEF Tied
    <2>3. CASE z = x /\ leaves
      BY <1>1, <2>1, <2>3 DEF Tied
    <2>4. CASE z = x /\ ~leaves
      <3>1. x \in Matching' /\ table'[x].key = table[x].key
        BY <1>2, <1>3, <2>4 DEF leaves
      <3> QED
        BY <1>1, <2>1, <2>4, <3>1 DEF Tied
    <2> QED
      BY <2>2, <2>3, <2>4
  <1>5. ASSUME NotMovedUp(y)' PROVE Before(y) \subseteq Before(y)'
    <2> SUFFICES ASSUME NEW z \in Matching, table[z].key < table[y].key
                 PROVE  z \in Matching' /\ table'[z].key < table'[y].key
      BY DEF Before
    <2>1. table'[y].key = table[y].key
      BY <1>1, <1>2
    <2>2. CASE z # x
      BY <1>2, <1>3, <2>1, <2>2
    <2>3. CASE z = x /\ leaves
      BY <1>1, <1>5, <2>1, <2>3 DEF NotMovedUp
    <2>4. CASE z = x /\ ~leaves
      BY <1>2, <1>3, <2>1, <2>4 DEF leaves
    <2> QED
      BY <2>2, <2>3, <2>4
  <1>6. ASSUME NotMovedDown(y)' PROVE Before(y)' \subseteq Before(y)
    <2> SUFFICES ASSUME NEW z \in Matching', table'[z].key < table'[y].key
                 PROVE  z \in Matching /\ table[z].key < table[y].key
      BY DEF Before
    <2>1. table'[y].key = table[y].key
      BY <1>1, <1>2
    <2>2. CASE z # x
      BY <1>2, <1>3, <2>1, <2>2
    <2>3. CASE z = x /\ enters
      BY <1>1, <1>2, <1>6, <2>1, <2>3 DEF NotMovedDown
    <2>4. CASE z = x /\ ~enters
      BY <1>2, <1>3, <2>1, <2>4 DEF enters
    <2> QED
      BY <2>2, <2>3, <2>4
  <1>7. /\ IsFiniteSet(Before(y)) /\ IsFiniteSet(Before(y)')
        /\ Before(y) \in SUBSET Rows /\ Before(y)' \in SUBSET Rows
    <2>1. Before(y) \in SUBSET Rows /\ Before(y)' \in SUBSET Rows
      BY <1>3 DEF Before
    <2> QED
      BY <2>1, ListingAssumption, FS_Subset
  <1>8. NotMovedUp(y)' => NotMovedUp(y) /\ Position(y) <= Position(y)'
    <2>1. NotMovedUp(y)' => NotMovedUp(y)
      BY <1>1, <1>2, <1>4 DEF NotMovedUp
    <2>2. NotMovedUp(y)' => Cardinality(Before(y)) <= Cardinality(Before(y)')
      BY <1>5, <1>7, FS_Subset
    <2> QED
      BY <2>1, <2>2 DEF Position
  <1>9. NotMovedDown(y)' => NotMovedDown(y) /\ Position(y)' <= Position(y)
    <2>1. NotMovedDown(y)' => NotMovedDown(y)
      BY <1>1, <1>2, <1>4 DEF NotMovedDown
    <2>2. NotMovedDown(y)' => Cardinality(Before(y)') <= Cardinality(Before(y))
      BY <1>6, <1>7, FS_Subset
    <2> QED
      BY <2>1, <2>2 DEF Position
  <1> QED
    BY <1>1, <1>8, <1>9

LEMMA PutWalk ==
  ASSUME ListingInv, WalkInv, Walking, NEW x \in Rows, NEW e \in Entry, Put(x, e),
         UNCHANGED <<pc, request, answers>>
  PROVE  WalkInv'
  <1>1. /\ UNCHANGED <<pc, list, start, page, limit, total, chunk, got>>
        /\ pc \notin {"start", "done"}
        /\ still' \subseteq Rows
    BY DEF request, answers, Walking, Put, ListingInv, ListingTypeOK, Matching
  <1>2. /\ FromTheFirst' = FromTheFirst /\ FromAPage' = FromAPage
        /\ Passed' = Passed /\ PassedThen' = PassedThen
        /\ \A y : Shown(y)' = Shown(y)
    BY <1>1 DEF FromTheFirst, FromAPage, Passed, PassedThen, Shown
  <1>3. "came" \notin between' => "came" \notin between
    BY DEF Put
  <1>4. OnItsWay' /\ Onwards' /\ Unasked'
    BY <1>1, <1>2 DEF WalkInv, OnItsWay, Onwards, Unasked
  <1>5. NoneCame'
    <2> SUFFICES ASSUME pc = "page", "came" \notin between'
                 PROVE  Cardinality(Matching') <= total
      BY <1>1 DEF NoneCame
    <2>1. ~(e.matches /\ ~(x \in Matching /\ e.key = table[x].key))
      BY DEF Put
    <2>2. Matching' \subseteq Matching
      <3>1. table' = [table EXCEPT ![x] = e]
        BY DEF Put
      <3> QED
        BY <2>1, <3>1 DEF Matching, ListingInv, ListingTypeOK
    <2>3. Matching \in SUBSET Rows /\ Matching' \in SUBSET Rows
      BY <2>2 DEF Matching
    <2>4. /\ Cardinality(Matching') <= Cardinality(Matching)
          /\ Cardinality(Matching') \in Nat /\ Cardinality(Matching) \in Nat
      <3>1. IsFiniteSet(Matching)
        BY <2>3, ListingAssumption, FS_Subset
      <3> QED
        BY <2>2, <2>3, <3>1, FS_Subset, ListOfRows
    <2> QED
      BY <1>3, <2>4, PassedGrows DEF WalkInv, NoneCame
  <1>6. \A y : Position(y) \in Nat /\ Position(y)' \in Nat
    <2>1. \A y : Before(y) \in SUBSET Rows /\ Before(y)' \in SUBSET Rows
      BY DEF Before, Matching
    <2>2. \A y : Cardinality(Before(y)) \in Nat /\ Cardinality(Before(y)') \in Nat
      BY <2>1, ListOfRows
    <2> QED
      BY <2>2 DEF Position
  <1>7. StillToCome'
    <2> SUFFICES ASSUME FromTheFirst, page >= 1,
                        NEW y \in still', NotMovedUp(y)', got[y] = 0
                 PROVE  /\ limit > 0 => Passed <= Position(y)'
                        /\ pc \in {"entities", "answer"} =>
                               \/ Shown(y)
                               \/ /\ limit > 0 /\ PassedThen <= Position(y)'
                                  /\ "came" \notin between' => PassedThen < total
      BY <1>1, <1>2 DEF StillToCome
    <2>1. y \in still /\ NotMovedUp(y) /\ Position(y) <= Position(y)'
      BY PutPlaces
    <2>2. /\ limit > 0 => Passed <= Position(y)
          /\ pc \in {"entities", "answer"} =>
                 \/ Shown(y)
                 \/ /\ limit > 0 /\ PassedThen <= Position(y)
                    /\ "came" \notin between => PassedThen < total
      BY <1>1, <2>1 DEF WalkInv, StillToCome
    <2> QED
      BY <1>3, <1>6, <2>1, <2>2, PassedGrows
  <1>8. LeftBehind'
    <2> SUFFICES ASSUME FromAPage, NEW y \in still', NotMovedDown(y)'
                 PROVE  /\ got[y] <= 1
                        /\ got[y] = 1 => Position(y)' < Passed
                        /\ pc \in {"entities", "answer"} /\ Shown(y) =>
                               got[y] = 0 /\ (limit > 0 => Position(y)' < PassedThen)
      BY <1>1, <1>2 DEF LeftBehind
    <2>1. y \in still /\ NotMovedDown(y) /\ Position(y)' <= Position(y)
      BY PutPlaces
    <2>2. /\ got[y] <= 1
          /\ got[y] = 1 => Position(y) < Passed
          /\ pc \in {"entities", "answer"} /\ Shown(y) =>
                 got[y] = 0 /\ (limit > 0 => Position(y) < PassedThen)
      BY <1>1, <2>1 DEF WalkInv, LeftBehind
    <2> QED
      BY <1>6, <2>1, <2>2, PassedGrows
  <1> QED
    BY <1>4, <1>5, <1>7, <1>8 DEF WalkInv

LEMMA WalkNext == ListingInv /\ ListingInv' /\ WalkInv /\ [Next]_vars => WalkInv'
  <1> SUFFICES ASSUME ListingInv, ListingInv', WalkInv, [Next]_vars PROVE WalkInv'
    OBVIOUS
  <1>1. CASE Walk \/ Fail
    BY <1>1, AskWalk, CountWalk, ReadPageWalk, FindEntitiesWalk, AnswerWalk DEF Walk
  <1>2. ASSUME NEW x \in Rows, Insert(x) \/ Update(x) PROVE WalkInv'
    <2>1. PICK e \in Entry : Put(x, e)
      BY <1>2 DEF Insert, Update
    <2>2. Walking /\ UNCHANGED <<pc, request, answers>>
      BY <1>2 DEF Insert, Update
    <2> QED
      BY <2>1, <2>2, PutWalk
  <1>3. CASE UNCHANGED vars
    BY <1>3 DEF vars, WalkInv, NoneCame, OnItsWay, StillToCome, Onwards, LeftBehind, Unasked,
                FromTheFirst, FromAPage, Passed, PassedThen, Shown, Position, Before,
                NotMovedUp, NotMovedDown, Tied, Matching, request, answers, history
  <1> QED
    BY <1>1, <1>2, <1>3 DEF Next

----------------------------------------------------------------------------

\* A walk keeps its types: in particular no number of a page leaves the word,
\* however the client chose page and limit, and a row that was in the list all
\* the time is in it.
THEOREM ListingTypeCorrect == Spec => []ListingTypeOK
  <1>1. ListingInv => ListingTypeOK
    BY DEF ListingInv
  <1> QED
    BY <1>1, InitInv, NextInv, PTL DEF Spec

\* The count, the rows of a page and the link to the next page agree, for every
\* table, limit and size of a word, unless something came or left between the
\* two queries or the offset does not fit.
THEOREM PageIsAsCounted == Spec => []PageAsCounted
  <1>1. ListingInv => PageAsCounted
    <2> SUFFICES ASSUME ListingInv, pc = "answer", Undisturbed, Plain
                 PROVE  /\ Len(chunk) = Full(Left)
                        /\ HasNext(page, total, limit) <=> Left > limit
      BY DEF PageAsCounted, Undisturbed, Plain, Full, Left
    <2>1. Len(chunk) = Full(Left)
      BY DEF ListingInv, Counted
    <2>2. page \in Int /\ limit \in Nat \ {0} /\ total \in Nat
      <3>1. Cardinality(Rows) \in Nat
        BY ListOfRows
      <3> QED
        BY <3>1, PagingAssumption DEF ListingInv, ListingTypeOK, Plain, Word
    <2>3. HasNext(page, total, limit) <=> Left > limit
      BY <2>2, NextWhenRowsLeft DEF Left
    <2> QED
      BY <2>1, <2>3
  <1> QED
    BY <1>1, InitInv, NextInv, PTL DEF Spec

LEMMA WalkIsKept == Spec => [](ListingInv /\ WalkInv)
  <1>1. Init => ListingInv /\ WalkInv
    BY InitInv, WalkInit
  <1>2. ListingInv /\ WalkInv /\ [Next]_vars => (ListingInv /\ WalkInv)'
    BY NextInv, WalkNext
  <1> QED
    BY <1>1, <1>2, PTL DEF Spec

\* A walk over a sorted list of any length, in pages of any size, misses a row
\* that was there all the time only if another one has its key, a row before it
\* left, or one came between the count and the rows of the last page.
THEOREM NoRowSkipped == Spec => []SkippedOnlyByChange
  <1>1. ListingInv /\ WalkInv => SkippedOnlyByChange
    <2> SUFFICES ASSUME ListingInv, WalkInv, pc = "done", FromTheFirst,
                        NEW x \in still, ~(got[x] > 0), NotMovedUp(x)
                 PROVE  "came" \in between
      BY DEF SkippedOnlyByChange, FromTheFirst, NotMovedUp
    <2>1. got[x] = 0
      BY DEF ListingInv, ListingTypeOK, Matching
    <2>2. page >= 1
      <3>1. page \in Int
        BY PassedGrows
      <3> QED
        BY <3>1 DEF WalkInv, OnItsWay
    <2> QED
      BY <2>1, <2>2 DEF WalkInv, StillToCome
  <1> QED
    BY <1>1, WalkIsKept, PTL

\* A walk from any page on gives a row that was there all the time twice only if
\* another one has its key or a row came before it.
THEOREM NoRowRepeated == Spec => []RepeatedOnlyByChange
  <1>1. ListingInv /\ WalkInv => RepeatedOnlyByChange
    <2> SUFFICES ASSUME ListingInv, WalkInv, list.sorted, start >= 1, pc # "start",
                        NEW x \in still, got[x] > 1, NotMovedDown(x)
                 PROVE  FALSE
      BY DEF RepeatedOnlyByChange, NotMovedDown, WalkInv, Unasked
    <2>1. got[x] <= 1
      BY DEF WalkInv, LeftBehind, FromAPage
    <2>2. got[x] \in 0 .. 2
      BY DEF ListingInv, ListingTypeOK, Matching
    <2> QED
      BY <2>1, <2>2
  <1> QED
    BY <1>1, WalkIsKept, PTL
=============================================================================
