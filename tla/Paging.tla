------------------------------- MODULE Paging -------------------------------
(****************************************************************************)
(* The arithmetic of the paginated lists: what becomes of the parameters    *)
(* `page` and `limit`, which rows a page has, and how many pages there are. *)
(* Go's int64 is a two's complement word, whose size is a constant.         *)
(****************************************************************************)
EXTENDS Integers, Sequences

CONSTANTS WordMax,        \* 2^63
          DefaultLimit    \* 20

ASSUME PagingAssumption == /\ WordMax \in Nat \ {0}
                           /\ DefaultLimit \in 1..(WordMax - 1)

Word == -WordMax..(WordMax - 1)

Wrap(i) == ((i + WordMax) % (2 * WordMax)) - WordMax

DefaultPage == 1

\* strconv.ParseInt of a query parameter: an error, also when the number does
\* not fit, leaves the field zero.  A parameter that is missing or no number
\* is written 0 here, for it ends alike.
ParseInt(q) == IF q \in Word THEN q ELSE 0

PageOf(q) == IF ParseInt(q) = 0 THEN DefaultPage ELSE ParseInt(q)

\* Mutant: a limit that is missing stays zero.
LimitOf_NoDefault(q) == ParseInt(q)

LimitOf(q) == IF ParseInt(q) = 0 THEN DefaultLimit ELSE ParseInt(q)

\* Mutant: the offset counts pages from zero.
GetOffset_FromZero(page, limit) == Wrap(page * limit)

GetOffset(page, limit) == Wrap(Wrap(page - 1) * limit)

\* Mutant: a page ends with the first row of the next one.
PageOfRows_Inclusive(s, page, limit) ==
    LET offset == GetOffset(page, limit)
        first == IF offset > 0 THEN offset + 1 ELSE 1
        last == IF limit < 0 \/ Len(s) <= first + limit THEN Len(s) ELSE first + limit
    IN  SubSeq(s, first, last)

\* gorm leaves out an OFFSET that is not positive and a negative LIMIT.
PageOfRows(s, page, limit) ==
    LET offset == GetOffset(page, limit)
        first == IF offset > 0 THEN offset + 1 ELSE 1
        last == IF limit < 0 \/ Len(s) < first + limit THEN Len(s) ELSE first + limit - 1
    IN  SubSeq(s, first, last)

\* Mutant: the division truncates.
TotalPages_Truncated(count, limit) ==
    IF limit > 0 THEN count \div limit ELSE -(count \div (-limit))

\* math.Ceil of the quotient, which is negative when the limit is.
TotalPages(count, limit) ==
    IF limit > 0 THEN (count + limit - 1) \div limit ELSE -(count \div (-limit))

HasNext(page, count, limit) == page < TotalPages(count, limit)
=============================================================================
