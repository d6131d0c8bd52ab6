----------------------------- MODULE Pagination -----------------------------
(***************************************************************************)
(* Reading a list in pages (src/src/common/common.service.ts).  A list is  *)
(* a finite set of row ids; rows are ordered by their time of creation,    *)
(* which orders them as their ids do.                                      *)
(*                                                                         *)
(* A definition D_Variant is D with a plausible mistake; nothing uses it   *)
(* but the runs that show which property the mistake breaks.               *)
(***************************************************************************)
EXTENDS Integers, FiniteSets, FiniteSetsExt

Order == {"ASC", "DESC"}

\* the rows that come before row i
Before(ids, order, i) ==
  {j \in ids : IF order = "ASC" THEN j < i ELSE j > i}

Skip_OnePage(take, page) == take * page

\* compoeseFindOptions
Skip(take, page) == take * (page - 1)

\* pagePagination: the rows LIMIT take OFFSET skip leaves
PageOf(ids, order, take, page) ==
  {i \in ids : Cardinality(Before(ids, order, i))
                 \in Skip(take, page) .. Skip(take, page) + take - 1}

After_Inclusive(ids, order, cursor) ==
  {i \in ids : IF order = "ASC" THEN i >= cursor ELSE i <= cursor}

\* where__id__more_than, where__id__less_than
After(ids, order, cursor) ==
  {i \in ids : IF order = "ASC" THEN i > cursor ELSE i < cursor}

NoCursor == 0

\* cursorPagination.  A where of the caller replaces the one of the cursor, so
\* that a list with a filter of its own never gets past its first page.
CursorPageOf(ids, order, take, cursor, ownWhere) ==
  LET rest == IF cursor = NoCursor \/ ownWhere THEN ids ELSE After(ids, order, cursor)
  IN  {i \in rest : Cardinality(Before(rest, order, i)) < take}

\* the cursor of the next link; none when the page is not full
NextCursor(page, order, take) ==
  IF page = {} \/ Cardinality(page) # take THEN NoCursor
  ELSE IF order = "ASC" THEN Max(page) ELSE Min(page)

=============================================================================
