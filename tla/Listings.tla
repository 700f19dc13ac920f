------------------------------ MODULE Listings ------------------------------
(***************************************************************************)
(* Walks over lists that change while they are walked: cursor pages        *)
(* (internal/pagination/cursor.go, used by the plan and subscription       *)
(* lists), offset pages of the SQL repositories                            *)
(* (internal/repositories/subscriptions.go), and the reconciliation        *)
(* reports, paged by cursor from the order they were saved in              *)
(* (internal/reconciliation/store_memory.go).                              *)
(***************************************************************************)
EXTENDS Integers, FiniteSets, Sequences, SequencesExt

CONSTANTS
  Rows,        \* rows of the cursor walk: <<sort value, id>>
  PageLimit,   \* the page size asked for
  MaxCreated   \* bound on the rows of the offset walk and on saved reports

VARIABLES
  listKind,  \* which list this behaviour is about: "cursor", "offset", "reports"
  table,     \* cursor: rows present
  steady,    \* cursor: rows present ever since the walk began
  recent,    \* offset: rows by updated_at, latest first; row n is the n-th created
  wanted,    \* offset: rows there when the walk began
  saved,     \* reports: subscription ids in the order SaveReports appended them
  mark,      \* the cursor (a set of at most one row) or the offset of the next page
  fetched,   \* rows the walk has returned, in order
  walking    \* the last page did not end the walk

listVars == <<listKind, table, steady, recent, wanted, saved, mark, fetched, walking>>
sourceVars == <<table, steady, recent, wanted, saved>>

(* The state is well formed; a walk that ended kept no cursor. *)
ListTypeOK ==
  /\ table \subseteq Rows /\ steady \subseteq table
  /\ Range(recent) = 1 .. Len(recent) /\ Len(recent) <= MaxCreated
  /\ wanted \subseteq Range(recent)
  /\ Len(saved) <= MaxCreated /\ walking \in BOOLEAN
  /\ listKind # "offset" => Cardinality(mark) <= 1 /\ (~walking => mark = {})

ListInit ==
  /\ listKind \in {"cursor", "offset", "reports"}
  /\ table \in (IF listKind = "cursor" THEN SUBSET Rows ELSE {{}})
  /\ steady = table
  /\ recent \in (IF listKind = "offset"
                 THEN UNION {SetToSeqs(1 .. n) : n \in 0 .. MaxCreated - 1} ELSE {<<>>})
  /\ wanted = Range(recent)
  /\ saved = <<>>
  /\ mark = IF listKind = "offset" THEN {0} ELSE {}
  /\ fetched = <<>> /\ walking = TRUE

-----------------------------------------------------------------------------
(* Cursor pages. *)

Before(a, b) == a[1] < b[1] \/ (a[1] = b[1] /\ a[2] < b[2])

(* The order the list services deliver their rows in. *)
Listed(rows) ==
  [i \in 1 .. Cardinality(rows) |->
     CHOOSE r \in rows : Cardinality({x \in rows : Before(x, r)}) = i - 1]

(* The first item after the cursor; 0 when there is none. *)
startIdx(items, cursor) ==
  LET after == {i \in DOMAIN items : \A c \in cursor : Before(c, items[i])}
  IN  IF cursor = {} THEN 1
      ELSE IF after = {} THEN 0
      ELSE CHOOSE i \in after : \A j \in after : i <= j

previousCursor(items, start) ==
  IF start - PageLimit > 1 THEN {items[start - PageLimit - 1]} ELSE {}

PaginateSlice_NextFollows(items, cursor) ==
  LET start == startIdx(items, cursor)
      end   == start + PageLimit - 1
      more  == start > 0 /\ end < Len(items)
  IN  IF start = 0
      THEN [items |-> <<>>, next |-> {}, prev |-> {}, more |-> FALSE]
      ELSE [items |-> SubSeq(items, start, IF more THEN end ELSE Len(items)),
            next  |-> IF more THEN {items[end + 1]} ELSE {},
            prev  |-> previousCursor(items, start),
            more  |-> more]

PaginateSlice(items, cursor) ==
  LET start == startIdx(items, cursor)
      end   == start + PageLimit - 1
      more  == start > 0 /\ end < Len(items)
  IN  IF start = 0
      THEN [items |-> <<>>, next |-> {}, prev |-> {}, more |-> FALSE]
      ELSE [items |-> SubSeq(items, start, IF more THEN end ELSE Len(items)),
            next  |-> IF more THEN {items[end]} ELSE {},
            prev  |-> previousCursor(items, start),
            more  |-> more]

(* A page is appended to what the walk has; its next cursor replaces the old. *)
ReadCursorPage(items) ==
  LET page == PaginateSlice(items, mark)
  IN  /\ walking
      /\ fetched' = fetched \o page.items
      /\ mark' = page.next
      /\ walking' = page.more
      /\ UNCHANGED sourceVars

InsertRow == \E r \in Rows \ table :
  /\ walking /\ table' = table \union {r}
  /\ UNCHANGED <<steady, recent, wanted, saved, mark, fetched, walking>>

RemoveRow == \E r \in table :
  /\ walking /\ table' = table \ {r} /\ steady' = steady \ {r}
  /\ UNCHANGED <<recent, wanted, saved, mark, fetched, walking>>

CursorNext == ReadCursorPage(Listed(table)) \/ InsertRow \/ RemoveRow

-----------------------------------------------------------------------------
(* Offset pages. *)

(* Create stamps created_at and updated_at with the time of the call. *)
CreateRow ==
  /\ walking /\ Len(recent) < MaxCreated
  /\ recent' = <<Len(recent) + 1>> \o recent
  /\ UNCHANGED <<table, steady, wanted, saved, mark, fetched, walking>>

(* Update, UpdateStatus and Cancel each stamp updated_at of the row they write. *)
TouchRow == \E r \in Range(recent) :
  /\ walking /\ r # recent[1]
  /\ recent' = <<r>> \o SelectSeq(recent, LAMBDA x : x # r)
  /\ UNCHANGED <<table, steady, wanted, saved, mark, fetched, walking>>

(* ORDER BY created_at DESC. *)
OffsetOrder == [i \in DOMAIN recent |-> Len(recent) + 1 - i]

(* LIMIT, OFFSET; the walk ends with the first short page. *)
ReadOffsetPage == \E at \in mark :
  LET page == SubSeq(OffsetOrder, at + 1, IF at + PageLimit < Len(recent)
                                          THEN at + PageLimit ELSE Len(recent))
  IN  /\ walking
      /\ fetched' = fetched \o page
      /\ mark' = {at + PageLimit}
      /\ walking' = (Len(page) = PageLimit)
      /\ UNCHANGED sourceVars

OffsetNext == CreateRow \/ TouchRow \/ ReadOffsetPage

-----------------------------------------------------------------------------
(* Reports: appended by SaveReports, listed in that order. *)

SaveReports == \E s \in 1 .. MaxCreated :
  /\ walking /\ Len(saved) < MaxCreated
  /\ saved' = Append(saved, <<s, s>>)
  /\ UNCHANGED <<table, steady, recent, wanted, mark, fetched, walking>>

(* From an unsorted list the cursor may lead back, and the walk go round:  *)
(* it is followed until it has returned more than MaxCreated reports.      *)
ReportsNext == SaveReports \/ (Len(fetched) <= MaxCreated /\ ReadCursorPage(saved))

ListNext ==
  /\ UNCHANGED listKind
  /\ \/ listKind = "cursor" /\ CursorNext
     \/ listKind = "offset" /\ OffsetNext
     \/ listKind = "reports" /\ ReportsNext

ListSpec == ListInit /\ [][ListNext]_listVars

-----------------------------------------------------------------------------
(* A cursor walk returns no row twice, and when it has ended it has        *)
(* returned every row that was there from beginning to end, whatever was   *)
(* inserted or removed between its pages: the cursor names the last row    *)
(* returned, by sort value and id, and that row need not exist any more.   *)
CursorWalkIsWhole ==
  listKind = "cursor" =>
    /\ IsInjective(fetched)
    /\ ~walking => steady \subseteq Range(fetched)

(* While the list stands still, the previous cursor of a page leads to the *)
(* page that ends right before it, or to the first page when that one      *)
(* holds everything before it (previousCursor).                            *)
PreviousLeadsBack ==
  LET items == Listed(table)
  IN  \A c \in {{}} \union {{r} : r \in Rows} :
        LET page == PaginateSlice(items, c)
            back == PaginateSlice(items, page.prev).items
            start == startIdx(items, c)
        IN  page.items # <<>> /\ start > 1 =>
              IF page.prev # {} THEN back = SubSeq(items, start - PageLimit, start - 1)
              ELSE \A i \in 1 .. start - 1 : items[i] \in Range(back)

(* An offset walk over rows that are created and written meanwhile, never  *)
(* deleted, misses no row that was there when it began: new rows come      *)
(* first and push the others towards later pages, and a write does not     *)
(* move a row.                                                             *)
OffsetWalkMissesNone ==
  listKind = "offset" /\ ~walking => wanted \subseteq Range(fetched)

=============================================================================
