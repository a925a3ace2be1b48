----------------------------- MODULE ResultPages -----------------------------
(***************************************************************************)
(* Reading the result of a successful job page by page: Store.GetResultPage*)
(* in services/query-engine and a client that walks through the pages, by  *)
(* the next-page token or by counting pages itself.  The page arithmetic   *)
(* is that of the code's int32, whose width is a constant here.            *)
(***************************************************************************)
EXTENDS Integers, Sequences

CONSTANTS
  Width,        \* bits of an int32
  DefaultSize,  \* page size when the request has none
  MaxSize,      \* largest page size served
  RowCounts,    \* numbers of rows a result may have
  Sizes,        \* page sizes a client may ask for
  FirstPages,   \* page numbers a client may start with
  Readers       \* "token" follows next_page_token, "count" adds one itself

\* Half of the integers of that width; the other half is negative.
Half == 2 ^ (Width - 1)

ASSUME PageAssumption ==
  /\ Width \in Nat \ {0} /\ Half \in Nat \ {0} /\ RowCounts \subseteq Nat
  /\ DefaultSize \in 1 .. MaxSize /\ MaxSize \in 1 .. Half - 1
  /\ Sizes \cup FirstPages \subseteq Int /\ Readers \subseteq {"token", "count"}

VARIABLES
  rows,    \* Record.Rows, or the rows of the stored object
  reader,  \* how the client walks, its page size and its first page
  page,    \* the page it asks for next
  got,     \* the rows it has received
  step     \* where the client is: "reading", "done", "lost", "panic" and others

pageVars == <<rows, reader, page, got, step>>

\* int32 arithmetic wraps around.
Int32(x) == ((x + Half) % (2 * Half)) - Half

PageOf(p) == IF p <= 0 THEN 1 ELSE p

SizeOf(s) == IF s <= 0 THEN DefaultSize ELSE IF s > MaxSize THEN MaxSize ELSE s

\* Slip: pages count from zero.
StartZeroBased(p, s) == Int32(PageOf(p) * SizeOf(s))

Start(p, s) == Int32(Int32(PageOf(p) - 1) * SizeOf(s))

AtMostRows(n) == IF n > Len(rows) THEN Len(rows) ELSE n

\* Slip: the page that would hold one last row is not announced.
HasNextButLast(end) == end < Len(rows) - 1

HasNext(end) == end < Len(rows)

NextToken(p) == Int32(PageOf(p) + 1)

\* A slice with a negative bound panics.
Panics(p, s) == Start(p, s) < 0

\* GetResultPage: the rows of a page and whether a token comes with them.
GetResultPage(p, s) ==
  LET start == Start(p, s)
      end   == AtMostRows(start + SizeOf(s))
  IN  IF start >= Len(rows)
      THEN [rows |-> <<>>, more |-> FALSE]
      ELSE [rows |-> SubSeq(rows, start + 1, end), more |-> HasNext(end)]

\* Nothing read yet; the client settles how it reads when it begins to.
PageInit ==
  /\ rows = <<>>
  /\ reader = [by |-> "token", size |-> 0, first |-> 1]
  /\ page = 1
  /\ got = <<>>

\* The client chooses its page size and its first page.
Open ==
  /\ reader' \in [by: Readers, size: Sizes, first: FirstPages]
  /\ page' = Int32(reader'.first)
  /\ step' = "reading"
  /\ UNCHANGED <<rows, got>>

\* A reader that counts stops at the first page without rows or token.
Read ==
  LET answer == GetResultPage(page, Int32(reader.size))
  IN  /\ step = "reading" /\ ~Panics(page, Int32(reader.size))
      /\ got'  = got \o answer.rows
      /\ step' = IF answer.more THEN "reading" ELSE "done"
      /\ page' = IF ~answer.more THEN page
                 ELSE IF reader.by = "token" THEN NextToken(page) ELSE Int32(page + 1)
      /\ UNCHANGED <<rows, reader>>

ReadPanics ==
  /\ step = "reading" /\ Panics(page, Int32(reader.size))
  /\ step' = "panic"
  /\ UNCHANGED <<rows, reader, page, got>>

\* The Redis key or the stored object outlived its TTL.
Expire ==
  /\ step = "reading"
  /\ step' = "lost"
  /\ UNCHANGED <<rows, reader, page, got>>

(***************************************************************************)
(* Properties.                                                             *)
(***************************************************************************)

\* Where a page begins when nothing wraps around, and that nothing does.
Offset(p) == (PageOf(p) - 1) * SizeOf(reader.size)
Fits(p)   == {p, reader.size} \subseteq -Half .. Half - 1 /\ Offset(p) < Half

\* Pages come in order, without a gap and without a row twice, from whatever
\* page and with whatever page size the client starts (store.go:266-291), as
\* long as these and the offset fit an int32.  A client that counts pages itself must
\* count from one: page 0 is served as page 1, which it would read again.
PagesInOrder ==
  Fits(reader.first) /\ (reader.by = "count" => reader.first > 0) =>
    got = SubSeq(rows, Offset(reader.first) + 1, Offset(reader.first) + Len(got))

\* A walk from a page that fits an int32 does not run into the slice
\* expression, and when it ends without a next-page token it has read every row
\* after its first page (store.go:276-291).
DoneReadsAll ==
  Fits(reader.first) =>
    /\ step # "panic"
    /\ step = "done" => Offset(reader.first) + Len(got) >= Len(rows)
=============================================================================
