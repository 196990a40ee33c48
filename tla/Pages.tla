-------------------------------- MODULE Pages --------------------------------
(***************************************************************************)
(* A list page by page: companies, contacts or deals, read through opaque  *)
(* cursors while rows come and go.  A page is two queries, the count and   *)
(* the rows; they are one step here, as the count is only displayed.       *)
(***************************************************************************)
EXTENDS Naturals, Sequences, FiniteSets, SequencesExt

CONSTANTS
  Rows,       \* rows the list may have
  Key,        \* Key[r]: the value of the sort column
  Size,       \* page_size
  Sort,       \* the order of the list: [field, direction]
  Bookmarks,  \* cursors that come from elsewhere
  MaxWrites   \* bound: rows inserted and deleted

\* What the constants have to be.
PagesInstance ==
  /\ IsFiniteSet(Rows) /\ Key \in [Rows -> Nat] /\ Size \in Nat \ {0} /\ MaxWrites \in Nat
  /\ Sort.field # "" /\ Sort.direction \in {"a", "d"}

VARIABLES
  list,    \* the rows that match
  page,    \* the page on the screen, or NoPage
  seen,    \* seen[r]: how often the walk from the first page has shown row r
  there,   \* the rows that have been in the list since the walk began
  wrote,   \* what has been done to the list since then
  writes   \* how many rows were written at all

pages == <<list, page, seen, there, wrote, writes>>

NoPage == [rows |-> <<>>, offset |-> 0, next |-> <<>>, prev |-> <<>>, walk |-> FALSE]
NoCursor == <<>>

-----------------------------------------------------------------------------
(* Cursors: a version, the order they were minted under, and an offset.    *)

Encode(offset) == <<"v1", Sort.field, Sort.direction, offset>>

Decodes(c) == /\ Len(c) = 4 /\ c[1] = "v1" /\ c[2] # "" /\ c[3] \in {"a", "d"}
              /\ c[4] \in Nat

Matches(c) == c[2] = Sort.field /\ c[3] = Sort.direction

\* resolve: the cursor's offset, or the first page.  A link carries one cursor;
\* of an address somebody gives both, next is the one that is read.
Resolve(c) == IF Decodes(c) /\ Matches(c) THEN c[4] ELSE 0

-----------------------------------------------------------------------------
(* One page.                                                               *)

\* ORDER BY the sort column alone: ties come in any order, anew every time.
Ordered(s) == \A i, j \in DOMAIN s : i < j => Key[s[i]] <= Key[s[j]]
Orders == {s \in SetToSeqs(list) : Ordered(s)}

\* Mutation: the next page starts after the row that was fetched to look ahead.
AssembledSkipping(order, offset, walk) ==
  LET fetched == SubSeq(order, offset + 1, IF Len(order) < offset + Size + 1
                                           THEN Len(order) ELSE offset + Size + 1)
      more == Len(fetched) > Size
  IN  [rows |-> IF more THEN SubSeq(fetched, 1, Size) ELSE fetched,
       offset |-> offset,
       next |-> IF more THEN Encode(offset + Len(fetched)) ELSE NoCursor,
       prev |-> IF offset > 0 THEN Encode(IF offset > Size THEN offset - Size ELSE 0)
                ELSE NoCursor,
       walk |-> walk]

\* Mutation: going back counts that row, too.
AssembledBackTooFar(order, offset, walk) ==
  LET fetched == SubSeq(order, offset + 1, IF Len(order) < offset + Size + 1
                                           THEN Len(order) ELSE offset + Size + 1)
      more == Len(fetched) > Size
  IN  [rows |-> IF more THEN SubSeq(fetched, 1, Size) ELSE fetched,
       offset |-> offset,
       next |-> IF more THEN Encode(offset + Size) ELSE NoCursor,
       prev |-> IF offset > 0 THEN Encode(IF offset > Size + 1 THEN offset - (Size + 1) ELSE 0)
                ELSE NoCursor,
       walk |-> walk]

\* LIMIT fetch_limit OFFSET offset, then assemble drops the row too many.
Assembled(order, offset, walk) ==
  LET fetched == SubSeq(order, offset + 1, IF Len(order) < offset + Size + 1
                                           THEN Len(order) ELSE offset + Size + 1)
      more == Len(fetched) > Size
  IN  [rows |-> IF more THEN SubSeq(fetched, 1, Size) ELSE fetched,
       offset |-> offset,
       next |-> IF more THEN Encode(offset + Size) ELSE NoCursor,
       prev |-> IF offset > 0 THEN Encode(IF offset > Size THEN offset - Size ELSE 0)
                ELSE NoCursor,
       walk |-> walk]

Shows(p, r) == r \in {p.rows[i] : i \in DOMAIN p.rows}

\* A first page begins a walk; next pages continue it, any other move ends it.
Begin(p) == /\ seen' = [r \in Rows |-> IF Shows(p, r) THEN 1 ELSE 0]
            /\ there' = list /\ wrote' = {}
Continue(p) == /\ seen' = [r \in Rows |-> IF Shows(p, r) THEN seen[r] + 1 ELSE seen[r]]
               /\ UNCHANGED <<there, wrote>>
Stray == seen' = [r \in Rows |-> 0] /\ there' = {} /\ wrote' = {}

Start ==
  /\ \E order \in Orders : page' = Assembled(order, 0, TRUE)
  /\ Begin(page')
  /\ UNCHANGED <<list, writes>>

FollowNext ==
  /\ page.next # NoCursor
  /\ \E order \in Orders : page' = Assembled(order, Resolve(page.next), page.walk)
  /\ IF page.walk THEN Continue(page') ELSE Stray
  /\ UNCHANGED <<list, writes>>

FollowPrev ==
  /\ page.prev # NoCursor
  /\ \E order \in Orders : page' = Assembled(order, Resolve(page.prev), FALSE)
  /\ Stray
  /\ UNCHANGED <<list, writes>>

OpenBookmark ==
  /\ \E c \in Bookmarks, order \in Orders : page' = Assembled(order, Resolve(c), Resolve(c) = 0)
  /\ IF page'.walk THEN Begin(page') ELSE Stray
  /\ UNCHANGED <<list, writes>>

Insert(r) ==
  /\ r \notin list /\ writes < MaxWrites
  /\ list' = list \cup {r} /\ writes' = writes + 1
  /\ wrote' = wrote \cup {"insert"}
  /\ UNCHANGED <<page, seen, there>>

Delete(r) ==
  /\ r \in list /\ writes < MaxWrites
  /\ list' = list \ {r} /\ writes' = writes + 1
  /\ wrote' = wrote \cup {"delete"} /\ there' = there \ {r}
  /\ UNCHANGED <<page, seen>>

PagesInit ==
  /\ list \in SUBSET Rows
  /\ page = NoPage /\ seen = [r \in Rows |-> 0]
  /\ there = {} /\ wrote = {} /\ writes = 0

PagesNext ==
  \/ Start \/ FollowNext \/ FollowPrev \/ OpenBookmark
  \/ \E r \in Rows : Insert(r)
  \/ \E r \in Rows : Delete(r)

PagesSpec == PagesInit /\ [][PagesNext]_pages

-----------------------------------------------------------------------------
(* Whoever follows the next links from the first page to the last has seen *)
(* every row that was there all along, unless rows were deleted meanwhile, *)
(* and none twice, unless rows were inserted (pagination.rs; the index     *)
(* handlers of companies, contacts and deals).                             *)
EveryRowOnce ==
  page.walk =>
    /\ "insert" \notin wrote => \A r \in Rows : seen[r] <= 1
    /\ page.next = NoCursor /\ "delete" \notin wrote => \A r \in there : seen[r] >= 1

(* Going back skips nothing: while the list stays as it is, the page that  *)
(* prev leads to reaches up to where the present one begins, also from a   *)
(* bookmarked offset that no walk stops at (pagination.rs: assemble).      *)
BackSkipsNothing ==
  [][FollowPrev /\ wrote = {} /\ page.offset <= Cardinality(list) =>
       page'.offset + Len(page'.rows) >= page.offset]_pages
=============================================================================
