----------------------------- MODULE ViewsProofs -----------------------------
(* Theorems about what a page shows of tables that change: Pages, for every  *)
(* table, list, page size, bookmark and number of writes, Dashboard, for any *)
(* deals, stages and writes between its queries, and Search, for any terms.  *)
EXTENDS Pages, Dashboard, Search, Briefings, Loops

-----------------------------------------------------------------------------
(* Whoever walks forward needs rows that the sort column tells apart: with   *)
(* ties the query may order them anew for every page, and the walk misses    *)
(* rows (the run pages_ties).                                                *)

\* No two rows share the value of the sort column.
Distinct == \A q, r \in Rows : Key[q] = Key[r] => q = r

Total == Cardinality(list)
Below(r) == {q \in list : Key[q] < Key[r]}
Rank(r) == Cardinality(Below(r))

\* How many rows a page at this offset shows.
ShownAt(offset) == IF Total <= offset THEN 0
                 ELSE IF Total - offset < Size THEN Total - offset ELSE Size
Back(offset) == IF offset > Size THEN offset - Size ELSE 0

\* What PagesInstance says of the constants.
LEMMA Sizes == ASSUME PagesInstance PROVE Size \in Nat /\ Size > 0
  <1>1. Size \in Nat \ {0} BY DEF PagesInstance
  <1> QED BY <1>1

LEMMA Keys == ASSUME PagesInstance PROVE IsFiniteSet(Rows) /\ \A r \in Rows : Key[r] \in Nat
  <1>1. Key \in [Rows -> Nat] BY DEF PagesInstance
  <1>2. IsFiniteSet(Rows) BY Zenon DEF PagesInstance
  <1> QED BY <1>1, <1>2

\* A cursor of this list leads to the offset it was minted with; any other one
\* leads somewhere.
LEMMA Resolved ==
  ASSUME PagesInstance, NEW offset \in Nat
  PROVE  Resolve(Encode(offset)) = offset /\ Encode(offset) # NoCursor
  <1>1. PICK c : c = Encode(offset) OBVIOUS
  <1>2. c = <<"v1", Sort.field, Sort.direction, offset>> BY <1>1 DEF Encode
  <1>3. Len(c) = 4 /\ c[1] = "v1" /\ c[2] = Sort.field /\ c[3] = Sort.direction /\ c[4] = offset
    BY <1>2
  <1>4. Decodes(c) /\ Matches(c) BY <1>3 DEF Decodes, Matches, PagesInstance
  <1>5. c # <<>> BY <1>2
  <1> QED BY <1>1, <1>3, <1>4, <1>5 DEF Resolve, NoCursor

LEMMA ResolvesToNat ==
  ASSUME NEW c PROVE Resolve(c) \in Nat
  BY DEF Resolve, Decodes

\* A query returns the rows of the list, each once.
LEMMA OrderListsRows ==
  ASSUME PagesInstance, list \subseteq Rows, NEW order \in Orders
  PROVE  /\ Total \in Nat
         /\ order \in [1 .. Total -> list] /\ order \in Seq(Rows) /\ Len(order) = Total
         /\ \A i, j \in 1 .. Total : order[i] = order[j] => i = j
         /\ \A r \in list : \E i \in 1 .. Total : order[i] = r
  <1>1. IsFiniteSet(list) /\ Total \in Nat
    BY FS_Subset, FS_CardinalityType DEF PagesInstance, Total
  <1>2. order \in [1 .. Total -> list] /\ \A i, j \in 1 .. Total : i # j => order[i] # order[j]
    BY DEF Orders, SetToSeqs, Total
  <1>3. order \in Injection(1 .. Total, list)
    BY <1>2 DEF Injection, IsInjective
  <1>4. Cardinality(1 .. Total) = Total /\ IsFiniteSet(1 .. Total)
    BY <1>1, FS_Interval
  <1>5. order \in Surjection(1 .. Total, list)
    BY <1>1, <1>3, <1>4, FS_Injection DEF Total
  <1>6. \A r \in list : \E i \in 1 .. Total : order[i] = r
    BY <1>5 DEF Surjection
  <1>7. order \in Seq(Rows) /\ Len(order) = Total
    BY <1>1, <1>2
  <1> QED BY <1>1, <1>2, <1>6, <1>7

\* Without namesakes the place of a row is the number of rows below it.
LEMMA PlaceIsRank ==
  ASSUME PagesInstance, Distinct, list \subseteq Rows, NEW order \in Orders, NEW i \in 1 .. Total
  PROVE  Rank(order[i]) = i - 1
  <1> DEFINE f == [j \in 1 .. (i - 1) |-> order[j]]
             S == Below(order[i])
  <1>1. /\ Total \in Nat /\ order \in [1 .. Total -> list]
        /\ \A k, j \in 1 .. Total : order[k] = order[j] => k = j
        /\ \A r \in list : \E j \in 1 .. Total : order[j] = r
        /\ DOMAIN order = 1 .. Total
    BY OrderListsRows
  <1>2. \A k, j \in 1 .. Total : k < j => Key[order[k]] <= Key[order[j]]
    BY <1>1 DEF Orders, Ordered
  <1>3. \A r \in list : Key[r] \in Nat BY DEF PagesInstance
  <1>4. \A j \in 1 .. (i - 1) : order[j] \in S
    <2> SUFFICES ASSUME NEW j \in 1 .. (i - 1) PROVE order[j] \in list /\ Key[order[j]] < Key[order[i]]
      BY DEF Below
    <2>1. j \in 1 .. Total /\ j < i BY <1>1
    <2>2. Key[order[j]] <= Key[order[i]] /\ order[j] # order[i] BY <1>1, <1>2, <2>1
    <2>3. Key[order[j]] # Key[order[i]] BY <1>1, <2>1, <2>2 DEF Distinct
    <2> QED BY <1>1, <1>3, <2>1, <2>2, <2>3
  <1>5. \A r \in S : \E j \in 1 .. (i - 1) : order[j] = r
    <2> SUFFICES ASSUME NEW r \in list, Key[r] < Key[order[i]] PROVE \E j \in 1 .. (i - 1) : order[j] = r
      BY DEF Below
    <2>1. PICK j \in 1 .. Total : order[j] = r BY <1>1
    <2>2. ~ (i < j) BY <1>1, <1>2, <1>3, <2>1
    <2>3. i # j BY <1>3, <2>1
    <2> QED BY <1>1, <2>1, <2>2, <2>3
  <1>6. f \in [1 .. (i - 1) -> S] BY <1>4
  <1>7. \A k, j \in 1 .. (i - 1) : f[k] = f[j] => k = j BY <1>1
  <1>8. \A r \in S : \E j \in 1 .. (i - 1) : f[j] = r BY <1>5
  <1>9. f \in Bijection(1 .. (i - 1), S)
    <2> HIDE DEF f, S
    <2> QED BY <1>6, <1>7, <1>8 DEF Bijection, Injection, IsInjective, Surjection
  <1>10. ExistsBijection(1 .. (i - 1), S) BY <1>9 DEF ExistsBijection
  <1>11. i - 1 \in Nat BY <1>1
  <1> HIDE DEF S
  <1>12. Cardinality(S) = i - 1 BY <1>10, <1>11, FS_CountingElements
  <1> QED BY <1>12 DEF S, Rank

\* The rows of a page, and where its links lead.
LEMMA PageShows ==
  ASSUME PagesInstance, list \subseteq Rows, NEW order \in Orders, NEW offset \in Nat, NEW walk \in BOOLEAN
  PROVE  LET p == Assembled(order, offset, walk)
         IN  /\ p.offset = offset /\ p.walk = walk
             /\ Len(p.rows) = ShownAt(offset) /\ DOMAIN p.rows = 1 .. ShownAt(offset)
             /\ \A i \in 1 .. ShownAt(offset) : p.rows[i] = order[offset + i]
             /\ p.next = IF Total > offset + Size THEN Encode(offset + Size) ELSE NoCursor
             /\ p.prev = IF offset > 0 THEN Encode(Back(offset)) ELSE NoCursor
  <1> DEFINE end == IF Len(order) < offset + Size + 1 THEN Len(order) ELSE offset + Size + 1
             fetched == SubSeq(order, offset + 1, end)
             more == Len(fetched) > Size
             rows == IF more THEN SubSeq(fetched, 1, Size) ELSE fetched
  <1>1. Total \in Nat /\ order \in Seq(Rows) /\ Len(order) = Total BY OrderListsRows
  <1>2. Size \in Nat /\ Size > 0 BY Sizes
  <1>3. end \in Nat /\ end <= Len(order) /\ end = (IF Total < offset + Size + 1 THEN Total ELSE offset + Size + 1)
    BY <1>1, <1>2
  <1>4. /\ fetched \in Seq(Rows)
        /\ Len(fetched) = IF offset + 1 <= end THEN end - offset ELSE 0
        /\ \A i \in 1 .. Len(fetched) : fetched[i] = order[offset + i]
    <2> HIDE DEF end
    <2>1. CASE offset + 1 <= end
      BY <1>1, <1>3, <2>1, SubSeqProperties
    <2>2. CASE ~ (offset + 1 <= end)
      <3>1. fetched = << >> BY <1>1, <1>3, <2>2
      <3> HIDE DEF fetched
      <3>2. Len(fetched) = 0 /\ fetched \in Seq(Rows) BY <3>1
      <3>3. 1 .. Len(fetched) = {} BY <3>2
      <3> QED BY <2>2, <3>2, <3>3
    <2> QED BY <2>1, <2>2
  <1>5. more <=> Total > offset + Size
    <2> HIDE DEF fetched
    <2> QED BY <1>1, <1>2, <1>3, <1>4
  <1>6. /\ Len(rows) = ShownAt(offset) /\ DOMAIN rows = 1 .. ShownAt(offset)
        /\ \A i \in 1 .. ShownAt(offset) : rows[i] = order[offset + i]
    <2>1. CASE more
      <3>1. rows = SubSeq(fetched, 1, Size) BY <2>1
      <3>2. 1 \in 1 .. Len(fetched) /\ Size <= Len(fetched) /\ Len(fetched) \in Nat
        <4> HIDE DEF fetched
        <4> QED BY <1>2, <1>4, <2>1
      <3> HIDE DEF fetched, rows, more
      <3>3. /\ rows \in Seq(Rows) /\ Len(rows) = Size
            /\ \A i \in 1 .. Size : rows[i] = fetched[i]
        BY <1>2, <1>4, <3>1, <3>2, SubSeqProperties
      <3>4. ShownAt(offset) = Size BY <1>1, <1>2, <1>5, <2>1 DEF ShownAt
      <3>5. \A i \in 1 .. Size : fetched[i] = order[offset + i] BY <1>2, <1>4, <3>2
      <3> QED BY <3>3, <3>4, <3>5
    <2>2. CASE ~ more
      <3>1. rows = fetched BY <2>2
      <3> HIDE DEF fetched, rows, more, end
      <3>2. ShownAt(offset) = Len(fetched) BY <1>1, <1>2, <1>3, <1>4, <1>5, <2>2 DEF ShownAt
      <3> QED BY <1>4, <3>1, <3>2
    <2> QED BY <2>1, <2>2
  <1>7. Assembled(order, offset, walk)
          = [rows |-> rows, offset |-> offset,
             next |-> IF more THEN Encode(offset + Size) ELSE NoCursor,
             prev |-> IF offset > 0 THEN Encode(Back(offset)) ELSE NoCursor,
             walk |-> walk]
    BY DEF Assembled, Back
  <1> HIDE DEF rows, more
  <1> QED BY <1>5, <1>6, <1>7

\* A page shows the rows whose rank is in its window.
LEMMA RowsShown ==
  ASSUME PagesInstance, Distinct, list \subseteq Rows, NEW order \in Orders, NEW offset \in Nat,
         NEW walk \in BOOLEAN, NEW r \in Rows
  PROVE  Shows(Assembled(order, offset, walk), r)
           <=> r \in list /\ offset <= Rank(r) /\ Rank(r) < offset + Size
  <1> DEFINE p == Assembled(order, offset, walk)
  <1>1. /\ DOMAIN p.rows = 1 .. ShownAt(offset)
        /\ \A i \in 1 .. ShownAt(offset) : p.rows[i] = order[offset + i]
    BY PageShows
  <1> HIDE DEF p
  <1>2. /\ Total \in Nat /\ Size \in Nat /\ order \in [1 .. Total -> list]
        /\ \A q \in list : \E i \in 1 .. Total : order[i] = q
    BY OrderListsRows DEF PagesInstance
  <1>3. \A i \in 1 .. Total : Rank(order[i]) = i - 1 BY PlaceIsRank
  <1>4. Shows(p, r) <=> \E i \in 1 .. ShownAt(offset) : order[offset + i] = r
    BY <1>1 DEF Shows
  <1>5. ASSUME NEW i \in 1 .. ShownAt(offset), order[offset + i] = r
        PROVE  r \in list /\ offset <= Rank(r) /\ Rank(r) < offset + Size
    <2>1. offset + i \in 1 .. Total /\ i <= Size /\ i >= 1 BY <1>2 DEF ShownAt
    <2>2. Rank(r) = offset + i - 1 BY <1>3, <1>5, <2>1
    <2> QED BY <1>2, <1>5, <2>1, <2>2
  <1>6. ASSUME r \in list, offset <= Rank(r), Rank(r) < offset + Size
        PROVE  \E i \in 1 .. ShownAt(offset) : order[offset + i] = r
    <2>1. PICK j \in 1 .. Total : order[j] = r BY <1>2, <1>6
    <2>2. Rank(r) = j - 1 BY <1>3, <2>1
    <2>3. j - offset \in 1 .. ShownAt(offset) BY <1>2, <1>6, <2>2 DEF ShownAt
    <2>4. offset + (j - offset) = j BY <1>2
    <2> QED BY <2>1, <2>3, <2>4
  <1> QED BY <1>4, <1>5, <1>6 DEF p

-----------------------------------------------------------------------------
(* The inductive invariant.  A page knows its offset and its links follow    *)
(* from it.  On a walk, and while nothing was inserted, a row that was shown *)
(* lies before the end of the page; while nothing was deleted, a row not yet *)
(* shown lies after it, and there is a next page.                            *)

Bookmarked ==
  /\ list \subseteq Rows /\ there \subseteq list /\ seen \in [Rows -> Nat]
  /\ page.offset \in Nat /\ page.walk \in BOOLEAN
  /\ page.next # NoCursor => page.next = Encode(page.offset + Size)
  /\ page.prev # NoCursor => page.offset > 0 /\ page.prev = Encode(Back(page.offset))

NoneTwice ==
  "insert" \notin wrote =>
    \A r \in Rows : /\ seen[r] <= 1
                    /\ r \in list /\ seen[r] # 0 => Rank(r) < page.offset + Size

NoneMissed ==
  "delete" \notin wrote =>
    \A r \in there : seen[r] = 0 => page.next # NoCursor /\ Rank(r) >= page.offset + Size

PagesInv == Bookmarked /\ (page.walk => NoneTwice /\ NoneMissed)

\* Before the first page.
LEMMA PagesInitially == ASSUME PagesInit, PagesInstance PROVE PagesInv
  BY DEF PagesInit, PagesInv, Bookmarked, NoPage, NoCursor

\* What every request for a page leaves on the screen.
LEMMA NewPage ==
  ASSUME PagesInstance, list \subseteq Rows, NEW order \in Orders, NEW offset \in Nat, NEW walk \in BOOLEAN,
         page' = Assembled(order, offset, walk), UNCHANGED list
  PROVE  /\ page'.offset = offset /\ page'.walk = walk
         /\ page'.next # NoCursor => page'.next = Encode(page'.offset + Size)
         /\ page'.prev # NoCursor => page'.offset > 0 /\ page'.prev = Encode(Back(page'.offset))
         /\ page'.next = NoCursor <=> Total <= offset + Size
  <1>1. /\ page'.offset = offset /\ page'.walk = walk
        /\ page'.next = IF Total > offset + Size THEN Encode(offset + Size) ELSE NoCursor
        /\ page'.prev = IF offset > 0 THEN Encode(Back(offset)) ELSE NoCursor
    BY PageShows
  <1>2. Total \in Nat /\ Size \in Nat BY OrderListsRows DEF PagesInstance
  <1>3. Encode(offset + Size) # NoCursor BY <1>2, Resolved
  <1> QED BY <1>1, <1>2, <1>3

\* The rank of a row that is in the list.
LEMMA RankBound ==
  ASSUME PagesInstance, list \subseteq Rows, NEW r \in list
  PROVE  Total \in Nat /\ Rank(r) \in Nat /\ Rank(r) < Total
  <1>1. IsFiniteSet(list) BY FS_Subset DEF PagesInstance
  <1>2. Below(r) \subseteq list /\ r \notin Below(r)
    BY Keys DEF Below
  <1>3. /\ IsFiniteSet(Below(r)) /\ Cardinality(Below(r)) <= Cardinality(list)
        /\ Cardinality(list) = Cardinality(Below(r)) => list = Below(r)
    BY <1>1, <1>2, FS_Subset
  <1>4. Cardinality(list) \in Nat /\ Cardinality(Below(r)) \in Nat
    BY <1>1, <1>3, FS_CardinalityType
  <1> QED BY <1>2, <1>3, <1>4 DEF Total, Rank

\* The first page, a page off the walk, and a page further on it.
LEMMA WalkBegins ==
  ASSUME PagesInstance, Distinct, Bookmarked, NEW order \in Orders,
         page' = Assembled(order, 0, TRUE), Begin(page'), UNCHANGED list
  PROVE  PagesInv'
  <1>1. list \subseteq Rows BY DEF Bookmarked
  <1>b. PICK offset \in Nat : offset = 0 OBVIOUS
  <1>2. /\ page'.offset = offset /\ page'.walk = TRUE
        /\ page'.next # NoCursor => page'.next = Encode(page'.offset + Size)
        /\ page'.prev # NoCursor => page'.offset > 0 /\ page'.prev = Encode(Back(page'.offset))
        /\ page'.next = NoCursor <=> Total <= offset + Size
    BY <1>1, <1>b, NewPage
  <1>3. \A r \in Rows : Shows(page', r) <=> r \in list /\ offset <= Rank(r) /\ Rank(r) < offset + Size
    BY <1>1, <1>b, RowsShown
  <1>4. /\ seen' = [r \in Rows |-> IF Shows(page', r) THEN 1 ELSE 0]
        /\ there' = list /\ wrote' = {} /\ list' = list
    BY DEF Begin
  <1>0. seen' \in [Rows -> Nat] BY <1>4
  <1>5. Bookmarked' BY <1>1, <1>2, <1>4, <1>0 DEF Bookmarked, Encode, Back
  <1>6. \A r : Rank(r)' = Rank(r) BY DEF Rank, Below
  <1>7. Size \in Nat BY Sizes
  <1>8. \A r \in list : Total \in Nat /\ Rank(r) \in Nat /\ Rank(r) < Total BY <1>1, RankBound
  <1>9. NoneTwice'
    <2> SUFFICES ASSUME NEW r \in Rows
                 PROVE  seen'[r] <= 1 /\ (r \in list /\ seen'[r] # 0 => Rank(r) < offset + Size)
      BY <1>2, <1>4, <1>6 DEF NoneTwice
    <2>1. CASE Shows(page', r)
      <3>1. seen'[r] = 1 BY <1>4, <2>1
      <3>2. Rank(r) < offset + Size BY <1>3, <2>1, Zenon
      <3> QED BY <3>1, <3>2
    <2>2. CASE ~ Shows(page', r)
      <3>1. seen'[r] = 0 BY <1>4, <2>2
      <3> QED BY <3>1
    <2> QED BY <2>1, <2>2
  <1>10. NoneMissed'
    <2> SUFFICES ASSUME NEW r \in list, seen'[r] = 0
                 PROVE  page'.next # NoCursor /\ Rank(r) >= offset + Size
      BY <1>2, <1>4, <1>6 DEF NoneMissed
    <2>1. r \in Rows /\ ~ Shows(page', r)
      <3>1. r \in Rows BY <1>1
      <3>2. ASSUME Shows(page', r) PROVE FALSE
        <4>1. seen'[r] = 1 BY <1>4, <3>1, <3>2
        <4> QED BY <4>1
      <3> QED BY <3>1, <3>2
    <2>2. Rank(r) >= Size /\ Rank(r) < Total
      <3>1. ~ (offset <= Rank(r) /\ Rank(r) < offset + Size) BY <1>3, <2>1, Zenon
      <3> QED BY <1>b, <1>7, <1>8, <3>1
    <2>3. ~ (Total <= offset + Size) BY <1>b, <1>7, <1>8, <2>2
    <2>4. page'.next # NoCursor BY <1>2, <2>3, Zenon
    <2>5. Rank(r) >= offset + Size BY <1>b, <1>7, <1>8, <2>2
    <2> QED BY <2>4, <2>5, Zenon
  <1> QED BY <1>5, <1>9, <1>10 DEF PagesInv

LEMMA WalkStops ==
  ASSUME PagesInstance, Bookmarked, NEW order \in Orders, NEW offset \in Nat, NEW walk \in BOOLEAN,
         page' = Assembled(order, offset, walk), walk = FALSE, Stray, UNCHANGED list
  PROVE  PagesInv'
  <1>1. list \subseteq Rows BY DEF Bookmarked
  <1>2. /\ page'.offset = offset /\ page'.walk = walk
        /\ page'.next # NoCursor => page'.next = Encode(page'.offset + Size)
        /\ page'.prev # NoCursor => page'.offset > 0 /\ page'.prev = Encode(Back(page'.offset))
    BY <1>1, NewPage
  <1>3. seen' = [r \in Rows |-> 0] /\ there' = {} BY DEF Stray
  <1>4. Bookmarked' BY <1>1, <1>2, <1>3 DEF Bookmarked
  <1> QED BY <1>2, <1>4 DEF PagesInv

LEMMA WalkContinues ==
  ASSUME PagesInstance, Distinct, PagesInv, page.walk, page.next # NoCursor, NEW order \in Orders,
         page' = Assembled(order, page.offset + Size, TRUE), Continue(page'), UNCHANGED list
  PROVE  PagesInv'
  <1>1. /\ list \subseteq Rows /\ there \subseteq list /\ seen \in [Rows -> Nat] /\ page.offset \in Nat
        /\ NoneTwice /\ NoneMissed
    BY DEF PagesInv, Bookmarked
  <1>2. PICK offset \in Nat : offset = page.offset + Size BY <1>1, Sizes
  <1>3. /\ page'.offset = offset /\ page'.walk = TRUE
        /\ page'.next # NoCursor => page'.next = Encode(page'.offset + Size)
        /\ page'.prev # NoCursor => page'.offset > 0 /\ page'.prev = Encode(Back(page'.offset))
        /\ page'.next = NoCursor <=> Total <= offset + Size
    BY <1>1, <1>2, NewPage
  <1>4. \A r \in Rows : Shows(page', r) <=> r \in list /\ offset <= Rank(r) /\ Rank(r) < offset + Size
    BY <1>1, <1>2, RowsShown
  <1>5. /\ seen' = [r \in Rows |-> IF Shows(page', r) THEN seen[r] + 1 ELSE seen[r]]
        /\ there' = there /\ wrote' = wrote /\ list' = list
    BY DEF Continue
  <1>6. seen' \in [Rows -> Nat]
    <2>1. \A r \in Rows : seen[r] \in Nat /\ seen[r] + 1 \in Nat BY <1>1
    <2> QED BY <1>5, <2>1
  <1>7. Bookmarked' BY <1>1, <1>3, <1>5, <1>6 DEF Bookmarked, Encode, Back
  <1>8. \A r : Rank(r)' = Rank(r) BY <1>5 DEF Rank, Below
  <1>9. Size \in Nat BY Sizes
  <1>10. \A r \in list : Total \in Nat /\ Rank(r) \in Nat /\ Rank(r) < Total BY <1>1, RankBound
  <1>11. NoneTwice'
    <2> SUFFICES ASSUME "insert" \notin wrote, NEW r \in Rows
                 PROVE  /\ seen'[r] <= 1
                        /\ r \in list /\ seen'[r] # 0 => Rank(r) < offset + Size
      BY <1>3, <1>5, <1>8 DEF NoneTwice
    <2>1. seen[r] \in Nat /\ seen[r] <= 1 /\ (r \in list /\ seen[r] # 0 => Rank(r) < offset)
      BY <1>1, <1>2 DEF NoneTwice
    <2>2. CASE Shows(page', r)
      <3>1. r \in list /\ offset <= Rank(r) /\ Rank(r) < offset + Size BY <1>4, <2>2
      <3>2. seen[r] = 0 BY <1>10, <2>1, <3>1
      <3> QED BY <1>5, <2>2, <3>1, <3>2
    <2>3. CASE ~ Shows(page', r)
      <3>1. seen'[r] = seen[r] BY <1>5, <2>3
      <3> QED BY <1>9, <1>10, <2>1, <3>1
    <2> QED BY <2>2, <2>3
  <1>12. NoneMissed'
    <2> SUFFICES ASSUME "delete" \notin wrote, NEW r \in there, seen'[r] = 0
                 PROVE  page'.next # NoCursor /\ Rank(r) >= offset + Size
      BY <1>3, <1>5, <1>8 DEF NoneMissed
    <2>1. r \in Rows /\ r \in list /\ seen[r] \in Nat BY <1>1
    <2>2. ~ Shows(page', r) /\ seen[r] = 0
      <3>1. ASSUME Shows(page', r) PROVE FALSE
        <4>1. seen'[r] = seen[r] + 1 BY <1>5, <2>1, <3>1
        <4> QED BY <2>1, <4>1
      <3>2. seen'[r] = seen[r] BY <1>5, <2>1, <3>1
      <3> QED BY <3>1, <3>2
    <2>3. Rank(r) >= offset BY <1>1, <1>2, <2>2 DEF NoneMissed
    <2>4. Rank(r) >= offset + Size
      <3>1. ~ (offset <= Rank(r) /\ Rank(r) < offset + Size) BY <1>4, <2>1, <2>2, Zenon
      <3> QED BY <1>9, <1>10, <2>1, <2>3, <3>1
    <2>5. ~ (Total <= offset + Size) BY <1>9, <1>10, <2>1, <2>4
    <2> QED BY <1>3, <2>4, <2>5
  <1> QED BY <1>7, <1>11, <1>12 DEF PagesInv

\* Inserting a row raises ranks and deleting one lowers them, so each writes off
\* one half of the invariant.
LEMMA PagesStep ==
  ASSUME PagesInstance, Distinct, PagesInv, [PagesNext]_pages PROVE PagesInv'
  <1> USE DEF PagesInv
  <1>1. CASE Start
    BY <1>1, WalkBegins DEF Start
  <1>2. CASE FollowNext
    <2>1. PICK order \in Orders : page' = Assembled(order, Resolve(page.next), page.walk)
      BY <1>2 DEF FollowNext
    <2>2. page.next # NoCursor /\ UNCHANGED list /\ (IF page.walk THEN Continue(page') ELSE Stray)
      BY <1>2 DEF FollowNext
    <2>3. page.offset + Size \in Nat /\ Resolve(page.next) = page.offset + Size
      <3>1. page.offset \in Nat /\ page.next = Encode(page.offset + Size) BY <2>2 DEF Bookmarked
      <3>2. page.offset + Size \in Nat BY <3>1, Sizes
      <3> QED BY <3>1, <3>2, Resolved
    <2>4. CASE page.walk
      <3>1. page.walk = TRUE BY <2>4 DEF Bookmarked
      <3> QED BY <2>1, <2>2, <2>3, <2>4, <3>1, WalkContinues
    <2>5. CASE ~ page.walk
      <3>1. page.walk = FALSE BY <2>5 DEF Bookmarked
      <3> QED BY <2>1, <2>2, <2>3, <3>1, WalkStops
    <2> QED BY <2>4, <2>5
  <1>3. CASE FollowPrev
    BY <1>3, ResolvesToNat, WalkStops DEF FollowPrev
  <1>4. CASE OpenBookmark
    <2>1. PICK c \in Bookmarks, order \in Orders :
            page' = Assembled(order, Resolve(c), Resolve(c) = 0)
      BY <1>4 DEF OpenBookmark
    <2>2. UNCHANGED list /\ (IF page'.walk THEN Begin(page') ELSE Stray)
      BY <1>4 DEF OpenBookmark
    <2>3. PICK offset \in Nat : offset = Resolve(c) BY ResolvesToNat
    <2>4. page'.walk = (offset = 0)
      <3>1. (offset = 0) \in BOOLEAN OBVIOUS
      <3> QED BY <2>1, <2>2, <2>3, <3>1, NewPage DEF Bookmarked
    <2>5. CASE offset = 0
      <3>1. (offset = 0) = TRUE BY <2>5
      <3> QED BY <2>1, <2>2, <2>3, <2>4, <2>5, <3>1, WalkBegins
    <2>6. CASE offset # 0
      <3>1. (offset = 0) = FALSE BY <2>6
      <3> QED BY <2>1, <2>2, <2>3, <2>4, <3>1, WalkStops
    <2> QED BY <2>5, <2>6
  <1>5. ASSUME NEW r \in Rows, Insert(r) PROVE PagesInv'
    <2>1. /\ list' = list \cup {r} /\ wrote' = wrote \cup {"insert"}
          /\ UNCHANGED <<page, seen, there>>
      BY <1>5 DEF Insert
    <2>2. Bookmarked' BY <2>1 DEF Bookmarked
    <2>3. ASSUME NEW q \in list PROVE Rank(q)' >= Rank(q) /\ Rank(q) \in Nat /\ Rank(q)' \in Nat
      <3>1. list' \subseteq Rows BY <2>1 DEF Bookmarked
      <3>2. IsFiniteSet(Below(q)') BY <3>1, FS_Subset DEF Below, PagesInstance
      <3>3. Below(q) \subseteq Below(q)' BY <2>1 DEF Below
      <3> QED BY <3>2, <3>3, FS_Subset, FS_CardinalityType DEF Rank
    <2>4. page.walk => NoneMissed'
      <3> SUFFICES ASSUME NoneMissed, "delete" \notin wrote, NEW q \in there, seen[q] = 0
                   PROVE  page.next # NoCursor /\ Rank(q)' >= page.offset + Size
        BY <2>1 DEF NoneMissed
      <3>1. q \in list /\ page.offset \in Nat /\ Size \in Nat BY DEF Bookmarked, PagesInstance
      <3>2. page.next # NoCursor /\ Rank(q) >= page.offset + Size BY DEF NoneMissed
      <3> QED BY <2>3, <3>1, <3>2
    <2>5. NoneTwice' BY <2>1 DEF NoneTwice
    <2> QED BY <2>1, <2>2, <2>4, <2>5
  <1>6. ASSUME NEW r \in Rows, Delete(r) PROVE PagesInv'
    <2>1. /\ list' = list \ {r} /\ there' = there \ {r} /\ wrote' = wrote \cup {"delete"}
          /\ UNCHANGED <<page, seen>>
      BY <1>6 DEF Delete
    <2>2. Bookmarked' BY <2>1 DEF Bookmarked
    <2>3. ASSUME NEW q \in Rows PROVE Rank(q)' <= Rank(q) /\ Rank(q) \in Nat /\ Rank(q)' \in Nat
      <3>1. IsFiniteSet(Below(q)) BY FS_Subset DEF Below, PagesInstance, Bookmarked
      <3>2. Below(q)' \subseteq Below(q) BY <2>1 DEF Below
      <3> QED BY <3>1, <3>2, FS_Subset, FS_CardinalityType DEF Rank
    <2>4. page.walk => NoneTwice'
      <3> SUFFICES ASSUME NoneTwice, "insert" \notin wrote, NEW q \in Rows
                   PROVE  /\ seen[q] <= 1
                          /\ q \in list' /\ seen[q] # 0 => Rank(q)' < page.offset + Size
        BY <2>1 DEF NoneTwice
      <3>1. page.offset \in Nat /\ Size \in Nat BY DEF Bookmarked, PagesInstance
      <3>2. seen[q] <= 1 /\ (q \in list /\ seen[q] # 0 => Rank(q) < page.offset + Size)
        BY DEF NoneTwice
      <3> QED BY <2>1, <2>3, <3>1, <3>2
    <2>5. NoneMissed' BY <2>1 DEF NoneMissed
    <2> QED BY <2>1, <2>2, <2>4, <2>5
  <1>7. CASE UNCHANGED pages
    BY <1>7 DEF pages, Bookmarked, NoneTwice, NoneMissed, Rank, Below
  <1> QED BY <1>1, <1>2, <1>3, <1>4, <1>5, <1>6, <1>7 DEF PagesNext

(* Whoever follows the next links from the first page to the last has seen   *)
(* every row that was there all along, unless rows were deleted meanwhile,   *)
(* and none twice, unless rows were inserted, where no two rows share the    *)
(* value they are sorted by (pagination.rs; the index handlers of companies, *)
(* contacts and deals).                                                      *)
THEOREM WalksEveryRow ==
  ASSUME PagesInstance, Distinct PROVE PagesSpec => []EveryRowOnce
  <1>1. PagesInv => EveryRowOnce
    <2> SUFFICES ASSUME PagesInv, page.walk
                 PROVE  /\ "insert" \notin wrote => \A r \in Rows : seen[r] <= 1
                        /\ page.next = NoCursor /\ "delete" \notin wrote =>
                             \A r \in there : seen[r] >= 1
      BY DEF EveryRowOnce
    <2>1. NoneTwice /\ NoneMissed /\ Bookmarked BY DEF PagesInv
    <2>2. "insert" \notin wrote => \A r \in Rows : seen[r] <= 1 BY <2>1 DEF NoneTwice
    <2>3. page.next = NoCursor /\ "delete" \notin wrote => \A r \in there : seen[r] >= 1
      BY <2>1 DEF NoneMissed, Bookmarked
    <2> QED BY <2>2, <2>3
  <1> QED BY <1>1, PagesInitially, PagesStep, PTL DEF PagesSpec

\* The cursors of a page do not depend on which order the query chose.
LEMMA BookmarkedStep ==
  ASSUME PagesInstance, Bookmarked, [PagesNext]_pages PROVE Bookmarked'
  <1> DEFINE Linked(p) ==
        /\ p.offset \in Nat /\ p.walk \in BOOLEAN
        /\ p.next # NoCursor => p.next = Encode(p.offset + Size)
        /\ p.prev # NoCursor => p.offset > 0 /\ p.prev = Encode(Back(p.offset))
  <1>1. list \subseteq Rows /\ there \subseteq list /\ seen \in [Rows -> Nat] /\ Linked(page)
    BY DEF Bookmarked
  <1>2. ASSUME NEW order \in Orders, NEW offset \in Nat, NEW walk \in BOOLEAN,
               page' = Assembled(order, offset, walk), UNCHANGED list
        PROVE  Linked(page')
    <2>1. /\ page'.offset = offset /\ page'.walk = walk
          /\ page'.next # NoCursor => page'.next = Encode(page'.offset + Size)
          /\ page'.prev # NoCursor => page'.offset > 0 /\ page'.prev = Encode(Back(page'.offset))
      BY <1>1, <1>2, NewPage
    <2> QED BY <2>1
  <1>3. ASSUME Begin(page') \/ Continue(page') \/ Stray, UNCHANGED list
        PROVE  there' \subseteq list /\ seen' \in [Rows -> Nat]
    <2>1. \A r \in Rows : seen[r] \in Nat /\ seen[r] + 1 \in Nat BY <1>1
    <2>2. CASE Begin(page') BY <2>2 DEF Begin
    <2>3. CASE Continue(page') BY <1>1, <2>1, <2>3 DEF Continue
    <2>4. CASE Stray BY <2>4 DEF Stray
    <2> QED BY <1>3, <2>2, <2>3, <2>4
  <1>4. ASSUME list' \subseteq Rows, there' \subseteq list', seen' \in [Rows -> Nat], Linked(page')
        PROVE  Bookmarked'
    BY <1>4 DEF Bookmarked, Encode, Back
  <1> HIDE DEF Linked
  <1>5. CASE Start
    <2>1. PICK order \in Orders : page' = Assembled(order, 0, TRUE) BY <1>5 DEF Start
    <2>2. Linked(page') /\ UNCHANGED list /\ Begin(page') BY <1>2, <1>5, <2>1 DEF Start
    <2> QED BY <1>1, <1>3, <1>4, <2>2
  <1>6. CASE FollowNext
    <2>1. PICK order \in Orders : page' = Assembled(order, Resolve(page.next), page.walk)
      BY <1>6 DEF FollowNext
    <2>2. page.walk \in BOOLEAN BY <1>1 DEF Linked
    <2>3. UNCHANGED list /\ (Continue(page') \/ Stray) BY <1>6 DEF FollowNext
    <2>4. Linked(page') BY <1>2, <2>1, <2>2, <2>3, ResolvesToNat
    <2> QED BY <1>1, <1>3, <1>4, <2>3, <2>4
  <1>7. CASE FollowPrev
    <2>1. PICK order \in Orders : page' = Assembled(order, Resolve(page.prev), FALSE)
      BY <1>7 DEF FollowPrev
    <2>2. UNCHANGED list /\ Stray BY <1>7 DEF FollowPrev
    <2>3. Linked(page') BY <1>2, <2>1, <2>2, ResolvesToNat
    <2> QED BY <1>1, <1>3, <1>4, <2>2, <2>3
  <1>8. CASE OpenBookmark
    <2>1. PICK c \in Bookmarks, order \in Orders :
            page' = Assembled(order, Resolve(c), Resolve(c) = 0)
      BY <1>8 DEF OpenBookmark
    <2>2. UNCHANGED list /\ (Begin(page') \/ Stray) BY <1>8 DEF OpenBookmark
    <2>3. Resolve(c) \in Nat /\ (Resolve(c) = 0) \in BOOLEAN BY ResolvesToNat
    <2>4. Linked(page') BY <1>2, <2>1, <2>2, <2>3
    <2> QED BY <1>1, <1>3, <1>4, <2>2, <2>4
  <1>9. ASSUME NEW r \in Rows, Insert(r) PROVE Bookmarked'
    BY <1>1, <1>4, <1>9 DEF Insert
  <1>10. ASSUME NEW r \in Rows, Delete(r) PROVE Bookmarked'
    BY <1>1, <1>4, <1>10 DEF Delete
  <1>11. CASE UNCHANGED pages
    BY <1>1, <1>4, <1>11 DEF pages
  <1> QED BY <1>5, <1>6, <1>7, <1>8, <1>9, <1>10, <1>11 DEF PagesNext

(* Going back skips nothing, from any offset within the list and in whatever *)
(* order a query returns rows that are tied (pagination.rs: assemble).       *)
THEOREM GoesBack == ASSUME PagesInstance PROVE PagesSpec => BackSkipsNothing
  <1>1. PagesInit => Bookmarked
    BY DEF PagesInit, Bookmarked, NoPage, NoCursor
  <1>2. ASSUME Bookmarked, FollowPrev, page.offset <= Cardinality(list)
        PROVE  page'.offset + Len(page'.rows) >= page.offset
    <2>1. PICK order \in Orders : page' = Assembled(order, Resolve(page.prev), FALSE)
      BY <1>2 DEF FollowPrev
    <2>2. /\ page.offset \in Nat /\ page.offset > 0 /\ page.prev = Encode(Back(page.offset))
          /\ list \subseteq Rows
      BY <1>2 DEF FollowPrev, Bookmarked
    <2>3. Size \in Nat /\ Size > 0 BY Sizes
    <2>4. Total \in Nat BY <2>2, OrderListsRows
    <2>5. PICK back \in Nat : back = Back(page.offset) BY <2>2, <2>3 DEF Back
    <2>6. Resolve(page.prev) = back BY <2>2, <2>5, Resolved
    <2>7. page'.offset = back /\ Len(page'.rows) = ShownAt(back)
      <3>1. page' = Assembled(order, back, FALSE) BY <2>1, <2>6
      <3>2. PICK walk \in BOOLEAN : walk = FALSE OBVIOUS
      <3>3. page' = Assembled(order, back, walk) BY <3>1, <3>2
      <3> QED BY <2>2, <3>3, PageShows
    <2>8. back + ShownAt(back) >= page.offset
      BY <1>2, <2>2, <2>3, <2>4, <2>5 DEF Back, ShownAt, Total
    <2> QED BY <2>7, <2>8
  <1>3. Bookmarked /\ [PagesNext]_pages =>
          [FollowPrev /\ wrote = {} /\ page.offset <= Cardinality(list) =>
             page'.offset + Len(page'.rows) >= page.offset]_pages
    BY <1>2
  <1> QED BY <1>1, <1>3, BookmarkedStep, PTL DEF PagesSpec, BackSkipsNothing

-----------------------------------------------------------------------------
(* Sums over finite sets, which SumOver computes by taking one element at a  *)
(* time, whichever CHOOSE finds.                                             *)

First(s) == CHOOSE y \in s : TRUE

\* What the fold defines: h adds f up over every subset of S.
AddsUp(f, S, h) ==
  h = [s \in SUBSET S |-> IF s = {} THEN 0 ELSE f[First(s)] + h[s \ {First(s)}]]

LEMMA AddsUpSomehow ==
  ASSUME NEW S, IsFiniteSet(S), NEW f, \A x \in S : f[x] \in Int
  PROVE  \E h \in [SUBSET S -> Int] : AddsUp(f, S, h)
<1> DEFINE Small(n) == {s \in SUBSET S : Cardinality(s) <= n}
           Sums(h, s) == h[s] = IF s = {} THEN 0 ELSE f[First(s)] + h[s \ {First(s)}]
           N == {n \in Nat : \E h \in [Small(n) -> Int] : \A s \in Small(n) : Sums(h, s)}
<1>1. \A s \in SUBSET S : IsFiniteSet(s) /\ Cardinality(s) \in Nat
  BY FS_Subset, FS_CardinalityType
<1>2. \A s \in SUBSET S : s # {} => /\ First(s) \in s /\ s \ {First(s)} \in SUBSET S
                                    /\ Cardinality(s \ {First(s)}) = Cardinality(s) - 1
  <2> SUFFICES ASSUME NEW s \in SUBSET S, s # {}
               PROVE  /\ First(s) \in s /\ s \ {First(s)} \in SUBSET S
                      /\ Cardinality(s \ {First(s)}) = Cardinality(s) - 1
    OBVIOUS
  <2>1. First(s) \in s BY DEF First
  <2>2. IsFiniteSet(s) BY <1>1
  <2> QED BY <2>1, <2>2, FS_RemoveElement
<1>3. 0 \in N
  <2> DEFINE h == [s \in Small(0) |-> 0]
  <2>1. \A s \in Small(0) : s = {} BY <1>1, FS_EmptySet
  <2>2. h \in [Small(0) -> Int] /\ \A s \in Small(0) : Sums(h, s) BY <2>1
  <2> QED BY <2>2
<1>4. ASSUME NEW n \in Nat, n \in N PROVE n + 1 \in N
  <2>1. PICK g \in [Small(n) -> Int] : \A s \in Small(n) : Sums(g, s) BY <1>4
  <2> DEFINE h == [s \in Small(n + 1) |-> IF s \in Small(n) THEN g[s]
                                          ELSE f[First(s)] + g[s \ {First(s)}]]
  <2>2. ASSUME NEW s \in Small(n + 1), s # {}
        PROVE  First(s) \in S /\ s \ {First(s)} \in Small(n)
    <3>1. s \in SUBSET S /\ Cardinality(s) <= n + 1 /\ Cardinality(s) \in Nat BY <1>1
    <3>2. First(s) \in s /\ s \ {First(s)} \in SUBSET S BY <1>2, <2>2, <3>1
    <3>3. Cardinality(s \ {First(s)}) = Cardinality(s) - 1 BY <1>2, <2>2, <3>1
    <3> QED BY <3>1, <3>2, <3>3
  <2>3. {} \in Small(n) BY FS_EmptySet
  <2>4. ASSUME NEW s \in Small(n + 1), s \notin Small(n) PROVE s # {} /\ h[s] \in Int
    <3>1. s # {} BY <2>3, <2>4
    <3>2. f[First(s)] \in Int /\ g[s \ {First(s)}] \in Int BY <2>2, <3>1
    <3>3. h[s] = f[First(s)] + g[s \ {First(s)}] BY <2>4
    <3> QED BY <3>1, <3>2, <3>3
  <2>5. h \in [Small(n + 1) -> Int] BY <2>4
  <2>6. \A s \in Small(n + 1) : Sums(h, s)
    <3> SUFFICES ASSUME NEW s \in Small(n + 1) PROVE Sums(h, s) OBVIOUS
    <3>1. Small(n) \subseteq Small(n + 1) BY <1>1
    <3>2. CASE s = {} BY <2>1, <2>3, <3>1, <3>2
    <3>3. CASE s # {}
      <4>1. h[s \ {First(s)}] = g[s \ {First(s)}] BY <2>2, <3>1, <3>3
      <4> QED BY <2>1, <3>1, <3>3, <4>1
    <3> QED BY <3>2, <3>3
  <2> HIDE DEF h, Small, Sums
  <2> QED BY <2>5, <2>6
<1> HIDE DEF N
<1>5. Cardinality(S) \in N BY <1>1, <1>3, <1>4, Induction
<1>6. Small(Cardinality(S)) = SUBSET S BY FS_Subset
<1>7. PICK h \in [SUBSET S -> Int] : \A s \in SUBSET S : Sums(h, s)
  BY <1>5, <1>6 DEF N
<1> QED BY <1>7 DEF AddsUp

\* The order in which elements are taken does not matter.
LEMMA AddsUpAnyhow ==
  ASSUME NEW S, IsFiniteSet(S), NEW f, \A x \in S : f[x] \in Int,
         NEW h, \A U \in SUBSET S : h[U] \in Int, AddsUp(f, S, h)
  PROVE  \A x \in S : h[S] = f[x] + h[S \ {x}]
<1> DEFINE P == {T \in SUBSET S : \A x \in T : h[T] = f[x] + h[T \ {x}]}
<1>1. ASSUME NEW T \in SUBSET S, \A x \in T : T \ {x} \in P PROVE T \in P
  <2> SUFFICES ASSUME NEW x \in T PROVE h[T] = f[x] + h[T \ {x}] OBVIOUS
  <2> DEFINE y == First(T)
  <2>1. y \in T BY DEF First
  <2>2. h[T] = f[y] + h[T \ {y}] BY DEF AddsUp
  <2>3. CASE x # y
    <3>1. h[T \ {y}] = f[x] + h[(T \ {y}) \ {x}] BY <1>1, <2>1, <2>3
    <3>2. h[T \ {x}] = f[y] + h[(T \ {x}) \ {y}] BY <1>1, <2>1, <2>3
    <3>3. (T \ {x}) \ {y} = (T \ {y}) \ {x} OBVIOUS
    <3>4. f[x] \in Int /\ f[y] \in Int /\ h[(T \ {y}) \ {x}] \in Int BY <2>1
    <3>5. h[T] = f[y] + (f[x] + h[(T \ {y}) \ {x}]) BY <2>2, <3>1
    <3>6. h[T \ {x}] = f[y] + h[(T \ {y}) \ {x}] BY <3>2, <3>3
    <3> HIDE DEF y
    <3> QED BY <3>4, <3>5, <3>6 \* <2>2, <3>1, <3>2, <3>3, <3>4
  <2> QED BY <2>2, <2>3
<1> HIDE DEF P
<1>2. S \in P BY <1>1, SetInduction
<1> QED BY <1>2 DEF P

\* Only what f is on the set matters.
LEMMA AddsUpAlike ==
  ASSUME NEW S, NEW T, NEW f, NEW g, NEW h, NEW k, AddsUp(f, S, h), AddsUp(g, T, k),
         NEW U \in SUBSET (S \cap T), IsFiniteSet(U), \A x \in U : f[x] = g[x]
  PROVE  h[U] = k[U]
<1> DEFINE P == {V \in SUBSET U : h[V] = k[V]}
<1>1. ASSUME NEW V \in SUBSET U, \A x \in V : V \ {x} \in P PROVE V \in P
  <2>1. V # {} => First(V) \in V BY DEF First
  <2>2. V \in SUBSET S /\ V \in SUBSET T OBVIOUS
  <2>3. h[V] = IF V = {} THEN 0 ELSE f[First(V)] + h[V \ {First(V)}] BY <2>2 DEF AddsUp
  <2>4. k[V] = IF V = {} THEN 0 ELSE g[First(V)] + k[V \ {First(V)}] BY <2>2 DEF AddsUp
  <2> QED BY <1>1, <2>1, <2>3, <2>4
<1> HIDE DEF P
<1>2. U \in P BY <1>1, SetInduction
<1> QED BY <1>2 DEF P

LEMMA SumIsAddedUp ==
  ASSUME NEW S, IsFiniteSet(S), NEW f, \A x \in S : f[x] \in Int
  PROVE  \E h \in [SUBSET S -> Int] : AddsUp(f, S, h) /\ SumOver(f, S) = h[S]
<1> DEFINE h == CHOOSE k : AddsUp(f, S, k)
<1>1. PICK k \in [SUBSET S -> Int] : AddsUp(f, S, k) BY AddsUpSomehow
<1>2. AddsUp(f, S, h) BY <1>1
<1>3. h \in [SUBSET S -> Int]
  <2>1. \A U \in SUBSET S : h[U] = k[U]
    BY <1>1, <1>2, AddsUpAlike, FS_Subset
  <2> QED BY <1>2, <2>1 DEF AddsUp
<1>4. SumOver(f, S) = h[S]
  BY DEF SumOver, MapThenSumSet, MapThenFoldSet, AddsUp, First
<1> QED BY <1>2, <1>3, <1>4

\* A sum is a number, nothing adds up to 0, and an element counts once.
LEMMA Sums ==
  ASSUME NEW S, IsFiniteSet(S), NEW f, \A x \in S : f[x] \in Int
  PROVE  /\ SumOver(f, S) \in Int
         /\ S = {} => SumOver(f, S) = 0
         /\ \A x \in S : SumOver(f, S) = f[x] + SumOver(f, S \ {x})
<1>1. PICK h \in [SUBSET S -> Int] : AddsUp(f, S, h) /\ SumOver(f, S) = h[S]
  BY SumIsAddedUp
<1>2. S = {} => h[S] = 0 BY <1>1 DEF AddsUp
<1>3. ASSUME NEW x \in S PROVE SumOver(f, S) = f[x] + SumOver(f, S \ {x})
  <2>1. IsFiniteSet(S \ {x}) BY FS_RemoveElement
  <2>2. PICK k : AddsUp(f, S \ {x}, k) /\ SumOver(f, S \ {x}) = k[S \ {x}]
    BY <2>1, SumIsAddedUp
  <2>3. h[S \ {x}] = k[S \ {x}]
    BY <1>1, <2>1, <2>2, AddsUpAlike
  <2>4. AddsUp(f, S, h) /\ \A U \in SUBSET S : h[U] \in Int BY <1>1
  <2>5. \A y \in S : h[S] = f[y] + h[S \ {y}] BY <2>4, AddsUpAnyhow
  <2> QED BY <1>1, <2>2, <2>3, <2>5
<1> QED BY <1>1, <1>2, <1>3

LEMMA SumsAlike ==
  ASSUME NEW S, IsFiniteSet(S), NEW f, NEW g, \A x \in S : f[x] \in Int /\ g[x] = f[x]
  PROVE  SumOver(f, S) = SumOver(g, S)
<1>1. PICK h : AddsUp(f, S, h) /\ SumOver(f, S) = h[S] BY SumIsAddedUp
<1>2. PICK k : AddsUp(g, S, k) /\ SumOver(g, S) = k[S] BY SumIsAddedUp
<1> QED BY <1>1, <1>2, AddsUpAlike

\* Sums of sets that have nothing in common.
LEMMA SumsTogether ==
  ASSUME NEW S, NEW T, IsFiniteSet(S), IsFiniteSet(T), S \cap T = {},
         NEW f, \A x \in S \cup T : f[x] \in Int
  PROVE  SumOver(f, S \cup T) = SumOver(f, S) + SumOver(f, T)
<1> DEFINE P == {U \in SUBSET T : SumOver(f, S \cup U) = SumOver(f, S) + SumOver(f, U)}
<1>1. ASSUME NEW U \in SUBSET T, \A x \in U : U \ {x} \in P PROVE U \in P
  <2>1. IsFiniteSet(U) /\ IsFiniteSet(S \cup U) BY FS_Subset, FS_Union
  <2>2. CASE U = {}
    <3>1. SumOver(f, U) = 0 /\ SumOver(f, S) \in Int BY <2>1, <2>2, Sums
    <3>2. SumOver(f, S \cup U) = SumOver(f, S)
      <4>1. S \cup U = S BY <2>2
      <4> QED BY <4>1, Zenon
    <3> HIDE DEF P
    <3>3. SumOver(f, S \cup U) = SumOver(f, S) + SumOver(f, U) BY <3>1, <3>2
    <3> QED BY <3>3 DEF P
  <2>3. ASSUME NEW x \in U PROVE U \in P
    <3>1. SumOver(f, U) = f[x] + SumOver(f, U \ {x}) BY <2>1, Sums
    <3>2. SumOver(f, S \cup U) = f[x] + SumOver(f, (S \cup U) \ {x}) BY <2>1, Sums
    <3>3. SumOver(f, (S \cup U) \ {x}) = SumOver(f, S \cup (U \ {x}))
      <4>1. (S \cup U) \ {x} = S \cup (U \ {x}) BY <2>3
      <4> QED BY <4>1, Zenon
    <3>4. SumOver(f, S \cup (U \ {x})) = SumOver(f, S) + SumOver(f, U \ {x}) BY <1>1
    <3>5. IsFiniteSet(U \ {x}) BY <2>1, FS_RemoveElement
    <3>6. f[x] \in Int /\ SumOver(f, S) \in Int /\ SumOver(f, U \ {x}) \in Int BY <3>5, Sums
    <3> HIDE DEF P
    <3>7. SumOver(f, S \cup U) = SumOver(f, S) + SumOver(f, U)
      BY <3>1, <3>2, <3>3, <3>4, <3>6
    <3> QED BY <3>7 DEF P
  <2> QED BY <2>2, <2>3
<1> HIDE DEF P
<1>2. T \in P BY <1>1, SetInduction
<1> QED BY <1>2 DEF P

-----------------------------------------------------------------------------
(* Of the deals of a table.                                                *)

Own(t, S) == {d \in DealIds \ Foreign : t[d].stage \in S}
ValueOf(t) == [d \in DealIds |-> t[d].value]

Tables == [DealIds -> DealRow \cup {Gone}]

LEMMA Values ==
  ASSUME DashboardInstance, NEW t \in Tables, NEW d \in DealIds
  PROVE  ValueOf(t)[d] \in Int /\ ValueOf(t)[d] \in Worths \cup {0}
<1>1. t[d] \in DealRow \/ t[d] = Gone BY DEF Tables
<1>2. t[d].value \in Worths \cup {0} BY <1>1 DEF DealRow, Gone
<1>3. Worths \cup {0} \subseteq Int BY DEF DashboardInstance
<1> QED BY <1>2, <1>3 DEF ValueOf

LEMMA TableFacts ==
  ASSUME DashboardInstance, NEW t \in Tables, NEW S
  PROVE  /\ Own(t, S) \subseteq DealIds /\ IsFiniteSet(Own(t, S))
         /\ Cardinality(Own(t, S)) \in Nat
         /\ SumOver(ValueOf(t), Own(t, S)) \in Int
<1>1. Own(t, S) \subseteq DealIds /\ IsFiniteSet(Own(t, S))
  BY FS_Subset DEF Own, DashboardInstance
<1>2. \A d \in Own(t, S) : ValueOf(t)[d] \in Int BY <1>1, Values
<1> QED BY <1>1, <1>2, Sums, FS_CardinalityType

\* What is counted in two lots of stages is counted in the one or the other.
LEMMA Lots ==
  ASSUME DashboardInstance, NEW t \in Tables, NEW S, NEW T, S \cap T = {},
         NEW R, R = S \cup T
  PROVE  /\ Cardinality(Own(t, R)) = Cardinality(Own(t, S)) + Cardinality(Own(t, T))
         /\ SumOver(ValueOf(t), Own(t, R))
              = SumOver(ValueOf(t), Own(t, S)) + SumOver(ValueOf(t), Own(t, T))
<1>1. Own(t, R) = Own(t, S) \cup Own(t, T) /\ Own(t, S) \cap Own(t, T) = {}
  BY DEF Own
<1>2. IsFiniteSet(Own(t, S)) /\ IsFiniteSet(Own(t, T)) BY TableFacts
<1>3. Cardinality(Own(t, S) \cup Own(t, T)) = Cardinality(Own(t, S)) + Cardinality(Own(t, T))
  <2>1. Cardinality(Own(t, S) \cap Own(t, T)) = 0 BY <1>1, FS_EmptySet
  <2>2. Cardinality(Own(t, S)) \in Nat /\ Cardinality(Own(t, T)) \in Nat BY TableFacts
  <2>3. Cardinality(Own(t, S) \cup Own(t, T))
          = Cardinality(Own(t, S)) + Cardinality(Own(t, T)) - Cardinality(Own(t, S) \cap Own(t, T))
    BY <1>2, FS_Union
  <2> QED BY <2>1, <2>2, <2>3
<1>4. \A d \in Own(t, S) \cup Own(t, T) : ValueOf(t)[d] \in Int BY TableFacts, Values
<1>5. SumOver(ValueOf(t), Own(t, S) \cup Own(t, T))
        = SumOver(ValueOf(t), Own(t, S)) + SumOver(ValueOf(t), Own(t, T))
  BY <1>1, <1>2, <1>4, SumsTogether
<1> QED BY <1>1, <1>3, <1>5, Zenon

\* The table of stages adds up to what is counted over all of them at once.
LEMMA StagesAddUp ==
  ASSUME DashboardInstance, NEW t \in Tables,
         NEW count \in [OpenStages -> Int], \A s \in OpenStages : count[s] = Cardinality(Own(t, {s})),
         NEW worth \in [OpenStages -> Int],
         \A s \in OpenStages : worth[s] = SumOver(ValueOf(t), Own(t, {s}))
  PROVE  /\ SumOver(count, OpenStages) = Cardinality(Own(t, OpenStages))
         /\ SumOver(worth, OpenStages) = SumOver(ValueOf(t), Own(t, OpenStages))
<1> DEFINE P == {T \in SUBSET OpenStages :
                   /\ SumOver(count, T) = Cardinality(Own(t, T))
                   /\ SumOver(worth, T) = SumOver(ValueOf(t), Own(t, T))}
<1>0. IsFiniteSet(OpenStages) BY DEF DashboardInstance
<1>1. ASSUME NEW T \in SUBSET OpenStages, \A s \in T : T \ {s} \in P PROVE T \in P
  <2>1. IsFiniteSet(T) BY <1>0, FS_Subset
  <2>2. CASE T = {}
    <3>1. Own(t, T) = {} BY <2>2 DEF Own
    <3>2. SumOver(count, T) = 0 /\ SumOver(worth, T) = 0 BY <2>1, <2>2, Sums
    <3>3. SumOver(ValueOf(t), Own(t, T)) = 0 BY <3>1, FS_EmptySet, Sums
    <3> QED BY <3>1, <3>2, <3>3, FS_EmptySet
  <2>3. ASSUME NEW s \in T PROVE T \in P
    <3>1. SumOver(count, T) = count[s] + SumOver(count, T \ {s}) BY <2>1, Sums
    <3>2. SumOver(worth, T) = worth[s] + SumOver(worth, T \ {s}) BY <2>1, Sums
    <3>3. {s} \cup (T \ {s}) = T /\ {s} \cap (T \ {s}) = {} BY <2>3
    <3>4. Cardinality(Own(t, T)) = Cardinality(Own(t, {s})) + Cardinality(Own(t, T \ {s}))
      BY <3>3, Lots
    <3>5. SumOver(ValueOf(t), Own(t, T))
            = SumOver(ValueOf(t), Own(t, {s})) + SumOver(ValueOf(t), Own(t, T \ {s}))
      BY <3>3, Lots
    <3>6. T \ {s} \in P BY <1>1
    <3> QED BY <3>1, <3>2, <3>4, <3>5, <3>6
  <2> QED BY <2>2, <2>3
<1> HIDE DEF P
<1>2. OpenStages \in P BY <1>0, <1>1, SetInduction
<1> QED BY <1>2 DEF P

Near(a, b, n) == Distance(a, b) <= n

\* A write to another workspace moves nothing.
LEMMA ForeignWrite ==
  ASSUME DashboardInstance, NEW t \in Tables, NEW u \in Tables, NEW d \in Foreign,
         \A e \in DealIds : e # d => u[e] = t[e], NEW S
  PROVE  /\ Own(u, S) = Own(t, S)
         /\ SumOver(ValueOf(u), Own(u, S)) = SumOver(ValueOf(t), Own(t, S))
<1>1. Own(u, S) = Own(t, S) BY DEF Own
<1>2. \A e \in Own(t, S) : ValueOf(t)[e] \in Int /\ ValueOf(u)[e] = ValueOf(t)[e]
  <2> SUFFICES ASSUME NEW e \in Own(t, S)
               PROVE  ValueOf(t)[e] \in Int /\ ValueOf(u)[e] = ValueOf(t)[e]
    OBVIOUS
  <2>1. e \in DealIds /\ e # d BY DEF Own
  <2> QED BY <2>1, Values DEF ValueOf
<1> QED BY <1>1, <1>2, TableFacts, SumsAlike

\* A write of one row moves a count by one at most and a sum by Swing.
LEMMA OneWrite ==
  ASSUME DashboardInstance, NEW t \in Tables, NEW d \in DealIds, NEW row \in DealRow \cup {Gone},
         NEW u, u = [t EXCEPT ![d] = row], NEW S
  PROVE  /\ u \in Tables
         /\ Near(Cardinality(Own(t, S)), Cardinality(Own(u, S)), 1)
         /\ Near(SumOver(ValueOf(t), Own(t, S)), SumOver(ValueOf(u), Own(u, S)), Swing)
<1>1. u \in Tables BY DEF Tables
<1>2. \A e \in DealIds : e # d => u[e] = t[e] BY DEF Tables
<1> DEFINE rest == Own(t, S) \ {d}
<1>3. /\ Own(u, S) \ {d} = rest
      /\ Own(t, S) \in {rest, rest \cup {d}} /\ Own(u, S) \in {rest, rest \cup {d}}
  BY <1>2 DEF Own
<1>4. IsFiniteSet(rest) BY TableFacts, FS_RemoveElement
<1>5. \A e \in rest : ValueOf(t)[e] \in Int /\ ValueOf(u)[e] = ValueOf(t)[e]
  <2> SUFFICES ASSUME NEW e \in rest
               PROVE  ValueOf(t)[e] \in Int /\ ValueOf(u)[e] = ValueOf(t)[e]
    OBVIOUS
  <2>1. e \in DealIds /\ e # d BY DEF Own
  <2> QED BY <1>2, <2>1, Values DEF ValueOf
<1>6. SumOver(ValueOf(u), rest) = SumOver(ValueOf(t), rest) BY <1>4, <1>5, SumsAlike
<1>7. ASSUME NEW v \in Tables, Own(v, S) \in {rest, rest \cup {d}},
             SumOver(ValueOf(v), rest) = SumOver(ValueOf(t), rest), Own(v, S) \ {d} = rest
      PROVE  /\ Cardinality(Own(v, S)) \in {Cardinality(rest), Cardinality(rest) + 1}
             /\ \E w \in Worths \cup {0} :
                  SumOver(ValueOf(v), Own(v, S)) = w + SumOver(ValueOf(t), rest)
  <2>1. IsFiniteSet(Own(v, S)) /\ \A e \in Own(v, S) : ValueOf(v)[e] \in Int
    BY TableFacts, Values
  <2>2. CASE d \in Own(v, S)
    <3>1. SumOver(ValueOf(v), Own(v, S)) = ValueOf(v)[d] + SumOver(ValueOf(v), rest)
      BY <1>7, <2>1, <2>2, Sums
    <3>2. Cardinality(rest) = Cardinality(Own(v, S)) - 1 /\ Cardinality(Own(v, S)) \in Nat
      BY <1>7, <2>1, <2>2, FS_RemoveElement, FS_CardinalityType
    <3>3. ValueOf(v)[d] \in Worths \cup {0} BY Values
    <3> HIDE DEF rest
    <3> QED BY <1>7, <3>1, <3>2, <3>3
  <2>3. CASE d \notin Own(v, S)
    <3>1. Own(v, S) = rest BY <1>7, <2>3
    <3>2. SumOver(ValueOf(v), Own(v, S)) \in Int BY TableFacts
    <3> HIDE DEF rest
    <3>3. SumOver(ValueOf(v), Own(v, S)) = 0 + SumOver(ValueOf(t), rest)
      BY <1>7, <3>1, <3>2
    <3> QED BY <3>1, <3>3
  <2> QED BY <2>2, <2>3
<1>8. SumOver(ValueOf(t), rest) \in Int /\ Cardinality(rest) \in Nat
  BY <1>4, <1>5, Sums, FS_CardinalityType
<1>9. Own(t, S) \ {d} = rest OBVIOUS
<1> HIDE DEF rest
<1>10. Cardinality(Own(t, S)) \in {Cardinality(rest), Cardinality(rest) + 1}
  BY <1>3, <1>7, <1>9
<1>11. Cardinality(Own(u, S)) \in {Cardinality(rest), Cardinality(rest) + 1}
  BY <1>1, <1>3, <1>6, <1>7
<1>12. Near(Cardinality(Own(t, S)), Cardinality(Own(u, S)), 1)
  BY <1>8, <1>10, <1>11 DEF Near, Distance
<1>13. PICK v \in Worths \cup {0} : SumOver(ValueOf(t), Own(t, S)) = v + SumOver(ValueOf(t), rest)
  BY <1>3, <1>7, <1>9
<1>14. PICK w \in Worths \cup {0} : SumOver(ValueOf(u), Own(u, S)) = w + SumOver(ValueOf(t), rest)
  BY <1>1, <1>3, <1>6, <1>7
<1>15. v \in Int /\ w \in Int /\ v - w <= Swing /\ w - v <= Swing /\ Swing \in Nat
  BY DEF DashboardInstance
<1>16. Near(SumOver(ValueOf(t), Own(t, S)), SumOver(ValueOf(u), Own(u, S)), Swing)
  BY <1>8, <1>13, <1>14, <1>15 DEF Near, Distance
<1> QED BY <1>1, <1>12, <1>16

LEMMA NearFurther ==
  ASSUME NEW a \in Int, NEW b \in Int, NEW c \in Int, NEW m \in Int, NEW n \in Int,
         Near(a, b, m), Near(b, c, n)
  PROVE  Near(a, c, m + n)
BY DEF Near, Distance

-----------------------------------------------------------------------------
(* The figures on the page are those of the table up to the writes since.  *)

Counted(t, S) == Cardinality(Own(t, S))
Worth(t, S) == SumOver(ValueOf(t), Own(t, S))

LEMMA Figures == \A S : CountIn(S) = Counted(table, S) /\ WorthIn(S) = Worth(table, S)
BY DEF CountIn, WorthIn, In, Counted, Worth, Own, ValueOf

LEMMA FigureTypes ==
  ASSUME DashboardInstance, NEW t \in Tables, NEW S
  PROVE  Counted(t, S) \in Int /\ Worth(t, S) \in Int
BY TableFacts DEF Counted, Worth

DashboardTypeOK ==
  /\ table \in Tables /\ changes \in Nat
  /\ query \in {"totals", "closed", "stages", "shown"}
  /\ totals \in [all : Int, open : Int, openValue : Int, wonValue : Int]
  /\ breakdown \in [AllStages -> [count : Int, value : Int]]

DashboardInv ==
  /\ DashboardTypeOK
  /\ query = "closed" => Near(totals.all, Counted(table, AllStages), changes)
  /\ query = "stages" => Near(totals.open, Counted(table, OpenStages), changes)
  /\ query \in {"closed", "stages"} =>
       /\ Near(totals.openValue, Worth(table, OpenStages), changes * Swing)
       /\ Near(totals.wonValue, Worth(table, {"won"}), changes * Swing)
  /\ DashboardAgrees

LEMMA BeginsAgreed ==
  ASSUME DashboardInstance, DashboardInit PROVE DashboardInv
<1>1. table \in Tables BY DEF DashboardInit, Tables
<1>2. breakdown \in [AllStages -> [count : Int, value : Int]] BY DEF DashboardInit, NoRows
<1> QED BY <1>1, <1>2 DEF DashboardInit, DashboardInv, DashboardTypeOK, DashboardAgrees, Unread

LEMMA FirstAgrees ==
  ASSUME DashboardInstance, DashboardInv, pipeline_totals PROVE DashboardInv'
<1> USE DEF pipeline_totals
<1>1. DashboardTypeOK'
  BY Figures, FigureTypes DEF DashboardInv, DashboardTypeOK
<1>2. table' = table /\ query' = "closed" /\ changes' = 0 OBVIOUS
<1>3. /\ totals'.all = Counted(table, AllStages)
      /\ totals'.openValue = Worth(table, OpenStages) /\ totals'.wonValue = Worth(table, {"won"})
  BY Figures
<1>4. table \in Tables /\ Swing \in Nat BY DEF DashboardInv, DashboardTypeOK, DashboardInstance
<1>5. /\ Counted(table, AllStages) \in Int /\ Worth(table, OpenStages) \in Int
      /\ Worth(table, {"won"}) \in Int
  BY <1>4, FigureTypes
<1>6. \A a \in Int : Near(a, a, 0) /\ Near(a, a, 0 * Swing) BY <1>4 DEF Near, Distance
<1> HIDE DEF pipeline_totals
<1> QED BY <1>1, <1>2, <1>3, <1>5, <1>6 DEF DashboardInv, DashboardAgrees

LEMMA SecondAgrees ==
  ASSUME DashboardInstance, DashboardInv, closed_count PROVE DashboardInv'
<1> DEFINE closed == {"won", "lost"}
<1>0. table \in Tables /\ changes \in Nat /\ totals \in [all : Int, open : Int, openValue : Int, wonValue : Int]
  BY DEF DashboardInv, DashboardTypeOK
<1>1. Counted(table, AllStages) = Counted(table, OpenStages) + Counted(table, closed)
  BY <1>0, Lots DEF AllStages, Counted, DashboardInstance
<1>2. /\ Counted(table, AllStages) \in Int /\ Counted(table, OpenStages) \in Int
      /\ Counted(table, closed) \in Int
  BY <1>0, FigureTypes
<1>3. /\ table' = table /\ query' = "stages" /\ changes' = changes /\ query = "closed"
      /\ breakdown' = breakdown
      /\ totals' = [totals EXCEPT !.open = totals.all - Counted(table, closed)]
  BY Figures DEF closed_count
<1> HIDE DEF closed
<1>4. DashboardTypeOK' BY <1>2, <1>3 DEF DashboardInv, DashboardTypeOK
<1>5. /\ totals'.open = totals.all - Counted(table, closed)
      /\ totals'.openValue = totals.openValue /\ totals'.wonValue = totals.wonValue
  BY <1>0, <1>3
<1>6. Near(totals'.open, Counted(table, OpenStages), changes)
  <2>1. Near(totals.all, Counted(table, AllStages), changes) BY <1>3 DEF DashboardInv
  <2> QED BY <1>0, <1>1, <1>2, <1>5, <2>1 DEF Near, Distance
<1> QED BY <1>3, <1>4, <1>5, <1>6 DEF DashboardInv, DashboardAgrees

LEMMA ThirdAgrees ==
  ASSUME DashboardInstance, DashboardInv, stage_totals PROVE DashboardInv'
<1>0. table \in Tables /\ OpenStages \subseteq AllStages /\ "won" \in AllStages
  BY DEF DashboardInv, DashboardTypeOK, AllStages
<1>1. /\ table' = table /\ query' = "shown" /\ changes' = changes /\ query = "stages"
      /\ totals' = totals
      /\ breakdown' = [s \in AllStages |-> [count |-> Counted(table, {s}), value |-> Worth(table, {s})]]
  BY Figures DEF stage_totals
<1>2. DashboardTypeOK'
  <2>1. \A s \in AllStages : Counted(table, {s}) \in Int /\ Worth(table, {s}) \in Int
    BY <1>0, FigureTypes
  <2> QED BY <1>1, <2>1 DEF DashboardInv, DashboardTypeOK
<1> DEFINE count == [s \in OpenStages |-> breakdown'[s].count]
           worth == [s \in OpenStages |-> breakdown'[s].value]
<1>3. /\ SumOver(count, OpenStages) = Counted(table, OpenStages)
      /\ SumOver(worth, OpenStages) = Worth(table, OpenStages)
  <2>1. \A s \in OpenStages : /\ count[s] = Counted(table, {s}) /\ count[s] \in Int
                              /\ worth[s] = Worth(table, {s}) /\ worth[s] \in Int
    BY <1>0, <1>1, FigureTypes
  <2>2. count \in [OpenStages -> Int] /\ worth \in [OpenStages -> Int] BY <2>1
  <2> HIDE DEF count, worth
  <2> QED BY <1>0, <2>1, <2>2, StagesAddUp DEF Counted, Worth
<1>4. breakdown'["won"].value = Worth(table, {"won"}) BY <1>0, <1>1
<1>5. DashboardAgrees'
  BY <1>1, <1>3, <1>4 DEF DashboardInv, DashboardAgrees, Near
<1> QED BY <1>1, <1>2, <1>5 DEF DashboardInv

LEMMA ReloadAgrees ==
  ASSUME DashboardInstance, DashboardInv, Reload PROVE DashboardInv'
<1>1. table' \in Tables /\ totals' = Unread /\ breakdown' = NoRows /\ changes' = 0 /\ query' = "totals"
  BY DEF Reload, DashboardInv, DashboardTypeOK
<1>2. DashboardTypeOK' BY <1>1 DEF DashboardTypeOK, Unread, NoRows
<1> QED BY <1>1, <1>2 DEF DashboardInv, DashboardAgrees

LEMMA WriteAgrees ==
  ASSUME DashboardInstance, DashboardInv, NEW d \in DealIds, WriteDeal(d) PROVE DashboardInv'
<1>0. /\ table \in Tables /\ changes \in Nat /\ Swing \in Nat
      /\ totals \in [all : Int, open : Int, openValue : Int, wonValue : Int]
      /\ breakdown \in [AllStages -> [count : Int, value : Int]]
      /\ query \in {"totals", "closed", "stages", "shown"}
  BY DEF DashboardInv, DashboardTypeOK, DashboardInstance
<1>1. /\ query' = query /\ totals' = totals /\ breakdown' = breakdown
      /\ changes' = IF d \in Foreign \/ query = "totals" THEN changes ELSE changes + 1
  BY DEF WriteDeal
<1>2. PICK row \in DealRow \cup {Gone} : table' = [table EXCEPT ![d] = row] BY DEF WriteDeal
<1>3. table' \in Tables BY <1>0, <1>2, OneWrite
<1>4. DashboardTypeOK' BY <1>0, <1>1, <1>3 DEF DashboardTypeOK
<1>5. CASE query = "totals"
  BY <1>1, <1>4, <1>5 DEF DashboardInv, DashboardAgrees
<1>6. CASE query # "totals" /\ d \in Foreign
  <2>1. \A S : Counted(table', S) = Counted(table, S) /\ Worth(table', S) = Worth(table, S)
    <3> SUFFICES ASSUME NEW S
                 PROVE  Counted(table', S) = Counted(table, S) /\ Worth(table', S) = Worth(table, S)
      OBVIOUS
    <3>1. \A e \in DealIds : e # d => table'[e] = table[e] BY <1>0, <1>2 DEF Tables
    <3>2. /\ Own(table', S) = Own(table, S)
          /\ SumOver(ValueOf(table'), Own(table', S)) = SumOver(ValueOf(table), Own(table, S))
      BY <1>0, <1>3, <1>6, <3>1, ForeignWrite
    <3> QED BY <3>2 DEF Counted, Worth
  <2>2. changes' = changes BY <1>1, <1>6
  <2>3. DashboardAgrees' BY <1>1, <2>2 DEF DashboardInv, DashboardAgrees
  <2> QED BY <1>1, <1>4, <2>1, <2>2, <2>3 DEF DashboardInv
<1>7. CASE query # "totals" /\ d \notin Foreign
  <2>1. changes' = changes + 1 /\ changes' * Swing = changes * Swing + Swing /\ changes * Swing \in Nat
    BY <1>0, <1>1, <1>7
  <2> DEFINE more == changes' * Swing
             so == changes * Swing
  <2>1a. more = so + Swing /\ so \in Nat BY <2>1
  <2> HIDE DEF more, so
  <2>2. \A S : /\ Near(Counted(table, S), Counted(table', S), 1)
               /\ Near(Worth(table, S), Worth(table', S), Swing)
    BY <1>0, <1>2, OneWrite DEF Counted, Worth
  <2>3. \A S : /\ Counted(table, S) \in Int /\ Worth(table, S) \in Int
               /\ Counted(table', S) \in Int /\ Worth(table', S) \in Int
    BY <1>0, <1>3, FigureTypes
  <2>4. \A a \in Int : \A S : Near(a, Counted(table, S), changes) => Near(a, Counted(table', S), changes')
    BY <1>0, <2>1, <2>2, <2>3, NearFurther
  <2>5. \A a \in Int : \A S : Near(a, Worth(table, S), so) => Near(a, Worth(table', S), more)
    BY <1>0, <2>1a, <2>2, <2>3, NearFurther
  <2>6. /\ totals.all \in Int /\ totals.open \in Int
        /\ totals.openValue \in Int /\ totals.wonValue \in Int
    BY <1>0
  <2>7. DashboardAgrees'
    <3>1. CASE query = "shown"
      <4> DEFINE rows == SumOver([s \in OpenStages |-> breakdown[s].count], OpenStages)
                 worth == SumOver([s \in OpenStages |-> breakdown[s].value], OpenStages)
      <4>1. rows \in Int /\ worth \in Int
        <5>1. \A s \in OpenStages : breakdown[s].count \in Int /\ breakdown[s].value \in Int
          BY <1>0 DEF AllStages
        <5>2. IsFiniteSet(OpenStages) BY DEF DashboardInstance
        <5> QED BY <5>1, <5>2, Sums
      <4>2. breakdown["won"].value \in Int BY <1>0 DEF AllStages
      <4>3. /\ Near(totals.open, rows, changes) /\ Near(totals.openValue, worth, so)
            /\ Near(totals.wonValue, breakdown["won"].value, so)
        BY <3>1 DEF DashboardInv, DashboardAgrees, Near, so
      <4> HIDE DEF rows, worth
      <4>4. /\ Near(totals.open, rows, changes') /\ Near(totals.openValue, worth, more)
            /\ Near(totals.wonValue, breakdown["won"].value, more)
        BY <1>0, <2>1, <2>1a, <2>6, <4>1, <4>2, <4>3 DEF Near, Distance
      <4> QED BY <1>1, <4>4 DEF DashboardAgrees, Near, rows, worth, more
    <3> QED BY <1>1, <3>1 DEF DashboardAgrees
  <2>8. query = "closed" => Near(totals'.all, Counted(table', AllStages), changes')
    BY <1>1, <2>4, <2>6 DEF DashboardInv
  <2>9. query = "stages" => Near(totals'.open, Counted(table', OpenStages), changes')
    BY <1>1, <2>4, <2>6 DEF DashboardInv
  <2>10. query \in {"closed", "stages"} =>
           /\ Near(totals'.openValue, Worth(table', OpenStages), more)
           /\ Near(totals'.wonValue, Worth(table', {"won"}), more)
    <3> SUFFICES ASSUME query \in {"closed", "stages"}
                 PROVE  /\ Near(totals'.openValue, Worth(table', OpenStages), more)
                        /\ Near(totals'.wonValue, Worth(table', {"won"}), more)
      OBVIOUS
    <3>1. /\ Near(totals.openValue, Worth(table, OpenStages), so)
          /\ Near(totals.wonValue, Worth(table, {"won"}), so)
      BY DEF DashboardInv, so
    <3> QED BY <1>1, <2>5, <2>6, <3>1
  <2> QED BY <1>1, <1>4, <2>7, <2>8, <2>9, <2>10 DEF DashboardInv, more
<1> QED BY <1>5, <1>6, <1>7

(* Whatever is written while the page is being made, its figures agree up  *)
(* to that (dashboard.rs: pipeline_totals, closed_count, stage_totals).    *)
THEOREM FiguresAgree ==
  ASSUME DashboardInstance PROVE DashboardSpec => []DashboardAgrees
<1>1. DashboardInit => DashboardInv BY BeginsAgreed
<1>2. ASSUME DashboardInv, [DashboardNext]_dashboard PROVE DashboardInv'
  <2>1. CASE DashboardNext
    BY <1>2, <2>1, FirstAgrees, SecondAgrees, ThirdAgrees, ReloadAgrees, WriteAgrees DEF DashboardNext
  <2>2. CASE UNCHANGED dashboard
    BY <1>2, <2>2 DEF dashboard, DashboardInv, DashboardTypeOK, DashboardAgrees
  <2> QED BY <1>2, <2>1, <2>2
<1>3. DashboardInv => DashboardAgrees BY DEF DashboardInv
<1> QED BY <1>1, <1>2, <1>3, PTL DEF DashboardSpec

-----------------------------------------------------------------------------
(* The search.                                                             *)

\* The places of a text before which the text s stands.
After(s, text) ==
  {t \in 0 .. Len(text) :
     Len(s) <= t /\ \A j \in 1 .. Len(s) : Caseless(text[t - Len(s) + j]) = Caseless(s[j])}

\* The places after one that m has come to and a character like ch.
Reached(m, text, ch) == {t \in 1 .. Len(text) : t - 1 \in m.upTo /\ Caseless(text[t]) = Caseless(ch)}

\* The places from one of some on.
From(places, last) == {t \in 0 .. last : \E i \in places : i <= t}

\* The step of the match.
LEMMA MatchedIs ==
  ASSUME NEW text, NEW ch \in Symbols, NEW m \in Matching(text)
  PROVE  matched(text)[ch][m] =
     CASE ch = "\\" /\ ~ m.literal -> [upTo |-> m.upTo, literal |-> TRUE]
       [] ch = "%" /\ ~ m.literal ->
            [upTo |-> {t \in 0 .. Len(text) : \E i \in m.upTo : i <= t}, literal |-> FALSE]
       [] ch = "_" /\ ~ m.literal ->
            [upTo |-> {t \in 1 .. Len(text) : t - 1 \in m.upTo}, literal |-> FALSE]
       [] OTHER -> [upTo |-> Reached(m, text, ch), literal |-> FALSE]
BY Zenon DEF matched, Reached

\* From where the text is matched up to, % reaches every later place.
LEMMA MatchedAny ==
  ASSUME NEW text, "%" \in Symbols, NEW m \in Matching(text), m.literal = FALSE
  PROVE  matched(text)["%"][m] =
           [upTo |-> From(m.upTo, Len(text)), literal |-> FALSE]
BY MatchedIs DEF From

\* Other characters match themselves.
LEMMA MatchedItself ==
  ASSUME NEW text, NEW ch \in Symbols, NEW m \in Matching(text), m.literal \/ ch \notin {"\\", "%", "_"}
  PROVE  matched(text)[ch][m] = [upTo |-> Reached(m, text, ch), literal |-> FALSE]
BY MatchedIs

\* The places stay within the text.
LEMMA MatchedKeeps ==
  ASSUME NEW text \in Seq(Symbols)
  PROVE  Body(matched(text), Symbols, Matching(text))
<1> SUFFICES ASSUME NEW ch \in Symbols, NEW m \in Matching(text)
             PROVE  matched(text)[ch][m] \in Matching(text)
  BY DEF Body
<1> DEFINE new == matched(text)[ch][m]
           n == Len(text)
<1>0. n \in Nat /\ m.upTo \in SUBSET (0 .. n) BY LenProperties DEF Matching
<1>1. CASE ch = "\\" /\ ~ m.literal
  <2>1. new = [upTo |-> m.upTo, literal |-> TRUE] BY <1>1, MatchedIs
  <2> QED BY <1>0, <2>1 DEF Matching
<1>2. CASE ch = "%" /\ ~ m.literal
  <2>1. new = [upTo |-> {t \in 0 .. n : \E i \in m.upTo : i <= t}, literal |-> FALSE] BY <1>2, MatchedIs
  <2> QED BY <1>0, <2>1 DEF Matching
<1>3. CASE ch = "_" /\ ~ m.literal
  <2>1. new = [upTo |-> {t \in 1 .. n : t - 1 \in m.upTo}, literal |-> FALSE] BY <1>3, MatchedIs
  <2> QED BY <1>0, <2>1 DEF Matching
<1>4. CASE m.literal \/ ch \notin {"\\", "%", "_"}
  <2>1. new = [upTo |-> Reached(m, text, ch), literal |-> FALSE] BY <1>4, MatchedIs
  <2>2. Reached(m, text, ch) \in SUBSET (0 .. n) BY <1>0 DEF Reached
  <2> QED BY <2>1, <2>2 DEF Matching
<1> QED BY <1>1, <1>2, <1>3, <1>4

\* What a character becomes in the pattern is a text.
LEMMA Escapes ==
  ASSUME SearchInstance
  PROVE  Gives(escaped, Symbols, Symbols)
<1> USE DEF Gives
<1> SUFFICES ASSUME NEW ch \in Symbols PROVE escaped[ch] \in Seq(Symbols) OBVIOUS
<1>1. escaped[ch] = IF ch \in {"\\", "%", "_"} THEN <<"\\", ch>> ELSE <<ch>> BY DEF escaped
<1>2. "\\" \in Symbols BY DEF SearchInstance
<1>3. <<"\\", ch>> \in Seq(Symbols) /\ <<ch>> \in Seq(Symbols) BY <1>2, FewItems, Zenon DEF Few
<1> QED BY <1>1, <1>3

\* A character of the term, escaped or not, stands for itself.
LEMMA OneOfTheTerm ==
  ASSUME SearchInstance, NEW text \in Seq(Symbols), NEW ch \in Symbols,
         NEW m \in Matching(text), m.literal = FALSE
  PROVE  Folded(matched(text), m, escaped[ch]) = [upTo |-> Reached(m, text, ch), literal |-> FALSE]
<1> DEFINE step == matched(text)
           T == Matching(text)
           F(s) == Folded(step, m, s)
<1>0. "\\" \in Symbols BY DEF SearchInstance
<1>1. Folds(step, m, Symbols, T) BY MatchedKeeps, LoopFolds
<1>2. F(<<>>) = m /\ \A s \in Seq(Symbols), x \in Symbols : F(Append(s, x)) = step[x][F(s)]
  BY <1>1 DEF Folds
<1>2a. <<>> \in Seq(Symbols) BY EmptySeq
<1>3. \A x \in Symbols : F(<<x>>) = step[x][m]
  <2> TAKE x \in Symbols
  <2>1. <<x>> = Append(<<>>, x) BY FewItems, Zenon DEF Few
  <2> QED BY <1>2, <1>2a, <2>1
<1>4. CASE ch \in {"\\", "%", "_"}
  <2>1. escaped[ch] = <<"\\", ch>> BY <1>4 DEF escaped
  <2>2. <<"\\", ch>> = Append(<<"\\">>, ch) /\ <<"\\">> \in Seq(Symbols) BY <1>0, FewItems, Zenon DEF Few
  <2> DEFINE e == [upTo |-> m.upTo, literal |-> TRUE]
  <2>3. F(<<"\\">>) = e
    <3>1. step["\\"][m] = e BY <1>0, MatchedIs
    <3> QED BY <1>0, <1>3, <3>1
  <2>4. F(<<"\\", ch>>) = step[ch][e] BY <1>2, <2>2, <2>3
  <2>5. e \in T /\ e.upTo = m.upTo /\ e.literal = TRUE BY DEF Matching
  <2> HIDE DEF e
  <2>6. step[ch][e] = [upTo |-> Reached(e, text, ch), literal |-> FALSE] BY <2>5, MatchedIs
  <2>7. Reached(e, text, ch) = Reached(m, text, ch) BY <2>5 DEF Reached
  <2> QED BY <2>1, <2>4, <2>6, <2>7
<1>5. CASE ch \notin {"\\", "%", "_"}
  <2>1. escaped[ch] = <<ch>> BY <1>5 DEF escaped
  <2>2. step[ch][m] = [upTo |-> Reached(m, text, ch), literal |-> FALSE] BY <1>5, MatchedItself
  <2> QED BY <1>3, <2>1, <2>2
<1> QED BY <1>4, <1>5

\* One character more of the term.
LEMMA AfterOneMore ==
  ASSUME NEW text \in Seq(Symbols), NEW s \in Seq(Symbols), NEW ch \in Symbols,
         NEW m, m.upTo = After(s, text)
  PROVE  Reached(m, text, ch) = After(Append(s, ch), text)
<1> DEFINE r == Append(s, ch)
           n == Len(s)
<1>1. /\ n \in Nat /\ Len(r) = n + 1 /\ r[n + 1] = ch /\ Len(text) \in Nat
      /\ \A i \in 1 .. n : r[i] = s[i]
  BY AppendProperties, LenProperties
<1> HIDE DEF r
<1>2. ASSUME NEW t \in 1 .. Len(text), t - 1 \in After(s, text), Caseless(text[t]) = Caseless(ch)
      PROVE  t \in After(r, text)
  <2>1. n <= t - 1 /\ \A j \in 1 .. n : Caseless(text[t - 1 - n + j]) = Caseless(s[j]) BY <1>2 DEF After
  <2>2. ASSUME NEW j \in 1 .. n + 1 PROVE Caseless(text[t - (n + 1) + j]) = Caseless(r[j])
    <3>1. CASE j = n + 1
      <4>1. t - (n + 1) + j = t BY <1>1, <3>1
      <4> QED BY <1>1, <1>2, <3>1, <4>1
    <3>2. CASE j # n + 1
      <4>1. j \in 1 .. n /\ t - (n + 1) + j = t - 1 - n + j BY <1>1, <3>2
      <4> QED BY <1>1, <2>1, <4>1
    <3> QED BY <3>1, <3>2
  <2>3. n + 1 <= t /\ t \in 0 .. Len(text) BY <1>1, <2>1
  <2> QED BY <1>1, <2>2, <2>3 DEF After
<1>3. ASSUME NEW t \in After(r, text)
      PROVE  t \in 1 .. Len(text) /\ t - 1 \in After(s, text) /\ Caseless(text[t]) = Caseless(ch)
  <2>1. /\ t \in 0 .. Len(text) /\ n + 1 <= t
        /\ \A j \in 1 .. n + 1 : Caseless(text[t - (n + 1) + j]) = Caseless(r[j])
    BY <1>1 DEF After
  <2>2. t \in 1 .. Len(text) /\ t - 1 \in 0 .. Len(text) /\ n <= t - 1 BY <1>1, <2>1
  <2>3. Caseless(text[t]) = Caseless(ch)
    <3>1. n + 1 \in 1 .. n + 1 /\ t - (n + 1) + (n + 1) = t BY <1>1, <2>1
    <3>2. Caseless(text[t - (n + 1) + (n + 1)]) = Caseless(r[n + 1]) BY <2>1, <3>1
    <3> QED BY <1>1, <3>1, <3>2
  <2>4. ASSUME NEW j \in 1 .. n PROVE Caseless(text[t - 1 - n + j]) = Caseless(s[j])
    <3>1. j \in 1 .. n + 1 /\ t - (n + 1) + j = t - 1 - n + j BY <1>1, <2>1
    <3>2. Caseless(text[t - (n + 1) + j]) = Caseless(r[j]) BY <2>1, <3>1
    <3> QED BY <1>1, <3>1, <3>2
  <2> QED BY <2>2, <2>3, <2>4 DEF After
<1>4. \A t : t \in Reached(m, text, ch) <=> t \in After(r, text)
  BY <1>2, <1>3 DEF Reached
<1> QED BY <1>4 DEF r

\* The escaped term leads to where it ends in the text, in any case.
LEMMA TheTermIsMatched ==
  ASSUME SearchInstance, NEW text \in Seq(Symbols), NEW term \in Seq(Symbols)
  PROVE  Folded(matched(text), [upTo |-> 0 .. Len(text), literal |-> FALSE], Each(escaped, term)) =
           [upTo |-> After(term, text), literal |-> FALSE]
<1> DEFINE step == matched(text)
           T == Matching(text)
           all == [upTo |-> 0 .. Len(text), literal |-> FALSE]
           F(s) == Folded(step, all, s)
           At(s) == [upTo |-> After(s, text), literal |-> FALSE]
           P == {s \in Seq(Symbols) : F(Each(escaped, s)) = At(s)}
<1>0. all \in T BY DEF Matching
<1>1. Spells(escaped, Symbols, Symbols) BY Escapes, Eaching
<1>2. Folds(step, all, Symbols, T) BY <1>0, MatchedKeeps, LoopFolds
<1>3. \A s : At(s) \in T BY DEF Matching, After
<1>4. <<>> \in P
  <2>1. <<>> \in Seq(Symbols) /\ Each(escaped, <<>>) = <<>> BY <1>1, EmptySeq DEF Spells
  <2>2. F(<<>>) = all BY <1>2 DEF Folds
  <2>3. After(<<>>, text) = 0 .. Len(text)
    <3>1. Len(<<>>) = 0 /\ Len(text) \in Nat BY EmptySeq, LenProperties
    <3> QED BY <3>1 DEF After
  <2> QED BY <2>1, <2>2, <2>3
<1>5. ASSUME NEW s \in Seq(Symbols), NEW ch \in Symbols, s \in P PROVE Append(s, ch) \in P
  <2>1. Append(s, ch) \in Seq(Symbols) BY AppendProperties
  <2>2. Each(escaped, Append(s, ch)) = Cat(Each(escaped, s), escaped[ch]) /\ Each(escaped, s) \in Seq(Symbols)
    BY <1>1 DEF Spells
  <2>3. escaped[ch] \in Seq(Symbols) BY Escapes DEF Gives
  <2>4. F(Cat(Each(escaped, s), escaped[ch])) = Folded(step, F(Each(escaped, s)), escaped[ch])
    BY <1>2, <2>2, <2>3 DEF Folds
  <2>5. F(Each(escaped, s)) = At(s) BY <1>5
  <2> DEFINE m == At(s)
  <2>6. m \in T /\ m.literal = FALSE /\ m.upTo = After(s, text) BY <1>3
  <2> HIDE DEF m
  <2>7. Folded(step, m, escaped[ch]) = [upTo |-> Reached(m, text, ch), literal |-> FALSE]
    BY <2>6, OneOfTheTerm
  <2>8. Reached(m, text, ch) = After(Append(s, ch), text) BY <2>6, AfterOneMore
  <2>9. F(Each(escaped, Append(s, ch))) = At(Append(s, ch)) BY <2>2, <2>4, <2>5, <2>7, <2>8 DEF m
  <2> QED BY <2>1, <2>9
<1> HIDE DEF P
<1>6. term \in P BY <1>4, <1>5, SeqInduction
<1> QED BY <1>6 DEF P

\* The pattern is read to its end.
LEMMA PatternIsRead ==
  ASSUME SearchInstance, NEW text \in Seq(Symbols), NEW term \in Seq(Symbols)
  PROVE  Folded(matched(text), [upTo |-> {0}, literal |-> FALSE], like_contains(term)) =
           [upTo |-> From(After(term, text), Len(text)), literal |-> FALSE]
<1> DEFINE step == matched(text)
           T == Matching(text)
           first == [upTo |-> {0}, literal |-> FALSE]
           all == [upTo |-> 0 .. Len(text), literal |-> FALSE]
           m == [upTo |-> After(term, text), literal |-> FALSE]
           any == <<"%">>
           e == Each(escaped, term)
<1>0. Len(text) \in Nat BY LenProperties
<1>1. first \in T /\ all \in T /\ m \in T BY <1>0 DEF Matching, After
<1>2. "%" \in Symbols BY DEF SearchInstance
<1>3. any \in Seq(Symbols) /\ any = Append(<<>>, "%") /\ <<>> \in Seq(Symbols)
  BY <1>2, FewItems, Zenon DEF Few
<1>4. e \in Seq(Symbols)
  <2>1. Spells(escaped, Symbols, Symbols) BY Escapes, Eaching
  <2> QED BY <2>1 DEF Spells
<1>5. \A k \in T : Folded(step, k, any) = step["%"][k]
  <2> TAKE k \in T
  <2>1. Folds(step, k, Symbols, T) BY MatchedKeeps, LoopFolds
  <2> QED BY <1>2, <1>3, <2>1 DEF Folds
<1>6. step["%"][first] = all
  <2>1. step["%"][first] = [upTo |-> From({0}, Len(text)), literal |-> FALSE]
    <3>1. first.upTo = {0} /\ first.literal = FALSE OBVIOUS
    <3> HIDE DEF first
    <3> QED BY <1>1, <1>2, <3>1, MatchedAny
  <2>2. From({0}, Len(text)) = 0 .. Len(text) BY DEF From
  <2> QED BY <2>1, <2>2
<1>7. step["%"][m] = [upTo |-> From(After(term, text), Len(text)), literal |-> FALSE]
  <2>1. m.upTo = After(term, text) /\ m.literal = FALSE OBVIOUS
  <2> HIDE DEF m
  <2> QED BY <1>1, <1>2, <2>1, MatchedAny
<1>8. like_contains(term) = Cat(Cat(any, e), any) BY Zenon DEF like_contains, Cat
<1>9. Folded(step, all, e) = m BY TheTermIsMatched
<1>9a. Folds(step, first, Symbols, T) BY <1>1, MatchedKeeps, LoopFolds
<1> HIDE DEF any, e, first, all, m
<1>10. Folded(step, first, Cat(any, e)) = m
  <2>1. Folded(step, first, Cat(any, e)) = Folded(step, Folded(step, first, any), e)
    BY <1>3, <1>4, <1>9a DEF Folds
  <2>2. Folded(step, first, any) = all BY <1>1, <1>5, <1>6
  <2> QED BY <1>9, <2>1, <2>2
<1>11. Folded(step, first, Cat(Cat(any, e), any)) = step["%"][m]
  <2>1. Cat(any, e) \in Seq(Symbols) BY <1>3, <1>4, CatAppend
  <2>2. Folded(step, first, Cat(Cat(any, e), any)) = Folded(step, Folded(step, first, Cat(any, e)), any)
    BY <1>3, <1>9a, <2>1 DEF Folds
  <2> QED BY <1>1, <1>5, <1>10, <2>2
<1> QED BY <1>7, <1>8, <1>11 DEF first

(* A search finds the texts the term occurs in, in any case, and no other,   *)
(* for terms and texts of any length (domain.rs: like_contains; search.rs:   *)
(* contains_ignoring_case).                                                  *)
THEOREM SearchFindsTheTerm == ASSUME SearchInstance PROVE SearchSpec => []FindsTheTermItself
<1>1. SearchInit => FindsTheTermItself
  <2> SUFFICES ASSUME SearchInit PROVE FindsTheTermItself OBVIOUS
  <2>1. sought \in Seq(Symbols) /\ stored \in Seq(Symbols)
    <3>1. PICK n \in 0 .. MaxTerm : sought \in [1 .. n -> Symbols] BY DEF SearchInit, TextsUpTo
    <3>2. PICK k \in 0 .. MaxStored : stored \in [1 .. k -> Symbols] BY DEF SearchInit, TextsUpTo
    <3>2a. MaxTerm \in Nat /\ MaxStored \in Nat BY Zenon DEF SearchInstance
    <3>3. n \in Nat /\ k \in Nat BY <3>2a
    <3> QED BY <3>1, <3>2, <3>3
  <2> DEFINE n == Len(stored)
             l == Len(sought)
             found == From(After(sought, stored), n)
             m == [upTo |-> found, literal |-> FALSE]
  <2>2. n \in Nat /\ l \in Nat /\ DOMAIN sought = 1 .. l BY <2>1, LenProperties
  <2>3. Folded(matched(stored), [upTo |-> {0}, literal |-> FALSE], like_contains(sought)) = m
    BY <2>1, PatternIsRead
  <2>4. m.upTo = found /\ m.literal = FALSE OBVIOUS
  <2>5. Ilike(like_contains(sought), stored) <=> n \in found
    <3> HIDE DEF m, found
    <3> QED BY <2>3, <2>4 DEF Ilike
  <2>6. ASSUME n \in found PROVE Occurs(sought, stored)
    <3>1. PICK t \in After(sought, stored) : TRUE BY <2>6 DEF From
    <3>2. t \in 0 .. n /\ l <= t /\ \A j \in 1 .. l : Caseless(stored[t - l + j]) = Caseless(sought[j])
      BY DEF After
    <3>3. t - l \in 0 .. n - l BY <2>2, <3>2
    <3> QED BY <2>2, <3>2, <3>3 DEF Occurs
  <2>7. ASSUME Occurs(sought, stored) PROVE n \in found
    <3>1. PICK i \in 0 .. n - l : \A j \in 1 .. l : Caseless(stored[i + j]) = Caseless(sought[j])
      BY <2>2, <2>7 DEF Occurs
    <3>2. i + l \in 0 .. n /\ l <= i + l /\ \A j \in 1 .. l : (i + l) - l + j = i + j BY <2>2
    <3>3. i + l \in After(sought, stored) BY <3>1, <3>2 DEF After
    <3>4. n \in 0 .. n /\ i + l <= n BY <2>2, <3>2
    <3> QED BY <3>3, <3>4 DEF From
  <2> HIDE DEF found, n
  <2> QED BY <2>5, <2>6, <2>7 DEF FindsTheTermItself, n
<1>2. FindsTheTermItself /\ UNCHANGED search => FindsTheTermItself' BY DEF FindsTheTermItself, search
<1> QED BY <1>1, <1>2, PTL DEF SearchSpec

-----------------------------------------------------------------------------
(* Briefings.  Trimming, cutting into lines and storing are loops over the   *)
(* characters or the bullets, so every law about them is shown by adding one *)
(* more.                                                                     *)

\* The characters the code trims are characters.
LEMMA Letters == White \subseteq Alphabet /\ Markers \subseteq Alphabet /\ "nl" \in Alphabet /\ "nl" \in White
BY DEF White, Markers, Alphabet

\* Texts are built character by character, and from other texts.
LEMMA Lettered ==
  /\ <<>> \in Lettering /\ <<>> \in Seq(Lettering)
  /\ \A x \in Lettering, c \in Alphabet : Append(x, c) \in Lettering
  /\ \A x, y \in Lettering : Cat(x, y) \in Lettering
<1>1. <<>> \in Lettering /\ <<>> \in Seq(Lettering) BY FewItems DEF Few, Lettering
<1>2. \A x, y \in Lettering : Cat(x, y) \in Lettering BY CatAppend DEF Lettering
<1>3. \A x \in Lettering, c \in Alphabet : Append(x, c) \in Lettering BY DEF Lettering
<1> QED BY <1>1, <1>2, <1>3

\* What is left of a text when characters at its beginning are dropped.
LEMMA DropNext ==
  ASSUME NEW S
  PROVE  /\ TrimStart(<<>>, S) = <<>>
         /\ \A x \in Lettering : TrimStart(x, S) \in Lettering
         /\ \A x \in Lettering, c \in Alphabet :
              TrimStart(Append(x, c), S) =
                IF TrimStart(x, S) = <<>> /\ c \in S THEN <<>> ELSE Append(TrimStart(x, S), c)
<1> DEFINE f == dropped(S)
<1>1. \A c \in Alphabet, out \in Lettering :
        f[c][out] = IF out = <<>> /\ c \in S THEN <<>> ELSE Append(out, c)
  BY DEF dropped
<1> HIDE DEF f
<1>2. Body(f, Alphabet, Lettering) BY <1>1, Lettered DEF Body
<1>3. Folds(f, <<>>, Alphabet, Lettering) BY <1>2, Lettered, LoopFolds
<1>4. \A x : TrimStart(x, S) = Folded(f, <<>>, x) BY DEF TrimStart, f
<1>5. TrimStart(<<>>, S) = <<>> BY <1>3, <1>4 DEF Folds
<1>6. \A x \in Lettering : TrimStart(x, S) \in Lettering BY <1>3, <1>4 DEF Folds, Lettering
<1>7. \A x \in Lettering, c \in Alphabet : TrimStart(Append(x, c), S) = f[c][TrimStart(x, S)]
  BY <1>3, <1>4 DEF Folds, Lettering
<1> QED BY <1>1, <1>5, <1>6, <1>7

\* What a loop over the characters shows of every text.
LEMMA TextInduction ==
  ASSUME NEW P, <<>> \in P, \A x \in Lettering, c \in Alphabet : x \in P => Append(x, c) \in P
  PROVE  Lettering \subseteq P
BY SeqInduction DEF Lettering

-----------------------------------------------------------------------------
\* Trimming as it goes: what is kept for sure, and white space that may follow.
Held(text, after) == [text |-> text, after |-> after]
TrimOf(x) == Folded(trimmed, Held(<<>>, <<>>), x)

\* The two halves of it.
LEMMA HeldIs ==
  /\ \A t, a \in Lettering : Held(t, a) \in Trimming /\ Held(t, a).text = t /\ Held(t, a).after = a
  /\ \A m \in Trimming : m.text \in Lettering /\ m.after \in Lettering /\ m = Held(m.text, m.after)
BY DEF Held, Trimming

\* Trimming is a loop over the characters.
LEMMA TrimFolds == Folds(trimmed, Held(<<>>, <<>>), Alphabet, Trimming)
<1>1. ASSUME NEW m \in Trimming, NEW c \in Alphabet PROVE trimmed[c][m] \in Trimming
  <2>1. m.text \in Lettering /\ m.after \in Lettering BY HeldIs
  <2>2. /\ Append(Cat(m.text, m.after), c) \in Lettering /\ Append(m.after, c) \in Lettering
        /\ <<>> \in Lettering
    BY <2>1, Lettered
  <2>3. /\ c \notin White => trimmed[c][m] = Held(Append(Cat(m.text, m.after), c), <<>>)
        /\ c \in White /\ m.text = <<>> => trimmed[c][m] = m
        /\ c \in White /\ m.text # <<>> => trimmed[c][m] = Held(m.text, Append(m.after, c))
    BY DEF trimmed, Held, Cat
  <2> QED BY <2>1, <2>2, <2>3, HeldIs
<1>2. Body(trimmed, Alphabet, Trimming) BY <1>1 DEF Body
<1>3. Held(<<>>, <<>>) \in Trimming BY HeldIs, Lettered
<1> QED BY <1>2, <1>3, LoopFolds

\* What it holds after one more character.
LEMMA TrimNext ==
  /\ TrimOf(<<>>) = Held(<<>>, <<>>)
  /\ \A x \in Lettering :
       /\ TrimOf(x) \in Trimming /\ TrimOf(x).text \in Lettering /\ TrimOf(x).after \in Lettering
       /\ TrimOf(x) = Held(TrimOf(x).text, TrimOf(x).after) /\ Trim(x) = TrimOf(x).text
       /\ \A c \in Alphabet :
            /\ c \notin White =>
                 TrimOf(Append(x, c)) = Held(Append(Cat(TrimOf(x).text, TrimOf(x).after), c), <<>>)
            /\ c \in White /\ TrimOf(x).text = <<>> => TrimOf(Append(x, c)) = TrimOf(x)
            /\ c \in White /\ TrimOf(x).text # <<>> =>
                 TrimOf(Append(x, c)) = Held(TrimOf(x).text, Append(TrimOf(x).after, c))
<1>1. ASSUME NEW m \in Trimming, NEW c \in Alphabet
      PROVE  /\ c \notin White => trimmed[c][m] = Held(Append(Cat(m.text, m.after), c), <<>>)
             /\ c \in White /\ m.text = <<>> => trimmed[c][m] = m
             /\ c \in White /\ m.text # <<>> => trimmed[c][m] = Held(m.text, Append(m.after, c))
  BY DEF trimmed, Held, Cat
<1>5. Folds(trimmed, Held(<<>>, <<>>), Alphabet, Trimming) BY TrimFolds
<1>6. TrimOf(<<>>) = Held(<<>>, <<>>) BY <1>5 DEF Folds, TrimOf
<1>7. \A x \in Lettering : TrimOf(x) \in Trimming BY <1>5 DEF Folds, TrimOf, Lettering
<1>8. \A x \in Lettering, c \in Alphabet : TrimOf(Append(x, c)) = trimmed[c][TrimOf(x)]
  BY <1>5 DEF Folds, TrimOf, Lettering
<1>9. \A x : Trim(x) = TrimOf(x).text BY DEF Trim, TrimOf, Held
<1> HIDE DEF TrimOf
<1> QED BY <1>1, <1>6, <1>7, <1>8, <1>9, HeldIs

\* Texts that are put together, said of texts.
LEMMA TogetherAre ==
  /\ \A x \in Lettering : Cat(x, <<>>) = x /\ Cat(<<>>, x) = x
  /\ \A x, y \in Lettering, c \in Alphabet : Cat(x, Append(y, c)) = Append(Cat(x, y), c)
  /\ \A x, y, z \in Lettering : Cat(Cat(x, y), z) = Cat(x, Cat(y, z))
  /\ \A x, y \in Lettering : Cat(x, y) = <<>> => x = <<>> /\ y = <<>>
  /\ \A x \in Lettering, c \in Alphabet : Append(x, c) # <<>>
<1>1. \A x, y \in Lettering : Len(Cat(x, y)) = Len(x) + Len(y) BY CatAppend DEF Lettering
<1>2. ASSUME NEW x \in Lettering, NEW y \in Lettering, Cat(x, y) = <<>> PROVE x = <<>> /\ y = <<>>
  <2>1. Len(x) \in Nat /\ Len(y) \in Nat BY LenProperties DEF Lettering
  <2>2. Len(x) + Len(y) = 0 BY <1>1, <1>2
  <2>3. Len(x) = 0 /\ Len(y) = 0 BY <2>1, <2>2
  <2> QED BY <2>3, EmptySeq DEF Lettering
<1>3. \A x \in Lettering : Cat(x, <<>>) = x /\ Cat(<<>>, x) = x BY CatAppend DEF Lettering
<1>4. \A x, y \in Lettering, c \in Alphabet : Cat(x, Append(y, c)) = Append(Cat(x, y), c)
  BY CatAppend DEF Lettering
<1>5. \A x, y, z \in Lettering : Cat(Cat(x, y), z) = Cat(x, Cat(y, z)) BY CatAppend DEF Lettering
<1>6. ASSUME NEW x \in Lettering, NEW c \in Alphabet PROVE Append(x, c) # <<>>
  <2>1. Len(x) \in Nat /\ Len(Append(x, c)) = Len(x) + 1 BY AppendProperties, LenProperties DEF Lettering
  <2>2. Len(<<>>) = 0 BY EmptySeq
  <2> HIDE DEF Lettering
  <2> QED BY <2>1, <2>2
<1> QED BY <1>2, <1>3, <1>4, <1>5, <1>6

\* What was trimmed stays as it is.
LEMMA TrimsOnce ==
  \A x \in Lettering :
    /\ TrimOf(TrimOf(x).text) = Held(TrimOf(x).text, <<>>)
    /\ TrimOf(Cat(TrimOf(x).text, TrimOf(x).after)) = TrimOf(x)
    /\ TrimOf(x).text = <<>> => TrimOf(x).after = <<>>
<1> DEFINE P == {x \in Lettering :
                   /\ TrimOf(TrimOf(x).text) = Held(TrimOf(x).text, <<>>)
                   /\ TrimOf(Cat(TrimOf(x).text, TrimOf(x).after)) = TrimOf(x)
                   /\ TrimOf(x).text = <<>> => TrimOf(x).after = <<>>}
<1>1. <<>> \in P
  <2>1. TrimOf(<<>>).text = <<>> /\ TrimOf(<<>>).after = <<>> BY TrimNext, HeldIs, Lettered
  <2> QED BY <2>1, TrimNext, Lettered, TogetherAre
<1>2. ASSUME NEW x \in Lettering, NEW c \in Alphabet, x \in P PROVE Append(x, c) \in P
  <2> DEFINE t == TrimOf(x).text
             a == TrimOf(x).after
             y == Append(x, c)
             b == Cat(t, a)
  <2>1. t \in Lettering /\ a \in Lettering /\ TrimOf(x) = Held(t, a) /\ y \in Lettering
    BY TrimNext, Lettered
  <2>2. TrimOf(t) = Held(t, <<>>) /\ TrimOf(b) = Held(t, a) /\ (t = <<>> => a = <<>>) BY <1>2, <2>1
  <2>3. b \in Lettering BY <2>1, Lettered
  <2>4. TrimOf(b).text = t /\ TrimOf(b).after = a BY <2>1, <2>2, HeldIs
  <2>5. /\ c \notin White => TrimOf(y) = Held(Append(b, c), <<>>)
        /\ c \in White /\ t = <<>> => TrimOf(y) = TrimOf(x)
        /\ c \in White /\ t # <<>> => TrimOf(y) = Held(t, Append(a, c))
    BY TrimNext
  <2> HIDE DEF t, a
  <2>6. CASE c \notin White
    <3> DEFINE u == Append(b, c)
    <3>1. u \in Lettering /\ u # <<>> /\ <<>> \in Lettering BY <2>3, Lettered, TogetherAre
    <3>2. TrimOf(y).text = u /\ TrimOf(y).after = <<>> BY <2>5, <2>6, <3>1, HeldIs
    <3>3. TrimOf(u) = Held(Append(Cat(t, a), c), <<>>) BY <2>3, <2>4, <2>6, TrimNext
    <3>4. Cat(u, <<>>) = u BY <3>1, TogetherAre
    <3> HIDE DEF u, y
    <3> QED BY <2>1, <2>5, <2>6, <3>1, <3>2, <3>3, <3>4 DEF u, y
  <2>7. CASE c \in White /\ t = <<>>
    <3>1. TrimOf(y) = TrimOf(x) BY <2>5, <2>7
    <3> QED BY <1>2, <2>1, <3>1
  <2>8. CASE c \in White /\ t # <<>>
    <3> DEFINE e == Append(a, c)
    <3>1. e \in Lettering BY <2>1, Lettered
    <3>2. TrimOf(y).text = t /\ TrimOf(y).after = e BY <2>1, <2>5, <2>8, <3>1, HeldIs
    <3>3. Cat(t, e) = Append(b, c) BY <2>1, TogetherAre
    <3>4. TrimOf(Append(b, c)) = Held(t, e) BY <2>3, <2>4, <2>8, TrimNext
    <3> HIDE DEF e, y
    <3> QED BY <2>1, <2>2, <2>5, <2>8, <3>2, <3>3, <3>4 DEF e, y
  <2> QED BY <2>6, <2>7, <2>8
<1> HIDE DEF P
<1>3. Lettering \subseteq P BY <1>1, <1>2, TextInduction
<1> QED BY <1>3 DEF P

\* With the white space that may follow it is the text less the white space before it.
LEMMA TrimsStart ==
  \A x \in Lettering :
    /\ Cat(TrimOf(x).text, TrimOf(x).after) = TrimStart(x, White)
    /\ TrimOf(x).after # <<>> => \E z \in Lettering, c \in White : x = Append(z, c)
<1> DEFINE P == {x \in Lettering :
                   /\ Cat(TrimOf(x).text, TrimOf(x).after) = TrimStart(x, White)
                   /\ TrimOf(x).after # <<>> => \E z \in Lettering, c \in White : x = Append(z, c)}
<1>0. \A u \in Lettering, d \in Alphabet :
        TrimStart(Append(u, d), White) =
          IF TrimStart(u, White) = <<>> /\ d \in White THEN <<>> ELSE Append(TrimStart(u, White), d)
  BY DropNext
<1>1. <<>> \in P
  <2>1. TrimOf(<<>>).text = <<>> /\ TrimOf(<<>>).after = <<>> BY TrimNext, HeldIs, Lettered
  <2> QED BY <2>1, DropNext, Lettered, TogetherAre
<1>2. ASSUME NEW x \in Lettering, NEW c \in Alphabet, x \in P PROVE Append(x, c) \in P
  <2> DEFINE t == TrimOf(x).text
             a == TrimOf(x).after
             y == Append(x, c)
             b == Cat(t, a)
  <2>1. t \in Lettering /\ a \in Lettering /\ TrimOf(x) = Held(t, a) /\ y \in Lettering
    BY TrimNext, Lettered
  <2>2. b = TrimStart(x, White) /\ (t = <<>> => a = <<>>) BY <1>2, <2>1, TrimsOnce
  <2>3. b \in Lettering BY <2>1, Lettered
  <2>4. TrimStart(y, White) = IF b = <<>> /\ c \in White THEN <<>> ELSE Append(b, c)
    BY <1>0, <2>2
  <2>5. /\ c \notin White => TrimOf(y) = Held(Append(b, c), <<>>)
        /\ c \in White /\ t = <<>> => TrimOf(y) = TrimOf(x)
        /\ c \in White /\ t # <<>> => TrimOf(y) = Held(t, Append(a, c))
    BY TrimNext
  <2>5a. c \in White => \E z \in Lettering, d \in White : y = Append(z, d) OBVIOUS
  <2> HIDE DEF t, a
  <2>6. CASE c \notin White
    <3> DEFINE u == Append(b, c)
    <3>1. u \in Lettering /\ <<>> \in Lettering BY <2>3, Lettered
    <3>2. TrimOf(y).text = u /\ TrimOf(y).after = <<>> BY <2>5, <2>6, <3>1, HeldIs
    <3>3. Cat(u, <<>>) = u BY <3>1, TogetherAre
    <3> HIDE DEF u, y
    <3> QED BY <2>1, <2>4, <2>6, <3>2, <3>3 DEF u, y
  <2>7. CASE c \in White /\ t = <<>>
    <3>1. TrimOf(y).text = t /\ TrimOf(y).after = a BY <2>5, <2>7 DEF t, a
    <3>2. b = <<>> BY <2>1, <2>2, <2>7, TogetherAre
    <3> HIDE DEF y
    <3> QED BY <2>1, <2>2, <2>4, <2>7, <3>1, <3>2 DEF y
  <2>8. CASE c \in White /\ t # <<>>
    <3> DEFINE e == Append(a, c)
    <3>1. e \in Lettering BY <2>1, Lettered
    <3>2. TrimOf(y).text = t /\ TrimOf(y).after = e BY <2>1, <2>5, <2>8, <3>1, HeldIs
    <3>3. Cat(t, e) = Append(b, c) BY <2>1, TogetherAre
    <3>4. b # <<>> BY <2>1, <2>8, TogetherAre
    <3> HIDE DEF e, y, b
    <3> QED BY <2>1, <2>4, <2>5a, <2>8, <3>2, <3>3, <3>4 DEF y
  <2> QED BY <2>6, <2>7, <2>8
<1> HIDE DEF P
<1>3. Lettering \subseteq P BY <1>1, <1>2, TextInduction
<1> QED BY <1>3 DEF P

\* White space at the end is not kept.
LEMMA WhiteIsDropped ==
  ASSUME NEW z \in Lettering, NEW c \in White
  PROVE  TrimOf(Append(z, c)) # Held(Append(z, c), <<>>)
<1> DEFINE y == Append(z, c)
           t == TrimOf(z).text
           a == TrimOf(z).after
<1>1. c \in Alphabet BY Letters
<1>2. t \in Lettering /\ a \in Lettering /\ TrimOf(z) = Held(t, a) /\ y \in Lettering /\ y # <<>>
  BY <1>1, TrimNext, Lettered, TogetherAre
<1>3. CASE t = <<>>
  <2>1. TrimOf(y).text = <<>> BY <1>1, <1>3, TrimNext
  <2>2. Held(y, <<>>).text = y BY <1>2, HeldIs, Lettered
  <2> HIDE DEF y
  <2> QED BY <1>2, <2>1, <2>2 DEF y
<1>4. CASE t # <<>>
  <2>1. TrimOf(y) = Held(t, Append(a, c)) BY <1>1, <1>4, TrimNext
  <2>2. Append(a, c) \in Lettering /\ Append(a, c) # <<>> BY <1>1, <1>2, Lettered, TogetherAre
  <2>3. TrimOf(y).after = Append(a, c) BY <2>1 DEF Held
  <2>4. Held(y, <<>>).after = <<>> BY DEF Held
  <2> HIDE DEF y
  <2> QED BY <2>2, <2>3, <2>4 DEF y
<1> QED BY <1>3, <1>4

-----------------------------------------------------------------------------
\* Dropping fewer characters after more changes nothing.
LEMMA DropsOnce ==
  ASSUME NEW S, NEW R, R \subseteq S
  PROVE  \A x \in Lettering : TrimStart(TrimStart(x, S), R) = TrimStart(x, S)
<1> DEFINE P == {x \in Lettering : TrimStart(TrimStart(x, S), R) = TrimStart(x, S)}
<1>0. \A u \in Lettering, d \in Alphabet :
        TrimStart(Append(u, d), S) =
          IF TrimStart(u, S) = <<>> /\ d \in S THEN <<>> ELSE Append(TrimStart(u, S), d)
  BY DropNext
<1>0a. \A u \in Lettering, d \in Alphabet :
         TrimStart(Append(u, d), R) =
           IF TrimStart(u, R) = <<>> /\ d \in R THEN <<>> ELSE Append(TrimStart(u, R), d)
  BY DropNext
<1>1. <<>> \in P BY DropNext, Lettered
<1>2. ASSUME NEW x \in Lettering, NEW c \in Alphabet, x \in P PROVE Append(x, c) \in P
  <2> DEFINE y == TrimStart(x, S)
  <2>1. y \in Lettering /\ TrimStart(y, R) = y /\ Append(x, c) \in Lettering BY <1>2, DropNext, Lettered
  <2>2. TrimStart(Append(x, c), S) = IF y = <<>> /\ c \in S THEN <<>> ELSE Append(y, c) BY <1>0
  <2>3. TrimStart(Append(y, c), R) = IF y = <<>> /\ c \in R THEN <<>> ELSE Append(y, c)
    BY <1>0a, <2>1
  <2>4. TrimStart(<<>>, R) = <<>> BY DropNext
  <2> HIDE DEF y
  <2> QED BY <2>1, <2>2, <2>3, <2>4
<1> HIDE DEF P
<1>3. Lettering \subseteq P BY <1>1, <1>2, TextInduction
<1> QED BY <1>3 DEF P

\* What is dropped are such characters.
LEMMA DropsThose ==
  ASSUME NEW S
  PROVE  \A x \in Lettering : \E q \in Lettering : q \in Seq(S) /\ x = Cat(q, TrimStart(x, S))
<1> DEFINE P == {x \in Lettering : \E q \in Lettering : q \in Seq(S) /\ x = Cat(q, TrimStart(x, S))}
<1>0. <<>> \in Seq(S) BY FewItems DEF Few
<1>1. <<>> \in P BY <1>0, DropNext, Lettered, TogetherAre
<1>2. ASSUME NEW x \in Lettering, NEW c \in Alphabet, x \in P PROVE Append(x, c) \in P
  <2> DEFINE y == TrimStart(x, S)
             z == TrimStart(Append(x, c), S)
  <2>1. PICK q \in Lettering : q \in Seq(S) /\ x = Cat(q, y) BY <1>2
  <2>2. y \in Lettering /\ Append(x, c) \in Lettering BY DropNext, Lettered
  <2>3. z = IF y = <<>> /\ c \in S THEN <<>> ELSE Append(y, c) BY DropNext
  <2> HIDE DEF y, z
  <2>4. CASE y = <<>> /\ c \in S
    <3>1. x = q BY <2>1, <2>4, TogetherAre
    <3>2. Append(q, c) \in Lettering /\ Append(q, c) \in Seq(S) BY <2>1, <2>4, Lettered
    <3>3. Cat(Append(q, c), z) = Append(q, c) BY <2>3, <2>4, <3>2, TogetherAre
    <3> QED BY <2>2, <3>1, <3>2, <3>3 DEF z
  <2>5. CASE ~ (y = <<>> /\ c \in S)
    <3>0. z = Append(y, c) BY <2>3, <2>5
    <3>0a. Cat(q, Append(y, c)) = Append(Cat(q, y), c) BY <2>2, TogetherAre
    <3>1. Cat(q, z) = Append(x, c) BY <2>1, <3>0, <3>0a
    <3> QED BY <2>1, <2>2, <3>1 DEF z
  <2> QED BY <2>4, <2>5
<1> HIDE DEF P
<1>3. Lettering \subseteq P BY <1>1, <1>2, TextInduction
<1> QED BY <1>3 DEF P

\* Nothing is dropped from a text that begins with something else.
LEMMA DropsNothing ==
  ASSUME NEW S
  PROVE  \A x \in Lettering : x # <<>> /\ x[1] \notin S => TrimStart(x, S) = x
<1> DEFINE P == {x \in Lettering : x # <<>> /\ x[1] \notin S => TrimStart(x, S) = x}
<1>1. <<>> \in P BY Lettered
<1>2. ASSUME NEW x \in Lettering, NEW c \in Alphabet, x \in P PROVE Append(x, c) \in P
  <2> DEFINE y == Append(x, c)
  <2>0. y \in Lettering BY Lettered
  <2>1. TrimStart(y, S) = IF TrimStart(x, S) = <<>> /\ c \in S THEN <<>> ELSE Append(TrimStart(x, S), c)
    BY DropNext
  <2>2. CASE x = <<>>
    <3>1. y[1] = c BY <2>2
    <3>2. TrimStart(x, S) = x BY <2>2, DropNext
    <3> HIDE DEF y
    <3> QED BY <2>0, <2>1, <3>1, <3>2 DEF y
  <2>3. CASE x # <<>>
    <3>1. Len(x) \in Nat /\ Len(x) # 0 BY <2>3, LenProperties, EmptySeq DEF Lettering
    <3>2. y[1] = x[1] BY <3>1, AppendProperties DEF Lettering
    <3>3. y[1] \notin S => TrimStart(x, S) = x BY <1>2, <2>3, <3>2
    <3> HIDE DEF y
    <3> QED BY <2>0, <2>1, <2>3, <3>3 DEF y
  <2> QED BY <2>2, <2>3
<1> HIDE DEF P
<1>3. Lettering \subseteq P BY <1>1, <1>2, TextInduction
<1> QED BY <1>3 DEF P

\* What a text is cut into.
Within == Alphabet \ {"nl"}
Row == Seq(Within)
Cut(text) == CutOf(Alphabet, "nl", text)

\* The lines so far, and how one more character changes them.
LEMMA LinesAre ==
  /\ Cut(<<>>) = Halfway(<<>>, <<>>)
  /\ \A x \in Lettering :
       /\ Cut(x).done \in Seq(Row) /\ Cut(x).last \in Row
       /\ Lines(x) = Append(Cut(x).done, Cut(x).last) /\ Lines(x) \in Seq(Row)
       /\ Cut(Append(x, "nl")) = Halfway(Append(Cut(x).done, Cut(x).last), <<>>)
       /\ \A c \in Within : Cut(Append(x, c)) = Halfway(Cut(x).done, Append(Cut(x).last, c))
<1>1. "nl" \in Alphabet /\ Others(Alphabet, "nl", Within) BY Letters DEF Others, Within
<1>2. \A x \in Lettering : CutAt(Alphabet, "nl", Within, x) BY <1>1, CutsText DEF Lettering
<1>3. Cut(<<>>) = Halfway(<<>>, <<>>) BY <1>1, CutsText DEF Cut
<1> QED BY <1>2, <1>3 DEF CutAt, Cut, Lines, Row

\* More of a line only lengthens the last one.
LEMMA CutOn ==
  ASSUME NEW x \in Lettering
  PROVE  \A p \in Row : Cut(Cat(x, p)) = Halfway(Cut(x).done, Cat(Cut(x).last, p))
<1>1. "nl" \in Alphabet /\ Others(Alphabet, "nl", Within) BY Letters DEF Others, Within
<1> QED BY <1>1, CutsPast DEF Cut, Row, Lettering

\* Lines are texts.
LEMMA RowsAre == Row \subseteq Lettering /\ Seq(Row) \subseteq Seq(Lettering) /\ <<>> \in Row /\ <<>> \in Seq(Row)
<1>1. Row \subseteq Lettering BY DEF Row, Within, Lettering
<1>2. <<>> \in Row /\ <<>> \in Seq(Row) BY FewItems DEF Few, Row
<1> QED BY <1>1, <1>2

\* What stays of a line when it is shown.
Core(line) == TrimStart(Trim(line), Markers)

\* It is one text or none.
LEMMA SolidIs == \A x \in Lettering : Solid(x) \in Seq(Lettering)
<1>1. \A x \in Lettering : <<x>> \in Seq(Lettering) BY FewItems DEF Few
<1> QED BY <1>1, Lettered DEF Solid

\* A line is shown without its markers, unless nothing else is left.
LEMMA ListedIs ==
  \A line \in Lettering : /\ Trim(line) \in Lettering /\ Core(line) \in Lettering
                          /\ listed[line] = Solid(Core(line)) /\ listed[line] \in Seq(Lettering)
<1> SUFFICES ASSUME NEW line \in Lettering
             PROVE  /\ Trim(line) \in Lettering /\ Core(line) \in Lettering
                    /\ listed[line] = Solid(Core(line)) /\ listed[line] \in Seq(Lettering)
  OBVIOUS
<1> DEFINE t == Trim(line)
<1>1. t \in Lettering BY TrimNext
<1>2. Core(line) \in Lettering BY <1>1, DropNext DEF Core
<1>3. TrimStart(TrimStart(t, Markers), {" "}) = TrimStart(t, Markers)
  <2>1. {" "} \subseteq Markers BY DEF Markers
  <2> QED BY <1>1, <2>1, DropsOnce
<1>4. listed[line] = IF t = <<>> THEN <<>> ELSE Solid(TrimStart(TrimStart(t, Markers), {" "}))
  BY DEF listed
<1>5. t = <<>> => Core(line) = <<>> BY DropNext DEF Core
<1>6. listed[line] = Solid(Core(line)) BY <1>3, <1>4, <1>5 DEF Core, Solid
<1> QED BY <1>1, <1>2, <1>6, SolidIs

\* The lines are shown one after the other.
LEMMA ListedSpells == Spells(listed, Lettering, Lettering)
BY ListedIs, Eaching DEF Gives

\* What is shown of a text, from what it is cut into.
LEMMA ShownIs ==
  \A x \in Lettering :
    /\ from_text(x) = Cat(Each(listed, Cut(x).done), listed[Cut(x).last]) /\ from_text(x) \in Seq(Lettering)
    /\ Cut(x).done \in Seq(Lettering) /\ Cut(x).last \in Lettering
    /\ Each(listed, Cut(x).done) \in Seq(Lettering) /\ listed[Cut(x).last] \in Seq(Lettering)
<1> SUFFICES ASSUME NEW x \in Lettering
             PROVE  /\ from_text(x) = Cat(Each(listed, Cut(x).done), listed[Cut(x).last])
                    /\ from_text(x) \in Seq(Lettering)
                    /\ Cut(x).done \in Seq(Lettering) /\ Cut(x).last \in Lettering
                    /\ Each(listed, Cut(x).done) \in Seq(Lettering) /\ listed[Cut(x).last] \in Seq(Lettering)
  OBVIOUS
<1>1. Cut(x).done \in Seq(Lettering) /\ Cut(x).last \in Lettering BY LinesAre, RowsAre
<1>2. from_text(x) = Each(listed, Append(Cut(x).done, Cut(x).last)) BY LinesAre DEF from_text
<1>3. /\ \A s \in Seq(Lettering), y \in Lettering : Each(listed, Append(s, y)) = Cat(Each(listed, s), listed[y])
      /\ \A s \in Seq(Lettering) : Each(listed, s) \in Seq(Lettering)
  BY ListedSpells DEF Spells
<1>4. listed[Cut(x).last] \in Seq(Lettering) BY <1>1, ListedIs
<1>5. Each(listed, Cut(x).done) \in Seq(Lettering) BY <1>1, <1>3
<1>6. from_text(x) = Cat(Each(listed, Cut(x).done), listed[Cut(x).last]) BY <1>1, <1>2, <1>3
<1>7. from_text(x) \in Seq(Lettering)
  <2>1. \A s, t \in Seq(Lettering) : Cat(s, t) \in Seq(Lettering) BY CatAppend
  <2> QED BY <1>4, <1>5, <1>6, <2>1
<1> QED BY <1>1, <1>4, <1>5, <1>6, <1>7

-----------------------------------------------------------------------------
\* White space around a line and after a text is not shown.
LEMMA SpaceAfter == \A x \in Lettering, c \in White : Trim(Append(x, c)) = Trim(x)
<1> SUFFICES ASSUME NEW x \in Lettering, NEW c \in White PROVE Trim(Append(x, c)) = Trim(x) OBVIOUS
<1>1. c \in Alphabet BY Letters
<1>2. Append(x, c) \in Lettering BY <1>1, Lettered
<1>3. Trim(Append(x, c)) = TrimOf(Append(x, c)).text /\ Trim(x) = TrimOf(x).text BY <1>2, TrimNext
<1>4. CASE TrimOf(x).text = <<>> BY <1>1, <1>3, <1>4, TrimNext
<1>5. CASE TrimOf(x).text # <<>>
  <2>1. TrimOf(Append(x, c)) = Held(TrimOf(x).text, Append(TrimOf(x).after, c)) BY <1>1, <1>5, TrimNext
  <2> QED BY <1>3, <2>1 DEF Held
<1> QED BY <1>4, <1>5

\* Texts of blanks.
Blanks == {" "}
BlankText == Seq(Blanks)

\* Blanks are white space and markers, and part of a line.
LEMMA BlanksAre == /\ Blanks \subseteq White /\ Blanks \subseteq Alphabet /\ Blanks \subseteq Markers
                   /\ Blanks \subseteq Within /\ BlankText \subseteq Lettering
                   /\ <<>> \in BlankText /\ \A q \in BlankText, c \in Blanks : Append(q, c) \in BlankText
<1>1. Blanks \subseteq White /\ Blanks \subseteq Alphabet /\ Blanks \subseteq Markers /\ Blanks \subseteq Within
  BY DEF Blanks, White, Alphabet, Markers, Within
<1>2. <<>> \in BlankText BY FewItems DEF Few, BlankText
<1>3. BlankText \subseteq Lettering
  <2> HIDE DEF Blanks, Alphabet
  <2> QED BY <1>1 DEF BlankText, Lettering
<1>4. \A q \in BlankText, c \in Blanks : Append(q, c) \in BlankText BY DEF BlankText
<1> QED BY <1>1, <1>2, <1>3, <1>4

\* Blanks before a text are trimmed.
LEMMA SpaceBefore ==
  \A q \in BlankText, y \in Lettering : q \in Lettering /\ Trim(q) = <<>> /\ Trim(Cat(q, y)) = Trim(y)
<1> DEFINE P == {q \in BlankText : TrimOf(q) = Held(<<>>, <<>>)}
<1>1. <<>> \in P BY BlanksAre, TrimNext
<1>2. ASSUME NEW q \in BlankText, NEW c \in Blanks, q \in P PROVE Append(q, c) \in P
  <2>1. q \in Lettering /\ Append(q, c) \in BlankText /\ c \in White /\ c \in Alphabet BY BlanksAre
  <2>1a. TrimOf(q) = Held(<<>>, <<>>) BY <1>2
  <2>2. TrimOf(q).text = <<>> BY <2>1a DEF Held
  <2>3. TrimOf(Append(q, c)) = TrimOf(q) BY <2>1, <2>2, TrimNext
  <2> QED BY <2>1a, <2>1, <2>3
<1> HIDE DEF P
<1>3. BlankText \subseteq P BY <1>1, <1>2, SeqInduction DEF BlankText
<1>4. \A q \in BlankText : TrimOf(q) = Held(<<>>, <<>>) BY <1>3 DEF P
<1>5. ASSUME NEW q \in BlankText, NEW y \in Lettering
      PROVE  q \in Lettering /\ Trim(q) = <<>> /\ Trim(Cat(q, y)) = Trim(y)
  <2>1. q \in Lettering /\ Cat(q, y) \in Lettering BY BlanksAre, Lettered
  <2>2. TrimOf(Cat(q, y)) = TrimOf(y)
    <3>1. TrimOf(Cat(q, y)) = Folded(trimmed, TrimOf(q), y)
      <4>1. Folds(trimmed, Held(<<>>, <<>>), Alphabet, Trimming) BY TrimFolds
      <4> QED BY <2>1, <4>1 DEF Folds, TrimOf, Lettering
    <3> QED BY <1>4, <3>1 DEF TrimOf
  <2>3. Trim(q) = TrimOf(q).text /\ Trim(y) = TrimOf(y).text /\ Trim(Cat(q, y)) = TrimOf(Cat(q, y)).text
    BY <2>1, TrimNext
  <2>4. TrimOf(q).text = <<>>
    <3>1. TrimOf(q) = Held(<<>>, <<>>) BY <1>4
    <3> QED BY <3>1 DEF Held
  <2> QED BY <2>1, <2>2, <2>3, <2>4
<1> QED BY <1>5

\* One more character of white space changes nothing that is shown.
LEMMA ShownAfter == \A x \in Lettering, c \in White : from_text(Append(x, c)) = from_text(x)
<1> SUFFICES ASSUME NEW x \in Lettering, NEW c \in White PROVE from_text(Append(x, c)) = from_text(x)
  OBVIOUS
<1> DEFINE d == Cut(x).done
           l == Cut(x).last
           y == Append(x, c)
           e == Each(listed, d)
<1>1. c \in Alphabet /\ y \in Lettering BY Letters, Lettered
<1>2. d \in Seq(Lettering) /\ l \in Lettering /\ e \in Seq(Lettering) /\ listed[l] \in Seq(Lettering)
      /\ from_text(x) = Cat(e, listed[l])
  BY ShownIs
<1>3. from_text(y) = Cat(Each(listed, Cut(y).done), listed[Cut(y).last]) BY <1>1, ShownIs
<1>4. CASE c = "nl"
  <2>1. Cut(y) = Halfway(Append(d, l), <<>>) BY <1>4, LinesAre
  <2> HIDE DEF d, l, y
  <2>2. Cut(y).done = Append(d, l) /\ Cut(y).last = <<>> BY <2>1 DEF Halfway
  <2>3. Each(listed, Append(d, l)) = Cat(e, listed[l]) BY <1>2, ListedSpells DEF Spells
  <2>4. listed[<<>>] = <<>>
    <3>1. Trim(<<>>) = <<>> BY TrimNext, Lettered, HeldIs
    <3> QED BY <3>1, ListedIs, DropNext, Lettered DEF Core, Solid
  <2>4a. \A s, t \in Seq(Lettering) : Cat(s, t) \in Seq(Lettering) BY CatAppend
  <2>5. Cat(e, listed[l]) \in Seq(Lettering) BY <1>2, <2>4a
  <2>6. Cat(Cat(e, listed[l]), <<>>) = Cat(e, listed[l]) BY <2>5, CatAppend
  <2> QED BY <1>2, <1>3, <2>2, <2>3, <2>4, <2>6 DEF y
<1>5. CASE c # "nl"
  <2>0. c \in Within BY <1>1, <1>5 DEF Within
  <2>1. Cut(y) = Halfway(d, Append(l, c)) BY <2>0, LinesAre
  <2> HIDE DEF d, l, y
  <2>2. Cut(y).done = d /\ Cut(y).last = Append(l, c) BY <2>1 DEF Halfway
  <2>3. Append(l, c) \in Lettering /\ Trim(Append(l, c)) = Trim(l) BY <1>1, <1>2, SpaceAfter, Lettered
  <2>4. listed[Append(l, c)] = listed[l] BY <1>2, <2>3, ListedIs DEF Core
  <2> QED BY <1>2, <1>3, <2>2, <2>4 DEF y
<1> QED BY <1>4, <1>5

\* What may be trimmed at the end is white space.
LEMMA AfterIsWhite == \A x \in Lettering : TrimOf(x).after \in Seq(White)
<1> DEFINE P == {x \in Lettering : TrimOf(x).after \in Seq(White)}
<1>1. <<>> \in P
  <2>1. TrimOf(<<>>).after = <<>> BY TrimNext, HeldIs, Lettered
  <2> QED BY <2>1, Lettered, Texted
<1>2. ASSUME NEW x \in Lettering, NEW c \in Alphabet, x \in P PROVE Append(x, c) \in P
  <2> DEFINE y == Append(x, c)
             t == TrimOf(x).text
             a == TrimOf(x).after
  <2>1. a \in Seq(White) /\ a \in Lettering /\ y \in Lettering BY <1>2, TrimNext, Lettered
  <2>2. /\ c \notin White => TrimOf(y) = Held(Append(Cat(t, a), c), <<>>)
        /\ c \in White /\ t = <<>> => TrimOf(y) = TrimOf(x)
        /\ c \in White /\ t # <<>> => TrimOf(y) = Held(t, Append(a, c))
    BY TrimNext
  <2> HIDE DEF t
  <2>3. TrimOf(y).after \in Seq(White)
    <3>1. CASE c \notin White
      <4>1. TrimOf(y).after = <<>> BY <2>2, <3>1 DEF Held
      <4> QED BY <4>1, Texted
    <3>2. CASE c \in White /\ t = <<>> BY <2>1, <2>2, <3>2
    <3>3. CASE c \in White /\ t # <<>>
      <4> HIDE DEF a
      <4>1. TrimOf(y).after = Append(a, c) BY <2>2, <3>3 DEF Held
      <4>2. Append(a, c) \in Seq(White) BY <2>1, <3>3, Texted
      <4> QED BY <4>1, <4>2
    <3> QED BY <3>1, <3>2, <3>3
  <2> QED BY <2>1, <2>3
<1> HIDE DEF P
<1>3. Lettering \subseteq P BY <1>1, <1>2, TextInduction
<1> QED BY <1>3 DEF P

\* White space after a text is not shown.
LEMMA SpaceBehind ==
  \A x \in Lettering, a \in Seq(White) : Cat(x, a) \in Lettering /\ from_text(Cat(x, a)) = from_text(x)
<1> SUFFICES ASSUME NEW x \in Lettering
             PROVE  \A a \in Seq(White) : Cat(x, a) \in Lettering /\ from_text(Cat(x, a)) = from_text(x)
  OBVIOUS
<1> DEFINE P == {a \in Seq(White) : a \in Lettering /\ from_text(Cat(x, a)) = from_text(x)}
<1>1. <<>> \in P BY Texted, Lettered, TogetherAre
<1>2. ASSUME NEW a \in Seq(White), NEW c \in White, a \in P PROVE Append(a, c) \in P
  <2>1. a \in Lettering /\ c \in Alphabet /\ Append(a, c) \in Seq(White) BY <1>2, Letters, Texted
  <2>2. Cat(x, a) \in Lettering /\ Append(a, c) \in Lettering BY <2>1, Lettered
  <2>3. Cat(x, Append(a, c)) = Append(Cat(x, a), c) BY <2>1, TogetherAre
  <2>4. from_text(Append(Cat(x, a), c)) = from_text(Cat(x, a)) BY <2>2, ShownAfter
  <2>5. from_text(Cat(x, a)) = from_text(x) BY <1>2
  <2> QED BY <2>1, <2>2, <2>3, <2>4, <2>5
<1> HIDE DEF P
<1>3. Seq(White) \subseteq P BY <1>1, <1>2, SeqInduction
<1> QED BY <1>3, Lettered DEF P

\* A line of blanks is not shown, nor blanks before another.
LEMMA BlankLines ==
  \A q \in BlankText, y \in Lettering :
    q \in Lettering /\ Cat(q, y) \in Lettering /\ listed[q] = <<>> /\ listed[Cat(q, y)] = listed[y]
<1> SUFFICES ASSUME NEW q \in BlankText, NEW y \in Lettering
             PROVE  /\ q \in Lettering /\ Cat(q, y) \in Lettering /\ listed[q] = <<>>
                    /\ listed[Cat(q, y)] = listed[y]
  OBVIOUS
<1>1. q \in Lettering /\ Trim(q) = <<>> /\ Trim(Cat(q, y)) = Trim(y) BY SpaceBefore
<1>2. Cat(q, y) \in Lettering BY <1>1, Lettered
<1>3. Core(q) = <<>> BY <1>1, DropNext DEF Core
<1>4. Core(Cat(q, y)) = Core(y) BY <1>1 DEF Core
<1>5. listed[q] = Solid(Core(q)) BY <1>1, ListedIs
<1>6. listed[Cat(q, y)] = Solid(Core(Cat(q, y))) /\ listed[y] = Solid(Core(y)) BY <1>2, ListedIs
<1>7. listed[q] = <<>> BY <1>3, <1>5 DEF Solid
<1>8. listed[Cat(q, y)] = listed[y] BY <1>4, <1>6
<1> QED BY <1>1, <1>2, <1>7, <1>8

\* Two texts are shown alike so far: the lines cut off are, and the rest differs by blanks.
Alike(x, v) ==
  /\ Each(listed, Cut(x).done) = Each(listed, Cut(v).done)
  /\ \E q \in BlankText : Cut(x).last = Cat(q, Cut(v).last)

\* The same character more leaves texts alike.
LEMMA AlikeOn ==
  \A x, v \in Lettering, c \in Alphabet : Alike(x, v) => Alike(Append(x, c), Append(v, c))
<1> SUFFICES ASSUME NEW x \in Lettering, NEW v \in Lettering, NEW c \in Alphabet, Alike(x, v)
             PROVE  Alike(Append(x, c), Append(v, c))
  OBVIOUS
<1> DEFINE d == Cut(x).done
           l == Cut(x).last
           dv == Cut(v).done
           lv == Cut(v).last
<1>1. d \in Seq(Lettering) /\ l \in Lettering /\ dv \in Seq(Lettering) /\ lv \in Lettering BY ShownIs
<1>2. PICK q \in BlankText : l = Cat(q, lv) BY DEF Alike
<1>3. Each(listed, d) = Each(listed, dv) BY DEF Alike
<1>4. q \in Lettering /\ listed[l] = listed[lv] BY <1>1, <1>2, BlankLines
<1>5. CASE c = "nl"
  <2>1. Cut(Append(x, c)) = Halfway(Append(d, l), <<>>) /\ Cut(Append(v, c)) = Halfway(Append(dv, lv), <<>>)
    BY <1>5, LinesAre
  <2>2. \A s \in Seq(Lettering), z \in Lettering : Each(listed, Append(s, z)) = Cat(Each(listed, s), listed[z])
    BY ListedSpells DEF Spells
  <2>3. Each(listed, Append(d, l)) = Each(listed, Append(dv, lv)) BY <1>1, <1>3, <1>4, <2>2
  <2> HIDE DEF d, l, dv, lv
  <2>4. /\ Cut(Append(x, c)).done = Append(d, l) /\ Cut(Append(x, c)).last = <<>>
        /\ Cut(Append(v, c)).done = Append(dv, lv) /\ Cut(Append(v, c)).last = <<>>
    BY <2>1 DEF Halfway
  <2>5. <<>> = Cat(<<>>, <<>>) /\ <<>> \in BlankText BY Lettered, TogetherAre, BlanksAre
  <2> QED BY <2>3, <2>4, <2>5 DEF Alike
<1>6. CASE c # "nl"
  <2>0. c \in Within BY <1>6 DEF Within
  <2>1. /\ Cut(Append(x, c)) = Halfway(d, Append(l, c))
        /\ Cut(Append(v, c)) = Halfway(dv, Append(lv, c))
    BY <2>0, LinesAre
  <2> HIDE DEF d, l, dv, lv
  <2>2. Append(l, c) = Cat(q, Append(lv, c))
    <3>1. Cat(q, Append(lv, c)) = Append(Cat(q, lv), c) BY <1>1, <1>4, TogetherAre
    <3> QED BY <1>2, <3>1
  <2>4. /\ Cut(Append(x, c)).done = d /\ Cut(Append(x, c)).last = Append(l, c)
        /\ Cut(Append(v, c)).done = dv /\ Cut(Append(v, c)).last = Append(lv, c)
    BY <2>1 DEF Halfway
  <2> QED BY <1>3, <2>2, <2>4 DEF Alike
<1> QED BY <1>5, <1>6

\* White space leaves a text alike to nothing at all.
LEMMA AlikeBefore == \A x \in Lettering, c \in White : Alike(x, <<>>) => Alike(Append(x, c), <<>>)
<1> SUFFICES ASSUME NEW x \in Lettering, NEW c \in White, Alike(x, <<>>) PROVE Alike(Append(x, c), <<>>)
  OBVIOUS
<1> DEFINE d == Cut(x).done
           l == Cut(x).last
<1>0. Each(listed, <<>>) = <<>> BY ListedSpells DEF Spells
<1>1. Cut(<<>>).done = <<>> /\ Cut(<<>>).last = <<>>
  <2>1. Cut(<<>>) = Halfway(<<>>, <<>>) BY LinesAre
  <2> QED BY <2>1 DEF Halfway
<1>2. PICK q \in BlankText : l = Cat(q, <<>>) BY <1>1 DEF Alike
<1>3. Each(listed, d) = <<>> BY <1>0, <1>1 DEF Alike
<1>4. q \in Lettering /\ l = q /\ listed[q] = <<>> /\ c \in Alphabet
  BY <1>2, BlankLines, Lettered, TogetherAre, Letters
<1>4a. d \in Seq(Lettering) /\ l \in Lettering BY ShownIs
<1>5. CASE c = "nl"
  <2>1. Cut(Append(x, c)) = Halfway(Append(d, l), <<>>) BY <1>5, LinesAre
  <2>2. Each(listed, Append(d, l)) = Cat(Each(listed, d), listed[l])
    BY <1>4a, ListedSpells DEF Spells
  <2>3. Each(listed, Append(d, l)) = <<>> BY <1>3, <1>4, <2>2, Lettered, TogetherAre
  <2> HIDE DEF d, l
  <2>4. Cut(Append(x, c)).done = Append(d, l) /\ Cut(Append(x, c)).last = <<>> BY <2>1 DEF Halfway
  <2>5. <<>> = Cat(<<>>, <<>>) /\ <<>> \in BlankText BY Lettered, TogetherAre, BlanksAre
  <2> QED BY <1>0, <1>1, <2>3, <2>4, <2>5 DEF Alike
<1>6. CASE c # "nl"
  <2>0. c \in Within /\ c \in Blanks BY <1>6 DEF Within, White, Blanks, Alphabet
  <2>1. Cut(Append(x, c)) = Halfway(d, Append(l, c)) BY <2>0, LinesAre
  <2>2. Append(q, c) \in BlankText BY <2>0, BlanksAre
  <2>3. Append(l, c) = Cat(Append(q, c), <<>>) BY <1>4, <2>2, BlanksAre, TogetherAre
  <2> HIDE DEF d, l
  <2>4. Cut(Append(x, c)).done = d /\ Cut(Append(x, c)).last = Append(l, c) BY <2>1 DEF Halfway
  <2> QED BY <1>0, <1>1, <1>3, <2>2, <2>3, <2>4 DEF Alike
<1> QED BY <1>5, <1>6

\* White space before a text is not shown.
LEMMA SpaceInFront == \A x \in Lettering : from_text(TrimStart(x, White)) = from_text(x)
<1> DEFINE P == {x \in Lettering : Alike(x, TrimStart(x, White))}
<1>1. <<>> \in P
  <2>1. Cut(<<>>).last = Cat(<<>>, Cut(<<>>).last) /\ <<>> \in BlankText
    <3>1. Cut(<<>>).last \in Lettering BY ShownIs, Lettered
    <3> QED BY <3>1, TogetherAre, BlanksAre
  <2>2. Alike(<<>>, <<>>) BY <2>1 DEF Alike
  <2> QED BY <2>2, DropNext, Lettered
<1>2. ASSUME NEW x \in Lettering, NEW c \in Alphabet, x \in P PROVE Append(x, c) \in P
  <2> DEFINE v == TrimStart(x, White)
  <2>0. \A u \in Lettering, e \in Alphabet :
          TrimStart(Append(u, e), White) =
            IF TrimStart(u, White) = <<>> /\ e \in White THEN <<>> ELSE Append(TrimStart(u, White), e)
    BY DropNext
  <2>1. v \in Lettering /\ Alike(x, v) /\ Append(x, c) \in Lettering BY <1>2, DropNext, Lettered
  <2>2. TrimStart(Append(x, c), White) = IF v = <<>> /\ c \in White THEN <<>> ELSE Append(v, c) BY <2>0
  <2> HIDE DEF v
  <2>3. CASE v = <<>> /\ c \in White BY <2>1, <2>2, <2>3, AlikeBefore
  <2>4. CASE ~ (v = <<>> /\ c \in White) BY <2>1, <2>2, <2>4, AlikeOn
  <2> QED BY <2>3, <2>4
<1> HIDE DEF P
<1>3. Lettering \subseteq P BY <1>1, <1>2, TextInduction
<1>4. ASSUME NEW x \in Lettering, NEW v \in Lettering, Alike(x, v) PROVE from_text(x) = from_text(v)
  <2>1. PICK q \in BlankText : Cut(x).last = Cat(q, Cut(v).last) BY <1>4 DEF Alike
  <2>2. Each(listed, Cut(x).done) = Each(listed, Cut(v).done) BY <1>4 DEF Alike
  <2>3. Cut(v).last \in Lettering BY ShownIs
  <2>4. listed[Cut(x).last] = listed[Cut(v).last] BY <2>1, <2>3, BlankLines
  <2> QED BY <2>2, <2>4, ShownIs
<1>5. ASSUME NEW x \in Lettering PROVE from_text(TrimStart(x, White)) = from_text(x)
  <2>1. Alike(x, TrimStart(x, White)) BY <1>3 DEF P
  <2>2. TrimStart(x, White) \in Lettering BY DropNext
  <2> QED BY <1>4, <2>1, <2>2
<1> QED BY <1>5

\* Trimming a text changes nothing that is shown of it.
LEMMA TrimmedReads == \A x \in Lettering : from_text(Trim(x)) = from_text(x)
<1> SUFFICES ASSUME NEW x \in Lettering PROVE from_text(Trim(x)) = from_text(x) OBVIOUS
<1>1. Cat(TrimOf(x).text, TrimOf(x).after) = TrimStart(x, White) BY TrimsStart
<1>2. TrimOf(x).after \in Seq(White) /\ TrimOf(x).text \in Lettering /\ Trim(x) = TrimOf(x).text
  BY AfterIsWhite, TrimNext
<1>3. from_text(Cat(TrimOf(x).text, TrimOf(x).after)) = from_text(TrimOf(x).text) BY <1>2, SpaceBehind
<1>4. from_text(TrimStart(x, White)) = from_text(x) BY SpaceInFront
<1> QED BY <1>1, <1>2, <1>3, <1>4

\* A line break cuts a text: its lines are the lines before and those after it.
LEMMA LinesJoin ==
  ASSUME NEW x \in Lettering
  PROVE  \A y \in Lettering : Lines(Cat(Append(x, "nl"), y)) = Cat(Lines(x), Lines(y))
<1> DEFINE z == Append(x, "nl")
           D == Append(Cut(x).done, Cut(x).last)
           P == {y \in Lettering : Cut(Cat(z, y)) = Halfway(Cat(D, Cut(y).done), Cut(y).last)}
<1>0. z \in Lettering /\ D \in Seq(Row) /\ D = Lines(x) /\ Cut(z) = Halfway(D, <<>>)
  <2>1. Cut(x).done \in Seq(Row) /\ Cut(x).last \in Row /\ Lines(x) = D /\ Cut(z) = Halfway(D, <<>>)
    BY LinesAre
  <2>2. z \in Lettering BY Letters, Lettered
  <2>3. D \in Seq(Row) BY <2>1, Texted
  <2> QED BY <2>1, <2>2, <2>3
<1>0a. \A s, t \in Seq(Row), r \in Row : Cat(s, Append(t, r)) = Append(Cat(s, t), r) BY CatAppend
<1> HIDE DEF z, D
<1>1. <<>> \in P
  <2>1. Cat(z, <<>>) = z BY <1>0, TogetherAre
  <2>2. Cut(<<>>) = Halfway(<<>>, <<>>) BY LinesAre
  <2>3. Cut(<<>>).done = <<>> /\ Cut(<<>>).last = <<>> BY <2>2 DEF Halfway
  <2>4. Cat(D, <<>>) = D BY <1>0, Texted
  <2> QED BY <1>0, <2>1, <2>3, <2>4, Lettered
<1>2. ASSUME NEW y \in Lettering, NEW c \in Alphabet, y \in P PROVE Append(y, c) \in P
  <2> DEFINE d == Cut(y).done
             l == Cut(y).last
             u == Cat(z, y)
  <2>1. d \in Seq(Row) /\ l \in Row /\ u \in Lettering /\ Append(y, c) \in Lettering
    BY <1>0, LinesAre, Lettered
  <2>2. Cut(u) = Halfway(Cat(D, d), l) BY <1>2
  <2>3. Cat(z, Append(y, c)) = Append(u, c) BY <1>0, TogetherAre
  <2>4. Cut(u).done = Cat(D, d) /\ Cut(u).last = l BY <2>2 DEF Halfway
  <2>5. /\ c = "nl" => Cut(Append(u, c)) = Halfway(Append(Cat(D, d), l), <<>>)
        /\ c # "nl" => Cut(Append(u, c)) = Halfway(Cat(D, d), Append(l, c))
    <3>1. c # "nl" => c \in Within BY DEF Within
    <3>2. Cut(Append(u, "nl")) = Halfway(Append(Cut(u).done, Cut(u).last), <<>>) BY <2>1, LinesAre
    <3>3. \A e \in Within : Cut(Append(u, e)) = Halfway(Cut(u).done, Append(Cut(u).last, e))
      BY <2>1, LinesAre
    <3> HIDE DEF u, d, l
    <3> QED BY <2>4, <3>1, <3>2, <3>3
  <2>6. /\ c = "nl" => Cut(Append(y, c)) = Halfway(Append(d, l), <<>>)
        /\ c # "nl" => Cut(Append(y, c)) = Halfway(d, Append(l, c))
    <3>1. c # "nl" => c \in Within BY DEF Within
    <3>2. Cut(Append(y, "nl")) = Halfway(Append(Cut(y).done, Cut(y).last), <<>>) BY LinesAre
    <3>3. \A e \in Within : Cut(Append(y, e)) = Halfway(Cut(y).done, Append(Cut(y).last, e))
      BY LinesAre
    <3> QED BY <3>1, <3>2, <3>3
  <2> HIDE DEF d, l, u
  <2>7. CASE c = "nl"
    <3>1. Cut(Append(y, c)).done = Append(d, l) /\ Cut(Append(y, c)).last = <<>>
      BY <2>6, <2>7 DEF Halfway
    <3>2. Cat(D, Append(d, l)) = Append(Cat(D, d), l) BY <1>0, <1>0a, <2>1
    <3> QED BY <2>1, <2>3, <2>5, <2>7, <3>1, <3>2
  <2>8. CASE c # "nl"
    <3>1. Cut(Append(y, c)).done = d /\ Cut(Append(y, c)).last = Append(l, c)
      BY <2>6, <2>8 DEF Halfway
    <3> QED BY <2>1, <2>3, <2>5, <2>8, <3>1
  <2> QED BY <2>7, <2>8
<1> HIDE DEF P
<1>3. Lettering \subseteq P BY <1>1, <1>2, TextInduction
<1>4. ASSUME NEW y \in Lettering PROVE Lines(Cat(z, y)) = Cat(D, Lines(y))
  <2>1. Cut(Cat(z, y)) = Halfway(Cat(D, Cut(y).done), Cut(y).last) BY <1>3 DEF P
  <2>2. Cut(y).done \in Seq(Row) /\ Cut(y).last \in Row /\ Lines(y) = Append(Cut(y).done, Cut(y).last)
    BY LinesAre
  <2>3. Cat(z, y) \in Lettering BY <1>0, Lettered
  <2>4. Lines(Cat(z, y)) = Append(Cut(Cat(z, y)).done, Cut(Cat(z, y)).last) BY <2>3, LinesAre
  <2>5. Cut(Cat(z, y)).done = Cat(D, Cut(y).done) /\ Cut(Cat(z, y)).last = Cut(y).last
    BY <2>1 DEF Halfway
  <2>6. Cat(D, Append(Cut(y).done, Cut(y).last)) = Append(Cat(D, Cut(y).done), Cut(y).last)
    BY <1>0, <1>0a, <2>2
  <2> QED BY <2>2, <2>4, <2>5, <2>6
<1> QED BY <1>0, <1>4 DEF z

\* So is what is shown of it.
LEMMA ShownJoins ==
  \A x, y \in Lettering : from_text(Cat(Append(x, "nl"), y)) = Cat(from_text(x), from_text(y))
<1> SUFFICES ASSUME NEW x \in Lettering, NEW y \in Lettering
             PROVE  from_text(Cat(Append(x, "nl"), y)) = Cat(from_text(x), from_text(y))
  OBVIOUS
<1>1. Lines(Cat(Append(x, "nl"), y)) = Cat(Lines(x), Lines(y)) BY LinesJoin
<1>2. Lines(x) \in Seq(Lettering) /\ Lines(y) \in Seq(Lettering) BY LinesAre, RowsAre
<1>3. \A s, t \in Seq(Lettering) : Each(listed, Cat(s, t)) = Cat(Each(listed, s), Each(listed, t))
  BY ListedSpells DEF Spells
<1> QED BY <1>1, <1>2, <1>3 DEF from_text

-----------------------------------------------------------------------------
\* Bullets: trimmed, and not empty.
Tidy == {b \in Lettering : b # <<>> /\ TrimOf(b) = Held(b, <<>>)}

\* What was trimmed is a bullet, unless it is empty.
LEMMA TidySolid == \A x \in Lettering : Solid(Trim(x)) \in Seq(Tidy)
<1> SUFFICES ASSUME NEW x \in Lettering PROVE Solid(Trim(x)) \in Seq(Tidy) OBVIOUS
<1> DEFINE t == Trim(x)
<1>1. t = TrimOf(x).text /\ t \in Lettering BY TrimNext
<1>2. TrimOf(t) = Held(t, <<>>) BY <1>1, TrimsOnce
<1> HIDE DEF t
<1>3. CASE t = <<>>
  <2>1. Solid(t) = <<>> BY <1>3 DEF Solid
  <2> QED BY <2>1, Texted DEF t
<1>4. CASE t # <<>>
  <2>1. Solid(t) = <<t>> BY <1>4 DEF Solid
  <2>2. t \in Tidy BY <1>1, <1>2, <1>4 DEF Tidy
  <2>3. <<t>> \in Seq(Tidy) BY <2>2, Texted
  <2> QED BY <2>1, <2>3 DEF t
<1> QED BY <1>3, <1>4

\* Bullets are texts, and stay as they are when trimmed.
LEMMA TidyIs == /\ Tidy \subseteq Lettering /\ Seq(Tidy) \subseteq Seq(Lettering)
                /\ \A b \in Tidy : b # <<>> /\ TrimOf(b) = Held(b, <<>>) /\ Trim(b) = b
<1>1. Tidy \subseteq Lettering BY DEF Tidy
<1>2. Seq(Tidy) \subseteq Seq(Lettering)
  <2> HIDE DEF Lettering
  <2> QED BY <1>1
<1>3. ASSUME NEW b \in Tidy PROVE b # <<>> /\ TrimOf(b) = Held(b, <<>>) /\ Trim(b) = b
  <2>1. b \in Lettering /\ b # <<>> /\ TrimOf(b) = Held(b, <<>>) BY DEF Tidy
  <2>2. Trim(b) = TrimOf(b).text BY <2>1, TrimNext
  <2>3. TrimOf(b).text = b BY <2>1 DEF Held
  <2> QED BY <2>1, <2>2, <2>3
<1> QED BY <1>1, <1>2, <1>3

\* How bullets are stored.
LEMMA StoredNext ==
  /\ to_text(<<>>) = <<>> /\ \A s \in Seq(Lettering) : to_text(s) \in Lettering
  /\ \A s \in Seq(Lettering), b \in Lettering :
       /\ to_text(s) = <<>> => to_text(Append(s, b)) = b
       /\ to_text(s) # <<>> => to_text(Append(s, b)) = Cat(Append(to_text(s), "nl"), b)
<1>1. \A b, out \in Lettering : /\ out = <<>> => joined[b][out] = b
                                /\ out # <<>> => joined[b][out] = Cat(Append(out, "nl"), b)
  BY DEF joined, Cat
<1>2. ASSUME NEW b \in Lettering, NEW out \in Lettering PROVE joined[b][out] \in Lettering
  <2>1. Cat(Append(out, "nl"), b) \in Lettering BY Letters, Lettered
  <2> QED BY <1>1, <2>1
<1>3. Body(joined, Lettering, Lettering) BY <1>2 DEF Body
<1>4. Folds(joined, <<>>, Lettering, Lettering) BY <1>3, Lettered, LoopFolds
<1>5. to_text(<<>>) = <<>> BY <1>4 DEF Folds, to_text
<1>6. \A s \in Seq(Lettering) : to_text(s) \in Lettering BY <1>4 DEF Folds, to_text
<1>7. \A s \in Seq(Lettering), b \in Lettering : to_text(Append(s, b)) = joined[b][to_text(s)]
  BY <1>4 DEF Folds, to_text
<1> QED BY <1>1, <1>5, <1>6, <1>7

\* Only no bullets at all are stored as the empty text.
LEMMA StoredTidy == \A s \in Seq(Tidy) : to_text(s) = <<>> => s = <<>>
<1> DEFINE P == {s \in Seq(Tidy) : to_text(s) = <<>> => s = <<>>}
<1>1. <<>> \in P BY Texted
<1>2. ASSUME NEW s \in Seq(Tidy), NEW b \in Tidy, s \in P PROVE Append(s, b) \in P
  <2>1. s \in Seq(Lettering) /\ b \in Lettering /\ b # <<>> /\ Append(s, b) \in Seq(Tidy) BY TidyIs, Texted
  <2>2. to_text(s) \in Lettering BY <2>1, StoredNext
  <2>3. Append(to_text(s), "nl") \in Lettering BY <2>2, Letters, Lettered
  <2>4. Cat(Append(to_text(s), "nl"), b) # <<>> BY <2>1, <2>3, TogetherAre
  <2>5. to_text(Append(s, b)) # <<>> BY <2>1, <2>4, StoredNext
  <2> QED BY <2>1, <2>5
<1> HIDE DEF P
<1>3. Seq(Tidy) \subseteq P BY <1>1, <1>2, SeqInduction
<1> QED BY <1>3 DEF P

\* Bullet by bullet, the stored briefing is shown.
shown == [b \in Lettering |-> from_text(b)]

\* What is shown of bullets is a list of texts.
LEMMA ShownSpells == Spells(shown, Lettering, Lettering)
<1>1. Gives(shown, Lettering, Lettering) BY ShownIs DEF Gives, shown
<1> QED BY <1>1, Eaching

\* The stored briefing shows what its bullets show.
LEMMA StoredIs == \A s \in Seq(Tidy) : from_text(to_text(s)) = Each(shown, s)
<1> DEFINE P == {s \in Seq(Tidy) : from_text(to_text(s)) = Each(shown, s)}
<1>0. from_text(<<>>) = <<>>
  <2>1. Cut(<<>>) = Halfway(<<>>, <<>>) BY LinesAre
  <2>2. Cut(<<>>).done = <<>> /\ Cut(<<>>).last = <<>> BY <2>1 DEF Halfway
  <2>3. from_text(<<>>) = Cat(Each(listed, <<>>), listed[<<>>]) BY <2>2, ShownIs, Lettered
  <2>4. Each(listed, <<>>) = <<>> BY ListedSpells DEF Spells
  <2>5. listed[<<>>] = <<>> BY BlankLines, BlanksAre, Lettered
  <2> QED BY <2>3, <2>4, <2>5, Lettered, TogetherAre
<1>1. <<>> \in P
  <2>1. Each(shown, <<>>) = <<>> BY ShownSpells DEF Spells
  <2> QED BY <1>0, <2>1, StoredNext, Texted
<1>2. ASSUME NEW s \in Seq(Tidy), NEW b \in Tidy, s \in P PROVE Append(s, b) \in P
  <2>1. s \in Seq(Lettering) /\ b \in Lettering /\ Append(s, b) \in Seq(Tidy) BY TidyIs, Texted
  <2>2. Each(shown, Append(s, b)) = Cat(Each(shown, s), from_text(b))
    <3>1. shown[b] = from_text(b) BY <2>1 DEF shown
    <3>2. Each(shown, Append(s, b)) = Cat(Each(shown, s), shown[b]) BY <2>1, ShownSpells DEF Spells
    <3> QED BY <3>1, <3>2
  <2>3. from_text(to_text(s)) = Each(shown, s) BY <1>2
  <2>4. CASE to_text(s) = <<>>
    <3>1. s = <<>> BY <2>4, StoredTidy
    <3>2. Each(shown, s) = <<>> BY <3>1, ShownSpells DEF Spells
    <3>3. to_text(Append(s, b)) = b BY <2>1, <2>4, StoredNext
    <3>4. from_text(b) \in Seq(Lettering) BY <2>1, ShownIs
    <3>5. Cat(<<>>, from_text(b)) = from_text(b) BY <3>4, Texted
    <3> QED BY <2>1, <2>2, <3>2, <3>3, <3>5
  <2>5. CASE to_text(s) # <<>>
    <3>1. to_text(Append(s, b)) = Cat(Append(to_text(s), "nl"), b) BY <2>1, <2>5, StoredNext
    <3>2. to_text(s) \in Lettering BY <2>1, StoredNext
    <3>3. from_text(Cat(Append(to_text(s), "nl"), b)) = Cat(from_text(to_text(s)), from_text(b))
      BY <2>1, <3>2, ShownJoins
    <3> QED BY <2>1, <2>2, <2>3, <3>1, <3>3
  <2> QED BY <2>4, <2>5
<1> HIDE DEF P
<1>3. Seq(Tidy) \subseteq P BY <1>1, <1>2, SeqInduction
<1> QED BY <1>3 DEF P

\* What is neither a marker nor a blank, of a text and of a list of texts.
Inked(x) == Each(inks, x)

\* Character by character.
LEMMA InksAre ==
  /\ Spells(inks, Alphabet, Alphabet) /\ Inked(<<>>) = <<>>
  /\ \A x \in Lettering : Inked(x) \in Lettering
  /\ \A x \in Lettering, c \in White \cup Markers : Inked(Append(x, c)) = Inked(x)
  /\ \A x \in Lettering, c \in Alphabet : inks[c] \in Lettering /\ Inked(Append(x, c)) = Cat(Inked(x), inks[c])
  /\ \A x, y \in Lettering : Inked(Cat(x, y)) = Cat(Inked(x), Inked(y))
<1>1. \A c \in Alphabet : /\ inks[c] = IF c \in White \cup Markers THEN <<>> ELSE <<c>>
                          /\ inks[c] \in Seq(Alphabet)
  <2>1. \A c \in Alphabet : inks[c] = IF c \in White \cup Markers THEN <<>> ELSE <<c>> BY DEF inks
  <2>2. <<>> \in Seq(Alphabet) /\ \A c \in Alphabet : <<c>> \in Seq(Alphabet) BY Texted
  <2> QED BY <2>1, <2>2
<1>2. Spells(inks, Alphabet, Alphabet)
  <2>1. Gives(inks, Alphabet, Alphabet) BY <1>1 DEF Gives
  <2> QED BY <2>1, Eaching
<1>3. /\ Inked(<<>>) = <<>>
      /\ \A x \in Lettering : Inked(x) \in Lettering
      /\ \A x \in Lettering, c \in Alphabet : Inked(Append(x, c)) = Cat(Inked(x), inks[c])
      /\ \A x, y \in Lettering : Inked(Cat(x, y)) = Cat(Inked(x), Inked(y))
  BY <1>2 DEF Spells, Inked, Lettering
<1>4. ASSUME NEW x \in Lettering, NEW c \in White \cup Markers PROVE Inked(Append(x, c)) = Inked(x)
  <2>1. c \in Alphabet BY Letters
  <2>2. inks[c] = <<>> BY <1>1, <2>1
  <2>3. Inked(Append(x, c)) = Cat(Inked(x), <<>>) BY <1>3, <2>1, <2>2
  <2> QED BY <1>3, <2>3, TogetherAre
<1>5. \A c \in Alphabet : inks[c] \in Lettering BY <1>1 DEF Lettering
<1> QED BY <1>2, <1>3, <1>4, <1>5

\* Text by text.
LEMMA InkedIs ==
  /\ Spells(inked, Lettering, Alphabet) /\ \A x \in Lettering : inked[x] = Inked(x)
  /\ Ink(<<>>) = <<>>
  /\ \A s \in Seq(Lettering) : Ink(s) \in Lettering
  /\ \A s \in Seq(Lettering), x \in Lettering : Ink(Append(s, x)) = Cat(Ink(s), Inked(x))
  /\ \A s, t \in Seq(Lettering) : Ink(Cat(s, t)) = Cat(Ink(s), Ink(t))
<1>1. \A x \in Lettering : inked[x] = Inked(x) BY DEF inked, Inked
<1>2. Spells(inked, Lettering, Alphabet)
  <2>1. Gives(inked, Lettering, Alphabet) BY <1>1, InksAre DEF Gives, Lettering
  <2> QED BY <2>1, Eaching
<1>3. /\ Ink(<<>>) = <<>>
      /\ \A s \in Seq(Lettering) : Ink(s) \in Lettering
      /\ \A s \in Seq(Lettering), x \in Lettering : Ink(Append(s, x)) = Cat(Ink(s), inked[x])
      /\ \A s, t \in Seq(Lettering) : Ink(Cat(s, t)) = Cat(Ink(s), Ink(t))
  BY <1>2 DEF Spells, Ink, Lettering
<1> QED BY <1>1, <1>2, <1>3

\* None of it is dropped with what comes before,
LEMMA InkDropped ==
  ASSUME NEW S, S \subseteq White \cup Markers
  PROVE  \A x \in Lettering : Inked(TrimStart(x, S)) = Inked(x)
<1> DEFINE P == {x \in Lettering : Inked(TrimStart(x, S)) = Inked(x)}
<1>0. \A u \in Lettering, e \in Alphabet :
        TrimStart(Append(u, e), S) =
          IF TrimStart(u, S) = <<>> /\ e \in S THEN <<>> ELSE Append(TrimStart(u, S), e)
  BY DropNext
<1>1. <<>> \in P BY DropNext, Lettered
<1>2. ASSUME NEW x \in Lettering, NEW c \in Alphabet, x \in P PROVE Append(x, c) \in P
  <2> DEFINE v == TrimStart(x, S)
  <2>1. v \in Lettering /\ Append(x, c) \in Lettering /\ Inked(v) = Inked(x) BY <1>2, DropNext, Lettered
  <2>2. TrimStart(Append(x, c), S) = IF v = <<>> /\ c \in S THEN <<>> ELSE Append(v, c) BY <1>0
  <2> HIDE DEF v
  <2>3. CASE v = <<>> /\ c \in S
    <3>1. Inked(Append(x, c)) = Inked(x) BY <2>3, InksAre
    <3> QED BY <2>1, <2>2, <2>3, <3>1
  <2>4. CASE ~ (v = <<>> /\ c \in S)
    <3>1. Inked(Append(x, c)) = Cat(Inked(x), inks[c]) /\ Inked(Append(v, c)) = Cat(Inked(v), inks[c])
      BY <2>1, InksAre
    <3> QED BY <2>1, <2>2, <2>4, <3>1
  <2> QED BY <2>3, <2>4
<1> HIDE DEF P
<1>3. Lettering \subseteq P BY <1>1, <1>2, TextInduction
<1> QED BY <1>3 DEF P

\* nor with the white space around,
LEMMA InkTrimmed == \A x \in Lettering : Inked(Trim(x)) = Inked(x)
<1> SUFFICES ASSUME NEW x \in Lettering PROVE Inked(Trim(x)) = Inked(x) OBVIOUS
<1> DEFINE P == {a \in Seq(White) : a \in Lettering /\ Inked(a) = <<>>}
<1>1. <<>> \in P BY InksAre, Lettered, Texted
<1>2. ASSUME NEW a \in Seq(White), NEW c \in White, a \in P PROVE Append(a, c) \in P
  <2>1. a \in Lettering /\ c \in Alphabet /\ Inked(a) = <<>> /\ Append(a, c) \in Seq(White)
    BY <1>2, Letters, Texted
  <2>2. Append(a, c) \in Lettering /\ Inked(Append(a, c)) = Inked(a) BY <2>1, InksAre, Lettered
  <2> QED BY <2>1, <2>2
<1> HIDE DEF P
<1>3. Seq(White) \subseteq P BY <1>1, <1>2, SeqInduction
<1> DEFINE t == TrimOf(x).text
           a == TrimOf(x).after
<1>4. t \in Lettering /\ a \in Seq(White) /\ Trim(x) = t /\ Cat(t, a) = TrimStart(x, White)
  BY AfterIsWhite, TrimNext, TrimsStart
<1>5. a \in Lettering /\ Inked(a) = <<>> BY <1>3, <1>4 DEF P
<1>6. Inked(TrimStart(x, White)) = Inked(x) BY InkDropped
<1> HIDE DEF t, a
<1>7. Inked(Cat(t, a)) = Cat(Inked(t), Inked(a)) BY <1>4, <1>5, InksAre
<1>8. Inked(t) \in Lettering BY <1>4, InksAre
<1>9. Cat(Inked(t), <<>>) = Inked(t) BY <1>8, TogetherAre
<1> QED BY <1>4, <1>5, <1>6, <1>7, <1>9

\* nor with the line breaks,
LEMMA InkLines == \A x \in Lettering : Ink(Lines(x)) = Inked(x)
<1> DEFINE P == {x \in Lettering : Ink(Append(Cut(x).done, Cut(x).last)) = Inked(x)}
<1>1. <<>> \in P
  <2>1. Cut(<<>>) = Halfway(<<>>, <<>>) BY LinesAre
  <2>2. Cut(<<>>).done = <<>> /\ Cut(<<>>).last = <<>> BY <2>1 DEF Halfway
  <2>3. Ink(Append(<<>>, <<>>)) = Cat(Ink(<<>>), Inked(<<>>)) BY InkedIs, Lettered
  <2> QED BY <2>2, <2>3, InkedIs, InksAre, Lettered, TogetherAre
<1>2. ASSUME NEW x \in Lettering, NEW c \in Alphabet, x \in P PROVE Append(x, c) \in P
  <2> DEFINE d == Cut(x).done
             l == Cut(x).last
             y == Append(x, c)
  <2>1. d \in Seq(Lettering) /\ l \in Lettering /\ y \in Lettering BY ShownIs, Lettered
  <2>2. Ink(Append(d, l)) = Inked(x) BY <1>2
  <2>3. Ink(Append(d, l)) = Cat(Ink(d), Inked(l)) /\ Ink(d) \in Lettering /\ Inked(l) \in Lettering
    BY <2>1, InkedIs, InksAre
  <2>4. CASE c = "nl"
    <3>1. Cut(y) = Halfway(Append(d, l), <<>>) BY <2>4, LinesAre
    <3>2. c \in White \cup Markers BY <2>4, Letters
    <3>3. Inked(y) = Inked(x) BY <3>2, InksAre
    <3> HIDE DEF d, l, y
    <3>4. Cut(y).done = Append(d, l) /\ Cut(y).last = <<>> BY <3>1 DEF Halfway
    <3>5. Append(d, l) \in Seq(Lettering) BY <2>1, Texted
    <3>6. Ink(Append(Append(d, l), <<>>)) = Cat(Inked(x), <<>>) BY <2>2, <3>5, InkedIs, InksAre, Lettered
    <3>7. Inked(x) \in Lettering BY InksAre
    <3>8. Cat(Inked(x), <<>>) = Inked(x) BY <3>7, TogetherAre
    <3>9. Ink(Append(Cut(y).done, Cut(y).last)) = Inked(y) BY <3>3, <3>4, <3>6, <3>8
    <3> QED BY <2>1, <3>9 DEF y
  <2>5. CASE c # "nl"
    <3>0. c \in Within BY <2>5 DEF Within
    <3>1. Cut(y) = Halfway(d, Append(l, c)) BY <3>0, LinesAre
    <3>3. Inked(y) = Cat(Inked(x), inks[c]) /\ inks[c] \in Lettering BY InksAre
    <3> HIDE DEF d, l, y
    <3>4. Cut(y).done = d /\ Cut(y).last = Append(l, c) BY <3>1 DEF Halfway
    <3>5. Append(l, c) \in Lettering BY <2>1, Lettered
    <3>6. Ink(Append(d, Append(l, c))) = Cat(Ink(d), Inked(Append(l, c))) BY <2>1, <3>5, InkedIs
    <3>7. Inked(Append(l, c)) = Cat(Inked(l), inks[c]) BY <2>1, InksAre
    <3>8. Cat(Cat(Ink(d), Inked(l)), inks[c]) = Cat(Ink(d), Cat(Inked(l), inks[c]))
      BY <2>3, <3>3, TogetherAre
    <3>9. Ink(Append(Cut(y).done, Cut(y).last)) = Inked(y) BY <2>2, <2>3, <3>3, <3>4, <3>6, <3>7, <3>8
    <3> QED BY <2>1, <3>9 DEF y
  <2> QED BY <2>4, <2>5
<1> HIDE DEF P
<1>3. Lettering \subseteq P BY <1>1, <1>2, TextInduction
<1>4. ASSUME NEW x \in Lettering PROVE Ink(Lines(x)) = Inked(x)
  <2>1. Ink(Append(Cut(x).done, Cut(x).last)) = Inked(x) BY <1>3 DEF P
  <2>2. Lines(x) = Append(Cut(x).done, Cut(x).last) BY LinesAre
  <2> QED BY <2>1, <2>2
<1> QED BY <1>4

\* nor when it is shown,
LEMMA InkShown == \A x \in Lettering : Ink(from_text(x)) = Inked(x)
<1>1. ASSUME NEW line \in Lettering PROVE Ink(listed[line]) = Inked(line)
  <2>1. Trim(line) \in Lettering /\ Core(line) \in Lettering /\ listed[line] = Solid(Core(line)) BY ListedIs
  <2>2. Inked(Core(line)) = Inked(Trim(line))
    <3>1. Markers \subseteq White \cup Markers OBVIOUS
    <3> QED BY <2>1, <3>1, InkDropped DEF Core
  <2>3. Inked(Core(line)) = Inked(line) BY <2>2, InkTrimmed
  <2>4. CASE Core(line) = <<>>
    <3>1. listed[line] = <<>> BY <2>1, <2>4 DEF Solid
    <3> QED BY <2>3, <2>4, <3>1, InkedIs, InksAre
  <2>5. CASE Core(line) # <<>>
    <3>1. listed[line] = <<Core(line)>> BY <2>1, <2>5 DEF Solid
    <3>2. <<Core(line)>> = Append(<<>>, Core(line)) BY <2>1, Texted
    <3>3. Ink(Append(<<>>, Core(line))) = Cat(Ink(<<>>), Inked(Core(line))) BY <2>1, InkedIs, Lettered
    <3>4. Inked(Core(line)) \in Lettering BY <2>1, InksAre
    <3>5. Cat(<<>>, Inked(Core(line))) = Inked(Core(line)) BY <3>4, TogetherAre
    <3> QED BY <2>3, <3>1, <3>2, <3>3, <3>5, InkedIs
  <2> QED BY <2>4, <2>5
<1> DEFINE P == {s \in Seq(Lettering) : Ink(Each(listed, s)) = Ink(s)}
<1>2. <<>> \in P
  <2>1. Each(listed, <<>>) = <<>> BY ListedSpells DEF Spells
  <2> QED BY <2>1, Lettered
<1>3. ASSUME NEW s \in Seq(Lettering), NEW x \in Lettering, s \in P PROVE Append(s, x) \in P
  <2>1. Each(listed, Append(s, x)) = Cat(Each(listed, s), listed[x]) /\ Each(listed, s) \in Seq(Lettering)
    BY ListedSpells DEF Spells
  <2>2. listed[x] \in Seq(Lettering) BY ListedIs
  <2>3. Ink(Cat(Each(listed, s), listed[x])) = Cat(Ink(Each(listed, s)), Ink(listed[x]))
    BY <2>1, <2>2, InkedIs
  <2>4. Ink(Each(listed, s)) = Ink(s) /\ Ink(listed[x]) = Inked(x) BY <1>1, <1>3
  <2>5. Ink(Append(s, x)) = Cat(Ink(s), Inked(x)) BY InkedIs
  <2>6. Append(s, x) \in Seq(Lettering) BY Texted
  <2> QED BY <2>1, <2>3, <2>4, <2>5, <2>6
<1> HIDE DEF P
<1>4. Seq(Lettering) \subseteq P BY <1>2, <1>3, SeqInduction
<1>5. ASSUME NEW x \in Lettering PROVE Ink(from_text(x)) = Inked(x)
  <2>1. Lines(x) \in Seq(Lettering) BY LinesAre, RowsAre
  <2>2. Ink(Each(listed, Lines(x))) = Ink(Lines(x)) BY <1>4, <2>1 DEF P
  <2> QED BY <2>2, InkLines DEF from_text
<1> QED BY <1>5

\* nor when the bullets are stored.
LEMMA InkStored == \A s \in Seq(Lettering) : Inked(to_text(s)) = Ink(s)
<1> DEFINE P == {s \in Seq(Lettering) : Inked(to_text(s)) = Ink(s)}
<1>1. <<>> \in P BY StoredNext, InksAre, InkedIs, Lettered
<1>2. ASSUME NEW s \in Seq(Lettering), NEW b \in Lettering, s \in P PROVE Append(s, b) \in P
  <2>1. Inked(to_text(s)) = Ink(s) /\ Append(s, b) \in Seq(Lettering) /\ to_text(s) \in Lettering
    BY <1>2, StoredNext, Texted
  <2>2. Ink(Append(s, b)) = Cat(Ink(s), Inked(b)) BY InkedIs
  <2>3. CASE to_text(s) = <<>>
    <3>1. to_text(Append(s, b)) = b BY <2>3, StoredNext
    <3>2. Ink(s) = <<>> BY <2>1, <2>3, InksAre
    <3>3. Inked(b) \in Lettering BY InksAre
    <3>4. Cat(<<>>, Inked(b)) = Inked(b) BY <3>3, TogetherAre
    <3> QED BY <2>1, <2>2, <3>1, <3>2, <3>4
  <2>4. CASE to_text(s) # <<>>
    <3> DEFINE z == Append(to_text(s), "nl")
    <3>1. to_text(Append(s, b)) = Cat(z, b) BY <2>4, StoredNext
    <3>2. "nl" \in White \cup Markers BY Letters
    <3>3. Inked(z) = Inked(to_text(s)) /\ z \in Lettering BY <2>1, <3>2, InksAre, Letters, Lettered
    <3> HIDE DEF z
    <3>4. Inked(Cat(z, b)) = Cat(Inked(z), Inked(b)) BY <3>3, InksAre
    <3> QED BY <2>1, <2>2, <3>1, <3>3, <3>4
  <2> QED BY <2>3, <2>4
<1> HIDE DEF P
<1>3. Seq(Lettering) \subseteq P BY <1>1, <1>2, SeqInduction
<1> QED BY <1>3 DEF P

\* What can be answered.
Answered(a) ==
  /\ a.kind # "reply" \/ a.json \in BOOLEAN
  /\ a.kind = "reply" => a.text \in Lettering /\ a.bullets \in Seq(Lettering)

\* All that the constants allow.
LEMMA AnswersAre == ASSUME BriefingInstance PROVE \A a \in Answers : Answered(a)
<1>1. Replies \subseteq Lettering /\ BulletLists \subseteq Seq(Lettering) /\ Wrappings \subseteq Lettering
  BY DEF BriefingInstance
<1>2. <<>> \in Lettering /\ <<>> \in Seq(Lettering) BY Lettered
<1> HIDE DEF Lettering
<1> QED BY <1>1, <1>2 DEF Answers, Answered

\* The text of an entry once its marker is gone, before it is trimmed.
Bare(line) == TrimStart(TrimStart(TrimStart(line, Markers), {"3"}), {".", " "})

\* An entry is a bullet.
LEMMA EntriesAre ==
  \A line \in Lettering :
    /\ Trim(line) \in Lettering /\ Bare(Trim(line)) \in Lettering
    /\ entries[line] = <<>> \/ entries[line] = Solid(Trim(Bare(Trim(line))))
    /\ entries[line] \in Seq(Tidy)
<1> SUFFICES ASSUME NEW line \in Lettering
             PROVE  /\ Trim(line) \in Lettering /\ Bare(Trim(line)) \in Lettering
                    /\ entries[line] = <<>> \/ entries[line] = Solid(Trim(Bare(Trim(line))))
                    /\ entries[line] \in Seq(Tidy)
  OBVIOUS
<1> DEFINE t == Trim(line)
<1>1. t \in Lettering BY TrimNext
<1>2. Bare(t) \in Lettering
  <2>1. TrimStart(t, Markers) \in Lettering BY <1>1, DropNext
  <2>2. TrimStart(TrimStart(t, Markers), {"3"}) \in Lettering BY <2>1, DropNext
  <2> QED BY <2>2, DropNext DEF Bare
<1>3. Unmarked(t) = Trim(Bare(t)) BY DEF Unmarked, Bare
<1>4. entries[line] = IF Entry(t) THEN Solid(Unmarked(t)) ELSE <<>> BY DEF entries
<1>5. Solid(Trim(Bare(t))) \in Seq(Tidy) BY <1>2, TidySolid
<1>6. <<>> \in Seq(Tidy) BY Texted
<1> HIDE DEF t
<1>7. entries[line] = <<>> \/ entries[line] = Solid(Trim(Bare(t))) BY <1>3, <1>4
<1>8. entries[line] \in Seq(Tidy) BY <1>5, <1>6, <1>7
<1> QED BY <1>1, <1>2, <1>7, <1>8 DEF t

\* So is what a JSON reply lists.
LEMMA BulletedAre == \A b \in Lettering : bulleted[b] = Solid(Trim(b)) /\ bulleted[b] \in Seq(Tidy)
BY TidySolid DEF bulleted

\* What was parsed.
LEMMA ParsedIs == \A a : Answered(a) /\ a.kind = "reply" => Parsed(a) \in Seq(Tidy)
<1> SUFFICES ASSUME NEW a, Answered(a), a.kind = "reply" PROVE Parsed(a) \in Seq(Tidy) OBVIOUS
<1>1. a.text \in Lettering /\ a.bullets \in Seq(Lettering) BY DEF Answered
<1>2. Spells(bulleted, Lettering, Tidy)
  <2>1. Gives(bulleted, Lettering, Tidy) BY BulletedAre DEF Gives
  <2> QED BY <2>1, Eaching
<1>3. Spells(entries, Lettering, Tidy)
  <2>1. Gives(entries, Lettering, Tidy) BY EntriesAre DEF Gives
  <2> QED BY <2>1, Eaching
<1>4. Each(bulleted, a.bullets) \in Seq(Tidy) BY <1>1, <1>2 DEF Spells
<1>5. Lines(a.text) \in Seq(Lettering) BY <1>1, LinesAre, RowsAre
<1>6. parse_lines(a.text) \in Seq(Tidy) BY <1>3, <1>5 DEF Spells, parse_lines
<1> QED BY <1>4, <1>6 DEF Parsed

\* What a briefing is made of: what was parsed, if that is anything.
LEMMA GeneratedIs ==
  \A a : Answered(a) =>
    /\ generate(a).bullets \in Seq(Tidy)
    /\ generate(a).bullets # <<>> => a.kind = "reply" /\ generate(a).bullets = Parsed(a)
<1> SUFFICES ASSUME NEW a, Answered(a)
             PROVE  /\ generate(a).bullets \in Seq(Tidy)
                    /\ generate(a).bullets # <<>> => a.kind = "reply" /\ generate(a).bullets = Parsed(a)
  OBVIOUS
<1>1. CASE a.kind # "reply" \/ Parsed(a) = <<>>
  <2>1. generate(a).bullets = <<>> BY <1>1 DEF generate
  <2> QED BY <2>1, Texted
<1>2. CASE ~ (a.kind # "reply" \/ Parsed(a) = <<>>)
  <2>1. generate(a).bullets = Parsed(a) BY <1>2 DEF generate
  <2>2. a.kind = "reply" BY <1>2
  <2> QED BY <2>1, <2>2, ParsedIs
<1> QED BY <1>1, <1>2

\* A plain bullet is a line of its own, and shown as it is.
LEMMA PlainShown == \A b \in Tidy : Plain(b) => shown[b] = <<b>>
<1> SUFFICES ASSUME NEW b \in Tidy, Plain(b) PROVE shown[b] = <<b>> OBVIOUS
<1>1. b \in Lettering /\ b # <<>> /\ Trim(b) = b BY TidyIs
<1>2. b[1] \notin Markers /\ \A i \in DOMAIN b : b[i] # "nl" BY DEF Plain
<1>3. b \in Row
  <2>1. DOMAIN b = 1 .. Len(b) /\ Len(b) \in Nat /\ \A i \in 1 .. Len(b) : b[i] \in Alphabet
    BY <1>1, LenProperties, ElementOfSeq DEF Lettering
  <2>2. \A i \in 1 .. Len(b) : b[i] \in Within BY <1>2, <2>1 DEF Within
  <2>3. b = [i \in 1 .. Len(b) |-> b[i]] BY <1>1, <2>1 DEF Lettering
  <2>4. b \in [1 .. Len(b) -> Within] BY <2>2, <2>3
  <2> QED BY <2>1, <2>4, IsASeq DEF Row
<1>4. Lines(b) = <<b>>
  <2>1. Cut(<<>>) = Halfway(<<>>, <<>>) BY LinesAre
  <2>2. Cut(<<>>).done = <<>> /\ Cut(<<>>).last = <<>> BY <2>1 DEF Halfway
  <2>3. Cut(Cat(<<>>, b)) = Halfway(Cut(<<>>).done, Cat(Cut(<<>>).last, b)) BY <1>3, CutOn, Lettered
  <2>4. Cut(b) = Halfway(<<>>, b) BY <1>1, <2>2, <2>3, TogetherAre
  <2>5. Cut(b).done = <<>> /\ Cut(b).last = b BY <2>4 DEF Halfway
  <2>6. Lines(b) = Append(<<>>, b) BY <1>1, <2>5, LinesAre
  <2>7. <<b>> = Append(<<>>, b) BY <1>1, Texted
  <2> QED BY <2>6, <2>7
<1>5. TrimStart(b, Markers) = b BY <1>1, <1>2, DropsNothing
<1>6. Core(b) = b BY <1>1, <1>5 DEF Core
<1>7. listed[b] = <<b>>
  <2>1. listed[b] = Solid(Core(b)) BY <1>1, ListedIs
  <2> QED BY <1>1, <1>6, <2>1 DEF Solid
<1>8. from_text(b) = <<b>>
  <2>1. <<b>> = Append(<<>>, b) BY <1>1, Texted
  <2>2. Each(listed, Append(<<>>, b)) = Cat(Each(listed, <<>>), listed[b]) BY <1>1, ListedSpells, Lettered DEF Spells
  <2>3. Each(listed, <<>>) = <<>> BY ListedSpells DEF Spells
  <2>4. <<b>> \in Seq(Tidy) BY Texted
  <2>5. Cat(<<>>, <<b>>) = <<b>> BY <2>4, Texted
  <2> QED BY <1>4, <1>7, <2>1, <2>2, <2>3, <2>5 DEF from_text
<1> QED BY <1>1, <1>8 DEF shown

\* So a briefing of plain bullets is shown as it is.
LEMMA PlainKept == \A s \in Seq(Tidy) : (\A i \in DOMAIN s : Plain(s[i])) => from_text(to_text(s)) = s
<1> SUFFICES ASSUME NEW s \in Seq(Tidy), \A i \in DOMAIN s : Plain(s[i]) PROVE from_text(to_text(s)) = s
  OBVIOUS
<1> DEFINE A == {b \in Tidy : Plain(b)}
<1>1. s \in Seq(A)
  <2>1. DOMAIN s = 1 .. Len(s) /\ Len(s) \in Nat /\ \A i \in 1 .. Len(s) : s[i] \in Tidy
    BY LenProperties, ElementOfSeq
  <2>2. \A i \in 1 .. Len(s) : s[i] \in A BY <2>1
  <2>3. s = [i \in 1 .. Len(s) |-> s[i]] BY <2>1
  <2> HIDE DEF A
  <2>4. s \in [1 .. Len(s) -> A] BY <2>2, <2>3
  <2> QED BY <2>1, <2>4, IsASeq
<1>2. \A b \in A : shown[b] = <<b>> BY PlainShown
<1> HIDE DEF A
<1>3. Each(shown, s) = s BY <1>1, <1>2, EachSame
<1> QED BY <1>3, StoredIs

\* Whatever the provider answers, what was accepted is kept.
LEMMA Kept == ASSUME BriefingInstance PROVE answer \in Answers => BriefingKept
<1> SUFFICES ASSUME answer \in Answers PROVE BriefingKept OBVIOUS
<1> DEFINE s == generate(answer).bullets
<1>1. Answered(answer) BY AnswersAre
<1>2. s \in Seq(Tidy) BY <1>1, GeneratedIs
<1>3. Shown(answer) = from_text(to_text(s)) BY DEF Shown
<1> HIDE DEF s
<1>4. s \in Seq(Lettering) /\ to_text(s) \in Lettering
  <2>1. s \in Seq(Lettering) BY <1>2, TidyIs
  <2> QED BY <2>1, StoredNext
<1>5. Ink(from_text(to_text(s))) = Ink(s) BY <1>4, InkShown, InkStored
<1>6. (\A i \in DOMAIN s : Plain(s[i])) => from_text(to_text(s)) = s BY <1>2, PlainKept
<1> QED BY <1>3, <1>5, <1>6 DEF BriefingKept, s

(* Whatever the provider answers and however long it is, a briefing that   *)
(* was accepted is read back as it was stored: nothing but markers and     *)
(* blanks is lost, and bullets that neither begin with a marker nor        *)
(* contain a line break are the same (ai.rs: to_text, from_text).          *)
THEOREM BriefingsKept == ASSUME BriefingInstance PROVE BriefingSpec => []BriefingKept
<1>1. BriefingInit => answer \in Answers BY DEF BriefingInit
<1>2. answer \in Answers /\ [FALSE]_answer => (answer \in Answers)' OBVIOUS
<1>3. answer \in Answers => BriefingKept BY Kept
<1> QED BY <1>1, <1>2, <1>3, PTL DEF BriefingSpec

\* A text after nothing but some characters.
LEMMA Ends ==
  ASSUME NEW S, NEW q \in Lettering, q \in Seq(S), NEW b \in Lettering
  PROVE  EndsIn(Cat(q, b), b, S)
<1> DEFINE m == Len(q)
           k == Len(b)
           u == Cat(q, b)
<1>1. m \in Nat /\ k \in Nat /\ b = [i \in 1 .. k |-> b[i]] BY LenProperties DEF Lettering
<1>2. u \in Seq(Alphabet) /\ Len(u) = m + k /\ (\A i \in 1 .. m : u[i] = q[i]) /\ \A i \in 1 .. k : u[m + i] = b[i]
  <2>1. q \in Seq(Alphabet) /\ b \in Seq(Alphabet) BY DEF Lettering
  <2>2. Joined(Alphabet, q, b) BY <2>1, CatItems
  <2> QED BY <2>2 DEF Joined
<1>3. \A i \in 1 .. m : q[i] \in S BY ElementOfSeq
<1> HIDE DEF m, k, u
<1>4. Len(u) - k = m BY <1>1, <1>2
<1>5. SubSeq(u, m + 1, m + k) = b
  <2>1. SubSeq(u, m + 1, m + k) = [i \in 1 .. k |-> u[m + i]]
    <3>1. SubSeq(u, m + 1, m + k) = [i \in 1 .. (1 + (m + k) - (m + 1)) |-> u[i + (m + 1) - 1]] BY <1>1, <1>2
    <3>2. 1 + (m + k) - (m + 1) = k /\ \A i \in 1 .. k : i + (m + 1) - 1 = m + i BY <1>1
    <3> QED BY <3>1, <3>2
  <2>2. \A i \in 1 .. k : u[m + i] = b[i] BY <1>2
  <2> QED BY <1>1, <2>1, <2>2
<1>6. \A i \in 1 .. m : u[i] \in S BY <1>2, <1>3
<1>7. m >= 0 BY <1>1
<1> QED BY <1>2, <1>4, <1>5, <1>6, <1>7 DEF EndsIn, m, k, u

\* What comes before the text of an entry.
Leading == Markers \cup {"3", "."}
Digits == {"3"}
Dots == {".", " "}

\* All of it comes before an entry.
LEMMA LeadingAre == /\ Markers \subseteq Leading /\ Digits \subseteq Leading /\ Dots \subseteq Leading
                    /\ Blanks \subseteq Dots
BY DEF Leading, Digits, Dots, Markers, Blanks

\* Parts of a line are lines.
LEMMA RowParts ==
  /\ \A x, y \in Lettering : Cat(x, y) \in Row => x \in Row /\ y \in Row
  /\ \A S, x : x \in Row => TrimStart(x, S) \in Row
  /\ \A x \in Row : Trim(x) \in Row
<1>1. ASSUME NEW x \in Lettering, NEW y \in Lettering, Cat(x, y) \in Row PROVE x \in Row /\ y \in Row
  <2>1. x \in Seq(Alphabet) /\ y \in Seq(Alphabet) /\ Cat(x, y) \in Seq(Within)
    BY <1>1 DEF Lettering, Row
  <2> QED BY <2>1, CatBack DEF Row
<1>2. ASSUME NEW S, NEW x \in Row PROVE TrimStart(x, S) \in Row
  <2>1. x \in Lettering BY RowsAre
  <2>2. PICK q \in Lettering : q \in Seq(S) /\ x = Cat(q, TrimStart(x, S)) BY <2>1, DropsThose
  <2>3. TrimStart(x, S) \in Lettering BY <2>1, DropNext
  <2> QED BY <1>1, <2>2, <2>3
<1>3. ASSUME NEW x \in Row PROVE Trim(x) \in Row
  <2>1. x \in Lettering BY RowsAre
  <2>2. Cat(TrimOf(x).text, TrimOf(x).after) = TrimStart(x, White) BY <2>1, TrimsStart
  <2>3. TrimOf(x).text \in Lettering /\ TrimOf(x).after \in Lettering /\ Trim(x) = TrimOf(x).text
    BY <2>1, TrimNext
  <2>4. TrimStart(x, White) \in Row BY <1>2
  <2> QED BY <1>1, <2>2, <2>3, <2>4
<1> QED BY <1>1, <1>2, <1>3

\* The white space of a line are blanks.
LEMMA RowWhite == \A x \in Row : TrimStart(x, White) = TrimStart(x, Blanks)
<1> DEFINE P == {x \in Row : TrimStart(x, White) = TrimStart(x, Blanks)}
<1>0. /\ \A u \in Lettering, e \in Alphabet :
           TrimStart(Append(u, e), White) =
             IF TrimStart(u, White) = <<>> /\ e \in White THEN <<>> ELSE Append(TrimStart(u, White), e)
      /\ \A u \in Lettering, e \in Alphabet :
           TrimStart(Append(u, e), Blanks) =
             IF TrimStart(u, Blanks) = <<>> /\ e \in Blanks THEN <<>> ELSE Append(TrimStart(u, Blanks), e)
  BY DropNext
<1>1. <<>> \in P BY RowsAre, DropNext
<1>2. ASSUME NEW x \in Row, NEW c \in Within, x \in P PROVE Append(x, c) \in P
  <2>1. x \in Lettering /\ TrimStart(x, White) = TrimStart(x, Blanks) BY <1>2, RowsAre
  <2>2. c \in Alphabet /\ (c \in White <=> c \in Blanks) BY DEF Within, White, Blanks, Alphabet
  <2>3. Append(x, c) \in Row
    <3>1. \A s \in Seq(Within), e \in Within : Append(s, e) \in Seq(Within) BY Texted
    <3> QED BY <3>1 DEF Row
  <2> QED BY <1>0, <2>1, <2>2, <2>3
<1> HIDE DEF P
<1>3. Row \subseteq P BY <1>1, <1>2, SeqInduction DEF Row
<1> QED BY <1>3 DEF P

\* An entry is the end of its line, and needs no trimming once its marker is gone.
LEMMA BareIs ==
  \A line \in Row :
    /\ Trim(line) \in Lettering /\ Bare(Trim(line)) \in Row /\ Bare(Trim(line)) \in Lettering
    /\ Trim(Bare(Trim(line))) = Bare(Trim(line))
    /\ \E q \in Lettering : q \in Seq(Leading) /\ Trim(line) = Cat(q, Bare(Trim(line)))
<1> SUFFICES ASSUME NEW line \in Row
             PROVE  /\ Trim(line) \in Lettering /\ Bare(Trim(line)) \in Row /\ Bare(Trim(line)) \in Lettering
                    /\ Trim(Bare(Trim(line))) = Bare(Trim(line))
                    /\ \E q \in Lettering : q \in Seq(Leading) /\ Trim(line) = Cat(q, Bare(Trim(line)))
  OBVIOUS
<1> DEFINE t == Trim(line)
           a == TrimStart(t, Markers)
           b == TrimStart(a, Digits)
           r == TrimStart(b, Dots)
<1>0. line \in Lettering BY RowsAre
<1>1. t \in Row /\ a \in Row /\ b \in Row /\ r \in Row BY RowParts
<1>2. t \in Lettering /\ a \in Lettering /\ b \in Lettering /\ r \in Lettering BY <1>1, RowsAre
<1>3. Bare(t) = r BY DEF Bare, Digits, Dots
<1>4. TrimOf(t) = Held(t, <<>>)
  <2>1. t = TrimOf(line).text BY <1>0, TrimNext
  <2> QED BY <1>0, <2>1, TrimsOnce
<1>5. \E q \in Lettering : q \in Seq(Markers) /\ t = Cat(q, a) BY <1>2, DropsThose
<1>6. \E q \in Lettering : q \in Seq(Digits) /\ a = Cat(q, b) BY <1>2, DropsThose
<1>7. \E q \in Lettering : q \in Seq(Dots) /\ b = Cat(q, r) BY <1>2, DropsThose
<1>8. TrimStart(r, White) = r
  <2>1. TrimStart(r, Blanks) = r BY <1>2, LeadingAre, DropsOnce
  <2> QED BY <1>1, <2>1, RowWhite
<1> HIDE DEF t, a, b, r
<1>9. \E q \in Lettering : q \in Seq(Leading) /\ t = Cat(q, r)
  <2>1. PICK q1 \in Lettering : q1 \in Seq(Markers) /\ t = Cat(q1, a) BY <1>5
  <2>2. PICK q2 \in Lettering : q2 \in Seq(Digits) /\ a = Cat(q2, b) BY <1>6
  <2>3. PICK q3 \in Lettering : q3 \in Seq(Dots) /\ b = Cat(q3, r) BY <1>7
  <2>4. q1 \in Seq(Leading) /\ q2 \in Seq(Leading) /\ q3 \in Seq(Leading)
    <3>1. Seq(Markers) \subseteq Seq(Leading) BY LeadingAre
    <3>2. Seq(Digits) \subseteq Seq(Leading) BY LeadingAre
    <3>3. Seq(Dots) \subseteq Seq(Leading) BY LeadingAre
    <3> QED BY <2>1, <2>2, <2>3, <3>1, <3>2, <3>3
  <2>5. \A s, u \in Seq(Leading) : Cat(s, u) \in Seq(Leading) BY CatAppend
  <2>6. Cat(q1, q2) \in Seq(Leading) /\ Cat(Cat(q1, q2), q3) \in Seq(Leading) BY <2>4, <2>5
  <2>7. Cat(q1, q2) \in Lettering /\ Cat(Cat(q1, q2), q3) \in Lettering BY Lettered
  <2>8. Cat(q2, b) \in Lettering /\ Cat(q3, r) \in Lettering BY <1>2, Lettered
  <2>9. Cat(Cat(q1, q2), b) = Cat(q1, Cat(q2, b)) BY <1>2, TogetherAre
  <2>10. Cat(Cat(Cat(q1, q2), q3), r) = Cat(Cat(q1, q2), Cat(q3, r)) BY <1>2, <2>7, TogetherAre
  <2>11. t = Cat(Cat(Cat(q1, q2), q3), r) BY <2>1, <2>2, <2>3, <2>9, <2>10
  <2> QED BY <2>6, <2>7, <2>11
<1>10. Trim(r) = r
  <2> DEFINE u == TrimOf(r).text
             w == TrimOf(r).after
  <2>1. u \in Lettering /\ w \in Lettering /\ Trim(r) = u BY <1>2, TrimNext
  <2>2. Cat(u, w) = r /\ (w # <<>> => \E z \in Lettering, c \in White : r = Append(z, c))
    BY <1>2, <1>8, TrimsStart
  <2> HIDE DEF u, w
  <2>3. w = <<>>
    <3> SUFFICES ASSUME w # <<>> PROVE FALSE OBVIOUS
    <3>1. PICK z \in Lettering, c \in White : r = Append(z, c) BY <2>2
    <3>2. PICK q \in Lettering : t = Cat(q, r) BY <1>9
    <3>3. c \in Alphabet /\ Cat(q, z) \in Lettering BY Letters, Lettered
    <3>4. t = Append(Cat(q, z), c) BY <3>1, <3>2, <3>3, TogetherAre
    <3>5. TrimOf(Append(Cat(q, z), c)) # Held(Append(Cat(q, z), c), <<>>) BY <3>3, WhiteIsDropped
    <3> QED BY <1>4, <3>4, <3>5
  <2> QED BY <2>1, <2>2, <2>3, TogetherAre
<1> QED BY <1>1, <1>2, <1>3, <1>9, <1>10 DEF t

-----------------------------------------------------------------------------
\* What may be shown, given what was said: ends of its lines.
Saying(lines, S) ==
  {b \in Lettering : b # <<>> /\ \E line \in Range(lines) : EndsIn(Trim(line), b, S)}
\* Bullets that are shown as something of G.
ReadAs(G) == {b \in Lettering : from_text(b) \in Seq(G)}

\* A text that may be listed may be listed if it is not empty.
LEMMA SolidIn == ASSUME NEW B, NEW x, x # <<>> => x \in B PROVE Solid(x) \in Seq(B)
<1>1. CASE x = <<>>
  <2>1. Solid(x) = <<>> BY <1>1 DEF Solid
  <2> QED BY <2>1, Texted
<1>2. CASE x # <<>>
  <2>1. Solid(x) = <<x>> BY <1>2 DEF Solid
  <2> QED BY <1>2, <2>1, Texted
<1> QED BY <1>1, <1>2

\* The lines that are shown are ends of lines of the text.
LEMMA ListedSaid ==
  ASSUME NEW lines, NEW x \in Lettering, Lines(x) \in Seq(Range(lines))
  PROVE  from_text(x) \in Seq(Saying(lines, Markers))
<1> DEFINE G == Saying(lines, Markers)
<1>1. Lines(x) \in Seq(Lettering) BY LinesAre, RowsAre
<1>2. ASSUME NEW i \in DOMAIN Lines(x) PROVE listed[Lines(x)[i]] \in Seq(G)
  <2> DEFINE line == Lines(x)[i]
  <2>1. i \in 1 .. Len(Lines(x)) BY <1>1, LenProperties
  <2>2. line \in Lettering BY <1>1, <2>1, ElementOfSeq
  <2>2a. line \in Range(lines) BY <2>1, ElementOfSeq
  <2> HIDE DEF line
  <2>3. Trim(line) \in Lettering /\ Core(line) \in Lettering /\ listed[line] = Solid(Core(line))
    BY <2>2, ListedIs
  <2>4. PICK q \in Lettering : q \in Seq(Markers) /\ Trim(line) = Cat(q, Core(line))
    BY <2>3, DropsThose DEF Core
  <2>5. EndsIn(Cat(q, Core(line)), Core(line), Markers) BY <2>3, <2>4, Ends
  <2>6. Core(line) # <<>> => Core(line) \in G BY <2>2a, <2>3, <2>4, <2>5 DEF Saying
  <2> HIDE DEF G
  <2> QED BY <2>3, <2>6, SolidIn DEF line
<1> HIDE DEF G
<1>3. Each(listed, Lines(x)) \in Seq(G) BY <1>1, <1>2, EachGives
<1> QED BY <1>3 DEF from_text, G

\* So is an entry, once it is shown.
LEMMA EntrySaid ==
  ASSUME NEW lines, NEW line \in Row, line \in Range(lines)
  PROVE  from_text(Bare(Trim(line))) \in Seq(Saying(lines, Leading))
<1> DEFINE r == Bare(Trim(line))
           G == Saying(lines, Leading)
<1>1. r \in Row /\ r \in Lettering /\ Trim(r) = r /\ Trim(line) \in Lettering
      /\ \E q \in Lettering : q \in Seq(Leading) /\ Trim(line) = Cat(q, r)
  BY BareIs
<1> HIDE DEF r
<1>2. Lines(r) = <<r>>
  <2>1. Cut(<<>>) = Halfway(<<>>, <<>>) BY LinesAre
  <2>2. Cut(<<>>).done = <<>> /\ Cut(<<>>).last = <<>> BY <2>1 DEF Halfway
  <2>3. Cut(Cat(<<>>, r)) = Halfway(Cut(<<>>).done, Cat(Cut(<<>>).last, r)) BY <1>1, CutOn, Lettered
  <2>4. Cut(r) = Halfway(<<>>, r) BY <1>1, <2>2, <2>3, TogetherAre
  <2>5. Cut(r).done = <<>> /\ Cut(r).last = r BY <2>4 DEF Halfway
  <2>6. Lines(r) = Append(<<>>, r) BY <1>1, <2>5, LinesAre
  <2>7. <<r>> = Append(<<>>, r) BY <1>1, Texted
  <2> QED BY <2>6, <2>7
<1>3. listed[r] \in Seq(G)
  <2>1. Core(r) = TrimStart(r, Markers) /\ Core(r) \in Lettering /\ listed[r] = Solid(Core(r))
    BY <1>1, ListedIs DEF Core
  <2>2. PICK p \in Lettering : p \in Seq(Markers) /\ r = Cat(p, Core(r)) BY <1>1, <2>1, DropsThose
  <2>3. PICK q \in Lettering : q \in Seq(Leading) /\ Trim(line) = Cat(q, r) BY <1>1
  <2>4. p \in Seq(Leading)
    <3>1. Seq(Markers) \subseteq Seq(Leading) BY LeadingAre
    <3> QED BY <2>2, <3>1
  <2>5. Cat(q, p) \in Lettering BY Lettered
  <2>6. Cat(q, p) \in Seq(Leading)
    <3>1. \A s, u \in Seq(Leading) : Cat(s, u) \in Seq(Leading) BY CatAppend
    <3> QED BY <2>3, <2>4, <3>1
  <2>7. Trim(line) = Cat(Cat(q, p), Core(r)) 
    <3>1. Cat(Cat(q, p), Core(r)) = Cat(q, Cat(p, Core(r))) BY <2>1, TogetherAre
    <3> QED BY <2>2, <2>3, <3>1
  <2>8. EndsIn(Trim(line), Core(r), Leading) BY <2>1, <2>5, <2>6, <2>7, Ends
  <2>9. Core(r) # <<>> => Core(r) \in G BY <2>1, <2>8 DEF Saying
  <2> HIDE DEF G
  <2> QED BY <2>1, <2>9, SolidIn
<1> HIDE DEF G
<1>4. from_text(r) \in Seq(G)
  <2>1. <<r>> = Append(<<>>, r) BY <1>1, Texted
  <2>2. Each(listed, Append(<<>>, r)) = Cat(Each(listed, <<>>), listed[r]) BY <1>1, ListedSpells, Lettered DEF Spells
  <2>3. Each(listed, <<>>) = <<>> BY ListedSpells DEF Spells
  <2>4. \A s \in Seq(G) : Cat(<<>>, s) = s BY CatAppend
  <2>5. Cat(<<>>, listed[r]) = listed[r] BY <1>3, <2>4
  <2> QED BY <1>2, <1>3, <2>1, <2>2, <2>3, <2>5 DEF from_text
<1> QED BY <1>4 DEF r, G

\* Bullets that are shown so are when they were stored.
LEMMA ShownSaid ==
  ASSUME NEW G, NEW s \in Seq(Tidy), s \in Seq(ReadAs(G))
  PROVE  from_text(to_text(s)) \in Seq(G)
<1>1. \A i \in DOMAIN s : s[i] \in ReadAs(G) BY LenProperties, ElementOfSeq
<1>2. \A i \in DOMAIN s : shown[s[i]] \in Seq(G) BY <1>1 DEF shown, ReadAs
<1>3. Each(shown, s) \in Seq(G) BY <1>2, EachGives
<1> QED BY <1>3, StoredIs

\* The bullets of a JSON reply,
LEMMA BulletsSaid ==
  ASSUME NEW s \in Seq(Lettering)
  PROVE  Each(bulleted, s) \in Seq(ReadAs(Saying(Each(lined, s), Markers)))
<1> DEFINE lines == Each(lined, s)
           G == Saying(lines, Markers)
<1>1. \A x \in Lettering : lined[x] = Lines(x) /\ lined[x] \in Seq(Lettering)
  BY LinesAre, RowsAre DEF lined
<1>2. Gives(lined, Lettering, Lettering) BY <1>1 DEF Gives
<1>3. lines \in Seq(Lettering) BY <1>2, Eaching DEF Spells
<1>4. lines \in Seq(Range(lines)) BY <1>3, ItemsOf
<1> HIDE DEF G
<1>5. \A i \in DOMAIN s : lined[s[i]] \in Seq(Range(lines)) BY <1>2, <1>4, EachHas
<1>6. \A i \in DOMAIN s : s[i] \in Lettering BY LenProperties, ElementOfSeq
<1> HIDE DEF lines
<1>7. ASSUME NEW i \in DOMAIN s PROVE bulleted[s[i]] \in Seq(ReadAs(G))
  <2> DEFINE x == s[i]
  <2>1. x \in Lettering /\ Lines(x) \in Seq(Range(lines)) BY <1>1, <1>5, <1>6
  <2> HIDE DEF x
  <2>2. from_text(x) \in Seq(G) BY <2>1, ListedSaid DEF G
  <2>3. from_text(Trim(x)) \in Seq(G) /\ Trim(x) \in Lettering BY <2>1, <2>2, TrimmedReads, TrimNext
  <2>4. Trim(x) \in ReadAs(G) BY <2>3 DEF ReadAs
  <2>5. Solid(Trim(x)) \in Seq(ReadAs(G)) BY <2>4, SolidIn
  <2> QED BY <2>1, <2>5, BulletedAre DEF x
<1>8. Each(bulleted, s) \in Seq(ReadAs(G)) BY <1>7, EachGives
<1> QED BY <1>8 DEF G, lines

\* and those of a plain one.
LEMMA EntriesSaid ==
  ASSUME NEW x \in Lettering
  PROVE  parse_lines(x) \in Seq(ReadAs(Saying(Lines(x), Leading)))
<1> DEFINE lines == Lines(x)
           G == Saying(lines, Leading)
<1>1. lines \in Seq(Row) BY LinesAre
<1>2. ASSUME NEW i \in DOMAIN lines PROVE entries[lines[i]] \in Seq(ReadAs(G))
  <2> DEFINE line == lines[i]
             r == Bare(Trim(line))
  <2> HIDE DEF lines
  <2>1. line \in Row /\ line \in Range(lines)
    <3>1. i \in 1 .. Len(lines) BY <1>1, LenProperties
    <3> QED BY <1>1, <3>1, ElementOfSeq DEF Range
  <2> HIDE DEF line
  <2>2. from_text(r) \in Seq(G) BY <2>1, EntrySaid
  <2>3. r \in Lettering /\ Trim(r) = r BY <2>1, BareIs
  <2>4. line \in Lettering BY <2>1, RowsAre
  <2>5. entries[line] = <<>> \/ entries[line] = Solid(Trim(r)) BY <2>4, EntriesAre
  <2> HIDE DEF r, G
  <2>6. r \in ReadAs(G) BY <2>2, <2>3 DEF ReadAs
  <2>7. Solid(r) \in Seq(ReadAs(G)) /\ <<>> \in Seq(ReadAs(G)) BY <2>6, SolidIn, Texted
  <2> QED BY <2>3, <2>5, <2>7 DEF line
<1>3. lines \in Seq(Lettering) BY <1>1, RowsAre
<1> HIDE DEF lines, G
<1>4. Each(entries, lines) \in Seq(ReadAs(G)) BY <1>2, <1>3, EachGives
<1> QED BY <1>4 DEF parse_lines, lines, G

\* Whatever the provider answers, what is shown was said.
LEMMA SaidIs == ASSUME BriefingInstance PROVE answer \in Answers => BriefingSaid
<1> SUFFICES ASSUME answer \in Answers PROVE BriefingSaid OBVIOUS
<1> DEFINE s == generate(answer).bullets
           S == IF Listed(answer) THEN Markers ELSE Leading
           G == Saying(Said(answer), S)
<1>1. Answered(answer) BY AnswersAre
<1>2. s \in Seq(Tidy) BY <1>1, GeneratedIs
<1>3. Shown(answer) = from_text(to_text(s)) BY DEF Shown
<1>4. s \in Seq(ReadAs(G))
  <2>1. CASE s = <<>>
    <3> HIDE DEF s
    <3> QED BY <2>1, Texted
  <2>2. CASE s # <<>>
    <3>1. answer.kind = "reply" /\ s = Parsed(answer) BY <1>1, <2>2, GeneratedIs
    <3>2. answer.text \in Lettering /\ answer.bullets \in Seq(Lettering) BY <1>1, <3>1 DEF Answered
    <3> HIDE DEF s
    <3>3. CASE Listed(answer)
      <4>1. s = Each(bulleted, answer.bullets) BY <3>1, <3>3 DEF Parsed
      <4>2. Said(answer) = Each(lined, answer.bullets) /\ S = Markers BY <3>1, <3>3 DEF Said
      <4> QED BY <3>2, <4>1, <4>2, BulletsSaid
    <3>4. CASE ~ Listed(answer)
      <4>1. s = parse_lines(answer.text) BY <3>1, <3>4 DEF Parsed
      <4>2. Said(answer) = Lines(answer.text) /\ S = Leading BY <3>1, <3>4 DEF Said
      <4> QED BY <3>2, <4>1, <4>2, EntriesSaid
    <3> QED BY <3>3, <3>4
  <2> QED BY <2>1, <2>2
<1> HIDE DEF s, G
<1>5. Shown(answer) \in Seq(G) BY <1>2, <1>3, <1>4, ShownSaid
<1>6. \A bullet \in Range(Shown(answer)) : bullet \in G BY <1>5, ItemsOf
<1>7. \A bullet \in Range(Shown(answer)) :
        bullet # <<>> /\ \E line \in Range(Said(answer)) : EndsIn(Trim(line), bullet, S)
  BY <1>6 DEF G, Saying
<1>8. S = IF Listed(answer) THEN Markers ELSE Markers \cup {"3", "."} BY DEF Leading
<1> HIDE DEF S
<1> QED BY <1>7, <1>8 DEF BriefingSaid

(* What is shown was said: a bullet is a line of a JSON reply less its     *)
(* markers, or, when there is none that lists anything, the end of a line  *)
(* after nothing but markers, a number and its full stop.  Trimming, storing and reading back         *)
(* together only ever shorten a line at its ends (ai.rs: generate, parse,  *)
(* to_text, from_text).                                                    *)
THEOREM BriefingsSaid == ASSUME BriefingInstance PROVE BriefingSpec => []BriefingSaid
<1>1. BriefingInit => answer \in Answers BY DEF BriefingInit
<1>2. answer \in Answers /\ [FALSE]_answer => (answer \in Answers)' OBVIOUS
<1>3. answer \in Answers => BriefingSaid BY SaidIs
<1> QED BY <1>1, <1>2, <1>3, PTL DEF BriefingSpec
=============================================================================
