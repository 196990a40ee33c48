---------------------------- MODULE RecordsProofs ----------------------------
(* Theorems about Records, for every set of workspaces and of requests and   *)
(* every bound on the tables: rows and writes stay in their workspace,       *)
(* whatever interleaves, and, until a destroy has overlapped a request that  *)
(* writes references, no reference dangles, wherever handlers are cut short. *)
EXTENDS Records, TLAPS

-----------------------------------------------------------------------------
(* Type correctness.  What a request carries at each point is needed to know *)
(* that its queries are applied to rows of the right tables.                 *)

Shapely(q) ==
  /\ q.pc # "idle" => q.acct \in Accounts
  /\ q.pc = "load" => q.left \subseteq RefKinds /\ (q.op # "create" => q.id \in Ids)
  /\ q.pc \notin {"idle", "load"} => q.id \in Ids
  /\ q.pc = "detach" => q.left \subseteq {"contact", "deal", "activity"}

TypeInv == TypeOK /\ \A r \in Requests : Shapely(req[r])

USE DEF NoId

\* The rows a table can hold are never confused with the answer for no row.
LEMMA RowType ==
  ASSUME NEW row \in Row
  PROVE  row # NoRow /\ row.acct \in Accounts /\ row.refs \in Refs
BY NoRowAssumption DEF Row

\* A request record built by a step keeps every request well formed.
LEMMA RequestStep ==
  ASSUME TypeInv, NEW r \in Requests, NEW q \in Request, Shapely(q),
         req' = [req EXCEPT ![r] = q]
  PROVE  req' \in [Requests -> Request] /\ \A p \in Requests : Shapely(req'[p])
BY DEF TypeInv, TypeOK

\* An empty slot is a well-formed request.
LEMMA IdleType == Idle \in Request /\ Shapely(Idle)
<1>1. NoRefs \in Refs
  BY DEF NoRefs, Refs, MaybeId
<1> QED
  BY <1>1 DEF Idle, Request, Points, Ops, Kinds, MaybeId, Shapely

\* So is every request after one of them has ended.
LEMMA FinishType ==
  ASSUME TypeInv, NEW r \in Requests, Finish(r)
  PROVE  req' \in [Requests -> Request] /\ \A p \in Requests : Shapely(req'[p])
BY IdleType, RequestStep DEF Finish

\* The three ways a query changes a table keep the tables well formed.
LEMMA InsertType ==
  ASSUME TypeOK, NEW k \in Kinds, NEW row \in Row, InsertRow(k, row)
  PROVE  db' \in [Kinds -> [Ids -> Row \cup {NoRow}]] /\ seq' \in [Kinds -> 0 .. MaxId]
<1>1. seq[k] \in 0 .. MaxId /\ Limit[k] \in 0 .. MaxId /\ seq[k] < Limit[k]
  BY LimitAssumption DEF TypeOK, InsertRow
<1>2. NextId(k) \in Ids /\ NextId(k) \in 0 .. MaxId
  BY <1>1, MaxIdAssumption DEF NextId, Ids
<1> QED
  BY <1>2 DEF TypeOK, InsertRow

\* An UPDATE leaves a row of the table a row, and no row no row.
LEMMA UpdateType ==
  ASSUME TypeOK, NEW k \in Kinds, NEW i \in Ids, NEW cols, NEW refs \in Refs,
         UpdateRow(k, i, cols, refs)
  PROVE  db' \in [Kinds -> [Ids -> Row \cup {NoRow}]]
<1>1. CASE db[k][i] = NoRow
  BY <1>1 DEF UpdateRow, TypeOK
<1>2. CASE db[k][i] # NoRow
  <2>1. db[k][i] \in Row
    BY <1>2 DEF TypeOK
  <2>2. SetRefs(db[k][i], cols, refs) \in Row
    BY <2>1 DEF SetRefs, Row, Refs
  <2>3. db' = [db EXCEPT ![k][i] = SetRefs(db[k][i], cols, refs)]
    BY <1>2 DEF UpdateRow
  <2> QED
    BY <2>2, <2>3 DEF TypeOK
<1> QED
  BY <1>1, <1>2

\* One lemma per kind of step: what it makes of the requests.
LEMMA StartType ==
  ASSUME TypeInv, NEW r \in Requests, NEW a \in Accounts, NEW op \in Ops,
         NEW k \in FormKinds, NEW i \in MaybeId, NEW refs \in Refs,
         op # "create" => i \in Ids, Start(r, a, op, k, i, refs)
  PROVE  TypeInv'
<1> DEFINE q == [Idle EXCEPT
        !.pc = "load", !.acct = a, !.op = op, !.kind = k, !.id = i, !.refs = refs,
        !.left = {j \in Links(k) : refs[j] # NoId}]
<1>1. Links(k) \subseteq RefKinds
  BY DEF Links, RefKinds
<1>2. q \in Request
  BY <1>1, IdleType DEF Request, Points, Kinds, FormKinds, RefKinds
<1>3. Shapely(q)
  BY <1>1, IdleType DEF Shapely, Request
<1>4. req' = [req EXCEPT ![r] = q]
  BY DEF Start
<1> HIDE DEF q
<1>5. req' \in [Requests -> Request] /\ \A p \in Requests : Shapely(req'[p])
  BY <1>2, <1>3, <1>4, RequestStep
<1> QED
  BY <1>5 DEF TypeInv, TypeOK, Start

\* Whatever form arrives, the request it starts is well formed.
LEMMA BeginType ==
  ASSUME TypeInv, NEW r \in Requests, Begin(r)
  PROVE  TypeInv'
<1>1. PICK a \in Accounts :
        \/ StartCreate(r, a) \/ StartUpdate(r, a) \/ StartSetStage(r, a)
        \/ StartDestroy(r, a) \/ StartBriefing(r, a)
  BY DEF Begin
<1>2. NoRefs \in Refs /\ NoId \in MaybeId /\ Ids \subseteq MaybeId
  BY DEF NoRefs, Refs, MaybeId
<1>3. \A k : FormRefs(k) \subseteq Refs
  BY DEF FormRefs
<1>4. CASE StartCreate(r, a)
  <2>1. PICK k \in FormKinds, refs \in Refs : Start(r, a, "create", k, NoId, refs)
    BY <1>3, <1>4 DEF StartCreate
  <2> QED
    BY <1>2, <2>1, StartType DEF Ops
<1>5. CASE StartUpdate(r, a)
  <2>1. PICK k \in FormKinds, i \in Ids, refs \in Refs : Start(r, a, "update", k, i, refs)
    BY <1>3, <1>5 DEF StartUpdate, FormKinds
  <2> QED
    BY <1>2, <2>1, StartType DEF Ops
<1>6. CASE StartSetStage(r, a)
  BY <1>2, <1>6, StartType DEF StartSetStage, Ops, FormKinds
<1>7. CASE StartDestroy(r, a)
  BY <1>2, <1>7, StartType DEF StartDestroy, Ops
<1>8. CASE StartBriefing(r, a)
  BY <1>2, <1>8, StartType DEF StartBriefing, Ops, FormKinds
<1> QED
  BY <1>1, <1>4, <1>5, <1>6, <1>7, <1>8

\* Checking a reference takes it off the list or ends the request.
LEMMA CheckReferenceType ==
  ASSUME TypeInv, NEW r \in Requests, CheckReference(r)
  PROVE  TypeInv'
<1> DEFINE j == First(req[r].left)
           q == [req[r] EXCEPT !.left = @ \ {j}]
<1>1. req[r] \in Request /\ Shapely(req[r])
  BY DEF TypeInv, TypeOK
<1>2. q \in Request
  BY <1>1 DEF Request
<1>3. Shapely(q)
  BY <1>1, <1>2 DEF Shapely, Request
<1>4. req' = [req EXCEPT ![r] = q] \/ Finish(r)
  BY DEF CheckReference, TypeInv, TypeOK
<1> HIDE DEF q
<1>5. req' \in [Requests -> Request] /\ \A p \in Requests : Shapely(req'[p])
  BY <1>2, <1>3, <1>4, RequestStep, FinishType
<1> QED
  BY <1>5 DEF TypeInv, TypeOK, CheckReference

\* A create inserts a row its user and its form make up.
LEMMA InsertRequestType ==
  ASSUME TypeInv, NEW r \in Requests, Insert(r)
  PROVE  TypeInv'
<1>1. req[r] \in Request /\ Shapely(req[r])
  BY DEF TypeInv, TypeOK
<1>2. [acct |-> req[r].acct, refs |-> req[r].refs] \in Row /\ req[r].kind \in Kinds
  BY <1>1 DEF Request, Shapely, Row, Insert
<1>3. db' \in [Kinds -> [Ids -> Row \cup {NoRow}]] /\ seq' \in [Kinds -> 0 .. MaxId]
  BY <1>2, InsertType DEF Insert, TypeInv
<1> QED
  BY <1>3, FinishType DEF TypeInv, TypeOK, Insert

\* Finding its own row gives a handler the id it works on.
LEMMA FindType ==
  ASSUME TypeInv, NEW r \in Requests, Find(r)
  PROVE  TypeInv'
<1>1. req[r] \in Request /\ Shapely(req[r])
  BY DEF TypeInv, TypeOK
<1>2. CASE Finish(r)
  BY <1>2, FinishType DEF TypeInv, TypeOK, Find
<1>3. CASE ~ Finish(r)
  <2> DEFINE q(notes) ==
        [req[r] EXCEPT !.pc = AfterFind(req[r].op), !.seen = notes,
                       !.left = IF req[r].op = "destroy" THEN Children(req[r].kind) ELSE {}]
  <2>1. PICK notes \in BOOLEAN : req' = [req EXCEPT ![r] = q(notes)]
    BY <1>3 DEF Find, TypeInv, TypeOK
  <2>2. /\ AfterFind(req[r].op) \in Points \ {"idle", "load"}
        /\ Children(req[r].kind) \subseteq {"contact", "deal", "activity"}
        /\ Children(req[r].kind) \in SUBSET Kinds
    BY DEF AfterFind, Points, Children, Kinds
  <2>3. q(notes) \in Request
    BY <1>1, <2>2 DEF Request
  <2>4. Shapely(q(notes))
    BY <1>1, <2>2 DEF Shapely, Request, Find
  <2> HIDE DEF q
  <2>5. req' \in [Requests -> Request] /\ \A p \in Requests : Shapely(req'[p])
    BY <2>1, <2>3, <2>4, RequestStep
  <2> QED
    BY <2>5 DEF TypeInv, TypeOK, Find
<1> QED
  BY <1>2, <1>3

\* An update rewrites the reference columns of one row.
LEMMA WriteType ==
  ASSUME TypeInv, NEW r \in Requests, Write(r)
  PROVE  TypeInv'
<1>1. req[r] \in Request /\ Shapely(req[r])
  BY DEF TypeInv, TypeOK
<1>2. req[r].kind \in Kinds /\ req[r].id \in Ids /\ req[r].refs \in Refs
  BY <1>1 DEF Request, Shapely, Write
<1>3. db' \in [Kinds -> [Ids -> Row \cup {NoRow}]]
  BY <1>2, UpdateType DEF Write, TypeInv
<1> QED
  BY <1>3, FinishType DEF TypeInv, TypeOK, Write

\* Selecting children notes ids of rows of one child table.
LEMMA SelectChildrenType ==
  ASSUME TypeInv, NEW r \in Requests, SelectChildren(r)
  PROVE  TypeInv'
<1> DEFINE k == First(req[r].left)
           q == [req[r] EXCEPT !.left = @ \ {k}, !.child = k,
                   !.todo = Holding(k, req[r].acct, req[r].kind, req[r].id)]
<1>1. req[r] \in Request /\ Shapely(req[r])
  BY DEF TypeInv, TypeOK
<1>2. k \in Kinds /\ Holding(k, req[r].acct, req[r].kind, req[r].id) \in SUBSET Ids
  BY DEF First, Kinds, Holding
<1>3. q \in Request
  BY <1>1, <1>2 DEF Request
<1>4. Shapely(q)
  BY <1>1, <1>2 DEF Shapely, Request, SelectChildren
<1>5. req' = [req EXCEPT ![r] = q]
  BY DEF SelectChildren, TypeInv, TypeOK
<1> HIDE DEF q
<1>6. req' \in [Requests -> Request] /\ \A p \in Requests : Shapely(req'[p])
  BY <1>3, <1>4, <1>5, RequestStep
<1> QED
  BY <1>6 DEF TypeInv, TypeOK, SelectChildren

\* Detaching clears one column of one of them.
LEMMA DetachChildType ==
  ASSUME TypeInv, NEW r \in Requests, DetachChild(r)
  PROVE  TypeInv'
<1>1. req[r] \in Request /\ Shapely(req[r])
  BY DEF TypeInv, TypeOK
<1>2. PICK n \in req[r].todo :
        /\ UpdateRow(req[r].child, n, {req[r].kind}, NoRefs)
        /\ req' = [req EXCEPT ![r].todo = @ \ {n}]
  BY DEF DetachChild
<1> DEFINE q == [req[r] EXCEPT !.todo = @ \ {n}]
<1>3. req[r].child \in Kinds /\ n \in Ids /\ NoRefs \in Refs
  BY <1>1 DEF Request, NoRefs, Refs, MaybeId
<1>4. db' \in [Kinds -> [Ids -> Row \cup {NoRow}]]
  BY <1>2, <1>3, UpdateType DEF TypeInv
<1>5. q \in Request
  BY <1>1 DEF Request
<1>6. Shapely(q)
  BY <1>1 DEF Shapely, Request
<1>7. req' = [req EXCEPT ![r] = q]
  BY <1>2 DEF TypeInv, TypeOK
<1> HIDE DEF q
<1>8. req' \in [Requests -> Request] /\ \A p \in Requests : Shapely(req'[p])
  BY <1>5, <1>6, <1>7, RequestStep
<1> QED
  BY <1>4, <1>8 DEF TypeInv, TypeOK, DetachChild

\* Deleting takes one row out of its table.
LEMMA DeleteRowType ==
  ASSUME TypeInv, NEW r \in Requests, DeleteRow(r)
  PROVE  TypeInv'
<1>1. db' \in [Kinds -> [Ids -> Row \cup {NoRow}]]
  BY DEF TypeInv, TypeOK, DeleteRow
<1> QED
  BY <1>1, FinishType DEF TypeInv, TypeOK, DeleteRow

\* The four steps of a briefing.
LEMMA BriefingType ==
  ASSUME TypeInv, NEW r \in Requests,
         ReadDeals(r) \/ ReadActivities(r) \/ ProviderReplies(r) \/ SaveBriefing(r)
  PROVE  TypeInv'
<1>1. req[r] \in Request /\ Shapely(req[r])
  BY DEF TypeInv, TypeOK
<1>2. CASE ReadDeals(r)
  <2> DEFINE q == [req[r] EXCEPT !.pc = "activities",
                     !.seen = @ \/ Holding("deal", req[r].acct, "contact", req[r].id) # {}]
  <2>1. q \in Request
    BY <1>1 DEF Request, Points
  <2>2. Shapely(q)
    BY <1>1, <1>2 DEF Shapely, Request, ReadDeals
  <2>3. req' = [req EXCEPT ![r] = q]
    BY <1>2 DEF ReadDeals, TypeInv, TypeOK
  <2> HIDE DEF q
  <2>4. req' \in [Requests -> Request] /\ \A p \in Requests : Shapely(req'[p])
    BY <2>1, <2>2, <2>3, RequestStep
  <2> QED
    BY <1>2, <2>4 DEF TypeInv, TypeOK, ReadDeals
<1>3. CASE ReadActivities(r) \/ ProviderReplies(r)
  <2> DEFINE q(pc) == [req[r] EXCEPT !.pc = pc]
  <2>1. \A pc \in {"ask", "save"} : q(pc) \in Request
    BY <1>1 DEF Request, Points
  <2>2. \A pc \in {"ask", "save"} : Shapely(q(pc))
    BY <1>1, <1>3 DEF Shapely, Request, ReadActivities, ProviderReplies
  <2>3. Finish(r) \/ \E pc \in {"ask", "save"} : req' = [req EXCEPT ![r] = q(pc)]
    BY <1>3 DEF ReadActivities, ProviderReplies, TypeInv, TypeOK
  <2> HIDE DEF q
  <2>4. req' \in [Requests -> Request] /\ \A p \in Requests : Shapely(req'[p])
    BY <2>1, <2>2, <2>3, RequestStep, FinishType
  <2> QED
    BY <1>3, <2>4 DEF TypeInv, TypeOK, ReadActivities, ProviderReplies
<1>4. CASE SaveBriefing(r)
  <2>1. [acct |-> req[r].acct, refs |-> [NoRefs EXCEPT !["contact"] = req[r].id]] \in Row
    BY <1>1, <1>4 DEF Request, Shapely, Row, Refs, NoRefs, MaybeId, SaveBriefing
  <2>2. db' \in [Kinds -> [Ids -> Row \cup {NoRow}]] /\ seq' \in [Kinds -> 0 .. MaxId]
    BY <1>4, <2>1, InsertType DEF SaveBriefing, TypeInv, Kinds
  <2> QED
    BY <1>4, <2>2, FinishType DEF TypeInv, TypeOK, SaveBriefing
<1> QED
  BY <1>2, <1>3, <1>4

\* A request that stops changes no table.
LEMMA AbortType ==
  ASSUME TypeInv, NEW r \in Requests, Abort(r)
  PROVE  TypeInv'
BY FinishType DEF TypeInv, TypeOK, Abort

\* The empty book is well formed.
LEMMA InitTypeInv == Init => TypeInv
<1>1. Init => req \in [Requests -> Request] /\ \A r \in Requests : Shapely(req[r])
  BY IdleType DEF Init
<1>2. Init => db \in [Kinds -> [Ids -> Row \cup {NoRow}]] /\ seq \in [Kinds -> 0 .. MaxId]
  BY MaxIdAssumption DEF Init
<1> QED
  BY <1>1, <1>2 DEF Init, TypeInv, TypeOK

\* Every step of the system keeps it well formed.
LEMMA NextTypeInv == TypeInv /\ [Next]_vars => TypeInv'
<1> SUFFICES ASSUME TypeInv, [Next]_vars PROVE TypeInv'
  OBVIOUS
<1>1. CASE UNCHANGED vars
  BY <1>1 DEF TypeInv, TypeOK, vars
<1>2. CASE Next
  <2>1. PICK r \in Requests : Begin(r) \/ Step(r) \/ Abort(r)
    BY <1>2 DEF Next
  <2> QED
    BY <2>1, BeginType, CheckReferenceType, InsertRequestType, FindType, WriteType,
       SelectChildrenType, DetachChildType, DeleteRowType, BriefingType, AbortType
       DEF Step
<1> QED
  BY <1>1, <1>2

\* Tables and requests keep their shape, whatever is bounded by what.
THEOREM TypeCorrect == Spec => []TypeOK
<1>1. TypeInv => TypeOK
  BY DEF TypeInv
<1> QED
  BY <1>1, InitTypeInv, NextTypeInv, PTL DEF Spec

-----------------------------------------------------------------------------
(* Tenant isolation.  A reference is checked some awaits before it is        *)
(* written, and the row it names may be deleted in between.  Isolation       *)
(* survives because a row never changes workspace and because an id, once    *)
(* assigned, is never assigned again: a checked id stays "at home" for good, *)
(* assigned, and with nothing of another workspace under it.                 *)

Home(k, i, a) == i <= seq[k] /\ (db[k][i] # NoRow => db[k][i].acct = a)

\* No table holds an id its IDENTITY column has not reached.
IdsAssigned == \A k \in Kinds, i \in Ids : db[k][i] # NoRow => i <= seq[k]

\* Every stored reference is at home, a dangling one included.
StoredRefsHome ==
  \A k \in Kinds, i \in Ids, j \in RefKinds :
    db[k][i] # NoRow /\ db[k][i].refs[j] # NoId =>
      Home(j, db[k][i].refs[j], db[k][i].acct)

\* Every reference of a request that it has checked is at home.
CheckedRefsHome(q) ==
  \A j \in RefKinds :
    q.refs[j] # NoId /\ ~ (q.pc = "load" /\ j \in q.left) => Home(j, q.refs[j], q.acct)

\* So are the row a request has found and the children it has selected.
FoundRowHome(q) == q.pc \notin {"idle", "load"} => Home(q.kind, q.id, q.acct)
ChildrenHome(q) == \A n \in q.todo : Home(q.child, n, q.acct)

\* The id a briefing will be stored under is a contact's.
BriefsContacts(q) ==
  /\ q.op = "briefing" => q.kind = "contact"
  /\ q.pc \in {"deals", "activities", "ask", "save"} => q.op = "briefing"

AtHome(q) ==
  CheckedRefsHome(q) /\ FoundRowHome(q) /\ ChildrenHome(q) /\ BriefsContacts(q)

IsolationInv ==
  /\ TypeInv
  /\ IdsAssigned
  /\ StoredRefsHome
  /\ \A r \in Requests : AtHome(req[r])

\* A row about to be written links nothing of another workspace to it.
RowHome(row) == \A j \in RefKinds : row.refs[j] # NoId => Home(j, row.refs[j], row.acct)

\* What a step may do to the tables, as far as isolation is concerned: leave
\* them, add a row with the next id, rewrite a row in place, or delete one.
Adds(a) ==
  \E k \in Kinds, row \in Row : InsertRow(k, row) /\ row.acct = a /\ RowHome(row)
Rewrites(a) ==
  \E k \in Kinds, i \in Ids, row \in Row :
    /\ db[k][i] # NoRow /\ db[k][i].acct = a /\ row.acct = a /\ RowHome(row)
    /\ db' = [db EXCEPT ![k][i] = row]
    /\ UNCHANGED seq
Deletes(a) ==
  \E k \in Kinds, i \in Ids :
    /\ db[k][i] # NoRow => db[k][i].acct = a
    /\ db' = [db EXCEPT ![k][i] = NoRow]
    /\ UNCHANGED seq
TableStep(a) == UNCHANGED <<db, seq>> \/ Adds(a) \/ Rewrites(a) \/ Deletes(a)

\* Whatever a step does, an id that is at home stays at home.
LEMMA HomeStable ==
  ASSUME TypeOK, IdsAssigned, NEW a, TableStep(a),
         NEW k \in Kinds, NEW i \in Ids, NEW b, Home(k, i, b)
  PROVE  Home(k, i, b)'
<1>1. CASE UNCHANGED <<db, seq>>
  BY <1>1 DEF Home
<1>2. CASE Adds(a)
  <2>1. PICK l \in Kinds, row \in Row : InsertRow(l, row)
    BY <1>2 DEF Adds
  <2>2. seq[k] \in Nat /\ seq[l] \in Nat
    BY MaxIdAssumption DEF TypeOK
  <2>3. seq'[k] >= seq[k] /\ (l = k => NextId(l) # i)
    BY <2>1, <2>2 DEF InsertRow, NextId, Home, TypeOK, Ids
  <2>4. db'[k][i] = db[k][i]
    BY <2>1, <2>3 DEF InsertRow, TypeOK
  <2>5. seq'[k] \in Nat /\ i \in Nat
    BY <2>1, <2>2 DEF InsertRow, NextId, TypeOK, Ids
  <2> QED
    BY <2>2, <2>3, <2>4, <2>5 DEF Home
<1>3. CASE Rewrites(a)
  <2>1. PICK l \in Kinds, n \in Ids, row \in Row :
          /\ db[l][n] # NoRow /\ db[l][n].acct = a /\ row.acct = a
          /\ db' = [db EXCEPT ![l][n] = row]
    BY <1>3 DEF Rewrites
  <2>2. db'[k][i] = IF l = k /\ n = i THEN row ELSE db[k][i]
    BY <2>1 DEF TypeOK
  <2> QED
    BY <1>3, <2>1, <2>2 DEF Home, Rewrites
<1>4. CASE Deletes(a)
  <2>1. PICK l \in Kinds, n \in Ids : db' = [db EXCEPT ![l][n] = NoRow]
    BY <1>4 DEF Deletes
  <2>2. db'[k][i] = NoRow \/ db'[k][i] = db[k][i]
    BY <2>1 DEF TypeOK
  <2> QED
    BY <1>4, <2>2 DEF Home, Deletes
<1> QED
  BY <1>1, <1>2, <1>3, <1>4 DEF TableStep

\* A table step keeps the tables' part of the invariant.
LEMMA TableStepHome ==
  ASSUME TypeOK, IdsAssigned, StoredRefsHome, NEW a, TableStep(a)
  PROVE  IdsAssigned' /\ StoredRefsHome'
<1>1. CASE UNCHANGED <<db, seq>>
  BY <1>1 DEF IdsAssigned, StoredRefsHome, Home
<1>2. CASE Adds(a)
  <2>1. PICK l \in Kinds, row \in Row : InsertRow(l, row) /\ row.acct = a /\ RowHome(row)
    BY <1>2 DEF Adds
  <2>2. \A k \in Kinds, i \in Ids :
          db'[k][i] = IF k = l /\ i = NextId(l) THEN row ELSE db[k][i]
    BY <2>1 DEF InsertRow, TypeOK
  <2>3. \A k \in Kinds : seq[k] \in Nat /\ seq'[k] = IF k = l THEN seq[k] + 1 ELSE seq[k]
    BY <2>1, MaxIdAssumption DEF InsertRow, NextId, TypeOK
  <2>4. IdsAssigned'
    BY <2>2, <2>3 DEF IdsAssigned, NextId, Ids
  <2>5. StoredRefsHome'
    <3> SUFFICES ASSUME NEW k \in Kinds, NEW i \in Ids, NEW j \in RefKinds,
                        db'[k][i] # NoRow, db'[k][i].refs[j] # NoId
                 PROVE  Home(j, db[k][i].refs[j], db[k][i].acct)'
      BY DEF StoredRefsHome
    <3>1. db'[k][i] \in Row /\ db'[k][i].refs[j] \in Ids /\ j \in Kinds
      <4>1. db'[k][i] \in Row
        BY <2>2 DEF TypeOK
      <4> QED
        BY <4>1 DEF Row, Refs, MaybeId, RefKinds, Kinds
    <3>2. Home(j, db'[k][i].refs[j], db'[k][i].acct)
      BY <2>1, <2>2 DEF StoredRefsHome, RowHome
    <3>3. \A n \in Ids : \A b : Home(j, n, b) => Home(j, n, b)'
      BY <3>1, HomeStable
    <3> QED
      BY <3>1, <3>2, <3>3 DEF Home
  <2> QED
    BY <2>4, <2>5
<1>3. CASE Rewrites(a)
  <2>1. PICK l \in Kinds, n \in Ids, row \in Row :
          /\ db[l][n] # NoRow /\ db[l][n].acct = a /\ row.acct = a /\ RowHome(row)
          /\ db' = [db EXCEPT ![l][n] = row]
          /\ UNCHANGED seq
    BY <1>3 DEF Rewrites
  <2>2. \A k \in Kinds, i \in Ids :
          db'[k][i] = IF k = l /\ i = n THEN row ELSE db[k][i]
    BY <2>1 DEF TypeOK
  <2>3. IdsAssigned'
    BY <2>1, <2>2 DEF IdsAssigned
  <2>4. StoredRefsHome'
    <3> SUFFICES ASSUME NEW k \in Kinds, NEW i \in Ids, NEW j \in RefKinds,
                        db'[k][i] # NoRow, db'[k][i].refs[j] # NoId
                 PROVE  Home(j, db[k][i].refs[j], db[k][i].acct)'
      BY DEF StoredRefsHome
    <3>1. db'[k][i] \in Row /\ db'[k][i].refs[j] \in Ids /\ j \in Kinds
      <4>1. db'[k][i] \in Row
        BY <2>2 DEF TypeOK
      <4> QED
        BY <4>1 DEF Row, Refs, MaybeId, RefKinds, Kinds
    <3>2. Home(j, db'[k][i].refs[j], db'[k][i].acct)
      BY <2>1, <2>2 DEF StoredRefsHome, RowHome
    <3>3. \A m \in Ids : \A b : Home(j, m, b) => Home(j, m, b)'
      BY <3>1, HomeStable
    <3> QED
      BY <3>1, <3>2, <3>3 DEF Home
  <2> QED
    BY <2>3, <2>4
<1>4. CASE Deletes(a)
  <2>1. PICK l \in Kinds, n \in Ids : db' = [db EXCEPT ![l][n] = NoRow] /\ UNCHANGED seq
    BY <1>4 DEF Deletes
  <2>2. \A k \in Kinds, i \in Ids : db'[k][i] = NoRow \/ db'[k][i] = db[k][i]
    BY <2>1 DEF TypeOK
  <2>3. \A j \in RefKinds, m \in Ids : \A b : Home(j, m, b) => Home(j, m, b)'
    BY HomeStable DEF RefKinds, Kinds
  <2>4. \A k \in Kinds, i \in Ids, j \in RefKinds :
          db[k][i] # NoRow /\ db[k][i].refs[j] # NoId => db[k][i].refs[j] \in Ids
    BY DEF TypeOK, Row, Refs, MaybeId
  <2> QED
    BY <2>1, <2>2, <2>3, <2>4 DEF IdsAssigned, StoredRefsHome, Home
<1> QED
  BY <1>1, <1>2, <1>3, <1>4 DEF TableStep

\* What a request carries stays at home while others change the tables.
LEMMA RequestHomeStable ==
  ASSUME TypeOK, IdsAssigned, NEW a, TableStep(a),
         NEW q \in Request, Shapely(q), AtHome(q)
  PROVE  AtHome(q)'
<1>1. \A k \in Kinds, i \in Ids : \A b : Home(k, i, b) => Home(k, i, b)'
  BY HomeStable
<1>2. \A j \in RefKinds : q.refs[j] # NoId => q.refs[j] \in Ids /\ j \in Kinds
  BY DEF Request, Refs, MaybeId, RefKinds, Kinds
<1>3. q.kind \in Kinds /\ q.child \in Kinds /\ q.todo \subseteq Ids
  BY DEF Request
<1>4. CheckedRefsHome(q)'
  BY <1>1, <1>2 DEF AtHome, CheckedRefsHome
<1>5. FoundRowHome(q)'
  BY <1>1, <1>3 DEF AtHome, FoundRowHome, Shapely
<1>6. ChildrenHome(q)'
  BY <1>1, <1>3 DEF AtHome, ChildrenHome
<1> QED
  BY <1>4, <1>5, <1>6 DEF AtHome, BriefsContacts

\* Every step is safe: the request it leaves behind is at home, and the
\* tables change only by what its workspace may do.
SafeStep(r) ==
  /\ \E q \in Request : AtHome(q) /\ req' = [req EXCEPT ![r] = q]
  /\ TableStep(req[r].acct)

\* An empty slot refers to nothing.
LEMMA IdleHome == AtHome(Idle)
BY DEF Idle, NoRefs, AtHome, CheckedRefsHome, FoundRowHome, ChildrenHome, BriefsContacts

\* A request may always end.
LEMMA FinishSafe ==
  ASSUME NEW r \in Requests, Finish(r), TableStep(req[r].acct)
  PROVE  SafeStep(r)
BY IdleHome, IdleType DEF Finish, SafeStep

\* A request that starts has checked nothing yet.
LEMMA StartSafe ==
  ASSUME IsolationInv, NEW r \in Requests, Begin(r)
  PROVE  SafeStep(r)
<1> DEFINE New(a, op, k, i, refs) == [Idle EXCEPT
        !.pc = "load", !.acct = a, !.op = op, !.kind = k, !.id = i, !.refs = refs,
        !.left = {j \in Links(k) : refs[j] # NoId}]
<1>1. NoRefs \in Refs /\ NoId \in MaybeId /\ Ids \subseteq MaybeId
  BY DEF NoRefs, Refs, MaybeId
<1>0. \A k : FormRefs(k) \subseteq Refs
  BY DEF FormRefs
<1>2. PICK a \in Accounts, op \in Ops, k \in FormKinds, i \in MaybeId, refs \in Refs :
        /\ Start(r, a, op, k, i, refs) /\ refs \in FormRefs(k)
        /\ op = "briefing" => k = "contact"
  <2>1. \A k : NoRefs \in FormRefs(k)
    BY <1>1 DEF FormRefs, NoRefs
  <2> QED
    BY <1>1, <2>1, <1>0 DEF Begin, StartCreate, StartUpdate, StartSetStage, StartDestroy,
       StartBriefing, Ops, FormKinds
<1>3. Links(k) \in SUBSET RefKinds
  BY DEF Links, RefKinds
<1>4. refs \in Refs /\ \A j \in RefKinds : refs[j] # NoId => j \in Links(k)
  BY <1>2 DEF FormRefs
<1>5. New(a, op, k, i, refs) \in Request
  BY <1>2, <1>3, <1>4, IdleType DEF Request, Points, Kinds, FormKinds, RefKinds
<1>6. AtHome(New(a, op, k, i, refs))
  BY <1>2, <1>4 DEF AtHome, CheckedRefsHome, FoundRowHome, ChildrenHome, BriefsContacts, Idle
<1>7. req' = [req EXCEPT ![r] = New(a, op, k, i, refs)] /\ TableStep(req[r].acct)
  BY <1>2 DEF Start, TableStep
<1> QED
  BY <1>5, <1>6, <1>7 DEF SafeStep

\* A reference that passes the check is at home from then on.
LEMMA CheckReferenceSafe ==
  ASSUME IsolationInv, NEW r \in Requests, CheckReference(r)
  PROVE  SafeStep(r)
<1> DEFINE j == First(req[r].left)
           q == [req[r] EXCEPT !.left = @ \ {j}]
<1>1. req[r] \in Request /\ Shapely(req[r]) /\ AtHome(req[r])
  BY DEF IsolationInv, TypeInv, TypeOK
<1>2. TableStep(req[r].acct)
  BY DEF CheckReference, TableStep
<1>3. CASE Load(j, req[r].refs[j], req[r].acct) = "ok"
  <2>1. q \in Request /\ req' = [req EXCEPT ![r] = q]
    BY <1>1, <1>3 DEF Request, CheckReference, IsolationInv, TypeInv, TypeOK
  <2>2. j \in RefKinds
    BY <1>1 DEF CheckReference, Shapely, First, RefKinds
  <2>3. req[r].refs[j] # NoId => Home(j, req[r].refs[j], req[r].acct)
    <3>1. req[r].refs[j] \in MaybeId /\ j \in Kinds
      BY <1>1, <2>2 DEF Request, Refs, RefKinds, Kinds
    <3>2. db[j][req[r].refs[j]] # NoRow /\ db[j][req[r].refs[j]].acct = req[r].acct
      BY <1>3 DEF Load
    <3> QED
      BY <3>1, <3>2 DEF Home, IsolationInv, IdsAssigned, MaybeId
  <2>4. AtHome(q)
    BY <1>1, <2>3 DEF AtHome, CheckedRefsHome, FoundRowHome, ChildrenHome, BriefsContacts,
       Request, CheckReference
  <2> QED
    BY <1>2, <2>1, <2>4 DEF SafeStep
<1>4. CASE Finish(r)
  BY <1>2, <1>4, FinishSafe
<1> QED
  BY <1>3, <1>4 DEF CheckReference

\* A create inserts references that are all checked.
LEMMA InsertSafe ==
  ASSUME IsolationInv, NEW r \in Requests, Insert(r)
  PROVE  SafeStep(r)
<1> DEFINE row == [acct |-> req[r].acct, refs |-> req[r].refs]
<1>1. req[r] \in Request /\ Shapely(req[r]) /\ AtHome(req[r])
  BY DEF IsolationInv, TypeInv, TypeOK
<1>2. row \in Row /\ req[r].kind \in Kinds
  BY <1>1 DEF Request, Shapely, Row, Insert
<1>3. RowHome(row)
  BY <1>1 DEF RowHome, AtHome, CheckedRefsHome, Insert
<1>4. Adds(req[r].acct)
  BY <1>2, <1>3 DEF Adds, Insert
<1> QED
  BY <1>4, FinishSafe DEF TableStep, Insert

\* A handler goes on only with a row of its own workspace.
LEMMA FindSafe ==
  ASSUME IsolationInv, NEW r \in Requests, Find(r)
  PROVE  SafeStep(r)
<1>1. req[r] \in Request /\ Shapely(req[r]) /\ AtHome(req[r])
  BY DEF IsolationInv, TypeInv, TypeOK
<1>2. TableStep(req[r].acct)
  BY DEF Find, TableStep
<1>3. CASE Finish(r)
  BY <1>2, <1>3, FinishSafe
<1>4. CASE ~ Finish(r)
  <2> DEFINE q(notes) ==
        [req[r] EXCEPT !.pc = AfterFind(req[r].op), !.seen = notes,
                       !.left = IF req[r].op = "destroy" THEN Children(req[r].kind) ELSE {}]
  <2>1. PICK notes \in BOOLEAN : req' = [req EXCEPT ![r] = q(notes)]
    BY <1>4 DEF Find, IsolationInv, TypeInv, TypeOK
  <2>2. /\ AfterFind(req[r].op) \in Points \ {"idle", "load"}
        /\ AfterFind(req[r].op) \in {"deals", "activities", "ask", "save"} => req[r].op = "briefing"
        /\ Children(req[r].kind) \in SUBSET Kinds
    BY DEF AfterFind, Points, Children, Kinds
  <2>3. q(notes) \in Request
    BY <1>1, <2>2 DEF Request
  <2>4. Home(req[r].kind, req[r].id, req[r].acct)
    <3>1. db[req[r].kind][req[r].id] # NoRow /\ db[req[r].kind][req[r].id].acct = req[r].acct
      BY <1>4 DEF Find, Load
    <3> QED
      BY <1>1, <3>1 DEF Home, IsolationInv, IdsAssigned, Request, Shapely, Find
  <2>5. AtHome(q(notes))
    BY <1>1, <2>2, <2>4 DEF AtHome, CheckedRefsHome, FoundRowHome, ChildrenHome,
       BriefsContacts, Request, Find
  <2> QED
    BY <1>2, <2>1, <2>3, <2>5 DEF SafeStep
<1> QED
  BY <1>3, <1>4

\* Setting some reference columns of a home row to home values rewrites it
\* within its workspace.
LEMMA UpdateSafe ==
  ASSUME TypeOK, StoredRefsHome, NEW k \in Kinds, NEW i \in Ids, NEW a, NEW cols,
         NEW refs \in Refs, Home(k, i, a),
         \A j \in RefKinds : refs[j] # NoId => Home(j, refs[j], a),
         UpdateRow(k, i, cols, refs), UNCHANGED seq
  PROVE  TableStep(a)
<1>1. CASE db[k][i] = NoRow
  BY <1>1 DEF UpdateRow, TableStep
<1>2. CASE db[k][i] # NoRow
  <2> DEFINE row == SetRefs(db[k][i], cols, refs)
  <2>1. db[k][i] \in Row /\ db[k][i].acct = a
    BY <1>2 DEF TypeOK, Home
  <2>2. row \in Row /\ row.acct = a
    BY <2>1 DEF SetRefs, Row, Refs
  <2>3. \A j \in RefKinds : row.refs[j] = IF j \in cols THEN refs[j] ELSE db[k][i].refs[j]
    BY <2>1 DEF SetRefs, Row, Refs
  <2>4. RowHome(row)
    BY <1>2, <2>1, <2>2, <2>3 DEF RowHome, StoredRefsHome
  <2>5. db' = [db EXCEPT ![k][i] = row]
    BY <1>2 DEF UpdateRow
  <2> HIDE DEF row
  <2> QED
    BY <1>2, <2>1, <2>2, <2>4, <2>5 DEF TableStep, Rewrites
<1> QED
  BY <1>1, <1>2

\* An update writes references that are all checked.
LEMMA WriteSafe ==
  ASSUME IsolationInv, NEW r \in Requests, Write(r)
  PROVE  SafeStep(r)
<1>1. req[r] \in Request /\ Shapely(req[r]) /\ AtHome(req[r])
  BY DEF IsolationInv, TypeInv, TypeOK
<1>2. /\ req[r].kind \in Kinds /\ req[r].id \in Ids /\ req[r].refs \in Refs
      /\ Home(req[r].kind, req[r].id, req[r].acct)
      /\ \A j \in RefKinds : req[r].refs[j] # NoId => Home(j, req[r].refs[j], req[r].acct)
  BY <1>1 DEF Request, Shapely, AtHome, FoundRowHome, CheckedRefsHome, Write
<1>3. TableStep(req[r].acct)
  BY <1>2, UpdateSafe DEF Write, IsolationInv, TypeInv
<1> QED
  BY <1>3, FinishSafe DEF Write

\* The children query filters on the workspace of the request.
LEMMA SelectChildrenSafe ==
  ASSUME IsolationInv, NEW r \in Requests, SelectChildren(r)
  PROVE  SafeStep(r)
<1> DEFINE k == First(req[r].left)
           held == Holding(k, req[r].acct, req[r].kind, req[r].id)
           q == [req[r] EXCEPT !.left = @ \ {k}, !.child = k, !.todo = held]
<1>1. req[r] \in Request /\ Shapely(req[r]) /\ AtHome(req[r])
  BY DEF IsolationInv, TypeInv, TypeOK
<1>2. k \in Kinds /\ held \in SUBSET Ids
  BY DEF First, Kinds, Holding
<1>3. \A n \in held : Home(k, n, req[r].acct)
  BY <1>2 DEF Holding, Home, IsolationInv, IdsAssigned
<1>4. q \in Request /\ req' = [req EXCEPT ![r] = q]
  BY <1>1, <1>2 DEF Request, SelectChildren, IsolationInv, TypeInv, TypeOK
<1> HIDE DEF held
<1>5. AtHome(q)
  BY <1>1, <1>2, <1>3 DEF AtHome, CheckedRefsHome, FoundRowHome, ChildrenHome,
     BriefsContacts, Request, SelectChildren
<1>6. TableStep(req[r].acct)
  BY DEF SelectChildren, TableStep
<1> QED
  BY <1>4, <1>5, <1>6 DEF SafeStep

\* Detaching rewrites a child of the same workspace.
LEMMA DetachChildSafe ==
  ASSUME IsolationInv, NEW r \in Requests, DetachChild(r)
  PROVE  SafeStep(r)
<1>1. req[r] \in Request /\ Shapely(req[r]) /\ AtHome(req[r])
  BY DEF IsolationInv, TypeInv, TypeOK
<1>2. PICK n \in req[r].todo :
        /\ UpdateRow(req[r].child, n, {req[r].kind}, NoRefs)
        /\ req' = [req EXCEPT ![r].todo = @ \ {n}]
  BY DEF DetachChild
<1> DEFINE q == [req[r] EXCEPT !.todo = @ \ {n}]
<1>3. /\ req[r].child \in Kinds /\ n \in Ids /\ Home(req[r].child, n, req[r].acct)
      /\ NoRefs \in Refs /\ \A j \in RefKinds : NoRefs[j] = NoId
  BY <1>1 DEF Request, NoRefs, Refs, MaybeId, AtHome, ChildrenHome
<1>4. TableStep(req[r].acct)
  BY <1>2, <1>3, UpdateSafe DEF DetachChild, IsolationInv, TypeInv
<1>5. q \in Request /\ req' = [req EXCEPT ![r] = q]
  BY <1>1, <1>2 DEF Request, IsolationInv, TypeInv, TypeOK
<1>6. AtHome(q)
  BY <1>1 DEF AtHome, CheckedRefsHome, FoundRowHome, ChildrenHome, BriefsContacts, Request
<1> QED
  BY <1>4, <1>5, <1>6 DEF SafeStep

\* The row deleted is the one found.
LEMMA DeleteRowSafe ==
  ASSUME IsolationInv, NEW r \in Requests, DeleteRow(r)
  PROVE  SafeStep(r)
<1>1. req[r] \in Request /\ Shapely(req[r]) /\ AtHome(req[r])
  BY DEF IsolationInv, TypeInv, TypeOK
<1>2. /\ req[r].kind \in Kinds /\ req[r].id \in Ids
      /\ db[req[r].kind][req[r].id] # NoRow => db[req[r].kind][req[r].id].acct = req[r].acct
  BY <1>1 DEF Request, Shapely, AtHome, FoundRowHome, Home, DeleteRow
<1>3. TableStep(req[r].acct)
  BY <1>2 DEF DeleteRow, TableStep, Deletes
<1> QED
  BY <1>3, FinishSafe DEF DeleteRow

\* A briefing links the contact it was found for.
LEMMA BriefingSafe ==
  ASSUME IsolationInv, NEW r \in Requests,
         ReadDeals(r) \/ ReadActivities(r) \/ ProviderReplies(r) \/ SaveBriefing(r)
  PROVE  SafeStep(r)
<1>1. req[r] \in Request /\ Shapely(req[r]) /\ AtHome(req[r])
  BY DEF IsolationInv, TypeInv, TypeOK
<1>2. CASE ReadDeals(r) \/ ReadActivities(r) \/ ProviderReplies(r)
  <2> DEFINE q(pc, seen) == [req[r] EXCEPT !.pc = pc, !.seen = seen]
  <2>1. TableStep(req[r].acct)
    BY <1>2 DEF ReadDeals, ReadActivities, ProviderReplies, TableStep
  <2>2. Finish(r) \/ \E pc \in {"activities", "ask", "save"}, seen \in BOOLEAN :
                       req' = [req EXCEPT ![r] = q(pc, seen)]
    <3>1. ReadDeals(r) => \E seen \in BOOLEAN : req' = [req EXCEPT ![r] = q("activities", seen)]
      BY DEF ReadDeals, IsolationInv, TypeInv, TypeOK
    <3>2. req[r].seen \in BOOLEAN
      BY <1>1 DEF Request
    <3>3. \A pc \in Points : [req[r] EXCEPT !.pc = pc] = q(pc, req[r].seen)
      BY <1>1 DEF Request
    <3>4. ReadActivities(r) \/ ProviderReplies(r) =>
            Finish(r) \/ \E pc \in {"ask", "save"} : req' = [req EXCEPT ![r] = q(pc, req[r].seen)]
      BY <3>3 DEF ReadActivities, ProviderReplies, IsolationInv, TypeInv, TypeOK, Points
    <3> QED
      BY <1>2, <3>1, <3>2, <3>4
  <2>3. ASSUME NEW pc \in {"activities", "ask", "save"}, NEW seen \in BOOLEAN
        PROVE  q(pc, seen) \in Request /\ AtHome(q(pc, seen))
    <3>1. q(pc, seen) \in Request
      BY <1>1 DEF Request, Points
    <3>2. AtHome(q(pc, seen))
      BY <1>1, <1>2 DEF AtHome, CheckedRefsHome, FoundRowHome, ChildrenHome,
         BriefsContacts, Request, ReadDeals, ReadActivities, ProviderReplies
    <3> QED
      BY <3>1, <3>2
  <2> HIDE DEF q
  <2> QED
    BY <2>1, <2>2, <2>3, FinishSafe DEF SafeStep
<1>3. CASE SaveBriefing(r)
  <2> DEFINE row == [acct |-> req[r].acct, refs |-> [NoRefs EXCEPT !["contact"] = req[r].id]]
  <2>1. row \in Row
    BY <1>1, <1>3 DEF Request, Shapely, Row, Refs, NoRefs, MaybeId, SaveBriefing
  <2>2. Home("contact", req[r].id, req[r].acct)
    BY <1>1, <1>3 DEF AtHome, FoundRowHome, BriefsContacts, SaveBriefing
  <2>3. RowHome(row)
    BY <2>2 DEF RowHome, NoRefs
  <2>4. Adds(req[r].acct)
    BY <1>3, <2>1, <2>3 DEF Adds, SaveBriefing, Kinds
  <2> QED
    BY <1>3, <2>4, FinishSafe DEF TableStep, SaveBriefing
<1> QED
  BY <1>2, <1>3

\* Stopping is safe anywhere.
LEMMA AbortSafe ==
  ASSUME NEW r \in Requests, Abort(r)
  PROVE  SafeStep(r)
BY FinishSafe DEF Abort, TableStep

\* Every step of every handler is safe.
LEMMA NextSafe ==
  ASSUME IsolationInv, Next
  PROVE  \E r \in Requests : SafeStep(r)
BY StartSafe, CheckReferenceSafe, InsertSafe, FindSafe, WriteSafe, SelectChildrenSafe,
   DetachChildSafe, DeleteRowSafe, BriefingSafe, AbortSafe DEF Next, Step

\* The empty book is isolated.
LEMMA InitIsolation == Init => IsolationInv
<1>1. ASSUME Init PROVE IsolationInv
  <2>1. TypeInv
    BY <1>1, InitTypeInv
  <2>2. IdsAssigned /\ StoredRefsHome
    BY <1>1 DEF Init, IdsAssigned, StoredRefsHome, RefKinds, Kinds
  <2>3. \A r \in Requests : AtHome(req[r])
    BY <1>1, IdleHome DEF Init
  <2> QED
    BY <2>1, <2>2, <2>3 DEF IsolationInv
<1> QED
  BY <1>1

\* A safe step keeps the whole invariant.
LEMMA NextIsolation == IsolationInv /\ [Next]_vars => IsolationInv'
<1> SUFFICES ASSUME IsolationInv, [Next]_vars PROVE IsolationInv'
  OBVIOUS
<1>1. TypeInv'
  BY NextTypeInv DEF IsolationInv
<1>2. CASE UNCHANGED vars
  BY <1>2, <1>1 DEF vars, IsolationInv, IdsAssigned, StoredRefsHome, Home, AtHome,
     CheckedRefsHome, FoundRowHome, ChildrenHome, BriefsContacts
<1>3. CASE Next
  <2>1. PICK r \in Requests : SafeStep(r)
    BY <1>3, NextSafe
  <2>2. PICK q \in Request : AtHome(q) /\ req' = [req EXCEPT ![r] = q]
    BY <2>1 DEF SafeStep
  <2>3. TypeOK /\ IdsAssigned /\ StoredRefsHome /\ TableStep(req[r].acct)
    BY <2>1 DEF SafeStep, IsolationInv, TypeInv
  <2>4. IdsAssigned' /\ StoredRefsHome'
    BY <2>3, TableStepHome
  <2>5. \A p \in Requests : AtHome(req'[p]) /\ req'[p] \in Request /\ Shapely(req'[p])
    BY <1>1, <2>2 DEF IsolationInv, TypeInv, TypeOK
  <2>6. \A x \in Request : Shapely(x) /\ AtHome(x) => AtHome(x)'
    BY <2>3, RequestHomeStable
  <2>7. (\A p \in Requests : AtHome(req[p]))'
    BY <2>5, <2>6 DEF AtHome, CheckedRefsHome, FoundRowHome, ChildrenHome, BriefsContacts, Home
  <2> QED
    BY <1>1, <2>4, <2>7 DEF IsolationInv
<1> QED
  BY <1>2, <1>3

\* No reference of any row ever leads to a row of another workspace.
THEOREM Isolated == Spec => []TenantIsolation
<1>1. IsolationInv => TenantIsolation
  BY DEF IsolationInv, StoredRefsHome, TenantIsolation, Home, RefKinds, Kinds
<1> QED
  BY <1>1, InitIsolation, NextIsolation, PTL DEF Spec

\* No step of a request changes a row of a workspace other than its user's.
THEOREM StaysHome == Spec => WritesStayHome
<1> DEFINE A == \A r \in Requests : req'[r] # req[r] =>
       \A k \in Kinds, i \in Ids : db'[k][i] # db[k][i] => Touches(k, i, req[r].acct)
<1>1. ASSUME IsolationInv, [Next]_vars PROVE [A]_vars
  <2>1. CASE UNCHANGED vars
    BY <2>1
  <2>2. CASE Next
    <3>1. PICK r \in Requests : SafeStep(r)
      BY <2>2, NextSafe, <1>1
    <3>2. TypeOK
      BY <1>1 DEF IsolationInv, TypeInv
    <3>3. \A p \in Requests : req'[p] # req[p] => p = r
      BY <3>1, <3>2 DEF SafeStep, TypeOK
    <3>4. \A k \in Kinds, i \in Ids : db'[k][i] # db[k][i] => Touches(k, i, req[r].acct)
      <4> SUFFICES ASSUME NEW k \in Kinds, NEW i \in Ids, db'[k][i] # db[k][i]
                   PROVE  Touches(k, i, req[r].acct)
        OBVIOUS
      <4>1. CASE Adds(req[r].acct)
        <5>1. PICK l \in Kinds, row \in Row : InsertRow(l, row) /\ row.acct = req[r].acct
          BY <4>1 DEF Adds
        <5>2. k = l /\ i = NextId(l) /\ db'[k][i] = row
          BY <3>2, <5>1 DEF InsertRow, TypeOK
        <5>3. db[k][i] = NoRow
          BY <1>1, <5>2, MaxIdAssumption DEF IsolationInv, TypeInv, TypeOK, IdsAssigned, NextId, Ids
        <5> QED
          BY <5>1, <5>2, <5>3 DEF Touches
      <4>2. CASE Rewrites(req[r].acct)
        BY <3>2, <4>2 DEF Rewrites, Touches, TypeOK
      <4>3. CASE Deletes(req[r].acct)
        BY <3>2, <4>3 DEF Deletes, Touches, TypeOK
      <4> QED
        BY <3>1, <4>1, <4>2, <4>3 DEF SafeStep, TableStep
    <3> QED
      BY <3>3, <3>4
  <2> QED
    BY <1>1, <2>1, <2>2
<1> QED
  BY <1>1, InitIsolation, NextIsolation, PTL DEF Spec, WritesStayHome

USE DEF NoId

-----------------------------------------------------------------------------
(* The inductive invariant.  Beside NoDanglingReference it says, of every    *)
(* request under way, what makes its last query harmless: the references a   *)
(* writer has checked still exist, and a destroy has at most the selected    *)
(* children left under it in the tables it has been through.                 *)

\* Rows and forms use only the reference columns of their table.
SchemaOK ==
  \A k \in Kinds, i \in Ids, j \in RefKinds :
    db[k][i] # NoRow /\ db[k][i].refs[j] # NoId => j \in Links(k)

FormOK(q) ==
  q.op \in {"create", "update"} => \A j \in RefKinds : q.refs[j] # NoId => j \in Links(q.kind)

PointOK(q) ==
  /\ q.pc = "idle" <=> q.op = "none"
  /\ q.pc = "detach" => q.op = "destroy"
  /\ q.pc = "write" => q.op \in {"update", "set_stage"}
  /\ q.pc = "load" => q.todo = {}
  /\ q.pc \in {"deals", "activities", "ask", "save"} => q.op = "briefing"

TargetsExist(q) ==
  q.op \in {"create", "update"} =>
    \A j \in RefKinds :
      q.refs[j] # NoId /\ ~ (q.pc = "load" /\ j \in q.left) => db[j][q.refs[j]] # NoRow

Detached(q) ==
  q.pc = "detach" /\ q.kind \in RefKinds =>
    \A c \in FormKinds \ q.left, i \in Ids :
      db[c][i] # NoRow /\ db[c][i].refs[q.kind] = q.id => c = q.child /\ i \in q.todo

Disciplined(q) == FormOK(q) /\ PointOK(q) /\ TargetsExist(q) /\ Detached(q)

DisciplineInv ==
  /\ IsolationInv
  /\ ~ Overlap(req)
  /\ SchemaOK
  /\ NoDanglingReference
  /\ \A r \in Requests : Disciplined(req[r])

\* The two things a step may do to the tables that others depend on: leave
\* every stored reference as it was or cleared, and lose no row.
Shrinks ==
  \A k \in FormKinds, i \in Ids, j \in RefKinds :
    db'[k][i] # NoRow /\ db'[k][i].refs[j] # NoId =>
      db[k][i] # NoRow /\ db[k][i].refs[j] = db'[k][i].refs[j]
Keeps == \A k \in RefKinds, i \in Ids : db[k][i] # NoRow => db'[k][i] # NoRow

\* Only writers add references, only destroys lose rows.
DisciplineStep(r) ==
  /\ \E q \in Request : Disciplined(q)' /\ req' = [req EXCEPT ![r] = q]
  /\ Shrinks \/ Linking(req[r])
  /\ Keeps \/ Destroying(req[r])
  /\ SchemaOK' /\ NoDanglingReference'

\* What other requests rely on survives such steps.
LEMMA OthersStayDetached ==
  ASSUME Shrinks, NEW q \in Request, Shapely(q), Detached(q)
  PROVE  Detached(q)'
<1>1. q.pc = "detach" => q.id # NoId
  BY MaxIdAssumption DEF Shapely, Ids
<1> QED
  BY <1>1 DEF Shrinks, Detached, Ids

\* A checked reference still leads to a row.
LEMMA OthersKeepTargets ==
  ASSUME Keeps, NEW q \in Request, TargetsExist(q)
  PROVE  TargetsExist(q)'
<1>1. \A j \in RefKinds : q.refs[j] # NoId => q.refs[j] \in Ids
  BY DEF Request, Refs, MaybeId
<1> QED
  BY <1>1 DEF Keeps, TargetsExist

\* With both, no reference starts to dangle.
LEMMA HarmlessTables ==
  ASSUME TypeOK, NoDanglingReference, Shrinks, Keeps
  PROVE  NoDanglingReference'
<1>1. \A k \in FormKinds, i \in Ids, j \in RefKinds :
        db[k][i] # NoRow /\ db[k][i].refs[j] # NoId => db[k][i].refs[j] \in Ids
  BY DEF TypeOK, Row, Refs, MaybeId, FormKinds, Kinds
<1> QED
  BY <1>1 DEF NoDanglingReference, Shrinks, Keeps

\* A step that leaves the tables alone harms nothing.
LEMMA QuietTables ==
  ASSUME DisciplineInv, UNCHANGED <<db, seq>>
  PROVE  Shrinks /\ Keeps /\ SchemaOK' /\ NoDanglingReference'
BY DEF DisciplineInv, Shrinks, Keeps, SchemaOK, NoDanglingReference

\* An empty slot asks nothing of the tables.
LEMMA IdleDisciplined == Disciplined(Idle)'
BY DEF Disciplined, FormOK, PointOK, TargetsExist, Detached, Idle

\* A request that ends without touching the tables.
LEMMA FinishDisciplined ==
  ASSUME DisciplineInv, NEW r \in Requests, Finish(r), UNCHANGED <<db, seq>>
  PROVE  DisciplineStep(r)
BY QuietTables, IdleDisciplined, IdleType DEF DisciplineStep, Finish

\* A step from a disciplined request to another keeps the invariant, provided
\* the two kinds of request still do not overlap.
LEMMA DisciplineKept ==
  ASSUME DisciplineInv, NEW r \in Requests, DisciplineStep(r), IsolationInv', ~ Overlap(req')
  PROVE  DisciplineInv'
<1>1. PICK q \in Request : Disciplined(q)' /\ req' = [req EXCEPT ![r] = q]
  BY DEF DisciplineStep
<1>2. ASSUME NEW p \in Requests, p # r
      PROVE  Disciplined(req[p])'
  <2>1. req'[p] = req[p] /\ req[p] \in Request /\ Shapely(req[p]) /\ Disciplined(req[p])
    BY <1>1, <1>2 DEF DisciplineInv, IsolationInv, TypeInv, TypeOK
  <2>2. Detached(req[p])'
    <3>1. CASE Shrinks
      <4>1. \A x \in Request : Shapely(x) /\ Detached(x) => Detached(x)'
        BY <3>1, OthersStayDetached
      <4> QED
        BY <2>1, <4>1 DEF Disciplined, Detached
    <3>2. CASE Linking(req[r])
      <4>1. req[p].pc # "detach"
        BY <2>1, <3>2 DEF Disciplined, PointOK, DisciplineInv, Overlap, Destroying
      <4> QED
        BY <2>1, <4>1 DEF Detached
    <3> QED
      BY <3>1, <3>2 DEF DisciplineStep
  <2>3. TargetsExist(req[p])'
    <3>1. CASE Keeps
      <4>1. \A x \in Request : TargetsExist(x) => TargetsExist(x)'
        BY <3>1, OthersKeepTargets
      <4> QED
        BY <2>1, <4>1 DEF Disciplined, TargetsExist
    <3>2. CASE Destroying(req[r])
      <4>1. ~ Linking(req[p])
        BY <3>2 DEF DisciplineInv, Overlap
      <4>2. req[p].op \notin {"create", "update"}
        BY <2>1, <4>1 DEF Linking, Disciplined, PointOK
      <4> QED
        BY <2>1, <4>2 DEF TargetsExist
    <3> QED
      BY <3>1, <3>2 DEF DisciplineStep
  <2> QED
    BY <2>1, <2>2, <2>3 DEF Disciplined, FormOK, PointOK
<1>3. Disciplined(req[r])'
  <2>1. req'[r] = q
    BY <1>1 DEF DisciplineInv, IsolationInv, TypeInv, TypeOK
  <2> QED
    BY <1>1, <2>1 DEF Disciplined, FormOK, PointOK, TargetsExist, Detached
<1>4. (\A p \in Requests : Disciplined(req[p]))'
  BY <1>2, <1>3
<1> QED
  BY <1>4 DEF DisciplineInv, DisciplineStep

-----------------------------------------------------------------------------
(* Every action is a disciplined step.                                       *)

\* A request that starts has all its references unchecked.
LEMMA BeginDisciplined ==
  ASSUME DisciplineInv, NEW r \in Requests, Begin(r)
  PROVE  DisciplineStep(r)
<1> DEFINE New(a, op, k, i, refs) == [Idle EXCEPT
        !.pc = "load", !.acct = a, !.op = op, !.kind = k, !.id = i, !.refs = refs,
        !.left = {j \in Links(k) : refs[j] # NoId}]
<1>1. NoRefs \in Refs /\ NoId \in MaybeId /\ Ids \subseteq MaybeId
  BY DEF NoRefs, Refs, MaybeId
<1>2. PICK a \in Accounts, op \in Ops \ {"none"}, k \in FormKinds, i \in MaybeId, refs \in Refs :
        Start(r, a, op, k, i, refs) /\ refs \in FormRefs(k)
  <2>1. \A k : NoRefs \in FormRefs(k) /\ FormRefs(k) \subseteq Refs
    BY <1>1 DEF FormRefs, NoRefs
  <2> QED
    BY <1>1, <2>1 DEF Begin, StartCreate, StartUpdate, StartSetStage, StartDestroy,
       StartBriefing, Ops, FormKinds
<1>3. Links(k) \in SUBSET RefKinds
  BY DEF Links, RefKinds
<1>4. \A j \in RefKinds : refs[j] # NoId => j \in Links(k)
  BY <1>2 DEF FormRefs
<1>5. New(a, op, k, i, refs) \in Request
  BY <1>2, <1>3, IdleType DEF Request, Points, Kinds, FormKinds, RefKinds
<1>6. Disciplined(New(a, op, k, i, refs))'
  BY <1>2, <1>4 DEF Disciplined, FormOK, PointOK, TargetsExist, Detached, Idle
<1>7. req' = [req EXCEPT ![r] = New(a, op, k, i, refs)] /\ UNCHANGED <<db, seq>>
  BY <1>2 DEF Start
<1> QED
  BY <1>5, <1>6, <1>7, QuietTables DEF DisciplineStep

\* A reference that passes the check leads to a row.
LEMMA CheckReferenceDisciplined ==
  ASSUME DisciplineInv, NEW r \in Requests, CheckReference(r)
  PROVE  DisciplineStep(r)
<1> DEFINE j == First(req[r].left)
<1>1. req[r] \in Request /\ Shapely(req[r]) /\ Disciplined(req[r])
  BY DEF DisciplineInv, IsolationInv, TypeInv, TypeOK
<1>2. UNCHANGED <<db, seq>>
  BY DEF CheckReference
<1>3. CASE Load(j, req[r].refs[j], req[r].acct) = "ok"
  <2>1. [req[r] EXCEPT !.left = @ \ {j}] \in Request
    BY <1>1 DEF Request
  <2>2. PICK q \in Request : q = [req[r] EXCEPT !.left = @ \ {j}]
    BY <2>1
  <2>3. req' = [req EXCEPT ![r] = q]
    BY <1>3, <2>2 DEF CheckReference, DisciplineInv, IsolationInv, TypeInv, TypeOK
  <2>4. db[j][req[r].refs[j]] # NoRow
    BY <1>3 DEF Load
  <2>5. /\ q.pc = "load" /\ req[r].pc = "load" /\ q.op = req[r].op /\ q.kind = req[r].kind
        /\ q.refs = req[r].refs /\ q.left = req[r].left \ {j} /\ q.todo = req[r].todo
    BY <1>1, <2>2 DEF Request, CheckReference
  <2>6. Disciplined(q)
    BY <1>1, <2>4, <2>5 DEF Disciplined, FormOK, PointOK, TargetsExist, Detached
  <2>7. Disciplined(q)'
    BY <1>2, <2>6 DEF Disciplined, FormOK, PointOK, TargetsExist, Detached
  <2> QED
    BY <1>2, <2>3, <2>7, QuietTables DEF DisciplineStep
<1>4. CASE Finish(r)
  BY <1>2, <1>4, FinishDisciplined
<1> QED
  BY <1>3, <1>4 DEF CheckReference

\* An inserted row whose references exist, or a briefing: nothing that is
\* detached dangles, nothing is lost.
LEMMA InsertRowDisciplined ==
  ASSUME DisciplineInv, NEW k \in Kinds, NEW row \in Row, InsertRow(k, row),
         \A j \in RefKinds : row.refs[j] # NoId =>
           j \in Links(k) /\ (k \in FormKinds => db[j][row.refs[j]] # NoRow)
  PROVE  Keeps /\ SchemaOK' /\ NoDanglingReference' /\ (k \notin FormKinds => Shrinks)
<1>1. \A l \in Kinds, i \in Ids :
        db'[l][i] = IF l = k /\ i = NextId(k) THEN row ELSE db[l][i]
  BY DEF InsertRow, DisciplineInv, IsolationInv, TypeInv, TypeOK
<1>2. row # NoRow
  BY RowType
<1>3. Keeps
  BY <1>1, <1>2 DEF Keeps, RefKinds, Kinds
<1>4. SchemaOK'
  BY <1>1 DEF SchemaOK, DisciplineInv
<1>5. k \notin FormKinds => Shrinks
  BY <1>1 DEF Shrinks, FormKinds, Kinds
<1>6. NoDanglingReference'
  <2>1. \A l \in FormKinds, i \in Ids, j \in RefKinds :
          db'[l][i] # NoRow /\ db'[l][i].refs[j] # NoId =>
            db'[l][i].refs[j] \in Ids /\ db[j][db'[l][i].refs[j]] # NoRow
    <3>1. \A l \in Kinds, i \in Ids : db'[l][i] \in Row \cup {NoRow}
      BY <1>1 DEF DisciplineInv, IsolationInv, TypeInv, TypeOK
    <3>2. \A l \in Kinds, i \in Ids, j \in RefKinds :
            db'[l][i] # NoRow /\ db'[l][i].refs[j] # NoId => db'[l][i].refs[j] \in Ids
      BY <3>1 DEF Row, Refs, MaybeId
    <3> QED
      BY <1>1, <3>2 DEF DisciplineInv, NoDanglingReference, FormKinds, Kinds
  <2> QED
    BY <1>3, <2>1 DEF NoDanglingReference, Keeps
<1> QED
  BY <1>3, <1>4, <1>5, <1>6

\* A create inserts references that still lead to rows.
LEMMA InsertDisciplined ==
  ASSUME DisciplineInv, NEW r \in Requests, Insert(r)
  PROVE  DisciplineStep(r)
<1> DEFINE row == [acct |-> req[r].acct, refs |-> req[r].refs]
<1>1. req[r] \in Request /\ Shapely(req[r]) /\ Disciplined(req[r])
  BY DEF DisciplineInv, IsolationInv, TypeInv, TypeOK
<1>2. row \in Row /\ req[r].kind \in Kinds /\ InsertRow(req[r].kind, row)
  BY <1>1 DEF Request, Shapely, Row, Insert
<1>3. \A j \in RefKinds :
        row.refs[j] # NoId => j \in Links(req[r].kind) /\ db[j][row.refs[j]] # NoRow
  BY <1>1 DEF Disciplined, FormOK, TargetsExist, Insert
<1>4. Keeps /\ SchemaOK' /\ NoDanglingReference'
  <2> HIDE DEF row
  <2> QED
    BY <1>2, <1>3, InsertRowDisciplined
<1>5. Linking(req[r])
  BY DEF Linking, Insert
<1> QED
  BY <1>4, <1>5, IdleDisciplined, IdleType DEF DisciplineStep, Insert, Finish

\* A destroy starts with every child table still to detach.
LEMMA FindDisciplined ==
  ASSUME DisciplineInv, NEW r \in Requests, Find(r)
  PROVE  DisciplineStep(r)
<1>1. req[r] \in Request /\ Shapely(req[r]) /\ Disciplined(req[r])
  BY DEF DisciplineInv, IsolationInv, TypeInv, TypeOK
<1>2. UNCHANGED <<db, seq>> /\ req[r].pc = "load" /\ req[r].op # "create" /\ req[r].left = {}
  BY DEF Find
<1>3. CASE Finish(r)
  BY <1>2, <1>3, FinishDisciplined
<1>4. CASE ~ Finish(r)
  <2> DEFINE found(notes) ==
        [req[r] EXCEPT !.pc = AfterFind(req[r].op), !.seen = notes,
                       !.left = IF req[r].op = "destroy" THEN Children(req[r].kind) ELSE {}]
  <2>1. PICK notes \in BOOLEAN : req' = [req EXCEPT ![r] = found(notes)]
    BY <1>4 DEF Find, DisciplineInv, IsolationInv, TypeInv, TypeOK
  <2>2. /\ AfterFind(req[r].op) \in Points \ {"idle", "load"}
        /\ AfterFind(req[r].op) = "detach" <=> req[r].op = "destroy"
        /\ AfterFind(req[r].op) = "write" => req[r].op \notin {"destroy", "briefing"}
        /\ AfterFind(req[r].op) = "deals" => req[r].op = "briefing"
        /\ AfterFind(req[r].op) \notin {"activities", "ask", "save"}
        /\ Children(req[r].kind) \in SUBSET Kinds
    BY DEF AfterFind, Points, Children, Kinds
  <2>3. found(notes) \in Request
    BY <1>1, <2>2 DEF Request
  <2>4. PICK q \in Request : q = found(notes)
    BY <2>3
  <2>5. /\ q.pc = AfterFind(req[r].op) /\ q.op = req[r].op /\ q.kind = req[r].kind
        /\ q.refs = req[r].refs /\ q.id = req[r].id /\ q.todo = req[r].todo
        /\ q.op = "destroy" => q.left = Children(q.kind)
    BY <1>1, <2>4 DEF Request
  <2>6. FormOK(q) /\ TargetsExist(q)
    BY <1>1, <1>2, <2>2, <2>5 DEF Disciplined, FormOK, TargetsExist
  <2>7. PointOK(q)
    <3>1. req[r].op # "none"
      BY <1>1, <1>2 DEF Disciplined, PointOK
    <3> QED
      BY <1>1, <1>2, <2>2, <2>5, <3>1 DEF PointOK, Request, Ops
  <2>8. Detached(q)
    <3>1. \A j \in RefKinds, c \in FormKinds : j \in Links(c) => c \in Children(j)
      BY DEF RefKinds, FormKinds, Links, Children
    <3>2. q.id \in Ids /\ q.id # NoId
      BY <1>1, <1>2, <2>5, MaxIdAssumption DEF Shapely, Ids
    <3>3. \A c \in FormKinds, i \in Ids :
            q.kind \in RefKinds /\ db[c][i] # NoRow /\ db[c][i].refs[q.kind] = q.id =>
              c \in Children(q.kind)
      BY <3>1, <3>2 DEF DisciplineInv, SchemaOK, FormKinds, Kinds
    <3> QED
      BY <2>2, <2>5, <3>3 DEF Detached
  <2>9. Disciplined(q)'
    BY <1>2, <2>6, <2>7, <2>8 DEF Disciplined, FormOK, PointOK, TargetsExist, Detached
  <2> QED
    BY <1>2, <2>1, <2>4, <2>9, QuietTables DEF DisciplineStep
<1> QED
  BY <1>3, <1>4

\* An UPDATE of one row: the columns written either hold references that
\* exist and belong to the table, or are cleared, or there are none.
LEMMA UpdateRowDisciplined ==
  ASSUME DisciplineInv, NEW k \in Kinds, NEW i \in Ids, NEW cols, NEW refs \in Refs,
         UpdateRow(k, i, cols, refs),
         \A j \in RefKinds : refs[j] # NoId => j \in Links(k) /\ db[j][refs[j]] # NoRow
  PROVE  /\ Keeps /\ SchemaOK' /\ NoDanglingReference'
         /\ (cols = {} \/ \A j \in RefKinds : refs[j] = NoId) => Shrinks
         /\ \A j \in cols \cap RefKinds : db'[k][i] # NoRow => db'[k][i].refs[j] = refs[j]
<1> DEFINE row == SetRefs(db[k][i], cols, refs)
<1>0. TypeOK /\ SchemaOK /\ NoDanglingReference
  BY DEF DisciplineInv, IsolationInv, TypeInv
<1>1. CASE db[k][i] = NoRow
  <2>1. db' = db
    BY <1>1 DEF UpdateRow
  <2> QED
    BY <1>0, <1>1, <2>1 DEF Keeps, Shrinks, SchemaOK, NoDanglingReference
<1>2. CASE db[k][i] # NoRow
  <2>1. db[k][i] \in Row
    BY <1>0, <1>2 DEF TypeOK
  <2>2. row \in Row /\ row # NoRow
        /\ \A j \in RefKinds : row.refs[j] = IF j \in cols THEN refs[j] ELSE db[k][i].refs[j]
    <3>1. row \in Row
      BY <2>1 DEF SetRefs, Row, Refs
    <3> QED
      BY <2>1, <3>1, RowType DEF SetRefs, Row, Refs
  <2>3. db' = [db EXCEPT ![k][i] = row]
    BY <1>2 DEF UpdateRow
  <2> HIDE DEF row
  <2>4. \A l \in Kinds, n \in Ids : db'[l][n] = IF l = k /\ n = i THEN row ELSE db[l][n]
    BY <1>0, <2>3 DEF TypeOK
  <2>5. Keeps
    BY <2>2, <2>4 DEF Keeps, RefKinds, Kinds
  <2>6. SchemaOK'
    BY <1>0, <1>2, <2>2, <2>4 DEF SchemaOK
  <2>7. (cols = {} \/ \A j \in RefKinds : refs[j] = NoId) => Shrinks
    BY <1>2, <2>2, <2>4 DEF Shrinks, FormKinds, Kinds
  <2>8. NoDanglingReference'
    <3>1. \A l \in Kinds, n \in Ids : db'[l][n] \in Row \cup {NoRow}
      BY <1>0, <2>2, <2>4 DEF TypeOK
    <3>2. \A l \in Kinds, n \in Ids, j \in RefKinds :
            db'[l][n] # NoRow /\ db'[l][n].refs[j] # NoId => db'[l][n].refs[j] \in Ids
      BY <3>1 DEF Row, Refs, MaybeId
    <3>3. \A l \in FormKinds, n \in Ids, j \in RefKinds :
            db'[l][n] # NoRow /\ db'[l][n].refs[j] # NoId => db[j][db'[l][n].refs[j]] # NoRow
      <4> SUFFICES ASSUME NEW l \in FormKinds, NEW n \in Ids, NEW j \in RefKinds,
                          db'[l][n] # NoRow, db'[l][n].refs[j] # NoId
                   PROVE  db[j][db'[l][n].refs[j]] # NoRow
        OBVIOUS
      <4>1. l \in Kinds
        BY DEF FormKinds, Kinds
      <4>2. CASE db'[l][n] = db[l][n]
        BY <1>0, <4>2 DEF NoDanglingReference
      <4>3. CASE l = k /\ n = i /\ db'[l][n] = row
        <5>1. CASE j \in cols
          BY <2>2, <4>3, <5>1
        <5>2. CASE j \notin cols
          BY <1>0, <1>2, <2>2, <4>3, <5>2 DEF NoDanglingReference
        <5> QED
          BY <5>1, <5>2
      <4> QED
        BY <2>4, <4>1, <4>2, <4>3
    <3> QED
      BY <2>5, <3>2, <3>3 DEF NoDanglingReference, Keeps, FormKinds, Kinds
  <2> QED
    BY <2>2, <2>4, <2>5, <2>6, <2>7, <2>8
<1> QED
  BY <1>1, <1>2

\* An update writes references that still lead to rows.
LEMMA WriteDisciplined ==
  ASSUME DisciplineInv, NEW r \in Requests, Write(r)
  PROVE  DisciplineStep(r)
<1>1. req[r] \in Request /\ Shapely(req[r]) /\ Disciplined(req[r])
  BY DEF DisciplineInv, IsolationInv, TypeInv, TypeOK
<1>2. req[r].kind \in Kinds /\ req[r].id \in Ids /\ req[r].refs \in Refs
  BY <1>1 DEF Request, Shapely, Write
<1>3. CASE req[r].op = "update"
  <2>1. \A j \in RefKinds : req[r].refs[j] # NoId =>
          j \in Links(req[r].kind) /\ db[j][req[r].refs[j]] # NoRow
    BY <1>1, <1>3 DEF Disciplined, FormOK, TargetsExist, Write
  <2>2. Keeps /\ SchemaOK' /\ NoDanglingReference'
    BY <1>2, <1>3, <2>1, UpdateRowDisciplined DEF Write
  <2>3. Linking(req[r])
    BY <1>3 DEF Linking, Write
  <2> QED
    BY <2>2, <2>3, IdleDisciplined, IdleType DEF DisciplineStep, Write, Finish
<1>4. CASE req[r].op # "update"
  <2>1. UpdateRow(req[r].kind, req[r].id, {}, NoRefs)
    BY <1>4 DEF Write, UpdateRow, SetRefs
  <2>2. NoRefs \in Refs /\ \A j \in RefKinds : NoRefs[j] = NoId
    BY DEF NoRefs, Refs, MaybeId
  <2>3. Keeps /\ Shrinks /\ SchemaOK' /\ NoDanglingReference'
    BY <1>2, <2>1, <2>2, UpdateRowDisciplined
  <2> QED
    BY <2>3, IdleDisciplined, IdleType DEF DisciplineStep, Write, Finish
<1> QED
  BY <1>3, <1>4

\* A child table is settled once its children are selected.
LEMMA SelectChildrenDisciplined ==
  ASSUME DisciplineInv, NEW r \in Requests, SelectChildren(r)
  PROVE  DisciplineStep(r)
<1> DEFINE k == First(req[r].left)
           held == Holding(k, req[r].acct, req[r].kind, req[r].id)
           selected == [req[r] EXCEPT !.left = @ \ {k}, !.child = k, !.todo = held]
<1>1. req[r] \in Request /\ Shapely(req[r]) /\ Disciplined(req[r]) /\ AtHome(req[r])
  BY DEF DisciplineInv, IsolationInv, TypeInv, TypeOK
<1>2. /\ UNCHANGED <<db, seq>> /\ req[r].pc = "detach" /\ req[r].todo = {}
      /\ k \in Kinds /\ held \in SUBSET Ids
  BY DEF SelectChildren, First, Kinds, Holding
<1>3. selected \in Request /\ req' = [req EXCEPT ![r] = selected]
  BY <1>1, <1>2 DEF Request, SelectChildren, DisciplineInv, IsolationInv, TypeInv, TypeOK
<1>4. PICK q \in Request : q = selected
  BY <1>3
<1>5. /\ q.pc = "detach" /\ q.op = req[r].op /\ q.kind = req[r].kind /\ q.id = req[r].id
      /\ q.refs = req[r].refs /\ q.left = req[r].left \ {k} /\ q.child = k /\ q.todo = held
      /\ q.acct = req[r].acct
  BY <1>1, <1>2, <1>4 DEF Request
\* A row that holds the id is in the workspace of the request: by isolation
\* if the row being deleted is still there, and if it is not, by
\* NoDanglingReference there is no such row.
<1>6. \A c \in FormKinds, i \in Ids :
        q.kind \in RefKinds /\ db[c][i] # NoRow /\ db[c][i].refs[q.kind] = q.id =>
          db[c][i].acct = q.acct
  <2> SUFFICES ASSUME NEW c \in FormKinds, NEW i \in Ids,
                      q.kind \in RefKinds, db[c][i] # NoRow, db[c][i].refs[q.kind] = q.id
               PROVE  db[c][i].acct = q.acct
    OBVIOUS
  <2>1. q.id \in Ids /\ q.id # NoId /\ c \in Kinds
    BY <1>1, <1>2, <1>5, MaxIdAssumption DEF Shapely, Ids, FormKinds, Kinds
  <2>2. db[q.kind][q.id] # NoRow
    BY <2>1 DEF DisciplineInv, NoDanglingReference
  <2>3. db[q.kind][q.id].acct = q.acct
    BY <1>1, <1>2, <1>5, <2>2 DEF AtHome, FoundRowHome, Home
  <2>4. db[q.kind][q.id].acct = db[c][i].acct
    BY <2>1, <2>2 DEF DisciplineInv, IsolationInv, StoredRefsHome, Home
  <2> QED
    BY <2>3, <2>4
<1>7. Detached(q)
  BY <1>1, <1>2, <1>5, <1>6 DEF Disciplined, Detached, Holding
<1>8. Disciplined(q)'
  BY <1>1, <1>2, <1>5, <1>7 DEF Disciplined, FormOK, PointOK, TargetsExist, Detached
<1> QED
  BY <1>2, <1>3, <1>4, <1>8, QuietTables DEF DisciplineStep

\* Detaching a child leaves one less under the row.
LEMMA DetachChildDisciplined ==
  ASSUME DisciplineInv, NEW r \in Requests, DetachChild(r)
  PROVE  DisciplineStep(r)
<1>1. req[r] \in Request /\ Shapely(req[r]) /\ Disciplined(req[r])
  BY DEF DisciplineInv, IsolationInv, TypeInv, TypeOK
<1>2. PICK n \in req[r].todo :
        /\ UpdateRow(req[r].child, n, {req[r].kind}, NoRefs)
        /\ req' = [req EXCEPT ![r].todo = @ \ {n}]
  BY DEF DetachChild
<1>3. [req[r] EXCEPT !.todo = @ \ {n}] \in Request
  BY <1>1 DEF Request
<1>4. PICK q \in Request : q = [req[r] EXCEPT !.todo = @ \ {n}]
  BY <1>3
<1>5. req' = [req EXCEPT ![r] = q]
  BY <1>2, <1>4 DEF DisciplineInv, IsolationInv, TypeInv, TypeOK
<1>6. /\ q.pc = "detach" /\ req[r].pc = "detach" /\ q.op = req[r].op /\ q.kind = req[r].kind
      /\ q.id = req[r].id /\ q.left = req[r].left /\ q.child = req[r].child
      /\ q.todo = req[r].todo \ {n} /\ q.id \in Ids /\ q.id # NoId /\ n \in Ids
      /\ q.child \in Kinds
  BY <1>1, <1>4, MaxIdAssumption DEF Request, DetachChild, Shapely, Ids
<1>7. NoRefs \in Refs /\ \A j \in RefKinds : NoRefs[j] = NoId
  BY DEF NoRefs, Refs, MaybeId
<1>8. /\ Keeps /\ Shrinks /\ SchemaOK' /\ NoDanglingReference'
      /\ q.kind \in RefKinds /\ db'[q.child][n] # NoRow => db'[q.child][n].refs[q.kind] = NoId
  <2>1. UpdateRow(q.child, n, {q.kind}, NoRefs)
    BY <1>2, <1>6
  <2>2. /\ Keeps /\ SchemaOK' /\ NoDanglingReference'
        /\ ({q.kind} = {} \/ \A j \in RefKinds : NoRefs[j] = NoId) => Shrinks
        /\ \A j \in {q.kind} \cap RefKinds :
             db'[q.child][n] # NoRow => db'[q.child][n].refs[j] = NoRefs[j]
    BY <1>6, <1>7, <2>1, UpdateRowDisciplined
  <2> QED
    BY <1>7, <2>2
<1>9. Detached(q)'
  <2>1. \A c \in FormKinds, i \in Ids :
          q.kind \in RefKinds /\ db'[c][i] # NoRow /\ db'[c][i].refs[q.kind] = q.id =>
            db[c][i] # NoRow /\ db[c][i].refs[q.kind] = q.id /\ ~ (c = q.child /\ i = n)
    BY <1>6, <1>8 DEF Shrinks
  <2> QED
    BY <1>1, <1>6, <2>1 DEF Disciplined, Detached
<1>10. Disciplined(q)'
  BY <1>1, <1>6, <1>9 DEF Disciplined, FormOK, PointOK, TargetsExist
<1> QED
  BY <1>5, <1>8, <1>10 DEF DisciplineStep

\* The row goes only once nothing refers to it.
LEMMA DeleteRowDisciplined ==
  ASSUME DisciplineInv, NEW r \in Requests, DeleteRow(r)
  PROVE  DisciplineStep(r)
<1>1. req[r] \in Request /\ Shapely(req[r]) /\ Disciplined(req[r])
  BY DEF DisciplineInv, IsolationInv, TypeInv, TypeOK
<1>2. TypeOK /\ SchemaOK /\ NoDanglingReference
  BY DEF DisciplineInv, IsolationInv, TypeInv
<1>3. req[r].kind \in Kinds /\ req[r].id \in Ids
  BY <1>1 DEF Request, Shapely, DeleteRow
<1>4. \A c \in Kinds, i \in Ids :
        db'[c][i] = IF c = req[r].kind /\ i = req[r].id THEN NoRow ELSE db[c][i]
  BY <1>2, <1>3 DEF DeleteRow, TypeOK
<1>5. Shrinks
  BY <1>4 DEF Shrinks, FormKinds, Kinds
<1>6. SchemaOK'
  BY <1>2, <1>4 DEF SchemaOK
<1>7. Destroying(req[r])
  BY <1>1 DEF DeleteRow, Disciplined, PointOK, Destroying
<1>8. NoDanglingReference'
  <2> SUFFICES ASSUME NEW k \in FormKinds, NEW i \in Ids, NEW j \in RefKinds,
                      db'[k][i] # NoRow, db'[k][i].refs[j] # NoId
               PROVE  db'[j][db'[k][i].refs[j]] # NoRow
    BY DEF NoDanglingReference
  <2>1. db[k][i] # NoRow /\ db[k][i].refs[j] = db'[k][i].refs[j]
    BY <1>5 DEF Shrinks
  <2>2. db[j][db[k][i].refs[j]] # NoRow
    BY <1>2, <2>1 DEF NoDanglingReference
  <2>3. db[k][i].refs[j] \in Ids /\ j \in Kinds
    BY <1>2, <2>1 DEF TypeOK, Row, Refs, MaybeId, FormKinds, Kinds, RefKinds
  <2>4. ~ (j = req[r].kind /\ db[k][i].refs[j] = req[r].id)
    BY <1>1, <2>1 DEF Disciplined, Detached, DeleteRow
  <2> QED
    BY <1>4, <2>1, <2>2, <2>3, <2>4
<1> QED
  BY <1>5, <1>6, <1>7, <1>8, IdleDisciplined, IdleType DEF DisciplineStep, DeleteRow, Finish

\* A briefing reads, and stores a row no destroy is meant to detach.
LEMMA BriefingDisciplined ==
  ASSUME DisciplineInv, NEW r \in Requests,
         ReadDeals(r) \/ ReadActivities(r) \/ ProviderReplies(r) \/ SaveBriefing(r)
  PROVE  DisciplineStep(r)
<1>1. req[r] \in Request /\ Shapely(req[r]) /\ Disciplined(req[r])
  BY DEF DisciplineInv, IsolationInv, TypeInv, TypeOK
<1>2. req[r].pc \in {"deals", "activities", "ask", "save"} /\ req[r].op = "briefing"
  BY <1>1 DEF ReadDeals, ReadActivities, ProviderReplies, SaveBriefing, Disciplined, PointOK
<1>3. CASE SaveBriefing(r)
  <2>1. PICK row \in Row :
          InsertRow("briefing", row) /\ row.refs = [NoRefs EXCEPT !["contact"] = req[r].id]
    BY <1>1, <1>3 DEF Request, Shapely, Row, Refs, NoRefs, MaybeId, SaveBriefing
  <2>2. \A j \in RefKinds : row.refs[j] # NoId => j \in Links("briefing")
    BY <2>1 DEF NoRefs, Links
  <2>3. "briefing" \in Kinds /\ "briefing" \notin FormKinds
    BY DEF Kinds, FormKinds
  <2>4. Keeps /\ Shrinks /\ SchemaOK' /\ NoDanglingReference'
    BY <2>1, <2>2, <2>3, InsertRowDisciplined
  <2> QED
    BY <1>3, <2>4, IdleDisciplined, IdleType DEF DisciplineStep, SaveBriefing, Finish
<1>4. CASE ~ SaveBriefing(r) /\ Finish(r)
  <2>1. UNCHANGED <<db, seq>>
    BY <1>4 DEF ReadDeals, ReadActivities, ProviderReplies
  <2> QED
    BY <1>4, <2>1, FinishDisciplined
<1>5. CASE ~ SaveBriefing(r) /\ ~ Finish(r)
  <2>1. UNCHANGED <<db, seq>>
    BY <1>5 DEF ReadDeals, ReadActivities, ProviderReplies
  <2>2. PICK q \in Request :
          /\ req' = [req EXCEPT ![r] = q]
          /\ q.pc \in {"activities", "ask", "save"} /\ q.op = req[r].op
    <3>1. CASE ReadDeals(r)
      <4> DEFINE s == req[r].seen \/ Holding("deal", req[r].acct, "contact", req[r].id) # {}
                 p == [req[r] EXCEPT !.pc = "activities", !.seen = s]
      <4>1. s \in BOOLEAN /\ req' = [req EXCEPT ![r] = p]
        BY <1>1, <3>1 DEF ReadDeals, Request, DisciplineInv, IsolationInv, TypeInv, TypeOK
      <4> HIDE DEF s
      <4>2. p \in Request /\ p.pc = "activities" /\ p.op = req[r].op
        BY <1>1, <4>1 DEF Request, Points
      <4> QED
        BY <4>1, <4>2
    <3>2. CASE ReadActivities(r)
      <4> DEFINE p == [req[r] EXCEPT !.pc = "ask"]
      <4>1. p \in Request /\ p.pc = "ask" /\ p.op = req[r].op
        BY <1>1 DEF Request, Points
      <4>2. req' = [req EXCEPT ![r] = p]
        BY <1>5, <3>2 DEF ReadActivities, DisciplineInv, IsolationInv, TypeInv, TypeOK
      <4> QED
        BY <4>1, <4>2
    <3>3. CASE ProviderReplies(r)
      <4> DEFINE p == [req[r] EXCEPT !.pc = "save"]
      <4>1. p \in Request /\ p.pc = "save" /\ p.op = req[r].op
        BY <1>1 DEF Request, Points
      <4>2. req' = [req EXCEPT ![r] = p]
        BY <1>5, <3>3 DEF ProviderReplies, DisciplineInv, IsolationInv, TypeInv, TypeOK
      <4> QED
        BY <4>1, <4>2
    <3> QED
      BY <1>5, <3>1, <3>2, <3>3
  <2>3. Disciplined(q)'
    BY <1>2, <2>2 DEF Disciplined, FormOK, PointOK, TargetsExist, Detached
  <2> QED
    BY <2>1, <2>2, <2>3, QuietTables DEF DisciplineStep
<1> QED
  BY <1>3, <1>4, <1>5

\* Any step of any request.
LEMMA NextDisciplined ==
  ASSUME DisciplineInv, NEW r \in Requests, Begin(r) \/ Step(r) \/ Abort(r)
  PROVE  DisciplineStep(r)
BY BeginDisciplined, CheckReferenceDisciplined, InsertDisciplined, FindDisciplined,
   WriteDisciplined, SelectChildrenDisciplined, DetachChildDisciplined,
   DeleteRowDisciplined, BriefingDisciplined, FinishDisciplined DEF Step, Abort

-----------------------------------------------------------------------------
\* Nothing dangles in the empty book.
LEMMA InitDiscipline == Init => DisciplineInv
<1> SUFFICES ASSUME Init PROVE DisciplineInv
  OBVIOUS
<1>1. \A k \in Kinds, i \in Ids : db[k][i] = NoRow
  BY DEF Init
<1>2. SchemaOK /\ NoDanglingReference
  BY <1>1 DEF SchemaOK, NoDanglingReference, FormKinds, Kinds
<1>3. \A r \in Requests : req[r] = Idle
  BY DEF Init
<1>4. ~ Overlap(req)
  BY <1>3 DEF Overlap, Linking, Idle
<1>5. Disciplined(Idle)
  BY DEF Disciplined, FormOK, PointOK, TargetsExist, Detached, Idle
<1> QED
  BY <1>2, <1>3, <1>4, <1>5, InitIsolation DEF DisciplineInv

\* The auxiliary variable forgets nothing: while it is FALSE, no step has made
\* a destroy and a writer of references overlap.
LEMMA OverlapRemembered ==
  ASSUME TypeInv, NEW r \in Requests, Begin(r) \/ Step(r) \/ Abort(r), ~ overlapped'
  PROVE  ~ overlapped /\ (Overlap(req') => Overlap(req))
<1>1. CASE Begin(r)
  <2>1. PICK a, op, k, i, refs : Start(r, a, op, k, i, refs)
    BY <1>1 DEF Begin, StartCreate, StartUpdate, StartSetStage, StartDestroy, StartBriefing
  <2> QED
    BY <2>1 DEF Start
<1>2. CASE Step(r) \/ Abort(r)
  <2>1. UNCHANGED overlapped
    BY <1>2 DEF Step, Abort, CheckReference, Insert, Find, Write, SelectChildren, DetachChild,
       DeleteRow, ReadDeals, ReadActivities, ProviderReplies, SaveBriefing
  <2>2. req \in [Requests -> Request] /\ req[r] \in Request /\ req[r].pc # "idle"
    BY <1>2 DEF TypeInv, TypeOK, Step, Abort, CheckReference, Insert, Find, Write,
       SelectChildren, DetachChild, DeleteRow, ReadDeals, ReadActivities, ProviderReplies,
       SaveBriefing
  <2>3. Finish(r) \/ req'[r].op = req[r].op
    <3>1. CASE CheckReference(r)
      BY <2>2, <3>1 DEF CheckReference, Request
    <3>2. CASE Insert(r) \/ Write(r) \/ DeleteRow(r) \/ SaveBriefing(r) \/ Abort(r)
      BY <3>2 DEF Insert, Write, DeleteRow, SaveBriefing, Abort
    <3>3. CASE SelectChildren(r) \/ DetachChild(r)
      BY <2>2, <3>3 DEF SelectChildren, DetachChild, Request
    <3>4. CASE ReadDeals(r)
      <4> DEFINE seen == req[r].seen \/ Holding("deal", req[r].acct, "contact", req[r].id) # {}
      <4>1. req' = [req EXCEPT ![r] = [req[r] EXCEPT !.pc = "activities", !.seen = seen]]
        BY <2>2, <3>4 DEF ReadDeals
      <4> HIDE DEF seen
      <4> QED
        BY <2>2, <4>1 DEF Request
    <3>5. CASE ReadActivities(r) \/ ProviderReplies(r)
      BY <2>2, <3>5 DEF ReadActivities, ProviderReplies, Request
    <3>6. CASE Find(r)
      <4> DEFINE left == IF req[r].op = "destroy" THEN Children(req[r].kind) ELSE {}
      <4>1. Finish(r) \/ \E notes \in BOOLEAN :
              req' = [req EXCEPT ![r] = [req[r] EXCEPT !.pc = AfterFind(req[r].op),
                                            !.seen = notes, !.left = left]]
        BY <2>2, <3>6 DEF Find
      <4> HIDE DEF left
      <4> QED
        BY <2>2, <4>1 DEF Request
    <3> QED
      BY <1>2, <3>1, <3>2, <3>3, <3>4, <3>5, <3>6 DEF Step
  <2>4. \A p \in Requests : p # r => req'[p] = req[p]
    BY <1>2, <2>2 DEF Step, Abort, CheckReference, Insert, Find, Write, SelectChildren,
       DetachChild, DeleteRow, ReadDeals, ReadActivities, ProviderReplies, SaveBriefing, Finish
  <2>5. Finish(r) => req'[r].pc = "idle"
    BY <2>2 DEF Finish, Idle
  <2> QED
    BY <2>1, <2>2, <2>3, <2>4, <2>5 DEF Overlap, Linking, Destroying
<1> QED
  BY <1>1, <1>2

\* Until that has happened the whole invariant holds.
GuardedInv == IsolationInv /\ (~ overlapped => DisciplineInv)

\* Every step keeps that.
LEMMA NextDiscipline == GuardedInv /\ [Next]_vars => GuardedInv'
<1> SUFFICES ASSUME GuardedInv, [Next]_vars PROVE GuardedInv'
  OBVIOUS
<1>1. IsolationInv'
  BY NextIsolation DEF GuardedInv
<1>2. CASE UNCHANGED vars
  <2>1. UNCHANGED <<db, req, overlapped>>
    BY <1>2 DEF vars
  <2> QED
    BY <1>1, <2>1 DEF GuardedInv, DisciplineInv, Overlap, Linking, Destroying, SchemaOK,
       NoDanglingReference, Disciplined, FormOK, PointOK, TargetsExist, Detached
<1>3. CASE Next
  <2>1. PICK r \in Requests : Begin(r) \/ Step(r) \/ Abort(r)
    BY <1>3 DEF Next
  <2>2. ASSUME ~ overlapped' PROVE DisciplineInv'
    <3>1. TypeInv
      BY DEF GuardedInv, IsolationInv
    <3>2. ~ overlapped /\ (Overlap(req') => Overlap(req))
      BY <2>1, <2>2, <3>1, OverlapRemembered
    <3>3. DisciplineInv /\ ~ Overlap(req')
      BY <3>2 DEF GuardedInv, DisciplineInv
    <3> QED
      BY <1>1, <2>1, <3>3, NextDisciplined, DisciplineKept
  <2> QED
    BY <1>1, <2>2 DEF GuardedInv
<1> QED
  BY <1>2, <1>3

\* No reference dangles, however handlers are cut short, until a destroy has
\* run beside a create or an update.
THEOREM NothingDangles == Spec => []OnlyOverlapsDangle
<1>1. Init => GuardedInv
  BY InitDiscipline DEF GuardedInv, DisciplineInv
<1>2. GuardedInv => OnlyOverlapsDangle
  BY DEF GuardedInv, DisciplineInv, OnlyOverlapsDangle
<1> QED
  BY <1>1, <1>2, NextDiscipline, PTL DEF Spec
=============================================================================
