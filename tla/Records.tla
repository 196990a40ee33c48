------------------------------- MODULE Records -------------------------------
(***************************************************************************)
(* The CRM book: companies, contacts, deals, activities and briefings of   *)
(* every workspace, in one set of tables, and the form handlers that       *)
(* change them.  A handler is an async sequence of autocommit queries:     *)
(* there is no transaction, and every await is a point where another       *)
(* request may run and where this one may stop for good.  One action of    *)
(* this module is one query.                                               *)
(*                                                                         *)
(* Left out: column values that no reference depends on (names, money,     *)
(* notes, stages), and requests refused before their first query (a        *)
(* missing name, an unknown stage, no CSRF token), which change nothing.   *)
(***************************************************************************)
EXTENDS Naturals, FiniteSets

CONSTANTS
  Accounts,   \* workspaces
  Requests,   \* slots for requests being handled at the same time
  MaxId,      \* bound: largest id a table may assign
  Limit,      \* bound: rows each table may ever hold, at most MaxId
  NoRow,      \* what a lookup of a missing id returns
  NoAccount   \* the workspace of a slot with no request in it

Kinds == {"company", "contact", "deal", "activity", "briefing"}

ASSUME MaxIdAssumption == MaxId \in Nat
ASSUME LimitAssumption == Limit \in [Kinds -> 0 .. MaxId]
ASSUME NoAccountAssumption == NoAccount \notin Accounts

VARIABLES
  db,    \* db[k][i]: row i of table k, or NoRow
  seq,   \* seq[k]: last id the IDENTITY column of table k assigned
  req,   \* req[r]: what the request in slot r is and how far it got
  overlapped  \* auxiliary: a destroy has run beside a create or an update

vars == <<db, seq, req, overlapped>>

-----------------------------------------------------------------------------
(* The schema.                                                             *)

Ids  == 1 .. MaxId
NoId == 0                       \* a NULL reference
MaybeId == Ids \cup {NoId}

RefKinds == {"company", "contact", "deal"}

\* The reference columns of each table.
Links(k) ==
  CASE k = "contact"  -> {"company"}
    [] k = "deal"     -> {"company", "contact"}
    [] k = "activity" -> {"company", "contact", "deal"}
    [] k = "briefing" -> {"contact"}
    [] OTHER          -> {}

\* Mutation: the company handler forgets the contacts.
ChildrenForgotten(k) ==
  CASE k = "company" -> {"deal", "activity"}
    [] k = "contact" -> {"deal", "activity"}
    [] k = "deal"    -> {"activity"}
    [] OTHER         -> {}

\* The tables a destroy handler detaches before it deletes a row of k.
Children(k) ==
  CASE k = "company" -> {"contact", "deal", "activity"}
    [] k = "contact" -> {"deal", "activity"}
    [] k = "deal"    -> {"activity"}
    [] OTHER         -> {}

Refs == [RefKinds -> MaybeId]
NoRefs == [j \in RefKinds |-> NoId]

Row == [acct : Accounts, refs : Refs]

ASSUME NoRowAssumption == NoRow \notin Row

\* The order in which a form's references are checked and a destroyed row's
\* children are detached.
First(S) ==
  CASE "company" \in S -> "company"
    [] "contact" \in S -> "contact"
    [] "deal" \in S    -> "deal"
    [] OTHER           -> "activity"

-----------------------------------------------------------------------------
(* A request.  left: references still to check, or child tables still to   *)
(* detach; child, todo: the rows the last child query returned that are    *)
(* not yet updated; seen: a briefing has something to summarise.           *)

Ops == {"none", "create", "update", "set_stage", "destroy", "briefing"}
Points == {"idle", "load", "write", "detach", "deals", "activities", "ask", "save"}

Request == [pc : Points, acct : Accounts \cup {NoAccount}, op : Ops, kind : Kinds, id : MaybeId,
            refs : Refs, left : SUBSET Kinds, child : Kinds, todo : SUBSET Ids,
            seen : BOOLEAN]

Idle == [pc |-> "idle", acct |-> NoAccount, op |-> "none", kind |-> "company",
         id |-> NoId, refs |-> NoRefs, left |-> {}, child |-> "company",
         todo |-> {}, seen |-> FALSE]

Finish(r) == req' = [req EXCEPT ![r] = Idle]

\* Mutation: the account comparison is dropped.
LoadUnscoped(k, i, a) == IF db[k][i] = NoRow THEN "absent" ELSE "ok"

\* access::load fetches by id with no tenant filter and compares afterwards.
Load(k, i, a) ==
  IF db[k][i] = NoRow THEN "absent"
  ELSE IF db[k][i].acct # a THEN "foreign"
  ELSE "ok"

\* The rows of table k in workspace a whose j column holds i.
Holding(k, a, j, i) ==
  {n \in Ids : db[k][n] # NoRow /\ db[k][n].acct = a /\ db[k][n].refs[j] = i}

-----------------------------------------------------------------------------
(* A request arrives.  The guard has resolved its session, so it carries   *)
(* the workspace of its user; ids and references are whatever the form     *)
(* says.                                                                   *)

\* What overlapping requests may spoil: a create or an update that has
\* checked its references while a destroy is between its queries.
Linking(q)    == q.pc # "idle" /\ q.op \in {"create", "update"}
Destroying(q) == q.pc # "idle" /\ q.op = "destroy"
Overlap(requests) == \E r, p \in Requests : Linking(requests[r]) /\ Destroying(requests[p])

\* overlapped only remembers that this has happened; it holds nothing up.
Start(r, a, op, k, i, refs) ==
  /\ req[r].pc = "idle"
  /\ req' = [req EXCEPT ![r] = [Idle EXCEPT
        !.pc = "load", !.acct = a, !.op = op, !.kind = k, !.id = i, !.refs = refs,
        !.left = {j \in Links(k) : refs[j] # NoId}]]
  /\ overlapped' = (overlapped \/ Overlap(req'))
  /\ UNCHANGED <<db, seq>>

FormKinds == {"company", "contact", "deal", "activity"}

\* The references a form of table k can name.
FormRefs(k) == {f \in Refs : \A j \in RefKinds \ Links(k) : f[j] = NoId}

StartCreate(r, a) ==
  \E k \in FormKinds : \E refs \in FormRefs(k) : Start(r, a, "create", k, NoId, refs)

StartUpdate(r, a) ==
  \E k \in {"company", "contact", "deal"}, i \in Ids : \E refs \in FormRefs(k) :
    Start(r, a, "update", k, i, refs)

StartSetStage(r, a) == \E i \in Ids : Start(r, a, "set_stage", "deal", i, NoRefs)

StartDestroy(r, a) ==
  \E k \in FormKinds, i \in Ids : Start(r, a, "destroy", k, i, NoRefs)

StartBriefing(r, a) == \E i \in Ids : Start(r, a, "briefing", "contact", i, NoRefs)

-----------------------------------------------------------------------------
(* create and update: check the references the form names, in order.       *)

\* require_reference: one reference loaded; a foreign or absent one answers
\* 403 or 404 and ends the request.
CheckReference(r) ==
  /\ req[r].pc = "load" /\ req[r].left # {}
  /\ LET j == First(req[r].left)
     IN  IF Load(j, req[r].refs[j], req[r].acct) = "ok"
         THEN req' = [req EXCEPT ![r].left = @ \ {j}]
         ELSE Finish(r)
  /\ UNCHANGED <<db, seq, overlapped>>

\* Mutation: the id after the largest one in the table, as a ROWID would be.
NextIdReused(k) ==
  IF \A i \in Ids : db[k][i] = NoRow THEN 1
  ELSE 1 + CHOOSE i \in Ids : db[k][i] # NoRow /\ \A n \in Ids : n > i => db[k][n] = NoRow

\* The IDENTITY column hands out the next id, whatever has been deleted.
NextId(k) == seq[k] + 1

InsertRow(k, row) ==
  /\ seq[k] < Limit[k]
  /\ seq' = [seq EXCEPT ![k] = NextId(k)]
  /\ db' = [db EXCEPT ![k][NextId(k)] = row]

\* create: the references passed, the row is inserted.
Insert(r) ==
  /\ req[r].pc = "load" /\ req[r].op = "create" /\ req[r].left = {}
  /\ InsertRow(req[r].kind, [acct |-> req[r].acct, refs |-> req[r].refs])
  /\ Finish(r)
  /\ UNCHANGED overlapped

-----------------------------------------------------------------------------
(* Every other handler loads its own row next.                             *)

\* Where a handler goes once `find` has returned its row.
AfterFind(op) ==
  CASE op = "destroy"  -> "detach"
    [] op = "briefing" -> "deals"
    [] OTHER           -> "write"

\* A destroy now has its child tables to detach; a briefing knows whether
\* the contact carries notes.
Find(r) ==
  /\ req[r].pc = "load" /\ req[r].op # "create" /\ req[r].left = {}
  /\ IF Load(req[r].kind, req[r].id, req[r].acct) = "ok"
     THEN \E notes \in BOOLEAN :
            /\ notes => req[r].op = "briefing"
            /\ req' = [req EXCEPT ![r].pc = AfterFind(req[r].op), ![r].seen = notes,
                         ![r].left = IF req[r].op = "destroy"
                                     THEN Children(req[r].kind) ELSE {}]
     ELSE Finish(r)
  /\ UNCHANGED <<db, seq, overlapped>>

\* A row after UPDATE ... SET <columns> = <values>.
SetRefs(row, cols, refs) ==
  [row EXCEPT !.refs = [j \in RefKinds |-> IF j \in cols THEN refs[j] ELSE @[j]]]

\* Mutation: an upsert, which brings a missing row back without a workspace.
UpsertRow(k, i, cols, refs) ==
  db' = [db EXCEPT ![k][i] = IF @ = NoRow THEN [acct |-> NoAccount, refs |-> refs]
                             ELSE SetRefs(@, cols, refs)]

\* An UPDATE of a row that is gone matches nothing.
UpdateRow(k, i, cols, refs) ==
  db' = IF db[k][i] = NoRow THEN db
        ELSE [db EXCEPT ![k][i] = SetRefs(@, cols, refs)]

\* update writes every reference column of the table; set_stage none.
Write(r) ==
  /\ req[r].pc = "write"
  /\ UpdateRow(req[r].kind, req[r].id,
               IF req[r].op = "update" THEN Links(req[r].kind) ELSE {}, req[r].refs)
  /\ Finish(r)
  /\ UNCHANGED <<seq, overlapped>>

-----------------------------------------------------------------------------
(* destroy: for each child table, select the rows that hold this id, then  *)
(* set each one's column to NULL; then delete the row.                     *)

\* Mutation: each child table is queried until it comes back empty.
SelectChildrenUntilNone(r) ==
  /\ req[r].pc = "detach" /\ req[r].todo = {} /\ req[r].left # {}
  /\ LET k == First(req[r].left)
         found == Holding(k, req[r].acct, req[r].kind, req[r].id)
     IN  req' = [req EXCEPT ![r].left = IF found = {} THEN @ \ {k} ELSE @,
                   ![r].child = k, ![r].todo = found]
  /\ UNCHANGED <<db, seq, overlapped>>

SelectChildren(r) ==
  /\ req[r].pc = "detach" /\ req[r].todo = {} /\ req[r].left # {}
  /\ LET k == First(req[r].left)
     IN  req' = [req EXCEPT ![r].left = @ \ {k}, ![r].child = k,
                   ![r].todo = Holding(k, req[r].acct, req[r].kind, req[r].id)]
  /\ UNCHANGED <<db, seq, overlapped>>

DetachChild(r) ==
  /\ req[r].pc = "detach"
  /\ \E n \in req[r].todo :
       /\ UpdateRow(req[r].child, n, {req[r].kind}, NoRefs)
       /\ req' = [req EXCEPT ![r].todo = @ \ {n}]
  /\ UNCHANGED <<seq, overlapped>>

DeleteRow(r) ==
  /\ req[r].pc = "detach" /\ req[r].todo = {} /\ req[r].left = {}
  /\ db' = [db EXCEPT ![req[r].kind][req[r].id] = NoRow]
  /\ Finish(r)
  /\ UNCHANGED <<seq, overlapped>>

-----------------------------------------------------------------------------
(* generate_briefing: read the contact's deals and activities, ask the     *)
(* provider, store what it wrote.                                          *)

ReadDeals(r) ==
  /\ req[r].pc = "deals"
  /\ req' = [req EXCEPT ![r].pc = "activities",
               ![r].seen = @ \/ Holding("deal", req[r].acct, "contact", req[r].id) # {}]
  /\ UNCHANGED <<db, seq, overlapped>>

\* With nothing recorded the request ends with a warning, unpaid for.
ReadActivities(r) ==
  /\ req[r].pc = "activities"
  /\ IF req[r].seen \/ Holding("activity", req[r].acct, "contact", req[r].id) # {}
     THEN req' = [req EXCEPT ![r].pc = "ask"]
     ELSE Finish(r)
  /\ UNCHANGED <<db, seq, overlapped>>

\* The provider answers, or refuses, times out or answers nonsense, which is
\* flashed to the reader and stores nothing.
ProviderReplies(r) ==
  /\ req[r].pc = "ask"
  /\ \/ req' = [req EXCEPT ![r].pc = "save"]
     \/ Finish(r)
  /\ UNCHANGED <<db, seq, overlapped>>

SaveBriefing(r) ==
  /\ req[r].pc = "save"
  /\ InsertRow("briefing", [acct |-> req[r].acct,
                            refs |-> [NoRefs EXCEPT !["contact"] = req[r].id]])
  /\ Finish(r)
  /\ UNCHANGED overlapped

-----------------------------------------------------------------------------
\* A query fails, the client goes away, or the process dies: the handler
\* stops where it is, and nothing it wrote is undone.
Abort(r) ==
  /\ req[r].pc # "idle"
  /\ Finish(r)
  /\ UNCHANGED <<db, seq, overlapped>>

Init ==
  /\ db = [k \in Kinds |-> [i \in Ids |-> NoRow]]
  /\ seq = [k \in Kinds |-> 0]
  /\ req = [r \in Requests |-> Idle]
  /\ overlapped = FALSE

Begin(r) ==
  \E a \in Accounts :
    \/ StartCreate(r, a) \/ StartUpdate(r, a) \/ StartSetStage(r, a)
    \/ StartDestroy(r, a) \/ StartBriefing(r, a)

Step(r) ==
  \/ CheckReference(r) \/ Insert(r) \/ Find(r) \/ Write(r)
  \/ SelectChildren(r) \/ DetachChild(r) \/ DeleteRow(r)
  \/ ReadDeals(r) \/ ReadActivities(r) \/ ProviderReplies(r) \/ SaveBriefing(r)

Next == \E r \in Requests : Begin(r) \/ Step(r) \/ Abort(r)

Spec == Init /\ [][Next]_vars

(***************************************************************************)
(* Fairness: a handler that has been started is polled until it answers or *)
(* is dropped; every query and the provider call (which has a timeout)     *)
(* returns a result or an error.  Nothing says that requests arrive.       *)
(***************************************************************************)
Fairness == \A r \in Requests : WF_vars(Step(r) \/ Abort(r))

FairSpec == Spec /\ Fairness

-----------------------------------------------------------------------------
(* Properties.                                                             *)

\* Tables and requests keep their shape.
TypeOK ==
  /\ db \in [Kinds -> [Ids -> Row \cup {NoRow}]]
  /\ seq \in [Kinds -> 0 .. MaxId]
  /\ req \in [Requests -> Request]
  /\ overlapped \in BOOLEAN

\* A reference never crosses workspaces: whatever row a reference of a row
\* leads to belongs to the same account, although references are checked
\* some awaits before they are written and the row checked may be deleted in
\* between (access.rs: "a hand-edited `company_id` cannot attach one workspace's
\* record to another's").
TenantIsolation ==
  \A k \in Kinds, i \in Ids : db[k][i] # NoRow =>
    \A j \in RefKinds :
      LET n == db[k][i].refs[j]
      IN  n # NoId /\ db[j][n] # NoRow => db[j][n].acct = db[k][i].acct

\* The owner of a row before or after a step, whichever is there.
Touches(k, i, a) ==
  /\ db[k][i] # NoRow => db[k][i].acct = a
  /\ db'[k][i] # NoRow => db'[k][i].acct = a

\* No request inserts, changes or deletes a row of a workspace other than
\* the one its user is signed in to, at any step of any handler ("a
\* cross-tenant delete cannot detach another workspace's children").
WritesStayHome ==
  [][\A r \in Requests : req'[r] # req[r] =>
       \A k \in Kinds, i \in Ids : db'[k][i] # db[k][i] => Touches(k, i, req[r].acct)]_vars

\* Every reference a destroy handler is meant to detach leads to a row that
\* exists ("Detach children instead of leaving dangling foreign keys
\* behind").
NoDanglingReference ==
  \A k \in FormKinds, i \in Ids : db[k][i] # NoRow =>
    \A j \in RefKinds : db[k][i].refs[j] # NoId => db[j][db[k][i].refs[j]] # NoRow

\* Only a destroy beside a request that writes references may break that: no
\* number of destroys of related rows at once, changes of stage, briefings and
\* handlers cut short leaves a reference dangling.
OnlyOverlapsDangle == ~ overlapped => NoDanglingReference

\* Every request that starts is answered or dropped: no handler waits for
\* another, and no loop over children can be kept going by new children.
EveryRequestEnds == \A r \in Requests : req[r].pc # "idle" ~> req[r].pc = "idle"
=============================================================================
