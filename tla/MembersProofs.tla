---------------------------- MODULE MembersProofs ----------------------------
(* Theorems about Members, for every number of workspaces, requests, members *)
(* and sessions: whatever the interleaving, sessions and powers stay in the  *)
(* workspace they belong to; and, in the second half, what holds when one    *)
(* request of a workspace decides at a time.                                 *)
EXTENDS Members, TLAPS

-----------------------------------------------------------------------------
(* Every id the users table has assigned has a home, the workspace its row   *)
(* was inserted for, also once the row is gone.  What sessions and requests  *)
(* know about a member agrees with one and the same assignment of homes.     *)

Homes == [Users -> Accounts \cup {Nobody}]

AtHome(home, u, a) == u \in Users /\ u <= last.user /\ home[u] = a

\* Whatever row is found under session s belongs to workspace a.
Own(s, a) ==
  /\ s \in Sessions /\ s <= last.session
  /\ sessions[s] # NoSession => sessions[s].acct = a

RowsHome(home) ==
  /\ \A u \in Users : users[u] # NoUser => AtHome(home, u, users[u].acct)
  /\ \A s \in Sessions : sessions[s] # NoSession =>
       s <= last.session /\ AtHome(home, sessions[s].user, sessions[s].acct)

\* What request q carries at each point of its handler.
RequestHome(home, q) ==
  /\ q.pc # "idle" => q.acct \in Accounts
  /\ q.pc \notin {"idle", "lookup"} => AtHome(home, q.actor, q.acct)
  /\ q.pc = "guard" =>
       /\ q.op \in AdminOps \cup OwnOps
       /\ Own(q.sess, q.acct)
       /\ q.op # "create" => q.target \in Users
       /\ q.op \in OwnOps => q.target = q.actor
  /\ q.pc = "find" => q.target \in Users /\ (q.op = "change_password" => q.target = q.actor)
  /\ q.pc \in {"count", "write", "history", "select", "each"} => AtHome(home, q.target, q.acct)
  /\ \A s \in q.todo : Own(s, q.acct)

TablesOK ==
  /\ users \in [Users -> UserRow \cup {NoUser}]
  /\ sessions \in [Sessions -> SessionRow \cup {NoSession}]
  /\ last \in [user : 0 .. MaxUser, session : 0 .. MaxSession]
  /\ logged \subseteq Users

Agree(home) == RowsHome(home) /\ \A r \in Requests : RequestHome(home, req[r])

TenancyInv == TypeOK /\ \E home \in Homes : Agree(home)

-----------------------------------------------------------------------------
(* What a step of request r does to all this.                                *)

\* Ids keep their homes, and rows their workspace.
Keeps(home, h2) ==
  /\ last.user <= last'.user /\ last.session <= last'.session
  /\ \A u \in Users : u <= last.user => h2[u] = home[u]
  /\ \A s \in Sessions : s <= last.session /\ sessions'[s] # NoSession =>
       sessions[s] # NoSession /\ sessions'[s].acct = sessions[s].acct

\* Only rows of workspace a change.
StaysIn(a) ==
  /\ \A u \in Users : users'[u] # users[u] =>
       /\ users[u] # NoUser => users[u].acct = a
       /\ users'[u] # NoUser => users'[u].acct = a
  /\ \A s \in Sessions : sessions'[s] # sessions[s] =>
       /\ sessions[s] # NoSession => sessions[s].acct = a
       /\ sessions'[s] # NoSession => sessions'[s].acct = a

SafeStep(r, home, h2) ==
  /\ TablesOK' /\ RowsHome(h2)' /\ Keeps(home, h2) /\ StaysIn(req[r].acct)
  /\ \E q \in Request : RequestHome(h2, q)' /\ req' = [req EXCEPT ![r] = q]

\* Numbers of the ids, in a form the provers use directly.
LEMMA Ranges ==
  /\ MaxUser \in Nat /\ MaxSession \in Nat /\ NumAccounts \in Nat
  /\ Accounts \subseteq Users /\ Accounts \subseteq Sessions
  /\ Users \subseteq Nat /\ Sessions \subseteq Nat /\ Nobody \notin Users
BY BoundsAssumption DEF Accounts, Users, Sessions, Nobody

\* A row is never confused with the answer for no row.
LEMMA RowTypes ==
  /\ \A row \in UserRow : row # NoUser /\ row.acct \in Accounts
  /\ \A row \in SessionRow : row # NoSession /\ row.acct \in Accounts /\ row.user \in Users
BY NoUserAssumption, NoSessionAssumption DEF UserRow, SessionRow

\* An empty slot is a request about nothing.
LEMMA IdleHome ==
  ASSUME NEW home
  PROVE  Idle \in Request /\ RequestHome(home, Idle) /\ RequestHome(home, Idle)'
BY FirstAssumption DEF Idle, Blank, Form, Roles, Request, Points, RequestHome

\* What was true of a request stays so through any step that keeps homes.
LEMMA HomeStable ==
  ASSUME TablesOK, NEW home, NEW h2, Keeps(home, h2), last' \in [user : Nat, session : Nat],
         NEW q \in Request, RequestHome(home, q)
  PROVE  RequestHome(h2, q)'
<1>1. last.user \in Nat /\ last.session \in Nat /\ last'.user \in Nat /\ last'.session \in Nat
  BY Ranges DEF TablesOK
<1>2. \A u, a : AtHome(home, u, a) => AtHome(h2, u, a)'
  BY <1>1, Ranges DEF AtHome, Keeps
<1>3. \A s, a : Own(s, a) => Own(s, a)'
  BY <1>1, Ranges DEF Own, Keeps
<1> QED
  BY <1>2, <1>3 DEF RequestHome

\* A step that leaves the tables alone only has to answer for its request.
LEMMA QuietStep ==
  ASSUME TypeOK, NEW home \in Homes, Agree(home), NEW r \in Requests,
         UNCHANGED tables, NEW q \in Request, RequestHome(home, q),
         req' = [req EXCEPT ![r] = q]
  PROVE  SafeStep(r, home, home)
<1>1. users' = users /\ sessions' = sessions /\ last' = last /\ logged' = logged
  BY DEF tables
<1>2. TablesOK /\ TablesOK'
  BY <1>1 DEF TablesOK, TypeOK
<1>3. RowsHome(home)'
  BY <1>1 DEF Agree, RowsHome, AtHome
<1>4. RequestHome(home, q)'
  BY <1>1 DEF RequestHome, AtHome, Own
<1>5. Keeps(home, home)
  BY <1>1, <1>2, Ranges DEF Keeps, TablesOK
<1>6. StaysIn(req[r].acct)
  BY <1>1 DEF StaysIn
<1> QED
  BY <1>2, <1>3, <1>4, <1>5, <1>6 DEF SafeStep

\* So does one that ends its request.
LEMMA QuietFinish ==
  ASSUME TypeOK, NEW home \in Homes, Agree(home), NEW r \in Requests,
         UNCHANGED tables, Finish(r)
  PROVE  SafeStep(r, home, home)
BY IdleHome, QuietStep DEF Finish

\* And one that only moves it to a point which asks no more of it.
LEMMA QuietGoTo ==
  ASSUME TypeOK, NEW home \in Homes, Agree(home), NEW r \in Requests, NEW pc \in Points,
         UNCHANGED tables, GoTo(r, pc), RequestHome(home, [req[r] EXCEPT !.pc = pc])
  PROVE  SafeStep(r, home, home)
<1>1. req[r] \in Request
  BY DEF TypeOK
<1>2. [req[r] EXCEPT !.pc = pc] \in Request
  BY <1>1 DEF Request
<1>3. req' = [req EXCEPT ![r] = [req[r] EXCEPT !.pc = pc]]
  BY DEF GoTo, TypeOK
<1> QED
  BY <1>2, <1>3, QuietStep

-----------------------------------------------------------------------------
(* One lemma per step: first those that only read.                           *)

\* The guard's first query: the session it found says whose it is.
LEMMA ArriveSafe ==
  ASSUME TypeOK, NEW home \in Homes, Agree(home), NEW r \in Requests, NEW s \in Sessions,
         NEW op \in AdminOps \cup OwnOps, NEW target \in Users \cup {Nobody},
         op \in AdminOps \ {"create"} => target \in Users,
         NEW form \in Form, Arrive(r, s, op, target, form)
  PROVE  SafeStep(r, home, home)
<1> DEFINE q == [Idle EXCEPT
        !.pc = "guard", !.op = op, !.sess = s, !.actor = sessions[s].user,
        !.acct = sessions[s].acct, !.form = form,
        !.target = IF op \in OwnOps THEN sessions[s].user ELSE target]
<1>1. sessions[s] \in SessionRow /\ sessions[s] # NoSession
  BY DEF Arrive, Live, TypeOK
<1>2. s <= last.session /\ AtHome(home, sessions[s].user, sessions[s].acct)
  BY <1>1 DEF Agree, RowsHome
<1>3. sessions[s].acct \in Accounts /\ sessions[s].user \in Users
  BY <1>1, RowTypes
<1>4. q \in Request
  BY <1>3, IdleHome DEF Request, Points
<1>5. /\ q.pc = "guard" /\ q.op = op /\ q.sess = s /\ q.actor = sessions[s].user
      /\ q.acct = sessions[s].acct /\ q.todo = {}
      /\ q.target = IF op \in OwnOps THEN sessions[s].user ELSE target
  BY DEF Idle
<1>6. RequestHome(home, q)
  BY <1>2, <1>3, <1>5 DEF RequestHome, Own
<1>7. req' = [req EXCEPT ![r] = q] /\ UNCHANGED tables
  BY DEF Arrive
<1> HIDE DEF q
<1> QED
  BY <1>4, <1>6, <1>7, QuietStep

\* Whatever form a request brings.
LEMMA BeginSafe ==
  ASSUME TypeOK, NEW home \in Homes, Agree(home), NEW r \in Requests, Begin(r)
  PROVE  SafeStep(r, home, home)
<1>1. CASE ArriveLogin(r)
  <2>1. PICK a \in Accounts, n \in Names, p \in Passwords :
          req' = [req EXCEPT ![r] = [Idle EXCEPT !.pc = "lookup", !.op = "login", !.acct = a,
                                       !.form = [Blank EXCEPT !.name = n, !.pw = p]]]
    BY <1>1 DEF ArriveLogin
  <2> DEFINE q == [Idle EXCEPT !.pc = "lookup", !.op = "login", !.acct = a,
                     !.form = [Blank EXCEPT !.name = n, !.pw = p]]
  <2>2. [Blank EXCEPT !.name = n, !.pw = p] \in Form
    BY FirstAssumption DEF Blank, Form, Roles
  <2>3. q \in Request
    BY <2>2, IdleHome DEF Request, Points
  <2>4. RequestHome(home, q)
    BY DEF RequestHome, Idle
  <2>5. UNCHANGED tables
    BY <1>1 DEF ArriveLogin
  <2> HIDE DEF q
  <2>6. req' = [req EXCEPT ![r] = q]
    BY <2>1 DEF q
  <2> QED
    BY <2>3, <2>4, <2>5, <2>6, QuietStep
<1>2. ASSUME NEW s \in Sessions, ArriveCreate(r, s)
      PROVE  SafeStep(r, home, home)
  <2>1. PICK n \in Names, role \in Roles, p \in Passwords :
          Arrive(r, s, "create", Nobody, [Blank EXCEPT !.name = n, !.role = role, !.pw = p])
    BY <1>2 DEF ArriveCreate
  <2>2. [Blank EXCEPT !.name = n, !.role = role, !.pw = p] \in Form
    BY FirstAssumption DEF Blank, Form, Roles
  <2> QED
    BY <2>1, <2>2, ArriveSafe DEF AdminOps, OwnOps
<1>3. ASSUME NEW s \in Sessions, ArriveUpdate(r, s)
      PROVE  SafeStep(r, home, home)
  <2>1. PICK u \in Users, role \in Roles, active \in BOOLEAN :
          Arrive(r, s, "update", u, [Blank EXCEPT !.role = role, !.active = active])
    BY <1>3 DEF ArriveUpdate
  <2>2. [Blank EXCEPT !.role = role, !.active = active] \in Form
    BY FirstAssumption DEF Blank, Form
  <2> QED
    BY <2>1, <2>2, ArriveSafe DEF AdminOps, OwnOps
<1>4. ASSUME NEW s \in Sessions, ArriveSetActive(r, s)
      PROVE  SafeStep(r, home, home)
  <2>1. PICK u \in Users, active \in BOOLEAN :
          Arrive(r, s, "set_active", u, [Blank EXCEPT !.active = active])
    BY <1>4 DEF ArriveSetActive
  <2>2. [Blank EXCEPT !.active = active] \in Form
    BY FirstAssumption DEF Blank, Form, Roles
  <2> QED
    BY <2>1, <2>2, ArriveSafe DEF AdminOps, OwnOps
<1>5. ASSUME NEW s \in Sessions, ArriveResetPassword(r, s)
      PROVE  SafeStep(r, home, home)
  <2>1. PICK u \in Users, p \in Passwords :
          Arrive(r, s, "reset_password", u, [Blank EXCEPT !.pw = p])
    BY <1>5 DEF ArriveResetPassword
  <2>2. [Blank EXCEPT !.pw = p] \in Form
    BY FirstAssumption DEF Blank, Form, Roles
  <2> QED
    BY <2>1, <2>2, ArriveSafe DEF AdminOps, OwnOps
<1>6. Blank \in Form
  BY FirstAssumption DEF Blank, Form, Roles
<1>7. ASSUME NEW s \in Sessions, ArriveAbout(r, s)
      PROVE  SafeStep(r, home, home)
  BY <1>6, <1>7, ArriveSafe DEF ArriveAbout, AdminOps, OwnOps
<1>8. ASSUME NEW s \in Sessions, ArriveOwn(r, s)
      PROVE  SafeStep(r, home, home)
  BY <1>6, <1>8, ArriveSafe DEF ArriveOwn, AdminOps, OwnOps
<1>9. ASSUME NEW s \in Sessions, ArriveChangePassword(r, s)
      PROVE  SafeStep(r, home, home)
  <2>1. PICK old \in Passwords, new \in Passwords :
          Arrive(r, s, "change_password", Nobody, [Blank EXCEPT !.old = old, !.pw = new])
    BY <1>9 DEF ArriveChangePassword
  <2>2. [Blank EXCEPT !.old = old, !.pw = new] \in Form
    BY FirstAssumption DEF Blank, Form, Roles
  <2> QED
    BY <2>1, <2>2, ArriveSafe DEF AdminOps, OwnOps
<1> QED
  BY <1>1, <1>2, <1>3, <1>4, <1>5, <1>7, <1>8, <1>9 DEF Begin

\* The guard's second query sends the request to its handler, or home.
LEMMA IdentifySafe ==
  ASSUME TypeOK, NEW home \in Homes, Agree(home), NEW r \in Requests, Identify(r)
  PROVE  SafeStep(r, home, home)
<1> DEFINE q == [req[r] EXCEPT !.pc = FirstPoint(req[r].op),
                   !.todo = IF req[r].op = "logout" THEN {req[r].sess} ELSE {}]
<1>1. req[r] \in Request /\ RequestHome(home, req[r]) /\ req[r].pc = "guard"
  BY DEF TypeOK, Agree, Identify
<1>2. UNCHANGED tables /\ (Finish(r) \/ req' = [req EXCEPT ![r] = q])
  BY DEF Identify, TypeOK
<1>3. FirstPoint(req[r].op) \in {"taken", "select", "each", "log", "find"}
  BY DEF FirstPoint
<1>4. req[r].sess \in Sessions
  BY <1>1 DEF RequestHome, Own
<1>5. q \in Request
  BY <1>1, <1>3, <1>4 DEF Request, Points
<1>6. /\ q.pc = FirstPoint(req[r].op) /\ q.op = req[r].op /\ q.actor = req[r].actor
      /\ q.acct = req[r].acct /\ q.target = req[r].target
      /\ q.todo = IF req[r].op = "logout" THEN {req[r].sess} ELSE {}
  BY <1>1 DEF Request
<1>7. FirstPoint(req[r].op) \in {"select", "each"} => req[r].op \in OwnOps
  BY DEF FirstPoint, OwnOps
<1>8. FirstPoint(req[r].op) = "find" => req[r].op # "create"
  BY DEF FirstPoint
<1> HIDE DEF q
<1>9. RequestHome(home, q)
  BY <1>1, <1>3, <1>6, <1>7, <1>8 DEF RequestHome, OwnOps
<1> QED
  BY <1>2, <1>5, <1>9, QuietStep, QuietFinish

\* Reading whether a name is free, counting administrators, looking for history.
LEMMA ReadSafe ==
  ASSUME TypeOK, NEW home \in Homes, Agree(home), NEW r \in Requests,
         Taken(r) \/ GuardAdminChange(r) \/ CheckHistory(r)
  PROVE  SafeStep(r, home, home)
<1>1. req[r] \in Request /\ RequestHome(home, req[r])
  BY DEF TypeOK, Agree
<1>2. UNCHANGED tables
  BY DEF Taken, GuardAdminChange, CheckHistory
<1>3. CASE Finish(r)
  BY <1>2, <1>3, QuietFinish
<1>4. CASE req[r].pc = "taken" /\ GoTo(r, "insert")
  <2>1. RequestHome(home, [req[r] EXCEPT !.pc = "insert"])
    BY <1>1, <1>4 DEF RequestHome, Request
  <2> QED
    BY <1>2, <1>4, <2>1, QuietGoTo DEF Points
<1>5. ASSUME NEW pc \in {"history", "write", "select"}, GoTo(r, pc),
             req[r].pc \in {"count", "history"}
      PROVE  SafeStep(r, home, home)
  <2>1. RequestHome(home, [req[r] EXCEPT !.pc = pc])
    BY <1>1, <1>5 DEF RequestHome, Request
  <2> QED
    BY <1>2, <1>5, <2>1, QuietGoTo DEF Points
<1> QED
  BY <1>3, <1>4, <1>5 DEF Taken, GuardAdminChange, CheckHistory

\* find: the row it loads shows that the member is at home here.
LEMMA FindSafe ==
  ASSUME TypeOK, NEW home \in Homes, Agree(home), NEW r \in Requests, Find(r)
  PROVE  SafeStep(r, home, home)
<1> DEFINE row == users[req[r].target]
           q == [req[r] EXCEPT !.pc = AfterFind(req[r].op, row, req[r].form),
                   !.wasAdmin = row.role = "admin" /\ row.active,
                   !.revoke = SignsOut(req[r].op, row, req[r].form)]
<1>1. req[r] \in Request /\ RequestHome(home, req[r]) /\ req[r].pc = "find"
  BY DEF TypeOK, Agree, Find
<1>2. UNCHANGED tables
  BY DEF Find
<1>3. CASE Finish(r)
  BY <1>2, <1>3, QuietFinish
<1>4. CASE Findable(req[r].target, req[r].acct) /\ req' = [req EXCEPT ![r] = q]
  <2>1. req[r].target \in Users
    BY <1>1 DEF RequestHome
  <2>2. row # NoUser /\ row.acct = req[r].acct
    BY <1>4 DEF Findable
  <2>3. AtHome(home, req[r].target, req[r].acct)
    BY <2>1, <2>2 DEF Agree, RowsHome
  <2>4. row \in UserRow
    BY <2>1, <2>2 DEF TypeOK
  <2>5. AfterFind(req[r].op, row, req[r].form) \in {"count", "select", "write"}
    BY DEF AfterFind
  <2>6. (row.role = "admin" /\ row.active) \in BOOLEAN
    BY <2>4 DEF UserRow
  <2>7. SignsOut(req[r].op, row, req[r].form) \in BOOLEAN
    BY DEF SignsOut
  <2>8. \A pc \in Points, w \in BOOLEAN, v \in BOOLEAN :
          [req[r] EXCEPT !.pc = pc, !.wasAdmin = w, !.revoke = v] \in Request
    BY <1>1 DEF Request
  <2>9. q \in Request
    BY <2>5, <2>6, <2>7, <2>8 DEF Points
  <2>10. /\ q.pc \in {"count", "select", "write"} /\ q.actor = req[r].actor
         /\ q.acct = req[r].acct /\ q.target = req[r].target /\ q.todo = req[r].todo
    BY <1>1, <2>5 DEF Request
  <2> HIDE DEF q
  <2>11. RequestHome(home, q)
    BY <1>1, <2>3, <2>10 DEF RequestHome
  <2> QED
    BY <1>2, <1>4, <2>9, <2>11, QuietStep
<1> QED
  BY <1>3, <1>4 DEF Find, TypeOK

\* change_password reads the member it runs for.
LEMMA FindSelfSafe ==
  ASSUME TypeOK, NEW home \in Homes, Agree(home), NEW r \in Requests, FindSelf(r)
  PROVE  SafeStep(r, home, home)
<1> DEFINE q == [req[r] EXCEPT !.pc = "write", !.revoke = TRUE]
<1>1. req[r] \in Request /\ RequestHome(home, req[r]) /\ req[r].pc = "find"
  BY DEF TypeOK, Agree, FindSelf
<1>2. UNCHANGED tables /\ (Finish(r) \/ req' = [req EXCEPT ![r] = q])
  BY DEF FindSelf, TypeOK
<1>3. q \in Request
  BY <1>1 DEF Request, Points
<1>4. RequestHome(home, q)
  BY <1>1 DEF RequestHome, Request, FindSelf
<1> QED
  BY <1>2, <1>3, <1>4, QuietStep, QuietFinish

\* attempt_login looks the name up in one workspace, where its bearer is at home.
LEMMA LookUpSafe ==
  ASSUME TypeOK, NEW home \in Homes, Agree(home), NEW r \in Requests, LookUp(r)
  PROVE  SafeStep(r, home, home)
<1>1. req[r] \in Request /\ RequestHome(home, req[r]) /\ req[r].pc = "lookup"
  BY DEF TypeOK, Agree, LookUp
<1>2. UNCHANGED tables
  BY DEF LookUp
<1>3. CASE Finish(r)
  BY <1>2, <1>3, QuietFinish
<1>4. ASSUME NEW u \in Named(req[r].acct, req[r].form.name),
             req' = [req EXCEPT ![r].pc = "mint", ![r].actor = u, ![r].target = u]
      PROVE  SafeStep(r, home, home)
  <2> DEFINE q == [req[r] EXCEPT !.pc = "mint", !.actor = u, !.target = u]
  <2>1. u \in Users /\ users[u] # NoUser /\ users[u].acct = req[r].acct
    BY DEF Named, Within
  <2>2. AtHome(home, u, req[r].acct)
    BY <2>1 DEF Agree, RowsHome
  <2>3. q \in Request
    BY <1>1, <2>1 DEF Request, Points
  <2>4. RequestHome(home, q)
    BY <1>1, <2>2 DEF RequestHome, Request
  <2>5. req' = [req EXCEPT ![r] = q]
    BY <1>4 DEF TypeOK
  <2> QED
    BY <1>2, <2>3, <2>4, <2>5, QuietStep
<1> QED
  BY <1>3, <1>4 DEF LookUp

\* The sessions of a member who is at home here are of this workspace.
LEMMA SelectSafe ==
  ASSUME TypeOK, NEW home \in Homes, Agree(home), NEW r \in Requests, SelectSessions(r)
  PROVE  SafeStep(r, home, home)
<1> DEFINE q == [req[r] EXCEPT !.pc = "each", !.todo = Selected(req[r])]
<1>1. req[r] \in Request /\ RequestHome(home, req[r]) /\ req[r].pc = "select"
  BY DEF TypeOK, Agree, SelectSessions
<1>2. UNCHANGED tables /\ (Finish(r) \/ req' = [req EXCEPT ![r] = q])
  BY DEF SelectSessions, TypeOK
<1>3. \A s \in Selected(req[r]) :
        s \in Sessions /\ sessions[s] # NoSession /\ sessions[s].user = req[r].target
  BY DEF Selected, Owned
<1>4. AtHome(home, req[r].target, req[r].acct)
  BY <1>1 DEF RequestHome
<1>5. \A s \in Selected(req[r]) : Own(s, req[r].acct)
  BY <1>3, <1>4 DEF Agree, RowsHome, AtHome, Own
<1>6. q \in Request
  BY <1>1, <1>3 DEF Request, Points
<1>7. RequestHome(home, q)
  BY <1>1, <1>4, <1>5 DEF RequestHome, Request
<1> QED
  BY <1>2, <1>6, <1>7, QuietStep, QuietFinish

-----------------------------------------------------------------------------
(* Steps that write.                                                         *)

\* A new member gets an id that had no home yet.
LEMMA InsertUserSafe ==
  ASSUME TypeOK, NEW home \in Homes, Agree(home), NEW r \in Requests, InsertUser(r)
  PROVE  \E h2 \in Homes : SafeStep(r, home, h2)
<1> DEFINE n == NextUser
           row == [acct |-> req[r].acct, name |-> req[r].form.name,
                   role |-> req[r].form.role, active |-> TRUE, pw |-> req[r].form.pw]
<1>1. req[r] \in Request /\ req[r].acct \in Accounts
  BY DEF TypeOK, Agree, InsertUser, RequestHome
<1>2. last.user \in Nat /\ last.session \in Nat /\ last.user < MaxUser /\ n = last.user + 1
  BY Ranges DEF TypeOK, InsertUser, NextUser
<1>3. n \in Users /\ n > last.user
  BY <1>2, Ranges DEF Users
<1>4. row \in UserRow
  BY <1>1 DEF Request, Form, UserRow
<1>5. users[n] = NoUser
  BY <1>3, <1>2 DEF Agree, RowsHome, AtHome
<1>6. /\ users' = [users EXCEPT ![n] = row] /\ sessions' = sessions /\ logged' = logged
      /\ last' = [last EXCEPT !.user = n] /\ req' = [req EXCEPT ![r] = Idle]
  BY DEF InsertUser, Finish
<1> HIDE DEF n
<1>7. last'.user = n /\ last'.session = last.session
  BY <1>6 DEF TypeOK
<1>8. TablesOK'
  <2>1. last' \in [user : 0 .. MaxUser, session : 0 .. MaxSession]
    BY <1>2, <1>6, Ranges DEF TypeOK
  <2>2. users' \in [Users -> UserRow \cup {NoUser}]
    BY <1>4, <1>6 DEF TypeOK
  <2> QED
    BY <1>6, <2>1, <2>2 DEF TablesOK, TypeOK
<1>9. PICK h2 \in Homes : h2[n] = req[r].acct /\ \A u \in Users : u # n => h2[u] = home[u]
  <2>1. [home EXCEPT ![n] = req[r].acct] \in Homes
    BY <1>1 DEF Homes
  <2> QED
    BY <1>3, <2>1 DEF Homes
<1>10. \A u, a : AtHome(home, u, a) => AtHome(h2, u, a)'
  BY <1>2, <1>3, <1>7, <1>9, Ranges DEF AtHome
<1>11. RowsHome(h2)'
  <2>1. ASSUME NEW u \in Users, users'[u] # NoUser
        PROVE  (AtHome(h2, u, users[u].acct))'
    <3>1. CASE u = n
      BY <1>3, <1>6, <1>7, <1>9, <3>1, Ranges DEF AtHome, TypeOK
    <3>2. CASE u # n
      BY <1>6, <1>10, <2>1, <3>2 DEF Agree, RowsHome, TypeOK
    <3> QED
      BY <3>1, <3>2
  <2>2. ASSUME NEW s \in Sessions, sessions'[s] # NoSession
        PROVE  (s <= last.session /\ AtHome(h2, sessions[s].user, sessions[s].acct))'
    BY <1>6, <1>7, <1>10, <2>2 DEF Agree, RowsHome
  <2> QED
    BY <2>1, <2>2 DEF RowsHome
<1>12. Keeps(home, h2)
  BY <1>2, <1>3, <1>6, <1>7, <1>9, Ranges DEF Keeps
<1>13. StaysIn(req[r].acct)
  BY <1>3, <1>5, <1>6 DEF StaysIn, TypeOK
<1> QED
  BY <1>6, <1>8, <1>9, <1>11, <1>12, <1>13, IdleHome DEF SafeStep

\* A new session belongs to the workspace its user was looked up in.
LEMMA MintSafe ==
  ASSUME TypeOK, NEW home \in Homes, Agree(home), NEW r \in Requests, Mint(r)
  PROVE  SafeStep(r, home, home)
<1> DEFINE n == NextSession
           row == [acct |-> req[r].acct, user |-> req[r].actor, revoked |-> FALSE,
                   pw |-> req[r].form.pw]
<1>1. /\ req[r] \in Request /\ req[r].acct \in Accounts
      /\ AtHome(home, req[r].actor, req[r].acct)
  BY DEF TypeOK, Agree, Mint, RequestHome
<1>2. /\ last.user \in Nat /\ last.session \in Nat /\ last.session < MaxSession
      /\ n = last.session + 1
  BY Ranges DEF TypeOK, Mint, NextSession
<1>3. n \in Sessions /\ n > last.session
  BY <1>2, Ranges DEF Sessions
<1>4. row \in SessionRow
  BY <1>1 DEF Request, Form, SessionRow, AtHome
<1>5. sessions[n] = NoSession
  BY <1>3, <1>2 DEF Agree, RowsHome
<1>6. /\ sessions' = [sessions EXCEPT ![n] = row] /\ users' = users /\ logged' = logged
      /\ last' = [last EXCEPT !.session = n] /\ req' = [req EXCEPT ![r] = Idle]
  BY DEF Mint, Finish
<1> HIDE DEF n
<1>7. last'.session = n /\ last'.user = last.user
  BY <1>6 DEF TypeOK
<1>8. TablesOK'
  <2>1. last' \in [user : 0 .. MaxUser, session : 0 .. MaxSession]
    BY <1>2, <1>6, Ranges DEF TypeOK
  <2>2. sessions' \in [Sessions -> SessionRow \cup {NoSession}]
    BY <1>4, <1>6 DEF TypeOK
  <2> QED
    BY <1>6, <2>1, <2>2 DEF TablesOK, TypeOK
<1>9. \A u, a : AtHome(home, u, a) => AtHome(home, u, a)'
  BY <1>7 DEF AtHome
<1>10. RowsHome(home)'
  <2>1. ASSUME NEW u \in Users, users'[u] # NoUser
        PROVE  (AtHome(home, u, users[u].acct))'
    BY <1>6, <1>9, <2>1 DEF Agree, RowsHome
  <2>2. ASSUME NEW s \in Sessions, sessions'[s] # NoSession
        PROVE  (s <= last.session /\ AtHome(home, sessions[s].user, sessions[s].acct))'
    <3>1. CASE s = n
      BY <1>1, <1>3, <1>6, <1>7, <1>9, <3>1, Ranges DEF TypeOK
    <3>2. CASE s # n
      <4>1. sessions'[s] = sessions[s]
        BY <1>6, <3>2 DEF TypeOK
      <4>2. s <= last.session /\ AtHome(home, sessions[s].user, sessions[s].acct)
        BY <2>2, <4>1 DEF Agree, RowsHome
      <4> QED
        BY <1>2, <1>3, <1>7, <1>9, <4>1, <4>2, Ranges
    <3> QED
      BY <3>1, <3>2
  <2> QED
    BY <2>1, <2>2 DEF RowsHome
<1>11. Keeps(home, home)
  BY <1>2, <1>3, <1>6, <1>7, Ranges DEF Keeps, TypeOK
<1>12. StaysIn(req[r].acct)
  BY <1>3, <1>5, <1>6 DEF StaysIn, TypeOK
<1> QED
  BY <1>6, <1>8, <1>10, <1>11, <1>12, IdleHome DEF SafeStep

\* An UPDATE of users changes no workspace.
LEMMA UpdatedType ==
  ASSUME NEW row \in UserRow, NEW op, NEW form \in Form
  PROVE  Updated(row, op, form) \in UserRow /\ Updated(row, op, form).acct = row.acct
BY DEF Updated, UserRow, Form

\* A step that changes one member, at home here, and no session.
LEMMA UserStep ==
  ASSUME TypeOK, NEW home \in Homes, Agree(home), NEW r \in Requests,
         NEW u \in Users, AtHome(home, u, req[r].acct), NEW row \in UserRow \cup {NoUser},
         row # NoUser => users[u] # NoUser /\ row.acct = users[u].acct,
         users' = [users EXCEPT ![u] = row], UNCHANGED <<sessions, last, logged>>,
         NEW q \in Request, RequestHome(home, q), req' = [req EXCEPT ![r] = q]
  PROVE  SafeStep(r, home, home)
<1>1. TablesOK'
  BY DEF TablesOK, TypeOK
<1>2. \A v, a : AtHome(home, v, a) => AtHome(home, v, a)'
  BY DEF AtHome
<1>3. RowsHome(home)'
  <2>1. ASSUME NEW v \in Users, users'[v] # NoUser
        PROVE  (AtHome(home, v, users[v].acct))'
    <3>1. users[v] # NoUser /\ users'[v].acct = users[v].acct
      BY <2>1 DEF TypeOK
    <3> QED
      BY <1>2, <3>1 DEF Agree, RowsHome
  <2> QED
    BY <1>2, <2>1 DEF Agree, RowsHome
<1>4. Keeps(home, home)
  BY Ranges DEF Keeps, TypeOK
<1>5. StaysIn(req[r].acct)
  <2>1. users[u] # NoUser => users[u].acct = req[r].acct
    BY DEF Agree, RowsHome, AtHome
  <2> QED
    BY <2>1 DEF StaysIn, TypeOK
<1>6. RequestHome(home, q)'
  BY DEF RequestHome, AtHome, Own
<1> QED
  BY <1>1, <1>3, <1>4, <1>5, <1>6 DEF SafeStep

\* The update of a member who may be gone by now.
LEMMA WriteSafe ==
  ASSUME TypeOK, NEW home \in Homes, Agree(home), NEW r \in Requests, Write(r)
  PROVE  SafeStep(r, home, home)
<1> DEFINE u == req[r].target
           row == IF users[u] = NoUser THEN users[u]
                  ELSE Updated(users[u], req[r].op, req[r].form)
           q == [req[r] EXCEPT !.pc = "select"]
<1>1. req[r] \in Request /\ RequestHome(home, req[r]) /\ req[r].pc = "write"
  BY DEF TypeOK, Agree, Write
<1>2. AtHome(home, u, req[r].acct) /\ u \in Users
  BY <1>1 DEF RequestHome, AtHome
<1>3. req[r].form \in Form
  BY <1>1 DEF Request
<1>4. users[u] # NoUser => users[u] \in UserRow
  BY <1>2 DEF TypeOK
<1>5. /\ row \in UserRow \cup {NoUser}
      /\ row # NoUser => users[u] # NoUser /\ row.acct = users[u].acct
  BY <1>3, <1>4, UpdatedType
<1>6. users' = [users EXCEPT ![u] = row] /\ UNCHANGED <<sessions, last, logged>>
  BY <1>2 DEF Write, TypeOK
<1>7. req' = [req EXCEPT ![r] = q] \/ req' = [req EXCEPT ![r] = Idle]
  BY DEF Write, GoTo, Finish, TypeOK
<1>8. q \in Request /\ RequestHome(home, q)
  BY <1>1 DEF Request, Points, RequestHome
<1> HIDE DEF row, q
<1> QED
  BY <1>2, <1>5, <1>6, <1>7, <1>8, IdleHome, UserStep

\* The last query of destroy.
LEMMA DeleteUserSafe ==
  ASSUME TypeOK, NEW home \in Homes, Agree(home), NEW r \in Requests, DeleteUser(r)
  PROVE  SafeStep(r, home, home)
<1>1. RequestHome(home, req[r]) /\ req[r].pc = "each"
  BY DEF Agree, DeleteUser
<1>2. AtHome(home, req[r].target, req[r].acct) /\ req[r].target \in Users
  BY <1>1 DEF RequestHome, AtHome
<1> QED
  BY <1>2, IdleHome, UserStep DEF DeleteUser, Finish

\* Ending one of the sessions selected, which may be gone by now.
LEMMA EndSessionSafe ==
  ASSUME TypeOK, NEW home \in Homes, Agree(home), NEW r \in Requests, EndSession(r)
  PROVE  SafeStep(r, home, home)
<1>1. PICK s \in req[r].todo :
        /\ sessions' = [sessions EXCEPT ![s] = Ended(@, req[r].op)]
        /\ IF req[r].todo = {s} /\ req[r].op # "destroy"
           THEN Finish(r)
           ELSE req' = [req EXCEPT ![r].todo = @ \ {s}]
  BY DEF EndSession
<1> DEFINE row == Ended(sessions[s], req[r].op)
           q == [req[r] EXCEPT !.todo = @ \ {s}]
<1>2. req[r] \in Request /\ RequestHome(home, req[r])
  BY DEF TypeOK, Agree
<1>3. s \in Sessions /\ Own(s, req[r].acct)
  BY <1>2 DEF RequestHome, Own
<1>4. sessions[s] # NoSession => sessions[s] \in SessionRow
  BY <1>3 DEF TypeOK
<1>5. /\ row \in SessionRow \cup {NoSession}
      /\ row # NoSession => /\ sessions[s] # NoSession /\ row.acct = sessions[s].acct
                            /\ row.user = sessions[s].user
  BY <1>4 DEF Ended, SessionRow
<1>6. sessions' = [sessions EXCEPT ![s] = row] /\ UNCHANGED <<users, last, logged>>
  BY <1>1, <1>3 DEF EndSession, TypeOK
<1>7. req' = [req EXCEPT ![r] = q] \/ req' = [req EXCEPT ![r] = Idle]
  BY <1>1 DEF Finish, TypeOK
<1>8. q \in Request /\ RequestHome(home, q)
  BY <1>2 DEF Request, RequestHome
<1> HIDE DEF row, q
<1>9. TablesOK'
  BY <1>5, <1>6 DEF TablesOK, TypeOK
<1>10. Keeps(home, home)
  BY <1>3, <1>5, <1>6, Ranges DEF Keeps, TypeOK
<1>11. \A u, a : AtHome(home, u, a) => AtHome(home, u, a)'
  BY <1>6 DEF AtHome
<1>12. RowsHome(home)'
  <2>1. ASSUME NEW u \in Users, users'[u] # NoUser
        PROVE  (AtHome(home, u, users[u].acct))'
    BY <1>6, <1>11, <2>1 DEF Agree, RowsHome
  <2>2. ASSUME NEW z \in Sessions, sessions'[z] # NoSession
        PROVE  (z <= last.session /\ AtHome(home, sessions[z].user, sessions[z].acct))'
    <3>1. /\ sessions[z] # NoSession /\ sessions'[z].acct = sessions[z].acct
          /\ sessions'[z].user = sessions[z].user
      BY <1>3, <1>5, <1>6, <2>2 DEF TypeOK
    <3> QED
      BY <1>6, <1>11, <3>1 DEF Agree, RowsHome
  <2> QED
    BY <2>1, <2>2 DEF RowsHome
<1>13. StaysIn(req[r].acct)
  BY <1>3, <1>5, <1>6 DEF StaysIn, TypeOK, Own
<1>14. \A z \in Request : RequestHome(home, z) => RequestHome(home, z)'
  <2>1. last' \in [user : Nat, session : Nat] /\ TablesOK
    BY <1>6, Ranges DEF TypeOK, TablesOK
  <2> QED
    BY <1>10, <2>1, HomeStable
<1> QED
  BY <1>7, <1>8, <1>9, <1>10, <1>12, <1>13, <1>14, IdleHome DEF SafeStep

\* Logging an activity adds its author to those named.
LEMMA LogActivitySafe ==
  ASSUME TypeOK, NEW home \in Homes, Agree(home), NEW r \in Requests, LogActivity(r)
  PROVE  SafeStep(r, home, home)
<1>1. users' = users /\ sessions' = sessions /\ last' = last /\ req' = [req EXCEPT ![r] = Idle]
  BY DEF LogActivity, Finish
<1>2. req[r].actor \in Users
  BY DEF LogActivity, Agree, RequestHome, AtHome
<1>3. TablesOK'
  BY <1>1, <1>2 DEF TablesOK, TypeOK, LogActivity
<1>4. RowsHome(home)'
  BY <1>1 DEF Agree, RowsHome, AtHome
<1>5. Keeps(home, home) /\ StaysIn(req[r].acct)
  BY <1>1, Ranges DEF Keeps, StaysIn, TypeOK
<1> QED
  BY <1>1, <1>3, <1>4, <1>5, IdleHome DEF SafeStep

-----------------------------------------------------------------------------
(* Every step together.                                                      *)

\* Each way a request can move is safe, whatever the homes were.
LEMMA RequestSafe ==
  ASSUME TypeOK, NEW home \in Homes, Agree(home), NEW r \in Requests,
         Begin(r) \/ Step(r) \/ Abort(r)
  PROVE  \E h2 \in Homes : SafeStep(r, home, h2)
<1>1. CASE Begin(r)
  BY <1>1, BeginSafe
<1>2. CASE Step(r)
  BY <1>2, IdentifySafe, ReadSafe, FindSafe, FindSelfSafe, LookUpSafe, SelectSafe,
     InsertUserSafe, MintSafe, WriteSafe, DeleteUserSafe, EndSessionSafe, LogActivitySafe
     DEF Step
<1>3. CASE Abort(r)
  BY <1>3, QuietFinish DEF Abort
<1> QED
  BY <1>1, <1>2, <1>3

\* What a safe step of one request leaves to the others.
LEMMA SafeStepTenancy ==
  ASSUME TypeOK, NEW home \in Homes, NEW h2 \in Homes, Agree(home), NEW r \in Requests,
         SafeStep(r, home, h2)
  PROVE  TypeOK' /\ Agree(h2)'
<1>1. PICK q \in Request : RequestHome(h2, q)' /\ req' = [req EXCEPT ![r] = q]
  BY DEF SafeStep
<1>2. TypeOK'
  BY <1>1 DEF SafeStep, TablesOK, TypeOK
<1>3. TablesOK /\ last' \in [user : Nat, session : Nat]
  BY <1>2, Ranges DEF TypeOK, TablesOK
<1>4. ASSUME NEW p \in Requests
      PROVE  RequestHome(h2, req[p])'
  <2>1. CASE p = r
    BY <1>1, <2>1 DEF TypeOK
  <2>2. CASE p # r
    <3>1. req'[p] = req[p] /\ req[p] \in Request /\ RequestHome(home, req[p])
      BY <1>1, <2>2 DEF TypeOK, Agree
    <3>2. \A z \in Request : RequestHome(home, z) => RequestHome(h2, z)'
      BY <1>3, HomeStable DEF SafeStep
    <3> QED
      BY <3>1, <3>2
  <2> QED
    BY <2>1, <2>2
<1> QED
  BY <1>2, <1>4 DEF Agree, SafeStep

\* Founders are at home in the workspaces they founded.
LEMMA InitTenancy == Init => TenancyInv
<1> SUFFICES ASSUME Init PROVE TenancyInv
  OBVIOUS
<1>1. TypeOK
  <2>1. users \in [Users -> UserRow \cup {NoUser}]
    BY FirstAssumption DEF Init, UserRow, Roles
  <2>2. sessions \in [Sessions -> SessionRow \cup {NoSession}]
    BY FirstAssumption, Ranges DEF Init, SessionRow
  <2>3. last \in [user : 0 .. MaxUser, session : 0 .. MaxSession]
    BY BoundsAssumption DEF Init
  <2> QED
    BY <2>1, <2>2, <2>3, IdleHome DEF Init, TypeOK
<1>2. PICK home \in Homes : \A u \in Accounts : home[u] = u
  <2>1. [u \in Users |-> IF u \in Accounts THEN u ELSE Nobody] \in Homes
    BY DEF Homes
  <2> QED
    BY <2>1, Ranges
<1>3. last.user = NumAccounts /\ last.session = NumAccounts
  BY DEF Init
<1>4. \A u \in Accounts : AtHome(home, u, u)
  BY <1>2, <1>3, Ranges DEF AtHome, Accounts
<1>5. ASSUME NEW u \in Users, users[u] # NoUser
      PROVE  AtHome(home, u, users[u].acct)
  BY <1>4, <1>5 DEF Init
<1>6. ASSUME NEW s \in Sessions, sessions[s] # NoSession
      PROVE  s <= last.session /\ AtHome(home, sessions[s].user, sessions[s].acct)
  <2>1. s \in Accounts /\ sessions[s].user = s /\ sessions[s].acct = s
    BY <1>6 DEF Init
  <2> QED
    BY <1>3, <1>4, <2>1, Ranges DEF Accounts
<1>7. \A r \in Requests : RequestHome(home, req[r])
  BY IdleHome DEF Init
<1> QED
  BY <1>1, <1>5, <1>6, <1>7 DEF TenancyInv, Agree, RowsHome

\* The invariant is inductive.
LEMMA NextTenancy == TenancyInv /\ [Next]_vars => TenancyInv'
<1> SUFFICES ASSUME TenancyInv, [Next]_vars PROVE TenancyInv'
  OBVIOUS
<1>1. PICK home \in Homes : Agree(home)
  BY DEF TenancyInv
<1>2. TypeOK
  BY DEF TenancyInv
<1>3. CASE UNCHANGED vars
  <2>1. TypeOK'
    BY <1>2, <1>3 DEF TypeOK, vars
  <2>2. Agree(home)'
    BY <1>1, <1>3 DEF Agree, RowsHome, RequestHome, AtHome, Own, vars
  <2> QED
    BY <2>1, <2>2 DEF TenancyInv
<1>4. CASE ForgetActivities
  <2>1. TypeOK'
    BY <1>2, <1>4 DEF TypeOK, ForgetActivities
  <2>2. Agree(home)'
    BY <1>1, <1>4 DEF Agree, RowsHome, RequestHome, AtHome, Own, ForgetActivities
  <2> QED
    BY <2>1, <2>2 DEF TenancyInv
<1>5. ASSUME NEW r \in Requests, Begin(r) \/ Step(r) \/ Abort(r)
      PROVE  TenancyInv'
  <2>1. PICK h2 \in Homes : SafeStep(r, home, h2)
    BY <1>1, <1>2, <1>5, RequestSafe
  <2>2. TypeOK' /\ Agree(h2)'
    BY <1>1, <1>2, <2>1, SafeStepTenancy
  <2> QED
    BY <2>2 DEF TenancyInv
<1> QED
  BY <1>3, <1>4, <1>5 DEF Next

\* Tables and requests keep their shape.
THEOREM TypeCorrect == Spec => []TypeOK
<1>1. TenancyInv => TypeOK
  BY DEF TenancyInv
<1> QED
  BY <1>1, InitTenancy, NextTenancy, PTL DEF Spec

\* A session's workspace agrees with its user's, also when the session was
\* opened after its user was deleted: resolve_session's check is redundant.
THEOREM SessionsAgree == Spec => []SessionTenantAgrees
<1>1. TenancyInv => SessionTenantAgrees
  BY DEF TenancyInv, Agree, RowsHome, AtHome, SessionTenantAgrees
<1> QED
  BY <1>1, InitTenancy, NextTenancy, PTL DEF Spec

\* No handler changes a member or a session of another workspace, although
\* revoke_user_sessions selects by user id alone.
THEOREM PowersEnd == Spec => PowersStayHome
<1> DEFINE A == \A r \in Requests : req'[r] # req[r] =>
       /\ \A u \in Users : users'[u] # users[u] =>
            /\ users[u] # NoUser => users[u].acct = req[r].acct
            /\ users'[u] # NoUser => users'[u].acct = req[r].acct
       /\ \A s \in Sessions : sessions'[s] # sessions[s] =>
            /\ sessions[s] # NoSession => sessions[s].acct = req[r].acct
            /\ sessions'[s] # NoSession => sessions'[s].acct = req[r].acct
<1>1. ASSUME TenancyInv, [Next]_vars PROVE [A]_vars
  <2>1. PICK home \in Homes : Agree(home)
    BY <1>1 DEF TenancyInv
  <2>2. TypeOK
    BY <1>1 DEF TenancyInv
  <2>3. CASE UNCHANGED vars
    BY <2>3
  <2>4. CASE ForgetActivities
    BY <2>4 DEF ForgetActivities
  <2>5. ASSUME NEW r \in Requests, Begin(r) \/ Step(r) \/ Abort(r)
        PROVE  A
    <3>1. PICK h2 \in Homes : SafeStep(r, home, h2)
      BY <2>1, <2>2, <2>5, RequestSafe
    <3>2. \A p \in Requests : req'[p] # req[p] => p = r
      BY <2>2, <3>1 DEF SafeStep, TypeOK
    <3>3. StaysIn(req[r].acct)
      BY <3>1 DEF SafeStep
    <3> QED
      BY <3>2, <3>3 DEF StaysIn
  <2> QED
    BY <1>1, <2>3, <2>4, <2>5 DEF Next
<1> QED
  BY <1>1, InitTenancy, NextTenancy, PTL DEF Spec, PowersStayHome

-----------------------------------------------------------------------------
(***************************************************************************)
(* What holds when at most one request of a workspace decides at a time:   *)
(* the checks the handlers make then hold until they act on them.  The     *)
(* requests of other workspaces interleave freely, and so do the guards    *)
(* and the lookups of the same one; any of them may stop anywhere.         *)
(***************************************************************************)

(* What a request has learned of its workspace and has yet to act on.        *)

\* Losing the target leaves the workspace an active administrator.
Replaceable(q) == q.target \in ActiveAdmins(q.acct) => OtherAdmins(q) # {}

\* So does the update that is about to be written.
KeepsAdmin(q) ==
  \/ Replaceable(q)
  \/ LET row == Updated(users[q.target], q.op, q.form)
     IN  row.role = "admin" /\ row.active

\* No session of the target that must end escapes the list.
AllListed(q) == \A s \in Owned(q.target) : Live(s) => s \in q.todo \cup Spared(q)

Knows(q) ==
  /\ q.pc = "count" => /\ q.op \in {"update", "set_active", "destroy"}
                       /\ q.wasAdmin <=> q.target \in ActiveAdmins(q.acct)
  /\ q.pc = "write" => q.op # "destroy" /\ KeepsAdmin(q)
  /\ q.pc = "history" => q.op = "destroy" /\ Replaceable(q)
  /\ q.pc \in {"select", "each"} /\ q.op = "destroy" => Replaceable(q)
  /\ q.pc = "each" /\ q.op \notin {"destroy", "logout"} => AllListed(q)

DisciplineInv ==
  /\ TenancyInv
  /\ ~ Racing
  /\ \A r \in Requests : Knows(req[r])
  /\ LastAdminStays

-----------------------------------------------------------------------------
(* What a request has learned stays true until it acts.                      *)

\* Reading and logging change nothing a request has learned.
LEMMA KnowsQuiet ==
  ASSUME UNCHANGED <<users, sessions>>, NEW q, Knows(q)
  PROVE  Knows(q)'
<1>1. users' = users /\ sessions' = sessions
  OBVIOUS
<1>2. /\ \A a : Within(a)' = Within(a) /\ ActiveAdmins(a)' = ActiveAdmins(a)
      /\ Owned(q.target)' = Owned(q.target) /\ \A s : Live(s)' <=> Live(s)
  BY <1>1 DEF Within, ActiveAdmins, Owned, Live
<1>3. /\ Replaceable(q)' <=> Replaceable(q)
      /\ KeepsAdmin(q) => KeepsAdmin(q)'
      /\ AllListed(q) => AllListed(q)'
  BY <1>1, <1>2 DEF Replaceable, OtherAdmins, KeepsAdmin, AllListed
<1> QED
  BY <1>2, <1>3 DEF Knows

\* A step about workspace a leaves the members of workspace b as they were.
LEMMA FarRows ==
  ASSUME NEW a, NEW b, a # b, StaysIn(a)
  PROVE  /\ Within(b)' = Within(b) /\ ActiveAdmins(b)' = ActiveAdmins(b)
         /\ \A u \in Within(b) : users'[u] = users[u]
<1>1. \A u \in Users : users'[u] # users[u] => u \notin Within(b) /\ u \notin Within(b)'
  BY DEF StaysIn, Within
<1>2. \A u \in Users : users'[u] = users[u] => (u \in Within(b) <=> u \in Within(b)')
  BY DEF Within
<1>3. Within(b) \subseteq Users /\ Within(b)' \subseteq Users
  BY DEF Within
<1>4. Within(b)' = Within(b) /\ \A u \in Within(b) : users'[u] = users[u]
  BY <1>1, <1>2, <1>3
<1> QED
  BY <1>4 DEF ActiveAdmins

\* So what a request of workspace b knows survives it.
LEMMA KnowsFar ==
  ASSUME NEW home, NEW h2, RowsHome(home), RowsHome(h2)', Keeps(home, h2),
         last'.user \in Nat, last.user \in Nat,
         NEW a, StaysIn(a),
         NEW q, RequestHome(home, q), q.acct # a, Knows(q)
  PROVE  Knows(q)'
<1>1. /\ Within(q.acct)' = Within(q.acct) /\ ActiveAdmins(q.acct)' = ActiveAdmins(q.acct)
      /\ \A u \in Within(q.acct) : users'[u] = users[u]
  BY FarRows
<1>3. Replaceable(q)' <=> Replaceable(q)
  BY <1>1 DEF Replaceable, OtherAdmins
<1>4. KeepsAdmin(q) => KeepsAdmin(q)'
  <2>1. CASE q.target \in ActiveAdmins(q.acct)
    <3>1. users'[q.target] = users[q.target]
      BY <1>1, <2>1 DEF ActiveAdmins
    <3> QED
      BY <1>3, <3>1 DEF KeepsAdmin
  <2>2. CASE q.target \notin ActiveAdmins(q.acct)
    BY <1>1, <2>2 DEF KeepsAdmin, Replaceable
  <2> QED
    BY <2>1, <2>2
<1>5. ASSUME q.pc \in {"select", "each"}
      PROVE  AllListed(q) => AllListed(q)'
  <2>1. AtHome(home, q.target, q.acct)
    BY <1>5 DEF RequestHome
  <2>2. AtHome(h2, q.target, q.acct)'
    BY <2>1 DEF AtHome, Keeps, Users
  <2>4. ASSUME NEW s \in Owned(q.target)'
        PROVE  sessions'[s] = sessions[s]
    <3>1. s \in Sessions /\ sessions'[s] # NoSession /\ sessions'[s].user = q.target
      BY <2>4 DEF Owned
    <3>2. (AtHome(h2, sessions[s].user, sessions[s].acct))'
      BY <3>1 DEF RowsHome
    <3>3. sessions'[s].acct = q.acct
      BY <2>2, <3>1, <3>2 DEF AtHome
    <3> QED
      BY <3>1, <3>3 DEF StaysIn
  <2>5. \A s \in Owned(q.target)' : s \in Owned(q.target) /\ (Live(s)' <=> Live(s))
    BY <2>4 DEF Owned, Live
  <2> QED
    BY <2>5 DEF AllListed
<1> QED
  BY <1>1, <1>3, <1>4, <1>5 DEF Knows

-----------------------------------------------------------------------------
(* What a request learns by a step of its own.                               *)

Learns(r) == \E q : Knows(q)' /\ req' = [req EXCEPT ![r] = q]

\* An empty slot knows nothing.
LEMMA FinishLearns == ASSUME NEW r, Finish(r) PROVE Learns(r)
<1>1. PICK q : q = Idle
  OBVIOUS
<1>2. Knows(q)'
  BY <1>1 DEF Idle, Knows
<1> QED
  BY <1>1, <1>2 DEF Learns, Finish

\* Requests that arrive.
LEMMA BeginLearns == ASSUME NEW r, Begin(r) PROVE Learns(r)
<1>1. ASSUME NEW s, NEW op, NEW target, NEW form, Arrive(r, s, op, target, form)
      PROVE  Learns(r)
  <2>1. PICK q : q = [Idle EXCEPT
          !.pc = "guard", !.op = op, !.sess = s, !.actor = sessions[s].user,
          !.acct = sessions[s].acct, !.form = form,
          !.target = IF op \in OwnOps THEN sessions[s].user ELSE target]
    OBVIOUS
  <2>2. req' = [req EXCEPT ![r] = q]
    BY <1>1, <2>1 DEF Arrive
  <2>3. q.pc = "guard"
    BY <2>1 DEF Idle
  <2>4. Knows(q)'
    BY <2>3 DEF Knows
  <2> QED
    BY <2>2, <2>4 DEF Learns
<1>2. CASE ArriveLogin(r)
  <2>1. PICK a \in Accounts, n \in Names, p \in Passwords :
          req' = [req EXCEPT ![r] = [Idle EXCEPT !.pc = "lookup", !.op = "login", !.acct = a,
                                       !.form = [Blank EXCEPT !.name = n, !.pw = p]]]
    BY <1>2 DEF ArriveLogin
  <2>2. PICK q : q = [Idle EXCEPT !.pc = "lookup", !.op = "login", !.acct = a,
                        !.form = [Blank EXCEPT !.name = n, !.pw = p]]
    OBVIOUS
  <2>3. q.pc = "lookup"
    BY <2>2 DEF Idle
  <2>4. Knows(q)'
    BY <2>3 DEF Knows
  <2> QED
    BY <2>1, <2>2, <2>4 DEF Learns
<1> QED
  BY <1>1, <1>2 DEF Begin, ArriveCreate, ArriveUpdate, ArriveSetActive, ArriveResetPassword,
     ArriveAbout, ArriveOwn, ArriveChangePassword

\* The guard has read the row of the actor, who is the target of one's own operations.
LEMMA IdentifyLearns ==
  ASSUME TypeOK, NEW home, Agree(home), NEW r \in Requests, Identify(r)
  PROVE  Learns(r)
<1>0. PICK q : q = [req[r] EXCEPT !.pc = FirstPoint(req[r].op),
                   !.todo = IF req[r].op = "logout" THEN {req[r].sess} ELSE {}]
  OBVIOUS
<1>1. req[r] \in Request /\ RequestHome(home, req[r]) /\ req[r].pc = "guard"
  BY DEF TypeOK, Agree, Identify
<1>2. CASE Finish(r)
  BY <1>2, FinishLearns
<1>3. CASE /\ req' = [req EXCEPT ![r] = q] /\ UNCHANGED tables
  <2>1. q.pc = FirstPoint(req[r].op) /\ q.op = req[r].op
    BY <1>0, <1>1 DEF Request
  <2>5. FirstPoint(req[r].op) \in {"taken", "select", "each", "log", "find"}
    BY DEF FirstPoint
  <2>6. /\ FirstPoint(req[r].op) = "each" => req[r].op = "logout"
        /\ FirstPoint(req[r].op) = "select" => req[r].op = "revoke_others"
    BY DEF FirstPoint
  <2>7. Knows(q)'
    BY <2>1, <2>5, <2>6 DEF Knows
  <2> QED
    BY <1>3, <2>7 DEF Learns
<1> QED
  BY <1>0, <1>2, <1>3 DEF Identify, TypeOK

\* username_taken: what it learns of the name is not needed here.
LEMMA TakenLearns ==
  ASSUME TypeOK, NEW r \in Requests, Taken(r)
  PROVE  Learns(r)
<1>0. PICK q : q = [req[r] EXCEPT !.pc = "insert"]
  OBVIOUS
<1>1. CASE Finish(r)
  BY <1>1, FinishLearns
<1>2. CASE req' = [req EXCEPT ![r] = q]
  <2>1. q.pc = "insert"
    BY <1>0 DEF TypeOK, Request
  <2>2. Knows(q)'
    BY <2>1 DEF Knows
  <2> QED
    BY <1>2, <2>2 DEF Learns
<1> QED
  BY <1>0, <1>1, <1>2 DEF Taken, GoTo, TypeOK

\* A row that the handler need not guard loses no administrator by its update.
LEMMA UnguardedUpdate ==
  ASSUME NEW row \in UserRow, NEW form \in Form, NEW op, ~ Guarded(op, row, form),
         row.role = "admin", row.active
  PROVE  Updated(row, op, form).role = "admin" /\ Updated(row, op, form).active
<1>1. CASE op = "update"
  BY <1>1 DEF Guarded, Updated, UserRow, Form
<1>2. CASE op = "set_active"
  BY <1>2 DEF Guarded, Updated, UserRow, Form
<1>3. CASE op \notin {"update", "set_active"}
  BY <1>3 DEF Updated, UserRow
<1> QED
  BY <1>1, <1>2, <1>3

\* find: whether the member is an active administrator of this workspace.
LEMMA FindLearns ==
  ASSUME TypeOK, NEW home, Agree(home), NEW r \in Requests, Find(r)
  PROVE  Learns(r)
<1> DEFINE row == users[req[r].target]
<1>0. PICK q : q = [req[r] EXCEPT !.pc = AfterFind(req[r].op, row, req[r].form),
                      !.wasAdmin = row.role = "admin" /\ row.active,
                      !.revoke = SignsOut(req[r].op, row, req[r].form)]
  OBVIOUS
<1>1. req[r] \in Request /\ RequestHome(home, req[r]) /\ req[r].pc = "find"
  BY DEF TypeOK, Agree, Find
<1>2. CASE Finish(r)
  BY <1>2, FinishLearns
<1>3. CASE /\ req' = [req EXCEPT ![r] = q] /\ UNCHANGED tables
           /\ Findable(req[r].target, req[r].acct)
  <2>1. req[r].target \in Users
    BY <1>1 DEF RequestHome
  <2>2. row \in UserRow /\ row # NoUser /\ row.acct = req[r].acct
    BY <1>3, <2>1 DEF Findable, TypeOK
  <2>3. req[r].target \in ActiveAdmins(req[r].acct) <=> row.role = "admin" /\ row.active
    BY <2>1, <2>2 DEF ActiveAdmins, Within
  <2>4. /\ q.pc = AfterFind(req[r].op, row, req[r].form)
        /\ q.wasAdmin = (row.role = "admin" /\ row.active)
        /\ q.op = req[r].op /\ q.acct = req[r].acct /\ q.target = req[r].target
        /\ q.form = req[r].form
    BY <1>0, <1>1 DEF Request
  <2>5. req[r].form \in Form
    BY <1>1 DEF Request
  <2>6. users' = users
    BY <1>3 DEF tables
  <2>7. ActiveAdmins(q.acct)' = ActiveAdmins(q.acct)
    BY <2>6 DEF ActiveAdmins, Within
  <2>8. CASE Guarded(req[r].op, row, req[r].form)
    <3>1. q.pc = "count" /\ q.op \in {"update", "set_active", "destroy"}
      BY <2>4, <2>8 DEF AfterFind, Guarded
    <3>2. q.wasAdmin <=> q.target \in ActiveAdmins(q.acct)'
      BY <2>3, <2>4, <2>7
    <3> QED
      BY <1>3, <3>1, <3>2 DEF Knows, Learns
  <2>9. CASE ~ Guarded(req[r].op, row, req[r].form)
    <3>1. q.op # "destroy" /\ q.pc \in {"select", "write"}
      BY <2>4, <2>9 DEF AfterFind, Guarded
    <3>2. q.target \in ActiveAdmins(q.acct)' =>
            LET new == Updated(users[q.target], q.op, q.form)
            IN  new.role = "admin" /\ new.active
      BY <2>2, <2>3, <2>4, <2>5, <2>7, <2>9, UnguardedUpdate
    <3>3. KeepsAdmin(q)'
      BY <2>6, <3>2 DEF KeepsAdmin, Replaceable
    <3> QED
      BY <1>3, <3>1, <3>3 DEF Knows, Learns
  <2> QED
    BY <2>8, <2>9
<1> QED
  BY <1>0, <1>2, <1>3 DEF Find, TypeOK

\* A new password makes nobody less of an administrator.
LEMMA FindSelfLearns ==
  ASSUME TypeOK, NEW home, Agree(home), NEW r \in Requests, FindSelf(r)
  PROVE  Learns(r)
<1>0. PICK q : q = [req[r] EXCEPT !.pc = "write", !.revoke = TRUE]
  OBVIOUS
<1>1. req[r] \in Request /\ RequestHome(home, req[r]) /\ req[r].pc = "find"
      /\ req[r].op = "change_password"
  BY DEF TypeOK, Agree, FindSelf
<1>2. CASE Finish(r)
  BY <1>2, FinishLearns
<1>3. CASE req' = [req EXCEPT ![r] = q] /\ UNCHANGED tables
  <2>1. /\ q.pc = "write" /\ q.op = "change_password" /\ q.acct = req[r].acct
        /\ q.target = req[r].target /\ q.form = req[r].form
    BY <1>0, <1>1 DEF Request
  <2>2. q.form \in Form
    BY <1>1, <2>1 DEF Request
  <2>3. users' = users /\ ActiveAdmins(q.acct)' = ActiveAdmins(q.acct)
    BY <1>3 DEF tables, ActiveAdmins, Within
  <2>4. ASSUME q.target \in ActiveAdmins(q.acct)
        PROVE  /\ Updated(users[q.target], q.op, q.form).role = "admin"
               /\ Updated(users[q.target], q.op, q.form).active
    <3>1. /\ users[q.target] \in UserRow /\ users[q.target].role = "admin"
          /\ users[q.target].active
      BY <2>4 DEF ActiveAdmins, Within, TypeOK
    <3> QED
      BY <2>1, <2>2, <3>1, UnguardedUpdate DEF Guarded
  <2>5. KeepsAdmin(q)'
    BY <2>3, <2>4 DEF KeepsAdmin, Replaceable
  <2> QED
    BY <1>3, <2>1, <2>5 DEF Knows, Learns
<1> QED
  BY <1>0, <1>2, <1>3 DEF FindSelf, TypeOK

\* login: the name and the password are read and not yet acted on, which no
\* check depends upon.
LEMMA LookUpLearns ==
  ASSUME TypeOK, NEW r \in Requests, LookUp(r)
  PROVE  Learns(r)
<1>1. CASE Finish(r)
  BY <1>1, FinishLearns
<1>2. ASSUME NEW u, req' = [req EXCEPT ![r].pc = "mint", ![r].actor = u, ![r].target = u]
      PROVE  Learns(r)
  <2>1. PICK q : q = [req[r] EXCEPT !.pc = "mint", !.actor = u, !.target = u]
    OBVIOUS
  <2>2. q.pc = "mint"
    BY <2>1 DEF TypeOK, Request
  <2>3. Knows(q)'
    BY <2>2 DEF Knows
  <2>4. req' = [req EXCEPT ![r] = q]
    BY <1>2, <2>1 DEF TypeOK
  <2> QED
    BY <2>3, <2>4 DEF Learns
<1> QED
  BY <1>1, <1>2 DEF LookUp

\* guard_admin_change: the others are counted, or do not matter.
LEMMA GuardLearns ==
  ASSUME TypeOK, NEW r \in Requests, Knows(req[r]), GuardAdminChange(r)
  PROVE  Learns(r)
<1>1. req[r] \in Request /\ req[r].pc = "count" /\ UNCHANGED tables
  BY DEF TypeOK, GuardAdminChange
<1>2. CASE Finish(r)
  BY <1>2, FinishLearns
<1>3. ASSUME NEW pc \in {"history", "write"}, pc = "history" <=> req[r].op = "destroy",
             GoTo(r, pc), ~ (req[r].wasAdmin /\ OtherAdmins(req[r]) = {})
      PROVE  Learns(r)
  <2>1. PICK q : q = [req[r] EXCEPT !.pc = pc]
    OBVIOUS
  <2>2. q.pc = pc /\ q.op = req[r].op /\ q.acct = req[r].acct /\ q.target = req[r].target
    BY <1>1, <2>1 DEF Request
  <2>3. Replaceable(req[r])
    BY <1>1, <1>3 DEF Knows, Replaceable
  <2>4. Replaceable(q)'
    BY <1>1, <2>2, <2>3 DEF Replaceable, OtherAdmins, ActiveAdmins, Within, tables
  <2>5. Knows(q)'
    BY <1>3, <2>2, <2>4 DEF Knows, KeepsAdmin
  <2>6. req' = [req EXCEPT ![r] = q]
    BY <1>3, <2>1 DEF GoTo, TypeOK
  <2> QED
    BY <2>5, <2>6 DEF Learns
<1> QED
  BY <1>2, <1>3 DEF GuardAdminChange

\* destroy: the member still has a substitute.
LEMMA HistoryLearns ==
  ASSUME TypeOK, NEW r \in Requests, Knows(req[r]), CheckHistory(r)
  PROVE  Learns(r)
<1>1. req[r] \in Request /\ req[r].pc = "history" /\ UNCHANGED tables
  BY DEF TypeOK, CheckHistory
<1>2. CASE Finish(r)
  BY <1>2, FinishLearns
<1>3. CASE GoTo(r, "select")
  <2>1. PICK q : q = [req[r] EXCEPT !.pc = "select"]
    OBVIOUS
  <2>2. q.pc = "select" /\ q.op = req[r].op /\ q.acct = req[r].acct /\ q.target = req[r].target
    BY <1>1, <2>1 DEF Request
  <2>3. Replaceable(req[r])
    BY <1>1 DEF Knows
  <2>4. Replaceable(q)'
    BY <1>1, <2>2, <2>3 DEF Replaceable, OtherAdmins, ActiveAdmins, Within, tables
  <2>5. Knows(q)'
    BY <1>1, <2>2, <2>4 DEF Knows
  <2>6. req' = [req EXCEPT ![r] = q]
    BY <1>3, <2>1 DEF GoTo, TypeOK
  <2> QED
    BY <2>5, <2>6 DEF Learns
<1> QED
  BY <1>2, <1>3 DEF CheckHistory

\* A handler that writes deletes nobody.
LEMMA WriteLearns ==
  ASSUME TypeOK, NEW r \in Requests, Knows(req[r]), Write(r)
  PROVE  Learns(r)
<1>1. req[r] \in Request /\ req[r].pc = "write"
  BY DEF TypeOK, Write
<1>2. CASE Finish(r)
  BY <1>2, FinishLearns
<1>3. CASE GoTo(r, "select")
  <2>1. PICK q : q = [req[r] EXCEPT !.pc = "select"]
    OBVIOUS
  <2>2. q.pc = "select" /\ q.op = req[r].op
    BY <1>1, <2>1 DEF Request
  <2>3. Knows(q)'
    BY <1>1, <2>2 DEF Knows
  <2>4. req' = [req EXCEPT ![r] = q]
    BY <1>3, <2>1 DEF GoTo, TypeOK
  <2> QED
    BY <2>3, <2>4 DEF Learns
<1> QED
  BY <1>2, <1>3 DEF Write

\* revoke_user_sessions: whatever is live and not spared is on the list.
LEMMA SelectLearns ==
  ASSUME TypeOK, NEW r \in Requests, Knows(req[r]), SelectSessions(r)
  PROVE  Learns(r)
<1>1. req[r] \in Request /\ req[r].pc = "select" /\ UNCHANGED tables
  BY DEF TypeOK, SelectSessions
<1>2. CASE Finish(r)
  BY <1>2, FinishLearns
<1>3. CASE req' = [req EXCEPT ![r].pc = "each", ![r].todo = Selected(req[r])]
  <2>1. PICK q : q = [req[r] EXCEPT !.pc = "each", !.todo = Selected(req[r])]
    OBVIOUS
  <2>2. /\ q.pc = "each" /\ q.op = req[r].op /\ q.acct = req[r].acct
        /\ q.target = req[r].target /\ q.actor = req[r].actor /\ q.sess = req[r].sess
        /\ q.todo = Selected(req[r])
    BY <1>1, <2>1 DEF Request
  <2>3. Replaceable(req[r]) => Replaceable(q)'
    BY <1>1, <2>2 DEF Replaceable, OtherAdmins, ActiveAdmins, Within, tables
  <2>4. ASSUME q.op # "destroy"
        PROVE  AllListed(q)'
    <3>1. Owned(q.target)' = Owned(req[r].target) /\ \A s : Live(s)' <=> Live(s)
      BY <1>1, <2>2 DEF Owned, Live, tables
    <3>2. Spared(q)' = Spared(req[r])
      BY <2>2 DEF Spared
    <3>3. \A s \in Owned(req[r].target) : Live(s) => s \in q.todo \cup Spared(req[r])
      BY <2>2, <2>4 DEF Selected
    <3> QED
      BY <3>1, <3>2, <3>3 DEF AllListed
  <2>5. Knows(q)'
    BY <1>1, <2>2, <2>3, <2>4 DEF Knows
  <2>6. req' = [req EXCEPT ![r] = q]
    BY <1>3, <2>1 DEF TypeOK
  <2> QED
    BY <2>5, <2>6 DEF Learns
<1> QED
  BY <1>2, <1>3 DEF SelectSessions

\* A session taken off the list is live no more, and no other one becomes live.
LEMMA EndedDead ==
  ASSUME TypeOK, NEW s \in Sessions, NEW op,
         sessions' = [sessions EXCEPT ![s] = Ended(@, op)]
  PROVE  /\ ~ Live(s)'
         /\ \A z \in Sessions : Live(z)' => Live(z) /\ sessions'[z] = sessions[z]
<1>1. sessions'[s] = Ended(sessions[s], op)
  BY DEF TypeOK
<1>2. sessions'[s] # NoSession => sessions'[s].revoked
  BY <1>1 DEF Ended, TypeOK, SessionRow
<1>3. \A z \in Sessions : z # s => sessions'[z] = sessions[z]
  BY DEF TypeOK
<1> QED
  BY <1>2, <1>3 DEF Live

LEMMA EndSessionLearns ==
  ASSUME TypeOK, NEW r \in Requests, Knows(req[r]), EndSession(r)
  PROVE  Learns(r)
<1>1. req[r] \in Request /\ req[r].pc = "each" /\ UNCHANGED <<users, last, logged>>
  BY DEF TypeOK, EndSession
<1>2. CASE Finish(r)
  BY <1>2, FinishLearns
<1>3. ASSUME NEW s \in req[r].todo, req' = [req EXCEPT ![r].todo = @ \ {s}],
             sessions' = [sessions EXCEPT ![s] = Ended(@, req[r].op)]
      PROVE  Learns(r)
  <2>1. PICK q : q = [req[r] EXCEPT !.todo = @ \ {s}]
    OBVIOUS
  <2>2. /\ q.pc = "each" /\ q.op = req[r].op /\ q.acct = req[r].acct
        /\ q.target = req[r].target /\ q.actor = req[r].actor /\ q.sess = req[r].sess
        /\ q.todo = req[r].todo \ {s}
    BY <1>1, <2>1 DEF Request
  <2>3. Replaceable(req[r]) => Replaceable(q)'
    BY <1>1, <2>2 DEF Replaceable, OtherAdmins, ActiveAdmins, Within
  <2>4. AllListed(req[r]) => AllListed(q)'
    <3>1. s \in Sessions
      BY <1>1, <1>3 DEF Request
    <3>2. Spared(q)' = Spared(req[r])
      BY <2>2 DEF Spared
    <3>3. \A z \in Owned(q.target)' : Live(z)' => z \in Owned(req[r].target) /\ Live(z) /\ z # s
      BY <1>3, <2>2, <3>1, EndedDead DEF Owned
    <3> QED
      BY <2>2, <3>2, <3>3 DEF AllListed
  <2>5. Knows(q)'
    BY <1>1, <2>2, <2>3, <2>4 DEF Knows
  <2>6. req' = [req EXCEPT ![r] = q]
    BY <1>3, <2>1 DEF TypeOK
  <2> QED
    BY <2>5, <2>6 DEF Learns
<1> QED
  BY <1>2, <1>3 DEF EndSession

\* Every way a request can move.
LEMMA RequestLearns ==
  ASSUME TypeOK, NEW home, Agree(home), NEW r \in Requests, Knows(req[r]),
         Begin(r) \/ Step(r) \/ Abort(r)
  PROVE  Learns(r)
<1>1. CASE Begin(r)
  BY <1>1, BeginLearns
<1>2. CASE InsertUser(r) \/ DeleteUser(r) \/ Mint(r) \/ LogActivity(r) \/ Abort(r)
  BY <1>2, FinishLearns DEF InsertUser, DeleteUser, Mint, LogActivity, Abort
<1> QED
  BY <1>1, <1>2, IdentifyLearns, TakenLearns, FindLearns, GuardLearns, WriteLearns,
     HistoryLearns, SelectLearns, EndSessionLearns, FindSelfLearns, LookUpLearns DEF Step

-----------------------------------------------------------------------------
(* What a step leaves to the other requests.                                 *)

\* Only requests that are deciding change a table.
LEMMA QuietOrDeciding ==
  ASSUME NEW r \in Requests, Begin(r) \/ Step(r) \/ Abort(r)
  PROVE  UNCHANGED tables \/ Deciding(r)
<1>1. CASE Begin(r)
  BY <1>1 DEF Begin, ArriveLogin, ArriveCreate, ArriveUpdate, ArriveSetActive,
     ArriveResetPassword, ArriveAbout, ArriveOwn, ArriveChangePassword, Arrive
<1>2. CASE Step(r)
  BY <1>2 DEF Step, Deciding, Identify, Taken, InsertUser, Find, GuardAdminChange, Write,
     CheckHistory, SelectSessions, EndSession, DeleteUser, FindSelf, LookUp, Mint, LogActivity
<1>3. CASE Abort(r)
  BY <1>3 DEF Abort
<1> QED
  BY <1>1, <1>2, <1>3

\* No other request of the workspace is deciding: what the others know stays true.
LEMMA OthersKnow ==
  ASSUME TypeOK, NEW home \in Homes, NEW h2 \in Homes, Agree(home), NEW r \in Requests,
         Begin(r) \/ Step(r) \/ Abort(r), SafeStep(r, home, h2), ~ Racing, Knows(req[r]),
         NEW p \in Requests, p # r, Knows(req[p])
  PROVE  Knows(req[p])'
<1>1. PICK q : q = req[p]
  OBVIOUS
<1>2. req'[p] = q
  BY <1>1 DEF SafeStep, TypeOK
<1>3. Knows(q) /\ RequestHome(home, q)
  BY <1>1 DEF Agree
<1>4. CASE UNCHANGED tables
  <2>1. UNCHANGED <<users, sessions>>
    BY <1>4 DEF tables
  <2>2. Knows(q)'
    BY <1>3, <2>1, KnowsQuiet
  <2> QED
    BY <1>2, <2>2
<1>5. CASE Deciding(r) /\ Deciding(p)
  <2>1. q.acct # req[r].acct
    BY <1>1, <1>5 DEF Racing
  <2>3. last.user \in Nat /\ last'.user \in Nat
    BY Ranges DEF TypeOK, SafeStep, TablesOK
  <2>4. RowsHome(home) /\ RowsHome(h2)' /\ Keeps(home, h2) /\ StaysIn(req[r].acct)
    BY DEF Agree, SafeStep
  <2>5. Knows(q)'
    BY <1>3, <2>1, <2>3, <2>4, KnowsFar
  <2> QED
    BY <1>2, <2>5
<1>6. CASE ~ Deciding(p)
  <2>1. Knows(q)'
    BY <1>1, <1>6 DEF Deciding, Knows
  <2> QED
    BY <1>2, <2>1
<1> QED
  BY <1>4, <1>5, <1>6, QuietOrDeciding

-----------------------------------------------------------------------------
(* What a step leaves of the order in its workspace.                         *)

\* The steps that change a row of users; all others leave the table alone.
LEMMA RowSteps ==
  ASSUME NEW r \in Requests, Begin(r) \/ Step(r) \/ Abort(r)
  PROVE  InsertUser(r) \/ Write(r) \/ DeleteUser(r) \/ UNCHANGED users
<1>1. CASE Begin(r)
  BY <1>1 DEF Begin, ArriveLogin, ArriveCreate, ArriveUpdate, ArriveSetActive,
     ArriveResetPassword, ArriveAbout, ArriveOwn, ArriveChangePassword, Arrive, tables
<1>2. CASE Step(r)
  BY <1>2 DEF Step, Identify, Taken, Find, GuardAdminChange, CheckHistory, SelectSessions,
     EndSession, FindSelf, LookUp, Mint, LogActivity, tables
<1>3. CASE Abort(r)
  BY <1>3 DEF Abort, tables
<1> QED
  BY <1>1, <1>2, <1>3

\* A change of one row leaves the other administrators what they are.
LEMMA OtherRows ==
  ASSUME TypeOK, NEW u \in Users, NEW row, users' = [users EXCEPT ![u] = row], NEW a
  PROVE  \A v \in Users \ {u} :
           /\ users'[v] = users[v]
           /\ v \in ActiveAdmins(a)' <=> v \in ActiveAdmins(a)
<1>1. \A v \in Users \ {u} : users'[v] = users[v]
  BY DEF TypeOK
<1> QED
  BY <1>1 DEF ActiveAdmins, Within

\* A new member takes an id whose row is still empty.
LEMMA InsertFresh ==
  ASSUME TypeOK, NEW home, Agree(home), NEW r \in Requests, InsertUser(r)
  PROVE  NextUser \in Users /\ users[NextUser] = NoUser
<1>1. last.user \in Nat /\ last.user < MaxUser /\ NextUser = last.user + 1
  BY Ranges DEF TypeOK, InsertUser, NextUser
<1>2. NextUser \in Users /\ ~ (NextUser <= last.user)
  BY <1>1, Ranges DEF Users
<1> QED
  BY <1>2 DEF Agree, RowsHome, AtHome

LEMMA AdminStep ==
  ASSUME TypeOK, NEW home \in Homes, NEW h2 \in Homes, Agree(home), NEW r \in Requests,
         Begin(r) \/ Step(r) \/ Abort(r), SafeStep(r, home, h2), Knows(req[r]),
         LastAdminStays
  PROVE  LastAdminStays'
<1>1. SUFFICES ASSUME NEW a \in Accounts PROVE ActiveAdmins(a)' # {}
  BY DEF LastAdminStays
<1>2. ActiveAdmins(a) # {} /\ ActiveAdmins(a) \subseteq Users
  BY DEF LastAdminStays, ActiveAdmins, Within
<1>3. CASE a # req[r].acct
  BY <1>2, <1>3, FarRows DEF SafeStep
<1>4. CASE UNCHANGED users
  BY <1>2, <1>4 DEF ActiveAdmins, Within
<1>5. CASE InsertUser(r)
  <2>1. NextUser \notin ActiveAdmins(a)
    BY <1>5, InsertFresh DEF ActiveAdmins, Within
  <2> QED
    BY <1>2, <1>5, <2>1, InsertFresh, OtherRows DEF InsertUser
<1>6. ASSUME a = req[r].acct, req[r].target \in Users, NEW row,
             users' = [users EXCEPT ![req[r].target] = row], Replaceable(req[r])
      PROVE  ActiveAdmins(a)' # {}
  <2>1. PICK v \in ActiveAdmins(a) : v # req[r].target
    BY <1>2, <1>6 DEF Replaceable, OtherAdmins
  <2> QED
    BY <1>2, <1>6, <2>1, OtherRows
<1>7. req[r].pc \in {"write", "each"} => req[r].target \in Users
  BY DEF Agree, RequestHome, AtHome
<1>8. CASE a = req[r].acct /\ Write(r)
  <2> DEFINE u == req[r].target
             row == Updated(users[u], req[r].op, req[r].form)
  <2>1. u \in Users /\ KeepsAdmin(req[r])
    BY <1>7, <1>8 DEF Write, Knows
  <2>2. users' = [users EXCEPT ![u] = IF users[u] = NoUser THEN users[u] ELSE row]
    BY <1>8, <2>1 DEF Write, TypeOK
  <2>3. CASE Replaceable(req[r])
    BY <1>6, <1>8, <2>1, <2>2, <2>3
  <2>4. CASE u \in ActiveAdmins(a) /\ row.role = "admin" /\ row.active
    <3>1. users[u] \in UserRow /\ users[u] # NoUser /\ users[u].acct = a
      BY <2>1, <2>4 DEF ActiveAdmins, Within, TypeOK
    <3>2. req[r].form \in Form
      BY DEF TypeOK, Request
    <3>3. row # NoUser /\ row.acct = a
      BY <3>1, <3>2, UpdatedType, RowTypes
    <3>4. users'[u] = row
      BY <2>1, <2>2, <3>1 DEF TypeOK
    <3> HIDE DEF row
    <3> QED
      BY <2>1, <2>4, <3>3, <3>4 DEF ActiveAdmins, Within
  <2> QED
    BY <1>8, <2>1, <2>3, <2>4 DEF KeepsAdmin, Replaceable
<1>9. CASE a = req[r].acct /\ DeleteUser(r)
  <2>1. Replaceable(req[r]) /\ req[r].target \in Users
    BY <1>7, <1>9 DEF DeleteUser, Knows
  <2> QED
    BY <1>6, <1>9, <2>1 DEF DeleteUser
<1> QED
  BY <1>3, <1>4, <1>5, <1>8, <1>9, RowSteps

-----------------------------------------------------------------------------
(* Every step together.                                                      *)

\* Founders administer the workspaces they founded.
LEMMA InitDiscipline == Init => DisciplineInv
<1> SUFFICES ASSUME Init PROVE DisciplineInv
  OBVIOUS
<1>1. ~ Racing /\ \A r \in Requests : Knows(req[r])
  BY DEF Init, Idle, Racing, Deciding, Knows
<1>2. ASSUME NEW a \in Accounts
      PROVE  a \in ActiveAdmins(a)
  <2>1. a \in Users
    BY Ranges
  <2>2. users[a] = [acct |-> a, name |-> FirstName, role |-> "admin", active |-> TRUE,
                    pw |-> FirstPassword]
    BY <2>1 DEF Init
  <2>3. users[a] \in UserRow
    BY <2>2, FirstAssumption DEF UserRow, Roles
  <2> QED
    BY <2>1, <2>2, <2>3, RowTypes DEF ActiveAdmins, Within
<1>3. LastAdminStays
  BY <1>2 DEF LastAdminStays
<1> QED
  BY <1>1, <1>3, InitTenancy DEF DisciplineInv

\* The invariant is inductive.
LEMMA NextDiscipline == DisciplineInv /\ [Next /\ Disciplined]_vars => DisciplineInv'
<1> SUFFICES ASSUME DisciplineInv, [Next /\ Disciplined]_vars PROVE DisciplineInv'
  OBVIOUS
<1>1. PICK home \in Homes : Agree(home)
  BY DEF DisciplineInv, TenancyInv
<1>2. TypeOK /\ ~ Racing /\ (\A r \in Requests : Knows(req[r])) /\ LastAdminStays
  BY DEF DisciplineInv, TenancyInv
<1>3. TenancyInv'
  BY NextTenancy DEF DisciplineInv
<1>4. ~ Racing'
  BY <1>2 DEF Disciplined, Racing, Deciding, vars
<1>5. ASSUME UNCHANGED <<users, sessions, req>>
      PROVE  (\A r \in Requests : Knows(req[r])') /\ LastAdminStays'
  <2>1. ASSUME NEW r \in Requests PROVE Knows(req[r])'
    <3>1. PICK q : q = req[r]
      OBVIOUS
    <3>2. Knows(q)'
      BY <1>2, <1>5, <3>1, KnowsQuiet
    <3>3. req'[r] = q
      BY <1>5, <3>1
    <3> QED
      BY <3>2, <3>3
  <2>2. LastAdminStays'
    BY <1>2, <1>5 DEF LastAdminStays, ActiveAdmins, Within
  <2> QED
    BY <2>1, <2>2
<1>6. ASSUME NEW r \in Requests, Begin(r) \/ Step(r) \/ Abort(r)
      PROVE  (\A p \in Requests : Knows(req[p])') /\ LastAdminStays'
  <2>1. PICK h2 \in Homes : SafeStep(r, home, h2)
    BY <1>1, <1>2, <1>6, RequestSafe
  <2>2. ASSUME NEW p \in Requests PROVE Knows(req[p])'
    <3>1. CASE p = r
      <4>1. PICK q : Knows(q)' /\ req' = [req EXCEPT ![r] = q]
        BY <1>1, <1>2, <1>6, RequestLearns DEF Learns
      <4>2. req'[p] = q
        BY <1>2, <3>1, <4>1 DEF TypeOK
      <4> QED
        BY <4>1, <4>2
    <3>2. CASE p # r
      BY <1>1, <1>2, <1>6, <2>1, <3>2, OthersKnow
    <3> QED
      BY <3>1, <3>2
  <2>3. LastAdminStays'
    BY <1>1, <1>2, <1>6, <2>1, AdminStep
  <2> QED
    BY <2>2, <2>3
<1>7. (\A r \in Requests : Knows(req[r])') /\ LastAdminStays'
  BY <1>5, <1>6 DEF Next, ForgetActivities, vars
<1> QED
  BY <1>3, <1>4, <1>7 DEF DisciplineInv

-----------------------------------------------------------------------------
(* The theorems.                                                             *)

\* guard_admin_change keeps its promise while the requests of a workspace
\* decide one at a time: the last active administrator is never demoted,
\* closed or deleted, although the count is some awaits old when the change
\* is written and an update writes role and state whether they changed or not.
THEOREM AdminsStay == DisciplinedSpec => []LastAdminStays
<1>1. DisciplineInv => LastAdminStays
  BY DEF DisciplineInv
<1> QED
  BY <1>1, InitDiscipline, NextDiscipline, PTL DEF DisciplinedSpec

\* When a handler that signs a member out is done, no session of that member
\* but the one it spares is live, let alone stale: the list it made of them
\* misses none, and every one of them is ended.
LEMMA SigningOutDone ==
  ASSUME TypeOK, NEW r \in Requests, Knows(req[r]), SelectSessions(r) \/ EndSession(r),
         req[r].op \in {"update", "set_active", "reset_password", "change_password"},
         req'[r].pc = "idle",
         NEW s \in Sessions \ Spared(req[r]), sessions'[s] # NoSession,
         sessions'[s].user = req[r].target
  PROVE  ~ Live(s)'
<1>1. req[r] \in Request
  BY DEF TypeOK
<1>2. CASE SelectSessions(r)
  <2>1. req' # [req EXCEPT ![r].pc = "each", ![r].todo = Selected(req[r])]
    <3>1. SUFFICES ASSUME req' = [req EXCEPT ![r].pc = "each", ![r].todo = Selected(req[r])]
                   PROVE  FALSE
      OBVIOUS
    <3>2. req'[r].pc = "each"
      BY <1>1, <3>1 DEF TypeOK, Request
    <3> QED
      BY <3>2
  <2>2. Selected(req[r]) = {} /\ UNCHANGED tables
    BY <1>2, <2>1 DEF SelectSessions
  <2>3. s \in Owned(req[r].target)
    BY <2>2 DEF Owned, tables
  <2>4. ~ Live(s)
    BY <2>2, <2>3 DEF Selected
  <2> QED
    BY <2>2, <2>4 DEF Live, tables
<1>3. CASE EndSession(r)
  <2>1. PICK z \in req[r].todo :
          /\ sessions' = [sessions EXCEPT ![z] = Ended(@, req[r].op)]
          /\ IF req[r].todo = {z} /\ req[r].op # "destroy"
             THEN Finish(r)
             ELSE req' = [req EXCEPT ![r].todo = @ \ {z}]
    BY <1>3 DEF EndSession
  <2>2. req[r].pc = "each" /\ AllListed(req[r]) /\ z \in Sessions
    BY <1>1, <1>3 DEF EndSession, Knows, Request
  <2>3. req' # [req EXCEPT ![r].todo = @ \ {z}]
    <3>1. SUFFICES ASSUME req' = [req EXCEPT ![r].todo = @ \ {z}] PROVE FALSE
      OBVIOUS
    <3>2. req'[r].pc = "each"
      BY <1>1, <2>2, <3>1 DEF TypeOK, Request
    <3> QED
      BY <3>2
  <2>4. req[r].todo = {z}
    BY <2>1, <2>3
  <2>5. ~ Live(z)' /\ (Live(s)' => Live(s) /\ sessions'[s] = sessions[s])
    BY <2>1, <2>2, EndedDead
  <2>6. Live(s) /\ sessions[s].user = req[r].target => s = z
    BY <2>2, <2>4 DEF AllListed, Owned, Live
  <2> QED
    BY <2>5, <2>6
<1> QED
  BY <1>2, <1>3

\* "Every other session dies with the old password", and a closed or demoted
\* member is "signed out everywhere".
THEOREM SignsOutAll == DisciplinedSpec => SignedOut
<1> DEFINE A == \A r \in Requests :
       LET q == req[r]
       IN  /\ q.op \in {"update", "set_active", "reset_password", "change_password"}
           /\ SelectSessions(r) \/ EndSession(r)
           /\ req'[r].pc = "idle"
           => \A s \in Sessions \ Spared(q) :
                sessions'[s] # NoSession /\ sessions'[s].user = q.target => ~ Stale(s)'
<1>1. ASSUME DisciplineInv PROVE A
  <2>1. TypeOK /\ \A r \in Requests : Knows(req[r])
    BY <1>1 DEF DisciplineInv, TenancyInv
  <2>2. \A s : Stale(s)' => Live(s)'
    BY DEF Stale
  <2> QED
    BY <2>1, <2>2, SigningOutDone
<1>2. DisciplineInv => [A]_vars
  BY <1>1
<1> QED
  BY <1>2, InitDiscipline, NextDiscipline, PTL DEF DisciplinedSpec, SignedOut

=============================================================================
