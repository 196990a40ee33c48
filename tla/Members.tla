------------------------------- MODULE Members -------------------------------
(***************************************************************************)
(* The members of every workspace and their sessions: the guard that turns *)
(* a session into a request's identity, the handlers of accounts           *)
(* administration, sign-in and sign-out, and the changes of one's own      *)
(* password.  As in Records a handler is a sequence of autocommit queries, *)
(* one action each, which others may interleave with and which may stop    *)
(* anywhere.                                                               *)
(*                                                                         *)
(* Left out: display names, second factors, accounts without a password,   *)
(* the sign-in throttle and the clock (sessions that expire only admit     *)
(* fewer requests), and requests refused before their first query.         *)
(***************************************************************************)
EXTENDS Naturals

CONSTANTS
  NumAccounts,  \* workspaces, each founded by the member of the same number
  Requests,     \* slots for requests being handled at the same time
  Names,        \* usernames
  Passwords,
  FirstName,    \* the name and the password every founder signed up with
  FirstPassword,
  Offered,      \* bound: the handlers that requests reach
  MaxUser,      \* bound: largest id the users table may assign
  MaxSession,   \* bound: largest id the sessions table may assign
  NoUser,       \* what a lookup of a missing member returns
  NoSession     \* what a lookup of a missing session returns

Accounts == 1 .. NumAccounts
Users    == 1 .. MaxUser
Sessions == 1 .. MaxSession
Nobody   == 0

Roles == {"admin", "member"}

UserRow == [acct : Accounts, name : Names, role : Roles, active : BOOLEAN, pw : Passwords]

\* pw is no column: it remembers which password the session was opened with.
SessionRow == [acct : Accounts, user : Users, revoked : BOOLEAN, pw : Passwords]

AdminOps == {"create", "update", "set_active", "reset_password", "revoke_sessions", "destroy"}
OwnOps   == {"change_password", "revoke_others", "logout", "log"}

ASSUME OfferedAssumption == Offered \subseteq AdminOps \cup OwnOps \cup {"login"}
ASSUME FirstAssumption == FirstName \in Names /\ FirstPassword \in Passwords
ASSUME BoundsAssumption ==
  /\ NumAccounts \in Nat /\ MaxUser \in Nat /\ MaxSession \in Nat
  /\ NumAccounts <= MaxUser /\ NumAccounts <= MaxSession
ASSUME NoUserAssumption == NoUser \notin UserRow
ASSUME NoSessionAssumption == NoSession \notin SessionRow

VARIABLES
  users,     \* users[u]: a row or NoUser
  sessions,  \* sessions[s]: a row or NoSession
  last,      \* last id each of the two tables assigned
  logged,    \* members some row of the activities table names as its author
  req        \* req[r]: what the request in slot r is and how far it got

vars == <<users, sessions, last, logged, req>>
tables == <<users, sessions, last, logged>>

-----------------------------------------------------------------------------
(* A request.  sess, acct, actor: its session and whose it is; target: the *)
(* member it is about; wasAdmin: find saw an active administrator; revoke: *)
(* sessions end after the write; todo: sessions selected and not yet ended.*)

Points == {"idle", "guard", "taken", "insert", "find", "count", "write", "history",
           "select", "each", "lookup", "mint", "log"}

Form == [name : Names, role : Roles, active : BOOLEAN, old : Passwords, pw : Passwords]

Request ==
  [pc : Points, op : AdminOps \cup OwnOps \cup {"login", "none"},
   sess : Sessions \cup {Nobody}, actor : Users \cup {Nobody}, acct : Accounts \cup {Nobody},
   target : Users \cup {Nobody}, form : Form, wasAdmin : BOOLEAN, revoke : BOOLEAN,
   todo : SUBSET Sessions]

\* The fields of a form its handler does not read.
Blank == [name |-> FirstName, role |-> "member", active |-> TRUE,
          old |-> FirstPassword, pw |-> FirstPassword]

Idle == [pc |-> "idle", op |-> "none", sess |-> Nobody, actor |-> Nobody, acct |-> Nobody,
         target |-> Nobody, form |-> Blank, wasAdmin |-> FALSE, revoke |-> FALSE, todo |-> {}]

Finish(r) == req' = [req EXCEPT ![r] = Idle]
GoTo(r, pc) == req' = [req EXCEPT ![r].pc = pc]

Live(s) == sessions[s] # NoSession /\ ~ sessions[s].revoked

\* Members of workspace a.
Within(a) == {u \in Users : users[u] # NoUser /\ users[u].acct = a}

ActiveAdmins(a) == {u \in Within(a) : users[u].role = "admin" /\ users[u].active}

-----------------------------------------------------------------------------
(* The guard: resolve_session reads the session, then its user.            *)

Arrive(r, s, op, target, form) ==
  /\ req[r].pc = "idle" /\ op \in Offered /\ Live(s)
  /\ req' = [req EXCEPT ![r] = [Idle EXCEPT
        !.pc = "guard", !.op = op, !.sess = s, !.actor = sessions[s].user,
        !.acct = sessions[s].acct, !.form = form,
        !.target = IF op \in OwnOps THEN sessions[s].user ELSE target]]
  /\ UNCHANGED tables

ArriveCreate(r, s) ==
  \E n \in Names, role \in Roles, p \in Passwords :
    Arrive(r, s, "create", Nobody, [Blank EXCEPT !.name = n, !.role = role, !.pw = p])

ArriveUpdate(r, s) ==
  \E u \in Users, role \in Roles, active \in BOOLEAN :
    Arrive(r, s, "update", u, [Blank EXCEPT !.role = role, !.active = active])

ArriveSetActive(r, s) ==
  \E u \in Users, active \in BOOLEAN :
    Arrive(r, s, "set_active", u, [Blank EXCEPT !.active = active])

ArriveResetPassword(r, s) ==
  \E u \in Users, p \in Passwords : Arrive(r, s, "reset_password", u, [Blank EXCEPT !.pw = p])

ArriveAbout(r, s) ==
  \E op \in {"revoke_sessions", "destroy"}, u \in Users : Arrive(r, s, op, u, Blank)

ArriveOwn(r, s) ==
  \E op \in {"revoke_others", "logout", "log"} : Arrive(r, s, op, Nobody, Blank)

ArriveChangePassword(r, s) ==
  \E old, new \in Passwords :
    Arrive(r, s, "change_password", Nobody, [Blank EXCEPT !.old = old, !.pw = new])

\* Where each handler begins.
FirstPoint(op) ==
  CASE op = "create"        -> "taken"
    [] op = "revoke_others" -> "select"
    [] op = "logout"        -> "each"
    [] op = "log"           -> "log"
    [] OTHER                -> "find"

\* A live session of an active member of its workspace; administration also
\* requires the role, which is not read again afterwards.
Identify(r) ==
  /\ req[r].pc = "guard"
  /\ LET q == req[r]
         u == users[q.actor]
     IN  IF /\ u # NoUser /\ u.active /\ u.acct = q.acct
            /\ q.op \in AdminOps => u.role = "admin"
         THEN req' = [req EXCEPT ![r].pc = FirstPoint(q.op),
                        ![r].todo = IF q.op = "logout" THEN {q.sess} ELSE {}]
         ELSE Finish(r)
  /\ UNCHANGED tables

-----------------------------------------------------------------------------
(* admin::create.                                                          *)

\* access::username_taken, in this workspace only.
Taken(r) ==
  /\ req[r].pc = "taken"
  /\ IF \E u \in Within(req[r].acct) : users[u].name = req[r].form.name
     THEN Finish(r)
     ELSE GoTo(r, "insert")
  /\ UNCHANGED tables

\* Mutation: the id after the largest one in the table.
NextUserReused ==
  IF \A u \in Users : users[u] = NoUser THEN 1
  ELSE 1 + CHOOSE u \in Users : users[u] # NoUser /\ \A v \in Users : v > u => users[v] = NoUser

NextUser == last.user + 1

InsertUser(r) ==
  /\ req[r].pc = "insert" /\ last.user < MaxUser
  /\ users' = [users EXCEPT ![NextUser] =
        [acct |-> req[r].acct, name |-> req[r].form.name, role |-> req[r].form.role,
         active |-> TRUE, pw |-> req[r].form.pw]]
  /\ last' = [last EXCEPT !.user = NextUser]
  /\ Finish(r)
  /\ UNCHANGED <<sessions, logged>>

-----------------------------------------------------------------------------
(* admin::update_user, set_active, reset_password, revoke_sessions,        *)
(* destroy.                                                                *)

\* Whether the handler must ask guard_admin_change, given the row it found.
Guarded(op, row, form) ==
  \/ op = "destroy"
  \/ op \in {"update", "set_active"} /\ row.active /\ ~ form.active
  \/ op = "update" /\ form.role # row.role

\* Whether it ends the member's sessions after its write.
SignsOut(op, row, form) ==
  \/ op = "reset_password"
  \/ op = "update" /\ Guarded(op, row, form)
  \/ op = "set_active" /\ ~ form.active

AfterFind(op, row, form) ==
  IF Guarded(op, row, form) THEN "count"
  ELSE IF op = "revoke_sessions" THEN "select"
  ELSE "write"

\* Mutation: find does not compare the workspaces.
FindableAnywhere(u, a) == users[u] # NoUser

\* access::require::<User>.
Findable(u, a) == users[u] # NoUser /\ users[u].acct = a

\* find loads the member; a destroy of oneself is refused right away.
Find(r) ==
  /\ req[r].pc = "find" /\ req[r].op # "change_password"
  /\ LET q == req[r]
         row == users[q.target]
     IN  IF Findable(q.target, q.acct) /\ ~ (q.op = "destroy" /\ q.target = q.actor)
         THEN req' = [req EXCEPT ![r].pc = AfterFind(q.op, row, q.form),
                        ![r].wasAdmin = row.role = "admin" /\ row.active,
                        ![r].revoke = SignsOut(q.op, row, q.form)]
         ELSE Finish(r)
  /\ UNCHANGED tables

\* Mutation: the member about to change counts as well.
OtherAdminsAll(q) == ActiveAdmins(q.acct)

\* other_active_admins.
OtherAdmins(q) == ActiveAdmins(q.acct) \ {q.target}

\* guard_admin_change: nobody demotes or closes oneself, and the last active
\* administrator stays one.
GuardAdminChange(r) ==
  /\ req[r].pc = "count"
  /\ LET q == req[r]
         selfHarm == q.op # "destroy" /\ q.actor = q.target
     IN  IF selfHarm \/ (q.wasAdmin /\ OtherAdmins(q) = {})
         THEN Finish(r)
         ELSE GoTo(r, IF q.op = "destroy" THEN "history" ELSE "write")
  /\ UNCHANGED tables

\* A row after UPDATE ... SET of the columns its handler names.
Updated(row, op, form) ==
  CASE op = "update"     -> [row EXCEPT !.role = form.role, !.active = form.active]
    [] op = "set_active" -> [row EXCEPT !.active = form.active]
    [] OTHER             -> [row EXCEPT !.pw = form.pw]

\* update!: only the columns named, and nothing if the row is gone.
Write(r) ==
  /\ req[r].pc = "write"
  /\ users' = [users EXCEPT ![req[r].target] =
        IF @ = NoUser THEN @ ELSE Updated(@, req[r].op, req[r].form)]
  /\ IF req[r].revoke THEN GoTo(r, "select") ELSE Finish(r)
  /\ UNCHANGED <<sessions, last, logged>>

\* destroy: accounts with history are closed, never deleted.
CheckHistory(r) ==
  /\ req[r].pc = "history"
  /\ IF req[r].target \in logged THEN Finish(r) ELSE GoTo(r, "select")
  /\ UNCHANGED tables

-----------------------------------------------------------------------------
(* Ending sessions: revoke_user_sessions, and the deletes of destroy.      *)

\* The session a handler spares: one's own, where one acts on oneself.
Spared(q) ==
  IF q.op \in {"reset_password", "revoke_sessions", "change_password", "revoke_others"}
     /\ q.target = q.actor
  THEN {q.sess} ELSE {}

Owned(u) == {s \in Sessions : sessions[s] # NoSession /\ sessions[s].user = u}

\* Mutation: the sessions of the request's own user, not of its target.
SelectedOwn(q) == {s \in Owned(q.actor) : Live(s)} \ Spared(q)

\* destroy takes every session row, the others only those still live.
Selected(q) ==
  IF q.op = "destroy" THEN {s \in Owned(q.target) : sessions[s].acct = q.acct}
  ELSE {s \in Owned(q.target) : Live(s)} \ Spared(q)

SelectSessions(r) ==
  /\ req[r].pc = "select"
  /\ IF Selected(req[r]) = {} /\ req[r].op # "destroy"
     THEN Finish(r)
     ELSE req' = [req EXCEPT ![r].pc = "each", ![r].todo = Selected(req[r])]
  /\ UNCHANGED tables

\* Mutation: an upsert, which brings a deleted session back without a workspace.
EndedUpsert(row, op) ==
  IF op = "destroy" THEN NoSession
  ELSE IF row = NoSession
  THEN [acct |-> Nobody, user |-> Nobody, revoked |-> TRUE, pw |-> FirstPassword]
  ELSE [row EXCEPT !.revoked = TRUE]

\* A session row after it was ended, if it is still there.
Ended(row, op) ==
  IF row = NoSession \/ op = "destroy" THEN NoSession ELSE [row EXCEPT !.revoked = TRUE]

EndSession(r) ==
  /\ req[r].pc = "each"
  /\ \E s \in req[r].todo :
       /\ sessions' = [sessions EXCEPT ![s] = Ended(@, req[r].op)]
       /\ IF req[r].todo = {s} /\ req[r].op # "destroy"
          THEN Finish(r)
          ELSE req' = [req EXCEPT ![r].todo = @ \ {s}]
  /\ UNCHANGED <<users, last, logged>>

DeleteUser(r) ==
  /\ req[r].pc = "each" /\ req[r].op = "destroy" /\ req[r].todo = {}
  /\ users' = [users EXCEPT ![req[r].target] = NoUser]
  /\ Finish(r)
  /\ UNCHANGED <<sessions, last, logged>>

-----------------------------------------------------------------------------
(* login::change_password: find oneself, confirm, then write and sign out  *)
(* as above.                                                               *)

FindSelf(r) ==
  /\ req[r].pc = "find" /\ req[r].op = "change_password"
  /\ LET q == req[r]
     IN  IF users[q.target] # NoUser /\ users[q.target].pw = q.form.old /\ q.form.pw # q.form.old
         THEN req' = [req EXCEPT ![r].pc = "write", ![r].revoke = TRUE]
         ELSE Finish(r)
  /\ UNCHANGED tables

-----------------------------------------------------------------------------
(* login: look the member up and check the password, then open a session.  *)

ArriveLogin(r) ==
  /\ req[r].pc = "idle" /\ "login" \in Offered
  /\ \E a \in Accounts, n \in Names, p \in Passwords :
       req' = [req EXCEPT ![r] = [Idle EXCEPT !.pc = "lookup", !.op = "login", !.acct = a,
                                    !.form = [Blank EXCEPT !.name = n, !.pw = p]]]
  /\ UNCHANGED tables

Named(a, n) == {u \in Within(a) : users[u].name = n}

\* A closed account, a wrong password and an unknown name all end the request.
LookUp(r) ==
  /\ req[r].pc = "lookup"
  /\ \/ \E u \in Named(req[r].acct, req[r].form.name) :
          /\ users[u].active /\ users[u].pw = req[r].form.pw
          /\ req' = [req EXCEPT ![r].pc = "mint", ![r].actor = u, ![r].target = u]
     \/ /\ \E u \in Named(req[r].acct, req[r].form.name) :
             ~ (users[u].active /\ users[u].pw = req[r].form.pw)
        /\ Finish(r)
     \/ Named(req[r].acct, req[r].form.name) = {} /\ Finish(r)
  /\ UNCHANGED tables

NextSession == last.session + 1

\* create_session, for the member and the workspace read before.
Mint(r) ==
  /\ req[r].pc = "mint" /\ last.session < MaxSession
  /\ sessions' = [sessions EXCEPT ![NextSession] =
        [acct |-> req[r].acct, user |-> req[r].actor, revoked |-> FALSE, pw |-> req[r].form.pw]]
  /\ last' = [last EXCEPT !.session = NextSession]
  /\ Finish(r)
  /\ UNCHANGED <<users, logged>>

-----------------------------------------------------------------------------
(* activities::create names its author; activities may be deleted again.   *)

LogActivity(r) ==
  /\ req[r].pc = "log"
  /\ logged' = logged \cup {req[r].actor}
  /\ Finish(r)
  /\ UNCHANGED <<users, sessions, last>>

ForgetActivities ==
  /\ \E u \in logged : logged' = logged \ {u}
  /\ UNCHANGED <<users, sessions, last, req>>

\* A query fails, the client goes away, or the process dies.
Abort(r) ==
  /\ req[r].pc # "idle"
  /\ Finish(r)
  /\ UNCHANGED tables

-----------------------------------------------------------------------------
\* Every workspace has been signed up: its founder is an active administrator
\* with a session.
Init ==
  /\ users = [u \in Users |->
       IF u \in Accounts
       THEN [acct |-> u, name |-> FirstName, role |-> "admin", active |-> TRUE,
             pw |-> FirstPassword]
       ELSE NoUser]
  /\ sessions = [s \in Sessions |->
       IF s \in Accounts
       THEN [acct |-> s, user |-> s, revoked |-> FALSE, pw |-> FirstPassword]
       ELSE NoSession]
  /\ last = [user |-> NumAccounts, session |-> NumAccounts]
  /\ logged = {}
  /\ req = [r \in Requests |-> Idle]

Begin(r) ==
  \/ ArriveLogin(r)
  \/ \E s \in Sessions :
       \/ ArriveCreate(r, s) \/ ArriveUpdate(r, s) \/ ArriveSetActive(r, s)
       \/ ArriveResetPassword(r, s) \/ ArriveAbout(r, s) \/ ArriveOwn(r, s)
       \/ ArriveChangePassword(r, s)

Step(r) ==
  \/ Identify(r) \/ Taken(r) \/ InsertUser(r) \/ Find(r) \/ GuardAdminChange(r)
  \/ Write(r) \/ CheckHistory(r) \/ SelectSessions(r) \/ EndSession(r) \/ DeleteUser(r)
  \/ FindSelf(r) \/ LookUp(r) \/ Mint(r) \/ LogActivity(r)

Next == ForgetActivities \/ \E r \in Requests : Begin(r) \/ Step(r) \/ Abort(r)

Spec == Init /\ [][Next]_vars

(***************************************************************************)
(* What overlapping requests would have to avoid: a request is deciding    *)
(* once it has read a row of its workspace that its next queries act on.   *)
(***************************************************************************)
Deciding(r) == req[r].pc \notin {"idle", "guard", "taken", "find", "lookup"}

Racing ==
  \E r, q \in Requests :
    r # q /\ Deciding(r) /\ Deciding(q) /\ req[r].acct = req[q].acct

\* The same system when at most one request of a workspace decides at a time.
\* Requests that wait to begin still hold the identity the guard gave them.
Disciplined == ~ Racing'
DisciplinedSpec == Init /\ [][Next /\ Disciplined]_vars

-----------------------------------------------------------------------------
(* Properties.                                                             *)

\* Tables and requests keep their shape.
TypeOK ==
  /\ users \in [Users -> UserRow \cup {NoUser}]
  /\ sessions \in [Sessions -> SessionRow \cup {NoSession}]
  /\ last \in [user : 0 .. MaxUser, session : 0 .. MaxSession]
  /\ logged \subseteq Users
  /\ req \in [Requests -> Request]

\* "The last active administrator cannot be demoted, closed, or deleted": a
\* workspace always has one, although the administrators are counted some
\* awaits before the change, on behalf of someone who may be one no more.
LastAdminStays == \A a \in Accounts : ActiveAdmins(a) # {}

\* "Usernames are unique per workspace", and a check before the insert "is what
\* enforces it": nothing keeps a second creation from passing the same check
\* before the first has inserted.
UniqueNames ==
  \A u, v \in Users :
    users[u] # NoUser /\ users[v] # NoUser /\ users[u].acct = users[v].acct
      /\ users[u].name = users[v].name => u = v

\* "Accounts with history are closed, never deleted, so the activity log keeps
\* naming someone who existed": but destroy counts the activities some queries
\* before it deletes, and a member deleted meanwhile may still log one.
HistoryNamed == \A u \in logged : users[u] # NoUser

\* A session's workspace agrees with its user's, also for a session opened
\* after its user was deleted (resolve_session keeps a check of this as
\* "redundant with how sessions are created").
SessionTenantAgrees ==
  \A s \in Sessions :
    sessions[s] # NoSession /\ users[sessions[s].user] # NoUser =>
      sessions[s].acct = users[sessions[s].user].acct

\* An administrator's powers stop at their own workspace: no handler changes a
\* member or a session of another one, although sessions are selected and
\* ended by user id alone.
PowersStayHome ==
  [][\A r \in Requests : req'[r] # req[r] =>
       /\ \A u \in Users : users'[u] # users[u] =>
            /\ users[u] # NoUser => users[u].acct = req[r].acct
            /\ users'[u] # NoUser => users'[u].acct = req[r].acct
       /\ \A s \in Sessions : sessions'[s] # sessions[s] =>
            /\ sessions[s] # NoSession => sessions[s].acct = req[r].acct
            /\ sessions'[s] # NoSession => sessions'[s].acct = req[r].acct]_vars

\* A session opened with a password that is no longer the user's, or by a
\* user who is closed.
Stale(s) ==
  Live(s) /\ LET u == users[sessions[s].user]
             IN  u # NoUser /\ (sessions[s].pw # u.pw \/ ~ u.active)

\* "Every other session dies with the old password", "signed out everywhere":
\* when a handler that signs a member out is done, no such session is left.
SignedOut ==
  [][\A r \in Requests :
       LET q == req[r]
       IN  /\ q.op \in {"update", "set_active", "reset_password", "change_password"}
           /\ SelectSessions(r) \/ EndSession(r)
           /\ req'[r].pc = "idle"
           => \A s \in Sessions \ Spared(q) :
                sessions'[s] # NoSession /\ sessions'[s].user = q.target => ~ Stale(s)']_vars
=============================================================================
