------------------------------- MODULE SignIn --------------------------------
(***************************************************************************)
(* Signing in to one workspace, query by query, against a clock: the       *)
(* throttle that counts failures per username, the password and the second *)
(* factor, the session that is minted and how it ends, turning the second  *)
(* factor on and off, and the sweep of dead sessions at start-up.          *)
(*                                                                         *)
(* A request may stop anywhere (a failing query, a lost connection), and   *)
(* the whole server may be restarted.  Times are in an arbitrary unit.     *)
(* Left out, see Members: who may change whose password, closing and       *)
(* deleting members, and revoking sessions for somebody else.              *)
(***************************************************************************)
EXTENDS Naturals, FiniteSets

CONSTANTS
  Slots,       \* requests being handled at the same time
  Names,       \* usernames somebody may type
  Standings,   \* which members the names may belong to: functions on Names
  AllowPasswordless,
  MaxAttempts, \* login_max_attempts
  LockFor,     \* login_lockout
  Ttl,         \* session_ttl
  Grace,       \* SESSION_GRACE_SECONDS
  Period,      \* TOTP_PERIOD
  MaxNow,      \* bound: when the clock stops
  MaxSessions, \* bound: rows of the sessions table
  MaxFailures  \* bound: failures in a row a name may collect

Standing == {"open", "closed", "passwordless", "unknown"}

None == 0

\* What the constants have to be.
SignInInstance ==
  /\ None \notin Names
  /\ Standings \subseteq [Names -> Standing]
  /\ MaxAttempts \in Nat \ {0} /\ LockFor \in Nat /\ Ttl \in Nat /\ Grace \in Nat
  /\ Period \in Nat \ {0} /\ MaxNow \in Nat /\ MaxSessions \in Nat /\ MaxFailures \in Nat
  /\ AllowPasswordless \in BOOLEAN

VARIABLES
  now,
  standing,  \* standing[n]: the member of that name; it never changes here
  totp,      \* totp[n]: the second factor is on
  attempts,  \* rows of the login_attempts table
  sessions,  \* rows of the sessions table
  req,       \* req[r]: the request in slot r
  up,        \* what the server process is doing
  dead       \* ids of the sessions the sweep has listed and not yet deleted

signIn == <<now, standing, totp, attempts, sessions, req, up, dead>>

AttemptIds == 1 .. (Cardinality(Names) * Cardinality(Slots))
SessionIds == 1 .. MaxSessions
NoCode == MaxNow + 2                    \* the field left blank
Codes == 0 .. (MaxNow \div Period + 1)  \* a code is known by the step it belongs to

Passwords == {"right", "wrong", "blank"}

Attempt == [id : AttemptIds, name : Names, failures : 1 .. MaxFailures,
            until : 0 .. (MaxNow + LockFor)]
\* coded is no column: a second factor was checked before it was minted.
Session == [id : SessionIds, name : Names, expires : 0 .. (MaxNow + Ttl),
            revoked : {None} \cup (1 .. (MaxNow + 1)), coded : BOOLEAN]

Points == {"idle", "lockout", "lookup", "code", "count", "tally", "clear", "delete", "mint",
           "end", "enrol", "confirm", "factor"}
\* A request.  What was typed is chosen where a handler first looks at it.
Request == [pc : Points, name : Names \cup {None}, found : AttemptIds \cup {None},
            failures : 0 .. MaxFailures, at : 0 .. MaxNow, coded : BOOLEAN, on : BOOLEAN,
            sess : SessionIds \cup {None}]

Idle == [pc |-> "idle", name |-> None, found |-> None, failures |-> 0, at |-> 0,
         coded |-> FALSE, on |-> FALSE, sess |-> None]

Finish(r) == req' = [req EXCEPT ![r] = Idle]
GoTo(r, pc) == req' = [req EXCEPT ![r].pc = pc]

\* Rows are numbered once and for all.  An id nothing refers to any more is as
\* good as a new one.
FreeAttempts == {i \in AttemptIds : /\ \A a \in attempts : a.id # i
                                    /\ \A r \in Slots : req[r].found # i}
FreeSessions == {i \in SessionIds : /\ \A s \in sessions : s.id # i
                                    /\ \A r \in Slots : req[r].sess # i}

\* Mutation: only the failure after the last allowed one locks.
LockedUntilLate(f, t) == IF f > MaxAttempts THEN t + LockFor ELSE None

\* locked_until of a row that has collected f failures by time t.
LockedUntil(f, t) == IF f >= MaxAttempts THEN t + LockFor ELSE None

RowsOf(n) == {a \in attempts : a.name = n}

\* find_attempt: the .first() of a name's rows is any of them.
NoAttempt == [id |-> None, failures |-> 0, until |-> None]
Found(n) == IF RowsOf(n) = {} THEN {NoAttempt} ELSE RowsOf(n)

\* verify_totp: the current step and one either side of it.
Fits(code, t) == LET step == t \div Period
                 IN  code \in {c \in Codes : c + 1 >= step /\ c <= step + 1}

\* resolve_session.
Live(s) == s.revoked = None /\ s.expires > now

-----------------------------------------------------------------------------
(* attempt_login and login.                                                *)

Submit(r, n) ==
  /\ up = "serving" /\ req[r].pc = "idle"
  /\ req' = [req EXCEPT ![r] = [Idle EXCEPT !.pc = "lockout", !.name = n]]
  /\ UNCHANGED <<now, standing, totp, attempts, sessions, up, dead>>

\* login_lockout.
CheckLock(r) ==
  /\ req[r].pc = "lockout"
  /\ \E a \in Found(req[r].name) :
       IF a.until > now
       THEN Finish(r)
       ELSE req' = [req EXCEPT ![r].pc = "lookup", ![r].at = now]
  /\ UNCHANGED <<now, standing, totp, attempts, sessions, up, dead>>

\* Whether what was typed is the member's password.
Confirms(n, pw) == pw = IF standing[n] = "open" THEN "right" ELSE "blank"

\* The member and the password.  The row read here is the one whose second
\* factor decides, however long the rest of the request takes.
Lookup(r) ==
  /\ req[r].pc = "lookup"
  /\ LET n == req[r].name
     IN  \E pw \in Passwords :
           CASE standing[n] \in {"unknown", "closed"} -> GoTo(r, "count")
             [] standing[n] = "passwordless" /\ ~ AllowPasswordless -> Finish(r)
             [] OTHER -> IF Confirms(n, pw)
                         THEN req' = [req EXCEPT ![r].pc = IF totp[n] THEN "code" ELSE "clear",
                                                 ![r].on = totp[n]]
                         ELSE GoTo(r, "count")
  /\ UNCHANGED <<now, standing, totp, attempts, sessions, up, dead>>

\* Mutation: a code left blank is not asked for.
CheckCodeIfGiven(r) ==
  /\ req[r].pc = "code"
  /\ \E code \in Codes \cup {NoCode} :
       CASE code = NoCode   -> GoTo(r, "clear")
         [] Fits(code, now) -> req' = [req EXCEPT ![r].pc = "clear", ![r].coded = TRUE]
         [] OTHER           -> GoTo(r, "count")
  /\ UNCHANGED <<now, standing, totp, attempts, sessions, up, dead>>

\* Hashing takes its time; the code is held against the clock after it.
CheckCode(r) ==
  /\ req[r].pc = "code"
  /\ \E code \in Codes \cup {NoCode} :
       CASE code = NoCode   -> Finish(r)
         [] Fits(code, now) -> req' = [req EXCEPT ![r].pc = "clear", ![r].coded = TRUE]
         [] OTHER           -> GoTo(r, "count")
  /\ UNCHANGED <<now, standing, totp, attempts, sessions, up, dead>>

\* record_login_failure: read the row, then write it whole.
Count(r) ==
  /\ req[r].pc = "count"
  /\ \E a \in Found(req[r].name) :
       /\ a.failures < MaxFailures
       /\ req' = [req EXCEPT ![r].pc = "tally", ![r].at = now, ![r].found = a.id,
                             ![r].failures = a.failures]
  /\ UNCHANGED <<now, standing, totp, attempts, sessions, up, dead>>

Tally(r) ==
  /\ req[r].pc = "tally"
  /\ LET q == req[r]
         row(i) == [id |-> i, name |-> q.name, failures |-> q.failures + 1,
                    until |-> LockedUntil(q.failures + 1, q.at)]
     IN  IF q.found = None
         THEN \E i \in FreeAttempts : /\ \A j \in FreeAttempts : i <= j
                                      /\ attempts' = attempts \cup {row(i)}
         ELSE attempts' = {IF a.id = q.found THEN row(a.id) ELSE a : a \in attempts}
  /\ Finish(r)
  /\ UNCHANGED <<now, standing, totp, sessions, up, dead>>

\* clear_login_failures: one row, if there is one.
Clear(r) ==
  /\ req[r].pc = "clear"
  /\ \E a \in Found(req[r].name) :
       req' = [req EXCEPT ![r].pc = IF a = NoAttempt THEN "mint" ELSE "delete", ![r].found = a.id]
  /\ UNCHANGED <<now, standing, totp, attempts, sessions, up, dead>>

DeleteRow(r) ==
  /\ req[r].pc = "delete"
  /\ attempts' = {a \in attempts : a.id # req[r].found}
  /\ req' = [req EXCEPT ![r].pc = "mint", ![r].found = None]
  /\ UNCHANGED <<now, standing, totp, sessions, up, dead>>

\* create_session.
Mint(r) ==
  /\ req[r].pc = "mint"
  /\ \E i \in FreeSessions :
       /\ \A j \in FreeSessions : i <= j
       /\ sessions' = sessions \cup {[id |-> i, name |-> req[r].name, expires |-> now + Ttl,
                                      revoked |-> None, coded |-> req[r].coded]}
  /\ Finish(r)
  /\ UNCHANGED <<now, standing, totp, attempts, up, dead>>

-----------------------------------------------------------------------------
(* Requests of somebody who is signed in, identified by resolve_session.   *)

\* logout, enable_totp and disable_totp begin.
Ask(r, s, pc) ==
  /\ up = "serving" /\ req[r].pc = "idle" /\ Live(s)
  /\ req' = [req EXCEPT ![r] = [Idle EXCEPT !.pc = pc, !.name = s.name, !.sess = s.id]]
  /\ UNCHANGED <<now, standing, totp, attempts, sessions, up, dead>>

\* revoke_session.
EndSession(r) ==
  /\ req[r].pc = "end"
  /\ sessions' = {IF s.id = req[r].sess THEN [s EXCEPT !.revoked = now + 1] ELSE s : s \in sessions}
  /\ Finish(r)
  /\ UNCHANGED <<now, standing, totp, attempts, up, dead>>

\* enable_totp proves the secret works before it is stored.
Enrol(r) ==
  /\ req[r].pc = "enrol"
  /\ \E code \in Codes :
       IF Fits(code, now)
       THEN req' = [req EXCEPT ![r].pc = "factor", ![r].on = TRUE]
       ELSE Finish(r)
  /\ UNCHANGED <<now, standing, totp, attempts, sessions, up, dead>>

\* disable_totp asks for the password again.
Confirm(r) ==
  /\ req[r].pc = "confirm"
  /\ \E pw \in Passwords :
       IF Confirms(req[r].name, pw)
       THEN req' = [req EXCEPT ![r].pc = "factor", ![r].on = FALSE]
       ELSE Finish(r)
  /\ UNCHANGED <<now, standing, totp, attempts, sessions, up, dead>>

WriteFactor(r) ==
  /\ req[r].pc = "factor"
  /\ totp' = [totp EXCEPT ![req[r].name] = req[r].on]
  /\ Finish(r)
  /\ UNCHANGED <<now, standing, attempts, sessions, up, dead>>

\* A query fails.  Sign-out ignores that and clears the cookie all the same.
Abort(r) ==
  /\ req[r].pc # "idle"
  /\ Finish(r)
  /\ UNCHANGED <<now, standing, totp, attempts, sessions, up, dead>>

-----------------------------------------------------------------------------
(* The clock, and the process: a start sweeps the sessions table, one row  *)
(* at a time, before anything is served.                                   *)

Tick ==
  /\ now < MaxNow /\ now' = now + 1
  /\ UNCHANGED <<standing, totp, attempts, sessions, req, up, dead>>

Restart ==
  /\ up' = "starting" /\ dead' = {}
  /\ req' = [r \in Slots |-> Idle]
  /\ UNCHANGED <<now, standing, totp, attempts, sessions>>

\* Mutation: the grace is for expired sessions only.
PastGraceExpired(s) == s.expires + Grace < now \/ s.revoked # None

\* purge_sessions.  revoked is the time of the revocation plus one, so that
\* time 0 is not mistaken for None.
PastGrace(s) == \/ s.expires + Grace < now
                \/ s.revoked # None /\ s.revoked + Grace < now + 1

ListDead ==
  /\ up = "starting"
  /\ dead' = {s.id : s \in {t \in sessions : PastGrace(t)}}
  /\ up' = "sweeping"
  /\ UNCHANGED <<now, standing, totp, attempts, sessions, req>>

Sweep ==
  /\ up = "sweeping"
  /\ \E i \in dead : /\ dead' = dead \ {i}
                     /\ sessions' = {s \in sessions : s.id # i}
  /\ UNCHANGED <<now, standing, totp, attempts, req, up>>

Serve ==
  /\ up = "sweeping" /\ dead = {} /\ up' = "serving"
  /\ UNCHANGED <<now, standing, totp, attempts, sessions, req, dead>>

-----------------------------------------------------------------------------
SignInInit ==
  /\ now = 0
  /\ standing \in Standings
  /\ totp = [n \in Names |-> FALSE]
  /\ attempts = {} /\ sessions = {}
  /\ req = [r \in Slots |-> Idle]
  /\ up = "starting" /\ dead = {}

Step(r) ==
  \/ CheckLock(r) \/ Lookup(r) \/ CheckCode(r) \/ Count(r) \/ Tally(r)
  \/ Clear(r) \/ DeleteRow(r) \/ Mint(r)
  \/ EndSession(r) \/ Enrol(r) \/ Confirm(r) \/ WriteFactor(r) \/ Abort(r)

Arrive(r) ==
  \/ \E n \in Names : Submit(r, n)
  \/ \E s \in sessions, pc \in {"end", "enrol", "confirm"} : Ask(r, s, pc)

SignInNext ==
  \/ \E r \in Slots : Arrive(r)
  \/ \E r \in Slots : Step(r)
  \/ Tick \/ Restart \/ ListDead \/ Sweep \/ Serve

SignInSpec == SignInInit /\ [][SignInNext]_signIn

\* Requests of one name are handled one at a time.
OnePerName ==
  \A r, p \in Slots : req[r].name = req[p].name /\ req[r].name # None => r = p

DisciplinedSpec == SignInInit /\ [][SignInNext /\ OnePerName']_signIn

-----------------------------------------------------------------------------
(* The tables and the requests hold what the schema and the handlers put   *)
(* in them (models.rs Session and LoginAttempt, auth.rs).                  *)
SignInTypeOK ==
  /\ now \in 0 .. MaxNow /\ standing \in Standings /\ totp \in [Names -> BOOLEAN]
  /\ attempts \subseteq Attempt /\ sessions \subseteq Session
  /\ req \in [Slots -> Request] /\ up \in {"starting", "sweeping", "serving"}
  /\ dead \subseteq SessionIds

\* An attempt past the lock and not yet decided.
Judges(q, n) == q.name = n /\ q.pc \in {"lookup", "code", "count", "tally", "clear", "delete"}

\* The row of a name, and since when an attempt on it is being judged.
RowOf(n) == IF RowsOf(n) = {} THEN NoAttempt ELSE CHOOSE a \in RowsOf(n) : TRUE
Began(requests, n) ==
  IF \E r \in Slots : Judges(requests[r], n)
  THEN requests[CHOOSE r \in Slots : Judges(requests[r], n)].at
  ELSE MaxNow + 1

L == INSTANCE Lockout WITH
  count <- [n \in Names |-> RowOf(n).failures],
  until <- [n \in Names |-> RowOf(n).until],
  began <- [n \in Names |-> Began(req, n)]

(* Handled one per name at a time, the sign-ins of a workspace are the     *)
(* counter and the lock that auth.rs describes, whatever stops halfway and *)
(* however long a step takes.                                              *)
Throttled == L!Spec

(* Nobody signs in without a code unless the lookup of that very request   *)
(* found the second factor off, however many requests run at once, and     *)
(* whoever turns the factor on or off, starts the server again or makes a  *)
(* query fail in between (auth.rs: verify_totp; login.rs: login).  A       *)
(* factor turned on after the lookup does leave that one session without.  *)
FactorHolds ==
  [][\A s \in sessions' : (\A t \in sessions : t.id # s.id) /\ ~ s.coded =>
       \E r \in Slots : /\ req[r].pc = "mint" /\ req'[r].pc = "idle"
                        /\ req[r].name = s.name /\ ~ req[r].on]_signIn

(* The sweep at start-up takes a session only when it has been over for    *)
(* longer than the grace, wherever an earlier sweep was cut off, so        *)
(* that the sessions page can still show it as revoked or expired.         *)
SweptLate ==
  [][\A s \in sessions : (\A t \in sessions' : t.id # s.id) =>
       \/ now > s.expires + Grace
       \/ s.revoked # None /\ now > s.revoked - 1 + Grace]_signIn
=============================================================================
