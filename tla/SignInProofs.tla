----------------------------- MODULE SignInProofs -----------------------------
(* Theorems about SignIn, for every set of names and of requests and every   *)
(* setting of the throttle, the session times and the bounds, with requests  *)
(* and the server stopping anywhere.                                         *)
EXTENDS SignIn, TLAPS

-----------------------------------------------------------------------------
(* Types: what a request carries, and that only a server that serves has any.*)

\* A busy request has a name; one about to write a count may still count.
Shaped(q) ==
  /\ q.pc # "idle" => q.name \in Names
  /\ q.pc = "tally" => q.failures < MaxFailures

TypeInv == SignInTypeOK /\ \A r \in Slots : Shaped(req[r])

\* Nothing is handled before the server serves.
Quiet == up # "serving" => \A r \in Slots : req[r] = Idle

\* What the sweep has listed is past the grace.
Listed == up = "sweeping" => \A s \in sessions : s.id \in dead => PastGrace(s)

\* An id is one session's.
SessionsOnce == \A s, t \in sessions : s.id = t.id => s = t

SweepInv == TypeInv /\ Quiet /\ SessionsOnce /\ Listed

-----------------------------------------------------------------------------
(* The second factor, and the throttle.                                      *)

\* Past the code, one was given if the lookup found the second factor on.
Asked(q) == q.pc \in {"clear", "delete", "mint"} /\ q.on => q.coded

\* What a lookup does when the password is the right one.
Looked(r) == req' = [req EXCEPT ![r].pc = IF totp[req[r].name] THEN "code" ELSE "clear",
                                ![r].on = totp[req[r].name]]

\* One row per name, and it is still as the request of that name has read it.
Tracks(q) ==
  /\ q.pc = "tally" /\ q.found = None => RowsOf(q.name) = {} /\ q.failures = 0
  /\ q.pc = "tally" /\ q.found # None =>
       \E a \in RowsOf(q.name) : a.id = q.found /\ a.failures = q.failures
  /\ q.pc = "delete" => \E a \in RowsOf(q.name) : a.id = q.found

OneRow == \A a, b \in attempts : a.id = b.id \/ a.name = b.name => a = b

FactorInv == TypeInv /\ \A r \in Slots : Asked(req[r])

ThrottleInv == TypeInv /\ OnePerName /\ OneRow /\ \A r \in Slots : Tracks(req[r])

-----------------------------------------------------------------------------
(* Types.                                                                    *)

LEMMA NoneIsNoAttempt == None \notin AttemptIds
BY DEF None, AttemptIds

LEMMA IdleRequest ==
  ASSUME SignInInstance
  PROVE  Idle \in Request /\ Shaped(Idle) /\ Idle.pc = "idle" /\ Idle.name = None
BY DEF SignInInstance, Idle, Request, Points, Shaped

\* One slot after another.
LEMMA Slot ==
  ASSUME req \in [Slots -> Request], NEW r \in Slots, NEW q \in Request,
         req' = [req EXCEPT ![r] = q]
  PROVE  /\ req' \in [Slots -> Request] /\ req'[r] = q
         /\ \A p \in Slots \ {r} : req'[p] = req[p]
OBVIOUS

\* A step of a request that leaves the tables alone.
LEMMA SlotTypes ==
  ASSUME TypeInv, NEW r \in Slots, NEW q \in Request, Shaped(q),
         req' = [req EXCEPT ![r] = q],
         UNCHANGED <<now, standing, totp, attempts, sessions, up, dead>>
  PROVE  TypeInv'
BY Slot DEF TypeInv, SignInTypeOK, Shaped

\* The point a request moves to, and with which name.
Moved(r, pc) == [req[r] EXCEPT !.pc = pc]

LEMMA MovedTypes ==
  ASSUME TypeInv, NEW r \in Slots, req[r].pc # "idle", NEW pc \in Points \ {"tally"}
  PROVE  /\ Moved(r, pc) \in Request /\ Shaped(Moved(r, pc))
         /\ GoTo(r, pc) => req' = [req EXCEPT ![r] = Moved(r, pc)]
BY DEF TypeInv, SignInTypeOK, Shaped, Request, Moved, GoTo

\* What a request may become in a step that leaves the tables alone.
Onward(r) ==
  \E q \in Request : /\ Shaped(q) /\ req' = [req EXCEPT ![r] = q]
                    /\ UNCHANGED <<now, standing, totp, attempts, sessions, up, dead>>

LEMMA FinishOnward ==
  ASSUME SignInInstance, NEW r \in Slots, Finish(r),
         UNCHANGED <<now, standing, totp, attempts, sessions, up, dead>>
  PROVE  Onward(r)
BY IdleRequest DEF Finish, Onward

LEMMA MovedOnward ==
  ASSUME TypeInv, NEW r \in Slots, req[r].pc # "idle", NEW pc \in Points \ {"tally"}, GoTo(r, pc),
         UNCHANGED <<now, standing, totp, attempts, sessions, up, dead>>
  PROVE  Onward(r)
BY MovedTypes DEF Onward

\* Requests arrive, and are judged.
LEMMA ArriveOnward ==
  ASSUME SignInInstance, TypeInv, NEW r \in Slots, Arrive(r)
  PROVE  Onward(r)
<1>1. ASSUME NEW n \in Names, Submit(r, n) PROVE Onward(r)
  <2>1. [Idle EXCEPT !.pc = "lockout", !.name = n] \in Request
    BY IdleRequest DEF Request, Points
  <2>2. Shaped([Idle EXCEPT !.pc = "lockout", !.name = n])
    BY DEF Shaped, Idle
  <2> QED
    BY <1>1, <2>1, <2>2 DEF Submit, Onward
<1>2. ASSUME NEW s \in sessions, NEW pc \in {"end", "enrol", "confirm"}, Ask(r, s, pc)
      PROVE  Onward(r)
  <2>1. s.name \in Names /\ s.id \in SessionIds
    BY DEF TypeInv, SignInTypeOK, Session
  <2>2. [Idle EXCEPT !.pc = pc, !.name = s.name, !.sess = s.id] \in Request
    BY <2>1, IdleRequest DEF Request, Points
  <2>3. Shaped([Idle EXCEPT !.pc = pc, !.name = s.name, !.sess = s.id])
    BY <2>1 DEF Shaped, Idle
  <2> QED
    BY <1>2, <2>2, <2>3 DEF Ask, Onward
<1> QED
  BY <1>1, <1>2 DEF Arrive

LEMMA LookedMoves ==
  ASSUME TypeInv, NEW r \in Slots, req[r].pc = "lookup", Looked(r)
  PROVE  \E q \in Request :
           /\ Shaped(q) /\ req' = [req EXCEPT ![r] = q]
           /\ q.pc \in {"code", "clear"} /\ q.name = req[r].name /\ q.at = req[r].at
           /\ q.pc = "clear" => ~ q.on
<1> DEFINE on == totp[req[r].name]
           to == IF on THEN "code" ELSE "clear"
           q  == [req[r] EXCEPT !.pc = to, !.on = on]
<1>1. req \in [Slots -> Request] /\ req[r] \in Request /\ Shaped(req[r]) /\ req[r].name \in Names
  BY DEF TypeInv, SignInTypeOK, Shaped
<1>2. on \in BOOLEAN /\ to \in {"code", "clear"} /\ (to = "clear" => ~ on)
  BY <1>1 DEF TypeInv, SignInTypeOK
<1>3. req' = [req EXCEPT ![r] = [req[r] EXCEPT !.pc = to, !.on = on]]
  BY <1>1 DEF Looked
<1> HIDE DEF on, to
<1>4. q \in Request /\ q.pc = to /\ q.name = req[r].name /\ q.at = req[r].at /\ q.on = on
  BY <1>1, <1>2 DEF Request, Points
<1>5. Shaped(q)
  BY <1>1, <1>2, <1>4 DEF Shaped, Request
<1> QED
  BY <1>2, <1>3, <1>4, <1>5

LEMMA JudgeOnward ==
  ASSUME SignInInstance, TypeInv, NEW r \in Slots,
         \/ CheckLock(r) \/ Lookup(r) \/ CheckCode(r) \/ Count(r) \/ Clear(r)
         \/ Enrol(r) \/ Confirm(r) \/ Abort(r)
  PROVE  Onward(r)
<1>1. req[r] \in Request /\ Shaped(req[r]) /\ req[r].pc # "idle" /\ req[r].name \in Names
  BY DEF TypeInv, SignInTypeOK, Shaped, CheckLock, Lookup, CheckCode, Count, Clear, Enrol, Confirm, Abort
<1>2. UNCHANGED <<now, standing, totp, attempts, sessions, up, dead>>
  BY DEF CheckLock, Lookup, CheckCode, Count, Clear, Enrol, Confirm, Abort
<1>3. CASE Finish(r)
  BY <1>2, <1>3, FinishOnward
<1>4. ASSUME NEW pc \in Points \ {"tally"}, GoTo(r, pc) PROVE Onward(r)
  BY <1>1, <1>2, <1>4, MovedOnward
<1>5. ASSUME NEW q \in Request, Shaped(q), req' = [req EXCEPT ![r] = q] PROVE Onward(r)
  BY <1>2, <1>5 DEF Onward
<1>6. now \in 0 .. MaxNow /\ req \in [Slots -> Request]
  BY DEF TypeInv, SignInTypeOK
<1>7. CASE CheckLock(r)
  <2>1. CASE req' = [req EXCEPT ![r].pc = "lookup", ![r].at = now]
    <3> DEFINE q == [req[r] EXCEPT !.pc = "lookup", !.at = now]
    <3>1. q \in Request /\ Shaped(q) /\ req' = [req EXCEPT ![r] = q]
      BY <1>1, <1>6, <2>1 DEF Request, Shaped, Points
    <3> QED
      BY <1>5, <3>1
  <2> QED
    BY <1>3, <1>7, <2>1 DEF CheckLock
<1>8. CASE Lookup(r)
  <2>1. CASE Looked(r)
    BY <1>5, <1>8, <2>1, LookedMoves DEF Lookup
  <2>2. Finish(r) \/ GoTo(r, "count") \/ Looked(r)
    BY <1>8 DEF Lookup, Looked
  <2> QED
    BY <1>3, <1>4, <2>1, <2>2 DEF Points
<1>9. CASE CheckCode(r)
  <2>1. CASE req' = [req EXCEPT ![r].pc = "clear", ![r].coded = TRUE]
    <3> DEFINE q == [req[r] EXCEPT !.pc = "clear", !.coded = TRUE]
    <3>1. q \in Request /\ Shaped(q) /\ req' = [req EXCEPT ![r] = q]
      BY <1>1, <1>6, <2>1 DEF Request, Shaped, Points
    <3> QED
      BY <1>5, <3>1
  <2>2. Finish(r) \/ GoTo(r, "count") \/ req' = [req EXCEPT ![r].pc = "clear", ![r].coded = TRUE]
    BY <1>9 DEF CheckCode
  <2> QED
    BY <1>3, <1>4, <2>1, <2>2 DEF Points
<1>10. CASE Count(r)
  <2>1. PICK a \in Found(req[r].name) :
          /\ a.failures < MaxFailures
          /\ req' = [req EXCEPT ![r].pc = "tally", ![r].at = now, ![r].found = a.id,
                                ![r].failures = a.failures]
    BY <1>10 DEF Count
  <2>2. a.id \in AttemptIds \cup {None} /\ a.failures \in 0 .. MaxFailures
    BY DEF TypeInv, SignInTypeOK, Found, RowsOf, NoAttempt, Attempt, SignInInstance
  <2> DEFINE q == [req[r] EXCEPT !.pc = "tally", !.at = now, !.found = a.id, !.failures = a.failures]
  <2>3. q \in Request /\ Shaped(q) /\ req' = [req EXCEPT ![r] = q]
    BY <1>1, <1>6, <2>1, <2>2 DEF Request, Shaped, Points
  <2> QED
    BY <1>5, <2>3
<1>11. CASE Clear(r)
  <2>1. PICK a \in Found(req[r].name) :
          req' = [req EXCEPT ![r].pc = IF a = NoAttempt THEN "mint" ELSE "delete", ![r].found = a.id]
    BY <1>11 DEF Clear
  <2>2. a.id \in AttemptIds \cup {None}
    BY DEF TypeInv, SignInTypeOK, Found, RowsOf, NoAttempt, Attempt
  <2> DEFINE q == [req[r] EXCEPT !.pc = IF a = NoAttempt THEN "mint" ELSE "delete", !.found = a.id]
  <2>3. q \in Request /\ Shaped(q) /\ req' = [req EXCEPT ![r] = q]
    BY <1>1, <1>6, <2>1, <2>2 DEF Request, Shaped, Points
  <2> QED
    BY <1>5, <2>3
<1>12. CASE Enrol(r) \/ Confirm(r)
  <2>1. ASSUME NEW on \in BOOLEAN, req' = [req EXCEPT ![r].pc = "factor", ![r].on = on]
        PROVE  Onward(r)
    <3> DEFINE q == [req[r] EXCEPT !.pc = "factor", !.on = on]
    <3>1. q \in Request /\ Shaped(q) /\ req' = [req EXCEPT ![r] = q]
      BY <1>1, <1>6, <2>1 DEF Request, Shaped, Points
    <3> QED
      BY <1>5, <3>1
  <2> QED
    BY <1>3, <1>12, <2>1 DEF Enrol, Confirm
<1>13. CASE Abort(r)
  BY <1>3, <1>13 DEF Abort
<1> QED
  BY <1>7, <1>8, <1>9, <1>10, <1>11, <1>12, <1>13

\* Steps of requests that write to a table.
LEMMA WriteTypes ==
  ASSUME SignInInstance, TypeInv, NEW r \in Slots,
         Tally(r) \/ DeleteRow(r) \/ Mint(r) \/ EndSession(r) \/ WriteFactor(r)
  PROVE  TypeInv'
<1>1. req[r] \in Request /\ Shaped(req[r]) /\ req[r].pc # "idle" /\ req[r].name \in Names
  BY DEF TypeInv, SignInTypeOK, Shaped, Tally, DeleteRow, Mint, EndSession, WriteFactor
<1>2. now \in 0 .. MaxNow /\ req \in [Slots -> Request]
  BY DEF TypeInv, SignInTypeOK
<1>3. UNCHANGED <<now, standing, up, dead>>
  BY DEF Tally, DeleteRow, Mint, EndSession, WriteFactor
<1>4. ASSUME NEW q \in Request, Shaped(q), req' = [req EXCEPT ![r] = q],
             attempts' \subseteq Attempt, sessions' \subseteq Session, totp' \in [Names -> BOOLEAN]
      PROVE  TypeInv'
  BY <1>2, <1>3, <1>4, Slot DEF TypeInv, SignInTypeOK, Shaped
<1>5. ASSUME Finish(r), attempts' \subseteq Attempt, sessions' \subseteq Session,
             totp' \in [Names -> BOOLEAN]
      PROVE  TypeInv'
  BY <1>4, <1>5, IdleRequest DEF Finish
<1>6. CASE Tally(r)
  <2> DEFINE row(i) == [id |-> i, name |-> req[r].name, failures |-> req[r].failures + 1,
                        until |-> LockedUntil(req[r].failures + 1, req[r].at)]
  <2>1. req[r].failures + 1 \in 1 .. MaxFailures
    BY <1>1, <1>6 DEF Tally, Shaped, Request, SignInInstance
  <2>2. LockedUntil(req[r].failures + 1, req[r].at) \in 0 .. (MaxNow + LockFor)
    BY <1>1 DEF LockedUntil, None, Request, SignInInstance
  <2>3. \A i \in AttemptIds : row(i) \in Attempt
    BY <1>1, <2>1, <2>2 DEF Attempt
  <2>4. attempts' \subseteq Attempt
    <3>1. CASE req[r].found = None
      <4>1. \E i \in AttemptIds : attempts' = attempts \cup {row(i)}
        BY <1>6, <3>1 DEF Tally, FreeAttempts
      <4> QED
        BY <2>3, <4>1 DEF TypeInv, SignInTypeOK
    <3>2. CASE req[r].found # None
      <4>1. attempts' = {IF a.id = req[r].found THEN row(a.id) ELSE a : a \in attempts}
        BY <1>6, <3>2 DEF Tally
      <4>2. \A a \in attempts : a \in Attempt /\ a.id \in AttemptIds
        BY DEF TypeInv, SignInTypeOK, Attempt
      <4> QED
        BY <2>3, <4>1, <4>2
    <3> QED
      BY <3>1, <3>2
  <2> QED
    BY <1>5, <1>6, <2>4 DEF Tally, TypeInv, SignInTypeOK
<1>7. CASE DeleteRow(r)
  <2> DEFINE q == [req[r] EXCEPT !.pc = "mint", !.found = None]
  <2>1. q \in Request /\ Shaped(q) /\ req' = [req EXCEPT ![r] = q]
    BY <1>1, <1>2, <1>7 DEF Request, Shaped, Points, DeleteRow
  <2>2. attempts' \subseteq Attempt /\ sessions' \subseteq Session /\ totp' \in [Names -> BOOLEAN]
    BY <1>7 DEF DeleteRow, TypeInv, SignInTypeOK
  <2> QED
    BY <1>4, <2>1, <2>2
<1>8. CASE Mint(r)
  <2>1. PICK i \in SessionIds :
          sessions' = sessions \cup {[id |-> i, name |-> req[r].name, expires |-> now + Ttl,
                                      revoked |-> None, coded |-> req[r].coded]}
    BY <1>8 DEF Mint, FreeSessions
  <2>2. now + Ttl \in 0 .. (MaxNow + Ttl)
    BY <1>2 DEF SignInInstance
  <2>3. sessions' \subseteq Session
    BY <1>1, <2>1, <2>2 DEF TypeInv, SignInTypeOK, Session, Request
  <2> QED
    BY <1>5, <1>8, <2>3 DEF Mint, TypeInv, SignInTypeOK
<1>9. CASE EndSession(r)
  <2>1. now + 1 \in 1 .. (MaxNow + 1)
    BY <1>2 DEF SignInInstance
  <2>2. \A s \in sessions : [s EXCEPT !.revoked = now + 1] \in Session
    BY <2>1 DEF TypeInv, SignInTypeOK, Session
  <2>3. sessions' \subseteq Session
    BY <1>9, <2>2 DEF EndSession, TypeInv, SignInTypeOK
  <2> QED
    BY <1>5, <1>9, <2>3 DEF EndSession, TypeInv, SignInTypeOK
<1>10. CASE WriteFactor(r)
  <2>1. totp' \in [Names -> BOOLEAN]
    BY <1>1, <1>10 DEF WriteFactor, TypeInv, SignInTypeOK, Request
  <2> QED
    BY <1>5, <1>10, <2>1 DEF WriteFactor, TypeInv, SignInTypeOK
<1> QED
  BY <1>6, <1>7, <1>8, <1>9, <1>10

\* The clock and the process.
LEMMA ServerTypes ==
  ASSUME SignInInstance, TypeInv, Tick \/ Restart \/ ListDead \/ Sweep \/ Serve
  PROVE  TypeInv'
<1>1. CASE Tick
  BY <1>1 DEF Tick, TypeInv, SignInTypeOK, Shaped, SignInInstance
<1>2. CASE Restart
  <2>1. /\ req' = [r \in Slots |-> Idle] /\ up' = "starting" /\ dead' = {}
        /\ UNCHANGED <<now, standing, totp, attempts, sessions>>
    BY <1>2 DEF Restart
  <2>2. req' \in [Slots -> Request] /\ \A r \in Slots : Shaped(req'[r])
    BY <2>1, IdleRequest
  <2> QED
    BY <2>1, <2>2 DEF TypeInv, SignInTypeOK, Shaped
<1>3. CASE ListDead
  BY <1>3 DEF ListDead, TypeInv, SignInTypeOK, Shaped, Session
<1>4. CASE Sweep
  BY <1>4 DEF Sweep, TypeInv, SignInTypeOK, Shaped
<1>5. CASE Serve
  BY <1>5 DEF Serve, TypeInv, SignInTypeOK, Shaped
<1> QED
  BY <1>1, <1>2, <1>3, <1>4, <1>5

LEMMA InitTypes == SignInInstance /\ SignInInit => TypeInv
<1> SUFFICES ASSUME SignInInstance, SignInInit PROVE TypeInv
  OBVIOUS
<1>1. req \in [Slots -> Request] /\ \A r \in Slots : Shaped(req[r])
  BY IdleRequest DEF SignInInit
<1>2. now \in 0 .. MaxNow /\ dead \subseteq SessionIds
  BY DEF SignInInit, SignInInstance
<1> QED
  BY <1>1, <1>2 DEF SignInInit, TypeInv, SignInTypeOK

LEMMA OnwardTypes == ASSUME TypeInv, NEW r \in Slots, Onward(r) PROVE TypeInv'
BY SlotTypes DEF Onward

LEMMA NextTypes == SignInInstance /\ TypeInv /\ [SignInNext]_signIn => TypeInv'
<1> SUFFICES ASSUME SignInInstance, TypeInv, [SignInNext]_signIn PROVE TypeInv'
  OBVIOUS
<1>1. ASSUME NEW r \in Slots, Arrive(r) PROVE TypeInv'
  BY <1>1, ArriveOnward, OnwardTypes
<1>2. ASSUME NEW r \in Slots, Step(r) PROVE TypeInv'
  BY <1>2, JudgeOnward, OnwardTypes, WriteTypes DEF Step
<1>3. CASE Tick \/ Restart \/ ListDead \/ Sweep \/ Serve
  BY <1>3, ServerTypes
<1>4. CASE UNCHANGED signIn
  BY <1>4 DEF signIn, TypeInv, SignInTypeOK, Shaped
<1> QED
  BY <1>1, <1>2, <1>3, <1>4 DEF SignInNext

\* The tables and the requests keep their shape, whatever overlaps or stops.
THEOREM TypeCorrect == ASSUME SignInInstance PROVE SignInSpec => []SignInTypeOK
<1>1. TypeInv => SignInTypeOK
  BY DEF TypeInv
<1> QED
  BY <1>1, InitTypes, NextTypes, PTL DEF SignInSpec

-----------------------------------------------------------------------------
(* The sweep.                                                                *)

\* What is past the grace stays so, and had been over for longer than that.
LEMMA PastGraceStays ==
  ASSUME SignInInstance, now \in Nat, now' \in Nat, now <= now', NEW s \in Session, PastGrace(s)
  PROVE  PastGrace(s)'
<1>1. s.expires \in Nat /\ (s.revoked # None => s.revoked \in Nat)
  BY DEF Session, SignInInstance
<1> QED
  BY <1>1 DEF PastGrace, SignInInstance

LEMMA PastGraceLate ==
  ASSUME SignInInstance, now \in Nat, NEW s \in Session, PastGrace(s)
  PROVE  now > s.expires + Grace \/ (s.revoked # None /\ now > s.revoked - 1 + Grace)
<1>1. s.expires \in Nat /\ (s.revoked # None => s.revoked \in Nat \ {0})
  BY DEF Session, SignInInstance, None
<1> QED
  BY <1>1 DEF PastGrace, SignInInstance

\* Requests take no session away.
LEMMA SessionsKept ==
  ASSUME TypeInv, NEW r \in Slots, Arrive(r) \/ Step(r)
  PROVE  \A s \in sessions : \E t \in sessions' : t.id = s.id
<1>1. CASE EndSession(r)
  <2>1. \A s \in sessions : [s EXCEPT !.revoked = now + 1].id = s.id
    BY DEF TypeInv, SignInTypeOK, Session
  <2> QED
    BY <1>1, <2>1 DEF EndSession
<1>2. CASE sessions \subseteq sessions'
  BY <1>2
<1>3. CASE Mint(r)
  BY <1>3 DEF Mint
<1> QED
  BY <1>1, <1>2, <1>3 DEF Arrive, Submit, Ask, Step, CheckLock, Lookup, CheckCode, Count, Tally,
     Clear, DeleteRow, Enrol, Confirm, WriteFactor, Abort

\* They open sessions with an id of their own, and close them.
LEMMA SessionsOnceKept ==
  ASSUME TypeInv, SessionsOnce, NEW r \in Slots, Arrive(r) \/ Step(r)
  PROVE  SessionsOnce'
<1>1. CASE EndSession(r)
  <2> DEFINE ended(s) == IF s.id = req[r].sess THEN [s EXCEPT !.revoked = now + 1] ELSE s
  <2>1. \A s \in sessions : ended(s).id = s.id
    BY DEF TypeInv, SignInTypeOK, Session
  <2>2. sessions' = {ended(s) : s \in sessions}
    BY <1>1 DEF EndSession
  <2> HIDE DEF ended
  <2>3. \A t \in sessions' : \E s \in sessions : t = ended(s) /\ t.id = s.id
    BY <2>1, <2>2
  <2> QED
    BY <2>3 DEF SessionsOnce
<1>2. CASE sessions' = sessions
  BY <1>2 DEF SessionsOnce
<1>3. CASE Mint(r)
  <2>1. PICK i \in FreeSessions :
          sessions' = sessions \cup {[id |-> i, name |-> req[r].name, expires |-> now + Ttl,
                                      revoked |-> None, coded |-> req[r].coded]}
    BY <1>3 DEF Mint
  <2> QED
    BY <2>1 DEF SessionsOnce, FreeSessions
<1> QED
  BY <1>1, <1>2, <1>3 DEF Arrive, Submit, Ask, Step, CheckLock, Lookup, CheckCode, Count, Tally,
     Clear, DeleteRow, Enrol, Confirm, WriteFactor, Abort

\* Until the server serves, nothing but the sweep touches the sessions.
LEMMA NextSweep == SignInInstance /\ SweepInv /\ [SignInNext]_signIn => SweepInv'
<1> SUFFICES ASSUME SignInInstance, SweepInv, [SignInNext]_signIn PROVE (Quiet /\ SessionsOnce /\ Listed)'
  BY NextTypes DEF SweepInv
<1>1. now \in Nat /\ sessions \subseteq Session
  BY DEF SweepInv, TypeInv, SignInTypeOK, SignInInstance
<1>2. ASSUME NEW r \in Slots, Arrive(r) \/ Step(r) PROVE (Quiet /\ SessionsOnce /\ Listed)'
  <2>1. up = "serving" /\ up' = up
    BY <1>2, IdleRequest DEF SweepInv, Quiet, Arrive, Submit, Ask, Step, CheckLock, Lookup,
       CheckCode, Count, Tally, Clear, DeleteRow, Mint, EndSession, Enrol, Confirm, WriteFactor, Abort
  <2> QED
    BY <1>2, <2>1, SessionsOnceKept DEF SweepInv, Quiet, Listed
<1>3. CASE Tick
  <2>1. now' \in Nat /\ now <= now' /\ UNCHANGED <<sessions, req, up, dead>>
    BY <1>1, <1>3 DEF Tick
  <2>2. \A s \in sessions : PastGrace(s) => PastGrace(s)'
    BY <1>1, <2>1, PastGraceStays
  <2> QED
    BY <2>1, <2>2 DEF SweepInv, Quiet, SessionsOnce, Listed
<1>4. CASE Restart
  BY <1>4 DEF Restart, SweepInv, Quiet, SessionsOnce, Listed
<1>5. CASE ListDead
  <2>1. /\ up = "starting" /\ up' = "sweeping" /\ UNCHANGED <<now, sessions, req>>
        /\ dead' = {s.id : s \in {t \in sessions : PastGrace(t)}}
    BY <1>5 DEF ListDead
  <2>2. \A s \in sessions : s.id \in dead' => PastGrace(s)
    BY <2>1 DEF SweepInv, SessionsOnce
  <2> QED
    BY <2>1, <2>2 DEF SweepInv, Quiet, SessionsOnce, Listed, PastGrace
<1>6. CASE Sweep
  BY <1>6 DEF Sweep, SweepInv, Quiet, SessionsOnce, Listed, PastGrace
<1>7. CASE Serve
  BY <1>7 DEF Serve, SweepInv, Quiet, SessionsOnce, Listed
<1>8. CASE UNCHANGED signIn
  BY <1>8 DEF signIn, SweepInv, Quiet, SessionsOnce, Listed, PastGrace
<1> QED
  BY <1>2, <1>3, <1>4, <1>5, <1>6, <1>7, <1>8 DEF SignInNext

LEMMA InitSweep == SignInInstance /\ SignInInit => SweepInv
BY InitTypes DEF SignInInit, SweepInv, Quiet, SessionsOnce, Listed

\* The sweep takes a session only when it has been over for longer than the
\* grace, and nothing else takes one: whatever the sweep was cut off in, and
\* whatever was revoked or ran out since.
THEOREM SweepsLate == ASSUME SignInInstance PROVE SignInSpec => SweptLate
<1> DEFINE Late(s) == \/ now > s.expires + Grace
                      \/ s.revoked # None /\ now > s.revoked - 1 + Grace
<1>1. SweepInv /\ [SignInNext]_signIn =>
        [\A s \in sessions : (\A t \in sessions' : t.id # s.id) => Late(s)]_signIn
  <2> SUFFICES ASSUME SweepInv, SignInNext,
                      NEW s \in sessions, \A t \in sessions' : t.id # s.id
               PROVE  Late(s)
    OBVIOUS
  <2>1. now \in Nat /\ s \in Session
    BY DEF SweepInv, TypeInv, SignInTypeOK, SignInInstance
  <2>2. Sweep
    BY SessionsKept DEF SignInNext, SweepInv, Tick, Restart, ListDead, Serve
  <2>3. PastGrace(s)
    BY <2>2 DEF Sweep, SweepInv, Listed
  <2> QED
    BY <2>1, <2>3, PastGraceLate
<1> QED
  BY <1>1, InitSweep, NextSweep, PTL DEF SignInSpec, SweptLate

-----------------------------------------------------------------------------
(* The second factor.                                                        *)

\* A step of one request is no step of another.
LEMMA OthersStay ==
  ASSUME TypeInv, NEW r \in Slots, Arrive(r) \/ Step(r)
  PROVE  \A p \in Slots \ {r} : req'[p] = req[p]
BY DEF TypeInv, SignInTypeOK, Arrive, Submit, Ask, Step, CheckLock, Lookup, CheckCode, Count, Tally,
   Clear, DeleteRow, Mint, EndSession, Enrol, Confirm, WriteFactor, Abort, Finish, GoTo

\* A request gets past the second factor by a code, or when there is none.
LEMMA AskedStep ==
  ASSUME TypeInv, NEW r \in Slots, Asked(req[r]), Arrive(r) \/ Step(r)
  PROVE  Asked(req[r])'
<1>1. req[r] \in Request /\ req \in [Slots -> Request]
  BY DEF TypeInv, SignInTypeOK
<1>2. CASE req'[r].pc \notin {"clear", "delete", "mint"}
  BY <1>2 DEF Asked
<1>3. CASE Arrive(r) \/ CheckLock(r) \/ Count(r) \/ Enrol(r) \/ Confirm(r)
  <2>1. CASE Arrive(r)
    BY <1>1, <1>2, <2>1 DEF Arrive, Submit, Ask, Idle
  <2>2. CASE CheckLock(r) \/ Enrol(r) \/ Confirm(r)
    BY <1>1, <1>2, <2>2 DEF CheckLock, Enrol, Confirm, Finish, Idle, Request
  <2>3. CASE Count(r)
    BY <1>1, <1>2, <2>3 DEF Count, Request
  <2> QED
    BY <1>3, <2>1, <2>2, <2>3
<1>4. CASE Finish(r)
  BY <1>1, <1>2, <1>4 DEF Finish, Idle
<1>5. CASE GoTo(r, "count") \/ GoTo(r, "code")
  BY <1>1, <1>2, <1>5 DEF GoTo, Request
<1>6. CASE Looked(r) /\ req[r].pc = "lookup"
  BY <1>1, <1>6, LookedMoves DEF Asked
<1>7. CASE req' = [req EXCEPT ![r].pc = "clear", ![r].coded = TRUE]
  BY <1>1, <1>7 DEF Asked, Request
<1>8. CASE Clear(r) \/ DeleteRow(r)
  <2>1. req[r].on => req[r].coded
    BY <1>8 DEF Clear, DeleteRow, Asked
  <2>2. req'[r].on = req[r].on /\ req'[r].coded = req[r].coded
    <3>1. CASE Clear(r)
      <4>1. PICK a \in Found(req[r].name) :
              req' = [req EXCEPT ![r].pc = IF a = NoAttempt THEN "mint" ELSE "delete",
                                ![r].found = a.id]
        BY <3>1 DEF Clear
      <4> QED
        BY <1>1, <3>1, <4>1 DEF Clear, Request
    <3>2. CASE DeleteRow(r)
      BY <1>1, <3>2 DEF DeleteRow, Request
    <3> QED
      BY <1>8, <3>1, <3>2
  <2> QED
    BY <2>1, <2>2 DEF Asked
<1>9. CASE Lookup(r)
  <2>1. Finish(r) \/ GoTo(r, "count") \/ Looked(r)
    BY <1>9 DEF Lookup, Looked
  <2> QED
    BY <1>4, <1>5, <1>6, <1>9, <2>1 DEF Lookup
<1>10. CASE CheckCode(r)
  BY <1>4, <1>5, <1>7, <1>10 DEF CheckCode
<1> QED
  BY <1>3, <1>4, <1>8, <1>9, <1>10 DEF Step, Tally, Mint, EndSession, WriteFactor, Abort

LEMMA NextFactor == SignInInstance /\ FactorInv /\ [SignInNext]_signIn => FactorInv'
<1> SUFFICES ASSUME SignInInstance, FactorInv, [SignInNext]_signIn PROVE FactorInv'
  OBVIOUS
<1>1. TypeInv'
  BY NextTypes DEF FactorInv
<1>2. ASSUME NEW r \in Slots, Arrive(r) \/ Step(r) PROVE FactorInv'
  <2>1. Asked(req[r])'
    BY <1>2, AskedStep DEF FactorInv
  <2>2. ASSUME NEW p \in Slots \ {r} PROVE Asked(req[p])'
    BY <1>2, OthersStay DEF FactorInv, Asked
  <2> QED
    BY <1>1, <2>1, <2>2 DEF FactorInv
<1>3. CASE Restart
  BY <1>1, <1>3, IdleRequest DEF Restart, FactorInv, Asked
<1>4. CASE Tick \/ ListDead \/ Sweep \/ Serve
  BY <1>1, <1>4 DEF Tick, ListDead, Sweep, Serve, FactorInv, Asked
<1>5. CASE UNCHANGED signIn
  BY <1>1, <1>5 DEF signIn, FactorInv, Asked
<1> QED
  BY <1>2, <1>3, <1>4, <1>5 DEF SignInNext

LEMMA InitOnePerName == SignInInstance /\ SignInInit => OnePerName /\ \A r \in Slots : req[r] = Idle
BY IdleRequest DEF SignInInit, OnePerName

LEMMA InitFactor == SignInInstance /\ SignInInit => FactorInv
BY InitTypes, IdleRequest, InitOnePerName DEF FactorInv, Asked

\* Nobody signs in without a code unless the lookup of that very request found
\* the second factor off: whatever other requests do in between, of the same name
\* or not, a factor turned on or off among them, and wherever queries fail or the
\* server stops.
THEOREM AsksForCode == ASSUME SignInInstance PROVE SignInSpec => FactorHolds
<1> DEFINE Excused(s) == \E r \in Slots : /\ req[r].pc = "mint" /\ req'[r].pc = "idle"
                                          /\ req[r].name = s.name /\ ~ req[r].on
<1>1. FactorInv /\ [SignInNext]_signIn =>
        [\A s \in sessions' : (\A t \in sessions : t.id # s.id) /\ ~ s.coded => Excused(s)]_signIn
  <2> SUFFICES ASSUME FactorInv, SignInNext, NEW s \in sessions', \A t \in sessions : t.id # s.id,
                      ~ s.coded
               PROVE  Excused(s)
    OBVIOUS
  <2>1. s \notin sessions
    OBVIOUS
  <2>2. ASSUME NEW r \in Slots, EndSession(r) PROVE FALSE
    <3>1. \A t \in sessions : [t EXCEPT !.revoked = now + 1].id = t.id
      BY DEF FactorInv, TypeInv, SignInTypeOK, Session
    <3> QED
      BY <2>2, <3>1 DEF EndSession
  <2>3. PICK r \in Slots : Mint(r)
    BY <2>1, <2>2 DEF SignInNext, Arrive, Submit, Ask, Step, CheckLock, Lookup, CheckCode, Count, Tally,
       Clear, DeleteRow, Enrol, Confirm, WriteFactor, Abort, Tick, Restart, ListDead, Sweep, Serve
  <2>4. s.name = req[r].name /\ s.coded = req[r].coded /\ req[r].pc = "mint"
    BY <2>1, <2>3 DEF Mint
  <2>5. req'[r].pc = "idle"
    BY <2>3 DEF FactorInv, TypeInv, SignInTypeOK, Mint, Finish, Idle
  <2>6. ~ req[r].on
    BY <2>4 DEF FactorInv, Asked
  <2> QED
    BY <2>4, <2>5, <2>6
<1> QED
  BY <1>1, InitFactor, NextFactor, PTL DEF SignInSpec, FactorHolds

-----------------------------------------------------------------------------
(* The throttle: the rows of the table.                                      *)

\* A row is a name's only one, so that it is the one that counts.
LEMMA RowIs ==
  ASSUME OneRow, NEW n, NEW a \in RowsOf(n)
  PROVE  RowsOf(n) = {a} /\ RowOf(n) = a /\ Found(n) = {a}
<1>1. RowsOf(n) = {a}
  BY DEF OneRow, RowsOf
<1> QED
  BY <1>1 DEF RowOf, Found

LEMMA RowNext == ASSUME NEW n, NEW a, RowsOf(n)' = {a} PROVE RowOf(n)' = a
BY DEF RowOf

LEMMA NoRow ==
  ASSUME NEW n, RowsOf(n) = {}
  PROVE  RowOf(n) = NoAttempt /\ Found(n) = {NoAttempt} /\ RowOf(n).failures = 0 /\ RowOf(n).until = 0
BY DEF RowOf, Found, NoAttempt, None

LEMMA NoRowNext ==
  ASSUME NEW n, RowsOf(n)' = {} PROVE RowOf(n)'.failures = 0 /\ RowOf(n)'.until = 0
BY DEF RowOf, NoAttempt, None

LEMMA RowsSame == ASSUME NEW n, RowsOf(n)' = RowsOf(n) PROVE RowOf(n)' = RowOf(n)
BY DEF RowOf

\* What the find of a name returns, of an id that is None or not.
LEMMA FoundIs ==
  ASSUME TypeInv, OneRow, NEW n, NEW a \in Found(n)
  PROVE  /\ a = RowOf(n)
         /\ a.id = None => RowsOf(n) = {} /\ a = NoAttempt
         /\ a.id # None => RowsOf(n) = {a} /\ a # NoAttempt
<1>1. CASE RowsOf(n) = {}
  BY <1>1, NoRow DEF NoAttempt
<1>2. CASE RowsOf(n) # {}
  <2>1. a \in RowsOf(n)
    BY <1>2 DEF Found
  <2>2. a.id \in AttemptIds
    BY <2>1 DEF RowsOf, TypeInv, SignInTypeOK, Attempt
  <2>3. a.id # None /\ a # NoAttempt
    BY <2>2, NoneIsNoAttempt DEF NoAttempt
  <2> QED
    BY <2>1, <2>3, RowIs
<1> QED
  BY <1>1, <1>2

\* The write of a count: a first row, or the row that was read, one more.
LEMMA TallyWrites ==
  ASSUME SignInInstance, ThrottleInv, NEW r \in Slots, Tally(r), NEW n, n = req[r].name
  PROVE  /\ OneRow'
         /\ \A m \in Names \ {n} : RowsOf(m)' = RowsOf(m)
         /\ \E a : /\ RowsOf(n)' = {a} /\ a.failures = RowOf(n).failures + 1
                  /\ a.until = LockedUntil(RowOf(n).failures + 1, req[r].at)
<1> DEFINE q == req[r]
           row(i) == [id |-> i, name |-> n, failures |-> q.failures + 1,
                      until |-> LockedUntil(q.failures + 1, q.at)]
<1>1. q.pc = "tally" /\ n \in Names
  BY DEF Tally, ThrottleInv, TypeInv, Shaped
<1>2. attempts \subseteq Attempt
  BY DEF ThrottleInv, TypeInv, SignInTypeOK
<1>3. CASE q.found = None
  <2>1. RowsOf(n) = {} /\ q.failures = 0
    BY <1>1, <1>3 DEF ThrottleInv, Tracks
  <2>2. PICK i \in FreeAttempts : attempts' = attempts \cup {row(i)}
    BY <1>3 DEF Tally
  <2>3. \A a \in attempts : a.id # i /\ a.name # n
    BY <2>1 DEF FreeAttempts, RowsOf
  <2>4. row(i).id = i /\ row(i).name = n
    OBVIOUS
  <2>5. OneRow'
    BY <2>2, <2>3, <2>4 DEF ThrottleInv, OneRow
  <2>6. RowsOf(n)' = {row(i)} /\ \A m \in Names \ {n} : RowsOf(m)' = RowsOf(m)
    BY <2>2, <2>3, <2>4 DEF RowsOf
  <2>7. RowOf(n).failures = q.failures
    BY <2>1, NoRow
  <2>8. /\ row(i).failures = RowOf(n).failures + 1
        /\ row(i).until = LockedUntil(RowOf(n).failures + 1, q.at)
    BY <2>7
  <2> HIDE DEF row
  <2> QED
    BY <2>5, <2>6, <2>8
<1>4. CASE q.found # None
  <2>1. PICK b \in RowsOf(n) : b.id = q.found /\ b.failures = q.failures
    BY <1>1, <1>4 DEF ThrottleInv, Tracks
  <2>2. attempts' = {IF a.id = b.id THEN row(a.id) ELSE a : a \in attempts}
    BY <1>4, <2>1 DEF Tally
  <2>3. \A a \in attempts : a.id = b.id \/ a.name = n => a = b
    BY <2>1 DEF ThrottleInv, OneRow, RowsOf
  <2>4. b \in attempts /\ b.name = n /\ RowOf(n) = b
    BY <2>1, RowIs DEF RowsOf, ThrottleInv
  <2>5. row(b.id).id = b.id /\ row(b.id).name = n
    OBVIOUS
  <2>6. attempts' = (attempts \ {b}) \cup {row(b.id)}
    BY <2>2, <2>3, <2>4
  <2> HIDE DEF row
  <2>7. OneRow'
    BY <2>3, <2>5, <2>6 DEF ThrottleInv, OneRow
  <2>8. RowsOf(n)' = {row(b.id)} /\ \A m \in Names \ {n} : RowsOf(m)' = RowsOf(m)
    BY <2>3, <2>4, <2>5, <2>6 DEF RowsOf
  <2>9. /\ row(b.id).failures = RowOf(n).failures + 1
        /\ row(b.id).until = LockedUntil(RowOf(n).failures + 1, q.at)
    BY <2>1, <2>4 DEF row
  <2> QED
    BY <2>7, <2>8, <2>9
<1> QED
  BY <1>3, <1>4

\* The row that was found is deleted, and it is the name's only one.
LEMMA DeleteWrites ==
  ASSUME ThrottleInv, NEW r \in Slots, DeleteRow(r), NEW n, n = req[r].name
  PROVE  /\ OneRow' /\ RowsOf(n)' = {}
         /\ \A m \in Names \ {n} : RowsOf(m)' = RowsOf(m)
<1>1. PICK b \in RowsOf(n) : b.id = req[r].found
  BY DEF ThrottleInv, Tracks, DeleteRow
<1>2. attempts' = {a \in attempts : a.id # b.id}
  BY <1>1 DEF DeleteRow
<1>3. b.name = n /\ \A a \in attempts : a.id = b.id \/ a.name = n => a = b
  BY <1>1 DEF ThrottleInv, OneRow, RowsOf
<1> QED
  BY <1>2, <1>3 DEF ThrottleInv, OneRow, RowsOf

\* What a request reads of its name's row.
LEMMA CountReads ==
  ASSUME ThrottleInv, NEW r \in Slots, Count(r)
  PROVE  Tracks(req[r])' /\ UNCHANGED attempts
<1>1. req[r] \in Request /\ req \in [Slots -> Request]
  BY DEF ThrottleInv, TypeInv, SignInTypeOK
<1>2. PICK a \in Found(req[r].name) :
        req' = [req EXCEPT ![r].pc = "tally", ![r].at = now, ![r].found = a.id,
                          ![r].failures = a.failures]
  BY DEF Count
<1>3. /\ req'[r].pc = "tally" /\ req'[r].name = req[r].name /\ req'[r].found = a.id
      /\ req'[r].failures = a.failures
  BY <1>1, <1>2 DEF Request
<1>4. /\ a.id = None => RowsOf(req[r].name) = {} /\ a = NoAttempt
      /\ a.id # None => RowsOf(req[r].name) = {a}
  BY FoundIs DEF ThrottleInv
<1>5. attempts' = attempts
  BY DEF Count
<1>6. {b \in attempts' : b.name = req'[r].name} = RowsOf(req[r].name)
  BY <1>3, <1>5 DEF RowsOf
<1>7. NoAttempt.failures = 0
  BY DEF NoAttempt
<1> QED
  BY <1>3, <1>4, <1>5, <1>6, <1>7 DEF Tracks, RowsOf

LEMMA ClearReads ==
  ASSUME ThrottleInv, NEW r \in Slots, Clear(r)
  PROVE  Tracks(req[r])' /\ UNCHANGED attempts
<1>1. req[r] \in Request /\ req \in [Slots -> Request]
  BY DEF ThrottleInv, TypeInv, SignInTypeOK
<1>2. PICK a \in Found(req[r].name) :
        req' = [req EXCEPT ![r].pc = IF a = NoAttempt THEN "mint" ELSE "delete", ![r].found = a.id]
  BY DEF Clear
<1>3. /\ req'[r].name = req[r].name /\ req'[r].found = a.id
      /\ req'[r].pc = IF a = NoAttempt THEN "mint" ELSE "delete"
  BY <1>1, <1>2 DEF Request
<1>4. a # NoAttempt => RowsOf(req[r].name) = {a}
  BY FoundIs DEF ThrottleInv
<1>5. attempts' = attempts
  BY DEF Clear
<1>6. {b \in attempts' : b.name = req'[r].name} = RowsOf(req[r].name)
  BY <1>3, <1>5 DEF RowsOf
<1> QED
  BY <1>3, <1>4, <1>5, <1>6 DEF Tracks, RowsOf

\* A step of a request keeps to the row of its name.
LEMMA ThrottleStep ==
  ASSUME SignInInstance, ThrottleInv, NEW r \in Slots, Arrive(r) \/ Step(r), TypeInv', OnePerName'
  PROVE  ThrottleInv'
<1>1. req[r] \in Request /\ req \in [Slots -> Request]
  BY DEF ThrottleInv, TypeInv, SignInTypeOK
<1>2. ASSUME NEW p \in Slots \ {r}, req[p].pc # "idle"
      PROVE  req[p].name \in Names /\ req[p].name # req[r].name
  BY <1>2 DEF ThrottleInv, TypeInv, Shaped, OnePerName, SignInInstance
<1>3. OneRow' /\ \A m \in Names : m # req[r].name => RowsOf(m)' = RowsOf(m)
  <2>1. CASE Tally(r)
    BY <2>1, TallyWrites
  <2>2. CASE DeleteRow(r)
    BY <2>2, DeleteWrites
  <2>3. CASE attempts' = attempts
    BY <2>3 DEF ThrottleInv, OneRow, RowsOf
  <2> QED
    BY <2>1, <2>2, <2>3 DEF Arrive, Submit, Ask, Step, CheckLock, Lookup, CheckCode, Count,
       Clear, Mint, EndSession, Enrol, Confirm, WriteFactor, Abort
<1>4. ASSUME NEW p \in Slots \ {r} PROVE Tracks(req[p])'
  <2>1. Tracks(req[p]) /\ req'[p] = req[p]
    BY OthersStay DEF ThrottleInv
  <2>2. CASE req[p].pc = "idle"
    BY <2>1, <2>2 DEF Tracks
  <2>3. CASE req[p].pc # "idle"
    <3>1. {b \in attempts' : b.name = req'[p].name} = RowsOf(req[p].name)
      BY <1>2, <1>3, <2>1, <2>3 DEF RowsOf
    <3> QED
      BY <2>1, <3>1 DEF Tracks, RowsOf
  <2> QED
    BY <2>2, <2>3
<1>5. Tracks(req[r])'
  <2>1. CASE req'[r].pc \notin {"tally", "delete"}
    BY <2>1 DEF Tracks
  <2>2. CASE Finish(r)
    BY <1>1, <2>1, <2>2 DEF Finish, Idle
  <2>3. CASE Arrive(r)
    BY <1>1, <2>1, <2>3 DEF Arrive, Submit, Ask, Idle
  <2>4. CASE CheckLock(r) \/ Lookup(r) \/ CheckCode(r)
    <3>1. \/ Finish(r) \/ GoTo(r, "count") \/ GoTo(r, "clear")
          \/ req' = [req EXCEPT ![r].pc = "lookup", ![r].at = now]
          \/ req' = [req EXCEPT ![r].pc = "clear", ![r].coded = TRUE]
          \/ Looked(r) /\ req[r].pc = "lookup"
      BY <2>4 DEF CheckLock, Lookup, CheckCode, Looked
    <3>2. \A pc : GoTo(r, pc) => req'[r].pc = pc
      BY <1>1 DEF GoTo, Request
    <3>3. Looked(r) /\ req[r].pc = "lookup" => req'[r].pc \notin {"tally", "delete"}
      BY <1>1, LookedMoves DEF ThrottleInv
    <3>4. \/ Finish(r) \/ req'[r].pc \notin {"tally", "delete"}
      BY <1>1, <3>1, <3>2, <3>3 DEF Request
    <3> QED
      BY <2>1, <2>2, <3>4
  <2>5. CASE Enrol(r) \/ Confirm(r) \/ DeleteRow(r)
    BY <1>1, <2>1, <2>2, <2>5 DEF Enrol, Confirm, DeleteRow, Request
  <2> QED
    BY <2>2, <2>3, <2>4, <2>5, CountReads, ClearReads DEF Step, Tally, Mint, EndSession,
       WriteFactor, Abort
<1> QED
  BY <1>3, <1>4, <1>5 DEF ThrottleInv

LEMMA NextThrottle == SignInInstance /\ ThrottleInv /\ [SignInNext /\ OnePerName']_signIn => ThrottleInv'
<1> SUFFICES ASSUME SignInInstance, ThrottleInv, [SignInNext /\ OnePerName']_signIn PROVE ThrottleInv'
  OBVIOUS
<1>1. TypeInv'
  BY NextTypes DEF ThrottleInv
<1>2. ASSUME NEW r \in Slots, Arrive(r) \/ Step(r), OnePerName' PROVE ThrottleInv'
  BY <1>1, <1>2, ThrottleStep
<1>3. CASE Restart /\ OnePerName'
  <2>1. attempts' = attempts /\ \A r \in Slots : req'[r].pc = "idle"
    BY <1>3, IdleRequest DEF Restart
  <2> QED
    BY <1>1, <1>3, <2>1 DEF ThrottleInv, OneRow, Tracks
<1>4. CASE (Tick \/ ListDead \/ Sweep \/ Serve) /\ OnePerName'
  BY <1>1, <1>4 DEF Tick, ListDead, Sweep, Serve, ThrottleInv, OneRow, Tracks, RowsOf
<1>5. CASE UNCHANGED signIn
  BY <1>1, <1>5 DEF signIn, ThrottleInv, OnePerName, OneRow, Tracks, RowsOf
<1> QED
  BY <1>2, <1>3, <1>4, <1>5 DEF SignInNext

LEMMA InitThrottle == SignInInstance /\ SignInInit => ThrottleInv
<1> SUFFICES ASSUME SignInInstance, SignInInit PROVE ThrottleInv
  OBVIOUS
<1>1. attempts = {} /\ OnePerName /\ \A r \in Slots : req[r].pc = "idle"
  BY InitOnePerName, IdleRequest DEF SignInInit
<1> QED
  BY <1>1, InitTypes DEF ThrottleInv, OneRow, Tracks

-----------------------------------------------------------------------------
(* The refinement of Lockout: its variables, and which of its steps a step   *)
(* of a request is.                                                          *)

Failures == [n \in Names |-> RowOf(n).failures]
LockEnds == [n \in Names |-> RowOf(n).until]
BeganAt == [n \in Names |-> Began(req, n)]

\* Since when an attempt is being judged, when there is one, and when not.
LEMMA BeganIs ==
  ASSUME NEW f, NEW n, NEW r \in Slots, Judges(f[r], n),
         \A p \in Slots : Judges(f[p], n) => p = r
  PROVE  Began(f, n) = f[r].at
BY DEF Began

LEMMA BeganNot ==
  ASSUME NEW f, NEW n, \A p \in Slots : ~ Judges(f[p], n) PROVE Began(f, n) = MaxNow + 1
BY DEF Began

\* A request that judges no attempt on a name, before a step or after it.
LEMMA BeganSame ==
  ASSUME SignInInstance, OnePerName, NEW m \in Names, NEW r \in Slots,
         \A p \in Slots \ {r} : req'[p] = req[p],
         ~ Judges(req[r], m), ~ Judges(req'[r], m)
  PROVE  Began(req', m) = Began(req, m)
<1>1. PICK f : f = req'
  OBVIOUS
<1>2. \A p \in Slots : Judges(f[p], m) <=> Judges(req[p], m)
  BY <1>1
<1>3. CASE \E p \in Slots : Judges(req[p], m)
  <2>1. PICK p \in Slots : Judges(req[p], m)
    BY <1>3
  <2>2. p # r /\ f[p] = req[p] /\ \A s \in Slots : Judges(req[s], m) => s = p
    BY <1>1, <2>1 DEF Judges, OnePerName, SignInInstance
  <2>3. Began(req, m) = req[p].at
    BY <2>1, <2>2, BeganIs
  <2>4. Began(f, m) = f[p].at
    BY <1>2, <2>1, <2>2, BeganIs
  <2> QED
    BY <1>1, <2>2, <2>3, <2>4
<1>4. CASE \A p \in Slots : ~ Judges(req[p], m)
  BY <1>1, <1>2, <1>4, BeganNot
<1> QED
  BY <1>3, <1>4

\* A step of the request of a name leaves the other names alone.
LEMMA BeganStep ==
  ASSUME SignInInstance, TypeInv, OnePerName, OnePerName', NEW r \in Slots, NEW n \in Names,
         req[r].name = n, NEW q \in Request, req' = [req EXCEPT ![r] = q], q.name \in {n, None}
  PROVE  /\ Judges(req[r], n) => BeganAt[n] = req[r].at
         /\ ~ Judges(req[r], n) => BeganAt[n] = MaxNow + 1
         /\ BeganAt' = [BeganAt EXCEPT ![n] = IF Judges(q, n) THEN q.at ELSE MaxNow + 1]
<1>1. /\ req'[r] = q /\ \A p \in Slots \ {r} : req'[p] = req[p]
  BY DEF TypeInv, SignInTypeOK
<1>2. \A p \in Slots : req[p].name = n => p = r
  BY DEF OnePerName, SignInInstance
<1>3. \A p \in Slots : Judges(req[p], n) => p = r
  BY <1>2 DEF Judges
<1>4. \A p \in Slots : Judges(req'[p], n) => p = r
  BY <1>1, <1>3
<1>5. /\ Judges(req[r], n) => Began(req, n) = req[r].at
      /\ ~ Judges(req[r], n) => Began(req, n) = MaxNow + 1
  BY <1>3, BeganIs, BeganNot
<1>6. Began(req', n) = IF Judges(q, n) THEN q.at ELSE MaxNow + 1
  <2>1. PICK f : f = req'
    OBVIOUS
  <2>2. f[r] = q /\ \A p \in Slots : Judges(f[p], n) => p = r
    BY <1>1, <1>4, <2>1
  <2>3. Judges(q, n) => Began(f, n) = q.at
    BY <2>2, BeganIs
  <2>4. ~ Judges(q, n) => Began(f, n) = MaxNow + 1
    BY <2>2, BeganNot
  <2> QED
    BY <2>1, <2>3, <2>4
<1>7. ASSUME NEW m \in Names \ {n} PROVE Began(req', m) = Began(req, m)
  <2>1. ~ Judges(req[r], m) /\ ~ Judges(req'[r], m)
    BY <1>1 DEF Judges, SignInInstance
  <2> QED
    BY <1>1, <2>1, BeganSame
<1>8. BeganAt = [m \in Names |-> Began(req, m)] /\ BeganAt' = [m \in Names |-> Began(req', m)]
  BY DEF BeganAt
<1>9. BeganAt[n] = Began(req, n)
  BY <1>8
<1> DEFINE after == IF Judges(q, n) THEN q.at ELSE MaxNow + 1
<1> HIDE DEF after
<1>10. Began(req', n) = after
  BY <1>6 DEF after
<1>11. BeganAt' = [BeganAt EXCEPT ![n] = after]
  BY <1>7, <1>8, <1>10
<1> QED
  BY <1>5, <1>9, <1>11 DEF after

\* The steps of Lockout, in the terms of this module.
LEMMA IsTry ==
  ASSUME NEW n \in Names, now \in Nat, LockEnds[n] \in Nat,
         BeganAt[n] = MaxNow + 1 => LockEnds[n] <= now,
         BeganAt' = [BeganAt EXCEPT ![n] = now], UNCHANGED <<now, Failures, LockEnds>>
  PROVE  L!Try(n)
BY DEF L!Try, L!Locked, L!NotTrying, Failures, LockEnds, BeganAt

LEMMA IsGiveUp ==
  ASSUME NEW n \in Names, BeganAt' = [BeganAt EXCEPT ![n] = MaxNow + 1],
         UNCHANGED <<now, Failures, LockEnds>>
  PROVE  L!GiveUp(n)
BY DEF L!GiveUp, L!NotTrying, Failures, LockEnds, BeganAt

LEMMA IsFail ==
  ASSUME NEW n \in Names, BeganAt[n] # MaxNow + 1, now' = now,
         BeganAt' = [BeganAt EXCEPT ![n] = MaxNow + 1],
         Failures' = [Failures EXCEPT ![n] = @ + 1],
         LockEnds' = [LockEnds EXCEPT ![n] =
                        IF Failures[n] + 1 >= MaxAttempts THEN BeganAt[n] + LockFor ELSE 0]
  PROVE  L!Fail(n)
BY DEF L!Fail, L!NotTrying, Failures, LockEnds, BeganAt

LEMMA IsSucceed ==
  ASSUME NEW n \in Names, BeganAt[n] # MaxNow + 1, now' = now,
         BeganAt' = [BeganAt EXCEPT ![n] = MaxNow + 1],
         Failures' = [Failures EXCEPT ![n] = 0], LockEnds' = [LockEnds EXCEPT ![n] = 0]
  PROVE  L!Succeed(n)
BY DEF L!Succeed, L!NotTrying, Failures, LockEnds, BeganAt

LEMMA IsStutter ==
  ASSUME UNCHANGED <<now, Failures, LockEnds, BeganAt>> PROVE UNCHANGED L!throttle
BY DEF L!throttle, Failures, LockEnds, BeganAt

\* Of a table that stays, and of one where a single name's row changed.
LEMMA TableSame == ASSUME UNCHANGED attempts PROVE UNCHANGED <<Failures, LockEnds>>
BY DEF Failures, LockEnds, RowOf, RowsOf

LEMMA TableOne ==
  ASSUME NEW n \in Names, \A m \in Names \ {n} : RowsOf(m)' = RowsOf(m)
  PROVE  /\ Failures' = [Failures EXCEPT ![n] = RowOf(n)'.failures]
         /\ LockEnds' = [LockEnds EXCEPT ![n] = RowOf(n)'.until]
<1>1. \A m \in Names \ {n} : RowOf(m)' = RowOf(m)
  BY RowsSame
<1> QED
  BY <1>1 DEF Failures, LockEnds

\* A request that is judged on, or is not any more, without a trace in the table.
LEMMA PlainStep ==
  ASSUME SignInInstance, TypeInv, OnePerName, OnePerName', UNCHANGED <<now, attempts>>,
         NEW r \in Slots, NEW n \in Names, req[r].name = n,
         NEW q \in Request, req' = [req EXCEPT ![r] = q], q.name \in {n, None},
         Judges(q, n) => Judges(req[r], n) /\ q.at = req[r].at
  PROVE  [L!Next]_L!throttle
<1>1. /\ Judges(req[r], n) => BeganAt[n] = req[r].at
      /\ ~ Judges(req[r], n) => BeganAt[n] = MaxNow + 1
      /\ BeganAt' = [BeganAt EXCEPT ![n] = IF Judges(q, n) THEN q.at ELSE MaxNow + 1]
  BY BeganStep
<1>2. UNCHANGED <<now, Failures, LockEnds>>
  BY TableSame
<1>3. CASE Judges(q, n)
  <2>1. BeganAt' = BeganAt
    BY <1>1, <1>3 DEF BeganAt
  <2> QED
    BY <1>2, <2>1, IsStutter
<1>4. CASE ~ Judges(q, n)
  <2>1. L!GiveUp(n)
    BY <1>1, <1>2, <1>4, IsGiveUp
  <2> QED
    BY <2>1 DEF L!Next
<1> QED
  BY <1>3, <1>4

\* A request that arrives is not judged yet, one after the mint no longer.
LEMMA UnjudgedStep ==
  ASSUME SignInInstance, OnePerName, UNCHANGED <<now, attempts>>, NEW r \in Slots,
         \A p \in Slots \ {r} : req'[p] = req[p],
         \A m \in Names : ~ Judges(req[r], m) /\ ~ Judges(req'[r], m)
  PROVE  UNCHANGED L!throttle
<1>1. \A m \in Names : Began(req', m) = Began(req, m)
  BY BeganSame
<1>2. BeganAt' = BeganAt
  BY <1>1 DEF BeganAt
<1> QED
  BY <1>2, TableSame, IsStutter

\* The name a busy request is about.
LEMMA NameOf ==
  ASSUME TypeInv, NEW r \in Slots, req[r].pc # "idle"
  PROVE  \E n \in Names : n = req[r].name
BY DEF TypeInv, Shaped

\* The attempt begins on a name that is not locked.
LEMMA CheckLockIs ==
  ASSUME SignInInstance, ThrottleInv, OnePerName', NEW r \in Slots, CheckLock(r)
  PROVE  [L!Next]_L!throttle
<1>1. PICK n \in Names : n = req[r].name
  BY NameOf DEF ThrottleInv, CheckLock
<1>2. /\ req[r] \in Request /\ req \in [Slots -> Request] /\ now \in 0 .. MaxNow /\ now \in Nat
      /\ req[r].pc = "lockout" /\ UNCHANGED <<now, attempts>>
  BY DEF ThrottleInv, TypeInv, SignInTypeOK, CheckLock, SignInInstance
<1>3. CASE Finish(r)
  BY <1>1, <1>2, <1>3, IdleRequest, PlainStep DEF Finish, ThrottleInv, Judges
<1>4. ASSUME NEW a \in Found(n), ~ a.until > now,
             req' = [req EXCEPT ![r].pc = "lookup", ![r].at = now]
      PROVE  [L!Next]_L!throttle
  <2> DEFINE q == [req[r] EXCEPT !.pc = "lookup", !.at = now]
  <2>1. q \in Request /\ req' = [req EXCEPT ![r] = q] /\ Judges(q, n) /\ q.at = now /\ q.name = n
    BY <1>1, <1>2, <1>4 DEF Request, Points, Judges
  <2> HIDE DEF q
  <2>2. BeganAt' = [BeganAt EXCEPT ![n] = now]
    BY <1>1, <2>1, BeganStep DEF ThrottleInv
  <2>3. LockEnds[n] = a.until
    BY <1>4, FoundIs DEF LockEnds, ThrottleInv
  <2>4. a.until \in Nat
    BY DEF Found, RowsOf, NoAttempt, None, ThrottleInv, TypeInv, SignInTypeOK, Attempt, SignInInstance
  <2>5. UNCHANGED <<now, Failures, LockEnds>>
    BY <1>2, TableSame
  <2>6. LockEnds[n] \in Nat /\ LockEnds[n] <= now
    BY <1>2, <1>4, <2>3, <2>4
  <2>7. L!Try(n)
    BY <1>2, <2>2, <2>5, <2>6, IsTry
  <2> QED
    BY <2>7 DEF L!Next
<1> QED
  BY <1>1, <1>3, <1>4 DEF CheckLock

\* A failure about to be counted is an attempt under way from that moment.
LEMMA CountIs ==
  ASSUME SignInInstance, ThrottleInv, OnePerName', NEW r \in Slots, Count(r)
  PROVE  [L!Next]_L!throttle
<1>1. PICK n \in Names : n = req[r].name
  BY NameOf DEF ThrottleInv, Count
<1>2. /\ req[r] \in Request /\ req \in [Slots -> Request] /\ now \in 0 .. MaxNow /\ now \in Nat
      /\ req[r].pc = "count" /\ UNCHANGED <<now, attempts>>
  BY DEF ThrottleInv, TypeInv, SignInTypeOK, Count, SignInInstance
<1>3. PICK a \in Found(n) :
        /\ a.failures < MaxFailures
        /\ req' = [req EXCEPT ![r].pc = "tally", ![r].at = now, ![r].found = a.id,
                              ![r].failures = a.failures]
  BY <1>1 DEF Count
<1>4. /\ a.id \in AttemptIds \cup {None} /\ a.failures \in 0 .. MaxFailures /\ a.until \in Nat
      /\ a = RowOf(n)
  BY FoundIs DEF ThrottleInv, TypeInv, SignInTypeOK, Found, RowsOf, NoAttempt, None, Attempt, SignInInstance
<1> DEFINE q == [req[r] EXCEPT !.pc = "tally", !.at = now, !.found = a.id, !.failures = a.failures]
<1>5. q \in Request /\ req' = [req EXCEPT ![r] = q] /\ Judges(q, n) /\ q.at = now /\ q.name = n
  BY <1>1, <1>2, <1>3, <1>4 DEF Request, Points, Judges
<1> HIDE DEF q
<1>6. /\ BeganAt[n] = req[r].at /\ BeganAt' = [BeganAt EXCEPT ![n] = now]
  BY <1>1, <1>2, <1>5, BeganStep DEF ThrottleInv, Judges
<1>7. BeganAt[n] # MaxNow + 1
  BY <1>2, <1>6 DEF Request, SignInInstance
<1>8. LockEnds[n] \in Nat
  BY <1>4 DEF LockEnds
<1>9. L!Try(n)
  BY <1>2, <1>6, <1>7, <1>8, TableSame, IsTry
<1> QED
  BY <1>9 DEF L!Next

\* Everything else that leaves the table alone.
LEMMA JudgeIs ==
  ASSUME SignInInstance, ThrottleInv, OnePerName', NEW r \in Slots,
         Lookup(r) \/ CheckCode(r) \/ Clear(r) \/ Abort(r)
  PROVE  [L!Next]_L!throttle
<1>1. PICK n \in Names : n = req[r].name
  BY NameOf DEF ThrottleInv, Lookup, CheckCode, Clear, Abort
<1>2. /\ req[r] \in Request /\ req \in [Slots -> Request] /\ UNCHANGED <<now, attempts>>
  BY DEF ThrottleInv, TypeInv, SignInTypeOK, Lookup, CheckCode, Clear, Abort
<1>3. ASSUME NEW q \in Request, req' = [req EXCEPT ![r] = q], q.name \in {n, None},
             Judges(q, n) => Judges(req[r], n) /\ q.at = req[r].at
      PROVE  [L!Next]_L!throttle
  BY <1>1, <1>2, <1>3, PlainStep DEF ThrottleInv
<1>4. CASE Finish(r)
  <2>1. Idle \in Request /\ Idle.name = None /\ ~ Judges(Idle, n)
    BY IdleRequest DEF Judges, SignInInstance
  <2> QED
    BY <1>3, <1>4, <2>1 DEF Finish
<1>5. ASSUME NEW pc \in Points, GoTo(r, pc), Judges(req[r], n) PROVE [L!Next]_L!throttle
  <2> DEFINE q == [req[r] EXCEPT !.pc = pc]
  <2>1. q \in Request /\ req' = [req EXCEPT ![r] = q] /\ q.name = n /\ q.at = req[r].at
    BY <1>1, <1>2, <1>5 DEF Request, GoTo
  <2> QED
    BY <1>3, <1>5, <2>1
<1>6. CASE Lookup(r)
  <2>1. Judges(req[r], n)
    BY <1>1, <1>6 DEF Lookup, Judges
  <2>2. CASE Looked(r)
    BY <1>1, <1>3, <1>6, <2>1, <2>2, LookedMoves DEF ThrottleInv, Lookup
  <2>3. Finish(r) \/ GoTo(r, "count") \/ Looked(r)
    BY <1>6 DEF Lookup, Looked
  <2> QED
    BY <1>4, <1>5, <2>1, <2>2, <2>3 DEF Points
<1>7. CASE CheckCode(r)
  <2>1. Judges(req[r], n)
    BY <1>1, <1>7 DEF CheckCode, Judges
  <2>2. CASE req' = [req EXCEPT ![r].pc = "clear", ![r].coded = TRUE]
    <3> DEFINE q == [req[r] EXCEPT !.pc = "clear", !.coded = TRUE]
    <3>1. q \in Request /\ req' = [req EXCEPT ![r] = q] /\ q.name = n /\ q.at = req[r].at
      BY <1>1, <1>2, <2>2 DEF Request, Points
    <3> QED
      BY <1>3, <2>1, <3>1
  <2>3. Finish(r) \/ GoTo(r, "count") \/ req' = [req EXCEPT ![r].pc = "clear", ![r].coded = TRUE]
    BY <1>7 DEF CheckCode
  <2> QED
    BY <1>4, <1>5, <2>1, <2>2, <2>3 DEF Points
<1>8. CASE Clear(r)
  <2>1. PICK a \in Found(n) :
          req' = [req EXCEPT ![r].pc = IF a = NoAttempt THEN "mint" ELSE "delete", ![r].found = a.id]
    BY <1>1, <1>8 DEF Clear
  <2>2. a.id \in AttemptIds \cup {None}
    BY DEF ThrottleInv, TypeInv, SignInTypeOK, Found, RowsOf, NoAttempt, Attempt
  <2> DEFINE q == [req[r] EXCEPT !.pc = IF a = NoAttempt THEN "mint" ELSE "delete", !.found = a.id]
  <2>3. q \in Request /\ req' = [req EXCEPT ![r] = q] /\ q.name = n /\ q.at = req[r].at
    BY <1>1, <1>2, <2>1, <2>2 DEF Request, Points
  <2>4. Judges(req[r], n)
    BY <1>1, <1>8 DEF Clear, Judges
  <2> QED
    BY <1>3, <2>3, <2>4
<1>9. CASE Abort(r)
  BY <1>4, <1>9 DEF Abort
<1> QED
  BY <1>6, <1>7, <1>8, <1>9

\* The failure is counted, and locks from when the request looked at the clock.
LEMMA TallyIs ==
  ASSUME SignInInstance, ThrottleInv, OnePerName', NEW r \in Slots, Tally(r)
  PROVE  [L!Next]_L!throttle
<1>1. PICK n \in Names : n = req[r].name
  BY NameOf DEF ThrottleInv, Tally
<1>2. /\ req[r] \in Request /\ req[r].pc = "tally" /\ req' = [req EXCEPT ![r] = Idle] /\ now' = now
  BY DEF ThrottleInv, TypeInv, SignInTypeOK, Tally, Finish
<1>3. Judges(req[r], n) /\ ~ Judges(Idle, n)
  BY <1>1, <1>2, IdleRequest DEF Judges, SignInInstance
<1>4. BeganAt[n] = req[r].at /\ BeganAt' = [BeganAt EXCEPT ![n] = MaxNow + 1]
  BY <1>1, <1>2, <1>3, IdleRequest, BeganStep DEF ThrottleInv
<1>5. req[r].at # MaxNow + 1
  BY <1>2 DEF Request, SignInInstance
<1>6. PICK a : /\ RowsOf(n)' = {a} /\ a.failures = RowOf(n).failures + 1
               /\ a.until = LockedUntil(RowOf(n).failures + 1, req[r].at)
  BY <1>1, TallyWrites
<1>7. /\ Failures' = [Failures EXCEPT ![n] = a.failures]
      /\ LockEnds' = [LockEnds EXCEPT ![n] = a.until]
  <2>1. RowOf(n)' = a
    BY <1>6, RowNext
  <2>2. \A m \in Names \ {n} : RowsOf(m)' = RowsOf(m)
    BY <1>1, TallyWrites
  <2> QED
    BY <2>1, <2>2, TableOne
<1>8. Failures[n] = RowOf(n).failures
  BY DEF Failures
<1>9. Failures' = [Failures EXCEPT ![n] = @ + 1]
  BY <1>6, <1>7, <1>8
<1>10. LockEnds' = [LockEnds EXCEPT ![n] =
                      IF Failures[n] + 1 >= MaxAttempts THEN BeganAt[n] + LockFor ELSE 0]
  BY <1>4, <1>6, <1>7, <1>8 DEF LockedUntil, None
<1>11. L!Fail(n)
  BY <1>2, <1>4, <1>5, <1>9, <1>10, IsFail
<1> QED
  BY <1>11 DEF L!Next

\* The failures are forgotten.
LEMMA DeleteIs ==
  ASSUME SignInInstance, ThrottleInv, OnePerName', NEW r \in Slots, DeleteRow(r)
  PROVE  [L!Next]_L!throttle
<1>1. PICK n \in Names : n = req[r].name
  BY NameOf DEF ThrottleInv, DeleteRow
<1>2. /\ req[r] \in Request /\ req \in [Slots -> Request] /\ req[r].pc = "delete" /\ now' = now
      /\ req' = [req EXCEPT ![r].pc = "mint", ![r].found = None]
  BY DEF ThrottleInv, TypeInv, SignInTypeOK, DeleteRow
<1> DEFINE q == [req[r] EXCEPT !.pc = "mint", !.found = None]
<1>3. q \in Request /\ req' = [req EXCEPT ![r] = q] /\ q.name = n /\ ~ Judges(q, n)
  BY <1>1, <1>2 DEF Request, Points, Judges
<1>4. Judges(req[r], n)
  BY <1>1, <1>2 DEF Judges
<1> HIDE DEF q
<1>5. BeganAt[n] = req[r].at /\ BeganAt' = [BeganAt EXCEPT ![n] = MaxNow + 1]
  BY <1>1, <1>3, <1>4, BeganStep DEF ThrottleInv
<1>6. req[r].at # MaxNow + 1
  BY <1>2 DEF Request, SignInInstance
<1>7. Failures' = [Failures EXCEPT ![n] = 0] /\ LockEnds' = [LockEnds EXCEPT ![n] = 0]
  <2>1. RowsOf(n)' = {} /\ \A m \in Names \ {n} : RowsOf(m)' = RowsOf(m)
    BY <1>1, DeleteWrites
  <2>2. RowOf(n)'.failures = 0 /\ RowOf(n)'.until = 0
    BY <2>1, NoRowNext
  <2> QED
    BY <2>1, <2>2, TableOne
<1>8. L!Succeed(n)
  BY <1>2, <1>5, <1>6, <1>7, IsSucceed
<1> QED
  BY <1>8 DEF L!Next

\* What has nothing to do with the throttle.
LEMMA OtherIs ==
  ASSUME SignInInstance, ThrottleInv, NEW r \in Slots,
         Arrive(r) \/ Mint(r) \/ EndSession(r) \/ Enrol(r) \/ Confirm(r) \/ WriteFactor(r)
  PROVE  UNCHANGED L!throttle
<1>1. \A p \in Slots \ {r} : req'[p] = req[p]
  BY OthersStay DEF ThrottleInv, Step
<1>2. UNCHANGED <<now, attempts>>
  BY DEF Arrive, Submit, Ask, Mint, EndSession, Enrol, Confirm, WriteFactor
<1>3. \A m \in Names : ~ Judges(req[r], m)
  BY DEF Judges, Arrive, Submit, Ask, Mint, EndSession, Enrol, Confirm, WriteFactor
<1>4. req'[r].pc \notin {"lookup", "code", "count", "tally", "clear", "delete"}
  <2>1. req[r] \in Request /\ req \in [Slots -> Request]
    BY DEF ThrottleInv, TypeInv, SignInTypeOK
  <2>2. CASE Finish(r)
    BY <2>1, <2>2 DEF Finish, Idle
  <2>3. CASE Arrive(r)
    BY <2>1, <2>3 DEF Arrive, Submit, Ask, Idle
  <2>4. CASE Enrol(r) \/ Confirm(r)
    BY <2>1, <2>2, <2>4 DEF Enrol, Confirm, Request
  <2> QED
    BY <2>2, <2>3, <2>4 DEF Mint, EndSession, WriteFactor
<1> QED
  BY <1>1, <1>2, <1>3, <1>4, UnjudgedStep DEF Judges, ThrottleInv

\* The clock ticks, the server stops, or starts.
LEMMA ServerIs ==
  ASSUME SignInInstance, ThrottleInv, Tick \/ Restart \/ ListDead \/ Sweep \/ Serve
  PROVE  [L!Next]_L!throttle
<1>1. UNCHANGED attempts
  BY DEF Tick, Restart, ListDead, Sweep, Serve
<1>2. CASE req' = req
  <2>1. UNCHANGED <<Failures, LockEnds, BeganAt>>
    BY <1>1, <1>2, TableSame DEF BeganAt, Began
  <2>2. Tick \/ now' = now
    BY DEF Restart, ListDead, Sweep, Serve
  <2>3. CASE Tick
    BY <2>1, <2>3 DEF Tick, L!Next, L!Tick, Failures, LockEnds, BeganAt
  <2> QED
    BY <2>1, <2>2, <2>3, IsStutter
<1>3. CASE Restart
  <2>1. \A n \in Names : Began(req', n) = MaxNow + 1
    <3>1. PICK f : f = req'
      OBVIOUS
    <3>2. \A n \in Names, r \in Slots : ~ Judges(f[r], n)
      BY <1>3, <3>1, IdleRequest DEF Restart, Judges
    <3> QED
      BY <3>1, <3>2, BeganNot
  <2>2. BeganAt' = [n \in Names |-> MaxNow + 1] /\ UNCHANGED <<now, Failures, LockEnds>>
    BY <1>1, <1>3, <2>1, TableSame DEF Restart, BeganAt
  <2>3. L!Stop
    BY <2>2 DEF L!Stop, L!NotTrying, Failures, LockEnds, BeganAt
  <2> QED
    BY <2>3 DEF L!Next
<1> QED
  BY <1>2, <1>3 DEF Tick, ListDead, Sweep, Serve

LEMMA InitIs == SignInInstance /\ SignInInit => L!Init
<1> SUFFICES ASSUME SignInInstance, SignInInit PROVE L!Init
  OBVIOUS
<1>1. ASSUME NEW n \in Names
      PROVE  RowOf(n).failures = 0 /\ RowOf(n).until = 0 /\ Began(req, n) = MaxNow + 1
  <2>1. RowsOf(n) = {}
    BY DEF SignInInit, RowsOf
  <2>2. \A r \in Slots : ~ Judges(req[r], n)
    BY InitOnePerName, IdleRequest DEF Judges
  <2> QED
    BY <2>1, <2>2, NoRow, BeganNot
<1> QED
  BY <1>1 DEF SignInInit, L!Init, L!NotTrying

\* With requests of one name handled one at a time, those of different names in
\* any order, the table and its queries are the counter and the lock that the
\* throttle is meant to be, wherever a request or the server stops.
THEOREM Throttles == ASSUME SignInInstance PROVE DisciplinedSpec => Throttled
<1>1. ThrottleInv /\ [SignInNext /\ OnePerName']_signIn => [L!Next]_L!throttle
  <2> SUFFICES ASSUME ThrottleInv, [SignInNext /\ OnePerName']_signIn PROVE [L!Next]_L!throttle
    OBVIOUS
  <2>1. ASSUME NEW r \in Slots, Arrive(r) \/ Step(r), OnePerName' PROVE [L!Next]_L!throttle
    BY <2>1, CheckLockIs, CountIs, JudgeIs, TallyIs, DeleteIs, OtherIs DEF Step
  <2>2. CASE Tick \/ Restart \/ ListDead \/ Sweep \/ Serve
    BY <2>2, ServerIs
  <2>3. CASE UNCHANGED signIn
    <3>1. UNCHANGED <<now, Failures, LockEnds, BeganAt>>
      BY <2>3, TableSame DEF signIn, BeganAt, Began
    <3> QED
      BY <3>1, IsStutter
  <2> QED
    BY <2>1, <2>2, <2>3 DEF SignInNext
<1> QED
  BY <1>1, InitIs, InitThrottle, NextThrottle, PTL DEF DisciplinedSpec, Throttled, L!Spec

===============================================================================
