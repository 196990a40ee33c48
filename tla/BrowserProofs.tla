----------------------------- MODULE BrowserProofs ----------------------------
(* Theorems about Browser, for every number of tabs and sessions and every   *)
(* lifetime of tokens and sessions, with answers late or lost; one of them   *)
(* asks that the browser has one request outstanding at a time.  And about   *)
(* ReturnTo, for every address, filter and cursor.                           *)
EXTENDS Browser, ReturnTo, Loops

-----------------------------------------------------------------------------
(* What messages carry.  How many token values there are does not matter.    *)

Shape(m) ==
  /\ m.phase \in {"quiet", "asking", "answer"} /\ (m.phase = "quiet" => m = Quiet)
  /\ m.phase = "asking" =>
       m.sess \in Sessions \cup {Absent} /\ m.csrf.at \in 0 .. clock /\ m.form.at \in 0 .. clock
  /\ m.phase = "answer" =>
       /\ m.sess \in Sessions \cup {Absent, Cleared} /\ m.came \in Sessions \cup {Absent}
       /\ m.csrf.at \in 0 .. clock /\ m.token.at \in 0 .. clock /\ m.form.at \in 0 .. clock

Shapes ==
  /\ clock \in Nat /\ ends \in [Sessions -> Nat]
  /\ jar.csrf.at \in 0 .. clock /\ jar.csrfEnd \in Nat
  /\ jar.sess \in Sessions \cup {Absent} /\ jar.sessEnd \in Nat
  /\ DOMAIN open = Tabs /\ DOMAIN flight = Tabs
  /\ \A t \in Tabs : open[t].token.at \in 0 .. clock /\ Shape(flight[t])

-----------------------------------------------------------------------------
(* With one request outstanding.                                             *)

OneOut == \A t, u \in Tabs : flight[t] # Quiet /\ flight[u] # Quiet => t = u

\* The token of a message's page or form, and the cookie it leaves or came with.
Bears(m) ==
  /\ m.phase = "asking" =>
       /\ IsFresh(jar.csrf) => m.csrf = jar.csrf
       /\ IsFresh(m.form) => m.form = jar.csrf
       /\ IsFresh(m.csrf) => m.csrf = jar.csrf
  /\ m.phase = "answer" =>
       /\ m.csrf # NoToken => ~ IsFresh(jar.csrf)
       /\ IsFresh(m.token) => m.token = IF m.csrf = NoToken THEN jar.csrf ELSE m.csrf
       /\ IsFresh(m.form) => m.form = jar.csrf

\* Every token that is fresh is the browser's, or on its way to it.
OneToken ==
  /\ jar.csrf # NoToken => jar.csrfEnd >= jar.csrf.at + TokenTtl
  /\ \A t \in Tabs : (IsFresh(open[t].token) => open[t].token = jar.csrf) /\ Bears(flight[t])

-----------------------------------------------------------------------------
(* With any number of requests outstanding.                                  *)

\* An answer that changes the session cookie signs out, or answers a request
\* whose own session is over.
Carries(m) == m.phase = "answer" => m.sess = Absent \/ m.signout \/ ~ Resolves(m.came)

OneSession ==
  /\ \A s \in Sessions : ends[s] <= clock + SessionTtl
  /\ jar.sess # Absent => ends[jar.sess] <= jar.sessEnd
  /\ \A t \in Tabs : Carries(flight[t])

-----------------------------------------------------------------------------
(* What the handlers and the browser do to a message.                        *)

\* A handler's answer, field by field.
LEMMA Replied ==
  ASSUME NEW t \in Tabs, NEW sess, NEW to, NEW next, NEW page, NEW signout,
         DOMAIN flight = Tabs, Reply(t, sess, to, next, page, signout)
  PROVE  /\ DOMAIN flight' = Tabs
         /\ \A u \in Tabs : u # t => flight'[u] = flight[u]
         /\ flight'[t].phase = "answer" /\ flight'[t].sess = sess
         /\ flight'[t].came = flight[t].sess /\ flight'[t].form \in {NoToken, flight[t].form}
         /\ flight'[t].page = page /\ flight'[t].signout = signout
         /\ flight'[t].csrf = IF Issued(flight[t]) = flight[t].csrf
                              THEN NoToken ELSE Issued(flight[t])
         /\ flight'[t].token \in {NoToken, Issued(flight[t])}
  BY DEF Reply

\* A request, with the cookies it takes along.
LEMMA Sent ==
  ASSUME NEW t \in Tabs, NEW j, NEW path, NEW method, NEW next, NEW form,
         DOMAIN flight = Tabs, Send(t, j, path, method, next, form)
  PROVE  /\ DOMAIN flight' = Tabs
         /\ \A u \in Tabs : u # t => flight'[u] = flight[u]
         /\ flight'[t].phase = "asking" /\ flight'[t].path = path
         /\ flight'[t].method = method /\ flight'[t].form = form
         /\ flight'[t].csrf = CsrfCookie(j) /\ flight'[t].sess = SessionCookie(j)
  BY DEF Send

\* Whatever the handler, one reply, with a cookie of the session or none.
LEMMA HandledOnce ==
  ASSUME NEW t \in Tabs, Handle(t), BrowserInstance, Shapes
  PROVE  /\ flight[t].phase = "asking" /\ UNCHANGED <<clock, jar, open>>
         /\ \E sess \in Sessions \cup {Absent, Cleared} : \E to, next, page, signout :
              Reply(t, sess, to, next, page, signout)
         /\ ends' \in [Sessions -> Nat]
  <1> USE DEF BrowserInstance, Asked, Admitted, Dropped, Absent, Cleared
  <1>1. CASE TurnAway(t) BY <1>1 DEF TurnAway, Shapes
  <1>2. CASE SendOn(t) BY <1>2 DEF SendOn, Shapes
  <1>3. CASE Render(t) BY <1>3 DEF Render, Shapes
  <1>4. CASE Refuse(t) BY <1>4 DEF Refuse, Shapes
  <1>5. CASE LogIn(t)
    <2>1. PICK s \in Unknown, next \in Paths :
            /\ ends' = [ends EXCEPT ![s] = clock + SessionTtl]
            /\ Reply(t, s, next, "private", "private", FALSE)
      BY <1>5 DEF LogIn
    <2>2. s \in Sessions /\ clock + SessionTtl \in Nat BY DEF Unknown, Shapes
    <2>3. ends' \in [Sessions -> Nat] BY <2>1, <2>2 DEF Shapes
    <2> QED BY <1>5, <2>1, <2>2, <2>3 DEF LogIn
  <1>6. CASE Mistype(t) BY <1>6 DEF Mistype, Shapes
  <1>7. CASE Change(t) \/ Misplaced(t) BY <1>7 DEF Change, Misplaced, Shapes
  <1>8. CASE LogOut(t)
    <2>1. ends' \in [Sessions -> Nat]
      <3>1. CASE ends' = [ends EXCEPT ![flight[t].sess] = 0] BY <3>1 DEF Shapes
      <3>2. CASE UNCHANGED ends BY <3>2 DEF Shapes
      <3> QED BY <1>8, <3>1, <3>2 DEF LogOut
    <2>2. Reply(t, Cleared, "login", "private", "login", TRUE) BY <1>8 DEF LogOut
    <2>3. flight[t].phase = "asking" /\ UNCHANGED <<clock, jar, open>> BY <1>8 DEF LogOut
    <2> QED BY <2>1, <2>2, <2>3
  <1> QED BY <1>1, <1>2, <1>3, <1>4, <1>5, <1>6, <1>7, <1>8 DEF Handle

-----------------------------------------------------------------------------
(* Shapes is an invariant by itself.                                         *)

LEMMA ShapesInit == ASSUME BrowserInstance, BrowserInit PROVE Shapes
  BY DEF BrowserInstance, BrowserInit, Shapes, Shape, Quiet, NoToken, Absent

LEMMA IssuedAt ==
  ASSUME BrowserInstance, NEW m, clock \in Nat, m.csrf.at \in 0 .. clock
  PROVE  /\ Issued(m).at \in 0 .. clock
         /\ Issued(m) # m.csrf => Issued(m).at = clock /\ ~ IsFresh(m.csrf)
  BY DEF Issued, FreshToken

LEMMA CookiesSent ==
  ASSUME BrowserInstance, Shapes,
         NEW j, j.csrf.at \in 0 .. clock, j.sess \in Sessions \cup {Absent}
  PROVE  CsrfCookie(j).at \in 0 .. clock /\ SessionCookie(j) \in Sessions \cup {Absent}
  BY DEF CsrfCookie, SessionCookie, NoToken, Shapes

\* What Deliver leaves of the cookies.
LEMMA KeptShape ==
  ASSUME BrowserInstance, Shapes, NEW t \in Tabs, flight[t].phase = "answer"
  PROVE  LET k == Kept(flight[t])
         IN  /\ k.csrf.at \in 0 .. clock /\ k.csrfEnd \in Nat
             /\ k.sess \in Sessions \cup {Absent} /\ k.sessEnd \in Nat
  <1> DEFINE m == flight[t]
  <1>1. m.sess \in Sessions \cup {Absent, Cleared} /\ m.csrf.at \in 0 .. clock /\ clock \in Nat
    BY DEF Shapes, Shape
  <1>2. clock + TokenTtl \in Nat /\ clock + SessionTtl \in Nat
    BY <1>1 DEF BrowserInstance
  <1> QED BY <1>1, <1>2 DEF Kept, Shapes, Cleared, Absent

\* One message at a time changes, the rest of the shape being given.
LEMMA ShapesNext == ASSUME BrowserInstance, Shapes, [BrowserNext]_browser PROVE Shapes'
  <1> DEFINE Rest == /\ clock' \in Nat /\ ends' \in [Sessions -> Nat]
                     /\ jar'.csrf.at \in 0 .. clock' /\ jar'.csrfEnd \in Nat
                     /\ jar'.sess \in Sessions \cup {Absent} /\ jar'.sessEnd \in Nat
             Tab(t) == open'[t].token.at \in 0 .. clock'
             Only(t) == /\ DOMAIN flight' = Tabs /\ Shape(flight[t])'
                        /\ \A u \in Tabs : u # t => flight'[u] = flight[u]
  <1>0. ASSUME UNCHANGED <<clock, jar>>, ends' \in [Sessions -> Nat] PROVE Rest
    BY <1>0 DEF Shapes
  <1>1. ASSUME UNCHANGED <<clock, open>>, NEW t \in Tabs PROVE Tab(t) /\ DOMAIN open' = Tabs
    BY <1>1 DEF Shapes
  <1>2. ASSUME NEW t \in Tabs, UNCHANGED clock, Only(t)
        PROVE  DOMAIN flight' = Tabs /\ \A u \in Tabs : Shape(flight[u])'
    <2> SUFFICES ASSUME NEW u \in Tabs, u # t PROVE Shape(flight[u])' BY <1>2
    <2> QED BY <1>2 DEF Shapes, Shape
  <1>3. ASSUME Rest, DOMAIN open' = Tabs, \A t \in Tabs : Tab(t),
               DOMAIN flight' = Tabs, \A u \in Tabs : Shape(flight[u])'
        PROVE  Shapes'
    BY <1>3 DEF Shapes
  <1>4. ASSUME NEW t \in Tabs, Handle(t) PROVE Shapes'
    <2>a. PICK sess \in Sessions \cup {Absent, Cleared} :
            \E to, next, page, signout : Reply(t, sess, to, next, page, signout)
      BY <1>4, HandledOnce
    <2>1. PICK to, next, page, signout : Reply(t, sess, to, next, page, signout)
      BY <2>a
    <2>2. UNCHANGED <<clock, jar, open>> /\ ends' \in [Sessions -> Nat]
          /\ flight[t].phase = "asking"
      BY <1>4, HandledOnce
    <2>3. flight[t].csrf.at \in 0 .. clock /\ clock \in Nat BY <2>2 DEF Shapes, Shape
    <2>4. Issued(flight[t]).at \in 0 .. clock
          /\ (Issued(flight[t]) # flight[t].csrf => Issued(flight[t]).at = clock)
      BY <2>3, IssuedAt
    <2>5. /\ flight'[t].csrf.at \in 0 .. clock /\ flight'[t].token.at \in 0 .. clock
          /\ flight'[t].form.at \in 0 .. clock /\ flight'[t].came \in Sessions \cup {Absent}
      BY <2>1, <2>2, <2>3, <2>4, Replied DEF Shapes, Shape, NoToken
    <2>6. Only(t) BY <2>1, <2>2, <2>5, Replied DEF Shapes, Shape
    <2> HIDE DEF Rest, Tab, Only
    <2> QED BY <2>2, <2>6, <1>0, <1>1, <1>2, <1>3
  <1>5. ASSUME NEW t \in Tabs, NEW path \in Paths, NEW next \in Paths, Visit(t, path, next)
        PROVE  Shapes'
    <2>1. Send(t, jar, path, "get", next, NoToken) /\ UNCHANGED <<clock, ends, jar, open>>
      BY <1>5 DEF Visit
    <2>2. CsrfCookie(jar).at \in 0 .. clock /\ SessionCookie(jar) \in Sessions \cup {Absent}
      BY CookiesSent DEF Shapes
    <2>3. Only(t) BY <2>1, <2>2, Sent DEF Shapes, Shape, NoToken
    <2>4. ends' \in [Sessions -> Nat] BY <2>1 DEF Shapes
    <2> HIDE DEF Rest, Tab, Only
    <2> QED BY <2>1, <2>3, <2>4, <1>0, <1>1, <1>2, <1>3
  <1>6. ASSUME NEW t \in Tabs, NEW method \in Methods, SendForm(t, method) PROVE Shapes'
    <2>1. Send(t, jar, open[t].page, method, "private", open[t].token)
          /\ UNCHANGED <<clock, ends, jar, open>>
      BY <1>6 DEF SendForm
    <2>2. CsrfCookie(jar).at \in 0 .. clock /\ SessionCookie(jar) \in Sessions \cup {Absent}
      BY CookiesSent DEF Shapes
    <2>4. Only(t) BY <2>1, <2>2, Sent DEF Shapes, Shape
    <2>5. ends' \in [Sessions -> Nat] BY <2>1 DEF Shapes
    <2> HIDE DEF Rest, Tab, Only
    <2> QED BY <2>1, <2>4, <2>5, <1>0, <1>1, <1>2, <1>3
  <1>7. ASSUME NEW t \in Tabs, Deliver(t) PROVE Shapes'
    <2>1. flight[t].phase = "answer" /\ jar' = Kept(flight[t]) /\ UNCHANGED <<clock, ends>>
      BY <1>7 DEF Deliver
    <2>2. PICK k : k = Kept(flight[t]) OBVIOUS
    <2>3. /\ k.csrf.at \in 0 .. clock /\ k.csrfEnd \in Nat
          /\ k.sess \in Sessions \cup {Absent} /\ k.sessEnd \in Nat
      BY <2>1, <2>2, KeptShape
    <2>4. Rest BY <2>1, <2>2, <2>3 DEF Shapes
    <2>5. CASE flight[t].to = "here"
      <3>1. /\ open' = [open EXCEPT ![t] = [page |-> flight[t].page, token |-> flight[t].token]]
            /\ flight' = [flight EXCEPT ![t] = Quiet]
        BY <1>7, <2>5 DEF Deliver
      <3>2. flight[t].token.at \in 0 .. clock BY <2>1 DEF Shapes, Shape
      <3>3. DOMAIN open' = Tabs /\ \A u \in Tabs : Tab(u)
        BY <2>1, <3>1, <3>2 DEF Shapes
      <3>4. Only(t) BY <3>1 DEF Shapes, Shape, Quiet
      <3> HIDE DEF Rest, Tab, Only
      <3> QED BY <2>1, <2>4, <3>3, <3>4, <1>2, <1>3
    <2>6. CASE flight[t].to # "here"
      <3>1. Send(t, k, flight[t].to, flight[t].method, flight[t].next, flight[t].form)
            /\ UNCHANGED open
        BY <1>7, <2>2, <2>6 DEF Deliver
      <3>2. CsrfCookie(k).at \in 0 .. clock /\ SessionCookie(k) \in Sessions \cup {Absent}
        BY <2>3, CookiesSent
      <3>3. Only(t) BY <2>1, <3>1, <3>2, Sent DEF Shapes, Shape
      <3> HIDE DEF Rest, Tab, Only
      <3> QED BY <2>1, <2>4, <3>1, <3>3, <1>1, <1>2, <1>3
    <2> QED BY <2>5, <2>6
  <1>8. ASSUME NEW t \in Tabs, Lose(t) PROVE Shapes'
    BY <1>8 DEF Lose, Shapes, Shape, Quiet
  <1>9. ASSUME NEW s \in Sessions, Revoke(s) PROVE Shapes'
    BY <1>9 DEF Revoke, Shapes, Shape
  <1>10. CASE Elapse
    BY <1>10 DEF Elapse, Shapes, Shape
  <1>11. CASE UNCHANGED browser
    BY <1>11 DEF browser, Shapes, Shape
  <1> QED
    BY <1>4, <1>5, <1>6, <1>7, <1>8, <1>9, <1>10, <1>11 DEF BrowserNext, User

-----------------------------------------------------------------------------
(* A token is good for TokenTtl and no longer.                               *)

LEMMA OnlyHandlersAnswer ==
  ASSUME Shapes, [BrowserNext]_browser, NEW t \in Tabs,
         flight[t].phase = "asking", flight'[t].phase = "answer"
  PROVE  Handle(t)
  <1>1. flight'[t] # flight[t] /\ flight'[t] # Quiet /\ flight[t] # Quiet
    BY DEF Quiet
  <1>2. ASSUME NEW u \in Tabs, User(u) PROVE FALSE
    <2>1. CASE \E path, next \in Paths : Visit(u, path, next)
      BY <1>1, <2>1, Sent DEF Visit, Shapes
    <2>2. CASE \E method \in Methods : SendForm(u, method)
      BY <1>1, <2>2, Sent DEF SendForm, Shapes
    <2> QED BY <1>2, <2>1, <2>2 DEF User
  <1>3. ASSUME NEW u \in Tabs, Handle(u), u # t PROVE FALSE
    <2>1. PICK sess, to, next, page, signout : Reply(u, sess, to, next, page, signout)
      BY <1>3 DEF Handle, TurnAway, SendOn, Render, Refuse, Misplaced, LogIn, Mistype, Change, LogOut
    <2> QED BY <1>1, <1>3, <2>1, Replied DEF Shapes
  <1>4. ASSUME NEW u \in Tabs, Deliver(u) PROVE FALSE
    <2>1. flight[u].phase = "answer" /\ u # t BY <1>4 DEF Deliver
    <2>2. CASE flight[u].to = "here"
      BY <1>1, <1>4, <2>1, <2>2 DEF Deliver, Shapes
    <2>3. CASE flight[u].to # "here"
      BY <1>1, <1>4, <2>1, <2>3, Sent DEF Deliver, Shapes
    <2> QED BY <2>2, <2>3
  <1>5. ASSUME NEW u \in Tabs, Lose(u) PROVE FALSE
    BY <1>1, <1>5 DEF Lose, Shapes
  <1>6. CASE (\E s \in Sessions : Revoke(s)) \/ Elapse \/ UNCHANGED browser
    BY <1>1, <1>6 DEF Revoke, Elapse, browser
  <1> QED BY <1>2, <1>3, <1>4, <1>5, <1>6 DEF BrowserNext

(* A form that a handler accepts bears a token younger than TokenTtl: the    *)
(* one its cookie brought while that is fresh, or one minted this moment     *)
(* (csrf.rs: issue, is_fresh, verify).                                       *)
LEMMA VerifiedIsFresh ==
  ASSUME BrowserInstance, Shapes, NEW t \in Tabs, flight[t].phase = "asking", Verified(t)
  PROVE  clock - flight[t].form.at < TokenTtl
  <1>1. clock \in Nat /\ flight[t].csrf.at \in 0 .. clock BY DEF Shapes, Shape
  <1>2. flight[t].form = Issued(flight[t]) BY DEF Verified
  <1>3. CASE IsFresh(flight[t].csrf)
    BY <1>2, <1>3 DEF Issued, IsFresh
  <1>4. CASE ~ IsFresh(flight[t].csrf)
    BY <1>1, <1>2, <1>4 DEF Issued, FreshToken, BrowserInstance
  <1> QED BY <1>3, <1>4

(* No form is accepted with a token minted TokenTtl ago or earlier: for any  *)
(* number of tabs and requests under way.                                    *)
THEOREM StaleFormsRefused == ASSUME BrowserInstance PROVE BrowserSpec => FormsGoStale
  <1> DEFINE Stale == \A t \in Tabs :
        Asked(t) /\ flight[t].method # "get" /\ flight'[t].phase = "answer" =>
          \/ flight'[t].page = "error" \/ SentOn(t) \/ TurnedAway(t)
          \/ clock - flight[t].form.at < TokenTtl
  <1>1. ASSUME Shapes, [BrowserNext]_browser PROVE Stale
    <2> SUFFICES ASSUME NEW t \in Tabs, flight[t].phase = "asking",
                        flight[t].method # "get", flight'[t].phase = "answer"
                 PROVE  \/ flight'[t].page = "error" \/ SentOn(t) \/ TurnedAway(t)
                        \/ clock - flight[t].form.at < TokenTtl
      BY DEF Asked
    <2>1. Handle(t) BY <1>1, OnlyHandlersAnswer
    <2>2. CASE TurnAway(t) BY <2>2 DEF TurnAway
    <2>3. CASE SendOn(t) BY <2>3 DEF SendOn
    <2>4. CASE Render(t) BY <2>4 DEF Render
    <2>5. CASE Refuse(t) \/ Misplaced(t)
      BY <1>1, <2>5, Replied DEF Refuse, Misplaced, Shapes
    <2>6. CASE LogIn(t) \/ Mistype(t) \/ Change(t) \/ LogOut(t)
      <3>1. Verified(t) BY <2>6 DEF LogIn, Mistype, Change, LogOut
      <3> QED BY <1>1, <3>1, VerifiedIsFresh
    <2> QED BY <2>1, <2>2, <2>3, <2>4, <2>5, <2>6 DEF Handle
  <1> QED BY <1>1, ShapesInit, ShapesNext, PTL DEF BrowserSpec, FormsGoStale

-----------------------------------------------------------------------------
(* One request outstanding at a time.                                        *)

LEMMA NoneOut ==
  ASSUME BrowserInstance, Together = 1, Cardinality(Outstanding) < Together
  PROVE  \A t \in Tabs : flight[t] = Quiet
  <1>1. Outstanding \subseteq Tabs BY DEF Outstanding
  <1>2. IsFiniteSet(Outstanding) BY <1>1, FS_Subset DEF BrowserInstance
  <1>3. Cardinality(Outstanding) \in Nat BY <1>2, FS_CardinalityType
  <1>4. Cardinality(Outstanding) = 0 BY <1>3
  <1>5. Outstanding = {} BY <1>2, <1>4, FS_EmptySet
  <1> QED BY <1>5 DEF Outstanding

\* Who is not Quiet after a step was not Quiet before, or nobody was.
LEMMA OneOutNext ==
  ASSUME BrowserInstance, Together = 1, Shapes, OneOut, [BrowserNext]_browser PROVE OneOut'
  <1>1. ASSUME NEW t \in Tabs, \A u \in Tabs : u # t => flight'[u] = Quiet PROVE OneOut'
    BY <1>1 DEF OneOut
  <1>2. ASSUME NEW t \in Tabs, User(t) PROVE OneOut'
    <2>1. \A u \in Tabs : flight[u] = Quiet
      BY <1>2, NoneOut DEF User, Visit, SendForm
    <2>2. CASE \E path, next \in Paths : Visit(t, path, next)
      BY <1>1, <2>1, <2>2, Sent DEF Visit, Shapes
    <2>3. CASE \E method \in Methods : SendForm(t, method)
      BY <1>1, <2>1, <2>3, Sent DEF SendForm, Shapes
    <2> QED BY <1>2, <2>2, <2>3 DEF User
  <1>3. ASSUME NEW t \in Tabs, Handle(t) PROVE OneOut'
    <2>1. flight[t] # Quiet BY <1>3, HandledOnce DEF Quiet
    <2>2. \A u \in Tabs : u # t => flight[u] = Quiet BY <2>1 DEF OneOut
    <2> QED BY <1>1, <1>3, <2>2, HandledOnce, Replied DEF Shapes
  <1>4. ASSUME NEW t \in Tabs, Deliver(t) PROVE OneOut'
    <2>1. flight[t] # Quiet BY <1>4 DEF Deliver, Quiet
    <2>2. \A u \in Tabs : u # t => flight[u] = Quiet BY <2>1 DEF OneOut
    <2>3. CASE flight[t].to = "here"
      BY <1>1, <1>4, <2>2, <2>3 DEF Deliver, Shapes
    <2>4. CASE flight[t].to # "here"
      BY <1>1, <1>4, <2>2, <2>4, Sent DEF Deliver, Shapes
    <2> QED BY <2>3, <2>4
  <1>5. ASSUME NEW t \in Tabs, Lose(t) PROVE OneOut'
    BY <1>5 DEF Lose, OneOut, Shapes
  <1>6. CASE (\E s \in Sessions : Revoke(s)) \/ Elapse \/ UNCHANGED browser
    BY <1>6 DEF Revoke, Elapse, browser, OneOut
  <1> QED BY <1>2, <1>3, <1>4, <1>5, <1>6 DEF BrowserNext

-----------------------------------------------------------------------------
(* The token.                                                                *)

LEMMA OneTokenHandled ==
  ASSUME BrowserInstance, Shapes, OneOut, OneToken, NEW t \in Tabs, Handle(t)
  PROVE  OneToken'
  <1>1. PICK sess, to, next, page, signout : Reply(t, sess, to, next, page, signout)
    BY HandledOnce
  <1>2. flight[t].phase = "asking" /\ UNCHANGED <<clock, jar, open>> BY HandledOnce
  <1>3. \A u \in Tabs : u # t => flight'[u] = Quiet
    BY <1>1, <1>2, Replied DEF OneOut, Shapes, Quiet
  <1>4. flight'[t].phase = "answer" BY <1>1, Replied DEF Shapes
  <1>5. Bears(flight[t]) BY DEF OneToken
  <1>6. flight[t].csrf.at \in 0 .. clock /\ clock \in Nat BY <1>2 DEF Shapes, Shape
  <1>7. Issued(flight[t]) # flight[t].csrf => ~ IsFresh(flight[t].csrf)
    BY <1>6, IssuedAt
  <1>8. flight'[t].csrf # NoToken => ~ IsFresh(jar.csrf)
    BY <1>1, <1>2, <1>5, <1>7, Replied DEF Bears, Shapes
  <1>9. IsFresh(flight'[t].token) => flight'[t].token = Issued(flight[t])
    BY <1>1, Replied DEF Shapes, IsFresh
  <1>10. IsFresh(flight'[t].token) =>
           flight'[t].token = IF flight'[t].csrf = NoToken THEN jar.csrf ELSE flight'[t].csrf
    <2> SUFFICES ASSUME IsFresh(flight'[t].token)
                 PROVE  flight'[t].token
                          = IF flight'[t].csrf = NoToken THEN jar.csrf ELSE flight'[t].csrf
      OBVIOUS
    <2>1. Issued(flight[t]) # NoToken /\ IsFresh(Issued(flight[t])) BY <1>9 DEF IsFresh
    <2>2. CASE Issued(flight[t]) = flight[t].csrf
      BY <1>1, <1>2, <1>5, <1>9, <2>1, <2>2, Replied DEF Bears, Shapes
    <2>3. CASE Issued(flight[t]) # flight[t].csrf
      BY <1>1, <1>9, <2>1, <2>3, Replied DEF Shapes
    <2> QED BY <2>2, <2>3
  <1>11. Bears(flight[t])'
    <2>1. IsFresh(flight'[t].form) => flight'[t].form = jar.csrf
      BY <1>1, <1>2, <1>5, Replied DEF Bears, Shapes, IsFresh
    <2> QED BY <1>2, <1>4, <1>8, <1>10, <2>1 DEF Bears, IsFresh
  <1>12. \A u \in Tabs : Bears(flight[u])'
    BY <1>3, <1>11 DEF Bears, Quiet
  <1> QED BY <1>2, <1>12 DEF OneToken, IsFresh

LEMMA OneTokenSent ==
  ASSUME BrowserInstance, Together = 1, Shapes, OneToken, NEW t \in Tabs, User(t)
  PROVE  OneToken'
  <1>1. UNCHANGED <<clock, ends, jar, open>> BY DEF User, Visit, SendForm
  <1>2. \A u \in Tabs : flight[u] = Quiet BY NoneOut DEF User, Visit, SendForm
  <1>3. clock \in Nat /\ jar.csrf.at \in 0 .. clock /\ jar.csrfEnd \in Nat BY DEF Shapes
  <1>4. IsFresh(jar.csrf) => CsrfCookie(jar) = jar.csrf
    BY <1>3 DEF IsFresh, CsrfCookie, OneToken, BrowserInstance
  <1>5. IsFresh(CsrfCookie(jar)) => CsrfCookie(jar) = jar.csrf
    BY DEF IsFresh, CsrfCookie
  <1>6. PICK path, method, next, form : /\ Send(t, jar, path, method, next, form)
                                        /\ form \in {NoToken, open[t].token}
    BY DEF User, Visit, SendForm
  <1>7. IsFresh(form) => form = jar.csrf
    BY <1>6 DEF OneToken, IsFresh
  <1>8. /\ flight'[t].phase = "asking" /\ flight'[t].form = form
        /\ flight'[t].csrf = CsrfCookie(jar)
    BY <1>6, Sent DEF Shapes
  <1>9. Bears(flight[t])'
    BY <1>1, <1>4, <1>5, <1>7, <1>8 DEF Bears, IsFresh
  <1>10. \A u \in Tabs : u # t => flight'[u] = Quiet
    BY <1>2, <1>6, Sent DEF Shapes
  <1>11. \A u \in Tabs : Bears(flight[u])'
    BY <1>9, <1>10 DEF Bears, Quiet
  <1> QED BY <1>1, <1>11 DEF OneToken, IsFresh

LEMMA OneTokenDelivered ==
  ASSUME BrowserInstance, Shapes, OneOut, OneToken, NEW t \in Tabs, Deliver(t)
  PROVE  OneToken'
  <1>1. flight[t].phase = "answer" /\ UNCHANGED <<clock, ends>> BY DEF Deliver
  <1>2. PICK m : m = flight[t] OBVIOUS
  <1>3. PICK k : k = Kept(m) OBVIOUS
  <1>4. jar' = k BY <1>2, <1>3 DEF Deliver
  <1>5. /\ k.csrf = IF m.csrf = NoToken THEN jar.csrf ELSE m.csrf
        /\ k.csrfEnd = IF m.csrf = NoToken THEN jar.csrfEnd ELSE clock + TokenTtl
    BY <1>3 DEF Kept
  <1>6. /\ m.csrf # NoToken => ~ IsFresh(jar.csrf)
        /\ IsFresh(m.token) => m.token = k.csrf
        /\ IsFresh(m.form) => m.form = k.csrf
    BY <1>1, <1>2, <1>5 DEF OneToken, Bears
  <1>7. m.csrf.at \in 0 .. clock /\ clock \in Nat BY <1>1, <1>2 DEF Shapes, Shape
  <1>8. k.csrf # NoToken => k.csrfEnd >= k.csrf.at + TokenTtl
    BY <1>5, <1>7 DEF OneToken, BrowserInstance
  <1>9. /\ k.csrf.at \in 0 .. clock /\ k.csrfEnd \in Nat
    BY <1>1, <1>2, <1>3, KeptShape
  <1>10. /\ IsFresh(k.csrf) => CsrfCookie(k) = k.csrf
         /\ IsFresh(CsrfCookie(k)) => CsrfCookie(k) = k.csrf
    BY <1>7, <1>8, <1>9 DEF IsFresh, CsrfCookie, BrowserInstance
  <1>11. \A u \in Tabs : IsFresh(open[u].token) => open[u].token = k.csrf
    BY <1>5, <1>6 DEF OneToken
  <1>12. \A u \in Tabs : u # t => flight[u] = Quiet
    BY <1>1 DEF OneOut, Quiet
  <1>13. \A u \in Tabs : open'[u].token \in {open[u].token, m.token}
    BY <1>2 DEF Deliver, Shapes
  <1>14. \A u \in Tabs : IsFresh(open'[u].token) => open'[u].token = k.csrf
    BY <1>6, <1>11, <1>13
  <1>15. \A u \in Tabs : u # t => flight'[u] = Quiet
    BY <1>12, Sent DEF Deliver, Shapes
  <1>16. \/ flight'[t] = Quiet
         \/ /\ flight'[t].phase = "asking" /\ flight'[t].form = m.form
            /\ flight'[t].csrf = CsrfCookie(k)
    BY <1>2, <1>3, Sent DEF Deliver, Shapes
  <1>17. Bears(flight[t])'
    BY <1>1, <1>4, <1>6, <1>10, <1>16 DEF Bears, IsFresh, Quiet
  <1>18. \A u \in Tabs : Bears(flight[u])'
    BY <1>15, <1>17 DEF Bears, Quiet
  <1> QED BY <1>1, <1>4, <1>8, <1>14, <1>18 DEF OneToken, IsFresh

LEMMA OneTokenNext ==
  ASSUME BrowserInstance, Together = 1, Shapes, OneOut, OneToken, [BrowserNext]_browser PROVE OneToken'
  <1>1. ASSUME NEW t \in Tabs, Lose(t) PROVE OneToken'
    BY <1>1 DEF Lose, OneToken, Bears, IsFresh, Shapes, Quiet
  <1>2. CASE Elapse
    <2>1. clock \in Nat /\ clock' = clock + 1 /\ UNCHANGED <<jar, open, flight>>
      BY <1>2 DEF Elapse, Shapes
    <2>2. ASSUME NEW token, token.at \in 0 .. clock, token # NoToken, clock' - token.at < TokenTtl
          PROVE  token.at <= clock /\ clock - token.at < TokenTtl
      BY <2>1, <2>2 DEF BrowserInstance
    <2>3. \A u \in Tabs : IsFresh(open[u].token)' => open'[u].token = jar'.csrf
      BY <2>1, <2>2 DEF OneToken, IsFresh, Shapes
    <2>4. ASSUME NEW u \in Tabs PROVE Bears(flight[u])'
      BY <2>1, <2>2, <2>4 DEF OneToken, Bears, IsFresh, Shapes, Shape
    <2> QED BY <2>1, <2>3, <2>4 DEF OneToken
  <1>3. CASE UNCHANGED browser \/ \E s \in Sessions : Revoke(s)
    BY <1>3 DEF browser, Revoke, OneToken, Bears, IsFresh
  <1> QED BY <1>1, <1>2, <1>3, OneTokenHandled, OneTokenSent, OneTokenDelivered DEF BrowserNext

\* A form with a fresh token is never the one that is refused.
LEMMA FreshIsVerified ==
  ASSUME OneToken, NEW t \in Tabs, flight[t].phase = "asking", IsFresh(flight[t].form)
  PROVE  Verified(t)
  <1>1. Bears(flight[t]) BY DEF OneToken
  <1>2. flight[t].form = jar.csrf /\ IsFresh(jar.csrf) BY <1>1 DEF Bears
  <1>3. flight[t].csrf = jar.csrf BY <1>1, <1>2 DEF Bears
  <1> QED BY <1>2, <1>3 DEF Verified, Issued, IsFresh

(* A form left open still submits while its token is fresh, whatever the     *)
(* other tabs did and whichever answers were lost: for any number of tabs,   *)
(* one request outstanding at a time (csrf.rs: issue, verify).               *)
THEOREM FreshFormsAccepted ==
  ASSUME BrowserInstance, Together = 1 PROVE BrowserSpec => FormsStillSubmit
  <1> DEFINE Inv == Shapes /\ OneOut /\ OneToken
             Submit == \A t \in Tabs : Refuse(t) => ~ IsFresh(flight[t].form)
  <1>1. ASSUME BrowserInit PROVE Inv
    <2>1. OneOut BY <1>1 DEF BrowserInit, OneOut
    <2>2. OneToken BY <1>1 DEF BrowserInit, OneToken, Bears, Quiet, IsFresh
    <2> QED BY <1>1, <2>1, <2>2, ShapesInit
  <1>2. ASSUME Inv, [BrowserNext]_browser PROVE Inv'
    BY <1>2, ShapesNext, OneOutNext, OneTokenNext
  <1>3. ASSUME Inv PROVE Submit
    BY <1>3, FreshIsVerified DEF Refuse, Admitted, Asked
  <1> QED BY <1>1, <1>2, <1>3, PTL DEF BrowserSpec, FormsStillSubmit

-----------------------------------------------------------------------------
(* The session.                                                              *)

LEMMA OneSessionHandled ==
  ASSUME BrowserInstance, Shapes, OneSession, NEW t \in Tabs, Handle(t)
  PROVE  OneSession'
  <1>1. flight[t].phase = "asking" /\ UNCHANGED <<clock, jar, open>> BY HandledOnce
  <1>2. /\ clock \in Nat /\ ends \in [Sessions -> Nat] /\ ends' \in [Sessions -> Nat]
        /\ jar.sess \in Sessions \cup {Absent} /\ jar.sessEnd \in Nat
        /\ \A s \in Sessions : ends[s] <= clock + SessionTtl
    BY HandledOnce DEF Shapes, OneSession
  <1>3. \A u \in Tabs : u # t => flight'[u] = flight[u] BY HandledOnce, Replied DEF Shapes
  \* What a session that is over, or that no message came with, leaves of the rest.
  <1>4. ASSUME \A s \in Sessions : ends'[s] <= clock + SessionTtl,
               jar.sess # Absent => ends'[jar.sess] <= ends[jar.sess],
               Carries(flight[t])',
               \A u \in Tabs : flight[u].phase = "answer" /\ flight[u].came \in Sessions
                              => ends'[flight[u].came] <= ends[flight[u].came]
        PROVE  OneSession'
    <2>1. ASSUME NEW u \in Tabs, u # t PROVE Carries(flight[u])'
      <3>1. flight'[u] = flight[u] /\ Carries(flight[u]) BY <1>3, <2>1 DEF OneSession
      <3>2. SUFFICES ASSUME flight[u].phase = "answer", ~ Resolves(flight[u].came)
                     PROVE  ~ Resolves(flight[u].came)'
        BY <3>1 DEF Carries
      <3>3. flight[u].came \in Sessions \cup {Absent} BY <3>2 DEF Shapes, Shape
      <3> QED BY <1>1, <1>2, <1>4, <3>1, <3>2, <3>3 DEF Resolves
    <2>2. jar.sess # Absent => ends'[jar.sess] <= jar.sessEnd
      BY <1>2, <1>4 DEF OneSession
    <2> QED BY <1>1, <1>4, <2>1, <2>2 DEF OneSession
  <1>5. ASSUME UNCHANGED ends, NEW to, NEW next, NEW page, NEW signout,
               NEW sess \in {Absent, Dropped(flight[t])},
               Reply(t, sess, to, next, page, signout)
        PROVE  OneSession'
    <2>1. /\ flight'[t].phase = "answer" /\ flight'[t].sess = sess
          /\ flight'[t].came = flight[t].sess
      BY <1>5, Replied DEF Shapes
    <2>2. sess = Absent \/ ~ Resolves(flight[t].sess) BY <1>5 DEF Dropped
    <2>3. Carries(flight[t])' BY <1>1, <1>5, <2>1, <2>2 DEF Carries, Resolves
    <2>4. \A s \in Sessions : ends'[s] <= ends[s] BY <1>2, <1>5
    <2> QED BY <1>2, <1>4, <1>5, <2>3, <2>4
  <1>6. CASE LogIn(t)
    <2>1. PICK s \in Unknown, next \in Paths :
            /\ ends' = [ends EXCEPT ![s] = clock + SessionTtl]
            /\ Reply(t, s, next, "private", "private", FALSE)
      BY <1>6 DEF LogIn
    <2>2. /\ s \in Sessions /\ s # jar.sess /\ s # flight[t].sess
          /\ \A u \in Tabs : flight[u].phase = "answer" => flight[u].came # s
      BY <1>1 DEF Unknown, Quiet
    <2>3. flight'[t].phase = "answer" /\ flight'[t].came = flight[t].sess
      BY <2>1, Replied DEF Shapes
    <2>4. ~ Resolves(flight[t].sess)
      BY <1>6 DEF LogIn, Admitted, SentOn, SignedIn
    <2>5. \A u \in Sessions : u # s => ends'[u] = ends[u] BY <1>2, <2>1
    <2>6. flight[t].sess \in Sessions \cup {Absent} BY <1>1 DEF Shapes, Shape
    <2>7. Carries(flight[t])' BY <1>1, <2>2, <2>3, <2>4, <2>5, <2>6 DEF Carries, Resolves
    <2>8. \A u \in Sessions : ends'[u] <= clock + SessionTtl
      BY <1>2, <2>1, <2>2 DEF BrowserInstance
    <2>9. \A u \in Sessions : u # s => ends'[u] <= ends[u] BY <1>2, <2>5
    <2> QED BY <1>2, <1>4, <2>2, <2>7, <2>8, <2>9
  <1>7. CASE LogOut(t)
    <2>1. Reply(t, Cleared, "login", "private", "login", TRUE) /\ DOMAIN flight = Tabs
      BY <1>7 DEF LogOut, Shapes
    <2>2. flight'[t].phase = "answer" /\ flight'[t].signout
      BY <2>1 DEF Reply
    <2>3. \A s \in Sessions : ends'[s] \in {0, ends[s]}
      BY <1>2, <1>7 DEF LogOut
    <2>4. Carries(flight[t])' BY <2>2 DEF Carries
    <2>5. \A s \in Sessions : ends'[s] <= ends[s] /\ ends'[s] <= clock + SessionTtl
      BY <1>2, <2>3 DEF BrowserInstance
    <2> QED BY <1>2, <1>4, <2>4, <2>5
  <1>8. CASE \/ TurnAway(t) \/ SendOn(t) \/ Render(t) \/ Refuse(t)
             \/ Misplaced(t) \/ Mistype(t) \/ Change(t)
    BY <1>5, <1>8 DEF TurnAway, SendOn, Render, Refuse, Misplaced, Mistype, Change
  <1> QED BY <1>6, <1>7, <1>8 DEF Handle

LEMMA OneSessionSent ==
  ASSUME BrowserInstance, Shapes, OneSession, NEW t \in Tabs, User(t)
  PROVE  OneSession'
  <1>1. UNCHANGED <<clock, ends, jar, open>> BY DEF User, Visit, SendForm
  <1>2. PICK path, method, next, form : Send(t, jar, path, method, next, form)
    BY DEF User, Visit, SendForm
  <1>3. flight'[t].phase = "asking" /\ \A u \in Tabs : u # t => flight'[u] = flight[u]
    BY <1>2, Sent DEF Shapes
  <1>4. \A u \in Tabs : Carries(flight[u])'
    BY <1>1, <1>3 DEF OneSession, Carries, Resolves
  <1> QED BY <1>1, <1>4 DEF OneSession

LEMMA OneSessionDelivered ==
  ASSUME BrowserInstance, Shapes, OneSession, NEW t \in Tabs, Deliver(t)
  PROVE  OneSession'
  <1>1. flight[t].phase = "answer" /\ UNCHANGED <<clock, ends>> BY DEF Deliver
  <1>2. PICK m : m = flight[t] OBVIOUS
  <1>3. PICK k : k = Kept(m) OBVIOUS
  <1>4. jar' = k BY <1>2, <1>3 DEF Deliver
  <1>5. m.sess \in Sessions \cup {Absent, Cleared} BY <1>1, <1>2 DEF Shapes, Shape
  <1>6. clock \in Nat /\ ends \in [Sessions -> Nat] /\ k.sessEnd \in Nat
    BY <1>1, <1>2, <1>3, KeptShape DEF Shapes
  <1>7. /\ m.sess = Absent => k.sess = jar.sess /\ k.sessEnd = jar.sessEnd
        /\ m.sess = Cleared => k.sess = Absent
        /\ m.sess \notin {Absent, Cleared} => k.sess = m.sess /\ k.sessEnd = clock + SessionTtl
    BY <1>3 DEF Kept, Cleared, Absent, BrowserInstance
  <1>8. k.sess # Absent => ends[k.sess] <= k.sessEnd
    <2>1. CASE m.sess = Absent BY <1>7, <2>1 DEF OneSession
    <2>2. CASE m.sess = Cleared BY <1>7, <2>2
    <2>3. CASE m.sess \notin {Absent, Cleared} BY <1>5, <1>7, <2>3 DEF OneSession
    <2> QED BY <2>1, <2>2, <2>3
  <1>9. \A u \in Tabs : u # t => flight'[u] = flight[u] BY Sent DEF Deliver, Shapes
  <1>10. flight'[t] = Quiet \/ flight'[t].phase = "asking"
    BY <1>2, <1>3, Sent DEF Deliver, Shapes
  <1>11. \A u \in Tabs : Carries(flight[u])'
    BY <1>1, <1>9, <1>10 DEF OneSession, Carries, Resolves, Quiet
  <1> QED BY <1>1, <1>4, <1>8, <1>11 DEF OneSession

LEMMA OneSessionNext ==
  ASSUME BrowserInstance, Shapes, OneSession, [BrowserNext]_browser PROVE OneSession'
  <1>1. ASSUME NEW t \in Tabs, Lose(t) PROVE OneSession'
    <2>1. UNCHANGED <<clock, ends, jar>> BY <1>1 DEF Lose
    <2>2. \A u \in Tabs : flight'[u] \in {Quiet, flight[u]} BY <1>1 DEF Lose, Shapes
    <2>3. \A u \in Tabs : Carries(flight[u])'
      BY <2>1, <2>2 DEF OneSession, Carries, Resolves, Quiet
    <2> QED BY <2>1, <2>3 DEF OneSession
  <1>2. CASE Elapse
    <2>1. clock \in Nat /\ clock' = clock + 1 /\ UNCHANGED <<ends, jar, flight>>
      BY <1>2 DEF Elapse, Shapes
    <2>2. ends \in [Sessions -> Nat] BY DEF Shapes
    <2>3. \A s \in Sessions : ends'[s] <= clock' + SessionTtl
      BY <2>1, <2>2 DEF OneSession, BrowserInstance
    <2>4. ASSUME NEW u \in Tabs PROVE Carries(flight[u])'
      <3>1. SUFFICES ASSUME flight[u].phase = "answer", ~ Resolves(flight[u].came)
                     PROVE  ~ Resolves(flight[u].came)'
        BY <2>1 DEF OneSession, Carries
      <3>2. flight[u].came \in Sessions \cup {Absent} BY <3>1 DEF Shapes, Shape
      <3> QED BY <2>1, <2>2, <3>1, <3>2 DEF Resolves
    <2> QED BY <2>1, <2>3, <2>4 DEF OneSession
  <1>3. ASSUME NEW s \in Sessions, Revoke(s) PROVE OneSession'
    <2>1. UNCHANGED <<clock, jar, flight>> /\ clock \in Nat /\ ends \in [Sessions -> Nat]
      BY <1>3 DEF Revoke, Shapes
    <2>2. \A u \in Sessions : ends'[u] \in {0, ends[u]} BY <1>3, <2>1 DEF Revoke
    <2>3. \A u \in Sessions : ends'[u] <= ends[u] BY <2>1, <2>2
    <2>4. jar.sess \in Sessions \cup {Absent} /\ jar.sessEnd \in Nat BY DEF Shapes
    <2>5. ASSUME NEW u \in Tabs PROVE Carries(flight[u])'
      <3>1. SUFFICES ASSUME flight[u].phase = "answer", ~ Resolves(flight[u].came)
                     PROVE  ~ Resolves(flight[u].came)'
        BY <2>1 DEF OneSession, Carries
      <3>2. flight[u].came \in Sessions \cup {Absent} BY <3>1 DEF Shapes, Shape
      <3> QED BY <2>1, <2>2, <3>1, <3>2 DEF Resolves
    <2>6. \A u \in Sessions : ends'[u] <= clock' + SessionTtl
      BY <2>1, <2>2, <2>3 DEF OneSession, BrowserInstance
    <2>7. jar'.sess # Absent => ends'[jar.sess] <= jar'.sessEnd
      BY <2>1, <2>2, <2>4 DEF OneSession
    <2> QED BY <2>1, <2>5, <2>6, <2>7 DEF OneSession
  <1>4. CASE UNCHANGED browser
    BY <1>4 DEF browser, OneSession, Carries, Resolves
  <1> QED BY <1>1, <1>2, <1>3, <1>4, OneSessionHandled, OneSessionSent, OneSessionDelivered
          DEF BrowserNext

(* The cookie of a session that is not over is taken by signing out or by    *)
(* the answer to a request that was sent without it, and by nothing else:    *)
(* for any number of tabs, sessions and requests under way at the same time  *)
(* (auth.rs: session_cookie, clear_session_cookie, Guard).                   *)
THEOREM StaysSignedIn == ASSUME BrowserInstance PROVE BrowserSpec => SignInSticks
  <1> DEFINE Inv == Shapes /\ OneSession
             Sticks == LET s == SessionCookie(jar)
                       IN  Resolves(s) /\ SessionCookie(jar)' # s =>
                             \/ ends'[s] <= clock'
                             \/ \E t \in Tabs : Deliver(t) /\ (flight[t].signout \/ flight[t].came # s)
  <1>1. ASSUME BrowserInit PROVE Inv
    <2>1. OneSession BY <1>1 DEF BrowserInit, OneSession, Carries, Quiet, Absent, BrowserInstance
    <2> QED BY <1>1, <2>1, ShapesInit
  <1>2. ASSUME Inv, [BrowserNext]_browser PROVE Inv'
    BY <1>2, ShapesNext, OneSessionNext
  <1>3. ASSUME Inv, [BrowserNext]_browser PROVE Sticks
    <2> SUFFICES ASSUME Resolves(SessionCookie(jar)),
                        SessionCookie(jar)' # SessionCookie(jar),
                        \A t \in Tabs : Deliver(t) =>
                          ~ flight[t].signout /\ flight[t].came = SessionCookie(jar)
                 PROVE  ends'[SessionCookie(jar)] <= clock'
      OBVIOUS
    <2>1. SessionCookie(jar) = jar.sess /\ jar.sess # Absent
      BY DEF Resolves, SessionCookie
    <2>2. CASE UNCHANGED <<clock, jar>>
      BY <2>2 DEF SessionCookie
    <2>3. CASE Elapse
      <3>1. clock \in Nat /\ clock' = clock + 1 /\ UNCHANGED <<ends, jar>>
        BY <1>3, <2>3 DEF Elapse, Shapes
      <3>2. jar.sess \in Sessions /\ jar.sessEnd \in Nat /\ ends[jar.sess] \in Nat
        BY <1>3, <2>1 DEF Shapes
      <3>3. jar.sessEnd <= clock' BY <2>1, <3>1, <3>2 DEF SessionCookie
      <3> QED BY <1>3, <2>1, <3>1, <3>2, <3>3 DEF OneSession
    <2>4. ASSUME NEW t \in Tabs, Deliver(t) PROVE FALSE
      <3>1. flight[t].phase = "answer" /\ jar' = Kept(flight[t]) /\ clock' = clock
        BY <2>4 DEF Deliver
      <3>2. flight[t].sess = Absent
        BY <1>3, <2>4, <3>1 DEF OneSession, Carries
      <3>3. jar'.sess = jar.sess /\ jar'.sessEnd = jar.sessEnd
        BY <3>1, <3>2 DEF Kept, Cleared, Absent, BrowserInstance
      <3> QED BY <3>1, <3>3 DEF SessionCookie
    <2>5. (\E t \in Tabs : Deliver(t)) \/ Elapse \/ UNCHANGED <<clock, jar>>
      BY <1>3 DEF BrowserNext, User, Visit, SendForm, Handle, TurnAway, SendOn, Render, Refuse, Misplaced,
                  LogIn, Mistype, Change, LogOut, Lose, Revoke, browser
    <2> QED BY <2>2, <2>3, <2>4, <2>5
  <1> QED BY <1>1, <1>2, <1>3, PTL DEF BrowserSpec, SignInSticks

-----------------------------------------------------------------------------
(* The shape of everything, and that a new token can always be minted.       *)

\* What functions give for as many arguments is no more.
LEMMA ImageSize ==
  ASSUME NEW S, IsFiniteSet(S), NEW f, DOMAIN f = S, NEW T, T = {f[x] : x \in S}
  PROVE  IsFiniteSet(T) /\ Cardinality(T) \in Nat /\ Cardinality(T) <= Cardinality(S)
<1> DEFINE g == [x \in S |-> f[x]]
<1>1. g \in [S -> T] OBVIOUS
<1>2. \A y \in T : \E x \in S : g[x] = y OBVIOUS
<1> HIDE DEF g
<1>3. g \in Surjection(S, T) BY <1>1, <1>2, Fun_IsSurj
<1>4. IsFiniteSet(T) /\ Cardinality(T) <= Cardinality(S) BY <1>3, FS_Surjection
<1> QED BY <1>4, FS_CardinalityType

\* The token a message adds to those of the browser's cookie and of its tabs.
CarriedValue(m) ==
  IF m.phase = "asking" THEN m.csrf.value
  ELSE IF m.phase = "answer" THEN IF m.csrf = NoToken THEN m.token.value ELSE m.csrf.value
  ELSE Absent

\* A form carries the token of its tab, an answer the token of its page alone,
\* and an error page has none.
Owned(t) ==
  /\ open[t].page = "error" => open[t].token = NoToken
  /\ flight[t].phase = "asking" => flight[t].form \in {NoToken, open[t].token}
  /\ flight[t].phase = "answer" =>
       /\ flight[t].csrf = NoToken \/ flight[t].token \in {NoToken, flight[t].csrf}
       /\ flight[t].form \in {NoToken, open[t].token}
       /\ flight[t].page = "error" => flight[t].token = NoToken

AllOwned == DOMAIN flight = Tabs /\ \A t \in Tabs : Owned(t)

\* Tokens in use have fewer values than there are.
LEMMA SomeValueFree ==
  ASSUME BrowserInstance, BrowserTypeOK, AllOwned
  PROVE  FreshToken \in Tokens /\ FreshToken # NoToken
<1> DEFINE n == Cardinality(Tabs)
           V == 1 .. (2 * n + 2)
           held == {jar.csrf.value} \cup {open[t].token.value : t \in Tabs}
                     \cup UNION {ValuesIn(flight[t]) : t \in Tabs}
           f == [t \in Tabs |-> open[t].token.value]
           g == [t \in Tabs |-> CarriedValue(flight[t])]
           F == {f[t] : t \in Tabs}
           G == {g[t] : t \in Tabs}
           c == jar.csrf.value
           H == ({c} \cup F) \cup G
<1>1. IsFiniteSet(Tabs) /\ n \in Nat BY FS_CardinalityType DEF BrowserInstance
<1>2. IsFiniteSet(F) /\ Cardinality(F) \in Nat /\ Cardinality(F) <= n
  <2>1. DOMAIN f = Tabs OBVIOUS
  <2> HIDE DEF f
  <2> QED BY <1>1, <2>1, ImageSize
<1>3. IsFiniteSet(G) /\ Cardinality(G) \in Nat /\ Cardinality(G) <= n
  <2>1. DOMAIN g = Tabs OBVIOUS
  <2> HIDE DEF g
  <2> QED BY <1>1, <2>1, ImageSize
<1>4. \E v \in V : v \notin H
  <2> HIDE DEF F, G, n
  <2>1. IsFiniteSet({c}) /\ Cardinality({c}) = 1 BY FS_Singleton
  <2>2. IsFiniteSet({c} \cup F) /\ Cardinality({c} \cup F) <= 1 + n /\ Cardinality({c} \cup F) \in Nat
    <3>1. IsFiniteSet({c} \cap F) BY <2>1, FS_Subset
    <3>2. Cardinality({c} \cap F) \in Nat BY <3>1, FS_CardinalityType
    <3>3. IsFiniteSet({c} \cup F) /\ Cardinality({c} \cup F) = 1 + Cardinality(F) - Cardinality({c} \cap F)
      BY <1>2, <2>1, FS_Union
    <3>4. Cardinality({c} \cup F) \in Nat BY <3>3, FS_CardinalityType
    <3> QED BY <1>1, <1>2, <3>2, <3>3, <3>4
  <2>3. IsFiniteSet(H) /\ Cardinality(H) <= 1 + n + n /\ Cardinality(H) \in Nat
    <3> DEFINE E == {c} \cup F
    <3> HIDE DEF E
    <3>0. IsFiniteSet(E) /\ Cardinality(E) <= 1 + n /\ Cardinality(E) \in Nat BY <2>2 DEF E
    <3>1. IsFiniteSet(E \cap G) BY <3>0, FS_Subset
    <3>2. Cardinality(E \cap G) \in Nat BY <3>1, FS_CardinalityType
    <3>3. IsFiniteSet(E \cup G) /\ Cardinality(E \cup G) = Cardinality(E) + Cardinality(G) - Cardinality(E \cap G)
      BY <1>3, <3>0, FS_Union
    <3>4. Cardinality(E \cup G) \in Nat BY <3>3, FS_CardinalityType
    <3>5. H = E \cup G BY DEF E
    <3> HIDE DEF H
    <3> QED BY <1>1, <1>3, <3>0, <3>2, <3>3, <3>4, <3>5
  <2>4. Cardinality(V) = 2 * n + 2
    <3>1. 2 * n + 2 \in Int /\ ~ 1 > 2 * n + 2 /\ (2 * n + 2) - 1 + 1 = 2 * n + 2 BY <1>1
    <3> QED BY <3>1, FS_Interval
  <2> HIDE DEF H, V
  <2>5. V \subseteq H => Cardinality(V) <= Cardinality(H) BY <2>3, FS_Subset
  <2>6. ~ V \subseteq H BY <1>1, <2>3, <2>4, <2>5
  <2> QED BY <2>6
<1>5. PICK v \in V : v \notin H BY <1>4
<1>6. v # Absent BY <1>1 DEF Absent
<1>6a. NoToken.value = Absent BY DEF NoToken
<1>7. v \notin held
  <2>1. v # c /\ (\A t \in Tabs : v # open[t].token.value) /\ (\A t \in Tabs : v # CarriedValue(flight[t]))
    BY <1>5
  <2>2. ASSUME NEW t \in Tabs PROVE v \notin ValuesIn(flight[t])
    <3> DEFINE m == flight[t]
    <3>0. Owned(t) /\ v # open[t].token.value /\ v # CarriedValue(m) BY <2>1 DEF AllOwned
    <3>1. m \in Asking \cup Answer \cup {Quiet} BY DEF BrowserTypeOK
    <3>2. m.phase \in {"quiet", "asking", "answer"} BY <3>1 DEF Asking, Answer, Quiet
    <3>3. CASE m.phase = "quiet" BY <3>3 DEF ValuesIn
    <3>4. CASE m.phase = "asking"
      <4>1. ValuesIn(m) = {m.csrf.value, m.form.value} BY <3>4 DEF ValuesIn
      <4>2. v # m.csrf.value BY <3>0, <3>4 DEF CarriedValue
      <4>3. v # m.form.value BY <1>6, <1>6a, <3>0, <3>4 DEF Owned
      <4> QED BY <4>1, <4>2, <4>3
    <3>5. CASE m.phase = "answer"
      <4>1. ValuesIn(m) = {m.csrf.value, m.token.value, m.form.value} BY <3>5 DEF ValuesIn
      <4>2. CarriedValue(m) = IF m.csrf = NoToken THEN m.token.value ELSE m.csrf.value
        BY <3>5 DEF CarriedValue
      <4>3. m.csrf = NoToken \/ m.token \in {NoToken, m.csrf} BY <3>0, <3>5 DEF Owned
      <4>4. v # m.csrf.value BY <1>6, <1>6a, <3>0, <4>2
      <4>5. v # m.token.value BY <1>6, <1>6a, <3>0, <4>2, <4>3
      <4>6. v # m.form.value BY <1>6, <1>6a, <3>0, <3>5 DEF Owned
      <4> QED BY <4>1, <4>4, <4>5, <4>6
    <3> QED BY <3>2, <3>3, <3>4, <3>5
  <2> QED BY <2>1, <2>2
<1> DEFINE w == CHOOSE x \in V : x \notin held
<1>8. w \in V
  <2> HIDE DEF V, held
  <2> QED BY <1>7
<1>9. FreshToken = [value |-> w, at |-> clock] BY DEF FreshToken
<1> HIDE DEF w
<1>10. clock \in 0 .. MaxClock BY DEF BrowserTypeOK
<1>11. w # 0 BY <1>1, <1>8
<1> QED BY <1>8, <1>9, <1>10, <1>11 DEF Tokens, NoToken, Absent

\* Messages by their phase.
LEMMA InFlight ==
  ASSUME BrowserTypeOK, NEW t \in Tabs
  PROVE  /\ flight[t].phase \in {"quiet", "asking", "answer"}
         /\ flight[t].phase = "quiet" => flight[t] = Quiet
         /\ flight[t].phase = "asking" =>
              /\ flight[t].path \in Paths /\ flight[t].method \in Methods /\ flight[t].next \in Paths
              /\ flight[t].csrf \in Tokens /\ flight[t].sess \in Sessions \cup {Absent}
              /\ flight[t].form \in Tokens
         /\ flight[t].phase = "answer" =>
              /\ flight[t].csrf \in Tokens /\ flight[t].sess \in Sessions \cup {Absent, Cleared}
              /\ flight[t].to \in Paths \cup {"here"} /\ flight[t].next \in Paths
              /\ flight[t].method \in Methods /\ flight[t].form \in Tokens
              /\ flight[t].page \in Paths \cup {"error"} /\ flight[t].token \in Tokens
<1>1. flight[t] \in Asking \/ flight[t] \in Answer \/ flight[t] = Quiet BY DEF BrowserTypeOK
<1>2. CASE flight[t] \in Asking BY <1>2 DEF Asking
<1>3. CASE flight[t] \in Answer BY <1>3 DEF Answer
<1>4. CASE flight[t] = Quiet BY <1>4 DEF Quiet
<1> QED BY <1>1, <1>2, <1>3, <1>4

\* An answer and a request are what Reply and Send put together.
LEMMA AnswerBuilt ==
  ASSUME NEW csrf \in Tokens, NEW sess \in Sessions \cup {Absent, Cleared},
         NEW came \in Sessions \cup {Absent}, NEW to \in Paths \cup {"here"}, NEW next \in Paths,
         NEW method \in Methods, NEW form \in Tokens, NEW page \in Paths \cup {"error"},
         NEW token \in Tokens, NEW signout \in BOOLEAN
  PROVE  [phase |-> "answer", csrf |-> csrf, sess |-> sess, came |-> came, to |-> to,
          next |-> next, method |-> method, form |-> form, page |-> page, token |-> token,
          signout |-> signout] \in Answer
  BY DEF Answer

LEMMA RequestBuilt ==
  ASSUME NEW path \in Paths, NEW method \in Methods, NEW next \in Paths, NEW csrf \in Tokens,
         NEW sess \in Sessions \cup {Absent}, NEW form \in Tokens
  PROVE  [phase |-> "asking", path |-> path, method |-> method, next |-> next,
          csrf |-> csrf, sess |-> sess, form |-> form] \in Asking
  BY DEF Asking

\* What a reply leaves of the message and of the others.
LEMMA Answered ==
  ASSUME BrowserInstance, BrowserTypeOK, AllOwned, NEW t \in Tabs, flight[t].phase = "asking",
         NEW sess \in Sessions \cup {Absent, Cleared}, NEW to \in Paths \cup {"here"},
         NEW next \in Paths, NEW page \in Paths \cup {"error"}, NEW signout \in BOOLEAN,
         Reply(t, sess, to, next, page, signout)
  PROVE  /\ DOMAIN flight' = Tabs /\ \A u \in Tabs : u # t => flight'[u] = flight[u]
         /\ flight'[t] \in Answer /\ flight'[t].phase = "answer"
         /\ flight'[t].csrf = NoToken \/ flight'[t].token \in {NoToken, flight'[t].csrf}
         /\ flight'[t].form \in {NoToken, flight[t].form}
         /\ flight'[t].page = "error" => flight'[t].token = NoToken
<1> DEFINE m == flight[t]
           i == Issued(m)
           again == SentOn(t) \/ TurnedAway(t)
           c == IF i = m.csrf THEN NoToken ELSE i
           k == IF page = "error" \/ to # "here" THEN NoToken ELSE i
           h == IF again THEN m.method ELSE "get"
           f == IF again THEN m.form ELSE NoToken
           a == [phase |-> "answer", csrf |-> c, sess |-> sess, came |-> m.sess, to |-> to,
                 next |-> next, method |-> h, form |-> f, page |-> page, token |-> k,
                 signout |-> signout]
<1>1. /\ m.csrf \in Tokens /\ m.form \in Tokens /\ m.method \in Methods
      /\ m.sess \in Sessions \cup {Absent}
  BY InFlight
<1>2. i \in Tokens BY <1>1, SomeValueFree DEF Issued
<1>3. NoToken \in Tokens /\ "get" \in Methods BY DEF Tokens, Methods
<1>4. c \in Tokens /\ k \in Tokens /\ h \in Methods /\ f \in Tokens
  <2> HIDE DEF again
  <2> QED BY <1>1, <1>2, <1>3
<1>5. flight' = [flight EXCEPT ![t] = a] BY DEF Reply
<1>6. c = NoToken \/ k \in {NoToken, c} OBVIOUS
<1>7. page = "error" => k = NoToken OBVIOUS
<1>7a. f \in {NoToken, m.form}
  <2> HIDE DEF again
  <2> QED OBVIOUS
<1>7b. PICK q : q = m.sess OBVIOUS
<1> DEFINE b == [phase |-> "answer", csrf |-> c, sess |-> sess, came |-> q, to |-> to,
                 next |-> next, method |-> h, form |-> f, page |-> page, token |-> k,
                 signout |-> signout]
<1>7c. a = b BY <1>7b
<1>7d. f \in {NoToken, flight[t].form} /\ q \in Sessions \cup {Absent} BY <1>1, <1>7a, <1>7b
<1> HIDE DEF c, k, h, f, i, m, again, a
<1>8. b \in Answer BY <1>4, <1>7d, AnswerBuilt
<1>9. b.phase = "answer" /\ b.csrf = c /\ b.token = k /\ b.page = page /\ b.form = f OBVIOUS
<1> HIDE DEF b
<1>10. DOMAIN flight = Tabs BY DEF AllOwned
<1>11. DOMAIN flight' = Tabs /\ flight'[t] = b /\ \A u \in Tabs : u # t => flight'[u] = flight[u]
  BY <1>5, <1>7c, <1>10
<1> QED BY <1>6, <1>7, <1>7d, <1>8, <1>9, <1>11

\* The handlers reply, with what there is to reply with, and may change a session.
LEMMA HandledAs ==
  ASSUME BrowserInstance, BrowserTypeOK, NEW t \in Tabs, Handle(t)
  PROVE  /\ flight[t].phase = "asking" /\ UNCHANGED <<clock, jar, open>>
         /\ ends' \in [Sessions -> 0 .. (MaxClock + SessionTtl)]
         /\ \E sess \in Sessions \cup {Absent, Cleared}, to \in Paths \cup {"here"}, next \in Paths,
              page \in Paths \cup {"error"}, signout \in BOOLEAN :
              Reply(t, sess, to, next, page, signout)
<1> DEFINE E == [Sessions -> 0 .. (MaxClock + SessionTtl)]
           Replies == \E sess \in Sessions \cup {Absent, Cleared}, to \in Paths \cup {"here"}, next \in Paths,
                         page \in Paths \cup {"error"}, signout \in BOOLEAN :
                         Reply(t, sess, to, next, page, signout)
           D == Dropped(flight[t])
<1>0. /\ {"private", "login"} \subseteq Paths /\ Absent \in Sessions \cup {Absent, Cleared}
      /\ Cleared \in Sessions \cup {Absent, Cleared} /\ D \in Sessions \cup {Absent, Cleared}
  BY DEF Paths, Dropped
<1>1. ends \in E /\ clock \in 0 .. MaxClock BY DEF BrowserTypeOK
<1>2. ASSUME flight[t].phase = "asking"
      PROVE  flight[t].path \in Paths /\ flight[t].next \in Paths /\ flight[t].sess \in Sessions \cup {Absent}
  BY <1>2, InFlight
<1> HIDE DEF D
<1>3. CASE TurnAway(t)
  <2>1. /\ flight[t].phase = "asking" /\ UNCHANGED <<clock, ends, jar, open>>
        /\ Reply(t, D, "login", flight[t].path, "login", FALSE)
    BY <1>3 DEF TurnAway, Asked, D
  <2> QED BY <1>0, <1>1, <1>2, <2>1
<1>4. CASE SendOn(t)
  <2>1. /\ flight[t].phase = "asking" /\ UNCHANGED <<clock, ends, jar, open>>
        /\ Reply(t, Absent, flight[t].next, "private", "private", FALSE)
    BY <1>4 DEF SendOn, Asked
  <2> QED BY <1>0, <1>1, <1>2, <2>1
<1>5. CASE Render(t)
  <2>1. /\ flight[t].phase = "asking" /\ UNCHANGED <<clock, ends, jar, open>>
        /\ Reply(t, D, "here", "private", flight[t].path, FALSE)
    BY <1>5 DEF Render, Admitted, Asked, D
  <2> QED BY <1>0, <1>1, <1>2, <2>1
<1>6. CASE Refuse(t) \/ Mistype(t)
  <2>1. /\ flight[t].phase = "asking" /\ UNCHANGED <<clock, ends, jar, open>>
        /\ Reply(t, D, "here", "private", "error", FALSE)
    BY <1>6 DEF Refuse, Mistype, Admitted, Asked, D
  <2> QED BY <1>0, <1>1, <2>1
<1>7. CASE LogIn(t)
  <2>1. PICK s \in Unknown, next \in Paths :
          /\ ends' = [ends EXCEPT ![s] = clock + SessionTtl]
          /\ Reply(t, s, next, "private", "private", FALSE)
    BY <1>7 DEF LogIn
  <2>2. flight[t].phase = "asking" /\ UNCHANGED <<clock, jar, open>> BY <1>7 DEF LogIn, Admitted, Asked
  <2>3. s \in Sessions BY DEF Unknown
  <2>4. clock + SessionTtl \in 0 .. (MaxClock + SessionTtl) BY <1>1 DEF BrowserInstance
  <2>5. ends' \in E BY <1>1, <2>1, <2>3, <2>4
  <2> QED BY <1>0, <2>1, <2>2, <2>3, <2>5
<1>8a. CASE Misplaced(t)
  <2>1. /\ flight[t].phase = "asking" /\ UNCHANGED <<clock, ends, jar, open>>
        /\ Reply(t, Absent, "here", "private", "error", FALSE)
    BY <1>8a DEF Misplaced, Admitted, Asked
  <2> QED BY <1>0, <1>1, <2>1
<1>8. CASE Change(t)
  <2>1. /\ flight[t].phase = "asking" /\ UNCHANGED <<clock, ends, jar, open>>
        /\ Reply(t, Absent, "private", "private", "private", FALSE)
    BY <1>8 DEF Change, Admitted, Asked
  <2> QED BY <1>0, <1>1, <2>1
<1>9. CASE LogOut(t)
  <2>1. /\ flight[t].phase = "asking" /\ UNCHANGED <<clock, jar, open>>
        /\ ends' = [ends EXCEPT ![flight[t].sess] = 0] \/ UNCHANGED ends
        /\ Reply(t, Cleared, "login", "private", "login", TRUE)
    BY <1>9 DEF LogOut, Admitted, Asked
  <2>2. 0 \in 0 .. (MaxClock + SessionTtl) BY DEF BrowserInstance
  <2>3. ends' \in E BY <1>1, <2>1, <2>2
  <2> QED BY <1>0, <2>1, <2>3
<1> QED BY <1>3, <1>4, <1>5, <1>6, <1>7, <1>8, <1>8a, <1>9 DEF Handle

\* What a request is made of, if what it is sent with has its shape.
LEMMA Requested ==
  ASSUME BrowserInstance, BrowserTypeOK, AllOwned, NEW t \in Tabs, NEW j,
         j.csrf \in Tokens, j.sess \in Sessions \cup {Absent}, NEW path \in Paths,
         NEW method \in Methods, NEW next \in Paths, NEW form \in Tokens,
         Send(t, j, path, method, next, form)
  PROVE  /\ DOMAIN flight' = Tabs /\ \A u \in Tabs : u # t => flight'[u] = flight[u]
         /\ flight'[t] \in Asking /\ flight'[t].phase = "asking" /\ flight'[t].form = form
<1> DEFINE c == CsrfCookie(j)
           s == SessionCookie(j)
           a == [phase |-> "asking", path |-> path, method |-> method, next |-> next,
                 csrf |-> c, sess |-> s, form |-> form]
<1>1. c \in Tokens /\ s \in Sessions \cup {Absent} BY DEF CsrfCookie, SessionCookie, Tokens
<1>2. flight' = [flight EXCEPT ![t] = a] BY DEF Send
<1> HIDE DEF c, s
<1>3. a \in Asking BY <1>1, RequestBuilt
<1>4. a.phase = "asking" /\ a.form = form OBVIOUS
<1> HIDE DEF a
<1>5. DOMAIN flight = Tabs BY DEF AllOwned
<1>6. DOMAIN flight' = Tabs /\ flight'[t] = a /\ \A u \in Tabs : u # t => flight'[u] = flight[u]
  BY <1>2, <1>5
<1> QED BY <1>3, <1>4, <1>6

\* One message and the page of one tab change at a time.
LEMMA OneTabAtATime ==
  ASSUME BrowserTypeOK, AllOwned, NEW t \in Tabs,
         DOMAIN flight' = Tabs, \A u \in Tabs : u # t => flight'[u] = flight[u] /\ open'[u] = open[u],
         flight'[t] \in Asking \cup Answer \cup {Quiet}, Owned(t)'
  PROVE  AllOwned' /\ \A u \in Tabs : flight'[u] \in Asking \cup Answer \cup {Quiet}
<1>1. ASSUME NEW u \in Tabs, u # t
      PROVE  Owned(u)' /\ flight'[u] \in Asking \cup Answer \cup {Quiet}
  BY <1>1 DEF Owned, AllOwned, BrowserTypeOK
<1> QED BY <1>1 DEF AllOwned

\* The rest of the shape.
Around ==
  /\ clock \in 0 .. MaxClock /\ ends \in [Sessions -> 0 .. (MaxClock + SessionTtl)]
  /\ jar \in [csrf : Tokens, csrfEnd : 0 .. (MaxClock + TokenTtl),
              sess : Sessions \cup {Absent}, sessEnd : 0 .. (MaxClock + SessionTtl)]
  /\ open \in [Tabs -> [page : Paths \cup {"error"}, token : Tokens]]

\* The two hold at first, and after every step.
LEMMA BrowserTypeInit == ASSUME BrowserInstance, BrowserInit PROVE BrowserTypeOK /\ AllOwned
<1>1. NoToken \in Tokens BY DEF Tokens
<1>2. /\ 0 \in 0 .. MaxClock /\ 0 \in 0 .. (MaxClock + SessionTtl) /\ 0 \in 0 .. (MaxClock + TokenTtl)
      /\ Absent \in Sessions \cup {Absent} /\ "error" \in Paths \cup {"error"}
  BY DEF BrowserInstance
<1> USE DEF BrowserInit
<1>3. Around BY <1>1, <1>2 DEF Around
<1>4. \A t \in Tabs : flight[t] \in Asking \cup Answer \cup {Quiet} OBVIOUS
<1>5. AllOwned BY DEF AllOwned, Owned, Quiet
<1> QED BY <1>3, <1>4, <1>5 DEF BrowserTypeOK, Around

LEMMA BrowserTypeNext ==
  ASSUME BrowserInstance, BrowserTypeOK, AllOwned, [BrowserNext]_browser
  PROVE  BrowserTypeOK' /\ AllOwned'
<1> DEFINE Messages == \A t \in Tabs : flight'[t] \in Asking \cup Answer \cup {Quiet}
<1>0. Around BY DEF BrowserTypeOK, Around
<1>0a. ASSUME Around', Messages PROVE BrowserTypeOK' BY <1>0a DEF BrowserTypeOK, Around
<1>0b. ASSUME UNCHANGED <<clock, jar, open>>, ends' \in [Sessions -> 0 .. (MaxClock + SessionTtl)]
       PROVE  Around'
  BY <1>0, <1>0b DEF Around
<1>0c. DOMAIN flight = Tabs /\ DOMAIN open = Tabs BY DEF AllOwned, BrowserTypeOK
<1>0d. /\ jar.csrf \in Tokens /\ jar.sess \in Sessions \cup {Absent} /\ ends \in [Sessions -> 0 .. (MaxClock + SessionTtl)]
       /\ clock \in 0 .. MaxClock /\ NoToken \in Tokens
  BY <1>0 DEF Around, Tokens
<1> HIDE DEF Messages
<1>1. ASSUME NEW t \in Tabs, Handle(t) PROVE BrowserTypeOK' /\ AllOwned'
  <2>1. /\ flight[t].phase = "asking" /\ UNCHANGED <<clock, jar, open>>
        /\ ends' \in [Sessions -> 0 .. (MaxClock + SessionTtl)]
    BY <1>1, HandledAs
  <2>2. PICK sess \in Sessions \cup {Absent, Cleared}, to \in Paths \cup {"here"}, next \in Paths,
             page \in Paths \cup {"error"}, signout \in BOOLEAN :
             Reply(t, sess, to, next, page, signout)
    BY <1>1, HandledAs
  <2>3. /\ DOMAIN flight' = Tabs /\ \A u \in Tabs : u # t => flight'[u] = flight[u]
        /\ flight'[t] \in Answer /\ flight'[t].phase = "answer"
        /\ flight'[t].csrf = NoToken \/ flight'[t].token \in {NoToken, flight'[t].csrf}
        /\ flight'[t].form \in {NoToken, flight[t].form}
        /\ flight'[t].page = "error" => flight'[t].token = NoToken
    BY <2>1, <2>2, Answered
  <2>3a. flight[t].form \in {NoToken, open[t].token} BY <2>1 DEF Owned, AllOwned
  <2>4. Owned(t)' BY <2>1, <2>3, <2>3a DEF Owned, AllOwned
  <2>5. AllOwned' /\ Messages BY <2>1, <2>3, <2>4, OneTabAtATime DEF Messages
  <2>6. Around' BY <1>0b, <2>1
  <2> QED BY <1>0a, <2>5, <2>6
<1>2. ASSUME NEW t \in Tabs, User(t) PROVE BrowserTypeOK' /\ AllOwned'
  <2>1. PICK path \in Paths, method \in Methods, next \in Paths, form \in Tokens :
          /\ Send(t, jar, path, method, next, form) /\ form \in {NoToken, open[t].token}
          /\ UNCHANGED <<clock, ends, jar, open>>
    <3>1. CASE \E path, next \in Paths : Visit(t, path, next)
      <4>1. "get" \in Methods BY DEF Methods
      <4> QED BY <1>0d, <3>1, <4>1 DEF Visit
    <3>2. CASE \E method \in Methods : SendForm(t, method)
      <4>1. PICK method \in Methods : SendForm(t, method) BY <3>2
      <4>2. open[t].token # NoToken /\ open[t].token \in Tokens /\ open[t].page \in Paths \cup {"error"}
        BY <1>0, <4>1 DEF SendForm, Around
      <4>3. open[t].page \in Paths BY <4>2 DEF AllOwned, Owned
      <4>4. "private" \in Paths BY DEF Paths
      <4> QED BY <4>1, <4>2, <4>3, <4>4 DEF SendForm
    <3> QED BY <1>2, <3>1, <3>2 DEF User
  <2>2. /\ DOMAIN flight' = Tabs /\ \A u \in Tabs : u # t => flight'[u] = flight[u]
        /\ flight'[t] \in Asking /\ flight'[t].phase = "asking" /\ flight'[t].form = form
    BY <1>0d, <2>1, Requested
  <2>3. Owned(t)' BY <2>1, <2>2 DEF Owned, AllOwned
  <2>4. AllOwned' /\ Messages BY <2>1, <2>2, <2>3, OneTabAtATime DEF Messages
  <2>5. Around' BY <1>0b, <1>0d, <2>1
  <2> QED BY <1>0a, <2>4, <2>5
<1>3. ASSUME NEW t \in Tabs, Deliver(t) PROVE BrowserTypeOK' /\ AllOwned'
  <2> DEFINE m == flight[t]
             k == Kept(m)
  <2>1. m.phase = "answer" /\ jar' = k /\ UNCHANGED <<clock, ends>> BY <1>3 DEF Deliver
  <2>2. /\ m.csrf \in Tokens /\ m.sess \in Sessions \cup {Absent, Cleared}
        /\ m.to \in Paths \cup {"here"} /\ m.next \in Paths
        /\ m.method \in Methods /\ m.form \in Tokens
        /\ m.page \in Paths \cup {"error"} /\ m.token \in Tokens
    BY <2>1, InFlight
  <2>3. k \in [csrf : Tokens, csrfEnd : 0 .. (MaxClock + TokenTtl),
               sess : Sessions \cup {Absent}, sessEnd : 0 .. (MaxClock + SessionTtl)]
    <3>1. /\ clock + TokenTtl \in 0 .. (MaxClock + TokenTtl) /\ clock + SessionTtl \in 0 .. (MaxClock + SessionTtl)
          /\ 0 \in 0 .. (MaxClock + SessionTtl)
      BY <1>0d DEF BrowserInstance
    <3>2. /\ jar.csrfEnd \in 0 .. (MaxClock + TokenTtl) /\ jar.sessEnd \in 0 .. (MaxClock + SessionTtl)
      BY <1>0 DEF Around
    <3> DEFINE e1 == IF m.csrf = NoToken THEN jar.csrf ELSE m.csrf
               e2 == IF m.csrf = NoToken THEN jar.csrfEnd ELSE clock + TokenTtl
               e3 == CASE m.sess = Absent -> jar.sess [] m.sess = Cleared -> Absent [] OTHER -> m.sess
               e4 == CASE m.sess = Absent -> jar.sessEnd [] m.sess = Cleared -> 0
                       [] OTHER -> clock + SessionTtl
    <3>3. e1 \in Tokens BY <1>0d, <2>2
    <3>4. e2 \in 0 .. (MaxClock + TokenTtl) BY <3>1, <3>2
    <3>5. e3 \in Sessions \cup {Absent} BY <1>0d, <2>2
    <3>6. e4 \in 0 .. (MaxClock + SessionTtl) BY <3>1, <3>2
    <3>7. k = [csrf |-> e1, csrfEnd |-> e2, sess |-> e3, sessEnd |-> e4] BY DEF Kept
    <3> HIDE DEF e1, e2, e3, e4, k
    <3> QED BY <3>3, <3>4, <3>5, <3>6, <3>7
  <2> HIDE DEF k
  <2>4. CASE m.to = "here"
    <3>1. /\ open' = [open EXCEPT ![t] = [page |-> m.page, token |-> m.token]]
          /\ flight' = [flight EXCEPT ![t] = Quiet]
      BY <1>3, <2>4 DEF Deliver
    <3>2. /\ DOMAIN flight' = Tabs /\ flight'[t] = Quiet
          /\ \A u \in Tabs : u # t => flight'[u] = flight[u] /\ open'[u] = open[u]
      BY <1>0c, <3>1
    <3>3. open'[t].page = m.page /\ open'[t].token = m.token BY <1>0c, <3>1
    <3>4. m.page = "error" => m.token = NoToken BY <2>1 DEF AllOwned, Owned
    <3>5. Owned(t)' BY <3>2, <3>3, <3>4 DEF Owned, Quiet
    <3>6. AllOwned' /\ Messages BY <3>2, <3>5, OneTabAtATime DEF Messages
    <3>7. open' \in [Tabs -> [page : Paths \cup {"error"}, token : Tokens]]
      <4>1. open \in [Tabs -> [page : Paths \cup {"error"}, token : Tokens]] BY <1>0 DEF Around
      <4>2. [page |-> m.page, token |-> m.token] \in [page : Paths \cup {"error"}, token : Tokens] BY <2>2
      <4> QED BY <3>1, <4>1, <4>2
    <3>8. Around' BY <1>0d, <2>1, <2>3, <3>7 DEF Around
    <3> QED BY <1>0a, <3>6, <3>8
  <2>5. CASE m.to # "here"
    <3>1. Send(t, k, m.to, m.method, m.next, m.form) /\ UNCHANGED open BY <1>3, <2>5 DEF Deliver, k
    <3>2. m.to \in Paths BY <2>2, <2>5
    <3>2a. m.form \in {NoToken, open[t].token} BY <2>1 DEF AllOwned, Owned
    <3>3. k.csrf \in Tokens /\ k.sess \in Sessions \cup {Absent} BY <2>3
    <3> HIDE DEF m
    <3>4. /\ DOMAIN flight' = Tabs /\ \A u \in Tabs : u # t => flight'[u] = flight[u]
          /\ flight'[t] \in Asking /\ flight'[t].phase = "asking" /\ flight'[t].form = m.form
      BY <1>0d, <2>2, <3>1, <3>2, <3>3, Requested
    <3>5. Owned(t)' BY <3>1, <3>2a, <3>4 DEF Owned, AllOwned
    <3>6. AllOwned' /\ Messages BY <3>1, <3>4, <3>5, OneTabAtATime DEF Messages
    <3>7. Around' BY <1>0, <1>0d, <2>1, <2>3, <3>1 DEF Around
    <3> QED BY <1>0a, <3>6, <3>7
  <2> QED BY <2>4, <2>5
<1>4. ASSUME NEW t \in Tabs, Lose(t) PROVE BrowserTypeOK' /\ AllOwned'
  <2>1. flight' = [flight EXCEPT ![t] = Quiet] /\ UNCHANGED <<clock, ends, jar, open>> BY <1>4 DEF Lose
  <2>2. /\ DOMAIN flight' = Tabs /\ flight'[t] = Quiet
        /\ \A u \in Tabs : u # t => flight'[u] = flight[u]
    BY <1>0c, <2>1
  <2>3. Owned(t)' BY <2>1, <2>2 DEF Owned, AllOwned, Quiet
  <2>4. AllOwned' /\ Messages BY <2>1, <2>2, <2>3, OneTabAtATime DEF Messages
  <2>5. Around' BY <1>0b, <1>0d, <2>1
  <2> QED BY <1>0a, <2>4, <2>5
<1>5. ASSUME UNCHANGED <<jar, open, flight>>, clock' \in 0 .. MaxClock,
             ends' \in [Sessions -> 0 .. (MaxClock + SessionTtl)]
      PROVE  BrowserTypeOK' /\ AllOwned'
  <2>1. Around' BY <1>0, <1>5 DEF Around
  <2>2. Messages BY <1>5 DEF Messages, BrowserTypeOK
  <2>3. AllOwned' BY <1>5 DEF AllOwned, Owned
  <2> QED BY <1>0a, <2>1, <2>2, <2>3
<1>6. ASSUME NEW s \in Sessions, Revoke(s) PROVE BrowserTypeOK' /\ AllOwned'
  <2>1. 0 \in 0 .. (MaxClock + SessionTtl) BY DEF BrowserInstance
  <2>2. ends' \in [Sessions -> 0 .. (MaxClock + SessionTtl)] BY <1>0d, <1>6, <2>1 DEF Revoke
  <2> QED BY <1>0d, <1>5, <1>6, <2>2 DEF Revoke
<1>7. CASE Elapse
  <2>1. clock' \in 0 .. MaxClock BY <1>0d, <1>7 DEF Elapse, BrowserInstance
  <2> QED BY <1>0d, <1>5, <1>7, <2>1 DEF Elapse
<1>8. CASE UNCHANGED browser
  <2>1. UNCHANGED <<clock, ends, jar, open, flight>> BY <1>8 DEF browser
  <2> QED BY <1>0d, <1>5, <2>1
<1> QED BY <1>1, <1>2, <1>3, <1>4, <1>6, <1>7, <1>8 DEF BrowserNext

(* Cookies, forms and messages keep their shape, and a token can always be *)
(* minted: at most one value a tab, one a message and one in the cookie    *)
(* are in use.                                                             *)
THEOREM BrowserTypeCorrect == ASSUME BrowserInstance PROVE BrowserSpec => []BrowserTypeOK
<1>1. BrowserInit => BrowserTypeOK /\ AllOwned BY BrowserTypeInit
<1>2. BrowserTypeOK /\ AllOwned /\ [BrowserNext]_browser => (BrowserTypeOK /\ AllOwned)'
  BY BrowserTypeNext
<1> QED BY <1>1, <1>2, PTL DEF BrowserSpec

-----------------------------------------------------------------------------
(* Addresses: what is encoded is read back.                                  *)

\* What urlencode writes.
Plain == Unreserved \cup {PercentSign}

\* The signs that part a query are none that are written.
LEMMA ByteFacts ==
  /\ Plain \subseteq Byte /\ Unreserved \subseteq Plain /\ PercentSign \in Plain /\ PercentSign \notin Unreserved
  /\ PlusSign \in Byte \ Plain /\ Ampersand \in Byte \ Plain /\ EqualsSign \in Byte \ Plain
  /\ SlashSign \in Byte \ Plain /\ Ampersand # EqualsSign
BY DEF Plain, Unreserved, Byte, PercentSign, PlusSign, Ampersand, EqualsSign, SlashSign

\* A hex digit is read as what it was written for.
LEMMA HexReads ==
  ASSUME NEW n \in 0 .. 15
  PROVE  HexDigit(n) \in Unreserved /\ HexDigit(n) # PlusSign /\ HexValue(HexDigit(n)) = n
<1>1. CASE n < 10
  <2>1. HexDigit(n) = 48 + n /\ 48 + n \in 48 .. 57 BY <1>1 DEF HexDigit
  <2>2. HexValue(48 + n) = n BY <2>1 DEF HexValue
  <2> QED BY <2>1, <2>2 DEF Unreserved, PlusSign
<1>2. CASE n >= 10
  <2>1. HexDigit(n) = 55 + n /\ 55 + n \in 65 .. 70 BY <1>2 DEF HexDigit
  <2>2. HexValue(55 + n) = n BY <2>1 DEF HexValue
  <2> QED BY <2>1, <2>2 DEF Unreserved, PlusSign
<1> QED BY <1>1, <1>2

\* What a byte may stand for.
LEMMA HexRange == \A b \in Byte : HexValue(b) \in 0 .. 16 BY DEF HexValue, Byte

\* Of a byte, its two digits.
LEMMA TwoDigits ==
  ASSUME NEW b \in Byte
  PROVE  b \div 16 \in 0 .. 15 /\ b % 16 \in 0 .. 15 /\ 16 * (b \div 16) + (b % 16) = b
BY DEF Byte

\* A byte as it is written.
LEMMA EncodedByte ==
  ASSUME NEW b \in Byte
  PROVE  /\ b \in Unreserved => encoded[b] = <<b>>
         /\ b \notin Unreserved =>
              encoded[b] = <<PercentSign, HexDigit(b \div 16), HexDigit(b % 16)>>
BY DEF encoded

\* Texts are written byte by byte.
LEMMA EncodedSpells ==
  Spells(encoded, Byte, Plain) /\ \A b \in Byte : encoded[b] \in Seq(Plain)
<1>1. ASSUME NEW b \in Byte PROVE encoded[b] \in Seq(Plain)
  <2>1. CASE b \in Unreserved
    <3>1. <<b>> \in Seq(Plain) BY <2>1, ByteFacts, FewItems DEF Few
    <3> QED BY <2>1, <3>1, EncodedByte
  <2>2. CASE b \notin Unreserved
    <3>1. HexDigit(b \div 16) \in Plain /\ HexDigit(b % 16) \in Plain BY TwoDigits, HexReads, ByteFacts
    <3> DEFINE x == HexDigit(b \div 16)
               y == HexDigit(b % 16)
    <3>2. x \in Plain /\ y \in Plain BY <3>1
    <3> HIDE DEF x, y
    <3>3. <<PercentSign, x, y>> \in Seq(Plain) BY <3>2, ByteFacts, FewItems DEF Few
    <3> QED BY <2>2, <3>3, EncodedByte DEF x, y
  <2> QED BY <2>1, <2>2
<1>2. Gives(encoded, Byte, Plain) BY <1>1 DEF Gives
<1> QED BY <1>1, <1>2, Eaching

\* What is written of a text parts no query.
LEMMA Encodes == \A v \in Seq(Byte) : urlencode(v) \in Seq(Plain)
BY EncodedSpells DEF urlencode, Spells

-----------------------------------------------------------------------------
Out(ok, text, escape) == [ok |-> ok, text |-> text, escape |-> escape]

\* What decoding holds after one more byte.
LEMMA ReadsOn ==
  ASSUME NEW b \in Byte, NEW m \in Reading
  PROVE  /\ m.escape = <<>> /\ b = PercentSign => decoded[b][m] = Out(m.ok, m.text, <<b>>)
         /\ m.escape = <<>> /\ b # PercentSign => decoded[b][m] = Out(m.ok, Append(m.text, Literal(b)), <<>>)
         /\ m.escape # <<>> /\ Len(m.escape) = 1 => decoded[b][m] = Out(m.ok, m.text, Append(m.escape, b))
         /\ m.escape # <<>> /\ Len(m.escape) # 1 =>
              /\ Readable(m.escape[2], b) =>
                   decoded[b][m] = Out(m.ok, Append(m.text, Escaped(m.escape[2], b)), <<>>)
              /\ ~ Readable(m.escape[2], b) => decoded[b][m] = Out(FALSE, m.text, <<>>)
<1>1. CASE m.escape = <<>> /\ b = PercentSign BY <1>1 DEF decoded, Out
<1>2. CASE m.escape = <<>> /\ b # PercentSign BY <1>2 DEF decoded, Out
<1>3. CASE m.escape # <<>> /\ Len(m.escape) = 1 BY <1>3 DEF decoded, Out
<1>4. CASE m.escape # <<>> /\ Len(m.escape) # 1 /\ Readable(m.escape[2], b) BY <1>4 DEF decoded, Out
<1>5. CASE m.escape # <<>> /\ Len(m.escape) # 1 /\ ~ Readable(m.escape[2], b) BY <1>5 DEF decoded, Out
<1> QED BY <1>1, <1>2, <1>3, <1>4, <1>5

\* Decoding holds something of the same kind after every byte.
LEMMA ReadsBody == Body(decoded, Byte, Reading)
<1> SUFFICES ASSUME NEW b \in Byte, NEW m \in Reading PROVE decoded[b][m] \in Reading BY DEF Body
<1>0. m.ok \in BOOLEAN /\ m.text \in Seq(Byte) /\ m.escape \in Seq(Byte) BY DEF Reading
<1>1. ASSUME NEW x \in BOOLEAN, NEW y \in Seq(Byte), NEW z \in Seq(Byte) PROVE Out(x, y, z) \in Reading
  BY DEF Reading, Out
<1>2. <<>> \in Seq(Byte) /\ <<b>> \in Seq(Byte) BY FewItems DEF Few
<1>3. CASE m.escape = <<>> /\ b = PercentSign
  <2>1. decoded[b][m] = Out(m.ok, m.text, <<b>>) BY <1>3, ReadsOn
  <2> QED BY <1>0, <1>1, <1>2, <2>1
<1>4. CASE m.escape = <<>> /\ b # PercentSign
  <2>1. Literal(b) \in Byte BY DEF Byte, Literal
  <2>2. Append(m.text, Literal(b)) \in Seq(Byte) BY <1>0, <2>1
  <2>3. decoded[b][m] = Out(m.ok, Append(m.text, Literal(b)), <<>>) BY <1>4, ReadsOn
  <2> QED BY <1>0, <1>1, <1>2, <2>2, <2>3
<1>5. CASE m.escape # <<>> /\ Len(m.escape) = 1
  <2>1. Append(m.escape, b) \in Seq(Byte) BY <1>0
  <2>2. decoded[b][m] = Out(m.ok, m.text, Append(m.escape, b)) BY <1>5, ReadsOn
  <2> QED BY <1>0, <1>1, <2>1, <2>2
<1>6. CASE m.escape # <<>> /\ Len(m.escape) # 1
  <2>0. Len(m.escape) \in Nat /\ Len(m.escape) # 0 BY <1>0, <1>6, EmptySeq
  <2> DEFINE l == Len(m.escape)
  <2>1. 2 \in 1 .. l
    <3>1. l \in Nat /\ l # 0 /\ l # 1 BY <1>6, <2>0
    <3> HIDE DEF l
    <3> QED BY <3>1
  <2>2. m.escape[2] \in Byte BY <1>0, <2>1, ElementOfSeq
  <2>3. CASE Readable(m.escape[2], b)
    <3>1. HexValue(b) \in 0 .. 16 /\ HexValue(m.escape[2]) \in 0 .. 16 BY <2>2, HexRange
    <3>2. Escaped(m.escape[2], b) \in Byte BY <2>3, <3>1 DEF Readable, Escaped, Byte
    <3>3. Append(m.text, Escaped(m.escape[2], b)) \in Seq(Byte) BY <1>0, <3>2
    <3>4. decoded[b][m] = Out(m.ok, Append(m.text, Escaped(m.escape[2], b)), <<>>)
      BY <1>6, <2>3, ReadsOn
    <3> QED BY <1>0, <1>1, <1>2, <3>3, <3>4
  <2>4. CASE ~ Readable(m.escape[2], b)
    <3>1. decoded[b][m] = Out(FALSE, m.text, <<>>) BY <1>6, <2>4, ReadsOn
    <3> QED BY <1>0, <1>1, <1>2, <3>1
  <2> QED BY <2>3, <2>4
<1> QED BY <1>3, <1>4, <1>5, <1>6

Read(text) == Out(TRUE, text, <<>>)

LEMMA ReadIs ==
  ASSUME NEW t \in Seq(Byte)
  PROVE Read(t) \in Reading /\ Read(t).ok = TRUE /\ Read(t).text = t /\ Read(t).escape = <<>>
BY DEF Read, Out, Reading

\* A byte is read back from what it was written as.
LEMMA ReadsByte ==
  ASSUME NEW t \in Seq(Byte), NEW b \in Byte
  PROVE  Folded(decoded, Read(t), encoded[b]) = Read(Append(t, b))
<1> DEFINE first == Read(t)
<1>1. first \in Reading /\ first.ok = TRUE /\ first.text = t /\ first.escape = <<>> BY ReadIs
<1> HIDE DEF first
<1>2. Folds(decoded, first, Byte, Reading) BY <1>1, ReadsBody, LoopFolds
<1>3. CASE b \in Unreserved
  <2>1. encoded[b] = <<b>> /\ b # PercentSign /\ b # PlusSign BY <1>3, EncodedByte, ByteFacts
  <2>2. Folded(decoded, first, <<b>>) = decoded[b][first]
    <3>1. <<>> \in Seq(Byte) /\ <<b>> = Append(<<>>, b) BY FewItems DEF Few
    <3> QED BY <1>2, <3>1 DEF Folds
  <2>3. decoded[b][first] = Out(first.ok, Append(first.text, b), <<>>)
    BY <1>1, <2>1, ReadsOn DEF Literal
  <2> QED BY <1>1, <2>1, <2>2, <2>3 DEF first, Read
<1>4. CASE b \notin Unreserved
  <2> DEFINE x == HexDigit(b \div 16)
             y == HexDigit(b % 16)
             p == PercentSign
             m1 == Out(TRUE, t, <<p>>)
             m2 == Out(TRUE, t, <<p, x>>)
  <2>0. b \div 16 \in 0 .. 15 /\ b % 16 \in 0 .. 15 /\ 16 * (b \div 16) + (b % 16) = b BY TwoDigits
  <2>1. /\ x \in Byte /\ HexValue(x) = b \div 16 /\ x # PlusSign
        /\ y \in Byte /\ HexValue(y) = b % 16 /\ y # PlusSign
        /\ p \in Byte
    BY <2>0, HexReads, ByteFacts
  <2>2. encoded[b] = <<p, x, y>> BY <1>4, EncodedByte
  <2> HIDE DEF x, y, p
  <2>3. /\ <<>> \in Seq(Byte) /\ <<p>> \in Seq(Byte) /\ <<p, x>> \in Seq(Byte)
        /\ <<p>> = Append(<<>>, p) /\ <<p, x>> = Append(<<p>>, x) /\ <<p, x, y>> = Append(<<p, x>>, y)
    BY <2>1, FewItems DEF Few
  <2>4. /\ m1 \in Reading /\ m1.ok = TRUE /\ m1.text = t /\ m1.escape = <<p>>
        /\ m2 \in Reading /\ m2.ok = TRUE /\ m2.text = t /\ m2.escape = <<p, x>>
    BY <2>3 DEF Reading, Out
  <2>5. decoded[p][first] = m1 BY <1>1, <2>1, ReadsOn DEF p
  <2> HIDE DEF m1, m2
  <2>6. decoded[x][m1] = m2
    <3>1. m1.escape # <<>> /\ Len(m1.escape) = 1 BY <2>4
    <3>2. decoded[x][m1] = Out(m1.ok, m1.text, Append(m1.escape, x)) BY <2>1, <2>4, <3>1, ReadsOn
    <3> QED BY <2>3, <2>4, <3>2 DEF m2
  <2>7. decoded[y][m2] = Out(TRUE, Append(t, b), <<>>)
    <3>1. m2.escape # <<>> /\ Len(m2.escape) # 1 /\ m2.escape[2] = x BY <2>4
    <3>2. Readable(x, y)
      <4>1. HexValue(x) \in 0 .. 15 /\ HexValue(y) \in 0 .. 15 BY <2>0, <2>1
      <4> QED BY <2>1, <4>1 DEF Readable
    <3>3. Escaped(x, y) = b BY <2>0, <2>1 DEF Escaped
    <3>4. decoded[y][m2] = Out(m2.ok, Append(m2.text, Escaped(x, y)), <<>>)
      BY <2>1, <2>4, <3>1, <3>2, ReadsOn
    <3> QED BY <2>4, <3>3, <3>4
  <2>8. Folded(decoded, first, <<>>) = first BY <1>2 DEF Folds
  <2>9. Folded(decoded, first, <<p>>) = m1 BY <1>2, <2>1, <2>3, <2>5, <2>8 DEF Folds
  <2>10. Folded(decoded, first, <<p, x>>) = m2 BY <1>2, <2>1, <2>3, <2>6, <2>9 DEF Folds
  <2>11. Folded(decoded, first, <<p, x, y>>) = decoded[y][m2] BY <1>2, <2>1, <2>3, <2>10 DEF Folds
  <2> QED BY <2>2, <2>7, <2>11 DEF first, Read
<1> QED BY <1>3, <1>4

\* A text is read back from what urlencode writes.
LEMMA ReadsBack ==
  \A v \in Seq(Byte) : Decoded(urlencode(v)) = Just(v)
<1> DEFINE start == Read(<<>>)
           P == {v \in Seq(Byte) : Folded(decoded, start, Each(encoded, v)) = Read(v)}
<1>0. <<>> \in Seq(Byte) BY FewItems DEF Few
<1>1. start \in Reading BY <1>0, ReadIs
<1>2. Folds(decoded, start, Byte, Reading) BY <1>1, ReadsBody, LoopFolds
<1>3. Spells(encoded, Byte, Plain) BY EncodedSpells
<1>4. <<>> \in P BY <1>0, <1>2, <1>3 DEF Folds, Spells
<1>5. ASSUME NEW v \in Seq(Byte), NEW b \in Byte, v \in P PROVE Append(v, b) \in P
  <2>1. Seq(Plain) \subseteq Seq(Byte) BY ByteFacts
  <2>2. Each(encoded, v) \in Seq(Byte) /\ encoded[b] \in Seq(Byte) BY <1>3, <2>1, EncodedSpells DEF Spells
  <2>3. Each(encoded, Append(v, b)) = Cat(Each(encoded, v), encoded[b]) BY <1>3 DEF Spells
  <2>4. Folded(decoded, start, Cat(Each(encoded, v), encoded[b]))
          = Folded(decoded, Folded(decoded, start, Each(encoded, v)), encoded[b])
    BY <1>2, <2>2 DEF Folds
  <2>5. Folded(decoded, Read(v), encoded[b]) = Read(Append(v, b)) BY ReadsByte
  <2>6. Append(v, b) \in Seq(Byte) OBVIOUS
  <2> QED BY <1>5, <2>3, <2>4, <2>5, <2>6
<1> HIDE DEF P
<1>6. Seq(Byte) \subseteq P BY <1>4, <1>5, SeqInduction
<1> USE DEF P
<1> SUFFICES ASSUME NEW v \in Seq(Byte) PROVE Decoded(urlencode(v)) = Just(v) OBVIOUS
<1>7. Folded(decoded, start, urlencode(v)) = Read(v) BY <1>6 DEF urlencode
<1>8. Decoded(urlencode(v)) = IF Read(v).ok /\ Read(v).escape = <<>> THEN Just(Read(v).text) ELSE Nothing
  BY <1>7 DEF Decoded, Read, Out
<1> QED BY <1>8, ReadIs

-----------------------------------------------------------------------------
(* What a query is split into.                                               *)

\* Bytes that no part of a query holds an end in.
Inner == Byte \ {Ampersand}
Cuts(query) == CutOf(Byte, Ampersand, query)

\* The two halves of a split.
LEMMA HalvesAre ==
  \A d \in Seq(Seq(Inner)), l \in Seq(Inner) : Halfway(d, l).done = d /\ Halfway(d, l).last = l
BY HalfwayIs

\* Splitting, for whole queries.
LEMMA CutsAre ==
  /\ Cuts(<<>>) = Halfway(<<>>, <<>>)
  /\ \A q \in Seq(Byte) :
       /\ Cuts(q).done \in Seq(Seq(Inner)) /\ Cuts(q).last \in Seq(Inner)
       /\ Parts(q) = Append(Cuts(q).done, Cuts(q).last) /\ Parts(q) \in Seq(Seq(Inner))
       /\ Cuts(Append(q, Ampersand)) = Halfway(Append(Cuts(q).done, Cuts(q).last), <<>>)
<1>1. Ampersand \in Byte /\ Others(Byte, Ampersand, Inner) BY ByteFacts DEF Others, Inner
<1>2. \A q \in Seq(Byte) : CutAt(Byte, Ampersand, Inner, q) BY <1>1, CutsText
<1>3. Cuts(<<>>) = Halfway(<<>>, <<>>) BY <1>1, CutsText DEF Cuts
<1> QED BY <1>2, <1>3 DEF CutAt, Cuts, Parts

\* A text without an ampersand becomes the end of the last part.
LEMMA CutsOn ==
  ASSUME NEW q \in Seq(Byte)
  PROVE  \A p \in Seq(Inner) : Cuts(Cat(q, p)) = Halfway(Cuts(q).done, Cat(Cuts(q).last, p))
<1>1. Ampersand \in Byte /\ Others(Byte, Ampersand, Inner) BY ByteFacts DEF Others, Inner
<1> QED BY <1>1, CutsPast DEF Cuts

\* The parts of a query that say something.
Items(s) == {s[i] : i \in DOMAIN s} \ {<<>>}

\* They grow with the parts.
LEMMA ItemsAre ==
  /\ Items(<<>>) = {}
  /\ \A s \in Seq(Seq(Inner)), x \in Seq(Inner) : Items(Append(s, x)) = Items(s) \cup ({x} \ {<<>>})
<1>1. Items(<<>>) = {} BY DEF Items
<1>2. ASSUME NEW s \in Seq(Seq(Inner)), NEW x \in Seq(Inner)
      PROVE  Items(Append(s, x)) = Items(s) \cup ({x} \ {<<>>})
  <2> DEFINE n == Len(s)
             u == Append(s, x)
  <2>1. n \in Nat /\ DOMAIN s = 1 .. n BY LenProperties
  <2>2. DOMAIN u = 1 .. n + 1 /\ (\A i \in 1 .. n : u[i] = s[i]) /\ u[n + 1] = x BY <2>1
  <2>3. 1 .. n + 1 = (1 .. n) \cup {n + 1} BY <2>1
  <2> HIDE DEF n, u
  <2>4. {u[i] : i \in DOMAIN u} = {s[i] : i \in DOMAIN s} \cup {x} BY <2>1, <2>2, <2>3
  <2> QED BY <2>4 DEF Items, u
<1> QED BY <1>1, <1>2

\* What the framework reads, it reads of these.
LEMMA FieldsHeld ==
  ASSUME NEW q, NEW name
  PROVE  Fields(q, name) = {Decoded(ValueOf(p)) : p \in {x \in Items(Parts(q)) : KeyOf(x) = name}}
<1> DEFINE ps == Parts(q)
           I == {j \in DOMAIN ps : ps[j] # <<>> /\ KeyOf(ps[j]) = name}
           X == {x \in Items(ps) : KeyOf(x) = name}
<1>1. X = {ps[i] : i \in I} BY DEF Items
<1>2. Fields(q, name) = {Decoded(ValueOf(ps[i])) : i \in I} BY DEF Fields
<1> HIDE DEF I, X, ps
<1>3. {Decoded(ValueOf(ps[i])) : i \in I} = {Decoded(ValueOf(x)) : x \in X} BY <1>1
<1> QED BY <1>2, <1>3 DEF X, ps

-----------------------------------------------------------------------------
(* A field with its value.                                                   *)

Pair(name, value) == Cat(Cat(name, <<EqualsSign>>), value)

\* A field with its value has that name and that value.
LEMMA PairIs ==
  ASSUME NEW name \in Seq(Unreserved), NEW value \in Seq(Plain)
  PROVE  LET p == Pair(name, value)
         IN  /\ p \in Seq(Inner) /\ p # <<>> /\ Has(p, EqualsSign)
             /\ KeyOf(p) = name /\ ValueOf(p) = value
<1> DEFINE n == Len(name)
           v == Len(value)
           e == <<EqualsSign>>
           ne == Cat(name, e)
           p == Pair(name, value)
<1>0. Unreserved \subseteq Inner /\ Plain \subseteq Inner /\ EqualsSign \in Inner
      /\ EqualsSign \notin Unreserved
  BY ByteFacts DEF Inner
<1>1. name \in Seq(Inner) /\ value \in Seq(Inner) BY <1>0
<1>2. e \in Seq(Inner) /\ Len(e) = 1 /\ e[1] = EqualsSign BY <1>0
<1>3. n \in Nat /\ v \in Nat BY LenProperties
<1> HIDE DEF e
<1>4. Joined(Inner, name, e) BY <1>1, <1>2, CatItems
<1>5. /\ ne \in Seq(Inner) /\ Len(ne) = n + 1 /\ (\A i \in 1 .. n : ne[i] = name[i]) /\ ne[n + 1] = EqualsSign
  <2>1. 1 \in 1 .. Len(e) BY <1>2
  <2> QED BY <1>2, <1>4, <2>1 DEF Joined
<1> HIDE DEF ne
<1>6. p = Cat(ne, value) BY DEF Pair, ne, e
<1>7. Joined(Inner, ne, value) BY <1>1, <1>5, CatItems
<1>8. /\ p \in Seq(Inner) /\ Len(p) = n + 1 + v /\ (\A i \in 1 .. n + 1 : p[i] = ne[i])
      /\ (\A i \in 1 .. v : p[n + 1 + i] = value[i])
  BY <1>5, <1>6, <1>7 DEF Joined
<1> HIDE DEF p, n, v
<1>9. p[n + 1] = EqualsSign /\ \A i \in 1 .. n : p[i] = name[i] BY <1>3, <1>5, <1>8
<1>10. \A i \in 1 .. n : p[i] # EqualsSign
  <2>1. ASSUME NEW i \in 1 .. n PROVE name[i] \in Unreserved BY ElementOfSeq DEF n
  <2> QED BY <1>0, <1>9, <2>1
<1>11. DOMAIN p = 1 .. n + 1 + v BY <1>8, LenProperties
<1>12. Has(p, EqualsSign)
  <2>1. n + 1 \in 1 .. n + 1 + v BY <1>3
  <2> QED BY <1>9, <1>11, <2>1 DEF Has
<1>13. p # <<>> BY <1>3, <1>8
<1>14. KeyOf(p) = name
  <2> DEFINE First(i) == /\ i > Len(p) \/ p[i] = EqualsSign
                         /\ \A j \in 1 .. i - 1 : p[j] # EqualsSign
             at == CHOOSE i \in 1 .. Len(p) + 1 : First(i)
  <2>1. n + 1 \in 1 .. Len(p) + 1 /\ First(n + 1) BY <1>3, <1>8, <1>9, <1>10
  <2>2. ASSUME NEW i \in 1 .. Len(p) + 1, First(i) PROVE i = n + 1
    <3>1. i \in Nat /\ Len(p) \in Nat BY <1>3, <1>8
    <3>2. ~ i < n + 1
      <4>1. i < n + 1 => i \in 1 .. n BY <1>3, <3>1
      <4>2. i < n + 1 => ~ i > Len(p) BY <1>3, <1>8, <3>1
      <4> QED BY <1>10, <2>2, <4>1, <4>2
    <3>3. ~ i > n + 1
      <4>1. i > n + 1 => n + 1 \in 1 .. i - 1 BY <1>3, <3>1
      <4> QED BY <1>9, <2>2, <4>1
    <3> QED BY <1>3, <3>1, <3>2, <3>3
  <2> HIDE DEF First
  <2>3. at = n + 1 BY <2>1, <2>2
  <2>4. KeyOf(p) = SubSeq(p, 1, at - 1) BY DEF KeyOf, First
  <2> HIDE DEF at
  <2>5. at - 1 = n BY <1>3, <2>3
  <2>6. SubSeq(p, 1, n) = name
    <3>0. \A i \in 1 .. n : p[i] \in Inner BY <1>1, <1>9, ElementOfSeq DEF n
    <3>1. /\ SubSeq(p, 1, n) \in Seq(Inner) /\ Len(SubSeq(p, 1, n)) = n
          /\ \A i \in 1 .. n : SubSeq(p, 1, n)[i] = p[i]
      <4>1. 1 \in Int /\ n \in Int /\ n - 1 + 1 = n /\ (1 <= n => n - 1 + 1 = n) /\ (~ 1 <= n => n = 0) BY <1>3
      <4>2. \A i \in 1 .. n : 1 + i - 1 = i BY <1>3
      <4> QED BY <3>0, <4>1, <4>2, SubSeqProperties
    <3> QED BY <1>1, <1>9, <3>1, SeqEqual DEF n
  <2> QED BY <2>4, <2>5, <2>6
<1>15. ValueOf(p) = value
  <2>1. ValueOf(p) = SubSeq(p, n + 2, n + 1 + v) BY <1>3, <1>8, <1>14 DEF ValueOf, n
  <2>2. \A i \in n + 2 .. n + 1 + v : p[i] \in Inner
    <3>1. \A i \in n + 2 .. n + 1 + v : i \in 1 .. Len(p) BY <1>3, <1>8
    <3> QED BY <1>8, <3>1, ElementOfSeq
  <2>3. /\ n + 2 \in Int /\ n + 1 + v \in Int /\ (n + 1 + v) - (n + 2) + 1 = v
        /\ (n + 2 <= n + 1 + v => v = (n + 1 + v) - (n + 2) + 1) /\ (~ n + 2 <= n + 1 + v => v = 0)
    BY <1>3
  <2>4. \A i \in 1 .. v : (n + 2) + i - 1 = n + 1 + i BY <1>3
  <2> DEFINE u == SubSeq(p, n + 2, n + 1 + v)
  <2>5. u \in Seq(Inner) /\ Len(u) = v /\ \A i \in 1 .. v : u[i] = p[(n + 2) + i - 1]
    BY <2>2, <2>3, SubSeqProperties
  <2> HIDE DEF u
  <2>6. \A i \in 1 .. v : u[i] = value[i] BY <1>8, <2>4, <2>5
  <2>7. u = value BY <1>1, <2>5, <2>6, SeqEqual DEF v
  <2> QED BY <2>1, <2>7 DEF u
<1> QED BY <1>8, <1>12, <1>13, <1>14, <1>15 DEF p

-----------------------------------------------------------------------------
(* What query_string writes.                                                 *)

PairOf(f) == Pair(f.name, urlencode(f.value))
Pairs(fs) == {PairOf(f) : f \in {g \in Range(fs) : g.value # <<>>}}
Then(out) == IF out = <<>> THEN <<>> ELSE Append(out, Ampersand)

\* So has a filter that was written.
LEMMA PairOfIs ==
  ASSUME NEW f \in Filters
  PROVE  /\ f.name \in Seq(Unreserved) /\ f.value \in Seq(Byte)
         /\ PairOf(f) \in Seq(Inner) /\ PairOf(f) \in Seq(Byte) /\ PairOf(f) # <<>>
         /\ KeyOf(PairOf(f)) = f.name /\ Decoded(ValueOf(PairOf(f))) = Just(f.value)
<1>1. f.name \in Seq(Unreserved) /\ f.value \in Seq(Byte) BY DEF Filters
<1>2. urlencode(f.value) \in Seq(Plain) /\ Decoded(urlencode(f.value)) = Just(f.value)
  BY <1>1, Encodes, ReadsBack
<1>3. LET p == Pair(f.name, urlencode(f.value))
      IN  p \in Seq(Inner) /\ p # <<>> /\ KeyOf(p) = f.name /\ ValueOf(p) = urlencode(f.value)
  BY <1>1, <1>2, PairIs
<1>4. Seq(Inner) \subseteq Seq(Byte) BY DEF Inner
<1> QED BY <1>1, <1>2, <1>3, <1>4 DEF PairOf

\* What comes before one more filter.
LEMMA ThenIs ==
  ASSUME NEW out \in Seq(Byte)
  PROVE  Then(out) \in Seq(Byte)
<1>1. <<>> \in Seq(Byte) /\ Ampersand \in Byte BY FewItems, ByteFacts DEF Few
<1> QED BY <1>1 DEF Then

\* What one more filter adds.
LEMMA AddedIs ==
  ASSUME NEW f \in Filters, NEW out \in Seq(Byte)
  PROVE  /\ f.value = <<>> => added[f][out] = out
         /\ f.value # <<>> => added[f][out] = Cat(Then(out), PairOf(f))
         /\ added[f][out] \in Seq(Byte)
<1>1. f.value = <<>> => added[f][out] = out BY DEF added
<1>2. ASSUME f.value # <<>> PROVE added[f][out] = Cat(Then(out), PairOf(f))
  <2> DEFINE n == f.name
             e == <<EqualsSign>>
             v == urlencode(f.value)
             t == Then(out)
  <2>1. added[f][out] = t \o n \o e \o v BY <1>2 DEF added, Then
  <2>2. n \in Seq(Byte) /\ e \in Seq(Byte) /\ v \in Seq(Byte) /\ t \in Seq(Byte)
    <3>1. EqualsSign \in Byte /\ Unreserved \subseteq Byte /\ Plain \subseteq Byte BY ByteFacts
    <3>2. Seq(Unreserved) \subseteq Seq(Byte) /\ Seq(Plain) \subseteq Seq(Byte) BY <3>1
    <3>3. e \in Seq(Byte) BY <3>1, FewItems DEF Few
    <3>4. n \in Seq(Byte) BY <3>2, PairOfIs
    <3>5. v \in Seq(Byte) BY <3>2, PairOfIs, Encodes
    <3> QED BY <3>3, <3>4, <3>5, ThenIs
  <2>3. PairOf(f) = Cat(Cat(n, e), v) BY DEF PairOf, Pair
  <2> HIDE DEF n, e, v, t
  <2>4. t \o n \o e \o v = Cat(Cat(Cat(t, n), e), v) BY DEF Cat
  <2>5. Cat(Cat(Cat(t, n), e), v) = Cat(t, Cat(Cat(n, e), v))
    <3>1. Cat(n, e) \in Seq(Byte) /\ Cat(Cat(t, n), e) = Cat(t, Cat(n, e)) BY <2>2, CatAppend
    <3>2. Cat(Cat(t, Cat(n, e)), v) = Cat(t, Cat(Cat(n, e), v)) BY <2>2, <3>1, CatAppend
    <3> QED BY <3>1, <3>2
  <2> QED BY <2>1, <2>3, <2>4, <2>5 DEF t
<1>3. Cat(Then(out), PairOf(f)) \in Seq(Byte) BY PairOfIs, ThenIs, CatAppend
<1> QED BY <1>1, <1>2, <1>3

\* query_string is a loop.
LEMMA QueryFolds == Folds(added, <<>>, Filters, Seq(Byte))
<1>1. <<>> \in Seq(Byte) BY FewItems DEF Few
<1>2. Body(added, Filters, Seq(Byte)) BY AddedIs DEF Body
<1> QED BY <1>1, <1>2, LoopFolds

\* One filter more is one pair more, if it is set.
LEMMA PairsOn ==
  /\ Pairs(<<>>) = {}
  /\ \A fs \in Seq(Filters), f \in Filters :
       Pairs(Append(fs, f)) = IF f.value = <<>> THEN Pairs(fs) ELSE Pairs(fs) \cup {PairOf(f)}
<1>1. Range(<<>>) = {} BY DEF Range
<1>2. ASSUME NEW fs \in Seq(Filters), NEW f \in Filters
      PROVE  Range(Append(fs, f)) = Range(fs) \cup {f}
  <2> DEFINE n == Len(fs)
             u == Append(fs, f)
  <2>1. n \in Nat /\ DOMAIN fs = 1 .. n BY LenProperties
  <2>2. DOMAIN u = 1 .. n + 1 /\ (\A i \in 1 .. n : u[i] = fs[i]) /\ u[n + 1] = f BY <2>1
  <2>3. 1 .. n + 1 = (1 .. n) \cup {n + 1} BY <2>1
  <2> HIDE DEF n, u
  <2>4. {u[i] : i \in DOMAIN u} = {fs[i] : i \in DOMAIN fs} \cup {f} BY <2>1, <2>2, <2>3
  <2> QED BY <2>4 DEF Range, u
<1>3. Pairs(<<>>) = {} BY <1>1 DEF Pairs
<1>4. ASSUME NEW fs \in Seq(Filters), NEW f \in Filters
      PROVE  Pairs(Append(fs, f)) = IF f.value = <<>> THEN Pairs(fs) ELSE Pairs(fs) \cup {PairOf(f)}
  <2> DEFINE R == Range(fs)
             S == Range(Append(fs, f))
  <2>1. S = R \cup {f} BY <1>2
  <2> HIDE DEF R, S
  <2>2. {PairOf(g) : g \in {h \in S : h.value # <<>>}}
          = IF f.value = <<>> THEN {PairOf(g) : g \in {h \in R : h.value # <<>>}}
            ELSE {PairOf(g) : g \in {h \in R : h.value # <<>>}} \cup {PairOf(f)}
    BY <2>1
  <2> QED BY <2>2 DEF Pairs, R, S
<1> QED BY <1>3, <1>4

\* A query says what the filters that are set say, and nothing else.
LEMMA QueryHolds ==
  \A fs \in Seq(Filters) :
    query_string(fs) \in Seq(Byte) /\ Items(Parts(query_string(fs))) = Pairs(fs)
<1> DEFINE P == {fs \in Seq(Filters) : Items(Parts(query_string(fs))) = Pairs(fs)}
<1>1. Folds(added, <<>>, Filters, Seq(Byte)) BY QueryFolds
<1>2. /\ query_string(<<>>) = <<>>
      /\ \A fs \in Seq(Filters) : query_string(fs) \in Seq(Byte)
      /\ \A fs \in Seq(Filters), f \in Filters : query_string(Append(fs, f)) = added[f][query_string(fs)]
  BY <1>1 DEF Folds, query_string
<1>3. <<>> \in Seq(Byte) /\ <<>> \in Seq(Inner) /\ <<>> \in Seq(Seq(Inner)) /\ <<>> \in Seq(Filters)
  BY FewItems DEF Few
<1>3a. Parts(<<>>) = <<<<>>>> /\ Items(Parts(<<>>)) = {}
  <2>1. Cuts(<<>>).done = <<>> /\ Cuts(<<>>).last = <<>> BY <1>3, CutsAre, HalvesAre
  <2>2. Parts(<<>>) = Append(<<>>, <<>>) BY <1>3, <2>1, CutsAre
  <2>3. Items(Append(<<>>, <<>>)) = Items(<<>>) \cup ({<<>>} \ {<<>>}) BY <1>3, ItemsAre
  <2> QED BY <2>2, <2>3, ItemsAre
<1>4. <<>> \in P BY <1>2, <1>3, <1>3a, PairsOn
<1>5. ASSUME NEW fs \in Seq(Filters), NEW f \in Filters, fs \in P PROVE Append(fs, f) \in P
  <2> DEFINE q == query_string(fs)
             p == PairOf(f)
             r == query_string(Append(fs, f))
  <2>0. Append(fs, f) \in Seq(Filters) OBVIOUS
  <2>1. q \in Seq(Byte) /\ r = added[f][q] /\ Items(Parts(q)) = Pairs(fs) BY <1>2, <1>5
  <2>2. p \in Seq(Inner) /\ p \in Seq(Byte) /\ p # <<>> BY PairOfIs
  <2> HIDE DEF q, p, r
  <2>3. CASE f.value = <<>>
    <3>1. r = q BY <2>1, <2>3, AddedIs
    <3>2. Pairs(Append(fs, f)) = Pairs(fs) BY <2>3, PairsOn
    <3> QED BY <2>0, <2>1, <3>1, <3>2 DEF r
  <2>4. CASE f.value # <<>>
    <3>1. r = Cat(Then(q), p) BY <2>1, <2>4, AddedIs DEF p
    <3>2. Pairs(Append(fs, f)) = Pairs(fs) \cup {p} BY <2>4, PairsOn DEF p
    <3>3. Then(q) \in Seq(Byte) /\ r \in Seq(Byte) BY <1>2, <2>0, <2>1, ThenIs DEF r
    <3> DEFINE d == Cuts(Then(q)).done
    <3>4. d \in Seq(Seq(Inner)) /\ Cuts(Then(q)).last = <<>> /\ Items(d) = Pairs(fs)
      <4>1. CASE q = <<>>
        <5>1. Then(q) = <<>> BY <4>1 DEF Then
        <5>2. d = <<>> /\ Cuts(Then(q)).last = <<>> BY <1>3, <5>1, CutsAre, HalvesAre
        <5> QED BY <1>3, <1>3a, <2>1, <4>1, <5>2, ItemsAre
      <4>2. CASE q # <<>>
        <5>1. Then(q) = Append(q, Ampersand) BY <4>2 DEF Then
        <5>2. Cuts(Then(q)) = Halfway(Parts(q), <<>>) /\ Parts(q) \in Seq(Seq(Inner)) BY <2>1, <5>1, CutsAre
        <5>3. d = Parts(q) /\ Cuts(Then(q)).last = <<>> BY <1>3, <5>2, HalvesAre
        <5> QED BY <2>1, <5>2, <5>3
      <4> QED BY <4>1, <4>2
    <3>5. Cuts(r) = Halfway(d, Cat(<<>>, p)) BY <2>2, <3>1, <3>3, <3>4, CutsOn
    <3>6. Cat(<<>>, p) = p BY <2>2, CatAppend
    <3>7. Parts(r) = Append(d, p)
      <4>1. Cuts(r).done = d /\ Cuts(r).last = p BY <2>2, <3>4, <3>5, <3>6, HalvesAre
      <4> QED BY <3>3, <4>1, CutsAre
    <3> HIDE DEF d
    <3>8. Items(Append(d, p)) = Items(d) \cup ({p} \ {<<>>}) BY <2>2, <3>4, ItemsAre
    <3>9. Items(Parts(r)) = Pairs(fs) \cup {p} BY <2>2, <3>4, <3>7, <3>8
    <3> QED BY <2>0, <3>2, <3>9 DEF r
  <2> QED BY <2>3, <2>4
<1> HIDE DEF P
<1>6. Seq(Filters) \subseteq P BY <1>4, <1>5, SeqInduction
<1> QED BY <1>2, <1>6 DEF P

-----------------------------------------------------------------------------
(* What a link keeps.                                                        *)

\* What cursor_link makes of a part.
kept(key) ==
  [part \in Seq(Byte) |-> IF part = <<>> \/ KeyOf(part) = key THEN <<>> ELSE Append(part, Ampersand)]

\* It is the part with its ampersand, or nothing.
LEMMA KeptIs ==
  ASSUME NEW key, NEW p \in Seq(Inner)
  PROVE  /\ p \in Seq(Byte)
         /\ p = <<>> \/ KeyOf(p) = key => kept(key)[p] = <<>>
         /\ ~ (p = <<>> \/ KeyOf(p) = key) => kept(key)[p] = Append(p, Ampersand)
         /\ kept(key)[p] \in Seq(Byte)
<1>1. p \in Seq(Byte) BY DEF Inner
<1>2. <<>> \in Seq(Byte) /\ Append(p, Ampersand) \in Seq(Byte) BY <1>1, FewItems, ByteFacts DEF Few
<1>3. kept(key)[p] = IF p = <<>> \/ KeyOf(p) = key THEN <<>> ELSE Append(p, Ampersand) BY <1>1 DEF kept
<1> HIDE DEF kept
<1> QED BY <1>1, <1>2, <1>3

\* Of the parts of a query, those with another key are kept.
LEMMA KeepsOthers ==
  ASSUME NEW key
  PROVE  \A ps \in Seq(Seq(Inner)) :
           /\ Each(kept(key), ps) \in Seq(Byte) /\ Cuts(Each(kept(key), ps)).last = <<>>
           /\ Items(Cuts(Each(kept(key), ps)).done) = {p \in Items(ps) : KeyOf(p) # key}
<1> DEFINE k == kept(key)
           P == {ps \in Seq(Seq(Inner)) :
                   /\ Cuts(Each(k, ps)).last = <<>>
                   /\ Items(Cuts(Each(k, ps)).done) = {p \in Items(ps) : KeyOf(p) # key}}
<1>1. Spells(k, Seq(Inner), Byte)
  <2>1. Gives(k, Seq(Inner), Byte) BY KeptIs DEF Gives
  <2> QED BY <2>1, Eaching
<1>1a. \A p \in Seq(Inner) : /\ p = <<>> \/ KeyOf(p) = key => k[p] = <<>>
                             /\ ~ (p = <<>> \/ KeyOf(p) = key) => k[p] = Append(p, Ampersand)
  BY KeptIs
<1> HIDE DEF k
<1>2. <<>> \in Seq(Byte) /\ <<>> \in Seq(Inner) /\ <<>> \in Seq(Seq(Inner)) BY FewItems DEF Few
<1>3. <<>> \in P
  <2>1. Each(k, <<>>) = <<>> BY <1>1 DEF Spells
  <2>2. Cuts(<<>>).done = <<>> /\ Cuts(<<>>).last = <<>> BY <1>2, CutsAre, HalvesAre
  <2>3. Items(<<>>) = {} BY ItemsAre
  <2> QED BY <1>2, <2>1, <2>2, <2>3
<1>4. ASSUME NEW ps \in Seq(Seq(Inner)), NEW p \in Seq(Inner), ps \in P PROVE Append(ps, p) \in P
  <2> DEFINE e == Each(k, ps)
             f == Each(k, Append(ps, p))
             d == Cuts(e).done
             I == Items(ps)
  <2>0. Append(ps, p) \in Seq(Seq(Inner)) OBVIOUS
  <2>1. e \in Seq(Byte) /\ f = Cat(e, k[p]) BY <1>1 DEF Spells
  <2>2. Cuts(e).last = <<>> /\ Items(d) = {x \in I : KeyOf(x) # key} BY <1>4
  <2>3. Items(Append(ps, p)) = I \cup ({p} \ {<<>>}) BY ItemsAre
  <2>4. d \in Seq(Seq(Inner)) BY <2>1, CutsAre
  <2> HIDE DEF e, f, I
  <2>5. CASE p = <<>> \/ KeyOf(p) = key
    <3>1. f = e BY <1>1a, <2>1, <2>5, CatAppend
    <3>2. {x \in I \cup ({p} \ {<<>>}) : KeyOf(x) # key} = {x \in I : KeyOf(x) # key} BY <2>5
    <3> QED BY <2>0, <2>2, <2>3, <3>1, <3>2 DEF f
  <2>6. CASE ~ (p = <<>> \/ KeyOf(p) = key)
    <3>1. f = Cat(e, Append(p, Ampersand)) BY <1>1a, <2>1, <2>6
    <3>2. p \in Seq(Byte) /\ Ampersand \in Byte BY KeptIs, ByteFacts
    <3>3. Cat(e, p) \in Seq(Byte) /\ f = Append(Cat(e, p), Ampersand)
      <4>1. Cat(e, p) \in Seq(Byte) BY <2>1, <3>2, CatAppend
      <4>2. Cat(e, Append(p, Ampersand)) = Append(Cat(e, p), Ampersand) BY <2>1, <3>2, CatAppend
      <4> QED BY <3>1, <4>1, <4>2
    <3>4. Cuts(Cat(e, p)) = Halfway(d, Cat(<<>>, p)) BY <2>1, <2>2, CutsOn
    <3>5. Cat(<<>>, p) = p BY CatAppend
    <3> HIDE DEF d
    <3>6. Cuts(Cat(e, p)).done = d /\ Cuts(Cat(e, p)).last = p BY <2>4, <3>4, <3>5, HalvesAre
    <3>7. Cuts(f) = Halfway(Append(d, p), <<>>) BY <3>3, <3>6, CutsAre
    <3>9. Cuts(f).done = Append(d, p) /\ Cuts(f).last = <<>> BY <3>7 DEF Halfway
    <3>10. Items(Append(d, p)) = Items(d) \cup ({p} \ {<<>>}) BY <2>4, ItemsAre
    <3>11. {x \in I \cup ({p} \ {<<>>}) : KeyOf(x) # key} = {x \in I : KeyOf(x) # key} \cup ({p} \ {<<>>})
      BY <2>6
    <3> QED BY <2>0, <2>2, <2>3, <3>9, <3>10, <3>11 DEF f
  <2> QED BY <2>5, <2>6
<1> HIDE DEF P
<1>5. Seq(Seq(Inner)) \subseteq P BY <1>3, <1>4, SeqInduction
<1>6. \A ps \in Seq(Seq(Inner)) : Each(k, ps) \in Seq(Byte) BY <1>1 DEF Spells
<1> QED BY <1>5, <1>6 DEF P, k

\* A link says what the query did of other keys, and the cursor.
LEMMA LinkHolds ==
  ASSUME NEW q \in Seq(Byte), NEW key \in Seq(Unreserved), NEW at \in Seq(Byte)
  PROVE  Items(Parts(cursor_link(q, key, at)))
           = {p \in Items(Parts(q)) : KeyOf(p) # key} \cup {Pair(key, urlencode(at))}
<1> DEFINE e == Each(kept(key), Parts(q))
           v == urlencode(at)
           s == <<EqualsSign>>
           p == Pair(key, v)
           d == Cuts(e).done
           link == cursor_link(q, key, at)
<1>1. Parts(q) \in Seq(Seq(Inner)) BY CutsAre
<1>2. e \in Seq(Byte) /\ Cuts(e).last = <<>> /\ Items(d) = {x \in Items(Parts(q)) : KeyOf(x) # key}
  BY <1>1, KeepsOthers
<1>3. p \in Seq(Inner) /\ p # <<>> BY Encodes, PairIs
<1>3a. key \in Seq(Byte) /\ v \in Seq(Byte) /\ s \in Seq(Byte)
  <2>1. EqualsSign \in Byte /\ Unreserved \subseteq Byte /\ Plain \subseteq Byte BY ByteFacts
  <2>2. Seq(Unreserved) \subseteq Seq(Byte) /\ Seq(Plain) \subseteq Seq(Byte) BY <2>1
  <2>3. s \in Seq(Byte) BY <2>1, FewItems DEF Few
  <2> QED BY <2>2, <2>3, Encodes
<1>4. link = e \o key \o s \o v BY DEF cursor_link, kept
<1>4a. p = Cat(Cat(key, s), v) BY DEF Pair
<1> HIDE DEF e, s, v, p, link
<1>5. e \o key \o s \o v = Cat(Cat(Cat(e, key), s), v) BY DEF Cat
<1>6. Cat(Cat(Cat(e, key), s), v) = Cat(e, Cat(Cat(key, s), v))
  <2>1. Cat(key, s) \in Seq(Byte) /\ Cat(Cat(e, key), s) = Cat(e, Cat(key, s)) BY <1>2, <1>3a, CatAppend
  <2>2. Cat(Cat(e, Cat(key, s)), v) = Cat(e, Cat(Cat(key, s), v)) BY <1>2, <1>3a, <2>1, CatAppend
  <2> QED BY <2>1, <2>2
<1>7. link = Cat(e, p) BY <1>4, <1>4a, <1>5, <1>6
<1>8. p \in Seq(Byte) /\ link \in Seq(Byte)
  <2>1. p \in Seq(Byte) BY <1>3 DEF Inner
  <2> QED BY <1>2, <1>7, <2>1, CatAppend
<1>9. d \in Seq(Seq(Inner)) BY <1>2, CutsAre
<1>10. Cuts(link) = Halfway(d, Cat(<<>>, p)) BY <1>2, <1>3, <1>7, CutsOn
<1> HIDE DEF d
<1>11. Cuts(link).done = d /\ Cuts(link).last = p
  <2>1. Cat(<<>>, p) = p BY <1>3, CatAppend
  <2> QED BY <1>3, <1>9, <1>10, <2>1, HalvesAre
<1>12. Parts(link) = Append(d, p) BY <1>8, <1>11, CutsAre
<1>13. Items(Append(d, p)) = Items(d) \cup ({p} \ {<<>>}) BY <1>3, <1>9, ItemsAre
<1> QED BY <1>2, <1>3, <1>12, <1>13 DEF link, p, v

\* The names of the cursors are words of the program.
LEMMA NamesAre == NextName \in Seq(Unreserved) /\ PrevName \in Seq(Unreserved)
<1>1. {110, 101, 120, 116, 112, 114, 118} \subseteq Unreserved BY DEF Unreserved
<1> QED BY <1>1 DEF NextName, PrevName

(* A link of the pager keeps the filters of its list, whatever was typed   *)
(* into them, and names one cursor.                                        *)
THEOREM LinksKeep == ASSUME ReturnToInstance PROVE ReturnToSpec => []LinksKeepFilters
<1>1. ReturnToInit => LinksKeepFilters
  <2> SUFFICES ASSUME ReturnToInit,
                      NEW key \in {PrevName, NextName},
                      NEW name \in {f.name : f \in Range(filters)} \cup {PrevName, NextName}
               PROVE  Fields(cursor_link(query_string(filters), key, cursor), name) =
                        IF name = key THEN {Just(cursor)}
                        ELSE {Just(f.value) : f \in {g \in Range(filters) : g.name = name /\ g.value # <<>>}}
    BY DEF LinksKeepFilters
  <2> DEFINE q == query_string(filters)
             link == cursor_link(q, key, cursor)
             last == Pair(key, urlencode(cursor))
             R == Range(filters)
             X == {x \in Items(Parts(link)) : KeyOf(x) = name}
  <2>1. filters \in Seq(Filters) /\ cursor \in Seq(Byte) /\ key \in Seq(Unreserved)
    BY NamesAre DEF ReturnToInit, ReturnToInstance
  <2>2. q \in Seq(Byte) /\ Items(Parts(q)) = Pairs(filters) BY <2>1, QueryHolds
  <2>3. Items(Parts(link)) = {p \in Pairs(filters) : KeyOf(p) # key} \cup {last}
    BY <2>1, <2>2, LinkHolds
  <2>4. KeyOf(last) = key /\ Decoded(ValueOf(last)) = Just(cursor)
    <3>1. urlencode(cursor) \in Seq(Plain) /\ Decoded(urlencode(cursor)) = Just(cursor)
      BY <2>1, Encodes, ReadsBack
    <3> QED BY <2>1, <3>1, PairIs
  <2>5. R \subseteq Filters
    <3>1. DOMAIN filters = 1 .. Len(filters) BY <2>1, LenProperties
    <3>2. \A i \in 1 .. Len(filters) : filters[i] \in Filters BY <2>1, ElementOfSeq
    <3> QED BY <3>1, <3>2 DEF Range
  <2>6. \A f \in R : KeyOf(PairOf(f)) = f.name /\ Decoded(ValueOf(PairOf(f))) = Just(f.value)
    BY <2>5, PairOfIs
  <2>7. Fields(link, name) = {Decoded(ValueOf(x)) : x \in X} BY FieldsHeld
  <2>8. Pairs(filters) = {PairOf(f) : f \in {g \in R : g.value # <<>>}} BY DEF Pairs
  <2> HIDE DEF q, link, last, R
  <2>9. CASE name = key
    <3>1. X = {last} BY <2>3, <2>4, <2>9
    <3> HIDE DEF X
    <3> QED BY <2>4, <2>7, <2>9, <3>1 DEF link, q
  <2>10. CASE name # key
    <3>1. X = {PairOf(f) : f \in {g \in R : g.name = name /\ g.value # <<>>}}
      BY <2>3, <2>4, <2>6, <2>8, <2>10
    <3> HIDE DEF X
    <3>2. {Decoded(ValueOf(x)) : x \in X}
            = {Just(f.value) : f \in {g \in R : g.name = name /\ g.value # <<>>}}
      BY <2>6, <3>1
    <3> QED BY <2>7, <2>10, <3>2 DEF link, q, R
  <2> QED BY <2>9, <2>10
<1>2. LinksKeepFilters /\ UNCHANGED addresses => LinksKeepFilters'
  BY DEF LinksKeepFilters, addresses
<1> QED BY <1>1, <1>2, PTL DEF ReturnToSpec

-----------------------------------------------------------------------------
(* Where the sign-in page leads.                                             *)

\* A text is UTF-8 still if white space goes from its ends.
LEMMA CutOut ==
  ASSUME NEW text \in Seq(Byte), IsUtf8(text), NEW t \in Seq(Byte),
         NEW a \in 1 .. Len(text), NEW z \in 1 .. Len(text), a <= z,
         Len(t) = z - a + 1, \A i \in 1 .. Len(t) : t[i] = text[a + i - 1],
         \A i \in 1 .. Len(text) : i < a \/ i > z => text[i] \in WhiteSpace
  PROVE  IsUtf8(t)
<1> DEFINE n == Len(text)
           l == Len(t)
<1>1. n \in Nat /\ l \in Nat /\ DOMAIN text = 1 .. n /\ DOMAIN t = 1 .. l BY LenProperties
<1>2. \A b \in WhiteSpace : b \in Nat /\ b < 128 /\ b \notin Continuing /\ Further(b) = 0
  <2>1. \A b \in WhiteSpace : b \in 9 .. 13 \/ b = 32 BY DEF WhiteSpace
  <2>2. \A b \in 9 .. 13 \cup {32} : b \in Nat /\ b < 128 /\ b \notin 128 .. 191 OBVIOUS
  <2>3. \A b \in Nat : b < 128 => Further(b) = 0 BY DEF Further
  <2> QED BY <2>1, <2>2, <2>3 DEF Continuing
<1> HIDE DEF n, l
<1>3. a \in Nat /\ z \in Nat /\ l = z - a + 1 /\ 1 <= a /\ z <= n BY <1>1 DEF n, l
<1>4. \A i \in 1 .. n : i < a \/ i > z => text[i] \in WhiteSpace BY DEF n
<1>5. \A i \in 1 .. l : t[i] = text[a + i - 1] BY DEF l
<1>6. \A b \in Byte : Further(b) \in 0 .. 3 BY DEF Further, Byte
<1>7. \A i \in 1 .. n : text[i] \in Byte BY <1>1
<1>8. \A b \in Byte : Second(b) \subseteq Continuing BY DEF Second, Continuing, Byte
<1> SUFFICES ASSUME NEW i \in 1 .. l PROVE Begun(t, i) \/ Continued(t, i)
  BY <1>1 DEF IsUtf8
<1> DEFINE j == a + i - 1
<1>9. j \in 1 .. n /\ t[i] = text[j] /\ a <= j /\ j <= z BY <1>1, <1>3, <1>5
<1>10. CASE Begun(text, j)
  <2> SUFFICES ASSUME NEW k \in 1 .. Further(t[i])
               PROVE  /\ i + k \in 1 .. l
                      /\ t[i + k] \in (IF k = 1 THEN Second(t[i]) ELSE Continuing)
    BY <1>1, <1>9, <1>10 DEF Begun
  <2> DEFINE f == IF k = 1 THEN Second(text[j]) ELSE Continuing
  <2>1. j + k \in 1 .. n /\ text[j + k] \in f BY <1>1, <1>9, <1>10 DEF Begun
  <2>2. f \subseteq Continuing BY <1>7, <1>8, <1>9
  <2>3. text[j + k] \notin WhiteSpace BY <1>2, <2>1, <2>2
  <2>4. k \in Nat BY <1>6, <1>7, <1>9
  <2>5. j + k <= z BY <1>4, <2>1, <2>3, <2>4, <1>3, <1>9
  <2>6. i + k \in 1 .. l /\ a + (i + k) - 1 = j + k BY <1>1, <1>3, <2>4, <2>5
  <2>7. t[i + k] = text[j + k] BY <1>5, <2>6
  <2> QED BY <1>9, <2>1, <2>6, <2>7
<1>11. CASE Continued(text, j)
  <2>1. PICK k \in 1 .. 3 : j - k \in 1 .. n /\ text[j - k] \in Beginning /\ k <= Further(text[j - k])
    BY <1>1, <1>11 DEF Continued
  <2>2. text[j - k] \notin WhiteSpace BY <1>2, <2>1
  <2>3. a <= j - k BY <1>3, <1>4, <1>9, <2>1, <2>2
  <2>4. i - k \in 1 .. l /\ a + (i - k) - 1 = j - k BY <1>1, <1>3, <2>1, <2>3
  <2>5. t[i - k] = text[j - k] BY <1>5, <2>4
  <2>6. text[j] \in Continuing BY <1>11 DEF Continued
  <2> QED BY <1>1, <1>9, <2>1, <2>4, <2>5, <2>6 DEF Continued
<1> QED BY <1>1, <1>9, <1>10, <1>11 DEF IsUtf8, n

\* What was trimmed has nothing more to trim, and is UTF-8 if it was before.
LEMMA TrimmedIs ==
  ASSUME NEW text \in Seq(Byte)
  PROVE  /\ Trimmed(text) \in Seq(Byte) /\ Trimmed(Trimmed(text)) = Trimmed(text)
         /\ IsUtf8(text) => IsUtf8(Trimmed(text))
<1> DEFINE n == Len(text)
           solid == {i \in DOMAIN text : text[i] \notin WhiteSpace}
           a == CHOOSE i \in solid : \A j \in solid : i <= j
           z == CHOOSE i \in solid : \A j \in solid : i >= j
           t == Trimmed(text)
<1>0. n \in Nat /\ DOMAIN text = 1 .. n BY LenProperties
<1>1. t = IF solid = {} THEN <<>> ELSE SubSeq(text, a, z) BY DEF Trimmed
<1>2. CASE solid = {}
  <2>1. t = <<>> BY <1>1, <1>2
  <2>2. Trimmed(<<>>) = <<>> BY DEF Trimmed
  <2>3. <<>> \in Seq(Byte) BY FewItems DEF Few
  <2>4. IsUtf8(<<>>) BY DEF IsUtf8
  <2> HIDE DEF t
  <2> QED BY <2>1, <2>2, <2>3, <2>4 DEF t
<1>3. CASE solid # {}
  <2>1. solid \in SUBSET (1 .. n) BY <1>0
  <2>2. \A i \in solid : text[i] \notin WhiteSpace OBVIOUS
  <2>3. a \in solid /\ \A j \in solid : a <= j
    <3> HIDE DEF solid, n
    <3>1. \E i \in solid : \A j \in solid : i <= j BY <1>0, <1>3, <2>1, LeastOfSome
    <3> QED BY <3>1
  <2>4. z \in solid /\ \A j \in solid : z >= j
    <3> HIDE DEF solid, n
    <3>1. \E i \in solid : \A j \in solid : i >= j BY <1>0, <1>3, <2>1, GreatestOfSome
    <3> QED BY <3>1
  <2>5. t = SubSeq(text, a, z) BY <1>1, <1>3
  <2>5a. \A i \in 1 .. n : i \notin solid => text[i] \in WhiteSpace BY <1>0
  <2> HIDE DEF solid, a, z, t
  <2>6. a \in 1 .. n /\ z \in 1 .. n /\ a <= z BY <2>1, <2>3, <2>4
  <2> DEFINE l == z - a + 1
  <2>7. /\ t \in Seq(Byte) /\ Len(t) = l /\ l \in Nat \ {0}
        /\ \A i \in 1 .. l : t[i] = text[a + i - 1]
    <3>1. \A i \in a .. z : text[i] \in Byte
      <4>1. \A i \in a .. z : i \in 1 .. n BY <1>0, <2>6
      <4> QED BY <4>1, ElementOfSeq DEF n
    <3>2. a \in Int /\ z \in Int BY <1>0, <2>6
    <3>3. l \in Nat \ {0} BY <1>0, <2>6
    <3> QED BY <2>5, <2>6, <3>1, <3>2, <3>3, SubSeqProperties
  <2>7a. \A i \in 1 .. n : i < a \/ i > z => text[i] \in WhiteSpace
    BY <1>0, <2>3, <2>4, <2>5a, <2>6
  <2>7b. IsUtf8(text) => IsUtf8(t)
    <3>1. \A i \in 1 .. Len(text) : i < a \/ i > z => text[i] \in WhiteSpace BY <2>7a
    <3>2. a \in 1 .. Len(text) /\ z \in 1 .. Len(text) BY <2>6
    <3>3. Len(t) = z - a + 1 /\ \A i \in 1 .. Len(t) : t[i] = text[a + i - 1] BY <2>7
    <3> HIDE DEF n
    <3> QED BY <2>6, <2>7, <3>1, <3>2, <3>3, CutOut
  <2> HIDE DEF n
  <2>8. t[1] \notin WhiteSpace /\ t[l] \notin WhiteSpace
    <3>1. 1 \in 1 .. l /\ l \in 1 .. l /\ a + 1 - 1 = a /\ a + l - 1 = z BY <1>0, <2>6, <2>7
    <3> HIDE DEF l
    <3>2. t[1] = text[a] /\ t[l] = text[z] BY <2>7, <3>1
    <3> QED BY <2>2, <2>3, <2>4, <3>2
  <2> HIDE DEF l
  <2>9. Trimmed(t) = SubSeq(t, 1, l)
    <3> DEFINE some == {i \in DOMAIN t : t[i] \notin WhiteSpace}
               b == CHOOSE i \in some : \A j \in some : i <= j
               y == CHOOSE i \in some : \A j \in some : i >= j
    <3>1. DOMAIN t = 1 .. l BY <2>7, LenProperties
    <3>2. 1 \in some /\ l \in some /\ \A j \in some : 1 <= j /\ j <= l /\ j \in Nat BY <2>7, <2>8, <3>1
    <3>3. Trimmed(t) = IF some = {} THEN <<>> ELSE SubSeq(t, b, y) BY DEF Trimmed
    <3> HIDE DEF some
    <3>4. b \in some /\ \A j \in some : b <= j BY <3>2
    <3>5. y \in some /\ \A j \in some : y >= j BY <2>7, <3>2
    <3> HIDE DEF b, y
    <3>6. b = 1 /\ y = l BY <2>7, <3>2, <3>4, <3>5
    <3> QED BY <3>2, <3>3, <3>6
  <2>10. SubSeq(t, 1, l) = t BY <2>7, SubSeqFull
  <2> QED BY <2>7, <2>7b, <2>9, <2>10 DEF t
<1> QED BY <1>2, <1>3

\* A query of one field.
LEMMA OneField ==
  ASSUME NEW name \in Seq(Unreserved), NEW value \in Seq(Plain)
  PROVE  Pair(name, value) \in Seq(Byte) /\ Parts(Pair(name, value)) = <<Pair(name, value)>>
<1> DEFINE p == Pair(name, value)
<1>1. p \in Seq(Inner) BY PairIs
<1>2. p \in Seq(Byte) BY <1>1 DEF Inner
<1> HIDE DEF p
<1>3. <<>> \in Seq(Byte) /\ <<>> \in Seq(Inner) /\ <<>> \in Seq(Seq(Inner)) BY FewItems DEF Few
<1>4. Cuts(<<>>).done = <<>> /\ Cuts(<<>>).last = <<>> BY <1>3, CutsAre, HalvesAre
<1>5. Cuts(Cat(<<>>, p)) = Halfway(<<>>, Cat(<<>>, p)) BY <1>1, <1>3, <1>4, CutsOn
<1>6. Cat(<<>>, p) = p BY <1>2, CatAppend
<1>6a. Cuts(p) = Halfway(<<>>, p) BY <1>5, <1>6
<1>7. Cuts(p).done = <<>> /\ Cuts(p).last = p BY <1>1, <1>3, <1>6a, HalvesAre
<1>8. Parts(p) = Append(<<>>, p) BY <1>2, <1>7, CutsAre
<1>9. Append(<<>>, p) = <<p>> OBVIOUS
<1> QED BY <1>2, <1>8, <1>9 DEF p

\* What is read of no query.
LEMMA NoField ==
  Fields(<<>>, NextName) = {} /\ return_target(<<>>) = Nothing
<1>1. <<>> \in Seq(Byte) /\ <<>> \in Seq(Inner) /\ <<>> \in Seq(Seq(Inner)) BY FewItems DEF Few
<1>2. Cuts(<<>>).done = <<>> /\ Cuts(<<>>).last = <<>> BY <1>1, CutsAre, HalvesAre
<1>3. Parts(<<>>) = Append(<<>>, <<>>) BY <1>1, <1>2, CutsAre
<1> DEFINE ps == Parts(<<>>)
<1>4. DOMAIN ps = {1} /\ ps[1] = <<>> BY <1>3
<1>5. ~ Has(<<>>, EqualsSign) BY DEF Has
<1>6. Fields(<<>>, NextName)
        = {Decoded(ValueOf(ps[i])) : i \in {j \in DOMAIN ps : ps[j] # <<>> /\ KeyOf(ps[j]) = NextName}}
  BY DEF Fields
<1> DEFINE good == {i \in DOMAIN ps : /\ Has(ps[i], EqualsSign) /\ KeyOf(ps[i]) = NextName
                                      /\ percent_decode(ValueOf(ps[i])).ok}
<1>7. return_target(<<>>)
        = IF good = {} THEN Nothing
          ELSE percent_decode(ValueOf(ps[CHOOSE i \in good : \A j \in good : i <= j]))
  BY DEF return_target
<1> HIDE DEF ps
<1>8. {j \in DOMAIN ps : ps[j] # <<>> /\ KeyOf(ps[j]) = NextName} = {} BY <1>4
<1>9. good = {} BY <1>4, <1>5
<1> QED BY <1>6, <1>7, <1>8, <1>9

\* A target that is acceptable is so as it was kept.
LEMMA StaysSafe ==
  ASSUME NEW text \in Seq(Byte), safe_return_target(text).ok
  PROVE  /\ Trimmed(text) \in Seq(Byte) /\ safe_return_target(text) = Just(Trimmed(text))
         /\ safe_return_target(Trimmed(text)) = Just(Trimmed(text))
         /\ IsUtf8(text) => IsUtf8(Trimmed(text))
<1>1. /\ Trimmed(text) \in Seq(Byte) /\ Trimmed(Trimmed(text)) = Trimmed(text)
      /\ IsUtf8(text) => IsUtf8(Trimmed(text))
  BY TrimmedIs
<1>2. ~ Nothing.ok BY DEF Nothing
<1>3. SameOrigin(Trimmed(text)) BY <1>2 DEF safe_return_target
<1> QED BY <1>1, <1>3 DEF safe_return_target

(* Whoever is sent to the sign-in page comes back to the address they      *)
(* asked for, its own query and escapes as they were, by the form and by   *)
(* the guard if they are signed in when they get there.                    *)
THEOREM GetsBack == ASSUME ReturnToInstance PROVE ReturnToSpec => []ComesBack
<1>1. ReturnToInit => ComesBack
  <2> SUFFICES ASSUME ReturnToInit, safe_return_target(target).ok
               PROVE  /\ landing(login_form(login_location(target))) = Trimmed(target)
                      /\ redirected(login_location(target)) = Trimmed(target)
    BY DEF ComesBack
  <2> DEFINE t == Trimmed(target)
             v == urlencode(t)
             q == login_location(target)
             p == Pair(NextName, v)
  <2>0. \A x : Just(x).ok /\ Just(x).text = x BY DEF Just
  <2>1. target \in Seq(Byte) /\ IsUtf8(target) BY DEF ReturnToInit, ReturnToInstance
  <2>2. /\ t \in Seq(Byte) /\ safe_return_target(target) = Just(t) /\ safe_return_target(t) = Just(t)
        /\ IsUtf8(t)
    BY <2>1, StaysSafe
  <2>3. landing(t) = t BY <2>0, <2>2 DEF landing
  <2>4. CASE t = <<SlashSign>>
    <3>1. q = <<>> BY <2>0, <2>2, <2>4 DEF login_location
    <3>2. login_form(<<>>) = <<>> BY NoField DEF login_form
    <3>3. landing(<<>>) = <<SlashSign>>
      <4>1. Trimmed(<<>>) = <<>> BY DEF Trimmed
      <4>2. ~ SameOrigin(<<>>) BY DEF SameOrigin
      <4>3. ~ safe_return_target(<<>>).ok BY <4>1, <4>2 DEF safe_return_target, Nothing
      <4> QED BY <4>3 DEF landing
    <3>4. redirected(<<>>) = <<SlashSign>> BY NoField DEF redirected, Nothing
    <3> QED BY <2>4, <3>1, <3>2, <3>3, <3>4
  <2>5. CASE t # <<SlashSign>>
    <3>0. v \in Seq(Plain) /\ Decoded(v) = Just(t) /\ NextName \in Seq(Unreserved)
      BY <2>2, Encodes, ReadsBack, NamesAre
    <3>1. q = p
      <4>1. q = NextName \o <<EqualsSign>> \o v BY <2>0, <2>2, <2>5 DEF login_location
      <4> HIDE DEF q, v
      <4> QED BY <4>1 DEF Pair, Cat
    <3>2. p # <<>> /\ Has(p, EqualsSign) /\ KeyOf(p) = NextName /\ ValueOf(p) = v
      BY <3>0, PairIs
    <3>3. Parts(p) = <<p>> BY <3>0, OneField
    <3> HIDE DEF p, v, t, q
    <3> DEFINE ps == Parts(p)
    <3>4. DOMAIN ps = {1} /\ ps[1] = p BY <3>3
    <3>5. Fields(p, NextName) = {Just(t)}
      <4>1. Fields(p, NextName)
              = {Decoded(ValueOf(ps[i])) : i \in {j \in DOMAIN ps : ps[j] # <<>> /\ KeyOf(ps[j]) = NextName}}
        BY DEF Fields
      <4> HIDE DEF ps
      <4>2. {j \in DOMAIN ps : ps[j] # <<>> /\ KeyOf(ps[j]) = NextName} = {1} BY <3>2, <3>4
      <4> QED BY <3>0, <3>2, <3>4, <4>1, <4>2
    <3>6. login_form(p) = t
      <4>1. (CHOOSE f \in {Just(t)} : TRUE) = Just(t) OBVIOUS
      <4> QED BY <2>0, <2>2, <3>5, <4>1 DEF login_form
    <3>7. percent_decode(v) = Just(t) BY <2>0, <2>2, <3>0 DEF percent_decode
    <3>8. return_target(p) = Just(t)
      <4> DEFINE good == {i \in DOMAIN ps : /\ Has(ps[i], EqualsSign) /\ KeyOf(ps[i]) = NextName
                                            /\ percent_decode(ValueOf(ps[i])).ok}
                 i0 == CHOOSE i \in good : \A j \in good : i <= j
      <4>1. return_target(p) = IF good = {} THEN Nothing ELSE percent_decode(ValueOf(ps[i0]))
        BY DEF return_target
      <4> HIDE DEF ps
      <4>2. good = {1} BY <2>0, <3>2, <3>4, <3>7
      <4> HIDE DEF good
      <4>3. i0 = 1 BY <4>2
      <4> QED BY <3>2, <3>4, <3>7, <4>1, <4>2, <4>3
    <3>9. redirected(p) = t BY <2>0, <3>8 DEF redirected
    <3> QED BY <2>3, <3>1, <3>6, <3>9 DEF t, q
  <2> QED BY <2>4, <2>5
<1>2. ComesBack /\ UNCHANGED addresses => ComesBack' BY DEF ComesBack, addresses
<1> QED BY <1>1, <1>2, PTL DEF ReturnToSpec
=============================================================================
