------------------------------- MODULE Browser -------------------------------
(***************************************************************************)
(* One browser and the server's guard: the cookie that carries the form    *)
(* token, the cookie that carries the session, and the forms left open in  *)
(* several tabs.  A request leaves with the cookies the browser holds at   *)
(* that moment; its answer, cookies included, may arrive late, after       *)
(* another tab's, or never.                                                *)
(*                                                                         *)
(* Taken from outside the repository: a browser keeps the last value of a  *)
(* cookie until its Max-Age has run out, counted from the answer's         *)
(* arrival, follows redirects at once, the guard's (307) with the form it  *)
(* was sent and a handler's (303) without, and an answer carries the       *)
(* cookies queued for it whether or not the handler succeeded.  The server *)
(* handles a request in one step: what may happen between its queries is   *)
(* in SignIn and Members.  Static files and notices are left out.          *)
(***************************************************************************)
EXTENDS Naturals, FiniteSets

CONSTANTS
  Tabs,
  Together,    \* how many requests the browser has outstanding at a time
  TokenTtl,    \* csrf::TTL_SECONDS
  SessionTtl,  \* session_ttl
  MaxClock,    \* bound: when the clock stops
  MaxSession   \* bound: sessions that matter at a time

\* What the constants have to be.
BrowserInstance ==
  /\ IsFiniteSet(Tabs) /\ Together \in Nat /\ TokenTtl \in Nat \ {0} /\ SessionTtl \in Nat
  /\ MaxClock \in Nat /\ MaxSession \in Nat

VARIABLES
  clock,
  ends,    \* ends[s]: when session s stops resolving; 0 when revoked or unknown
  jar,     \* the browser's two cookies, each with the time it is dropped
  open,    \* open[t]: the page in tab t and the token in its forms
  flight   \* flight[t]: the request or the answer tab t is waiting for

browser == <<clock, ends, jar, open, flight>>

Absent == 0
Sessions == 1 .. MaxSession
Cleared == MaxSession + 1        \* an answer that deletes the session cookie

\* A token: its random value and when it was minted.
NoToken == [value |-> Absent, at |-> 0]
Tokens == [value : 1 .. (2 * Cardinality(Tabs) + 2), at : 0 .. MaxClock] \cup {NoToken}

\* Pages that need a session, and the sign-in page (and sign-up), which does not.
Paths == {"private", "login"}
\* A page is asked for, or one of the forms is sent.
Methods == {"get", "login", "change", "logout"}

Quiet == [phase |-> "quiet"]
Asking == [phase : {"asking"}, path : Paths, method : Methods, next : Paths,
           csrf : Tokens, sess : Sessions \cup {Absent}, form : Tokens]
\* to: where the answer redirects, or "here"; method, form: what is sent there;
\* came: the session cookie the request came with.
Answer == [phase : {"answer"}, csrf : Tokens, sess : Sessions \cup {Absent, Cleared},
           came : Sessions \cup {Absent}, to : Paths \cup {"here"}, next : Paths,
           method : Methods, form : Tokens, page : Paths \cup {"error"}, token : Tokens,
           signout : BOOLEAN]

-----------------------------------------------------------------------------
(* The server's side.                                                      *)

\* Mutation: a token is good for as long as the browser sends it.
IsFreshForever(token) == token # NoToken

\* CsrfToken::is_fresh.
IsFresh(token) == token # NoToken /\ token.at <= clock /\ clock - token.at < TokenTtl

ValuesIn(m) == CASE m.phase = "quiet"  -> {}
               [] m.phase = "asking" -> {m.csrf.value, m.form.value}
               [] OTHER              -> {m.csrf.value, m.token.value, m.form.value}

\* A value nobody holds any more is as good as a new one.
FreshToken ==
  LET held == {jar.csrf.value} \cup {open[t].token.value : t \in Tabs}
                \cup UNION {ValuesIn(flight[t]) : t \in Tabs}
  IN  [value |-> CHOOSE v \in 1 .. (2 * Cardinality(Tabs) + 2) : v \notin held, at |-> clock]

\* Mutation: every request rotates the token.
IssuedAnew(m) == FreshToken

\* issue: the cookie's token while it is fresh, or a new one.
Issued(m) == IF IsFresh(m.csrf) THEN m.csrf ELSE FreshToken

\* resolve_session.
Resolves(s) == s # Absent /\ ends[s] > clock

\* A cookie that no longer resolves is deleted on the way out.
Dropped(m) == IF m.sess # Absent /\ ~ Resolves(m.sess) THEN Cleared ELSE Absent

Asked(t) == flight[t].phase = "asking"
SignedIn(t) == Resolves(flight[t].sess)
SentOn(t) == SignedIn(t) /\ flight[t].path = "login"

\* Mutation: the sign-in page needs a session too.
TurnedAwayAlways(t) == ~ SignedIn(t)

TurnedAway(t) == ~ SignedIn(t) /\ flight[t].path = "private"
Admitted(t) == Asked(t) /\ ~ SentOn(t) /\ ~ TurnedAway(t)

\* Where the guard redirects, what was sent is sent again.
Reply(t, sess, to, next, page, signout) ==
  LET m == flight[t]
      token == Issued(m)
      again == SentOn(t) \/ TurnedAway(t)
  IN  flight' = [flight EXCEPT ![t] =
        [phase |-> "answer", csrf |-> IF token = m.csrf THEN NoToken ELSE token, sess |-> sess,
         came |-> m.sess, to |-> to, next |-> next,
         method |-> IF again THEN m.method ELSE "get", form |-> IF again THEN m.form ELSE NoToken,
         page |-> page, token |-> IF page = "error" \/ to # "here" THEN NoToken ELSE token,
         signout |-> signout]]

\* The paths have their forms: any form sent to the sign-in page is read as its
\* own, and a page behind it takes every form but that one.
Handles(t) == flight[t].method # "get" /\ (flight[t].path = "login" \/ flight[t].method # "login")

\* verify.
Verified(t) == flight[t].form # NoToken /\ flight[t].form = Issued(flight[t])

\* The guard: to the sign-in page, remembering where one was going.
TurnAway(t) ==
  /\ Asked(t) /\ TurnedAway(t)
  /\ Reply(t, Dropped(flight[t]), "login", flight[t].path, "login", FALSE)
  /\ UNCHANGED <<clock, ends, jar, open>>

\* The guard: away from the sign-in page, form or not.
SendOn(t) ==
  /\ Asked(t) /\ SentOn(t)
  /\ Reply(t, Absent, flight[t].next, "private", "private", FALSE)
  /\ UNCHANGED <<clock, ends, jar, open>>

Render(t) ==
  /\ Admitted(t) /\ flight[t].method = "get"
  /\ Reply(t, Dropped(flight[t]), "here", "private", flight[t].path, FALSE)
  /\ UNCHANGED <<clock, ends, jar, open>>

\* Mutation: a form that is refused costs the session.
RefuseSigningOut(t) ==
  /\ Admitted(t) /\ Handles(t) /\ ~ Verified(t)
  /\ Reply(t, Cleared, "here", "private", "error", FALSE)
  /\ UNCHANGED <<clock, ends, jar, open>>

\* A form whose token is not this request's.
Refuse(t) ==
  /\ Admitted(t) /\ Handles(t) /\ ~ Verified(t)
  /\ Reply(t, Dropped(flight[t]), "here", "private", "error", FALSE)
  /\ UNCHANGED <<clock, ends, jar, open>>

\* The sign-in form, sent on to a page that takes no such form.
Misplaced(t) ==
  /\ Admitted(t) /\ flight[t].method # "get" /\ ~ Handles(t)
  /\ Reply(t, Absent, "here", "private", "error", FALSE)
  /\ UNCHANGED <<clock, ends, jar, open>>

\* Sessions that no cookie names, as good as new ones.
Unknown == {s \in Sessions : /\ s # jar.sess
                             /\ \A t \in Tabs : /\ flight[t] # Quiet => flight[t].sess # s
                                                /\ flight[t].phase = "answer" => flight[t].came # s}

\* The sign-in form and the page it remembers.  The guard's deletion and the
\* new cookie leave together, and the later of the two counts.
LogIn(t) ==
  /\ Admitted(t) /\ flight[t].path = "login" /\ flight[t].method = "login" /\ Verified(t)
  /\ \E s \in Unknown, next \in Paths :
       /\ ends' = [ends EXCEPT ![s] = clock + SessionTtl]
       /\ Reply(t, s, next, "private", "private", FALSE)
  /\ UNCHANGED <<clock, jar, open>>

\* The wrong password, or another page's form, which names nobody: an error
\* page and no session.
Mistype(t) ==
  /\ Admitted(t) /\ flight[t].path = "login" /\ Handles(t) /\ Verified(t)
  /\ Reply(t, Dropped(flight[t]), "here", "private", "error", FALSE)
  /\ UNCHANGED <<clock, ends, jar, open>>

\* Any other form of a page behind the sign-in: verified, and answered with a
\* redirect.  What it changes is in the other modules.
Change(t) ==
  /\ Admitted(t) /\ flight[t].path = "private" /\ flight[t].method = "change" /\ Verified(t)
  /\ Reply(t, Absent, "private", "private", "private", FALSE)
  /\ UNCHANGED <<clock, ends, jar, open>>

\* logout: a revocation that fails is ignored, and the cookie goes either way.
LogOut(t) ==
  /\ Admitted(t) /\ flight[t].path = "private" /\ flight[t].method = "logout" /\ Verified(t)
  /\ \/ ends' = [ends EXCEPT ![flight[t].sess] = 0]
     \/ UNCHANGED ends
  /\ Reply(t, Cleared, "login", "private", "login", TRUE)
  /\ UNCHANGED <<clock, jar, open>>

\* Somebody with another browser ends the session.
Revoke(s) ==
  /\ ends[s] > clock
  /\ ends' = [ends EXCEPT ![s] = 0]
  /\ UNCHANGED <<clock, jar, open, flight>>

-----------------------------------------------------------------------------
(* The browser's side.                                                     *)

CsrfCookie(j) == IF j.csrfEnd > clock THEN j.csrf ELSE NoToken
SessionCookie(j) == IF j.sessEnd > clock THEN j.sess ELSE Absent

Outstanding == {t \in Tabs : flight[t] # Quiet}

Send(t, j, path, method, next, form) ==
  flight' = [flight EXCEPT ![t] =
    [phase |-> "asking", path |-> path, method |-> method, next |-> next,
     csrf |-> CsrfCookie(j), sess |-> SessionCookie(j), form |-> form]]

Visit(t, path, next) ==
  /\ flight[t] = Quiet /\ Cardinality(Outstanding) < Together
  /\ path = "private" => next = "private"
  /\ Send(t, jar, path, "get", next, NoToken)
  /\ UNCHANGED <<clock, ends, jar, open>>

\* A form of the page in the tab, with the token it was rendered with.
SendForm(t, method) ==
  /\ flight[t] = Quiet /\ Cardinality(Outstanding) < Together
  /\ method \in IF open[t].page = "login" THEN {"login"} ELSE {"change", "logout"}
  /\ open[t].token # NoToken
  /\ Send(t, jar, open[t].page, method, "private", open[t].token)
  /\ UNCHANGED <<clock, ends, jar, open>>

\* Mutation: the deletion is kept as a cookie.
KeptVerbatim(m) ==
  [csrf |-> IF m.csrf = NoToken THEN jar.csrf ELSE m.csrf,
   csrfEnd |-> IF m.csrf = NoToken THEN jar.csrfEnd ELSE clock + TokenTtl,
   sess |-> IF m.sess = Absent THEN jar.sess ELSE m.sess,
   sessEnd |-> IF m.sess = Absent THEN jar.sessEnd ELSE clock + SessionTtl]

\* The cookies first; then the redirect is followed or the page shown.
Kept(m) ==
  [csrf |-> IF m.csrf = NoToken THEN jar.csrf ELSE m.csrf,
   csrfEnd |-> IF m.csrf = NoToken THEN jar.csrfEnd ELSE clock + TokenTtl,
   sess |-> CASE m.sess = Absent -> jar.sess [] m.sess = Cleared -> Absent [] OTHER -> m.sess,
   sessEnd |-> CASE m.sess = Absent -> jar.sessEnd [] m.sess = Cleared -> 0
                 [] OTHER -> clock + SessionTtl]

Deliver(t) ==
  /\ flight[t].phase = "answer"
  /\ LET m == flight[t]
     IN  /\ jar' = Kept(m)
         /\ IF m.to = "here"
            THEN /\ open' = [open EXCEPT ![t] = [page |-> m.page, token |-> m.token]]
                 /\ flight' = [flight EXCEPT ![t] = Quiet]
            ELSE Send(t, Kept(m), m.to, m.method, m.next, m.form) /\ UNCHANGED open
  /\ UNCHANGED <<clock, ends>>

\* The connection breaks before or after the server has done its part.
Lose(t) ==
  /\ flight[t] # Quiet
  /\ flight' = [flight EXCEPT ![t] = Quiet]
  /\ UNCHANGED <<clock, ends, jar, open>>

Elapse == clock < MaxClock /\ clock' = clock + 1 /\ UNCHANGED <<ends, jar, open, flight>>

-----------------------------------------------------------------------------
BrowserInit ==
  /\ clock = 0
  /\ ends = [s \in Sessions |-> 0]
  /\ jar = [csrf |-> NoToken, csrfEnd |-> 0, sess |-> Absent, sessEnd |-> 0]
  /\ open = [t \in Tabs |-> [page |-> "error", token |-> NoToken]]
  /\ flight = [t \in Tabs |-> Quiet]

Handle(t) ==
  \/ TurnAway(t) \/ SendOn(t) \/ Render(t) \/ Refuse(t) \/ Misplaced(t)
  \/ LogIn(t) \/ Mistype(t) \/ Change(t) \/ LogOut(t)

User(t) ==
  \/ \E path, next \in Paths : Visit(t, path, next)
  \/ \E method \in Methods : SendForm(t, method)

BrowserNext ==
  \/ \E t \in Tabs : User(t)
  \/ \E t \in Tabs : Handle(t)
  \/ \E t \in Tabs : Deliver(t)
  \/ \E t \in Tabs : Lose(t)
  \/ \E s \in Sessions : Revoke(s)
  \/ Elapse

\* The server answers, and answers arrive or the connection breaks.
Fairness == \A t \in Tabs : WF_browser(Handle(t)) /\ WF_browser(Deliver(t) \/ Lose(t))

BrowserSpec == BrowserInit /\ [][BrowserNext]_browser /\ Fairness

-----------------------------------------------------------------------------
(* Cookies, forms and messages have the shape the guard gives them.        *)
BrowserTypeOK ==
  /\ clock \in 0 .. MaxClock /\ ends \in [Sessions -> 0 .. (MaxClock + SessionTtl)]
  /\ jar \in [csrf : Tokens, csrfEnd : 0 .. (MaxClock + TokenTtl),
              sess : Sessions \cup {Absent}, sessEnd : 0 .. (MaxClock + SessionTtl)]
  /\ open \in [Tabs -> [page : Paths \cup {"error"}, token : Tokens]]
  /\ \A t \in Tabs : flight[t] \in Asking \cup Answer \cup {Quiet}

(* A form left open in a tab still submits while its token is fresh,       *)
(* whatever the other tabs did meanwhile and whichever answers were lost   *)
(* (csrf.rs: issue reuses the token, TTL_SECONDS).                         *)
FormsStillSubmit == [][\A t \in Tabs : Refuse(t) => ~ IsFresh(flight[t].form)]_browser

(* No form is accepted with a token minted TokenTtl ago or earlier, though *)
(* the cookie that repeats it lives longer by however long the answer that *)
(* set it was under way (csrf.rs: is_fresh, verify).                       *)
FormsGoStale ==
  [][\A t \in Tabs : Asked(t) /\ flight[t].method # "get" /\ flight'[t].phase = "answer" =>
       \/ flight'[t].page = "error" \/ SentOn(t) \/ TurnedAway(t)
       \/ clock - flight[t].form.at < TokenTtl]_browser

(* The cookie of a session that is not over is taken from the browser by   *)
(* signing out, or by a late answer to a request it sent without that      *)
(* cookie, before it had signed in: no answer to a request that came with  *)
(* it takes it away, whatever else is under way, and it does not run out   *)
(* first (auth.rs: session_cookie, clear_session_cookie, Guard).           *)
SignInSticks ==
  [][LET s == SessionCookie(jar)
     IN  Resolves(s) /\ SessionCookie(jar)' # s =>
           \/ ends'[s] <= clock'
           \/ \E t \in Tabs : Deliver(t) /\ (flight[t].signout \/ flight[t].came # s)]_browser

(* Redirects between the sign-in page and the pages behind it come to an   *)
(* end: every request ends in a page or a broken connection (auth.rs:      *)
(* Guard, redirects_when_signed_in, reachable_without_session).            *)
NavigationEnds == \A t \in Tabs : flight[t] # Quiet ~> flight[t] = Quiet
=============================================================================
