------------------------------- MODULE MCFront -------------------------------
(* One instance of every part around the book and the members, and a small  *)
(* book whose requests must end: they share no state, and a behaviour       *)
(* explores one of them, or holds one value to be converted, or compares    *)
(* the definitions that have no state.                                      *)
EXTENDS SignIn, Browser, Onboarding, DealForm, Dates, Pages, Dashboard, Money, Slug, Search, Prompt,
  ReturnTo, Briefings, TLC

CONSTANTS ann, eve, acme, zenith, anna, r1, r2, nothing, nobody

VARIABLES
  part,
  tables, numbering, handlers, beside   \* the book

book == <<tables, numbering, handlers, beside>>

\* One company and one contact, in one workspace.
OneContact == [company |-> 1, contact |-> 1, deal |-> 0, activity |-> 0, briefing |-> 0]

Book == INSTANCE Records WITH
  Accounts <- {acme}, Requests <- {r1, r2}, MaxId <- 1, Limit <- OneContact,
  NoRow <- nothing, NoAccount <- nobody,
  db <- tables, seq <- numbering, req <- handlers, overlapped <- beside

\* What is converted never changes.
conversions == <<dates, money, named, search, prompt, addresses, answer>>
vars == <<part, book, signIn, browser, onboarding, dealForm, pages, dashboard, conversions>>

-----------------------------------------------------------------------------
(* The values the parts are given, where front.cfg cannot write them.      *)

AnnAndSomebody == {(ann :> "open" @@ eve :> s) : s \in {"passwordless", "unknown"}}

\* Of every table the rows that refer to each other, and one that refers to none.
Some == {1, 4, 6, 13, 20}

\* Of the last two, the clock jumps over the midnight that day 5 begins with, or
\* goes back at it.
EastOfGreenwich ==
  {[before |-> 0, after |-> 0, at |-> 0], [before |-> 13, after |-> 13, at |-> 0],
   [before |-> 2, after |-> 3, at |-> 118], [before |-> 3, after |-> 2, at |-> 117]}

\* The ends of centuries and leap centuries, and of the era before ours.
EndsOfCenturies == -720000 .. -719000 \cup -1000 .. 1000 \cup 10000 .. 12000 \cup 47000 .. 48500

ByName == [field |-> "name", direction |-> "a"]
AllDifferent == [r \in Rows |-> r]

\* Cursors of this list; of the same list in another order; of another list; mangled.
FromElsewhere ==
  {<<"v1", "name", "a", 3>>, <<"v1", "name", "d", 2>>, <<"v1", "last_name", "a", 2>>,
   <<"v1", "", "a", 2>>, <<"v2", "name", "a", 2>>, <<"v1", "name", "a">>}

\* A debt and a credit.
InTheRedToo == {-2, 5}

\* An integer of which the limits are in reach, amounts about them and about zero.
CentsNearLimits == {c \in -MaxCents .. MaxCents : c \in -1100 .. 1100 \/ c > 99900 \/ c < -99900}

\* Nothing, 9, a minus sign, and 1004.
Beginnings == {<<>>, <<9>>, <<10>>, <<1, 0, 0, 4>>}

\* The wildcards, the backslash and a letter of either case.
TermsAndWildcards == {"a", "A", "%", "_", "\\"}

\* Texts of a, 2, space, %, &, +, /, =, F and the backslash: what follows a slash,
\* with an accented letter at the end or not, and what is typed into a search box,
\* on its own or beside another filter, in a list that is sorted or not.
Written3 == UNION {[1 .. n -> {97, 50, 32, 37, 38, 43, 47, 61, 70, 92}] : n \in 0 .. 3}
AfterASlash == {<<47>> \o rest \o accented : rest \in Written3, accented \in {<<>>, <<195, 169>>}}
SearchedFor == {<<[name |-> <<113>>, value |-> text], [name |-> <<115>>, value |-> stage]>> :
                  text \in Written3, stage \in {<<>>, <<97>>}}
LettersOnly == {<<118>>, <<118, 43>>}

\* A plain reply, the two bullets of another, and what that is written in: JSON
\* on its own, or after a remark or the entry of a list.
Written5 == UNION {[1 .. n -> Alphabet] : n \in 0 .. 5}
TwoBullets == {<<a, b>> : a, b \in UNION {[1 .. n -> Alphabet] : n \in 0 .. 2}}
BesideJson == {<<>>, <<"w", "nl", "w">>, <<"-", " ", "w", "nl", "w">>, <<"3", ".", "w">>}
NoAnswer == [kind |-> "transport", json |-> FALSE, text |-> <<>>, bullets |-> <<>>]

\* The values are such as the modules ask for.
ASSUME Instances ==
  /\ SignInInstance /\ BrowserInstance /\ OnboardingInstance /\ DealFormInstance
  /\ PagesInstance /\ DashboardInstance /\ DaysAndYears
  /\ MoneyInstance /\ SlugInstance /\ SearchInstance /\ PromptInstance /\ ReturnToInstance
  /\ BriefingInstance

-----------------------------------------------------------------------------
\* The parts that are not explored stay as they are, in one initial state.
Init ==
  /\ part \in {"days", "dates", "amounts", "entries", "slugs", "searches", "prompts", "targets", "links",
               "answers", "book", "sign-in", "browser", "onboarding", "deal form", "pages", "dashboard"}
  /\ Book!Init
  /\ SignInInit /\ (part # "sign-in" => standing = CHOOSE s \in AnnAndSomebody : TRUE)
  /\ DealFormInit /\ (part # "deal form" => zone = CHOOSE z \in EastOfGreenwich : TRUE)
  /\ PagesInit /\ (part # "pages" => list = {})
  /\ BrowserInit /\ OnboardingInit /\ DashboardInit
  \* DatesInit and MoneyInit, one of what they convert at a time, then the rest.
  /\ number \in IF part = "days" THEN Days ELSE {0}
  /\ typed \in IF part = "dates" THEN TypedDates ELSE {[year |-> 2000, month |-> 1, day |-> 1]}
  /\ amount \in IF part = "amounts" THEN Quoted ELSE {0}
  /\ entered \in IF part = "entries" THEN Entries ELSE {<<>>}
  /\ IF part = "slugs" THEN SlugInit ELSE named = <<>>
  /\ IF part = "searches" THEN SearchInit ELSE sought = <<>> /\ stored = <<>>
  /\ IF part = "prompts" THEN PromptInit ELSE head = 0 /\ log = <<>>
  \* ReturnToInit, one of what they carry at a time.
  /\ target \in IF part = "targets" THEN Addresses ELSE {<<47>>}
  /\ filters \in IF part = "links" THEN FilterLists ELSE {<<>>}
  /\ cursor \in IF part = "links" THEN Cursors ELSE {<<>>}
  /\ IF part = "answers" THEN BriefingInit ELSE answer = NoAnswer

Compare ==
  /\ part \in {"days", "dates", "amounts", "entries", "slugs", "searches", "prompts", "targets", "links",
               "answers"}
  /\ UNCHANGED vars

Within(p, others) == part = p /\ UNCHANGED <<part, conversions, others>>

InBook == Within("book", <<signIn, browser, onboarding, dealForm, pages, dashboard>>)
InSignIn == Within("sign-in", <<book, browser, onboarding, dealForm, pages, dashboard>>)
InBrowser == Within("browser", <<book, signIn, onboarding, dealForm, pages, dashboard>>)
InOnboarding == Within("onboarding", <<book, signIn, browser, dealForm, pages, dashboard>>)
InDealForm == Within("deal form", <<book, signIn, browser, onboarding, pages, dashboard>>)
InPages == Within("pages", <<book, signIn, browser, onboarding, dealForm, dashboard>>)
InDashboard == Within("dashboard", <<book, signIn, browser, onboarding, dealForm, pages>>)

NextBook ==
  \/ \E r \in {r1, r2} : InBook /\ Book!Begin(r)
  \/ \E r \in {r1, r2} : InBook /\ Book!Step(r)
  \/ \E r \in {r1, r2} : InBook /\ Book!Abort(r)

NextSignIn ==
  \/ \E r \in Slots, n \in Names : InSignIn /\ Submit(r, n)
  \/ \E r \in Slots, s \in sessions, pc \in {"end", "enrol", "confirm"} : InSignIn /\ Ask(r, s, pc)
  \/ \E r \in Slots : InSignIn /\ CheckLock(r)
  \/ \E r \in Slots : InSignIn /\ Lookup(r)
  \/ \E r \in Slots : InSignIn /\ CheckCode(r)
  \/ \E r \in Slots : InSignIn /\ Count(r)
  \/ \E r \in Slots : InSignIn /\ Tally(r)
  \/ \E r \in Slots : InSignIn /\ Clear(r)
  \/ \E r \in Slots : InSignIn /\ DeleteRow(r)
  \/ \E r \in Slots : InSignIn /\ Mint(r)
  \/ \E r \in Slots : InSignIn /\ EndSession(r)
  \/ \E r \in Slots : InSignIn /\ Enrol(r)
  \/ \E r \in Slots : InSignIn /\ Confirm(r)
  \/ \E r \in Slots : InSignIn /\ WriteFactor(r)
  \/ \E r \in Slots : InSignIn /\ Abort(r)
  \/ InSignIn /\ Tick
  \/ InSignIn /\ Restart
  \/ InSignIn /\ ListDead
  \/ InSignIn /\ Sweep
  \/ InSignIn /\ Serve

NextBrowser ==
  \/ \E t \in Tabs, path, next \in Paths : InBrowser /\ Visit(t, path, next)
  \/ \E t \in Tabs, method \in Methods : InBrowser /\ SendForm(t, method)
  \/ \E t \in Tabs : InBrowser /\ TurnAway(t)
  \/ \E t \in Tabs : InBrowser /\ SendOn(t)
  \/ \E t \in Tabs : InBrowser /\ Render(t)
  \/ \E t \in Tabs : InBrowser /\ Refuse(t)
  \/ \E t \in Tabs : InBrowser /\ Misplaced(t)
  \/ \E t \in Tabs : InBrowser /\ LogIn(t)
  \/ \E t \in Tabs : InBrowser /\ Mistype(t)
  \/ \E t \in Tabs : InBrowser /\ Change(t)
  \/ \E t \in Tabs : InBrowser /\ LogOut(t)
  \/ \E t \in Tabs : InBrowser /\ Deliver(t)
  \/ \E t \in Tabs : InBrowser /\ Lose(t)
  \/ \E s \in Sessions : InBrowser /\ Revoke(s)
  \/ InBrowser /\ Elapse

NextOnboarding ==
  \/ \E r \in Applicants, slug \in Slugs : InOnboarding /\ Apply(r, slug)
  \/ \E r \in Applicants : InOnboarding /\ CheckSlug(r)
  \/ \E r \in Applicants : InOnboarding /\ InsertAccount(r)
  \/ \E r \in Applicants : InOnboarding /\ InsertFounder(r)
  \/ \E r \in Applicants : InOnboarding /\ RecordFounder(r)
  \/ \E r \in Applicants : InOnboarding /\ SignFounderIn(r)
  \/ \E r \in Applicants : InOnboarding /\ BreakOff(r)
  \/ InOnboarding /\ StartAgain
  \/ InOnboarding /\ BeginSeed
  \/ InOnboarding /\ Seed
  \/ InOnboarding /\ EndSeed
  \/ InOnboarding /\ DeleteCompany

NextDealForm ==
  \/ InDealForm /\ Create
  \/ \E e \in Editors : InDealForm /\ Open(e)
  \/ \E e \in Editors : InDealForm /\ Save(e)
  \/ \E s \in Stages : InDealForm /\ SetStage(s)

NextPages ==
  \/ InPages /\ Start
  \/ InPages /\ FollowNext
  \/ InPages /\ FollowPrev
  \/ InPages /\ OpenBookmark
  \/ \E r \in Rows : InPages /\ Insert(r)
  \/ \E r \in Rows : InPages /\ Delete(r)

NextDashboard ==
  \/ InDashboard /\ pipeline_totals
  \/ InDashboard /\ closed_count
  \/ InDashboard /\ stage_totals
  \/ InDashboard /\ Reload
  \/ \E d \in DealIds : InDashboard /\ WriteDeal(d)

Next ==
  \/ Compare
  \/ NextBook \/ NextSignIn \/ NextBrowser \/ NextOnboarding \/ NextDealForm \/ NextPages \/ NextDashboard

\* The book's requests and the browser's answers, each enabled in its part alone.
Spec == Init /\ [][Next]_vars /\ Book!Fairness /\ Fairness

-----------------------------------------------------------------------------
(* Tables, cookies, messages and requests keep their shape.                *)
TypeOK == Book!TypeOK /\ SignInTypeOK /\ BrowserTypeOK /\ OnboardingTypeOK

\* A request of the book that starts is answered or dropped: no handler waits
\* for another, and no loop over children can be kept going by new children.
EveryRequestEnds == Book!EveryRequestEnds
=============================================================================
