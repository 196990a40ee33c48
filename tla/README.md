# crm-light, in TLA+

Models, model-checking configurations and machine-checked proofs for crm-light,
a multi-tenant CRM served by one Rust process over one PostgreSQL database.
Paths below are relative to the repository's own root (`src/access.rs` is
listed in `PROJECT.json` as `src/src/access.rs`).

What makes the program hard is not any one handler, each of which is a dozen
straight lines. It is that **nothing is a transaction**: a handler is an `async`
function that issues one autocommit query after another on a pooled connection,
every `await` lets another request run, the future may be dropped at any of
them, and the schema declares no foreign key and only two uniqueness
constraints (`sessions.token_hash`, `accounts.slug`). Everything the program
promises about rows that refer to each other is promised by the order of those
queries.

## Inventory

| Part | State | Operations | What must hold | Modules |
|---|---|---|---|---|
| CRM book: `access.rs`, `models.rs`, `pages/{companies,contacts,deals,activities}.rs` | five tables, each row owned by an account, with nullable references | create, update, set_stage, destroy (detach children, then delete), generate_briefing (awaits an AI provider) | no reference and no write crosses accounts; nothing dangles; handlers end; a deal's date is the date typed | Records, DealForm |
| Accounts administration: `pages/admin.rs` | `users` (role, active, password, TOTP), their sessions and throttle rows | create, update_user, set_active, reset_password, revoke_sessions, destroy | an account keeps an active administrator; usernames are unique in an account; a closed or demoted user is signed out; users with history are not deleted | Members |
| Sign-in and sessions: `auth.rs`, `pages/login.rs` | `sessions` (expiry, revocation), `login_attempts` (failures, lock) | attempt_login, login, logout, change_password, TOTP on/off, revoke_other_sessions, purge_sessions; the `Guard` resolves a session once per request | failures lock, a lock holds until it runs out; a second factor is not skipped; a password change ends sessions of the old password; sessions are swept late | SignIn, Lockout, Members |
| Sign-up: `pages/signup.rs` | `accounts`, `users`, `sessions` | slug check, create account, founder, session | slugs are unique; an account has at most one founder, its own | Onboarding, Slug |
| CSRF, cookies, notices: `csrf.rs`, `flash.rs`, `lib.rs` | cookies in the browser | issue, verify, set, peek, take | a page's form is accepted while its token is fresh and not after; nobody is signed out by accident; a notice is shown once | Browser, ReturnTo; not the notices |
| Pagination: `pagination.rs` | none (cursors) | encode, decode, resolve, assemble | pages partition the list | Pages |
| Domain values: `domain.rs`, `access.rs` | none | money, dates, zones, stages, slugs, search patterns | formatting and parsing agree; arithmetic stays in `i64` | Money, Dates, DealForm, Slug, Search |
| AI prompt and reply: `ai.rs` | none | build_prompt, render, generate, parse, to_text, from_text | what is dropped is the end of the log, and reported; what is shown was said | Prompt, Briefings |
| Startup: `main.rs`, `cli.rs`, `seed.rs` | the database | migrate, seed, sweep sessions, serve | repeating it is harmless | Onboarding, SignIn |
| Dashboard: `pages/dashboard.rs` | none | three queries | the figures agree | Dashboard |
| Configuration, rendering, deployment | none that changes | | | not modelled |

Parts meet in the database and in the request context. The `Guard` layer
(`auth.rs`) resolves the session cookie at the start of a request and puts a
`CurrentUser` (id, account, role) into the context; handlers use that value,
never a fresh one, for as long as they run. Handlers of the book take their
account from it (`Tenant::of`). Administration writes the user and session rows
that the guard of the *next* request reads.

The hazards, each at its line and with the property that speaks of it, are in
`PROJECT.json`.

## Modules

### Records — the CRM book

`db[k][i]` is row `i` of table `k`, `seq[k]` the last id its IDENTITY column
assigned, `req[r]` the request in slot `r`: what its form asked for and how far
its handler has come. `overlapped` is auxiliary: it remembers that a destroy has
run beside a create or an update, and holds nothing up. One action is one query
(or the provider's answer):

| Action | Code |
|---|---|
| `StartCreate` … `StartBriefing` | the request arrives, `Tenant::of` gives its account, the form its ids |
| `CheckReference` | one `access::require_reference` |
| `Insert` | `toasty::create!` |
| `Find` | `find` = `access::require`: by id, then the account compared |
| `Write` | `toasty::update!` of update and set_stage; an UPDATE of a missing row changes nothing |
| `SelectChildren`, `DetachChild`, `DeleteRow` | the loops of the destroy handlers: one select per child table, one update per child, one delete |
| `ReadDeals`, `ReadActivities`, `ProviderReplies`, `SaveBriefing` | generate_briefing |
| `Abort` | a query fails, the client goes away or the process dies; nothing is undone |

Columns no reference depends on are left out, and so are requests refused
before their first query. The order in which a handler detaches the rows one
select returned is arbitrary.

**Properties.** `TenantIsolation` (references stay inside an account although
they are checked long before they are written), `WritesStayHome` (no request
inserts, changes or deletes a row of another account), `OnlyOverlapsDangle`,
`EveryRequestEnds`, and the type invariant `TypeOK`.

`NoDanglingReference` is what the comments of the code promise, and it fails
(`records_overlap`): a create checks its company, a destroy of the company
selects its children and deletes it, the create inserts a row that refers to
nothing. `OnlyOverlapsDangle` says that this is the only way: as long as no
destroy has run beside a request that writes references, any number of destroys
of related rows, briefings, stage changes and handlers cut short at any await
leave every reference leading to a row.

That a destroy clears only references to the row it deletes is not stated. The
rows are selected by one query and cleared by later ones, so that a child
moved to another company in between loses its new reference as well.

**Fairness.** `WF(Step(r) \/ Abort(r))` for each request: a handler is polled
until it answers or is dropped, queries return a row or an error, and the HTTP
client of the provider has a timeout (`main.rs`). Requests need not arrive.

### MCRecords — the instances

| Run | Instance | Shows |
|---|---|---|
| `records_isolation` | 2 accounts, 2 requests; two company ids, one contact, one briefing | isolation, and that nothing but an overlap leaves a reference dangling, with an id assigned after a deletion and around the provider's await |
| `records_overlap` | 1 account, 2 requests; one row of each table a destroy detaches | the counterexample above |

That requests end is checked in `front` (see MCFront), where two requests of one
account work on one company and one contact.

`Limit` bounds how many rows a table ever holds (an id is never assigned
twice, so it bounds creations, not rows alive at once), `MaxId` the ids a form
can name. Two requests suffice for every hazard listed: each is one handler
overtaken by another between two of its queries. Two accounts suffice because
every check compares one account with one other. Activities, whose references
are handled as a deal's, are in no passing run but in the theorems. TLC checks
these sizes only; the safety properties are proved for all of them, below.

### Members — who may do what, and from which session

`users[u]` and `sessions[s]` are the rows of the two tables, `last` the last id
each assigned, `logged` the members an activity names as its author, `req[r]`
the request in slot `r` with the identity the guard gave it. Again one action is
one query:

| Action | Code |
|---|---|
| `ArriveCreate` … `ArriveChangePassword` | a request with a live session: the first query of `auth::resolve_session`; `Offered` names the handlers a run lets requests reach |
| `Identify` | its second query, the member's row; `require_admin` reads the role found here and nobody reads it again |
| `Taken`, `InsertUser` | `admin::create` with `access::username_taken` |
| `Find`, `GuardAdminChange`, `Write` | `find`; `other_active_admins` and `guard_admin_change`; the `toasty::update!` of update_user, set_active, reset_password and change_password |
| `CheckHistory`, `DeleteUser` | the count and the delete of `admin::destroy` |
| `SelectSessions`, `EndSession` | `revoke_user_sessions`: list the live ones, then one update each; the deletes of destroy; logout's single update |
| `FindSelf` | `change_password` up to its update |
| `ArriveLogin`, `LookUp`, `Mint` | `attempt_login` and `create_session` |
| `LogActivity`, `ForgetActivities` | the author that `activities::create` stores, and activities destroyed |
| `Abort` | as in Records |

A session row carries `pw`, which is no column: the password it was opened
with, so that a property can say which sessions are of an old one. Left out are
display names, second factors, accounts without a password, the throttle, the
account row (never deleted) and the clock: a session that expires admits fewer
requests, and purging only removes rows no request of the guard accepts.

**Properties.** `PowersStayHome` and `SessionTenantAgrees` hold under every
interleaving. `LastAdminStays`, `SignedOut`, `UniqueNames` and `HistoryNamed`
are promises of the README and of comments, each kept by a check in one query
and a write in a later one, and each fails. Four runs show how:

* `members_race_admins`: two administrators close each other, each counted as
  the one who remains;
* `members_race_login`: a sign-in that verified the old password opens its
  session after `change_password` listed the sessions to end;
* `members_race_names`: two creates of one username both find it free;
* `members_race_history`: a member logs an activity after `destroy` counted none
  and is then deleted.

Of the last two nothing is left when the race is excluded but a check that
guards its own write, so that they are not stated otherwise. Of the first two
much is: identities that are outdated, several changes to one member, handlers
that stop half way. They hold under `DisciplinedSpec`: of the requests of
one workspace at most one is *deciding*, that is, between the first query whose
answer it acts on and its last write. Requests that only wait, behind the guard
or before their lookup, keep whatever identity they were given, an outdated
role included; other workspaces run freely and every handler may still stop
half way. (The runs state the discipline as an `ACTION_CONSTRAINT` of `Spec`,
which explores the same behaviours and lets TLC report each action's coverage.)
The program does not enforce it.

No liveness is stated here: handlers have one loop, over a list read once, as
`EveryRequestEnds` covers for Records.

### MCMembers — the instances

| Run | Instance | Shows |
|---|---|---|
| `members_admins` | 1 workspace, 3 user ids, 2 session ids, 2 names, 2 requests, disciplined; create, update, set_active, destroy, activities, login | an active administrator stays |
| `members_signed_out` | 1 workspace, 2 user ids, 2 session ids, 2 passwords, 2 requests, disciplined; whatever opens or ends sessions | nobody is left signed in who should not be |
| `members_tenancy` | 2 workspaces, 4 user ids, 3 session ids, 2 requests, any interleaving; create, destroy, revoke_sessions, login | powers and sessions stay in their workspace |
| `members_race_admins`, `members_race_login`, `members_race_names`, `members_race_history` | 1 workspace, 1 to 3 user ids, 2 or 3 session ids, 2 requests, no discipline; the handlers the race needs | the counterexamples above |

Every workspace begins as sign-up leaves it. `MaxUser` and `MaxSession` bound
the ids ever assigned. With three users and two sessions a workspace has its
founder, another administrator who is signed in, and a third member. With four users in two workspaces a member is deleted and
one of the other workspace created while a sign-in of the first is under way. That
administrators of one workspace do not count in another no run here can show, two
workspaces of three members being too many states; it is proved, in
MembersProofs. `Offered` splits the handlers between the runs by what a
property depends on; together the runs reach them all. The requests of a run are
interchangeable, hence the symmetry.

### SignIn and Lockout — the throttle, the second factor, the sweep

`attempts` and `sessions` are the rows of the two tables, `req[r]` the request
in slot `r`, `now` a clock that may tick between any two queries, `up` whether
the process is starting, sweeping or serving. A TOTP code is known by the time
step it belongs to; a password is right, wrong or blank.

| Action | Code |
|---|---|
| `Submit`, `CheckLock` | `login_lockout`, the first query of `attempt_login` |
| `Lookup` | the member, whether the password confirms, whether a second factor is on |
| `CheckCode` | `verify_totp`, against the clock as it is after hashing |
| `Count`, `Tally` | `record_login_failure`: read the row, write it whole |
| `Clear`, `DeleteRow`, `Mint` | `clear_login_failures`, `create_session` |
| `Ask`, `EndSession`, `Enrol`, `Confirm`, `WriteFactor` | logout, enable_totp, disable_totp |
| `Restart`, `ListDead`, `Sweep`, `Serve` | the process stops anywhere; `purge_sessions` before it serves again |
| `Abort` | as in Records |

`Lockout` is the abstract specification: per username a counter, a lock and an
attempt under judgement; the `MaxAttempts`-th failure in a row and every later
one locks for `LockFor`, nobody begins an attempt on a locked name, only time or a
success ends a lock, and a stop of the server ends every attempt at once (`Stop`).
`Throttled` is `Lockout!Spec` under the refinement mapping in which counter and
lock are read off the name's row and the attempt off the request between the
lock check and the last write. It holds as long as one request *per name* is
handled at a time, which is `OnePerName` and all that `DisciplinedSpec` adds to
`SignInSpec`: of two failures at once one is lost, and two first failures insert
two rows, of which a success deletes one. The run has one request at a time;
that requests of different names do not disturb each other is proved.

`FactorHolds` says that a session is opened without a code only by a request
whose own lookup found the second factor off, whatever other requests do
meanwhile. It is what the code guarantees and no more: a factor that is turned
on between the lookup of a request and its session does not stop that session.
With several slots that interleaving is allowed, and the theorem is about any
number of them.
`SweptLate` says that the sweep takes only sessions that have been over for longer
than the grace, although revoked and expired ones are measured by different
columns and a sweep may be cut off.

### Browser — cookies and tabs

`jar` holds the form token's cookie and the session's, each with the time it is
dropped; `open[t]` is the page in a tab and the token in its forms; `flight[t]`
the request or the answer it waits for. A request leaves with the cookies of
that moment, and its answer may arrive late or never. The server's actions are
the outcomes of `Guard::handle` (`TurnAway`, `SendOn`, or admitted) and, for
admitted requests, of the CSRF extractor and the handler (`Render`, `Refuse`,
`LogIn`, `Mistype`, `Change`, `LogOut`); a request is handled in one step, for
what happens between its queries is in SignIn and Members. The browser's actions
(`Visit`, `SendForm`, `Deliver`, `Lose`) are external: cookies are kept until
their Max-Age has run out, redirects followed at once. A handler's redirect is
followed with a GET; the guard's is a 307, so that the form is sent again to
where it leads, the sign-in page (which reads any form as its own, `Mistype`) or
a page that does not take it (`Misplaced`).

`FormsStillSubmit`: a form whose token is fresh is not refused, whatever the
other tab did and whichever answers were lost. `FormsGoStale`: none is accepted
with an older token, although the cookie outlives the token in it by as long as
the answer travelled. `SignInSticks`: a live session's cookie is taken
by a sign-out or by a late answer to a request that was sent without it, and by
nothing else. `NavigationEnds`: the guard's two redirects come to an end.

The run lets the browser have one request under way at a time (`Together`), with
both tabs holding pages of any age. With two at a time TLC finds that the first
two requests of a browser are each issued a token and the later cookie wins, so
the other form is refused; that an answer which deletes an old session cookie
may arrive after the new one was set, which is the exception `SignInSticks`
names; and that one tab is redirected to and fro for as long as somebody signs in
and out in the other. `FormsGoStale` and `SignInSticks` hold then, too, and are
proved for any number.

**Fairness.** `WF(Handle(t))` and `WF(Deliver(t) \/ Lose(t))`: the server
answers a request, as Records assumes of its handlers, and an answer arrives or
the connection breaks. Neither users nor the clock need do anything.

### Onboarding — sign-up and the demo book

Sign-ups (`Apply`, then `CheckSlug`, `InsertAccount`, `InsertFounder`, `RecordFounder`,
`SignFounderIn`, one query each, and `BreakOff` at any of them) beside the process, which at every start counts
companies, finds whom to attribute the book to (`BeginSeed`) and writes it row
by row (`Seed`). It may stop anywhere (`StartAgain`). `Demo` is the book of `seed.rs`, as a
sequence of rows with what each refers to; `DeleteCompany` is in one step what
`companies::destroy` does, whose interleavings are in Records.
`FoundedOnce`, `DemoOnce` and `DemoHangsTogether` are about what is in the tables
after any number of cuts and restarts. They do not say that a slug leads to a
workspace somebody can enter: stopped after its first insert, sign-up leaves one
nobody can.

### DealForm — the form of a deal

`deal` is the row, `forms[e]` what an open edit form was filled with, `meant`
the date last typed. `Row` is what `create` and `update` make of a form, `Filled`
what `edit_form` makes of a row, and `Zone` the display zone as two offsets and
the hour of the change between them; `Midnight` is the first instant that shows
a date. `DateShownIsDateTyped` is what three comments say. It holds in zones at
or east of Greenwich, across changes of the clock at midnight as well (`front`),
and fails west of it, where the date moves a day back with every save
(`deals_west`). A form left open while the stage is changed elsewhere writes the
old stage back: the model does so, and no property forbids it.

### Pages — lists page by page

One action per link: `Start`, `FollowNext`, `FollowPrev`, `OpenBookmark` (a cursor
from elsewhere), and rows inserted and deleted in between. The order a query
returns is any order sorted by the sort column, for that is all the code asks
for. `EveryRowOnce` holds if no two rows share it; with namesakes it fails
without anybody writing (`pages_ties`), which is what `pagination.rs` says its
id tie-break prevents and the queries of companies and contacts leave out.
`BackSkipsNothing` covers the prev links, also from bookmarked offsets that no walk stops at.

### Dashboard — three queries

Deals are written between the queries for the totals, the closed deals and the
table of stages, in this workspace and in another. `DashboardAgrees`: top and
table differ by no more than the writes that came in between, counts by one for
each and sums by `Swing`, the most that one deal is worth more than another or
than none; nothing says that what it is worth is not negative. Nothing of
another workspace counts.

### Money, Dates, Slug, Search, Prompt, ReturnTo, Briefings — conversions

The function as the code computes it, beside a reference definition, and a
property that compares them. They hold what they convert as state (`amount` and
`entered`, `number` and `typed`, `named`, `sought` and `stored`, `head` and
`log`, `target`, `filters` and `cursor`, `answer`), which never changes: a run
compares every input within its bounds, and a theorem speaks of inputs of any
size. The loops of the code over the characters of a text or the lines of a log
are written with `Each`, `Folded` and `Split` of Texts, the body of a loop being
a function of its own (`slugged`, `rendered`, `escaped`, `kept`, `decoded`,
`trimmed`, `listed`). Left out of Dates are days and years whose count 64 bits
do not hold.

| Module | Code | Compared with |
|---|---|---|
| Money | `format_money`, `money_input_value`, `parse_money` | itself (round trips); the nearest cent of a decimal number, refused exactly when it does not fit |
| Dates | `civil_from_days`, `days_from_civil`, `parse_civil_date` | the calendar, turned day by day |
| Slug | `slugify` | the shape of a slug; the slug of respelled names and of slugs |
| Search | `like_contains` under PostgreSQL's `ILIKE ... ESCAPE` | occurrence, case aside |
| Prompt | `build_prompt`, `render` | of the newest `MaxActivities`, oldest first, those before the first that does not fit; the ceiling, which binds the log alone |
| ReturnTo | `login_location`, `return_target`, `safe_return_target`, the guard's redirect, `login_form`, `landing`; `query_string`, `cursor_link` | the address one was going to; the filters that were typed |
| Briefings | `parse_json`, `parse_lines`, `parse`, `to_text`, `from_text` | the bullets of the reply, or the lines of one that lists none |

Texts are sequences over small alphabets with a representative of each class of
character the code tells apart. In ReturnTo they are bytes, an address is UTF-8,
as the framework hands it over, and `percent_decode` refuses what is not
(`IsUtf8`). In Money the integer is narrower than 64 bits,
so that its limits are within reach of what is typed.

### MCFront — the instances of these parts

The parts share no state, so that one run, `front`, holds an instance of each,
and one of Records, of a size at which liveness can be checked:
`part` names the one a behaviour explores, and the others stay as they are. The
module EXTENDS the parts, and the run checks their own properties, the ones the
theorems state.
`ASSUME Instances` checks that the values are such as the modules ask for: what
the theorems assume of the constants is named there (`SignInInstance`,
`BrowserInstance`, …) and evaluated by the run.

| Part | Instance | Enough because |
|---|---|---|
| book | 1 account, 2 requests, one company and one contact | a destroy loops over children while another request makes, moves or deletes them |
| sign-in | 1 request at a time, 2 names (one without an account or without a password), `MaxAttempts` 2, `LockFor` 2, `Ttl` 1, grace 1, TOTP period 2, clock to 3, 1 session row, at most 3 failures | a name is locked, the lock runs out, the next failure locks again; a session expires, passes the grace and is swept |
| browser | 2 tabs, 1 request at a time, token and session live 2, clock to 3, 1 session | a token and a session run out with forms still open and with answers under way |
| onboarding | 2 sign-ups, 2 slugs, 2 accounts, the book begun at most twice, 5 of its rows | sign-ups race for a slug; a book is cut off, its companies deleted, and begun again |
| deal form | 1 open form, 4 zones, 2 dates, 2 amounts | every field retyped, one at a time, on either side of a change of the clock |
| pages | 5 rows, pages of 2, 6 cursors from elsewhere, 2 writes | two next links, a short last page, a write before and after the offset |
| dashboard | 3 deals, one of them foreign, worth -2 or 5, 1 stage before the last two, 1 write | a deal closed, changed or gone between any two of the queries |
| days | 6504 days: about 1970, the ends of the leap century 2000 and of 2100, and the beginning of our era of 400 years with the end of the one before | every digit of the calendar is carried into the next |
| dates | 6 years, leap and not, with 20 numbers for the month and 20 for the day | each end of each month, and 0 and too many of both |
| amounts, entries | an integer up to 100444; the 3289 amounts near zero and near its limits; texts of up to 4 characters after 4 beginnings, one of which is within reach of the limit | amounts with and without a separator; each check against the width refuses somebody; rounding carries into the limit |
| slugs | names of up to 4 characters out of 9 kinds, slugs of up to 3 | a cut before, at and after a hyphen; a character that becomes three, and one that disappears |
| searches | terms of 2 and texts of 3 out of 5 characters, wildcards and the escape character among them | an escape character before a wildcard and at the end; occurrences at every place |
| prompts | logs of up to 4 lines of 4 sizes after 2 beginnings, of which 3 lines and 6 characters are sent | a line that does not fit before one that would; a beginning that is too long by itself |
| targets | addresses of a slash and up to 3 bytes out of 10: percent sign, ampersand, plus, slash, equals sign, backslash, blank, a letter, a hex digit and a hex letter; then an accented letter or not | an address may hold a query and an escape of its own, and be unsafe in each way but a line break |
| links | two filters, one with up to 3 of these bytes and one set or not, 2 cursors | a filter whose value looks like another field, or like an escape |
| answers | replies of 5 characters; JSON with two bullets of up to 2, on its own, after a remark, or in the entry of a list | each function's branches, an object that lists nothing among them |

Definitions named "Mutation" in these modules (`LockedUntilLate`, `IssuedAnew`, …)
are not part of the specifications. Each is the neighbouring definition with a
plausible bug in it, and is there to show that a property would notice.

### RecordsProofs — tenancy and references

All are proved for every set of accounts and requests and every bound, from the
assumptions named in `Records` (`MaxId` is a natural number, `Limit` is at most
`MaxId`, and the two markers are no account and no row).

* `TypeCorrect`: `Spec => []TypeOK`, with what a request carries at each point
  (`Shapely`) as the strengthening.
* `Isolated`: `Spec => []TenantIsolation`. The invariant cannot be inductive as
  it stands: a reference is written long after it was checked, and by then the
  row may be gone. The strengthening `IsolationInv` says that an id is *at home*
  in an account once assigned there: whatever is found under it, if anything,
  belongs to that account. Ids at home stay so through every kind of table step
  (`HomeStable`), because a row never changes account and the IDENTITY column
  never assigns an id again. References a request has checked, the row it has
  found and the children it has selected are all at home.
* `StaysHome`: `Spec => WritesStayHome`, from the same invariant.
* `NothingDangles`: `Spec => []OnlyOverlapsDangle`. Until an overlap has happened
  `DisciplineInv` holds: the references a writer has checked still lead to rows,
  and a destroy has under it, in the tables it has been through, at most the
  children it has selected and not yet detached.

### MembersProofs — tenancy, and one request at a time

Proved for every number of workspaces, members, sessions and requests, under
`Spec`, so with every race and abort; from `BoundsAssumption` (the bounds are
natural numbers, and leave room for the founders), `FirstAssumption` (the
founders' name and password are among the names and passwords) and the two
assumptions that the markers for no row are no row.

* `TypeCorrect`: `Spec => []TypeOK`.
* `SessionsAgree`: `Spec => []SessionTenantAgrees`.
* `PowersEnd`: `Spec => PowersStayHome`.

None of them is inductive. A sign-in reads a member, and several queries later
opens a session for the id it read; by then the member may be deleted, so that
agreement of sessions with the rows that exist says nothing about that session,
and `revoke_user_sessions` selects by the id alone. The strengthening
`TenancyInv` says that there is one assignment `home` of workspaces to user ids
such that every id the table has assigned keeps its home, also once its row is
gone, and such that rows, sessions and what each request carries (its actor, its
target, the sessions it has listed) agree with it. `SafeStep` is what a step of
a request does to it: the tables stay well shaped, ids keep their homes, only
rows of the request's workspace change, and what the request carries next agrees
again. There is a lemma of this form for each step; creating a member is the
only one that extends `home`.

#### What holds when one request decides at a time

Under `DisciplinedSpec`, for every number of workspaces, members and
requests. The hypothesis is one the program does not enforce; without it both
fail, as `members_race_admins` and `members_race_login` show.

* `AdminsStay`: `DisciplinedSpec => []LastAdminStays`.
* `SignsOutAll`: `DisciplinedSpec => SignedOut`.

Each is a check by one query and a write by a later one, so that the invariant
has to carry what the request has learned until it acts: `Knows` says, point by
point, that its target can still be spared, and that every session to be ended
and not yet ended is on its list. `DisciplineInv` joins it to `TenancyInv` and
`LastAdminStays`. That it is kept rests on the tenancy: a request of another
workspace changes nothing that `Knows` looks at, and the deciding requests of
this one wait.

### OnboardingProofs — sign-up and the demo book

Under `OnboardingSpec`, with no discipline: sign-ups overlap and break off, the
server starts any number of times and companies are deleted in between.

* `TypeCorrect`: `OnboardingSpec => []OnboardingTypeOK`.
* `Founded`: `OnboardingSpec => []FoundedOnce`. The uniqueness of slugs is the
  database's; that an account has no second founder, and not another's, needs
  `SignUpInv`: the workspace a sign-up has inserted is nobody else's (`OneEach`)
  and is as far as its handler is (`Progress`).
* `SeededOnce`: `OnboardingSpec => []DemoOnce`, from `BookInv`: all companies
  are of the latest attempt, which began when there were none, and in one
  workspace, and those it has yet to write are not there (`LatestOnly`).
* `HangsTogether`: `OnboardingSpec => []DemoHangsTogether`. Rows of abandoned
  attempts stay behind, so that each row has to refer to rows of its own attempt:
  while the book is written, all it has written is there (`SoFar`), and `seed.rs`
  writes a row after those it refers to; a company that goes is gone from the
  references of every row.

### SignInProofs — the throttle, the second factor, the sweep

* `TypeCorrect`: `SignInSpec => []SignInTypeOK`.
* `SweepsLate`: `SignInSpec => SweptLate`, whatever else is under way. What the
  sweep has listed stays past its grace until it is deleted because nothing is
  served before the sweep is over (`Quiet`) and an id is one session's.
* `AsksForCode`: `SignInSpec => FactorHolds`, for any number of requests under way,
  of one name or of several: `FactorInv` says that past
  the code one was given, if the request's lookup found the factor on.
* `Throttles`: `DisciplinedSpec => Throttled`, the refinement of Lockout, one
  lemma per action: `CheckLock` is `Try`; a write that counts, `Fail`; one that
  clears, `Succeed`; other ends of a request, `GiveUp`; `Restart`, `Stop`. It
  needs that a name has one row (`OneRow`) and that the row a request has read is
  as it read it (`Tracks`). The attempt at a proof found that Lockout had no step
  for a restart while two names were under judgement, which a run with one
  request at a time cannot show; `Stop` is that step.

### BrowserProofs — forms and cookies

For every number of tabs and sessions, with answers late or lost.

* `StaleFormsRefused`: `BrowserSpec => FormsGoStale`, for any number of requests
  under way.
* `FreshFormsAccepted`: `BrowserSpec => FormsStillSubmit`, with one request under way
  (`Together = 1`). `OneToken`: a token that is fresh, in a tab or in a form under
  way, is the one of the jar, whose cookie outlives it; an answer brings the jar a
  new one only if the jar's is not fresh.
  With two it fails, as said under Browser.
* `StaysSignedIn`: `BrowserSpec => SignInSticks`, for any number of requests under
  way. `OneSession`: an answer carries the cookie its request came with, and one
  that changes it finds that session over, or signs out.

* `BrowserTypeCorrect`: `BrowserSpec => []BrowserTypeOK`, for any number of requests
  under way. `BrowserTypeOK` bounds the values of tokens by what is enough for a
  new one to be minted at any time (`SomeValueFree`): with n tabs there are 2n + 2
  values, and the jar, each tab and each message hold one at most. That a message
  holds one, although it has a cookie and a form, or a cookie and a page, is what
  the strengthening `AllOwned` says: the form's token is its tab's, the page's is
  the cookie's it came with, unless there is none.

Of ReturnTo, for every address, list of filters and cursor, of any length:

* `GetsBack`: `ReturnToSpec => []ComesBack`. Read from the left, what `urlencode` writes
  leads `percent_decode` from no escape to no escape, with the byte it stands for
  (`ReadsByte`); it has no ampersand and no equals sign, so that the query is
  one part with one value (`OneField`); and what was safe and trimmed is so again
  (`StaysSafe`).
* `LinksKeep`: `ReturnToSpec => []LinksKeepFilters`. `QueryHolds` says what fields a
  query string has once written, and `LinkHolds` what is left of them in a link:
  the parts split off are those joined (`ItemsAre`, `CutsPast`), and a part is
  dropped by its key alone (`KeepsOthers`).

### ValuesProofs — dates, amounts, slugs, the prompt

* `CountsDays`: `DatesSpec => []CalendarAgrees`. Every day has digits in the
  calendar's own system (`InYearAt`: its century, group of four years, year and
  day, from March on), the code's divisions find them, and the next day's digits
  are tomorrow's.
* `AcceptsDates`: `DatesSpec => []OnlyRealDates`: no month has a day the round
  trip does not return, and none is returned that its month has not.
* `DatesKept`: `DealFormSpec => []DateShownIsDateTyped`, if no zone is ever behind
  Greenwich (`East`; behind it the property fails, `deals_west`) and one edit form is
  open (`OneEditor`; of two, the one saved last writes what it was filled with).
* `ReadsTheNearestCent`: `MoneySpec => []MoneyNearest`, for texts of any length and
  integers of any width. A plain number is split where its only point is
  (`NumberCut`), its digits are evaluated from the left (`Evaluation`), and the
  three checks against the width refuse exactly what the last would (`SumIs`).
* `WritesAndReadsBack`: `MoneySpec => []MoneyRoundTrips`. The digits of a number have
  its value (`DecimalValue`, by induction over its tens), what is read depends
  only on what is left when separators are dropped (`ReadsBack`), and that is
  the same of both ways of writing an amount (`Written`). That every fourth
  place from the right is a separator is proved from the left, one digit at a
  time (`OneGroupDigitMore`): `SetApartUpTo` counts the places still to come. The
  smallest amount an integer holds is left out: it is read without its sign first,
  and that does not fit.
* `SlugsWellFormed`: `SlugSpec => []SlugWellFormed`. `Shape` is what the loop keeps: a
  hyphen is written only with the letter after it.
* `SlugsFindAgain`: `SlugSpec => []SlugFindsAgain`. Whatever the loop holds is the
  slug of itself (`SlugsAgain`), and a name and another spelling of it leave the
  loop with the same slug after every character (`AlikeCharacter`), although one
  may be about to write a hyphen where the other is not, as long as nothing has
  been written yet.
* `TellsTruncation`: `PromptSpec => []TruncationTold`. `Told` is what render's loop
  keeps (`LogTold`): what was sent is what came first, its size is what it adds up
  to, and the flag is set at the first line that did not fit. As the log is in
  order of time, what is left out is the newest of it.
* `CeilingIsOfTheLog`: `PromptSpec => []OnlyTheHeadOverruns`: the block is longer than
  the ceiling exactly when what comes before the log is, and then nothing of the
  log is sent.

### ViewsProofs — page by page, the dashboard, the search, a briefing

Of Pages, for every table, list, page size, bookmark and number of writes.

* `WalksEveryRow`: `PagesSpec => []EveryRowOnce`, if the sort column tells rows
  apart (`Distinct`; with namesakes it fails, `pages_ties`). `PagesInv` says
  where the walk is: a row is shown by the page its rank falls on, so a row that
  was shown ranks below the end of this page as long as nothing was inserted,
  and one that was not ranks above it as long as nothing was deleted.
* `GoesBack`: `PagesSpec => BackSkipsNothing`, with ties as well.

Of Dashboard, for any finite sets of deals and stages, any worths and any number of writes:

* `FiguresAgree`: `DashboardSpec => []DashboardAgrees`. `DashboardInv` says of
  each query what it gave: no further from what it would give now than the
  writes since. Each write moves a count by one and a sum by `Swing` at most
  (`OneWrite`), a foreign one nothing (`ForeignWrite`), and the table of stages
  adds up to what one query over all of them gives (`StagesAddUp`). The lemmas
  this needs are about sums over finite sets (`Sums`, `SumsTogether`): that the
  fold behind `SumOver` takes its elements in an order nobody knows and it does
  not matter.

Of Search, for terms and texts of any length:

* `SearchFindsTheTerm`: `SearchSpec => []FindsTheTermItself`. Read up to somewhere in
  the escaped term, the pattern leads to exactly the places of the text at which
  an occurrence of that much of the term ends (`After`).

Of Briefings, for replies of any number and length of lines, JSON or plain:

* `BriefingsKept`: `BriefingSpec => []BriefingKept`. What is neither a marker nor a
  blank goes through every loop untouched (`InkDropped`, `InkTrimmed`, `InkLines`,
  `InkShown`, `InkStored`), and a plain bullet is the only line of itself
  (`PlainShown`).
* `BriefingsSaid`: `BriefingSpec => []BriefingSaid`. A stored briefing shows what its
  bullets show one by one (`StoredIs`), because a line break cuts what is before
  from what is after (`LinesJoin`); trimming a bullet, which may take away whole
  lines, changes nothing that is shown (`TrimmedReads`: read from the left, the
  two texts are `Alike`, their last lines up to blanks); and what is left of an
  entry is trimmed already, so that its end is the end of its line (`BareIs`).

### Loops — what recursion and loops define

The induction theorems of the library take an operator as a parameter. Loops has
them for sets instead (`Induction`, `SetInduction`, `SeqInduction`): a set that
holds 0 and the successor of what it holds has all natural numbers, because a
finite set has no injection into a proper part of itself. `Loop` and
`SizedRecursion` say that the equations of a recursive function have a solution,
without which its definition says nothing to a prover. `LoopFolds` and `Eaching`
are what the proofs about texts use: a fold over a sequence does one step more
for one item more, and goes on over a concatenation where it left off.
`GreatestOfSome` and `LeastOfSome` find the last and the first place at which the
code cuts, `CutsText` and `CutsPast` say what it cuts a text into.

### Only model-checked

* `EveryRequestEnds` and `NavigationEnds`: liveness, which the prover does not do.
* `TypeOK` of MCFront by that name: it is `Book!TypeOK /\ SignInTypeOK /\
  BrowserTypeOK /\ OnboardingTypeOK`, and each is proved of its own specification.

## Where code and documents disagree

| Run | What it shows |
|---|---|
| `records_overlap` | a reference checked before a destroy is written after it (`deals.rs:385`, `companies.rs:524`) |
| `members_race_admins` | two administrators close each other (`README.md:220`) |
| `members_race_login` | a sign-in with the old password outlives the change (`login.rs:548`) |
| `members_race_names` | two members of one name, each found free (`access.rs:173`, `README.md:175`) |
| `members_race_history` | an activity whose author is gone (`admin.rs:787`, `README.md:223`) |
| `deals_west` | west of Greenwich a date is shown as the day before (`domain.rs:485`, `deals.rs:402`) |
| `pages_ties` | rows of one name appear on two pages or none (`pagination.rs:22`) |
| `front` (`OnlyTheHeadOverruns`) | a long notes field does push the prompt past its ceiling (`ai.rs:43`): only the log is held to it |

Read, not run: the layout shows a notice with `flash::peek`, and `flash::take`,
which clears its cookie, is called nowhere, so that a notice is on every page for
a minute, and not only on the next one (`flash.rs:5`, `flash.rs:72`). `render`
returns whether it left something out so that its caller can tell (`ai.rs:261`),
and the caller drops the flag (`ai.rs:479`). The ceiling of the prompt is given in
characters (`ai.rs:43`) and compared with a number of bytes.

## Not modelled

* Notices (`flash.rs`): one cookie that is set, shown and runs out; see above.
* Configuration (`config.rs`): environment variables, each parsed by itself and
  refused when malformed, once, before anything else happens. What the program
  uses of them are CONSTANTS here.
* Rendering (`views.rs` but for its links, the `view!` bodies of the pages): no
  state, and nothing but layout to be wrong.
* Passwords and tokens: hashing, randomness and comparison are taken as ideal; a
  password is right or wrong, a token equal or not. The arithmetic of TOTP codes is
  left to the unit tests of `auth.rs`.
* The provider's JSON and the HTTP client, `toasty`, PostgreSQL (but for `ILIKE`,
  uniqueness and IDENTITY columns), zone files.
* Deployment scripts, the command line, migrations.
* Usernames and display names: their checks are of one text and store it as it is.

## Plan

1. **Records** (done, proved): the book.
2. **Members** (done, proved): the roster, with the races and, disciplined,
   without.
3. **SignIn**, **Lockout**, **Browser**, **Onboarding**, **DealForm**,
   **Pages** and **Dates** (done, proved but for what is named above).
4. **Dashboard**, **Money**, **Slug**, **Search**, **Prompt**, **ReturnTo** and
   **Briefings** (done, proved).
