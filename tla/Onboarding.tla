----------------------------- MODULE Onboarding ------------------------------
(***************************************************************************)
(* How a database fills up first: sign-up, which founds a workspace in     *)
(* several queries, and the start of the server, which puts the demo book  *)
(* into it row by row.  Any of it may stop half-way, and be started again. *)
(*                                                                         *)
(* Left out: what the forms say (names and passwords that are refused      *)
(* change nothing), the contents of the demo rows but for what they refer  *)
(* to, and what members do to the book (Records) but for deleting a        *)
(* company, which decides whether the demo book is written again.          *)
(***************************************************************************)
EXTENDS Naturals, Sequences, FiniteSets

CONSTANTS
  Applicants,  \* sign-ups being handled at the same time
  Slugs,       \* sign-in names of workspaces
  MaxAccount,  \* bound: ids of the accounts table (and of the users table)
  MaxBatch,    \* bound: how often the demo book is begun
  Written      \* bound: which rows of the demo book are written

VARIABLES
  accounts,  \* accounts[a]: a row or NoRow, the last id first assigned last
  users,     \* users[u]: the workspace of member u, or Unset
  signedIn,  \* members who have been signed in by their sign-up
  rows,      \* rows of the demo book
  slot,      \* slot[r]: the sign-up in it
  process,   \* what the server process is doing
  batch,     \* which attempt at the demo book this is
  todo,      \* the demo rows to be inserted yet, in the order of their numbers
  owner      \* whom the demo book is attributed to

onboarding == <<accounts, users, signedIn, rows, slot, process, batch, todo, owner>>
server == <<rows, process, batch, todo, owner>>

Unset == 0
Ids == 1 .. MaxAccount
NoRow == [slug |-> Unset, by |-> Unset]

-----------------------------------------------------------------------------
(* The demo book, in the order it is written.  A row refers to rows before *)
(* it, by their number.                                                    *)

Company == [table |-> "companies", refs |-> {}]
Contact(refs) == [table |-> "contacts", refs |-> refs]
Deal(refs) == [table |-> "deals", refs |-> refs]
Activity(refs) == [table |-> "activities", refs |-> refs]

Companies == <<Company, Company, Company, Company, Company>>
Contacts == <<Contact({1}), Contact({2}), Contact({2}), Contact({3}), Contact({4}),
              Contact({}), Contact({5})>>
Deals == <<Deal({1, 6}), Deal({2, 7}), Deal({2, 8}), Deal({3, 9}), Deal({4, 10}),
           Deal({4, 10}), Deal({5})>>
Activities == <<Activity({1, 6, 13}), Activity({1, 6, 13}), Activity({2, 7, 14}),
                Activity({2, 7, 14}), Activity({3, 9, 16}), Activity({4, 10, 17}),
                Activity({4, 10, 17}), Activity({})>>

Demo == Companies \o Contacts \o Deals \o Activities

\* What the constants have to be: rows are written after those they refer to.
OnboardingInstance ==
  /\ MaxAccount \in Nat /\ MaxBatch \in Nat /\ Unset \notin Slugs
  /\ Written \subseteq DOMAIN Demo /\ \A n \in Written : Demo[n].refs \subseteq Written

\* A row as it is written, and as deleting companies leaves it.
DemoRow == [n : DOMAIN Demo, batch : 1 .. MaxBatch, acct : Ids, refs : SUBSET DOMAIN Demo]

InTable(table) == {d \in rows : Demo[d.n].table = table}

-----------------------------------------------------------------------------
(* Sign-up.                                                                *)

Empty == [pc |-> "idle", slug |-> Unset, acct |-> Unset, user |-> Unset]
Leave(r) == slot' = [slot EXCEPT ![r] = Empty]

Taken(slug) == \E a \in Ids : accounts[a].slug = slug
Fresh(a) == accounts[a] = NoRow /\ \A b \in Ids : b < a => accounts[b] # NoRow

Apply(r, slug) ==
  /\ process = "serving" /\ slot[r].pc = "idle"
  /\ slot' = [slot EXCEPT ![r] = [Empty EXCEPT !.pc = "taken", !.slug = slug]]
  /\ UNCHANGED <<accounts, users, signedIn, server>>

CheckSlug(r) ==
  /\ slot[r].pc = "taken"
  /\ IF Taken(slot[r].slug) THEN Leave(r) ELSE slot' = [slot EXCEPT ![r].pc = "account"]
  /\ UNCHANGED <<accounts, users, signedIn, server>>

\* Mutation: the column is not unique.
InsertAccountAgain(r) ==
  /\ slot[r].pc = "account"
  /\ \E a \in Ids : /\ Fresh(a)
                    /\ accounts' = [accounts EXCEPT ![a] = [slug |-> slot[r].slug, by |-> Unset]]
                    /\ slot' = [slot EXCEPT ![r].pc = "founder", ![r].acct = a]
  /\ UNCHANGED <<users, signedIn, server>>

\* The column is unique: a second insert of a slug fails.
InsertAccount(r) ==
  /\ slot[r].pc = "account"
  /\ IF Taken(slot[r].slug)
     THEN Leave(r) /\ UNCHANGED accounts
     ELSE \E a \in Ids :
            /\ Fresh(a)
            /\ accounts' = [accounts EXCEPT ![a] = [slug |-> slot[r].slug, by |-> Unset]]
            /\ slot' = [slot EXCEPT ![r].pc = "founder", ![r].acct = a]
  /\ UNCHANGED <<users, signedIn, server>>

InsertFounder(r) ==
  /\ slot[r].pc = "founder"
  /\ \E u \in Ids : /\ users[u] = Unset /\ \A v \in Ids : v < u => users[v] # Unset
                    /\ users' = [users EXCEPT ![u] = slot[r].acct]
                    /\ slot' = [slot EXCEPT ![r].pc = "founded", ![r].user = u]
  /\ UNCHANGED <<accounts, signedIn, server>>

RecordFounder(r) ==
  /\ slot[r].pc = "founded"
  /\ accounts' = [accounts EXCEPT ![slot[r].acct].by = slot[r].user]
  /\ slot' = [slot EXCEPT ![r].pc = "mint"]
  /\ UNCHANGED <<users, signedIn, server>>

SignFounderIn(r) ==
  /\ slot[r].pc = "mint"
  /\ signedIn' = signedIn \cup {slot[r].user}
  /\ Leave(r)
  /\ UNCHANGED <<accounts, users, server>>

BreakOff(r) ==
  /\ slot[r].pc # "idle"
  /\ Leave(r)
  /\ UNCHANGED <<accounts, users, signedIn, server>>

-----------------------------------------------------------------------------
(* The process.                                                            *)

\* It stops, or is stopped, at any moment, and is started again.
StartAgain ==
  /\ process' = "starting" /\ todo' = {} /\ owner' = Unset
  /\ slot' = [r \in Applicants |-> Empty]
  /\ UNCHANGED <<accounts, users, signedIn, rows, batch>>

\* Mutation: every start writes the demo book.
BeginSeedAgain ==
  /\ process = "starting"
  /\ IF \A u \in Ids : users[u] = Unset
     THEN process' = "serving" /\ UNCHANGED <<batch, todo, owner>>
     ELSE /\ batch < MaxBatch
          /\ process' = "seeding" /\ batch' = batch + 1 /\ todo' = Written
          /\ \E u \in Ids : /\ users[u] # Unset /\ \A v \in Ids : v < u => users[v] = Unset
                            /\ owner' = u
  /\ UNCHANGED <<accounts, users, signedIn, rows, slot>>

\* seed_demo_data and demo_owner: nothing to do when there is a company or
\* nobody to attribute the book to; otherwise the member with the lowest id.
BeginSeed ==
  /\ process = "starting"
  /\ IF InTable("companies") # {} \/ \A u \in Ids : users[u] = Unset
     THEN process' = "serving" /\ UNCHANGED <<batch, todo, owner>>
     ELSE /\ batch < MaxBatch
          /\ process' = "seeding" /\ batch' = batch + 1 /\ todo' = Written
          /\ \E u \in Ids : /\ users[u] # Unset /\ \A v \in Ids : v < u => users[v] = Unset
                            /\ owner' = u
  /\ UNCHANGED <<accounts, users, signedIn, rows, slot>>

Seed ==
  /\ process = "seeding"
  /\ \E n \in todo :
       /\ \A m \in todo : n <= m
       /\ rows' = rows \cup {[n |-> n, batch |-> batch, acct |-> users[owner],
                              refs |-> Demo[n].refs]}
       /\ todo' = todo \ {n}
  /\ UNCHANGED <<accounts, users, signedIn, slot, process, batch, owner>>

EndSeed ==
  /\ process = "seeding" /\ todo = {}
  /\ process' = "serving"
  /\ UNCHANGED <<accounts, users, signedIn, rows, slot, batch, todo, owner>>

\* Mutation: what hung on the company is left as it is.
DeleteCompanyAlone ==
  /\ process = "serving"
  /\ \E c \in InTable("companies") :
       (\A d \in InTable("companies") : c.n <= d.n) /\ rows' = rows \ {c}
  /\ UNCHANGED <<accounts, users, signedIn, slot, process, batch, todo, owner>>

\* companies::destroy: what hung on the company is detached, and it is deleted.
\* Bound: the oldest first.
DeleteCompany ==
  /\ process = "serving"
  /\ \E c \in InTable("companies") :
       /\ \A d \in InTable("companies") : c.n <= d.n
       /\ rows' = {IF d.batch = c.batch THEN [d EXCEPT !.refs = @ \ {c.n}] ELSE d :
                    d \in rows \ {c}}
  /\ UNCHANGED <<accounts, users, signedIn, slot, process, batch, todo, owner>>

-----------------------------------------------------------------------------
OnboardingInit ==
  /\ accounts = [a \in Ids |-> NoRow] /\ users = [u \in Ids |-> Unset]
  /\ signedIn = {} /\ rows = {} /\ slot = [r \in Applicants |-> Empty]
  /\ process = "starting" /\ batch = 0 /\ todo = {} /\ owner = Unset

SignUp(r) ==
  \/ \E slug \in Slugs : Apply(r, slug)
  \/ CheckSlug(r) \/ InsertAccount(r) \/ InsertFounder(r) \/ RecordFounder(r)
  \/ SignFounderIn(r) \/ BreakOff(r)

OnboardingNext ==
  \/ \E r \in Applicants : SignUp(r)
  \/ StartAgain \/ BeginSeed \/ Seed \/ EndSeed \/ DeleteCompany

OnboardingSpec == OnboardingInit /\ [][OnboardingNext]_onboarding

-----------------------------------------------------------------------------
(* The tables hold what sign-up and seeding put in them.                   *)
OnboardingTypeOK ==
  /\ accounts \in [Ids -> [slug : Slugs \cup {Unset}, by : Ids \cup {Unset}]]
  /\ users \in [Ids -> Ids \cup {Unset}] /\ signedIn \subseteq Ids
  /\ rows \subseteq DemoRow
  /\ slot \in [Applicants -> [pc : {"idle", "taken", "account", "founder", "founded", "mint"},
                        slug : Slugs \cup {Unset}, acct : Ids \cup {Unset},
                        user : Ids \cup {Unset}]]
  /\ process \in {"starting", "seeding", "serving"} /\ batch \in 0 .. MaxBatch
  /\ todo \subseteq Written /\ owner \in Ids \cup {Unset}

(* However sign-ups overlap or stop, a slug finds one workspace, a member  *)
(* belongs to one that is there, at most one member founded it, and the    *)
(* one it names and whoever was signed in is its own (signup.rs: signup).  *)
FoundedOnce ==
  /\ \A a, b \in Ids : accounts[a].slug = accounts[b].slug /\ accounts[a] # NoRow => a = b
  /\ \A u \in Ids : users[u] # Unset => accounts[users[u]] # NoRow
  /\ \A u, v \in Ids : users[u] = users[v] /\ users[u] # Unset => u = v
  /\ \A a \in Ids : accounts[a].by # Unset => users[accounts[a].by] = a
  /\ \A u \in signedIn : users[u] # Unset /\ accounts[users[u]].by = u

(* No demo company is there twice, and all of them are in one workspace,   *)
(* whenever seeding was cut off and however often the server started       *)
(* (seed.rs: seed_demo_data).                                              *)
DemoOnce ==
  \A c, d \in InTable("companies") : c.acct = d.acct /\ (c.n = d.n => c = d)

\* A row names the company that the contact or the deal it names does.
CompanyOf(d) == {n \in d.refs : Demo[n].table = "companies"}
Agree(d, e) == e.table # "companies" => CompanyOf(e) = CompanyOf(d)

(* What a demo row refers to is there, in its workspace, and agrees with   *)
(* it: a deal or an activity names the company its contact and its deal    *)
(* name.  Cutting seeding off or deleting companies does not change that   *)
(* (seed.rs; companies.rs destroy).                                        *)
DemoHangsTogether ==
  /\ \A n \in DOMAIN Demo : \A m \in Demo[n].refs : m < n /\ Agree(Demo[n], Demo[m])
  /\ \A d \in rows : \A n \in d.refs :
       \E e \in rows : /\ e.n = n /\ e.batch = d.batch /\ e.acct = d.acct
                       /\ Agree([table |-> Demo[d.n].table, refs |-> d.refs],
                                [table |-> Demo[n].table, refs |-> e.refs])
=============================================================================
