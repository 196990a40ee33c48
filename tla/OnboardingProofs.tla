--------------------------- MODULE OnboardingProofs ---------------------------
(* Theorems about Onboarding, for every number of sign-ups in flight, slugs, *)
(* workspaces and attempts at the demo book, wherever a sign-up or the       *)
(* server stops.  OnboardingInstance is what the constants have to be.       *)
EXTENDS Onboarding, TLAPS

-----------------------------------------------------------------------------
(* Sign-up.                                                                  *)

\* From the insert of its account to its end a sign-up has a workspace.
Founding(q) == q.pc \in {"founder", "founded", "mint"}

\* How far the workspace of a sign-up is, while nobody else works on it.
Progress(q) ==
  /\ q.pc \in {"taken", "account"} => q.slug \in Slugs
  /\ Founding(q) => q.acct \in Ids /\ accounts[q.acct] # NoRow
  /\ q.pc = "founder" => \A u \in Ids : users[u] # q.acct
  /\ q.pc \in {"founded", "mint"} => q.user \in Ids /\ users[q.user] = q.acct
  /\ q.pc = "mint" => accounts[q.acct].by = q.user

OneEach ==
  \A r, p \in Applicants : Founding(slot[r]) /\ Founding(slot[p]) /\ slot[r].acct = slot[p].acct => r = p

-----------------------------------------------------------------------------
(* The demo book.                                                            *)

\* While the book is written, whom it is attributed to has a workspace.
Attributed == process = "seeding" => owner \in Ids /\ users[owner] # Unset /\ batch \in 1 .. MaxBatch

\* The companies that are there are of the last attempt, and of one workspace;
\* the ones to be written yet are not there.
LatestOnly ==
  /\ \A c \in InTable("companies") : c.batch = batch
  /\ process = "seeding" =>
       \A c \in InTable("companies") : c.acct = users[owner] /\ c.n \notin todo

\* Nothing is deleted while the book is written: what was written is all there.
SoFar ==
  process = "seeding" =>
    \A n \in Written \ todo :
      [n |-> n, batch |-> batch, acct |-> users[owner], refs |-> Demo[n].refs] \in rows

-----------------------------------------------------------------------------
(* Sign-up, by itself: the process only takes its requests away.             *)

Request == [pc : {"idle", "taken", "account", "founder", "founded", "mint"},
            slug : Slugs \cup {Unset}, acct : Ids \cup {Unset}, user : Ids \cup {Unset}]

SignUpTypes ==
  /\ accounts \in [Ids -> [slug : Slugs \cup {Unset}, by : Ids \cup {Unset}]]
  /\ users \in [Ids -> Ids \cup {Unset}] /\ signedIn \subseteq Ids
  /\ slot \in [Applicants -> Request]

SignUpInv ==
  SignUpTypes /\ FoundedOnce /\ (\A r \in Applicants : Progress(slot[r])) /\ OneEach

\* An empty slot founds nothing.
LEMMA IdleRequest == Empty \in Request /\ ~ Founding(Empty) /\ Empty.pc = "idle"
BY DEF Empty, Request, Founding, Unset

\* No workspace is called Unset.
LEMMA NoneIsNoId == Unset \notin Ids
BY DEF Unset, Ids

\* A step of a sign-up that founds nothing, yet or any more.
LEMMA SlotStep ==
  ASSUME SignUpInv, UNCHANGED <<accounts, users, signedIn>>, NEW r \in Applicants,
         NEW q \in Request, ~ Founding(q), q.pc # "idle" => q.slug \in Slugs,
         slot' = [slot EXCEPT ![r] = q]
  PROVE  SignUpInv'
<1>1. /\ slot' \in [Applicants -> Request] /\ slot'[r] = q
      /\ \A p \in Applicants \ {r} : slot'[p] = slot[p]
  BY DEF SignUpInv, SignUpTypes
<1>2. SignUpTypes' /\ FoundedOnce'
  BY <1>1 DEF SignUpInv, SignUpTypes, FoundedOnce
<1>3. \A p \in Applicants : Progress(slot[p])'
  BY <1>1 DEF SignUpInv, Progress, Founding
<1>4. OneEach'
  BY <1>1 DEF SignUpInv, OneEach, Founding
<1> QED
  BY <1>2, <1>3, <1>4 DEF SignUpInv

\* It arrives, finds its slug taken or free, is signed off, or stops.
LEMMA SlotSteps ==
  ASSUME SignUpInv, NEW r \in Applicants,
         BreakOff(r) \/ CheckSlug(r) \/ \E slug \in Slugs : Apply(r, slug)
  PROVE  SignUpInv'
<1>1. slot[r] \in Request /\ UNCHANGED <<accounts, users, signedIn>>
  BY DEF SignUpInv, SignUpTypes, BreakOff, CheckSlug, Apply
<1>2. CASE Leave(r)
  BY <1>1, <1>2, IdleRequest, SlotStep DEF Leave
<1>3. CASE CheckSlug(r) /\ slot' = [slot EXCEPT ![r].pc = "account"]
  <2>1. [slot[r] EXCEPT !.pc = "account"] \in Request
    BY <1>1 DEF Request
  <2>2. /\ ~ Founding([slot[r] EXCEPT !.pc = "account"])
        /\ [slot[r] EXCEPT !.pc = "account"].slug \in Slugs
    BY <1>1, <1>3 DEF Founding, Request, SignUpInv, Progress, CheckSlug
  <2>3. slot' = [slot EXCEPT ![r] = [slot[r] EXCEPT !.pc = "account"]]
    BY <1>3 DEF SignUpInv, SignUpTypes
  <2> QED
    BY <1>1, <2>1, <2>2, <2>3, SlotStep
<1>4. ASSUME NEW slug \in Slugs, Apply(r, slug)
      PROVE  SignUpInv'
  <2>1. [Empty EXCEPT !.pc = "taken", !.slug = slug] \in Request
    BY DEF Empty, Request
  <2>2. /\ ~ Founding([Empty EXCEPT !.pc = "taken", !.slug = slug])
        /\ [Empty EXCEPT !.pc = "taken", !.slug = slug].slug \in Slugs
    BY DEF Founding, Empty
  <2> QED
    BY <1>1, <1>4, <2>1, <2>2, SlotStep DEF Apply
<1> QED
  BY <1>2, <1>3, <1>4 DEF BreakOff, CheckSlug

\* The insert of an account whose slug no other bears; a second one fails.
LEMMA InsertAccountStep ==
  ASSUME Unset \notin Slugs, SignUpInv, NEW r \in Applicants, InsertAccount(r)
  PROVE  SignUpInv'
<1>1. slot[r] \in Request /\ slot[r].slug \in Slugs /\ UNCHANGED <<users, signedIn>>
  BY DEF SignUpInv, SignUpTypes, InsertAccount, Progress
<1>2. CASE Leave(r) /\ UNCHANGED accounts
  BY <1>1, <1>2, IdleRequest, SlotStep DEF Leave
<1>3. ASSUME NEW a \in Ids, Fresh(a), ~ Taken(slot[r].slug),
             accounts' = [accounts EXCEPT ![a] = [slug |-> slot[r].slug, by |-> Unset]],
             slot' = [slot EXCEPT ![r].pc = "founder", ![r].acct = a]
      PROVE  SignUpInv'
  <2>1. accounts[a] = NoRow /\ \A b \in Ids : accounts[b].slug # slot[r].slug
    BY <1>3 DEF Fresh, Taken
  <2>2. /\ accounts'[a] = [slug |-> slot[r].slug, by |-> Unset]
        /\ \A b \in Ids \ {a} : accounts'[b] = accounts[b]
        /\ users' = users /\ signedIn' = signedIn
    BY <1>1, <1>3 DEF SignUpInv, SignUpTypes
  <2>3. /\ slot'[r].pc = "founder" /\ slot'[r].acct = a /\ slot'[r].user = slot[r].user
        /\ slot'[r].slug = slot[r].slug /\ slot'[r] \in Request
        /\ \A p \in Applicants \ {r} : slot'[p] = slot[p]
    BY <1>1, <1>3 DEF SignUpInv, SignUpTypes, Request
  <2>4. accounts'[a] # NoRow /\ NoRow.by = Unset
    BY <1>1, <2>2 DEF NoRow
  <2>5. \A u \in Ids : users[u] # a
    BY <1>3, <2>1, NoneIsNoId DEF SignUpInv, SignUpTypes, FoundedOnce
  <2>6. SignUpTypes'
    <3>1. [slug |-> slot[r].slug, by |-> Unset] \in [slug : Slugs \cup {Unset}, by : Ids \cup {Unset}]
      BY <1>1 DEF Request
    <3> QED
      BY <1>3, <2>2, <2>3, <3>1 DEF SignUpInv, SignUpTypes
  <2>7. FoundedOnce'
    <3>1. (\A b, c \in Ids : accounts[b].slug = accounts[c].slug /\ accounts[b] # NoRow => b = c)'
      BY <2>1, <2>2, <2>4 DEF SignUpInv, FoundedOnce
    <3>2. (\A u \in Ids : users[u] # Unset => accounts[users[u]] # NoRow)'
      BY <2>2, <2>5 DEF SignUpInv, SignUpTypes, FoundedOnce
    <3>3. (\A u, v \in Ids : users[u] = users[v] /\ users[u] # Unset => u = v)'
      BY <2>2 DEF SignUpInv, FoundedOnce
    <3>4. (\A b \in Ids : accounts[b].by # Unset => users[accounts[b].by] = b)'
      BY <2>2 DEF SignUpInv, FoundedOnce
    <3>5. (\A u \in signedIn : users[u] # Unset /\ accounts[users[u]].by = u)'
      BY <2>2, <2>5 DEF SignUpInv, SignUpTypes, FoundedOnce
    <3> QED
      BY <3>1, <3>2, <3>3, <3>4, <3>5 DEF FoundedOnce
  <2>8. ASSUME NEW p \in Applicants PROVE Progress(slot[p])'
    <3>1. CASE p = r
      BY <2>2, <2>3, <2>4, <2>5, <3>1, <1>3 DEF Progress, Founding
    <3>2. CASE p # r
      <4>1. Progress(slot[p]) /\ slot'[p] = slot[p]
        BY <2>3, <3>2 DEF SignUpInv
      <4>2. Founding(slot[p]) => slot[p].acct # a
        BY <2>1, <4>1 DEF Progress
      <4> QED
        BY <2>2, <4>1, <4>2 DEF Progress, Founding
    <3> QED
      BY <3>1, <3>2
  <2>9. OneEach'
    <3>1. \A p \in Applicants \ {r} : Founding(slot[p]) => slot[p].acct # a
      BY <2>1 DEF SignUpInv, Progress
    <3> QED
      BY <2>3, <3>1 DEF SignUpInv, OneEach, Founding
  <2> QED
    BY <2>6, <2>7, <2>8, <2>9 DEF SignUpInv
<1> QED
  BY <1>2, <1>3 DEF InsertAccount

\* The founder: nobody is in the workspace yet, and nobody else is about to be.
LEMMA InsertFounderStep ==
  ASSUME SignUpInv, NEW r \in Applicants, InsertFounder(r)
  PROVE  SignUpInv'
<1>1. PICK u \in Ids : /\ users[u] = Unset /\ users' = [users EXCEPT ![u] = slot[r].acct]
                       /\ slot' = [slot EXCEPT ![r].pc = "founded", ![r].user = u]
  BY DEF InsertFounder
<1>2. /\ slot[r] \in Request /\ slot[r].pc = "founder" /\ UNCHANGED <<accounts, signedIn>>
      /\ slot[r].acct \in Ids /\ accounts[slot[r].acct] # NoRow
      /\ \A v \in Ids : users[v] # slot[r].acct
  BY DEF SignUpInv, SignUpTypes, InsertFounder, Progress, Founding
<1>3. /\ users'[u] = slot[r].acct /\ \A v \in Ids \ {u} : users'[v] = users[v]
      /\ accounts' = accounts /\ signedIn' = signedIn
  BY <1>1, <1>2 DEF SignUpInv, SignUpTypes
<1>4. /\ slot'[r].pc = "founded" /\ slot'[r].acct = slot[r].acct /\ slot'[r].user = u
      /\ slot'[r] \in Request /\ \A p \in Applicants \ {r} : slot'[p] = slot[p]
  BY <1>1, <1>2 DEF SignUpInv, SignUpTypes, Request
<1>5. SignUpTypes'
  BY <1>1, <1>2, <1>3, <1>4 DEF SignUpInv, SignUpTypes
<1>6. FoundedOnce'
  <2>1. (\A v \in Ids : users[v] # Unset => accounts[users[v]] # NoRow)'
    BY <1>2, <1>3 DEF SignUpInv, FoundedOnce
  <2>2. (\A v, w \in Ids : users[v] = users[w] /\ users[v] # Unset => v = w)'
    BY <1>2, <1>3, NoneIsNoId DEF SignUpInv, FoundedOnce
  <2>3. (\A b \in Ids : accounts[b].by # Unset => users[accounts[b].by] = b)'
    BY <1>1, <1>3, NoneIsNoId DEF SignUpInv, SignUpTypes, FoundedOnce
  <2>4. (\A v \in signedIn : users[v] # Unset /\ accounts[users[v]].by = v)'
    BY <1>1, <1>3 DEF SignUpInv, SignUpTypes, FoundedOnce
  <2>5. (\A a, b \in Ids : accounts[a].slug = accounts[b].slug /\ accounts[a] # NoRow => a = b)'
    BY <1>3 DEF SignUpInv, FoundedOnce
  <2> QED
    BY <2>1, <2>2, <2>3, <2>4, <2>5 DEF FoundedOnce
<1>7. ASSUME NEW p \in Applicants PROVE Progress(slot[p])'
  <2>1. CASE p = r
    BY <1>2, <1>3, <1>4, <2>1 DEF Progress, Founding
  <2>2. CASE p # r
    <3>1. Progress(slot[p]) /\ slot'[p] = slot[p]
      BY <1>4, <2>2 DEF SignUpInv
    <3>2. Founding(slot[p]) => slot[p].acct # slot[r].acct
      BY <1>2, <2>2 DEF SignUpInv, OneEach, Founding
    <3> QED
      BY <1>1, <1>3, <3>1, <3>2, NoneIsNoId DEF Progress, Founding
  <2> QED
    BY <2>1, <2>2
<1>8. OneEach'
  BY <1>2, <1>4 DEF SignUpInv, OneEach, Founding
<1> QED
  BY <1>5, <1>6, <1>7, <1>8 DEF SignUpInv

\* Naming the founder in the account.
LEMMA RecordFounderStep ==
  ASSUME SignUpInv, NEW r \in Applicants, RecordFounder(r)
  PROVE  SignUpInv'
<1> DEFINE a == slot[r].acct
<1>1. /\ slot[r] \in Request /\ slot[r].pc = "founded" /\ UNCHANGED <<users, signedIn>>
      /\ a \in Ids /\ accounts[a] # NoRow /\ slot[r].user \in Ids
      /\ users[slot[r].user] = a
  BY DEF SignUpInv, SignUpTypes, RecordFounder, Progress, Founding
<1>2. /\ accounts' = [accounts EXCEPT ![a].by = slot[r].user]
      /\ slot' = [slot EXCEPT ![r].pc = "mint"]
  BY DEF RecordFounder
<1>3. /\ accounts'[a].slug = accounts[a].slug /\ accounts'[a].by = slot[r].user
      /\ \A b \in Ids \ {a} : accounts'[b] = accounts[b]
      /\ users' = users /\ signedIn' = signedIn
  BY <1>1, <1>2 DEF SignUpInv, SignUpTypes
<1>4. /\ slot'[r].pc = "mint" /\ slot'[r].acct = a /\ slot'[r].user = slot[r].user
      /\ slot'[r] \in Request /\ \A p \in Applicants \ {r} : slot'[p] = slot[p]
  BY <1>1, <1>2 DEF SignUpInv, SignUpTypes, Request
<1> HIDE DEF a
<1>5. accounts'[a] # NoRow
  BY <1>1, <1>3, NoneIsNoId DEF NoRow
<1>6. SignUpTypes'
  BY <1>1, <1>2, <1>3, <1>4 DEF SignUpInv, SignUpTypes
<1>7. FoundedOnce'
  <2>1. (\A b, c \in Ids : accounts[b].slug = accounts[c].slug /\ accounts[b] # NoRow => b = c)'
    BY <1>1, <1>3 DEF SignUpInv, FoundedOnce
  <2>2. (\A u \in Ids : users[u] # Unset => accounts[users[u]] # NoRow)'
    BY <1>3, <1>5 DEF SignUpInv, SignUpTypes, FoundedOnce
  <2>3. (\A b \in Ids : accounts[b].by # Unset => users[accounts[b].by] = b)'
    BY <1>1, <1>3 DEF SignUpInv, FoundedOnce
  <2>4. (\A u \in signedIn : users[u] # Unset /\ accounts[users[u]].by = u)'
    <3>1. ASSUME NEW u \in signedIn
          PROVE  users[u] # Unset /\ accounts'[users[u]].by = u
      <4>1. u \in Ids /\ users[u] # Unset /\ accounts[users[u]].by = u
        BY DEF SignUpInv, SignUpTypes, FoundedOnce
      <4>2. users[u] \in Ids
        BY <4>1 DEF SignUpInv, SignUpTypes
      <4>3. users[u] = a => u = slot[r].user
        BY <1>1, <4>1 DEF SignUpInv, FoundedOnce
      <4> QED
        BY <1>3, <4>1, <4>2, <4>3
    <3> QED
      BY <1>3, <3>1
  <2>5. (\A u, v \in Ids : users[u] = users[v] /\ users[u] # Unset => u = v)'
    BY <1>3 DEF SignUpInv, FoundedOnce
  <2> QED
    BY <2>1, <2>2, <2>3, <2>4, <2>5 DEF FoundedOnce
<1>8. ASSUME NEW p \in Applicants PROVE Progress(slot[p])'
  <2>1. CASE p = r
    BY <1>1, <1>3, <1>4, <1>5, <2>1 DEF Progress, Founding
  <2>2. CASE p # r
    <3>1. Progress(slot[p]) /\ slot'[p] = slot[p]
      BY <1>4, <2>2 DEF SignUpInv
    <3>2. Founding(slot[p]) => slot[p].acct # a
      BY <1>1, <2>2 DEF SignUpInv, OneEach, Founding, a
    <3> QED
      BY <1>3, <3>1, <3>2 DEF Progress, Founding
  <2> QED
    BY <2>1, <2>2
<1>9. OneEach'
  BY <1>1, <1>4 DEF SignUpInv, OneEach, Founding, a
<1> QED
  BY <1>6, <1>7, <1>8, <1>9 DEF SignUpInv

\* The founder of the account is signed in.
LEMMA SignFounderInStep ==
  ASSUME SignUpInv, NEW r \in Applicants, SignFounderIn(r)
  PROVE  SignUpInv'
<1>1. /\ slot[r].user \in Ids /\ users[slot[r].user] = slot[r].acct /\ slot[r].acct \in Ids
      /\ accounts[slot[r].acct].by = slot[r].user
  BY DEF SignUpInv, SignFounderIn, Progress, Founding
<1>2. /\ accounts' = accounts /\ users' = users /\ signedIn' = signedIn \cup {slot[r].user}
      /\ slot' = [slot EXCEPT ![r] = Empty]
  BY DEF SignFounderIn, Leave
<1>3. slot' \in [Applicants -> Request] /\ slot'[r] = Empty /\ \A p \in Applicants \ {r} : slot'[p] = slot[p]
  BY <1>2, IdleRequest DEF SignUpInv, SignUpTypes
<1>4. SignUpTypes'
  BY <1>1, <1>2, <1>3 DEF SignUpInv, SignUpTypes
<1>5. FoundedOnce'
  BY <1>1, <1>2, NoneIsNoId DEF SignUpInv, FoundedOnce
<1>6. \A p \in Applicants : Progress(slot[p])'
  BY <1>2, <1>3, IdleRequest DEF SignUpInv, Progress, Founding
<1>7. OneEach'
  BY <1>3, IdleRequest DEF SignUpInv, OneEach
<1> QED
  BY <1>4, <1>5, <1>6, <1>7 DEF SignUpInv

\* Nothing is founded, no slot is busy.
LEMMA InitSignUp == OnboardingInit => SignUpInv
<1> SUFFICES ASSUME OnboardingInit PROVE SignUpInv
  OBVIOUS
<1>1. NoRow \in [slug : Slugs \cup {Unset}, by : Ids \cup {Unset}] /\ NoRow.by = Unset
  BY DEF NoRow
<1>2. SignUpTypes
  BY <1>1, IdleRequest DEF OnboardingInit, SignUpTypes
<1>3. FoundedOnce
  BY <1>1 DEF OnboardingInit, FoundedOnce
<1>4. \A r \in Applicants : slot[r] = Empty
  BY DEF OnboardingInit
<1>5. (\A r \in Applicants : Progress(slot[r])) /\ OneEach
  BY <1>4, IdleRequest DEF Progress, OneEach, Founding
<1> QED
  BY <1>2, <1>3, <1>5 DEF SignUpInv

LEMMA NextSignUp == Unset \notin Slugs /\ SignUpInv /\ [OnboardingNext]_onboarding => SignUpInv'
<1> SUFFICES ASSUME Unset \notin Slugs, SignUpInv, [OnboardingNext]_onboarding PROVE SignUpInv'
  OBVIOUS
<1>1. ASSUME NEW r \in Applicants, SignUp(r) PROVE SignUpInv'
  BY <1>1, SlotSteps, InsertAccountStep, InsertFounderStep, RecordFounderStep,
     SignFounderInStep DEF SignUp
<1>2. CASE UNCHANGED <<accounts, users, signedIn, slot>>
  BY <1>2 DEF SignUpInv, SignUpTypes, FoundedOnce, Progress, OneEach
<1>3. CASE StartAgain
  <2>1. /\ accounts' = accounts /\ users' = users /\ signedIn' = signedIn
        /\ slot' = [r \in Applicants |-> Empty]
    BY <1>3 DEF StartAgain
  <2>2. SignUpTypes' /\ FoundedOnce'
    BY <2>1, IdleRequest DEF SignUpInv, SignUpTypes, FoundedOnce
  <2>3. (\A r \in Applicants : Progress(slot[r])') /\ OneEach'
    BY <2>1, IdleRequest DEF Progress, OneEach, Founding
  <2> QED
    BY <2>2, <2>3 DEF SignUpInv
<1> QED
  BY <1>1, <1>2, <1>3 DEF OnboardingNext, BeginSeed, Seed, EndSeed, DeleteCompany, onboarding

\* However sign-ups overlap and wherever they or the server stop, a slug finds
\* one workspace, a workspace has at most one founder, and whoever a sign-up
\* signed in is the founder of their own.
THEOREM Founded == ASSUME OnboardingInstance PROVE OnboardingSpec => []FoundedOnce
<1>1. SignUpInv => FoundedOnce
  BY DEF SignUpInv
<1>2. SignUpInv /\ [OnboardingNext]_onboarding => SignUpInv'
  BY NextSignUp DEF OnboardingInstance
<1> QED
  BY <1>1, <1>2, InitSignUp, PTL DEF OnboardingSpec

-----------------------------------------------------------------------------
(* The demo book.                                                            *)

BookTypes ==
  /\ rows \subseteq DemoRow /\ process \in {"starting", "seeding", "serving"}
  /\ batch \in 0 .. MaxBatch /\ todo \subseteq Written /\ owner \in Ids \cup {Unset}

BookInv == BookTypes /\ Attributed /\ LatestOnly /\ DemoOnce /\ SoFar

\* A member stays in the workspace it was inserted into.
LEMMA UsersKept ==
  ASSUME SignUpInv, NEW r \in Applicants, SignUp(r)
  PROVE  \A u \in Ids : users[u] # Unset => users'[u] = users[u]
<1>1. CASE InsertFounder(r)
  BY <1>1 DEF InsertFounder, SignUpInv, SignUpTypes
<1>2. CASE users' = users
  BY <1>2
<1> QED
  BY <1>1, <1>2 DEF SignUp, Apply, CheckSlug, InsertAccount, RecordFounder, SignFounderIn, BreakOff

\* The book takes no notice of sign-ups.
LEMMA BookUnread ==
  ASSUME BookInv, UNCHANGED server, \A u \in Ids : users[u] # Unset => users'[u] = users[u]
  PROVE  BookInv'
<1>1. rows' = rows /\ process' = process /\ batch' = batch /\ todo' = todo /\ owner' = owner
  BY DEF server
<1>2. InTable("companies")' = InTable("companies")
  BY <1>1 DEF InTable
<1>3. process = "seeding" => users'[owner] = users[owner]
  BY DEF BookInv, Attributed
<1> QED
  BY <1>1, <1>2, <1>3 DEF BookInv, BookTypes, Attributed, LatestOnly, DemoOnce, SoFar

\* The server stops, or has nothing to write, or is done writing.
LEMMA NotSeeding ==
  ASSUME BookInv, UNCHANGED <<users, rows, batch>>, process' \in {"starting", "serving"},
         todo' \subseteq todo, owner' \in {owner, Unset}
  PROVE  BookInv'
<1>1. rows' = rows /\ batch' = batch
  OBVIOUS
<1>2. InTable("companies")' = InTable("companies")
  BY <1>1 DEF InTable
<1>3. process' # "seeding"
  OBVIOUS
<1> QED
  BY <1>1, <1>2, <1>3 DEF BookInv, BookTypes, Attributed, LatestOnly, DemoOnce, SoFar

\* seed_demo_data begins only when no company is there.
LEMMA BeginSeedStep ==
  ASSUME MaxBatch \in Nat, SignUpInv, BookInv, BeginSeed
  PROVE  BookInv'
<1>1. CASE process' = "serving" /\ UNCHANGED <<batch, todo, owner>>
  BY <1>1, NotSeeding DEF BeginSeed
<1>2. ASSUME InTable("companies") = {}, batch < MaxBatch, process' = "seeding", batch' = batch + 1,
             todo' = Written, NEW u \in Ids, users[u] # Unset, owner' = u,
             UNCHANGED <<users, rows>>
      PROVE  BookInv'
  <2>1. InTable("companies")' = {}
    BY <1>2 DEF InTable
  <2>2. batch' \in 0 .. MaxBatch /\ batch' \in 1 .. MaxBatch
    BY <1>2 DEF BookInv, BookTypes
  <2>3. BookTypes' /\ Attributed'
    BY <1>2, <2>2 DEF BookInv, BookTypes, Attributed
  <2>4. LatestOnly' /\ DemoOnce'
    BY <2>1 DEF LatestOnly, DemoOnce
  <2>5. SoFar'
    BY <1>2 DEF SoFar
  <2> QED
    BY <2>3, <2>4, <2>5 DEF BookInv
<1> QED
  BY <1>1, <1>2 DEF BeginSeed

\* The next row is written: one that is not there yet.
LEMMA SeedStep ==
  ASSUME OnboardingInstance, SignUpInv, BookInv, Seed
  PROVE  BookInv'
<1> DEFINE row(n) == [n |-> n, batch |-> batch, acct |-> users[owner], refs |-> Demo[n].refs]
<1>1. PICK n \in todo : rows' = rows \cup {row(n)} /\ todo' = todo \ {n}
  BY DEF Seed
<1>2. process = "seeding" /\ process' = process /\ batch' = batch /\ owner' = owner /\ users' = users
  BY DEF Seed
<1>3. n \in Written /\ n \in DOMAIN Demo /\ Demo[n].refs \subseteq DOMAIN Demo
  BY DEF BookInv, BookTypes, OnboardingInstance
<1>4. owner \in Ids /\ users[owner] \in Ids /\ batch \in 1 .. MaxBatch
  BY <1>2 DEF BookInv, Attributed, SignUpInv, SignUpTypes
<1>5. row(n) \in DemoRow /\ row(n).n = n /\ row(n).batch = batch /\ row(n).acct = users[owner]
  BY <1>3, <1>4 DEF DemoRow
<1>6. BookTypes' /\ Attributed'
  BY <1>1, <1>2, <1>5 DEF BookInv, BookTypes, Attributed
<1>7. \A c \in InTable("companies")' : c \in InTable("companies") \/ c = row(n)
  BY <1>1 DEF InTable
<1>8. \A c \in InTable("companies") :
        c.batch = batch /\ c.acct = users[owner] /\ c.n \notin todo /\ c.n # n
  BY <1>2 DEF BookInv, LatestOnly
<1>9. LatestOnly'
  BY <1>1, <1>2, <1>5, <1>7, <1>8 DEF LatestOnly
<1>10. DemoOnce'
  BY <1>5, <1>7, <1>8 DEF BookInv, DemoOnce
<1>11. SoFar'
  <2>1. \A m \in Written \ todo : row(m) \in rows
    BY <1>2 DEF BookInv, SoFar
  <2>2. \A m \in Written \ todo' : row(m) \in rows'
    BY <1>1, <2>1
  <2> QED
    BY <1>2, <2>2 DEF SoFar
<1> QED
  BY <1>6, <1>9, <1>10, <1>11 DEF BookInv

\* A row after the company c was deleted.
Detached(d, c) == IF d.batch = c.batch THEN [d EXCEPT !.refs = @ \ {c.n}] ELSE d

LEMMA DetachedRow ==
  ASSUME NEW d \in DemoRow, NEW c
  PROVE  /\ Detached(d, c) \in DemoRow
         /\ Detached(d, c).n = d.n /\ Detached(d, c).batch = d.batch
         /\ Detached(d, c).acct = d.acct
         /\ Detached(d, c).refs = IF d.batch = c.batch THEN d.refs \ {c.n} ELSE d.refs
BY DEF Detached, DemoRow

LEMMA DeleteCompanyStep ==
  ASSUME SignUpInv, BookInv, DeleteCompany
  PROVE  BookInv'
<1>1. PICK c \in InTable("companies") : rows' = {Detached(d, c) : d \in rows \ {c}}
  BY DEF DeleteCompany, Detached
<1>2. rows \subseteq DemoRow
  BY DEF BookInv, BookTypes
<1>3. \A e \in rows' : \E d \in rows :
        /\ e \in DemoRow /\ e = Detached(d, c)
        /\ e.n = d.n /\ e.batch = d.batch /\ e.acct = d.acct
  <2>1. \A e \in rows' : \E d \in rows : e = Detached(d, c)
    BY <1>1
  <2>2. \A d \in rows : /\ Detached(d, c) \in DemoRow /\ Detached(d, c).n = d.n
                       /\ Detached(d, c).batch = d.batch /\ Detached(d, c).acct = d.acct
    BY <1>2, DetachedRow
  <2> QED
    BY <2>1, <2>2
<1>4. \A e \in InTable("companies")' : \E d \in InTable("companies") :
        e = Detached(d, c) /\ e.n = d.n /\ e.batch = d.batch /\ e.acct = d.acct
  BY <1>3 DEF InTable
<1>5. process' = "serving" /\ batch' = batch /\ todo' = todo /\ owner' = owner
  BY DEF DeleteCompany
<1>6. BookTypes' /\ Attributed' /\ SoFar'
  BY <1>3, <1>5 DEF BookInv, BookTypes, Attributed, SoFar
<1>7. LatestOnly'
  BY <1>4, <1>5 DEF BookInv, LatestOnly
<1>8. DemoOnce'
  BY <1>4 DEF BookInv, DemoOnce
<1> QED
  BY <1>6, <1>7, <1>8 DEF BookInv

LEMMA InitBook == MaxBatch \in Nat /\ OnboardingInit => BookInv
BY DEF OnboardingInit, BookInv, BookTypes, Attributed, LatestOnly, DemoOnce, SoFar, InTable

LEMMA NextBook == OnboardingInstance /\ SignUpInv /\ BookInv /\ [OnboardingNext]_onboarding => BookInv'
<1> SUFFICES ASSUME OnboardingInstance, SignUpInv, BookInv, [OnboardingNext]_onboarding PROVE BookInv'
  OBVIOUS
<1>1. ASSUME NEW r \in Applicants, SignUp(r) PROVE BookInv'
  <2>1. UNCHANGED server
    BY <1>1 DEF SignUp, Apply, CheckSlug, InsertAccount, InsertFounder, RecordFounder,
       SignFounderIn, BreakOff
  <2> QED
    BY <1>1, <2>1, UsersKept, BookUnread
<1>2. CASE StartAgain
  BY <1>2, NotSeeding DEF StartAgain
<1>3. CASE EndSeed
  BY <1>3, NotSeeding DEF EndSeed
<1>4. CASE BeginSeed \/ Seed \/ DeleteCompany
  BY <1>4, BeginSeedStep, SeedStep, DeleteCompanyStep DEF OnboardingInstance
<1>5. CASE UNCHANGED onboarding
  BY <1>5, BookUnread DEF onboarding, server
<1> QED
  BY <1>1, <1>2, <1>3, <1>4, <1>5 DEF OnboardingNext

\* Whatever the server was stopped in the middle of, however often it was
\* started again and which companies were deleted: no demo company is there
\* twice, and all of them are in one workspace.
THEOREM SeededOnce == ASSUME OnboardingInstance PROVE OnboardingSpec => []DemoOnce
<1>1. BookInv => DemoOnce
  BY DEF BookInv
<1>2. SignUpInv /\ BookInv /\ [OnboardingNext]_onboarding => (SignUpInv /\ BookInv)'
  BY NextSignUp, NextBook DEF OnboardingInstance
<1>3. OnboardingInit => SignUpInv /\ BookInv
  BY InitSignUp, InitBook DEF OnboardingInstance
<1> QED
  BY <1>1, <1>2, <1>3, PTL DEF OnboardingSpec

\* The tables hold what sign-up and seeding put in them.
THEOREM TypeCorrect == ASSUME OnboardingInstance PROVE OnboardingSpec => []OnboardingTypeOK
<1>1. SignUpInv /\ BookInv => OnboardingTypeOK
  BY DEF SignUpInv, SignUpTypes, Request, BookInv, BookTypes, OnboardingTypeOK
<1>2. SignUpInv /\ BookInv /\ [OnboardingNext]_onboarding => (SignUpInv /\ BookInv)'
  BY NextSignUp, NextBook DEF OnboardingInstance
<1>3. OnboardingInit => SignUpInv /\ BookInv
  BY InitSignUp, InitBook DEF OnboardingInstance
<1> QED
  BY <1>1, <1>2, <1>3, PTL DEF OnboardingSpec

-----------------------------------------------------------------------------
(* What the rows of the book refer to.                                       *)

BookRow == [table : {"companies", "contacts", "deals", "activities"}, refs : SUBSET (1 .. 27)]

\* The four parts of the book, one after the other.
LEMMA DemoParts ==
  /\ DOMAIN Demo = 1 .. 27
  /\ \A i \in 1 .. 5 : Demo[i] = Companies[i]
  /\ \A i \in 1 .. 7 : Demo[5 + i] = Contacts[i]
  /\ \A i \in 1 .. 7 : Demo[12 + i] = Deals[i]
  /\ \A i \in 1 .. 8 : Demo[19 + i] = Activities[i]
<1>1. Companies \in Seq(BookRow) /\ Len(Companies) = 5
  BY DEF Companies, Company, BookRow
<1>2. Contacts \in Seq(BookRow) /\ Len(Contacts) = 7
  BY DEF Contacts, Contact, BookRow
<1>3. Deals \in Seq(BookRow) /\ Len(Deals) = 7
  BY DEF Deals, Deal, BookRow
<1>4. Activities \in Seq(BookRow) /\ Len(Activities) = 8
  BY DEF Activities, Activity, BookRow
<1> DEFINE two == Companies \o Contacts
           three == two \o Deals
<1>5. two = Companies \o Contacts /\ three = two \o Deals /\ Demo = three \o Activities
  BY DEF Demo
<1> HIDE DEF two, three
<1>6. /\ two \in Seq(BookRow) /\ Len(two) = Len(Companies) + Len(Contacts)
      /\ \A i \in 1 .. Len(Companies) : two[i] = Companies[i]
      /\ \A i \in 1 .. Len(Contacts) : two[Len(Companies) + i] = Contacts[i]
  <2>1. Companies \in Seq(BookRow) /\ Contacts \in Seq(BookRow) /\ two = Companies \o Contacts
    BY <1>1, <1>2, <1>5
  <2>2. two \in Seq(BookRow)
    BY <2>1
  <2>3. Len(two) = Len(Companies) + Len(Contacts)
    BY <2>1
  <2>4. \A i \in 1 .. Len(Companies) : two[i] = Companies[i]
    BY <2>1
  <2>5. \A i \in 1 .. Len(Contacts) : two[Len(Companies) + i] = Contacts[i]
    BY <2>1
  <2> QED
    BY <2>2, <2>3, <2>4, <2>5
<1>7. /\ three \in Seq(BookRow) /\ Len(three) = Len(two) + Len(Deals)
      /\ \A i \in 1 .. Len(two) : three[i] = two[i]
      /\ \A i \in 1 .. Len(Deals) : three[Len(two) + i] = Deals[i]
  <2>1. two \in Seq(BookRow) /\ Deals \in Seq(BookRow) /\ three = two \o Deals
    BY <1>3, <1>5, <1>6
  <2>2. three \in Seq(BookRow)
    BY <2>1
  <2>3. Len(three) = Len(two) + Len(Deals)
    BY <2>1
  <2>4. \A i \in 1 .. Len(two) : three[i] = two[i]
    BY <2>1
  <2>5. \A i \in 1 .. Len(Deals) : three[Len(two) + i] = Deals[i]
    BY <2>1
  <2> QED
    BY <2>2, <2>3, <2>4, <2>5
<1>8. /\ Demo \in Seq(BookRow) /\ Len(Demo) = Len(three) + Len(Activities)
      /\ \A i \in 1 .. Len(three) : Demo[i] = three[i]
      /\ \A i \in 1 .. Len(Activities) : Demo[Len(three) + i] = Activities[i]
  <2>1. three \in Seq(BookRow) /\ Activities \in Seq(BookRow) /\ Demo = three \o Activities
    BY <1>4, <1>5, <1>7
  <2>2. Demo \in Seq(BookRow)
    BY <2>1
  <2>3. Len(Demo) = Len(three) + Len(Activities)
    BY <2>1
  <2>4. \A i \in 1 .. Len(three) : Demo[i] = three[i]
    BY <2>1
  <2>5. \A i \in 1 .. Len(Activities) : Demo[Len(three) + i] = Activities[i]
    BY <2>1
  <2> QED
    BY <2>2, <2>3, <2>4, <2>5
<1>9. Len(two) = 12 /\ Len(three) = 19 /\ Len(Demo) = 27
  BY <1>1, <1>2, <1>3, <1>4, <1>6, <1>7, <1>8
<1>10. \A i \in 1 .. 7 : 5 + i \in 1 .. 12 /\ 5 + i \in 1 .. 19 /\ 12 + i \in 1 .. 19
  OBVIOUS
<1> QED
  BY <1>1, <1>2, <1>3, <1>4, <1>6, <1>7, <1>8, <1>9, <1>10

\* The rows, one by one.
LEMMA DemoRows ==
  /\ \A n \in 1 .. 5 : Demo[n] = Company
  /\ Demo[6] = Contact({1}) /\ Demo[7] = Contact({2}) /\ Demo[8] = Contact({2})
  /\ Demo[9] = Contact({3}) /\ Demo[10] = Contact({4}) /\ Demo[11] = Contact({})
  /\ Demo[12] = Contact({5})
  /\ Demo[13] = Deal({1, 6}) /\ Demo[14] = Deal({2, 7}) /\ Demo[15] = Deal({2, 8})
  /\ Demo[16] = Deal({3, 9}) /\ Demo[17] = Deal({4, 10}) /\ Demo[18] = Deal({4, 10})
  /\ Demo[19] = Deal({5})
  /\ Demo[20] = Activity({1, 6, 13}) /\ Demo[21] = Activity({1, 6, 13})
  /\ Demo[22] = Activity({2, 7, 14}) /\ Demo[23] = Activity({2, 7, 14})
  /\ Demo[24] = Activity({3, 9, 16}) /\ Demo[25] = Activity({4, 10, 17})
  /\ Demo[26] = Activity({4, 10, 17}) /\ Demo[27] = Activity({})
<1>1. \A n \in 1 .. 5 : Demo[n] = Company
  BY DemoParts DEF Companies
<1>2. /\ Demo[5 + 1] = Contacts[1] /\ Demo[5 + 2] = Contacts[2] /\ Demo[5 + 3] = Contacts[3]
      /\ Demo[5 + 4] = Contacts[4] /\ Demo[5 + 5] = Contacts[5] /\ Demo[5 + 6] = Contacts[6]
      /\ Demo[5 + 7] = Contacts[7]
  BY DemoParts
<1>3. /\ Demo[12 + 1] = Deals[1] /\ Demo[12 + 2] = Deals[2] /\ Demo[12 + 3] = Deals[3]
      /\ Demo[12 + 4] = Deals[4] /\ Demo[12 + 5] = Deals[5] /\ Demo[12 + 6] = Deals[6]
      /\ Demo[12 + 7] = Deals[7]
  BY DemoParts
<1>4. /\ Demo[19 + 1] = Activities[1] /\ Demo[19 + 2] = Activities[2]
      /\ Demo[19 + 3] = Activities[3] /\ Demo[19 + 4] = Activities[4]
      /\ Demo[19 + 5] = Activities[5] /\ Demo[19 + 6] = Activities[6]
      /\ Demo[19 + 7] = Activities[7] /\ Demo[19 + 8] = Activities[8]
  BY DemoParts
<1>5. /\ Demo[6] = Contact({1}) /\ Demo[7] = Contact({2}) /\ Demo[8] = Contact({2})
      /\ Demo[9] = Contact({3}) /\ Demo[10] = Contact({4}) /\ Demo[11] = Contact({})
      /\ Demo[12] = Contact({5})
  BY <1>2 DEF Contacts
<1>6. /\ Demo[13] = Deal({1, 6}) /\ Demo[14] = Deal({2, 7}) /\ Demo[15] = Deal({2, 8})
      /\ Demo[16] = Deal({3, 9}) /\ Demo[17] = Deal({4, 10}) /\ Demo[18] = Deal({4, 10})
      /\ Demo[19] = Deal({5})
  BY <1>3 DEF Deals
<1>7. /\ Demo[20] = Activity({1, 6, 13}) /\ Demo[21] = Activity({1, 6, 13})
      /\ Demo[22] = Activity({2, 7, 14}) /\ Demo[23] = Activity({2, 7, 14})
      /\ Demo[24] = Activity({3, 9, 16}) /\ Demo[25] = Activity({4, 10, 17})
      /\ Demo[26] = Activity({4, 10, 17}) /\ Demo[27] = Activity({})
  BY <1>4 DEF Activities
<1> QED
  BY <1>1, <1>5, <1>6, <1>7

\* Which of them are companies.
LEMMA DemoTables ==
  /\ \A n \in 1 .. 5 : Demo[n].table = "companies" /\ Demo[n].refs = {}
  /\ \A n \in 6 .. 27 : Demo[n].table # "companies"
<1>1. \A n \in 6 .. 27 : n \in {6, 7, 8, 9, 10, 11, 12, 13, 14, 15, 16, 17, 18, 19, 20, 21, 22,
                               23, 24, 25, 26, 27}
  OBVIOUS
<1> QED
  BY <1>1, DemoRows DEF Company, Contact, Deal, Activity

\* The company each of the others names.
LEMMA DemoCompanies ==
  /\ CompanyOf(Demo[6]) = {1} /\ CompanyOf(Demo[7]) = {2} /\ CompanyOf(Demo[8]) = {2}
  /\ CompanyOf(Demo[9]) = {3} /\ CompanyOf(Demo[10]) = {4} /\ CompanyOf(Demo[11]) = {}
  /\ CompanyOf(Demo[12]) = {5} /\ CompanyOf(Demo[13]) = {1} /\ CompanyOf(Demo[14]) = {2}
  /\ CompanyOf(Demo[15]) = {2} /\ CompanyOf(Demo[16]) = {3} /\ CompanyOf(Demo[17]) = {4}
  /\ CompanyOf(Demo[18]) = {4} /\ CompanyOf(Demo[19]) = {5} /\ CompanyOf(Demo[20]) = {1}
  /\ CompanyOf(Demo[21]) = {1} /\ CompanyOf(Demo[22]) = {2} /\ CompanyOf(Demo[23]) = {2}
  /\ CompanyOf(Demo[24]) = {3} /\ CompanyOf(Demo[25]) = {4} /\ CompanyOf(Demo[26]) = {4}
  /\ CompanyOf(Demo[27]) = {}
<1>1. \A n \in 1 .. 27 : Demo[n].refs \subseteq 1 .. 27 => CompanyOf(Demo[n]) = Demo[n].refs \cap (1 .. 5)
  BY DemoTables DEF CompanyOf
<1>2. /\ CompanyOf(Demo[6]) = {1} /\ CompanyOf(Demo[7]) = {2} /\ CompanyOf(Demo[8]) = {2}
      /\ CompanyOf(Demo[9]) = {3} /\ CompanyOf(Demo[10]) = {4} /\ CompanyOf(Demo[11]) = {}
      /\ CompanyOf(Demo[12]) = {5}
  BY <1>1, DemoRows DEF Contact, Deal, Activity
<1>3. /\ CompanyOf(Demo[13]) = {1} /\ CompanyOf(Demo[14]) = {2} /\ CompanyOf(Demo[15]) = {2}
      /\ CompanyOf(Demo[16]) = {3} /\ CompanyOf(Demo[17]) = {4} /\ CompanyOf(Demo[18]) = {4}
      /\ CompanyOf(Demo[19]) = {5}
  BY <1>1, DemoRows DEF Contact, Deal, Activity
<1>4. /\ CompanyOf(Demo[20]) = {1} /\ CompanyOf(Demo[21]) = {1} /\ CompanyOf(Demo[22]) = {2}
      /\ CompanyOf(Demo[23]) = {2} /\ CompanyOf(Demo[24]) = {3} /\ CompanyOf(Demo[25]) = {4}
      /\ CompanyOf(Demo[26]) = {4} /\ CompanyOf(Demo[27]) = {}
  BY <1>1, DemoRows DEF Contact, Deal, Activity
<1> QED
  BY <1>2, <1>3, <1>4

\* The book as it is written: rows after those they refer to, and in agreement.
LEMMA DemoCoherent == \A n \in DOMAIN Demo : \A m \in Demo[n].refs : m < n /\ Agree(Demo[n], Demo[m])
<1> DEFINE Fits(n) == \A m \in Demo[n].refs :
                      m \in 1 .. 27 /\ m < n /\ (m > 5 => CompanyOf(Demo[m]) = CompanyOf(Demo[n]))
<1>1. \A n \in 1 .. 5 : Fits(n)
  BY DemoTables
<1>2. Fits(6) /\ Fits(7) /\ Fits(8) /\ Fits(9) /\ Fits(10) /\ Fits(11) /\ Fits(12)
  BY DemoRows DEF Contact
<1>3. Fits(13) /\ Fits(14) /\ Fits(15) /\ Fits(16) /\ Fits(17) /\ Fits(18) /\ Fits(19)
  <2>1. /\ CompanyOf(Demo[13]) = {1} /\ CompanyOf(Demo[6]) = {1} /\ CompanyOf(Demo[14]) = {2}
        /\ CompanyOf(Demo[7]) = {2} /\ CompanyOf(Demo[15]) = {2} /\ CompanyOf(Demo[8]) = {2}
        /\ CompanyOf(Demo[16]) = {3} /\ CompanyOf(Demo[9]) = {3} /\ CompanyOf(Demo[17]) = {4}
        /\ CompanyOf(Demo[18]) = {4} /\ CompanyOf(Demo[10]) = {4}
    BY DemoCompanies
  <2>2. /\ Demo[13].refs = {1, 6} /\ Demo[14].refs = {2, 7} /\ Demo[15].refs = {2, 8}
        /\ Demo[16].refs = {3, 9} /\ Demo[17].refs = {4, 10} /\ Demo[18].refs = {4, 10}
        /\ Demo[19].refs = {5}
    BY DemoRows DEF Deal
  <2> QED
    BY <2>1, <2>2
<1>4. Fits(20) /\ Fits(21)
  <2>1. /\ CompanyOf(Demo[20]) = {1} /\ CompanyOf(Demo[21]) = {1}
        /\ CompanyOf(Demo[6]) = {1} /\ CompanyOf(Demo[13]) = {1}
    BY DemoCompanies
  <2>2. Demo[20].refs = {1, 6, 13} /\ Demo[21].refs = {1, 6, 13}
    BY DemoRows DEF Activity
  <2> QED
    BY <2>1, <2>2
<1>5. Fits(22) /\ Fits(23)
  <2>1. /\ CompanyOf(Demo[22]) = {2} /\ CompanyOf(Demo[23]) = {2}
        /\ CompanyOf(Demo[7]) = {2} /\ CompanyOf(Demo[14]) = {2}
    BY DemoCompanies
  <2>2. Demo[22].refs = {2, 7, 14} /\ Demo[23].refs = {2, 7, 14}
    BY DemoRows DEF Activity
  <2> QED
    BY <2>1, <2>2
<1>6. Fits(24) /\ Fits(25) /\ Fits(26) /\ Fits(27)
  <2>1. /\ CompanyOf(Demo[24]) = {3} /\ CompanyOf(Demo[9]) = {3} /\ CompanyOf(Demo[16]) = {3}
        /\ CompanyOf(Demo[25]) = {4} /\ CompanyOf(Demo[26]) = {4}
        /\ CompanyOf(Demo[10]) = {4} /\ CompanyOf(Demo[17]) = {4}
    BY DemoCompanies
  <2>2. /\ Demo[24].refs = {3, 9, 16} /\ Demo[25].refs = {4, 10, 17}
        /\ Demo[26].refs = {4, 10, 17} /\ Demo[27].refs = {}
    BY DemoRows DEF Activity
  <2> QED
    BY <2>1, <2>2
<1> HIDE DEF Fits
<1>7. \A n \in 1 .. 27 : n \in 1 .. 5 \/ n \in {6, 7, 8, 9, 10, 11, 12} \/ n \in {13, 14, 15, 16, 17, 18, 19}
                        \/ n \in {20, 21, 22, 23, 24, 25, 26, 27}
  OBVIOUS
<1>8. \A n \in 1 .. 27 : Fits(n)
  BY <1>1, <1>2, <1>3, <1>4, <1>5, <1>6, <1>7
<1> QED
  BY <1>8, DemoTables, DemoParts DEF Agree, Fits

\* What a row refers to is there, of the same attempt and in the same
\* workspace, and agrees.
Hangs(d) ==
  \A n \in d.refs :
    \E e \in rows : /\ e.n = n /\ e.batch = d.batch /\ e.acct = d.acct
                    /\ Agree([table |-> Demo[d.n].table, refs |-> d.refs],
                             [table |-> Demo[n].table, refs |-> e.refs])

\* The row it is the turn of: those it refers to were written before it.
LEMMA SeedHangs ==
  ASSUME OnboardingInstance, SignUpInv, BookInv, \A d \in rows : Hangs(d), Seed
  PROVE  \A d \in rows' : Hangs(d)'
<1> DEFINE row(n) == [n |-> n, batch |-> batch, acct |-> users[owner], refs |-> Demo[n].refs]
<1>1. PICK n \in todo : rows' = rows \cup {row(n)} /\ \A m \in todo : n <= m
  BY DEF Seed
<1>2. n \in Written /\ n \in 1 .. 27 /\ Demo[n].refs \subseteq Written
  BY DemoParts DEF BookInv, BookTypes, OnboardingInstance
<1>3. ASSUME NEW m \in Demo[n].refs
      PROVE  row(m) \in rows /\ Agree(Demo[n], Demo[m])
  <2>1. m < n /\ m \in 1 .. 27 /\ Agree(Demo[n], Demo[m])
    BY <1>2, DemoCoherent, DemoParts DEF OnboardingInstance
  <2>2. m \in Written \ todo
    BY <1>1, <1>2, <2>1
  <2> QED
    BY <2>1, <2>2 DEF BookInv, SoFar, Seed
<1>4. \A d \in rows : Hangs(d)'
  BY <1>1 DEF Hangs
<1>5. ASSUME NEW d, d = row(n) PROVE Hangs(d)'
  <2>1. d.n = n /\ d.batch = batch /\ d.acct = users[owner] /\ d.refs = Demo[n].refs
    BY <1>5
  <2>2. ASSUME NEW m \in d.refs
        PROVE  \E e \in rows' : /\ e.n = m /\ e.batch = d.batch /\ e.acct = d.acct
                                /\ Agree([table |-> Demo[d.n].table, refs |-> d.refs],
                                         [table |-> Demo[m].table, refs |-> e.refs])
    <3>1. row(m) \in rows' /\ Agree(Demo[n], Demo[m])
      BY <1>1, <1>3, <2>1
    <3>2. Agree([table |-> Demo[n].table, refs |-> Demo[n].refs],
                [table |-> Demo[m].table, refs |-> Demo[m].refs])
      BY <3>1 DEF Agree, CompanyOf
    <3> QED
      BY <2>1, <3>1, <3>2
  <2> QED
    BY <2>1, <2>2 DEF Hangs
<1> QED
  BY <1>1, <1>4, <1>5

\* Every row of its attempt forgets the company that is deleted.
LEMMA DeleteHangs ==
  ASSUME BookInv, \A d \in rows : Hangs(d), DeleteCompany
  PROVE  \A d \in rows' : Hangs(d)'
<1>1. PICK c \in InTable("companies") : rows' = {Detached(d, c) : d \in rows \ {c}}
  BY DEF DeleteCompany, Detached
<1>2. \A d \in rows : /\ Detached(d, c).n = d.n /\ Detached(d, c).batch = d.batch
                      /\ Detached(d, c).acct = d.acct
                      /\ Detached(d, c).refs = IF d.batch = c.batch THEN d.refs \ {c.n} ELSE d.refs
  BY DetachedRow DEF BookInv, BookTypes
<1>3. ASSUME NEW d \in rows \ {c}, NEW n \in Detached(d, c).refs
      PROVE  \E e \in rows' :
               /\ e.n = n /\ e.batch = d.batch /\ e.acct = d.acct
               /\ Agree([table |-> Demo[d.n].table, refs |-> Detached(d, c).refs],
                        [table |-> Demo[n].table, refs |-> e.refs])
  <2>1. n \in d.refs /\ (d.batch = c.batch => n # c.n)
    BY <1>2
  <2>2. PICK e \in rows : /\ e.n = n /\ e.batch = d.batch /\ e.acct = d.acct
                          /\ Agree([table |-> Demo[d.n].table, refs |-> d.refs],
                                   [table |-> Demo[n].table, refs |-> e.refs])
    BY <2>1 DEF Hangs
  <2>3. e # c /\ Detached(e, c) \in rows'
    BY <1>1, <2>1, <2>2
  <2>4. Agree([table |-> Demo[d.n].table, refs |-> Detached(d, c).refs],
              [table |-> Demo[n].table, refs |-> Detached(e, c).refs])
    <3>1. CASE d.batch = c.batch
      <4>1. Detached(d, c).refs = d.refs \ {c.n} /\ Detached(e, c).refs = e.refs \ {c.n}
        BY <1>2, <2>2, <3>1
      <4> QED
        BY <2>2, <4>1 DEF Agree, CompanyOf
    <3>2. CASE d.batch # c.batch
      <4>1. Detached(d, c).refs = d.refs /\ Detached(e, c).refs = e.refs
        BY <1>2, <2>2, <3>2
      <4> QED
        BY <2>2, <4>1
    <3> QED
      BY <3>1, <3>2
  <2> QED
    BY <1>2, <2>2, <2>3, <2>4
<1>4. ASSUME NEW f \in rows' PROVE Hangs(f)'
  <2>1. PICK d \in rows \ {c} : f = Detached(d, c)
    BY <1>1
  <2>2. f.n = d.n /\ f.batch = d.batch /\ f.acct = d.acct
    BY <1>2, <2>1
  <2> QED
    BY <1>3, <2>1, <2>2 DEF Hangs
<1> QED
  BY <1>4

\* However often seeding is cut off and begun again, and whatever companies are
\* deleted in between: what a row of the demo book refers to is there, in its
\* workspace, and names the same company.
THEOREM HangsTogether == ASSUME OnboardingInstance PROVE OnboardingSpec => []DemoHangsTogether
<1> DEFINE HangInv == SignUpInv /\ BookInv /\ \A d \in rows : Hangs(d)
<1>1. OnboardingInit => HangInv
  <2>1. OnboardingInit => rows = {}
    BY DEF OnboardingInit
  <2> QED
    BY <2>1, InitSignUp, InitBook DEF OnboardingInstance
<1>2. HangInv /\ [OnboardingNext]_onboarding => HangInv'
  <2> SUFFICES ASSUME HangInv, [OnboardingNext]_onboarding PROVE (\A d \in rows : Hangs(d))'
    BY NextSignUp, NextBook DEF OnboardingInstance
  <2>1. CASE Seed
    BY <2>1, SeedHangs
  <2>2. CASE DeleteCompany
    BY <2>2, DeleteHangs
  <2>3. CASE UNCHANGED rows
    BY <2>3 DEF Hangs
  <2> QED
    BY <2>1, <2>2, <2>3 DEF OnboardingNext, SignUp, Apply, CheckSlug, InsertAccount, InsertFounder,
       RecordFounder, SignFounderIn, BreakOff, StartAgain, BeginSeed, EndSeed, onboarding, server
<1>3. HangInv => DemoHangsTogether
  BY DemoCoherent DEF DemoHangsTogether, Hangs
<1> QED
  BY <1>1, <1>2, <1>3, PTL DEF OnboardingSpec

=============================================================================
