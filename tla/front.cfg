SPECIFICATION Spec
CONSTANTS
  ann = ann
  eve = eve
  acme = acme
  zenith = zenith
  anna = anna
  r1 = r1
  r2 = r2
  nothing = nothing
  nobody = nobody
  Slots = {s1}
  Names = {ann, eve}
  Standings <- AnnAndSomebody
  AllowPasswordless = FALSE
  MaxAttempts = 2
  LockFor = 2
  Ttl = 1
  Grace = 1
  Period = 2
  MaxNow = 3
  MaxSessions = 1
  MaxFailures = 3
  Tabs = {t1, t2}
  Together = 1
  TokenTtl = 2
  SessionTtl = 2
  MaxClock = 3
  MaxSession = 1
  Applicants = {p1, p2}
  Slugs = {acme, zenith}
  MaxAccount = 2
  MaxBatch = 2
  Written <- Some
  Editors = {anna}
  Zones <- EastOfGreenwich
  Typed = {4, 5}
  Amounts = {0, 7}
  Days <- EndsOfCenturies
  Years = {1900, 1999, 2000, 2023, 2024, 2100}
  Numbers = {0, 1, 2, 3, 4, 5, 6, 7, 8, 9, 10, 11, 12, 13, 27, 28, 29, 30, 31, 32}
  Rows = {1, 2, 3, 4, 5}
  Key <- AllDifferent
  Size = 2
  Sort <- ByName
  Bookmarks <- FromElsewhere
  MaxWrites = 2
  DealIds = {1, 2, 3}
  Foreign = {3}
  OpenStages = {"lead"}
  Worths <- InTheRedToo
  Swing = 7
  MaxChanges = 1
  MaxCents = 100444
  Quoted <- CentsNearLimits
  Leading <- Beginnings
  Following = {0, 4, 5, 9, 10, 11}
  MaxTyped = 4
  SlugMax = 3
  Longest = 4
  Symbols <- TermsAndWildcards
  MaxTerm = 2
  MaxStored = 3
  MaxContext = 6
  MaxActivities = 3
  LineSizes = {1, 2, 3, 4}
  Heads = {2, 7}
  MaxLog = 4
  Addresses <- AfterASlash
  FilterLists <- SearchedFor
  Cursors <- LettersOnly
  Replies <- Written5
  BulletLists <- TwoBullets
  Wrappings <- BesideJson
INVARIANT TypeOK
  FoundedOnce
  DemoOnce
  DemoHangsTogether
  DateShownIsDateTyped
  EveryRowOnce
  CalendarAgrees
  OnlyRealDates
  DashboardAgrees
  MoneyRoundTrips
  MoneyNearest
  SlugWellFormed
  SlugFindsAgain
  FindsTheTermItself
  ComesBack
  LinksKeepFilters
  TruncationTold
  OnlyTheHeadOverruns
  BriefingKept
  BriefingSaid
PROPERTY EveryRequestEnds
  Throttled
  FactorHolds
  SweptLate
  FormsStillSubmit
  FormsGoStale
  SignInSticks
  NavigationEnds
  BackSkipsNothing
