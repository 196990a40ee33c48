------------------------------ MODULE MCRecords ------------------------------
(* Small instances of Records for TLC: which tables a run fills, and how far. *)
EXTENDS Records, TLC

Book(c, p, d, a, b) ==
  [k \in Kinds |-> CASE k = "company"  -> c
                     [] k = "contact"  -> p
                     [] k = "deal"     -> d
                     [] k = "activity" -> a
                     [] OTHER          -> b]

\* A contact that can move between two companies, and its briefing.
TwoCompaniesBriefing == Book(2, 1, 0, 0, 1)
\* One row of every table a destroy detaches.
OneOfEach == Book(1, 1, 1, 1, 0)

Symmetry == Permutations(Requests) \cup Permutations(Accounts)
=============================================================================
