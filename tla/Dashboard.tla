------------------------------ MODULE Dashboard ------------------------------
(***************************************************************************)
(* The figures of the dashboard: the deals of a workspace are counted and  *)
(* added up in three queries, one after the other, while they change.      *)
(***************************************************************************)
EXTENDS Integers, FiniteSets, FiniteSetsExt

CONSTANTS
  DealIds,     \* ids of deals
  Foreign,     \* those of them that are another workspace's
  OpenStages,  \* the stages before won and lost, four in the code
  Worths,      \* what deals are worth; nothing says it is not negative
  Swing,       \* the most a sum over deals changes by when one of them does
  MaxChanges   \* bound: writes while the page is being made

\* What the constants have to be.
DashboardInstance ==
  /\ IsFiniteSet(DealIds) /\ Worths \subseteq Int /\ MaxChanges \in Nat
  /\ IsFiniteSet(OpenStages) /\ OpenStages \cap {"won", "lost", "none"} = {}
  /\ Swing \in Nat /\ \A u, v \in Worths \cup {0} : u - v <= Swing

VARIABLES
  table,      \* table[d]: the row of deal d, or Gone
  query,      \* the query the page waits for next
  totals,     \* pipeline_totals: what the first two queries gave
  breakdown,  \* stage_totals: what the third gave
  changes     \* writes to the workspace's deals since the first query

dashboard == <<table, query, totals, breakdown, changes>>

AllStages == OpenStages \cup {"won", "lost"}
Gone == [stage |-> "none", value |-> 0]
DealRow == [stage : AllStages, value : Worths]

Unread == [all |-> 0, open |-> 0, openValue |-> 0, wonValue |-> 0]
NoRows == [s \in AllStages |-> [count |-> 0, value |-> 0]]

\* Mutation: the workspace is not asked for.
InAnywhere(S) == {d \in DealIds : table[d].stage \in S}

\* Every query names the workspace.
In(S) == {d \in DealIds \ Foreign : table[d].stage \in S}
CountIn(S) == Cardinality(In(S))
SumOver(f, S) == MapThenSumSet(LAMBDA x : f[x], S)
WorthIn(S) == SumOver([d \in DealIds |-> table[d].value], In(S))

pipeline_totals ==
  /\ query = "totals"
  /\ totals' = [all |-> CountIn(AllStages), open |-> 0,
                openValue |-> WorthIn(OpenStages), wonValue |-> WorthIn({"won"})]
  /\ query' = "closed" /\ changes' = 0
  /\ UNCHANGED <<table, breakdown>>

\* The open deals are what is left of the first count.
closed_count ==
  /\ query = "closed"
  /\ totals' = [totals EXCEPT !.open = totals.all - CountIn({"won", "lost"})]
  /\ query' = "stages"
  /\ UNCHANGED <<table, breakdown, changes>>

stage_totals ==
  /\ query = "stages"
  /\ breakdown' = [s \in AllStages |-> [count |-> CountIn({s}), value |-> WorthIn({s})]]
  /\ query' = "shown"
  /\ UNCHANGED <<table, totals, changes>>

Reload ==
  /\ query = "shown" /\ query' = "totals"
  /\ totals' = Unread /\ breakdown' = NoRows /\ changes' = 0
  /\ UNCHANGED table

\* A deal is created, changed or deleted, in this workspace or another.
WriteDeal(d) ==
  /\ changes < MaxChanges
  /\ \E row \in DealRow \cup {Gone} : row # table[d] /\ table' = [table EXCEPT ![d] = row]
  /\ changes' = IF d \in Foreign \/ query = "totals" THEN changes ELSE changes + 1
  /\ UNCHANGED <<query, totals, breakdown>>

DashboardInit ==
  /\ table = [d \in DealIds |-> Gone]
  /\ query = "totals" /\ totals = Unread /\ breakdown = NoRows /\ changes = 0

DashboardNext ==
  \/ pipeline_totals \/ closed_count \/ stage_totals \/ Reload
  \/ \E d \in DealIds : WriteDeal(d)

DashboardSpec == DashboardInit /\ [][DashboardNext]_dashboard

-----------------------------------------------------------------------------
Distance(a, b) == IF a < b THEN b - a ELSE a - b

(* The figures at the top and the table under them agree up to the writes  *)
(* that came in between: open deals and their value, and what is won, and  *)
(* nothing of another workspace is in them (dashboard.rs: pipeline_totals, *)
(* closed_count, stage_totals).                                            *)
DashboardAgrees ==
  query = "shown" =>
    LET rows == SumOver([s \in OpenStages |-> breakdown[s].count], OpenStages)
        worth == SumOver([s \in OpenStages |-> breakdown[s].value], OpenStages)
    IN  /\ Distance(totals.open, rows) <= changes
        /\ Distance(totals.openValue, worth) <= changes * Swing
        /\ Distance(totals.wonValue, breakdown["won"].value) <= changes * Swing
=============================================================================
