------------------------------- MODULE Prompt --------------------------------
(***************************************************************************)
(* What the AI provider is told of a contact: a part of any length, and of *)
(* the newest activities, oldest first, those before the first that does   *)
(* not fit, so that the newest of all go first.  Its caller drops the flag *)
(* with which render tells that some were left out (ai.rs: generate).      *)
(* What becomes of the reply is in Briefings, when one is asked for and by *)
(* whom in Records.  The lengths are the state, so that TLC names those    *)
(* that go wrong.                                                          *)
(***************************************************************************)
EXTENDS Integers, Sequences, Texts

CONSTANTS
  MaxContext,    \* MAX_CONTEXT_CHARS
  MaxActivities, \* MAX_ACTIVITIES
  LineSizes,     \* bound: how long the lines of the log are
  Heads,         \* bound: how long the part before the log is
  MaxLog         \* bound: activities in the log

\* What the constants have to be.
PromptInstance ==
  /\ MaxContext \in Nat /\ MaxActivities \in Nat /\ MaxLog \in Nat
  /\ LineSizes \subseteq Nat /\ Heads \subseteq Nat

VARIABLES
  head,  \* the length of the prompt before the log
  log    \* the lengths of the lines of the log, oldest first

prompt == <<head, log>>

Least(a, b) == IF a < b THEN a ELSE b

\* generate_briefing reads the newest ones first; build_prompt turns them round.
Selected(entries) == SubSeq(Reverse(entries), 1, Least(MaxActivities, Len(entries)))
build_prompt(length, entries) == [head |-> length, activities |-> Reverse(Selected(entries))]

Outputs == [lines : Seq(Nat), size : Nat, truncated : BOOLEAN]

\* Mutation: a line that does not fit is passed over.
renderedSkipping ==
  [line \in Nat |-> [out \in Outputs |->
     IF out.size + line > MaxContext
     THEN [lines |-> out.lines, size |-> out.size, truncated |-> TRUE]
     ELSE [lines |-> Append(out.lines, line), size |-> out.size + line, truncated |-> out.truncated]]]

\* Mutation: the limit is looked at before the line is added.
renderedPast ==
  [line \in Nat |-> [out \in Outputs |->
     IF out.truncated \/ out.size > MaxContext
     THEN [lines |-> out.lines, size |-> out.size, truncated |-> TRUE]
     ELSE [lines |-> Append(out.lines, line), size |-> out.size + line, truncated |-> out.truncated]]]

\* What render does with one activity: the log is cut at the first line that
\* does not fit.
rendered ==
  [line \in Nat |-> [out \in Outputs |->
     IF out.truncated \/ out.size + line > MaxContext
     THEN [lines |-> out.lines, size |-> out.size, truncated |-> TRUE]
     ELSE [lines |-> Append(out.lines, line), size |-> out.size + line, truncated |-> out.truncated]]]

render(sent) ==
  Folded(rendered, [lines |-> <<>>, size |-> sent.head, truncated |-> FALSE], sent.activities)

-----------------------------------------------------------------------------
PromptInit ==
  /\ head \in Heads
  /\ log \in UNION {[1 .. n -> LineSizes] : n \in 0 .. MaxLog}
PromptSpec == PromptInit /\ [][FALSE]_prompt

adds == [n \in Nat |-> [sum \in Nat |-> sum + n]]
Total(sizes) == Folded(adds, 0, sizes)

(* Of the newest MaxActivities the model is sent the oldest ones, in       *)
(* order, up to the first that does not fit; those after it are left out,  *)
(* also the ones that would still fit, and render says so exactly when     *)
(* there are any (ai.rs: render).                                          *)
TruncationTold ==
  LET newest == SubSeq(log, Len(log) - Least(MaxActivities, Len(log)) + 1, Len(log))
      out == render(build_prompt(head, log))
      n == Len(out.lines)
  IN  /\ out.lines = SubSeq(newest, 1, n) /\ n <= Len(newest)
      /\ out.truncated <=> (n < Len(newest))
      /\ out.size = head + Total(out.lines)
      /\ out.truncated => out.size + newest[n + 1] > MaxContext

(* The ceiling is one for the log only: what is sent is longer than it     *)
(* exactly when what comes before the log, notes and deals included, is    *)
(* longer already, and then nothing of the log is sent (ai.rs: render,     *)
(* MAX_CONTEXT_CHARS).                                                     *)
OnlyTheHeadOverruns ==
  LET out == render(build_prompt(head, log))
  IN  /\ (out.size > MaxContext) <=> (head > MaxContext)
      /\ head > MaxContext => out.lines = <<>> /\ out.size = head
=============================================================================
