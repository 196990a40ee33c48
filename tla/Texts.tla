-------------------------------- MODULE Texts --------------------------------
(***************************************************************************)
(* Loops over the items of a sequence, and what they cut it into.          *)
(***************************************************************************)
EXTENDS Integers, Sequences, SequencesExt

\* What f gives for each item, one after the other.
Each(f, s) == FlattenSeq([i \in DOMAIN s |-> f[s[i]]])

\* What a loop holds in the end, whose body step[x] makes of what was held what
\* is held after the item x.
Folded(step, first, s) == FoldLeft(LAMBDA held, x : step[x][held], first, s)

\* A text is cut at every separator: the parts up to the last of them, and what
\* came after it.
Cutting(A) == [done : Seq(Seq(A)), last : Seq(A)]
cutAt(A, separator) ==
  [x \in A |-> [m \in Cutting(A) |->
     IF x = separator THEN [done |-> Append(m.done, m.last), last |-> <<>>]
     ELSE [done |-> m.done, last |-> Append(m.last, x)]]]
Split(A, separator, text) ==
  LET m == Folded(cutAt(A, separator), [done |-> <<>>, last |-> <<>>], text)
  IN  Append(m.done, m.last)
=============================================================================
