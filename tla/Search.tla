------------------------------- MODULE Search --------------------------------
(***************************************************************************)
(* The search boxes of the list pages: the term becomes a pattern of the   *)
(* database's ILIKE ... ESCAPE '\', in which % stands for any text and _   *)
(* for any one character.  The term and a text it is compared with are the *)
(* state, so that TLC names those that go wrong.                           *)
(***************************************************************************)
EXTENDS Integers, Sequences, Texts

CONSTANTS
  Symbols,   \* what terms and texts consist of
  MaxTerm,   \* bound: length of a term
  MaxStored  \* bound: length of a text

\* What the constants have to be.
SearchInstance == {"%", "_", "\\"} \subseteq Symbols /\ MaxTerm \in Nat /\ MaxStored \in Nat

VARIABLES
  sought,  \* the term of a search
  stored   \* a text of the database

search == <<sought, stored>>

\* Mutation: the escape character is not escaped.
escapedPlain == [ch \in Symbols |-> IF ch \in {"%", "_"} THEN <<"\\", ch>> ELSE <<ch>>]

escaped == [ch \in Symbols |-> IF ch \in {"\\", "%", "_"} THEN <<"\\", ch>> ELSE <<ch>>]

like_contains(term) == <<"%">> \o Each(escaped, term) \o <<"%">>

-----------------------------------------------------------------------------
(* The database's side of it.                                              *)

\* A character matches without regard to its case.
Caseless(ch) == IF ch = "A" THEN "a" ELSE ch

\* The places of a text up to which it is matched by what of the pattern was
\* read, and whether the next character of the pattern is escaped.
Matching(text) == [upTo : SUBSET (0 .. Len(text)), literal : BOOLEAN]

\* What one more character of the pattern makes of them.
matched(text) ==
  [ch \in Symbols |-> [m \in Matching(text) |->
     CASE ch = "\\" /\ ~ m.literal -> [upTo |-> m.upTo, literal |-> TRUE]
       [] ch = "%" /\ ~ m.literal ->
            [upTo |-> {t \in 0 .. Len(text) : \E i \in m.upTo : i <= t}, literal |-> FALSE]
       [] ch = "_" /\ ~ m.literal ->
            [upTo |-> {t \in 1 .. Len(text) : t - 1 \in m.upTo}, literal |-> FALSE]
       [] OTHER ->
            [upTo |-> {t \in 1 .. Len(text) : t - 1 \in m.upTo /\ Caseless(text[t]) = Caseless(ch)},
             literal |-> FALSE]]]

Ilike(pattern, text) ==
  LET m == Folded(matched(text), [upTo |-> {0}, literal |-> FALSE], pattern)
  IN  Len(text) \in m.upTo /\ ~ m.literal

-----------------------------------------------------------------------------
TextsUpTo(longest) == UNION {[1 .. n -> Symbols] : n \in 0 .. longest}
SearchInit == sought \in TextsUpTo(MaxTerm) /\ stored \in TextsUpTo(MaxStored)
SearchSpec == SearchInit /\ [][FALSE]_search

Occurs(term, text) ==
  \E i \in 0 .. Len(text) - Len(term) :
    \A j \in DOMAIN term : Caseless(text[i + j]) = Caseless(term[j])

(* A search finds the texts the term occurs in, in any case, and no other: *)
(* nothing in a term is a wildcard, the escape character included          *)
(* (domain.rs: like_contains; search.rs: contains_ignoring_case).          *)
FindsTheTermItself == Ilike(like_contains(sought), stored) <=> Occurs(sought, stored)
=============================================================================
