-------------------------------- MODULE Slug ---------------------------------
(***************************************************************************)
(* The sign-in name of a workspace, derived from its name at sign-up and   *)
(* again from whatever is typed into the sign-in form.  A name is a        *)
(* sequence of letters "a", "A", "e", digits "1", spaces and signs, and is *)
(* the state, so that TLC names the one that goes wrong.                   *)
(***************************************************************************)
EXTENDS Integers, Sequences, Texts

CONSTANTS
  SlugMax,  \* SLUG_MAX
  Longest   \* bound: how long the names are

\* What the constants have to be.
SlugInstance == SlugMax \in Nat /\ Longest \in Nat

VARIABLE named   \* the name of a workspace

\* deunicode, a library: an accented letter becomes its base letter, another
\* script a syllable or two with a space, and some signs disappear.
Ascii == {"a", "A", "e", "1", "-", " "}
Characters == Ascii \cup {"accented", "script", "sign"}
deunicode == [ch \in Characters |-> CASE ch = "accented" -> <<"e">>
                                      [] ch = "script"   -> <<"A", "a", " ">>
                                      [] ch = "sign"     -> <<>>
                                      [] OTHER           -> <<ch>>]

\* Mutation: capitals are kept.
LowerNot(ch) == ch

Lower(ch) == IF ch = "A" THEN "a" ELSE ch
Alphanumeric(ch) == ch \in {"a", "A", "e", "1"}

Slugging == [slug : Seq(Ascii), pending : BOOLEAN]

\* Mutation: the hyphen is written without room for what follows.
sluggedTight ==
  [ch \in Ascii |-> [state \in Slugging |->
     IF ~ Alphanumeric(ch) THEN [pending |-> TRUE, slug |-> state.slug]
     ELSE LET apart == state.pending /\ state.slug # <<>> /\ Len(state.slug) < SlugMax
              before == IF apart THEN Append(state.slug, "-") ELSE state.slug
          IN  [pending |-> FALSE,
               slug |-> IF Len(before) = SlugMax THEN before ELSE Append(before, Lower(ch))]]]

\* What slugify does with one character.  A hyphen is written only when the
\* character it stands before fits too.
slugged ==
  [ch \in Ascii |-> [state \in Slugging |->
     IF ~ Alphanumeric(ch) THEN [pending |-> TRUE, slug |-> state.slug]
     ELSE LET apart == state.pending /\ state.slug # <<>> /\ Len(state.slug) + 2 <= SlugMax
              before == IF apart THEN Append(state.slug, "-") ELSE state.slug
          IN  [pending |-> FALSE,
               slug |-> IF Len(before) = SlugMax THEN before ELSE Append(before, Lower(ch))]]]

slugify(name) ==
  Folded(slugged, [slug |-> <<>>, pending |-> FALSE], Each(deunicode, name)).slug

-----------------------------------------------------------------------------
SlugInit == named \in UNION {[1 .. n -> Characters] : n \in 0 .. Longest}
SlugSpec == SlugInit /\ [][FALSE]_named

(* A slug is short, lowercase, and words with one hyphen between them,     *)
(* wherever the name was cut (access.rs: slugify, SLUG_MAX).               *)
SlugWellFormed ==
  LET slug == slugify(named)
  IN  /\ Len(slug) <= SlugMax
      /\ \A i \in DOMAIN slug :
           \/ slug[i] \in {"a", "e", "1"}
           \/ slug[i] = "-" /\ i > 1 /\ i < Len(slug) /\ slug[i + 1] # "-"

\* A name as somebody may type it: in capitals, with hyphens for spaces, and
\* with space around it.
respelled == [ch \in Characters |-> <<IF ch = "a" THEN "A" ELSE IF ch = " " THEN "-" ELSE ch>>]
TypedAgain(name) == <<" ">> \o Each(respelled, name) \o <<" ">>

(* Typing the workspace's name, another spelling of it or its slug into    *)
(* the sign-in form finds the same workspace: its slug has the same slug   *)
(* (access.rs: slugify, check_account_name; login.rs: attempt_login).      *)
SlugFindsAgain ==
  LET slug == slugify(named)
  IN  slugify(slug) = slug /\ slugify(TypedAgain(named)) = slug /\ slugify(TypedAgain(slug)) = slug
=============================================================================
