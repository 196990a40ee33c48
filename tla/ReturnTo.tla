------------------------------ MODULE ReturnTo -------------------------------
(***************************************************************************)
(* Addresses that carry addresses: the sign-in page remembers where one    *)
(* was going, and the links of a pager carry the filters of the list and a *)
(* cursor.  A text is a sequence of bytes; white space that is not ASCII   *)
(* is left out.  What is carried is the state, so that TLC names what is   *)
(* lost.                                                                   *)
(***************************************************************************)
EXTENDS Integers, Sequences, Texts

CONSTANTS
  Addresses,    \* what somebody who is not signed in asks for
  FilterLists,  \* what a list is filtered by, field by field
  Cursors

VARIABLES
  target,   \* an address asked for
  filters,  \* the filters of a list
  cursor    \* the cursor of a link below it

addresses == <<target, filters, cursor>>

Byte == 0 .. 255
PercentSign == 37
Ampersand == 38
PlusSign == 43
SlashSign == 47
EqualsSign == 61
BackslashSign == 92
LineBreaks == {10, 13}
WhiteSpace == 9 .. 13 \cup {32}

Has(text, byte) == \E i \in DOMAIN text : text[i] = byte

NextName == <<110, 101, 120, 116>>
PrevName == <<112, 114, 101, 118>>

\* Mutation: a percent sign is left as it is.
UnreservedPercent == (48 .. 57) \cup (65 .. 90) \cup (97 .. 122) \cup {37, 45, 46, 95, 126}

Unreserved == (48 .. 57) \cup (65 .. 90) \cup (97 .. 122) \cup {45, 46, 95, 126}

\* A field's name is a word of the program, its value what somebody typed.
Filters == [name : Seq(Unreserved), value : Seq(Byte)]

\* What String::from_utf8 accepts: every character is begun by a byte that tells
\* how many follow it, and confines the second.
Beginning == 0 .. 127 \cup 194 .. 244
Continuing == 128 .. 191
Further(byte) ==
  IF byte < 128 THEN 0 ELSE IF byte < 224 THEN 1 ELSE IF byte < 240 THEN 2 ELSE 3
Second(byte) == CASE byte = 224 -> 160 .. 191
                  [] byte = 237 -> 128 .. 159
                  [] byte = 240 -> 144 .. 191
                  [] byte = 244 -> 128 .. 143
                  [] OTHER -> Continuing
Begun(text, i) ==
  /\ text[i] \in Beginning
  /\ \A k \in 1 .. Further(text[i]) :
       /\ i + k \in DOMAIN text
       /\ text[i + k] \in (IF k = 1 THEN Second(text[i]) ELSE Continuing)
Continued(text, i) ==
  /\ text[i] \in Continuing
  /\ \E k \in 1 .. 3 :
       i - k \in DOMAIN text /\ text[i - k] \in Beginning /\ k <= Further(text[i - k])
IsUtf8(text) == \A i \in DOMAIN text : Begun(text, i) \/ Continued(text, i)

\* What the constants have to be.
ReturnToInstance ==
  /\ Addresses \subseteq {text \in Seq(Byte) : IsUtf8(text)}
  /\ FilterLists \subseteq Seq(Filters) /\ Cursors \subseteq Seq(Byte)

-----------------------------------------------------------------------------
(* Encoding and decoding.                                                  *)

HexDigit(n) == IF n < 10 THEN 48 + n ELSE 55 + n
HexValue(byte) == CASE byte \in 48 .. 57  -> byte - 48
                    [] byte \in 65 .. 70  -> byte - 55
                    [] byte \in 97 .. 102 -> byte - 87
                    [] OTHER              -> 16

encoded == [b \in Byte |-> IF b \in Unreserved THEN <<b>>
                           ELSE <<PercentSign, HexDigit(b \div 16), HexDigit(b % 16)>>]
urlencode(text) == Each(encoded, text)

Nothing == [ok |-> FALSE, text |-> <<>>]
Just(text) == [ok |-> TRUE, text |-> text]

\* A plus sign is a blank.
Literal(byte) == IF byte = PlusSign THEN 32 ELSE byte

\* Two hex digits, or a plus sign and one: what the standard library reads.
Readable(a, b) == HexValue(b) # 16 /\ (a = PlusSign \/ HexValue(a) # 16)
Escaped(a, b) == IF a = PlusSign THEN HexValue(b) ELSE 16 * HexValue(a) + HexValue(b)

\* What was read, and what of an escape.
Reading == [ok : BOOLEAN, text : Seq(Byte), escape : Seq(Byte)]

\* What one more byte makes of it.
decoded ==
  [b \in Byte |-> [m \in Reading |->
     CASE m.escape = <<>> /\ b = PercentSign -> [ok |-> m.ok, text |-> m.text, escape |-> <<b>>]
       [] m.escape = <<>> /\ b # PercentSign ->
            [ok |-> m.ok, text |-> Append(m.text, Literal(b)), escape |-> <<>>]
       [] Len(m.escape) = 1 -> [ok |-> m.ok, text |-> m.text, escape |-> Append(m.escape, b)]
       [] OTHER -> IF Readable(m.escape[2], b)
                   THEN [ok |-> m.ok, text |-> Append(m.text, Escaped(m.escape[2], b)), escape |-> <<>>]
                   ELSE [ok |-> FALSE, text |-> m.text, escape |-> <<>>]]]

\* percent_decode up to its last line: an escape must not end early either.
Decoded(text) ==
  LET m == Folded(decoded, [ok |-> TRUE, text |-> <<>>, escape |-> <<>>], text)
  IN  IF m.ok /\ m.escape = <<>> THEN Just(m.text) ELSE Nothing

-----------------------------------------------------------------------------
(* Queries.                                                                *)

Parts(query) == Split(Byte, Ampersand, query)

\* What comes before the first equals sign, and after it.
KeyOf(pair) == LET at == CHOOSE i \in 1 .. Len(pair) + 1 :
                           /\ i > Len(pair) \/ pair[i] = EqualsSign
                           /\ \A j \in 1 .. i - 1 : pair[j] # EqualsSign
               IN  SubSeq(pair, 1, at - 1)
ValueOf(pair) == SubSeq(pair, Len(KeyOf(pair)) + 2, Len(pair))

\* What the framework reads of a query: every value of a name.  What is not UTF-8,
\* which it replaces, is left out.
Fields(query, name) ==
  LET parts == Parts(query)
  IN  {Decoded(ValueOf(parts[i])) : i \in {j \in DOMAIN parts : parts[j] # <<>> /\ KeyOf(parts[j]) = name}}

-----------------------------------------------------------------------------
(* Where to go after signing in.                                           *)

Trimmed(text) ==
  LET solid == {i \in DOMAIN text : text[i] \notin WhiteSpace}
  IN  IF solid = {} THEN <<>>
      ELSE SubSeq(text, CHOOSE i \in solid : \A j \in solid : i <= j,
                        CHOOSE i \in solid : \A j \in solid : i >= j)

\* On this site, and nothing that ends a header.
SameOrigin(text) ==
  /\ text # <<>> /\ text[1] = SlashSign /\ ~ (Len(text) > 1 /\ text[2] = SlashSign)
  /\ ~ Has(text, BackslashSign) /\ \A b \in LineBreaks : ~ Has(text, b)

safe_return_target(candidate) ==
  IF SameOrigin(Trimmed(candidate)) THEN Just(Trimmed(candidate)) ELSE Nothing

percent_decode(text) ==
  LET read == Decoded(text)
  IN  IF read.ok /\ IsUtf8(read.text) THEN safe_return_target(read.text) ELSE Nothing

\* The first pair of that key whose value is acceptable.
return_target(query) ==
  LET parts == Parts(query)
      good == {i \in DOMAIN parts : /\ Has(parts[i], EqualsSign) /\ KeyOf(parts[i]) = NextName
                                    /\ percent_decode(ValueOf(parts[i])).ok}
  IN  IF good = {} THEN Nothing
      ELSE percent_decode(ValueOf(parts[CHOOSE i \in good : \A j \in good : i <= j]))

\* login_location: the query the guard sends a visitor to the sign-in page with.
login_location(asked) ==
  LET kept == safe_return_target(asked)
  IN  IF kept.ok /\ kept.text # <<SlashSign>>
      THEN NextName \o <<EqualsSign>> \o urlencode(kept.text) ELSE <<>>

\* The guard, for somebody who is signed in by then.
redirected(query) == IF return_target(query).ok THEN return_target(query).text ELSE <<SlashSign>>

\* What the form of the sign-in page keeps of its query.
login_form(query) ==
  LET said == Fields(query, NextName)
  IN  IF said = {} THEN <<>> ELSE safe_return_target((CHOOSE f \in said : TRUE).text).text

\* And where it leads.
landing(candidate) ==
  IF safe_return_target(candidate).ok THEN safe_return_target(candidate).text ELSE <<SlashSign>>

-----------------------------------------------------------------------------
(* The links of a pager.                                                   *)

\* Mutation: values are written as they were typed.
addedRaw ==
  [f \in Filters |-> [out \in Seq(Byte) |->
     IF f.value = <<>> THEN out
     ELSE (IF out = <<>> THEN <<>> ELSE Append(out, Ampersand)) \o f.name \o <<EqualsSign>> \o f.value]]

\* One more filter, if it is set.
added ==
  [f \in Filters |-> [out \in Seq(Byte) |->
     IF f.value = <<>> THEN out
     ELSE (IF out = <<>> THEN <<>> ELSE Append(out, Ampersand))
          \o f.name \o <<EqualsSign>> \o urlencode(f.value)]]
query_string(pairs) == Folded(added, <<>>, pairs)

\* cursor_link: its query.
cursor_link(query, key, at) ==
  Each([part \in Seq(Byte) |-> IF part = <<>> \/ KeyOf(part) = key THEN <<>> ELSE Append(part, Ampersand)],
       Parts(query))
  \o key \o <<EqualsSign>> \o urlencode(at)

-----------------------------------------------------------------------------
ReturnToInit == target \in Addresses /\ filters \in FilterLists /\ cursor \in Cursors
ReturnToSpec == ReturnToInit /\ [][FALSE]_addresses

(* Whoever is sent to the sign-in page comes back to the address they      *)
(* asked for, its own query and escapes as they were, by the form and by   *)
(* the guard if they are signed in when they get there (auth.rs:           *)
(* login_location, return_target; login.rs: login_form, landing).          *)
ComesBack ==
  safe_return_target(target).ok =>
    /\ landing(login_form(login_location(target))) = Trimmed(target)
    /\ redirected(login_location(target)) = Trimmed(target)

(* A link of the pager keeps the filters of its list, whatever was typed   *)
(* into them, and names one cursor (views.rs: query_string, cursor_link).  *)
LinksKeepFilters ==
  \A key \in {PrevName, NextName}, name \in {f.name : f \in Range(filters)} \cup {PrevName, NextName} :
    Fields(cursor_link(query_string(filters), key, cursor), name) =
      IF name = key THEN {Just(cursor)}
      ELSE {Just(f.value) : f \in {g \in Range(filters) : g.name = name /\ g.value # <<>>}}
=============================================================================
