------------------------------ MODULE Briefings ------------------------------
(***************************************************************************)
(* What becomes of the AI provider's answer about a contact: read as JSON  *)
(* or as a list, stored one bullet a line, read back for the contact's     *)
(* page.  What was asked is in Prompt, when a briefing is generated and by *)
(* whom in Records.  The answer is the state, so that TLC names the one    *)
(* that is mistaken.                                                       *)
(*                                                                         *)
(* A text is a sequence of "w" (a letter), "3" (a digit), "-" (a marker),  *)
(* "." (a full stop or parenthesis), " " and "nl" (a line break).          *)
(***************************************************************************)
EXTENDS Integers, Sequences, Texts

CONSTANTS
  Replies,      \* replies that are plain text
  BulletLists,  \* the bullets of replies that are JSON
  Wrappings     \* the whole text of such a reply

VARIABLE answer   \* what the provider answered

White == {" ", "nl"}
Markers == {"-", " "}
Alphabet == {"w", "3", "-", ".", " ", "nl"}
Lettering == Seq(Alphabet)

\* What the constants have to be.
BriefingInstance ==
  Replies \subseteq Lettering /\ BulletLists \subseteq Seq(Lettering) /\ Wrappings \subseteq Lettering

\* trim_start_matches.
dropped(chars) ==
  [ch \in Alphabet |-> [out \in Lettering |->
     IF out = <<>> /\ ch \in chars THEN <<>> ELSE Append(out, ch)]]
TrimStart(text, chars) == Folded(dropped(chars), <<>>, text)

\* trim: white space is kept only before something else.
Trimming == [text : Lettering, after : Lettering]
trimmed ==
  [ch \in Alphabet |-> [m \in Trimming |->
     CASE ch \notin White -> [text |-> Append(m.text \o m.after, ch), after |-> <<>>]
       [] ch \in White /\ m.text = <<>> -> m
       [] OTHER -> [text |-> m.text, after |-> Append(m.after, ch)]]]
Trim(text) == Folded(trimmed, [text |-> <<>>, after |-> <<>>], text).text

\* lines, and one that would follow the last line break.
Lines(text) == Split(Alphabet, "nl", text)

\* What is filtered out if it is empty.
Solid(text) == IF text = <<>> THEN <<>> ELSE <<text>>

-----------------------------------------------------------------------------
(* The answer is read.                                                     *)

\* A line that looks like an entry of a list.
Numbered(line) ==
  \E i \in 2 .. Len(line) : line[i] = "." /\ \A j \in 1 .. i - 1 : line[j] = "3"
Entry(line) == line # <<>> /\ (line[1] = "-" \/ Numbered(line))

\* Its marker is dropped, and then its number or any other that comes first.
Unmarked(line) == Trim(TrimStart(TrimStart(TrimStart(line, Markers), {"3"}), {".", " "}))

entries ==
  [line \in Lettering |-> IF Entry(Trim(line)) THEN Solid(Unmarked(Trim(line))) ELSE <<>>]
parse_lines(text) == Each(entries, Lines(text))

bulleted == [bullet \in Lettering |-> Solid(Trim(bullet))]

\* parse_json: an object in the text, fenced or not, that lists a bullet.
Listed(reply) == reply.json /\ Each(bulleted, reply.bullets) # <<>>

\* parse: or else the list, out of the whole text.
Parsed(reply) == IF Listed(reply) THEN Each(bulleted, reply.bullets) ELSE parse_lines(reply.text)

\* generate: an answer that is no reply, or one without bullets, is an error.
generate(reply) ==
  IF reply.kind # "reply" \/ Parsed(reply) = <<>> THEN [ok |-> FALSE, bullets |-> <<>>]
  ELSE [ok |-> TRUE, bullets |-> Parsed(reply)]

-----------------------------------------------------------------------------
(* The briefing is stored, and shown.                                      *)

\* Mutation: the bullets are joined by blanks.
joinedInOneLine ==
  [bullet \in Lettering |-> [out \in Lettering |->
     IF out = <<>> THEN bullet ELSE Append(out, " ") \o bullet]]

\* None of them is empty.
joined ==
  [bullet \in Lettering |-> [out \in Lettering |->
     IF out = <<>> THEN bullet ELSE Append(out, "nl") \o bullet]]
to_text(bullets) == Folded(joined, <<>>, bullets)

\* Mutation: lines that are only markers are kept.
listedBlank ==
  [line \in Lettering |->
     IF Trim(line) = <<>> THEN <<>> ELSE <<TrimStart(TrimStart(Trim(line), Markers), {" "})>>]

listed ==
  [line \in Lettering |->
     IF Trim(line) = <<>> THEN <<>> ELSE Solid(TrimStart(TrimStart(Trim(line), Markers), {" "}))]
from_text(text) == Each(listed, Lines(text))

Shown(reply) == from_text(to_text(generate(reply).bullets))

-----------------------------------------------------------------------------
Answers ==
  [kind : {"transport", "status", "unreadable"}, json : {FALSE}, text : {<<>>}, bullets : {<<>>}]
  \cup [kind : {"reply"}, json : {FALSE}, text : Replies, bullets : {<<>>}]
  \cup [kind : {"reply"}, json : {TRUE}, text : Wrappings, bullets : BulletLists]

BriefingInit == answer \in Answers
BriefingSpec == BriefingInit /\ [][FALSE]_answer

inks == [ch \in Alphabet |-> IF ch \in White \cup Markers THEN <<>> ELSE <<ch>>]
inked == [text \in Lettering |-> Each(inks, text)]
Ink(texts) == Each(inked, texts)

\* A bullet that neither begins with a marker nor contains a line break.
Plain(bullet) == bullet[1] \notin Markers /\ \A i \in DOMAIN bullet : bullet[i] # "nl"

(* A briefing that was accepted is read back as it was stored: nothing but *)
(* markers and blanks is lost, and bullets that neither begin with a       *)
(* marker nor contain a line break are the same (ai.rs: to_text,           *)
(* from_text).                                                             *)
BriefingKept ==
  LET bullets == generate(answer).bullets
  IN  /\ Ink(Shown(answer)) = Ink(bullets)
      /\ (\A i \in DOMAIN bullets : Plain(bullets[i])) => Shown(answer) = bullets

\* The lines of what the provider said.
lined == [text \in Lettering |-> Lines(text)]
Said(reply) ==
  IF reply.kind # "reply" THEN <<>>
  ELSE IF Listed(reply) THEN Each(lined, reply.bullets) ELSE Lines(reply.text)

\* A line is a bullet after nothing but some characters.
EndsIn(line, bullet, chars) ==
  LET n == Len(line) - Len(bullet)
  IN  n >= 0 /\ SubSeq(line, n + 1, Len(line)) = bullet /\ \A k \in 1 .. n : line[k] \in chars

(* What is shown was said: a bullet of a JSON reply less its markers, or,  *)
(* when it is none or lists nothing, the end of a line after nothing but   *)
(* markers, a number and its full stop; and what a failed request leaves   *)
(* is no briefing (ai.rs: generate, parse).                                *)
BriefingSaid ==
  LET before == IF Listed(answer) THEN Markers ELSE Markers \cup {"3", "."}
  IN  \A bullet \in Range(Shown(answer)) :
        bullet # <<>> /\ \E line \in Range(Said(answer)) : EndsIn(Trim(line), bullet, before)
=============================================================================
