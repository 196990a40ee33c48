------------------------------ MODULE DealForm -------------------------------
(***************************************************************************)
(* One deal and the form it is entered and edited with: what the form is   *)
(* filled with, what saving makes of it, and the display zone through      *)
(* which its expected close goes in and out.  Dates are day numbers (Dates *)
(* converts them), instants are hours since the epoch.                     *)
(*                                                                         *)
(* The links to a company and a contact are in Records; the texts of title *)
(* and notes are stored as they are.                                       *)
(***************************************************************************)
EXTENDS Integers

CONSTANTS
  Editors,   \* edit forms open at the same time
  Zones,     \* display zones: [before, after, at], the offsets around a change
  Typed,     \* bound: the dates that are typed
  Amounts    \* bound: the amounts that are typed

Zone == [before : -23 .. 23, after : -23 .. 23, at : Int]
\* What the constants have to be.
DealFormInstance == Zones \subseteq Zone /\ Typed \subseteq Nat /\ Amounts \subseteq Nat

Stages == {"lead", "qualified", "proposal", "negotiation", "won", "lost"}
NoDate == -1000    \* a field left blank, or no date in the row
Garbage == -2000   \* a text that is neither a number nor a date
NoDeal == [none |-> TRUE]
Closed == [none |-> TRUE]

VARIABLES
  zone,   \* the zone of the installation
  deal,   \* the row, or NoDeal
  forms,  \* forms[e]: the form that e has open, as it was filled in, or Closed
  meant   \* the date last typed for the deal

dealForm == <<zone, deal, forms, meant>>

-----------------------------------------------------------------------------
(* The zone.                                                               *)

Offset(t) == IF t < zone.at THEN zone.before ELSE zone.after

\* Mutation: the zone is forgotten.
format_dateInUtc(t) == t \div 24

\* format_date: the civil date an instant falls on.
format_date(t) == (t + Offset(t)) \div 24

\* Midnight of a date: the first instant that shows it, or, where the clock
\* jumps over midnight, the instant it would have been.
Midnight(d) ==
  LET shown == {t \in {24 * d - zone.before, 24 * d - zone.after} : t + Offset(t) = 24 * d}
  IN  IF shown = {} THEN 24 * d - zone.before
      ELSE CHOOSE t \in shown : \A u \in shown : t <= u

start_of_day(t) == Midnight(format_date(t))

\* The start of the local day that midnight UTC of the date falls on.
parse_date_in(d) == start_of_day(24 * d)

-----------------------------------------------------------------------------
(* The form.  A text that is no amount counts as nothing, one that is no   *)
(* date as no date, one that is no stage as the first.  That an amount     *)
(* reads back as it was written is MoneyRoundTrips.                        *)

form_money(text) == IF text = Garbage THEN 0 ELSE text
StageOf(text) == IF text \in Stages THEN text ELSE "lead"   \* Stage::parse
CloseOf(text) == IF text \in {Garbage, NoDate} THEN NoDate ELSE parse_date_in(text)

Row(form) == [value |-> form_money(form.value), stage |-> StageOf(form.stage),
              close |-> CloseOf(form.close)]

\* What the edit form is filled with.
Filled(row) == [value |-> row.value, stage |-> row.stage,
                close |-> IF row.close = NoDate THEN NoDate ELSE format_date(row.close)]

Texts == [value : Amounts \cup {Garbage}, stage : Stages \cup {"nonsense"},
          close : Typed \cup {NoDate, Garbage}]

\* Typing over one field of an open form.
Retyped(form) ==
  {form} \cup {[form EXCEPT !.value = v] : v \in Amounts \cup {Garbage}}
         \cup {[form EXCEPT !.stage = s] : s \in Stages}
         \cup {[form EXCEPT !.close = d] : d \in Typed \cup {NoDate}}

Saved(form) == deal' = Row(form)

Create ==
  /\ deal = NoDeal
  /\ \E form \in Texts :
       Saved(form) /\ meant' = IF form.close \in Typed THEN form.close ELSE NoDate
  /\ UNCHANGED <<zone, forms>>

Open(e) ==
  /\ deal # NoDeal /\ forms[e] = Closed
  /\ forms' = [forms EXCEPT ![e] = Filled(deal)]
  /\ UNCHANGED <<zone, deal, meant>>

\* update writes every column with what the form says of it.
Save(e) ==
  /\ forms[e] # Closed
  /\ \E form \in Retyped(forms[e]) :
       /\ Saved(form)
       /\ meant' = IF form.close # forms[e].close THEN form.close ELSE meant
  /\ forms' = [forms EXCEPT ![e] = Closed]
  /\ UNCHANGED zone

\* set_stage, from the deal's own page.
SetStage(s) ==
  /\ deal # NoDeal
  /\ deal' = [deal EXCEPT !.stage = StageOf(s)]
  /\ UNCHANGED <<zone, forms, meant>>

DealFormInit ==
  /\ zone \in Zones /\ deal = NoDeal
  /\ forms = [e \in Editors |-> Closed] /\ meant = NoDate

DealFormNext ==
  \/ Create
  \/ \E e \in Editors : Open(e)
  \/ \E e \in Editors : Save(e)
  \/ \E s \in Stages : SetStage(s)

DealFormSpec == DealFormInit /\ [][DealFormNext]_dealForm

-----------------------------------------------------------------------------
(* The date of a deal, shown back in the zone, is the date last typed for  *)
(* it, through any number of edits of its other fields and across changes  *)
(* of the clock (domain.rs: parse_date_in, format_date; deals.rs).         *)
DateShownIsDateTyped ==
  deal # NoDeal => Filled(deal).close = meant
=============================================================================
