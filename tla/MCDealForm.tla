----------------------------- MODULE MCDealForm ------------------------------
(* An instance of DealForm for TLC, in a zone west of Greenwich.            *)
EXTENDS DealForm

CONSTANT anna

NewYork == [before |-> -5, after |-> -5, at |-> 0]
West == {NewYork}
=============================================================================
