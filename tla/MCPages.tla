------------------------------- MODULE MCPages -------------------------------
(* An instance of Pages for TLC in which two rows share the sort key.       *)
EXTENDS Pages

ByName == [field |-> "name", direction |-> "a"]
\* Rows 1 and 2 have the same name.
Namesakes == [r \in Rows |-> IF r = 2 THEN 1 ELSE r]
=============================================================================
