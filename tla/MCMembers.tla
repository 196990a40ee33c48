------------------------------ MODULE MCMembers ------------------------------
(* Instances of Members for TLC.                                            *)
EXTENDS Members, TLC

\* What changes who administers a workspace, or makes and deletes members, with
\* activities to name them.
Administration == {"create", "update", "set_active", "destroy", "log", "login"}
\* What opens sessions and what ends them because of something else.
Signing == {"create", "update", "set_active", "reset_password", "change_password",
            "revoke_others", "logout", "login"}
\* What reaches members and sessions by id, and makes and deletes them.
Reaching == {"create", "destroy", "revoke_sessions", "login"}
\* What gives out names.
Naming == {"create"}
\* What makes history, and deletes members who have none.
History == {"create", "destroy", "log", "login"}

Symmetry == Permutations(Requests)
=============================================================================
