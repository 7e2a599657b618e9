-------------------------- MODULE MCCompanyContext --------------------------
(* Instances of CompanyContext for TLC: two users, one of whom keeps two   *)
(* offices, and a company nobody has created yet.                          *)
EXTENDS CompanyContext

MCFounding == [u \in Users |-> IF u = "amal" THEN {2} ELSE {}]
MCOwner == [b \in Books |-> IF b = 7 THEN 2 ELSE 1]
MCEmployed == {}
=============================================================================
