----------------------------- MODULE MCEndToEnd -----------------------------
(***************************************************************************)
(* A smoke run of one task, then the sweep of two over one directory.      *)
(***************************************************************************)
EXTENDS EndToEnd

S(arm, task) == [arm |-> arm, task |-> task, repeat |-> 0]

MCPlans == {<<S(0, "t1"), S(2, "t1")>>,
            <<S(0, "t1"), S(0, "t2"), S(2, "t1"), S(2, "t2")>>}
=============================================================================
