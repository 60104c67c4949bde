------------------------- MODULE MCWorkflowInstance -------------------------
(***************************************************************************)
(* Definition graphs for TLC.                                               *)
(*                                                                          *)
(*   n1 --forward--> n2 --finish--> n3        n2 --back--> n1               *)
(*                   n2 --abort--> n3 (Legacy)                              *)
(***************************************************************************)
EXTENDS InstanceQueries, TLC

CONSTANTS n1, n2, n3, forward, finish, back, abort, none

MCNodes       == {n1, n2, n3}
MCTransitions == IF Legacy THEN {forward, finish, back, abort}
                 ELSE {forward, finish, back}

MCNodeType == (n1 :> IF Legacy THEN "DRAFT" ELSE "TASK")
              @@ (n2 :> "TASK") @@ (n3 :> "TERMINAL")
MCOrderIndex == (n1 :> 1) @@ (n2 :> 2) @@ (n3 :> 3)

Ends(a, b, c, d) ==
    [t \in MCTransitions |-> CASE t = forward -> a [] t = finish -> b
                               [] t = back -> c [] OTHER -> d]
MCSource  == Ends(n1, n2, n2, n2)
MCTarget  == Ends(n2, n3, n1, n3)
MCEffect  == Ends("ADVANCE", "ADVANCE", "RETURN", "TERMINATE")
MCPrimary == {forward, finish}
=============================================================================
