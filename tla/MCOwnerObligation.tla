------------------------ MODULE MCOwnerObligation ------------------------
(***************************************************************************)
(* An INTAKE with an operation on its first node, a gated second node and   *)
(* the terminal; a REVIEW with one operation node that resolves or          *)
(* escalates.                                                               *)
(***************************************************************************)
EXTENDS OwnerProperties, TLC

CONSTANTS ann, bob, nobody

MCLast       == ("INTAKE" :> 3) @@ ("REVIEW" :> 2)
MCOpNodes    == ("INTAKE" :> {1}) @@ ("REVIEW" :> {1})
MCGateNodes  == {2}
MCProducer   == [g \in {2} |-> 1]
MCOperations == ("INTAKE" :> {"CREATE"}) @@ ("REVIEW" :> {"RESOLVE", "ESCALATE"})

Symmetry == Permutations(Owners)
=============================================================================
