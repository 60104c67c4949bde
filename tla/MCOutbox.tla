------------------------------ MODULE MCOutbox ------------------------------
(***************************************************************************)
(* Rows for TLC: a transition and a completion of one instance, queued with *)
(* random ids that order them the other way round, a later event of the     *)
(* same instance, a kick and an owner wake.                                 *)
(***************************************************************************)
EXTENDS OutboxProperties, TLC

CONSTANTS first, second, moved, ended, filed, kick, wake, i1, w1, w2, none

MCInstanceOf == (first :> i1) @@ (second :> i1)
AllCommandOf == (moved :> first) @@ (ended :> first) @@ (filed :> second)
                @@ (kick :> first) @@ (wake :> second)
AllKind == (moved :> "FORUM_EVENT") @@ (ended :> "FORUM_EVENT")
           @@ (filed :> "FORUM_EVENT") @@ (kick :> "EXECUTION_KICK")
           @@ (wake :> "OWNER_ASSISTANCE_WAKE")
AllId == (moved :> 2) @@ (ended :> 1) @@ (filed :> 3) @@ (kick :> 4)
         @@ (wake :> 5)

MCCommandOf == [r \in Rows |-> AllCommandOf[r]]
MCKind      == [r \in Rows |-> AllKind[r]]
MCId        == [r \in Rows |-> AllId[r]]
=============================================================================
