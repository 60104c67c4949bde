-------------------------- MODULE InstanceLifecycle -------------------------
(***************************************************************************)
(* What a client of a workflow instance sees: the phase it is in, whether   *)
(* it is filed away (archived) and the state version every command fences   *)
(* on.  It knows nothing of nodes, visits, receipts or definitions.         *)
(***************************************************************************)
EXTENDS Naturals

VARIABLES phase, filed, version

lifecycle == <<phase, filed, version>>

Phases   == {"ABSENT", "WORKING", "AWAITING_OWNER", "COMPLETED", "CANCELLED"}
Live     == {"WORKING", "AWAITING_OWNER"}
Finished == {"COMPLETED", "CANCELLED"}

Init == phase = "ABSENT" /\ filed = FALSE /\ version = 0

(* One version, from a phase of `from` to a phase of `to`. *)
Step(from, to) ==
    /\ phase \in from /\ phase' \in to
    /\ version' = version + 1
    /\ UNCHANGED filed

Begin == Step({"ABSENT"}, {"WORKING"})

(* Work moves only while nobody waits for the owner. *)
Move == Step({"WORKING"}, {"WORKING", "COMPLETED"})

(* The move that uses up a RETURN edge also asks the owner, and counts twice. *)
MoveAndAsk ==
    /\ phase = "WORKING" /\ phase' = "AWAITING_OWNER"
    /\ version' = version + 2
    /\ UNCHANGED filed

Ask    == Step({"WORKING"}, {"AWAITING_OWNER"})
Answer == Step({"AWAITING_OWNER"}, Live)
Cancel == Step(Live, {"CANCELLED"})

(* A context revision, a context repair or a wake: the version moves and    *)
(* nothing else does.  Revising does not stop at cancellation, nor at       *)
(* archival, and repairing not at completion.                               *)
Amend == Step(Live \cup Finished, {phase})

File ==
    /\ phase \in Finished /\ ~filed
    /\ filed' = TRUE
    /\ version' = version + 1
    /\ UNCHANGED phase

(* The administrator may take back even a completion, but not a             *)
(* cancellation and nothing that was filed.                                 *)
Override == ~filed /\ Step(Live \cup {"COMPLETED"}, {"WORKING", "COMPLETED"})

Next == \/ Begin \/ Move \/ MoveAndAsk \/ Ask \/ Answer
        \/ Cancel \/ Amend \/ File \/ Override

Spec == Init /\ [][Next]_lifecycle
=============================================================================
