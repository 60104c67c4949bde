---------------------------- MODULE EventReplay -----------------------------
(***************************************************************************)
(* Recovery replay: rebuilds an instance's projection from its immutable    *)
(* event log and refuses a log the runtime could not have produced.         *)
(* ADMIN_EMERGENCY_OVERRIDE and REBUILD_PROJECTION run it under the         *)
(* instance lock.                                                           *)
(*                                                                          *)
(* The code folds the events into one mutable struct.  Every field of that  *)
(* struct is a function of the events folded so far, so it is written here  *)
(* as one (StateAfter) and a log is accepted when each event is accepted in *)
(* the state before it; ReplayFold holds the fold itself.                   *)
(***************************************************************************)
EXTENDS WorkflowDefinition

OpenStatus == {"OWNER_PENDING", "HUMAN_REQUIRED"}

(* The status an assistance event leaves its case in. *)
StatusGiven ==
    [ASSISTANCE_REQUESTED          |-> "OWNER_PENDING",
     ASSISTANCE_ESCALATED_TO_HUMAN |-> "HUMAN_REQUIRED",
     ASSISTANCE_RESOLVED           |-> "RESOLVED"]

AssistanceTypes == DOMAIN StatusGiven

(* Fault: a case keeps the status of its first event. *)
FirstOf(events, m, c) ==
    CHOOSE i \in 1..m :
        /\ events[i].type \in AssistanceTypes /\ events[i].case = c
        /\ \A j \in 1..(i - 1) :
              events[j].type \in AssistanceTypes => events[j].case # c

LastOf(events, m, c) ==
    CHOOSE i \in 1..m :
        /\ events[i].type \in AssistanceTypes /\ events[i].case = c
        /\ \A j \in (i + 1)..m :
              events[j].type \in AssistanceTypes => events[j].case # c

(* struct Replay after the first m events: the projection so far, the       *)
(* visits some event has introduced and the status and visit of every case  *)
(* seen.                                                                    *)
StateAfter(events, m) ==
    [version    |-> IF m = 0 THEN 0 ELSE events[m].version,
     visit      |-> IF m = 0 THEN 0 ELSE events[m].target,
     context    |-> IF m = 0 THEN 0 ELSE events[m].context,
     introduced |-> {events[i].target : i \in 1..m},
     cases      |->
        [c \in {events[i].case : i \in {j \in 1..m :
                                   events[j].type \in AssistanceTypes}} |->
            LET e == events[LastOf(events, m, c)]
            IN  [visit |-> e.source, status |-> StatusGiven[e.type]]]]

-----------------------------------------------------------------------------
(* What apply() checks before it folds e into state s.                      *)

CaseOpenIn(s, visit) ==
    \E c \in DOMAIN s.cases :
        s.cases[c].visit = visit /\ s.cases[c].status \in OpenStatus

(* The target of a moving event is a visit fact no earlier event introduced *)
(* and that was entered by the event's own transition.                      *)
MovesTo(s, e, visits, by) ==
    /\ e.source = s.visit
    /\ e.target \in DOMAIN visits
    /\ e.target \notin s.introduced
    /\ visits[e.target].by = by

Follows(s, e, visits) ==
    /\ e.edge \in Transitions
    /\ Source[e.edge] = visits[s.visit].node
    /\ MovesTo(s, e, visits, e.edge)
    /\ Target[e.edge] = visits[e.target].node
    /\ ~CaseOpenIn(s, s.visit)

(* An assistance event names the current visit and the current context. *)
OnCurrentVisit(s, e) ==
    e.source = s.visit /\ e.target = s.visit /\ e.context = s.context

CaseIs(s, e, statuses) ==
    /\ e.case \in DOMAIN s.cases
    /\ s.cases[e.case].visit = s.visit
    /\ s.cases[e.case].status \in statuses

(* Event types that have no arm are refused: WORKFLOW_INSTANCE_CANCELLED,   *)
(* WORKFLOW_INSTANCE_ARCHIVED and WAKE_DISPATCH_INTENT.                     *)
Accepts(s, e, visits) ==
    /\ e.version = s.version + 1
    /\ \/ /\ e.type = "INSTANCE_CREATED"
          /\ s.version = 0
          /\ e.target \in DOMAIN visits
          /\ NodeType[visits[e.target].node] = "DRAFT"
          /\ e.context = 1
       \/ /\ e.type = "CONTEXT_REVISED"
          /\ e.source = s.visit /\ e.target = s.visit
          /\ e.context = s.context + 1
          /\ NodeType[visits[s.visit].node] = "DRAFT"
       \/ /\ e.type = "WORKFLOW_TRANSITION_COMMITTED"
          /\ e.context = s.context
          /\ Follows(s, e, visits)
       \/ /\ e.type = "WORKFLOW_CONTEXT_REVISED_AND_TRANSITION_COMMITTED"
          /\ e.context = s.context + 1
          /\ Follows(s, e, visits)
          /\ Effect[e.edge] = "ADVANCE"
       \/ /\ e.type = "ADMIN_EMERGENCY_OVERRIDE_COMMITTED"
          /\ e.context = s.context
          /\ MovesTo(s, e, visits, NoTransition)
       \/ /\ e.type = "ASSISTANCE_REQUESTED"
          /\ OnCurrentVisit(s, e)
          /\ e.case \notin DOMAIN s.cases
       \/ /\ e.type = "ASSISTANCE_ESCALATED_TO_HUMAN"
          /\ OnCurrentVisit(s, e)
          /\ CaseIs(s, e, {"OWNER_PENDING"})
       \/ /\ e.type = "ASSISTANCE_RESOLVED"
          /\ OnCurrentVisit(s, e)
          /\ CaseIs(s, e, OpenStatus)

(* finish(): the log is not empty and every immutable fact was introduced   *)
(* by an event of it.                                                       *)
Reconstructs(events, visits, revisions) ==
    LET n == Len(events)
    IN  /\ n > 0
        /\ \A i \in 1..n : Accepts(StateAfter(events, i - 1), events[i], visits)
        /\ StateAfter(events, n).introduced = DOMAIN visits
        /\ StateAfter(events, n).context = revisions
=============================================================================
