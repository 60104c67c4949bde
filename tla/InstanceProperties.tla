------------------------- MODULE InstanceProperties -------------------------
(***************************************************************************)
(* What WorkflowInstance has to satisfy.                                    *)
(***************************************************************************)
EXTENDS WorkflowInstance

Reference == INSTANCE ReplayFold

(* The variables hold what the tables' columns and checks allow. *)
TypeOK ==
    /\ version \in Nat /\ visit \in Nat /\ context \in Nat
    /\ cancelled \in BOOLEAN /\ archived \in BOOLEAN
    /\ visits \in Seq(Visit)
    /\ revisions \in Nat
    /\ activations \in Seq(Activation)
    /\ Len(activations) = Len(visits)
    /\ cases \in Seq(Case)
    /\ events \in Seq(Event)
    /\ receipts \in Seq(Receipt)
    /\ refusals \in Nat
    /\ outbox \subseteq OutboxRow
    /\ definitionStatus \in {"PUBLISHED", "DEPRECATED", "REVOKED"}
    /\ ownerPresent \in BOOLEAN

-----------------------------------------------------------------------------
Happened(type) == \E i \in DOMAIN events : events[i].type = type

MovingTypes ==
    {"INSTANCE_CREATED", "WORKFLOW_TRANSITION_COMMITTED",
     "WORKFLOW_CONTEXT_REVISED_AND_TRANSITION_COMMITTED",
     "ADMIN_EMERGENCY_OVERRIDE_COMMITTED"}

(* The version counts the events and every event carries the version it     *)
(* produced, so the log has no gap and no two commands share a version.     *)
VersionCountsEvents ==
    /\ version = Len(events)
    /\ \A i \in DOMAIN events : events[i].version = i

(* The moving events introduce the visits one by one, each leaving the      *)
(* visit the one before it entered; the row points at the last of them.     *)
VisitsFollowEvents ==
    /\ visit = Len(visits)
    /\ \A v \in DOMAIN visits :
          \E i \in DOMAIN events :
             /\ events[i].type \in MovingTypes
             /\ events[i].target = v /\ events[i].source = v - 1
             /\ \A j \in DOMAIN events \ {i} :
                   ~(events[j].type \in MovingTypes /\ events[j].target = v)

(* The instance row is what its event log says: no command writes one       *)
(* without the other.                                                       *)
RowMatchesLog ==
    /\ VersionCountsEvents
    /\ VisitsFollowEvents
    /\ context = revisions
    /\ cancelled <=> Happened("WORKFLOW_INSTANCE_CANCELLED")
    /\ archived <=> Happened("WORKFLOW_INSTANCE_ARCHIVED")

(* Assistance holds at most one case open, on the current visit of an       *)
(* instance somebody can still work on.  No write keeps a case's visit in   *)
(* step with the row: it is the transition gate, the voiding of cancel,     *)
(* archive and override, and the RETURN escalation that have to agree.      *)
AssistanceSafety ==
    /\ \A c, d \in OpenCases : c = d
    /\ \A c \in OpenCases :
          cases[c].visit = visit /\ ~Closed /\ ~archived

(* VISIT_ACTIVATION_V1: exactly the current TASK visit of a live instance   *)
(* has an open activation; every command that leaves a visit closes it.     *)
ActivationSafety ==
    VisitActivation =>
        {v \in DOMAIN visits : ActiveOn(v)} =
            IF Exists /\ ~Closed THEN {visit} ELSE {}

(* A RETURN edge is never taken more often than its budget, and the RETURN  *)
(* that exhausts it was escalated to the owner on the visit it created by   *)
(* the very next event of the log.                                          *)
ExhaustedEdgeEscalated ==
    \A t \in Transitions :
        /\ Effect[t] = "RETURN" => ReturnsTaken(t) <= MaxReturnsPerEdge
        /\ ReturnsTaken(t) = MaxReturnsPerEdge =>
             \E i \in DOMAIN events :
                /\ events[i].edge = t
                /\ i + 1 \in DOMAIN events
                /\ events[i + 1].type = "ASSISTANCE_REQUESTED"
                /\ events[i + 1].target = events[i].target

(* Which command may write which event; a context is also revised by the    *)
(* operator's repair.                                                       *)
WriterOf ==
    [INSTANCE_CREATED |-> "CREATE_WORKFLOW_INSTANCE",
     WORKFLOW_TRANSITION_COMMITTED |-> "EXECUTE_WORKFLOW_TRANSITION",
     CONTEXT_REVISED |-> "REVISE_WORKFLOW_CONTEXT",
     WORKFLOW_CONTEXT_REVISED_AND_TRANSITION_COMMITTED |->
         "REVISE_CONTEXT_AND_TRANSITION",
     WORKFLOW_INSTANCE_CANCELLED |-> "CANCEL_WORKFLOW_INSTANCE",
     WORKFLOW_INSTANCE_ARCHIVED |-> "ARCHIVE_WORKFLOW_INSTANCE",
     ASSISTANCE_REQUESTED |-> "REQUEST_WORKFLOW_ASSISTANCE",
     ASSISTANCE_ESCALATED_TO_HUMAN |-> "ESCALATE_WORKFLOW_ASSISTANCE_TO_HUMAN",
     ASSISTANCE_RESOLVED |-> "RESOLVE_WORKFLOW_ASSISTANCE",
     WAKE_DISPATCH_INTENT |-> "WAKE_DISPATCH_INTENT",
     ADMIN_EMERGENCY_OVERRIDE_COMMITTED |-> "ADMIN_EMERGENCY_OVERRIDE"]

(* Every event has a receipt of its own, of the command type that may       *)
(* write it, and that receipt answers the version its transaction ended at: *)
(* the event's, or one more when the command also escalated.                *)
EventsOwnReceipts ==
    \A i \in DOMAIN events :
        LET r == events[i].receipt IN
        /\ r \in DOMAIN receipts
        /\ \/ receipts[r].command = WriterOf[events[i].type]
           \/ /\ receipts[r].command = "REPAIR_WORKFLOW_CONTEXT"
              /\ events[i].type = "CONTEXT_REVISED"
        /\ \A j \in DOMAIN events \ {i} : events[j].receipt # r
        /\ \/ receipts[r].version = i
           \/ receipts[r].command = "REPAIR_WORKFLOW_CONTEXT"
           \/ /\ receipts[r].version = i + 1
              /\ Effect[events[i].edge] = "RETURN"
              /\ events[i + 1].type = "ASSISTANCE_REQUESTED"

(* The outbox says what the facts say and nothing more: a kick for every    *)
(* dispatch intent, an owner wake for every case, a forum row for every     *)
(* plain transition, cancellation and archival.  A NON_BUSINESS_TEST        *)
(* instance queues kicks alone, and none for the visit it is created on.    *)
OutboxFollowsFacts ==
    /\ \A v \in DOMAIN visits :
          Row("EXECUTION_KICK", "kick", v) \in outbox <=>
             activations[v].kind = "DISPATCH_INTENT" /\ (Business \/ v > 1)
    /\ Business =>
          /\ \A c \in DOMAIN cases :
                Row("OWNER_ASSISTANCE_WAKE", "owner-assistance", c) \in outbox
          /\ \A i \in 1..version :
                events[i].type = "WORKFLOW_TRANSITION_COMMITTED" <=>
                   Row("FORUM_EVENT", "transition_committed", i) \in outbox
          /\ cancelled <=> Row("FORUM_EVENT", "workflow_cancelled", 0) \in outbox
          /\ archived <=> Row("FORUM_EVENT", "workflow_archived", 0) \in outbox
    /\ ~Business => \A queued \in outbox : queued.kind = "EXECUTION_KICK"

(* A command leaves all of its records or none: the receipt it is replayed  *)
(* from, the events it explains and the rows that tell the outside.         *)
CommandsLeaveTheirRecords == EventsOwnReceipts /\ OutboxFollowsFacts

(* A Legacy log made only of event types replay knows, with no repair away  *)
(* from the DRAFT, is reconstructed, and to exactly the row the commands    *)
(* maintained step by step.                                                 *)
NotReplayable ==
    {"WORKFLOW_INSTANCE_CANCELLED", "WORKFLOW_INSTANCE_ARCHIVED",
     "WAKE_DISPATCH_INTENT"}

SupportedHistoryReplays ==
    (/\ Exists /\ Legacy
     /\ \A type \in NotReplayable : ~Happened(type)
     /\ \A i \in DOMAIN events :
           events[i].type = "CONTEXT_REVISED" =>
              NodeType[visits[events[i].source].node] = "DRAFT") =>
        LogReconstructs /\ Replayed = Projection

(* The recovery replay of every log the commands can write, the logs it     *)
(* refuses included, is what folding the events one by one gives.           *)
ReplayIsTheFold ==
    LET s == Reference!Fold(events, visits)
    IN  /\ LogReconstructs <=> /\ Exists /\ s.ok
                               /\ s.introduced = DOMAIN visits
                               /\ s.context = revisions
        /\ LogReconstructs => Replayed = <<s.version, s.visit, s.context>>

(* Recovery can be trusted: it reads every log as the fold does, and a log  *)
(* of supported events as the row the commands maintained.                  *)
ReplayAgrees == SupportedHistoryReplays /\ ReplayIsTheFold

-----------------------------------------------------------------------------
(* What a client sees of the row, its current node and its cases. *)
PhaseOf ==
    CASE ~Exists                  -> "ABSENT"
      [] cancelled                -> "CANCELLED"
      [] Exists /\ ~cancelled /\ CurrentType = "TERMINAL" -> "COMPLETED"
      [] Exists /\ ~Closed /\ OpenCases # {} -> "AWAITING_OWNER"
      [] OTHER                    -> "WORKING"

Lifecycle ==
    INSTANCE InstanceLifecycle WITH phase <- PhaseOf, filed <- archived

(* The commands together implement the lifecycle a client relies on: no     *)
(* interleaving of transitions, escalations, cancellations, overrides and   *)
(* rebuilds takes an instance along an edge the lifecycle does not have.    *)
ImplementsLifecycle == Lifecycle!Spec

-----------------------------------------------------------------------------
Overridden ==
    /\ Len(events') = Len(events) + 1
    /\ events'[Len(events')].type = "ADMIN_EMERGENCY_OVERRIDE_COMMITTED"

(* Work never moves on under an open case: only an override does, and it    *)
(* voids the case.                                                          *)
MovesUnderOpenCase ==
    Exists /\ visit' # visit /\ OpenCases # {} =>
        Overridden /\ OpenCases' = {}

(* A cancelled instance is never un-cancelled and never moves; a completed  *)
(* one moves only by override; neither gets a case or an open activation.   *)
FinishedMoves ==
    Exists /\ Closed =>
        \/ UNCHANGED <<cancelled, visit, visits, activations, cases>>
        \/ ~cancelled /\ Overridden

(* Whatever interleaving of commands, cases and overrides: no instance      *)
(* moves past its open case, and none comes back from its end by a command. *)
MovesAreLegal == [][MovesUnderOpenCase /\ FinishedMoves]_vars
=============================================================================
