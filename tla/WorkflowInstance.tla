-------------------------- MODULE WorkflowInstance --------------------------
(***************************************************************************)
(* One serial governed workflow instance: its row, its immutable facts      *)
(* (visits, context revisions, activations, assistance cases, events), the  *)
(* command receipts and the outbox rows queued with them, and one action    *)
(* for every command that writes them.                                      *)
(*                                                                          *)
(* Every command is one database transaction that locks the instance row    *)
(* FOR UPDATE before it reads anything it decides on, so a command is one   *)
(* step here.  Its outcome is one of three: it commits its facts and a      *)
(* success receipt; it commits a failure receipt and no fact (Refuse); or   *)
(* it rolls back, which changes nothing and is not a step.                  *)
(*                                                                          *)
(* The instance is an ordinary one: no owner policy manages it and no       *)
(* governance child is bound to its cases, so the sidecar tables of those   *)
(* two components stay empty.                                               *)
(***************************************************************************)
EXTENDS EventReplay

CONSTANTS
    MaxReceipts,        \* bound: receipts of successful commands
    MaxRefusals         \* bound: committed failure receipts

ASSUME BoundsAssumption == MaxReceipts \in Nat /\ MaxRefusals \in Nat

VARIABLES
    \* the workflow_instances row: the current projection
    version,            \* workflow_state_version, 0 before creation
    visit,              \* current_node_visit_id
    context,            \* current_context_revision_id
    cancelled,
    archived,
    \* immutable facts
    visits,             \* workflow_node_visits, in insertion order
    revisions,          \* how many workflow_context_revisions there are
    activations,        \* the activation of each visit, with its closure
    cases,              \* workflow_assistance_cases
    events,             \* workflow_events
    \* command bookkeeping
    receipts,           \* receipts completed with a success status
    refusals,           \* how many failure receipts were committed
    outbox,             \* every workflow_outbox row ever queued
    \* what other components change
    definitionStatus,   \* status of the definition version
    ownerPresent        \* the domain has one enabled DOMAIN_OWNER

row   == <<version, visit, context, cancelled, archived>>
facts == <<visits, revisions, activations, cases, events>>
vars  == <<row, facts, receipts, refusals, outbox, definitionStatus,
           ownerPresent>>

-----------------------------------------------------------------------------
(* Record types.                                                            *)

EventTypes ==
    {"INSTANCE_CREATED", "WORKFLOW_TRANSITION_COMMITTED",
     "CONTEXT_REVISED",
     "WORKFLOW_CONTEXT_REVISED_AND_TRANSITION_COMMITTED",
     "WORKFLOW_INSTANCE_CANCELLED", "WORKFLOW_INSTANCE_ARCHIVED",
     "ASSISTANCE_REQUESTED", "ASSISTANCE_ESCALATED_TO_HUMAN",
     "ASSISTANCE_RESOLVED", "WAKE_DISPATCH_INTENT",
     "ADMIN_EMERGENCY_OVERRIDE_COMMITTED"}

CommandTypes ==
    {"CREATE_WORKFLOW_INSTANCE", "EXECUTE_WORKFLOW_TRANSITION",
     "REVISE_WORKFLOW_CONTEXT", "REVISE_CONTEXT_AND_TRANSITION",
     "CANCEL_WORKFLOW_INSTANCE", "ARCHIVE_WORKFLOW_INSTANCE",
     "REQUEST_WORKFLOW_ASSISTANCE", "ESCALATE_WORKFLOW_ASSISTANCE_TO_HUMAN",
     "RESOLVE_WORKFLOW_ASSISTANCE", "SYSTEM_EXECUTION_ESCALATION",
     "WAKE_DISPATCH_INTENT", "ADMIN_EMERGENCY_OVERRIDE",
     "REBUILD_PROJECTION", "REPAIR_WORKFLOW_CONTEXT"}

CaseStatuses    == {"OWNER_PENDING", "HUMAN_REQUIRED", "RESOLVED", "VOIDED"}
ActivationKinds == {"DISPATCH_INTENT", "HUMAN_WORK_ITEM"}

Visit == [node : Nodes, by : Transitions \cup {NoTransition}]

Activation == [kind : ActivationKinds \cup {"NONE"},
               closed : BOOLEAN, due : BOOLEAN]

Case == [visit : Nat, status : CaseStatuses]

Event == [type : EventTypes, version : Nat, source : Nat, target : Nat,
          context : Nat, edge : Transitions \cup {NoTransition},
          case : Nat, receipt : Nat]

Receipt == [command : CommandTypes, version : Nat]

(* Rows of one kind and event are told apart by what they are about. *)
OutboxKinds  == {"FORUM_EVENT", "EXECUTION_KICK", "OWNER_ASSISTANCE_WAKE"}
OutboxEvents ==
    {"wf_created", "transition_committed", "workflow_completed",
     "return_policy_reached", "workflow_cancelled", "workflow_archived",
     "assistance_requested", "assistance_escalated", "assistance_resolved",
     "kick", "owner-assistance"}
Subjects == Nat \cup Transitions

OutboxRow == [kind : OutboxKinds, event : OutboxEvents, id : Subjects]

-----------------------------------------------------------------------------
(* State functions.                                                         *)

Exists      == version > 0
CurrentType == NodeType[visits[visit].node]
Closed      == cancelled \/ CurrentType = "TERMINAL"

OpenCases   == {c \in DOMAIN cases : cases[c].status \in OpenStatus}

OpenOn(v)   == {c \in OpenCases : cases[c].visit = v}
ActiveOn(v) == activations[v].kind # "NONE" /\ ~activations[v].closed

(* The RETURN counter is recomputed from the event log. *)
ReturnsTaken(t) ==
    Cardinality({i \in DOMAIN events :
        /\ events[i].type = "WORKFLOW_TRANSITION_COMMITTED"
        /\ events[i].edge = t
        /\ Effect[t] = "RETURN"})

(* Fault: the RETURN that reaches the limit does not see itself. *)
PassesLimit(t) == Effect[t] = "RETURN" /\ ReturnsTaken(t) = MaxReturnsPerEdge

ReachesLimit(t) ==
    Effect[t] = "RETURN" /\ ReturnsTaken(t) + 1 = MaxReturnsPerEdge

NextVisit == Len(visits) + 1
NextCase  == Len(cases) + 1

(* The clients' expectedWorkflowStateVersion: right, or one commit behind. *)
Expectations == {version, version - 1}

-----------------------------------------------------------------------------
(* Writes shared by the commands.                                           *)

Room == Len(receipts) + 2 <= MaxReceipts

Answered(command, v) == Append(receipts, [command |-> command, version |-> v])

EventRow(type, v, source, target, ctx, edge, case, receipt) ==
    [type |-> type, version |-> v, source |-> source, target |-> target,
     context |-> ctx, edge |-> edge, case |-> case, receipt |-> receipt]

(* Fault: the event carries the version before the command. *)
LoggedEarly(type, source, target, ctx, edge, case) ==
    Append(events, EventRow(type, version, source, target, ctx, edge, case,
                            Len(receipts) + 1))

(* The event of a command: its version is the row's next one and its        *)
(* command_id is the receipt the command is about to complete.              *)
Logged(type, source, target, ctx, edge, case) ==
    Append(events, EventRow(type, version + 1, source, target, ctx, edge,
                            case, Len(receipts) + 1))

(* A visit on a TASK of model 3 gets an activation whose kind follows from  *)
(* the assignee's principal type; no other visit gets one.                  *)
ActivationFor(n, kind) ==
    IF VisitActivation /\ NodeType[n] = "TASK"
    THEN [kind |-> kind, closed |-> FALSE, due |-> kind = "DISPATCH_INTENT"]
    ELSE [kind |-> "NONE", closed |-> FALSE, due |-> FALSE]

ClosedOff(a) ==
    IF VisitActivation /\ a.kind # "NONE"
    THEN [a EXCEPT !.closed = TRUE] ELSE a

(* Fault: the visit is left with its activation open. *)
LeaveActive == activations

CloseCurrent == [activations EXCEPT ![visit] = ClosedOff(@)]

(* close_activation_by_visit_required: nothing to close is refused. *)
NothingToClose == VisitActivation /\ ~ActiveOn(visit)

(* Fault: leaving the visit does not void its cases. *)
LeaveOpenCases == cases

VoidOpenCases ==
    [c \in DOMAIN cases |->
        IF cases[c].status \in OpenStatus
        THEN [cases[c] EXCEPT !.status = "VOIDED"] ELSE cases[c]]

Row(kind, event, id) == [kind |-> kind, event |-> event, id |-> id]

Forum(event, id) ==
    IF Business THEN {Row("FORUM_EVENT", event, id)} ELSE {}

OwnerWake(case) ==
    IF Business THEN {Row("OWNER_ASSISTANCE_WAKE", "owner-assistance", case)}
    ELSE {}

KickFor(v, activation) ==
    IF activation.kind = "DISPATCH_INTENT"
    THEN {Row("EXECUTION_KICK", "kick", v)} ELSE {}

Completion(n) ==
    IF NodeType[n] = "TERMINAL" THEN Forum("workflow_completed", 0) ELSE {}

UNCHANGED_ENV == UNCHANGED <<definitionStatus, ownerPresent>>

(* A deterministic failure: the failure receipt commits alone. *)
Refuse ==
    /\ refusals < MaxRefusals
    /\ refusals' = refusals + 1
    /\ UNCHANGED <<row, facts, receipts, outbox>>
    /\ UNCHANGED_ENV

-----------------------------------------------------------------------------
(* CREATE_WORKFLOW_INSTANCE                                                 *)

CreateInstance(kind, acceptable) ==
    /\ ~Exists
    /\ IF definitionStatus # "PUBLISHED" \/ ~acceptable THEN Refuse ELSE
       LET activation == ActivationFor(EntryNode, kind) IN
       /\ Room
       /\ version' = 1 /\ visit' = 1 /\ context' = 1
       /\ visits' = <<[node |-> EntryNode, by |-> NoTransition]>>
       /\ revisions' = 1
       /\ activations' = <<activation>>
       /\ events' = Logged("INSTANCE_CREATED", 0, 1, 1, NoTransition, 0)
       /\ receipts' = Answered("CREATE_WORKFLOW_INSTANCE", 1)
       /\ outbox' = outbox
             \cup (IF Business THEN KickFor(1, activation) ELSE {})
             \cup Forum("wf_created", 0)
       /\ UNCHANGED <<cancelled, archived, cases, refusals>>
       /\ UNCHANGED_ENV

-----------------------------------------------------------------------------
(* EXECUTE_WORKFLOW_TRANSITION                                              *)

(* Everything that ends the command with a failure receipt; `acceptable`    *)
(* stands for the caller's own checks (enabled, effective assignee of the   *)
(* current visit) and for the payload, reference and assignee ones.         *)
TransitionRefused(t, expected, acceptable) ==
    \/ expected # version
    \/ Closed
    \/ ~acceptable
    \/ OpenOn(visit) # {}
    \/ definitionStatus = "REVOKED"
    \/ ~Applicable(t, visits[visit].node)
    \/ Effect[t] = "RETURN" /\ ReturnsTaken(t) >= MaxReturnsPerEdge
    \/ NothingToClose

(* Fault: the target visit is inserted without an activation row. *)
MoveWithoutActivation(t, activation) ==
    /\ visit' = NextVisit
    /\ visits' = Append(visits, [node |-> Target[t], by |-> t])
    /\ activations' = CloseCurrent

MoveAlong(t, activation) ==
    /\ visit' = NextVisit
    /\ visits' = Append(visits, [node |-> Target[t], by |-> t])
    /\ activations' = Append(CloseCurrent, activation)

(* Fault: the dispatch intent of a transition is not kicked. *)
TransitionRowsWithoutKick(t, activation) ==
    Forum("transition_committed", version + 1) \cup Completion(Target[t])

TransitionRows(t, activation) ==
    KickFor(NextVisit, activation)
        \cup Forum("transition_committed", version + 1)
        \cup Completion(Target[t])

TransitionLogged(t) ==
    Logged("WORKFLOW_TRANSITION_COMMITTED", visit, NextVisit, context, t, 0)

CommitTransition(t, activation) ==
    /\ ~ReachesLimit(t)
    /\ MoveAlong(t, activation)
    /\ version' = version + 1
    /\ events' = TransitionLogged(t)
    /\ receipts' = Answered("EXECUTE_WORKFLOW_TRANSITION", version + 1)
    /\ outbox' = outbox \cup TransitionRows(t, activation)
    /\ UNCHANGED cases

(* The RETURN that uses up its edge's budget also opens an OWNER_PENDING    *)
(* case on the visit it creates, under a receipt of its own: two events and *)
(* two versions in one transaction.  Without an enabled domain owner the    *)
(* whole transaction rolls back.                                            *)
CommitLimitReturn(t, activation) ==
    /\ ReachesLimit(t)
    /\ ownerPresent
    /\ MoveAlong(t, activation)
    /\ version' = version + 2
    /\ cases' = Append(cases, [visit |-> NextVisit, status |-> "OWNER_PENDING"])
    /\ events' = Append(TransitionLogged(t),
                   EventRow("ASSISTANCE_REQUESTED", version + 2, NextVisit,
                            NextVisit, context, NoTransition, NextCase,
                            Len(receipts) + 2))
    /\ receipts' = Append(Answered("EXECUTE_WORKFLOW_TRANSITION", version + 2),
                     [command |-> "REQUEST_WORKFLOW_ASSISTANCE",
                      version |-> version + 2])
    /\ outbox' = outbox \cup TransitionRows(t, activation)
                        \cup OwnerWake(NextCase)
                        \cup Forum("return_policy_reached", t)

ExecuteTransition(t, expected, kind, acceptable) ==
    /\ Exists
    /\ IF TransitionRefused(t, expected, acceptable) THEN Refuse ELSE
       LET activation == ActivationFor(Target[t], kind) IN
       /\ Room
       /\ CommitTransition(t, activation) \/ CommitLimitReturn(t, activation)
       /\ UNCHANGED <<context, cancelled, archived, revisions, refusals>>
       /\ UNCHANGED_ENV

-----------------------------------------------------------------------------
(* REVISE_WORKFLOW_CONTEXT.  A current visit that is not a DRAFT rolls      *)
(* back.  The command reads neither `cancelled` nor `archived`.             *)

ReviseRefused(expected, acceptable) ==
    \/ VisitActivation
    \/ ~acceptable
    \/ expected # version
    \/ definitionStatus = "REVOKED"

ReviseContext(expected, acceptable) ==
    /\ Exists
    /\ IF ReviseRefused(expected, acceptable) THEN Refuse ELSE
       /\ Room
       /\ CurrentType = "DRAFT"
       /\ version' = version + 1
       /\ context' = revisions + 1
       /\ revisions' = revisions + 1
       /\ events' = Logged("CONTEXT_REVISED", visit, visit,
                           revisions + 1, NoTransition, 0)
       /\ receipts' = Answered("REVISE_WORKFLOW_CONTEXT", version + 1)
       /\ UNCHANGED <<visit, cancelled, archived, visits, activations, cases,
                      refusals, outbox>>
       /\ UNCHANGED_ENV

(* The operator's context repair adds missing assignee keys, which any      *)
(* visit of any model may need.  Its receipt is inserted completed, without *)
(* a response; whatever it refuses rolls back.                              *)
RepairContext ==
    /\ Exists
    /\ Room
    /\ ~cancelled /\ ~archived
    /\ definitionStatus # "REVOKED"
    /\ version' = version + 1
    /\ context' = revisions + 1
    /\ revisions' = revisions + 1
    /\ events' = Logged("CONTEXT_REVISED", visit, visit,
                        revisions + 1, NoTransition, 0)
    /\ receipts' = Answered("REPAIR_WORKFLOW_CONTEXT", 0)
    /\ UNCHANGED <<visit, cancelled, archived, visits, activations, cases,
                   refusals, outbox>>
    /\ UNCHANGED_ENV

(* Fault: the combined command does not look at `cancelled` either. *)
CombinedIgnoresCancel(t, expected, acceptable) ==
    \/ definitionStatus = "REVOKED" \/ VisitActivation
    \/ expected # version
    \/ ~acceptable
    \/ OpenOn(visit) # {}
    \/ CurrentType # "DRAFT" \/ Source[t] # visits[visit].node
    \/ Effect[t] # "ADVANCE" \/ t \notin Primary

(* REVISE_CONTEXT_AND_TRANSITION: the DRAFT's primary ADVANCE together with *)
(* a new context revision, one event, no outbox row.                        *)
CombinedRefused(t, expected, acceptable) ==
    \/ definitionStatus = "REVOKED"
    \/ VisitActivation
    \/ expected # version
    \/ cancelled
    \/ ~acceptable
    \/ OpenOn(visit) # {}
    \/ CurrentType # "DRAFT"
    \/ Source[t] # visits[visit].node
    \/ Effect[t] # "ADVANCE"
    \/ t \notin Primary

ReviseContextAndTransition(t, expected, acceptable) ==
    /\ Exists
    /\ IF CombinedRefused(t, expected, acceptable) THEN Refuse ELSE
       /\ Room
       /\ MoveAlong(t, ActivationFor(Target[t], "HUMAN_WORK_ITEM"))
       /\ version' = version + 1
       /\ context' = revisions + 1
       /\ revisions' = revisions + 1
       /\ events' = Logged("WORKFLOW_CONTEXT_REVISED_AND_TRANSITION_COMMITTED",
                           visit, NextVisit, revisions + 1, t, 0)
       /\ receipts' = Answered("REVISE_CONTEXT_AND_TRANSITION", version + 1)
       /\ UNCHANGED <<cancelled, archived, cases, refusals, outbox>>
       /\ UNCHANGED_ENV

-----------------------------------------------------------------------------
(* CANCEL_WORKFLOW_INSTANCE and ARCHIVE_WORKFLOW_INSTANCE.  An expected     *)
(* version of 0 is the sentinel for "do not check".  Only a disabled caller *)
(* gets a failure receipt; every other refusal rolls back.                  *)

CancelInstance(expected, enabled) ==
    /\ Exists
    /\ expected \in {0, version}
    /\ IF ~enabled THEN Refuse ELSE
       /\ Room
       /\ ~Closed /\ ~archived
       /\ ~NothingToClose
       /\ cancelled' = TRUE
       /\ version' = version + 1
       /\ cases' = VoidOpenCases
       /\ activations' = CloseCurrent
       /\ events' = Logged("WORKFLOW_INSTANCE_CANCELLED", visit, 0, context,
                           NoTransition, 0)
       /\ receipts' = Answered("CANCEL_WORKFLOW_INSTANCE", version + 1)
       /\ outbox' = outbox \cup Forum("workflow_cancelled", 0)
       /\ UNCHANGED <<visit, context, archived, visits, revisions, refusals>>
       /\ UNCHANGED_ENV

ArchiveInstance(expected, enabled) ==
    /\ Exists
    /\ expected \in {0, version}
    /\ IF ~enabled THEN Refuse ELSE
       /\ Room
       /\ Closed /\ ~archived
       /\ ~(VisitActivation /\ ActiveOn(visit))
       /\ archived' = TRUE
       /\ version' = version + 1
       /\ cases' = VoidOpenCases
       /\ events' = Logged("WORKFLOW_INSTANCE_ARCHIVED", visit, 0, context,
                           NoTransition, 0)
       /\ receipts' = Answered("ARCHIVE_WORKFLOW_INSTANCE", version + 1)
       /\ outbox' = outbox \cup Forum("workflow_archived", 0)
       /\ UNCHANGED <<visit, context, cancelled, visits, revisions,
                      activations, refusals>>
       /\ UNCHANGED_ENV

-----------------------------------------------------------------------------
(* Assistance.                                                              *)

RequestRefused(v, expected, acceptable) ==
    \/ expected # version
    \/ v # visit
    \/ Closed \/ archived
    \/ ~acceptable
    \/ ~ownerPresent
    \/ OpenOn(visit) # {}

OpenedOn(v) == Append(cases, [visit |-> v, status |-> "OWNER_PENDING"])

RequestAssistance(v, expected, acceptable) ==
    /\ Exists
    /\ IF RequestRefused(v, expected, acceptable) THEN Refuse ELSE
       /\ Room
       /\ version' = version + 1
       /\ cases' = OpenedOn(visit)
       /\ events' = Logged("ASSISTANCE_REQUESTED", visit, visit, context,
                           NoTransition, NextCase)
       /\ receipts' = Answered("REQUEST_WORKFLOW_ASSISTANCE", version + 1)
       /\ outbox' = outbox \cup Forum("assistance_requested", NextCase)
                           \cup OwnerWake(NextCase)
       /\ UNCHANGED <<visit, context, cancelled, archived, visits, revisions,
                      activations, refusals>>
       /\ UNCHANGED_ENV

(* The owner's two actions on case c, which must be on the current visit.   *)
OwnerActionRefused(c, expected, acceptable, from) ==
    \/ expected # version
    \/ ~ownerPresent
    \/ ~acceptable
    \/ cases[c].visit # visit
    \/ cases[c].status \notin from

OwnerAction(c, expected, acceptable, from, to, command, type, forum) ==
    /\ Exists
    /\ IF OwnerActionRefused(c, expected, acceptable, from) THEN Refuse ELSE
       /\ Room
       /\ version' = version + 1
       /\ cases' = [cases EXCEPT ![c].status = to]
       /\ events' = Logged(type, visit, visit, context, NoTransition, c)
       /\ receipts' = Answered(command, version + 1)
       /\ outbox' = outbox \cup Forum(forum, c)
       /\ UNCHANGED <<visit, context, cancelled, archived, visits, revisions,
                      activations, refusals>>
       /\ UNCHANGED_ENV

EscalateAssistance(c, expected, acceptable) ==
    OwnerAction(c, expected, acceptable, {"OWNER_PENDING"}, "HUMAN_REQUIRED",
                "ESCALATE_WORKFLOW_ASSISTANCE_TO_HUMAN",
                "ASSISTANCE_ESCALATED_TO_HUMAN", "assistance_escalated")

ResolveAssistance(c, expected, acceptable) ==
    OwnerAction(c, expected, acceptable, OpenStatus, "RESOLVED",
                "RESOLVE_WORKFLOW_ASSISTANCE", "ASSISTANCE_RESOLVED",
                "assistance_resolved")

(* SYSTEM_EXECUTION_ESCALATION: opens the case of open_owner_pending_visit  *)
(* under a second, synthetic receipt, or finds the case already open.       *)
OpenByPolicy ==
    /\ OpenOn(visit) = {}
    /\ version' = version + 1
    /\ cases' = OpenedOn(visit)
    /\ events' = Append(events,
                   EventRow("ASSISTANCE_REQUESTED", version + 1, visit, visit,
                            context, NoTransition, NextCase,
                            Len(receipts) + 2))
    /\ receipts' = Append(Answered("SYSTEM_EXECUTION_ESCALATION", version + 1),
                     [command |-> "REQUEST_WORKFLOW_ASSISTANCE",
                      version |-> version + 1])
    /\ outbox' = outbox \cup OwnerWake(NextCase)
                        \cup Forum("assistance_requested", NextCase)

FindAlreadyOpen ==
    \E c \in OpenOn(visit) :
        /\ receipts' = Answered("SYSTEM_EXECUTION_ESCALATION", version)
        /\ outbox' = outbox \cup Forum("assistance_requested", c)
        /\ UNCHANGED <<version, cases, events>>

SystemExecutionEscalation(v, enabled) ==
    /\ Exists
    /\ IF ~enabled THEN Refuse ELSE
       /\ Room
       /\ v = visit
       /\ ~Closed /\ ~archived
       /\ ownerPresent
       /\ OpenByPolicy \/ FindAlreadyOpen
       /\ UNCHANGED <<visit, context, cancelled, archived, visits, revisions,
                      activations, refusals>>
       /\ UNCHANGED_ENV

-----------------------------------------------------------------------------
(* WAKE_DISPATCH_INTENT: makes a deferred activation due at once.  A wake   *)
(* with nothing to do commits a 200 receipt and changes nothing else.  A    *)
(* disabled caller or an unknown activation rolls back.                     *)

WakeHasNothingToDo(v, expected) ==
    \/ cancelled \/ archived
    \/ activations[v].closed
    \/ visit # v
    \/ expected # version
    \/ activations[v].due

WakeDispatchIntent(v, expected) ==
    /\ Room
    /\ activations[v].kind = "DISPATCH_INTENT"
    /\ IF WakeHasNothingToDo(v, expected)
       THEN /\ receipts' = Answered("WAKE_DISPATCH_INTENT", 0)
            /\ UNCHANGED <<version, activations, events>>
       ELSE /\ version' = version + 1
            /\ activations' = [activations EXCEPT ![v].due = TRUE]
            /\ events' = Logged("WAKE_DISPATCH_INTENT", v, 0, 0,
                                NoTransition, 0)
            /\ receipts' = Answered("WAKE_DISPATCH_INTENT", version + 1)
    /\ UNCHANGED <<visit, context, cancelled, archived, visits, revisions,
                   cases, refusals, outbox>>
    /\ UNCHANGED_ENV

(* External: the scheduler authority that defers an active dispatch intent. *)
DeferEligibility(v) ==
    /\ activations[v].kind = "DISPATCH_INTENT"
    /\ ActiveOn(v) /\ activations[v].due
    /\ activations' = [activations EXCEPT ![v].due = FALSE]
    /\ UNCHANGED <<row, visits, revisions, cases, events, receipts, refusals,
                   outbox>>
    /\ UNCHANGED_ENV

-----------------------------------------------------------------------------
(* Administrative recovery.  Both commands replay the log first.            *)

Projection == <<version, visit, context>>

Replayed ==
    LET s == StateAfter(events, Len(events))
    IN  <<s.version, s.visit, s.context>>

LogReconstructs == Reconstructs(events, visits, revisions)

OverrideRefused(expected, acceptable) ==
    \/ ~acceptable
    \/ ~LogReconstructs
    \/ Replayed # Projection
    \/ expected # version

(* MOVE_TO_NODE when n is not TERMINAL, TERMINATE_INSTANCE when it is.  The *)
(* current node may be anything, a TERMINAL included.  NothingToClose is    *)
(* never reached: replay refuses every log of a model-3 instance.           *)
AdminEmergencyOverride(n, expected, acceptable) ==
    /\ Exists
    /\ IF OverrideRefused(expected, acceptable) THEN Refuse ELSE
       /\ Room
       /\ ~NothingToClose
       /\ version' = version + 1
       /\ visit' = NextVisit
       /\ visits' = Append(visits, [node |-> n, by |-> NoTransition])
       /\ activations' = Append(CloseCurrent,
                                ActivationFor(n, "HUMAN_WORK_ITEM"))
       /\ cases' = VoidOpenCases
       /\ events' = Logged("ADMIN_EMERGENCY_OVERRIDE_COMMITTED", visit,
                           NextVisit, context, NoTransition, 0)
       /\ receipts' = Answered("ADMIN_EMERGENCY_OVERRIDE", version + 1)
       /\ UNCHANGED <<context, cancelled, archived, revisions, refusals,
                      outbox>>
       /\ UNCHANGED_ENV

(* validate_instance_activation_consistency asks for exactly one activation *)
(* on every visit, the TERMINAL ones included.                              *)
ActivationsConsistent ==
    VisitActivation => \A v \in DOMAIN visits : activations[v].kind # "NONE"

RebuildRefused(acceptable) ==
    \/ ~acceptable
    \/ ~ActivationsConsistent
    \/ ~LogReconstructs

RebuildProjection(acceptable) ==
    /\ Exists
    /\ IF RebuildRefused(acceptable) THEN Refuse ELSE
       /\ Room
       /\ version' = Replayed[1]
       /\ visit' = Replayed[2]
       /\ context' = Replayed[3]
       /\ cases' = IF Replayed[2] # visit THEN VoidOpenCases ELSE cases
       /\ receipts' = Answered("REBUILD_PROJECTION", Replayed[1])
       /\ UNCHANGED <<cancelled, archived, visits, revisions, activations,
                      events, refusals, outbox>>
       /\ UNCHANGED_ENV

-----------------------------------------------------------------------------
(* What the other components do to the state this one reads.                *)

DeprecateDefinition ==
    /\ definitionStatus = "PUBLISHED"
    /\ definitionStatus' = "DEPRECATED"
    /\ UNCHANGED <<row, facts, receipts, refusals, outbox, ownerPresent>>

RevokeDefinition ==
    /\ definitionStatus \in {"PUBLISHED", "DEPRECATED"}
    /\ definitionStatus' = "REVOKED"
    /\ UNCHANGED <<row, facts, receipts, refusals, outbox, ownerPresent>>

ChangeDomainOwner ==
    /\ ownerPresent' = ~ownerPresent
    /\ UNCHANGED <<row, facts, receipts, refusals, outbox, definitionStatus>>

-----------------------------------------------------------------------------
Init ==
    /\ version = 0 /\ visit = 0 /\ context = 0
    /\ cancelled = FALSE /\ archived = FALSE
    /\ visits = << >> /\ revisions = 0 /\ activations = << >>
    /\ cases = << >> /\ events = << >>
    /\ receipts = << >> /\ refusals = 0
    /\ outbox = {}
    /\ definitionStatus = "PUBLISHED"
    /\ ownerPresent = TRUE

Commands ==
    \/ \E kind \in ActivationKinds, ok \in BOOLEAN : CreateInstance(kind, ok)
    \/ \E t \in Transitions, x \in Expectations, kind \in ActivationKinds,
          ok \in BOOLEAN : ExecuteTransition(t, x, kind, ok)
    \/ \E x \in Expectations, ok \in BOOLEAN : ReviseContext(x, ok)
    \/ RepairContext
    \/ \E t \in Transitions, x \in Expectations, ok \in BOOLEAN :
          ReviseContextAndTransition(t, x, ok)
    \/ \E x \in Expectations \cup {0}, ok \in BOOLEAN : CancelInstance(x, ok)
    \/ \E x \in Expectations \cup {0}, ok \in BOOLEAN : ArchiveInstance(x, ok)
    \/ \E v \in DOMAIN visits, x \in Expectations, ok \in BOOLEAN :
          RequestAssistance(v, x, ok)
    \/ \E c \in DOMAIN cases, x \in Expectations, ok \in BOOLEAN :
          EscalateAssistance(c, x, ok)
    \/ \E c \in DOMAIN cases, x \in Expectations, ok \in BOOLEAN :
          ResolveAssistance(c, x, ok)
    \/ \E v \in DOMAIN visits, ok \in BOOLEAN : SystemExecutionEscalation(v, ok)
    \/ \E v \in DOMAIN visits, x \in Expectations : WakeDispatchIntent(v, x)
    \/ \E n \in Nodes, x \in Expectations, ok \in BOOLEAN :
          AdminEmergencyOverride(n, x, ok)
    \/ \E ok \in BOOLEAN : RebuildProjection(ok)

Environment ==
    \/ \E v \in DOMAIN visits : DeferEligibility(v)
    \/ DeprecateDefinition
    \/ RevokeDefinition
    \/ ChangeDomainOwner

Next == Commands \/ Environment

Spec == Init /\ [][Next]_vars
=============================================================================
