--------------------------- MODULE InstanceProofs ---------------------------
(***************************************************************************)
(* The theorems about workflow instances, for any definition graph,         *)
(* semantic model, RETURN budget and execution class: type correctness,     *)
(* assistance safety, the row and its log, activations, the moves a command *)
(* may make, the life cycle, the RETURN budget, the records a command       *)
(* leaves, what recovery makes of the log, and what the reads show.         *)
(*                                                                          *)
(* A command is reduced to what it logs (nothing, one event, or the two of  *)
(* an escalated RETURN) in a lemma of its own; an invariant of the log is   *)
(* then proved to survive an event, once, and not command by command.       *)
(***************************************************************************)
EXTENDS InstanceQueries, FiniteSetTheorems, TLAPS

-----------------------------------------------------------------------------
(* What the shared writes produce.                                          *)

(* Events are logged with the columns of workflow_events. *)
LEMMA LoggedType ==
    ASSUME TypeOK, NEW type \in EventTypes, NEW s \in Nat, NEW t \in Nat,
           NEW ctx \in Nat, NEW edge \in Transitions \cup {NoTransition},
           NEW case \in Nat
    PROVE  Logged(type, s, t, ctx, edge, case) \in Seq(Event)
  BY DEF TypeOK, Logged, EventRow, Event

(* Receipts are completed with a command type and a version. *)
LEMMA AnsweredType ==
    ASSUME TypeOK, NEW command \in CommandTypes, NEW v \in Nat
    PROVE  /\ Answered(command, v) \in Seq(Receipt)
           /\ Len(receipts) \in Nat
  BY DEF TypeOK, Answered, Receipt

(* The activation of a new visit. *)
LEMMA ActivationType ==
    ASSUME NEW n \in Nodes, NEW kind \in ActivationKinds
    PROVE  ActivationFor(n, kind) \in Activation
  BY DEF ActivationFor, Activation

(* Closing the current activation keeps one activation per visit. *)
LEMMA CloseType ==
    ASSUME TypeOK
    PROVE  /\ CloseCurrent \in Seq(Activation)
           /\ Len(CloseCurrent) = Len(activations)
  <1>1. ASSUME NEW a \in Activation
        PROVE  ClosedOff(a) \in Activation
    <2>1. [a EXCEPT !.closed = TRUE] \in Activation
      BY DEF Activation
    <2>2. ClosedOff(a) \in {[a EXCEPT !.closed = TRUE], a}
      BY DEF ClosedOff
    <2> QED
      BY <2>1, <2>2
  <1>2. \A i \in 1..Len(activations) : activations[i] \in Activation
    BY DEF TypeOK
  <1>3. CloseCurrent = [i \in 1..Len(activations) |->
            IF i = visit THEN ClosedOff(activations[i]) ELSE activations[i]]
    BY DEF TypeOK, CloseCurrent
  <1> QED
    BY <1>1, <1>2, <1>3 DEF TypeOK

(* Voiding the open cases keeps the cases there are. *)
LEMMA VoidType ==
    ASSUME TypeOK
    PROVE  /\ VoidOpenCases \in Seq(Case)
           /\ DOMAIN VoidOpenCases = DOMAIN cases
           /\ \A c \in DOMAIN cases : VoidOpenCases[c].status \notin OpenStatus
  <1>1. \A c \in DOMAIN cases : cases[c] \in Case
    BY DEF TypeOK
  <1>2. \A k \in Case : [k EXCEPT !.status = "VOIDED"] \in Case
    BY DEF Case, CaseStatuses
  <1>3. \A c \in DOMAIN cases : VoidOpenCases[c] \in Case
    BY <1>1, <1>2 DEF VoidOpenCases
  <1>4. DOMAIN cases = 1..Len(cases) /\ Len(cases) \in Nat
    BY DEF TypeOK
  <1>5. VoidOpenCases \in [1..Len(cases) -> Case]
    BY <1>3, <1>4 DEF VoidOpenCases
  <1>6. VoidOpenCases \in Seq(Case)
    BY <1>4, <1>5
  <1>7. \A c \in DOMAIN cases : VoidOpenCases[c].status \notin OpenStatus
    BY <1>1 DEF VoidOpenCases, OpenStatus, Case
  <1> QED
    BY <1>6, <1>7 DEF VoidOpenCases

(* Every queued row has one of the three outbox kinds. *)
LEMMA SubjectsAre ==
    /\ \A n \in Nat : n \in Subjects
    /\ \A t \in Transitions : t \in Subjects
  BY Zenon DEF Subjects

LEMMA RowType ==
    ASSUME NEW kind \in OutboxKinds, NEW event \in OutboxEvents, NEW id \in Subjects
    PROVE  Row(kind, event, id) \in OutboxRow
  BY DEF Row, OutboxRow

LEMMA ForumType ==
    ASSUME NEW event \in OutboxEvents, NEW id \in Subjects
    PROVE  Forum(event, id) \subseteq OutboxRow
  <1>1. Row("FORUM_EVENT", event, id) \in OutboxRow
    BY RowType, SubjectsAre DEF OutboxKinds, OutboxEvents
  <1>2. Forum(event, id) \in {{Row("FORUM_EVENT", event, id)}, {}}
    BY DEF Forum
  <1> QED
    BY <1>1, <1>2

LEMMA OwnerWakeType ==
    ASSUME NEW case \in Nat
    PROVE  OwnerWake(case) \subseteq OutboxRow
  <1>1. Row("OWNER_ASSISTANCE_WAKE", "owner-assistance", case) \in OutboxRow
    BY RowType, SubjectsAre DEF OutboxKinds, OutboxEvents
  <1>2. OwnerWake(case) \in
           {{Row("OWNER_ASSISTANCE_WAKE", "owner-assistance", case)}, {}}
    BY DEF OwnerWake
  <1> QED
    BY <1>1, <1>2

LEMMA KickType ==
    ASSUME NEW v \in Nat, NEW a \in Activation
    PROVE  KickFor(v, a) \subseteq OutboxRow
  <1>1. Row("EXECUTION_KICK", "kick", v) \in OutboxRow
    BY RowType, SubjectsAre DEF OutboxKinds, OutboxEvents
  <1>2. KickFor(v, a) \in {{Row("EXECUTION_KICK", "kick", v)}, {}}
    BY DEF KickFor
  <1> QED
    BY <1>1, <1>2

LEMMA CompletionType ==
    ASSUME NEW n \in Nodes
    PROVE  Completion(n) \subseteq OutboxRow
  <1>1. Forum("workflow_completed", 0) \subseteq OutboxRow
    BY ForumType, SubjectsAre DEF OutboxEvents
  <1>2. Completion(n) \in {Forum("workflow_completed", 0), {}}
    BY DEF Completion
  <1> QED
    BY <1>1, <1>2

-----------------------------------------------------------------------------
(* Type correctness, command by command.                                    *)

LEMMA RefuseType == TypeOK /\ Refuse => TypeOK'
  BY DEF TypeOK, Refuse, row, facts, UNCHANGED_ENV

LEMMA CreateType ==
    ASSUME TypeOK, NEW kind \in ActivationKinds, NEW ok \in BOOLEAN,
           CreateInstance(kind, ok)
    PROVE  TypeOK'
  <1>1. CASE Refuse
    BY <1>1, RefuseType
  <1>2. CASE ~Refuse
    <2> DEFINE a == ActivationFor(EntryNode, kind)
    <2>1. a \in Activation /\ EntryNode \in Nodes
      BY ActivationType, DefinitionAssumption
    <2>2. [node |-> EntryNode, by |-> NoTransition] \in Visit
      BY <2>1 DEF Visit
    <2>3. events' \in Seq(Event)
      BY <1>2, LoggedType DEF CreateInstance, EventTypes
    <2>4. receipts' \in Seq(Receipt)
      BY <1>2, AnsweredType DEF CreateInstance, CommandTypes
    <2>5. outbox' \subseteq OutboxRow
      <3>1. KickFor(1, a) \subseteq OutboxRow
        BY <2>1, KickType
      <3>2. Forum("wf_created", 0) \subseteq OutboxRow
        BY ForumType, SubjectsAre DEF OutboxEvents
      <3>3. outbox' = outbox \cup (IF Business THEN KickFor(1, a) ELSE {})
                             \cup Forum("wf_created", 0)
        BY <1>2 DEF CreateInstance
      <3> QED
        BY <3>1, <3>2, <3>3 DEF TypeOK
    <2> HIDE DEF a
    <2>6. /\ visits' = <<[node |-> EntryNode, by |-> NoTransition]>>
          /\ activations' = <<a>>
      BY <1>2 DEF CreateInstance, a
    <2>7. /\ version' = 1 /\ visit' = 1 /\ context' = 1 /\ revisions' = 1
          /\ UNCHANGED <<cancelled, archived, cases, refusals,
                         definitionStatus, ownerPresent>>
      BY <1>2 DEF CreateInstance, UNCHANGED_ENV
    <2> QED
      BY <2>1, <2>2, <2>3, <2>4, <2>5, <2>6, <2>7 DEF TypeOK
  <1> QED
    BY <1>1, <1>2

LEMMA MoveType ==
    ASSUME TypeOK, NEW n \in Nodes, NEW by \in Transitions \cup {NoTransition},
           NEW a \in Activation,
           visit' = NextVisit,
           visits' = Append(visits, [node |-> n, by |-> by]),
           activations' = Append(CloseCurrent, a)
    PROVE  /\ visit' \in Nat /\ visits' \in Seq(Visit)
           /\ activations' \in Seq(Activation)
           /\ Len(activations') = Len(visits')
           /\ NextVisit \in Nat
  <1>1. [node |-> n, by |-> by] \in Visit
    BY DEF Visit
  <1>2. CloseCurrent \in Seq(Activation) /\ Len(CloseCurrent) = Len(activations)
    BY CloseType
  <1>3. activations' \in Seq(Activation) /\ Len(activations') = Len(activations) + 1
    BY <1>2
  <1>4. visits' \in Seq(Visit) /\ Len(visits') = Len(visits) + 1
    BY <1>1 DEF TypeOK
  <1> QED
    BY <1>3, <1>4 DEF TypeOK, NextVisit

LEMMA RowsOfTransition ==
    ASSUME TypeOK, NEW t \in Transitions, NEW a \in Activation
    PROVE  /\ TransitionRows(t, a) \subseteq OutboxRow
           /\ Target[t] \in Nodes
  <1>1. Target[t] \in Nodes
    BY DefinitionAssumption
  <1>2. NextVisit \in Nat /\ version + 1 \in Nat
    BY DEF TypeOK, NextVisit
  <1>3. KickFor(NextVisit, a) \subseteq OutboxRow
    BY <1>2, KickType
  <1>4. Forum("transition_committed", version + 1) \subseteq OutboxRow
    BY <1>2, ForumType, SubjectsAre DEF OutboxEvents
  <1>5. Completion(Target[t]) \subseteq OutboxRow
    BY <1>1, CompletionType
  <1> QED
    BY <1>1, <1>3, <1>4, <1>5 DEF TransitionRows

LEMMA TransitionType ==
    ASSUME TypeOK, NEW t \in Transitions, NEW kind \in ActivationKinds,
           NEW x, NEW ok \in BOOLEAN, ExecuteTransition(t, x, kind, ok)
    PROVE  TypeOK'
  <1>1. CASE Refuse
    BY <1>1, RefuseType
  <1>2. CASE ~Refuse
    <2> DEFINE a == ActivationFor(Target[t], kind)
    <2>1. Target[t] \in Nodes
      BY RowsOfTransition, DefinitionAssumption
    <2>2. a \in Activation
      BY <2>1, ActivationType
    <2>3. /\ CommitTransition(t, a) \/ CommitLimitReturn(t, a)
          /\ UNCHANGED <<context, cancelled, archived, revisions, refusals,
                         definitionStatus, ownerPresent>>
      BY <1>2 DEF ExecuteTransition, UNCHANGED_ENV
    <2> HIDE DEF a
    <2>4. MoveAlong(t, a)
      BY <2>3 DEF CommitTransition, CommitLimitReturn
    <2>5. /\ visit' \in Nat /\ visits' \in Seq(Visit)
          /\ activations' \in Seq(Activation)
          /\ Len(activations') = Len(visits')
          /\ NextVisit \in Nat
      BY <2>1, <2>2, <2>4, MoveType DEF MoveAlong
    <2>6. TransitionLogged(t) \in Seq(Event)
      BY <2>5, LoggedType DEF TransitionLogged, EventTypes, TypeOK
    <2>7. TransitionRows(t, a) \subseteq OutboxRow
      BY <2>2, RowsOfTransition
    <2>8. CASE CommitTransition(t, a)
      <3>1. receipts' \in Seq(Receipt)
        <4>1. version + 1 \in Nat
          BY DEF TypeOK
        <4>2. Answered("EXECUTE_WORKFLOW_TRANSITION", version + 1) \in Seq(Receipt)
          BY <4>1, AnsweredType DEF CommandTypes
        <4> QED
          BY <2>8, <4>2 DEF CommitTransition
      <3>2. /\ version' \in Nat /\ cases' = cases /\ events' \in Seq(Event)
            /\ outbox' \subseteq OutboxRow
        BY <2>6, <2>7, <2>8 DEF CommitTransition, TypeOK
      <3> QED
        BY <2>3, <2>5, <3>1, <3>2 DEF TypeOK
    <2>9. CASE CommitLimitReturn(t, a)
      <3>1. NextCase \in Nat /\ version + 2 \in Nat /\ Len(receipts) + 2 \in Nat
        BY DEF TypeOK, NextCase
      <3>2. [visit |-> NextVisit, status |-> "OWNER_PENDING"] \in Case
        BY <2>5 DEF Case, CaseStatuses
      <3>3. cases' \in Seq(Case)
        BY <2>9, <3>2 DEF CommitLimitReturn, TypeOK
      <3>4. EventRow("ASSISTANCE_REQUESTED", version + 2, NextVisit, NextVisit,
                     context, NoTransition, NextCase, Len(receipts) + 2)
               \in Event
        BY <2>5, <3>1 DEF EventRow, Event, EventTypes, TypeOK
      <3>5. events' \in Seq(Event)
        BY <2>6, <2>9, <3>4 DEF CommitLimitReturn
      <3>6. Answered("EXECUTE_WORKFLOW_TRANSITION", version + 2) \in Seq(Receipt)
        BY <3>1, AnsweredType DEF CommandTypes
      <3>7. [command |-> "REQUEST_WORKFLOW_ASSISTANCE", version |-> version + 2]
               \in Receipt
        BY <3>1 DEF Receipt, CommandTypes
      <3>8. receipts' \in Seq(Receipt)
        BY <2>9, <3>6, <3>7 DEF CommitLimitReturn
      <3>9. OwnerWake(NextCase) \subseteq OutboxRow
        BY <3>1, OwnerWakeType
      <3>10. Forum("return_policy_reached", t) \subseteq OutboxRow
        BY ForumType, SubjectsAre DEF OutboxEvents
      <3>11. outbox' \subseteq OutboxRow
        BY <2>7, <2>9, <3>9, <3>10 DEF CommitLimitReturn, TypeOK
      <3>12. version' \in Nat
        BY <2>9, <3>1 DEF CommitLimitReturn
      <3> QED
        BY <2>3, <2>5, <3>3, <3>5, <3>8, <3>11, <3>12 DEF TypeOK
    <2> QED
      BY <2>3, <2>8, <2>9
  <1> QED
    BY <1>1, <1>2

(* Most commands write one version, one event and one receipt. *)
LEMMA OneVersionType ==
    ASSUME TypeOK,
           NEW type \in EventTypes, NEW s \in Nat, NEW t \in Nat,
           NEW ctx \in Nat, NEW edge \in Transitions \cup {NoTransition},
           NEW case \in Nat, NEW command \in CommandTypes,
           version' = version + 1,
           events' = Logged(type, s, t, ctx, edge, case),
           receipts' = Answered(command, version + 1)
    PROVE  version' \in Nat /\ events' \in Seq(Event) /\ receipts' \in Seq(Receipt)
  <1>1. version + 1 \in Nat
    BY DEF TypeOK
  <1>2. events' \in Seq(Event)
    BY LoggedType
  <1>3. Answered(command, version + 1) \in Seq(Receipt)
    BY <1>1, AnsweredType
  <1> QED
    BY <1>1, <1>2, <1>3

LEMMA ReviseType ==
    ASSUME TypeOK, NEW x, NEW ok \in BOOLEAN, ReviseContext(x, ok)
    PROVE  TypeOK'
  <1>1. CASE Refuse
    BY <1>1, RefuseType
  <1>2. CASE ~Refuse
    <2>1. version' \in Nat /\ events' \in Seq(Event) /\ receipts' \in Seq(Receipt)
      <3>1. visit \in Nat /\ revisions + 1 \in Nat
        BY DEF TypeOK
      <3> QED
        BY <1>2, <3>1, OneVersionType
        DEF ReviseContext, EventTypes, CommandTypes
    <2> QED
      BY <1>2, <2>1 DEF ReviseContext, TypeOK, UNCHANGED_ENV
  <1> QED
    BY <1>1, <1>2

LEMMA RepairType ==
    ASSUME TypeOK, RepairContext
    PROVE  TypeOK'
  <1>1. version + 1 \in Nat /\ revisions + 1 \in Nat /\ visit \in Nat
    BY DEF TypeOK
  <1>2. events' \in Seq(Event)
    BY <1>1, LoggedType DEF RepairContext, EventTypes
  <1>3. receipts' \in Seq(Receipt)
    BY AnsweredType DEF RepairContext, CommandTypes
  <1> QED
    BY <1>1, <1>2, <1>3 DEF RepairContext, TypeOK, UNCHANGED_ENV

LEMMA CombinedType ==
    ASSUME TypeOK, NEW u \in Transitions, NEW x, NEW ok \in BOOLEAN,
           ReviseContextAndTransition(u, x, ok)
    PROVE  TypeOK'
  <1>1. CASE Refuse
    BY <1>1, RefuseType
  <1>2. CASE ~Refuse
    <2> DEFINE a == ActivationFor(Target[u], "HUMAN_WORK_ITEM")
    <2>1. Target[u] \in Nodes /\ a \in Activation
      BY DefinitionAssumption, ActivationType DEF ActivationKinds
    <2> HIDE DEF a
    <2>2. /\ visit' \in Nat /\ visits' \in Seq(Visit)
          /\ activations' \in Seq(Activation)
          /\ Len(activations') = Len(visits')
          /\ NextVisit \in Nat
      BY <1>2, <2>1, MoveType DEF ReviseContextAndTransition, MoveAlong, a
    <2>3. version' \in Nat /\ events' \in Seq(Event) /\ receipts' \in Seq(Receipt)
      <3>1. visit \in Nat /\ revisions + 1 \in Nat
        BY DEF TypeOK
      <3> QED
        BY <1>2, <2>2, <3>1, OneVersionType
        DEF ReviseContextAndTransition, EventTypes, CommandTypes
    <2> QED
      BY <1>2, <2>2, <2>3
      DEF ReviseContextAndTransition, TypeOK, UNCHANGED_ENV
  <1> QED
    BY <1>1, <1>2

LEMMA CloseCommandsType ==
    ASSUME TypeOK, NEW x, NEW ok \in BOOLEAN,
           CancelInstance(x, ok) \/ ArchiveInstance(x, ok)
    PROVE  TypeOK'
  <1>1. CASE Refuse
    BY <1>1, RefuseType
  <1>2. CASE ~Refuse /\ CancelInstance(x, ok)
    <2>1. version' \in Nat /\ events' \in Seq(Event) /\ receipts' \in Seq(Receipt)
      BY <1>2, OneVersionType DEF CancelInstance, EventTypes, CommandTypes, TypeOK
    <2>2. cases' \in Seq(Case) /\ activations' \in Seq(Activation)
          /\ Len(activations') = Len(activations)
      BY <1>2, VoidType, CloseType DEF CancelInstance
    <2>3. outbox' \subseteq OutboxRow
      <3>1. Forum("workflow_cancelled", 0) \subseteq OutboxRow
        BY ForumType, SubjectsAre DEF OutboxEvents
      <3> QED
        BY <1>2, <3>1 DEF CancelInstance, TypeOK
    <2> QED
      BY <1>2, <2>1, <2>2, <2>3 DEF CancelInstance, TypeOK, UNCHANGED_ENV
  <1>3. CASE ~Refuse /\ ArchiveInstance(x, ok)
    <2>1. version' \in Nat /\ events' \in Seq(Event) /\ receipts' \in Seq(Receipt)
      BY <1>3, OneVersionType DEF ArchiveInstance, EventTypes, CommandTypes, TypeOK
    <2>2. cases' \in Seq(Case)
      BY <1>3, VoidType DEF ArchiveInstance
    <2>3. outbox' \subseteq OutboxRow
      <3>1. Forum("workflow_archived", 0) \subseteq OutboxRow
        BY ForumType, SubjectsAre DEF OutboxEvents
      <3> QED
        BY <1>3, <3>1 DEF ArchiveInstance, TypeOK
    <2> QED
      BY <1>3, <2>1, <2>2, <2>3 DEF ArchiveInstance, TypeOK, UNCHANGED_ENV
  <1> QED
    BY <1>1, <1>2, <1>3

LEMMA OpenedType ==
    ASSUME TypeOK
    PROVE  OpenedOn(visit) \in Seq(Case) /\ NextCase \in Nat
  <1>1. [visit |-> visit, status |-> "OWNER_PENDING"] \in Case
    BY DEF TypeOK, Case, CaseStatuses
  <1> QED
    BY <1>1 DEF TypeOK, OpenedOn, NextCase

LEMMA RequestType ==
    ASSUME TypeOK, NEW v, NEW x, NEW ok \in BOOLEAN, RequestAssistance(v, x, ok)
    PROVE  TypeOK'
  <1>1. CASE Refuse
    BY <1>1, RefuseType
  <1>2. CASE ~Refuse
    <2>1. version' \in Nat /\ events' \in Seq(Event) /\ receipts' \in Seq(Receipt)
      BY <1>2, OpenedType, OneVersionType
      DEF RequestAssistance, EventTypes, CommandTypes, TypeOK
    <2>2. cases' \in Seq(Case)
      BY <1>2, OpenedType DEF RequestAssistance
    <2>3. outbox' \subseteq OutboxRow
      <3>1. Forum("assistance_requested", NextCase) \subseteq OutboxRow
        BY OpenedType, ForumType, SubjectsAre DEF OutboxEvents
      <3>2. OwnerWake(NextCase) \subseteq OutboxRow
        BY OpenedType, OwnerWakeType
      <3> QED
        BY <1>2, <3>1, <3>2 DEF RequestAssistance, TypeOK
    <2> QED
      BY <1>2, <2>1, <2>2, <2>3 DEF RequestAssistance, TypeOK, UNCHANGED_ENV
  <1> QED
    BY <1>1, <1>2

LEMMA OwnerActionType ==
    ASSUME TypeOK, NEW c \in DOMAIN cases, NEW x, NEW ok \in BOOLEAN, NEW from,
           NEW to \in CaseStatuses, NEW command \in CommandTypes,
           NEW type \in EventTypes, NEW forum \in OutboxEvents,
           OwnerAction(c, x, ok, from, to, command, type, forum)
    PROVE  TypeOK'
  <1>1. CASE Refuse
    BY <1>1, RefuseType
  <1>2. CASE ~Refuse
    <2>0. c \in Nat
      BY DEF TypeOK
    <2>1. version' \in Nat /\ events' \in Seq(Event) /\ receipts' \in Seq(Receipt)
      BY <1>2, <2>0, OneVersionType DEF OwnerAction, TypeOK
    <2>2. cases' \in Seq(Case)
      <3>1. \A k \in Case : [k EXCEPT !.status = to] \in Case
        BY DEF Case
      <3>2. cases' = [i \in 1..Len(cases) |->
                IF i = c THEN [cases[i] EXCEPT !.status = to] ELSE cases[i]]
        BY <1>2 DEF OwnerAction, TypeOK
      <3>3. \A i \in 1..Len(cases) : cases[i] \in Case
        BY DEF TypeOK
      <3> QED
        BY <3>1, <3>2, <3>3 DEF TypeOK
    <2>3. outbox' \subseteq OutboxRow
      <3>1. Forum(forum, c) \subseteq OutboxRow
        BY <2>0, ForumType, SubjectsAre
      <3> QED
        BY <1>2, <3>1 DEF OwnerAction, TypeOK
    <2> QED
      BY <1>2, <2>1, <2>2, <2>3 DEF OwnerAction, TypeOK, UNCHANGED_ENV
  <1> QED
    BY <1>1, <1>2

LEMMA EscalateResolveType ==
    ASSUME TypeOK, NEW c \in DOMAIN cases, NEW x, NEW ok \in BOOLEAN,
           EscalateAssistance(c, x, ok) \/ ResolveAssistance(c, x, ok)
    PROVE  TypeOK'
  <1>1. CASE EscalateAssistance(c, x, ok)
    <2>1. OwnerAction(c, x, ok, {"OWNER_PENDING"}, "HUMAN_REQUIRED",
                      "ESCALATE_WORKFLOW_ASSISTANCE_TO_HUMAN",
                      "ASSISTANCE_ESCALATED_TO_HUMAN", "assistance_escalated")
      BY <1>1 DEF EscalateAssistance
    <2>2. /\ "HUMAN_REQUIRED" \in CaseStatuses
          /\ "ESCALATE_WORKFLOW_ASSISTANCE_TO_HUMAN" \in CommandTypes
          /\ "ASSISTANCE_ESCALATED_TO_HUMAN" \in EventTypes
          /\ "assistance_escalated" \in OutboxEvents
      BY DEF CaseStatuses, CommandTypes, EventTypes, OutboxEvents
    <2> QED
      BY Zenon, <2>1, <2>2, OwnerActionType
  <1>2. CASE ResolveAssistance(c, x, ok)
    <2>1. OwnerAction(c, x, ok, OpenStatus, "RESOLVED",
                      "RESOLVE_WORKFLOW_ASSISTANCE", "ASSISTANCE_RESOLVED",
                      "assistance_resolved")
      BY <1>2 DEF ResolveAssistance
    <2>2. /\ "RESOLVED" \in CaseStatuses
          /\ "RESOLVE_WORKFLOW_ASSISTANCE" \in CommandTypes
          /\ "ASSISTANCE_RESOLVED" \in EventTypes
          /\ "assistance_resolved" \in OutboxEvents
      BY DEF CaseStatuses, CommandTypes, EventTypes, OutboxEvents
    <2> QED
      BY Zenon, <2>1, <2>2, OwnerActionType
  <1> QED
    BY <1>1, <1>2

LEMMA SystemEscalationType ==
    ASSUME TypeOK, NEW v, NEW ok \in BOOLEAN, SystemExecutionEscalation(v, ok)
    PROVE  TypeOK'
  <1>1. CASE Refuse
    BY <1>1, RefuseType
  <1>2. CASE ~Refuse
    <2>1. /\ OpenByPolicy \/ FindAlreadyOpen
          /\ UNCHANGED <<visit, context, cancelled, archived, visits, revisions,
                         activations, refusals, definitionStatus, ownerPresent>>
      BY <1>2 DEF SystemExecutionEscalation, UNCHANGED_ENV
    <2>2. CASE OpenByPolicy
      <3>1. version + 1 \in Nat /\ Len(receipts) + 2 \in Nat /\ NextCase \in Nat
        BY OpenedType DEF TypeOK
      <3>2. EventRow("ASSISTANCE_REQUESTED", version + 1, visit, visit, context,
                     NoTransition, NextCase, Len(receipts) + 2) \in Event
        BY <3>1 DEF EventRow, Event, EventTypes, TypeOK
      <3>3. version' \in Nat /\ events' \in Seq(Event) /\ cases' \in Seq(Case)
        BY <2>2, <3>1, <3>2, OpenedType DEF OpenByPolicy, TypeOK
      <3>4. /\ Answered("SYSTEM_EXECUTION_ESCALATION", version + 1)
                  \in Seq(Receipt)
            /\ [command |-> "REQUEST_WORKFLOW_ASSISTANCE",
                version |-> version + 1] \in Receipt
        BY <3>1, AnsweredType DEF CommandTypes, Receipt
      <3>5. receipts' \in Seq(Receipt)
        BY <2>2, <3>4 DEF OpenByPolicy
      <3>6. OwnerWake(NextCase) \subseteq OutboxRow
        BY <3>1, OwnerWakeType
      <3>7. Forum("assistance_requested", NextCase) \subseteq OutboxRow
        BY <3>1, ForumType, SubjectsAre DEF OutboxEvents
      <3> QED
        BY <2>1, <2>2, <3>3, <3>5, <3>6, <3>7 DEF OpenByPolicy, TypeOK
    <2>3. CASE FindAlreadyOpen
      <3>1. PICK c \in OpenOn(visit) :
                /\ receipts' = Answered("SYSTEM_EXECUTION_ESCALATION", version)
                /\ outbox' = outbox \cup Forum("assistance_requested", c)
                /\ UNCHANGED <<version, cases, events>>
        BY <2>3 DEF FindAlreadyOpen
      <3>2. c \in Nat
        BY DEF TypeOK, OpenOn, OpenCases
      <3>3. Forum("assistance_requested", c) \subseteq OutboxRow
        BY <3>2, ForumType, SubjectsAre DEF OutboxEvents
      <3>4. receipts' \in Seq(Receipt)
        BY <3>1, AnsweredType DEF TypeOK, CommandTypes
      <3> QED
        BY <2>1, <3>1, <3>3, <3>4 DEF TypeOK
    <2> QED
      BY <2>1, <2>2, <2>3
  <1> QED
    BY <1>1, <1>2

LEMMA WakeType ==
    ASSUME TypeOK, NEW v \in DOMAIN visits, NEW x, WakeDispatchIntent(v, x)
    PROVE  TypeOK'
  <1>1. v \in Nat
    BY DEF TypeOK
  <1>2. UNCHANGED <<visit, context, cancelled, archived, visits, revisions,
                    cases, refusals, outbox, definitionStatus, ownerPresent>>
    BY DEF WakeDispatchIntent, UNCHANGED_ENV
  <1>3. CASE WakeHasNothingToDo(v, x)
    <2>1. receipts' \in Seq(Receipt)
      BY <1>3, AnsweredType DEF WakeDispatchIntent, CommandTypes
    <2> QED
      BY <1>2, <1>3, <2>1 DEF WakeDispatchIntent, TypeOK
  <1>4. CASE ~WakeHasNothingToDo(v, x)
    <2>1. version' \in Nat /\ events' \in Seq(Event) /\ receipts' \in Seq(Receipt)
      BY <1>1, <1>4, OneVersionType
      DEF WakeDispatchIntent, EventTypes, CommandTypes
    <2>2. \A a \in Activation : [a EXCEPT !.due = TRUE] \in Activation
      BY DEF Activation
    <2>3. activations' = [i \in 1..Len(activations) |->
              IF i = v THEN [activations[i] EXCEPT !.due = TRUE]
              ELSE activations[i]]
      BY <1>4 DEF WakeDispatchIntent, TypeOK
    <2>4. \A i \in 1..Len(activations) : activations[i] \in Activation
      BY DEF TypeOK
    <2>5. activations' \in Seq(Activation) /\ Len(activations') = Len(activations)
      BY <2>2, <2>3, <2>4 DEF TypeOK
    <2> QED
      BY <1>2, <2>1, <2>5 DEF TypeOK
  <1> QED
    BY <1>3, <1>4

LEMMA DeferType ==
    ASSUME TypeOK, NEW v \in DOMAIN visits, DeferEligibility(v)
    PROVE  TypeOK'
  <1>1. \A a \in Activation : [a EXCEPT !.due = FALSE] \in Activation
    BY DEF Activation
  <1>2. activations' = [i \in 1..Len(activations) |->
            IF i = v THEN [activations[i] EXCEPT !.due = FALSE]
            ELSE activations[i]]
    <2>1. activations' = [activations EXCEPT ![v].due = FALSE]
      BY DEF DeferEligibility
    <2>2. DOMAIN activations = 1..Len(activations)
      BY DEF TypeOK
    <2> QED
      BY <2>1, <2>2
  <1>3. \A i \in 1..Len(activations) : activations[i] \in Activation
    BY DEF TypeOK
  <1>4. activations' \in Seq(Activation) /\ Len(activations') = Len(activations)
    BY <1>1, <1>2, <1>3 DEF TypeOK
  <1>5. UNCHANGED <<version, visit, context, cancelled, archived, visits,
                    revisions, cases, events, receipts, refusals, outbox,
                    definitionStatus, ownerPresent>>
    BY DEF DeferEligibility, row, UNCHANGED_ENV
  <1> QED
    BY <1>4, <1>5 DEF TypeOK

LEMMA OverrideType ==
    ASSUME TypeOK, NEW n \in Nodes, NEW x, NEW ok \in BOOLEAN,
           AdminEmergencyOverride(n, x, ok)
    PROVE  TypeOK'
  <1>1. CASE Refuse
    BY <1>1, RefuseType
  <1>2. CASE ~Refuse
    <2> DEFINE a == ActivationFor(n, "HUMAN_WORK_ITEM")
    <2>1. a \in Activation
      BY ActivationType DEF ActivationKinds
    <2> HIDE DEF a
    <2>2. /\ visit' \in Nat /\ visits' \in Seq(Visit)
          /\ activations' \in Seq(Activation)
          /\ Len(activations') = Len(visits')
          /\ NextVisit \in Nat
      BY <1>2, <2>1, MoveType DEF AdminEmergencyOverride, a
    <2>3. version' \in Nat /\ events' \in Seq(Event) /\ receipts' \in Seq(Receipt)
      BY <1>2, <2>2, OneVersionType
      DEF AdminEmergencyOverride, EventTypes, CommandTypes, TypeOK
    <2>4. cases' \in Seq(Case)
      BY <1>2, VoidType DEF AdminEmergencyOverride
    <2> QED
      BY <1>2, <2>2, <2>3, <2>4 DEF AdminEmergencyOverride, TypeOK, UNCHANGED_ENV
  <1> QED
    BY <1>1, <1>2

(* The projection read off a typed log is typed; that of a log replay       *)
(* accepts has at least version 1.                                          *)
LEMMA ReplayedType ==
    ASSUME TypeOK
    PROVE  /\ Replayed[1] \in Nat /\ Replayed[2] \in Nat /\ Replayed[3] \in Nat
           /\ LogReconstructs => Replayed[1] > 0
  <1> DEFINE S(m) == StateAfter(events, m)
             n    == Len(events)
  <1>1. n \in Nat /\ \A i \in 1..n : events[i] \in Event
    BY DEF TypeOK
  <1>2. \A m \in 0..n : /\ S(m).version = IF m = 0 THEN 0 ELSE events[m].version
                        /\ S(m).visit = IF m = 0 THEN 0 ELSE events[m].target
                        /\ S(m).context = IF m = 0 THEN 0 ELSE events[m].context
    BY Zenon DEF StateAfter
  <1> HIDE DEF S
  <1>3. \A m \in 0..n : /\ S(m).version \in Nat /\ S(m).visit \in Nat
                        /\ S(m).context \in Nat
    BY <1>1, <1>2 DEF Event
  <1>4. /\ Replayed[1] = S(n).version /\ Replayed[2] = S(n).visit
        /\ Replayed[3] = S(n).context
    BY DEF Replayed, S
  <1>5. ASSUME LogReconstructs
        PROVE  S(n).version > 0
    <2>1. n > 0 /\ Accepts(S(n - 1), events[n], visits)
      BY <1>1, <1>5 DEF LogReconstructs, Reconstructs, S
    <2>2. events[n].version = S(n - 1).version + 1
      BY <2>1 DEF Accepts
    <2> QED
      BY <1>1, <1>2, <1>3, <2>1, <2>2
  <1> QED
    BY <1>1, <1>3, <1>4, <1>5

LEMMA RebuildType ==
    ASSUME TypeOK, NEW ok \in BOOLEAN, RebuildProjection(ok)
    PROVE  TypeOK'
  <1>1. CASE Refuse
    BY <1>1, RefuseType
  <1>2. CASE ~Refuse
    <2>1. version' \in Nat /\ visit' \in Nat /\ context' \in Nat
      BY <1>2, ReplayedType DEF RebuildProjection
    <2>2. cases' \in Seq(Case)
      BY <1>2, VoidType DEF RebuildProjection, TypeOK
    <2>3. receipts' \in Seq(Receipt)
      BY <1>2, ReplayedType, AnsweredType DEF RebuildProjection, CommandTypes
    <2> QED
      BY <1>2, <2>1, <2>2, <2>3 DEF RebuildProjection, TypeOK, UNCHANGED_ENV
  <1> QED
    BY <1>1, <1>2

LEMMA EnvironmentType ==
    ASSUME TypeOK,
           \/ DeprecateDefinition \/ RevokeDefinition \/ ChangeDomainOwner
           \/ UNCHANGED vars
    PROVE  TypeOK'
  <1>1. UNCHANGED <<row, facts, receipts, refusals, outbox>>
    BY DEF DeprecateDefinition, RevokeDefinition, ChangeDomainOwner, vars
  <1>2. definitionStatus' \in {"PUBLISHED", "DEPRECATED", "REVOKED"}
    BY DEF DeprecateDefinition, RevokeDefinition, ChangeDomainOwner, vars, TypeOK
  <1>3. ownerPresent' \in BOOLEAN
    BY DEF DeprecateDefinition, RevokeDefinition, ChangeDomainOwner, vars, TypeOK
  <1> QED
    BY <1>1, <1>2, <1>3 DEF TypeOK, row, facts

LEMMA InitType == Init => TypeOK
  <1> SUFFICES ASSUME Init PROVE TypeOK
    OBVIOUS
  <1>1. visits \in Seq(Visit) /\ cases \in Seq(Case) /\ events \in Seq(Event)
    BY DEF Init
  <1>2. receipts \in Seq(Receipt) /\ activations \in Seq(Activation)
    BY DEF Init
  <1>3. outbox \subseteq OutboxRow
    BY DEF Init
  <1>4. Len(activations) = Len(visits)
    BY DEF Init
  <1> QED
    BY <1>1, <1>2, <1>3, <1>4 DEF Init, TypeOK

LEMMA NextType == TypeOK /\ [Next]_vars => TypeOK'
  <1> SUFFICES ASSUME TypeOK, [Next]_vars PROVE TypeOK'
    OBVIOUS
  <1>1. CASE Commands
    BY <1>1, CreateType, TransitionType, ReviseType, RepairType, CombinedType,
       CloseCommandsType, RequestType, EscalateResolveType,
       SystemEscalationType, WakeType, OverrideType, RebuildType
    DEF Commands
  <1>2. CASE Environment
    BY <1>2, DeferType, EnvironmentType DEF Environment
  <1>3. CASE UNCHANGED vars
    BY <1>3, EnvironmentType
  <1> QED
    BY <1>1, <1>2, <1>3 DEF Next

(* Whatever the commands write has the columns and the value ranges of the  *)
(* tables.                                                                  *)
THEOREM InstanceTypeCorrect == Spec => []TypeOK
  BY InitType, NextType, PTL DEF Spec

-----------------------------------------------------------------------------
(* Assistance safety.  Three facts about the row make it inductive: nothing *)
(* is written before creation, an archived instance is over, and the log    *)
(* of an archived instance says so, which keeps recovery away from it.      *)

NothingBeforeCreation ==
    ~Exists => cases = << >> /\ ~cancelled /\ ~archived

ArchivedIsOver == archived => Closed /\ Happened("WORKFLOW_INSTANCE_ARCHIVED")

IInv == TypeOK /\ NothingBeforeCreation /\ ArchivedIsOver /\ AssistanceSafety

(* Without an open case there is nothing to keep safe. *)
LEMMA NoOpenCase ==
    ASSUME OpenCases' = {}
    PROVE  AssistanceSafety'
  BY DEF AssistanceSafety

LEMMA VoidedAll ==
    ASSUME TypeOK, cases' = VoidOpenCases
    PROVE  OpenCases' = {}
  BY VoidType DEF OpenCases

LEMMA SameCases ==
    ASSUME UNCHANGED cases
    PROVE  OpenCases' = OpenCases
  BY DEF OpenCases

(* Events are only added. *)
LEMMA LogGrows ==
    ASSUME TypeOK, NEW type, NEW e,
           UNCHANGED events \/ events' = Append(events, e), Happened(type)
    PROVE  Happened(type)'
  <1>1. PICK i \in DOMAIN events : events[i].type = type
    BY DEF Happened
  <1>2. CASE UNCHANGED events
    BY <1>2 DEF Happened
  <1>3. CASE events' = Append(events, e)
    <2>1. i \in 1..Len(events) /\ Len(events) \in Nat
      BY DEF TypeOK
    <2>2. DOMAIN events' = 1..(Len(events) + 1) /\ events'[i] = events[i]
      BY <1>3, <2>1 DEF TypeOK
    <2> QED
      BY <1>1, <2>1, <2>2 DEF Happened
  <1> QED
    BY <1>2, <1>3

(* Replay refuses the log of an archived instance. *)
LEMMA ReplayExcludesArchived ==
    ASSUME TypeOK, ArchivedIsOver, LogReconstructs
    PROVE  ~archived
  <1> SUFFICES ASSUME archived PROVE FALSE
    OBVIOUS
  <1>1. PICK i \in DOMAIN events : events[i].type = "WORKFLOW_INSTANCE_ARCHIVED"
    BY DEF ArchivedIsOver, Happened
  <1>2. i \in 1..Len(events)
    BY DEF TypeOK
  <1>3. Accepts(StateAfter(events, i - 1), events[i], visits)
    BY <1>2 DEF LogReconstructs, Reconstructs
  <1> QED
    BY <1>1, <1>3 DEF Accepts

(* A case that is opened on the new current visit of an open instance that  *)
(* has none. *)
LEMMA OneCaseOpened ==
    ASSUME TypeOK, OpenCases = {}, ~Closed', ~archived',
           cases' = Append(cases, [visit |-> visit', status |-> "OWNER_PENDING"])
    PROVE  AssistanceSafety'
  <1>1. \A c \in DOMAIN cases : cases'[c] = cases[c]
    BY DEF TypeOK
  <1>2. DOMAIN cases' = DOMAIN cases \cup {NextCase}
    BY DEF TypeOK, NextCase
  <1>3. cases'[NextCase].visit = visit'
    BY DEF TypeOK, NextCase
  <1>4. \A c \in OpenCases' : c = NextCase
    BY <1>1, <1>2 DEF OpenCases
  <1>5. \A c \in OpenCases' : cases'[c].visit = visit'
    BY <1>3, <1>4
  <1>6. \A c, d \in OpenCases' : c = d
    BY <1>4
  <1> QED
    BY <1>5, <1>6 DEF AssistanceSafety

(* The current visit of the others: a case on it is all there is. *)
LEMMA OnlyOnCurrent ==
    ASSUME AssistanceSafety, OpenOn(visit) = {}
    PROVE  OpenCases = {}
  BY DEF AssistanceSafety, OpenOn

(* A step that leaves the row's position alone and opens no case. *)
LEMMA PositionKept ==
    ASSUME IInv, TypeOK', NEW e,
           UNCHANGED events \/ events' = Append(events, e),
           UNCHANGED <<visit, visits, cancelled, archived, cases>>,
           Exists => Exists', ~Exists => ~Exists'
    PROVE  IInv'
  <1>1. NothingBeforeCreation'
    BY DEF IInv, NothingBeforeCreation
  <1>2. Closed' <=> Closed
    BY DEF Closed, CurrentType
  <1>3. ArchivedIsOver'
    BY <1>2, LogGrows DEF IInv, ArchivedIsOver
  <1>4. AssistanceSafety'
    BY <1>2, SameCases DEF IInv, AssistanceSafety
  <1> QED
    BY <1>1, <1>3, <1>4 DEF IInv

-----------------------------------------------------------------------------
(* The invariant, command by command.  Each lemma takes the types of the    *)
(* state it ends in as given: NextType provides them.                       *)

LEMMA RefuseKeeps ==
    ASSUME IInv, TypeOK', Refuse
    PROVE  IInv'
  <1>1. /\ UNCHANGED events
        /\ UNCHANGED <<visit, visits, cancelled, archived, cases>>
        /\ version' = version
    BY DEF Refuse, row, facts
  <1> QED
    BY <1>1, PositionKept DEF Exists

LEMMA CreateKeeps ==
    ASSUME IInv, TypeOK', NEW kind, NEW ok, CreateInstance(kind, ok)
    PROVE  IInv'
  <1>1. CASE Refuse
    BY <1>1, RefuseKeeps
  <1>2. CASE ~Refuse
    <2>1. cases = << >> /\ ~cancelled /\ ~archived
      BY DEF CreateInstance, IInv, NothingBeforeCreation
    <2>2. version' = 1 /\ UNCHANGED <<cancelled, archived, cases>>
      BY <1>2 DEF CreateInstance
    <2>3. OpenCases' = {}
      BY <2>1, <2>2 DEF OpenCases
    <2>4. NothingBeforeCreation' /\ ArchivedIsOver'
      BY <2>1, <2>2 DEF NothingBeforeCreation, ArchivedIsOver, Exists
    <2> QED
      BY <2>3, <2>4, NoOpenCase DEF IInv
  <1> QED
    BY <1>1, <1>2

LEMMA TransitionKeeps ==
    ASSUME IInv, TypeOK', NEW t \in Transitions, NEW kind, NEW x, NEW ok,
           ExecuteTransition(t, x, kind, ok)
    PROVE  IInv'
  <1>1. CASE Refuse
    BY <1>1, RefuseKeeps
  <1>2. CASE ~Refuse
    <2> DEFINE a == ActivationFor(Target[t], kind)
    <2>1. ~Closed /\ OpenOn(visit) = {} /\ Applicable(t, visits[visit].node)
      BY <1>2 DEF ExecuteTransition, TransitionRefused
    <2>2. OpenCases = {} /\ ~archived /\ ~cancelled
      BY <2>1, OnlyOnCurrent DEF IInv, ArchivedIsOver, Closed
    <2>3. /\ CommitTransition(t, a) \/ CommitLimitReturn(t, a)
          /\ UNCHANGED <<cancelled, archived>>
          /\ Exists
      BY <1>2 DEF ExecuteTransition
    <2> HIDE DEF a
    <2>4. version' = version + 1 \/ version' = version + 2
      BY <2>3 DEF CommitTransition, CommitLimitReturn
    <2>5. NothingBeforeCreation' /\ ArchivedIsOver'
      BY <2>2, <2>3, <2>4
      DEF IInv, TypeOK, NothingBeforeCreation, ArchivedIsOver, Exists
    <2>6. CASE CommitTransition(t, a)
      <3>1. OpenCases' = {}
        BY <2>2, <2>6, SameCases DEF CommitTransition
      <3> QED
        BY <2>5, <3>1, NoOpenCase DEF IInv
    <2>7. CASE CommitLimitReturn(t, a)
      <3>1. Effect[t] = "RETURN" /\ NodeType[Target[t]] # "TERMINAL"
        <4>1. Effect[t] = "RETURN"
          BY <2>7 DEF CommitLimitReturn, ReachesLimit
        <4>2. TargetAllowed(t)
          BY <2>1 DEF Applicable
        <4> QED
          BY <4>1, <4>2 DEF TargetAllowed
      <3>2. /\ visit' = NextVisit
            /\ visits' = Append(visits, [node |-> Target[t], by |-> t])
            /\ cases' = Append(cases, [visit |-> visit',
                                       status |-> "OWNER_PENDING"])
        BY <2>7 DEF CommitLimitReturn, MoveAlong
      <3>3. visits'[visit'].node = Target[t]
        BY <3>2 DEF IInv, TypeOK, NextVisit
      <3>4. ~Closed' /\ ~archived'
        BY <2>2, <2>3, <3>1, <3>3 DEF Closed, CurrentType
      <3>5. AssistanceSafety'
        BY <2>2, <3>2, <3>4, OneCaseOpened DEF IInv
      <3> QED
        BY <2>5, <3>5 DEF IInv
    <2> QED
      BY <2>3, <2>6, <2>7
  <1> QED
    BY <1>1, <1>2

LEMMA ReviseKeeps ==
    ASSUME IInv, TypeOK', NEW x, NEW ok, ReviseContext(x, ok)
    PROVE  IInv'
  <1>1. CASE Refuse
    BY <1>1, RefuseKeeps
  <1>2. CASE ~Refuse
    <2>1. /\ \E e : events' = Append(events, e)
          /\ UNCHANGED <<visit, visits, cancelled, archived, cases>>
          /\ Exists /\ version' = version + 1
      BY <1>2 DEF ReviseContext, Logged
    <2>2. Exists'
      BY <2>1 DEF Exists, IInv, TypeOK
    <2> QED
      BY <2>1, <2>2, PositionKept
  <1> QED
    BY <1>1, <1>2

LEMMA RepairKeeps ==
    ASSUME IInv, TypeOK', RepairContext
    PROVE  IInv'
  <1>1. /\ \E e : events' = Append(events, e)
        /\ UNCHANGED <<visit, visits, cancelled, archived, cases>>
        /\ Exists /\ version' = version + 1
    BY DEF RepairContext, Logged
  <1>2. Exists'
    BY <1>1 DEF Exists, IInv, TypeOK
  <1> QED
    BY <1>1, <1>2, PositionKept

LEMMA CombinedKeeps ==
    ASSUME IInv, TypeOK', NEW t \in Transitions, NEW x, NEW ok,
           ReviseContextAndTransition(t, x, ok)
    PROVE  IInv'
  <1>1. CASE Refuse
    BY <1>1, RefuseKeeps
  <1>2. CASE ~Refuse
    <2>1. ~cancelled /\ CurrentType = "DRAFT" /\ OpenOn(visit) = {}
      BY <1>2 DEF ReviseContextAndTransition, CombinedRefused
    <2>2. OpenCases = {} /\ ~archived
      BY <2>1, OnlyOnCurrent DEF IInv, ArchivedIsOver, Closed
    <2>3. /\ UNCHANGED <<cancelled, archived, cases>>
          /\ Exists /\ version' = version + 1
      BY <1>2 DEF ReviseContextAndTransition
    <2>4. NothingBeforeCreation' /\ ArchivedIsOver'
      BY <2>2, <2>3
      DEF IInv, TypeOK, NothingBeforeCreation, ArchivedIsOver, Exists
    <2>5. OpenCases' = {}
      BY <2>2, <2>3, SameCases
    <2> QED
      BY <2>4, <2>5, NoOpenCase DEF IInv
  <1> QED
    BY <1>1, <1>2

LEMMA CancelKeeps ==
    ASSUME IInv, TypeOK', NEW x, NEW ok, CancelInstance(x, ok)
    PROVE  IInv'
  <1>1. CASE Refuse
    BY <1>1, RefuseKeeps
  <1>2. CASE ~Refuse
    <2>1. /\ ~archived /\ UNCHANGED archived /\ cases' = VoidOpenCases
          /\ version' = version + 1
      BY <1>2 DEF CancelInstance
    <2>2. NothingBeforeCreation' /\ ArchivedIsOver'
      BY <2>1 DEF IInv, TypeOK, NothingBeforeCreation, ArchivedIsOver, Exists
    <2> QED
      BY <2>1, <2>2, VoidedAll, NoOpenCase DEF IInv
  <1> QED
    BY <1>1, <1>2

LEMMA ArchiveKeeps ==
    ASSUME IInv, TypeOK', NEW x, NEW ok, ArchiveInstance(x, ok)
    PROVE  IInv'
  <1>1. CASE Refuse
    BY <1>1, RefuseKeeps
  <1>2. CASE ~Refuse
    <2>1. /\ Closed /\ UNCHANGED <<visit, visits, cancelled>>
          /\ cases' = VoidOpenCases /\ version' = version + 1
          /\ events' = Append(events,
                EventRow("WORKFLOW_INSTANCE_ARCHIVED", version + 1, visit, 0,
                         context, NoTransition, 0, Len(receipts) + 1))
      BY <1>2 DEF ArchiveInstance, Logged
    <2>2. Closed'
      BY <2>1 DEF Closed, CurrentType
    <2>3. Happened("WORKFLOW_INSTANCE_ARCHIVED")'
      <3>1. /\ Len(events) + 1 \in DOMAIN events'
            /\ events'[Len(events) + 1].type = "WORKFLOW_INSTANCE_ARCHIVED"
        BY <2>1 DEF IInv, TypeOK, EventRow
      <3> QED
        BY <3>1 DEF Happened
    <2>4. NothingBeforeCreation' /\ ArchivedIsOver'
      BY <2>1, <2>2, <2>3
      DEF IInv, TypeOK, NothingBeforeCreation, ArchivedIsOver, Exists
    <2> QED
      BY <2>1, <2>4, VoidedAll, NoOpenCase DEF IInv
  <1> QED
    BY <1>1, <1>2

(* A request, or the policy, opens a case where there is none. *)
LEMMA OpeningKeeps ==
    ASSUME IInv, TypeOK', ~Closed, ~archived, Exists, OpenOn(visit) = {},
           cases' = OpenedOn(visit), version' = version + 1,
           UNCHANGED <<visit, visits, cancelled, archived>>
    PROVE  IInv'
  <1>1. OpenCases = {}
    BY OnlyOnCurrent DEF IInv
  <1>2. ~Closed' /\ ~archived'
    BY DEF Closed, CurrentType
  <1>3. AssistanceSafety'
    BY <1>1, <1>2, OneCaseOpened DEF IInv, OpenedOn
  <1>4. NothingBeforeCreation' /\ ArchivedIsOver'
    BY <1>2 DEF IInv, TypeOK, NothingBeforeCreation, ArchivedIsOver, Exists
  <1> QED
    BY <1>3, <1>4 DEF IInv

LEMMA RequestKeeps ==
    ASSUME IInv, TypeOK', NEW v, NEW x, NEW ok, RequestAssistance(v, x, ok)
    PROVE  IInv'
  <1>1. CASE Refuse
    BY <1>1, RefuseKeeps
  <1>2. CASE ~Refuse
    <2>1. ~Closed /\ ~archived /\ Exists /\ OpenOn(visit) = {}
      BY <1>2 DEF RequestAssistance, RequestRefused
    <2>2. /\ cases' = OpenedOn(visit) /\ version' = version + 1
          /\ UNCHANGED <<visit, visits, cancelled, archived>>
      BY <1>2 DEF RequestAssistance
    <2> QED
      BY <2>1, <2>2, OpeningKeeps
  <1> QED
    BY <1>1, <1>2

LEMMA OwnerActionKeeps ==
    ASSUME IInv, TypeOK', NEW c \in DOMAIN cases, NEW x, NEW ok,
           NEW from, from \subseteq OpenStatus, NEW to, NEW command, NEW type,
           NEW forum, OwnerAction(c, x, ok, from, to, command, type, forum)
    PROVE  IInv'
  <1>1. CASE Refuse
    BY <1>1, RefuseKeeps
  <1>2. CASE ~Refuse
    <2>1. cases[c].status \in from /\ cases[c].visit = visit
      BY <1>2 DEF OwnerAction, OwnerActionRefused
    <2>2. c \in OpenCases
      BY <2>1 DEF OpenCases
    <2>3. /\ cases' = [cases EXCEPT ![c].status = to]
          /\ UNCHANGED <<visit, visits, cancelled, archived>>
          /\ version' = version + 1
      BY <1>2 DEF OwnerAction
    <2>4. /\ DOMAIN cases' = DOMAIN cases
          /\ \A d \in DOMAIN cases : /\ cases'[d].visit = cases[d].visit
                                     /\ d # c => cases'[d] = cases[d]
      <3>1. \A d \in DOMAIN cases : cases[d] \in Case
        BY DEF IInv, TypeOK
      <3> QED
        BY <2>3, <3>1 DEF Case
    <2>5. OpenCases' \subseteq OpenCases
      BY <2>2, <2>4 DEF OpenCases
    <2>6. ~Closed' /\ ~archived'
      BY <2>2, <2>3 DEF IInv, AssistanceSafety, Closed, CurrentType
    <2>7. AssistanceSafety'
      BY <2>3, <2>4, <2>5, <2>6 DEF IInv, AssistanceSafety, OpenCases
    <2>8. NothingBeforeCreation'
      <3>1. version \in Nat /\ version' = version + 1
        BY <2>3 DEF IInv, TypeOK
      <3> QED
        BY <3>1 DEF NothingBeforeCreation, Exists
    <2>9. ArchivedIsOver'
      BY <2>6 DEF ArchivedIsOver
    <2> QED
      BY <2>7, <2>8, <2>9 DEF IInv
  <1> QED
    BY <1>1, <1>2

LEMMA EscalateResolveKeeps ==
    ASSUME IInv, TypeOK', NEW c \in DOMAIN cases, NEW x, NEW ok,
           EscalateAssistance(c, x, ok) \/ ResolveAssistance(c, x, ok)
    PROVE  IInv'
  <1>1. {"OWNER_PENDING"} \subseteq OpenStatus
    BY DEF OpenStatus
  <1> QED
    BY <1>1, OwnerActionKeeps DEF EscalateAssistance, ResolveAssistance

LEMMA SystemEscalationKeeps ==
    ASSUME IInv, TypeOK', NEW v, NEW ok, SystemExecutionEscalation(v, ok)
    PROVE  IInv'
  <1>1. CASE Refuse
    BY <1>1, RefuseKeeps
  <1>2. CASE ~Refuse
    <2>1. /\ ~Closed /\ ~archived /\ Exists
          /\ UNCHANGED <<visit, visits, cancelled, archived>>
          /\ OpenByPolicy \/ FindAlreadyOpen
      BY <1>2 DEF SystemExecutionEscalation
    <2>2. CASE OpenByPolicy
      BY <2>1, <2>2, OpeningKeeps DEF OpenByPolicy
    <2>3. CASE FindAlreadyOpen
      <3>1. UNCHANGED <<version, cases, events>>
        BY <2>3 DEF FindAlreadyOpen
      <3> QED
        BY <2>1, <3>1, PositionKept DEF Exists
    <2> QED
      BY <2>1, <2>2, <2>3
  <1> QED
    BY <1>1, <1>2

LEMMA WakeKeeps ==
    ASSUME IInv, TypeOK', NEW v \in DOMAIN visits, NEW x, WakeDispatchIntent(v, x)
    PROVE  IInv'
  <1>1. UNCHANGED <<visit, visits, cancelled, archived, cases>>
    BY DEF WakeDispatchIntent
  <1>2. CASE WakeHasNothingToDo(v, x)
    <2>1. UNCHANGED <<version, events>>
      BY <1>2 DEF WakeDispatchIntent
    <2> QED
      BY <1>1, <2>1, PositionKept DEF Exists
  <1>3. CASE ~WakeHasNothingToDo(v, x)
    <2>1. version' = version + 1 /\ \E e : events' = Append(events, e)
      BY <1>3 DEF WakeDispatchIntent, Logged
    <2>2. OpenCases' = OpenCases /\ (Closed' <=> Closed)
      BY <1>1, SameCases DEF Closed, CurrentType
    <2>3. AssistanceSafety'
      BY <1>1, <2>2 DEF IInv, AssistanceSafety
    <2>4. ArchivedIsOver'
      BY <1>1, <2>1, <2>2, LogGrows DEF IInv, ArchivedIsOver
    <2>5. NothingBeforeCreation'
      BY <2>1 DEF IInv, TypeOK, NothingBeforeCreation, Exists
    <2> QED
      BY <2>3, <2>4, <2>5 DEF IInv
  <1> QED
    BY <1>2, <1>3

LEMMA EnvironmentKeeps ==
    ASSUME IInv, TypeOK', Environment \/ UNCHANGED vars
    PROVE  IInv'
  <1>1. /\ UNCHANGED events
        /\ UNCHANGED <<visit, visits, cancelled, archived, cases>>
        /\ version' = version
    <2>1. CASE UNCHANGED vars
      BY <2>1 DEF vars, row, facts
    <2>2. CASE DeprecateDefinition \/ RevokeDefinition \/ ChangeDomainOwner
      BY <2>2 DEF DeprecateDefinition, RevokeDefinition, ChangeDomainOwner, row,
                  facts
    <2>3. ASSUME NEW v \in DOMAIN visits, DeferEligibility(v)
          PROVE  /\ UNCHANGED events
                 /\ UNCHANGED <<visit, visits, cancelled, archived, cases>>
                 /\ version' = version
      BY <2>3 DEF DeferEligibility, row
    <2> QED
      BY <2>1, <2>2, <2>3 DEF Environment
  <1> QED
    BY <1>1, PositionKept DEF Exists

LEMMA OverrideKeeps ==
    ASSUME IInv, TypeOK', NEW n, NEW x, NEW ok, AdminEmergencyOverride(n, x, ok)
    PROVE  IInv'
  <1>1. CASE Refuse
    BY <1>1, RefuseKeeps
  <1>2. CASE ~Refuse
    <2>1. LogReconstructs
      BY <1>2 DEF AdminEmergencyOverride, OverrideRefused
    <2>2. ~archived
      BY <2>1, ReplayExcludesArchived DEF IInv
    <2>3. /\ cases' = VoidOpenCases /\ UNCHANGED archived
          /\ version' = version + 1
      BY <1>2 DEF AdminEmergencyOverride
    <2>4. NothingBeforeCreation' /\ ArchivedIsOver'
      BY <2>2, <2>3
      DEF IInv, TypeOK, NothingBeforeCreation, ArchivedIsOver, Exists
    <2> QED
      BY <2>3, <2>4, VoidedAll, NoOpenCase DEF IInv
  <1> QED
    BY <1>1, <1>2

(* A rebuild that moves the row to another visit voids the open cases; one  *)
(* that does not leaves them on the visit they are on.                      *)
LEMMA RebuildKeeps ==
    ASSUME IInv, TypeOK', NEW ok, RebuildProjection(ok)
    PROVE  IInv'
  <1>1. CASE Refuse
    BY <1>1, RefuseKeeps
  <1>2. CASE ~Refuse
    <2>1. LogReconstructs
      BY <1>2 DEF RebuildProjection, RebuildRefused
    <2>2. ~archived /\ Replayed[1] > 0
      BY <2>1, ReplayExcludesArchived, ReplayedType DEF IInv
    <2>3. /\ version' = Replayed[1] /\ visit' = Replayed[2]
          /\ cases' = IF Replayed[2] # visit THEN VoidOpenCases ELSE cases
          /\ UNCHANGED <<cancelled, archived, visits>>
      BY <1>2 DEF RebuildProjection
    <2>4. NothingBeforeCreation' /\ ArchivedIsOver'
      BY <2>2, <2>3 DEF NothingBeforeCreation, ArchivedIsOver, Exists
    <2>5. CASE visit' = visit
      <3>1. OpenCases' = OpenCases /\ UNCHANGED cases /\ (Closed' <=> Closed)
        BY <2>3, <2>5, SameCases DEF Closed, CurrentType
      <3>2. AssistanceSafety'
        BY <2>3, <2>5, <3>1 DEF IInv, AssistanceSafety
      <3> QED
        BY <2>4, <3>2 DEF IInv
    <2>6. CASE visit' # visit
      <3>1. AssistanceSafety'
        BY <2>3, <2>6, VoidedAll, NoOpenCase DEF IInv
      <3> QED
        BY <2>4, <3>1 DEF IInv
    <2> QED
      BY <2>5, <2>6
  <1> QED
    BY <1>1, <1>2

LEMMA InitIInv == Init => IInv
  <1> SUFFICES ASSUME Init PROVE IInv
    OBVIOUS
  <1>1. AssistanceSafety
    BY DEF Init, AssistanceSafety, OpenCases
  <1> QED
    BY <1>1, InitType DEF Init, IInv, NothingBeforeCreation, ArchivedIsOver

LEMMA NextIInv == IInv /\ [Next]_vars => IInv'
  <1> SUFFICES ASSUME IInv, [Next]_vars PROVE IInv'
    OBVIOUS
  <1>1. TypeOK'
    BY NextType DEF IInv
  <1>2. CASE Commands
    BY <1>1, <1>2, CreateKeeps, TransitionKeeps, ReviseKeeps, RepairKeeps,
       CombinedKeeps, CancelKeeps, ArchiveKeeps, RequestKeeps,
       EscalateResolveKeeps,
       SystemEscalationKeeps, WakeKeeps, OverrideKeeps, RebuildKeeps
    DEF Commands
  <1>3. CASE Environment \/ UNCHANGED vars
    BY <1>1, <1>3, EnvironmentKeeps
  <1> QED
    BY <1>2, <1>3 DEF Next

(* For every definition graph, budget and interleaving of commands with     *)
(* archival, overrides and rebuilds, an open assistance case is the only    *)
(* one, is on the current visit, and its instance can still be worked on.   *)
THEOREM AssistanceSafe == Spec => []AssistanceSafety
  BY InitIInv, NextIInv, PTL DEF Spec, IInv

-----------------------------------------------------------------------------
(* The log.  What the row says of its log is stated about a log and the     *)
(* numbers a row keeps of it, so that a command that logs two events is two *)
(* events logged one after the other.                                       *)

Has(log, type) == \E i \in DOMAIN log : log[i].type = type

Enters(e, v) == e.type \in MovingTypes /\ e.target = v

(* A log of an instance at version ver, with n visits, at visit n. *)
Traced(log, ver, n) ==
    /\ ver = Len(log)
    /\ \A i \in DOMAIN log :
          /\ log[i].version = i
          /\ log[i].target \in 0..n
          /\ log[i].type = "INSTANCE_CREATED" <=> i = 1
    /\ \A v \in 1..n :
          \E i \in DOMAIN log :
             /\ Enters(log[i], v) /\ log[i].source = v - 1
             /\ \A j \in DOMAIN log \ {i} : ~Enters(log[j], v)

(* The first visit is the entry node's, and an event recovery can read      *)
(* points at the visit and the context it left the instance with.           *)
Anchored ==
    /\ Exists <=> visits # << >>
    /\ Exists => visits[1].node = EntryNode
    /\ ~Exists => revisions = 0
    /\ Exists /\ events[version].type \notin NotReplayable =>
          events[version].target = visit /\ events[version].context = context

LogInv ==
    /\ IInv
    /\ Traced(events, version, Len(visits)) /\ visit = Len(visits)
    /\ context = revisions
    /\ cancelled <=> Has(events, "WORKFLOW_INSTANCE_CANCELLED")
    /\ archived <=> Has(events, "WORKFLOW_INSTANCE_ARCHIVED")
    /\ Anchored

LEMMA LogInvMatches == LogInv => RowMatchesLog
  <1> SUFFICES ASSUME LogInv PROVE RowMatchesLog
    OBVIOUS
  <1>1. VersionCountsEvents
    BY DEF LogInv, Traced, VersionCountsEvents
  <1>2. VisitsFollowEvents
    <2>1. DOMAIN visits = 1..Len(visits)
      BY DEF LogInv, IInv, TypeOK
    <2> QED
      BY <2>1 DEF LogInv, Traced, Enters, VisitsFollowEvents
  <1> QED
    BY <1>1, <1>2 DEF LogInv, Has, Happened, RowMatchesLog

(* A log that has one more event. *)
LEMMA Appended ==
    ASSUME NEW log \in Seq(Event), NEW e \in Event
    PROVE  /\ Append(log, e) \in Seq(Event)
           /\ Len(Append(log, e)) = Len(log) + 1 /\ Len(log) \in Nat
           /\ DOMAIN log = 1..Len(log)
           /\ DOMAIN Append(log, e) = 1..(Len(log) + 1)
           /\ \A i \in 1..Len(log) : Append(log, e)[i] = log[i]
           /\ Append(log, e)[Len(log) + 1] = e
           /\ \A type : Has(Append(log, e), type) <=>
                           Has(log, type) \/ e.type = type
  <1>1. /\ Append(log, e) \in Seq(Event)
        /\ Len(Append(log, e)) = Len(log) + 1 /\ Len(log) \in Nat
        /\ DOMAIN log = 1..Len(log)
        /\ DOMAIN Append(log, e) = 1..(Len(log) + 1)
        /\ \A i \in 1..Len(log) : Append(log, e)[i] = log[i]
        /\ Append(log, e)[Len(log) + 1] = e
    OBVIOUS
  <1>2. ASSUME NEW type
        PROVE  Has(Append(log, e), type) <=> Has(log, type) \/ e.type = type
    <2>1. CASE Has(log, type) \/ e.type = type
      BY <1>1, <2>1 DEF Has
    <2>2. ASSUME Has(Append(log, e), type), ~Has(log, type)
          PROVE  e.type = type
      <3>1. PICK i \in 1..(Len(log) + 1) : Append(log, e)[i].type = type
        BY <1>1, <2>2 DEF Has
      <3>2. i = Len(log) + 1
        BY <1>1, <2>2, <3>1 DEF Has
      <3> QED
        BY <1>1, <3>1, <3>2
    <2> QED
      BY <2>1, <2>2
  <1> QED
    BY <1>1, <1>2

(* An event either moves to the next visit or leaves the visit alone. *)
LEMMA TraceGrows ==
    ASSUME NEW log \in Seq(Event), NEW n \in Nat, NEW m \in {n, n + 1},
           NEW ver \in Nat, Traced(log, ver, n),
           NEW e \in Event, e.version = ver + 1,
           e.type = "INSTANCE_CREATED" <=> ver = 0,
           e.target \in 0..m,
           IF m = n THEN e.type \notin MovingTypes
           ELSE e.type \in MovingTypes /\ e.source = n /\ e.target = m
    PROVE  Traced(Append(log, e), ver + 1, m)
  <1> DEFINE more == Append(log, e)
  <1>1. /\ DOMAIN more = 1..(ver + 1) /\ Len(more) = ver + 1
        /\ \A i \in 1..ver : more[i] = log[i]
        /\ more[ver + 1] = e
        /\ DOMAIN log = 1..ver
    BY Appended DEF Traced
  <1> HIDE DEF more
  <1>2. ASSUME NEW i \in DOMAIN more
        PROVE  /\ more[i].version = i
               /\ more[i].target \in 0..m
               /\ more[i].type = "INSTANCE_CREATED" <=> i = 1
    <2>1. CASE i = ver + 1
      BY <1>1, <2>1
    <2>2. CASE i \in 1..ver
      <3>1. /\ more[i] = log[i] /\ log[i].version = i
            /\ log[i].target \in 0..n
            /\ log[i].type = "INSTANCE_CREATED" <=> i = 1
        BY <1>1, <2>2 DEF Traced
      <3> QED
        BY <3>1
    <2> QED
      BY <1>1, <2>1, <2>2
  <1>3. ASSUME NEW v \in 1..m
        PROVE  \E i \in DOMAIN more :
                  /\ Enters(more[i], v) /\ more[i].source = v - 1
                  /\ \A j \in DOMAIN more \ {i} : ~Enters(more[j], v)
    <2>1. CASE v = n + 1
      <3>1. Enters(e, v) /\ e.source = v - 1
        BY <2>1 DEF Enters
      <3>2. \A j \in 1..ver : ~Enters(log[j], v)
        <4>1. \A j \in 1..ver : log[j].target \in 0..n
          BY <1>1 DEF Traced
        <4>2. \A j \in 1..ver : log[j].target # v
          BY <2>1, <4>1
        <4> QED
          BY <4>2 DEF Enters
      <3> QED
        BY <1>1, <3>1, <3>2
    <2>2. CASE v \in 1..n
      <3>1. PICK i \in DOMAIN log :
               /\ Enters(log[i], v) /\ log[i].source = v - 1
               /\ \A j \in DOMAIN log \ {i} : ~Enters(log[j], v)
        BY <2>2 DEF Traced
      <3>2. ~Enters(e, v)
        BY <2>2 DEF Enters
      <3> QED
        BY <1>1, <3>1, <3>2
    <2> QED
      BY <2>1, <2>2
  <1>4. Traced(more, ver + 1, m)
    BY <1>1, <1>2, <1>3 DEF Traced
  <1> QED
    BY <1>4 DEF more

-----------------------------------------------------------------------------
(* What a step does to the row and its log: nothing, one event, or the two  *)
(* of the RETURN that is escalated.                                         *)

Still == UNCHANGED <<version, visit, context, cancelled, archived, visits,
                     revisions, events>>

(* The visits an event takes the instance to, and through. *)
EntersVisit(e) ==
    /\ e.type \in MovingTypes /\ e.source = visit /\ e.target = NextVisit
    /\ visit' = NextVisit
    /\ Len(visits') = NextVisit
    /\ visits'[1].node = IF Exists THEN visits[1].node ELSE EntryNode

StaysOn(e) ==
    /\ e.type \notin MovingTypes /\ e.target \in 0..Len(visits)
    /\ UNCHANGED <<visit, visits>>

OneEvent(e) ==
    /\ e \in Event /\ e.version = version + 1
    /\ e.type = "INSTANCE_CREATED" <=> ~Exists
    /\ events' = Append(events, e) /\ version' = version + 1
    /\ EntersVisit(e) \/ StaysOn(e)
    /\ context' = revisions'
    /\ cancelled' <=> cancelled \/ e.type = "WORKFLOW_INSTANCE_CANCELLED"
    /\ archived' <=> archived \/ e.type = "WORKFLOW_INSTANCE_ARCHIVED"
    /\ e.type \notin NotReplayable => e.target = visit' /\ e.context = context'

TwoEvents(e, f) ==
    /\ e \in Event /\ e.version = version + 1
    /\ e.type = "WORKFLOW_TRANSITION_COMMITTED" /\ Exists
    /\ f \in Event /\ f.version = version + 2
    /\ f.type = "ASSISTANCE_REQUESTED"
    /\ events' = Append(Append(events, e), f) /\ version' = version + 2
    /\ EntersVisit(e)
    /\ f.target = visit' /\ f.context = context
    /\ UNCHANGED <<context, revisions, cancelled, archived>>

LEMMA StillKeeps ==
    ASSUME LogInv, IInv', Still
    PROVE  LogInv'
  BY DEF LogInv, Still, Traced, Anchored, Exists, Enters, Has

LEMMA OneEventKeeps ==
    ASSUME LogInv, IInv', NEW e, OneEvent(e)
    PROVE  LogInv'
  <1> DEFINE n == Len(visits)
             m == Len(visits')
  <1>1. /\ version \in Nat /\ n \in Nat /\ events \in Seq(Event) /\ e \in Event
        /\ Len(events) = version
    BY DEF LogInv, IInv, TypeOK, OneEvent, Traced
  <1>2. m \in {n, n + 1} /\ visit' = m
    BY <1>1 DEF OneEvent, EntersVisit, StaysOn, NextVisit, LogInv
  <1>3. IF m = n THEN e.type \notin MovingTypes
        ELSE e.type \in MovingTypes /\ e.source = n /\ e.target = m
    BY <1>1 DEF OneEvent, EntersVisit, StaysOn, NextVisit, LogInv
  <1>4. e.target \in 0..m
    BY <1>1 DEF OneEvent, EntersVisit, StaysOn, NextVisit, LogInv
  <1>5. e.version = version + 1 /\ (e.type = "INSTANCE_CREATED" <=> version = 0)
    BY <1>1 DEF OneEvent, Exists
  <1>6. Traced(Append(events, e), version + 1, m)
    <2> HIDE DEF m, n
    <2>1. Traced(events, version, n)
      BY DEF LogInv, n
    <2> QED
      BY <1>1, <1>2, <1>3, <1>4, <1>5, <2>1, TraceGrows
  <1>7. Traced(events', version', m)
    BY <1>6 DEF OneEvent
  <1>8. /\ cancelled' <=> Has(events', "WORKFLOW_INSTANCE_CANCELLED")
        /\ archived' <=> Has(events', "WORKFLOW_INSTANCE_ARCHIVED")
    BY <1>1, Appended DEF OneEvent, LogInv
  <1>9. Anchored'
    <2>1. version' = version + 1 /\ events'[version'] = e
      BY <1>1, Appended DEF OneEvent
    <2>2. Exists' /\ visits' # << >> /\ visits'[1].node = EntryNode
      BY <1>1, <2>1
      DEF OneEvent, EntersVisit, StaysOn, NextVisit, LogInv, Anchored, Exists,
          MovingTypes
    <2> QED
      BY <2>1, <2>2 DEF Anchored, OneEvent
  <1> QED
    BY <1>2, <1>7, <1>8, <1>9 DEF LogInv, OneEvent

LEMMA TwoEventsKeep ==
    ASSUME LogInv, IInv', NEW e, NEW f, TwoEvents(e, f)
    PROVE  LogInv'
  <1> DEFINE n == Len(visits)
             log == Append(events, e)
  <1>1. /\ version \in Nat /\ n \in Nat /\ events \in Seq(Event)
        /\ e \in Event /\ f \in Event
        /\ Len(events) = version
    BY DEF LogInv, IInv, TypeOK, TwoEvents, Traced
  <1>2. /\ Len(visits') = n + 1 /\ visit' = n + 1
        /\ e.source = n /\ e.target = n + 1
        /\ e.version = version + 1 /\ f.version = (version + 1) + 1
        /\ f.target = n + 1 /\ version > 0
        /\ e.type = "WORKFLOW_TRANSITION_COMMITTED"
        /\ f.type = "ASSISTANCE_REQUESTED"
    BY <1>1 DEF TwoEvents, EntersVisit, NextVisit, LogInv, Exists
  <1>3. log \in Seq(Event) /\ Len(log) = version + 1
    BY <1>1, Appended
  <1>4. Traced(log, version + 1, n + 1)
    <2> HIDE DEF n
    <2>1. Traced(events, version, n)
      BY DEF LogInv, n
    <2> QED
      BY <1>1, <1>2, <2>1, TraceGrows DEF MovingTypes
  <1> HIDE DEF n, log
  <1>5. Traced(Append(log, f), (version + 1) + 1, n + 1)
    BY <1>1, <1>2, <1>3, <1>4, TraceGrows DEF MovingTypes
  <1>6. events' = Append(log, f) /\ version' = (version + 1) + 1
    BY <1>1 DEF TwoEvents, log
  <1>7. Traced(events', version', n + 1)
    BY <1>5, <1>6
  <1>8. \A type \in NotReplayable : Has(events', type) <=> Has(events, type)
    BY <1>1, <1>2, <1>3, <1>6, Appended DEF log, NotReplayable
  <1>9. /\ cancelled' <=> Has(events', "WORKFLOW_INSTANCE_CANCELLED")
        /\ archived' <=> Has(events', "WORKFLOW_INSTANCE_ARCHIVED")
    BY <1>8 DEF TwoEvents, LogInv, NotReplayable
  <1>10. Anchored'
    <2>1. version' = version + 2 /\ events'[version'] = f
      BY <1>1, <1>3, <1>6, Appended
    <2>2. Exists' /\ visits' # << >> /\ visits'[1].node = EntryNode
      BY <1>1, <1>2, <2>1
      DEF TwoEvents, EntersVisit, NextVisit, LogInv, Anchored, Exists
    <2> QED
      BY <2>1, <2>2 DEF Anchored, TwoEvents
  <1> QED
    BY <1>2, <1>7, <1>9, <1>10 DEF LogInv, TwoEvents

-----------------------------------------------------------------------------
(* Recovery changes nothing that the commands wrote: a log it reconstructs  *)
(* has no event it cannot read, so the last one points at where the row is. *)

LEMMA StateIs ==
    ASSUME NEW log, NEW m
    PROVE  /\ StateAfter(log, m).version = IF m = 0 THEN 0 ELSE log[m].version
           /\ StateAfter(log, m).visit = IF m = 0 THEN 0 ELSE log[m].target
           /\ StateAfter(log, m).context = IF m = 0 THEN 0 ELSE log[m].context
           /\ StateAfter(log, m).introduced = {log[i].target : i \in 1..m}
  BY Zenon DEF StateAfter

LEMMA ReplayReads ==
    ASSUME LogInv, LogReconstructs
    PROVE  /\ Exists /\ ~cancelled /\ ~archived /\ Legacy
           /\ \A i \in DOMAIN events : events[i].type \notin NotReplayable
           /\ Replayed = Projection
  <1> DEFINE S(m) == StateAfter(events, m)
  <1>1. /\ events \in Seq(Event) /\ version \in Nat /\ Len(events) = version
        /\ DOMAIN events = 1..version /\ visits \in Seq(Visit)
    BY DEF LogInv, IInv, TypeOK, Traced
  <1>2. /\ version > 0
        /\ \A i \in 1..version : Accepts(S(i - 1), events[i], visits)
    BY <1>1 DEF LogReconstructs, Reconstructs
  <1>3. ASSUME NEW i \in DOMAIN events PROVE events[i].type \notin NotReplayable
    BY <1>1, <1>2 DEF Accepts, NotReplayable
  <1>4. Exists /\ ~cancelled /\ ~archived
    BY <1>2, <1>3 DEF Exists, LogInv, Has, NotReplayable
  <1>5. Replayed = <<events[version].version, events[version].target,
                     events[version].context>>
    BY <1>1, <1>2, StateIs DEF Replayed
  <1>6. Replayed = Projection
    <2>1. events[version].version = version
      BY <1>1, <1>2 DEF LogInv, Traced
    <2>2. events[version].target = visit /\ events[version].context = context
      <3>1. version \in DOMAIN events
        BY <1>1, <1>2
      <3>2. events[version].type \notin NotReplayable
        BY <1>3, <3>1
      <3> QED
        BY <1>4, <3>2 DEF LogInv, Anchored
    <2> QED
      BY <1>5, <2>1, <2>2 DEF Projection
  <1>7. Legacy
    <2>1. events[1].type = "INSTANCE_CREATED"
      BY <1>1, <1>2 DEF LogInv, Traced
    <2>2. events[1].target \in DOMAIN visits /\ NodeType[visits[events[1].target].node] = "DRAFT"
      BY <1>1, <1>2, <2>1 DEF Accepts
    <2>3. visits[events[1].target].node \in Nodes
      <3>1. visits[events[1].target] \in Visit
        BY <1>1, <2>2
      <3> QED
        BY <3>1 DEF Visit
    <2> QED
      BY <2>2, <2>3, NodeTypesAssumption
  <1> QED
    BY <1>3, <1>4, <1>6, <1>7

(* The event a command logs. *)
EventIs(e, type, v, s, t, ctx, edge, case, r) ==
    /\ e \in Event
    /\ e.type = type /\ e.version = v /\ e.source = s /\ e.target = t
    /\ e.context = ctx /\ e.edge = edge /\ e.case = case /\ e.receipt = r

LEMMA RowIsEvent ==
    ASSUME NEW type \in EventTypes, NEW v \in Nat, NEW s \in Nat, NEW t \in Nat,
           NEW ctx \in Nat, NEW edge \in Transitions \cup {NoTransition},
           NEW case \in Nat, NEW r \in Nat
    PROVE  EventIs(EventRow(type, v, s, t, ctx, edge, case, r),
                   type, v, s, t, ctx, edge, case, r)
  BY DEF EventRow, Event, EventIs

LEMMA LoggedEvent ==
    ASSUME TypeOK, NEW type \in EventTypes, NEW s \in Nat, NEW t \in Nat,
           NEW ctx \in Nat, NEW edge \in Transitions \cup {NoTransition},
           NEW case \in Nat
    PROVE  \E e : /\ Logged(type, s, t, ctx, edge, case) = Append(events, e)
                  /\ EventIs(e, type, version + 1, s, t, ctx, edge, case,
                             Len(receipts) + 1)
  <1>1. version + 1 \in Nat /\ Len(receipts) + 1 \in Nat
    BY DEF TypeOK
  <1> QED
    BY <1>1, RowIsEvent DEF Logged

LEMMA RefuseStep == ASSUME Refuse PROVE Still
  BY DEF Refuse, Still, row, facts

LEMMA CreateStep ==
    ASSUME LogInv, TypeOK', NEW kind, NEW ok, CreateInstance(kind, ok)
    PROVE  Still \/ \E e : OneEvent(e)
  <1>1. CASE Refuse
    BY <1>1, RefuseStep
  <1>2. CASE ~Refuse
    <2>1. version = 0 /\ visit = 0 /\ Len(visits) = 0 /\ ~cancelled /\ ~archived
      BY DEF CreateInstance, LogInv, Anchored, IInv, TypeOK, NothingBeforeCreation,
             Exists
    <2>2. PICK e : /\ events' = Append(events, e)
                   /\ EventIs(e, "INSTANCE_CREATED", version + 1, 0, 1, 1,
                              NoTransition, 0, Len(receipts) + 1)
      BY <1>2, LoggedEvent DEF CreateInstance, EventTypes, LogInv, IInv
    <2>3. /\ e \in Event
          /\ e.type = "INSTANCE_CREATED" /\ e.version = 1 /\ e.source = 0
          /\ e.target = 1 /\ e.context = 1
      BY <2>1, <2>2 DEF EventIs
    <2>4. /\ version' = 1 /\ visit' = 1 /\ context' = 1 /\ revisions' = 1
          /\ visits' = <<[node |-> EntryNode, by |-> NoTransition]>>
          /\ UNCHANGED <<cancelled, archived>>
      BY <1>2 DEF CreateInstance
    <2>5. EntersVisit(e)
      BY <2>1, <2>3, <2>4 DEF EntersVisit, MovingTypes, NextVisit, Exists
    <2>6. OneEvent(e)
      BY <2>1, <2>2, <2>3, <2>4, <2>5 DEF OneEvent, Exists, NotReplayable
    <2> QED
      BY <2>6
  <1> QED
    BY <1>1, <1>2

(* Moving to the next visit leaves the first one as it was. *)
LEMMA EnteredNext ==
    ASSUME LogInv, Exists, NEW e, NEW n \in Nodes,
           NEW by \in Transitions \cup {NoTransition},
           e.type \in MovingTypes, e.source = visit, e.target = NextVisit,
           visit' = NextVisit,
           visits' = Append(visits, [node |-> n, by |-> by])
    PROVE  EntersVisit(e) /\ visits'[NextVisit].node = n
  <1>1. visits \in Seq(Visit) /\ Len(visits) > 0
    BY DEF LogInv, IInv, TypeOK, Anchored
  <1>2. [node |-> n, by |-> by] \in Visit
    BY DEF Visit
  <1> QED
    BY <1>1, <1>2 DEF EntersVisit, NextVisit

LEMMA Numbered ==
    ASSUME LogInv
    PROVE  /\ TypeOK
           /\ version \in Nat /\ visit \in Nat /\ context \in Nat
           /\ Len(receipts) \in Nat /\ Len(visits) \in Nat
           /\ Len(cases) \in Nat /\ Len(events) \in Nat
           /\ DOMAIN cases = 1..Len(cases) /\ DOMAIN visits = 1..Len(visits)
           /\ DOMAIN events = 1..Len(events)
  <1>1. TypeOK
    BY DEF LogInv, IInv
  <1>2. /\ receipts \in Seq(Receipt) /\ visits \in Seq(Visit)
        /\ cases \in Seq(Case) /\ events \in Seq(Event)
        /\ version \in Nat /\ visit \in Nat /\ context \in Nat
    BY <1>1 DEF TypeOK
  <1> QED
    BY <1>1, <1>2

LEMMA TransitionStep ==
    ASSUME LogInv, TypeOK', NEW t \in Transitions, NEW kind, NEW x, NEW ok,
           ExecuteTransition(t, x, kind, ok)
    PROVE  Still \/ (\E e : OneEvent(e)) \/ \E e, f : TwoEvents(e, f)
  <1>1. CASE Refuse
    BY <1>1, RefuseStep
  <1>2. CASE ~Refuse
    <2> DEFINE a == ActivationFor(Target[t], kind)
    <2>1. /\ Exists /\ ~cancelled /\ ~archived
          /\ CommitTransition(t, a) \/ CommitLimitReturn(t, a)
          /\ UNCHANGED <<context, cancelled, archived, revisions>>
      BY <1>2 DEF ExecuteTransition, TransitionRefused, Closed, LogInv, IInv,
                  ArchivedIsOver
    <2> HIDE DEF a
    <2>2. /\ Target[t] \in Nodes /\ NextVisit \in Nat /\ NextCase \in Nat
          /\ Len(receipts) + 1 \in Nat /\ Len(receipts) + 2 \in Nat
          /\ version \in Nat /\ version + 2 \in Nat /\ visit \in Nat
          /\ context \in Nat
      <3>1. /\ version \in Nat /\ visit \in Nat /\ context \in Nat
            /\ Len(receipts) \in Nat /\ Len(visits) \in Nat
            /\ Len(cases) \in Nat
        BY Numbered
      <3>2. Target[t] \in Nodes
        BY DefinitionAssumption
      <3> QED
        BY <3>1, <3>2 DEF NextVisit, NextCase
    <2>3. PICK e : /\ TransitionLogged(t) = Append(events, e)
                   /\ EventIs(e, "WORKFLOW_TRANSITION_COMMITTED", version + 1,
                              visit, NextVisit, context, t, 0, Len(receipts) + 1)
      BY <2>2, LoggedEvent DEF TransitionLogged, EventTypes, LogInv, IInv
    <2>5. /\ visit' = NextVisit
          /\ visits' = Append(visits, [node |-> Target[t], by |-> t])
      BY <2>1 DEF CommitTransition, CommitLimitReturn, MoveAlong
    <2>6. EntersVisit(e)
      BY <2>1, <2>2, <2>3, <2>5, EnteredNext DEF MovingTypes, EventIs
    <2>7. CASE CommitTransition(t, a)
      <3>1. OneEvent(e)
        BY <2>1, <2>3, <2>5, <2>6, <2>7
        DEF OneEvent, CommitTransition, LogInv, Exists, NotReplayable, EventIs
      <3> QED
        BY <3>1
    <2>8. CASE CommitLimitReturn(t, a)
      <3> DEFINE f == EventRow("ASSISTANCE_REQUESTED", version + 2, NextVisit,
                               NextVisit, context, NoTransition, NextCase,
                               Len(receipts) + 2)
      <3>1. EventIs(f, "ASSISTANCE_REQUESTED", version + 2, NextVisit,
                    NextVisit, context, NoTransition, NextCase, Len(receipts) + 2)
        BY <2>2, RowIsEvent DEF EventTypes
      <3>2. events' = Append(Append(events, e), f) /\ version' = version + 2
        BY <2>3, <2>8 DEF CommitLimitReturn
      <3> HIDE DEF f
      <3>3. TwoEvents(e, f)
        BY <2>1, <2>3, <2>5, <2>6, <3>1, <3>2 DEF TwoEvents, EventIs
      <3> QED
        BY <3>3
    <2> QED
      BY <2>1, <2>7, <2>8
  <1> QED
    BY <1>1, <1>2

(* A context revision: nothing but the context moves. *)
LEMMA RevisionStep ==
    ASSUME LogInv, TypeOK', Exists, version' = version + 1,
           context' = revisions + 1, revisions' = revisions + 1,
           events' = Logged("CONTEXT_REVISED", visit, visit, revisions + 1,
                            NoTransition, 0),
           UNCHANGED <<visit, cancelled, archived, visits>>
    PROVE  \E e : OneEvent(e)
  <1>1. visit \in Nat /\ visit = Len(visits) /\ revisions + 1 \in Nat
    BY DEF LogInv, IInv, TypeOK
  <1>2. PICK e : /\ events' = Append(events, e)
                 /\ EventIs(e, "CONTEXT_REVISED", version + 1, visit, visit,
                            revisions + 1, NoTransition, 0, Len(receipts) + 1)
    BY <1>1, LoggedEvent DEF EventTypes, LogInv, IInv
  <1>3. OneEvent(e)
    BY <1>1, <1>2 DEF OneEvent, StaysOn, EventIs, MovingTypes, NotReplayable
  <1> QED
    BY <1>3

LEMMA ReviseStep ==
    ASSUME LogInv, TypeOK', NEW x, NEW ok, ReviseContext(x, ok)
    PROVE  Still \/ \E e : OneEvent(e)
  <1>1. CASE Refuse
    BY <1>1, RefuseStep
  <1>2. CASE ~Refuse
    BY <1>2, RevisionStep DEF ReviseContext
  <1> QED
    BY <1>1, <1>2

LEMMA RepairStep ==
    ASSUME LogInv, TypeOK', RepairContext
    PROVE  \E e : OneEvent(e)
  BY RevisionStep DEF RepairContext

LEMMA CombinedStep ==
    ASSUME LogInv, TypeOK', NEW t \in Transitions, NEW x, NEW ok,
           ReviseContextAndTransition(t, x, ok)
    PROVE  Still \/ \E e : OneEvent(e)
  <1>1. CASE Refuse
    BY <1>1, RefuseStep
  <1>2. CASE ~Refuse
    <2>1. /\ Target[t] \in Nodes /\ NextVisit \in Nat /\ visit \in Nat
          /\ revisions + 1 \in Nat
      BY DefinitionAssumption DEF LogInv, IInv, TypeOK, NextVisit
    <2>2. /\ Exists /\ version' = version + 1
          /\ context' = revisions + 1 /\ revisions' = revisions + 1
          /\ events' = Logged("WORKFLOW_CONTEXT_REVISED_AND_TRANSITION_COMMITTED",
                              visit, NextVisit, revisions + 1, t, 0)
          /\ visit' = NextVisit
          /\ visits' = Append(visits, [node |-> Target[t], by |-> t])
          /\ UNCHANGED <<cancelled, archived>>
      BY <1>2 DEF ReviseContextAndTransition, MoveAlong
    <2>3. PICK e : /\ events' = Append(events, e)
                   /\ EventIs(e, "WORKFLOW_CONTEXT_REVISED_AND_TRANSITION_COMMITTED",
                              version + 1, visit, NextVisit, revisions + 1, t, 0,
                              Len(receipts) + 1)
      BY <2>1, <2>2, LoggedEvent DEF EventTypes, LogInv, IInv
    <2>4. EntersVisit(e)
      BY <2>1, <2>2, <2>3, EnteredNext DEF EventIs, MovingTypes
    <2>5. OneEvent(e)
      BY <2>2, <2>3, <2>4 DEF OneEvent, EventIs, NotReplayable
    <2> QED
      BY <2>5
  <1> QED
    BY <1>1, <1>2

LEMMA EndStep ==
    ASSUME LogInv, TypeOK', NEW x, NEW ok,
           CancelInstance(x, ok) \/ ArchiveInstance(x, ok)
    PROVE  Still \/ \E e : OneEvent(e)
  <1>1. CASE Refuse
    BY <1>1, RefuseStep
  <1>2. CASE ~Refuse
    <2>1. PICK type \in {"WORKFLOW_INSTANCE_CANCELLED", "WORKFLOW_INSTANCE_ARCHIVED"} :
             /\ Exists /\ version' = version + 1
             /\ events' = Logged(type, visit, 0, context, NoTransition, 0)
             /\ UNCHANGED <<visit, visits, context, revisions>>
             /\ cancelled' <=> cancelled \/ type = "WORKFLOW_INSTANCE_CANCELLED"
             /\ archived' <=> archived \/ type = "WORKFLOW_INSTANCE_ARCHIVED"
      BY <1>2 DEF CancelInstance, ArchiveInstance
    <2>2. visit \in Nat /\ context \in Nat
      BY DEF LogInv, IInv, TypeOK
    <2>3. PICK e : /\ events' = Append(events, e)
                   /\ EventIs(e, type, version + 1, visit, 0, context,
                              NoTransition, 0, Len(receipts) + 1)
      <3>1. type \in EventTypes
        BY DEF EventTypes
      <3> QED
        BY <2>1, <2>2, <3>1, LoggedEvent DEF LogInv, IInv
    <2>4. OneEvent(e)
      <3>1. StaysOn(e)
        BY <2>1, <2>2, <2>3 DEF StaysOn, EventIs, MovingTypes, LogInv
      <3>2. type \in NotReplayable /\ type # "INSTANCE_CREATED"
        BY DEF NotReplayable
      <3> QED
        BY <2>1, <2>3, <3>1, <3>2 DEF OneEvent, EventIs, LogInv
    <2> QED
      BY <2>4
  <1> QED
    BY <1>1, <1>2

(* Assistance is asked for, given or passed on where the instance is. *)
LEMMA AssistanceStep ==
    ASSUME LogInv, TypeOK', Exists, version' = version + 1,
           NEW type \in AssistanceTypes, NEW c \in Nat, NEW r \in Nat,
           events' = Append(events, EventRow(type, version + 1, visit, visit,
                                             context, NoTransition, c, r)),
           UNCHANGED <<visit, context, cancelled, archived, visits, revisions>>
    PROVE  \E e : OneEvent(e)
  <1> DEFINE e == EventRow(type, version + 1, visit, visit, context,
                           NoTransition, c, r)
  <1>1. type \in EventTypes \ (MovingTypes \cup NotReplayable)
    BY DEF AssistanceTypes, StatusGiven, EventTypes, MovingTypes, NotReplayable
  <1>2. /\ visit \in Nat /\ context \in Nat /\ version + 1 \in Nat
        /\ visit = Len(visits)
    BY DEF LogInv, IInv, TypeOK
  <1>3. EventIs(e, type, version + 1, visit, visit, context, NoTransition, c, r)
    BY <1>1, <1>2, RowIsEvent
  <1> HIDE DEF e
  <1>4. OneEvent(e)
    BY <1>1, <1>2, <1>3
    DEF OneEvent, StaysOn, EventIs, e, LogInv, MovingTypes, NotReplayable
  <1> QED
    BY <1>4

LEMMA RequestStep ==
    ASSUME LogInv, TypeOK', NEW v, NEW x, NEW ok, RequestAssistance(v, x, ok)
    PROVE  Still \/ \E e : OneEvent(e)
  <1>1. CASE Refuse
    BY <1>1, RefuseStep
  <1>2. CASE ~Refuse
    <2>1. NextCase \in Nat /\ Len(receipts) + 1 \in Nat
      BY Numbered DEF NextCase
    <2> QED
      BY <1>2, <2>1, AssistanceStep
      DEF RequestAssistance, Logged, AssistanceTypes, StatusGiven
  <1> QED
    BY <1>1, <1>2

LEMMA OwnerActionStep ==
    ASSUME LogInv, TypeOK', NEW c \in DOMAIN cases, NEW x, NEW ok, NEW from,
           NEW to, NEW command, NEW type \in AssistanceTypes, NEW forum,
           OwnerAction(c, x, ok, from, to, command, type, forum)
    PROVE  Still \/ \E e : OneEvent(e)
  <1>1. CASE Refuse
    BY <1>1, RefuseStep
  <1>2. CASE ~Refuse
    <2>1. c \in Nat /\ Len(receipts) + 1 \in Nat
      BY Numbered
    <2> QED
      BY <1>2, <2>1, AssistanceStep DEF OwnerAction, Logged
  <1> QED
    BY <1>1, <1>2

LEMMA EscalateResolveStep ==
    ASSUME LogInv, TypeOK', NEW c \in DOMAIN cases, NEW x, NEW ok,
           EscalateAssistance(c, x, ok) \/ ResolveAssistance(c, x, ok)
    PROVE  Still \/ \E e : OneEvent(e)
  BY OwnerActionStep
  DEF EscalateAssistance, ResolveAssistance, AssistanceTypes, StatusGiven

LEMMA SystemEscalationStep ==
    ASSUME LogInv, TypeOK', NEW v, NEW ok, SystemExecutionEscalation(v, ok)
    PROVE  Still \/ \E e : OneEvent(e)
  <1>1. CASE Refuse
    BY <1>1, RefuseStep
  <1>2. CASE ~Refuse
    <2>1. /\ Exists
          /\ OpenByPolicy \/ FindAlreadyOpen
          /\ UNCHANGED <<visit, context, cancelled, archived, visits, revisions>>
      BY <1>2 DEF SystemExecutionEscalation
    <2>2. CASE OpenByPolicy
      <3>1. NextCase \in Nat /\ Len(receipts) + 2 \in Nat
        BY Numbered DEF NextCase
      <3>2. "ASSISTANCE_REQUESTED" \in AssistanceTypes
        BY DEF AssistanceTypes, StatusGiven
      <3>3. /\ version' = version + 1
            /\ events' = Append(events,
                   EventRow("ASSISTANCE_REQUESTED", version + 1, visit, visit,
                            context, NoTransition, NextCase,
                            Len(receipts) + 2))
        BY <2>2 DEF OpenByPolicy
      <3> QED
        BY <2>1, <3>1, <3>2, <3>3, AssistanceStep
    <2>3. CASE FindAlreadyOpen
      BY <2>1, <2>3 DEF FindAlreadyOpen, Still
    <2> QED
      BY <2>1, <2>2, <2>3
  <1> QED
    BY <1>1, <1>2

LEMMA WakeStep ==
    ASSUME LogInv, TypeOK', NEW v \in DOMAIN visits, NEW x, WakeDispatchIntent(v, x)
    PROVE  Still \/ \E e : OneEvent(e)
  <1>1. CASE WakeHasNothingToDo(v, x)
    BY <1>1 DEF WakeDispatchIntent, Still
  <1>2. CASE ~WakeHasNothingToDo(v, x)
    <2>1. /\ v \in Nat /\ v = visit /\ visit = Len(visits)
          /\ v \in 1..Len(visits) /\ visits # << >>
      <3>1. /\ DOMAIN visits = 1..Len(visits) /\ Len(visits) \in Nat
            /\ visit = Len(visits)
        BY Numbered DEF LogInv
      <3>2. v = visit
        BY <1>2 DEF WakeHasNothingToDo
      <3>3. v \in 1..Len(visits)
        BY <3>1
      <3> QED
        BY <3>1, <3>2, <3>3
    <2>2. Exists
      BY <2>1 DEF LogInv, Anchored
    <2>3. /\ version' = version + 1
          /\ events' = Logged("WAKE_DISPATCH_INTENT", v, 0, 0, NoTransition, 0)
          /\ UNCHANGED <<visit, context, cancelled, archived, visits, revisions>>
      BY <1>2 DEF WakeDispatchIntent
    <2>4. PICK e : /\ events' = Append(events, e)
                   /\ EventIs(e, "WAKE_DISPATCH_INTENT", version + 1, v, 0, 0,
                              NoTransition, 0, Len(receipts) + 1)
      BY <2>1, <2>3, LoggedEvent DEF EventTypes, LogInv, IInv
    <2>5. OneEvent(e)
      BY <2>1, <2>2, <2>3, <2>4
      DEF OneEvent, StaysOn, EventIs, MovingTypes, NotReplayable, LogInv
    <2> QED
      BY <2>5
  <1> QED
    BY <1>1, <1>2

LEMMA OverrideStep ==
    ASSUME LogInv, TypeOK', NEW n \in Nodes, NEW x, NEW ok,
           AdminEmergencyOverride(n, x, ok)
    PROVE  Still \/ \E e : OneEvent(e)
  <1>1. CASE Refuse
    BY <1>1, RefuseStep
  <1>2. CASE ~Refuse
    <2>1. NextVisit \in Nat /\ visit \in Nat /\ context \in Nat
      BY DEF LogInv, IInv, TypeOK, NextVisit
    <2>2. /\ Exists /\ version' = version + 1
          /\ events' = Logged("ADMIN_EMERGENCY_OVERRIDE_COMMITTED", visit,
                              NextVisit, context, NoTransition, 0)
          /\ visit' = NextVisit
          /\ visits' = Append(visits, [node |-> n, by |-> NoTransition])
          /\ UNCHANGED <<context, cancelled, archived, revisions>>
      BY <1>2 DEF AdminEmergencyOverride
    <2>3. PICK e : /\ events' = Append(events, e)
                   /\ EventIs(e, "ADMIN_EMERGENCY_OVERRIDE_COMMITTED",
                              version + 1, visit, NextVisit, context,
                              NoTransition, 0, Len(receipts) + 1)
      BY <2>1, <2>2, LoggedEvent DEF EventTypes, LogInv, IInv
    <2>4. EntersVisit(e)
      BY <2>1, <2>2, <2>3, EnteredNext DEF EventIs, MovingTypes
    <2>5. OneEvent(e)
      BY <2>2, <2>3, <2>4 DEF OneEvent, EventIs, NotReplayable, LogInv
    <2> QED
      BY <2>5
  <1> QED
    BY <1>1, <1>2

LEMMA RebuildStep ==
    ASSUME LogInv, NEW ok, RebuildProjection(ok)
    PROVE  Still /\ UNCHANGED cases
  <1>1. CASE Refuse
    BY <1>1, RefuseStep DEF Refuse, facts
  <1>2. CASE ~Refuse
    <2>1. LogReconstructs
      BY <1>2 DEF RebuildProjection, RebuildRefused
    <2>2. Replayed = <<version, visit, context>>
      BY <2>1, ReplayReads DEF Projection
    <2> QED
      BY <1>2, <2>2 DEF RebuildProjection, Still
  <1> QED
    BY <1>1, <1>2

LEMMA EnvironmentStep ==
    ASSUME Environment \/ UNCHANGED vars
    PROVE  Still /\ UNCHANGED <<cases, receipts, outbox>>
  BY DEF Environment, DeferEligibility, DeprecateDefinition, RevokeDefinition,
         ChangeDomainOwner, Still, vars, row, facts

(* Every step of every command is one of the three. *)
LEMMA EveryStep ==
    ASSUME LogInv, TypeOK', [Next]_vars
    PROVE  Still \/ (\E e : OneEvent(e)) \/ \E e, f : TwoEvents(e, f)
  <1>1. CASE Commands
    BY <1>1, CreateStep, TransitionStep, ReviseStep, RepairStep, CombinedStep,
       EndStep, RequestStep, EscalateResolveStep, SystemEscalationStep, WakeStep,
       OverrideStep, RebuildStep
    DEF Commands
  <1>2. CASE Environment \/ UNCHANGED vars
    BY <1>2, EnvironmentStep
  <1> QED
    BY <1>1, <1>2 DEF Next

LEMMA InitLog == Init => LogInv
  <1> SUFFICES ASSUME Init PROVE LogInv
    OBVIOUS
  <1>1. Traced(events, version, Len(visits))
    BY DEF Init, Traced
  <1> QED
    BY <1>1, InitIInv DEF Init, LogInv, Has, Anchored, Exists

LEMMA NextLog == LogInv /\ [Next]_vars => LogInv'
  <1> SUFFICES ASSUME LogInv, [Next]_vars PROVE LogInv'
    OBVIOUS
  <1>1. IInv' /\ TypeOK'
    BY NextIInv DEF LogInv, IInv
  <1> QED
    BY <1>1, EveryStep, StillKeeps, OneEventKeeps, TwoEventsKeep

LEMMA LogInvariant == Spec => []LogInv
  BY InitLog, NextLog, PTL DEF Spec

(* The row is what its event log says, for every interleaving of commands,  *)
(* escalations that log twice, overrides and rebuilds: versions count the   *)
(* events without a gap, the moving events introduce the visits one by one, *)
(* and an instance is cancelled or archived exactly when its log says so.   *)
THEOREM RowIsItsLog == Spec => []RowMatchesLog
  BY LogInvariant, LogInvMatches, PTL

-----------------------------------------------------------------------------
(* Activations.  Where the open ones are, visit by visit; and that only     *)
(* VISIT_ACTIVATION_V1 has any.                                             *)

ActiveWhere ==
    VisitActivation =>
        \A v \in DOMAIN visits :
            ActiveOn(v) <=> v = visit /\ Exists /\ ~Closed

OnlyModel3 ==
    ~VisitActivation => \A v \in DOMAIN visits : activations[v].kind = "NONE"

ActInv == LogInv /\ ActiveWhere /\ OnlyModel3

LEMMA ActInvIsSafe == ActInv => ActivationSafety
  <1> SUFFICES ASSUME ActInv, VisitActivation
               PROVE  {v \in DOMAIN visits : ActiveOn(v)} =
                          IF Exists /\ ~Closed THEN {visit} ELSE {}
    BY DEF ActivationSafety
  <1>1. Exists => visit \in DOMAIN visits
    BY DEF ActInv, LogInv, IInv, TypeOK, Anchored
  <1>2. \A v \in DOMAIN visits :
           ActiveOn(v) <=> v = visit /\ Exists /\ ~Closed
    BY DEF ActInv, ActiveWhere
  <1> QED
    BY <1>1, <1>2

(* A step that neither moves nor closes.  An activation may become due.     *)
ActivationsKept ==
    /\ UNCHANGED <<visit, visits, cancelled>>
    /\ Exists' <=> Exists
    /\ \A v \in DOMAIN visits :
          /\ activations'[v].kind = activations[v].kind
          /\ activations'[v].closed = activations[v].closed

(* A step to a new visit, which gets the activation a.                      *)
ActivationsMove(n, by, kind) ==
    /\ Exists /\ Exists'
    /\ VisitActivation => ~cancelled
    /\ UNCHANGED cancelled
    /\ visit' = NextVisit
    /\ visits' = Append(visits, [node |-> n, by |-> by])
    /\ activations' = Append(CloseCurrent, ActivationFor(n, kind))

LEMMA KeptKeeps ==
    ASSUME ActInv, LogInv', ActivationsKept
    PROVE  ActInv'
  <1>1. Closed' <=> Closed
    BY DEF ActivationsKept, Closed, CurrentType
  <1>2. ActiveWhere'
    BY <1>1 DEF ActivationsKept, ActInv, ActiveWhere, ActiveOn
  <1>3. OnlyModel3'
    BY DEF ActivationsKept, ActInv, OnlyModel3
  <1> QED
    BY <1>2, <1>3 DEF ActInv

(* Closing closes the current activation and no other. *)
LEMMA ClosedNow ==
    ASSUME TypeOK
    PROVE  /\ CloseCurrent \in Seq(Activation)
           /\ DOMAIN CloseCurrent = DOMAIN visits
           /\ Len(CloseCurrent) = Len(visits)
           /\ \A v \in DOMAIN visits :
                 /\ CloseCurrent[v].kind = activations[v].kind
                 /\ v # visit => CloseCurrent[v] = activations[v]
                 /\ VisitActivation /\ v = visit /\ CloseCurrent[v].kind # "NONE"
                       => CloseCurrent[v].closed
  <1>1. /\ DOMAIN visits = 1..Len(visits)
        /\ DOMAIN activations = DOMAIN visits
        /\ \A v \in DOMAIN visits : activations[v] \in Activation
    BY DEF TypeOK
  <1>2. CloseCurrent \in Seq(Activation) /\ Len(CloseCurrent) = Len(visits)
    BY CloseType DEF TypeOK
  <1>3. ASSUME NEW v \in DOMAIN visits
        PROVE  CloseCurrent[v] =
                  IF v = visit THEN ClosedOff(activations[v]) ELSE activations[v]
    BY <1>1 DEF CloseCurrent
  <1>4. ASSUME NEW a \in Activation
        PROVE  /\ ClosedOff(a).kind = a.kind
               /\ VisitActivation /\ a.kind # "NONE" => ClosedOff(a).closed
    BY DEF ClosedOff, Activation
  <1> QED
    BY <1>1, <1>2, <1>3, <1>4

LEMMA MovedKeeps ==
    ASSUME ActInv, LogInv', NEW n \in Nodes,
           NEW by \in Transitions \cup {NoTransition},
           NEW kind \in ActivationKinds, ActivationsMove(n, by, kind)
    PROVE  ActInv'
  <1> DEFINE a == ActivationFor(n, kind)
             k == NextVisit
  <1>1. /\ visits \in Seq(Visit) /\ Len(visits) \in Nat /\ k = Len(visits) + 1
        /\ DOMAIN visits = 1..Len(visits) /\ visit = Len(visits)
        /\ [node |-> n, by |-> by] \in Visit
    BY DEF ActInv, LogInv, IInv, TypeOK, NextVisit, Visit
  <1>2. a \in Activation
    BY ActivationType
  <1>3. /\ DOMAIN visits' = (DOMAIN visits) \cup {k}
        /\ visits'[k].node = n /\ visit' = k
        /\ activations'[k] = a
        /\ \A v \in DOMAIN visits : activations'[v] = CloseCurrent[v] /\ v # k
    <2>1. TypeOK
      BY DEF ActInv, LogInv, IInv
    <2> HIDE DEF a
    <2>2. /\ visits' = Append(visits, [node |-> n, by |-> by])
          /\ activations' = Append(CloseCurrent, a)
      BY DEF ActivationsMove, a
    <2> QED
      BY <1>1, <1>2, <2>1, <2>2, ClosedNow DEF ActivationsMove
  <1>4. ASSUME VisitActivation PROVE Closed' <=> NodeType[n] = "TERMINAL"
    BY <1>3, <1>4 DEF ActivationsMove, Closed, CurrentType
  <1>5. ASSUME VisitActivation
        PROVE  NodeType[n] \in {"TASK", "TERMINAL"}
    BY <1>5, NodeTypesAssumption, DefinitionAssumption DEF VisitActivation, Legacy
  <1>6. ASSUME VisitActivation
        PROVE  activations'[k].kind # "NONE" /\ ~activations'[k].closed
                  <=> ~Closed'
    BY <1>3, <1>4, <1>5, <1>6 DEF ActivationFor, ActivationKinds
  <1>7. ASSUME VisitActivation, NEW v \in DOMAIN visits
        PROVE  ~ActiveOn(v)'
    <2>1. TypeOK /\ (v # visit => ~ActiveOn(v))
      BY <1>7 DEF ActInv, LogInv, IInv, ActiveWhere
    <2> QED
      BY <1>3, <1>7, <2>1, ClosedNow DEF ActiveOn
  <1>8. ActiveWhere'
    BY <1>3, <1>6, <1>7 DEF ActiveWhere, ActivationsMove, ActiveOn
  <1>9. OnlyModel3'
    <2>1. TypeOK
      BY DEF ActInv, LogInv, IInv
    <2>2. ~VisitActivation => a.kind = "NONE"
      BY DEF ActivationFor
    <2> QED
      BY <1>3, <2>1, <2>2, ClosedNow DEF OnlyModel3, ActInv
  <1> QED
    BY <1>8, <1>9 DEF ActInv

LEMMA InitActivation == Init => ActInv
  BY InitLog DEF Init, ActInv, ActiveWhere, OnlyModel3

LEMMA CreateActivation ==
    ASSUME ActInv, LogInv', NEW kind \in ActivationKinds, NEW ok,
           CreateInstance(kind, ok)
    PROVE  ActInv'
  <1>1. CASE Refuse
    BY <1>1, KeptKeeps DEF Refuse, row, facts, ActivationsKept, Exists
  <1>2. CASE ~Refuse
    <2> DEFINE a == ActivationFor(EntryNode, kind)
    <2>1. /\ version' = 1 /\ visit' = 1 /\ activations' = <<a>>
          /\ visits' = <<[node |-> EntryNode, by |-> NoTransition]>>
          /\ UNCHANGED cancelled
      BY <1>2 DEF CreateInstance
    <2>2. ~cancelled
      BY DEF CreateInstance, ActInv, LogInv, IInv, NothingBeforeCreation
    <2>3. VisitActivation => NodeType[EntryNode] = "TASK"
      BY DefinitionAssumption DEF VisitActivation, Legacy
    <2>4. /\ VisitActivation => a.kind # "NONE" /\ ~a.closed
          /\ ~VisitActivation => a.kind = "NONE"
      BY <2>3 DEF ActivationFor, ActivationKinds
    <2>5. /\ DOMAIN visits' = {1} /\ activations'[1] = a
          /\ visits'[1].node = EntryNode
      BY <2>1
    <2>6. ActiveWhere'
      BY <2>1, <2>2, <2>3, <2>4, <2>5
      DEF ActiveWhere, ActiveOn, Exists, Closed, CurrentType
    <2>7. OnlyModel3'
      BY <2>4, <2>5 DEF OnlyModel3
    <2> QED
      BY <2>6, <2>7 DEF ActInv
  <1> QED
    BY <1>1, <1>2

(* A command that is refused, or only annotates: version, context, cases,   *)
(* receipts and archival may change.                                        *)
LEMMA AnnotatingActivation ==
    ASSUME ActInv, LogInv', UNCHANGED <<visit, visits, cancelled, activations>>
    PROVE  ActInv'
  <1>1. Exists' <=> Exists
    BY DEF ActInv, LogInv, Anchored
  <1> QED
    BY <1>1, KeptKeeps DEF ActivationsKept

LEMMA TransitionActivation ==
    ASSUME ActInv, LogInv', NEW t \in Transitions, NEW kind \in ActivationKinds,
           NEW x, NEW ok, ExecuteTransition(t, x, kind, ok)
    PROVE  ActInv'
  <1>1. CASE Refuse
    BY <1>1, AnnotatingActivation DEF Refuse, row, facts
  <1>2. CASE ~Refuse
    <2>1. MoveAlong(t, ActivationFor(Target[t], kind))
      BY <1>2 DEF ExecuteTransition, CommitTransition, CommitLimitReturn
    <2>2. /\ Exists /\ ~cancelled /\ UNCHANGED cancelled
          /\ version' \in {version + 1, version + 2}
      BY <1>2 DEF ExecuteTransition, TransitionRefused, Closed,
                  CommitTransition, CommitLimitReturn
    <2>3. Exists' /\ Target[t] \in Nodes
      BY <2>2, DefinitionAssumption DEF ActInv, LogInv, IInv, TypeOK, Exists
    <2>4. ActivationsMove(Target[t], t, kind)
      BY <2>1, <2>2, <2>3 DEF ActivationsMove, MoveAlong
    <2> QED
      BY <2>3, <2>4, MovedKeeps
  <1> QED
    BY <1>1, <1>2

LEMMA CombinedActivation ==
    ASSUME ActInv, LogInv', NEW t \in Transitions, NEW x, NEW ok,
           ReviseContextAndTransition(t, x, ok)
    PROVE  ActInv'
  <1>1. CASE Refuse
    BY <1>1, AnnotatingActivation DEF Refuse, row, facts
  <1>2. CASE ~Refuse
    <2>1. /\ MoveAlong(t, ActivationFor(Target[t], "HUMAN_WORK_ITEM"))
          /\ Exists /\ ~VisitActivation /\ UNCHANGED cancelled
          /\ version' = version + 1
      BY <1>2 DEF ReviseContextAndTransition, CombinedRefused
    <2>2. Exists' /\ Target[t] \in Nodes
      BY <2>1, DefinitionAssumption DEF ActInv, LogInv, IInv, TypeOK, Exists
    <2>3. ActivationsMove(Target[t], t, "HUMAN_WORK_ITEM")
      BY <2>1, <2>2 DEF ActivationsMove, MoveAlong
    <2> QED
      BY <2>2, <2>3, MovedKeeps DEF ActivationKinds
  <1> QED
    BY <1>1, <1>2

LEMMA OverrideActivation ==
    ASSUME ActInv, LogInv', NEW n \in Nodes, NEW x, NEW ok,
           AdminEmergencyOverride(n, x, ok)
    PROVE  ActInv'
  <1>1. CASE Refuse
    BY <1>1, AnnotatingActivation DEF Refuse, row, facts
  <1>2. CASE ~Refuse
    <2>1. LogReconstructs
      BY <1>2 DEF AdminEmergencyOverride, OverrideRefused
    <2>2. Exists /\ ~cancelled
      BY <2>1, ReplayReads DEF ActInv
    <2>3. /\ visit' = NextVisit
          /\ visits' = Append(visits, [node |-> n, by |-> NoTransition])
          /\ activations' = Append(CloseCurrent,
                                   ActivationFor(n, "HUMAN_WORK_ITEM"))
          /\ version' = version + 1 /\ UNCHANGED cancelled
      BY <1>2 DEF AdminEmergencyOverride
    <2>4. Exists'
      BY <2>2, <2>3 DEF ActInv, LogInv, IInv, TypeOK, Exists
    <2>5. ActivationsMove(n, NoTransition, "HUMAN_WORK_ITEM")
      BY <2>2, <2>3, <2>4 DEF ActivationsMove
    <2> QED
      BY <2>5, MovedKeeps DEF ActivationKinds
  <1> QED
    BY <1>1, <1>2

LEMMA CancelActivation ==
    ASSUME ActInv, LogInv', NEW x, NEW ok, CancelInstance(x, ok)
    PROVE  ActInv'
  <1>1. CASE Refuse
    BY <1>1, AnnotatingActivation DEF Refuse, row, facts
  <1>2. CASE ~Refuse
    <2>1. /\ cancelled' /\ activations' = CloseCurrent
          /\ UNCHANGED <<visit, visits>>
      BY <1>2 DEF CancelInstance
    <2>2. TypeOK /\ Closed'
      BY <2>1 DEF ActInv, LogInv, IInv, Closed
    <2>3. ActiveWhere'
      BY <2>1, <2>2, ClosedNow DEF ActiveWhere, ActInv, ActiveOn
    <2>4. OnlyModel3'
      BY <2>1, <2>2, ClosedNow DEF OnlyModel3, ActInv
    <2> QED
      BY <2>3, <2>4 DEF ActInv
  <1> QED
    BY <1>1, <1>2

(* Waking or deferring changes only when an activation is due. *)
LEMMA DueActivation ==
    ASSUME ActInv, LogInv', NEW w, NEW due \in BOOLEAN,
           activations' = [activations EXCEPT ![w].due = due],
           UNCHANGED <<visit, visits, cancelled>>
    PROVE  ActInv'
  <1>1. Exists' <=> Exists
    BY DEF ActInv, LogInv, Anchored
  <1>2. \A v \in DOMAIN visits :
           v \in DOMAIN activations /\ activations[v] \in Activation
    <2>1. TypeOK
      BY DEF ActInv, LogInv, IInv
    <2> QED
      BY <2>1 DEF TypeOK
  <1>3. \A v \in DOMAIN visits :
           /\ activations'[v].kind = activations[v].kind
           /\ activations'[v].closed = activations[v].closed
    BY <1>2 DEF Activation
  <1> QED
    BY <1>1, <1>3, KeptKeeps DEF ActivationsKept

LEMMA OtherActivation ==
    ASSUME ActInv, LogInv',
           \/ \E x, ok : ReviseContext(x, ok) \/ ArchiveInstance(x, ok)
           \/ RepairContext
           \/ \E v, x, ok : RequestAssistance(v, x, ok)
           \/ \E c, x, ok : EscalateAssistance(c, x, ok)
           \/ \E c, x, ok : ResolveAssistance(c, x, ok)
           \/ \E v, ok : SystemExecutionEscalation(v, ok)
    PROVE  ActInv'
  <1>1. UNCHANGED <<visit, visits, cancelled, activations>>
    BY DEF ReviseContext, ArchiveInstance, RepairContext, RequestAssistance,
           EscalateAssistance, ResolveAssistance, OwnerAction,
           SystemExecutionEscalation, Refuse, row, facts
  <1> QED
    BY <1>1, AnnotatingActivation

LEMMA WakeActivation ==
    ASSUME ActInv, LogInv', NEW v, NEW x, WakeDispatchIntent(v, x)
    PROVE  ActInv'
  <1>1. CASE WakeHasNothingToDo(v, x)
    BY <1>1, AnnotatingActivation DEF WakeDispatchIntent
  <1>2. CASE ~WakeHasNothingToDo(v, x)
    BY <1>2, DueActivation DEF WakeDispatchIntent
  <1> QED
    BY <1>1, <1>2

LEMMA RebuildActivation ==
    ASSUME ActInv, LogInv', NEW ok, RebuildProjection(ok)
    PROVE  ActInv'
  <1>1. UNCHANGED activations
    BY DEF RebuildProjection, Refuse, facts
  <1>2. UNCHANGED <<visit, visits, cancelled>>
    BY RebuildStep DEF ActInv, Still
  <1> QED
    BY <1>1, <1>2, AnnotatingActivation

LEMMA EnvironmentActivation ==
    ASSUME ActInv, LogInv', Environment \/ UNCHANGED vars
    PROVE  ActInv'
  <1>1. UNCHANGED <<visit, visits, cancelled>>
    BY EnvironmentStep DEF Still
  <1>2. CASE UNCHANGED activations
    BY <1>1, <1>2, AnnotatingActivation
  <1>3. ASSUME NEW v, DeferEligibility(v) PROVE ActInv'
    BY <1>1, <1>3, DueActivation DEF DeferEligibility
  <1>4. UNCHANGED activations \/ \E v : DeferEligibility(v)
    BY DEF Environment, DeprecateDefinition, RevokeDefinition,
           ChangeDomainOwner, vars, facts
  <1> QED
    BY <1>2, <1>3, <1>4

LEMMA NextActivation == ActInv /\ [Next]_vars => ActInv'
  <1> SUFFICES ASSUME ActInv, [Next]_vars PROVE ActInv'
    OBVIOUS
  <1>1. LogInv'
    BY NextLog DEF ActInv
  <1>2. CASE Commands
    BY <1>1, <1>2, CreateActivation, TransitionActivation, CombinedActivation,
       OverrideActivation, CancelActivation, OtherActivation, WakeActivation,
       RebuildActivation
    DEF Commands
  <1>3. CASE Environment \/ UNCHANGED vars
    BY <1>1, <1>3, EnvironmentActivation
  <1> QED
    BY <1>2, <1>3 DEF Next

(* For every definition graph of VISIT_ACTIVATION_V1, the open activations  *)
(* are the current TASK visit's of a live instance and no other: every      *)
(* command that leaves a visit closes its activation and every one that     *)
(* enters a TASK opens one.                                                 *)
THEOREM ActivationsSafe == Spec => []ActivationSafety
  BY InitActivation, NextActivation, ActInvIsSafe, PTL DEF Spec

-----------------------------------------------------------------------------
(* Which steps may move work, and which may touch what is finished.         *)

Legal == MovesUnderOpenCase /\ FinishedMoves

LEMMA StayingIsLegal ==
    ASSUME UNCHANGED <<cancelled, visit, visits, activations, cases>>
    PROVE  Legal
  BY DEF Legal, MovesUnderOpenCase, FinishedMoves

LEMMA LiveAndFreeIsLegal ==
    ASSUME ~Closed, OpenCases = {} \/ UNCHANGED visit
    PROVE  Legal
  BY DEF Legal, MovesUnderOpenCase, FinishedMoves

(* What is finished has no open case and no open activation. *)
LEMMA FinishedIsFree ==
    ASSUME ActInv, Closed, Exists
    PROVE  /\ OpenCases = {}
           /\ \A v \in DOMAIN visits :
                 activations[v].kind # "NONE" => activations[v].closed
           /\ VoidOpenCases = cases
  <1>1. OpenCases = {}
    BY DEF ActInv, LogInv, IInv, AssistanceSafety
  <1>2. \A v \in DOMAIN visits :
           activations[v].kind # "NONE" => activations[v].closed
    BY DEF ActInv, ActiveWhere, OnlyModel3, ActiveOn
  <1>3. VoidOpenCases = cases
    <2>1. cases = [c \in DOMAIN cases |-> cases[c]]
      BY DEF ActInv, LogInv, IInv, TypeOK
    <2>2. \A c \in DOMAIN cases : cases[c].status \notin OpenStatus
      BY <1>1 DEF OpenCases
    <2> QED
      BY <2>1, <2>2 DEF VoidOpenCases
  <1> QED
    BY <1>1, <1>2, <1>3

LEMMA MovingIsLegal ==
    ASSUME ActInv, NEW t, NEW x, NEW kind, NEW ok,
           \/ ExecuteTransition(t, x, kind, ok)
           \/ ReviseContextAndTransition(t, x, ok)
    PROVE  Legal
  <1>1. CASE Refuse
    BY <1>1, StayingIsLegal DEF Refuse, row, facts
  <1>2. CASE ~Refuse
    <2>1. ~Closed /\ OpenOn(visit) = {}
      BY <1>2 DEF ExecuteTransition, TransitionRefused, Closed,
                  ReviseContextAndTransition, CombinedRefused
    <2>2. OpenCases = {}
      BY <2>1, OnlyOnCurrent DEF ActInv, LogInv, IInv
    <2> QED
      BY <2>1, <2>2, LiveAndFreeIsLegal
  <1> QED
    BY <1>1, <1>2

LEMMA EndingIsLegal ==
    ASSUME ActInv, NEW x, NEW ok, CancelInstance(x, ok) \/ ArchiveInstance(x, ok)
    PROVE  Legal
  <1>1. CASE Refuse
    BY <1>1, StayingIsLegal DEF Refuse, row, facts
  <1>2. CASE ~Refuse /\ CancelInstance(x, ok)
    BY <1>2, LiveAndFreeIsLegal DEF CancelInstance
  <1>3. CASE ~Refuse /\ ArchiveInstance(x, ok)
    <2>1. /\ Exists /\ Closed /\ cases' = VoidOpenCases
          /\ UNCHANGED <<cancelled, visit, visits, activations>>
      BY <1>3 DEF ArchiveInstance
    <2>2. UNCHANGED cases
      BY <2>1, FinishedIsFree
    <2> QED
      BY <2>1, <2>2, StayingIsLegal
  <1> QED
    BY <1>1, <1>2, <1>3

LEMMA AskingIsLegal ==
    ASSUME NEW v, NEW x, NEW ok,
           RequestAssistance(v, x, ok) \/ SystemExecutionEscalation(v, ok)
    PROVE  Legal
  <1>1. CASE Refuse
    BY <1>1, StayingIsLegal DEF Refuse, row, facts
  <1>2. CASE ~Refuse
    <2>1. ~Closed /\ UNCHANGED visit
      BY <1>2 DEF RequestAssistance, RequestRefused, SystemExecutionEscalation
    <2> QED
      BY <2>1, LiveAndFreeIsLegal
  <1> QED
    BY <1>1, <1>2

LEMMA AnsweringIsLegal ==
    ASSUME ActInv, NEW c \in DOMAIN cases, NEW x, NEW ok,
           EscalateAssistance(c, x, ok) \/ ResolveAssistance(c, x, ok)
    PROVE  Legal
  <1>1. CASE Refuse
    BY <1>1, StayingIsLegal DEF Refuse, row, facts
  <1>2. CASE ~Refuse
    <2>1. /\ Exists /\ cases[c].status \in OpenStatus
          /\ UNCHANGED visit
      BY <1>2 DEF EscalateAssistance, ResolveAssistance, OwnerAction,
                  OwnerActionRefused, OpenStatus
    <2>2. ~Closed
      BY <2>1, FinishedIsFree DEF OpenCases
    <2> QED
      BY <2>1, <2>2, LiveAndFreeIsLegal
  <1> QED
    BY <1>1, <1>2

(* Only an open activation is woken or deferred. *)
LEMMA WakingIsLegal ==
    ASSUME ActInv, NEW v \in DOMAIN visits, NEW x,
           WakeDispatchIntent(v, x) \/ DeferEligibility(v)
    PROVE  Legal
  <1>1. UNCHANGED <<cancelled, visit, visits, cases>>
    BY DEF WakeDispatchIntent, DeferEligibility, row
  <1>2. CASE UNCHANGED activations
    BY <1>1, <1>2, StayingIsLegal
  <1>3. CASE ~UNCHANGED activations
    <2>1. activations[v].kind # "NONE" /\ ~activations[v].closed
      BY <1>3 DEF WakeDispatchIntent, WakeHasNothingToDo, DeferEligibility,
                  ActiveOn
    <2>2. Exists
      BY DEF ActInv, LogInv, Anchored, IInv, TypeOK
    <2>3. ~Closed
      BY <2>1, <2>2, FinishedIsFree
    <2> QED
      BY <1>1, <2>3, LiveAndFreeIsLegal
  <1> QED
    BY <1>2, <1>3

LEMMA OverridingIsLegal ==
    ASSUME ActInv, NEW n, NEW x, NEW ok, AdminEmergencyOverride(n, x, ok)
    PROVE  Legal
  <1>1. CASE Refuse
    BY <1>1, StayingIsLegal DEF Refuse, row, facts
  <1>2. CASE ~Refuse
    <2>1. LogReconstructs /\ cases' = VoidOpenCases
          /\ events' = Logged("ADMIN_EMERGENCY_OVERRIDE_COMMITTED", visit,
                              NextVisit, context, NoTransition, 0)
      BY <1>2 DEF AdminEmergencyOverride, OverrideRefused
    <2>2. ~cancelled /\ TypeOK
      BY <2>1, ReplayReads DEF ActInv, LogInv, IInv
    <2>3. Overridden
      <3>1. visit \in Nat /\ NextVisit \in Nat /\ context \in Nat
        BY <2>2 DEF TypeOK, NextVisit
      <3>2. PICK e : /\ events' = Append(events, e)
                     /\ EventIs(e, "ADMIN_EMERGENCY_OVERRIDE_COMMITTED",
                                version + 1, visit, NextVisit, context,
                                NoTransition, 0, Len(receipts) + 1)
        BY <2>1, <2>2, <3>1, LoggedEvent DEF EventTypes
      <3> QED
        BY <2>2, <3>2, Appended DEF Overridden, TypeOK, EventIs
    <2>4. OpenCases' = {}
      BY <2>1, <2>2, VoidedAll
    <2> QED
      BY <2>2, <2>3, <2>4 DEF Legal, MovesUnderOpenCase, FinishedMoves
  <1> QED
    BY <1>1, <1>2

LEMMA StepsAreLegal == ActInv /\ [Next]_vars => Legal
  <1> SUFFICES ASSUME ActInv, [Next]_vars PROVE Legal
    OBVIOUS
  <1>1. ASSUME NEW kind, NEW ok, CreateInstance(kind, ok) PROVE Legal
    BY <1>1 DEF CreateInstance, Legal, MovesUnderOpenCase, FinishedMoves
  <1>2. ASSUME NEW x, NEW ok, ReviseContext(x, ok) \/ RepairContext PROVE Legal
    BY <1>2, StayingIsLegal DEF ReviseContext, RepairContext, Refuse, row, facts
  <1>3. ASSUME NEW ok, RebuildProjection(ok) PROVE Legal
    <2>1. UNCHANGED activations
      BY <1>3 DEF RebuildProjection, Refuse, facts
    <2> QED
      BY <1>3, <2>1, RebuildStep, StayingIsLegal DEF Still, ActInv
  <1>4. CASE Commands
    BY <1>1, <1>2, <1>3, <1>4, MovingIsLegal, EndingIsLegal, AskingIsLegal,
       AnsweringIsLegal, WakingIsLegal, OverridingIsLegal
    DEF Commands
  <1>5. CASE Environment \/ UNCHANGED vars
    <2>1. CASE \E v \in DOMAIN visits : DeferEligibility(v)
      BY <2>1, WakingIsLegal
    <2>2. CASE DeprecateDefinition \/ RevokeDefinition \/ ChangeDomainOwner
               \/ UNCHANGED vars
      BY <2>2, StayingIsLegal
      DEF DeprecateDefinition, RevokeDefinition, ChangeDomainOwner, vars, row,
          facts
    <2> QED
      BY <1>5, <2>1, <2>2 DEF Environment
  <1> QED
    BY <1>4, <1>5 DEF Next

(* Whatever the interleaving, nothing moves past an open case but an        *)
(* override, which voids it, and nothing comes back from its end by a       *)
(* command: archival voids nothing there, and no wake or owner action finds *)
(* anything to change there.                                                *)
THEOREM MovesLegal == Spec => MovesAreLegal
  <1>1. ActInv /\ [Next]_vars => MovesUnderOpenCase /\ FinishedMoves
    BY StepsAreLegal DEF Legal
  <1> QED
    BY <1>1, InitActivation, NextActivation, PTL DEF Spec, MovesAreLegal

-----------------------------------------------------------------------------
(* The lifecycle.  The phase of a state, and then the lifecycle step each   *)
(* command is.                                                              *)

PhaseFacts ==
    ActInv =>
        /\ PhaseOf = IF ~Exists THEN "ABSENT"
                     ELSE IF cancelled THEN "CANCELLED"
                     ELSE IF Closed THEN "COMPLETED"
                     ELSE IF OpenCases # {} THEN "AWAITING_OWNER"
                     ELSE "WORKING"
        /\ ~Exists => ~cancelled

LEMMA PhaseIs == PhaseFacts
  <1> SUFFICES ASSUME ActInv PROVE PhaseFacts
    BY DEF PhaseFacts
  <1>1. (~Exists => ~cancelled) /\ cancelled \in BOOLEAN
    BY DEF ActInv, LogInv, IInv, TypeOK, NothingBeforeCreation
  <1>2. CASE ~Exists
    BY <1>1, <1>2 DEF PhaseFacts, PhaseOf
  <1>3. CASE Exists /\ cancelled
    BY <1>3 DEF PhaseFacts, PhaseOf, Closed
  <1>4. CASE Exists /\ ~cancelled /\ Closed
    BY <1>4 DEF PhaseFacts, PhaseOf, Closed
  <1>5. CASE Exists /\ ~Closed
    BY <1>5 DEF PhaseFacts, PhaseOf, Closed
  <1> QED
    BY <1>2, <1>3, <1>4, <1>5

LEMMA PhaseIsNext == PhaseFacts'
  BY PhaseIs, PTL

(* A step the lifecycle makes, or does not notice. *)
Lives == [Lifecycle!Next]_(Lifecycle!lifecycle)

LEMMA Unnoticed ==
    ASSUME UNCHANGED <<version, visit, visits, cancelled, archived, cases>>
    PROVE  Lives
  <1>1. UNCHANGED PhaseOf
    BY DEF PhaseOf, Exists, Closed, CurrentType, OpenCases
  <1> QED
    BY <1>1 DEF Lives, Lifecycle!lifecycle

LEMMA RefuseLives == ASSUME Refuse PROVE Lives
  BY Unnoticed DEF Refuse, row, facts

(* The version moves and nothing else a client sees. *)
LEMMA Amends ==
    ASSUME ActInv, Exists, version' = version + 1,
           UNCHANGED <<visit, visits, cancelled, archived, cases>>
    PROVE  Lives
  <1>1. Exists'
    BY DEF ActInv, LogInv, IInv, TypeOK, Exists
  <1>2. UNCHANGED PhaseOf
    BY <1>1 DEF PhaseOf, Closed, CurrentType, OpenCases
  <1>3. PhaseOf \in Lifecycle!Live \cup Lifecycle!Finished
    BY PhaseIs DEF PhaseFacts, Lifecycle!Live, Lifecycle!Finished
  <1>4. Lifecycle!Amend
    BY <1>2, <1>3 DEF Lifecycle!Amend, Lifecycle!Step
  <1> QED
    BY <1>4 DEF Lives, Lifecycle!Next

LEMMA CreateLives ==
    ASSUME ActInv, ActInv', NEW kind, NEW ok, CreateInstance(kind, ok)
    PROVE  Lives
  <1>1. CASE Refuse
    BY <1>1, RefuseLives
  <1>2. CASE ~Refuse
    <2>1. version = 0 /\ cases = << >> /\ ~cancelled /\ ~Exists
      BY DEF CreateInstance, ActInv, LogInv, IInv, TypeOK,
             NothingBeforeCreation, Exists
    <2>2. /\ version' = 1 /\ visit' = 1 /\ UNCHANGED <<cancelled, archived, cases>>
          /\ visits' = <<[node |-> EntryNode, by |-> NoTransition]>>
      BY <1>2 DEF CreateInstance
    <2>3. /\ Exists' /\ ~Closed' /\ OpenCases' = {}
      BY <2>1, <2>2, DefinitionAssumption
      DEF Exists, Closed, CurrentType, OpenCases
    <2>4. PhaseOf = "ABSENT" /\ PhaseOf' = "WORKING"
      BY <2>1, <2>2, <2>3, PhaseIs, PhaseIsNext DEF PhaseFacts
    <2>5. Lifecycle!Begin
      BY <2>1, <2>2, <2>4 DEF Lifecycle!Begin, Lifecycle!Step
    <2> QED
      BY <2>5 DEF Lives, Lifecycle!Next
  <1> QED
    BY <1>1, <1>2

(* Entering a visit with no open case: the instance works on it, or is done. *)
LEMMA Entered ==
    ASSUME ActInv', Exists', ~cancelled', OpenCases' = {}
    PROVE  PhaseOf' \in {"WORKING", "COMPLETED"}
  BY PhaseIsNext DEF PhaseFacts

LEMMA TransitionLives ==
    ASSUME ActInv, ActInv', NEW t \in Transitions, NEW kind, NEW x, NEW ok,
           ExecuteTransition(t, x, kind, ok)
    PROVE  Lives
  <1>1. CASE Refuse
    BY <1>1, RefuseLives
  <1>2. CASE ~Refuse
    <2> DEFINE a == ActivationFor(Target[t], kind)
    <2>1. /\ Exists /\ ~Closed /\ OpenOn(visit) = {}
          /\ CommitTransition(t, a) \/ CommitLimitReturn(t, a)
          /\ Applicable(t, visits[visit].node)
          /\ UNCHANGED <<cancelled, archived>>
      BY <1>2 DEF ExecuteTransition, TransitionRefused, Closed
    <2> HIDE DEF a
    <2>2. OpenCases = {} /\ ~cancelled /\ TypeOK
      BY <2>1, OnlyOnCurrent DEF ActInv, LogInv, IInv, Closed
    <2>3. PhaseOf = "WORKING"
      BY <2>1, <2>2, PhaseIs DEF PhaseFacts
    <2>4. CASE CommitTransition(t, a)
      <3>1. version' = version + 1 /\ UNCHANGED cases /\ Exists'
        BY <2>2, <2>4 DEF CommitTransition, TypeOK, Exists
      <3>2. PhaseOf' \in {"WORKING", "COMPLETED"}
        BY <2>1, <2>2, <3>1, SameCases, Entered
      <3>3. Lifecycle!Move
        BY <2>1, <2>3, <3>1, <3>2 DEF Lifecycle!Move, Lifecycle!Step
      <3> QED
        BY <3>3 DEF Lives, Lifecycle!Next
    <2>5. CASE CommitLimitReturn(t, a)
      <3>1. /\ version' = version + 2 /\ Exists'
            /\ visit' = NextVisit
            /\ visits' = Append(visits, [node |-> Target[t], by |-> t])
            /\ cases' = Append(cases, [visit |-> NextVisit,
                                       status |-> "OWNER_PENDING"])
        BY <2>2, <2>5 DEF CommitLimitReturn, MoveAlong, TypeOK, Exists
      <3>2. NodeType[Target[t]] # "TERMINAL"
        BY <2>1, <2>5 DEF CommitLimitReturn, ReachesLimit, Applicable,
                          TargetAllowed
      <3>3. ~Closed'
        BY <2>1, <2>2, <3>1, <3>2 DEF Closed, CurrentType, NextVisit, TypeOK
      <3>4. OpenCases' # {}
        <4>1. NextCase \in DOMAIN cases' /\ cases'[NextCase].status = "OWNER_PENDING"
          BY <2>2, <3>1 DEF TypeOK, NextCase
        <4> QED
          BY <4>1 DEF OpenCases, OpenStatus
      <3>5. PhaseOf' = "AWAITING_OWNER"
        BY <3>1, <3>3, <3>4, PhaseIsNext DEF PhaseFacts, Closed
      <3>6. Lifecycle!MoveAndAsk
        BY <2>1, <2>3, <3>1, <3>5 DEF Lifecycle!MoveAndAsk
      <3> QED
        BY <3>6 DEF Lives, Lifecycle!Next
    <2> QED
      BY <2>1, <2>4, <2>5
  <1> QED
    BY <1>1, <1>2

LEMMA CombinedLives ==
    ASSUME ActInv, ActInv', NEW t \in Transitions, NEW x, NEW ok,
           ReviseContextAndTransition(t, x, ok)
    PROVE  Lives
  <1>1. CASE Refuse
    BY <1>1, RefuseLives
  <1>2. CASE ~Refuse
    <2>1. /\ Exists /\ ~Closed /\ ~cancelled /\ OpenOn(visit) = {}
          /\ version' = version + 1
          /\ UNCHANGED <<cancelled, archived, cases>>
      BY <1>2 DEF ReviseContextAndTransition, CombinedRefused, Closed
    <2>2. OpenCases = {} /\ OpenCases' = {} /\ Exists'
      BY <2>1, OnlyOnCurrent, SameCases
      DEF ActInv, LogInv, IInv, TypeOK, Exists
    <2>3. PhaseOf = "WORKING" /\ PhaseOf' \in {"WORKING", "COMPLETED"}
      BY <2>1, <2>2, PhaseIs, Entered DEF PhaseFacts
    <2>4. Lifecycle!Move
      BY <2>1, <2>3 DEF Lifecycle!Move, Lifecycle!Step
    <2> QED
      BY <2>4 DEF Lives, Lifecycle!Next
  <1> QED
    BY <1>1, <1>2

LEMMA ReviseLives ==
    ASSUME ActInv, NEW x, NEW ok, ReviseContext(x, ok) \/ RepairContext
    PROVE  Lives
  <1>1. CASE Refuse
    BY <1>1, RefuseLives
  <1>2. CASE ~Refuse
    BY <1>2, Amends DEF ReviseContext, RepairContext
  <1> QED
    BY <1>1, <1>2

LEMMA WakeLives ==
    ASSUME ActInv, NEW v \in DOMAIN visits, NEW x, WakeDispatchIntent(v, x)
    PROVE  Lives
  <1>1. CASE WakeHasNothingToDo(v, x)
    BY <1>1, Unnoticed DEF WakeDispatchIntent
  <1>2. CASE ~WakeHasNothingToDo(v, x)
    <2>1. Exists
      BY DEF ActInv, LogInv, Anchored, IInv, TypeOK
    <2> QED
      BY <1>2, <2>1, Amends DEF WakeDispatchIntent
  <1> QED
    BY <1>1, <1>2

LEMMA CancelLives ==
    ASSUME ActInv, ActInv', NEW x, NEW ok, CancelInstance(x, ok)
    PROVE  Lives
  <1>1. CASE Refuse
    BY <1>1, RefuseLives
  <1>2. CASE ~Refuse
    <2>1. /\ Exists /\ ~Closed /\ cancelled' /\ version' = version + 1
          /\ UNCHANGED archived
      BY <1>2 DEF CancelInstance
    <2>2. Exists'
      BY <2>1 DEF ActInv, LogInv, IInv, TypeOK, Exists
    <2>3. PhaseOf \in Lifecycle!Live /\ PhaseOf' = "CANCELLED"
      BY <2>1, <2>2, PhaseIs, PhaseIsNext
      DEF PhaseFacts, Lifecycle!Live, Closed
    <2>4. Lifecycle!Cancel
      BY <2>1, <2>3 DEF Lifecycle!Cancel, Lifecycle!Step
    <2> QED
      BY <2>4 DEF Lives, Lifecycle!Next
  <1> QED
    BY <1>1, <1>2

LEMMA ArchiveLives ==
    ASSUME ActInv, ActInv', NEW x, NEW ok, ArchiveInstance(x, ok)
    PROVE  Lives
  <1>1. CASE Refuse
    BY <1>1, RefuseLives
  <1>2. CASE ~Refuse
    <2>1. /\ Exists /\ Closed /\ ~archived /\ archived' = TRUE
          /\ version' = version + 1
          /\ cases' = VoidOpenCases
          /\ UNCHANGED <<visit, visits, cancelled>>
      BY <1>2 DEF ArchiveInstance
    <2>2. UNCHANGED cases
      BY <2>1, FinishedIsFree
    <2>3. Exists'
      BY <2>1 DEF ActInv, LogInv, IInv, TypeOK, Exists
    <2>4. UNCHANGED PhaseOf
      BY <2>1, <2>2, <2>3 DEF PhaseOf, Closed, CurrentType, OpenCases
    <2>5. PhaseOf \in Lifecycle!Finished
      BY <2>1, PhaseIs DEF PhaseFacts, Lifecycle!Finished
    <2>6. Lifecycle!File
      BY <2>1, <2>4, <2>5 DEF Lifecycle!File
    <2> QED
      BY <2>6 DEF Lives, Lifecycle!Next
  <1> QED
    BY <1>1, <1>2

(* A case is opened on the current visit of a live instance that has none. *)
LEMMA Asks ==
    ASSUME ActInv, ActInv', Exists, ~Closed, OpenOn(visit) = {},
           version' = version + 1, cases' = OpenedOn(visit),
           UNCHANGED <<visit, visits, cancelled, archived>>
    PROVE  Lives
  <1>1. OpenCases = {} /\ TypeOK
    BY OnlyOnCurrent DEF ActInv, LogInv, IInv
  <1>2. Exists' /\ ~Closed'
    BY <1>1 DEF TypeOK, Exists, Closed, CurrentType
  <1>3. OpenCases' # {}
    <2>1. NextCase \in DOMAIN cases' /\ cases'[NextCase].status = "OWNER_PENDING"
      BY <1>1 DEF TypeOK, NextCase, OpenedOn
    <2> QED
      BY <2>1 DEF OpenCases, OpenStatus
  <1>4. PhaseOf = "WORKING" /\ PhaseOf' = "AWAITING_OWNER"
    BY <1>1, <1>2, <1>3, PhaseIs, PhaseIsNext DEF PhaseFacts, Closed
  <1>5. Lifecycle!Ask
    BY <1>4 DEF Lifecycle!Ask, Lifecycle!Step
  <1> QED
    BY <1>5 DEF Lives, Lifecycle!Next

LEMMA AskingLives ==
    ASSUME ActInv, ActInv', NEW v, NEW x, NEW ok,
           RequestAssistance(v, x, ok) \/ SystemExecutionEscalation(v, ok)
    PROVE  Lives
  <1>1. CASE Refuse
    BY <1>1, RefuseLives
  <1>2. CASE ~Refuse /\ RequestAssistance(v, x, ok)
    BY <1>2, Asks DEF RequestAssistance, RequestRefused
  <1>3. CASE ~Refuse /\ SystemExecutionEscalation(v, ok)
    <2>1. /\ Exists /\ ~Closed
          /\ OpenByPolicy \/ FindAlreadyOpen
          /\ UNCHANGED <<visit, visits, cancelled, archived>>
      BY <1>3 DEF SystemExecutionEscalation
    <2>2. CASE OpenByPolicy
      BY <2>1, <2>2, Asks DEF OpenByPolicy
    <2>3. CASE FindAlreadyOpen
      BY <2>1, <2>3, Unnoticed DEF FindAlreadyOpen
    <2> QED
      BY <2>1, <2>2, <2>3
  <1> QED
    BY <1>1, <1>2, <1>3

LEMMA AnsweringLives ==
    ASSUME ActInv, ActInv', NEW c \in DOMAIN cases, NEW x, NEW ok,
           EscalateAssistance(c, x, ok) \/ ResolveAssistance(c, x, ok)
    PROVE  Lives
  <1>1. CASE Refuse
    BY <1>1, RefuseLives
  <1>2. CASE ~Refuse
    <2>1. /\ Exists /\ cases[c].status \in OpenStatus
          /\ version' = version + 1
          /\ UNCHANGED <<visit, visits, cancelled, archived>>
      BY <1>2 DEF EscalateAssistance, ResolveAssistance, OwnerAction,
                  OwnerActionRefused, OpenStatus
    <2>2. OpenCases # {} /\ ~Closed
      BY <2>1, FinishedIsFree DEF OpenCases
    <2>3. Exists' /\ ~Closed'
      BY <2>1, <2>2 DEF ActInv, LogInv, IInv, TypeOK, Exists, Closed,
                        CurrentType
    <2>4. PhaseOf = "AWAITING_OWNER" /\ PhaseOf' \in Lifecycle!Live
      BY <2>1, <2>2, <2>3, PhaseIs, PhaseIsNext
      DEF PhaseFacts, Closed, Lifecycle!Live
    <2>5. Lifecycle!Answer
      BY <2>1, <2>4 DEF Lifecycle!Answer, Lifecycle!Step
    <2> QED
      BY <2>5 DEF Lives, Lifecycle!Next
  <1> QED
    BY <1>1, <1>2

LEMMA OverrideLives ==
    ASSUME ActInv, ActInv', NEW n, NEW x, NEW ok, AdminEmergencyOverride(n, x, ok)
    PROVE  Lives
  <1>1. CASE Refuse
    BY <1>1, RefuseLives
  <1>2. CASE ~Refuse
    <2>1. /\ LogReconstructs /\ cases' = VoidOpenCases
          /\ version' = version + 1 /\ UNCHANGED <<cancelled, archived>>
      BY <1>2 DEF AdminEmergencyOverride, OverrideRefused
    <2>2. Exists /\ ~cancelled /\ ~archived
      BY <2>1, ReplayReads DEF ActInv
    <2>3. Exists' /\ OpenCases' = {}
      BY <2>1, <2>2, VoidedAll DEF ActInv, LogInv, IInv, TypeOK, Exists
    <2>4. /\ PhaseOf \in Lifecycle!Live \cup {"COMPLETED"}
          /\ PhaseOf' \in {"WORKING", "COMPLETED"}
      BY <2>1, <2>2, <2>3, PhaseIs, Entered DEF PhaseFacts, Lifecycle!Live
    <2>5. Lifecycle!Override
      BY <2>1, <2>2, <2>4 DEF Lifecycle!Override, Lifecycle!Step
    <2> QED
      BY <2>5 DEF Lives, Lifecycle!Next
  <1> QED
    BY <1>1, <1>2

LEMMA RebuildLives ==
    ASSUME ActInv, NEW ok, RebuildProjection(ok)
    PROVE  Lives
  BY RebuildStep, Unnoticed DEF ActInv, Still

LEMMA StepsLive == ActInv /\ ActInv' /\ [Next]_vars => Lives
  <1> SUFFICES ASSUME ActInv, ActInv', [Next]_vars PROVE Lives
    OBVIOUS
  <1>1. CASE Commands
    BY <1>1, CreateLives, TransitionLives, CombinedLives, ReviseLives, WakeLives,
       CancelLives, ArchiveLives, AskingLives, AnsweringLives, OverrideLives,
       RebuildLives
    DEF Commands
  <1>2. CASE Environment \/ UNCHANGED vars
    BY <1>2, EnvironmentStep, Unnoticed DEF Still
  <1> QED
    BY <1>1, <1>2 DEF Next

LEMMA StartsAlive == Init => Lifecycle!Init
  <1> SUFFICES ASSUME Init PROVE Lifecycle!Init
    OBVIOUS
  <1>1. ActInv /\ ~Exists
    BY InitActivation DEF Init, Exists
  <1> QED
    BY <1>1, PhaseIs DEF Init, Lifecycle!Init, PhaseFacts

(* The commands implement the lifecycle a client relies on: no interleaving *)
(* of transitions, escalations, cancellations, archivals, overrides and     *)
(* rebuilds takes an instance along an edge the lifecycle does not have,    *)
(* and every edge moves the state version by what the lifecycle says.       *)
THEOREM InstancesLive == Spec => ImplementsLifecycle
  <1>1. ActInv /\ ActInv' /\ [Next]_vars =>
            [Lifecycle!Next]_(Lifecycle!lifecycle)
    BY StepsLive DEF Lives
  <1>2. Spec => Lifecycle!Spec
    BY <1>1, StartsAlive, InitActivation, NextActivation, PTL
    DEF Spec, Lifecycle!Spec
  <1> QED
    BY <1>2 DEF ImplementsLifecycle

-----------------------------------------------------------------------------
(* Counting the RETURNs of an edge.                                         *)

Returning(e) ==
    /\ e.type = "WORKFLOW_TRANSITION_COMMITTED"
    /\ Effect[e.edge] = "RETURN"

Takes(log, t) == {i \in DOMAIN log : Returning(log[i]) /\ log[i].edge = t}
Count(log, t) == Cardinality(Takes(log, t))

LEMMA CountIs == \A t : ReturnsTaken(t) = Count(events, t)
  <1>1. ASSUME NEW t
        PROVE  Takes(events, t) =
                  {i \in DOMAIN events :
                     /\ events[i].type = "WORKFLOW_TRANSITION_COMMITTED"
                     /\ events[i].edge = t
                     /\ Effect[t] = "RETURN"}
    BY DEF Takes, Returning
  <1> QED
    BY <1>1 DEF ReturnsTaken, Count

LEMMA CountIsNat ==
    ASSUME NEW log \in Seq(Event), NEW t
    PROVE  IsFiniteSet(Takes(log, t)) /\ Count(log, t) \in Nat
  <1>1. DOMAIN log = 1..Len(log) /\ Len(log) \in Nat
    OBVIOUS
  <1>2. IsFiniteSet(1..Len(log))
    BY <1>1, FS_Interval
  <1>3. Takes(log, t) \subseteq 1..Len(log)
    BY <1>1 DEF Takes
  <1> QED
    BY <1>2, <1>3, FS_Subset, FS_CardinalityType DEF Count

(* What was appended to give a log of events was an event. *)
LEMMA LastIsEvent ==
    ASSUME NEW log \in Seq(Event)
    PROVE  /\ \A e : Append(log, e) \in Seq(Event) => e \in Event
           /\ \A e, f : Append(Append(log, e), f) \in Seq(Event) =>
                       e \in Event /\ f \in Event
  <1>1. ASSUME NEW e, Append(log, e) \in Seq(Event) PROVE e \in Event
    <2>1. /\ Append(log, e)[Len(log) + 1] = e
          /\ Len(log) + 1 \in 1..Len(Append(log, e))
      OBVIOUS
    <2> QED
      BY <1>1, <2>1
  <1>2. ASSUME NEW e, NEW f, Append(Append(log, e), f) \in Seq(Event)
        PROVE  e \in Event /\ f \in Event
    <2> DEFINE both == Append(Append(log, e), f)
    <2>1. /\ both[Len(log) + 1] = e /\ both[Len(log) + 2] = f
          /\ Len(both) = Len(log) + 2 /\ Len(log) \in Nat
      OBVIOUS
    <2> QED
      BY <1>2, <2>1
  <1> QED
    BY <1>1, <1>2

(* One more event is one more RETURN of its own edge, if it is one.         *)
LEMMA CountGrows ==
    ASSUME NEW log \in Seq(Event), NEW e \in Event, NEW t
    PROVE  Count(Append(log, e), t) =
              IF Returning(e) /\ e.edge = t
              THEN Count(log, t) + 1 ELSE Count(log, t)
  <1> DEFINE n == Len(log)
             more == Append(log, e)
  <1>1. /\ DOMAIN log = 1..n /\ n \in Nat
        /\ DOMAIN more = 1..(n + 1)
        /\ \A i \in 1..n : more[i] = log[i]
        /\ more[n + 1] = e
    BY Appended
  <1> HIDE DEF n, more
  <1>2. IsFiniteSet(Takes(log, t))
    BY CountIsNat
  <1>3. CASE Returning(e) /\ e.edge = t
    <2>1. Takes(more, t) = Takes(log, t) \cup {n + 1}
      BY <1>1, <1>3 DEF Takes
    <2>2. n + 1 \notin Takes(log, t)
      BY <1>1 DEF Takes
    <2>3. Count(more, t) = Count(log, t) + 1
      BY <1>2, <2>1, <2>2, FS_AddElement DEF Count
    <2> QED
      BY <1>3, <2>3 DEF more
  <1>4. CASE ~(Returning(e) /\ e.edge = t)
    <2>1. Takes(more, t) = Takes(log, t)
      BY <1>1, <1>4 DEF Takes
    <2> QED
      BY <1>4, <2>1 DEF Count, more
  <1> QED
    BY <1>3, <1>4

-----------------------------------------------------------------------------
(* What a command records: the events it logs and the receipts it completes *)
(* with them.                                                               *)

LEMMA Writers ==
    /\ WriterOf["INSTANCE_CREATED"] = "CREATE_WORKFLOW_INSTANCE"
    /\ WriterOf["WORKFLOW_TRANSITION_COMMITTED"] = "EXECUTE_WORKFLOW_TRANSITION"
    /\ WriterOf["CONTEXT_REVISED"] = "REVISE_WORKFLOW_CONTEXT"
    /\ WriterOf["WORKFLOW_CONTEXT_REVISED_AND_TRANSITION_COMMITTED"] =
           "REVISE_CONTEXT_AND_TRANSITION"
    /\ WriterOf["WORKFLOW_INSTANCE_CANCELLED"] = "CANCEL_WORKFLOW_INSTANCE"
    /\ WriterOf["WORKFLOW_INSTANCE_ARCHIVED"] = "ARCHIVE_WORKFLOW_INSTANCE"
    /\ WriterOf["ASSISTANCE_REQUESTED"] = "REQUEST_WORKFLOW_ASSISTANCE"
    /\ WriterOf["ASSISTANCE_ESCALATED_TO_HUMAN"] =
           "ESCALATE_WORKFLOW_ASSISTANCE_TO_HUMAN"
    /\ WriterOf["ASSISTANCE_RESOLVED"] = "RESOLVE_WORKFLOW_ASSISTANCE"
    /\ WriterOf["WAKE_DISPATCH_INTENT"] = "WAKE_DISPATCH_INTENT"
    /\ WriterOf["ADMIN_EMERGENCY_OVERRIDE_COMMITTED"] = "ADMIN_EMERGENCY_OVERRIDE"
  BY DEF WriterOf

NoRecord ==
    /\ UNCHANGED events
    /\ UNCHANGED receipts \/ \E r : receipts' = Append(receipts, r)

OneRecord(e, r) ==
    /\ events' = Append(events, e)
    /\ receipts' = Append(receipts, r) /\ e.receipt = Len(receipts) + 1
    /\ \/ r.command = WriterOf[e.type] /\ r.version = version + 1
       \/ r.command = "REPAIR_WORKFLOW_CONTEXT" /\ e.type = "CONTEXT_REVISED"
    /\ Returning(e) =>
          /\ e.edge \in Transitions
          /\ ReturnsTaken(e.edge) < MaxReturnsPerEdge
          /\ ReturnsTaken(e.edge) + 1 # MaxReturnsPerEdge

(* A policy escalation answers two receipts, its event is the second's.     *)
PolicyRecord(e, r, q) ==
    /\ events' = Append(events, e) /\ e.type = "ASSISTANCE_REQUESTED"
    /\ receipts' = Append(Append(receipts, r), q)
    /\ e.receipt = Len(receipts) + 2
    /\ q.command = WriterOf[e.type] /\ q.version = version + 1

(* The RETURN that exhausts its edge. *)
LimitRecord(e, f, r, q) ==
    /\ events' = Append(Append(events, e), f)
    /\ receipts' = Append(Append(receipts, r), q)
    /\ e.receipt = Len(receipts) + 1 /\ f.receipt = Len(receipts) + 2
    /\ r.command = WriterOf[e.type] /\ r.version = version + 2
    /\ q.command = WriterOf[f.type] /\ q.version = version + 2
    /\ Returning(e) /\ f.type = "ASSISTANCE_REQUESTED" /\ f.target = e.target
    /\ e.edge \in Transitions
    /\ ReturnsTaken(e.edge) + 1 = MaxReturnsPerEdge

Records ==
    \/ NoRecord
    \/ \E e, r : OneRecord(e, r)
    \/ \E e, r, q : PolicyRecord(e, r, q)
    \/ \E e, f, r, q : LimitRecord(e, f, r, q)

LEMMA RefuseRecords == ASSUME Refuse PROVE Records
  BY DEF Refuse, facts, Records, NoRecord

(* A command that logs one event, not a transition, under its own receipt. *)
LEMMA LoggedRecords ==
    ASSUME NEW type, NEW s, NEW t, NEW ctx, NEW edge, NEW case, NEW c, NEW v,
           type # "WORKFLOW_TRANSITION_COMMITTED",
           \/ c = WriterOf[type] /\ v = version + 1
           \/ c = "REPAIR_WORKFLOW_CONTEXT" /\ type = "CONTEXT_REVISED",
           events' = Logged(type, s, t, ctx, edge, case),
           receipts' = Answered(c, v)
    PROVE  Records
  <1> DEFINE e == EventRow(type, version + 1, s, t, ctx, edge, case,
                           Len(receipts) + 1)
             r == [command |-> c, version |-> v]
  <1>1. OneRecord(e, r)
    BY DEF OneRecord, Logged, Answered, EventRow, Returning
  <1> QED
    BY <1>1 DEF Records

LEMMA TransitionRecords ==
    ASSUME LogInv, NEW t \in Transitions, NEW kind, NEW x, NEW ok,
           ExecuteTransition(t, x, kind, ok)
    PROVE  Records
  <1>1. CASE Refuse
    BY <1>1, RefuseRecords
  <1>2. CASE ~Refuse
    <2> DEFINE a == ActivationFor(Target[t], kind)
               e == EventRow("WORKFLOW_TRANSITION_COMMITTED", version + 1,
                             visit, NextVisit, context, t, 0, Len(receipts) + 1)
    <2>1. /\ CommitTransition(t, a) \/ CommitLimitReturn(t, a)
          /\ Effect[t] = "RETURN" => ~(ReturnsTaken(t) >= MaxReturnsPerEdge)
      BY <1>2 DEF ExecuteTransition, TransitionRefused
    <2>2. TransitionLogged(t) = Append(events, e)
      BY DEF TransitionLogged, Logged
    <2>3. /\ e.type = "WORKFLOW_TRANSITION_COMMITTED"
          /\ e.edge = t /\ e.target = NextVisit /\ e.receipt = Len(receipts) + 1
          /\ Returning(e) <=> Effect[t] = "RETURN"
      BY DEF EventRow, Returning
    <2> HIDE DEF a, e
    <2>4. CASE CommitTransition(t, a)
      <3> DEFINE r == [command |-> "EXECUTE_WORKFLOW_TRANSITION",
                       version |-> version + 1]
      <3>1. /\ events' = Append(events, e) /\ receipts' = Append(receipts, r)
            /\ ~ReachesLimit(t)
        BY <2>2, <2>4 DEF CommitTransition, Answered
      <3>2. r.command = WriterOf[e.type] /\ r.version = version + 1
        BY <2>3, Writers
      <3> HIDE DEF r
      <3>3. Effect[t] = "RETURN" =>
               /\ ReturnsTaken(t) < MaxReturnsPerEdge
               /\ ReturnsTaken(t) + 1 # MaxReturnsPerEdge
        <4>1. ReturnsTaken(t) \in Nat /\ MaxReturnsPerEdge \in Nat
          BY CountIs, CountIsNat, DefinitionAssumption DEF LogInv, IInv, TypeOK
        <4> QED
          BY <2>1, <3>1, <4>1 DEF ReachesLimit
      <3>4. OneRecord(e, r)
        BY <2>3, <3>1, <3>2, <3>3 DEF OneRecord
      <3> QED
        BY <3>4 DEF Records
    <2>5. CASE CommitLimitReturn(t, a)
      <3> DEFINE f == EventRow("ASSISTANCE_REQUESTED", version + 2, NextVisit,
                               NextVisit, context, NoTransition, NextCase,
                               Len(receipts) + 2)
                 r == [command |-> "EXECUTE_WORKFLOW_TRANSITION",
                       version |-> version + 2]
                 q == [command |-> "REQUEST_WORKFLOW_ASSISTANCE",
                       version |-> version + 2]
      <3>1. /\ events' = Append(Append(events, e), f)
            /\ receipts' = Append(Append(receipts, r), q)
            /\ ReachesLimit(t)
        BY <2>2, <2>5 DEF CommitLimitReturn, Answered
      <3>2. /\ f.type = "ASSISTANCE_REQUESTED" /\ f.target = NextVisit
            /\ f.receipt = Len(receipts) + 2
        BY DEF EventRow
      <3>3. /\ r.command = WriterOf[e.type] /\ r.version = version + 2
            /\ q.command = WriterOf[f.type] /\ q.version = version + 2
        BY <2>3, <3>2, Writers
      <3> HIDE DEF f, r, q
      <3>4. LimitRecord(e, f, r, q)
        BY <2>3, <3>1, <3>2, <3>3 DEF LimitRecord, ReachesLimit
      <3> QED
        BY <3>4 DEF Records
    <2> QED
      BY <2>1, <2>4, <2>5
  <1> QED
    BY <1>1, <1>2

LEMMA PolicyRecords ==
    ASSUME NEW v, NEW ok, SystemExecutionEscalation(v, ok)
    PROVE  Records
  <1>1. CASE Refuse
    BY <1>1, RefuseRecords
  <1>2. CASE OpenByPolicy
    <2> DEFINE e == EventRow("ASSISTANCE_REQUESTED", version + 1, visit, visit,
                             context, NoTransition, NextCase, Len(receipts) + 2)
               r == [command |-> "SYSTEM_EXECUTION_ESCALATION",
                     version |-> version + 1]
               q == [command |-> "REQUEST_WORKFLOW_ASSISTANCE",
                     version |-> version + 1]
    <2>1. /\ events' = Append(events, e)
          /\ receipts' = Append(Append(receipts, r), q)
      BY <1>2 DEF OpenByPolicy, Answered
    <2>2. e.type = "ASSISTANCE_REQUESTED" /\ e.receipt = Len(receipts) + 2
      BY DEF EventRow
    <2>3. q.command = WriterOf[e.type] /\ q.version = version + 1
      BY <2>2, Writers
    <2> HIDE DEF e, r, q
    <2>4. PolicyRecord(e, r, q)
      BY <2>1, <2>2, <2>3 DEF PolicyRecord
    <2> QED
      BY <2>4 DEF Records
  <1>3. CASE FindAlreadyOpen
    BY <1>3 DEF FindAlreadyOpen, Answered, Records, NoRecord
  <1> QED
    BY <1>1, <1>2, <1>3 DEF SystemExecutionEscalation

LEMMA EveryRecord ==
    ASSUME LogInv, [Next]_vars
    PROVE  Records
  <1>1. ASSUME NEW kind, NEW ok, CreateInstance(kind, ok) PROVE Records
    BY <1>1, RefuseRecords, LoggedRecords, Writers
    DEF CreateInstance, Exists, LogInv, IInv, TypeOK
  <1>2. ASSUME NEW x, NEW ok, ReviseContext(x, ok) PROVE Records
    BY <1>2, RefuseRecords, LoggedRecords, Writers DEF ReviseContext
  <1>3. ASSUME RepairContext PROVE Records
    BY <1>3, LoggedRecords, Writers DEF RepairContext
  <1>4. ASSUME NEW t, NEW x, NEW ok, ReviseContextAndTransition(t, x, ok)
        PROVE  Records
    BY <1>4, RefuseRecords, LoggedRecords, Writers DEF ReviseContextAndTransition
  <1>5. ASSUME NEW x, NEW ok, CancelInstance(x, ok) PROVE Records
    BY <1>5, RefuseRecords, LoggedRecords, Writers DEF CancelInstance
  <1>6. ASSUME NEW x, NEW ok, ArchiveInstance(x, ok) PROVE Records
    BY <1>6, RefuseRecords, LoggedRecords, Writers DEF ArchiveInstance
  <1>7. ASSUME NEW v, NEW x, NEW ok, RequestAssistance(v, x, ok) PROVE Records
    BY <1>7, RefuseRecords, LoggedRecords, Writers DEF RequestAssistance
  <1>8. ASSUME NEW c, NEW x, NEW ok, EscalateAssistance(c, x, ok) PROVE Records
    BY <1>8, RefuseRecords, LoggedRecords, Writers
    DEF EscalateAssistance, OwnerAction
  <1>9. ASSUME NEW c, NEW x, NEW ok, ResolveAssistance(c, x, ok) PROVE Records
    BY <1>9, RefuseRecords, LoggedRecords, Writers
    DEF ResolveAssistance, OwnerAction
  <1>10. ASSUME NEW v, NEW x, WakeDispatchIntent(v, x) PROVE Records
    <2>1. CASE WakeHasNothingToDo(v, x)
      BY <1>10, <2>1 DEF WakeDispatchIntent, Answered, Records, NoRecord
    <2>2. CASE ~WakeHasNothingToDo(v, x)
      BY <1>10, <2>2, LoggedRecords, Writers DEF WakeDispatchIntent
    <2> QED
      BY <2>1, <2>2
  <1>11. ASSUME NEW n, NEW x, NEW ok, AdminEmergencyOverride(n, x, ok)
         PROVE  Records
    BY <1>11, RefuseRecords, LoggedRecords, Writers DEF AdminEmergencyOverride
  <1>12. ASSUME NEW ok, RebuildProjection(ok) PROVE Records
    BY <1>12, RefuseRecords DEF RebuildProjection, Answered, Records, NoRecord
  <1>13. CASE Environment \/ UNCHANGED vars
    BY <1>13, EnvironmentStep DEF Still, Records, NoRecord
  <1> QED
    BY <1>1, <1>2, <1>3, <1>4, <1>5, <1>6, <1>7, <1>8, <1>9, <1>10, <1>11,
       <1>12, <1>13, TransitionRecords, PolicyRecords
    DEF Next, Commands

-----------------------------------------------------------------------------
(* The RETURN budget of an edge, of a log.                                  *)

EscalatedIn(log, t) ==
    \E i \in DOMAIN log :
        /\ log[i].edge = t
        /\ i + 1 \in DOMAIN log
        /\ log[i + 1].type = "ASSISTANCE_REQUESTED"
        /\ log[i + 1].target = log[i].target

Budget(log, t) ==
    /\ Effect[t] = "RETURN" => Count(log, t) <= MaxReturnsPerEdge
    /\ Count(log, t) = MaxReturnsPerEdge => EscalatedIn(log, t)

BudgetInv == LogInv /\ \A t \in Transitions : Budget(events, t)

LEMMA BudgetInvIsProperty == BudgetInv => ExhaustedEdgeEscalated
  BY CountIs DEF BudgetInv, Budget, EscalatedIn, ExhaustedEdgeEscalated

LEMMA EscalatedStays ==
    ASSUME NEW log \in Seq(Event), NEW e \in Event, NEW t, EscalatedIn(log, t)
    PROVE  EscalatedIn(Append(log, e), t)
  <1> DEFINE n == Len(log)
             more == Append(log, e)
  <1>1. /\ DOMAIN log = 1..n /\ n \in Nat
        /\ DOMAIN more = 1..(n + 1)
        /\ \A i \in 1..n : more[i] = log[i]
    BY Appended
  <1> HIDE DEF n, more
  <1>2. EscalatedIn(more, t)
    BY <1>1 DEF EscalatedIn
  <1> QED
    BY <1>2 DEF more

(* An event keeps the budget of every edge it does not return along, and of *)
(* its own while it stays below the limit.                                  *)
LEMMA BudgetStays ==
    ASSUME NEW log \in Seq(Event), NEW e \in Event, NEW t, Budget(log, t),
           Returning(e) /\ e.edge = t =>
              /\ Count(log, t) < MaxReturnsPerEdge
              /\ Count(log, t) + 1 # MaxReturnsPerEdge
    PROVE  Budget(Append(log, e), t)
  <1>1. Count(log, t) \in Nat /\ MaxReturnsPerEdge \in Nat
    BY CountIsNat, DefinitionAssumption
  <1>2. CASE Returning(e) /\ e.edge = t
    BY <1>1, <1>2, CountGrows DEF Budget
  <1>3. CASE ~(Returning(e) /\ e.edge = t)
    BY <1>1, <1>3, CountGrows, EscalatedStays DEF Budget
  <1> QED
    BY <1>2, <1>3

(* The two events of the RETURN that reaches the limit.                     *)
LEMMA LimitBudget ==
    ASSUME NEW log \in Seq(Event), NEW e \in Event, NEW f \in Event,
           NEW t, Budget(log, t), Returning(e),
           f.type = "ASSISTANCE_REQUESTED", f.target = e.target,
           Count(log, e.edge) + 1 = MaxReturnsPerEdge
    PROVE  Budget(Append(Append(log, e), f), t)
  <1> DEFINE n == Len(log)
             mid == Append(log, e)
             more == Append(mid, f)
  <1>1. /\ mid \in Seq(Event) /\ Len(mid) = n + 1 /\ n \in Nat
        /\ mid[n + 1] = e
    BY Appended
  <1>2. /\ DOMAIN more = 1..(n + 2)
        /\ more[n + 1] = e /\ more[n + 2] = f
    <2> HIDE DEF mid, n
    <2> QED
      BY <1>1, Appended
  <1>3. ~Returning(f)
    BY DEF Returning
  <1>4. CASE e.edge = t
    <2>1. Count(mid, t) = MaxReturnsPerEdge
      BY <1>4, CountGrows
    <2> HIDE DEF mid, n
    <2>2. Count(more, t) = MaxReturnsPerEdge
      BY <1>1, <1>3, <2>1, CountGrows
    <2> HIDE DEF more
    <2>3. EscalatedIn(more, t)
      <3>1. n + 1 \in DOMAIN more /\ (n + 1) + 1 \in DOMAIN more
            /\ (n + 1) + 1 = n + 2
        BY <1>1, <1>2
      <3> QED
        BY <1>2, <1>4, <3>1 DEF EscalatedIn
    <2>4. Budget(more, t)
      BY <2>2, <2>3, DefinitionAssumption DEF Budget
    <2> QED
      BY <2>4 DEF more, mid
  <1>5. CASE e.edge # t
    <2>1. Budget(mid, t)
      BY <1>5, BudgetStays
    <2> HIDE DEF mid
    <2>2. Budget(more, t)
      BY <1>1, <1>3, <2>1, BudgetStays
    <2> QED
      BY <2>2 DEF mid
  <1> QED
    BY <1>4, <1>5

LEMMA InitBudget == Init => BudgetInv
  <1> SUFFICES ASSUME Init PROVE BudgetInv
    OBVIOUS
  <1>1. \A t : Count(events, t) = 0
    <2>1. \A t : Takes(events, t) = {}
      BY DEF Init, Takes
    <2> QED
      BY <2>1, FS_EmptySet DEF Count
  <1> QED
    BY <1>1, InitLog, DefinitionAssumption DEF BudgetInv, Budget

LEMMA NextBudget == BudgetInv /\ [Next]_vars => BudgetInv'
  <1> SUFFICES ASSUME BudgetInv, [Next]_vars PROVE BudgetInv'
    OBVIOUS
  <1>1. LogInv /\ LogInv' /\ Records
    BY NextLog, EveryRecord DEF BudgetInv
  <1>2. events \in Seq(Event) /\ events' \in Seq(Event)
    BY <1>1 DEF LogInv, IInv, TypeOK
  <1>3. ASSUME NEW t \in Transitions PROVE Budget(events', t)
    <2>1. Budget(events, t)
      BY DEF BudgetInv
    <2>2. CASE UNCHANGED events
      BY <2>1, <2>2
    <2>3. ASSUME NEW e, events' = Append(events, e),
                 Returning(e) => /\ ReturnsTaken(e.edge) < MaxReturnsPerEdge
                                 /\ ReturnsTaken(e.edge) + 1 # MaxReturnsPerEdge
          PROVE  Budget(events', t)
      <3>1. e \in Event
        BY <1>2, <2>3, LastIsEvent
      <3> QED
        BY <1>2, <2>1, <2>3, <3>1, BudgetStays, CountIs
    <2>4. ASSUME NEW e, NEW f, NEW r, NEW q, LimitRecord(e, f, r, q)
          PROVE  Budget(events', t)
      <3>1. events' = Append(Append(events, e), f)
        BY <2>4 DEF LimitRecord
      <3>2. e \in Event /\ f \in Event
        BY <1>2, <3>1, LastIsEvent
      <3>3. /\ Returning(e)
            /\ f.type = "ASSISTANCE_REQUESTED" /\ f.target = e.target
            /\ Count(events, e.edge) + 1 = MaxReturnsPerEdge
        BY <2>4, CountIs DEF LimitRecord
      <3> QED
        BY <1>2, <2>1, <3>1, <3>2, <3>3, LimitBudget
    <2>5. ASSUME NEW e, NEW r, OneRecord(e, r) PROVE Budget(events', t)
      BY <2>3, <2>5 DEF OneRecord
    <2>6. ASSUME NEW e, NEW r, NEW q, PolicyRecord(e, r, q)
          PROVE  Budget(events', t)
      BY <2>3, <2>6 DEF PolicyRecord, Returning
    <2> QED
      BY <1>1, <2>2, <2>4, <2>5, <2>6 DEF Records, NoRecord
  <1> QED
    BY <1>1, <1>3 DEF BudgetInv

(* For every definition graph and budget: no RETURN edge is taken more      *)
(* often than its budget allows, and the one that uses the budget up is     *)
(* escalated to the owner on the visit it entered, by the very next event   *)
(* of the log.                                                              *)
THEOREM EdgesExhausted == Spec => []ExhaustedEdgeEscalated
  BY InitBudget, NextBudget, BudgetInvIsProperty, PTL DEF Spec

-----------------------------------------------------------------------------
(* Events and the receipts of the commands that logged them.                *)

OwnReceipt(i) ==
    LET r == events[i].receipt IN
    /\ r \in DOMAIN receipts
    /\ \/ receipts[r].command = WriterOf[events[i].type]
       \/ /\ receipts[r].command = "REPAIR_WORKFLOW_CONTEXT"
          /\ events[i].type = "CONTEXT_REVISED"
    /\ \/ receipts[r].version = i
       \/ receipts[r].command = "REPAIR_WORKFLOW_CONTEXT"
       \/ /\ receipts[r].version = i + 1
          /\ Effect[events[i].edge] = "RETURN"
          /\ i + 1 \in DOMAIN events
          /\ events[i + 1].type = "ASSISTANCE_REQUESTED"

RecordInv ==
    /\ LogInv
    /\ \A i \in DOMAIN events : OwnReceipt(i)
    /\ \A i, j \in DOMAIN events :
          events[i].receipt = events[j].receipt => i = j

LEMMA RecordInvIsProperty == RecordInv => EventsOwnReceipts
  BY DEF RecordInv, OwnReceipt, EventsOwnReceipts

(* The log and the receipts only grow. *)
Grows ==
    /\ \A i \in DOMAIN events : i \in DOMAIN events' /\ events'[i] = events[i]
    /\ \A r \in DOMAIN receipts :
          r \in DOMAIN receipts' /\ receipts'[r] = receipts[r]

(* What is new in the log has a receipt that is new, one each. *)
LEMMA RecordsKept ==
    ASSUME RecordInv, LogInv', Grows,
           \A i \in DOMAIN events' \ DOMAIN events :
              /\ OwnReceipt(i)'
              /\ events'[i].receipt \notin DOMAIN receipts
              /\ \A j \in DOMAIN events' \ DOMAIN events :
                    events'[i].receipt = events'[j].receipt => i = j
    PROVE  RecordInv'
  <1>1. ASSUME NEW i \in DOMAIN events' PROVE OwnReceipt(i)'
    <2>1. CASE i \in DOMAIN events
      <3>1. OwnReceipt(i) /\ events'[i] = events[i]
        BY <2>1 DEF RecordInv, Grows
      <3>2. events[i].receipt \in DOMAIN receipts
        BY <3>1 DEF OwnReceipt
      <3>3. /\ events[i].receipt \in DOMAIN receipts'
            /\ receipts'[events[i].receipt] = receipts[events[i].receipt]
            /\ i + 1 \in DOMAIN events =>
                  i + 1 \in DOMAIN events' /\ events'[i + 1] = events[i + 1]
        BY <3>2 DEF Grows
      <3> QED
        BY <3>1, <3>3 DEF OwnReceipt
    <2>2. CASE i \notin DOMAIN events
      BY <1>1, <2>2
    <2> QED
      BY <2>1, <2>2
  <1>2. ASSUME NEW i \in DOMAIN events', NEW j \in DOMAIN events',
               events'[i].receipt = events'[j].receipt
        PROVE  i = j
    <2>1. \A k \in DOMAIN events :
             events'[k] = events[k] /\ events'[k].receipt \in DOMAIN receipts
      BY DEF RecordInv, Grows, OwnReceipt
    <2>2. CASE i \in DOMAIN events /\ j \in DOMAIN events
      BY <1>2, <2>1, <2>2 DEF RecordInv
    <2>3. CASE i \notin DOMAIN events /\ j \notin DOMAIN events
      BY <1>2, <2>3
    <2> QED
      BY <1>2, <2>1, <2>2, <2>3
  <1> QED
    BY <1>1, <1>2 DEF RecordInv

LEMMA InitRecord == Init => RecordInv
  BY InitLog DEF Init, RecordInv

LEMMA NextRecord == RecordInv /\ [Next]_vars => RecordInv'
  <1> SUFFICES ASSUME RecordInv, [Next]_vars PROVE RecordInv'
    OBVIOUS
  <1>1. LogInv /\ LogInv' /\ Records
    BY NextLog, EveryRecord DEF RecordInv
  <1>2. PICK n \in Nat, m \in Nat :
        /\ n = Len(events) /\ m = Len(receipts) /\ version = n
        /\ events \in Seq(Event) /\ receipts \in Seq(Receipt)
        /\ DOMAIN events = 1..n /\ DOMAIN receipts = 1..m
    <2>1. /\ Len(events) \in Nat /\ Len(receipts) \in Nat
          /\ version = Len(events)
          /\ events \in Seq(Event) /\ receipts \in Seq(Receipt)
          /\ DOMAIN events = 1..Len(events)
          /\ DOMAIN receipts = 1..Len(receipts)
      BY <1>1 DEF LogInv, IInv, TypeOK, Traced
    <2> QED
      BY <2>1
  <1>3. CASE NoRecord
    <2>1. Grows /\ UNCHANGED events
      BY <1>2, <1>3 DEF NoRecord, Grows
    <2> QED
      BY <1>1, <2>1, RecordsKept
  <1>4. ASSUME NEW e, NEW r, OneRecord(e, r) PROVE RecordInv'
    <2>1. /\ DOMAIN events' = 1..(n + 1) /\ events'[n + 1] = e
          /\ \A i \in 1..n : events'[i] = events[i]
          /\ DOMAIN receipts' = 1..(m + 1) /\ receipts'[m + 1] = r
          /\ \A i \in 1..m : receipts'[i] = receipts[i]
      BY <1>2, <1>4 DEF OneRecord
    <2>2. /\ e.receipt = m + 1
          /\ \/ r.command = WriterOf[e.type] /\ r.version = n + 1
             \/ r.command = "REPAIR_WORKFLOW_CONTEXT" /\ e.type = "CONTEXT_REVISED"
      BY <1>2, <1>4 DEF OneRecord
    <2>3. Grows
      BY <1>2, <2>1 DEF Grows
    <2>4. OwnReceipt(n + 1)'
      BY <1>2, <2>1, <2>2 DEF OwnReceipt
    <2>5. \A i \in DOMAIN events' \ DOMAIN events : i = n + 1
      BY <1>2, <2>1
    <2> QED
      BY <1>1, <1>2, <2>1, <2>2, <2>3, <2>4, <2>5, RecordsKept
  <1>5. ASSUME NEW e, NEW r, NEW q, PolicyRecord(e, r, q) PROVE RecordInv'
    <2>1. /\ DOMAIN events' = 1..(n + 1) /\ events'[n + 1] = e
          /\ \A i \in 1..n : events'[i] = events[i]
          /\ DOMAIN receipts' = 1..(m + 2) /\ receipts'[m + 2] = q
          /\ \A i \in 1..m : receipts'[i] = receipts[i]
      BY <1>2, <1>5 DEF PolicyRecord
    <2>2. /\ e.receipt = m + 2
          /\ q.command = WriterOf[e.type] /\ q.version = n + 1
      BY <1>2, <1>5 DEF PolicyRecord
    <2>3. Grows
      BY <1>2, <2>1 DEF Grows
    <2>4. OwnReceipt(n + 1)'
      BY <1>2, <2>1, <2>2 DEF OwnReceipt
    <2>5. \A i \in DOMAIN events' \ DOMAIN events : i = n + 1
      BY <1>2, <2>1
    <2> QED
      BY <1>1, <1>2, <2>1, <2>2, <2>3, <2>4, <2>5, RecordsKept
  <1>6. ASSUME NEW e, NEW f, NEW r, NEW q, LimitRecord(e, f, r, q)
        PROVE  RecordInv'
    <2>1. /\ DOMAIN events' = 1..(n + 2)
          /\ events'[n + 1] = e /\ events'[n + 2] = f
          /\ \A i \in 1..n : events'[i] = events[i]
          /\ DOMAIN receipts' = 1..(m + 2)
          /\ receipts'[m + 1] = r /\ receipts'[m + 2] = q
          /\ \A i \in 1..m : receipts'[i] = receipts[i]
      BY <1>2, <1>6 DEF LimitRecord
    <2>2. /\ e.receipt = m + 1 /\ f.receipt = m + 2
          /\ r.command = WriterOf[e.type] /\ r.version = n + 2
          /\ q.command = WriterOf[f.type] /\ q.version = n + 2
          /\ Effect[e.edge] = "RETURN" /\ f.type = "ASSISTANCE_REQUESTED"
      BY <1>2, <1>6 DEF LimitRecord, Returning
    <2>3. Grows
      BY <1>2, <2>1 DEF Grows
    <2>4. OwnReceipt(n + 1)' /\ OwnReceipt(n + 2)'
      BY <1>2, <2>1, <2>2 DEF OwnReceipt
    <2>5. \A i \in DOMAIN events' \ DOMAIN events : i \in {n + 1, n + 2}
      BY <1>2, <2>1
    <2> QED
      BY <1>1, <1>2, <2>1, <2>2, <2>3, <2>4, <2>5, RecordsKept
  <1> QED
    BY <1>1, <1>3, <1>4, <1>5, <1>6 DEF Records

(* Every event was written by one command, under a receipt of its own that  *)
(* names that command and the version its transaction ended at: no receipt  *)
(* is shared by two events and no event lost its command, the synthetic     *)
(* receipts of an escalation included.                                      *)
THEOREM EventsReceipted == Spec => []EventsOwnReceipts
  BY InitRecord, NextRecord, RecordInvIsProperty, PTL DEF Spec

-----------------------------------------------------------------------------
(* The outbox.  Which rows a command adds, by what they are about.          *)

QueueInv ==
    /\ LogInv
    /\ \A id : Row("EXECUTION_KICK", "kick", id) \in outbox <=>
                  /\ id \in DOMAIN visits
                  /\ activations[id].kind = "DISPATCH_INTENT"
                  /\ Business \/ id > 1
    /\ Business =>
          /\ \A c \in DOMAIN cases :
                Row("OWNER_ASSISTANCE_WAKE", "owner-assistance", c) \in outbox
          /\ \A id : Row("FORUM_EVENT", "transition_committed", id) \in outbox <=>
                        /\ id \in DOMAIN events
                        /\ events[id].type = "WORKFLOW_TRANSITION_COMMITTED"
          /\ cancelled <=> Row("FORUM_EVENT", "workflow_cancelled", 0) \in outbox
          /\ archived <=> Row("FORUM_EVENT", "workflow_archived", 0) \in outbox
    /\ ~Business => \A queued \in outbox : queued.kind = "EXECUTION_KICK"

LEMMA QueueInvIsProperty == QueueInv => OutboxFollowsFacts
  <1> SUFFICES ASSUME QueueInv PROVE OutboxFollowsFacts
    OBVIOUS
  <1>1. DOMAIN events = 1..version
    BY DEF QueueInv, LogInv, IInv, TypeOK, Traced
  <1> QED
    BY <1>1 DEF QueueInv, OutboxFollowsFacts

(* The rows of the helpers. *)
LEMMA RowsOf ==
    /\ \A k, e, i, k2, e2, i2 :
          Row(k, e, i) = Row(k2, e2, i2) <=> k = k2 /\ e = e2 /\ i = i2
    /\ \A k, e, i : Row(k, e, i).kind = k
  BY DEF Row

LEMMA ForumRows ==
    ASSUME NEW event, NEW about
    PROVE  /\ \A k, e, i : Row(k, e, i) \in Forum(event, about) <=>
                 Business /\ k = "FORUM_EVENT" /\ e = event /\ i = about
           /\ ~Business => Forum(event, about) = {}
  <1> HIDE DEF Row
  <1>1. CASE Business
    BY <1>1, RowsOf DEF Forum
  <1>2. CASE ~Business
    BY <1>2 DEF Forum
  <1> QED
    BY <1>1, <1>2

LEMMA WakeRows ==
    ASSUME NEW c
    PROVE  /\ \A k, e, i : Row(k, e, i) \in OwnerWake(c) <=>
                 /\ Business /\ k = "OWNER_ASSISTANCE_WAKE"
                 /\ e = "owner-assistance" /\ i = c
           /\ ~Business => OwnerWake(c) = {}
  <1>1. CASE Business
    BY <1>1, RowsOf DEF OwnerWake
  <1>2. CASE ~Business
    BY <1>2 DEF OwnerWake
  <1> QED
    BY <1>1, <1>2

LEMMA KickRows ==
    ASSUME NEW v, NEW a
    PROVE  /\ \A k, e, i : Row(k, e, i) \in KickFor(v, a) <=>
                 /\ a.kind = "DISPATCH_INTENT"
                 /\ k = "EXECUTION_KICK" /\ e = "kick" /\ i = v
           /\ \A queued \in KickFor(v, a) : queued.kind = "EXECUTION_KICK"
  <1>1. CASE a.kind = "DISPATCH_INTENT"
    BY <1>1, RowsOf DEF KickFor
  <1>2. CASE a.kind # "DISPATCH_INTENT"
    BY <1>2 DEF KickFor
  <1> QED
    BY <1>1, <1>2

LEMMA CompletionRows ==
    ASSUME NEW n
    PROVE  /\ \A k, e, i : Row(k, e, i) \in Completion(n) =>
                 k = "FORUM_EVENT" /\ e = "workflow_completed"
           /\ ~Business => Completion(n) = {}
  <1>1. CASE NodeType[n] = "TERMINAL"
    BY <1>1, ForumRows DEF Completion
  <1>2. CASE NodeType[n] # "TERMINAL"
    BY <1>2 DEF Completion
  <1> QED
    BY <1>1, <1>2

-----------------------------------------------------------------------------
(* A step that queues `new`, by what it does to visits, events, cases and   *)
(* the end of the instance.                                                 *)

KicksVisits(new) ==
    /\ \A v \in DOMAIN visits :
          /\ v \in DOMAIN visits'
          /\ activations'[v].kind = activations[v].kind
    /\ \A id : Row("EXECUTION_KICK", "kick", id) \in new <=>
          /\ id \in DOMAIN visits' /\ id \notin DOMAIN visits
          /\ activations'[id].kind = "DISPATCH_INTENT"
          /\ Business \/ id > 1

TellsEvents(new) ==
    /\ \A i \in DOMAIN events : i \in DOMAIN events' /\ events'[i] = events[i]
    /\ Business =>
          \A id : Row("FORUM_EVENT", "transition_committed", id) \in new <=>
             /\ id \in DOMAIN events' /\ id \notin DOMAIN events
             /\ events'[id].type = "WORKFLOW_TRANSITION_COMMITTED"

WakesOwner(new) ==
    Business => \A c \in DOMAIN cases' : c \notin DOMAIN cases =>
       Row("OWNER_ASSISTANCE_WAKE", "owner-assistance", c) \in new

TellsEnds(new) ==
    Business =>
      /\ cancelled' <=>
            cancelled \/ Row("FORUM_EVENT", "workflow_cancelled", 0) \in new
      /\ archived' <=>
            archived \/ Row("FORUM_EVENT", "workflow_archived", 0) \in new

Tells(new) ==
    /\ outbox' = outbox \cup new
    /\ KicksVisits(new) /\ TellsEvents(new) /\ WakesOwner(new) /\ TellsEnds(new)
    /\ ~Business => \A queued \in new : queued.kind = "EXECUTION_KICK"

LEMMA TellingKeeps ==
    ASSUME QueueInv, LogInv', NEW new, Tells(new)
    PROVE  QueueInv'
  <1> USE DEF Tells
  <1>1. \A id : Row("EXECUTION_KICK", "kick", id) \in outbox' <=>
                  /\ id \in DOMAIN visits'
                  /\ activations'[id].kind = "DISPATCH_INTENT"
                  /\ Business \/ id > 1
    <2> SUFFICES ASSUME NEW id
                 PROVE  Row("EXECUTION_KICK", "kick", id) \in outbox' <=>
                          /\ id \in DOMAIN visits'
                          /\ activations'[id].kind = "DISPATCH_INTENT"
                          /\ Business \/ id > 1
      OBVIOUS
    <2>1. CASE id \in DOMAIN visits
      BY <2>1 DEF QueueInv, KicksVisits
    <2>2. CASE id \notin DOMAIN visits
      BY <2>2 DEF QueueInv, KicksVisits
    <2> QED
      BY <2>1, <2>2
  <1>2. ASSUME Business
        PROVE  \A c \in DOMAIN cases' :
                  Row("OWNER_ASSISTANCE_WAKE", "owner-assistance", c) \in outbox'
    BY <1>2 DEF QueueInv, WakesOwner
  <1>3. ASSUME Business
        PROVE  \A id : Row("FORUM_EVENT", "transition_committed", id) \in outbox' <=>
                        /\ id \in DOMAIN events'
                        /\ events'[id].type = "WORKFLOW_TRANSITION_COMMITTED"
    <2> SUFFICES ASSUME NEW id
                 PROVE  Row("FORUM_EVENT", "transition_committed", id) \in outbox' <=>
                          /\ id \in DOMAIN events'
                          /\ events'[id].type = "WORKFLOW_TRANSITION_COMMITTED"
      OBVIOUS
    <2>1. CASE id \in DOMAIN events
      BY <1>3, <2>1 DEF QueueInv, TellsEvents
    <2>2. CASE id \notin DOMAIN events
      BY <1>3, <2>2 DEF QueueInv, TellsEvents
    <2> QED
      BY <2>1, <2>2
  <1>4. ASSUME Business
        PROVE  /\ cancelled' <=>
                    Row("FORUM_EVENT", "workflow_cancelled", 0) \in outbox'
               /\ archived' <=>
                    Row("FORUM_EVENT", "workflow_archived", 0) \in outbox'
    BY <1>4 DEF QueueInv, TellsEnds
  <1>5. ~Business => \A queued \in outbox' : queued.kind = "EXECUTION_KICK"
    BY DEF QueueInv
  <1> QED
    BY <1>1, <1>2, <1>3, <1>4, <1>5 DEF QueueInv

(* The two ways a command leaves visits and activations. *)
LEMMA NoVisit ==
    ASSUME NEW new, UNCHANGED visits,
           \A v \in DOMAIN visits : activations'[v].kind = activations[v].kind,
           \A id : Row("EXECUTION_KICK", "kick", id) \notin new
    PROVE  KicksVisits(new)
  BY DEF KicksVisits

LEMMA DueKinds ==
    ASSUME TypeOK, NEW w, NEW due,
           activations' = [activations EXCEPT ![w].due = due]
    PROVE  \A v \in DOMAIN visits : activations'[v].kind = activations[v].kind
  <1>1. \A v \in DOMAIN visits :
           v \in DOMAIN activations /\ activations[v] \in Activation
    BY DEF TypeOK
  <1> QED
    BY <1>1 DEF Activation

LEMMA OneVisit ==
    ASSUME LogInv, Exists, NEW new, NEW k \in Visit, NEW a \in Activation,
           visits' = Append(visits, k), activations' = Append(CloseCurrent, a),
           \A id : Row("EXECUTION_KICK", "kick", id) \in new <=>
                      a.kind = "DISPATCH_INTENT" /\ id = NextVisit
    PROVE  KicksVisits(new)
  <1>1. PICK n \in Nat : n = Len(visits)
    BY DEF LogInv, IInv, TypeOK
  <1>2. /\ DOMAIN visits = 1..n /\ DOMAIN visits' = 1..(n + 1) /\ NextVisit = n + 1
        /\ n > 0
    BY <1>1 DEF LogInv, IInv, TypeOK, NextVisit, Anchored
  <1>3. /\ \A v \in 1..n : activations'[v].kind = activations[v].kind
        /\ activations'[n + 1] = a
    <2>1. /\ CloseCurrent \in Seq(Activation)
          /\ Len(CloseCurrent) = n
          /\ \A v \in 1..n : CloseCurrent[v].kind = activations[v].kind
      BY <1>1, <1>2, ClosedNow DEF LogInv, IInv
    <2>2. PICK closed \in Seq(Activation) : closed = CloseCurrent
      BY <2>1
    <2>3. /\ activations' = Append(closed, a) /\ Len(closed) = n
          /\ \A v \in 1..n : closed[v].kind = activations[v].kind
      BY <2>1, <2>2
    <2>4. /\ \A v \in 1..n : activations'[v] = closed[v]
          /\ activations'[n + 1] = a
      BY <2>2, <2>3
    <2> QED
      BY <2>3, <2>4
  <1>4. \A id : id \in 1..(n + 1) /\ id \notin 1..n <=> id = n + 1
    OBVIOUS
  <1>5. n + 1 > 1
    BY <1>2
  <1>6. ASSUME NEW id
        PROVE  Row("EXECUTION_KICK", "kick", id) \in new <=>
                  /\ id \in DOMAIN visits' /\ id \notin DOMAIN visits
                  /\ activations'[id].kind = "DISPATCH_INTENT"
                  /\ Business \/ id > 1
    BY <1>2, <1>3, <1>4, <1>5
  <1>7. ASSUME NEW v \in DOMAIN visits
        PROVE  v \in DOMAIN visits' /\ activations'[v].kind = activations[v].kind
    <2>1. v \in 1..n
      BY <1>2
    <2>2. v \in 1..(n + 1)
      BY <2>1
    <2> QED
      BY <1>2, <1>3, <2>1, <2>2
  <1> QED
    BY <1>6, <1>7 DEF KicksVisits

(* The two ways a command leaves its log. *)
LEMMA NoEvent ==
    ASSUME NEW new, UNCHANGED events,
           \A id : Row("FORUM_EVENT", "transition_committed", id) \notin new
    PROVE  TellsEvents(new)
  BY DEF TellsEvents

LEMMA OneMoreEvent ==
    ASSUME LogInv, NEW new, NEW e, events' = Append(events, e),
           Business =>
             \A id : Row("FORUM_EVENT", "transition_committed", id) \in new <=>
                        /\ e.type = "WORKFLOW_TRANSITION_COMMITTED"
                        /\ id = version + 1
    PROVE  TellsEvents(new)
  <1>1. PICK n \in Nat : n = version
    BY DEF LogInv, IInv, TypeOK
  <1>2. /\ DOMAIN events = 1..n /\ DOMAIN events' = 1..(n + 1)
        /\ \A i \in 1..n : events'[i] = events[i]
        /\ events'[n + 1] = e
    BY <1>1 DEF LogInv, IInv, TypeOK, Traced
  <1> QED
    BY <1>1, <1>2 DEF TellsEvents

-----------------------------------------------------------------------------
(* What each command queues.                                                *)

LEMMA QuietTells ==
    ASSUME UNCHANGED <<outbox, visits, events, cancelled, archived>>,
           DOMAIN cases' = DOMAIN cases,
           \A v \in DOMAIN visits : activations'[v].kind = activations[v].kind
    PROVE  Tells({})
  BY NoVisit, NoEvent DEF Tells, WakesOwner, TellsEnds

LEMMA RefuseTells == ASSUME Refuse PROVE Tells({})
  BY QuietTells DEF Refuse, row, facts

LEMMA CreateTells ==
    ASSUME QueueInv, LogInv', NEW kind \in ActivationKinds, NEW ok,
           CreateInstance(kind, ok)
    PROVE  \E new : Tells(new)
  <1>1. CASE Refuse
    BY <1>1, RefuseTells
  <1>2. CASE ~Refuse
    <2> DEFINE a == ActivationFor(EntryNode, kind)
               new == (IF Business THEN KickFor(1, a) ELSE {})
                         \cup Forum("wf_created", 0)
    <2>1. /\ visits' = <<[node |-> EntryNode, by |-> NoTransition]>>
          /\ activations' = <<a>> /\ outbox' = outbox \cup new
          /\ events' = Logged("INSTANCE_CREATED", 0, 1, 1, NoTransition, 0)
          /\ UNCHANGED <<cancelled, archived, cases>>
      BY <1>2 DEF CreateInstance
    <2>2. DOMAIN visits = {} /\ TypeOK
      BY DEF CreateInstance, QueueInv, LogInv, IInv, Anchored
    <2>3. /\ \A id : Row("EXECUTION_KICK", "kick", id) \in new <=>
                        Business /\ a.kind = "DISPATCH_INTENT" /\ id = 1
          /\ \A id : Row("FORUM_EVENT", "transition_committed", id) \notin new
          /\ Row("FORUM_EVENT", "workflow_cancelled", 0) \notin new
          /\ Row("FORUM_EVENT", "workflow_archived", 0) \notin new
          /\ ~Business => new = {}
      <3> HIDE DEF a
      <3> QED
        BY KickRows, ForumRows
    <2> HIDE DEF new, a
    <2>4. KicksVisits(new)
      <3>1. DOMAIN visits' = {1} /\ activations'[1] = a
        BY <2>1
      <3> QED
        BY <2>2, <2>3, <3>1 DEF KicksVisits
    <2>5. TellsEvents(new)
      <3> DEFINE e == EventRow("INSTANCE_CREATED", version + 1, 0, 1, 1,
                               NoTransition, 0, Len(receipts) + 1)
      <3>1. events' = Append(events, e)
            /\ e.type # "WORKFLOW_TRANSITION_COMMITTED"
        BY <2>1 DEF Logged, EventRow
      <3> HIDE DEF e
      <3> QED
        BY <2>3, <3>1, OneMoreEvent DEF QueueInv
    <2>6. WakesOwner(new) /\ TellsEnds(new)
      BY <2>1, <2>3 DEF WakesOwner, TellsEnds
    <2>7. Tells(new)
      BY <2>1, <2>3, <2>4, <2>5, <2>6 DEF Tells
    <2> QED
      BY <2>7
  <1> QED
    BY <1>1, <1>2

(* A command that logs one event that is no transition.                     *)
LEMMA LoggedTells ==
    ASSUME QueueInv, NEW new, NEW type, NEW s, NEW t, NEW ctx, NEW edge, NEW c,
           type # "WORKFLOW_TRANSITION_COMMITTED",
           events' = Logged(type, s, t, ctx, edge, c),
           \A id : Row("FORUM_EVENT", "transition_committed", id) \notin new
    PROVE  TellsEvents(new)
  <1> DEFINE e == EventRow(type, version + 1, s, t, ctx, edge, c,
                           Len(receipts) + 1)
  <1>1. events' = Append(events, e) /\ e.type = type
    BY DEF Logged, EventRow
  <1> HIDE DEF e
  <1> QED
    BY <1>1, OneMoreEvent DEF QueueInv

LEMMA TransitionTells ==
    ASSUME QueueInv, LogInv', NEW t \in Transitions,
           NEW kind \in ActivationKinds, NEW x, NEW ok,
           ExecuteTransition(t, x, kind, ok)
    PROVE  \E new : Tells(new)
  <1>1. CASE Refuse
    BY <1>1, RefuseTells
  <1>2. CASE ~Refuse
    <2> DEFINE a == ActivationFor(Target[t], kind)
               k == [node |-> Target[t], by |-> t]
               e == EventRow("WORKFLOW_TRANSITION_COMMITTED", version + 1,
                             visit, NextVisit, context, t, 0, Len(receipts) + 1)
               rows == TransitionRows(t, a)
    <2>1. /\ Exists /\ UNCHANGED <<cancelled, archived>>
          /\ CommitTransition(t, a) \/ CommitLimitReturn(t, a)
      BY <1>2 DEF ExecuteTransition
    <2>2. Target[t] \in Nodes /\ k \in Visit /\ a \in Activation
      BY DefinitionAssumption, ActivationType DEF Visit
    <2>3. /\ TransitionLogged(t) = Append(events, e)
          /\ e.type = "WORKFLOW_TRANSITION_COMMITTED"
      BY DEF TransitionLogged, Logged, EventRow
    <2>4. /\ visits' = Append(visits, k) /\ activations' = Append(CloseCurrent, a)
      BY <2>1 DEF CommitTransition, CommitLimitReturn, MoveAlong
    <2>5. /\ \A id : Row("EXECUTION_KICK", "kick", id) \in rows <=>
                        a.kind = "DISPATCH_INTENT" /\ id = NextVisit
          /\ \A id : Row("FORUM_EVENT", "transition_committed", id) \in rows <=>
                        Business /\ id = version + 1
          /\ Row("FORUM_EVENT", "workflow_cancelled", 0) \notin rows
          /\ Row("FORUM_EVENT", "workflow_archived", 0) \notin rows
          /\ ~Business => \A queued \in rows : queued.kind = "EXECUTION_KICK"
      <3> HIDE DEF a
      <3> QED
        BY KickRows, ForumRows, CompletionRows DEF TransitionRows
    <2>6. TypeOK /\ version \in Nat
      BY DEF QueueInv, LogInv, IInv, TypeOK
    <2> HIDE DEF a, k, e, rows
    <2>7. CASE CommitTransition(t, a)
      <3>1. /\ outbox' = outbox \cup rows /\ events' = Append(events, e)
            /\ UNCHANGED cases
        BY <2>3, <2>7 DEF CommitTransition, rows
      <3>2. KicksVisits(rows)
        BY <2>1, <2>2, <2>4, <2>5, OneVisit DEF QueueInv
      <3>3. TellsEvents(rows)
        BY <2>3, <2>5, <3>1, OneMoreEvent DEF QueueInv
      <3>4. Tells(rows)
        BY <2>1, <2>5, <3>1, <3>2, <3>3 DEF Tells, WakesOwner, TellsEnds
      <3> QED
        BY <3>4
    <2>8. CASE CommitLimitReturn(t, a)
      <3> DEFINE new == rows \cup OwnerWake(NextCase)
                             \cup Forum("return_policy_reached", t)
                 f == EventRow("ASSISTANCE_REQUESTED", version + 2, NextVisit,
                               NextVisit, context, NoTransition, NextCase,
                               Len(receipts) + 2)
      <3>1. /\ outbox' = outbox \cup new
            /\ events' = Append(Append(events, e), f)
            /\ cases' = Append(cases, [visit |-> NextVisit,
                                       status |-> "OWNER_PENDING"])
        BY <2>3, <2>8 DEF CommitLimitReturn, rows
      <3>2. f.type = "ASSISTANCE_REQUESTED"
        BY DEF EventRow
      <3>3. /\ \A id : Row("EXECUTION_KICK", "kick", id) \in new <=>
                          a.kind = "DISPATCH_INTENT" /\ id = NextVisit
            /\ \A id : Row("FORUM_EVENT", "transition_committed", id) \in new <=>
                          Business /\ id = version + 1
            /\ Row("FORUM_EVENT", "workflow_cancelled", 0) \notin new
            /\ Row("FORUM_EVENT", "workflow_archived", 0) \notin new
            /\ Business => Row("OWNER_ASSISTANCE_WAKE", "owner-assistance",
                               NextCase) \in new
            /\ ~Business => \A queued \in new : queued.kind = "EXECUTION_KICK"
        BY <2>5, ForumRows, WakeRows
      <3> HIDE DEF new, f
      <3>4. KicksVisits(new)
        BY <2>1, <2>2, <2>4, <3>3, OneVisit DEF QueueInv
      <3>5. TellsEvents(new)
        <4>1. PICK n \in Nat : n = version
          BY <2>6
        <4>2. /\ events \in Seq(Event) /\ Len(events) = n
              /\ DOMAIN events = 1..n
          BY <4>1 DEF QueueInv, LogInv, IInv, TypeOK, Traced
        <4>3. /\ DOMAIN events' = 1..(n + 2)
              /\ \A i \in 1..n : events'[i] = events[i]
              /\ events'[n + 1] = e /\ events'[n + 2] = f
          BY <3>1, <4>2
        <4>4. \A id : id \in 1..(n + 2) /\ id \notin 1..n <=>
                         id = n + 1 \/ id = n + 2
          OBVIOUS
        <4>5. n + 1 # n + 2
          OBVIOUS
        <4>6. ASSUME NEW id
              PROVE  id = version + 1 <=>
                        /\ id \in DOMAIN events' /\ id \notin DOMAIN events
                        /\ events'[id].type = "WORKFLOW_TRANSITION_COMMITTED"
          BY <2>3, <3>2, <4>1, <4>2, <4>3, <4>4, <4>5
        <4> QED
          BY <3>3, <4>2, <4>3, <4>6 DEF TellsEvents
      <3>6. WakesOwner(new)
        <4>1. \A c \in DOMAIN cases' : c \in DOMAIN cases \/ c = NextCase
          BY <2>6, <3>1 DEF TypeOK, NextCase
        <4> QED
          BY <3>3, <4>1 DEF WakesOwner
      <3>7. Tells(new)
        BY <2>1, <3>1, <3>3, <3>4, <3>5, <3>6 DEF Tells, TellsEnds
      <3> QED
        BY <3>7
    <2> QED
      BY <2>1, <2>7, <2>8
  <1> QED
    BY <1>1, <1>2

LEMMA CombinedTells ==
    ASSUME QueueInv, LogInv', NEW t \in Transitions, NEW x, NEW ok,
           ReviseContextAndTransition(t, x, ok)
    PROVE  \E new : Tells(new)
  <1>1. CASE Refuse
    BY <1>1, RefuseTells
  <1>2. CASE ~Refuse
    <2> DEFINE a == ActivationFor(Target[t], "HUMAN_WORK_ITEM")
               k == [node |-> Target[t], by |-> t]
    <2>1. /\ Exists /\ MoveAlong(t, a)
          /\ events' = Logged("WORKFLOW_CONTEXT_REVISED_AND_TRANSITION_COMMITTED",
                              visit, NextVisit, revisions + 1, t, 0)
          /\ UNCHANGED <<cancelled, archived, cases, outbox>>
      BY <1>2 DEF ReviseContextAndTransition
    <2>2. Target[t] \in Nodes /\ k \in Visit /\ a \in Activation
      BY DefinitionAssumption, ActivationType DEF Visit, ActivationKinds
    <2>3. a.kind # "DISPATCH_INTENT"
      BY DEF ActivationFor
    <2>4. visits' = Append(visits, k) /\ activations' = Append(CloseCurrent, a)
      BY <2>1 DEF MoveAlong
    <2> HIDE DEF a, k
    <2>5. KicksVisits({})
      BY <2>1, <2>2, <2>3, <2>4, OneVisit DEF QueueInv
    <2>6. TellsEvents({})
      BY <2>1, LoggedTells
    <2>7. Tells({})
      BY <2>1, <2>5, <2>6 DEF Tells, WakesOwner, TellsEnds
    <2> QED
      BY <2>7
  <1> QED
    BY <1>1, <1>2

LEMMA OverrideTells ==
    ASSUME QueueInv, LogInv', NEW n \in Nodes, NEW x, NEW ok,
           AdminEmergencyOverride(n, x, ok)
    PROVE  \E new : Tells(new)
  <1>1. CASE Refuse
    BY <1>1, RefuseTells
  <1>2. CASE ~Refuse
    <2> DEFINE a == ActivationFor(n, "HUMAN_WORK_ITEM")
               k == [node |-> n, by |-> NoTransition]
    <2>1. /\ Exists
          /\ visits' = Append(visits, k) /\ activations' = Append(CloseCurrent, a)
          /\ events' = Logged("ADMIN_EMERGENCY_OVERRIDE_COMMITTED", visit,
                              NextVisit, context, NoTransition, 0)
          /\ cases' = VoidOpenCases
          /\ UNCHANGED <<cancelled, archived, outbox>>
      BY <1>2 DEF AdminEmergencyOverride
    <2>2. k \in Visit /\ a \in Activation
      BY DefinitionAssumption, ActivationType DEF Visit, ActivationKinds
    <2>3. a.kind # "DISPATCH_INTENT"
      BY DEF ActivationFor
    <2> HIDE DEF a, k
    <2>4. KicksVisits({})
      BY <2>1, <2>2, <2>3, OneVisit DEF QueueInv
    <2>5. TellsEvents({})
      BY <2>1, LoggedTells
    <2>6. WakesOwner({})
      BY <2>1, VoidType DEF WakesOwner, QueueInv, LogInv, IInv
    <2>7. Tells({})
      BY <2>1, <2>4, <2>5, <2>6 DEF Tells, TellsEnds
    <2> QED
      BY <2>7
  <1> QED
    BY <1>1, <1>2

LEMMA ReviseTells ==
    ASSUME QueueInv, NEW x, NEW ok, ReviseContext(x, ok) \/ RepairContext
    PROVE  \E new : Tells(new)
  <1>1. CASE Refuse
    BY <1>1, RefuseTells
  <1>2. CASE ~Refuse
    <2>1. /\ events' = Logged("CONTEXT_REVISED", visit, visit, revisions + 1,
                              NoTransition, 0)
          /\ UNCHANGED <<visits, activations, cases, cancelled, archived, outbox>>
      BY <1>2 DEF ReviseContext, RepairContext
    <2>2. TellsEvents({})
      BY <2>1, LoggedTells
    <2>3. Tells({})
      BY <2>1, <2>2, NoVisit DEF Tells, WakesOwner, TellsEnds
    <2> QED
      BY <2>3
  <1> QED
    BY <1>1, <1>2

LEMMA EndTells ==
    ASSUME QueueInv, NEW x, NEW ok, CancelInstance(x, ok) \/ ArchiveInstance(x, ok)
    PROVE  \E new : Tells(new)
  <1>1. CASE Refuse
    BY <1>1, RefuseTells
  <1>2. TypeOK
    BY DEF QueueInv, LogInv, IInv
  <1>3. CASE ~Refuse /\ CancelInstance(x, ok)
    <2> DEFINE new == Forum("workflow_cancelled", 0)
    <2>1. /\ outbox' = outbox \cup new
          /\ events' = Logged("WORKFLOW_INSTANCE_CANCELLED", visit, 0, context,
                              NoTransition, 0)
          /\ cancelled' = TRUE /\ UNCHANGED <<visits, archived>>
          /\ cases' = VoidOpenCases /\ activations' = CloseCurrent
      BY <1>3 DEF CancelInstance
    <2>2. /\ \A k, e, i : Row(k, e, i) \in new <=>
                Business /\ k = "FORUM_EVENT" /\ e = "workflow_cancelled" /\ i = 0
          /\ ~Business => new = {}
      BY ForumRows
    <2> HIDE DEF new
    <2>3. TellsEvents(new)
      BY <2>1, <2>2, LoggedTells
    <2>4. KicksVisits(new)
      BY <1>2, <2>1, <2>2, ClosedNow, NoVisit
    <2>5. WakesOwner(new)
      BY <1>2, <2>1, VoidType DEF WakesOwner
    <2>6. Tells(new)
      BY <2>1, <2>2, <2>3, <2>4, <2>5 DEF Tells, TellsEnds
    <2> QED
      BY <2>6
  <1>4. CASE ~Refuse /\ ArchiveInstance(x, ok)
    <2> DEFINE new == Forum("workflow_archived", 0)
    <2>1. /\ outbox' = outbox \cup new
          /\ events' = Logged("WORKFLOW_INSTANCE_ARCHIVED", visit, 0, context,
                              NoTransition, 0)
          /\ archived' = TRUE /\ UNCHANGED <<visits, cancelled, activations>>
          /\ cases' = VoidOpenCases
      BY <1>4 DEF ArchiveInstance
    <2>2. /\ \A k, e, i : Row(k, e, i) \in new <=>
                Business /\ k = "FORUM_EVENT" /\ e = "workflow_archived" /\ i = 0
          /\ ~Business => new = {}
      BY ForumRows
    <2> HIDE DEF new
    <2>3. TellsEvents(new)
      BY <2>1, <2>2, LoggedTells
    <2>4. KicksVisits(new)
      BY <2>1, <2>2, NoVisit
    <2>5. WakesOwner(new)
      BY <1>2, <2>1, VoidType DEF WakesOwner
    <2>6. Tells(new)
      BY <2>1, <2>2, <2>3, <2>4, <2>5 DEF Tells, TellsEnds
    <2> QED
      BY <2>6
  <1> QED
    BY <1>1, <1>3, <1>4

(* Opening a case queues the owner's wake for it. *)
LEMMA OpeningTells ==
    ASSUME QueueInv, NEW e, e.type = "ASSISTANCE_REQUESTED",
           events' = Append(events, e), cases' = OpenedOn(visit),
           outbox' = outbox \cup (Forum("assistance_requested", NextCase)
                                     \cup OwnerWake(NextCase)),
           UNCHANGED <<visits, activations, cancelled, archived>>
    PROVE  \E new : Tells(new)
  <1> DEFINE new == Forum("assistance_requested", NextCase)
                       \cup OwnerWake(NextCase)
  <1>1. /\ \A k, i : /\ Row(k, "kick", i) \notin new
                     /\ Row(k, "transition_committed", i) \notin new
                     /\ Row(k, "workflow_cancelled", i) \notin new
                     /\ Row(k, "workflow_archived", i) \notin new
        /\ Business => Row("OWNER_ASSISTANCE_WAKE", "owner-assistance",
                           NextCase) \in new
        /\ ~Business => new = {}
    BY ForumRows, WakeRows
  <1> HIDE DEF new
  <1>2. \A c \in DOMAIN cases' : c \in DOMAIN cases \/ c = NextCase
    BY DEF OpenedOn, QueueInv, LogInv, IInv, TypeOK, NextCase
  <1>3. WakesOwner(new)
    BY <1>1, <1>2 DEF WakesOwner
  <1>4. TellsEvents(new)
    BY <1>1, OneMoreEvent DEF QueueInv
  <1>5. Tells(new)
    BY <1>1, <1>3, <1>4, NoVisit DEF Tells, TellsEnds, new
  <1> QED
    BY <1>5

LEMMA RequestTells ==
    ASSUME QueueInv, NEW v, NEW x, NEW ok, RequestAssistance(v, x, ok)
    PROVE  \E new : Tells(new)
  <1>1. CASE Refuse
    BY <1>1, RefuseTells
  <1>2. CASE ~Refuse
    <2> DEFINE e == EventRow("ASSISTANCE_REQUESTED", version + 1, visit, visit,
                             context, NoTransition, NextCase, Len(receipts) + 1)
    <2>1. events' = Append(events, e) /\ e.type = "ASSISTANCE_REQUESTED"
      BY <1>2 DEF RequestAssistance, Logged, EventRow
    <2>2. /\ cases' = OpenedOn(visit)
          /\ outbox' = outbox \cup (Forum("assistance_requested", NextCase)
                                       \cup OwnerWake(NextCase))
          /\ UNCHANGED <<visits, activations, cancelled, archived>>
      BY <1>2 DEF RequestAssistance
    <2> HIDE DEF e
    <2> QED
      BY <2>1, <2>2, OpeningTells
  <1> QED
    BY <1>1, <1>2

LEMMA PolicyTells ==
    ASSUME QueueInv, NEW v, NEW ok, SystemExecutionEscalation(v, ok)
    PROVE  \E new : Tells(new)
  <1>1. CASE Refuse
    BY <1>1, RefuseTells
  <1>2. CASE ~Refuse
    <2>1. /\ UNCHANGED <<visits, activations, cancelled, archived>>
          /\ OpenByPolicy \/ FindAlreadyOpen
      BY <1>2 DEF SystemExecutionEscalation
    <2>2. CASE OpenByPolicy
      <3> DEFINE e == EventRow("ASSISTANCE_REQUESTED", version + 1, visit, visit,
                               context, NoTransition, NextCase,
                               Len(receipts) + 2)
      <3>1. events' = Append(events, e) /\ e.type = "ASSISTANCE_REQUESTED"
        BY <2>2 DEF OpenByPolicy, EventRow
      <3>2. /\ cases' = OpenedOn(visit)
            /\ outbox' = outbox \cup (Forum("assistance_requested", NextCase)
                                         \cup OwnerWake(NextCase))
        BY <2>2 DEF OpenByPolicy
      <3> HIDE DEF e
      <3> QED
        BY <2>1, <3>1, <3>2, OpeningTells
    <2>3. CASE FindAlreadyOpen
      <3>1. PICK c \in OpenOn(visit) :
               /\ outbox' = outbox \cup Forum("assistance_requested", c)
               /\ UNCHANGED <<version, cases, events>>
        BY <2>3 DEF FindAlreadyOpen
      <3> DEFINE new == Forum("assistance_requested", c)
      <3>2. /\ \A k, i : /\ Row(k, "kick", i) \notin new
                         /\ Row(k, "transition_committed", i) \notin new
                         /\ Row(k, "workflow_cancelled", i) \notin new
                         /\ Row(k, "workflow_archived", i) \notin new
            /\ ~Business => new = {}
        BY ForumRows
      <3>3. outbox' = outbox \cup new
        BY <3>1
      <3> HIDE DEF new
      <3>4. Tells(new)
        BY <2>1, <3>1, <3>2, <3>3, NoVisit, NoEvent
        DEF Tells, WakesOwner, TellsEnds
      <3> QED
        BY <3>4
    <2> QED
      BY <2>1, <2>2, <2>3
  <1> QED
    BY <1>1, <1>2

LEMMA AnswerTells ==
    ASSUME QueueInv, NEW c \in DOMAIN cases, NEW x, NEW ok, NEW from, NEW to,
           NEW command, NEW type, NEW forum,
           type # "WORKFLOW_TRANSITION_COMMITTED",
           forum \in {"assistance_escalated", "assistance_resolved"},
           OwnerAction(c, x, ok, from, to, command, type, forum)
    PROVE  \E new : Tells(new)
  <1>1. CASE Refuse
    BY <1>1, RefuseTells
  <1>2. CASE ~Refuse
    <2> DEFINE new == Forum(forum, c)
    <2>1. /\ outbox' = outbox \cup new
          /\ events' = Logged(type, visit, visit, context, NoTransition, c)
          /\ cases' = [cases EXCEPT ![c].status = to]
          /\ UNCHANGED <<visits, activations, cancelled, archived>>
      BY <1>2 DEF OwnerAction
    <2>2. /\ \A k, i : /\ Row(k, "kick", i) \notin new
                       /\ Row(k, "transition_committed", i) \notin new
                       /\ Row(k, "workflow_cancelled", i) \notin new
                       /\ Row(k, "workflow_archived", i) \notin new
          /\ ~Business => new = {}
      BY ForumRows
    <2> HIDE DEF new
    <2>3. TellsEvents(new)
      BY <2>1, <2>2, LoggedTells
    <2>4. DOMAIN cases' = DOMAIN cases
      BY <2>1
    <2>5. Tells(new)
      BY <2>1, <2>2, <2>3, <2>4, NoVisit DEF Tells, WakesOwner, TellsEnds
    <2> QED
      BY <2>5
  <1> QED
    BY <1>1, <1>2

LEMMA WakeTells ==
    ASSUME QueueInv, NEW v \in DOMAIN visits, NEW x, WakeDispatchIntent(v, x)
    PROVE  \E new : Tells(new)
  <1>1. CASE WakeHasNothingToDo(v, x)
    BY <1>1, QuietTells DEF WakeDispatchIntent
  <1>2. CASE ~WakeHasNothingToDo(v, x)
    <2>1. /\ events' = Logged("WAKE_DISPATCH_INTENT", v, 0, 0, NoTransition, 0)
          /\ activations' = [activations EXCEPT ![v].due = TRUE]
          /\ UNCHANGED <<visits, cases, cancelled, archived, outbox>>
      BY <1>2 DEF WakeDispatchIntent
    <2>2. TellsEvents({})
      BY <2>1, LoggedTells
    <2>3. KicksVisits({})
      BY <2>1, DueKinds, NoVisit DEF QueueInv, LogInv, IInv
    <2>4. Tells({})
      BY <2>1, <2>2, <2>3 DEF Tells, WakesOwner, TellsEnds
    <2> QED
      BY <2>4
  <1> QED
    BY <1>1, <1>2

LEMMA RebuildTells ==
    ASSUME QueueInv, NEW ok, RebuildProjection(ok)
    PROVE  \E new : Tells(new)
  <1>1. UNCHANGED <<visits, events, cancelled, archived, cases>>
    BY RebuildStep DEF QueueInv, Still
  <1>2. UNCHANGED <<outbox, activations>>
    BY DEF RebuildProjection, Refuse, facts
  <1> QED
    BY <1>1, <1>2, QuietTells

LEMMA EnvironmentTells ==
    ASSUME QueueInv, Environment \/ UNCHANGED vars
    PROVE  \E new : Tells(new)
  <1>1. UNCHANGED <<outbox, visits, events, cancelled, archived, cases>>
    BY EnvironmentStep DEF Still
  <1>2. \A v \in DOMAIN visits : activations'[v].kind = activations[v].kind
    <2>1. CASE UNCHANGED activations
      BY <2>1
    <2>2. ASSUME NEW v, DeferEligibility(v)
          PROVE  \A w \in DOMAIN visits :
                    activations'[w].kind = activations[w].kind
      BY <2>2, DueKinds DEF DeferEligibility, QueueInv, LogInv, IInv
    <2>3. UNCHANGED activations \/ \E v : DeferEligibility(v)
      BY DEF Environment, DeprecateDefinition, RevokeDefinition,
             ChangeDomainOwner, vars, facts
    <2> QED
      BY <2>1, <2>2, <2>3
  <1> QED
    BY <1>1, <1>2, QuietTells

LEMMA InitQueue == Init => QueueInv
  BY InitLog DEF Init, QueueInv

LEMMA NextQueue == QueueInv /\ [Next]_vars => QueueInv'
  <1> SUFFICES ASSUME QueueInv, [Next]_vars PROVE QueueInv'
    OBVIOUS
  <1>1. LogInv'
    BY NextLog DEF QueueInv
  <1>2. ASSUME NEW c \in DOMAIN cases, NEW x, NEW ok,
               EscalateAssistance(c, x, ok) \/ ResolveAssistance(c, x, ok)
        PROVE  \E new : Tells(new)
    BY <1>2, AnswerTells DEF EscalateAssistance, ResolveAssistance
  <1>3. CASE Commands
    <2>1. \E new : Tells(new)
      BY <1>1, <1>2, <1>3, CreateTells, TransitionTells, CombinedTells, OverrideTells,
         ReviseTells, EndTells, RequestTells, PolicyTells, WakeTells,
         RebuildTells
      DEF Commands
    <2> QED
      BY <1>1, <2>1, TellingKeeps
  <1>4. CASE Environment \/ UNCHANGED vars
    BY <1>1, <1>4, EnvironmentTells, TellingKeeps
  <1> QED
    BY <1>3, <1>4 DEF Next

(* A command leaves all of its records or none, whatever interleaves: every *)
(* event has a receipt of its own, of the command that may write it and     *)
(* answering the version its transaction ended at, and what the outbox      *)
(* tells the outside is exactly what the facts say, for business instances  *)
(* and, kicks alone, for test ones.                                         *)
THEOREM RecordsComplete == Spec => []CommandsLeaveTheirRecords
  BY InitRecord, NextRecord, RecordInvIsProperty, InitQueue, NextQueue,
     QueueInvIsProperty, PTL DEF Spec, CommandsLeaveTheirRecords

-----------------------------------------------------------------------------
(* Replay.  The state after a log is a function of that log's events alone, *)
(* and one more event folds into it as apply() folds it.                    *)

Assists(e) == e.type \in AssistanceTypes

IsLast(log, m, c, i) ==
    /\ i \in 1..m
    /\ Assists(log[i]) /\ log[i].case = c
    /\ \A j \in (i + 1)..m : Assists(log[j]) => log[j].case # c

LEMMA LastOfSame ==
    ASSUME NEW a, NEW b, NEW k, NEW m, NEW c,
           \A i : IsLast(a, k, c, i) <=> IsLast(b, m, c, i)
    PROVE  LastOf(a, k, c) = LastOf(b, m, c)
  BY Zenon DEF IsLast, Assists, LastOf

LEMMA LastOfIs ==
    ASSUME NEW log, NEW m \in Nat, NEW c, NEW i, IsLast(log, m, c, i)
    PROVE  LastOf(log, m, c) = i
  <1> DEFINE l == LastOf(log, m, c)
  <1>1. IsLast(log, m, c, l)
    BY Zenon DEF IsLast, Assists, LastOf
  <1> HIDE DEF l
  <1>2. i \in 1..m /\ l \in 1..m
    BY <1>1 DEF IsLast
  <1>3. ~(i < l) /\ ~(l < i)
    BY <1>1, <1>2 DEF IsLast
  <1>4. l = i
    BY <1>2, <1>3
  <1> QED
    BY <1>4 DEF l

(* A set of naturals has a least element. *)
LEMMA LeastOf ==
    ASSUME NEW S \in SUBSET Nat, S # {}
    PROVE  \E k \in S : \A l \in S : k <= l
  <1> DEFINE R == OpToRel(<, Nat)
  <1>1. IsWellFoundedOn(R, Nat)
    BY NatLessThanWellFounded
  <1> HIDE DEF R
  <1>2. PICK k \in S : \A l \in S : <<l, k>> \notin R
    BY <1>1, WFMin
  <1>3. ASSUME NEW l \in S
        PROVE  k <= l
    <2>1. l \in Nat /\ k \in Nat
      OBVIOUS
    <2>2. l < k => <<l, k>> \in R
      BY <2>1 DEF R, OpToRel
    <2>3. <<l, k>> \notin R
      BY <1>2
    <2> QED
      BY <2>1, <2>2, <2>3
  <1> QED
    BY <1>3

(* The cases a log has seen, by their last event. *)
Seen(log, m) == {log[i].case : i \in {j \in 1..m : Assists(log[j])}}

LEMMA LastExists ==
    ASSUME NEW log, NEW m \in Nat, NEW c \in Seen(log, m)
    PROVE  IsLast(log, m, c, LastOf(log, m, c))
  <1> DEFINE S == {k \in Nat : /\ k < m /\ Assists(log[m - k])
                               /\ log[m - k].case = c}
  <1>1. PICK i \in 1..m : Assists(log[i]) /\ log[i].case = c
    BY DEF Seen
  <1>2. m - i \in S
    BY <1>1
  <1>3. PICK k \in S : \A l \in S : k <= l
    BY <1>2, LeastOf
  <1>4. k \in Nat /\ k < m /\ m - k \in 1..m
    OBVIOUS
  <1>5. ASSUME NEW j \in (m - k + 1)..m, Assists(log[j]), log[j].case = c
        PROVE  FALSE
    <2>1. m - j \in S
      BY <1>4, <1>5
    <2> QED
      BY <1>3, <1>4, <2>1
  <1>6. IsLast(log, m, c, m - k)
    BY <1>4, <1>5 DEF IsLast
  <1> QED
    BY <1>6, LastOfIs

Entry(log, m, c) ==
    LET e == log[LastOf(log, m, c)]
    IN  [visit |-> e.source, status |-> StatusGiven[e.type]]

LEMMA CasesAre ==
    ASSUME NEW log, NEW m
    PROVE  /\ DOMAIN StateAfter(log, m).cases = Seen(log, m)
           /\ \A c \in Seen(log, m) :
                 StateAfter(log, m).cases[c] = Entry(log, m, c)
           /\ StateAfter(log, m).cases =
                 [c \in Seen(log, m) |-> Entry(log, m, c)]
  BY Zenon DEF StateAfter, Seen, Assists, Entry

LEMMA StatePrefix ==
    ASSUME NEW a, NEW b, NEW m \in Nat, \A i \in 1..m : a[i] = b[i]
    PROVE  StateAfter(a, m) = StateAfter(b, m)
  <1>1. Seen(a, m) = Seen(b, m)
    BY DEF Seen
  <1>2. ASSUME NEW c PROVE LastOf(a, m, c) = LastOf(b, m, c)
    <2>1. ASSUME NEW i PROVE IsLast(a, m, c, i) <=> IsLast(b, m, c, i)
      <3>1. i \in 1..m => \A j \in (i + 1)..m : j \in 1..m
        OBVIOUS
      <3> QED
        BY <3>1 DEF IsLast
    <2> QED
      BY <2>1, LastOfSame
  <1>3. ASSUME NEW c \in Seen(a, m)
        PROVE  Entry(a, m, c) = Entry(b, m, c)
    <2>1. LastOf(a, m, c) \in 1..m
      BY LastExists DEF IsLast
    <2> QED
      BY <1>2, <2>1 DEF Entry
  <1>4. StateAfter(a, m).cases = StateAfter(b, m).cases
    <2>1. /\ StateAfter(a, m).cases = [c \in Seen(a, m) |-> Entry(a, m, c)]
          /\ StateAfter(b, m).cases = [c \in Seen(b, m) |-> Entry(b, m, c)]
      BY CasesAre
    <2>2. [c \in Seen(a, m) |-> Entry(a, m, c)] =
             [c \in Seen(b, m) |-> Entry(b, m, c)]
      BY <1>1, <1>3
    <2> QED
      BY <2>1, <2>2
  <1>5. {a[i].target : i \in 1..m} = {b[i].target : i \in 1..m}
    OBVIOUS
  <1>6. m # 0 => a[m] = b[m]
    OBVIOUS
  <1> QED
    BY <1>4, <1>5, <1>6 DEF StateAfter

(* One event more. *)
LEMMA NextState ==
    ASSUME NEW log, NEW m \in Nat
    PROVE  LET e == log[m + 1]
               s == StateAfter(log, m)
               t == StateAfter(log, m + 1)
           IN  /\ t.version = e.version /\ t.visit = e.target
               /\ t.context = e.context
               /\ t.introduced = s.introduced \cup {e.target}
               /\ t.cases = IF Assists(e)
                            THEN [c \in DOMAIN s.cases \cup {e.case} |->
                                    IF c = e.case
                                    THEN [visit |-> e.source,
                                          status |-> StatusGiven[e.type]]
                                    ELSE s.cases[c]]
                            ELSE s.cases
  <1> DEFINE e == log[m + 1]
             s == StateAfter(log, m)
             t == StateAfter(log, m + 1)
  <1>1. t.version = e.version /\ t.visit = e.target /\ t.context = e.context
    BY DEF StateAfter
  <1>2. 1..(m + 1) = 1..m \cup {m + 1}
    OBVIOUS
  <1>3. t.introduced = s.introduced \cup {e.target}
    <2>1. s.introduced = {log[i].target : i \in 1..m}
      BY DEF StateAfter
    <2>2. t.introduced = {log[i].target : i \in 1..(m + 1)}
      BY DEF StateAfter
    <2> QED
      BY <1>2, <2>1, <2>2
  <1>4. Seen(log, m + 1) = IF Assists(e) THEN Seen(log, m) \cup {e.case}
                                         ELSE Seen(log, m)
    BY <1>2 DEF Seen
  <1>5. ASSUME NEW c \in Seen(log, m), ~(Assists(e) /\ c = e.case)
        PROVE  LastOf(log, m + 1, c) = LastOf(log, m, c)
    <2>1. ASSUME NEW i PROVE IsLast(log, m, c, i) <=> IsLast(log, m + 1, c, i)
      <3>1. i \in 1..m => (i + 1)..(m + 1) = (i + 1)..m \cup {m + 1}
        OBVIOUS
      <3>2. i \in 1..(m + 1) <=> i \in 1..m \/ i = m + 1
        BY <1>2
      <3>3. ~IsLast(log, m + 1, c, m + 1)
        BY <1>5 DEF IsLast
      <3>4. ~(m + 1 \in 1..m)
        OBVIOUS
      <3>5. CASE i \in 1..m
        BY <1>5, <3>1, <3>5, <3>2 DEF IsLast
      <3>6. CASE i \notin 1..m
        BY <3>2, <3>3, <3>6 DEF IsLast
      <3> QED
        BY <3>5, <3>6
    <2> QED
      BY <2>1, LastOfSame
  <1>6. Assists(e) => LastOf(log, m + 1, e.case) = m + 1
    <2>1. Assists(e) => IsLast(log, m + 1, e.case, m + 1)
      BY DEF IsLast
    <2> QED
      BY <2>1, LastOfIs
  <1>7. /\ DOMAIN s.cases = Seen(log, m)
        /\ \A c \in Seen(log, m) : s.cases[c] = Entry(log, m, c)
        /\ s.cases = [c \in Seen(log, m) |-> Entry(log, m, c)]
        /\ t.cases = [c \in Seen(log, m + 1) |-> Entry(log, m + 1, c)]
    <2> HIDE DEF s, t
    <2> QED
      BY CasesAre DEF s, t
  <1>8. CASE Assists(e)
    <2>1. Seen(log, m + 1) = DOMAIN s.cases \cup {e.case}
      BY <1>4, <1>7, <1>8
    <2>2. ASSUME NEW c \in Seen(log, m + 1)
          PROVE  Entry(log, m + 1, c) =
                    IF c = e.case
                    THEN [visit |-> e.source, status |-> StatusGiven[e.type]]
                    ELSE s.cases[c]
      <3>1. CASE c = e.case
        BY <1>6, <1>8, <3>1 DEF Entry
      <3>2. CASE c # e.case
        <4>1. c \in Seen(log, m)
          BY <1>4, <1>8, <3>2
        <4>2. s.cases[c] = Entry(log, m, c)
          BY <1>7, <4>1
        <4> QED
          BY <1>5, <3>2, <4>1, <4>2 DEF Entry
      <3> QED
        BY <3>1, <3>2
    <2>3. t.cases = [c \in DOMAIN s.cases \cup {e.case} |->
                       IF c = e.case
                       THEN [visit |-> e.source, status |-> StatusGiven[e.type]]
                       ELSE s.cases[c]]
      <3> HIDE DEF s, t, e
      <3> QED
        BY <1>7, <2>1, <2>2
    <2> QED
      BY <1>1, <1>3, <1>8, <2>3
  <1>9. CASE ~Assists(e)
    <2>1. Seen(log, m + 1) = Seen(log, m)
      BY <1>4, <1>9
    <2>2. \A c \in Seen(log, m) : Entry(log, m + 1, c) = Entry(log, m, c)
      BY <1>5, <1>9 DEF Entry
    <2>3. t.cases = s.cases
      <3> HIDE DEF s, t
      <3> QED
        BY <1>7, <2>1, <2>2
    <2> QED
      BY <1>1, <1>3, <1>9, <2>3
  <1> QED
    BY <1>8, <1>9

-----------------------------------------------------------------------------
(* The reference fold reads a log as StateAfter does.                       *)

LEMMA ReferenceAccepts ==
    ASSUME NEW s, NEW e, NEW vs
    PROVE  Reference!Accepts(s, e, vs) <=> Accepts(s, e, vs)
  BY DEF Reference!Accepts, Reference!Follows, Reference!MovesTo,
         Reference!CaseOpenIn, Reference!OpenStatus, Reference!OnCurrentVisit,
         Reference!CaseIs, Accepts, Follows, MovesTo, CaseOpenIn, OpenStatus,
         OnCurrentVisit, CaseIs

LEMMA AcceptsSame ==
    ASSUME NEW s, NEW t, NEW e, NEW vs,
           s.version = t.version, s.visit = t.visit, s.context = t.context,
           s.introduced = t.introduced, s.cases = t.cases
    PROVE  Accepts(s, e, vs) <=> Accepts(t, e, vs)
  BY DEF Accepts, Follows, MovesTo, CaseOpenIn, OnCurrentVisit, CaseIs

(* A state of the fold. *)
Full(ok, s) ==
    [ok |-> ok, version |-> s.version, visit |-> s.visit,
     context |-> s.context, introduced |-> s.introduced, cases |-> s.cases]

LEMMA StepRefuses ==
    ASSUME NEW s, NEW e, NEW vs, NEW ok \in BOOLEAN, ~ok \/ ~Accepts(s, e, vs)
    PROVE  Reference!ReplayStep(Full(ok, s), e, vs) = Full(FALSE, s)
  <1>1. ~ok \/ ~Reference!Accepts(Full(ok, s), e, vs)
    <2>1. Accepts(Full(ok, s), e, vs) <=> Accepts(s, e, vs)
      BY AcceptsSame DEF Full
    <2> QED
      BY <2>1, ReferenceAccepts
  <1>2. Full(ok, s).ok = ok
    BY DEF Full
  <1>3. Reference!ReplayStep(Full(ok, s), e, vs) = [Full(ok, s) EXCEPT !.ok = FALSE]
    BY <1>1, <1>2 DEF Reference!ReplayStep
  <1> QED
    BY <1>3 DEF Full

LEMMA StepAccepts ==
    ASSUME NEW log, NEW vs, NEW m \in Nat,
           Accepts(StateAfter(log, m), log[m + 1], vs)
    PROVE  Reference!ReplayStep(Full(TRUE, StateAfter(log, m)), log[m + 1], vs)
              = Full(TRUE, StateAfter(log, m + 1))
  <1>1. PICK s, t, e : /\ s = StateAfter(log, m) /\ t = StateAfter(log, m + 1)
                       /\ e = log[m + 1]
    OBVIOUS
  <1>2. Accepts(s, e, vs)
    BY <1>1
  <1>3. /\ t.version = e.version /\ t.visit = e.target
        /\ t.context = e.context
        /\ t.introduced = s.introduced \cup {e.target}
        /\ t.cases = IF Assists(e)
                     THEN [c \in DOMAIN s.cases \cup {e.case} |->
                             IF c = e.case
                             THEN [visit |-> e.source,
                                   status |-> StatusGiven[e.type]]
                             ELSE s.cases[c]]
                     ELSE s.cases
    BY <1>1, NextState
  <1>4. Reference!Accepts(Full(TRUE, s), e, vs)
    <2>1. Accepts(Full(TRUE, s), e, vs) <=> Accepts(s, e, vs)
      BY AcceptsSame DEF Full
    <2> QED
      BY <1>2, <2>1, ReferenceAccepts
  <1>5. /\ Full(TRUE, s).ok /\ Full(TRUE, s).version = s.version
        /\ Full(TRUE, s).visit = s.visit /\ Full(TRUE, s).cases = s.cases
        /\ Full(TRUE, s).introduced = s.introduced
    BY DEF Full
  <1>6. Reference!ReplayStep(Full(TRUE, s), e, vs) =
           [ok         |-> TRUE,
            version    |-> s.version + 1,
            visit      |-> IF e.type \in AssistanceTypes
                                 \cup {"CONTEXT_REVISED"}
                           THEN s.visit ELSE e.target,
            context    |-> e.context,
            introduced |-> s.introduced \cup {e.target},
            cases      |-> Reference!ReplayedCases(Full(TRUE, s), e)]
    BY <1>4, <1>5 DEF Reference!ReplayStep, Reference!AssistanceTypes,
                      AssistanceTypes, Reference!StatusGiven, StatusGiven
  <1>7. s.version + 1 = e.version
    BY <1>2 DEF Accepts
  <1>8. Assists(e) <=> e.type \in {"ASSISTANCE_REQUESTED",
                                   "ASSISTANCE_ESCALATED_TO_HUMAN",
                                   "ASSISTANCE_RESOLVED"}
    BY DEF Assists, AssistanceTypes, StatusGiven
  <1>9. Assists(e) => e.source = s.visit /\ e.target = s.visit
    BY <1>2, <1>8 DEF Accepts, OnCurrentVisit
  <1>10. (IF e.type \in AssistanceTypes \cup {"CONTEXT_REVISED"}
          THEN s.visit ELSE e.target) = t.visit
    <2>1. e.type = "CONTEXT_REVISED" => e.target = s.visit
      BY <1>2 DEF Accepts
    <2> QED
      BY <1>3, <1>9, <2>1 DEF Assists
  <1>11. Reference!ReplayedCases(Full(TRUE, s), e) = t.cases
    <2>1. CASE ~Assists(e)
      BY <1>3, <1>5, <1>8, <2>1 DEF Reference!ReplayedCases
    <2>2. CASE Assists(e)
      <3>1. t.cases = [c \in DOMAIN s.cases \cup {e.case} |->
                         IF c = e.case
                         THEN [visit |-> s.visit, status |-> StatusGiven[e.type]]
                         ELSE s.cases[c]]
        BY <1>3, <1>9, <2>2
      <3>2. StatusGiven[e.type] =
               CASE e.type = "ASSISTANCE_REQUESTED" -> "OWNER_PENDING"
                 [] e.type = "ASSISTANCE_ESCALATED_TO_HUMAN" ->
                       "HUMAN_REQUIRED"
                 [] e.type = "ASSISTANCE_RESOLVED" -> "RESOLVED"
        BY <1>8, <2>2 DEF StatusGiven
      <3>3. CASE e.type = "ASSISTANCE_REQUESTED"
        BY <1>5, <3>1, <3>2, <3>3 DEF Reference!ReplayedCases
      <3>4. CASE e.type = "ASSISTANCE_ESCALATED_TO_HUMAN"
        BY <1>5, <3>1, <3>2, <3>4 DEF Reference!ReplayedCases
      <3>5. CASE e.type = "ASSISTANCE_RESOLVED"
        BY <1>5, <3>1, <3>2, <3>5 DEF Reference!ReplayedCases
      <3> QED
        BY <1>8, <2>2, <3>3, <3>4, <3>5
    <2> QED
      BY <2>1, <2>2
  <1> QED
    BY <1>1, <1>3, <1>6, <1>7, <1>10, <1>11 DEF Full

(* The equation of the fold, and what solves it. *)
Solves(f, log, vs) ==
    f = [n \in 0..Len(log) |->
           IF n = 0 THEN Reference!ReplayStart
           ELSE Reference!ReplayStep(f[n - 1], log[n], vs)]

LEMMA FoldSolves ==
    ASSUME NEW log, NEW vs, NEW g, Solves(g, log, vs)
    PROVE  \E f : Solves(f, log, vs) /\ Reference!Fold(log, vs) = f[Len(log)]
  BY Zenon DEF Solves, Reference!Fold

(* The events before the n-th are accepted one by one. *)
Good(log, vs, n) ==
    \A i \in 1..n : Accepts(StateAfter(log, i - 1), log[i], vs)

(* The fold in closed form: a refused event freezes the state before it. *)
Refused(log, vs) ==
    CHOOSE k \in 1..Len(log) :
        Good(log, vs, k - 1) /\ ~Accepts(StateAfter(log, k - 1), log[k], vs)

FoldedOf(log, vs) ==
    [n \in 0..Len(log) |->
        IF Good(log, vs, n) THEN Full(TRUE, StateAfter(log, n))
        ELSE Full(FALSE, StateAfter(log, Refused(log, vs) - 1))]

LEMMA StartIsEmpty ==
    ASSUME NEW log
    PROVE  Reference!ReplayStart = Full(TRUE, StateAfter(log, 0))
  <1>1. Seen(log, 0) = {}
    BY DEF Seen
  <1>2. StateAfter(log, 0).cases = << >>
    <2>1. StateAfter(log, 0).cases = [c \in Seen(log, 0) |-> Entry(log, 0, c)]
      BY CasesAre
    <2>2. [c \in {} |-> Entry(log, 0, c)] = << >>
      OBVIOUS
    <2> QED
      BY <1>1, <2>1, <2>2
  <1>3. /\ StateAfter(log, 0).version = 0 /\ StateAfter(log, 0).visit = 0
        /\ StateAfter(log, 0).context = 0 /\ StateAfter(log, 0).introduced = {}
    BY DEF StateAfter
  <1> QED
    BY <1>2, <1>3 DEF Reference!ReplayStart, Full

LEMMA GoodNext ==
    ASSUME NEW log, NEW vs, NEW n \in Nat \ {0}
    PROVE  Good(log, vs, n) <=>
             /\ Good(log, vs, n - 1)
             /\ Accepts(StateAfter(log, n - 1), log[n], vs)
  <1>1. 1..n = 1..(n - 1) \cup {n}
    OBVIOUS
  <1> QED
    BY <1>1 DEF Good

LEMMA ClosedSolves ==
    ASSUME NEW log, NEW vs, Len(log) \in Nat
    PROVE  Solves(FoldedOf(log, vs), log, vs)
  <1> DEFINE g == FoldedOf(log, vs)
             N == Len(log)
             Step(n) == IF n = 0 THEN Reference!ReplayStart
                        ELSE Reference!ReplayStep(g[n - 1], log[n], vs)
  <1>1. ASSUME NEW n \in 0..N
        PROVE  g[n] = IF Good(log, vs, n) THEN Full(TRUE, StateAfter(log, n))
                      ELSE Full(FALSE, StateAfter(log, Refused(log, vs) - 1))
    BY DEF FoldedOf
  <1>2. ASSUME NEW n \in 0..N
        PROVE  g[n] = Step(n)
    <2> HIDE DEF g
    <2>1. CASE n = 0
      <3>1. Good(log, vs, 0)
        BY DEF Good
      <3> QED
        BY <1>1, <2>1, <3>1, StartIsEmpty
    <2>2. CASE n # 0
      <3>1. n \in Nat \ {0} /\ n - 1 \in 0..N /\ n - 1 \in Nat /\ (n - 1) + 1 = n
            /\ n \in 1..N
        BY <2>2
      <3>2. CASE Good(log, vs, n)
        <4>1. Good(log, vs, n - 1) /\ Accepts(StateAfter(log, n - 1), log[n], vs)
          BY <3>1, <3>2, GoodNext
        <4>2. g[n - 1] = Full(TRUE, StateAfter(log, n - 1))
          BY <1>1, <3>1, <4>1
        <4>3. Reference!ReplayStep(Full(TRUE, StateAfter(log, n - 1)), log[n], vs)
                = Full(TRUE, StateAfter(log, n))
          BY <3>1, <4>1, StepAccepts
        <4> QED
          BY <1>1, <2>2, <3>2, <4>2, <4>3
      <3>3. CASE ~Good(log, vs, n) /\ Good(log, vs, n - 1)
        <4>1. ~Accepts(StateAfter(log, n - 1), log[n], vs)
          BY <3>1, <3>3, GoodNext
        <4>2. g[n - 1] = Full(TRUE, StateAfter(log, n - 1))
          BY <1>1, <3>1, <3>3
        <4>3. Reference!ReplayStep(g[n - 1], log[n], vs)
                = Full(FALSE, StateAfter(log, n - 1))
          BY <4>1, <4>2, StepRefuses
        <4>4. Refused(log, vs) = n
          <5>1. PICK k : k = Refused(log, vs)
            OBVIOUS
          <5>2. /\ k \in 1..N /\ Good(log, vs, k - 1)
                /\ ~Accepts(StateAfter(log, k - 1), log[k], vs)
            BY <3>1, <3>3, <4>1, <5>1, Zenon DEF Refused
          <5>3. ~(k < n)
            BY <3>1, <3>3, <5>2 DEF Good
          <5>4. ~(n < k)
            BY <3>1, <4>1, <5>2 DEF Good
          <5>5. k = n
            BY <3>1, <5>2, <5>3, <5>4
          <5> QED
            BY <5>1, <5>5
        <4>5. g[n] = Full(FALSE, StateAfter(log, n - 1))
          BY <1>1, <3>3, <4>4
        <4> QED
          BY <2>2, <4>3, <4>5
      <3>4. CASE ~Good(log, vs, n - 1)
        <4>1. ~Good(log, vs, n)
          BY <3>1, <3>4, GoodNext
        <4>2. /\ g[n - 1] = Full(FALSE, StateAfter(log, Refused(log, vs) - 1))
              /\ g[n] = g[n - 1]
          BY <1>1, <3>1, <3>4, <4>1
        <4>3. Reference!ReplayStep(g[n - 1], log[n], vs) = g[n - 1]
          BY <4>2, StepRefuses
        <4> QED
          BY <2>2, <4>2, <4>3
      <3> QED
        BY <3>2, <3>3, <3>4
    <2> QED
      BY <2>1, <2>2
  <1>3. g = [n \in 0..N |-> g[n]]
    BY DEF FoldedOf
  <1>4. g = [n \in 0..N |-> Step(n)]
    <2> HIDE DEF g, N, Step
    <2> QED
      BY <1>2, <1>3
  <1> QED
    BY <1>4 DEF Solves

(* Solutions agree. *)
LEMMA SolutionUnique ==
    ASSUME NEW log, NEW vs, Len(log) \in Nat, NEW f, NEW g,
           Solves(f, log, vs), Solves(g, log, vs)
    PROVE  f[Len(log)] = g[Len(log)]
  <1> DEFINE S == {n \in 0..Len(log) : f[n] # g[n]}
  <1>1. \A n \in 0..Len(log) :
           /\ f[n] = IF n = 0 THEN Reference!ReplayStart
                     ELSE Reference!ReplayStep(f[n - 1], log[n], vs)
           /\ g[n] = IF n = 0 THEN Reference!ReplayStart
                     ELSE Reference!ReplayStep(g[n - 1], log[n], vs)
    BY Zenon DEF Solves
  <1>2. ASSUME S # {} PROVE FALSE
    <2>1. S \subseteq Nat
      OBVIOUS
    <2>2. PICK n \in S : \A l \in S : n <= l
      BY <1>2, <2>1, LeastOf
    <2>3. n \in 0..Len(log) /\ f[n] # g[n] /\ n # 0
      BY <1>1, <2>2
    <2>4. n - 1 \in 0..Len(log) /\ n - 1 < n
      BY <2>3
    <2>5. f[n - 1] = g[n - 1]
      BY <2>2, <2>3, <2>4
    <2> QED
      BY <1>1, <2>3, <2>5
  <1>3. Len(log) \in 0..Len(log)
    OBVIOUS
  <1> QED
    BY <1>2, <1>3

(* Folding a log event by event gives its closed form, whatever the log. *)
LEMMA FoldReads ==
    ASSUME NEW log, NEW vs, Len(log) \in Nat
    PROVE  LET s == Reference!Fold(log, vs)
               t == StateAfter(log, Len(log))
           IN  /\ s.ok <=> Good(log, vs, Len(log))
               /\ s.ok => s = Full(TRUE, t)
  <1>1. Solves(FoldedOf(log, vs), log, vs)
    BY ClosedSolves
  <1>2. PICK f : Solves(f, log, vs) /\ Reference!Fold(log, vs) = f[Len(log)]
    BY <1>1, FoldSolves
  <1>3. Reference!Fold(log, vs) = FoldedOf(log, vs)[Len(log)]
    BY <1>1, <1>2, SolutionUnique
  <1>4. FoldedOf(log, vs)[Len(log)] =
           IF Good(log, vs, Len(log)) THEN Full(TRUE, StateAfter(log, Len(log)))
           ELSE Full(FALSE, StateAfter(log, Refused(log, vs) - 1))
    <2>1. Len(log) \in 0..Len(log)
      OBVIOUS
    <2> QED
      BY <2>1 DEF FoldedOf
  <1>5. \A x : Full(TRUE, x).ok = TRUE /\ Full(FALSE, x).ok = FALSE
    BY DEF Full
  <1> QED
    BY <1>3, <1>4, <1>5

(* Recovery reads a log as the fold does: it reconstructs the logs the fold *)
(* ends well on, and to the same row.                                       *)
LEMMA LogInvReplays == LogInv => ReplayIsTheFold
  <1> SUFFICES ASSUME LogInv PROVE ReplayIsTheFold
    OBVIOUS
  <1>1. Len(events) \in Nat /\ version = Len(events)
    BY DEF LogInv, IInv, TypeOK, Traced
  <1>2. PICK s, t : /\ s = Reference!Fold(events, visits)
                    /\ t = StateAfter(events, Len(events))
    OBVIOUS
  <1>3. /\ s.ok <=> Good(events, visits, Len(events))
        /\ s.ok => s = Full(TRUE, t)
    BY <1>1, <1>2, FoldReads
  <1>4. s.ok => /\ s.version = t.version /\ s.visit = t.visit
                /\ s.context = t.context /\ s.introduced = t.introduced
    BY <1>3 DEF Full
  <1>5. LogReconstructs <=> /\ Exists /\ Good(events, visits, Len(events))
                            /\ t.introduced = DOMAIN visits
                            /\ t.context = revisions
    BY <1>1, <1>2 DEF LogReconstructs, Reconstructs, Good, Exists
  <1>6. Replayed = <<t.version, t.visit, t.context>>
    BY <1>2 DEF Replayed
  <1> QED
    BY <1>2, <1>3, <1>4, <1>5, <1>6 DEF ReplayIsTheFold

-----------------------------------------------------------------------------
(* A log of supported events is accepted, and folds into the row and the    *)
(* cases the commands kept.  Only the voiding of a case logs no event: it   *)
(* goes with a visit that is left for good.                                 *)
Mirrors(log, vs, ctx, cs) ==
    LET s == StateAfter(log, Len(log))
    IN  /\ Good(log, vs, Len(log))
        /\ s.version = Len(log) /\ s.visit = Len(vs) /\ s.context = ctx
        /\ s.introduced = 1..Len(vs)
        /\ DOMAIN s.cases = DOMAIN cs
        /\ \A c \in DOMAIN cs :
              /\ s.cases[c].visit = cs[c].visit /\ cs[c].visit \in 1..Len(vs)
              /\ \/ s.cases[c].status = cs[c].status
                 \/ cs[c].status = "VOIDED" /\ cs[c].visit # Len(vs)

(* What an event says of the visits and cases it is logged with. *)
Continues(e, vs, more, cs, kept) ==
    /\ \/ more = vs
       \/ \E x \in Visit : more = Append(vs, x)
    /\ Len(more) > 0 /\ e.target = Len(more)
    /\ DOMAIN kept = DOMAIN cs \cup (IF Assists(e) THEN {e.case} ELSE {})
    /\ Assists(e) => /\ e.source = Len(more)
                     /\ kept[e.case].visit = Len(more)
                     /\ kept[e.case].status = StatusGiven[e.type]
    /\ \A c \in DOMAIN cs :
          \/ Assists(e) /\ c = e.case
          \/ /\ kept[c].visit = cs[c].visit
             /\ \/ kept[c].status = cs[c].status
                \/ kept[c].status = "VOIDED" /\ Len(more) = Len(vs) + 1

(* A visit more takes nothing from what was accepted without it. *)
LEMMA AcceptsMore ==
    ASSUME NEW s, NEW e, NEW vs \in Seq(Visit), NEW x \in Visit,
           Accepts(s, e, vs),
           e.type = "INSTANCE_CREATED" \/ s.visit \in DOMAIN vs
    PROVE  Accepts(s, e, Append(vs, x))
  <1> DEFINE more == Append(vs, x)
  <1>1. DOMAIN vs \subseteq DOMAIN more /\ \A v \in DOMAIN vs : more[v] = vs[v]
    OBVIOUS
  <1> HIDE DEF more
  <1>2. e.type = "INSTANCE_CREATED" => Accepts(s, e, more)
    BY <1>1 DEF Accepts
  <1>3. ASSUME e.type # "INSTANCE_CREATED" PROVE Accepts(s, e, more)
    <2>1. more[s.visit] = vs[s.visit]
      BY <1>1, <1>3
    <2>2. MovesTo(s, e, vs, NoTransition) => MovesTo(s, e, more, NoTransition)
      BY <1>1 DEF MovesTo
    <2>3. Follows(s, e, vs) => Follows(s, e, more)
      BY <1>1, <2>1 DEF Follows, MovesTo
    <2> QED
      BY <1>3, <2>1, <2>2, <2>3 DEF Accepts
  <1>4. Accepts(s, e, more)
    BY <1>2, <1>3
  <1> QED
    BY <1>4 DEF more

LEMMA GoodGrows ==
    ASSUME NEW log, Len(log) \in Nat, NEW vs \in Seq(Visit), NEW x \in Visit,
           Good(log, vs, Len(log)),
           StateAfter(log, Len(log)).introduced \subseteq 1..Len(vs),
           log[1].type = "INSTANCE_CREATED"
    PROVE  Good(log, Append(vs, x), Len(log))
  <1> SUFFICES ASSUME NEW i \in 1..Len(log)
               PROVE  Accepts(StateAfter(log, i - 1), log[i], Append(vs, x))
    BY DEF Good
  <1>1. Accepts(StateAfter(log, i - 1), log[i], vs)
    BY DEF Good
  <1>2. i = 1 \/ StateAfter(log, i - 1).visit \in DOMAIN vs
    <2>1. StateAfter(log, Len(log)).introduced = {log[j].target : j \in 1..Len(log)}
      BY StateIs
    <2>2. i # 1 => StateAfter(log, i - 1).visit = log[i - 1].target
      BY StateIs
    <2>3. i # 1 => i - 1 \in 1..Len(log)
      OBVIOUS
    <2>4. DOMAIN vs = 1..Len(vs)
      OBVIOUS
    <2> QED
      BY <2>1, <2>2, <2>3, <2>4
  <1> QED
    BY <1>1, <1>2, AcceptsMore

LEMMA GoodOneMore ==
    ASSUME NEW log \in Seq(Event), NEW e \in Event, NEW vs,
           Good(log, vs, Len(log)), Accepts(StateAfter(log, Len(log)), e, vs)
    PROVE  Good(Append(log, e), vs, Len(log) + 1)
  <1> DEFINE more == Append(log, e)
             n == Len(log)
  <1>1. n \in Nat /\ more[n + 1] = e /\ \A i \in 1..n : more[i] = log[i]
    BY Appended
  <1> HIDE DEF more, n
  <1>2. ASSUME NEW i \in 0..n PROVE StateAfter(more, i) = StateAfter(log, i)
    BY <1>1, StatePrefix
  <1>3. ASSUME NEW i \in 1..(n + 1)
        PROVE  Accepts(StateAfter(more, i - 1), more[i], vs)
    <2>1. CASE i = n + 1
      <3>1. StateAfter(more, n) = StateAfter(log, n)
        BY <1>1, <1>2
      <3>2. i - 1 = n
        BY <1>1, <2>1
      <3>3. Accepts(StateAfter(log, n), e, vs)
        BY DEF n
      <3> QED
        BY <1>1, <2>1, <3>1, <3>2, <3>3
    <2>2. CASE i \in 1..n
      <3>1. i - 1 \in 0..n
        BY <1>1, <2>2
      <3>2. StateAfter(more, i - 1) = StateAfter(log, i - 1) /\ more[i] = log[i]
        BY <1>1, <1>2, <2>2, <3>1
      <3>3. Accepts(StateAfter(log, i - 1), log[i], vs)
        BY <2>2 DEF Good, n
      <3> QED
        BY <3>2, <3>3
    <2> QED
      BY <1>1, <2>1, <2>2
  <1> QED
    BY <1>3 DEF Good, more, n

(* State t is what event e makes of state s, field by field. *)
FoldsInto(s, e, t) ==
    /\ t.version = e.version /\ t.visit = e.target
    /\ t.context = e.context
    /\ t.introduced = s.introduced \cup {e.target}
    /\ DOMAIN t.cases = IF Assists(e) THEN DOMAIN s.cases \cup {e.case}
                        ELSE DOMAIN s.cases
    /\ \A c \in DOMAIN t.cases :
          IF Assists(e) /\ c = e.case
          THEN /\ t.cases[c].visit = e.source
               /\ t.cases[c].status = StatusGiven[e.type]
          ELSE t.cases[c] = s.cases[c]

LEMMA OneEventFolds ==
    ASSUME NEW log, NEW m \in Nat, NEW s, NEW t, NEW e,
           s = StateAfter(log, m), t = StateAfter(log, m + 1), e = log[m + 1]
    PROVE  FoldsInto(s, e, t)
  <1>1. /\ t.version = e.version /\ t.visit = e.target
        /\ t.context = e.context
        /\ t.introduced = s.introduced \cup {e.target}
        /\ t.cases = IF Assists(e)
                     THEN [c \in DOMAIN s.cases \cup {e.case} |->
                             IF c = e.case
                             THEN [visit |-> e.source,
                                   status |-> StatusGiven[e.type]]
                             ELSE s.cases[c]]
                     ELSE s.cases
    BY NextState
  <1> QED
    BY <1>1 DEF FoldsInto

(* An accepted event keeps the fold the mirror of the row. *)
LEMMA MirrorGrows ==
    ASSUME NEW log \in Seq(Event), NEW e \in Event, NEW vs \in Seq(Visit),
           NEW more, NEW ctx, NEW cs, NEW kept, Mirrors(log, vs, ctx, cs),
           log # << >> => log[1].type = "INSTANCE_CREATED",
           Continues(e, vs, more, cs, kept),
           Accepts(StateAfter(log, Len(log)), e, more)
    PROVE  Mirrors(Append(log, e), more, e.context, kept)
  <1>0. PICK n, g, s, t : /\ n = Len(log) /\ g = Append(log, e)
                          /\ s = StateAfter(log, n)
                          /\ t = StateAfter(g, n + 1)
    OBVIOUS
  <1>1. /\ n \in Nat /\ Len(g) = n + 1 /\ e = g[n + 1]
        /\ \A i \in 1..n : g[i] = log[i]
    BY <1>0, Appended
  <1>2. s = StateAfter(g, n)
    BY <1>0, <1>1, StatePrefix
  <1>3. FoldsInto(s, e, t)
    BY <1>0, <1>1, <1>2, OneEventFolds
  <1>4. /\ Good(log, vs, n)
        /\ s.version = n /\ s.introduced = 1..Len(vs)
        /\ DOMAIN s.cases = DOMAIN cs
        /\ \A c \in DOMAIN cs :
              /\ s.cases[c].visit = cs[c].visit /\ cs[c].visit \in 1..Len(vs)
              /\ \/ s.cases[c].status = cs[c].status
                 \/ cs[c].status = "VOIDED" /\ cs[c].visit # Len(vs)
    BY <1>0 DEF Mirrors
  <1>5. Accepts(s, e, more)
    BY <1>0
  <1>6. /\ Len(vs) \in Nat
        /\ Len(more) \in {Len(vs), Len(vs) + 1} /\ Len(more) > 0
        /\ e.target = Len(more)
        /\ Len(more) = Len(vs) => more = vs
    BY DEF Continues
  <1>7. Good(log, more, n)
    <2>1. CASE n = 0
      BY <2>1 DEF Good
    <2>2. CASE n # 0 /\ more # vs
      <3>1. PICK x \in Visit : more = Append(vs, x)
        BY <2>2 DEF Continues
      <3>2. log[1].type = "INSTANCE_CREATED"
        BY <1>0, <2>2
      <3> QED
        BY <1>0, <1>1, <1>4, <3>1, <3>2, GoodGrows
    <2> QED
      BY <1>4, <2>1, <2>2
  <1>8. Good(g, more, n + 1)
    BY <1>0, <1>5, <1>7, GoodOneMore
  <1>9. t.introduced = 1..Len(more)
    BY <1>3, <1>4, <1>6 DEF FoldsInto
  <1>10. t.version = n + 1
    BY <1>3, <1>4, <1>5 DEF Accepts, FoldsInto
  <1>11. DOMAIN t.cases = DOMAIN kept
    BY <1>3, <1>4 DEF Continues, FoldsInto
  <1>12. ASSUME NEW c \in DOMAIN kept
         PROVE  /\ t.cases[c].visit = kept[c].visit
                /\ kept[c].visit \in 1..Len(more)
                /\ \/ t.cases[c].status = kept[c].status
                   \/ kept[c].status = "VOIDED" /\ kept[c].visit # Len(more)
    <2>1. CASE Assists(e) /\ c = e.case
      <3>1. /\ t.cases[c].visit = e.source
            /\ t.cases[c].status = StatusGiven[e.type]
        BY <1>3, <1>11, <2>1 DEF FoldsInto
      <3> QED
        BY <1>6, <2>1, <3>1 DEF Continues
    <2>2. CASE ~(Assists(e) /\ c = e.case)
      <3>1. c \in DOMAIN cs
        BY <2>2 DEF Continues
      <3>2. t.cases[c] = s.cases[c]
        BY <1>3, <1>11, <2>2 DEF FoldsInto
      <3>3. /\ kept[c].visit = cs[c].visit
            /\ \/ kept[c].status = cs[c].status
               \/ kept[c].status = "VOIDED" /\ Len(more) = Len(vs) + 1
        BY <2>2, <3>1 DEF Continues
      <3> QED
        BY <1>4, <1>6, <3>1, <3>2, <3>3
    <2> QED
      BY <2>1, <2>2
  <1>13. t.visit = Len(more) /\ t.context = e.context
    BY <1>3, <1>6 DEF FoldsInto
  <1>14. Len(g) = n + 1 /\ t = StateAfter(g, Len(g)) /\ Good(g, more, Len(g))
    BY <1>0, <1>1, <1>8
  <1>15. Mirrors(g, more, e.context, kept)
    BY <1>9, <1>10, <1>11, <1>12, <1>13, <1>14 DEF Mirrors
  <1> QED
    BY <1>0, <1>15

-----------------------------------------------------------------------------
(* A log recovery is made for: no event without an arm, and no repair away  *)
(* from the DRAFT.                                                          *)
Replayable(log, vs) ==
    /\ \A i \in DOMAIN log : log[i].type \notin NotReplayable
    /\ \A i \in DOMAIN log :
          log[i].type = "CONTEXT_REVISED" =>
              NodeType[vs[log[i].source].node] = "DRAFT"

(* A revision is logged at a visit there is. *)
Sited(log, n) ==
    \A i \in DOMAIN log :
        log[i].type = "CONTEXT_REVISED" => log[i].source \in 1..n

(* Every supported history is mirrored. *)
ReplayInv ==
    /\ LogInv
    /\ Sited(events, Len(visits))
    /\ Legacy /\ Replayable(events, visits) =>
          Mirrors(events, visits, context, cases)

LEMMA ReplayInvIsProperty == ReplayInv => SupportedHistoryReplays
  <1> SUFFICES ASSUME ReplayInv, Exists, Legacy,
                      \A type \in NotReplayable : ~Happened(type),
                      \A i \in DOMAIN events :
                         events[i].type = "CONTEXT_REVISED" =>
                            NodeType[visits[events[i].source].node] = "DRAFT"
               PROVE  LogReconstructs /\ Replayed = Projection
    BY DEF SupportedHistoryReplays
  <1>1. Replayable(events, visits)
    BY DEF Replayable, Happened
  <1>2. PICK s : s = StateAfter(events, Len(events))
    OBVIOUS
  <1>3. /\ Good(events, visits, Len(events))
        /\ s.version = Len(events) /\ s.visit = Len(visits)
        /\ s.context = context /\ s.introduced = 1..Len(visits)
    BY <1>1, <1>2 DEF ReplayInv, Mirrors
  <1>4. /\ version = Len(events) /\ visit = Len(visits) /\ context = revisions
        /\ version \in Nat /\ DOMAIN visits = 1..Len(visits)
    BY DEF ReplayInv, LogInv, Traced, IInv, TypeOK
  <1>5. LogReconstructs
    BY <1>2, <1>3, <1>4 DEF LogReconstructs, Reconstructs, Good, Exists
  <1>6. Replayed = Projection
    BY <1>2, <1>3, <1>4 DEF Replayed, Projection
  <1> QED
    BY <1>5, <1>6

(* What a command adds to the log and to the visits. *)
Lengthens ==
    /\ \/ UNCHANGED visits
       \/ \E x \in Visit : visits' = Append(visits, x)
    /\ \/ UNCHANGED <<events, visits>>
       \/ \E e \in Event :
             /\ events' = Append(events, e)
             /\ e.type = "CONTEXT_REVISED" =>
                   e.source = visit /\ Exists /\ UNCHANGED visits
       \/ \E e, f \in Event :
             /\ events' = Append(Append(events, e), f)
             /\ e.type # "CONTEXT_REVISED" /\ f.type # "CONTEXT_REVISED"

Mirroring ==
    Legacy /\ Replayable(events', visits')
           /\ Mirrors(events, visits, context, cases) =>
        Mirrors(events', visits', context', cases')

LEMMA SitedGrows ==
    ASSUME NEW log \in Seq(Event), NEW e \in Event, NEW n \in Nat,
           NEW m \in {n, n + 1}, Sited(log, n),
           e.type = "CONTEXT_REVISED" => e.source \in 1..n
    PROVE  Sited(Append(log, e), m)
  BY Appended DEF Sited

LEMMA ReplayableStarts ==
    ASSUME NEW log \in Seq(Event), NEW e \in Event, NEW vs \in Seq(Visit),
           NEW more, more = vs \/ \E x \in Visit : more = Append(vs, x),
           Sited(log, Len(vs)), Replayable(Append(log, e), more)
    PROVE  Replayable(log, vs)
  <1> DEFINE g == Append(log, e)
  <1>1. /\ DOMAIN log = 1..Len(log) /\ DOMAIN g = 1..(Len(log) + 1)
        /\ Len(log) \in Nat /\ \A i \in 1..Len(log) : g[i] = log[i]
    BY Appended
  <1>2. \A v \in 1..Len(vs) : more[v] = vs[v]
    OBVIOUS
  <1> HIDE DEF g
  <1>3. Replayable(g, more)
    BY DEF g
  <1>4. ASSUME NEW i \in DOMAIN log
        PROVE  /\ log[i].type \notin NotReplayable
               /\ log[i].type = "CONTEXT_REVISED" =>
                     NodeType[vs[log[i].source].node] = "DRAFT"
    <2>1. i \in DOMAIN g /\ g[i] = log[i]
      BY <1>1
    <2>2. log[i].type = "CONTEXT_REVISED" => more[log[i].source] = vs[log[i].source]
      BY <1>2 DEF Sited
    <2>3. /\ log[i].type \notin NotReplayable
          /\ log[i].type = "CONTEXT_REVISED" =>
                NodeType[more[log[i].source].node] = "DRAFT"
      BY <1>3, <2>1 DEF Replayable
    <2> QED
      BY <2>2, <2>3
  <1> QED
    BY <1>4 DEF Replayable

LEMMA ReplayStays ==
    ASSUME ReplayInv, LogInv', Lengthens, Mirroring
    PROVE  ReplayInv'
  <1>1. /\ events \in Seq(Event) /\ visits \in Seq(Visit) /\ Len(visits) \in Nat
        /\ Sited(events, Len(visits))
    BY DEF ReplayInv, LogInv, IInv, TypeOK
  <1>2. Len(visits') \in {Len(visits), Len(visits) + 1}
    BY <1>1 DEF Lengthens
  <1>3. /\ Sited(events', Len(visits'))
        /\ Replayable(events', visits') => Replayable(events, visits)
    <2>1. CASE UNCHANGED <<events, visits>>
      BY <1>1, <2>1
    <2>2. ASSUME NEW e \in Event, events' = Append(events, e),
                 e.type = "CONTEXT_REVISED" =>
                     e.source = visit /\ Exists /\ UNCHANGED visits
          PROVE  /\ Sited(events', Len(visits'))
                 /\ Replayable(events', visits') => Replayable(events, visits)
      <3>1. visit = Len(visits) /\ (Exists => Len(visits) > 0)
        BY <1>1 DEF ReplayInv, LogInv, Anchored
      <3>2. e.type = "CONTEXT_REVISED" => e.source \in 1..Len(visits)
        BY <1>1, <2>2, <3>1
      <3>3. Sited(Append(events, e), Len(visits'))
        BY <1>1, <1>2, <3>2, SitedGrows
      <3>4. Replayable(Append(events, e), visits') => Replayable(events, visits)
        BY <1>1, ReplayableStarts DEF Lengthens
      <3> QED
        BY <2>2, <3>3, <3>4
    <2>3. ASSUME NEW e \in Event, NEW f \in Event,
                 events' = Append(Append(events, e), f),
                 e.type # "CONTEXT_REVISED", f.type # "CONTEXT_REVISED"
          PROVE  /\ Sited(events', Len(visits'))
                 /\ Replayable(events', visits') => Replayable(events, visits)
      <3>1. PICK g : g = Append(events, e)
        OBVIOUS
      <3>2. g \in Seq(Event)
        BY <1>1, <3>1, Appended
      <3>3. Sited(g, Len(visits)) /\ Sited(g, Len(visits'))
        BY <1>1, <1>2, <2>3, <3>1, SitedGrows
      <3>4. Sited(Append(g, f), Len(visits'))
        BY <1>1, <1>2, <2>3, <3>2, <3>3, SitedGrows
      <3>5. Replayable(Append(g, f), visits') => Replayable(g, visits)
        BY <1>1, <3>2, <3>3, ReplayableStarts DEF Lengthens
      <3>6. Replayable(Append(events, e), visits) => Replayable(events, visits)
        BY <1>1, ReplayableStarts
      <3> QED
        BY <2>3, <3>1, <3>4, <3>5, <3>6
    <2> QED
      BY <2>1, <2>2, <2>3 DEF Lengthens
  <1> QED
    BY <1>3 DEF ReplayInv, Mirroring

-----------------------------------------------------------------------------
(* What the fold knows, in the terms of the row. *)
MirrorsRow(s) ==
    /\ s.version = version /\ s.visit = visit /\ s.context = context
    /\ s.introduced = 1..Len(visits)
    /\ DOMAIN s.cases = DOMAIN cases
    /\ \A c \in DOMAIN cases :
          /\ s.cases[c].visit = cases[c].visit
          /\ cases[c].visit = visit => s.cases[c].status = cases[c].status
    /\ OpenOn(visit) = {} => ~CaseOpenIn(s, visit)

LEMMA MirrorIsRow ==
    ASSUME LogInv, Mirrors(events, visits, context, cases), NEW s,
           s = StateAfter(events, Len(events))
    PROVE  MirrorsRow(s)
  <1>1. version = Len(events) /\ visit = Len(visits)
    BY DEF LogInv, Traced
  <1>2. /\ s.version = version /\ s.visit = visit /\ s.context = context
        /\ s.introduced = 1..Len(visits)
        /\ DOMAIN s.cases = DOMAIN cases
        /\ \A c \in DOMAIN cases :
              /\ s.cases[c].visit = cases[c].visit
              /\ cases[c].visit = visit => s.cases[c].status = cases[c].status
    BY <1>1 DEF Mirrors
  <1>3. OpenOn(visit) = {} => ~CaseOpenIn(s, visit)
    BY <1>2 DEF OpenOn, OpenCases, CaseOpenIn
  <1> QED
    BY <1>2, <1>3 DEF MirrorsRow

(* One event, which recovery accepts if it can read it. *)
OneRead(e) ==
    /\ e \in Event /\ events' = Append(events, e)
    /\ \/ UNCHANGED visits
       \/ \E x \in Visit : visits' = Append(visits, x)
    /\ e.type = "CONTEXT_REVISED" =>
          e.source = visit /\ Exists /\ UNCHANGED visits
    /\ e.type \notin NotReplayable =>
          /\ Continues(e, visits, visits', cases, cases')
          /\ e.context = context'
          /\ \A s : Legacy /\ MirrorsRow(s)
                    /\ (e.type = "CONTEXT_REVISED" => CurrentType = "DRAFT") =>
                Accepts(s, e, visits')

LEMMA FirstIsCreation ==
    ASSUME LogInv, events # << >>
    PROVE  events[1].type = "INSTANCE_CREATED"
  <1>1. events \in Seq(Event) /\ 1 \in DOMAIN events
    BY DEF LogInv, IInv, TypeOK
  <1> QED
    BY <1>1 DEF LogInv, Traced

LEMMA OneReadMirrors ==
    ASSUME LogInv, NEW e, OneRead(e)
    PROVE  Lengthens /\ Mirroring
  <1>1. Lengthens
    BY DEF OneRead, Lengthens
  <1>2. ASSUME Legacy, Replayable(events', visits'),
               Mirrors(events, visits, context, cases)
        PROVE  Mirrors(events', visits', context', cases')
    <2>1. /\ events \in Seq(Event) /\ visits \in Seq(Visit) /\ e \in Event
          /\ events' = Append(events, e)
      BY DEF LogInv, IInv, TypeOK, OneRead
    <2>2. /\ e.type \notin NotReplayable
          /\ e.type = "CONTEXT_REVISED" =>
                NodeType[visits'[e.source].node] = "DRAFT"
      <3>1. /\ Len(events) + 1 \in DOMAIN events'
            /\ events'[Len(events) + 1] = e
        BY <2>1, Appended
      <3> QED
        BY <1>2, <3>1 DEF Replayable
    <2>3. e.type = "CONTEXT_REVISED" => CurrentType = "DRAFT"
      BY <2>2 DEF OneRead, CurrentType
    <2>4. PICK s : s = StateAfter(events, Len(events))
      OBVIOUS
    <2>5. MirrorsRow(s)
      BY <1>2, <2>4, MirrorIsRow
    <2>6. Accepts(s, e, visits')
      BY <1>2, <2>2, <2>3, <2>5 DEF OneRead
    <2>7. /\ Continues(e, visits, visits', cases, cases')
          /\ e.context = context'
      BY <2>2 DEF OneRead
    <2>8. Mirrors(Append(events, e), visits', e.context, cases')
      BY <1>2, <2>1, <2>4, <2>6, <2>7, FirstIsCreation, MirrorGrows
    <2> QED
      BY <2>1, <2>7, <2>8
  <1> QED
    BY <1>1, <1>2 DEF Mirroring

LEMMA StillMirrors ==
    ASSUME Still, UNCHANGED cases
    PROVE  Lengthens /\ Mirroring
  BY DEF Still, Lengthens, Mirroring

LEMMA RefuseMirrors == ASSUME Refuse PROVE Lengthens /\ Mirroring
  BY RefuseStep, StillMirrors DEF Refuse, facts

(* A visit more. *)
Opens(more, n, by) ==
    /\ NextVisit \in DOMAIN more
    /\ more[NextVisit].node = n /\ more[NextVisit].by = by
    /\ visit \in DOMAIN visits => more[visit] = visits[visit]
    /\ \E x \in Visit : more = Append(visits, x)

LEMMA MovesOn ==
    ASSUME LogInv, NEW e \in Event, ~Assists(e), e.target = NextVisit,
           NEW n \in Nodes, NEW by \in Transitions \cup {NoTransition},
           NEW kept, DOMAIN kept = DOMAIN cases,
           \A c \in DOMAIN cases :
              /\ kept[c].visit = cases[c].visit
              /\ \/ kept[c].status = cases[c].status
                 \/ kept[c].status = "VOIDED",
           NEW more, more = Append(visits, [node |-> n, by |-> by])
    PROVE  /\ Continues(e, visits, more, cases, kept)
           /\ Opens(more, n, by)
  <1>1. [node |-> n, by |-> by] \in Visit /\ visits \in Seq(Visit)
    BY DEF Visit, LogInv, IInv, TypeOK
  <1>2. PICK x \in Visit : x = [node |-> n, by |-> by]
    BY <1>1
  <1>3. more = Append(visits, x)
    BY <1>2
  <1>4. /\ Len(more) = Len(visits) + 1 /\ Len(visits) \in Nat
        /\ NextVisit = Len(visits) + 1
        /\ NextVisit \in DOMAIN more /\ more[NextVisit] = x
        /\ \A v \in DOMAIN visits : more[v] = visits[v]
    BY <1>1, <1>3 DEF NextVisit
  <1>5. Continues(e, visits, more, cases, kept)
    BY <1>3, <1>4 DEF Continues
  <1> QED
    BY <1>2, <1>3, <1>4, <1>5 DEF Opens

(* An event that leaves the instance where it is. *)
LEMMA StaysPut ==
    ASSUME LogInv, Exists, NEW e, e.target = visit
    PROVE  /\ ~Assists(e) => Continues(e, visits, visits, cases, cases)
           /\ visits \in Seq(Visit) /\ visit \in DOMAIN visits
  <1>1. /\ visits \in Seq(Visit) /\ visit = Len(visits) /\ Len(visits) > 0
        /\ Len(visits) \in Nat
    BY DEF LogInv, IInv, TypeOK, Anchored
  <1>2. ASSUME ~Assists(e)
        PROVE  DOMAIN cases = DOMAIN cases \cup
                                 (IF Assists(e) THEN {e.case} ELSE {})
    BY <1>2
  <1> QED
    BY <1>1, <1>2 DEF Continues

LEMMA NotAssisting ==
    ASSUME NEW e, e.type \in MovingTypes \cup {"CONTEXT_REVISED"}
    PROVE  ~Assists(e) /\ e.type \notin NotReplayable
  BY DEF MovingTypes, Assists, AssistanceTypes, StatusGiven, NotReplayable

LEMMA CreateMirrors ==
    ASSUME LogInv, NEW kind, NEW ok, CreateInstance(kind, ok)
    PROVE  Lengthens /\ Mirroring
  <1>1. CASE Refuse
    BY <1>1, RefuseMirrors
  <1>2. CASE ~Refuse
    <2>1. version = 0 /\ Len(visits) = 0 /\ visits = << >>
      BY DEF CreateInstance, LogInv, Anchored, IInv, TypeOK, Exists
    <2>2. /\ events' = Logged("INSTANCE_CREATED", 0, 1, 1, NoTransition, 0)
          /\ visits' = <<[node |-> EntryNode, by |-> NoTransition]>>
          /\ context' = 1 /\ UNCHANGED cases
      BY <1>2 DEF CreateInstance
    <2>3. PICK e : /\ events' = Append(events, e)
                   /\ EventIs(e, "INSTANCE_CREATED", version + 1, 0, 1, 1,
                              NoTransition, 0, Len(receipts) + 1)
      BY <2>2, LoggedEvent DEF EventTypes, LogInv, IInv
    <2>4. /\ e \in Event /\ e.type = "INSTANCE_CREATED" /\ e.version = 1
          /\ e.target = 1 /\ e.context = 1
      BY <2>1, <2>3 DEF EventIs
    <2>5. ~Assists(e) /\ e.type \notin NotReplayable
      BY <2>4, NotAssisting DEF MovingTypes
    <2>6. /\ visits' = Append(visits, [node |-> EntryNode, by |-> NoTransition])
          /\ EntryNode \in Nodes /\ NextVisit = 1
      BY <2>1, <2>2, DefinitionAssumption DEF NextVisit
    <2>7. /\ Continues(e, visits, visits', cases, cases')
          /\ Opens(visits', EntryNode, NoTransition)
      BY <2>2, <2>4, <2>5, <2>6, MovesOn
    <2>8. ASSUME NEW s, Legacy, MirrorsRow(s)
          PROVE  Accepts(s, e, visits')
      <3>1. NodeType[EntryNode] = "DRAFT"
        BY <2>8, DefinitionAssumption
      <3>2. s.version = 0
        BY <2>1, <2>8 DEF MirrorsRow
      <3> QED
        BY <2>4, <2>6, <2>7, <3>1, <3>2 DEF Accepts, Opens
    <2>9. OneRead(e)
      BY <2>2, <2>3, <2>4, <2>7, <2>8 DEF OneRead, Opens
    <2> QED
      BY <2>9, OneReadMirrors
  <1> QED
    BY <1>1, <1>2

(* A case more. *)
LEMMA OpensCase ==
    ASSUME LogInv, NEW f, f.type = "ASSISTANCE_REQUESTED",
           f.case = NextCase, NEW vs, Len(vs) > 0,
           f.source = Len(vs), f.target = Len(vs), NEW kept,
           kept = Append(cases, [visit |-> Len(vs), status |-> "OWNER_PENDING"])
    PROVE  Continues(f, vs, vs, cases, kept) /\ NextCase \notin DOMAIN cases
  <1>1. Assists(f) /\ StatusGiven[f.type] = "OWNER_PENDING"
    BY DEF Assists, AssistanceTypes, StatusGiven
  <1>2. cases \in Seq(Case) /\ NextCase = Len(cases) + 1 /\ Len(cases) \in Nat
    BY DEF LogInv, IInv, TypeOK, NextCase
  <1>3. PICK c : c = [visit |-> Len(vs), status |-> "OWNER_PENDING"]
    OBVIOUS
  <1>4. /\ DOMAIN cases = 1..Len(cases) /\ DOMAIN kept = 1..(Len(cases) + 1)
        /\ kept[NextCase] = c /\ \A d \in DOMAIN cases : kept[d] = cases[d]
    BY <1>2, <1>3
  <1>5. /\ DOMAIN kept = DOMAIN cases \cup {f.case}
        /\ NextCase \notin DOMAIN cases
    BY <1>2, <1>4
  <1>6. c.visit = Len(vs) /\ c.status = "OWNER_PENDING"
    BY <1>3
  <1> QED
    BY <1>1, <1>4, <1>5, <1>6 DEF Continues

(* The graph's own move, on a visit without an open case. *)
LEMMA FollowsRow ==
    ASSUME LogInv, Exists, OpenOn(visit) = {}, NEW t \in Transitions,
           Source[t] = visits[visit].node, NEW e, NEW more,
           e.source = visit, e.target = NextVisit, e.edge = t,
           Opens(more, Target[t], t), NEW s, MirrorsRow(s)
    PROVE  Follows(s, e, more)
  <1>1. visit \in DOMAIN visits /\ Len(visits) \in Nat
    BY DEF LogInv, IInv, TypeOK, Anchored
  <1>2. s.visit = visit /\ NextVisit \notin s.introduced
    BY <1>1 DEF MirrorsRow, NextVisit
  <1>3. MovesTo(s, e, more, t)
    BY <1>2 DEF MovesTo, Opens
  <1>4. ~CaseOpenIn(s, s.visit)
    BY <1>2 DEF MirrorsRow
  <1>5. more[s.visit] = visits[visit] /\ more[e.target].node = Target[t]
    BY <1>1, <1>2 DEF Opens
  <1> QED
    BY <1>3, <1>4, <1>5 DEF Follows

LEMMA TransitionMirrors ==
    ASSUME LogInv, LogInv', NEW t \in Transitions, NEW kind, NEW x, NEW ok,
           ExecuteTransition(t, x, kind, ok)
    PROVE  Lengthens /\ Mirroring
  <1>1. CASE Refuse
    BY <1>1, RefuseMirrors
  <1>2. CASE ~Refuse
    <2> DEFINE a == ActivationFor(Target[t], kind)
    <2>1. /\ Exists /\ OpenOn(visit) = {} /\ Source[t] = visits[visit].node
          /\ CommitTransition(t, a) \/ CommitLimitReturn(t, a)
          /\ UNCHANGED context
      BY <1>2 DEF ExecuteTransition, TransitionRefused, Applicable
    <2> HIDE DEF a
    <2>2. /\ Target[t] \in Nodes /\ NextVisit \in Nat /\ NextCase \in Nat
          /\ Len(receipts) + 2 \in Nat /\ version + 2 \in Nat /\ visit \in Nat
          /\ version \in Nat /\ context \in Nat
          /\ events \in Seq(Event) /\ visits \in Seq(Visit)
          /\ visit = Len(visits)
      <3>1. events \in Seq(Event) /\ visits \in Seq(Visit)
        BY Numbered DEF TypeOK
      <3>2. Target[t] \in Nodes
        BY DefinitionAssumption
      <3>3. visit = Len(visits)
        BY DEF LogInv
      <3> QED
        BY <3>1, <3>2, <3>3, Numbered DEF NextVisit, NextCase
    <2>3. PICK e : /\ TransitionLogged(t) = Append(events, e)
                   /\ EventIs(e, "WORKFLOW_TRANSITION_COMMITTED", version + 1,
                              visit, NextVisit, context, t, 0, Len(receipts) + 1)
      BY <2>2, LoggedEvent DEF TransitionLogged, EventTypes, LogInv, IInv
    <2>4. /\ e \in Event /\ e.type = "WORKFLOW_TRANSITION_COMMITTED"
          /\ e.version = version + 1 /\ e.source = visit
          /\ e.target = NextVisit /\ e.context = context /\ e.edge = t
      BY <2>3 DEF EventIs
    <2>5. ~Assists(e) /\ e.type \notin NotReplayable
      BY <2>4, NotAssisting DEF MovingTypes
    <2>6. visits' = Append(visits, [node |-> Target[t], by |-> t])
      BY <2>1 DEF CommitTransition, CommitLimitReturn, MoveAlong
    <2>7. /\ Continues(e, visits, visits', cases, cases)
          /\ Opens(visits', Target[t], t)
      BY <2>2, <2>4, <2>5, <2>6, MovesOn
    <2>8. ASSUME NEW s, MirrorsRow(s) PROVE Accepts(s, e, visits')
      <3>1. Follows(s, e, visits')
        BY <2>1, <2>4, <2>7, <2>8, FollowsRow
      <3> QED
        BY <2>4, <2>8, <3>1 DEF Accepts, MirrorsRow
    <2>9. CASE CommitTransition(t, a)
      <3>1. events' = Append(events, e) /\ UNCHANGED cases
        BY <2>3, <2>9 DEF CommitTransition
      <3>2. OneRead(e)
        BY <2>1, <2>4, <2>7, <2>8, <3>1 DEF OneRead, Opens
      <3> QED
        BY <3>2, OneReadMirrors
    <2>10. CASE CommitLimitReturn(t, a)
      <3> DEFINE f == EventRow("ASSISTANCE_REQUESTED", version + 2, NextVisit,
                               NextVisit, context, NoTransition, NextCase,
                               Len(receipts) + 2)
      <3>1. EventIs(f, "ASSISTANCE_REQUESTED", version + 2, NextVisit,
                    NextVisit, context, NoTransition, NextCase, Len(receipts) + 2)
        BY <2>2, RowIsEvent DEF EventTypes
      <3>2. /\ events' = Append(Append(events, e), f)
            /\ cases' = Append(cases, [visit |-> NextVisit,
                                       status |-> "OWNER_PENDING"])
        BY <2>3, <2>10 DEF CommitLimitReturn
      <3> HIDE DEF f
      <3>3. /\ f \in Event /\ f.type = "ASSISTANCE_REQUESTED"
            /\ f.version = version + 2 /\ f.source = NextVisit
            /\ f.target = NextVisit /\ f.context = context
            /\ f.case = NextCase
        BY <3>1 DEF EventIs
      <3>4. Lengthens
        BY <2>4, <2>7, <3>2, <3>3 DEF Lengthens, Opens
      <3>5. /\ Len(visits') = NextVisit /\ visits' \in Seq(Visit)
        BY <2>2, <2>7 DEF Opens, NextVisit
      <3>6. Continues(f, visits', visits', cases, cases')
        <4>1. Len(visits') > 0
          BY <2>2, <3>5 DEF NextVisit
        <4>2. cases' = Append(cases, [visit |-> Len(visits'),
                                      status |-> "OWNER_PENDING"])
          BY <3>2, <3>5
        <4> QED
          BY <3>3, <3>5, <4>1, <4>2, OpensCase
      <3>7. ASSUME Mirrors(events, visits, context, cases)
            PROVE  Mirrors(events', visits', context', cases')
        <4>1. PICK g, s : g = Append(events, e) /\ s = StateAfter(events, Len(events))
          OBVIOUS
        <4>2. Accepts(s, e, visits')
          BY <2>8, <3>7, <4>1, MirrorIsRow
        <4>3. Mirrors(g, visits', context, cases)
          BY <2>2, <2>4, <2>7, <3>7, <4>1, <4>2, FirstIsCreation, MirrorGrows
        <4>4. g \in Seq(Event) /\ Len(g) = version + 1 /\ g[1].type = "INSTANCE_CREATED"
          <5>1. /\ g \in Seq(Event) /\ Len(g) = Len(events) + 1
                /\ \A i \in 1..Len(events) : g[i] = events[i]
            BY <2>2, <2>4, <4>1, Appended
          <5>2. Len(events) = version /\ version > 0
            BY <2>1 DEF LogInv, Traced, Exists
          <5>3. events[1].type = "INSTANCE_CREATED"
            BY <2>2, <5>2, FirstIsCreation
          <5> QED
            BY <2>2, <5>1, <5>2, <5>3
        <4>5. PICK w : w = StateAfter(g, Len(g))
          OBVIOUS
        <4>6. /\ w.version = version + 1 /\ w.visit = NextVisit
              /\ w.context = context /\ DOMAIN w.cases = DOMAIN cases
          BY <3>5, <4>3, <4>4, <4>5 DEF Mirrors
        <4>7. NextCase \notin DOMAIN cases
          BY DEF NextCase, LogInv, IInv, TypeOK
        <4>8. Accepts(w, f, visits')
          BY <2>2, <3>3, <4>6, <4>7 DEF Accepts, OnCurrentVisit
        <4>9. Mirrors(Append(g, f), visits', f.context, cases')
          BY <3>3, <3>5, <3>6, <4>3, <4>4, <4>5, <4>8, MirrorGrows
        <4> QED
          BY <2>1, <3>2, <3>3, <4>1, <4>9
      <3> QED
        BY <3>4, <3>7 DEF Mirroring
    <2> QED
      BY <2>1, <2>9, <2>10
  <1> QED
    BY <1>1, <1>2

LEMMA RevisionMirrors ==
    ASSUME LogInv, Exists, context' = revisions + 1,
           events' = Logged("CONTEXT_REVISED", visit, visit, revisions + 1,
                            NoTransition, 0),
           UNCHANGED <<visits, cases>>
    PROVE  Lengthens /\ Mirroring
  <1>1. visit \in Nat /\ context = revisions /\ revisions + 1 \in Nat
    BY DEF LogInv, IInv, TypeOK
  <1>2. PICK e : /\ events' = Append(events, e)
                 /\ EventIs(e, "CONTEXT_REVISED", version + 1, visit, visit,
                            revisions + 1, NoTransition, 0, Len(receipts) + 1)
    BY <1>1, LoggedEvent DEF EventTypes, LogInv, IInv
  <1>3. /\ e \in Event /\ e.type = "CONTEXT_REVISED"
        /\ e.version = version + 1 /\ e.source = visit /\ e.target = visit
        /\ e.context = context'
    BY <1>2 DEF EventIs
  <1>4. Continues(e, visits, visits', cases, cases')
    BY <1>3, StaysPut, NotAssisting
  <1>5. ASSUME NEW s, MirrorsRow(s), CurrentType = "DRAFT"
        PROVE  Accepts(s, e, visits')
    BY <1>1, <1>3, <1>5 DEF Accepts, MirrorsRow, CurrentType
  <1>6. OneRead(e)
    BY <1>2, <1>3, <1>4, <1>5 DEF OneRead
  <1> QED
    BY <1>6, OneReadMirrors

LEMMA ReviseMirrors ==
    ASSUME LogInv, NEW x, NEW ok, ReviseContext(x, ok)
    PROVE  Lengthens /\ Mirroring
  BY RefuseMirrors, RevisionMirrors DEF ReviseContext

LEMMA RepairMirrors ==
    ASSUME LogInv, RepairContext
    PROVE  Lengthens /\ Mirroring
  BY RevisionMirrors DEF RepairContext

LEMMA CombinedMirrors ==
    ASSUME LogInv, NEW t \in Transitions, NEW x, NEW ok,
           ReviseContextAndTransition(t, x, ok)
    PROVE  Lengthens /\ Mirroring
  <1>1. CASE Refuse
    BY <1>1, RefuseMirrors
  <1>2. CASE ~Refuse
    <2>1. /\ Exists /\ OpenOn(visit) = {} /\ Source[t] = visits[visit].node
          /\ Effect[t] = "ADVANCE"
          /\ context' = revisions + 1 /\ UNCHANGED cases
          /\ visits' = Append(visits, [node |-> Target[t], by |-> t])
          /\ events' = Logged("WORKFLOW_CONTEXT_REVISED_AND_TRANSITION_COMMITTED",
                              visit, NextVisit, revisions + 1, t, 0)
      BY <1>2 DEF ReviseContextAndTransition, CombinedRefused, MoveAlong
    <2>2. /\ Target[t] \in Nodes /\ NextVisit \in Nat /\ visit \in Nat
          /\ revisions + 1 \in Nat /\ context = revisions
      BY DefinitionAssumption DEF LogInv, IInv, TypeOK, NextVisit
    <2>3. PICK e : /\ events' = Append(events, e)
                   /\ EventIs(e, "WORKFLOW_CONTEXT_REVISED_AND_TRANSITION_COMMITTED",
                              version + 1, visit, NextVisit, revisions + 1, t, 0,
                              Len(receipts) + 1)
      BY <2>1, <2>2, LoggedEvent DEF EventTypes, LogInv, IInv
    <2>4. /\ e \in Event
          /\ e.type = "WORKFLOW_CONTEXT_REVISED_AND_TRANSITION_COMMITTED"
          /\ e.version = version + 1 /\ e.source = visit
          /\ e.target = NextVisit /\ e.context = revisions + 1 /\ e.edge = t
      BY <2>3 DEF EventIs
    <2>5. Continues(e, visits, visits', cases, cases') /\ Opens(visits', Target[t], t)
      BY <2>1, <2>2, <2>4, NotAssisting, MovesOn DEF MovingTypes
    <2>6. ASSUME NEW s, MirrorsRow(s) PROVE Accepts(s, e, visits')
      <3>1. Follows(s, e, visits')
        BY <2>1, <2>4, <2>5, <2>6, FollowsRow
      <3> QED
        BY <2>1, <2>2, <2>4, <2>6, <3>1 DEF Accepts, MirrorsRow
    <2>7. OneRead(e)
      BY <2>1, <2>3, <2>4, <2>5, <2>6 DEF OneRead, Opens
    <2> QED
      BY <2>7, OneReadMirrors
  <1> QED
    BY <1>1, <1>2

LEMMA OverrideMirrors ==
    ASSUME LogInv, NEW n \in Nodes, NEW x, NEW ok,
           AdminEmergencyOverride(n, x, ok)
    PROVE  Lengthens /\ Mirroring
  <1>1. CASE Refuse
    BY <1>1, RefuseMirrors
  <1>2. CASE ~Refuse
    <2>1. /\ visits' = Append(visits, [node |-> n, by |-> NoTransition])
          /\ cases' = VoidOpenCases /\ UNCHANGED context
          /\ events' = Logged("ADMIN_EMERGENCY_OVERRIDE_COMMITTED", visit,
                              NextVisit, context, NoTransition, 0)
      BY <1>2 DEF AdminEmergencyOverride
    <2>2. /\ NextVisit \in Nat /\ visit \in Nat /\ context \in Nat
          /\ NextVisit = Len(visits) + 1 /\ Len(visits) \in Nat
      BY DEF LogInv, IInv, TypeOK, NextVisit
    <2>3. PICK e : /\ events' = Append(events, e)
                   /\ EventIs(e, "ADMIN_EMERGENCY_OVERRIDE_COMMITTED",
                              version + 1, visit, NextVisit, context,
                              NoTransition, 0, Len(receipts) + 1)
      BY <2>1, <2>2, LoggedEvent DEF EventTypes, LogInv, IInv
    <2>4. /\ e \in Event /\ e.type = "ADMIN_EMERGENCY_OVERRIDE_COMMITTED"
          /\ e.version = version + 1 /\ e.source = visit
          /\ e.target = NextVisit /\ e.context = context
      BY <2>3 DEF EventIs
    <2>5. /\ DOMAIN cases' = DOMAIN cases
          /\ \A c \in DOMAIN cases :
                /\ cases'[c].visit = cases[c].visit
                /\ \/ cases'[c].status = cases[c].status
                   \/ cases'[c].status = "VOIDED"
      <3>1. \A c \in DOMAIN cases : cases[c] \in Case
        BY DEF LogInv, IInv, TypeOK
      <3> QED
        BY <2>1, <3>1 DEF VoidOpenCases, Case
    <2>6. /\ Continues(e, visits, visits', cases, cases')
          /\ Opens(visits', n, NoTransition)
      BY <2>1, <2>4, <2>5, NotAssisting, MovesOn DEF MovingTypes
    <2>7. ASSUME NEW s, MirrorsRow(s) PROVE Accepts(s, e, visits')
      <3>1. s.visit = visit /\ NextVisit \notin s.introduced
        BY <2>2, <2>7 DEF MirrorsRow
      <3>2. MovesTo(s, e, visits', NoTransition)
        BY <2>4, <2>6, <3>1 DEF MovesTo, Opens
      <3> QED
        BY <2>4, <2>7, <3>2 DEF Accepts, MirrorsRow
    <2>8. OneRead(e)
      BY <2>1, <2>3, <2>4, <2>6, <2>7 DEF OneRead, Opens
    <2> QED
      BY <2>8, OneReadMirrors
  <1> QED
    BY <1>1, <1>2

(* What recovery cannot read, no supported history has. *)
LEMMA UnreadMirrors ==
    ASSUME LogInv, NEW type \in NotReplayable, NEW s \in Nat, NEW ctx \in Nat,
           events' = Logged(type, s, 0, ctx, NoTransition, 0),
           UNCHANGED visits
    PROVE  Lengthens /\ Mirroring
  <1>1. type \in EventTypes /\ type # "CONTEXT_REVISED"
    BY DEF NotReplayable, EventTypes
  <1>2. PICK e : /\ events' = Append(events, e)
                 /\ EventIs(e, type, version + 1, s, 0, ctx, NoTransition, 0,
                            Len(receipts) + 1)
    BY <1>1, LoggedEvent DEF LogInv, IInv
  <1>3. OneRead(e)
    BY <1>1, <1>2 DEF OneRead, EventIs
  <1> QED
    BY <1>3, OneReadMirrors

LEMMA EndMirrors ==
    ASSUME LogInv, NEW x, NEW ok, CancelInstance(x, ok) \/ ArchiveInstance(x, ok)
    PROVE  Lengthens /\ Mirroring
  <1>1. CASE Refuse
    BY <1>1, RefuseMirrors
  <1>2. CASE ~Refuse
    <2>1. PICK type \in NotReplayable :
             /\ events' = Logged(type, visit, 0, context, NoTransition, 0)
             /\ UNCHANGED visits
      BY <1>2 DEF CancelInstance, ArchiveInstance, NotReplayable
    <2>2. visit \in Nat /\ context \in Nat
      BY DEF LogInv, IInv, TypeOK
    <2> QED
      BY <2>1, <2>2, UnreadMirrors
  <1> QED
    BY <1>1, <1>2

LEMMA WakeMirrors ==
    ASSUME LogInv, NEW v \in DOMAIN visits, NEW x, WakeDispatchIntent(v, x)
    PROVE  Lengthens /\ Mirroring
  <1>1. CASE WakeHasNothingToDo(v, x)
    BY <1>1 DEF WakeDispatchIntent, Lengthens, Mirroring
  <1>2. CASE ~WakeHasNothingToDo(v, x)
    <2>1. v \in Nat
      BY DEF LogInv, IInv, TypeOK
    <2>2. /\ events' = Logged("WAKE_DISPATCH_INTENT", v, 0, 0, NoTransition, 0)
          /\ UNCHANGED visits
      BY <1>2 DEF WakeDispatchIntent
    <2> QED
      BY <2>1, <2>2, UnreadMirrors DEF NotReplayable
  <1> QED
    BY <1>1, <1>2

LEMMA OpeningMirrors ==
    ASSUME LogInv, Exists, NEW r \in Nat,
           events' = Append(events,
                       EventRow("ASSISTANCE_REQUESTED", version + 1, visit,
                                visit, context, NoTransition, NextCase, r)),
           cases' = OpenedOn(visit), UNCHANGED <<visits, context>>
    PROVE  Lengthens /\ Mirroring
  <1> DEFINE f == EventRow("ASSISTANCE_REQUESTED", version + 1, visit, visit,
                           context, NoTransition, NextCase, r)
  <1>1. /\ visit \in Nat /\ context \in Nat /\ version + 1 \in Nat
        /\ NextCase \in Nat /\ visit = Len(visits)
    BY DEF LogInv, IInv, TypeOK, NextCase
  <1>2. EventIs(f, "ASSISTANCE_REQUESTED", version + 1, visit, visit, context,
                NoTransition, NextCase, r)
    BY <1>1, RowIsEvent DEF EventTypes
  <1>3. events' = Append(events, f)
    OBVIOUS
  <1> HIDE DEF f
  <1>4. /\ f \in Event /\ f.type = "ASSISTANCE_REQUESTED"
        /\ f.version = version + 1 /\ f.source = visit /\ f.target = visit
        /\ f.context = context /\ f.case = NextCase
    BY <1>2 DEF EventIs
  <1>5. /\ Continues(f, visits, visits, cases, cases')
        /\ NextCase \notin DOMAIN cases
    <2>1. Len(visits) > 0
      BY <1>1 DEF LogInv, IInv, TypeOK, Anchored
    <2>2. cases' = Append(cases, [visit |-> Len(visits),
                                  status |-> "OWNER_PENDING"])
      BY <1>1 DEF OpenedOn
    <2> QED
      BY <1>1, <1>4, <2>1, <2>2, OpensCase
  <1>6. ASSUME NEW s, MirrorsRow(s) PROVE Accepts(s, f, visits')
    BY <1>4, <1>5, <1>6 DEF Accepts, OnCurrentVisit, MirrorsRow
  <1>7. OneRead(f)
    BY <1>3, <1>4, <1>5, <1>6 DEF OneRead
  <1> QED
    BY <1>7, OneReadMirrors

LEMMA RequestMirrors ==
    ASSUME LogInv, NEW v, NEW x, NEW ok, RequestAssistance(v, x, ok)
    PROVE  Lengthens /\ Mirroring
  <1>1. CASE Refuse
    BY <1>1, RefuseMirrors
  <1>2. CASE ~Refuse
    <2>1. Len(receipts) + 1 \in Nat
      BY DEF LogInv, IInv, TypeOK
    <2> QED
      BY <1>2, <2>1, OpeningMirrors DEF RequestAssistance, Logged
  <1> QED
    BY <1>1, <1>2

LEMMA PolicyMirrors ==
    ASSUME LogInv, NEW v, NEW ok, SystemExecutionEscalation(v, ok)
    PROVE  Lengthens /\ Mirroring
  <1>1. CASE Refuse
    BY <1>1, RefuseMirrors
  <1>2. CASE ~Refuse
    <2>1. /\ Exists
          /\ OpenByPolicy \/ FindAlreadyOpen
          /\ UNCHANGED <<visits, context>>
      BY <1>2 DEF SystemExecutionEscalation
    <2>2. Len(receipts) + 2 \in Nat
      BY DEF LogInv, IInv, TypeOK
    <2>3. CASE OpenByPolicy
      <3>1. /\ events' = Append(events,
                   EventRow("ASSISTANCE_REQUESTED", version + 1, visit, visit,
                            context, NoTransition, NextCase,
                            Len(receipts) + 2))
            /\ cases' = OpenedOn(visit)
        BY <2>3 DEF OpenByPolicy
      <3> QED
        BY <2>1, <2>2, <3>1, OpeningMirrors
    <2>4. CASE FindAlreadyOpen
      BY <2>1, <2>4 DEF FindAlreadyOpen, Lengthens, Mirroring
    <2> QED
      BY <2>1, <2>3, <2>4
  <1> QED
    BY <1>1, <1>2

(* The owner moves a case recovery knows, and knows the status of. *)
LEMMA OwnerActionMirrors ==
    ASSUME LogInv, NEW c \in DOMAIN cases, NEW x, NEW ok, NEW from, NEW to,
           NEW command, NEW type, NEW forum,
           OwnerAction(c, x, ok, from, to, command, type, forum),
           \/ type = "ASSISTANCE_ESCALATED_TO_HUMAN" /\ from = {"OWNER_PENDING"}
           \/ type = "ASSISTANCE_RESOLVED" /\ from = OpenStatus,
           to = StatusGiven[type]
    PROVE  Lengthens /\ Mirroring
  <1>1. CASE Refuse
    BY <1>1, RefuseMirrors
  <1>2. CASE ~Refuse
    <2>1. /\ Exists /\ cases[c].visit = visit /\ cases[c].status \in from
          /\ cases' = [cases EXCEPT ![c].status = to]
          /\ events' = Logged(type, visit, visit, context, NoTransition, c)
          /\ UNCHANGED <<visits, context>>
      BY <1>2 DEF OwnerAction, OwnerActionRefused
    <2>2. /\ visit \in Nat /\ context \in Nat /\ c \in Nat
          /\ visit = Len(visits) /\ cases \in Seq(Case)
      BY DEF LogInv, IInv, TypeOK
    <2>3. type \in EventTypes /\ type \in AssistanceTypes
      BY DEF EventTypes, AssistanceTypes, StatusGiven
    <2>4. PICK e : /\ events' = Append(events, e)
                   /\ EventIs(e, type, version + 1, visit, visit, context,
                              NoTransition, c, Len(receipts) + 1)
      BY <2>1, <2>2, <2>3, LoggedEvent DEF LogInv, IInv
    <2>5. /\ e \in Event /\ e.type = type /\ e.version = version + 1
          /\ e.source = visit /\ e.target = visit /\ e.context = context
          /\ e.case = c
      BY <2>4 DEF EventIs
    <2>6. Assists(e)
      BY <2>3, <2>5 DEF Assists
    <2>7. Continues(e, visits, visits, cases, cases')
      <3>1. Len(visits) > 0
        BY <2>1, <2>2 DEF LogInv, IInv, TypeOK, Anchored
      <3>2. /\ DOMAIN cases' = DOMAIN cases
            /\ cases'[c].visit = cases[c].visit /\ cases'[c].status = to
            /\ \A d \in DOMAIN cases \ {c} : cases'[d] = cases[d]
        <4>1. cases[c] \in Case
          BY <2>2
        <4>2. cases'[c] = [cases[c] EXCEPT !.status = to]
          BY <2>1
        <4> QED
          BY <2>1, <4>1, <4>2 DEF Case
      <3>3. cases[c].visit = visit
        BY <2>1
      <3> QED
        BY <2>2, <2>5, <2>6, <3>1, <3>2, <3>3 DEF Continues
    <2>8. ASSUME NEW s, MirrorsRow(s) PROVE Accepts(s, e, visits')
      <3>1. OnCurrentVisit(s, e)
        BY <2>5, <2>8 DEF OnCurrentVisit, MirrorsRow
      <3>2. CaseIs(s, e, from)
        BY <2>1, <2>5, <2>8 DEF CaseIs, MirrorsRow
      <3>3. e.version = s.version + 1
        BY <2>5, <2>8 DEF MirrorsRow
      <3> QED
        BY <2>5, <3>1, <3>2, <3>3 DEF Accepts
    <2>9. OneRead(e)
      BY <2>1, <2>4, <2>5, <2>7, <2>8 DEF OneRead
    <2> QED
      BY <2>9, OneReadMirrors
  <1> QED
    BY <1>1, <1>2

LEMMA AnswerMirrors ==
    ASSUME LogInv, NEW c \in DOMAIN cases, NEW x, NEW ok,
           EscalateAssistance(c, x, ok) \/ ResolveAssistance(c, x, ok)
    PROVE  Lengthens /\ Mirroring
  BY OwnerActionMirrors
  DEF EscalateAssistance, ResolveAssistance, StatusGiven

LEMMA InitReplay == Init => ReplayInv
  <1> SUFFICES ASSUME Init PROVE ReplayInv
    OBVIOUS
  <1>1. /\ events = << >> /\ visits = << >> /\ cases = << >> /\ context = 0
        /\ Len(events) = 0 /\ Len(visits) = 0
    BY DEF Init
  <1>2. PICK s : s = StateAfter(events, 0)
    OBVIOUS
  <1>3. Seen(events, 0) = {} /\ DOMAIN s.cases = {}
    <2>1. Seen(events, 0) = {}
      BY DEF Seen
    <2> QED
      BY <1>2, <2>1, CasesAre
  <1>4. /\ s.version = 0 /\ s.visit = 0 /\ s.context = 0 /\ s.introduced = {}
    BY <1>2, StateIs
  <1>5. Good(events, visits, 0)
    BY DEF Good
  <1>6. Mirrors(events, visits, context, cases)
    BY <1>1, <1>2, <1>3, <1>4, <1>5 DEF Mirrors
  <1>7. Sited(events, Len(visits))
    BY <1>1 DEF Sited
  <1> QED
    BY <1>6, <1>7, InitLog DEF ReplayInv

LEMMA NextReplay == ReplayInv /\ [Next]_vars => ReplayInv'
  <1> SUFFICES ASSUME ReplayInv, [Next]_vars PROVE ReplayInv'
    OBVIOUS
  <1>1. LogInv /\ LogInv'
    BY NextLog DEF ReplayInv
  <1>2. ASSUME NEW ok, RebuildProjection(ok) PROVE Lengthens /\ Mirroring
    BY <1>1, <1>2, RebuildStep, StillMirrors
  <1>3. CASE Environment \/ UNCHANGED vars
    <2>1. Lengthens /\ Mirroring
      BY <1>3, EnvironmentStep, StillMirrors
    <2> QED
      BY <1>1, <2>1, ReplayStays
  <1>4. CASE Commands
    <2>1. Lengthens /\ Mirroring
      BY <1>1, <1>2, <1>4, CreateMirrors, TransitionMirrors, ReviseMirrors,
         RepairMirrors, CombinedMirrors, EndMirrors, RequestMirrors,
         AnswerMirrors, PolicyMirrors, WakeMirrors, OverrideMirrors
      DEF Commands
    <2> QED
      BY <1>1, <2>1, ReplayStays
  <1> QED
    BY <1>3, <1>4 DEF Next

(* Recovery can be trusted, whatever the commands wrote: it reads every log *)
(* as the fold of apply() does, event by event, and refuses the same ones;  *)
(* and a Legacy log of supported events it reconstructs, to exactly the row *)
(* the commands maintained, the RETURNs that were escalated in the same     *)
(* transaction and the cases an override voided without an event included.  *)
THEOREM RecoveryIsRight == Spec => []ReplayAgrees
  <1>1. ReplayInv => ReplayAgrees
    BY ReplayInvIsProperty, LogInvReplays DEF ReplayInv, ReplayAgrees
  <1> QED
    BY <1>1, InitReplay, NextReplay, PTL DEF Spec

-----------------------------------------------------------------------------
(* Reads.  What the log refers to is there; and a request's case is on the  *)
(* visit that asked, voided only with that visit, and resolved by an event  *)
(* of the same visit that is later than the request.                        *)

Settles(log, j, e) ==
    /\ log[j].type = "ASSISTANCE_RESOLVED"
    /\ log[j].case = e.case /\ log[j].source = e.source

Referring(log, n, r) ==
    \A i \in DOMAIN log : log[i].source \in 0..n /\ log[i].context \in 0..r

Asked(log, cs) ==
    \A i \in DOMAIN log :
        log[i].type = "ASSISTANCE_REQUESTED" =>
            /\ log[i].case \in DOMAIN cs
            /\ cs[log[i].case].visit = log[i].source
            /\ cs[log[i].case].status = "RESOLVED" =>
                  \E j \in DOMAIN log : i < j /\ Settles(log, j, log[i])

ReadInv ==
    /\ LogInv
    /\ Exists => revisions > 0
    /\ Referring(events, Len(visits), revisions)
    /\ Asked(events, cases)
    /\ \A c \in DOMAIN cases :
          /\ cases[c].visit \in DOMAIN visits
          /\ cases[c].status = "VOIDED" => cases[c].visit # visit \/ Closed

(* What a command does to the cases, and what its events refer to. *)
Cites(e) == e.source \in {0, visit, visit'} /\ e.context \in {0, context'}

New == DOMAIN events' \ DOMAIN events

OpensHere(c) ==
    /\ c \notin DOMAIN cases /\ Exists'
    /\ cases'[c].visit = visit' /\ cases'[c].status = "OWNER_PENDING"

MovesCase(c) ==
    /\ c \in DOMAIN cases /\ cases'[c].visit = cases[c].visit
    /\ \/ cases'[c].status \in {cases[c].status, "HUMAN_REQUIRED"}
       \/ cases'[c].status = "VOIDED" /\ (Closed' \/ visit' = NextVisit)
       \/ /\ cases'[c].status = "RESOLVED"
          /\ \E j \in New :
                /\ events'[j].type = "ASSISTANCE_RESOLVED"
                /\ events'[j].case = c /\ events'[j].source = cases[c].visit

Answers ==
    /\ revisions' >= revisions /\ (Exists' => revisions' > 0)
    /\ DOMAIN cases \subseteq DOMAIN cases'
    /\ \A c \in DOMAIN cases' : OpensHere(c) \/ MovesCase(c)
    /\ \A i \in New :
          /\ Cites(events'[i])
          /\ events'[i].type = "ASSISTANCE_REQUESTED" =>
                /\ events'[i].case \in DOMAIN cases' \ DOMAIN cases
                /\ events'[i].source = visit'

(* The log grows, and the instance stays where it is or moves on. *)
Advances ==
    /\ \A i \in DOMAIN events : i \in DOMAIN events' /\ events'[i] = events[i]
    /\ \/ UNCHANGED <<visit, visits>> /\ (cancelled => cancelled')
       \/ visit' = NextVisit

LEMMA StepAdvances ==
    ASSUME LogInv, TypeOK', [Next]_vars
    PROVE  Advances
  <1>1. events \in Seq(Event)
    BY DEF LogInv, IInv, TypeOK
  <1>2. CASE Still
    BY <1>2 DEF Still, Advances
  <1>3. ASSUME NEW e, OneEvent(e) PROVE Advances
    BY <1>1, <1>3, Appended DEF OneEvent, EntersVisit, StaysOn, Advances
  <1>4. ASSUME NEW e, NEW f, TwoEvents(e, f) PROVE Advances
    <2>1. e \in Event /\ f \in Event /\ events' = Append(Append(events, e), f)
      BY <1>4 DEF TwoEvents
    <2>2. Append(events, e) \in Seq(Event)
      BY <1>1, <2>1, Appended
    <2> QED
      BY <1>1, <1>4, <2>1, <2>2, Appended DEF TwoEvents, EntersVisit, Advances
  <1> QED
    BY <1>2, <1>3, <1>4, EveryStep

LEMMA AnswersKeep ==
    ASSUME ReadInv, LogInv', Answers, Advances
    PROVE  ReadInv'
  <1>1. /\ visit = Len(visits) /\ visit' = Len(visits')
        /\ Len(visits) \in Nat /\ Len(visits') \in Nat
        /\ DOMAIN visits = 1..Len(visits) /\ DOMAIN visits' = 1..Len(visits')
        /\ revisions \in Nat /\ revisions' \in Nat
        /\ context = revisions /\ context' = revisions'
        /\ DOMAIN events \subseteq Nat /\ DOMAIN events' = 1..Len(events')
        /\ DOMAIN events = 1..Len(events)
        /\ Len(events) \in Nat /\ Len(events') \in Nat
    <2>1. LogInv /\ LogInv'
      BY DEF ReadInv
    <2>2. TypeOK /\ TypeOK'
      BY <2>1 DEF LogInv, IInv
    <2>3. /\ visits \in Seq(Visit) /\ visits' \in Seq(Visit)
          /\ events \in Seq(Event) /\ events' \in Seq(Event)
          /\ revisions \in Nat /\ revisions' \in Nat
      BY <2>2 DEF TypeOK
    <2>4. /\ visit = Len(visits) /\ visit' = Len(visits')
          /\ context = revisions /\ context' = revisions'
      BY <2>1 DEF LogInv
    <2> QED
      BY <2>3, <2>4
  <1>6. Exists' => Len(visits') > 0
    <2>1. visits' \in Seq(Visit) /\ (Exists' => visits' # << >>)
      BY DEF LogInv, IInv, TypeOK, Anchored
    <2> QED
      BY <2>1
  <1>2. Len(visits) <= Len(visits') /\ revisions <= revisions'
    BY <1>1 DEF Advances, Answers, NextVisit
  <1>3. Referring(events', Len(visits'), revisions')
    <2> SUFFICES ASSUME NEW i \in DOMAIN events'
                 PROVE  /\ events'[i].source \in 0..Len(visits')
                        /\ events'[i].context \in 0..revisions'
      BY DEF Referring
    <2>1. CASE i \in DOMAIN events
      <3>1. /\ events'[i] = events[i]
            /\ events[i].source \in 0..Len(visits)
            /\ events[i].context \in 0..revisions
        BY <2>1 DEF Advances, ReadInv, Referring
      <3> QED
        BY <1>1, <1>2, <3>1
    <2>2. CASE i \in New
      BY <1>1, <1>2, <2>2 DEF Answers, Cites
    <2> QED
      BY <2>1, <2>2 DEF New
  <1>4. Asked(events', cases')
    <2> SUFFICES ASSUME NEW i \in DOMAIN events',
                        events'[i].type = "ASSISTANCE_REQUESTED"
                 PROVE  /\ events'[i].case \in DOMAIN cases'
                        /\ cases'[events'[i].case].visit = events'[i].source
                        /\ cases'[events'[i].case].status = "RESOLVED" =>
                              \E j \in DOMAIN events' :
                                 i < j /\ Settles(events', j, events'[i])
      BY DEF Asked
    <2>1. CASE i \in DOMAIN events
      <3> DEFINE c == events[i].case
      <3>1. events'[i] = events[i]
        BY <2>1 DEF Advances
      <3>2. /\ c \in DOMAIN cases /\ cases[c].visit = events[i].source
            /\ cases[c].status = "RESOLVED" =>
                  \E j \in DOMAIN events : i < j /\ Settles(events, j, events[i])
        BY <2>1, <3>1 DEF ReadInv, Asked
      <3> HIDE DEF c
      <3>3. c \in DOMAIN cases' /\ MovesCase(c)
        BY <3>2 DEF Answers, OpensHere
      <3>4. ASSUME cases'[c].status = "RESOLVED"
            PROVE  \E j \in DOMAIN events' : i < j /\ Settles(events', j, events[i])
        <4>1. CASE cases[c].status = "RESOLVED"
          <5>1. PICK j \in DOMAIN events : i < j /\ Settles(events, j, events[i])
            BY <3>2, <4>1
          <5>2. j \in DOMAIN events' /\ events'[j] = events[j]
            BY DEF Advances
          <5> QED
            BY <5>1, <5>2 DEF Settles
        <4>2. CASE cases[c].status # "RESOLVED"
          <5>1. PICK j \in New : /\ events'[j].type = "ASSISTANCE_RESOLVED"
                                 /\ events'[j].case = c
                                 /\ events'[j].source = cases[c].visit
            BY <3>3, <3>4, <4>2 DEF MovesCase
          <5>2. i < j
            BY <1>1, <2>1 DEF New
          <5>3. Settles(events', j, events[i])
            BY <3>2, <5>1 DEF Settles, c
          <5> QED
            BY <5>2, <5>3 DEF New
        <4> QED
          BY <4>1, <4>2
      <3> QED
        BY <3>1, <3>2, <3>3, <3>4 DEF MovesCase, c
    <2>2. CASE i \in New
      <3>1. /\ events'[i].case \in DOMAIN cases' \ DOMAIN cases
            /\ events'[i].source = visit'
        BY <2>2 DEF Answers
      <3>2. OpensHere(events'[i].case)
        BY <3>1 DEF Answers, MovesCase
      <3> QED
        BY <3>1, <3>2 DEF OpensHere
    <2> QED
      BY <2>1, <2>2 DEF New
  <1>5. ASSUME NEW c \in DOMAIN cases'
        PROVE  /\ cases'[c].visit \in DOMAIN visits'
               /\ cases'[c].status = "VOIDED" =>
                     cases'[c].visit # visit' \/ Closed'
    <2>1. CASE OpensHere(c)
      BY <1>1, <1>6, <2>1 DEF OpensHere
    <2>2. CASE MovesCase(c)
      <3>1. /\ c \in DOMAIN cases /\ cases'[c].visit = cases[c].visit
            /\ cases[c].visit \in DOMAIN visits
            /\ cases[c].status = "VOIDED" => cases[c].visit # visit \/ Closed
        BY <2>2 DEF MovesCase, ReadInv
      <3>2. CASE visit' = NextVisit
        BY <1>1, <1>2, <3>1, <3>2 DEF NextVisit
      <3>3. CASE visit' # NextVisit
        <4>1. UNCHANGED <<visit, visits>> /\ (Closed => Closed')
          BY <3>3 DEF Advances, Closed, CurrentType
        <4>2. cases'[c].status = "VOIDED" => cases[c].status = "VOIDED" \/ Closed'
          BY <2>2, <3>3 DEF MovesCase
        <4> QED
          BY <3>1, <4>1, <4>2
      <3> QED
        BY <3>2, <3>3
    <2> QED
      BY <2>1, <2>2 DEF Answers
  <1> QED
    BY <1>3, <1>4, <1>5 DEF ReadInv, Answers

LEMMA SilentAnswers ==
    ASSUME ReadInv, UNCHANGED <<events, cases, revisions, version>>
    PROVE  Answers
  BY DEF ReadInv, Answers, MovesCase, New, Exists, LogInv, IInv, TypeOK

LEMMA RefuseAnswers == ASSUME ReadInv, Refuse PROVE Answers
  BY SilentAnswers DEF Refuse, row, facts

(* One event that asks nothing, with the cases kept or all closed.          *)
LEMMA LoggedAnswers ==
    ASSUME ReadInv, TypeOK', Exists',
           NEW type \in EventTypes \ {"ASSISTANCE_REQUESTED"},
           NEW s \in {0, visit, visit'}, NEW t \in Nat,
           NEW ctx \in {0, context'}, NEW edge \in Transitions \cup {NoTransition},
           events' = Logged(type, s, t, ctx, edge, 0),
           revisions' >= revisions, revisions' > 0,
           \/ UNCHANGED cases
           \/ cases' = VoidOpenCases /\ (Closed' \/ visit' = NextVisit)
    PROVE  Answers
  <1>0. TypeOK
    BY DEF ReadInv, LogInv, IInv
  <1>a. /\ events \in Seq(Event) /\ cases \in Seq(Case)
        /\ visit \in Nat /\ context \in Nat
    BY <1>0 DEF TypeOK
  <1>b. visit' \in Nat /\ context' \in Nat
    BY DEF TypeOK
  <1>c. s \in Nat /\ ctx \in Nat
    BY <1>a, <1>b
  <1>1. /\ TypeOK /\ s \in Nat /\ ctx \in Nat /\ events \in Seq(Event)
        /\ cases \in Seq(Case)
    BY <1>0, <1>a, <1>c
  <1>2. PICK e : /\ events' = Append(events, e)
                 /\ EventIs(e, type, version + 1, s, t, ctx, edge, 0,
                            Len(receipts) + 1)
    BY <1>1, LoggedEvent
  <1>3. e \in Event /\ e.type = type /\ Cites(e)
    BY <1>2 DEF EventIs, Cites
  <1>4. \A i \in New : events'[i] = e
    BY <1>1, <1>2, <1>3, Appended DEF New
  <1>5. DOMAIN cases' = DOMAIN cases
    BY DEF VoidOpenCases
  <1>6. ASSUME NEW c \in DOMAIN cases PROVE MovesCase(c)
    <2>1. CASE UNCHANGED cases
      BY <2>1 DEF MovesCase
    <2>2. CASE cases' = VoidOpenCases /\ (Closed' \/ visit' = NextVisit)
      <3>1. cases[c] \in Case
        BY <1>1
      <3> QED
        BY <2>2, <3>1 DEF MovesCase, VoidOpenCases, Case
    <2> QED
      BY <2>1, <2>2
  <1> QED
    BY <1>3, <1>4, <1>5, <1>6 DEF Answers

LEMMA CreateAnswers ==
    ASSUME ReadInv, TypeOK', NEW kind, NEW ok, CreateInstance(kind, ok)
    PROVE  Answers
  <1>1. CASE Refuse
    BY <1>1, RefuseAnswers
  <1>2. CASE ~Refuse
    <2>1. /\ version' = 1 /\ context' = 1 /\ revisions' = 1 /\ revisions = 0
          /\ events' = Logged("INSTANCE_CREATED", 0, 1, 1, NoTransition, 0)
          /\ UNCHANGED cases
      BY <1>2 DEF CreateInstance, ReadInv, LogInv, Anchored
    <2> QED
      BY <2>1, LoggedAnswers DEF EventTypes, Exists
  <1> QED
    BY <1>1, <1>2

(* The instance's numbers, once it exists. *)
LEMMA Numbers ==
    ASSUME ReadInv, Exists
    PROVE  /\ TypeOK /\ version \in Nat /\ visit \in Nat /\ context \in Nat
           /\ revisions \in Nat /\ revisions > 0 /\ context = revisions
           /\ NextVisit \in Nat /\ NextCase \in Nat
           /\ Len(receipts) \in Nat /\ version > 0
           /\ visit = Len(visits)
  BY DEF ReadInv, LogInv, IInv, TypeOK, NextVisit, NextCase, Exists

LEMMA ReviseAnswers ==
    ASSUME ReadInv, TypeOK', NEW x, NEW ok,
           ReviseContext(x, ok) \/ RepairContext
    PROVE  Answers
  <1>1. CASE Refuse
    BY <1>1, RefuseAnswers
  <1>2. CASE ~Refuse
    <2>1. /\ Exists /\ version' = version + 1
          /\ context' = revisions + 1 /\ revisions' = revisions + 1
          /\ events' = Logged("CONTEXT_REVISED", visit, visit,
                              revisions + 1, NoTransition, 0)
          /\ UNCHANGED cases
      BY <1>2 DEF ReviseContext, RepairContext
    <2> QED
      BY <2>1, Numbers, LoggedAnswers DEF EventTypes, Exists
  <1> QED
    BY <1>1, <1>2

LEMMA CombinedAnswers ==
    ASSUME ReadInv, TypeOK', NEW t \in Transitions, NEW x, NEW ok,
           ReviseContextAndTransition(t, x, ok)
    PROVE  Answers
  <1>1. CASE Refuse
    BY <1>1, RefuseAnswers
  <1>2. CASE ~Refuse
    <2>1. /\ Exists /\ version' = version + 1
          /\ context' = revisions + 1 /\ revisions' = revisions + 1
          /\ events' = Logged("WORKFLOW_CONTEXT_REVISED_AND_TRANSITION_COMMITTED",
                              visit, NextVisit, revisions + 1, t, 0)
          /\ UNCHANGED cases
      BY <1>2 DEF ReviseContextAndTransition
    <2> QED
      BY <2>1, Numbers, LoggedAnswers DEF EventTypes, Exists
  <1> QED
    BY <1>1, <1>2

LEMMA EndAnswers ==
    ASSUME ReadInv, TypeOK', NEW x, NEW ok,
           CancelInstance(x, ok) \/ ArchiveInstance(x, ok)
    PROVE  Answers
  <1>1. CASE Refuse
    BY <1>1, RefuseAnswers
  <1>2. CASE ~Refuse
    <2>1. PICK type \in {"WORKFLOW_INSTANCE_CANCELLED",
                         "WORKFLOW_INSTANCE_ARCHIVED"} :
             /\ Exists /\ version' = version + 1
             /\ events' = Logged(type, visit, 0, context, NoTransition, 0)
             /\ UNCHANGED <<context, revisions>>
             /\ cases' = VoidOpenCases /\ Closed'
      BY <1>2 DEF CancelInstance, ArchiveInstance, Closed, CurrentType
    <2>2. type \in EventTypes \ {"ASSISTANCE_REQUESTED"}
      BY DEF EventTypes
    <2> QED
      BY <2>1, <2>2, Numbers, LoggedAnswers DEF Exists
  <1> QED
    BY <1>1, <1>2

LEMMA WakeAnswers ==
    ASSUME ReadInv, TypeOK', NEW v \in DOMAIN visits, NEW x,
           WakeDispatchIntent(v, x)
    PROVE  Answers
  <1>1. CASE WakeHasNothingToDo(v, x)
    BY <1>1, SilentAnswers DEF WakeDispatchIntent
  <1>2. CASE ~WakeHasNothingToDo(v, x)
    <2>1. /\ v = visit /\ version' = version + 1
          /\ events' = Logged("WAKE_DISPATCH_INTENT", v, 0, 0, NoTransition, 0)
          /\ UNCHANGED <<cases, revisions>>
      BY <1>2 DEF WakeDispatchIntent, WakeHasNothingToDo
    <2>2. Exists
      BY DEF ReadInv, LogInv, Anchored
    <2> QED
      BY <2>1, <2>2, Numbers, LoggedAnswers DEF EventTypes, Exists
  <1> QED
    BY <1>1, <1>2

LEMMA OverrideAnswers ==
    ASSUME ReadInv, TypeOK', NEW n \in Nodes, NEW x, NEW ok,
           AdminEmergencyOverride(n, x, ok)
    PROVE  Answers
  <1>1. CASE Refuse
    BY <1>1, RefuseAnswers
  <1>2. CASE ~Refuse
    <2>1. /\ Exists /\ version' = version + 1 /\ visit' = NextVisit
          /\ events' = Logged("ADMIN_EMERGENCY_OVERRIDE_COMMITTED", visit,
                              NextVisit, context, NoTransition, 0)
          /\ cases' = VoidOpenCases
          /\ UNCHANGED <<context, revisions>>
      BY <1>2 DEF AdminEmergencyOverride
    <2> QED
      BY <2>1, Numbers, LoggedAnswers DEF EventTypes, Exists
  <1> QED
    BY <1>1, <1>2

(* A case that is opened where the instance is then, by the last event.     *)
LEMMA OpenedAnswers ==
    ASSUME ReadInv, Exists', NEW f \in Event,
           f.type = "ASSISTANCE_REQUESTED", f.case = NextCase,
           f.source = visit', Cites(f),
           \/ events' = Append(events, f)
           \/ \E e \in Event : /\ events' = Append(Append(events, e), f)
                               /\ e.type # "ASSISTANCE_REQUESTED" /\ Cites(e),
           cases' = Append(cases, [visit |-> visit', status |-> "OWNER_PENDING"]),
           UNCHANGED revisions, revisions > 0
    PROVE  Answers
  <1>1. /\ events \in Seq(Event) /\ cases \in Seq(Case) /\ revisions \in Nat
    BY DEF ReadInv, LogInv, IInv, TypeOK
  <1>2. /\ DOMAIN cases' = DOMAIN cases \cup {NextCase}
        /\ NextCase \notin DOMAIN cases
        /\ \A c \in DOMAIN cases : cases'[c] = cases[c]
        /\ cases'[NextCase].visit = visit'
        /\ cases'[NextCase].status = "OWNER_PENDING"
    BY <1>1 DEF NextCase
  <1>3. \A c \in DOMAIN cases' : OpensHere(c) \/ MovesCase(c)
    BY <1>2 DEF OpensHere, MovesCase
  <1>4. ASSUME NEW i \in New
        PROVE  \/ events'[i] = f
               \/ events'[i].type # "ASSISTANCE_REQUESTED" /\ Cites(events'[i])
    <2>1. CASE events' = Append(events, f)
      BY <1>1, <2>1, Appended DEF New
    <2>2. ASSUME NEW e \in Event, events' = Append(Append(events, e), f),
                 e.type # "ASSISTANCE_REQUESTED", Cites(e)
          PROVE  \/ events'[i] = f
                 \/ events'[i].type # "ASSISTANCE_REQUESTED" /\ Cites(events'[i])
      <3>1. PICK log : log = Append(events, e)
        OBVIOUS
      <3>2. /\ log \in Seq(Event) /\ Len(log) = Len(events) + 1
            /\ DOMAIN events = 1..Len(events) /\ Len(events) \in Nat
            /\ log[Len(events) + 1] = e
        BY <1>1, <3>1, Appended
      <3>3. /\ DOMAIN events' = 1..(Len(log) + 1) /\ events'[Len(log) + 1] = f
            /\ events'[Len(events) + 1] = e
        BY <2>2, <3>1, <3>2, Appended
      <3>4. i = Len(events) + 1 \/ i = Len(log) + 1
        BY <3>2, <3>3 DEF New
      <3> QED
        BY <2>2, <3>3, <3>4
    <2> QED
      BY <2>1, <2>2
  <1> QED
    BY <1>1, <1>2, <1>3, <1>4 DEF Answers

LEMMA AskingAnswers ==
    ASSUME ReadInv, Exists, version' = version + 1, NEW r \in Nat,
           events' = Append(events,
                       EventRow("ASSISTANCE_REQUESTED", version + 1, visit,
                                visit, context, NoTransition, NextCase, r)),
           cases' = OpenedOn(visit), UNCHANGED <<visit, context, revisions>>
    PROVE  Answers
  <1> DEFINE f == EventRow("ASSISTANCE_REQUESTED", version + 1, visit, visit,
                           context, NoTransition, NextCase, r)
  <1>0. version + 1 \in Nat
    BY Numbers
  <1>1. /\ events' = Append(events, f)
        /\ EventIs(f, "ASSISTANCE_REQUESTED", version + 1, visit,
                   visit, context, NoTransition, NextCase, r)
    BY <1>0, Numbers, RowIsEvent DEF EventTypes
  <1> HIDE DEF f
  <1>2. /\ f \in Event /\ f.type = "ASSISTANCE_REQUESTED" /\ f.case = NextCase
        /\ f.source = visit' /\ Cites(f)
    BY <1>1 DEF EventIs, Cites
  <1> QED
    BY <1>1, <1>2, Numbers, OpenedAnswers DEF OpenedOn, Exists

LEMMA RequestAnswers ==
    ASSUME ReadInv, NEW v, NEW x, NEW ok, RequestAssistance(v, x, ok)
    PROVE  Answers
  <1>1. CASE Refuse
    BY <1>1, RefuseAnswers
  <1>2. CASE ~Refuse
    BY <1>2, Numbers, AskingAnswers DEF RequestAssistance, Logged
  <1> QED
    BY <1>1, <1>2

LEMMA PolicyAnswers ==
    ASSUME ReadInv, NEW v, NEW ok, SystemExecutionEscalation(v, ok)
    PROVE  Answers
  <1>1. CASE Refuse
    BY <1>1, RefuseAnswers
  <1>2. CASE ~Refuse
    <2>1. /\ Exists
          /\ OpenByPolicy \/ FindAlreadyOpen
          /\ UNCHANGED <<visit, context, revisions>>
      BY <1>2 DEF SystemExecutionEscalation
    <2>2. CASE OpenByPolicy
      <3>1. /\ version' = version + 1 /\ cases' = OpenedOn(visit)
            /\ events' = Append(events,
                   EventRow("ASSISTANCE_REQUESTED", version + 1, visit, visit,
                            context, NoTransition, NextCase,
                            Len(receipts) + 2))
        BY <2>2 DEF OpenByPolicy
      <3> QED
        BY <2>1, <3>1, Numbers, AskingAnswers
    <2>3. CASE FindAlreadyOpen
      BY <2>1, <2>3, SilentAnswers DEF FindAlreadyOpen
    <2> QED
      BY <2>1, <2>2, <2>3
  <1> QED
    BY <1>1, <1>2

LEMMA TransitionAnswers ==
    ASSUME ReadInv, TypeOK', NEW t \in Transitions, NEW kind, NEW x, NEW ok,
           ExecuteTransition(t, x, kind, ok)
    PROVE  Answers
  <1>1. CASE Refuse
    BY <1>1, RefuseAnswers
  <1>2. CASE ~Refuse
    <2> DEFINE a == ActivationFor(Target[t], kind)
    <2>1. /\ Exists
          /\ CommitTransition(t, a) \/ CommitLimitReturn(t, a)
          /\ UNCHANGED <<context, revisions>>
      BY <1>2 DEF ExecuteTransition
    <2> HIDE DEF a
    <2>2. CASE CommitTransition(t, a)
      <3>1. /\ version' = version + 1 /\ UNCHANGED cases
            /\ events' = Logged("WORKFLOW_TRANSITION_COMMITTED", visit,
                                NextVisit, context, t, 0)
        BY <2>2 DEF CommitTransition, TransitionLogged
      <3> QED
        BY <2>1, <3>1, Numbers, LoggedAnswers DEF EventTypes, Exists
    <2>3. CASE CommitLimitReturn(t, a)
      <3>1. /\ version' = version + 2 /\ visit' = NextVisit
            /\ cases' = Append(cases, [visit |-> NextVisit,
                                       status |-> "OWNER_PENDING"])
            /\ events' = Append(TransitionLogged(t),
                   EventRow("ASSISTANCE_REQUESTED", version + 2, NextVisit,
                            NextVisit, context, NoTransition, NextCase,
                            Len(receipts) + 2))
        BY <2>3 DEF CommitLimitReturn, MoveAlong
      <3>2. PICK e : /\ TransitionLogged(t) = Append(events, e)
                     /\ EventIs(e, "WORKFLOW_TRANSITION_COMMITTED",
                                version + 1, visit, NextVisit, context, t, 0,
                                Len(receipts) + 1)
        BY <2>1, Numbers, LoggedEvent DEF TransitionLogged, EventTypes
      <3> DEFINE f == EventRow("ASSISTANCE_REQUESTED", version + 2, NextVisit,
                               NextVisit, context, NoTransition, NextCase,
                               Len(receipts) + 2)
      <3>3. /\ events' = Append(Append(events, e), f)
            /\ EventIs(f, "ASSISTANCE_REQUESTED", version + 2, NextVisit,
                       NextVisit, context, NoTransition, NextCase,
                       Len(receipts) + 2)
        <4>1. version + 2 \in Nat /\ Len(receipts) + 2 \in Nat
          BY <2>1, Numbers
        <4> QED
          BY <2>1, <3>1, <3>2, <4>1, Numbers, RowIsEvent DEF EventTypes
      <3> HIDE DEF f
      <3>4. /\ e \in Event /\ e.type # "ASSISTANCE_REQUESTED" /\ Cites(e)
            /\ f \in Event /\ f.type = "ASSISTANCE_REQUESTED" /\ Cites(f)
            /\ f.case = NextCase /\ f.source = visit'
        BY <2>1, <3>1, <3>2, <3>3 DEF EventIs, Cites
      <3>5. Exists' /\ revisions > 0 /\ UNCHANGED revisions
        BY <2>1, <3>1, Numbers DEF Exists
      <3>6. cases' = Append(cases, [visit |-> visit', status |-> "OWNER_PENDING"])
        BY <3>1
      <3>7. \E d \in Event : /\ events' = Append(Append(events, d), f)
                             /\ d.type # "ASSISTANCE_REQUESTED" /\ Cites(d)
        BY <3>3, <3>4
      <3> QED
        BY <3>4, <3>5, <3>6, <3>7, OpenedAnswers
    <2> QED
      BY <2>1, <2>2, <2>3
  <1> QED
    BY <1>1, <1>2

(* The owner's answer is logged on the visit the case is about.             *)
LEMMA OwnerActionAnswers ==
    ASSUME ReadInv, NEW c \in DOMAIN cases, NEW x, NEW ok, NEW from, NEW to,
           NEW command, NEW type, NEW forum,
           OwnerAction(c, x, ok, from, to, command, type, forum),
           \/ type = "ASSISTANCE_ESCALATED_TO_HUMAN" /\ to = "HUMAN_REQUIRED"
           \/ type = "ASSISTANCE_RESOLVED" /\ to = "RESOLVED"
    PROVE  Answers
  <1>1. CASE Refuse
    BY <1>1, RefuseAnswers
  <1>2. CASE ~Refuse
    <2>1. /\ Exists /\ version' = version + 1 /\ cases[c].visit = visit
          /\ cases' = [cases EXCEPT ![c].status = to]
          /\ events' = Logged(type, visit, visit, context, NoTransition, c)
          /\ UNCHANGED <<visit, context, revisions>>
      BY <1>2 DEF OwnerAction, OwnerActionRefused
    <2>2. /\ TypeOK /\ c \in Nat /\ events \in Seq(Event) /\ cases \in Seq(Case)
          /\ type \in EventTypes
      BY DEF ReadInv, LogInv, IInv, TypeOK, EventTypes
    <2>3. PICK e : /\ events' = Append(events, e)
                   /\ EventIs(e, type, version + 1, visit, visit, context,
                              NoTransition, c, Len(receipts) + 1)
      BY <2>1, <2>2, Numbers, LoggedEvent
    <2>4. /\ e \in Event /\ e.type = type /\ e.source = visit /\ e.case = c
          /\ Cites(e)
      BY <2>1, <2>3 DEF EventIs, Cites
    <2>5. New = {Len(events) + 1} /\ events'[Len(events) + 1] = e
      BY <2>2, <2>3, <2>4, Appended DEF New
    <2>6. /\ DOMAIN cases' = DOMAIN cases
          /\ cases'[c].visit = cases[c].visit /\ cases'[c].status = to
          /\ \A d \in DOMAIN cases \ {c} : cases'[d] = cases[d]
      <3>1. cases[c] \in Case
        BY <2>2
      <3>2. cases'[c] = [cases[c] EXCEPT !.status = to]
        BY <2>1
      <3> QED
        BY <2>1, <3>1, <3>2 DEF Case
    <2>7. \A d \in DOMAIN cases' : MovesCase(d)
      BY <2>1, <2>4, <2>5, <2>6 DEF MovesCase
    <2> QED
      BY <2>1, <2>4, <2>5, <2>6, <2>7, Numbers DEF Answers, Exists
  <1> QED
    BY <1>1, <1>2

LEMMA OwnerAnswers ==
    ASSUME ReadInv, NEW c \in DOMAIN cases, NEW x, NEW ok,
           EscalateAssistance(c, x, ok) \/ ResolveAssistance(c, x, ok)
    PROVE  Answers
  BY OwnerActionAnswers DEF EscalateAssistance, ResolveAssistance

LEMMA InitRead == Init => ReadInv
  <1> SUFFICES ASSUME Init PROVE ReadInv
    OBVIOUS
  <1>1. /\ DOMAIN events = {} /\ DOMAIN cases = {} /\ ~Exists
    BY DEF Init, Exists
  <1> QED
    BY <1>1, InitLog DEF ReadInv, Referring, Asked

LEMMA NextRead == ReadInv /\ [Next]_vars => ReadInv'
  <1> SUFFICES ASSUME ReadInv, [Next]_vars PROVE ReadInv'
    OBVIOUS
  <1>1. LogInv /\ LogInv' /\ TypeOK'
    BY NextLog DEF ReadInv, LogInv, IInv
  <1>2. ASSUME NEW ok, RebuildProjection(ok) PROVE Answers
    BY <1>1, <1>2, RebuildStep, SilentAnswers DEF Still
  <1>3. CASE Environment \/ UNCHANGED vars
    <2>1. Answers
      BY <1>3, EnvironmentStep, SilentAnswers DEF Still
    <2> QED
      BY <1>1, <2>1, StepAdvances, AnswersKeep
  <1>4. CASE Commands
    <2>1. Answers
      BY <1>1, <1>2, <1>4, CreateAnswers, TransitionAnswers, ReviseAnswers,
         CombinedAnswers, EndAnswers, RequestAnswers, OwnerAnswers,
         PolicyAnswers, WakeAnswers, OverrideAnswers
      DEF Commands
    <2> QED
      BY <1>1, <2>1, StepAdvances, AnswersKeep
  <1> QED
    BY <1>3, <1>4 DEF Next

(* With its log and its visits in order, every integrity check passes.      *)
LEMMA ReadsPass ==
    ASSUME ReadInv, ActInv, Exists
    PROVE  ReadsSucceed
  <1>1. /\ version = Len(events) /\ version \in Nat /\ version >= 1
        /\ visit = Len(visits) /\ Len(visits) \in Nat /\ Len(visits) > 0
        /\ context = revisions /\ revisions \in Nat /\ revisions > 0
        /\ DOMAIN events = 1..version /\ DOMAIN visits = 1..Len(visits)
    <2>1. visits \in Seq(Visit) /\ visits # << >>
      BY DEF ReadInv, LogInv, IInv, TypeOK, Anchored
    <2>2. /\ version = Len(events) /\ version \in Nat /\ version >= 1
          /\ visit = Len(visits)
          /\ context = revisions /\ revisions \in Nat /\ revisions > 0
          /\ events \in Seq(Event)
      BY DEF ReadInv, LogInv, IInv, TypeOK, Traced, Exists
    <2> QED
      BY <2>1, <2>2
  <1>2. \A i \in DOMAIN events :
           /\ events[i].version = i
           /\ events[i].target \in 0..Len(visits)
           /\ events[i].source \in 0..Len(visits)
           /\ events[i].context \in 0..revisions
    BY DEF ReadInv, LogInv, Traced, Referring
  <1>3. {events[i].version : i \in DOMAIN events} = 1..version
    BY <1>1, <1>2
  <1>4. \A i \in DOMAIN events : RefersWithin(events[i])
    BY <1>1, <1>2 DEF RefersWithin
  <1>5. BaseConsistent
    <2>1. /\ visit \in DOMAIN visits /\ context \in 1..revisions
          /\ 1 \in 1..version /\ version \in 1..version
      BY <1>1
    <2> QED
      BY <1>1, <1>3, <1>4, <2>1 DEF BaseConsistent
  <1>6. FactsConsistent
    <2>1. visits \in Seq(Visit)
      BY DEF ReadInv, LogInv, IInv, TypeOK
    <2>2. ASSUME NEW v \in DOMAIN visits PROVE visits[v].node \in Nodes
      <3>1. visits[v] \in Visit
        BY <2>1
      <3> QED
        BY <3>1 DEF Visit
    <2> QED
      BY <1>1, <2>2 DEF FactsConsistent
  <1>7. ~Closed => ~NothingToClose
    BY <1>1 DEF ActInv, ActiveWhere, NothingToClose
  <1>8. ASSUME NEW reader PROVE ~DetailFails(reader)
    BY <1>7 DEF DetailFails, CancelSelectable, TransitionSelectable, Closed
  <1> QED
    BY <1>5, <1>6, <1>8 DEF ReadsSucceed, Readable

(* Only the visit of a live instance of model 3 can be due. *)
LEMMA DueIsCurrent ==
    ASSUME ActInv, NEW v \in DueDispatchIntents
    PROVE  v = visit /\ Exists /\ ~Closed /\ ~archived
  <1>1. /\ v \in DOMAIN activations /\ activations[v].kind = "DISPATCH_INTENT"
        /\ ~activations[v].closed /\ ~archived
    BY DEF DueDispatchIntents
  <1>2. v \in DOMAIN visits
    BY <1>1 DEF ActInv, LogInv, IInv, TypeOK
  <1>3. ActiveOn(v) /\ VisitActivation
    BY <1>1, <1>2 DEF ActiveOn, ActInv, OnlyModel3
  <1> QED
    BY <1>1, <1>2, <1>3 DEF ActInv, ActiveWhere

LEMMA FeedHolds ==
    ASSUME ActInv, Exists
    PROVE  FeedIsTheWork
  <1> SUFFICES ASSUME NEW v \in DueDispatchIntents PROVE FeedIsTheWork
    BY DEF FeedIsTheWork
  <1>1. DueDispatchIntents = {visit} /\ ~Closed /\ ~archived
    BY DueIsCurrent
  <1>2. activations[visit].due
    BY <1>1 DEF DueDispatchIntents
  <1> QED
    BY <1>1, <1>2
    DEF FeedIsTheWork, AssignedToMe, ListedUnder, WaitingForTime, Closed

(* A free intent is open and not archived. *)
LEMMA FreeIsActive ==
    ASSUME ActInv, IntentIsFree
    PROVE  /\ visit \in DOMAIN activations /\ ActiveOn(visit)
           /\ ~cancelled /\ ~archived /\ CurrentType # "TERMINAL"
           /\ OpenOn(visit) = {}
  <1>1. /\ Exists /\ ~cancelled /\ CurrentType # "TERMINAL" /\ ~Closed
        /\ OpenCases = {} /\ activations[visit].kind = "DISPATCH_INTENT"
    BY DEF IntentIsFree, AssignedToMe, Closed
  <1>2. ~archived
    BY <1>1 DEF ActInv, LogInv, IInv, ArchivedIsOver
  <1>3. visit \in DOMAIN visits /\ DOMAIN visits = DOMAIN activations
    <2>1. /\ visits \in Seq(Visit) /\ visits # << >> /\ visit = Len(visits)
          /\ activations \in Seq(Activation) /\ Len(activations) = Len(visits)
      BY <1>1 DEF ActInv, LogInv, IInv, TypeOK, Anchored
    <2> QED
      BY <2>1
  <1>4. ActiveOn(visit)
    BY <1>1, <1>3 DEF ActInv, OnlyModel3, ActiveWhere
  <1> QED
    BY <1>1, <1>2, <1>3, <1>4 DEF OpenOn

LEMMA FeedCompletes ==
    ASSUME ActInv
    PROVE  FeedIsComplete
  <1> SUFFICES ASSUME IntentIsFree, ~WaitingForTime
               PROVE  DueDispatchIntents = {visit}
    BY DEF FeedIsComplete
  <1>1. visit \in DueDispatchIntents
    BY FreeIsActive
    DEF IntentIsFree, WaitingForTime, DueDispatchIntents, ActiveOn
  <1> QED
    BY <1>1, DueIsCurrent

LEMMA EvidenceHolds ==
    ASSUME ReadInv, ActInv, RecordInv
    PROVE  EvidenceIsThere
  <1> SUFFICES ASSUME NEW i \in DOMAIN events, IntentIsFree, Evidences(i, visit)
               PROVE  events[i].case \in ResumeEvidence(visit, i - 1)
    BY DEF EvidenceIsThere
  <1> DEFINE c == events[i].case
  <1>1. events[i].type = "ASSISTANCE_REQUESTED" /\ events[i].source = visit
    BY DEF Evidences
  <1>2. /\ c \in DOMAIN cases /\ cases[c].visit = visit
        /\ cases[c].status = "RESOLVED" =>
              \E j \in DOMAIN events : i < j /\ Settles(events, j, events[i])
    BY <1>1 DEF ReadInv, Asked
  <1> HIDE DEF c
  <1>3. cases[c].status = "RESOLVED"
    <2>1. cases[c].status \in CaseStatuses
      <3>1. cases \in Seq(Case)
        BY DEF ReadInv, LogInv, IInv, TypeOK
      <3>2. cases[c] \in Case
        BY <1>2, <3>1
      <3> QED
        BY <3>2 DEF Case
    <2>2. cases[c].status \notin OpenStatus
      BY <1>2 DEF IntentIsFree, OpenCases
    <2>3. cases[c].status # "VOIDED"
      BY <1>2, FreeIsActive DEF ReadInv, Closed
    <2> QED
      BY <2>1, <2>2, <2>3 DEF CaseStatuses, OpenStatus
  <1>4. PICK j \in DOMAIN events : i < j /\ Settles(events, j, events[i])
    BY <1>2, <1>3
  <1>5. receipts[events[j].receipt].command = "RESOLVE_WORKFLOW_ASSISTANCE"
    BY <1>4, Writers DEF Settles, RecordInv, OwnReceipt
  <1>6. /\ events[i].version = i /\ events[j].version = j
        /\ DOMAIN events = 1..version /\ version \in Nat
    BY DEF ReadInv, LogInv, Traced, IInv, TypeOK
  <1>7. /\ i - 1 < events[i].version /\ events[i].version < events[j].version
        /\ events[j].version <= version
    BY <1>4, <1>6
  <1>8. /\ events[j].type = "ASSISTANCE_RESOLVED"
        /\ events[j].source = visit /\ events[j].case = c
    BY <1>1, <1>4 DEF Settles, c
  <1>9. c \in ResumeEvidence(visit, i - 1)
    BY <1>2, <1>3, <1>5, <1>7, <1>8, FreeIsActive
    DEF ResumeEvidence, IntentIsFree, CurrentType, c
  <1> QED
    BY <1>9 DEF c

ReadsAreTrue ==
    Exists => ReadsSucceed /\ FeedIsTheWork /\ FeedIsComplete /\ EvidenceIsThere

(* What can be said of the reads without asking what the commands would do. *)
(* In every reachable state the integrity checks of a read pass, the feed   *)
(* of due intents holds the work of a live instance and only that, and a    *)
(* request the owner has answered has its evidence: the case it opened was  *)
(* resolved by a later event of the same visit and of the right command.    *)
THEOREM ReadsAreSound == Spec => []ReadsAreTrue
  <1>1. ReadInv /\ ActInv /\ RecordInv => ReadsAreTrue
    BY ReadsPass, FeedHolds, FeedCompletes, EvidenceHolds DEF ReadsAreTrue
  <1>2. Spec => []ReadInv
    BY InitRead, NextRead, PTL DEF Spec
  <1>3. Spec => []ActInv
    BY InitActivation, NextActivation, PTL DEF Spec
  <1>4. Spec => []RecordInv
    BY InitRecord, NextRecord, PTL DEF Spec
  <1> QED
    BY <1>1, <1>2, <1>3, <1>4, PTL

-----------------------------------------------------------------------------
(* Offers.  What the detail offers and what the commands ask are two        *)
(* programs; they agree guard by guard.                                     *)

Offered(reader, action) == action \in AuthorizedActions(reader)

CommittedWasOffered ==
    [][~Minimal /\ receipts' # receipts =>
         \A x \in {0} \cup Expectations, ok \in BOOLEAN :
            /\ \A t \in Transitions, kind \in ActivationKinds :
                  ExecuteTransition(t, x, kind, ok) =>
                      Offered("assignee", <<"transition", t>>)
            /\ \A v \in DOMAIN visits :
                  RequestAssistance(v, x, ok) =>
                      Offered("assignee", <<"request", v>>)
            /\ \A c \in DOMAIN cases :
                  /\ EscalateAssistance(c, x, ok) =>
                         Offered("owner", <<"escalate", c>>)
                  /\ ResolveAssistance(c, x, ok) =>
                         Offered("owner", <<"resolve", c>>)
            /\ CancelInstance(x, ok)  => Offered("owner", <<"cancel", 0>>)
            /\ ArchiveInstance(x, ok) => Offered("owner", <<"archive", 0>>)]_vars

OffersAreNotRefused ==
    /\ \A t \in Transitions :
          Offered("assignee", <<"transition", t>>) =>
              ~TransitionRefused(t, version, TRUE)
    /\ \A v \in DOMAIN visits :
          Offered("assignee", <<"request", v>>) =>
              ~RequestRefused(v, version, TRUE)
    /\ \A c \in DOMAIN cases :
          /\ Offered("owner", <<"escalate", c>>) =>
                 ~OwnerActionRefused(c, version, TRUE, {"OWNER_PENDING"})
          /\ Offered("owner", <<"resolve", c>>) =>
                 ~OwnerActionRefused(c, version, TRUE, OpenStatus)
    /\ Offered("owner", <<"cancel", 0>>) =>
          ~Closed /\ ~archived /\ ~NothingToClose
    /\ Offered("owner", <<"archive", 0>>) =>
          Closed /\ ~archived /\ ~(VisitActivation /\ ActiveOn(visit))

DueWorkIsOffered ==
    DueDispatchIntents # {} /\ definitionStatus # "REVOKED" =>
        \A t \in Transitions :
            Applicable(t, visits[visit].node) /\ Effect[t] # "RETURN" =>
                Offered("assignee", <<"transition", t>>)

(* The members of AuthorizedActions, action by action. *)
LEMMA OfferedMove ==
    ASSUME NEW t \in Transitions
    PROVE  Offered("assignee", <<"transition", t>>) <=>
               /\ ~Minimal /\ CurrentType # "TERMINAL"
               /\ Source[t] = visits[visit].node /\ TransitionSelectable(t)
  BY DEF Offered, AuthorizedActions, FullyVisibleTo, Outgoing

LEMMA OfferedRequest ==
    ASSUME NEW v
    PROVE  Offered("assignee", <<"request", v>>) <=>
               ~Minimal /\ CurrentType # "TERMINAL" /\ v = visit
                   /\ RequestSelectable
  BY DEF Offered, AuthorizedActions, FullyVisibleTo, RequestSelectable

LEMMA OfferedCase ==
    ASSUME NEW c \in DOMAIN cases
    PROVE  /\ Offered("owner", <<"escalate", c>>) <=>
                  ~Minimal /\ CaseSelectable(c, {"OWNER_PENDING"})
           /\ Offered("owner", <<"resolve", c>>) <=>
                  ~Minimal /\ CaseSelectable(c, OpenStatus)
  BY DEF Offered, AuthorizedActions, FullyVisibleTo

LEMMA OfferedEnd ==
    /\ Offered("owner", <<"cancel", 0>>) <=> ~Minimal /\ CancelSelectable
    /\ Offered("owner", <<"archive", 0>>) <=> ~Minimal /\ ArchiveSelectable
  BY DEF Offered, AuthorizedActions, FullyVisibleTo

LEMMA StepWasOffered ==
    ASSUME ~Minimal, receipts' # receipts, NEW x, NEW ok \in BOOLEAN
    PROVE  /\ \A t \in Transitions, kind \in ActivationKinds :
                 ExecuteTransition(t, x, kind, ok) =>
                     Offered("assignee", <<"transition", t>>)
           /\ \A v \in DOMAIN visits :
                 RequestAssistance(v, x, ok) =>
                     Offered("assignee", <<"request", v>>)
           /\ \A c \in DOMAIN cases :
                 /\ EscalateAssistance(c, x, ok) =>
                        Offered("owner", <<"escalate", c>>)
                 /\ ResolveAssistance(c, x, ok) =>
                        Offered("owner", <<"resolve", c>>)
           /\ CancelInstance(x, ok)  => Offered("owner", <<"cancel", 0>>)
           /\ ArchiveInstance(x, ok) => Offered("owner", <<"archive", 0>>)
  <1>1. ~Refuse
    BY DEF Refuse
  <1>2. ASSUME NEW t \in Transitions, NEW kind \in ActivationKinds,
               ExecuteTransition(t, x, kind, ok)
        PROVE  Offered("assignee", <<"transition", t>>)
    <2>1. ~TransitionRefused(t, x, ok)
      BY <1>1, <1>2 DEF ExecuteTransition
    <2>2. /\ ~Closed /\ OpenOn(visit) = {} /\ definitionStatus # "REVOKED"
          /\ Applicable(t, visits[visit].node)
          /\ ~(Effect[t] = "RETURN" /\ ReturnsTaken(t) >= MaxReturnsPerEdge)
      BY <2>1 DEF TransitionRefused
    <2> QED
      BY <2>2, OfferedMove DEF TransitionSelectable, Closed, Applicable
  <1>3. ASSUME NEW v \in DOMAIN visits, RequestAssistance(v, x, ok)
        PROVE  Offered("assignee", <<"request", v>>)
    <2>1. ~RequestRefused(v, x, ok)
      BY <1>1, <1>3 DEF RequestAssistance
    <2> QED
      BY <2>1, OfferedRequest DEF RequestRefused, RequestSelectable, Closed
  <1>4. ASSUME NEW c \in DOMAIN cases, EscalateAssistance(c, x, ok)
        PROVE  Offered("owner", <<"escalate", c>>)
    <2>1. ~OwnerActionRefused(c, x, ok, {"OWNER_PENDING"})
      BY <1>1, <1>4 DEF EscalateAssistance, OwnerAction
    <2> QED
      BY <2>1, OfferedCase DEF OwnerActionRefused, CaseSelectable
  <1>5. ASSUME NEW c \in DOMAIN cases, ResolveAssistance(c, x, ok)
        PROVE  Offered("owner", <<"resolve", c>>)
    <2>1. ~OwnerActionRefused(c, x, ok, OpenStatus)
      BY <1>1, <1>5 DEF ResolveAssistance, OwnerAction
    <2> QED
      BY <2>1, OfferedCase DEF OwnerActionRefused, CaseSelectable
  <1>6. CancelInstance(x, ok) => Offered("owner", <<"cancel", 0>>)
    BY <1>1, OfferedEnd DEF CancelInstance, CancelSelectable, Closed
  <1>7. ArchiveInstance(x, ok) => Offered("owner", <<"archive", 0>>)
    BY <1>1, OfferedEnd DEF ArchiveInstance, ArchiveSelectable, Closed
  <1> QED
    BY <1>2, <1>3, <1>4, <1>5, <1>6, <1>7

(* Whatever command a step commits, the detail read just before it offered: *)
(* no transition, request, escalation, resolution, cancel or archive goes   *)
(* through that the selection, which has guards of its own, had left out.   *)
THEOREM CommittedOffered == Spec => CommittedWasOffered
  <1>1. [Next]_vars =>
          (~Minimal /\ receipts' # receipts =>
             \A x \in {0} \cup Expectations, ok \in BOOLEAN :
                /\ \A t \in Transitions, kind \in ActivationKinds :
                      ExecuteTransition(t, x, kind, ok) =>
                          Offered("assignee", <<"transition", t>>)
                /\ \A v \in DOMAIN visits :
                      RequestAssistance(v, x, ok) =>
                          Offered("assignee", <<"request", v>>)
                /\ \A c \in DOMAIN cases :
                      /\ EscalateAssistance(c, x, ok) =>
                             Offered("owner", <<"escalate", c>>)
                      /\ ResolveAssistance(c, x, ok) =>
                             Offered("owner", <<"resolve", c>>)
                /\ CancelInstance(x, ok)  => Offered("owner", <<"cancel", 0>>)
                /\ ArchiveInstance(x, ok) => Offered("owner", <<"archive", 0>>))
    BY StepWasOffered
  <1> QED
    BY <1>1, PTL DEF Spec, CommittedWasOffered

LEMMA OffersHold ==
    ASSUME ReadInv, ActInv, Exists
    PROVE  OffersAreNotRefused
  <1>1. /\ Offered("owner", <<"cancel", 0>>) => ~NothingToClose
        /\ \A t \in Transitions :
              Offered("assignee", <<"transition", t>>) => ~NothingToClose
    <2>1. ~DetailFails("owner") /\ ~DetailFails("assignee")
      BY ReadsPass DEF ReadsSucceed
    <2> QED
      BY <2>1, OfferedEnd, OfferedMove DEF DetailFails, Outgoing
  <1>2. ASSUME NEW t \in Transitions, Offered("assignee", <<"transition", t>>)
        PROVE  ~TransitionRefused(t, version, TRUE)
    BY <1>1, <1>2, OfferedMove
    DEF TransitionSelectable, TransitionRefused, Closed
  <1>3. ASSUME NEW v \in DOMAIN visits, Offered("assignee", <<"request", v>>)
        PROVE  ~RequestRefused(v, version, TRUE)
    BY <1>3, OfferedRequest DEF RequestSelectable, RequestRefused, Closed
  <1>4. ASSUME NEW c \in DOMAIN cases
        PROVE  /\ Offered("owner", <<"escalate", c>>) =>
                      ~OwnerActionRefused(c, version, TRUE, {"OWNER_PENDING"})
               /\ Offered("owner", <<"resolve", c>>) =>
                      ~OwnerActionRefused(c, version, TRUE, OpenStatus)
    BY OfferedCase DEF CaseSelectable, OwnerActionRefused
  <1>5. Offered("owner", <<"cancel", 0>>) => ~Closed /\ ~archived
    BY OfferedEnd DEF CancelSelectable, Closed
  <1>6. Offered("owner", <<"archive", 0>>) =>
            Closed /\ ~archived /\ ~(VisitActivation /\ ActiveOn(visit))
    BY OfferedEnd DEF ArchiveSelectable, Closed
  <1> QED
    BY <1>1, <1>2, <1>3, <1>4, <1>5, <1>6 DEF OffersAreNotRefused

(* What the detail offers the command does not refuse: sent with the        *)
(* version that was read and an acceptable body, no guard of it is met, and *)
(* there is an activation to close for whatever closes one.  With           *)
(* CommittedOffered, the offers are what the commands take.                 *)
THEOREM OffersAreGood == Spec => [](Exists => OffersAreNotRefused)
  <1>1. ReadInv /\ ActInv => (Exists => OffersAreNotRefused)
    BY OffersHold
  <1>2. Spec => []ReadInv
    BY InitRead, NextRead, PTL DEF Spec
  <1>3. Spec => []ActInv
    BY InitActivation, NextActivation, PTL DEF Spec
  <1> QED
    BY <1>1, <1>2, <1>3, PTL

LEMMA DueIsOffered ==
    ASSUME ActInv
    PROVE  DueWorkIsOffered
  <1> SUFFICES ASSUME NEW v \in DueDispatchIntents,
                      definitionStatus # "REVOKED", NEW t \in Transitions,
                      Applicable(t, visits[visit].node), Effect[t] # "RETURN"
               PROVE  Offered("assignee", <<"transition", t>>)
    BY DEF DueWorkIsOffered
  <1>1. v = visit /\ ~Closed /\ ~archived
    BY DueIsCurrent
  <1>2. OpenOn(visit) = {}
    BY <1>1 DEF DueDispatchIntents
  <1>3. ~Minimal
    <2>1. /\ visit \in DOMAIN activations
          /\ activations[visit].kind = "DISPATCH_INTENT"
      BY <1>1 DEF DueDispatchIntents
    <2>2. visit \in DOMAIN visits
      BY <2>1 DEF ActInv, LogInv, IInv, TypeOK
    <2> QED
      BY <2>1, <2>2 DEF ActInv, OnlyModel3, VisitActivation, Minimal
  <1> QED
    BY <1>1, <1>2, <1>3, OfferedMove
    DEF TransitionSelectable, Closed, Applicable

(* The scheduler is never given work that its worker may not do: while an   *)
(* intent is due and the definition is not revoked, the detail offers the   *)
(* worker every forward edge of the definition that leaves the node.        *)
THEOREM DueWorkOffered == Spec => []DueWorkIsOffered
  <1>1. ActInv => DueWorkIsOffered
    BY DueIsOffered
  <1>2. Spec => []ActInv
    BY InitActivation, NextActivation, PTL DEF Spec
  <1> QED
    BY <1>1, <1>2, PTL
=============================================================================
