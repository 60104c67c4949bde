--------------------------- MODULE InstanceQueries ---------------------------
(***************************************************************************)
(* The read side of a workflow instance: the detail with the actions it     *)
(* offers, the assignee's worklist, the scheduler's feed of due dispatch    *)
(* intents and the evidence it resumes an escalated intent on.              *)
(*                                                                          *)
(* A read is one REPEATABLE READ snapshot, so it is an operator on the      *)
(* state.  It decides by checks of its own, part shared with the commands   *)
(* and part not, and answers an internal error when the facts disagree.     *)
(* Readers are enabled principals; "owner" stands for the enabled domain    *)
(* owner (for cancel and archive: or the coordinator), "assignee" for the   *)
(* effective assignee of the current visit.                                 *)
(***************************************************************************)
EXTENDS InstanceProperties

-----------------------------------------------------------------------------
(* The integrity checks every instance read makes first.                    *)

(* A NULL reference is 0. *)
RefersWithin(e) ==
    /\ e.source \in {0} \cup DOMAIN visits
    /\ e.target \in {0} \cup DOMAIN visits
    /\ e.context \in 0..revisions

BaseConsistent ==
    LET sequences == {events[i].version : i \in DOMAIN events} IN
    /\ visit \in DOMAIN visits
    /\ context \in 1..revisions
    /\ version >= 1
    /\ Len(events) = version
    /\ 1 \in sequences /\ version \in sequences
    /\ sequences \subseteq 1..version
    /\ \A i \in DOMAIN events : RefersWithin(events[i])

(* The current revision is the newest of a contiguous chain. *)
FactsConsistent ==
    /\ context = revisions
    /\ \A v \in DOMAIN visits : visits[v].node \in Nodes

Readable == BaseConsistent /\ FactsConsistent

FullyVisibleTo(reader) == reader = "owner" \/ CurrentType # "TERMINAL"

-----------------------------------------------------------------------------
(* The actions the detail offers, selected without the request's payload.   *)

Outgoing == {t \in Transitions : Source[t] = visits[visit].node}

(* Fault: selection forgets that an open case blocks the work. *)
SelectableUnderCase(t) ==
    /\ ~cancelled
    /\ CurrentType # "TERMINAL"
    /\ definitionStatus # "REVOKED"
    /\ Applicable(t, visits[visit].node)
    /\ ~(Effect[t] = "RETURN" /\ ReturnsTaken(t) >= MaxReturnsPerEdge)

TransitionSelectable(t) ==
    /\ ~cancelled
    /\ CurrentType # "TERMINAL"
    /\ OpenOn(visit) = {}
    /\ definitionStatus # "REVOKED"
    /\ Applicable(t, visits[visit].node)
    /\ ~(Effect[t] = "RETURN" /\ ReturnsTaken(t) >= MaxReturnsPerEdge)

RequestSelectable ==
    ~cancelled /\ ~archived /\ CurrentType # "TERMINAL"
        /\ ownerPresent /\ OpenOn(visit) = {}

CaseSelectable(c, from) ==
    ownerPresent /\ cases[c].visit = visit /\ cases[c].status \in from

CancelSelectable == ~cancelled /\ CurrentType # "TERMINAL" /\ ~archived

ArchiveSelectable ==
    (cancelled \/ CurrentType = "TERMINAL") /\ ~archived
        /\ ~(VisitActivation /\ ActiveOn(visit))

(* A selected transition, or a selected cancel, without an activation to    *)
(* close is an internal error of the whole read.                            *)
DetailFails(reader) ==
    /\ NothingToClose
    /\ IF reader = "owner" THEN CancelSelectable
       ELSE \E t \in Outgoing : TransitionSelectable(t)

(* Minimal instances answer UNSUPPORTED_MODEL and offer nothing. *)
AuthorizedActions(reader) ==
    IF Minimal \/ ~FullyVisibleTo(reader) THEN {}
    ELSE IF reader = "assignee"
    THEN {<<"transition", t>> : t \in {u \in Outgoing : TransitionSelectable(u)}}
            \cup (IF RequestSelectable THEN {<<"request", visit>>} ELSE {})
    ELSE {<<"escalate", c>> : c \in {d \in DOMAIN cases :
                                        CaseSelectable(d, {"OWNER_PENDING"})}}
            \cup {<<"resolve", c>> : c \in {d \in DOMAIN cases :
                                        CaseSelectable(d, OpenStatus)}}
            \cup (IF CancelSelectable THEN {<<"cancel", 0>>} ELSE {})
            \cup (IF ArchiveSelectable THEN {<<"archive", 0>>} ELSE {})

-----------------------------------------------------------------------------
(* Worklist and scheduler feeds.                                            *)

AssignedToMe == Exists /\ CurrentType # "TERMINAL" /\ ~cancelled

(* The domain's and the coordinator's lists filter by both. *)
ListedUnder(lifecycle, status) ==
    /\ lifecycle = "Active" => CurrentType # "TERMINAL"
    /\ lifecycle = "Terminal" => CurrentType = "TERMINAL"
    /\ status = "Active" => ~cancelled /\ ~archived
    /\ status = "Cancelled" => cancelled
    /\ status = "Archived" => archived

(* What the lists say of the current work's timer. *)
WaitingForTime ==
    ActiveOn(visit) /\ activations[visit].kind = "DISPATCH_INTENT"
        /\ ~activations[visit].due

DueDispatchIntents ==
    {v \in DOMAIN activations :
        /\ activations[v].kind = "DISPATCH_INTENT" /\ ~activations[v].closed
        /\ ~cancelled /\ ~archived /\ Business
        /\ OpenOn(v) = {}
        /\ activations[v].due}

(* The synthetic receipt of an automatic case follows its command's own and *)
(* answers the same version.                                                *)
MintedBy(command, r) ==
    r > 1 /\ receipts[r - 1] = [command |-> command,
                                version |-> receipts[r].version]

(* The evidence takes a request of the assignee or of the execution policy; *)
(* the return policy's body is neither.                                     *)
Evidences(i, v) ==
    /\ events[i].type = "ASSISTANCE_REQUESTED"
    /\ events[i].source = v /\ events[i].target = v
    /\ receipts[events[i].receipt].command = "REQUEST_WORKFLOW_ASSISTANCE"
    /\ ~MintedBy("EXECUTE_WORKFLOW_TRANSITION", events[i].receipt)

(* Resolved cases that let the scheduler resume the intent of visit v,      *)
(* which it delivered at version `baseline`.                                *)
ResumeEvidence(v, baseline) ==
    {c \in DOMAIN cases :
        /\ ActiveOn(v) /\ activations[v].kind = "DISPATCH_INTENT"
        /\ Business /\ ~cancelled /\ ~archived
        /\ visit = v /\ NodeType[visits[v].node] # "TERMINAL"
        /\ OpenOn(v) = {}
        /\ cases[c].visit = v /\ cases[c].status = "RESOLVED"
        /\ \E i, j \in DOMAIN events :
              /\ Evidences(i, v) /\ events[i].case = c
              /\ events[j].type = "ASSISTANCE_RESOLVED"
              /\ events[j].source = v /\ events[j].case = c
              /\ receipts[events[j].receipt].command =
                    "RESOLVE_WORKFLOW_ASSISTANCE"
              /\ baseline < events[i].version
              /\ events[i].version < events[j].version
              /\ events[j].version <= version}

-----------------------------------------------------------------------------
(* What the commands would do with each action, rollbacks included.         *)
Commits(action) == ENABLED (action /\ receipts' # receipts)

Taken(reader) ==
    IF reader = "assignee"
    THEN {<<"transition", t>> : t \in {u \in Transitions :
             Commits(ExecuteTransition(u, version, "DISPATCH_INTENT", TRUE))}}
         \cup {<<"request", v>> : v \in {u \in DOMAIN visits :
             Commits(RequestAssistance(u, version, TRUE))}}
    ELSE {<<"escalate", c>> : c \in {d \in DOMAIN cases :
             Commits(EscalateAssistance(d, version, TRUE))}}
         \cup {<<"resolve", c>> : c \in {d \in DOMAIN cases :
             Commits(ResolveAssistance(d, version, TRUE))}}
         \cup (IF Commits(CancelInstance(version, TRUE))
               THEN {<<"cancel", 0>>} ELSE {})
         \cup (IF Commits(ArchiveInstance(version, TRUE))
               THEN {<<"archive", 0>>} ELSE {})

(* The detail offers a RETURN that uses up its budget although the command  *)
(* rolls back while the domain has no enabled owner to escalate to.         *)
OfferedInVain ==
    {<<"transition", t>> : t \in {u \in Outgoing :
        TransitionSelectable(u) /\ ReachesLimit(u) /\ ~ownerPresent}}

(* Every read of every reachable instance succeeds: its integrity checks,   *)
(* and the check that what it offers has an activation to close, pass.      *)
ReadsSucceed ==
    /\ Readable
    /\ \A reader \in {"owner", "assignee"} : ~DetailFails(reader)

(* The detail offers exactly what the commands would commit, though it      *)
(* decides without their locks and by checks of its own.                    *)
OffersAreTaken ==
    \A reader \in {"owner", "assignee"} :
        AuthorizedActions(reader) =
            Taken(reader) \cup (IF reader = "assignee" THEN OfferedInVain ELSE {})

(* The scheduler is given the current visit or nothing, of an instance the  *)
(* worklist shows as well and that does not wait for its timer.             *)
FeedIsTheWork ==
    DueDispatchIntents # {} =>
        /\ DueDispatchIntents = {visit} /\ AssignedToMe
        /\ ListedUnder("Active", "Active") /\ ~WaitingForTime

(* It is never given work that nobody could move. *)
DueWorkCanMove ==
    DueDispatchIntents # {} /\ definitionStatus # "REVOKED" =>
        \E t \in Transitions :
            <<"transition", t>> \in AuthorizedActions("assignee")

(* A dispatch intent the owner may have been asked about, and is no more. *)
IntentIsFree ==
    /\ Business /\ AssignedToMe /\ OpenCases = {}
    /\ activations[visit].kind = "DISPATCH_INTENT"

(* It is given every due intent nobody is asked about. *)
FeedIsComplete ==
    IntentIsFree /\ ~WaitingForTime => DueDispatchIntents = {visit}

(* Once the owner has answered, the evidence to resume is there. *)
EvidenceIsThere ==
    \A i \in DOMAIN events :
        IntentIsFree /\ Evidences(i, visit) =>
            events[i].case \in ResumeEvidence(visit, i - 1)

SchedulerSeesTheWork ==
    FeedIsTheWork /\ DueWorkCanMove /\ FeedIsComplete /\ EvidenceIsThere

(* What the API shows is what the commands do: reads succeed, offers can be *)
(* taken, and the scheduler's feed holds the work and only the work.        *)
ReadsTellTheTruth ==
    Exists /\ Room => ReadsSucceed /\ OffersAreTaken /\ SchedulerSeesTheWork
=============================================================================
