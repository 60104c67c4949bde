---------------------------- MODULE OwnerObligation ----------------------------
(***************************************************************************)
(* Governed assistance cases of one source instance. Its definition carries *)
(* an owner policy: a request for help creates a durable intent, a          *)
(* background pass turns it into a managed INTAKE instance, the end of that *)
(* instance creates a REVIEW intent, and only an operation effect of the    *)
(* REVIEW instance may close the case.                                      *)
(*                                                                         *)
(* Every command takes the domain's row lock first (fence, the first        *)
(* statement of execute, the one of materialize), so a command is one       *)
(* step; PREPARED and STARTED effects never leave their transaction. The    *)
(* background pass is several transactions over lists it read before.       *)
(***************************************************************************)
EXTENDS Naturals, FiniteSets

CONSTANTS
  Owners,          \* principals that may own the domain
  Nobody,          \* not a principal: a child that does not exist has it
  MaxCases,        \* requests for help
  MaxVisits,       \* visits of the source instance
  MaxChanges,      \* owner replacements, enablings, disablings and restarts
  Last,            \* Last[k]: the TERMINAL node of the managed graph of kind k
  OpNodes,         \* OpNodes[k]: nodes that carry a workflowOperation
  GateNodes,       \* INTAKE nodes with a prerequisite gate
  Producer,        \* Producer[g]: the node whose slot the gate g names
  Operations       \* Operations[k]: operations the nodes of kind k allow

Kinds == {"INTAKE", "REVIEW"}
Cases == 1..MaxCases
Obligations == Cases \X Kinds
Nodes == 1..(Last["INTAKE"] + Last["REVIEW"] - 1)
AllOperations == {"CREATE", "RESOLVE", "ESCALATE"}

ASSUME OwnerAssumption ==
  /\ Nobody \notin Owners
  /\ MaxCases \in Nat /\ MaxVisits \in Nat \ {0} /\ MaxChanges \in Nat
  /\ Last \in [Kinds -> Nat \ {0, 1}]
  /\ OpNodes \in [Kinds -> SUBSET Nodes]
  /\ \A k \in Kinds : OpNodes[k] \subseteq 1..(Last[k] - 1)
  /\ GateNodes \subseteq 1..(Last["INTAKE"] - 1)
  /\ Producer \in [GateNodes -> OpNodes["INTAKE"]]
  /\ Operations \in [Kinds -> SUBSET AllOperations]

CaseStatuses == {"NONE", "OWNER_PENDING", "HUMAN_REQUIRED", "RESOLVED", "VOIDED"}
FinalStates == {"STOPPED", "RETIRED", "COMPLETED"}
IntentStates == {"NONE", "PENDING", "MATERIALIZED", "BLOCKED_KNOWN"} \cup FinalStates
EffectStates == {"NOT_STARTED", "REJECTED_ZERO_FACTS"} \cup AllOperations
Verdicts == {"NONE", "ACCEPTED", "NOT_ACCEPTED"}
Phases == {"idle", "stop", "cleanup", "materialize"}

VARIABLES
  source,    \* [live, visit]: the source instance
  cases,     \* cases[c]: [status, visit]
  owner,     \* [who, enabled]: the domain's DOMAIN_OWNER
  actor,     \* [configured, enabled]: the policy actor the policy approved
  intent,    \* intent[i]: state of the row in workflow_owner_obligation_intents
  child,     \* child[i]: the managed instance, [node, gone, assignee, verdict]
  effect,    \* effect[i][n]: the slot of node n in workflow_operation_effects
  leaves,    \* leaves[i][n]: instances the slot of node n has created
  refused,   \* obligations whose cleanup receipt is a refusal
  pass,      \* [phase, left, cleaning]: the background pass
  changes    \* changes of the domain and of the service so far

vars == <<source, cases, owner, actor, intent, child, effect, leaves, refused, pass, changes>>

NoChild == [node |-> 0, gone |-> FALSE, assignee |-> Nobody, verdict |-> "NONE"]
NothingToClean == <<0, "INTAKE">>
Idle == [phase |-> "idle", left |-> {}, cleaning |-> NothingToClean]

Init ==
  /\ source = [live |-> TRUE, visit |-> 1]
  /\ cases = [c \in Cases |-> [status |-> "NONE", visit |-> 0]]
  /\ owner \in [who : Owners, enabled : {TRUE}]
  /\ actor = [configured |-> TRUE, enabled |-> TRUE]
  /\ intent = [i \in Obligations |-> "NONE"]
  /\ child = [i \in Obligations |-> NoChild]
  /\ effect = [i \in Obligations |-> [n \in Nodes |-> "NOT_STARTED"]]
  /\ leaves = [i \in Obligations |-> [n \in Nodes |-> 0]]
  /\ refused = {}
  /\ pass = Idle
  /\ changes = 0

-----------------------------------------------------------------------------
(* What the guards read. *)

SourceCurrent(c) == source.live /\ cases[c].visit = source.visit
OpenCases == {c \in Cases : cases[c].status \in {"OWNER_PENDING", "HUMAN_REQUIRED"}}
Live(i) == child[i].node > 0 /\ ~child[i].gone
AtTerminal(i) == child[i].node = Last[i[2]]
Final(i) == intent[i] \in FinalStates

OwnCaseEffect(i) == \E n \in Nodes : effect[i][n] \in {"RESOLVE", "ESCALATE"}

Active(i) ==
  /\ intent[i] \notin {"STOPPED", "RETIRED"}
  /\ actor.enabled /\ Live(i)
  /\ \/ cases[i[1]].status = "OWNER_PENDING" /\ SourceCurrent(i[1])
     \/ i[2] = "REVIEW" /\ OwnCaseEffect(i)

Stopped(states, affected) ==
  [i \in Obligations |-> IF i \in affected /\ states[i] \notin FinalStates \cup {"NONE"}
                         THEN "STOPPED" ELSE states[i]]

\* All the source's obligations, whichever case they are for.
Retired(states, excepted) ==
  [i \in Obligations |-> IF states[i] \in FinalStates \cup {"NONE"} \/ i \in excepted
                         THEN states[i] ELSE "RETIRED"]

-----------------------------------------------------------------------------
(* Commands on the source instance. *)

Request(c) ==
  /\ source.live /\ owner.enabled
  /\ cases[c].status = "NONE" /\ \A d \in Cases : d < c => cases[d].status # "NONE"
  /\ \A d \in OpenCases : cases[d].visit # source.visit
  /\ cases' = [cases EXCEPT ![c] = [status |-> "OWNER_PENDING", visit |-> source.visit]]
  /\ intent' = [intent EXCEPT ![<<c, "INTAKE">>] = "PENDING"]
  /\ UNCHANGED <<source, owner, actor, child, effect, leaves, refused, pass, changes>>

(* Fault: the cases are closed, their obligations left to the pass. *)
VoidWithoutRetiring ==
  /\ intent' = intent
  /\ cases' = [c \in Cases |-> IF c \in OpenCases THEN [cases[c] EXCEPT !.status = "VOIDED"]
                               ELSE cases[c]]

\* A cancellation, or an override, which also moves the instance on.
VoidOpenCases ==
  /\ intent' = Retired(intent, {})
  /\ cases' = [c \in Cases |-> IF c \in OpenCases THEN [cases[c] EXCEPT !.status = "VOIDED"]
                               ELSE cases[c]]

CancelSource ==
  /\ source.live
  /\ source' = [source EXCEPT !.live = FALSE]
  /\ VoidOpenCases
  /\ UNCHANGED <<owner, actor, child, effect, leaves, refused, pass, changes>>

OverrideSource ==
  /\ source.visit < MaxVisits
  /\ source' = [live |-> TRUE, visit |-> source.visit + 1]
  /\ VoidOpenCases
  /\ UNCHANGED <<owner, actor, child, effect, leaves, refused, pass, changes>>

MoveSource ==
  /\ source.live /\ source.visit < MaxVisits
  /\ \A c \in OpenCases : cases[c].visit # source.visit
  /\ source' = [source EXCEPT !.visit = @ + 1]
  /\ UNCHANGED <<cases, owner, actor, intent, child, effect, leaves, refused, pass, changes>>

-----------------------------------------------------------------------------
(* Commands on a managed instance i. *)

Operable(i, n) ==
  /\ Live(i) /\ child[i].node = n /\ n \in OpNodes[i[2]]
  /\ owner.enabled /\ child[i].assignee = owner.who
  /\ effect[i][n] = "NOT_STARTED"

(* Fault: the INTAKE's outcome is not compared. *)
ReviewProofAnyOutcome(c) ==
  LET intake == <<c, "INTAKE">> IN
  c \in OpenCases /\ SourceCurrent(c) /\ AtTerminal(intake) /\ ~child[intake].gone

ReviewProof(c) ==
  LET intake == <<c, "INTAKE">> IN
  /\ c \in OpenCases /\ SourceCurrent(c)
  /\ AtTerminal(intake) /\ ~child[intake].gone
  /\ child[intake].verdict = "ACCEPTED"

\* What the facts of the operation need; anything else is a refusal.
Admissible(i, op) ==
  CASE op = "CREATE"   -> TRUE
    [] op = "RESOLVE"  -> i[2] = "REVIEW" /\ ReviewProof(i[1])
    [] op = "ESCALATE" -> /\ i[2] = "REVIEW" /\ SourceCurrent(i[1])
                          /\ cases[i[1]].status = "OWNER_PENDING"

Execute(i, n, op) ==
  /\ Operable(i, n) /\ op \in Operations[i[2]]
  /\ actor.configured /\ actor.enabled /\ Active(i)
  /\ Admissible(i, op)
  /\ effect' = [effect EXCEPT ![i][n] = op]
  /\ leaves' = IF op = "CREATE" THEN [leaves EXCEPT ![i][n] = @ + 1] ELSE leaves
  /\ cases' = [cases EXCEPT ![i[1]].status =
                 CASE op = "CREATE" -> @ [] op = "RESOLVE" -> "RESOLVED"
                   [] op = "ESCALATE" -> "HUMAN_REQUIRED"]
  /\ intent' = IF op = "CREATE" THEN intent ELSE Retired(intent, {i})
  /\ UNCHANGED <<source, owner, actor, child, refused, pass, changes>>

\* Admissible or not, it may be refused: its versions or payload may be stale.
RejectOperation(i, n) ==
  /\ Operable(i, n) /\ actor.configured /\ actor.enabled /\ Active(i)
  /\ effect' = [effect EXCEPT ![i][n] = "REJECTED_ZERO_FACTS"]
  /\ intent' = Stopped(intent, {i})
  /\ UNCHANGED <<source, cases, owner, actor, child, leaves, refused, pass, changes>>

\* The policy actor this process was started with is not the approved one, or
\* is disabled: execute stops the obligation before it claims the slot.
StopUnderWrongActor(i, n) ==
  /\ Operable(i, n) /\ ~(actor.configured /\ actor.enabled)
  /\ intent' = Stopped(intent, {i})
  /\ UNCHANGED <<source, cases, owner, actor, child, effect, leaves, refused, pass, changes>>

\* Every transition of i to node m, and the one that ends it.
Transitional(i, m) ==
  /\ Active(i)
  /\ i[2] = "INTAKE" /\ m \in GateNodes => effect[i][Producer[m]] = "CREATE"

Succeeded(i) == effect[i][child[i].node] \in AllOperations

(* Fault: nothing keeps an instance that reached its terminal node there. *)
MovePastEnd(i, m) ==
  /\ Transitional(i, m) /\ owner.enabled
  /\ \/ m = child[i].node + 1 /\ (child[i].node \in OpNodes[i[2]] => Succeeded(i))
     \/ m = child[i].node - 1 /\ m > 0
  /\ child' = [child EXCEPT ![i].node = m, ![i].assignee = owner.who]
  /\ UNCHANGED <<source, cases, owner, actor, intent, effect, leaves, refused, pass, changes>>

Move(i, m) ==
  /\ m \in 1..(Last[i[2]] - 1) /\ Transitional(i, m)
  /\ \/ m = child[i].node + 1 /\ (child[i].node \in OpNodes[i[2]] => Succeeded(i))
     \/ m = child[i].node - 1
  /\ child[i].node < Last[i[2]]
  /\ owner.enabled
  /\ child' = [child EXCEPT ![i].node = m, ![i].assignee = owner.who]
  /\ UNCHANGED <<source, cases, owner, actor, intent, effect, leaves, refused, pass, changes>>

\* completed, then terminal: the INTAKE's end creates the REVIEW intent.
Finish(i, verdict) ==
  LET c == i[1] IN
  /\ Transitional(i, Last[i[2]]) /\ child[i].node = Last[i[2]] - 1
  /\ child[i].node \in OpNodes[i[2]] => Succeeded(i)
  /\ i[2] = "REVIEW" =>
       cases[c].status \in {"RESOLVED", "HUMAN_REQUIRED"} /\ OwnCaseEffect(i)
  /\ child' = [child EXCEPT ![i].node = Last[i[2]],
                            ![i].verdict = IF i[2] = "INTAKE" THEN verdict ELSE "NONE"]
  /\ intent' = [j \in Obligations |->
                  IF j = i /\ intent[j] = "MATERIALIZED" THEN "COMPLETED"
                  ELSE IF i[2] = "INTAKE" /\ j = <<c, "REVIEW">> /\ intent[j] = "NONE"
                  THEN "PENDING" ELSE intent[j]]
  /\ UNCHANGED <<source, cases, owner, actor, effect, leaves, refused, pass, changes>>

\* The owner cancels a managed instance, or archives one that has ended. The
\* obligations of its case are those of the source and stay as they are.
CloseChild(i) ==
  /\ Live(i)
  /\ child' = [child EXCEPT ![i].gone = TRUE]
  /\ UNCHANGED <<source, cases, owner, actor, intent, effect, leaves, refused, pass, changes>>

\* A request for help, an exhausted budget or a RETURN limit of the managed
\* instance or of one that it created.
StopNested(i) ==
  /\ Live(i) /\ ~AtTerminal(i)
  /\ intent' = Stopped(intent, {i})
  /\ UNCHANGED <<source, cases, owner, actor, child, effect, leaves, refused, pass, changes>>

-----------------------------------------------------------------------------
(* The domain and the service's configuration. *)

Change == changes < MaxChanges /\ changes' = changes + 1

ReplaceOwner(o) ==
  /\ Change
  /\ o # owner.who
  /\ owner' = [who |-> o, enabled |-> TRUE]
  /\ intent' = Stopped(intent, Obligations)
  /\ UNCHANGED <<source, cases, actor, child, effect, leaves, refused, pass>>

SetOwnerEnabled(b) ==
  /\ Change
  /\ owner.enabled # b
  /\ owner' = [owner EXCEPT !.enabled = b]
  /\ UNCHANGED <<source, cases, actor, intent, child, effect, leaves, refused, pass>>

SetActorEnabled(b) ==
  /\ Change
  /\ actor.enabled # b
  /\ actor' = [actor EXCEPT !.enabled = b]
  /\ UNCHANGED <<source, cases, owner, intent, child, effect, leaves, refused, pass>>

\* A restart, possibly with another WORKFLOW_POLICY_ACTOR; the pass is lost.
Restart(b) ==
  /\ Change
  /\ actor' = [actor EXCEPT !.configured = b]
  /\ pass' = Idle /\ (pass # Idle \/ actor.configured # b)
  /\ UNCHANGED <<source, cases, owner, intent, child, effect, leaves, refused>>

-----------------------------------------------------------------------------
(* The background pass: three lists, each read before its items are handled, *)
(* every item checked again in a transaction of its own.                     *)

ActorMismatch == ~(actor.configured /\ actor.enabled)
Mismatched == {i \in Obligations : ActorMismatch /\ intent[i] \in {"PENDING", "MATERIALIZED"}}
Abandoned == {i \in Obligations : /\ intent[i] = "RETIRED" /\ actor.configured
                                  /\ Live(i) /\ ~AtTerminal(i)}
Waiting == {i \in Obligations : intent[i] = "PENDING"}

\* Obligations whose case is over and that are not the REVIEW that ended it.
Stale == {i \in Obligations :
            /\ intent[i] \in {"PENDING", "MATERIALIZED"}
            /\ ~SourceCurrent(i[1]) \/ cases[i[1]].status # "OWNER_PENDING"
            /\ ~(i[2] = "REVIEW" /\ OwnCaseEffect(i))}

BeginPass ==
  /\ pass.phase = "idle"
  /\ pass' = [Idle EXCEPT !.phase = "stop", !.left = Mismatched]
  /\ UNCHANGED <<source, cases, owner, actor, intent, child, effect, leaves, refused, changes>>

StopMismatch(i) ==
  /\ pass.phase = "stop" /\ i \in pass.left
  /\ intent' = IF i \in Mismatched THEN Stopped(intent, {i}) ELSE intent
  /\ pass' = [pass EXCEPT !.left = @ \ {i}]
  /\ UNCHANGED <<source, cases, owner, actor, child, effect, leaves, refused, changes>>

\* The first half of cleanup_retired.
RetireStale ==
  /\ pass.phase = "stop" /\ pass.left = {}
  /\ intent' = IF Stale = {} THEN intent
               ELSE Retired(intent, {i \in Obligations : i[2] = "REVIEW" /\ OwnCaseEffect(i)})
  /\ pass' = [pass EXCEPT !.phase = "cleanup",
                !.left = {i \in Abandoned \cup (Obligations \cap Stale) :
                            intent'[i] = "RETIRED" /\ Live(i) /\ ~AtTerminal(i)}]
  /\ UNCHANGED <<source, cases, owner, actor, child, effect, leaves, refused, changes>>

\* The cancellation of an abandoned child: authorisation under the lock ...
BeginCleanup(i) ==
  /\ pass.phase = "cleanup" /\ pass.cleaning = NothingToClean
  /\ i \in pass.left /\ i \notin refused
  /\ actor.enabled /\ intent[i] = "RETIRED" /\ Live(i)
  /\ pass' = [pass EXCEPT !.cleaning = i]
  /\ UNCHANGED <<source, cases, owner, actor, intent, child, effect, leaves, refused, changes>>

\* ... then the check that the actor is enabled, whose refusal is stored.
FinishCleanup(i) ==
  /\ pass.phase = "cleanup" /\ pass.cleaning = i /\ i \in Obligations
  /\ IF actor.enabled
     THEN /\ child' = [child EXCEPT ![i].gone = TRUE]
          /\ pass' = [pass EXCEPT !.left = @ \ {i}, !.cleaning = NothingToClean]
          /\ UNCHANGED refused
     ELSE /\ refused' = refused \cup {i}
          /\ pass' = Idle
          /\ UNCHANGED child
  /\ UNCHANGED <<source, cases, owner, actor, intent, effect, leaves, changes>>

\* An item that cannot be cancelled ends the pass: the error is returned.
AbortCleanup(i) ==
  /\ pass.phase = "cleanup" /\ pass.cleaning = NothingToClean /\ i \in pass.left
  /\ i \in refused \/ ~actor.enabled \/ ~Live(i)
  /\ pass' = Idle
  /\ UNCHANGED <<source, cases, owner, actor, intent, child, effect, leaves, refused, changes>>

EndCleanup ==
  /\ pass.phase = "cleanup" /\ pass.left = {} /\ pass.cleaning = NothingToClean
  /\ pass' = [pass EXCEPT !.phase = "materialize", !.left = Waiting]
  /\ UNCHANGED <<source, cases, owner, actor, intent, child, effect, leaves, refused, changes>>

Taken(i) == pass.phase = "materialize" /\ i \in pass.left
Done(i) == pass' = [pass EXCEPT !.left = @ \ {i}]
CaseActive(c) == cases[c].status = "OWNER_PENDING" /\ SourceCurrent(c) /\ owner.enabled

SkipDecided(i) ==
  /\ Taken(i) /\ intent[i] # "PENDING" /\ Done(i)
  /\ UNCHANGED <<source, cases, owner, actor, intent, child, effect, leaves, refused, changes>>

(* Fault: an obligation whose case is over is passed over, not retired. *)
GiveUpOnMismatch(i) ==
  /\ Taken(i) /\ intent[i] = "PENDING" /\ Done(i)
  /\ ActorMismatch \/ ~CaseActive(i[1])
  /\ intent' = [intent EXCEPT ![i] = IF ActorMismatch THEN "STOPPED" ELSE "PENDING"]
  /\ UNCHANGED <<source, cases, owner, actor, child, effect, leaves, refused, changes>>

GiveUpIntent(i) ==
  /\ Taken(i) /\ intent[i] = "PENDING" /\ Done(i)
  /\ ActorMismatch \/ ~CaseActive(i[1])
  /\ intent' = [intent EXCEPT ![i] = IF ActorMismatch THEN "STOPPED" ELSE "RETIRED"]
  /\ UNCHANGED <<source, cases, owner, actor, child, effect, leaves, refused, changes>>

(* Fault: the state the list was read with is not read again. *)
MaterializeUnchecked(i) ==
  /\ Taken(i) /\ Done(i)
  /\ ~ActorMismatch /\ CaseActive(i[1])
  /\ child' = [child EXCEPT ![i] = [NoChild EXCEPT !.node = 1, !.assignee = owner.who]]
  /\ intent' = [intent EXCEPT ![i] = "MATERIALIZED"]
  /\ UNCHANGED <<source, cases, owner, actor, effect, leaves, refused, changes>>

Materialize(i) ==
  /\ Taken(i) /\ intent[i] = "PENDING" /\ Done(i)
  /\ ~ActorMismatch /\ CaseActive(i[1])
  /\ child' = [child EXCEPT ![i] = [NoChild EXCEPT !.node = 1, !.assignee = owner.who]]
  /\ intent' = [intent EXCEPT ![i] = "MATERIALIZED"]
  /\ UNCHANGED <<source, cases, owner, actor, effect, leaves, refused, changes>>

\* A deterministic refusal of the creation or of the binding.
BlockIntent(i) ==
  /\ Taken(i) /\ intent[i] = "PENDING" /\ Done(i)
  /\ ~ActorMismatch /\ CaseActive(i[1])
  /\ intent' = [intent EXCEPT ![i] = "BLOCKED_KNOWN"]
  /\ UNCHANGED <<source, cases, owner, actor, child, effect, leaves, refused, changes>>

EndPass ==
  /\ pass.phase = "materialize" /\ pass.left = {}
  /\ pass' = Idle
  /\ UNCHANGED <<source, cases, owner, actor, intent, child, effect, leaves, refused, changes>>

-----------------------------------------------------------------------------
PassStep ==
  \/ BeginPass \/ RetireStale \/ EndCleanup \/ EndPass
  \/ \E i \in Obligations :
       \/ StopMismatch(i) \/ BeginCleanup(i) \/ FinishCleanup(i) \/ AbortCleanup(i)
       \/ SkipDecided(i) \/ GiveUpIntent(i) \/ Materialize(i) \/ BlockIntent(i)

SourceStep ==
  CancelSource \/ OverrideSource \/ MoveSource \/ \E c \in Cases : Request(c)

ManagedStep ==
  \E i \in Obligations :
    \/ CloseChild(i) \/ StopNested(i)
    \/ \E v \in {"ACCEPTED", "NOT_ACCEPTED"} : Finish(i, v)
    \/ \E n \in Nodes : \/ Move(i, n) \/ RejectOperation(i, n) \/ StopUnderWrongActor(i, n)
                        \/ \E op \in AllOperations : Execute(i, n, op)

DomainStep ==
  \/ \E o \in Owners : ReplaceOwner(o)
  \/ \E b \in BOOLEAN : SetOwnerEnabled(b) \/ SetActorEnabled(b) \/ Restart(b)

Next == PassStep \/ SourceStep \/ ManagedStep \/ DomainStep

Spec == Init /\ [][Next]_vars
FairSpec == Spec /\ WF_vars(PassStep)
=============================================================================
