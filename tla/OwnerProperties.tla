-------------------------- MODULE OwnerProperties --------------------------
(* What OwnerObligation promises of a governed assistance case. *)
EXTENDS OwnerObligation

Children(kind) == [node : 0..Last[kind], gone : BOOLEAN,
                   assignee : Owners \cup {Nobody}, verdict : Verdicts]

\* The rows of the tables: cases, intents, managed instances and effect slots.
TypeOK ==
  /\ source \in [live : BOOLEAN, visit : 1..MaxVisits]
  /\ cases \in [Cases -> [status : CaseStatuses, visit : 0..MaxVisits]]
  /\ owner \in [who : Owners, enabled : BOOLEAN]
  /\ actor \in [configured : BOOLEAN, enabled : BOOLEAN]
  /\ intent \in [Obligations -> IntentStates]
  /\ DOMAIN child = Obligations
  /\ \A i \in Obligations : child[i] \in Children(i[2])
  /\ effect \in [Obligations -> [Nodes -> EffectStates]]
  /\ leaves \in [Obligations -> [Nodes -> Nat]]
  /\ refused \subseteq Obligations /\ changes \in 0..MaxChanges
  /\ pass \in [phase : Phases, left : SUBSET Obligations,
               cleaning : Obligations \cup {NothingToClean}]

(* A governed case ends only through its REVIEW: it is RESOLVED by a REVIEW
   effect that had an accepted INTAKE at its terminal to point at, HUMAN_REQUIRED
   by one that escalated, and VOIDED with its source. *)
CaseClosedByReview ==
  \A c \in Cases :
    LET slots == effect[<<c, "REVIEW">>] IN
    /\ cases[c].status = "RESOLVED" =>
         /\ \E n \in Nodes : slots[n] = "RESOLVE"
         /\ child[<<c, "INTAKE">>].verdict = "ACCEPTED"
    /\ cases[c].status = "HUMAN_REQUIRED" => \E n \in Nodes : slots[n] = "ESCALATE"
    /\ cases[c].status = "OWNER_PENDING" =>
         SourceCurrent(c) /\ \A n \in Nodes : slots[n] \notin {"RESOLVE", "ESCALATE"}

(* An effect slot creates at most one instance, however often the owner calls
   execute, walks back to the node and calls again: the slot is the command. *)
OneLeafPerSlot ==
  \A i \in Obligations, n \in Nodes :
    leaves[i][n] = IF effect[i][n] = "CREATE" THEN 1 ELSE 0

(* The two stages of a case: a REVIEW exists only once its INTAKE instance has
   ended, an obligation is COMPLETED exactly when its own instance ended, and
   nothing was materialised for one that is still waiting or was blocked. *)
ObligationFollowsChild ==
  \A i \in Obligations :
    /\ intent[i] \in {"NONE", "PENDING", "BLOCKED_KNOWN"} => child[i].node = 0
    /\ intent[i] \in {"MATERIALIZED", "COMPLETED"} => child[i].node > 0
    /\ AtTerminal(i) <=> intent[i] = "COMPLETED"
    /\ i[2] = "REVIEW" /\ intent[i] # "NONE" => intent[<<i[1], "INTAKE">>] = "COMPLETED"

(* Whatever ends the source's responsibility settles its obligations in the
   same transaction: the background pass never finds one to retire. *)
RetirementIsImmediate == Stale = {}

(* A live instance that may still be worked on belongs to the present owner, or
   was already his when its node was opened: replacing him stops it. *)
OldOwnerIsOut ==
  \A i \in Obligations :
    intent[i] = "MATERIALIZED" => child[i].assignee = owner.who

(* The tables of a governed case never drift apart: slots, intents, instances
   and owner agree after every transaction, whichever of them it wrote. *)
ObligationSafety ==
  OneLeafPerSlot /\ ObligationFollowsChild /\ RetirementIsImmediate /\ OldOwnerIsOut

(* STOPPED, RETIRED and COMPLETED are final whatever commands, passes and
   restarts follow, and a finished or abandoned instance never moves again. *)
DecisionsStay ==
  [][\A i \in Obligations :
       /\ Final(i) => intent'[i] = intent[i]
       /\ intent[i] \in {"STOPPED", "RETIRED"} =>
            child'[i].node = child[i].node /\ effect'[i] = effect[i]]_vars

-----------------------------------------------------------------------------
(* The refusal of a cleanup is its receipt: the same key replays it for ever. *)
Poisoned == \E i \in refused : Live(i)

(* Every waiting obligation is decided by the pass, whatever restarts and
   changes of the actor it meets, unless a child whose cleanup was once refused
   keeps ending each pass before that. *)
PendingDecided ==
  \A i \in Obligations : intent[i] = "PENDING" ~> (intent[i] # "PENDING" \/ Poisoned)

(* The instance of a retired obligation is closed by the pass: with the same
   exception, and with the approved actor configured and enabled. *)
RetiredChildEnds ==
  <>[](actor.configured /\ actor.enabled) =>
    \A i \in Obligations :
      intent[i] = "RETIRED" /\ Live(i) ~> (~Live(i) \/ Poisoned)

(* The pass gets round to everything commands leave to it. *)
PassesFinishTheWork == PendingDecided /\ RetiredChildEnds
=============================================================================
