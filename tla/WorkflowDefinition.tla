------------------------- MODULE WorkflowDefinition -------------------------
(***************************************************************************)
(* The published definition version an instance runs on: its node graph,   *)
(* its transitions, its semantic model and the RETURN budget of the         *)
(* deployment.  Nothing here changes while an instance lives: the graph of  *)
(* a published version is immutable.                                        *)
(***************************************************************************)
EXTENDS Integers, Sequences, FiniteSets

CONSTANTS
    SemanticModel,      \* 1 = Legacy, 2 = Minimal, 3 = VISIT_ACTIVATION_V1
    Nodes,              \* the node definitions of the version
    NodeType,           \* [Nodes -> {"DRAFT", "TASK", "TERMINAL"}]
    OrderIndex,         \* [Nodes -> Nat]
    EntryNode,          \* the node the first visit is created on
    Transitions,        \* the transition definitions of the version
    NoTransition,       \* NULL in the transition columns
    Source, Target,     \* [Transitions -> Nodes]
    Effect,             \* [Transitions -> {"ADVANCE", "RETURN", "TERMINATE"}]
    Primary,            \* the primary ADVANCE transitions
    MaxReturnsPerEdge,  \* WORKFLOW_POLICY_MAX_RETURNS_PER_EDGE, at least 1
    Business            \* execution class: BUSINESS or NON_BUSINESS_TEST

Legacy          == SemanticModel = 1
Minimal         == SemanticModel = 2
VisitActivation == SemanticModel = 3

ASSUME DefinitionAssumption ==
    /\ SemanticModel \in 1..3
    /\ NodeType \in [Nodes -> {"DRAFT", "TASK", "TERMINAL"}]
    /\ OrderIndex \in [Nodes -> Nat]
    /\ EntryNode \in Nodes
    /\ NodeType[EntryNode] = IF Legacy THEN "DRAFT" ELSE "TASK"
    /\ NoTransition \notin Transitions
    /\ Source \in [Transitions -> Nodes]
    /\ Target \in [Transitions -> Nodes]
    /\ Effect \in [Transitions -> {"ADVANCE", "RETURN", "TERMINATE"}]
    /\ Primary \subseteq Transitions
    /\ MaxReturnsPerEdge \in Nat \ {0}
    /\ Business \in BOOLEAN

(* Models 2 and 3 have no DRAFT node: their entry is a TASK. *)
ASSUME NodeTypesAssumption ==
    Legacy \/ \A n \in Nodes : NodeType[n] # "DRAFT"

(***************************************************************************)
(* The transition-time checks on a transition's effect and on its target   *)
(* node, by semantic model.  The validators of models 1 and 3 leave no node  *)
(* that works without a primary, so an ADVANCE that is not it is refused;    *)
(* the rollback of an ADVANCE whose node has none is for graphs they refuse. *)
(***************************************************************************)
EffectAllowed(t) ==
    CASE Effect[t] = "ADVANCE"   -> Minimal \/ t \in Primary
      [] Effect[t] = "RETURN"    -> Minimal \/ t \notin Primary
      [] Effect[t] = "TERMINATE" -> ~Minimal /\ t \notin Primary

TargetAllowed(t) ==
    CASE Effect[t] = "ADVANCE"   -> TRUE
      [] Effect[t] = "RETURN"    ->
            /\ NodeType[Target[t]] # "TERMINAL"
            /\ Minimal \/ OrderIndex[Target[t]] < OrderIndex[Source[t]]
      [] Effect[t] = "TERMINATE" -> NodeType[Target[t]] = "TERMINAL"

(* VISIT_ACTIVATION_V1 refuses a source that is not a TASK. *)
NodeKindsAllowed(t) ==
    VisitActivation => /\ NodeType[Source[t]] = "TASK"
                       /\ NodeType[Target[t]] \in {"TASK", "TERMINAL"}

Applicable(t, node) ==
    /\ Source[t] = node
    /\ EffectAllowed(t)
    /\ TargetAllowed(t)
    /\ NodeKindsAllowed(t)
=============================================================================
