----------------------------- MODULE GraphRules -----------------------------
(***************************************************************************)
(* What makes a graph legal: the three validators of the semantic models     *)
(* and the rules on schemas, annotations and owner obligations that go with   *)
(* them.  A node is its order_index; a graph is                              *)
(*   [kind, who, edges, primary, exempt, declares, bound, role, targets,     *)
(*    slots, producer]                                                       *)
(* with the marks a node or a transition carries in its metadata or schema.  *)
(***************************************************************************)
EXTENDS Integers, FiniteSets

Effects == {"ADVANCE", "RETURN", "TERMINATE"}
NoEdge == [from |-> -1, to |-> -1, effect |-> "ADVANCE"]
NoNode == -1

NodesOf(g) == DOMAIN g.kind
Terminals(g) == {n \in NodesOf(g) : g.kind[n] = "TERMINAL"}
Works(g) == NodesOf(g) \ Terminals(g)
Of(g, effect) == {e \in g.edges : e.effect = effect}

\* A graph as a replacement builds it: finite, nodes are numbered, and the
\* primary of a node is one of the graph's transitions or none.
WellDrawn(g) ==
  /\ IsFiniteSet(NodesOf(g)) /\ NodesOf(g) \subseteq Int
  /\ IsFiniteSet(g.edges) /\ \A e \in g.edges : e.effect \in Effects
  /\ \A n \in NodesOf(g) : g.primary[n] \in g.edges \cup {NoEdge}

\* Every node some path of E leads to from S, S included.
Reach(E, S) ==
  LET step[i \in Nat] ==
        IF i = 0 THEN S ELSE step[i - 1] \cup {e.to : e \in {x \in E : x.from \in step[i - 1]}}
  IN step[Cardinality(E)]

OnCycle(E) == {e \in E : e.from \in Reach(E, {e.to})}
Heads(E, S) == {n \in S : \A e \in E : e.to # n}

-----------------------------------------------------------------------------
(* Rules more than one model has. *)

ReferencesHold(g) == \A e \in g.edges : {e.from, e.to} \subseteq NodesOf(g) /\ e.from # e.to
TerminalIsLast(g) == \A e \in g.edges : e.from \notin Terminals(g)
TerminalUnassigned(g) == \A n \in Terminals(g) : g.who[n] = "none"
OneEntry(g) == Cardinality(Heads(Of(g, "ADVANCE"), Works(g))) = 1
Entry(g) == CHOOSE n \in Heads(Of(g, "ADVANCE"), Works(g)) : TRUE

-----------------------------------------------------------------------------
(* Model 1, Legacy. *)

Drafts(g) == {n \in NodesOf(g) : g.kind[n] = "DRAFT"}

LegacyNodes(g) ==
  /\ Cardinality(NodesOf(g)) >= 2
  /\ Cardinality(Drafts(g)) = 1
  /\ Terminals(g) # {}

LegacyAssignees(g) ==
  /\ TerminalUnassigned(g)
  /\ \A n \in Works(g) : g.kind[n] \in {"DRAFT", "NORMAL"} /\ g.who[n] # "none"
  /\ \A n \in Drafts(g) : g.who[n] = "creator"

\* Only a NORMAL node takes its assignee from the context.
InputsCovered(g, schema) ==
  (\E n \in NodesOf(g) : g.kind[n] = "NORMAL" /\ g.who[n] = "input") => schema \in {"open", "requires"}

LegacyPrimary(g) ==
  /\ \A n \in Works(g) : g.primary[n] # NoEdge
  /\ \A n \in NodesOf(g) : g.primary[n] # NoEdge =>
       /\ g.primary[n].from = n
       /\ g.primary[n].effect = "ADVANCE"
       /\ g.primary[n].to > n

\* The targets as the validator's map has them: whatever the primary is.
PrimarySteps(g) ==
  {[from |-> n, to |-> g.primary[n].to, effect |-> "ADVANCE"] :
     n \in {m \in Works(g) : g.primary[m] # NoEdge}}
PrimaryAcyclic(g) == OnCycle(PrimarySteps(g)) = {}

\* The walk from the DRAFT node stops at a TERMINAL, where no primary leads on,
\* or where one leads to its own node: on a longer cycle it does not stop.
TrunkWalkStops(g) ==
  \A e \in OnCycle(PrimarySteps(g)) : e.from \in Reach(PrimarySteps(g), Drafts(g)) => e.from = e.to

TrunkReachesTerminal(g) == Reach(PrimarySteps(g), Drafts(g)) \cap Terminals(g) # {}

AllReachable(g) == NodesOf(g) \subseteq Reach(g.edges, Drafts(g))

\* One exit of the graph serves every node.
FailureCovered(g) ==
  (\E n \in NodesOf(g) : g.kind[n] \notin {"DRAFT", "TERMINAL"} /\ n \notin g.exempt)
    => Of(g, "RETURN") \cup Of(g, "TERMINATE") # {}

ReturnsGoBack(g) ==
  \A e \in Of(g, "RETURN") : e.to \notin Terminals(g) /\ e.to < e.from /\ g.primary[e.from] # e
TerminatesEnd(g) ==
  \A e \in Of(g, "TERMINATE") : e.to \in Terminals(g) /\ g.primary[e.from] # e

LegacyLegal(g, schema) ==
  /\ LegacyNodes(g)
  /\ LegacyAssignees(g)
  /\ InputsCovered(g, schema)
  /\ ReferencesHold(g)
  /\ LegacyPrimary(g) /\ PrimaryAcyclic(g) /\ TrunkReachesTerminal(g)
  /\ AllReachable(g)
  /\ FailureCovered(g)
  /\ ReturnsGoBack(g) /\ TerminatesEnd(g) /\ TerminalIsLast(g)

-----------------------------------------------------------------------------
(* Model 2, Minimal: no DRAFT, no primary, no TERMINATE. *)

MinimalNodes(g) ==
  /\ \A n \in Works(g) : g.kind[n] = "NORMAL" /\ g.who[n] \notin {"none", "owner"}
  /\ TerminalUnassigned(g)
  /\ \A n \in NodesOf(g) : g.primary[n] = NoEdge

MinimalReturns(g) == \A e \in Of(g, "RETURN") : e.from \in Reach(Of(g, "ADVANCE"), {e.to})

MinimalLegal(g) ==
  /\ ReferencesHold(g)
  /\ MinimalNodes(g)
  /\ Of(g, "TERMINATE") = {}
  /\ OnCycle(Of(g, "ADVANCE")) = {}
  /\ OneEntry(g)
  /\ Works(g) \subseteq Reach(Of(g, "ADVANCE"), {Entry(g)})
  /\ MinimalReturns(g)
  /\ TerminalIsLast(g)

-----------------------------------------------------------------------------
(* Model 3, VISIT_ACTIVATION_V1. *)

ActivationNodes(g) ==
  /\ \A n \in Works(g) : g.kind[n] = "TASK" /\ g.who[n] \in {"creator", "owner", "fixed"}
  /\ TerminalUnassigned(g)
  /\ \A n \in Works(g) : g.primary[n] # NoEdge
  /\ \A n \in Terminals(g) : g.primary[n] = NoEdge

\* The primary must be an ADVANCE of the graph, not of its node.
ActivationPrimary(g) == \A n \in Works(g) : g.primary[n] \in Of(g, "ADVANCE")

OneAdvanceEach(g) ==
  \A e, f \in Of(g, "ADVANCE") : e.from = f.from /\ e.from \notin Terminals(g) => e = f

\* The chain is followed over the node's own transitions only.
ActivationSteps(g) == {g.primary[n] : n \in {m \in Works(g) : g.primary[m].from = m}}

ActivationReturns(g) == \A e \in Of(g, "RETURN") : g.kind[e.to] = "TASK" /\ e.to < e.from

ActivationLegal(g) ==
  /\ ReferencesHold(g)
  /\ ActivationNodes(g)
  /\ ActivationPrimary(g)
  /\ OneAdvanceEach(g)
  /\ OnCycle(ActivationSteps(g)) = {}
  /\ OneEntry(g)
  /\ NodesOf(g) \subseteq Reach(Of(g, "ADVANCE") \cup Of(g, "TERMINATE"), {Entry(g)})
  /\ ActivationReturns(g)
  /\ TerminatesEnd(g)
  /\ TerminalIsLast(g)

-----------------------------------------------------------------------------
(* What the three verdicts are joined with. *)

ModelLegal(model, g, schema) ==
  CASE model = 1 -> LegacyLegal(g, schema)
    [] model = 2 -> MinimalLegal(g)
    [] model = 3 -> ActivationLegal(g)

\* A schema compiles and refers to nothing outside itself.
SchemaSound(schema) == schema # "broken"

\* What a node declares it reads must be required by the schema, typed, and, of
\* a list, not empty and out of a closed set: "open" leaves that away.
DeclaredCovered(g, schema) == g.declares # {} => schema = "requires"
SchemasHold(g, schema) == SchemaSound(schema) /\ DeclaredCovered(g, schema)

\* The opt-in to bound acceptance: on the primary ADVANCE of a model 3 TASK.
BindingsPlaced(model, g) ==
  \A e \in g.bound :
    /\ model = 3
    /\ e.effect = "ADVANCE"
    /\ g.kind[e.from] = "TASK"
    /\ g.primary[e.from] = e

\* Policy and role of owner obligations, operations and what they wait for.
Waiting(g) == {n \in NodesOf(g) : g.producer[n] # NoNode}
ObligationsHold(model, g) ==
  /\ g.targets # {} \/ g.role # "none" => model = 3
  /\ ~(g.targets # {} /\ g.role # "none")
  /\ g.role # "none" =>
       /\ OnCycle(Of(g, "ADVANCE")) = {}
       /\ \A n \in Works(g) : Reach(Of(g, "ADVANCE"), {n}) \cap Terminals(g) # {}
  /\ \A n \in Waiting(g) \cup g.slots : g.role # "none" /\ g.kind[n] = "TASK"
  /\ \A n \in Waiting(g) :
       /\ g.producer[n] \in g.slots
       /\ g.producer[n] < n
       /\ n \in Reach(Of(g, "ADVANCE"), {g.producer[n]})

-----------------------------------------------------------------------------
(* What an instance can do on a graph: an ADVANCE only along the primary of   *)
(* its node (model 2 has none), a RETURN and a TERMINATE as drawn.            *)

Moves(model, g) ==
  {e \in g.edges : e.effect = "ADVANCE" /\ model # 2 => g.primary[e.from] = e}
EntryOf(model, g) == IF model = 1 THEN CHOOSE n \in Drafts(g) : TRUE ELSE Entry(g)

CanEnd(model, g) ==
  \A n \in Reach(Moves(model, g), {EntryOf(model, g)}) :
    Reach(Moves(model, g), {n}) \cap Terminals(g) # {}

\* A cycle of moves passes a RETURN: only the budget of returns is spent on it.
CyclesReturn(model, g) ==
  OnCycle({e \in Moves(model, g) : e.effect # "RETURN"}) = {}
ReturnsAreEarlier(model, g) ==
  \A e \in Of(g, "RETURN") : e.to < e.from \/ (model = 2 /\ e.from \in Reach(Of(g, "ADVANCE"), {e.to}))
=============================================================================
