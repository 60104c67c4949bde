------------------------- MODULE DefinitionProperties -------------------------
(***************************************************************************)
(* What an instance may rely on when it is created from a published version, *)
(* and what a client may when a governance command was answered.             *)
(***************************************************************************)
EXTENDS Definitions

CONSTANT Last   \* the TERMINAL of the graphs a validator is tried on

ASSUME LastAssumption == Last \in Nat \ {0}

\* Every variable has its type; the connections out are within the pool; the
\* numbers of a definition's versions have no gap, and none is of a definition
\* that is not there.
TypeOK ==
  /\ defs \in [DefinitionIds -> {"none", "live", "archived"}]
  /\ DOMAIN version = Versions
  /\ \A v \in Versions :
       /\ version[v].status \in Statuses
       /\ version[v].model \in 1..3
       /\ version[v].content.schema \in Schemas
       /\ version[v].status # "none" =>
            defs[v[1]] # "none" /\ \A n \in 1..v[2] : version[<<v[1], n>>].status # "none"
  /\ owner \in BOOLEAN
  /\ \A k \in Keys : receipts[k].state \in {"none", "processing", "completed"}
  /\ phase \in [Clients -> Phases]
  /\ \A c \in Clients : phase[c] = "idle" <=> request[c] = NoRequest
  /\ Spare \in 0..PoolSize
  /\ stimuli \in 0..MaxStimuli

Issued(v) == version[v].status \in {"PUBLISHED", "DEPRECATED", "REVOKED"}

\* A version that was published passed the validators of its model and the
\* rules on annotations and obligations as it stands, its digest is that of
\* what is stored, and the versions its policy points to were themselves
\* published: although the graph was validated outside the transaction that
\* publishes, and a replace may have committed in between (publish_on_tx's
\* digest comparison, lifecycle_transactions.rs:312-316).
PublishedAsChecked ==
  \A v \in Versions : Issued(v) =>
    /\ ContentLegal(version[v].model, version[v].content)
    /\ version[v].digest = version[v].content
    /\ \A t \in version[v].content.graph.targets : Issued(t)

Forward == {<<"PUBLISHED", "DEPRECATED">>, <<"PUBLISHED", "REVOKED">>, <<"DEPRECATED", "REVOKED">>}

\* What was published stays as it is: no command, in whatever order the checks
\* and the writes of two of them fall, changes its graph, its schema or its
\* digest, and its status only moves on to DEPRECATED and REVOKED
\* (replace_draft_graph_inner's check under the lock of the version).
PublishedIsFixed ==
  [][\A v \in Versions : Issued(v) =>
       /\ version'[v].content = version[v].content
       /\ version'[v].digest = version[v].digest
       /\ version'[v].status # version[v].status =>
            <<version[v].status, version'[v].status>> \in Forward]_vars

Done(r) ==
  CASE r.op = "create" -> defs[r.d] # "none"
    [] r.op = "draft" ->
         \E v \in Versions : v[1] = r.d /\ version[v].born = r.key /\ version[v].model = r.model
    [] r.op = "replace" ->
         \E x \in replaced :
           /\ x.v = r.v /\ x.key = r.key
           /\ x.content.graph = r.graph /\ r.patch \in {"keep", x.content.schema}
    [] r.op = "publish" -> Issued(r.v) /\ r.expected \in {NoContent, version[r.v].digest}
    [] r.op = "archive" -> defs[r.d] = "archived"

\* What Hash leaves out.
Unhashed(r) == <<r.model, r.graph, r.patch>>

\* What a success read from a receipt stands for: the request's own effect or,
\* for a replace and a draft, whose receipts are compared without the graph and
\* the model (definition_governance/mod.rs:240, :286), that of the request its
\* key was first used for.
Vouched(r) ==
  \/ Done(r)
  \/ /\ r.op \in {"replace", "draft"}
     /\ \E q \in Requests : /\ q.key = r.key /\ Hash(q) = Hash(r)
                           /\ Unhashed(q) # Unhashed(r) /\ Done(q)

\* A command answered with success has its effect on record, whoever else wrote
\* between its check, its write and its receipt: a draft has a version of its
\* own and of its model, a replace stored its own graph, a publish published
\* what its client had looked at, an archived definition is archived for good
\* (governance_with_receipt).  A success that was read from a receipt is that of
\* the same command, except that a replace with another graph and a draft of
\* another model are told what the key's first request did, though nothing of
\* theirs was stored (handle_receipt_result, receipt.rs:44-52).
OkIsOnRecord ==
  /\ \A k \in Keys : receipts[k].answer = "ok" => Done(receipts[k].req)
  /\ \A c \in Clients : answer[c] = "ok" =>
       /\ phase[c] = "settled" => Done(request[c])
       /\ phase[c] = "told" => Vouched(request[c])

Edges(effect, targets) ==
  {[from |-> a, to |-> b, effect |-> effect] : a \in 1..(Last - 1), b \in targets}
AtMostOne(S) == {{}} \cup {{x} : x \in S}

\* Every node before the last works, any ADVANCE may be its primary, and there
\* is at most one RETURN and one TERMINATE.
Drawn(first, other, p, extra) ==
  [EmptyGraph EXCEPT
     !.kind = [n \in 1..Last |-> IF n = Last THEN "TERMINAL" ELSE IF n = 1 THEN first ELSE other],
     !.who = [n \in 1..Last |-> IF n = Last THEN "none" ELSE "creator"],
     !.edges = {p[n] : n \in 1..(Last - 1)} \cup extra,
     !.primary = [n \in 1..Last |-> IF n = Last THEN NoEdge ELSE p[n]]]

\* An instance on the graph goes round by spending its budget of returns alone,
\* a RETURN leads to an earlier node, and under model 1 the instance can be
\* taken to a TERMINAL from wherever its moves lead it.
Ends(model, g) ==
  /\ CyclesReturn(model, g) /\ ReturnsAreEarlier(model, g)
  /\ model = 1 => CanEnd(1, g)

\* The graph as model 2 has it, without primaries.
Unmarked(g) == [g EXCEPT !.primary = [n \in NodesOf(g) |-> NoEdge]]

\* What validate_graph, validate_minimal_graph and validate_visit_activation_graph
\* accept of the graphs of the run's size ends.  (Nothing of this changes with the state: it is
\* looked at once, before the first command.)
LegalGraphsEnd ==
  stimuli = 0 =>
  \A p \in [1..(Last - 1) -> Edges("ADVANCE", 1..Last)],
     r \in AtMostOne(Edges("RETURN", 1..(Last - 1))), t \in AtMostOne(Edges("TERMINATE", {Last})) :
    LET l == Drawn("DRAFT", "NORMAL", p, r \cup t)
        m == Unmarked(Drawn("NORMAL", "NORMAL", p, r \cup t))
        a == Drawn("TASK", "TASK", p, r \cup t) IN
    /\ LegacyLegal(l, "none") => Ends(1, l)
    /\ MinimalLegal(m) => Ends(2, m)
    /\ ActivationLegal(a) => Ends(3, a)

\* A graph that was published ends, of whatever model its version is.
PublishedGraphsEnd ==
  \A v \in Versions : Issued(v) => Ends(version[v].model, version[v].content.graph)

\* A published graph can be relied on: it is what the validators accepted, and
\* what they accept lets an instance end.
PublishedIsSound == PublishedAsChecked /\ LegalGraphsEnd /\ PublishedGraphsEnd

\* Documented: every governance function is a single atomic unit with its
\* receipt (definition_governance/mod.rs:1-9), so a retry with the same key
\* never makes a second version.
OncePerKey ==
  \A v, w \in Versions : version[v].born # "none" /\ version[v].born = version[w].born => v = w

\* A validation ends: a graph with a primary cycle is refused with
\* PRIMARY_CYCLE (graph_tests.rs:192-200), not walked for ever.
ValidationEnds == \A c \in Clients : phase[c] = "walking" ~> phase[c] # "walking"
=============================================================================
