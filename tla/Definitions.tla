----------------------------- MODULE Definitions -----------------------------
(***************************************************************************)
(* Workflow definitions and their versions under the governance commands of  *)
(* a domain's owner, each with an idempotency key.                           *)
(*                                                                         *)
(* A command holds one connection for the transaction its receipt is in. All *)
(* but publish do their work on further connections of the same pool, where  *)
(* every statement, or transaction, commits by itself; only publish writes   *)
(* in the transaction of its receipt.                                        *)
(***************************************************************************)
EXTENDS GraphRules

CONSTANTS
  Clients, Keys, DefinitionIds, MaxVersion,
  Stored,      \* what the tables may hold at first: records [defs, version]
  Requests,    \* what clients may ask: [key, op, d, v, model, graph, patch, expected, read, bad]
  PoolSize, MaxStimuli

Versions == DefinitionIds \X (1..MaxVersion)
Ops == {"create", "draft", "replace", "publish", "archive"}
Statuses == {"none", "DRAFT", "PUBLISHED", "DEPRECATED", "REVOKED"}
Schemas == {"none", "plain", "open", "requires", "broken"}
NoVersionId == <<"none", 0>>

EmptyGraph ==
  [kind |-> <<>>, who |-> <<>>, edges |-> {}, primary |-> <<>>, exempt |-> {}, declares |-> {},
   bound |-> {},   role |-> "none", targets |-> {}, slots |-> {}, producer |-> <<>>]
NoContent == [graph |-> EmptyGraph, schema |-> "none"]
NoVersion == [status |-> "none", model |-> 1, content |-> NoContent, edits |-> 0,
              digest |-> NoContent, born |-> "none"]
NoRequest == [key |-> "none", op |-> "none", d |-> "none", v |-> NoVersionId, model |-> 1,
              graph |-> EmptyGraph, patch |-> "keep", expected |-> NoContent, read |-> -1,
              bad |-> FALSE]
NoReceipt == [state |-> "none", req |-> NoRequest, answer |-> "none"]
NothingSeen == [content |-> NoContent, number |-> 0]

\* patch: "keep" the stored schema, or the schema to store; read: the edit of
\* the draft a read-edit names its nodes by, -1 when it names them by key.
ASSUME DefinitionsAssumption ==
  /\ \A r \in Requests :
       /\ r.op \in Ops /\ r.key \in Keys /\ r.model \in 1..3
       /\ r.patch \in Schemas \cup {"keep"} /\ r.graph.targets \subseteq Versions
       /\ WellDrawn(r.graph)
       /\ r.op \in {"create", "draft", "archive"} => r.d \in DefinitionIds
       /\ r.op \in {"replace", "publish"} => r.v \in Versions
  /\ PoolSize \in Nat \ {0} /\ MaxStimuli \in Nat /\ MaxVersion \in Nat \ {0}

VARIABLES
  defs,        \* defs[d]: "none", "live" or "archived"
  version,     \* version[d, n]
  owner,       \* the actor owns the enabled domain
  receipts,    \* receipts[key], as committed
  request, phase, seen, answer,
  stimuli,
  \* Observation, read by no guard: what was stored by replacements, and for which key.
  replaced

rows == <<defs, version, owner, replaced>>
vars == <<defs, version, owner, receipts, request, phase, seen, answer, stimuli, replaced>>

Phases == {"idle", "begun", "held", "walking", "read", "settled", "told"}

Init ==
  /\ \E x \in Stored : defs = x.defs /\ version = x.version
  /\ owner = TRUE
  /\ receipts = [k \in Keys |-> NoReceipt]
  /\ request = [c \in Clients |-> NoRequest]
  /\ phase = [c \in Clients |-> "idle"]
  /\ seen = [c \in Clients |-> NothingSeen]
  /\ answer = [c \in Clients |-> "none"]
  /\ stimuli = 0
  /\ replaced = {}

-----------------------------------------------------------------------------
(* The pool, and the receipt of a key. *)

Spare == PoolSize - Cardinality({c \in Clients : phase[c] # "idle"})
Owning(c) == phase[c] \in {"held", "walking", "read", "settled"}

\* What a key is compared by: neither a replaced graph nor the model of a draft
\* is part of it.
Hash(r) ==
  CASE r.op = "create" -> <<r.op, r.d>>
    [] r.op = "draft" -> <<r.op, r.d>>
    [] r.op = "replace" -> <<r.op, r.v>>
    [] r.op = "publish" -> <<r.op, r.v, r.expected>>
    [] r.op = "archive" -> <<r.op, r.d>>

Input(r) == IF r.op = "replace" THEN <<r.v, r.graph, r.patch>> ELSE Hash(r)

Replayed(x, r) ==
  IF Hash(x.req) # Hash(r) THEN "idempotency_conflict"
  ELSE IF x.state = "processing" THEN "command_still_processing"
  ELSE IF x.answer = "graph_validation_failed" /\ Input(x.req) # Input(r) THEN "idempotency_conflict"
  ELSE x.answer

Close(c) ==
  /\ request' = [request EXCEPT ![c] = NoRequest]
  /\ phase' = [phase EXCEPT ![c] = "idle"]
  /\ seen' = [seen EXCEPT ![c] = NothingSeen]
  /\ answer' = [answer EXCEPT ![c] = "none"]

Ask(c, r) ==
  /\ phase[c] = "idle" /\ Spare > 0 /\ stimuli < MaxStimuli
  /\ request' = [request EXCEPT ![c] = r]
  /\ phase' = [phase EXCEPT ![c] = "begun"]
  /\ stimuli' = stimuli + 1
  /\ UNCHANGED <<rows, receipts, seen, answer>>

\* The insert waits while another transaction holds the key uncommitted.
Acquire(c) ==
  /\ phase[c] = "begun"
  /\ \A o \in Clients : Owning(o) => request[o].key # request[c].key
  /\ receipts[request[c].key] = NoReceipt
  /\ phase' = [phase EXCEPT ![c] = "held"]
  /\ UNCHANGED <<rows, receipts, request, seen, answer, stimuli>>

Replay(c) ==
  /\ phase[c] = "begun"
  /\ receipts[request[c].key] # NoReceipt
  /\ phase' = [phase EXCEPT ![c] = "told"]
  /\ answer' = [answer EXCEPT ![c] = Replayed(receipts[request[c].key], request[c])]
  /\ UNCHANGED <<rows, receipts, request, seen, stimuli>>

\* The client has the recorded answer, the pool its connection back.
Told(c) ==
  /\ phase[c] = "told"
  /\ Close(c)
  /\ UNCHANGED <<rows, receipts, stimuli>>

Record(c, state, a) ==
  receipts' = [receipts EXCEPT ![request[c].key] = [state |-> state, req |-> request[c], answer |-> a]]

Settled(c, a) ==
  /\ phase' = [phase EXCEPT ![c] = "settled"]
  /\ answer' = [answer EXCEPT ![c] = a]
  /\ seen' = [seen EXCEPT ![c] = NothingSeen]
  /\ UNCHANGED <<receipts, request, stimuli>>

\* The receipt commits with what the work answered.
Settle(c) ==
  /\ phase[c] = "settled"
  /\ Record(c, "completed", answer[c])
  /\ Close(c)
  /\ UNCHANGED <<rows, stimuli>>

\* A storage error: publish rolls its receipt back, the others commit it as it
\* is, PROCESSING.  Without a spare connection the wait for one ends in it.
StoreFails(c) ==
  /\ phase[c] \in {"held", "read"}
  /\ Spare = 0 \/ stimuli < MaxStimuli
  /\ stimuli' = IF Spare = 0 THEN stimuli ELSE stimuli + 1
  /\ IF request[c].op = "publish" THEN UNCHANGED receipts ELSE Record(c, "processing", "none")
  /\ Close(c)
  /\ UNCHANGED rows

\* The process ends or the request is given up: its transaction rolls back.
Lose(c) ==
  /\ phase[c] # "idle" /\ stimuli < MaxStimuli
  /\ stimuli' = stimuli + 1
  /\ Close(c)
  /\ UNCHANGED <<rows, receipts>>

-----------------------------------------------------------------------------
(* What each command asks before it writes. *)

Patched(schema, patch) == IF patch = "keep" THEN schema ELSE patch

\* References by node id resolve against the rows of the draft as locked.
Affected(g) == Waiting(g) # {}
Resolved(r) == r.read \in {-1, version[r.v].edits}

DefinitionError(d) ==
  IF defs[d] = "none" \/ ~owner THEN "definition_not_found"
  ELSE IF defs[d] = "archived" THEN "definition_not_editable" ELSE "none"

DraftError(v) ==
  IF version[v].status = "none" THEN "definition_not_found"
  ELSE IF version[v].status # "DRAFT" THEN "definition_version_immutable" ELSE "none"

Valid(model, g, schema) == ModelLegal(model, g, schema) /\ SchemasHold(g, schema)

CheckReplace(r) ==
  IF DraftError(r.v) # "none" THEN DraftError(r.v)
  ELSE IF DefinitionError(r.v[1]) # "none" THEN DefinitionError(r.v[1])
  ELSE IF ~Valid(version[r.v].model, r.graph, Patched(version[r.v].content.schema, r.patch))
       THEN "graph_validation_failed" ELSE "none"

ContentLegal(model, x) ==
  /\ Valid(model, x.graph, x.schema)
  /\ BindingsPlaced(model, x.graph)
  /\ ObligationsHold(model, x.graph)

\* What the tables hold at first is what commands have left there: numbers
\* without gaps, and whatever is published was legal and has its digest.
ASSUME StoredAssumption ==
  \A x \in Stored :
    /\ x.defs \in [DefinitionIds -> {"none", "live", "archived"}]
    /\ x.version = [v \in Versions |-> x.version[v]]
    /\ \A v \in Versions :
         LET y == x.version[v]
             issued(t) == x.version[t].status \in {"PUBLISHED", "DEPRECATED", "REVOKED"} IN
         /\ y = [status |-> y.status, model |-> y.model, content |-> y.content,
                 edits |-> y.edits, digest |-> y.digest, born |-> y.born]
         /\ y.status \in Statuses /\ y.model \in 1..3 /\ y.edits \in Nat
         /\ y.content.schema \in Schemas /\ y.content.graph.targets \subseteq Versions
         /\ WellDrawn(y.content.graph)
         /\ y.status # "none" =>
              x.defs[v[1]] # "none" /\ \A n \in 1..v[2] : x.version[<<v[1], n>>].status # "none"
         /\ issued(v) =>
              /\ ContentLegal(y.model, y.content) /\ y.digest = y.content
              /\ \A t \in y.content.graph.targets : issued(t)

\* prepare_publish looks at nothing of the domain: publish_on_tx does.
CheckPublish(r) ==
  IF DraftError(r.v) # "none" THEN DraftError(r.v)
  ELSE IF defs[r.v[1]] = "archived" THEN "definition_not_editable"
  ELSE IF ~ContentLegal(version[r.v].model, version[r.v].content) THEN "graph_validation_failed"
  ELSE "none"

CheckError(r) ==
  CASE r.op = "create" -> IF owner THEN "none" ELSE "definition_not_found"
    [] r.op = "draft" -> DefinitionError(r.d)
    [] r.op = "replace" -> CheckReplace(r)
    [] r.op = "publish" -> CheckPublish(r)
    [] r.op = "archive" -> IF defs[r.d] = "none" \/ ~owner THEN "definition_not_found" ELSE "none"

\* Fault: a definition's first version is taken to be there.
NextNumberAfterOne(d) ==
  2 + Cardinality({v \in Versions : v[1] = d /\ v[2] > 1 /\ version[v].status # "none"})

NextNumber(d) ==
  1 + Cardinality({v \in Versions : v[1] = d /\ version[v].status # "none"})

\* The validator of model 1 does not come back from a primary cycle.
Hangs(r) ==
  /\ r.op = "replace" /\ DraftError(r.v) = "none" /\ DefinitionError(r.v[1]) = "none"
  /\ version[r.v].model = 1 /\ ~TrunkWalkStops(r.graph)

Check(c) ==
  LET r == request[c] IN
  /\ phase[c] = "held" /\ Spare > 0
  /\ ~r.bad /\ ~Hangs(r)
  /\ IF CheckError(r) # "none"
     THEN Settled(c, CheckError(r))
     ELSE /\ seen' = [seen EXCEPT ![c] =
                [content |-> IF r.op = "publish" THEN version[r.v].content ELSE NoContent,
                 number |-> IF r.op = "draft" THEN NextNumber(r.d) ELSE 0]]
          /\ phase' = [phase EXCEPT ![c] = "read"]
          /\ UNCHANGED <<receipts, request, answer, stimuli>>
  /\ UNCHANGED rows

\* A node type nobody knows, a key or a name of the wrong length: errors that
\* are taken for the storage's or for an inconsistency.
CheckBad(c) ==
  /\ phase[c] = "held" /\ Spare > 0 /\ request[c].bad
  /\ Record(c, "processing", "none")
  /\ Close(c)
  /\ UNCHANGED <<rows, stimuli>>

CheckHangs(c) ==
  /\ phase[c] = "held" /\ Spare > 0
  /\ ~request[c].bad /\ Hangs(request[c])
  /\ phase' = [phase EXCEPT ![c] = "walking"]
  /\ seen' = [seen EXCEPT ![c].number = CHOOSE n \in Drafts(request[c].graph) : TRUE]
  /\ UNCHANGED <<rows, receipts, request, answer, stimuli>>

\* The walk down the primary trunk: on to the next node until a TERMINAL, a
\* node whose primary leads nowhere, or one whose primary leads to itself.
Walk(c) ==
  LET g == request[c].graph
      on == {e \in PrimarySteps(g) : e.from = seen[c].number /\ e.to # e.from} IN
  /\ phase[c] = "walking"
  /\ IF on = {} \/ seen[c].number \in Terminals(g)
     THEN Settled(c, "graph_validation_failed")
     ELSE /\ \E e \in on : seen' = [seen EXCEPT ![c].number = e.to]
          /\ UNCHANGED <<receipts, request, phase, answer, stimuli>>
  /\ UNCHANGED rows

-----------------------------------------------------------------------------
(* What they write, each on a connection of its own. *)

Create(c) ==
  LET d == request[c].d IN
  /\ phase[c] = "read" /\ request[c].op = "create" /\ Spare > 0
  /\ defs' = IF defs[d] = "none" THEN [defs EXCEPT ![d] = "live"] ELSE defs
  /\ Settled(c, IF defs[d] = "none" THEN "ok" ELSE "definition_key_conflict")
  /\ UNCHANGED <<version, owner, replaced>>

\* Fault: a number that was taken meanwhile is taken for one's own.
DraftAnswerAlways(v) == "ok"

\* The number is unique in its definition.
DraftAnswer(v) == IF version[v].status = "none" THEN "ok" ELSE "revision_conflict"

CreateDraft(c) ==
  LET r == request[c]
      v == <<r.d, seen[c].number>> IN
  /\ phase[c] = "read" /\ r.op = "draft" /\ Spare > 0
  /\ seen[c].number <= MaxVersion
  /\ version' = IF version[v].status # "none" THEN version
                ELSE [version EXCEPT ![v] = [NoVersion EXCEPT !.status = "DRAFT", !.model = r.model,
                                             !.born = r.key]]
  /\ Settled(c, DraftAnswer(v))
  /\ UNCHANGED <<defs, owner, replaced>>

\* Fault: the version is not looked at again under its lock.
ReplaceErrorUnlocked(r) == "none"

\* Under the lock of the version; the archived flag and the owner are not asked
\* again, and only a graph with producers is validated again.
ReplaceError(r) ==
  LET x == [graph |-> r.graph, schema |-> Patched(version[r.v].content.schema, r.patch)] IN
  IF DraftError(r.v) # "none" THEN DraftError(r.v)
  ELSE IF Affected(r.graph)
          /\ ~(/\ Resolved(r)
               /\ Valid(version[r.v].model, x.graph, x.schema)
               /\ ObligationsHold(version[r.v].model, x.graph))
       THEN "graph_validation_failed" ELSE "none"

Replace(c) ==
  LET r == request[c] IN
  /\ phase[c] = "read" /\ r.op = "replace" /\ Spare > 0
  /\ version' =
       IF ReplaceError(r) # "none" THEN version
       ELSE [version EXCEPT ![r.v].content =
               [graph |-> r.graph, schema |-> Patched(version[r.v].content.schema, r.patch)],
               ![r.v].edits = @ + 1]
  /\ replaced' =
       IF ReplaceError(r) # "none" THEN replaced
       ELSE replaced \cup {[v |-> r.v, key |-> r.key, content |-> version'[r.v].content]}
  /\ Settled(c, IF ReplaceError(r) = "none" THEN "ok" ELSE ReplaceError(r))
  /\ UNCHANGED <<defs, owner>>

Archive(c) ==
  /\ phase[c] = "read" /\ request[c].op = "archive" /\ Spare > 0
  /\ defs' = [defs EXCEPT ![request[c].d] = "archived"]
  /\ Settled(c, "ok")
  /\ UNCHANGED <<version, owner, replaced>>

TargetsPublished(g) == \A t \in g.targets : version[t].status = "PUBLISHED" /\ defs[t[1]] = "live"

\* Fault: the graph validated is not compared with the graph published.
PublishErrorUncompared(c) ==
  LET r == request[c] IN
  IF DraftError(r.v) # "none" THEN DraftError(r.v)
  ELSE IF ~owner THEN "definition_not_found"
  ELSE IF r.expected \notin {NoContent, version[r.v].content} THEN "revision_conflict"
  ELSE IF ~TargetsPublished(version[r.v].content.graph) THEN "graph_validation_failed"
  ELSE "none"

\* publish_on_tx: the archived flag is not asked again.
PublishError(c) ==
  LET r == request[c] IN
  IF DraftError(r.v) # "none" THEN DraftError(r.v)
  ELSE IF ~owner THEN "definition_not_found"
  ELSE IF version[r.v].content # seen[c].content THEN "revision_conflict"
  ELSE IF r.expected \notin {NoContent, version[r.v].content} THEN "revision_conflict"
  ELSE IF ~TargetsPublished(version[r.v].content.graph) THEN "graph_validation_failed"
  ELSE "none"

\* One commit for the version and its receipt.
Publish(c) ==
  LET r == request[c] IN
  /\ phase[c] = "read" /\ r.op = "publish"
  /\ version' = IF PublishError(c) # "none" THEN version
                ELSE [version EXCEPT ![r.v].status = "PUBLISHED",
                                     ![r.v].digest = seen[c].content]
  /\ Record(c, "completed", IF PublishError(c) = "none" THEN "ok" ELSE PublishError(c))
  /\ Close(c)
  /\ UNCHANGED <<defs, owner, stimuli, replaced>>

-----------------------------------------------------------------------------
(* Commands without a receipt, each one transaction that locks the version. *)

Deprecate(v) ==
  /\ stimuli < MaxStimuli /\ owner
  /\ version[v].status = "PUBLISHED"
  /\ version' = [version EXCEPT ![v].status = "DEPRECATED"]
  /\ stimuli' = stimuli + 1
  /\ UNCHANGED <<defs, owner, receipts, request, phase, seen, answer, replaced>>

Revoke(v) ==
  /\ stimuli < MaxStimuli /\ owner
  /\ version[v].status \in {"PUBLISHED", "DEPRECATED"}
  /\ version' = [version EXCEPT ![v].status = "REVOKED"]
  /\ stimuli' = stimuli + 1
  /\ UNCHANGED <<defs, owner, receipts, request, phase, seen, answer, replaced>>

\* The domain is disabled or handed over.
LoseDomain ==
  /\ owner /\ stimuli < MaxStimuli
  /\ owner' = FALSE
  /\ stimuli' = stimuli + 1
  /\ UNCHANGED <<defs, version, receipts, request, phase, seen, answer, replaced>>

Work(c) ==
  Acquire(c) \/ Replay(c) \/ Told(c) \/ Settle(c) \/ Check(c) \/ CheckBad(c) \/ CheckHangs(c) \/ Walk(c)
  \/ Create(c) \/ CreateDraft(c) \/ Replace(c) \/ Archive(c) \/ Publish(c)

Next ==
  \/ \E c \in Clients : Work(c) \/ StoreFails(c) \/ Lose(c) \/ \E r \in Requests : Ask(c, r)
  \/ \E v \in Versions : Deprecate(v) \/ Revoke(v)
  \/ LoseDomain

Spec == Init /\ [][Next]_vars

\* The executor polls every handler that can go on.
FairSpec == Spec /\ \A c \in Clients : WF_vars(Work(c)) /\ WF_vars(Spare = 0 /\ StoreFails(c))
=============================================================================
