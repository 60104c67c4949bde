# svc-workflow: TLA+ models, model checks and proofs

`svc-workflow` is a Rust + PostgreSQL service that runs *serial governed workflow
instances*: an instance sits on one node of a published definition graph at a time,
and every change of it is a command that commits immutable facts and one row of
current state in a single database transaction. This directory specifies the parts of
it that decide whether an instance is right (the commands, the administrative recovery
that replays their log, what a client is shown), what makes a retried request take
effect once, what tells other systems, who may be made responsible (admission, tokens,
the directory and the programs that rewrite it), the obligations of a domain's owner, and
the definitions everything runs on.

Paths below are relative to the repository root; `WIR` stands for
`src/store/postgres/workflow_instance_repository`, `AR` for
`src/store/postgres/admin_recovery_repository`. `PROJECT.json` names for every
definition the lines it models, for every property a mutation of the code it notices, and
for every hazard the properties about it.

## 1. The system: inventory

| Component | Code | State it keeps | Operations | What makes it correct |
|---|---|---|---|---|
| Instance commands | `WIR/{create,transition,revise,combined,cancel,archive,repair}_transaction*` | `workflow_instances` row; visits, context revisions, submissions, events | create, transition, revise, revise-and-transition, cancel, archive, repair context | row and event log agree; a finished instance stays finished; the RETURN budget |
| Assistance and escalation | `WIR/assistance_transaction*`, `WIR/execution_escalation.rs` | `workflow_assistance_cases` | request, escalate to human, resolve, escalation by policy; voiding by other commands | one open case, on the current visit of a live instance; no move under an open case |
| Visit activations, wake | `WIR/activation_facts.rs`, `WIR/wake_transaction.rs` | `workflow_activations`, closures, eligibility events | open and close with the visit; wake | exactly the current TASK visit is active |
| Administrative recovery | `AR/*` | none of its own | replay, emergency override, rebuild projection | replay gives the row the commands wrote, or refuses |
| Command receipts | `WIR/command_receipt.rs`, `*_receipt.rs`, the receipt part of each handler | `workflow_command_receipts` | acquire, replay, complete, fail | a key is decided once; answers stay true; everybody is answered |
| Outbox, queueing side | `src/store/postgres/outbox.rs` | `workflow_outbox` | one insert per fact, in the fact's transaction | rows say what the facts say |
| Outbox delivery | `src/forum_sync.rs`, `outbox.rs` | delivery columns of `workflow_outbox`, thread bindings | batch, claim, deliver, back off, dead-letter, requeue | nothing lost, order per thread, bounded retries for kicks only |
| Owner obligations | `WIR/owner_obligation/*` | intents, operation effects, managed instances | request, materialise, effects of the managed nodes, the background pass (stop, clean up, materialise), owner replacement | a case is closed only by its REVIEW; a slot creates one instance; every intent ends |
| Governance children | `WIR/assistance_transaction/governance_child/*` | bindings | create and bind by hand, report the child's end | one child per case; terminal report reaches the case |
| Admission | `src/auth/admission.rs`, `src/store/postgres/admission_gate.rs` | permits; per command a deadline | resolve identities, fetch tokens, read Auth and agent-core, time the COMMIT | who is made responsible was seen active for this command; answers say what was committed |
| Token verification | `src/auth/*` | key cache, refresh lock | verify, refresh, start-up fetch, readiness probe | no valid token is refused on a stale key set; one refresh at a time |
| Directory: provisioning, control plane, membership | `provisioning_repository/*`, `coordinator_control_plane*`, `domain_role_repository.rs` | principals, domains, role bindings, coordinators, receipts | provision, bind, revoke, replace the owner, rename, reconcile, add and remove members, self-projection | one owner, handed on without a gap; authority is current when it is used |
| Identity programs | `src/bin/*` (cutover, repair, human normalization) and their repositories | successor lines, summaries | inspect, apply, read again, report | reports are true; work is handed over once; lineage is immutable |
| Definitions | `src/application/definition_governance/*`, `src/store/postgres/definition_repository/*`, `src/domain/definition/*` | definitions, versions, graphs, status | create, draft, replace the graph, publish, archive, deprecate, revoke; three graph validators | what is published was validated, is frozen, and can be walked to an end |
| Queries | `query_*.rs`, worklists, due feed | none | instance detail with offered actions, worklist, domain list, due feed, resume evidence | what is offered is what the commands would do |
| Prerequisites | `WIR/prerequisite*`, `src/domain/definition/prerequisite.rs` | none: derived when read | check a creation's reference to another instance; readiness | - |
| Legacy import, HTTP, SDK | `legacy_import_repository/*`, `src/http/*`, `sdk/` | rows of the tables above | one-off; routing and mapping | - |

How they interact: a request handler verifies a bearer token (key cache), runs its
command's transaction, and answers. The transaction inserts the command receipt (waiting
for a concurrent transaction on the same key), locks the instance row `FOR UPDATE`,
checks, asks the admission gate about whoever becomes responsible, writes facts, row,
event and outbox rows, completes the receipt and commits under what the deadline leaves.
Definition status and domain owner are read under the instance's lock; cancellation,
archival, override and rebuild void its assistance cases in the same transaction; commands
on governed instances lock the domain first, which is how they exclude the owner's
replacement and the background pass. After the commit, the outbox loops deliver. Beside all
this, operators provision, reconcile and run programs over the rows that authority is read
from.

What is hard: requests that race and are sent again; a COMMIT whose outcome is unknown;
commands that do not look at the same columns (revise ignores `cancelled`); one
command that writes two events; recovery that interprets the log of all the others;
background passes that work through lists they read before; gates that look before a lock
is taken; deadlines that end while a request waits for a permit; a key set that rotates under
a slow fetch; governance commands that write on connections their receipt does not know.
The hazards, each at its line, are listed in `PROJECT.json`.

## 2. Modules

| Module | Models | Notes |
|---|---|---|
| `WorkflowDefinition` | the published graph an instance runs on, and which transition applies where | constants with named assumptions |
| `EventReplay` | `AR/event_replay.rs` | direct definitions over the log; no recursion, so that it can be used below proofs |
| `ReplayFold` | the same, event by event | the reference definition `EventReplay` is checked against |
| `WorkflowInstance` | one instance: row, facts, receipts, outbox; one action per command, plus what others do to it | the core module |
| `InstanceLifecycle` | abstract: the phases a client sees | refined by `WorkflowInstance` |
| `InstanceQueries` | what the reads show of an instance | operators on the state of `WorkflowInstance` |
| `CommandProtocol` | handlers, receipts, row lock, retries, faults | PostgreSQL is external: unique keys, row locks, atomic commit |
| `ExactlyOnce` | abstract: a key is decided once, atomically | refined by `CommandProtocol` |
| `Outbox` | `src/forum_sync.rs` and the delivery side of `outbox.rs`: loops of several processes over committed rows | receivers and the forum are external |
| `Delivery` | abstract: what the receivers of rows are promised | refined by `Outbox` |
| `OwnerObligation` | governed cases: source, intents, managed INTAKE and REVIEW instances, effects, the background pass | |
| `Admission` | the admission of the principals of a command, and its COMMIT | Auth, agent-core and the token endpoints are external |
| `TokenVerifier` | the key cache and its refreshes, and the profile checks | the authentication service is external |
| `Directory` | principals, domains, bindings and coordinators under provisioning, control plane and membership commands | |
| `IdentityPrograms` | cutover, repair and normalization beside the live `Directory` | extends `Directory`; its `Next` is the composition |
| `GraphRules` | the three graph validators and the rules on schemas, annotations and obligations | operators only |
| `Definitions` | versions under the governance commands, their receipts and connections | uses `GraphRules` |
| `InstanceProperties`, `CommandProperties`, `OutboxProperties`, `OwnerProperties`, `AdmissionProperties`, `VerifierProperties`, `DirectoryProperties`, `DefinitionProperties` | the type invariant and the properties of each | also the refinement mappings |
| `InstanceProofs`, `CommandProtocolProofs`, `OutboxProofs`, `OwnerProofs`, `AdmissionProofs`, `TokenVerifierProofs`, `DefinitionProofs`, `DirectoryProofs` | theorems | section 4 |
| `MC*` | the graphs, clients, rows, plans and requests TLC uses | |

Definitions marked `Fault:` are what the code would be with a plausible bug; nothing uses
them but the mutants in `PROJECT.json`.

### WorkflowInstance and the code

The variables are the tables: `version`, `visit`, `context`, `cancelled`, `archived` are
the columns of `workflow_instances`; `visits`, `activations`, `cases`, `events` are the
fact tables in insertion order, so an index stands for an id; `revisions` counts context
revisions, whose payload no property looks at; `receipts` holds the receipts completed
with success; `refusals` counts the failure receipts, which are the only thing a refused
command writes; `outbox` holds every row ever queued.

Each command is one step because it locks the instance row before it reads anything it
decides on. Its three endings are kept apart: success; `Refuse`, where the failure
receipt commits alone; and rollback, which is no step at all, so a condition that rolls
back is a guard of the action. Which condition does which was read off each handler
(`deterministic_failure!` against `?`). An action's parameter `acceptable` (or `enabled`)
stands for the checks the model has no data for: the caller is enabled and is the
effective assignee or the owner, payloads match their schemas, references and assignees
exist. They may fail at any time.

The environment deprecates or revokes the definition version, takes the domain owner
away and gives it back, and defers a dispatch intent. The instance is an ordinary one: not
managed by an owner policy (that is `OwnerObligation`), without a hand-bound governance child.

### EventReplay and the code

The code walks the log with a mutable `Replay`; the module says directly, for a prefix of
the log, what that walk has computed: the current visit is the target of the last moving
event, a case's status is given by its last event unless its visit has been left, and so
on. `ReplayAgrees` says of every reachable log, refused logs included, that this is
what folding the events in order gives, and that a supported log replays to the row; that
a rebuild leaves the row as its log has it is in `RowMatchesLog`.

### InstanceQueries and the code

A read runs in one REPEATABLE READ snapshot, so it is an operator on the state of
`WorkflowInstance` and needs no variable. It makes the integrity checks the code makes
first (`Readable`), then says what the detail offers, what the worklist, the domain list
and the due feed contain and on what evidence the scheduler resumes an escalated intent.
`ReadsTellTheTruth` has three parts. `ReadsSucceed`: no read of a reachable instance answers an internal
error. `OffersAreTaken`: what is offered is
what the commands would commit, found by `ENABLED` of the commands' own actions (but for
`OfferedInVain`, see section 5). `SchedulerSeesTheWork`: the due feed holds the current visit or nothing
(`FeedIsTheWork`), never work nobody could move (`DueWorkCanMove`), and every due intent
(`FeedIsComplete`); the evidence to resume is there once the owner has answered (`EvidenceIsThere`).

### CommandProtocol and the code

A worker is a request handler with its transaction: `received` (request decoded, receipt
not inserted), `owner` (its uncommitted receipt holds the key), `locked` (it holds the
row), `decided`, `doubt` (COMMIT sent, deadline passed). `AcquireReceipt` is the
`INSERT ... ON CONFLICT DO NOTHING`, which waits while another transaction holds the
key; `ReplayReceipt` the branch that found a committed row. Three command kinds stand
for the three receipt disciplines in the code: a transition commits its refusals and may
end in doubt; a cancellation of a closed instance rolls back without a receipt; a wake
has a no-op outcome and drops the transaction when it refuses. The replay of a no-op fails to
read it and answers with a server error (`ServerError`), which is heard like any other answer but is not
a final one (`Final`).

### Outbox and the code

A worker is one process's loop (`run_loop`, `run_once`, `drain_channel`). Its stages are
the code's: `next` (a candidate of the batch is next), `finding` and `creating`
(`ensure_thread`, before the claim), `failing` (`settle_attempt_failure`, a transaction
of its own), `ready`, `claimed` (the row lock of `claim_row` is held), `answered` (the
HTTP call has returned, the settlement has not committed). The batch is a set because
`Prepare` takes the oldest of it, which is the order of the query. A pass goes through
the kinds in a fixed order; the model lets it take any kind next, which gives more
interleavings of the processes and no other ones per kind. `due` is
`next_attempt_at <= now()`. Command transactions enter as `Begin`, which fixes
`created_at`, and `CommitCommand`, which makes their rows visible, because the two
moments differ when a command waits for its instance. Owner wakes carrying a governance
phase, which coordinate with their case before the claim, are left out. `MaxPower` is 1023 in
PostgreSQL (the largest exponent of a double); the runs take a value they do not reach.

`Delivery` is what all of this is worth to a receiver. It has no loops, batches, threads,
claims or crashes: a row is absent, owed, deferred, delivered or dead. It is queued with its command,
received while it is owed and in its turn, received again only if a fault is left that explains no other
repetition and no request still under way, confirmed once received, deferred only if something went
wrong, given up only if it is a kick. Under the mapping (`Promise` in `OutboxProperties`) a row's standing is
its state and whether it is due, `awaits` are the commands that both began and committed before a row's
own, and `lost` is `inFlight`; a confirmed row is never sent again because it is never owed again.

### OwnerObligation and the code

`cases` are the governed cases of one source instance; an obligation is a case and a kind
(INTAKE, REVIEW). `intent[i]` is the state of its row, `child[i]` the managed instance
(node, cancelled or archived, assignee, and the verdict of the terminal it reached),
`effect[i][n]` the slot of node `n`, `leaves` counts the instances a slot created.
A command on a managed instance is one step: `fence` and `materialize` lock the
domain row first and the replacement of the owner takes the same lock. PREPARED and
STARTED are states inside `execute`'s transaction and never seen from outside.
The background pass (`reconcile.rs`) is not one step: it reads its list of obligations,
then runs one transaction per obligation over that list (stop, clean up, materialise), while
commands change what it read; `pass` holds its phase and what is left. A pass may end anywhere
(restart), and the approved actor may be disabled and enabled. `refused` remembers
that a cleanup's receipt under its fixed key stored a refusal, which then replays for ever.

### Admission and the code

A command has a deadline from its start. `Resolve` is `resolve` in the transaction (canonical
principals; one successor line for a RETURN's earlier assignee); `FetchTokens`,
`NextToken` the two fresh tokens; then one task per agent, Auth first and agent-core
next, each request under one of the client's permits. `GetPermit`, `Answer`, `Break` are a
request's life, `Join` the collection of all results before the least failing
principal's error is returned. `ArmCommit` sets the statement timeout of the COMMIT from what is left
(creations and transitions only). The server may commit after the client stopped waiting
(`ServerCommit` in `done`), which is what `Unsure` answers are for. `Drop` is the
service's request timeout. Requests and COMMITs are cut at the deadline, so `Tick`
waits for them; every other step may take any time.

### TokenVerifier and the code

A verification looks at the cache (`find`), waits for `refresh_lock`, looks again, fetches,
stores and decides. The fetch is sent, answered and stored in three steps, because the keys
may be rotated between the answer and the store and the store replaces what another fetch
stored meanwhile. The start-up fetch takes no lock. A dropped handler gives the lock back.
`judge` is the order of the profile checks on the claims. `excused`, an observation, collects the
requests that may honestly be told `unknown_kid`.

### Directory, IdentityPrograms and the code

A transaction that holds the locks of what it reads is one step. What the code reads
without them is a step of its own: `CoordinatorGate` and `MemberGate` in front of the
transactions, and `LookAtTarget`, `add_member`'s read of its target on another
connection while its own transaction holds the domain. `Free` says which row locks are
taken. The order of the checks is the code's, since the first error is the answer, and which
refusals are stored in the receipt (`Complete`) and which roll back (`Refuse`) was read off each command.
A program is one SERIALIZABLE transaction followed by a second look from another
connection, with the service in between; the second look may fail (`Unseen`). Outcomes are those the
program prints. `reports` keeps with each whether the transaction wrote, and whether the work was on record when it was
printed (`OnRecord`).

### Definitions, GraphRules and the code

A governance command holds one connection for the transaction of its receipt; its checks
(`Check`) and its write run on other connections of the pool, each committing by
itself; only publish writes in the transaction of its receipt, after comparing the digest of what was validated.
`StoreFails` is a storage error in between: it commits a PROCESSING receipt (publish rolls back). `Hash` is what a
receipt is compared by; it leaves out the graph of a replace and the model of a draft, as the code's
does. `replaced`, a history variable, remembers which replace stored which content. `Spare` counts
the pool's free connections. The validators are conjunctions of the rules of the code, one operator per
rule. The walk of `validate_trunk_reaches_terminal` is a step per node, because it need not end.


## 3. Runs

Bounds are named in the `.cfg` files. States are distinct states.

| Run | Instance | States | Shows |
|---|---|---|---|
| `legacy` | model 1, three nodes, four transitions (ADVANCE, ADVANCE, RETURN, TERMINATE), 7 receipts, no refusals, RETURN limit 1 | 266,742 | row and log agree; one open case on the current visit; nothing moves under an open case and finished stays finished; supported logs replay to the row, and replay is the fold; the commands refine `InstanceLifecycle` |
| `visit_activation` | model 3, three transitions, 7 receipts, 1 refusal, RETURN limit 2 | 642,540 | types; exactly the current TASK is active; an exhausted RETURN edge was escalated; receipts, events and outbox rows correspond; reads show what the commands do |
| `command_protocol` | five clients (a transition, one reusing its key with another request, two cancellations, a wake), two workers, one fault | 67,458 | types; answers are on record; refinement of `ExactlyOnce`; every client hears a final answer, but for a wake whose no-op is on record |
| `outbox` | two loops, one instance, two commands that may commit in either order, three forum rows (two of one command, with ids in the wrong order) and a kick, batches of 2, 1 attempt for kicks, one fault | 282,793 | only what was received is settled and only kicks give up; thread order, repetitions need faults; every pending row settles; the loops refine `Delivery` |
| `owner_obligation` | one case, two visits of the source, two owners, four changes from outside, an INTAKE graph of three nodes with an operation and a gate, a REVIEW graph of two | 260,688 | a case is closed by its REVIEW only; slots, intents, instances and owner agree; decisions stay; the passes finish the work |
| `token_verifier` | two keys, two requests, the start-up fetch and the probe, time to 3, one rotation | 792,937 | one refresh at a time; verdicts are deserved; every check ends |
| `admission` | two commands over four principals, one permit, deadline 1, time to 2, one change in the directories, one retry | 861,415 | whoever is admitted was seen active for this command; answers match deeds; every command is answered |
| `directory` | eight principals, two domains, two clients choosing among 18 requests, three cutover pairs, a repair and a normalization; four stimuli (commands, runs and changes from outside) | 1,000,914 | one owner, kept; one answer per request, on current authority; the programs' reports, commits and lineage |
| `definitions` | two clients over two definitions of two versions, a pool of three connections, four stimuli, every graph of four nodes with one primary per node, at most one RETURN and one TERMINATE; keys reused with another graph or model | 1,063,846 | what is published was validated, is fixed and can be walked to its end; success is on record |
| `wake_replay`, `governance_once`, `trunk_walk` | the instance of `command_protocol`; one client; one client | - | violated by the code: section 5 |

### Why the bounds are enough

*Instances.* Seven receipts let an instance be created, sent back, escalated, resolved, sent
forward to the end, overridden back to a task and rebuilt, which is the longest history
one of the properties needs; the mutated code violated each of them within five. Three nodes give an entry,
a working node and an end; a second task node adds only a longer path. A RETURN limit of 1 makes the second
RETURN the refused one; the limit of 2 also gives a RETURN below the limit. Expected
versions are the right one and one behind: any wrong one is refused alike. One refusal in
one run is enough, because a refusal changes nothing a command reads.

*Command protocol.* Two workers can hold and wait for a key and for the row; a third only waits
behind the second. The refinement and the types are proved for any number.

*Outbox.* One fault is a lost answer, which is what a repetition comes from, a crash, or the failed
attempt that makes a kick give up; that faults add up no differently is proved, as the safety properties and the
refinement hold for any number of them. Two rows of a command and one of another give every
relation between creation, id and commit order.

*Owner obligations.* Obligations of different cases share only the owner, the actor and the list of a pass; one
case with two obligations already makes the pass end between two of its transactions. Four
changes are two replacements of the owner, or a replacement with the actor disabled and enabled
again, around a source that moves on. The safety part is proved for any number.

*Admission and tokens.* One permit makes the second request wait, which is where time is
lost; a deadline of one unit separates "in time", "just at" and "after"; a
change in the directories after they were read is what freshness is about. One rotation while a fetch is
under way is what a stale cache comes from; time 3 lets the cache become old, be
refreshed, and become old again. Both are proved for all bounds.

*Directory.* Four stimuli give every pair of racing commands and a change from outside
before or between them, or a program with its rerun and a command before its second look. The
requests were chosen so that each refusal of each command has a state it happens in and every stored
answer is replayed.

*Definitions.* Three connections let both clients hold one and want the second, the case
the pool's limit of 10 allows with ten clients. Four stimuli: draft, replace, publish, and
the command that races them.

Symmetry: workers and clients only, in runs without liveness; the properties do not name one.
`CHECK_DEADLOCK FALSE` is set where the system stops when requests are answered and the
bounds on time, faults, changes or stimuli are used up. An ordinary instance never stops,
because its domain owner may always come and go, and there deadlock is checked.

### Fairness

Nothing is assumed about faults, restarts, changes from outside or commands that clients may or
may not send: liveness says that what goes wrong finitely often is repaired.

* `command_protocol`: strong fairness of each handler (a tokio task that keeps running;
  PostgreSQL serves the waiters for a key or a row in a queue, so a handler that can
  proceed again and again does) and of each client's sending (clients retry what they have
  no final answer to).
* `outbox`: weak fairness of each loop (the ticker always comes, errors and panics
  of a pass are contained) and of the end of a backoff (time passes).
* `owner_obligation`: weak fairness of the background pass, which `run_loop` calls on every
  tick. `RetiredChildEnds` also supposes that the approved actor is configured and stays enabled in the end,
  as the cleanup runs under its name.
* `token_verifier`: weak fairness of every fetcher's own step, and of the end of a fetch,
  which the client's HTTP timeout ends if nothing else does.
* `admission`: weak fairness of every command's step and COMMIT, of permits (tokio's semaphore
  is fair) and of the end of each request, which the deadline cuts.
* `trunk_walk`: weak fairness of the client's work, so that its counterexample is the
  walk going round and not the walk standing still.

## 4. Proofs

`tlapm` checks every theorem; all constants are arbitrary values that satisfy the named
assumptions of the modules (`NodeTypesAssumption`, `DefinitionAssumption`, `BoundsAssumption`,
`ClientsAssumption`, `OutboxAssumption`, `VerifierAssumption`, `OwnerAssumption`,
`AdmissionAssumption`, `DefinitionsAssumption`, `StoredAssumption`, `LastAssumption`, `DirectoryAssumption`,
`TablesAssumption`, `ProgramAssumption`), which TLC evaluates on the runs. They give the constants their types;
what they demand beyond that is that commands are finitely many (`Outbox`), that a graph
ends after its first node (`OwnerObligation`), that graphs are finite and primaries are among their transitions, as
`replace_draft_graph` builds them (`DefinitionsAssumption`, `StoredAssumption`), that the tables hold at first what commands leave
there (`StoredAssumption`, `TablesAssumption`), that plans and pairs are of the form the programs' parsers accept
(`ProgramAssumption`), and that no principal's agent id is the
marker for "any agent" (`Admission`).

* `InstanceProofs!InstanceTypeCorrect`, `AssistanceSafe`: `Spec => []TypeOK`,
  `Spec => []AssistanceSafety`. The inductive invariant adds that nothing is
  written before creation and that an archived instance is closed and its log says that it
  was archived. The second is what recovery needs: replay refuses a log with an archival, so
  no override takes an archived instance to a live node, and no rebuild changes its visit;
  without it an archived instance could get a case again. One lemma per command.
* `InstanceProofs!RowIsItsLog`, `EventsReceipted`, `RecordsComplete`. What a command does to the row and
  the log is summed up once per command: nothing (`Still`), one event (`OneEvent`), or the two of
  an escalated RETURN (`TwoEvents`); an invariant of the log is then proved to survive an event
  and not each command. `LogInv` says that the events count the versions, that every visit but the first is entered by
  one event from the visit before (`Traced`) and that the last event leaves the instance where
  the row says (`Anchored`). A rebuild stores what replay reads, so that `RowMatchesLog` needs what replay reads of
  such a log (`ReplayReads`). `RecordInv` adds whose receipt an event bears, with the two exceptions in the code: the
  first of the two events of an escalation answers one version less than its receipt, and a repair may
  write the event of a revision. `QueueInv` says which rows there are for which facts; a
  test instance queues kicks, but for the visit it is created on.
* `InstanceProofs!ActivationsSafe`, `MovesLegal`, `InstancesLive`, `EdgesExhausted`. Visit by visit the
  invariant says where an open activation is, and that other models never get one (`ActInv`). The phase a client sees is a function of
  the row and the open cases (`PhaseFacts`), and each command is a step of `InstanceLifecycle` or a
  stutter; an override that takes a completed instance back to work is the one that needs `MovesLegal`'s exception. The
  count of RETURNs over an edge is the cardinality of a set of positions in the log: the budget and the
  escalation that follows its last one are carried along per edge (`Budget`).
* `InstanceProofs!RecoveryIsRight`. Two halves. *Replay is the fold:* the model's replay says of a prefix
  what the walk has computed, the reference folds the events one by one; after any prefix without a
  refusal the fold is in the state `StateAfter` describes (`FoldReads`). That is an induction over the log, done
  by looking at the shortest prefix where it fails (`LeastOf`). *Replay is right:* the accepted log and the cases replay makes of it mirror the
  visits and the cases the commands kept (`Mirrors`). The voiding of a case logs no event: a replayed case may still be open
  where the kept one is voided, but only on a visit that was left.
* `InstanceProofs!ReadsAreSound`: the parts of `ReadsTellTheTruth` that do not ask what a command would do
  (`ReadsSucceed`, `FeedIsTheWork`, `FeedIsComplete`, `EvidenceIsThere`), and without the bound on receipts. What a log refers
  to is there (`Referring`); a request's case is on the visit that asked, and once resolved has its
  answer later in the log and on the same visit (`Asked`); a case is voided only with its visit or with the
  end of the instance. The evidence needs the last: a free intent's request has a case that is neither open nor
  voided. `Answers` sums up what a command does to the cases and what its events refer to.
* `InstanceProofs!CommittedOffered`, `OffersAreGood`, `DueWorkOffered`: what can be said of
  `OffersAreTaken` and `DueWorkCanMove` without `ENABLED` and without more than the graph rules give. Whatever a step
  commits, the detail had offered (an action property, from the guards of both programs); what the detail
  offers, with the version that was read, meets no refusal, and there is an activation to close for
  what closes one (from `ActInv`); a due intent's worker is offered every applicable edge that is not a
  RETURN. What stays with TLC is that nothing but a refusal keeps a command from committing
  (`OfferedInVain` is where something else does), and that such an edge is there.
* `CommandProtocolProofs!TypeCorrect`, `ExactlyOnceRefined`: `Spec => Promise!Spec`, for
  any number of clients, workers and faults. At most one transaction holds a key and at
  most one the row (`Exclusive`), the receipt of a held key is not decided yet
  (`HeldKeysOpen`), and a decision taken under the lock still fits the log
  (`DecisionFits`), which is what removing the row lock breaks. `AnswersStayTrue` adds that
  receipts and log tell of each other (`TablesAgree`) and what is behind each answer that was heard
  (`AnswersBacked`). One answer needed more than the property says: a cancellation of a closed
  instance is refused and no receipt stored, and what keeps that answer true is that a cancelled
  instance's log is closed and the request is not in it. A server error heard by a wake is backed by its no-op,
  which is on record.
* `OutboxProofs!DeliverySafe`, `SettledNotSent`, with the type theorem and the two parts
  of `DeliverySafety`. A claimed row is pending and due and claimed by one loop
  (`ClaimSafety`), and the answer a loop holds is what its receiver did (`AnswersTrue`).
  The type of a settled row already needs the second, so the two cannot be proved apart.
  `Shape` sums up what any step can do to a row, to a loop and to the receivers; each
  part follows from `Shape` alone. `settle_attempt_failure`, which settles without a
  claim, disturbs no claimed row because it waits for the row lock (`~Claimed` in
  `SettleUnclaimed`): without it `ClaimSafety` fails.
* `OutboxProofs!OutboxTypeCorrect`, `ThreadsSafe` (`ThreadsInOrder`, `RepetitionsHaveFaults`). The hold-back of a batch looks
  at the rows before a row when the batch is read, and nothing looks again. What it establishes
  is that the row is `Clear`: its command has committed, and every row of its thread that precedes it in both
  orders was received. No step undoes that, so it holds of the rows a loop carries and of requests still on their
  way (`CarriedClear`). Repetition is a budget: what was posted and what is still on its way
  are together no more than the rows settled, or about to be, and the faults so far (`Budget`).
* `OutboxProofs!PromiseKept`: `Spec => KeepsItsPromise`, that is `Promise!Spec`. `PromiseInv` adds to the invariant of the
  threads that a loop which is about to settle a failure, or holds an answer that is not an
  acceptance, has a fault behind it (`TroubleCounted`). A post is `Deliver`: the claimed row is owed (`ClaimSafety`),
  the rows before it were received (`CarriedClear`), and its repetition has a fault to its charge
  (`Budget`, in the state after the step). What a row waits for is settled when its command commits, as no later command
  commits before it (`CommitQueues`). Every other step of a loop is a stutter, or settles one row
  (`OneRowChanges`). `SettledNotSent` (a settled row is not sent, whatever the loops hold) follows from `ClaimSafety`
  and is what `Deliver`'s first guard says.
* `TokenVerifierProofs!TypeCorrect`, `RefreshExclusion`, `VerdictSafety`. Whoever is at a step of
  a refresh holds the lock (`LockHeld`); a request that is not excused sees its key in
  whatever it looks at, the answer and the cache (`KidInSight`); the word of a key is never
  older than cache, timeout and clock allow (`KeysAreYoung`). The last two need each other:
  a cache young enough is used without a fetch.
* `OwnerProofs!TypeCorrect`, `ReviewClosesCase`, `ObligationsAgree`, `FinalDecisions`. To the
  properties the invariant adds that a child that was never materialised used no slot, that
  only a child at a terminal has a verdict, that a case nobody opened has no obligation,
  and, for each obligation that still counts, that its case does (`Current`), with the one exception the code
  makes: the REVIEW whose own effect closed the case goes on to its terminal. `FinalDecisions` is an action property and
  uses the invariant on both sides of the step.
* `AdmissionProofs!TypeCorrect`, `AdmissionIsFresh`, `AnswersAreDeeds`. The invariant
  follows a command along its phases: the deadline bounds every request under way
  (`InTime`), requests exist only while tokens or directories are asked (`Asking`), Auth
  was seen before agent-core (`Reading`), a mapping has its recorded line behind it (`Mapped`), a
  command that is committed *or may still commit* has established everything (`Cleared`), and the
  answer is what was done (`Told`). "May still commit" is the strengthening that matters: the server
  may commit after the client has given up, so what holds of a committed command has to hold of
  an unsure answer before. The bound on permits needs finiteness of the requests in flight, carried along.
* `DefinitionProofs!TypeCorrect`, `PublishedIsChecked`, `PublishedCanEnd`,
  `SuccessIsOnRecord`, `PublicationIsFinal`. The invariant: rows are well formed with no gaps in
  their numbers, their graphs are as a replacement builds them (`WellDrawn`), and what is published is legal; what a command that has made its checks may
  still rely on (`Checked`: the content a publish has read is legal for the model of its
  version, which no step changes, and the numbers below a draft's are taken); and a success has its effect on
  record in a form that nothing undoes (`Recorded`; for a replace, that it stored its own graph and schema). A
  success read from a receipt stands for the request's own effect or for that of the first request of its
  key (`Stands`), as the hash leaves out what the two may differ in. `Evolves` sums up what a step can do to a version: make,
  edit, release, withdraw or keep it; each part follows from it. That the content of a
  version may change after a publish has read it is allowed for: the comparison of digests under the lock
  brings the legality of what was read to what is stored. `PublishedCanEnd` says what the rules are worth,
  for every finite graph: `Reach`, a recursive function, holds its start, is closed
  under the edges (while a stage is not, the next uses an edge not used before, and there are as many stages
  as edges) and is the least such set (`ReachIsClosed`, `ReachIsLeast`). Under model 1 the greatest node an instance can get to must then be a
  TERMINAL, as its primary would lead to a greater one; a cycle without a RETURN would leave the set
  of the greater nodes and TERMINALs, which is closed; under model 3 it would be a cycle of the
  primaries of its nodes.
* `DirectoryProofs!TypeCorrect`, `OwnershipHolds`, `CommandsHold`, `ProgramsHold`: every property
  of the `directory` run, for the composition of the commands with the programs. The invariant: a
  domain has one owner at most and none before it exists, and keys of domains are distinct
  (`Sole`, `Keyed`); a receipt decides its key for good and what was told is in a receipt
  (`Books`); a command that looks at its target on another connection holds its key
  (`Reserved`), which is what keeps `Books` when it finishes later; an instance that a program
  handed over has left its first version (`Tracked`), so that no second plan takes it; a committed
  pair or group has its summary before the second look (`Running`), so that what was written is on record
  whatever is printed (`Ledger`); a commit leaves exactly what the second look asks for (`CommitsAreExact`, from
  `HandOverIsExact` and `WriteRowsIsExact`); and what a reviewed plan saw of its
  lines (`Drawn`). `OwnerStep` sums up what any step may do to the owner of a domain: keep it, pass it
  on, or take it away by name. One lemma per command and per step of a program; that a plan has a
  first pair to apply comes from its pairs being numbered: strict inclusion of finite sets is well founded.

Only model-checked: the liveness properties `EveryCommandAnswered`, `EveryRequestAnswered`,
`EveryRowSettles`, `PassesFinishTheWork` and `EveryCheckEnds` (fairness is out of the proof
system's reach) and, of `ReadsTellTheTruth`, `OffersAreTaken` as stated (its `ENABLED`; its two halves by guards are proved)
and `DueWorkCanMove`, which depends on the graph: the rules of model 3 let a TASK name an ADVANCE of another node as its primary, and one whose only exit is a
RETURN may use it up; and the three runs that are violated. The induction theorems of the library cannot be
instantiated with the installed provers; where a proof needs an induction over a log, a path or the
stages of `Reach`, it takes the least place where the claim fails, which exists because `<` on the
naturals is well founded.

## 5. Where code and documents disagree

Three are runs that TLC finds violated by what the code does.

1. `wake_replay`: a wake with the same principal, key and request replays its original outcome
   (`VISIT_ACTIVATION_IMPL_V3.md:309`). A no-op is stored with status 200 like an applied wake, and the replay
   parses every such body as that of an applied one (`wake_transaction.rs:223-228`), so each retry of a no-op
   ends in an internal error that tells nothing of the outcome.
2. `governance_once`: `definition_governance/mod.rs` says that every function is one atomic
   unit with its receipt; a draft commits on another connection before its receipt does, so a retry
   after a crash in between drafts a second version.
3. `trunk_walk`: a graph test expects a primary cycle to be refused with PRIMARY_CYCLE (it
   builds a self-loop); the walk of `validate_trunk_reaches_terminal`, which comes after the rule that notices the cycle, only stops at a self-loop
   and otherwise goes round for ever.

The following were found while modelling; the models follow the code, and no run is kept for them.

*Instances and recovery.*
The README calls the row a rebuildable projection (`README.md:37`), but replay refuses logs
with a cancellation, an archival, a wake or an entry node that is not a DRAFT
(`event_replay.rs:782`). The rule of one version and one event per command has one
exception: the RETURN that reaches its limit adds two of each (`CommitLimitReturn`). A comment says
test instances stay free of side effects (`outbox.rs:82`); a transition queues their
kicks (`transition_transaction.rs:840`). The wake's failure receipt a comment says is committed is dropped (`wake_transaction.rs:194`, `:186`). A budget that runs out between its last
check and the COMMIT arms no deadline at all, so a COMMIT may take as long as it likes and success
is claimed after the deadline (`transition_transaction.rs:1061-1066`), which the comment above it
rules out.

*Outbox.* Rows are ordered by the start of their transaction and not by its commit as a comment has it
(`outbox.rs:179`, `:161`); what does hold is `ThreadOrder`. The backoff's power
overflows under its cap from 1023 attempts on (`outbox.rs:249`, `:229`): the settlement
fails and the row stays due.

*Owner obligations.* The refusal of a cleanup is stored under a fixed key and replays for
ever; it ends every pass before materialisation (`Poisoned`, the exception in
`PendingDecided`).

*Admission and tokens.* A budget that is used up when the COMMIT is armed becomes a
statement timeout of 0, which PostgreSQL reads as none (`admission_gate.rs:212-225`). Commands with
a plain commit have no COMMIT deadline. The start-up fetch takes no lock and may store an
older key set over a newer one; `cache_ttl` has no effect where it is not above
`max_stale`; and while `JWKS_OBO_AUTH_V0.md` section 5 says that only one fetch proceeds, each
waiter whose kid is still unknown fetches again in turn.

*Directory and programs.* A cutover pair that committed and whose second look
disagrees, because the service moved on, is printed as CONFLICT with 0 writes
(`trusted_fleet_principal_cutover_v1.rs:983-989`, `:145-156`); so is one whose second look itself fails, and a
run whose later pair fails after earlier ones committed. The cutover specification (481-482)
has a CONFLICT pair commit zero writes. `ReportIsTrue` therefore claims
nothing of what a CONFLICT wrote, only that what was written is on record, and `CommittedIsExact` that the program's own writes
are never the cause. Repair and normalization print CONFLICT after a commit in the same way.
Cutover and reconcile of a DOMAIN_OWNER do not queue the owner
replacement for the obligations. `add_member` checks the write role before it takes a
lock, and reads its target on another connection. `replace_owner` locks principal before domain, reconcile domain before
principal: PostgreSQL may have to break a deadlock between them.

*Definitions.* Publish does not look again at whether the definition was archived or a
fixed principal disabled meanwhile. `validate_draft_version` uses the model-1 validator whatever the
version's model. The activation validator accepts a TASK whose primary is another TASK's
edge. A storage error commits a PROCESSING receipt, which answers `command_still_processing`
for ever. Each governance command holds one connection while it waits for a second one. The receipt
hash of a replace leaves out the graph, and a draft's the model (`definition_governance/mod.rs:286`, `:240`): a changed graph under
the same key is told the first one's success and is not stored. Here the documents disagree:
`SVC_WORKFLOW_DEFINITION_GRAPH_DIAGNOSTICS_V1.md:201` has changed input under a key stay a conflict, as a test expects for
a create (`tests/19`, lines 573-591); `SVC_WORKFLOW_OWNER_OBLIGATION_WORKFLOWS_V3.md:116` has the replay of a success return the original result
even when the graph differs. `Vouched` in `DefinitionProperties` names the exception. An ADVANCE from a
working node without a primary rolls back as inconsistent (`transition_checks.rs:38-42`); the model refuses it, on graphs the
validators do not accept. The conflict of a lost publish race is stored for ever.

*Queries.* A RETURN that would reach its limit is offered although the command rolls back
while the domain has no enabled owner (`OfferedInVain`). `executable_for_actor` ignores
cancelled instances and open cases; the creator's drafts list cancelled ones; the due feed
ignores a REVOKED definition.

## 6. Not modelled

* Legacy import: one transaction of inserts under a receipt of the protocol that
  `CommandProtocol` has; what it writes is decided before it starts.
* HTTP routing, SDK and contracts: mapping without state. The request timeout, which drops a
  handler half-way, is an action of the modules it matters in (`Admission`,
  `TokenVerifier`, `CommandProtocol`).
* Governance children bound by hand, and the governance phase of owner wakes: they need a
  second instance in the state of the first; the managed children that replaced them are in `OwnerObligation`.
* Replay of principal-successor and governance-child events, late context appends of managed
  instances, timelines, audits and paging.
* Prerequisite orchestration (`WIR/prerequisite.rs`, `domain/definition/prerequisite.rs`): what a creation makes of its reference to another
  instance is among the checks that `acceptable` stands for; its readiness is derived when it is read,
  from that instance, and the queue of ready intents leaves out what waits for it.
* Inside what is modelled: payloads, references and prompts (an action's `acceptable`
  stands for all checks on them), signatures (right, or another token), the wording of answers.

## 7. Plan

Done: the instance with its recovery and reads, receipts, outbox and its promise, owner
obligations, admission, tokens, directory and programs, definitions. Left: `GovernanceChild`, two
instances with the case and the binding between them, and the governance phase of owner wakes.
