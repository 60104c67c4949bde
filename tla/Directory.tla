------------------------------ MODULE Directory ------------------------------
(***************************************************************************)
(* The rows authority is read from: principals, domains, the role bindings  *)
(* of a domain and the global coordinator role, under the provisioning      *)
(* commands, the coordinator control plane and the membership commands,     *)
(* which share one table of receipts.                                       *)
(*                                                                         *)
(* A transaction that holds the locks of all it reads is one step. What the *)
(* code reads without a lock is a step of its own: the gates in front of a  *)
(* transaction, and add_member's look at its target on another connection.  *)
(***************************************************************************)
EXTENDS Integers, FiniteSets

CONSTANTS
  Principals, Domains, DomainKeys,
  Clients,
  Requests,      \* what clients may ask: [actor, key, job]
  InitialRow, InitialDomain, InitialBinding, InitialCoordinators,
  MaxStimuli

ProvisioningOps == {"principal", "domain", "create", "bind", "unbind",
                    "global", "unglobal", "replace"}
CoordinatorOps == {"rename", "reconcile"}
MemberOps == {"add", "remove"}
Ops == ProvisioningOps \cup CoordinatorOps \cup MemberOps \cup {"self"}
Roles == {"DOMAIN_OWNER", "DOMAIN_MEMBER"}
NoRow == [kind |-> "NONE", enabled |-> FALSE, named |-> "none"]
NoDomain == [key |-> "none", enabled |-> FALSE]
NoRequest == [actor |-> "none", key |-> "none", job |-> [op |-> "none"]]

States == {"none", "on", "off"}
NamesPrincipal == {"principal", "bind", "unbind", "global", "unglobal", "replace", "reconcile",
                   "add", "remove", "self"}
NamesDomain == {"domain", "bind", "unbind", "replace", "rename", "reconcile", "add", "remove"}

\* A job names what its operation reads: [op, p, d, role, from, on, kind, dkey].
ASSUME DirectoryAssumption ==
  /\ "none" \notin DomainKeys /\ "new" \notin Domains
  /\ \A r \in Requests :
       /\ r = [actor |-> r.actor, key |-> r.key, job |-> r.job]
       /\ r.job.op \in Ops /\ r.actor \in Principals /\ r.job.on \in BOOLEAN
       /\ r.job.op \in NamesPrincipal => r.job.p \in Principals
       /\ r.job.op \in NamesDomain => r.job.d \in Domains
       /\ r.job.op \in {"domain", "create"} => r.job.dkey \in DomainKeys
       /\ r.job.op \in {"bind", "unbind", "reconcile"} => r.job.role \in Roles
       /\ r.job.op = "reconcile" => r.job.from \in Principals
       /\ r.job.op = "self" => r.job.p = r.actor
  /\ InitialCoordinators \subseteq Principals
  /\ MaxStimuli \in Nat

RowShape == [kind : {"NONE", "AGENT", "HUMAN"}, enabled : BOOLEAN, named : {"none", "own", "auth"}]

\* What the tables hold at first is what commands have left there.
ASSUME TablesAssumption ==
  /\ InitialRow \in [Principals -> RowShape]
  /\ \A p \in Principals : InitialRow[p].kind = "NONE" => InitialRow[p] = NoRow
  /\ InitialDomain \in [Domains -> [key : DomainKeys, enabled : BOOLEAN] \cup {NoDomain}]
  /\ \A d, e \in Domains : d # e /\ InitialDomain[d] # NoDomain =>
                              InitialDomain[d].key # InitialDomain[e].key
  /\ InitialBinding \in [Domains \X Principals \X Roles -> States]
  /\ \A d \in Domains, p \in Principals : InitialBinding[<<d, p, "DOMAIN_OWNER">>] = "on" =>
       /\ InitialDomain[d] # NoDomain
       /\ \A q \in Principals : InitialBinding[<<d, q, "DOMAIN_OWNER">>] = "on" => q = p

VARIABLES
  row,           \* row[p]: [kind, enabled, named]
  domain,        \* domain[d]: [key, enabled]
  binding,       \* binding[<<d, p, role>>]: "none", "on" or "off"
  coordinator,   \* coordinator[p]: "none", "on" or "off"
  receipts,      \* completed receipts: [actor, key, job, answer]
  request, phase, stimuli,
  \* Observation, read by no guard.
  told           \* answers written to a receipt or read from one: [req, answer]

tables == <<row, domain, binding, coordinator>>
commands == <<row, domain, binding, coordinator, receipts, request, phase, told>>
vars == <<row, domain, binding, coordinator, receipts, request, phase, stimuli, told>>

Present(p) == row[p] # NoRow
Enabled(p) == Present(p) /\ row[p].enabled
HasRole(d, p, r) == binding[<<d, p, r>>] = "on"
IsCoordinator(p) == Enabled(p) /\ coordinator[p] = "on"
MayGovern(p, d) == HasRole(d, p, "DOMAIN_OWNER") \/ IsCoordinator(p)

Init ==
  /\ row = InitialRow
  /\ domain = InitialDomain
  /\ binding = InitialBinding
  /\ coordinator = [p \in Principals |-> IF p \in InitialCoordinators THEN "on" ELSE "none"]
  /\ receipts = {}
  /\ request = [c \in Clients |-> NoRequest]
  /\ phase = [c \in Clients |-> "idle"]
  /\ stimuli = 0
  /\ told = {}

-----------------------------------------------------------------------------
(* What an operation answers when it refuses. *)

TargetError(p) == IF ~Present(p) THEN "principal_not_found"
                  ELSE IF ~row[p].enabled THEN "principal_disabled" ELSE "none"

\* ensure_provisioning_actor: a principal that provisions itself gets a row first.
RowOf(a, p) == IF a = p /\ ~Present(p)
               THEN [kind |-> "AGENT", enabled |-> TRUE, named |-> "own"] ELSE row[p]

ActorError(a, r) == IF r = NoRow THEN "permission_denied"
                    ELSE IF ~r.enabled THEN "principal_disabled"
                    ELSE IF r.kind # "AGENT" THEN "principal_type_not_allowed" ELSE "none"

PrincipalError(a, j) ==
  IF j.kind \notin {"AGENT", "HUMAN"} THEN "principal_type_invalid"
  ELSE IF RowOf(a, j.p) # NoRow /\ RowOf(a, j.p).kind # j.kind THEN "principal_type_conflict"
  ELSE "none"

DomainError(d, k) ==
  IF \E e \in Domains \ {d} : domain[e].key = k THEN "domain_identity_conflict" ELSE "none"

DomainRowError(j) ==
  IF domain[j.d] = NoDomain THEN "domain_not_found"
  ELSE IF ~domain[j.d].enabled /\ j.on THEN "domain_disabled" ELSE "none"

\* The principal must be enabled even when the binding is switched off.
BindError(j) ==
  IF TargetError(j.p) # "none" THEN TargetError(j.p)
  ELSE IF DomainRowError(j) # "none" THEN DomainRowError(j)
  ELSE IF j.role = "DOMAIN_OWNER" /\ j.on
          /\ \E p \in Principals \ {j.p} : HasRole(j.d, p, "DOMAIN_OWNER")
       THEN "domain_owner_conflict" ELSE "none"

OpError(a, j) ==
  CASE j.op = "principal" -> PrincipalError(a, j)
    [] j.op = "domain" -> DomainError(j.d, j.dkey)
    [] j.op = "create" -> DomainError("new", j.dkey)
    [] j.op = "bind" -> BindError(j)
    [] j.op = "unbind" -> IF HasRole(j.d, j.p, j.role) THEN "none" ELSE "binding_not_found"
    [] j.op = "global" -> TargetError(j.p)
    [] j.op = "unglobal" -> IF coordinator[j.p] = "on" THEN "none" ELSE "binding_not_found"
    [] j.op = "replace" -> IF TargetError(j.p) # "none" THEN TargetError(j.p)
                           ELSE DomainRowError([j EXCEPT !.on = TRUE])

\* What error_from_body knows; any other stored label is replayed as an
\* internal error.
ProvisioningLabels ==
  {"principal_not_found", "principal_disabled", "principal_type_conflict",
   "principal_type_invalid", "domain_not_found", "domain_disabled",
   "domain_identity_conflict", "domain_owner_conflict", "binding_not_found",
   "permission_denied", "principal_type_not_allowed"}
CoordinatorLabels ==
  {"domain_not_found", "not_domain_owner", "identity_not_found", "principal_disabled",
   "binding_conflict"}
MemberLabels ==
  {"principal_not_registered", "principal_disabled", "domain_not_found",
   "not_domain_owner", "principal_is_owner", "member_not_found"}
Successes == {"ok", "applied", "noop", "already_applied", "added", "already_member"}
Known(op) == IF op \in ProvisioningOps THEN ProvisioningLabels
             ELSE IF op \in CoordinatorOps THEN CoordinatorLabels ELSE MemberLabels
Replayed(op, answer) == IF answer \in Known(op) \cup Successes THEN answer
                        ELSE "internal_consistency_error"

-----------------------------------------------------------------------------
(* Receipts and the clients. *)

job(c) == request[c].job
actor(c) == request[c].actor
Receipts(c) == {x \in receipts : x.actor = actor(c) /\ x.key = request[c].key}
Owned(c) == Receipts(c) = {}

\* Fault: the request of a command that ended is kept.
CloseKept(c) == phase' = [phase EXCEPT ![c] = "idle"] /\ UNCHANGED request

Close(c) == phase' = [phase EXCEPT ![c] = "idle"] /\ request' = [request EXCEPT ![c] = NoRequest]
Record(c, answer) == told' = told \cup {[req |-> request[c], answer |-> answer]}

\* An answer that leaves no trace: the transaction is rolled back, or nothing began.
Refuse(c) == Close(c) /\ UNCHANGED <<tables, receipts, stimuli, told>>

Replay(c) ==
  /\ ~Owned(c)
  /\ \E x \in Receipts(c) :
       IF x.job = job(c) THEN Record(c, Replayed(x.job.op, x.answer)) ELSE UNCHANGED told
  /\ Close(c)
  /\ UNCHANGED <<tables, receipts, stimuli>>

\* complete_receipt and the commit.
Complete(c, answer) ==
  /\ receipts' = receipts \cup {[actor |-> actor(c), key |-> request[c].key,
                                 job |-> job(c), answer |-> answer]}
  /\ Record(c, answer)
  /\ Close(c)
  /\ UNCHANGED stimuli

\* The bound of a behavior: requests, runs of a program, moves of an instance.
Stimulus == stimuli < MaxStimuli /\ stimuli' = stimuli + 1

\* A client asks, for the first time or again.
Submit(c) ==
  /\ phase[c] = "idle"
  /\ \E r \in Requests : request' = [request EXCEPT ![c] = r]
  /\ phase' = [phase EXCEPT ![c] = "asked"]
  /\ Stimulus
  /\ UNCHANGED <<tables, receipts, told>>

\* An add_member that looks at its target holds its domain and its receipt,
\* and shares its actor.
DomainHeld(d) == \E c \in Clients : phase[c] = "looked" /\ job(c).d = d
RowShared(p) == \E c \in Clients : phase[c] = "looked" /\ actor(c) = p
ReceiptHeld(c) == \E b \in Clients \ {c} :
  phase[b] = "looked" /\ actor(b) = actor(c) /\ request[b].key = request[c].key

\* The rows locked exclusively, and whether the domain is.
LockedRows(c) ==
  (IF job(c).op \in ProvisioningOps \cup CoordinatorOps THEN {actor(c)} ELSE {})
  \cup (IF job(c).op \in {"principal", "bind", "global", "replace"} THEN {job(c).p} ELSE {})
LocksDomain(c) == job(c).op \in {"domain", "bind", "replace", "rename", "reconcile", "add"}

Free(c) == /\ ~ReceiptHeld(c)
           /\ \A p \in LockedRows(c) : ~RowShared(p)
           /\ LocksDomain(c) => ~DomainHeld(job(c).d)

-----------------------------------------------------------------------------
(* Provisioning, serialized by the control plane's advisory lock. *)

SetBinding(d, p, r, s) == binding' = [binding EXCEPT ![<<d, p, r>>] = s]

PutPrincipal(c) ==
  /\ job(c).op = "principal"
  /\ row' = [row EXCEPT ![job(c).p] =
               [RowOf(actor(c), job(c).p) EXCEPT
                  !.kind = job(c).kind, !.enabled = job(c).on,
                  !.named = IF @ = "none" THEN "own" ELSE @]]
  /\ UNCHANGED <<domain, binding, coordinator>>

PutDomain(c) ==
  /\ job(c).op = "domain"
  /\ domain' = [domain EXCEPT ![job(c).d] = [key |-> job(c).dkey, enabled |-> job(c).on]]
  /\ UNCHANGED <<row, binding, coordinator>>

\* A fresh identifier, and the creator as its owner.
CreateDomain(c) ==
  /\ job(c).op = "create"
  /\ \E d \in Domains :
       /\ domain[d] = NoDomain
       /\ domain' = [domain EXCEPT ![d] = [key |-> job(c).dkey, enabled |-> job(c).on]]
       /\ SetBinding(d, actor(c), "DOMAIN_OWNER", "on")
  /\ UNCHANGED <<row, coordinator>>

PutBinding(c) ==
  /\ job(c).op = "bind"
  /\ SetBinding(job(c).d, job(c).p, job(c).role, IF job(c).on THEN "on" ELSE "off")
  /\ UNCHANGED <<row, domain, coordinator>>

RevokeBinding(c) ==
  /\ job(c).op = "unbind"
  /\ SetBinding(job(c).d, job(c).p, job(c).role, "off")
  /\ UNCHANGED <<row, domain, coordinator>>

PutGlobal(c) ==
  /\ job(c).op \in {"global", "unglobal"}
  /\ coordinator' = [coordinator EXCEPT ![job(c).p] =
                       IF job(c).op = "global" /\ job(c).on THEN "on" ELSE "off"]
  /\ UNCHANGED <<row, domain, binding>>

\* One owner is replaced by another in one transaction; an owner that stays
\* changes nothing. (What an owner change does to open work: OwnerObligation.)
ReplaceOwner(c) ==
  /\ job(c).op = "replace"
  /\ binding' = [x \in DOMAIN binding |->
                   IF x[1] # job(c).d \/ x[3] # "DOMAIN_OWNER" THEN binding[x]
                   ELSE IF x[2] = job(c).p THEN "on"
                   ELSE IF binding[x] = "on" THEN "off" ELSE binding[x]]
  /\ UNCHANGED <<row, domain, coordinator>>

Write(c) == PutPrincipal(c) \/ PutDomain(c) \/ CreateDomain(c) \/ PutBinding(c)
            \/ RevokeBinding(c) \/ PutGlobal(c) \/ ReplaceOwner(c)

\* The row ensure_provisioning_actor inserted stays when the operation refuses.
KeepEnsured(c) ==
  /\ row' = IF job(c).op = "principal"
            THEN [row EXCEPT ![job(c).p] = RowOf(actor(c), job(c).p)] ELSE row
  /\ UNCHANGED <<domain, binding, coordinator>>

ActorRow(c) == IF job(c).op = "principal" /\ job(c).p = actor(c)
               THEN RowOf(actor(c), actor(c)) ELSE row[actor(c)]

Provision(c) ==
  /\ phase[c] = "asked" /\ job(c).op \in ProvisioningOps /\ Free(c)
  /\ IF ActorError(actor(c), ActorRow(c)) # "none" THEN Refuse(c)
     ELSE \/ Replay(c)
          \/ /\ Owned(c) /\ OpError(actor(c), job(c)) = "none"
             /\ Write(c)
             /\ Complete(c, "ok")
          \/ /\ Owned(c) /\ OpError(actor(c), job(c)) # "none"
             /\ KeepEnsured(c)
             /\ Complete(c, OpError(actor(c), job(c)))

\* The first call of a principal: it is created as an agent, never enabled again.
SelfProject(c) ==
  /\ phase[c] = "asked" /\ job(c).op = "self"
  /\ row' = IF Present(actor(c)) THEN row
            ELSE [row EXCEPT ![actor(c)] = [kind |-> "AGENT", enabled |-> TRUE, named |-> "own"]]
  /\ Close(c)
  /\ UNCHANGED <<domain, binding, coordinator, receipts, stimuli, told>>

-----------------------------------------------------------------------------
(* The coordinator control plane. *)

\* require_global_coordinator, on the pool.
CoordinatorGate(c) ==
  /\ phase[c] = "asked" /\ job(c).op \in CoordinatorOps
  /\ IF IsCoordinator(actor(c))
     THEN /\ phase' = [phase EXCEPT ![c] = "gated"]
          /\ UNCHANGED <<tables, receipts, request, stimuli, told>>
     ELSE Refuse(c)

StateOf(j, p) == binding[<<j.d, p, j.role>>]

ReconcileError(j) ==
  LET moved == StateOf(j, j.from) = "off" /\ j.from # j.p /\ StateOf(j, j.p) = "on"
      target == IF ~Present(j.p) THEN "identity_not_found"
                ELSE IF ~row[j.p].enabled THEN "principal_disabled" ELSE "none" IN
  IF domain[j.d] = NoDomain \/ ~domain[j.d].enabled THEN "domain_not_found"
  ELSE IF StateOf(j, j.from) = "none"
       THEN IF Present(j.from) THEN "binding_conflict" ELSE "identity_not_found"
  ELSE IF StateOf(j, j.from) = "off" /\ ~moved THEN "binding_conflict"
  ELSE IF target # "none" THEN target
  ELSE IF ~moved /\ j.from # j.p /\ StateOf(j, j.p) = "on" THEN "binding_conflict"
  ELSE "none"

ReconcileOutcome(j) == IF StateOf(j, j.from) = "off" THEN "already_applied"
                       ELSE IF j.from = j.p THEN "noop" ELSE "applied"

\* Fault: a disabled binding of the target is left as it is.
MigrateFresh(j) ==
  binding' = IF ReconcileOutcome(j) # "applied" THEN binding
             ELSE [binding EXCEPT ![<<j.d, j.from, j.role>>] = "off",
                                  ![<<j.d, j.p, j.role>>] = IF @ = "none" THEN "on" ELSE @]

Migrate(j) ==
  binding' = IF ReconcileOutcome(j) # "applied" THEN binding
             ELSE [binding EXCEPT ![<<j.d, j.from, j.role>>] = "off", ![<<j.d, j.p, j.role>>] = "on"]

CoordinatorError(j) ==
  IF j.op = "reconcile" THEN ReconcileError(j)
  ELSE IF domain[j.d] = NoDomain THEN "domain_not_found" ELSE "none"

\* Fault: the gate in front of the transaction is trusted.
StillCoordinatorGated(c) == TRUE

\* lock_and_check_coordinator.
StillCoordinator(c) == coordinator[actor(c)] = "on"

CoordinatorWrite(c) ==
  LET j == job(c) IN
  /\ phase[c] = "gated" /\ j.op \in CoordinatorOps /\ Free(c)
  /\ \/ Replay(c)
     \/ Owned(c) /\ ~Enabled(actor(c)) /\ Refuse(c)
     \/ /\ Owned(c) /\ Enabled(actor(c)) /\ ~StillCoordinator(c)
        /\ Complete(c, "not_domain_owner")
        /\ UNCHANGED tables
     \/ /\ Owned(c) /\ Enabled(actor(c)) /\ StillCoordinator(c)
        /\ IF CoordinatorError(j) # "none"
           THEN Complete(c, CoordinatorError(j)) /\ UNCHANGED tables
           ELSE /\ IF j.op = "reconcile" THEN Migrate(j) ELSE UNCHANGED binding
                /\ UNCHANGED <<row, domain, coordinator>>
                /\ Complete(c, IF j.op = "reconcile" THEN ReconcileOutcome(j) ELSE "ok")

-----------------------------------------------------------------------------
(* The membership commands of an owner or a coordinator. *)

\* check_domain_write_role, before any lock is taken.
MemberGate(c) ==
  /\ phase[c] = "asked" /\ job(c).op \in MemberOps
  /\ IF MayGovern(actor(c), job(c).d)
     THEN /\ phase' = [phase EXCEPT ![c] = "gated"]
          /\ UNCHANGED <<tables, receipts, request, stimuli, told>>
     ELSE Refuse(c)

AddError(j) ==
  IF ~Present(j.p) THEN "principal_not_registered"
  ELSE IF ~row[j.p].enabled THEN "principal_disabled" ELSE "none"

\* With the domain locked: the receipt, the actor, and the target as another
\* connection sees it.
LookAtTarget(c) ==
  LET j == job(c) IN
  /\ phase[c] = "gated" /\ j.op = "add" /\ Free(c)
  /\ IF domain[j.d] = NoDomain \/ ~domain[j.d].enabled THEN Refuse(c)
     ELSE \/ Replay(c)
          \/ /\ Owned(c)
             /\ ~Enabled(actor(c)) \/ AddError(j) # "none"
             /\ Complete(c, IF ~Enabled(actor(c)) THEN "principal_disabled" ELSE AddError(j))
             /\ UNCHANGED tables
          \/ /\ Owned(c) /\ Enabled(actor(c)) /\ AddError(j) = "none"
             /\ phase' = [phase EXCEPT ![c] = "looked"]
             /\ UNCHANGED <<tables, receipts, request, stimuli, told>>

AddMember(c) ==
  LET j == job(c) IN
  /\ phase[c] = "looked"
  /\ UNCHANGED <<row, domain, coordinator>>
  /\ IF HasRole(j.d, j.p, "DOMAIN_OWNER")
     THEN Complete(c, "principal_is_owner") /\ UNCHANGED binding
     ELSE /\ SetBinding(j.d, j.p, "DOMAIN_MEMBER", "on")
          /\ Complete(c, IF HasRole(j.d, j.p, "DOMAIN_MEMBER") THEN "already_member" ELSE "added")

RemoveMember(c) ==
  LET j == job(c) IN
  /\ phase[c] = "gated" /\ j.op = "remove" /\ Free(c)
  /\ \/ Replay(c)
     \/ /\ Owned(c)
        /\ UNCHANGED <<row, domain, coordinator>>
        /\ IF Enabled(actor(c)) /\ HasRole(j.d, j.p, "DOMAIN_MEMBER")
           THEN SetBinding(j.d, j.p, "DOMAIN_MEMBER", "off") /\ Complete(c, "ok")
           ELSE /\ UNCHANGED binding
                /\ Complete(c, IF Enabled(actor(c)) THEN "member_not_found"
                               ELSE "principal_disabled")

\* The process stops, or the client gives up: an open transaction is rolled back.
Lose(c) == phase[c] # "idle" /\ Refuse(c)

Handle(c) == Submit(c) \/ Provision(c) \/ SelfProject(c) \/ CoordinatorGate(c)
             \/ CoordinatorWrite(c) \/ MemberGate(c) \/ LookAtTarget(c)
             \/ AddMember(c) \/ RemoveMember(c) \/ Lose(c)
=============================================================================
