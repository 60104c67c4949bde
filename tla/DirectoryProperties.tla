------------------------- MODULE DirectoryProperties -------------------------
(***************************************************************************)
(* What the directory and the programs that rewrite it promise, together.   *)
(***************************************************************************)
EXTENDS IdentityPrograms

Answers == Successes \cup ProvisioningLabels \cup CoordinatorLabels \cup MemberLabels
           \cup {"internal_consistency_error"}
Outcomes == {"NOOP", "COMMITTED", "ROLLED_BACK", "APPLIED", "CONFLICT", "OUTCOME_UNKNOWN"}
RunIds == HumanRun..Len(Pairs)

\* The variables have the shapes the tables and the programs give them; a
\* client holds a request exactly while its command is under way.
TypeOK ==
  /\ \A p \in Principals :
       row[p] # NoRow => row[p].kind \in {"AGENT", "HUMAN"} /\ row[p].enabled \in BOOLEAN
  /\ \A d \in Domains : domain[d] = NoDomain \/ domain[d].key \in DomainKeys
  /\ \A x \in DOMAIN binding : binding[x] \in {"none", "on", "off"}
  /\ \A p \in Principals : coordinator[p] \in {"none", "on", "off"}
  /\ \A x \in receipts : x.answer \in Answers
  /\ \A c \in Clients : /\ phase[c] \in {"idle", "asked", "gated", "looked"}
                        /\ (request[c] = NoRequest) <=> (phase[c] = "idle")
  /\ \A i \in Works : work[i].version \in 1..MaxVersion /\ handed[i] \in 0..MaxVersion
  /\ summary \subseteq RunIds /\ lineage \subseteq Lines
  /\ run.stage \in {"idle", "apply", "reread"}
  /\ \A r \in reports : r.outcome \in Outcomes

\* A domain has one owner at most and a key names one domain, whoever
\* provisions, binds, replaces, reconciles or cuts over, in any order: the
\* partial unique index is a backstop no legal sequence of commands meets.
OneOwner ==
  /\ \A d \in Domains : Cardinality({p \in Principals : HasRole(d, p, "DOMAIN_OWNER")}) <= 1
  /\ \A d, e \in Domains : d # e /\ domain[d] # NoDomain => domain[d].key # domain[e].key

\* Every caller of one request is told one answer: what a receipt stores, a
\* refusal included, comes back through error_from_body as it was first told.
SameAnswer ==
  \A t, u \in told :
    t.req.actor = u.req.actor /\ t.req.key = u.req.key => t = u

\* A control plane command that succeeds was asked by a principal that is
\* enabled and a global coordinator when it commits, not only when the gate
\* in front of its transaction looked.
AuthorityIsCurrent ==
  [][\A x \in receipts' \ receipts :
       x.job.op \in CoordinatorOps /\ x.answer \in Successes
         => Enabled(x.actor) /\ coordinator[x.actor] = "on"]_all

\* An owned domain loses its owner only to a command that takes the role away
\* by name: replacing, reconciling and cutting over hand it on in one step.
TakesAway(x, d) == x.job.op \in {"bind", "unbind"} /\ x.job.d = d /\ x.job.role = "DOMAIN_OWNER"
Owners(d) == {p \in Principals : HasRole(d, p, "DOMAIN_OWNER")}
OwnerKept ==
  [][\A d \in Domains :
       Owners(d) # {} => \/ Owners(d)' # {}
                         \/ \E x \in receipts' \ receipts : TakesAway(x, d)]_all

\* A principal that was disabled is enabled again only by another principal
\* that is enabled itself: neither its own provisioning, nor its first call,
\* nor a program that writes its projection brings it back.
OffStaysOff ==
  [][\A p \in Principals :
       Present(p) /\ ~Enabled(p) /\ Enabled(p)'
         => \E x \in receipts' \ receipts :
              x.job.op = "principal" /\ x.job.p = p /\ x.actor # p /\ Enabled(x.actor)]_all

\* An outcome that claims the work has it on record, a ROLLED_BACK wrote
\* nothing, and whatever is printed, work that was written is on record, so a
\* rerun finds it and hands no instance over twice. CONFLICT does not say that
\* nothing was written: the cutover prints it, with "writes": 0, of a pair it
\* has committed when the second look fails or the service has moved on
\* (trusted_fleet_principal_cutover_v1.rs:145-156, :983-989), although the
\* cutover's specification (:481-482) has a CONFLICT pair commit zero writes.
ReportIsTrue ==
  /\ \A r \in reports :
       /\ r.outcome \in {"NOOP", "COMMITTED", "APPLIED"} => r.done
       /\ r.outcome = "ROLLED_BACK" => ~r.wrote
       /\ r.wrote => r.done
  /\ \A i \in Works : handed[i] <= 1

\* What a transaction commits is exactly what the second look asks for, though
\* the two are coded apart: a CONFLICT about a committed pair, or a committed
\* group, is never the doing of the program's own writes.
CommittedIsExact ==
  [][/\ \A k \in DOMAIN Pairs : k \in summary' \ summary => PairTerminal(k)'
     /\ HumanRun \in summary' \ summary => RowsExact']_all

\* Successor lines only grow; a principal has one successor, and when a line
\* is drawn its successor is an enabled agent and nothing the reviewer saw
\* has changed.
LineageSafety ==
  [][/\ lineage \subseteq lineage'
     /\ \A l \in lineage' \ lineage :
          /\ Enabled(l.to) /\ row[l.to].kind = "AGENT" /\ Present(l.from)
          /\ \A m \in lineage' : m.from = l.from => m = l]_all

\* Ownership of a domain is unique and passes on without a gap.
OwnershipSafety == []OneOwner /\ OwnerKept

\* The service's own commands: one answer each, on authority that still holds.
CommandSafety == []SameAnswer /\ AuthorityIsCurrent /\ OffStaysOff

\* The operators' programs, whatever the service does between their reads and
\* their writes: reports that claim what is on record, and nothing written that
\* is not, work handed over once, commits that match the second look, immutable
\* lineage.
ProgramSafety == []ReportIsTrue /\ CommittedIsExact /\ LineageSafety
==============================================================================
