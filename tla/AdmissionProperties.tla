-------------------------- MODULE AdmissionProperties --------------------------
(***************************************************************************)
(* What the admission promises of the commands it lets through and of those *)
(* it turns away.                                                           *)
(***************************************************************************)
EXTENDS Admission

Stages == {"idle", "wait", "sent", "ok", "admission_rejected", "admission_target_disabled"} \cup Breaks
Phases == {"idle", "local", "observe", "tokens", "reads", "work", "checked", "committing", "done"}

\* Every variable has its type; no more requests are in flight than the bound.
TypeOK ==
  /\ now \in 0..MaxTime /\ lineage \subseteq Edges /\ changes \in 0..MaxChanges
  /\ phase \in [Commands -> Phases] /\ \A c \in Commands : job[c] \in Jobs[c]
  /\ start \in [Commands -> 0..now] /\ tries \in [Commands -> 0..MaxTries]
  /\ task \in [Commands -> [Requests -> [stage : Stages, at : Endpoints]]]
  /\ committed \subseteq Commands
  /\ Cardinality(InFlight) <= MaxInFlight

\* Every agent a committed command made responsible was found active by Auth and
\* then enabled by agent-core, for this command and within its deadline.
Fresh(c, p) ==
  LET e == evidence[c][p] IN
  /\ start[c] <= e.auth /\ e.auth <= e.core /\ e.core <= start[c] + Deadline
AdmittedIsFresh ==
  \A c \in committed : \A p \in DOMAIN resolved[c] :
    LET q == resolved[c][p].canonical IN Kind[q] # "HUMAN" => client /\ Fresh(c, q)

\* A refused command left nothing behind, a command that succeeded is committed;
\* only the answers that say so leave the outcome open. Nothing of a finished
\* command is still in flight.
OutcomeIsTold ==
  \A c \in Commands : phase[c] = "done" =>
    /\ answer[c] = "ok" => c \in committed
    /\ c \in committed => answer[c] \in Unsure \cup {"ok"}
    /\ \A q \in Requests : task[c][q].stage # "sent"

\* No explicit input is mapped to another principal: who is made responsible was
\* named, or is the agent that an immutable line records for a principal that had
\* the node before.
MappedOnce ==
  \A c \in committed : \A p \in DOMAIN resolved[c] :
    LET q == resolved[c][p].canonical IN
    q # p => /\ job[c].kind = "RETURN" /\ p \in History /\ Kind[q] = "AGENT"
             /\ [from |-> p, to |-> q, agent |-> AgentOf[q]] \in lineage

\* What a command answers and whom it makes responsible is what it was asked and
\* what it did, through rejections, mapped RETURNs and COMMITs in doubt.
AnswersMatchDeeds == OutcomeIsTold /\ MappedOnce

\* Every command that starts is answered (each runs once here, so that in the end
\* none is under way): the queue for the permits moves, although a request has no
\* deadline while it waits there, and every request and COMMIT ends.
EveryCommandAnswered == <>[](\A c \in Commands : phase[c] \in {"idle", "done"})
================================================================================
