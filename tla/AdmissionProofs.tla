--------------------------- MODULE AdmissionProofs ---------------------------
(***************************************************************************)
(* Theorems about Admission, for any principals, commands, jobs, edges and  *)
(* bounds.                                                                  *)
(***************************************************************************)
EXTENDS AdmissionProperties, WellFoundedInduction, FiniteSetTheorems, TLAPS

-----------------------------------------------------------------------------
(* The inductive invariant.                                                 *)

(* The types, and the bound on the permits apart. *)
Types ==
  /\ now \in 0..MaxTime /\ lineage \subseteq Edges /\ changes \in 0..MaxChanges
  /\ phase \in [Commands -> Phases] /\ \A c \in Commands : job[c] \in Jobs[c]
  /\ start \in [Commands -> 0..now] /\ tries \in [Commands -> 0..MaxTries]
  /\ task \in [Commands -> [Requests -> [stage : Stages, at : Endpoints]]]
  /\ committed \subseteq Commands
  /\ DOMAIN answer = Commands /\ DOMAIN commitBy = Commands /\ DOMAIN resolved = Commands
  /\ evidence \in [Commands -> [Principals -> [auth : Int, core : Int]]]

Permits == IsFiniteSet(InFlight) /\ Cardinality(InFlight) <= MaxInFlight

(* A command that is committed, or may still be. *)
MayCommit(c) == phase[c] = "done" /\ answer[c] \in Unsure /\ commitBy[c] # Never
Bound(c) == c \in committed \/ MayCommit(c) \/ phase[c] \in {"work", "checked", "committing"}
Ahead == {"observe", "tokens", "reads", "work", "checked", "committing"}

(* Requests are under way only within the deadline, ... *)
InTime(c) ==
  /\ start[c] <= now
  /\ \A q \in Requests : task[c][q].stage = "sent" => now <= start[c] + Deadline

(* ... and only while the tokens or the directories are asked. *)
Asking(c) ==
  \A q \in Requests : task[c][q].stage \in {"wait", "sent"} =>
    phase[c] = "tokens" \/ (phase[c] = "reads" /\ q \in Agents(c))

(* What the reads of a command have found so far, each in its order. *)
Reading(c) ==
  /\ phase[c] \in {"tokens", "reads"} => client
  /\ phase[c] = "reads" => \A q \in Agents(c) :
       /\ task[c][q].stage # "idle" /\ task[c][q].at \in {"auth", "core"}
       /\ task[c][q].at = "core" =>
            start[c] <= evidence[c][q].auth /\ evidence[c][q].auth <= now
       /\ task[c][q].stage = "ok" => task[c][q].at = "core" /\ Fresh(c, q)

(* A mapped principal has its recorded line behind it. *)
MappedBy(c, p, q, agent) ==
  q # p => /\ job[c].kind = "RETURN" /\ p \in History /\ Kind[q] = "AGENT"
           /\ agent # "any" /\ [from |-> p, to |-> q, agent |-> agent] \in lineage
Mapped(c) ==
  phase[c] \in Ahead \/ Bound(c) => \A p \in DOMAIN resolved[c] :
    /\ p \in Principals /\ resolved[c][p].canonical \in Principals
    /\ MappedBy(c, p, resolved[c][p].canonical, resolved[c][p].agent)

(* What a command that may commit has established. *)
Cleared(c) ==
  Bound(c) => \A p \in DOMAIN resolved[c] :
    LET q == resolved[c][p].canonical IN
    /\ Kind[q] # "HUMAN" => client /\ Fresh(c, q)
    /\ q # p => resolved[c][p].agent = AgentOf[q]

(* What it answered is what it did. *)
Told(c) ==
  /\ c \in committed => phase[c] \in {"committing", "done"}
  /\ phase[c] = "done" =>
       /\ answer[c] = "ok" => c \in committed
       /\ c \in committed => answer[c] \in Unsure \cup {"ok"}

Command(c) == InTime(c) /\ Asking(c) /\ Reading(c) /\ Mapped(c) /\ Cleared(c) /\ Told(c)

IInv == Types /\ Permits /\ \A c \in Commands : Command(c)

LEMMA InvariantImplies == IInv => TypeOK /\ AdmittedIsFresh /\ AnswersMatchDeeds
  <1> SUFFICES ASSUME IInv PROVE TypeOK /\ AdmittedIsFresh /\ AnswersMatchDeeds
    OBVIOUS
  <1>1. TypeOK
    BY DEF IInv, Types, Permits, TypeOK
  <1>2. committed \subseteq Commands
    BY DEF IInv, Types
  <1>3. AdmittedIsFresh
    BY <1>2 DEF IInv, Command, Cleared, Bound, AdmittedIsFresh
  <1>4. OutcomeIsTold
    BY DEF IInv, Command, Told, Asking, OutcomeIsTold
  <1>5. MappedOnce
    BY <1>2 DEF IInv, Command, Mapped, MappedBy, Cleared, Bound, MappedOnce
  <1> QED
    BY <1>1, <1>3, <1>4, <1>5 DEF AnswersMatchDeeds

-----------------------------------------------------------------------------
(* A step of one command leaves the others alone.                           *)

Untouched(c) ==
  /\ job'[c] = job[c] /\ start'[c] = start[c] /\ phase'[c] = phase[c]
  /\ commitBy'[c] = commitBy[c] /\ answer'[c] = answer[c] /\ task'[c] = task[c]
  /\ resolved'[c] = resolved[c] /\ evidence'[c] = evidence[c]
  /\ (c \in committed') <=> (c \in committed)

LEMMA UntouchedKeeps ==
  ASSUME NEW c \in Commands, Command(c), Untouched(c),
         now' = now, client' = client, lineage \subseteq lineage'
  PROVE  Command(c)'
  <1>1. InTime(c)'
    BY DEF Command, InTime, Untouched
  <1>2. Agents(c)' = Agents(c)
    BY DEF Agents, Untouched
  <1>3. Asking(c)'
    BY <1>2 DEF Command, Asking, Untouched
  <1>4. Reading(c)'
    BY <1>2 DEF Command, Reading, Untouched, Fresh
  <1>5. Bound(c)' <=> Bound(c)
    BY DEF Bound, MayCommit, Untouched
  <1>6. Mapped(c)'
    BY <1>5 DEF Command, Mapped, MappedBy, Untouched
  <1>7. Cleared(c)'
    BY <1>5 DEF Command, Cleared, Untouched, Fresh
  <1>8. Told(c)'
    BY DEF Command, Told, Untouched
  <1> QED
    BY <1>1, <1>3, <1>4, <1>6, <1>7, <1>8 DEF Command

LEMMA StepOfOne ==
  ASSUME IInv, NEW c \in Commands, Types', Permits', Command(c)',
         \A d \in Commands \ {c} : Untouched(d),
         now' = now, client' = client, lineage \subseteq lineage'
  PROVE  IInv'
  BY UntouchedKeeps DEF IInv

LEMMA PermitsShrink ==
  ASSUME Permits, Types, InFlight' \subseteq InFlight
  PROVE  Permits'
  <1>1. /\ IsFiniteSet(InFlight') /\ Cardinality(InFlight') <= Cardinality(InFlight)
        /\ Cardinality(InFlight') \in Nat /\ Cardinality(InFlight) \in Nat
    BY FS_Subset, FS_CardinalityType DEF Permits
  <1>2. MaxInFlight \in Nat
    BY AdmissionAssumption DEF ConfigAccepted
  <1> QED
    BY <1>1, <1>2 DEF Permits

(* No request of a command goes out in a step that starts or ends others. *)
LEMMA NothingSent ==
  ASSUME IInv, \A c \in Commands, q \in Requests : task'[c][q].stage = "sent" => task[c][q].stage = "sent"
  PROVE  Permits'
  <1>1. InFlight' \subseteq InFlight
    BY DEF InFlight
  <1> QED
    BY <1>1, PermitsShrink DEF IInv

LEMMA Names ==
  /\ Unsure \cap Stages = {} /\ "ok" \notin Unsure /\ "ok" \notin Breaks
  /\ "idle" \notin Breaks /\ "wait" \notin Breaks /\ "sent" \notin Breaks
  BY AdmissionAssumption DEF Unsure, Stages, Breaks

LEMMA NotCommitted ==
  ASSUME IInv, NEW c \in Commands, phase[c] \notin {"committing", "done"}
  PROVE  c \notin committed
  BY DEF IInv, Command, Told

-----------------------------------------------------------------------------
(* A command ends.                                                          *)

LEMMA FinishKeeps ==
  ASSUME IInv, NEW c \in Commands, NEW code, Finish(c, code),
         UNCHANGED <<directory, job, start, resolved, committed, evidence>>,
         tries' \in [Commands -> 0..MaxTries], DOMAIN commitBy' = Commands,
         \A d \in Commands \ {c} : commitBy'[d] = commitBy[d],
         code = "ok" => c \in committed, c \in committed => code \in Unsure \cup {"ok"},
         Bound(c)' => Bound(c)
  PROVE  IInv'
  <1>1. /\ phase' = [phase EXCEPT ![c] = "done"] /\ answer' = [answer EXCEPT ![c] = code]
        /\ task' = [task EXCEPT ![c] = [q \in Requests |-> Idle]]
        /\ now' = now /\ client' = client /\ lineage' = lineage /\ changes' = changes
        /\ job' = job /\ start' = start /\ resolved' = resolved /\ committed' = committed
        /\ evidence' = evidence
    BY DEF Finish, Enter, directory
  <1>2. /\ phase \in [Commands -> Phases] /\ DOMAIN answer = Commands
        /\ task \in [Commands -> [Requests -> [stage : Stages, at : Endpoints]]]
    BY DEF IInv, Types
  <1>3. Idle \in [stage : Stages, at : Endpoints] /\ Idle.stage = "idle" /\ "done" \in Phases
    BY DEF Idle, Stages, Endpoints, Phases
  <1>4. phase' \in [Commands -> Phases] /\ DOMAIN answer' = Commands
    BY <1>1, <1>2, <1>3
  <1>5. task' \in [Commands -> [Requests -> [stage : Stages, at : Endpoints]]]
    BY <1>1, <1>2, <1>3
  <1>6. Types'
    BY <1>1, <1>4, <1>5 DEF IInv, Types
  <1>7. /\ phase'[c] = "done" /\ answer'[c] = code
        /\ \A q \in Requests : task'[c][q].stage = "idle"
        /\ \A d \in Commands \ {c} : phase'[d] = phase[d] /\ answer'[d] = answer[d] /\ task'[d] = task[d]
    BY <1>1, <1>2, <1>3
  <1>8. \A d \in Commands \ {c} : Untouched(d)
    BY <1>1, <1>7 DEF Untouched
  <1>9. Permits'
    BY <1>7, NothingSent
  <1>10. Command(c)
    BY DEF IInv
  <1>11. InTime(c)' /\ Asking(c)'
    BY <1>1, <1>7, <1>10 DEF Command, InTime, Asking
  <1>12. Reading(c)'
    BY <1>7 DEF Reading
  <1>13. Mapped(c)'
    <2>1. phase'[c] \notin Ahead
      BY <1>7 DEF Ahead
    <2> QED
      BY <1>1, <1>10, <2>1 DEF Command, Mapped, MappedBy
  <1>14. Cleared(c)'
    BY <1>1, <1>10 DEF Command, Cleared, Fresh
  <1>15. Told(c)'
    BY <1>1, <1>7 DEF Told
  <1>16. Command(c)'
    BY <1>11, <1>12, <1>13, <1>14, <1>15 DEF Command
  <1> QED
    BY <1>1, <1>6, <1>8, <1>9, <1>16, StepOfOne

LEMMA RefusalKeeps ==
  ASSUME IInv, NEW c \in Commands, NEW code, Finish(c, code),
         UNCHANGED <<directory, job, start, tries, commitBy, resolved, committed, evidence>>,
         phase[c] \notin {"committing", "done"}, code \notin Unsure \cup {"ok"}
  PROVE  IInv'
  <1>1. tries' \in [Commands -> 0..MaxTries] /\ DOMAIN commitBy' = Commands
    BY DEF IInv, Types
  <1>2. c \notin committed
    BY NotCommitted
  <1>3. phase'[c] = "done" /\ answer'[c] = code
    BY DEF Finish, Enter, IInv, Types
  <1>4. ~Bound(c)'
    BY <1>2, <1>3 DEF Bound, MayCommit
  <1> QED
    BY <1>1, <1>2, <1>4, FinishKeeps

-----------------------------------------------------------------------------
(* A command goes on, without an answer.                                    *)

LEMMA GoesOn ==
  ASSUME IInv, NEW c \in Commands, NEW ph \in Phases \ {"done"}, Enter(c, ph),
         UNCHANGED <<now, client, lineage, changes, job, answer, committed>>,
         Types', Command(c)',
         \A d \in Commands \ {c} : /\ start'[d] = start[d] /\ commitBy'[d] = commitBy[d]
                                   /\ task'[d] = task[d] /\ resolved'[d] = resolved[d]
                                   /\ evidence'[d] = evidence[d],
         \A q \in Requests : task'[c][q].stage = "sent" => task[c][q].stage = "sent"
  PROVE  IInv'
  <1>1. \A d \in Commands \ {c} : phase'[d] = phase[d]
    BY DEF Enter, IInv, Types
  <1>2. \A d \in Commands \ {c} : Untouched(d)
    BY <1>1 DEF Untouched
  <1>3. Permits'
    BY NothingSent
  <1> QED
    BY <1>2, <1>3, StepOfOne

LEMMA BeginKeeps ==
  ASSUME IInv, NEW c \in Commands, Begin(c)
  PROVE  IInv'
  <1>1. /\ start' = [start EXCEPT ![c] = now] /\ phase' = [phase EXCEPT ![c] = "local"]
        /\ phase[c] = "idle" /\ Enter(c, "local")
        /\ UNCHANGED <<directory, job, tries, commitBy, answer, task, resolved, committed, evidence>>
    BY DEF Begin, Enter
  <1>2. now \in Nat /\ now \in 0..now
    BY DEF IInv, Types
  <1>3. start' \in [Commands -> 0..now'] /\ phase' \in [Commands -> Phases]
    BY <1>1, <1>2 DEF IInv, Types, Phases, directory
  <1>4. Types'
    BY <1>1, <1>3 DEF IInv, Types, directory
  <1>5. /\ phase'[c] = "local" /\ start'[c] = now /\ \A d \in Commands \ {c} : start'[d] = start[d]
    BY <1>1 DEF IInv, Types
  <1>6. Command(c) /\ c \notin committed
    BY <1>1, NotCommitted DEF IInv
  <1>7. \A q \in Requests : task'[c][q].stage \notin {"wait", "sent"}
    BY <1>1, <1>6 DEF Command, Asking
  <1>8. Command(c)'
    BY <1>1, <1>2, <1>5, <1>6, <1>7
    DEF Command, InTime, Asking, Reading, Mapped, Cleared, Told, Bound, MayCommit, Ahead, directory
  <1> QED
    BY <1>1, <1>4, <1>5, <1>8, GoesOn DEF directory, Phases

(* What the local resolution returns. *)
LEMMA ResolutionSound ==
  ASSUME NEW j, j \in [kind : Kinds, assignee : Principals \cup {Absent},
                       input : Principals \cup {Absent, Malformed}],
         lineage \subseteq Edges, NEW p \in Targets(j), LocalError(j, p) = "none"
  PROVE  /\ p \in Principals /\ Resolution(p).canonical \in Principals
         /\ Resolution(p).canonical # p =>
              /\ j.kind = "RETURN" /\ p \in History /\ Kind[Resolution(p).canonical] = "AGENT"
              /\ Resolution(p).agent # "any"
              /\ [from |-> p, to |-> Resolution(p).canonical, agent |-> Resolution(p).agent] \in lineage
  <1> DEFINE q == Canonical(p)
  <1>1. p \in Principals
    BY DEF Targets, InputPrincipals
  <1>2. Resolution(p).canonical = q
    BY DEF Resolution
  <1>3. CASE q = p
    BY <1>1, <1>2, <1>3
  <1>4. CASE q # p
    <2>1. Successor(p) # {} /\ q = (CHOOSE e \in Successor(p) : TRUE).to
      BY <1>4 DEF Canonical
    <2>2. PICK e : e = (CHOOSE x \in Successor(p) : TRUE) /\ e \in Successor(p)
      BY <2>1
    <2>3. e \in lineage /\ e.from = p /\ e.to = q
      BY <2>1, <2>2 DEF Successor
    <2>4. e \in [from : Principals, to : Principals, agent : {AgentOf[x] : x \in Principals}]
      BY <2>3, AdmissionAssumption
    <2>5. e.agent # "any" /\ q \in Principals /\ e = [from |-> p, to |-> q, agent |-> e.agent]
      BY <2>3, <2>4, AdmissionAssumption
    <2>6. Resolution(p).agent = e.agent
      BY <1>4, <2>2 DEF Resolution
    <2>7. j.kind = "RETURN" /\ p \in History /\ Kind[q] = "AGENT"
      BY <1>4 DEF LocalError
    <2> QED
      BY <1>1, <1>2, <2>3, <2>5, <2>6, <2>7
  <1> QED
    BY <1>3, <1>4

LEMMA ResolveKeeps ==
  ASSUME IInv, NEW c \in Commands, Resolve(c)
  PROVE  IInv'
  <1> DEFINE bad == {p \in Targets(job[c]) : LocalError(job[c], p) # "none"}
  <1>1. /\ phase[c] = "local"
        /\ UNCHANGED <<directory, job, start, tries, commitBy, committed, evidence>>
    BY DEF Resolve
  <1>2. CASE Finish(c, "invalid_input") /\ UNCHANGED resolved
    BY <1>1, <1>2, RefusalKeeps DEF Unsure
  <1>3. CASE Finish(c, LocalError(job[c], Min(bad))) /\ UNCHANGED resolved /\ bad # {}
    <2>1. bad # {} => LocalError(job[c], Min(bad)) \in
            {"none", "admission_legacy_input", "admission_rejected", "admission_target_disabled"}
      BY DEF LocalError
    <2> QED
      BY <1>1, <1>3, <2>1, RefusalKeeps DEF Unsure
  <1>4. CASE /\ resolved' = [resolved EXCEPT ![c] = [p \in Targets(job[c]) |-> Resolution(p)]]
             /\ Enter(c, "observe") /\ UNCHANGED <<answer, task>> /\ bad = {}
    <2>1. /\ resolved'[c] = [p \in Targets(job[c]) |-> Resolution(p)]
          /\ \A d \in Commands \ {c} : resolved'[d] = resolved[d]
          /\ phase'[c] = "observe" /\ phase' \in [Commands -> Phases]
          /\ DOMAIN resolved' = Commands
      BY <1>4 DEF Enter, IInv, Types, Phases
    <2>2. Types'
      BY <1>1, <1>4, <2>1 DEF IInv, Types, directory
    <2>3. Command(c) /\ c \notin committed
      BY <1>1, NotCommitted DEF IInv
    <2>4. \A q \in Requests : task'[c][q].stage \notin {"wait", "sent"}
      BY <1>1, <1>4, <2>3 DEF Command, Asking
    <2>5. /\ job[c] \in [kind : Kinds, assignee : Principals \cup {Absent},
                         input : Principals \cup {Absent, Malformed}]
          /\ lineage \subseteq Edges
      BY AdmissionAssumption DEF IInv, Types
    <2>6. Mapped(c)'
      <3> SUFFICES ASSUME NEW p \in DOMAIN resolved'[c]
                   PROVE  /\ p \in Principals /\ resolved'[c][p].canonical \in Principals
                          /\ MappedBy(c, p, resolved[c][p].canonical, resolved[c][p].agent)'
        BY DEF Mapped
      <3>1. p \in Targets(job[c]) /\ resolved'[c][p] = Resolution(p)
        BY <2>1
      <3>2. LocalError(job[c], p) = "none"
        BY <1>4, <3>1
      <3>3. /\ p \in Principals /\ Resolution(p).canonical \in Principals
            /\ MappedBy(c, p, Resolution(p).canonical, Resolution(p).agent)
        BY <2>5, <3>1, <3>2, ResolutionSound DEF MappedBy
      <3> QED
        BY <1>1, <3>1, <3>3 DEF MappedBy, directory
    <2>7. InTime(c)' /\ Asking(c)' /\ Reading(c)'
      BY <1>1, <1>4, <2>1, <2>3, <2>4 DEF Command, InTime, Asking, Reading, directory
    <2>8. Cleared(c)' /\ Told(c)'
      BY <1>1, <2>1, <2>3 DEF Cleared, Bound, MayCommit, Told
    <2> QED
      BY <1>1, <1>4, <2>1, <2>2, <2>6, <2>7, <2>8, GoesOn DEF directory, Phases, Command
  <1> QED
    BY <1>1, <1>2, <1>3, <1>4 DEF Resolve

LEMMA AgentsArePrincipals ==
  ASSUME NEW c \in Commands, Mapped(c), phase[c] \in Ahead
  PROVE  Agents(c) \subseteq Principals
  BY DEF Mapped, Agents

LEMMA AskedTypes ==
  ASSUME NEW c \in Commands, NEW e \in Endpoints
  PROVE  /\ Asked(c, e) \in [stage : Stages, at : Endpoints]
         /\ Asked(c, e).stage \in {"wait", "admission_timeout"} /\ Asked(c, e).at = e
  BY DEF Asked, Stages, Breaks

(* A command whose agents are all in order has cleared its admission. *)
LEMMA ClearedByReads ==
  ASSUME NEW c \in Commands, Mapped(c), phase[c] \in Ahead,
         Agents(c) # {} => client,
         \A q \in Agents(c) : Fresh(c, q),
         Agents(c) # {} => Mismatched(c) = {}
  PROVE  \A p \in DOMAIN resolved[c] :
           LET q == resolved[c][p].canonical IN
           /\ Kind[q] # "HUMAN" => client /\ Fresh(c, q)
           /\ q # p => resolved[c][p].agent = AgentOf[q]
  <1> TAKE p \in DOMAIN resolved[c]
  <1> DEFINE q == resolved[c][p].canonical
  <1>1. MappedBy(c, p, q, resolved[c][p].agent)
    BY DEF Mapped
  <1>2. ASSUME Kind[q] # "HUMAN" PROVE q \in Agents(c)
    BY <1>2 DEF Agents
  <1>3. ASSUME q # p PROVE resolved[c][p].agent = AgentOf[q]
    <2>1. Kind[q] = "AGENT" /\ resolved[c][p].agent # "any"
      BY <1>1, <1>3 DEF MappedBy
    <2>2. p \notin Mismatched(c)
      BY <1>2, <2>1
    <2> QED
      BY <2>1, <2>2 DEF Mismatched
  <1> QED
    BY <1>2, <1>3

LEMMA FetchTokensKeeps ==
  ASSUME IInv, NEW c \in Commands, FetchTokens(c)
  PROVE  IInv'
  <1>1. /\ phase[c] = "observe"
        /\ UNCHANGED <<directory, job, start, tries, commitBy, resolved, committed, evidence>>
    BY DEF FetchTokens
  <1>2. Command(c) /\ c \notin committed
    BY <1>1, NotCommitted DEF IInv
  <1>3. \A q \in Requests : task[c][q].stage \notin {"wait", "sent"}
    BY <1>1, <1>2 DEF Command, Asking
  <1>4. Agents(c)' = Agents(c)
    BY <1>1 DEF Agents
  <1>5. Mapped(c)'
    BY <1>1, <1>2 DEF Command, Mapped, MappedBy, Ahead, directory
  <1>6. CASE Agents(c) = {} /\ Enter(c, "work") /\ UNCHANGED <<answer, task>>
    <2>1. phase'[c] = "work" /\ phase' \in [Commands -> Phases]
      BY <1>6 DEF Enter, IInv, Types, Phases
    <2>2. Types'
      BY <1>1, <1>6, <2>1 DEF IInv, Types, directory
    <2>3. \A p \in DOMAIN resolved[c] :
            LET q == resolved[c][p].canonical IN
            /\ Kind[q] # "HUMAN" => client /\ Fresh(c, q)
            /\ q # p => resolved[c][p].agent = AgentOf[q]
      BY <1>1, <1>2, <1>6, ClearedByReads DEF Command, Ahead
    <2>4. Cleared(c)'
      BY <1>1, <2>3 DEF Cleared, Fresh, directory
    <2>5. InTime(c)' /\ Asking(c)' /\ Reading(c)' /\ Told(c)'
      BY <1>1, <1>2, <1>3, <1>6, <2>1 DEF Command, InTime, Asking, Reading, Told, directory
    <2> QED
      BY <1>1, <1>5, <1>6, <2>1, <2>2, <2>4, <2>5, GoesOn DEF directory, Phases, Command
  <1>7. CASE Finish(c, "admission_unavailable")
    BY <1>1, <1>7, RefusalKeeps DEF Unsure
  <1>8. CASE /\ client /\ Enter(c, "tokens") /\ UNCHANGED answer
             /\ task' = [task EXCEPT ![c][AuthToken] = Asked(c, "token")]
    <2>1. phase'[c] = "tokens" /\ phase' \in [Commands -> Phases]
      BY <1>8 DEF Enter, IInv, Types, Phases
    <2>2. AuthToken \in Requests /\ "token" \in Endpoints
      BY DEF Requests, Tokens, Endpoints
    <2>3. task \in [Commands -> [Requests -> [stage : Stages, at : Endpoints]]]
      BY DEF IInv, Types
    <2>4. /\ task' \in [Commands -> [Requests -> [stage : Stages, at : Endpoints]]]
          /\ \A d \in Commands \ {c} : task'[d] = task[d]
      BY <1>8, <2>2, <2>3, AskedTypes
    <2>5. \A q \in Requests : task'[c][q].stage # "sent"
      BY <1>3, <1>8, <2>2, <2>3, AskedTypes
    <2>6. Types'
      BY <1>1, <1>8, <2>1, <2>4 DEF IInv, Types, directory
    <2>7. InTime(c)' /\ Asking(c)' /\ Reading(c)' /\ Told(c)' /\ Cleared(c)'
      BY <1>1, <1>2, <1>8, <2>1, <2>5
      DEF Command, InTime, Asking, Reading, Told, Cleared, Bound, MayCommit, directory
    <2> QED
      BY <1>1, <1>5, <1>8, <2>1, <2>4, <2>5, <2>6, <2>7, GoesOn DEF directory, Phases, Command
  <1> QED
    BY <1>6, <1>7, <1>8 DEF FetchTokens

LEMMA FailureIsNoDoubt ==
  ASSUME IInv, NEW c \in Commands, NEW q \in Requests, Failed(c, q)
  PROVE  task[c][q].stage \notin Unsure \cup {"ok"}
  <1>1. task[c][q].stage \in Stages
    BY DEF IInv, Types
  <1> QED
    BY <1>1, Names DEF Failed

LEMMA NextTokenKeeps ==
  ASSUME IInv, NEW c \in Commands, NextToken(c)
  PROVE  IInv'
  <1>1. /\ phase[c] = "tokens"
        /\ UNCHANGED <<directory, job, start, tries, commitBy, resolved, committed, evidence>>
    BY DEF NextToken
  <1>2. Command(c) /\ c \notin committed /\ client
    BY <1>1, NotCommitted DEF IInv, Command, Reading
  <1>3. Agents(c)' = Agents(c)
    BY <1>1 DEF Agents
  <1>4. Agents(c) \subseteq Principals
    BY <1>1, <1>2, AgentsArePrincipals DEF Command, Ahead
  <1>5. Mapped(c)'
    BY <1>1, <1>2 DEF Command, Mapped, MappedBy, Ahead, directory
  <1>6. task \in [Commands -> [Requests -> [stage : Stages, at : Endpoints]]]
    BY DEF IInv, Types
  <1>7. "token" \in Endpoints /\ "auth" \in Endpoints /\ CoreToken \in Requests
    BY DEF Endpoints, Requests, Tokens
  <1>8. ASSUME NEW q \in Tokens, Failed(c, q), Finish(c, task[c][q].stage)
        PROVE  IInv'
    <2>1. q \in Requests
      BY DEF Requests
    <2> QED
      BY <1>1, <1>8, <2>1, FailureIsNoDoubt, RefusalKeeps
  <1>9. CASE /\ task' = [task EXCEPT ![c][CoreToken] = Asked(c, "token")]
             /\ UNCHANGED <<phase, answer>>
    <2>1. /\ task' \in [Commands -> [Requests -> [stage : Stages, at : Endpoints]]]
          /\ \A d \in Commands \ {c} : task'[d] = task[d]
      BY <1>6, <1>7, <1>9, AskedTypes
    <2>2. \A q \in Requests : task'[c][q].stage = "sent" => task[c][q].stage = "sent"
      BY <1>6, <1>7, <1>9, AskedTypes
    <2>3. Types'
      BY <1>1, <1>9, <2>1 DEF IInv, Types, directory
    <2>4. InTime(c)' /\ Asking(c)' /\ Reading(c)' /\ Told(c)' /\ Cleared(c)'
      BY <1>1, <1>2, <1>9, <2>2
      DEF Command, InTime, Asking, Reading, Told, Cleared, Bound, MayCommit, directory
    <2>5. Enter(c, "tokens")
      BY <1>1, <1>9 DEF Enter, IInv, Types
    <2> QED
      BY <1>1, <1>5, <1>9, <2>1, <2>2, <2>3, <2>4, <2>5, GoesOn DEF directory, Phases, Command
  <1>10. CASE /\ Enter(c, "reads") /\ UNCHANGED answer
              /\ task' = [task EXCEPT ![c] = [r \in Requests |->
                            IF r \in Agents(c) THEN Asked(c, "auth") ELSE Idle]]
    <2>1. phase'[c] = "reads" /\ phase' \in [Commands -> Phases]
      BY <1>10 DEF Enter, IInv, Types, Phases
    <2>2. Idle \in [stage : Stages, at : Endpoints] /\ Idle.stage = "idle"
      BY DEF Idle, Stages, Endpoints
    <2>3. [r \in Requests |-> IF r \in Agents(c) THEN Asked(c, "auth") ELSE Idle]
            \in [Requests -> [stage : Stages, at : Endpoints]]
      BY <1>7, <2>2, AskedTypes
    <2>4. /\ task' \in [Commands -> [Requests -> [stage : Stages, at : Endpoints]]]
          /\ \A d \in Commands \ {c} : task'[d] = task[d]
      BY <1>6, <1>10, <2>3
    <2>5. task'[c] = [r \in Requests |-> IF r \in Agents(c) THEN Asked(c, "auth") ELSE Idle]
      BY <1>6, <1>10
    <2>6. \A q \in Requests :
            /\ task'[c][q].stage \notin {"sent", "ok"}
            /\ task'[c][q].stage = "wait" => q \in Agents(c)
      BY <1>7, <2>2, <2>5, AskedTypes
    <2>7. \A q \in Agents(c) : q \in Requests /\ task'[c][q] = Asked(c, "auth")
      BY <1>4, <2>5 DEF Requests
    <2>8. Types'
      BY <1>1, <1>10, <2>1, <2>4 DEF IInv, Types, directory
    <2>9. InTime(c)' /\ Told(c)' /\ Cleared(c)'
      BY <1>1, <1>2, <1>10, <2>1, <2>6
      DEF Command, InTime, Told, Cleared, Bound, MayCommit, directory
    <2>10. Reading(c)'
      BY <1>1, <1>2, <1>3, <1>7, <2>1, <2>6, <2>7, AskedTypes DEF Reading, directory
    <2>11. Asking(c)'
      BY <1>3, <2>1, <2>6 DEF Asking
    <2>12. \A q \in Requests : task'[c][q].stage = "sent" => task[c][q].stage = "sent"
      BY <2>6
    <2> QED
      BY <1>1, <1>5, <1>10, <2>1, <2>4, <2>8, <2>9, <2>10, <2>11, <2>12, GoesOn
      DEF directory, Phases, Command
  <1> QED
    BY <1>8, <1>9, <1>10 DEF NextToken

-----------------------------------------------------------------------------
(* Requests.                                                                *)

LEMMA DeadlineType == Deadline \in Int
  BY AdmissionAssumption DEF ConfigAccepted

(* One request of a command moves; nothing else of any command does. *)
LEMMA RequestKeeps ==
  ASSUME IInv, NEW c \in Commands, NEW q \in Requests,
         NEW t \in [stage : Stages, at : Endpoints],
         task[c][q].stage \in {"wait", "sent"}, task' = [task EXCEPT ![c][q] = t],
         UNCHANGED <<directory, job, start, phase, tries, commitBy, answer, resolved, committed>>,
         evidence' \in [Commands -> [Principals -> [auth : Int, core : Int]]],
         \A d \in Commands, p \in Principals : d # c \/ p # q => evidence'[d][p] = evidence[d][p],
         Permits', t.stage = "sent" => Remaining(c) > 0 \/ task[c][q].stage = "sent",
         phase[c] = "reads" =>
           /\ t.stage # "idle" /\ t.at \in {"auth", "core"}
           /\ t.at = "core" => start[c] <= evidence'[c][q].auth /\ evidence'[c][q].auth <= now
           /\ t.stage = "ok" => t.at = "core" /\ Fresh(c, q)'
  PROVE  IInv'
  <1>1. task \in [Commands -> [Requests -> [stage : Stages, at : Endpoints]]]
    BY DEF IInv, Types
  <1>2. /\ task' \in [Commands -> [Requests -> [stage : Stages, at : Endpoints]]]
        /\ \A d \in Commands \ {c} : task'[d] = task[d]
        /\ task'[c][q] = t /\ \A r \in Requests \ {q} : task'[c][r] = task[c][r]
    BY <1>1
  <1>3. Types'
    BY <1>2 DEF IInv, Types, directory
  <1>4. /\ evidence \in [Commands -> [Principals -> [auth : Int, core : Int]]]
        /\ now \in Int /\ start[c] \in Int /\ Deadline \in Int
    <2>1. Types
      BY DEF IInv
    <2>2. /\ evidence \in [Commands -> [Principals -> [auth : Int, core : Int]]]
          /\ now \in Int /\ start[c] \in Int
      BY <2>1 DEF Types
    <2> QED
      BY <2>2, DeadlineType
  <1>5. Command(c) /\ c \in Commands
    BY DEF IInv
  <1>6. \A d \in Commands \ {c} : Untouched(d)
    <2> SUFFICES ASSUME NEW d \in Commands \ {c} PROVE Untouched(d)
      OBVIOUS
    <2>1. evidence'[d] = evidence[d]
      BY <1>4
    <2> QED
      BY <1>2, <2>1 DEF Untouched
  <1>7. Agents(c)' = Agents(c)
    BY DEF Agents
  <1>8. phase[c] = "tokens" \/ (phase[c] = "reads" /\ q \in Agents(c))
    BY <1>5 DEF Command, Asking
  <1>9. c \notin committed /\ Agents(c) \subseteq Principals
    BY <1>5, <1>8, NotCommitted, AgentsArePrincipals DEF Command, Ahead
  <1>10. InTime(c)'
    <2>1. t.stage = "sent" => now <= start[c] + Deadline
      BY <1>4, <1>5 DEF Command, InTime, Remaining
    <2> QED
      BY <1>2, <1>5, <2>1 DEF Command, InTime, directory
  <1>11. Asking(c)'
    BY <1>2, <1>5, <1>7, <1>8 DEF Command, Asking
  <1>12. Reading(c)'
    <2>1. phase'[c] \in {"tokens", "reads"} => client'
      BY <1>5 DEF Command, Reading, directory
    <2>2. ASSUME phase[c] = "reads", NEW r \in Agents(c)
          PROVE  /\ task'[c][r].stage # "idle" /\ task'[c][r].at \in {"auth", "core"}
                 /\ task'[c][r].at = "core" =>
                      start[c] <= evidence'[c][r].auth /\ evidence'[c][r].auth <= now
                 /\ task'[c][r].stage = "ok" => task'[c][r].at = "core" /\ Fresh(c, r)'
      <3>1. CASE r = q
        BY <1>2, <2>2, <3>1
      <3>2. CASE r # q
        <4>1. r \in Requests /\ task'[c][r] = task[c][r] /\ evidence'[c][r] = evidence[c][r]
          BY <1>2, <1>9, <2>2, <3>2 DEF Requests
        <4> QED
          BY <1>5, <2>2, <4>1 DEF Command, Reading, Fresh, directory
      <3> QED
        BY <3>1, <3>2
    <2> QED
      BY <1>7, <2>1, <2>2 DEF Reading, directory
  <1>13. Mapped(c)'
    BY <1>5, <1>8 DEF Command, Mapped, MappedBy, Ahead, directory
  <1>14. Cleared(c)' /\ Told(c)'
    BY <1>8, <1>9 DEF Cleared, Bound, MayCommit, Told
  <1>15. Command(c)'
    BY <1>10, <1>11, <1>12, <1>13, <1>14 DEF Command
  <1> QED
    BY <1>3, <1>6, <1>15, StepOfOne DEF directory

(* A step that sends nothing leaves the permits within their bound. *)
LEMMA OneMovedOn ==
  ASSUME IInv, NEW c \in Commands, NEW q \in Requests,
         NEW t \in [stage : Stages, at : Endpoints], t.stage # "sent",
         task' = [task EXCEPT ![c][q] = t]
  PROVE  Permits'
  <1>1. task \in [Commands -> [Requests -> [stage : Stages, at : Endpoints]]]
    BY DEF IInv, Types
  <1>2. \A d \in Commands, r \in Requests : task'[d][r].stage = "sent" => task[d][r].stage = "sent"
    BY <1>1
  <1> QED
    BY <1>2, NothingSent

LEMMA GetPermitKeeps ==
  ASSUME IInv, NEW c \in Commands, NEW q \in Requests, GetPermit(c, q)
  PROVE  IInv'
  <1> DEFINE t == [task[c][q] EXCEPT !.stage = IF Remaining(c) = 0 THEN "admission_timeout" ELSE "sent"]
  <1>1. /\ task[c][q].stage = "wait" /\ Cardinality(InFlight) < MaxInFlight
        /\ task' = [task EXCEPT ![c][q] = t]
        /\ UNCHANGED <<directory, job, start, phase, tries, commitBy, answer, resolved, committed, evidence>>
    BY DEF GetPermit
  <1>2. task[c][q] \in [stage : Stages, at : Endpoints]
    BY DEF IInv, Types
  <1>3. /\ t \in [stage : Stages, at : Endpoints] /\ t.at = task[c][q].at
        /\ t.stage = IF Remaining(c) = 0 THEN "admission_timeout" ELSE "sent"
    BY <1>2 DEF Stages, Breaks
  <1>4. now \in Int /\ start[c] \in Int /\ Deadline \in Int
    BY AdmissionAssumption DEF IInv, Types, ConfigAccepted
  <1>5. t.stage = "sent" => Remaining(c) > 0
    BY <1>3, <1>4 DEF Remaining
  <1>6. Permits'
    <2>1. task \in [Commands -> [Requests -> [stage : Stages, at : Endpoints]]]
      BY DEF IInv, Types
    <2>2. \A d \in Commands, r \in Requests :
            task'[d][r].stage = "sent" => task[d][r].stage = "sent" \/ (d = c /\ r = q)
      BY <1>1, <1>3, <2>1
    <2>3. InFlight' \subseteq InFlight \cup {<<c, q>>}
      BY <2>2 DEF InFlight
    <2>4. IsFiniteSet(InFlight) /\ <<c, q>> \notin InFlight
      BY <1>1 DEF IInv, Permits, InFlight
    <2>5. /\ IsFiniteSet(InFlight \cup {<<c, q>>})
          /\ Cardinality(InFlight \cup {<<c, q>>}) = Cardinality(InFlight) + 1
      BY <2>4, FS_AddElement
    <2>6. /\ IsFiniteSet(InFlight') /\ Cardinality(InFlight') <= Cardinality(InFlight \cup {<<c, q>>})
          /\ Cardinality(InFlight) \in Nat /\ Cardinality(InFlight') \in Nat
      BY <2>3, <2>4, <2>5, FS_Subset, FS_CardinalityType
    <2>7. MaxInFlight \in Nat
      BY AdmissionAssumption DEF ConfigAccepted
    <2> QED
      BY <1>1, <2>5, <2>6, <2>7 DEF Permits
  <1>7. Command(c) /\ evidence \in [Commands -> [Principals -> [auth : Int, core : Int]]]
    BY DEF IInv, Types
  <1>8. phase[c] = "reads" =>
           /\ t.stage # "idle" /\ t.at \in {"auth", "core"} /\ t.stage # "ok"
           /\ t.at = "core" => start[c] <= evidence[c][q].auth /\ evidence[c][q].auth <= now
    BY <1>1, <1>3, <1>7 DEF Command, Reading, Asking
  <1> HIDE DEF t
  <1> QED
    BY <1>1, <1>3, <1>5, <1>6, <1>7, <1>8, RequestKeeps

LEMMA BreakKeeps ==
  ASSUME IInv, NEW c \in Commands, NEW q \in Requests, NEW error \in Breaks, Break(c, q, error)
  PROVE  IInv'
  <1> DEFINE t == [task[c][q] EXCEPT !.stage = error]
  <1>1. /\ task[c][q].stage = "sent" /\ task' = [task EXCEPT ![c][q] = t]
        /\ UNCHANGED <<directory, job, start, phase, tries, commitBy, answer, resolved, committed, evidence>>
    BY DEF Break
  <1>2. task[c][q] \in [stage : Stages, at : Endpoints]
    BY DEF IInv, Types
  <1>3. t \in [stage : Stages, at : Endpoints] /\ t.at = task[c][q].at /\ t.stage = error
    BY <1>2 DEF Stages
  <1>4. t.stage \notin {"idle", "sent", "ok"}
    BY <1>3, Names
  <1>5. Command(c) /\ evidence \in [Commands -> [Principals -> [auth : Int, core : Int]]]
    BY DEF IInv, Types
  <1>6. phase[c] = "reads" =>
           /\ t.at \in {"auth", "core"}
           /\ t.at = "core" => start[c] <= evidence[c][q].auth /\ evidence[c][q].auth <= now
    BY <1>1, <1>3, <1>5 DEF Command, Reading, Asking
  <1> HIDE DEF t
  <1>7. Permits'
    BY <1>1, <1>3, <1>4, OneMovedOn
  <1> QED
    BY <1>1, <1>3, <1>4, <1>5, <1>6, <1>7, RequestKeeps

LEMMA AnswerKeeps ==
  ASSUME IInv, NEW c \in Commands, NEW q \in Requests, Answer(c, q)
  PROVE  IInv'
  <1> DEFINE out == Outcome(c, q)
             t == IF out = "next" THEN Asked(c, "core") ELSE [task[c][q] EXCEPT !.stage = out]
             ev == IF task[c][q].at = "auth" THEN [evidence[c][q] EXCEPT !.auth = now]
                   ELSE [evidence[c][q] EXCEPT !.core = now]
  <1>1. /\ task[c][q].stage = "sent"
        /\ UNCHANGED <<directory, job, start, phase, tries, commitBy, answer, resolved, committed>>
    BY DEF Answer
  <1>2. task' = [task EXCEPT ![c][q] = t]
    BY DEF Answer
  <1>3. evidence' = IF q \in Tokens \/ out \notin {"next", "ok"} THEN evidence
                    ELSE [evidence EXCEPT ![c][q] = ev]
    BY DEF Answer
  <1>4. /\ task[c][q] \in [stage : Stages, at : Endpoints]
        /\ evidence \in [Commands -> [Principals -> [auth : Int, core : Int]]]
        /\ now \in Int /\ start[c] \in Int /\ Deadline \in Int /\ Command(c)
    BY AdmissionAssumption DEF IInv, Types, ConfigAccepted
  <1>5. /\ task[c][q].at = "token" => out = "ok"
        /\ task[c][q].at = "auth" => out \in {"next", "admission_target_disabled"}
        /\ task[c][q].at = "core" => out \in {"ok", "admission_rejected", "admission_target_disabled"}
    BY <1>4 DEF Outcome
  <1>6. out \in {"next", "ok", "admission_rejected", "admission_target_disabled"}
    BY <1>4, <1>5 DEF Endpoints
  <1> HIDE DEF out
  <1>7. "core" \in Endpoints
    BY DEF Endpoints
  <1>8. out # "next" => /\ t \in [stage : Stages, at : Endpoints]
                        /\ t.stage = out /\ t.at = task[c][q].at
    BY <1>4, <1>6 DEF Stages
  <1>9. out = "next" => /\ t \in [stage : Stages, at : Endpoints]
                        /\ t.stage \in {"wait", "admission_timeout"} /\ t.at = "core"
    BY <1>7, AskedTypes
  <1>10. t.stage # "sent" /\ t.stage # "idle"
    BY <1>6, <1>8, <1>9
  <1>11. q \in Principals =>
           /\ ev \in [auth : Int, core : Int]
           /\ task[c][q].at = "auth" => ev.auth = now
           /\ task[c][q].at # "auth" => ev.core = now /\ ev.auth = evidence[c][q].auth
    BY <1>4
  <1> HIDE DEF t, ev
  <1>12. Permits'
    BY <1>2, <1>8, <1>9, <1>10, OneMovedOn
  <1>13. q \notin Tokens => q \in Principals
    BY DEF Requests
  <1>14. evidence' \in [Commands -> [Principals -> [auth : Int, core : Int]]]
    BY <1>3, <1>4, <1>11, <1>13
  <1>15. \A d \in Commands, p \in Principals : d # c \/ p # q => evidence'[d][p] = evidence[d][p]
    BY <1>3, <1>4, <1>13
  <1>16. start[c] <= now /\ now <= start[c] + Deadline
    BY <1>1, <1>4 DEF Command, InTime
  <1>17. ASSUME phase[c] = "reads"
         PROVE  /\ t.at \in {"auth", "core"}
                /\ t.at = "core" => start[c] <= evidence'[c][q].auth /\ evidence'[c][q].auth <= now
                /\ t.stage = "ok" => t.at = "core" /\ Fresh(c, q)'
    <2>1. q \in Agents(c)
      BY <1>1, <1>4, <1>17 DEF Command, Asking
    <2>2. q \in Principals /\ q \notin Tokens
      BY <1>4, <1>17, <2>1, AgentsArePrincipals, AdmissionAssumption
      DEF Command, Ahead, Tokens, AuthToken, CoreToken
    <2>3. /\ task[c][q].at \in {"auth", "core"}
          /\ task[c][q].at = "core" => start[c] <= evidence[c][q].auth /\ evidence[c][q].auth <= now
      BY <1>4, <1>17, <2>1 DEF Command, Reading
    <2>4. evidence'[c][q] = IF out \in {"next", "ok"} THEN ev ELSE evidence[c][q]
      BY <1>3, <1>4, <2>2
    <2>5. CASE task[c][q].at = "auth"
      BY <1>5, <1>8, <1>9, <1>11, <1>16, <2>2, <2>4, <2>5
    <2>6. CASE task[c][q].at = "core"
      <3>1. out # "next" /\ t.stage = out /\ t.at = "core"
        BY <1>5, <1>8, <2>6
      <3>2. start[c] <= evidence'[c][q].auth /\ evidence'[c][q].auth <= now
        BY <1>11, <2>2, <2>3, <2>4, <2>6
      <3>3. out = "ok" => evidence'[c][q].core = now
        BY <1>11, <2>2, <2>4, <2>6
      <3>4. out = "ok" => Fresh(c, q)'
        BY <1>1, <1>16, <3>2, <3>3 DEF Fresh
      <3> QED
        BY <3>1, <3>2, <3>4
    <2> QED
      BY <2>3, <2>5, <2>6
  <1>18. t \in [stage : Stages, at : Endpoints]
    BY <1>8, <1>9
  <1> QED
    BY <1>1, <1>2, <1>10, <1>12, <1>14, <1>15, <1>17, <1>18, RequestKeeps

LEMMA LeastIsThere ==
  ASSUME NEW S \in SUBSET Nat, S # {}
  PROVE  Min(S) \in S
  <1> DEFINE R == OpToRel(<, Nat)
  <1>1. IsWellFoundedOn(R, Nat)
    BY NatLessThanWellFounded
  <1> HIDE DEF R
  <1>2. PICK n \in S : \A m \in S : <<m, n>> \notin R
    BY <1>1, WFMin
  <1>3. \A m \in S : n <= m
    <2> TAKE m \in S
    <2>1. m \in Nat /\ n \in Nat
      OBVIOUS
    <2>2. m < n => <<m, n>> \in R
      BY <2>1 DEF R, OpToRel
    <2> QED
      BY <1>2, <2>1, <2>2
  <1> QED
    BY <1>3 DEF Min

LEMMA JoinKeeps ==
  ASSUME IInv, NEW c \in Commands, Join(c)
  PROVE  IInv'
  <1> DEFINE failed == {q \in Agents(c) : Failed(c, q)}
  <1>1. /\ phase[c] = "reads" /\ \A q \in Agents(c) : task[c][q].stage \notin {"wait", "sent"}
        /\ UNCHANGED <<directory, job, start, tries, commitBy, resolved, committed, evidence>>
    BY DEF Join
  <1>2. Command(c) /\ c \notin committed /\ client
    BY <1>1, NotCommitted DEF IInv, Command, Reading
  <1>3. Agents(c) \subseteq Principals
    BY <1>1, <1>2, AgentsArePrincipals DEF Command, Ahead
  <1>4. CASE failed # {} /\ Finish(c, task[c][Min(failed)].stage)
    <2>1. failed \in SUBSET Nat
      BY <1>3, AdmissionAssumption
    <2>2. Min(failed) \in failed
      BY <1>4, <2>1, LeastIsThere
    <2>3. Min(failed) \in Requests /\ Failed(c, Min(failed))
      BY <1>3, <2>2 DEF Requests
    <2> QED
      BY <1>1, <1>4, <2>3, FailureIsNoDoubt, RefusalKeeps
  <1>5. CASE Finish(c, "admission_rejected")
    BY <1>1, <1>5, RefusalKeeps DEF Unsure
  <1>6. CASE /\ failed = {} /\ Mismatched(c) = {}
             /\ Enter(c, "work") /\ UNCHANGED <<answer, task>>
    <2>1. phase'[c] = "work" /\ phase' \in [Commands -> Phases]
      BY <1>6 DEF Enter, IInv, Types, Phases
    <2>2. Types'
      BY <1>1, <1>6, <2>1 DEF IInv, Types, directory
    <2>3. \A q \in Agents(c) : Fresh(c, q)
      BY <1>1, <1>2, <1>6 DEF Command, Reading, Failed
    <2>4. \A p \in DOMAIN resolved[c] :
            LET q == resolved[c][p].canonical IN
            /\ Kind[q] # "HUMAN" => client /\ Fresh(c, q)
            /\ q # p => resolved[c][p].agent = AgentOf[q]
      BY <1>1, <1>2, <1>6, <2>3, ClearedByReads DEF Command, Ahead
    <2>5. Cleared(c)'
      BY <1>1, <2>4 DEF Cleared, Fresh, directory
    <2>6. Mapped(c)'
      BY <1>1, <1>2 DEF Command, Mapped, MappedBy, Ahead, directory
    <2>7. \A q \in Requests : task'[c][q].stage \notin {"wait", "sent"}
      BY <1>1, <1>2, <1>6 DEF Command, Asking
    <2>8. InTime(c)' /\ Asking(c)' /\ Reading(c)' /\ Told(c)'
      BY <1>1, <1>2, <2>1, <2>7 DEF InTime, Command, Asking, Reading, Told, directory
    <2> QED
      BY <1>1, <1>6, <2>1, <2>2, <2>5, <2>6, <2>8, GoesOn DEF directory, Phases, Command
  <1> QED
    BY <1>4, <1>5, <1>6 DEF Join

-----------------------------------------------------------------------------
(* The commit.                                                              *)

LEMMA CheckBudgetKeeps ==
  ASSUME IInv, NEW c \in Commands, CheckBudget(c)
  PROVE  IInv'
  <1>1. /\ phase[c] = "work"
        /\ UNCHANGED <<directory, job, start, tries, commitBy, resolved, committed, evidence>>
    BY DEF CheckBudget
  <1>2. CASE Finish(c, "admission_timeout")
    BY <1>1, <1>2, RefusalKeeps DEF Unsure
  <1>3. CASE Enter(c, "checked") /\ UNCHANGED <<answer, task>>
    <2>1. phase'[c] = "checked" /\ phase' \in [Commands -> Phases]
      BY <1>3 DEF Enter, IInv, Types, Phases
    <2>2. Types'
      BY <1>1, <1>3, <2>1 DEF IInv, Types, directory
    <2>3. Command(c) /\ c \notin committed
      BY <1>1, NotCommitted DEF IInv
    <2>4. \A q \in Requests : task'[c][q].stage \notin {"wait", "sent"}
      BY <1>1, <1>3, <2>3 DEF Command, Asking
    <2>5. InTime(c)' /\ Asking(c)' /\ Reading(c)' /\ Told(c)'
      BY <1>1, <2>1, <2>3, <2>4 DEF InTime, Command, Asking, Reading, Told, directory
    <2>6. Mapped(c)' /\ Cleared(c)'
      BY <1>1, <2>3 DEF Command, Mapped, MappedBy, Cleared, Bound, Fresh, Ahead, directory
    <2> QED
      BY <1>1, <1>3, <2>1, <2>2, <2>5, <2>6, GoesOn DEF directory, Phases, Command
  <1> QED
    BY <1>2, <1>3 DEF CheckBudget

LEMMA ArmCommitKeeps ==
  ASSUME IInv, NEW c \in Commands, ArmCommit(c)
  PROVE  IInv'
  <1>1. /\ phase[c] = "checked" /\ Enter(c, "committing")
        /\ UNCHANGED <<directory, job, start, tries, answer, task, resolved, committed, evidence>>
    BY DEF ArmCommit
  <1>2. DOMAIN commitBy' = Commands /\ \A d \in Commands \ {c} : commitBy'[d] = commitBy[d]
    BY DEF ArmCommit, IInv, Types
  <1>3. phase'[c] = "committing" /\ phase' \in [Commands -> Phases]
    BY <1>1 DEF Enter, IInv, Types, Phases
  <1>4. Types'
    BY <1>1, <1>2, <1>3 DEF IInv, Types, directory
  <1>5. Command(c) /\ c \notin committed
    BY <1>1, NotCommitted DEF IInv
  <1>6. \A q \in Requests : task'[c][q].stage \notin {"wait", "sent"}
    BY <1>1, <1>5 DEF Command, Asking
  <1>7. InTime(c)' /\ Asking(c)' /\ Reading(c)' /\ Told(c)'
    BY <1>1, <1>3, <1>5, <1>6 DEF InTime, Command, Asking, Reading, Told, directory
  <1>8. Mapped(c)' /\ Cleared(c)'
    BY <1>1, <1>5 DEF Command, Mapped, MappedBy, Cleared, Bound, Fresh, Ahead, directory
  <1> QED
    BY <1>1, <1>2, <1>4, <1>7, <1>8, GoesOn DEF directory, Phases, Command

LEMMA ServerCommitKeeps ==
  ASSUME IInv, NEW c \in Commands, ServerCommit(c)
  PROVE  IInv'
  <1>1. /\ phase[c] = "committing" \/ MayCommit(c)
        /\ committed' = committed \cup {c}
        /\ UNCHANGED <<directory, job, start, phase, tries, commitBy, answer, task, resolved, evidence>>
    BY DEF ServerCommit, MayCommit
  <1>2. Types'
    BY <1>1 DEF IInv, Types, directory
  <1>3. \A d \in Commands \ {c} : Untouched(d)
    BY <1>1 DEF Untouched
  <1>4. Permits'
    BY <1>1, NothingSent
  <1>5. Command(c) /\ Bound(c)
    BY <1>1 DEF IInv, Bound
  <1>6. Agents(c)' = Agents(c)
    BY <1>1 DEF Agents
  <1>7. InTime(c)' /\ Asking(c)' /\ Reading(c)'
    BY <1>1, <1>5, <1>6 DEF InTime, Command, Asking, Reading, Fresh, directory
  <1>8. Mapped(c)' /\ Cleared(c)'
    BY <1>1, <1>5 DEF Command, Mapped, MappedBy, Cleared, Fresh, directory
  <1>9. Told(c)'
    BY <1>1, <1>5 DEF Command, Told, MayCommit
  <1> QED
    BY <1>1, <1>2, <1>3, <1>4, <1>7, <1>8, <1>9, StepOfOne DEF directory, Command

LEMMA AcknowledgeKeeps ==
  ASSUME IInv, NEW c \in Commands, Acknowledge(c)
  PROVE  IInv'
  <1>1. /\ phase[c] = "committing" /\ c \in committed /\ Finish(c, "ok")
        /\ UNCHANGED <<directory, job, start, tries, commitBy, resolved, committed, evidence>>
    BY DEF Acknowledge
  <1>2. tries' \in [Commands -> 0..MaxTries] /\ DOMAIN commitBy' = Commands
    BY <1>1 DEF IInv, Types
  <1>3. Bound(c)
    BY <1>1 DEF Bound
  <1> QED
    BY <1>1, <1>2, <1>3, FinishKeeps

(* The answers that leave the outcome open. *)
LEMMA DoubtKeeps ==
  ASSUME IInv, NEW c \in Commands, NEW code \in Unsure, phase[c] = "committing", Finish(c, code),
         UNCHANGED <<directory, job, start, tries, resolved, committed, evidence>>,
         DOMAIN commitBy' = Commands, \A d \in Commands \ {c} : commitBy'[d] = commitBy[d]
  PROVE  IInv'
  <1>1. tries' \in [Commands -> 0..MaxTries]
    BY DEF IInv, Types
  <1>2. Bound(c) /\ code # "ok"
    BY Names DEF Bound
  <1> QED
    BY <1>1, <1>2, FinishKeeps

LEMMA CutCommitKeeps ==
  ASSUME IInv, NEW c \in Commands, CutCommit(c)
  PROVE  IInv'
  BY DoubtKeeps DEF CutCommit, Unsure, IInv, Types

LEMMA LoseCommitKeeps ==
  ASSUME IInv, NEW c \in Commands, LoseCommit(c)
  PROVE  IInv'
  BY DoubtKeeps DEF LoseCommit, Unsure, IInv, Types

LEMMA RefuseCommitKeeps ==
  ASSUME IInv, NEW c \in Commands, RefuseCommit(c)
  PROVE  IInv'
  <1>1. /\ phase[c] = "committing" /\ c \notin committed
        /\ UNCHANGED <<directory, job, start, resolved, committed, evidence>>
    BY DEF RefuseCommit
  <1>2. CASE /\ tries[c] < MaxTries /\ Enter(c, "local")
             /\ tries' = [tries EXCEPT ![c] = @ + 1]
             /\ task' = [task EXCEPT ![c] = [q \in Requests |-> Idle]]
             /\ UNCHANGED <<answer, commitBy>>
    <2>1. phase'[c] = "local" /\ phase' \in [Commands -> Phases]
      BY <1>2 DEF Enter, IInv, Types, Phases
    <2>2. Idle \in [stage : Stages, at : Endpoints] /\ Idle.stage = "idle"
      BY DEF Idle, Stages, Endpoints
    <2>3. task \in [Commands -> [Requests -> [stage : Stages, at : Endpoints]]]
      BY DEF IInv, Types
    <2>4. /\ task' \in [Commands -> [Requests -> [stage : Stages, at : Endpoints]]]
          /\ \A d \in Commands \ {c} : task'[d] = task[d]
          /\ \A q \in Requests : task'[c][q].stage = "idle"
      BY <1>2, <2>2, <2>3
    <2>5. tries' \in [Commands -> 0..MaxTries]
      <3>1. MaxTries \in Nat /\ tries \in [Commands -> 0..MaxTries]
        BY AdmissionAssumption DEF IInv, Types
      <3> QED
        BY <1>2, <3>1
    <2>6. Types'
      BY <1>1, <1>2, <2>1, <2>4, <2>5 DEF IInv, Types, directory
    <2>7. Command(c)
      BY DEF IInv
    <2>8. Command(c)'
      BY <1>1, <2>1, <2>4, <2>7
      DEF Command, InTime, Asking, Reading, Mapped, Cleared, Told, Bound, MayCommit, Ahead, directory
    <2> QED
      BY <1>1, <1>2, <2>1, <2>4, <2>6, <2>8, GoesOn DEF directory, Phases
  <1>3. CASE /\ Finish(c, "storage_error") /\ UNCHANGED tries
             /\ commitBy' = [commitBy EXCEPT ![c] = Never]
    <2>1. DOMAIN commitBy' = Commands /\ \A d \in Commands \ {c} : commitBy'[d] = commitBy[d]
      BY <1>3 DEF IInv, Types
    <2> QED
      BY <1>1, <1>3, <2>1, DoubtKeeps DEF Unsure
  <1> QED
    BY <1>2, <1>3 DEF RefuseCommit

LEMMA DropKeeps ==
  ASSUME IInv, NEW c \in Commands, Drop(c)
  PROVE  IInv'
  <1>1. /\ phase[c] # "done" /\ Finish(c, "request_timeout")
        /\ UNCHANGED <<directory, job, start, tries, resolved, committed, evidence>>
    BY DEF Drop
  <1>2. DOMAIN commitBy' = Commands /\ \A d \in Commands \ {c} : commitBy'[d] = commitBy[d]
    BY DEF Drop, IInv, Types
  <1>3. CASE phase[c] = "committing"
    BY <1>1, <1>2, <1>3, DoubtKeeps DEF Unsure
  <1>4. CASE phase[c] # "committing"
    <2>1. c \notin committed
      BY <1>1, <1>4, NotCommitted
    <2>2. commitBy'[c] = Never
      BY <1>4 DEF Drop, IInv, Types
    <2>3. phase'[c] = "done"
      BY <1>1 DEF Finish, Enter, IInv, Types
    <2>4. ~Bound(c)'
      BY <1>1, <2>1, <2>2, <2>3 DEF Bound, MayCommit
    <2>5. tries' \in [Commands -> 0..MaxTries]
      BY <1>1 DEF IInv, Types
    <2> QED
      BY <1>1, <1>2, <2>1, <2>4, <2>5, FinishKeeps
  <1> QED
    BY <1>3, <1>4

-----------------------------------------------------------------------------
(* The world.                                                               *)

LEMMA TickKeeps ==
  ASSUME IInv, Tick
  PROVE  IInv'
  <1>1. /\ now < MaxTime /\ now' = now + 1 /\ \A r \in InFlight : Remaining(r[1]) > 0
        /\ UNCHANGED <<client, dir, lineage, changes, job, start, phase, tries, commitBy, answer,
                       task, resolved, committed, evidence>>
    BY DEF Tick
  <1>2. now \in 0..MaxTime /\ MaxTime \in Nat /\ Deadline \in Int
    BY AdmissionAssumption DEF IInv, Types, ConfigAccepted
  <1>3. now' \in 0..MaxTime /\ start' \in [Commands -> 0..now']
    <2>1. now' \in 0..MaxTime /\ 0..now \subseteq 0..now'
      BY <1>1, <1>2
    <2>2. start \in [Commands -> 0..now] /\ start' = start
      BY <1>1 DEF IInv, Types
    <2> QED
      BY <2>1, <2>2
  <1>4. Types'
    BY <1>1, <1>3 DEF IInv, Types
  <1>5. Permits'
    BY <1>1, NothingSent
  <1>6. ASSUME NEW c \in Commands PROVE Command(c)'
    <2>1. Command(c) /\ start[c] \in Int
      BY <1>2 DEF IInv, Types
    <2>2. \A q \in Requests : task[c][q].stage = "sent" => Remaining(c) > 0
      <3> TAKE q \in Requests
      <3>1. task[c][q].stage = "sent" => <<c, q>> \in InFlight
        BY DEF InFlight
      <3> QED
        BY <1>1, <3>1
    <2>3. InTime(c)'
      BY <1>1, <1>2, <2>1, <2>2 DEF Command, InTime, Remaining
    <2>4. Agents(c)' = Agents(c)
      BY <1>1 DEF Agents
    <2>5. Reading(c)'
      <3>1. phase'[c] \in {"tokens", "reads"} => client'
        BY <1>1, <2>1 DEF Command, Reading
      <3>2. ASSUME phase[c] = "reads", NEW q \in Agents(c)
            PROVE  /\ task[c][q].stage # "idle" /\ task[c][q].at \in {"auth", "core"}
                   /\ task[c][q].at = "core" =>
                        start[c] <= evidence[c][q].auth /\ evidence[c][q].auth <= now'
                   /\ task[c][q].stage = "ok" => task[c][q].at = "core" /\ Fresh(c, q)
        <4>1. q \in Principals
          BY <2>1, <3>2, AgentsArePrincipals DEF Command, Ahead
        <4>2. evidence[c][q].auth \in Int
          BY <4>1 DEF IInv, Types
        <4> QED
          BY <1>1, <1>2, <2>1, <3>2, <4>2 DEF Command, Reading
      <3> QED
        BY <1>1, <2>4, <3>1, <3>2 DEF Reading, Fresh
    <2>6. Asking(c)' /\ Mapped(c)' /\ Cleared(c)' /\ Told(c)'
      BY <1>1, <2>1, <2>4
      DEF Command, Asking, Mapped, MappedBy, Cleared, Fresh, Told, Bound, MayCommit
    <2> QED
      BY <2>3, <2>5, <2>6 DEF Command
  <1> QED
    BY <1>4, <1>5, <1>6 DEF IInv

LEMMA WorldKeeps ==
  ASSUME IInv, changes < MaxChanges, changes' = changes + 1,
         lineage \subseteq lineage', lineage' \subseteq Edges,
         UNCHANGED <<now, client, job, start, phase, tries, commitBy, answer,
                     task, resolved, committed, evidence>>
  PROVE  IInv'
  <1>1. changes \in 0..MaxChanges /\ MaxChanges \in Nat
    BY AdmissionAssumption DEF IInv, Types
  <1>2. changes' \in 0..MaxChanges
    BY <1>1
  <1>3. Types'
    BY <1>2 DEF IInv, Types
  <1>4. Permits'
    BY NothingSent
  <1>5. \A d \in Commands : Untouched(d)
    BY DEF Untouched
  <1>6. \A d \in Commands : Command(d)'
    BY <1>5, UntouchedKeeps DEF IInv
  <1> QED
    BY <1>3, <1>4, <1>6 DEF IInv

LEMMA ChangeDirectoryKeeps ==
  ASSUME IInv, NEW p \in Volatile, ChangeDirectory(p)
  PROVE  IInv'
  BY WorldKeeps DEF ChangeDirectory, IInv, Types

LEMMA RecordSuccessorKeeps ==
  ASSUME IInv, NEW e \in Edges, RecordSuccessor(e)
  PROVE  IInv'
  BY WorldKeeps DEF RecordSuccessor, IInv, Types

-----------------------------------------------------------------------------
(* The theorems.                                                            *)

LEMMA InitEstablishes == Init => IInv
  <1> SUFFICES ASSUME Init PROVE IInv
    OBVIOUS
  <1>1. /\ 0 \in 0..MaxTime /\ 0 \in 0..MaxChanges /\ 0 \in 0..MaxTries /\ MaxInFlight \in Nat
    BY AdmissionAssumption DEF ConfigAccepted
  <1>2. Idle \in [stage : Stages, at : Endpoints] /\ Idle.stage = "idle"
    BY DEF Idle, Stages, Endpoints
  <1>3. /\ task \in [Commands -> [Requests -> [stage : Stages, at : Endpoints]]]
        /\ \A c \in Commands, q \in Requests : task[c][q].stage = "idle"
    BY <1>2 DEF Init
  <1>4. phase \in [Commands -> Phases] /\ \A c \in Commands : phase[c] = "idle"
    BY DEF Init, Phases
  <1>5. NoEvidence \in [auth : Int, core : Int]
    BY DEF NoEvidence, Never
  <1>6. start \in [Commands -> 0..now] /\ tries \in [Commands -> 0..MaxTries]
    BY <1>1 DEF Init
  <1>7. evidence \in [Commands -> [Principals -> [auth : Int, core : Int]]]
    BY <1>5 DEF Init
  <1>8. Types
    BY <1>1, <1>3, <1>4, <1>6, <1>7 DEF Init, Types
  <1>9. Permits
    <2>1. InFlight = {}
      BY <1>3 DEF InFlight
    <2> QED
      BY <1>1, <2>1, FS_EmptySet DEF Permits
  <1>10. ASSUME NEW c \in Commands PROVE Command(c)
    <2>1. start[c] <= now /\ c \notin committed
      BY DEF Init
    <2> QED
      BY <1>3, <1>4, <2>1
      DEF Command, InTime, Asking, Reading, Mapped, Cleared, Told, Bound, MayCommit, Ahead
  <1> QED
    BY <1>8, <1>9, <1>10 DEF IInv

LEMMA NextKeeps == IInv /\ [Next]_vars => IInv'
  <1> SUFFICES ASSUME IInv, [Next]_vars PROVE IInv'
    OBVIOUS
  <1>1. CASE Tick
    BY <1>1, TickKeeps
  <1>2. CASE \E p \in Volatile : ChangeDirectory(p)
    BY <1>2, ChangeDirectoryKeeps
  <1>3. CASE \E e \in Edges : RecordSuccessor(e)
    BY <1>3, RecordSuccessorKeeps
  <1>4. ASSUME NEW c \in Commands,
               Begin(c) \/ Step(c) \/ ServerCommit(c) \/ EndCommit(c) \/ LoseCommit(c) \/ Drop(c)
        PROVE  IInv'
    <2>1. CASE Step(c)
      BY <2>1, ResolveKeeps, FetchTokensKeeps, NextTokenKeeps, JoinKeeps, CheckBudgetKeeps,
         ArmCommitKeeps DEF Step
    <2>2. CASE EndCommit(c)
      BY <2>2, AcknowledgeKeeps, CutCommitKeeps, RefuseCommitKeeps DEF EndCommit
    <2> QED
      BY <1>4, <2>1, <2>2, BeginKeeps, ServerCommitKeeps, LoseCommitKeeps, DropKeeps
  <1>5. ASSUME NEW c \in Commands, NEW q \in Requests, GetPermit(c, q) \/ Reply(c, q)
        PROVE  IInv'
    BY <1>5, GetPermitKeeps, AnswerKeeps, BreakKeeps DEF Reply
  <1>6. CASE UNCHANGED vars
    <2>1. \A d \in Commands : Untouched(d)
      BY <1>6 DEF vars, Untouched
    <2>2. \A d \in Commands : Command(d)'
      BY <1>6, <2>1, UntouchedKeeps DEF IInv, vars
    <2>3. Types'
      BY <1>6 DEF IInv, Types, vars
    <2>4. Permits'
      BY <1>6, NothingSent DEF vars
    <2> QED
      BY <2>2, <2>3, <2>4 DEF IInv
  <1> QED
    BY <1>1, <1>2, <1>3, <1>4, <1>5, <1>6 DEF Next

(* The inductive invariant holds in every reachable state. *)
LEMMA Inductive == Spec => []IInv
  BY InitEstablishes, NextKeeps, PTL DEF Spec

(* Every variable of the admission keeps its type, and the requests of all  *)
(* commands together, started, cut off and dropped in any order, never hold *)
(* more permits than the client was configured with.                        *)
THEOREM TypeCorrect == Spec => []TypeOK
  BY Inductive, InvariantImplies, PTL

(* No command commits with an agent that Auth and then agent-core did not   *)
(* confirm for this command, within its deadline, whatever the directories  *)
(* change their mind about meanwhile and however the command was cut off.   *)
THEOREM AdmissionIsFresh == Spec => []AdmittedIsFresh
  BY Inductive, InvariantImplies, PTL

(* A refusal left nothing behind, a success is committed, only the answers  *)
(* that say so leave the outcome open, and nobody was made responsible      *)
(* except as named or by a recorded line.                                   *)
THEOREM AnswersAreDeeds == Spec => []AnswersMatchDeeds
  BY Inductive, InvariantImplies, PTL

=============================================================================
