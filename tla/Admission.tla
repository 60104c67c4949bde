------------------------------ MODULE Admission ------------------------------
(***************************************************************************)
(* The admission of the principals a command makes responsible: the local   *)
(* resolution of identities, the two fresh tokens and the two directory     *)
(* reads for every agent under one deadline and one bound on the requests   *)
(* in flight, and the commit under what the deadline leaves.                *)
(*                                                                         *)
(* Principals are numbered: the error of the least one is reported. The     *)
(* deadline of a command runs from its start; requests and commits are cut  *)
(* off when it is reached, every other step may take any time.              *)
(***************************************************************************)
EXTENDS Integers, FiniteSets, FiniteSetsExt

CONSTANTS
  Principals,    \* positive integers
  Commands,
  Jobs,          \* Jobs[c]: what c may be asked: [kind, assignee, input]
  Kind,          \* Kind[p]: its row in principals: "AGENT", "HUMAN" or "NONE"
  LocallyOff,    \* principals disabled in that row
  AgentOf,       \* AgentOf[p]: the agent the directory binds p to
  History,       \* principals with an earlier visit of the node a RETURN enters
  Edges,         \* the successor lines an operator may record: [from, to, agent]
  Volatile,      \* the principals the directories may change their mind about
  BreakCodes,    \* how a request may fail before its deadline
  Deadline, MaxInFlight, MaxTime, MaxChanges, MaxTries

Absent == 0
Malformed == -1
Kinds == {"CREATE", "TRANSITION", "RETURN", "REVISE"}
Endpoints == {"token", "auth", "core"}

\* AdmissionClient::new refuses any other configuration.
ConfigAccepted == Deadline \in 1..5000 /\ MaxInFlight \in 1..8

ASSUME AdmissionAssumption ==
  /\ Principals \subseteq Nat \ {0} /\ IsFiniteSet(Principals)
  /\ ConfigAccepted
  /\ \A c \in Commands : Jobs[c] \subseteq
       [kind : Kinds, assignee : Principals \cup {Absent},
        input : Principals \cup {Absent, Malformed}]
  /\ BreakCodes \subseteq {"admission_unavailable", "admission_denied",
                          "admission_malformed_response"}
  /\ Edges \subseteq [from : Principals, to : Principals, agent : {AgentOf[p] : p \in Principals}]
  /\ \A e, d \in Edges : e.from = d.from => e = d
  /\ \A p \in Principals : AgentOf[p] # "any"
  /\ {MaxTime, MaxChanges, MaxTries} \subseteq Nat

VARIABLES
  now, client,   \* client: the deployment configured the directory client
  dir,           \* dir[p]: [active, exists, enabled], what the directories answer
  lineage,       \* the recorded edges
  changes,
  job, start, phase, tries, commitBy, answer,   \* per command
  task,          \* task[c][q]: the request of c for q: a token or a principal
  resolved,      \* resolved[c]: [original -> [canonical, agent]]
  committed,     \* the commands whose transaction is committed
  \* Observation, read by no guard.
  evidence       \* evidence[c][p]: when p was found active, and its agent enabled

vars == <<now, client, dir, lineage, changes, job, start, phase, tries, commitBy, answer,
          task, resolved, committed, evidence>>
directory == <<now, client, dir, lineage, changes>>

AuthToken == -1
CoreToken == -2
Tokens == {AuthToken, CoreToken}
Requests == Tokens \cup Principals
Never == -1
NoEvidence == [auth |-> Never, core |-> Never]
Idle == [stage |-> "idle", at |-> "token"]

Init ==
  /\ now = 0 /\ client \in BOOLEAN
  /\ dir = [p \in Principals |-> [active |-> TRUE, exists |-> TRUE, enabled |-> TRUE]]
  /\ lineage = {}
  /\ changes = 0
  /\ job \in [Commands -> UNION {Jobs[c] : c \in Commands}]
  /\ \A c \in Commands : job[c] \in Jobs[c]
  /\ start = [c \in Commands |-> 0]
  /\ phase = [c \in Commands |-> "idle"]
  /\ tries = [c \in Commands |-> 0]
  /\ commitBy = [c \in Commands |-> 0]
  /\ answer = [c \in Commands |-> "none"]
  /\ task = [c \in Commands |-> [q \in Requests |-> Idle]]
  /\ resolved = [c \in Commands |-> << >>]
  /\ committed = {}
  /\ evidence = [c \in Commands |-> [p \in Principals |-> NoEvidence]]

Remaining(c) == IF start[c] + Deadline > now THEN start[c] + Deadline - now ELSE 0
InFlight == {r \in Commands \X Requests : task[r[1]][r[2]].stage = "sent"}

-----------------------------------------------------------------------------
(* Local resolution, in the command's transaction. *)

Successor(p) == {e \in lineage : e.from = p}

\* What a payload holds under the keys of INSTANCE_INPUT_PRINCIPAL nodes.
InputPrincipals(j) == {j.input} \ {Absent, Malformed}
Targets(j) == IF j.kind = "RETURN" THEN {j.assignee} \ {Absent}
              ELSE ({j.assignee} \ {Absent}) \cup InputPrincipals(j)

\* The canonical principal of an explicit input is the input itself. Only a
\* RETURN follows one line, for a principal that had the node before.
Canonical(p) == IF Kind[p] = "NONE" \/ Successor(p) = {} THEN p
                ELSE (CHOOSE e \in Successor(p) : TRUE).to

LocalError(j, p) ==
  LET q == Canonical(p) IN
  IF q # p /\ (j.kind # "RETURN" \/ p \notin History
               \/ Kind[q] = "NONE" \/ Successor(q) # {}) THEN "admission_legacy_input"
  ELSE IF q # p /\ Kind[q] # "AGENT" THEN "admission_rejected"
  ELSE IF Kind[q] # "NONE" /\ q \in LocallyOff THEN "admission_target_disabled"
  ELSE "none"

Resolution(p) ==
  [canonical |-> Canonical(p),
   agent |-> IF Canonical(p) = p THEN "any" ELSE (CHOOSE e \in Successor(p) : TRUE).agent]

\* Fault: agents that another command found in order are not read again.
AgentsNotSeen(c) == {p \in {resolved[c][o].canonical : o \in DOMAIN resolved[c]} :
                       \A d \in Commands : evidence[d][p].core = Never}

\* Native humans need no directory.
Agents(c) == {resolved[c][p].canonical : p \in DOMAIN resolved[c]}
             \ {p \in DOMAIN resolved[c] : Kind[p] = "HUMAN" /\ resolved[c][p].canonical = p}

-----------------------------------------------------------------------------
(* Steps of a command. *)

Enter(c, ph) == phase' = [phase EXCEPT ![c] = ph]

\* The answer; what is under way for the command ends with it.
Finish(c, code) ==
  /\ Enter(c, "done")
  /\ answer' = [answer EXCEPT ![c] = code]
  /\ task' = [task EXCEPT ![c] = [q \in Requests |-> Idle]]

\* A request is not even queued when the deadline is over.
Asked(c, e) == [stage |-> IF Remaining(c) = 0 THEN "admission_timeout" ELSE "wait", at |-> e]

Begin(c) ==
  /\ phase[c] = "idle"
  /\ start' = [start EXCEPT ![c] = now]
  /\ Enter(c, "local")
  /\ UNCHANGED <<directory, job, tries, commitBy, answer, task, resolved, committed, evidence>>

\* Least target first; a payload that is not a principal id is refused before.
Resolve(c) ==
  /\ phase[c] = "local"
  /\ LET bad == {p \in Targets(job[c]) : LocalError(job[c], p) # "none"} IN
     IF job[c].kind # "RETURN" /\ job[c].input = Malformed
     THEN Finish(c, "invalid_input") /\ UNCHANGED resolved
     ELSE IF bad # {} THEN Finish(c, LocalError(job[c], Min(bad))) /\ UNCHANGED resolved
     ELSE /\ resolved' = [resolved EXCEPT ![c] = [p \in Targets(job[c]) |-> Resolution(p)]]
          /\ Enter(c, "observe")
          /\ UNCHANGED <<answer, task>>
  /\ UNCHANGED <<directory, job, start, tries, commitBy, committed, evidence>>

\* Fresh tokens for every command, one after the other.
FetchTokens(c) ==
  /\ phase[c] = "observe"
  /\ IF Agents(c) = {} THEN Enter(c, "work") /\ UNCHANGED <<answer, task>>
     ELSE IF ~client THEN Finish(c, "admission_unavailable")
     ELSE /\ Enter(c, "tokens")
          /\ task' = [task EXCEPT ![c][AuthToken] = Asked(c, "token")]
          /\ UNCHANGED answer
  /\ UNCHANGED <<directory, job, start, tries, commitBy, resolved, committed, evidence>>

Failed(c, q) == task[c][q].stage \notin {"idle", "wait", "sent", "ok"}

NextToken(c) ==
  /\ phase[c] = "tokens"
  /\ \E q \in Tokens :
       \/ /\ Failed(c, q)
          /\ Finish(c, task[c][q].stage)
       \/ /\ task[c][AuthToken].stage = "ok" /\ task[c][CoreToken] = Idle
          /\ task' = [task EXCEPT ![c][CoreToken] = Asked(c, "token")]
          /\ UNCHANGED <<phase, answer>>
       \/ /\ task[c][CoreToken].stage = "ok"
          /\ Enter(c, "reads")
          /\ task' = [task EXCEPT ![c] = [r \in Requests |->
                        IF r \in Agents(c) THEN Asked(c, "auth") ELSE Idle]]
          /\ UNCHANGED answer
  /\ UNCHANGED <<directory, job, start, tries, commitBy, resolved, committed, evidence>>

\* Fault: a request whose time is over keeps its place in the queue.
GetPermitInTime(c, q) ==
  /\ task[c][q].stage = "wait"
  /\ Cardinality(InFlight) < MaxInFlight /\ Remaining(c) > 0
  /\ task' = [task EXCEPT ![c][q].stage = "sent"]
  /\ UNCHANGED <<directory, job, start, phase, tries, commitBy, answer, resolved, committed, evidence>>

\* Fault: a permit is not counted.
GetPermitUncounted(c, q) ==
  /\ task[c][q].stage = "wait"
  /\ task' = [task EXCEPT ![c][q].stage = IF Remaining(c) = 0 THEN "admission_timeout" ELSE "sent"]
  /\ UNCHANGED <<directory, job, start, phase, tries, commitBy, answer, resolved, committed, evidence>>

\* One permit for every request; the deadline is read again once it is held.
GetPermit(c, q) ==
  /\ task[c][q].stage = "wait"
  /\ Cardinality(InFlight) < MaxInFlight
  /\ task' = [task EXCEPT ![c][q].stage = IF Remaining(c) = 0 THEN "admission_timeout" ELSE "sent"]
  /\ UNCHANGED <<directory, job, start, phase, tries, commitBy, answer, resolved, committed, evidence>>

\* The predicates on what a directory answers; an active principal's agent is
\* read next.
Outcome(c, q) ==
  CASE task[c][q].at = "token" -> "ok"
    [] task[c][q].at = "auth" -> IF dir[q].active THEN "next" ELSE "admission_target_disabled"
    [] task[c][q].at = "core" -> IF ~dir[q].exists THEN "admission_rejected"
                                 ELSE IF ~dir[q].enabled THEN "admission_target_disabled"
                                 ELSE "ok"

Answer(c, q) ==
  /\ task[c][q].stage = "sent"
  /\ task' = [task EXCEPT ![c][q] =
                IF Outcome(c, q) = "next" THEN Asked(c, "core") ELSE [@ EXCEPT !.stage = Outcome(c, q)]]
  /\ evidence' = IF q \in Tokens \/ Outcome(c, q) \notin {"next", "ok"} THEN evidence ELSE
                 [evidence EXCEPT ![c][q] = IF task[c][q].at = "auth" THEN [@ EXCEPT !.auth = now]
                                            ELSE [@ EXCEPT !.core = now]]
  /\ UNCHANGED <<directory, job, start, phase, tries, commitBy, answer, resolved, committed>>

\* No connection, a status other than 200, a body that breaks the contract, or
\* the deadline, which cuts the request off.
Break(c, q, error) ==
  /\ task[c][q].stage = "sent"
  /\ error = "admission_timeout" => Remaining(c) = 0
  /\ task' = [task EXCEPT ![c][q].stage = error]
  /\ UNCHANGED <<directory, job, start, phase, tries, commitBy, answer, resolved, committed, evidence>>

\* All reads are joined before the first error in the order of the principals
\* is returned; a mapped principal must still be the agent that was recorded.
Mismatched(c) == {p \in DOMAIN resolved[c] :
                    resolved[c][p].agent \notin {"any", AgentOf[resolved[c][p].canonical]}}
Join(c) ==
  /\ phase[c] = "reads"
  /\ \A q \in Agents(c) : task[c][q].stage \notin {"wait", "sent"}
  /\ LET failed == {q \in Agents(c) : Failed(c, q)} IN
     IF failed # {} THEN Finish(c, task[c][Min(failed)].stage)
     ELSE IF Mismatched(c) # {} THEN Finish(c, "admission_rejected")
     ELSE Enter(c, "work") /\ UNCHANGED <<answer, task>>
  /\ UNCHANGED <<directory, job, start, tries, commitBy, resolved, committed, evidence>>

-----------------------------------------------------------------------------
(* Commit. *)

\* The facts are written; a command without budget rolls back.
CheckBudget(c) ==
  /\ phase[c] = "work"
  /\ IF client /\ Remaining(c) = 0 THEN Finish(c, "admission_timeout")
     ELSE Enter(c, "checked") /\ UNCHANGED <<answer, task>>
  /\ UNCHANGED <<directory, job, start, tries, commitBy, resolved, committed, evidence>>

\* Creations and transitions time the COMMIT with what is left, read once more;
\* nothing left means no limit, as without a client and as for the other kinds.
ArmCommit(c) ==
  /\ phase[c] = "checked"
  /\ Enter(c, "committing")
  /\ commitBy' = [commitBy EXCEPT ![c] =
       IF client /\ job[c].kind # "REVISE" /\ Remaining(c) > 0 THEN start[c] + Deadline ELSE 0]
  /\ UNCHANGED <<directory, job, start, tries, answer, task, resolved, committed, evidence>>

\* The server commits; perhaps after the client stopped waiting for it.
Unsure == {"admission_commit_outcome_unknown", "storage_error", "request_timeout"}
ServerCommit(c) ==
  /\ phase[c] = "committing" \/ (phase[c] = "done" /\ answer[c] \in Unsure /\ commitBy[c] # Never)
  /\ c \notin committed
  /\ committed' = committed \cup {c}
  /\ UNCHANGED <<directory, job, start, phase, tries, commitBy, answer, task, resolved, evidence>>

Acknowledge(c) ==
  /\ phase[c] = "committing" /\ c \in committed
  /\ Finish(c, "ok")
  /\ UNCHANGED <<directory, job, start, tries, commitBy, resolved, committed, evidence>>

\* Fault: a COMMIT that takes too long is answered as a refusal.
CutCommitRefused(c) ==
  /\ phase[c] = "committing" /\ commitBy[c] # 0 /\ now >= commitBy[c]
  /\ Finish(c, "admission_timeout")
  /\ UNCHANGED <<directory, job, start, tries, commitBy, resolved, committed, evidence>>

CutCommit(c) ==
  /\ phase[c] = "committing" /\ commitBy[c] # 0 /\ now >= commitBy[c]
  /\ Finish(c, "admission_commit_outcome_unknown")
  /\ UNCHANGED <<directory, job, start, tries, commitBy, resolved, committed, evidence>>

\* A serialization failure: a creation starts over, under the same deadline.
RefuseCommit(c) ==
  /\ phase[c] = "committing" /\ c \notin committed
  /\ IF job[c].kind = "CREATE" /\ tries[c] < MaxTries
     THEN /\ Enter(c, "local")
          /\ tries' = [tries EXCEPT ![c] = @ + 1]
          /\ task' = [task EXCEPT ![c] = [q \in Requests |-> Idle]]
          /\ UNCHANGED <<answer, commitBy>>
     ELSE /\ Finish(c, "storage_error")
          /\ commitBy' = [commitBy EXCEPT ![c] = Never]
          /\ UNCHANGED tries
  /\ UNCHANGED <<directory, job, start, resolved, committed, evidence>>

\* The connection breaks while the COMMIT is under way.
LoseCommit(c) ==
  /\ phase[c] = "committing"
  /\ Finish(c, "storage_error")
  /\ UNCHANGED <<directory, job, start, tries, commitBy, resolved, committed, evidence>>

\* The service's request timeout drops the handler, its requests and, unless the
\* COMMIT is sent, its transaction.
Drop(c) ==
  /\ phase[c] \notin {"idle", "done"}
  /\ Finish(c, "request_timeout")
  /\ commitBy' = IF phase[c] = "committing" THEN commitBy ELSE [commitBy EXCEPT ![c] = Never]
  /\ UNCHANGED <<directory, job, start, tries, resolved, committed, evidence>>

-----------------------------------------------------------------------------
(* The world. *)

Tick ==
  /\ now < MaxTime
  /\ \A r \in InFlight : Remaining(r[1]) > 0
  /\ \A c \in Commands : phase[c] = "committing" /\ commitBy[c] # 0 => now < commitBy[c]
  /\ now' = now + 1
  /\ UNCHANGED <<client, dir, lineage, changes, job, start, phase, tries, commitBy, answer,
                 task, resolved, committed, evidence>>

\* The directories change their mind about a principal.
ChangeDirectory(p) ==
  /\ changes < MaxChanges /\ changes' = changes + 1
  /\ dir' = [dir EXCEPT ![p].active = FALSE] \/ dir' = [dir EXCEPT ![p].enabled = FALSE]
  /\ UNCHANGED <<now, client, lineage, job, start, phase, tries, commitBy, answer,
                 task, resolved, committed, evidence>>

\* The identity operator records a successor line; lines are never changed.
RecordSuccessor(e) ==
  /\ e \notin lineage /\ changes < MaxChanges /\ changes' = changes + 1
  /\ lineage' = lineage \cup {e}
  /\ UNCHANGED <<now, client, dir, job, start, phase, tries, commitBy, answer,
                 task, resolved, committed, evidence>>

Step(c) == Resolve(c) \/ FetchTokens(c) \/ NextToken(c) \/ Join(c) \/ CheckBudget(c) \/ ArmCommit(c)
Breaks == BreakCodes \cup {"admission_timeout"}
Reply(c, q) == Answer(c, q) \/ \E error \in Breaks : Break(c, q, error)
EndCommit(c) == Acknowledge(c) \/ CutCommit(c) \/ RefuseCommit(c)

Next ==
  \/ Tick
  \/ \E p \in Volatile : ChangeDirectory(p)
  \/ \E e \in Edges : RecordSuccessor(e)
  \/ \E c \in Commands : Begin(c) \/ Step(c) \/ ServerCommit(c) \/ EndCommit(c)
                         \/ LoseCommit(c) \/ Drop(c)
  \/ \E c \in Commands, q \in Requests : GetPermit(c, q) \/ Reply(c, q)

Spec == Init /\ [][Next]_vars

\* The executor runs every task that can run, a request ends within its timeout,
\* the semaphore is first come, first served, and the database answers a COMMIT.
Fairness == \A c \in Commands :
  /\ WF_vars(Step(c)) /\ WF_vars(EndCommit(c))
  /\ \A q \in Requests : WF_vars(GetPermit(c, q)) /\ WF_vars(Reply(c, q))

FairSpec == Spec /\ Fairness
=============================================================================
