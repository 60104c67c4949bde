--------------------------- MODULE IdentityPrograms ---------------------------
(***************************************************************************)
(* The programs an operator runs beside the live service to move work from  *)
(* one principal to another: the fleet cutover (pair by pair, scope by      *)
(* scope, with two canaries first), the identity repair (a reviewed plan    *)
(* of successor lines) and the normalization of human executors (one group).*)
(* Each commits in one serializable transaction and then reads again, from  *)
(* another connection, what it reports; the service goes on meanwhile.      *)
(***************************************************************************)
EXTENDS Directory, Sequences

CONSTANTS
  Works,         \* instances a plan names
  Pairs,         \* the cutover's plan: <<[old, new, scope, tuples, works]>>
  Lines,         \* the repair's pairs: [from, to, agent]
  HumanRows,     \* the works of the normalization's plan
  Human, Operator,
  Holder,        \* Holder[i]: the assignee every plan expects, at version 1
  MaxVersion

RepairRun == 0
HumanRun == -1
Scopes == <<"Build", "Efficiency", "Remaining">>
NotRunning == [program |-> "none", scope |-> 0, k |-> 0, stage |-> "idle", commit |-> "none"]

\* What the programs check of a plan before they open a connection.
ValidPlan ==
  /\ \A k \in DOMAIN Pairs :
       /\ {Pairs[k].old, Pairs[k].new} \subseteq Principals \ {Operator}
       /\ Pairs[k].tuples \subseteq Domains \X Roles
       /\ Pairs[k].works \subseteq {i \in Works : Holder[i] = Pairs[k].old}
  /\ \A j, k \in DOMAIN Pairs : j # k => Pairs[j].works \cap Pairs[k].works = {}

ValidPairs ==
  /\ \A l \in Lines : l.from # l.to
  /\ \A l, m \in Lines : (l.from = m.from => l = m) /\ (l.to = m.to => l.agent = m.agent)

ASSUME ProgramAssumption ==
  /\ ValidPlan /\ ValidPairs /\ HumanRows \subseteq Works
  /\ {Operator, Human} \subseteq Principals
  /\ \A l \in Lines : {l.from, l.to} \subseteq Principals
  /\ Len(Pairs) \in Nat /\ DOMAIN Pairs = 1..Len(Pairs)
  /\ MaxVersion \in Nat /\ MaxVersion >= 2

VARIABLES
  work,          \* work[i]: [version, holder, live, assisted, by]
  summary,       \* the receipts and audits of the programs: pairs, HumanRun
  lineage,       \* the successor lines
  reviewed,      \* the observation an operator reviewed, or << >>
  run,           \* the program that runs
  \* Observation, read by no guard.
  reports,       \* [k, outcome, wrote, done]
  handed         \* handed[i]: hand-overs by a program

programs == <<work, summary, lineage, reviewed, run, reports, handed>>
all == <<vars, programs>>

PInit ==
  /\ Init
  /\ work = [i \in Works |-> [version |-> 1, holder |-> Holder[i], live |-> TRUE,
                              assisted |-> FALSE, by |-> "service"]]
  /\ summary = {} /\ lineage = {} /\ reviewed = << >>
  /\ run = NotRunning
  /\ reports = {}
  /\ handed = [i \in Works |-> 0]

-----------------------------------------------------------------------------
(* The live service. *)

Advance(i) ==
  /\ Stimulus
  /\ work[i].live /\ work[i].version < MaxVersion /\ ~work[i].assisted
  /\ \E p \in {Holder[i], Operator} :
       work' = [work EXCEPT ![i] = [work[i] EXCEPT !.version = @ + 1, !.holder = p,
                                                !.by = "service"]]
  /\ UNCHANGED <<commands, summary, lineage, reviewed, run, reports, handed>>

End(i) ==
  /\ Stimulus
  /\ work[i].live
  /\ work' = [work EXCEPT ![i].live = FALSE, ![i].assisted = FALSE]
  /\ UNCHANGED <<commands, summary, lineage, reviewed, run, reports, handed>>

Assist(i) ==
  /\ Stimulus
  /\ work[i].live
  /\ work' = [work EXCEPT ![i].assisted = ~@]
  /\ UNCHANGED <<commands, summary, lineage, reviewed, run, reports, handed>>

-----------------------------------------------------------------------------
(* The cutover. *)

\* The projection the cutover writes, or finds.
Projection == [kind |-> "AGENT", enabled |-> TRUE, named |-> "auth"]

TupleState(k, t) ==
  LET old == binding[<<t[1], Pairs[k].old, t[2]>>]
      new == binding[<<t[1], Pairs[k].new, t[2]>>] IN
  IF ~domain[t[1]].enabled \/ domain[t[1]].key # InitialDomain[t[1]].key THEN "CONFLICT"
  ELSE IF old = "on" /\ new # "on" THEN "PRE"
  ELSE IF old = "off" /\ new = "on" THEN "READY" ELSE "CONFLICT"

WorkState(k, i) ==
  IF ~work[i].live THEN "TERMINAL"
  ELSE IF work[i].version = 1 /\ work[i].holder = Pairs[k].old THEN "PRE"
  ELSE IF work[i].version = 2 /\ work[i].holder = Pairs[k].new /\ work[i].by = "cutover"
       THEN "READY" ELSE "CONFLICT"

PairTerminal(k) ==
  /\ row[Pairs[k].new] = Projection
  /\ \A t \in Pairs[k].tuples : TupleState(k, t) = "READY"
  /\ \A i \in Pairs[k].works : WorkState(k, i) \in {"READY", "TERMINAL"}
  /\ k \in summary

PairPre(k) ==
  /\ row[Pairs[k].new] \in {NoRow, Projection}
  /\ \A t \in Pairs[k].tuples : TupleState(k, t) = "PRE"
  /\ \A i \in Pairs[k].works : WorkState(k, i) \in {"PRE", "TERMINAL"}
  /\ k \notin summary

\* Fault: the version an instance had when the plan was made is not compared.
ApplicableUnversioned(k) ==
  /\ Enabled(Pairs[k].old) /\ row[Pairs[k].old].kind = "AGENT"
  /\ row[Pairs[k].new] \in {NoRow, Projection}
  /\ \A t \in Pairs[k].tuples : TupleState(k, t) = "PRE"
  /\ \A i \in Pairs[k].works :
       work[i].live => work[i].holder = Pairs[k].old /\ ~work[i].assisted

\* What apply_pair asks of the rows it has locked.
Applicable(k) ==
  /\ Enabled(Pairs[k].old) /\ row[Pairs[k].old].kind = "AGENT"
  /\ row[Pairs[k].new] \in {NoRow, Projection}
  /\ \A t \in Pairs[k].tuples : TupleState(k, t) = "PRE"
  /\ \A i \in Pairs[k].works :
       work[i].live => WorkState(k, i) = "PRE" /\ ~work[i].assisted

Selected(s) == {k \in DOMAIN Pairs : Pairs[k].scope = Scopes[s]}
NextPair(s, k) == {j \in Selected(s) : j > k}
Least(S) == CHOOSE j \in S : \A i \in S : j <= i

\* What the work of a run has left behind: its receipt, or the lines it draws.
OnRecord(k) == IF k = RepairRun THEN Lines \subseteq lineage' ELSE k \in summary

Report(k, outcome, wrote) ==
  reports' = reports \cup {[k |-> k, outcome |-> outcome, wrote |-> wrote, done |-> OnRecord(k)]}

\* The gate reads the canaries before anything is locked.
StartCutover(s) ==
  /\ Stimulus
  /\ run = NotRunning
  /\ Selected(s) # {}
  /\ Enabled(Operator)
  /\ \A r \in 1..(s - 1) : \A k \in Selected(r) : PairTerminal(k)
  /\ run' = [program |-> "cutover", scope |-> s, k |-> Least(Selected(s)),
             stage |-> "apply", commit |-> "none"]
  /\ UNCHANGED <<commands, work, summary, lineage, reviewed, reports, handed>>

\* After a pair that succeeded comes the next one; any other outcome ends the run.
Proceed(ok) ==
  run' = IF ok /\ NextPair(run.scope, run.k) # {}
         THEN [run EXCEPT !.k = Least(NextPair(run.scope, run.k)),
                          !.stage = "apply", !.commit = "none"]
         ELSE NotRunning

\* The writes of a pair, all or none.
HandOver(k) ==
  /\ row' = [row EXCEPT ![Pairs[k].new] = Projection]
  /\ binding' = [x \in DOMAIN binding |->
                   IF <<x[1], x[3]>> \notin Pairs[k].tuples THEN binding[x]
                   ELSE IF x[2] = Pairs[k].old THEN "off"
                   ELSE IF x[2] = Pairs[k].new THEN "on" ELSE binding[x]]
  /\ LET moved == {i \in Pairs[k].works : work[i].live} IN
     /\ work' = [i \in Works |-> IF i \notin moved THEN work[i] ELSE
                   [work[i] EXCEPT !.version = @ + 1, !.holder = Pairs[k].new, !.by = "cutover"]]
     /\ handed' = [i \in Works |-> handed[i] + IF i \in moved THEN 1 ELSE 0]
  /\ summary' = summary \cup {k}
  /\ UNCHANGED <<domain, coordinator, receipts, request, phase, stimuli, told>>

Unlocked(k) ==
  /\ \A t \in Pairs[k].tuples : ~DomainHeld(t[1])
  /\ ~RowShared(Pairs[k].new)

ApplyPair ==
  LET k == run.k IN
  /\ run.program = "cutover" /\ run.stage = "apply" /\ Unlocked(k)
  /\ UNCHANGED <<lineage, reviewed>>
  /\ \/ /\ k \in summary
        /\ run' = [run EXCEPT !.stage = "reread", !.commit = "earlier"]
        /\ UNCHANGED <<vars, work, summary, reports, handed>>
     \/ /\ k \notin summary /\ ~Applicable(k)
        /\ Report(k, "CONFLICT", FALSE)
        /\ Proceed(FALSE)
        /\ UNCHANGED <<vars, work, summary, handed>>
     \/ /\ k \notin summary /\ Applicable(k)
        /\ HandOver(k)
        /\ \E a \in {"acknowledged", "lost"} :
             run' = [run EXCEPT !.stage = "reread", !.commit = a]
        /\ UNCHANGED reports
     \/ \* The commit fails.
        /\ k \notin summary /\ Applicable(k)
        /\ run' = [run EXCEPT !.stage = "reread", !.commit = "failed"]
        /\ UNCHANGED <<vars, work, summary, reports, handed>>

Wrote == run.commit \in {"acknowledged", "lost"}

\* What is printed when the second look fails, or disagrees with the plan.
\* An error without a name of its own is a CONFLICT, of a pair that has been
\* committed too, and main prints "writes": 0 with it.
Unseen == IF run.commit \in {"lost", "failed"} THEN "OUTCOME_UNKNOWN" ELSE "CONFLICT"

\* What the second look reports: the commit of a transaction that was not
\* acknowledged is decided by the exact states of the pair.
Observed(k) ==
  IF PairTerminal(k) THEN IF run.commit = "earlier" THEN "NOOP" ELSE "COMMITTED"
  ELSE IF run.commit \in {"lost", "failed"} /\ PairPre(k) THEN "ROLLED_BACK"
  ELSE "CONFLICT"

Reread ==
  /\ run.program = "cutover" /\ run.stage = "reread"
  /\ \/ Report(run.k, Observed(run.k), Wrote) /\ Proceed(PairTerminal(run.k))
     \/ Report(run.k, Unseen, Wrote) /\ Proceed(FALSE)
  /\ UNCHANGED <<vars, work, summary, lineage, reviewed, handed>>

-----------------------------------------------------------------------------
(* The repair: plan, review, apply. *)

AlreadyThere(l) == l \in lineage
LineConflict(l) ==
  \/ ~Present(l.from)
  \/ ~Enabled(l.to) \/ row[l.to].kind # "AGENT"
  \/ \E m \in lineage : m.from = l.from /\ m # l
  \/ \E m \in lineage : m.to = l.to /\ m.agent # l.agent

\* The plan document: its digest is what apply is given.
Observation ==
  [rows |-> [p \in {l.from : l \in Lines} \cup {l.to : l \in Lines} |->
               [kind |-> row[p].kind, enabled |-> row[p].enabled]],
   lines |-> lineage,
   affected |-> [l \in Lines |-> {i \in Works : work[i].holder = l.from /\ work[i].live}]]

PlanRepair ==
  /\ Stimulus
  /\ run = NotRunning /\ Lines # {}
  /\ \A l \in Lines : ~LineConflict(l)
  /\ reviewed' = <<Observation>>
  /\ UNCHANGED <<commands, work, summary, lineage, run, reports, handed>>

Fresh == reviewed = <<Observation>>

\* The lines are immutable, so the state after the commit tells what it did,
\* unless the look at it fails.
ApplyRepair ==
  /\ Stimulus
  /\ run = NotRunning /\ reviewed # << >>
  /\ \/ /\ \A l \in Lines : AlreadyThere(l)
        /\ UNCHANGED lineage
        /\ Report(RepairRun, "NOOP", FALSE)
     \/ /\ \E l \in Lines : ~AlreadyThere(l)
        /\ \/ /\ Fresh /\ lineage' = lineage \cup Lines
              /\ \E o \in {"COMMITTED", "CONFLICT", "OUTCOME_UNKNOWN"} : Report(RepairRun, o, TRUE)
           \/ UNCHANGED lineage /\ Report(RepairRun, "CONFLICT", FALSE)
           \/ Fresh /\ UNCHANGED lineage /\ Report(RepairRun, "OUTCOME_UNKNOWN", FALSE)
  /\ UNCHANGED <<commands, work, summary, reviewed, run, handed>>

-----------------------------------------------------------------------------
(* The normalization of human executors. *)

RowsExact == \A i \in HumanRows :
  work[i].live /\ work[i].version = 2 /\ work[i].holder = Human /\ work[i].by = "human"

RowsReady == \A i \in HumanRows :
  work[i].live /\ work[i].version = 1 /\ work[i].holder = Holder[i] /\ ~work[i].assisted

PrincipalsExact ==
  /\ Enabled(Human) /\ row[Human].kind = "HUMAN"
  /\ Enabled(Operator) /\ row[Operator].kind = "AGENT"

\* The rows of the group, each with its event, receipt and audit.
WriteRows ==
  /\ work' = [i \in Works |-> IF i \notin HumanRows THEN work[i] ELSE
                [work[i] EXCEPT !.version = @ + 1, !.holder = Human, !.by = "human"]]
  /\ handed' = [i \in Works |-> handed[i] + IF i \in HumanRows THEN 1 ELSE 0]
  /\ summary' = summary \cup {HumanRun}

Normalize ==
  /\ Stimulus
  /\ run = NotRunning /\ HumanRows # {} /\ PrincipalsExact
  /\ UNCHANGED <<commands, lineage, reviewed>>
  /\ \/ /\ HumanRun \in summary
        /\ Report(HumanRun, IF RowsExact THEN "NOOP" ELSE "CONFLICT", FALSE)
        /\ UNCHANGED <<work, summary, run, handed>>
     \/ /\ HumanRun \notin summary /\ ~RowsReady
        /\ Report(HumanRun, "CONFLICT", FALSE)
        /\ UNCHANGED <<work, summary, run, handed>>
     \/ /\ HumanRun \notin summary /\ RowsReady
        /\ WriteRows
        /\ \E a \in {"acknowledged", "lost"} :
             run' = [NotRunning EXCEPT !.program = "human", !.stage = "reread", !.commit = a]
        /\ UNCHANGED reports
     \/ /\ HumanRun \notin summary /\ RowsReady
        /\ run' = [NotRunning EXCEPT !.program = "human", !.stage = "reread", !.commit = "failed"]
        /\ UNCHANGED <<work, summary, reports, handed>>

VerifyRows ==
  /\ run.program = "human"
  /\ \/ RowsExact /\ HumanRun \in summary /\ Report(HumanRun, "APPLIED", Wrote)
     \/ Report(HumanRun, Unseen, Wrote)
  /\ run' = NotRunning
  /\ UNCHANGED <<vars, work, summary, lineage, reviewed, handed>>

\* The program is killed, or Auth no longer agrees with the plan.
Abandon == run # NotRunning /\ run' = NotRunning
           /\ UNCHANGED <<vars, work, summary, lineage, reviewed, reports, handed>>

-----------------------------------------------------------------------------
Serve == (\E c \in Clients : Handle(c)) /\ UNCHANGED programs
Live(i) == Advance(i) \/ End(i) \/ Assist(i)
Program == (\E s \in DOMAIN Scopes : StartCutover(s)) \/ ApplyPair \/ Reread
           \/ PlanRepair \/ ApplyRepair \/ Normalize \/ VerifyRows \/ Abandon

PNext == Serve \/ (\E i \in Works : Live(i)) \/ Program
Spec == PInit /\ [][PNext]_all
=============================================================================
