---------------------------- MODULE OwnerProofs ----------------------------
(***************************************************************************)
(* Theorems about OwnerObligation, for any number of cases, visits, owners  *)
(* and changes and for any managed graphs.                                  *)
(***************************************************************************)
EXTENDS OwnerProperties, TLAPS

-----------------------------------------------------------------------------
(* The two obligations of a case.                                           *)

Intake(c) == <<c, "INTAKE">>
Review(c) == <<c, "REVIEW">>

LEMMA Pairs ==
  /\ \A c \in Cases : /\ Intake(c) \in Obligations /\ Review(c) \in Obligations
                      /\ Intake(c)[1] = c /\ Review(c)[1] = c
                      /\ Intake(c)[2] = "INTAKE" /\ Review(c)[2] = "REVIEW"
  /\ \A i \in Obligations :
       /\ i[1] \in Cases /\ i[2] \in Kinds
       /\ i[2] = "INTAKE" => i = Intake(i[1])
       /\ i[2] = "REVIEW" => i = Review(i[1])
       /\ i[2] = "INTAKE" \/ i[2] = "REVIEW"
  BY DEF Obligations, Intake, Review, Kinds

(* A terminal node is not the first. *)
LEMMA LastNode == \A i \in Obligations : Last[i[2]] \in Nat /\ Last[i[2]] > 1
  BY Pairs, OwnerAssumption

-----------------------------------------------------------------------------
(* The inductive invariant.                                                 *)

(* A child that was never materialised has used no slot. *)
Unused(i) == child[i].node = 0 => \A n \in Nodes : effect[i][n] = "NOT_STARTED"

(* Only a child that ended has a verdict. *)
Ended(i) == child[i].verdict # "NONE" => AtTerminal(i)

(* A case nobody opened has no obligation. *)
Unasked(c) == cases[c].status = "NONE" => intent[Intake(c)] = "NONE"

(* CaseClosedByReview, case by case. *)
Closed(c) ==
  /\ cases[c].status = "RESOLVED" =>
       /\ \E n \in Nodes : effect[Review(c)][n] = "RESOLVE"
       /\ child[Intake(c)].verdict = "ACCEPTED"
  /\ cases[c].status = "HUMAN_REQUIRED" => \E n \in Nodes : effect[Review(c)][n] = "ESCALATE"
  /\ cases[c].status = "OWNER_PENDING" =>
       /\ SourceCurrent(c)
       /\ \A n \in Nodes : effect[Review(c)][n] \notin {"RESOLVE", "ESCALATE"}

(* ObligationFollowsChild, obligation by obligation. *)
Follows(i) ==
  /\ intent[i] \in {"NONE", "PENDING", "BLOCKED_KNOWN"} => child[i].node = 0
  /\ intent[i] \in {"MATERIALIZED", "COMPLETED"} => child[i].node > 0
  /\ AtTerminal(i) <=> intent[i] = "COMPLETED"
  /\ i[2] = "REVIEW" /\ intent[i] # "NONE" => intent[Intake(i[1])] = "COMPLETED"

(* An obligation that still counts has a case that does. *)
Current(i) ==
  intent[i] \in {"PENDING", "MATERIALIZED"} =>
    \/ SourceCurrent(i[1]) /\ cases[i[1]].status = "OWNER_PENDING"
    \/ i[2] = "REVIEW" /\ OwnCaseEffect(i)

Present(i) == intent[i] = "MATERIALIZED" => child[i].assignee = owner.who

(* OneLeafPerSlot, obligation by obligation. *)
OneLeaf(i) == \A n \in Nodes : leaves[i][n] = IF effect[i][n] = "CREATE" THEN 1 ELSE 0

IInv ==
  /\ TypeOK
  /\ \A i \in Obligations : /\ Unused(i) /\ Ended(i) /\ Follows(i)
                            /\ Current(i) /\ Present(i) /\ OneLeaf(i)
  /\ \A c \in Cases : Unasked(c) /\ Closed(c)

LEMMA InvariantImplies ==
  IInv => TypeOK /\ CaseClosedByReview /\ ObligationSafety
  <1> SUFFICES ASSUME IInv PROVE TypeOK /\ CaseClosedByReview /\ ObligationSafety
    OBVIOUS
  <1>1. CaseClosedByReview
    BY DEF IInv, CaseClosedByReview, Closed, Intake, Review
  <1>2. OneLeafPerSlot
    BY DEF IInv, OneLeafPerSlot, OneLeaf
  <1>3. ObligationFollowsChild
    BY DEF IInv, ObligationFollowsChild, Follows, Intake
  <1>4. RetirementIsImmediate
    BY DEF IInv, RetirementIsImmediate, Stale, Current
  <1>5. OldOwnerIsOut
    BY DEF IInv, OldOwnerIsOut, Present
  <1> QED
    BY <1>1, <1>2, <1>3, <1>4, <1>5 DEF IInv, ObligationSafety

(* DecisionsStay, as a relation between two states. *)
Decided(i) ==
  /\ Final(i) => intent'[i] = intent[i]
  /\ intent[i] \in {"STOPPED", "RETIRED"} =>
       child'[i].node = child[i].node /\ effect'[i] = effect[i]
Keeps == IInv' /\ \A i \in Obligations : Decided(i)

-----------------------------------------------------------------------------
(* Steps that leave the tables of the obligations alone.                    *)

Tables == <<source, cases, owner.who, intent, child, effect, leaves>>

LEMMA TablesUntouched ==
  ASSUME IInv, TypeOK', UNCHANGED Tables
  PROVE  Keeps
  <1>1. \A i \in Obligations : Unused(i)' /\ Ended(i)' /\ OneLeaf(i)'
    BY DEF IInv, Unused, Ended, OneLeaf, Tables, AtTerminal
  <1>2. \A i \in Obligations : Follows(i)'
    BY DEF IInv, Follows, Tables, AtTerminal
  <1>3. \A i \in Obligations : Current(i)' /\ Present(i)'
    BY DEF IInv, Current, Present, Tables, SourceCurrent, OwnCaseEffect
  <1>4. \A c \in Cases : Unasked(c)' /\ Closed(c)'
    BY DEF IInv, Unasked, Closed, Tables, SourceCurrent
  <1>5. \A i \in Obligations : Decided(i)
    BY DEF Decided, Tables
  <1> QED
    BY <1>1, <1>2, <1>3, <1>4, <1>5 DEF IInv, Keeps

-----------------------------------------------------------------------------
(* Steps that only settle obligations: what was decided or never asked for   *)
(* stays, anything else stays or is decided.                                *)

Settles ==
  \A i \in Obligations :
    \/ intent'[i] = intent[i]
    \/ /\ intent[i] \notin FinalStates \cup {"NONE"}
       /\ intent'[i] \in {"STOPPED", "RETIRED"}
    \/ intent[i] = "PENDING" /\ intent'[i] = "BLOCKED_KNOWN"

LEMMA SettlingKeeps ==
  ASSUME IInv, TypeOK', Settles, UNCHANGED <<source, cases, owner, child, effect, leaves>>
  PROVE  Keeps
  <1>1. \A i \in Obligations : Unused(i)' /\ Ended(i)' /\ OneLeaf(i)'
    BY DEF IInv, Unused, Ended, OneLeaf, AtTerminal
  <1>2. \A i \in Obligations : Follows(i)'
    <2> SUFFICES ASSUME NEW i \in Obligations PROVE Follows(i)'
      OBVIOUS
    <2>1. Follows(i) /\ (i[2] = "REVIEW" => Intake(i[1]) \in Obligations) /\ i[2] \in Kinds
      BY Pairs DEF IInv
    <2>2. AtTerminal(i)' <=> AtTerminal(i)
      BY DEF AtTerminal
    <2> QED
      BY <2>1, <2>2 DEF Follows, Settles, FinalStates
  <1>3. \A i \in Obligations : Current(i)' /\ Present(i)'
    BY DEF IInv, Current, Present, SourceCurrent, OwnCaseEffect, Settles
  <1>4. \A c \in Cases : Unasked(c)'
    BY Pairs DEF IInv, Unasked, Settles
  <1>5. \A c \in Cases : Closed(c)'
    BY DEF IInv, Closed, SourceCurrent
  <1>6. \A i \in Obligations : Decided(i)
    BY DEF Decided, Final, FinalStates, Settles
  <1> QED
    BY <1>1, <1>2, <1>3, <1>4, <1>5, <1>6 DEF IInv, Keeps

LEMMA StoppedSettles ==
  ASSUME TypeOK, NEW A, intent' = Stopped(intent, A)
  PROVE  Settles /\ intent' \in [Obligations -> IntentStates]
  BY DEF TypeOK, Stopped, Settles, IntentStates, FinalStates

LEMMA RetiredSettles ==
  ASSUME TypeOK, NEW A, intent' = Retired(intent, A)
  PROVE  Settles /\ intent' \in [Obligations -> IntentStates]
  BY DEF TypeOK, Retired, Settles, IntentStates, FinalStates

PassType == [phase : Phases, left : SUBSET Obligations, cleaning : Obligations \cup {NothingToClean}]

LEMMA DonePass ==
  ASSUME TypeOK, NEW i \in Obligations, Done(i)
  PROVE  pass' \in PassType
  BY DEF TypeOK, PassType, Done

LEMMA PassKeeps ==
  ASSUME IInv, BeginPass \/ EndCleanup \/ EndPass
               \/ \E i \in Obligations : BeginCleanup(i) \/ AbortCleanup(i) \/ SkipDecided(i)
  PROVE  Keeps
  <1>1. UNCHANGED Tables
    BY DEF Tables, BeginPass, EndCleanup, EndPass, BeginCleanup, AbortCleanup, SkipDecided
  <1>2. pass \in PassType /\ pass' \in PassType
    <2>1. CASE BeginPass
      BY <2>1 DEF IInv, TypeOK, PassType, BeginPass, Idle, Mismatched, Phases
    <2>4. CASE EndCleanup
      BY <2>4 DEF IInv, TypeOK, PassType, EndCleanup, Waiting, Phases
    <2>5. CASE EndPass
      BY <2>5 DEF IInv, TypeOK, PassType, EndPass, Idle, Phases
    <2>2. CASE \E i \in Obligations : BeginCleanup(i) \/ AbortCleanup(i)
      BY <2>2 DEF IInv, TypeOK, PassType, BeginCleanup, AbortCleanup, Idle, Phases
    <2>3. CASE \E i \in Obligations : SkipDecided(i)
      BY <2>3, DonePass DEF IInv, TypeOK, PassType, SkipDecided
    <2> QED
      BY <2>1, <2>2, <2>3, <2>4, <2>5
  <1>3. TypeOK'
    BY <1>2 DEF IInv, TypeOK, PassType, BeginPass, EndCleanup, EndPass, BeginCleanup, AbortCleanup, SkipDecided
  <1> QED
    BY <1>1, <1>3, TablesUntouched

LEMMA SettingKeeps ==
  ASSUME IInv, NEW b \in BOOLEAN, SetOwnerEnabled(b) \/ SetActorEnabled(b) \/ Restart(b)
  PROVE  Keeps
  <1>1. UNCHANGED Tables
    BY DEF IInv, TypeOK, Tables, SetOwnerEnabled, SetActorEnabled, Restart
  <1>2. owner' \in [who : Owners, enabled : BOOLEAN] /\ actor' \in [configured : BOOLEAN, enabled : BOOLEAN]
    BY DEF IInv, TypeOK, SetOwnerEnabled, SetActorEnabled, Restart
  <1>3. changes' \in 0..MaxChanges /\ pass' \in PassType
    BY OwnerAssumption
       DEF IInv, TypeOK, PassType, SetOwnerEnabled, SetActorEnabled, Restart, Change, Idle, Phases, NothingToClean
  <1>4. TypeOK'
    BY <1>1, <1>2, <1>3 DEF IInv, TypeOK, PassType, Tables, SetOwnerEnabled, SetActorEnabled, Restart
  <1> QED
    BY <1>1, <1>4, TablesUntouched

LEMMA StoppingKeeps ==
  ASSUME IInv, NEW i \in Obligations,
         (\E n \in Nodes : StopUnderWrongActor(i, n)) \/ StopNested(i) \/ StopMismatch(i)
  PROVE  Keeps
  <1>1. Settles /\ intent' \in [Obligations -> IntentStates]
    <2>1. CASE intent' = intent
      BY <2>1 DEF Settles, IInv, TypeOK
    <2>2. CASE intent' = Stopped(intent, {i})
      BY <2>2, StoppedSettles DEF IInv
    <2> QED
      BY <2>1, <2>2 DEF StopUnderWrongActor, StopNested, StopMismatch
  <1>2. TypeOK'
    BY <1>1 DEF IInv, TypeOK, StopUnderWrongActor, StopNested, StopMismatch
  <1> QED
    BY <1>1, <1>2, SettlingKeeps DEF StopUnderWrongActor, StopNested, StopMismatch

LEMMA DecidingKeeps ==
  ASSUME IInv, NEW i \in Obligations, GiveUpIntent(i) \/ BlockIntent(i)
  PROVE  Keeps
  <1>1. Settles
    BY DEF IInv, TypeOK, Settles, GiveUpIntent, BlockIntent, FinalStates
  <1>2. pass' \in PassType
    BY DonePass DEF IInv, GiveUpIntent, BlockIntent
  <1>4. intent' \in [Obligations -> IntentStates]
    BY DEF IInv, TypeOK, GiveUpIntent, BlockIntent, IntentStates, FinalStates
  <1>3. TypeOK'
    BY <1>2, <1>4 DEF IInv, TypeOK, PassType, GiveUpIntent, BlockIntent
  <1> QED
    BY <1>1, <1>3, SettlingKeeps DEF GiveUpIntent, BlockIntent

LEMMA RetireStaleKeeps ==
  ASSUME IInv, RetireStale
  PROVE  Keeps
  <1>1. Settles /\ intent' \in [Obligations -> IntentStates]
    <2>1. CASE intent' = intent
      BY <2>1 DEF Settles, IInv, TypeOK
    <2>2. CASE intent' = Retired(intent, {i \in Obligations : i[2] = "REVIEW" /\ OwnCaseEffect(i)})
      BY <2>2, RetiredSettles DEF IInv
    <2> QED
      BY <2>1, <2>2 DEF RetireStale
  <1>2. pass' \in PassType
    BY DEF RetireStale, IInv, TypeOK, PassType, Phases, Abandoned
  <1>3. TypeOK'
    BY <1>1, <1>2 DEF IInv, TypeOK, PassType, RetireStale
  <1> QED
    BY <1>1, <1>3, SettlingKeeps DEF RetireStale

-----------------------------------------------------------------------------
(* Commands on the source and the domain.                                   *)

LEMMA ReplaceOwnerKeeps ==
  ASSUME IInv, NEW o \in Owners, ReplaceOwner(o)
  PROVE  Keeps
  <1>1. Settles /\ intent' \in [Obligations -> IntentStates]
    BY StoppedSettles DEF IInv, ReplaceOwner
  <1>2. \A i \in Obligations : intent'[i] # "MATERIALIZED"
    BY DEF IInv, TypeOK, ReplaceOwner, Stopped, FinalStates
  <1>3. TypeOK'
    BY <1>1, OwnerAssumption DEF IInv, TypeOK, ReplaceOwner, Change
  <1>4. \A i \in Obligations : Unused(i)' /\ Ended(i)' /\ OneLeaf(i)' /\ Follows(i)'
    <2> SUFFICES ASSUME NEW i \in Obligations
                 PROVE Unused(i)' /\ Ended(i)' /\ OneLeaf(i)' /\ Follows(i)'
      OBVIOUS
    <2>1. Unused(i)' /\ Ended(i)' /\ OneLeaf(i)'
      BY DEF IInv, Unused, Ended, OneLeaf, AtTerminal, ReplaceOwner
    <2>2. Follows(i) /\ (i[2] = "REVIEW" => Intake(i[1]) \in Obligations)
      BY Pairs DEF IInv
    <2>3. AtTerminal(i)' <=> AtTerminal(i)
      BY DEF AtTerminal, ReplaceOwner
    <2> QED
      BY <1>1, <2>1, <2>2, <2>3 DEF Follows, Settles, FinalStates, ReplaceOwner
  <1>5. \A i \in Obligations : Current(i)' /\ Present(i)'
    BY <1>1, <1>2 DEF IInv, Current, Present, SourceCurrent, OwnCaseEffect, Settles, ReplaceOwner
  <1>6. \A c \in Cases : Unasked(c)' /\ Closed(c)'
    BY <1>1, Pairs DEF IInv, Unasked, Closed, Settles, SourceCurrent, ReplaceOwner
  <1>7. \A i \in Obligations : Decided(i)
    BY <1>1 DEF Decided, Final, FinalStates, Settles, ReplaceOwner
  <1> QED
    BY <1>3, <1>4, <1>5, <1>6, <1>7 DEF IInv, Keeps

(* A source that is cancelled or overridden leaves no obligation waiting.    *)
LEMMA VoidingKeeps ==
  ASSUME IInv, CancelSource \/ OverrideSource
  PROVE  Keeps
  <1>1. /\ Settles /\ intent' \in [Obligations -> IntentStates]
        /\ \A i \in Obligations : intent'[i] \notin {"PENDING", "MATERIALIZED"}
    <2>1. intent' = Retired(intent, {})
      BY DEF CancelSource, OverrideSource, VoidOpenCases
    <2>2. \A i \in Obligations : intent'[i] \notin {"PENDING", "MATERIALIZED"}
      BY <2>1 DEF IInv, TypeOK, Retired, FinalStates
    <2> QED
      BY <2>1, <2>2, RetiredSettles DEF IInv
  <1>2. source' \in [live : BOOLEAN, visit : 1..MaxVisits]
    <2>1. source \in [live : BOOLEAN, visit : 1..MaxVisits] /\ MaxVisits \in Nat
      BY OwnerAssumption DEF IInv, TypeOK
    <2>2. CASE CancelSource
      BY <2>1, <2>2 DEF CancelSource
    <2>3. CASE OverrideSource
      <3>1. source.visit + 1 \in 1..MaxVisits
        BY <2>1, <2>3 DEF OverrideSource
      <3> QED
        BY <2>3, <3>1 DEF OverrideSource
    <2> QED
      BY <2>2, <2>3
  <1>3. \A c \in Cases :
          /\ cases'[c] \in [status : CaseStatuses, visit : 0..MaxVisits]
          /\ cases'[c].status # "OWNER_PENDING"
          /\ cases'[c].status \in {cases[c].status, "VOIDED"}
    BY DEF IInv, TypeOK, CancelSource, OverrideSource, VoidOpenCases, OpenCases, CaseStatuses
  <1>4. cases' \in [Cases -> [status : CaseStatuses, visit : 0..MaxVisits]]
    <2>1. cases' = [c \in Cases |-> cases'[c]]
      BY DEF CancelSource, OverrideSource, VoidOpenCases
    <2> QED
      BY <1>3, <2>1
  <1>5. UNCHANGED <<owner, actor, child, effect, leaves, refused, pass, changes>>
    BY DEF CancelSource, OverrideSource
  <1>6. TypeOK'
    BY <1>1, <1>2, <1>4, <1>5 DEF IInv, TypeOK
  <1>7. \A i \in Obligations : Unused(i)' /\ Ended(i)' /\ OneLeaf(i)' /\ Follows(i)'
    <2> SUFFICES ASSUME NEW i \in Obligations
                 PROVE Unused(i)' /\ Ended(i)' /\ OneLeaf(i)' /\ Follows(i)'
      OBVIOUS
    <2>1. Unused(i)' /\ Ended(i)' /\ OneLeaf(i)'
      BY <1>5 DEF IInv, Unused, Ended, OneLeaf, AtTerminal
    <2>2. Follows(i) /\ (i[2] = "REVIEW" => Intake(i[1]) \in Obligations)
      BY Pairs DEF IInv
    <2>3. AtTerminal(i)' <=> AtTerminal(i)
      BY <1>5 DEF AtTerminal
    <2> QED
      BY <1>1, <1>5, <2>1, <2>2, <2>3 DEF Follows, Settles, FinalStates
  <1>8. \A i \in Obligations : Current(i)' /\ Present(i)'
    BY <1>1 DEF Current, Present
  <1>9. \A c \in Cases : Unasked(c)'
    BY <1>1, <1>3, Pairs DEF IInv, Unasked, Settles
  <1>10. \A c \in Cases : Closed(c)'
    BY <1>3, <1>5 DEF IInv, Closed
  <1>11. \A i \in Obligations : Decided(i)
    BY <1>1, <1>5 DEF Decided, Final, FinalStates, Settles
  <1> QED
    BY <1>6, <1>7, <1>8, <1>9, <1>10, <1>11 DEF IInv, Keeps

(* A source moves on only from a visit that has no open case.                *)
LEMMA MoveSourceKeeps ==
  ASSUME IInv, MoveSource
  PROVE  Keeps
  <1>1. TypeOK'
    <2>1. source \in [live : BOOLEAN, visit : 1..MaxVisits] /\ MaxVisits \in Nat
      BY OwnerAssumption DEF IInv, TypeOK
    <2>2. source.visit + 1 \in 1..MaxVisits
      BY <2>1 DEF MoveSource
    <2>3. source' \in [live : BOOLEAN, visit : 1..MaxVisits]
      BY <2>1, <2>2 DEF MoveSource
    <2> QED
      BY <2>3 DEF IInv, TypeOK, MoveSource
  <1>2. \A c \in Cases : cases[c].status # "OWNER_PENDING"
    BY DEF IInv, Closed, SourceCurrent, MoveSource, OpenCases
  <1>3. \A i \in Obligations : Unused(i)' /\ Ended(i)' /\ OneLeaf(i)' /\ Follows(i)' /\ Present(i)'
    BY DEF IInv, Unused, Ended, OneLeaf, Follows, Present, AtTerminal, MoveSource
  <1>4. \A i \in Obligations : Current(i)'
    BY <1>2, Pairs DEF IInv, Current, OwnCaseEffect, MoveSource
  <1>5. \A c \in Cases : Unasked(c)' /\ Closed(c)'
    BY <1>2 DEF IInv, Unasked, Closed, MoveSource
  <1>6. \A i \in Obligations : Decided(i)
    BY DEF Decided, MoveSource
  <1> QED
    BY <1>1, <1>3, <1>4, <1>5, <1>6 DEF IInv, Keeps

LEMMA RequestKeeps ==
  ASSUME IInv, NEW c \in Cases, Request(c)
  PROVE  Keeps
  <1>1. /\ intent' = [intent EXCEPT ![Intake(c)] = "PENDING"]
        /\ cases' = [cases EXCEPT ![c] = [status |-> "OWNER_PENDING", visit |-> source.visit]]
        /\ UNCHANGED <<source, owner, actor, child, effect, leaves, refused, pass, changes>>
        /\ cases[c].status = "NONE" /\ source.live
    BY DEF Request, Intake
  <1>2. intent[Intake(c)] = "NONE" /\ intent[Review(c)] = "NONE"
    BY <1>1, Pairs DEF IInv, Unasked, Follows
  <1>3. child[Intake(c)].node = 0 /\ child[Review(c)].node = 0
    BY <1>2, Pairs DEF IInv, Follows
  <1>4. intent' \in [Obligations -> IntentStates]
    BY <1>1, Pairs DEF IInv, TypeOK, IntentStates
  <1>5. cases' \in [Cases -> [status : CaseStatuses, visit : 0..MaxVisits]]
    BY <1>1, OwnerAssumption DEF IInv, TypeOK, CaseStatuses
  <1>6. TypeOK'
    BY <1>1, <1>4, <1>5 DEF IInv, TypeOK
  <1>7. \A i \in Obligations : Unused(i)' /\ Ended(i)' /\ OneLeaf(i)'
    BY <1>1 DEF IInv, Unused, Ended, OneLeaf, AtTerminal
  <1>8. \A i \in Obligations : intent'[i] = IF i = Intake(c) THEN "PENDING" ELSE intent[i]
    BY <1>1 DEF IInv, TypeOK
  <1>9. \A i \in Obligations : Follows(i)'
    <2> SUFFICES ASSUME NEW i \in Obligations PROVE Follows(i)'
      OBVIOUS
    <2>1. Follows(i) /\ (i[2] = "REVIEW" => Intake(i[1]) \in Obligations)
      BY Pairs DEF IInv
    <2>2. AtTerminal(i)' <=> AtTerminal(i)
      BY <1>1 DEF AtTerminal
    <2>3. Intake(c)[2] # "REVIEW"
      BY Pairs
    <2> QED
      BY <1>1, <1>2, <1>3, <1>8, <2>1, <2>2, <2>3 DEF Follows
  <1>10. \A d \in Cases : cases'[d] = IF d = c THEN [status |-> "OWNER_PENDING", visit |-> source.visit]
                                       ELSE cases[d]
    BY <1>1 DEF IInv, TypeOK
  <1>11. \A i \in Obligations : Current(i)'
    <2> SUFFICES ASSUME NEW i \in Obligations PROVE Current(i)'
      OBVIOUS
    <2>1. i[1] \in Cases /\ Current(i) /\ Intake(c)[1] = c
      BY Pairs DEF IInv
    <2>2. OwnCaseEffect(i)' <=> OwnCaseEffect(i)
      BY <1>1 DEF OwnCaseEffect
    <2>3. CASE i[1] = c
      BY <1>1, <1>10, <2>1, <2>3 DEF Current, SourceCurrent
    <2>4. CASE i[1] # c
      BY <1>1, <1>8, <1>10, <2>1, <2>2, <2>4 DEF Current, SourceCurrent
    <2> QED
      BY <2>3, <2>4
  <1>12. \A i \in Obligations : Present(i)'
    BY <1>1, <1>8 DEF IInv, Present
  <1>13. \A d \in Cases : Unasked(d)' /\ Closed(d)'
    <2> SUFFICES ASSUME NEW d \in Cases PROVE Unasked(d)' /\ Closed(d)'
      OBVIOUS
    <2>1. CASE d = c
      <3>1. \A n \in Nodes : effect[Review(c)][n] = "NOT_STARTED"
        BY <1>3, Pairs DEF IInv, Unused
      <3> QED
        BY <1>1, <1>10, <2>1, <3>1 DEF Unasked, Closed, SourceCurrent
    <2>2. CASE d # c
      <3>1. Intake(d) # Intake(c) /\ Intake(d) \in Obligations
        BY <2>2, Pairs
      <3> QED
        BY <1>1, <1>8, <1>10, <2>2, <3>1 DEF IInv, Unasked, Closed, SourceCurrent
    <2> QED
      BY <2>1, <2>2
  <1>14. \A i \in Obligations : Decided(i)
    BY <1>1, <1>2, <1>8 DEF Decided, Final, FinalStates
  <1> QED
    BY <1>6, <1>7, <1>9, <1>11, <1>12, <1>13, <1>14 DEF IInv, Keeps

-----------------------------------------------------------------------------
(* Commands on a managed instance and its materialisation.                  *)

(* The child of one obligation changes, which goes on as it was.            *)
ChildrenTyped == DOMAIN child = Obligations /\ \A i \in Obligations : child[i] \in Children(i[2])

LEMMA ChildUpdate ==
  ASSUME TypeOK, NEW i \in Obligations, NEW r \in Children(i[2]),
         child' = [child EXCEPT ![i] = r]
  PROVE  /\ ChildrenTyped'
         /\ \A j \in Obligations : child'[j] = IF j = i THEN r ELSE child[j]
  BY DEF TypeOK, ChildrenTyped

LEMMA ClosingKeeps ==
  ASSUME IInv, NEW i \in Obligations, CloseChild(i) \/ FinishCleanup(i)
  PROVE  Keeps
  <1>1. /\ UNCHANGED <<source, cases, owner, actor, intent, effect, leaves, changes>>
        /\ child' = child \/ child' = [child EXCEPT ![i] = [child[i] EXCEPT !.gone = TRUE]]
    BY DEF CloseChild, FinishCleanup
  <1>2. ChildrenTyped' /\ \A j \in Obligations : /\ child'[j].node = child[j].node
                                                 /\ child'[j].verdict = child[j].verdict
                                                 /\ child'[j].assignee = child[j].assignee
    <2>1. CASE child' = child
      BY <2>1 DEF IInv, TypeOK, ChildrenTyped
    <2>2. CASE child' = [child EXCEPT ![i] = [child[i] EXCEPT !.gone = TRUE]]
      <3>1. child[i] \in Children(i[2]) /\ [child[i] EXCEPT !.gone = TRUE] \in Children(i[2])
        BY DEF IInv, TypeOK, Children
      <3>2. /\ ChildrenTyped'
            /\ \A j \in Obligations :
                 child'[j] = IF j = i THEN [child[i] EXCEPT !.gone = TRUE] ELSE child[j]
        BY <2>2, <3>1, ChildUpdate DEF IInv
      <3> QED
        BY <3>1, <3>2 DEF Children
    <2> QED
      BY <1>1, <2>1, <2>2
  <1>3. pass' \in PassType /\ refused' \subseteq Obligations
    <2>1. CASE CloseChild(i)
      BY <2>1 DEF IInv, TypeOK, PassType, CloseChild
    <2>2. CASE FinishCleanup(i)
      <3>1. pass \in PassType /\ refused \subseteq Obligations
        BY DEF IInv, TypeOK, PassType
      <3>2. CASE actor.enabled
        <4>1. /\ pass' = [pass EXCEPT !.left = pass.left \ {i}, !.cleaning = NothingToClean]
              /\ refused' = refused
          BY <2>2, <3>2 DEF FinishCleanup
        <4> QED
          BY <3>1, <4>1 DEF PassType
      <3>3. CASE ~actor.enabled
        BY <2>2, <3>1, <3>3 DEF PassType, FinishCleanup, Idle, Phases
      <3> QED
        BY <3>2, <3>3
    <2> QED
      BY <2>1, <2>2
  <1>4. TypeOK'
    BY <1>1, <1>2, <1>3 DEF IInv, TypeOK, ChildrenTyped, PassType
  <1>5. \A j \in Obligations : AtTerminal(j)' <=> AtTerminal(j)
    BY <1>2 DEF AtTerminal
  <1>6. \A j \in Obligations : Unused(j)' /\ Ended(j)' /\ OneLeaf(j)' /\ Follows(j)'
    BY <1>1, <1>2, <1>5 DEF IInv, Unused, Ended, OneLeaf, Follows
  <1>7. \A j \in Obligations : Current(j)' /\ Present(j)'
    BY <1>1, <1>2 DEF IInv, Current, Present, SourceCurrent, OwnCaseEffect
  <1>8. \A c \in Cases : Unasked(c)' /\ Closed(c)'
    BY <1>1, <1>2, Pairs DEF IInv, Unasked, Closed, SourceCurrent
  <1>9. \A j \in Obligations : Decided(j)
    BY <1>1, <1>2 DEF Decided
  <1> QED
    BY <1>4, <1>6, <1>7, <1>8, <1>9 DEF IInv, Keeps

(* A transition before the last node. *)
LEMMA MoveKeeps ==
  ASSUME IInv, NEW i \in Obligations, NEW m \in Nodes, Move(i, m)
  PROVE  Keeps
  <1> DEFINE r == [child[i] EXCEPT !.node = m, !.assignee = owner.who]
  <1>1. /\ UNCHANGED <<source, cases, owner, actor, intent, effect, leaves, refused, pass, changes>>
        /\ child' = [child EXCEPT ![i] = r]
        /\ m \in 1..(Last[i[2]] - 1) /\ child[i].node < Last[i[2]]
        /\ child[i].node > 0 /\ intent[i] \notin {"STOPPED", "RETIRED"}
    BY DEF Move, Transitional, Active, Live
  <1>2. /\ child[i] \in Children(i[2]) /\ r \in Children(i[2])
        /\ r.node = m /\ r.assignee = owner.who /\ r.verdict = child[i].verdict
    <2>1. child[i] \in Children(i[2]) /\ owner.who \in Owners
      BY DEF IInv, TypeOK
    <2>2. m \in 0..Last[i[2]]
      BY <1>1, LastNode
    <2> QED
      BY <2>1, <2>2 DEF Children
  <1> HIDE DEF r
  <1>3. ChildrenTyped' /\ \A j \in Obligations : child'[j] = IF j = i THEN r ELSE child[j]
    BY <1>1, <1>2, ChildUpdate DEF IInv
  <1>4. TypeOK'
    BY <1>1, <1>3 DEF IInv, TypeOK, ChildrenTyped
  <1>5. \A j \in Obligations : AtTerminal(j)' <=> AtTerminal(j)
    BY <1>1, <1>2, <1>3, LastNode DEF AtTerminal, Children
  <1>6. m > 0 /\ m \in Nat
    BY <1>1, LastNode
  <1>7. \A j \in Obligations : Unused(j)' /\ Ended(j)' /\ OneLeaf(j)' /\ Follows(j)'
    <2> SUFFICES ASSUME NEW j \in Obligations
                 PROVE Unused(j)' /\ Ended(j)' /\ OneLeaf(j)' /\ Follows(j)'
      OBVIOUS
    <2>1. Unused(j) /\ Ended(j) /\ OneLeaf(j) /\ Follows(j)
      BY DEF IInv
    <2>2. CASE j = i
      BY <1>1, <1>2, <1>3, <1>5, <1>6, <2>1, <2>2 DEF Unused, Ended, OneLeaf, Follows
    <2>3. CASE j # i
      BY <1>1, <1>3, <1>5, <2>1, <2>3 DEF Unused, Ended, OneLeaf, Follows
    <2> QED
      BY <2>2, <2>3
  <1>8. \A j \in Obligations : Current(j)' /\ Present(j)'
    BY <1>1, <1>2, <1>3 DEF IInv, Current, Present, SourceCurrent, OwnCaseEffect
  <1>9. \A c \in Cases : Unasked(c)' /\ Closed(c)'
    BY <1>1, <1>2, <1>3, Pairs DEF IInv, Unasked, Closed, SourceCurrent
  <1>10. \A j \in Obligations : Decided(j)
    BY <1>1, <1>3 DEF Decided
  <1> QED
    BY <1>4, <1>7, <1>8, <1>9, <1>10 DEF IInv, Keeps

LEMMA MaterializeKeeps ==
  ASSUME IInv, NEW i \in Obligations, Materialize(i)
  PROVE  Keeps
  <1> DEFINE r == [NoChild EXCEPT !.node = 1, !.assignee = owner.who]
  <1>1. /\ UNCHANGED <<source, cases, owner, actor, effect, leaves, refused, changes>>
        /\ child' = [child EXCEPT ![i] = r]
        /\ intent' = [intent EXCEPT ![i] = "MATERIALIZED"]
        /\ intent[i] = "PENDING" /\ Done(i)
        /\ cases[i[1]].status = "OWNER_PENDING" /\ SourceCurrent(i[1])
    BY DEF Materialize, CaseActive
  <1>2. /\ r \in Children(i[2])
        /\ r.node = 1 /\ r.assignee = owner.who /\ r.verdict = "NONE"
    <2>1. NoChild \in Children(i[2]) /\ NoChild.verdict = "NONE"
      BY LastNode DEF NoChild, Children, Verdicts
    <2>2. 1 \in 0..Last[i[2]] /\ owner.who \in Owners
      BY LastNode DEF IInv, TypeOK
    <2> QED
      BY <2>1, <2>2 DEF Children
  <1> HIDE DEF r
  <1>3. ChildrenTyped' /\ \A j \in Obligations : child'[j] = IF j = i THEN r ELSE child[j]
    BY <1>1, <1>2, ChildUpdate DEF IInv
  <1>4. /\ intent' \in [Obligations -> IntentStates]
        /\ \A j \in Obligations : intent'[j] = IF j = i THEN "MATERIALIZED" ELSE intent[j]
    BY <1>1 DEF IInv, TypeOK, IntentStates
  <1>5. TypeOK'
    BY <1>1, <1>3, <1>4, DonePass DEF IInv, TypeOK, ChildrenTyped, PassType
  <1>6. child[i].node = 0 /\ child[i].verdict = "NONE"
    BY <1>1, LastNode DEF IInv, Follows, Ended, AtTerminal
  <1>7. \A j \in Obligations : Unused(j)' /\ Ended(j)' /\ OneLeaf(j)' /\ Follows(j)'
    <2> SUFFICES ASSUME NEW j \in Obligations
                 PROVE Unused(j)' /\ Ended(j)' /\ OneLeaf(j)' /\ Follows(j)'
      OBVIOUS
    <2>1. /\ Unused(j) /\ Ended(j) /\ OneLeaf(j) /\ Follows(j)
          /\ j[2] = "REVIEW" => Intake(j[1]) \in Obligations
      BY Pairs DEF IInv
    <2>2. CASE j = i
      <3>1. r.node = 1 /\ 1 # Last[i[2]] /\ r.verdict = "NONE"
        BY <1>2, LastNode
      <3>2. ~AtTerminal(j)'
        BY <1>1, <1>3, <2>2, <3>1, OwnerAssumption DEF AtTerminal
      <3> QED
        BY <1>1, <1>3, <1>4, <1>6, <2>1, <2>2, <3>1, <3>2 DEF Unused, Ended, OneLeaf, Follows
    <2>3. CASE j # i
      <3>1. AtTerminal(j)' <=> AtTerminal(j)
        BY <1>3, <2>3 DEF AtTerminal
      <3> QED
        BY <1>1, <1>3, <1>4, <2>1, <2>3, <3>1 DEF Unused, Ended, OneLeaf, Follows
    <2> QED
      BY <2>2, <2>3
  <1>8. \A j \in Obligations : Current(j)' /\ Present(j)'
    BY <1>1, <1>2, <1>3, <1>4 DEF IInv, Current, Present, SourceCurrent, OwnCaseEffect
  <1>9. \A c \in Cases : Unasked(c)' /\ Closed(c)'
    <2> SUFFICES ASSUME NEW c \in Cases PROVE Unasked(c)' /\ Closed(c)'
      OBVIOUS
    <2>1. Unasked(c) /\ Closed(c) /\ Intake(c) \in Obligations /\ Intake(c)[1] = c
      BY Pairs DEF IInv
    <2>2. Intake(c) # i \/ cases[c].status # "NONE"
      BY <1>1, <2>1
    <2> QED
      BY <1>1, <1>3, <1>4, <1>6, <2>1, <2>2 DEF Unasked, Closed, SourceCurrent
  <1>10. \A j \in Obligations : Decided(j)
    BY <1>1, <1>3, <1>4 DEF Decided, Final, FinalStates
  <1> QED
    BY <1>5, <1>7, <1>8, <1>9, <1>10 DEF IInv, Keeps

(* The end of an instance completes its obligation; an INTAKE's creates the   *)
(* REVIEW's.                                                                *)
LEMMA FinishKeeps ==
  ASSUME IInv, NEW i \in Obligations, NEW v \in {"ACCEPTED", "NOT_ACCEPTED"}, Finish(i, v)
  PROVE  Keeps
  <1> DEFINE x == IF i[2] = "INTAKE" THEN v ELSE "NONE"
             r == [child[i] EXCEPT !.node = Last[i[2]], !.verdict = x]
  <1>1. /\ UNCHANGED <<source, cases, owner, actor, effect, leaves, refused, pass, changes>>
        /\ child' = [child EXCEPT ![i] = r]
        /\ child[i].node > 0 /\ child[i].node = Last[i[2]] - 1
        /\ intent[i] \notin {"STOPPED", "RETIRED"}
        /\ \/ cases[i[1]].status = "OWNER_PENDING" /\ SourceCurrent(i[1])
           \/ i[2] = "REVIEW" /\ OwnCaseEffect(i)
    BY DEF Finish, Transitional, Active, Live
  <1>2. /\ child[i] \in Children(i[2]) /\ r \in Children(i[2])
        /\ r.node = Last[i[2]] /\ r.assignee = child[i].assignee /\ r.verdict = x
    <2>1. child[i] \in Children(i[2])
      BY DEF IInv, TypeOK
    <2>2. Last[i[2]] \in 0..Last[i[2]] /\ x \in Verdicts
      BY LastNode DEF Verdicts
    <2> HIDE DEF x
    <2> QED
      BY <2>1, <2>2 DEF Children
  <1> HIDE DEF r
  <1>3. ChildrenTyped' /\ \A j \in Obligations : child'[j] = IF j = i THEN r ELSE child[j]
    BY <1>1, <1>2, ChildUpdate DEF IInv
  <1>4. intent[i] = "MATERIALIZED"
    <2>1. child[i].node # Last[i[2]] /\ child[i].node # 0
      BY <1>1, LastNode
    <2> QED
      BY <1>1, <2>1 DEF IInv, TypeOK, IntentStates, FinalStates, Follows, AtTerminal
  <1>5. \A j \in Obligations :
          intent'[j] = IF j = i THEN "COMPLETED"
                       ELSE IF i[2] = "INTAKE" /\ j = Review(i[1]) /\ intent[j] = "NONE"
                       THEN "PENDING" ELSE intent[j]
    BY <1>4 DEF Finish, Review
  <1>6. intent' \in [Obligations -> IntentStates]
    <2>1. intent' = [j \in Obligations |-> intent'[j]]
      BY DEF Finish
    <2>2. \A j \in Obligations : intent'[j] \in IntentStates
      BY <1>5 DEF IInv, TypeOK, IntentStates, FinalStates
    <2> QED
      BY <2>1, <2>2
  <1>7. TypeOK'
    BY <1>1, <1>3, <1>6 DEF IInv, TypeOK, ChildrenTyped
  <1>8. \A j \in Obligations : AtTerminal(j)' <=> (j = i \/ AtTerminal(j))
    BY <1>2, <1>3 DEF AtTerminal
  <1>9. \A j \in Obligations : Unused(j)' /\ Ended(j)' /\ OneLeaf(j)'
    <2> SUFFICES ASSUME NEW j \in Obligations PROVE Unused(j)' /\ Ended(j)' /\ OneLeaf(j)'
      OBVIOUS
    <2>1. Unused(j) /\ Ended(j) /\ OneLeaf(j)
      BY DEF IInv
    <2>2. Last[i[2]] # 0
      BY LastNode
    <2> QED
      BY <1>1, <1>2, <1>3, <1>8, <2>1, <2>2 DEF Unused, Ended, OneLeaf
  <1>10. \A j \in Obligations : Follows(j)'
    <2> SUFFICES ASSUME NEW j \in Obligations PROVE Follows(j)'
      OBVIOUS
    <2>1. /\ Follows(j)
          /\ i[2] = "INTAKE" => i = Intake(i[1]) /\ Review(i[1])[2] = "REVIEW" /\ Review(i[1])[1] = i[1]
          /\ j[2] = "REVIEW" => Intake(j[1]) \in Obligations /\ Intake(j[1])[2] = "INTAKE"
          /\ i[2] = "INTAKE" \/ i[2] = "REVIEW"
      BY Pairs DEF IInv
    <2>2. Follows(i) /\ (i[2] = "REVIEW" => intent[Intake(i[1])] = "COMPLETED")
      BY <1>4 DEF IInv, Follows
    <2>3. CASE j = i
      <3>1. Last[i[2]] > 0
        BY LastNode
      <3>2. j[2] = "REVIEW" => intent'[Intake(j[1])] = "COMPLETED"
        BY <1>5, <2>1, <2>2, <2>3
      <3> QED
        BY <1>2, <1>3, <1>5, <1>8, <2>3, <3>1, <3>2 DEF Follows
    <2>4. CASE j # i
      <3>1. j[2] = "REVIEW" /\ intent'[j] # "NONE" => intent'[Intake(j[1])] = "COMPLETED"
        BY <1>4, <1>5, <2>1, <2>4 DEF Follows
      <3>2. child'[j] = child[j] /\ (AtTerminal(j)' <=> AtTerminal(j))
        BY <1>3, <1>8, <2>4
      <3> QED
        BY <1>5, <2>1, <2>4, <3>1, <3>2 DEF Follows
    <2> QED
      BY <2>3, <2>4
  <1>11. \A j \in Obligations : Current(j)' /\ Present(j)'
    <2> SUFFICES ASSUME NEW j \in Obligations PROVE Current(j)' /\ Present(j)'
      OBVIOUS
    <2>1. /\ Current(j) /\ Present(j)
          /\ i[2] = "INTAKE" => Review(i[1])[1] = i[1] /\ i[2] # "REVIEW"
      BY Pairs DEF IInv
    <2>2. OwnCaseEffect(j)' <=> OwnCaseEffect(j)
      BY <1>1 DEF OwnCaseEffect
    <2> QED
      BY <1>1, <1>3, <1>5, <2>1, <2>2 DEF Current, Present, SourceCurrent
  <1>12. \A c \in Cases : Unasked(c)' /\ Closed(c)'
    <2> SUFFICES ASSUME NEW c \in Cases PROVE Unasked(c)' /\ Closed(c)'
      OBVIOUS
    <2>1. /\ Unasked(c) /\ Closed(c) /\ Intake(c) \in Obligations
          /\ Intake(c)[2] = "INTAKE" /\ Review(i[1])[2] = "REVIEW"
      BY Pairs DEF IInv
    <2>2. Unasked(c)'
      BY <1>1, <1>4, <1>5, <2>1 DEF Unasked
    <2>3. child[i].verdict = "NONE"
      BY <1>1, LastNode DEF IInv, Ended, AtTerminal
    <2> QED
      BY <1>1, <1>3, <2>1, <2>2, <2>3 DEF Closed, SourceCurrent
  <1>13. \A j \in Obligations : Decided(j)
    BY <1>1, <1>3, <1>4, <1>5 DEF Decided, Final, FinalStates
  <1> QED
    BY <1>7, <1>9, <1>10, <1>11, <1>12, <1>13 DEF IInv, Keeps

-----------------------------------------------------------------------------
(* The operation effects.                                                   *)

(* One slot of one obligation is used, and none is used again. *)
LEMMA SlotUpdate ==
  ASSUME TypeOK, NEW i \in Obligations, NEW n \in Nodes, NEW op \in EffectStates,
         effect' = [effect EXCEPT ![i][n] = op]
  PROVE  /\ effect' \in [Obligations -> [Nodes -> EffectStates]]
         /\ \A j \in Obligations, m \in Nodes :
              effect'[j][m] = IF j = i /\ m = n THEN op ELSE effect[j][m]
         /\ \A j \in Obligations : j # i => effect'[j] = effect[j]
  BY DEF TypeOK

LEMMA RejectKeeps ==
  ASSUME IInv, NEW i \in Obligations, NEW n \in Nodes, RejectOperation(i, n)
  PROVE  Keeps
  <1>1. /\ UNCHANGED <<source, cases, owner, actor, child, leaves, refused, pass, changes>>
        /\ effect' = [effect EXCEPT ![i][n] = "REJECTED_ZERO_FACTS"]
        /\ intent' = Stopped(intent, {i})
        /\ effect[i][n] = "NOT_STARTED" /\ child[i].node > 0
        /\ intent[i] \notin {"STOPPED", "RETIRED"}
    BY DEF RejectOperation, Operable, Active, Live
  <1>2. Settles /\ intent' \in [Obligations -> IntentStates]
    BY <1>1, StoppedSettles DEF IInv
  <1>3. "REJECTED_ZERO_FACTS" \in EffectStates
    BY DEF EffectStates
  <1>4. /\ effect' \in [Obligations -> [Nodes -> EffectStates]]
        /\ \A j \in Obligations, m \in Nodes :
             effect'[j][m] = IF j = i /\ m = n THEN "REJECTED_ZERO_FACTS" ELSE effect[j][m]
        /\ \A j \in Obligations : j # i => effect'[j] = effect[j]
    BY <1>1, <1>3, SlotUpdate DEF IInv
  <1>5. TypeOK'
    BY <1>1, <1>2, <1>4 DEF IInv, TypeOK
  <1>6. \A j \in Obligations : AtTerminal(j)' <=> AtTerminal(j)
    BY <1>1 DEF AtTerminal
  <1>7. \A j \in Obligations : Unused(j)' /\ Ended(j)' /\ OneLeaf(j)'
    <2> SUFFICES ASSUME NEW j \in Obligations PROVE Unused(j)' /\ Ended(j)' /\ OneLeaf(j)'
      OBVIOUS
    <2>1. Unused(j) /\ Ended(j) /\ OneLeaf(j) /\ child[i].node # 0
      BY <1>1, LastNode DEF IInv
    <2> QED
      BY <1>1, <1>4, <1>6, <2>1 DEF Unused, Ended, OneLeaf
  <1>8. \A j \in Obligations : Follows(j)'
    <2> SUFFICES ASSUME NEW j \in Obligations PROVE Follows(j)'
      OBVIOUS
    <2>1. Follows(j) /\ (j[2] = "REVIEW" => Intake(j[1]) \in Obligations)
      BY Pairs DEF IInv
    <2> QED
      BY <1>1, <1>2, <1>6, <2>1 DEF Follows, Settles, FinalStates
  <1>9. \A j \in Obligations : OwnCaseEffect(j)' <=> OwnCaseEffect(j)
    BY <1>1, <1>4 DEF OwnCaseEffect
  <1>10. \A j \in Obligations : Current(j)' /\ Present(j)'
    <2> SUFFICES ASSUME NEW j \in Obligations PROVE Current(j)' /\ Present(j)'
      OBVIOUS
    <2>1. Current(j) /\ Present(j)
      BY DEF IInv
    <2>2. intent'[j] = intent[j] \/ intent'[j] \notin {"PENDING", "MATERIALIZED"}
      BY <1>2 DEF Settles
    <2> QED
      BY <1>1, <1>9, <2>1, <2>2 DEF Current, Present, SourceCurrent
  <1>11. \A c \in Cases : Unasked(c)'
    <2> SUFFICES ASSUME NEW c \in Cases PROVE Unasked(c)'
      OBVIOUS
    <2>1. Unasked(c) /\ Intake(c) \in Obligations
      BY Pairs DEF IInv
    <2> QED
      BY <1>1, <1>2, <2>1 DEF Unasked, Settles
  <1>12. \A c \in Cases : Closed(c)'
    BY <1>1, <1>4, Pairs DEF IInv, Closed, SourceCurrent
  <1>13. \A j \in Obligations : Decided(j)
    BY <1>1, <1>2, <1>4 DEF Decided, Final, FinalStates, Settles
  <1> QED
    BY <1>5, <1>7, <1>8, <1>10, <1>11, <1>12, <1>13 DEF IInv, Keeps

(* An operation that creates an instance. *)
LEMMA CreateKeeps ==
  ASSUME IInv, NEW i \in Obligations, NEW n \in Nodes, Execute(i, n, "CREATE")
  PROVE  Keeps
  <1>1. /\ UNCHANGED <<source, owner, actor, intent, child, refused, pass, changes>>
        /\ effect' = [effect EXCEPT ![i][n] = "CREATE"]
        /\ leaves' = [leaves EXCEPT ![i][n] = leaves[i][n] + 1]
        /\ cases' = [cases EXCEPT ![i[1]].status = cases[i[1]].status]
        /\ effect[i][n] = "NOT_STARTED" /\ child[i].node > 0
        /\ intent[i] \notin {"STOPPED", "RETIRED"}
    BY DEF Execute, Operable, Active, Live
  <1>2. /\ cases' \in [Cases -> [status : CaseStatuses, visit : 0..MaxVisits]]
        /\ \A c \in Cases : cases'[c].status = cases[c].status /\ cases'[c].visit = cases[c].visit
    <2>1. cases \in [Cases -> [status : CaseStatuses, visit : 0..MaxVisits]] /\ i[1] \in Cases
      BY Pairs DEF IInv, TypeOK
    <2> QED
      BY <1>1, <2>1
  <1>3. "CREATE" \in EffectStates
    BY DEF EffectStates, AllOperations
  <1>4. /\ effect' \in [Obligations -> [Nodes -> EffectStates]]
        /\ \A j \in Obligations, m \in Nodes :
             effect'[j][m] = IF j = i /\ m = n THEN "CREATE" ELSE effect[j][m]
        /\ \A j \in Obligations : j # i => effect'[j] = effect[j]
    BY <1>1, <1>3, SlotUpdate DEF IInv
  <1>5. /\ leaves' \in [Obligations -> [Nodes -> Nat]]
        /\ \A j \in Obligations, m \in Nodes :
             leaves'[j][m] = IF j = i /\ m = n THEN leaves[i][n] + 1 ELSE leaves[j][m]
    BY <1>1 DEF IInv, TypeOK
  <1>6. TypeOK'
    BY <1>1, <1>2, <1>4, <1>5 DEF IInv, TypeOK
  <1>7. \A j \in Obligations : Unused(j)' /\ Ended(j)' /\ OneLeaf(j)'
    <2> SUFFICES ASSUME NEW j \in Obligations PROVE Unused(j)' /\ Ended(j)' /\ OneLeaf(j)'
      OBVIOUS
    <2>1. Unused(j) /\ Ended(j) /\ OneLeaf(j) /\ OneLeaf(i)
      BY DEF IInv
    <2>2. Unused(j)' /\ Ended(j)'
      BY <1>1, <1>4, <2>1 DEF Unused, Ended, AtTerminal
    <2>3. OneLeaf(j)'
      BY <1>1, <1>4, <1>5, <2>1 DEF OneLeaf
    <2> QED
      BY <2>2, <2>3
  <1>8. \A j \in Obligations : OwnCaseEffect(j)' <=> OwnCaseEffect(j)
    BY <1>1, <1>4 DEF OwnCaseEffect
  <1>9. \A j \in Obligations : Follows(j)' /\ Current(j)' /\ Present(j)'
    BY <1>1, <1>2, <1>8, Pairs DEF IInv, Follows, Current, Present, AtTerminal, SourceCurrent
  <1>10. \A c \in Cases : Unasked(c)'
    BY <1>1, <1>2 DEF IInv, Unasked
  <1>11. \A c \in Cases : Closed(c)'
    BY <1>1, <1>2, <1>4, Pairs DEF IInv, Closed, SourceCurrent
  <1>12. \A j \in Obligations : Decided(j)
    BY <1>1, <1>4 DEF Decided
  <1> QED
    BY <1>6, <1>7, <1>9, <1>10, <1>11, <1>12 DEF IInv, Keeps

(* An operation of a REVIEW that ends its case retires everything else. *)
LEMMA ClosingCaseKeeps ==
  ASSUME IInv, NEW i \in Obligations, NEW n \in Nodes, NEW op \in {"RESOLVE", "ESCALATE"},
         Execute(i, n, op)
  PROVE  Keeps
  <1> DEFINE status == IF op = "RESOLVE" THEN "RESOLVED" ELSE "HUMAN_REQUIRED"
  <1>1. /\ UNCHANGED <<source, owner, actor, leaves, child, refused, pass, changes>>
        /\ effect' = [effect EXCEPT ![i][n] = op]
        /\ intent' = Retired(intent, {i})
        /\ effect[i][n] = "NOT_STARTED" /\ child[i].node > 0
        /\ intent[i] \notin {"STOPPED", "RETIRED"}
        /\ i[2] = "REVIEW"
        /\ op = "RESOLVE" => ReviewProof(i[1])
        /\ op = "ESCALATE" => cases[i[1]].status = "OWNER_PENDING"
    BY DEF Execute, Operable, Active, Live, Admissible
  <1>2. cases' = [cases EXCEPT ![i[1]].status = status]
    BY DEF Execute
  <1>3. op = "RESOLVE" => /\ child[Intake(i[1])].verdict = "ACCEPTED"
                          /\ cases[i[1]].status \in {"OWNER_PENDING", "HUMAN_REQUIRED"}
    BY <1>1 DEF ReviewProof, Intake, OpenCases
  <1>4. /\ cases' \in [Cases -> [status : CaseStatuses, visit : 0..MaxVisits]]
        /\ \A c \in Cases : cases'[c].visit = cases[c].visit
        /\ \A c \in Cases : cases'[c].status = IF c = i[1] THEN status ELSE cases[c].status
    <2>1. i[1] \in Cases /\ status \in CaseStatuses
      BY Pairs DEF CaseStatuses
    <2>2. cases \in [Cases -> [status : CaseStatuses, visit : 0..MaxVisits]]
      BY DEF IInv, TypeOK
    <2> HIDE DEF status
    <2> QED
      BY <1>2, <2>1, <2>2
  <1>5. op \in EffectStates /\ op # "CREATE" /\ op # "NOT_STARTED"
    BY DEF EffectStates, AllOperations
  <1>6. /\ effect' \in [Obligations -> [Nodes -> EffectStates]]
        /\ \A j \in Obligations, m \in Nodes :
             effect'[j][m] = IF j = i /\ m = n THEN op ELSE effect[j][m]
        /\ \A j \in Obligations : j # i => effect'[j] = effect[j]
    BY <1>1, <1>5, SlotUpdate DEF IInv
  <1>7. /\ Settles /\ intent' \in [Obligations -> IntentStates] /\ intent'[i] = intent[i]
        /\ \A j \in Obligations : j # i => intent'[j] \notin {"PENDING", "MATERIALIZED"}
    <2>1. \A j \in Obligations : j # i => intent'[j] \notin {"PENDING", "MATERIALIZED"}
      BY <1>1 DEF IInv, TypeOK, Retired, FinalStates
    <2>2. intent'[i] = intent[i]
      BY <1>1 DEF Retired
    <2> QED
      BY <1>1, <2>1, <2>2, RetiredSettles DEF IInv
  <1>8. TypeOK'
    BY <1>1, <1>4, <1>6, <1>7 DEF IInv, TypeOK
  <1>9. \A j \in Obligations : AtTerminal(j)' <=> AtTerminal(j)
    BY <1>1 DEF AtTerminal
  <1>10. \A j \in Obligations : Unused(j)' /\ Ended(j)' /\ OneLeaf(j)'
    BY <1>1, <1>5, <1>6, <1>9 DEF IInv, Unused, Ended, OneLeaf
  <1>11. \A j \in Obligations : Follows(j)'
    <2> SUFFICES ASSUME NEW j \in Obligations PROVE Follows(j)'
      OBVIOUS
    <2>1. Follows(j) /\ (j[2] = "REVIEW" => Intake(j[1]) \in Obligations)
      BY Pairs DEF IInv
    <2> QED
      BY <1>1, <1>7, <1>9, <2>1 DEF Follows, Settles, FinalStates
  <1>12. \A j \in Obligations : Current(j)' /\ Present(j)'
    <2>1. OwnCaseEffect(i)'
      BY <1>6 DEF OwnCaseEffect
    <2> QED
      BY <1>1, <1>7, <2>1 DEF IInv, Current, Present
  <1>13. \A c \in Cases : Unasked(c)' /\ Closed(c)'
    <2> SUFFICES ASSUME NEW c \in Cases PROVE Unasked(c)' /\ Closed(c)'
      OBVIOUS
    <2>1. /\ Unasked(c) /\ Closed(c) /\ Intake(c) \in Obligations /\ Review(c) \in Obligations
          /\ Review(c)[1] = c /\ i = Review(i[1]) /\ Intake(c)[2] # "REVIEW"
      BY <1>1, Pairs DEF IInv
    <2>2. Unasked(c)'
      BY <1>3, <1>1, <1>4, <1>7, <2>1 DEF Unasked, Settles
    <2>3. CASE c = i[1]
      <3>1. Review(c) = i /\ effect'[i][n] = op
        BY <1>6, <2>1, <2>3
      <3>2. cases'[c].status = status /\ child'[Intake(c)].verdict = child[Intake(c)].verdict
        BY <1>1, <1>4, <2>3
      <3>3. CASE op = "RESOLVE"
        <4>1. /\ cases'[c].status = "RESOLVED" /\ effect'[Review(c)][n] = "RESOLVE"
              /\ child'[Intake(c)].verdict = "ACCEPTED"
          BY <1>3, <2>3, <3>1, <3>2, <3>3
        <4> QED
          BY <2>2, <4>1 DEF Closed
      <3>4. CASE op = "ESCALATE"
        <4>1. cases'[c].status = "HUMAN_REQUIRED" /\ effect'[Review(c)][n] = "ESCALATE"
          BY <3>1, <3>2, <3>4
        <4> QED
          BY <2>2, <4>1 DEF Closed
      <3> QED
        BY <3>3, <3>4
    <2>4. CASE c # i[1]
      <3>1. effect'[Review(c)] = effect[Review(c)]
        BY <1>6, <2>1, <2>4
      <3>2. cases'[c].status = cases[c].status /\ cases'[c].visit = cases[c].visit
        BY <1>4, <2>4
      <3>3. child' = child /\ source' = source
        BY <1>1
      <3>4. SourceCurrent(c)' <=> SourceCurrent(c)
        BY <3>2, <3>3 DEF SourceCurrent
      <3>5. Closed(c)
        BY <2>1
      <3> HIDE DEF status
      <3> QED
        BY <2>2, <3>1, <3>2, <3>3, <3>4, <3>5 DEF Closed
    <2> QED
      BY <2>2, <2>3, <2>4
  <1>14. \A j \in Obligations : Decided(j)
    BY <1>1, <1>6, <1>7 DEF Decided, Final, FinalStates, Settles
  <1> QED
    BY <1>8, <1>10, <1>11, <1>12, <1>13, <1>14 DEF IInv, Keeps

-----------------------------------------------------------------------------
(* The invariant holds, and what follows from it.                           *)

LEMMA InitEstablishes == Init => IInv
  <1> SUFFICES ASSUME Init PROVE IInv
    OBVIOUS
  <1>1. \A i \in Obligations : NoChild \in Children(i[2])
    BY LastNode DEF NoChild, Children, Verdicts
  <1>2. child = [i \in Obligations |-> NoChild]
    BY DEF Init
  <1>3. pass \in PassType
    BY DEF Init, Idle, PassType, Phases
  <1>4. /\ source \in [live : BOOLEAN, visit : 1..MaxVisits]
        /\ owner \in [who : Owners, enabled : BOOLEAN]
        /\ actor \in [configured : BOOLEAN, enabled : BOOLEAN]
        /\ refused \subseteq Obligations /\ changes \in 0..MaxChanges
    <2>1. source \in [live : BOOLEAN, visit : 1..MaxVisits]
      BY OwnerAssumption DEF Init
    <2>2. owner \in [who : Owners, enabled : BOOLEAN]
      BY DEF Init
    <2>3. actor \in [configured : BOOLEAN, enabled : BOOLEAN]
      BY DEF Init
    <2> QED
      BY <2>1, <2>2, <2>3, OwnerAssumption DEF Init
  <1>5. /\ cases \in [Cases -> [status : CaseStatuses, visit : 0..MaxVisits]]
        /\ intent \in [Obligations -> IntentStates]
        /\ effect \in [Obligations -> [Nodes -> EffectStates]]
        /\ leaves \in [Obligations -> [Nodes -> Nat]]
    BY OwnerAssumption DEF Init, CaseStatuses, IntentStates, EffectStates
  <1>6. TypeOK
    BY <1>1, <1>2, <1>3, <1>4, <1>5 DEF TypeOK, PassType
  <1>7. \A i \in Obligations : /\ child[i].node = 0 /\ child[i].verdict = "NONE"
                               /\ intent[i] = "NONE" /\ Last[i[2]] # 0
                               /\ \A n \in Nodes : effect[i][n] = "NOT_STARTED" /\ leaves[i][n] = 0
    BY <1>2, LastNode DEF Init, NoChild
  <1>8. \A i \in Obligations : /\ Unused(i) /\ Ended(i) /\ Follows(i)
                               /\ Current(i) /\ Present(i) /\ OneLeaf(i)
    BY <1>7 DEF Unused, Ended, Follows, Current, Present, OneLeaf, AtTerminal
  <1>9. \A c \in Cases : cases[c].status = "NONE"
    BY DEF Init
  <1>10. \A c \in Cases : Unasked(c) /\ Closed(c)
    BY <1>7, <1>9, Pairs DEF Unasked, Closed
  <1> QED
    BY <1>6, <1>8, <1>10 DEF IInv

LEMMA StepKeeps == IInv /\ [Next]_vars => Keeps
  <1> SUFFICES ASSUME IInv, [Next]_vars PROVE Keeps
    OBVIOUS
  <1>1. CASE PassStep
    BY <1>1, PassKeeps, RetireStaleKeeps, StoppingKeeps, ClosingKeeps, DecidingKeeps, MaterializeKeeps
       DEF PassStep
  <1>2. CASE SourceStep
    BY <1>2, VoidingKeeps, MoveSourceKeeps, RequestKeeps DEF SourceStep
  <1>3. CASE ManagedStep
    <2>1. ASSUME NEW i \in Obligations, NEW n \in Nodes, NEW op \in AllOperations, Execute(i, n, op)
          PROVE Keeps
      <3>1. CASE op = "CREATE"
        BY <2>1, <3>1, CreateKeeps
      <3>2. CASE op \in {"RESOLVE", "ESCALATE"}
        BY <2>1, <3>2, ClosingCaseKeeps
      <3> QED
        BY <3>1, <3>2 DEF AllOperations
    <2> QED
      BY <1>3, <2>1, ClosingKeeps, StoppingKeeps, FinishKeeps, MoveKeeps, RejectKeeps DEF ManagedStep
  <1>4. CASE DomainStep
    BY <1>4, ReplaceOwnerKeeps, SettingKeeps DEF DomainStep
  <1>5. CASE UNCHANGED vars
    <2>1. TypeOK'
      BY <1>5 DEF vars, IInv, TypeOK
    <2>2. UNCHANGED Tables
      BY <1>5 DEF vars, Tables
    <2> QED
      BY <2>1, <2>2, TablesUntouched
  <1> QED
    BY <1>1, <1>2, <1>3, <1>4, <1>5 DEF Next

LEMMA Invariance == Spec => []IInv
  <1>1. IInv /\ [Next]_vars => IInv'
    BY StepKeeps DEF Keeps
  <1> QED
    BY InitEstablishes, <1>1, PTL DEF Spec

(* The rows of the tables keep their types.                                 *)
THEOREM TypeCorrect == Spec => []TypeOK
  BY Invariance, InvariantImplies, PTL

(* A governed case ends only through an effect of its REVIEW, with the proof  *)
(* that effect needs, or with its source.                                   *)
THEOREM ReviewClosesCase == Spec => []CaseClosedByReview
  BY Invariance, InvariantImplies, PTL

(* Slots, intents, managed instances and the owner agree after every         *)
(* transaction of commands and passes.                                      *)
THEOREM ObligationsAgree == Spec => []ObligationSafety
  BY Invariance, InvariantImplies, PTL

(* A STOPPED, RETIRED or COMPLETED obligation is final, and the instance of   *)
(* one that was given up never moves.                                       *)
THEOREM FinalDecisions == Spec => DecisionsStay
  <1>1. IInv /\ [Next]_vars =>
          [\A i \in Obligations :
             /\ Final(i) => intent'[i] = intent[i]
             /\ intent[i] \in {"STOPPED", "RETIRED"} =>
                  child'[i].node = child[i].node /\ effect'[i] = effect[i]]_vars
    BY StepKeeps DEF Keeps, Decided
  <1> QED
    BY <1>1, Invariance, PTL DEF Spec, DecisionsStay
=============================================================================
