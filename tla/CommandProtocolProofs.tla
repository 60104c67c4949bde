----------------------- MODULE CommandProtocolProofs ------------------------
(***************************************************************************)
(* The receipts give exactly-once commands for any clients, keys, workers   *)
(* and faults.                                                              *)
(***************************************************************************)
EXTENDS CommandProperties, TLAPS

Owning  == {"owner", "locked", "decided", "doubt"}
Locking == {"locked", "decided", "doubt"}
Ready   == {"decided", "doubt"}

(* One transaction at a time holds a key, and one holds the row. *)
Exclusive ==
    /\ \A v, w \in Workers :
          /\ tx[v].at \in Owning /\ tx[w].at \in Owning
          /\ Key[tx[v].client] = Key[tx[w].client]
          => v = w
    /\ \A v, w \in Workers :
          tx[v].at \in Locking /\ tx[w].at \in Locking => v = w

(* The key a transaction holds is undecided. *)
HeldKeysOpen ==
    \A w \in Workers : tx[w].at \in Owning => ~Decided(Key[tx[w].client])

(* What a transaction has decided still fits the committed state. *)
DecisionFits ==
    \A w \in Workers : tx[w].at \in Ready =>
        LET c == tx[w].client IN
        /\ tx[w].outcome \in Outcomes
        /\ tx[w].outcome = "done" => Promise!Fits(c)
        /\ tx[w].outcome = "refused" => Kind[c] # "WAKE"
        /\ tx[w].outcome = "noop" => Kind[c] = "WAKE" /\ ~Promise!Fits(c)

IInv == TypeOK /\ Exclusive /\ HeldKeysOpen /\ DecisionFits

-----------------------------------------------------------------------------
(* Decisions and answers have the types of the tables they go into. *)
LEMMA DecisionType ==
    ASSUME NEW c \in Clients, NEW o \in Outcomes, NEW v \in Nat
    PROVE  /\ Decision(c, o, v) \in Receipt
           /\ Answer(o, v) \in FinalAnswer
  BY DEF Decision, Receipt, Answer, FinalAnswer

(* The empty system satisfies the invariant. *)
LEMMA InitInvariant == Init => IInv
  BY ClientsAssumption
  DEF Init, IInv, TypeOK, Exclusive, HeldKeysOpen, DecisionFits, Idle,
      Transaction, Stages, Outcomes, Owning, Locking, Ready, NoReceipt

(* What a commit, answered or not, does to the tables. *)
LEMMA EffectType ==
    ASSUME IInv, NEW w \in Workers, tx[w].at \in Ready, TakesEffect(w)
    PROVE  /\ log' \in Seq(Change)
           /\ receipts' \in [Keys -> Receipt \cup {NoReceipt}]
           /\ tx[w].client \in Clients
           /\ Answer(tx[w].outcome, ResultVersion(w)) \in FinalAnswer
  <1> DEFINE c == tx[w].client
  <1>1. c \in Clients /\ Key[c] \in Keys
    BY DEF IInv, TypeOK, Ready, Keys
  <1>2. tx[w].outcome \in Outcomes
    BY DEF IInv, DecisionFits
  <1>3. ResultVersion(w) \in Nat
    BY DEF IInv, TypeOK, ResultVersion, Version
  <1>4. Decision(c, tx[w].outcome, ResultVersion(w)) \in Receipt
    BY <1>1, <1>2, <1>3, DecisionType
  <1>5. receipts' \in [Keys -> Receipt \cup {NoReceipt}]
    BY <1>1, <1>4 DEF IInv, TypeOK, TakesEffect
  <1>6. [key |-> Key[c], hash |-> Hash[c], kind |-> Kind[c],
         expected |-> Expected[c]] \in Change
    BY <1>1, ClientsAssumption DEF Change
  <1>7. log' \in Seq(Change)
    BY <1>6 DEF IInv, TypeOK, TakesEffect
  <1> QED
    BY <1>1, <1>2, <1>3, <1>5, <1>7, DecisionType

(* A transaction that ends without effect leaves the others as they were.   *)
LEMMA EndWithoutEffect ==
    ASSUME IInv, NEW w \in Workers, Ends(w), UNCHANGED <<log, receipts>>
    PROVE  /\ Exclusive' /\ HeldKeysOpen' /\ DecisionFits'
           /\ tx' \in [Workers -> Transaction]
           /\ \A v \in Workers : tx'[v].at # "idle" => tx'[v].client \in Clients
  <1>1. /\ tx' \in [Workers -> Transaction]
        /\ \A v \in Workers : tx'[v] = IF v = w THEN Idle ELSE tx[v]
    BY DEF IInv, TypeOK, Ends, Idle, Transaction, Stages
  <1>2. Idle.at = "idle"
    BY DEF Idle
  <1>3. \A v \in Workers : tx'[v].at # "idle" => tx'[v].client \in Clients
    BY <1>1, <1>2 DEF IInv, TypeOK
  <1>4. Exclusive'
    BY <1>1, <1>2 DEF IInv, Exclusive, Owning, Locking
  <1>5. HeldKeysOpen'
    BY <1>1, <1>2 DEF IInv, HeldKeysOpen, Owning, Decided
  <1>6. DecisionFits'
    BY <1>1, <1>2
    DEF IInv, DecisionFits, Ready, Promise!Fits, Promise!Version, Promise!Done
  <1> QED
    BY <1>1, <1>3, <1>4, <1>5, <1>6

(* A transaction that takes effect decides a key nobody else holds, while   *)
(* nobody else is past the row lock.                                        *)
LEMMA EndWithEffect ==
    ASSUME IInv, NEW w \in Workers, tx[w].at \in Ready, Ends(w), TakesEffect(w)
    PROVE  /\ Exclusive' /\ HeldKeysOpen' /\ DecisionFits'
           /\ tx' \in [Workers -> Transaction]
           /\ \A v \in Workers : tx'[v].at # "idle" => tx'[v].client \in Clients
  <1>1. /\ tx' \in [Workers -> Transaction]
        /\ \A v \in Workers : tx'[v] = IF v = w THEN Idle ELSE tx[v]
    BY DEF IInv, TypeOK, Ends, Idle, Transaction, Stages
  <1>2. Idle.at = "idle"
    BY DEF Idle
  <1>3. \A v \in Workers : tx'[v].at # "idle" => tx'[v].client \in Clients
    BY <1>1, <1>2 DEF IInv, TypeOK
  <1>4. Exclusive'
    BY <1>1, <1>2 DEF IInv, Exclusive, Owning, Locking
  <1>5. HeldKeysOpen'
    <2> SUFFICES ASSUME NEW v \in Workers, tx'[v].at \in Owning
                 PROVE  receipts'[Key[tx'[v].client]].outcome = "none"
      BY DEF HeldKeysOpen, Decided
    <2>1. v # w /\ tx'[v] = tx[v]
      BY <1>1, <1>2 DEF Owning
    <2>2. Key[tx[v].client] # Key[tx[w].client]
      BY <2>1 DEF IInv, Exclusive, Owning, Ready
    <2>3. Key[tx[v].client] \in Keys
      BY <2>1, <1>3 DEF Owning, Keys
    <2>4. receipts'[Key[tx[v].client]] = receipts[Key[tx[v].client]]
      BY <2>2, <2>3 DEF TakesEffect, IInv, TypeOK
    <2> QED
      BY <2>1, <2>4 DEF IInv, HeldKeysOpen, Decided
  <1>6. \A v \in Workers : tx'[v].at \notin Ready
    BY <1>1, <1>2 DEF IInv, Exclusive, Locking, Ready
  <1>7. DecisionFits'
    BY <1>6 DEF DecisionFits
  <1> QED
    BY <1>1, <1>3, <1>4, <1>5, <1>7

-----------------------------------------------------------------------------
(* The invariant is kept by every step. *)
LEMMA NextInvariant == IInv /\ [Next]_vars => IInv'
  <1> SUFFICES ASSUME IInv, [Next]_vars PROVE IInv'
    OBVIOUS
  <1> USE DEF IInv
  <1> DEFINE Others(w) == \A v \in Workers \ {w} : tx'[v] = tx[v]
  <1>1. ASSUME NEW w \in Workers, NEW c \in Clients, Send(w, c)
        PROVE  IInv'
    <2>1. /\ tx'[w].at = "received" /\ tx'[w].client = c /\ Others(w)
          /\ tx' \in [Workers -> Transaction]
      BY <1>1 DEF Send, Idle, TypeOK, Transaction, Stages
    <2>2. TypeOK'
      BY <1>1, <2>1 DEF Send, TypeOK
    <2>3. Exclusive' /\ HeldKeysOpen'
      BY <1>1, <2>1 DEF Send, Exclusive, HeldKeysOpen, Decided, Owning, Locking
    <2>4. DecisionFits'
      <3>1. \A d : Promise!Fits(d)' <=> Promise!Fits(d)
        BY <1>1 DEF Send, Promise!Fits, Promise!Version, Promise!Done
      <3>2. \A v \in Workers : tx'[v].at \in Ready => tx'[v] = tx[v]
        BY <2>1 DEF Ready
      <3> QED
        BY <3>1, <3>2 DEF DecisionFits
    <2> QED
      BY <2>2, <2>3, <2>4
  <1>2. ASSUME NEW w \in Workers, AcquireReceipt(w)
        PROVE  IInv'
    <2>1. /\ tx'[w] = [tx[w] EXCEPT !.at = "owner"] /\ Others(w)
          /\ tx' \in [Workers -> Transaction]
      BY <1>2 DEF AcquireReceipt, TypeOK, Transaction, Stages
    <2>2. tx'[w].at = "owner" /\ tx'[w].client = tx[w].client
      BY <2>1 DEF TypeOK, Transaction
    <2>3. TypeOK'
      BY <1>2, <2>1, <2>2 DEF AcquireReceipt, TypeOK
    <2>4. \A v \in Workers : tx[v].at \in Owning =>
                              Key[tx[v].client] # Key[tx[w].client]
      BY <1>2 DEF AcquireReceipt, Holding, Owning
    <2>5. Exclusive'
      <3>1. ASSUME NEW u \in Workers, NEW v \in Workers,
                   tx'[u].at \in Owning, tx'[v].at \in Owning,
                   Key[tx'[u].client] = Key[tx'[v].client]
            PROVE  u = v
        <4>1. CASE u = w
          BY <2>1, <2>2, <2>4, <3>1, <4>1
        <4>2. CASE v = w
          BY <2>1, <2>2, <2>4, <3>1, <4>2
        <4>3. CASE u # w /\ v # w
          <5>1. tx'[u] = tx[u] /\ tx'[v] = tx[v]
            BY <2>1, <4>3
          <5> QED
            BY <3>1, <5>1 DEF Exclusive
        <4> QED
          BY <4>1, <4>2, <4>3
      <3>2. ASSUME NEW u \in Workers, NEW v \in Workers,
                   tx'[u].at \in Locking, tx'[v].at \in Locking
            PROVE  u = v
        BY <2>1, <2>2, <3>2 DEF Exclusive, Locking
      <3> QED
        BY <3>1, <3>2 DEF Exclusive
    <2>6. HeldKeysOpen'
      BY <1>2, <2>1, <2>2 DEF AcquireReceipt, HeldKeysOpen, Decided
    <2>7. DecisionFits'
      <3>1. \A c : Promise!Fits(c)' <=> Promise!Fits(c)
        BY <1>2 DEF AcquireReceipt, Promise!Fits, Promise!Version, Promise!Done
      <3>2. \A v \in Workers : tx'[v].at \in Ready => tx'[v] = tx[v]
        BY <2>1, <2>2 DEF Ready
      <3> QED
        BY <3>1, <3>2 DEF DecisionFits
    <2> QED
      BY <2>3, <2>5, <2>6, <2>7
  <1>3. ASSUME NEW w \in Workers, LockInstance(w)
        PROVE  IInv'
    <2>1. /\ tx'[w] = [tx[w] EXCEPT !.at = "locked"] /\ Others(w)
          /\ tx' \in [Workers -> Transaction]
      BY <1>3 DEF LockInstance, TypeOK, Transaction, Stages
    <2>2. tx'[w].at = "locked" /\ tx'[w].client = tx[w].client
      BY <2>1 DEF TypeOK, Transaction
    <2>3. TypeOK'
      BY <1>3, <2>1, <2>2 DEF LockInstance, TypeOK
    <2>4. \A v \in Workers : tx[v].at \notin Locking
      BY <1>3 DEF LockInstance, LockHolders, Locking
    <2>5. Exclusive'
      BY <1>3, <2>1, <2>2, <2>4 DEF LockInstance, Exclusive, Owning, Locking
    <2>6. HeldKeysOpen'
      BY <1>3, <2>1, <2>2 DEF LockInstance, HeldKeysOpen, Decided, Owning
    <2>7. DecisionFits'
      <3>1. \A d : Promise!Fits(d)' <=> Promise!Fits(d)
        BY <1>3 DEF LockInstance, Promise!Fits, Promise!Version, Promise!Done
      <3>2. \A v \in Workers : tx'[v].at \in Ready => tx'[v] = tx[v]
        BY <2>1, <2>2 DEF Ready
      <3> QED
        BY <3>1, <3>2 DEF DecisionFits
    <2> QED
      BY <2>3, <2>5, <2>6, <2>7
  <1>4. ASSUME NEW w \in Workers, Decide(w)
        PROVE  IInv'
    <2> DEFINE c == tx[w].client
    <2>1. c \in Clients /\ Kind[c] \in Kinds
      BY <1>4, ClientsAssumption DEF Decide, TypeOK
    <2>2. Outcome(c) \in Outcomes
      BY <2>1 DEF Outcome, Outcomes, Kinds
    <2>3. /\ tx'[w] = [tx[w] EXCEPT !.at = "decided", !.outcome = Outcome(c)]
          /\ Others(w)
          /\ tx' \in [Workers -> Transaction]
      <3>1. tx' = [tx EXCEPT ![w].at = "decided", ![w].outcome = Outcome(c)]
        BY <1>4 DEF Decide
      <3>2. tx \in [Workers -> Transaction]
        BY <1>4 DEF TypeOK
      <3>3. tx' = [tx EXCEPT ![w] = [tx[w] EXCEPT !.at = "decided",
                                                  !.outcome = Outcome(c)]]
        BY <3>1, <3>2
      <3>4. [tx[w] EXCEPT !.at = "decided", !.outcome = Outcome(c)]
                \in Transaction
        BY <2>2, <3>2 DEF Transaction, Stages
      <3> QED
        BY <3>2, <3>3, <3>4
    <2>4. /\ tx'[w].at = "decided" /\ tx'[w].client = c
          /\ tx'[w].outcome = Outcome(c)
      BY <2>3 DEF TypeOK, Transaction
    <2>5. TypeOK'
      BY <1>4, <2>1, <2>3, <2>4 DEF Decide, TypeOK
    <2>6. Exclusive'
      BY <1>4, <2>3, <2>4 DEF Decide, Exclusive, Owning, Locking
    <2>7. HeldKeysOpen'
      BY <1>4, <2>3, <2>4 DEF Decide, HeldKeysOpen, Decided, Owning
    <2>8. Promise!Fits(c) <=> CASE Kind[c] = "TRANSITION" ->
                                     Expected[c] = Version /\ ~Done("CANCEL")
                                [] Kind[c] = "CANCEL" -> ~Done("CANCEL")
                                [] Kind[c] = "WAKE" ->
                                     /\ Expected[c] = Version
                                     /\ ~Done("CANCEL") /\ ~Done("WAKE")
      BY DEF Promise!Fits, Promise!Version, Promise!Done, Version, Done
    <2>9. /\ Outcome(c) = "done" => Promise!Fits(c)
          /\ Outcome(c) = "refused" => Kind[c] # "WAKE"
          /\ Outcome(c) = "noop" => Kind[c] = "WAKE" /\ ~Promise!Fits(c)
      BY <1>4, <2>1, <2>8 DEF Decide, CancelsAgain, Outcome, Kinds
    <2>10. DecisionFits'
      <3>1. \A d \in Clients : Promise!Fits(d)' <=> Promise!Fits(d)
        BY <1>4 DEF Decide, Promise!Fits, Promise!Version, Promise!Done
      <3>2. \A v \in Workers : tx[v].at \in Ready => v = w
        BY <1>4 DEF Decide, Exclusive, Locking, Ready
      <3> QED
        BY <2>1, <2>2, <2>3, <2>4, <2>9, <3>1, <3>2
        DEF DecisionFits, Ready
    <2> QED
      BY <2>5, <2>6, <2>7, <2>10
  <1>5. ASSUME NEW w \in Workers, CommitTimesOut(w)
        PROVE  IInv'
    <2>1. /\ tx'[w] = [tx[w] EXCEPT !.at = "doubt"] /\ Others(w)
          /\ tx' \in [Workers -> Transaction]
      BY <1>5 DEF CommitTimesOut, TypeOK, Transaction, Stages
    <2>2. /\ tx'[w].at = "doubt" /\ tx'[w].client = tx[w].client
          /\ tx'[w].outcome = tx[w].outcome
      BY <2>1 DEF TypeOK, Transaction
    <2>3. TypeOK'
      BY <1>5, <2>1, <2>2, ClientsAssumption DEF CommitTimesOut, TypeOK, Fault
    <2>4. Exclusive'
      BY <1>5, <2>1, <2>2 DEF CommitTimesOut, Exclusive, Owning, Locking
    <2>5. HeldKeysOpen'
      BY <1>5, <2>1, <2>2 DEF CommitTimesOut, HeldKeysOpen, Decided, Owning
    <2>6. \A d : Promise!Fits(d)' <=> Promise!Fits(d)
      BY <1>5 DEF CommitTimesOut, Promise!Fits, Promise!Version, Promise!Done
    <2>7. DecisionFits'
      BY <1>5, <2>1, <2>2, <2>6 DEF CommitTimesOut, DecisionFits, Ready
    <2> QED
      BY <2>3, <2>4, <2>5, <2>7
  <1>6. ASSUME NEW w \in Workers, Ends(w), UNCHANGED <<log, receipts>>,
               enabled' \in BOOLEAN, faults' \in 0..MaxFaults,
               heard' \in [Clients -> SUBSET (FinalAnswer \cup {ServerError})]
        PROVE  IInv'
    BY <1>6, EndWithoutEffect DEF TypeOK
  <1>7. ASSUME NEW w \in Workers, NEW a \in FinalAnswer \cup {ServerError},
               tx[w].at # "idle", Hears(tx[w].client, a)
        PROVE  heard' \in [Clients -> SUBSET (FinalAnswer \cup {ServerError})]
    BY <1>7 DEF Hears, TypeOK
  <1>8. ASSUME NEW w \in Workers, ReplayReceipt(w)
        PROVE  IInv'
    <2> DEFINE c == tx[w].client
    <2>1. c \in Clients /\ receipts[Key[c]] \in Receipt
      BY <1>8 DEF ReplayReceipt, TypeOK, Keys, Decided, NoReceipt
    <2>2. ReplayedAnswer(c, receipts[Key[c]]) \in FinalAnswer \cup {ServerError}
      BY <2>1 DEF ReplayedAnswer, Answer, FinalAnswer, Receipt
    <2> QED
      BY <1>6, <1>7, <1>8, <2>2 DEF ReplayReceipt, TypeOK
  <1>9. ASSUME NEW w \in Workers, RefuseDisabledWake(w) \/ RefuseClosed(w)
        PROVE  IInv'
    <2>1. Answer("refused", 0) \in FinalAnswer
      BY DecisionType DEF Answer, FinalAnswer, Outcomes
    <2> QED
      BY <1>6, <1>7, <1>9, <2>1 DEF RefuseDisabledWake, RefuseClosed, TypeOK
  <1>10. ASSUME NEW w \in Workers, DoubtRollsBack(w) \/ RollBack(w)
         PROVE  IInv'
    BY <1>6, <1>10, ClientsAssumption
    DEF DoubtRollsBack, RollBack, Fault, TypeOK
  <1>11. ASSUME NEW w \in Workers, tx[w].at \in Ready, Ends(w), TakesEffect(w),
                enabled' = enabled, faults' \in 0..MaxFaults,
                heard' \in [Clients -> SUBSET (FinalAnswer \cup {ServerError})]
         PROVE  IInv'
    BY <1>11, EndWithEffect, EffectType DEF TypeOK
  <1>12. ASSUME NEW w \in Workers, Commit(w)
         PROVE  IInv'
    BY <1>7, <1>11, <1>12, EffectType DEF Commit, Ready, TypeOK
  <1>13. ASSUME NEW w \in Workers, CommitAnswerLost(w) \/ DoubtCommits(w)
         PROVE  IInv'
    BY <1>11, <1>13, ClientsAssumption
    DEF CommitAnswerLost, DoubtCommits, Ready, Fault, TypeOK
  <1>14. ASSUME ChangePrincipal \/ UNCHANGED vars
         PROVE  IInv'
    <2>1. UNCHANGED <<log, receipts, tx, heard>>
      BY <1>14 DEF ChangePrincipal, vars
    <2>2. TypeOK'
      <3>1. enabled' \in BOOLEAN
        BY <1>14 DEF ChangePrincipal, vars, TypeOK
      <3>2. faults' \in 0..MaxFaults
        BY <1>14, ClientsAssumption DEF ChangePrincipal, Fault, vars, TypeOK
      <3> QED
        BY <2>1, <3>1, <3>2 DEF TypeOK
    <2>3. \A d : Promise!Fits(d)' <=> Promise!Fits(d)
      BY <2>1 DEF Promise!Fits, Promise!Version, Promise!Done
    <2> QED
      BY <2>1, <2>2, <2>3 DEF Exclusive, HeldKeysOpen, Decided, DecisionFits
  <1> QED
    BY <1>1, <1>2, <1>3, <1>4, <1>5, <1>8, <1>9, <1>10, <1>12, <1>13, <1>14
    DEF Next, Handle, GoesWrong

(* IInv holds in every reachable state. *)
LEMMA Invariance == Spec => []IInv
  BY InitInvariant, NextInvariant, PTL DEF Spec

(* The receipts, the log and the transactions keep their types: above all,  *)
(* no receipt is ever visible before it is decided.                         *)
THEOREM TypeCorrect == Spec => []TypeOK
  BY Invariance, PTL DEF IInv

-----------------------------------------------------------------------------
(* A transaction that takes effect is one step of ExactlyOnce. *)
LEMMA EffectIsOneDecision ==
    ASSUME IInv, NEW w \in Workers, tx[w].at \in Ready, TakesEffect(w)
    PROVE  Promise!Next
  <1> DEFINE c == tx[w].client
             o == tx[w].outcome
  <1>1. c \in Clients
    BY DEF IInv, TypeOK, Ready
  <1>2. /\ o \in Outcomes
        /\ o = "done" => Promise!Fits(c)
        /\ o = "refused" => Kind[c] # "WAKE"
        /\ o = "noop" => Kind[c] = "WAKE" /\ ~Promise!Fits(c)
    BY DEF IInv, DecisionFits
  <1>3. receipts[Key[c]].outcome = "none"
    BY DEF IInv, HeldKeysOpen, Decided, Owning, Ready
  <1>4. receipts' = [receipts EXCEPT ![Key[c]] =
                        Promise!Decision(c, o, ResultVersion(w))]
    BY DEF TakesEffect, Decision, Promise!Decision
  <1>5. CASE o = "done"
    <2>1. ResultVersion(w) = Promise!Version + 1
      BY <1>5 DEF ResultVersion, Version, Promise!Version
    <2>2. log' = Append(log, Promise!Change(c))
      BY <1>5 DEF TakesEffect, Promise!Change
    <2>3. Promise!Accept(c)
      BY <1>2, <1>3, <1>4, <1>5, <2>1, <2>2 DEF Promise!Accept, Promise!Decide
    <2> QED
      BY <1>1, <2>3 DEF Promise!Next
  <1>6. CASE o # "done"
    <2>1. ResultVersion(w) = 0 /\ log' = log
      BY <1>6 DEF ResultVersion, TakesEffect
    <2>2. CASE o = "refused"
      <3>1. Promise!Refuse(c)
        BY <1>2, <1>3, <1>4, <2>1, <2>2 DEF Promise!Refuse, Promise!Decide
      <3> QED
        BY <1>1, <3>1 DEF Promise!Next
    <2>3. CASE o = "noop"
      <3>1. Promise!Ignore(c)
        BY <1>2, <1>3, <1>4, <2>1, <2>3 DEF Promise!Ignore, Promise!Decide
      <3> QED
        BY <1>1, <3>1 DEF Promise!Next
    <2> QED
      BY <1>2, <1>6, <2>2, <2>3 DEF Outcomes
  <1> QED
    BY <1>5, <1>6

(* Every other step leaves the committed tables alone. *)
LEMMA StepRefines == IInv /\ [Next]_vars => [Promise!Next]_<<log, receipts>>
  <1> SUFFICES ASSUME IInv, [Next]_vars
               PROVE  Promise!Next \/ UNCHANGED <<log, receipts>>
    OBVIOUS
  <1>1. ASSUME NEW w \in Workers,
               Commit(w) \/ CommitAnswerLost(w) \/ DoubtCommits(w)
        PROVE  Promise!Next
    <2>1. tx[w].at \in Ready /\ TakesEffect(w)
      BY <1>1 DEF Commit, CommitAnswerLost, DoubtCommits, Ready
    <2> QED
      BY <2>1, EffectIsOneDecision
  <1>2. ASSUME NEW w \in Workers,
               \/ AcquireReceipt(w) \/ ReplayReceipt(w)
               \/ RefuseDisabledWake(w) \/ LockInstance(w)
               \/ Decide(w) \/ RefuseClosed(w) \/ DoubtRollsBack(w)
               \/ CommitTimesOut(w) \/ RollBack(w)
        PROVE  UNCHANGED <<log, receipts>>
    BY <1>2 DEF AcquireReceipt, ReplayReceipt, RefuseDisabledWake, LockInstance,
                Decide, RefuseClosed, DoubtRollsBack, CommitTimesOut, RollBack
  <1>3. ASSUME NEW w \in Workers, NEW c \in Clients, Send(w, c)
        PROVE  UNCHANGED <<log, receipts>>
    BY <1>3 DEF Send
  <1>4. ASSUME ChangePrincipal \/ UNCHANGED vars
        PROVE  UNCHANGED <<log, receipts>>
    BY <1>4 DEF ChangePrincipal, vars
  <1> QED
    BY <1>1, <1>2, <1>3, <1>4 DEF Next, Handle, GoesWrong

(* For any number of clients, keys and concurrent handlers, and any number  *)
(* of lost answers, aborts and commits in doubt: a key is decided once, and *)
(* what it changes is written in the step that decides it.                  *)
THEOREM ExactlyOnceRefined == Spec => ImplementsExactlyOnce
  <1>1. Init => Promise!Init
    BY DEF Init, Promise!Init, NoReceipt, Promise!NoReceipt, Keys, Promise!Keys
  <1> QED
    BY <1>1, Invariance, StepRefines, PTL
    DEF Spec, ImplementsExactlyOnce, Promise!Spec

-----------------------------------------------------------------------------
(* A success on record names the event it wrote. *)
SuccessWrote(k) ==
    receipts[k].outcome = "done" =>
        /\ receipts[k].version - 1 \in DOMAIN log
        /\ log[receipts[k].version - 1].key = k
        /\ log[receipts[k].version - 1].hash = receipts[k].hash

(* The receipts and the log tell of each other. *)
TablesAgree ==
    /\ \A k \in Keys : SuccessWrote(k)
    /\ \A i \in DOMAIN log : receipts[log[i].key].outcome = "done"

Wrote(c) == \E i \in DOMAIN log : log[i].key = Key[c] /\ log[i].hash = Hash[c]

(* What is behind an answer: a decided receipt, or, for a cancellation that *)
(* was refused without one, a closed instance its request did not close.    *)
Backed(c, a) ==
    /\ AnswerRecorded(c, a)
    /\ a.outcome = "conflict" => Decided(Key[c])
    /\ a.outcome = "refused" /\ Kind[c] = "CANCEL" =>
          \/ receipts[Key[c]].outcome = "refused"
          \/ Done("CANCEL") /\ ~Wrote(c)

AnswersBacked == \A c \in Clients : \A a \in heard[c] : Backed(c, a)

RecordInv == IInv /\ TablesAgree /\ AnswersBacked

-----------------------------------------------------------------------------
(* What is decided stays, what is logged stays, and a cancelled instance's  *)
(* log is closed.                                                           *)
TablesGrow ==
    /\ \A k \in Keys : Decided(k) => receipts'[k] = receipts[k]
    /\ \A i \in DOMAIN log : i \in DOMAIN log' /\ log'[i] = log[i]
    /\ Done("CANCEL") => log' = log

(* What an effect writes. *)
LEMMA EffectWrites ==
    ASSUME IInv, NEW w \in Workers, tx[w].at \in Ready, TakesEffect(w)
    PROVE  LET c == tx[w].client IN
           /\ c \in Clients /\ Key[c] \in Keys /\ ~Decided(Key[c])
           /\ tx[w].outcome \in Outcomes
           /\ receipts'[Key[c]] = Decision(c, tx[w].outcome, ResultVersion(w))
           /\ \A k \in Keys \ {Key[c]} : receipts'[k] = receipts[k]
           /\ tx[w].outcome = "done" =>
                 /\ ~Done("CANCEL")
                 /\ Len(log') = Len(log) + 1
                 /\ \A i \in 1..Len(log) : log'[i] = log[i]
                 /\ log'[Len(log) + 1].key = Key[c]
                 /\ log'[Len(log) + 1].hash = Hash[c]
                 /\ ResultVersion(w) = Len(log) + 2
           /\ tx[w].outcome # "done" => log' = log
  <1> DEFINE c == tx[w].client
  <1>1. c \in Clients /\ Key[c] \in Keys /\ ~Decided(Key[c])
    BY DEF IInv, TypeOK, HeldKeysOpen, Keys, Ready, Owning
  <1>2. /\ tx[w].outcome \in Outcomes
        /\ tx[w].outcome = "done" => Promise!Fits(c)
    BY DEF IInv, DecisionFits
  <1>3. Promise!Fits(c) => ~Done("CANCEL")
    BY <1>1, ClientsAssumption DEF Promise!Fits, Promise!Done, Done, Kinds
  <1>4. /\ receipts'[Key[c]] = Decision(c, tx[w].outcome, ResultVersion(w))
        /\ \A k \in Keys \ {Key[c]} : receipts'[k] = receipts[k]
    BY <1>1 DEF IInv, TypeOK, TakesEffect
  <1>5. ASSUME tx[w].outcome = "done"
        PROVE  /\ Len(log') = Len(log) + 1
               /\ \A i \in 1..Len(log) : log'[i] = log[i]
               /\ log'[Len(log) + 1].key = Key[c]
               /\ log'[Len(log) + 1].hash = Hash[c]
               /\ ResultVersion(w) = Len(log) + 2
    <2>1. [key |-> Key[c], hash |-> Hash[c], kind |-> Kind[c],
           expected |-> Expected[c]] \in Change
      BY <1>1, ClientsAssumption DEF Change
    <2>2. log' = Append(log, [key |-> Key[c], hash |-> Hash[c],
                              kind |-> Kind[c], expected |-> Expected[c]])
      BY <1>5 DEF TakesEffect
    <2>3. log \in Seq(Change)
      BY DEF IInv, TypeOK
    <2>4. Len(log) \in Nat /\ ResultVersion(w) = Len(log) + 2
      BY <2>3, <1>5 DEF ResultVersion, Version
    <2> QED
      BY <2>1, <2>2, <2>3, <2>4
  <1>6. tx[w].outcome # "done" => log' = log
    BY DEF TakesEffect
  <1> QED
    BY <1>1, <1>2, <1>3, <1>4, <1>5, <1>6

LEMMA LogLength == IInv => Len(log) \in Nat /\ DOMAIN log = 1..Len(log)
  BY DEF IInv, TypeOK

(* The tables grow with every effect and agree after it. *)
LEMMA EffectKeepsTables ==
    ASSUME IInv, IInv', TablesAgree, NEW w \in Workers, tx[w].at \in Ready,
           TakesEffect(w)
    PROVE  TablesGrow /\ TablesAgree'
  <1> DEFINE c == tx[w].client
             o == tx[w].outcome
  <1>1. PICK n \in Nat : n = Len(log) /\ DOMAIN log = 1..n
    BY LogLength
  <1>2. DOMAIN log' = 1..Len(log')
    BY DEF IInv, TypeOK
  <1>3. /\ c \in Clients /\ Key[c] \in Keys /\ ~Decided(Key[c])
        /\ receipts'[Key[c]] = Decision(c, o, ResultVersion(w))
        /\ \A k \in Keys \ {Key[c]} : receipts'[k] = receipts[k]
    BY EffectWrites
  <1>4. /\ o = "done" => /\ ~Done("CANCEL")
                         /\ Len(log') = n + 1
                         /\ \A i \in 1..n : log'[i] = log[i]
                         /\ log'[n + 1].key = Key[c]
                         /\ log'[n + 1].hash = Hash[c]
                         /\ ResultVersion(w) = n + 2
        /\ o # "done" => log' = log
    BY <1>1, EffectWrites
  <1>5. \A i \in DOMAIN log : i \in DOMAIN log' /\ log'[i] = log[i]
    <2>1. CASE o = "done"
      BY <1>1, <1>2, <1>4, <2>1
    <2>2. CASE o # "done"
      BY <1>4, <2>2
    <2> QED
      BY <2>1, <2>2
  <1>6. TablesGrow
    BY <1>3, <1>4, <1>5 DEF TablesGrow
  <1>7. ASSUME NEW k \in Keys PROVE SuccessWrote(k)'
    <2>1. CASE k = Key[c]
      <3>1. /\ receipts'[k].outcome = o /\ receipts'[k].hash = Hash[c]
            /\ receipts'[k].version = ResultVersion(w)
        BY <1>3, <2>1 DEF Decision
      <3>2. CASE o = "done"
        <4>1. receipts'[k].version - 1 = n + 1
          BY <1>4, <3>1, <3>2
        <4>2. n + 1 \in DOMAIN log'
          BY <1>2, <1>4, <3>2
        <4> QED
          BY <1>4, <2>1, <3>1, <3>2, <4>1, <4>2 DEF SuccessWrote
      <3> QED
        BY <3>1, <3>2 DEF SuccessWrote
    <2>2. CASE k # Key[c]
      <3>1. receipts'[k] = receipts[k] /\ SuccessWrote(k)
        BY <1>3, <2>2 DEF TablesAgree
      <3> QED
        BY <1>5, <3>1 DEF SuccessWrote
    <2> QED
      BY <2>1, <2>2
  <1>8. ASSUME NEW i \in DOMAIN log' PROVE receipts'[log'[i].key].outcome = "done"
    <2>1. CASE i \in DOMAIN log
      <3>1. log'[i] = log[i] /\ receipts[log[i].key].outcome = "done"
        BY <1>5, <2>1 DEF TablesAgree
      <3>2. log[i].key \in Keys
        <4>1. log \in Seq(Change)
          BY DEF IInv, TypeOK
        <4>2. log[i] \in Change
          BY <1>1, <2>1, <4>1
        <4> QED
          BY <4>2 DEF Change
      <3>3. log[i].key # Key[c]
        BY <1>3, <3>1 DEF Decided, IInv, HeldKeysOpen, Ready, Owning
      <3> QED
        BY <1>3, <3>1, <3>2, <3>3
    <2>2. CASE i \notin DOMAIN log
      <3>1. o = "done"
        BY <1>4, <2>2
      <3>2. i = n + 1
        BY <1>1, <1>2, <1>4, <2>2, <3>1
      <3> QED
        BY <1>3, <1>4, <3>1, <3>2 DEF Decision
    <2> QED
      BY <2>1, <2>2
  <1> QED
    BY <1>6, <1>7, <1>8 DEF TablesAgree

(* What backs an answer stays. *)
LEMMA BackingStays ==
    ASSUME IInv, TablesGrow, NEW c \in Clients, NEW a, Backed(c, a)
    PROVE  Backed(c, a)'
  <1>1. Key[c] \in Keys
    BY DEF Keys
  <1>2. Decided(Key[c]) => receipts'[Key[c]] = receipts[Key[c]]
    BY <1>1 DEF TablesGrow
  <1>3. a.outcome = "done" => /\ a.version - 1 \in DOMAIN log'
                              /\ log'[a.version - 1].key = Key[c]
                              /\ log'[a.version - 1].hash = Hash[c]
    BY DEF Backed, AnswerRecorded, TablesGrow
  <1>4. AnswerRecorded(c, a)'
    BY <1>2, <1>3 DEF Backed, AnswerRecorded, UnreadableNoop, Decided
  <1>5. a.outcome = "conflict" => Decided(Key[c])'
    BY <1>2 DEF Backed, Decided
  <1>6. Done("CANCEL") /\ ~Wrote(c) => Done("CANCEL")' /\ ~Wrote(c)'
    BY DEF TablesGrow, Done, Wrote
  <1> QED
    BY <1>2, <1>4, <1>5, <1>6 DEF Backed, Decided

(* A client hears at most one new answer, which is backed. *)
HearsBacked ==
    \A c \in Clients : \A a \in heard'[c] : a \in heard[c] \/ Backed(c, a)'

LEMMA HearsOne ==
    ASSUME IInv, NEW c \in Clients, NEW a, Hears(c, a), Backed(c, a)'
    PROVE  HearsBacked
  BY DEF IInv, TypeOK, Hears, HearsBacked

(* What Commit answers is on record. *)
LEMMA CommitBacked ==
    ASSUME IInv, IInv', TablesAgree, NEW w \in Workers, Commit(w)
    PROVE  HearsBacked
  <1>1. tx[w].at \in Ready /\ TakesEffect(w)
    BY DEF Commit, Ready
  <1>2. PICK n \in Nat : n = Len(log)
    BY LogLength
  <1>3. DOMAIN log' = 1..Len(log')
    BY DEF IInv, TypeOK
  <1>4. PICK c \in Clients, o \in Outcomes, v \in Nat :
           c = tx[w].client /\ o = tx[w].outcome /\ v = ResultVersion(w)
    <2>1. ResultVersion(w) \in Nat
      BY <1>2 DEF ResultVersion, Version
    <2> QED
      BY <1>1, <2>1, EffectWrites
  <1>5. /\ receipts'[Key[c]] = Decision(c, o, v)
        /\ o = "done" => /\ Len(log') = n + 1
                         /\ log'[n + 1].key = Key[c]
                         /\ log'[n + 1].hash = Hash[c]
                         /\ v = n + 2
    BY <1>1, <1>2, <1>4, EffectWrites
  <1>6. PICK a : a = Answer(o, v)
    OBVIOUS
  <1>7. Hears(c, a)
    BY <1>4, <1>6 DEF Commit
  <1>8. /\ receipts'[Key[c]].outcome = o /\ receipts'[Key[c]].hash = Hash[c]
        /\ a.outcome = o /\ a.version = v
    BY <1>5, <1>6 DEF Decision, Answer
  <1>9. o = "done" => /\ a.version - 1 \in DOMAIN log'
                      /\ log'[a.version - 1].key = Key[c]
                      /\ log'[a.version - 1].hash = Hash[c]
    <2> SUFFICES ASSUME o = "done"
                 PROVE  /\ a.version - 1 \in DOMAIN log'
                        /\ log'[a.version - 1].key = Key[c]
                        /\ log'[a.version - 1].hash = Hash[c]
      OBVIOUS
    <2>1. a.version - 1 = n + 1 /\ n + 1 \in 1..Len(log')
      BY <1>2, <1>5, <1>8
    <2> QED
      BY <1>3, <1>5, <2>1
  <1>10. AnswerRecorded(c, a)'
    BY <1>4, <1>8, <1>9 DEF AnswerRecorded, UnreadableNoop, Outcomes
  <1>11. Backed(c, a)'
    BY <1>4, <1>8, <1>10 DEF Backed, Outcomes
  <1> QED
    BY <1>7, <1>11, HearsOne

(* What ReplayReceipt answers is on record. *)
LEMMA ReplayBacked ==
    ASSUME IInv, TablesAgree, NEW w \in Workers, ReplayReceipt(w)
    PROVE  HearsBacked
  <1>1. PICK c \in Clients : c = tx[w].client
    BY DEF ReplayReceipt, IInv, TypeOK
  <1>2. PICK receipt : receipt = receipts[Key[c]]
    OBVIOUS
  <1>3. PICK a : a = ReplayedAnswer(c, receipt)
    OBVIOUS
  <1>4. Key[c] \in Keys /\ SuccessWrote(Key[c])
    BY DEF Keys, TablesAgree
  <1>5. receipt \in Receipt /\ Decided(Key[c])
    BY <1>1, <1>2, <1>4 DEF ReplayReceipt, Decided, IInv, TypeOK, NoReceipt
  <1>6. /\ UNCHANGED <<log, receipts>>
        /\ Hears(c, a)
    BY <1>1, <1>2, <1>3 DEF ReplayReceipt
  <1>7. \/ a.outcome = "conflict" /\ receipt.hash # Hash[c]
        \/ a.outcome = "error" /\ UnreadableNoop(c)
        \/ /\ a.outcome = receipt.outcome /\ a.version = receipt.version
           /\ receipt.hash = Hash[c]
    BY <1>2, <1>3 DEF ReplayedAnswer, Answer, ServerError, UnreadableNoop
  <1>8. receipt.outcome \in Outcomes
    BY <1>5 DEF Receipt
  <1>9. Backed(c, a)
    BY <1>2, <1>4, <1>5, <1>7, <1>8
    DEF Backed, AnswerRecorded, UnreadableNoop, SuccessWrote, Outcomes
  <1>10. Backed(c, a)'
    BY <1>6, <1>9 DEF Backed, AnswerRecorded, UnreadableNoop, Decided, Done, Wrote
  <1> QED
    BY <1>6, <1>10, HearsOne

(* The refusals without a receipt: of a disabled principal's wake, and of   *)
(* the cancellation of a closed instance, whose key is still open.          *)
LEMMA RefusalBacked ==
    ASSUME IInv, TablesAgree, NEW w \in Workers,
           RefuseDisabledWake(w) \/ RefuseClosed(w)
    PROVE  HearsBacked
  <1>1. PICK c \in Clients : c = tx[w].client
    BY DEF RefuseDisabledWake, RefuseClosed, IInv, TypeOK
  <1>2. PICK a : a = Answer("refused", 0)
    OBVIOUS
  <1>3. /\ UNCHANGED <<log, receipts>>
        /\ Hears(c, a)
        /\ Kind[c] = "CANCEL" => Done("CANCEL")
    <2>1. CASE RefuseDisabledWake(w)
      <3>1. /\ UNCHANGED <<log, receipts>>
            /\ Hears(tx[w].client, Answer("refused", 0))
            /\ Kind[tx[w].client] = "WAKE"
        BY <2>1 DEF RefuseDisabledWake
      <3> QED
        BY <1>1, <1>2, <3>1
    <2>2. CASE RefuseClosed(w)
      BY <1>1, <1>2, <2>2 DEF RefuseClosed, CancelsAgain
    <2> QED
      BY <2>1, <2>2
  <1>4. ~Decided(Key[c])
    BY <1>1 DEF RefuseDisabledWake, RefuseClosed, IInv, HeldKeysOpen, Owning
  <1>5. ~Wrote(c)
    BY <1>4 DEF Wrote, TablesAgree, Decided
  <1>6. a.outcome = "refused"
    BY <1>2 DEF Answer
  <1>7. Kind[c] # "TRANSITION"
    BY <1>1 DEF RefuseDisabledWake, RefuseClosed, CancelsAgain
  <1>8. Backed(c, a)
    BY <1>3, <1>5, <1>6, <1>7 DEF Backed, AnswerRecorded
  <1>9. Backed(c, a)'
    BY <1>3, <1>8 DEF Backed, AnswerRecorded, UnreadableNoop, Decided, Done, Wrote
  <1> QED
    BY <1>3, <1>9, HearsOne

(* One step of the system. *)
LEMMA RecordStep ==
    ASSUME IInv, IInv', TablesAgree, [Next]_vars
    PROVE  TablesGrow /\ TablesAgree' /\ HearsBacked
  <1>1. ASSUME UNCHANGED <<log, receipts>>
        PROVE  TablesGrow /\ TablesAgree'
    BY <1>1 DEF TablesGrow, TablesAgree, SuccessWrote
  <1>2. ASSUME UNCHANGED heard
        PROVE  HearsBacked
    BY <1>2 DEF HearsBacked
  <1>3. ASSUME NEW w \in Workers,
               Commit(w) \/ CommitAnswerLost(w) \/ DoubtCommits(w)
        PROVE  TablesGrow /\ TablesAgree' /\ HearsBacked
    <2>1. tx[w].at \in Ready /\ TakesEffect(w)
      BY <1>3 DEF Commit, CommitAnswerLost, DoubtCommits, Ready
    <2>2. HearsBacked
      BY <1>2, <1>3, CommitBacked DEF CommitAnswerLost, DoubtCommits
    <2> QED
      BY <2>1, <2>2, EffectKeepsTables
  <1>4. ASSUME NEW w \in Workers,
               ReplayReceipt(w) \/ RefuseDisabledWake(w) \/ RefuseClosed(w)
        PROVE  TablesGrow /\ TablesAgree' /\ HearsBacked
    <2>1. UNCHANGED <<log, receipts>>
      BY <1>4 DEF ReplayReceipt, RefuseDisabledWake, RefuseClosed
    <2> QED
      BY <1>1, <1>4, <2>1, ReplayBacked, RefusalBacked
  <1>5. ASSUME NEW w \in Workers,
               \/ AcquireReceipt(w) \/ LockInstance(w) \/ Decide(w)
               \/ DoubtRollsBack(w) \/ CommitTimesOut(w) \/ RollBack(w)
        PROVE  UNCHANGED <<log, receipts, heard>>
    BY <1>5 DEF AcquireReceipt, LockInstance, Decide, DoubtRollsBack,
                CommitTimesOut, RollBack
  <1>6. ASSUME NEW w \in Workers, NEW c \in Clients, Send(w, c)
        PROVE  UNCHANGED <<log, receipts, heard>>
    BY <1>6 DEF Send
  <1>7. ASSUME ChangePrincipal \/ UNCHANGED vars
        PROVE  UNCHANGED <<log, receipts, heard>>
    BY <1>7 DEF ChangePrincipal, vars
  <1> QED
    BY <1>1, <1>2, <1>3, <1>4, <1>5, <1>6, <1>7 DEF Next, Handle, GoesWrong

LEMMA RecordInvariance == Spec => []RecordInv
  <1>1. Init => TablesAgree /\ AnswersBacked
    BY DEF Init, TablesAgree, SuccessWrote, NoReceipt, AnswersBacked
  <1>2. RecordInv /\ IInv' /\ [Next]_vars => RecordInv'
    <2> SUFFICES ASSUME RecordInv, IInv', [Next]_vars
                 PROVE  TablesAgree' /\ AnswersBacked'
      BY DEF RecordInv
    <2>1. TablesGrow /\ TablesAgree' /\ HearsBacked
      BY RecordStep DEF RecordInv
    <2>2. ASSUME NEW c \in Clients, NEW a \in heard'[c]
          PROVE  Backed(c, a)'
      BY <2>1, <2>2, BackingStays DEF RecordInv, AnswersBacked, HearsBacked
    <2> QED
      BY <2>1, <2>2 DEF AnswersBacked
  <1> QED
    BY <1>1, <1>2, Invariance, PTL DEF Spec, RecordInv

(* For any clients and faults: what insert_or_load's replays, the commits   *)
(* and the refusals told a client stays true.  A refusal is on record and   *)
(* its key's, so no duplicate can succeed later; only the cancellation of a *)
(* closed instance is refused without a receipt, and a closed instance's    *)
(* log stays as it is.                                                      *)
THEOREM AnswersStayTrue == Spec => []AnswersAreOnRecord
  <1>1. RecordInv => AnswersAreOnRecord
    <2> SUFFICES ASSUME RecordInv, NEW c \in Clients, NEW a \in heard[c]
                 PROVE  /\ AnswerRecorded(c, a)
                        /\ a.outcome = "refused" /\ Kind[c] # "WAKE" => ~Wrote(c)
      BY DEF AnswersAreOnRecord, Wrote
    <2>1. Backed(c, a)
      BY DEF RecordInv, AnswersBacked
    <2>2. a.outcome = "refused" /\ Kind[c] # "WAKE" =>
             \/ receipts[Key[c]].outcome = "refused"
             \/ ~Wrote(c)
      BY <2>1, ClientsAssumption DEF Backed, AnswerRecorded, Kinds
    <2>3. receipts[Key[c]].outcome = "refused" => ~Wrote(c)
      BY DEF RecordInv, TablesAgree, Wrote
    <2> QED
      BY <2>1, <2>2, <2>3 DEF Backed
  <1> QED
    BY <1>1, RecordInvariance, PTL
=============================================================================
