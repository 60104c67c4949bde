---------------------------- MODULE OutboxProofs ----------------------------
(***************************************************************************)
(* Theorems about Outbox, for any rows, commands, instances and workers and *)
(* any number of faults.                                                    *)
(***************************************************************************)
EXTENDS OutboxProperties, FiniteSetTheorems, TLAPS

-----------------------------------------------------------------------------
(* The inductive invariant.                                                 *)

Holding == {"claimed", "answered"}

(* A claimed row is pending and due, and claimed once. *)
ClaimSafety ==
    \A w \in Workers : worker[w].at \in Holding =>
        /\ Pending(Current(w)) /\ row[Current(w)].due
        /\ \A v \in Workers : Claims(v, Current(w)) => v = w

(* The answer a loop has is the receiver's. *)
AnswersTrue ==
    \A w \in Workers : worker[w].at = "answered" =>
        /\ worker[w].answer # "none"
        /\ worker[w].answer = "accepted" => Received(Current(w))
        /\ worker[w].answer = "permanent" =>
              Kind[Current(w)] = "EXECUTION_KICK"

IInv == /\ TypeOK /\ ClaimSafety /\ AnswersTrue
        /\ DeliveredWasReceived /\ OnlyKicksGiveUp

-----------------------------------------------------------------------------
(* Types.                                                                   *)

LEMMA BatchType == \A kind : Batch(kind) \subseteq Rows
  BY DEF Batch, Due

LEMMA AttemptType ==
    ASSUME TypeOK, NEW r \in Rows
    PROVE  AttemptFailed(r) \in RowRecord
  BY DEF TypeOK, RowRecord, States, AttemptFailed

LEMMA SettlementType ==
    ASSUME TypeOK, NEW r \in Rows,
           NEW answer \in {"accepted", "permanent", "retryable"}
    PROVE  Settlement(r, answer) \in RowRecord
  <1>1. row[r] \in RowRecord
    BY DEF TypeOK
  <1>2. CASE answer = "accepted"
    <2>1. Settlement(r, answer) = [row[r] EXCEPT !.state = "delivered"]
      BY <1>2 DEF Settlement
    <2> QED
      BY <1>1, <2>1 DEF RowRecord, States
  <1>3. CASE answer = "permanent"
    <2>1. Settlement(r, answer) = [row[r] EXCEPT !.state = "dead",
                                      !.attempts = row[r].attempts + 1]
      BY <1>1, <1>3 DEF Settlement, RowRecord
    <2>2. row[r].attempts + 1 \in Nat
      BY <1>1 DEF RowRecord
    <2> QED
      BY <1>1, <2>1, <2>2 DEF RowRecord, States
  <1>4. CASE answer = "retryable"
    BY <1>4, AttemptType DEF Settlement
  <1> QED
    BY <1>2, <1>3, <1>4

(* The row of a loop that is at one.                                        *)
LEMMA CurrentType ==
    ASSUME TypeOK, NEW w \in Workers, worker[w].at \notin {"idle", "next"}
    PROVE  Current(w) \in Rows /\ Instance(Current(w)) \in Instances
  <1>1. worker[w] \in Loop
    BY DEF TypeOK
  <1>2. worker[w].row # NoRow
    BY DEF TypeOK
  <1>3. Current(w) \in Rows
    BY <1>1, <1>2 DEF Current, Loop
  <1> QED
    BY <1>3, OutboxAssumption DEF Instance

(* What the loops' steps write into a loop's record has its type.           *)
LoopOK(rec) == /\ rec \in Loop
               /\ rec.row = NoRow <=> rec.at \in {"idle", "next"}

WorkersOK == worker \in [Workers -> Loop] /\ \A w \in Workers : LoopOK(worker[w])

LEMMA MovesType ==
    ASSUME TypeOK, NEW w \in Workers, NEW at \in Stages \ {"idle", "next"},
           worker[w].at \notin {"idle", "next"}, Moves(w, at)
    PROVE  WorkersOK'
  <1>1. worker[w] \in Loop /\ worker[w].row # NoRow
    BY DEF TypeOK
  <1>2. worker' = [worker EXCEPT ![w] = [worker[w] EXCEPT !.at = at]]
    BY DEF Moves
  <1>3. LoopOK([worker[w] EXCEPT !.at = at])
    BY <1>1 DEF LoopOK, Loop
  <1> QED
    BY <1>2, <1>3 DEF WorkersOK, LoopOK, TypeOK

LEMMA AdvancesType ==
    ASSUME TypeOK, NEW w \in Workers, Advances(w)
    PROVE  WorkersOK'
  <1>1. worker[w] \in Loop
    BY DEF TypeOK
  <1>2. LoopOK(Idle) /\ LoopOK(Between("next", worker[w].todo))
    BY <1>1 DEF LoopOK, Loop, Idle, Between, Stages, Answers
  <1>3. \/ worker' = [worker EXCEPT ![w] = Idle]
        \/ worker' = [worker EXCEPT ![w] = Between("next", worker[w].todo)]
    BY DEF Advances
  <1> QED
    BY <1>2, <1>3 DEF WorkersOK, LoopOK, TypeOK

LEMMA AnsweredType ==
    ASSUME TypeOK, NEW w \in Workers, worker[w].at = "claimed",
           NEW answer \in Answers, Answered(w, answer)
    PROVE  WorkersOK'
  <1>1. worker[w] \in Loop /\ worker[w].row # NoRow
    BY DEF TypeOK
  <1>2. worker' = [worker EXCEPT ![w] =
                     [worker[w] EXCEPT !.at = "answered", !.answer = answer]]
    BY <1>1 DEF Answered, TypeOK
  <1>3. LoopOK([worker[w] EXCEPT !.at = "answered", !.answer = answer])
    BY <1>1 DEF LoopOK, Loop, Stages
  <1> QED
    BY <1>2, <1>3 DEF WorkersOK, LoopOK, TypeOK

LEMMA IdleType ==
    ASSUME TypeOK, NEW w \in Workers, worker' = [worker EXCEPT ![w] = Idle]
    PROVE  WorkersOK'
  <1>1. LoopOK(Idle)
    BY DEF LoopOK, Loop, Idle, Between, Stages, Answers
  <1> QED
    BY <1>1 DEF WorkersOK, LoopOK, TypeOK

(* TypeOK is its parts, the loops' one being WorkersOK.                     *)
LEMMA TypeParts ==
    TypeOK <=> /\ WorkersOK
               /\ started \in [Commands -> Nat]
               /\ committed \in Seq(Commands)
               /\ row \in [Rows -> RowRecord]
               /\ forum \subseteq Instances /\ bound \subseteq forum
               /\ posts \in Seq(Rows) /\ inFlight \subseteq Rows
               /\ faults \in 0..MaxFaults
  BY DEF TypeOK, WorkersOK, LoopOK

LEMMA TypePartsNext ==
    TypeOK' <=> /\ WorkersOK'
                /\ started' \in [Commands -> Nat]
                /\ committed' \in Seq(Commands)
                /\ row' \in [Rows -> RowRecord]
                /\ forum' \subseteq Instances /\ bound' \subseteq forum'
                /\ posts' \in Seq(Rows) /\ inFlight' \subseteq Rows
                /\ faults' \in 0..MaxFaults
  BY DEF TypeOK, WorkersOK, LoopOK

LEMMA FaultType == ASSUME TypeOK, Fault PROVE faults' \in 0..MaxFaults
  BY OutboxAssumption DEF Fault, TypeOK

(* The stamp of a transaction that begins. *)
LEMMA BeginStamp == Cardinality({d \in Commands : HasBegun(d)}) + 1 \in Nat
  <1>1. IsFiniteSet({d \in Commands : HasBegun(d)})
    BY OutboxAssumption, FS_Subset
  <1> QED
    BY <1>1, FS_CardinalityType

LEMMA CommandsType ==
    ASSUME TypeOK, NEW c \in Commands, Begin(c) \/ CommitCommand(c)
    PROVE  TypeOK'
  <1>1. CASE Begin(c)
    <2>1. started' \in [Commands -> Nat]
      BY <1>1, BeginStamp DEF Begin, TypeOK
    <2> QED
      BY <1>1, <2>1, TypePartsNext, TypeParts DEF Begin, WorkersOK, LoopOK
  <1>2. CASE CommitCommand(c)
    <2>1. row' \in [Rows -> RowRecord]
      BY <1>2 DEF CommitCommand, TypeOK, RowRecord, States
    <2>2. committed' \in Seq(Commands)
      BY <1>2 DEF CommitCommand, TypeOK
    <2> QED
      BY <1>2, <2>1, <2>2, TypePartsNext, TypeParts
      DEF CommitCommand, WorkersOK, LoopOK
  <1> QED
    BY <1>1, <1>2

LEMMA PassType ==
    ASSUME TypeOK, AnswersTrue, NEW w \in Workers, Pass(w)
    PROVE  TypeOK'
  <1>1. CASE \E kind \in Kinds : StartDrain(w, kind)
    <2>1. PICK kind \in Kinds : StartDrain(w, kind)
      BY <1>1
    <2>2. LoopOK(Between("next", Batch(kind)))
      BY BatchType DEF LoopOK, Loop, Between, Stages, Answers
    <2>3. WorkersOK'
      BY <2>1, <2>2 DEF StartDrain, WorkersOK, LoopOK, TypeOK
    <2> QED
      BY <2>1, <2>3, TypeParts, TypePartsNext DEF StartDrain
  <1>2. CASE Prepare(w)
    <2>1. PICK r \in worker[w].todo :
             worker' = [worker EXCEPT ![w] =
                [at |-> IF Kind[r] = "FORUM_EVENT" /\ Instance(r) \notin bound
                        THEN "finding" ELSE "ready",
                 todo |-> @.todo \ {r}, row |-> r, answer |-> "none"]]
      BY <1>2 DEF Prepare
    <2>2. r \in Rows /\ r # NoRow /\ worker[w].todo \subseteq Rows
      BY OutboxAssumption DEF TypeOK, Loop
    <2>3. \A at \in {"finding", "ready"} :
             LoopOK([at |-> at, todo |-> worker[w].todo \ {r}, row |-> r,
                     answer |-> "none"])
      BY <2>2 DEF LoopOK, Loop, Stages, Answers
    <2>4. WorkersOK'
      BY <2>1, <2>3 DEF WorkersOK, LoopOK, TypeOK
    <2> QED
      BY <1>2, <2>4, TypeParts, TypePartsNext DEF Prepare
  <1>3. CASE FindThread(w)
    <2>1. WorkersOK'
      BY <1>3, MovesType DEF FindThread, Stages
    <2>2. bound' \subseteq forum'
      BY <1>3 DEF FindThread, TypeOK
    <2> QED
      BY <1>3, <2>1, <2>2, TypeParts, TypePartsNext DEF FindThread
  <1>4. CASE CreateThread(w)
    <2>1. WorkersOK'
      BY <1>4, MovesType DEF CreateThread, Stages
    <2>2. Instance(Current(w)) \in Instances
      BY <1>4, CurrentType DEF CreateThread
    <2>3. forum' \subseteq Instances /\ bound' \subseteq forum'
      BY <1>4, <2>2 DEF CreateThread, TypeOK
    <2> QED
      BY <1>4, <2>1, <2>3, TypeParts, TypePartsNext DEF CreateThread
  <1>5. CASE SettleUnclaimed(w)
    <2>1. WorkersOK'
      BY <1>5, AdvancesType DEF SettleUnclaimed
    <2>2. Current(w) \in Rows
      BY <1>5, CurrentType DEF SettleUnclaimed
    <2>3. row' \in [Rows -> RowRecord]
      BY <1>5, <2>2, AttemptType DEF SettleUnclaimed, TypeOK
    <2> QED
      BY <1>5, <2>1, <2>3, TypeParts, TypePartsNext DEF SettleUnclaimed
  <1>6. CASE Claim(w)
    <2>1. WorkersOK'
      BY <1>6, MovesType, AdvancesType DEF Claim, Stages
    <2> QED
      BY <1>6, <2>1, TypeParts, TypePartsNext DEF Claim
  <1>7. CASE Send(w)
    <2>1. WorkersOK'
      BY <1>7, AnsweredType DEF Send, Answers
    <2>2. Current(w) \in Rows
      BY <1>7, CurrentType DEF Send
    <2>3. posts' \in Seq(Rows)
      BY <1>7, <2>2 DEF Send, TypeOK
    <2> QED
      BY <1>7, <2>1, <2>3, TypeParts, TypePartsNext DEF Send
  <1>8. CASE Settle(w)
    <2>1. WorkersOK'
      BY <1>8, AdvancesType DEF Settle
    <2>2. Current(w) \in Rows
      BY <1>8, CurrentType DEF Settle
    <2>3. worker[w].answer \in {"accepted", "permanent", "retryable"}
      BY <1>8 DEF Settle, AnswersTrue, TypeOK, Loop, Answers
    <2>4. Settlement(Current(w), worker[w].answer) \in RowRecord
      BY <2>2, <2>3, SettlementType
    <2>5. row' \in [Rows -> RowRecord]
      BY <1>8, <2>2, <2>4 DEF Settle, TypeOK
    <2> QED
      BY <1>8, <2>1, <2>5, TypeParts, TypePartsNext DEF Settle
  <1> QED
    BY <1>1, <1>2, <1>3, <1>4, <1>5, <1>6, <1>7, <1>8 DEF Pass

LEMMA GoesWrongType ==
    ASSUME TypeOK, NEW w \in Workers, GoesWrong(w)
    PROVE  TypeOK'
  <1>1. CASE ThreadUnavailable(w)
    <2>1. WorkersOK' /\ faults' \in 0..MaxFaults
      BY <1>1, MovesType, FaultType DEF ThreadUnavailable, Stages
    <2>2. Instance(Current(w)) \in Instances
      BY <1>1, CurrentType DEF ThreadUnavailable
    <2>3. forum' \subseteq Instances /\ bound' \subseteq forum'
      BY <1>1, <2>2 DEF ThreadUnavailable, TypeOK
    <2> QED
      BY <1>1, <2>1, <2>3, TypeParts, TypePartsNext DEF ThreadUnavailable
  <1>2. CASE SendUnanswered(w)
    <2>1. WorkersOK' /\ faults' \in 0..MaxFaults
      BY <1>2, AnsweredType, FaultType DEF SendUnanswered, Answers
    <2>2. Current(w) \in Rows
      BY <1>2, CurrentType DEF SendUnanswered
    <2>3. /\ posts' = posts \/ posts' = Append(posts, Current(w))
          /\ inFlight' = inFlight \/ inFlight' = inFlight \cup {Current(w)}
      BY <1>2 DEF SendUnanswered
    <2>4. posts' \in Seq(Rows)
      <3>1. posts \in Seq(Rows)
        BY DEF TypeOK
      <3> QED
        BY <2>2, <2>3, <3>1
    <2>5. inFlight' \subseteq Rows
      BY <2>2, <2>3 DEF TypeOK
    <2> QED
      BY <1>2, <2>1, <2>4, <2>5, TypeParts, TypePartsNext DEF SendUnanswered
  <1>3. CASE RejectKick(w)
    <2>1. WorkersOK' /\ faults' \in 0..MaxFaults
      BY <1>3, AnsweredType, FaultType DEF RejectKick, Answers
    <2> QED
      BY <1>3, <2>1, TypeParts, TypePartsNext DEF RejectKick
  <1>4. CASE Crash(w)
    <2>1. WorkersOK' /\ faults' \in 0..MaxFaults
      BY <1>4, IdleType, FaultType DEF Crash
    <2> QED
      BY <1>4, <2>1, TypeParts, TypePartsNext DEF Crash
  <1> QED
    BY <1>1, <1>2, <1>3, <1>4 DEF GoesWrong

LEMMA BindingType ==
    ASSUME TypeOK, NEW w \in Workers, NEW i \in Instances,
           EnsurePendingBinding(w, i)
    PROVE  TypeOK'
  BY TypeParts, TypePartsNext
  DEF EnsurePendingBinding, WorkersOK, LoopOK, TypeOK

LEMMA RowsType ==
    ASSUME TypeOK, NEW r \in Rows,
           LateArrival(r) \/ BackoffEnds(r) \/ Requeue(r)
    PROVE  TypeOK'
  <1>1. CASE LateArrival(r)
    <2>1. posts' \in Seq(Rows) /\ inFlight' \subseteq Rows
      BY <1>1 DEF LateArrival, TypeOK
    <2> QED
      BY <1>1, <2>1, TypeParts, TypePartsNext
      DEF LateArrival, WorkersOK, LoopOK
  <1>2. CASE BackoffEnds(r)
    <2>1. row' = [row EXCEPT ![r].due = TRUE]
      BY <1>2 DEF BackoffEnds
    <2>2. row' \in [Rows -> RowRecord]
      BY <2>1 DEF TypeOK, RowRecord
    <2> QED
      BY <1>2, <2>2, TypeParts, TypePartsNext
      DEF BackoffEnds, WorkersOK, LoopOK
  <1>3. CASE Requeue(r)
    <2>1. row' \in [Rows -> RowRecord]
      BY <1>3 DEF Requeue, TypeOK, RowRecord, States
    <2> QED
      BY <1>3, <2>1, TypeParts, TypePartsNext DEF Requeue, WorkersOK, LoopOK
  <1> QED
    BY <1>1, <1>2, <1>3

LEMMA TypeStep == ASSUME TypeOK, AnswersTrue, [Next]_vars PROVE TypeOK'
  <1>1. CASE UNCHANGED vars
    BY <1>1, TypeParts, TypePartsNext DEF vars, WorkersOK, LoopOK
  <1>2. CASE Next
    BY <1>2, CommandsType, PassType, GoesWrongType, BindingType, RowsType
    DEF Next
  <1> QED
    BY <1>1, <1>2

-----------------------------------------------------------------------------
(* What a step can do to a row, to a loop and to the receivers.             *)

Queued == [state |-> "pending", attempts |-> 0, due |-> TRUE]

Settles(w, r) ==
    /\ worker[w].at = "answered" /\ Current(w) = r
    /\ worker'[w].at \notin Holding
    /\ row'[r] = Settlement(r, worker[w].answer)

RowStep(r) ==
    \/ row'[r] = row[r]
    \/ row'[r] = Queued
    \/ row'[r] = [row[r] EXCEPT !.due = TRUE]
    \/ row'[r] = AttemptFailed(r) /\ ~Claimed(r)
    \/ \E w \in Workers : Settles(w, r)

TakesClaim(w) ==
    /\ worker[w].at = "ready" /\ Claimable(Current(w))
    /\ worker' = [worker EXCEPT ![w].at = "claimed"]
    /\ row' = row

TakesAnswer(w) ==
    /\ worker[w].at = "claimed"
    /\ \E answer \in Answers \ {"none"} :
          /\ Answered(w, answer)
          /\ answer = "accepted" => Received(Current(w))'
          /\ answer = "permanent" => Kind[Current(w)] = "EXECUTION_KICK"

LoopStep(w) ==
    \/ worker'[w] = worker[w]
    \/ worker'[w].at \notin Holding
    \/ TakesClaim(w)
    \/ TakesAnswer(w)

Shape == /\ \A r \in Rows : RowStep(r)
         /\ \A w \in Workers : LoopStep(w)
         /\ \A r \in Rows : Received(r) => Received(r)'

LEMMA PostsGrow ==
    ASSUME TypeOK, NEW r \in Rows, posts' = Append(posts, r)
    PROVE  /\ Received(r)'
           /\ \A q \in Rows : Received(q) => Received(q)'
  <1>1. /\ Len(posts) \in Nat
        /\ DOMAIN posts' = 1..(Len(posts) + 1)
        /\ posts'[Len(posts) + 1] = r
        /\ \A i \in 1..Len(posts) : posts'[i] = posts[i]
    BY DEF TypeOK
  <1>2. DOMAIN posts = 1..Len(posts)
    BY DEF TypeOK
  <1> QED
    BY <1>1, <1>2 DEF Received

LEMMA AdvancesReleases ==
    ASSUME TypeOK, NEW w \in Workers, Advances(w)
    PROVE  /\ worker'[w].at \notin Holding
           /\ \A v \in Workers \ {w} : worker'[v] = worker[v]
  BY DEF TypeOK, Advances, Idle, Between, Holding

LEMMA MovesOnly ==
    ASSUME TypeOK, NEW w \in Workers, NEW at, Moves(w, at)
    PROVE  /\ worker'[w].at = at
           /\ \A v \in Workers \ {w} : worker'[v] = worker[v]
  BY DEF TypeOK, Moves, Loop

LEMMA AnsweredOnly ==
    ASSUME TypeOK, NEW w \in Workers, NEW answer, Answered(w, answer)
    PROVE  /\ worker'[w].at = "answered" /\ worker'[w].answer = answer
           /\ Current(w)' = Current(w)
           /\ \A v \in Workers \ {w} : worker'[v] = worker[v]
  BY DEF TypeOK, Answered, Loop, Current

LEMMA PassShape ==
    ASSUME TypeOK, NEW w \in Workers, Pass(w)
    PROVE  Shape
  <1>1. CASE \E kind \in Kinds : StartDrain(w, kind)
    BY <1>1 DEF StartDrain, TypeOK, Between, Holding, Shape, RowStep, LoopStep,
                Received
  <1>2. CASE Prepare(w)
    BY <1>2 DEF Prepare, TypeOK, Holding, Shape, RowStep, LoopStep, Received
  <1>3. CASE FindThread(w)
    BY <1>3, MovesOnly
    DEF FindThread, Holding, Shape, RowStep, LoopStep, Received
  <1>4. CASE CreateThread(w)
    BY <1>4, MovesOnly
    DEF CreateThread, Holding, Shape, RowStep, LoopStep, Received
  <1>5. CASE SettleUnclaimed(w)
    <2>1. \A r \in Rows : RowStep(r)
      BY <1>5 DEF SettleUnclaimed, RowStep, TypeOK
    <2> QED
      BY <1>5, <2>1, AdvancesReleases
      DEF SettleUnclaimed, Shape, LoopStep, Received
  <1>6. CASE Claim(w)
    <2>1. CASE Claimable(Current(w))
      <3>1. TakesClaim(w)
        BY <1>6, <2>1 DEF Claim, Moves, TakesClaim
      <3> QED
        BY <1>6, <2>1, <3>1, MovesOnly
        DEF Claim, Shape, RowStep, LoopStep, Received
    <2>2. CASE ~Claimable(Current(w))
      BY <1>6, <2>2, AdvancesReleases
      DEF Claim, Shape, RowStep, LoopStep, Received
    <2> QED
      BY <2>1, <2>2
  <1>7. CASE Send(w)
    <2>1. Current(w) \in Rows
      BY <1>7, CurrentType DEF Send
    <2>2. TakesAnswer(w)
      BY <1>7, <2>1, PostsGrow, AnsweredOnly DEF Send, TakesAnswer, Answers
    <2> QED
      BY <1>7, <2>1, <2>2, PostsGrow, AnsweredOnly
      DEF Send, Shape, RowStep, LoopStep
  <1>8. CASE Settle(w)
    <2>1. worker'[w].at \notin Holding
      BY <1>8, AdvancesReleases DEF Settle
    <2>2. \A r \in Rows : RowStep(r)
      BY <1>8, <2>1 DEF Settle, RowStep, Settles, TypeOK
    <2> QED
      BY <1>8, <2>2, AdvancesReleases DEF Settle, Shape, LoopStep, Received
  <1> QED
    BY <1>1, <1>2, <1>3, <1>4, <1>5, <1>6, <1>7, <1>8 DEF Pass

LEMMA GoesWrongShape ==
    ASSUME TypeOK, NEW w \in Workers, GoesWrong(w)
    PROVE  Shape
  <1>1. CASE ThreadUnavailable(w)
    BY <1>1, MovesOnly
    DEF ThreadUnavailable, Holding, Shape, RowStep, LoopStep, Received
  <1>2. CASE SendUnanswered(w)
    <2>1. Current(w) \in Rows
      BY <1>2, CurrentType DEF SendUnanswered
    <2>2. TakesAnswer(w)
      BY <1>2 DEF SendUnanswered, TakesAnswer, Answers
    <2>3. \A r \in Rows : Received(r) => Received(r)'
      BY <1>2, <2>1, PostsGrow DEF SendUnanswered, Received
    <2> QED
      BY <1>2, <2>2, <2>3, AnsweredOnly
      DEF SendUnanswered, Shape, RowStep, LoopStep
  <1>3. CASE RejectKick(w)
    <2>1. TakesAnswer(w)
      BY <1>3 DEF RejectKick, TakesAnswer, Answers
    <2> QED
      BY <1>3, <2>1, AnsweredOnly
      DEF RejectKick, Shape, RowStep, LoopStep, Received
  <1>4. CASE Crash(w)
    BY <1>4 DEF Crash, TypeOK, Idle, Between, Holding, Shape, RowStep,
                LoopStep, Received
  <1> QED
    BY <1>1, <1>2, <1>3, <1>4 DEF GoesWrong

LEMMA OtherShape ==
    ASSUME TypeOK,
           \/ \E c \in Commands : Begin(c) \/ CommitCommand(c)
           \/ \E w \in Workers, i \in Instances : EnsurePendingBinding(w, i)
           \/ \E r \in Rows : LateArrival(r) \/ BackoffEnds(r) \/ Requeue(r)
           \/ UNCHANGED vars
    PROVE  Shape
  <1>1. \A w \in Workers : LoopStep(w)
    BY DEF Begin, CommitCommand, EnsurePendingBinding, LateArrival,
           BackoffEnds, Requeue, vars, LoopStep
  <1>2. \A r \in Rows : RowStep(r)
    BY DEF Begin, CommitCommand, EnsurePendingBinding, LateArrival,
           BackoffEnds, Requeue, vars, RowStep, Queued, TypeOK
  <1>3. \A r \in Rows : Received(r) => Received(r)'
    BY PostsGrow
    DEF Begin, CommitCommand, EnsurePendingBinding, LateArrival,
        BackoffEnds, Requeue, vars, Received
  <1> QED
    BY <1>1, <1>2, <1>3 DEF Shape

LEMMA StepShape == ASSUME TypeOK, [Next]_vars PROVE Shape
  BY PassShape, GoesWrongShape, OtherShape DEF Next

-----------------------------------------------------------------------------
(* The invariant is kept.                                                   *)

LEMMA ClaimsStep == ASSUME TypeOK, TypeOK', ClaimSafety, Shape PROVE ClaimSafety'
  <1> SUFFICES ASSUME NEW w \in Workers, worker'[w].at \in Holding
               PROVE  /\ Pending(Current(w))' /\ (row[Current(w)].due)'
                      /\ \A v \in Workers : Claims(v, Current(w))' => v = w
    BY DEF ClaimSafety
  <1> DEFINE r == Current(w)
  <1>1. LoopStep(w)
    BY DEF Shape
  <1>2. CASE TakesClaim(w)
    <2>1. /\ ~Claimed(r) /\ Pending(r) /\ row[r].due
          /\ Current(w)' = r /\ row' = row
          /\ \A v \in Workers \ {w} : worker'[v] = worker[v]
      BY <1>2 DEF TakesClaim, Claimable, TypeOK, Loop, Current
    <2> QED
      BY <2>1 DEF Claimed, Claims, Pending, Current, Holding
  <1>3. CASE ~TakesClaim(w)
    <2>1. worker[w].at \in Holding /\ Current(w)' = r
      BY <1>1, <1>3, AnsweredOnly DEF LoopStep, TakesAnswer, Holding, Current
    <2>2. /\ r \in Rows /\ Pending(r) /\ row[r].due /\ Claimed(r)
          /\ \A v \in Workers : Claims(v, r) => v = w
      BY <2>1, CurrentType DEF ClaimSafety, Claimed, Claims, Holding
    <2>3. \A v \in Workers : ~Settles(v, r)
      BY <2>2 DEF Settles, Claims
    <2>4. row'[r].state = "pending" /\ row'[r].due
      <3>1. \/ row'[r] = row[r]
            \/ row'[r] = Queued
            \/ row'[r] = [row[r] EXCEPT !.due = TRUE]
        BY <2>2, <2>3 DEF Shape, RowStep
      <3>2. row[r] \in RowRecord
        BY <2>2 DEF TypeOK
      <3> QED
        BY <2>2, <3>1, <3>2 DEF Queued, Pending, RowRecord
    <2>5. ASSUME NEW v \in Workers, Claims(v, Current(w))'
          PROVE  v = w
      <3>1. worker'[v].at \in Holding /\ Current(v)' = r
        BY <2>1, <2>5 DEF Claims, Holding, Current
      <3>2. CASE TakesClaim(v)
        BY <2>2, <3>1, <3>2 DEF TakesClaim, Claimable, TypeOK, Loop, Current
      <3>3. CASE ~TakesClaim(v)
        <4>1. worker[v].at \in Holding /\ Current(v) = r
          BY <3>1, <3>3, AnsweredOnly
          DEF Shape, LoopStep, TakesAnswer, Holding, Current
        <4> QED
          BY <2>2, <4>1 DEF Claims, Holding
      <3> QED
        BY <3>2, <3>3
    <2> QED
      BY <2>1, <2>4, <2>5 DEF Pending
  <1> QED
    BY <1>2, <1>3

LEMMA AnswersStep ==
    ASSUME TypeOK, TypeOK', AnswersTrue, Shape
    PROVE  AnswersTrue'
  <1> SUFFICES ASSUME NEW w \in Workers, worker'[w].at = "answered"
               PROVE  /\ worker'[w].answer # "none"
                      /\ worker'[w].answer = "accepted" => Received(Current(w))'
                      /\ worker'[w].answer = "permanent" =>
                            Kind[Current(w)'] = "EXECUTION_KICK"
    BY DEF AnswersTrue
  <1>1. LoopStep(w)
    BY DEF Shape
  <1>2. CASE TakesAnswer(w)
    <2>1. PICK answer \in Answers \ {"none"} :
             /\ Answered(w, answer)
             /\ answer = "accepted" => Received(Current(w))'
             /\ answer = "permanent" => Kind[Current(w)] = "EXECUTION_KICK"
      BY <1>2 DEF TakesAnswer
    <2> QED
      BY <2>1, AnsweredOnly
  <1>3. CASE ~TakesAnswer(w)
    <2>1. worker'[w] = worker[w]
      BY <1>1, <1>3 DEF LoopStep, TakesClaim, TypeOK, Loop, Holding
    <2>2. Current(w) \in Rows /\ Current(w)' = Current(w)
      BY <2>1, CurrentType DEF Current
    <2>3. Received(Current(w)) => Received(Current(w))'
      BY <2>2 DEF Shape, Received
    <2> QED
      BY <2>1, <2>2, <2>3 DEF AnswersTrue
  <1> QED
    BY <1>2, <1>3

(* The row a loop settles has what its answer says. *)
LEMMA SettlesOutcome ==
    ASSUME TypeOK, AnswersTrue, NEW r \in Rows, NEW w \in Workers, Settles(w, r)
    PROVE  \/ /\ row'[r] = [row[r] EXCEPT !.state = "delivered"]
              /\ Received(r)
           \/ /\ row'[r] = [row[r] EXCEPT !.state = "dead",
                                          !.attempts = row[r].attempts + 1]
              /\ Kind[r] = "EXECUTION_KICK"
           \/ row'[r] = AttemptFailed(r)
  <1>1. worker[w].answer \in {"accepted", "permanent", "retryable"}
    BY DEF Settles, AnswersTrue, TypeOK, Loop, Answers
  <1>2. row[r] \in RowRecord
    BY DEF TypeOK
  <1>3. CASE worker[w].answer = "accepted"
    BY <1>3 DEF Settles, Settlement, AnswersTrue
  <1>4. CASE worker[w].answer = "permanent"
    BY <1>2, <1>4 DEF Settles, Settlement, AnswersTrue, RowRecord
  <1>5. CASE worker[w].answer = "retryable"
    BY <1>5 DEF Settles, Settlement
  <1> QED
    BY <1>1, <1>3, <1>4, <1>5

LEMMA DeliveredStep ==
    ASSUME TypeOK, AnswersTrue, DeliveredWasReceived, Shape
    PROVE  DeliveredWasReceived'
  <1> SUFFICES ASSUME NEW r \in Rows, row'[r].state = "delivered"
               PROVE  Received(r)'
    BY DEF DeliveredWasReceived
  <1>1. Received(r) => Received(r)'
    BY DEF Shape
  <1>2. row[r] \in RowRecord
    BY DEF TypeOK
  <1>3. AttemptFailed(r).state = "delivered" => row[r].state = "delivered"
    BY DEF AttemptFailed
  <1>4. CASE \E w \in Workers : Settles(w, r)
    BY <1>1, <1>2, <1>3, <1>4, SettlesOutcome
    DEF DeliveredWasReceived, RowRecord
  <1>5. CASE ~\E w \in Workers : Settles(w, r)
    <2>1. \/ row'[r] = row[r]
          \/ row'[r] = Queued
          \/ row'[r] = [row[r] EXCEPT !.due = TRUE]
          \/ row'[r] = AttemptFailed(r)
      BY <1>5 DEF Shape, RowStep
    <2>2. row[r].state = "delivered"
      BY <1>2, <1>3, <2>1 DEF Queued, RowRecord
    <2> QED
      BY <1>1, <2>2 DEF DeliveredWasReceived
  <1> QED
    BY <1>4, <1>5

LEMMA GiveUpStep ==
    ASSUME TypeOK, AnswersTrue, OnlyKicksGiveUp, Shape
    PROVE  OnlyKicksGiveUp'
  <1> SUFFICES ASSUME NEW r \in Rows
               PROVE  /\ row'[r].state = "dead" => Kind[r] = "EXECUTION_KICK"
                      /\ /\ row'[r].state = "pending"
                         /\ Kind[r] = "EXECUTION_KICK"
                         => row'[r].attempts < KickMaxAttempts
    BY DEF OnlyKicksGiveUp
  <1>1. /\ row[r].state = "dead" => Kind[r] = "EXECUTION_KICK"
        /\ row[r].state = "pending" /\ Kind[r] = "EXECUTION_KICK"
              => row[r].attempts < KickMaxAttempts
    BY DEF OnlyKicksGiveUp
  <1>2. row[r] \in RowRecord /\ KickMaxAttempts \in Nat \ {0}
    BY OutboxAssumption DEF TypeOK
  <1>3. CASE row'[r] = AttemptFailed(r)
    BY <1>1, <1>2, <1>3 DEF AttemptFailed, GivesUp, RowRecord
  <1>4. CASE row'[r] = Queued
    BY <1>2, <1>4 DEF Queued
  <1>5. CASE row'[r] = row[r] \/ row'[r] = [row[r] EXCEPT !.due = TRUE]
    BY <1>1, <1>2, <1>5 DEF RowRecord
  <1>6. CASE \E w \in Workers : Settles(w, r)
    BY <1>2, <1>3, <1>6, SettlesOutcome DEF RowRecord
  <1> QED
    BY <1>3, <1>4, <1>5, <1>6 DEF Shape, RowStep

LEMMA InitInvariant == Init => IInv
  <1> SUFFICES ASSUME Init PROVE IInv
    OBVIOUS
  <1>1. TypeOK
    BY OutboxAssumption
    DEF Init, TypeOK, RowRecord, Loop, Absent, Idle, Between, States, Stages,
        Answers
  <1>2. ClaimSafety /\ AnswersTrue
    BY DEF Init, ClaimSafety, AnswersTrue, Idle, Between, Holding
  <1>3. DeliveredWasReceived /\ OnlyKicksGiveUp
    BY DEF Init, DeliveredWasReceived, OnlyKicksGiveUp, Absent
  <1> QED
    BY <1>1, <1>2, <1>3 DEF IInv

LEMMA StepInvariant == IInv /\ [Next]_vars => IInv'
  <1> SUFFICES ASSUME IInv, [Next]_vars PROVE IInv'
    OBVIOUS
  <1>1. TypeOK' /\ Shape
    BY TypeStep, StepShape DEF IInv
  <1> QED
    BY <1>1, ClaimsStep, AnswersStep, DeliveredStep, GiveUpStep DEF IInv

LEMMA Invariant == Spec => []IInv
  BY InitInvariant, StepInvariant, PTL DEF Spec

-----------------------------------------------------------------------------
(* The outbox columns and the loops keep their types: no step of a loop, a  *)
(* command or the operator writes anything else.                            *)
THEOREM OutboxTypeCorrect == Spec => []TypeOK
  <1>1. IInv => TypeOK
    BY DEF IInv
  <1> QED
    BY <1>1, Invariant, PTL

(* drain_outbox marks a row delivered only when its receiver has accepted   *)
(* it, for any workers, rows and faults: the loop that settles holds the    *)
(* answer to its own claim, and settle_attempt_failure keeps off delivered  *)
(* rows.                                                                    *)
THEOREM DeliveredReceived == Spec => []DeliveredWasReceived
  <1>1. IInv => DeliveredWasReceived
    BY DEF IInv
  <1> QED
    BY <1>1, Invariant, PTL

(* mark_attempt_failed and mark_permanent_failure dead-letter kicks only,   *)
(* and a kick that is still pending has attempts left.                      *)
THEOREM GiveUpsAreKicks == Spec => []OnlyKicksGiveUp
  <1>1. IInv => OnlyKicksGiveUp
    BY DEF IInv
  <1> QED
    BY <1>1, Invariant, PTL

(* Both at once: a row that settled_under_claim or settle_attempt_failure   *)
(* settled is what its receiver and its attempts say.                       *)
THEOREM DeliverySafe == Spec => []DeliverySafety
  <1>1. DeliveredWasReceived /\ OnlyKicksGiveUp => DeliverySafety
    BY DEF DeliverySafety
  <1> QED
    BY <1>1, DeliveredReceived, GiveUpsAreKicks, PTL

(* Whatever batch a loop read, it sends a row only while the row is pending *)
(* and due: FOR UPDATE SKIP LOCKED holds until the row is settled.          *)
THEOREM SettledNotSent == Spec => SettledIsNotSent
  <1>1. IInv /\ [Next]_vars =>
           [\A w \in Workers :
               (worker[w].at = "claimed" /\ worker'[w].at = "answered") =>
                   Pending(Current(w)) /\ row[Current(w)].due]_vars
    BY DEF IInv, ClaimSafety, Holding
  <1> QED
    BY <1>1, Invariant, PTL DEF Spec, SettledIsNotSent

-----------------------------------------------------------------------------
(* Threads: every event once, in the order of the commands.                 *)

(* A row of a committed command all of whose predecessors were received:    *)
(* what the batch's hold-back establishes, and nothing undoes.              *)
Clear(r) ==
    /\ IsCommitted(CommandOf[r])
    /\ \A q \in Rows : Follows(q, r) => Received(q)

Carried(w) == {r \in Rows : r \in worker[w].todo \/ r = worker[w].row}

(* The rows a loop carries and the requests still on their way are clear,   *)
(* however old the batch is.                                                *)
CarriedClear ==
    /\ \A w \in Workers : \A r \in Carried(w) : Clear(r)
    /\ \A r \in inFlight : Clear(r)

(* Rows exist from their command's commit on, which follows its beginning.  *)
RowsCommitted ==
    /\ \A r \in Rows :
          row[r].state = "absent" <=> ~IsCommitted(CommandOf[r])
    /\ \A i \in DOMAIN committed : HasBegun(committed[i])

PostsOrdered ==
    \A i \in DOMAIN posts :
        /\ IsCommitted(CommandOf[posts[i]])
        /\ \A q \in Rows :
              Follows(q, posts[i]) => \E j \in 1..(i - 1) : posts[j] = q

(* A row that is settled, or about to be: the others may be sent again.     *)
Settled(r) ==
    \/ row[r].state = "delivered"
    \/ \E w \in Workers : /\ worker[w].at = "answered" /\ Current(w) = r
                          /\ worker[w].answer = "accepted"

Settling == {r \in Rows : Settled(r)}
Got      == {r \in Rows : Received(r)}

(* Every post beyond the first of a settled row, and every one that may     *)
(* still come from a request given up, is paid for by a fault.              *)
Budget ==
    /\ IsFiniteSet(Got) /\ IsFiniteSet(inFlight)
    /\ Len(posts) + Cardinality(inFlight) <= Cardinality(Settling) + faults

ThreadInv == IInv /\ RowsCommitted /\ CarriedClear /\ PostsOrdered /\ Budget

-----------------------------------------------------------------------------
(* Commands and rows.                                                       *)

CommandsFixed ==
    \A c \in Commands : IsCommitted(c) =>
        /\ IsCommitted(c)'
        /\ started'[c] = started[c]
        /\ \A b \in Commands : CommittedBefore(b, c)' => CommittedBefore(b, c)

DeliveredStays ==
    \A r \in Rows : row[r].state = "delivered" => row'[r].state = "delivered"

(* A commit adds one command, which was not there. *)
LEMMA CommitFixes ==
    ASSUME TypeOK, TypeOK', RowsCommitted, NEW c \in Commands, CommitCommand(c)
    PROVE  CommandsFixed /\ DeliveredStays /\ RowsCommitted'
  <1>1. PICK n \in Nat : n = Len(committed)
    BY DEF TypeOK
  <1>2. /\ DOMAIN committed = 1..n /\ DOMAIN committed' = 1..(n + 1)
        /\ \A i \in 1..n : committed'[i] = committed[i]
        /\ committed'[n + 1] = c
    BY <1>1 DEF CommitCommand, TypeOK
  <1>3. \A d \in Commands : IsCommitted(d)' <=> (IsCommitted(d) \/ d = c)
    BY <1>2 DEF IsCommitted
  <1>4. ASSUME NEW b \in Commands, NEW d \in Commands, IsCommitted(d),
               CommittedBefore(b, d)'
        PROVE  CommittedBefore(b, d)
    <2>1. PICK i \in 1..(n + 1), j \in 1..(n + 1) :
             i < j /\ committed'[i] = b /\ committed'[j] = d
      BY <1>2, <1>4 DEF CommittedBefore
    <2>2. j # n + 1
      BY <1>2, <1>4, <2>1 DEF CommitCommand
    <2>3. i \in 1..n /\ j \in 1..n
      BY <2>1, <2>2
    <2> QED
      BY <1>2, <2>1, <2>3 DEF CommittedBefore
  <1>5. CommandsFixed
    BY <1>3, <1>4 DEF CommandsFixed, CommitCommand
  <1>6. \A r \in Rows : CommandOf[r] \in Commands
    BY OutboxAssumption
  <1>7. \A r \in Rows : row'[r] = IF CommandOf[r] = c
                                  THEN [state |-> "pending", attempts |-> 0,
                                        due |-> TRUE]
                                  ELSE row[r]
    BY DEF CommitCommand
  <1>8. \A r \in Rows : CommandOf[r] = c => row[r].state = "absent"
    BY DEF CommitCommand, RowsCommitted
  <1>9. DeliveredStays
    BY <1>7, <1>8 DEF DeliveredStays
  <1>10. \A r \in Rows : row'[r].state = "absent" <=> ~IsCommitted(CommandOf[r])'
    <2> SUFFICES ASSUME NEW r \in Rows
                 PROVE  row'[r].state = "absent" <=> ~IsCommitted(CommandOf[r])'
      OBVIOUS
    <2>1. CASE CommandOf[r] = c
      BY <1>3, <1>6, <1>7, <2>1
    <2>2. CASE CommandOf[r] # c
      BY <1>3, <1>6, <1>7, <2>2 DEF RowsCommitted
    <2> QED
      BY <2>1, <2>2
  <1>11. (\A i \in DOMAIN committed : HasBegun(committed[i]))'
    BY <1>2 DEF RowsCommitted, HasBegun, CommitCommand
  <1> QED
    BY <1>5, <1>9, <1>10, <1>11 DEF RowsCommitted

LEMMA BeginFixes ==
    ASSUME TypeOK, RowsCommitted, NEW c \in Commands, Begin(c)
    PROVE  CommandsFixed /\ DeliveredStays /\ RowsCommitted'
  <1>1. /\ UNCHANGED <<committed, row>>
        /\ \A d \in Commands \ {c} : started'[d] = started[d]
        /\ started'[c] > 0
    <2>1. Cardinality({d \in Commands : HasBegun(d)}) \in Nat
      BY OutboxAssumption, FS_Subset, FS_CardinalityType
    <2> QED
      BY <2>1 DEF Begin, TypeOK
  <1>2. ~IsCommitted(c)
    BY DEF Begin, RowsCommitted, IsCommitted
  <1>3. CommandsFixed
    BY <1>1, <1>2 DEF CommandsFixed, IsCommitted, CommittedBefore
  <1>4. \A i \in DOMAIN committed : committed[i] \in Commands
    BY DEF TypeOK
  <1>5. RowsCommitted'
    BY <1>1, <1>4 DEF RowsCommitted, IsCommitted, HasBegun
  <1> QED
    BY <1>1, <1>3, <1>5 DEF DeliveredStays

(* No other step commits a command, takes a row away or a delivery back. *)
RowsKept ==
    \A r \in Rows : /\ row'[r].state = "absent" <=> row[r].state = "absent"
                    /\ row[r].state = "delivered" => row'[r].state = "delivered"

LEMMA KeptFixes ==
    ASSUME RowsCommitted, UNCHANGED <<started, committed>>, RowsKept
    PROVE  CommandsFixed /\ DeliveredStays /\ RowsCommitted'
  <1>1. CommandsFixed
    BY DEF CommandsFixed, IsCommitted, CommittedBefore
  <1>2. RowsCommitted'
    BY DEF RowsKept, RowsCommitted, IsCommitted, HasBegun
  <1> QED
    BY <1>1, <1>2 DEF DeliveredStays, RowsKept

LEMMA AttemptKeeps ==
    ASSUME TypeOK, NEW r \in Rows, row[r].state \notin {"absent", "delivered"}
    PROVE  AttemptFailed(r).state # "absent"
  BY DEF TypeOK, RowRecord, AttemptFailed

LEMMA SettlementKeeps ==
    ASSUME TypeOK, NEW r \in Rows, row[r].state \notin {"absent", "delivered"},
           NEW answer \in {"accepted", "permanent", "retryable"}
    PROVE  Settlement(r, answer).state # "absent"
  <1>1. CASE answer = "accepted"
    <2>1. Settlement(r, answer) = [row[r] EXCEPT !.state = "delivered"]
      BY <1>1 DEF Settlement
    <2> QED
      BY <2>1 DEF TypeOK, RowRecord
  <1>2. CASE answer = "permanent"
    <2>1. Settlement(r, answer) = [row[r] EXCEPT !.state = "dead",
                                      !.attempts = row[r].attempts + 1]
      BY <1>2 DEF Settlement, TypeOK, RowRecord
    <2> QED
      BY <2>1 DEF TypeOK, RowRecord
  <1>3. CASE answer = "retryable"
    BY <1>3, AttemptKeeps DEF Settlement
  <1> QED
    BY <1>1, <1>2, <1>3

(* Steps of a loop. *)
LEMMA LoopKeepsRows ==
    ASSUME IInv, RowsCommitted, CarriedClear, NEW w \in Workers,
           Pass(w) \/ GoesWrong(w)
    PROVE  UNCHANGED <<started, committed>> /\ RowsKept
  <1>1. CASE SettleUnclaimed(w)
    <2>1. Current(w) \in Rows
      BY <1>1, CurrentType DEF SettleUnclaimed, IInv
    <2>2. row[Current(w)].state # "absent"
      BY <2>1 DEF CarriedClear, Carried, Clear, RowsCommitted, Current
    <2>3. row[Current(w)].state # "delivered" =>
             AttemptFailed(Current(w)).state # "absent"
      BY <2>1, <2>2, AttemptKeeps DEF IInv
    <2> QED
      BY <1>1, <2>1, <2>2, <2>3 DEF SettleUnclaimed, RowsKept, IInv, TypeOK
  <1>2. CASE Settle(w)
    <2>1. Current(w) \in Rows
      BY <1>2, CurrentType DEF Settle, IInv
    <2>2. row[Current(w)].state = "pending"
      BY <1>2 DEF Settle, IInv, ClaimSafety, Holding, Pending
    <2>3. worker[w].answer \in {"accepted", "permanent", "retryable"}
      BY <1>2 DEF Settle, IInv, TypeOK, Loop, Answers, AnswersTrue
    <2>4. Settlement(Current(w), worker[w].answer).state # "absent"
      BY <2>1, <2>2, <2>3, SettlementKeeps DEF IInv
    <2> QED
      BY <1>2, <2>1, <2>2, <2>4 DEF Settle, RowsKept, IInv, TypeOK
  <1>3. CASE ~SettleUnclaimed(w) /\ ~Settle(w)
    BY <1>3 DEF Pass, GoesWrong, StartDrain, Prepare, FindThread, CreateThread,
                Claim, Send, ThreadUnavailable, SendUnanswered, RejectKick,
                Crash, RowsKept
  <1> QED
    BY <1>1, <1>2, <1>3 DEF Pass, SettleUnclaimed, Settle

LEMMA FixedStep ==
    ASSUME IInv, IInv', RowsCommitted, CarriedClear, [Next]_vars
    PROVE  CommandsFixed /\ DeliveredStays /\ RowsCommitted'
  <1>1. CASE \E c \in Commands : Begin(c) \/ CommitCommand(c)
    BY <1>1, BeginFixes, CommitFixes DEF IInv
  <1>2. CASE \E w \in Workers : Pass(w) \/ GoesWrong(w)
    BY <1>2, LoopKeepsRows, KeptFixes
  <1>3. CASE \E w \in Workers, i \in Instances : EnsurePendingBinding(w, i)
    BY <1>3, KeptFixes DEF EnsurePendingBinding, RowsKept
  <1>4. CASE \E r \in Rows : LateArrival(r) \/ BackoffEnds(r) \/ Requeue(r)
    <2>1. RowsKept
      BY <1>4 DEF LateArrival, BackoffEnds, Requeue, RowsKept, IInv, TypeOK,
                  RowRecord, Pending
    <2> QED
      BY <1>4, <2>1, KeptFixes DEF LateArrival, BackoffEnds, Requeue
  <1>5. CASE UNCHANGED vars
    BY <1>5, KeptFixes DEF vars, RowsKept
  <1> QED
    BY <1>1, <1>2, <1>3, <1>4, <1>5 DEF Next

-----------------------------------------------------------------------------
(* The order of a thread.                                                   *)

(* What is clear stays so. *)
LEMMA FollowsFixed ==
    ASSUME CommandsFixed, RowsCommitted, NEW q \in Rows, NEW r \in Rows,
           IsCommitted(CommandOf[r]), Follows(q, r)'
    PROVE  Follows(q, r)
  <1>1. CommandOf[q] \in Commands /\ CommandOf[r] \in Commands
    BY OutboxAssumption
  <1>2. CommittedBefore(CommandOf[q], CommandOf[r])
    BY <1>1 DEF Follows, CommandsFixed
  <1>3. IsCommitted(CommandOf[q])
    BY <1>2 DEF CommittedBefore, IsCommitted
  <1>4. /\ started'[CommandOf[q]] = started[CommandOf[q]]
        /\ started'[CommandOf[r]] = started[CommandOf[r]]
    BY <1>1, <1>3 DEF CommandsFixed
  <1> QED
    BY <1>2, <1>4 DEF Follows, Before, Instance

LEMMA ClearStays ==
    ASSUME CommandsFixed, RowsCommitted, NEW r \in Rows, Clear(r),
           \A q \in Rows : Received(q) => Received(q)'
    PROVE  Clear(r)'
  <1>1. CommandOf[r] \in Commands
    BY OutboxAssumption
  <1>2. \A q \in Rows : Follows(q, r)' => Follows(q, r)
    BY FollowsFixed DEF Clear
  <1> QED
    BY <1>1, <1>2 DEF Clear, CommandsFixed

(* The rows of a batch are clear: HeldBack leaves out a row with an earlier *)
(* undelivered one, and one that commits later comes too late to matter.    *)
LEMMA BatchClear ==
    ASSUME IInv, RowsCommitted, NEW kind \in Kinds, NEW r \in Batch(kind)
    PROVE  r \in Rows /\ Clear(r)
  <1>1. r \in Rows /\ Pending(r) /\ ~HeldBack(r)
    BY DEF Batch, Due
  <1>2. IsCommitted(CommandOf[r])
    BY <1>1 DEF RowsCommitted, Pending
  <1>3. ASSUME NEW q \in Rows, Follows(q, r)
        PROVE  Received(q)
    <2>1. IsCommitted(CommandOf[q])
      BY <1>3 DEF Follows, CommittedBefore, IsCommitted
    <2>2. row[q].state \in States \ {"absent"}
      BY <1>3, <2>1 DEF RowsCommitted, IInv, TypeOK, RowRecord
    <2>3. row[q].state \notin {"pending", "dead"}
      BY <1>1, <1>3 DEF HeldBack, Follows
    <2>4. row[q].state = "delivered"
      BY <2>2, <2>3 DEF States
    <2> QED
      BY <1>3, <2>4 DEF IInv, DeliveredWasReceived
  <1> QED
    BY <1>1, <1>2, <1>3 DEF Clear

(* A loop carries on with rows it carried, or with those of a new batch.    *)
CarriesClear ==
    \A v \in Workers : \A r \in Carried(v)' : r \in Carried(v) \/ Clear(r)

LEMMA CarriedStep ==
    ASSUME IInv, RowsCommitted, [Next]_vars
    PROVE  CarriesClear
  <1>1. NoRow \notin Rows
    BY OutboxAssumption
  <1>2. ASSUME UNCHANGED worker
        PROVE  CarriesClear
    BY <1>2 DEF CarriesClear, Carried
  <1>3. ASSUME NEW w \in Workers, NEW at, Moves(w, at)
        PROVE  CarriesClear
    BY <1>3 DEF CarriesClear, Carried, Moves, IInv, TypeOK, Loop
  <1>4. ASSUME NEW w \in Workers, NEW answer, Answered(w, answer)
        PROVE  CarriesClear
    BY <1>4 DEF CarriesClear, Carried, Answered, IInv, TypeOK, Loop
  <1>5. ASSUME NEW w \in Workers, Advances(w)
        PROVE  CarriesClear
    BY <1>1, <1>5 DEF CarriesClear, Carried, Advances, Idle, Between, IInv,
                      TypeOK, Loop
  <1>6. ASSUME NEW w \in Workers, \E kind \in Kinds : StartDrain(w, kind)
        PROVE  CarriesClear
    BY <1>1, <1>6, BatchClear
    DEF StartDrain, CarriesClear, Carried, Between, IInv, TypeOK
  <1>7. ASSUME NEW w \in Workers, Prepare(w)
        PROVE  CarriesClear
    BY <1>1, <1>7 DEF Prepare, CarriesClear, Carried, IInv, TypeOK
  <1>8. ASSUME NEW w \in Workers, Crash(w)
        PROVE  CarriesClear
    BY <1>1, <1>8 DEF Crash, CarriesClear, Carried, Idle, Between, IInv, TypeOK
  <1>9. ASSUME NEW w \in Workers, Pass(w) \/ GoesWrong(w)
        PROVE  CarriesClear
    BY <1>2, <1>3, <1>4, <1>5, <1>6, <1>7, <1>8, <1>9
    DEF Pass, GoesWrong, FindThread, CreateThread, SettleUnclaimed, Claim,
        Send, Settle, ThreadUnavailable, SendUnanswered, RejectKick
  <1>10. CASE \E w \in Workers : Pass(w) \/ GoesWrong(w)
    BY <1>9, <1>10
  <1>11. CASE ~\E w \in Workers : Pass(w) \/ GoesWrong(w)
    <2>1. UNCHANGED worker
      BY <1>11 DEF Next, Begin, CommitCommand, EnsurePendingBinding,
                   LateArrival, BackoffEnds, Requeue, vars
    <2> QED
      BY <1>2, <2>1
  <1> QED
    BY <1>10, <1>11

(* What reaches a receiver, or may reach it late, was clear before.         *)
PostsClear ==
    /\ \/ posts' = posts
       \/ \E r \in Rows : Clear(r) /\ posts' = Append(posts, r)
    /\ \A r \in inFlight' : r \in inFlight \/ Clear(r)

LEMMA PostsStep ==
    ASSUME IInv, CarriedClear, [Next]_vars
    PROVE  PostsClear
  <1>1. ASSUME NEW w \in Workers, worker[w].at = "claimed"
        PROVE  Current(w) \in Rows /\ Clear(Current(w))
    <2>1. Current(w) \in Rows
      BY <1>1, CurrentType DEF IInv
    <2> QED
      BY <2>1 DEF CarriedClear, Carried, Current
  <1>2. ASSUME NEW w \in Workers, Send(w) \/ SendUnanswered(w)
        PROVE  PostsClear
    BY <1>1, <1>2 DEF Send, SendUnanswered, PostsClear
  <1>3. ASSUME NEW r \in Rows, LateArrival(r)
        PROVE  PostsClear
    BY <1>3 DEF LateArrival, PostsClear, CarriedClear
  <1>4. CASE UNCHANGED <<posts, inFlight>>
    BY <1>4 DEF PostsClear
  <1>5. CASE ~UNCHANGED <<posts, inFlight>>
    <2>1. \/ \E w \in Workers : Send(w) \/ SendUnanswered(w)
          \/ \E r \in Rows : LateArrival(r)
      BY <1>5
      DEF Next, Pass, GoesWrong, Begin, CommitCommand, StartDrain, Prepare,
          FindThread, CreateThread, SettleUnclaimed, Claim, Settle,
          ThreadUnavailable, RejectKick, Crash, EnsurePendingBinding,
          BackoffEnds, Requeue, vars
    <2> QED
      BY <1>2, <1>3, <2>1
  <1> QED
    BY <1>4, <1>5

(* Posts already made keep their place; a new one has its predecessors. *)
LEMMA OrderStep ==
    ASSUME IInv, IInv', RowsCommitted, PostsOrdered, CommandsFixed, PostsClear
    PROVE  PostsOrdered'
  <1>1. PICK n \in Nat : n = Len(posts) /\ DOMAIN posts = 1..n
    BY DEF IInv, TypeOK
  <1>2. \A i \in 1..n : posts[i] \in Rows
    BY <1>1 DEF IInv, TypeOK
  <1>3. /\ DOMAIN posts' \in {1..n, 1..(n + 1)}
        /\ \A i \in 1..n : posts'[i] = posts[i]
        /\ n + 1 \in DOMAIN posts' =>
              /\ posts'[n + 1] \in Rows
              /\ Clear(posts'[n + 1])
    <2>1. CASE posts' = posts
      BY <1>1, <2>1
    <2>2. CASE \E r \in Rows : Clear(r) /\ posts' = Append(posts, r)
      <3>1. PICK r \in Rows : Clear(r) /\ posts' = Append(posts, r)
        BY <2>2
      <3>2. /\ DOMAIN posts' = 1..(n + 1)
            /\ \A i \in 1..n : posts'[i] = posts[i]
            /\ posts'[n + 1] = r
        BY <1>1, <3>1 DEF IInv, TypeOK
      <3> QED
        BY <3>1, <3>2
    <2> QED
      BY <2>1, <2>2 DEF PostsClear
  <1>4. \A i \in DOMAIN posts' : i \in 1..n \/ i = n + 1
    BY <1>3
  <1>5. \A r \in Rows : IsCommitted(CommandOf[r]) => IsCommitted(CommandOf[r])'
    BY OutboxAssumption DEF CommandsFixed
  <1>6. ASSUME NEW i \in 1..n
        PROVE  /\ IsCommitted(CommandOf[posts[i]])'
               /\ \A q \in Rows : Follows(q, posts[i]) =>
                     \E j \in 1..(i - 1) : posts'[j] = q
    BY <1>1, <1>2, <1>3, <1>5 DEF PostsOrdered
  <1> SUFFICES ASSUME NEW i \in DOMAIN posts', NEW r \in Rows, r = posts'[i]
               PROVE  /\ IsCommitted(CommandOf[r])'
                      /\ \A q \in Rows : Follows(q, r)' =>
                            \E j \in 1..(i - 1) : posts'[j] = q
    BY <1>2, <1>3, <1>4 DEF PostsOrdered
  <1>7. CASE i \in 1..n
    <2>1. r = posts[i] /\ IsCommitted(CommandOf[r])
      BY <1>1, <1>3, <1>7 DEF PostsOrdered
    <2>2. \A q \in Rows : Follows(q, r)' => Follows(q, r)
      BY <2>1, FollowsFixed
    <2> QED
      BY <1>1, <1>3, <1>5, <1>7, <2>1, <2>2 DEF PostsOrdered
  <1>8. CASE i = n + 1
    <2>1. Clear(r)
      BY <1>3, <1>8
    <2>2. \A q \in Rows : Follows(q, r)' => Follows(q, r)
      BY <2>1, FollowsFixed DEF Clear
    <2>3. \A q \in Rows : Follows(q, r)' => \E j \in 1..n : posts[j] = q
      BY <1>1, <2>1, <2>2 DEF Clear, Received
    <2>4. i - 1 = n
      BY <1>8
    <2> QED
      BY <1>3, <1>5, <2>1, <2>3, <2>4 DEF Clear
  <1> QED
    BY <1>4, <1>7, <1>8

LEMMA CarriedStays ==
    ASSUME IInv, IInv', RowsCommitted, CarriedClear, CommandsFixed,
           CarriesClear, PostsClear
    PROVE  CarriedClear'
  <1>1. \A q \in Rows : Received(q) => Received(q)'
    <2>1. CASE posts' = posts
      BY <2>1 DEF Received
    <2>2. CASE \E r \in Rows : posts' = Append(posts, r)
      BY <2>2, PostsGrow DEF IInv
    <2> QED
      BY <2>1, <2>2 DEF PostsClear
  <1>2. \A r \in Rows : Clear(r) => Clear(r)'
    BY <1>1, ClearStays
  <1>3. \A v \in Workers : \A r \in Carried(v)' : r \in Rows /\ Clear(r)
    BY DEF CarriesClear, CarriedClear, Carried
  <1>4. \A r \in inFlight' : r \in Rows /\ Clear(r)
    BY DEF PostsClear, CarriedClear, IInv, TypeOK
  <1> QED
    BY <1>2, <1>3, <1>4 DEF CarriedClear

-----------------------------------------------------------------------------
(* The account of repetitions.                                              *)

LEMMA GotFinite ==
    ASSUME IInv, IInv', IsFiniteSet(Got), PostsClear
    PROVE  IsFiniteSet(Got')
  <1>1. CASE posts' = posts
    BY <1>1 DEF Got, Received
  <1>2. CASE \E r \in Rows : posts' = Append(posts, r)
    <2>1. PICK r \in Rows : posts' = Append(posts, r)
      BY <1>2
    <2>2. PICK n \in Nat : n = Len(posts) /\ DOMAIN posts = 1..n
      BY DEF IInv, TypeOK
    <2>3. /\ DOMAIN posts' = 1..(n + 1)
          /\ \A i \in 1..n : posts'[i] = posts[i]
          /\ posts'[n + 1] = r
      BY <2>1, <2>2 DEF IInv, TypeOK
    <2>4. Got' \subseteq Got \cup {r}
      BY <2>2, <2>3 DEF Got, Received
    <2> QED
      BY <2>4, FS_AddElement, FS_Subset
  <1> QED
    BY <1>1, <1>2 DEF PostsClear

LEMMA SettlingFinite ==
    ASSUME IInv, IsFiniteSet(Got)
    PROVE  IsFiniteSet(Settling) /\ Cardinality(Settling) \in Nat
  <1>1. Settling \subseteq Got
    BY DEF Settling, Settled, Got, IInv, DeliveredWasReceived, AnswersTrue
  <1> QED
    BY <1>1, FS_Subset, FS_CardinalityType

(* Only a crash forgets an acceptance that was not marked yet. *)
LEMMA SettlingKept ==
    ASSUME IInv, DeliveredStays, [Next]_vars,
           \A w \in Workers : ~Crash(w)
    PROVE  Settling \subseteq Settling'
  <1>1. ASSUME NEW w \in Workers, worker[w].at = "answered",
               worker[w].answer = "accepted"
        PROVE  \/ worker'[w] = worker[w]
               \/ row'[Current(w)].state = "delivered"
    <2>1. ASSUME NEW v \in Workers, v # w, Pass(v) \/ GoesWrong(v)
          PROVE  worker'[w] = worker[w]
      BY <2>1
      DEF Pass, GoesWrong, StartDrain, Prepare, FindThread, CreateThread,
          SettleUnclaimed, Claim, Send, Settle, ThreadUnavailable,
          SendUnanswered, RejectKick, Crash, Moves, Answered, Advances,
          IInv, TypeOK
    <2>2. CASE Settle(w)
      <3>1. Current(w) \in Rows
        BY <1>1, CurrentType DEF IInv
      <3>2. row'[Current(w)] = [row[Current(w)] EXCEPT !.state = "delivered"]
        BY <1>1, <2>2, <3>1 DEF Settle, Settlement, IInv, TypeOK
      <3> QED
        BY <3>1, <3>2 DEF IInv, TypeOK, RowRecord
    <2>3. CASE (Pass(w) \/ GoesWrong(w)) /\ ~Settle(w)
      BY <1>1, <2>3
      DEF Pass, GoesWrong, StartDrain, Prepare, FindThread, CreateThread,
          SettleUnclaimed, Claim, Send, ThreadUnavailable, SendUnanswered,
          RejectKick
    <2>4. CASE ~\E v \in Workers : Pass(v) \/ GoesWrong(v)
      BY <2>4 DEF Next, Begin, CommitCommand, EnsurePendingBinding,
                  LateArrival, BackoffEnds, Requeue, vars
    <2> QED
      BY <2>1, <2>2, <2>3, <2>4
  <1>2. ASSUME NEW r \in Rows, Settled(r)
        PROVE  Settled(r)'
    <2>1. CASE row[r].state = "delivered"
      BY <2>1 DEF DeliveredStays, Settled
    <2>2. CASE row[r].state # "delivered"
      <3>1. PICK w \in Workers :
               /\ worker[w].at = "answered" /\ Current(w) = r
               /\ worker[w].answer = "accepted"
        BY <1>2, <2>2 DEF Settled
      <3>2. worker'[w] = worker[w] \/ row'[r].state = "delivered"
        BY <1>1, <3>1
      <3> QED
        BY <3>1, <3>2 DEF Settled, Current
    <2> QED
      BY <2>1, <2>2
  <1> QED
    BY <1>2 DEF Settling

LEMMA CrashForgets ==
    ASSUME IInv, NEW w \in Workers, Crash(w)
    PROVE  Settling \ {Current(w)} \subseteq Settling'
  BY DEF Settling, Settled, Crash, Current, IInv, TypeOK

(* The first post of a row settles it; every other post, now or later, has  *)
(* its fault.                                                               *)
LEMMA BudgetStep ==
    ASSUME IInv, IInv', Budget, DeliveredStays, PostsClear, [Next]_vars
    PROVE  Budget'
  <1>1. PICK n \in Nat, s \in Nat, f \in Nat, m \in Nat :
           /\ n = Len(posts) /\ s = Cardinality(Settling) /\ f = faults
           /\ m = Cardinality(inFlight)
    <2>1. Len(posts) \in Nat /\ faults \in Nat
      BY OutboxAssumption DEF IInv, TypeOK
    <2> QED
      BY <2>1, SettlingFinite, FS_CardinalityType DEF Budget
  <1>2. n + m <= s + f
    BY <1>1 DEF Budget
  <1>3. IsFiniteSet(Settling) /\ IsFiniteSet(Got')
    BY SettlingFinite, GotFinite DEF Budget
  <1>4. IsFiniteSet(Settling') /\ Cardinality(Settling') \in Nat
    <2>1. Settling' \subseteq Got'
      BY DEF Settling, Settled, Got, IInv, DeliveredWasReceived, AnswersTrue
    <2> QED
      BY <1>3, <2>1, FS_Subset, FS_CardinalityType
  <1>5. ASSUME \A w \in Workers : ~Crash(w)
        PROVE  s <= Cardinality(Settling')
    BY <1>1, <1>4, <1>5, SettlingKept, FS_Subset
  <1>6. ASSUME NEW r \in Rows, posts' = Append(posts, r)
        PROVE  Len(posts') = n + 1
    BY <1>1, <1>6 DEF IInv, TypeOK
  <1>7. ASSUME NEW w \in Workers, Send(w)
        PROVE  Budget'
    <2>1. PICK r \in Rows : r = Current(w)
      BY <1>7, CurrentType DEF Send, IInv
    <2>2. /\ Len(posts') = n + 1
          /\ UNCHANGED <<row, inFlight, faults>>
          /\ worker' = [worker EXCEPT ![w].at = "answered",
                                      ![w].answer = "accepted"]
      BY <1>6, <1>7, <2>1 DEF Send, Answered
    <2>3. r \notin Settling
      BY <1>7, <2>1 DEF Send, Settling, Settled, IInv, ClaimSafety, Holding,
                        Pending, Claims
    <2>4. \A v \in Workers : worker[v].at = "answered" => worker'[v] = worker[v]
      BY <1>7, <2>2 DEF Send, IInv, TypeOK
    <2>5. worker'[w].at = "answered" /\ worker'[w].answer = "accepted"
          /\ worker'[w].row = r
      BY <2>1, <2>2 DEF IInv, TypeOK, Loop, Current
    <2>6. Settling \cup {r} \subseteq Settling'
      BY <2>2, <2>4, <2>5 DEF Settling, Settled, Current
    <2>7. Cardinality(Settling \cup {r}) = s + 1
      BY <1>1, <1>3, <2>3, FS_AddElement
    <2>8. s + 1 <= Cardinality(Settling')
      BY <1>4, <2>6, <2>7, FS_Subset
    <2> QED
      BY <1>1, <1>2, <1>3, <1>4, <2>2, <2>8 DEF Budget
  <1>8. ASSUME NEW w \in Workers, SendUnanswered(w)
        PROVE  Budget'
    <2>1. Current(w) \in Rows
      BY <1>8, CurrentType DEF SendUnanswered, IInv
    <2>2. \A v \in Workers : ~Crash(v)
      BY <1>8 DEF SendUnanswered, Crash, Answered, Idle, Between, IInv, TypeOK,
                  Loop
    <2>3. s <= Cardinality(Settling') /\ faults' = f + 1
      BY <1>1, <1>5, <1>8, <2>2 DEF SendUnanswered, Fault
    <2>4. \/ /\ Len(posts') \in {n, n + 1} /\ inFlight' = inFlight
          \/ /\ Len(posts') = n /\ inFlight' = inFlight \cup {Current(w)}
      BY <1>1, <1>6, <1>8, <2>1 DEF SendUnanswered
    <2>5. /\ IsFiniteSet(inFlight') /\ Cardinality(inFlight') \in Nat
          /\ Len(posts') + Cardinality(inFlight') <= n + m + 1
      <3>1. CASE Len(posts') \in {n, n + 1} /\ inFlight' = inFlight
        <4>1. IsFiniteSet(inFlight') /\ Cardinality(inFlight') = m
          BY <1>1, <3>1 DEF Budget
        <4> QED
          BY <3>1, <4>1
      <3>2. CASE Len(posts') = n /\ inFlight' = inFlight \cup {Current(w)}
        <4>1. /\ IsFiniteSet(inFlight \cup {Current(w)})
              /\ Cardinality(inFlight \cup {Current(w)}) \in {m, m + 1}
          BY <1>1, FS_AddElement DEF Budget
        <4> QED
          BY <3>2, <4>1
      <3> QED
        BY <2>4, <3>1, <3>2
    <2>6. Len(posts') + Cardinality(inFlight') <= Cardinality(Settling') + faults'
      <3>1. Len(posts') \in Nat
        BY <1>1, <2>4
      <3> QED
        BY <1>2, <1>4, <2>3, <2>5, <3>1
    <2> QED
      BY <1>3, <2>5, <2>6 DEF Budget
  <1>9. ASSUME NEW r \in Rows, LateArrival(r)
         PROVE  Budget'
    <2>1. /\ Len(posts') = n + 1
          /\ r \in inFlight /\ inFlight' = inFlight \ {r}
          /\ UNCHANGED <<row, worker, faults>>
      BY <1>6, <1>9 DEF LateArrival
    <2>2. Settling' = Settling
      BY <2>1 DEF Settling, Settled, Current
    <2>3. IsFiniteSet(inFlight') /\ Cardinality(inFlight') = m - 1
      BY <1>1, <2>1, FS_RemoveElement DEF Budget
    <2> QED
      BY <1>1, <1>2, <1>3, <2>1, <2>2, <2>3 DEF Budget
  <1>10. ASSUME NEW w \in Workers, Crash(w)
         PROVE  Budget'
    <2>1. UNCHANGED <<posts, inFlight>> /\ faults' = f + 1
      BY <1>1, <1>10 DEF Crash, Fault
    <2>2. Settling \ {Current(w)} \subseteq Settling'
      BY <1>10, CrashForgets
    <2>3. /\ IsFiniteSet(Settling \ {Current(w)})
          /\ Cardinality(Settling \ {Current(w)}) >= s - 1
      <3>1. /\ IsFiniteSet(Settling \ {Current(w)})
            /\ Cardinality(Settling \ {Current(w)}) \in {s, s - 1}
        BY <1>1, <1>3, FS_RemoveElement
      <3> QED
        BY <3>1
    <2>4. Cardinality(Settling \ {Current(w)}) <= Cardinality(Settling')
      BY <1>4, <2>2, FS_Subset
    <2>5. Cardinality(Settling \ {Current(w)}) \in Nat
      BY <2>3, FS_CardinalityType
    <2>6. s - 1 <= Cardinality(Settling')
      BY <1>4, <2>3, <2>4, <2>5
    <2>7. n + m <= Cardinality(Settling') + (f + 1)
      BY <1>2, <1>4, <2>6
    <2> QED
      BY <1>1, <1>3, <2>1, <2>7 DEF Budget
  <1>11. ASSUME UNCHANGED <<posts, inFlight>>,
                faults' \in {f, f + 1}, \A w \in Workers : ~Crash(w)
         PROVE  Budget'
    <2>1. s <= Cardinality(Settling')
      BY <1>5, <1>11
    <2> QED
      BY <1>1, <1>2, <1>3, <1>4, <1>11, <2>1 DEF Budget
  <1>12. CASE \E w \in Workers : Send(w) \/ SendUnanswered(w) \/ Crash(w)
    BY <1>7, <1>8, <1>10, <1>12
  <1>13. CASE \E r \in Rows : LateArrival(r)
    BY <1>9, <1>13
  <1>14. CASE /\ ~\E w \in Workers : Send(w) \/ SendUnanswered(w) \/ Crash(w)
              /\ ~\E r \in Rows : LateArrival(r)
    <2>1. UNCHANGED <<posts, inFlight>> /\ faults' \in {f, f + 1}
      BY <1>1, <1>14
      DEF Next, Pass, GoesWrong, Begin, CommitCommand, StartDrain, Prepare,
          FindThread, CreateThread, SettleUnclaimed, Claim, Settle,
          ThreadUnavailable, RejectKick, EnsurePendingBinding, BackoffEnds,
          Requeue, Fault, vars
    <2> QED
      BY <1>11, <1>14, <2>1
  <1> QED
    BY <1>12, <1>13, <1>14

LEMMA InitThreads == Init => RowsCommitted /\ CarriedClear /\ PostsOrdered /\ Budget
  <1> SUFFICES ASSUME Init
               PROVE  RowsCommitted /\ CarriedClear /\ PostsOrdered /\ Budget
    OBVIOUS
  <1>1. RowsCommitted /\ CarriedClear /\ PostsOrdered
    BY OutboxAssumption
    DEF Init, RowsCommitted, Absent, IsCommitted, CarriedClear, Carried, Idle,
        Between, PostsOrdered
  <1>2. IInv
    BY InitInvariant
  <1>3. Got = {} /\ Settling = {} /\ inFlight = {} /\ Len(posts) = 0 /\ faults = 0
    BY DEF Init, Got, Received, Settling, Settled, Absent, Idle, Between
  <1>4. Budget
    BY <1>3, FS_EmptySet DEF Budget
  <1> QED
    BY <1>1, <1>4

LEMMA ThreadInvariant == Spec => []ThreadInv
  <1>1. ThreadInv /\ IInv' /\ [Next]_vars => ThreadInv'
    <2> SUFFICES ASSUME ThreadInv, IInv', [Next]_vars PROVE ThreadInv'
      OBVIOUS
    <2> USE DEF ThreadInv
    <2>1. CommandsFixed /\ DeliveredStays /\ RowsCommitted'
      BY FixedStep
    <2>2. CarriesClear /\ PostsClear
      BY CarriedStep, PostsStep
    <2>3. CarriedClear' /\ PostsOrdered' /\ Budget'
      BY <2>1, <2>2, CarriedStays, OrderStep, BudgetStep
    <2> QED
      BY <2>1, <2>3
  <1> QED
    BY <1>1, InitInvariant, InitThreads, Invariant, PTL DEF Spec, ThreadInv

(* Concurrent reconcilers repeat a post only when something went wrong: the *)
(* claim is held from before the post to the settlement, so that a second   *)
(* post of a row needs a lost answer, a crash or a request given up.        *)
THEOREM RepetitionsHaveFaults == Spec => []RepetitionsNeedFaults
  <1>1. ThreadInv => RepetitionsNeedFaults
    <2> SUFFICES ASSUME ThreadInv PROVE RepetitionsNeedFaults
      OBVIOUS
    <2>1. Settling \subseteq Got
      BY DEF ThreadInv, Settling, Settled, Got, IInv, DeliveredWasReceived,
             AnswersTrue
    <2>2. /\ Cardinality(Settling) <= Cardinality(Got)
          /\ Cardinality(Settling) \in Nat /\ Cardinality(Got) \in Nat
      BY <2>1, FS_Subset, FS_CardinalityType DEF ThreadInv, Budget
    <2>3. Cardinality(inFlight) \in Nat /\ Len(posts) \in Nat /\ faults \in Nat
      BY OutboxAssumption, FS_CardinalityType
      DEF ThreadInv, Budget, IInv, TypeOK
    <2>4. Len(posts) <= Cardinality(Got) + faults
      BY <2>2, <2>3 DEF ThreadInv, Budget
    <2> QED
      BY <2>4 DEF RepetitionsNeedFaults, Got
  <1> QED
    BY <1>1, ThreadInvariant, PTL

(* A thread shows the events of two commands in the order of their commits  *)
(* whenever they also began in it: the batch's hold-back is enough, for any *)
(* commands, workers and faults, although the claim does not repeat it.     *)
THEOREM ThreadsInOrder == Spec => []ThreadOrder
  <1>1. ThreadInv => ThreadOrder
    BY DEF ThreadInv, PostsOrdered, ThreadOrder, Follows
  <1> QED
    BY <1>1, ThreadInvariant, PTL

(* What readers of a thread see: every event once, in order, unless a fault *)
(* hid the outcome of a post of deliver_forum_row.                          *)
THEOREM ThreadsSafe == Spec => []ThreadSafety
  <1>1. RepetitionsNeedFaults /\ ThreadOrder => ThreadSafety
    BY DEF ThreadSafety
  <1> QED
    BY <1>1, RepetitionsHaveFaults, ThreadsInOrder, PTL

-----------------------------------------------------------------------------
(* The promise of Delivery.                                                 *)

(* A loop that backs off from a row has met a fault. *)
TroubleCounted ==
    \A w \in Workers :
        \/ worker[w].at = "failing"
        \/ worker[w].at = "answered" /\ worker[w].answer # "accepted"
        => faults > 0

LEMMA TroubleStep ==
    ASSUME TypeOK, TypeOK', TroubleCounted, [Next]_vars
    PROVE  TroubleCounted'
  <1>1. faults \in Nat /\ worker \in [Workers -> Loop]
    BY OutboxAssumption DEF TypeOK
  <1>2. CASE Fault
    BY <1>1, <1>2 DEF Fault, TroubleCounted
  <1>3. ASSUME NEW w \in Workers, Pass(w), faults' = faults
        PROVE  TroubleCounted'
    <2>1. CASE Send(w)
      BY <1>1, <1>3, <2>1 DEF Send, Answered, TroubleCounted, Loop
    <2>2. CASE ~Send(w)
      BY <1>1, <1>3, <2>2
      DEF Pass, StartDrain, Prepare, FindThread, CreateThread,
          SettleUnclaimed, Claim, Settle, Moves, Advances, Idle, Between,
          TroubleCounted, Loop
    <2> QED
      BY <2>1, <2>2
  <1>4. ASSUME NEW w \in Workers, Pass(w)
        PROVE  faults' = faults
    BY <1>4 DEF Pass, StartDrain, Prepare, FindThread, CreateThread,
                SettleUnclaimed, Claim, Send, Settle
  <1>5. ASSUME NEW w \in Workers, GoesWrong(w)
        PROVE  Fault
    BY <1>5 DEF GoesWrong, ThreadUnavailable, SendUnanswered, RejectKick, Crash
  <1>6. CASE UNCHANGED <<worker, faults>>
    BY <1>6 DEF TroubleCounted
  <1>7. CASE ~\E w \in Workers : Pass(w) \/ GoesWrong(w)
    BY <1>6, <1>7 DEF Next, Begin, CommitCommand, EnsurePendingBinding,
                      LateArrival, BackoffEnds, Requeue, vars
  <1> QED
    BY <1>2, <1>3, <1>4, <1>5, <1>7

PromiseInv == ThreadInv /\ TroubleCounted

LEMMA PromiseInvariant == Spec => []PromiseInv
  <1>1. Init => TroubleCounted
    BY DEF Init, TroubleCounted, Idle, Between
  <1>2. /\ TroubleCounted /\ ThreadInv /\ ThreadInv' /\ [Next]_vars
        => TroubleCounted'
    BY TroubleStep DEF ThreadInv, IInv
  <1> QED
    BY <1>1, <1>2, ThreadInvariant, PTL DEF Spec, PromiseInv

(* How a row that changes looks from outside. *)
Looks(record) ==
    IF record.state = "pending"
    THEN IF record.due THEN "owed" ELSE "deferred"
    ELSE record.state

LEMMA OneRowChanges ==
    ASSUME TypeOK, NEW r \in Rows, NEW record,
           row' = [row EXCEPT ![r] = record]
    PROVE  [q \in Rows |-> Standing(q)']
             = [[q \in Rows |-> Standing(q)] EXCEPT ![r] = Looks(record)]
  BY DEF TypeOK, Standing, Looks, Pending

LEMMA LooksKept ==
    ASSUME TypeOK, NEW r \in Rows, NEW record, Looks(record) = Standing(r),
           row' = [row EXCEPT ![r] = record]
    PROVE  [q \in Rows |-> Standing(q)'] = [q \in Rows |-> Standing(q)]
  BY OneRowChanges

(* A failed attempt puts a row off, gives a kick up, or is past counting. *)
LEMMA AttemptLooks ==
    ASSUME TypeOK, NEW r \in Rows, row[r].state \in {"pending", "dead"}
    PROVE  \/ Looks(AttemptFailed(r)) = Standing(r)
           \/ /\ Pending(r)
              /\ \/ Looks(AttemptFailed(r)) = "deferred"
                 \/ /\ Looks(AttemptFailed(r)) = "dead"
                    /\ Kind[r] = "EXECUTION_KICK"
  <1>1. CASE Overflows(r)
    BY <1>1 DEF AttemptFailed, Looks, Standing, Pending
  <1>2. CASE ~Overflows(r)
    <2>1. AttemptFailed(r) =
            [state |-> IF GivesUp(r) THEN "dead" ELSE row[r].state,
             attempts |-> row[r].attempts + 1, due |-> FALSE]
      BY <1>2 DEF AttemptFailed
    <2>2. GivesUp(r) => Kind[r] = "EXECUTION_KICK"
      BY DEF GivesUp
    <2>3. CASE GivesUp(r)
      BY <2>1, <2>2, <2>3 DEF Looks, Standing, Pending
    <2>4. CASE ~GivesUp(r)
      BY <2>1, <2>4 DEF Looks, Standing, Pending
    <2> QED
      BY <2>3, <2>4
  <1> QED
    BY <1>1, <1>2

(* What a receiver may get: the guards of the promise. *)
LEMMA ClearInTurn ==
    ASSUME NEW r \in Rows, Clear(r)
    PROVE  Promise!InTurn(r)
  <1>1. CommandOf[r] \in Commands
    BY OutboxAssumption
  <1>2. ASSUME NEW q \in Rows, Promise!SameThread(q, r),
               CommandOf[q] \in Awaits(CommandOf[r])
        PROVE  Received(q)
    BY <1>2 DEF Promise!SameThread, Awaits, Clear, Follows, Instance, Before
  <1> QED
    BY <1>1, <1>2 DEF Promise!InTurn, Promise!Received, Received

LEMMA SameCount == ASSUME NEW S PROVE Promise!Cardinality(S) = Cardinality(S)
  BY DEF Promise!Cardinality, Cardinality

LEMMA RepetitionPaid ==
    ASSUME ThreadInv, ThreadInv', NEW r \in Rows, Received(r),
           posts' = Append(posts, r), inFlight' = inFlight
    PROVE  Len(posts) + Cardinality(inFlight)
             < Cardinality(Promise!Received) + faults'
  <1>1. PICK n \in Nat : n = Len(posts) /\ DOMAIN posts = 1..n
    BY DEF ThreadInv, IInv, TypeOK
  <1>2. /\ Len(posts') = n + 1 /\ DOMAIN posts' = 1..(n + 1)
        /\ \A i \in 1..n : posts'[i] = posts[i]
        /\ posts'[n + 1] = r
    BY <1>1 DEF ThreadInv, IInv, TypeOK
  <1>3. \A q \in Rows : Received(q)' <=> Received(q)
    BY <1>1, <1>2 DEF Received
  <1>4. Got' = Got /\ Promise!Received = Got
    BY <1>3 DEF Got, Received, Promise!Received
  <1>5. Settling' \subseteq Got'
    BY DEF ThreadInv, Settling, Settled, Got, IInv, DeliveredWasReceived,
           AnswersTrue
  <1>6. IsFiniteSet(Got') /\ IsFiniteSet(inFlight)
    BY DEF ThreadInv, Budget
  <1>7. /\ Cardinality(Settling') <= Cardinality(Got')
        /\ Cardinality(Settling') \in Nat /\ Cardinality(Got') \in Nat
        /\ Cardinality(inFlight) \in Nat
    BY <1>5, <1>6, FS_Subset, FS_CardinalityType
  <1>8. (n + 1) + Cardinality(inFlight) <= Cardinality(Settling') + faults'
    BY <1>2 DEF ThreadInv, Budget
  <1>9. faults' \in Nat
    BY OutboxAssumption DEF ThreadInv, IInv, TypeOK
  <1>10. n + Cardinality(inFlight) < Cardinality(Got') + faults'
    BY <1>7, <1>8, <1>9
  <1> QED
    BY <1>1, <1>4, <1>10

LEMMA ClaimedIsOwed ==
    ASSUME ThreadInv, NEW w \in Workers, worker[w].at = "claimed"
    PROVE  /\ Current(w) \in Rows /\ Standing(Current(w)) = "owed"
           /\ Promise!InTurn(Current(w))
  <1>1. Current(w) \in Rows
    BY CurrentType DEF ThreadInv, IInv
  <1>2. Clear(Current(w))
    BY <1>1 DEF ThreadInv, CarriedClear, Carried, Current
  <1>3. Pending(Current(w)) /\ row[Current(w)].due
    BY DEF ThreadInv, IInv, ClaimSafety, Holding
  <1> QED
    BY <1>1, <1>2, <1>3, ClearInTurn DEF Standing

(* Standing and order are what they were. *)
RowsAsBefore ==
    /\ \A r \in Rows : Standing(r)' = Standing(r)
    /\ \A c \in Commands : Awaits(c)' = Awaits(c)

LEMMA NothingQueued ==
    ASSUME UNCHANGED <<started, committed>>
    PROVE  \A c \in Commands : Awaits(c)' = Awaits(c)
  BY DEF Awaits, CommittedBefore

LEMMA RowsUnchanged ==
    ASSUME UNCHANGED <<row, started, committed>>
    PROVE  RowsAsBefore
  BY NothingQueued DEF RowsAsBefore, Standing, Pending

LEMMA StutterKeeps ==
    ASSUME RowsAsBefore, UNCHANGED <<posts, inFlight, faults>>
    PROVE  UNCHANGED Promise!vars
  BY DEF RowsAsBefore, Promise!vars

LEMMA GoWrongKeeps ==
    ASSUME RowsAsBefore, UNCHANGED <<posts, inFlight>>, faults' = faults + 1
    PROVE  Promise!GoWrong
  BY DEF RowsAsBefore, Promise!GoWrong

(* A command that only begins has queued nothing yet. *)
LEMMA BeginKeeps ==
    ASSUME ThreadInv, NEW c \in Commands, Begin(c)
    PROVE  UNCHANGED Promise!vars
  <1>1. /\ UNCHANGED <<committed, row, posts, inFlight, faults>>
        /\ \A d \in Commands \ {c} : started'[d] = started[d]
    BY DEF Begin, ThreadInv, IInv, TypeOK
  <1>2. ~IsCommitted(c)
    BY DEF Begin, ThreadInv, RowsCommitted, IsCommitted
  <1>3. \A b, d \in Commands :
           CommittedBefore(b, d) => b # c /\ d # c
    BY <1>2 DEF CommittedBefore, IsCommitted
  <1>4. \A b, d \in Commands : CommittedBefore(b, d)' <=> CommittedBefore(b, d)
    BY <1>1 DEF CommittedBefore
  <1>5. ASSUME NEW d \in Commands
        PROVE  Awaits(d)' = Awaits(d)
    BY <1>1, <1>3, <1>4 DEF Awaits
  <1>6. RowsAsBefore
    BY <1>1, <1>5 DEF RowsAsBefore, Standing, Pending
  <1> QED
    BY <1>1, <1>6, StutterKeeps

(* A commit queues the command's rows and places them behind those of the   *)
(* commands that committed, and began, before.                              *)
LEMMA CommitQueues ==
    ASSUME ThreadInv, NEW c \in Commands, CommitCommand(c)
    PROVE  Promise!Queue(c)
  <1>1. PICK n \in Nat : n = Len(committed)
    BY DEF ThreadInv, IInv, TypeOK
  <1>2. /\ DOMAIN committed = 1..n /\ DOMAIN committed' = 1..(n + 1)
        /\ \A i \in 1..n : committed'[i] = committed[i]
        /\ committed'[n + 1] = c
    BY <1>1 DEF CommitCommand, ThreadInv, IInv, TypeOK
  <1>3. \A i \in 1..n : committed[i] # c
    BY <1>2 DEF CommitCommand, IsCommitted
  <1>4. \A b, d \in Commands :
           CommittedBefore(b, d)' <=>
              \/ CommittedBefore(b, d)
              \/ d = c /\ IsCommitted(b)
    <2> SUFFICES ASSUME NEW b \in Commands, NEW d \in Commands
                 PROVE  CommittedBefore(b, d)' <=>
                           \/ CommittedBefore(b, d)
                           \/ d = c /\ IsCommitted(b)
      OBVIOUS
    <2>1. ASSUME CommittedBefore(b, d)'
          PROVE  CommittedBefore(b, d) \/ (d = c /\ IsCommitted(b))
      <3>1. PICK i \in 1..(n + 1), j \in 1..(n + 1) :
               i < j /\ committed'[i] = b /\ committed'[j] = d
        BY <1>2, <2>1 DEF CommittedBefore
      <3>2. i \in 1..n /\ committed[i] = b
        BY <1>2, <3>1
      <3>3. CASE j = n + 1
        BY <1>2, <3>1, <3>2, <3>3 DEF IsCommitted
      <3>4. CASE j \in 1..n
        BY <1>2, <3>1, <3>2, <3>4 DEF CommittedBefore
      <3> QED
        BY <3>1, <3>3, <3>4
    <2>2. ASSUME CommittedBefore(b, d)
          PROVE  CommittedBefore(b, d)'
      <3>1. PICK i \in 1..n, j \in 1..n :
               i < j /\ committed[i] = b /\ committed[j] = d
        BY <1>2, <2>2 DEF CommittedBefore
      <3>2. i \in DOMAIN committed' /\ j \in DOMAIN committed'
        BY <1>2, <3>1
      <3> QED
        BY <1>2, <3>1, <3>2 DEF CommittedBefore
    <2>3. ASSUME d = c, IsCommitted(b)
          PROVE  CommittedBefore(b, d)'
      <3>1. PICK i \in 1..n : committed[i] = b
        BY <1>2, <2>3 DEF IsCommitted
      <3>2. i \in 1..(n + 1) /\ n + 1 \in 1..(n + 1) /\ i < n + 1
        BY <3>1
      <3> QED
        BY <1>2, <2>3, <3>1, <3>2 DEF CommittedBefore
    <2> QED
      BY <2>1, <2>2, <2>3
  <1>5. UNCHANGED <<started, posts, inFlight, faults>>
    BY DEF CommitCommand
  <1>6. \A d \in Commands \ {c} : Awaits(d)' = Awaits(d)
    BY <1>4, <1>5 DEF Awaits
  <1>7. /\ Awaits(c)' \in SUBSET (Commands \ {c})
        /\ \A b \in Awaits(c)' : IsCommitted(b)
    <2>1. \A d \in Commands : ~CommittedBefore(d, c)
      BY <1>2, <1>3 DEF CommittedBefore
    <2>2. started[c] \in Nat
      BY DEF ThreadInv, IInv, TypeOK
    <2> QED
      BY <1>4, <1>5, <2>1, <2>2 DEF Awaits
  <1>8. \A r \in Rows : Standing(r) = "absent" <=> ~IsCommitted(CommandOf[r])
    BY DEF Standing, Pending, ThreadInv, RowsCommitted
  <1>9. \A r \in Rows : CommandOf[r] = c => Standing(r) = "absent"
    BY <1>8 DEF CommitCommand
  <1>10. \A q \in Rows : CommandOf[q] \in Awaits(c)' => Standing(q) # "absent"
    BY <1>7, <1>8
  <1>11. \A r \in Rows :
            Standing(r)' = IF CommandOf[r] = c THEN "owed" ELSE Standing(r)
    BY DEF CommitCommand, Standing, Pending
  <1>12. [d \in Commands |-> Awaits(d)']
            = [[d \in Commands |-> Awaits(d)] EXCEPT ![c] = Awaits(c)']
    BY <1>6
  <1>13. [r \in Rows |-> Standing(r)']
            = [r \in Rows |-> IF CommandOf[r] = c THEN "owed"
                              ELSE [q \in Rows |-> Standing(q)][r]]
    BY <1>11
  <1> QED
    BY <1>5, <1>7, <1>9, <1>10, <1>12, <1>13 DEF Promise!Queue

(* A post is a delivery; the answer the sender gets is another matter.      *)
LEMMA PostDelivers ==
    ASSUME ThreadInv, ThreadInv', NEW w \in Workers, worker[w].at = "claimed",
           posts' = Append(posts, Current(w)), RowsAsBefore,
           inFlight' = inFlight, faults' \in {faults, faults + 1}
    PROVE  Promise!Deliver(Current(w))
  <1>1. /\ Current(w) \in Rows /\ Standing(Current(w)) = "owed"
        /\ Promise!InTurn(Current(w))
    BY ClaimedIsOwed
  <1>2. Received(Current(w)) =>
           Len(posts) + Cardinality(inFlight)
             < Cardinality(Promise!Received) + faults'
    BY <1>1, RepetitionPaid
  <1>3. Current(w) \in Promise!Received => Received(Current(w))
    BY DEF Promise!Received, Received
  <1>4. /\ [r \in Rows |-> Standing(r)'] = [r \in Rows |-> Standing(r)]
        /\ [c \in Commands |-> Awaits(c)'] = [c \in Commands |-> Awaits(c)]
    BY DEF RowsAsBefore
  <1>5. [q \in Rows |-> Standing(q)][Current(w)] = "owed"
    BY <1>1
  <1>6. Current(w) \in Promise!Received =>
           Len(posts) + Promise!Cardinality(inFlight)
             < Promise!Cardinality(Promise!Received) + faults'
    BY <1>2, <1>3, SameCount
  <1> QED
    BY <1>1, <1>4, <1>5, <1>6 DEF Promise!Deliver

LEMMA UnansweredKeeps ==
    ASSUME ThreadInv, ThreadInv', NEW w \in Workers, SendUnanswered(w)
    PROVE  \/ Promise!GoWrong
           \/ Promise!Deliver(Current(w))
           \/ Promise!Lose(Current(w))
  <1>1. RowsAsBefore
    BY RowsUnchanged DEF SendUnanswered
  <1>2. faults' = faults + 1 /\ worker[w].at = "claimed"
    BY DEF SendUnanswered, Fault
  <1>3. CASE UNCHANGED <<posts, inFlight>>
    BY <1>1, <1>2, <1>3, GoWrongKeeps
  <1>4. CASE posts' = Append(posts, Current(w)) /\ UNCHANGED inFlight
    BY <1>1, <1>2, <1>4, PostDelivers
  <1>5. CASE inFlight' = inFlight \cup {Current(w)} /\ UNCHANGED posts
    <2>1. /\ Current(w) \in Rows /\ Standing(Current(w)) = "owed"
          /\ Promise!InTurn(Current(w))
      BY <1>2, ClaimedIsOwed
    <2>2. /\ [r \in Rows |-> Standing(r)'] = [r \in Rows |-> Standing(r)]
          /\ [c \in Commands |-> Awaits(c)'] = [c \in Commands |-> Awaits(c)]
      BY <1>1 DEF RowsAsBefore
    <2> QED
      BY <1>2, <1>5, <2>1, <2>2 DEF Promise!Lose
  <1> QED
    BY <1>3, <1>4, <1>5 DEF SendUnanswered

LEMMA LateArrives ==
    ASSUME NEW r \in Rows, LateArrival(r)
    PROVE  Promise!ArriveLate(r)
  <1>1. RowsAsBefore
    BY RowsUnchanged DEF LateArrival
  <1> QED
    BY <1>1 DEF LateArrival, RowsAsBefore, Promise!ArriveLate

(* A row that fails is put off, given up, or as it was. *)
LEMMA AttemptFails ==
    ASSUME ThreadInv, NEW r \in Rows, row[r].state \in {"pending", "dead"},
           row' = [row EXCEPT ![r] = AttemptFailed(r)], faults > 0,
           UNCHANGED <<started, committed, posts, inFlight, faults>>
    PROVE  Promise!Fail(r) \/ UNCHANGED Promise!vars
  <1>1. TypeOK /\ \A c \in Commands : Awaits(c)' = Awaits(c)
    BY NothingQueued DEF ThreadInv, IInv
  <1>2. CASE Looks(AttemptFailed(r)) = Standing(r)
    <2>1. [q \in Rows |-> Standing(q)'] = [q \in Rows |-> Standing(q)]
      BY <1>1, <1>2, LooksKept
    <2> QED
      BY <1>1, <2>1 DEF Promise!vars
  <1>3. CASE Looks(AttemptFailed(r)) # Standing(r)
    <2>1. /\ Pending(r)
          /\ \/ Looks(AttemptFailed(r)) = "deferred"
             \/ /\ Looks(AttemptFailed(r)) = "dead"
                /\ Kind[r] = "EXECUTION_KICK"
      BY <1>1, <1>3, AttemptLooks
    <2>2. [q \in Rows |-> Standing(q)'] =
             [[q \in Rows |-> Standing(q)] EXCEPT
                 ![r] = Looks(AttemptFailed(r))]
      BY <1>1, OneRowChanges
    <2>3. Standing(r) \in {"owed", "deferred"}
      BY <2>1 DEF Standing
    <2> QED
      BY <1>1, <2>1, <2>2, <2>3 DEF Promise!Fail, Promise!Becomes
  <1> QED
    BY <1>2, <1>3

LEMMA UnclaimedKeeps ==
    ASSUME PromiseInv, NEW w \in Workers, SettleUnclaimed(w)
    PROVE  Promise!Fail(Current(w)) \/ UNCHANGED Promise!vars
  <1>1. Current(w) \in Rows
    BY CurrentType DEF SettleUnclaimed, PromiseInv, ThreadInv, IInv
  <1>2. Clear(Current(w))
    BY <1>1 DEF PromiseInv, ThreadInv, CarriedClear, Carried, Current
  <1>3. row[Current(w)].state \in {"pending", "dead", "delivered"}
    BY <1>1, <1>2 DEF Clear, PromiseInv, ThreadInv, RowsCommitted, IInv,
                      TypeOK, RowRecord, States
  <1>4. faults > 0
    BY DEF SettleUnclaimed, PromiseInv, TroubleCounted
  <1>5. UNCHANGED <<started, committed, posts, inFlight, faults>>
    BY DEF SettleUnclaimed
  <1>6. CASE row[Current(w)].state = "delivered"
    BY <1>5, <1>6, RowsUnchanged, StutterKeeps DEF SettleUnclaimed
  <1>7. CASE row[Current(w)].state # "delivered"
    BY <1>1, <1>3, <1>4, <1>5, <1>7, AttemptFails
    DEF SettleUnclaimed, PromiseInv
  <1> QED
    BY <1>6, <1>7

LEMMA SettleKeeps ==
    ASSUME PromiseInv, NEW w \in Workers, Settle(w)
    PROVE  \/ Promise!Confirm(Current(w)) \/ Promise!Fail(Current(w))
           \/ UNCHANGED Promise!vars
  <1>1. /\ Current(w) \in Rows
        /\ worker[w].answer \in {"accepted", "permanent", "retryable"}
        /\ worker[w].answer = "accepted" => Received(Current(w))
        /\ worker[w].answer = "permanent" => Kind[Current(w)] = "EXECUTION_KICK"
        /\ worker[w].answer # "accepted" => faults > 0
    BY CurrentType
    DEF Settle, PromiseInv, ThreadInv, IInv, TypeOK, Loop, Answers,
        AnswersTrue, TroubleCounted
  <1>2. Pending(Current(w)) /\ row[Current(w)].due
    BY DEF Settle, PromiseInv, ThreadInv, IInv, ClaimSafety, Holding
  <1>3. Standing(Current(w)) = "owed"
    BY <1>2 DEF Standing
  <1>4. UNCHANGED <<started, committed, posts, inFlight, faults>>
    BY DEF Settle
  <1>5. [c \in Commands |-> Awaits(c)'] = [c \in Commands |-> Awaits(c)]
    BY <1>4, NothingQueued
  <1>6. row' = [row EXCEPT ![Current(w)] = Settlement(Current(w), worker[w].answer)]
    BY DEF Settle
  <1>7. TypeOK /\ row[Current(w)] \in RowRecord
    BY <1>1 DEF PromiseInv, ThreadInv, IInv, TypeOK
  <1>8. [q \in Rows |-> Standing(q)'] =
           [[q \in Rows |-> Standing(q)] EXCEPT
               ![Current(w)] = Looks(Settlement(Current(w), worker[w].answer))]
    BY <1>1, <1>6, <1>7, OneRowChanges
  <1>9. CASE worker[w].answer = "accepted"
    <2>1. Looks(Settlement(Current(w), worker[w].answer)) = "delivered"
      <3>1. Settlement(Current(w), worker[w].answer) =
               [row[Current(w)] EXCEPT !.state = "delivered"]
        BY <1>9 DEF Settlement
      <3> QED
        BY <1>7, <3>1 DEF Looks, RowRecord
    <2>2. Current(w) \in Promise!Received
      BY <1>1, <1>9 DEF Promise!Received, Received
    <2> QED
      BY <1>1, <1>3, <1>4, <1>5, <1>8, <2>1, <2>2
      DEF Promise!Confirm, Promise!Becomes
  <1>10. CASE worker[w].answer = "permanent"
    <2>1. Looks(Settlement(Current(w), worker[w].answer)) = "dead"
      <3>1. Settlement(Current(w), worker[w].answer) =
               [row[Current(w)] EXCEPT !.state = "dead",
                                       !.attempts = row[Current(w)].attempts + 1]
        BY <1>7, <1>10 DEF Settlement, RowRecord
      <3> QED
        BY <1>7, <3>1 DEF Looks, RowRecord
    <2> QED
      BY <1>1, <1>3, <1>4, <1>5, <1>8, <1>10, <2>1
      DEF Promise!Fail, Promise!Becomes
  <1>11. CASE worker[w].answer = "retryable"
    <2>1. row' = [row EXCEPT ![Current(w)] = AttemptFailed(Current(w))]
      BY <1>6, <1>11 DEF Settlement
    <2> QED
      BY <1>1, <1>2, <1>4, <1>11, <2>1, AttemptFails DEF PromiseInv, Pending
  <1> QED
    BY <1>1, <1>9, <1>10, <1>11

LEMMA RowsResume ==
    ASSUME TypeOK, NEW r \in Rows, BackoffEnds(r) \/ Requeue(r)
    PROVE  Promise!Resume(r)
  <1>1. row[r] \in RowRecord
    BY DEF TypeOK
  <1>2. UNCHANGED <<started, committed, posts, inFlight, faults>>
    BY DEF BackoffEnds, Requeue
  <1>3. [c \in Commands |-> Awaits(c)'] = [c \in Commands |-> Awaits(c)]
    BY <1>2, NothingQueued
  <1>4. PICK record : /\ row' = [row EXCEPT ![r] = record]
                      /\ Looks(record) = "owed"
    <2>1. CASE BackoffEnds(r)
      <3>1. row' = [row EXCEPT ![r] = [row[r] EXCEPT !.due = TRUE]]
        BY <1>1, <2>1 DEF BackoffEnds, TypeOK
      <3>2. Looks([row[r] EXCEPT !.due = TRUE]) = "owed"
        BY <1>1, <2>1 DEF BackoffEnds, Pending, Looks, RowRecord
      <3> QED
        BY <3>1, <3>2
    <2>2. CASE Requeue(r)
      <3> DEFINE fresh == [state |-> "pending", attempts |-> 0, due |-> TRUE]
      <3>1. row' = [row EXCEPT ![r] = fresh]
        BY <2>2 DEF Requeue
      <3>2. Looks(fresh) = "owed"
        BY DEF Looks
      <3> QED
        BY <3>1, <3>2
    <2> QED
      BY <2>1, <2>2
  <1>5. Standing(r) \in {"deferred", "dead"}
    BY DEF BackoffEnds, Requeue, Standing, Pending
  <1>6. [q \in Rows |-> Standing(q)'] =
           [[q \in Rows |-> Standing(q)] EXCEPT ![r] = "owed"]
    BY <1>4, OneRowChanges
  <1> QED
    BY <1>2, <1>3, <1>5, <1>6 DEF Promise!Resume, Promise!Becomes

LEMMA LoopKeepsPromise ==
    ASSUME PromiseInv, PromiseInv', NEW w \in Workers, Pass(w) \/ GoesWrong(w)
    PROVE  [Promise!Next]_(Promise!vars)
  <1>1. CASE Send(w)
    <2>1. RowsAsBefore
      BY <1>1, RowsUnchanged DEF Send
    <2>2. Current(w) \in Rows /\ Promise!Deliver(Current(w))
      BY <1>1, <2>1, PostDelivers, ClaimedIsOwed DEF Send, PromiseInv
    <2> QED
      BY <2>2 DEF Promise!Next
  <1>2. CASE SendUnanswered(w)
    <2>1. Current(w) \in Rows
      BY <1>2, ClaimedIsOwed DEF SendUnanswered, PromiseInv
    <2> QED
      BY <1>2, <2>1, UnansweredKeeps DEF PromiseInv, Promise!Next
  <1>3. CASE SettleUnclaimed(w) \/ Settle(w)
    <2>1. Current(w) \in Rows
      BY <1>3, CurrentType DEF SettleUnclaimed, Settle, PromiseInv, ThreadInv,
                               IInv
    <2> QED
      BY <1>3, <2>1, UnclaimedKeeps, SettleKeeps DEF Promise!Next
  <1>4. CASE ThreadUnavailable(w) \/ RejectKick(w) \/ Crash(w)
    <2>1. /\ UNCHANGED <<row, started, committed, posts, inFlight>>
          /\ faults' = faults + 1
      BY <1>4 DEF ThreadUnavailable, RejectKick, Crash, Fault
    <2> QED
      BY <2>1, RowsUnchanged, GoWrongKeeps DEF Promise!Next
  <1>5. CASE \/ \E kind \in Kinds : StartDrain(w, kind)
             \/ Prepare(w) \/ FindThread(w) \/ CreateThread(w) \/ Claim(w)
    <2>1. UNCHANGED <<row, started, committed, posts, inFlight, faults>>
      BY <1>5 DEF StartDrain, Prepare, FindThread, CreateThread, Claim
    <2> QED
      BY <2>1, RowsUnchanged, StutterKeeps
  <1> QED
    BY <1>1, <1>2, <1>3, <1>4, <1>5 DEF Pass, GoesWrong

LEMMA StepKeepsPromise ==
    ASSUME PromiseInv, PromiseInv', [Next]_vars
    PROVE  [Promise!Next]_(Promise!vars)
  <1>1. CASE \E c \in Commands : Begin(c) \/ CommitCommand(c)
    BY <1>1, BeginKeeps, CommitQueues DEF PromiseInv, Promise!Next
  <1>2. CASE \E w \in Workers : Pass(w) \/ GoesWrong(w)
    BY <1>2, LoopKeepsPromise
  <1>3. CASE \/ \E w \in Workers, i \in Instances : EnsurePendingBinding(w, i)
             \/ UNCHANGED vars
    <2>1. UNCHANGED <<row, started, committed, posts, inFlight, faults>>
      BY <1>3 DEF EnsurePendingBinding, vars
    <2> QED
      BY <2>1, RowsUnchanged, StutterKeeps
  <1>4. CASE \E r \in Rows : LateArrival(r) \/ BackoffEnds(r) \/ Requeue(r)
    BY <1>4, LateArrives, RowsResume
    DEF PromiseInv, ThreadInv, IInv, Promise!Next
  <1> QED
    BY <1>1, <1>2, <1>3, <1>4 DEF Next

(* The reconcilers implement the promise, for any rows, commands, workers   *)
(* and faults: what deliver_forum_row, deliver_owner_wake_row and the kick  *)
(* channel do to the receivers, with their claims, retries, crashes and     *)
(* settlements outside the claim, is a behaviour of Delivery.               *)
THEOREM PromiseKept == Spec => KeepsItsPromise
  <1>1. Init => Promise!Init
    <2> SUFFICES ASSUME Init PROVE Promise!Init
      OBVIOUS
    <2>1. \A r \in Rows : Standing(r) = "absent"
      BY DEF Init, Absent, Standing, Pending
    <2>2. \A c \in Commands : Awaits(c) = {}
      BY DEF Init, Awaits, CommittedBefore
    <2> QED
      BY <2>1, <2>2 DEF Init, Promise!Init
  <1>2. PromiseInv /\ PromiseInv' /\ [Next]_vars => [Promise!Next]_(Promise!vars)
    BY StepKeepsPromise
  <1> QED
    BY <1>1, <1>2, PromiseInvariant, PTL
    DEF Spec, KeepsItsPromise, Promise!Spec
=============================================================================
