-------------------------- MODULE OutboxProperties --------------------------
(***************************************************************************)
(* What Outbox has to satisfy.                                              *)
(***************************************************************************)
EXTENDS Outbox

RowRecord == [state : States, attempts : Nat, due : BOOLEAN]
Loop      == [at : Stages, todo : SUBSET Rows, row : Rows \cup {NoRow},
              answer : Answers]

(* The outbox columns and the loops' local state.  A binding is BOUND only  *)
(* to a thread that exists.                                                 *)
TypeOK ==
    /\ started \in [Commands -> Nat]
    /\ committed \in Seq(Commands)
    /\ row \in [Rows -> RowRecord]
    /\ forum \subseteq Instances /\ bound \subseteq forum
    /\ worker \in [Workers -> Loop]
    /\ \A w \in Workers :
          worker[w].row = NoRow <=> worker[w].at \in {"idle", "next"}
    /\ posts \in Seq(Rows) /\ inFlight \subseteq Rows
    /\ faults \in 0..MaxFaults

-----------------------------------------------------------------------------
Received(r) == \E i \in DOMAIN posts : posts[i] = r

(* Nothing is marked delivered that its receiver has not accepted, whatever *)
(* was lost, timed out or settled from outside the claim.                   *)
DeliveredWasReceived ==
    \A r \in Rows : row[r].state = "delivered" => Received(r)

(* Every repetition has a fault behind it: concurrent workers alone never   *)
(* deliver a row twice, however their batches, claims and settlements       *)
(* interleave.                                                              *)
RepetitionsNeedFaults ==
    Len(posts) <= Cardinality({r \in Rows : Received(r)}) + faults

(* A row that is settled is not sent again by a worker that read it in a    *)
(* batch before.                                                            *)
SettledIsNotSent ==
    [][\A w \in Workers :
          (worker[w].at = "claimed" /\ worker'[w].at = "answered") =>
              Pending(Current(w)) /\ row[Current(w)].due]_vars

(* Forum rows and owner wakes are never given up, and a kick only after its *)
(* last attempt or a rejection no retry can mend.                           *)
OnlyKicksGiveUp ==
    \A r \in Rows :
        /\ row[r].state = "dead" => Kind[r] = "EXECUTION_KICK"
        /\ row[r].state = "pending" /\ Kind[r] = "EXECUTION_KICK" =>
              row[r].attempts < KickMaxAttempts

(* A settled row tells the truth: delivered is received, given up is spent. *)
DeliverySafety == DeliveredWasReceived /\ OnlyKicksGiveUp

CommittedBefore(c, d) ==
    \E i, j \in DOMAIN committed :
        i < j /\ committed[i] = c /\ committed[j] = d

(* Two events of a thread whose commands committed in the order they began. *)
Follows(q, r) ==
    /\ Kind[q] = "FORUM_EVENT" /\ Kind[r] = "FORUM_EVENT"
    /\ Instance(q) = Instance(r)
    /\ Before(q, r)
    /\ CommittedBefore(CommandOf[q], CommandOf[r])

(* A thread shows the events of two commands in the order of their commits  *)
(* whenever they also began in that order: the hold-back of the batch is    *)
(* enough although the claim does not repeat it.                            *)
ThreadOrder ==
    \A q, r \in Rows :
        Follows(q, r) => \A i \in DOMAIN posts :
                            posts[i] = r => \E j \in 1..(i - 1) : posts[j] = q

(* What readers of a thread see: every event once, in order, unless a fault *)
(* hid the outcome of a post.                                               *)
ThreadSafety == RepetitionsNeedFaults /\ ThreadOrder

(* The same rows without loops and claims. *)
Standing(r) ==
    IF Pending(r) THEN IF row[r].due THEN "owed" ELSE "deferred"
    ELSE row[r].state

Awaits(c) == {b \in Commands : started[b] < started[c] /\ CommittedBefore(b, c)}

Promise == INSTANCE Delivery WITH
    standing <- [r \in Rows |-> Standing(r)],
    awaits   <- [c \in Commands |-> Awaits(c)],
    lost     <- inFlight

(* The loops, batches, claims and settlements of all processes are, to the  *)
(* receivers, the promise of Delivery: each row is queued with its command, *)
(* posted only while it is owed and due, in its turn, again only on account *)
(* of a fault nothing else is charged with, marked delivered once received  *)
(* and never after that, put off or given up only when something went       *)
(* wrong.                                                                   *)
KeepsItsPromise == Promise!Spec

(* Every row of a configured channel is delivered in the end, a kick unless *)
(* it was dead-lettered: no row blocks its instance's thread for ever and   *)
(* no failed attempt is forgotten.                                          *)
EveryRowSettles ==
    \A r \in Rows :
        Kind[r] \in Channels =>
            (row[r].state = "pending" ~> row[r].state \in {"delivered", "dead"})
=============================================================================
