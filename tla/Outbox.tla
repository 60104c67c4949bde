------------------------------- MODULE Outbox -------------------------------
(***************************************************************************)
(* The delivery side of the outbox: the reconciler loops of the running     *)
(* processes read due batches of one kind, resolve the forum thread, claim  *)
(* a row FOR UPDATE SKIP LOCKED, send it, and settle it in the claiming     *)
(* transaction.  The rows come from command transactions; their created_at  *)
(* is the start of the transaction, their outbox_id is random.              *)
(*                                                                          *)
(* External: the receivers, whose answer to an accepted request may be      *)
(* lost and which may see a request after its sender has given up, and the  *)
(* forum's guarantee of one thread for an instance.  Owner wakes with a     *)
(* governance phase, which coordinate with their case first, are left out.  *)
(***************************************************************************)
EXTENDS Naturals, Sequences, FiniteSets

CONSTANTS
    Commands, Instances, Rows,
    InstanceOf,         \* of each command
    CommandOf,          \* the command whose transaction queues each row
    Kind,               \* outbox_kind of each row
    Id,                 \* outbox_id of each row
    Workers,            \* bound: processes running the loop
    NoRow,              \* the row of a loop that is between rows
    Channels,           \* kinds whose channel is configured
    BatchLimit,         \* rows of a batch
    KickMaxAttempts,    \* EXECUTION_KICK_MAX_ATTEMPTS
    MaxPower,           \* largest exponent POWER(2, n) takes, 1023 in the code
    MaxFaults           \* bound: everything that goes wrong

Kinds == {"EXECUTION_KICK", "FORUM_EVENT", "OWNER_ASSISTANCE_WAKE"}

ASSUME OutboxAssumption ==
    /\ IsFiniteSet(Commands)
    /\ InstanceOf \in [Commands -> Instances]
    /\ CommandOf \in [Rows -> Commands]
    /\ Kind \in [Rows -> Kinds]
    /\ Id \in [Rows -> Nat]
    /\ \A r, q \in Rows : Id[r] = Id[q] => r = q
    /\ Channels \subseteq Kinds
    /\ NoRow \notin Rows
    /\ BatchLimit \in Nat \ {0} /\ KickMaxAttempts \in Nat \ {0}
    /\ MaxPower \in Nat /\ MaxFaults \in Nat

VARIABLES
    started,        \* created_at of a command's rows, 0 before it begins
    committed,      \* commands in commit order
    row,            \* workflow_outbox
    forum,          \* instances whose canonical thread exists in the forum
    bound,          \* instances whose binding is BOUND
    worker,         \* what each loop is doing
    posts,          \* what the receivers have accepted, in order
    inFlight,       \* requests given up that may still arrive
    faults          \* how many things have gone wrong

vars == <<started, committed, row, forum, bound, worker, posts, inFlight,
          faults>>

-----------------------------------------------------------------------------
States  == {"absent", "pending", "delivered", "dead"}
Stages  == {"idle", "next", "finding", "creating", "failing", "ready",
            "claimed", "answered"}
Answers == {"none", "accepted", "retryable", "permanent"}

Between(at, todo) == [at |-> at, todo |-> todo, row |-> NoRow,
                      answer |-> "none"]
Idle   == Between("idle", {})
Absent == [state |-> "absent", attempts |-> 0, due |-> FALSE]

HasBegun(c)    == started[c] > 0
IsCommitted(c) == \E i \in DOMAIN committed : committed[i] = c
Instance(r)    == InstanceOf[CommandOf[r]]

(* Fault: <= for <, so that a row is behind itself. *)
NotAfter(q, r) ==
    \/ started[CommandOf[q]] < started[CommandOf[r]]
    \/ started[CommandOf[q]] = started[CommandOf[r]] /\ Id[q] <= Id[r]

(* (created_at, outbox_id) < (created_at, outbox_id) *)
Before(q, r) ==
    \/ started[CommandOf[q]] < started[CommandOf[r]]
    \/ started[CommandOf[q]] = started[CommandOf[r]] /\ Id[q] < Id[r]

Pending(r) == row[r].state = "pending"

(* Fault: a row in backoff holds nothing back. *)
HeldBackByDue(r) ==
    /\ Kind[r] = "FORUM_EVENT"
    /\ \E q \in Rows : /\ Kind[q] = "FORUM_EVENT"
                       /\ Instance(q) = Instance(r)
                       /\ Pending(q) /\ row[q].due
                       /\ Before(q, r)

(* Forum rows wait for the undelivered earlier ones of their instance. *)
HeldBack(r) ==
    /\ Kind[r] = "FORUM_EVENT"
    /\ \E q \in Rows : /\ Kind[q] = "FORUM_EVENT"
                       /\ Instance(q) = Instance(r)
                       /\ row[q].state \in {"pending", "dead"}
                       /\ Before(q, r)

Due(kind) == {r \in Rows : Kind[r] = kind /\ Pending(r) /\ row[r].due
                           /\ ~HeldBack(r)}

Batch(kind) ==
    {r \in Due(kind) :
        Cardinality({q \in Due(kind) : Before(q, r)}) < BatchLimit}

Current(w) == worker[w].row

Claims(w, r) == worker[w].at \in {"claimed", "answered"} /\ Current(w) = r
Claimed(r)   == \E w \in Workers : Claims(w, r)

Moves(w, at) == worker' = [worker EXCEPT ![w].at = at]

(* On to the next row of the batch, or to the end of the pass. *)
Advances(w) ==
    worker' = [worker EXCEPT ![w] =
        IF @.todo = {} THEN Idle ELSE Between("next", @.todo)]

Fault == faults < MaxFaults /\ faults' = faults + 1

-----------------------------------------------------------------------------
(* Command transactions.  Commands of one instance commit in the order they *)
(* get its row lock, which need not be the order they began in.             *)

Begin(c) ==
    /\ ~HasBegun(c)
    /\ started' = [started EXCEPT ![c] =
                      Cardinality({d \in Commands : HasBegun(d)}) + 1]
    /\ UNCHANGED <<committed, row, forum, bound, worker, posts, inFlight,
                   faults>>

CommitCommand(c) ==
    /\ HasBegun(c) /\ ~IsCommitted(c)
    /\ committed' = Append(committed, c)
    /\ row' = [r \in Rows |->
                 IF CommandOf[r] = c
                 THEN [state |-> "pending", attempts |-> 0, due |-> TRUE]
                 ELSE row[r]]
    /\ UNCHANGED <<started, forum, bound, worker, posts, inFlight, faults>>

-----------------------------------------------------------------------------
(* One pass of a loop.                                                      *)

(* Bindings are made with the first forum row of their instance. *)
EnsurePendingBinding(w, i) ==
    /\ worker[w].at = "idle"
    /\ "FORUM_EVENT" \in Channels
    /\ i \notin bound
    /\ \E r \in Rows : /\ Kind[r] = "FORUM_EVENT" /\ Instance(r) = i
                       /\ row[r].state # "absent"
    /\ forum' = forum \cup {i}
    /\ bound' = bound \cup {i}
    /\ UNCHANGED <<started, committed, row, worker, posts, inFlight, faults>>

StartDrain(w, kind) ==
    /\ worker[w].at = "idle"
    /\ kind \in Channels
    /\ Batch(kind) # {}
    /\ worker' = [worker EXCEPT ![w] = Between("next", Batch(kind))]
    /\ UNCHANGED <<started, committed, row, forum, bound, posts, inFlight,
                   faults>>

(* The oldest row of the batch is next.  Before the claim, a forum row      *)
(* needs its instance's binding to be BOUND.                                *)
Prepare(w) ==
    /\ worker[w].at = "next"
    /\ \E r \in worker[w].todo :
          /\ \A q \in worker[w].todo \ {r} : Before(r, q)
          /\ worker' = [worker EXCEPT ![w] =
                [at |-> IF Kind[r] = "FORUM_EVENT" /\ Instance(r) \notin bound
                        THEN "finding" ELSE "ready",
                 todo |-> @.todo \ {r}, row |-> r, answer |-> "none"]]
    /\ UNCHANGED <<started, committed, row, forum, bound, posts, inFlight,
                   faults>>

(* Fault: the instance counts as bound before its thread is found. *)
BindsUnfound(w) ==
    /\ worker[w].at = "finding"
    /\ bound' = bound \cup {Instance(Current(w))}
    /\ Moves(w, IF Instance(Current(w)) \in forum THEN "ready" ELSE "creating")
    /\ UNCHANGED <<started, committed, row, forum, posts, inFlight, faults>>

FindThread(w) ==
    /\ worker[w].at = "finding"
    /\ IF Instance(Current(w)) \in forum
       THEN /\ bound' = bound \cup {Instance(Current(w))}
            /\ Moves(w, "ready")
       ELSE /\ Moves(w, "creating")
            /\ UNCHANGED bound
    /\ UNCHANGED <<started, committed, row, forum, posts, inFlight, faults>>

(* A conflict with another creation finds the other's thread and binds it.  *)
CreateThread(w) ==
    /\ worker[w].at = "creating"
    /\ forum' = forum \cup {Instance(Current(w))}
    /\ bound' = bound \cup {Instance(Current(w))}
    /\ Moves(w, "ready")
    /\ UNCHANGED <<started, committed, row, posts, inFlight, faults>>

ThreadUnavailable(w) ==
    /\ worker[w].at \in {"finding", "creating"}
    /\ \/ UNCHANGED forum
       \/ /\ worker[w].at = "creating"
          /\ forum' = forum \cup {Instance(Current(w))}
    /\ Moves(w, "failing")
    /\ Fault
    /\ UNCHANGED <<started, committed, row, bound, posts, inFlight>>

(* mark_attempt_failed.  POWER(2, attempt_count + 1) is computed before it  *)
(* is capped; past the largest double the statement fails and the row keeps *)
(* its due state.                                                           *)
Overflows(r) == row[r].attempts + 1 > MaxPower

GivesUp(r) ==
    Kind[r] = "EXECUTION_KICK" /\ row[r].attempts + 1 >= KickMaxAttempts

AttemptFailed(r) ==
    IF Overflows(r) THEN row[r]
    ELSE [state |-> IF GivesUp(r) THEN "dead" ELSE row[r].state,
          attempts |-> row[r].attempts + 1, due |-> FALSE]

(* settle_attempt_failure: a transaction of its own, without the claim; it  *)
(* waits for whoever holds the row and leaves a delivered row alone.        *)
SettleUnclaimed(w) ==
    LET r == Current(w) IN
    /\ worker[w].at = "failing"
    /\ ~Claimed(r)
    /\ row' = IF row[r].state = "delivered" THEN row
              ELSE [row EXCEPT ![r] = AttemptFailed(r)]
    /\ Advances(w)
    /\ UNCHANGED <<started, committed, forum, bound, posts, inFlight, faults>>

(* Fault: the claim trusts the batch. *)
Unchecked(r) == ~Claimed(r)

(* FOR UPDATE SKIP LOCKED, with the due predicates checked again. *)
Claimable(r) == ~Claimed(r) /\ Pending(r) /\ row[r].due

Claim(w) ==
    /\ worker[w].at = "ready"
    /\ IF Claimable(Current(w)) THEN Moves(w, "claimed") ELSE Advances(w)
    /\ UNCHANGED <<started, committed, row, forum, bound, posts, inFlight,
                   faults>>

Answered(w, answer) ==
    worker' = [worker EXCEPT ![w].at = "answered", ![w].answer = answer]

Send(w) ==
    /\ worker[w].at = "claimed"
    /\ posts' = Append(posts, Current(w))
    /\ Answered(w, "accepted")
    /\ UNCHANGED <<started, committed, row, forum, bound, inFlight, faults>>

(* No 2xx within the timeout: the request was refused or lost, or it was    *)
(* accepted and the answer lost, or it arrives when nobody waits for it.    *)
SendUnanswered(w) ==
    /\ worker[w].at = "claimed"
    /\ \/ UNCHANGED <<posts, inFlight>>
       \/ posts' = Append(posts, Current(w)) /\ UNCHANGED inFlight
       \/ inFlight' = inFlight \cup {Current(w)} /\ UNCHANGED posts
    /\ Answered(w, "retryable")
    /\ Fault
    /\ UNCHANGED <<started, committed, row, forum, bound>>

(* Only kicks have answers that no retry can mend. *)
RejectKick(w) ==
    /\ worker[w].at = "claimed"
    /\ Kind[Current(w)] = "EXECUTION_KICK"
    /\ Answered(w, "permanent")
    /\ Fault
    /\ UNCHANGED <<started, committed, row, forum, bound, posts, inFlight>>

(* Fault: an answer that does not come counts as success. *)
OptimisticSettlement(r, answer) ==
    CASE answer = "permanent" -> [row[r] EXCEPT !.state = "dead",
                                                !.attempts = @ + 1]
      [] OTHER                -> [row[r] EXCEPT !.state = "delivered"]

Settlement(r, answer) ==
    CASE answer = "accepted"  -> [row[r] EXCEPT !.state = "delivered"]
      [] answer = "permanent" -> [row[r] EXCEPT !.state = "dead",
                                                !.attempts = @ + 1]
      [] answer = "retryable" -> AttemptFailed(r)

(* The row is marked and the claiming transaction commits. *)
Settle(w) ==
    LET r == Current(w) IN
    /\ worker[w].at = "answered"
    /\ row' = [row EXCEPT ![r] = Settlement(r, worker[w].answer)]
    /\ Advances(w)
    /\ UNCHANGED <<started, committed, forum, bound, posts, inFlight, faults>>

(* The process or its connection dies: the claim dies with it. *)
Crash(w) ==
    /\ worker[w].at # "idle"
    /\ worker' = [worker EXCEPT ![w] = Idle]
    /\ Fault
    /\ UNCHANGED <<started, committed, row, forum, bound, posts, inFlight>>

-----------------------------------------------------------------------------
LateArrival(r) ==
    /\ r \in inFlight
    /\ posts' = Append(posts, r)
    /\ inFlight' = inFlight \ {r}
    /\ UNCHANGED <<started, committed, row, forum, bound, worker, faults>>

BackoffEnds(r) ==
    /\ Pending(r) /\ ~row[r].due
    /\ row' = [row EXCEPT ![r].due = TRUE]
    /\ UNCHANGED <<started, committed, forum, bound, worker, posts, inFlight,
                   faults>>

(* The operator's statement of migrations/0032_outbox_dead_letter.sql. *)
Requeue(r) ==
    /\ row[r].state = "dead" /\ ~Claimed(r)
    /\ row' = [row EXCEPT ![r] = [state |-> "pending", attempts |-> 0,
                                  due |-> TRUE]]
    /\ UNCHANGED <<started, committed, forum, bound, worker, posts, inFlight,
                   faults>>

-----------------------------------------------------------------------------
Init ==
    /\ started = [c \in Commands |-> 0]
    /\ committed = << >>
    /\ row = [r \in Rows |-> Absent]
    /\ forum = {} /\ bound = {}
    /\ worker = [w \in Workers |-> Idle]
    /\ posts = << >> /\ inFlight = {}
    /\ faults = 0

Pass(w) ==
    \/ \E kind \in Kinds : StartDrain(w, kind)
    \/ Prepare(w) \/ FindThread(w) \/ CreateThread(w) \/ SettleUnclaimed(w)
    \/ Claim(w) \/ Send(w) \/ Settle(w)

GoesWrong(w) ==
    ThreadUnavailable(w) \/ SendUnanswered(w) \/ RejectKick(w) \/ Crash(w)

Next ==
    \/ \E c \in Commands : Begin(c) \/ CommitCommand(c)
    \/ \E w \in Workers : Pass(w) \/ GoesWrong(w)
    \/ \E w \in Workers, i \in Instances : EnsurePendingBinding(w, i)
    \/ \E r \in Rows : LateArrival(r) \/ BackoffEnds(r) \/ Requeue(r)

Spec == Init /\ [][Next]_vars

(* Every loop keeps polling: a pass that fails or panics is contained and   *)
(* the next tick comes; and backoffs end.                                   *)
Fairness ==
    /\ \A w \in Workers : WF_vars(Pass(w))
    /\ \A r \in Rows : WF_vars(BackoffEnds(r))

FairSpec == Spec /\ Fairness
=============================================================================
