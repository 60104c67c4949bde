------------------------------ MODULE Delivery ------------------------------
(***************************************************************************)
(* What the outbox promises the receivers of its rows.  There are no loops, *)
(* batches, thread bindings, claims or crashes here: a row is queued with   *)
(* its command, received, and confirmed once it was; it is received again   *)
(* only on account of something that went wrong, and the events of a thread *)
(* keep the order that was fixed when the later of two was queued.          *)
(***************************************************************************)
EXTENDS Naturals, Sequences, FiniteSets

CONSTANTS
    Commands, Rows,
    InstanceOf,         \* of each command
    CommandOf,          \* the command that queues each row
    Kind                \* outbox_kind of each row

VARIABLES
    standing,       \* of each row
    awaits,         \* of each command: those whose events come before its own
    posts,          \* what the receivers have accepted, in order
    lost,           \* requests given up that may still arrive
    faults          \* how many things have gone wrong

vars == <<standing, awaits, posts, lost, faults>>

Standings == {"absent", "owed", "deferred", "delivered", "dead"}

Received == {r \in Rows : \E i \in DOMAIN posts : posts[i] = r}

SameThread(q, r) ==
    /\ Kind[q] = "FORUM_EVENT" /\ Kind[r] = "FORUM_EVENT"
    /\ InstanceOf[CommandOf[q]] = InstanceOf[CommandOf[r]]

InTurn(r) ==
    \A q \in Rows :
        SameThread(q, r) /\ CommandOf[q] \in awaits[CommandOf[r]] => q \in Received

Becomes(r, how) == standing' = [standing EXCEPT ![r] = how]

-----------------------------------------------------------------------------
(* All rows of a command at once, and once; some of the commands queued     *)
(* before come before it in their thread, and that is settled for good.     *)
Queue(c) ==
    /\ \A r \in Rows : CommandOf[r] = c => standing[r] = "absent"
    /\ standing' = [r \in Rows |->
                      IF CommandOf[r] = c THEN "owed" ELSE standing[r]]
    /\ \E first \in SUBSET (Commands \ {c}) :
          /\ \A q \in Rows : CommandOf[q] \in first => standing[q] # "absent"
          /\ awaits' = [awaits EXCEPT ![c] = first]
    /\ UNCHANGED <<posts, lost, faults>>

(* The receiver accepts a row that is owed; its answer may be lost.  To     *)
(* accept it again takes a fault no other repetition or lost request has.   *)
Deliver(r) ==
    /\ standing[r] = "owed"
    /\ posts' = Append(posts, r) /\ faults' \in {faults, faults + 1}
    /\ InTurn(r)
    /\ r \in Received =>
          Len(posts) + Cardinality(lost) < Cardinality(Received) + faults'
    /\ UNCHANGED <<standing, awaits, lost>>

(* A request nobody waits for any more. *)
Lose(r) ==
    /\ standing[r] = "owed"
    /\ lost' = lost \cup {r} /\ faults' = faults + 1
    /\ InTurn(r)
    /\ UNCHANGED <<standing, awaits, posts>>

ArriveLate(r) ==
    /\ r \in lost
    /\ posts' = Append(posts, r) /\ lost' = lost \ {r}
    /\ UNCHANGED <<standing, awaits, faults>>

GoWrong ==
    /\ faults' = faults + 1
    /\ UNCHANGED <<standing, awaits, posts, lost>>

Confirm(r) ==
    /\ standing[r] = "owed" /\ r \in Received
    /\ Becomes(r, "delivered")
    /\ UNCHANGED <<awaits, posts, lost, faults>>

(* Only what went wrong puts a row off, and only a kick is given up. *)
Fail(r) ==
    /\ standing[r] \in {"owed", "deferred"} /\ faults > 0
    /\ \/ Becomes(r, "deferred")
       \/ Kind[r] = "EXECUTION_KICK" /\ Becomes(r, "dead")
    /\ UNCHANGED <<awaits, posts, lost, faults>>

Resume(r) ==
    /\ standing[r] \in {"deferred", "dead"}
    /\ Becomes(r, "owed")
    /\ UNCHANGED <<awaits, posts, lost, faults>>

-----------------------------------------------------------------------------
Init ==
    /\ standing = [r \in Rows |-> "absent"]
    /\ awaits = [c \in Commands |-> {}] /\ posts = << >> /\ lost = {} /\ faults = 0

Next ==
    \/ \E c \in Commands : Queue(c)
    \/ \E r \in Rows : \/ Deliver(r) \/ Lose(r) \/ ArriveLate(r)
                       \/ Confirm(r) \/ Fail(r) \/ Resume(r)
    \/ GoWrong

Spec == Init /\ [][Next]_vars
=============================================================================
