-------------------------- MODULE CommandProtocol ---------------------------
(***************************************************************************)
(* How a state command becomes exactly one state change: concurrent request *)
(* handlers, each running one database transaction that inserts the command *)
(* receipt, locks the instance row, decides and commits, for clients that   *)
(* send the same request again until they hear an answer.                   *)
(*                                                                          *)
(* PostgreSQL is external.  What the code relies on is modelled: an INSERT  *)
(* on a key another transaction inserted waits until that transaction has   *)
(* ended, a row lock is held to the end of the transaction, a rolled back   *)
(* transaction leaves nothing, and a COMMIT whose answer is late may still  *)
(* take effect.                                                             *)
(***************************************************************************)
EXTENDS Naturals, Sequences, FiniteSets

CONSTANTS
    Clients, Key, Hash, Kind, Expected,     \* as in ExactlyOnce
    Workers,        \* bound: requests being handled at the same time
    NoClient,       \* the client of an idle worker
    MaxFaults       \* bound: lost answers, aborts and commit timeouts

Keys == {Key[c] : c \in Clients}

Kinds == {"TRANSITION", "CANCEL", "WAKE"}

ASSUME ClientsAssumption ==
    /\ Kind \in [Clients -> Kinds]
    /\ Expected \in [Clients -> Nat]
    /\ DOMAIN Key = Clients /\ DOMAIN Hash = Clients
    /\ NoClient \notin Clients
    /\ MaxFaults \in Nat

VARIABLES
    log,            \* committed events of the instance, one per version
    receipts,       \* committed workflow_command_receipts, by key
    tx,             \* the transaction each worker is in
    enabled,        \* principals.enabled of the callers' principal
    heard,          \* the answers each client has received
    faults          \* how many faults have happened

vars == <<log, receipts, tx, enabled, heard, faults>>

-----------------------------------------------------------------------------
Version    == Len(log) + 1
Done(kind) == \E i \in DOMAIN log : log[i].kind = kind

Idle == [at |-> "idle", client |-> NoClient, outcome |-> "none"]

Stages == {"idle", "received", "owner", "locked", "decided", "doubt"}

(* Transactions that hold the uncommitted receipt of a key, and the one     *)
(* that holds the instance row.                                             *)
Holding(k) == {w \in Workers : /\ tx[w].at \in {"owner", "locked", "decided",
                                                "doubt"}
                               /\ Key[tx[w].client] = k}
LockHolders == {w \in Workers : tx[w].at \in {"locked", "decided", "doubt"}}

NoReceipt  == [hash |-> "none", outcome |-> "none", version |-> 0]
Decided(k) == receipts[k].outcome # "none"

Decision(c, outcome, version) ==
    [hash |-> Hash[c], outcome |-> outcome, version |-> version]

Answer(outcome, version) == [outcome |-> outcome, version |-> version]

(* A server error tells a client nothing of its request: it sends again. *)
ServerError == Answer("error", 0)
Final(c)    == heard[c] \ {ServerError}

Hears(c, answer) == heard' = [heard EXCEPT ![c] = @ \cup {answer}]

Ends(w) == tx' = [tx EXCEPT ![w] = Idle]

Fault == faults < MaxFaults /\ faults' = faults + 1

-----------------------------------------------------------------------------
(* A client sends its request, again while it has heard no final answer.    *)
Send(w, c) ==
    /\ tx[w] = Idle
    /\ Final(c) = {}
    /\ tx' = [tx EXCEPT ![w] = [Idle EXCEPT !.at = "received", !.client = c]]
    /\ UNCHANGED <<log, receipts, enabled, heard, faults>>

(* INSERT ... ON CONFLICT DO NOTHING: returns once no other transaction     *)
(* holds the key, and inserts when no receipt is there.                     *)
AcquireReceipt(w) ==
    LET k == Key[tx[w].client] IN
    /\ tx[w].at = "received"
    /\ Holding(k) = {}
    /\ ~Decided(k)
    /\ tx' = [tx EXCEPT ![w].at = "owner"]
    /\ UNCHANGED <<log, receipts, enabled, heard, faults>>

(* Fault: the request hash is not compared. *)
ReplayAnyRequest(c, receipt) == Answer(receipt.outcome, receipt.version)

(* What a receipt answers to a request that finds it.  The wake's replay    *)
(* reads every body stored with status 200 as that of an applied wake, so   *)
(* a no-op's, stored with the same status, ends in a server error.          *)
ReplayedAnswer(c, receipt) ==
    CASE receipt.hash # Hash[c]     -> Answer("conflict", 0)
      [] receipt.hash = Hash[c] /\ receipt.outcome = "noop" ->
             ServerError
      [] OTHER -> Answer(receipt.outcome, receipt.version)

(* Fault: only a success can be replayed. *)
ReplayOnlySuccess(w) ==
    LET c == tx[w].client IN
    /\ tx[w].at = "received"
    /\ Holding(Key[c]) = {}
    /\ receipts[Key[c]].outcome = "done"
    /\ Hears(c, ReplayedAnswer(c, receipts[Key[c]]))
    /\ Ends(w)
    /\ UNCHANGED <<log, receipts, enabled, faults>>

ReplayReceipt(w) ==
    LET c == tx[w].client IN
    /\ tx[w].at = "received"
    /\ Holding(Key[c]) = {}
    /\ Decided(Key[c])
    /\ Hears(c, ReplayedAnswer(c, receipts[Key[c]]))
    /\ Ends(w)
    /\ UNCHANGED <<log, receipts, enabled, faults>>

(* The wake reads principals.enabled before it locks and, when disabled,    *)
(* returns its error without committing the receipt it completed.           *)
RefuseDisabledWake(w) ==
    /\ tx[w].at = "owner" /\ Kind[tx[w].client] = "WAKE"
    /\ ~enabled
    /\ Hears(tx[w].client, Answer("refused", 0))
    /\ Ends(w)
    /\ UNCHANGED <<log, receipts, enabled, faults>>

(* Fault: the instance is read without FOR UPDATE. *)
ReadWithoutLock(w) ==
    /\ tx[w].at = "owner"
    /\ Kind[tx[w].client] = "WAKE" => enabled
    /\ tx' = [tx EXCEPT ![w].at = "locked"]
    /\ UNCHANGED <<log, receipts, enabled, heard, faults>>

(* SELECT ... FOR UPDATE on the instance row. *)
LockInstance(w) ==
    /\ tx[w].at = "owner"
    /\ Kind[tx[w].client] = "WAKE" => enabled
    /\ LockHolders = {}
    /\ tx' = [tx EXCEPT ![w].at = "locked"]
    /\ UNCHANGED <<log, receipts, enabled, heard, faults>>

(* The checks on the locked row and, for transitions and cancellations, on  *)
(* the caller.                                                              *)
Outcome(c) ==
    CASE Kind[c] = "TRANSITION" ->
             IF Expected[c] = Version /\ ~Done("CANCEL") /\ enabled
             THEN "done" ELSE "refused"
      [] Kind[c] = "CANCEL" -> IF enabled THEN "done" ELSE "refused"
      [] Kind[c] = "WAKE"   ->
             IF /\ Expected[c] = Version
                /\ ~Done("CANCEL") /\ ~Done("WAKE")
             THEN "done" ELSE "noop"

CancelsAgain(c) == Kind[c] = "CANCEL" /\ enabled /\ Done("CANCEL")

Decide(w) ==
    /\ tx[w].at = "locked"
    /\ ~CancelsAgain(tx[w].client)
    /\ tx' = [tx EXCEPT ![w].at = "decided",
                        ![w].outcome = Outcome(tx[w].client)]
    /\ UNCHANGED <<log, receipts, enabled, heard, faults>>

(* Cancelling a closed instance is refused by rolling back, without a       *)
(* receipt.                                                                 *)
RefuseClosed(w) ==
    /\ tx[w].at = "locked"
    /\ CancelsAgain(tx[w].client)
    /\ Hears(tx[w].client, Answer("refused", 0))
    /\ Ends(w)
    /\ UNCHANGED <<log, receipts, enabled, faults>>

(* The transaction takes effect: the receipt is completed and, on success,  *)
(* the version and the event are written.                                   *)
ResultVersion(w) == IF tx[w].outcome = "done" THEN Version + 1 ELSE 0

TakesEffect(w) ==
    LET c == tx[w].client IN
    /\ receipts' = [receipts EXCEPT ![Key[c]] =
                       Decision(c, tx[w].outcome, ResultVersion(w))]
    /\ log' = IF tx[w].outcome = "done"
              THEN Append(log, [key |-> Key[c], hash |-> Hash[c],
                                kind |-> Kind[c], expected |-> Expected[c]])
              ELSE log

(* Fault: the receipt is completed before the decision is taken. *)
CommitUndecided(w) ==
    /\ tx[w].at \in {"locked", "decided"}
    /\ TakesEffect(w)
    /\ Hears(tx[w].client, Answer(tx[w].outcome, ResultVersion(w)))
    /\ Ends(w)
    /\ UNCHANGED <<enabled, faults>>

Commit(w) ==
    /\ tx[w].at = "decided"
    /\ TakesEffect(w)
    /\ Hears(tx[w].client, Answer(tx[w].outcome, ResultVersion(w)))
    /\ Ends(w)
    /\ UNCHANGED <<enabled, faults>>

(* The same, and the answer never reaches the client. *)
CommitAnswerLost(w) ==
    /\ tx[w].at = "decided"
    /\ TakesEffect(w)
    /\ Ends(w)
    /\ Fault
    /\ UNCHANGED <<enabled, heard>>

(* A transition's COMMIT outlives the admission budget: the client hears    *)
(* CommitOutcomeUnknown, which answers nothing, and the database decides.   *)
CommitTimesOut(w) ==
    /\ tx[w].at = "decided" /\ Kind[tx[w].client] = "TRANSITION"
    /\ tx[w].outcome = "done"
    /\ tx' = [tx EXCEPT ![w].at = "doubt"]
    /\ Fault
    /\ UNCHANGED <<log, receipts, enabled, heard>>

DoubtCommits(w) ==
    /\ tx[w].at = "doubt"
    /\ TakesEffect(w)
    /\ Ends(w)
    /\ UNCHANGED <<enabled, heard, faults>>

DoubtRollsBack(w) ==
    /\ tx[w].at = "doubt"
    /\ Ends(w)
    /\ UNCHANGED <<log, receipts, enabled, heard, faults>>

(* A storage error, a lost connection or a crash of the process: the        *)
(* transaction leaves nothing and the client hears nothing final.           *)
RollBack(w) ==
    /\ tx[w].at \in {"received", "owner", "locked", "decided"}
    /\ Ends(w)
    /\ Fault
    /\ UNCHANGED <<log, receipts, enabled, heard>>

(* An administrator disables the principal, or enables it again. *)
ChangePrincipal ==
    /\ Fault
    /\ enabled' = ~enabled
    /\ UNCHANGED <<log, receipts, tx, heard>>

-----------------------------------------------------------------------------
Init ==
    /\ log = << >>
    /\ receipts = [k \in Keys |-> NoReceipt]
    /\ tx = [w \in Workers |-> Idle]
    /\ enabled = TRUE
    /\ heard = [c \in Clients |-> {}]
    /\ faults = 0

Handle(w) ==
    \/ AcquireReceipt(w) \/ ReplayReceipt(w)
    \/ RefuseDisabledWake(w) \/ LockInstance(w)
    \/ Decide(w) \/ RefuseClosed(w) \/ Commit(w)
    \/ DoubtCommits(w) \/ DoubtRollsBack(w)

GoesWrong(w) == CommitAnswerLost(w) \/ CommitTimesOut(w) \/ RollBack(w)

Next ==
    \/ \E w \in Workers : Handle(w) \/ GoesWrong(w)
    \/ \E w \in Workers, c \in Clients : Send(w, c)
    \/ ChangePrincipal

Spec == Init /\ [][Next]_vars

(* A handler keeps running; a transaction that waits for a key or for the   *)
(* row is served in turn, because PostgreSQL queues the waiters; a client   *)
(* that has heard nothing final sends again.                                *)
Fairness ==
    /\ \A w \in Workers : SF_vars(Handle(w))
    /\ \A c \in Clients : SF_vars(\E w \in Workers : Send(w, c))

FairSpec == Spec /\ Fairness
=============================================================================
