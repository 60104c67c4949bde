-------------------------- MODULE CommandProperties -------------------------
(***************************************************************************)
(* What CommandProtocol has to satisfy.                                     *)
(***************************************************************************)
EXTENDS CommandProtocol

Outcomes == {"done", "refused", "noop"}

Change == [key : Keys, hash : {Hash[c] : c \in Clients}, kind : Kinds,
           expected : Nat]

Receipt == [hash : {Hash[c] : c \in Clients}, outcome : Outcomes, version : Nat]

Transaction == [at : Stages, client : Clients \cup {NoClient},
                outcome : Outcomes \cup {"none"}]

FinalAnswer == [outcome : Outcomes \cup {"conflict"}, version : Nat]

(* The tables hold decided receipts only: one that is still PROCESSING is   *)
(* never visible to another transaction.                                    *)
TypeOK ==
    /\ log \in Seq(Change)
    /\ receipts \in [Keys -> Receipt \cup {NoReceipt}]
    /\ tx \in [Workers -> Transaction]
    /\ \A w \in Workers : tx[w].at # "idle" => tx[w].client \in Clients
    /\ enabled \in BOOLEAN
    /\ heard \in [Clients -> SUBSET (FinalAnswer \cup {ServerError})]
    /\ faults \in 0..MaxFaults

-----------------------------------------------------------------------------
Promise == INSTANCE ExactlyOnce

(* Whatever is sent again, answered late, aborted or left in doubt, a key   *)
(* is decided once and atomically, on a version nobody has overtaken: the   *)
(* receipt insert and the row lock of the handlers implement ExactlyOnce.   *)
ImplementsExactlyOnce == Promise!Spec

(* The client's own request is on record as a wake that came too late, with *)
(* an outcome that the wake's replay cannot read back.                      *)
UnreadableNoop(c) ==
    receipts[Key[c]].hash = Hash[c] /\ receipts[Key[c]].outcome = "noop"

(* A success names the state change its own request made, a conflict means  *)
(* another request holds the key, a transition that was refused has its     *)
(* refusal on record, and a no-op, or the server error told in its place,   *)
(* has the no-op on record.                                                 *)
AnswerRecorded(c, a) ==
    LET receipt == receipts[Key[c]] IN
    /\ a.outcome = "done" =>
          /\ a.version - 1 \in DOMAIN log
          /\ log[a.version - 1].key = Key[c]
          /\ log[a.version - 1].hash = Hash[c]
    /\ a.outcome = "conflict" => receipt.hash # Hash[c]
    /\ a.outcome = "refused" /\ Kind[c] = "TRANSITION" =>
          receipt.outcome = "refused" /\ receipt.hash = Hash[c]
    /\ a.outcome \in {"noop", "error"} => UnreadableNoop(c)

(* What a client was told stays true wherever in the races of retries and   *)
(* restarts it was told.  A transition or cancellation that was refused     *)
(* never takes effect afterwards, not through a duplicate in flight nor     *)
(* through a retry: a recorded refusal is replayed, and the reasons for an  *)
(* unrecorded one (cancel of a closed instance) do not go away.             *)
AnswersAreOnRecord ==
    \A c \in Clients : \A a \in heard[c] :
        /\ AnswerRecorded(c, a)
        /\ a.outcome = "refused" /\ Kind[c] # "WAKE" =>
              ~\E i \in DOMAIN log :
                  log[i].key = Key[c] /\ log[i].hash = Hash[c]

(* Every client hears a final answer in the end: no handler waits for a key *)
(* or for the row for ever, a transaction in doubt releases what it holds,  *)
(* and a retry is told what its receipt says.  A server error is no final   *)
(* answer.  The one request that may never hear more is a wake whose no-op  *)
(* is on record (wake_transaction.rs:223-228): ReplaysTheOutcome is about   *)
(* it.                                                                      *)
EveryRequestAnswered ==
    \A c \in Clients : <>(Final(c) # {} \/ UnreadableNoop(c))

(* Documented: a wake with the same principal, key and request replays the  *)
(* original outcome (SVC_WORKFLOW_VISIT_ACTIVATION_IMPL_V3.md:309), so a    *)
(* client whose own request is on record is not told of a server error.     *)
ReplaysTheOutcome ==
    \A c \in Clients :
        receipts[Key[c]].hash = Hash[c] => ServerError \notin heard[c]
=============================================================================
