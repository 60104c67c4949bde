---------------------------- MODULE ExactlyOnce -----------------------------
(***************************************************************************)
(* What the command receipts promise: an idempotency key is decided at      *)
(* most once, in one step, on the state of that moment, and everything the  *)
(* command writes is written in that step.  There are no transactions,      *)
(* retries or lost answers here.                                            *)
(***************************************************************************)
EXTENDS Naturals, Sequences

CONSTANTS
    Clients,        \* the requests: who sends what under which key
    Key, Hash,      \* [Clients -> ...]: idempotency key and request hash
    Kind,           \* [Clients -> {"TRANSITION", "CANCEL", "WAKE"}]
    Expected        \* [Clients -> Nat]: expectedWorkflowStateVersion

VARIABLES
    log,            \* the state changes of one instance, one per version
    receipts        \* [key -> the decision, or NoReceipt]

Keys == {Key[c] : c \in Clients}

Version   == Len(log) + 1
Done(kind) == \E i \in DOMAIN log : log[i].kind = kind

(* The fences, decided on the current state. *)
Fits(c) ==
    CASE Kind[c] = "TRANSITION" -> Expected[c] = Version /\ ~Done("CANCEL")
      [] Kind[c] = "CANCEL"     -> ~Done("CANCEL")
      [] Kind[c] = "WAKE"       -> /\ Expected[c] = Version
                                   /\ ~Done("CANCEL") /\ ~Done("WAKE")

NoReceipt == [hash |-> "none", outcome |-> "none", version |-> 0]

Decision(c, outcome, version) ==
    [hash |-> Hash[c], outcome |-> outcome, version |-> version]

Decide(c, outcome, version) ==
    /\ receipts[Key[c]].outcome = "none"
    /\ receipts' = [receipts EXCEPT ![Key[c]] = Decision(c, outcome, version)]

Change(c) == [key |-> Key[c], hash |-> Hash[c], kind |-> Kind[c],
              expected |-> Expected[c]]

Accept(c) ==
    /\ Fits(c)
    /\ Decide(c, "done", Version + 1)
    /\ log' = Append(log, Change(c))

(* The caller is refused, on the state or for reasons of its own. *)
Refuse(c) ==
    /\ Kind[c] # "WAKE"
    /\ Decide(c, "refused", 0)
    /\ UNCHANGED log

(* A wake that finds nothing to do is a success that changes nothing. *)
Ignore(c) ==
    /\ Kind[c] = "WAKE" /\ ~Fits(c)
    /\ Decide(c, "noop", 0)
    /\ UNCHANGED log

Init == log = << >> /\ receipts = [k \in Keys |-> NoReceipt]

Next == \E c \in Clients : Accept(c) \/ Refuse(c) \/ Ignore(c)

Spec == Init /\ [][Next]_<<log, receipts>>
=============================================================================
