----------------------------- MODULE ReplayFold -----------------------------
(***************************************************************************)
(* The fold of event_replay.rs, event by event, as the reference the        *)
(* declarative form in EventReplay is checked against.                      *)
(***************************************************************************)
EXTENDS EventReplay

(* Replay::new *)
ReplayStart ==
    [ok |-> TRUE, version |-> 0, visit |-> 0, context |-> 0,
     introduced |-> {}, cases |-> << >>]

(* The assistance state machine of apply_assistance. *)
ReplayedCases(s, e) ==
    LET is(status) == [visit |-> s.visit, status |-> status]
        with(status) == [c \in DOMAIN s.cases \cup {e.case} |->
                            IF c = e.case THEN is(status) ELSE s.cases[c]]
    IN  CASE e.type = "ASSISTANCE_REQUESTED"          -> with("OWNER_PENDING")
          [] e.type = "ASSISTANCE_ESCALATED_TO_HUMAN" -> with("HUMAN_REQUIRED")
          [] e.type = "ASSISTANCE_RESOLVED"           -> with("RESOLVED")
          [] OTHER                                    -> s.cases

(* apply(): the first event that is refused ends the replay. *)
ReplayStep(s, e, visits) ==
    IF ~s.ok \/ ~Accepts(s, e, visits)
    THEN [s EXCEPT !.ok = FALSE]
    ELSE [ok         |-> TRUE,
          version    |-> s.version + 1,
          visit      |-> IF e.type \in AssistanceTypes
                               \cup {"CONTEXT_REVISED"}
                         THEN s.visit ELSE e.target,
          context    |-> e.context,
          introduced |-> s.introduced \cup {e.target},
          cases      |-> ReplayedCases(s, e)]

Fold(events, visits) ==
    LET state[n \in 0..Len(events)] ==
            IF n = 0 THEN ReplayStart
            ELSE ReplayStep(state[n - 1], events[n], visits)
    IN  state[Len(events)]
=============================================================================
