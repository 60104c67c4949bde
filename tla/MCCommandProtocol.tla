-------------------------- MODULE MCCommandProtocol -------------------------
(***************************************************************************)
(* Requests for TLC, all to one instance at version 1:                      *)
(*   a      a transition on version 1                                       *)
(*   reuse  a different request under the key of a                          *)
(*   stop, halt  cancellations under different keys, without a version      *)
(*   wake   a wake on version 1, racing with a and the cancellations        *)
(***************************************************************************)
EXTENDS CommandProperties, TLC

CONSTANTS a, reuse, stop, halt, wake, none

MCKey == [c \in Clients |-> IF c = reuse THEN "key of a"
                            ELSE IF c = a THEN "key of a" ELSE c]
MCHash == [c \in Clients |-> c]
MCKind == [c \in Clients |-> IF c \in {stop, halt} THEN "CANCEL"
                             ELSE IF c = wake THEN "WAKE" ELSE "TRANSITION"]
MCExpected == [c \in Clients |-> IF c \in {stop, halt} THEN 0 ELSE 1]

Symmetry == Permutations(Workers)
=============================================================================
