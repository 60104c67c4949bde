---------------------------- MODULE MCTokenVerifier ----------------------------
(***************************************************************************)
(* Two key ids, two requests, the start-up fetch and the readiness probe. A *)
(* cache lives one unit, a fetch takes at most one, a token lives one.      *)
(***************************************************************************)
EXTENDS VerifierProperties, TLC

CONSTANTS k1, k2, r1, r2, eager, probe, nobody

Machine(kid, iat, exp) ==
  [kid |-> kid, use |-> "access", principalType |-> "agent", client |-> "agent-fleet",
   sub |-> "bot", act |-> "", scope |-> <<"workflow.read">>, iat |-> iat, nbf |-> iat, exp |-> exp]

\* r1 comes with an ordinary token or one that would live too long, r2 with one
\* that is issued when its key may be withdrawn already, or a delegated one.
MCPresents ==
  (r1 :> {Machine(k1, 0, 1), Machine(k1, 0, 3)}) @@
  (r2 :> {Machine(k1, 2, 3),
          [Machine(k2, 1, 2) EXCEPT !.use = "workflow_obo", !.act = "deputy"]})
MCKids == {k1, k2}
MCRequests == {r1, r2}
=============================================================================
