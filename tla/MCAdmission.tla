----------------------------- MODULE MCAdmission -----------------------------
(***************************************************************************)
(* Two agents, a legacy principal whose successor is the first of them, and *)
(* a human. One permit for the requests of both commands.                   *)
(***************************************************************************)
EXTENDS AdmissionProperties, TLC

CONSTANTS c1, c2

Agent1 == 1
Agent2 == 2
Legacy == 3
Human  == 4

MCPrincipals == {Agent1, Agent2, Legacy, Human}
MCCommands == {c1, c2}
MCKind == (Agent1 :> "AGENT") @@ (Agent2 :> "AGENT") @@ (Legacy :> "AGENT") @@ (Human :> "HUMAN")
MCAgentOf == (Agent1 :> "one") @@ (Agent2 :> "two") @@ (Legacy :> "legacy") @@ (Human :> "none")
MCEdges == {[from |-> Legacy, to |-> Agent1, agent |-> "one"]}
MCHistory == {Legacy}
MCJobs ==
  (c1 :> {[kind |-> "CREATE", assignee |-> Agent1, input |-> Agent2],
          [kind |-> "TRANSITION", assignee |-> Legacy, input |-> Absent],
          [kind |-> "RETURN", assignee |-> Legacy, input |-> Absent]}) @@
  (c2 :> {[kind |-> "CREATE", assignee |-> Human, input |-> Malformed],
          [kind |-> "REVISE", assignee |-> Absent, input |-> Agent2]})
=============================================================================
