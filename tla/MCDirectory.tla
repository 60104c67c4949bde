----------------------------- MODULE MCDirectory -----------------------------
(***************************************************************************)
(* An operator who is the coordinator, the owner of a domain and the agent  *)
(* that is to succeed it, a human, and two more pairs of the last scope.    *)
(***************************************************************************)
EXTENDS DirectoryProperties, TLC

CONSTANTS op, o1, n1, hum, o2, n2, o3, n3, c1, c2, d1, d2, w1, w2

MCPrincipals == {op, o1, n1, hum, o2, n2, o3, n3}
MCDomains == {d1, d2}
Agent(e) == [kind |-> "AGENT", enabled |-> e, named |-> "auth"]
MCInitialRow == (op :> Agent(TRUE)) @@ (o1 :> Agent(TRUE)) @@ (n1 :> NoRow)
                @@ (o2 :> Agent(TRUE)) @@ (n2 :> NoRow) @@ (o3 :> Agent(TRUE)) @@ (n3 :> Agent(TRUE))
                @@ (hum :> [kind |-> "HUMAN", enabled |-> TRUE, named |-> "auth"])
MCInitialDomain == (d1 :> [key |-> "one", enabled |-> TRUE]) @@ (d2 :> NoDomain)
MCInitialBinding ==
  [x \in MCDomains \X MCPrincipals \X Roles |->
     IF x = <<d1, o1, "DOMAIN_OWNER">> THEN "on" ELSE "none"]

Job(o, p, d) == [op |-> o, p |-> p, d |-> d, role |-> "DOMAIN_OWNER", from |-> o1,
                 on |-> TRUE, kind |-> "AGENT", dkey |-> "one"]
Ask(a, k, j) == [actor |-> a, key |-> k, job |-> j]
MCRequests ==
  {Ask(op, "k1", Job("principal", n1, d1)),
   Ask(op, "k2", [Job("principal", n1, d1) EXCEPT !.on = FALSE]),
   Ask(n1, "k1", Job("principal", n1, d1)),
   Ask(n1, "k2", Job("self", n1, d1)),
   Ask(n1, "k3", [Job("principal", op, d1) EXCEPT !.on = FALSE]),
   Ask(op, "k3", [Job("domain", op, d1) EXCEPT !.on = FALSE]),
   Ask(op, "k4", [Job("create", op, d2) EXCEPT !.dkey = "two"]),
   Ask(op, "k4", Job("create", op, d2)),
   Ask(op, "k5", Job("bind", n1, d1)),
   Ask(op, "k5", [Job("bind", n1, d1) EXCEPT !.on = FALSE]),
   Ask(op, "k6", Job("unbind", n1, d1)),
   Ask(op, "k7", Job("global", n1, d1)),
   Ask(op, "k11", Job("unglobal", op, d1)),
   Ask(op, "k8", Job("replace", n1, d1)),
   Ask(op, "k9", Job("rename", op, d1)),
   Ask(op, "k10", Job("reconcile", n1, d1)),
   Ask(o1, "k1", Job("add", n1, d1)),
   Ask(o1, "k2", Job("remove", n1, d1))}

MCPairs == <<
  [old |-> o1, new |-> n1, scope |-> "Build",
   tuples |-> {<<d1, "DOMAIN_OWNER">>}, works |-> {w1}],
  [old |-> o2, new |-> n2, scope |-> "Remaining", tuples |-> {}, works |-> {w2}],
  [old |-> o3, new |-> n3, scope |-> "Remaining", tuples |-> {}, works |-> {}]>>
MCLines == {[from |-> o1, to |-> n1, agent |-> "a"]}
MCHolder == (w1 :> o1) @@ (w2 :> o2)
ClientSymmetry == Permutations({c1, c2})
=============================================================================
