---------------------------- MODULE MCDefinitions ----------------------------
(***************************************************************************)
(* Two definitions of up to two versions, two clients; and the graphs of up  *)
(* to four nodes the validators are tried on.                               *)
(***************************************************************************)
EXTENDS DefinitionProperties, TLC

CONSTANTS c1, c2

Adv(a, b) == [from |-> a, to |-> b, effect |-> "ADVANCE"]
Ret(a, b) == [from |-> a, to |-> b, effect |-> "RETURN"]

Graph(kind, who, edges, primary) ==
  [EmptyGraph EXCEPT !.kind = kind, !.who = who, !.edges = edges, !.primary = primary,
                     !.producer = [n \in DOMAIN kind |-> NoNode]]

LegacyKind == 1 :> "DRAFT" @@ 2 :> "NORMAL" @@ 3 :> "TERMINAL"
LegacyWho == 1 :> "creator" @@ 2 :> "owner" @@ 3 :> "none"
TaskKind == 1 :> "TASK" @@ 2 :> "TASK" @@ 3 :> "TERMINAL"
TaskWho == 1 :> "creator" @@ 2 :> "owner" @@ 3 :> "none"
Line == 1 :> Adv(1, 2) @@ 2 :> Adv(2, 3) @@ 3 :> NoEdge
LineEdges == {Adv(1, 2), Adv(2, 3), Ret(2, 1)}

Plain == Graph(LegacyKind, LegacyWho, LineEdges, Line)
\* Node 2 is worked on by whom the context names, and reads from it.
Asking == [Plain EXCEPT !.declares = {2}, !.who = 1 :> "creator" @@ 2 :> "input" @@ 3 :> "none"]
Round == [Plain EXCEPT !.edges = @ \cup {Adv(2, 1)}, !.primary[2] = Adv(2, 1)]
Tasks == Graph(TaskKind, TaskWho, LineEdges, Line)
Pointing == [Tasks EXCEPT !.targets = {<<"e", 1>>}]
\* Node 2 waits for what node 1 produces.
Producing == [Tasks EXCEPT !.role = "review", !.slots = {1, 2},
                           !.producer = 1 :> NoNode @@ 2 :> 1 @@ 3 :> NoNode]
\* An annotation that replace does not look at.
Misbound == [Plain EXCEPT !.bound = {Adv(1, 2)}]

Start == [NoRequest EXCEPT !.op = "create", !.d = "d", !.key = "k1"]
Draft(k, m) == [NoRequest EXCEPT !.op = "draft", !.d = "d", !.key = k, !.model = m]
Put(k, v, g, p) ==
  [NoRequest EXCEPT !.op = "replace", !.key = k, !.v = v, !.graph = g, !.patch = p]
Issue(k, v) == [NoRequest EXCEPT !.op = "publish", !.key = k, !.v = v]
Shelve(k, d) == [NoRequest EXCEPT !.op = "archive", !.key = k, !.d = d]

\* d: nothing yet, or a Legacy draft; e: a published version and a draft beside
\* it, both of model 3.
Nothing == [defs |-> [d \in DefinitionIds |-> "none"], version |-> [v \in Versions |-> NoVersion]]
Published(m, x) ==
  [NoVersion EXCEPT !.status = "PUBLISHED", !.model = m, !.content = x, !.digest = x, !.edits = 1]
Empty(m) == [NoVersion EXCEPT !.status = "DRAFT", !.model = m]
Legacy1 == [defs |-> ("d" :> "live" @@ Nothing.defs),
            version |-> (<<"d", 1>> :> Empty(1) @@ Nothing.version)]
Tasks2 == [defs |-> ("e" :> "live" @@ Nothing.defs),
           version |-> (<<"e", 1>> :> Published(3, [graph |-> Tasks, schema |-> "none"])
                        @@ <<"e", 2>> :> Empty(3) @@ Nothing.version)]
MCStored == {Nothing, Legacy1, Tasks2}

LegacyRequests ==
  {Start, Draft("k2", 1), Draft("k2", 3), Draft("k3", 1), [Draft("k4", 1) EXCEPT !.bad = TRUE], Shelve("k5", "d"),
   Put("k6", <<"d", 1>>, Plain, "keep"), Put("k6", <<"d", 1>>, Misbound, "keep"),
   Put("k7", <<"d", 1>>, Asking, "requires"), Put("k7", <<"d", 1>>, Asking, "open"), Put("k7", <<"d", 1>>, Round, "keep"),
   [Issue("k8", <<"d", 1>>) EXCEPT !.expected = [graph |-> Plain, schema |-> "none"]]}
TaskRequests ==
  {Put("k9", <<"e", 2>>, Pointing, "keep"), Shelve("k11", "e"), Issue("k12", <<"e", 2>>),
   [Put("k10", <<"e", 2>>, Producing, "keep") EXCEPT !.read = 1]}

MCRequests == LegacyRequests \cup TaskRequests
CyclicRequests == {Put("k6", <<"d", 1>>, Round, "keep"), Put("k7", <<"d", 1>>, Plain, "keep")}
AllKeys == {"k1", "k2", "k3", "k4", "k5", "k6", "k7", "k8", "k9", "k10", "k11", "k12"}
Symmetry == Permutations({c1, c2})
=============================================================================
