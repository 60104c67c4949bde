--------------------------- MODULE DirectoryProofs ---------------------------
(***************************************************************************)
(* Theorems about the directory and the programs that rewrite it, for any   *)
(* principals, domains, clients, requests, stored tables and plans.         *)
(***************************************************************************)
EXTENDS DirectoryProperties, FiniteSetTheorems, TLAPS

-----------------------------------------------------------------------------
(* The inductive invariant.                                                 *)

DomainShape == [key : DomainKeys, enabled : BOOLEAN]
Triples == Domains \X Principals \X Roles
Owns(d, p) == binding[<<d, p, "DOMAIN_OWNER">>] = "on"
Exists(d) == domain[d] # NoDomain

Rows == row \in [Principals -> RowShape] /\ \A p \in Principals : row[p].kind = "NONE" => row[p] = NoRow
Bindings == binding \in [Triples -> States] /\ coordinator \in [Principals -> States]

(* The keys of existing domains are distinct. *)
Keyed ==
  /\ domain \in [Domains -> DomainShape \cup {NoDomain}]
  /\ \A d, e \in Domains : d # e /\ Exists(d) => domain[d].key # domain[e].key

(* One owner at most, and none before there is a domain. *)
Sole == \A d \in Domains, p \in Principals :
          Owns(d, p) => Exists(d) /\ \A q \in Principals : Owns(d, q) => q = p

Tables == Rows /\ Bindings /\ Keyed /\ Sole

Clerk(c) ==
  /\ phase[c] \in {"idle", "asked", "gated", "looked"}
  /\ phase[c] = "idle" => request[c] = NoRequest
  /\ phase[c] # "idle" => request[c] \in Requests
  /\ phase[c] = "looked" => request[c].job.op = "add"

Clerks ==
  /\ request = [c \in Clients |-> request[c]] /\ phase = [c \in Clients |-> phase[c]]
  /\ \A c \in Clients : Clerk(c)

(* A receipt decides its key for good, and what was told is in a receipt. *)
Decides(r, a) == [actor |-> r.actor, key |-> r.key, job |-> r.job, answer |-> a]
Books ==
  /\ \A x \in receipts : /\ x = Decides(x, x.answer)
                         /\ x.job.op \in Ops /\ x.answer \in Known(x.job.op) \cup Successes
  /\ \A x, y \in receipts : x.actor = y.actor /\ x.key = y.key => x = y
  /\ \A t \in told : /\ t = [req |-> t.req, answer |-> t.answer]
                     /\ t.req \in Requests /\ Decides(t.req, t.answer) \in receipts

(* A command that looks at its target holds its key. *)
SameKey(b, c) == request[b].actor = request[c].actor /\ request[b].key = request[c].key
Reserved ==
  \A c \in Clients : phase[c] = "looked" =>
    /\ \A x \in receipts : x.actor # request[c].actor \/ x.key # request[c].key
    /\ \A b \in Clients \ {c} : phase[b] = "looked" => ~SameKey(b, c)

Desk == Clerks /\ Books /\ Reserved

(* An instance that was handed over by a program has left its first version. *)
Tracked(i) ==
  /\ work[i] = [version |-> work[i].version, holder |-> work[i].holder, live |-> work[i].live,
                assisted |-> work[i].assisted, by |-> work[i].by]
  /\ work[i].version \in 1..MaxVersion /\ handed[i] \in 0..1 /\ handed[i] < work[i].version

Plans ==
  /\ work = [i \in Works |-> work[i]] /\ handed = [i \in Works |-> handed[i]]
  /\ \A i \in Works : Tracked(i)

(* A pair or a group that was committed has its summary before it is looked   *)
(* at again.                                                                 *)
Running ==
  /\ run = [program |-> run.program, scope |-> run.scope, k |-> run.k,
            stage |-> run.stage, commit |-> run.commit]
  /\ run.program \in {"none", "cutover", "human"} /\ run.stage \in {"idle", "apply", "reread"}
  /\ run.program = "cutover" => /\ run.k \in DOMAIN Pairs
                                /\ run.stage = "reread" /\ Wrote => run.k \in summary
  /\ run.program = "human" /\ Wrote => HumanRun \in summary

True(r) ==
  /\ r.outcome \in Outcomes
  /\ r.outcome \in {"NOOP", "COMMITTED", "APPLIED"} => r.done
  /\ r.outcome = "ROLLED_BACK" => ~r.wrote
  /\ r.wrote => r.done

Ledger == summary \subseteq RunIds /\ \A r \in reports : True(r)

(* What a reviewed plan saw of the principals of its lines. *)
Drawn ==
  /\ lineage \subseteq Lines
  /\ reviewed # << >> => \A l \in Lines :
       /\ reviewed[1].rows[l.from].kind # "NONE"
       /\ reviewed[1].rows[l.to].kind = "AGENT" /\ reviewed[1].rows[l.to].enabled = TRUE

Programs == Plans /\ Running /\ Ledger /\ Drawn

IInv == Tables /\ Desk /\ Programs

-----------------------------------------------------------------------------
(* What a step may do: the bodies of the action properties.                 *)

New == receipts' \ receipts

OwnersPass == \A d \in Domains :
  Owners(d) # {} => Owners(d)' # {} \/ \E x \in New : TakesAway(x, d)
Authorized == \A x \in New : x.job.op \in CoordinatorOps /\ x.answer \in Successes
                               => Enabled(x.actor) /\ coordinator[x.actor] = "on"
Woken == \A p \in Principals :
  Present(p) /\ ~Enabled(p) /\ Enabled(p)' =>
    \E x \in New : x.job.op = "principal" /\ x.job.p = p /\ x.actor # p /\ Enabled(x.actor)
LinesGrow ==
  /\ lineage \subseteq lineage'
  /\ \A l \in lineage' \ lineage : /\ Enabled(l.to) /\ row[l.to].kind = "AGENT" /\ Present(l.from)
                                   /\ \A m \in lineage' : m.from = l.from => m = l

Good == OwnersPass /\ Authorized /\ Woken /\ LinesGrow

Exact ==
  /\ \A k \in DOMAIN Pairs : k \in summary' \ summary => PairTerminal(k)'
  /\ HumanRun \in summary' \ summary => RowsExact'

(* A domain keeps its owner, passes it on, or loses it by name. *)
Passes(d, p) == Owns(d, p)' /\ Exists(d)' /\ \A q \in Principals : Owns(d, q)' => q = p
OwnerStep(d) ==
  \/ \A p \in Principals : Owns(d, p)' <=> Owns(d, p)
  \/ \E p \in Principals : Passes(d, p)
  \/ (\A p \in Principals : Owns(d, p)' => Owns(d, p)) /\ \E x \in New : TakesAway(x, d)

LEMMA OwnersStep ==
  ASSUME Sole, \A d \in Domains : OwnerStep(d), \A d \in Domains : Exists(d) => Exists(d)'
  PROVE  Sole' /\ OwnersPass
  <1>1. ASSUME NEW d \in Domains, NEW p \in Principals, Owns(d, p)'
        PROVE  Exists(d)' /\ \A q \in Principals : Owns(d, q)' => q = p
    BY <1>1 DEF OwnerStep, Passes, Sole
  <1>2. ASSUME NEW d \in Domains, Owners(d) # {}
        PROVE  Owners(d)' # {} \/ \E x \in New : TakesAway(x, d)
    <2>1. PICK p \in Principals : Owns(d, p)
      BY <1>2 DEF Owners, HasRole, Owns
    <2>2. (\E q \in Principals : Owns(d, q)') \/ \E x \in New : TakesAway(x, d)
      BY <2>1 DEF OwnerStep, Passes
    <2> QED
      BY <2>2 DEF Owners, HasRole, Owns
  <1> QED
    BY <1>1, <1>2 DEF Sole, OwnersPass

LEMMA TablesRest ==
  ASSUME Tables, UNCHANGED tables
  PROVE  Tables' /\ OwnersPass /\ Woken
  <1>1. row' = row /\ domain' = domain /\ binding' = binding /\ coordinator' = coordinator
    BY DEF tables
  <1>2. Tables'
    BY <1>1 DEF Tables, Rows, Bindings, Keyed, Sole, Owns, Exists
  <1>3. OwnersPass
    BY <1>1 DEF OwnersPass, Owners, HasRole
  <1>4. Woken
    BY <1>1 DEF Woken, Enabled, Present
  <1> QED
    BY <1>2, <1>3, <1>4

LEMMA DeskRest ==
  ASSUME Desk, UNCHANGED <<request, phase, receipts, told>>
  PROVE  Desk' /\ Authorized
  <1>1. Clerks'
    BY DEF Desk, Clerks, Clerk
  <1>2. Books'
    BY DEF Desk, Books
  <1>3. Reserved'
    BY DEF Desk, Reserved, SameKey
  <1> QED
    BY <1>1, <1>2, <1>3 DEF Desk, Authorized, New

LEMMA ProgramsRest ==
  ASSUME Programs, UNCHANGED programs
  PROVE  Programs' /\ LinesGrow
  <1>1. Plans' /\ Ledger' /\ Drawn'
    BY DEF Programs, programs, Plans, Tracked, Ledger, Drawn
  <1>2. Running'
    BY DEF Programs, programs, Running, Wrote
  <1> QED
    BY <1>1, <1>2 DEF Programs, programs, LinesGrow

-----------------------------------------------------------------------------
(* The clients and the receipts.                                            *)

LEMMA NoRequestIsNone == NoRequest \notin Requests
  BY DirectoryAssumption DEF NoRequest, Ops, ProvisioningOps, CoordinatorOps, MemberOps

(* One client's command changed. *)
Only(c) ==
  /\ request' = [b \in Clients |-> request'[b]] /\ phase' = [b \in Clients |-> phase'[b]]
  /\ \A b \in Clients \ {c} : request'[b] = request[b] /\ phase'[b] = phase[b]

LEMMA ClerksStep ==
  ASSUME Clerks, NEW c \in Clients, Only(c), Clerk(c)'
  PROVE  Clerks'
  <1>1. \A b \in Clients : Clerk(b)'
    BY DEF Clerks, Only, Clerk
  <1> QED
    BY <1>1 DEF Clerks, Only

LEMMA CloseClerk ==
  ASSUME Clerks, NEW c \in Clients, Close(c)
  PROVE  Only(c) /\ Clerks' /\ phase'[c] = "idle"
  <1>1. Only(c) /\ phase'[c] = "idle" /\ request'[c] = NoRequest
    BY DEF Clerks, Close, Only
  <1>2. Clerk(c)'
    BY <1>1 DEF Clerk
  <1> QED
    BY <1>1, <1>2, ClerksStep

LEMMA MoveClerk ==
  ASSUME Clerks, NEW c \in Clients, phase[c] # "idle", NEW s \in {"gated", "looked"},
         phase' = [phase EXCEPT ![c] = s], request' = request,
         s = "looked" => request[c].job.op = "add"
  PROVE  Only(c) /\ Clerks' /\ phase'[c] = s /\ request'[c] = request[c]
  <1>1. Only(c) /\ phase'[c] = s /\ request'[c] = request[c] /\ request[c] \in Requests
    BY DEF Clerks, Clerk, Only
  <1>2. Clerk(c)'
    BY <1>1 DEF Clerk
  <1> QED
    BY <1>1, <1>2, ClerksStep

(* Keys stay reserved: nobody else begins to look, and a receipt is added    *)
(* only by who has its key to itself.                                        *)
LEMMA ReservedStep ==
  ASSUME Reserved, NEW c \in Clients, Only(c), phase'[c] # "looked",
         \A x \in New : /\ x.actor = request[c].actor /\ x.key = request[c].key
                        /\ phase[c] = "looked" \/ ~ReceiptHeld(c)
  PROVE  Reserved'
  <1> SUFFICES ASSUME NEW b \in Clients, phase'[b] = "looked"
               PROVE  /\ \A x \in receipts' : x.actor # request'[b].actor \/ x.key # request'[b].key
                      /\ \A d \in Clients \ {b} : phase'[d] = "looked" =>
                           ~(request'[d].actor = request'[b].actor /\ request'[d].key = request'[b].key)
    BY DEF Reserved, SameKey
  <1>1. b # c /\ phase[b] = "looked" /\ request'[b] = request[b]
    BY DEF Only
  <1>2. ASSUME NEW x \in receipts' PROVE x.actor # request[b].actor \/ x.key # request[b].key
    <2>1. CASE x \in receipts
      BY <1>1, <2>1 DEF Reserved
    <2>2. CASE x \in New
      BY <1>1, <2>2 DEF Reserved, SameKey, ReceiptHeld, actor
    <2> QED
      BY <1>2, <2>1, <2>2 DEF New
  <1>3. ASSUME NEW d \in Clients \ {b}, phase'[d] = "looked"
        PROVE  ~(request'[d].actor = request[b].actor /\ request'[d].key = request[b].key)
    <2>1. d # c /\ phase[d] = "looked" /\ request'[d] = request[d]
      BY <1>3 DEF Only
    <2> QED
      BY <1>1, <2>1 DEF Reserved, SameKey
  <1> QED
    BY <1>1, <1>2, <1>3

LEMMA LookReserved ==
  ASSUME Reserved, NEW c \in Clients, Only(c), request'[c] = request[c], phase'[c] = "looked",
         receipts' = receipts, Owned(c), ~ReceiptHeld(c)
  PROVE  Reserved'
  <1>1. \A x \in receipts : x.actor # request[c].actor \/ x.key # request[c].key
    BY DEF Owned, Receipts, actor
  <1>2. \A b \in Clients \ {c} : phase[b] = "looked" => ~SameKey(b, c)
    BY DEF ReceiptHeld, SameKey, actor
  <1> SUFFICES ASSUME NEW b \in Clients, phase'[b] = "looked"
               PROVE  /\ \A x \in receipts : x.actor # request[b].actor \/ x.key # request[b].key
                      /\ \A d \in Clients \ {b} : phase'[d] = "looked" =>
                           ~(request[d].actor = request[b].actor /\ request[d].key = request[b].key)
    BY DEF Reserved, SameKey, Only
  <1>3. CASE b = c
    BY <1>1, <1>2, <1>3 DEF Only, SameKey
  <1>4. CASE b # c
    BY <1>1, <1>2, <1>4 DEF Only, SameKey, Reserved
  <1> QED
    BY <1>3, <1>4

LEMMA RefuseDesk ==
  ASSUME Desk, NEW c \in Clients, Refuse(c)
  PROVE  Desk' /\ Authorized /\ UNCHANGED <<tables, stimuli>>
  <1>1. Close(c) /\ UNCHANGED <<receipts, told>> /\ UNCHANGED <<tables, stimuli>>
    BY DEF Refuse
  <1>2. Only(c) /\ Clerks' /\ phase'[c] = "idle"
    BY <1>1, CloseClerk DEF Desk
  <1>3. Reserved'
    BY <1>1, <1>2, ReservedStep DEF Desk, New
  <1>4. Books' /\ Authorized
    BY <1>1 DEF Desk, Books, Authorized, New
  <1> QED
    BY <1>1, <1>2, <1>3, <1>4 DEF Desk

LEMMA MoveDesk ==
  ASSUME Desk, NEW c \in Clients, phase[c] # "idle",
         phase' = [phase EXCEPT ![c] = "gated"], UNCHANGED <<request, receipts, told>>
  PROVE  Desk' /\ Authorized
  <1>1. Only(c) /\ Clerks' /\ phase'[c] = "gated"
    BY MoveClerk DEF Desk
  <1>2. Reserved'
    BY <1>1, ReservedStep DEF Desk, New
  <1>3. Books' /\ Authorized
    BY DEF Desk, Books, Authorized, New
  <1> QED
    BY <1>1, <1>2, <1>3 DEF Desk

(* What a receipt replays is what it stored. *)
LEMMA ReplayDesk ==
  ASSUME Desk, NEW c \in Clients, phase[c] # "idle", Replay(c)
  PROVE  Desk' /\ Authorized /\ UNCHANGED <<tables, stimuli>>
  <1>1. Close(c) /\ UNCHANGED receipts /\ UNCHANGED <<tables, stimuli>>
    BY DEF Replay
  <1>2. Only(c) /\ Clerks' /\ phase'[c] = "idle"
    BY <1>1, CloseClerk DEF Desk
  <1>3. Reserved'
    BY <1>1, <1>2, ReservedStep DEF Desk, New
  <1>4. PICK x \in receipts : /\ x.actor = request[c].actor /\ x.key = request[c].key
                              /\ IF x.job = request[c].job
                                 THEN Record(c, Replayed(x.job.op, x.answer)) ELSE UNCHANGED told
    BY DEF Replay, Receipts, actor, job
  <1>5. request[c] \in Requests
    BY DEF Desk, Clerks, Clerk
  <1>6. ASSUME told' = told PROVE Books'
    BY <1>1, <1>6 DEF Desk, Books, Decides
  <1>7. ASSUME x.job = request[c].job, Record(c, Replayed(x.job.op, x.answer)) PROVE Books'
    <2>1. Replayed(x.job.op, x.answer) = x.answer
      BY DEF Desk, Books, Replayed
    <2>2. told' = told \cup {[req |-> request[c], answer |-> x.answer]}
      BY <1>7, <2>1 DEF Record
    <2>3. Decides(request[c], x.answer) \in receipts
      BY <1>4, <1>7 DEF Decides, Desk, Books
    <2> QED
      BY <1>1, <1>5, <2>2, <2>3 DEF Desk, Books, Decides
  <1>8. Books'
    <2>1. CASE x.job = request[c].job
      BY <1>4, <1>7, <2>1
    <2>2. CASE x.job # request[c].job
      BY <1>4, <1>6, <2>2
    <2> QED
      BY <2>1, <2>2
  <1> QED
    BY <1>1, <1>2, <1>3, <1>8 DEF Desk, Authorized, New

(* complete_receipt: one receipt is added, for a key that had none. *)
LEMMA CompleteDesk ==
  ASSUME Desk, NEW c \in Clients, NEW a, phase[c] # "idle", Owned(c), Complete(c, a),
         a \in Known(request[c].job.op) \cup Successes,
         phase[c] = "looked" \/ ~ReceiptHeld(c)
  PROVE  Desk' /\ stimuli' = stimuli /\ New = {Decides(request[c], a)}
  <1> DEFINE y == Decides(request[c], a)
  <1>1. /\ receipts' = receipts \cup {y} /\ Record(c, a) /\ Close(c) /\ stimuli' = stimuli
        /\ \A x \in receipts : x.actor # request[c].actor \/ x.key # request[c].key
    BY DEF Complete, Decides, actor, job, Owned, Receipts
  <1>2. request[c] \in Requests
    BY DEF Desk, Clerks, Clerk
  <1>3. /\ y.actor = request[c].actor /\ y.key = request[c].key /\ y.job = request[c].job
        /\ y.answer = a /\ y = Decides(y, y.answer)
    BY DEF Decides
  <1>4. New = {y}
    BY <1>1, <1>3 DEF New
  <1>5. Only(c) /\ Clerks' /\ phase'[c] = "idle"
    BY <1>1, CloseClerk DEF Desk
  <1>6. Reserved'
    <2> HIDE DEF y
    <2> QED
      BY <1>3, <1>4, <1>5, ReservedStep DEF Desk
  <1>7. Books'
    <2>1. told' = told \cup {[req |-> request[c], answer |-> a]}
      BY <1>1 DEF Record
    <2>2. request[c].job.op \in Ops
      BY <1>2, DirectoryAssumption
    <2>3. \A t \in told' : /\ t = [req |-> t.req, answer |-> t.answer]
                           /\ t.req \in Requests /\ Decides(t.req, t.answer) \in receipts'
      BY <1>1, <1>2, <2>1 DEF Desk, Books
    <2> HIDE DEF y
    <2>4. \A x \in receipts' : /\ x = Decides(x, x.answer)
                               /\ x.job.op \in Ops /\ x.answer \in Known(x.job.op) \cup Successes
      BY <1>1, <1>3, <2>2 DEF Desk, Books
    <2>5. \A x, z \in receipts' : x.actor = z.actor /\ x.key = z.key => x = z
      BY <1>1, <1>3 DEF Desk, Books
    <2> QED
      BY <2>3, <2>4, <2>5 DEF Books
  <1> QED
    BY <1>1, <1>4, <1>5, <1>6, <1>7 DEF Desk

(* Nobody but the control plane needs to be a coordinator at the commit. *)
LEMMA OtherOps ==
  ASSUME NEW r \in Requests, NEW a, New = {Decides(r, a)}, r.job.op \notin CoordinatorOps
  PROVE  Authorized
  <1>1. Decides(r, a).job = r.job
    BY DEF Decides
  <1> QED
    BY <1>1 DEF Authorized

-----------------------------------------------------------------------------
(* The tables.                                                              *)

(* One binding is set. *)
LEMMA OneBinding ==
  ASSUME Bindings, NEW d \in Domains, NEW p \in Principals, NEW r \in Roles, NEW s \in States,
         SetBinding(d, p, r, s)
  PROVE  /\ binding' \in [Triples -> States]
         /\ \A e \in Domains, q \in Principals, z \in Roles :
              binding'[<<e, q, z>>] = IF e = d /\ q = p /\ z = r THEN s ELSE binding[<<e, q, z>>]
  <1>1. binding' = [binding EXCEPT ![<<d, p, r>>] = s] /\ <<d, p, r>> \in Triples
    BY DEF SetBinding, Triples
  <1> QED
    BY <1>1 DEF Bindings, Triples

(* A domain's row is written, its key being that of no other domain. *)
LEMMA OneDomain ==
  ASSUME Keyed, NEW d \in Domains, NEW k \in DomainKeys, NEW b \in BOOLEAN,
         domain' = [domain EXCEPT ![d] = [key |-> k, enabled |-> b]],
         \A e \in Domains \ {d} : domain[e].key # k
  PROVE  Keyed' /\ Exists(d)' /\ \A e \in Domains : Exists(e) => Exists(e)'
  <1> DEFINE y == [key |-> k, enabled |-> b]
  <1>1. y \in DomainShape /\ y.key = k /\ y # NoDomain
    BY DirectoryAssumption DEF DomainShape, NoDomain
  <1> HIDE DEF y
  <1>2. /\ domain' \in [Domains -> DomainShape \cup {NoDomain}]
        /\ domain'[d] = y /\ \A e \in Domains \ {d} : domain'[e] = domain[e]
    BY <1>1 DEF Keyed, y
  <1> QED
    BY <1>1, <1>2 DEF Keyed, Exists

LEMMA DomainsRest ==
  ASSUME Keyed, domain' = domain
  PROVE  Keyed' /\ \A e \in Domains : Exists(e) => Exists(e)'
  BY DEF Keyed, Exists

LEMMA RowsRest ==
  ASSUME Rows, row' = row
  PROVE  Rows' /\ Woken
  BY DEF Rows, Woken, Enabled, Present

LEMMA OwnersRest ==
  ASSUME binding' = binding
  PROVE  \A d \in Domains : OwnerStep(d)
  BY DEF OwnerStep, Owns

(* A member binding is no ownership. *)
LEMMA MemberBinding ==
  ASSUME Bindings, NEW d \in Domains, NEW p \in Principals, NEW s \in States,
         SetBinding(d, p, "DOMAIN_MEMBER", s)
  PROVE  binding' \in [Triples -> States] /\ \A e \in Domains : OwnerStep(e)
  <1>1. {"DOMAIN_MEMBER", "DOMAIN_OWNER"} = Roles
    BY DEF Roles
  <1>2. /\ binding' \in [Triples -> States]
        /\ \A e \in Domains, q \in Principals, z \in Roles :
             binding'[<<e, q, z>>] = IF e = d /\ q = p /\ z = "DOMAIN_MEMBER" THEN s
                                     ELSE binding[<<e, q, z>>]
    BY <1>1, OneBinding
  <1>3. \A e \in Domains, q \in Principals : Owns(e, q)' <=> Owns(e, q)
    BY <1>1, <1>2 DEF Owns
  <1> QED
    BY <1>2, <1>3 DEF OwnerStep

LEMMA BindingStates == {"on", "off", "none"} = States /\ {"DOMAIN_MEMBER", "DOMAIN_OWNER"} = Roles
  BY DEF States, Roles

(* From the parts to the whole. *)
LEMMA TablesStep ==
  ASSUME Tables, Rows', Bindings', Keyed', \A d \in Domains : OwnerStep(d),
         \A d \in Domains : Exists(d) => Exists(d)'
  PROVE  Tables' /\ OwnersPass
  BY OwnersStep DEF Tables

-----------------------------------------------------------------------------
(* The provisioning commands.                                               *)

(* The operation was accepted, on the row of an enabled agent. *)
Granted(c) ==
  /\ request[c] \in Requests /\ job(c).op \in ProvisioningOps
  /\ OpError(actor(c), job(c)) = "none" /\ ActorError(actor(c), ActorRow(c)) = "none"
  /\ New = {Decides(request[c], "ok")}

LEMMA RowOfShaped ==
  ASSUME Rows, NEW a \in Principals, NEW p \in Principals
  PROVE  /\ RowOf(a, p) \in RowShape
         /\ RowOf(a, p).kind = "NONE" => RowOf(a, p) = NoRow
         /\ Present(p) => RowOf(a, p) = row[p]
         /\ RowOf(a, p) # row[p] => ~Present(p)
  BY DEF Rows, RowOf, RowShape, Present, NoRow

(* Who provisions is an enabled agent, or a principal that makes its own row. *)
LEMMA ActorEnabled ==
  ASSUME Rows, NEW c \in Clients, request[c] \in Requests,
         ActorError(actor(c), ActorRow(c)) = "none",
         Present(actor(c)) \/ job(c).op # "principal" \/ job(c).p # actor(c)
  PROVE  Enabled(actor(c))
  <1>1. ActorRow(c) = row[actor(c)]
    BY DEF ActorRow, RowOf
  <1> QED
    BY <1>1 DEF ActorError, Enabled, Present

LEMMA NewReceipt ==
  ASSUME NEW c \in Clients, New = {Decides(request[c], "ok")}
  PROVE  \E x \in New : x.job = job(c) /\ x.actor = actor(c)
  BY DEF Decides, job, actor

(* A row is written, and enabled again only by another, enabled principal. *)
LEMMA OneRow ==
  ASSUME Rows, NEW p \in Principals, NEW y \in RowShape, y.kind # "NONE",
         row' = [row EXCEPT ![p] = y],
         Present(p) /\ ~Enabled(p) /\ y.enabled = TRUE =>
           \E x \in New : x.job.op = "principal" /\ x.job.p = p /\ x.actor # p /\ Enabled(x.actor)
  PROVE  Rows' /\ Woken
  <1>1. row' \in [Principals -> RowShape] /\ row'[p] = y
        /\ \A q \in Principals \ {p} : row'[q] = row[q]
    BY DEF Rows
  <1>2. Rows'
    BY <1>1 DEF Rows
  <1>3. y.enabled \in BOOLEAN
    BY DEF RowShape
  <1>4. ASSUME NEW q \in Principals, Present(q), ~Enabled(q), Enabled(q)'
        PROVE \E x \in New : x.job.op = "principal" /\ x.job.p = q /\ x.actor # q /\ Enabled(x.actor)
    <2>1. CASE q = p
      BY <1>1, <1>3, <1>4, <2>1 DEF Enabled
    <2>2. CASE q # p
      BY <1>1, <1>4, <2>2 DEF Enabled, Present
    <2> QED
      BY <2>1, <2>2
  <1> QED
    BY <1>2, <1>4 DEF Woken

LEMMA PutPrincipalKeeps ==
  ASSUME Tables, NEW c \in Clients, Granted(c), PutPrincipal(c)
  PROVE  Tables' /\ OwnersPass /\ Woken
  <1> DEFINE p == job(c).p
             a == actor(c)
             base == RowOf(a, p)
             y == [base EXCEPT !.kind = job(c).kind, !.enabled = job(c).on,
                               !.named = IF @ = "none" THEN "own" ELSE @]
  <1>1. p \in Principals /\ a \in Principals /\ job(c).on \in BOOLEAN /\ job(c).op = "principal"
    BY DirectoryAssumption DEF Granted, PutPrincipal, job, actor, NamesPrincipal
  <1>2. job(c).kind \in {"AGENT", "HUMAN"}
    BY <1>1 DEF Granted, OpError, PrincipalError
  <1>3. base \in RowShape
    BY <1>1, RowOfShaped DEF Tables
  <1>4. y \in RowShape /\ y.kind # "NONE" /\ y.enabled = job(c).on
    <2> DEFINE o == job(c).on
               k == job(c).kind
               b1 == [base EXCEPT !.kind = k]
               b2 == [b1 EXCEPT !.enabled = o]
    <2>1. b1 \in RowShape /\ b1.kind = k
      <3> HIDE DEF base
      <3> QED
        BY <1>2, <1>3 DEF RowShape
    <2>2. y = [b2 EXCEPT !.named = IF @ = "none" THEN "own" ELSE @]
      OBVIOUS
    <2> HIDE DEF b1, y
    <2>3. b2 \in RowShape /\ b2.kind = k /\ b2.enabled = o
      <3>1. o \in BOOLEAN
        BY <1>1
      <3> HIDE DEF o
      <3> QED
        BY <2>1, <3>1 DEF RowShape
    <2> HIDE DEF b2, o, k
    <2>4. y \in RowShape /\ y.kind = k /\ y.enabled = o
      BY <2>2, <2>3 DEF RowShape
    <2> QED
      BY <1>2, <2>4 DEF k, o
  <1>5. row' = [row EXCEPT ![p] = y] /\ UNCHANGED <<domain, binding, coordinator>>
    BY DEF PutPrincipal
  <1>6. ASSUME Present(p), ~Enabled(p) PROVE
          \E x \in New : x.job.op = "principal" /\ x.job.p = p /\ x.actor # p /\ Enabled(x.actor)
    <2>1. a = p => Enabled(a)
      BY <1>6, ActorEnabled DEF Granted, Tables
    <2>2. a # p
      BY <1>6, <2>1
    <2>3. Enabled(a)
      BY <2>2, ActorEnabled DEF Granted, Tables
    <2>4. PICK x \in New : x.job = job(c) /\ x.actor = a
      BY NewReceipt DEF Granted
    <2> QED
      BY <1>1, <2>2, <2>3, <2>4
  <1> HIDE DEF y, p, a
  <1>7. Rows' /\ Woken
    BY <1>1, <1>4, <1>5, <1>6, OneRow DEF Tables
  <1>8. Bindings' /\ Keyed' /\ \A d \in Domains : OwnerStep(d) /\ (Exists(d) => Exists(d)')
    BY <1>5, DomainsRest, OwnersRest DEF Tables, Bindings
  <1> QED
    BY <1>7, <1>8, TablesStep

LEMMA PutDomainKeeps ==
  ASSUME Tables, NEW c \in Clients, Granted(c), PutDomain(c)
  PROVE  Tables' /\ OwnersPass /\ Woken
  <1>1. /\ job(c).d \in Domains /\ job(c).dkey \in DomainKeys /\ job(c).on \in BOOLEAN
        /\ job(c).op = "domain"
    BY DirectoryAssumption DEF Granted, PutDomain, job, NamesDomain
  <1>2. \A e \in Domains \ {job(c).d} : domain[e].key # job(c).dkey
    BY <1>1 DEF Granted, OpError, DomainError
  <1>3. Keyed' /\ \A d \in Domains : Exists(d) => Exists(d)'
    BY <1>1, <1>2, OneDomain DEF PutDomain, Tables
  <1>4. Bindings' /\ Rows' /\ Woken /\ \A d \in Domains : OwnerStep(d)
    BY RowsRest, OwnersRest DEF PutDomain, Tables, Bindings
  <1> QED
    BY <1>3, <1>4, TablesStep

LEMMA CreateDomainKeeps ==
  ASSUME Tables, NEW c \in Clients, Granted(c), CreateDomain(c)
  PROVE  Tables' /\ OwnersPass /\ Woken
  <1>1. PICK d \in Domains :
          /\ domain[d] = NoDomain
          /\ domain' = [domain EXCEPT ![d] = [key |-> job(c).dkey, enabled |-> job(c).on]]
          /\ SetBinding(d, actor(c), "DOMAIN_OWNER", "on")
    BY DEF CreateDomain
  <1>2. /\ job(c).dkey \in DomainKeys /\ job(c).on \in BOOLEAN /\ actor(c) \in Principals
        /\ job(c).op = "create"
    BY DirectoryAssumption DEF Granted, CreateDomain, job, actor
  <1>3. \A e \in Domains : domain[e].key # job(c).dkey
    BY <1>2, DirectoryAssumption DEF Granted, OpError, DomainError
  <1>4. Keyed' /\ Exists(d)' /\ \A e \in Domains : Exists(e) => Exists(e)'
    <2> DEFINE k == job(c).dkey
               b == job(c).on
    <2>1. /\ k \in DomainKeys /\ b \in BOOLEAN /\ \A e \in Domains \ {d} : domain[e].key # k
          /\ domain' = [domain EXCEPT ![d] = [key |-> k, enabled |-> b]]
      BY <1>1, <1>2, <1>3
    <2> HIDE DEF k, b
    <2> QED
      BY <2>1, OneDomain DEF Tables
  <1>5. PICK a \in Principals : a = actor(c)
    BY <1>2
  <1>6. /\ binding' \in [Triples -> States]
        /\ \A e \in Domains, q \in Principals, z \in Roles :
             binding'[<<e, q, z>>] = IF e = d /\ q = a /\ z = "DOMAIN_OWNER" THEN "on"
                                     ELSE binding[<<e, q, z>>]
    BY <1>5, <1>1, BindingStates, OneBinding DEF Tables
  <1>7. Passes(d, a)
    <2>1. \A q \in Principals : ~Owns(d, q)
      BY <1>1 DEF Tables, Sole, Exists
    <2>2. "DOMAIN_OWNER" \in Roles
      BY BindingStates
    <2>3. \A q \in Principals : Owns(d, q)' <=> q = a
      BY <1>6, <2>1, <2>2 DEF Owns
    <2> QED
      BY <1>4, <2>3 DEF Passes
  <1>8. \A e \in Domains : OwnerStep(e)
    <2>1. \A e \in Domains \ {d}, q \in Principals : Owns(e, q)' <=> Owns(e, q)
      BY <1>6, BindingStates DEF Owns
    <2> QED
      BY <1>7, <2>1 DEF OwnerStep
  <1>9. Rows' /\ Woken /\ Bindings'
    BY <1>6, RowsRest DEF CreateDomain, Tables, Bindings
  <1> QED
    BY <1>4, <1>8, <1>9, TablesStep

LEMMA PutBindingKeeps ==
  ASSUME Tables, NEW c \in Clients, Granted(c), PutBinding(c)
  PROVE  Tables' /\ OwnersPass /\ Woken
  <1> DEFINE j == job(c)
             s == IF j.on THEN "on" ELSE "off"
  <1>1. j.d \in Domains /\ j.p \in Principals /\ j.role \in Roles /\ j.on \in BOOLEAN /\ j.op = "bind"
    BY DirectoryAssumption DEF Granted, PutBinding, job, NamesDomain, NamesPrincipal
  <1>2. s \in States
    BY DEF States
  <1>3. BindError(j) = "none"
    BY <1>1 DEF Granted, OpError
  <1>4. /\ Exists(j.d)
        /\ j.role = "DOMAIN_OWNER" /\ j.on => \A q \in Principals \ {j.p} : ~Owns(j.d, q)
    BY <1>3 DEF BindError, DomainRowError, HasRole, Owns, Exists
  <1>5. UNCHANGED <<row, domain, coordinator>> /\ SetBinding(j.d, j.p, j.role, s)
    BY DEF PutBinding
  <1>6. PICK x \in New : x.job = j
    BY NewReceipt DEF Granted
  <1> HIDE DEF j
  <1>7. /\ binding' \in [Triples -> States]
        /\ \A e \in Domains, q \in Principals, z \in Roles :
             binding'[<<e, q, z>>] = IF e = j.d /\ q = j.p /\ z = j.role THEN s
                                     ELSE binding[<<e, q, z>>]
    BY <1>1, <1>2, <1>5, OneBinding DEF Tables
  <1>8. Keyed' /\ Rows' /\ Woken /\ Bindings' /\ \A d \in Domains : Exists(d) => Exists(d)'
    BY <1>5, <1>7, DomainsRest, RowsRest DEF Tables, Bindings
  <1>9. ASSUME NEW e \in Domains PROVE OwnerStep(e)
    <2>1. CASE e # j.d \/ j.role # "DOMAIN_OWNER"
      BY <1>7, <2>1, BindingStates DEF OwnerStep, Owns
    <2>2. CASE e = j.d /\ j.role = "DOMAIN_OWNER" /\ j.on
      <3>1. PICK p \in Principals : p = j.p
        BY <1>1
      <3>2. Passes(e, p)
        <4>1. s = "on" /\ \A q \in Principals \ {p} : ~Owns(e, q)
          BY <1>4, <2>2, <3>1
        <4> HIDE DEF s
        <4>2. \A q \in Principals : Owns(e, q)' <=> q = p
          BY <1>1, <1>7, <2>2, <3>1, <4>1 DEF Owns
        <4> QED
          BY <1>4, <1>8, <2>2, <4>2 DEF Passes
      <3> QED
        BY <3>2 DEF OwnerStep
    <2>3. CASE e = j.d /\ j.role = "DOMAIN_OWNER" /\ ~j.on
      <3>1. \A q \in Principals : Owns(e, q)' => Owns(e, q)
        BY <1>7, <2>3, BindingStates DEF Owns
      <3>2. TakesAway(x, e)
        BY <1>1, <1>6, <2>3 DEF TakesAway
      <3> QED
        BY <3>1, <3>2 DEF OwnerStep
    <2> QED
      BY <1>1, <2>1, <2>2, <2>3
  <1> QED
    BY <1>8, <1>9, TablesStep

LEMMA RevokeBindingKeeps ==
  ASSUME Tables, NEW c \in Clients, Granted(c), RevokeBinding(c)
  PROVE  Tables' /\ OwnersPass /\ Woken
  <1> DEFINE j == job(c)
  <1>1. j.d \in Domains /\ j.p \in Principals /\ j.role \in Roles /\ j.op = "unbind"
    BY DirectoryAssumption DEF Granted, RevokeBinding, job, NamesDomain, NamesPrincipal
  <1>2. UNCHANGED <<row, domain, coordinator>> /\ SetBinding(j.d, j.p, j.role, "off")
    BY DEF RevokeBinding
  <1>3. PICK x \in New : x.job = j
    BY NewReceipt DEF Granted
  <1> HIDE DEF j
  <1>4. /\ binding' \in [Triples -> States]
        /\ \A e \in Domains, q \in Principals, z \in Roles :
             binding'[<<e, q, z>>] = IF e = j.d /\ q = j.p /\ z = j.role THEN "off"
                                     ELSE binding[<<e, q, z>>]
    BY <1>1, <1>2, BindingStates, OneBinding DEF Tables
  <1>5. Keyed' /\ Rows' /\ Woken /\ Bindings' /\ \A d \in Domains : Exists(d) => Exists(d)'
    BY <1>2, <1>4, DomainsRest, RowsRest DEF Tables, Bindings
  <1>6. ASSUME NEW e \in Domains PROVE OwnerStep(e)
    <2>1. CASE e # j.d \/ j.role # "DOMAIN_OWNER"
      BY <1>4, <2>1, BindingStates DEF OwnerStep, Owns
    <2>2. CASE e = j.d /\ j.role = "DOMAIN_OWNER"
      <3>1. \A q \in Principals : Owns(e, q)' => Owns(e, q)
        BY <1>4, <2>2, BindingStates DEF Owns
      <3>2. TakesAway(x, e)
        BY <1>1, <1>3, <2>2 DEF TakesAway
      <3> QED
        BY <3>1, <3>2 DEF OwnerStep
    <2> QED
      BY <2>1, <2>2
  <1> QED
    BY <1>5, <1>6, TablesStep

LEMMA PutGlobalKeeps ==
  ASSUME Tables, NEW c \in Clients, Granted(c), PutGlobal(c)
  PROVE  Tables' /\ OwnersPass /\ Woken
  <1>1. Bindings' /\ UNCHANGED <<row, domain, binding>>
    BY BindingStates DEF PutGlobal, Tables, Bindings
  <1>2. Keyed' /\ Rows' /\ Woken /\ \A d \in Domains : OwnerStep(d) /\ (Exists(d) => Exists(d)')
    BY <1>1, DomainsRest, RowsRest, OwnersRest DEF Tables
  <1> QED
    BY <1>1, <1>2, TablesStep

(* The role of one domain goes from whoever had it to one principal. *)
LEMMA ReplaceOwnerKeeps ==
  ASSUME Tables, NEW c \in Clients, Granted(c), ReplaceOwner(c)
  PROVE  Tables' /\ OwnersPass /\ Woken
  <1>1. PICK p \in Principals, d \in Domains : p = job(c).p /\ d = job(c).d
    BY DirectoryAssumption DEF Granted, ReplaceOwner, job, NamesDomain, NamesPrincipal
  <1>2. Exists(d)
    <2>1. job(c).op = "replace"
      BY DEF ReplaceOwner
    <2>2. DomainRowError([job(c) EXCEPT !.on = TRUE]) = "none"
      BY <2>1 DEF Granted, OpError
    <2>3. [job(c) EXCEPT !.on = TRUE].d = job(c).d
      OBVIOUS
    <2> QED
      BY <1>1, <2>2, <2>3 DEF DomainRowError, Exists
  <1>3. UNCHANGED <<row, domain, coordinator>>
    BY DEF ReplaceOwner
  <1>4. /\ binding' \in [Triples -> States]
        /\ \A e \in Domains, q \in Principals, z \in Roles :
             binding'[<<e, q, z>>] =
               IF e # d \/ z # "DOMAIN_OWNER" THEN binding[<<e, q, z>>]
               ELSE IF q = p THEN "on"
               ELSE IF binding[<<e, q, z>>] = "on" THEN "off" ELSE binding[<<e, q, z>>]
    <2>1. DOMAIN binding = Triples
      BY DEF Tables, Bindings
    <2>2. binding' = [x \in Triples |->
                        IF x[1] # d \/ x[3] # "DOMAIN_OWNER" THEN binding[x]
                        ELSE IF x[2] = p THEN "on"
                        ELSE IF binding[x] = "on" THEN "off" ELSE binding[x]]
      BY <1>1, <2>1 DEF ReplaceOwner
    <2>3. \A x \in Triples : binding[x] \in States
      BY DEF Tables, Bindings
    <2> QED
      BY <2>2, <2>3, BindingStates DEF Triples
  <1>5. Keyed' /\ Rows' /\ Woken /\ Bindings' /\ \A e \in Domains : Exists(e) => Exists(e)'
    BY <1>3, <1>4, DomainsRest, RowsRest DEF Tables, Bindings
  <1>6. "DOMAIN_OWNER" \in Roles
    BY BindingStates
  <1>7. Passes(d, p)
    <2>1. \A q \in Principals : Owns(d, q)' <=> q = p
      BY <1>4, <1>6 DEF Owns
    <2> QED
      BY <1>2, <1>5, <2>1 DEF Passes
  <1>8. \A e \in Domains \ {d} : OwnerStep(e)
    BY <1>4, <1>6 DEF OwnerStep, Owns
  <1>9. OwnerStep(d)
    BY <1>7 DEF OwnerStep
  <1> QED
    BY <1>5, <1>8, <1>9, TablesStep

(* The row a principal makes for itself when it is not there. *)
LEMMA EnsureKeeps ==
  ASSUME Tables, NEW p \in Principals, NEW a \in Principals,
         row' = [row EXCEPT ![p] = RowOf(a, p)], UNCHANGED <<domain, binding, coordinator>>
  PROVE  Tables' /\ OwnersPass /\ Woken
  <1>1. /\ row' \in [Principals -> RowShape] /\ row'[p] = RowOf(a, p)
        /\ \A q \in Principals \ {p} : row'[q] = row[q]
    BY RowOfShaped DEF Tables, Rows
  <1>2. Rows' /\ Woken
    <2>1. \A q \in Principals : Present(q) => row'[q] = row[q]
      BY <1>1, RowOfShaped DEF Tables
    <2>2. Woken
      BY <2>1 DEF Woken, Enabled, Present
    <2>3. \A q \in Principals : row'[q].kind = "NONE" => row'[q] = NoRow
      BY <1>1, RowOfShaped DEF Tables, Rows
    <2> QED
      BY <1>1, <2>2, <2>3 DEF Rows
  <1>3. Keyed' /\ Bindings' /\ \A d \in Domains : OwnerStep(d) /\ (Exists(d) => Exists(d)')
    BY DomainsRest, OwnersRest DEF Tables, Bindings
  <1> QED
    BY <1>2, <1>3, TablesStep

LEMMA WriteKeeps ==
  ASSUME Tables, NEW c \in Clients, Granted(c), Write(c)
  PROVE  Tables' /\ OwnersPass /\ Woken
  BY PutPrincipalKeeps, PutDomainKeeps, CreateDomainKeeps, PutBindingKeeps, RevokeBindingKeeps,
     PutGlobalKeeps, ReplaceOwnerKeeps DEF Write

(* What a refusal stores is a label of its own operation. *)
LEMMA OpErrorKnown ==
  ASSUME NEW r \in Requests, r.job.op \in ProvisioningOps, OpError(r.actor, r.job) # "none"
  PROVE  OpError(r.actor, r.job) \in Known(r.job.op)
  <1>1. \A p \in {r.job.p} : TargetError(p) \in {"none", "principal_not_found", "principal_disabled"}
    BY DEF TargetError
  <1>2. \A j : DomainRowError(j) \in {"none", "domain_not_found", "domain_disabled"}
    BY DEF DomainRowError
  <1>3. BindError(r.job) \in {"none", "principal_not_found", "principal_disabled", "domain_not_found",
                              "domain_disabled", "domain_owner_conflict"}
    BY <1>1, <1>2 DEF BindError
  <1>4. PrincipalError(r.actor, r.job) \in {"none", "principal_type_invalid", "principal_type_conflict"}
    BY DEF PrincipalError
  <1>5. \A d, k : DomainError(d, k) \in {"none", "domain_identity_conflict"}
    BY DEF DomainError
  <1>6. OpError(r.actor, r.job) \in ProvisioningLabels \cup {"none"}
    <2> HIDE DEF TargetError, DomainRowError, BindError, PrincipalError, DomainError
    <2> QED
      BY <1>1, <1>2, <1>3, <1>4, <1>5 DEF OpError, ProvisioningOps, ProvisioningLabels
  <1> QED
    BY <1>6 DEF Known

LEMMA ProvisionKeeps ==
  ASSUME Tables, Desk, NEW c \in Clients, Provision(c)
  PROVE  Tables' /\ OwnersPass /\ Woken /\ Desk' /\ Authorized
  <1>1. /\ phase[c] = "asked" /\ request[c] \in Requests /\ job(c).op \in ProvisioningOps
        /\ ~ReceiptHeld(c)
    BY DEF Provision, Desk, Clerks, Clerk, Free
  <1>2. CASE Refuse(c) \/ Replay(c)
    BY <1>1, <1>2, RefuseDesk, ReplayDesk, TablesRest
  <1>3. request[c].job.op \notin CoordinatorOps
    BY <1>1 DEF job, ProvisioningOps, CoordinatorOps
  <1>4. CASE /\ ActorError(actor(c), ActorRow(c)) = "none" /\ Owned(c)
             /\ OpError(actor(c), job(c)) = "none" /\ Write(c) /\ Complete(c, "ok")
    <2>1. Desk' /\ New = {Decides(request[c], "ok")}
      BY <1>1, <1>4, CompleteDesk DEF Successes
    <2>2. Granted(c)
      BY <1>1, <1>4, <2>1 DEF Granted
    <2> QED
      BY <1>1, <1>3, <1>4, <2>1, <2>2, WriteKeeps, OtherOps
  <1>5. CASE /\ Owned(c) /\ OpError(actor(c), job(c)) # "none" /\ KeepEnsured(c)
             /\ Complete(c, OpError(actor(c), job(c)))
    <2> DEFINE a == OpError(actor(c), job(c))
    <2>1. a \in Known(request[c].job.op)
      BY <1>1, <1>5, OpErrorKnown DEF actor, job
    <2> HIDE DEF a
    <2>2. Desk' /\ New = {Decides(request[c], a)}
      BY <1>1, <1>5, <2>1, CompleteDesk DEF a
    <2>3. Authorized
      BY <1>1, <1>3, <2>2, OtherOps
    <2>4. CASE job(c).op = "principal"
      <3>1. job(c).p \in Principals /\ actor(c) \in Principals
        BY <1>1, <2>4, DirectoryAssumption DEF job, actor, NamesPrincipal
      <3>2. /\ row' = [row EXCEPT ![job(c).p] = RowOf(actor(c), job(c).p)]
            /\ UNCHANGED <<domain, binding, coordinator>>
        BY <1>5, <2>4 DEF KeepEnsured
      <3> QED
        BY <2>2, <2>3, <3>1, <3>2, EnsureKeeps
    <2>5. CASE job(c).op # "principal"
      BY <1>5, <2>2, <2>3, <2>5, TablesRest DEF KeepEnsured, tables
    <2> QED
      BY <2>4, <2>5
  <1> QED
    BY <1>2, <1>4, <1>5 DEF Provision

LEMMA SelfKeeps ==
  ASSUME Tables, Desk, NEW c \in Clients, SelfProject(c)
  PROVE  Tables' /\ OwnersPass /\ Woken /\ Desk' /\ Authorized
  <1>1. phase[c] = "asked" /\ Close(c) /\ UNCHANGED <<domain, binding, coordinator, receipts, told>>
    BY DEF SelfProject
  <1>2. Desk' /\ Authorized
    <2>1. Only(c) /\ Clerks' /\ phase'[c] = "idle"
      BY <1>1, CloseClerk DEF Desk
    <2>2. Reserved'
      BY <1>1, <2>1, ReservedStep DEF Desk, New
    <2>3. Books' /\ Authorized
      BY <1>1 DEF Desk, Books, Authorized, New
    <2> QED
      BY <2>1, <2>2, <2>3 DEF Desk
  <1>3. actor(c) \in Principals
    BY <1>1, DirectoryAssumption DEF Desk, Clerks, Clerk, actor
  <1>4. CASE Present(actor(c))
    BY <1>1, <1>2, <1>4, TablesRest DEF SelfProject, tables
  <1>5. CASE ~Present(actor(c))
    <2>1. row' = [row EXCEPT ![actor(c)] = RowOf(actor(c), actor(c))]
      BY <1>5 DEF SelfProject, RowOf
    <2> QED
      BY <1>1, <1>2, <1>3, <2>1, EnsureKeeps
  <1> QED
    BY <1>4, <1>5

-----------------------------------------------------------------------------
(* The coordinator control plane and the membership commands.               *)

(* A role goes from one principal to another. *)
LEMMA MigrateKeeps ==
  ASSUME Tables, NEW r \in Requests, r.job.op = "reconcile", ReconcileError(r.job) = "none",
         Migrate(r.job), UNCHANGED <<row, domain, coordinator>>
  PROVE  Tables' /\ OwnersPass /\ Woken
  <1> DEFINE j == r.job
  <1>1. j.d \in Domains /\ j.p \in Principals /\ j.from \in Principals /\ j.role \in Roles
    BY DirectoryAssumption DEF NamesDomain, NamesPrincipal
  <1>2. CASE ReconcileOutcome(j) # "applied"
    BY <1>2, TablesRest DEF Migrate, tables
  <1>3. CASE ReconcileOutcome(j) = "applied"
    <2>1. /\ StateOf(j, j.from) \notin {"off", "none"} /\ j.from # j.p
          /\ StateOf(j, j.p) # "on" /\ Exists(j.d)
      BY <1>3 DEF ReconcileOutcome, ReconcileError, Exists
    <2>2. /\ binding' = [binding EXCEPT ![<<j.d, j.from, j.role>>] = "off",
                                        ![<<j.d, j.p, j.role>>] = "on"]
      BY <1>3 DEF Migrate
    <2> HIDE DEF j
    <2>3. binding[<<j.d, j.from, j.role>>] = "on"
      <3>1. <<j.d, j.from, j.role>> \in Triples
        BY <1>1 DEF Triples
      <3> QED
        BY <2>1, <3>1, BindingStates DEF StateOf, Tables, Bindings
    <2>4. /\ binding' \in [Triples -> States]
          /\ \A e \in Domains, q \in Principals, z \in Roles :
               binding'[<<e, q, z>>] =
                 IF e = j.d /\ q = j.p /\ z = j.role THEN "on"
                 ELSE IF e = j.d /\ q = j.from /\ z = j.role THEN "off" ELSE binding[<<e, q, z>>]
      <3>1. <<j.d, j.from, j.role>> \in Triples /\ <<j.d, j.p, j.role>> \in Triples
        BY <1>1 DEF Triples
      <3>2. binding' \in [Triples -> States]
        BY <2>2, <3>1, BindingStates DEF Tables, Bindings
      <3>3. \A e \in Domains, q \in Principals, z \in Roles : <<e, q, z>> \in Triples
        BY DEF Triples
      <3> QED
        BY <2>2, <3>2, <3>3 DEF Tables, Bindings
    <2>5. Keyed' /\ Rows' /\ Woken /\ Bindings' /\ \A e \in Domains : Exists(e) => Exists(e)'
      BY <2>4, DomainsRest, RowsRest DEF Tables, Bindings
    <2>6. PICK p \in Principals, d \in Domains : p = j.p /\ d = j.d
      BY <1>1
    <2>7. CASE j.role = "DOMAIN_OWNER"
      <3>1. \A q \in Principals : Owns(d, q) <=> q = j.from
        BY <1>1, <2>3, <2>6, <2>7 DEF Tables, Sole, Owns
      <3>2. \A q \in Principals : Owns(d, q)' <=> q = p
        BY <2>4, <2>6, <2>7, <3>1, BindingStates DEF Owns
      <3>3. Passes(d, p)
        BY <2>1, <2>5, <2>6, <3>2 DEF Passes
      <3>4. \A e \in Domains \ {d} : OwnerStep(e)
        BY <2>4, <2>6, BindingStates DEF OwnerStep, Owns
      <3>5. OwnerStep(d)
        BY <3>3 DEF OwnerStep
      <3> QED
        BY <2>5, <3>4, <3>5, TablesStep
    <2>8. CASE j.role # "DOMAIN_OWNER"
      <3>1. \A e \in Domains : OwnerStep(e)
        BY <2>4, <2>8, BindingStates DEF OwnerStep, Owns
      <3> QED
        BY <2>5, <3>1, TablesStep
    <2> QED
      BY <2>7, <2>8
  <1> QED
    BY <1>2, <1>3

LEMMA CoordinatorErrorKnown ==
  ASSUME NEW r \in Requests, r.job.op \in CoordinatorOps, CoordinatorError(r.job) # "none"
  PROVE  CoordinatorError(r.job) \in Known(r.job.op) \ Successes
  <1>1. CoordinatorError(r.job) \in {"domain_not_found", "binding_conflict", "identity_not_found",
                                     "principal_disabled"}
    BY DEF CoordinatorError, ReconcileError
  <1> QED
    BY <1>1 DEF Known, CoordinatorOps, ProvisioningOps, CoordinatorLabels, Successes

LEMMA GateKeeps ==
  ASSUME Tables, Desk, NEW c \in Clients, CoordinatorGate(c) \/ MemberGate(c)
  PROVE  Tables' /\ OwnersPass /\ Woken /\ Desk' /\ Authorized
  <1>1. CASE Refuse(c)
    BY <1>1, RefuseDesk, TablesRest
  <1>2. CASE /\ phase[c] = "asked" /\ phase' = [phase EXCEPT ![c] = "gated"]
             /\ UNCHANGED <<tables, receipts, request, stimuli, told>>
    BY <1>2, MoveDesk, TablesRest
  <1> QED
    BY <1>1, <1>2 DEF CoordinatorGate, MemberGate

LEMMA CoordinatorKeeps ==
  ASSUME Tables, Desk, NEW c \in Clients, CoordinatorWrite(c)
  PROVE  Tables' /\ OwnersPass /\ Woken /\ Desk' /\ Authorized
  <1>1. PICK r \in Requests : r = request[c]
    BY DEF CoordinatorWrite, Desk, Clerks, Clerk
  <1>2. /\ phase[c] = "gated" /\ r.job.op \in CoordinatorOps /\ ~ReceiptHeld(c)
        /\ job(c) = r.job /\ actor(c) = r.actor
    BY <1>1 DEF CoordinatorWrite, Free, job, actor
  <1>3. CASE Refuse(c) \/ Replay(c)
    BY <1>2, <1>3, RefuseDesk, ReplayDesk, TablesRest
  <1>4. ASSUME NEW a, Owned(c), Complete(c, a), a \in Known(r.job.op) \cup Successes,
               a \in Successes => Enabled(r.actor) /\ StillCoordinator(c)
        PROVE  Desk' /\ Authorized
    <2>1. Desk' /\ New = {Decides(r, a)}
      BY <1>1, <1>2, <1>4, CompleteDesk
    <2>2. Decides(r, a).answer = a /\ Decides(r, a).actor = r.actor
      BY DEF Decides
    <2> QED
      BY <1>2, <1>4, <2>1, <2>2 DEF Authorized, StillCoordinator
  <1>5. CASE Owned(c) /\ Complete(c, "not_domain_owner") /\ UNCHANGED tables
    <2>1. "not_domain_owner" \in Known(r.job.op) \ Successes
      BY <1>2 DEF Known, CoordinatorOps, ProvisioningOps, CoordinatorLabels, Successes
    <2> QED
      BY <1>4, <1>5, <2>1, TablesRest
  <1>6. CASE /\ Owned(c) /\ CoordinatorError(r.job) # "none"
             /\ Complete(c, CoordinatorError(r.job)) /\ UNCHANGED tables
    <2> DEFINE a == CoordinatorError(r.job)
    <2>1. a \in Known(r.job.op) \ Successes /\ Complete(c, a)
      BY <1>2, <1>6, CoordinatorErrorKnown
    <2> HIDE DEF a
    <2> QED
      BY <1>4, <1>6, <2>1, TablesRest
  <1>7. CASE /\ Owned(c) /\ Enabled(r.actor) /\ StillCoordinator(c)
             /\ CoordinatorError(r.job) = "none"
             /\ IF r.job.op = "reconcile" THEN Migrate(r.job) ELSE UNCHANGED binding
             /\ UNCHANGED <<row, domain, coordinator>>
             /\ Complete(c, IF r.job.op = "reconcile" THEN ReconcileOutcome(r.job) ELSE "ok")
    <2> DEFINE a == IF r.job.op = "reconcile" THEN ReconcileOutcome(r.job) ELSE "ok"
    <2>1. a \in Successes /\ Complete(c, a)
      BY <1>7 DEF ReconcileOutcome, Successes
    <2> HIDE DEF a
    <2>2. Desk' /\ Authorized
      BY <1>4, <1>7, <2>1
    <2>3. CASE r.job.op = "reconcile"
      <3>1. ReconcileError(r.job) = "none" /\ Migrate(r.job)
        BY <1>7, <2>3 DEF CoordinatorError
      <3> QED
        BY <1>7, <2>2, <2>3, <3>1, MigrateKeeps
    <2>4. CASE r.job.op # "reconcile"
      BY <1>7, <2>2, <2>4, TablesRest DEF tables
    <2> QED
      BY <2>3, <2>4
  <1> QED
    BY <1>1, <1>2, <1>3, <1>5, <1>6, <1>7 DEF CoordinatorWrite

(* The member's binding, or nothing. *)
LEMMA MemberKeeps ==
  ASSUME Tables, NEW r \in Requests, r.job.op \in MemberOps, UNCHANGED <<row, domain, coordinator>>,
         \/ binding' = binding
         \/ \E s \in States : SetBinding(r.job.d, r.job.p, "DOMAIN_MEMBER", s)
  PROVE  Tables' /\ OwnersPass /\ Woken
  <1>1. r.job.d \in Domains /\ r.job.p \in Principals
    BY DirectoryAssumption DEF MemberOps, NamesDomain, NamesPrincipal
  <1>2. Bindings' /\ \A d \in Domains : OwnerStep(d)
    <2>1. CASE binding' = binding
      BY <2>1, OwnersRest DEF Tables, Bindings
    <2>2. CASE \E s \in States : SetBinding(r.job.d, r.job.p, "DOMAIN_MEMBER", s)
      BY <1>1, <2>2, MemberBinding DEF Tables, Bindings
    <2> QED
      BY <2>1, <2>2
  <1>3. Keyed' /\ Rows' /\ Woken /\ \A d \in Domains : Exists(d) => Exists(d)'
    BY DomainsRest, RowsRest DEF Tables
  <1> QED
    BY <1>2, <1>3, TablesStep

LEMMA LookKeeps ==
  ASSUME Tables, Desk, NEW c \in Clients, LookAtTarget(c)
  PROVE  Tables' /\ OwnersPass /\ Woken /\ Desk' /\ Authorized
  <1>1. PICK r \in Requests : r = request[c]
    BY DEF LookAtTarget, Desk, Clerks, Clerk
  <1>2. phase[c] = "gated" /\ r.job.op = "add" /\ ~ReceiptHeld(c) /\ job(c) = r.job
    BY <1>1 DEF LookAtTarget, Free, job
  <1>3. CASE Refuse(c) \/ Replay(c)
    BY <1>2, <1>3, RefuseDesk, ReplayDesk, TablesRest
  <1>4. CASE /\ Owned(c)
             /\ ~Enabled(actor(c)) \/ AddError(r.job) # "none"
             /\ Complete(c, IF ~Enabled(actor(c)) THEN "principal_disabled" ELSE AddError(r.job))
             /\ UNCHANGED tables
    <2> DEFINE a == IF ~Enabled(actor(c)) THEN "principal_disabled" ELSE AddError(r.job)
    <2>1. a \in Known("add") /\ Complete(c, a) /\ Owned(c)
      <3>1. a \in {"principal_disabled", "principal_not_registered"}
        BY <1>4 DEF AddError
      <3>2. {"principal_disabled", "principal_not_registered"} \subseteq Known("add")
        BY DEF Known, MemberLabels, ProvisioningOps, CoordinatorOps
      <3> QED
        BY <1>4, <3>1, <3>2
    <2> HIDE DEF a
    <2>2. Desk' /\ New = {Decides(r, a)}
      BY <1>1, <1>2, <2>1, CompleteDesk
    <2>3. Authorized
      BY <1>2, <2>2, OtherOps DEF CoordinatorOps
    <2> QED
      BY <1>4, <2>2, <2>3, TablesRest
  <1>5. CASE /\ Owned(c) /\ phase' = [phase EXCEPT ![c] = "looked"]
             /\ UNCHANGED <<tables, receipts, request, stimuli, told>>
    <2>1. Only(c) /\ Clerks' /\ phase'[c] = "looked" /\ request'[c] = request[c]
      BY <1>1, <1>2, <1>5, MoveClerk DEF Desk
    <2>2. Reserved'
      BY <1>2, <1>5, <2>1, LookReserved DEF Desk
    <2>3. Books' /\ Authorized
      BY <1>5 DEF Desk, Books, Authorized, New
    <2> QED
      BY <1>5, <2>1, <2>2, <2>3, TablesRest DEF Desk
  <1> QED
    BY <1>2, <1>3, <1>4, <1>5 DEF LookAtTarget

LEMMA AddMemberKeeps ==
  ASSUME Tables, Desk, NEW c \in Clients, AddMember(c) \/ RemoveMember(c)
  PROVE  Tables' /\ OwnersPass /\ Woken /\ Desk' /\ Authorized
  <1>1. PICK r \in Requests : r = request[c]
    BY DEF AddMember, RemoveMember, Desk, Clerks, Clerk
  <1>2. /\ phase[c] # "idle" /\ r.job.op \in MemberOps /\ job(c) = r.job
        /\ phase[c] = "looked" \/ ~ReceiptHeld(c)
    <2>1. CASE AddMember(c)
      BY <1>1, <2>1 DEF AddMember, Desk, Clerks, Clerk, MemberOps, job
    <2>2. CASE RemoveMember(c)
      BY <1>1, <2>2 DEF RemoveMember, Free, MemberOps, job
    <2> QED
      BY <2>1, <2>2
  <1>3. CASE Replay(c)
    BY <1>2, <1>3, ReplayDesk, TablesRest
  <1>4. ASSUME AddMember(c) \/ ~Replay(c)
        PROVE  /\ Owned(c) /\ UNCHANGED <<row, domain, coordinator>>
               /\ \/ binding' = binding
                  \/ \E s \in States : SetBinding(r.job.d, r.job.p, "DOMAIN_MEMBER", s)
               /\ \E a \in MemberLabels \cup Successes : Complete(c, a)
    <2>1. CASE AddMember(c)
      <3>1. phase[c] = "looked" /\ UNCHANGED <<row, domain, coordinator>>
        BY <2>1 DEF AddMember
      <3>2. Owned(c)
        BY <3>1 DEF Desk, Reserved, Owned, Receipts, actor
      <3>3. CASE HasRole(r.job.d, r.job.p, "DOMAIN_OWNER")
        BY <1>2, <2>1, <3>1, <3>2, <3>3 DEF AddMember, MemberLabels
      <3>4. CASE ~HasRole(r.job.d, r.job.p, "DOMAIN_OWNER")
        BY <1>2, <2>1, <3>1, <3>2, <3>4, BindingStates DEF AddMember, Successes
      <3> QED
        BY <3>3, <3>4
    <2>2. CASE ~AddMember(c)
      <3>1. RemoveMember(c) /\ ~Replay(c)
        BY <1>4, <2>2
      <3> QED
        BY <1>2, <3>1, BindingStates DEF RemoveMember, MemberLabels, Successes
    <2> QED
      BY <2>1, <2>2
  <1>5. CASE AddMember(c) \/ ~Replay(c)
    <2>1. PICK a \in MemberLabels \cup Successes : Complete(c, a)
      BY <1>4, <1>5
    <2>2. a \in Known(r.job.op) \cup Successes /\ r.job.op \notin CoordinatorOps
      BY <1>2 DEF Known, MemberOps, ProvisioningOps, CoordinatorOps
    <2>3. Desk' /\ New = {Decides(r, a)}
      BY <1>1, <1>2, <1>4, <1>5, <2>1, <2>2, CompleteDesk
    <2>4. Authorized
      BY <2>2, <2>3, OtherOps
    <2> QED
      BY <1>2, <1>4, <1>5, <2>3, <2>4, MemberKeeps
  <1> QED
    BY <1>3, <1>5

LEMMA SubmitKeeps ==
  ASSUME Tables, Desk, NEW c \in Clients, Submit(c)
  PROVE  Tables' /\ OwnersPass /\ Woken /\ Desk' /\ Authorized
  <1>1. PICK r \in Requests : request' = [request EXCEPT ![c] = r]
    BY DEF Submit
  <1>2. /\ phase' = [phase EXCEPT ![c] = "asked"] /\ UNCHANGED <<receipts, told>> /\ UNCHANGED tables
    BY DEF Submit
  <1>3. Only(c) /\ phase'[c] = "asked" /\ request'[c] = r
    BY <1>1, <1>2 DEF Desk, Clerks, Only
  <1>4. Clerks'
    BY <1>3, ClerksStep DEF Desk, Clerk
  <1>5. Reserved'
    BY <1>2, <1>3, ReservedStep DEF Desk, New
  <1>6. Books' /\ Authorized
    BY <1>2 DEF Desk, Books, Authorized, New
  <1> QED
    BY <1>2, <1>4, <1>5, <1>6, TablesRest DEF Desk

LEMMA HandleKeeps ==
  ASSUME Tables, Desk, NEW c \in Clients, Handle(c)
  PROVE  Tables' /\ OwnersPass /\ Woken /\ Desk' /\ Authorized
  <1>1. CASE Lose(c)
    BY <1>1, RefuseDesk, TablesRest DEF Lose
  <1> QED
    BY <1>1, SubmitKeeps, ProvisionKeeps, SelfKeeps, GateKeeps, CoordinatorKeeps, LookKeeps,
       AddMemberKeeps DEF Handle

-----------------------------------------------------------------------------
(* The programs.                                                            *)

(* A set of pairs has a least one: the intervals up to its elements are      *)
(* finite sets, and strict inclusion of those is well founded.               *)
LEMMA LeastIn ==
  ASSUME NEW n \in Nat, NEW S \in SUBSET (1..n), S # {}
  PROVE  Least(S) \in S
  <1> DEFINE T == {1..x : x \in S}
             R == StrictSubsetOrdering(1..n)
  <1>1. T # {} /\ T \subseteq FiniteSubsetsOf(1..n)
    <2>1. \A x \in S : 1..x \subseteq 1..n /\ IsFiniteSet(1..x)
      BY FS_Interval
    <2> QED
      BY <2>1 DEF FiniteSubsetsOf
  <1>2. \E a \in T : \A b \in T : <<b, a>> \notin R
    <2> HIDE DEF T, R
    <2>1. IsWellFoundedOn(R, FiniteSubsetsOf(1..n))
      BY FS_StrictSubsetOrderingWellFounded DEF R
    <2> QED
      BY <1>1, <2>1, WFMin
  <1>3. PICK x \in S : \A y \in S : <<1..y, 1..x>> \notin R
    BY <1>2
  <1>4. \A y \in S : x <= y
    <2> SUFFICES ASSUME NEW y \in S, y < x PROVE FALSE
      BY SMT
    <2>1. x \in 1..n /\ y \in 1..n
      OBVIOUS
    <2>2. 1..y \subseteq 1..x /\ 1..x \subseteq 1..n /\ x \in 1..x /\ x \notin 1..y
      BY <2>1
    <2>3. <<1..y, 1..x>> \in R
      <3> DEFINE a == 1..y
                 b == 1..x
      <3>1. a \subseteq b /\ b \subseteq 1..n /\ a # b
        BY <2>2
      <3> HIDE DEF a, b
      <3> QED
        BY <3>1 DEF StrictSubsetOrdering
    <2> QED
      BY <1>3, <2>3
  <1> QED
    BY <1>4 DEF Least

LEMMA NextIsPair ==
  ASSUME NEW S \in SUBSET DOMAIN Pairs, S # {}
  PROVE  Least(S) \in DOMAIN Pairs
  BY LeastIn, ProgramAssumption

LEMMA PairIsRun == \A k \in DOMAIN Pairs : k \in RunIds /\ k # RepairRun /\ k # HumanRun
  BY ProgramAssumption DEF RunIds, RepairRun, HumanRun

LEMMA HumanIsRun == HumanRun \in RunIds /\ HumanRun # RepairRun
  BY ProgramAssumption DEF RunIds, RepairRun, HumanRun

(* The writes of a pair: where the old principal was the owner, the new one is. *)
LEMMA HandOverTables ==
  ASSUME Tables, NEW k \in DOMAIN Pairs, Applicable(k), HandOver(k)
  PROVE  Tables' /\ OwnersPass /\ Woken
  <1> DEFINE old == Pairs[k].old
             new == Pairs[k].new
             T == Pairs[k].tuples
  <1>1. old \in Principals /\ new \in Principals /\ T \subseteq Domains \X Roles
    BY ProgramAssumption DEF ValidPlan
  <1>2. \A t \in T : /\ binding[<<t[1], old, t[2]>>] = "on" /\ binding[<<t[1], new, t[2]>>] # "on"
                     /\ domain[t[1]].enabled
    BY DEF Applicable, TupleState
  <1>3. row[new] \in {NoRow, Projection}
    BY DEF Applicable
  <1>4. /\ row' = [row EXCEPT ![new] = Projection] /\ UNCHANGED <<domain, coordinator>>
        /\ binding' = [x \in DOMAIN binding |->
                   IF <<x[1], x[3]>> \notin T THEN binding[x]
                   ELSE IF x[2] = old THEN "off"
                   ELSE IF x[2] = new THEN "on" ELSE binding[x]]
    BY DEF HandOver
  <1> HIDE DEF old, new, T
  <1>5. /\ binding' \in [Triples -> States]
        /\ \A e \in Domains, q \in Principals, z \in Roles :
             binding'[<<e, q, z>>] =
               IF <<e, z>> \notin T THEN binding[<<e, q, z>>]
               ELSE IF q = old THEN "off" ELSE IF q = new THEN "on" ELSE binding[<<e, q, z>>]
    <2>1. DOMAIN binding = Triples /\ \A x \in Triples : binding[x] \in States
      BY DEF Tables, Bindings
    <2> QED
      BY <1>4, <2>1, BindingStates DEF Triples
  <1>6. Rows' /\ Woken
    <2>1. Projection \in RowShape /\ Projection.kind # "NONE"
      BY DEF Projection, RowShape
    <2>2. ~(Present(new) /\ ~Enabled(new))
      BY <1>3 DEF Projection, Enabled, Present
    <2> QED
      BY <1>1, <1>4, <2>1, <2>2, OneRow DEF Tables
  <1>7. Keyed' /\ Bindings' /\ \A e \in Domains : Exists(e) => Exists(e)'
    BY <1>4, <1>5, DomainsRest DEF Tables, Bindings
  <1>8. ASSUME NEW d \in Domains PROVE OwnerStep(d)
    <2>1. CASE <<d, "DOMAIN_OWNER">> \notin T
      BY <1>5, <2>1, BindingStates DEF OwnerStep, Owns
    <2>2. CASE <<d, "DOMAIN_OWNER">> \in T
      <3>1. binding[<<d, old, "DOMAIN_OWNER">>] = "on" /\ binding[<<d, new, "DOMAIN_OWNER">>] # "on"
        BY <1>2, <2>2
      <3>2. Exists(d) /\ \A q \in Principals : Owns(d, q) <=> q = old
        BY <1>1, <3>1 DEF Tables, Sole, Owns
      <3>3. \A q \in Principals : Owns(d, q)' <=> q = new
        BY <1>5, <2>2, <3>1, <3>2, BindingStates DEF Owns
      <3>4. PICK p \in Principals : p = new
        BY <1>1
      <3>5. Passes(d, p)
        BY <1>7, <3>2, <3>3, <3>4 DEF Passes
      <3> QED
        BY <3>5 DEF OwnerStep
    <2> QED
      BY <2>1, <2>2
  <1> QED
    BY <1>6, <1>7, <1>8, TablesStep

LEMMA PlansRest ==
  ASSUME Plans, UNCHANGED <<work, handed>>
  PROVE  Plans'
  BY DEF Plans, Tracked

LEMMA RunningRest ==
  ASSUME Running, run' = run, summary' = summary
  PROVE  Running'
  BY DEF Running, Wrote

LEMMA LedgerRest ==
  ASSUME Ledger, reports' = reports, summary' = summary
  PROVE  Ledger'
  BY DEF Ledger

LEMMA DrawnRest ==
  ASSUME Drawn, lineage' = lineage, reviewed' = reviewed
  PROVE  Drawn' /\ LinesGrow
  BY DEF Drawn, LinesGrow

(* An outcome that claims the work, and any after a commit, finds the record   *)
(* of the work; a rollback wrote nothing.                                    *)
LEMMA ReportKeeps ==
  ASSUME Ledger, NEW k \in RunIds, NEW o \in Outcomes, NEW w, Report(k, o, w), summary' = summary,
         o \in {"NOOP", "COMMITTED", "APPLIED"} \/ w => OnRecord(k),
         o = "ROLLED_BACK" => ~w
  PROVE  Ledger'
  <1> DEFINE r == [k |-> k, outcome |-> o, wrote |-> w, done |-> OnRecord(k)]
  <1>1. reports' = reports \cup {r}
    BY DEF Report
  <1>2. r.k = k /\ r.outcome = o /\ r.wrote = w /\ r.done = OnRecord(k)
    OBVIOUS
  <1> HIDE DEF r
  <1>3. True(r)
    BY <1>2 DEF True
  <1> QED
    BY <1>1, <1>3 DEF Ledger

LEMMA IdleRuns ==
  ASSUME run' = NotRunning
  PROVE  Running'
  BY DEF Running, NotRunning

(* A run goes on with a pair of the plan. *)
LEMMA PairRuns ==
  ASSUME NEW k \in DOMAIN Pairs, NEW s, NEW st \in {"apply", "reread"}, NEW a,
         run' = [program |-> "cutover", scope |-> s, k |-> k, stage |-> st, commit |-> a],
         st = "reread" /\ a \in {"acknowledged", "lost"} => k \in summary'
  PROVE  Running'
  <1>1. /\ run'.program = "cutover" /\ run'.k = k /\ run'.stage = st /\ run'.commit = a
        /\ run' = [program |-> run'.program, scope |-> run'.scope, k |-> run'.k,
                   stage |-> run'.stage, commit |-> run'.commit]
    OBVIOUS
  <1> QED
    BY <1>1 DEF Running, Wrote

LEMMA ProceedRuns ==
  ASSUME Running, run.program = "cutover", NEW ok \in BOOLEAN, Proceed(ok)
  PROVE  Running'
  <1> DEFINE S == NextPair(run.scope, run.k)
  <1>1. CASE run' = NotRunning
    BY <1>1, IdleRuns
  <1>2. CASE S # {} /\ run' = [run EXCEPT !.k = Least(S), !.stage = "apply", !.commit = "none"]
    <2>1. S \in SUBSET DOMAIN Pairs
      BY DEF NextPair, Selected
    <2> HIDE DEF S
    <2>2. Least(S) \in DOMAIN Pairs
      BY <1>2, <2>1, NextIsPair
    <2>3. run' = [program |-> "cutover", scope |-> run.scope, k |-> Least(S),
                  stage |-> "apply", commit |-> "none"]
      BY <1>2 DEF Running
    <2>4. PICK k \in DOMAIN Pairs : k = Least(S)
      BY <2>2
    <2>5. PICK s : s = run.scope
      OBVIOUS
    <2>6. run' = [program |-> "cutover", scope |-> s, k |-> k, stage |-> "apply", commit |-> "none"]
      BY <2>3, <2>4, <2>5
    <2> QED
      BY <2>6, PairRuns
  <1> QED
    BY <1>1, <1>2 DEF Proceed

LEMMA StartKeeps ==
  ASSUME Programs, NEW s \in DOMAIN Scopes, StartCutover(s)
  PROVE  Programs' /\ LinesGrow
  <1> DEFINE S == Selected(s)
  <1>1. S \in SUBSET DOMAIN Pairs /\ S # {}
    BY DEF StartCutover, Selected
  <1>2. /\ run' = [program |-> "cutover", scope |-> s, k |-> Least(S), stage |-> "apply",
                   commit |-> "none"]
        /\ UNCHANGED <<work, summary, lineage, reviewed, reports, handed>>
    BY DEF StartCutover
  <1> HIDE DEF S
  <1>3. Least(S) \in DOMAIN Pairs
    BY <1>1, NextIsPair
  <1>4. Running'
    BY <1>2, <1>3, PairRuns
  <1> QED
    BY <1>2, <1>4, PlansRest, LedgerRest, DrawnRest DEF Programs

(* Columns of an instance's row, written at once. *)
Record5(w) == w = [version |-> w.version, holder |-> w.holder, live |-> w.live,
                   assisted |-> w.assisted, by |-> w.by]

LEMMA Moved ==
  ASSUME NEW w, Record5(w), NEW v, NEW p, NEW b
  PROVE  [w EXCEPT !.version = v, !.holder = p, !.by = b]
           = [version |-> v, holder |-> p, live |-> w.live, assisted |-> w.assisted, by |-> b]
  <1> DEFINE w1 == [w EXCEPT !.version = v]
             w2 == [w1 EXCEPT !.holder = p]
  <1>1. w1 = [version |-> v, holder |-> w.holder, live |-> w.live, assisted |-> w.assisted, by |-> w.by]
    BY DEF Record5
  <1>2. [w EXCEPT !.version = v, !.holder = p, !.by = b] = [w2 EXCEPT !.by = b]
    OBVIOUS
  <1> HIDE DEF w1
  <1>3. w2 = [version |-> v, holder |-> p, live |-> w.live, assisted |-> w.assisted, by |-> w.by]
    BY <1>1
  <1> HIDE DEF w2
  <1>4. [w2 EXCEPT !.by = b]
          = [version |-> v, holder |-> p, live |-> w.live, assisted |-> w.assisted, by |-> b]
    BY <1>3
  <1> QED
    BY <1>2, <1>4

LEMMA Switched ==
  ASSUME NEW w, Record5(w), NEW a, NEW b
  PROVE  /\ [w EXCEPT !.assisted = b]
              = [version |-> w.version, holder |-> w.holder, live |-> w.live, assisted |-> b, by |-> w.by]
         /\ [[w EXCEPT !.live = a] EXCEPT !.assisted = b]
              = [version |-> w.version, holder |-> w.holder, live |-> a, assisted |-> b, by |-> w.by]
  <1> DEFINE w1 == [w EXCEPT !.live = a]
  <1>1. w1 = [version |-> w.version, holder |-> w.holder, live |-> a, assisted |-> w.assisted,
              by |-> w.by]
    BY DEF Record5
  <1>2. [w EXCEPT !.assisted = b]
          = [version |-> w.version, holder |-> w.holder, live |-> w.live, assisted |-> b, by |-> w.by]
    BY DEF Record5
  <1> HIDE DEF w1
  <1>3. [w1 EXCEPT !.assisted = b]
          = [version |-> w.version, holder |-> w.holder, live |-> a, assisted |-> b, by |-> w.by]
    BY <1>1
  <1> QED
    BY <1>2, <1>3 DEF w1

LEMMA HandOverPlans ==
  ASSUME Plans, NEW k \in DOMAIN Pairs, Applicable(k), HandOver(k)
  PROVE  Plans'
  <1> DEFINE moved == {i \in Pairs[k].works : work[i].live}
             y(i) == [work[i] EXCEPT !.version = @ + 1, !.holder = Pairs[k].new, !.by = "cutover"]
  <1>1. /\ work' = [i \in Works |-> IF i \notin moved THEN work[i] ELSE y(i)]
        /\ handed' = [i \in Works |-> handed[i] + IF i \in moved THEN 1 ELSE 0]
    BY DEF HandOver
  <1>2. \A i \in moved : work[i].version = 1
    BY DEF Applicable, WorkState
  <1>3. ASSUME NEW i \in Works PROVE Tracked(i)'
    <2>1. Tracked(i)
      BY DEF Plans
    <2>2. CASE i \notin moved
      <3>1. work'[i] = work[i] /\ handed'[i] = handed[i] + 0
        BY <1>1, <2>2
      <3> QED
        BY <2>1, <3>1 DEF Tracked
    <2>3. CASE i \in moved
      <3>1. work'[i] = y(i) /\ handed'[i] = handed[i] + 1
        BY <1>1, <2>3
      <3>2. work[i].version = 1
        BY <1>2, <2>3
      <3>3. y(i) = [version |-> work[i].version + 1, holder |-> Pairs[k].new, live |-> work[i].live,
                    assisted |-> work[i].assisted, by |-> "cutover"]
        <4> DEFINE v == work[i].version + 1
        <4>1. y(i) = [work[i] EXCEPT !.version = v, !.holder = Pairs[k].new, !.by = "cutover"]
          OBVIOUS
        <4> HIDE DEF v, y
        <4>2. Record5(work[i])
          BY <2>1 DEF Tracked, Record5
        <4>3. y(i) = [version |-> v, holder |-> Pairs[k].new, live |-> work[i].live,
                      assisted |-> work[i].assisted, by |-> "cutover"]
          BY <4>1, <4>2, Moved
        <4> QED
          BY <4>3 DEF v
      <3>4. handed[i] = 0
        BY <2>1, <3>2 DEF Tracked
      <3> HIDE DEF y
      <3>5. y(i).version = 2 /\ y(i) = [version |-> y(i).version, holder |-> y(i).holder,
                                        live |-> y(i).live, assisted |-> y(i).assisted, by |-> y(i).by]
        BY <3>2, <3>3
      <3>6. 2 \in 1..MaxVersion
        BY ProgramAssumption
      <3> QED
        BY <3>1, <3>4, <3>5, <3>6 DEF Tracked
    <2> QED
      BY <2>2, <2>3
  <1> QED
    BY <1>1, <1>3 DEF Plans

LEMMA VarsRest ==
  ASSUME Tables, Desk, UNCHANGED commands
  PROVE  Tables' /\ OwnersPass /\ Woken /\ Desk' /\ Authorized
  BY TablesRest, DeskRest DEF commands, tables

LEMMA ApplyPairKeeps ==
  ASSUME IInv, ApplyPair
  PROVE  IInv' /\ Good
  <1>1. PICK k \in DOMAIN Pairs : k = run.k
    BY DEF ApplyPair, IInv, Programs, Running
  <1>2. run.program = "cutover" /\ run.stage = "apply" /\ UNCHANGED <<lineage, reviewed>>
    BY DEF ApplyPair
  <1>3. PICK s : s = run.scope
    OBVIOUS
  <1>4. ASSUME NEW a, run' = [run EXCEPT !.stage = "reread", !.commit = a],
               a \in {"acknowledged", "lost"} => k \in summary'
        PROVE  Running'
    <2>1. run' = [program |-> "cutover", scope |-> s, k |-> k, stage |-> "reread", commit |-> a]
      BY <1>1, <1>2, <1>3, <1>4 DEF IInv, Programs, Running
    <2> QED
      BY <1>4, <2>1, PairRuns
  <1>5. Drawn' /\ LinesGrow
    BY <1>2, DrawnRest DEF IInv, Programs
  <1>6. ASSUME UNCHANGED <<vars, work, summary, handed>>, Running', Ledger' PROVE IInv' /\ Good
    <2>1. Tables' /\ OwnersPass /\ Woken /\ Desk' /\ Authorized
      BY <1>6, VarsRest DEF IInv, vars, commands
    <2>2. Plans'
      BY <1>6, PlansRest DEF IInv, Programs
    <2> QED
      BY <1>5, <1>6, <2>1, <2>2 DEF IInv, Programs, Good
  <1>7. CASE /\ k \in summary /\ run' = [run EXCEPT !.stage = "reread", !.commit = "earlier"]
             /\ UNCHANGED <<vars, work, summary, reports, handed>>
    <2>1. Running'
      BY <1>4, <1>7
    <2>2. Ledger'
      BY <1>7, LedgerRest DEF IInv, Programs
    <2> QED
      BY <1>6, <1>7, <2>1, <2>2
  <1>8. CASE /\ Report(k, "CONFLICT", FALSE) /\ Proceed(FALSE)
             /\ UNCHANGED <<vars, work, summary, handed>>
    <2>1. Running'
      BY <1>2, <1>8, ProceedRuns DEF IInv, Programs
    <2>2. "CONFLICT" \in Outcomes
      BY DEF Outcomes
    <2>3. Ledger'
      BY <1>8, <2>2, PairIsRun, ReportKeeps DEF IInv, Programs
    <2> QED
      BY <1>6, <1>8, <2>1, <2>3
  <1>9. CASE /\ Applicable(k) /\ HandOver(k) /\ UNCHANGED reports
             /\ \E a \in {"acknowledged", "lost"} :
                  run' = [run EXCEPT !.stage = "reread", !.commit = a]
    <2>1. summary' = summary \cup {k} /\ UNCHANGED <<request, phase, receipts, told>>
      BY <1>9 DEF HandOver
    <2>2. Running'
      BY <1>4, <1>9, <2>1
    <2>3. Ledger'
      BY <1>9, <2>1, PairIsRun DEF IInv, Programs, Ledger
    <2>4. Tables' /\ OwnersPass /\ Woken
      BY <1>9, HandOverTables DEF IInv
    <2>5. Desk' /\ Authorized
      BY <2>1, DeskRest DEF IInv
    <2>6. Plans'
      BY <1>9, HandOverPlans DEF IInv, Programs
    <2> QED
      BY <1>5, <2>2, <2>3, <2>4, <2>5, <2>6 DEF IInv, Programs, Good
  <1>10. CASE /\ run' = [run EXCEPT !.stage = "reread", !.commit = "failed"]
              /\ UNCHANGED <<vars, work, summary, reports, handed>>
    <2>1. Running'
      <3>1. "failed" \notin {"acknowledged", "lost"}
        OBVIOUS
      <3> QED
        BY <1>4, <1>10, <3>1
    <2>2. Ledger'
      BY <1>10, LedgerRest DEF IInv, Programs
    <2> QED
      BY <1>6, <1>10, <2>1, <2>2
  <1> QED
    BY <1>1, <1>7, <1>8, <1>9, <1>10 DEF ApplyPair

LEMMA RereadKeeps ==
  ASSUME Programs, Reread
  PROVE  Programs' /\ LinesGrow
  <1>1. PICK k \in DOMAIN Pairs : k = run.k
    BY DEF Reread, Programs, Running
  <1>2. /\ run.program = "cutover" /\ run.stage = "reread"
        /\ UNCHANGED <<work, summary, lineage, reviewed, handed>>
    BY DEF Reread
  <1> OnRecord(k) <=> k \in summary
    BY PairIsRun DEF OnRecord
  <1> Wrote => k \in summary
    BY <1>1, <1>2 DEF Programs, Running
  <1>3. CASE Report(k, Observed(k), Wrote) /\ Proceed(PairTerminal(k))
    <2>1. Running'
      BY <1>2, <1>3, ProceedRuns DEF Programs, PairTerminal
    <2>2. Observed(k) \in Outcomes
      BY DEF Observed, Outcomes
    <2>3. Observed(k) \in {"NOOP", "COMMITTED", "APPLIED"} => k \in summary
      BY DEF Observed, PairTerminal
    <2>4. Observed(k) = "ROLLED_BACK" => ~Wrote
      BY <1>1, <1>2 DEF Observed, PairPre, Programs, Running
    <2>5. Ledger'
      BY <1>2, <1>3, <2>2, <2>3, <2>4, PairIsRun, ReportKeeps DEF Programs
    <2> QED
      BY <1>2, <2>1, <2>5, PlansRest, DrawnRest DEF Programs
  <1>4. CASE Report(k, Unseen, Wrote) /\ Proceed(FALSE)
    <2>1. Running'
      BY <1>2, <1>4, ProceedRuns DEF Programs
    <2>2. Unseen \in Outcomes /\ Unseen \notin {"NOOP", "COMMITTED", "APPLIED", "ROLLED_BACK"}
      BY DEF Unseen, Outcomes
    <2>3. Ledger'
      BY <1>2, <1>4, <2>2, PairIsRun, ReportKeeps DEF Programs
    <2> QED
      BY <1>2, <2>1, <2>3, PlansRest, DrawnRest DEF Programs
  <1> QED
    BY <1>1, <1>3, <1>4 DEF Reread

(* What a plan without conflicts has seen. *)
LEMMA PlanKeeps ==
  ASSUME Rows, Programs, PlanRepair
  PROVE  Programs' /\ LinesGrow
  <1> DEFINE o == Observation
  <1>1. /\ reviewed' = <<o>> /\ UNCHANGED <<work, summary, lineage, run, reports, handed>>
        /\ \A l \in Lines : ~LineConflict(l)
    BY DEF PlanRepair
  <1>2. ASSUME NEW l \in Lines
        PROVE  /\ o.rows[l.from].kind # "NONE"
               /\ o.rows[l.to].kind = "AGENT" /\ o.rows[l.to].enabled = TRUE
    <2>1. l.from \in Principals /\ l.to \in Principals
      BY ProgramAssumption
    <2>2. /\ o.rows[l.from].kind = row[l.from].kind /\ o.rows[l.to].kind = row[l.to].kind
          /\ o.rows[l.to].enabled = row[l.to].enabled
      BY DEF Observation
    <2>3. Present(l.from) /\ row[l.to].kind = "AGENT" /\ row[l.to].enabled
      BY <1>1 DEF LineConflict, Enabled
    <2>4. row[l.from].kind # "NONE" /\ row[l.to].enabled \in BOOLEAN
      BY <2>1, <2>3 DEF Rows, Present, RowShape
    <2> QED
      BY <2>2, <2>3, <2>4
  <1> HIDE DEF o
  <1>3. Drawn' /\ LinesGrow
    BY <1>1, <1>2 DEF Programs, Drawn, LinesGrow
  <1> QED
    BY <1>1, <1>3, PlansRest, RunningRest, LedgerRest DEF Programs

LEMMA ApplyRepairKeeps ==
  ASSUME Rows, Programs, ApplyRepair
  PROVE  Programs' /\ LinesGrow
  <1>1. reviewed # << >> /\ UNCHANGED <<work, summary, reviewed, run, handed>>
    BY DEF ApplyRepair
  <1>2. RepairRun \in RunIds
    BY ProgramAssumption DEF RunIds, RepairRun, HumanRun
  <1>3. Ledger'
    <2>1. PICK o \in Outcomes, w \in BOOLEAN :
            /\ Report(RepairRun, o, w) /\ o # "ROLLED_BACK"
            /\ o \in {"NOOP", "COMMITTED", "APPLIED"} \/ w => Lines \subseteq lineage'
      BY DEF ApplyRepair, AlreadyThere, Outcomes
    <2>2. OnRecord(RepairRun) <=> Lines \subseteq lineage'
      BY DEF OnRecord
    <2> QED
      BY <1>1, <1>2, <2>1, <2>2, ReportKeeps DEF Programs
  <1>4. Plans' /\ Running'
    BY <1>1, PlansRest, RunningRest DEF Programs
  <1>5. CASE lineage' = lineage
    BY <1>1, <1>3, <1>4, <1>5, DrawnRest DEF Programs
  <1>6. CASE Fresh /\ lineage' = lineage \cup Lines
    <2> DEFINE o == Observation
    <2>1. reviewed[1] = o
      BY <1>6 DEF Fresh
    <2>2. lineage' = Lines
      BY <1>6 DEF Programs, Drawn
    <2>3. ASSUME NEW l \in Lines
          PROVE  Enabled(l.to) /\ row[l.to].kind = "AGENT" /\ Present(l.from)
      <3>1. l.from \in Principals /\ l.to \in Principals
        BY ProgramAssumption
      <3>2. /\ o.rows[l.from].kind = row[l.from].kind /\ o.rows[l.to].kind = row[l.to].kind
            /\ o.rows[l.to].enabled = row[l.to].enabled
        BY DEF Observation
      <3> HIDE DEF o
      <3>3. row[l.from].kind # "NONE" /\ row[l.to].kind = "AGENT" /\ row[l.to].enabled = TRUE
        BY <1>1, <2>1, <3>2 DEF Programs, Drawn
      <3> QED
        BY <3>3 DEF Enabled, Present, NoRow
    <2>4. \A l, m \in Lines : m.from = l.from => m = l
      BY ProgramAssumption DEF ValidPairs
    <2>5. Drawn' /\ LinesGrow
      BY <1>1, <2>2, <2>3, <2>4 DEF Programs, Drawn, LinesGrow
    <2> QED
      BY <1>3, <1>4, <2>5 DEF Programs
  <1> QED
    BY <1>5, <1>6 DEF ApplyRepair

LEMMA WriteRowsPlans ==
  ASSUME Plans, RowsReady, WriteRows
  PROVE  Plans'
  <1> DEFINE y(i) == [work[i] EXCEPT !.version = @ + 1, !.holder = Human, !.by = "human"]
  <1>1. /\ work' = [i \in Works |-> IF i \notin HumanRows THEN work[i] ELSE y(i)]
        /\ handed' = [i \in Works |-> handed[i] + IF i \in HumanRows THEN 1 ELSE 0]
    BY DEF WriteRows
  <1>2. \A i \in HumanRows : work[i].version = 1
    BY DEF RowsReady
  <1>3. ASSUME NEW i \in Works PROVE Tracked(i)'
    <2>1. Tracked(i)
      BY DEF Plans
    <2>2. CASE i \notin HumanRows
      <3>1. work'[i] = work[i] /\ handed'[i] = handed[i] + 0
        BY <1>1, <2>2
      <3> QED
        BY <2>1, <3>1 DEF Tracked
    <2>3. CASE i \in HumanRows
      <3>1. work'[i] = y(i) /\ handed'[i] = handed[i] + 1
        BY <1>1, <2>3
      <3>2. work[i].version = 1
        BY <1>2, <2>3
      <3>3. y(i) = [version |-> work[i].version + 1, holder |-> Human, live |-> work[i].live,
                    assisted |-> work[i].assisted, by |-> "human"]
        <4> DEFINE v == work[i].version + 1
        <4>1. y(i) = [work[i] EXCEPT !.version = v, !.holder = Human, !.by = "human"]
          OBVIOUS
        <4> HIDE DEF v, y
        <4>2. Record5(work[i])
          BY <2>1 DEF Tracked, Record5
        <4>3. y(i) = [version |-> v, holder |-> Human, live |-> work[i].live,
                      assisted |-> work[i].assisted, by |-> "human"]
          BY <4>1, <4>2, Moved
        <4> QED
          BY <4>3 DEF v
      <3>4. handed[i] = 0
        BY <2>1, <3>2 DEF Tracked
      <3> HIDE DEF y
      <3>5. y(i).version = 2 /\ y(i) = [version |-> y(i).version, holder |-> y(i).holder,
                                        live |-> y(i).live, assisted |-> y(i).assisted, by |-> y(i).by]
        BY <3>2, <3>3
      <3>6. 2 \in 1..MaxVersion
        BY ProgramAssumption
      <3> QED
        BY <3>1, <3>4, <3>5, <3>6 DEF Tracked
    <2> QED
      BY <2>2, <2>3
  <1> QED
    BY <1>1, <1>3 DEF Plans

LEMMA HumanRuns ==
  ASSUME NEW a, run' = [NotRunning EXCEPT !.program = "human", !.stage = "reread", !.commit = a],
         a \in {"acknowledged", "lost"} => HumanRun \in summary'
  PROVE  Running'
  <1>1. run' = [program |-> "human", scope |-> 0, k |-> 0, stage |-> "reread", commit |-> a]
    BY DEF NotRunning
  <1> QED
    BY <1>1 DEF Running, Wrote

LEMMA NormalizeKeeps ==
  ASSUME Programs, Normalize
  PROVE  Programs' /\ LinesGrow
  <1>1. UNCHANGED <<lineage, reviewed>>
    BY DEF Normalize
  <1>2. Drawn' /\ LinesGrow
    BY <1>1, DrawnRest DEF Programs
  <1>3. CASE /\ \/ HumanRun \in summary /\ Report(HumanRun, "NOOP", FALSE)
                \/ Report(HumanRun, "CONFLICT", FALSE)
             /\ UNCHANGED <<work, summary, run, handed>>
    <2>1. OnRecord(HumanRun) <=> HumanRun \in summary
      BY HumanIsRun DEF OnRecord
    <2>2. {"NOOP", "CONFLICT"} \subseteq Outcomes
      BY DEF Outcomes
    <2>3. Ledger'
      BY <1>3, <2>1, <2>2, HumanIsRun, ReportKeeps DEF Programs
    <2> QED
      BY <1>2, <1>3, <2>3, PlansRest, RunningRest DEF Programs
  <1>4. CASE /\ RowsReady /\ WriteRows /\ UNCHANGED reports
             /\ \E a \in {"acknowledged", "lost"} :
                  run' = [NotRunning EXCEPT !.program = "human", !.stage = "reread", !.commit = a]
    <2>1. summary' = summary \cup {HumanRun}
      BY <1>4 DEF WriteRows
    <2>2. Ledger'
      BY <1>4, <2>1, HumanIsRun DEF Programs, Ledger
    <2>3. Running'
      BY <1>4, <2>1, HumanRuns
    <2> QED
      BY <1>2, <1>4, <2>2, <2>3, WriteRowsPlans DEF Programs
  <1>5. CASE /\ run' = [NotRunning EXCEPT !.program = "human", !.stage = "reread", !.commit = "failed"]
             /\ UNCHANGED <<work, summary, reports, handed>>
    <2>1. "failed" \notin {"acknowledged", "lost"}
      OBVIOUS
    <2>2. Running'
      BY <1>5, <2>1, HumanRuns
    <2> QED
      BY <1>2, <1>5, <2>2, PlansRest, LedgerRest DEF Programs
  <1> QED
    BY <1>3, <1>4, <1>5 DEF Normalize

LEMMA VerifyKeeps ==
  ASSUME Programs, VerifyRows
  PROVE  Programs' /\ LinesGrow
  <1>1. PICK o : /\ (o = "APPLIED" /\ HumanRun \in summary) \/ o = Unseen
                 /\ Report(HumanRun, o, Wrote) /\ run' = NotRunning
                 /\ UNCHANGED <<work, summary, lineage, reviewed, handed>>
    BY DEF VerifyRows
  <1>2. /\ o \in Outcomes /\ o \notin {"NOOP", "COMMITTED", "ROLLED_BACK"}
        /\ o = "APPLIED" => HumanRun \in summary
    BY <1>1 DEF Outcomes, Unseen
  <1>3. Wrote => HumanRun \in summary
    BY DEF VerifyRows, Programs, Running
  <1>4. OnRecord(HumanRun) <=> HumanRun \in summary
    BY HumanIsRun DEF OnRecord
  <1>5. Ledger'
    BY <1>1, <1>2, <1>3, <1>4, HumanIsRun, ReportKeeps DEF Programs
  <1> QED
    BY <1>1, <1>5, PlansRest, DrawnRest, IdleRuns DEF Programs

LEMMA AbandonKeeps ==
  ASSUME Programs, Abandon
  PROVE  Programs' /\ LinesGrow
  BY PlansRest, LedgerRest, DrawnRest, IdleRuns DEF Abandon, Programs

(* An instance moves on, ends, or is assisted. *)
LEMMA LiveKeeps ==
  ASSUME Programs, NEW i \in Works, Live(i)
  PROVE  Programs' /\ LinesGrow
  <1>1. UNCHANGED <<summary, lineage, reviewed, run, reports, handed>>
    BY DEF Live, Advance, End, Assist
  <1>2. Tracked(i)
    BY DEF Programs, Plans
  <1>3. PICK y : /\ work' = [work EXCEPT ![i] = y] /\ y.version \in 1..MaxVersion
                 /\ y.version >= work[i].version
                 /\ y = [version |-> y.version, holder |-> y.holder, live |-> y.live,
                         assisted |-> y.assisted, by |-> y.by]
    <2>1. Record5(work[i]) /\ work[i].version \in 1..MaxVersion
      BY <1>2 DEF Tracked, Record5
    <2>2. CASE Advance(i)
      <3>1. PICK p \in {Holder[i], Operator} :
              work' = [work EXCEPT ![i] = [work[i] EXCEPT !.version = @ + 1, !.holder = p, !.by = "service"]]
        BY <2>2, Zenon DEF Advance
      <3>2. work[i].version < MaxVersion
        BY <2>2 DEF Advance
      <3> DEFINE v == work[i].version + 1
                 y == [version |-> v, holder |-> p, live |-> work[i].live,
                       assisted |-> work[i].assisted, by |-> "service"]
      <3>3. [work[i] EXCEPT !.version = v, !.holder = p, !.by = "service"] = y
        <4> HIDE DEF v
        <4> QED
          BY <2>1, Moved
      <3>4. work' = [work EXCEPT ![i] = [work[i] EXCEPT !.version = v, !.holder = p, !.by = "service"]]
        BY <3>1, Zenon
      <3>5. work' = [work EXCEPT ![i] = y]
        BY <3>3, <3>4
      <3>6. v \in 1..MaxVersion /\ v >= work[i].version
        BY <2>1, <3>2, ProgramAssumption
      <3>7. y.version = v /\ Record5(y)
        BY DEF Record5
      <3> HIDE DEF y, v
      <3> QED
        BY <3>5, <3>6, <3>7 DEF Record5
    <2>3. CASE End(i)
      <3> DEFINE y == [version |-> work[i].version, holder |-> work[i].holder, live |-> FALSE,
                       assisted |-> FALSE, by |-> work[i].by]
                 f == [work EXCEPT ![i].live = FALSE]
      <3>1. work' = [f EXCEPT ![i].assisted = FALSE]
        BY <2>3 DEF End
      <3>2. work = [a \in Works |-> work[a]]
        BY DEF Programs, Plans
      <3>3. /\ f = [a \in Works |-> f[a]] /\ f[i] = [work[i] EXCEPT !.live = FALSE]
            /\ \A a \in Works \ {i} : f[a] = work[a]
        BY <3>2
      <3>4. [[work[i] EXCEPT !.live = FALSE] EXCEPT !.assisted = FALSE] = y
        BY <2>1, Switched
      <3> HIDE DEF f, y
      <3>5. work' = [f EXCEPT ![i] = [f[i] EXCEPT !.assisted = FALSE]]
        BY <3>1
      <3>6. work' = [work EXCEPT ![i] = y]
        BY <3>2, <3>3, <3>4, <3>5
      <3>7. y.version = work[i].version /\ Record5(y)
        BY DEF y, Record5
      <3>8. y.version \in 1..MaxVersion /\ y.version >= work[i].version
        BY <2>1, <3>7, ProgramAssumption
      <3> QED
        BY <3>6, <3>7, <3>8 DEF Record5
    <2>4. CASE Assist(i)
      <3> DEFINE b == ~work[i].assisted
                 y == [version |-> work[i].version, holder |-> work[i].holder, live |-> work[i].live,
                       assisted |-> b, by |-> work[i].by]
      <3>1. work' = [work EXCEPT ![i] = [work[i] EXCEPT !.assisted = b]]
        BY <2>4 DEF Assist
      <3> HIDE DEF b
      <3>2. work' = [work EXCEPT ![i] = y]
        BY <2>1, <3>1, Switched
      <3>3. y.version = work[i].version /\ Record5(y)
        BY DEF Record5
      <3> HIDE DEF y
      <3>4. y.version \in 1..MaxVersion /\ y.version >= work[i].version
        BY <2>1, <3>3, ProgramAssumption
      <3> QED
        BY <3>2, <3>3, <3>4 DEF Record5
    <2> QED
      BY <2>2, <2>3, <2>4 DEF Live
  <1>4. ASSUME NEW a \in Works PROVE Tracked(a)'
    <2>1. CASE a = i
      <3>1. work'[a] = y /\ handed'[a] = handed[i]
        BY <1>1, <1>3, <2>1 DEF Programs, Plans
      <3> QED
        BY <1>2, <1>3, <2>1, <3>1, ProgramAssumption DEF Tracked
    <2>2. CASE a # i
      BY <1>1, <1>3, <2>2 DEF Programs, Plans, Tracked
    <2> QED
      BY <2>1, <2>2
  <1>5. Plans'
    BY <1>1, <1>3, <1>4 DEF Programs, Plans
  <1> QED
    BY <1>1, <1>5, RunningRest, LedgerRest, DrawnRest DEF Programs

-----------------------------------------------------------------------------
(* All together.                                                            *)

(* A committed pair is in its exact terminal state, a committed group in its   *)
(* own: what apply_pair and write_row write is what the second look asks for. *)
LEMMA HandOverIsExact ==
  ASSUME Tables, Plans, NEW k \in DOMAIN Pairs, Applicable(k), HandOver(k)
  PROVE  PairTerminal(k)'
  <1> DEFINE old == Pairs[k].old
             new == Pairs[k].new
             moved == {i \in Pairs[k].works : work[i].live}
             y(i) == [work[i] EXCEPT !.version = @ + 1, !.holder = new, !.by = "cutover"]
  <1>1. /\ old \in Principals /\ new \in Principals /\ Pairs[k].works \subseteq Works
        /\ Pairs[k].tuples \subseteq Domains \X Roles
    BY ProgramAssumption DEF ValidPlan
  <1>2. row'[new] = Projection /\ k \in summary'
    BY <1>1 DEF HandOver, Tables, Rows
  <1>3. ASSUME NEW t \in Pairs[k].tuples PROVE TupleState(k, t)' = "READY"
    <2>1. t[1] \in Domains /\ t[2] \in Roles /\ t = <<t[1], t[2]>>
      BY <1>1
    <2>2. <<t[1], old, t[2]>> \in DOMAIN binding /\ <<t[1], new, t[2]>> \in DOMAIN binding
      BY <1>1, <2>1 DEF Tables, Bindings, Triples
    <2>3. TupleState(k, t) = "PRE"
      BY DEF Applicable
    <2>4. /\ domain[t[1]].enabled /\ domain[t[1]].key = InitialDomain[t[1]].key
          /\ binding[<<t[1], old, t[2]>>] = "on" /\ binding[<<t[1], new, t[2]>>] # "on"
      BY <2>3 DEF TupleState
    <2>5. old # new
      BY <2>4
    <2>6. domain' = domain
      BY DEF HandOver
    <2>7. \A x \in DOMAIN binding :
            binding'[x] = IF <<x[1], x[3]>> \notin Pairs[k].tuples THEN binding[x]
                          ELSE IF x[2] = old THEN "off" ELSE IF x[2] = new THEN "on" ELSE binding[x]
      BY DEF HandOver
    <2>8. binding'[<<t[1], old, t[2]>>] = "off" /\ binding'[<<t[1], new, t[2]>>] = "on"
      BY <2>1, <2>2, <2>5, <2>7
    <2> QED
      BY <2>4, <2>6, <2>8 DEF TupleState
  <1>4. ASSUME NEW i \in Pairs[k].works PROVE WorkState(k, i)' \in {"READY", "TERMINAL"}
    <2>1. i \in Works /\ Record5(work[i])
      BY <1>1 DEF Plans, Tracked, Record5
    <2>2. work'[i] = IF i \notin moved THEN work[i] ELSE y(i)
      BY <2>1 DEF HandOver
    <2>3. CASE ~work[i].live
      BY <2>2, <2>3 DEF WorkState
    <2>4. CASE work[i].live
      <3> DEFINE v == work[i].version + 1
      <3>1. work[i].version = 1
        BY <2>4 DEF Applicable, WorkState
      <3>2. work'[i] = [work[i] EXCEPT !.version = v, !.holder = new, !.by = "cutover"]
        BY <2>2, <2>4
      <3>3. v = 2
        BY <3>1
      <3> HIDE DEF v
      <3>4. work'[i] = [version |-> v, holder |-> new, live |-> work[i].live,
                        assisted |-> work[i].assisted, by |-> "cutover"]
        BY <2>1, <3>2, Moved
      <3> QED
        BY <2>4, <3>3, <3>4 DEF WorkState
    <2> QED
      BY <2>3, <2>4
  <1> QED
    BY <1>2, <1>3, <1>4 DEF PairTerminal

LEMMA WriteRowsIsExact ==
  ASSUME Plans, RowsReady, WriteRows
  PROVE  RowsExact'
  <1> SUFFICES ASSUME NEW i \in HumanRows
               PROVE  /\ work'[i].live /\ work'[i].version = 2
                      /\ work'[i].holder = Human /\ work'[i].by = "human"
    BY DEF RowsExact
  <1> DEFINE v == work[i].version + 1
  <1>1. i \in Works /\ Record5(work[i])
    BY ProgramAssumption DEF Plans, Tracked, Record5
  <1>2. work'[i] = [work[i] EXCEPT !.version = v, !.holder = Human, !.by = "human"]
    BY <1>1 DEF WriteRows
  <1>3. work[i].live /\ work[i].version = 1 /\ v = 2
    BY DEF RowsReady
  <1> HIDE DEF v
  <1>4. work'[i] = [version |-> v, holder |-> Human, live |-> work[i].live,
                    assisted |-> work[i].assisted, by |-> "human"]
    BY <1>1, <1>2, Moved
  <1> QED
    BY <1>3, <1>4

LEMMA CommitsAreExact ==
  ASSUME IInv, [PNext]_all
  PROVE  Exact
  <1>1. CASE summary' = summary
    BY <1>1 DEF Exact
  <1>2. CASE run.k \in DOMAIN Pairs /\ Applicable(run.k) /\ HandOver(run.k)
    <2>1. PICK k \in DOMAIN Pairs : k = run.k
      BY <1>2
    <2>2. PairTerminal(k)'
      BY <1>2, <2>1, HandOverIsExact DEF IInv, Programs
    <2>3. summary' = summary \cup {k}
      BY <1>2, <2>1 DEF HandOver
    <2> QED
      BY <2>2, <2>3, PairIsRun DEF Exact
  <1>3. CASE RowsReady /\ WriteRows
    <2>1. summary' = summary \cup {HumanRun}
      BY <1>3 DEF WriteRows
    <2> QED
      BY <1>3, <2>1, WriteRowsIsExact, PairIsRun DEF Exact, IInv, Programs
  <1>4. CASE ApplyPair
    <2>1. run.k \in DOMAIN Pairs
      BY <1>4 DEF ApplyPair, IInv, Programs, Running
    <2> QED
      BY <1>1, <1>2, <1>4, <2>1 DEF ApplyPair
  <1>5. CASE Normalize
    BY <1>1, <1>3, <1>5 DEF Normalize
  <1>6. CASE Program /\ ~ApplyPair /\ ~Normalize
    BY <1>1, <1>6 DEF Program, StartCutover, Reread, PlanRepair, ApplyRepair, VerifyRows, Abandon
  <1> QED
    BY <1>1, <1>4, <1>5, <1>6
    DEF PNext, Serve, Live, Advance, End, Assist, programs, all

LEMMA InitHolds == PInit => IInv
  <1> SUFFICES ASSUME PInit PROVE IInv
    OBVIOUS
  <1>1. Rows /\ Bindings /\ Keyed /\ Sole
    BY TablesAssumption, DirectoryAssumption
    DEF PInit, Init, Rows, Bindings, Keyed, Sole, Owns, Exists, Triples, States, DomainShape
  <1>2. Desk
    BY DEF PInit, Init, Desk, Clerks, Clerk, Books, Reserved
  <1>3. Plans
    <2>1. /\ work = [i \in Works |-> [version |-> 1, holder |-> Holder[i], live |-> TRUE,
                                     assisted |-> FALSE, by |-> "service"]]
          /\ handed = [i \in Works |-> 0]
      BY DEF PInit
    <2>2. 1 \in 1..MaxVersion
      BY ProgramAssumption
    <2>3. ASSUME NEW i \in Works PROVE Tracked(i)
      <3>1. /\ handed[i] = 0 /\ work[i] = [version |-> 1, holder |-> Holder[i], live |-> TRUE,
                                          assisted |-> FALSE, by |-> "service"]
        BY <2>1
      <3> QED
        BY <2>2, <3>1 DEF Tracked
    <2> QED
      BY <2>1, <2>3 DEF Plans
  <1>4. Running /\ Ledger /\ Drawn
    BY DEF PInit, NotRunning, Running, Ledger, Drawn
  <1> QED
    BY <1>1, <1>2, <1>3, <1>4 DEF IInv, Tables, Programs

LEMMA StepKeeps == IInv /\ [PNext]_all => IInv' /\ Good
  <1> SUFFICES ASSUME IInv, [PNext]_all PROVE IInv' /\ Good
    OBVIOUS
  <1>1. ASSUME NEW c \in Clients, Handle(c), UNCHANGED programs PROVE IInv' /\ Good
    BY <1>1, HandleKeeps, ProgramsRest DEF IInv, Good
  <1>2. ASSUME UNCHANGED commands, Programs', LinesGrow PROVE IInv' /\ Good
    BY <1>2, VarsRest DEF IInv, Good
  <1>3. ASSUME NEW i \in Works, Live(i) PROVE IInv' /\ Good
    BY <1>2, <1>3, LiveKeeps DEF IInv, Live, Advance, End, Assist
  <1>4. ASSUME NEW s \in DOMAIN Scopes, StartCutover(s) PROVE IInv' /\ Good
    BY <1>2, <1>4, StartKeeps DEF IInv, StartCutover
  <1>5. CASE ApplyPair
    BY <1>5, ApplyPairKeeps
  <1>6. CASE Reread
    BY <1>2, <1>6, RereadKeeps DEF IInv, Reread, vars, commands
  <1>7. CASE PlanRepair
    BY <1>2, <1>7, PlanKeeps DEF IInv, Tables, PlanRepair
  <1>8. CASE ApplyRepair
    BY <1>2, <1>8, ApplyRepairKeeps DEF IInv, Tables, ApplyRepair
  <1>9. CASE Normalize
    BY <1>2, <1>9, NormalizeKeeps DEF IInv, Normalize
  <1>10. CASE VerifyRows
    BY <1>2, <1>10, VerifyKeeps DEF IInv, VerifyRows, vars, commands
  <1>11. CASE Abandon
    BY <1>2, <1>11, AbandonKeeps DEF IInv, Abandon, vars, commands
  <1>12. CASE UNCHANGED all
    <2>1. UNCHANGED commands /\ UNCHANGED programs
      BY <1>12 DEF all, vars, commands
    <2> QED
      BY <1>2, <2>1, ProgramsRest DEF IInv
  <1> QED
    BY <1>1, <1>3, <1>4, <1>5, <1>6, <1>7, <1>8, <1>9, <1>10, <1>11, <1>12
    DEF PNext, Serve, Program

LEMMA Invariance == Spec => []IInv
  BY InitHolds, StepKeeps, PTL DEF Spec

LEMMA TypeImplied == IInv => TypeOK
  <1> SUFFICES ASSUME IInv PROVE TypeOK
    OBVIOUS
  <1>1. \A p \in Principals :
          row[p] # NoRow => row[p].kind \in {"AGENT", "HUMAN"} /\ row[p].enabled \in BOOLEAN
    BY DEF IInv, Tables, Rows, RowShape
  <1>2. /\ \A d \in Domains : domain[d] = NoDomain \/ domain[d].key \in DomainKeys
        /\ \A x \in DOMAIN binding : binding[x] \in {"none", "on", "off"}
        /\ \A p \in Principals : coordinator[p] \in {"none", "on", "off"}
    BY DEF IInv, Tables, Keyed, Bindings, DomainShape, States
  <1>3. \A x \in receipts : x.answer \in Answers
    BY DEF IInv, Desk, Books, Known, Answers
  <1>4. \A c \in Clients : /\ phase[c] \in {"idle", "asked", "gated", "looked"}
                           /\ (request[c] = NoRequest) <=> (phase[c] = "idle")
    BY NoRequestIsNone DEF IInv, Desk, Clerks, Clerk
  <1>5. \A i \in Works : work[i].version \in 1..MaxVersion /\ handed[i] \in 0..MaxVersion
    BY ProgramAssumption DEF IInv, Programs, Plans, Tracked
  <1>6. /\ summary \subseteq RunIds /\ lineage \subseteq Lines
        /\ run.stage \in {"idle", "apply", "reread"} /\ \A r \in reports : r.outcome \in Outcomes
    BY DEF IInv, Programs, Running, Ledger, Drawn, True
  <1> QED
    BY <1>1, <1>2, <1>3, <1>4, <1>5, <1>6 DEF TypeOK

LEMMA OwnerImplied == IInv => OneOwner
  <1> SUFFICES ASSUME IInv PROVE OneOwner
    OBVIOUS
  <1>1. ASSUME NEW d \in Domains
        PROVE  Cardinality({p \in Principals : HasRole(d, p, "DOMAIN_OWNER")}) <= 1
    <2> DEFINE S == {p \in Principals : HasRole(d, p, "DOMAIN_OWNER")}
    <2>1. CASE S = {}
      BY <2>1, FS_EmptySet
    <2>2. CASE S # {}
      <3>1. PICK p \in S : TRUE
        BY <2>2
      <3>2. S = {p}
        BY <3>1 DEF IInv, Tables, Sole, Owns, HasRole
      <3>3. Cardinality({p}) = 1
        BY FS_Singleton
      <3> QED
        BY <3>2, <3>3
    <2> QED
      BY <2>1, <2>2
  <1>2. \A d, e \in Domains : d # e /\ domain[d] # NoDomain => domain[d].key # domain[e].key
    BY DEF IInv, Tables, Keyed, Exists
  <1> QED
    BY <1>1, <1>2 DEF OneOwner

LEMMA AnswerImplied == IInv => SameAnswer
  <1> SUFFICES ASSUME IInv, NEW t \in told, NEW u \in told,
                      t.req.actor = u.req.actor, t.req.key = u.req.key
               PROVE  t = u
    BY DEF SameAnswer
  <1> DEFINE x == Decides(t.req, t.answer)
             y == Decides(u.req, u.answer)
  <1>1. x \in receipts /\ y \in receipts
    BY DEF IInv, Desk, Books
  <1>2. x.actor = t.req.actor /\ x.key = t.req.key /\ x.job = t.req.job /\ x.answer = t.answer
    BY DEF Decides
  <1>3. y.actor = u.req.actor /\ y.key = u.req.key /\ y.job = u.req.job /\ y.answer = u.answer
    BY DEF Decides
  <1> HIDE DEF x, y
  <1>4. x = y
    BY <1>1, <1>2, <1>3 DEF IInv, Desk, Books
  <1>5. t.req \in Requests /\ u.req \in Requests
    BY DEF IInv, Desk, Books
  <1>6. t.req = u.req
    BY <1>2, <1>3, <1>4, <1>5, DirectoryAssumption
  <1> QED
    BY <1>2, <1>3, <1>4, <1>6 DEF IInv, Desk, Books

LEMMA ReportImplied == IInv => ReportIsTrue
  BY DEF IInv, Programs, Plans, Tracked, Ledger, True, ReportIsTrue

(* The tables, the clients and the programs keep their types, whatever is     *)
(* asked and run.                                                            *)
THEOREM TypeCorrect == Spec => []TypeOK
  BY Invariance, TypeImplied, PTL

(* A domain has one owner at most, a key names one domain, and an owned       *)
(* domain loses its owner only by name: provisioning, replacement, reconcile, *)
(* membership and cutover in any order (the partial unique index on owners is *)
(* a backstop that no sequence of commands meets).                           *)
THEOREM OwnershipHolds == Spec => OwnershipSafety
  <1>1. IInv /\ [PNext]_all =>
          [\A d \in Domains :
             Owners(d) # {} => \/ Owners(d)' # {}
                               \/ \E x \in receipts' \ receipts : TakesAway(x, d)]_all
    BY StepKeeps DEF Good, OwnersPass, New
  <1>2. Spec => OwnerKept
    BY <1>1, Invariance, PTL DEF Spec, OwnerKept
  <1>3. Spec => []OneOwner
    BY Invariance, OwnerImplied, PTL
  <1> QED
    BY <1>2, <1>3 DEF OwnershipSafety

(* A key is answered once and for all, control plane commands succeed on      *)
(* current authority only, and nothing but another enabled principal brings a *)
(* disabled one back (lock_and_check_coordinator, ensure_provisioning_actor,  *)
(* error_from_body).                                                         *)
THEOREM CommandsHold == Spec => CommandSafety
  <1>1. IInv /\ [PNext]_all =>
          [\A x \in receipts' \ receipts :
             x.job.op \in CoordinatorOps /\ x.answer \in Successes
               => Enabled(x.actor) /\ coordinator[x.actor] = "on"]_all
    BY StepKeeps DEF Good, Authorized, New
  <1>2. IInv /\ [PNext]_all =>
          [\A p \in Principals :
             Present(p) /\ ~Enabled(p) /\ Enabled(p)'
               => \E x \in receipts' \ receipts :
                    x.job.op = "principal" /\ x.job.p = p /\ x.actor # p /\ Enabled(x.actor)]_all
    BY StepKeeps DEF Good, Woken, New
  <1> QED
    BY <1>1, <1>2, Invariance, AnswerImplied, PTL
    DEF Spec, CommandSafety, AuthorityIsCurrent, OffStaysOff

(* An outcome that claims the work has it on record, a rollback wrote nothing, *)
(* and work that was written is on record under any outcome, CONFLICT and     *)
(* OUTCOME_UNKNOWN included (main prints both with writes 0, of a committed   *)
(* pair too); a commit leaves exactly what the second look asks for, no       *)
(* instance is handed over twice, and a successor line is drawn once, to an   *)
(* enabled agent, on what was reviewed (cutover, repair and normalization     *)
(* beside the live service).                                                 *)
THEOREM ProgramsHold == Spec => ProgramSafety
  <1>1. IInv /\ [PNext]_all =>
          [/\ lineage \subseteq lineage'
           /\ \A l \in lineage' \ lineage :
                /\ Enabled(l.to) /\ row[l.to].kind = "AGENT" /\ Present(l.from)
                /\ \A m \in lineage' : m.from = l.from => m = l]_all
    BY StepKeeps DEF Good, LinesGrow
  <1>2. IInv /\ [PNext]_all =>
          [/\ \A k \in DOMAIN Pairs : k \in summary' \ summary => PairTerminal(k)'
           /\ HumanRun \in summary' \ summary => RowsExact']_all
    BY CommitsAreExact DEF Exact
  <1> QED
    BY <1>1, <1>2, Invariance, ReportImplied, PTL
    DEF Spec, ProgramSafety, LineageSafety, CommittedIsExact

=============================================================================
