-------------------------- MODULE DefinitionProofs --------------------------
(***************************************************************************)
(* Theorems about Definitions, for any clients, requests, definitions,      *)
(* stored tables and pool.                                                  *)
(***************************************************************************)
EXTENDS DefinitionProperties, FiniteSetTheorems, TLAPS

-----------------------------------------------------------------------------
(* The inductive invariant.                                                 *)

There(v) == version[v].status # "none"
Shaped(y) ==
  y = [status |-> y.status, model |-> y.model, content |-> y.content,
       edits |-> y.edits, digest |-> y.digest, born |-> y.born]

(* A row of a version has its columns; the numbers before it are taken. *)
RowOf(v) ==
  /\ Shaped(version[v])
  /\ version[v].status \in Statuses /\ version[v].model \in 1..3 /\ version[v].edits \in Nat
  /\ version[v].content.schema \in Schemas
  /\ version[v].content.graph.targets \subseteq Versions
  /\ WellDrawn(version[v].content.graph)
  /\ There(v) => defs[v[1]] # "none" /\ \A n \in 1..v[2] : There(<<v[1], n>>)

(* PublishedAsChecked, version by version. *)
Legal(v) ==
  Issued(v) =>
    /\ ContentLegal(version[v].model, version[v].content)
    /\ version[v].digest = version[v].content
    /\ \A t \in version[v].content.graph.targets : Issued(t)

Rows ==
  /\ defs \in [DefinitionIds -> {"none", "live", "archived"}]
  /\ version = [v \in Versions |-> version[v]]
  /\ \A v \in Versions : RowOf(v) /\ Legal(v)

(* What a command did, in a form no later command undoes: the draft that was *)
(* made for a key is still there.                                           *)
Recorded(r) ==
  /\ Done(r)
  /\ r.op = "draft" =>
       \E v \in Versions : /\ v[1] = r.d /\ version[v].born = r.key /\ version[v].model = r.model
                          /\ There(v)

(* Vouched, in the same form. *)
Stands(r) ==
  \/ Recorded(r)
  \/ /\ r.op \in {"replace", "draft"}
     /\ \E q \in Requests : /\ q.key = r.key /\ Hash(q) = Hash(r)
                           /\ Unhashed(q) # Unhashed(r) /\ Recorded(q)

(* What a command that has made its checks still may rely on. *)
Checked(c) ==
  LET r == request[c] IN
  phase[c] = "read" =>
    /\ r.op \in {"draft", "archive"} => defs[r.d] # "none"
    /\ r.op = "draft" =>
         /\ seen[c].number \in Nat \ {0}
         /\ \A n \in 1..MaxVersion : n < seen[c].number => There(<<r.d, n>>)
    /\ r.op = "publish" => There(r.v) /\ ContentLegal(version[r.v].model, seen[c].content)

Client(c) ==
  /\ phase[c] \in Phases
  /\ phase[c] # "idle" => request[c] \in Requests
  /\ phase[c] = "idle" => request[c] = NoRequest
  /\ Checked(c)
  /\ phase[c] = "settled" /\ answer[c] = "ok" => Recorded(request[c])
  /\ phase[c] = "told" /\ answer[c] = "ok" => Stands(request[c])

Receipt(k) ==
  /\ receipts[k].state \in {"none", "processing", "completed"}
  /\ receipts[k].answer = "ok" =>
       /\ receipts[k].req \in Requests /\ receipts[k].req.key = k
       /\ Recorded(receipts[k].req)

Busy == {c \in Clients : phase[c] # "idle"}
Pool == IsFiniteSet(Busy) /\ Cardinality(Busy) <= PoolSize

Clerks ==
  /\ request = [c \in Clients |-> request[c]] /\ phase = [c \in Clients |-> phase[c]]
  /\ answer = [c \in Clients |-> answer[c]]
  /\ seen = [c \in Clients |-> [content |-> seen[c].content, number |-> seen[c].number]]
  /\ \A c \in Clients : Client(c)

Books == receipts = [k \in Keys |-> receipts[k]] /\ \A k \in Keys : Receipt(k)

IInv ==
  /\ Rows /\ Clerks /\ Books /\ Pool
  /\ owner \in BOOLEAN /\ stimuli \in 0..MaxStimuli

LEMMA NoRequestIsNone == NoRequest \notin Requests
  BY DefinitionsAssumption DEF NoRequest, Ops

LEMMA InvariantImplies == IInv => TypeOK /\ PublishedAsChecked /\ OkIsOnRecord
  <1> SUFFICES ASSUME IInv PROVE TypeOK /\ PublishedAsChecked /\ OkIsOnRecord
    OBVIOUS
  <1>1. Spare \in 0..PoolSize
    <2>1. Cardinality(Busy) \in Nat
      BY FS_CardinalityType DEF IInv, Pool
    <2> QED
      BY <2>1, DefinitionsAssumption DEF IInv, Pool, Spare, Busy
  <1>2. TypeOK
    <2>1. \A v \in Versions :
            /\ version[v].status \in Statuses
            /\ version[v].model \in 1..3
            /\ version[v].content.schema \in Schemas
            /\ version[v].status # "none" =>
                 defs[v[1]] # "none" /\ \A n \in 1..v[2] : version[<<v[1], n>>].status # "none"
      BY DEF IInv, Rows, RowOf, There
    <2>2. \A c \in Clients : phase[c] = "idle" <=> request[c] = NoRequest
      BY NoRequestIsNone DEF IInv, Clerks, Client
    <2>3. phase \in [Clients -> Phases]
      BY DEF IInv, Clerks, Client
    <2>4. \A k \in Keys : receipts[k].state \in {"none", "processing", "completed"}
      BY DEF IInv, Books, Receipt
    <2>5. DOMAIN version = Versions
      BY DEF IInv, Rows
    <2> QED
      BY <1>1, <2>1, <2>2, <2>3, <2>4, <2>5 DEF IInv, Rows, TypeOK
  <1>3. PublishedAsChecked
    BY DEF IInv, Rows, Legal, PublishedAsChecked
  <1>4. OkIsOnRecord
    <2>1. \A k \in Keys : receipts[k].answer = "ok" => Done(receipts[k].req)
      BY DEF IInv, Books, Receipt, Recorded
    <2>2. \A r : Stands(r) => Vouched(r)
      BY DEF Stands, Vouched, Recorded
    <2>3. ASSUME NEW c \in Clients, answer[c] = "ok"
          PROVE  /\ phase[c] = "settled" => Done(request[c])
                 /\ phase[c] = "told" => Vouched(request[c])
      BY <2>2, <2>3 DEF IInv, Clerks, Client, Recorded
    <2> QED
      BY <2>1, <2>3 DEF OkIsOnRecord
  <1> QED
    BY <1>2, <1>3, <1>4

LEMMA InitHolds == Init => IInv
  <1> SUFFICES ASSUME Init PROVE IInv
    OBVIOUS
  <1>1. PICK x \in Stored : defs = x.defs /\ version = x.version
    BY DEF Init
  <1>2. \A v \in Versions : RowOf(v)
    <2> TAKE v \in Versions
    <2>1. Shaped(version[v])
      BY <1>1, StoredAssumption DEF Shaped
    <2>2. /\ version[v].status \in Statuses /\ version[v].model \in 1..3
          /\ version[v].edits \in Nat /\ version[v].content.schema \in Schemas
          /\ version[v].content.graph.targets \subseteq Versions
          /\ WellDrawn(version[v].content.graph)
      BY <1>1, StoredAssumption
    <2>3. There(v) => defs[v[1]] # "none" /\ \A n \in 1..v[2] : There(<<v[1], n>>)
      <3>1. x.version[v].status # "none" =>
              x.defs[v[1]] # "none" /\ \A n \in 1..v[2] : x.version[<<v[1], n>>].status # "none"
        BY StoredAssumption
      <3> QED
        BY <1>1, <3>1 DEF There
    <2> QED
      BY <2>1, <2>2, <2>3 DEF RowOf
  <1>3. \A v \in Versions : Legal(v)
    BY <1>1, StoredAssumption DEF Legal, Issued
  <1>4. Rows
    BY <1>1, <1>2, <1>3, StoredAssumption DEF Rows
  <1>5. Clerks
    BY DEF Init, Clerks, Client, Checked, NothingSeen, Phases
  <1>6. Books
    BY DEF Init, Books, Receipt, NoReceipt
  <1>7. Pool
    <2>1. Busy = {}
      BY DEF Init, Busy
    <2> QED
      BY <2>1, FS_EmptySet, DefinitionsAssumption DEF Pool
  <1> QED
    BY <1>4, <1>5, <1>6, <1>7, DefinitionsAssumption DEF Init, IInv

-----------------------------------------------------------------------------
(* What a step may do to a version and to a definition.                      *)

LEMMA EmptyIsDrawn == WellDrawn(EmptyGraph)
  <1>1. DOMAIN << >> = {}
    OBVIOUS
  <1> QED
    BY <1>1, FS_EmptySet DEF WellDrawn, EmptyGraph, NodesOf

Kept(v) == version'[v] = version[v]

(* A draft is made at the next number, ... *)
Made(v) ==
  /\ ~There(v) /\ defs[v[1]] # "none" /\ \A n \in 1..v[2] : n < v[2] => There(<<v[1], n>>)
  /\ Shaped(version'[v]) /\ version'[v].status = "DRAFT" /\ version'[v].model \in 1..3
  /\ version'[v].content = NoContent /\ version'[v].edits = 0

(* ... its graph is replaced, ... *)
Edited(v) ==
  /\ version[v].status = "DRAFT"
  /\ Shaped(version'[v]) /\ version'[v].status = "DRAFT" /\ version'[v].model = version[v].model
  /\ version'[v].born = version[v].born /\ version'[v].edits = version[v].edits + 1
  /\ version'[v].content.schema \in Schemas
  /\ version'[v].content.graph.targets \subseteq Versions
  /\ WellDrawn(version'[v].content.graph)

(* ... it is published as it is, ... *)
Released(v) ==
  /\ version[v].status = "DRAFT"
  /\ Shaped(version'[v]) /\ version'[v].status = "PUBLISHED"
  /\ version'[v].model = version[v].model /\ version'[v].content = version[v].content
  /\ version'[v].born = version[v].born /\ version'[v].edits = version[v].edits
  /\ version'[v].digest = version[v].content
  /\ ContentLegal(version[v].model, version[v].content)
  /\ \A t \in version[v].content.graph.targets : Issued(t)

(* ... and it is withdrawn, which changes its status only. *)
Withdrawn(v) ==
  /\ Shaped(version'[v]) /\ <<version[v].status, version'[v].status>> \in Forward
  /\ version'[v].model = version[v].model /\ version'[v].content = version[v].content
  /\ version'[v].born = version[v].born /\ version'[v].edits = version[v].edits
  /\ version'[v].digest = version[v].digest

(* A definition is created once and archived for good; what was stored for   *)
(* a key has been.                                                           *)
Evolves ==
  /\ replaced \subseteq replaced'
  /\ version' = [v \in Versions |-> version'[v]]
  /\ \A v \in Versions : Kept(v) \/ Made(v) \/ Edited(v) \/ Released(v) \/ Withdrawn(v)
  /\ defs' \in [DefinitionIds -> {"none", "live", "archived"}]
  /\ \A d \in DefinitionIds :
       /\ defs[d] # "none" => defs'[d] # "none"
       /\ defs[d] = "archived" => defs'[d] = "archived"

LEMMA NoRowsNoChange ==
  ASSUME Rows, UNCHANGED <<defs, version, replaced>>
  PROVE  Evolves
  BY DEF Rows, Evolves, Kept

LEMMA VersionsArePairs == \A v \in Versions : v = <<v[1], v[2]>> /\ v[1] \in DefinitionIds /\ v[2] \in 1..MaxVersion
  BY DEF Versions

(* A version that is there stays, of the same model; what is issued is kept. *)
LEMMA ThereStays ==
  ASSUME Rows, Evolves, NEW v \in Versions
  PROVE  /\ There(v) => There(v)' /\ version'[v].model = version[v].model
                        /\ version'[v].born = version[v].born
                        /\ version'[v].edits >= version[v].edits
         /\ Issued(v) => Issued(v)' /\ version'[v].digest = version[v].digest
                         /\ version'[v].content = version[v].content
  <1>1. CASE Kept(v)
    BY <1>1 DEF Kept, There, Issued, Rows, RowOf
  <1>2. CASE Made(v)
    BY <1>2 DEF Made, There, Issued
  <1>3. CASE Edited(v)
    BY <1>3 DEF Edited, There, Issued, Rows, RowOf
  <1>4. CASE Released(v)
    BY <1>4 DEF Released, There, Issued, Rows, RowOf
  <1>5. CASE Withdrawn(v)
    BY <1>5 DEF Withdrawn, There, Issued, Forward, Rows, RowOf
  <1> QED
    BY <1>1, <1>2, <1>3, <1>4, <1>5 DEF Evolves

LEMMA RowsStep ==
  ASSUME Rows, Evolves
  PROVE  Rows'
  <1>1. ASSUME NEW v \in Versions PROVE RowOf(v)'
    <2>1. v[1] \in DefinitionIds /\ v[2] \in 1..MaxVersion /\ MaxVersion \in Nat
      BY VersionsArePairs, DefinitionsAssumption
    <2>2. \A n \in 1..v[2] : <<v[1], n>> \in Versions
      BY <2>1 DEF Versions
    <2>3. There(v) => /\ defs[v[1]] # "none" /\ defs'[v[1]] # "none"
                      /\ \A n \in 1..v[2] : There(<<v[1], n>>)'
      BY <2>1, <2>2, ThereStays DEF Rows, RowOf, Evolves
    <2>4. CASE Kept(v)
      BY <2>3, <2>4 DEF Kept, Rows, RowOf, There, Shaped
    <2>5. CASE Made(v)
      <3>1. \A n \in 1..v[2] : n < v[2] => There(<<v[1], n>>)'
        BY <2>2, <2>5, ThereStays DEF Made
      <3>2. There(v)' /\ <<v[1], v[2]>> = v
        BY <2>5, VersionsArePairs DEF Made, There
      <3>3. \A n \in 1..v[2] : There(<<v[1], n>>)'
        BY <2>1, <3>1, <3>2
      <3>4. defs'[v[1]] # "none"
        BY <2>1, <2>5 DEF Made, Evolves
      <3>5. /\ version'[v].content.schema \in Schemas
            /\ version'[v].content.graph.targets \subseteq Versions
            /\ WellDrawn(version'[v].content.graph)
        BY <2>5, EmptyIsDrawn DEF Made, NoContent, EmptyGraph, Schemas
      <3> QED
        BY <2>5, <3>3, <3>4, <3>5 DEF Made, RowOf, Statuses, Shaped
    <2>6. CASE Edited(v)
      BY <2>3, <2>6 DEF Edited, Rows, RowOf, There, Shaped, Statuses
    <2>7. CASE Released(v)
      BY <2>3, <2>7 DEF Released, Rows, RowOf, There, Shaped, Statuses
    <2>8. CASE Withdrawn(v)
      BY <2>3, <2>8 DEF Withdrawn, Rows, RowOf, There, Shaped, Statuses, Forward
    <2> QED
      BY <2>4, <2>5, <2>6, <2>7, <2>8 DEF Evolves
  <1>2. ASSUME NEW v \in Versions PROVE Legal(v)'
    <2>1. CASE Issued(v)
      <3>1. /\ version'[v].content = version[v].content /\ version'[v].model = version[v].model
            /\ version'[v].digest = version[v].digest
        BY <2>1, ThereStays DEF Issued, There
      <3>2. /\ ContentLegal(version[v].model, version[v].content)
            /\ version[v].digest = version[v].content
            /\ \A t \in version[v].content.graph.targets : t \in Versions /\ Issued(t)
        BY <2>1 DEF Rows, RowOf, Legal
      <3>3. \A t \in version[v].content.graph.targets : Issued(t)'
        BY <3>2, ThereStays
      <3> QED
        BY <3>1, <3>2, <3>3 DEF Legal
    <2>2. CASE Released(v)
      <3>1. \A t \in version[v].content.graph.targets : Issued(t)'
        BY <2>2, ThereStays DEF Released, Rows, RowOf
      <3> QED
        BY <2>2, <3>1 DEF Released, Legal
    <2>3. CASE ~Issued(v) /\ ~Released(v)
      <3>1. ~Issued(v)'
        BY <2>3 DEF Evolves, Kept, Made, Edited, Withdrawn, Forward, Issued
      <3> QED
        BY <3>1 DEF Legal
    <2> QED
      BY <2>1, <2>2, <2>3
  <1> QED
    BY <1>1, <1>2 DEF Evolves, Rows

(* No step undoes what a command is on record for. *)
LEMMA RecordedStays ==
  ASSUME Rows, Evolves, NEW r \in Requests, Recorded(r)
  PROVE  Recorded(r)'
  <1>1. CASE r.op = "create"
    BY <1>1, DefinitionsAssumption DEF Recorded, Done, Evolves
  <1>2. CASE r.op = "draft"
    <2>1. PICK v \in Versions : /\ v[1] = r.d /\ version[v].born = r.key
                               /\ version[v].model = r.model /\ There(v)
      BY <1>2 DEF Recorded
    <2>2. version'[v].born = r.key /\ version'[v].model = r.model /\ There(v)'
      BY <2>1, ThereStays
    <2> QED
      BY <1>2, <2>1, <2>2 DEF Recorded, Done
  <1>3. CASE r.op = "replace"
    BY <1>3 DEF Recorded, Done, Evolves
  <1>4. CASE r.op = "publish"
    <2>1. r.v \in Versions /\ Issued(r.v)
      BY <1>4, DefinitionsAssumption DEF Recorded, Done
    <2>2. Issued(r.v)' /\ version'[r.v].digest = version[r.v].digest
      BY <2>1, ThereStays
    <2> QED
      BY <1>4, <2>1, <2>2 DEF Recorded, Done
  <1>5. CASE r.op = "archive"
    BY <1>5, DefinitionsAssumption DEF Recorded, Done, Evolves
  <1> QED
    BY <1>1, <1>2, <1>3, <1>4, <1>5, DefinitionsAssumption DEF Ops

LEMMA StandsStays ==
  ASSUME Rows, Evolves, NEW r \in Requests, Stands(r)
  PROVE  Stands(r)'
  <1>1. CASE Recorded(r)
    BY <1>1, RecordedStays DEF Stands
  <1>2. CASE ~Recorded(r)
    <2>1. PICK q \in Requests : /\ q.key = r.key /\ Hash(q) = Hash(r)
                               /\ Unhashed(q) # Unhashed(r) /\ Recorded(q)
      BY <1>2 DEF Stands
    <2>2. Recorded(q)'
      BY <2>1, RecordedStays
    <2>3. r.op \in {"replace", "draft"}
      BY <1>2 DEF Stands
    <2> QED
      BY <2>1, <2>2, <2>3 DEF Stands
  <1> QED
    BY <1>1, <1>2

-----------------------------------------------------------------------------
(* What a step means for the commands under way, the receipts and the pool.  *)

Same(c) == /\ request'[c] = request[c] /\ phase'[c] = phase[c]
           /\ seen'[c] = seen[c] /\ answer'[c] = answer[c]

LEMMA ClientKeeps ==
  ASSUME Rows, Evolves, NEW c \in Clients, Client(c), Same(c)
  PROVE  Client(c)'
  <1>1. CASE phase[c] = "idle"
    BY <1>1 DEF Client, Same, Checked
  <1>2. CASE phase[c] # "idle"
    <2>1. PICK r \in Requests : r = request[c]
      BY <1>2 DEF Client
    <2>2. request'[c] = r /\ phase'[c] = phase[c] /\ seen'[c] = seen[c] /\ answer'[c] = answer[c]
      BY <2>1 DEF Same
    <2>3. ASSUME phase[c] = "read" PROVE Checked(c)'
      <3>1. r.op \in {"draft", "archive"} => r.d \in DefinitionIds /\ defs[r.d] # "none"
        BY <2>1, <2>3, DefinitionsAssumption DEF Client, Checked
      <3>2. r.op \in {"draft", "archive"} => defs'[r.d] # "none"
        BY <3>1 DEF Evolves
      <3>3. ASSUME r.op = "draft", NEW n \in 1..MaxVersion, n < seen[c].number
            PROVE  There(<<r.d, n>>)'
        <4>1. <<r.d, n>> \in Versions /\ There(<<r.d, n>>)
          BY <2>1, <2>3, <3>1, <3>3 DEF Client, Checked, Versions
        <4> QED
          BY <4>1, ThereStays
      <3>4. ASSUME r.op = "publish"
            PROVE  There(r.v)' /\ ContentLegal(version'[r.v].model, seen[c].content)
        <4>1. r.v \in Versions /\ There(r.v) /\ ContentLegal(version[r.v].model, seen[c].content)
          BY <2>1, <2>3, <3>4, DefinitionsAssumption DEF Client, Checked
        <4>2. There(r.v)' /\ version'[r.v].model = version[r.v].model
          BY <4>1, ThereStays
        <4> QED
          BY <4>1, <4>2
      <3>5. r.op = "draft" => seen[c].number \in Nat \ {0}
        BY <2>1, <2>3 DEF Client, Checked
      <3> QED
        BY <2>2, <3>2, <3>3, <3>4, <3>5 DEF Checked, There
    <2>4. ASSUME phase[c] = "settled", answer[c] = "ok" PROVE Recorded(request[c])'
      <3>1. Recorded(r)
        BY <2>1, <2>4 DEF Client
      <3>2. Recorded(r)'
        BY <3>1, RecordedStays
      <3> QED
        BY <2>2, <3>2 DEF Recorded, Done, There, Issued
    <2>6. ASSUME phase[c] = "told", answer[c] = "ok" PROVE Stands(request[c])'
      <3>1. Stands(r)
        BY <2>1, <2>6 DEF Client
      <3>2. Stands(r)'
        BY <3>1, StandsStays
      <3> QED
        BY <2>2, <3>2 DEF Stands, Recorded, Done, There, Issued
    <2>5. phase'[c] # "read" => Checked(c)'
      BY DEF Checked
    <2> QED
      BY <1>2, <2>2, <2>3, <2>4, <2>5, <2>6 DEF Client
  <1> QED
    BY <1>1, <1>2

(* A step of one client. *)
Only(c) ==
  /\ request' = [d \in Clients |-> request'[d]] /\ phase' = [d \in Clients |-> phase'[d]]
  /\ answer' = [d \in Clients |-> answer'[d]]
  /\ seen' = [d \in Clients |-> [content |-> seen'[d].content, number |-> seen'[d].number]]
  /\ \A d \in Clients \ {c} : Same(d)

LEMMA ClerksStep ==
  ASSUME Rows, Evolves, Clerks, NEW c \in Clients, Only(c), Client(c)'
  PROVE  Clerks'
  <1>1. \A d \in Clients : Client(d)'
    BY ClientKeeps DEF Clerks, Only
  <1> QED
    BY <1>1 DEF Clerks, Only

LEMMA ClerksRest ==
  ASSUME Rows, Evolves, Clerks, UNCHANGED <<request, phase, seen, answer>>
  PROVE  Clerks'
  <1>1. \A d \in Clients : Client(d)'
    BY ClientKeeps DEF Clerks, Same
  <1> QED
    BY <1>1 DEF Clerks

LEMMA ReceiptKeeps ==
  ASSUME Rows, Evolves, NEW k \in Keys, Receipt(k), receipts'[k] = receipts[k]
  PROVE  Receipt(k)'
  <1>1. ASSUME receipts[k].answer = "ok" PROVE Recorded(receipts[k].req)'
    <2>1. PICK r \in Requests : r = receipts[k].req
      BY <1>1 DEF Receipt
    <2>2. Recorded(r)
      BY <1>1, <2>1 DEF Receipt
    <2>3. Recorded(r)' /\ receipts'[k].req = r
      BY <2>1, <2>2, RecordedStays
    <2> QED
      BY <2>3 DEF Recorded, Done, There, Issued
  <1> QED
    BY <1>1 DEF Receipt

LEMMA BooksRest ==
  ASSUME Rows, Evolves, Books, UNCHANGED receipts
  PROVE  Books'
  BY ReceiptKeeps DEF Books

LEMMA BooksStep ==
  ASSUME Rows, Evolves, Books, NEW c \in Clients, NEW r \in Requests, r = request[c],
         NEW st \in {"processing", "completed"}, NEW a, Record(c, st, a),
         a = "ok" => Recorded(r)'
  PROVE  Books'
  <1>1. r.key \in Keys
    BY DefinitionsAssumption
  <1>2. receipts' = [receipts EXCEPT ![r.key] = [state |-> st, req |-> r, answer |-> a]]
    BY DEF Record
  <1>3. ASSUME NEW k \in Keys PROVE Receipt(k)'
    <2>1. CASE k = r.key
      <3>1. receipts'[k] = [state |-> st, req |-> r, answer |-> a]
        BY <1>1, <1>2, <2>1 DEF Books
      <3>2. ASSUME a = "ok" PROVE Recorded(receipts[k].req)'
        <4>1. Recorded(r)' /\ receipts'[k].req = r
          BY <3>1, <3>2
        <4> QED
          BY <4>1 DEF Recorded, Done, There, Issued
      <3> QED
        BY <2>1, <3>1, <3>2 DEF Receipt
    <2>2. CASE k # r.key
      BY <1>2, <2>2, ReceiptKeeps DEF Books
    <2> QED
      BY <2>1, <2>2
  <1> QED
    BY <1>2, <1>3 DEF Books

LEMMA PoolRest ==
  ASSUME Pool, \A c \in Clients : phase'[c] # "idle" => phase[c] # "idle"
  PROVE  Pool'
  <1>1. Busy' \subseteq Busy
    BY DEF Busy
  <1>2. IsFiniteSet(Busy') /\ Cardinality(Busy') <= Cardinality(Busy)
    BY <1>1, FS_Subset DEF Pool
  <1>3. Cardinality(Busy) \in Int /\ Cardinality(Busy') \in Int /\ PoolSize \in Int
    BY <1>2, FS_CardinalityType, DefinitionsAssumption DEF Pool
  <1> QED
    BY <1>2, <1>3 DEF Pool

LEMMA CloseClient ==
  ASSUME Clerks, NEW c \in Clients, Close(c)
  PROVE  /\ Only(c) /\ Client(c)' /\ phase'[c] = "idle"
         /\ \A d \in Clients : phase'[d] # "idle" => phase[d] # "idle"
  <1>1. /\ request'[c] = NoRequest /\ phase'[c] = "idle"
        /\ \A d \in Clients \ {c} : Same(d)
    BY DEF Clerks, Close, Same
  <1>2. Only(c)
    BY <1>1 DEF Clerks, Close, Only, NothingSeen
  <1>3. Client(c)'
    BY <1>1 DEF Client, Checked, Phases
  <1> QED
    BY <1>1, <1>2, <1>3 DEF Same

LEMMA SettledClient ==
  ASSUME Clerks, NEW c \in Clients, NEW r \in Requests, r = request[c], phase[c] # "idle",
         NEW a, Settled(c, a), a = "ok" => Recorded(r)'
  PROVE  /\ Only(c) /\ Client(c)'
         /\ \A d \in Clients : phase'[d] # "idle" => phase[d] # "idle"
  <1>1. /\ request'[c] = r /\ phase'[c] = "settled" /\ answer'[c] = a
        /\ \A d \in Clients \ {c} : Same(d)
    BY DEF Clerks, Settled, Same
  <1>2. Only(c)
    BY <1>1 DEF Clerks, Settled, Only, NothingSeen
  <1>3. ASSUME a = "ok" PROVE Recorded(request[c])'
    <2>1. Recorded(r)'
      BY <1>3
    <2> QED
      BY <1>1, <2>1 DEF Recorded, Done, There, Issued
  <1>4. Client(c)'
    BY <1>1, <1>3 DEF Client, Checked, Phases
  <1> QED
    BY <1>1, <1>2, <1>4 DEF Same

LEMMA Assemble ==
  ASSUME IInv, Evolves, NEW c \in Clients, Only(c), Client(c)', Books',
         \A d \in Clients : phase'[d] # "idle" => phase[d] # "idle",
         owner' = owner, stimuli' \in 0..MaxStimuli
  PROVE  IInv'
  <1>1. Rows'
    BY RowsStep DEF IInv
  <1>2. Clerks'
    BY ClerksStep DEF IInv
  <1>3. Pool'
    BY PoolRest DEF IInv
  <1> QED
    BY <1>1, <1>2, <1>3 DEF IInv

-----------------------------------------------------------------------------
(* The receipt of a key.                                                    *)

LEMMA HashTellsOp ==
  \A r \in Requests : Hash(r)[1] = r.op /\ (r.op = "publish" => Hash(r)[3] = r.expected)
                      /\ (r.op \in {"replace", "publish"} => Hash(r)[2] = r.v)
                      /\ (r.op \in {"create", "draft", "archive"} => Hash(r)[2] = r.d)
  BY DefinitionsAssumption DEF Hash, Ops

(* The same hash vouches for the request, or tells it of another one's effect. *)
LEMMA SameHashSameRecord ==
  ASSUME NEW q \in Requests, NEW r \in Requests, q.key = r.key, Hash(q) = Hash(r), Recorded(q)
  PROVE  Stands(r)
  <1>1. q.op = r.op
    BY HashTellsOp
  <1>2. CASE q.op \in {"create", "archive"}
    <2>1. q.d = r.d
      BY <1>1, <1>2, HashTellsOp
    <2> QED
      BY <1>1, <1>2, <2>1 DEF Stands, Recorded, Done
  <1>3. CASE q.op \in {"replace", "draft"}
    <2>1. CASE Unhashed(q) # Unhashed(r)
      BY <1>1, <1>3, <2>1 DEF Stands
    <2>2. CASE Unhashed(q) = Unhashed(r)
      <3>1. q.model = r.model /\ q.graph = r.graph /\ q.patch = r.patch
        BY <2>2 DEF Unhashed
      <3>2. (q.op = "replace" => q.v = r.v) /\ (q.op = "draft" => q.d = r.d)
        BY <1>1, HashTellsOp
      <3> QED
        BY <1>1, <1>3, <3>1, <3>2 DEF Stands, Recorded, Done
    <2> QED
      BY <2>1, <2>2
  <1>4. CASE q.op = "publish"
    <2>1. q.v = r.v /\ q.expected = r.expected
      BY <1>1, <1>4, HashTellsOp
    <2> QED
      BY <1>1, <1>4, <2>1 DEF Stands, Recorded, Done
  <1> QED
    BY <1>2, <1>3, <1>4, DefinitionsAssumption DEF Ops

LEMMA AskKeeps ==
  ASSUME IInv, NEW c \in Clients, NEW r \in Requests, Ask(c, r)
  PROVE  IInv' /\ Evolves
  <1>1. Evolves
    BY NoRowsNoChange DEF IInv, Ask, rows
  <1>2. /\ request'[c] = r /\ phase'[c] = "begun" /\ Only(c)
    BY DEF IInv, Clerks, Ask, Only, Same
  <1>3. Client(c)'
    BY <1>2 DEF Client, Checked, Phases
  <1>4. Rows' /\ Clerks' /\ Books'
    BY <1>1, <1>2, <1>3, RowsStep, ClerksStep, BooksRest DEF IInv, Ask
  <1>5. Pool'
    <2>1. Busy' = Busy \cup {c}
      BY <1>2 DEF Busy, Only, Same
    <2>2. IsFiniteSet(Busy') /\ Cardinality(Busy') <= Cardinality(Busy) + 1
      <3>1. IsFiniteSet(Busy) /\ Cardinality(Busy) \in Nat
        BY FS_CardinalityType DEF IInv, Pool
      <3>2. /\ IsFiniteSet(Busy \cup {c})
            /\ Cardinality(Busy \cup {c}) = IF c \in Busy THEN Cardinality(Busy)
                                            ELSE Cardinality(Busy) + 1
        BY <3>1, FS_AddElement
      <3> QED
        BY <2>1, <3>1, <3>2
    <2>3. Cardinality(Busy) + 1 <= PoolSize
      <3>1. Cardinality(Busy) \in Nat /\ PoolSize \in Nat
        BY FS_CardinalityType, DefinitionsAssumption DEF IInv, Pool
      <3> QED
        BY <3>1 DEF Ask, Spare, Busy
    <2>4. Cardinality(Busy) \in Int /\ Cardinality(Busy') \in Int /\ PoolSize \in Int
      BY <2>2, FS_CardinalityType, DefinitionsAssumption DEF IInv, Pool
    <2> QED
      BY <2>2, <2>3, <2>4 DEF Pool
  <1> QED
    BY <1>1, <1>4, <1>5, DefinitionsAssumption DEF IInv, Ask, rows

LEMMA AcquireKeeps ==
  ASSUME IInv, NEW c \in Clients, Acquire(c)
  PROVE  IInv' /\ Evolves
  <1>1. Evolves
    BY NoRowsNoChange DEF IInv, Acquire, rows
  <1>2. /\ request'[c] = request[c] /\ phase'[c] = "held" /\ Only(c)
        /\ \A d \in Clients : phase'[d] # "idle" => phase[d] # "idle"
    BY DEF IInv, Clerks, Acquire, Only, Same
  <1>3. Client(c)'
    BY <1>2 DEF IInv, Clerks, Client, Checked, Phases, Acquire
  <1>4. Books'
    BY <1>1, BooksRest DEF IInv, Acquire
  <1> QED
    BY <1>1, <1>2, <1>3, <1>4, Assemble DEF IInv, Acquire, rows

LEMMA ReplayKeeps ==
  ASSUME IInv, NEW c \in Clients, Replay(c)
  PROVE  IInv' /\ Evolves
  <1>1. Evolves
    BY NoRowsNoChange DEF IInv, Replay, rows
  <1>2. PICK r \in Requests : r = request[c]
    BY DEF IInv, Clerks, Client, Replay
  <1> DEFINE x == receipts[r.key]
  <1>3. /\ request'[c] = r /\ phase'[c] = "told" /\ Only(c)
        /\ answer'[c] = Replayed(x, r)
        /\ \A d \in Clients : phase'[d] # "idle" => phase[d] # "idle"
    BY <1>2 DEF IInv, Clerks, Replay, Only, Same
  <1>4. ASSUME Replayed(x, r) = "ok" PROVE Stands(request[c])'
    <2>1. Hash(x.req) = Hash(r) /\ x.answer = "ok"
      BY <1>4 DEF Replayed
    <2>2. r.key \in Keys
      BY DefinitionsAssumption
    <2>3. PICK q \in Requests : q = x.req /\ q.key = r.key /\ Recorded(q)
      BY <2>1, <2>2 DEF IInv, Books, Receipt
    <2>4. Stands(r)
      BY <2>1, <2>3, SameHashSameRecord
    <2>5. Stands(r)'
      BY <1>1, <2>4, StandsStays DEF IInv
    <2> QED
      BY <1>3, <2>5 DEF Stands, Recorded, Done, There, Issued
  <1>5. Client(c)'
    BY <1>3, <1>4 DEF Client, Checked, Phases
  <1>6. Books'
    BY <1>1, BooksRest DEF IInv, Replay
  <1> QED
    BY <1>1, <1>3, <1>5, <1>6, Assemble DEF IInv, Replay, rows

LEMMA EndKeeps ==
  ASSUME IInv, NEW c \in Clients, Told(c) \/ Lose(c)
  PROVE  IInv' /\ Evolves
  <1>1. Evolves
    BY NoRowsNoChange DEF IInv, Told, Lose, rows
  <1>2. Close(c)
    BY DEF Told, Lose
  <1>3. Books'
    BY <1>1, BooksRest DEF IInv, Told, Lose
  <1>4. owner' = owner /\ stimuli' \in 0..MaxStimuli
    BY DefinitionsAssumption DEF IInv, Told, Lose, rows
  <1> QED
    BY <1>1, <1>2, <1>3, <1>4, CloseClient, Assemble DEF IInv

LEMMA SettleKeeps ==
  ASSUME IInv, NEW c \in Clients, Settle(c)
  PROVE  IInv' /\ Evolves
  <1>1. Evolves
    BY NoRowsNoChange DEF IInv, Settle, rows
  <1>2. PICK r \in Requests : r = request[c]
    BY DEF IInv, Clerks, Client, Settle
  <1>3. answer[c] = "ok" => Recorded(r)'
    <2>1. answer[c] = "ok" => Recorded(r)
      BY <1>2 DEF IInv, Clerks, Client, Settle
    <2> QED
      BY <1>1, <2>1, RecordedStays DEF IInv
  <1>4. Books'
    BY <1>1, <1>2, <1>3, BooksStep DEF IInv, Settle
  <1>5. Close(c) /\ owner' = owner /\ stimuli' \in 0..MaxStimuli
    BY DEF IInv, Settle, rows
  <1> QED
    BY <1>1, <1>4, <1>5, CloseClient, Assemble DEF IInv

LEMMA FailureKeeps ==
  ASSUME IInv, NEW c \in Clients, StoreFails(c) \/ CheckBad(c)
  PROVE  IInv' /\ Evolves
  <1>1. Evolves
    BY NoRowsNoChange DEF IInv, StoreFails, CheckBad, rows
  <1>2. PICK r \in Requests : r = request[c]
    BY DEF IInv, Clerks, Client, StoreFails, CheckBad
  <1>3. Books'
    <2>1. CASE Record(c, "processing", "none")
      <3>1. "none" = "ok" => Recorded(r)'
        OBVIOUS
      <3> QED
        BY <1>1, <1>2, <2>1, <3>1, BooksStep DEF IInv
    <2>2. CASE UNCHANGED receipts
      BY <1>1, <2>2, BooksRest DEF IInv
    <2> QED
      BY <2>1, <2>2 DEF StoreFails, CheckBad
  <1>4. Close(c) /\ owner' = owner /\ stimuli' \in 0..MaxStimuli
    BY DefinitionsAssumption DEF IInv, StoreFails, CheckBad, rows
  <1> QED
    BY <1>1, <1>3, <1>4, CloseClient, Assemble DEF IInv

-----------------------------------------------------------------------------
(* The checks.                                                              *)

(* The next number of a definition: all below it are taken. *)
LEMMA NextNumberRight ==
  ASSUME Rows, NEW d \in DefinitionIds
  PROVE  /\ NextNumber(d) \in Nat \ {0}
         /\ \A n \in 1..MaxVersion : n < NextNumber(d) => There(<<d, n>>)
  <1> DEFINE S == {v \in Versions : v[1] = d /\ version[v].status # "none"}
  <1>1. \A m \in Int : IsFiniteSet({d} \X (1..m))
                       /\ (m >= 0 => Cardinality({d} \X (1..m)) = m)
    <2> TAKE m \in Int
    <2>1. IsFiniteSet(1..m) /\ Cardinality(1..m) = IF 1 > m THEN 0 ELSE m - 1 + 1
      BY FS_Interval
    <2>2. IsFiniteSet({d}) /\ Cardinality({d}) = 1
      BY FS_Singleton
    <2>3. /\ IsFiniteSet({d} \X (1..m))
          /\ Cardinality({d} \X (1..m)) = Cardinality({d}) * Cardinality(1..m)
      BY <2>1, <2>2, FS_Product
    <2> QED
      BY <2>1, <2>2, <2>3
  <1>2. MaxVersion \in Nat /\ S \subseteq {d} \X (1..MaxVersion)
    BY DefinitionsAssumption DEF Versions
  <1>3. IsFiniteSet(S) /\ Cardinality(S) \in Nat
    <2>1. IsFiniteSet({d} \X (1..MaxVersion)) /\ S \in SUBSET ({d} \X (1..MaxVersion))
      BY <1>1, <1>2
    <2>2. IsFiniteSet(S)
      BY <2>1, FS_Subset
    <2> QED
      BY <2>2, FS_CardinalityType
  <1>4. NextNumber(d) = 1 + Cardinality(S)
    BY DEF NextNumber
  <1> HIDE DEF S
  <1>5. ASSUME NEW n \in 1..MaxVersion, n < NextNumber(d), ~There(<<d, n>>)
        PROVE  FALSE
    <2>1. \A v \in S : v = <<d, v[2]>> /\ v[2] \in 1..(n - 1)
      <3> SUFFICES ASSUME NEW v \in S PROVE v = <<d, v[2]>> /\ v[2] \in 1..(n - 1)
        OBVIOUS
      <3>1. v \in Versions /\ v[1] = d /\ There(v)
        BY DEF S, There
      <3>2. v = <<d, v[2]>> /\ v[2] \in 1..MaxVersion
        BY <3>1, VersionsArePairs
      <3>3. \A k \in 1..v[2] : There(<<d, k>>)
        BY <3>1 DEF Rows, RowOf
      <3>4. ~ n <= v[2]
        BY <1>2, <1>5, <3>2, <3>3
      <3> QED
        BY <1>2, <3>2, <3>4
    <2>2. S \subseteq {d} \X (1..(n - 1))
      BY <2>1
    <2>3. /\ n - 1 \in Int /\ n - 1 >= 0
          /\ IsFiniteSet({d} \X (1..(n - 1))) /\ Cardinality({d} \X (1..(n - 1))) = n - 1
      BY <1>1, <1>2
    <2>4. Cardinality(S) <= n - 1
      BY <2>2, <2>3, FS_Subset
    <2> QED
      BY <1>2, <1>3, <1>4, <1>5, <2>4
  <1> QED
    BY <1>3, <1>4, <1>5

LEMMA CheckKeeps ==
  ASSUME IInv, NEW c \in Clients, Check(c)
  PROVE  IInv' /\ Evolves
  <1>1. Evolves
    BY NoRowsNoChange DEF IInv, Check, rows
  <1>2. PICK r \in Requests : r = request[c]
    BY DEF IInv, Clerks, Client, Check
  <1>3. r.op \in Ops
    BY DefinitionsAssumption
  <1>4. CASE CheckError(r) # "none"
    <2>1. Settled(c, CheckError(r))
      BY <1>2, <1>4 DEF Check
    <2>2. CheckError(r) # "ok"
      BY <1>3 DEF CheckError, DefinitionError, CheckReplace, CheckPublish, DraftError, Ops
    <2>3. Books' /\ owner' = owner /\ stimuli' \in 0..MaxStimuli
      BY <1>1, <2>1, BooksRest DEF IInv, Check, Settled, rows
    <2>4. phase[c] # "idle"
      BY DEF Check
    <2>5. /\ Only(c) /\ Client(c)'
          /\ \A d \in Clients : phase'[d] # "idle" => phase[d] # "idle"
      BY <1>2, <2>1, <2>2, <2>4, SettledClient DEF IInv
    <2> QED
      BY <1>1, <2>3, <2>5, Assemble
  <1>5. CASE CheckError(r) = "none"
    <2>1. /\ seen' = [seen EXCEPT ![c] =
                [content |-> IF r.op = "publish" THEN version[r.v].content ELSE NoContent,
                 number |-> IF r.op = "draft" THEN NextNumber(r.d) ELSE 0]]
          /\ phase' = [phase EXCEPT ![c] = "read"]
          /\ UNCHANGED <<receipts, request, answer, stimuli>>
      BY <1>2, <1>5 DEF Check
    <2>2. /\ Only(c) /\ request'[c] = r /\ phase'[c] = "read"
          /\ \A d \in Clients : phase'[d] # "idle" => phase[d] # "idle"
      BY <1>2, <2>1 DEF IInv, Clerks, Only, Same, Check
    <2>3. /\ seen'[c].content = IF r.op = "publish" THEN version[r.v].content ELSE NoContent
          /\ seen'[c].number = IF r.op = "draft" THEN NextNumber(r.d) ELSE 0
      BY <2>1 DEF IInv, Clerks
    <2>4. version' = version /\ defs' = defs
      BY DEF Check, rows
    <2>5. r.op \in {"draft", "archive"} => r.d \in DefinitionIds /\ defs'[r.d] # "none"
      BY <1>5, <2>4, DefinitionsAssumption DEF CheckError, DefinitionError
    <2>6. ASSUME r.op = "draft"
          PROVE  /\ seen'[c].number \in Nat \ {0}
                 /\ \A n \in 1..MaxVersion : n < seen'[c].number => There(<<r.d, n>>)'
      <3>1. /\ NextNumber(r.d) \in Nat \ {0}
            /\ \A n \in 1..MaxVersion : n < NextNumber(r.d) => There(<<r.d, n>>)
        BY <2>5, <2>6, NextNumberRight DEF IInv
      <3> QED
        BY <2>3, <2>4, <2>6, <3>1 DEF There
    <2>7. ASSUME r.op = "publish"
          PROVE  There(r.v)' /\ ContentLegal(version'[r.v].model, seen'[c].content)
      <3>1. CheckPublish(r) = "none"
        BY <1>5, <2>7 DEF CheckError
      <3>2. There(r.v) /\ ContentLegal(version[r.v].model, version[r.v].content)
        BY <3>1 DEF CheckPublish, DraftError, There
      <3> QED
        BY <2>3, <2>4, <2>7, <3>2 DEF There
    <2>8. Client(c)'
      BY <2>2, <2>5, <2>6, <2>7 DEF Client, Checked, There, Phases
    <2>9. Books' /\ owner' = owner /\ stimuli' \in 0..MaxStimuli
      BY <1>1, <2>1, BooksRest DEF IInv, Check, rows
    <2> QED
      BY <1>1, <2>2, <2>8, <2>9, Assemble
  <1> QED
    BY <1>4, <1>5

LEMMA WalkKeeps ==
  ASSUME IInv, NEW c \in Clients, CheckHangs(c) \/ Walk(c)
  PROVE  IInv' /\ Evolves
  <1>1. Evolves
    BY NoRowsNoChange DEF IInv, CheckHangs, Walk, rows
  <1>2. PICK r \in Requests : r = request[c]
    BY DEF IInv, Clerks, Client, CheckHangs, Walk
  <1>3. Books' /\ owner' = owner /\ stimuli' \in 0..MaxStimuli
    BY <1>1, BooksRest DEF IInv, CheckHangs, Walk, Settled, rows
  <1>4. CASE Settled(c, "graph_validation_failed")
    <2>1. phase[c] # "idle" /\ "graph_validation_failed" # "ok"
      BY DEF CheckHangs, Walk
    <2>2. /\ Only(c) /\ Client(c)'
          /\ \A d \in Clients : phase'[d] # "idle" => phase[d] # "idle"
      BY <1>2, <1>4, <2>1, SettledClient DEF IInv
    <2> QED
      BY <1>1, <1>3, <2>2, Assemble
  <1>5. CASE ~Settled(c, "graph_validation_failed")
    <2>1. /\ phase' = [phase EXCEPT ![c] = "walking"] /\ UNCHANGED <<request, answer>>
          /\ \E n : seen' = [seen EXCEPT ![c].number = n]
      <3>1. CASE CheckHangs(c)
        BY <3>1 DEF CheckHangs
      <3>2. CASE Walk(c)
        BY <1>5, <3>2 DEF Walk, IInv, Clerks
      <3> QED
        BY <3>1, <3>2
    <2>2. phase[c] # "idle"
      BY DEF CheckHangs, Walk
    <2>3. /\ Only(c) /\ phase'[c] = "walking" /\ request'[c] = r
          /\ \A d \in Clients : phase'[d] # "idle" => phase[d] # "idle"
      <3>1. /\ request = [d \in Clients |-> request[d]] /\ phase = [d \in Clients |-> phase[d]]
            /\ answer = [d \in Clients |-> answer[d]]
            /\ seen = [d \in Clients |-> [content |-> seen[d].content, number |-> seen[d].number]]
        BY DEF IInv, Clerks
      <3>2. PICK n : seen' = [seen EXCEPT ![c].number = n]
        BY <2>1
      <3>3. /\ phase' = [d \in Clients |-> phase'[d]] /\ phase'[c] = "walking"
            /\ \A d \in Clients \ {c} : phase'[d] = phase[d]
        BY <2>1, <3>1
      <3>4. /\ seen' = [d \in Clients |-> [content |-> seen'[d].content, number |-> seen'[d].number]]
            /\ \A d \in Clients \ {c} : seen'[d] = seen[d]
        BY <3>1, <3>2
      <3>5. Only(c)
        BY <2>1, <3>1, <3>3, <3>4 DEF Only, Same
      <3> QED
        BY <1>2, <2>1, <2>2, <3>3, <3>5
    <2>4. Client(c)'
      BY <2>3 DEF Client, Checked, Phases
    <2> QED
      BY <1>1, <1>3, <2>3, <2>4, Assemble
  <1> QED
    BY <1>4, <1>5

-----------------------------------------------------------------------------
(* What is written.                                                         *)

(* A write that is answered through Settled. *)
LEMMA WriteKeeps ==
  ASSUME IInv, NEW c \in Clients, NEW r \in Requests, r = request[c], phase[c] = "read",
         Evolves, owner' = owner, NEW a, Settled(c, a), a = "ok" => Recorded(r)'
  PROVE  IInv' /\ Evolves
  <1>1. /\ Only(c) /\ Client(c)'
        /\ \A d \in Clients : phase'[d] # "idle" => phase[d] # "idle"
    BY SettledClient DEF IInv
  <1>2. Books' /\ stimuli' \in 0..MaxStimuli
    BY BooksRest DEF IInv, Settled
  <1> QED
    BY <1>1, <1>2, Assemble

LEMMA CreateKeeps ==
  ASSUME IInv, NEW c \in Clients, Create(c)
  PROVE  IInv' /\ Evolves
  <1>1. PICK r \in Requests : r = request[c] /\ r.op = "create" /\ r.d \in DefinitionIds
    BY DefinitionsAssumption DEF IInv, Clerks, Client, Create
  <1> DEFINE a == IF defs[r.d] = "none" THEN "ok" ELSE "definition_key_conflict"
  <1>2. /\ defs' = IF defs[r.d] = "none" THEN [defs EXCEPT ![r.d] = "live"] ELSE defs
        /\ Settled(c, a) /\ UNCHANGED <<version, owner, replaced>> /\ phase[c] = "read"
    BY <1>1 DEF Create
  <1>3. Evolves
    BY <1>1, <1>2 DEF IInv, Rows, Evolves, Kept
  <1>4. a = "ok" => Recorded(r)'
    BY <1>1, <1>2 DEF IInv, Rows, Recorded, Done
  <1> HIDE DEF a
  <1> QED
    BY <1>1, <1>2, <1>3, <1>4, WriteKeeps

LEMMA CreateDraftKeeps ==
  ASSUME IInv, NEW c \in Clients, CreateDraft(c)
  PROVE  IInv' /\ Evolves
  <1>1. PICK r \in Requests : r = request[c] /\ r.op = "draft" /\ r.d \in DefinitionIds
                              /\ r.model \in 1..3
    BY DefinitionsAssumption DEF IInv, Clerks, Client, CreateDraft
  <1> DEFINE m == seen[c].number
             v == <<r.d, m>>
             y == [NoVersion EXCEPT !.status = "DRAFT", !.model = r.model, !.born = r.key]
  <1>2. /\ version' = IF version[v].status # "none" THEN version ELSE [version EXCEPT ![v] = y]
        /\ Settled(c, DraftAnswer(v)) /\ UNCHANGED <<defs, owner, replaced>> /\ phase[c] = "read"
        /\ m <= MaxVersion
    BY <1>1 DEF CreateDraft
  <1>3. /\ m \in Nat \ {0} /\ defs[r.d] # "none"
        /\ \A n \in 1..MaxVersion : n < m => There(<<r.d, n>>)
    BY <1>1, <1>2 DEF IInv, Clerks, Client, Checked
  <1>4. m \in 1..MaxVersion /\ v \in Versions /\ v[1] = r.d /\ v[2] = m /\ MaxVersion \in Nat
    BY <1>1, <1>2, <1>3, DefinitionsAssumption DEF Versions
  <1>5. /\ Shaped(y) /\ y.status = "DRAFT" /\ y.model = r.model /\ y.content = NoContent
        /\ y.edits = 0 /\ y.born = r.key
    <2>1. y = [status |-> "DRAFT", model |-> r.model, content |-> NoContent, edits |-> 0,
               digest |-> NoContent, born |-> r.key]
      <3> DEFINE y1 == [NoVersion EXCEPT !.status = "DRAFT"]
                 y2 == [y1 EXCEPT !.model = r.model]
      <3>1. y = [y2 EXCEPT !.born = r.key]
        OBVIOUS
      <3>2. y1 = [status |-> "DRAFT", model |-> 1, content |-> NoContent, edits |-> 0,
                  digest |-> NoContent, born |-> "none"]
        <4>1. /\ Shaped(NoVersion) /\ NoVersion.model = 1 /\ NoVersion.content = NoContent
              /\ NoVersion.edits = 0 /\ NoVersion.digest = NoContent /\ NoVersion.born = "none"
          BY DEF Shaped, NoVersion
        <4> QED
          BY <4>1 DEF Shaped
      <3> HIDE DEF y1
      <3>3. y2 = [status |-> "DRAFT", model |-> r.model, content |-> NoContent, edits |-> 0,
                  digest |-> NoContent, born |-> "none"]
        <4>1. Shaped(y1)
          BY <3>2 DEF Shaped
        <4> QED
          BY <3>2, <4>1 DEF Shaped
      <3> HIDE DEF y2
      <3>4. Shaped(y2)
        BY <3>3 DEF Shaped
      <3> QED
        BY <3>1, <3>3, <3>4 DEF Shaped
    <2> HIDE DEF y
    <2> QED
      BY <2>1 DEF Shaped
  <1> HIDE DEF m, v, y
  <1>6. CASE version[v].status # "none"
    <2>1. DraftAnswer(v) # "ok"
      BY <1>6 DEF DraftAnswer
    <2>2. Evolves
      BY <1>2, <1>6, NoRowsNoChange DEF IInv
    <2> QED
      BY <1>1, <1>2, <2>1, <2>2, WriteKeeps
  <1>7. CASE version[v].status = "none"
    <2>1. version' = [version EXCEPT ![v] = y]
      BY <1>2, <1>7
    <2>2. /\ version'[v] = y /\ \A w \in Versions \ {v} : Kept(w)
          /\ version' = [w \in Versions |-> version'[w]]
      BY <1>4, <2>1 DEF IInv, Rows, Kept
    <2>3. \A n \in 1..v[2] : n < v[2] => There(<<v[1], n>>)
      BY <1>3, <1>4
    <2>4. Made(v)
      BY <1>1, <1>3, <1>4, <1>5, <1>7, <2>2, <2>3 DEF Made, There
    <2>5. Evolves
      BY <1>2, <2>2, <2>4 DEF IInv, Rows, Evolves
    <2>6. Recorded(r)'
      <3>1. /\ version'[v].born = r.key /\ version'[v].model = r.model
            /\ version'[v].status # "none"
        BY <1>5, <2>2
      <3> QED
        BY <1>1, <1>4, <3>1 DEF Recorded, Done, There
    <2> QED
      BY <1>1, <1>2, <2>5, <2>6, WriteKeeps
  <1> QED
    BY <1>6, <1>7

(* Two columns of a version written at once. *)
LEMMA ReplaceWrites ==
  ASSUME Rows, NEW v \in Versions, NEW x,
         version' = [version EXCEPT ![v].content = x, ![v].edits = @ + 1]
  PROVE  /\ version' = [w \in Versions |-> version'[w]] /\ \A w \in Versions \ {v} : Kept(w)
         /\ version'[v] = [status |-> version[v].status, model |-> version[v].model,
                           content |-> x, edits |-> version[v].edits + 1,
                           digest |-> version[v].digest, born |-> version[v].born]
  <1> DEFINE f == [version EXCEPT ![v].content = x]
  <1>1. version' = [f EXCEPT ![v].edits = @ + 1]
    OBVIOUS
  <1>2. Shaped(version[v]) /\ version = [w \in Versions |-> version[w]]
    BY DEF Rows, RowOf
  <1>3. /\ f = [w \in Versions |-> f[w]] /\ \A w \in Versions \ {v} : f[w] = version[w]
        /\ f[v] = [status |-> version[v].status, model |-> version[v].model,
                   content |-> x, edits |-> version[v].edits,
                   digest |-> version[v].digest, born |-> version[v].born]
    BY <1>2 DEF Shaped
  <1> HIDE DEF f
  <1>4. Shaped(f[v])
    BY <1>3 DEF Shaped
  <1>5. /\ version' = [w \in Versions |-> version'[w]]
        /\ \A w \in Versions \ {v} : version'[w] = f[w]
        /\ version'[v] = [status |-> f[v].status, model |-> f[v].model, content |-> f[v].content,
                          edits |-> f[v].edits + 1, digest |-> f[v].digest, born |-> f[v].born]
    BY <1>1, <1>3, <1>4 DEF Shaped
  <1>6. \A w \in Versions \ {v} : version'[w] = f[w] /\ f[w] = version[w]
    BY <1>3, <1>5
  <1>7. \A w \in Versions \ {v} : Kept(w)
    BY <1>6, Zenon DEF Kept
  <1>8. /\ f[v].status = version[v].status /\ f[v].model = version[v].model
        /\ f[v].content = x /\ f[v].edits = version[v].edits
        /\ f[v].digest = version[v].digest /\ f[v].born = version[v].born
    BY <1>3
  <1>9. version'[v] = [status |-> version[v].status, model |-> version[v].model,
                     content |-> x, edits |-> version[v].edits + 1,
                     digest |-> version[v].digest, born |-> version[v].born]
    BY <1>5, <1>8, Zenon
  <1> QED
    BY <1>5, <1>7, <1>9, Zenon

LEMMA PublishWrites ==
  ASSUME Rows, NEW v \in Versions, NEW x,
         version' = [version EXCEPT ![v].status = "PUBLISHED", ![v].digest = x]
  PROVE  /\ version' = [w \in Versions |-> version'[w]] /\ \A w \in Versions \ {v} : Kept(w)
         /\ version'[v] = [status |-> "PUBLISHED", model |-> version[v].model,
                           content |-> version[v].content, edits |-> version[v].edits,
                           digest |-> x, born |-> version[v].born]
  <1> DEFINE f == [version EXCEPT ![v].status = "PUBLISHED"]
  <1>1. version' = [f EXCEPT ![v].digest = x]
    OBVIOUS
  <1>2. Shaped(version[v]) /\ version = [w \in Versions |-> version[w]]
    BY DEF Rows, RowOf
  <1>3. /\ f = [w \in Versions |-> f[w]] /\ \A w \in Versions \ {v} : f[w] = version[w]
        /\ f[v] = [status |-> "PUBLISHED", model |-> version[v].model,
                   content |-> version[v].content, edits |-> version[v].edits,
                   digest |-> version[v].digest, born |-> version[v].born]
    BY <1>2 DEF Shaped
  <1> HIDE DEF f
  <1>4. Shaped(f[v])
    BY <1>3 DEF Shaped
  <1>5. /\ version' = [w \in Versions |-> version'[w]]
        /\ \A w \in Versions \ {v} : version'[w] = f[w]
        /\ version'[v] = [status |-> f[v].status, model |-> f[v].model, content |-> f[v].content,
                          edits |-> f[v].edits, digest |-> x, born |-> f[v].born]
    BY <1>1, <1>3, <1>4 DEF Shaped
  <1>6. \A w \in Versions \ {v} : version'[w] = f[w] /\ f[w] = version[w]
    BY <1>3, <1>5
  <1>7. \A w \in Versions \ {v} : Kept(w)
    BY <1>6, Zenon DEF Kept
  <1>8. /\ f[v].status = "PUBLISHED" /\ f[v].model = version[v].model
        /\ f[v].content = version[v].content /\ f[v].edits = version[v].edits
        /\ f[v].digest = version[v].digest /\ f[v].born = version[v].born
    BY <1>3
  <1>9. version'[v] = [status |-> "PUBLISHED", model |-> version[v].model,
                     content |-> version[v].content, edits |-> version[v].edits,
                     digest |-> x, born |-> version[v].born]
    BY <1>5, <1>8, Zenon
  <1> QED
    BY <1>5, <1>7, <1>9, Zenon

LEMMA ReplaceKeeps ==
  ASSUME IInv, NEW c \in Clients, Replace(c)
  PROVE  IInv' /\ Evolves
  <1>1. PICK r \in Requests : r = request[c] /\ r.op = "replace" /\ r.v \in Versions
                              /\ r.graph.targets \subseteq Versions
                              /\ WellDrawn(r.graph)
                              /\ r.patch \in Schemas \cup {"keep"}
    BY DefinitionsAssumption DEF IInv, Clerks, Client, Replace
  <1> DEFINE x == [graph |-> r.graph, schema |-> Patched(version[r.v].content.schema, r.patch)]
             a == IF ReplaceError(r) = "none" THEN "ok" ELSE ReplaceError(r)
  <1>2. /\ version' = IF ReplaceError(r) # "none" THEN version
                      ELSE [version EXCEPT ![r.v].content = x, ![r.v].edits = @ + 1]
        /\ Settled(c, a) /\ UNCHANGED <<defs, owner>> /\ phase[c] = "read"
        /\ replaced' = IF ReplaceError(r) # "none" THEN replaced
                       ELSE replaced \cup {[v |-> r.v, key |-> r.key, content |-> version'[r.v].content]}
    BY <1>1 DEF Replace
  <1>3. x.schema \in Schemas /\ x.graph.targets \subseteq Versions /\ WellDrawn(x.graph)
    BY <1>1 DEF IInv, Rows, RowOf, Patched
  <1> HIDE DEF x
  <1>4. CASE ReplaceError(r) # "none"
    <2>1. a # "ok"
      BY <1>4 DEF ReplaceError, DraftError
    <2>2. Evolves
      BY <1>2, <1>4, NoRowsNoChange DEF IInv
    <2> HIDE DEF a
    <2> QED
      BY <1>1, <1>2, <2>1, <2>2, WriteKeeps
  <1>5. CASE ReplaceError(r) = "none"
    <2>1. version' = [version EXCEPT ![r.v].content = x, ![r.v].edits = @ + 1]
      BY <1>2, <1>5
    <2>2. /\ version' = [w \in Versions |-> version'[w]] /\ \A w \in Versions \ {r.v} : Kept(w)
          /\ version'[r.v] = [status |-> version[r.v].status, model |-> version[r.v].model,
                              content |-> x, edits |-> version[r.v].edits + 1,
                              digest |-> version[r.v].digest, born |-> version[r.v].born]
      BY <1>1, <2>1, ReplaceWrites DEF IInv
    <2>3. version[r.v].status = "DRAFT" /\ version[r.v].edits \in Nat
      BY <1>1, <1>5 DEF ReplaceError, DraftError, IInv, Rows, RowOf
    <2>4. Edited(r.v)
      BY <1>3, <2>2, <2>3 DEF Edited, Shaped
    <2>5. Evolves
      BY <1>2, <2>2, <2>4 DEF IInv, Rows, Evolves
    <2>6. Recorded(r)'
      <3>1. PICK y : /\ y = [v |-> r.v, key |-> r.key, content |-> version'[r.v].content]
                     /\ y \in replaced'
        <4> DEFINE z == [v |-> r.v, key |-> r.key, content |-> version'[r.v].content]
        <4>1. replaced' = replaced \cup {z}
          BY <1>2, <1>5
        <4> HIDE DEF z
        <4>2. z \in replaced'
          BY <4>1
        <4> QED
          BY <4>2 DEF z
      <3>2. version'[r.v].content = x
        BY <2>2
      <3>3. /\ y.v = r.v /\ y.key = r.key
            /\ y.content.graph = r.graph /\ r.patch \in {"keep", y.content.schema}
        BY <3>1, <3>2 DEF x, Patched
      <3> QED
        BY <1>1, <3>1, <3>3 DEF Recorded, Done
    <2> HIDE DEF a
    <2> QED
      BY <1>1, <1>2, <2>5, <2>6, WriteKeeps
  <1> QED
    BY <1>4, <1>5

LEMMA ArchiveKeeps ==
  ASSUME IInv, NEW c \in Clients, Archive(c)
  PROVE  IInv' /\ Evolves
  <1>1. PICK r \in Requests : r = request[c] /\ r.op = "archive" /\ r.d \in DefinitionIds
    BY DefinitionsAssumption DEF IInv, Clerks, Client, Archive
  <1>2. /\ defs' = [defs EXCEPT ![r.d] = "archived"]
        /\ Settled(c, "ok") /\ UNCHANGED <<version, owner, replaced>> /\ phase[c] = "read"
    BY <1>1 DEF Archive
  <1>3. Evolves
    BY <1>1, <1>2 DEF IInv, Rows, Evolves, Kept
  <1>4. Recorded(r)'
    BY <1>1, <1>2 DEF IInv, Rows, Recorded, Done
  <1> QED
    BY <1>1, <1>2, <1>3, <1>4, WriteKeeps

LEMMA PublishKeeps ==
  ASSUME IInv, NEW c \in Clients, Publish(c)
  PROVE  IInv' /\ Evolves
  <1>1. PICK r \in Requests : r = request[c] /\ r.op = "publish" /\ r.v \in Versions
    BY DefinitionsAssumption DEF IInv, Clerks, Client, Publish
  <1> DEFINE a == IF PublishError(c) = "none" THEN "ok" ELSE PublishError(c)
             x == seen[c].content
  <1>2. /\ version' = IF PublishError(c) # "none" THEN version
                      ELSE [version EXCEPT ![r.v].status = "PUBLISHED", ![r.v].digest = x]
        /\ Record(c, "completed", a) /\ Close(c)
        /\ UNCHANGED <<defs, owner, stimuli, replaced>> /\ phase[c] = "read"
    BY <1>1 DEF Publish
  <1>3. Evolves /\ (a = "ok" => Recorded(r)')
    <2>1. CASE PublishError(c) # "none"
      <3>1. a # "ok"
        BY <2>1 DEF PublishError, DraftError
      <3> QED
        BY <1>2, <2>1, <3>1, NoRowsNoChange DEF IInv
    <2>2. CASE PublishError(c) = "none"
      <3>1. /\ version[r.v].status = "DRAFT" /\ version[r.v].content = x
            /\ r.expected \in {NoContent, version[r.v].content}
            /\ \A t \in version[r.v].content.graph.targets : version[t].status = "PUBLISHED"
        BY <1>1, <2>2 DEF PublishError, DraftError, TargetsPublished
      <3>2. ContentLegal(version[r.v].model, x)
        BY <1>1, <1>2 DEF IInv, Clerks, Client, Checked
      <3> HIDE DEF x
      <3>3. version' = [version EXCEPT ![r.v].status = "PUBLISHED", ![r.v].digest = x]
        BY <1>2, <2>2
      <3>4. /\ version' = [w \in Versions |-> version'[w]] /\ \A w \in Versions \ {r.v} : Kept(w)
            /\ version'[r.v] = [status |-> "PUBLISHED", model |-> version[r.v].model,
                                content |-> version[r.v].content, edits |-> version[r.v].edits,
                                digest |-> x, born |-> version[r.v].born]
        BY <1>1, <3>3, PublishWrites DEF IInv
      <3>5. Released(r.v)
        BY <3>1, <3>2, <3>4 DEF Released, Shaped, Issued
      <3>6. Evolves
        BY <1>2, <3>4, <3>5 DEF IInv, Rows, Evolves
      <3>7. Recorded(r)'
        BY <1>1, <3>1, <3>4 DEF Recorded, Done, Issued
      <3> QED
        BY <3>6, <3>7
    <2> QED
      BY <2>1, <2>2
  <1> HIDE DEF a, x
  <1>4. Books'
    BY <1>1, <1>2, <1>3, BooksStep DEF IInv
  <1> QED
    BY <1>2, <1>3, <1>4, CloseClient, Assemble DEF IInv

LEMMA WithdrawKeeps ==
  ASSUME IInv, NEW v \in Versions, Deprecate(v) \/ Revoke(v)
  PROVE  IInv' /\ Evolves
  <1>1. PICK st \in {"DEPRECATED", "REVOKED"} :
          /\ version' = [version EXCEPT ![v].status = st]
          /\ <<version[v].status, st>> \in Forward
    BY DEF Deprecate, Revoke, Forward
  <1>2. UNCHANGED <<defs, owner, receipts, request, phase, seen, answer, replaced>>
        /\ stimuli' \in 0..MaxStimuli
    BY DefinitionsAssumption DEF Deprecate, Revoke, IInv
  <1>3. Shaped(version[v]) /\ version = [w \in Versions |-> version[w]]
    BY DEF IInv, Rows, RowOf
  <1>4. /\ version' = [w \in Versions |-> version'[w]] /\ \A w \in Versions \ {v} : Kept(w)
        /\ version'[v] = [status |-> st, model |-> version[v].model,
                          content |-> version[v].content, edits |-> version[v].edits,
                          digest |-> version[v].digest, born |-> version[v].born]
    BY <1>1, <1>3 DEF Kept, Shaped
  <1>5. Withdrawn(v)
    BY <1>1, <1>4 DEF Withdrawn, Shaped
  <1>6. Evolves
    BY <1>2, <1>4, <1>5 DEF IInv, Rows, Evolves
  <1>7. Rows' /\ Clerks' /\ Books' /\ Pool'
    BY <1>2, <1>6, RowsStep, ClerksRest, BooksRest, PoolRest DEF IInv
  <1> QED
    BY <1>2, <1>6, <1>7 DEF IInv

-----------------------------------------------------------------------------
(* All together.                                                            *)

LEMMA RestKeeps ==
  ASSUME IInv, LoseDomain \/ UNCHANGED vars
  PROVE  IInv' /\ Evolves
  <1>1. UNCHANGED <<defs, version, receipts, request, phase, seen, answer, replaced>>
        /\ owner' \in BOOLEAN /\ stimuli' \in 0..MaxStimuli
    <2>1. CASE LoseDomain
      <3>1. /\ owner' = FALSE /\ stimuli' = stimuli + 1 /\ stimuli < MaxStimuli
            /\ UNCHANGED <<defs, version, receipts, request, phase, seen, answer, replaced>>
        BY <2>1, Zenon DEF LoseDomain
      <3>2. stimuli \in 0..MaxStimuli /\ MaxStimuli \in Nat
        BY DefinitionsAssumption, Zenon DEF IInv
      <3>3. stimuli' = stimuli + 1 /\ stimuli < MaxStimuli
        BY <3>1, Zenon
      <3>4. stimuli' \in 0..MaxStimuli
        BY <3>2, <3>3, SMT
      <3>5. owner' \in BOOLEAN
        BY <3>1, Zenon
      <3> QED
        BY <3>1, <3>4, <3>5, Zenon
    <2>2. CASE UNCHANGED vars
      BY <2>2 DEF vars, IInv
    <2> QED
      BY <2>1, <2>2
  <1>2. Evolves
    BY <1>1, NoRowsNoChange DEF IInv
  <1>3. Rows' /\ Clerks' /\ Books' /\ Pool'
    BY <1>1, <1>2, RowsStep, ClerksRest, BooksRest, PoolRest DEF IInv
  <1> QED
    BY <1>1, <1>2, <1>3 DEF IInv

LEMMA StepKeeps == IInv /\ [Next]_vars => IInv' /\ Evolves
  <1> SUFFICES ASSUME IInv, [Next]_vars PROVE IInv' /\ Evolves
    OBVIOUS
  <1>1. ASSUME NEW c \in Clients, Work(c) PROVE IInv' /\ Evolves
    BY <1>1, AcquireKeeps, ReplayKeeps, EndKeeps, SettleKeeps, CheckKeeps, FailureKeeps, WalkKeeps,
       CreateKeeps, CreateDraftKeeps, ReplaceKeeps, ArchiveKeeps, PublishKeeps DEF Work
  <1>2. ASSUME NEW c \in Clients, StoreFails(c) \/ Lose(c) \/ \E r \in Requests : Ask(c, r)
        PROVE  IInv' /\ Evolves
    BY <1>2, FailureKeeps, EndKeeps, AskKeeps
  <1>3. ASSUME NEW v \in Versions, Deprecate(v) \/ Revoke(v) PROVE IInv' /\ Evolves
    BY <1>3, WithdrawKeeps
  <1>4. CASE LoseDomain \/ UNCHANGED vars
    BY <1>4, RestKeeps
  <1> QED
    BY <1>1, <1>2, <1>3, <1>4 DEF Next

LEMMA Invariance == Spec => []IInv
  BY InitHolds, StepKeeps, PTL DEF Spec

-----------------------------------------------------------------------------
(* Reachability.  What makes Reach what its name says: it holds the start,   *)
(* is closed under the edges, and is within every set that does and is.      *)

(* Every non-empty set of naturals has a least element.                     *)
LEMMA LeastOf ==
    ASSUME NEW S \in SUBSET Nat, S # {}
    PROVE  \E k \in S : \A l \in S : k <= l
  <1> DEFINE R == OpToRel(<, Nat)
  <1>1. IsWellFoundedOn(R, Nat)
    BY NatLessThanWellFounded
  <1> HIDE DEF R
  <1>2. PICK k \in S : \A l \in S : <<l, k>> \notin R
    BY <1>1, WFMin
  <1>3. ASSUME NEW l \in S
        PROVE  k <= l
    <2>1. l \in Nat /\ k \in Nat
      OBVIOUS
    <2>2. l < k => <<l, k>> \in R
      BY <2>1 DEF R, OpToRel
    <2>3. <<l, k>> \notin R
      BY <1>2
    <2> QED
      BY <2>1, <2>2, <2>3
  <1> QED
    BY <1>3

(* Where the edges of E that leave X lead to.                               *)
Beyond(E, X) == {e.to : e \in {x \in E : x.from \in X}}

(* The equation of Reach's stages.                                          *)
Stages(f, E, S) ==
  f = [i \in Nat |-> IF i = 0 THEN S ELSE f[i - 1] \cup {e.to : e \in {x \in E : x.from \in f[i - 1]}}]

LEMMA ReachIsStage ==
    ASSUME NEW E, NEW S, NEW g, Stages(g, E, S)
    PROVE  \E f : Stages(f, E, S) /\ Reach(E, S) = f[Cardinality(E)]
  BY Zenon DEF Stages, Reach

(* A path of i edges from S to v. *)
Around(E, S) == S \cup {e.to : e \in E}
Leads(E, S, i, v) ==
  \E p \in [0..i -> Around(E, S)] :
    /\ p[0] \in S /\ p[i] = v
    /\ \A j \in 1..i : \E e \in E : e.from = p[j - 1] /\ e.to = p[j]

Within(E, S) ==
  [i \in Nat |-> {v \in Around(E, S) : \E k \in 0..i : Leads(E, S, k, v)}]

LEMMA NoEdgeLeads ==
    ASSUME NEW E, NEW S
    PROVE  \A v : Leads(E, S, 0, v) <=> v \in S
  <1>1. ASSUME NEW v, Leads(E, S, 0, v)
        PROVE  v \in S
    BY <1>1 DEF Leads
  <1>2. ASSUME NEW v \in S
        PROVE  Leads(E, S, 0, v)
    <2> DEFINE p == [j \in 0..0 |-> v]
    <2>1. p \in [0..0 -> Around(E, S)] /\ p[0] = v
      BY DEF Around
    <2>2. 1..0 = {}
      OBVIOUS
    <2> HIDE DEF p
    <2>3. \A j \in 1..0 : \E e \in E : e.from = p[j - 1] /\ e.to = p[j]
      BY <2>2
    <2> QED
      BY <2>1, <2>3 DEF Leads
  <1> QED
    BY <1>1, <1>2

LEMMA OneEdgeMore ==
    ASSUME NEW E, NEW S, NEW i \in Nat, NEW v
    PROVE  Leads(E, S, i + 1, v) <=>
             \E e \in E : Leads(E, S, i, e.from) /\ v = e.to
  <1>1. ASSUME Leads(E, S, i + 1, v)
        PROVE  \E e \in E : Leads(E, S, i, e.from) /\ v = e.to
    <2>1. PICK p \in [0..(i + 1) -> Around(E, S)] :
            /\ p[0] \in S /\ p[i + 1] = v
            /\ \A j \in 1..(i + 1) : \E e \in E : e.from = p[j - 1] /\ e.to = p[j]
      BY <1>1 DEF Leads
    <2>2. PICK e \in E : e.from = p[i] /\ e.to = p[i + 1]
      <3>1. i + 1 \in 1..(i + 1) /\ (i + 1) - 1 = i
        OBVIOUS
      <3> QED
        BY <2>1, <3>1
    <2> DEFINE q == [j \in 0..i |-> p[j]]
    <2>3. /\ q \in [0..i -> Around(E, S)] /\ q[0] = p[0] /\ q[i] = p[i]
          /\ \A j \in 1..i : q[j] = p[j] /\ q[j - 1] = p[j - 1]
      OBVIOUS
    <2>4. \A j \in 1..i : \E x \in E : x.from = q[j - 1] /\ x.to = q[j]
      BY <2>1, <2>3
    <2> HIDE DEF q
    <2>5. Leads(E, S, i, e.from)
      BY <2>1, <2>2, <2>3, <2>4 DEF Leads
    <2> QED
      BY <2>1, <2>2, <2>5
  <1>2. ASSUME NEW e \in E, Leads(E, S, i, e.from), v = e.to
        PROVE  Leads(E, S, i + 1, v)
    <2>1. PICK p \in [0..i -> Around(E, S)] :
            /\ p[0] \in S /\ p[i] = e.from
            /\ \A j \in 1..i : \E x \in E : x.from = p[j - 1] /\ x.to = p[j]
      BY <1>2 DEF Leads
    <2> DEFINE q == [j \in 0..(i + 1) |-> IF j = i + 1 THEN v ELSE p[j]]
    <2>2. v \in Around(E, S)
      BY <1>2 DEF Around
    <2>3. /\ q \in [0..(i + 1) -> Around(E, S)] /\ q[0] = p[0] /\ q[i + 1] = v /\ q[i] = p[i]
          /\ \A j \in 1..i : q[j] = p[j] /\ q[j - 1] = p[j - 1]
      BY <2>2
    <2> HIDE DEF q
    <2>4. ASSUME NEW j \in 1..(i + 1)
          PROVE  \E x \in E : x.from = q[j - 1] /\ x.to = q[j]
      <3>1. CASE j = i + 1
        BY <1>2, <2>1, <2>3, <3>1
      <3>2. CASE j # i + 1
        <4>1. j \in 1..i
          BY <3>2
        <4> QED
          BY <2>1, <2>3, <4>1
      <3> QED
        BY <3>1, <3>2
    <2> QED
      BY <2>1, <2>3, <2>4 DEF Leads
  <1> QED
    BY <1>1, <1>2

LEMMA LeadsAround ==
    ASSUME NEW E, NEW S, NEW i \in Nat, NEW v, Leads(E, S, i, v)
    PROVE  v \in Around(E, S)
  BY DEF Leads

LEMMA StagesExist ==
    ASSUME NEW E, NEW S
    PROVE  \E f : Stages(f, E, S)
  <1> DEFINE w == Within(E, S)
             Step(i) == IF i = 0 THEN S ELSE w[i - 1] \cup {e.to : e \in {x \in E : x.from \in w[i - 1]}}
  <1>1. \A i \in Nat : \A v : v \in w[i] <=> \E k \in 0..i : Leads(E, S, k, v)
    BY LeadsAround DEF Within
  <1>2. w = [i \in Nat |-> w[i]]
    BY DEF Within
  <1> HIDE DEF w
  <1>3. ASSUME NEW i \in Nat
        PROVE  w[i] = Step(i)
    <2>1. CASE i = 0
      <3>1. \A v : v \in w[0] <=> Leads(E, S, 0, v)
        BY <1>1
      <3> QED
        BY <2>1, <3>1, NoEdgeLeads
    <2>2. CASE i # 0
      <3>1. i - 1 \in Nat /\ (i - 1) + 1 = i
        BY <2>2
      <3>2. ASSUME NEW v \in w[i]
            PROVE  v \in Step(i)
        <4>1. PICK k \in 0..i : Leads(E, S, k, v)
          BY <1>1, <3>2
        <4>2. CASE k <= i - 1
          BY <1>1, <2>2, <3>1, <4>1, <4>2
        <4>3. CASE k = i
          <5>1. Leads(E, S, (i - 1) + 1, v)
            BY <3>1, <4>1, <4>3
          <5>2. \A n \in Nat : Leads(E, S, n + 1, v) =>
                  \E e \in E : Leads(E, S, n, e.from) /\ v = e.to
            BY OneEdgeMore
          <5>3. PICK e \in E : Leads(E, S, i - 1, e.from) /\ v = e.to
            BY <3>1, <5>1, <5>2
          <5>4. e.from \in w[i - 1]
            BY <1>1, <3>1, <5>3
          <5> QED
            BY <2>2, <5>3, <5>4
        <4> QED
          BY <4>2, <4>3
      <3>3. ASSUME NEW v \in Step(i)
            PROVE  v \in w[i]
        <4>1. CASE v \in w[i - 1]
          <5>1. PICK k \in 0..(i - 1) : Leads(E, S, k, v)
            BY <1>1, <3>1, <4>1
          <5>2. k \in 0..i
            BY <3>1
          <5> QED
            BY <1>1, <5>1, <5>2
        <4>2. CASE \E e \in E : e.from \in w[i - 1] /\ v = e.to
          <5>1. PICK e \in E : e.from \in w[i - 1] /\ v = e.to
            BY <4>2
          <5>2. PICK k \in 0..(i - 1) : Leads(E, S, k, e.from)
            BY <1>1, <3>1, <5>1
          <5>3. k \in Nat /\ k + 1 \in 0..i
            BY <3>1
          <5>4. Leads(E, S, k + 1, v)
            BY <5>1, <5>2, <5>3, OneEdgeMore
          <5> QED
            BY <1>1, <5>3, <5>4
        <4> QED
          BY <2>2, <3>3, <4>1, <4>2
      <3> QED
        BY <3>2, <3>3
    <2> QED
      BY <2>1, <2>2
  <1>4. w = [i \in Nat |-> Step(i)]
    <2> HIDE DEF Step
    <2> QED
      BY <1>2, <1>3
  <1>5. Stages(w, E, S)
    BY <1>4 DEF Stages
  <1> QED
    BY <1>5

(* A stage is the one before and where its edges lead.                      *)
LEMMA StageIs ==
    ASSUME NEW E, NEW S, NEW f, Stages(f, E, S)
    PROVE  /\ f[0] = S
           /\ \A i \in Nat : f[i + 1] = f[i] \cup Beyond(E, f[i])
  <1>1. f[0] = S
    BY DEF Stages
  <1>2. ASSUME NEW i \in Nat
        PROVE  f[i + 1] = f[i] \cup Beyond(E, f[i])
    <2>1. i + 1 \in Nat /\ i + 1 # 0 /\ (i + 1) - 1 = i
      OBVIOUS
    <2>2. f[i + 1] = f[(i + 1) - 1] \cup {e.to : e \in {x \in E : x.from \in f[(i + 1) - 1]}}
      BY <2>1 DEF Stages
    <2> QED
      BY <2>1, <2>2 DEF Beyond
  <1> QED
    BY <1>1, <1>2

(* What is used of the stages: how they grow, and which one Reach is.       *)
Grows(f, E, S) ==
  /\ Reach(E, S) = f[Cardinality(E)]
  /\ f[0] = S
  /\ \A i \in Nat : f[i + 1] = f[i] \cup Beyond(E, f[i])

LEMMA ReachStages ==
    ASSUME NEW E, NEW S
    PROVE  \E f : Grows(f, E, S)
  <1>1. PICK g : Stages(g, E, S)
    BY StagesExist
  <1>2. PICK f : Stages(f, E, S) /\ Reach(E, S) = f[Cardinality(E)]
    BY <1>1, ReachIsStage
  <1>3. Grows(f, E, S)
    BY <1>2, StageIs DEF Grows
  <1> QED
    BY <1>3

(* Reach holds nothing that a set with S in it and closed under E does not. *)
LEMMA ReachIsLeast ==
    ASSUME NEW E, IsFiniteSet(E), NEW S, NEW T, S \subseteq T,
           \A e \in E : e.from \in T => e.to \in T
    PROVE  Reach(E, S) \subseteq T
  <1>0. PICK f : Grows(f, E, S)
    BY ReachStages
  <1>1. /\ Reach(E, S) = f[Cardinality(E)]
        /\ f[0] = S
        /\ \A i \in Nat : f[i + 1] = f[i] \cup Beyond(E, f[i])
    BY <1>0 DEF Grows
  <1> DEFINE Bad == {i \in Nat : ~(f[i] \subseteq T)}
  <1>2. Bad = {}
    <2>1. SUFFICES ASSUME Bad # {} PROVE FALSE
      OBVIOUS
    <2>2. PICK k \in Bad : \A l \in Bad : k <= l
      BY <2>1, LeastOf
    <2>3. k # 0
      BY <1>1
    <2>4. k - 1 \in Nat /\ (k - 1) + 1 = k
      BY <2>3
    <2>5. f[k - 1] \subseteq T
      BY <2>2, <2>4
    <2>6. f[k] = f[k - 1] \cup Beyond(E, f[k - 1])
      BY <1>1, <2>4
    <2> QED
      BY <2>2, <2>5, <2>6 DEF Beyond
  <1>3. Cardinality(E) \in Nat
    BY FS_CardinalityType
  <1> QED
    BY <1>1, <1>2, <1>3

(* As long as a stage is not closed, the next one uses an edge that was not *)
(* used before, and there are no more stages than edges.                    *)
LEMMA ReachIsClosed ==
    ASSUME NEW E, IsFiniteSet(E), NEW S
    PROVE  /\ S \subseteq Reach(E, S)
           /\ \A e \in E : e.from \in Reach(E, S) => e.to \in Reach(E, S)
  <1>0. PICK f : Grows(f, E, S)
    BY ReachStages
  <1>1. /\ Reach(E, S) = f[Cardinality(E)]
        /\ f[0] = S
        /\ \A i \in Nat : f[i + 1] = f[i] \cup Beyond(E, f[i])
    BY <1>0 DEF Grows
  <1> DEFINE Used(i) == {e \in E : e.from \in f[i]}
             Closed(i) == Beyond(E, f[i]) \subseteq f[i]
  <1>2. \A i \in Nat : /\ Used(i) \in SUBSET E /\ IsFiniteSet(Used(i))
                       /\ Cardinality(Used(i)) \in Nat
    BY FS_Subset, FS_CardinalityType
  <1>3. ASSUME NEW i \in Nat, ~Closed(i), i # 0
        PROVE  ~Closed(i - 1) /\ Cardinality(Used(i - 1)) < Cardinality(Used(i))
    <2>1. i - 1 \in Nat /\ (i - 1) + 1 = i
      BY <1>3
    <2>2. f[i] = f[i - 1] \cup Beyond(E, f[i - 1])
      BY <1>1, <2>1
    <2>3. ~Closed(i - 1)
      BY <1>3, <2>2
    <2>4. PICK e \in E : e.from \in f[i] /\ e.to \notin f[i]
      BY <1>3 DEF Beyond
    <2>5. e \in Used(i) /\ e \notin Used(i - 1)
      BY <2>2, <2>4 DEF Beyond
    <2>6. Used(i - 1) \in SUBSET Used(i)
      BY <2>2
    <2>7. Cardinality(Used(i - 1)) <= Cardinality(Used(i))
          /\ Cardinality(Used(i)) # Cardinality(Used(i - 1))
      <3> HIDE DEF Used
      <3> QED
        BY <1>2, <2>5, <2>6, FS_Subset
    <2> QED
      BY <1>2, <2>1, <2>3, <2>7
  <1>4. ASSUME NEW i \in Nat, ~Closed(i)
        PROVE  Cardinality(Used(i)) > i
    <2> DEFINE Bad == {k \in Nat : ~Closed(k) /\ ~(Cardinality(Used(k)) > k)}
    <2>1. SUFFICES ASSUME Bad # {} PROVE FALSE
      BY <1>4
    <2>2. PICK k \in Bad : \A l \in Bad : k <= l
      BY <2>1, LeastOf
    <2>3. CASE k = 0
      <3>1. PICK e \in E : e.from \in f[0]
        BY <2>2, <2>3 DEF Beyond
      <3>2. Used(0) # {}
        BY <3>1
      <3>3. Cardinality(Used(0)) # 0
        <4> HIDE DEF Used
        <4> QED
          BY <1>2, <3>2, FS_EmptySet
      <3> QED
        BY <1>2, <2>2, <2>3, <3>3
    <2>4. CASE k # 0
      <3>1. k - 1 \in Nat
        BY <2>4
      <3>2. ~Closed(k - 1) /\ Cardinality(Used(k - 1)) < Cardinality(Used(k))
        BY <1>3, <2>2, <2>4
      <3> HIDE DEF Used, Closed
      <3>3. ~(Cardinality(Used(k - 1)) > k - 1)
        BY <1>2, <2>2, <3>1, <3>2
      <3> QED
        BY <2>2, <3>1, <3>2, <3>3
    <2> QED
      BY <2>3, <2>4
  <1>5. Cardinality(E) \in Nat
    BY FS_CardinalityType
  <1>6. Closed(Cardinality(E))
    <2>1. Cardinality(Used(Cardinality(E))) <= Cardinality(E)
      <3> HIDE DEF Used
      <3> QED
        BY <1>2, <1>5, FS_Subset
    <2> QED
      BY <1>2, <1>4, <1>5, <2>1
  <1>7. S \subseteq f[Cardinality(E)]
    <2> DEFINE Bad == {k \in Nat : ~(S \subseteq f[k])}
    <2>1. SUFFICES ASSUME Bad # {} PROVE FALSE
      BY <1>5
    <2>2. PICK k \in Bad : \A l \in Bad : k <= l
      BY <2>1, LeastOf
    <2>3. k # 0
      BY <1>1, <2>2
    <2>4. k - 1 \in Nat /\ (k - 1) + 1 = k
      BY <2>3
    <2> QED
      BY <1>1, <2>2, <2>4
  <1> QED
    BY <1>1, <1>6, <1>7 DEF Beyond

-----------------------------------------------------------------------------
(* Legal graphs end.                                                        *)

(* A finite set of numbers has a greatest: the one with the fewest above.   *)
LEMMA GreatestOf ==
    ASSUME NEW S, S \subseteq Int, IsFiniteSet(S), S # {}
    PROVE  \E k \in S : \A l \in S : l <= k
  <1> DEFINE Above(x) == {y \in S : y > x}
             Counts == {Cardinality(Above(x)) : x \in S}
  <1>1. \A x \in S : Above(x) \in SUBSET S /\ IsFiniteSet(Above(x)) /\ Cardinality(Above(x)) \in Nat
    BY FS_Subset, FS_CardinalityType
  <1>2. PICK n \in Counts : \A l \in Counts : n <= l
    <2>1. Counts \in SUBSET Nat /\ Counts # {}
      BY <1>1
    <2> HIDE DEF Counts
    <2> QED
      BY <2>1, LeastOf
  <1>3. PICK k \in S : n = Cardinality(Above(k))
    BY <1>2
  <1>4. ASSUME NEW l \in S, ~(l <= k)
        PROVE  FALSE
    <2>1. l > k /\ l \in Int /\ k \in Int
      BY <1>4
    <2>2. Above(l) \in SUBSET Above(k) /\ l \in Above(k) /\ l \notin Above(l)
      <3>1. ASSUME NEW y \in Above(l)
            PROVE  y \in Above(k)
        <4>1. y \in S /\ y \in Int /\ y > l
          OBVIOUS
        <4> QED
          BY <2>1, <4>1
      <3>2. l \in Above(k) /\ l \notin Above(l)
        BY <2>1
      <3> QED
        BY <3>1, <3>2
    <2>3. Cardinality(Above(k)) <= Cardinality(Above(l))
      BY <1>2, <1>3
    <2> HIDE DEF Above
    <2>4. /\ Cardinality(Above(l)) <= Cardinality(Above(k))
          /\ Cardinality(Above(l)) # Cardinality(Above(k))
      BY <1>1, <2>2, FS_Subset
    <2> QED
      BY <1>1, <2>3, <2>4
  <1> QED
    BY <1>4

(* What holds of the moves of any model.                                    *)
LEMMA MovesAreDrawn ==
    ASSUME NEW g, WellDrawn(g), ReferencesHold(g), NEW model, NEW S, S \subseteq NodesOf(g)
    PROVE  /\ IsFiniteSet(Moves(model, g)) /\ Moves(model, g) \subseteq g.edges
           /\ Reach(Moves(model, g), S) \subseteq NodesOf(g)
  <1>1. Moves(model, g) \in SUBSET g.edges
    BY DEF Moves
  <1>2. IsFiniteSet(Moves(model, g))
    BY <1>1, FS_Subset DEF WellDrawn
  <1>3. \A e \in Moves(model, g) : e.to \in NodesOf(g)
    BY <1>1 DEF ReferencesHold
  <1> QED
    BY <1>1, <1>2, <1>3, ReachIsLeast

(* From wherever an instance may be, its primaries lead upwards until they  *)
(* lead to a TERMINAL.                                                      *)
LEMMA LegacyCanEnd ==
    ASSUME NEW g, WellDrawn(g), NEW schema, LegacyLegal(g, schema)
    PROVE  CanEnd(1, g)
  <1> DEFINE M == Moves(1, g)
  <1>1. ReferencesHold(g) /\ LegacyPrimary(g)
    BY DEF LegacyLegal
  <1>2. EntryOf(1, g) \in NodesOf(g)
    <2>1. Drafts(g) \in SUBSET NodesOf(g) /\ IsFiniteSet(Drafts(g))
      BY FS_Subset DEF Drafts, WellDrawn
    <2>2. Cardinality(Drafts(g)) = 1
      BY DEF LegacyLegal, LegacyNodes
    <2>3. Drafts(g) # {}
      BY <2>2, FS_EmptySet
    <2> QED
      BY <2>1, <2>3 DEF EntryOf
  <1>3. ASSUME NEW n \in NodesOf(g), Reach(M, {n}) \cap Terminals(g) = {}
        PROVE  FALSE
    <2> DEFINE R == Reach(M, {n})
    <2>1. R \subseteq NodesOf(g) /\ IsFiniteSet(M) /\ M \subseteq g.edges
      BY <1>1, MovesAreDrawn
    <2>2. n \in R /\ \A e \in M : e.from \in R => e.to \in R
      BY <2>1, ReachIsClosed
    <2>3. PICK k \in R : \A l \in R : l <= k
      <3>1. IsFiniteSet(R) /\ R \subseteq Int /\ R # {}
        BY <2>1, <2>2, FS_Subset DEF WellDrawn
      <3> HIDE DEF R
      <3> QED
        BY <3>1, GreatestOf
    <2>4. k \in Works(g) /\ k \in NodesOf(g) /\ k \in Int
      BY <1>3, <2>1 DEF Works, WellDrawn
    <2> DEFINE e == g.primary[k]
    <2>5. e # NoEdge /\ e.from = k /\ e.effect = "ADVANCE" /\ e.to > k
      BY <1>1, <2>4 DEF LegacyPrimary
    <2>6. e \in g.edges
      BY <2>4, <2>5 DEF WellDrawn
    <2>7. e \in M
      BY <2>5, <2>6 DEF Moves
    <2>8. e.to \in R /\ e.to \in Int
      BY <2>1, <2>2, <2>5, <2>7 DEF WellDrawn
    <2> QED
      BY <2>3, <2>4, <2>5, <2>8
  <1>4. Reach(M, {EntryOf(1, g)}) \subseteq NodesOf(g)
    BY <1>1, <1>2, MovesAreDrawn
  <1> QED
    BY <1>3, <1>4 DEF CanEnd

(* Without RETURNs every move goes up or ends.                              *)
LEMMA LegacyCyclesReturn ==
    ASSUME NEW g, WellDrawn(g), NEW schema, LegacyLegal(g, schema)
    PROVE  CyclesReturn(1, g)
  <1> DEFINE M == {e \in Moves(1, g) : e.effect # "RETURN"}
  <1>1. /\ ReferencesHold(g) /\ LegacyPrimary(g) /\ TerminatesEnd(g) /\ TerminalIsLast(g)
    BY DEF LegacyLegal
  <1>2. M \in SUBSET g.edges /\ IsFiniteSet(M)
    <2>1. M \in SUBSET g.edges
      BY DEF Moves
    <2> QED
      BY <2>1, FS_Subset DEF WellDrawn
  <1>3. ASSUME NEW e \in M
        PROVE  /\ e.from \in NodesOf(g) \ Terminals(g) /\ e.from \in Int
               /\ e.to \in NodesOf(g) /\ e.to \in Int
               /\ e.to > e.from \/ e.to \in Terminals(g)
    <2>1. e \in g.edges /\ e.from \in NodesOf(g) /\ e.to \in NodesOf(g)
          /\ e.from \notin Terminals(g)
      BY <1>1, <1>2 DEF ReferencesHold, TerminalIsLast
    <2>2. CASE e.effect = "TERMINATE"
      BY <1>1, <2>1, <2>2 DEF TerminatesEnd, Of, WellDrawn
    <2>3. CASE e.effect = "ADVANCE"
      <3>1. g.primary[e.from] = e
        BY <2>3 DEF Moves
      <3>2. e # NoEdge
        <4>1. e.from # e.to
          BY <1>1, <2>1 DEF ReferencesHold
        <4> QED
          BY <4>1 DEF NoEdge
      <3>3. e.to > e.from
        BY <1>1, <2>1, <3>1, <3>2 DEF LegacyPrimary
      <3> QED
        BY <2>1, <3>3 DEF WellDrawn
    <2>4. e.effect \in {"ADVANCE", "TERMINATE"}
      BY <2>1 DEF WellDrawn, Effects
    <2> QED
      BY <2>2, <2>3, <2>4
  <1>4. ASSUME NEW e \in M
        PROVE  e.from \notin Reach(M, {e.to})
    <2> DEFINE T == {x \in NodesOf(g) : x > e.from} \cup Terminals(g)
    <2>1. {e.to} \subseteq T /\ e.from \notin T
      BY <1>3
    <2>2. ASSUME NEW x \in M, x.from \in T
          PROVE  x.to \in T
      <3>1. x.from > e.from
        BY <1>3, <2>2
      <3>2. x.to > x.from => x.to > e.from
        BY <1>3, <3>1
      <3> QED
        BY <1>3, <3>2
    <2> HIDE DEF T, M
    <2>3. Reach(M, {e.to}) \subseteq T
      BY <1>2, <2>1, <2>2, ReachIsLeast
    <2> QED
      BY <2>1, <2>3
  <1> QED
    BY <1>4 DEF CyclesReturn, OnCycle

(* A cycle without a RETURN would be a cycle of the primaries of its nodes. *)
LEMMA ActivationCyclesReturn ==
    ASSUME NEW g, WellDrawn(g), ActivationLegal(g)
    PROVE  CyclesReturn(3, g)
  <1> DEFINE M == {e \in Moves(3, g) : e.effect # "RETURN"}
             A == ActivationSteps(g)
  <1>1. /\ ReferencesHold(g) /\ ActivationPrimary(g) /\ TerminatesEnd(g) /\ TerminalIsLast(g)
        /\ OnCycle(A) = {}
    BY DEF ActivationLegal
  <1>2. M \in SUBSET g.edges /\ IsFiniteSet(M) /\ A \in SUBSET g.edges /\ IsFiniteSet(A)
    <2>1. M \in SUBSET g.edges
      BY DEF Moves
    <2>2. A \in SUBSET g.edges
      BY <1>1 DEF ActivationSteps, ActivationPrimary, Of
    <2> QED
      BY <2>1, <2>2, FS_Subset DEF WellDrawn
  <1>3. ASSUME NEW e \in M
        PROVE  /\ e.from \notin Terminals(g)
               /\ e \in A \/ e.to \in Terminals(g)
    <2>1. e \in g.edges /\ e.from \in NodesOf(g) /\ e.from \notin Terminals(g)
      BY <1>1, <1>2 DEF ReferencesHold, TerminalIsLast
    <2>2. CASE e.effect = "TERMINATE"
      BY <1>1, <2>1, <2>2 DEF TerminatesEnd, Of
    <2>3. CASE e.effect = "ADVANCE"
      <3>1. g.primary[e.from] = e
        BY <2>3 DEF Moves
      <3> QED
        BY <2>1, <3>1 DEF ActivationSteps, Works
    <2>4. e.effect \in {"ADVANCE", "TERMINATE"}
      BY <2>1 DEF WellDrawn, Effects
    <2> QED
      BY <2>1, <2>2, <2>3, <2>4
  <1>4. ASSUME NEW e \in M
        PROVE  e.from \notin Reach(M, {e.to})
    <2> DEFINE T == (IF e \in A THEN Reach(A, {e.to}) ELSE {}) \cup Terminals(g)
    <2>1. \A x \in A : x.from \in Reach(A, {e.to}) => x.to \in Reach(A, {e.to})
      <3> HIDE DEF A
      <3> QED
        BY <1>2, ReachIsClosed
    <2>2. e.to \in Reach(A, {e.to})
      <3> HIDE DEF A
      <3> QED
        BY <1>2, ReachIsClosed
    <2> HIDE DEF A, M
    <2>3. {e.to} \subseteq T
      BY <1>3, <2>2
    <2>4. ASSUME NEW x \in M, x.from \in T
          PROVE  x.to \in T
      BY <1>3, <2>1, <2>4
    <2>5. Reach(M, {e.to}) \subseteq T
      <3> HIDE DEF T
      <3> QED
        BY <1>2, <2>3, <2>4, ReachIsLeast
    <2>6. e \in A => e.from \notin Reach(A, {e.to})
      BY <1>1 DEF OnCycle
    <2> QED
      BY <1>3, <2>5, <2>6
  <1> QED
    BY <1>4 DEF CyclesReturn, OnCycle

(* What the rules of each model are worth.                                  *)
LEMMA ModelsEnd ==
    ASSUME NEW g, WellDrawn(g), NEW schema, NEW model \in 1..3, ModelLegal(model, g, schema)
    PROVE  Ends(model, g)
  <1>1. CASE model = 1
    <2>1. LegacyLegal(g, schema)
      BY <1>1 DEF ModelLegal
    <2>2. ReturnsAreEarlier(1, g)
      BY <2>1 DEF LegacyLegal, ReturnsGoBack, ReturnsAreEarlier
    <2> QED
      BY <1>1, <2>1, <2>2, LegacyCanEnd, LegacyCyclesReturn DEF Ends
  <1>2. CASE model = 2
    <2>1. MinimalLegal(g)
      BY <1>2 DEF ModelLegal
    <2>2. ReturnsAreEarlier(2, g)
      BY <2>1 DEF MinimalLegal, MinimalReturns, ReturnsAreEarlier
    <2>3. {e \in Moves(2, g) : e.effect # "RETURN"} = Of(g, "ADVANCE")
      BY <2>1 DEF MinimalLegal, Of, Moves, WellDrawn, Effects
    <2>4. CyclesReturn(2, g)
      BY <2>1, <2>3 DEF CyclesReturn, MinimalLegal
    <2> QED
      BY <1>2, <2>2, <2>4 DEF Ends
  <1>3. CASE model = 3
    <2>1. ActivationLegal(g)
      BY <1>3 DEF ModelLegal
    <2>2. ReturnsAreEarlier(3, g)
      BY <2>1 DEF ActivationLegal, ActivationReturns, ReturnsAreEarlier
    <2> QED
      BY <1>3, <2>1, <2>2, ActivationCyclesReturn DEF Ends
  <1> QED
    BY <1>1, <1>2, <1>3

(* The graphs the validators are tried on are well drawn.                   *)
LEMMA TriedAreDrawn ==
    ASSUME NEW p \in [1..(Last - 1) -> Edges("ADVANCE", 1..Last)],
           NEW r \in AtMostOne(Edges("RETURN", 1..(Last - 1))),
           NEW t \in AtMostOne(Edges("TERMINATE", {Last})),
           NEW first, NEW other
    PROVE  WellDrawn(Drawn(first, other, p, r \cup t))
  <1> DEFINE g == Drawn(first, other, p, r \cup t)
             I == 1..(Last - 1)
             D == {p[n] : n \in I}
  <1>1. /\ DOMAIN g.kind = 1..Last /\ g.edges = D \cup (r \cup t)
        /\ g.primary = [n \in 1..Last |-> IF n = Last THEN NoEdge ELSE p[n]]
    BY DEF Drawn, EmptyGraph
  <1>2. Last \in Nat \ {0}
    BY LastAssumption
  <1>3. IsFiniteSet(1..Last) /\ 1..Last \subseteq Int /\ IsFiniteSet(I)
    BY <1>2, FS_Interval
  <1>4. IsFiniteSet(r) /\ IsFiniteSet(t)
    <2>1. r = {} \/ \E x : r = {x}
      BY DEF AtMostOne
    <2>2. t = {} \/ \E x : t = {x}
      BY DEF AtMostOne
    <2>3. IsFiniteSet({}) /\ \A x : IsFiniteSet({x})
      BY FS_EmptySet, FS_Singleton
    <2> QED
      BY <2>1, <2>2, <2>3
  <1>5. IsFiniteSet(D)
    <2> DEFINE q == [n \in I |-> p[n]]
    <2>1. q \in Surjection(I, D)
      BY DEF Surjection
    <2> HIDE DEF q, I, D
    <2> QED
      BY <1>3, <2>1, FS_Surjection
  <1>6. IsFiniteSet(g.edges)
    <2>1. IsFiniteSet(r \cup t)
      BY <1>4, FS_Union
    <2> HIDE DEF D, g
    <2>2. IsFiniteSet(D \cup (r \cup t))
      BY <1>5, <2>1, FS_Union
    <2> QED
      BY <1>1, <2>2
  <1>7. \A e \in g.edges : e.effect \in Effects
    <2>1. \A e \in D : e.effect = "ADVANCE"
      BY DEF Edges
    <2>2. \A e \in r : e.effect = "RETURN"
      BY DEF Edges, AtMostOne
    <2>3. \A e \in t : e.effect = "TERMINATE"
      BY DEF Edges, AtMostOne
    <2> HIDE DEF D, g
    <2> QED
      BY <1>1, <2>1, <2>2, <2>3 DEF Effects
  <1>8. \A n \in NodesOf(g) : g.primary[n] \in g.edges \cup {NoEdge}
    <2> HIDE DEF g
    <2>1. NodesOf(g) = 1..Last
      BY <1>1 DEF NodesOf
    <2>2. ASSUME NEW n \in 1..Last, n # Last
          PROVE  p[n] \in D
      BY <1>2, <2>2
    <2> HIDE DEF D
    <2> QED
      BY <1>1, <2>1, <2>2
  <1> QED
    BY <1>1, <1>3, <1>6, <1>7, <1>8 DEF WellDrawn, NodesOf

(* On the graphs the run tries, and on every other finite graph.            *)
LEMMA LegalGraphsDoEnd == LegalGraphsEnd
  <1> SUFFICES
        ASSUME NEW p \in [1..(Last - 1) -> Edges("ADVANCE", 1..Last)],
               NEW r \in AtMostOne(Edges("RETURN", 1..(Last - 1))),
               NEW t \in AtMostOne(Edges("TERMINATE", {Last}))
        PROVE  LET l == Drawn("DRAFT", "NORMAL", p, r \cup t)
                   m == Unmarked(Drawn("NORMAL", "NORMAL", p, r \cup t))
                   a == Drawn("TASK", "TASK", p, r \cup t) IN
               /\ LegacyLegal(l, "none") => Ends(1, l)
               /\ MinimalLegal(m) => Ends(2, m)
               /\ ActivationLegal(a) => Ends(3, a)
    BY DEF LegalGraphsEnd
  <1> DEFINE l == Drawn("DRAFT", "NORMAL", p, r \cup t)
             n == Drawn("NORMAL", "NORMAL", p, r \cup t)
             m == Unmarked(n)
             a == Drawn("TASK", "TASK", p, r \cup t)
  <1>1. WellDrawn(l) /\ WellDrawn(n) /\ WellDrawn(a)
    BY TriedAreDrawn
  <1>2. /\ NodesOf(m) = NodesOf(n) /\ m.edges = n.edges
        /\ m.primary = [i \in NodesOf(n) |-> NoEdge]
    BY DEF Unmarked, NodesOf, Drawn, EmptyGraph
  <1> HIDE DEF l, m, n, a
  <1>3. WellDrawn(m)
    BY <1>1, <1>2 DEF WellDrawn
  <1>4. LegacyLegal(l, "none") => Ends(1, l)
    BY <1>1, ModelsEnd DEF ModelLegal
  <1>5. MinimalLegal(m) => Ends(2, m)
    BY <1>3, ModelsEnd DEF ModelLegal
  <1>6. ActivationLegal(a) => Ends(3, a)
    BY <1>1, ModelsEnd DEF ModelLegal
  <1> USE DEF l, m, n, a
  <1> QED
    BY <1>4, <1>5, <1>6

-----------------------------------------------------------------------------
(* The variables have their types, whatever the commands do. *)
THEOREM TypeCorrect == Spec => []TypeOK
  BY Invariance, InvariantImplies, PTL

(* Whatever is published passed the validators as it stands, with the digest  *)
(* of what is stored and pointing to published versions, however the commands *)
(* of any number of clients fall between its check and its commit.           *)
THEOREM PublishedIsChecked == Spec => []PublishedAsChecked
  BY Invariance, InvariantImplies, PTL

(* An instance of a published version can rely on its graph, whatever its     *)
(* size: what the validators accept has no way round but over a RETURN, to an *)
(* earlier node, and under model 1 a way to a TERMINAL from everywhere.       *)
THEOREM PublishedCanEnd == Spec => []PublishedIsSound
  <1>1. IInv => PublishedGraphsEnd
    <2> SUFFICES ASSUME IInv, NEW v \in Versions, Issued(v)
                 PROVE  Ends(version[v].model, version[v].content.graph)
      BY DEF PublishedGraphsEnd
    <2>1. WellDrawn(version[v].content.graph) /\ version[v].model \in 1..3
      BY DEF IInv, Rows, RowOf
    <2>2. ModelLegal(version[v].model, version[v].content.graph, version[v].content.schema)
      BY DEF IInv, Rows, Legal, ContentLegal, Valid
    <2> QED
      BY <2>1, <2>2, ModelsEnd
  <1>2. IInv => PublishedIsSound
    BY <1>1, InvariantImplies, LegalGraphsDoEnd DEF PublishedIsSound
  <1> QED
    BY <1>2, Invariance, PTL

(* A success that was stored or is about to be has the effect of its own       *)
(* request on record, lost handlers included; one that was read from a receipt *)
(* has its own too, but for a replace or a draft that differs from the first   *)
(* request of its key in what the receipt is not compared by                   *)
(* (governance_with_receipt, handle_receipt_result).                           *)
THEOREM SuccessIsOnRecord == Spec => []OkIsOnRecord
  BY Invariance, InvariantImplies, PTL

(* The graph, the schema and the digest of a published version never change,  *)
(* and its status only moves on (replace_draft_graph_inner's look under the   *)
(* lock, the status guards of deprecate and revoke).                          *)
THEOREM PublicationIsFinal == Spec => PublishedIsFixed
  <1>1. Rows /\ Evolves => \A v \in Versions : Issued(v) =>
          /\ version'[v].content = version[v].content
          /\ version'[v].digest = version[v].digest
          /\ version'[v].status # version[v].status =>
               <<version[v].status, version'[v].status>> \in Forward
    <2> SUFFICES ASSUME Rows, Evolves, NEW v \in Versions, Issued(v)
                 PROVE  /\ version'[v].content = version[v].content
                        /\ version'[v].digest = version[v].digest
                        /\ version'[v].status # version[v].status =>
                             <<version[v].status, version'[v].status>> \in Forward
      OBVIOUS
    <2>1. Kept(v) \/ Withdrawn(v)
      BY DEF Evolves, Made, Edited, Released, Issued, There
    <2> QED
      BY <2>1 DEF Kept, Withdrawn
  <1>2. IInv /\ [Next]_vars =>
          [\A v \in Versions : Issued(v) =>
             /\ version'[v].content = version[v].content
             /\ version'[v].digest = version[v].digest
             /\ version'[v].status # version[v].status =>
                  <<version[v].status, version'[v].status>> \in Forward]_vars
    BY <1>1, StepKeeps DEF IInv
  <1> QED
    BY <1>2, Invariance, PTL DEF Spec, PublishedIsFixed

=============================================================================
