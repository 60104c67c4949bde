------------------------ MODULE TokenVerifierProofs ------------------------
(***************************************************************************)
(* Theorems about TokenVerifier, for any keys, requests, tokens, lifetimes   *)
(* and bounds.                                                              *)
(***************************************************************************)
EXTENDS VerifierProperties, TLAPS

-----------------------------------------------------------------------------
(* The inductive invariant. *)

Holding == {"recheck", "sent", "answered", "find"}
Refreshers == Requests \cup {Probe}

Verdicts == {"accepted", "invalid_time_claims", "token_ttl_exceeded", "token_not_yet_valid",
             "token_expired", "invalid_scope", "invalid_principal_type", "unauthorized_client",
             "unauthorized_principal", "malformed_token", "unauthorized_delegating_principal",
             "invalid_token_use"}

(* The variables that are only read and written at one index. *)
Shapes ==
  /\ DOMAIN answer = Fetchers
  /\ servedAt \in [Kids -> Int]
  /\ phase[Eager] \in {"sent", "answered", "done"}

(* A refresh is the work of the lock's holder, whatever step it is at. *)
LockHeld == \A f \in Refreshers : phase[f] \in Holding => lock = f

(* A request that is not excused sees its kid wherever it looks. *)
KidInSight ==
  \A r \in Requests : Running(r) /\ r \notin excused =>
    /\ token[r].kid \in published
    /\ phase[Eager] = "done"
    /\ phase[r] # "classify"
    /\ phase[r] = "answered" => token[r].kid \in fetch[r].keys
    /\ phase[r] = "find" => token[r].kid \in cache.keys

(* How old the word of a key can be: in an answer, in the cache, when found. *)
KeysAreYoung ==
  /\ \A k \in Kids : servedAt[k] <= now
  /\ \A k \in published : servedAt[k] = now
  /\ \A f \in Fetchers : phase[f] \in {"sent", "answered"} => now <= fetch[f].at + HttpTimeout
  /\ \A f \in Fetchers : phase[f] = "answered" =>
       \A k \in fetch[f].keys : fetch[f].at <= servedAt[k]
  /\ \A k \in cache.keys : cache.at <= servedAt[k] + HttpTimeout
  /\ \A r \in Requests : phase[r] = "find" => cache.at = now

IInv == TypeOK /\ Shapes /\ LockHeld /\ KidInSight /\ UnknownKidIsDeserved /\ KeysAreYoung

-----------------------------------------------------------------------------
(* Lemmas about the operators. *)

LEMMA VerdictType == \A r \in Requests : Verdict(r) \in Verdicts
  <1> SUFFICES ASSUME NEW r \in Requests PROVE Verdict(r) \in Verdicts
    OBVIOUS
  <1> DEFINE t == token[r]
             Errors == (Verdicts \ {"accepted"}) \cup {"none"}
  <1>1. TimeError(t) \in Errors
    BY DEF TimeError, Verdicts
  <1>2. ScopeError(t) \in Errors
    BY DEF ScopeError, Verdicts
  <1>3. DirectError(t) \in Errors
    BY <1>1, <1>2 DEF DirectError, Verdicts
  <1>4. OboError(t) \in Errors
    BY <1>1, <1>2 DEF OboError, Verdicts
  <1>5. ProfileError(t) \in Errors
    <2>1. CASE t.use = "access"
      BY <1>3, <2>1 DEF ProfileError
    <2>2. CASE t.use = "workflow_obo"
      BY <1>4, <2>2 DEF ProfileError
    <2>3. CASE t.use # "access" /\ t.use # "workflow_obo"
      BY <2>3 DEF ProfileError, Verdicts
    <2> QED
      BY <2>1, <2>2, <2>3
  <1> HIDE DEF t
  <1>6. CASE ProfileError(t) = "none"
    BY <1>6 DEF Verdict, Verdicts, t
  <1>7. CASE ProfileError(t) # "none"
    BY <1>5, <1>7 DEF Verdict, t
  <1> QED
    BY <1>6, <1>7

(* The longer of two ages. *)
LEMMA MaxOfTwo ==
  ASSUME NEW a \in Int, NEW b \in Int
  PROVE  /\ Max({a, b}) \in Int
         /\ a <= Max({a, b}) /\ b <= Max({a, b})
  <1>1. \E x \in {a, b} : \A y \in {a, b} : x >= y
    <2>1. CASE a >= b
      BY <2>1
    <2>2. CASE b >= a
      BY <2>2
    <2> QED
      BY <2>1, <2>2
  <1>2. Max({a, b}) \in {a, b} /\ \A y \in {a, b} : Max({a, b}) >= y
    BY <1>1 DEF Max
  <1> QED
    BY <1>2

-----------------------------------------------------------------------------
(* Every action keeps the invariant. *)

LEMMA TickKeeps ==
  ASSUME IInv, Tick
  PROVE  IInv'
  <1>0. IInv /\ Tick
    BY VerifierAssumption
  <1>1. TypeOK'
    BY VerifierAssumption, <1>0 DEF IInv, TypeOK, Shapes, Phases, Fetchers, Tick
  <1>2. Shapes'
    BY VerifierAssumption, VerdictType, <1>0 DEF IInv, TypeOK, Shapes, Phases, Fetchers, Tick
  <1>3. LockHeld'
    BY VerifierAssumption, <1>0 DEF IInv, TypeOK, Shapes, Phases, Fetchers, Tick, LockHeld, Refreshers, Holding
  <1>4. KidInSight'
    BY VerifierAssumption, <1>0 DEF IInv, TypeOK, Shapes, Phases, Fetchers, Tick, LockHeld, Refreshers, Holding, KidInSight, Running
  <1>5. UnknownKidIsDeserved'
    BY VerifierAssumption, VerdictType, <1>0 DEF IInv, TypeOK, Shapes, Phases, Fetchers, Tick, KidInSight, Running, UnknownKidIsDeserved, Verdicts
  <1>6. KeysAreYoung'
    BY VerifierAssumption, <1>0 DEF IInv, TypeOK, Shapes, Phases, Fetchers, Tick, LockHeld, Refreshers, Holding, KeysAreYoung
  <1> QED
    BY <1>1, <1>2, <1>3, <1>4, <1>5, <1>6 DEF IInv

LEMMA RotateKeeps ==
  ASSUME IInv, NEW K \in SUBSET Kids, Rotate(K)
  PROVE  IInv'
  <1>0. IInv /\ Rotate(K)
    BY VerifierAssumption
  <1>1. TypeOK'
    BY VerifierAssumption, <1>0 DEF IInv, TypeOK, Shapes, Phases, Fetchers, Rotate
  <1>2. Shapes'
    BY VerifierAssumption, VerdictType, <1>0 DEF IInv, TypeOK, Shapes, Phases, Fetchers, Rotate
  <1>3. LockHeld'
    BY VerifierAssumption, <1>0 DEF IInv, TypeOK, Shapes, Phases, Fetchers, Rotate, LockHeld, Refreshers, Holding
  <1>4. KidInSight'
    BY VerifierAssumption, <1>0 DEF IInv, TypeOK, Shapes, Phases, Fetchers, Rotate, LockHeld, Refreshers, Holding, KidInSight, Running
  <1>5. UnknownKidIsDeserved'
    BY VerifierAssumption, VerdictType, <1>0 DEF IInv, TypeOK, Shapes, Phases, Fetchers, Rotate, KidInSight, Running, UnknownKidIsDeserved, Verdicts
  <1>6. KeysAreYoung'
    BY VerifierAssumption, <1>0 DEF IInv, TypeOK, Shapes, Phases, Fetchers, Rotate, LockHeld, Refreshers, Holding, KeysAreYoung
  <1> QED
    BY <1>1, <1>2, <1>3, <1>4, <1>5, <1>6 DEF IInv

LEMMA ArriveKeeps ==
  ASSUME IInv, NEW f \in Fetchers, Arrive(f)
  PROVE  IInv'
  <1>0. IInv /\ Arrive(f)
    BY VerifierAssumption
  <1>1. TypeOK'
    BY VerifierAssumption, <1>0 DEF IInv, TypeOK, Shapes, Phases, Fetchers, Arrive, Enter, Found, Hit, Usable, Cached, WithinStale, Age
  <1>2. Shapes'
    BY VerifierAssumption, VerdictType, <1>0 DEF IInv, TypeOK, Shapes, Phases, Fetchers, Arrive, Enter, Found, Hit, Usable, Cached, WithinStale, Age
  <1>3. LockHeld'
    BY VerifierAssumption, <1>0 DEF IInv, TypeOK, Shapes, Phases, Fetchers, Arrive, Enter, Found, Hit, Usable, Cached, WithinStale, Age, LockHeld, Refreshers, Holding
  <1>4. KidInSight'
    BY VerifierAssumption, <1>0 DEF IInv, TypeOK, Shapes, Phases, Fetchers, Arrive, Enter, Found, Hit, Usable, Cached, WithinStale, Age, LockHeld, Refreshers, Holding, KidInSight, Running
  <1>5. UnknownKidIsDeserved'
    BY VerifierAssumption, VerdictType, <1>0 DEF IInv, TypeOK, Shapes, Phases, Fetchers, Arrive, Enter, Found, Hit, Usable, Cached, WithinStale, Age, KidInSight, Running, UnknownKidIsDeserved, Verdicts
  <1>6. KeysAreYoung'
    BY VerifierAssumption, <1>0 DEF IInv, TypeOK, Shapes, Phases, Fetchers, Arrive, Enter, Found, Hit, Usable, Cached, WithinStale, Age, LockHeld, Refreshers, Holding, KeysAreYoung
  <1> QED
    BY <1>1, <1>2, <1>3, <1>4, <1>5, <1>6 DEF IInv

LEMMA AcquireKeeps ==
  ASSUME IInv, NEW f \in Fetchers, Acquire(f)
  PROVE  IInv'
  <1>0. IInv /\ Acquire(f)
    BY VerifierAssumption
  <1>1. TypeOK'
    BY VerifierAssumption, <1>0 DEF IInv, TypeOK, Shapes, Phases, Fetchers, Acquire, Enter
  <1>2. Shapes'
    BY VerifierAssumption, VerdictType, <1>0 DEF IInv, TypeOK, Shapes, Phases, Fetchers, Acquire, Enter
  <1>3. LockHeld'
    BY VerifierAssumption, <1>0 DEF IInv, TypeOK, Shapes, Phases, Fetchers, Acquire, Enter, LockHeld, Refreshers, Holding
  <1>4. KidInSight'
    BY VerifierAssumption, <1>0 DEF IInv, TypeOK, Shapes, Phases, Fetchers, Acquire, Enter, LockHeld, Refreshers, Holding, KidInSight, Running
  <1>5. UnknownKidIsDeserved'
    BY VerifierAssumption, VerdictType, <1>0 DEF IInv, TypeOK, Shapes, Phases, Fetchers, Acquire, Enter, KidInSight, Running, UnknownKidIsDeserved, Verdicts
  <1>6. KeysAreYoung'
    BY VerifierAssumption, <1>0 DEF IInv, TypeOK, Shapes, Phases, Fetchers, Acquire, Enter, LockHeld, Refreshers, Holding, KeysAreYoung
  <1> QED
    BY <1>1, <1>2, <1>3, <1>4, <1>5, <1>6 DEF IInv

LEMMA RecheckKeeps ==
  ASSUME IInv, NEW f \in Fetchers, Recheck(f)
  PROVE  IInv'
  <1>0. IInv /\ Recheck(f)
    BY VerifierAssumption
  <1>1. TypeOK'
    BY VerifierAssumption, <1>0 DEF IInv, TypeOK, Shapes, Phases, Fetchers, Recheck, Enter, Found, Released
  <1>2. Shapes'
    BY VerifierAssumption, VerdictType, <1>0 DEF IInv, TypeOK, Shapes, Phases, Fetchers, Recheck, Enter, Found, Released
  <1>3. LockHeld'
    BY VerifierAssumption, <1>0 DEF IInv, TypeOK, Shapes, Phases, Fetchers, Recheck, Enter, Found, Released, LockHeld, Refreshers, Holding
  <1>4. KidInSight'
    BY VerifierAssumption, <1>0 DEF IInv, TypeOK, Shapes, Phases, Fetchers, Recheck, Enter, Found, Released, LockHeld, Refreshers, Holding, KidInSight, Running
  <1>5. UnknownKidIsDeserved'
    BY VerifierAssumption, VerdictType, <1>0 DEF IInv, TypeOK, Shapes, Phases, Fetchers, Recheck, Enter, Found, Released, KidInSight, Running, UnknownKidIsDeserved, Verdicts
  <1>6. KeysAreYoung'
    BY VerifierAssumption, <1>0 DEF IInv, TypeOK, Shapes, Phases, Fetchers, Recheck, Enter, Found, Released, LockHeld, Refreshers, Holding, KeysAreYoung
  <1> QED
    BY <1>1, <1>2, <1>3, <1>4, <1>5, <1>6 DEF IInv

LEMMA ServeKeeps ==
  ASSUME IInv, NEW f \in Fetchers, Serve(f)
  PROVE  IInv'
  <1>0. IInv /\ Serve(f)
    BY VerifierAssumption
  <1>1. TypeOK'
    BY VerifierAssumption, <1>0 DEF IInv, TypeOK, Shapes, Phases, Fetchers, Serve, Enter
  <1>2. Shapes'
    BY VerifierAssumption, VerdictType, <1>0 DEF IInv, TypeOK, Shapes, Phases, Fetchers, Serve, Enter
  <1>3. LockHeld'
    BY VerifierAssumption, <1>0 DEF IInv, TypeOK, Shapes, Phases, Fetchers, Serve, Enter, LockHeld, Refreshers, Holding
  <1>4. KidInSight'
    BY VerifierAssumption, <1>0 DEF IInv, TypeOK, Shapes, Phases, Fetchers, Serve, Enter, LockHeld, Refreshers, Holding, KidInSight, Running
  <1>5. UnknownKidIsDeserved'
    BY VerifierAssumption, VerdictType, <1>0 DEF IInv, TypeOK, Shapes, Phases, Fetchers, Serve, Enter, KidInSight, Running, UnknownKidIsDeserved, Verdicts
  <1>6. KeysAreYoung'
    BY VerifierAssumption, <1>0 DEF IInv, TypeOK, Shapes, Phases, Fetchers, Serve, Enter, LockHeld, Refreshers, Holding, KeysAreYoung
  <1> QED
    BY <1>1, <1>2, <1>3, <1>4, <1>5, <1>6 DEF IInv

LEMMA FailFetchKeeps ==
  ASSUME IInv, NEW f \in Fetchers, FailFetch(f)
  PROVE  IInv'
  <1>0. IInv /\ FailFetch(f)
    BY VerifierAssumption
  <1>1. TypeOK'
    BY VerifierAssumption, <1>0 DEF IInv, TypeOK, Shapes, Phases, Fetchers, FailFetch, Enter, Released, NoFetch
  <1>2. Shapes'
    BY VerifierAssumption, VerdictType, <1>0 DEF IInv, TypeOK, Shapes, Phases, Fetchers, FailFetch, Enter, Released, NoFetch
  <1>3. LockHeld'
    BY VerifierAssumption, <1>0 DEF IInv, TypeOK, Shapes, Phases, Fetchers, FailFetch, Enter, Released, NoFetch, LockHeld, Refreshers, Holding
  <1>4. KidInSight'
    BY VerifierAssumption, <1>0 DEF IInv, TypeOK, Shapes, Phases, Fetchers, FailFetch, Enter, Released, NoFetch, LockHeld, Refreshers, Holding, KidInSight, Running
  <1>5. UnknownKidIsDeserved'
    BY VerifierAssumption, VerdictType, <1>0 DEF IInv, TypeOK, Shapes, Phases, Fetchers, FailFetch, Enter, Released, NoFetch, KidInSight, Running, UnknownKidIsDeserved, Verdicts
  <1>6. KeysAreYoung'
    BY VerifierAssumption, <1>0 DEF IInv, TypeOK, Shapes, Phases, Fetchers, FailFetch, Enter, Released, NoFetch, LockHeld, Refreshers, Holding, KeysAreYoung
  <1> QED
    BY <1>1, <1>2, <1>3, <1>4, <1>5, <1>6 DEF IInv

LEMMA StoreKeeps ==
  ASSUME IInv, NEW f \in Fetchers, Store(f)
  PROVE  IInv'
  <1>0. IInv /\ Store(f)
    BY VerifierAssumption
  <1>1. TypeOK'
    BY VerifierAssumption, <1>0 DEF IInv, TypeOK, Shapes, Phases, Fetchers, Store, Enter, NoFetch
  <1>2. Shapes'
    BY VerifierAssumption, VerdictType, <1>0 DEF IInv, TypeOK, Shapes, Phases, Fetchers, Store, Enter, NoFetch
  <1>3. LockHeld'
    BY VerifierAssumption, <1>0 DEF IInv, TypeOK, Shapes, Phases, Fetchers, Store, Enter, NoFetch, LockHeld, Refreshers, Holding
  <1>4. KidInSight'
    BY VerifierAssumption, <1>0 DEF IInv, TypeOK, Shapes, Phases, Fetchers, Store, Enter, NoFetch, LockHeld, Refreshers, Holding, KidInSight, Running
  <1>5. UnknownKidIsDeserved'
    BY VerifierAssumption, VerdictType, <1>0 DEF IInv, TypeOK, Shapes, Phases, Fetchers, Store, Enter, NoFetch, KidInSight, Running, UnknownKidIsDeserved, Verdicts
  <1>6. KeysAreYoung'
    BY VerifierAssumption, <1>0 DEF IInv, TypeOK, Shapes, Phases, Fetchers, Store, Enter, NoFetch, LockHeld, Refreshers, Holding, KeysAreYoung
  <1> QED
    BY <1>1, <1>2, <1>3, <1>4, <1>5, <1>6 DEF IInv

LEMMA FindKeeps ==
  ASSUME IInv, NEW r \in Requests, Find(r)
  PROVE  IInv'
  <1>0. IInv /\ Find(r)
    BY VerifierAssumption
  <1>1. TypeOK'
    BY VerifierAssumption, <1>0 DEF IInv, TypeOK, Shapes, Phases, Fetchers, Find, Enter, Found, Released
  <1>2. Shapes'
    BY VerifierAssumption, VerdictType, <1>0 DEF IInv, TypeOK, Shapes, Phases, Fetchers, Find, Enter, Found, Released
  <1>3. LockHeld'
    BY VerifierAssumption, <1>0 DEF IInv, TypeOK, Shapes, Phases, Fetchers, Find, Enter, Found, Released, LockHeld, Refreshers, Holding
  <1>4. KidInSight'
    BY VerifierAssumption, <1>0 DEF IInv, TypeOK, Shapes, Phases, Fetchers, Find, Enter, Found, Released, LockHeld, Refreshers, Holding, KidInSight, Running
  <1>5. UnknownKidIsDeserved'
    BY VerifierAssumption, VerdictType, <1>0 DEF IInv, TypeOK, Shapes, Phases, Fetchers, Find, Enter, Found, Released, KidInSight, Running, UnknownKidIsDeserved, Verdicts
  <1>6. KeysAreYoung'
    BY VerifierAssumption, <1>0 DEF IInv, TypeOK, Shapes, Phases, Fetchers, Find, Enter, Found, Released, LockHeld, Refreshers, Holding, KeysAreYoung
  <1> QED
    BY <1>1, <1>2, <1>3, <1>4, <1>5, <1>6 DEF IInv

LEMMA ClassifyKeeps ==
  ASSUME IInv, NEW r \in Requests, Classify(r)
  PROVE  IInv'
  <1>0. IInv /\ Classify(r)
    BY VerifierAssumption
  <1>1. TypeOK'
    BY VerifierAssumption, <1>0 DEF IInv, TypeOK, Shapes, Phases, Fetchers, Classify, Enter
  <1>2. Shapes'
    BY VerifierAssumption, VerdictType, <1>0 DEF IInv, TypeOK, Shapes, Phases, Fetchers, Classify, Enter
  <1>3. LockHeld'
    BY VerifierAssumption, <1>0 DEF IInv, TypeOK, Shapes, Phases, Fetchers, Classify, Enter, LockHeld, Refreshers, Holding
  <1>4. KidInSight'
    BY VerifierAssumption, <1>0 DEF IInv, TypeOK, Shapes, Phases, Fetchers, Classify, Enter, LockHeld, Refreshers, Holding, KidInSight, Running
  <1>5. UnknownKidIsDeserved'
    BY VerifierAssumption, VerdictType, <1>0 DEF IInv, TypeOK, Shapes, Phases, Fetchers, Classify, Enter, KidInSight, Running, UnknownKidIsDeserved, Verdicts
  <1>6. KeysAreYoung'
    BY VerifierAssumption, <1>0 DEF IInv, TypeOK, Shapes, Phases, Fetchers, Classify, Enter, LockHeld, Refreshers, Holding, KeysAreYoung
  <1> QED
    BY <1>1, <1>2, <1>3, <1>4, <1>5, <1>6 DEF IInv

LEMMA JudgeKeeps ==
  ASSUME IInv, Judge
  PROVE  IInv'
  <1>0. IInv /\ Judge
    BY VerifierAssumption
  <1>1. TypeOK'
    BY VerifierAssumption, <1>0 DEF IInv, TypeOK, Shapes, Phases, Fetchers, Judge, Enter, Released
  <1>2. Shapes'
    BY VerifierAssumption, VerdictType, <1>0 DEF IInv, TypeOK, Shapes, Phases, Fetchers, Judge, Enter, Released
  <1>3. LockHeld'
    BY VerifierAssumption, <1>0 DEF IInv, TypeOK, Shapes, Phases, Fetchers, Judge, Enter, Released, LockHeld, Refreshers, Holding
  <1>4. KidInSight'
    BY VerifierAssumption, <1>0 DEF IInv, TypeOK, Shapes, Phases, Fetchers, Judge, Enter, Released, LockHeld, Refreshers, Holding, KidInSight, Running
  <1>5. UnknownKidIsDeserved'
    BY VerifierAssumption, VerdictType, <1>0 DEF IInv, TypeOK, Shapes, Phases, Fetchers, Judge, Enter, Released, KidInSight, Running, UnknownKidIsDeserved, Verdicts
  <1>6. KeysAreYoung'
    BY VerifierAssumption, <1>0 DEF IInv, TypeOK, Shapes, Phases, Fetchers, Judge, Enter, Released, LockHeld, Refreshers, Holding, KeysAreYoung
  <1> QED
    BY <1>1, <1>2, <1>3, <1>4, <1>5, <1>6 DEF IInv

LEMMA DropKeeps ==
  ASSUME IInv, NEW r \in Requests, Drop(r)
  PROVE  IInv'
  <1>0. IInv /\ Drop(r)
    BY VerifierAssumption
  <1>1. TypeOK'
    BY VerifierAssumption, <1>0 DEF IInv, TypeOK, Shapes, Phases, Fetchers, Drop, Enter, Released, NoFetch
  <1>2. Shapes'
    BY VerifierAssumption, VerdictType, <1>0 DEF IInv, TypeOK, Shapes, Phases, Fetchers, Drop, Enter, Released, NoFetch
  <1>3. LockHeld'
    BY VerifierAssumption, <1>0 DEF IInv, TypeOK, Shapes, Phases, Fetchers, Drop, Enter, Released, NoFetch, LockHeld, Refreshers, Holding
  <1>4. KidInSight'
    BY VerifierAssumption, <1>0 DEF IInv, TypeOK, Shapes, Phases, Fetchers, Drop, Enter, Released, NoFetch, LockHeld, Refreshers, Holding, KidInSight, Running
  <1>5. UnknownKidIsDeserved'
    BY VerifierAssumption, VerdictType, <1>0 DEF IInv, TypeOK, Shapes, Phases, Fetchers, Drop, Enter, Released, NoFetch, KidInSight, Running, UnknownKidIsDeserved, Verdicts
  <1>6. KeysAreYoung'
    BY VerifierAssumption, <1>0 DEF IInv, TypeOK, Shapes, Phases, Fetchers, Drop, Enter, Released, NoFetch, LockHeld, Refreshers, Holding, KeysAreYoung
  <1> QED
    BY <1>1, <1>2, <1>3, <1>4, <1>5, <1>6 DEF IInv

-----------------------------------------------------------------------------
(* The invariant holds, and what follows from it. *)

LEMMA InitEstablishes == Init => IInv
  <1> SUFFICES ASSUME Init PROVE IInv
    OBVIOUS
  <1>1. TypeOK
    BY VerifierAssumption DEF Init, TypeOK, Phases, NoFetch, Fetchers
  <1>2. Shapes /\ LockHeld
    BY VerifierAssumption DEF Init, Shapes, LockHeld, Refreshers, Holding, Fetchers
  <1>3. KidInSight /\ UnknownKidIsDeserved
    BY VerifierAssumption DEF Init, KidInSight, UnknownKidIsDeserved, Running, Fetchers
  <1>4. KeysAreYoung
    BY VerifierAssumption DEF Init, KeysAreYoung, Fetchers, NoFetch
  <1> QED
    BY <1>1, <1>2, <1>3, <1>4 DEF IInv

LEMMA StepKeeps == IInv /\ [Next]_vars => IInv'
  <1> SUFFICES ASSUME IInv, [Next]_vars PROVE IInv'
    OBVIOUS
  <1>1. CASE Tick
    BY <1>1, TickKeeps
  <1>2. ASSUME NEW K \in SUBSET Kids, Rotate(K) PROVE IInv'
    BY <1>2, RotateKeeps
  <1>3. ASSUME NEW f \in Fetchers, Arrive(f) \/ Serve(f) \/ FailFetch(f) PROVE IInv'
    BY <1>3, ArriveKeeps, ServeKeeps, FailFetchKeeps
  <1>4. ASSUME NEW f \in Fetchers, Step(f) PROVE IInv'
    BY <1>4, AcquireKeeps, RecheckKeeps, StoreKeeps, FindKeeps, ClassifyKeeps, JudgeKeeps DEF Step
  <1>5. ASSUME NEW r \in Requests, Drop(r) PROVE IInv'
    BY <1>5, DropKeeps
  <1>6. CASE UNCHANGED vars
    BY <1>6 DEF vars, IInv, TypeOK, Shapes, LockHeld, KidInSight, Running,
                UnknownKidIsDeserved, KeysAreYoung
  <1> QED
    BY <1>1, <1>2, <1>3, <1>4, <1>5, <1>6 DEF Next

LEMMA Invariance == Spec => []IInv
  BY InitEstablishes, StepKeeps, PTL DEF Spec

(* A key that answers was in the cache, and the age of the cache is bounded. *)
LEMMA AcceptanceIsYoung ==
  ASSUME IInv, [Next]_vars
  PROVE  \A r \in Requests : answer'[r] = "accepted" /\ answer[r] # "accepted" =>
           now - servedAt[token[r].kid] <= Max({CacheTtl, MaxStale}) + HttpTimeout
  <1> SUFFICES ASSUME NEW r \in Requests, answer'[r] = "accepted", answer[r] # "accepted"
      PROVE now - servedAt[token[r].kid] <= Max({CacheTtl, MaxStale}) + HttpTimeout
    OBVIOUS
  <1> DEFINE limit == Max({CacheTtl, MaxStale})
  <1>1. limit \in Int /\ CacheTtl <= limit /\ MaxStale <= limit
    BY VerifierAssumption, MaxOfTwo
  <1> HIDE DEF limit
  <1>2. /\ token[r].kid \in cache.keys
        /\ Age <= CacheTtl \/ Age <= MaxStale
    <2>1. CASE \E f \in Fetchers : Arrive(f)
      BY <2>1, VerifierAssumption
         DEF IInv, Shapes, Fetchers, Arrive, Hit, Usable, Cached, WithinStale, Found
    <2>2. CASE \E f \in Fetchers : Recheck(f)
      BY <2>2, VerifierAssumption
         DEF IInv, Shapes, Fetchers, Recheck, HitUnderLock, WithinStale, Found
    <2>3. CASE \E f \in Requests : Find(f)
      BY <2>3, VerifierAssumption
         DEF IInv, TypeOK, Shapes, KeysAreYoung, Fetchers, Find, Found, Age
    <2>4. CASE \/ \E f \in Requests : Classify(f) \/ Drop(f)
               \/ Judge
      BY <2>4, VerifierAssumption DEF IInv, Shapes, Fetchers, Classify, Drop, Judge, WithinStale
    <2>5. CASE UNCHANGED answer
      BY <2>5
    <2> QED
      BY <2>1, <2>2, <2>3, <2>4, <2>5 DEF Next, Step, Tick, Rotate, Acquire, Serve, FailFetch, Store, vars
  <1>3. cache.at <= servedAt[token[r].kid] + HttpTimeout
    BY <1>2 DEF IInv, KeysAreYoung
  <1>4. now \in Int /\ cache.at \in Int /\ servedAt[token[r].kid] \in Int
    BY <1>2 DEF IInv, TypeOK, Shapes
  <1>5. now - servedAt[token[r].kid] <= limit + HttpTimeout
    BY <1>1, <1>2, <1>3, <1>4, VerifierAssumption DEF Age
  <1> QED
    BY <1>5 DEF limit

(* Every variable has its type.                                             *)
THEOREM TypeCorrect == Spec => []TypeOK
  <1>1. IInv => TypeOK
    BY DEF IInv
  <1> QED
    BY <1>1, Invariance, PTL

(* refresh_lock serializes the fetches of requests and probes: whoever is at *)
(* one of a refresh's steps holds the lock, dropped handlers included.       *)
THEOREM RefreshExclusion == Spec => []OneRefreshAtATime
  <1>1. IInv => OneRefreshAtATime
    BY DEF IInv, LockHeld, OneRefreshAtATime, Refreshers, Holding
  <1> QED
    BY <1>1, Invariance, PTL

(* get_key's refusals and acceptances are deserved whatever fetches fail, are *)
(* late or overwrite each other, and however keys are rotated.               *)
THEOREM VerdictSafety == Spec => VerdictsAreDeserved
  <1>1. IInv => UnknownKidIsDeserved
    BY DEF IInv
  <1>2. IInv /\ [Next]_vars =>
          [\A r \in Requests : answer'[r] = "accepted" /\ answer[r] # "accepted" =>
             now - servedAt[token[r].kid] <= Max({CacheTtl, MaxStale}) + HttpTimeout]_vars
    BY AcceptanceIsYoung
  <1>3. Spec => []UnknownKidIsDeserved
    BY <1>1, Invariance, PTL
  <1>4. Spec => AcceptedKeyWasServed
    BY <1>2, Invariance, PTL DEF Spec, AcceptedKeyWasServed
  <1> QED
    BY <1>3, <1>4 DEF VerdictsAreDeserved
=============================================================================
