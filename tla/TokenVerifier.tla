--------------------------- MODULE TokenVerifier ---------------------------
(***************************************************************************)
(* Verification of bearer tokens against the key set (JWKS) of the          *)
(* authentication service: the cache and its ages, the refresh lock, the    *)
(* fetch that starts with the process and takes no lock, the readiness      *)
(* probe, and the profile checks on the verified claims.                    *)
(*                                                                         *)
(* A fetch is sent, answered and stored in three steps; requests run        *)
(* between them. Time passes only while nothing else can run, and a fetch   *)
(* is over HttpTimeout after it was sent.                                   *)
(***************************************************************************)
EXTENDS Integers, FiniteSets, Sequences, FiniteSetsExt

CONSTANTS
  Kids,          \* key ids
  Requests,      \* requests under verification
  Presents,      \* Presents[r]: the tokens r may come with
  Eager, Probe,  \* the start-up fetch and the readiness probe
  Nobody,        \* holds the refresh lock when it is free
  CacheTtl, MaxStale, HttpTimeout, ClockSkew, MachineTtl,
  AllowedClient, AllowedSub, AllowedDelegate,   \* "" means any
  MaxTime, MaxRotations

Fetchers == Requests \cup {Eager, Probe}

\* The fields of a token the checks read; minutes stand for seconds.
TokenType == [kid : Kids, use : STRING, principalType : STRING, client : STRING,
              sub : STRING, act : STRING, scope : Seq(STRING),
              iat : Int, nbf : Int, exp : Int]

ASSUME VerifierAssumption ==
  /\ {CacheTtl, MaxStale, HttpTimeout, ClockSkew, MachineTtl, MaxTime, MaxRotations} \subseteq Nat
  /\ Eager # Probe /\ Requests \cap {Eager, Probe} = {} /\ Nobody \notin Fetchers

VARIABLES
  now,
  published,   \* the kids the authentication service serves
  cache,       \* [keys, at]: at = -1 when nothing was ever fetched
  lock,        \* holder of refresh_lock
  phase,       \* phase[f]
  fetch,       \* fetch[f]: [at, keys], the request sent and its answer
  token,       \* token[r]: what r presents
  answer,      \* answer[f]: the outcome
  \* Observation, read by no guard.
  servedAt,    \* servedAt[k]: the last time k was served
  rotations,   \* how often the keys were rotated, at most MaxRotations
  excused      \* the requests during which their kid was not served, their own
               \* fetch failed, or the start-up fetch was still under way

vars == <<now, published, cache, lock, phase, fetch, token, answer, servedAt, rotations, excused>>

Phases == {"idle", "wait", "recheck", "sent", "answered", "find", "classify", "judge", "done"}
NoFetch == [at |-> 0, keys |-> {}]

Init ==
  /\ now = 0
  /\ \E k \in Kids : published = {k}
  /\ cache = [keys |-> {}, at |-> -1]
  /\ lock = Nobody
  /\ phase = [f \in Fetchers |-> IF f = Eager THEN "sent" ELSE "idle"]
  /\ fetch = [f \in Fetchers |-> NoFetch]
  /\ token \in [Requests -> UNION {Presents[r] : r \in Requests}]
  /\ \A r \in Requests : token[r] \in Presents[r]
  /\ answer = [f \in Fetchers |-> "none"]
  /\ servedAt = [k \in Kids |-> IF k \in published THEN 0 ELSE -1]
  /\ rotations = 0
  /\ excused = {}

-----------------------------------------------------------------------------
(* The cache. *)

Age == now - cache.at
Cached == cache.at >= 0
WithinStale == Cached /\ Age <= MaxStale
Usable(kid) == /\ Cached /\ kid \in cache.keys
               /\ Age <= CacheTtl \/ Age <= MaxStale
Running(r) == phase[r] \notin {"idle", "done"}

Enter(f, p) == phase' = [phase EXCEPT ![f] = p]
\* Fault: leaving gives the lock back, whoever holds it.
ReleasedByAnyone(f) == lock' = Nobody
\* Fault: the lock of a fetch that failed is kept.
ReleasedIfFetched(f) == lock' = IF lock = f /\ phase[f] = "find" THEN Nobody ELSE lock

Released(f) == lock' = IF lock = f THEN Nobody ELSE lock

-----------------------------------------------------------------------------
(* The claims of a token whose signature was checked. *)

TimeError(t) ==
  IF t.nbf > t.iat \/ t.exp <= t.iat \/ t.iat > now + ClockSkew THEN "invalid_time_claims"
  ELSE IF t.exp - t.iat > MachineTtl THEN "token_ttl_exceeded"
  ELSE IF t.nbf > now + ClockSkew THEN "token_not_yet_valid"
  ELSE IF t.exp <= (IF now > ClockSkew THEN now - ClockSkew ELSE 0) THEN "token_expired"
  ELSE "none"

\* Sorted and without duplicates; the order of the items is that of their index.
ScopeError(t) ==
  IF t.scope # << >> /\ Cardinality({t.scope[i] : i \in DOMAIN t.scope}) = Len(t.scope)
  THEN "none" ELSE "invalid_scope"

DirectError(t) ==
  IF t.principalType # "agent" THEN "invalid_principal_type"
  ELSE IF AllowedClient # "" /\ t.client # AllowedClient THEN "unauthorized_client"
  ELSE IF AllowedSub # "" /\ t.sub # AllowedSub THEN "unauthorized_principal"
  ELSE IF ScopeError(t) # "none" THEN ScopeError(t) ELSE TimeError(t)

OboError(t) ==
  IF t.principalType # "agent" THEN "invalid_principal_type"
  ELSE IF t.act = "" THEN "malformed_token"
  ELSE IF AllowedSub # "" /\ t.sub # AllowedSub THEN "unauthorized_principal"
  ELSE IF AllowedDelegate # "" /\ t.act # AllowedDelegate
  THEN "unauthorized_delegating_principal"
  ELSE IF ScopeError(t) # "none" THEN ScopeError(t) ELSE TimeError(t)

ProfileError(t) ==
  CASE t.use = "access" -> DirectError(t)
    [] t.use = "workflow_obo" -> OboError(t)
    [] OTHER -> "invalid_token_use"

-----------------------------------------------------------------------------
(* Steps. *)

\* A request is over, its answer read or given up, within HttpTimeout.
Tick ==
  /\ now < MaxTime
  /\ \A f \in Fetchers : phase[f] \in {"sent", "answered"} => now < fetch[f].at + HttpTimeout
  /\ \A f \in Fetchers : phase[f] \in {"idle", "sent", "answered", "wait", "done"}
  /\ now' = now + 1
  /\ servedAt' = [k \in Kids |-> IF k \in published THEN now + 1 ELSE servedAt[k]]
  /\ UNCHANGED <<published, cache, lock, phase, fetch, token, answer, excused, rotations>>

\* The authentication service rotates its keys.
Rotate(K) ==
  /\ K # {} /\ K # published
  /\ rotations < MaxRotations
  /\ rotations' = rotations + 1
  /\ published' = K
  /\ servedAt' = [k \in Kids |-> IF k \in K \cup published THEN now ELSE servedAt[k]]
  /\ excused' = excused \cup {r \in Requests : Running(r) /\ token[r].kid \notin K}
  /\ UNCHANGED <<now, cache, lock, phase, fetch, token, answer>>

Verdict(r) == IF ProfileError(token[r]) = "none" THEN "accepted" ELSE ProfileError(token[r])
Found(f) == /\ Enter(f, "done")
            /\ answer' = [answer EXCEPT ![f] = IF f = Probe THEN "ready" ELSE Verdict(f)]

\* Fault: a key of the cache answers at any age.
HitAtAnyAge(f) == IF f = Probe THEN WithinStale ELSE Cached /\ token[f].kid \in cache.keys

\* A request or a probe reads the cache, and asks for the refresh lock if that
\* does not answer it.
Hit(f) == IF f = Probe THEN WithinStale ELSE Usable(token[f].kid)
Arrive(f) ==
  /\ f # Eager /\ phase[f] = "idle"
  /\ IF Hit(f) THEN Found(f) ELSE Enter(f, "wait") /\ UNCHANGED answer
  /\ excused' = excused \cup {r \in {f} \cap Requests :
                   token[r].kid \notin published \/ phase[Eager] # "done"}
  /\ UNCHANGED <<now, published, cache, lock, fetch, token, servedAt, rotations>>

Acquire(f) ==
  /\ phase[f] = "wait" /\ lock = Nobody
  /\ lock' = f
  /\ Enter(f, "recheck")
  /\ UNCHANGED <<now, published, cache, fetch, token, answer, servedAt, excused, rotations>>

\* The second read, under the lock: only a cache within max_stale may answer.
HitUnderLock(f) == WithinStale /\ (f # Probe => token[f].kid \in cache.keys)

Recheck(f) ==
  /\ phase[f] = "recheck"
  /\ IF HitUnderLock(f) THEN Released(f) /\ Found(f) /\ UNCHANGED fetch
     ELSE /\ Enter(f, "sent")
          /\ fetch' = [fetch EXCEPT ![f] = [at |-> now, keys |-> {}]]
          /\ UNCHANGED <<lock, answer>>
  /\ UNCHANGED <<now, published, cache, token, servedAt, excused, rotations>>

Serve(f) ==
  /\ phase[f] = "sent"
  /\ fetch' = [fetch EXCEPT ![f].keys = published]
  /\ Enter(f, "answered")
  /\ UNCHANGED <<now, published, cache, lock, token, answer, servedAt, excused, rotations>>

\* No answer, an error status, or a body without one usable RSA key.
FailFetch(f) ==
  /\ phase[f] \in {"sent", "answered"}
  /\ Enter(f, IF f = Eager THEN "done" ELSE IF f = Probe THEN "judge" ELSE "classify")
  /\ Released(f)
  /\ fetch' = [fetch EXCEPT ![f] = NoFetch]
  /\ excused' = excused \cup ({f} \cap Requests)
  /\ UNCHANGED <<now, published, cache, token, answer, servedAt, rotations>>

\* Fault: the cache keeps when it expires, and its age counts from there.
StoreExpiry(f) ==
  /\ phase[f] = "answered"
  /\ cache' = [keys |-> fetch[f].keys, at |-> now + CacheTtl]
  /\ Enter(f, IF f = Eager THEN "done" ELSE IF f = Probe THEN "judge" ELSE "find")
  /\ fetch' = [fetch EXCEPT ![f] = NoFetch]
  /\ UNCHANGED <<now, published, lock, token, answer, servedAt, excused, rotations>>

\* The write of the cache ends the fetch; a request looks for its key next.
Store(f) ==
  /\ phase[f] = "answered"
  /\ cache' = [keys |-> fetch[f].keys, at |-> now]
  /\ Enter(f, IF f = Eager THEN "done" ELSE IF f = Probe THEN "judge" ELSE "find")
  /\ fetch' = [fetch EXCEPT ![f] = NoFetch]
  /\ UNCHANGED <<now, published, lock, token, answer, servedAt, excused, rotations>>

Find(r) ==
  /\ phase[r] = "find"
  /\ Released(r)
  /\ IF token[r].kid \in cache.keys THEN Found(r) ELSE Enter(r, "classify") /\ UNCHANGED answer
  /\ UNCHANGED <<now, published, cache, fetch, token, servedAt, excused, rotations>>

\* The refusal of a request without a key depends on the age of the cache.
Classify(r) ==
  /\ phase[r] = "classify"
  /\ Enter(r, "done")
  /\ answer' = [answer EXCEPT ![r] = IF WithinStale THEN "unknown_kid" ELSE "jwks_unavailable"]
  /\ UNCHANGED <<now, published, cache, lock, fetch, token, servedAt, excused, rotations>>

Judge ==
  /\ phase[Probe] = "judge"
  /\ Enter(Probe, "done")
  /\ Released(Probe)
  /\ answer' = [answer EXCEPT ![Probe] = IF WithinStale THEN "ready" ELSE "not_ready"]
  /\ UNCHANGED <<now, published, cache, fetch, token, servedAt, excused, rotations>>

\* The request's timeout, or its client, drops the handler: the guard of the
\* lock goes with it.
Drop(r) ==
  /\ phase[r] \in {"wait", "sent", "answered"}
  /\ Enter(r, "done")
  /\ Released(r)
  /\ answer' = [answer EXCEPT ![r] = "dropped"]
  /\ fetch' = [fetch EXCEPT ![r] = NoFetch]
  /\ UNCHANGED <<now, published, cache, token, servedAt, excused, rotations>>

Step(f) ==
  \/ Acquire(f) \/ Recheck(f) \/ Store(f)
  \/ (f \in Requests /\ (Find(f) \/ Classify(f)))
  \/ (f = Probe /\ Judge)

Next ==
  \/ Tick
  \/ \E K \in SUBSET Kids : Rotate(K)
  \/ \E f \in Fetchers : Arrive(f) \/ Step(f) \/ Serve(f) \/ FailFetch(f)
  \/ \E r \in Requests : Drop(r)

Spec == Init /\ [][Next]_vars

\* The executor runs every task that can run, and the HTTP client ends every
\* request within its timeout.
Fairness == \A f \in Fetchers : WF_vars(Step(f)) /\ WF_vars(Serve(f) \/ FailFetch(f))

FairSpec == Spec /\ Fairness
=============================================================================
