-------------------------- MODULE VerifierProperties --------------------------
(***************************************************************************)
(* What the token verifier promises while fetches are late, fail or race.   *)
(***************************************************************************)
EXTENDS TokenVerifier

\* Every variable has its type: the cache is never younger than its fetch, and
\* only the holder of the refresh lock is past it.
TypeOK ==
  /\ now \in 0..MaxTime
  /\ published \in SUBSET Kids
  /\ cache \in [keys : SUBSET Kids, at : -1..now]
  /\ lock \in Fetchers \cup {Nobody}
  /\ phase \in [Fetchers -> Phases]
  /\ fetch \in [Fetchers -> [at : 0..now, keys : SUBSET Kids]]
  /\ \A r \in Requests : token[r] \in Presents[r]
  /\ excused \subseteq Requests /\ rotations \in 0..MaxRotations

\* refresh_lock: apart from the fetch that starts with the process, no two
\* fetches of the key set are under way, whoever is dropped while it waits.
OneRefreshAtATime ==
  \A f, g \in Requests \cup {Probe} :
    {phase[f], phase[g]} \subseteq {"recheck", "sent", "answered", "find"} => f = g

\* An `unknown_kid` refusal is deserved: while the request ran its kid was for a
\* time not served, or its own fetch failed - unless the start-up fetch, which
\* takes no lock, was still under way and replaced newer keys by older ones.
UnknownKidIsDeserved ==
  \A r \in Requests : answer[r] = "unknown_kid" => r \in excused

\* A token is accepted on the word of a key that the authentication service
\* served lately: not longer ago than the cache may be old and a fetch may take.
AcceptedKeyWasServed ==
  [][\A r \in Requests : answer'[r] = "accepted" /\ answer[r] # "accepted" =>
       now - servedAt[token[r].kid] <= Max({CacheTtl, MaxStale}) + HttpTimeout]_vars

\* No verdict on a kid is the work of a stale, late or overwritten key set.
VerdictsAreDeserved == []UnknownKidIsDeserved /\ AcceptedKeyWasServed

\* Every verification and every probe that starts ends (each runs once here, so
\* that in the end none is under way): a fetch that fails and a handler that is
\* dropped give the lock back.
EveryCheckEnds == <>[](\A f \in Fetchers : ~Running(f))
=============================================================================
