---------------------------- MODULE BrokerCache ----------------------------
(***************************************************************************)
(* The broker client of the process (broker/cache.go): GetAccount and      *)
(* ListPositions are cached for some seconds, a successful SubmitOrder     *)
(* empties the cache, everything else goes through to Alpaca.              *)
(*                                                                         *)
(* A read that misses is two steps, because the mutex is not held while    *)
(* Alpaca answers: Fetch samples the account, Got stores the sample, late  *)
(* as it may be by then, and returns it.                                   *)
(***************************************************************************)
EXTENDS Integers

CONSTANTS
  Readers       \* goroutines that read through the client

VARIABLES
  cached,       \* the two cached answers, or Nothing
  reading       \* the answer of Alpaca each reader has not stored yet, or Nothing

cacheVars == <<cached, reading>>

Endpoints == {"account", "positions"}
Nothing == [of |-> "nothing"]

CacheInit ==
  /\ cached = [e \in Endpoints |-> Nothing]
  /\ reading = [r \in Readers |-> Nothing]

\* A miss; now is what Alpaca answers.
Fetch(r, e, now) ==
  /\ reading[r] = Nothing
  /\ cached[e] = Nothing
  /\ reading' = [reading EXCEPT ![r] = [of |-> e, value |-> now]]
  /\ UNCHANGED cached

\* The call returns v: from the cache, or after storing what was fetched.
Got(r, e, v) ==
  \/ /\ reading[r] = Nothing
     /\ cached[e] # Nothing
     /\ v = cached[e].value
     /\ UNCHANGED cacheVars
  \/ /\ reading[r].of = e
     /\ v = reading[r].value
     /\ cached' = [cached EXCEPT ![e] = reading[r]]
     /\ reading' = [reading EXCEPT ![r] = Nothing]

\* The call fails: nothing is stored.
ReadFails(r, e) ==
  /\ reading[r] = Nothing
  /\ cached[e] = Nothing
  /\ UNCHANGED cacheVars

\* The ttl of an answer passes.
Expire(e) ==
  /\ cached[e] # Nothing
  /\ cached' = [cached EXCEPT ![e] = Nothing]
  /\ UNCHANGED reading

\* invalidate.  It does not reach the answers still on their way.
Invalidate ==
  /\ cached' = [e \in Endpoints |-> Nothing]
  /\ UNCHANGED reading
=============================================================================
