------------------------------ MODULE CacheAbs ------------------------------
(***************************************************************************)
(* What the response cache promises its callers, without clock or TTLs: a   *)
(* key is absent, fresh (Get answers) or expired (only GetStale may answer). *)
(* Module Resolver uses the cache under exactly this reading; module Cache  *)
(* (cache.go with its clock) implements it.                                 *)
(***************************************************************************)
EXTENDS Integers, FiniteSets

CONSTANTS Keys, CacheMax, EvictSample

VARIABLES state, epoch

avars == <<state, epoch>>

Stored == {k \in Keys : state[k] # "absent"}
FreshKeys == {k \in Keys : state[k] = "fresh"}
Smaller(m, n) == IF m <= n THEN m ELSE n

Init ==
  /\ state = [k \in Keys |-> "absent"]
  /\ epoch = 0

\* A fresh victim is only possible if a whole eviction sample can be fresh.
MayEvict(v) ==
  /\ v \in Stored
  /\ \/ v \notin FreshKeys
     \/ Cardinality(FreshKeys) >= Smaller(EvictSample, Cardinality(Stored))

\* Under a zero TTL the new entry is expired at once.
Put(k, st) ==
  /\ IF Cardinality(Stored) >= CacheMax /\ k \notin Stored
       THEN \E v \in Keys : /\ MayEvict(v)
                            /\ state' = [state EXCEPT ![v] = "absent", ![k] = st]
       ELSE state' = [state EXCEPT ![k] = st]
  /\ UNCHANGED epoch

\* Time passes: any fresh keys reach their TTL.
Expire ==
  /\ \A k \in Keys : \/ state'[k] = state[k]
                     \/ state[k] = "fresh" /\ state'[k] = "expired"
  /\ state' \in [Keys -> {"absent", "fresh", "expired"}]
  /\ UNCHANGED epoch

Prune(k) ==
  /\ state[k] = "expired"
  /\ state' = [state EXCEPT ![k] = "absent"]
  /\ UNCHANGED epoch

Flush ==
  /\ state' = [k \in Keys |-> IF state[k] = "absent" THEN "absent" ELSE "expired"]
  /\ epoch' = epoch + 1

Next ==
  \/ Expire \/ Flush
  \/ \E k \in Keys : Prune(k)
  \/ \E k \in Keys, st \in {"fresh", "expired"} : Put(k, st)

Spec == Init /\ [][Next]_avars
=============================================================================
