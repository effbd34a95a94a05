------------------------------- MODULE MCStored -------------------------------
(* Two parts whose runs are of safety only, so that equal keys and tickers may be  *)
(* exchanged: the answer cache, and policy applies with restarts whose reloads     *)
(* do not fail.  They share no state: a behavior moves the one in focus.           *)
(* Three keys compete for two slots; a TTL is one or two seconds of two ticks      *)
(* each, with flushes before, at and after an expiry.                             *)
EXTENDS Cache, MCPolicyApply

CONSTANTS k1, k2, k3

VARIABLE focus

StoredInit == focus \in {"cache", "policy"} /\ CacheInit /\ Init

StoredNext ==
  /\ \/ focus = "cache" /\ CacheNext /\ UNCHANGED vars
     \/ focus = "policy" /\ Next /\ UNCHANGED cacheVars
  /\ UNCHANGED focus

StoredSpec == StoredInit /\ [][StoredNext]_<<focus, cacheVars, vars>>

StoredSymmetry == Permutations({k1, k2, k3}) \cup MCSymmetry
=============================================================================
