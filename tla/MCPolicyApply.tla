--------------------------- MODULE MCPolicyApply ---------------------------
(* Small instances of PolicyApply for TLC.                                  *)
EXTENDS PolicyApply, TLC

CONSTANTS s1, m1, s2, i1, i2, pBlock, pProxy, p2, pChn, u1, u2, uChn

\* s1 and m1 are one rule in two categories; s2 is another rule.
MCIdOf == [s \in Subs |-> IF s = s2 THEN i2 ELSE i1]
MCPathOf ==
  [s \in AllSubs |-> CASE s = s1 -> pBlock [] s = m1 -> pProxy [] s = s2 -> p2 [] OTHER -> pChn]
MCUrlOf == [s \in AllSubs |-> CASE s = s2 -> u2 [] s = Chn -> uChn [] OTHER -> u1]

\* The rule is added, moves to another category, and a second one joins or goes.
MCModelSubs ==
  [r \in 1..MaxRev |-> Subs \cap (CASE r = 1 -> {s1} [] r = 2 -> {m1, s2} [] OTHER -> {})]

\* Every apply ends, and so does every update: no order of the model, transaction and
\* subscription locks deadlocks (policy_engine.go:88-91, subscription.go:184-187).
PolicySettles == AppliesEnd /\ TicksEnd

MCSymmetry == Permutations(Tickers)
=============================================================================
