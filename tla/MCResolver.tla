----------------------------- MODULE MCResolver -----------------------------
(* Small instances of Resolver for TLC.                                     *)
EXTENDS Resolver, TLC

CONSTANTS a1, a2, t1, v1, p1

\* Two A names, a TXT name, an AAAA question and a panel name; see the cfgs.
MCQTypeOf ==
  [k \in Keys |-> CASE k = t1 -> "other" [] k = v1 -> "AAAA" [] OTHER -> "A"]

MCPanelKeys == Keys \cap {p1}

\* The overlay captures a2 from its first publication on.
MCIntercepted == [g \in Gen |-> IF g = 0 THEN {} ELSE Keys \cap {a2}]

\* Re-publishing the policy keeps a1 on auto, then blocks it; a2 moves from
\* direct to gateway.
MCPolicyAction ==
  [g \in Gen |-> [k \in Keys |->
     CASE k = a1 -> (IF g <= 1 THEN "auto" ELSE "block")
       [] k = t1 -> (IF g = 1 THEN "gateway" ELSE "auto")
       [] OTHER -> (IF g % 2 = 0 THEN "direct" ELSE "gateway")]]

\* Which snapshots a run swaps, and how often.
MCSwapGens == [c \in Comps |-> 1]
MCPolicyGens == [c \in Comps |-> IF c = "policy" THEN 2 ELSE 1]

\* A behavior swaps any snapshots before one flush, or flushes the policy twice.
OneFlushOrPolicyTwice ==
  epoch = 0 \/ (\A s \in Swappers : dirty[s] = {}) \/ \A c \in Comps \ {"policy"} : live[c] = 0

\* All but two queries of a behavior are shed.
TwoServed == Cardinality({q \in Queries : pc[q] \notin {"idle", "refused"}}) <= 2

Symmetry == Permutations(Queries) \cup Permutations(Flights) \cup Permutations(Swappers)
=============================================================================
