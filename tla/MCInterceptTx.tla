----------------------------- MODULE MCInterceptTx -----------------------------
EXTENDS InterceptTx

CONSTANTS m1, m2, g1, a1, a2

SettledDoc(mitm, on) ==
  [mitm |-> mitm, order |-> <<m1, m2>>, on |-> on,
   group |-> [m \in Modules |-> IF m = m2 THEN g1 ELSE Terminal],
   dns |-> [m \in Modules |-> "trust"], ver |-> [m \in Modules |-> 1]]

\* Nothing enabled, everything enabled, and MITM switched off with a module on.
MCInitialDocs == {SettledDoc(TRUE, {}), SettledDoc(TRUE, {m1, m2}), SettledDoc(FALSE, {m1})}
=============================================================================
