SPECIFICATION Spec
CONSTANTS
  m1 = m1
  m2 = m2
  g1 = g1
  a1 = a1
  a2 = a2
  None = None
  Terminal = Terminal
  Modules = {m1, m2}
  Groups = {g1}
  Actors = {a1, a2}
  Editors = {a1, a2}
  InitialDocs <- MCInitialDocs
  MaxOps = 2
  MaxCrash = 0
INVARIANTS OverlayConsistent
CHECK_DEADLOCK FALSE
