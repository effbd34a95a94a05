SPECIFICATION SvSpec
CONSTANTS
  m1 = m1
  m2 = m2
  g1 = g1
  a1 = a1
  a2 = a2
  None = None
  Terminal = Terminal
  Modules = {m1, m2}
  Groups = {g1}
  Actors = {a1, a2}
  Editors = {a1}
  InitialDocs <- MCInitialDocs
  MaxOps = 2
  MaxCrash = 1
  CaptureSets <- MCCaptureSets
  MaxHands = 2
  MaxDocs = 2
  MaxTurns = 1
  Unset = Unset
  Extensions = {x1, x2}
  Keys = {k1, k2}
  Values = {v1, v2}
  Scripts = {t1, t2}
  Pruners = {p1, p2}
  MaxKeys = 1
  MaxStored = 2
  MaxWrites = 3
  NoValue = NoValue
  Words = {"a", "b", "7", "com", "local", ""}
  Labels = {"a", "b", "7", "com", "local"}
  Tlds = {"com", "local"}
  Local = "local"
  Empty = ""
  MaxLabels = 4
  Ids = {"x", "y"}
  Undeclared = Undeclared
INVARIANTS
  PartsTypeOK OverlayConsistent BindingsExist RoutedHostCovered AnsweredKept
PROPERTIES
  EnabledImmutable EnabledWithCertificate InterceptionSettles
CHECK_DEADLOCK FALSE
