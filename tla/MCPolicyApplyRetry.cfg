SPECIFICATION Spec
CONSTANTS
  s1 = s1
  m1 = m1
  s2 = s2
  i1 = i1
  i2 = i2
  pBlock = pBlock
  pProxy = pProxy
  p2 = p2
  pChn = pChn
  u1 = u1
  u2 = u2
  uChn = uChn
  Chn = Chn
  None = None
  Subs = {s1, m1}
  Ids = {i1}
  Paths = {pBlock, pProxy, pChn}
  Urls = {u1, uChn}
  IdOf <- MCIdOf
  PathOf <- MCPathOf
  UrlOf <- MCUrlOf
  ModelSubs <- MCModelSubs
  MaxRev = 2
  MaxVer = 1
  MaxCrash = 0
  Tickers = {t1}
  Reloaders = {}
  FaultyReload = TRUE
SYMMETRY MCSymmetry
INVARIANTS SuccessIsLive
