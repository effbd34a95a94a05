SPECIFICATION StoredSpec
CONSTANTS
  k1 = k1
  k2 = k2
  k3 = k3
  Keys = {k1, k2, k3}
  Writers = {w1}
  AnswerTTLs = {0, 3}
  TTLMin = 0
  TTLMax = 2
  Second = 2
  StaleGrace = 1
  CacheMax = 2
  EvictSample = 2
  Horizon = 5
  MaxEpoch = 2
  NoEntry = NoEntry
  s1 = s1
  m1 = m1
  s2 = s2
  i1 = i1
  i2 = i2
  pBlock = pBlock
  pProxy = pProxy
  p2 = p2
  pChn = pChn
  u1 = u1
  u2 = u2
  uChn = uChn
  Chn = Chn
  None = None
  Subs = {s1, m1}
  Ids = {i1}
  Paths = {pBlock, pProxy, pChn}
  Urls = {u1, uChn}
  IdOf <- MCIdOf
  PathOf <- MCPathOf
  UrlOf <- MCUrlOf
  ModelSubs <- MCModelSubs
  MaxRev = 3
  MaxVer = 1
  MaxCrash = 1
  Tickers = {t1, t2}
  Reloaders = {}
  FaultyReload = FALSE
SYMMETRY StoredSymmetry
INVARIANTS FreshIsCurrentEpoch HitWithinTTL StaleWithinGrace LiveFollowsDisk SuccessIsLive
PROPERTIES ExpiredEvictedFirst ImplementsCacheAbs NoStalePublish
