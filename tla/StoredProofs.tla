---------------------------- MODULE StoredProofs ----------------------------
(***************************************************************************)
(* The answer cache, for any keys, writers, TTLs, grace, capacity and bounds: *)
(* types, the epoch guard, the two bounds on what is served, and the           *)
(* refinement of CacheAbs.  All rest on EntryInv: an entry of the current      *)
(* epoch still has its own expiry, one of an earlier epoch expired at the      *)
(* last Flush.                                                             *)
(*                                                                         *)
(* The policy apply, for any subscriptions, any edits, any number of tickers  *)
(* and reloads, with faults and restarts: the types; a failed apply leaves the *)
(* disk as it found it; what an apply publishes is the model as last edited,    *)
(* and with no reload in between is what is on disk.  All rest on who holds     *)
(* which lock at which phase of CompileAndApply.                             *)
(***************************************************************************)
EXTENDS Cache, PolicyApply, FiniteSetTheorems, TLAPS

EntryInv ==
  /\ flushed <= now
  /\ \A k \in Keys : m[k] # NoEntry =>
       /\ m[k].put <= epoch
       /\ m[k].put = epoch => m[k].expiry = m[k].orig
       /\ m[k].put < epoch => m[k].expiry = flushed

Inv == CacheTypeOK /\ EntryInv

LEMMA ClampedTTLNat == ASSUME NEW ttl \in AnswerTTLs PROVE ClampedTTL(ttl) \in Nat
<1>1. ttl \in Nat /\ TTLMin \in Nat /\ TTLMax \in Nat /\ Second \in Nat
  BY CacheAssumption
<1>2. \A x \in Nat : Second * x \in Nat
  BY <1>1
<1> QED BY <1>1, <1>2 DEF ClampedTTL

LEMMA NewEntryFacts ==
  ASSUME CacheTypeOK, NEW ttl \in AnswerTTLs
  PROVE  /\ NewEntry(ttl) \in Entry
         /\ NewEntry(ttl).put = epoch /\ NewEntry(ttl).expiry = NewEntry(ttl).orig
BY ClampedTTLNat DEF NewEntry, Entry, CacheTypeOK

LEMMA RemainingFacts ==
  ASSUME CacheTypeOK, NEW k \in Fresh
  PROVE  /\ Remaining(m[k]) \in Nat
         /\ now + Remaining(m[k]) * Second <= m[k].expiry
<1>1. m[k] \in Entry /\ now < m[k].expiry
  BY DEF Fresh, Cached, Unexpired, CacheTypeOK
<1>2. Second \in Nat /\ Second > 0 /\ now \in Nat /\ m[k].expiry \in Nat
  BY <1>1, CacheAssumption DEF Entry, CacheTypeOK
<1>3. ASSUME NEW x \in Nat, NEW s \in Nat, s > 0
      PROVE  x \div s \in Nat /\ (x \div s) * s <= x
  <2>1. x = s * (x \div s) + (x % s) /\ x % s >= 0
    BY <1>3
  <2>2. x \div s \in Int /\ x \div s >= 0
    BY <1>3
  <2> QED BY <1>3, <2>1, <2>2
<1>4. m[k].expiry - now \in Nat
  BY <1>1, <1>2
<1>5. /\ Remaining(m[k]) \in Nat
      /\ Remaining(m[k]) * Second <= m[k].expiry - now
  BY <1>2, <1>3, <1>4 DEF Remaining
<1> QED BY <1>2, <1>5

LEMMA AnswerFacts ==
  ASSUME Inv, NEW k \in Keys, m[k] # NoEntry, NEW ttl \in Nat, NEW how \in {"hit", "stale"}
  PROVE  Answer(how, m[k], ttl) \in Served /\ StaleBase(m[k]) = m[k].expiry
<1>1. m[k] \in Entry /\ epoch \in Nat /\ now \in Nat /\ flushed \in Nat
  BY DEF Inv, CacheTypeOK
<1>2. StaleBase(m[k]) = m[k].expiry
  BY <1>1 DEF Inv, EntryInv, StaleBase, Entry
<1> QED BY <1>1, <1>2 DEF Answer, Served, Entry

\* What a put does to the map: the new entry, at most one victim.
LEMMA PutCases ==
  ASSUME CacheTypeOK, NEW k \in Keys, NEW ttl \in AnswerTTLs, PutLocked(k, ttl)
  PROVE  /\ m' \in [Keys -> Entry \cup {NoEntry}]
         /\ \A j \in Keys : m'[j] = m[j] \/ m'[j] = NoEntry \/ m'[j] = NewEntry(ttl)
<1> DEFINE e == NewEntry(ttl)
<1>1. e \in Entry
  BY NewEntryFacts
<1>2. \/ m' = [m EXCEPT ![k] = e]
      \/ \E v \in Keys : m' = [m EXCEPT ![v] = NoEntry, ![k] = e]
  BY DEF PutLocked
<1> HIDE DEF e
<1>3. m' \in [Keys -> Entry \cup {NoEntry}]
  BY <1>1, <1>2 DEF CacheTypeOK
<1>4. \A j \in Keys : m'[j] = m[j] \/ m'[j] = NoEntry \/ m'[j] = e
  BY <1>1, <1>2 DEF CacheTypeOK
<1> QED BY <1>3, <1>4 DEF e

LEMMA InvInit == CacheInit => Inv
BY CacheAssumption DEF CacheInit, Inv, CacheTypeOK, EntryInv

LEMMA InvNext == Inv /\ [CacheNext]_cacheVars => Inv'
<1> SUFFICES ASSUME Inv, [CacheNext]_cacheVars PROVE Inv'
  OBVIOUS
<1>1. /\ CacheTypeOK /\ EntryInv /\ now \in Nat /\ epoch \in Nat /\ flushed \in Nat
      /\ \A k \in Keys : m[k] # NoEntry => m[k] \in Entry
  BY DEF Inv, CacheTypeOK
<1>2. CASE ClockTick
  BY <1>1, <1>2 DEF ClockTick, Inv, CacheTypeOK, EntryInv
<1>3. CASE Flush
  <2>1. ASSUME NEW k \in Keys, m[k] # NoEntry
        PROVE  /\ m'[k] = [expiry |-> now, orig |-> m[k].orig, put |-> m[k].put]
               /\ m'[k] \in Entry
               /\ m[k].put \in Nat /\ m[k].put <= epoch
    BY <1>1, <1>3, <2>1 DEF Flush, Entry, EntryInv
  <2>2. \A k \in Keys : m[k] = NoEntry => m'[k] = NoEntry
    BY <1>3 DEF Flush
  <2>3. m' \in [Keys -> Entry \cup {NoEntry}]
    BY <1>1, <1>3, <2>1, <2>2 DEF Flush
  <2>4. CacheTypeOK'
    BY <1>1, <1>3, <2>3 DEF Flush, CacheTypeOK
  <2>5. EntryInv'
    BY <1>1, <1>3, <2>1, <2>2 DEF Flush, EntryInv
  <2> QED BY <2>4, <2>5 DEF Inv
<1>4. ASSUME NEW k \in Keys, Get(k) PROVE Inv'
  <2>1. served' \in Served \cup {NoEntry}
    <3>1. CASE k \in Fresh
      BY <1>4, <3>1, AnswerFacts, RemainingFacts DEF Get, Inv, Fresh, Cached
    <3>2. CASE k \notin Fresh
      BY <1>4, <3>2 DEF Get
    <3> QED BY <3>1, <3>2
  <2>2. CacheTypeOK'
    BY <1>1, <1>4, <2>1 DEF Get, CacheTypeOK
  <2>3. EntryInv'
    BY <1>1, <1>4 DEF Get, EntryInv
  <2> QED BY <2>2, <2>3 DEF Inv
<1>5. ASSUME NEW k \in Keys, GetStale(k) PROVE Inv'
  <2>1. served' \in Served \cup {NoEntry}
    BY <1>5, AnswerFacts DEF GetStale, StaleReplyTTL
  <2>2. m' \in [Keys -> Entry \cup {NoEntry}] /\ \A j \in Keys : m'[j] = m[j] \/ m'[j] = NoEntry
    BY <1>1, <1>5 DEF GetStale, CacheTypeOK
  <2>3. UNCHANGED <<now, epoch, held, flushed>>
    BY <1>5 DEF GetStale
  <2>4. CacheTypeOK'
    BY <1>1, <2>1, <2>2, <2>3 DEF CacheTypeOK
  <2>5. EntryInv'
    BY <1>1, <2>2, <2>3 DEF EntryInv
  <2> QED BY <2>4, <2>5 DEF Inv
<1>6. ASSUME NEW w \in Writers, Epoch(w) PROVE Inv'
  BY <1>1, <1>6 DEF Epoch, Inv, CacheTypeOK, EntryInv
<1>7. ASSUME NEW w \in Writers, NEW k \in Keys, NEW ttl \in AnswerTTLs, PutAtEpoch(w, k, ttl)
      PROVE  Inv'
  <2>1. /\ m' \in [Keys -> Entry \cup {NoEntry}]
        /\ \A j \in Keys : m'[j] = m[j] \/ m'[j] = NoEntry \/ m'[j] = NewEntry(ttl)
    BY <1>1, <1>7, PutCases DEF PutAtEpoch, CacheTypeOK
  <2>2. UNCHANGED <<now, epoch, flushed, served>> /\ held' \in [Writers -> Nat \cup {NoEntry}]
    BY <1>1, <1>7 DEF PutAtEpoch, CacheTypeOK
  <2>3. CacheTypeOK'
    BY <1>1, <2>1, <2>2 DEF CacheTypeOK
  <2>4. NewEntry(ttl).put = epoch /\ NewEntry(ttl).expiry = NewEntry(ttl).orig
    BY <1>1, NewEntryFacts
  <2>5. EntryInv'
    BY <1>1, <2>1, <2>2, <2>4 DEF EntryInv
  <2> QED BY <2>3, <2>5 DEF Inv
<1>8. CASE UNCHANGED cacheVars
  BY <1>8 DEF cacheVars, Inv, CacheTypeOK, EntryInv
<1> QED BY <1>2, <1>3, <1>4, <1>5, <1>6, <1>7, <1>8 DEF CacheNext

\* Types, for every value of the constants.
THEOREM CacheTypeCorrect == CacheSpec => []CacheTypeOK
<1>1. Inv => CacheTypeOK
  BY DEF Inv
<1> QED BY <1>1, InvInit, InvNext, PTL DEF CacheSpec

LEMMA InvFresh == Inv => FreshIsCurrentEpoch
<1> SUFFICES ASSUME Inv, NEW k \in Fresh PROVE m[k].put = epoch
  BY DEF FreshIsCurrentEpoch
<1>1. m[k] \in Entry /\ now < m[k].expiry /\ k \in Keys /\ m[k] # NoEntry
  BY DEF Inv, CacheTypeOK, Fresh, Cached, Unexpired
<1>2. now \in Nat /\ epoch \in Nat /\ flushed \in Nat /\ m[k].put \in Nat /\ m[k].expiry \in Nat
  BY <1>1 DEF Inv, CacheTypeOK, Entry
<1> QED BY <1>1, <1>2 DEF Inv, EntryInv

\* What Get can answer was put after the last Flush: the epoch guard works for
\* any number of concurrent resolutions and flushes.
THEOREM FreshEntriesCurrent == CacheSpec => []FreshIsCurrentEpoch
BY InvFresh, InvInit, InvNext, PTL DEF CacheSpec

ServedInv == HitWithinTTL /\ StaleWithinGrace

LEMMA ServedNext == Inv /\ ServedInv /\ [CacheNext]_cacheVars => ServedInv'
<1> SUFFICES ASSUME Inv, ServedInv, [CacheNext]_cacheVars PROVE ServedInv'
  OBVIOUS
<1>1. CASE UNCHANGED served
  BY <1>1 DEF ServedInv, HitWithinTTL, StaleWithinGrace
<1>2. ASSUME NEW k \in Keys, Get(k) PROVE ServedInv'
  <2>1. CASE k \in Fresh
    <3>1. now + Remaining(m[k]) * Second <= m[k].expiry /\ Remaining(m[k]) \in Nat
      BY <2>1, RemainingFacts DEF Inv
    <3>2. m[k].expiry = m[k].orig
      BY <2>1, InvFresh DEF FreshIsCurrentEpoch, Inv, EntryInv, Fresh, Cached
    <3>3. served' = Answer("hit", m[k], Remaining(m[k]))
      BY <1>2, <2>1 DEF Get
    <3>4. /\ served'.how = "hit" /\ served'.at = now /\ served'.ttl = Remaining(m[k])
          /\ served'.orig = m[k].orig
      BY <3>3 DEF Answer
    <3> QED BY <3>1, <3>2, <3>4 DEF ServedInv, HitWithinTTL, StaleWithinGrace
  <2>2. CASE k \notin Fresh
    BY <1>2, <2>2 DEF Get, ServedInv, HitWithinTTL, StaleWithinGrace
  <2> QED BY <2>1, <2>2
<1>3. ASSUME NEW k \in Keys, GetStale(k) PROVE ServedInv'
  <2>1. CASE m[k] # NoEntry /\ now - m[k].expiry <= StaleGrace
    <3>1. served' = Answer("stale", m[k], StaleReplyTTL) /\ StaleBase(m[k]) = m[k].expiry
      BY <1>3, <2>1, AnswerFacts DEF GetStale, StaleReplyTTL
    <3>2. served'.how = "stale" /\ served'.at = now /\ served'.base = m[k].expiry
      BY <3>1 DEF Answer
    <3> QED BY <2>1, <3>2 DEF ServedInv, HitWithinTTL, StaleWithinGrace
  <2>2. CASE ~(m[k] # NoEntry /\ now - m[k].expiry <= StaleGrace)
    BY <1>3, <2>2 DEF GetStale, ServedInv, HitWithinTTL, StaleWithinGrace
  <2> QED BY <2>1, <2>2
<1> QED BY <1>1, <1>2, <1>3 DEF CacheNext, cacheVars, ClockTick, Flush, Epoch, PutAtEpoch

\* What is served: a hit within its own TTL, a stale answer within the grace of
\* its expiry or of the last Flush, for every clock resolution, TTL and grace.
THEOREM ServedBounded == CacheSpec => [](HitWithinTTL /\ StaleWithinGrace)
<1>1. CacheInit => ServedInv
  BY DEF CacheInit, ServedInv, HitWithinTTL, StaleWithinGrace
<1>2. ServedInv => HitWithinTTL /\ StaleWithinGrace
  BY DEF ServedInv
<1> QED BY <1>1, <1>2, InvInit, InvNext, ServedNext, PTL DEF CacheSpec

\* The half about serving stale by itself (GetStale, cache.go:143).
THEOREM StaleServedBounded == CacheSpec => []StaleWithinGrace
  BY ServedBounded, PTL

-----------------------------------------------------------------------------
(* The capacity, and what goes when it is reached.                          *)

CapacityInv == IsFiniteSet(Cached) /\ Cardinality(Cached) <= CacheMax

\* The set of cached keys through a put.
LEMMA PutCached ==
  ASSUME CacheTypeOK, NEW k \in Keys, NEW ttl \in AnswerTTLs, PutLocked(k, ttl)
  PROVE  \/ /\ Cardinality(Cached) >= CacheMax /\ m[k] = NoEntry
            /\ \E v \in Cached : Evictable(v) /\ Cached' = (Cached \ {v}) \cup {k}
         \/ /\ m[k] # NoEntry \/ ~(Cardinality(Cached) >= CacheMax)
            /\ Cached' = Cached \cup {k}
<1> DEFINE e == NewEntry(ttl)
<1>1. e # NoEntry
  BY NewEntryFacts, CacheAssumption DEF Entry
<1> HIDE DEF e
<1>2. CASE Cardinality(Cached) >= CacheMax /\ m[k] = NoEntry
  <2>1. PICK v \in Keys : Evictable(v) /\ m' = [m EXCEPT ![v] = NoEntry, ![k] = e]
    BY <1>2 DEF PutLocked, e
  <2>2. v \in Cached /\ v # k
    BY <1>2, <2>1 DEF Evictable, Cached
  <2>3. Cached' = (Cached \ {v}) \cup {k}
    BY <1>1, <2>1, <2>2 DEF Cached, CacheTypeOK
  <2> QED BY <1>2, <2>1, <2>2, <2>3
<1>3. CASE ~(Cardinality(Cached) >= CacheMax /\ m[k] = NoEntry)
  <2>1. m' = [m EXCEPT ![k] = e]
    BY <1>3 DEF PutLocked, e
  <2>2. Cached' = Cached \cup {k}
    BY <1>1, <2>1 DEF Cached, CacheTypeOK
  <2> QED BY <1>3, <2>2
<1> QED BY <1>2, <1>3

LEMMA CapacityNext == CacheTypeOK /\ CapacityInv /\ [CacheNext]_cacheVars => CapacityInv'
<1> SUFFICES ASSUME CacheTypeOK, CapacityInv, [CacheNext]_cacheVars PROVE CapacityInv'
  OBVIOUS
<1>0. IsFiniteSet(Cached) /\ Cardinality(Cached) \in Nat /\ Cardinality(Cached) <= CacheMax /\ CacheMax \in Nat
  BY FS_CardinalityType, CacheAssumption DEF CapacityInv
<1>1. CASE Cached' \subseteq Cached
  BY <1>0, <1>1, FS_Subset, FS_CardinalityType DEF CapacityInv
<1>2. ASSUME NEW w \in Writers, NEW k \in Keys, NEW ttl \in AnswerTTLs, PutAtEpoch(w, k, ttl), PutLocked(k, ttl)
      PROVE  CapacityInv'
  <2>1. ASSUME NEW v \in Cached, m[k] = NoEntry, Cached' = (Cached \ {v}) \cup {k} PROVE CapacityInv'
    <3>1. k \notin Cached
      BY <2>1 DEF Cached
    <3>2. IsFiniteSet(Cached \ {v}) /\ Cardinality(Cached \ {v}) = Cardinality(Cached) - 1
      BY <1>0, FS_RemoveElement
    <3>3. IsFiniteSet(Cached') /\ Cardinality(Cached') = Cardinality(Cached)
      BY <1>0, <2>1, <3>1, <3>2, FS_AddElement
    <3> QED BY <1>0, <3>3 DEF CapacityInv
  <2>2. ASSUME m[k] # NoEntry \/ ~(Cardinality(Cached) >= CacheMax), Cached' = Cached \cup {k} PROVE CapacityInv'
    <3>1. CASE m[k] # NoEntry
      <4>1. Cached' = Cached
        BY <2>2, <3>1 DEF Cached
      <4> QED BY <1>0, <4>1 DEF CapacityInv
    <3>2. CASE Cardinality(Cached) < CacheMax
      <4>1. IsFiniteSet(Cached') /\ Cardinality(Cached') <= Cardinality(Cached) + 1 /\ Cardinality(Cached') \in Nat
        BY <1>0, <2>2, FS_AddElement
      <4> QED BY <1>0, <3>2, <4>1 DEF CapacityInv
    <3> QED BY <1>0, <2>2, <3>1, <3>2
  <2> QED BY <1>2, <2>1, <2>2, PutCached
<1>3. ASSUME NEW k \in Keys, Get(k) \/ GetStale(k) PROVE Cached' \subseteq Cached
  BY <1>3 DEF Get, GetStale, Cached, CacheTypeOK
<1>4. ASSUME Flush PROVE Cached' \subseteq Cached
  BY <1>4 DEF Flush, Cached
<1>5. ASSUME ClockTick \/ (\E w \in Writers : Epoch(w)) \/ UNCHANGED cacheVars PROVE Cached' \subseteq Cached
  BY <1>5 DEF ClockTick, Epoch, cacheVars, Cached
<1>6. ASSUME NEW w \in Writers, NEW k \in Keys, NEW ttl \in AnswerTTLs, PutAtEpoch(w, k, ttl), ~PutLocked(k, ttl)
      PROVE  Cached' \subseteq Cached
  BY <1>6 DEF PutAtEpoch, Cached
<1> QED BY <1>1, <1>2, <1>3, <1>4, <1>5, <1>6 DEF CacheNext

LEMMA CapacityHolds == CacheSpec => []CapacityInv
<1>1. CacheInit => CapacityInv
  <2> SUFFICES ASSUME CacheInit PROVE CapacityInv
    OBVIOUS
  <2>1. Cached = {}
    BY DEF CacheInit, Cached
  <2> QED BY <2>1, FS_EmptySet, CacheAssumption DEF CapacityInv
<1> QED BY <1>1, CacheTypeCorrect, CapacityNext, PTL DEF CacheSpec

\* The cache never holds more than its maximum: putLocked makes room before it adds
\* (cache.go:240-256).
THEOREM CapacityKept == CacheSpec => [](Cardinality(Cached) <= CacheMax)
<1>1. CapacityInv => Cardinality(Cached) <= CacheMax
  BY DEF CapacityInv
<1> QED BY <1>1, CapacityHolds, PTL

\* Not larger than a sample, the cache drops an answer that could still be a hit only
\* when it holds no other: the sample is then the whole map (cache.go:258-289).
THEOREM ExpiredGoFirst == CacheSpec => ExpiredEvictedFirst
<1> DEFINE A == Cardinality(Cached) <= EvictSample =>
                  \A k \in Fresh : m'[k] = NoEntry => Fresh = Cached
<1>1. CacheTypeOK /\ CapacityInv /\ [CacheNext]_cacheVars => [A]_cacheVars
  <2> SUFFICES ASSUME CacheTypeOK, CapacityInv, CacheNext, Cardinality(Cached) <= EvictSample,
                      NEW k \in Fresh, m'[k] = NoEntry
               PROVE  Fresh = Cached
    BY DEF cacheVars
  <2>1. k \in Keys /\ m[k] # NoEntry /\ m[k] \in Entry /\ now < m[k].expiry /\ m' # m
    BY DEF Fresh, Cached, Unexpired, CacheTypeOK
  <2>2. ~ClockTick /\ ~Flush /\ (\A w \in Writers : ~Epoch(w)) /\ \A j \in Keys : ~Get(j)
    <3>1. ~Flush
      <4> SUFFICES ASSUME Flush PROVE FALSE
        OBVIOUS
      <4>1. m'[k] = [expiry |-> now, orig |-> m[k].orig, put |-> m[k].put]
        BY <2>1 DEF Flush
      <4>2. now \in Nat /\ m[k].orig \in Nat /\ m[k].put \in Nat
        BY <2>1 DEF CacheTypeOK, Entry
      <4> QED BY <4>1, <4>2, CacheAssumption
    <3> QED BY <2>1, <3>1 DEF ClockTick, Epoch, Get
  <2>3. ASSUME NEW j \in Keys PROVE ~GetStale(j)
    <3> SUFFICES ASSUME GetStale(j) PROVE FALSE
      OBVIOUS
    <3>1. m' = [m EXCEPT ![j] = NoEntry] /\ ~(m[j] # NoEntry /\ now - m[j].expiry <= StaleGrace)
      BY <2>1 DEF GetStale
    <3>2. j = k
      BY <2>1, <3>1 DEF CacheTypeOK
    <3>3. now \in Nat /\ m[k].expiry \in Nat /\ StaleGrace \in Nat
      BY <2>1, CacheAssumption DEF CacheTypeOK, Entry
    <3> QED BY <2>1, <3>1, <3>2, <3>3
  <2>4. PICK w \in Writers, j \in Keys, ttl \in AnswerTTLs : PutAtEpoch(w, j, ttl)
    BY <2>2, <2>3 DEF CacheNext
  <2>5. PutLocked(j, ttl)
    BY <2>1, <2>4 DEF PutAtEpoch
  <2>6. k \notin Cached'
    BY DEF Cached
  <2>7. PICK v \in Cached : Evictable(v) /\ Cached' = (Cached \ {v}) \cup {j}
    BY <2>1, <2>5, <2>6, PutCached DEF Cached
  <2>8. v = k
    BY <2>1, <2>6, <2>7 DEF Cached
  <2>9. IsFiniteSet(Cached) /\ Cardinality(Cached) \in Nat /\ EvictSample \in Nat
    BY FS_CardinalityType, CacheAssumption DEF CapacityInv
  <2>10. Cardinality(Fresh) >= Cardinality(Cached)
    BY <2>7, <2>8, <2>9 DEF Evictable, SmallerOf
  <2>11. Fresh \subseteq Cached
    BY DEF Fresh
  <2>12. IsFiniteSet(Fresh) /\ Cardinality(Fresh) \in Nat /\ Cardinality(Fresh) <= Cardinality(Cached)
    BY <2>9, <2>11, FS_Subset, FS_CardinalityType
  <2>13. Cardinality(Fresh) = Cardinality(Cached)
    BY <2>9, <2>10, <2>12
  <2> QED BY <2>9, <2>11, <2>13, FS_Subset
<1>2. CacheSpec => [][A]_cacheVars
  BY <1>1, CapacityHolds, CacheTypeCorrect, PTL DEF CacheSpec
<1> QED BY <1>2 DEF ExpiredEvictedFirst

-----------------------------------------------------------------------------
(* The refinement of CacheAbs.                                               *)

\* The abstract state of a key, as the INSTANCE substitutes it.
KeyState(k) ==
  IF m[k] = NoEntry THEN "absent" ELSE IF Unexpired(m[k]) THEN "fresh" ELSE "expired"

AbsState == [k \in Keys |-> KeyState(k)]

LEMMA AbsSets == Abs!Stored = Cached /\ Abs!FreshKeys = Fresh
BY DEF Abs!Stored, Abs!FreshKeys, Cached, Fresh, Unexpired

\* Cardinality seen through the INSTANCE is Cardinality.
LEMMA AbsCardinality == \A S : Abs!Cardinality(S) = Cardinality(S)
BY DEF Abs!Cardinality, Cardinality

LEMMA AbsFlush == ASSUME Inv, Flush PROVE Abs!Flush
<1>1. AbsState' = [k \in Keys |-> IF AbsState[k] = "absent" THEN "absent" ELSE "expired"]
  <2>1. ASSUME NEW k \in Keys
        PROVE  KeyState(k)' = IF KeyState(k) = "absent" THEN "absent" ELSE "expired"
    <3>1. CASE m[k] = NoEntry
      BY <3>1 DEF Flush, KeyState
    <3>2. CASE m[k] # NoEntry
      <4>1. m'[k] = [expiry |-> now, orig |-> m[k].orig, put |-> m[k].put] /\ now' = now
        BY <3>2 DEF Flush
      <4>2. m'[k] # NoEntry
        <5>1. m'[k] \in Entry
          BY <3>2, <4>1 DEF Inv, CacheTypeOK, Entry
        <5> QED BY <5>1, CacheAssumption DEF Entry
      <4>3. ~(now' < m'[k].expiry)
        BY <4>1 DEF Inv, CacheTypeOK
      <4> QED BY <3>2, <4>2, <4>3 DEF KeyState, Unexpired
    <3> QED BY <3>1, <3>2
  <2> QED BY <2>1 DEF AbsState
<1> QED BY <1>1 DEF Flush, Abs!Flush, AbsState, KeyState

LEMMA AbsTick == ASSUME Inv, ClockTick PROVE Abs!Expire
<1>1. ASSUME NEW k \in Keys
      PROVE  KeyState(k)' = KeyState(k) \/ (KeyState(k) = "fresh" /\ KeyState(k)' = "expired")
  <2>1. m'[k] = m[k] /\ now' = now + 1 /\ now \in Nat
    BY DEF ClockTick, Inv, CacheTypeOK
  <2>2. m[k] # NoEntry => m[k].expiry \in Nat
    BY DEF Inv, CacheTypeOK, Entry
  <2> QED BY <2>1, <2>2 DEF KeyState, Unexpired
<1>2. AbsState' \in [Keys -> {"absent", "fresh", "expired"}]
  BY DEF AbsState, KeyState
<1> QED BY <1>1, <1>2 DEF ClockTick, Abs!Expire, AbsState, KeyState

\* Only a changed map or clock changes the abstract state.
LEMMA AbsSame == ASSUME UNCHANGED <<now, m, epoch>> PROVE UNCHANGED Abs!avars
BY DEF Abs!avars, Unexpired

LEMMA AbsStale == ASSUME Inv, NEW k \in Keys, GetStale(k) PROVE Abs!Prune(k) \/ UNCHANGED Abs!avars
<1>1. CASE m[k] # NoEntry /\ now - m[k].expiry <= StaleGrace
  BY <1>1, AbsSame DEF GetStale
<1>2. CASE m[k] = NoEntry
  <2>1. m' = m
    BY <1>2 DEF GetStale, Inv, CacheTypeOK
  <2> QED BY <2>1, AbsSame DEF GetStale
<1>3. CASE m[k] # NoEntry /\ ~(now - m[k].expiry <= StaleGrace)
  <2>1. m' = [m EXCEPT ![k] = NoEntry] /\ now' = now /\ epoch' = epoch
    BY <1>3 DEF GetStale
  <2>2. ~(now < m[k].expiry)
    BY <1>3, CacheAssumption DEF Inv, CacheTypeOK, Entry
  <2>3. KeyState(k) = "expired" /\ KeyState(k)' = "absent"
    BY <1>3, <2>1, <2>2 DEF KeyState, Unexpired, Inv, CacheTypeOK
  <2>4. \A j \in Keys \ {k} : KeyState(j)' = KeyState(j)
    BY <2>1 DEF KeyState, Unexpired, Inv, CacheTypeOK
  <2>5. AbsState[k] = "expired" /\ AbsState' = [AbsState EXCEPT ![k] = "absent"]
    BY <2>3, <2>4 DEF AbsState
  <2> QED BY <2>1, <2>5 DEF Abs!Prune, AbsState, KeyState
<1> QED BY <1>1, <1>2, <1>3

LEMMA AbsPut ==
  ASSUME Inv, NEW w \in Writers, NEW k \in Keys, NEW ttl \in AnswerTTLs, PutAtEpoch(w, k, ttl)
  PROVE  (\E st \in {"fresh", "expired"} : Abs!Put(k, st)) \/ UNCHANGED Abs!avars
<1> DEFINE e == NewEntry(ttl)
           st == IF Unexpired(e) THEN "fresh" ELSE "expired"
<1>1. CASE held[w] # epoch
  BY <1>1, AbsSame DEF PutAtEpoch
<1>2. CASE held[w] = epoch
  <2>1. PutLocked(k, ttl) /\ now' = now /\ epoch' = epoch
    BY <1>2 DEF PutAtEpoch
  <2>2. e \in Entry /\ e # NoEntry
    BY NewEntryFacts, CacheAssumption DEF Inv, Entry
  <2>3. m \in [Keys -> Entry \cup {NoEntry}] /\ AbsState \in [Keys -> {"absent", "fresh", "expired"}]
    BY DEF Inv, CacheTypeOK, AbsState, KeyState
  <2> HIDE DEF e
  <2>4. ASSUME m' = [m EXCEPT ![k] = e] PROVE AbsState' = [AbsState EXCEPT ![k] = st]
    <3>1. KeyState(k)' = st
      BY <2>1, <2>2, <2>3, <2>4 DEF KeyState, Unexpired
    <3>2. \A j \in Keys \ {k} : KeyState(j)' = KeyState(j)
      BY <2>1, <2>3, <2>4 DEF KeyState, Unexpired
    <3> HIDE DEF st
    <3> QED BY <3>1, <3>2 DEF AbsState
  <2>5. ASSUME NEW v \in Keys, v # k, m' = [m EXCEPT ![v] = NoEntry, ![k] = e]
        PROVE  AbsState' = [AbsState EXCEPT ![v] = "absent", ![k] = st]
    <3>1. KeyState(k)' = st /\ KeyState(v)' = "absent"
      BY <2>1, <2>2, <2>3, <2>5 DEF KeyState, Unexpired
    <3>2. \A j \in Keys \ {k, v} : KeyState(j)' = KeyState(j)
      BY <2>1, <2>3, <2>5 DEF KeyState, Unexpired
    <3> HIDE DEF st
    <3> QED BY <2>5, <3>1, <3>2 DEF AbsState
  <2>6. st \in {"fresh", "expired"}
    OBVIOUS
  <2> HIDE DEF st
  <2>7. CASE Cardinality(Cached) >= CacheMax /\ m[k] = NoEntry
    <3>1. PICK v \in Keys : Evictable(v) /\ m' = [m EXCEPT ![v] = NoEntry, ![k] = e]
      BY <2>1, <2>7 DEF PutLocked, e
    <3>2. v # k /\ k \notin Cached
      BY <2>7, <3>1 DEF Evictable, Cached
    <3>3. AbsState' = [AbsState EXCEPT ![v] = "absent", ![k] = st]
      BY <2>5, <3>1, <3>2
    <3>4. Abs!MayEvict(v)
      BY <3>1, AbsSets, AbsCardinality DEF Evictable, Abs!MayEvict, SmallerOf, Abs!Smaller
    <3> QED BY <2>1, <2>6, <2>7, <3>2, <3>3, <3>4, AbsSets, AbsCardinality DEF Abs!Put, AbsState, KeyState
  <2>8. CASE ~(Cardinality(Cached) >= CacheMax /\ m[k] = NoEntry)
    <3>1. m' = [m EXCEPT ![k] = e]
      BY <2>1, <2>8 DEF PutLocked, e
    <3>2. AbsState' = [AbsState EXCEPT ![k] = st]
      BY <2>4, <3>1
    <3>3. ~(Cardinality(Abs!Stored) >= CacheMax /\ k \notin Abs!Stored)
      BY <2>8, AbsSets, AbsCardinality DEF Cached
    <3> QED BY <2>1, <2>6, <3>2, <3>3, AbsCardinality DEF Abs!Put, AbsState, KeyState
  <2> QED BY <2>7, <2>8
<1> QED BY <1>1, <1>2

\* The clocked cache implements CacheAbs for every clock, TTL and capacity.
THEOREM CacheRefinement == CacheSpec => ImplementsCacheAbs
<1>1. CacheInit => Abs!Init
  BY DEF CacheInit, Abs!Init
<1>2. Inv /\ [CacheNext]_cacheVars => [Abs!Next]_(Abs!avars)
  <2> SUFFICES ASSUME Inv, [CacheNext]_cacheVars PROVE Abs!Next \/ UNCHANGED Abs!avars
    OBVIOUS
  <2>1. CASE ClockTick
    BY <2>1, AbsTick DEF Abs!Next
  <2>2. CASE Flush
    BY <2>2, AbsFlush DEF Abs!Next
  <2>3. CASE \E k \in Keys : Get(k)
    BY <2>3, AbsSame DEF Get
  <2>4. CASE \E k \in Keys : GetStale(k)
    BY <2>4, AbsStale DEF Abs!Next
  <2>5. CASE \E w \in Writers : Epoch(w)
    BY <2>5, AbsSame DEF Epoch
  <2>6. CASE \E w \in Writers, k \in Keys, ttl \in AnswerTTLs : PutAtEpoch(w, k, ttl)
    BY <2>6, AbsPut DEF Abs!Next
  <2>7. CASE UNCHANGED cacheVars
    BY <2>7, AbsSame DEF cacheVars
  <2> QED BY <2>1, <2>2, <2>3, <2>4, <2>5, <2>6, <2>7 DEF CacheNext
<1> QED BY <1>1, <1>2, InvInit, InvNext, PTL DEF CacheSpec, ImplementsCacheAbs, Abs!Spec

-----------------------------------------------------------------------------
(* The policy apply.                                                        *)

LEMMA CompiledType ==
  ASSUME TypeOK, NEW r \in Revs PROVE Compiled(r) \in Snapshot
BY PolicyApplyAssumption DEF TypeOK, Compiled, Snapshot, Files

LEMMA Constants ==
  /\ NoFiles \in Files /\ NoSnapshot \in Snapshot /\ NoTick \in Tick /\ NoReload \in Reload
  /\ 1 \in Revs /\ PathOf[Chn] \in Paths
  /\ \A r \in Revs : ModelSubs[r] \subseteq Subs
  /\ \A s \in AllSubs : PathOf[s] \in Paths
<1>1. 1 \in Revs /\ \A s \in AllSubs : PathOf[s] \in Paths
  BY PolicyApplyAssumption DEF Revs
<1>2. NoFiles \in Files
  BY DEF NoFiles, Files
<1>3. NoSnapshot \in Snapshot
  BY <1>1, <1>2 DEF NoSnapshot, Snapshot
<1>4. NoTick \in Tick /\ PathOf[Chn] \in Paths
  BY <1>1 DEF NoTick, Tick, AllSubs
<1>5. NoReload \in Reload
  BY <1>1, <1>3 DEF NoReload, Reload
<1> QED BY <1>1, <1>2, <1>3, <1>4, <1>5, PolicyApplyAssumption DEF Revs

\* What a fetch returns, and what Prepare stages, are contents of files: a path to
\* write has one subscription of the model, and it was fetched or it has moved.
LEMMA PreparedType ==
  ASSUME TypeOK, NEW ok \in SUBSET ModelSubs[target]
  PROVE  PreparedContent(ok) \in Files /\ WriteSet(ok) \subseteq Paths /\ RemoveSet \subseteq Paths
<1>1. /\ target \in Revs /\ ModelSubs[target] \subseteq Subs /\ Subs \subseteq AllSubs
      /\ \A s \in AllSubs : PathOf[s] \in Paths /\ UrlOf[s] \in Urls
      /\ subs \subseteq Subs /\ file \in Files
  BY Constants, PolicyApplyAssumption DEF TypeOK, AllSubs
<1>2. \A s \in AllSubs : Fetched(s) \in Content
  BY <1>1 DEF Fetched, Content, TypeOK
<1>3. ASSUME NEW s \in Subs, MovedFrom(s) # {}
      PROVE  file[PathOf[CHOOSE o \in MovedFrom(s) : TRUE]] \in Content \cup {None}
  <2>1. (CHOOSE o \in MovedFrom(s) : TRUE) \in MovedFrom(s)
    BY <1>3
  <2>2. (CHOOSE o \in MovedFrom(s) : TRUE) \in AllSubs
    BY <2>1, <1>1 DEF MovedFrom
  <2> QED BY <2>2, <1>1 DEF Files
<1>4. ASSUME NEW p \in WriteSet(ok)
      PROVE  \E s \in ModelSubs[target] :
               /\ s = CHOOSE x \in ModelSubs[target] : PathOf[x] = p
               /\ s \notin ok => MovedFrom(s) # {}
  <2>1. PICK x \in ok \cup {y \in ModelSubs[target] : Staged(y)} : PathOf[x] = p
    BY DEF WriteSet, PathsOf
  <2> DEFINE s == CHOOSE z \in ModelSubs[target] : PathOf[z] = p
  <2>2. x \in ModelSubs[target]
    BY <2>1
  <2>3. s \in ModelSubs[target] /\ PathOf[s] = p
    BY <2>1, <2>2
  <2>4. s = x
    BY <2>1, <2>2, <2>3, <1>1, PolicyApplyAssumption DEF Revs
  <2>5. s \notin ok => MovedFrom(s) # {}
    BY <2>1, <2>4 DEF Staged
  <2> QED BY <2>3, <2>5
<1>5. ASSUME NEW p \in Paths PROVE PreparedContent(ok)[p] \in Content \cup {None}
  <2>1. CASE p \notin WriteSet(ok)
    BY <2>1 DEF PreparedContent
  <2>2. CASE p \in WriteSet(ok)
    <3>1. PICK s \in ModelSubs[target] :
               /\ s = CHOOSE x \in ModelSubs[target] : PathOf[x] = p
               /\ s \notin ok => MovedFrom(s) # {}
      BY <2>2, <1>4
    <3>2. PreparedContent(ok)[p] =
            IF s \in ok THEN Fetched(s) ELSE file[PathOf[CHOOSE o \in MovedFrom(s) : TRUE]]
      BY <2>2, <3>1 DEF PreparedContent
    <3>3. s \in Subs /\ s \in AllSubs
      BY <1>1, <3>1
    <3> QED BY <3>1, <3>2, <3>3, <1>2, <1>3
  <2> QED BY <2>1, <2>2
<1>6. PreparedContent(ok) = [p \in Paths |-> PreparedContent(ok)[p]]
  BY DEF PreparedContent
<1>7. WriteSet(ok) \subseteq Paths /\ RemoveSet \subseteq Paths
  BY <1>1 DEF WriteSet, RemoveSet, PathsOf
<1> QED BY <1>5, <1>6, <1>7 DEF Files

LEMMA TypeInit == Init => TypeOK
<1> SUFFICES ASSUME Init PROVE TypeOK
  OBVIOUS
<1>1. modelMu \in BOOLEAN /\ committed \in BOOLEAN /\ paused \in BOOLEAN
  BY DEF Init
<1>2. crashes \in 0..MaxCrash /\ remote \in [Urls -> 0..MaxVer]
  BY PolicyApplyAssumption DEF Init
<1>3. Compiled(1) \in Snapshot
  BY Constants DEF Compiled, Snapshot, Files, Init
<1> QED BY <1>1, <1>2, <1>3, Constants DEF Init, TypeOK, Phases

\* CompileAndApply keeps the types.
LEMMA TypeApply == TypeOK /\ (BeginApply \/ ApplyStep) => TypeOK'
<1> SUFFICES ASSUME TypeOK, BeginApply \/ ApplyStep PROVE TypeOK'
  OBVIOUS
<1> USE DEF ApplyKeeps, diskVars, liveVars, Phases
<1>1. CASE BeginApply
  BY <1>1 DEF BeginApply, TypeOK
<1>2. CASE PrepareFails
  BY <1>2, Constants DEF PrepareFails, EndApply, TypeOK
<1>3. ASSUME NEW ok \in SUBSET Subs, Prepare(ok) PROVE TypeOK'
  <2>1. PreparedContent(ok) \in Files /\ WriteSet(ok) \cup RemoveSet \subseteq Paths
    BY <1>3, PreparedType DEF Prepare
  <2> QED BY <1>3, <2>1 DEF Prepare, TypeOK
<1>4. CASE ApplyCanceled \/ RevisionChanged
  BY <1>4, Constants DEF ApplyCanceled, RevisionChanged, Release, EndApply, TypeOK
<1>5. CASE Commit
  BY <1>5 DEF Commit, TypeOK
<1>6. ASSUME NEW p \in Paths, CommitFile(p) PROVE TypeOK'
  <2>1. file' \in Files /\ todo' \subseteq Paths
    BY <1>6 DEF CommitFile, TypeOK, Files
  <2> QED BY <1>6, <2>1 DEF CommitFile, TypeOK
<1>7. CASE CommitSubscriptions
  BY <1>7, Constants DEF CommitSubscriptions, TypeOK
<1>8. CASE CompileApply
  <2>1. prepared' \in Snapshot
    BY <1>8, CompiledType DEF CompileApply, TypeOK
  <2> QED BY <1>8, <2>1 DEF CompileApply, TypeOK
<1>9. CASE ApplyLoadRuleSets
  <2>1. loaded' \in Content \cup {None}
    BY <1>9, Constants DEF ApplyLoadRuleSets, TypeOK, Files
  <2> QED BY <1>9, <2>1 DEF ApplyLoadRuleSets, TypeOK
<1>10. CASE ApplySwapRuleSets \/ ResumeRefresh \/ StorePlan \/ StoreOrdered
  BY <1>10 DEF ApplySwapRuleSets, ResumeRefresh, StorePlan, StoreOrdered, TypeOK
<1>11. CASE ApplyFails
  BY <1>11 DEF ApplyFails, TypeOK
<1>12. CASE Rollback
  <2>1. file' \in Files /\ subsDisk' \subseteq Subs
    BY <1>12 DEF Rollback, TypeOK
  <2> QED BY <1>12, <2>1, Constants DEF Rollback, EndApply, TypeOK
<1>13. CASE Publish
  <2>1. tick' \in [Tickers -> Tick]
    BY <1>13 DEF Publish, CanceledTicks, Tick, TypeOK
  <2> QED BY <1>13, <2>1, Constants DEF Publish, EndApply, TypeOK
<1> QED
  BY <1>1, <1>2, <1>3, <1>4, <1>5, <1>6, <1>7, <1>8, <1>9, <1>10, <1>11, <1>12, <1>13
     DEF ApplyStep

\* So do tickers and reloads.
LEMMA TypeTick ==
  ASSUME TypeOK, NEW t \in Tickers,
         \/ LockTx(t) \/ FetchFails(t) \/ FetchUnchanged(t) \/ FetchChanged(t) \/ TickOK(t)
         \/ ReloadFails(t) \/ \E s \in AllSubs : StartTick(t, s)
  PROVE  TypeOK'
<1> USE DEF diskVars, liveVars, TickKeeps, applyVars
<1>1. /\ tick[t] \in Tick /\ tick[t].sub \in AllSubs /\ tick[t].canceled \in BOOLEAN
      /\ SubPath(t) \in Paths
  BY Constants DEF TypeOK, Tick, SubPath
<1>2. \A pc \in {"idle", "found", "fetch", "reload", "ok"} : TickTo(t, pc) => tick' \in [Tickers -> Tick]
  BY <1>1 DEF TickTo, TypeOK, Tick
<1>3. EndTick(t) => tick' \in [Tickers -> Tick] /\ txMu' \in Tickers \cup {"apply", None}
  BY Constants DEF EndTick, TypeOK
<1>4. Fetched(tick[t].sub) \in Content
  BY <1>1, PolicyApplyAssumption DEF Fetched, Content, TypeOK
<1>5. ASSUME NEW s \in AllSubs, StartTick(t, s) PROVE TypeOK'
  <2>1. tick' \in [Tickers -> Tick]
    BY <1>5 DEF StartTick, Tick, TypeOK
  <2> QED BY <1>5, <2>1 DEF StartTick, TypeOK
<1>6. CASE LockTx(t)
  BY <1>6, <1>2 DEF LockTx, TypeOK
<1>7. CASE FetchFails(t) \/ TickOK(t) \/ ReloadFails(t)
  BY <1>7, <1>3 DEF FetchFails, TickOK, ReloadFails, TypeOK
<1>8. CASE FetchUnchanged(t)
  BY <1>8, <1>2 DEF FetchUnchanged, TypeOK
<1>9. CASE FetchChanged(t)
  <2>1. file' \in Files
    BY <1>9, <1>1, <1>4 DEF FetchChanged, TypeOK, Files
  <2> QED BY <1>9, <1>2, <2>1 DEF FetchChanged, TypeOK
<1> QED BY <1>5, <1>6, <1>7, <1>8, <1>9

LEMMA TypeReload ==
  ASSUME TypeOK, NEW w \in Workers, LoadRuleSets(w) \/ ReloadStep(w)
  PROVE  TypeOK'
<1> USE DEF diskVars, ReloadKeeps, applyVars
<1>1. /\ rl[w] \in Reload /\ rl[w].chn \in Content \cup {None} /\ rl[w].plan \in Revs
      /\ rl[w].snap \in Snapshot /\ plan \in Revs
  BY DEF TypeOK, Reload
<1>2. EndReload(w) => rl' \in [Workers -> Reload] /\ tick' \in [Tickers -> Tick]
  <2>1. EndReload(w) => rl' \in [Workers -> Reload]
    BY Constants DEF EndReload, TypeOK
  <2>2. EndReload(w) => tick' \in [Tickers -> Tick]
    BY DEF EndReload, TickTo, TypeOK, Tick
  <2> QED BY <2>1, <2>2
<1>3. \A r \in Reload : rl' = [rl EXCEPT ![w] = r] => rl' \in [Workers -> Reload]
  BY DEF TypeOK
<1>4. CASE LoadRuleSets(w)
  <2>1. file[PathOf[Chn]] \in Content \cup {None}
    BY Constants DEF TypeOK, Files
  <2>2. rl' \in [Workers -> Reload]
    BY <1>3, <1>4, <2>1, Constants DEF LoadRuleSets, Reload
  <2> QED BY <1>4, <2>2 DEF LoadRuleSets, TypeOK
<1>5. CASE StoreRules(w)
  <2>1. rl' \in [Workers -> Reload] /\ tick' \in [Tickers -> Tick]
    BY <1>2, <1>3, <1>5, Constants DEF StoreRules, Reload, TypeOK
  <2> QED BY <1>1, <1>5, <2>1 DEF StoreRules, TypeOK
<1>6. CASE LoadPlan(w)
  <2>1. rl' \in [Workers -> Reload]
    BY <1>1, <1>3, <1>6, Constants DEF LoadPlan, Reload
  <2> QED BY <1>6, <2>1 DEF LoadPlan, TypeOK
<1>7. CASE CompileRefresh(w)
  <2>1. rl' \in [Workers -> Reload]
    BY <1>1, <1>3, <1>7, CompiledType DEF CompileRefresh, Reload
  <2> QED BY <1>7, <2>1 DEF CompileRefresh, TypeOK
<1>8. CASE CompileRefreshFails(w)
  BY <1>2, <1>8 DEF CompileRefreshFails, TypeOK
<1>9. CASE CheckPlan(w)
  <2>1. rl' \in [Workers -> Reload] /\ tick' \in [Tickers -> Tick]
    BY <1>1, <1>2, <1>3, <1>9 DEF CheckPlan, Reload, TypeOK
  <2> QED BY <1>9, <2>1 DEF CheckPlan, TypeOK
<1>10. CASE StoreRefreshed(w)
  BY <1>1, <1>2, <1>10 DEF StoreRefreshed, TypeOK
<1> QED BY <1>4, <1>5, <1>6, <1>7, <1>8, <1>9, <1>10 DEF ReloadStep

LEMMA TypeNext == TypeOK /\ [Next]_vars => TypeOK'
<1> SUFFICES ASSUME TypeOK, [Next]_vars PROVE TypeOK'
  OBVIOUS
<1>1. CASE EditModel
  BY <1>1, PolicyApplyAssumption DEF EditModel, TypeOK, Revs, diskVars, applyVars, liveVars
<1>2. CASE Restart
  <2>1. rules' \in Content \cup {None} /\ ordered' \in Snapshot /\ crashes' \in 0..MaxCrash
    BY <1>2, Constants, CompiledType, PolicyApplyAssumption DEF Restart, TypeOK, Files
  <2>2. tick' \in [Tickers -> Tick] /\ rl' \in [Workers -> Reload]
    BY <1>2, Constants DEF Restart
  <2> QED BY <1>2, <2>1, <2>2, Constants DEF Restart, EndApply, TypeOK, Phases
<1>3. ASSUME NEW u \in Urls, RemoteChanges(u) PROVE TypeOK'
  <2>1. remote' \in [Urls -> 0..MaxVer]
    BY <1>3, PolicyApplyAssumption DEF RemoteChanges, TypeOK
  <2> QED BY <1>3, <2>1 DEF RemoteChanges, TypeOK, diskVars, applyVars, liveVars
<1>4. CASE BeginApply \/ ApplyStep
  BY <1>4, TypeApply
<1>5. ASSUME NEW t \in Tickers, TickStep(t) \/ \E s \in AllSubs : StartTick(t, s)
      PROVE  TypeOK'
  BY <1>5, TypeTick, TypeReload DEF TickStep, Workers
<1>6. ASSUME NEW r \in Reloaders, LoadRuleSets(r) \/ ReloadStep(r) PROVE TypeOK'
  BY <1>6, TypeReload DEF Workers
<1>7. CASE UNCHANGED vars
  BY <1>7 DEF vars, TypeOK
<1> QED BY <1>1, <1>2, <1>3, <1>4, <1>5, <1>6, <1>7 DEF Next

\* Types, for every value of the constants.
THEOREM PolicyTypeCorrect == Spec => []TypeOK
BY TypeInit, TypeNext, PTL DEF Spec

-----------------------------------------------------------------------------
(* The locks: an apply past its preparation holds txMu, one past its revision *)
(* check also the model; a ticker that has locked holds txMu.                 *)

Committing == {"files", "compile", "reload", "swap", "resume", "publish", "store", "subs",
               "rollback"}
Holding == Committing \cup {"prepared"}

LockInv ==
  /\ phase \in Holding <=> txMu = "apply"
  /\ phase \in Committing => modelMu /\ committed /\ rev = target
  /\ phase \notin Committing => ~modelMu
  /\ \A t \in Tickers : tick[t].pc \in {"fetch", "reload", "ok"} => txMu = t
  /\ \A t \in Tickers : rl[t].pc # "none" => tick[t].pc = "reload"

\* The disk under those locks: until the first write it is what the last writer
\* left, and from there on the backups are.
DiskInv ==
  /\ phase \in Holding => bak = good
  /\ phase = "prepared" => file = good /\ subs = subsDisk
  /\ phase \in {"compile", "reload", "swap", "resume", "publish", "store", "subs"} =>
       subsDisk = ModelSubs[target]
  /\ FailedApplyRestores
  /\ SubsPersisted

IInv == TypeOK /\ LockInv /\ DiskInv

LEMMA IInvInit == Init => IInv
<1> SUFFICES ASSUME Init PROVE LockInv /\ DiskInv
  BY TypeInit DEF IInv
<1>1. txMu = None /\ None # "apply" /\ phase = "idle" /\ ~modelMu
  BY PolicyApplyAssumption DEF Init
<1>2. \A t \in Tickers : tick[t].pc = "idle" /\ rl[t].pc = "none"
  BY DEF Init, NoTick, NoReload, Workers
<1> QED
  BY <1>1, <1>2 DEF Init, LockInv, DiskInv, Holding, Committing, FailedApplyRestores, SubsPersisted

LEMMA ApplyInv == IInv /\ (BeginApply \/ ApplyStep) => (LockInv /\ DiskInv)'
<1> SUFFICES ASSUME IInv, BeginApply \/ ApplyStep PROVE LockInv' /\ DiskInv'
  OBVIOUS
<1> USE DEF ApplyKeeps, diskVars, liveVars, Holding, Committing
<1>0. /\ None # "apply" /\ None \notin Tickers /\ "apply" \notin Tickers
  BY PolicyApplyAssumption
<1>1. CASE BeginApply
  BY <1>1 DEF BeginApply, IInv, LockInv, DiskInv, FailedApplyRestores, SubsPersisted
<1>2. CASE PrepareFails
  BY <1>0, <1>2 DEF PrepareFails, EndApply, IInv, LockInv, DiskInv, FailedApplyRestores, SubsPersisted
<1>3. ASSUME NEW ok \in SUBSET Subs, Prepare(ok) PROVE LockInv' /\ DiskInv'
  BY <1>0, <1>3 DEF Prepare, IInv, LockInv, DiskInv, FailedApplyRestores, SubsPersisted
<1>4. CASE ApplyCanceled \/ RevisionChanged
  BY <1>0, <1>4 DEF ApplyCanceled, RevisionChanged, Release, EndApply, IInv, LockInv, DiskInv,
                    FailedApplyRestores, SubsPersisted
<1>5. CASE Commit
  BY <1>5 DEF Commit, IInv, LockInv, DiskInv, FailedApplyRestores, SubsPersisted
<1>6. ASSUME NEW p \in Paths, CommitFile(p) PROVE LockInv' /\ DiskInv'
  BY <1>6 DEF CommitFile, IInv, LockInv, DiskInv, FailedApplyRestores, SubsPersisted
<1>7. CASE CommitSubscriptions
  BY <1>7 DEF CommitSubscriptions, IInv, LockInv, DiskInv, FailedApplyRestores, SubsPersisted
<1>8. CASE CompileApply \/ ApplyLoadRuleSets \/ ApplySwapRuleSets \/ ResumeRefresh
  BY <1>8 DEF CompileApply, ApplyLoadRuleSets, ApplySwapRuleSets, ResumeRefresh,
              IInv, LockInv, DiskInv, FailedApplyRestores, SubsPersisted
<1>9. CASE StorePlan \/ StoreOrdered \/ ApplyFails
  BY <1>9 DEF StorePlan, StoreOrdered, ApplyFails, IInv, LockInv, DiskInv, FailedApplyRestores,
              SubsPersisted
<1>10. CASE Rollback
  BY <1>0, <1>10 DEF Rollback, EndApply, IInv, LockInv, DiskInv, FailedApplyRestores, SubsPersisted
<1>11. CASE Publish
  <2>1. \A t \in Tickers : tick'[t].pc = tick[t].pc
    BY <1>11 DEF Publish, CanceledTicks
  <2>2. \A t \in Tickers : tick'[t].pc \notin {"fetch", "reload", "ok"}
    BY <1>0, <1>11, <2>1 DEF Publish, IInv, LockInv
  <2> QED BY <1>0, <1>11, <2>2 DEF Publish, EndApply, IInv, LockInv, DiskInv, FailedApplyRestores,
             SubsPersisted
<1> QED
  BY <1>1, <1>2, <1>3, <1>4, <1>5, <1>6, <1>7, <1>8, <1>9, <1>10, <1>11 DEF ApplyStep

\* A ticker writes under txMu, so no apply is between its backups and its end.
LEMMA TickInv ==
  ASSUME IInv, NEW t \in Tickers,
         \/ LockTx(t) \/ FetchFails(t) \/ FetchUnchanged(t) \/ FetchChanged(t) \/ TickOK(t)
         \/ ReloadFails(t) \/ \E s \in AllSubs : StartTick(t, s)
  PROVE  (LockInv /\ DiskInv)'
<1> USE DEF diskVars, liveVars, TickKeeps, applyVars
<1>0. /\ None # "apply" /\ None \notin Tickers /\ "apply" \notin Tickers
      /\ tick \in [Tickers -> Tick]
  BY PolicyApplyAssumption DEF IInv, TypeOK
<1>1. ASSUME NEW pc, TickTo(t, pc)
      PROVE  \A u \in Tickers : tick'[u].pc = IF u = t THEN pc ELSE tick[u].pc
  BY <1>0, <1>1 DEF TickTo
<1>2. EndTick(t) => \A u \in Tickers : tick'[u].pc = IF u = t THEN "idle" ELSE tick[u].pc
  BY <1>0 DEF EndTick, NoTick
<1>3. CASE \E s \in AllSubs : StartTick(t, s)
  <2>1. \A u \in Tickers : tick'[u].pc = IF u = t THEN "found" ELSE tick[u].pc
    BY <1>0, <1>3 DEF StartTick
  <2> QED BY <1>3, <2>1 DEF StartTick, IInv, LockInv, DiskInv, FailedApplyRestores, SubsPersisted
<1>4. CASE LockTx(t)
  BY <1>0, <1>1, <1>4 DEF LockTx, IInv, LockInv, DiskInv, FailedApplyRestores, SubsPersisted
<1>5. CASE FetchFails(t) \/ TickOK(t) \/ ReloadFails(t)
  <2>1. txMu = t /\ txMu' = None
    BY <1>5 DEF FetchFails, TickOK, ReloadFails, MayReload, EndTick, IInv, LockInv
  <2>2. phase \notin Holding
    BY <1>0, <2>1 DEF IInv, LockInv
  <2>3. rl[t].pc = "none" /\ UNCHANGED <<rl, phase>> /\ EndTick(t)
    BY <1>5 DEF FetchFails, TickOK, ReloadFails, MayReload, IInv, LockInv
  <2>4. LockInv'
    <3>1. \A u \in Tickers : u # t => tick[u].pc \notin {"fetch", "reload", "ok"}
      BY <2>1 DEF IInv, LockInv
    <3>2. \A u \in Tickers : tick'[u].pc \notin {"fetch", "reload", "ok"} /\ rl'[u].pc = "none"
      BY <1>2, <2>3, <3>1 DEF IInv, LockInv
    <3> QED BY <1>0, <1>5, <2>1, <2>2, <3>2
            DEF FetchFails, TickOK, ReloadFails, IInv, LockInv, Holding
  <2> QED BY <1>0, <1>5, <2>1, <2>2, <2>4
          DEF FetchFails, TickOK, ReloadFails, IInv, LockInv, DiskInv, FailedApplyRestores,
              SubsPersisted
<1>6. CASE FetchUnchanged(t)
  BY <1>1, <1>6 DEF FetchUnchanged, IInv, LockInv, DiskInv, FailedApplyRestores, SubsPersisted
<1>7. CASE FetchChanged(t)
  <2>1. txMu = t
    BY <1>7 DEF FetchChanged, IInv, LockInv
  <2>2. phase \notin Holding
    BY <1>0, <2>1 DEF IInv, LockInv
  <2> QED BY <1>1, <1>7, <2>1, <2>2
          DEF FetchChanged, IInv, LockInv, DiskInv, FailedApplyRestores, SubsPersisted, Holding
<1> QED BY <1>3, <1>4, <1>5, <1>6, <1>7

\* A reload only stores what it has read.
LEMMA ReloadInv ==
  ASSUME IInv, NEW w \in Workers, LoadRuleSets(w) \/ ReloadStep(w)
  PROVE  (LockInv /\ DiskInv)'
<1> USE DEF diskVars, ReloadKeeps, applyVars
<1>1. tick \in [Tickers -> Tick] /\ rl \in [Workers -> Reload]
  BY DEF IInv, TypeOK
<1>2. ASSUME NEW t \in Tickers
      PROVE  /\ tick'[t].pc \in {"fetch", "reload", "ok"} => tick[t].pc \in {"fetch", "reload", "ok"}
             /\ rl'[t].pc # "none" => tick'[t].pc = "reload"
  <2>1. /\ rl[t].pc # "none" => tick[t].pc = "reload"
        /\ t \in Workers
    BY DEF IInv, LockInv, Workers
  <2>2. EndReload(w) => /\ tick'[t].pc = tick[t].pc \/ (t = w /\ tick'[t].pc = "ok")
                        /\ rl'[t].pc = IF t = w THEN "none" ELSE rl[t].pc
    BY <1>1, <2>1 DEF EndReload, TickTo, NoReload
  <2>3. CASE t # w
    BY <1>1, <2>1, <2>2, <2>3
       DEF ReloadStep, LoadRuleSets, StoreRules, LoadPlan, CompileRefresh, CompileRefreshFails,
           CheckPlan, StoreRefreshed
  <2>4. CASE t = w
    BY <1>1, <2>1, <2>2, <2>4
       DEF ReloadStep, LoadRuleSets, MayReload, StoreRules, LoadPlan, CompileRefresh,
           CompileRefreshFails, CheckPlan, StoreRefreshed
  <2> QED BY <2>3, <2>4
<1>3. UNCHANGED <<rev, modelMu, file, subsDisk, good, subs, txMu, phase, target, committed, bak>>
  BY DEF ReloadStep, LoadRuleSets, StoreRules, LoadPlan, CompileRefresh, CompileRefreshFails,
         CheckPlan, StoreRefreshed
<1> QED BY <1>2, <1>3 DEF IInv, LockInv, DiskInv, FailedApplyRestores, SubsPersisted

LEMMA IInvNext == IInv /\ [Next]_vars => IInv'
<1> SUFFICES ASSUME IInv, [Next]_vars PROVE (LockInv /\ DiskInv)'
  BY TypeNext DEF IInv
<1>1. CASE EditModel
  BY <1>1 DEF EditModel, IInv, LockInv, DiskInv, FailedApplyRestores, SubsPersisted,
              diskVars, applyVars, liveVars
<1>2. CASE Restart
  <2>1. /\ None # "apply" /\ phase' = "idle" /\ txMu' = None /\ ~modelMu'
        /\ \A t \in Tickers : tick'[t].pc = "idle" /\ rl'[t].pc = "none"
    BY <1>2, PolicyApplyAssumption DEF Restart, EndApply, NoTick, NoReload, Workers
  <2> QED BY <1>2, <2>1 DEF Restart, LockInv, DiskInv, FailedApplyRestores, SubsPersisted,
                            Holding, Committing
<1>3. ASSUME NEW u \in Urls, RemoteChanges(u) PROVE (LockInv /\ DiskInv)'
  BY <1>3 DEF RemoteChanges, IInv, LockInv, DiskInv, FailedApplyRestores, SubsPersisted,
              diskVars, applyVars, liveVars
<1>4. CASE BeginApply \/ ApplyStep
  BY <1>4, ApplyInv
<1>5. ASSUME NEW t \in Tickers, TickStep(t) \/ \E s \in AllSubs : StartTick(t, s)
      PROVE  (LockInv /\ DiskInv)'
  BY <1>5, TickInv, ReloadInv DEF TickStep, Workers
<1>6. ASSUME NEW r \in Reloaders, LoadRuleSets(r) \/ ReloadStep(r) PROVE (LockInv /\ DiskInv)'
  BY <1>6, ReloadInv DEF Workers
<1>7. CASE UNCHANGED vars
  BY <1>7 DEF vars, IInv, LockInv, DiskInv, FailedApplyRestores, SubsPersisted
<1> QED BY <1>1, <1>2, <1>3, <1>4, <1>5, <1>6, <1>7 DEF Next

THEOREM IInvHolds == Spec => []IInv
BY IInvInit, IInvNext, PTL DEF Spec

\* A failed apply, wherever it failed, leaves every cache file as the last completed
\* writer left it, for any subscriptions, edits, tickers, reloads and restarts.
THEOREM FailedApplyLosesNothing == Spec => []FailedApplyRestores
<1>1. IInv => FailedApplyRestores
  BY DEF IInv, DiskInv
<1> QED BY <1>1, IInvHolds, PTL

\* The subscriptions in memory are those on disk whenever no apply is at work.
THEOREM SubscriptionsPersisted == Spec => []SubsPersisted
<1>1. IInv => SubsPersisted
  BY DEF IInv, DiskInv
<1> QED BY <1>1, IInvHolds, PTL

\* Whatever is edited while an apply fetches, the plan it publishes is the model as
\* last edited: the revision is compared under the lock that publishing holds.
THEOREM PublishesCurrentModel == Spec => NoStalePublish
<1>1. IInv /\ [Next]_vars => [plan' # plan => plan' = rev]_vars
  <2> SUFFICES ASSUME IInv, [Next]_vars, plan' # plan PROVE plan' = rev
    OBVIOUS
  <2>1. CASE StorePlan
    BY <2>1 DEF StorePlan, IInv, LockInv, Committing
  <2>2. CASE Restart
    BY <2>2 DEF Restart
  <2>3. CASE BeginApply \/ ApplyStep
    BY <2>1, <2>3 DEF BeginApply, ApplyStep, PrepareFails, Prepare, ApplyCanceled, RevisionChanged,
         Release, EndApply, Commit, CommitFile, CommitSubscriptions, CompileApply,
         ApplyLoadRuleSets, ApplySwapRuleSets, ResumeRefresh, ApplyFails, Rollback, StoreOrdered,
         Publish, liveVars
  <2>4. ASSUME NEW t \in Tickers, TickStep(t) \/ \E s \in AllSubs : StartTick(t, s) PROVE FALSE
    BY <2>4 DEF TickStep, LockTx, FetchFails, FetchUnchanged, FetchChanged, TickOK, ReloadFails,
         StartTick, LoadRuleSets, ReloadStep, StoreRules, LoadPlan, CompileRefresh,
         CompileRefreshFails, CheckPlan, StoreRefreshed, ReloadKeeps, liveVars
  <2>5. ASSUME NEW r \in Reloaders, LoadRuleSets(r) \/ ReloadStep(r) PROVE FALSE
    BY <2>5 DEF LoadRuleSets, ReloadStep, StoreRules, LoadPlan, CompileRefresh,
         CompileRefreshFails, CheckPlan, StoreRefreshed, ReloadKeeps
  <2>6. CASE EditModel \/ \E u \in Urls : RemoteChanges(u)
    BY <2>6 DEF EditModel, RemoteChanges, liveVars
  <2>7. CASE UNCHANGED vars
    BY <2>7 DEF vars
  <2> QED BY <2>1, <2>2, <2>3, <2>4, <2>5, <2>6, <2>7 DEF Next
<1> QED BY <1>1, IInvHolds, PTL DEF Spec, NoStalePublish

-----------------------------------------------------------------------------
(* The caches and the subscriptions they belong to, between restarts.         *)

ListedIn(f, s) == \A p \in Paths : f[p] # None => p \in PathsOf(s \cup {Chn})

\* A ticker that is not canceled has a live subscription; what an apply will write
\* belongs to its model, and what it has still to remove it remembers.
CacheInv ==
  /\ \A t \in Tickers : tick[t].canceled \/ tick[t].sub \in subs \cup {Chn}
  /\ phase \notin Holding => ListedIn(file, subs)
  /\ phase \in Holding => ListedIn(bak, subs) /\ ListedIn(want, ModelSubs[target])
  /\ phase \in {"prepared", "files"} =>
       \A p \in Paths : file[p] # None => p \in todo \cup PathsOf(ModelSubs[target] \cup {Chn})
  /\ phase \in {"compile", "reload", "swap", "resume", "publish", "store", "subs"} =>
       ListedIn(file, ModelSubs[target])

LEMMA PathsOfUnion == \A s, q : PathsOf(s \cup q) = PathsOf(s) \cup PathsOf(q)
BY DEF PathsOf

LEMMA CacheApply ==
  IInv /\ CacheInv /\ (BeginApply \/ ApplyStep) => CacheInv'
<1> SUFFICES ASSUME IInv, CacheInv, BeginApply \/ ApplyStep PROVE CacheInv'
  OBVIOUS
<1> USE DEF ApplyKeeps, diskVars, liveVars, Holding, Committing
<1>1. CASE BeginApply \/ PrepareFails
  BY <1>1 DEF BeginApply, PrepareFails, EndApply, CacheInv, ListedIn
<1>2. ASSUME NEW ok \in SUBSET Subs, Prepare(ok) PROVE CacheInv'
  <2>1. /\ ListedIn(file, subs) /\ phase' = "prepared" /\ bak' = file /\ file' = file
        /\ subs' = subs /\ target' = target /\ tick' = tick
        /\ want' = PreparedContent(ok) /\ todo' = WriteSet(ok) \cup RemoveSet
    BY <1>2 DEF Prepare, CacheInv
  <2>2. ListedIn(PreparedContent(ok), ModelSubs[target])
    <3>1. \A p \in Paths : PreparedContent(ok)[p] # None => p \in WriteSet(ok)
      BY DEF PreparedContent
    <3>2. WriteSet(ok) \subseteq PathsOf(ModelSubs[target])
      BY <1>2 DEF Prepare, WriteSet, PathsOf
    <3> QED BY <3>1, <3>2, PathsOfUnion DEF ListedIn
  <2>3. ASSUME NEW p \in Paths, file[p] # None
        PROVE  p \in todo' \cup PathsOf(ModelSubs[target] \cup {Chn})
    <3>1. p \in PathsOf(subs) \cup PathsOf({Chn})
      BY <2>1, <2>3, PathsOfUnion DEF ListedIn
    <3> QED BY <2>1, <3>1, PathsOfUnion DEF RemoveSet
  <2> QED BY <2>1, <2>2, <2>3 DEF CacheInv, ListedIn
<1>3. CASE ApplyCanceled \/ RevisionChanged
  <2>1. file = bak
    BY <1>3 DEF ApplyCanceled, RevisionChanged, IInv, DiskInv
  <2> QED BY <1>3, <2>1 DEF ApplyCanceled, RevisionChanged, Release, EndApply, CacheInv, ListedIn
<1>4. CASE Commit
  BY <1>4 DEF Commit, CacheInv, ListedIn
<1>5. ASSUME NEW p \in Paths, CommitFile(p) PROVE CacheInv'
  <2>1. /\ phase = "files" /\ phase' = "files" /\ file \in Files
        /\ file' = [file EXCEPT ![p] = want[p]] /\ todo' = todo \ {p}
        /\ UNCHANGED <<subs, target, want, bak, tick>>
    BY <1>5 DEF CommitFile, IInv, TypeOK
  <2>2. ASSUME NEW x \in Paths, file'[x] # None
        PROVE  x \in todo' \cup PathsOf(ModelSubs[target] \cup {Chn})
    <3>1. CASE x = p
      BY <2>1, <2>2, <3>1 DEF CacheInv, ListedIn, Files
    <3>2. CASE x # p
      BY <2>1, <2>2, <3>2 DEF CacheInv, Files
    <3> QED BY <3>1, <3>2
  <2> QED BY <2>1, <2>2 DEF CacheInv, ListedIn
<1>6. CASE CommitSubscriptions
  BY <1>6 DEF CommitSubscriptions, CacheInv, ListedIn
<1>7. CASE CompileApply \/ ApplyLoadRuleSets \/ ApplySwapRuleSets \/ ResumeRefresh
  BY <1>7 DEF CompileApply, ApplyLoadRuleSets, ApplySwapRuleSets, ResumeRefresh, CacheInv, ListedIn
<1>8. CASE StorePlan \/ StoreOrdered \/ ApplyFails
  BY <1>8 DEF StorePlan, StoreOrdered, ApplyFails, CacheInv, ListedIn
<1>9. CASE Rollback
  <2>1. file' = bak /\ subs' = subs /\ tick' = tick /\ phase' = "idle"
    BY <1>9 DEF Rollback, EndApply, IInv, LockInv
  <2> QED BY <1>9, <2>1 DEF Rollback, CacheInv, ListedIn
<1>10. CASE Publish
  <2>1. \A t \in Tickers : tick'[t].canceled \/ tick'[t].sub \in {Chn}
    BY <1>10 DEF Publish, CanceledTicks
  <2>2. file' = file /\ subs' = ModelSubs[target] /\ phase' = "idle" /\ phase = "subs"
    BY <1>10 DEF Publish, EndApply
  <2> QED BY <2>1, <2>2 DEF CacheInv, ListedIn
<1> QED
  BY <1>1, <1>2, <1>3, <1>4, <1>5, <1>6, <1>7, <1>8, <1>9, <1>10 DEF ApplyStep

LEMMA CacheTick ==
  ASSUME IInv, CacheInv, NEW t \in Tickers,
         \/ LockTx(t) \/ FetchFails(t) \/ FetchUnchanged(t) \/ FetchChanged(t) \/ TickOK(t)
         \/ ReloadFails(t) \/ \E s \in AllSubs : StartTick(t, s)
  PROVE  CacheInv'
<1> USE DEF diskVars, liveVars, TickKeeps, applyVars
<1>1. tick \in [Tickers -> Tick] /\ UNCHANGED <<subs, phase, target, want, todo, bak>>
  BY DEF IInv, TypeOK, LockTx, FetchFails, FetchUnchanged, FetchChanged, TickOK, ReloadFails,
         StartTick
<1>2. \A u \in Tickers : tick'[u].canceled \/ tick'[u].sub \in subs \cup {Chn}
  <2>1. \A pc : TickTo(t, pc) =>
          \A u \in Tickers : tick'[u].canceled = tick[u].canceled /\ tick'[u].sub = tick[u].sub
    BY <1>1 DEF TickTo
  <2>2. EndTick(t) => \A u \in Tickers : u # t => tick'[u] = tick[u]
    BY <1>1 DEF EndTick
  <2>3. EndTick(t) => tick'[t].sub = Chn
    BY <1>1 DEF EndTick, NoTick
  <2>4. CASE \E s \in AllSubs : StartTick(t, s)
    BY <1>1, <2>4 DEF StartTick, CacheInv
  <2>5. CASE LockTx(t) \/ FetchUnchanged(t) \/ FetchChanged(t)
    BY <2>1, <2>5 DEF LockTx, FetchUnchanged, FetchChanged, CacheInv
  <2>6. CASE FetchFails(t) \/ TickOK(t) \/ ReloadFails(t)
    BY <2>2, <2>3, <2>6 DEF FetchFails, TickOK, ReloadFails, CacheInv
  <2> QED BY <2>4, <2>5, <2>6
<1>3. CASE FetchChanged(t)
  <2>1. phase \notin Holding /\ file \in Files
    BY <1>3, PolicyApplyAssumption DEF FetchChanged, IInv, LockInv, TypeOK
  <2>2. SubPath(t) \in PathsOf(subs \cup {Chn})
    BY <1>3 DEF FetchChanged, CacheInv, SubPath, PathsOf
  <2>3. \A p \in Paths : file'[p] # None => p \in PathsOf(subs \cup {Chn})
    BY <1>3, <2>1, <2>2 DEF FetchChanged, CacheInv, ListedIn, Files
  <2> QED BY <1>1, <1>2, <2>1, <2>3 DEF CacheInv, ListedIn, Holding, Committing
<1>4. CASE file' = file
  BY <1>1, <1>2, <1>4 DEF CacheInv, ListedIn
<1> QED BY <1>3, <1>4 DEF LockTx, FetchFails, FetchUnchanged, TickOK, ReloadFails, StartTick

LEMMA CacheReload ==
  ASSUME IInv, CacheInv, NEW w \in Workers, LoadRuleSets(w) \/ ReloadStep(w)
  PROVE  CacheInv'
<1> USE DEF diskVars, ReloadKeeps, applyVars
<1>1. tick \in [Tickers -> Tick] /\ UNCHANGED <<file, subs, phase, target, want, todo, bak>>
  BY DEF IInv, TypeOK, ReloadStep, LoadRuleSets, StoreRules, LoadPlan, CompileRefresh,
         CompileRefreshFails, CheckPlan, StoreRefreshed
<1>2. EndReload(w) \/ UNCHANGED tick
  BY DEF ReloadStep, LoadRuleSets, StoreRules, LoadPlan, CompileRefresh, CompileRefreshFails,
         CheckPlan, StoreRefreshed
<1>3. \A u \in Tickers : tick'[u].canceled = tick[u].canceled /\ tick'[u].sub = tick[u].sub
  BY <1>1, <1>2 DEF EndReload, TickTo
<1> QED BY <1>1, <1>3 DEF CacheInv, ListedIn

LEMMA CacheInvKept == MaxCrash = 0 /\ IInv /\ CacheInv /\ [Next]_vars => CacheInv'
<1> SUFFICES ASSUME MaxCrash = 0, IInv, CacheInv, [Next]_vars PROVE CacheInv'
  OBVIOUS
<1>1. CASE EditModel \/ \E u \in Urls : RemoteChanges(u)
  BY <1>1 DEF EditModel, RemoteChanges, CacheInv, ListedIn, diskVars, applyVars, liveVars
<1>2. ~Restart
  BY DEF Restart, IInv, TypeOK
<1>3. CASE BeginApply \/ ApplyStep
  BY <1>3, CacheApply
<1>4. ASSUME NEW t \in Tickers, TickStep(t) \/ \E s \in AllSubs : StartTick(t, s)
      PROVE  CacheInv'
  BY <1>4, CacheTick, CacheReload DEF TickStep, Workers
<1>5. ASSUME NEW r \in Reloaders, LoadRuleSets(r) \/ ReloadStep(r) PROVE CacheInv'
  BY <1>5, CacheReload DEF Workers
<1>6. CASE UNCHANGED vars
  BY <1>6 DEF vars, CacheInv, ListedIn
<1> QED BY <1>1, <1>2, <1>3, <1>4, <1>5, <1>6 DEF Next

\* While the daemon runs, no cache file outlives its subscription, whatever the
\* tickers had looked up before an apply replaced the list.
THEOREM NoOrphanCaches ==
  ASSUME MaxCrash = 0 PROVE Spec => []CachesListed
<1>1. Init => CacheInv
  BY Constants DEF Init, CacheInv, ListedIn, Holding, Committing, NoFiles, NoTick
<1>2. IInv /\ CacheInv => CachesListed
  BY DEF IInv, LockInv, CacheInv, ListedIn, CachesListed
<1>3. IInv /\ CacheInv /\ [Next]_vars => CacheInv'
  BY CacheInvKept
<1> QED BY <1>1, <1>2, <1>3, IInvHolds, PTL DEF Spec
-----------------------------------------------------------------------------
(* What is live against what is on disk, when only tickers and applies reload *)
(* and no reload fails: txMu then keeps every reload out of an apply, and     *)
(* tickers out of one another, with restarts anywhere.                        *)

CompiledOf(r, f) ==
  [rev |-> r, data |-> [p \in Paths |-> IF p \in PathsOf(ModelSubs[r]) THEN f[p] ELSE None]]

ChnPath == PathOf[Chn]
Reloading == {t \in Tickers : tick[t].pc = "reload"}

\* The live policy is of the backups until an apply stores its own snapshot; the
\* chnroute, which no apply touches, is of the disk throughout.
ApplyLive ==
  /\ phase \in Holding => ChnPath \notin todo /\ file[ChnPath] = bak[ChnPath]
                          /\ rules = bak[ChnPath]
  /\ phase = "swap" => loaded = file[ChnPath]
  /\ phase \in Holding \ {"store", "subs"} => ordered = CompiledOf(plan, bak)
  /\ phase \in {"reload", "swap", "resume", "publish", "store"} =>
       prepared = CompiledOf(target, file)
  /\ phase \in {"store", "subs"} => plan = target
  /\ phase = "subs" => ordered = CompiledOf(plan, file)

\* Refreshes are paused exactly while an apply reloads.
PauseInv == paused <=> phase \in {"reload", "swap", "resume"}

\* Between applies only a ticker that has yet to reload is ahead of what is live...
IdleLive ==
  phase \notin Holding /\ Reloading = {} =>
    ordered = CompiledOf(plan, file) /\ rules = file[ChnPath]

\* ...and its reload has read what is on disk, and the current plan.
ReloadLive ==
  \A t \in Tickers :
    /\ rl[t].pc = "store" => rl[t].chn = file[ChnPath]
    /\ rl[t].pc \in {"plan", "compile", "check", "publish"} => rules = file[ChnPath]
    /\ rl[t].pc \in {"compile", "check", "publish"} => rl[t].plan = plan
    /\ rl[t].pc \in {"check", "publish"} => rl[t].snap = CompiledOf(plan, file)

LiveInv == PauseInv /\ ApplyLive /\ IdleLive /\ ReloadLive

\* While an apply holds the transaction no ticker is past its lock.
LEMMA ApplyAlone ==
  ASSUME IInv, phase \in Holding
  PROVE  Reloading = {} /\ \A t \in Tickers : rl[t].pc = "none"
BY PolicyApplyAssumption DEF IInv, LockInv, Reloading

LEMMA LiveInit == Init => LiveInv
<1> SUFFICES ASSUME Init PROVE LiveInv
  OBVIOUS
<1>1. ordered = CompiledOf(plan, file)
  BY DEF Init, Compiled, CompiledOf
<1>2. rules = file[ChnPath]
  BY Constants DEF Init, NoFiles, ChnPath
<1>3. \A t \in Tickers : rl[t].pc = "none"
  BY DEF Init, NoReload, Workers
<1>4. phase \notin Holding /\ phase = "idle" /\ ~paused
  BY DEF Init, Holding, Committing
<1> QED BY <1>1, <1>2, <1>3, <1>4 DEF LiveInv, PauseInv, ApplyLive, IdleLive, ReloadLive

LEMMA LiveApply == IInv /\ LiveInv /\ (BeginApply \/ ApplyStep) => LiveInv'
<1> SUFFICES ASSUME IInv, LiveInv, BeginApply \/ ApplyStep PROVE LiveInv'
  OBVIOUS
<1> USE DEF ApplyKeeps, diskVars, liveVars, Holding, Committing, LiveInv
<1>1. CASE BeginApply \/ PrepareFails
  BY <1>1 DEF BeginApply, PrepareFails, EndApply, PauseInv, ApplyLive, IdleLive, ReloadLive, Reloading
<1>2. ASSUME NEW ok \in SUBSET Subs, Prepare(ok) PROVE LiveInv'
  <2>1. Reloading = {} /\ \A t \in Tickers : rl[t].pc = "none"
    BY <1>2, PolicyApplyAssumption DEF Prepare, IInv, LockInv, Reloading
  <2>2. ChnPath \notin WriteSet(ok) \cup RemoveSet
    <3>1. ok \subseteq Subs /\ ModelSubs[target] \subseteq Subs /\ subs \subseteq Subs
      BY Constants DEF IInv, TypeOK
    <3> QED BY <3>1, PolicyApplyAssumption DEF WriteSet, RemoveSet, PathsOf, ChnPath
  <2> QED BY <1>2, <2>1, <2>2 DEF Prepare, PauseInv, ApplyLive, IdleLive, ReloadLive
<1>3. ASSUME phase \in Holding, ApplyStep, phase' # "idle", phase' \in Holding
      PROVE  IdleLive' /\ ReloadLive'
  <2>1. rl' = rl
    BY <1>3 DEF ApplyStep, PrepareFails, Prepare, ApplyCanceled, RevisionChanged,
         Release, EndApply, Commit, CommitFile, CommitSubscriptions, CompileApply,
         ApplyLoadRuleSets, ApplySwapRuleSets, ResumeRefresh, ApplyFails, Rollback, StorePlan,
         StoreOrdered, Publish
  <2> QED BY <1>3, <2>1, ApplyAlone DEF IdleLive, ReloadLive
<1>4. ASSUME phase \in Holding, phase' = "idle", rl' = rl, ~paused', Reloading' = Reloading,
             ordered' = CompiledOf(plan', file'), rules' = file'[ChnPath]
      PROVE  LiveInv'
  BY <1>4, ApplyAlone DEF PauseInv, ApplyLive, IdleLive, ReloadLive
<1>5. CASE ApplyCanceled \/ RevisionChanged
  <2>1. file = bak
    BY <1>5 DEF ApplyCanceled, RevisionChanged, IInv, DiskInv
  <2> QED BY <1>4, <1>5, <2>1
          DEF ApplyCanceled, RevisionChanged, Release, EndApply, PauseInv, ApplyLive, Reloading
<1>6. CASE Commit
  BY <1>3, <1>6 DEF ApplyStep, Commit, PauseInv, ApplyLive
<1>7. ASSUME NEW p \in Paths, CommitFile(p) PROVE LiveInv'
  <2>1. p # ChnPath /\ file'[ChnPath] = file[ChnPath]
    BY <1>7 DEF CommitFile, ApplyLive, IInv, TypeOK, Files
  <2> QED BY <1>3, <1>7, <2>1 DEF ApplyStep, CommitFile, PauseInv, ApplyLive
<1>8. CASE CommitSubscriptions
  BY <1>3, <1>8 DEF ApplyStep, CommitSubscriptions, PauseInv, ApplyLive
<1>9. CASE CompileApply
  <2>1. prepared' = CompiledOf(target', file')
    BY <1>9 DEF CompileApply, Compiled, CompiledOf
  <2> QED BY <1>3, <1>9, <2>1 DEF ApplyStep, CompileApply, PauseInv, ApplyLive
<1>10. CASE ApplyLoadRuleSets \/ ApplySwapRuleSets
  <2>1. loaded' = file'[ChnPath] /\ rules' = bak'[ChnPath]
    BY <1>10 DEF ApplyLoadRuleSets, ApplySwapRuleSets, ApplyLive, ChnPath
  <2> QED BY <1>3, <1>10, <2>1
          DEF ApplyStep, ApplyLoadRuleSets, ApplySwapRuleSets, PauseInv, ApplyLive
<1>11. CASE ResumeRefresh \/ ApplyFails
  BY <1>3, <1>11 DEF ApplyStep, ResumeRefresh, ApplyFails, PauseInv, ApplyLive
<1>12. CASE Rollback
  <2>1. file' = bak /\ phase' = "idle"
    BY <1>12 DEF Rollback, EndApply, IInv, LockInv
  <2> QED BY <1>4, <1>12, <2>1 DEF Rollback, PauseInv, ApplyLive, Reloading
<1>13. CASE StorePlan \/ StoreOrdered
  <2>1. phase' = "subs" => ordered' = CompiledOf(plan', file')
    BY <1>13 DEF StorePlan, StoreOrdered, ApplyLive
  <2>2. PauseInv'
    BY <1>13 DEF StorePlan, StoreOrdered, PauseInv
  <2>3. ApplyLive'
    BY <1>13, <2>1 DEF StorePlan, StoreOrdered, ApplyLive
  <2> QED BY <1>3, <1>13, <2>2, <2>3 DEF ApplyStep, StorePlan, StoreOrdered
<1>14. CASE Publish
  <2>1. Reloading' = Reloading
    BY <1>14 DEF Publish, CanceledTicks, Reloading
  <2> QED BY <1>4, <1>14, <2>1 DEF Publish, EndApply, PauseInv, ApplyLive
<1> QED
  BY <1>1, <1>2, <1>5, <1>6, <1>7, <1>8, <1>9, <1>10, <1>11, <1>12, <1>13, <1>14 DEF ApplyStep

\* Tickers that do not reload: the only one to write a file goes on to reload.
LEMMA LiveTick ==
  ASSUME ~FaultyReload, IInv, LiveInv, NEW t \in Tickers,
         \/ LockTx(t) \/ FetchFails(t) \/ FetchUnchanged(t) \/ FetchChanged(t) \/ TickOK(t)
         \/ ReloadFails(t) \/ \E s \in AllSubs : StartTick(t, s)
  PROVE  LiveInv'
<1> USE DEF diskVars, liveVars, TickKeeps, applyVars, LiveInv
<1>1. tick \in [Tickers -> Tick] /\ ~ReloadFails(t)
  BY DEF IInv, TypeOK, ReloadFails
<1>2. /\ UNCHANGED <<phase, todo, bak, loaded, prepared, plan, target, paused, rules, ordered, rl>>
  BY <1>1 DEF LockTx, FetchFails, FetchUnchanged, FetchChanged, TickOK, StartTick
<1>3. /\ tick[t].pc # "reload"
      /\ \A u \in Tickers \ {t} : tick'[u].pc = tick[u].pc
  BY <1>1 DEF LockTx, FetchFails, FetchUnchanged, FetchChanged, TickOK, StartTick, TickTo, EndTick
<1>4. CASE FetchChanged(t)
  <2>1. txMu = t /\ phase \notin Holding
    BY <1>4, PolicyApplyAssumption DEF FetchChanged, IInv, LockInv
  <2>2. t \in Reloading'
    BY <1>1, <1>4 DEF FetchChanged, TickTo, Reloading
  <2>3. \A u \in Tickers : rl[u].pc = "none"
    BY <1>3, <2>1 DEF IInv, LockInv
  <2> QED BY <1>2, <2>1, <2>2, <2>3
          DEF PauseInv, ApplyLive, IdleLive, ReloadLive, Holding, Committing
<1>5. CASE file' = file
  <2>1. Reloading \subseteq Reloading'
    BY <1>3 DEF Reloading
  <2> QED BY <1>2, <1>5, <2>1 DEF PauseInv, ApplyLive, IdleLive, ReloadLive
<1> QED BY <1>1, <1>4, <1>5 DEF LockTx, FetchFails, FetchUnchanged, TickOK, StartTick

\* A ticker's reload runs under its txMu: nothing it has read moves before it ends.
LEMMA LiveReload ==
  ASSUME ~FaultyReload, IInv, LiveInv, NEW t \in Tickers, LoadRuleSets(t) \/ ReloadStep(t)
  PROVE  LiveInv'
<1> USE DEF diskVars, ReloadKeeps, applyVars, LiveInv
<1>1. /\ tick \in [Tickers -> Tick] /\ rl \in [Workers -> Reload] /\ t \in Workers
      /\ ~CompileRefreshFails(t)
  BY DEF IInv, TypeOK, CompileRefreshFails, Workers
<1>2. tick[t].pc = "reload"
  BY <1>1 DEF LoadRuleSets, MayReload, ReloadStep, StoreRules, LoadPlan, CompileRefresh,
              CheckPlan, StoreRefreshed, IInv, LockInv
<1>3. txMu = t /\ phase \notin Holding /\ ~paused
  BY <1>2, PolicyApplyAssumption DEF IInv, LockInv, PauseInv, Holding, Committing
<1>4. \A u \in Tickers \ {t} : u \in Workers /\ rl[u].pc = "none" /\ tick[u].pc # "reload"
  BY <1>3 DEF IInv, LockInv, Workers
<1>5. UNCHANGED <<file, plan, phase, paused>>
  BY <1>1 DEF LoadRuleSets, ReloadStep, StoreRules, LoadPlan, CompileRefresh, CheckPlan,
              StoreRefreshed
<1>6. PauseInv' /\ ApplyLive'
  BY <1>3, <1>5 DEF PauseInv, ApplyLive, Holding, Committing
<1>7. \A u \in Tickers \ {t} : rl'[u].pc = "none"
  BY <1>1, <1>4 DEF LoadRuleSets, ReloadStep, StoreRules, LoadPlan, CompileRefresh, CheckPlan,
                    StoreRefreshed, EndReload
<1>8. CASE LoadRuleSets(t)
  <2>1. rl'[t].pc = "store" /\ rl'[t].chn = file[ChnPath] /\ Reloading' = Reloading
    BY <1>1, <1>8 DEF LoadRuleSets, ChnPath, Reloading
  <2>2. Reloading # {}
    BY <1>2 DEF Reloading
  <2> QED BY <1>5, <1>6, <1>7, <2>1, <2>2 DEF IdleLive, ReloadLive
<1>9. CASE StoreRules(t) \/ LoadPlan(t) \/ CompileRefresh(t) \/ CheckPlan(t)
  <2>1. tick' = tick /\ t \in Reloading'
    BY <1>1, <1>2, <1>3, <1>9
       DEF StoreRules, LoadPlan, CompileRefresh, CheckPlan, Reloading, ReloadLive
  <2>2. CASE StoreRules(t)
    <3>1. rl'[t].pc = "plan" /\ rules' = file[ChnPath]
      BY <1>1, <1>3, <2>2 DEF StoreRules, ReloadLive
    <3> QED BY <1>5, <1>6, <1>7, <2>1, <3>1 DEF IdleLive, ReloadLive
  <2>3. CASE LoadPlan(t)
    <3>1. rl'[t].pc = "compile" /\ rl'[t].plan = plan /\ rules' = rules /\ rules = file[ChnPath]
      BY <1>1, <2>3 DEF LoadPlan, ReloadLive
    <3> QED BY <1>5, <1>6, <1>7, <2>1, <3>1 DEF IdleLive, ReloadLive
  <2>4. CASE CompileRefresh(t)
    <3>1. /\ rl'[t].pc = "check" /\ rl'[t].plan = plan /\ rules' = rules /\ rules = file[ChnPath]
          /\ rl'[t].snap = Compiled(plan)
      BY <1>1, <2>4 DEF CompileRefresh, ReloadLive
    <3>2. rl'[t].snap = CompiledOf(plan, file)
      BY <3>1 DEF Compiled, CompiledOf
    <3> QED BY <1>5, <1>6, <1>7, <2>1, <3>1, <3>2 DEF IdleLive, ReloadLive
  <2>5. CASE CheckPlan(t)
    <3>1. /\ rl'[t].pc = "publish" /\ rl'[t].plan = plan /\ rules' = rules /\ rules = file[ChnPath]
          /\ rl'[t].snap = CompiledOf(plan, file)
      BY <1>1, <2>5 DEF CheckPlan, ReloadLive
    <3> QED BY <1>5, <1>6, <1>7, <2>1, <3>1 DEF IdleLive, ReloadLive
  <2> QED BY <1>9, <2>2, <2>3, <2>4, <2>5
<1>10. CASE StoreRefreshed(t)
  <2>1. rl'[t].pc = "none"
    BY <1>1, <1>10 DEF StoreRefreshed, EndReload, NoReload
  <2>2. ordered' = CompiledOf(plan, file) /\ rules' = rules /\ rules = file[ChnPath]
    BY <1>10 DEF StoreRefreshed, ReloadLive
  <2> QED BY <1>5, <1>6, <1>7, <2>1, <2>2 DEF IdleLive, ReloadLive
<1> QED BY <1>1, <1>8, <1>9, <1>10 DEF ReloadStep

LEMMA LiveNext == ~FaultyReload /\ Reloaders = {} /\ IInv /\ LiveInv /\ [Next]_vars => LiveInv'
<1> SUFFICES ASSUME ~FaultyReload, Reloaders = {}, IInv, LiveInv, [Next]_vars PROVE LiveInv'
  OBVIOUS
<1>1. CASE EditModel \/ \E u \in Urls : RemoteChanges(u)
  BY <1>1 DEF EditModel, RemoteChanges, LiveInv, PauseInv, ApplyLive, IdleLive, ReloadLive, Reloading,
              diskVars, applyVars, liveVars
<1>2. CASE Restart
  <2>1. \A t \in Tickers : rl'[t].pc = "none"
    BY <1>2 DEF Restart, NoReload, Workers
  <2>2. ordered' = CompiledOf(plan', file') /\ rules' = file'[ChnPath]
    BY <1>2 DEF Restart, Compiled, CompiledOf, ChnPath
  <2>3. phase' = "idle" /\ ~paused'
    BY <1>2 DEF Restart, EndApply
  <2> QED BY <2>1, <2>2, <2>3
          DEF LiveInv, PauseInv, ApplyLive, IdleLive, ReloadLive, Holding, Committing
<1>3. CASE BeginApply \/ ApplyStep
  BY <1>3, LiveApply
<1>4. ASSUME NEW t \in Tickers, TickStep(t) \/ \E s \in AllSubs : StartTick(t, s)
      PROVE  LiveInv'
  BY <1>4, LiveTick, LiveReload DEF TickStep
<1>5. CASE UNCHANGED vars
  BY <1>5 DEF vars, LiveInv, PauseInv, ApplyLive, IdleLive, ReloadLive, Reloading
<1> QED BY <1>1, <1>2, <1>3, <1>4, <1>5 DEF Next

LEMMA LiveInvHolds ==
  ASSUME ~FaultyReload, Reloaders = {} PROVE Spec => [](IInv /\ LiveInv)
BY LiveInit, LiveNext, IInvHolds, PTL DEF Spec

\* When nobody is half-way, the live policy and chnroute are those on disk, after
\* any applies, updates, failures and restarts: if reloads do not fail and no signal
\* or console call reloads between.
THEOREM LiveIsOnDisk ==
  ASSUME ~FaultyReload, Reloaders = {} PROVE Spec => []LiveFollowsDisk
<1>1. IInv /\ LiveInv => LiveFollowsDisk
  BY DEF LiveInv, IdleLive, Reloading, LiveFollowsDisk, Quiet, Holding, Committing, Compiled,
         CompiledOf, ChnPath
<1> QED BY <1>1, LiveInvHolds, PTL

\* A subscription update that reports success has its list live, under the same two
\* conditions.
THEOREM SuccessfulUpdateIsLive ==
  ASSUME ~FaultyReload, Reloaders = {} PROVE Spec => []SuccessIsLive
<1>1. ASSUME IInv, LiveInv, NEW t \in Tickers, tick[t].pc = "ok"
      PROVE  /\ tick[t].sub = Chn => rules = file[SubPath(t)]
             /\ SubPath(t) \in PathsOf(ModelSubs[ordered.rev]) =>
                  ordered.data[SubPath(t)] = file[SubPath(t)]
  <2>1. phase \notin Holding /\ Reloading = {}
    BY <1>1, PolicyApplyAssumption DEF IInv, LockInv, Reloading
  <2>2. ordered = CompiledOf(plan, file) /\ rules = file[ChnPath]
    BY <1>1, <2>1 DEF LiveInv, IdleLive
  <2>3. SubPath(t) \in Paths
    BY <1>1, Constants DEF IInv, TypeOK, Tick, SubPath
  <2> QED BY <2>2, <2>3 DEF CompiledOf, ChnPath, SubPath
<1>2. IInv /\ LiveInv => SuccessIsLive
  BY <1>1 DEF SuccessIsLive
<1> QED BY <1>2, LiveInvHolds, PTL
=============================================================================
