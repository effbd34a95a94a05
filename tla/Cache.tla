-------------------------------- MODULE Cache --------------------------------
(***************************************************************************)
(* The response cache of cmd/5gpn-dns/cache.go with its clock: TTL expiry,  *)
(* serve-stale within a grace period, sampled eviction at capacity, and the *)
(* epoch guard between Flush and resolutions that were already running.     *)
(* A response is abstracted to the expiry its answer TTLs gave it and the   *)
(* epoch it was stored in.                                                  *)
(***************************************************************************)
EXTENDS Integers, FiniteSets

CONSTANTS
  Keys,          \* cache keys: name, qtype, DO, CD
  Writers,       \* resolutions that captured an epoch and may put
  AnswerTTLs,    \* smallest TTL among the answer RRs, in seconds; 0 too
  TTLMin, TTLMax, \* DNS_TTL_MIN, DNS_TTL_MAX, in seconds
  Second,        \* clock ticks per second
  StaleGrace,    \* staleGrace, in ticks
  CacheMax,      \* Cache.max
  EvictSample,   \* evictOneLocked's sample size
  Horizon,       \* bound on the clock
  MaxEpoch,      \* bound on the number of flushes
  NoEntry

ASSUME CacheAssumption ==
  /\ AnswerTTLs \subseteq Nat
  /\ TTLMin \in Nat /\ TTLMax \in Nat /\ TTLMin <= TTLMax
  /\ Second \in Nat \ {0}
  /\ StaleGrace \in Nat
  /\ CacheMax \in Nat \ {0}
  /\ EvictSample \in Nat \ {0}
  /\ Horizon \in Nat /\ MaxEpoch \in Nat
  /\ NoEntry \notin Nat
  /\ NoEntry \notin [expiry : Nat, orig : Nat, put : Nat]

VARIABLES
  now,       \* Cache.now()
  m,         \* Cache.m
  epoch,     \* Cache.epoch
  held,      \* the epoch each writer captured before it resolved
  flushed,   \* history: when the last Flush happened
  served     \* history: the last answer handed out, NoEntry after a miss

cacheVars == <<now, m, epoch, held, flushed, served>>

\* orig and put are history: the expiry set at Put, and the epoch of that Put.
Entry == [expiry : Nat, orig : Nat, put : Nat]
Served == [how : {"hit", "stale"}, at : Nat, ttl : Nat, orig : Nat, base : Nat]

CacheTypeOK ==
  /\ now \in Nat
  /\ m \in [Keys -> Entry \cup {NoEntry}]
  /\ epoch \in Nat
  /\ held \in [Writers -> Nat \cup {NoEntry}]
  /\ flushed \in Nat
  /\ served \in Served \cup {NoEntry}

CacheInit ==
  /\ now = 0
  /\ m = [k \in Keys |-> NoEntry]
  /\ epoch = 0
  /\ held = [w \in Writers |-> NoEntry]
  /\ flushed = 0
  /\ served = NoEntry

-----------------------------------------------------------------------------
Cached == {k \in Keys : m[k] # NoEntry}
Unexpired(e) == now < e.expiry
Fresh == {k \in Cached : Unexpired(m[k])}
SmallerOf(a, b) == IF a <= b THEN a ELSE b

\* The TTL stored with an answer, in ticks: minAnswerTTL, TTLMin for NODATA.
ClampedTTL(ttl) ==
  Second * (IF ttl < TTLMin THEN TTLMin ELSE IF ttl > TTLMax THEN TTLMax ELSE ttl)

\* Resolvers capture the epoch before they load the rule snapshot.
Epoch(w) ==
  /\ held[w] = NoEntry
  /\ held' = [held EXCEPT ![w] = epoch]
  /\ UNCHANGED <<now, m, epoch, flushed, served>>

\* Defect: the victim is any entry, expired or not.
EvictAny(v) == v \in Cached

\* evictOneLocked deletes the first expired entry of a sample of the map, else
\* the first entry sampled.
Evictable(v) ==
  /\ v \in Cached
  /\ \/ v \notin Fresh
     \/ Cardinality(Fresh) >= SmallerOf(EvictSample, Cardinality(Cached))

NewEntry(ttl) ==
  [expiry |-> now + ClampedTTL(ttl), orig |-> now + ClampedTTL(ttl), put |-> epoch]

\* putLocked
PutLocked(k, ttl) ==
  IF Cardinality(Cached) >= CacheMax /\ m[k] = NoEntry
    THEN \E v \in Keys :
           /\ Evictable(v)
           /\ m' = [m EXCEPT ![v] = NoEntry, ![k] = NewEntry(ttl)]
    ELSE m' = [m EXCEPT ![k] = NewEntry(ttl)]

\* PutAtEpoch: a put whose epoch has passed is dropped.
PutAtEpoch(w, k, ttl) ==
  /\ held[w] # NoEntry
  /\ held' = [held EXCEPT ![w] = NoEntry]
  /\ IF held[w] = epoch THEN PutLocked(k, ttl) ELSE UNCHANGED m
  /\ UNCHANGED <<now, epoch, flushed, served>>

\* Defect: the remaining seconds are rounded up.
RemainingRoundedUp(e) == (e.expiry - now + Second - 1) \div Second

\* The TTL of a hit: the whole seconds left.
Remaining(e) == (e.expiry - now) \div Second

\* When the entry last became expired: at its TTL or at a later Flush.
StaleBase(e) == IF e.put = epoch THEN e.orig ELSE flushed

Answer(how, e, ttl) ==
  [how |-> how, at |-> now, ttl |-> ttl, orig |-> e.orig, base |-> StaleBase(e)]

\* Get: an expired entry is a miss but stays.
Get(k) ==
  /\ served' = IF k \in Fresh THEN Answer("hit", m[k], Remaining(m[k])) ELSE NoEntry
  /\ UNCHANGED <<now, m, epoch, held, flushed>>

StaleReplyTTL == 30

\* Defect: no grace period.
GetStaleForever(k) ==
  /\ served' = IF m[k] = NoEntry THEN NoEntry ELSE Answer("stale", m[k], StaleReplyTTL)
  /\ UNCHANGED <<now, m, epoch, held, flushed>>

\* GetStale: within the grace period serve, beyond it prune.
GetStale(k) ==
  /\ IF m[k] # NoEntry /\ now - m[k].expiry <= StaleGrace
       THEN /\ served' = Answer("stale", m[k], StaleReplyTTL)
            /\ UNCHANGED m
       ELSE /\ served' = NoEntry
            /\ m' = [m EXCEPT ![k] = NoEntry]
  /\ UNCHANGED <<now, epoch, held, flushed>>

\* Defect: a flushed entry is still fresh at the instant of the flush.
FlushLate ==
  /\ epoch < MaxEpoch
  /\ m' = [k \in Keys |-> IF m[k] = NoEntry THEN NoEntry
             ELSE [expiry |-> now + 1, orig |-> m[k].orig, put |-> m[k].put]]
  /\ epoch' = epoch + 1
  /\ flushed' = now
  /\ UNCHANGED <<now, held, served>>

\* Defect: the map is dropped, and with it the serve-stale answers.
FlushDrop ==
  /\ epoch < MaxEpoch
  /\ m' = [k \in Keys |-> NoEntry]
  /\ epoch' = epoch + 1
  /\ flushed' = now
  /\ UNCHANGED <<now, held, served>>

\* Flush sets every expiry to now, expired entries included.
Flush ==
  /\ epoch < MaxEpoch
  /\ m' = [k \in Keys |-> IF m[k] = NoEntry THEN NoEntry
             ELSE [expiry |-> now, orig |-> m[k].orig, put |-> m[k].put]]
  /\ epoch' = epoch + 1
  /\ flushed' = now
  /\ UNCHANGED <<now, held, served>>

ClockTick ==
  /\ now < Horizon
  /\ now' = now + 1
  /\ UNCHANGED <<m, epoch, held, flushed, served>>

CacheNext ==
  \/ ClockTick \/ Flush
  \/ \E k \in Keys : Get(k) \/ GetStale(k)
  \/ \E w \in Writers : Epoch(w) \/ \E k \in Keys, ttl \in AnswerTTLs : PutAtEpoch(w, k, ttl)

CacheSpec == CacheInit /\ [][CacheNext]_cacheVars

-----------------------------------------------------------------------------
(* Properties                                                                *)

\* An entry that Get would answer was put after the last Flush, by a resolution
\* that had captured its epoch after that Flush (cache.go:71-76, 296-303).
FreshIsCurrentEpoch == \A k \in Fresh : m[k].put = epoch

\* A hit never lives longer at the client than the answer's own TTL allowed,
\* whatever puts, flushes and evictions happened before it (cache.go:126-133).
HitWithinTTL ==
  served # NoEntry /\ served.how = "hit" => served.at + served.ttl * Second <= served.orig

\* A stale answer is at most staleGrace past the moment it last became expired:
\* its TTL or, if one came after its Put, the last Flush (cache.go:143-147, 305-311).
StaleWithinGrace ==
  served # NoEntry /\ served.how = "stale" => served.at - served.base <= StaleGrace

\* While the cache is no larger than an eviction sample, a live entry is dropped
\* only if no expired entry is left to drop (cache.go:260-267).
ExpiredEvictedFirst ==
  [][Cardinality(Cached) <= EvictSample =>
       \A k \in Fresh : m'[k] = NoEntry => Fresh = Cached]_cacheVars

\* The clocked cache implements the clockless one that the resolver relies on.
Abs == INSTANCE CacheAbs WITH
  state <- [k \in Keys |-> IF m[k] = NoEntry THEN "absent"
                           ELSE IF Unexpired(m[k]) THEN "fresh" ELSE "expired"]
ImplementsCacheAbs == Abs!Spec
=============================================================================
