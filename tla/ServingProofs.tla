---------------------------- MODULE ServingProofs ----------------------------
(***************************************************************************)
(* Parts of the serving path: the limiter of queries (RateLimit), the ranges   *)
(* of China's addresses (Chnroute), the settings of the upstream groups         *)
(* (Settings), the groups and their breakers (Upstream) and the choice between *)
(* the groups' replies (Arbitration).  They share no state, and each section    *)
(* is about one of them.                                                        *)
(***************************************************************************)
EXTENDS RateLimit, Chnroute, Settings, Upstream, Arbitration, LoopProofs, FiniteSetTheorems, TLAPS

-----------------------------------------------------------------------------
(* The sweep of idle buckets is unobservable, for every rate, burst, window   *)
(* and skew that leave a dropped bucket the time to fill up.  The invariant:   *)
(* a bucket both limiters hold is the same bucket, and one that only the        *)
(* limiter without a sweep holds has been idle for Cap + Skew, so it is full    *)
(* at any time a request can carry.                                           *)

IdleLong(s) == kept[s].last + Cap + Skew <= now

SameOrFull ==
  \A s \in DOMAIN kept :
    IF s \in DOMAIN buckets THEN buckets[s] = kept[s] ELSE IdleLong(s)

RlInv == RlTypeOK /\ SameOrFull

\* Refilling keeps a bucket a bucket, used no later than the time of the request or
\* than before (ratelimit.go:95).
LEMMA RefillType ==
  ASSUME NEW b \in Bucket, NEW t \in Nat
  PROVE  /\ Refill(b, t) \in Bucket
         /\ Refill(b, t).last = IF t > b.last THEN t ELSE b.last
  BY RateAssumption DEF Refill, Bucket, AtMost2

\* What a request finds and what it leaves are buckets (ratelimit.go:88).
LEMMA FoundType ==
  ASSUME NEW m, NEW s, NEW t \in Nat, s \in DOMAIN m => m[s] \in Bucket
  PROVE  /\ Found(m, s, t) \in Bucket
         /\ s \notin DOMAIN m => Found(m, s, t).last = t
         /\ s \in DOMAIN m => Found(m, s, t).last = IF t > m[s].last THEN t ELSE m[s].last
<1>1. CASE s \in DOMAIN m
  BY <1>1, RefillType DEF Found
<1>2. CASE s \notin DOMAIN m
  BY <1>2, RateAssumption DEF Found, Bucket
<1> QED BY <1>1, <1>2

\* Taking a token leaves a bucket with the same time (ratelimit.go:103).
LEMMA TakenType ==
  ASSUME NEW b \in Bucket
  PROVE  Taken(b) \in Bucket /\ Taken(b).last = b.last
  BY RateAssumption DEF Taken, Allowed, Bucket

\* A request finds the same bucket in both limiters (ratelimit.go:88-101).
LEMMA FoundSame ==
  ASSUME RlInv, NEW s \in Clients, NEW t \in Nat, t <= now, now <= t + Skew
  PROVE  Found(buckets, s, t) = Found(kept, s, t)
<1>1. CASE s \in DOMAIN buckets
  <2>1. s \in DOMAIN kept /\ buckets[s] = kept[s]
    BY <1>1 DEF RlInv, RlTypeOK, SameOrFull
  <2> QED BY <1>1, <2>1 DEF Found
<1>2. CASE s \notin DOMAIN kept
  BY <1>2 DEF Found, RlInv, RlTypeOK
<1>3. CASE s \in DOMAIN kept /\ s \notin DOMAIN buckets
  <2>1. kept[s] \in Bucket /\ kept[s].last + Cap + Skew <= now
    BY <1>3 DEF RlInv, RlTypeOK, SameOrFull, IdleLong
  <2>2. Refill(kept[s], t) = [credit |-> Cap, last |-> t]
    BY <2>1, RateAssumption DEF RlInv, RlTypeOK, Refill, Bucket, AtMost2
  <2> QED BY <1>3, <2>2 DEF Found
<1> QED BY <1>1, <1>2, <1>3

\* No limiter that drops idle buckets answers otherwise than one that keeps them.
LEMMA InvImpliesUnseen == RlInv => EvictionUnseen
<1> SUFFICES ASSUME RlInv, NEW s \in Clients, NEW back \in 0..Skew, now - back >= 0
             PROVE  Found(buckets, s, now - back) = Found(kept, s, now - back)
  BY DEF EvictionUnseen
<1>1. /\ now - back \in Nat /\ now - back <= now /\ now <= (now - back) + Skew
  BY RateAssumption DEF RlInv, RlTypeOK
<1> QED BY <1>1, FoundSame

\* The limiter starts with no bucket (newRateLimiter).
LEMMA RlInitInv == RlInit => RlInv
  BY RateAssumption DEF RlInit, RlInv, RlTypeOK, SameOrFull

\* A request changes only the bucket of its source, in both limiters alike.
LEMMA RlAllowInv ==
  ASSUME RlInv, NEW s \in Clients, NEW back \in 0..Skew, now - back >= 0, AllowAt(s, now - back)
  PROVE  RlInv'
<1> DEFINE t == now - back
<1> DEFINE b == Taken(Found(kept, s, t))
<1>1. t \in Nat /\ t <= now /\ now <= t + Skew /\ now' = now /\ now \in Nat
  BY RateAssumption DEF RlInv, RlTypeOK, AllowAt
<1>2. Found(buckets, s, t) = Found(kept, s, t)
  BY <1>1, FoundSame
<1>3. b \in Bucket /\ b.last <= now
  <2>1. s \in DOMAIN kept => kept[s] \in Bucket /\ kept[s].last <= now
    BY DEF RlInv, RlTypeOK
  <2>2. Found(kept, s, t) \in Bucket /\ Found(kept, s, t).last <= now
    BY <1>1, <2>1, FoundType
  <2> QED BY <2>2, TakenType
<1>4. kept' = [x \in DOMAIN kept \cup {s} |-> IF x = s THEN b ELSE kept[x]]
  BY DEF AllowAt, Put
<1>5. CASE buckets' = Put(buckets, s, Taken(Found(buckets, s, t))) /\ UNCHANGED lastSweep
  <2>1. buckets' = [x \in DOMAIN buckets \cup {s} |-> IF x = s THEN b ELSE buckets[x]]
    BY <1>2, <1>5 DEF Put
  <2>2. RlTypeOK'
    BY <1>1, <1>3, <1>4, <1>5, <2>1 DEF RlInv, RlTypeOK
  <2>3. SameOrFull'
    BY <1>1, <1>4, <2>1 DEF RlInv, RlTypeOK, SameOrFull, IdleLong
  <2> QED BY <2>2, <2>3 DEF RlInv
<1>6. CASE /\ buckets' = LET m == EvictLocked(t) IN Put(m, s, Taken(Found(m, s, t)))
           /\ lastSweep' = t
  <2> DEFINE m == EvictLocked(t)
  <2>1. /\ DOMAIN m = KeptAt(t) /\ KeptAt(t) \subseteq DOMAIN buckets
        /\ \A x \in DOMAIN m : m[x] = buckets[x]
    BY DEF EvictLocked, KeptAt
  <2>2. \A x \in DOMAIN buckets \ DOMAIN m :
          x \in DOMAIN kept /\ kept[x] \in Bucket /\ IdleLong(x)
    <3> SUFFICES ASSUME NEW x \in DOMAIN buckets, x \notin DOMAIN m
                 PROVE  x \in DOMAIN kept /\ kept[x] \in Bucket /\ IdleLong(x)
      OBVIOUS
    <3>1. x \in DOMAIN kept /\ kept[x] \in Bucket /\ buckets[x] = kept[x]
      BY DEF RlInv, RlTypeOK, SameOrFull
    <3>2. ~(t - buckets[x].last <= StaleAfter)
      BY <2>1 DEF KeptAt
    <3>3. StaleAfter \in Nat
      <4>1. Factor * Cap \in Nat
        BY RateAssumption
      <4> QED BY <4>1, RateAssumption DEF StaleAfter, AtMost2
    <3>4. kept[x].last + Cap + Skew <= now
      BY <1>1, <3>1, <3>2, <3>3, WindowAssumption, RateAssumption DEF Bucket
    <3> QED BY <3>1, <3>4 DEF IdleLong
  <2>3. Found(m, s, t) = Found(kept, s, t)
    <3>1. CASE s \in DOMAIN m
      BY <1>2, <2>1, <3>1 DEF Found
    <3>2. CASE s \notin DOMAIN buckets
      BY <1>2, <2>1, <3>2 DEF Found
    <3>3. CASE s \in DOMAIN buckets /\ s \notin DOMAIN m
      <4>1. s \in DOMAIN kept /\ kept[s] \in Bucket /\ kept[s].last + Cap + Skew <= now
        BY <2>2, <3>3 DEF IdleLong
      <4>2. Refill(kept[s], t) = [credit |-> Cap, last |-> t]
        BY <1>1, <4>1, RateAssumption DEF Refill, Bucket, AtMost2
      <4> QED BY <3>3, <4>1, <4>2 DEF Found
    <3> QED BY <3>1, <3>2, <3>3
  <2>4. buckets' = [x \in DOMAIN m \cup {s} |-> IF x = s THEN b ELSE buckets[x]]
    BY <1>6, <2>1, <2>3 DEF Put
  <2>5. RlTypeOK'
    BY <1>1, <1>3, <1>4, <1>6, <2>1, <2>4 DEF RlInv, RlTypeOK
  <2>6. SameOrFull'
    <3> SUFFICES ASSUME NEW x \in DOMAIN kept'
                 PROVE  (IF x \in DOMAIN buckets THEN buckets[x] = kept[x] ELSE IdleLong(x))'
      BY DEF SameOrFull
    <3>1. CASE x = s
      BY <1>4, <2>4, <3>1
    <3>2. CASE x # s /\ x \in DOMAIN m
      BY <1>4, <2>1, <2>4, <3>2 DEF RlInv, SameOrFull
    <3>3. CASE x # s /\ x \notin DOMAIN m
      <4>1. x \in DOMAIN kept /\ kept'[x] = kept[x] /\ x \notin DOMAIN buckets'
        BY <1>4, <2>4, <3>3
      <4>2. IdleLong(x)
        BY <2>2, <3>3, <4>1 DEF RlInv, SameOrFull
      <4> QED BY <1>1, <4>1, <4>2 DEF IdleLong
    <3> QED BY <3>1, <3>2, <3>3
  <2> QED BY <2>5, <2>6 DEF RlInv
<1> QED BY <1>5, <1>6 DEF AllowAt

\* Time only makes idle buckets idler.
LEMMA RlNextInv == RlInv /\ [RlNext]_rlVars => RlInv'
<1> SUFFICES ASSUME RlInv, [RlNext]_rlVars PROVE RlInv'
  OBVIOUS
<1>1. CASE RlNext
  <2>1. ASSUME NEW s \in Clients, NEW back \in 0..Skew, now - back >= 0, AllowAt(s, now - back)
        PROVE  RlInv'
    BY <2>1, RlAllowInv
  <2>2. CASE Pass
    <3>1. /\ now' = now + 1 /\ buckets' = buckets /\ kept' = kept /\ lastSweep' = lastSweep
          /\ now \in Nat
      BY <2>2 DEF Pass, RlInv, RlTypeOK
    <3>2. RlTypeOK'
      BY <3>1 DEF RlInv, RlTypeOK, Bucket
    <3>3. SameOrFull'
      <4>1. \A s \in DOMAIN kept : kept[s].last \in Nat
        BY DEF RlInv, RlTypeOK, Bucket
      <4> QED BY <3>1, <4>1, RateAssumption DEF RlInv, SameOrFull, IdleLong
    <3> QED BY <3>2, <3>3 DEF RlInv
  <2> QED BY <1>1, <2>1, <2>2 DEF RlNext
<1>2. CASE UNCHANGED rlVars
  BY <1>2 DEF rlVars, RlInv, RlTypeOK, SameOrFull, IdleLong
<1> QED BY <1>1, <1>2

\* Dropping idle buckets never changes an answer of the limiter (ratelimit.go:115).
THEOREM SweepUnobservable == RlSpec => []EvictionUnseen
<1>1. RlSpec => []RlInv
  BY RlInitInv, RlNextInv, PTL DEF RlSpec
<1> QED BY <1>1, InvImpliesUnseen, PTL

-----------------------------------------------------------------------------
(* For any address space, any prefixes and any number of lines: Contains is   *)
(* membership of a listed prefix.  Sorting keeps the addresses covered; each  *)
(* round of the merge keeps the ranges apart and in order and covers one more *)
(* range; so once the search has narrowed to the last range that does not      *)
(* start after the address, no other range can hold it.                       *)

InRanges(n) == \E j \in DOMAIN ranges : Within(n, ranges[j])
InSorted(n, k) == \E i \in 1..k : Within(n, sorted[i])

CrTypes ==
  /\ lines \in Seq(Prefix)
  /\ sorted \in Seq(IpRange) /\ ranges \in Seq(IpRange)
  /\ taken \in Nat /\ low \in Nat /\ high \in Nat
  /\ asked \in Addresses

\* The ranges do not touch and come in order.
ApartInv ==
  /\ \A j \in DOMAIN ranges : ranges[j].start <= ranges[j].end
  /\ \A j, k \in DOMAIN ranges : j < k => ranges[j].end < ranges[k].start

SortInv ==
  crPC = "merge" =>
    /\ \A i \in DOMAIN sorted : sorted[i].start <= sorted[i].end
    /\ InOrder(sorted)
    /\ \A n \in Addresses : Listed(n) <=> InSorted(n, Len(sorted))

MergeInv ==
  crPC = "merge" =>
    /\ taken \in 1..Len(sorted) /\ Len(ranges) >= 1
    /\ \A k \in taken..Len(sorted) : Last(ranges).start <= sorted[k].start
    /\ \A n \in Addresses : InRanges(n) <=> InSorted(n, taken)

EmptyInv == crPC = "sort" => ranges = <<>>

LoadedInv ==
  crPC \in {"ready", "search", "told"} => \A n \in Addresses : InRanges(n) <=> Listed(n)

SearchInv ==
  crPC = "search" =>
    /\ low <= high /\ high <= Len(ranges)
    /\ \A j \in 1..low : ranges[j].start <= asked
    /\ \A j \in (high + 1)..Len(ranges) : ranges[j].start > asked

CrInv == CrTypes /\ ApartInv /\ EmptyInv /\ SortInv /\ MergeInv /\ LoadedInv /\ SearchInv /\ LookupExact

-----------------------------------------------------------------------------
(* The range of a prefix                                                     *)

LEMMA TimesMonotone ==
  ASSUME NEW m \in Nat, NEW a \in Nat, NEW b \in Nat, a <= b
  PROVE  m * a <= m * b /\ m * a \in Nat /\ m * b \in Nat
<1>1. PICK d \in Nat : b = a + d
  <2>1. b - a \in Nat /\ b = a + (b - a)
    OBVIOUS
  <2> QED BY <2>1
<1>2. m * b = m * a + m * d /\ m * d \in Nat /\ m * a \in Nat
  BY <1>1
<1> QED BY <1>2

\* A block of s addresses that starts at a multiple of s ends inside the space.
LEMMA BlockFits ==
  ASSUME NEW s \in Nat, s >= 1, NEW t \in Nat, t % s = 0, NEW x \in Nat, x < t
  PROVE  x - (x % s) \in Nat /\ x - (x % s) + (s - 1) < t
<1> DEFINE k == x \div s
           m == t \div s
<1>1. k \in Nat /\ x = s * k + (x % s) /\ x % s \in 0..(s - 1)
  OBVIOUS
<1>2. m \in Nat /\ t = s * m + (t % s)
  OBVIOUS
<1>3. t = s * m /\ s * m \in Nat /\ s * k \in Nat
  BY <1>1, <1>2
<1>4. k < m
  <2> SUFFICES ASSUME m <= k PROVE FALSE
    BY <1>1, <1>2
  <2>1. s * m <= s * k
    BY <1>1, <1>2, TimesMonotone
  <2> QED BY <1>1, <1>3, <2>1
<1>5. s * (k + 1) <= s * m /\ s * (k + 1) = s * k + s
  <2>1. k + 1 <= m /\ k + 1 \in Nat
    BY <1>1, <1>2, <1>4
  <2>2. s * (k + 1) <= s * m
    BY <1>2, <2>1, TimesMonotone
  <2>3. s * (k + 1) = s * k + s
    BY <1>1
  <2> QED BY <2>2, <2>3
<1>6. x - (x % s) = s * k
  <2> DEFINE r == x % s
             b == s * k
  <2>1. x = b + r /\ r \in Int /\ b \in Nat
    BY <1>1, <1>3
  <2> HIDE DEF r, b
  <2>2. x - r = b
    BY <2>1
  <2> QED BY <2>2 DEF r, b
<1>7. s * k + (s - 1) < t
  <2> DEFINE b == s * k
             c == s * m
  <2>1. b + s <= c /\ t = c /\ b \in Nat /\ c \in Nat
    BY <1>3, <1>5
  <2> HIDE DEF b, c
  <2>2. b + (s - 1) < t
    BY <2>1
  <2> QED BY <2>2 DEF b
<1> QED
  <2> DEFINE d == x - (x % s)
  <2>1. d = s * k /\ s * k \in Nat /\ s * k + (s - 1) < t
    BY <1>3, <1>6, <1>7
  <2> HIDE DEF d, k
  <2>2. d \in Nat /\ d + (s - 1) < t
    BY <2>1
  <2> QED BY <2>2 DEF d

LEMMA RangeFacts ==
  ASSUME NEW p \in Prefix
  PROVE  RangeOf(p) \in IpRange /\ RangeOf(p).start <= RangeOf(p).end
<1>1. /\ p.ip \in Nat /\ p.ip < Space /\ p.size \in Nat /\ p.size >= 1
      /\ Space \in Nat /\ Space >= 1 /\ Space % p.size = 0
  <2>1. p.ip \in 0..(Space - 1) /\ p.size \in Sizes
    BY DEF Prefix, Addresses
  <2>2. Space \in Nat /\ Space >= 1 /\ p.size \in 1..Space
    <3>1. Space \in Nat \ {0} /\ Sizes \subseteq 1..Space
      BY ChnrouteAssumption, Zenon
    <3>2. p.size \in 1..Space
      BY <2>1, <3>1, Zenon
    <3>3. Space \in Nat /\ Space >= 1
      <4>1. Space \in Nat \ {0}
        BY <3>1
      <4> QED BY <4>1
    <3> QED BY <3>2, <3>3
  <2>3. Space % p.size = 0
    BY <2>1, ChnrouteAssumption, Zenon
  <2> QED BY <2>1, <2>2, <2>3
<1>2. Network(p) \in Nat /\ Network(p) + (p.size - 1) < Space
  BY <1>1, BlockFits DEF Network
<1>3. Network(p) <= Network(p) + (p.size - 1) /\ Network(p) + (p.size - 1) \in Nat
  BY <1>1, <1>2
<1> DEFINE e == IF p.size = Space THEN Space - 1 ELSE Network(p) + (p.size - 1)
<1>4. Network(p) \in Addresses /\ e \in Addresses /\ Network(p) <= e
  BY <1>1, <1>2, <1>3 DEF Addresses
<1> HIDE DEF e
<1>5. [start |-> Network(p), end |-> e] \in IpRange
  BY <1>4 DEF IpRange
<1>6. RangeOf(p) = [start |-> Network(p), end |-> e]
  BY DEF RangeOf, e
<1> QED BY <1>4, <1>5, <1>6

LEMMA RangeType ==
  ASSUME NEW r \in IpRange
  PROVE  r.start \in Nat /\ r.end \in Nat /\ r.start < Space /\ r.end < Space
  BY ChnrouteAssumption DEF IpRange, Addresses

LEMMA SpaceFacts == Space \in Nat /\ Space >= 1 /\ Lists \subseteq Seq(Prefix)
<1>1. Space \in Nat \ {0} /\ Lists \subseteq Seq(Prefix)
  BY ChnrouteAssumption, Zenon
<1>2. Space \in Nat \ {0}
  BY <1>1
<1>3. Space \in Nat /\ Space >= 1
  BY <1>2
<1> QED BY <1>1, <1>3

LEMMA SmallMod ==
  ASSUME NEW x \in Nat, NEW t \in Nat, x < t
  PROVE  x % t = x
<1> DEFINE k == x \div t
           r == x % t
<1>1. k \in Nat /\ r \in 0..(t - 1) /\ x = t * k + r
  OBVIOUS
<1> HIDE DEF k, r
<1>2. k = 0
  <2> SUFFICES ASSUME 1 <= k PROVE FALSE
    BY <1>1
  <2>1. t * 1 <= t * k /\ t * k \in Nat
    BY <1>1, TimesMonotone
  <2> QED BY <1>1, <2>1
<1>3. x = r
  BY <1>1, <1>2
<1> QED BY <1>3 DEF r

\* With the guard at address 0 the wrapping subtraction says what it should.
LEMMA JoinsFacts ==
  ASSUME NEW a \in IpRange, NEW r \in IpRange
  PROVE  Joins(a, r) <=> a.end + 1 >= r.start
<1>1. a.end \in Nat /\ r.start \in Nat /\ r.start < Space /\ Space \in Nat
  BY RangeType, SpaceFacts
<1>2. CASE r.start = 0
  BY <1>1, <1>2 DEF Joins
<1>3. CASE r.start # 0
  <2>1. r.start - 1 \in Nat /\ r.start - 1 < Space
    BY <1>1, <1>3
  <2>2. (r.start - 1) % Space = r.start - 1
    BY <1>1, <2>1, SmallMod
  <2>3. Joins(a, r) <=> a.end >= r.start - 1
    BY <1>3, <2>2, Zenon DEF Joins
  <2> QED BY <1>1, <2>3
<1> QED BY <1>2, <1>3

\* An extended range covers both, if r starts no earlier and no later than the gap.
LEMMA ExtendedFacts ==
  ASSUME NEW a \in IpRange, NEW r \in IpRange, Joins(a, r), a.start <= r.start
  PROVE  /\ Extended(a, r) \in IpRange /\ Extended(a, r).start = a.start
         /\ a.start <= a.end => Extended(a, r).start <= Extended(a, r).end
         /\ \A n \in Addresses : Within(n, Extended(a, r)) <=> Within(n, a) \/ Within(n, r)
<1>1. /\ a.start \in Nat /\ a.end \in Nat /\ r.start \in Nat /\ r.end \in Nat
      /\ a.end + 1 >= r.start
  BY RangeType, JoinsFacts
<1> DEFINE e == IF r.end > a.end THEN r.end ELSE a.end
<1>2. e \in Addresses /\ a.start \in Addresses /\ a.end <= e
  BY <1>1 DEF IpRange
<1>3. Extended(a, r) = [start |-> a.start, end |-> e]
  BY DEF Extended
<1>4. Extended(a, r) \in IpRange
  BY <1>2, <1>3 DEF IpRange
<1>5. ASSUME NEW n \in Addresses PROVE (a.start <= n /\ n <= e) <=> Within(n, a) \/ Within(n, r)
  <2>1. n \in Nat
    BY SpaceFacts DEF Addresses
  <2> QED BY <1>1, <2>1 DEF Within
<1>6. e \in Nat
  BY <1>1
<1> HIDE DEF e
<1> QED BY <1>1, <1>2, <1>3, <1>4, <1>5, <1>6 DEF Within
-----------------------------------------------------------------------------
(* The load                                                                  *)

\* What SortRanges makes of the lines, in the order p.
Arranged(p) == [i \in 1..Len(lines) |-> RangeOf(lines[p[i]])]

LEMMA ArrangedFacts ==
  ASSUME lines \in Seq(Prefix), NEW p \in Orders(Len(lines))
  PROVE  /\ Arranged(p) \in Seq(IpRange) /\ Len(Arranged(p)) = Len(lines)
         /\ \A i \in 1..Len(lines) : Arranged(p)[i].start <= Arranged(p)[i].end
         /\ \A n : Listed(n) <=> \E i \in 1..Len(lines) : Within(n, Arranged(p)[i])
<1>1. /\ p \in [1..Len(lines) -> 1..Len(lines)] /\ Len(lines) \in Nat
      /\ \A k \in 1..Len(lines) : \E i \in 1..Len(lines) : p[i] = k
  BY DEF Orders
<1>2. \A i \in 1..Len(lines) : lines[i] \in Prefix
  OBVIOUS
<1>3. \A i \in 1..Len(lines) :
        /\ Arranged(p)[i] = RangeOf(lines[p[i]]) /\ Arranged(p)[i] \in IpRange
        /\ Arranged(p)[i].start <= Arranged(p)[i].end
  BY <1>1, <1>2, RangeFacts DEF Arranged
<1>4. Arranged(p) \in Seq(IpRange) /\ Len(Arranged(p)) = Len(lines)
  <2>1. Arranged(p) \in [1..Len(lines) -> IpRange]
    BY <1>3 DEF Arranged
  <2> QED BY <1>1, <2>1
<1>5. ASSUME NEW n PROVE Listed(n) <=> \E i \in 1..Len(lines) : Within(n, Arranged(p)[i])
  <2>1. ASSUME NEW k \in DOMAIN lines, Within(n, RangeOf(lines[k]))
        PROVE  \E i \in 1..Len(lines) : Within(n, Arranged(p)[i])
    <3>0. k \in 1..Len(lines)
      BY <2>1
    <3>1. PICK i \in 1..Len(lines) : p[i] = k
      BY <1>1, <3>0
    <3> QED BY <1>3, <2>1, <3>1
  <2>2. ASSUME NEW i \in 1..Len(lines), Within(n, Arranged(p)[i]) PROVE Listed(n)
    <3>0. p[i] \in 1..Len(lines)
      BY <1>1
    <3>1. p[i] \in DOMAIN lines /\ Within(n, RangeOf(lines[p[i]]))
      BY <1>3, <2>2, <3>0
    <3> QED BY <3>1 DEF Listed
  <2> QED BY <2>1, <2>2 DEF Listed
<1> QED BY <1>3, <1>4, <1>5

LEMMA SortInvHolds == CrInv /\ SortRanges => CrInv'
<1> SUFFICES ASSUME CrInv, SortRanges PROVE CrInv'
  OBVIOUS
<1>1. lines \in Seq(Prefix) /\ lines' = lines /\ Len(lines) \in Nat /\ Len(lines) >= 1
  BY DEF CrInv, CrTypes, SortRanges
<1>2. PICK p \in Orders(Len(lines)) :
        InOrder(Arranged(p)) /\ sorted' = Arranged(p) /\ ranges' = <<Arranged(p)[1]>>
  BY DEF SortRanges, Arranged
<1>3. /\ sorted' \in Seq(IpRange) /\ Len(sorted') = Len(lines)
      /\ \A i \in 1..Len(lines) : sorted'[i].start <= sorted'[i].end
      /\ \A n : Listed(n) <=> \E i \in 1..Len(lines) : Within(n, sorted'[i])
  BY <1>1, <1>2, ArrangedFacts
<1>4. ranges' = <<sorted'[1]>> /\ sorted'[1] \in IpRange
  BY <1>1, <1>2, <1>3
<1>5. ranges' \in Seq(IpRange) /\ Len(ranges') = 1 /\ ranges'[1] = sorted'[1]
      /\ DOMAIN ranges' = 1..1 /\ Last(ranges)' = sorted'[1]
  BY <1>4 DEF Last
<1>6. taken' = 1 /\ crPC' = "merge" /\ UNCHANGED <<asked, low, high>>
  BY DEF SortRanges
<1>7. CrTypes'
  BY <1>1, <1>3, <1>5, <1>6 DEF CrInv, CrTypes
<1>8. ApartInv'
  BY <1>1, <1>3, <1>5 DEF ApartInv
<1>9. InOrder(sorted') /\ DOMAIN sorted' = 1..Len(lines)
  BY <1>2, <1>3
<1>10. SortInv'
  BY <1>1, <1>3, <1>9 DEF SortInv, Listed, InSorted
<1>11. MergeInv'
  <2>1. \A k \in 1..Len(lines) : sorted'[1].start <= sorted'[k].start
    BY <1>1, <1>9 DEF InOrder
  <2>2. \A n : InRanges(n)' <=> InSorted(n, 1)'
    BY <1>5 DEF InRanges, InSorted
  <2> QED BY <1>1, <1>3, <1>5, <1>6, <2>1, <2>2 DEF MergeInv
<1> QED BY <1>6, <1>7, <1>8, <1>10, <1>11
     DEF CrInv, EmptyInv, LoadedInv, SearchInv, LookupExact

LEMMA MergeInvHolds == CrInv /\ MergeRange => CrInv'
<1> SUFFICES ASSUME CrInv, MergeRange PROVE CrInv'
  OBVIOUS
<1> DEFINE r == sorted[taken + 1]
           a == Last(ranges)
           m == Len(ranges)
<1>1. /\ sorted \in Seq(IpRange) /\ ranges \in Seq(IpRange) /\ taken \in 1..Len(sorted)
      /\ m \in Nat /\ m >= 1 /\ taken + 1 \in 1..Len(sorted) /\ Len(sorted) \in Nat
      /\ \A k \in taken..Len(sorted) : a.start <= sorted[k].start
      /\ \A n \in Addresses : InRanges(n) <=> InSorted(n, taken)
      /\ crPC = "merge"
  BY DEF CrInv, CrTypes, MergeInv, MergeRange
<1>2. r \in IpRange /\ a \in IpRange /\ a = ranges[m] /\ a.start <= r.start
  BY <1>1 DEF Last
<1>3. /\ r.start \in Nat /\ r.end \in Nat /\ a.start \in Nat /\ a.end \in Nat /\ r.start <= r.end
  BY <1>1, <1>2, RangeType DEF CrInv, SortInv
<1>4. /\ \A j \in 1..m : ranges[j].start <= ranges[j].end /\ ranges[j] \in IpRange
      /\ \A j, k \in 1..m : j < k => ranges[j].end < ranges[k].start
  BY <1>1 DEF CrInv, ApartInv
<1>5. /\ taken' = taken + 1 /\ crPC' = "merge"
      /\ UNCHANGED <<lines, sorted, asked, low, high, found>>
  BY <1>1 DEF MergeRange
<1>6. \A k \in (taken + 1)..Len(sorted) : r.start <= sorted[k].start
  BY <1>1 DEF CrInv, SortInv, InOrder
<1>7. \A n : InSorted(n, taken + 1) <=> InSorted(n, taken) \/ Within(n, r)
  BY <1>1 DEF InSorted
<1>8. ASSUME ranges' \in Seq(IpRange), Len(ranges') >= 1, ApartInv',
             Last(ranges').start <= r.start,
             \A n \in Addresses : InRanges(n)' <=> InRanges(n) \/ Within(n, r)
      PROVE  CrInv'
  <2>1. CrTypes'
    BY <1>1, <1>5, <1>8 DEF CrInv, CrTypes
  <2>2. SortInv'
    BY <1>1, <1>5 DEF CrInv, SortInv, InSorted, Listed
  <2>3. \A k \in (taken + 1)..Len(sorted) : Last(ranges').start <= sorted[k].start
    <3>1. Len(ranges') \in 1..Len(ranges')
      BY <1>8
    <3>2. Last(ranges') \in IpRange
      BY <1>8, <3>1 DEF Last
    <3>3. Last(ranges').start \in Nat /\ \A k \in 1..Len(sorted) : sorted[k].start \in Nat
      BY <1>1, <3>2, RangeType
    <3> QED BY <1>1, <1>3, <1>6, <1>8, <3>3
  <2>4. \A n \in Addresses : InRanges(n)' <=> InSorted(n, taken + 1)
    BY <1>1, <1>7, <1>8
  <2>5. MergeInv'
    BY <1>1, <1>5, <1>8, <2>3, <2>4 DEF MergeInv, Last, InSorted
  <2> QED BY <1>5, <1>8, <2>1, <2>2, <2>5
       DEF CrInv, EmptyInv, LoadedInv, SearchInv, LookupExact
<1>9. CASE Joins(a, r)
  <2> DEFINE x == Extended(a, r)
  <2>1. /\ x \in IpRange /\ x.start = a.start /\ x.start <= x.end
        /\ \A n \in Addresses : Within(n, x) <=> Within(n, a) \/ Within(n, r)
    BY <1>1, <1>2, <1>4, <1>9, ExtendedFacts
  <2>2. ranges' = [ranges EXCEPT ![m] = x]
    BY <1>9 DEF MergeRange
  <2> HIDE DEF x
  <2>3. /\ ranges' \in Seq(IpRange) /\ Len(ranges') = m /\ DOMAIN ranges' = 1..m
        /\ \A j \in 1..m : ranges'[j] = IF j = m THEN x ELSE ranges[j]
    BY <1>1, <2>1, <2>2
  <2>4. ApartInv'
    <3>1. \A j \in 1..m : ranges'[j].start = ranges[j].start
      BY <1>2, <2>1, <2>3
    <3>2. \A j \in 1..m : j < m => ranges'[j] = ranges[j]
      <4>1. \A j \in 1..m : j < m => j # m
        BY <1>1
      <4> QED BY <2>3, <4>1
    <3>3. \A j, k \in 1..m : j < k => j < m
      BY <1>1
    <3>4. \A j \in 1..m : ranges'[j].start <= ranges'[j].end
      BY <1>4, <2>1, <2>3
    <3> QED BY <1>4, <2>3, <3>1, <3>2, <3>3, <3>4 DEF ApartInv
  <2>5. Last(ranges').start <= r.start
    <3>1. m \in 1..m
      BY <1>1
    <3>2. Last(ranges') = x
      BY <2>3, <3>1, Zenon DEF Last
    <3> QED BY <1>2, <2>1, <3>2
  <2>6. ASSUME NEW n \in Addresses PROVE InRanges(n)' <=> InRanges(n) \/ Within(n, r)
    <3>1. InRanges(n)' <=> \E j \in 1..m : Within(n, ranges'[j])
      BY <2>3 DEF InRanges
    <3>2. InRanges(n) <=> \E j \in 1..m : Within(n, ranges[j])
      BY <1>1 DEF InRanges
    <3>3. m \in 1..m /\ ranges'[m] = x /\ \A j \in 1..m : j # m => ranges'[j] = ranges[j]
      <4>1. m \in 1..m
        BY <1>1
      <4> QED BY <2>3, <4>1, Zenon
    <3>4. Within(n, x) <=> Within(n, ranges[m]) \/ Within(n, r)
      BY <1>2, <2>1
    <3>5. (\E j \in 1..m : Within(n, ranges'[j]))
            <=> (\E j \in 1..m : j # m /\ Within(n, ranges[j])) \/ Within(n, x)
      <4> HIDE DEF m
      <4> QED BY <3>3, Zenon
    <3>6. (\E j \in 1..m : Within(n, ranges[j]))
            <=> (\E j \in 1..m : j # m /\ Within(n, ranges[j])) \/ Within(n, ranges[m])
      <4> HIDE DEF m
      <4> QED BY <3>3, Zenon
    <3> QED BY <3>1, <3>2, <3>4, <3>5, <3>6, Zenon
  <2> QED BY <1>1, <1>8, <2>3, <2>4, <2>5, <2>6
<1>10. CASE ~Joins(a, r)
  <2>1. ranges' = Append(ranges, r)
    BY <1>10 DEF MergeRange
  <2>2. /\ ranges' \in Seq(IpRange) /\ Len(ranges') = m + 1 /\ DOMAIN ranges' = 1..(m + 1)
        /\ \A j \in 1..m : ranges'[j] = ranges[j]
        /\ ranges'[m + 1] = r
    BY <1>1, <1>2, <2>1
  <2>3. a.end < r.start
    BY <1>2, <1>3, <1>10, JoinsFacts
  <2>4. \A j \in 1..m : ranges[j].end < r.start
    <3> SUFFICES ASSUME NEW j \in 1..m, j # m PROVE ranges[j].end < r.start
      BY <1>2, <2>3
    <3>1. ranges[j].end < a.start /\ ranges[j].end \in Nat
      BY <1>1, <1>2, <1>4, RangeType
    <3> QED BY <1>2, <1>3, <3>1
  <2>5. ApartInv'
    <3>1. ASSUME NEW j \in 1..(m + 1) PROVE ranges'[j].start <= ranges'[j].end
      <4>1. CASE j = m + 1
        BY <1>3, <2>2, <4>1
      <4>2. CASE j # m + 1
        <5>1. j \in 1..m
          BY <1>1, <4>2
        <5>2. ranges'[j] = ranges[j] /\ ranges[j].start <= ranges[j].end
          BY <1>4, <2>2, <5>1
        <5> QED BY <5>2
      <4> QED BY <4>1, <4>2
    <3>2. ASSUME NEW j \in 1..(m + 1), NEW k \in 1..(m + 1), j < k
          PROVE  ranges'[j].end < ranges'[k].start
      <4>1. j \in 1..m /\ ranges'[j] = ranges[j]
        BY <1>1, <2>2, <3>2
      <4>2. CASE k = m + 1
        BY <2>2, <2>4, <4>1, <4>2
      <4>3. CASE k # m + 1
        <5>1. k \in 1..m /\ ranges'[k] = ranges[k]
          BY <1>1, <2>2, <4>3
        <5> QED BY <1>4, <3>2, <4>1, <5>1
      <4> QED BY <4>2, <4>3
    <3> QED BY <2>2, <3>1, <3>2 DEF ApartInv
  <2>6. Last(ranges').start <= r.start
    BY <1>3, <2>2 DEF Last
  <2>7. ASSUME NEW n \in Addresses PROVE InRanges(n)' <=> InRanges(n) \/ Within(n, r)
    <3>1. InRanges(n)' <=> \E j \in 1..(m + 1) : Within(n, ranges'[j])
      BY <2>2 DEF InRanges
    <3>2. InRanges(n) <=> \E j \in 1..m : Within(n, ranges[j])
      BY <1>1 DEF InRanges
    <3>3. \A j : j \in 1..(m + 1) <=> j \in 1..m \/ j = m + 1
      BY <1>1
    <3> QED BY <2>2, <3>1, <3>2, <3>3
  <2> QED BY <1>1, <1>8, <2>2, <2>5, <2>6, <2>7
<1> QED BY <1>9, <1>10
-----------------------------------------------------------------------------
(* The lookup                                                                *)

LEMMA InitHolds == CrInit => CrInv
<1> SUFFICES ASSUME CrInit PROVE CrInv
  OBVIOUS
<1>1. lines \in Seq(Prefix) /\ 0 \in Addresses
  BY SpaceFacts DEF CrInit, Addresses
<1> QED BY <1>1 DEF CrInit, CrInv, CrTypes, ApartInv, EmptyInv, SortInv, MergeInv, LoadedInv,
                    SearchInv, LookupExact

\* Steps of the load that end it, and the ends of a lookup.
LEMMA LoadEndHolds == CrInv /\ (NothingToLoad \/ LoadedRanges) => CrInv'
<1> SUFFICES ASSUME CrInv, NothingToLoad \/ LoadedRanges PROVE CrInv'
  OBVIOUS
<1>1. UNCHANGED <<lines, sorted, taken, ranges, asked, low, high, found>> /\ crPC' = "ready"
  BY DEF NothingToLoad, LoadedRanges
<1>2. \A n \in Addresses : InRanges(n) <=> Listed(n)
  <2>1. CASE NothingToLoad
    BY <2>1 DEF NothingToLoad, CrInv, EmptyInv, InRanges, Listed
  <2>2. CASE LoadedRanges
    BY <2>2 DEF LoadedRanges, CrInv, SortInv, MergeInv
  <2> QED BY <2>1, <2>2
<1>3. CrTypes' /\ ApartInv'
  BY <1>1 DEF CrInv, CrTypes, ApartInv
<1> QED BY <1>1, <1>2, <1>3 DEF CrInv, EmptyInv, SortInv, MergeInv, LoadedInv, SearchInv,
                                LookupExact, InRanges, Listed

LEMMA AskHolds == CrInv /\ ((\E n \in Addresses : Contains(n)) \/ ContainsReturns) => CrInv'
<1> SUFFICES ASSUME CrInv, (\E n \in Addresses : Contains(n)) \/ ContainsReturns PROVE CrInv'
  OBVIOUS
<1>1. /\ UNCHANGED <<lines, sorted, taken, ranges>> /\ crPC \in {"ready", "told"}
      /\ crPC' \in {"search", "ready"} /\ asked' \in Addresses /\ low' = 0
      /\ high' \in Nat /\ (crPC' = "search" => high' = Len(ranges))
  <2>1. 0 \in Addresses /\ Len(ranges) \in Nat
    BY SpaceFacts DEF Addresses, CrInv, CrTypes
  <2> QED BY <2>1 DEF Contains, ContainsReturns
<1>2. CrTypes' /\ ApartInv'
  BY <1>1 DEF CrInv, CrTypes, ApartInv
<1>3. LoadedInv'
  BY <1>1 DEF CrInv, LoadedInv, InRanges, Listed
<1>4. SearchInv'
  <2> SUFFICES ASSUME crPC' = "search"
               PROVE  /\ low' <= high' /\ high' <= Len(ranges')
                      /\ \A j \in 1..low' : ranges'[j].start <= asked'
                      /\ \A j \in (high' + 1)..Len(ranges') : ranges'[j].start > asked'
    BY DEF SearchInv
  <2>1. high' = Len(ranges) /\ ranges' = ranges /\ low' = 0
    BY <1>1
  <2>2. Len(ranges) \in Nat
    BY <1>1, <2>1
  <2>3. 1..0 = {} /\ (Len(ranges) + 1)..Len(ranges) = {}
    BY <2>2
  <2> QED BY <2>1, <2>2, <2>3
<1> QED BY <1>1, <1>2, <1>3, <1>4 DEF CrInv, EmptyInv, SortInv, MergeInv, LookupExact

LEMMA HalveHolds == CrInv /\ Halve => CrInv'
<1> SUFFICES ASSUME CrInv, Halve PROVE CrInv'
  OBVIOUS
<1> DEFINE h == (low + high) \div 2
           m == Len(ranges)
<1>1. /\ low \in Nat /\ high \in Nat /\ low < high /\ high <= m /\ m \in Nat
      /\ asked \in Nat /\ ranges \in Seq(IpRange) /\ crPC = "search"
      /\ \A j \in 1..low : ranges[j].start <= asked
      /\ \A j \in (high + 1)..m : ranges[j].start > asked
  BY SpaceFacts DEF CrInv, CrTypes, SearchInv, Halve, Addresses
<1>2. h \in Nat /\ low <= h /\ h < high /\ h + 1 \in 1..m
  BY <1>1
<1>3. \A j \in 1..m : ranges[j].start \in Nat /\ ranges[j].end \in Nat
  BY <1>1, RangeType
<1>4. \A j, k \in 1..m : j <= k => ranges[j].start <= ranges[k].start
  <2> SUFFICES ASSUME NEW j \in 1..m, NEW k \in 1..m, j < k
               PROVE  ranges[j].start <= ranges[k].start
    BY <1>3
  <2>1. ranges[j].start <= ranges[j].end /\ ranges[j].end < ranges[k].start
    BY <1>1 DEF CrInv, ApartInv
  <2> QED BY <1>3, <2>1
<1>5. UNCHANGED <<crPC, lines, sorted, taken, ranges, asked, found>>
  BY DEF Halve
<1>6. CASE ranges[h + 1].start > asked
  <2>1. high' = h /\ low' = low
    BY <1>6 DEF Halve
  <2> HIDE DEF h
  <2>2. \A j \in (h + 1)..m : ranges[j].start > asked
    <3> SUFFICES ASSUME NEW j \in (h + 1)..m PROVE ranges[j].start > asked
      OBVIOUS
    <3>1. j \in 1..m /\ h + 1 <= j
      BY <1>2
    <3>2. ranges[h + 1].start <= ranges[j].start
      BY <1>2, <1>4, <3>1
    <3> QED BY <1>1, <1>2, <1>3, <1>6, <3>1, <3>2
  <2>3. SearchInv' /\ high' \in Nat
    BY <1>1, <1>2, <1>5, <2>1, <2>2 DEF SearchInv
  <2> QED BY <1>1, <1>5, <2>1, <2>3 DEF CrInv, CrTypes, ApartInv, EmptyInv, SortInv, MergeInv,
                                LoadedInv, LookupExact, InRanges, Listed
<1>7. CASE ~(ranges[h + 1].start > asked)
  <2>1. low' = h + 1 /\ high' = high
    BY <1>7 DEF Halve
  <2> HIDE DEF h
  <2>2. \A j \in 1..(h + 1) : ranges[j].start <= asked
    <3> SUFFICES ASSUME NEW j \in 1..(h + 1) PROVE ranges[j].start <= asked
      OBVIOUS
    <3>1. j \in 1..m /\ j <= h + 1
      BY <1>1, <1>2
    <3>2. ranges[j].start <= ranges[h + 1].start
      BY <1>2, <1>4, <3>1
    <3> QED BY <1>1, <1>2, <1>3, <1>7, <3>1, <3>2
  <2>3. SearchInv' /\ low' \in Nat
    BY <1>1, <1>2, <1>5, <2>1, <2>2 DEF SearchInv
  <2> QED BY <1>1, <1>5, <2>1, <2>3 DEF CrInv, CrTypes, ApartInv, EmptyInv, SortInv, MergeInv,
                                LoadedInv, LookupExact, InRanges, Listed
<1> QED BY <1>6, <1>7

LEMMA TellHolds == CrInv /\ Tell => CrInv'
<1> SUFFICES ASSUME CrInv, Tell PROVE CrInv'
  OBVIOUS
<1> DEFINE m == Len(ranges)
<1>1. /\ low \in Nat /\ low <= m /\ m \in Nat /\ asked \in Addresses /\ asked \in Nat
      /\ ranges \in Seq(IpRange) /\ crPC = "search"
      /\ \A j \in 1..low : ranges[j].start <= asked
      /\ \A j \in (low + 1)..m : ranges[j].start > asked
  <2>1. low \in Nat /\ high \in Nat /\ asked \in Addresses /\ ranges \in Seq(IpRange)
    BY DEF CrInv, CrTypes
  <2>2. asked \in Nat
    BY <2>1, SpaceFacts DEF Addresses
  <2>3. m \in Nat
    BY <2>1, LenProperties
  <2>4. crPC = "search" /\ low >= high
    BY <2>1 DEF Tell
  <2>5. /\ low <= high /\ high <= m
        /\ \A j \in 1..low : ranges[j].start <= asked
        /\ \A j \in (high + 1)..m : ranges[j].start > asked
    BY <2>4 DEF CrInv, SearchInv
  <2>6. low = high
    BY <2>1, <2>4, <2>5
  <2> QED BY <2>1, <2>2, <2>3, <2>4, <2>5, <2>6
<1>2. \A j \in 1..m : ranges[j].start \in Nat /\ ranges[j].end \in Nat
  BY <1>1, RangeType
<1>3. /\ UNCHANGED <<lines, sorted, taken, ranges, asked, low, high>> /\ crPC' = "told"
      /\ found' = (low > 0 /\ asked <= ranges[low].end)
  BY DEF Tell
<1>4. InRanges(asked) <=> (low > 0 /\ asked <= ranges[low].end)
  <2>1. ASSUME low > 0, asked <= ranges[low].end PROVE InRanges(asked)
    <3>1. low \in 1..m /\ low \in 1..low
      BY <1>1, <2>1
    <3> QED BY <1>1, <2>1, <3>1 DEF InRanges, Within
  <2>2. ASSUME NEW j \in 1..m, Within(asked, ranges[j]) PROVE low > 0 /\ asked <= ranges[low].end
    <3>1. j <= low
      <4> SUFFICES ASSUME j > low PROVE FALSE
        BY <1>1
      <4>1. j \in (low + 1)..m
        BY <1>1
      <4> QED BY <1>1, <1>2, <2>2, <4>1 DEF Within
    <3>2. low \in 1..m /\ low \in 1..low
      BY <1>1, <3>1
    <3>3. CASE j = low
      BY <2>2, <3>2, <3>3 DEF Within
    <3>4. CASE j < low
      <4>1. ranges[j].end < ranges[low].start /\ ranges[low].start <= asked
        BY <1>1, <3>2, <3>4 DEF CrInv, ApartInv
      <4> QED BY <1>1, <1>2, <2>2, <3>2, <4>1 DEF Within
    <3> QED BY <1>1, <3>1, <3>3, <3>4
  <2> QED BY <1>1, <2>1, <2>2 DEF InRanges
<1>5. InRanges(asked) <=> Listed(asked)
  BY <1>1 DEF CrInv, LoadedInv
<1>6. LookupExact'
  <2>1. found' <=> Listed(asked)
    BY <1>3, <1>4, <1>5
  <2> QED BY <1>3, <2>1 DEF LookupExact, Listed
<1>7. LoadedInv'
  BY <1>1, <1>3 DEF CrInv, LoadedInv, InRanges, Listed
<1> QED BY <1>1, <1>3, <1>6, <1>7 DEF CrInv, CrTypes, ApartInv, EmptyInv, SortInv, MergeInv, SearchInv

LEMMA NextHolds == CrInv /\ [CrNext]_crVars => CrInv'
<1>1. CrInv /\ UNCHANGED crVars => CrInv'
  BY DEF crVars, CrInv, CrTypes, ApartInv, EmptyInv, SortInv, MergeInv, LoadedInv, SearchInv,
         LookupExact, InRanges, InSorted, Listed
<1> QED BY <1>1, SortInvHolds, MergeInvHolds, LoadEndHolds, AskHolds, HalveHolds, TellHolds
     DEF CrNext

\* Contains is membership of a listed prefix, for every list and every address: no
\* nesting, repetition, order or end of the address space misleads the merge or the
\* search.
THEOREM LookupIsMembership == CrSpec => []LookupExact
<1>1. CrInv => LookupExact
  BY DEF CrInv
<1> QED BY <1>1, InitHolds, NextHolds, PTL DEF CrSpec

-----------------------------------------------------------------------------
(* The settings of the upstream groups, one call at a time.  Between the calls *)
(* the live groups are what the replies announced; during one they are that, or *)
(* what the reply will announce; and what the files hold is what was announced  *)
(* as kept, so a start brings that back.                                       *)

IsGroup(g) == g = [ups |-> g.ups, ecs |-> g.ecs]
IsCall(x) ==
  /\ x = [kind |-> x.kind, at |-> x.at, ups |-> x.ups, ecs |-> x.ecs, group |-> x.group]
  /\ x.group \in 0..MaxCalls

AllGroups(gs) == gs = [c \in 0..MaxCalls |-> gs[c]] /\ \A c \in 0..MaxCalls : IsGroup(gs[c])
ToldBoth(t) == t = [live |-> t.live, kept |-> t.kept] /\ IsGroup(t.live) /\ IsGroup(t.kept)

Loaded == [ups |-> LoadUpstreamsFile, ecs |-> LoadECS]

\* What a call under way has done so far.
CallInv(c, x, gs, used, t) ==
  /\ x.at \in {"building", "carrying", "swapping", "savingUpstreams"} =>
       x.kind = "upstreams" /\ ValidUpstreams(x.ups) /\ x.ups # NoFile
  /\ x.at \in {"setting", "savingECS"} => x.ecs \in Subnets /\ x.group = used
  /\ x.at = "carrying" => x.group = used /\ gs[c].ups = x.ups
  /\ x.at = "swapping" => gs[c] = [ups |-> x.ups, ecs |-> t.live.ecs]
  /\ x.at = "savingUpstreams" => used = c /\ gs[c] = [ups |-> x.ups, ecs |-> t.live.ecs]
  /\ x.at = "savingECS" => gs[used] = [ups |-> t.live.ups, ecs |-> x.ecs]
  /\ used = c => x.at \in {"savingUpstreams", "done"}

\* The groups that a call has changed are not announced before it ends.
LiveInv(cs, gs, used, t) ==
  gs[used] = t.live \/ \E c \in Puts : cs[c].at \in {"savingUpstreams", "savingECS"}

StInv ==
  /\ AllGroups(groups) /\ ToldBoth(told) /\ inUse \in 0..MaxCalls
  /\ calls = [c \in Puts |-> calls[c]]
  /\ told.kept = Loaded
  /\ \A c, d \in Busy : c = d
  /\ \A c \in Puts : IsCall(calls[c]) /\ CallInv(c, calls[c], groups, inUse, told)
  /\ LiveInv(calls, groups, inUse, told)

\* A step of the only call under way.
LEMMA OneCall ==
  ASSUME StInv, NEW c \in Puts, NEW x, IsCall(x), calls' = [calls EXCEPT ![c] = x],
         \A d \in Puts : d # c => calls[d].at \in {"new", "done"},
         AllGroups(groups'), ToldBoth(told'), told'.kept = Loaded', inUse' \in {inUse, c},
         CallInv(c, x, groups', inUse', told'),
         \/ groups'[inUse'] = told'.live
         \/ x.at \in {"savingUpstreams", "savingECS"}
  PROVE  StInv'
<1>1. /\ calls' = [d \in Puts |-> calls'[d]] /\ calls'[c] = x
      /\ \A d \in Puts : d # c => calls'[d] = calls[d]
  BY DEF StInv
<1>2. inUse' \in 0..MaxCalls
  BY DEF StInv, Puts
<1>3. \A d, e \in Busy' : d = e
  BY <1>1 DEF Busy
<1>4. ASSUME NEW d \in Puts, d # c
      PROVE  IsCall(calls'[d]) /\ CallInv(d, calls'[d], groups', inUse', told')
  <2>1. IsCall(calls[d]) /\ CallInv(d, calls[d], groups, inUse, told)
    BY DEF StInv
  <2> QED BY <1>1, <1>4, <2>1 DEF CallInv
<1>5. LiveInv(calls', groups', inUse', told')
  BY <1>1 DEF LiveInv
<1> QED BY <1>1, <1>2, <1>3, <1>4, <1>5 DEF StInv

\* With a call under way there is no other; while one starts there is none.
LEMMA OnlyCall ==
  ASSUME StInv, MaxBusy = 1, NEW c \in Puts,
         calls[c].at \notin {"new", "done"} \/ Cardinality(Busy) < MaxBusy
  PROVE  \A d \in Puts : d # c => calls[d].at \in {"new", "done"}
<1>1. CASE calls[c].at \notin {"new", "done"}
  BY <1>1 DEF StInv, Busy
<1>2. CASE Cardinality(Busy) < MaxBusy
  <2>1. IsFiniteSet(Puts)
    <3>1. 1 \in Int /\ MaxCalls \in Int
      BY SettingsAssumption
    <3> QED BY <3>1, FS_Interval DEF Puts
  <2>2. IsFiniteSet(Busy)
    BY <2>1, FS_Subset DEF Busy
  <2>3. Cardinality(Busy) = 0
    BY <1>2, <2>2, FS_CardinalityType
  <2>4. Busy = {}
    BY <2>2, <2>3, FS_EmptySet
  <2> QED BY <2>4 DEF Busy
<1> QED BY <1>1, <1>2

\* The shapes that the updates of a record keep.
LEMMA GroupSet ==
  ASSUME NEW gs, AllGroups(gs), NEW c \in 0..MaxCalls, NEW g, IsGroup(g)
  PROVE  /\ AllGroups([gs EXCEPT ![c] = g]) /\ [gs EXCEPT ![c] = g][c] = g
         /\ \A d \in 0..MaxCalls : d # c => [gs EXCEPT ![c] = g][d] = gs[d]
BY DEF AllGroups

LEMMA CallMoved ==
  ASSUME NEW x, IsCall(x), NEW at
  PROVE  LET y == [x EXCEPT !.at = at] IN
         /\ IsCall(y) /\ y.at = at /\ y.kind = x.kind /\ y.ups = x.ups /\ y.ecs = x.ecs
         /\ y.group = x.group
<1> DEFINE y == [x EXCEPT !.at = at]
<1>1. y = [kind |-> x.kind, at |-> at, ups |-> x.ups, ecs |-> x.ecs, group |-> x.group]
  BY DEF IsCall
<1> HIDE DEF y
<1>2. /\ y.at = at /\ y.kind = x.kind /\ y.ups = x.ups /\ y.ecs = x.ecs /\ y.group = x.group
  BY <1>1
<1>3. IsCall(y)
  BY <1>1, <1>2 DEF IsCall
<1> QED BY <1>2, <1>3 DEF y

LEMMA CallHolds ==
  ASSUME NEW x, IsCall(x), NEW at, NEW group
  PROVE  [x EXCEPT !.at = at, !.group = group]
           = [kind |-> x.kind, at |-> at, ups |-> x.ups, ecs |-> x.ecs, group |-> group]
<1> DEFINE y == [x EXCEPT !.at = at]
           z == [y EXCEPT !.group = group]
<1>1. IsCall(y) /\ y.at = at /\ y.kind = x.kind /\ y.ups = x.ups /\ y.ecs = x.ecs
  BY CallMoved
<1>2. [x EXCEPT !.at = at, !.group = group] = z
  OBVIOUS
<1> HIDE DEF y
<1>3. z = [kind |-> y.kind, at |-> y.at, ups |-> y.ups, ecs |-> y.ecs, group |-> group]
  BY <1>1 DEF IsCall
<1> HIDE DEF z
<1> QED BY <1>1, <1>2, <1>3

LEMMA AcceptStep ==
  ASSUME StInv, MaxBusy = 1, NEW c \in Puts,
         \/ \E ask \in UpstreamAsks : SetUpstreams(c, ask)
         \/ \E raw \in SubnetAsks : SetChinaECS(c, raw)
  PROVE  StInv'
<1>1. ASSUME NEW x, Accept(c, x), IsCall(x), UNCHANGED <<groups, inUse, upsFile, ecsFile, told>>,
             x.at \in {"building", "setting", "done"},
             x.at = "building" => x.kind = "upstreams" /\ ValidUpstreams(x.ups) /\ x.ups # NoFile,
             x.at = "setting" => x.ecs \in Subnets /\ x.group = inUse
      PROVE  StInv'
  <2>1. calls[c].at = "new" /\ Cardinality(Busy) < MaxBusy /\ calls' = [calls EXCEPT ![c] = x]
    BY <1>1 DEF Accept
  <2>2. \A d \in Puts : d # c => calls[d].at \in {"new", "done"}
    BY <2>1, OnlyCall
  <2>3. groups[inUse] = told.live
    BY <2>1, <2>2 DEF StInv, LiveInv
  <2>4. CallInv(c, calls[c], groups, inUse, told)
    BY DEF StInv
  <2>5. CallInv(c, x, groups', inUse', told')
    BY <1>1, <2>1, <2>4 DEF CallInv
  <2>6. Loaded' = Loaded /\ AllGroups(groups') /\ ToldBoth(told') /\ told'.kept = Loaded
    BY <1>1 DEF Loaded, LoadUpstreamsFile, LoadECS, StInv
  <2> QED BY <1>1, <2>1, <2>2, <2>3, <2>5, <2>6, OneCall
<1>2. ASSUME NEW ask \in UpstreamAsks, SetUpstreams(c, ask) PROVE StInv'
  <2> DEFINE ups == Normalized(ask)
             at == IF ValidUpstreams(ups) THEN "building" ELSE "done"
             x == [kind |-> "upstreams", at |-> at, ups |-> ups, ecs |-> "off", group |-> 0]
  <2>1. Accept(c, x) /\ UNCHANGED <<groups, inUse, upsFile, ecsFile, told>>
    BY <1>2 DEF SetUpstreams
  <2>2. ups # NoFile /\ 0 \in 0..MaxCalls
    BY SettingsAssumption
  <2>3. at \in {"building", "done"} /\ (at = "building" => ValidUpstreams(ups))
    OBVIOUS
  <2> HIDE DEF at, ups
  <2>4. x.at = at /\ x.kind = "upstreams" /\ x.ups = ups /\ IsCall(x)
    BY <2>2 DEF IsCall
  <2> HIDE DEF x
  <2> QED BY <1>1, <2>1, <2>2, <2>3, <2>4
<1>3. ASSUME NEW raw \in SubnetAsks, SetChinaECS(c, raw) PROVE StInv'
  <2>1. CASE ParseECS(raw) = Bad
    <3> DEFINE x == [NewCall EXCEPT !.at = "done"]
    <3>1. Accept(c, x) /\ UNCHANGED <<groups, inUse, upsFile, ecsFile, told>>
      BY <1>3, <2>1 DEF SetChinaECS
    <3>2. IsCall(x) /\ x.at = "done"
      BY SettingsAssumption DEF IsCall, NewCall
    <3> HIDE DEF x
    <3> QED BY <1>1, <3>1, <3>2
  <2>2. CASE ParseECS(raw) # Bad
    <3> DEFINE x == [kind |-> "ecs", at |-> "setting", ups |-> NoFile, ecs |-> ParseECS(raw),
                     group |-> inUse]
    <3>1. Accept(c, x) /\ UNCHANGED <<groups, inUse, upsFile, ecsFile, told>>
      BY <1>3, <2>2 DEF SetChinaECS
    <3>2. ParseECS(raw) \in Subnets
      BY <2>2 DEF ParseECS, Subnets, Bad
    <3>3. IsCall(x) /\ x.at = "setting" /\ x.ecs \in Subnets /\ x.group = inUse
      BY <3>2 DEF IsCall, StInv
    <3> HIDE DEF x
    <3> QED BY <1>1, <3>1, <3>3
  <2> QED BY <2>1, <2>2
<1> QED BY <1>2, <1>3

LEMMA SwapSteps ==
  ASSUME StInv, MaxBusy = 1, NEW c \in Puts,
         BuildGroups(c) \/ Carry(c) \/ Swap(c) \/ SaveUpstreams(c)
  PROVE  StInv'
<1> DEFINE x == calls[c]
<1>0. /\ x.at \in {"building", "carrying", "swapping", "savingUpstreams"} /\ IsCall(x)
      /\ CallInv(c, x, groups, inUse, told) /\ c \in 0..MaxCalls /\ c # 0
      /\ AllGroups(groups) /\ ToldBoth(told) /\ told.kept = Loaded /\ inUse \in 0..MaxCalls
  BY DEF BuildGroups, Carry, Swap, SaveUpstreams, StInv, Puts
<1>1. \A d \in Puts : d # c => calls[d].at \in {"new", "done"}
  BY <1>0, OnlyCall
<1>2. x.at # "savingUpstreams" => groups[inUse] = told.live /\ inUse # c
  BY <1>0, <1>1 DEF StInv, LiveInv, CallInv
<1>3. x.kind = "upstreams" /\ ValidUpstreams(x.ups) /\ x.ups # NoFile
  BY <1>0 DEF CallInv
<1>4. CASE BuildGroups(c)
  <2> DEFINE y == [kind |-> x.kind, at |-> "carrying", ups |-> x.ups, ecs |-> x.ecs, group |-> inUse]
             g == [ups |-> x.ups, ecs |-> "off"]
  <2>1. /\ groups' = [groups EXCEPT ![c] = g] /\ x.at = "building"
        /\ UNCHANGED <<inUse, upsFile, ecsFile, told>>
        /\ calls' = [calls EXCEPT ![c] = [x EXCEPT !.at = "carrying", !.group = inUse]]
    BY <1>4 DEF BuildGroups, StInv
  <2>2. [x EXCEPT !.at = "carrying", !.group = inUse] = y
    BY <1>0, CallHolds
  <2>3. IsCall(y) /\ y.at = "carrying" /\ y.kind = x.kind /\ y.ups = x.ups /\ y.group = inUse
    BY <1>0 DEF IsCall
  <2>4. IsGroup(g) /\ g.ups = x.ups
    BY DEF IsGroup
  <2>5. calls' = [calls EXCEPT ![c] = y]
    BY <2>1, <2>2
  <2> HIDE DEF y, g, x
  <2>6. AllGroups(groups') /\ groups'[c] = g /\ groups'[inUse] = groups[inUse]
    <3>1. inUse # c
      BY <1>2, <2>1
    <3>2. AllGroups([groups EXCEPT ![c] = g]) /\ [groups EXCEPT ![c] = g][c] = g
      BY <1>0, <2>4, GroupSet
    <3>3. [groups EXCEPT ![c] = g][inUse] = groups[inUse]
      BY <1>0, <3>1 DEF AllGroups
    <3> QED BY <2>1, <3>2, <3>3
  <2>7. CallInv(c, y, groups', inUse', told')
    BY <1>2, <1>3, <2>1, <2>3, <2>4, <2>6 DEF CallInv
  <2>8. Loaded' = Loaded
    BY <2>1 DEF Loaded, LoadUpstreamsFile, LoadECS
  <2> QED BY <1>0, <1>1, <1>2, <2>1, <2>3, <2>5, <2>6, <2>7, <2>8, OneCall
<1>5. CASE Carry(c)
  <2> DEFINE y == [x EXCEPT !.at = "swapping"]
             g == [ups |-> x.ups, ecs |-> told.live.ecs]
  <2>1. /\ groups' = [groups EXCEPT ![c].ecs = groups[x.group].ecs] /\ x.at = "carrying"
        /\ UNCHANGED <<inUse, upsFile, ecsFile, told>>
        /\ calls' = [calls EXCEPT ![c] = y]
    BY <1>5 DEF Carry, To, StInv
  <2>2. groups[c].ups = x.ups /\ groups[x.group].ecs = told.live.ecs /\ IsGroup(groups[c])
    BY <1>0, <1>2, <2>1 DEF CallInv, AllGroups
  <2>3. groups' = [groups EXCEPT ![c] = g]
    <3>1. groups' = [groups EXCEPT ![c].ecs = told.live.ecs]
      BY <2>1, <2>2
    <3>2. [groups EXCEPT ![c].ecs = told.live.ecs]
            = [groups EXCEPT ![c] = [ups |-> groups[c].ups, ecs |-> told.live.ecs]]
      <4>1. [groups[c] EXCEPT !.ecs = told.live.ecs]
              = [ups |-> groups[c].ups, ecs |-> told.live.ecs]
        BY <2>2 DEF IsGroup
      <4> QED BY <4>1
    <3> QED BY <2>2, <3>1, <3>2
  <2>4. IsGroup(g)
    BY DEF IsGroup
  <2>5. IsCall(y) /\ y.at = "swapping" /\ y.kind = x.kind /\ y.ups = x.ups /\ y.group = x.group
    BY <1>0, CallMoved
  <2> HIDE DEF y, x
  <2> HIDE DEF g
  <2>6. AllGroups(groups') /\ groups'[c] = g /\ groups'[inUse] = groups[inUse]
    <3>1. inUse # c
      BY <1>2, <2>1
    <3>2. AllGroups([groups EXCEPT ![c] = g]) /\ [groups EXCEPT ![c] = g][c] = g
      BY <1>0, <2>4, GroupSet
    <3>3. [groups EXCEPT ![c] = g][inUse] = groups[inUse]
      BY <1>0, <3>1 DEF AllGroups
    <3> QED BY <2>3, <3>2, <3>3
  <2>7. CallInv(c, y, groups', inUse', told')
    <3>1. g = [ups |-> x.ups, ecs |-> told.live.ecs]
      BY DEF g
    <3> QED BY <1>2, <1>3, <2>1, <2>5, <2>6, <3>1 DEF CallInv
  <2>8. Loaded' = Loaded
    BY <2>1 DEF Loaded, LoadUpstreamsFile, LoadECS
  <2> QED BY <1>0, <1>1, <1>2, <2>1, <2>5, <2>6, <2>7, <2>8, OneCall
<1>6. CASE Swap(c)
  <2> DEFINE y == [x EXCEPT !.at = "savingUpstreams"]
  <2>1. /\ inUse' = c /\ x.at = "swapping" /\ UNCHANGED <<groups, upsFile, ecsFile, told>>
        /\ calls' = [calls EXCEPT ![c] = y]
    BY <1>6 DEF Swap, To, StInv
  <2>2. IsCall(y) /\ y.at = "savingUpstreams" /\ y.kind = x.kind /\ y.ups = x.ups
    BY <1>0, CallMoved
  <2>3. groups[c] = [ups |-> x.ups, ecs |-> told.live.ecs]
    BY <1>0, <2>1 DEF CallInv
  <2> HIDE DEF y, x
  <2>4. CallInv(c, y, groups', inUse', told')
    BY <1>3, <2>1, <2>2, <2>3 DEF CallInv
  <2>5. Loaded' = Loaded
    BY <2>1 DEF Loaded, LoadUpstreamsFile, LoadECS
  <2> QED BY <1>0, <1>1, <2>1, <2>2, <2>4, <2>5, OneCall
<1>7. CASE SaveUpstreams(c)
  <2> DEFINE y == [x EXCEPT !.at = "done"]
             live == [ups |-> x.ups, ecs |-> told.live.ecs]
  <2>1. /\ x.at = "savingUpstreams" /\ UNCHANGED <<groups, inUse, ecsFile>>
        /\ calls' = [calls EXCEPT ![c] = y]
        /\ \/ /\ upsFile' = x.ups
              /\ told' = [told EXCEPT !.live.ups = x.ups, !.kept.ups = x.ups]
           \/ /\ told' = [told EXCEPT !.live.ups = x.ups]
              /\ UNCHANGED upsFile
    BY <1>7 DEF SaveUpstreams, To, StInv
  <2>2. IsCall(y) /\ y.at = "done"
    BY <1>0, CallMoved
  <2>3. inUse = c /\ groups[c] = live
    BY <1>0, <2>1 DEF CallInv
  <2>4. /\ told = [live |-> told.live, kept |-> told.kept]
        /\ told.live = [ups |-> told.live.ups, ecs |-> told.live.ecs]
        /\ told.kept = [ups |-> told.kept.ups, ecs |-> told.kept.ecs]
    BY <1>0 DEF ToldBoth, IsGroup
  <2> HIDE DEF y, x
  <2>5. CASE upsFile' = x.ups /\ told' = [told EXCEPT !.live.ups = x.ups, !.kept.ups = x.ups]
    <3>1. told' = [live |-> live, kept |-> [ups |-> x.ups, ecs |-> told.kept.ecs]]
      BY <2>4, <2>5
    <3>2. ToldBoth(told') /\ told'.live = live /\ told'.kept = [ups |-> x.ups, ecs |-> told.kept.ecs]
      BY <3>1 DEF ToldBoth, IsGroup
    <3>3. Loaded' = [ups |-> x.ups, ecs |-> LoadECS]
      BY <1>3, <2>1, <2>5 DEF Loaded, LoadUpstreamsFile, LoadECS
    <3>4. told.kept.ecs = LoadECS
      BY <1>0 DEF Loaded
    <3>5. CallInv(c, y, groups', inUse', told')
      BY <2>2 DEF CallInv
    <3> QED BY <1>0, <1>1, <2>1, <2>2, <2>3, <3>2, <3>3, <3>4, <3>5, OneCall
  <2>6. CASE told' = [told EXCEPT !.live.ups = x.ups] /\ UNCHANGED upsFile
    <3>1. told' = [live |-> live, kept |-> told.kept]
      BY <2>4, <2>6
    <3>2. ToldBoth(told') /\ told'.live = live /\ told'.kept = told.kept
      BY <1>0, <3>1 DEF ToldBoth, IsGroup
    <3>3. Loaded' = Loaded
      BY <2>1, <2>6 DEF Loaded, LoadUpstreamsFile, LoadECS
    <3>4. CallInv(c, y, groups', inUse', told')
      BY <2>2 DEF CallInv
    <3> QED BY <1>0, <1>1, <2>1, <2>2, <2>3, <3>2, <3>3, <3>4, OneCall
  <2> QED BY <2>1, <2>5, <2>6
<1> QED BY <1>4, <1>5, <1>6, <1>7

LEMMA SubnetSteps ==
  ASSUME StInv, MaxBusy = 1, NEW c \in Puts, SetGroupECS(c) \/ SaveECS(c)
  PROVE  StInv'
<1> DEFINE x == calls[c]
<1>0. /\ x.at \in {"setting", "savingECS"} /\ IsCall(x)
      /\ CallInv(c, x, groups, inUse, told) /\ c \in 0..MaxCalls
      /\ AllGroups(groups) /\ ToldBoth(told) /\ told.kept = Loaded /\ inUse \in 0..MaxCalls
  BY DEF SetGroupECS, SaveECS, StInv, Puts
<1>1. \A d \in Puts : d # c => calls[d].at \in {"new", "done"}
  BY <1>0, OnlyCall
<1>2. x.ecs \in Subnets /\ x.group = inUse /\ inUse # c
  BY <1>0 DEF CallInv
<1>3. CASE SetGroupECS(c)
  <2> DEFINE y == [x EXCEPT !.at = "savingECS"]
             g == [ups |-> told.live.ups, ecs |-> x.ecs]
  <2>1. /\ groups' = [groups EXCEPT ![inUse].ecs = x.ecs] /\ x.at = "setting"
        /\ UNCHANGED <<inUse, upsFile, ecsFile, told>>
        /\ calls' = [calls EXCEPT ![c] = y]
    BY <1>2, <1>3 DEF SetGroupECS, To, StInv
  <2>2. groups[inUse] = told.live /\ IsGroup(groups[inUse])
    BY <1>0, <1>1, <2>1 DEF StInv, LiveInv, AllGroups
  <2>3. groups' = [groups EXCEPT ![inUse] = g]
    <3>1. [groups[inUse] EXCEPT !.ecs = x.ecs] = g
      BY <2>2 DEF IsGroup
    <3> QED BY <2>1, <3>1
  <2>4. IsGroup(g)
    BY DEF IsGroup
  <2>5. IsCall(y) /\ y.at = "savingECS" /\ y.ecs = x.ecs /\ y.group = x.group
    BY <1>0, CallMoved
  <2>6. g = [ups |-> told.live.ups, ecs |-> x.ecs]
    OBVIOUS
  <2> HIDE DEF y, g, x
  <2>7. AllGroups(groups') /\ groups'[inUse] = g
    <3>1. AllGroups([groups EXCEPT ![inUse] = g]) /\ [groups EXCEPT ![inUse] = g][inUse] = g
      BY <1>0, <2>4, GroupSet
    <3> QED BY <2>3, <3>1
  <2>8. CallInv(c, y, groups', inUse', told')
    BY <1>2, <2>1, <2>5, <2>6, <2>7 DEF CallInv
  <2>9. Loaded' = Loaded
    BY <2>1 DEF Loaded, LoadUpstreamsFile, LoadECS
  <2> QED BY <1>0, <1>1, <2>1, <2>5, <2>7, <2>8, <2>9, OneCall
<1>4. CASE SaveECS(c)
  <2> DEFINE y == [x EXCEPT !.at = "done"]
             live == [ups |-> told.live.ups, ecs |-> x.ecs]
  <2>1. /\ x.at = "savingECS" /\ UNCHANGED <<groups, inUse, upsFile>>
        /\ calls' = [calls EXCEPT ![c] = y]
        /\ \/ /\ ecsFile' = x.ecs
              /\ told' = [told EXCEPT !.live.ecs = x.ecs, !.kept.ecs = x.ecs]
           \/ /\ told' = [told EXCEPT !.live.ecs = x.ecs]
              /\ UNCHANGED ecsFile
    BY <1>4 DEF SaveECS, To, StInv
  <2>2. IsCall(y) /\ y.at = "done"
    BY <1>0, CallMoved
  <2>3. groups[inUse] = live
    BY <1>0, <2>1 DEF CallInv
  <2>4. /\ told = [live |-> told.live, kept |-> told.kept]
        /\ told.live = [ups |-> told.live.ups, ecs |-> told.live.ecs]
        /\ told.kept = [ups |-> told.kept.ups, ecs |-> told.kept.ecs]
    BY <1>0 DEF ToldBoth, IsGroup
  <2>5. CallInv(c, y, groups', inUse', told')
    BY <1>2, <2>1, <2>2 DEF CallInv
  <2> HIDE DEF y, x
  <2>6. CASE ecsFile' = x.ecs /\ told' = [told EXCEPT !.live.ecs = x.ecs, !.kept.ecs = x.ecs]
    <3>1. told' = [live |-> live, kept |-> [ups |-> told.kept.ups, ecs |-> x.ecs]]
      BY <2>4, <2>6
    <3>2. ToldBoth(told') /\ told'.live = live /\ told'.kept = [ups |-> told.kept.ups, ecs |-> x.ecs]
      BY <3>1 DEF ToldBoth, IsGroup
    <3>3. x.ecs # NoFile /\ ParseECS(x.ecs) = x.ecs /\ x.ecs # Bad
      BY <1>2, SettingsAssumption DEF ParseECS, Subnets, Bad
    <3>4. Loaded' = [ups |-> LoadUpstreamsFile, ecs |-> x.ecs]
      BY <2>1, <2>6, <3>3 DEF Loaded, LoadUpstreamsFile, LoadECS
    <3>5. told.kept.ups = LoadUpstreamsFile
      BY <1>0 DEF Loaded
    <3> QED BY <1>0, <1>1, <2>1, <2>2, <2>3, <2>5, <3>2, <3>4, <3>5, OneCall
  <2>7. CASE told' = [told EXCEPT !.live.ecs = x.ecs] /\ UNCHANGED ecsFile
    <3>1. told' = [live |-> live, kept |-> told.kept]
      BY <2>4, <2>7
    <3>2. ToldBoth(told') /\ told'.live = live /\ told'.kept = told.kept
      BY <1>0, <3>1 DEF ToldBoth, IsGroup
    <3>3. Loaded' = Loaded
      BY <2>1, <2>7 DEF Loaded, LoadUpstreamsFile, LoadECS
    <3> QED BY <1>0, <1>1, <2>1, <2>2, <2>3, <2>5, <3>2, <3>3, OneCall
  <2> QED BY <2>1, <2>6, <2>7
<1> QED BY <1>3, <1>4

\* A start, the first and the later ones: the groups are what the files say.
LEMMA Started ==
  ASSUME NEW gs, gs = [c \in 0..MaxCalls |-> IF c = 0 THEN Loaded ELSE Unbuilt]
  PROVE  AllGroups(gs) /\ gs[0] = Loaded
<1>1. 0 \in 0..MaxCalls
  BY SettingsAssumption
<1>2. IsGroup(Loaded) /\ IsGroup(Unbuilt)
  BY DEF IsGroup, Loaded, Unbuilt
<1> HIDE DEF Loaded, Unbuilt
<1> QED BY <1>1, <1>2 DEF AllGroups

LEMMA StartStep == StInv /\ RestartDaemon => StInv'
<1> SUFFICES ASSUME StInv, RestartDaemon PROVE StInv'
  OBVIOUS
<1> DEFINE left(c) == IF calls[c].at = "new" THEN calls[c]
                      ELSE [calls[c] EXCEPT !.at = "done", !.group = 0]
<1>1. /\ calls' = [c \in Puts |-> left(c)] /\ inUse' = 0
      /\ told' = [told EXCEPT !.live = told.kept] /\ UNCHANGED <<upsFile, ecsFile>>
      /\ groups' = [c \in 0..MaxCalls |-> IF c = 0 THEN Loaded ELSE Unbuilt]
  BY DEF RestartDaemon, Loaded
<1>2. ASSUME NEW c \in Puts
      PROVE  IsCall(left(c)) /\ left(c).at \in {"new", "done"}
  <2>1. IsCall(calls[c]) /\ 0 \in 0..MaxCalls
    BY SettingsAssumption DEF StInv
  <2>2. CASE calls[c].at = "new"
    BY <2>1, <2>2
  <2>3. CASE calls[c].at # "new"
    <3> DEFINE x == calls[c]
    <3>1. left(c) = [kind |-> x.kind, at |-> "done", ups |-> x.ups, ecs |-> x.ecs, group |-> 0]
      BY <2>1, <2>3, CallHolds
    <3> HIDE DEF x, left
    <3> QED BY <2>1, <3>1 DEF IsCall
  <2> QED BY <2>2, <2>3
<1> HIDE DEF left
<1>3. Loaded' = Loaded
  BY <1>1 DEF Loaded, LoadUpstreamsFile, LoadECS
<1>4. AllGroups(groups') /\ groups'[0] = Loaded
  BY <1>1, Started
<1>5. told' = [live |-> told.kept, kept |-> told.kept] /\ IsGroup(told.kept) /\ told.kept = Loaded
  BY <1>1 DEF StInv, ToldBoth
<1>6. ToldBoth(told') /\ told'.kept = Loaded /\ told'.live = Loaded
  BY <1>5 DEF ToldBoth
<1>7. \A c \in Puts : calls'[c] = left(c) /\ inUse' # c
  BY <1>1, SettingsAssumption DEF Puts
<1>8. \A c \in Puts : IsCall(calls'[c]) /\ CallInv(c, calls'[c], groups', inUse', told')
  BY <1>2, <1>7 DEF CallInv
<1>9. \A c \in Puts : calls'[c].at \in {"new", "done"}
  BY <1>2, <1>7
<1>10. calls' = [c \in Puts |-> calls'[c]] /\ inUse' \in 0..MaxCalls
  BY <1>1, SettingsAssumption
<1>11. LiveInv(calls', groups', inUse', told')
  BY <1>1, <1>4, <1>6 DEF LiveInv
<1>12. \A c, d \in Busy' : c = d
  BY <1>9 DEF Busy
<1> QED BY <1>3, <1>4, <1>6, <1>8, <1>10, <1>11, <1>12 DEF StInv

LEMMA FirstStart == StInit => StInv
<1> SUFFICES ASSUME StInit PROVE StInv
  OBVIOUS
<1>1. /\ groups = [c \in 0..MaxCalls |-> IF c = 0 THEN Loaded ELSE Unbuilt]
      /\ inUse = 0 /\ calls = [c \in Puts |-> NewCall]
      /\ told = [live |-> groups[0], kept |-> groups[0]]
  BY DEF StInit, Loaded
<1>2. AllGroups(groups) /\ groups[0] = Loaded /\ 0 \in 0..MaxCalls
  BY <1>1, Started, SettingsAssumption
<1>3. ToldBoth(told) /\ told.kept = Loaded /\ told.live = Loaded
  BY <1>1, <1>2 DEF ToldBoth, AllGroups
<1>4. IsCall(NewCall) /\ NewCall.at = "new"
  BY <1>2 DEF IsCall, NewCall
<1> HIDE DEF NewCall
<1>5. \A c \in Puts : calls[c] = NewCall /\ inUse # c
  BY <1>1, SettingsAssumption DEF Puts
<1>6. \A c \in Puts : IsCall(calls[c]) /\ CallInv(c, calls[c], groups, inUse, told)
  BY <1>4, <1>5 DEF CallInv
<1>7. LiveInv(calls, groups, inUse, told)
  BY <1>1, <1>2, <1>3 DEF LiveInv
<1>8. \A c, d \in Busy : c = d
  BY <1>4, <1>5 DEF Busy
<1> QED BY <1>1, <1>2, <1>3, <1>6, <1>7, <1>8 DEF StInv

\* What the operator was told last is what the daemon exchanges with, when no call is
\* under way: over any sequence of calls of the two kinds, with the saves that fail and
\* the restarts between (upstreams.go:65, ecs.go:159, main.go:240-261).  The calls come
\* one at a time: they share no lock, and two at once lose the subnet, which is the
\* violation EcsNotDropped shows.
THEOREM SettingsAreAnnounced ==
  ASSUME MaxBusy = 1
  PROVE  StSpec => []SettingsHold
<1>1. StInv /\ [StNext]_stVars => StInv'
  <2> SUFFICES ASSUME StInv, [StNext]_stVars PROVE StInv'
    OBVIOUS
  <2>1. CASE StNext
    BY <2>1, AcceptStep, SwapSteps, SubnetSteps, StartStep DEF StNext
  <2>2. CASE UNCHANGED stVars
    BY <2>2 DEF stVars, StInv, Loaded, LoadUpstreamsFile, LoadECS, Busy
  <2> QED BY <2>1, <2>2
<1>2. StInv => SettingsHold
  BY DEF StInv, LiveInv, SettingsHold, Busy
<1> QED BY <1>1, <1>2, FirstStart, PTL DEF StSpec

-----------------------------------------------------------------------------
(* The upstream groups, for any number of callers and members and any          *)
(* thresholds: the types, the probe slot is never leaked, the breaker is open  *)
(* after a full run of failures only, each attempt gets its share of the       *)
(* budget, and, when the callers' budget is below the cooldown, a half-open    *)
(* probe runs alone.  For the shares: what an attempt leaves of the budget,    *)
(* were it to use its whole limit, is a share for each later member.  For the  *)
(* probe: a call from before the opening ends before the cooldown does,        *)
(* because its budget is shorter; so when the breaker half-opens nobody else   *)
(* is inside Exchange, and the only outcome that can clear the slot is the     *)
(* probe's own.                                                                *)

LEMMA SliceFacts ==
  ASSUME NEW left \in Nat, NEW i \in 1..N
  PROVE  Slice(left, i) \in Nat /\ Slice(left, i) <= left
<1>1. N \in Nat /\ N - i + 1 \in Nat /\ N - i + 1 >= 1
  BY UpstreamAssumption
<1>2. ASSUME NEW x \in Nat, NEW s \in Nat, s >= 1 PROVE x \div s \in Nat /\ x \div s <= x
  <2>1. x \div s \in Int /\ x = s * (x \div s) + (x % s) /\ x % s >= 0 /\ x \div s >= 0
    BY <1>2
  <2>2. \A q \in Nat : q <= s * q
    BY <1>2
  <2>3. x % s \in Int
    BY <1>2
  <2> QED BY <1>2, <2>1, <2>2, <2>3
<1> QED BY <1>1, <1>2 DEF Slice

LEMMA AttemptFacts ==
  ASSUME NEW left \in Nat, NEW i \in 1..N, NEW p \in BOOLEAN
  PROVE  /\ Attempt(i, left, p) \in Call
         /\ Attempt(i, left, p).member = i /\ Attempt(i, left, p).left = left
         /\ Attempt(i, left, p).lim <= left /\ Attempt(i, left, p).probe = p
<1>1. Slice(left, i) \in Nat /\ Slice(left, i) <= left /\ AttemptMax \in Nat /\ i \in Nat
  BY SliceFacts, UpstreamAssumption
<1> QED BY <1>1 DEF Attempt, Call, AtMost

\* How a step may change one call: none, a new attempt, ended, cancelled, older.
LEMMA TypeNext == UpTypeOK /\ [UpNext]_upVars => UpTypeOK'
<1> SUFFICES ASSUME UpTypeOK, [UpNext]_upVars PROVE UpTypeOK'
  OBVIOUS
<1>1. /\ N \in Nat /\ N >= 1 /\ QueryTimeout \in Nat /\ Threshold \in Nat /\ Threshold >= 1
      /\ Cooldown \in Nat /\ failures \in 0..Threshold /\ cool \in 0..Cooldown
      /\ \A d \in Calls : call[d] # Outside =>
           /\ call[d] \in Call /\ call[d].member \in 1..N /\ call[d].lim <= call[d].left
           /\ call[d].left <= QueryTimeout /\ call[d].left \in Nat /\ call[d].probe \in BOOLEAN
  BY UpstreamAssumption DEF UpTypeOK, Active, Call
<1>2. ASSUME NEW c \in Calls, NEW r \in Call \cup {Outside}, call' = [call EXCEPT ![c] = r],
             r # Outside => /\ r.member \in 1..N /\ r.lim <= r.left /\ r.left <= QueryTimeout,
             failures' \in 0..Threshold, open' \in BOOLEAN, cool' \in 0..Cooldown,
             probing' \in BOOLEAN
      PROVE  UpTypeOK'
  <2>1. call' \in [Calls -> Call \cup {Outside}] /\ \A d \in Calls : call'[d] = IF d = c THEN r ELSE call[d]
    BY <1>2 DEF UpTypeOK
  <2> QED BY <1>1, <1>2, <2>1 DEF UpTypeOK, Active
<1>3. ASSUME NEW c \in Calls, Exchange(c) PROVE UpTypeOK'
  <2> DEFINE r == Attempt(1, QueryTimeout, open)
  <2>1. r \in Call /\ r.member \in 1..N /\ r.lim <= r.left /\ r.left <= QueryTimeout
    <3>1. open \in BOOLEAN /\ 1 \in 1..N
      BY <1>1 DEF UpTypeOK
    <3> QED BY <1>1, <3>1, AttemptFacts
  <2>2. call' = [call EXCEPT ![c] = r] /\ UNCHANGED <<failures, open, cool>>
    BY <1>3 DEF Exchange
  <2>3. probing' \in BOOLEAN /\ open' \in BOOLEAN
    BY <1>3, Zenon DEF Exchange, UpTypeOK
  <2> HIDE DEF r
  <2> QED BY <1>1, <1>2, <2>1, <2>2, <2>3
<1>4. ASSUME NEW c \in Calls, Cancel(c) PROVE UpTypeOK'
  <2> DEFINE r == [member |-> call[c].member, left |-> call[c].left, slice |-> call[c].slice,
                   lim |-> call[c].lim, probe |-> call[c].probe, canceled |-> TRUE]
  <2>1. r \in Call /\ r.member \in 1..N /\ r.lim <= r.left /\ r.left <= QueryTimeout
    BY <1>1, <1>4 DEF Cancel, Call
  <2>2. call' = [call EXCEPT ![c] = r] /\ UNCHANGED breakerVars
    BY <1>4 DEF Cancel
  <2> HIDE DEF r
  <2> QED BY <1>2, <2>1, <2>2 DEF UpTypeOK, breakerVars
<1>5. ASSUME NEW c \in Calls, NextMember(c) PROVE UpTypeOK'
  <2> DEFINE r == Attempt(call[c].member + 1, call[c].left, call[c].probe)
  <2>1. call[c] # Outside /\ call[c].member + 1 \in 1..N
    BY <1>1, <1>5 DEF NextMember, Uncanceled
  <2>2. r \in Call /\ r.member \in 1..N /\ r.lim <= r.left /\ r.left <= QueryTimeout
    BY <1>1, <2>1, AttemptFacts
  <2>3. call' = [call EXCEPT ![c] = r] /\ UNCHANGED breakerVars
    BY <1>5 DEF NextMember
  <2> HIDE DEF r
  <2> QED BY <1>2, <2>2, <2>3 DEF UpTypeOK, breakerVars
<1>6. ASSUME NEW c \in Calls, call' = [call EXCEPT ![c] = Outside], failures' \in 0..Threshold,
             cool' \in 0..Cooldown, open' \in BOOLEAN, probing' \in BOOLEAN
      PROVE  UpTypeOK'
  BY <1>2, <1>6
<1>7. ASSUME NEW c \in Calls, Succeeded(c) PROVE UpTypeOK'
  <2>1. failures' \in 0..Threshold /\ cool' \in 0..Cooldown
    BY <1>1, <1>7 DEF Succeeded, RecordOk
  <2>2. open' \in BOOLEAN /\ probing' \in BOOLEAN
    BY <1>7 DEF Succeeded, RecordOk
  <2> QED BY <1>6, <1>7, <2>1, <2>2 DEF Succeeded
<1>8. ASSUME NEW c \in Calls, AllFailed(c) \/ Abandoned(c) PROVE UpTypeOK'
  <2>1. failures' \in 0..Threshold /\ cool' \in 0..Cooldown
    BY <1>1, <1>8 DEF AllFailed, Abandoned, RecordFailure, RecordCanceled, AtMost
  <2>2. open' \in BOOLEAN /\ probing' \in BOOLEAN
    BY <1>8, Zenon DEF AllFailed, Abandoned, RecordFailure, RecordCanceled, UpTypeOK
  <2> QED BY <1>6, <1>8, <2>1, <2>2 DEF AllFailed, Abandoned
<1>9. CASE Elapse
  <2>1. ASSUME NEW d \in Calls, call[d] # Outside
        PROVE  /\ call'[d] = Elapsed(call[d]) /\ Elapsed(call[d]) \in Call
               /\ call'[d].member \in 1..N /\ call'[d].lim <= call'[d].left
               /\ call'[d].left <= QueryTimeout
    BY <1>1, <1>9, <2>1 DEF Elapse, Elapsed, Call, Active
  <2>2. \A d \in Calls : call[d] = Outside => call'[d] = Outside
    BY <1>9 DEF Elapse
  <2>3. call' \in [Calls -> Call \cup {Outside}]
    BY <1>9, <2>1, <2>2 DEF Elapse
  <2> QED BY <1>1, <1>9, <2>1, <2>2, <2>3 DEF Elapse, UpTypeOK, Active
<1>10. CASE UNCHANGED upVars
  BY <1>10 DEF upVars, UpTypeOK, Active
<1> QED BY <1>3, <1>4, <1>5, <1>6, <1>7, <1>8, <1>9, <1>10 DEF UpNext, EndAttempt

LEMMA TypeInit == UpInit => UpTypeOK
<1> SUFFICES ASSUME UpInit PROVE UpTypeOK
  OBVIOUS
<1>1. failures \in 0..Threshold /\ cool \in 0..Cooldown
  BY UpstreamAssumption DEF UpInit
<1>2. open \in BOOLEAN /\ probing \in BOOLEAN
  BY DEF UpInit
<1>3. call \in [Calls -> Call \cup {Outside}] /\ \A c \in Calls : call[c] = Outside
  BY DEF UpInit
<1> QED BY <1>1, <1>2, <1>3 DEF UpTypeOK, Active

\* Types, for every value of the constants.
THEOREM UpstreamTypeCorrect == UpSpec => []UpTypeOK
BY TypeInit, TypeNext, PTL DEF UpSpec

-----------------------------------------------------------------------------
(* The breaker's books: the count, the slot and the probes agree.            *)

SlotInv == SlotHeldByProbe /\ (probing => open)

\* Only the probe's Exchange takes the slot, and the end of any call gives it back.
LEMMA SlotNext == UpTypeOK /\ SlotInv /\ [UpNext]_upVars => SlotInv'
<1> SUFFICES ASSUME UpTypeOK, SlotInv, [UpNext]_upVars PROVE SlotInv'
  OBVIOUS
<1>1. call \in [Calls -> Call \cup {Outside}]
  BY DEF UpTypeOK
<1>2. probing => open /\ \E c \in Calls : call[c] # Outside /\ call[c].probe
  BY DEF SlotInv, SlotHeldByProbe, Probes, Active
<1>3. ASSUME probing' => open' /\ \E c \in Calls : call'[c] # Outside /\ call'[c].probe
      PROVE  SlotInv'
  BY <1>3 DEF SlotInv, SlotHeldByProbe, Probes, Active
<1>4. ASSUME NEW d \in Calls, NEW r \in Call, call' = [call EXCEPT ![d] = r],
             call[d] # Outside, r.probe = call[d].probe, UNCHANGED <<probing, open>>
      PROVE  SlotInv'
  <2>1. r # Outside
    BY UpstreamAssumption DEF Call
  <2>2. \A c \in Calls : call[c] # Outside /\ call[c].probe => call'[c] # Outside /\ call'[c].probe
    BY <1>1, <1>4, <2>1
  <2> QED BY <1>2, <1>3, <1>4, <2>2
<1>5. ASSUME NEW d \in Calls, Exchange(d) PROVE SlotInv'
  <2>1. Attempt(1, QueryTimeout, open) \in Call /\ Attempt(1, QueryTimeout, open).probe = open
    <3>1. open \in BOOLEAN /\ 1 \in 1..N /\ QueryTimeout \in Nat
      BY UpstreamAssumption DEF UpTypeOK
    <3> QED BY <3>1, AttemptFacts
  <2>2. call'[d] # Outside /\ call'[d].probe = open /\ open' = open /\ probing' = (probing \/ open)
    BY <1>1, <1>5, <2>1, UpstreamAssumption DEF Exchange, Call
  <2> QED BY <1>2, <1>3, <2>2
<1>6. ASSUME NEW d \in Calls, Cancel(d) PROVE SlotInv'
  <2> DEFINE r == [member |-> call[d].member, left |-> call[d].left, slice |-> call[d].slice,
                   lim |-> call[d].lim, probe |-> call[d].probe, canceled |-> TRUE]
  <2>1. call[d] \in Call /\ call[d] # Outside
    BY <1>1, <1>6 DEF Cancel
  <2>2. r \in Call /\ r.probe = call[d].probe
    BY <2>1 DEF Call
  <2>3. call' = [call EXCEPT ![d] = r] /\ UNCHANGED <<probing, open>>
    BY <1>6 DEF Cancel, breakerVars
  <2> HIDE DEF r
  <2> QED BY <1>4, <2>1, <2>2, <2>3
<1>7. ASSUME NEW d \in Calls, NextMember(d) PROVE SlotInv'
  <2> DEFINE r == Attempt(call[d].member + 1, call[d].left, call[d].probe)
  <2>1. /\ call[d] \in Call /\ call[d] # Outside /\ call[d].member + 1 \in 1..N
        /\ call[d].left \in Nat /\ call[d].probe \in BOOLEAN
    BY <1>7, UpstreamAssumption DEF NextMember, Uncanceled, UpTypeOK, Active, Call
  <2>2. r \in Call /\ r.probe = call[d].probe
    BY <2>1, AttemptFacts
  <2>3. call' = [call EXCEPT ![d] = r] /\ UNCHANGED <<probing, open>>
    BY <1>7 DEF NextMember, breakerVars
  <2> HIDE DEF r
  <2> QED BY <1>4, <2>1, <2>2, <2>3
<1>8. ASSUME NEW d \in Calls, Succeeded(d) \/ AllFailed(d) \/ Abandoned(d) PROVE SlotInv'
  BY <1>3, <1>8 DEF Succeeded, AllFailed, Abandoned, RecordOk, RecordFailure, RecordCanceled
<1>9. CASE Elapse
  <2>1. \A c \in Calls : call[c] # Outside /\ call[c].probe => call'[c] # Outside /\ call'[c].probe
    <3> SUFFICES ASSUME NEW c \in Calls, call[c] # Outside, call[c].probe
                 PROVE  call'[c] # Outside /\ call'[c].probe
      OBVIOUS
    <3>1. call'[c] = Elapsed(call[c]) /\ call'[c].probe = call[c].probe
      BY <1>9 DEF Elapse, Elapsed
    <3>2. Elapsed(call[c]) \in Call
      BY <1>1, <1>9 DEF Elapse, Elapsed, Call, UpTypeOK, Active
    <3> QED BY <3>1, <3>2, UpstreamAssumption DEF Call
  <2> QED BY <1>2, <1>3, <1>9, <2>1 DEF Elapse
<1>10. CASE UNCHANGED upVars
  BY <1>2, <1>3, <1>10 DEF upVars
<1> QED BY <1>5, <1>6, <1>7, <1>8, <1>9, <1>10 DEF UpNext, EndAttempt

\* No cancelled, failed or late call can leave the probe slot taken for ever.
THEOREM ProbeSlotNotLeaked == UpSpec => []SlotHeldByProbe
<1>1. UpInit => SlotInv
  BY DEF UpInit, SlotInv, SlotHeldByProbe
<1>2. SlotInv => SlotHeldByProbe
  BY DEF SlotInv
<1> QED BY <1>1, <1>2, TypeInit, TypeNext, SlotNext, PTL DEF UpSpec

-----------------------------------------------------------------------------
(* A half-open probe runs alone when the budget is below the cooldown.       *)

AloneInv ==
  /\ open => \A c \in Active : ~call[c].probe => call[c].left < cool
  /\ \A c \in Probes : open /\ probing /\ Active = {c}

LEMMA AloneNext ==
  ASSUME QueryTimeout < Cooldown, UpTypeOK, SlotInv, AloneInv, [UpNext]_upVars
  PROVE  AloneInv'
<1>1. /\ N \in Nat /\ N >= 1 /\ QueryTimeout \in Nat /\ Cooldown \in Nat /\ cool \in 0..Cooldown
      /\ call \in [Calls -> Call \cup {Outside}]
      /\ \A d \in Calls : call[d] # Outside =>
           /\ call[d] \in Call /\ call[d].member \in 1..N /\ call[d].lim \in Nat
           /\ call[d].left <= QueryTimeout /\ call[d].left \in Nat /\ call[d].probe \in BOOLEAN
           /\ call[d].lim <= call[d].left
  BY UpstreamAssumption DEF UpTypeOK, Active, Call
\* A step that ends call d.
<1>2. ASSUME NEW d \in Calls, call[d] # Outside, call' = [call EXCEPT ![d] = Outside],
             \/ UNCHANGED <<open, cool>> \/ ~open' \/ cool' = Cooldown
      PROVE  AloneInv'
  <2>1. Active' = Active \ {d} /\ \A c \in Active' : call'[c] = call[c]
    BY <1>1, <1>2 DEF Active
  <2>2. \A c \in Probes' : c \in Probes /\ c # d /\ d \in Active
    BY <1>2, <2>1 DEF Probes, Active
  <2>3. Probes' = {}
    BY <2>2 DEF AloneInv
  <2>4. ASSUME NEW c \in Active', ~call'[c].probe, open' PROVE call'[c].left < cool'
    <3>1. c \in Active /\ call'[c] = call[c] /\ call[c].left \in Nat /\ call[c].left <= QueryTimeout
      BY <1>1, <2>1 DEF Active
    <3>2. CASE cool' = Cooldown
      BY <1>1, <3>1, <3>2
    <3>3. CASE UNCHANGED <<open, cool>>
      BY <2>4, <3>1, <3>3 DEF AloneInv
    <3> QED BY <1>2, <2>4, <3>2, <3>3
  <2> QED BY <2>3, <2>4 DEF AloneInv
\* A step that changes call d and keeps its kind, its budget not growing.
<1>3. ASSUME NEW d \in Calls, NEW r \in Call, call[d] # Outside, call' = [call EXCEPT ![d] = r],
             r.probe = call[d].probe, r.left = call[d].left, UNCHANGED breakerVars
      PROVE  AloneInv'
  <2>1. r # Outside
    BY UpstreamAssumption DEF Call
  <2>2. Active' = Active /\ Probes' = Probes
    BY <1>1, <1>3, <2>1 DEF Active, Probes
  <2>3. \A c \in Active : call'[c].probe = call[c].probe /\ call'[c].left = call[c].left
    BY <1>1, <1>3 DEF Active
  <2> QED BY <1>3, <2>2, <2>3 DEF AloneInv, breakerVars
<1>4. ASSUME NEW d \in Calls, Exchange(d) PROVE AloneInv'
  <2> DEFINE r == Attempt(1, QueryTimeout, open)
  <2>1. r \in Call /\ r.probe = open /\ r.left = QueryTimeout
    <3>1. open \in BOOLEAN /\ 1 \in 1..N
      BY <1>1 DEF UpTypeOK
    <3> QED BY <1>1, <3>1, AttemptFacts
  <2>2. /\ call' = [call EXCEPT ![d] = r] /\ call[d] = Outside /\ Allow
        /\ probing' = (probing \/ open) /\ open' = open /\ cool' = cool
    BY <1>4 DEF Exchange
  <2> HIDE DEF r
  <2>3. r # Outside
    BY <2>1, UpstreamAssumption DEF Call
  <2>4. Active' = Active \cup {d} /\ call'[d] = r /\ \A c \in Active : call'[c] = call[c]
    BY <1>1, <2>2, <2>3 DEF Active
  <2>5. CASE open
    <3>1. cool = 0 /\ ~probing
      BY <2>2, <2>5 DEF Allow
    <3>2. Active = {}
      <4> SUFFICES ASSUME NEW c \in Active PROVE FALSE
        OBVIOUS
      <4>1. c \in Calls /\ call[c] # Outside /\ call[c].left >= 0
        BY <1>1 DEF Active
      <4>2. c \notin Probes
        BY <3>1 DEF AloneInv
      <4>3. ~call[c].probe
        BY <4>1, <4>2 DEF Probes, Active
      <4> QED BY <1>1, <2>5, <3>1, <4>1, <4>3 DEF AloneInv
    <3>3. Active' = {d} /\ call'[d].probe
      BY <2>1, <2>4, <2>5, <3>2
    <3> QED BY <2>2, <2>5, <3>3 DEF AloneInv, Probes
  <2>6. CASE ~open
    <3>1. Probes = {}
      BY <2>6 DEF AloneInv
    <3>2. Probes' = {}
      BY <2>1, <2>4, <2>6, <3>1 DEF Probes
    <3> QED BY <2>2, <2>6, <3>2 DEF AloneInv
  <2> QED BY <2>5, <2>6
<1>5. ASSUME NEW d \in Calls, Cancel(d) PROVE AloneInv'
  <2> DEFINE r == [member |-> call[d].member, left |-> call[d].left, slice |-> call[d].slice,
                   lim |-> call[d].lim, probe |-> call[d].probe, canceled |-> TRUE]
  <2>1. call[d] \in Call /\ call[d] # Outside
    BY <1>1, <1>5 DEF Cancel
  <2>2. r \in Call /\ r.probe = call[d].probe /\ r.left = call[d].left
    BY <2>1 DEF Call
  <2>3. call' = [call EXCEPT ![d] = r] /\ UNCHANGED breakerVars
    BY <1>5 DEF Cancel
  <2> HIDE DEF r
  <2> QED BY <1>3, <2>1, <2>2, <2>3
<1>6. ASSUME NEW d \in Calls, NextMember(d) PROVE AloneInv'
  <2> DEFINE r == Attempt(call[d].member + 1, call[d].left, call[d].probe)
  <2>1. call[d] \in Call /\ call[d] # Outside /\ call[d].member + 1 \in 1..N
    BY <1>1, <1>6 DEF NextMember, Uncanceled
  <2>2. r \in Call /\ r.probe = call[d].probe /\ r.left = call[d].left
    BY <1>1, <2>1, AttemptFacts
  <2>3. call' = [call EXCEPT ![d] = r] /\ UNCHANGED breakerVars
    BY <1>6 DEF NextMember
  <2> HIDE DEF r
  <2> QED BY <1>3, <2>1, <2>2, <2>3
<1>7. ASSUME NEW d \in Calls, Succeeded(d) PROVE AloneInv'
  BY <1>2, <1>7 DEF Succeeded, RecordOk, Uncanceled
<1>8. ASSUME NEW d \in Calls, AllFailed(d) PROVE AloneInv'
  BY <1>2, <1>8 DEF AllFailed, RecordFailure, Uncanceled
<1>9. ASSUME NEW d \in Calls, Abandoned(d) PROVE AloneInv'
  BY <1>2, <1>9 DEF Abandoned, RecordCanceled
<1>10. CASE Elapse
  <2>1. \A c \in Calls : /\ call[c] = Outside => call'[c] = Outside
                         /\ call[c] # Outside => call'[c] = Elapsed(call[c])
    BY <1>10 DEF Elapse
  <2>2. ASSUME NEW c \in Active
        PROVE  /\ call[c].lim > 0 /\ Elapsed(call[c]) # Outside
               /\ call'[c].probe = call[c].probe /\ call'[c].left = call[c].left - 1
               /\ call[c].left >= 1 /\ call[c].left \in Nat
    <3>1. call[c] \in Call /\ call[c].lim > 0 /\ c \in Calls /\ call[c] # Outside
      BY <1>1, <1>10 DEF Elapse, Active
    <3>2. Elapsed(call[c]) \in Call
      BY <1>1, <3>1 DEF Elapsed, Call
    <3>3. Elapsed(call[c]) # Outside /\ call'[c] = Elapsed(call[c])
      BY <2>1, <3>1, <3>2, UpstreamAssumption DEF Call
    <3>4. call'[c].probe = call[c].probe /\ call'[c].left = call[c].left - 1
      BY <3>3 DEF Elapsed
    <3>5. call[c].left >= 1 /\ call[c].left \in Nat
      BY <1>1, <3>1
    <3> QED BY <3>1, <3>3, <3>4, <3>5
  <2>3. Active' = Active /\ Probes' = Probes
    BY <2>1, <2>2 DEF Active, Probes
  <2>4. \A c \in Active : call[c].left < cool => call'[c].left < cool'
    BY <1>1, <1>10, <2>2 DEF Elapse
  <2> QED BY <1>10, <2>2, <2>3, <2>4 DEF AloneInv, Elapse
<1>11. CASE UNCHANGED upVars
  BY <1>11 DEF upVars, AloneInv, Active, Probes
<1> QED BY <1>4, <1>5, <1>6, <1>7, <1>8, <1>9, <1>10, <1>11 DEF UpNext, EndAttempt

\* With a caller budget below the cooldown (5 s and 10 s by default) at most one
\* half-open probe is in flight, whatever is cancelled, late or failing.
THEOREM ProbeIsSingle == ASSUME QueryTimeout < Cooldown PROVE UpSpec => []SingleProbe
<1>1. UpInit => AloneInv
  BY DEF UpInit, AloneInv, Active, Probes
<1>2. AloneInv => SingleProbe
  <2> SUFFICES ASSUME AloneInv PROVE Cardinality(Probes) <= 1
    BY DEF SingleProbe
  <2>1. CASE Probes = {}
    BY <2>1, FS_EmptySet
  <2>2. ASSUME NEW c \in Probes PROVE Cardinality(Probes) <= 1
    <3>1. Probes = {c}
      BY <2>2 DEF AloneInv, Probes
    <3>2. Cardinality({c}) = 1
      BY FS_Singleton
    <3> QED BY <3>1, <3>2
  <2> QED BY <2>1, <2>2
<1>3. UpInit => SlotInv
  BY DEF UpInit, SlotInv, SlotHeldByProbe
<1>4. UpTypeOK /\ SlotInv /\ AloneInv /\ [UpNext]_upVars => AloneInv'
  BY AloneNext
<1> QED BY <1>1, <1>2, <1>3, <1>4, TypeInit, TypeNext, SlotNext, PTL DEF UpSpec

\* The count and the opening are never apart: whatever outcomes arrive in whatever
\* order, the breaker is open exactly after a full run of failures.
THEOREM OpensAtThreshold == UpSpec => []OpenAtThreshold
<1>1. UpInit => OpenAtThreshold
  BY UpstreamAssumption DEF UpInit, OpenAtThreshold
<1>2. UpTypeOK /\ OpenAtThreshold /\ [UpNext]_upVars => OpenAtThreshold'
  <2> SUFFICES ASSUME UpTypeOK, OpenAtThreshold, [UpNext]_upVars PROVE OpenAtThreshold'
    OBVIOUS
  <2>1. Threshold \in Nat /\ Threshold >= 1 /\ failures \in 0..Threshold
    BY UpstreamAssumption DEF UpTypeOK
  <2>2. ASSUME NEW c \in Calls, Succeeded(c) PROVE OpenAtThreshold'
    BY <2>1, <2>2 DEF Succeeded, RecordOk, OpenAtThreshold
  <2>3. ASSUME NEW c \in Calls, AllFailed(c) PROVE OpenAtThreshold'
    <3>1. RecordFailure
      BY <2>3 DEF AllFailed
    <3>2. CASE failures + 1 >= Threshold
      <4>1. failures' = Threshold
        BY <2>1, <3>1, <3>2 DEF RecordFailure, AtMost
      <4> QED BY <3>1, <3>2, <4>1 DEF RecordFailure, OpenAtThreshold
    <3>3. CASE ~(failures + 1 >= Threshold)
      <4>1. failures # Threshold /\ failures' # Threshold
        BY <2>1, <3>1, <3>3 DEF RecordFailure, AtMost
      <4> QED BY <3>1, <3>3, <4>1 DEF RecordFailure, OpenAtThreshold
    <3> QED BY <3>2, <3>3
  <2>4. ASSUME UNCHANGED <<failures, open>> PROVE OpenAtThreshold'
    BY <2>4 DEF OpenAtThreshold
  <2>5. ASSUME NEW c \in Calls, Exchange(c) \/ Cancel(c) \/ NextMember(c) \/ Abandoned(c)
        PROVE  OpenAtThreshold'
    BY <2>4, <2>5 DEF Exchange, Cancel, NextMember, Abandoned, RecordCanceled, breakerVars
  <2>6. CASE Elapse \/ UNCHANGED upVars
    BY <2>4, <2>6 DEF Elapse, upVars
  <2> QED BY <2>2, <2>3, <2>5, <2>6 DEF UpNext, EndAttempt
<1> QED BY <1>1, <1>2, TypeInit, TypeNext, PTL DEF UpSpec

\* Who has at least s for each of m members gives the first at least s, and keeps
\* at least s for each of the others.
LEMMA EvenShare ==
  ASSUME NEW left \in Nat, NEW m \in Nat, m >= 1, NEW s \in Nat, left >= m * s
  PROVE  left \div m >= s /\ left - (left \div m) >= (m - 1) * s
<1> DEFINE q == left \div m
<1>1. q \in Nat /\ left = m * q + (left % m) /\ left % m \in 0..(m - 1)
  OBVIOUS
<1>2. q >= s
  <2> SUFFICES ASSUME q + 1 <= s PROVE FALSE
    BY <1>1
  <2>1. m * (q + 1) <= m * s /\ m * s \in Nat /\ m * (q + 1) \in Nat
    BY <1>1, TimesMonotone
  <2>2. m * (q + 1) = m * q + m
    BY <1>1
  <2> QED BY <1>1, <2>1, <2>2
<1>3. (m - 1) * s <= (m - 1) * q
  <2>1. m - 1 \in Nat
    OBVIOUS
  <2> QED BY <1>1, <1>2, <2>1, TimesMonotone
<1>4. (m - 1) * q = m * q - q
  BY <1>1
<1>5. left - q >= (m - 1) * q /\ (m - 1) * q \in Int /\ (m - 1) * s \in Int
  BY <1>1, <1>4
<1> QED BY <1>1, <1>2, <1>3, <1>5

Share == QueryTimeout \div N

\* A running attempt leaves a share of the whole budget for each member after it.
ShareInv ==
  \A c \in Active : /\ call[c].slice >= Share
                    /\ call[c].left - call[c].lim >= (N - call[c].member) * Share

LEMMA ShareType == N \in Nat /\ N >= 1 /\ Share \in Nat /\ N * Share <= QueryTimeout
<1>1. N \in Nat /\ N >= 1 /\ QueryTimeout \in Nat
  BY UpstreamAssumption
<1>2. ASSUME NEW x \in Nat, NEW n \in Nat, n >= 1
      PROVE  x \div n \in Nat /\ n * (x \div n) <= x
  <2>1. x \div n \in Nat /\ x = n * (x \div n) + (x % n) /\ x % n \in 0..(n - 1)
    BY <1>2
  <2> QED BY <1>2, <2>1
<1> QED BY <1>1, <1>2 DEF Share

LEMMA AttemptShares ==
  ASSUME NEW left \in Nat, NEW i \in 1..N, NEW p \in BOOLEAN, left >= (N - i + 1) * Share
  PROVE  LET a == Attempt(i, left, p)
         IN  a.slice >= Share /\ a.left - a.lim >= (N - a.member) * Share
<1> DEFINE m == N - i + 1
           a == Attempt(i, left, p)
<1>1. /\ m \in Nat /\ m >= 1 /\ N - i = m - 1 /\ left >= m * Share
      /\ Share \in Nat /\ i \in Nat /\ N \in Nat
  BY ShareType
<1>2. left \div m >= Share /\ left - (left \div m) >= (m - 1) * Share
  <2> HIDE DEF m
  <2> QED BY <1>1, EvenShare
<1>3. a.slice = left \div m /\ a.left = left /\ a.member = i
      /\ a.lim = AtMost(left \div m, AttemptMax)
  BY DEF Attempt, Slice
<1>4. left \div m \in Nat /\ AttemptMax \in Nat
  BY SliceFacts, UpstreamAssumption DEF Slice
<1>5. a.lim <= left \div m /\ a.lim \in Nat
  BY <1>3, <1>4 DEF AtMost
<1>6. (m - 1) * Share \in Int
  BY <1>1
<1>7. a.left - a.lim >= (m - 1) * Share
  <2> HIDE DEF m
  <2> QED BY <1>2, <1>3, <1>4, <1>5, <1>6
<1>8. (N - a.member) * Share = (m - 1) * Share
  BY <1>1, <1>3
<1> QED BY <1>2, <1>3, <1>7, <1>8

LEMMA ShareNext == UpTypeOK /\ ShareInv /\ [UpNext]_upVars => ShareInv'
<1> SUFFICES ASSUME UpTypeOK, ShareInv, [UpNext]_upVars PROVE ShareInv'
  OBVIOUS
<1>1. /\ QueryTimeout \in Nat /\ N \in Nat /\ N >= 1 /\ Share \in Nat
      /\ \A d \in Calls : call[d] # Outside =>
           /\ call[d] \in Call /\ call[d].member \in 1..N /\ call[d].lim <= call[d].left
           /\ call[d].lim \in Nat /\ call[d].left \in Nat /\ call[d].probe \in BOOLEAN
  BY UpstreamAssumption, ShareType DEF UpTypeOK, Active, Call
<1>2. ASSUME NEW c \in Calls, NEW r, call' = [call EXCEPT ![c] = r],
             r # Outside => r.slice >= Share /\ r.left - r.lim >= (N - r.member) * Share
      PROVE  ShareInv'
  <2>1. \A d \in Calls : call'[d] = IF d = c THEN r ELSE call[d]
    BY <1>2 DEF UpTypeOK
  <2>2. ASSUME NEW d \in Calls, call'[d] # Outside
        PROVE  /\ call'[d].slice >= Share
               /\ call'[d].left - call'[d].lim >= (N - call'[d].member) * Share
    <3>1. CASE d = c
      BY <1>2, <2>1, <2>2, <3>1
    <3>2. CASE d # c
      BY <2>1, <2>2, <3>2 DEF ShareInv, Active
    <3> QED BY <3>1, <3>2
  <2> QED BY <2>2 DEF ShareInv, Active, Share
<1>3. ASSUME NEW c \in Calls, Exchange(c) PROVE ShareInv'
  <2>1. open \in BOOLEAN /\ 1 \in 1..N /\ N - 1 + 1 = N /\ N * Share <= QueryTimeout
    BY <1>1, ShareType DEF UpTypeOK
  <2>2. QueryTimeout >= (N - 1 + 1) * Share
    BY <1>1, <2>1
  <2> QED BY <1>1, <1>2, <1>3, <2>1, <2>2, AttemptShares DEF Exchange
<1>4. ASSUME NEW c \in Calls, Cancel(c) PROVE ShareInv'
  <2> DEFINE r == [member |-> call[c].member, left |-> call[c].left, slice |-> call[c].slice,
                   lim |-> call[c].lim, probe |-> call[c].probe, canceled |-> TRUE]
  <2>1. r.slice >= Share /\ r.left - r.lim >= (N - r.member) * Share
    BY <1>4 DEF Cancel, ShareInv, Active
  <2>2. call' = [call EXCEPT ![c] = r]
    BY <1>4 DEF Cancel
  <2> HIDE DEF r
  <2> QED BY <1>2, <2>1, <2>2
<1>5. ASSUME NEW c \in Calls, NextMember(c) PROVE ShareInv'
  <2> DEFINE i == call[c].member + 1
             r == Attempt(i, call[c].left, call[c].probe)
  <2>1. call[c] # Outside /\ i \in 1..N /\ N - i + 1 = N - call[c].member
    BY <1>1, <1>5 DEF NextMember, Uncanceled
  <2>2. call[c].left >= (N - i + 1) * Share
    <3>1. call[c].left - call[c].lim >= (N - call[c].member) * Share
      BY <2>1 DEF ShareInv, Active
    <3>2. (N - call[c].member) * Share \in Int
      BY <1>1, <2>1
    <3>3. call[c].left >= (N - call[c].member) * Share
      BY <1>1, <2>1, <3>1, <3>2
    <3> QED BY <2>1, <3>3
  <2>3. r.slice >= Share /\ r.left - r.lim >= (N - r.member) * Share
    <3> HIDE DEF i
    <3> QED BY <1>1, <2>1, <2>2, AttemptShares
  <2>4. call' = [call EXCEPT ![c] = r]
    BY <1>5 DEF NextMember
  <2> HIDE DEF r
  <2> QED BY <1>2, <2>3, <2>4
<1>6. ASSUME NEW c \in Calls, Succeeded(c) \/ AllFailed(c) \/ Abandoned(c) PROVE ShareInv'
  <2>1. call' = [call EXCEPT ![c] = Outside]
    BY <1>6 DEF Succeeded, AllFailed, Abandoned
  <2> QED BY <1>2, <2>1
<1>7. CASE Elapse
  <2>1. ASSUME NEW d \in Calls, call'[d] # Outside
        PROVE  /\ call'[d].slice >= Share
               /\ call'[d].left - call'[d].lim >= (N - call'[d].member) * Share
    <3>1. call[d] # Outside /\ call'[d] = Elapsed(call[d])
      BY <1>7, <2>1 DEF Elapse
    <3>2. /\ call'[d].slice = call[d].slice /\ call'[d].member = call[d].member
          /\ call'[d].left = call[d].left - 1 /\ call'[d].lim = call[d].lim - 1
      BY <3>1 DEF Elapsed
    <3>3. call'[d].left - call'[d].lim = call[d].left - call[d].lim
      BY <1>1, <3>1, <3>2
    <3> QED BY <3>1, <3>2, <3>3 DEF ShareInv, Active
  <2> QED BY <2>1 DEF ShareInv, Active, Share
<1>8. CASE UNCHANGED upVars
  BY <1>8 DEF upVars, ShareInv, Active, Share
<1> QED BY <1>3, <1>4, <1>5, <1>6, <1>7, <1>8 DEF UpNext, EndAttempt

\* However late the earlier members give up, each attempt starts with an even share
\* of the whole budget: what a member may use leaves the later ones theirs.
THEOREM SlicesAreFair == UpSpec => []FairSlices
<1>1. UpInit => ShareInv
  BY DEF UpInit, ShareInv, Active
<1>2. ShareInv => FairSlices
  BY DEF ShareInv, FairSlices, Share
<1> QED BY <1>1, <1>2, TypeInit, TypeNext, ShareNext, PTL DEF UpSpec

-----------------------------------------------------------------------------
(* The choice between the groups, for any replies, lists and number of reloads. *)
(* First the pure part: what the rewrite of a reply leaves, for a section of    *)
(* any length.  Then the order of events: a goroutine that has sent its result   *)
(* sends nothing more, so the replies the choice was made by are the ones the    *)
(* answer is made of, and the list loaded first is the list of both.            *)

\* The loop of rewriteA over the positions of a section: the kept ones, each once.
LEMMA KeptPositions ==
  ASSUME NEW n \in Nat, NEW all \in Seq(1..n), DOMAIN all = 1..n, \A i \in 1..n : all[i] = i,
         NEW P \in SUBSET (1..n)
  PROVE  /\ IsInjective(Only(all, P))
         /\ {Only(all, P)[k] : k \in DOMAIN Only(all, P)} = P
<1> DEFINE pos == Only(all, P)
<1>1. Range(all) = 1..n /\ IsInjective(all)
  BY DEF Range, IsInjective
<1>2. pos \in Seq(1..n) /\ Range(pos) = Range(all) \cap P
  BY OnlyRange
<1>3. IsInjective(pos)
  BY <1>1, OnlyDistinct
<1>4. {pos[k] : k \in DOMAIN pos} = P
  BY <1>1, <1>2 DEF Range
<1> QED BY <1>3, <1>4

\* Of the positions that have a property, if any has it, one is the first.
LEMMA FirstPosition ==
  ASSUME NEW n \in Nat, NEW F \in SUBSET (1..n), F # {}
  PROVE  \E i \in F : \A j \in F : ~(j < i)
<1>1. F \subseteq Nat
  OBVIOUS
<1>2. PICK i \in F : \A j \in F : ~(<<j, i>> \in OpToRel(<,Nat))
  BY <1>1, NatLessThanWellFounded, WFMin
<1> QED BY <1>1, <1>2 DEF OpToRel

LEMMA AAAALeftOut ==
  ASSUME NEW rrs, rrs \in Seq(Of(rrs))
  PROVE  /\ WithoutAAAA(rrs) \in Seq(Of(rrs))
         /\ Of(WithoutAAAA(rrs)) = Of(rrs) \ {"aaaa"}
<1>1. WithoutAAAA(rrs) \in Seq(Of(rrs))
      /\ Range(WithoutAAAA(rrs)) = Range(rrs) \cap (Of(rrs) \ {"aaaa"})
  BY OnlyRange DEF WithoutAAAA
<1> QED BY <1>1 DEF Of, Range

\* What the client gets of a section: all of it, or, with an address outside the list and a
\* gateway, one address of the gateway for those, and no signature (handler.go:1098-1152).
LEMMA RewrittenIs ==
  ASSUME NEW E, NEW rrs \in Seq(E), NEW F
  PROVE  LET given == Of(rrs)
             foreign == given \cap F
             out == Rewritten(rrs, F)
         IN /\ Of(out) = IF foreign = {} THEN given
                         ELSE (given \ (foreign \cup {"rrsig"})) \cup {Gateway}
            /\ Gateway \notin given \ foreign =>
                 \A i, j \in DOMAIN out : out[i] = Gateway /\ out[j] = Gateway => i = j
<1> DEFINE given == Of(rrs)
           foreign == given \cap F
           Steered(i) == rrs[i] \in F
           Added(i) == \E j \in DOMAIN rrs : j < i /\ Steered(j)
           Kept(i) == IF Steered(i) THEN ~Added(i)
                      ELSE rrs[i] = "rrsig" => ~Added(Len(rrs) + 1)
           P == {i \in DOMAIN rrs : Kept(i)}
           pos == Only([i \in DOMAIN rrs |-> i], P)
           Value(i) == IF Steered(i) THEN Gateway ELSE rrs[i]
           out == Rewritten(rrs, F)
<1>1. out = [k \in DOMAIN pos |-> Value(pos[k])]
  BY DEF Rewritten
<1>2. Len(rrs) \in Nat /\ DOMAIN rrs = 1..Len(rrs)
  BY LenProperties
<1>3. IsInjective(pos) /\ {pos[k] : k \in DOMAIN pos} = P
  <2> DEFINE all == [i \in DOMAIN rrs |-> i]
  <2>1. P \in SUBSET (1..Len(rrs)) /\ pos = Only(all, P)
    BY <1>2
  <2>2. all \in Seq(1..Len(rrs)) /\ DOMAIN all = 1..Len(rrs) /\ \A i \in 1..Len(rrs) : all[i] = i
    BY <1>2
  <2> HIDE DEF P, all, pos
  <2> QED BY <1>2, <2>1, <2>2, KeptPositions
<1>4. \A i \in DOMAIN rrs : Steered(i) <=> rrs[i] \in foreign
  BY DEF Of
<1>5. Of(out) = {Value(i) : i \in P}
  <2> HIDE DEF P, Value, pos
  <2> QED BY <1>1, <1>3 DEF Of
<1>6. DOMAIN out = DOMAIN pos /\ \A k \in DOMAIN pos : pos[k] \in P /\ out[k] = Value(pos[k])
  <2> HIDE DEF P, Value, pos
  <2> QED BY <1>1, <1>3
<1>7. Added(Len(rrs) + 1) <=> foreign # {}
  <2>1. Added(Len(rrs) + 1) <=> \E j \in DOMAIN rrs : Steered(j)
    BY <1>2
  <2>2. foreign \subseteq given
    OBVIOUS
  <2>3. foreign # {} <=> \E j \in DOMAIN rrs : rrs[j] \in foreign
    BY <2>2 DEF Of
  <2> HIDE DEF foreign, Steered, Added
  <2> QED BY <1>4, <2>1, <2>3
<1>8. foreign # {} => \E i \in P : Steered(i)
  <2> SUFFICES ASSUME foreign # {} PROVE \E i \in P : Steered(i)
    OBVIOUS
  <2> DEFINE H == {i \in DOMAIN rrs : Steered(i)}
  <2>1. H # {} /\ H \in SUBSET (1..Len(rrs))
    BY <1>2, <1>4 DEF Of
  <2>2. PICK i \in H : \A j \in H : ~(j < i)
    <3> HIDE DEF H
    <3> QED BY <1>2, <2>1, FirstPosition
  <2>3. i \in DOMAIN rrs /\ Steered(i) /\ ~Added(i)
    BY <2>2
  <2> QED BY <2>3
<1>9. \A i, j \in P : Steered(i) /\ Steered(j) => i = j
  BY <1>2
<1>10. Of(out) = IF foreign = {} THEN given
                 ELSE (given \ (foreign \cup {"rrsig"})) \cup {Gateway}
  <2>1. CASE foreign = {}
    <3>1. \A i \in DOMAIN rrs : i \in P /\ Value(i) = rrs[i]
      BY <1>4, <1>7, <2>1
    <3>2. P = DOMAIN rrs
      BY <3>1
    <3> HIDE DEF P, Value
    <3> QED BY <1>5, <2>1, <3>1, <3>2 DEF Of
  <2>2. CASE foreign # {}
    <3>1. \A i \in DOMAIN rrs : rrs[i] \notin foreign => (i \in P <=> rrs[i] # "rrsig") /\ Value(i) = rrs[i]
      BY <1>4, <1>7, <2>2
    <3>2. \A i \in DOMAIN rrs : rrs[i] \in foreign => Value(i) = Gateway
      BY <1>4
    <3>3. \E i \in P : rrs[i] \in foreign
      BY <1>4, <1>8, <2>2
    <3>4. P \subseteq DOMAIN rrs
      OBVIOUS
    <3> DEFINE want == (given \ (foreign \cup {"rrsig"})) \cup {Gateway}
    <3> HIDE DEF P, Value, foreign
    <3>5. \A i \in P : Value(i) \in want
      BY <3>1, <3>2, <3>4 DEF Of
    <3>6. ASSUME NEW x \in want PROVE \E i \in P : Value(i) = x
      <4>1. CASE x = Gateway
        BY <3>2, <3>3, <3>4, <4>1
      <4>2. CASE x \in given \ (foreign \cup {"rrsig"})
        <5>1. PICK i \in DOMAIN rrs : rrs[i] = x
          BY <4>2 DEF Of
        <5> QED BY <3>1, <4>2, <5>1
      <4> QED BY <4>1, <4>2
    <3>7. {Value(i) : i \in P} = want
      <4> HIDE DEF want
      <4> QED BY <3>5, <3>6
    <3> QED BY <1>5, <2>2, <3>7
  <2> QED BY <2>1, <2>2
<1>11. ASSUME Gateway \notin given \ foreign, NEW a \in DOMAIN out, NEW b \in DOMAIN out,
              out[a] = Gateway, out[b] = Gateway
       PROVE  a = b
  <2>1. \A i \in P : Value(i) = Gateway => Steered(i)
    BY <1>4, <1>11 DEF Of
  <2> HIDE DEF P, Value, Steered, pos
  <2>2. pos[a] = pos[b]
    BY <1>6, <1>9, <1>11, <2>1
  <2> QED BY <1>3, <1>6, <1>11, <2>2 DEF IsInjective
<1> HIDE DEF given, foreign, out
<1>12. Gateway \notin given \ foreign =>
         \A i, j \in DOMAIN out : out[i] = Gateway /\ out[j] = Gateway => i = j
  BY <1>11
<1> QED BY <1>10, <1>12 DEF given, foreign, out

-----------------------------------------------------------------------------
\* The events so far (arbitrate.go:79-109): what came is final, and each point is reached
\* with the replies it is decided by.
Chinese == came["china"] # Failed /\ ChinaIsCN(came["china"], cn)

Adopted ==
  /\ src = (IF Chinese THEN "china" ELSE "trust")
  /\ came["china"] # Pending
  /\ came[src] \notin {Failed, Pending}

Events ==
  /\ \A g \in Groups : came[g] # Pending => sent[g] = "ended"
  /\ abPC \in {"load", "launch"} => \A g \in Groups : sent[g] = "no"
  /\ abPC = "trust" => came["china"] # Pending /\ ~Chinese
  /\ abPC # "done" => answer = Failed
  /\ abPC = "rewrite" => Adopted
  /\ abPC = "done" /\ answer # Failed =>
       /\ Adopted
       /\ answer = [rcode |-> came[src].rcode,
                    rrs |-> Rewritten(WithoutAAAA(came[src].rrs), Foreign(cn))]

AbInv == AbTypeOK /\ Events

\* A reply that was adopted gives the client what the choice promises.
LEMMA AdoptedGives == AbInv => AnswerByMembership
<1> SUFFICES ASSUME AbInv, abPC = "done", answer # Failed PROVE AnswerByMembership
  BY DEF AnswerByMembership
<1> DEFINE reply == came[src]
           first == came["china"]
           given == Of(reply.rrs) \ {"aaaa"}
           foreign == given \cap Foreign(cn)
           rrs == WithoutAAAA(reply.rrs)
<1>1. /\ Adopted /\ answer = [rcode |-> reply.rcode, rrs |-> Rewritten(rrs, Foreign(cn))]
  BY DEF AbInv, Events, AbTypeOK
<1>2. src = IF first # Failed /\ ~first.truncated /\ Of(first.rrs) \cap cn # {} THEN "china" ELSE "trust"
  <2>1. ChinaIsCN(first, cn) <=> ~first.truncated /\ Of(first.rrs) \cap cn # {}
    BY DEF ChinaIsCN, Of
  <2> QED BY <1>1, <2>1 DEF Adopted, Chinese
<1>3. reply \in Replies
  <2>1. src \in Groups
    BY <1>2 DEF Groups
  <2> QED BY <1>1, <2>1 DEF AbInv, AbTypeOK, Adopted
<1>4. rrs \in Seq(Of(reply.rrs)) /\ Of(rrs) = given
  <2>1. reply.rrs \in Seq(Of(reply.rrs))
    BY <1>3, AbAssumption
  <2> QED BY <2>1, AAAALeftOut
<1>5. /\ Of(answer.rrs) = IF foreign = {} THEN given
                          ELSE (given \ (foreign \cup {"rrsig"})) \cup {Gateway}
      /\ Gateway \notin given \ foreign =>
           \A i, j \in DOMAIN answer.rrs :
             answer.rrs[i] = Gateway /\ answer.rrs[j] = Gateway => i = j
  <2>1. answer.rrs = Rewritten(rrs, Foreign(cn))
    BY <1>1
  <2> HIDE DEF rrs, given
  <2> QED BY <1>1, <1>4, <2>1, RewrittenIs
<1>6. answer.rcode = reply.rcode
  BY <1>1
<1> HIDE DEF rrs
<1> QED BY <1>2, <1>5, <1>6 DEF AnswerByMembership

LEMMA EventsInit == AbInit => AbInv
<1>1. AbInit => AbTypeOK
  <2>1. 0 \in 0..MaxReloads
    BY AbAssumption
  <2> QED BY <2>1 DEF AbInit, AbTypeOK
<1>2. AbInit => Events
  BY DEF AbInit, Events, Groups
<1> QED BY <1>1, <1>2 DEF AbInv

\* Nothing that happens later changes what was decided: only the arrival of a result and
\* the end of the context come after it.
LEMMA ExchangeKeeps == ASSUME AbInv, NEW g \in Groups, ExchangeReturns(g) PROVE AbInv'
<1>1. /\ sent[g] = "out" /\ sent' = [sent EXCEPT ![g] = "ended"]
      /\ UNCHANGED <<abPC, gateway, liveList, cn, ctxOver, src, answer, reloads>>
  BY DEF ExchangeReturns
<1>2. PICK r \in Replies \cup {Failed} : came' = [came EXCEPT ![g] = r]
  BY DEF ExchangeReturns
<1>3. AbTypeOK'
  BY <1>1, <1>2 DEF AbInv, AbTypeOK, Groups
<1>4. /\ sent'[g] = "ended" /\ came[g] = Pending
      /\ \A h \in Groups : h # g => sent'[h] = sent[h] /\ came'[h] = came[h]
  BY <1>1, <1>2 DEF AbInv, AbTypeOK, Events
<1>5. came["china"] # Pending => came'["china"] = came["china"]
  BY <1>4 DEF Groups
<1>6. Adopted => Adopted' /\ came'[src] = came[src]
  <2>1. ASSUME Adopted PROVE came'[src] = came[src]
    <3>1. src \in Groups /\ src # g
      BY <1>4, <2>1 DEF Adopted, Groups
    <3> QED BY <1>4, <3>1
  <2> QED BY <1>1, <1>5, <2>1 DEF Adopted, Chinese
<1>7. Events'
  <2>1. \A h \in Groups : came'[h] # Pending => sent'[h] = "ended"
    BY <1>4 DEF AbInv, Events
  <2>2. abPC' \notin {"load", "launch"}
    BY <1>1 DEF AbInv, Events
  <2>3. abPC' = "trust" => came'["china"] # Pending /\ ~Chinese'
    BY <1>1, <1>5 DEF AbInv, Events, Chinese
  <2>4. abPC' # "done" => answer' = Failed
    BY <1>1 DEF AbInv, Events
  <2>5. abPC' = "rewrite" => Adopted'
    BY <1>1, <1>6 DEF AbInv, Events
  <2>6. abPC' = "done" /\ answer' # Failed =>
          /\ Adopted'
          /\ answer' = [rcode |-> came[src].rcode,
                        rrs |-> Rewritten(WithoutAAAA(came[src].rrs), Foreign(cn))]'
    BY <1>1, <1>6 DEF AbInv, Events, Foreign
  <2> QED BY <2>1, <2>2, <2>3, <2>4, <2>5, <2>6 DEF Events
<1> QED BY <1>3, <1>7 DEF AbInv

LEMMA EventsNext == AbInv /\ [AbNext]_abVars => AbInv'
<1> SUFFICES ASSUME AbInv, [AbNext]_abVars PROVE AbInv'
  OBVIOUS
<1>1. CASE ReloadList
  <2>1. UNCHANGED <<abPC, gateway, cn, sent, came, ctxOver, src, answer>>
    BY <1>1 DEF ReloadList
  <2>2. AbTypeOK'
    <3>1. liveList' \in ChinaSets /\ reloads < MaxReloads /\ reloads' = reloads + 1
      BY <1>1 DEF ReloadList
    <3>2. reloads' \in 0..MaxReloads
      <4>1. MaxReloads \in Nat
        BY AbAssumption
      <4>2. reloads \in 0..MaxReloads /\ reloads < MaxReloads /\ reloads' = reloads + 1
        BY <3>1 DEF AbInv, AbTypeOK
      <4> QED BY <4>1, <4>2
    <3>3. liveList' \in ChinaSets
      BY <3>1
    <3> QED BY <2>1, <3>2, <3>3 DEF AbInv, AbTypeOK
  <2> QED BY <2>1, <2>2 DEF AbInv, Events, Adopted, Chinese, Foreign
<1>2. CASE LoadList
  BY <1>2 DEF LoadList, AbInv, AbTypeOK, Events, Groups
<1>3. CASE LaunchBoth
  BY <1>3 DEF LaunchBoth, AbInv, AbTypeOK, Events, Groups
<1>4. CASE \E g \in Groups : ExchangeReturns(g)
  BY <1>4, ExchangeKeeps
<1>5. CASE DeadlinePasses
  <2>1. /\ UNCHANGED <<abPC, gateway, liveList, cn, sent, came, src, answer, reloads>>
        /\ ctxOver' = TRUE
    BY <1>5 DEF DeadlinePasses
  <2> QED BY <2>1 DEF AbInv, AbTypeOK, Events, Adopted, Chinese, Foreign
<1>6. CASE AwaitChina
  <2>1. /\ abPC = "china" /\ came["china"] # Pending
        /\ UNCHANGED <<gateway, liveList, cn, sent, came, answer, reloads>>
        /\ \/ /\ Chinese /\ abPC' = "rewrite" /\ src' = "china" /\ ctxOver' = TRUE
           \/ ~Chinese /\ abPC' = "trust" /\ UNCHANGED <<src, ctxOver>>
    BY <1>6 DEF AwaitChina, Adopt, Chinese
  <2>2. AbTypeOK'
    BY <2>1 DEF AbInv, AbTypeOK, Groups
  <2>3. Chinese' <=> Chinese
    BY <2>1 DEF Chinese
  <2>4. abPC' = "rewrite" => Adopted'
    BY <2>1, <2>3 DEF Adopted, Chinese
  <2> QED BY <2>1, <2>2, <2>3, <2>4 DEF AbInv, Events
<1>7. CASE AwaitTrust
  <2>1. /\ abPC = "trust" /\ came["trust"] # Pending /\ ctxOver' = TRUE
        /\ UNCHANGED <<gateway, liveList, cn, sent, came, answer, reloads>>
        /\ \/ came["trust"] # Failed /\ abPC' = "rewrite" /\ src' = "trust"
           \/ abPC' = "done" /\ UNCHANGED src
    BY <1>7 DEF AwaitTrust, Adopt
  <2>2. AbTypeOK'
    BY <2>1 DEF AbInv, AbTypeOK, Groups
  <2>3. Chinese' <=> Chinese
    BY <2>1 DEF Chinese
  <2>4. answer' = Failed /\ came["china"] # Pending /\ ~Chinese
    BY <2>1 DEF AbInv, Events
  <2>5. abPC' = "rewrite" => Adopted'
    BY <2>1, <2>3, <2>4 DEF Adopted
  <2> QED BY <2>1, <2>2, <2>4, <2>5 DEF AbInv, Events
<1>8. CASE RewriteA
  <2>1. /\ abPC = "rewrite" /\ abPC' = "done"
        /\ UNCHANGED <<gateway, liveList, cn, sent, came, ctxOver, src, reloads>>
        /\ answer' = [rcode |-> came[src].rcode,
                      rrs |-> Rewritten(WithoutAAAA(came[src].rrs), Foreign(cn))]
    BY <1>8 DEF RewriteA, AnswerFrom
  <2>2. AbTypeOK'
    BY <2>1 DEF AbInv, AbTypeOK
  <2> QED BY <2>1, <2>2 DEF AbInv, Events, Adopted, Chinese, Foreign
<1>9. CASE UNCHANGED abVars
  BY <1>9 DEF abVars, AbInv, AbTypeOK, Events, Adopted, Chinese, Foreign
<1> QED BY <1>1, <1>2, <1>3, <1>4, <1>5, <1>6, <1>7, <1>8, <1>9 DEF AbNext

\* Whatever order the groups answer in and whenever the list is replaced, the client gets
\* China's reply exactly when it names an address of the list the query loaded, and of
\* either reply what the rewrite promises (arbitrate.go:61-110, handler.go:1098-1152).
THEOREM AnswerFollowsMembership == AbSpec => []AnswerByMembership
<1>1. AbInit => AbInv
  BY EventsInit
<1>2. AbInv /\ [AbNext]_abVars => AbInv'
  BY EventsNext
<1>3. AbInv => AnswerByMembership
  BY AdoptedGives
<1> QED BY <1>1, <1>2, <1>3, PTL DEF AbSpec
=============================================================================
