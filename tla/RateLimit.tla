----------------------------- MODULE RateLimit -----------------------------
(***************************************************************************)
(* The limiter of the control API: a token bucket per source, refilled by     *)
(* time, and a sweep that drops the buckets that have been idle long enough    *)
(* to be full again.  Credit is counted in ticks of the clock: a token is       *)
(* Cost ticks of refill (1/rate), a full bucket is Cap ticks (burst/rate).      *)
(* Each request reads the clock before it takes the lock, so it may carry a     *)
(* time up to Skew old.  Next to the limiter runs a second one that never       *)
(* drops a bucket.                                                            *)
(***************************************************************************)
EXTENDS Integers, FiniteSets

CONSTANTS
  Clients,      \* where requests come from
  Cost,         \* ticks that refill one token
  Cap,          \* ticks that refill an empty bucket
  Factor,       \* staleIdleFactor
  Ceiling,      \* the longest idle time a bucket is kept (3600 s)
  SweepGap,     \* evictSweepInterval; the sweep of every 256th call may come at any call
  Skew,         \* how old the time a request carries may be
  MaxTime,      \* bound: the clock
  Unswept       \* no sweep yet

ASSUME RateAssumption ==
  /\ Cost \in Nat \ {0} /\ Cap \in Nat /\ Factor \in Nat /\ Ceiling \in Nat
  /\ SweepGap \in Nat /\ Skew \in Nat /\ MaxTime \in Nat /\ Unswept \notin Nat

VARIABLES
  buckets,      \* the buckets kept: source -> [credit, last]
  kept,         \* the buckets of a limiter that drops none
  lastSweep,
  now

rlVars == <<buckets, kept, lastSweep, now>>

AtMost2(a, b) == IF a < b THEN a ELSE b

\* How long a bucket must be idle before a sweep drops it; 0 would drop none.
StaleAfter == AtMost2(Factor * Cap, Ceiling)

\* What the window must be for the sweep to be unobservable: 40 requests at 20 a
\* second, the defaults, refill in 2 s and are kept 20 s.
ASSUME WindowAssumption == StaleAfter >= Cap + Skew

Refill(b, t) ==
  IF t > b.last THEN [credit |-> AtMost2(Cap, b.credit + (t - b.last)), last |-> t] ELSE b

\* The bucket of source s in a map, as a request at time t finds it.
Found(m, s, t) == IF s \in DOMAIN m THEN Refill(m[s], t) ELSE [credit |-> Cap, last |-> t]

Allowed(b) == b.credit >= Cost
Taken(b) == IF Allowed(b) THEN [b EXCEPT !.credit = @ - Cost] ELSE b

Put(m, s, b) == [x \in DOMAIN m \cup {s} |-> IF x = s THEN b ELSE m[x]]

\* Defect: a bucket is dropped once it had the time to refill one token.
KeptAtOneToken(t) == {s \in DOMAIN buckets : t - buckets[s].last <= Cost}

\* The buckets a sweep at time t leaves.
KeptAt(t) ==
  IF StaleAfter = 0 THEN DOMAIN buckets
  ELSE {s \in DOMAIN buckets : t - buckets[s].last <= StaleAfter}

EvictLocked(t) == [s \in KeptAt(t) |-> buckets[s]]

SweepDue(t) == lastSweep = Unswept \/ (lastSweep # Unswept /\ t - lastSweep >= SweepGap)

RlInit ==
  /\ buckets = [s \in {} |-> [credit |-> 0, last |-> 0]]
  /\ kept = buckets
  /\ lastSweep = Unswept /\ now = 0

\* A request of source s at time t: it sweeps when a sweep is due, or when it is the
\* 256th of its row, then refills the source's bucket and takes a token.
AllowAt(s, t) ==
  /\ \/ /\ buckets' = LET m == EvictLocked(t) IN Put(m, s, Taken(Found(m, s, t)))
        /\ lastSweep' = t
     \/ /\ ~SweepDue(t)
        /\ buckets' = Put(buckets, s, Taken(Found(buckets, s, t)))
        /\ UNCHANGED lastSweep
  /\ kept' = Put(kept, s, Taken(Found(kept, s, t)))
  /\ UNCHANGED now

Pass ==
  /\ now < MaxTime /\ now' = now + 1
  /\ UNCHANGED <<buckets, kept, lastSweep>>

RlNext ==
  \/ \E s \in Clients, back \in 0..Skew : now - back >= 0 /\ AllowAt(s, now - back)
  \/ Pass

RlSpec == RlInit /\ [][RlNext]_rlVars

-----------------------------------------------------------------------------
Bucket == [credit : 0..Cap, last : Nat]

\* Every bucket holds between nothing and a full load, and was used in the past.
RlTypeOK ==
  /\ now \in Nat /\ lastSweep \in Nat \cup {Unswept}
  /\ DOMAIN buckets \subseteq DOMAIN kept /\ DOMAIN kept \subseteq Clients
  /\ \A s \in DOMAIN buckets : buckets[s] \in Bucket /\ buckets[s].last <= now
  /\ \A s \in DOMAIN kept : kept[s] \in Bucket /\ kept[s].last <= now

\* Dropping idle buckets (ratelimit.go:115) never changes an answer: whoever asks
\* next, with whatever time, gets the answer a limiter that keeps every bucket gives,
\* so nobody obtains tokens early by waiting for a sweep.
EvictionUnseen ==
  \A s \in Clients, back \in 0..Skew : now - back >= 0 =>
    (Allowed(Found(buckets, s, now - back)) <=> Allowed(Found(kept, s, now - back)))
=============================================================================
