------------------------------ MODULE Resolver ------------------------------
(***************************************************************************)
(* The live query pipeline of cmd/5gpn-dns/handler.go and the part of       *)
(* cache.go it relies on: queries of many client goroutines, the atomic     *)
(* runtime snapshots that control-plane goroutines swap under them, the     *)
(* epoch-guarded response cache and the bounded map of coalesced flights.   *)
(*                                                                         *)
(* A snapshot pointer is its generation number: every Store installs a new  *)
(* pointer.  Answer contents are abstracted to the generations of the four  *)
(* snapshots they were computed from, which is what the properties compare. *)
(* A cache entry's expiry time is abstracted to "fresh" / "expired" (the    *)
(* clock is modelled in module Cache).                                      *)
(***************************************************************************)
EXTENDS Integers, FiniteSets

CONSTANTS
  Queries,       \* client goroutines inside serveContext
  Flights,       \* identities of dnsFlight objects
  Swappers,      \* goroutines that publish snapshots (reload, apply, API)
  Keys,          \* request profiles: name, qtype, DO, CD
  QTypeOf,       \* the qtype of a key
  PanelKeys,     \* keys of the console/zash panel names
  Intercepted,   \* overlay generation -> keys whose name it captures
  PolicyAction,  \* policy generation -> key -> action of rules and fallback
  MaxGen,        \* bound on the generations of any snapshot
  GenBound,      \* bound on the generations of each snapshot
  MaxEpoch,      \* bound on the number of swap operations
  CacheMax,      \* Cache.max
  EvictSample,   \* evictOneLocked's sample size (8)
  FlightLimit,   \* Handler.flightLimit
  MaxInflight,   \* capacity of Handler.sem
  None

QTypes == {"A", "AAAA", "HTTPS", "other"}
Actions == {"auto", "block", "direct", "gateway"}
Comps == {"ups", "rules", "overlay", "policy"}
Gen == 0..MaxGen
Gens == [Comps -> Gen]
Workers == Flights \cup Queries     \* who runs a resolve closure

ASSUME ResolverAssumption ==
  /\ MaxGen \in Nat
  /\ GenBound \in [Comps -> 0..MaxGen]
  /\ MaxEpoch \in Nat
  /\ CacheMax \in Nat \ {0}
  /\ EvictSample \in Nat \ {0}
  /\ FlightLimit \in Nat \ {0}
  /\ MaxInflight \in Nat \ {0}
  /\ QTypeOf \in [Keys -> QTypes]
  /\ PanelKeys \subseteq Keys
  /\ Intercepted \in [Gen -> SUBSET Keys]
  /\ PolicyAction \in [Gen -> [Keys -> Actions]]
  /\ Flights \cap Queries = {}
  /\ None \notin Keys \cup Flights \cup Actions
  /\ None \notin [gen : Gens, fresh : BOOLEAN]

VARIABLES
  live,      \* the generation each atomic pointer holds
  swPC,      \* what each swapper does next
  dirty,     \* snapshots a swapper has stored and not yet flushed for
  epoch,     \* Cache.epoch
  cache,     \* Cache.m: key -> entry or None
  pc,        \* where each query is
  key,       \* the query's question
  qepoch,    \* the epoch the query captured
  snap,      \* the generations the query loaded
  act,       \* the action decideName chose
  flight,    \* the flight the query waits on
  got,       \* the flight result its select can receive, if done is closed
  ans,       \* the reply about to be written
  task,      \* running resolve closures, by worker
  floors,    \* history: the live generations when each epoch began
  arrived    \* history: the epoch in which the query arrived

cacheVars == <<epoch, cache, floors>>
swapVars == <<live, swPC, dirty>>
queryVars == <<pc, key, qepoch, snap, act, flight, got, ans, arrived>>
vars == <<live, swPC, dirty, epoch, cache, pc, key, qepoch, snap, act,
          flight, got, ans, task, floors, arrived>>

NoGens == [c \in Comps |-> 0]
Entry == [gen : Gens, fresh : BOOLEAN]
Sources == {"refused", "synthetic", "block", "gateway", "cache", "resolved",
            "stale", "servfail"}
Answer == [src : Sources, gen : Gens]
Task == [st : {"run", "done"}, key : Keys, epoch : Nat, snap : Gens,
         act : Actions, res : Answer]
PCs == {"idle", "epoch", "ups", "rules", "overlay", "policy", "lookup",
        "coalesce", "wait", "solo", "refused", "reply"}

TypeOK ==
  /\ live \in Gens
  /\ swPC \in [Swappers -> {"idle", "refresh", "flush"}]
  /\ dirty \in [Swappers -> SUBSET Comps]
  /\ epoch \in Nat
  /\ cache \in [Keys -> Entry \cup {None}]
  /\ pc \in [Queries -> PCs]
  /\ key \in [Queries -> Keys \cup {None}]
  /\ qepoch \in [Queries -> Nat]
  /\ snap \in [Queries -> Gens]
  /\ act \in [Queries -> Actions]
  /\ flight \in [Queries -> Flights \cup {None}]
  /\ got \in [Queries -> Answer \cup {None}]
  /\ ans \in [Queries -> Answer \cup {None}]
  /\ task \in [Workers -> Task \cup {None}]
  /\ floors \in [0..epoch -> Gens]
  /\ arrived \in [Queries -> 0..epoch]
  /\ \A q \in Queries : pc[q] \notin {"idle", "refused"} => key[q] \in Keys

Init ==
  /\ live = NoGens
  /\ swPC = [s \in Swappers |-> "idle"]
  /\ dirty = [s \in Swappers |-> {}]
  /\ epoch = 0
  /\ cache = [k \in Keys |-> None]
  /\ pc = [q \in Queries |-> "idle"]
  /\ key = [q \in Queries |-> None]
  /\ qepoch = [q \in Queries |-> 0]
  /\ snap = [q \in Queries |-> NoGens]
  /\ act = [q \in Queries |-> "auto"]
  /\ flight = [q \in Queries |-> None]
  /\ got = [q \in Queries |-> None]
  /\ ans = [q \in Queries |-> None]
  /\ task = [w \in Workers |-> None]
  /\ floors = [e \in 0..0 |-> NoGens]
  /\ arrived = [q \in Queries |-> 0]

-----------------------------------------------------------------------------
(* Publishing snapshots: every swap stores, then flushes the cache.          *)

Swapping == {s \in Swappers : swPC[s] # "idle"}

\* The model's bound: at most MaxEpoch swaps, GenBound[c] of each snapshot.
MaySwap(c) == live[c] < GenBound[c] /\ epoch + Cardinality(Swapping) < MaxEpoch

Store(s, c) ==
  /\ live' = [live EXCEPT ![c] = @ + 1]
  /\ dirty' = [dirty EXCEPT ![s] = @ \cup {c}]

StoreThenFlush(s, c) ==
  /\ swPC[s] = "idle"
  /\ MaySwap(c)
  /\ Store(s, c)
  /\ swPC' = [swPC EXCEPT ![s] = "flush"]
  /\ UNCHANGED <<cacheVars, queryVars, task>>

SwapUpstreams(s) == StoreThenFlush(s, "ups")

SetInterceptDocument(s) == StoreThenFlush(s, "overlay")

\* policyPlan.Store comes first, but no query reads the plan.
PublishPreparedPolicy(s) == StoreThenFlush(s, "policy")

SwapRuleSets(s) ==
  /\ swPC[s] = "idle"
  /\ MaySwap("rules")
  /\ Store(s, "rules")
  /\ swPC' = [swPC EXCEPT ![s] = "refresh"]
  /\ UNCHANGED <<cacheVars, queryVars, task>>

\* refreshOrderedPolicy stores the recompiled snapshot...
RefreshOrderedPolicy(s) ==
  /\ swPC[s] = "refresh"
  /\ live["policy"] < GenBound["policy"]
  /\ Store(s, "policy")
  /\ swPC' = [swPC EXCEPT ![s] = "flush"]
  /\ UNCHANGED <<cacheVars, queryVars, task>>

\* ...or keeps the previous one: paused, no plan, compile error, newer plan.
KeepOrderedPolicy(s) ==
  /\ swPC[s] = "refresh"
  /\ swPC' = [swPC EXCEPT ![s] = "flush"]
  /\ UNCHANGED <<live, dirty, cacheVars, queryVars, task>>

Expired(e) == [gen |-> e.gen, fresh |-> FALSE]

\* Cache.Flush expires every entry in place and advances the epoch.
ExpireAll ==
  cache' = [k \in Keys |-> IF cache[k] = None THEN None ELSE Expired(cache[k])]

Flush(s) ==
  /\ swPC[s] = "flush"
  /\ ExpireAll
  /\ epoch' = epoch + 1
  /\ floors' = [e \in 0..(epoch + 1) |->
                  IF e = epoch + 1 THEN live ELSE floors[e]]
  /\ swPC' = [swPC EXCEPT ![s] = "idle"]
  /\ dirty' = [dirty EXCEPT ![s] = {}]
  /\ UNCHANGED <<live, queryVars, task>>

-----------------------------------------------------------------------------
(* One query: serveContext and resolveTraced.                                *)

Admitted == {q \in Queries : pc[q] \notin {"idle", "refused"}}

\* Replies that touch no shared state: panel self-domains, AAAA, HTTPS/SVCB.
Synthetic(k) == k \in PanelKeys \/ QTypeOf[k] \in {"AAAA", "HTTPS"}

Reply(src, gen) == [src |-> src, gen |-> gen]

Admit(q, k) ==
  /\ pc[q] = "idle"
  /\ Cardinality(Admitted) < MaxInflight
  /\ key' = [key EXCEPT ![q] = k]
  /\ arrived' = [arrived EXCEPT ![q] = epoch]
  /\ IF Synthetic(k)
       THEN /\ pc' = [pc EXCEPT ![q] = "reply"]
            /\ ans' = [ans EXCEPT ![q] = Reply("synthetic", live)]
       ELSE /\ pc' = [pc EXCEPT ![q] = "epoch"]
            /\ UNCHANGED ans
  /\ UNCHANGED <<swapVars, cacheVars, task, qepoch, snap, act, flight, got>>

\* The semaphore is full: REFUSED without taking a slot.
Shed(q) ==
  /\ pc[q] = "idle"
  /\ Cardinality(Admitted) >= MaxInflight
  /\ pc' = [pc EXCEPT ![q] = "refused"]
  /\ UNCHANGED <<swapVars, cacheVars, task, key, qepoch, snap, act, flight,
                 got, ans, arrived>>

\* The epoch is captured before any snapshot is loaded.
CaptureEpoch(q) ==
  /\ pc[q] = "epoch"
  /\ qepoch' = [qepoch EXCEPT ![q] = epoch]
  /\ pc' = [pc EXCEPT ![q] = "ups"]
  /\ UNCHANGED <<swapVars, cacheVars, task, key, snap, act, flight, got, ans,
                 arrived>>

Load(q, c, next) ==
  /\ pc[q] = c
  /\ snap' = [snap EXCEPT ![q][c] = live[c]]
  /\ pc' = [pc EXCEPT ![q] = next]
  /\ UNCHANGED <<swapVars, cacheVars, task, key, qepoch, act, flight, got,
                 ans, arrived>>

LoadUpstreams(q) == Load(q, "ups", "rules")
LoadRules(q) == Load(q, "rules", "overlay")
LoadOverlay(q) == Load(q, "overlay", "policy")

\* decideName: the interception overlay, then the ordered policy.
DecideName(k, overlay, policy) ==
  IF k \in Intercepted[overlay] THEN "gateway" ELSE PolicyAction[policy][k]

\* Loading the policy snapshot completes decideName; block and the A answer of
\* an intercepted or proxied name need neither cache nor upstream.
DecideAndRoute(q) ==
  LET policy == live["policy"]
      decision == DecideName(key[q], snap[q]["overlay"], policy)
      gens == [snap[q] EXCEPT !["policy"] = policy]
      local == \/ decision = "block"
               \/ decision = "gateway" /\ QTypeOf[key[q]] = "A"
  IN /\ pc[q] = "policy"
     /\ snap' = [snap EXCEPT ![q] = gens]
     /\ act' = [act EXCEPT ![q] = decision]
     /\ IF local
          THEN /\ pc' = [pc EXCEPT ![q] = "reply"]
               /\ ans' = [ans EXCEPT ![q] = Reply(decision, gens)]
          ELSE /\ pc' = [pc EXCEPT ![q] = "lookup"]
               /\ UNCHANGED ans
     /\ UNCHANGED <<swapVars, cacheVars, task, key, qepoch, flight, got,
                    arrived>>

Fresh(k) == cache[k] # None /\ cache[k].fresh

CacheHit(q) ==
  /\ pc[q] = "lookup"
  /\ Fresh(key[q])
  /\ pc' = [pc EXCEPT ![q] = "reply"]
  /\ ans' = [ans EXCEPT ![q] = Reply("cache", cache[key[q]].gen)]
  /\ UNCHANGED <<swapVars, cacheVars, task, key, qepoch, snap, act, flight,
                 got, arrived>>

CacheMiss(q) ==
  /\ pc[q] = "lookup"
  /\ ~Fresh(key[q])
  /\ pc' = [pc EXCEPT ![q] = "coalesce"]
  /\ UNCHANGED <<swapVars, cacheVars, task, key, qepoch, snap, act, flight,
                 got, ans, arrived>>

-----------------------------------------------------------------------------
(* coalesceResolution                                                        *)

FlightMap == {f \in Flights : task[f] # None}

\* Defect: the flight key without the epoch.
SameKeyAnyEpoch(t, q) ==
  /\ t.key = key[q]
  /\ \A c \in {"policy", "rules", "ups"} : t.snap[c] = snap[q][c]
  /\ t.act = act[q]

\* dnsFlightKey: request profile, epoch, policy/rules/upstream pointers, action.
SameFlightKey(t, q) ==
  /\ t.key = key[q]
  /\ t.epoch = qepoch[q]
  /\ \A c \in {"policy", "rules", "ups"} : t.snap[c] = snap[q][c]
  /\ t.act = act[q]

Matching(q) == {f \in FlightMap : SameFlightKey(task[f], q)}

NewTask(q) ==
  [st |-> "run", key |-> key[q], epoch |-> qepoch[q], snap |-> snap[q],
   act |-> act[q], res |-> Reply("servfail", NoGens)]

\* A flight that has closed its done channel is joinable until it is deleted.
JoinFlight(q, f) ==
  /\ pc[q] = "coalesce"
  /\ f \in Matching(q)
  /\ flight' = [flight EXCEPT ![q] = f]
  /\ got' = [got EXCEPT ![q] = IF task[f].st = "done" THEN task[f].res ELSE None]
  /\ pc' = [pc EXCEPT ![q] = "wait"]
  /\ UNCHANGED <<swapVars, cacheVars, task, key, qepoch, snap, act, ans, arrived>>

\* f is a dnsFlight object nobody refers to any more, standing for a new one.
LeadFlight(q, f) ==
  /\ pc[q] = "coalesce"
  /\ Matching(q) = {}
  /\ Cardinality(FlightMap) < FlightLimit
  /\ f \in Flights \ FlightMap
  /\ \A p \in Queries : flight[p] # f
  /\ task' = [task EXCEPT ![f] = NewTask(q)]
  /\ flight' = [flight EXCEPT ![q] = f]
  /\ pc' = [pc EXCEPT ![q] = "wait"]
  /\ UNCHANGED <<swapVars, cacheVars, key, qepoch, snap, act, got, ans, arrived>>

\* The map is full: resolve on the caller's own context.
ResolveAlone(q) ==
  /\ pc[q] = "coalesce"
  /\ Matching(q) = {}
  /\ Cardinality(FlightMap) >= FlightLimit
  /\ task' = [task EXCEPT ![q] = NewTask(q)]
  /\ pc' = [pc EXCEPT ![q] = "solo"]
  /\ UNCHANGED <<swapVars, cacheVars, key, qepoch, snap, act, flight, got, ans,
                 arrived>>

\* The query is answered and stops referring to its flight.
Answered(q, a) ==
  /\ ans' = [ans EXCEPT ![q] = a]
  /\ pc' = [pc EXCEPT ![q] = "reply"]
  /\ flight' = [flight EXCEPT ![q] = None]
  /\ got' = [got EXCEPT ![q] = None]
  /\ UNCHANGED <<swapVars, cacheVars, key, qepoch, snap, act, arrived>>

TakeResult(q) ==
  /\ pc[q] = "wait"
  /\ got[q] # None
  /\ Answered(q, got[q])
  /\ UNCHANGED task

\* The caller's deadline: before the flight is looked up or while waiting.  The
\* select may pick it even when the result is ready.  The flight runs on.
Expire(q) ==
  /\ pc[q] \in {"coalesce", "wait"}
  /\ Answered(q, Reply("servfail", NoGens))
  /\ UNCHANGED task

ReturnAlone(q) ==
  /\ pc[q] = "solo"
  /\ task[q] # None /\ task[q].st = "done"
  /\ Answered(q, task[q].res)
  /\ task' = [task EXCEPT ![q] = None]

\* WriteMsg; the deferred release of the semaphore slot.
WriteReply(q) ==
  /\ pc[q] \in {"reply", "refused"}
  /\ pc' = [pc EXCEPT ![q] = "idle"]
  /\ ans' = [ans EXCEPT ![q] = None]
  /\ key' = [key EXCEPT ![q] = None]
  /\ qepoch' = [qepoch EXCEPT ![q] = 0]
  /\ snap' = [snap EXCEPT ![q] = NoGens]
  /\ act' = [act EXCEPT ![q] = "auto"]
  /\ arrived' = [arrived EXCEPT ![q] = 0]
  /\ UNCHANGED <<swapVars, cacheVars, task, flight, got>>

-----------------------------------------------------------------------------
(* The resolve closure a worker runs: exchange, cache put or stale lookup,   *)
(* then, for a flight, close(done) and the deletion from the map.            *)

Running(w) == task[w] # None /\ task[w].st = "run"

Closed(t, a) ==
  [st |-> "done", key |-> t.key, epoch |-> t.epoch, snap |-> t.snap,
   act |-> t.act, res |-> a]

\* Setting the result and closing done make it receivable by every waiter.
Finish(w, a) ==
  /\ task' = [task EXCEPT ![w] = Closed(task[w], a)]
  /\ got' = [q \in Queries |-> IF w \in Flights /\ flight[q] = w THEN a ELSE got[q]]
  /\ UNCHANGED <<swapVars, epoch, floors, pc, key, qepoch, snap, act, flight, ans,
                 arrived>>

Cached == {k \in Keys : cache[k] # None}
Live == {k \in Cached : cache[k].fresh}
SmallerOf(m, n) == IF m <= n THEN m ELSE n

\* evictOneLocked deletes the first expired entry of a random sample, else the
\* first sampled entry: a fresh entry goes only if a whole sample is fresh.
Evictable(k) ==
  /\ k \in Cached
  /\ \/ k \notin Live
     \/ Cardinality(Live) >= SmallerOf(EvictSample, Cardinality(Cached))

\* Defect: the answer is stored whatever was flushed since the epoch capture.
PutAnyEpoch(t) ==
  /\ cache' = [cache EXCEPT ![t.key] = [gen |-> t.snap, fresh |-> TRUE]]

\* Cache.PutAtEpoch + putLocked.
PutAtEpoch(t) ==
  LET entry == [gen |-> t.snap, fresh |-> TRUE]
  IN IF t.epoch # epoch
       THEN UNCHANGED cache
       ELSE IF Cardinality(Cached) >= CacheMax /\ cache[t.key] = None
              THEN \E v \in Keys :
                     /\ Evictable(v)
                     /\ cache' = [cache EXCEPT ![v] = None, ![t.key] = entry]
              ELSE cache' = [cache EXCEPT ![t.key] = entry]

\* A NOERROR answer of the arbitration or of the trust group.
FinishNoError(w) ==
  /\ Running(w)
  /\ PutAtEpoch(task[w])
  /\ Finish(w, Reply("resolved", task[w].snap))

\* Any other rcode is returned and not cached.
FinishNegative(w) ==
  /\ Running(w)
  /\ Finish(w, Reply("resolved", task[w].snap))
  /\ UNCHANGED cache

\* Every upstream failed: staleOrServerFail; GetStale serves expired entries...
FinishStale(w) ==
  /\ Running(w)
  /\ cache[task[w].key] # None
  /\ Finish(w, Reply("stale", NoGens))
  /\ UNCHANGED cache

\* ...and prunes one that is beyond its grace.
FinishServFail(w) ==
  /\ Running(w)
  /\ ~Fresh(task[w].key)
  /\ Finish(w, Reply("servfail", NoGens))
  /\ cache' = [cache EXCEPT ![task[w].key] = None]

\* The deletion under flightMu after close(done).
DeleteFlight(f) ==
  /\ task[f] # None
  /\ task[f].st = "done"
  /\ task' = [task EXCEPT ![f] = None]
  /\ UNCHANGED <<swapVars, cacheVars, queryVars>>

\* A fresh entry reaches its TTL.
EntryExpires(k) ==
  /\ Fresh(k)
  /\ cache' = [cache EXCEPT ![k] = Expired(cache[k])]
  /\ UNCHANGED <<swapVars, epoch, floors, queryVars, task>>

-----------------------------------------------------------------------------
SwapStep(s) ==
  \/ SwapUpstreams(s) \/ SetInterceptDocument(s) \/ PublishPreparedPolicy(s)
  \/ SwapRuleSets(s) \/ RefreshOrderedPolicy(s) \/ KeepOrderedPolicy(s)
  \/ Flush(s)

\* Steps of a query that has arrived.
QueryStep(q) ==
  \/ CaptureEpoch(q) \/ LoadUpstreams(q) \/ LoadRules(q) \/ LoadOverlay(q)
  \/ DecideAndRoute(q) \/ CacheHit(q) \/ CacheMiss(q)
  \/ \E f \in Flights : JoinFlight(q, f) \/ LeadFlight(q, f)
  \/ ResolveAlone(q) \/ TakeResult(q) \/ Expire(q) \/ ReturnAlone(q)
  \/ WriteReply(q)

Arrive(q) == Shed(q) \/ \E k \in Keys : Admit(q, k)

WorkerStep(w) ==
  FinishNoError(w) \/ FinishNegative(w) \/ FinishStale(w) \/ FinishServFail(w)

Next ==
  \/ \E s \in Swappers : SwapStep(s)
  \/ \E q \in Queries : Arrive(q) \/ QueryStep(q)
  \/ \E w \in Workers : WorkerStep(w)
  \/ \E f \in Flights : DeleteFlight(f)
  \/ \E k \in Keys : EntryExpires(k)

Spec == Init /\ [][Next]_vars

\* Goroutines are scheduled; an upstream exchange ends by its context's deadline.
Fairness ==
  /\ \A q \in Queries : WF_vars(QueryStep(q))
  /\ \A w \in Workers : WF_vars(WorkerStep(w))
  /\ \A f \in Flights : WF_vars(DeleteFlight(f))

FairSpec == Spec /\ Fairness

-----------------------------------------------------------------------------
(* Properties                                                                *)

Dirty(c) == \E s \in Swappers : c \in dirty[s]

\* A fresh cache entry was computed from the snapshots that are live now, except
\* for a snapshot whose swap is still between its Store and its Flush: a rule,
\* policy, overlay or upstream change is never masked by an old cached answer
\* (handler.go:311-320, cache.go:71-76).
CacheFollowsSnapshots ==
  \A k \in Keys : Fresh(k) =>
    \A c \in Comps : cache[k].gen[c] = live[c] \/ Dirty(c)

\* A query that arrives after a swap has flushed is never answered, from the
\* cache or from a flight, out of snapshots older than that swap; only the
\* upstream-failure fallback may serve older data (handler.go:143-146, 878-884).
AnswersNotOlderThanArrival ==
  \A q \in Queries :
    pc[q] = "reply" /\ ans[q].src \in {"block", "gateway", "cache", "resolved"} =>
      \A c \in Comps : ans[q].gen[c] >= floors[arrived[q]][c]

\* Every query that has arrived is answered and gives back its slot, although
\* the flight it waits on may be slow, abandoned or already deleted.
EveryQueryAnswered == \A q \in Queries : (pc[q] # "idle") ~> (pc[q] = "idle")

\* A flight leaves the map even if every caller that waited for it has gone.
FlightsDrain == \A f \in Flights : (task[f] # None) ~> (task[f] = None)
=============================================================================
