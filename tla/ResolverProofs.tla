--------------------------- MODULE ResolverProofs ---------------------------
(***************************************************************************)
(* TLAPS proofs about Resolver: type correctness, that the response cache   *)
(* never masks a published snapshot, and that a query is never answered     *)
(* from snapshots older than the last flush before it arrived.              *)
(***************************************************************************)
EXTENDS Resolver, TLAPS

(***************************************************************************)
(* Type correctness, one lemma per group of actions.                        *)
(***************************************************************************)

\* The initial state is well typed.
LEMMA TypeInit == Init => TypeOK
BY ResolverAssumption
   DEF Init, TypeOK, Gens, Gen, NoGens, PCs, Actions, Workers, Entry, Task, Comps

\* Store keeps the live generations within their bounds.
LEMMA StoreTyped ==
  ASSUME TypeOK, NEW s \in Swappers, NEW c \in Comps, live[c] < GenBound[c], Store(s, c)
  PROVE  live' \in Gens /\ dirty' \in [Swappers -> SUBSET Comps]
<1>1. live[c] \in 0..MaxGen /\ GenBound[c] \in 0..MaxGen /\ MaxGen \in Nat
  BY ResolverAssumption DEF TypeOK, Gens, Gen
<1>2. live[c] + 1 \in Gen
  BY <1>1 DEF Gen
<1>3. live' \in Gens
  BY <1>2 DEF Store, TypeOK, Gens
<1>4. dirty' \in [Swappers -> SUBSET Comps]
  BY DEF Store, TypeOK
<1> QED BY <1>3, <1>4

\* Publishing snapshots preserves the types.
LEMMA TypeSwap ==
  ASSUME TypeOK, NEW s \in Swappers, SwapStep(s)
  PROVE  TypeOK'
<1>1. ASSUME NEW c \in Comps, StoreThenFlush(s, c) PROVE TypeOK'
  <2>1. live' \in Gens /\ dirty' \in [Swappers -> SUBSET Comps]
    BY <1>1, StoreTyped DEF StoreThenFlush, MaySwap
  <2> QED BY <1>1, <2>1 DEF StoreThenFlush, TypeOK, cacheVars, queryVars
<1>2. CASE SwapUpstreams(s) \/ SetInterceptDocument(s) \/ PublishPreparedPolicy(s)
  BY <1>1, <1>2 DEF SwapUpstreams, SetInterceptDocument, PublishPreparedPolicy, Comps
<1>4. CASE SwapRuleSets(s)
  <2>1. live' \in Gens /\ dirty' \in [Swappers -> SUBSET Comps]
    BY <1>4, StoreTyped DEF SwapRuleSets, MaySwap, Comps
  <2> QED BY <1>4, <2>1 DEF SwapRuleSets, TypeOK, cacheVars, queryVars
<1>5. CASE RefreshOrderedPolicy(s)
  <2>1. live' \in Gens /\ dirty' \in [Swappers -> SUBSET Comps]
    BY <1>5, StoreTyped DEF RefreshOrderedPolicy, Comps
  <2> QED BY <1>5, <2>1 DEF RefreshOrderedPolicy, TypeOK, cacheVars, queryVars
<1> USE DEF TypeOK, cacheVars, queryVars
<1>6. CASE KeepOrderedPolicy(s)
  BY <1>6 DEF KeepOrderedPolicy
<1>7. CASE Flush(s)
  <2>1. cache' \in [Keys -> Entry \cup {None}]
    BY <1>7 DEF Flush, ExpireAll, Expired, Entry
  <2>2. epoch' \in Nat /\ floors' \in [0..epoch' -> Gens]
    BY <1>7 DEF Flush
  <2>3. arrived' \in [Queries -> 0..epoch']
    BY <1>7 DEF Flush
  <2> QED BY <1>7, <2>1, <2>2, <2>3 DEF Flush
<1> QED BY <1>2, <1>4, <1>5, <1>6, <1>7 DEF SwapStep

\* Replies and new tasks are well typed.
LEMMA ReplyTyped ==
  ASSUME NEW src \in Sources, NEW g \in Gens
  PROVE  Reply(src, g) \in Answer
BY DEF Reply, Answer

LEMMA NoGensTyped == NoGens \in Gens
BY ResolverAssumption DEF NoGens, Gens, Gen

LEMMA NewTaskTyped ==
  ASSUME TypeOK, NEW q \in Queries, pc[q] = "coalesce"
  PROVE  NewTask(q) \in Task
<1>1. Reply("servfail", NoGens) \in Answer
  BY ReplyTyped, NoGensTyped DEF Sources
<1>2. key[q] \in Keys /\ qepoch[q] \in Nat /\ snap[q] \in Gens /\ act[q] \in Actions
  BY DEF TypeOK
<1> QED BY <1>1, <1>2 DEF NewTask, Task

LEMMA DecideTyped ==
  ASSUME NEW k \in Keys, NEW o \in Gen, NEW p \in Gen
  PROVE  DecideName(k, o, p) \in Actions
BY ResolverAssumption DEF DecideName, Actions

\* The steps of a query preserve the types.
LEMMA TypeQuery ==
  ASSUME TypeOK, NEW q \in Queries, Arrive(q) \/ QueryStep(q)
  PROVE  TypeOK'
<1> USE DEF TypeOK, cacheVars, swapVars
<1>1. CASE Shed(q)
  BY <1>1 DEF Shed, PCs
<1>2. ASSUME NEW k \in Keys, Admit(q, k) PROVE TypeOK'
  <2>1. Reply("synthetic", live) \in Answer
    BY ReplyTyped DEF Sources
  <2>2. key' \in [Queries -> Keys \cup {None}] /\ arrived' \in [Queries -> 0..epoch']
    BY <1>2 DEF Admit
  <2>3. pc' \in [Queries -> PCs] /\ ans' \in [Queries -> Answer \cup {None}]
    BY <1>2, <2>1 DEF Admit, PCs
  <2>4. \A p \in Queries : pc'[p] \notin {"idle", "refused"} => key'[p] \in Keys
    BY <1>2 DEF Admit
  <2> QED BY <1>2, <2>2, <2>3, <2>4 DEF Admit
<1>3. CASE CaptureEpoch(q)
  BY <1>3 DEF CaptureEpoch, PCs
<1>4. ASSUME NEW c \in Comps, NEW next \in PCs, Load(q, c, next),
             pc[q] \notin {"idle", "refused"}
      PROVE  TypeOK'
  <2>1. snap' \in [Queries -> Gens]
    BY <1>4 DEF Load, Gens
  <2> QED BY <1>4, <2>1 DEF Load
<1>5. CASE LoadUpstreams(q) \/ LoadRules(q) \/ LoadOverlay(q)
  BY <1>4, <1>5 DEF LoadUpstreams, LoadRules, LoadOverlay, Load, Comps, PCs
<1>7. CASE DecideAndRoute(q)
  <2> DEFINE d == DecideName(key[q], snap[q]["overlay"], live["policy"])
             gens == [snap[q] EXCEPT !["policy"] = live["policy"]]
  <2>1. key[q] \in Keys /\ snap[q] \in Gens /\ live["policy"] \in Gen
    BY <1>7 DEF DecideAndRoute, Gens, Comps
  <2>2. d \in Actions
    BY <2>1, DecideTyped DEF Gens, Comps
  <2>3. gens \in Gens
    BY <2>1 DEF Gens
  <2>4. snap' = [snap EXCEPT ![q] = gens] /\ act' = [act EXCEPT ![q] = d]
    BY <1>7 DEF DecideAndRoute
  <2>5. snap' \in [Queries -> Gens] /\ act' \in [Queries -> Actions]
    BY <2>2, <2>3, <2>4
  <2>6. \/ /\ pc' = [pc EXCEPT ![q] = "reply"]
           /\ d \in {"block", "gateway"}
           /\ ans' = [ans EXCEPT ![q] = Reply(d, gens)]
        \/ /\ pc' = [pc EXCEPT ![q] = "lookup"]
           /\ UNCHANGED ans
    BY <1>7 DEF DecideAndRoute
  <2>7. pc' \in [Queries -> PCs]
    BY <2>6 DEF PCs
  <2>8. d \in {"block", "gateway"} => Reply(d, gens) \in Answer
    BY <2>3, ReplyTyped DEF Sources
  <2> HIDE DEF d, gens
  <2>9. ans' \in [Queries -> Answer \cup {None}]
    BY <2>6, <2>8
  <2>10. UNCHANGED <<live, swPC, dirty, epoch, cache, floors, task, key, qepoch,
                     flight, got, arrived>>
    BY <1>7 DEF DecideAndRoute
  <2>11. \A p \in Queries : pc'[p] \notin {"idle", "refused"} => key'[p] \in Keys
    BY <2>1, <2>6, <2>10
  <2> QED BY <2>5, <2>7, <2>9, <2>10, <2>11
<1>8. CASE CacheHit(q)
  <2>1. key[q] \in Keys /\ cache[key[q]] \in Entry
    BY <1>8 DEF CacheHit, Fresh
  <2>2. Reply("cache", cache[key[q]].gen) \in Answer
    BY <2>1, ReplyTyped DEF Entry, Sources
  <2> QED BY <1>8, <2>2 DEF CacheHit, PCs
<1>9. CASE CacheMiss(q)
  BY <1>9 DEF CacheMiss, PCs
<1>10. ASSUME NEW f \in Flights, JoinFlight(q, f) PROVE TypeOK'
  <2>1. task[f] \in Task /\ task[f].res \in Answer
    BY <1>10 DEF JoinFlight, Matching, FlightMap, Task, Workers
  <2>2. got' \in [Queries -> Answer \cup {None}]
    BY <1>10, <2>1 DEF JoinFlight
  <2> QED BY <1>10, <2>2 DEF JoinFlight, PCs
<1>12. ASSUME NEW f \in Flights, LeadFlight(q, f) PROVE TypeOK'
  <2>1. task' \in [Workers -> Task \cup {None}]
    BY <1>12, NewTaskTyped DEF LeadFlight, Workers
  <2> QED BY <1>12, <2>1 DEF LeadFlight, PCs
<1>13. CASE ResolveAlone(q)
  <2>1. task' \in [Workers -> Task \cup {None}]
    BY <1>13, NewTaskTyped DEF ResolveAlone, Workers
  <2> QED BY <1>13, <2>1 DEF ResolveAlone, PCs
<1>14. ASSUME NEW a \in Answer, Answered(q, a), task' \in [Workers -> Task \cup {None}],
              pc[q] \notin {"idle", "refused"}
       PROVE  TypeOK'
  BY <1>14 DEF Answered, PCs
<1>15. CASE TakeResult(q)
  BY <1>14, <1>15 DEF TakeResult
<1>16. CASE Expire(q)
  BY <1>14, <1>16, ReplyTyped, NoGensTyped DEF Expire, Sources
<1>17. CASE ReturnAlone(q)
  <2>1. task[q].res \in Answer /\ task' \in [Workers -> Task \cup {None}]
    BY <1>17 DEF ReturnAlone, Task, Workers
  <2> QED BY <1>14, <1>17, <2>1 DEF ReturnAlone
<1>18. CASE WriteReply(q)
  BY <1>18, NoGensTyped DEF WriteReply, PCs, Actions
<1> QED BY <1>1, <1>2, <1>3, <1>5, <1>7, <1>8, <1>9, <1>10, <1>12, <1>13, <1>15,
           <1>16, <1>17, <1>18 DEF Arrive, QueryStep

\* What PutAtEpoch leaves in the cache under each key.
LEMMA PutAtEpochCases ==
  ASSUME TypeOK, NEW t \in Task, PutAtEpoch(t)
  PROVE  /\ cache' \in [Keys -> Entry \cup {None}]
         /\ \A k \in Keys : \/ cache'[k] = cache[k]
                            \/ cache'[k] = None
                            \/ t.epoch = epoch /\ cache'[k] = [gen |-> t.snap, fresh |-> TRUE]
<1> DEFINE e == [gen |-> t.snap, fresh |-> TRUE]
<1>1. e \in Entry /\ t.key \in Keys
  BY DEF Task, Entry
<1>2. \/ UNCHANGED cache
      \/ t.epoch = epoch /\ cache' = [cache EXCEPT ![t.key] = e]
      \/ \E v \in Keys : t.epoch = epoch /\ cache' = [cache EXCEPT ![v] = None, ![t.key] = e]
  BY DEF PutAtEpoch
<1> HIDE DEF e
<1>3. cache' \in [Keys -> Entry \cup {None}]
  BY <1>1, <1>2 DEF TypeOK
<1>4. \A k \in Keys : \/ cache'[k] = cache[k]
                      \/ cache'[k] = None
                      \/ t.epoch = epoch /\ cache'[k] = e
  BY <1>1, <1>2 DEF TypeOK
<1> QED BY <1>3, <1>4 DEF e

\* Resolve closures, flight deletion and expiry preserve the types.
LEMMA TypeWorker ==
  ASSUME TypeOK, NEW w \in Workers, WorkerStep(w)
  PROVE  TypeOK'
<1>1. task[w] \in Task
  BY DEF TypeOK, WorkerStep, FinishNoError, FinishNegative, FinishStale,
         FinishServFail, Running
<1>2. ASSUME NEW a \in Answer, Finish(w, a), cache' \in [Keys -> Entry \cup {None}]
      PROVE  TypeOK'
  <2>1. task' \in [Workers -> Task \cup {None}]
    BY <1>1, <1>2 DEF Finish, Closed, TypeOK, Task
  <2>2. got' \in [Queries -> Answer \cup {None}]
    BY <1>2 DEF Finish, TypeOK
  <2> QED BY <1>2, <2>1, <2>2 DEF Finish, TypeOK, swapVars
<1>3. CASE FinishNoError(w)
  <2>1. Reply("resolved", task[w].snap) \in Answer
    BY <1>1 DEF Task, Reply, Answer, Sources
  <2> QED BY <1>1, <1>2, <1>3, <2>1, PutAtEpochCases DEF FinishNoError
<1>4. CASE FinishNegative(w)
  <2>1. Reply("resolved", task[w].snap) \in Answer
    BY <1>1 DEF Task, Reply, Answer, Sources
  <2> QED BY <1>2, <1>4, <2>1 DEF FinishNegative, TypeOK
<1>5. NoGens \in Gens
  BY ResolverAssumption DEF NoGens, Gens, Gen
<1>6. CASE FinishStale(w)
  <2>1. Reply("stale", NoGens) \in Answer
    BY <1>5 DEF Reply, Answer, Sources
  <2> QED BY <1>2, <1>6, <2>1 DEF FinishStale, TypeOK
<1>7. CASE FinishServFail(w)
  <2>1. Reply("servfail", NoGens) \in Answer
    BY <1>5 DEF Reply, Answer, Sources
  <2>2. cache' \in [Keys -> Entry \cup {None}]
    BY <1>7 DEF FinishServFail, TypeOK
  <2> QED BY <1>2, <1>7, <2>1, <2>2 DEF FinishServFail
<1> QED BY <1>3, <1>4, <1>6, <1>7 DEF WorkerStep

\* Deleting a finished flight and the expiry of an entry preserve the types.
LEMMA TypeOther ==
  ASSUME TypeOK, \/ \E f \in Flights : DeleteFlight(f)
                 \/ \E k \in Keys : EntryExpires(k)
  PROVE  TypeOK'
<1>1. ASSUME NEW f \in Flights, DeleteFlight(f) PROVE TypeOK'
  BY <1>1 DEF DeleteFlight, TypeOK, Workers, swapVars, cacheVars, queryVars
<1>2. ASSUME NEW k \in Keys, EntryExpires(k) PROVE TypeOK'
  <2>1. cache' \in [Keys -> Entry \cup {None}]
    BY <1>2 DEF EntryExpires, Expired, TypeOK, Fresh, Entry
  <2> QED BY <1>2, <2>1 DEF EntryExpires, TypeOK, swapVars, queryVars
<1> QED BY <1>1, <1>2

\* Every reachable state of the pipeline is well typed.
THEOREM TypeCorrect == Spec => []TypeOK
<1>1. TypeOK /\ [Next]_vars => TypeOK'
  <2> SUFFICES ASSUME TypeOK, [Next]_vars PROVE TypeOK'
    OBVIOUS
  <2>1. CASE \E s \in Swappers : SwapStep(s)
    BY <2>1, TypeSwap
  <2>2. CASE \E q \in Queries : Arrive(q) \/ QueryStep(q)
    BY <2>2, TypeQuery
  <2>3. CASE \E w \in Workers : WorkerStep(w)
    BY <2>3, TypeWorker
  <2>4. CASE (\E f \in Flights : DeleteFlight(f)) \/ (\E k \in Keys : EntryExpires(k))
    BY <2>4, TypeOther
  <2>6. CASE UNCHANGED vars
    BY <2>6 DEF vars, TypeOK
  <2> QED BY <2>1, <2>2, <2>3, <2>4, <2>6 DEF Next
<1> QED BY <1>1, TypeInit, PTL DEF Spec

-----------------------------------------------------------------------------
(***************************************************************************)
(* The cache follows the snapshots.  CacheFollowsSnapshots is not inductive: *)
(* what a query or a task in flight carries can still be put into the cache. *)
(* The strengthening says the same of every carrier whose captured epoch is  *)
(* the current one; a Flush moves the epoch past every carrier at once.      *)
(***************************************************************************)

\* The snapshots a query has loaded at each point of the pipeline.
Loaded(q) ==
  CASE pc[q] = "rules" -> {"ups"}
    [] pc[q] = "overlay" -> {"ups", "rules"}
    [] pc[q] = "policy" -> {"ups", "rules", "overlay"}
    [] pc[q] \in {"lookup", "coalesce"} -> Comps
    [] OTHER -> {}

\* Captured epochs are never in the future.
EpochsPast ==
  /\ \A q \in Queries : qepoch[q] <= epoch
  /\ \A w \in Workers : task[w] # None => task[w].epoch <= epoch

QueriesCurrent ==
  \A q \in Queries : qepoch[q] = epoch =>
    \A c \in Loaded(q) : snap[q][c] = live[c] \/ Dirty(c)

TasksCurrent ==
  \A w \in Workers : task[w] # None /\ task[w].epoch = epoch =>
    \A c \in Comps : task[w].snap[c] = live[c] \/ Dirty(c)

FreshInv ==
  /\ TypeOK
  /\ EpochsPast
  /\ QueriesCurrent
  /\ TasksCurrent
  /\ CacheFollowsSnapshots

LEMMA FreshInit == Init => FreshInv
<1> SUFFICES ASSUME Init PROVE FreshInv
  OBVIOUS
<1>1. TypeOK
  BY TypeInit
<1>2. EpochsPast
  BY DEF Init, EpochsPast
<1>3. \A q \in Queries : Loaded(q) = {}
  BY DEF Init, Loaded
<1>4. QueriesCurrent
  BY <1>3 DEF QueriesCurrent
<1>5. TasksCurrent
  BY DEF Init, TasksCurrent
<1>6. CacheFollowsSnapshots
  BY DEF Init, CacheFollowsSnapshots, Fresh
<1> QED BY <1>1, <1>2, <1>4, <1>5, <1>6 DEF FreshInv

\* After a Store every snapshot is as it was or is dirty.
LEMMA StoreMarksDirty ==
  ASSUME TypeOK, NEW s \in Swappers, NEW c \in Comps, Store(s, c), NEW d \in Comps
  PROVE  (live'[d] = live[d] \/ Dirty(d)') /\ (Dirty(d) => Dirty(d)')
<1>1. Dirty(d) => Dirty(d)'
  BY DEF Dirty, Store, TypeOK
<1>2. CASE d = c
  BY <1>1, <1>2 DEF Dirty, Store, TypeOK
<1>3. CASE d # c
  BY <1>1, <1>3 DEF Store, TypeOK, Gens
<1> QED BY <1>2, <1>3

LEMMA FreshSwap ==
  ASSUME FreshInv, NEW s \in Swappers, SwapStep(s), TypeOK'
  PROVE  FreshInv'
<1>1. ASSUME NEW c \in Comps, Store(s, c), UNCHANGED <<cacheVars, queryVars, task>>
      PROVE  FreshInv'
  <2>1. \A d \in Comps : (live'[d] = live[d] \/ Dirty(d)') /\ (Dirty(d) => Dirty(d)')
    BY <1>1, StoreMarksDirty DEF FreshInv
  <2>2. \A q \in Queries : Loaded(q)' = Loaded(q) /\ Loaded(q) \subseteq Comps
    BY <1>1 DEF Loaded, queryVars, Comps
  <2>3. EpochsPast'
    BY <1>1 DEF FreshInv, EpochsPast, cacheVars, queryVars
  <2>4. QueriesCurrent'
    BY <1>1, <2>1, <2>2 DEF FreshInv, QueriesCurrent, cacheVars, queryVars
  <2>5. TasksCurrent'
    BY <1>1, <2>1 DEF FreshInv, TasksCurrent, cacheVars
  <2>6. CacheFollowsSnapshots'
    BY <1>1, <2>1 DEF FreshInv, CacheFollowsSnapshots, Fresh, cacheVars
  <2> QED BY <2>3, <2>4, <2>5, <2>6 DEF FreshInv
<1>2. CASE SwapUpstreams(s) \/ SetInterceptDocument(s) \/ PublishPreparedPolicy(s)
  BY <1>1, <1>2
     DEF SwapUpstreams, SetInterceptDocument, PublishPreparedPolicy, StoreThenFlush, Comps
<1>3. CASE SwapRuleSets(s) \/ RefreshOrderedPolicy(s)
  BY <1>1, <1>3 DEF SwapRuleSets, RefreshOrderedPolicy, Comps
<1>4. CASE KeepOrderedPolicy(s)
  BY <1>4 DEF KeepOrderedPolicy, FreshInv, EpochsPast, QueriesCurrent, TasksCurrent,
              CacheFollowsSnapshots, Fresh, Loaded, Dirty, cacheVars, queryVars
<1>5. CASE Flush(s)
  <2>1. epoch' = epoch + 1 /\ epoch \in Nat /\ UNCHANGED <<qepoch, task>>
    BY <1>5 DEF Flush, FreshInv, TypeOK, queryVars
  <2>2. \A w \in Workers : task[w] # None => task[w].epoch \in Nat
    BY DEF FreshInv, TypeOK, Task
  <2>3. \A q \in Queries : qepoch[q] \in Nat
    BY DEF FreshInv, TypeOK
  <2>4. EpochsPast'
    BY <2>1, <2>2, <2>3 DEF FreshInv, EpochsPast
  <2>5. QueriesCurrent'
    BY <2>1, <2>3 DEF FreshInv, EpochsPast, QueriesCurrent
  <2>6. TasksCurrent'
    BY <2>1, <2>2 DEF FreshInv, EpochsPast, TasksCurrent
  <2>7. \A k \in Keys : ~Fresh(k)'
    BY <1>5 DEF Flush, ExpireAll, Expired, Fresh
  <2>8. CacheFollowsSnapshots'
    BY <2>7 DEF CacheFollowsSnapshots
  <2> QED BY <2>4, <2>5, <2>6, <2>8 DEF FreshInv
<1> QED BY <1>2, <1>3, <1>4, <1>5 DEF SwapStep

\* A step that leaves the snapshots and the cache alone preserves the invariant
\* if each query and each task it changes still carries current snapshots.
LEMMA FreshFrame ==
  ASSUME FreshInv, TypeOK', UNCHANGED <<swapVars, cacheVars>>,
         \A q \in Queries : /\ qepoch'[q] <= epoch
                            /\ \/ Loaded(q)' = {}
                               \/ /\ qepoch'[q] = qepoch[q]
                                  /\ \A c \in Loaded(q)' :
                                       \/ snap'[q][c] = live[c]
                                       \/ c \in Loaded(q) /\ snap'[q][c] = snap[q][c],
         \A w \in Workers : task'[w] # None =>
            /\ task'[w].epoch <= epoch
            /\ task'[w].epoch = epoch =>
                 \A c \in Comps : task'[w].snap[c] = live[c] \/ Dirty(c)
  PROVE  FreshInv'
<1>1. epoch' = epoch /\ live' = live /\ cache' = cache /\ \A c \in Comps : Dirty(c)' = Dirty(c)
  BY DEF swapVars, cacheVars, Dirty
<1>2. EpochsPast'
  BY <1>1 DEF EpochsPast
<1>3. \A q \in Queries : Loaded(q)' \subseteq Comps
  BY DEF Loaded, Comps
<1>4. QueriesCurrent'
  BY <1>1, <1>3 DEF FreshInv, QueriesCurrent
<1>5. TasksCurrent'
  BY <1>1 DEF TasksCurrent
<1>6. CacheFollowsSnapshots'
  BY <1>1 DEF FreshInv, CacheFollowsSnapshots, Fresh
<1> QED BY <1>2, <1>4, <1>5, <1>6 DEF FreshInv

LEMMA FreshQuery ==
  ASSUME FreshInv, NEW q \in Queries, Arrive(q) \/ QueryStep(q), TypeOK'
  PROVE  FreshInv'
<1>1. /\ TypeOK
      /\ \A p \in Queries : qepoch[p] \in Nat /\ qepoch[p] <= epoch
      /\ \A w \in Workers : task[w] # None =>
            /\ task[w].epoch <= epoch
            /\ task[w].epoch = epoch =>
                 \A c \in Comps : task[w].snap[c] = live[c] \/ Dirty(c)
  BY DEF FreshInv, EpochsPast, TasksCurrent, TypeOK
<1>2. ASSUME NEW k \in Keys, Admit(q, k) PROVE FreshInv'
  <2>1. UNCHANGED <<swapVars, cacheVars, task, qepoch, snap>>
    BY <1>2 DEF Admit
  <2>2. \A p \in Queries : Loaded(p)' = {} \/ Loaded(p)' = Loaded(p)
    BY <1>1, <1>2 DEF Admit, Loaded, TypeOK
  <2> QED BY <1>1, <2>1, <2>2, FreshFrame
<1>3. CASE Shed(q) \/ CacheHit(q) \/ TakeResult(q) \/ Expire(q)
  <2>1. UNCHANGED <<swapVars, cacheVars, task, qepoch, snap>>
    BY <1>3 DEF Shed, CacheHit, TakeResult, Expire, Answered
  <2>2. \A p \in Queries : Loaded(p)' = {} \/ Loaded(p)' = Loaded(p)
    BY <1>1, <1>3 DEF Shed, CacheHit, TakeResult, Expire, Answered, Loaded, TypeOK
  <2> QED BY <1>1, <2>1, <2>2, FreshFrame
<1>4. CASE CaptureEpoch(q)
  <2>1. UNCHANGED <<swapVars, cacheVars, task, snap>>
    BY <1>4 DEF CaptureEpoch
  <2>2. \A p \in Queries : \/ Loaded(p)' = {}
                           \/ Loaded(p)' = Loaded(p) /\ qepoch'[p] = qepoch[p]
    BY <1>1, <1>4 DEF CaptureEpoch, Loaded, TypeOK
  <2>3. \A p \in Queries : qepoch'[p] <= epoch
    BY <1>1, <1>4 DEF CaptureEpoch, TypeOK
  <2> QED BY <1>1, <2>1, <2>2, <2>3, FreshFrame
<1>5. CASE LoadUpstreams(q) \/ LoadRules(q) \/ LoadOverlay(q) \/ DecideAndRoute(q)
  <2>1. UNCHANGED <<swapVars, cacheVars, task, qepoch>>
    BY <1>5 DEF LoadUpstreams, LoadRules, LoadOverlay, Load, DecideAndRoute
  <2>2. \A p \in Queries : \A c \in Loaded(p)' :
           \/ snap'[p][c] = live[c]
           \/ c \in Loaded(p) /\ snap'[p][c] = snap[p][c]
    <3>1. ASSUME NEW p \in Queries, p # q PROVE Loaded(p)' = Loaded(p) /\ snap'[p] = snap[p]
      BY <1>1, <1>5, <3>1 DEF LoadUpstreams, LoadRules, LoadOverlay, Load, DecideAndRoute,
            Loaded, TypeOK
    <3>2. CASE LoadUpstreams(q)
      <4>1. Loaded(q)' = {"ups"} /\ snap'[q]["ups"] = live["ups"]
        BY <1>1, <3>2 DEF LoadUpstreams, Load, Loaded, TypeOK, Gens, Comps
      <4> QED BY <3>1, <4>1
    <3>3. CASE LoadRules(q)
      <4>1. /\ Loaded(q) = {"ups"} /\ Loaded(q)' = {"ups", "rules"}
            /\ snap'[q]["rules"] = live["rules"] /\ snap'[q]["ups"] = snap[q]["ups"]
        BY <1>1, <3>3 DEF LoadRules, Load, Loaded, TypeOK, Gens, Comps
      <4> QED BY <3>1, <4>1
    <3>4. CASE LoadOverlay(q)
      <4>1. /\ Loaded(q) = {"ups", "rules"} /\ Loaded(q)' = {"ups", "rules", "overlay"}
            /\ snap'[q]["overlay"] = live["overlay"]
            /\ \A c \in {"ups", "rules"} : snap'[q][c] = snap[q][c]
        BY <1>1, <3>4 DEF LoadOverlay, Load, Loaded, TypeOK, Gens, Comps
      <4> QED BY <3>1, <4>1
    <3>5. CASE DecideAndRoute(q)
      <4>1. /\ Loaded(q) = {"ups", "rules", "overlay"}
            /\ snap'[q]["policy"] = live["policy"]
            /\ \A c \in {"ups", "rules", "overlay"} : snap'[q][c] = snap[q][c]
        BY <1>1, <3>5 DEF DecideAndRoute, Loaded, TypeOK, Gens, Comps
      <4>2. Loaded(q)' \subseteq {"ups", "rules", "overlay", "policy"}
        BY DEF Loaded, Comps
      <4> QED BY <3>1, <4>1, <4>2
    <3> QED BY <1>5, <3>2, <3>3, <3>4, <3>5
  <2> QED BY <1>1, <2>1, <2>2, FreshFrame
<1>6. CASE CacheMiss(q)
  <2>1. UNCHANGED <<swapVars, cacheVars, task, qepoch, snap>>
    BY <1>6 DEF CacheMiss
  <2>2. \A p \in Queries : Loaded(p)' = Loaded(p)
    BY <1>1, <1>6 DEF CacheMiss, Loaded, TypeOK
  <2> QED BY <1>1, <2>1, <2>2, FreshFrame
<1>7. ASSUME NEW f \in Flights, JoinFlight(q, f) PROVE FreshInv'
  <2>1. UNCHANGED <<swapVars, cacheVars, task, qepoch, snap>>
    BY <1>7 DEF JoinFlight
  <2>2. \A p \in Queries : Loaded(p)' = {} \/ Loaded(p)' = Loaded(p)
    BY <1>1, <1>7 DEF JoinFlight, Loaded, TypeOK
  <2> QED BY <1>1, <2>1, <2>2, FreshFrame
<1>8. ASSUME pc[q] = "coalesce"
      PROVE  /\ NewTask(q).epoch <= epoch
             /\ NewTask(q).epoch = epoch =>
                  \A c \in Comps : NewTask(q).snap[c] = live[c] \/ Dirty(c)
  <2>1. Loaded(q) = Comps
    BY <1>8 DEF Loaded
  <2> QED BY <1>1, <2>1 DEF NewTask, FreshInv, QueriesCurrent
<1>9. ASSUME NEW w \in Workers, task' = [task EXCEPT ![w] = NewTask(q)],
             pc[q] = "coalesce", pc' = [pc EXCEPT ![q] = "wait"] \/ pc' = [pc EXCEPT ![q] = "solo"],
             UNCHANGED <<swapVars, cacheVars, qepoch, snap>>
      PROVE  FreshInv'
  <2>1. \A p \in Queries : Loaded(p)' = {} \/ Loaded(p)' = Loaded(p)
    BY <1>1, <1>9 DEF Loaded, TypeOK
  <2>2. \A v \in Workers : task'[v] = NewTask(q) \/ task'[v] = task[v]
    BY <1>1, <1>9 DEF TypeOK
  <2> QED BY <1>1, <1>8, <1>9, <2>1, <2>2, FreshFrame
<1>10. ASSUME NEW f \in Flights, LeadFlight(q, f) PROVE FreshInv'
  BY <1>9, <1>10 DEF LeadFlight, Workers
<1>11. CASE ResolveAlone(q)
  BY <1>9, <1>11 DEF ResolveAlone, Workers
<1>12. CASE ReturnAlone(q)
  <2>1. UNCHANGED <<swapVars, cacheVars, qepoch, snap>>
    BY <1>12 DEF ReturnAlone, Answered
  <2>2. \A p \in Queries : Loaded(p)' = {} \/ Loaded(p)' = Loaded(p)
    BY <1>1, <1>12 DEF ReturnAlone, Answered, Loaded, TypeOK
  <2>3. \A w \in Workers : task'[w] = None \/ task'[w] = task[w]
    BY <1>1, <1>12 DEF ReturnAlone, TypeOK
  <2> QED BY <1>1, <2>1, <2>2, <2>3, FreshFrame
<1>13. CASE WriteReply(q)
  <2>1. UNCHANGED <<swapVars, cacheVars, task>>
    BY <1>13 DEF WriteReply
  <2>2. \A p \in Queries : \/ Loaded(p)' = {} /\ qepoch'[p] = 0
                           \/ /\ Loaded(p)' = Loaded(p) /\ qepoch'[p] = qepoch[p]
                              /\ snap'[p] = snap[p]
    BY <1>1, <1>13 DEF WriteReply, Loaded, TypeOK
  <2>3. 0 <= epoch
    BY <1>1 DEF TypeOK
  <2> QED BY <1>1, <2>1, <2>2, <2>3, FreshFrame
<1> QED BY <1>2, <1>3, <1>4, <1>5, <1>6, <1>7, <1>10, <1>11, <1>12, <1>13
        DEF Arrive, QueryStep

LEMMA FreshWorker ==
  ASSUME FreshInv, NEW w \in Workers, WorkerStep(w), TypeOK'
  PROVE  FreshInv'
<1>1. TypeOK /\ task[w] \in Task
  BY DEF FreshInv, TypeOK, WorkerStep, FinishNoError, FinishNegative, FinishStale,
         FinishServFail, Running
<1>2. PICK a : Finish(w, a)
  BY DEF WorkerStep, FinishNoError, FinishNegative, FinishStale, FinishServFail
<1>3. /\ UNCHANGED <<swapVars, epoch, pc, qepoch, snap>>
      /\ task' = [task EXCEPT ![w] = Closed(task[w], a)]
  BY <1>2 DEF Finish
<1>4. \A v \in Workers : task'[v] # None =>
        /\ task[v] # None
        /\ task'[v].epoch = task[v].epoch
        /\ task'[v].snap = task[v].snap
  BY <1>1, <1>3 DEF TypeOK, Closed, WorkerStep, FinishNoError, FinishNegative, FinishStale,
         FinishServFail, Running
<1>5. \A c \in Comps : Dirty(c)' = Dirty(c) /\ live'[c] = live[c]
  BY <1>3 DEF Dirty, swapVars
<1>6. EpochsPast'
  BY <1>3, <1>4 DEF FreshInv, EpochsPast
<1>7. \A q \in Queries : Loaded(q)' = Loaded(q) /\ Loaded(q) \subseteq Comps
  BY <1>3 DEF Loaded, Comps
<1>8. QueriesCurrent'
  BY <1>3, <1>5, <1>7 DEF FreshInv, QueriesCurrent
<1>9. TasksCurrent'
  BY <1>3, <1>4, <1>5 DEF FreshInv, TasksCurrent
<1>10. ASSUME NEW k \in Keys
       PROVE  \/ cache'[k] = cache[k]
              \/ cache'[k] = None
              \/ /\ task[w].epoch = epoch
                 /\ cache'[k] = [gen |-> task[w].snap, fresh |-> TRUE]
  <2>1. CASE FinishNoError(w)
    BY <1>1, <2>1, PutAtEpochCases DEF FinishNoError
  <2>2. CASE FinishNegative(w) \/ FinishStale(w)
    BY <2>2 DEF FinishNegative, FinishStale
  <2>3. CASE FinishServFail(w)
    BY <1>1, <2>3 DEF FinishServFail, TypeOK
  <2> QED BY <2>1, <2>2, <2>3 DEF WorkerStep
<1>11. task[w] # None
  BY DEF WorkerStep, FinishNoError, FinishNegative, FinishStale, FinishServFail, Running
<1>12. CacheFollowsSnapshots'
  BY <1>5, <1>10, <1>11 DEF FreshInv, CacheFollowsSnapshots, TasksCurrent, Fresh
<1> QED BY <1>6, <1>8, <1>9, <1>12 DEF FreshInv

LEMMA FreshNext == FreshInv /\ [Next]_vars => FreshInv'
<1> SUFFICES ASSUME FreshInv, [Next]_vars PROVE FreshInv'
  OBVIOUS
<1>1. TypeOK
  BY DEF FreshInv
<1>2. CASE \E s \in Swappers : SwapStep(s)
  BY <1>1, <1>2, TypeSwap, FreshSwap
<1>3. CASE \E q \in Queries : Arrive(q) \/ QueryStep(q)
  BY <1>1, <1>3, TypeQuery, FreshQuery
<1>4. CASE \E w \in Workers : WorkerStep(w)
  BY <1>1, <1>4, TypeWorker, FreshWorker
<1>5. ASSUME NEW f \in Flights, DeleteFlight(f) PROVE FreshInv'
  <2>1. TypeOK'
    BY <1>1, <1>5, TypeOther
  <2>2. \A v \in Workers : task'[v] # None => task'[v] = task[v]
    BY <1>1, <1>5 DEF DeleteFlight, TypeOK
  <2>3. UNCHANGED <<swapVars, cacheVars, qepoch, snap>> /\ \A q \in Queries : Loaded(q)' = Loaded(q)
    BY <1>5 DEF DeleteFlight, Loaded, queryVars
  <2> QED BY <2>1, <2>2, <2>3, FreshFrame DEF FreshInv, EpochsPast, TasksCurrent
<1>6. ASSUME NEW k \in Keys, EntryExpires(k) PROVE FreshInv'
  <2>1. TypeOK'
    BY <1>1, <1>6, TypeOther
  <2>2. \A j \in Keys : Fresh(j)' => Fresh(j) /\ cache'[j] = cache[j]
    BY <1>1, <1>6 DEF EntryExpires, Fresh, Expired, TypeOK
  <2>3. UNCHANGED <<live, dirty, epoch, pc, qepoch, snap, task>>
    BY <1>6 DEF EntryExpires, swapVars, queryVars
  <2> QED BY <2>1, <2>2, <2>3 DEF FreshInv, EpochsPast, QueriesCurrent, TasksCurrent,
            CacheFollowsSnapshots, Loaded, Dirty
<1>7. CASE UNCHANGED vars
  BY <1>7 DEF vars, FreshInv, TypeOK, EpochsPast, QueriesCurrent, TasksCurrent,
              CacheFollowsSnapshots, Loaded, Dirty, Fresh
<1> QED BY <1>2, <1>3, <1>4, <1>5, <1>6, <1>7 DEF Next

\* For any numbers of queries, flights, swappers and keys: a fresh cache entry is
\* computed from live snapshots, but for those between their Store and Flush.
THEOREM CacheFreshness == Spec => []CacheFollowsSnapshots
<1>1. FreshInv => CacheFollowsSnapshots
  BY DEF FreshInv
<1> QED BY <1>1, FreshInit, FreshNext, PTL DEF Spec

-----------------------------------------------------------------------------
(***************************************************************************)
(* Answers are never older than the arrival of the query.  The argument:     *)
(* floors[e], the live generations when epoch e began, only grows with e;    *)
(* whoever captured epoch e loads its snapshots during or after e; a flight   *)
(* and every query that joins it captured the same epoch, and a fresh entry   *)
(* was put in the current one.                                               *)
(***************************************************************************)

AtLeast(g, h) == \A c \in Comps : g[c] >= h[c]

\* An answer other than the stale / SERVFAIL fallback meets the floor of epoch e.
MeetsFloor(a, e) ==
  a.src \in {"block", "gateway", "cache", "resolved"} => AtLeast(a.gen, floors[e])

FloorsGrow ==
  /\ \A e \in 0..epoch : AtLeast(live, floors[e])
  /\ \A e, f \in 0..epoch : e <= f => AtLeast(floors[f], floors[e])

CacheFloor == \A k \in Keys : Fresh(k) => AtLeast(cache[k].gen, floors[epoch])

Captured(q) ==
  pc[q] \in {"ups", "rules", "overlay", "policy", "lookup", "coalesce", "wait", "solo"}

QueryInv(q) ==
  /\ Captured(q) => /\ arrived[q] <= qepoch[q]
                    /\ \A c \in Loaded(q) : snap[q][c] >= floors[qepoch[q]][c]
  /\ flight[q] # None => /\ pc[q] = "wait"
                         /\ task[flight[q]] # None => task[flight[q]].epoch = qepoch[q]
  /\ task[q] # None => pc[q] = "solo" /\ task[q].epoch = qepoch[q]
  /\ got[q] # None => pc[q] = "wait" /\ MeetsFloor(got[q], qepoch[q])
  /\ pc[q] = "reply" => MeetsFloor(ans[q], arrived[q])

TaskInv(w) ==
  task[w] # None => /\ AtLeast(task[w].snap, floors[task[w].epoch])
                    /\ task[w].st = "done" => MeetsFloor(task[w].res, task[w].epoch)

AnswerInv ==
  /\ FloorsGrow
  /\ CacheFloor
  /\ \A q \in Queries : QueryInv(q)
  /\ \A w \in Workers : TaskInv(w)

LEMMA AnswerInit == Init => AnswerInv
<1> SUFFICES ASSUME Init PROVE AnswerInv
  OBVIOUS
<1>1. FloorsGrow
  <2>1. live = NoGens /\ epoch = 0 /\ floors = [e \in 0..0 |-> NoGens]
    BY DEF Init
  <2>2. \A e \in 0..epoch : floors[e] = NoGens
    BY <2>1
  <2>3. AtLeast(NoGens, NoGens)
    BY DEF AtLeast, NoGens
  <2> QED BY <2>1, <2>2, <2>3 DEF FloorsGrow
<1>2. CacheFloor
  BY DEF Init, CacheFloor, Fresh
<1>3. \A q \in Queries : QueryInv(q)
  BY DEF Init, QueryInv, Captured, Workers
<1>4. \A w \in Workers : TaskInv(w)
  BY DEF Init, TaskInv
<1> QED BY <1>1, <1>2, <1>3, <1>4 DEF AnswerInv

\* A query that a step does not touch keeps its invariant.
LEMMA QueryFrame ==
  ASSUME NEW q \in Queries, QueryInv(q),
         UNCHANGED <<pc[q], qepoch[q], snap[q], flight[q], got[q], ans[q], arrived[q]>>,
         task'[q] = task[q],
         flight[q] # None => \/ task'[flight[q]] = None
                             \/ /\ task[flight[q]] # None
                                /\ task'[flight[q]].epoch = task[flight[q]].epoch,
         floors' = floors
  PROVE  QueryInv(q)'
BY DEF QueryInv, Captured, Loaded, MeetsFloor, AtLeast

\* The order on generation vectors is transitive.
LEMMA AtLeastTrans ==
  ASSUME NEW g \in Gens, NEW h \in Gens, NEW i \in Gens, AtLeast(g, h), AtLeast(h, i)
  PROVE  AtLeast(g, i)
<1> SUFFICES ASSUME NEW c \in Comps PROVE g[c] >= i[c]
  BY DEF AtLeast
<1>1. g[c] \in Int /\ h[c] \in Int /\ i[c] \in Int
  BY ResolverAssumption DEF Gens, Gen
<1> QED BY <1>1 DEF AtLeast

\* A floor met for an epoch is met for every earlier one.
LEMMA MeetsEarlier ==
  ASSUME TypeOK, FloorsGrow, NEW a \in Answer, NEW e \in 0..epoch, NEW f \in 0..epoch,
         e <= f, MeetsFloor(a, f)
  PROVE  MeetsFloor(a, e)
<1>1. a.gen \in Gens /\ floors[e] \in Gens /\ floors[f] \in Gens
  BY DEF Answer, TypeOK
<1> QED BY <1>1, AtLeastTrans DEF MeetsFloor, FloorsGrow

LEMMA AnswerSwap ==
  ASSUME FreshInv, AnswerInv, NEW s \in Swappers, SwapStep(s), TypeOK'
  PROVE  AnswerInv'
<1>1. TypeOK /\ EpochsPast /\ epoch \in Nat
  BY DEF FreshInv, TypeOK
<1>2. ASSUME NEW c \in Comps, Store(s, c), UNCHANGED <<cacheVars, queryVars, task>>
      PROVE  AnswerInv'
  <2>1. AtLeast(live', live)
    <3> SUFFICES ASSUME NEW d \in Comps PROVE live'[d] >= live[d]
      BY DEF AtLeast
    <3>1. live \in [Comps -> 0..MaxGen] /\ live[d] \in Int
      BY <1>1, ResolverAssumption DEF TypeOK, Gens, Gen
    <3>2. live'[d] = live[d] \/ live'[d] = live[d] + 1
      BY <1>2, <3>1 DEF Store
    <3> QED BY <3>1, <3>2
  <2>2. \A e \in 0..epoch : AtLeast(live', floors[e])
    <3>1. live' \in Gens /\ live \in Gens /\ \A e \in 0..epoch : floors[e] \in Gens
      BY <1>1 DEF TypeOK
    <3> QED BY <2>1, <3>1, AtLeastTrans DEF AnswerInv, FloorsGrow
  <2>3. FloorsGrow'
    BY <1>2, <2>2 DEF AnswerInv, FloorsGrow, AtLeast, cacheVars
  <2>4. CacheFloor'
    BY <1>2 DEF AnswerInv, CacheFloor, Fresh, AtLeast, cacheVars
  <2>5. \A q \in Queries : QueryInv(q)'
    BY <1>2, QueryFrame DEF AnswerInv, QueryInv, cacheVars, queryVars
  <2>6. \A w \in Workers : TaskInv(w)'
    BY <1>2 DEF AnswerInv, TaskInv, AtLeast, MeetsFloor, cacheVars
  <2> QED BY <2>3, <2>4, <2>5, <2>6 DEF AnswerInv
<1>3. CASE SwapUpstreams(s) \/ SetInterceptDocument(s) \/ PublishPreparedPolicy(s)
  BY <1>2, <1>3
     DEF SwapUpstreams, SetInterceptDocument, PublishPreparedPolicy, StoreThenFlush, Comps
<1>4. CASE SwapRuleSets(s) \/ RefreshOrderedPolicy(s)
  BY <1>2, <1>4 DEF SwapRuleSets, RefreshOrderedPolicy, Comps
<1>5. CASE KeepOrderedPolicy(s)
  <2>1. UNCHANGED <<live, cacheVars, queryVars, task>>
    BY <1>5 DEF KeepOrderedPolicy
  <2>2. FloorsGrow' /\ CacheFloor' /\ \A w \in Workers : TaskInv(w)'
    BY <2>1 DEF AnswerInv, FloorsGrow, CacheFloor, TaskInv, Fresh, AtLeast, MeetsFloor, cacheVars
  <2>3. \A q \in Queries : QueryInv(q)'
    BY <2>1, QueryFrame DEF AnswerInv, QueryInv, cacheVars, queryVars
  <2> QED BY <2>2, <2>3 DEF AnswerInv
<1>6. CASE Flush(s)
  <2>1. /\ epoch' = epoch + 1
        /\ UNCHANGED <<live, pc, qepoch, snap, flight, got, ans, arrived, task>>
        /\ floors'[epoch + 1] = live
        /\ \A e \in 0..epoch : floors'[e] = floors[e]
    BY <1>1, <1>6 DEF Flush, queryVars
  <2>2. \A c \in Comps : live[c] \in Int
    BY <1>1, ResolverAssumption DEF TypeOK, Gens, Gen
  <2>3. AtLeast(live, live)
    BY <2>2 DEF AtLeast
  <2>4. \A e \in 0..epoch' : e \in 0..epoch \/ e = epoch + 1
    BY <1>1, <2>1
  <2>5. FloorsGrow'
    <3>1. \A e \in 0..epoch' : AtLeast(live, floors'[e])
      BY <2>1, <2>3, <2>4 DEF AnswerInv, FloorsGrow
    <3>2. ASSUME NEW e \in 0..epoch', NEW f \in 0..epoch', e <= f
          PROVE  AtLeast(floors'[f], floors'[e])
      <4>1. CASE f = epoch + 1
        BY <2>1, <3>1, <4>1
      <4>2. CASE f \in 0..epoch
        <5>1. e \in 0..epoch
          BY <1>1, <3>2, <4>2
        <5> QED BY <2>1, <3>2, <4>2, <5>1 DEF AnswerInv, FloorsGrow
      <4> QED BY <2>4, <4>1, <4>2
    <3> QED BY <2>1, <3>1, <3>2 DEF FloorsGrow, AtLeast
  <2>6. CacheFloor'
    BY <1>6 DEF Flush, ExpireAll, Expired, Fresh, CacheFloor
  <2>7. \A q \in Queries : floors'[qepoch[q]] = floors[qepoch[q]]
                           /\ floors'[arrived[q]] = floors[arrived[q]]
    BY <1>1, <2>1 DEF EpochsPast, TypeOK
  <2>8. \A w \in Workers : task[w] # None => floors'[task[w].epoch] = floors[task[w].epoch]
    BY <1>1, <2>1 DEF EpochsPast, TypeOK, Task
  <2>9. \A q \in Queries : QueryInv(q)'
    <3> SUFFICES ASSUME NEW q \in Queries PROVE QueryInv(q)'
      OBVIOUS
    <3>1. QueryInv(q) /\ Loaded(q)' = Loaded(q) /\ Captured(q)' = Captured(q)
      BY <2>1 DEF AnswerInv, Loaded, Captured
    <3>2. /\ MeetsFloor(got[q], qepoch[q]) => MeetsFloor(got[q], qepoch[q])'
          /\ MeetsFloor(ans[q], arrived[q]) => MeetsFloor(ans[q], arrived[q])'
      BY <2>1, <2>7 DEF MeetsFloor, AtLeast
    <3> QED BY <2>1, <2>7, <3>1, <3>2 DEF QueryInv
  <2>10. \A w \in Workers : TaskInv(w)'
    BY <2>1, <2>8 DEF AnswerInv, TaskInv, MeetsFloor, AtLeast
  <2> QED BY <2>5, <2>6, <2>9, <2>10 DEF AnswerInv
<1> QED BY <1>3, <1>4, <1>5, <1>6 DEF SwapStep

\* A step that changes only query q and, at most, the tasks: what is left to show.
LEMMA AnswerFrame ==
  ASSUME AnswerInv, NEW q \in Queries, UNCHANGED <<swapVars, cacheVars>>, QueryInv(q)',
         \A p \in Queries \ {q} :
           /\ UNCHANGED <<pc[p], qepoch[p], snap[p], flight[p], got[p], ans[p], arrived[p]>>
           /\ task'[p] = task[p]
           /\ flight[p] # None => \/ task'[flight[p]] = None
                                  \/ task'[flight[p]] = task[flight[p]],
         \A w \in Workers : task'[w] = task[w] \/ TaskInv(w)'
  PROVE  AnswerInv'
<1>1. FloorsGrow' /\ CacheFloor'
  BY DEF AnswerInv, FloorsGrow, CacheFloor, Fresh, AtLeast, cacheVars, swapVars
<1>2. ASSUME NEW p \in Queries \ {q} PROVE QueryInv(p)'
  <2>1. flight[p] # None => \/ task'[flight[p]] = None
                            \/ /\ task[flight[p]] # None
                               /\ task'[flight[p]].epoch = task[flight[p]].epoch
    OBVIOUS
  <2> QED BY <2>1, QueryFrame DEF AnswerInv, cacheVars
<1>3. \A w \in Workers : TaskInv(w)'
  BY DEF AnswerInv, TaskInv, MeetsFloor, AtLeast, cacheVars
<1> QED BY <1>1, <1>2, <1>3 DEF AnswerInv

\* What a query's own invariant says, and the ranges of its epochs.
LEMMA QueryFacts ==
  ASSUME FreshInv, AnswerInv, NEW q \in Queries
  PROVE  /\ TypeOK /\ FloorsGrow /\ CacheFloor /\ QueryInv(q)
         /\ qepoch[q] \in 0..epoch /\ arrived[q] \in 0..epoch /\ epoch \in Nat
         /\ snap[q] \in Gens /\ live \in Gens
         /\ floors[qepoch[q]] \in Gens /\ floors[arrived[q]] \in Gens
         /\ AtLeast(live, floors[qepoch[q]])
BY DEF FreshInv, EpochsPast, AnswerInv, TypeOK, FloorsGrow

LEMMA AnswerQuery ==
  ASSUME FreshInv, AnswerInv, NEW q \in Queries, Arrive(q) \/ QueryStep(q), TypeOK'
  PROVE  AnswerInv'
<1>1. /\ TypeOK /\ FloorsGrow /\ CacheFloor /\ QueryInv(q)
      /\ qepoch[q] \in 0..epoch /\ arrived[q] \in 0..epoch /\ epoch \in Nat
      /\ snap[q] \in Gens /\ live \in Gens
      /\ floors[qepoch[q]] \in Gens /\ floors[arrived[q]] \in Gens
      /\ AtLeast(live, floors[qepoch[q]])
  BY QueryFacts
<1>2. \A c \in Comps : /\ live[c] \in Int /\ snap[q][c] \in Int /\ floors[qepoch[q]][c] \in Int
                       /\ live[c] >= floors[qepoch[q]][c]
  BY <1>1, ResolverAssumption DEF AtLeast, Gens, Gen
<1>3. ASSUME NEW k \in Keys, Admit(q, k) PROVE AnswerInv'
  <2>1. flight[q] = None /\ task[q] = None /\ got[q] = None
    BY <1>1, <1>3 DEF Admit, QueryInv
  <2>2. QueryInv(q)'
    BY <1>1, <1>3, <2>1 DEF Admit, QueryInv, Captured, MeetsFloor, Reply, TypeOK, cacheVars
  <2> QED BY <1>1, <1>3, <2>2, AnswerFrame DEF Admit, TypeOK
<1>4. CASE Shed(q)
  <2>1. QueryInv(q)'
    BY <1>1, <1>4 DEF Shed, QueryInv, Captured, TypeOK
  <2> QED BY <1>1, <1>4, <2>1, AnswerFrame DEF Shed, TypeOK
<1>5. CASE CaptureEpoch(q)
  <2>1. flight[q] = None /\ task[q] = None /\ got[q] = None
    BY <1>1, <1>5 DEF CaptureEpoch, QueryInv
  <2>2. Loaded(q)' = {} /\ arrived'[q] <= qepoch'[q] /\ pc'[q] = "ups"
    BY <1>1, <1>5 DEF CaptureEpoch, Loaded, TypeOK
  <2>3. QueryInv(q)'
    BY <1>1, <1>5, <2>1, <2>2 DEF CaptureEpoch, QueryInv
  <2> QED BY <1>1, <1>5, <2>3, AnswerFrame DEF CaptureEpoch, TypeOK
<1>6. ASSUME pc[q] \in {"ups", "rules", "overlay", "policy", "lookup"},
             pc'[q] \in {"rules", "overlay", "policy", "lookup", "coalesce"},
             UNCHANGED <<qepoch, flight, got, task, arrived, floors>>,
             \A c \in Loaded(q)' : snap'[q][c] = live[c] \/ (c \in Loaded(q) /\ snap'[q][c] = snap[q][c])
      PROVE  QueryInv(q)'
  <2>1. flight[q] = None /\ task[q] = None /\ got[q] = None
    BY <1>1, <1>6 DEF QueryInv
  <2>2. arrived[q] <= qepoch[q] /\ \A c \in Loaded(q) : snap[q][c] >= floors[qepoch[q]][c]
    BY <1>1, <1>6 DEF QueryInv, Captured
  <2>3. Loaded(q)' \subseteq Comps
    BY DEF Loaded, Comps
  <2>4. \A c \in Loaded(q)' : snap'[q][c] >= floors[qepoch[q]][c]
    BY <1>2, <1>6, <2>2, <2>3
  <2> QED BY <1>6, <2>1, <2>2, <2>4 DEF QueryInv
<1>7. CASE LoadUpstreams(q)
  <2>1. Loaded(q)' = {"ups"} /\ snap'[q]["ups"] = live["ups"] /\ pc'[q] = "rules"
    BY <1>1, <1>7 DEF LoadUpstreams, Load, Loaded, TypeOK, Gens, Comps
  <2>2. QueryInv(q)'
    BY <1>6, <1>7, <2>1 DEF LoadUpstreams, Load, cacheVars
  <2> QED BY <1>1, <1>7, <2>2, AnswerFrame DEF LoadUpstreams, Load, TypeOK
<1>8. CASE LoadRules(q)
  <2>1. /\ Loaded(q) = {"ups"} /\ Loaded(q)' = {"ups", "rules"} /\ pc'[q] = "overlay"
        /\ snap'[q]["rules"] = live["rules"] /\ snap'[q]["ups"] = snap[q]["ups"]
    BY <1>1, <1>8 DEF LoadRules, Load, Loaded, TypeOK, Gens, Comps
  <2>2. QueryInv(q)'
    BY <1>6, <1>8, <2>1 DEF LoadRules, Load, cacheVars
  <2> QED BY <1>1, <1>8, <2>2, AnswerFrame DEF LoadRules, Load, TypeOK
<1>9. CASE LoadOverlay(q)
  <2>1. /\ Loaded(q) = {"ups", "rules"} /\ Loaded(q)' = {"ups", "rules", "overlay"}
        /\ snap'[q]["overlay"] = live["overlay"] /\ pc'[q] = "policy"
        /\ \A c \in {"ups", "rules"} : snap'[q][c] = snap[q][c]
    BY <1>1, <1>9 DEF LoadOverlay, Load, Loaded, TypeOK, Gens, Comps
  <2>2. QueryInv(q)'
    BY <1>6, <1>9, <2>1 DEF LoadOverlay, Load, cacheVars
  <2> QED BY <1>1, <1>9, <2>2, AnswerFrame DEF LoadOverlay, Load, TypeOK
<1>10. CASE DecideAndRoute(q)
  <2> DEFINE gens == [snap[q] EXCEPT !["policy"] = live["policy"]]
  <2>1. /\ Loaded(q) = {"ups", "rules", "overlay"}
        /\ gens["policy"] = live["policy"]
        /\ \A c \in {"ups", "rules", "overlay"} : gens[c] = snap[q][c]
        /\ snap'[q] = gens
    BY <1>1, <1>10 DEF DecideAndRoute, Loaded, TypeOK, Gens, Comps
  <2>2. \/ pc'[q] = "lookup"
        \/ pc'[q] = "reply" /\ \E src \in {"block", "gateway"} : ans'[q] = Reply(src, gens)
    BY <1>1, <1>10 DEF DecideAndRoute, TypeOK
  <2>3. QueryInv(q)'
    <3>1. CASE pc'[q] = "lookup"
      <4>1. Loaded(q)' = {"ups", "rules", "overlay", "policy"}
        BY <3>1 DEF Loaded, Comps
      <4> QED BY <1>6, <1>10, <2>1, <3>1, <4>1 DEF DecideAndRoute, cacheVars
    <3>2. CASE pc'[q] = "reply"
      <4>1. flight[q] = None /\ task[q] = None /\ got[q] = None
        BY <1>1, <1>10 DEF DecideAndRoute, QueryInv
      <4>2. /\ arrived[q] <= qepoch[q]
            /\ \A c \in {"ups", "rules", "overlay"} : snap[q][c] >= floors[qepoch[q]][c]
        BY <1>1, <1>10, <2>1 DEF DecideAndRoute, QueryInv, Captured
      <4>3. AtLeast(gens, floors[qepoch[q]])
        BY <1>2, <2>1, <4>2 DEF AtLeast, Comps
      <4>4. gens \in Gens
        BY <1>1 DEF Gens, Comps
      <4> HIDE DEF gens
      <4>5. AtLeast(gens, floors[arrived[q]])
        BY <1>1, <4>2, <4>3, <4>4, AtLeastTrans DEF FloorsGrow
      <4>6. MeetsFloor(ans'[q], arrived[q])
        BY <2>2, <3>2, <4>5 DEF MeetsFloor, Reply
      <4> QED BY <1>10, <3>2, <4>1, <4>6 DEF DecideAndRoute, QueryInv, Captured, MeetsFloor,
                AtLeast, cacheVars
    <3> QED BY <2>2, <3>1, <3>2
  <2> QED BY <1>1, <1>10, <2>3, AnswerFrame DEF DecideAndRoute, TypeOK
<1>11. CASE CacheMiss(q)
  <2>1. /\ Loaded(q) = Comps /\ Loaded(q)' = Comps
        /\ pc[q] = "lookup" /\ pc'[q] = "coalesce"
    BY <1>1, <1>11 DEF CacheMiss, Loaded, TypeOK
  <2>2. QueryInv(q)'
    BY <1>6, <1>11, <2>1 DEF CacheMiss, cacheVars
  <2> QED BY <1>1, <1>11, <2>2, AnswerFrame DEF CacheMiss, TypeOK
<1>12. CASE CacheHit(q)
  <2>1. key[q] \in Keys /\ Fresh(key[q]) /\ cache[key[q]] \in Entry
    BY <1>1, <1>12 DEF CacheHit, Fresh, TypeOK
  <2>2. AtLeast(cache[key[q]].gen, floors[epoch]) /\ cache[key[q]].gen \in Gens
    BY <1>1, <2>1 DEF CacheFloor, Entry
  <2>3. floors[epoch] \in Gens /\ AtLeast(floors[epoch], floors[arrived[q]])
    BY <1>1 DEF FloorsGrow, TypeOK
  <2>4. AtLeast(cache[key[q]].gen, floors[arrived[q]])
    BY <1>1, <2>2, <2>3, AtLeastTrans
  <2>5. pc'[q] = "reply" /\ ans'[q] = Reply("cache", cache[key[q]].gen)
    BY <1>1, <1>12 DEF CacheHit, TypeOK
  <2>6. flight[q] = None /\ task[q] = None /\ got[q] = None
    BY <1>1, <1>12 DEF CacheHit, QueryInv
  <2>7. QueryInv(q)'
    BY <1>12, <2>4, <2>5, <2>6
       DEF CacheHit, QueryInv, Captured, MeetsFloor, Reply, AtLeast, cacheVars
  <2> QED BY <1>1, <1>12, <2>7, AnswerFrame DEF CacheHit, TypeOK
<1>13. ASSUME NEW f \in Flights, JoinFlight(q, f) PROVE AnswerInv'
  <2>1. f \in Workers /\ task[f] # None /\ task[f].epoch = qepoch[q] /\ TaskInv(f)
    BY <1>13 DEF JoinFlight, Matching, FlightMap, SameFlightKey, Workers, AnswerInv
  <2>2. /\ pc[q] = "coalesce" /\ pc'[q] = "wait" /\ flight'[q] = f
        /\ got'[q] = IF task[f].st = "done" THEN task[f].res ELSE None
    BY <1>1, <1>13 DEF JoinFlight, TypeOK
  <2>3. task[q] = None /\ arrived[q] <= qepoch[q]
    BY <1>1, <2>2 DEF QueryInv, Captured
  <2>4. got'[q] # None => MeetsFloor(got'[q], qepoch[q])
    BY <2>1, <2>2 DEF TaskInv
  <2>5. Loaded(q)' = {}
    BY <2>2 DEF Loaded
  <2>6. UNCHANGED <<qepoch, arrived, task, floors>>
    BY <1>13 DEF JoinFlight, cacheVars
  <2>7. got'[q] # None => MeetsFloor(got[q], qepoch[q])'
    BY <2>4, <2>6 DEF MeetsFloor, AtLeast
  <2>8. pc'[q] = "wait" /\ flight'[q] = f
    BY <2>2
  <2>9. QueryInv(q)'
    BY <2>1, <2>3, <2>5, <2>6, <2>7, <2>8 DEF QueryInv
  <2> QED BY <1>1, <1>13, <2>9, AnswerFrame DEF JoinFlight, TypeOK
<1>14. ASSUME pc[q] = "coalesce"
       PROVE  /\ flight[q] = None /\ task[q] = None /\ got[q] = None
              /\ arrived[q] <= qepoch[q] /\ AtLeast(snap[q], floors[qepoch[q]])
  BY <1>1, <1>14 DEF QueryInv, Captured, Loaded, AtLeast
<1>15. ASSUME NEW w \in Workers, task' = [task EXCEPT ![w] = NewTask(q)], floors' = floors,
              pc[q] = "coalesce"
       PROVE  TaskInv(w)' /\ task'[w].epoch = qepoch[q] /\ \A v \in Workers \ {w} : task'[v] = task[v]
  <2>1. task'[w] = NewTask(q) /\ \A v \in Workers \ {w} : task'[v] = task[v]
    BY <1>1, <1>15 DEF TypeOK
  <2> QED BY <1>14, <1>15, <2>1 DEF NewTask, TaskInv, AtLeast
<1>16. ASSUME NEW f \in Flights, LeadFlight(q, f) PROVE AnswerInv'
  <2>1. /\ pc[q] = "coalesce" /\ f \in Workers /\ task' = [task EXCEPT ![f] = NewTask(q)]
        /\ floors' = floors
    BY <1>16 DEF LeadFlight, Workers, cacheVars
  <2>2. TaskInv(f)' /\ task'[f].epoch = qepoch[q] /\ \A v \in Workers \ {f} : task'[v] = task[v]
    BY <1>15, <2>1
  <2>3. \A p \in Queries : p \in Workers \ {f} /\ flight[p] # f
                           /\ (flight[p] # None => flight[p] \in Workers \ {f})
    BY <1>1, <1>16, ResolverAssumption DEF LeadFlight, Workers, TypeOK
  <2>4. pc'[q] = "wait" /\ flight'[q] = f /\ got'[q] = None /\ task'[q] = None
    BY <1>1, <1>14, <1>16, <2>1, <2>2, <2>3 DEF LeadFlight, TypeOK
  <2>5. QueryInv(q)'
    BY <1>14, <1>16, <2>1, <2>2, <2>4 DEF LeadFlight, QueryInv, Loaded, AtLeast, cacheVars
  <2>6. \A p \in Queries \ {q} :
           /\ UNCHANGED <<pc[p], qepoch[p], snap[p], flight[p], got[p], ans[p], arrived[p]>>
           /\ task'[p] = task[p]
           /\ flight[p] # None => task'[flight[p]] = task[flight[p]]
    BY <1>1, <1>16, <2>2, <2>3 DEF LeadFlight, TypeOK
  <2>7. UNCHANGED <<swapVars, cacheVars>>
    BY <1>16 DEF LeadFlight
  <2> QED BY <2>2, <2>5, <2>6, <2>7, AnswerFrame
<1>17. CASE ResolveAlone(q)
  <2>1. /\ pc[q] = "coalesce" /\ q \in Workers /\ task' = [task EXCEPT ![q] = NewTask(q)]
        /\ floors' = floors
    BY <1>17 DEF ResolveAlone, Workers, cacheVars
  <2>2. TaskInv(q)' /\ task'[q].epoch = qepoch[q] /\ \A v \in Workers \ {q} : task'[v] = task[v]
    BY <1>15, <2>1
  <2>3. \A p \in Queries : p \in Workers
                           /\ (flight[p] # None => flight[p] \in Workers \ {q})
    BY <1>1, ResolverAssumption DEF Workers, TypeOK
  <2>4. pc'[q] = "solo" /\ flight'[q] = None /\ got'[q] = None
    BY <1>1, <1>14, <1>17, <2>1 DEF ResolveAlone, TypeOK
  <2>5. QueryInv(q)'
    BY <1>14, <1>17, <2>1, <2>2, <2>4 DEF ResolveAlone, QueryInv, Loaded, AtLeast, cacheVars
  <2>6. \A p \in Queries \ {q} :
           /\ UNCHANGED <<pc[p], qepoch[p], snap[p], flight[p], got[p], ans[p], arrived[p]>>
           /\ task'[p] = task[p]
           /\ flight[p] # None => task'[flight[p]] = task[flight[p]]
    BY <1>1, <1>17, <2>2, <2>3 DEF ResolveAlone, TypeOK
  <2>7. UNCHANGED <<swapVars, cacheVars>>
    BY <1>17 DEF ResolveAlone
  <2> QED BY <2>2, <2>5, <2>6, <2>7, AnswerFrame
<1>18. ASSUME NEW a, Answered(q, a), MeetsFloor(a, arrived[q]),
              task' = [task EXCEPT ![q] = None]
       PROVE  AnswerInv'
  <2>1. q \in Workers /\ \A p \in Queries : p \in Workers
          /\ (flight[p] # None => flight[p] \in Workers \ {q})
    BY <1>1, ResolverAssumption DEF Workers, TypeOK
  <2>2. task'[q] = None /\ \A v \in Workers \ {q} : task'[v] = task[v]
    BY <1>1, <1>18, <2>1 DEF TypeOK
  <2>3. pc'[q] = "reply" /\ flight'[q] = None /\ got'[q] = None /\ ans'[q] = a
    BY <1>1, <1>18 DEF Answered, TypeOK
  <2>4. QueryInv(q)'
    BY <1>18, <2>2, <2>3 DEF Answered, QueryInv, Captured, MeetsFloor, AtLeast, cacheVars
  <2>5. \A p \in Queries \ {q} :
           /\ UNCHANGED <<pc[p], qepoch[p], snap[p], flight[p], got[p], ans[p], arrived[p]>>
           /\ task'[p] = task[p]
           /\ flight[p] # None => task'[flight[p]] = task[flight[p]]
    BY <1>1, <1>18, <2>1, <2>2 DEF Answered, TypeOK
  <2>6. UNCHANGED <<swapVars, cacheVars>>
    BY <1>18 DEF Answered
  <2>7. \A w \in Workers : task'[w] = task[w] \/ TaskInv(w)'
    BY <2>2 DEF TaskInv
  <2> QED BY <2>4, <2>5, <2>6, <2>7, AnswerFrame
<1>19. pc[q] \in {"coalesce", "wait"} => task[q] = None /\ task = [task EXCEPT ![q] = None]
  BY <1>1 DEF QueryInv, TypeOK
<1>20. CASE TakeResult(q)
  <2>1. got[q] \in Answer /\ arrived[q] <= qepoch[q] /\ MeetsFloor(got[q], qepoch[q])
    BY <1>1, <1>20 DEF TakeResult, QueryInv, Captured, TypeOK
  <2>2. MeetsFloor(got[q], arrived[q])
    BY <1>1, <2>1, MeetsEarlier
  <2> QED BY <1>18, <1>19, <1>20, <2>2 DEF TakeResult
<1>21. CASE Expire(q)
  <2>1. MeetsFloor(Reply("servfail", NoGens), arrived[q])
    BY DEF MeetsFloor, Reply
  <2> QED BY <1>18, <1>19, <1>21, <2>1 DEF Expire
<1>22. CASE ReturnAlone(q)
  <2>1. /\ q \in Workers /\ task[q] \in Task /\ task[q].st = "done" /\ TaskInv(q)
        /\ task[q].epoch = qepoch[q] /\ arrived[q] <= qepoch[q]
    BY <1>1, <1>22 DEF ReturnAlone, QueryInv, Captured, Workers, TypeOK, AnswerInv
  <2>2. task[q].res \in Answer /\ MeetsFloor(task[q].res, qepoch[q])
    BY <1>22, <2>1 DEF ReturnAlone, TaskInv, Task
  <2>3. MeetsFloor(task[q].res, arrived[q])
    BY <1>1, <2>1, <2>2, MeetsEarlier
  <2> QED BY <1>18, <1>22, <2>3 DEF ReturnAlone
<1>23. CASE WriteReply(q)
  <2>1. flight[q] = None /\ task[q] = None /\ got[q] = None
    BY <1>1, <1>23 DEF WriteReply, QueryInv
  <2>2. QueryInv(q)'
    BY <1>1, <1>23, <2>1 DEF WriteReply, QueryInv, Captured, TypeOK
  <2> QED BY <1>1, <1>23, <2>2, AnswerFrame DEF WriteReply, TypeOK
<1> QED BY <1>3, <1>4, <1>5, <1>7, <1>8, <1>9, <1>10, <1>11, <1>12, <1>13, <1>16, <1>17,
        <1>20, <1>21, <1>22, <1>23 DEF Arrive, QueryStep

\* What a finished closure leaves: its epoch and snapshots, and a result that
\* meets the floor of that epoch.
LEMMA AnswerWorker ==
  ASSUME FreshInv, AnswerInv, NEW w \in Workers, WorkerStep(w), TypeOK'
  PROVE  AnswerInv'
<1>1. TypeOK /\ task[w] \in Task /\ task[w] # None /\ TaskInv(w)
  BY DEF FreshInv, AnswerInv, TypeOK, WorkerStep, FinishNoError, FinishNegative, FinishStale,
         FinishServFail, Running
<1>2. PICK a : Finish(w, a) /\ a \in {Reply("resolved", task[w].snap), Reply("stale", NoGens),
                                      Reply("servfail", NoGens)}
  BY DEF WorkerStep, FinishNoError, FinishNegative, FinishStale, FinishServFail
<1>3. MeetsFloor(a, task[w].epoch)
  BY <1>1, <1>2 DEF MeetsFloor, Reply, TaskInv
<1>4. /\ UNCHANGED <<swapVars, epoch, floors, pc, qepoch, snap, flight, ans, arrived>>
      /\ task'[w] = Closed(task[w], a) /\ \A v \in Workers \ {w} : task'[v] = task[v]
      /\ \A q \in Queries : got'[q] = IF w \in Flights /\ flight[q] = w THEN a ELSE got[q]
  BY <1>1, <1>2 DEF Finish, TypeOK
<1>5. FloorsGrow'
  BY <1>4 DEF AnswerInv, FloorsGrow, AtLeast, swapVars
<1>6. CacheFloor'
  <2>1. ASSUME NEW k \in Keys
        PROVE  \/ cache'[k] = cache[k]
               \/ cache'[k] = None
               \/ /\ task[w].epoch = epoch
                  /\ cache'[k] = [gen |-> task[w].snap, fresh |-> TRUE]
    <3>1. CASE FinishNoError(w)
      BY <1>1, <3>1, PutAtEpochCases DEF FinishNoError
    <3>2. CASE FinishNegative(w) \/ FinishStale(w)
      BY <3>2 DEF FinishNegative, FinishStale
    <3>3. CASE FinishServFail(w)
      BY <1>1, <3>3 DEF FinishServFail, TypeOK
    <3> QED BY <3>1, <3>2, <3>3 DEF WorkerStep
  <2> QED BY <1>1, <1>4, <2>1 DEF AnswerInv, CacheFloor, Fresh, AtLeast, TaskInv
<1>7. \A v \in Workers : TaskInv(v)'
  <2>1. TaskInv(w)'
    BY <1>1, <1>3, <1>4 DEF TaskInv, Closed, MeetsFloor, AtLeast
  <2>2. \A v \in Workers \ {w} : TaskInv(v)'
    BY <1>4 DEF AnswerInv, TaskInv, MeetsFloor, AtLeast
  <2> QED BY <2>1, <2>2
<1>8. ASSUME NEW q \in Queries PROVE QueryInv(q)'
  <2>1. QueryInv(q) /\ q \in Workers /\ (flight[q] # None => flight[q] \in Flights \cap Workers)
    BY <1>1 DEF AnswerInv, Workers, TypeOK
  <2>2. \A v \in Workers : task'[v] # None => /\ task[v] # None
                                            /\ task'[v].epoch = task[v].epoch
    BY <1>1, <1>4 DEF Closed
  <2>3. Loaded(q)' = Loaded(q) /\ Captured(q)' = Captured(q)
    BY <1>4 DEF Loaded, Captured
  <2>4. CASE w \in Flights /\ flight[q] = w
    <3>1. got'[q] = a /\ pc[q] = "wait" /\ task[w].epoch = qepoch[q]
      BY <1>1, <1>4, <2>1, <2>4, ResolverAssumption DEF QueryInv
    <3> QED BY <1>3, <1>4, <2>1, <2>2, <2>3, <2>4, <3>1 DEF QueryInv, MeetsFloor, AtLeast
  <2>5. CASE ~(w \in Flights /\ flight[q] = w)
    BY <1>4, <2>1, <2>2, <2>3, <2>5 DEF QueryInv, MeetsFloor, AtLeast
  <2> QED BY <2>4, <2>5
<1> QED BY <1>5, <1>6, <1>7, <1>8 DEF AnswerInv

LEMMA AnswerNext == FreshInv /\ AnswerInv /\ [Next]_vars => AnswerInv'
<1> SUFFICES ASSUME FreshInv, AnswerInv, [Next]_vars PROVE AnswerInv'
  OBVIOUS
<1>1. TypeOK /\ TypeOK'
  BY FreshNext DEF FreshInv
<1>2. CASE \E s \in Swappers : SwapStep(s)
  BY <1>1, <1>2, AnswerSwap
<1>3. CASE \E q \in Queries : Arrive(q) \/ QueryStep(q)
  BY <1>1, <1>3, AnswerQuery
<1>4. CASE \E w \in Workers : WorkerStep(w)
  BY <1>1, <1>4, AnswerWorker
<1>5. ASSUME NEW f \in Flights, DeleteFlight(f) PROVE AnswerInv'
  <2>1. \A v \in Workers : task'[v] = None \/ task'[v] = task[v]
    BY <1>1, <1>5 DEF DeleteFlight, TypeOK
  <2>2. \A q \in Queries : q \in Workers /\ task'[q] = task[q]
                           /\ (flight[q] # None => flight[q] \in Workers)
    BY <1>1, <1>5, ResolverAssumption DEF DeleteFlight, Workers, TypeOK
  <2>3. UNCHANGED <<swapVars, cacheVars, queryVars>>
    BY <1>5 DEF DeleteFlight
  <2>4. FloorsGrow' /\ CacheFloor'
    BY <2>3 DEF AnswerInv, FloorsGrow, CacheFloor, Fresh, AtLeast, cacheVars, swapVars
  <2>5. \A w \in Workers : TaskInv(w)'
    BY <2>1, <2>3 DEF AnswerInv, TaskInv, MeetsFloor, AtLeast, cacheVars
  <2>6. ASSUME NEW q \in Queries PROVE QueryInv(q)'
    <3>1. flight[q] # None => \/ task'[flight[q]] = None
                              \/ /\ task[flight[q]] # None
                                 /\ task'[flight[q]].epoch = task[flight[q]].epoch
      BY <2>1, <2>2
    <3> QED BY <2>2, <2>3, <3>1, QueryFrame DEF AnswerInv, cacheVars, queryVars
  <2> QED BY <2>4, <2>5, <2>6 DEF AnswerInv
<1>6. ASSUME NEW k \in Keys, EntryExpires(k) PROVE AnswerInv'
  <2>1. \A j \in Keys : Fresh(j)' => Fresh(j) /\ cache'[j] = cache[j]
    BY <1>1, <1>6 DEF EntryExpires, Fresh, Expired, TypeOK
  <2>2. UNCHANGED <<live, epoch, floors, queryVars, task>>
    BY <1>6 DEF EntryExpires, swapVars
  <2>3. FloorsGrow' /\ CacheFloor' /\ \A w \in Workers : TaskInv(w)'
    BY <2>1, <2>2 DEF AnswerInv, FloorsGrow, CacheFloor, TaskInv, AtLeast, MeetsFloor
  <2>4. \A q \in Queries : QueryInv(q)'
    BY <2>2, QueryFrame DEF AnswerInv, QueryInv, queryVars
  <2> QED BY <2>3, <2>4 DEF AnswerInv
<1>7. CASE UNCHANGED vars
  BY <1>7 DEF vars, AnswerInv, FloorsGrow, CacheFloor, TaskInv, QueryInv, Captured, Loaded,
              Fresh, AtLeast, MeetsFloor
<1> QED BY <1>2, <1>3, <1>4, <1>5, <1>6, <1>7 DEF Next

\* For any instance: no answer of the cache, a flight or the policy is older than
\* the last completed swap before the query arrived.
THEOREM AnswersNotOlder == Spec => []AnswersNotOlderThanArrival
<1>1. FreshInv /\ AnswerInv => AnswersNotOlderThanArrival
  BY DEF AnswerInv, QueryInv, MeetsFloor, AtLeast, AnswersNotOlderThanArrival
<1> QED BY <1>1, FreshInit, AnswerInit, FreshNext, AnswerNext, PTL DEF Spec
=============================================================================
