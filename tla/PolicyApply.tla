---------------------------- MODULE PolicyApply ----------------------------
(***************************************************************************)
(* How a policy edit reaches the live resolver: PolicyRuleManager           *)
(* (policy_rules.go), PolicyEngine.CompileAndApply (policy_engine.go), the   *)
(* two-phase subscription generation and the refresh tickers of SubManager   *)
(* (subscription.go), and the reload closure (main.go) with                  *)
(* Handler.swapRuleSets (handler.go) that tickers and signals share.         *)
(*                                                                         *)
(* A policy model is its revision; a subscription list is the version of its *)
(* URL that was fetched.  applyMu is held for the whole of CompileAndApply,   *)
(* so applies come one at a time and `phase' is where the current one is.     *)
(***************************************************************************)
EXTENDS Integers, FiniteSets

CONSTANTS
  Subs,         \* subscription definitions of policy rules (id, category, url)
  Chn,          \* the system-owned chnroute subscription
  Ids, Paths, Urls,
  IdOf,         \* the policy rule a subscription belongs to
  PathOf,       \* its cache file, rulesDir/<category>/<name>.txt
  UrlOf,        \* its source
  ModelSubs,    \* revision -> subscriptions of its enabled rules
  MaxRev,       \* bound on the number of edits
  MaxVer,       \* bound on the versions of a remote list
  MaxCrash,     \* bound on the number of restarts
  Tickers,      \* ticker goroutines of SubManager
  Reloaders,    \* goroutines that only reload: SIGHUP, the console
  FaultyReload, \* whether a reload of tickers and reloaders may fail
  None

AllSubs == Subs \cup {Chn}
Content == [url : Urls, ver : 0..MaxVer]
Files == [Paths -> Content \cup {None}]
PathsOf(s) == {PathOf[x] : x \in s}

ASSUME PolicyApplyAssumption ==
  /\ MaxRev \in Nat \ {0} /\ MaxVer \in Nat /\ MaxCrash \in Nat
  /\ IdOf \in [Subs -> Ids]
  /\ PathOf \in [AllSubs -> Paths]
  /\ UrlOf \in [AllSubs -> Urls]
  /\ ModelSubs \in [1..MaxRev -> SUBSET Subs]
  /\ Chn \notin Subs
  /\ FaultyReload \in BOOLEAN
  /\ \A s \in Subs : PathOf[s] # PathOf[Chn]
  /\ \A r \in 1..MaxRev : \A s, t \in ModelSubs[r] : IdOf[s] = IdOf[t] => s = t
  /\ \A s, t \in Subs : PathOf[s] = PathOf[t] => IdOf[s] = IdOf[t]
  /\ None \notin Content \cup Tickers \cup {"apply"}
  /\ "apply" \notin Tickers
  /\ Tickers \cap Reloaders = {}

VARIABLES
  rev,       \* PolicyRuleManager.model and policy.json
  modelMu,   \* PolicyRuleManager.mu is held by CommitIfRevision
  remote,    \* what each URL serves
  file,      \* cache files
  subsDisk,  \* policy-owned part of subscriptions.json
  subs,      \* policy-owned part of SubManager.subs
  txMu,      \* who holds SubManager.txMu; the apply also holds SubManager.mu
  phase,     \* where CompileAndApply is
  target,    \* the revision it compiled
  want,      \* prepared contents of the files it will touch
  todo,      \* files it has still to write or remove
  committed, \* filesCommitted
  bak,       \* backups: the files at Prepare
  prepared,  \* the compiled snapshot to publish
  loaded,    \* the chnroute its reload has read
  rules,     \* Handler.rules: the live chnroute
  plan,      \* Handler.policyPlan
  ordered,   \* Handler.orderedPolicy
  paused,    \* Handler.policyRefreshPaused
  tick,      \* ticker goroutines
  rl,        \* reload closures of tickers and reloaders
  crashes,
  good       \* history: the files the last completed writer left

diskVars == <<file, subsDisk, good>>
applyVars == <<phase, target, want, todo, committed, bak, prepared, loaded>>
liveVars == <<rules, plan, ordered, paused>>
vars == <<rev, modelMu, remote, file, subsDisk, good, subs, txMu, phase, target, want,
          todo, committed, bak, prepared, loaded, rules, plan, ordered, paused, tick,
          rl, crashes>>

Revs == 1..MaxRev
Snapshot == [rev : Revs, data : Files]
Workers == Tickers \cup Reloaders
Phases == {"idle", "prepare", "prepared", "files", "compile", "reload", "swap",
           "resume", "publish", "store", "subs", "rollback"}
Tick == [pc : {"idle", "found", "fetch", "reload", "ok"}, sub : AllSubs, canceled : BOOLEAN]
Reload == [pc : {"none", "store", "plan", "compile", "check", "publish"},
           chn : Content \cup {None}, plan : Revs, snap : Snapshot]

\* CompileRuntimePolicy: the rules of a model with the caches on disk; a missing
\* cache is an empty matcher.
Compiled(r) ==
  [rev |-> r, data |-> [p \in Paths |-> IF p \in PathsOf(ModelSubs[r]) THEN file[p] ELSE None]]

NoFiles == [p \in Paths |-> None]
NoTick == [pc |-> "idle", sub |-> Chn, canceled |-> FALSE]
NoSnapshot == [rev |-> 1, data |-> NoFiles]
NoReload == [pc |-> "none", chn |-> None, plan |-> 1, snap |-> NoSnapshot]

TypeOK ==
  /\ rev \in Revs
  /\ modelMu \in BOOLEAN
  /\ remote \in [Urls -> 0..MaxVer]
  /\ file \in Files /\ want \in Files /\ bak \in Files /\ good \in Files
  /\ subs \subseteq Subs /\ subsDisk \subseteq Subs
  /\ txMu \in Tickers \cup {"apply", None}
  /\ phase \in Phases
  /\ target \in Revs
  /\ todo \subseteq Paths
  /\ committed \in BOOLEAN
  /\ prepared \in Snapshot /\ ordered \in Snapshot
  /\ loaded \in Content \cup {None} /\ rules \in Content \cup {None}
  /\ plan \in Revs
  /\ paused \in BOOLEAN
  /\ tick \in [Tickers -> Tick]
  /\ rl \in [Workers -> Reload]
  /\ crashes \in 0..MaxCrash

\* A fresh install: no cache, PrepareRuntime has published the seeded model.
Init ==
  /\ rev = 1 /\ modelMu = FALSE
  /\ remote = [u \in Urls |-> 0]
  /\ file = NoFiles /\ good = NoFiles
  /\ subs = {} /\ subsDisk = {}
  /\ txMu = None
  /\ phase = "idle" /\ target = 1 /\ want = NoFiles /\ todo = {} /\ committed = FALSE
  /\ bak = NoFiles /\ prepared = NoSnapshot /\ loaded = None
  /\ rules = None /\ plan = 1 /\ ordered = Compiled(1) /\ paused = FALSE
  /\ tick = [t \in Tickers |-> NoTick]
  /\ rl = [w \in Workers |-> NoReload]
  /\ crashes = 0

-----------------------------------------------------------------------------
(* The model, and the world outside                                          *)

\* AddRule, UpdateRule, DeleteRule, Reorder, SetFallback: validated, saved by an
\* atomic rename, rolled back in memory if the save fails.
EditModel ==
  /\ ~modelMu
  /\ rev < MaxRev
  /\ rev' = rev + 1
  /\ UNCHANGED <<modelMu, remote, diskVars, subs, txMu, applyVars, liveVars, tick, rl, crashes>>

RemoteChanges(u) ==
  /\ remote[u] < MaxVer
  /\ remote' = [remote EXCEPT ![u] = @ + 1]
  /\ UNCHANGED <<rev, modelMu, diskVars, subs, txMu, applyVars, liveVars, tick, rl, crashes>>

-----------------------------------------------------------------------------
(* CompileAndApply                                                           *)

ApplyKeeps == <<remote, tick, rl, crashes>>

\* CompileAndApply returns: its locals are gone.
EndApply ==
  /\ phase' = "idle"
  /\ target' = 1
  /\ want' = NoFiles
  /\ todo' = {}
  /\ committed' = FALSE
  /\ bak' = NoFiles
  /\ prepared' = NoSnapshot
  /\ loaded' = None

BeginApply ==
  /\ phase = "idle"
  /\ phase' = "prepare"
  /\ target' = rev
  /\ UNCHANGED <<rev, modelMu, diskVars, subs, txMu, want, todo, committed, bak, prepared,
                 loaded, liveVars, ApplyKeeps>>

Fetched(s) == [url |-> UrlOf[s], ver |-> remote[UrlOf[s]]]

\* The old definitions of the same rule whose last-good list a failed fetch of s
\* may stage at its new path: same source, moved to another category.
MovedFrom(s) ==
  {o \in subs : /\ IdOf[o] = IdOf[s] /\ UrlOf[o] = UrlOf[s]
                /\ PathOf[o] # PathOf[s] /\ file[PathOf[o]] # None}

Staged(s) == file[PathOf[s]] = None /\ MovedFrom(s) # {}

\* What PreparePolicyGeneration will write, if the fetches of ok succeed.
WriteSet(ok) == PathsOf(ok \cup {s \in ModelSubs[target] : Staged(s)})
RemoveSet == PathsOf(subs) \ PathsOf(ModelSubs[target])

PreparedContent(ok) ==
  [p \in Paths |->
     IF p \notin WriteSet(ok) THEN None
     ELSE LET s == CHOOSE x \in ModelSubs[target] : PathOf[x] = p
          IN IF s \in ok THEN Fetched(s) ELSE file[PathOf[CHOOSE o \in MovedFrom(s) : TRUE]]]

\* PreparePolicyGeneration takes txMu and mu, fetches every list into memory (ok
\* are the fetches that passed parser, floor and shrink guards) and backs up.
Prepare(ok) ==
  /\ phase = "prepare"
  /\ txMu = None
  /\ ok \subseteq ModelSubs[target]
  /\ txMu' = "apply"
  /\ want' = PreparedContent(ok)
  /\ todo' = WriteSet(ok) \cup RemoveSet
  /\ bak' = file
  /\ committed' = FALSE
  /\ phase' = "prepared"
  /\ UNCHANGED <<rev, modelMu, diskVars, subs, target, prepared, loaded, liveVars, ApplyKeeps>>

\* A canceled fetch or an unreadable file fails the preparation.
PrepareFails ==
  /\ phase = "prepare"
  /\ txMu = None
  /\ EndApply
  /\ UNCHANGED <<rev, modelMu, diskVars, subs, txMu, liveVars, ApplyKeeps>>

\* Nothing was committed: the deferred Rollback only releases the locks.
Release ==
  /\ EndApply
  /\ txMu' = None
  /\ UNCHANGED <<rev, modelMu, diskVars, subs, liveVars, ApplyKeeps>>

ApplyCanceled == phase = "prepared" /\ Release

RevisionChanged == phase = "prepared" /\ ~modelMu /\ rev # target /\ Release

\* Defect: the apply commits whatever was edited since its snapshot.
CommitAnyRevision ==
  /\ phase = "prepared"
  /\ ~modelMu
  /\ modelMu' = TRUE
  /\ committed' = TRUE
  /\ phase' = "files"
  /\ UNCHANGED <<rev, diskVars, subs, txMu, target, want, todo, bak, prepared, loaded,
                 liveVars, ApplyKeeps>>

\* Defect: filesCommitted is not set before the first write.
CommitUnmarked ==
  /\ phase = "prepared"
  /\ ~modelMu
  /\ rev = target
  /\ modelMu' = TRUE
  /\ phase' = "files"
  /\ UNCHANGED <<rev, diskVars, subs, txMu, target, want, todo, committed, bak, prepared,
                 loaded, liveVars, ApplyKeeps>>

\* CommitIfRevision holds the model lock from here on.
Commit ==
  /\ phase = "prepared"
  /\ ~modelMu
  /\ rev = target
  /\ modelMu' = TRUE
  /\ committed' = TRUE
  /\ phase' = "files"
  /\ UNCHANGED <<rev, diskVars, subs, txMu, target, want, todo, bak, prepared, loaded,
                 liveVars, ApplyKeeps>>

\* CommitFiles: the writes, in any order, then the removals...
CommitFile(p) ==
  /\ phase = "files"
  /\ p \in todo
  /\ want[p] = None => \A x \in todo : want[x] = None
  /\ file' = [file EXCEPT ![p] = want[p]]
  /\ todo' = todo \ {p}
  /\ UNCHANGED <<rev, modelMu, subsDisk, good, subs, txMu, phase, target, want, committed, bak,
                 prepared, loaded, liveVars, ApplyKeeps>>

\* ...and subscriptions.json last.
CommitSubscriptions ==
  /\ phase = "files"
  /\ todo = {}
  /\ subsDisk' = ModelSubs[target]
  /\ phase' = "compile"
  /\ UNCHANGED <<rev, modelMu, file, good, subs, txMu, target, want, todo, committed, bak,
                 prepared, loaded, liveVars, ApplyKeeps>>

\* The snapshot is compiled before anything live changes; refreshes are paused.
CompileApply ==
  /\ phase = "compile"
  /\ prepared' = Compiled(target)
  /\ paused' = TRUE
  /\ phase' = "reload"
  /\ UNCHANGED <<rev, modelMu, diskVars, subs, txMu, target, want, todo, committed, bak, loaded,
                 rules, plan, ordered, ApplyKeeps>>

ApplyLoadRuleSets ==
  /\ phase = "reload"
  /\ loaded' = file[PathOf[Chn]]
  /\ phase' = "swap"
  /\ UNCHANGED <<rev, modelMu, diskVars, subs, txMu, target, want, todo, committed, bak,
                 prepared, liveVars, ApplyKeeps>>

ApplySwapRuleSets ==
  /\ phase = "swap"
  /\ rules' = loaded
  /\ phase' = "resume"
  /\ UNCHANGED <<rev, modelMu, diskVars, subs, txMu, target, want, todo, committed, bak,
                 prepared, loaded, plan, ordered, paused, ApplyKeeps>>

ResumeRefresh ==
  /\ phase = "resume"
  /\ paused' = FALSE
  /\ phase' = "publish"
  /\ UNCHANGED <<rev, modelMu, diskVars, subs, txMu, target, want, todo, committed, bak,
                 prepared, loaded, rules, plan, ordered, ApplyKeeps>>

\* A failed write, compilation or reload: subscriptions are rolled back.
ApplyFails ==
  /\ phase \in {"files", "compile", "reload"}
  /\ paused' = FALSE
  /\ phase' = "rollback"
  /\ UNCHANGED <<rev, modelMu, diskVars, subs, txMu, target, want, todo, committed, bak,
                 prepared, loaded, rules, plan, ordered, ApplyKeeps>>

\* Defect: the failed apply returns without releasing the transaction locks.
RollbackKeepLock ==
  /\ phase = "rollback"
  /\ IF committed THEN file' = bak /\ subsDisk' = subs
                  ELSE UNCHANGED <<file, subsDisk>>
  /\ modelMu' = FALSE
  /\ EndApply
  /\ UNCHANGED <<rev, good, subs, txMu, liveVars, ApplyKeeps>>

\* restoreFiles puts every touched file back (it is assumed to succeed: its
\* error is only reported), and all locks are released.
Rollback ==
  /\ phase = "rollback"
  /\ IF committed THEN file' = bak /\ subsDisk' = subs
                  ELSE UNCHANGED <<file, subsDisk>>
  /\ modelMu' = FALSE
  /\ txMu' = None
  /\ EndApply
  /\ UNCHANGED <<rev, good, subs, liveVars, ApplyKeeps>>

\* publishPreparedPolicy stores the plan, then the snapshot.
StorePlan ==
  /\ phase = "publish"
  /\ plan' = target
  /\ phase' = "store"
  /\ UNCHANGED <<rev, modelMu, diskVars, subs, txMu, target, want, todo, committed, bak,
                 prepared, loaded, rules, ordered, paused, ApplyKeeps>>

StoreOrdered ==
  /\ phase = "store"
  /\ ordered' = prepared
  /\ phase' = "subs"
  /\ UNCHANGED <<rev, modelMu, diskVars, subs, txMu, target, want, todo, committed, bak,
                 prepared, loaded, rules, plan, paused, ApplyKeeps>>

CanceledTicks ==
  [t \in Tickers |-> [pc |-> tick[t].pc, sub |-> tick[t].sub,
                      canceled |-> tick[t].canceled \/ tick[t].sub # Chn]]

\* Defect: the new list is not installed in memory.
PublishKeepSubs ==
  /\ phase = "subs"
  /\ tick' = CanceledTicks
  /\ good' = file
  /\ modelMu' = FALSE
  /\ txMu' = None
  /\ EndApply
  /\ UNCHANGED <<rev, remote, file, subsDisk, subs, liveVars, rl, crashes>>

\* Publish cancels the policy tickers, installs the new list and releases.
Publish ==
  /\ phase = "subs"
  /\ subs' = ModelSubs[target]
  /\ tick' = CanceledTicks
  /\ good' = file
  /\ modelMu' = FALSE
  /\ txMu' = None
  /\ EndApply
  /\ UNCHANGED <<rev, remote, file, subsDisk, liveVars, rl, crashes>>

ApplyStep ==
  \/ PrepareFails \/ (\E ok \in SUBSET Subs : Prepare(ok))
  \/ ApplyCanceled \/ RevisionChanged \/ Commit
  \/ (\E p \in Paths : CommitFile(p)) \/ CommitSubscriptions
  \/ CompileApply \/ ApplyLoadRuleSets \/ ApplySwapRuleSets \/ ResumeRefresh
  \/ ApplyFails \/ Rollback \/ StorePlan \/ StoreOrdered \/ Publish

-----------------------------------------------------------------------------
(* Tickers: runOne, updateOne, fetchAndCache                                  *)

TickTo(t, pc) ==
  tick' = [tick EXCEPT ![t] = [pc |-> pc, sub |-> tick[t].sub, canceled |-> tick[t].canceled]]

TickKeeps == <<rev, modelMu, remote, subs, applyVars, crashes>>

\* updateOne looks the subscription up under mu, which a prepared apply holds.
StartTick(t, s) ==
  /\ tick[t].pc = "idle"
  /\ txMu # "apply"
  /\ s \in subs \cup {Chn}
  /\ tick' = [tick EXCEPT ![t] = [pc |-> "found", sub |-> s, canceled |-> FALSE]]
  /\ UNCHANGED <<TickKeeps, diskVars, txMu, liveVars, rl>>

LockTx(t) ==
  /\ tick[t].pc = "found"
  /\ txMu = None
  /\ txMu' = t
  /\ TickTo(t, "fetch")
  /\ UNCHANGED <<TickKeeps, diskVars, liveVars, rl>>

EndTick(t) ==
  /\ tick' = [tick EXCEPT ![t] = NoTick]
  /\ txMu' = None

\* Fetch, parser, guard or write failed, or the ticker was canceled.
FetchFails(t) ==
  /\ tick[t].pc = "fetch"
  /\ EndTick(t)
  /\ UNCHANGED <<TickKeeps, diskVars, liveVars, rl>>

SubPath(t) == PathOf[tick[t].sub]

\* The list is what the cache already holds: success without a reload.
FetchUnchanged(t) ==
  /\ tick[t].pc = "fetch"
  /\ ~tick[t].canceled
  /\ file[SubPath(t)] = Fetched(tick[t].sub)
  /\ TickTo(t, "ok")
  /\ UNCHANGED <<TickKeeps, diskVars, txMu, liveVars, rl>>

FetchChanged(t) ==
  /\ tick[t].pc = "fetch"
  /\ ~tick[t].canceled
  /\ file[SubPath(t)] # Fetched(tick[t].sub)
  /\ file' = [file EXCEPT ![SubPath(t)] = Fetched(tick[t].sub)]
  /\ good' = file'
  /\ TickTo(t, "reload")
  /\ UNCHANGED <<TickKeeps, subsDisk, txMu, liveVars, rl>>

TickOK(t) ==
  /\ tick[t].pc = "ok"
  /\ EndTick(t)
  /\ UNCHANGED <<TickKeeps, diskVars, liveVars, rl>>

-----------------------------------------------------------------------------
(* reload: loadRuleSets, swapRuleSets, refreshOrderedPolicy                   *)

MayReload(w) == rl[w].pc = "none" /\ (w \in Tickers => tick[w].pc = "reload")

ReloadKeeps == <<rev, modelMu, remote, diskVars, subs, txMu, applyVars, plan, paused, crashes>>

LoadRuleSets(w) ==
  /\ MayReload(w)
  /\ rl' = [rl EXCEPT ![w] = [pc |-> "store", chn |-> file[PathOf[Chn]], plan |-> 1,
                              snap |-> NoSnapshot]]
  /\ UNCHANGED <<ReloadKeeps, rules, ordered, tick>>

\* An unreadable chnroute file: the ticker reports the failure, keeping the cache.
ReloadFails(t) ==
  /\ FaultyReload
  /\ MayReload(t)
  /\ EndTick(t)
  /\ UNCHANGED <<TickKeeps, diskVars, liveVars, rl>>

\* The closure returns: a ticker's update has succeeded.
EndReload(w) ==
  /\ rl' = [rl EXCEPT ![w] = NoReload]
  /\ IF w \in Tickers THEN TickTo(w, "ok") ELSE UNCHANGED tick

\* swapRuleSets: the refresh is skipped while an apply is publishing.
StoreRules(w) ==
  /\ rl[w].pc = "store"
  /\ rules' = rl[w].chn
  /\ IF paused THEN EndReload(w)
     ELSE /\ rl' = [rl EXCEPT ![w] = [pc |-> "plan", chn |-> None, plan |-> 1,
                                      snap |-> NoSnapshot]]
          /\ UNCHANGED tick
  /\ UNCHANGED <<ReloadKeeps, ordered>>

LoadPlan(w) ==
  /\ rl[w].pc = "plan"
  /\ rl' = [rl EXCEPT ![w] = [pc |-> "compile", chn |-> None, plan |-> plan,
                              snap |-> NoSnapshot]]
  /\ UNCHANGED <<ReloadKeeps, rules, ordered, tick>>

CompileRefresh(w) ==
  /\ rl[w].pc = "compile"
  /\ rl' = [rl EXCEPT ![w] = [pc |-> "check", chn |-> None, plan |-> rl[w].plan,
                              snap |-> Compiled(rl[w].plan)]]
  /\ UNCHANGED <<ReloadKeeps, rules, ordered, tick>>

\* An unreadable cache keeps the previous snapshot and is only logged.
CompileRefreshFails(w) ==
  /\ FaultyReload
  /\ rl[w].pc = "compile"
  /\ EndReload(w)
  /\ UNCHANGED <<ReloadKeeps, rules, ordered>>

\* "if h.policyPlan.Load() == plan": the plan is compared...
CheckPlan(w) ==
  /\ rl[w].pc = "check"
  /\ IF plan = rl[w].plan
       THEN /\ rl' = [rl EXCEPT ![w] = [pc |-> "publish", chn |-> None, plan |-> rl[w].plan,
                                        snap |-> rl[w].snap]]
            /\ UNCHANGED tick
       ELSE EndReload(w)
  /\ UNCHANGED <<ReloadKeeps, rules, ordered>>

\* Defect: the recompiled snapshot is dropped.
DropRefreshed(w) ==
  /\ rl[w].pc = "publish"
  /\ EndReload(w)
  /\ UNCHANGED <<ReloadKeeps, rules, ordered>>

\* ...and the snapshot stored, in two separate steps.
StoreRefreshed(w) ==
  /\ rl[w].pc = "publish"
  /\ ordered' = rl[w].snap
  /\ EndReload(w)
  /\ UNCHANGED <<ReloadKeeps, rules>>

ReloadStep(w) ==
  \/ StoreRules(w) \/ LoadPlan(w) \/ CompileRefresh(w) \/ CompileRefreshFails(w)
  \/ CheckPlan(w) \/ StoreRefreshed(w)

TickStep(t) ==
  \/ LockTx(t) \/ FetchFails(t) \/ FetchUnchanged(t) \/ FetchChanged(t) \/ TickOK(t)
  \/ ReloadFails(t) \/ LoadRuleSets(t) \/ ReloadStep(t)

-----------------------------------------------------------------------------
\* The daemon is killed and restarts from what is on disk.
Restart ==
  /\ crashes < MaxCrash
  /\ crashes' = crashes + 1
  /\ modelMu' = FALSE
  /\ subs' = subsDisk
  /\ txMu' = None
  /\ EndApply
  /\ rules' = file[PathOf[Chn]]
  /\ plan' = rev
  /\ ordered' = Compiled(rev)
  /\ paused' = FALSE
  /\ tick' = [t \in Tickers |-> NoTick]
  /\ rl' = [w \in Workers |-> NoReload]
  /\ good' = file
  /\ UNCHANGED <<rev, remote, file, subsDisk>>

Next ==
  \/ EditModel \/ Restart \/ BeginApply \/ ApplyStep
  \/ \E u \in Urls : RemoteChanges(u)
  \/ \E t \in Tickers : TickStep(t) \/ \E s \in AllSubs : StartTick(t, s)
  \/ \E r \in Reloaders : LoadRuleSets(r) \/ ReloadStep(r)

Spec == Init /\ [][Next]_vars

\* Goroutines run on, fetches end by their 30 s timeout, and Go's mutexes hand
\* over to a waiter that has starved.
Fairness ==
  /\ WF_vars(ApplyStep)
  /\ SF_vars(\E ok \in SUBSET Subs : Prepare(ok))
  /\ \A t \in Tickers : WF_vars(TickStep(t)) /\ SF_vars(LockTx(t))
  /\ \A r \in Reloaders : WF_vars(ReloadStep(r))

FairSpec == Spec /\ Fairness

-----------------------------------------------------------------------------
(* Properties                                                                *)

Quiet ==
  /\ phase = "idle"
  /\ \A t \in Tickers : tick[t].pc \in {"idle", "found"}
  /\ \A w \in Workers : rl[w].pc = "none"

\* An apply publishes the model as the operator last edited it, although edits
\* go on while it fetches ("instead of publishing stale state",
\* policy_engine.go:88-91).
NoStalePublish == [][plan' # plan => plan' = rev]_vars

\* Outside an apply the cache files are those of the last writer that completed:
\* a failed apply, wherever it failed, leaves and loses nothing
\* (subscription.go:723-735).
FailedApplyRestores == txMu # "apply" => file = good

\* Outside an apply the list in memory is the list on disk, also after a restart
\* in the middle of one.
SubsPersisted == txMu # "apply" => subs = subsDisk

\* Every policy cache on disk belongs to a live subscription: a ticker that looked
\* its subscription up before an apply removed it does not write its cache again
\* (subscription.go:184-187, 739-761).
CachesListed ==
  txMu # "apply" =>
    \A p \in Paths : file[p] # None => p \in PathsOf(subs \cup {Chn})

\* When nobody is half-way, the live policy and chnroute are those on disk, if
\* reloads do not fail and come from tickers and applies only.
LiveFollowsDisk ==
  Quiet => ordered = Compiled(plan) /\ rules = file[PathOf[Chn]]

\* "a slow refresh of an old plan cannot overwrite a newer apply's snapshot"
\* (handler.go:364-365): when nobody is half-way, the snapshot is of the plan.
RefreshKeepsNewerApply == Quiet => ordered.rev = plan

\* A subscription update that reports success has its list live: updateOne
\* "fetches, parses, and caches a single subscription by ID, then calls reload on
\* success" (subscription.go:474-475).
SuccessIsLive ==
  \A t \in Tickers : tick[t].pc = "ok" =>
    IF tick[t].sub = Chn THEN rules = file[SubPath(t)]
    ELSE SubPath(t) \in PathsOf(ModelSubs[ordered.rev]) =>
           ordered.data[SubPath(t)] = file[SubPath(t)]

\* Every apply ends, and so does every update: no order of the model, transaction
\* and subscription locks deadlocks.
AppliesEnd == phase # "idle" ~> phase = "idle"
TicksEnd == \A t \in Tickers : tick[t].pc # "idle" ~> tick[t].pc = "idle"
=============================================================================
