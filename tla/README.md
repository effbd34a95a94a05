# A formal model of 5gpn (Privdns-Gateway)

TLA+ modules, TLC configurations and TLAPS proofs kept beside the code in `src/`.
Every definition is translated from the Go and shell sources; `PROJECT.json` names the
file, the lines and the symbol of each one, lists the hazards the properties are aimed
at, and pairs each checked property with a defect that breaks it (the operators marked
`Defect:` in the modules; nothing else uses them).

```
tlc -workers 2 -config MCResolver.cfg MCResolver     # any run; see "Runs"
tlapm ResolverProofs.tla                              # any proof module
```

## 1. The system

5gpn is a DNS-steered gateway. Three processes run on one host:

* **5gpn-dns** (`cmd/5gpn-dns`, Go) answers DNS over TLS, plain DNS and DoH-like panel
  names, decides for each name whether the client goes direct, is blocked or is sent to
  the gateway address, and is the whole control plane: HTTP API, web console, Telegram
  bot, policy rules, list subscriptions, and the transactions that change the other two.
* **5gpn-intercept** (`cmd/5gpn-intercept`, Go) is a MITM sidecar for the names that
  extensions capture. It reads `config.json` and a leaf certificate, runs scripts.
* **mihomo** (external) is the data plane; 5gpn-dns writes its `config.yaml` and asks it
  to load it (`PUT /configs`).

A root-owned systemd unit (`intercept-cert-renew.sh`) issues the leaf whenever
`config.json` changes. Shell scripts install, migrate and renew.

### Inventory

| Component | State it keeps | Operations | Interacts by | Correct when |
|---|---|---|---|---|
| Resolver (`handler.go`) | atomic snapshots (upstreams, rules, overlay, policy), flight map, admission semaphore | serve, resolve, coalesce, swap / publish | snapshots swapped by control-plane goroutines; cache; upstream groups | an answer and a cache entry are never older than the snapshots in force; every query is answered |
| Answer cache (`cache.go`) | map, epoch | Get, GetStale, PutAtEpoch, Flush | called by resolver goroutines; flushed by every swap | fresh = current epoch; TTL and grace bounds; capacity |
| Upstream group (`upstream.go`, `breaker.go`) | failure count, open-until, probe flag | Exchange; allow, record, recordCanceled | concurrent queries; cancelled by arbitration | one probe, never latched, members share the budget |
| Arbitration (`arbitrate.go`) | none | race china and trust, decide by chnroute | cancels the losing group | the choice depends on membership alone |
| China addresses (`chnroute.go`) | sorted, merged ranges | load, Contains | lists on disk; arbitration, reload | finds exactly the listed addresses |
| Upstream and ECS settings (`controller.go`, `ecs.go`, `upstreams.go`) | live groups, two override files | replace the groups, set the subnet, load at start | handler, exchangers, cache | a setting survives a swap, a failed save, a restart |
| Policy rules (`policy_rules.go`) | model, revision, `policy.json` | add, update, delete, reorder, set fallback, commit-if-revision | engine | what is live is a committed model |
| Policy engine (`policy_engine.go`, `policy_compile.go`) | applyMu | CompileAndApply, PrepareRuntime | rules, subscriptions, handler | all or nothing; never stale |
| Subscriptions (`subscription.go`) | list in memory and on disk, cache files, tickers, locks | prepare / commit / rollback / publish a generation; periodic and manual updates | engine (two phases), reload closure | disk, memory and tickers agree; a failed apply loses nothing |
| Reload (`main.go`) | none | load lists, swap | SIGHUP, console, tickers, applies | live = disk |
| Interception manager (`intercept_module_manager.go`, `intercept_mihomo.go`, `api_intercept*.go`) | `config.json`, the DNS overlay, lock | import, update, delete, enable, bind, reorder, MITM switch | document → certificate unit → mihomo → DNS overlay | the four stores agree; a binding always exists |
| Manifest parser and document checks (`intercept_module_parser.go`, `intercept_module_types.go`, sidecar `config.go`) | none | normalize, validate, three times over | one document, three programs; before a commit the daemon also runs the sidecar's `--check-config` | what one commits the next takes |
| Raw mihomo editor (`api_mihomo_config.go`, `mihomo_config.go`) | `config.yaml`, backup, lock | PUT, reset | candidate lock of the interception manager | it cannot break the interception rules unnoticed |
| Ingress modules (`api_mihomo_ingress_modules.go`) | rules in `config.yaml` | switch on / off | the same file lock | rolled back when mihomo refuses |
| Certificate unit (`intercept-cert-renew.sh`, systemd) | leaf, `cert-state` | read request, publish | PathChanged on `config.json` | converges to the document |
| Extension marketplace (`extension_marketplace.go`) | sources document, two locks | add, refresh, delete, install, previews | fetches outside the locks; interception manager | commits what the caller saw; installs what is listed |
| Bot supervisor (`botsupervisor.go`) | configuration, `tgbot.json`, generations, retry loops, the running bot | Start, Apply, retry, report health | getMe over the network; console; bot | newest request wins, one bot polls, state is honest |
| Bot extension management (`bot_extension*.go`, parts of `bot.go`) | tokens, inputs, generations, active operations | lists, previews, confirmations, inputs, cancel, removal of administrators | one goroutine per update; marketplace and interception manager | a confirmation acts once, on what was reviewed, if nothing newer came |
| Rate limiter (`ratelimit.go`) | token buckets | allow, sweep | API handlers | the sweep is not observable |
| Sidecar: configuration and leaf (`config.go`, `cert.go`, `main.go`) | last good document and leaf, by modification time | poll, start, handshake | document, leaf files | a routed host gets a leaf that covers it; follows the document |
| Sidecar: storage (`module_runtime.go`) | values per extension, `store.json` | set, delete, clear, prune, load | scripts, the document | what a script was told is stored is stored |
| Egress DNS broker | none (reads the overlay) | choose group per name | overlay, exchangers | follows the binding in force |
| TLS certificates (`cert.go`), alerts, certificate monitor, query log, statistics, audit, heartbeat, watchdog | counters, rings, a cached pair | – | – | bounded; alert once per change |
| Sidecar proxy; installer, scripts, web console | sockets; host files; browser | – | – | – |

### What is hard about it

* Queries load four snapshots one by one while other goroutines swap them, resolve for
  seconds and then write a shared cache; concurrent misses share a flight.
* An apply holds three levels of locks, fetches lists from the network in the middle,
  renames several files and publishes to memory; any step may fail, the process may die,
  and tickers refresh the same files by themselves.
* An extension change spans four stores, two of them outside the process, and the
  certificate arrives asynchronously. Rollback itself can fail. The document is
  checked by three programs with three pieces of code; a commit runs the first two.
* Circuit-breaker outcomes arrive from calls of different ages, some of them cancelled.
* The bot handles each update in a goroutine of its own, so a cancellation may overtake
  what it cancels; its supervisor builds bots over the network, outside every lock.
* The sidecar reads two files that a script renames one by one, and keeps the last good
  of each by modification time.

`PROJECT.json` "hazards" lists each of these at its line with the properties that guard it;
the ones no property covers say why.

## 2. Modules

| Module | Models | Run | Proved in |
|---|---|---|---|
| `Resolver` | handler.go: queries, snapshots, cache epoch, flights | resolver, serving | `ResolverProofs` |
| `CacheAbs` | what the resolver relies on: each key absent, fresh or expired | stored (as a PROPERTY of `Cache`) | `StoredProofs` |
| `Cache` | cache.go with its clock | stored | `StoredProofs` |
| `Upstream` | group.Exchange and the breaker, with time as countdowns | serving, upstream_slow | `ServingProofs` |
| `Settings` | PUT /api/upstreams, PUT /api/ecs, their files and the start | serving, settings_race | `ServingProofs` |
| `RateLimit` | the limiter and one that never sweeps | serving | `ServingProofs` |
| `Chnroute` | loading the China addresses and looking one up | serving | `ServingProofs` |
| `Arbitration` | one A question: both groups, the choice, the rewrite | serving | `ServingProofs` |
| `PolicyApply` | rules → engine → subscriptions → reload → handler | policy_apply, stored, policy_race, policy_retry | `StoredProofs` |
| `InterceptTx` | the interception transactions with the certificate unit | interception, intercept_race | `InterceptProofs` |
| `Documents` | what the daemon, the sidecar and the helper accept, what an import makes of a manifest, which rules run on a message | interception (assumptions) | `SidecarProofs` |
| `SidecarLeaf` | document and leaf in the sidecar, the helper's renames, start and stop | interception | `SidecarProofs` |
| `ExtensionStore` | the scripts' storage and its pruning | interception | `SidecarProofs` |
| `BotSupervisor` | the bot's life cycle | console, bot_reports | `ConsoleProofs` |
| `BotExtensions` | extension management in the bot | console | `BotProofs` |
| `Marketplace` | sources and installs | console | `ConsoleProofs` |
| `Loops` | the loop that keeps some elements of a slice (used by `InterceptTx`, `Arbitration`) | interception, serving | `LoopProofs` |

**Resolver.** A snapshot pointer is a generation number, since every Store installs a new
pointer. A query is a program counter through the loads in the code's order (epoch,
upstreams, rules, overlay, policy), the cache lookup and `coalesceResolution` (join, lead,
or resolve alone when the table is full). A resolution is a task of a flight or of the
query itself; it ends with an answer that records the generations it was computed from,
a negative answer, a stale answer or SERVFAIL, and puts with the epoch it captured. Swaps
are two steps, store and flush, as in the code. History variables `floors` and `arrived`
remember which generations were live when each epoch began and in which epoch a query
arrived. What is abstracted: the answer's records, name matching (a table from policy
generation and key to action), expiry (an environment step; `Cache` has the clock).

**Cache.** Ticks are half seconds so that the cut to whole seconds matters. `orig` and
`put` are history: the expiry the TTL gave and the epoch of the put. Its refinement
mapping to `CacheAbs` reads `absent / fresh / expired` off the map and the clock; `CacheAbs`
is the cache of `Resolver` for one key at a time.

**Upstream.** Countdowns of the cooldown, each call's budget and its attempt; `Elapse` never
passes an attempt's limit, which is the deadline of its context.

**Settings.** A call is a sequence of its unlocked steps: validate, build the groups, carry
the subnet of the live China group, swap, save; or load the group, set, save. `told` is
what the replies announced. An address is a kind of entry (blank, IPv4, DoT, bare name).

**RateLimit.** Credit is counted in ticks. A request reads the clock before the lock, so it
may carry a time up to `Skew` old. `kept` is a second limiter that never drops a bucket.

**Chnroute.** Lines are prefixes (what is no IPv4 prefix is skipped by the code). `sort.Slice`
is not stable, so ranges of one start come in any order; the merge takes one range a step
and `sort.Search` halves once a step. Addresses are `0..Space-1`, and `start - 1` wraps.

**Arbitration.** `Hosts` are addresses and a list is the set of them that `Chnroute` finds
(`LookupExact` justifies that). `came` is both channels, `ctxOver` the context that the
return cancels; an exchange may still return a reply after that, which nobody reads. The
authority section and the latency counters are left out. `Rewritten` keeps positions of the
answer: the first foreign one, which becomes the gateway's, no later one, and no signature.

**PolicyApply.** `phase` is where the one apply is (applyMu). Each write or removal of a
cache file is a step of its own, so are the save of the list, each pointer store, each step
of a reload, and each may fail. A subscription list is the version of its URL.

**InterceptTx.** One actor per request. `doc`, `file`, `running`, `overlay`, `cert` are the
five stores; `mu` and `mlock` the manager's and the file's lock (the document store's lock
is only held under `mu` where it protects a write). Each write, PUT and undo is a step that
may fail; a failed PUT may or may not have taken effect. The certificate unit reads the
document in one step and publishes in another. A module's capture, egress and policy rules
are one rule of the file and its hosts are one value per version; module hosts do not
overlap. A request changes one field. `late` and `stuck` are history, used only to state
the exceptions the properties name.

**Documents.** Pure. `DaemonAccepts`, `SidecarAccepts` and `HelperAccepts` are translated
each from its own code, field by field (and what the daemon commits passes the first two,
`Committed`, since it runs the sidecar's `--check-config` on every candidate): limits, patterns, mappings that must agree, origins,
routing rules, settings, actions, order. A name is a sequence of labels; a text whose bytes
do not matter is a length or a kind. `Imported` is the parser's normalization;
`MatchingRules` and `MappedBy` are what the sidecar asks of a document per message.

**SidecarLeaf.** Files are told apart by modification time: a document's version, a leaf's
issue. The helper installs chain, key and state one rename after the other; a handshake
takes the leaf's mutex, stats both files and reads both, so it may see any mixture.
`steady` marks a handshake that saw one state of the files. At its start the sidecar reads the
document and then its modification time; `missed` is history, the document placed between the
two, which the process takes for the one before. The properties except it by that name.

**ExtensionStore.** One map and one file; each change is saved whole or taken back; a prune
carries the document its goroutine read earlier; scripts go on in an older document; a start
that cannot read the file goes on with nothing.

**BotSupervisor.** `holder` is transitionMu, held over a commit; each critical section under
`mu` alone is one action; getMe is a step outside both. `setters` are the goroutines that
install health reporters, in any order.

**BotExtensions.** Every update is an operation `op`: it checks, advances its owner's
generation, registers itself and cancels the one before, resolves selections, fetches,
issues tokens, shows a review. A list reads its view, then revokes the selections of each kind
and issues its own, each under the store's lock for itself, and may end in between. A confirmation consumes its token and applies what was
reviewed to the documents of that revision. Tables give for each list and preview the
selection it needs and the documents it binds. Removal of administrators goes through
`replacing`, one step per administrator, as in `ReplaceAdmins`.

**Marketplace.** A request is checked against its revision, fetches outside the locks,
takes `manager.mu` and `store.mu`, compares again, writes; an install goes on to the module
manager with both held. A preview checks the modules and the source under their locks one after
the other. An index is its id, its final URL and the manifest it lists.

**MC modules and `focus`.** Parts that share no model state are checked in one run: a
variable `focus` chooses the part that moves in a behavior, the others rest in an initial
state. So a composite has the sum of its parts' states, not the product, and each part's
properties are checked exactly as in a run of its own. Parts that do share state are one
module (`PolicyApply`, `InterceptTx`) or interact by a refinement (`CacheAbs`).

## 3. Runs

| Run | Instance | Shows |
|---|---|---|
| resolver | 2 queries and more that are shed, 1 flight, 1 key; any swaps before one flush, or 2 policy publications | no fresh entry and no answer older than what is live, for joined, led and lone resolutions |
| serving | 3 queries, 2 slots, 1 flight, every kind of name; 3 callers, 2 members, budget below cooldown; 3 settings calls with failing saves and a restart; 2 clients, clock of 12; up to 3 prefixes over 8 addresses; 5 replies per group, 2 lists, 2 reloads | one probe, shares of the budget, exact lookups, an answer by membership, settings and replies agree, sweep unseen, and liveness |
| stored | 3 keys in 2 slots, TTL 0 or above the maximum, 2 flushes; 2 subscriptions of a rule that changes category, 3 revisions, 2 tickers, applies failing anywhere, a restart | what the cache serves and its refinement; no stale publication; disk, memory and live policy agree |
| policy_apply | 1 subscription beside chnroute, added and removed, 2 tickers, applies and reloads failing anywhere, a restart | the disk survives faults; locks are released |
| interception | 2 modules, 2 requests of any kind, every step failing, 1 restart; 2 handshakes, 2 replacements of the document at any time, the start of the sidecar included; 2 extensions with 1 key each, 2 scripts, 2 pruners, 3 changes | stores agree, bindings exist, certificates precede, covered handshakes, kept answers, and liveness; the assumptions of `MCDocuments` on thousands of documents |
| console | 2 applies, 2 bots, failing getMe; 3 updates of one chat with racing handlers; 3 marketplace requests, a moving remote | last request wins, one bot, honest state, confirmations, revocation, budgets, revisions, locks released |
| upstream_slow | budget above cooldown | finding 1: a second probe |
| policy_race | + SIGHUP | finding 2: an older snapshot stays live |
| policy_retry | + failing reloads | finding 3: a retry reports success without a reload |
| intercept_race | 2 raw edits | finding 4: reconciled in the reverse order |
| bot_reports | 2 applies: a start, then other administrators | finding 5: the older reporter stays installed |
| settings_race | 2 calls at once | finding 6: an announced subnet is lost |

*Why the bounds suffice.* The races are between a reader and a writer, or between two
writers: two queries and two publications give every order of load, store, flush, put and
join; a third query is only needed where something is full, and is shed (`TwoServed`). In the cache
a third key at capacity two makes every put of it evict. Three callers let the breaker see a
probe, a call from before the opening and one that cancels. In stored the rule moves
to another category (so a file moves) and then goes away (so a file is removed) while one
ticker holds the transaction lock and another holds an outdated lookup. In interception two
requests race; each passes through every step alone with a failure at any of them, beside
the certificate unit and one restart. Two handshakes and two replacements let one read
across another's reload. In console an update is previewed, superseded and confirmed: three
updates of one chat are the shortest sequence, and `Plans` names the sequences with a race
in them; the budget of tokens is small enough to be full.

`MaxGen`, `GenBound`, `MaxEpoch`, `Horizon`, `MaxRev`, `MaxVer`, `MaxCrash`, `MaxOps`,
`MaxCalls`, `MaxBusy`, `MaxStarts`, `MaxTime`, `MaxApplies`, `MaxFails`, `MaxEvents`, `Plans`,
`MaxAsks`, `AskPlans`, `MaxReloads`, `MaxRemote`, `MaxHands`, `MaxDocs`, `MaxTurns`, `MaxWrites`,
and the CONSTRAINTs `OneFlushOrPolicyTwice`, `TwoServed` are bounds of the models, not of the
code; the code's own limits are `CacheMax`, `EvictSample`, `FlightLimit`, `MaxInflight`, `N`,
`Threshold`, `Cooldown`, `QueryTimeout`, `Cost`, `Cap`, `Ceiling`, `MaxTokens`, `MaxBytes`,
`FetchSlots`, `MaxSources`, `MaxKeys`, `MaxStored` and `Space`, made small.
In serving, `MaxBusy` = 1: settings calls come one after the other, since two at once lose a
subnet (finding 6). The composites and the other runs that say so turn the deadlock check off: with no request left the system rests.

*Fairness.* Resolver: a goroutine that can run does, and an exchange ends by its context's
deadline; nobody has to send a query or swap. Upstream: time passes and an attempt ends by
its deadline. Arbitration: the query goes on and an exchange ends with its context.
PolicyApply: the apply and the tickers go on, each fetch and reload being
bounded; edits, remote changes and restarts are not fair. InterceptTx: a request that was
sent goes on, since each of its waits has a limit (the certificate's is 15 s), and the
certificate unit runs again (its timer is daily even if PathChanged is missed). SidecarLeaf:
the sidecar's ticker and the path units go on. BotSupervisor and Marketplace: what is under
way goes on, since getMe, fetches and waits for locks have contexts with deadlines. The
safety parts (Cache, Settings, RateLimit, ExtensionStore, BotExtensions) have no fairness.

## 4. Proofs

Every safety property that a passing run checks, invariant or action property, is also a
theorem, for every value of the constants that the named assumptions and the hypotheses below
allow. Each proof has the same shape: an inductive invariant of named parts, `Init => Inv`,
`Inv /\ [Next]_vars => Inv'` with one step per action, and `Inv => property`.

| Theorem | Hypothesis | Why |
|---|---|---|
| `ProbeIsSingle` | `QueryTimeout < Cooldown` | upstream_slow shows a second probe without it |
| `LiveIsOnDisk`, `SuccessfulUpdateIsLive` | no failing reload, no SIGHUP or console reload | policy_race and policy_retry show each is needed |
| `NoOrphanCaches` | no restart in the middle | a crash may leave an unlisted file, which nothing reads |
| `CaptureIsRouted` | one editor of mihomo's text at a time (any number of module changes) | intercept_race shows two lose the order |
| `SettingsAreAnnounced` | one settings call at a time | settings_race shows two lose a subnet |

**`ResolverProofs`.** `CacheFreshness`: an entry being fresh says nothing by itself about a
resolution under way, so the invariant adds `QueriesCurrent` and `TasksCurrent`: whoever holds
the current epoch has loaded only what is live or is still to be flushed for. A flush moves the
epoch, which empties both, and expires the cache, so a put that passes the epoch check carries
current generations. `AnswersNotOlder`: `AnswerInv` bounds what each query, task, flight result
and cache entry carries from below by the floor of its epoch; joining compares epochs, so a
waiter's floor is its flight's.

**`StoredProofs`**, the cache. `FreshEntriesCurrent`, `ServedBounded`, `StaleServedBounded` rest
on `EntryInv`: an entry of the current epoch has its own expiry, one of an earlier epoch expired
at the last flush. `CapacityKept`: a put of a new key evicts first. `ExpiredGoFirst`: the victim
is expired as long as the sample, which is then the whole cache, has such an entry.
`CacheRefinement`: the initial states map, and each step maps to a step of `CacheAbs` or
stutters; a tick may expire several keys at once.

**`StoredProofs`**, the policy. `IInv` = types, locks (`LockInv`: who holds txMu and the model in
each phase) and disk (`DiskInv`: backups are what the last writer left until the commit). From it
`FailedApplyLosesNothing`, `SubscriptionsPersisted`, `PublishesCurrentModel`; with `CacheInv`,
`NoOrphanCaches`. `LiveInv` gives the live policy in each phase of an apply (`ApplyLive`), at rest
(`IdleLive`) and in a ticker's reload (`ReloadLive`): whoever has yet to publish holds what is on
disk. Refreshes are paused exactly while an apply reloads (`PauseInv`).

**`ServingProofs`.** No two of its sections share state.
* `SweepUnobservable`: a bucket that only the limiter without a sweep still holds has been idle
  for `Cap + Skew`, so it is full at any time a request can carry. It rests on
  `WindowAssumption`, which the code's factor of ten gives unless the ceiling of an hour is reached.
* `LookupIsMembership`: sorting keeps the addresses covered; each round of the merge keeps the
  ranges apart and in order (`ApartInv`) and covers one range more (`MergeInv`), for which the
  sorted order is needed; the search keeps the answer between `low` and `high` (`SearchInv`).
  `ChnrouteAssumption`: sizes divide the space, as powers of two do.
* `SettingsAreAnnounced`: `CallInv` says of a call at each of its steps what of it is in use and
  on disk, with saves that fail and restarts between.
* `ProbeSlotNotLeaked`, `ProbeIsSingle`: `AloneInv` says a probe is the only running call, because
  every call from before the opening has less budget left than the cooldown. `SlicesAreFair`:
  `ShareInv` says that what an attempt leaves, were it to use its whole limit, is a share for each
  later member. `OpensAtThreshold` needs the types alone.
* `AnswerFollowsMembership`: `Events` says that what came is final (a goroutine that has sent sends
  nothing more), that each point of the arbitration is reached with the replies it is decided by,
  and that the list is the one loaded first; `RewrittenIs` says, for a section of any length, which
  records the two loops over it leave.

**`InterceptProofs`.** `BindingsAlwaysExist`: `IInv` gives each phase of a request what it has
established; who is in a transaction holds both locks, and its old document and both texts agree
with the file's groups, so every write and every rollback keeps the bindings, although neither
writer checks again at the write. `ChangesInv` adds what a change has on disk at each of its steps
(`ChangeInv`), what it was fetched for (`FetchInv`) and which leaf is out (`LeafInv`):
`EnabledSnapshotsStay`, `EnabledUnderLeaf`. `OverlayInv` says which overlay goes with which text
and document while a change or an edit is between its steps: `CaptureIsRouted`. `TypeInv`:
`InterceptTypeCorrect`, which needs that a document's order lists no module twice.

**`SidecarProofs`.** Documents: `SidecarTakesDaemons`: each of the daemon's own checks gives the
sidecar's, once scripts compile, patterns end with no dot and credentials have at most 255 bytes
(`Loadable`; the examples `OnlyTheDaemonAccepts` show that its own check leaves each of these to
the sidecar's `--check-config`, which it runs before every commit); `HelperTakesCommitted`: what
passes both is never refused by the root helper; `CoversSound` by the transitivity of "a label
more below"; `ActionsOwnTheirHosts`. These are statements about every document, which no run could enumerate.
Storage: `AnswersAreStored`, on `StoreInv`: file and memory each fit
the limits, so a save is refused only for what was not answered. Leaf:
`RoutedHostsAreCovered`: a document or a leaf in use that carries the file's time is the file's
(`ConfInv`, `LeafInUse`) unless it was placed in the instant of the start (`missed`), and what a
handshake has read so far is the one state of the files that it saw (`SteadyInv`). `PartsTypeCorrect` composes these with `InterceptProofs`.

**`BotProofs`.** `CoreInv` says of an update at each of its steps what it has chosen, fetched and
reviewed, and the same of tokens, awaited inputs and registrations: `MutationsAreAsReviewed`. No
update is ahead of its owner's generation (`GenInv`): `OlderConfirmationsAreVoid`. What is
registered is what is not cancelled (`ListedInv`), and behind every update that is no longer its
owner's newest somebody is on the way to cancel it (`ChaseInv`): `EveryPreviewIsReachable`. A
pressed button is of an update past its review (`PressInv`), and a removed administrator has none
left that counts (`RemovedInv`): `RemovedAdminsAreVoid`. `Budget` says the byte account is
exactly what tokens and awaited inputs take; `SlotInv` ties each slot to an update at work:
`StoreWithinBudget`.

**`ConsoleProofs`.** `SupInv`: the holder of transitionMu is the newest update (`HolderInv`), so
disk and memory differ only where it is (`DiskInv`) and a decision to update in place still holds
when it is carried out (`AdminInv`, `InPlaceKeepsToken`); what polls is the published bot or the
one a commit waits for (`BotInv`); a retry loop of this generation retries the committed
configuration (`LoopInv`). From it `BotServesCommitted`, `UpdatesLastRequestWins`, `AtMostOneBot`,
`StatusIsHonest`. `MkInv`: what a request holds and has fetched at each of its steps; from it
`CommitsAsSeen` and `InstallsAsListed`. `ConsoleWithinLimits` composes both with `BotProofs`.

**`LoopProofs`.** What the loop of `Only` returns: the elements of the set, in order, each once if
they were distinct. Induction over numbers and sequences is stated on sets of them (`NatSets`,
`SeqSets`: a set that has the first and with each the next has all), since the library's induction
theorems take an operator as a parameter, which the installed provers do not instantiate.

*Only model-checked.* The four liveness properties `ServingSettles`, `PolicySettles`,
`InterceptionSettles` and `ConsoleSettles`: the prover does not handle fairness and ENABLED. The
violations of the six runs that look for one are TLC's counterexamples. Of `MCDocuments`' assumptions,
those about recursive definitions (what an import makes of a name or a manifest) are evaluated by
TLC on bounded inputs.


## 5. Disagreements between the code and its text

1. `upstream_slow`: a call from before the opening frees a running probe's slot
   (`breaker.go:65`), so more than one half-open probe runs when a query may outlive the ten
   seconds of cooldown (`DNS_QUERY_TIMEOUT` may be up to a minute; the default is five seconds).
2. `policy_race`: the compare and the store of `refreshOrderedPolicy` are two steps; a slow
   refresh can overwrite a newer apply's snapshot.
3. `policy_retry`: an update retried after a failed reload reports success without one.
4. `intercept_race`: raw edits reconcile the overlay after the lock is released, with their
   own text; the later reconciliation may be of the earlier edit.
5. `bot_reports`: `installHealthReporterLocked` (`botsupervisor.go:359`) sets the reporter from
   a goroutine. A start calls it, and a replacement of the administrators in place calls it again
   (542) for the same runner; the older goroutine may set last, and its closure ignores every
   report, so a bot whose polls fail is shown as it was.
6. `settings_race`: `SetChinaECS` (`controller.go:242`) sets the subnet of the group it loaded;
   a swap that has already carried the old subnet replaces that group.

Smaller ones, without a run of their own: the start of the sidecar reads the document before its
modification time (`config.go:1309-1318`), so one that is placed in between is ignored until the
next one or the next start, against `docs/architecture.md:661-666`: with it MITM may be off and
the sidecar stays up. `SidecarFollows` and `RoutedHostCovered` except exactly this document
(`missed`); without the exception TLC finds both violated. The bot's help says `/cancel` cancels
an awaited confirmation (`bot.go:680`), which it does not for a maintenance action.

## 6. Limits

Not modelled, and why, is in `PROJECT.json` "components". Beyond that: chnroute reloads are
one at a time (more in policy_race); `running` (what mihomo has loaded) is kept but no property
relates the overlay to it, because 5gpn-dns reads the file, not mihomo; extension settings,
requests that change several fields at once and overlapping capture hosts are left out of
InterceptTx; the file system's rename is atomic and durable; the helper's own second check
of host names (a regular expression of the shell with a last label of letters) and a leaf's
expiry are left out of SidecarLeaf and Documents; a panic in a bot is a bot that ends.

## 7. Plan

1. The answer algorithms as operators against reference definitions: first-match policy, the
   overlay's exact and wildcard match, the list parsers' guards, and their use by the resolver;
   then the ingress analysis and the ordered-subset check of the mihomo rules. With each its
   lemmas, on `LoopProofs`.
2. Proofs: an abstract specification of a transaction (all stores as before or all as asked) that
   `InterceptTx` without faults implements, and one of the policy publication for `PolicyApply`.
3. `SidecarLeaf` composed with `InterceptTx`'s document and certificate; several fields per
   request; several chnroute reloads at once.
4. Alerts, the certificate cache of the listeners, statistics persistence.

Runs are kept few, one per question: new modules share a run where they can be composed.
