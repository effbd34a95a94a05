---------------------------- MODULE Marketplace ----------------------------
(***************************************************************************)
(* The extension marketplaces of cmd/5gpn-dns (extension_marketplace.go):     *)
(* the document of configured sources, the requests that change it, and the     *)
(* installation of an entry into the document of modules.                      *)
(*                                                                         *)
(* An index is fetched outside every lock; what it says is its id, its final     *)
(* URL and the manifest it lists for the one extension, and equal digests are     *)
(* equal indexes.  A revision is the hash of a document, here the document.      *)
(* Manifests are verified against the index, so a module is the manifest listed.   *)
(* The module manager is one lock and one document.                           *)
(***************************************************************************)
EXTENDS Integers, FiniteSets

CONSTANTS
  Urls,        \* configured and final URLs
  Indexes,     \* what a URL may serve: [id, final, lists]
  Manifests,   \* of the extension
  MaxAsks,     \* bound: requests in a behavior
  AskPlans,    \* bound: what they may be, one set of kinds per request
  MaxSources,  \* maxMarketplaceSources
  MaxRemote,   \* bound: changes elsewhere
  Absent

ASSUME MarketAssumption ==
  /\ \A x \in Indexes : x.final \in Urls /\ x.lists \in Manifests
  /\ MaxAsks \in Nat /\ MaxSources \in Nat \ {0} /\ MaxRemote \in Nat
  /\ Absent \notin Manifests /\ Absent \notin 0..MaxAsks

Asks == 1..MaxAsks
Others == 0  \* whoever else holds the lock of the module manager

VARIABLES
  market,      \* the configured sources
  modules,     \* the modules: the extension's manifest, and everything else
  catalog,     \* what each URL serves
  served,      \* the manifest that is served
  mkLock, storeLock, modLock,  \* manager.mu, store.mu, modules.mu
  ask,         \* the requests
  reviewed,    \* previews that were returned to their callers
  mkEvents, mkPlan

mkVars == <<market, modules, catalog, served, mkLock, storeLock, modLock, ask,
            reviewed, mkEvents, mkPlan>>
locks == <<mkLock, storeLock, modLock>>
docs == <<market, modules>>
elsewhere == <<catalog, served, mkEvents, mkPlan>>

\* The source an index makes when it is configured under a URL.
Configured(u, x) == [id |-> x.id, url |-> u, final |-> x.final, lists |-> x.lists]
Sources == {Configured(u, x) : u \in Urls, x \in Indexes}
UrlsOf(s) == {s.url, s.final}

\* validateMarketplaceDocument
ValidMarket(sources) ==
  /\ Cardinality(sources) <= MaxSources
  /\ \A s, t \in sources : s # t => s.id # t.id /\ UrlsOf(s) \cap UrlsOf(t) = {}

MkInit ==
  /\ market \in {{}} \cup {{s} : s \in Sources}
  /\ modules = [ext |-> Absent, rest |-> 0]
  /\ catalog \in [Urls -> Indexes] /\ served \in Manifests
  /\ mkLock = Absent /\ storeLock = Absent /\ modLock = Absent
  /\ ask = [r \in Asks |-> Absent] /\ reviewed = {}
  /\ mkEvents = 0 /\ mkPlan \in AskPlans

----------------------------------------------------------------------------
(* Requests.                                                                *)

InPhase(r, pc) == ask[r] # Absent /\ ask[r].pc = pc
ToPhase(r, pc) == ask' = [ask EXCEPT ![r].pc = pc]
Unlocked(lock, r) == IF lock = r THEN Absent ELSE lock

\* A request returns; its deferred unlocks run.
Leave(r) == ask' = [ask EXCEPT ![r] = [pc |-> "done"]]

Return(r) ==
  /\ Leave(r)
  /\ mkLock' = Unlocked(mkLock, r) /\ storeLock' = Unlocked(storeLock, r)

\* sourceAtRevision
SourceAt(r) == IF market = ask[r].rev THEN {s \in market : s.id = ask[r].id} ELSE {}

Request(do, u, i) ==
  [do |-> do, url |-> u, id |-> i, rev |-> market, modRev |-> modules,
   expect |-> Absent, cur |-> Absent, src |-> Absent,
   pc |-> CASE do \in {"add", "refresh", "install", "previewRefresh", "previewInstall"} -> "check"
            [] do = "previewAdd" -> "fetch" [] do = "delete" -> "lock"]

\* With the view of now, or, for the *Expected requests, as a preview was confirmed.
Submitted ==
  {Request(do, u, Absent) : do \in {"add", "previewAdd"}, u \in Urls}
    \cup {Request(do, Absent, s.id) :
            do \in {"refresh", "delete", "install", "previewRefresh", "previewInstall"}, s \in market}
    \cup reviewed

\* What a caller confirms after a preview.
Confirming(r) ==
  [ask[r] EXCEPT !.do = CASE ask[r].do = "previewAdd" -> "add"
                          [] ask[r].do = "previewRefresh" -> "refresh"
                          [] ask[r].do = "previewInstall" -> "install",
                 !.expect = ask[r].src, !.cur = Absent, !.src = Absent, !.pc = "check"]

Submit(r) ==
  /\ ask[r] = Absent /\ \A q \in Asks : q < r => ask[q] # Absent
  /\ \E new \in Submitted :
       /\ (IF new.expect = Absent THEN new.do ELSE "confirm") \in mkPlan[r]
       /\ ask' = [ask EXCEPT ![r] = new]
  /\ UNCHANGED <<docs, elsewhere, locks, reviewed>>

\* The checks before the fetch, each under store.mu for a moment: preflightRevision,
\* sourceAtRevision; an install that was confirmed compares the source it was shown.
Preflight(r) ==
  /\ InPhase(r, "check") /\ storeLock = Absent
  /\ IF ask[r].do = "add"
     THEN (market = ask[r].rev /\ ToPhase(r, "fetch")) \/ Leave(r)
     ELSE \/ \E s \in SourceAt(r) :
               /\ ask[r].do = "install" /\ ask[r].expect # Absent => s = ask[r].expect
               /\ ask' = [ask EXCEPT ![r].cur = s, ![r].pc = "fetch"]
          \/ Leave(r)
  /\ UNCHANGED <<docs, elsewhere, locks, reviewed>>

\* What the fetch returns: an index, under its configured URL; the index of the source
\* that is refreshed, under the same id; or the manifest of an entry, which must be the
\* one the entry lists (validateMarketplaceInstall).
AddCandidate(r) == {Configured(ask[r].url, catalog[ask[r].url])}
RefreshCandidate(r) ==
  {s \in {Configured(ask[r].cur.url, catalog[ask[r].cur.url])} : s.id = ask[r].id}
AsListed(s) == s.lists = served
InstallCandidate(r) == {s \in {ask[r].cur} : AsListed(s)}

Fetched(r) ==
  CASE ask[r].do \in {"add", "previewAdd"} -> AddCandidate(r)
    [] ask[r].do \in {"refresh", "previewRefresh"} -> RefreshCandidate(r)
    [] ask[r].do \in {"install", "previewInstall"} -> InstallCandidate(r)

FetchCandidate(r) ==
  /\ InPhase(r, "fetch")
  /\ \/ \E s \in Fetched(r) :
          /\ ask[r].expect # Absent => s = ask[r].expect
          /\ ask' = [ask EXCEPT ![r].src = s,
                       ![r].pc = IF ask[r].do \in {"add", "refresh", "install"} THEN "lock" ELSE "preview"]
     \/ Leave(r)
  /\ UNCHANGED <<docs, elsewhere, locks, reviewed>>

\* lockMutexContext, twice; a wait ends with the request's context, too.
TakeLocks(r) ==
  /\ \/ InPhase(r, "lock") /\ mkLock = Absent
        /\ mkLock' = r /\ ToPhase(r, "store") /\ UNCHANGED storeLock
     \/ InPhase(r, "store") /\ storeLock = Absent
        /\ storeLock' = r /\ ToPhase(r, "commit") /\ UNCHANGED mkLock
     \/ (InPhase(r, "lock") \/ InPhase(r, "store")) /\ Return(r)
  /\ UNCHANGED <<docs, elsewhere, modLock, reviewed>>

\* Defect: the revision is compared before the fetch only.
AnyRevision(r) == InPhase(r, "commit")

\* The document is the one the caller saw.
AtRevision(r) == InPhase(r, "commit") /\ market = ask[r].rev

\* The document with the change, if there is one; the source a refresh was fetched for
\* must be there as it was.
Changed(r) ==
  CASE ask[r].do = "add" -> {market \cup {ask[r].src}}
    [] ask[r].do = "refresh" ->
         {(market \ {s}) \cup {ask[r].src} :
            s \in {s \in market : s.id = ask[r].id /\ s.url = ask[r].cur.url /\ s.lists = ask[r].cur.lists}}
    [] OTHER -> {market \ {s} : s \in {s \in market : s.id = ask[r].id}}

\* add, refresh, delete: read, compare, change, validate, write atomically.
CommitMarket(r) ==
  /\ InPhase(r, "commit") /\ ask[r].do # "install"
  /\ \/ /\ AtRevision(r)
        /\ \E next \in Changed(r) :
             /\ ask[r].do = "add" => Cardinality(next) > Cardinality(market)
             /\ ValidMarket(next) /\ market' = next
        /\ Return(r)
     \/ Return(r) /\ UNCHANGED market
  /\ UNCHANGED <<modules, elsewhere, modLock, reviewed>>

\* Defect: the locks are released before the modules are changed.
VerifiedUnlock(r) == ToPhase(r, "import") /\ mkLock' = Absent /\ storeLock' = Absent

\* The marketplace proof stays locked through the module CAS.
Verified(r) == ToPhase(r, "import") /\ UNCHANGED <<mkLock, storeLock>>

\* install: the source is still the one the module was fetched from.
VerifySource(r) ==
  /\ InPhase(r, "commit") /\ ask[r].do = "install"
  /\ \/ AtRevision(r) /\ ask[r].src \in market /\ Verified(r)
     \/ Return(r)
  /\ UNCHANGED <<docs, elsewhere, modLock, reviewed>>

\* modules.importSnapshot; an error after the write is one to the caller all the same.
ImportSnapshot(r) ==
  /\ InPhase(r, "import") /\ modLock = Absent
  /\ \/ /\ modules = ask[r].modRev /\ modules.ext = Absent
        /\ modules' = [modules EXCEPT !.ext = ask[r].src.lists]
     \/ UNCHANGED modules
  /\ Return(r)
  /\ UNCHANGED <<market, elsewhere, modLock, reviewed>>

\* The preview of an install: the modules are as the caller saw them (previewSnapshot).
PreviewSnapshot(r) ==
  /\ InPhase(r, "preview") /\ ask[r].do = "previewInstall"
  /\ modLock = Absent
  /\ (modules = ask[r].modRev /\ modules.ext = Absent /\ ToPhase(r, "source")) \/ Leave(r)
  /\ UNCHANGED <<docs, elsewhere, locks, reviewed>>

\* The end of a preview: the source would still be accepted, or is still there.
FinishPreview(r) ==
  /\ InPhase(r, "source") \/ (InPhase(r, "preview") /\ ask[r].do # "previewInstall")
  /\ storeLock = Absent
  /\ ask[r].do = "previewAdd" => mkLock = Absent
  /\ \/ /\ CASE ask[r].do = "previewAdd" -> ask[r].src \notin market /\ ValidMarket(market \cup {ask[r].src})
             [] ask[r].do = "previewRefresh" ->
                  \E s \in SourceAt(r) : s.url = ask[r].cur.url /\ s.lists = ask[r].cur.lists
             [] ask[r].do = "previewInstall" -> ask[r].cur \in SourceAt(r)
        /\ reviewed' = reviewed \cup {Confirming(r)}
     \/ UNCHANGED reviewed
  /\ Leave(r)
  /\ UNCHANGED <<docs, elsewhere, locks>>

AskStep(r) ==
  \/ Preflight(r) \/ FetchCandidate(r) \/ TakeLocks(r)
  \/ CommitMarket(r) \/ VerifySource(r) \/ ImportSnapshot(r)
  \/ PreviewSnapshot(r) \/ FinishPreview(r)

----------------------------------------------------------------------------
(* The rest of the system.                                                  *)

\* A transaction of the module manager begins, and ends with a changed document or not.
OtherTransaction ==
  /\ \/ /\ modLock = Absent /\ mkEvents < MaxRemote
        /\ modLock' = Others /\ mkEvents' = mkEvents + 1 /\ UNCHANGED modules
     \/ /\ modLock = Others /\ modLock' = Absent /\ UNCHANGED mkEvents
        /\ modules' \in {modules, [modules EXCEPT !.rest = 1], [modules EXCEPT !.ext = Absent]}
  /\ UNCHANGED <<market, catalog, served, mkPlan, mkLock, storeLock, ask, reviewed>>

RemoteChanges ==
  /\ mkEvents < MaxRemote /\ mkEvents' = mkEvents + 1
  /\ \/ \E u \in Urls, x \in Indexes : x # catalog[u] /\ catalog' = [catalog EXCEPT ![u] = x] /\ UNCHANGED served
     \/ \E m \in Manifests \ {served} : served' = m /\ UNCHANGED catalog
  /\ UNCHANGED <<docs, locks, ask, reviewed, mkPlan>>

MkWorking == (\E r \in Asks : AskStep(r)) \/ (modLock = Others /\ OtherTransaction)

MkNext ==
  \/ \E r \in Asks : Submit(r) \/ AskStep(r)
  \/ OtherTransaction \/ RemoteChanges

\* Requests and transactions go on; nothing makes anybody send one.
MkSpec == MkInit /\ [][MkNext]_mkVars /\ WF_mkVars(MkWorking)

----------------------------------------------------------------------------
(* Properties.                                                              *)

\* The document is always one that Read accepts: ids and URLs, final ones included, are
\* of one source each (extension_marketplace.go:835-865).
MkTypeOK ==
  /\ market \subseteq Sources /\ ValidMarket(market)
  /\ modules.ext \in Manifests \cup {Absent}
  /\ {mkLock, storeLock} \subseteq Asks \cup {Absent}
  /\ modLock \in {Others, Absent}

\* No request changes a document other than the one its caller saw, and one that
\* confirms a preview writes the source that was reviewed, although index and
\* document are read at different times (extension_marketplace.go:440-470).
CommittedAsSeen ==
  [][market' # market =>
       \E r \in Asks :
         /\ InPhase(r, "commit") /\ ask'[r].pc = "done"
         /\ ask[r].rev = market
         /\ ask[r].expect # Absent => ask[r].expect \in market']_mkVars

\* What is installed is what a source lists that is configured at that very moment, in
\* the document the caller saw: "Keep the marketplace proof locked through the module
\* CAS" (extension_marketplace.go:668-671).
InstalledAsListed ==
  [][modules'.ext \notin {modules.ext, Absent} =>
       \E r \in Asks :
         /\ InPhase(r, "import") /\ ask'[r].pc = "done"
         /\ market = ask[r].rev /\ modules = ask[r].modRev
         /\ \E s \in market : s.id = ask[r].id /\ s.lists = modules'.ext
         /\ ask[r].expect # Absent => ask[r].expect \in market /\ ask[r].expect.lists = modules'.ext]_mkVars

\* Every request returns and gives back its locks, in the order marketplace, store,
\* modules: again and again nothing is under way.
MarketSettles ==
  []<>(locks = <<Absent, Absent, Absent>> /\ \A r \in Asks : ask[r] = Absent \/ InPhase(r, "done"))
=============================================================================
