---------------------------- MODULE SidecarProofs ----------------------------
(***************************************************************************)
(* Around the sidecar: what holds between the three decisions on a document,   *)
(* for all documents, words and limits (Documents); the scripts' storage        *)
(* (ExtensionStore); the leaf that a handshake gets (SidecarLeaf).  Last, the   *)
(* daemon's stores, the sidecar and the storage together (MCInterception).     *)
(***************************************************************************)
EXTENDS MCInterception, InterceptProofs

Name == Seq(Words)
Pattern == [wild : BOOLEAN, labels : Name]

\* A name as an import leaves it, unless it was spelt with two dots.
Undotted(n) == n \in Name /\ n[Len(n)] # Empty

\* What the daemon's own check leaves to the sidecar's, which is run before the commit.
Loadable(d) ==
  /\ \A c \in d.users \cup d.passwords : c <= 255
  /\ \A i \in DOMAIN d.modules :
       /\ \A p \in d.modules[i].hosts : Undotted(p.labels)
       /\ \A j \in DOMAIN d.modules[i].mappings :
            d.modules[i].mappings[j].pattern \in Pattern
       /\ \A j \in DOMAIN d.modules[i].scripts :
            /\ d.modules[i].scripts[j].compiles
            /\ \A p \in d.modules[i].scripts[j].hosts : Undotted(p.labels)

----------------------------------------------------------------------------
\* The two programs write the same limits (the constants of
\* intercept_module_types.go:26-42 and the literals of config.go:28-36, 784-893).
LEMMA LimitsAgree == DaemonLimits = SidecarLimits
  BY DEF DaemonLimits, SidecarLimits

\* Only a last dot is taken off.
LEMMA UntailedUndotted ==
  ASSUME NEW n, Undotted(n)
  PROVE  Untailed(n) = n
  BY DEF Undotted, Untailed

\* A name that is as it is normalized does not end with a dot.
LEMMA NormalizedUndotted ==
  ASSUME NEW p \in Pattern, NormalizePattern(p) = p
  PROVE  Untailed(p.labels) = p.labels
  BY DEF NormalizePattern, Pattern

\* Both count labels from the end.
LEMMA UnderTransitive ==
  ASSUME NEW a \in Name, NEW b \in Name, NEW c \in Name, Under(a, b), Under(b, c)
  PROVE  Under(a, c)
<1>1. Len(a) \in Nat /\ Len(b) \in Nat /\ Len(c) \in Nat
  BY DEF Name
<1>2. Len(a) < Len(c)
  BY <1>1 DEF Under
<1>3. ASSUME NEW i \in 1..Len(a)
      PROVE  a[i] = c[Len(c) - Len(a) + i]
  <2>1. Len(b) - Len(a) + i \in 1..Len(b)
    BY <1>1 DEF Under
  <2>2. a[i] = b[Len(b) - Len(a) + i]
    BY DEF Under
  <2>3. b[Len(b) - Len(a) + i] = c[Len(c) - Len(b) + (Len(b) - Len(a) + i)]
    BY <2>1 DEF Under
  <2>4. Len(c) - Len(b) + (Len(b) - Len(a) + i) = Len(c) - Len(a) + i
    BY <1>1
  <2> QED BY <2>2, <2>3, <2>4
<1> QED BY <1>2, <1>3 DEF Under

\* A pattern that covers another matches every host that the other matches
\* (hostPatternCovers and matchHostPattern, config.go:755-772).
THEOREM CoversSound ==
  ASSUME NEW p \in Pattern, NEW q \in Pattern, NEW host \in Name,
         Covers(p, q), Matches(q, host)
  PROVE  Matches(p, host)
<1>1. CASE p = q
  BY <1>1
<1>2. CASE p.wild /\ Under(p.labels, q.labels)
  <2>1. CASE q.wild
    BY <1>2, <2>1, UnderTransitive DEF Matches, Pattern
  <2>2. CASE ~q.wild
    BY <1>2, <2>2 DEF Matches
  <2> QED BY <2>1, <2>2
<1> QED BY <1>1, <1>2 DEF Covers

----------------------------------------------------------------------------
\* What is a name to the daemon is one to the sidecar.
LEMMA PatternTaken ==
  ASSUME NEW p, DaemonPattern(p), Untailed(p.labels) = p.labels
  PROVE  SidecarPattern(p)
  BY DEF DaemonPattern, SidecarPattern, IsValidDomain

\* So is a target, which both trim, and an origin, which neither does.
LEMMA TargetTaken ==
  ASSUME NEW t, DaemonTarget(t)
  PROVE  SidecarTarget(t)
  BY DEF DaemonTarget, SidecarTarget, IsValidDomain

LEMMA OriginTaken ==
  ASSUME NEW o, DaemonOrigin(o)
  PROVE  SidecarOrigin(o)
  BY DEF DaemonOrigin, SidecarOrigin, IsValidDomain

\* One extension of a document.
LEMMA ModuleTaken ==
  ASSUME NEW d, NEW i \in DOMAIN d.modules, DaemonModule(d.modules[i]), Loadable(d)
  PROVE  SidecarModule(d.modules[i])
<1> DEFINE m == d.modules[i]
<1>1. ValidRest(SidecarLimits, m)
  BY LimitsAgree DEF DaemonModule
<1>2. \A p \in m.hosts : SidecarPattern(p)
  BY PatternTaken, UntailedUndotted DEF DaemonModule, Loadable
<1>3. \A o \in m.origins : SidecarOrigin(o)
  BY OriginTaken DEF DaemonModule
<1>4. ASSUME NEW j \in DOMAIN m.mappings
      PROVE  LET g == m.mappings[j] IN
             SidecarPattern(g.pattern) /\ CoveredBy(m.hosts, g.pattern) /\ SidecarTarget(g.target)
  <2> DEFINE g == m.mappings[j]
  <2>1. /\ DaemonPattern(g.pattern) /\ NormalizePattern(g.pattern) = g.pattern
        /\ CoveredBy(m.hosts, g.pattern) /\ DaemonTarget(g.target)
    BY DEF DaemonModule
  <2>2. g.pattern \in Pattern
    BY DEF Loadable
  <2> HIDE DEF g
  <2>3. SidecarPattern(g.pattern)
    BY <2>1, <2>2, PatternTaken, NormalizedUndotted
  <2>4. SidecarTarget(g.target)
    BY <2>1, TargetTaken
  <2> QED BY <2>1, <2>3, <2>4 DEF g
<1>5. ASSUME NEW j \in DOMAIN m.scripts
      PROVE  LET r == m.scripts[j] IN
             /\ \A p \in r.hosts : SidecarPattern(p) /\ CoveredBy(m.hosts, p)
             /\ r.compiles
  <2>1. \A p \in m.scripts[j].hosts : DaemonPattern(p) /\ CoveredBy(m.hosts, p)
    BY DEF DaemonModule
  <2>2. m.scripts[j].compiles /\ \A p \in m.scripts[j].hosts : Undotted(p.labels)
    BY DEF Loadable
  <2> QED BY <2>1, <2>2, PatternTaken, UntailedUndotted
<1> QED BY <1>1, <1>2, <1>3, <1>4, <1>5 DEF SidecarModule

\* A candidate that passes the daemon's own check can be refused by the sidecar's for these
\* reasons only: a script that does not compile, a capture host that ends with a dot,
\* credentials that do not fit SOCKS (validateInterceptDocument, api_intercept.go:103-128,
\* and Config.Validate).
THEOREM SidecarTakesDaemons ==
  ASSUME NEW d, DaemonAccepts(d), Loadable(d)
  PROVE  SidecarAccepts(d)
<1>1. ValidWhole(SidecarLimits, d)
  BY LimitsAgree DEF DaemonAccepts
<1>2. d.paths # "blank"
  BY DEF DaemonAccepts
<1>3. \A c \in d.users \cup d.passwords : c <= 255
  BY DEF Loadable
<1>4. \A i \in DOMAIN d.modules : SidecarModule(d.modules[i])
  BY ModuleTaken DEF DaemonAccepts
<1> QED BY <1>1, <1>2, <1>3, <1>4 DEF SidecarAccepts

\* What the daemon commits the root helper makes a leaf for: no committed document fails to
\* get its certificate because the helper refuses it (validateSidecarCandidate,
\* intercept_module_manager.go:982-1003; ValidateCertificateRequest, config.go:473-522).
THEOREM HelperTakesCommitted ==
  ASSUME NEW d, Committed(d)
  PROVE  HelperAccepts(d)
<1>0. SidecarAccepts(d) /\ d.paths = "fixed"
  BY DEF Committed, DaemonAccepts
<1>1. /\ d.version = 5 /\ Len(d.modules) <= SidecarLimits.modules
      /\ ActiveRoutes(d) <= SidecarLimits.activeRoutes /\ ValidOrder(d)
      /\ Cardinality(CertificateHosts(d)) <= SidecarLimits.certificate
  BY <1>0 DEF SidecarAccepts, ValidWhole
<1>2. ASSUME NEW i \in DOMAIN d.modules
      PROVE  LET m == d.modules[i] IN
       /\ Cardinality(m.origins) <= SidecarLimits.origins /\ "origins" \in m.sorted
       /\ \A o \in m.origins : SidecarOrigin(o)
       /\ ValidGroup(SidecarLimits, m) /\ ValidRoutes(SidecarLimits, m)
       /\ m.dns \in {"trust", "china"}
       /\ m.enabled => /\ m.id \in Ids /\ Cardinality(m.hosts) \in 1..SidecarLimits.hosts
                       /\ \A p \in m.hosts : SidecarPattern(p)
  <2>1. SidecarModule(d.modules[i])
    BY <1>0 DEF SidecarAccepts
  <2> QED BY <2>1 DEF SidecarModule, ValidRest
<1> QED BY <1>0, <1>1, <1>2 DEF HelperAccepts, SidecarAccepts, ValidWhole

\* A host that an action of an accepted document matches is one that its extension captures:
\* the action never runs on traffic that the extension does not own, and a name of the leaf
\* stands for it
\* (validateActionMatch, config.go:994-1002; matchingScriptRules).
THEOREM ActionsOwnTheirHosts ==
  ASSUME NEW d, SidecarAccepts(d), NEW i \in Enabled(d),
         NEW j \in DOMAIN d.modules[i].scripts, NEW host \in Name,
         NEW p \in d.modules[i].scripts[j].hosts, Matches(p, host),
         p \in Pattern, d.modules[i].hosts \subseteq Pattern
  PROVE  Owns(d.modules[i], host) /\ \E q \in CertificateHosts(d) : Matches(q, host)
<1>1. i \in DOMAIN d.modules /\ SidecarModule(d.modules[i])
  BY DEF Enabled, SidecarAccepts
<1>2. CoveredBy(d.modules[i].hosts, p)
  BY <1>1 DEF SidecarModule
<1>3. PICK q \in d.modules[i].hosts : Covers(q, p)
  BY <1>2 DEF CoveredBy
<1>4. Matches(q, host)
  BY <1>3, CoversSound
<1>5. q \in CertificateHosts(d)
  BY <1>3 DEF CertificateHosts
<1> QED BY <1>4, <1>5 DEF Owns

----------------------------------------------------------------------------
(* The scripts' storage.                                                     *)

\* Everything stored fits, in memory as in the file: a prune or a start may leave less in
\* memory than in the file, never more than fits.
Fits(s) == \A m \in Extensions : Cardinality(KeysOf(s, m)) <= MaxKeys

StoreInv ==
  /\ persistent \in Store /\ storeFile \in Store /\ answered \in Store
  /\ Cardinality(Entries(storeFile)) <= MaxStored
  /\ Fits(persistent) /\ Fits(storeFile)
  /\ AnsweredKept

LEMMA OfModulesStored ==
  ASSUME NEW s \in Store, NEW ms
  PROVE  OfModules(s, ms) \in Store
BY DEF OfModules, Store

\* A store with fewer values fits where the other does.
LEMMA FewerFit ==
  ASSUME NEW s, NEW t, Fits(t), \A e \in Extensions \X Keys : s[e] # NoValue => t[e] # NoValue
  PROVE  Fits(s)
<1> SUFFICES ASSUME NEW m \in Extensions PROVE Cardinality(KeysOf(s, m)) <= MaxKeys
  BY DEF Fits
<1>1. KeysOf(s, m) \subseteq KeysOf(t, m) /\ IsFiniteSet(KeysOf(t, m)) /\ IsFiniteSet(KeysOf(s, m))
  BY StoreAssumption, FS_Subset DEF KeysOf
<1>2. /\ Cardinality(KeysOf(s, m)) <= Cardinality(KeysOf(t, m))
      /\ Cardinality(KeysOf(t, m)) \in Nat /\ Cardinality(KeysOf(s, m)) \in Nat
  BY <1>1, FS_Subset, FS_CardinalityType
<1> QED BY <1>2, StoreAssumption DEF Fits

LEMMA OfModulesFits ==
  ASSUME NEW s \in Store, NEW ms, Fits(s)
  PROVE  Fits(OfModules(s, ms))
BY FewerFit DEF OfModules

\* One change under the mutex, saved or taken back.
LEMMA ChangeKeeps ==
  ASSUME StoreInv, NEW next \in Store, Fits(next), Change(next)
  PROVE  StoreInv'
<1>1. CASE Saved(next) /\ persistent' = next /\ answered' = [e \in DOMAIN next |->
             IF next[e] # persistent[e] THEN next[e] ELSE answered[e]]
  <2>1. storeFile' = next /\ Cardinality(Entries(next)) <= MaxStored
    BY <1>1 DEF Saved
  <2>2. DOMAIN next = Extensions \X Keys /\ answered' \in Store
    BY <1>1 DEF Store, StoreInv
  <2>3. \A e \in Extensions \X Keys : answered'[e] # NoValue => next[e] = answered'[e]
    BY <1>1, <2>2 DEF StoreInv, AnsweredKept, Entries
  <2> QED BY <1>1, <2>1, <2>2, <2>3 DEF StoreInv, AnsweredKept, Entries, Fits
<1>2. CASE NotSaved /\ persistent' = RolledBack(next) /\ UNCHANGED answered
  BY <1>2 DEF NotSaved, RolledBack, StoreInv, AnsweredKept, Entries, Fits
<1> QED BY <1>1, <1>2 DEF Change

\* A value set is one more key of its module at most.
LEMMA SetFits ==
  ASSUME NEW s \in Store, Fits(s), NEW m, NEW k \in Keys, NEW v \in Values,
         k \notin KeysOf(s, m) => Cardinality(KeysOf(s, m)) < MaxKeys
  PROVE  /\ [s EXCEPT ![<<m, k>>] = v] \in Store
         /\ Fits([s EXCEPT ![<<m, k>>] = v])
<1> DEFINE t == [s EXCEPT ![<<m, k>>] = v]
<1>1. t \in Store
  BY DEF Store
<1>2. /\ \A e \in Extensions \X Keys : e # <<m, k>> => t[e] = s[e]
  BY DEF Store
<1> HIDE DEF t
<1>3. ASSUME NEW n \in Extensions PROVE Cardinality(KeysOf(t, n)) <= MaxKeys
  <2>1. /\ IsFiniteSet(KeysOf(s, n)) /\ IsFiniteSet(KeysOf(t, n))
        /\ Cardinality(KeysOf(s, n)) \in Nat /\ Cardinality(KeysOf(t, n)) \in Nat
    BY StoreAssumption, FS_Subset, FS_CardinalityType DEF KeysOf
  <2>2. KeysOf(t, n) \subseteq KeysOf(s, n) \cup {k} /\ (n # m => KeysOf(t, n) \subseteq KeysOf(s, n))
    BY <1>2 DEF KeysOf
  <2>3. CASE KeysOf(t, n) \subseteq KeysOf(s, n)
    <3>1. Cardinality(KeysOf(t, n)) <= Cardinality(KeysOf(s, n))
      BY <2>1, <2>3, FS_Subset
    <3> QED BY <2>1, <3>1, StoreAssumption DEF Fits
  <2>4. CASE n = m /\ k \notin KeysOf(s, m)
    <3>1. IsFiniteSet(KeysOf(s, n) \cup {k}) /\ Cardinality(KeysOf(s, n) \cup {k}) = Cardinality(KeysOf(s, n)) + 1
      BY <2>1, <2>4, FS_AddElement
    <3>2. Cardinality(KeysOf(t, n)) <= Cardinality(KeysOf(s, n) \cup {k})
      BY <2>2, <3>1, FS_Subset
    <3> QED BY <2>1, <2>4, <3>1, <3>2, StoreAssumption
  <2> QED BY <2>2, <2>3, <2>4
<1> QED BY <1>1, <1>3 DEF Fits, t

LEMMA EmptyStore ==
  Nothing \in Store /\ Entries(Nothing) = {} /\ Cardinality(Entries(Nothing)) <= MaxStored /\ Fits(Nothing)
<1>1. Nothing \in Store
  BY DEF Nothing, Store
<1>2. Entries(Nothing) = {} /\ \A m \in Extensions : KeysOf(Nothing, m) = {}
  BY DEF Entries, KeysOf, Nothing
<1>3. Cardinality({}) = 0
  BY FS_EmptySet
<1> QED BY <1>1, <1>2, <1>3, StoreAssumption DEF Fits

LEMMA StoreInit == ExInit => StoreInv
  BY EmptyStore DEF ExInit, StoreInv, AnsweredKept

LEMMA StoreStep == StoreInv /\ [ExNext]_exVars => StoreInv'
<1> SUFFICES ASSUME StoreInv, [ExNext]_exVars PROVE StoreInv'
  OBVIOUS
<1>1. ASSUME UNCHANGED <<persistent, storeFile, answered>> PROVE StoreInv'
  BY <1>1 DEF StoreInv, AnsweredKept, Entries, Fits, KeysOf
<1>2. ASSUME NEW x \in Scripts, StorageSet(x) PROVE StoreInv'
  <2>1. PICK k \in Keys, v \in Values :
          /\ k \notin KeysOf(persistent, script[x]) => Cardinality(KeysOf(persistent, script[x])) < MaxKeys
          /\ Change([persistent EXCEPT ![<<script[x], k>>] = v])
    BY <1>2 DEF StorageSet
  <2> QED BY <2>1, SetFits, ChangeKeeps DEF StoreInv
<1>3. ASSUME NEW x \in Scripts, StorageDelete(x) PROVE StoreInv'
  <2>1. PICK k \in Keys : Change([persistent EXCEPT ![<<script[x], k>>] = NoValue])
    BY <1>3 DEF StorageDelete
  <2> DEFINE s == [persistent EXCEPT ![<<script[x], k>>] = NoValue]
  <2>2. s \in Store /\ \A e \in Extensions \X Keys : s[e] # NoValue => persistent[e] # NoValue
    BY DEF Store, StoreInv
  <2> HIDE DEF s
  <2>3. Fits(s)
    BY <2>2, FewerFit DEF StoreInv
  <2> QED BY <2>1, <2>2, <2>3, ChangeKeeps DEF s
<1>4. ASSUME NEW x \in Scripts, StorageClear(x) PROVE StoreInv'
  BY <1>4, OfModulesStored, OfModulesFits, ChangeKeeps DEF StorageClear, StoreInv
\* Of what was answered only what is left in memory and, saved or not, in the file is kept.
<1>5. ASSUME NEW ms, NEW s \in {persistent, storeFile},
             persistent' = OfModules(s, ms), answered' = OfModules(answered, ms),
             storeFile' = storeFile \/ Saved(persistent')
      PROVE  StoreInv'
  <2>1. persistent' \in Store /\ answered' \in Store /\ Fits(persistent')
    BY <1>5, OfModulesStored, OfModulesFits DEF StoreInv
  <2>2. storeFile' \in Store /\ Fits(storeFile') /\ Cardinality(Entries(storeFile')) <= MaxStored
    BY <1>5, <2>1 DEF StoreInv, Saved
  <2>3. \A e \in Extensions \X Keys : answered'[e] # NoValue => /\ answered'[e] = answered[e]
                                                                /\ persistent'[e] = s[e]
    BY <1>5 DEF OfModules
  <2>4. \A e \in Extensions \X Keys : answered'[e] # NoValue => persistent'[e] = answered'[e]
    BY <2>3 DEF StoreInv, AnsweredKept, Entries
  <2>5. \A e \in Extensions \X Keys : answered'[e] # NoValue => storeFile'[e] = answered'[e]
    BY <1>5, <2>3, <2>4 DEF StoreInv, AnsweredKept, Entries, Saved
  <2> QED BY <2>1, <2>2, <2>4, <2>5 DEF StoreInv, AnsweredKept, Entries, Fits
<1>6. ASSUME NEW p \in Pruners, Prune(p) PROVE StoreInv'
  <2>1. CASE signature = pruner[p]
    BY <1>1, <1>6, <2>1 DEF Prune
  <2>2. CASE signature # pruner[p]
    <3>1. /\ persistent' = OfModules(persistent, pruner[p])
          /\ answered' = OfModules(answered, pruner[p])
          /\ storeFile' = storeFile \/ Saved(persistent')
      BY <1>6, <2>2 DEF Prune, NotSaved
    <3> QED BY <1>5, <3>1
  <2> QED BY <2>1, <2>2
<1>7. CASE RestartSidecar
  <2>1. PICK loaded \in {storeFile, Nothing} :
          /\ persistent' = OfModules(loaded, installed)
          /\ answered' = IF loaded = storeFile THEN OfModules(answered, installed) ELSE Nothing
          /\ IF persistent' # loaded THEN Saved(persistent') \/ NotSaved ELSE NotSaved
    BY <1>7 DEF RestartSidecar, LoadPersistent
  <2>2. CASE loaded = storeFile
    <3>1. storeFile' = storeFile \/ Saved(persistent')
      BY <2>1 DEF NotSaved
    <3> QED BY <1>5, <2>1, <2>2, <3>1
  <2>3. CASE loaded # storeFile
    <3>1. \A e \in Extensions \X Keys : persistent'[e] = NoValue
      BY <2>1, <2>3 DEF OfModules, Nothing
    <3>2. persistent' = Nothing
      BY <2>1, <3>1 DEF OfModules, Nothing
    <3>3. answered' = Nothing /\ storeFile' = storeFile
      BY <2>1, <2>3, <3>2 DEF NotSaved
    <3>4. AnsweredKept'
      BY <3>3, EmptyStore DEF AnsweredKept, Entries
    <3> QED BY <3>2, <3>3, <3>4, EmptyStore DEF StoreInv, Fits, Entries, KeysOf
  <2> QED BY <2>1, <2>2, <2>3
<1>8. CASE ~(\/ \E x \in Scripts : StorageSet(x) \/ StorageDelete(x) \/ StorageClear(x)
             \/ \E p \in Pruners : Prune(p)
             \/ RestartSidecar)
  BY <1>1, <1>8 DEF ExNext, Execute, FinishScript, AskPrune, Install, exVars
<1> QED BY <1>2, <1>3, <1>4, <1>6, <1>7, <1>8

\* What the file holds is what the next start accepts, for any scripts, keys and limits.
THEOREM StoreTypeCorrect == ExSpec => []ExTypeOK
<1>1. StoreInv => ExTypeOK
  BY DEF StoreInv, ExTypeOK, Fits
<1> QED BY StoreInit, StoreStep, <1>1, PTL DEF ExSpec

\* What a script was told is stored is in memory and in the file, whatever saves fail,
\* whichever older sets prune and wherever the process ends.
THEOREM AnswersAreStored == ExSpec => []AnsweredKept
<1>1. StoreInv => AnsweredKept
  BY DEF StoreInv
<1> QED BY StoreInit, StoreStep, <1>1, PTL DEF ExSpec

----------------------------------------------------------------------------
(* The leaf that a handshake gets.                                           *)

Hosts == UNION CaptureSets
SidecarDoc == [ver : Nat, hosts : SUBSET Hosts, on : BOOLEAN, valid : BOOLEAN]
Leaves == [covers : SUBSET Hosts, chain : Nat, key : Nat]
Chains == [issue : Nat, covers : SUBSET Hosts]
Reading == {"stat", "statKey", "read", "readKey"}
Hand == [pc : {"new", "lock", "served", "refused", "over"} \cup Reading,
         host : Hosts \cup {Unset}, steady : BOOLEAN, want : SUBSET Hosts,
         at : [chain : Nat, key : Nat], got : Chains, covered : BOOLEAN]

FilesInv ==
  /\ sdoc \in SidecarDoc /\ sdoc.ver # 0
  /\ chain \in Chains /\ pkey \in Nat /\ state \in SUBSET Hosts
  /\ helper.hosts \in SUBSET Hosts
  /\ helper = [pc |-> helper.pc, hosts |-> helper.hosts]

\* The document in use is the one of the file when it is known by the file's time, except
\* for the one of version n that was placed before the time was read.
ConfInv(p, c, d, n) ==
  /\ p \in {"down", "loading", "starting", "up"}
  /\ p # "down" => c \in [doc : SidecarDoc, time : Nat] /\ c.doc.valid /\ c.time <= d.ver
  /\ p = "loading" => c.time = 0
  /\ p = "loading" /\ d.ver # n => c.doc = d
  /\ p \in {"starting", "up"} /\ c.time = d.ver /\ d.ver # n => c.doc = d

\* The leaf in use is the one of the file when it is known by the file's time.
LeafInUse(p, l, c) ==
  p = "up" => l \in Leaves /\ l.chain <= c.issue /\ (l.chain = c.issue => l.covers = c.covers)

\* What a handshake that saw one state of the files has read is that state.
SteadyInv(r) ==
  /\ r.pc = "lock" \/ r.pc \in Reading => Published /\ r.host \in sdoc.hosts /\ sdoc.ver # missed
  /\ r.pc \in Reading => r.want = sdoc.hosts
  /\ r.pc \in {"statKey", "read", "readKey"} => r.at.chain = chain.issue
  /\ r.pc = "readKey" => r.got = chain
  /\ r.pc # "refused"
  /\ r.pc = "served" => r.covered

HandInv(h) ==
  LET r == hand[h] IN
  /\ r \in Hand
  /\ r.pc = "lock" \/ r.pc \in Reading => proc = "up"
  /\ r.pc \in Reading => storeMu = h
  /\ r.pc \in {"statKey", "read", "readKey"} => r.at.chain <= chain.issue
  /\ r.pc = "readKey" => /\ r.at.chain <= r.got.issue /\ r.got.issue <= chain.issue
                         /\ r.got.issue = chain.issue => r.got = chain
  /\ r.steady => SteadyInv(r)

SlInv ==
  /\ FilesInv /\ ConfInv(proc, conf, sdoc, missed) /\ LeafInUse(proc, leaf, chain)
  /\ storeMu \in Handshakes \cup {Unset}
  /\ hand = [h \in Handshakes |-> hand[h]] /\ \A h \in Handshakes : HandInv(h)

\* The document that the sidecar works with next, whenever it looks, is the file's if the
\* file's is accepted and was not missed at the start.
LEMMA CurrentIsAccepted ==
  ASSUME SlInv, proc \in {"starting", "up"}
  PROVE  /\ ConfInv("starting", CurrentConfig, sdoc, missed) /\ ConfInv("up", CurrentConfig, sdoc, missed)
         /\ sdoc.valid /\ sdoc.ver # missed => CurrentConfig.doc = sdoc
BY DEF SlInv, FilesInv, ConfInv, CurrentConfig, SidecarDoc

LEMMA EndedHand ==
  ASSUME NEW b \in BOOLEAN, NEW c \in BOOLEAN, NEW pc \in {"served", "refused", "over"}
  PROVE  /\ Ended(b, pc, c) \in Hand
         /\ Ended(b, pc, c).steady = b
         /\ Ended(b, pc, c).pc \in {pc, "over"} /\ (b => Ended(b, pc, c).pc = pc /\ Ended(b, pc, c).covered = c)
BY DEF Ended, NoHand, Hand, Chains

\* A handshake that a step does not touch, while the files stay.
LEMMA OtherHands ==
  ASSUME SlInv, NEW g \in Handshakes, hand'[g] = hand[g],
         UNCHANGED <<sdoc, chain, pkey, state, missed>>, proc' = proc,
         hand[g].pc \in Reading => storeMu' = storeMu
  PROVE  HandInv(g)'
<1>1. HandInv(g)
  BY DEF SlInv
<1> QED BY <1>1 DEF HandInv, SteadyInv, Published

\* A step of one handshake.
LEMMA OneHand ==
  ASSUME SlInv, NEW h \in Handshakes, NEW x, hand' = [hand EXCEPT ![h] = x],
         UNCHANGED <<sdoc, files, proc, missed>>,
         ConfInv(proc, conf', sdoc, missed), LeafInUse(proc, leaf', chain),
         storeMu' = storeMu \/ (storeMu \in {Unset, h} /\ storeMu' \in {Unset, h}),
         HandInv(h)'
  PROVE  SlInv'
<1>1. /\ \A g \in Handshakes : g # h => hand'[g] = hand[g]
      /\ hand' = [g \in Handshakes |-> hand'[g]]
  BY DEF SlInv
<1>2. ASSUME NEW g \in Handshakes, g # h PROVE HandInv(g)'
  <2>1. hand[g].pc \in Reading => storeMu = g /\ storeMu # Unset
    BY LeafAssumption DEF SlInv, HandInv
  <2> QED BY <1>1, <1>2, <2>1, OtherHands DEF files
<1>3. FilesInv'
  BY DEF SlInv, FilesInv, files
<1>4. (storeMu \in Handshakes \cup {Unset})'
  BY DEF SlInv
<1> QED BY <1>1, <1>2, <1>3, <1>4 DEF SlInv, files

\* A file is replaced.
LEMMA Unsteadied ==
  ASSUME SlInv, Unsteady, UNCHANGED <<proc, storeMu>>,
         chain' = chain \/ chain'.issue > chain.issue, chain' \in Chains
  PROVE  hand' = [h \in Handshakes |-> hand'[h]] /\ \A h \in Handshakes : HandInv(h)'
<1>1. ASSUME NEW h \in Handshakes PROVE HandInv(h)'
  <2>1. HandInv(h)
    BY DEF SlInv
  <2>2. CASE hand[h].pc \in {"served", "refused"}
    <3>1. hand'[h] = Ended(FALSE, "over", FALSE)
      BY <2>2 DEF Unsteady
    <3> QED BY <3>1, EndedHand DEF HandInv, Reading
  <2>3. CASE hand[h].pc \notin {"served", "refused"}
    <3>1. hand'[h] = [hand[h] EXCEPT !.steady = FALSE]
      BY <2>3 DEF Unsteady
    <3>2. /\ hand'[h] \in Hand /\ ~hand'[h].steady /\ hand'[h].pc = hand[h].pc
          /\ hand'[h].at = hand[h].at /\ hand'[h].got = hand[h].got
      BY <2>1, <3>1 DEF HandInv, Hand
    <3>3. hand[h].at.chain \in Nat /\ hand[h].got.issue \in Nat /\ chain.issue \in Nat /\ chain'.issue \in Nat
      BY <2>1 DEF HandInv, Hand, SlInv, FilesInv, Chains
    <3> QED BY <2>1, <3>2, <3>3 DEF HandInv
  <2> QED BY <2>2, <2>3
<1> QED BY <1>1 DEF Unsteady

LEMMA LeafFiles ==
  ASSUME SlInv, ReplaceDocument \/ RenewLeaf
  PROVE  SlInv'
<1>1. CASE ReplaceDocument
  <2>1. PICK s \in CaptureSets, o \in BOOLEAN, v \in BOOLEAN :
          sdoc' = [ver |-> sdoc.ver + 1, hosts |-> s, on |-> o, valid |-> v]
    BY <1>1 DEF ReplaceDocument
  <2>2. /\ UNCHANGED <<files, proc, conf, leaf, storeMu>> /\ Unsteady
        /\ missed' = IF proc = "loading" THEN sdoc'.ver ELSE missed
    BY <1>1 DEF ReplaceDocument
  <2>3. sdoc.ver \in Nat /\ sdoc' \in SidecarDoc /\ sdoc'.ver = sdoc.ver + 1
    BY <2>1 DEF SlInv, FilesInv, SidecarDoc, Hosts
  <2>4. FilesInv'
    BY <2>2, <2>3 DEF SlInv, FilesInv, files
  <2>5. ConfInv(proc', conf', sdoc', missed')
    BY <2>2, <2>3 DEF SlInv, ConfInv
  <2>6. hand' = [h \in Handshakes |-> hand'[h]] /\ \A h \in Handshakes : HandInv(h)'
    BY <2>2, Unsteadied DEF files, SlInv, FilesInv
  <2> QED BY <2>2, <2>4, <2>5, <2>6 DEF SlInv, LeafInUse, files
<1>2. CASE RenewLeaf
  <2>1. Unsteady /\ UNCHANGED <<sdoc, inner>>
    BY <1>2 DEF RenewLeaf
  <2>2. \/ chain' = chain /\ pkey' \in {pkey, chain.issue} /\ state' \in {state, helper.hosts}
           /\ \/ helper' = [pc |-> "chain", hosts |-> sdoc.hosts]
              \/ helper' = [helper EXCEPT !.pc = "state"]
              \/ helper' = [pc |-> "idle", hosts |-> {}]
        \/ chain' = [issue |-> chain.issue + 1, covers |-> helper.hosts]
           /\ helper' = [helper EXCEPT !.pc = "key"] /\ UNCHANGED <<pkey, state>>
    BY <1>2 DEF RenewLeaf
  <2>3. /\ chain.issue \in Nat /\ chain.issue + 1 \in Nat /\ chain.covers \in SUBSET Hosts
        /\ helper.hosts \in SUBSET Hosts /\ sdoc.hosts \in SUBSET Hosts
        /\ helper = [pc |-> helper.pc, hosts |-> helper.hosts]
    BY DEF SlInv, FilesInv, Chains, SidecarDoc
  <2>4. /\ chain' \in Chains /\ (chain' = chain \/ chain'.issue = chain.issue + 1)
        /\ pkey' \in Nat /\ state' \in SUBSET Hosts
    BY <2>2, <2>3 DEF SlInv, FilesInv, Chains
  <2>5. helper'.hosts \in SUBSET Hosts /\ helper' = [pc |-> helper'.pc, hosts |-> helper'.hosts]
    BY <2>2, <2>3
  <2>6. FilesInv'
    BY <2>1, <2>4, <2>5 DEF SlInv, FilesInv
  <2>7. LeafInUse(proc', leaf', chain')
    BY <2>1, <2>3, <2>4 DEF SlInv, LeafInUse, Leaves, inner
  <2>8. hand' = [h \in Handshakes |-> hand'[h]] /\ \A h \in Handshakes : HandInv(h)'
    BY <2>1, <2>3, <2>4, Unsteadied DEF inner
  <2> QED BY <2>1, <2>6, <2>7, <2>8 DEF SlInv, inner
<1> QED BY <1>1, <1>2

\* The process starts, looks and ends.
LEMMA LeafProcess ==
  ASSUME SlInv, LoadConfig \/ StatConfig \/ StartUp \/ Poll \/ Killed
  PROVE  SlInv'
<1>0. UNCHANGED <<sdoc, files>>
  BY DEF LoadConfig, StatConfig, StartUp, Poll, Killed
<1>1. FilesInv'
  BY <1>0 DEF SlInv, FilesInv, files
<1>2. ASSUME End PROVE SlInv'
  <2>1. ASSUME NEW h \in Handshakes PROVE HandInv(h)'
    <3>1. HandInv(h)
      BY DEF SlInv
    <3>2. CASE hand[h].pc \in {"new", "served", "refused"}
      <4>1. hand'[h] = hand[h]
        BY <1>2, <3>2 DEF End
      <4> QED BY <1>0, <3>1, <3>2, <4>1 DEF HandInv, SteadyInv, Reading, files
    <3>3. CASE hand[h].pc \notin {"new", "served", "refused"}
      <4>1. hand'[h] = Ended(FALSE, "over", FALSE)
        BY <1>2, <3>3 DEF End
      <4> QED BY <4>1, EndedHand DEF HandInv, Reading
    <3> QED BY <3>2, <3>3
  <2> QED BY <1>1, <1>2, <2>1 DEF End, SlInv, ConfInv, LeafInUse
\* Nobody is in the middle of a handshake before the process is up.
<1>3. ASSUME UNCHANGED <<hand, storeMu>>, (proc' = proc /\ missed' = missed) \/ proc # "up",
             ConfInv(proc', conf', sdoc', missed'), LeafInUse(proc', leaf', chain')
      PROVE  SlInv'
  <2>1. ASSUME NEW h \in Handshakes PROVE HandInv(h)'
    <3>1. HandInv(h)
      BY DEF SlInv
    <3> QED BY <1>0, <1>3, <3>1 DEF HandInv, SteadyInv, Published, files
  <2> QED BY <1>1, <1>3, <2>1 DEF SlInv
<1>4. CASE LoadConfig
  <2>1. ConfInv(proc', conf', sdoc', missed')
    BY <1>0, <1>4 DEF LoadConfig, SlInv, FilesInv, ConfInv, SidecarDoc
  <2> QED BY <1>3, <1>4, <2>1 DEF LoadConfig, SlInv, LeafInUse
<1>5. CASE StatConfig
  <2>1. ConfInv(proc', conf', sdoc', missed')
    BY <1>0, <1>5 DEF StatConfig, SlInv, FilesInv, ConfInv, SidecarDoc
  <2> QED BY <1>3, <1>5, <2>1 DEF StatConfig, SlInv, LeafInUse
<1>6. CASE StartUp
  <2>1. proc = "starting" /\ conf' = CurrentConfig /\ UNCHANGED <<hand, storeMu>>
    BY <1>6 DEF StartUp
  <2>2. ConfInv("up", conf', sdoc', missed) /\ ConfInv("down", conf', sdoc', missed')
    BY <1>0, <2>1, CurrentIsAccepted DEF ConfInv
  <2>3. \/ /\ proc' = "up" /\ leaf' = [covers |-> chain.covers, chain |-> chain.issue, key |-> pkey]
           /\ missed' = missed
        \/ proc' = "down"
    BY <1>6 DEF StartUp
  <2>4. LeafInUse(proc', leaf', chain')
    BY <1>0, <2>3 DEF LeafInUse, Leaves, SlInv, FilesInv, Chains, files
  <2> QED BY <1>3, <2>1, <2>2, <2>3, <2>4
<1>7. CASE Poll
  <2>1. CASE conf' = CurrentConfig /\ UNCHANGED <<proc, leaf, storeMu, hand, missed>>
    <3>1. proc = "up"
      BY <1>7 DEF Poll
    <3>2. ConfInv(proc', conf', sdoc', missed')
      BY <1>0, <2>1, <3>1, CurrentIsAccepted
    <3>3. LeafInUse(proc', leaf', chain')
      BY <1>0, <2>1 DEF SlInv, files
    <3> QED BY <1>3, <2>1, <3>2, <3>3
  <2> QED BY <1>2, <1>7, <2>1 DEF Poll
<1>8. CASE Killed
  BY <1>2, <1>8 DEF Killed
<1> QED BY <1>4, <1>5, <1>6, <1>7, <1>8

\* A handshake begins: of a document for which a leaf is published the host is one.
LEMMA HandHello ==
  ASSUME SlInv, NEW h \in Handshakes, Hello(h)
  PROVE  SlInv'
<1>1. PICK host \in UNION CaptureSets :
        hand' = [hand EXCEPT ![h] =
          IF conf'.doc.on /\ host \in conf'.doc.hosts
          THEN [NoHand EXCEPT !.host = host, !.steady = (Published /\ host \in sdoc.hosts /\ sdoc.ver # missed), !.pc = "lock"]
          ELSE Ended(Published /\ host \in sdoc.hosts /\ sdoc.ver # missed, "refused", FALSE)]
  BY DEF Hello
<1> DEFINE steady == Published /\ host \in sdoc.hosts /\ sdoc.ver # missed
           x == IF conf'.doc.on /\ host \in conf'.doc.hosts
                THEN [NoHand EXCEPT !.host = host, !.steady = steady, !.pc = "lock"]
                ELSE Ended(steady, "refused", FALSE)
<1>2. /\ UNCHANGED <<sdoc, files, proc, leaf, storeMu, missed>> /\ proc = "up" /\ conf' = CurrentConfig
      /\ hand' = [hand EXCEPT ![h] = x] /\ hand'[h] = x
  BY <1>1 DEF Hello, SlInv
<1>3. ConfInv(proc, conf', sdoc, missed) /\ (sdoc.valid /\ sdoc.ver # missed => conf'.doc = sdoc)
  BY <1>2, CurrentIsAccepted
<1>4. steady \in BOOLEAN
  BY DEF Published
<1>5. HandInv(h)'
  <2>1. CASE conf'.doc.on /\ host \in conf'.doc.hosts
    <3>1. x = [NoHand EXCEPT !.host = host, !.steady = steady, !.pc = "lock"]
      BY <2>1
    <3> HIDE DEF x, steady
    <3>2. x \in Hand /\ x.pc = "lock" /\ x.host = host /\ x.steady = steady
      BY <1>4, <3>1 DEF Hand, NoHand, Hosts, Chains
    <3>3. "lock" \notin Reading
      BY DEF Reading
    <3>4. steady => (Published /\ host \in sdoc.hosts /\ sdoc.ver # missed)'
      BY <1>2 DEF steady, Published, files
    <3>5. hand'[h] \in Hand /\ proc' = "up"
      BY <1>2, <3>2
    <3> QED BY <1>2, <3>2, <3>3, <3>4, <3>5 DEF HandInv, SteadyInv
  <2>2. CASE ~(conf'.doc.on /\ host \in conf'.doc.hosts)
    <3>1. x = Ended(steady, "refused", FALSE) /\ ~steady
      BY <1>3, <2>2 DEF Published, HasWork
    <3> HIDE DEF x, steady
    <3>2. x \in Hand /\ x.pc \in {"refused", "over"} /\ ~x.steady
      BY <1>4, <3>1, EndedHand
    <3> QED BY <1>2, <3>2 DEF HandInv, Reading
  <2> QED BY <2>1, <2>2
<1> HIDE DEF x
<1> QED BY <1>2, <1>3, <1>5, OneHand DEF SlInv

\* It gets the leaf l.
LEMMA HandServed ==
  ASSUME SlInv, NEW h \in Handshakes, hand[h].pc \in Reading, NEW l, Serve(h, l),
         UNCHANGED <<sdoc, files, proc, conf, missed>>, LeafInUse(proc, l, chain),
         hand[h].steady => l.covers = chain.covers
  PROVE  SlInv'
<1> DEFINE c == hand[h].host \in l.covers
           x == Ended(hand[h].steady, "served", c)
<1>1. HandInv(h)
  BY DEF SlInv
<1>2. /\ hand' = [hand EXCEPT ![h] = x] /\ hand'[h] = x /\ leaf' = l /\ storeMu' = Unset /\ storeMu = h
  BY <1>1 DEF Serve, SlInv, HandInv
<1>3. hand[h].steady => c
  BY <1>1 DEF HandInv, SteadyInv, Published
<1>4. hand[h].steady \in BOOLEAN /\ c \in BOOLEAN
  BY <1>1 DEF HandInv, Hand
<1> HIDE DEF c
<1>5. /\ x \in Hand /\ x.steady = hand[h].steady /\ x.pc \in {"served", "over"}
      /\ hand[h].steady => x.pc = "served" /\ x.covered = c
  BY <1>4, EndedHand
<1> HIDE DEF x
<1>6. HandInv(h)'
  BY <1>2, <1>3, <1>5 DEF HandInv, SteadyInv, Reading
<1> QED BY <1>2, <1>6, OneHand DEF SlInv

LEMMA HandSteps ==
  ASSUME SlInv, NEW h \in Handshakes, HandStep(h)
  PROVE  SlInv'
<1>0. HandInv(h) /\ chain \in Chains /\ pkey \in Nat
  BY DEF SlInv, FilesInv
<1>1. CASE LockLeaf(h)
  <2> DEFINE x == [hand[h] EXCEPT !.pc = "stat", !.want = conf'.doc.hosts]
  <2>1. /\ hand' = [hand EXCEPT ![h] = x] /\ hand'[h] = x /\ hand[h].pc = "lock"
        /\ storeMu = Unset /\ storeMu' = h /\ conf' = CurrentConfig
        /\ UNCHANGED <<sdoc, files, proc, leaf, missed>>
    BY <1>1 DEF LockLeaf, SlInv
  <2>2. proc = "up"
    BY <1>0, <2>1 DEF HandInv
  <2>3. ConfInv(proc, conf', sdoc, missed) /\ (sdoc.valid /\ sdoc.ver # missed => conf'.doc = sdoc)
    BY <2>1, <2>2, CurrentIsAccepted
  <2>4. conf'.doc.hosts \in SUBSET Hosts
    BY <2>2, <2>3 DEF ConfInv, SidecarDoc
  <2>5. /\ x \in Hand /\ x.pc = "stat" /\ x.want = conf'.doc.hosts
        /\ x.host = hand[h].host /\ x.steady = hand[h].steady
    BY <1>0, <2>4 DEF HandInv, Hand, Reading
  <2> HIDE DEF x
  <2>6. HandInv(h)'
    BY <1>0, <2>1, <2>2, <2>3, <2>5 DEF HandInv, SteadyInv, Published, files
  <2> QED BY <2>1, <2>3, <2>6, OneHand DEF SlInv
<1>2. CASE StatChain(h)
  <2> DEFINE x == [hand[h] EXCEPT !.pc = "statKey", !.at.chain = chain.issue]
  <2>1. /\ hand' = [hand EXCEPT ![h] = x] /\ hand'[h] = x /\ hand[h].pc = "stat"
        /\ UNCHANGED <<sdoc, files, inner>>
    BY <1>2 DEF StatChain, SlInv
  <2>2. hand[h].at \in [chain : Nat, key : Nat] /\ chain.issue \in Nat
    BY <1>0 DEF HandInv, Hand, Chains
  <2> DEFINE a == [hand[h].at EXCEPT !.chain = chain.issue]
  <2>3. x = [hand[h] EXCEPT !.pc = "statKey", !.at = a] /\ a \in [chain : Nat, key : Nat] /\ a.chain = chain.issue
    BY <2>2
  <2> HIDE DEF a, x
  <2>4. /\ x \in Hand /\ x.pc = "statKey" /\ x.want = hand[h].want /\ x.at.chain = chain.issue
        /\ x.host = hand[h].host /\ x.steady = hand[h].steady
    BY <1>0, <2>3 DEF HandInv, Hand, Reading
  <2>5. HandInv(h)'
    BY <1>0, <2>1, <2>2, <2>4 DEF HandInv, SteadyInv, Published, files, inner, Reading
  <2> QED BY <2>1, <2>5, OneHand DEF SlInv, inner
<1>3. CASE StatKey(h)
  <2>1. hand[h].pc = "statKey" /\ UNCHANGED <<sdoc, files, proc, conf, missed>>
    BY <1>3 DEF StatKey
  <2>2. proc = "up" /\ hand[h].at \in [chain : Nat, key : Nat]
    BY <1>0, <2>1 DEF HandInv, Hand, Reading
  <2>3. CASE leaf.chain = hand[h].at.chain /\ leaf.key = pkey
    <3>1. Serve(h, leaf)
      BY <1>3, <2>3 DEF StatKey
    <3>2. hand[h].steady => leaf.covers = chain.covers
      BY <1>0, <2>1, <2>2, <2>3 DEF HandInv, SteadyInv, SlInv, LeafInUse
    <3> QED BY <2>1, <3>1, <3>2, HandServed DEF SlInv, Reading
  <2>4. CASE ~(leaf.chain = hand[h].at.chain /\ leaf.key = pkey)
    <3> DEFINE x == [hand[h] EXCEPT !.pc = "read", !.at.key = pkey]
               a == [hand[h].at EXCEPT !.key = pkey]
    <3>1. /\ hand' = [hand EXCEPT ![h] = x] /\ hand'[h] = x /\ UNCHANGED <<leaf, storeMu>>
      BY <1>3, <2>4 DEF StatKey, SlInv
    <3>2. /\ x = [hand[h] EXCEPT !.pc = "read", !.at = a] /\ a \in [chain : Nat, key : Nat]
          /\ a.chain = hand[h].at.chain
      BY <1>0, <2>2
    <3> HIDE DEF a, x
    <3>3. /\ x \in Hand /\ x.pc = "read" /\ x.want = hand[h].want /\ x.at.chain = hand[h].at.chain
          /\ x.host = hand[h].host /\ x.steady = hand[h].steady
      BY <1>0, <3>2 DEF HandInv, Hand, Reading
    <3>4. HandInv(h)'
      BY <1>0, <2>1, <3>1, <3>3 DEF HandInv, SteadyInv, Published, files, Reading
    <3> QED BY <2>1, <3>1, <3>4, OneHand DEF SlInv
  <2> QED BY <2>3, <2>4
<1>4. CASE ReadChain(h)
  <2> DEFINE x == [hand[h] EXCEPT !.pc = "readKey", !.got = chain]
  <2>1. /\ hand' = [hand EXCEPT ![h] = x] /\ hand'[h] = x /\ hand[h].pc = "read"
        /\ UNCHANGED <<sdoc, files, inner>>
    BY <1>4 DEF ReadChain, SlInv
  <2>2. /\ x \in Hand /\ x.pc = "readKey" /\ x.want = hand[h].want /\ x.at = hand[h].at
        /\ x.got = chain /\ x.host = hand[h].host /\ x.steady = hand[h].steady
    BY <1>0 DEF HandInv, Hand, Reading
  <2> HIDE DEF x
  <2>3. chain.issue \in Nat
    BY <1>0 DEF Chains
  <2>4. HandInv(h)'
    BY <1>0, <2>1, <2>2, <2>3 DEF HandInv, SteadyInv, Published, files, inner, Reading
  <2> QED BY <2>1, <2>4, OneHand DEF SlInv, inner
<1>5. CASE ReadKey(h)
  <2> DEFINE l == [covers |-> hand[h].got.covers, chain |-> hand[h].at.chain, key |-> hand[h].at.key]
  <2>1. hand[h].pc = "readKey" /\ UNCHANGED <<sdoc, files, proc, conf, missed>>
    BY <1>5 DEF ReadKey
  <2>2. /\ proc = "up" /\ hand[h].at \in [chain : Nat, key : Nat] /\ hand[h].got \in Chains
        /\ hand[h].at.chain <= hand[h].got.issue /\ hand[h].got.issue <= chain.issue
        /\ hand[h].got.issue = chain.issue => hand[h].got = chain
    BY <1>0, <2>1 DEF HandInv, Hand, Reading
  <2>3. CASE hand[h].got.issue = pkey /\ hand[h].want \subseteq hand[h].got.covers
    <3>1. Serve(h, l)
      BY <1>5, <2>3 DEF ReadKey
    <3>2. l \in Leaves /\ l.chain = hand[h].at.chain /\ l.covers = hand[h].got.covers
      BY <2>2 DEF Leaves, Chains
    <3> HIDE DEF l
    <3>3. LeafInUse(proc, l, chain)
      BY <1>0, <2>2, <3>2 DEF LeafInUse, Chains
    <3>4. hand[h].steady => l.covers = chain.covers
      BY <1>0, <2>1, <3>2 DEF HandInv, SteadyInv
    <3> QED BY <2>1, <3>1, <3>3, <3>4, HandServed DEF Reading
\* Files that were one state all along match, and cover the document.
  <2>4. CASE ~(hand[h].got.issue = pkey /\ hand[h].want \subseteq hand[h].got.covers)
    <3>1. Serve(h, leaf)
      BY <1>5, <2>4 DEF ReadKey, KeepLeaf
    <3>2. ~hand[h].steady
      BY <1>0, <2>1, <2>4 DEF HandInv, SteadyInv, Published, Reading
    <3> QED BY <2>1, <3>1, <3>2, HandServed DEF SlInv, Reading
  <2> QED BY <2>3, <2>4
<1> QED BY <1>1, <1>2, <1>3, <1>4, <1>5 DEF HandStep

LEMMA LeafInit == SlInit => SlInv
<1> SUFFICES ASSUME SlInit PROVE SlInv
  OBVIOUS
<1>1. PICK s \in CaptureSets, o \in BOOLEAN : sdoc = [ver |-> 1, hosts |-> s, on |-> o, valid |-> TRUE]
  BY DEF SlInit
<1>2. sdoc \in SidecarDoc /\ sdoc.ver = 1
  BY <1>1 DEF SidecarDoc, Hosts
<1>3. FilesInv
  BY <1>2 DEF SlInit, FilesInv, Chains, SidecarDoc
<1>4. \A h \in Handshakes : HandInv(h)
  <2>1. NoHand \in Hand /\ NoHand.pc = "new" /\ ~NoHand.steady
    BY DEF NoHand, Hand, Chains
  <2> QED BY <2>1 DEF SlInit, HandInv, Reading
<1> QED BY <1>3, <1>4 DEF SlInit, SlInv, ConfInv, LeafInUse

LEMMA LeafStep == SlInv /\ [SlNext]_slVars => SlInv'
<1> SUFFICES ASSUME SlInv, [SlNext]_slVars PROVE SlInv'
  OBVIOUS
<1>1. CASE UNCHANGED slVars
  BY <1>1 DEF slVars, SlInv, FilesInv, HandInv, SteadyInv, Published
<1> QED BY <1>1, LeafFiles, LeafProcess, HandHello, HandSteps DEF SlNext, SlWorking

\* A handshake that saw one state of the files, with a leaf for the document published, is
\* served a leaf that covers its host, for any number of handshakes, renewals and restarts
\* and for any documents, placed at any time; only a document that the process took for the
\* one before it, when it started, is no such state (cert.go:45-92, config.go:1309-1343).
THEOREM RoutedHostsAreCovered == SlSpec => []RoutedHostCovered
<1>1. SlInv => RoutedHostCovered
  BY DEF SlInv, HandInv, SteadyInv, RoutedHostCovered
<1> QED BY LeafInit, LeafStep, <1>1, PTL DEF SlSpec

\* The leaf's mutex is held by whoever reads the files, and what is in use was accepted.
THEOREM SidecarTypeCorrect == SlSpec => []SlTypeOK
<1>1. SlInv => SlTypeOK
  BY DEF SlInv, HandInv, ConfInv, LeafInUse, Leaves, Hosts, Reading, SlTypeOK
<1> QED BY LeafInit, LeafStep, <1>1, PTL DEF SlSpec

----------------------------------------------------------------------------
(* The three parts together.                                                 *)

LEMMA ApartInit == SvInit => Init /\ SlInit /\ ExInit
BY DEF SvInit

LEMMA ApartNext == [SvNext]_svVars => [Next]_vars /\ [SlNext]_slVars /\ [ExNext]_exVars
BY DEF SvNext, svVars

\* The daemon's stores, the sidecar's state and the scripts' storage stay well formed in
\* the system that the run checks: each part only moves by its own steps
\* (intercept_module_manager.go:494-503, cert.go:60-140, module_runtime.go:318-360).
THEOREM PartsTypeCorrect == SvSpec => []PartsTypeOK
<1> DEFINE I == IInv /\ ChangesInv /\ TypeInv /\ SlInv /\ StoreInv
<1>1. SvInit => I
  BY ApartInit, InitInv, ChangesInit, TypesInit, LeafInit, StoreInit
<1>2. I /\ [SvNext]_svVars => I'
  <2> SUFFICES ASSUME I, [SvNext]_svVars PROVE I'
    OBVIOUS
  <2>1. [Next]_vars /\ [SlNext]_slVars /\ [ExNext]_exVars
    BY ApartNext
  <2>2. IInv' /\ ChangesInv' /\ TypeInv'
    BY <2>1, StepInv, ChangesStep, TypesNext
  <2>3. SlInv' /\ StoreInv'
    BY <2>1, LeafStep, StoreStep
  <2> QED BY <2>2, <2>3
<1>3. I => PartsTypeOK
  <2>1. ChangesInv /\ TypeInv => TypeOK
    BY TypesHold
  <2>2. SlInv => SlTypeOK
    BY DEF SlInv, HandInv, ConfInv, LeafInUse, Leaves, Hosts, Reading, SlTypeOK
  <2>3. StoreInv => ExTypeOK
    BY DEF StoreInv, ExTypeOK, Fits
  <2> QED BY <2>1, <2>2, <2>3 DEF PartsTypeOK
<1> QED BY <1>1, <1>2, <1>3, PTL DEF SvSpec
=============================================================================
