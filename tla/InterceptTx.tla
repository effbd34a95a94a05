------------------------------ MODULE InterceptTx ------------------------------
(***************************************************************************)
(* The transactions of the interception control plane: what one change of  *)
(* an extension does to four stores that no lock and no file system makes  *)
(* atomic:                                                                 *)
(*   doc      config.json, the sidecar's document (InterceptConfigStore),  *)
(*   file     mihomo's config.yaml (MihomoConfigStore),                    *)
(*   running  what mihomo has loaded (PUT /configs),                       *)
(*   overlay  the capture hosts the DNS engine answers for                 *)
(*            (Handler.interceptHosts),                                    *)
(* with cert, the leaf that a root-owned unit publishes on its own when it *)
(* sees config.json change.  Actors are console or bot requests: module    *)
(* mutations (intercept_module_manager.go), raw edits and resets of        *)
(* mihomo's file (api_mihomo_config.go) and ingress module switches        *)
(* (api_mihomo_ingress_modules.go).  A module's hosts are one value, its   *)
(* capture, egress and policy rules one rule.                              *)
(***************************************************************************)
EXTENDS Naturals, FiniteSets, SequencesExt, Loops

CONSTANTS
  Modules,      \* extension identifiers
  Groups,       \* mihomo proxy groups
  Terminal,     \* no egress group: the terminal MATCH target
  Actors,       \* concurrent requests
  Editors,      \* the actors that also edit mihomo's file as text
  InitialDocs,  \* documents of a settled system
  MaxOps,       \* bound on requests
  MaxCrash,     \* bound on restarts of 5gpn-dns
  None

ASSUME InterceptAssumption ==
  /\ IsFiniteSet(Modules) /\ IsFiniteSet(Groups) /\ Terminal \notin Groups
  /\ Editors \subseteq Actors /\ None \notin Actors
  /\ MaxOps \in Nat /\ MaxCrash \in Nat

Resolvers == {"trust", "china"}
Versions == {1, 2}

Orders ==
  {s \in UNION {[1..n -> Modules] : n \in 0..Cardinality(Modules)} : IsInjective(s)}

Doc == [mitm : BOOLEAN, order : Orders, on : SUBSET Modules,
        group : [Modules -> Groups \cup {Terminal}],
        dns : [Modules -> Resolvers], ver : [Modules -> Versions]]

\* A document has its enabled modules in its list.
ASSUME InitialAssumption == \A d \in InitialDocs : d \in Doc /\ d.on \subseteq Range(d.order)

Rule == Modules \X Versions \X (Groups \cup {Terminal})
Text == [rules : Seq(Rule), groups : SUBSET Groups, cred : BOOLEAN, quic : BOOLEAN]

VARIABLES
  doc, file, running, overlay, cert,
  pub,      \* the hosts the certificate unit read and has not published yet
  mu,       \* holder of InterceptModuleManager.mu
  mlock,    \* holder of MihomoConfigStore's lock
  op,       \* the request each actor has under way
  stuck,    \* a rollback failed and was reported
  ops, crashes

vars == <<doc, file, running, overlay, cert, pub, mu, mlock, op, stuck, ops, crashes>>
stores == <<doc, file, running, overlay, cert>>
counts == <<pub, ops, crashes>>

Idle == [phase |-> "idle"]
Phases == {"idle", "sent", "fetched", "cert", "mihomo", "put", "publish",
           "rawPut", "reconcile", "undoFile", "undoPut", "undoDoc"}

-----------------------------------------------------------------------------
(* What a document asks of mihomo, of the certificate and of the DNS engine. *)

Active(d) == IF d.mitm THEN d.on ELSE {}
CertHosts(d) == {<<m, d.ver[m]>> : m \in d.on}

InOrder(d, S) == Only(d.order, S)

\* newInterceptHostSnapshot: the active modules in execution order.
Overlay(d) ==
  LET s == InOrder(d, Active(d))
  IN [i \in DOMAIN s |-> <<s[i], d.ver[s[i]], d.dns[s[i]]>>]

\* interceptMihomoRouting: modules bound to a group first.
Route(d) ==
  LET bound == {m \in Active(d) : d.group[m] # Terminal}
      s == InOrder(d, bound) \o InOrder(d, Active(d) \ bound)
  IN [i \in DOMAIN s |-> <<s[i], d.ver[s[i]], d.group[s[i]]>>]

\* validateInterceptEgressBindings over the modules S; a module that is not
\* installed has no group.
BindingsOf(d, S, t) == \A m \in S : d.group[m] \in t.groups \cup {Terminal}

\* The rules of t are those of d with some missing, in the same order.
Reconcileable(t, d) ==
  /\ t.cred
  /\ BindingsOf(d, Active(d), t)
  /\ t.rules = Only(Route(d), Range(t.rules))

Manageable(t, d) ==
  /\ t.cred
  /\ BindingsOf(d, Active(d), t)
  /\ t.rules = Route(d)

Rendered(t, d) == [t EXCEPT !.rules = Route(d)]
Installed(d) == Range(d.order)
CertificateReady(d) == cert = CertHosts(d)

\* Defect: the overlay is taken from the document alone.
OverlayOfDoc(t, d) == Overlay(d)

\* What PrepareRuntime and ReconcileMihomoText publish: fail closed.
OverlayFor(t, d) ==
  IF /\ d.mitm
     /\ Manageable(t, d)
     /\ Active(d) # {} => CertificateReady(d)
  THEN Overlay(d) ELSE <<>>

-----------------------------------------------------------------------------
TypeOK ==
  /\ doc \in Doc /\ doc.on \subseteq Installed(doc)
  /\ \A t \in {file, running} :
       /\ t.rules \in Seq(Rule) /\ t.groups \subseteq Groups
       /\ t.cred \in BOOLEAN /\ t.quic \in BOOLEAN
  /\ overlay \in Seq(Modules \X Versions \X Resolvers)
  /\ cert \subseteq Modules \X Versions
  /\ pub \in (SUBSET (Modules \X Versions)) \cup {None}
  /\ mu \in Actors \cup {None} /\ mlock \in Actors \cup {None}
  /\ \A o \in Actors : op[o].phase \in Phases
  /\ stuck \in BOOLEAN /\ ops \in 0..MaxOps /\ crashes \in 0..MaxCrash

Init ==
  /\ doc \in InitialDocs
  /\ file = [rules |-> Route(doc), groups |-> Groups, cred |-> TRUE, quic |-> FALSE]
  /\ running = file
  /\ overlay = Overlay(doc)
  /\ cert = CertHosts(doc)
  /\ pub = None
  /\ mu = None /\ mlock = None
  /\ op = [o \in Actors |-> Idle]
  /\ stuck = FALSE
  /\ ops = 0 /\ crashes = 0

-----------------------------------------------------------------------------
(* Requests.                                                                 *)

ModuleRequests ==
  [kind : {"enable", "disable", "delete"}, m : Modules]
    \cup [kind : {"import", "update"}, m : Modules, ver : Versions]
    \cup [kind : {"group"}, m : Modules, group : Groups \cup {Terminal}]
    \cup [kind : {"dns"}, m : Modules, dns : Resolvers]
    \cup [kind : {"order"}, order : Orders]
    \cup [kind : {"mitm"}, mitm : BOOLEAN]

\* The texts an operator may submit: the file with rules removed or restored,
\* with groups dropped, with the interception credentials broken, with a rule of
\* the operator's own (here the ingress switch) changed, or the seed.
RawTexts ==
  {[file EXCEPT !.rules = r] : r \in {<<>>, Route(doc)}}
    \cup {[file EXCEPT !.groups = g] : g \in {{}, Groups}}
    \cup {[file EXCEPT !.cred = c] : c \in BOOLEAN}
    \cup {[file EXCEPT !.quic = q] : q \in BOOLEAN}
    \cup {[rules |-> <<>>, groups |-> {}, cred |-> TRUE, quic |-> FALSE]}

\* Defect: importing does not look for a module of the same id.
AllowedTwice(d, r) ==
  CASE r.kind = "import" -> TRUE
    [] r.kind \in {"update", "delete"} -> r.m \in Installed(d) \ d.on
    [] r.kind = "order" -> Range(r.order) = Installed(d)
    [] r.kind = "mitm" -> TRUE
    [] OTHER -> r.m \in Installed(d)

\* The mutators' own checks.
Allowed(d, r) ==
  CASE r.kind = "import" -> r.m \notin Installed(d)
    [] r.kind \in {"update", "delete"} -> r.m \in Installed(d) \ d.on
    [] r.kind = "order" -> Range(r.order) = Installed(d)
    [] r.kind = "mitm" -> TRUE
    [] OTHER -> r.m \in Installed(d)

Edited(d, r) ==
  CASE r.kind = "enable" -> [d EXCEPT !.on = @ \cup {r.m}]
    [] r.kind = "disable" -> [d EXCEPT !.on = @ \ {r.m}]
    [] r.kind = "group" -> [d EXCEPT !.group[r.m] = r.group]
    [] r.kind = "dns" -> [d EXCEPT !.dns[r.m] = r.dns]
    [] r.kind = "order" -> [d EXCEPT !.order = r.order]
    [] r.kind = "mitm" -> [d EXCEPT !.mitm = r.mitm]
    [] r.kind = "update" -> [d EXCEPT !.ver[r.m] = r.ver]
    [] r.kind = "import" ->
         [d EXCEPT !.order = Append(@, r.m), !.ver[r.m] = r.ver,
                   !.group[r.m] = Terminal, !.dns[r.m] = "trust"]
    [] r.kind = "delete" ->
         [d EXCEPT !.order = Only(@, Range(@) \ {r.m}), !.group[r.m] = Terminal]

\* What each mutator reports: does mihomo's file have to follow?
RoutingChanged(d, r) ==
  CASE r.kind = "enable" -> d.mitm /\ r.m \notin d.on
    [] r.kind = "disable" -> d.mitm /\ r.m \in d.on
    [] r.kind = "group" -> TRUE
    [] r.kind = "dns" -> d.mitm /\ r.m \in d.on /\ d.dns[r.m] # r.dns
    [] r.kind = "order" -> d.order # r.order
    [] r.kind = "mitm" -> (Active(d) # {}) # (Active(Edited(d, r)) # {})
    [] OTHER -> FALSE

Send(o, request) ==
  /\ op[o] = Idle
  /\ ops < MaxOps
  /\ ops' = ops + 1
  /\ op' = [op EXCEPT ![o] = request]
  /\ UNCHANGED <<stores, pub, mu, mlock, stuck, crashes>>

\* A client read the modules and asks for a change, naming the revision it saw; binding a
\* module to the group it has is a change of the routing, too.
RequestChange(o) ==
  \E r \in ModuleRequests :
    /\ Allowed(doc, r) /\ (Edited(doc, r) # doc \/ RoutingChanged(doc, r))
    /\ Send(o, [phase |-> "sent", req |-> r, rev |-> doc])

RequestRaw(o) ==
  /\ o \in Editors
  /\ \E t \in RawTexts \ {file} :
       Send(o, [phase |-> "sent", req |-> [kind |-> "raw"], rev |-> file, text |-> t])

RequestIngress(o) ==
  Send(o, [phase |-> "sent", req |-> [kind |-> "quic"], rev |-> file,
           text |-> [file EXCEPT !.quic = ~@]])

OnFile(o) == op[o].req.kind \in {"raw", "quic"}
Finish(o) == op' = [op EXCEPT ![o] = Idle]
Goto(o, p) == op' = [op EXCEPT ![o].phase = p]
Unlock == mu' = None /\ mlock' = None

\* The locks a request waits for before it looks at anything.
CanLock(o) ==
  /\ op[o].req.kind # "quic" => mu = None
  /\ OnFile(o) => mlock = None

\* A revision conflict, a validation failure or a cancelled request: no effect.
Reject(o) ==
  /\ op[o].phase \in {"sent", "fetched"}
  /\ CanLock(o)
  /\ Finish(o)
  /\ UNCHANGED <<stores, counts, mu, mlock, stuck>>

-----------------------------------------------------------------------------
(* Changes that leave mihomo alone.                                          *)

\* ApplyUpdate fetches the new snapshot before it takes the manager's lock.
FetchUpdate(o) ==
  /\ op[o].phase = "sent" /\ op[o].req.kind = "update"
  /\ doc = op[o].rev
  /\ op[o].req.m \notin doc.on
  /\ Goto(o, "fetched")
  /\ UNCHANGED <<stores, counts, mu, mlock, stuck>>

\* Defect: only the module's own entry is compared after the fetch.
WriteSnapshotUnchecked(o) ==
  /\ op[o].phase = "fetched"
  /\ mu = None
  /\ op[o].req.m \in Installed(doc)
  /\ doc.ver[op[o].req.m] = op[o].rev.ver[op[o].req.m]
  /\ doc' = Edited(doc, op[o].req)
  /\ Finish(o)
  /\ UNCHANGED <<file, running, overlay, cert, counts, mu, mlock, stuck>>

WriteSnapshot(o) ==
  /\ op[o].phase = "fetched"
  /\ mu = None
  /\ doc = op[o].rev
  /\ doc' = Edited(doc, op[o].req)
  /\ Finish(o)
  /\ UNCHANGED <<file, running, overlay, cert, counts, mu, mlock, stuck>>

\* importSnapshot, Delete, and mutate when the routing does not change.
WriteDocument(o) ==
  /\ op[o].phase = "sent" /\ ~OnFile(o) /\ op[o].req.kind # "update"
  /\ mu = None
  /\ doc = op[o].rev
  /\ Allowed(doc, op[o].req)
  /\ ~RoutingChanged(doc, op[o].req)
  /\ doc' = Edited(doc, op[o].req)
  /\ Finish(o)
  /\ UNCHANGED <<file, running, overlay, cert, counts, mu, mlock, stuck>>

-----------------------------------------------------------------------------
(* mutate: the document, the certificate, mihomo's file, mihomo, the DNS     *)
(* engine, in that order, under all three locks.                             *)

\* Defect: only the first activation waits for the certificate.
NeedsCertFirst(old, next) ==
  /\ CertHosts(next) # {}
  /\ Active(old) = {} /\ Active(next) # {} /\ ~CertificateReady(next)

NeedsCert(old, next) ==
  /\ CertHosts(next) # {}
  /\ \/ CertHosts(old) # CertHosts(next)
     \/ Active(old) = {} /\ Active(next) # {} /\ ~CertificateReady(next)

\* late is history: a certificate run that may have read an older document was
\* under way.
Stage(o) ==
  /\ op[o].phase = "sent" /\ ~OnFile(o)
  /\ mu = None /\ mlock = None
  /\ doc = op[o].rev
  /\ Allowed(doc, op[o].req)
  /\ RoutingChanged(doc, op[o].req)
  /\ Reconcileable(file, doc)
  /\ LET next == Edited(doc, op[o].req) IN
       /\ BindingsOf(next, Modules, file)
       /\ doc' = next
       /\ op' = [op EXCEPT ![o] =
            [phase |-> IF NeedsCert(doc, next) THEN "cert" ELSE "mihomo",
             req |-> op[o].req, old |-> doc, next |-> next,
             oldText |-> file, text |-> Rendered(file, next),
             late |-> pub # None]]
  /\ mu' = o /\ mlock' = o
  /\ UNCHANGED <<file, running, overlay, cert, counts, stuck>>

\* waitForCertificate polls cert-state.
CertReady(o) ==
  /\ op[o].phase = "cert"
  /\ CertificateReady(op[o].next)
  /\ Goto(o, "mihomo")
  /\ UNCHANGED <<stores, counts, mu, mlock, stuck>>

\* The wait limit or the request's context ends first.
CertTimeout(o) ==
  /\ op[o].phase = "cert"
  /\ Goto(o, "undoDoc")
  /\ UNCHANGED <<stores, counts, mu, mlock, stuck>>

WriteMihomo(o) ==
  /\ op[o].phase = "mihomo"
  /\ file' = op[o].text
  /\ Goto(o, "put")
  /\ UNCHANGED <<doc, running, overlay, cert, counts, mu, mlock, stuck>>

WriteMihomoFails(o) ==
  /\ op[o].phase = "mihomo"
  /\ Goto(o, "undoDoc")
  /\ UNCHANGED <<stores, counts, mu, mlock, stuck>>

PutConfigs(o) ==
  /\ op[o].phase = "put"
  /\ running' = file
  /\ IF op[o].req.kind = "quic"
       THEN Finish(o) /\ mlock' = None /\ UNCHANGED mu
       ELSE Goto(o, "publish") /\ UNCHANGED <<mu, mlock>>
  /\ UNCHANGED <<doc, file, overlay, cert, counts, stuck>>

\* An error or a lost answer: mihomo may have loaded the file all the same.
PutConfigsFails(o) ==
  /\ op[o].phase = "put"
  /\ running' \in {running, file}
  /\ Goto(o, "undoFile")
  /\ UNCHANGED <<doc, file, overlay, cert, counts, mu, mlock, stuck>>

UndoFile(o) ==
  /\ op[o].phase = "undoFile"
  /\ file' = op[o].oldText
  /\ Goto(o, "undoPut")
  /\ UNCHANGED <<doc, running, overlay, cert, counts, mu, mlock, stuck>>

\* An ingress switch has no document to restore.
UndoneTo(o) ==
  IF op[o].req.kind = "quic"
    THEN Finish(o) /\ mlock' = None /\ UNCHANGED mu
    ELSE Goto(o, "undoDoc") /\ UNCHANGED <<mu, mlock>>

UndoFileFails(o) ==
  /\ op[o].phase = "undoFile"
  /\ stuck' = (stuck \/ op[o].req.kind # "quic")
  /\ UndoneTo(o)
  /\ UNCHANGED <<stores, counts>>

UndoPut(o) ==
  /\ op[o].phase = "undoPut"
  /\ running' \in {running, file}
  /\ UndoneTo(o)
  /\ UNCHANGED <<doc, file, overlay, cert, counts, stuck>>

UndoDoc(o) ==
  /\ op[o].phase = "undoDoc"
  /\ doc' = op[o].old
  /\ Finish(o) /\ Unlock
  /\ UNCHANGED <<file, running, overlay, cert, counts, stuck>>

UndoDocFails(o) ==
  /\ op[o].phase = "undoDoc"
  /\ stuck' = TRUE
  /\ Finish(o) /\ Unlock
  /\ UNCHANGED <<stores, counts>>

PublishHosts(o) ==
  /\ op[o].phase = "publish"
  /\ overlay' = Overlay(op[o].next)
  /\ stuck' = FALSE
  /\ Finish(o) /\ Unlock
  /\ UNCHANGED <<doc, file, running, cert, counts>>

-----------------------------------------------------------------------------
(* Edits of mihomo's file.                                                   *)

\* Defect: the candidate is not compared with the modules' egress groups.
WriteRawUnchecked(o) ==
  /\ op[o].phase = "sent" /\ op[o].req.kind = "raw"
  /\ mu = None /\ mlock = None
  /\ file = op[o].rev
  /\ file' = op[o].text
  /\ mu' = o /\ mlock' = o
  /\ Goto(o, "rawPut")
  /\ UNCHANGED <<doc, running, overlay, cert, counts, stuck>>

\* LockMihomoCandidate and applyMihomoConfigLockedCAS up to the write.
WriteRaw(o) ==
  /\ op[o].phase = "sent" /\ op[o].req.kind = "raw"
  /\ mu = None /\ mlock = None
  /\ BindingsOf(doc, Modules, op[o].text)
  /\ file = op[o].rev
  /\ file' = op[o].text
  /\ mu' = o /\ mlock' = o
  /\ Goto(o, "rawPut")
  /\ UNCHANGED <<doc, running, overlay, cert, counts, stuck>>

\* The hot apply succeeds or fails; the file stays, and the locks are released
\* before the overlay is reconciled.
PutRaw(o) ==
  /\ op[o].phase = "rawPut"
  /\ running' \in {running, file}
  /\ Unlock
  /\ Goto(o, "reconcile")
  /\ UNCHANGED <<doc, file, overlay, cert, counts, stuck>>

\* ReconcileMihomoText with the text of the request.
Reconcile(o) ==
  /\ op[o].phase = "reconcile"
  /\ mu = None
  /\ overlay' = OverlayFor(op[o].text, doc)
  /\ Finish(o)
  /\ UNCHANGED <<doc, file, running, cert, counts, mu, mlock, stuck>>

\* handleMihomoIngressModulePut takes only the file's lock; from here it shares
\* the put and undo steps with mutate.
WriteIngress(o) ==
  /\ op[o].phase = "sent" /\ op[o].req.kind = "quic"
  /\ mlock = None
  /\ file = op[o].rev
  /\ file' = op[o].text
  /\ mlock' = o
  /\ op' = [op EXCEPT ![o] = [phase |-> "put", req |-> op[o].req, oldText |-> file]]
  /\ UNCHANGED <<doc, running, overlay, cert, counts, mu, stuck>>

-----------------------------------------------------------------------------
(* The certificate unit, run by PathChanged or its timer, one at a time; a   *)
(* run with no host to certify, or none missing, changes nothing.            *)

ReadRequest ==
  /\ pub = None
  /\ CertHosts(doc) # {} /\ cert # CertHosts(doc)
  /\ pub' = CertHosts(doc)
  /\ UNCHANGED <<stores, mu, mlock, op, stuck, ops, crashes>>

PublishLeaf ==
  /\ pub # None
  /\ cert' = pub
  /\ pub' = None
  /\ UNCHANGED <<doc, file, running, overlay, mu, mlock, op, stuck, ops, crashes>>

\* 5gpn-dns restarts; PrepareRuntime decides from what is on disk.
Restart ==
  /\ crashes < MaxCrash
  /\ crashes' = crashes + 1
  /\ op' = [o \in Actors |-> Idle]
  /\ Unlock
  /\ overlay' = OverlayFor(file, doc)
  /\ stuck' = FALSE
  /\ UNCHANGED <<doc, file, running, cert, pub, ops>>

-----------------------------------------------------------------------------
Step(o) ==
  \/ Reject(o) \/ FetchUpdate(o) \/ WriteSnapshot(o) \/ WriteDocument(o)
  \/ Stage(o) \/ CertReady(o) \/ CertTimeout(o)
  \/ WriteMihomo(o) \/ WriteMihomoFails(o) \/ PutConfigs(o) \/ PutConfigsFails(o)
  \/ UndoFile(o) \/ UndoFileFails(o) \/ UndoPut(o)
  \/ UndoDoc(o) \/ UndoDocFails(o) \/ PublishHosts(o)
  \/ WriteRaw(o) \/ PutRaw(o) \/ Reconcile(o) \/ WriteIngress(o)

Next ==
  \/ \E o \in Actors : RequestChange(o) \/ RequestRaw(o) \/ RequestIngress(o) \/ Step(o)
  \/ ReadRequest \/ PublishLeaf
  \/ Restart

Spec == Init /\ [][Next]_vars

\* A request that was sent goes on (every wait in it has a limit), and the
\* certificate unit's timer keeps running it.
FairSpec ==
  /\ Spec
  /\ \A o \in Actors : WF_vars(Step(o))
  /\ WF_vars(ReadRequest) /\ WF_vars(PublishLeaf)

-----------------------------------------------------------------------------
(* Properties                                                                *)

Quiet == mu = None /\ mlock = None /\ \A o \in Actors : op[o].phase # "reconcile"

\* The DNS engine captures hosts only while mihomo's file routes them and the
\* document wants them: "published only after an explicit interception-module
\* transaction has installed the matching certificate and mihomo rules"
\* (handler.go:82-84).  A failed rollback is excepted until the next change or
\* restart; it is reported to the operator.
OverlayConsistent ==
  Quiet /\ ~stuck =>
    overlay = <<>> \/ (overlay = Overlay(doc) /\ Manageable(file, doc))

\* Every module's egress group exists in mihomo's file, whatever edits of the
\* file and of the modules race (intercept_module_manager.go:171-197, 1005).
BindingsExist == BindingsOf(doc, Modules, file)

\* The snapshot of an enabled module is never replaced, though ApplyUpdate reads
\* and fetches before it locks ("disable the extension before replacing its
\* immutable snapshot", intercept_module_manager.go:634).
EnabledImmutable ==
  [][\A m \in doc.on \cap doc'.on : doc'.ver[m] = doc.ver[m]]_vars

\* A module the transaction enables reaches the DNS engine only when the leaf
\* covers it, though the certificate unit reads the document at its own pace;
\* excepted is a unit run that read an older document before the change was
\* staged and may still publish after the wait saw a leaf that matched.
EnabledWithCertificate ==
  [][\A o \in Actors :
       op[o].phase = "publish" /\ ~op[o].late /\ overlay' # overlay =>
         CertHosts(op[o].next) \subseteq cert \cup CertHosts(op[o].old)]_vars

\* Every request ends: no lock is left behind on any error path.
RequestsEnd == \A o \in Actors : (op[o].phase # "idle") ~> (op[o].phase = "idle")

\* Whatever was rolled back under it, the leaf ends up matching the document.
CertConverges == <>[](CertHosts(doc) = {} \/ cert = CertHosts(doc))
=============================================================================
