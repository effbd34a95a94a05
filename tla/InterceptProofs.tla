---------------------------- MODULE InterceptProofs ----------------------------
(* Proofs about InterceptTx: the locks exclude each other's holders; no edit of  *)
(* the modules or of mihomo's file leaves a module bound to a group that the    *)
(* file does not have; enabled snapshots stay and come under a leaf; what is     *)
(* captured is routed; and the stores stay well formed.                          *)
EXTENDS InterceptTx, LoopProofs, FiniteSetTheorems, SequenceTheorems, TLAPS

Bindings == [Modules -> Groups \cup {Terminal}]

\* A value with a document's fields and well-formed bindings.
IsDoc(d) ==
  /\ d = [mitm |-> d.mitm, order |-> d.order, on |-> d.on,
          group |-> d.group, dns |-> d.dns, ver |-> d.ver]
  /\ d.group \in Bindings

\* A value with a text's fields.
IsText(t) ==
  t = [rules |-> t.rules, groups |-> t.groups, cred |-> t.cred, quic |-> t.quic]

MutatePhases == {"cert", "mihomo", "put", "publish", "undoFile", "undoPut", "undoDoc"}

\* What each phase of a request has established.
Waiting(r) ==
  /\ r.phase = "sent"
  /\ \/ r.req \in ModuleRequests
     \/ r.req = [kind |-> "raw"] /\ IsText(r.text)
     \/ r.req = [kind |-> "quic"] /\ IsText(r.text) /\ r.text.groups = r.rev.groups

Fetched(r) ==
  r.phase = "fetched" /\ r.req \in ModuleRequests /\ r.req.kind = "update"

Switching(o, r) ==
  /\ r.phase \in {"put", "undoFile", "undoPut"}
  /\ r.req = [kind |-> "quic"]
  /\ mlock = o
  /\ IsText(r.oldText) /\ r.oldText.groups = file.groups

Mutating(o, r) ==
  /\ r.phase \in MutatePhases
  /\ r.req \in ModuleRequests
  /\ mu = o /\ mlock = o
  /\ IsDoc(r.old) /\ BindingsOf(r.old, Modules, file)
  /\ IsText(r.text) /\ r.text.groups = file.groups
  /\ IsText(r.oldText) /\ r.oldText.groups = file.groups

Editing(o, r) == r.phase = "rawPut" /\ r.req = [kind |-> "raw"] /\ mu = o /\ mlock = o

Reconciling(r) == r.phase = "reconcile" /\ r.req = [kind |-> "raw"]

OpInv(o) ==
  \/ op[o].phase = "idle"
  \/ Waiting(op[o])
  \/ Fetched(op[o])
  \/ Switching(o, op[o])
  \/ Mutating(o, op[o])
  \/ Editing(o, op[o])
  \/ Reconciling(op[o])

IInv ==
  /\ IsDoc(doc)
  /\ IsText(file)
  /\ op = [o \in Actors |-> op[o]]
  /\ \A o \in Actors : OpInv(o)
  /\ BindingsExist

-----------------------------------------------------------------------------
\* Edited keeps a document's shape, and only a group request binds a module.
LEMMA EditedShape ==
  ASSUME NEW d, IsDoc(d), NEW r \in ModuleRequests
  PROVE  /\ IsDoc(Edited(d, r))
         /\ r.kind # "group" =>
              \A m \in Modules : Edited(d, r).group[m] \in {d.group[m], Terminal}
<1>1. CASE r \in [kind : {"enable", "disable", "delete"}, m : Modules]
  BY <1>1 DEF IsDoc, Bindings, Edited
<1>2. CASE r \in [kind : {"import", "update"}, m : Modules, ver : Versions]
  BY <1>2 DEF IsDoc, Bindings, Edited
<1>3. CASE r \in [kind : {"group"}, m : Modules, group : Groups \cup {Terminal}]
  BY <1>3 DEF IsDoc, Bindings, Edited
<1>4. CASE r \in [kind : {"dns"}, m : Modules, dns : Resolvers]
  BY <1>4 DEF IsDoc, Bindings, Edited
<1>5. CASE r \in [kind : {"order"}, order : Orders]
  BY <1>5 DEF IsDoc, Bindings, Edited
<1>6. CASE r \in [kind : {"mitm"}, mitm : BOOLEAN]
  BY <1>6 DEF IsDoc, Bindings, Edited
<1> QED BY <1>1, <1>2, <1>3, <1>4, <1>5, <1>6 DEF ModuleRequests

\* A module request is neither a raw edit nor an ingress switch.
LEMMA ModuleKinds ==
  ASSUME NEW r \in ModuleRequests
  PROVE  r.kind \notin {"raw", "quic"}
BY DEF ModuleRequests

LEMMA InitInv == Init => IInv
<1> SUFFICES ASSUME Init PROVE IInv
  OBVIOUS
<1>1. doc \in Doc
  BY InitialAssumption DEF Init
<1>2. IsDoc(doc)
  BY <1>1 DEF Doc, IsDoc, Bindings
<1>3. IsText(file) /\ file.groups = Groups
  BY DEF Init, IsText
<1>4. BindingsExist
  BY <1>2, <1>3 DEF BindingsExist, BindingsOf, IsDoc, Bindings
<1>5. op = [o \in Actors |-> op[o]] /\ \A o \in Actors : OpInv(o)
  BY DEF Init, Idle, OpInv
<1> QED BY <1>2, <1>3, <1>4, <1>5 DEF IInv

\* An actor whose request and locks a step leaves alone keeps its part of the
\* invariant while the file keeps its groups.
LEMMA OthersKept ==
  ASSUME NEW p \in Actors, OpInv(p), op'[p] = op[p], file'.groups = file.groups,
         mu = p => mu' = p, mlock = p => mlock' = p
  PROVE  OpInv(p)'
BY DEF OpInv, Waiting, Fetched, Switching, Mutating, Editing, Reconciling, BindingsOf

\* With the file's lock free nobody is between the steps of a locked request.
LEMMA FileUnlockedKept ==
  ASSUME NEW p \in Actors, OpInv(p), op'[p] = op[p], None \notin Actors,
         mlock = None
  PROVE  OpInv(p)'
BY DEF OpInv, Waiting, Fetched, Switching, Mutating, Editing, Reconciling

\* What a step of one actor has to establish.
LEMMA OneActor ==
  ASSUME IInv, NEW o \in Actors, NEW x, op' = [op EXCEPT ![o] = x],
         IsDoc(doc)', IsText(file)', BindingsExist',
         OpInv(o)',
         \A p \in Actors : p # o => OpInv(p)'
  PROVE  IInv'
BY DEF IInv

\* Steps that only move a request on, or end it, and keep the locks they find
\* in the hands of others.
LEMMA QuietStep ==
  ASSUME IInv, NEW o \in Actors, NEW x, op' = [op EXCEPT ![o] = x],
         UNCHANGED <<doc, file>>,
         \A p \in Actors : p # o => (mu = p => mu' = p) /\ (mlock = p => mlock' = p),
         OpInv(o)'
  PROVE  IInv'
<1>1. \A p \in Actors : p # o => op'[p] = op[p]
  BY DEF IInv
<1>2. \A p \in Actors : p # o => OpInv(p)'
  BY <1>1, OthersKept DEF IInv
<1>3. IsDoc(doc)' /\ IsText(file)' /\ BindingsExist'
  BY DEF IInv, IsDoc, IsText, BindingsExist, BindingsOf
<1> QED BY <1>2, <1>3, OneActor

\* The steps that change neither the document nor mihomo's file.
LEMMA QuietSteps ==
  ASSUME IInv, NEW o \in Actors,
         \/ Reject(o)
         \/ FetchUpdate(o)
         \/ CertReady(o)
         \/ CertTimeout(o)
         \/ WriteMihomoFails(o)
         \/ UndoDocFails(o)
         \/ PublishHosts(o)
         \/ PutRaw(o)
         \/ Reconcile(o)
         \/ PutConfigsFails(o)
  PROVE  IInv'
<1> USE InterceptAssumption
<1>1. CASE Reject(o)
  <2> DEFINE x == Idle
  <2>1. op' = [op EXCEPT ![o] = x] /\ UNCHANGED <<doc, file>>
    BY <1>1 DEF Reject, Finish, Goto, Send, UndoneTo, stores, IInv
  <2>2. op'[o] = x
    BY <2>1 DEF IInv
  <2>3. OpInv(o)
    BY DEF IInv
  <2>4. OpInv(o)'
    BY <1>1, <2>1, <2>2, <2>3, ModuleKinds DEF Reject, OpInv, Waiting, Fetched, Switching, Mutating, Editing, Reconciling, MutatePhases, BindingsOf, Idle
  <2>5. \A p \in Actors : p # o => (mu = p => mu' = p) /\ (mlock = p => mlock' = p)
    BY <1>1, <2>3, ModuleKinds DEF Reject, Unlock, UndoneTo, OpInv, Waiting, Fetched, Switching, Mutating, Editing, Reconciling, MutatePhases
  <2> QED BY <2>1, <2>4, <2>5, QuietStep
<1>2. CASE FetchUpdate(o)
  <2> DEFINE x == [op[o] EXCEPT !.phase = "fetched"]
  <2>1. op' = [op EXCEPT ![o] = x] /\ UNCHANGED <<doc, file>>
    BY <1>2 DEF FetchUpdate, Finish, Goto, Send, UndoneTo, stores, IInv
  <2>2. op'[o] = x
    BY <2>1 DEF IInv
  <2>3. OpInv(o)
    BY DEF IInv
  <2>4. OpInv(o)'
    BY <1>2, <2>1, <2>2, <2>3, ModuleKinds DEF FetchUpdate, OpInv, Waiting, Fetched, Switching, Mutating, Editing, Reconciling, MutatePhases, BindingsOf
  <2>5. \A p \in Actors : p # o => (mu = p => mu' = p) /\ (mlock = p => mlock' = p)
    BY <1>2, <2>3, ModuleKinds DEF FetchUpdate, Unlock, UndoneTo, OpInv, Waiting, Fetched, Switching, Mutating, Editing, Reconciling, MutatePhases
  <2> QED BY <2>1, <2>4, <2>5, QuietStep
<1>3. CASE CertReady(o)
  <2> DEFINE x == [op[o] EXCEPT !.phase = "mihomo"]
  <2>1. op' = [op EXCEPT ![o] = x] /\ UNCHANGED <<doc, file>>
    BY <1>3 DEF CertReady, Finish, Goto, Send, UndoneTo, stores, IInv
  <2>2. op'[o] = x
    BY <2>1 DEF IInv
  <2>3. OpInv(o)
    BY DEF IInv
  <2>4. OpInv(o)'
    BY <1>3, <2>1, <2>2, <2>3, ModuleKinds DEF CertReady, OpInv, Waiting, Fetched, Switching, Mutating, Editing, Reconciling, MutatePhases, BindingsOf
  <2>5. \A p \in Actors : p # o => (mu = p => mu' = p) /\ (mlock = p => mlock' = p)
    BY <1>3, <2>3, ModuleKinds DEF CertReady, Unlock, UndoneTo, OpInv, Waiting, Fetched, Switching, Mutating, Editing, Reconciling, MutatePhases
  <2> QED BY <2>1, <2>4, <2>5, QuietStep
<1>4. CASE CertTimeout(o)
  <2> DEFINE x == [op[o] EXCEPT !.phase = "undoDoc"]
  <2>1. op' = [op EXCEPT ![o] = x] /\ UNCHANGED <<doc, file>>
    BY <1>4 DEF CertTimeout, Finish, Goto, Send, UndoneTo, stores, IInv
  <2>2. op'[o] = x
    BY <2>1 DEF IInv
  <2>3. OpInv(o)
    BY DEF IInv
  <2>4. OpInv(o)'
    BY <1>4, <2>1, <2>2, <2>3, ModuleKinds DEF CertTimeout, OpInv, Waiting, Fetched, Switching, Mutating, Editing, Reconciling, MutatePhases, BindingsOf
  <2>5. \A p \in Actors : p # o => (mu = p => mu' = p) /\ (mlock = p => mlock' = p)
    BY <1>4, <2>3, ModuleKinds DEF CertTimeout, Unlock, UndoneTo, OpInv, Waiting, Fetched, Switching, Mutating, Editing, Reconciling, MutatePhases
  <2> QED BY <2>1, <2>4, <2>5, QuietStep
<1>5. CASE WriteMihomoFails(o)
  <2> DEFINE x == [op[o] EXCEPT !.phase = "undoDoc"]
  <2>1. op' = [op EXCEPT ![o] = x] /\ UNCHANGED <<doc, file>>
    BY <1>5 DEF WriteMihomoFails, Finish, Goto, Send, UndoneTo, stores, IInv
  <2>2. op'[o] = x
    BY <2>1 DEF IInv
  <2>3. OpInv(o)
    BY DEF IInv
  <2>4. OpInv(o)'
    BY <1>5, <2>1, <2>2, <2>3, ModuleKinds DEF WriteMihomoFails, OpInv, Waiting, Fetched, Switching, Mutating, Editing, Reconciling, MutatePhases, BindingsOf
  <2>5. \A p \in Actors : p # o => (mu = p => mu' = p) /\ (mlock = p => mlock' = p)
    BY <1>5, <2>3, ModuleKinds DEF WriteMihomoFails, Unlock, UndoneTo, OpInv, Waiting, Fetched, Switching, Mutating, Editing, Reconciling, MutatePhases
  <2> QED BY <2>1, <2>4, <2>5, QuietStep
<1>6. CASE UndoDocFails(o)
  <2> DEFINE x == Idle
  <2>1. op' = [op EXCEPT ![o] = x] /\ UNCHANGED <<doc, file>>
    BY <1>6 DEF UndoDocFails, Finish, Goto, Send, UndoneTo, stores, IInv
  <2>2. op'[o] = x
    BY <2>1 DEF IInv
  <2>3. OpInv(o)
    BY DEF IInv
  <2>4. OpInv(o)'
    BY <1>6, <2>1, <2>2, <2>3, ModuleKinds DEF UndoDocFails, OpInv, Waiting, Fetched, Switching, Mutating, Editing, Reconciling, MutatePhases, BindingsOf, Idle
  <2>5. \A p \in Actors : p # o => (mu = p => mu' = p) /\ (mlock = p => mlock' = p)
    BY <1>6, <2>3, ModuleKinds DEF UndoDocFails, Unlock, UndoneTo, OpInv, Waiting, Fetched, Switching, Mutating, Editing, Reconciling, MutatePhases
  <2> QED BY <2>1, <2>4, <2>5, QuietStep
<1>7. CASE PublishHosts(o)
  <2> DEFINE x == Idle
  <2>1. op' = [op EXCEPT ![o] = x] /\ UNCHANGED <<doc, file>>
    BY <1>7 DEF PublishHosts, Finish, Goto, Send, UndoneTo, stores, IInv
  <2>2. op'[o] = x
    BY <2>1 DEF IInv
  <2>3. OpInv(o)
    BY DEF IInv
  <2>4. OpInv(o)'
    BY <1>7, <2>1, <2>2, <2>3, ModuleKinds DEF PublishHosts, OpInv, Waiting, Fetched, Switching, Mutating, Editing, Reconciling, MutatePhases, BindingsOf, Idle
  <2>5. \A p \in Actors : p # o => (mu = p => mu' = p) /\ (mlock = p => mlock' = p)
    BY <1>7, <2>3, ModuleKinds DEF PublishHosts, Unlock, UndoneTo, OpInv, Waiting, Fetched, Switching, Mutating, Editing, Reconciling, MutatePhases
  <2> QED BY <2>1, <2>4, <2>5, QuietStep
<1>8. CASE PutRaw(o)
  <2> DEFINE x == [op[o] EXCEPT !.phase = "reconcile"]
  <2>1. op' = [op EXCEPT ![o] = x] /\ UNCHANGED <<doc, file>>
    BY <1>8 DEF PutRaw, Finish, Goto, Send, UndoneTo, stores, IInv
  <2>2. op'[o] = x
    BY <2>1 DEF IInv
  <2>3. OpInv(o)
    BY DEF IInv
  <2>4. OpInv(o)'
    <3>1. op[o].req = [kind |-> "raw"]
      BY <1>8, <2>3 DEF PutRaw, OpInv, Waiting, Fetched, Switching, Mutating, Editing, Reconciling, MutatePhases
    <3>2. x.phase = "reconcile" /\ x.req = op[o].req
      OBVIOUS
    <3> QED BY <2>2, <3>1, <3>2 DEF OpInv, Reconciling
  <2>5. \A p \in Actors : p # o => (mu = p => mu' = p) /\ (mlock = p => mlock' = p)
    BY <1>8, <2>3, ModuleKinds DEF PutRaw, Unlock, UndoneTo, OpInv, Waiting, Fetched, Switching, Mutating, Editing, Reconciling, MutatePhases
  <2> QED BY <2>1, <2>4, <2>5, QuietStep
<1>9. CASE Reconcile(o)
  <2> DEFINE x == Idle
  <2>1. op' = [op EXCEPT ![o] = x] /\ UNCHANGED <<doc, file>>
    BY <1>9 DEF Reconcile, Finish, Goto, Send, UndoneTo, stores, IInv
  <2>2. op'[o] = x
    BY <2>1 DEF IInv
  <2>3. OpInv(o)
    BY DEF IInv
  <2>4. OpInv(o)'
    BY <1>9, <2>1, <2>2, <2>3, ModuleKinds DEF Reconcile, OpInv, Waiting, Fetched, Switching, Mutating, Editing, Reconciling, MutatePhases, BindingsOf, Idle
  <2>5. \A p \in Actors : p # o => (mu = p => mu' = p) /\ (mlock = p => mlock' = p)
    BY <1>9, <2>3, ModuleKinds DEF Reconcile, Unlock, UndoneTo, OpInv, Waiting, Fetched, Switching, Mutating, Editing, Reconciling, MutatePhases
  <2> QED BY <2>1, <2>4, <2>5, QuietStep
<1>10. CASE PutConfigsFails(o)
  <2> DEFINE x == [op[o] EXCEPT !.phase = "undoFile"]
  <2>1. op' = [op EXCEPT ![o] = x] /\ UNCHANGED <<doc, file>>
    BY <1>10 DEF PutConfigsFails, Finish, Goto, Send, UndoneTo, stores, IInv
  <2>2. op'[o] = x
    BY <2>1 DEF IInv
  <2>3. OpInv(o)
    BY DEF IInv
  <2>4. OpInv(o)'
    BY <1>10, <2>1, <2>2, <2>3, ModuleKinds DEF PutConfigsFails, OpInv, Waiting, Fetched, Switching, Mutating, Editing, Reconciling, MutatePhases, BindingsOf
  <2>5. \A p \in Actors : p # o => (mu = p => mu' = p) /\ (mlock = p => mlock' = p)
    BY <1>10, <2>3, ModuleKinds DEF PutConfigsFails, Unlock, UndoneTo, OpInv, Waiting, Fetched, Switching, Mutating, Editing, Reconciling, MutatePhases
  <2> QED BY <2>1, <2>4, <2>5, QuietStep
<1> QED BY <1>1, <1>2, <1>3, <1>4, <1>5, <1>6, <1>7, <1>8, <1>9, <1>10

\* The steps that may end an ingress switch or go on with a mutation.
LEMMA BranchSteps ==
  ASSUME IInv, NEW o \in Actors,
         \/ PutConfigs(o)
         \/ UndoFileFails(o)
         \/ UndoPut(o)
  PROVE  IInv'
<1> USE InterceptAssumption
<1> DEFINE next == IF op[o].phase = "put" THEN "publish" ELSE "undoDoc"
           moved == [op[o] EXCEPT !.phase = next]
<1>0. OpInv(o) /\ UNCHANGED <<doc, file>> /\ op[o].phase \in {"put", "undoFile", "undoPut"}
  BY DEF PutConfigs, UndoFileFails, UndoPut, stores, IInv
<1>1. CASE op[o].req.kind = "quic"
  <2>1. Switching(o, op[o])
    BY <1>0, <1>1, ModuleKinds DEF OpInv, Waiting, Fetched, Switching, Mutating, Editing, Reconciling, MutatePhases
  <2>2. op' = [op EXCEPT ![o] = Idle] /\ UNCHANGED mu
    BY <1>1 DEF PutConfigs, UndoFileFails, UndoPut, UndoneTo, Finish
  <2>3. OpInv(o)'
    BY <2>2 DEF IInv, OpInv, Idle
  <2>4. \A p \in Actors : p # o => (mu = p => mu' = p) /\ (mlock = p => mlock' = p)
    BY <2>1, <2>2 DEF Switching
  <2> QED BY <1>0, <2>2, <2>3, <2>4, QuietStep
<1>2. CASE op[o].req.kind # "quic"
  <2>1. Mutating(o, op[o])
    BY <1>0, <1>2 DEF OpInv, Waiting, Fetched, Switching, Mutating, Editing, Reconciling, MutatePhases
  <2>2. op' = [op EXCEPT ![o] = moved] /\ UNCHANGED <<mu, mlock>>
    BY <1>2, <1>0 DEF PutConfigs, UndoFileFails, UndoPut, UndoneTo, Goto, IInv
  <2>3. op'[o] = moved
    BY <2>2 DEF IInv
  <2>4. OpInv(o)'
    BY <1>0, <2>1, <2>2, <2>3 DEF OpInv, Mutating, MutatePhases, BindingsOf
  <2> QED BY <1>0, <2>2, <2>4, QuietStep
<1> QED BY <1>1, <1>2

\* The steps that write the document.
LEMMA DocumentSteps ==
  ASSUME IInv, NEW o \in Actors,
         \/ WriteSnapshot(o)
         \/ WriteDocument(o)
         \/ UndoDoc(o)
  PROVE  IInv'
<1> USE InterceptAssumption
<1>0. /\ OpInv(o) /\ IsDoc(doc) /\ IsText(file) /\ BindingsOf(doc, Modules, file)
      /\ op' = [op EXCEPT ![o] = Idle] /\ UNCHANGED file
  BY DEF WriteSnapshot, WriteDocument, UndoDoc, Finish, IInv, BindingsExist
<1>1. OpInv(o)' /\ \A p \in Actors : p # o => op'[p] = op[p]
  BY <1>0 DEF IInv, OpInv, Idle
<1>2. CASE UndoDoc(o)
  <2>1. Mutating(o, op[o])
    BY <1>0, <1>2 DEF UndoDoc, OpInv, Waiting, Fetched, Switching, Mutating, Editing, Reconciling, MutatePhases
  <2>2. \A p \in Actors : p # o => OpInv(p)'
    BY <1>0, <1>1, <1>2, <2>1, OthersKept DEF UndoDoc, Unlock, Mutating, IInv
  <2>3. IsDoc(doc)' /\ BindingsExist'
    BY <1>0, <1>2, <2>1 DEF UndoDoc, Mutating, BindingsExist, BindingsOf, IsDoc
  <2> QED BY <1>0, <1>1, <2>2, <2>3, OneActor DEF IsText
<1>3. CASE WriteSnapshot(o) \/ WriteDocument(o)
  <2>1. /\ op[o].req \in ModuleRequests
        /\ op[o].req.kind # "group"
        /\ doc' = Edited(doc, op[o].req)
        /\ UNCHANGED <<mu, mlock>>
    <3>1. CASE WriteSnapshot(o)
      BY <1>0, <3>1 DEF WriteSnapshot, OpInv, Waiting, Fetched, Switching, Mutating, Editing, Reconciling, MutatePhases
    <3>2. CASE WriteDocument(o)
      <4>1. op[o].req \in ModuleRequests
        BY <1>0, <3>2 DEF WriteDocument, OnFile, OpInv, Waiting, Fetched, Switching, Mutating, Editing, Reconciling, MutatePhases
      <4>2. ~RoutingChanged(doc, op[o].req) => op[o].req.kind # "group"
        BY DEF RoutingChanged
      <4> QED BY <3>2, <4>1, <4>2 DEF WriteDocument
    <3> QED BY <1>3, <3>1, <3>2
  <2>2. IsDoc(doc)' /\ BindingsExist'
    BY <1>0, <2>1, EditedShape DEF BindingsExist, BindingsOf, IsDoc
  <2>3. \A p \in Actors : p # o => OpInv(p)'
    BY <1>0, <1>1, <2>1, OthersKept DEF IInv
  <2> QED BY <1>0, <1>1, <2>2, <2>3, OneActor DEF IsText
<1> QED BY <1>2, <1>3

\* Stage writes a document whose groups it has just compared with the file.
LEMMA StageStep ==
  ASSUME IInv, NEW o \in Actors, Stage(o)
  PROVE  IInv'
<1> USE InterceptAssumption
<1> DEFINE d == Edited(doc, op[o].req)
           x == [phase |-> IF NeedsCert(doc, d) THEN "cert" ELSE "mihomo",
                 req |-> op[o].req, old |-> doc, next |-> d,
                 oldText |-> file, text |-> Rendered(file, d), late |-> pub # None]
<1>1. /\ OpInv(o) /\ IsDoc(doc) /\ IsText(file) /\ BindingsOf(doc, Modules, file)
      /\ op' = [op EXCEPT ![o] = x] /\ op'[o] = x /\ UNCHANGED file
      /\ mu = None /\ mlock = None /\ mu' = o /\ mlock' = o
      /\ doc' = d /\ BindingsOf(d, Modules, file)
  BY DEF Stage, IInv, BindingsExist
<1>2. op[o].req \in ModuleRequests
  BY <1>1 DEF Stage, OnFile, OpInv, Waiting, Fetched, Switching, Mutating, Editing, Reconciling, MutatePhases
<1>3. IsDoc(doc)' /\ BindingsExist'
  BY <1>1, <1>2, EditedShape DEF BindingsExist, BindingsOf, IsDoc
<1>4. IsText(Rendered(file, d)) /\ Rendered(file, d).groups = file.groups
  BY <1>1 DEF Rendered, IsText
<1>5. Mutating(o, op[o])'
  <2>1. x.phase \in MutatePhases
    BY DEF MutatePhases
  <2>2. /\ op'[o] = x /\ x.req = op[o].req /\ x.old = doc
        /\ x.text = Rendered(file, d) /\ x.oldText = file
    BY <1>1
  <2> HIDE DEF x
  <2> QED BY <1>1, <1>2, <1>4, <2>1, <2>2 DEF Mutating, BindingsOf, IsText, IsDoc
<1>6. OpInv(o)'
  BY <1>1, <1>5 DEF OpInv
<1>7. \A p \in Actors : p # o => op'[p] = op[p]
  BY <1>1 DEF IInv
<1>8. \A p \in Actors : p # o => OpInv(p)'
  BY <1>1, <1>7, FileUnlockedKept DEF IInv
<1> QED BY <1>1, <1>3, <1>6, <1>8, OneActor DEF IsText

\* The steps that write mihomo's file: only a raw edit changes its groups, and
\* it has compared them with the document.
LEMMA FileSteps ==
  ASSUME IInv, NEW o \in Actors,
         \/ WriteMihomo(o)
         \/ UndoFile(o)
         \/ WriteRaw(o)
         \/ WriteIngress(o)
  PROVE  IInv'
<1> USE InterceptAssumption
<1>0. /\ OpInv(o) /\ IsDoc(doc) /\ IsText(file) /\ BindingsOf(doc, Modules, file)
      /\ UNCHANGED doc
  BY DEF WriteMihomo, UndoFile, WriteRaw, WriteIngress, IInv, BindingsExist
<1>1. CASE WriteMihomo(o)
  <2> DEFINE x == [op[o] EXCEPT !.phase = "put"]
  <2>1. Mutating(o, op[o])
    BY <1>0, <1>1, ModuleKinds DEF WriteMihomo, OpInv, Waiting, Fetched, Switching, Mutating, Editing, Reconciling, MutatePhases
  <2>2. /\ op' = [op EXCEPT ![o] = x] /\ op'[o] = x /\ UNCHANGED <<mu, mlock>>
        /\ file' = op[o].text
        /\ \A p \in Actors : p # o => op'[p] = op[p]
    BY <1>1 DEF WriteMihomo, Goto, IInv
  <2>3. IsText(file)' /\ file'.groups = file.groups
    BY <2>1, <2>2 DEF Mutating, IsText
  <2>4. OpInv(o)'
    BY <2>1, <2>2, <2>3 DEF OpInv, Mutating, MutatePhases, BindingsOf
  <2>5. \A p \in Actors : p # o => OpInv(p)'
    BY <2>2, <2>3, OthersKept DEF IInv
  <2>6. IsDoc(doc)' /\ BindingsExist'
    BY <1>0, <2>3 DEF BindingsExist, BindingsOf, IsDoc
  <2> QED BY <2>2, <2>3, <2>4, <2>5, <2>6, OneActor
<1>2. CASE UndoFile(o)
  <2> DEFINE x == [op[o] EXCEPT !.phase = "undoPut"]
  <2>1. Mutating(o, op[o]) \/ Switching(o, op[o])
    BY <1>0, <1>2 DEF UndoFile, OpInv, Waiting, Fetched, Switching, Mutating, Editing, Reconciling, MutatePhases
  <2>2. /\ op' = [op EXCEPT ![o] = x] /\ op'[o] = x /\ UNCHANGED <<mu, mlock>>
        /\ file' = op[o].oldText
        /\ \A p \in Actors : p # o => op'[p] = op[p]
    BY <1>2 DEF UndoFile, Goto, IInv
  <2>3. IsText(file)' /\ file'.groups = file.groups
    BY <2>1, <2>2 DEF Mutating, Switching, IsText
  <2>4. OpInv(o)'
    <3>1. CASE Mutating(o, op[o])
      BY <3>1, <2>2, <2>3 DEF OpInv, Mutating, MutatePhases, BindingsOf
    <3>2. CASE Switching(o, op[o])
      BY <3>2, <2>2, <2>3 DEF OpInv, Switching
    <3> QED BY <2>1, <3>1, <3>2
  <2>5. \A p \in Actors : p # o => OpInv(p)'
    BY <2>2, <2>3, OthersKept DEF IInv
  <2>6. IsDoc(doc)' /\ BindingsExist'
    BY <1>0, <2>3 DEF BindingsExist, BindingsOf, IsDoc
  <2> QED BY <2>2, <2>3, <2>4, <2>5, <2>6, OneActor
<1>3. CASE WriteRaw(o)
  <2> DEFINE x == [op[o] EXCEPT !.phase = "rawPut"]
  <2>1. /\ op' = [op EXCEPT ![o] = x] /\ op'[o] = x /\ mu' = o /\ mlock' = o
        /\ mlock = None /\ file' = op[o].text
        /\ BindingsOf(doc, Modules, op[o].text)
        /\ op[o].phase = "sent" /\ op[o].req.kind = "raw"
        /\ \A p \in Actors : p # o => op'[p] = op[p]
    BY <1>3 DEF WriteRaw, Goto, IInv
  <2>2. op[o].req = [kind |-> "raw"] /\ IsText(op[o].text)
    BY <1>0, <2>1, ModuleKinds DEF OpInv, Waiting, Fetched, Switching, Mutating, Editing, Reconciling, MutatePhases
  <2>3. OpInv(o)'
    <3>1. x.phase = "rawPut" /\ x.req = op[o].req
      OBVIOUS
    <3> QED BY <2>1, <2>2, <3>1 DEF OpInv, Editing
  <2>4. \A p \in Actors : p # o => OpInv(p)'
    BY <2>1, FileUnlockedKept DEF IInv
  <2>5. IsDoc(doc)' /\ IsText(file)' /\ BindingsExist'
    BY <1>0, <2>1, <2>2 DEF BindingsExist, BindingsOf, IsDoc, IsText
  <2> QED BY <2>1, <2>3, <2>4, <2>5, OneActor
<1>4. CASE WriteIngress(o)
  <2> DEFINE x == [phase |-> "put", req |-> op[o].req, oldText |-> file]
  <2>1. /\ op' = [op EXCEPT ![o] = x] /\ op'[o] = x /\ mlock' = o
        /\ mlock = None /\ file' = op[o].text /\ file = op[o].rev
        /\ op[o].phase = "sent" /\ op[o].req.kind = "quic"
        /\ \A p \in Actors : p # o => op'[p] = op[p]
    BY <1>4 DEF WriteIngress, IInv
  <2>2. op[o].req = [kind |-> "quic"] /\ IsText(op[o].text) /\ op[o].text.groups = file.groups
    BY <1>0, <2>1, ModuleKinds DEF OpInv, Waiting, Fetched, Switching, Mutating, Editing, Reconciling, MutatePhases
  <2>3. OpInv(o)'
    BY <1>0, <2>1, <2>2 DEF OpInv, Switching, IsText
  <2>4. \A p \in Actors : p # o => OpInv(p)'
    BY <2>1, FileUnlockedKept DEF IInv
  <2>5. IsDoc(doc)' /\ IsText(file)' /\ BindingsExist'
    BY <1>0, <2>1, <2>2 DEF BindingsExist, BindingsOf, IsDoc, IsText
  <2> QED BY <2>1, <2>3, <2>4, <2>5, OneActor
<1> QED BY <1>1, <1>2, <1>3, <1>4

\* The requests as they are sent.
LEMMA RequestSteps ==
  ASSUME IInv, NEW o \in Actors,
         RequestChange(o) \/ RequestRaw(o) \/ RequestIngress(o)
  PROVE  IInv'
<1> USE InterceptAssumption
<1>1. CASE RequestChange(o)
  <2>1. PICK r \in ModuleRequests : Send(o, [phase |-> "sent", req |-> r, rev |-> doc])
    BY <1>1 DEF RequestChange
  <2>2. OpInv(o)'
    BY <2>1 DEF Send, IInv, OpInv, Waiting
  <2> QED BY <2>1, <2>2, QuietStep DEF Send, stores
<1>2. CASE RequestRaw(o)
  <2>1. PICK t \in RawTexts :
          Send(o, [phase |-> "sent", req |-> [kind |-> "raw"], rev |-> file, text |-> t])
    BY <1>2 DEF RequestRaw
  <2>2. IsText(t)
    BY <2>1 DEF RawTexts, IsText, IInv
  <2>3. OpInv(o)'
    BY <2>1, <2>2 DEF Send, IInv, OpInv, Waiting
  <2> QED BY <2>1, <2>3, QuietStep DEF Send, stores
<1>3. CASE RequestIngress(o)
  <2> DEFINE t == [file EXCEPT !.quic = ~@]
  <2>1. Send(o, [phase |-> "sent", req |-> [kind |-> "quic"], rev |-> file, text |-> t])
    BY <1>3 DEF RequestIngress
  <2>2. IsText(t) /\ t.groups = file.groups
    BY DEF IsText, IInv
  <2>3. OpInv(o)'
    BY <2>1, <2>2 DEF Send, IInv, OpInv, Waiting
  <2> QED BY <2>1, <2>3, QuietStep DEF Send, stores
<1> QED BY <1>1, <1>2, <1>3

\* Steps of nobody's request.
LEMMA OtherSteps ==
  ASSUME IInv, ReadRequest \/ PublishLeaf \/ Restart \/ UNCHANGED vars
  PROVE  IInv'
<1>1. CASE Restart
  BY <1>1 DEF Restart, IInv, IsDoc, IsText, BindingsExist, BindingsOf, OpInv, Idle
<1>2. CASE ReadRequest \/ PublishLeaf \/ UNCHANGED vars
  <2>1. UNCHANGED <<doc, file, op, mu, mlock>>
    BY <1>2 DEF ReadRequest, PublishLeaf, vars, stores
  <2>2. \A o \in Actors : OpInv(o)'
    BY <2>1, OthersKept DEF IInv
  <2> QED BY <2>1, <2>2 DEF IInv, IsDoc, IsText, BindingsExist, BindingsOf
<1> QED BY <1>1, <1>2

LEMMA StepInv == IInv /\ [Next]_vars => IInv'
<1> SUFFICES ASSUME IInv, [Next]_vars PROVE IInv'
  OBVIOUS
<1>1. ASSUME NEW o \in Actors, Step(o) PROVE IInv'
  BY <1>1, QuietSteps, BranchSteps, DocumentSteps, StageStep, FileSteps DEF Step
<1> QED BY <1>1, RequestSteps, OtherSteps DEF Next

\* For any modules, groups and number of concurrent requests, raw editors
\* included, no module is ever bound to an egress group mihomo's file lacks.
THEOREM BindingsAlwaysExist == Spec => []BindingsExist
<1>1. IInv => BindingsExist
  BY DEF IInv
<1> QED BY InitInv, StepInv, <1>1, PTL DEF Spec
-----------------------------------------------------------------------------
(* What an edit does to a document.                                          *)

\* A document with its enabled modules in its list.
Whole(d) ==
  /\ d \in [mitm : BOOLEAN, order : Seq(Modules), on : SUBSET Modules,
            group : Bindings, dns : [Modules -> Resolvers], ver : [Modules -> Versions]]
  /\ d.on \subseteq Installed(d)

LEMMA OrdersAreSeqs == Orders \subseteq Seq(Modules)
<1> SUFFICES ASSUME NEW s \in Orders PROVE s \in Seq(Modules)
  OBVIOUS
<1>1. IsFiniteSet(Modules)
  BY InterceptAssumption
<1>2. Cardinality(Modules) \in Nat
  BY <1>1, FS_CardinalityType
<1>3. PICK n \in 0..Cardinality(Modules) : s \in [1..n -> Modules]
  BY DEF Orders
<1> QED BY <1>2, <1>3, SeqDef

\* An edit that the mutators allow keeps a document whole.
LEMMA EditedWhole ==
  ASSUME NEW d, Whole(d), NEW r \in ModuleRequests, Allowed(d, r) \/ r.kind = "update"
  PROVE  Whole(Edited(d, r))
<1> USE DEF Whole, Installed, Edited, Allowed, Bindings
<1>1. CASE r \in [kind : {"enable", "disable"}, m : Modules]
  BY <1>1
<1>2. CASE r \in [kind : {"delete"}, m : Modules]
  <2> DEFINE s == Only(d.order, Range(d.order) \ {r.m})
  <2>1. s \in Seq(Modules) /\ Range(s) = Range(d.order) \ {r.m}
    BY OnlyRange
  <2> HIDE DEF s
  <2>2. r.kind = "delete" /\ r.m \in Modules /\ r.m \notin d.on
    BY <1>2
  <2>3. Edited(d, r) = [d EXCEPT !.order = s, !.group[r.m] = Terminal]
    BY <2>2 DEF s
  <2> DEFINE g == [d.group EXCEPT ![r.m] = Terminal]
  <2>4. Edited(d, r) = [d EXCEPT !.order = s, !.group = g] /\ g \in Bindings
    BY <2>2, <2>3
  <2> HIDE DEF Edited, Allowed, g, Bindings
  <2> QED BY <2>1, <2>2, <2>4
<1>3. CASE r \in [kind : {"import"}, m : Modules, ver : Versions]
  <2> DEFINE s == Append(d.order, r.m)
  <2>1. s \in Seq(Modules) /\ Range(s) = Range(d.order) \cup {r.m}
    BY <1>3, AppendRange, AppendProperties
  <2> HIDE DEF s
  <2>2. r.kind = "import" /\ r.m \in Modules /\ r.ver \in Versions
    BY <1>3
  <2>3. Edited(d, r) = [d EXCEPT !.order = s, !.ver[r.m] = r.ver,
                                 !.group[r.m] = Terminal, !.dns[r.m] = "trust"]
    BY <2>2 DEF s
  <2> DEFINE v == [d.ver EXCEPT ![r.m] = r.ver]
             g == [d.group EXCEPT ![r.m] = Terminal]
             n == [d.dns EXCEPT ![r.m] = "trust"]
  <2>4. /\ Edited(d, r) = [d EXCEPT !.order = s, !.ver = v, !.group = g, !.dns = n]
        /\ v \in [Modules -> Versions] /\ g \in Bindings /\ n \in [Modules -> Resolvers]
    BY <2>2, <2>3 DEF Resolvers
  <2> HIDE DEF Edited, Allowed, v, g, n, Bindings
  <2> QED BY <2>1, <2>2, <2>4
<1>4. CASE r \in [kind : {"update"}, m : Modules, ver : Versions]
  BY <1>4
<1>5. CASE r \in [kind : {"group"}, m : Modules, group : Groups \cup {Terminal}]
  BY <1>5
<1>6. CASE r \in [kind : {"dns"}, m : Modules, dns : Resolvers]
  BY <1>6
<1>7. CASE r \in [kind : {"order"}, order : Orders]
  BY <1>7, OrdersAreSeqs
<1>8. CASE r \in [kind : {"mitm"}, mitm : BOOLEAN]
  BY <1>8
<1> QED BY <1>1, <1>2, <1>3, <1>4, <1>5, <1>6, <1>7, <1>8 DEF ModuleRequests

\* Of the edits only an update or an import changes a snapshot.
LEMMA RoutedKeepsSnapshots ==
  ASSUME NEW d, Whole(d), NEW r \in ModuleRequests, RoutingChanged(d, r)
  PROVE  Edited(d, r).ver = d.ver
BY DEF RoutingChanged, Edited, Whole, ModuleRequests

\* An edit whose mutator reports no change of the routing.
Unrouted(d, r) ==
  \/ Allowed(d, r) /\ ~RoutingChanged(d, r)
  \/ r.kind = "update" /\ r.m \notin d.on

\* Two documents ask the same of mihomo and of the DNS engine.
SameActive(d, e) ==
  /\ Active(e) = Active(d)
  /\ \A m \in Active(d) : e.ver[m] = d.ver[m] /\ e.dns[m] = d.dns[m] /\ e.group[m] = d.group[m]
  /\ \A S \in SUBSET Active(d) : InOrder(e, S) = InOrder(d, S)

LEMMA UnroutedSameActive ==
  ASSUME NEW d, Whole(d), NEW r \in ModuleRequests, Unrouted(d, r)
  PROVE  /\ SameActive(d, Edited(d, r))
         /\ \A m \in d.on : Edited(d, r).ver[m] = d.ver[m]
<1> USE DEF Whole, Installed, Edited, Allowed, Bindings, RoutingChanged, Unrouted, Active,
            SameActive, InOrder
<1>1. CASE r \in [kind : {"enable", "disable"}, m : Modules]
  BY <1>1
<1>2. CASE r \in [kind : {"delete"}, m : Modules]
  <2> DEFINE s == Only(d.order, Range(d.order) \ {r.m})
  <2>1. r.kind = "delete" /\ r.m \in Modules /\ r.m \notin d.on
    BY <1>2
  <2>2. \A S \in SUBSET d.on : Only(s, S) = Only(d.order, S)
    <3> SUFFICES ASSUME NEW S \in SUBSET d.on PROVE Only(s, S) = Only(d.order, S)
      OBVIOUS
    <3>1. S \in SUBSET (Range(d.order) \ {r.m})
      BY <2>1
    <3> QED BY <3>1, OnlyOnly
  <2> HIDE DEF s
  <2>3. Edited(d, r) = [d EXCEPT !.order = s, !.group[r.m] = Terminal]
    BY <2>1 DEF s
  <2> HIDE DEF Edited, Allowed, RoutingChanged, Unrouted
  <2> QED BY <2>1, <2>2, <2>3
<1>3. CASE r \in [kind : {"import"}, m : Modules, ver : Versions]
  <2> DEFINE s == Append(d.order, r.m)
  <2>1. r.kind = "import" /\ r.m \in Modules /\ r.ver \in Versions /\ r.m \notin d.on
    BY <1>3
  <2>2. \A S \in SUBSET d.on : Only(s, S) = Only(d.order, S)
    <3> SUFFICES ASSUME NEW S \in SUBSET d.on PROVE Only(s, S) = Only(d.order, S)
      OBVIOUS
    <3>1. r.m \notin S
      BY <2>1
    <3> QED BY <2>1, <3>1, OnlyAppend
  <2> HIDE DEF s
  <2>3. Edited(d, r) = [d EXCEPT !.order = s, !.ver[r.m] = r.ver,
                                 !.group[r.m] = Terminal, !.dns[r.m] = "trust"]
    BY <2>1 DEF s
  <2> HIDE DEF Edited, Allowed, RoutingChanged, Unrouted
  <2> QED BY <2>1, <2>2, <2>3
<1>4. CASE r \in [kind : {"update"}, m : Modules, ver : Versions]
  BY <1>4
<1>5. CASE r \in [kind : {"group"}, m : Modules, group : Groups \cup {Terminal}]
  BY <1>5
<1>6. CASE r \in [kind : {"dns"}, m : Modules, dns : Resolvers]
  BY <1>6
<1>7. CASE r \in [kind : {"order"}, order : Orders]
  BY <1>7
<1>8. CASE r \in [kind : {"mitm"}, mitm : BOOLEAN]
  BY <1>8
<1> QED BY <1>1, <1>2, <1>3, <1>4, <1>5, <1>6, <1>7, <1>8 DEF ModuleRequests

\* Such documents have one overlay and one set of rules.
LEMMA SameActiveSame ==
  ASSUME NEW d, NEW e, Whole(d), SameActive(d, e)
  PROVE  /\ Overlay(e) = Overlay(d) /\ Route(e) = Route(d)
         /\ \A t : Manageable(t, e) <=> Manageable(t, d)
<1>1. \A S \in SUBSET Active(d) : InOrder(d, S) \in Seq(Modules) /\ Range(InOrder(d, S)) \subseteq S
  BY OnlyRange DEF InOrder, Whole
<1>2. Overlay(e) = Overlay(d)
  <2> DEFINE s == InOrder(d, Active(d))
  <2>1. InOrder(e, Active(e)) = s /\ Range(s) \subseteq Active(d)
    BY <1>1 DEF SameActive
  <2> HIDE DEF s
  <2>2. \A i \in DOMAIN s : s[i] \in Active(d)
    BY <2>1 DEF Range
  <2>3. Overlay(d) = [i \in DOMAIN s |-> <<s[i], d.ver[s[i]], d.dns[s[i]]>>]
    BY DEF s, Overlay
  <2>4. Overlay(e) = [i \in DOMAIN s |-> <<s[i], e.ver[s[i]], e.dns[s[i]]>>]
    BY <2>1 DEF Overlay
  <2> QED BY <2>2, <2>3, <2>4 DEF SameActive
<1>3. Route(e) = Route(d)
  <2> DEFINE bound == {m \in Active(d) : d.group[m] # Terminal}
             s == InOrder(d, bound) \o InOrder(d, Active(d) \ bound)
  <2>1. {m \in Active(e) : e.group[m] # Terminal} = bound
    BY DEF SameActive
  <2>2. InOrder(e, bound) = InOrder(d, bound) /\ InOrder(e, Active(e) \ bound) = InOrder(d, Active(d) \ bound)
    BY DEF SameActive
  <2>3. Range(s) \subseteq Active(d)
    BY <1>1, RangeConcatenation
  <2>4. Route(d) = [i \in DOMAIN s |-> <<s[i], d.ver[s[i]], d.group[s[i]]>>]
    BY DEF Route
  <2>5. Route(e) = [i \in DOMAIN s |-> <<s[i], e.ver[s[i]], e.group[s[i]]>>]
    BY <2>1, <2>2 DEF Route
  <2> HIDE DEF s
  <2>6. \A i \in DOMAIN s : s[i] \in Active(d)
    BY <2>3 DEF Range
  <2> QED BY <2>4, <2>5, <2>6 DEF SameActive
<1> QED BY <1>2, <1>3 DEF Manageable, BindingsOf, SameActive
-----------------------------------------------------------------------------
(* The document, the certificate and the file through a change: who may write *)
(* them follows from the locks, and what they hold at each step from the code *)
(* before it.                                                               *)

SameText(t, u) == t.rules = u.rules /\ t.cred = u.cred /\ t.groups = u.groups

\* A module change under its locks.
Routing(r) == r.phase \in MutatePhases /\ r.req.kind \notin {"raw", "quic"}

\* An update fetched for a module that was disabled at its revision.
FetchInv(r) == r.phase = "fetched" => r.req.m \notin r.rev.on

\* An ingress switch changes nothing else of the file.
SwitchInv(r, f) ==
  /\ r.phase = "sent" /\ r.req.kind = "quic" => SameText(r.text, r.rev)
  /\ r.phase \in {"put", "undoFile", "undoPut"} /\ r.req.kind = "quic" => SameText(r.oldText, f)

\* What a change has on disk at each of its steps.
ChangeInv(r, d, f, failed) ==
  /\ Whole(r.old) /\ d = r.next /\ r.old.ver = r.next.ver
  /\ r.text = Rendered(r.oldText, r.next)
  /\ r.oldText.cred /\ BindingsOf(r.next, Modules, r.oldText)
  /\ r.phase \in {"cert", "mihomo", "undoPut"} => f = r.oldText
  /\ r.phase \in {"put", "publish", "undoFile"} => f = r.text
  /\ r.phase = "undoDoc" /\ ~failed => f = r.oldText

\* The leaf, unless a certificate run that read an older document was under way.
LeafInv(r, p, c) ==
  ~r.late =>
    /\ p \in {None, CertHosts(r.next)}
    /\ r.phase \in {"mihomo", "put", "publish"} => CertHosts(r.next) \subseteq c \cup CertHosts(r.old)

ChangesInv ==
  /\ Whole(doc) /\ stuck \in BOOLEAN
  /\ \A o \in Actors :
       /\ FetchInv(op[o]) /\ SwitchInv(op[o], file)
       /\ Routing(op[o]) => ChangeInv(op[o], doc, file, stuck) /\ LeafInv(op[o], pub, cert)

\* What the locks say of a request's phase.
LEMMA Locked ==
  ASSUME IInv, NEW o \in Actors
  PROVE  /\ Routing(op[o]) => Mutating(o, op[o])
         /\ op[o].phase \in {"put", "undoFile", "undoPut"} /\ op[o].req.kind = "quic" => mlock = o
         /\ op[o].phase \in MutatePhases /\ op[o].req.kind # "quic" => Routing(op[o])
         /\ op[o].phase = "rawPut" => mu = o /\ mlock = o
         /\ op[o].phase \in {"rawPut", "reconcile"} => op[o].req.kind = "raw"
         /\ op[o].phase = "fetched" => op[o].req \in ModuleRequests /\ op[o].req.kind = "update"
         /\ op[o].phase = "sent" /\ ~OnFile(o) => op[o].req \in ModuleRequests
         /\ op[o].phase \in MutatePhases =>
              mlock = o /\ (op[o].req.kind = "quic" => op[o].phase \in {"put", "undoFile", "undoPut"})
<1>1. OpInv(o)
  BY DEF IInv
<1> QED BY <1>1, ModuleKinds
        DEF OpInv, Waiting, Fetched, Switching, Mutating, Editing, Reconciling, Routing,
            MutatePhases, OnFile

\* With a lock free, or in hand, nobody else is in the middle of a change.
LEMMA Alone ==
  ASSUME IInv, NEW o \in Actors, mu \in {None, o} \/ mlock \in {None, o},
         NEW p \in Actors, p # o
  PROVE  /\ ~Routing(op[p]) /\ op[p].phase # "rawPut"
         /\ mlock \in {None, o} =>
              ~(op[p].phase \in {"put", "undoFile", "undoPut"} /\ op[p].req.kind = "quic")
BY Locked, InterceptAssumption DEF Mutating

\* A step of o that is alone keeps the others' part.
LEMMA AloneStep ==
  ASSUME IInv, ChangesInv, NEW o \in Actors,
         mu \in {None, o} \/ mlock \in {None, o},
         file' = file \/ mlock \in {None, o},
         \A p \in Actors : p # o => op'[p] = op[p],
         Whole(doc'), stuck' \in BOOLEAN,
         FetchInv(op'[o]), SwitchInv(op'[o], file'),
         Routing(op'[o]) => ChangeInv(op'[o], doc', file', stuck') /\ LeafInv(op'[o], pub', cert')
  PROVE  ChangesInv'
<1>1. ASSUME NEW p \in Actors, p # o
      PROVE  FetchInv(op'[p]) /\ SwitchInv(op'[p], file') /\ ~Routing(op'[p])
  BY <1>1, Alone DEF ChangesInv, SwitchInv, FetchInv
<1> QED BY <1>1 DEF ChangesInv

\* So does one that only sends, moves on or drops a request without locks.
LEMMA LightStep ==
  ASSUME ChangesInv, NEW o \in Actors,
         UNCHANGED <<doc, file, pub, cert, stuck>>,
         \A p \in Actors : p # o => op'[p] = op[p],
         op'[o].phase \in {"idle", "sent", "fetched"},
         FetchInv(op'[o]), SwitchInv(op'[o], file)
  PROVE  ChangesInv'
<1>1. ~Routing(op'[o])
  BY DEF Routing, MutatePhases
<1> QED BY <1>1 DEF ChangesInv

LEMMA Moves ==
  ASSUME IInv, NEW o \in Actors, NEW ph, Goto(o, ph)
  PROVE  /\ op'[o].phase = ph
         /\ op'[o].req = op[o].req /\ op'[o].rev = op[o].rev /\ op'[o].text = op[o].text
         /\ op'[o].old = op[o].old /\ op'[o].next = op[o].next
         /\ op'[o].oldText = op[o].oldText /\ op'[o].late = op[o].late
         /\ \A p \in Actors : p # o => op'[p] = op[p]
<1> DEFINE x == [op[o] EXCEPT !.phase = ph]
<1>1. op' = [op EXCEPT ![o] = x] /\ op'[o] = x
  BY DEF Goto, IInv
<1>2. /\ x.phase = ph /\ x.req = op[o].req /\ x.rev = op[o].rev /\ x.text = op[o].text
      /\ x.old = op[o].old /\ x.next = op[o].next
      /\ x.oldText = op[o].oldText /\ x.late = op[o].late
  OBVIOUS
<1> HIDE DEF x
<1> QED BY <1>1, <1>2 DEF IInv

LEMMA Ends ==
  ASSUME IInv, NEW o \in Actors, Finish(o)
  PROVE  /\ op'[o].phase = "idle" /\ ~Routing(op'[o])
         /\ FetchInv(op'[o]) /\ \A f : SwitchInv(op'[o], f)
         /\ \A p \in Actors : p # o => op'[p] = op[p]
BY DEF Finish, IInv, Idle, Routing, MutatePhases, FetchInv, SwitchInv

LEMMA Sends ==
  ASSUME IInv, NEW o \in Actors, NEW r, Send(o, r)
  PROVE  /\ op'[o] = r /\ \A p \in Actors : p # o => op'[p] = op[p]
         /\ UNCHANGED <<doc, file, overlay, pub, cert, stuck, mu, mlock>> /\ op[o] = Idle
BY DEF Send, IInv, stores

LEMMA ChangesRequest ==
  ASSUME IInv, ChangesInv, NEW o \in Actors,
         RequestChange(o) \/ RequestRaw(o) \/ RequestIngress(o)
  PROVE  ChangesInv'
<1>1. CASE RequestChange(o)
  <2>1. PICK r \in ModuleRequests : Send(o, [phase |-> "sent", req |-> r, rev |-> doc])
    BY <1>1 DEF RequestChange
  <2> QED BY <2>1, Sends, LightStep, ModuleKinds DEF FetchInv, SwitchInv
<1>2. CASE RequestRaw(o)
  <2>1. PICK t \in RawTexts :
          Send(o, [phase |-> "sent", req |-> [kind |-> "raw"], rev |-> file, text |-> t])
    BY <1>2 DEF RequestRaw
  <2> QED BY <2>1, Sends, LightStep DEF FetchInv, SwitchInv
<1>3. CASE RequestIngress(o)
  <2> DEFINE t == [file EXCEPT !.quic = ~@]
  <2>1. Send(o, [phase |-> "sent", req |-> [kind |-> "quic"], rev |-> file, text |-> t])
    BY <1>3 DEF RequestIngress
  <2>2. SameText(t, file)
    BY DEF SameText, IsText, IInv
  <2> HIDE DEF t
  <2> QED BY <2>1, <2>2, Sends, LightStep DEF FetchInv, SwitchInv
<1> QED BY <1>1, <1>2, <1>3

\* Steps that take no lock, or change the document and nothing of mihomo.
LEMMA ChangesPlain ==
  ASSUME IInv, ChangesInv, NEW o \in Actors,
         \/ Reject(o) \/ FetchUpdate(o) \/ WriteSnapshot(o) \/ WriteDocument(o)
  PROVE  ChangesInv'
<1>1. CASE Reject(o)
  BY <1>1, Ends, LightStep DEF Reject, stores, counts
<1>2. CASE FetchUpdate(o)
  <2>1. op'[o].phase = "fetched" /\ FetchInv(op'[o]) /\ \A f : SwitchInv(op'[o], f)
    BY <1>2, Moves DEF FetchUpdate, FetchInv, SwitchInv
  <2>2. \A p \in Actors : p # o => op'[p] = op[p]
    BY <1>2, Moves DEF FetchUpdate
  <2> QED BY <1>2, <2>1, <2>2, LightStep DEF FetchUpdate, stores, counts
<1>3. CASE WriteSnapshot(o) \/ WriteDocument(o)
  <2>1. op[o].req \in ModuleRequests /\ (Allowed(doc, op[o].req) \/ op[o].req.kind = "update")
    BY <1>3, Locked DEF WriteSnapshot, WriteDocument
  <2>2. Whole(doc')
    BY <1>3, <2>1, EditedWhole DEF WriteSnapshot, WriteDocument, ChangesInv
  <2>3. mu = None /\ Finish(o) /\ UNCHANGED <<file, stuck>>
    BY <1>3 DEF WriteSnapshot, WriteDocument
  <2> QED BY <2>2, <2>3, Ends, AloneStep DEF ChangesInv
<1> QED BY <1>1, <1>2, <1>3

LEMMA ChangesStage ==
  ASSUME IInv, ChangesInv, NEW o \in Actors, Stage(o)
  PROVE  ChangesInv'
<1> DEFINE d == Edited(doc, op[o].req)
           x == [phase |-> IF NeedsCert(doc, d) THEN "cert" ELSE "mihomo",
                 req |-> op[o].req, old |-> doc, next |-> d,
                 oldText |-> file, text |-> Rendered(file, d), late |-> pub # None]
<1>1. /\ op'[o] = x /\ \A p \in Actors : p # o => op'[p] = op[p]
      /\ mu = None /\ mlock = None /\ UNCHANGED <<file, cert, pub, stuck>>
      /\ doc' = d /\ BindingsOf(d, Modules, file) /\ file.cred
      /\ Allowed(doc, op[o].req) /\ RoutingChanged(doc, op[o].req)
  BY DEF Stage, IInv, counts, Reconcileable
<1>2. op[o].req \in ModuleRequests /\ op[o].req.kind \notin {"raw", "quic"}
  BY Locked, ModuleKinds DEF Stage
<1>3. Whole(doc) /\ Whole(d) /\ d.ver = doc.ver
  BY <1>1, <1>2, EditedWhole, RoutedKeepsSnapshots DEF ChangesInv
<1>4. CertHosts(d) \subseteq CertHosts(doc) \/ NeedsCert(doc, d)
  BY DEF NeedsCert
<1>5. /\ x.phase \in {"cert", "mihomo"} /\ x.req = op[o].req /\ x.old = doc /\ x.next = d
      /\ x.oldText = file /\ x.text = Rendered(file, d)
      /\ (~x.late => pub = None)
      /\ x.phase = "mihomo" => ~NeedsCert(doc, d)
  OBVIOUS
<1> HIDE DEF x, d
<1>6. FetchInv(x) /\ SwitchInv(x, file)
  BY <1>2, <1>5 DEF FetchInv, SwitchInv
<1>7. ChangeInv(x, d, file, stuck)
  BY <1>1, <1>3, <1>5 DEF ChangeInv
<1>8. LeafInv(x, pub, cert)
  BY <1>4, <1>5 DEF LeafInv
<1> QED BY <1>1, <1>3, <1>6, <1>7, <1>8, AloneStep DEF ChangesInv

\* The steps of a change under its locks; an ingress switch shares some.
LEMMA ChangesRouting ==
  ASSUME IInv, ChangesInv, NEW o \in Actors,
         \/ CertReady(o) \/ CertTimeout(o) \/ WriteMihomo(o) \/ WriteMihomoFails(o)
         \/ PutConfigs(o) \/ PutConfigsFails(o) \/ UndoFile(o) \/ UndoFileFails(o) \/ UndoPut(o)
         \/ UndoDoc(o) \/ UndoDocFails(o) \/ PublishHosts(o)
  PROVE  ChangesInv'
<1> DEFINE r == op[o]
           y == op'[o]
<1>0. /\ r.phase \in MutatePhases /\ mlock = o
      /\ r.req.kind # "quic" => Routing(r) /\ Mutating(o, r)
      /\ r.req.kind = "quic" => r.phase \in {"put", "undoFile", "undoPut"}
      /\ SwitchInv(r, file) /\ Whole(doc) /\ stuck \in BOOLEAN
      /\ Routing(r) => ChangeInv(r, doc, file, stuck) /\ LeafInv(r, pub, cert)
  <2>1. r.phase \in MutatePhases
    BY DEF MutatePhases, CertReady, CertTimeout, WriteMihomo, WriteMihomoFails, PutConfigs,
           PutConfigsFails, UndoFile, UndoFileFails, UndoPut, UndoDoc, UndoDocFails, PublishHosts
  <2> QED BY <2>1, Locked DEF ChangesInv
<1>1. CASE /\ Finish(o)
          /\ \/ PutConfigs(o) \/ UndoFileFails(o) \/ UndoPut(o)
             \/ UndoDoc(o) \/ UndoDocFails(o) \/ PublishHosts(o)
  <2>1. file' = file /\ (doc' = doc \/ (Routing(r) /\ doc' = r.old))
    BY <1>0, <1>1 DEF PutConfigs, UndoFileFails, UndoPut, UndoDoc, UndoDocFails, PublishHosts, stores
  <2>2. Whole(doc')
    BY <1>0, <2>1 DEF ChangeInv
  <2>3. stuck' \in BOOLEAN
    BY <1>0, <1>1 DEF PutConfigs, UndoFileFails, UndoPut, UndoDoc, UndoDocFails, PublishHosts, stores
  <2> QED BY <1>0, <1>1, <2>1, <2>2, <2>3, Ends, AloneStep
<1>2. ASSUME NEW ph, Goto(o, ph), Routing(r), ph \in MutatePhases,
             UNCHANGED <<doc, cert, pub>>, stuck' \in BOOLEAN,
             stuck => stuck',
             ph \in {"cert", "mihomo", "undoPut"} => file' = r.oldText,
             ph \in {"put", "publish", "undoFile"} => file' = r.text,
             ph = "undoDoc" /\ ~stuck' => file' = r.oldText,
             ph \in {"mihomo", "put", "publish"} =>
               r.phase \in {"mihomo", "put", "publish"} \/ cert = CertHosts(r.next)
      PROVE  ChangesInv'
  <2>1. /\ y.phase = ph /\ y.req = r.req /\ y.text = r.text /\ y.old = r.old /\ y.next = r.next
        /\ y.oldText = r.oldText /\ y.late = r.late
        /\ \A p \in Actors : p # o => op'[p] = op[p]
    BY <1>2, Moves
  <2> HIDE DEF r, y
  <2>2. FetchInv(y) /\ SwitchInv(y, file') /\ Routing(y)
    BY <1>2, <2>1 DEF FetchInv, SwitchInv, Routing, MutatePhases
  <2>3. ChangeInv(y, doc', file', stuck')
    BY <1>0, <1>2, <2>1 DEF ChangeInv
  <2>4. LeafInv(y, pub', cert')
    BY <1>0, <1>2, <2>1 DEF LeafInv
  <2> QED BY <1>0, <1>2, <2>1, <2>2, <2>3, <2>4, AloneStep DEF y
<1>3. CASE CertReady(o) \/ CertTimeout(o)
  <2>1. Routing(r) /\ r.phase = "cert" /\ UNCHANGED <<doc, file, cert, pub, stuck>>
    BY <1>0, <1>3 DEF CertReady, CertTimeout, stores, counts
  <2> QED BY <1>0, <1>2, <1>3, <2>1 DEF CertReady, CertTimeout, CertificateReady, MutatePhases, ChangeInv
<1>4. CASE WriteMihomo(o) \/ WriteMihomoFails(o)
  <2>1. Routing(r) /\ r.phase = "mihomo" /\ UNCHANGED <<doc, cert, pub, stuck>>
    BY <1>0, <1>4 DEF WriteMihomo, WriteMihomoFails, stores, counts
  <2> QED BY <1>0, <1>2, <1>4, <2>1 DEF WriteMihomo, WriteMihomoFails, MutatePhases, ChangeInv, stores
<1>5. CASE Routing(r) /\ (PutConfigs(o) \/ PutConfigsFails(o))
  <2>1. r.phase = "put" /\ UNCHANGED <<doc, file, cert, pub, stuck>> /\ r.req.kind # "quic"
    BY <1>5 DEF PutConfigs, PutConfigsFails, counts, Routing
  <2>2. file = r.text
    BY <1>0, <1>5, <2>1 DEF ChangeInv
  <2> QED BY <1>0, <1>2, <1>5, <2>1, <2>2 DEF PutConfigs, PutConfigsFails, MutatePhases
<1>6. CASE Routing(r) /\ (UndoFile(o) \/ UndoFileFails(o) \/ UndoPut(o))
  <2>1. UNCHANGED <<doc, cert, pub>> /\ r.req.kind # "quic"
    BY <1>6 DEF UndoFile, UndoFileFails, UndoPut, counts, stores, Routing
  <2>2. CASE UndoFile(o)
    BY <1>0, <1>2, <1>6, <2>1, <2>2 DEF UndoFile, MutatePhases
  <2>3. CASE UndoFileFails(o)
    BY <1>0, <1>2, <1>6, <2>1, <2>3 DEF UndoFileFails, UndoneTo, MutatePhases
  <2>4. CASE UndoPut(o)
    <3>1. r.phase = "undoPut" /\ file' = file /\ file = r.oldText /\ stuck' = stuck
      BY <1>0, <1>6, <2>4 DEF UndoPut, ChangeInv
    <3> QED BY <1>0, <1>2, <1>6, <2>1, <2>4, <3>1 DEF UndoPut, UndoneTo, MutatePhases
  <2> QED BY <1>6, <2>2, <2>3, <2>4
<1>7. CASE r.req.kind = "quic" /\ (PutConfigsFails(o) \/ UndoFile(o))
  <2>1. /\ UNCHANGED <<doc, stuck>> /\ r.phase \in {"put", "undoFile"}
        /\ file' = file \/ file' = r.oldText
    BY <1>7 DEF PutConfigsFails, UndoFile
  <2>2. SameText(r.oldText, file')
    BY <1>0, <1>7, <2>1 DEF SwitchInv, SameText
  <2>3. /\ y.phase \in {"undoFile", "undoPut"} /\ y.req = r.req /\ y.oldText = r.oldText
        /\ \A p \in Actors : p # o => op'[p] = op[p]
    BY <1>7, Moves DEF PutConfigsFails, UndoFile
  <2> HIDE DEF r, y
  <2>4. FetchInv(y) /\ SwitchInv(y, file') /\ ~Routing(y)
    BY <1>7, <2>2, <2>3 DEF FetchInv, SwitchInv, Routing
  <2> QED BY <1>0, <2>1, <2>3, <2>4, AloneStep DEF y
<1> QED BY <1>0, <1>1, <1>3, <1>4, <1>5, <1>6, <1>7
        DEF PutConfigs, UndoFileFails, UndoPut, UndoneTo, UndoDoc, UndoDocFails, PublishHosts

\* Edits of mihomo's file.
LEMMA ChangesFile ==
  ASSUME IInv, ChangesInv, NEW o \in Actors,
         \/ WriteRaw(o) \/ PutRaw(o) \/ Reconcile(o) \/ WriteIngress(o)
  PROVE  ChangesInv'
<1>1. CASE WriteRaw(o) \/ PutRaw(o)
  <2>1. /\ UNCHANGED <<doc, stuck>> /\ mlock \in {None, o}
        /\ op'[o].phase \in {"rawPut", "reconcile"}
        /\ \A p \in Actors : p # o => op'[p] = op[p]
    BY <1>1, Moves, Locked DEF WriteRaw, PutRaw
  <2>2. FetchInv(op'[o]) /\ SwitchInv(op'[o], file') /\ ~Routing(op'[o])
    BY <2>1 DEF FetchInv, SwitchInv, Routing, MutatePhases
  <2> QED BY <2>1, <2>2, AloneStep DEF ChangesInv
<1>2. CASE Reconcile(o)
  BY <1>2, Ends, AloneStep DEF Reconcile, ChangesInv
<1>3. CASE WriteIngress(o)
  <2> DEFINE x == [phase |-> "put", req |-> op[o].req, oldText |-> file]
  <2>1. /\ op'[o] = x /\ \A p \in Actors : p # o => op'[p] = op[p]
        /\ mlock = None /\ UNCHANGED <<doc, stuck>> /\ op[o].req.kind = "quic"
        /\ file = op[o].rev /\ file' = op[o].text /\ op[o].phase = "sent"
    BY <1>3 DEF WriteIngress, IInv
  <2>2. SameText(file, file')
    BY <2>1 DEF ChangesInv, SwitchInv, SameText
  <2>3. FetchInv(x) /\ SwitchInv(x, file') /\ ~Routing(x)
    BY <2>1, <2>2 DEF FetchInv, SwitchInv, Routing
  <2> HIDE DEF x
  <2> QED BY <2>1, <2>3, AloneStep DEF ChangesInv
<1> QED BY <1>1, <1>2, <1>3

LEMMA ChangesOther ==
  ASSUME IInv, ChangesInv, ReadRequest \/ PublishLeaf \/ Restart \/ UNCHANGED vars
  PROVE  ChangesInv'
<1>1. CASE Restart
  BY <1>1 DEF Restart, Idle, ChangesInv, FetchInv, SwitchInv, Routing, MutatePhases
<1>2. CASE ReadRequest \/ PublishLeaf
  <2>1. UNCHANGED <<doc, file, op, stuck>>
    BY <1>2 DEF ReadRequest, PublishLeaf, stores
  <2>2. ASSUME NEW o \in Actors, Routing(op[o]) PROVE LeafInv(op[o], pub', cert')
    <3>1. doc = op[o].next /\ LeafInv(op[o], pub, cert)
      BY <2>2 DEF ChangesInv, ChangeInv
    <3> QED BY <1>2, <3>1 DEF ReadRequest, PublishLeaf, LeafInv, stores
  <2> QED BY <2>1, <2>2 DEF ChangesInv
<1>3. CASE UNCHANGED vars
  BY <1>3 DEF vars, ChangesInv
<1> QED BY <1>1, <1>2, <1>3

LEMMA ChangesInit == Init => ChangesInv
<1> SUFFICES ASSUME Init PROVE ChangesInv
  OBVIOUS
<1>1. doc \in Doc /\ doc.on \subseteq Range(doc.order)
  BY InitialAssumption DEF Init
<1>2. Whole(doc)
  BY <1>1, OrdersAreSeqs DEF Doc, Whole, Bindings, Installed
<1> QED BY <1>2 DEF Init, Idle, ChangesInv, FetchInv, SwitchInv, Routing, MutatePhases

LEMMA ChangesStep == IInv /\ ChangesInv /\ [Next]_vars => ChangesInv'
<1> SUFFICES ASSUME IInv, ChangesInv, [Next]_vars PROVE ChangesInv'
  OBVIOUS
<1>1. ASSUME NEW o \in Actors, Step(o) PROVE ChangesInv'
  BY <1>1, ChangesPlain, ChangesStage, ChangesRouting, ChangesFile DEF Step
<1> QED BY <1>1, ChangesRequest, ChangesOther DEF Next

LEMMA ChangesHold == Spec => [](IInv /\ ChangesInv)
BY InitInv, StepInv, ChangesInit, ChangesStep, PTL DEF Spec

\* The snapshot of an enabled module is never replaced, by whatever requests race:
\* an update is fetched for a disabled module and written only at the revision it
\* was fetched for, and what a rollback restores has the snapshots it found.
THEOREM EnabledSnapshotsStay == Spec => EnabledImmutable
<1> DEFINE A == \A m \in doc.on \cap doc'.on : doc'.ver[m] = doc.ver[m]
<1>1. IInv /\ ChangesInv /\ [Next]_vars => [A]_vars
  <2> SUFFICES ASSUME IInv, ChangesInv, [Next]_vars PROVE A
    OBVIOUS
  <2> HIDE DEF A
  <2>1. ASSUME doc' = doc PROVE A
    BY <2>1 DEF A
  <2>2. ASSUME NEW o \in Actors, Step(o) PROVE A
    <3>1. CASE WriteSnapshot(o) \/ WriteDocument(o)
      <4>1. /\ op[o].req \in ModuleRequests /\ Unrouted(doc, op[o].req)
            /\ doc' = Edited(doc, op[o].req)
        BY <3>1, Locked DEF WriteSnapshot, WriteDocument, Unrouted, ChangesInv, FetchInv
      <4> QED BY <4>1, UnroutedSameActive DEF A, ChangesInv
    <3>2. CASE Stage(o)
      <4>1. /\ op[o].req \in ModuleRequests /\ RoutingChanged(doc, op[o].req)
            /\ doc' = Edited(doc, op[o].req)
        BY <3>2, Locked DEF Stage
      <4> QED BY <4>1, RoutedKeepsSnapshots DEF A, ChangesInv
    <3>3. CASE UndoDoc(o)
      <4>1. Routing(op[o]) /\ doc' = op[o].old
        BY <3>3, Locked DEF UndoDoc, MutatePhases
      <4> QED BY <4>1 DEF A, ChangesInv, ChangeInv
    <3> QED BY <2>1, <2>2, <3>1, <3>2, <3>3
            DEF Step, Reject, FetchUpdate, CertReady, CertTimeout, WriteMihomo, WriteMihomoFails,
                PutConfigs, PutConfigsFails, UndoFile, UndoFileFails, UndoPut, UndoDocFails,
                PublishHosts, WriteRaw, PutRaw, Reconcile, WriteIngress, stores
  <2>3. ASSUME NEW o \in Actors, RequestChange(o) \/ RequestRaw(o) \/ RequestIngress(o) PROVE A
    BY <2>1, <2>3 DEF RequestChange, RequestRaw, RequestIngress, Send, stores
  <2>4. CASE ReadRequest \/ PublishLeaf \/ Restart \/ UNCHANGED vars
    BY <2>1, <2>4 DEF ReadRequest, PublishLeaf, Restart, vars, stores
  <2> QED BY <2>2, <2>3, <2>4 DEF Next
<1>2. Spec => [][A]_vars
  BY <1>1, ChangesHold, PTL DEF Spec
<1> QED BY <1>2 DEF EnabledImmutable

\* A module the transaction enables reaches the DNS engine only under a leaf that
\* covers it: the certificate unit, whenever it reads the document during the change,
\* reads what the change staged.
THEOREM EnabledUnderLeaf == Spec => EnabledWithCertificate
<1> DEFINE A == \A o \in Actors :
                  op[o].phase = "publish" /\ ~op[o].late /\ overlay' # overlay =>
                    CertHosts(op[o].next) \subseteq cert \cup CertHosts(op[o].old)
<1>1. IInv /\ ChangesInv /\ [Next]_vars => [A]_vars
  <2> SUFFICES ASSUME IInv, ChangesInv, NEW o \in Actors, op[o].phase = "publish", ~op[o].late
               PROVE  CertHosts(op[o].next) \subseteq cert \cup CertHosts(op[o].old)
    OBVIOUS
  <2>1. Routing(op[o])
    BY Locked DEF MutatePhases
  <2> QED BY <2>1 DEF ChangesInv, LeafInv
<1>2. Spec => [][A]_vars
  BY <1>1, ChangesHold, PTL DEF Spec
<1> QED BY <1>2 DEF EnabledWithCertificate

-----------------------------------------------------------------------------
(* What the DNS engine captures, with one editor of mihomo's file as text.  An *)
(* edit is published after its locks are released, so the overlay may lag      *)
(* while it is pending; two pending edits can publish in the other order.     *)

Pending(r) == r.phase \in {"rawPut", "reconcile"}

\* Only an editor edits, and until its overlay is reconciled the file keeps the
\* credentials and the groups it wrote.
EditInv(o, r, f) ==
  /\ r.phase = "sent" /\ r.req.kind = "raw" => o \in Editors
  /\ Pending(r) => o \in Editors /\ f.cred = r.text.cred /\ f.groups = r.text.groups
  /\ r.phase = "rawPut" => f.rules = r.text.rules

\* The overlay ov goes with the text t and the document d but for pending edits,
\* and an edit left to reconcile finds its rules or the document's.
Settled(ov, q, t, d) ==
  /\ (\A o \in Actors : ~Pending(q[o])) => ov = <<>> \/ (ov = Overlay(d) /\ Manageable(t, d))
  /\ \A o \in Actors : q[o].phase = "reconcile" => t.rules = q[o].text.rules \/ t.rules = Route(d)

\* While a change is under way the overlay goes with what it started from.
OverlayInv ==
  /\ \A o \in Actors : EditInv(o, op[o], file)
  /\ \A o \in Actors : Routing(op[o]) /\ ~stuck => Settled(overlay, op, op[o].oldText, op[o].old)
  /\ ~stuck /\ (\A o \in Actors : ~Routing(op[o])) => Settled(overlay, op, file, doc)

LEMMA SettledKept ==
  ASSUME NEW ov, NEW q, NEW q2, NEW t, NEW u, NEW d, Settled(ov, q, t, d),
         NEW o \in Actors, \A p \in Actors : p # o => q2[p] = q[p],
         ~Pending(q[o]), ~Pending(q2[o]), SameText(t, u)
  PROVE  Settled(ov, q2, u, d)
<1>1. Manageable(t, d) <=> Manageable(u, d)
  BY DEF Manageable, BindingsOf, SameText
<1>2. \A p \in Actors : Pending(q2[p]) <=> Pending(q[p])
  OBVIOUS
<1>3. \A p \in Actors : q2[p].phase = "reconcile" => q2[p] = q[p]
  BY DEF Pending
<1> QED BY <1>1, <1>2, <1>3 DEF Settled, SameText

\* A step of a request that is no change under way, before or after.
LEMMA FreeKeeps ==
  ASSUME IInv, OverlayInv, NEW o \in Actors,
         \A p \in Actors : p # o => op'[p] = op[p],
         ~Routing(op[o]), ~Routing(op'[o]), ~Pending(op[o]), ~Pending(op'[o]),
         EditInv(o, op'[o], file'),
         SameText(file, file'), file' = file \/ mlock \in {None, o},
         UNCHANGED <<doc, overlay, stuck>>
  PROVE  OverlayInv'
<1>1. ASSUME NEW p \in Actors, p # o PROVE EditInv(p, op'[p], file')
  <2>1. EditInv(p, op[p], file)
    BY DEF OverlayInv
  <2> QED BY <1>1, <2>1 DEF EditInv, SameText
<1>2. ASSUME NEW p \in Actors, Routing(op'[p]), ~stuck
      PROVE  Settled(overlay, op', op'[p].oldText, op'[p].old)
  <2>1. p # o /\ op'[p] = op[p]
    BY <1>2
  <2>2. Settled(overlay, op, op[p].oldText, op[p].old)
    BY <1>2, <2>1 DEF OverlayInv
  <2> QED BY <2>1, <2>2, SettledKept DEF SameText
<1>3. ASSUME ~stuck, \A p \in Actors : ~Routing(op'[p])
      PROVE  Settled(overlay, op', file', doc)
  <2>1. Settled(overlay, op, file, doc)
    BY <1>3 DEF OverlayInv
  <2> QED BY <2>1, SettledKept
<1> QED BY <1>1, <1>2, <1>3 DEF OverlayInv

\* A step of a change under way that leaves it under way.
LEMMA UnderWayKeeps ==
  ASSUME IInv, OverlayInv, NEW o \in Actors,
         \A p \in Actors : p # o => op'[p] = op[p],
         Routing(op[o]), Routing(op'[o]),
         op'[o].oldText = op[o].oldText, op'[o].old = op[o].old,
         file'.cred = file.cred, file'.groups = file.groups,
         overlay' = overlay, stuck => stuck', stuck' \in BOOLEAN
  PROVE  OverlayInv'
<1>1. mu = o /\ mlock = o
  BY Locked DEF Mutating
<1>2. ~Pending(op[o]) /\ ~Pending(op'[o]) /\ EditInv(o, op'[o], file')
  BY DEF Routing, MutatePhases, Pending, EditInv
<1>3. ASSUME NEW p \in Actors, p # o PROVE ~Routing(op'[p]) /\ EditInv(p, op'[p], file')
  <2>1. ~Routing(op[p]) /\ op[p].phase # "rawPut"
    BY <1>1, <1>3, Alone
  <2>2. EditInv(p, op[p], file)
    BY DEF OverlayInv
  <2> QED BY <1>3, <2>1, <2>2 DEF EditInv
<1>4. ASSUME ~stuck' PROVE Settled(overlay, op', op[o].oldText, op[o].old)
  <2>1. Settled(overlay, op, op[o].oldText, op[o].old)
    BY <1>4 DEF OverlayInv
  <2> QED BY <1>2, <2>1, SettledKept DEF SameText
<1> QED BY <1>2, <1>3, <1>4 DEF OverlayInv

\* The last step of a change, or the only one of an edit: nobody else is under way.
LEMMA AloneKeeps ==
  ASSUME IInv, OverlayInv, NEW o \in Actors, mu \in {None, o} \/ mlock \in {None, o},
         \A p \in Actors : p # o => op'[p] = op[p],
         ~Routing(op'[o]), EditInv(o, op'[o], file'),
         \A p \in Actors : p # o /\ Pending(op[p]) =>
           file'.cred = file.cred /\ file'.groups = file.groups,
         ~stuck' => Settled(overlay', op', file', doc')
  PROVE  OverlayInv'
<1>1. ASSUME NEW p \in Actors, p # o PROVE ~Routing(op'[p]) /\ EditInv(p, op'[p], file')
  <2>1. ~Routing(op[p]) /\ op[p].phase # "rawPut"
    BY <1>1, Alone
  <2>2. EditInv(p, op[p], file)
    BY DEF OverlayInv
  <2> QED BY <1>1, <2>1, <2>2 DEF EditInv
<1> QED BY <1>1 DEF OverlayInv

LEMMA OverlayRequest ==
  ASSUME IInv, OverlayInv, NEW o \in Actors,
         RequestChange(o) \/ RequestRaw(o) \/ RequestIngress(o)
  PROVE  OverlayInv'
<1>1. ASSUME NEW r, Send(o, r), r.phase = "sent", r.req.kind = "raw" => o \in Editors
      PROVE  OverlayInv'
  <2>1. /\ op'[o] = r /\ op[o].phase = "idle" /\ \A p \in Actors : p # o => op'[p] = op[p]
        /\ UNCHANGED <<doc, file, overlay, stuck>>
    BY <1>1, Sends DEF Idle
  <2>2. ~Routing(op[o]) /\ ~Routing(r) /\ ~Pending(op[o]) /\ ~Pending(r) /\ EditInv(o, r, file')
    BY <1>1, <2>1 DEF Routing, MutatePhases, Pending, EditInv
  <2> QED BY <2>1, <2>2, FreeKeeps DEF SameText
<1>2. CASE RequestChange(o)
  <2>1. PICK r \in ModuleRequests : Send(o, [phase |-> "sent", req |-> r, rev |-> doc])
    BY <1>2 DEF RequestChange
  <2> QED BY <1>1, <2>1, ModuleKinds
<1>3. CASE RequestRaw(o)
  <2>1. PICK t \in RawTexts :
          Send(o, [phase |-> "sent", req |-> [kind |-> "raw"], rev |-> file, text |-> t])
    BY <1>3 DEF RequestRaw
  <2> QED BY <1>1, <1>3, <2>1 DEF RequestRaw
<1>4. CASE RequestIngress(o)
  BY <1>1, <1>4 DEF RequestIngress
<1> QED BY <1>2, <1>3, <1>4

LEMMA OverlayPlain ==
  ASSUME IInv, ChangesInv, OverlayInv, NEW o \in Actors,
         Reject(o) \/ FetchUpdate(o) \/ WriteSnapshot(o) \/ WriteDocument(o)
  PROVE  OverlayInv'
<1>0. op[o].phase \in {"sent", "fetched"} /\ ~Routing(op[o]) /\ ~Pending(op[o])
  BY DEF Reject, FetchUpdate, WriteSnapshot, WriteDocument, Routing, MutatePhases, Pending
<1>1. CASE Reject(o) \/ FetchUpdate(o)
  <2>1. /\ UNCHANGED <<doc, file, overlay, stuck>> /\ op'[o].phase \in {"idle", "fetched"}
        /\ \A p \in Actors : p # o => op'[p] = op[p]
    BY <1>1, Ends, Moves DEF Reject, FetchUpdate, stores
  <2>2. ~Routing(op'[o]) /\ ~Pending(op'[o]) /\ EditInv(o, op'[o], file')
    BY <2>1 DEF Routing, MutatePhases, Pending, EditInv
  <2> QED BY <1>0, <2>1, <2>2, FreeKeeps DEF SameText
<1>2. CASE WriteSnapshot(o) \/ WriteDocument(o)
  <2>1. /\ op[o].req \in ModuleRequests /\ Unrouted(doc, op[o].req)
        /\ doc' = Edited(doc, op[o].req) /\ Whole(doc)
    BY <1>2, Locked DEF WriteSnapshot, WriteDocument, Unrouted, ChangesInv, FetchInv
  <2>2. /\ Overlay(doc') = Overlay(doc) /\ Route(doc') = Route(doc)
        /\ \A t : Manageable(t, doc') <=> Manageable(t, doc)
    BY <2>1, UnroutedSameActive, SameActiveSame
  <2>3. mu = None /\ Finish(o) /\ UNCHANGED <<file, overlay, stuck>>
    BY <1>2 DEF WriteSnapshot, WriteDocument
  <2>4. /\ op'[o].phase = "idle" /\ ~Routing(op'[o])
        /\ \A p \in Actors : p # o => op'[p] = op[p]
    BY <2>3, Ends
  <2>5. ~Pending(op'[o]) /\ EditInv(o, op'[o], file')
    BY <2>4 DEF Pending, EditInv
  <2>6. ASSUME ~stuck' PROVE Settled(overlay', op', file', doc')
    <3>1. \A p \in Actors : ~Routing(op[p])
      BY <1>0, <2>3, Alone
    <3>2. Settled(overlay, op, file, doc)
      BY <2>3, <2>6, <3>1 DEF OverlayInv
    <3>3. Settled(overlay, op', file, doc)
      BY <1>0, <2>4, <2>5, <3>2, SettledKept DEF SameText
    <3> QED BY <2>2, <2>3, <3>3 DEF Settled
  <2> QED BY <2>3, <2>4, <2>5, <2>6, AloneKeeps
<1> QED BY <1>1, <1>2

LEMMA OverlayStage ==
  ASSUME IInv, OverlayInv, NEW o \in Actors, Stage(o)
  PROVE  OverlayInv'
<1> DEFINE y == op'[o]
<1>1. /\ y.phase \in {"cert", "mihomo"} /\ y.req = op[o].req /\ y.old = doc /\ y.oldText = file
      /\ \A p \in Actors : p # o => op'[p] = op[p]
      /\ mu = None /\ mlock = None /\ UNCHANGED <<file, overlay, stuck>>
      /\ op[o].phase = "sent" /\ ~OnFile(o)
  BY DEF Stage, IInv
<1> HIDE DEF y
<1>2. ~Routing(op[o]) /\ ~Pending(op[o]) /\ Routing(y) /\ ~Pending(y) /\ EditInv(o, y, file)
  BY <1>1 DEF Routing, MutatePhases, Pending, EditInv, OnFile
<1>3. \A p \in Actors : ~Routing(op[p])
  BY <1>1, <1>2, Alone
<1>4. ASSUME ~stuck PROVE Settled(overlay, op', file, doc)
  <2>1. Settled(overlay, op, file, doc)
    BY <1>3, <1>4 DEF OverlayInv
  <2> QED BY <1>1, <1>2, <2>1, SettledKept DEF SameText, y
<1>5. ASSUME NEW p \in Actors, p # o PROVE ~Routing(op'[p]) /\ EditInv(p, op'[p], file')
  BY <1>1, <1>3, <1>5 DEF OverlayInv
<1> QED BY <1>1, <1>2, <1>4, <1>5 DEF OverlayInv, y

LEMMA OverlayRouting ==
  ASSUME IInv, ChangesInv, OverlayInv, NEW o \in Actors,
         \/ CertReady(o) \/ CertTimeout(o) \/ WriteMihomo(o) \/ WriteMihomoFails(o)
         \/ PutConfigs(o) \/ PutConfigsFails(o) \/ UndoFile(o) \/ UndoFileFails(o) \/ UndoPut(o)
         \/ UndoDoc(o) \/ UndoDocFails(o) \/ PublishHosts(o)
  PROVE  OverlayInv'
<1> DEFINE r == op[o]
           y == op'[o]
<1>0. /\ r.phase \in MutatePhases /\ mlock = o /\ ~Pending(r)
      /\ r.req.kind # "quic" => Routing(r) /\ Mutating(o, r)
      /\ r.req.kind = "quic" => ~Routing(r) /\ r.phase \in {"put", "undoFile", "undoPut"}
      /\ SwitchInv(r, file) /\ Whole(doc) /\ stuck \in BOOLEAN
      /\ Routing(r) => ChangeInv(r, doc, file, stuck)
  <2>1. r.phase \in MutatePhases
    BY DEF MutatePhases, CertReady, CertTimeout, WriteMihomo, WriteMihomoFails, PutConfigs,
           PutConfigsFails, UndoFile, UndoFileFails, UndoPut, UndoDoc, UndoDocFails, PublishHosts
  <2>2. ~Pending(r)
    BY <2>1 DEF MutatePhases, Pending
  <2> QED BY <2>1, <2>2, Locked DEF ChangesInv, Routing
<1>1. CASE UndoDoc(o) \/ UndoDocFails(o) \/ PublishHosts(o)
  <2>1. r.phase \in {"undoDoc", "publish"} /\ Routing(r) /\ Finish(o) /\ UNCHANGED file
    BY <1>0, <1>1 DEF UndoDoc, UndoDocFails, PublishHosts, stores
  <2>2. /\ ~Routing(y) /\ y.phase = "idle" /\ \A p \in Actors : p # o => op'[p] = op[p]
    BY <2>1, Ends
  <2>3. ~Pending(y) /\ EditInv(o, y, file')
    BY <2>2 DEF Pending, EditInv
  <2>4. CASE UndoDoc(o) /\ ~stuck
    <3>1. file = r.oldText /\ doc' = r.old /\ overlay' = overlay
      BY <1>0, <2>1, <2>4 DEF UndoDoc, ChangeInv
    <3>2. Settled(overlay, op, r.oldText, r.old)
      BY <2>1, <2>4 DEF OverlayInv
    <3>3. Settled(overlay, op', r.oldText, r.old)
      BY <1>0, <2>2, <2>3, <3>2, SettledKept DEF SameText
    <3> QED BY <1>0, <2>1, <2>2, <2>3, <3>1, <3>3, AloneKeeps
  <2>5. CASE PublishHosts(o)
    <3>1. file = Rendered(r.oldText, doc) /\ doc = r.next /\ r.oldText.cred /\ BindingsOf(doc, Modules, r.oldText)
      BY <1>0, <2>1, <2>5 DEF PublishHosts, ChangeInv
    <3>2. IsText(r.oldText)
      BY <1>0, <2>1 DEF Mutating, Routing
    <3>3. file.rules = Route(doc) /\ file.cred = r.oldText.cred /\ file.groups = r.oldText.groups
      BY <3>1, <3>2 DEF Rendered, IsText
    <3>4. Active(doc) \subseteq Modules
      BY <1>0 DEF Active, Whole
    <3>5. Manageable(file, doc)
      BY <3>1, <3>3, <3>4 DEF Manageable, BindingsOf
    <3>6. overlay' = Overlay(doc) /\ doc' = doc
      BY <2>5, <3>1 DEF PublishHosts
    <3>7. Settled(overlay', op', file', doc')
      BY <2>1, <3>3, <3>5, <3>6 DEF Settled
    <3> QED BY <1>0, <2>1, <2>2, <2>3, <3>7, AloneKeeps
  <2>6. CASE UndoDocFails(o) \/ (UndoDoc(o) /\ stuck)
    <3>1. stuck'
      BY <2>6 DEF UndoDocFails, UndoDoc
    <3> QED BY <1>0, <2>1, <2>2, <2>3, <3>1, AloneKeeps
  <2> QED BY <1>1, <2>4, <2>5, <2>6
<1>2. CASE Routing(r) /\ ~(UndoDoc(o) \/ UndoDocFails(o) \/ PublishHosts(o))
  <2>1. PICK ph \in MutatePhases : Goto(o, ph)
    BY <1>0, <1>2 DEF CertReady, CertTimeout, WriteMihomo, WriteMihomoFails, PutConfigs,
       PutConfigsFails, UndoFile, UndoFileFails, UndoPut, UndoneTo, MutatePhases, Routing
  <2>2. /\ overlay' = overlay /\ stuck' \in BOOLEAN /\ (stuck => stuck')
        /\ file' \in {file, r.text, r.oldText}
    BY <1>0, <1>2 DEF CertReady, CertTimeout, WriteMihomo, WriteMihomoFails, PutConfigs,
       PutConfigsFails, UndoFile, UndoFileFails, UndoPut, stores
  <2>3. r.text.cred = r.oldText.cred /\ r.text.groups = r.oldText.groups
    BY <1>0, <1>2 DEF ChangeInv, Mutating, Routing, Rendered, IsText
  <2>4. file' # file => file \in {r.text, r.oldText}
    BY <1>0, <1>2 DEF CertReady, CertTimeout, WriteMihomo, WriteMihomoFails, PutConfigs,
       PutConfigsFails, UndoFile, UndoFileFails, UndoPut, stores, ChangeInv
  <2>5. file'.cred = file.cred /\ file'.groups = file.groups
    BY <2>2, <2>3, <2>4
  <2>6. /\ y.phase = ph /\ y.req = r.req /\ y.old = r.old /\ y.oldText = r.oldText
        /\ \A p \in Actors : p # o => op'[p] = op[p]
    BY <2>1, Moves
  <2>7. Routing(y)
    BY <1>2, <2>1, <2>6 DEF Routing
  <2> QED BY <1>2, <2>2, <2>5, <2>6, <2>7, UnderWayKeeps
<1>3. CASE r.req.kind = "quic"
  <2>1. /\ PutConfigs(o) \/ PutConfigsFails(o) \/ UndoFile(o) \/ UndoFileFails(o) \/ UndoPut(o)
        /\ ~Routing(r)
    BY <1>0, <1>3 DEF CertReady, CertTimeout, WriteMihomo, WriteMihomoFails,
       UndoDoc, UndoDocFails, PublishHosts, MutatePhases
  <2>2. /\ y.phase \in {"idle", "undoFile", "undoPut"}
        /\ y.phase # "idle" => y.req = r.req
        /\ \A p \in Actors : p # o => op'[p] = op[p]
    BY <1>3, <2>1, Moves, Ends DEF PutConfigs, PutConfigsFails, UndoFile, UndoFileFails, UndoPut, UndoneTo
  <2>3. UNCHANGED <<doc, overlay, stuck>> /\ SameText(file, file')
    BY <1>0, <1>3, <2>1 DEF PutConfigs, PutConfigsFails, UndoFile, UndoFileFails, UndoPut, UndoneTo,
       SwitchInv, SameText, stores
  <2> HIDE DEF y, r
  <2>4. ~Routing(y) /\ ~Pending(y) /\ EditInv(o, y, file')
    BY <1>3, <2>2 DEF Routing, MutatePhases, Pending, EditInv
  <2> QED BY <1>0, <2>1, <2>2, <2>3, <2>4, FreeKeeps DEF y, r
<1> QED BY <1>0, <1>1, <1>2, <1>3

LEMMA OverlayFile ==
  ASSUME IInv, ChangesInv, OverlayInv, \A a, b \in Editors : a = b, NEW o \in Actors,
         WriteRaw(o) \/ PutRaw(o) \/ Reconcile(o) \/ WriteIngress(o)
  PROVE  OverlayInv'
<1> DEFINE r == op[o]
           y == op'[o]
<1>0. EditInv(o, r, file)
  BY DEF OverlayInv
\* The only editor is o when o edits.
<1>1. ASSUME o \in Editors, NEW p \in Actors, p # o PROVE ~Pending(op[p])
  <2>1. EditInv(p, op[p], file)
    BY DEF OverlayInv
  <2> QED BY <1>1, <2>1 DEF EditInv
<1>2. CASE WriteRaw(o)
  <2>1. /\ r.phase = "sent" /\ r.req.kind = "raw" /\ mu = None /\ file' = r.text
        /\ y.phase = "rawPut" /\ y.text = r.text /\ y.req = r.req
        /\ \A p \in Actors : p # o => op'[p] = op[p]
        /\ UNCHANGED <<doc, overlay, stuck>>
    BY <1>2, Moves DEF WriteRaw
  <2>2. o \in Editors
    BY <1>0, <2>1 DEF EditInv
  <2>3. ~Routing(y) /\ EditInv(o, y, file') /\ Pending(y)
    BY <2>1, <2>2 DEF Routing, MutatePhases, EditInv, Pending
  <2>4. \A p \in Actors : op'[p].phase # "reconcile"
    BY <1>1, <2>1, <2>2 DEF Pending
  <2>5. Settled(overlay', op', file', doc')
    BY <2>3, <2>4 DEF Settled
  <2> QED BY <1>1, <2>1, <2>2, <2>3, <2>5, AloneKeeps
<1>3. CASE PutRaw(o)
  <2>1. /\ r.phase = "rawPut" /\ UNCHANGED <<doc, file, overlay, stuck>>
        /\ y.phase = "reconcile" /\ y.text = r.text /\ y.req = r.req
        /\ \A p \in Actors : p # o => op'[p] = op[p]
    BY <1>3, Moves DEF PutRaw
  <2>2. mu = o /\ o \in Editors /\ file.rules = r.text.rules
    BY <1>0, <2>1, Locked DEF EditInv, Pending
  <2>3. ~Routing(y) /\ EditInv(o, y, file') /\ Pending(y)
    BY <1>0, <2>1, <2>2 DEF Routing, MutatePhases, EditInv, Pending
  <2>4. \A p \in Actors : p # o => op'[p].phase # "reconcile"
    BY <1>1, <2>1, <2>2 DEF Pending
  <2>5. Settled(overlay', op', file', doc')
    BY <2>1, <2>2, <2>3, <2>4 DEF Settled
  <2> QED BY <2>1, <2>2, <2>3, <2>5, AloneKeeps
<1>4. CASE Reconcile(o)
  <2>1. /\ r.phase = "reconcile" /\ mu = None /\ UNCHANGED <<doc, file, stuck>>
        /\ overlay' = OverlayFor(r.text, doc) /\ y.phase = "idle" /\ ~Routing(y)
        /\ \A p \in Actors : p # o => op'[p] = op[p]
    BY <1>4, Ends DEF Reconcile
  <2>2. o \in Editors /\ file.cred = r.text.cred /\ file.groups = r.text.groups
    BY <1>0, <2>1 DEF EditInv, Pending
  <2>3. ~Pending(y) /\ EditInv(o, y, file')
    BY <2>1 DEF Pending, EditInv
  <2>4. \A p \in Actors : ~Pending(op'[p])
    BY <1>1, <2>1, <2>2, <2>3
  <2>5. ASSUME ~stuck' PROVE Settled(overlay', op', file', doc')
    <3>1. ~Routing(r)
      BY <2>1 DEF Routing, MutatePhases
    <3>2. \A p \in Actors : ~Routing(op[p])
      BY <2>1, <3>1, Alone
    <3>3. Settled(overlay, op, file, doc)
      BY <2>1, <2>5, <3>2 DEF OverlayInv
    <3>4. file.rules = r.text.rules \/ file.rules = Route(doc)
      BY <2>1, <3>3 DEF Settled
    <3>5. Manageable(r.text, doc) => Manageable(file, doc)
      BY <2>2, <3>4 DEF Manageable, BindingsOf
    <3>6. overlay' = <<>> \/ (overlay' = Overlay(doc) /\ Manageable(file, doc))
      BY <2>1, <3>5 DEF OverlayFor
    <3>7. \A p \in Actors : op'[p].phase # "reconcile"
      BY <2>4 DEF Pending
    <3> QED BY <2>1, <3>6, <3>7 DEF Settled
  <2> QED BY <2>1, <2>3, <2>5, AloneKeeps
<1>5. CASE WriteIngress(o)
  <2>1. /\ y.phase = "put" /\ y.req = r.req /\ r.req.kind = "quic"
        /\ \A p \in Actors : p # o => op'[p] = op[p]
        /\ mlock = None /\ UNCHANGED <<doc, overlay, stuck>>
        /\ file = r.rev /\ file' = r.text /\ r.phase = "sent"
    BY <1>5 DEF WriteIngress, IInv
  <2>2. SameText(file, file')
    BY <2>1 DEF ChangesInv, SwitchInv, SameText
  <2> HIDE DEF y, r
  <2>3. ~Routing(r) /\ ~Pending(r) /\ ~Routing(y) /\ ~Pending(y) /\ EditInv(o, y, file')
    BY <2>1 DEF Routing, MutatePhases, Pending, EditInv
  <2> QED BY <2>1, <2>2, <2>3, FreeKeeps DEF y, r
<1> QED BY <1>2, <1>3, <1>4, <1>5

LEMMA OverlayOther ==
  ASSUME OverlayInv, ReadRequest \/ PublishLeaf \/ Restart \/ UNCHANGED vars
  PROVE  OverlayInv'
<1>1. CASE Restart
  <2>1. op' = [o \in Actors |-> Idle] /\ UNCHANGED <<doc, file>> /\ overlay' = OverlayFor(file, doc)
    BY <1>1 DEF Restart
  <2>2. \A o \in Actors : ~Routing(op'[o]) /\ ~Pending(op'[o]) /\ op'[o].phase = "idle"
    BY <2>1 DEF Idle, Routing, MutatePhases, Pending
  <2>3. Settled(overlay', op', file', doc')
    BY <2>1, <2>2 DEF Settled, OverlayFor
  <2> QED BY <2>2, <2>3 DEF OverlayInv, EditInv
<1>2. CASE ReadRequest \/ PublishLeaf \/ UNCHANGED vars
  <2>1. UNCHANGED <<doc, file, op, overlay, stuck>>
    BY <1>2 DEF ReadRequest, PublishLeaf, vars, stores
  <2> QED BY <2>1 DEF OverlayInv, Settled
<1> QED BY <1>1, <1>2

LEMMA OverlayInit == Init => OverlayInv
<1> SUFFICES ASSUME Init PROVE OverlayInv
  OBVIOUS
<1>1. doc \in Doc /\ doc.on \subseteq Modules /\ doc.group \in [Modules -> Groups \cup {Terminal}]
  BY InitialAssumption DEF Init, Doc
<1>2. Manageable(file, doc)
  BY <1>1 DEF Init, Manageable, BindingsOf, Active
<1>3. overlay = Overlay(doc)
  BY DEF Init
<1>4. \A o \in Actors : ~Routing(op[o]) /\ ~Pending(op[o]) /\ op[o].phase = "idle"
  BY DEF Init, Idle, Routing, MutatePhases, Pending
<1> QED BY <1>2, <1>3, <1>4 DEF OverlayInv, EditInv, Settled

LEMMA OverlayStep ==
  (\A a, b \in Editors : a = b) /\ IInv /\ ChangesInv /\ OverlayInv /\ [Next]_vars => OverlayInv'
<1> SUFFICES ASSUME \A a, b \in Editors : a = b, IInv, ChangesInv, OverlayInv, [Next]_vars
             PROVE  OverlayInv'
  OBVIOUS
<1>1. ASSUME NEW o \in Actors, Step(o) PROVE OverlayInv'
  BY <1>1, OverlayPlain, OverlayStage, OverlayRouting, OverlayFile DEF Step
<1> QED BY <1>1, OverlayRequest, OverlayOther DEF Next

\* With one editor of mihomo's file as text, any number of module changes and
\* ingress switches, failures of every step and restarts between any two: at rest
\* the DNS engine captures nothing, or what the document wants and mihomo's file
\* routes.  The hypothesis is needed: of two editors the later one's overlay can be
\* published first.
THEOREM CaptureIsRouted ==
  ASSUME \A a, b \in Editors : a = b
  PROVE  Spec => []OverlayConsistent
<1>1. IInv /\ OverlayInv => OverlayConsistent
  <2> SUFFICES ASSUME IInv, OverlayInv, Quiet, ~stuck
               PROVE  overlay = <<>> \/ (overlay = Overlay(doc) /\ Manageable(file, doc))
    BY DEF OverlayConsistent
  <2>1. \A o \in Actors : ~Routing(op[o]) /\ ~Pending(op[o])
    BY Locked, InterceptAssumption DEF Quiet, Mutating, Pending
  <2> QED BY <2>1 DEF OverlayInv, Settled
<1>2. IInv /\ ChangesInv /\ OverlayInv /\ [Next]_vars => OverlayInv'
  BY OverlayStep
<1> QED BY InitInv, StepInv, ChangesInit, ChangesStep, OverlayInit, <1>1, <1>2, PTL DEF Spec
-----------------------------------------------------------------------------
(* Types: what is written to the stores is well formed, in particular no list *)
(* of modules has one twice.                                                 *)

Distinct(d) == IsInjective(d.order)

OpTyped(r) ==
  /\ r.phase \in Phases
  /\ r.phase = "sent" /\ r.req.kind \in {"raw", "quic"} => r.text \in Text
  /\ r.phase \in MutatePhases => r.oldText \in Text
  /\ Routing(r) => Distinct(r.old)

StoresTyped ==
  /\ Distinct(doc) /\ file \in Text /\ running \in Text
  /\ overlay \in Seq(Modules \X Versions \X Resolvers)
  /\ cert \subseteq Modules \X Versions
  /\ pub \in (SUBSET (Modules \X Versions)) \cup {None}

LocksTyped ==
  /\ mu \in Actors \cup {None} /\ mlock \in Actors \cup {None}
  /\ ops \in 0..MaxOps /\ crashes \in 0..MaxCrash

TypeInv == StoresTyped /\ LocksTyped /\ \A o \in Actors : OpTyped(op[o])

LEMMA DistinctOrders ==
  ASSUME NEW s \in Seq(Modules)
  PROVE  s \in Orders <=> IsInjective(s)
<1>1. Len(s) \in Nat /\ s \in [1..Len(s) -> Modules] /\ IsFiniteSet(Modules)
  BY LenProperties, InterceptAssumption
<1>2. ASSUME IsInjective(s) PROVE s \in Orders
  <2>1. s \in Injection(1..Len(s), Modules)
    BY <1>1, <1>2 DEF Injection
  <2>2. Cardinality(1..Len(s)) <= Cardinality(Modules)
    BY <1>1, <2>1, FS_Injection
  <2>3. Cardinality(1..Len(s)) = Len(s)
    <3>1. 1 \in Int /\ Len(s) \in Int
      BY <1>1
    <3>2. Cardinality(1..Len(s)) = IF 1 > Len(s) THEN 0 ELSE Len(s) - 1 + 1
      BY <3>1, FS_Interval
    <3> QED BY <1>1, <3>2
  <2>4. Cardinality(Modules) \in Nat
    BY <1>1, FS_CardinalityType
  <2>5. Len(s) \in 0..Cardinality(Modules)
    BY <1>1, <2>2, <2>3, <2>4
  <2> QED BY <1>1, <1>2, <2>5 DEF Orders
<1>3. ASSUME s \in Orders PROVE IsInjective(s)
  BY <1>3 DEF Orders
<1> QED BY <1>2, <1>3

LEMMA DistinctDoc == ASSUME NEW d, Whole(d), Distinct(d) PROVE d \in Doc
<1>1. d.order \in Orders
  BY DistinctOrders DEF Whole, Distinct
<1> QED BY <1>1 DEF Whole, Doc, Bindings

\* An edit that the mutators allow leaves no module twice in the list.
LEMMA EditedDistinct ==
  ASSUME NEW d, Whole(d), Distinct(d), NEW r \in ModuleRequests, Allowed(d, r) \/ r.kind = "update"
  PROVE  Distinct(Edited(d, r))
<1>0. d.order \in Seq(Modules) /\ d.order = d.order /\ Edited(d, r).order \in Seq(Modules)
  BY EditedWhole DEF Whole
<1>1. CASE r.kind = "import"
  <2>1. r.m \in Modules /\ r.m \notin Range(d.order)
    BY <1>1 DEF ModuleRequests, Allowed, Installed
  <2>2. Edited(d, r).order = Append(d.order, r.m)
    BY <1>1 DEF Edited, Whole
  <2> QED BY <1>0, <2>1, <2>2, DistinctAppend DEF Distinct
<1>2. CASE r.kind = "delete"
  <2>1. Edited(d, r).order = Only(d.order, Range(d.order) \ {r.m})
    BY <1>2 DEF Edited, Whole
  <2> QED BY <1>0, <2>1, OnlyDistinct DEF Distinct
<1>3. CASE r.kind = "order"
  <2>1. r.order \in Orders /\ Edited(d, r).order = r.order
    BY <1>3 DEF ModuleRequests, Edited, Whole
  <2> QED BY <2>1, OrdersAreSeqs, DistinctOrders DEF Distinct
<1>4. CASE r.kind \notin {"import", "delete", "order"}
  <2>1. Edited(d, r).order = d.order
    BY <1>4 DEF ModuleRequests, Edited, Whole
  <2> QED BY <2>1 DEF Distinct
<1> QED BY <1>1, <1>2, <1>3, <1>4

\* What a document asks for has the types of the stores that follow it.
LEMMA AskedTyped ==
  ASSUME NEW d, Whole(d)
  PROVE  /\ CertHosts(d) \subseteq Modules \X Versions
         /\ Overlay(d) \in Seq(Modules \X Versions \X Resolvers)
         /\ \A t : OverlayFor(t, d) \in Seq(Modules \X Versions \X Resolvers)
         /\ Route(d) \in Seq(Rule)
<1>1. \A S : InOrder(d, S) \in Seq(Modules)
  BY OnlyRange DEF InOrder, Whole
<1>2. CertHosts(d) \subseteq Modules \X Versions
  BY DEF CertHosts, Whole
<1>3. Overlay(d) \in Seq(Modules \X Versions \X Resolvers)
  <2> DEFINE s == InOrder(d, Active(d))
  <2>1. Len(s) \in Nat /\ DOMAIN s = 1..Len(s) /\ \A i \in 1..Len(s) : s[i] \in Modules
    BY <1>1, LenProperties
  <2>2. Overlay(d) = [i \in DOMAIN s |-> <<s[i], d.ver[s[i]], d.dns[s[i]]>>]
    BY DEF Overlay
  <2> HIDE DEF s
  <2>3. \A i \in 1..Len(s) : <<s[i], d.ver[s[i]], d.dns[s[i]]>> \in Modules \X Versions \X Resolvers
    BY <2>1 DEF Whole
  <2>4. Overlay(d) \in [1..Len(s) -> Modules \X Versions \X Resolvers]
    BY <2>1, <2>2, <2>3
  <2> QED BY <2>1, <2>4, SeqDef
<1>4. \A t : OverlayFor(t, d) \in Seq(Modules \X Versions \X Resolvers)
  BY <1>3, EmptySeq DEF OverlayFor
<1>5. Route(d) \in Seq(Rule)
  <2> DEFINE bound == {m \in Active(d) : d.group[m] # Terminal}
             s == InOrder(d, bound) \o InOrder(d, Active(d) \ bound)
  <2>1. s \in Seq(Modules)
    BY <1>1, ConcatProperties
  <2>2. Route(d) = [i \in DOMAIN s |-> <<s[i], d.ver[s[i]], d.group[s[i]]>>]
    BY DEF Route
  <2> HIDE DEF s
  <2>3. Len(s) \in Nat /\ DOMAIN s = 1..Len(s) /\ \A i \in 1..Len(s) : s[i] \in Modules
    BY <2>1, LenProperties
  <2>4. \A i \in 1..Len(s) : <<s[i], d.ver[s[i]], d.group[s[i]]>> \in Rule
    BY <2>3 DEF Whole, Rule, Bindings
  <2>5. Route(d) \in [1..Len(s) -> Rule]
    BY <2>2, <2>3, <2>4
  <2> QED BY <2>3, <2>5, SeqDef
<1> QED BY <1>2, <1>3, <1>4, <1>5

LEMMA TypesInit == Init => TypeInv
<1> SUFFICES ASSUME Init PROVE TypeInv
  OBVIOUS
<1>1. doc \in Doc /\ Whole(doc) /\ Distinct(doc)
  <2>1. doc \in Doc /\ Whole(doc)
    BY InitialAssumption, ChangesInit DEF Init, ChangesInv
  <2>2. doc.order \in Orders /\ doc.order \in Seq(Modules)
    BY <2>1 DEF Doc, Whole
  <2> QED BY <2>1, <2>2, DistinctOrders DEF Distinct
<1>2. file \in Text /\ running \in Text
  BY <1>1, AskedTyped DEF Init, Text
<1>3. StoresTyped
  <2>1. cert = CertHosts(doc) /\ overlay = Overlay(doc) /\ pub = None
    BY DEF Init
  <2>2. cert \subseteq Modules \X Versions /\ overlay \in Seq(Modules \X Versions \X Resolvers)
    BY <1>1, <2>1, AskedTyped
  <2> QED BY <1>1, <1>2, <2>1, <2>2 DEF StoresTyped
<1>4. LocksTyped
  BY InterceptAssumption DEF Init, LocksTyped
<1>5. \A o \in Actors : OpTyped(op[o])
  BY DEF Init, Idle, OpTyped, Phases, MutatePhases, Routing
<1> QED BY <1>3, <1>4, <1>5 DEF TypeInv

LEMMA TypesRequest ==
  ASSUME IInv, ChangesInv, TypeInv, NEW o \in Actors,
         RequestChange(o) \/ RequestRaw(o) \/ RequestIngress(o)
  PROVE  TypeInv'
<1>1. ASSUME NEW r, Send(o, r), OpTyped(r) PROVE TypeInv'
  <2>1. op'[o] = r /\ \A p \in Actors : p # o => op'[p] = op[p]
    BY <1>1, Sends
  <2>2. ops' \in 0..MaxOps /\ UNCHANGED <<stores, pub, mu, mlock, crashes>>
    BY <1>1, InterceptAssumption DEF Send, TypeInv, LocksTyped
  <2>3. StoresTyped' /\ LocksTyped'
    BY <2>2 DEF TypeInv, StoresTyped, LocksTyped, stores, Distinct
  <2> QED BY <1>1, <2>1, <2>3 DEF TypeInv
<1>2. CASE RequestChange(o)
  <2>1. PICK r \in ModuleRequests : Send(o, [phase |-> "sent", req |-> r, rev |-> doc])
    BY <1>2 DEF RequestChange
  <2>2. OpTyped([phase |-> "sent", req |-> r, rev |-> doc])
    BY ModuleKinds DEF OpTyped, Phases, MutatePhases, Routing
  <2> QED BY <1>1, <2>1, <2>2
<1>3. CASE RequestRaw(o)
  <2>1. PICK t \in RawTexts :
          Send(o, [phase |-> "sent", req |-> [kind |-> "raw"], rev |-> file, text |-> t])
    BY <1>3 DEF RequestRaw
  <2>2. file \in Text /\ Route(doc) \in Seq(Rule) /\ <<>> \in Seq(Rule)
    BY AskedTyped, EmptySeq DEF TypeInv, StoresTyped, ChangesInv
  <2>3. t \in Text
    <3>1. ASSUME NEW x \in Seq(Rule) PROVE [file EXCEPT !.rules = x] \in Text
      BY <2>2 DEF Text
    <3>2. ASSUME NEW g \in SUBSET Groups PROVE [file EXCEPT !.groups = g] \in Text
      BY <2>2 DEF Text
    <3>3. ASSUME NEW c \in BOOLEAN
          PROVE  [file EXCEPT !.cred = c] \in Text /\ [file EXCEPT !.quic = c] \in Text
      BY <2>2 DEF Text
    <3>4. [rules |-> <<>>, groups |-> {}, cred |-> TRUE, quic |-> FALSE] \in Text
      BY <2>2 DEF Text
    <3> QED BY <2>2, <3>1, <3>2, <3>3, <3>4 DEF RawTexts
  <2>4. OpTyped([phase |-> "sent", req |-> [kind |-> "raw"], rev |-> file, text |-> t])
    BY <2>3 DEF OpTyped, Phases, MutatePhases, Routing
  <2> QED BY <1>1, <2>1, <2>4
<1>4. CASE RequestIngress(o)
  <2> DEFINE t == [file EXCEPT !.quic = ~@]
  <2>1. t \in Text
    BY DEF Text, TypeInv, StoresTyped
  <2>2. Send(o, [phase |-> "sent", req |-> [kind |-> "quic"], rev |-> file, text |-> t])
    BY <1>4 DEF RequestIngress
  <2> HIDE DEF t
  <2>3. OpTyped([phase |-> "sent", req |-> [kind |-> "quic"], rev |-> file, text |-> t])
    BY <2>1 DEF OpTyped, Phases, MutatePhases, Routing
  <2> QED BY <1>1, <2>2, <2>3
<1> QED BY <1>2, <1>3, <1>4

\* A request that goes on or ends keeps what it carries.
LEMMA TypesOfOps ==
  ASSUME IInv, TypeInv, NEW o \in Actors,
         Finish(o) \/ \E ph \in Phases : Goto(o, ph) /\ (ph = "sent" => FALSE)
                                  /\ (ph \in MutatePhases => op[o].phase \in MutatePhases)
  PROVE  \A p \in Actors : OpTyped(op'[p])
<1>0. \A p \in Actors : OpTyped(op[p])
  BY DEF TypeInv
<1>1. CASE Finish(o)
  <2>1. op'[o] = Idle /\ \A p \in Actors : p # o => op'[p] = op[p]
    BY <1>1 DEF Finish, IInv
  <2>2. OpTyped(Idle)
    BY DEF Idle, OpTyped, Phases, MutatePhases, Routing
  <2> QED BY <1>0, <2>1, <2>2
<1>2. ASSUME NEW ph \in Phases, Goto(o, ph), ph # "sent", ph \in MutatePhases => op[o].phase \in MutatePhases
      PROVE  \A p \in Actors : OpTyped(op'[p])
  <2>1. /\ op'[o].phase = ph
        /\ op'[o].req = op[o].req /\ op'[o].text = op[o].text
        /\ op'[o].old = op[o].old /\ op'[o].oldText = op[o].oldText
        /\ \A p \in Actors : p # o => op'[p] = op[p]
    BY <1>2, Moves
  <2>2. OpTyped(op'[o])
    BY <1>0, <1>2, <2>1 DEF OpTyped, Routing
  <2> QED BY <1>0, <2>1, <2>2
<1> QED BY <1>1, <1>2

\* What a step may write is well formed.
LEMMA TypesSources ==
  ASSUME IInv, ChangesInv, TypeInv, NEW o \in Actors
  PROVE  /\ OpTyped(op[o])
         /\ Routing(op[o]) =>
              /\ op[o].text \in Text
              /\ Overlay(op[o].next) \in Seq(Modules \X Versions \X Resolvers)
<1>1. OpTyped(op[o])
  BY DEF TypeInv
<1>2. ASSUME Routing(op[o])
      PROVE  /\ op[o].text \in Text
             /\ Overlay(op[o].next) \in Seq(Modules \X Versions \X Resolvers)
  <2>1. Whole(op[o].next) /\ op[o].text = Rendered(op[o].oldText, op[o].next)
    BY <1>2 DEF ChangesInv, ChangeInv
  <2>2. op[o].oldText \in Text
    BY <1>1, <1>2 DEF OpTyped, Routing
  <2>3. Route(op[o].next) \in Seq(Rule)
    BY <2>1, AskedTyped
  <2> QED BY <2>1, <2>2, <2>3, AskedTyped DEF Rendered, Text
<1> QED BY <1>1, <1>2

LEMMA TypesStep ==
  ASSUME IInv, ChangesInv, TypeInv, NEW o \in Actors, Step(o)
  PROVE  TypeInv'
<1>1. UNCHANGED <<pub, cert, ops, crashes>>
  BY DEF Step, Reject, FetchUpdate, WriteSnapshot, WriteDocument, Stage, CertReady, CertTimeout,
         WriteMihomo, WriteMihomoFails, PutConfigs, PutConfigsFails, UndoFile, UndoFileFails,
         UndoPut, UndoDoc, UndoDocFails, PublishHosts, WriteRaw, PutRaw, Reconcile, WriteIngress,
         stores, counts
<1>2. mu' \in {mu, None, o} /\ mlock' \in {mlock, None, o}
  BY DEF Step, Reject, FetchUpdate, WriteSnapshot, WriteDocument, Stage, CertReady, CertTimeout,
         WriteMihomo, WriteMihomoFails, PutConfigs, PutConfigsFails, UndoFile, UndoFileFails,
         UndoPut, UndoDoc, UndoDocFails, PublishHosts, WriteRaw, PutRaw, Reconcile, WriteIngress,
         UndoneTo, Unlock
<1>3. LocksTyped'
  BY <1>1, <1>2 DEF TypeInv, LocksTyped
<1>4. Distinct(doc')
  <2>1. CASE doc' = doc
    BY <2>1 DEF TypeInv, StoresTyped, Distinct
  <2>2. CASE WriteSnapshot(o) \/ WriteDocument(o) \/ Stage(o)
    <3>1. /\ op[o].req \in ModuleRequests /\ (Allowed(doc, op[o].req) \/ op[o].req.kind = "update")
          /\ doc' = Edited(doc, op[o].req)
      BY <2>2, Locked DEF WriteSnapshot, WriteDocument, Stage
    <3> QED BY <3>1, EditedDistinct DEF ChangesInv, TypeInv, StoresTyped
  <2>3. CASE UndoDoc(o)
    <3>1. op[o].phase = "undoDoc" /\ doc' = op[o].old
      BY <2>3 DEF UndoDoc
    <3>2. Routing(op[o])
      BY <3>1, Locked DEF MutatePhases
    <3> QED BY <3>1, <3>2 DEF TypeInv, OpTyped
  <2> QED BY <2>1, <2>2, <2>3
          DEF Step, Reject, FetchUpdate, CertReady, CertTimeout, WriteMihomo, WriteMihomoFails,
              PutConfigs, PutConfigsFails, UndoFile, UndoFileFails, UndoPut, UndoDocFails,
              PublishHosts, WriteRaw, PutRaw, Reconcile, WriteIngress, stores
<1>5. file' \in Text
  <2>1. CASE file' = file
    BY <2>1 DEF TypeInv, StoresTyped
  <2>2. CASE WriteMihomo(o)
    <3>1. op[o].phase = "mihomo" /\ file' = op[o].text
      BY <2>2 DEF WriteMihomo
    <3>2. Routing(op[o])
      BY <3>1, Locked DEF MutatePhases
    <3> QED BY <3>1, <3>2, TypesSources
  <2>3. CASE UndoFile(o)
    BY <2>3 DEF UndoFile, TypeInv, OpTyped, MutatePhases
  <2>4. CASE WriteRaw(o) \/ WriteIngress(o)
    BY <2>4 DEF WriteRaw, WriteIngress, TypeInv, OpTyped
  <2> QED BY <2>1, <2>2, <2>3, <2>4
          DEF Step, Reject, FetchUpdate, WriteSnapshot, WriteDocument, Stage, CertReady,
              CertTimeout, WriteMihomoFails, PutConfigs, PutConfigsFails, UndoFileFails, UndoPut,
              UndoDoc, UndoDocFails, PublishHosts, PutRaw, Reconcile, stores
<1>6. running' \in {running, file}
  BY DEF Step, Reject, FetchUpdate, WriteSnapshot, WriteDocument, Stage, CertReady, CertTimeout,
         WriteMihomo, WriteMihomoFails, PutConfigs, PutConfigsFails, UndoFile, UndoFileFails,
         UndoPut, UndoDoc, UndoDocFails, PublishHosts, WriteRaw, PutRaw, Reconcile, WriteIngress,
         stores
<1>7. overlay' \in Seq(Modules \X Versions \X Resolvers)
  <2>1. CASE overlay' = overlay
    BY <2>1 DEF TypeInv, StoresTyped
  <2>2. CASE PublishHosts(o)
    <3>1. op[o].phase = "publish" /\ overlay' = Overlay(op[o].next)
      BY <2>2 DEF PublishHosts
    <3>2. Routing(op[o])
      BY <3>1, Locked DEF MutatePhases
    <3> QED BY <3>1, <3>2, TypesSources
  <2>3. CASE Reconcile(o)
    BY <2>3, AskedTyped DEF Reconcile, ChangesInv
  <2> QED BY <2>1, <2>2, <2>3
          DEF Step, Reject, FetchUpdate, WriteSnapshot, WriteDocument, Stage, CertReady,
              CertTimeout, WriteMihomo, WriteMihomoFails, PutConfigs, PutConfigsFails, UndoFile,
              UndoFileFails, UndoPut, UndoDoc, UndoDocFails, WriteRaw, PutRaw, WriteIngress, stores
<1>8. StoresTyped'
  BY <1>1, <1>4, <1>5, <1>6, <1>7 DEF TypeInv, StoresTyped, Distinct
<1>9. \A p \in Actors : OpTyped(op'[p])
  <2>0. \A p \in Actors : OpTyped(op[p])
    BY DEF TypeInv
  <2>1. CASE Stage(o)
    <3> DEFINE next == Edited(doc, op[o].req)
               x == [phase |-> IF NeedsCert(doc, next) THEN "cert" ELSE "mihomo",
                     req |-> op[o].req, old |-> doc, next |-> next,
                     oldText |-> file, text |-> Rendered(file, next), late |-> pub # None]
    <3>1. op' = [op EXCEPT ![o] = x]
      BY <2>1 DEF Stage
    <3>2. x.phase \in {"cert", "mihomo"} /\ x.old = doc /\ x.oldText = file
      OBVIOUS
    <3> HIDE DEF x
    <3>3. OpTyped(x)
      BY <3>2 DEF OpTyped, Phases, MutatePhases, TypeInv, StoresTyped
    <3>4. op'[o] = x /\ \A p \in Actors : p # o => op'[p] = op[p]
      BY <3>1 DEF IInv
    <3> QED BY <2>0, <3>3, <3>4
  <2>2. CASE WriteIngress(o)
    <3> DEFINE x == [phase |-> "put", req |-> op[o].req, oldText |-> file]
    <3>1. op' = [op EXCEPT ![o] = x] /\ op[o].req.kind = "quic"
      BY <2>2 DEF WriteIngress
    <3>2. x.phase = "put" /\ x.req = op[o].req /\ x.oldText = file
      OBVIOUS
    <3> HIDE DEF x
    <3>3. OpTyped(x)
      BY <3>1, <3>2 DEF OpTyped, Phases, MutatePhases, TypeInv, StoresTyped, Routing
    <3>4. op'[o] = x /\ \A p \in Actors : p # o => op'[p] = op[p]
      BY <3>1 DEF IInv
    <3> QED BY <2>0, <3>3, <3>4
  <2>3. CASE Finish(o)
    BY <2>3, TypesOfOps
  <2>4. CASE FetchUpdate(o) \/ WriteRaw(o) \/ PutRaw(o)
    <3>1. Goto(o, "fetched") \/ Goto(o, "rawPut") \/ Goto(o, "reconcile")
      BY <2>4 DEF FetchUpdate, WriteRaw, PutRaw
    <3>2. \A ph \in {"fetched", "rawPut", "reconcile"} : ph \in Phases /\ ph # "sent" /\ ph \notin MutatePhases
      BY DEF Phases, MutatePhases
    <3> QED BY <3>1, <3>2, TypesOfOps
  <2>5. CASE \/ CertReady(o) \/ CertTimeout(o) \/ WriteMihomo(o) \/ WriteMihomoFails(o)
             \/ PutConfigs(o) \/ PutConfigsFails(o) \/ UndoFile(o) \/ UndoFileFails(o) \/ UndoPut(o)
    <3>1. op[o].phase \in MutatePhases
      BY <2>5 DEF CertReady, CertTimeout, WriteMihomo, WriteMihomoFails, PutConfigs,
             PutConfigsFails, UndoFile, UndoFileFails, UndoPut, MutatePhases
    <3>2. Finish(o) \/ \E ph \in MutatePhases : Goto(o, ph)
      BY <2>5 DEF CertReady, CertTimeout, WriteMihomo, WriteMihomoFails, PutConfigs,
             PutConfigsFails, UndoFile, UndoFileFails, UndoPut, UndoneTo, MutatePhases
    <3>3. \A ph \in MutatePhases : ph \in Phases /\ ph # "sent"
      BY DEF MutatePhases, Phases
    <3> QED BY <3>1, <3>2, <3>3, TypesOfOps
  <2> QED BY <2>1, <2>2, <2>3, <2>4, <2>5
          DEF Step, Reject, WriteSnapshot, WriteDocument, UndoDoc, UndoDocFails, PublishHosts, Reconcile
<1> QED BY <1>3, <1>8, <1>9 DEF TypeInv

LEMMA TypesOther ==
  ASSUME IInv, ChangesInv, TypeInv, ReadRequest \/ PublishLeaf \/ Restart \/ UNCHANGED vars
  PROVE  TypeInv'
<1>1. CASE ReadRequest \/ PublishLeaf
  <2>1. UNCHANGED <<doc, file, running, overlay, mu, mlock, op, ops, crashes>>
    BY <1>1 DEF ReadRequest, PublishLeaf, stores
  <2>2. cert' \subseteq Modules \X Versions /\ pub' \in (SUBSET (Modules \X Versions)) \cup {None}
    <3>1. CertHosts(doc) \subseteq Modules \X Versions
      BY AskedTyped DEF ChangesInv
    <3>2. cert \subseteq Modules \X Versions /\ pub \in (SUBSET (Modules \X Versions)) \cup {None}
      BY DEF TypeInv, StoresTyped
    <3>3. /\ cert' = cert \/ (pub # None /\ cert' = pub)
          /\ pub' = None \/ pub' = CertHosts(doc)
      BY <1>1 DEF ReadRequest, PublishLeaf, stores
    <3> QED BY <3>1, <3>2, <3>3
  <2> QED BY <2>1, <2>2 DEF TypeInv, StoresTyped, LocksTyped, Distinct
<1>2. CASE Restart
  <2>1. /\ UNCHANGED <<doc, file, running, cert, pub, ops>> /\ mu' = None /\ mlock' = None
        /\ overlay' = OverlayFor(file, doc) /\ op' = [o \in Actors |-> Idle]
    BY <1>2 DEF Restart, Unlock
  <2>2. crashes' \in 0..MaxCrash
    BY <1>2, InterceptAssumption DEF Restart, TypeInv, LocksTyped
  <2>3. overlay' \in Seq(Modules \X Versions \X Resolvers)
    BY <2>1, AskedTyped DEF ChangesInv
  <2>4. OpTyped(Idle)
    BY DEF Idle, OpTyped, Phases, MutatePhases, Routing
  <2> QED BY <2>1, <2>2, <2>3, <2>4 DEF TypeInv, StoresTyped, LocksTyped, Distinct
<1>3. CASE UNCHANGED vars
  BY <1>3 DEF vars, TypeInv, StoresTyped, LocksTyped, Distinct
<1> QED BY <1>1, <1>2, <1>3

LEMMA TypesNext == IInv /\ ChangesInv /\ TypeInv /\ [Next]_vars => TypeInv'
BY TypesRequest, TypesStep, TypesOther DEF Next

LEMMA TypesHold == ChangesInv /\ TypeInv => TypeOK
<1> SUFFICES ASSUME ChangesInv, TypeInv PROVE TypeOK
  OBVIOUS
<1>1. doc \in Doc /\ doc.on \subseteq Installed(doc)
  BY DistinctDoc DEF ChangesInv, TypeInv, StoresTyped, Whole
<1>2. \A t \in {file, running} :
       /\ t.rules \in Seq(Rule) /\ t.groups \subseteq Groups
       /\ t.cred \in BOOLEAN /\ t.quic \in BOOLEAN
  BY DEF TypeInv, StoresTyped, Text
<1>3. \A o \in Actors : op[o].phase \in Phases
  BY DEF TypeInv, OpTyped
<1> QED BY <1>1, <1>2, <1>3 DEF TypeOK, TypeInv, StoresTyped, LocksTyped, ChangesInv

\* The stores stay well formed through any requests, failures and restarts: above all no
\* extension is listed twice, since an import looks for its id in the document that it
\* then edits (intercept_module_manager.go:494-503).
THEOREM InterceptTypeCorrect == Spec => []TypeOK
BY InitInv, StepInv, ChangesInit, ChangesStep, TypesInit, TypesNext, TypesHold, PTL DEF Spec
=============================================================================
