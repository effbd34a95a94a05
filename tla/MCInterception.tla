-------------------------- MODULE MCInterception --------------------------
(* Interception: the daemon's transactions, the sidecar's leaf, the scripts'     *)
(* storage, and, in the assumptions of MCDocuments, what the programs make of    *)
(* one document.  The three stateful parts share files only in ways each models  *)
(* by itself: a behavior moves the part in focus, the others rest.              *)
EXTENDS MCInterceptTx, SidecarLeaf, ExtensionStore, MCDocuments

VARIABLE focus

MCCaptureSets == {{"a"}, {"b"}}

Rests(part, still) == focus # part => still

SvInit ==
  /\ focus \in {"changes", "sidecar", "storage"}
  /\ Init /\ Rests("changes", doc = SettledDoc(TRUE, {}))
  /\ SlInit /\ Rests("sidecar", ~sdoc.on /\ sdoc.hosts = {"a"})
  /\ ExInit /\ Rests("storage", installed = {})

SvNext ==
  /\ \/ focus = "changes" /\ Next /\ UNCHANGED <<slVars, exVars>>
     \/ focus = "sidecar" /\ SlNext /\ UNCHANGED <<vars, exVars>>
     \/ focus = "storage" /\ ExNext /\ UNCHANGED <<vars, slVars>>
  /\ UNCHANGED focus

svVars == <<focus, vars, slVars, exVars>>

\* The fairness of InterceptTx and of SidecarLeaf.
SvFairness ==
  /\ \A o \in Actors : WF_svVars(focus = "changes" /\ Step(o) /\ UNCHANGED <<focus, slVars, exVars>>)
  /\ WF_svVars(focus = "changes" /\ ReadRequest /\ UNCHANGED <<focus, slVars, exVars>>)
  /\ WF_svVars(focus = "changes" /\ PublishLeaf /\ UNCHANGED <<focus, slVars, exVars>>)
  /\ WF_svVars(focus = "sidecar" /\ SlWorking /\ UNCHANGED <<focus, vars, exVars>>)

SvSpec == SvInit /\ [][SvNext]_svVars /\ SvFairness

PartsTypeOK == TypeOK /\ SlTypeOK /\ ExTypeOK

\* Every request to the daemon ends and gives back its locks, the certificate ends up
\* matching the document whatever was rolled back under it, and the sidecar comes to work
\* with the document as it is, or exits, unless it took that document for the one before
\* when it started (intercept_module_manager.go:193-280,
\* scripts/intercept-cert-renew.sh:337-353, docs/architecture.md:661-666, config.go:1309-1318).
InterceptionSettles == RequestsEnd /\ CertConverges /\ SidecarFollows
=============================================================================
