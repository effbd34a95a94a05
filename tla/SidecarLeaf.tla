---------------------------- MODULE SidecarLeaf ----------------------------
(***************************************************************************)
(* The interception sidecar (cmd/5gpn-intercept): how it follows the document *)
(* of extensions (configStore in config.go), which leaf it serves in a TLS     *)
(* handshake (cert.go), and when it runs (main.go).  Around it the daemon       *)
(* replaces the document, and the helper publishes a leaf for it, one rename     *)
(* after the other: the chain, the key, the state that routes wait for.        *)
(* Files are told apart by their modification times: the version of a document,   *)
(* the issue of a leaf.                                                       *)
(***************************************************************************)
EXTENDS Naturals, FiniteSets

CONSTANTS
  CaptureSets,  \* the sets of hosts an accepted document may capture, {} for none
  MaxHands,     \* bound: handshakes in a behavior
  MaxDocs,      \* bound: replacements of the document
  MaxTurns,    \* bound: documents that turn MITM off or are not accepted, and kills
  Unset

Handshakes == 1..MaxHands

ASSUME LeafAssumption == MaxHands \in Nat /\ Unset \notin Handshakes

VARIABLES
  sdoc,      \* config.json: [ver, hosts, on, valid]
  chain, pkey,  \* fullchain.pem: [issue, covers]; privkey.pem: its issue
  state,     \* cert-state: the hosts of the last leaf that was published
  helper,    \* intercept-cert-renew.sh
  proc,      \* the process: "down", "loading", "starting", "up"
  conf,      \* configStore: the document in use, and the time it is known by
  leaf,      \* certificateStore: the leaf in use and the times it is known by
  storeMu,   \* certificateStore.mu
  hand,      \* handshakes
  slEvents,  \* such documents and kills so far
  missed     \* history: the document placed between this process's read of its first one
             \* and of the time, by its version; 0 for none

slVars == <<sdoc, chain, pkey, state, helper, proc, conf, leaf, storeMu, hand, slEvents, missed>>
files == <<chain, pkey, state, helper>>
inner == <<proc, conf, leaf, storeMu, missed>>

\* What the sidecar works for: MITM is on and an extension is enabled.
HasWork(d) == d.on /\ d.hosts # {}

NoHand == [pc |-> "new", host |-> Unset, steady |-> FALSE, want |-> {}, at |-> [chain |-> 0, key |-> 0],
           got |-> [issue |-> 0, covers |-> {}], covered |-> FALSE]

\* A handshake that is over; what became of it is kept if it was steady.
Ended(steady, pc, covered) ==
  IF steady THEN [NoHand EXCEPT !.pc = pc, !.steady = TRUE, !.covered = covered]
  ELSE [NoHand EXCEPT !.pc = "over"]

SlInit ==
  /\ sdoc \in {[ver |-> 1, hosts |-> s, on |-> o, valid |-> TRUE] : s \in CaptureSets, o \in BOOLEAN}
  /\ chain = [issue |-> 1, covers |-> sdoc.hosts] /\ pkey = 1 /\ state = sdoc.hosts
  /\ helper = [pc |-> "idle", hosts |-> {}]
  /\ proc = "down" /\ conf = Unset /\ leaf = Unset /\ storeMu = Unset
  /\ hand = [h \in Handshakes |-> NoHand]
  /\ slEvents = 0 /\ missed = 0

----------------------------------------------------------------------------
(* The files.                                                               *)

\* A leaf for the document is published, complete: the hosts are routed.
Published == /\ sdoc.valid /\ HasWork(sdoc) /\ state = sdoc.hosts
             /\ chain = [issue |-> pkey, covers |-> state]

\* Handshakes that have seen more than one state of the files promise nothing.
Unsteady ==
  hand' = [h \in Handshakes |-> IF hand[h].pc \in {"served", "refused"} THEN Ended(FALSE, "over", FALSE)
                                ELSE [hand[h] EXCEPT !.steady = FALSE]]

\* The daemon replaces the document with one it accepted; from elsewhere may come one
\* the sidecar does not accept.
ReplaceDocument ==
  /\ sdoc.ver <= MaxDocs
  /\ \E s \in CaptureSets, o, v \in BOOLEAN :
       /\ ~(o /\ v) => slEvents < MaxTurns
       /\ slEvents' = IF o /\ v THEN slEvents ELSE slEvents + 1
       /\ sdoc' = [ver |-> sdoc.ver + 1, hosts |-> s, on |-> o, valid |-> v]
  /\ missed' = IF proc = "loading" THEN sdoc'.ver ELSE missed
  /\ Unsteady
  /\ UNCHANGED <<files, proc, conf, leaf, storeMu>>

\* The helper reads the document's hosts and renews when the leaf is not for them, then
\* installs the files one by one.
RenewLeaf ==
  /\ \/ /\ helper.pc = "idle" /\ sdoc.valid /\ sdoc.hosts # {} /\ state # sdoc.hosts
        /\ helper' = [pc |-> "chain", hosts |-> sdoc.hosts]
        /\ UNCHANGED <<chain, pkey, state>>
     \/ /\ helper.pc = "chain" /\ helper' = [helper EXCEPT !.pc = "key"]
        /\ chain' = [issue |-> chain.issue + 1, covers |-> helper.hosts]
        /\ UNCHANGED <<pkey, state>>
     \/ /\ helper.pc = "key" /\ helper' = [helper EXCEPT !.pc = "state"]
        /\ pkey' = chain.issue
        /\ UNCHANGED <<chain, state>>
     \/ /\ helper.pc = "state" /\ helper' = [pc |-> "idle", hosts |-> {}]
        /\ state' = helper.hosts
        /\ UNCHANGED <<chain, pkey>>
  /\ Unsteady
  /\ UNCHANGED <<sdoc, inner, slEvents>>

----------------------------------------------------------------------------
(* The configuration.                                                       *)

\* configStore.Current: a new modification time is looked at; a document that is not
\* accepted leaves the last one in use, known by its own time.
CurrentConfig == IF sdoc.ver # conf.time /\ sdoc.valid THEN [doc |-> sdoc, time |-> sdoc.ver] ELSE conf

\* newConfigStore: the document is read, then its time; one that is placed in between is
\* taken for the one that was read.  The unit starts the process for a document that
\* --check-enabled takes, after a run of the helper that it requires.
LoadConfig ==
  /\ proc = "down" /\ sdoc.valid /\ HasWork(sdoc)
  /\ helper.pc = "idle" /\ state = sdoc.hosts
  /\ proc' = "loading" /\ conf' = [doc |-> sdoc, time |-> 0]
  /\ UNCHANGED <<sdoc, files, leaf, storeMu, hand, slEvents, missed>>

StatConfig ==
  /\ proc = "loading"
  /\ proc' = "starting" /\ conf' = [conf EXCEPT !.time = sdoc.ver]
  /\ UNCHANGED <<sdoc, files, leaf, storeMu, hand, slEvents, missed>>

\* validateInterceptLeaf, for the hosts of a document.
LeafFor(d, c) == d.hosts \subseteq c.covers

\* Defect: the time of the document is read once more, after the rest of the start.
StartUpTimedLate ==
  /\ proc = "starting" /\ conf' = [conf EXCEPT !.time = sdoc.ver]
  /\ IF HasWork(conf'.doc) /\ chain.issue = pkey /\ LeafFor(conf'.doc, chain)
     THEN /\ proc' = "up" /\ leaf' = [covers |-> chain.covers, chain |-> chain.issue, key |-> pkey]
          /\ UNCHANGED missed
     ELSE proc' = "down" /\ leaf' = Unset /\ missed' = 0
  /\ UNCHANGED <<sdoc, files, storeMu, hand, slEvents>>

\* The rest of main: the first leaf, without which the sidecar does not run.
StartUp ==
  /\ proc = "starting" /\ conf' = CurrentConfig
  /\ IF HasWork(conf'.doc) /\ chain.issue = pkey /\ LeafFor(conf'.doc, chain)
     THEN /\ proc' = "up" /\ leaf' = [covers |-> chain.covers, chain |-> chain.issue, key |-> pkey]
          /\ UNCHANGED missed
     ELSE proc' = "down" /\ leaf' = Unset /\ missed' = 0
  /\ UNCHANGED <<sdoc, files, storeMu, hand, slEvents>>

\* The process is gone, with everything it was doing.
End ==
  /\ proc' = "down" /\ conf' = Unset /\ leaf' = Unset /\ storeMu' = Unset /\ missed' = 0
  /\ hand' = [h \in Handshakes |->
                IF hand[h].pc \in {"new", "served", "refused"} THEN hand[h] ELSE Ended(FALSE, "over", FALSE)]

\* stopWhenMITMDisabled, at a tick.
Poll ==
  /\ proc = "up"
  /\ IF HasWork(CurrentConfig.doc)
     THEN conf' = CurrentConfig /\ UNCHANGED <<proc, leaf, storeMu, hand, missed>>
     ELSE End
  /\ UNCHANGED <<sdoc, files, slEvents>>

Killed ==
  /\ proc # "down" /\ slEvents < MaxTurns /\ slEvents' = slEvents + 1
  /\ End
  /\ UNCHANGED <<sdoc, files>>

----------------------------------------------------------------------------
(* A handshake.                                                             *)

Goes(h, pc) == hand' = [hand EXCEPT ![h].pc = pc]

\* GetCertificate: the host must be one of the document's.
Hello(h) ==
  /\ proc = "up" /\ hand[h].pc = "new" /\ conf' = CurrentConfig
  /\ \A g \in Handshakes : g < h => hand[g].pc # "new"
  /\ \E host \in UNION CaptureSets :
       LET steady == Published /\ host \in sdoc.hosts /\ sdoc.ver # missed IN
       hand' = [hand EXCEPT ![h] =
         IF conf'.doc.on /\ host \in conf'.doc.hosts
         THEN [NoHand EXCEPT !.host = host, !.steady = steady, !.pc = "lock"]
         ELSE Ended(steady, "refused", FALSE)]
  /\ UNCHANGED <<sdoc, files, proc, leaf, storeMu, slEvents, missed>>

\* currentCertificate: the mutex, the document again, and the times of the two files.
LockLeaf(h) ==
  /\ hand[h].pc = "lock" /\ storeMu = Unset /\ storeMu' = h /\ conf' = CurrentConfig
  /\ hand' = [hand EXCEPT ![h].pc = "stat", ![h].want = conf'.doc.hosts]
  /\ UNCHANGED <<sdoc, files, proc, leaf, slEvents, missed>>

StatChain(h) ==
  /\ hand[h].pc = "stat" /\ hand' = [hand EXCEPT ![h].pc = "statKey", ![h].at.chain = chain.issue]
  /\ UNCHANGED <<sdoc, files, inner, slEvents>>

Serve(h, l) ==
  /\ hand' = [hand EXCEPT ![h] = Ended(hand[h].steady, "served", hand[h].host \in l.covers)]
  /\ leaf' = l /\ storeMu' = Unset

\* The leaf in use is of those times: it is served as it is.
StatKey(h) ==
  /\ hand[h].pc = "statKey"
  /\ IF leaf.chain = hand[h].at.chain /\ leaf.key = pkey
     THEN Serve(h, leaf)
     ELSE /\ hand' = [hand EXCEPT ![h].pc = "read", ![h].at.key = pkey]
          /\ UNCHANGED <<leaf, storeMu>>
  /\ UNCHANGED <<sdoc, files, proc, conf, slEvents, missed>>

ReadChain(h) ==
  /\ hand[h].pc = "read" /\ hand' = [hand EXCEPT ![h].pc = "readKey", ![h].got = chain]
  /\ UNCHANGED <<sdoc, files, inner, slEvents>>

\* Defect: the times are recorded for a leaf that is not taken, too.
KeepWithTimes(h) == [leaf EXCEPT !.chain = hand[h].at.chain, !.key = hand[h].at.key]

\* staleOrError: the leaf in use stays, and its times.
KeepLeaf(h) == leaf

\* A pair that does not match, or a leaf that does not cover the document, is not taken.
ReadKey(h) ==
  /\ hand[h].pc = "readKey"
  /\ IF hand[h].got.issue = pkey /\ hand[h].want \subseteq hand[h].got.covers
     THEN Serve(h, [covers |-> hand[h].got.covers, chain |-> hand[h].at.chain, key |-> hand[h].at.key])
     ELSE Serve(h, KeepLeaf(h))
  /\ UNCHANGED <<sdoc, files, proc, conf, slEvents, missed>>

HandStep(h) ==
  LockLeaf(h) \/ StatChain(h) \/ StatKey(h) \/ ReadChain(h) \/ ReadKey(h)

SlWorking ==
  \/ \E h \in Handshakes : HandStep(h)
  \/ RenewLeaf \/ LoadConfig \/ StatConfig \/ StartUp \/ Poll

SlNext ==
  \/ SlWorking
  \/ \E h \in Handshakes : Hello(h)
  \/ ReplaceDocument \/ Killed

\* The ticks and the path units go on; nobody has to connect or to change anything.
SlSpec == SlInit /\ [][SlNext]_slVars /\ WF_slVars(SlWorking)

----------------------------------------------------------------------------
(* Properties.                                                              *)

\* A sidecar that is up has a leaf and an accepted document; whoever reads the files has
\* the leaf's mutex.
SlTypeOK ==
  /\ proc \in {"down", "loading", "starting", "up"}
  /\ proc = "up" =>
       /\ leaf \in [covers : SUBSET UNION CaptureSets, chain : Nat, key : Nat]
       /\ conf.doc.valid
  /\ storeMu \in Handshakes \cup {Unset}
  /\ \A h \in Handshakes : hand[h].pc \in {"stat", "statKey", "read", "readKey"} => storeMu = h

\* Once routes for a document may be there, its hosts are served a leaf that covers them:
\* a handshake that saw one state of the files only is never refused and never gets the
\* leaf of before, whatever reloads were under way and however the helper's renames fell
\* between earlier reads (cert.go:45-92).  Excepted is a document that the process takes
\* for the one before it (missed, config.go:1309-1318): its hosts may be refused.
RoutedHostCovered ==
  \A h \in Handshakes :
    hand[h].steady =>
      /\ hand[h].pc # "refused"
      /\ hand[h].pc = "served" => hand[h].covered

\* "A running sidecar exits cleanly when the master turns off" and otherwise comes to
\* work with the document as it is (docs/architecture.md:661-666), with one exception
\* against that text: a document placed while the process was between reading the one
\* before and its time (config.go:1309-1318) is ignored as long as it is in place and the
\* process lives.  The next document and the next process are followed again.
SidecarFollows ==
  <>[](sdoc.valid /\ sdoc.ver # missed =>
         IF HasWork(sdoc) THEN proc = "up" /\ conf.doc = sdoc ELSE proc = "down")
=============================================================================
