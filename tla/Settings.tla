------------------------------ MODULE Settings ------------------------------
(***************************************************************************)
(* The upstream groups and the China group's client subnet (ECS) as the      *)
(* operator changes them at run time: PUT /api/upstreams builds new groups,   *)
(* carries the subnet of the live China group over, swaps the groups in and    *)
(* saves upstreams.json; PUT /api/ecs sets the subnet of the China group it    *)
(* finds live and saves ecs.json.  A save that fails leaves the change live     *)
(* and reports so.  At start the two files, when they are valid, win over      *)
(* dns.env.  The calls share no lock: MaxBusy bounds how many the clients of   *)
(* the API have under way at once.                                            *)
(***************************************************************************)
EXTENDS Naturals, Sequences, FiniteSets

CONSTANTS
  UpstreamAsks,   \* the bodies of PUT /api/upstreams: [china, trust], lists of kinds of entry
  SubnetAsks,     \* the bodies of PUT /api/ecs: "off", "host", "net", "wide" or "garbage"
  EnvUpstreams,   \* DNS_CHINA and DNS_TRUST
  EnvSubnet,      \* DNS_CHINA_ECS, parsed
  MaxCalls,       \* bound: calls in a behavior
  MaxBusy,        \* calls under way at once
  MaxStarts,      \* bound: restarts in a behavior
  NoFile          \* the override file does not exist

VARIABLES
  groups,    \* the upstream groups built so far, by the call that built them (0: the start)
  inUse,     \* the groups the handler exchanges with
  calls,     \* what each call is and how far it got
  upsFile,   \* upstreams.json
  ecsFile,   \* ecs.json
  told,      \* what the replies promised: the settings that are live, those that are kept
  starts     \* restarts so far

stVars == <<groups, inUse, calls, upsFile, ecsFile, told, starts>>

Puts == 1..MaxCalls
Subnets == {"off", "net", "wide"}
Bad == "invalid"

(***************************************************************************)
(* Validation.  An entry is blank, an IPv4 address with or without a port     *)
(* ("ip"), a server name with such an address ("dot"), or a bare name ("name").*)
(***************************************************************************)
Trimmed(list) == SelectSeq(list, LAMBDA e : e # "blank")
Normalized(ask) == [china |-> Trimmed(ask.china), trust |-> Trimmed(ask.trust)]

EntriesIn(list) == {list[i] : i \in DOMAIN list}

ValidUpstreams(ups) ==
  /\ ups.china # <<>> /\ ups.trust # <<>>
  /\ EntriesIn(ups.china) \subseteq {"ip"}
  /\ EntriesIn(ups.trust) \subseteq {"ip", "dot"}

\* A bare address stands for the network around it; a network is kept as written.
ParseECS(raw) ==
  CASE raw = "host" -> "net"
    [] raw \in Subnets -> raw
    [] OTHER -> Bad

\* What the start reads of the two files.
LoadUpstreamsFile == IF upsFile # NoFile /\ ValidUpstreams(upsFile) THEN upsFile ELSE EnvUpstreams
LoadECS == IF ecsFile # NoFile /\ ParseECS(ecsFile) # Bad THEN ParseECS(ecsFile) ELSE EnvSubnet

\* A body is not the absence of a file.
ASSUME SettingsAssumption ==
  /\ MaxCalls \in Nat /\ EnvSubnet \in Subnets
  /\ \A ask \in UpstreamAsks : ask # NoFile /\ Normalized(ask) # NoFile
  /\ NoFile \notin SubnetAsks \cup Subnets

Unbuilt == [ups |-> NoFile, ecs |-> "off"]
NewCall == [kind |-> "none", at |-> "new", ups |-> NoFile, ecs |-> "off", group |-> 0]

StInit ==
  /\ upsFile \in UpstreamAsks \cup {NoFile} /\ ecsFile \in SubnetAsks \cup {NoFile}
  /\ groups = [c \in 0..MaxCalls |->
                 IF c = 0 THEN [ups |-> LoadUpstreamsFile, ecs |-> LoadECS] ELSE Unbuilt]
  /\ inUse = 0
  /\ calls = [c \in Puts |-> NewCall]
  /\ told = [live |-> groups[0], kept |-> groups[0]]
  /\ starts = 0

Busy == {c \in Puts : calls[c].at \notin {"new", "done"}}

Accept(c, call) ==
  /\ calls[c].at = "new" /\ Cardinality(Busy) < MaxBusy
  /\ \A d \in Puts : d < c => calls[d].at # "new"
  /\ calls' = [calls EXCEPT ![c] = call]

To(c, at) == calls' = [calls EXCEPT ![c].at = at]

(***************************************************************************)
(* PUT /api/upstreams.                                                       *)
(***************************************************************************)
\* An invalid body is refused before anything is built.
SetUpstreams(c, ask) ==
  LET ups == Normalized(ask) IN
  /\ Accept(c, [kind |-> "upstreams", at |-> IF ValidUpstreams(ups) THEN "building" ELSE "done",
                ups |-> ups, ecs |-> "off", group |-> 0])
  /\ UNCHANGED <<groups, inUse, upsFile, ecsFile, told, starts>>

\* The new groups are built; the China group that is live is looked up.
BuildGroups(c) ==
  /\ calls[c].kind = "upstreams" /\ calls[c].at = "building"
  /\ groups' = [groups EXCEPT ![c] = [ups |-> calls[c].ups, ecs |-> "off"]]
  /\ calls' = [calls EXCEPT ![c].at = "carrying", ![c].group = inUse]
  /\ UNCHANGED <<inUse, upsFile, ecsFile, told, starts>>

\* Defect: the swap does not carry the subnet.
CarryNothing(c) ==
  /\ calls[c].at = "carrying"
  /\ To(c, "swapping")
  /\ UNCHANGED <<groups, inUse, upsFile, ecsFile, told, starts>>

\* The subnet of the group that was live is carried onto the new one.
Carry(c) ==
  /\ calls[c].at = "carrying"
  /\ groups' = [groups EXCEPT ![c].ecs = groups[calls[c].group].ecs]
  /\ To(c, "swapping")
  /\ UNCHANGED <<inUse, upsFile, ecsFile, told, starts>>

Swap(c) ==
  /\ calls[c].at = "swapping"
  /\ inUse' = c
  /\ To(c, "savingUpstreams")
  /\ UNCHANGED <<groups, upsFile, ecsFile, told, starts>>

\* The file is replaced by a rename, or stays as it was; the reply says which.
SaveUpstreams(c) ==
  /\ calls[c].at = "savingUpstreams"
  /\ \/ /\ upsFile' = calls[c].ups
        /\ told' = [told EXCEPT !.live.ups = calls[c].ups, !.kept.ups = calls[c].ups]
     \/ /\ told' = [told EXCEPT !.live.ups = calls[c].ups]
        /\ UNCHANGED upsFile
  /\ To(c, "done")
  /\ UNCHANGED <<groups, inUse, ecsFile, starts>>

(***************************************************************************)
(* PUT /api/ecs.                                                             *)
(***************************************************************************)
SetChinaECS(c, raw) ==
  LET ecs == ParseECS(raw) IN
  /\ Accept(c, IF ecs = Bad THEN [NewCall EXCEPT !.at = "done"]
               ELSE [kind |-> "ecs", at |-> "setting", ups |-> NoFile, ecs |-> ecs,
                     group |-> inUse])
  /\ UNCHANGED <<groups, inUse, upsFile, ecsFile, told, starts>>

SetGroupECS(c) ==
  /\ calls[c].at = "setting"
  /\ groups' = [groups EXCEPT ![calls[c].group].ecs = calls[c].ecs]
  /\ To(c, "savingECS")
  /\ UNCHANGED <<inUse, upsFile, ecsFile, told, starts>>

SaveECS(c) ==
  /\ calls[c].at = "savingECS"
  /\ \/ /\ ecsFile' = calls[c].ecs
        /\ told' = [told EXCEPT !.live.ecs = calls[c].ecs, !.kept.ecs = calls[c].ecs]
     \/ /\ told' = [told EXCEPT !.live.ecs = calls[c].ecs]
        /\ UNCHANGED ecsFile
  /\ To(c, "done")
  /\ UNCHANGED <<groups, inUse, upsFile, starts>>

\* The daemon stops, whatever it was doing, and starts from the files.
RestartDaemon ==
  /\ starts < MaxStarts
  /\ starts' = starts + 1
  /\ groups' = [c \in 0..MaxCalls |->
                  IF c = 0 THEN [ups |-> LoadUpstreamsFile, ecs |-> LoadECS] ELSE Unbuilt]
  /\ inUse' = 0
  /\ calls' = [c \in Puts |->
                 IF calls[c].at = "new" THEN calls[c]
                 ELSE [calls[c] EXCEPT !.at = "done", !.group = 0]]
  /\ told' = [told EXCEPT !.live = told.kept]
  /\ UNCHANGED <<upsFile, ecsFile>>

StNext ==
  \/ \E c \in Puts :
       \/ \E ask \in UpstreamAsks : SetUpstreams(c, ask)
       \/ \E raw \in SubnetAsks : SetChinaECS(c, raw)
       \/ BuildGroups(c) \/ Carry(c) \/ Swap(c) \/ SaveUpstreams(c)
       \/ SetGroupECS(c) \/ SaveECS(c)
  \/ RestartDaemon

StSpec == StInit /\ [][StNext]_stVars

-----------------------------------------------------------------------------
\* The live groups are built, and every call holds a group that is.
StTypeOK ==
  /\ groups[inUse].ups # NoFile
  /\ \A c \in Puts : groups[calls[c].group].ups # NoFile
  /\ ParseECS(told.live.ecs) = told.live.ecs /\ ParseECS(groups[inUse].ecs) = groups[inUse].ecs

\* With no call under way, the live groups are the ones the replies announced, with
\* the subnet the replies announced, whatever order the two kinds of call came in
\* (main.go:240-261 carries the subnet over a swap), whichever of their saves failed
\* (upstreams.go:65, ecs.go:159), and across restarts, which bring back what was kept.
SettingsHold == Busy = {} => groups[inUse] = told.live

\* An upstream swap must not silently drop an operator-set ECS override
\* (main.go:243-244): with no call under way, the China group in use has the
\* subnet that the one PUT /api/ecs there was announced (controller.go:229).
EcsNotDropped ==
  Busy = {} /\ Cardinality({c \in Puts : calls[c].kind = "ecs"}) = 1
    => groups[inUse].ecs = told.live.ecs
=============================================================================
