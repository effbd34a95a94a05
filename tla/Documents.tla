------------------------------ MODULE Documents ------------------------------
(***************************************************************************)
(* What a document of extensions may be.  Three pieces of code decide it: the  *)
(* daemon's own check (validateInterceptDocument), the sidecar's when it loads    *)
(* one (Config.Validate), which the daemon also has run on every document it is    *)
(* about to commit (5gpn-intercept --check-config), and the root helper's when      *)
(* it asks for a leaf (ValidateCertificateRequest).                                  *)
(* Each decision is translated from its own code.  Names are sequences of labels; *)
(* texts whose bytes do not matter are a length or a kind; a list whose order the *)
(* code ignores is a set, and the field sorted names the lists that are in order. *)
(***************************************************************************)
EXTENDS Integers, Sequences, FiniteSets

LOCAL INSTANCE Functions

CONSTANTS
  Words,      \* what may stand between two dots of a name
  Labels,     \* the words that are labels: letters, digits, inner hyphens
  Tlds,       \* the labels of letters only
  Local,      \* the label "local"
  Empty,      \* the empty word: a name that ends with a dot has it last
  MaxLabels,  \* names have at most 253 bytes
  Ids,        \* the identifiers that an extension, a setting or an action may have
  Undeclared

ASSUME WordsAssumption ==
  /\ Tlds \subseteq Labels /\ Labels \subseteq Words /\ Local \in Tlds
  /\ Empty \in Words \ Labels /\ MaxLabels \in Nat

----------------------------------------------------------------------------
(* Names, and patterns [wild, labels] of names.                              *)

Untailed(n) == IF n # <<>> /\ n[Len(n)] = Empty THEN SubSeq(n, 1, Len(n) - 1) ELSE n

LabelsOnly(n) == Len(n) \in 2..MaxLabels /\ \A i \in 1..Len(n) : n[i] \in Labels

\* A whole label more than s stands before s.
Under(s, n) == Len(s) < Len(n) /\ \A i \in 1..Len(s) : s[i] = n[Len(n) - Len(s) + i]

IsValidDomain(n) == LabelsOnly(n) /\ n[Len(n)] \in Tlds
NotLocal(n) == n[Len(n)] # Local

Matches(p, host) == IF p.wild THEN Under(p.labels, host) ELSE host = p.labels
Covers(allowed, candidate) ==
  allowed = candidate \/ (allowed.wild /\ Under(allowed.labels, candidate.labels))
CoveredBy(patterns, candidate) == \E p \in patterns : Covers(p, candidate)

\* The daemon takes one dot off the end; the sidecar does not, and takes any labels.
DaemonPattern(p) == IsValidDomain(Untailed(p.labels))
NormalizePattern(p) == [p EXCEPT !.labels = Untailed(p.labels)]
SidecarPattern(p) == LabelsOnly(p.labels)

\* A target [ip, public, wild, port, labels]: a public IPv4 address or a name; the sidecar
\* takes a port off it.
DaemonTarget(t) ==
  IF t.ip THEN t.public /\ ~t.port
  ELSE ~t.wild /\ ~t.port /\ IsValidDomain(Untailed(t.labels)) /\ NotLocal(Untailed(t.labels))
SidecarTarget(t) ==
  IF t.ip THEN t.public
  ELSE ~t.wild /\ LabelsOnly(Untailed(t.labels)) /\ NotLocal(Untailed(t.labels))

\* An origin [scheme, ip, labels, port, rest] as it is spelt: it must be spelt as the
\* parser would spell it, with no port that is the scheme's own.
OwnPort(o) == IF o.scheme = "https" THEN 443 ELSE 80
SpeltPlainly(o) ==
  /\ o.scheme \in {"http", "https"} /\ o.rest = {} /\ ~o.ip
  /\ o.port # Undeclared => o.port \in 1..65535 /\ o.port # OwnPort(o)
DaemonOrigin(o) == SpeltPlainly(o) /\ IsValidDomain(o.labels) /\ NotLocal(o.labels)
SidecarOrigin(o) == SpeltPlainly(o) /\ LabelsOnly(o.labels) /\ NotLocal(o.labels)

----------------------------------------------------------------------------
(* The limits of the two programs, as each writes them.                      *)

KiB == 1024
MiB == 1024 * KiB

DaemonLimits ==
  [modules |-> 64, hosts |-> 512, certificate |-> 512, origins |-> 256, actions |-> 256,
   settings |-> 128, version |-> 1..64, name |-> 1..128, description |-> 0..1024,
   source |-> 1..2 * MiB, url |-> 0..4096, group |-> 0..128, value |-> 64 * KiB,
   script |-> 1..MiB, scripts |-> 8 * MiB, routes |-> 256,
   activeRoutes |-> 2048, keywords |-> 8, matchHosts |-> 512, label |-> 0..128, about |-> 0..512]

SidecarLimits ==
  [modules |-> 64, hosts |-> 512, certificate |-> 512, origins |-> 256, actions |-> 256,
   settings |-> 128, version |-> 1..64, name |-> 1..128, description |-> 0..1024,
   source |-> 1..2 * MiB, url |-> 0..4096, group |-> 0..128, value |-> 64 * KiB,
   script |-> 1..MiB, scripts |-> 8 * MiB, routes |-> 256,
   activeRoutes |-> 2048, keywords |-> 8, matchHosts |-> 512, label |-> 0..128, about |-> 0..512]

Sized(l, size) == \A f \in DOMAIN size : size[f] \in l[f]

Remote(url) == url \in {"none", "https"}

----------------------------------------------------------------------------
(* Settings and routing rules: the same checks in both, by their limits.     *)

\* validateInterceptSettingValue
ValidValue(l, s, v, complete) ==
  IF v.kind \in {"none", "null"} THEN ~complete
  ELSE /\ v.size <= l.value
       /\ s.type \in {"text", "select"} =>
            /\ v.kind = "string" /\ v.length <= 4096 /\ (complete => ~v.blank)
            /\ (s.type = "select" => v.text \in s.options \cup {Undeclared})
       /\ s.type = "boolean" => v.kind = "boolean"
       /\ s.type = "number" =>
            /\ v.kind = "number"
            /\ (s.min # Undeclared => v.number >= s.min)
            /\ (s.max # Undeclared => v.number <= s.max)
       /\ s.type = "location" =>
            /\ v.kind = "location" /\ v.accuracy \in 1..100000
            /\ ((v.lon = Undeclared) <=> (v.lat = Undeclared))
            /\ (v.lon # Undeclared => v.lon \in -180..180 /\ v.lat \in -90..90)
            /\ (complete => v.lon # Undeclared)

\* validateInterceptSettingDefinition
ValidSetting(l, s) ==
  /\ s.type \in {"text", "select", "boolean", "number", "location"} /\ Sized(l, s.size)
  /\ s.type # "number" => s.min = Undeclared /\ s.max = Undeclared
  /\ s.min # Undeclared /\ s.max # Undeclared => s.min <= s.max
  /\ IF s.type = "select" THEN Cardinality(s.options) \in 1..64 /\ s.optionSizes \subseteq 1..256 ELSE s.options = {}
  /\ ValidValue(l, s, s.default, FALSE) /\ ValidValue(l, s, s.value, FALSE)

SettingReady(l, s) == s.required => ValidValue(l, s, s.value, TRUE)

\* validateInterceptModuleSettings; an extension that is enabled has its required ones.
ValidSettings(l, m) ==
  /\ Len(m.settings) <= l.settings
  /\ IsInjective([i \in DOMAIN m.settings |-> m.settings[i].key])
  /\ \A i \in DOMAIN m.settings :
       /\ m.settings[i].key \in Ids /\ ValidSetting(l, m.settings[i])
       /\ m.enabled => SettingReady(l, m.settings[i])

\* validateInterceptRoutingRule: one subject, or keywords; keywords come in order, and a
\* single one is among those that must all occur.
ValidRoute(l, r) ==
  /\ r.action \in {"reject", "direct"} /\ r.network \in {"none", "tcp", "udp"}
  /\ r.subject = "cidr" => r.canonical /\ r.anyOf = {} /\ r.allOf = {}
  /\ r.subject \in {"domain", "suffix"} => IsValidDomain(r.name)
  /\ r.subject \in {"none", "domain", "suffix", "cidr"}
  /\ r.subject = "none" => r.anyOf \cup r.allOf # {}
  /\ r.sorted /\ r.anyOf \cap r.allOf = {} /\ (r.anyOf \cup r.allOf) \subseteq Words
  /\ Cardinality(r.anyOf) \in (0..l.keywords) \ {1} /\ Cardinality(r.allOf) <= l.keywords
  /\ r.port # Undeclared => r.port \in 1..65535

ValidRoutes(l, m) ==
  /\ Len(m.routes) <= l.routes /\ IsInjective(m.routes)
  /\ \A i \in DOMAIN m.routes : ValidRoute(l, m.routes[i])

\* What the two agree on in the binding to a group.
ValidGroup(l, m) ==
  /\ m.group \in {"none", "canonical"} /\ m.size.group \in l.group
  /\ m.enabled /\ m.groupRequired => m.group # "none"

\* The rest of an action: its limits, and a match that its phase allows.
ValidAction(l, r) ==
  /\ r.id \in Ids /\ r.phase \in {"request", "response"} /\ Remote(r.url) /\ r.digest
  /\ r.urlSize \in l.url /\ r.size \in l.script
  /\ r.bodyMode \in {"none", "text", "binary"}
  /\ r.timeout \in 50..30000 /\ r.maxBody \in 1024..(64 * MiB)
  /\ Cardinality(r.hosts) \in 1..l.matchHosts
  /\ r.schemes # {} /\ r.schemes \subseteq {"http", "https"}
  /\ r.methods /\ r.regex.valid /\ r.regex.size # 0
  /\ (r.phase = "request" => r.statuses = {}) /\ r.statuses \subseteq 100..599

\* The sum of size[i], i <= n.
Total(size, n) == LET sum[i \in 0..n] == IF i = 0 THEN 0 ELSE sum[i - 1] + size[i] IN sum[n]

\* Everything of an extension but its hosts, mappings and origins.
ValidRest(l, m) ==
  /\ m.id \in Ids /\ Sized(l, m.size) /\ Remote(m.url) /\ m.digest /\ m.dated
  /\ Cardinality(m.hosts) \in 1..l.hosts /\ "hosts" \in m.sorted
  /\ m.dns \in {"trust", "china"}
  /\ Len(m.scripts) + Len(m.mappings) \in 1..l.actions
  /\ ValidSettings(l, m) /\ ValidRoutes(l, m) /\ ValidGroup(l, m)
  /\ IsInjective([i \in DOMAIN m.scripts |-> m.scripts[i].id])
  /\ \A i \in DOMAIN m.scripts : ValidAction(l, m.scripts[i])
  /\ Total([i \in DOMAIN m.scripts |-> m.scripts[i].size], Len(m.scripts)) <= l.scripts
  /\ IsInjective([i \in DOMAIN m.mappings |-> m.mappings[i].pattern])
  /\ Cardinality(m.origins) <= l.origins /\ "origins" \in m.sorted

----------------------------------------------------------------------------
(* The documents.                                                           *)

Enabled(d) == {i \in DOMAIN d.modules : d.modules[i].enabled}
CertificateHosts(d) == UNION {d.modules[i].hosts : i \in Enabled(d)}
ActiveRoutes(d) ==
  Total([i \in DOMAIN d.modules |-> IF i \in Enabled(d) THEN Len(d.modules[i].routes) ELSE 0],
        Len(d.modules))

\* validateInterceptExecutionOrder: every extension once.
ValidOrder(d) ==
  /\ d.ordered /\ Len(d.order) = Len(d.modules) /\ IsInjective(d.order)
  /\ \A i \in DOMAIN d.order : \E j \in DOMAIN d.modules : d.modules[j].id = d.order[i]

\* Two enabled extensions that map the same pattern map it to the same target.
MappingsAgree(d) ==
  \A i, j \in Enabled(d) :
    \A a \in DOMAIN d.modules[i].mappings, b \in DOMAIN d.modules[j].mappings :
      d.modules[i].mappings[a].pattern = d.modules[j].mappings[b].pattern
        => d.modules[i].mappings[a].target = d.modules[j].mappings[b].target

\* What both check of the document as a whole.
ValidWhole(l, d) ==
  /\ d.version = 5 /\ d.addresses = "fixed"
  /\ (\A c \in d.users : c >= 16) /\ (\A c \in d.passwords : c >= 24)
  /\ Len(d.modules) <= l.modules /\ IsInjective([i \in DOMAIN d.modules |-> d.modules[i].id])
  /\ ActiveRoutes(d) <= l.activeRoutes /\ MappingsAgree(d) /\ ValidOrder(d)
  /\ Cardinality(CertificateHosts(d)) <= l.certificate

\* validateInterceptModule
DaemonModule(m) ==
  /\ ValidRest(DaemonLimits, m)
  /\ \A p \in m.hosts : DaemonPattern(p)
  /\ \A o \in m.origins : DaemonOrigin(o)
  /\ \A i \in DOMAIN m.mappings : LET g == m.mappings[i] IN
       /\ DaemonPattern(g.pattern) /\ NormalizePattern(g.pattern) = g.pattern
       /\ CoveredBy(m.hosts, g.pattern) /\ DaemonTarget(g.target)
  /\ \A i \in DOMAIN m.scripts : LET r == m.scripts[i] IN
       /\ \A p \in r.hosts : DaemonPattern(p) /\ CoveredBy(m.hosts, p)
       /\ r.regex.size <= 4096

\* validateInterceptDocument: what the daemon checks by itself.
DaemonAccepts(d) ==
  /\ ValidWhole(DaemonLimits, d) /\ d.paths = "fixed"
  /\ \A i \in DOMAIN d.modules : DaemonModule(d.modules[i])

\* validateModules
SidecarModule(m) ==
  /\ ValidRest(SidecarLimits, m)
  /\ \A p \in m.hosts : SidecarPattern(p)
  /\ \A o \in m.origins : SidecarOrigin(o)
  /\ \A i \in DOMAIN m.mappings : LET g == m.mappings[i] IN
       SidecarPattern(g.pattern) /\ CoveredBy(m.hosts, g.pattern) /\ SidecarTarget(g.target)
  /\ \A i \in DOMAIN m.scripts : LET r == m.scripts[i] IN
       /\ \A p \in r.hosts : SidecarPattern(p) /\ CoveredBy(m.hosts, p)
       /\ r.compiles

\* Config.Validate
SidecarAccepts(d) ==
  /\ ValidWhole(SidecarLimits, d) /\ d.paths # "blank"
  /\ \A c \in d.users \cup d.passwords : c <= 255
  /\ \A i \in DOMAIN d.modules : SidecarModule(d.modules[i])

\* What is written: each change of the document checks its candidate, then has the sidecar
\* check it (validateSidecarCandidate), and writes nothing when either refuses.
Committed(d) == DaemonAccepts(d) /\ SidecarAccepts(d)

\* ValidateCertificateRequest: of a disabled extension no more than its permissions,
\* rules and resolution.
HelperAccepts(d) ==
  /\ d.version = 5 /\ d.paths = "fixed" /\ Len(d.modules) <= SidecarLimits.modules
  /\ ValidOrder(d) /\ IsInjective([i \in DOMAIN d.modules |-> d.modules[i].id])
  /\ \A i \in DOMAIN d.modules : LET m == d.modules[i] IN
       /\ Cardinality(m.origins) <= SidecarLimits.origins /\ "origins" \in m.sorted
       /\ \A o \in m.origins : SidecarOrigin(o)
       /\ ValidGroup(SidecarLimits, m) /\ ValidRoutes(SidecarLimits, m)
       /\ m.dns \in {"trust", "china"}
       /\ m.enabled => /\ m.id \in Ids /\ Cardinality(m.hosts) \in 1..SidecarLimits.hosts
                       /\ \A p \in m.hosts : SidecarPattern(p)
  /\ ActiveRoutes(d) <= SidecarLimits.activeRoutes
  /\ Cardinality(CertificateHosts(d)) <= SidecarLimits.certificate

----------------------------------------------------------------------------
(* What an import makes of a manifest.                                       *)

\* normalizeInterceptNetworkOrigin
NormalizeOrigin(o) ==
  [o EXCEPT !.labels = Untailed(o.labels), !.rest = @ \ {"slash"},
            !.port = IF @ = OwnPort(o) THEN Undeclared ELSE @]

NormalizeMapping(g) ==
  [pattern |-> NormalizePattern(g.pattern),
   target |-> [g.target EXCEPT !.labels = Untailed(@)]]

\* normalizeNativeExtensionRoutingRule: a single keyword joins those that must all occur.
NormalizeRoute(r) ==
  LET joins == Cardinality(r.anyOf) = 1 /\ r.anyOf \cap r.allOf = {} IN
  [r EXCEPT !.name = Untailed(@), !.canonical = TRUE, !.sorted = TRUE,
            !.anyOf = IF joins THEN {} ELSE @, !.allOf = IF joins THEN @ \cup r.anyOf ELSE @]

NormalizeAction(r) ==
  [r EXCEPT !.hosts = {NormalizePattern(p) : p \in @},
            !.regex = IF @.size = 0 THEN [valid |-> TRUE, size |-> 2] ELSE @,
            !.bodyMode = IF @ = "absent" THEN "none" ELSE @,
            !.schemes = IF @ = {} THEN {"https"} ELSE @,
            !.timeout = IF @ = 0 THEN 1000 ELSE @,
            !.maxBody = IF @ = 0 THEN 8 * MiB ELSE @]

\* parse: names are normalized once, lists are sorted, what is absent has its default, and
\* a new extension is off and bound to no group; validateInterceptModule follows.
Imported(raw) ==
  [raw EXCEPT !.enabled = FALSE, !.dns = "trust", !.group = "none", !.sorted = {"hosts", "origins"},
     !.hosts = {NormalizePattern(p) : p \in @},
     !.origins = {NormalizeOrigin(o) : o \in @},
     !.mappings = [i \in DOMAIN @ |-> NormalizeMapping(@[i])],
     !.routes = [i \in DOMAIN @ |-> NormalizeRoute(@[i])],
     !.scripts = [i \in DOMAIN @ |-> NormalizeAction(@[i])]]

Accepts(raw) == DaemonModule(Imported(raw))

----------------------------------------------------------------------------
(* What the sidecar does with an accepted document.                          *)

\* newCompiledHostMatcher and Match, for the hosts of an extension.
Owns(m, host) == \E p \in m.hosts : Matches(p, host)

\* mappedInterceptTarget: the loops over extensions and their mappings; a match is better
\* when it is the host itself or longer than the best so far.
Weight(best) == IF best = Undeclared THEN 0 ELSE Len(best.pattern.labels) + (IF best.pattern.wild THEN 1 ELSE 0)

MappedBy(d, host) ==
  LET after[i \in 0..Len(d.modules)] ==
        IF i = 0 THEN Undeclared
        ELSE LET m == d.modules[i]
                 seen[j \in 0..Len(m.mappings)] ==
                   IF j = 0 THEN after[i - 1]
                   ELSE LET g == m.mappings[j] IN
                        IF /\ Matches(g.pattern, host)
                           /\ ~g.pattern.wild \/ Weight(g) > Weight(seen[j - 1])
                        THEN g ELSE seen[j - 1]
             IN IF m.enabled /\ Owns(m, host) THEN seen[Len(m.mappings)] ELSE after[i - 1]
  IN after[Len(d.modules)]

\* matchingScriptRules: the places <<in the order, in the extension>> of the actions that
\* run for a message, which run from the first to the last.
MatchingRules(d, phase, msg) ==
  {at \in (DOMAIN d.order) \X (1..SidecarLimits.actions) :
     \E k \in Enabled(d) :
       /\ d.modules[k].id = d.order[at[1]] /\ Owns(d.modules[k], msg.host)
       /\ at[2] \in DOMAIN d.modules[k].scripts
       /\ LET r == d.modules[k].scripts[at[2]] IN
            /\ r.phase = phase /\ msg.scheme \in r.schemes
            /\ \E p \in r.hosts : Matches(p, msg.host)
            /\ (r.statuses # {} => msg.status \in r.statuses)}
=============================================================================
