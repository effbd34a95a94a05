----------------------------- MODULE MCDocuments -----------------------------
\* Examples of documents, and what TLC checks of the operators of Documents on them.
EXTENDS Documents

NameA == <<"a", "com">>
NameB == <<"b", "a", "com">>
Digits == <<"a", "7">>
Exactly(n) == [wild |-> FALSE, labels |-> n]
Below(n) == [wild |-> TRUE, labels |-> n]
Named(n) == [ip |-> FALSE, public |-> FALSE, wild |-> FALSE, port |-> FALSE, labels |-> n]

Patterns == {Exactly(NameA), Below(NameA), Exactly(NameB), Below(NameB)}
Names == UNION {[1..n -> {"a", "b", "com"}] : n \in 1..3}
AllPatterns == [wild : BOOLEAN, labels : Names]

RuleFor(hosts) ==
  [id |-> "x", phase |-> "request", url |-> "none", urlSize |-> 0, digest |-> TRUE, size |-> 9,
   bodyMode |-> "none", timeout |-> 1000, maxBody |-> 1024, hosts |-> hosts, schemes |-> {"https"},
   methods |-> TRUE, regex |-> [valid |-> TRUE, size |-> 2], statuses |-> {}, compiles |-> TRUE]

Extension(id, hosts, mappings, scripts) ==
  [id |-> id, enabled |-> TRUE,
   size |-> [version |-> 5, name |-> 3, description |-> 0, source |-> 9, url |-> 0, group |-> 0],
   url |-> "none", digest |-> TRUE, dated |-> TRUE, hosts |-> hosts, sorted |-> {"hosts", "origins"},
   dns |-> "trust", origins |-> {}, group |-> "none", groupRequired |-> FALSE, settings |-> <<>>,
   mappings |-> mappings, routes |-> <<>>, scripts |-> scripts]

Document(modules) ==
  [version |-> 5, addresses |-> "fixed", users |-> {16, 17}, passwords |-> {24}, paths |-> "fixed",
   modules |-> modules, ordered |-> TRUE, order |-> [i \in DOMAIN modules |-> modules[i].id]]

Mappings ==
  UNION {[1..n -> [pattern : Patterns, target : {Named(NameA), Named(NameB)}]] : n \in 0..2}

Mapped ==
  {Document(<<Extension("x", Patterns, g, <<RuleFor({Exactly(NameB)})>>),
              Extension("y", Patterns, h, <<RuleFor({Below(NameA)})>>)>>) : g, h \in Mappings}

\* Of all that match, the host itself, or else the pattern of the most labels.
MostSpecific(d, host) ==
  LET found == {g \in UNION {{d.modules[i].mappings[j] : j \in DOMAIN d.modules[i].mappings} :
                               i \in Enabled(d)} : Matches(g.pattern, host)}
      best == {g \in found : ~g.pattern.wild
                 \/ \A o \in found : o.pattern.wild /\ Len(o.pattern.labels) <= Len(g.pattern.labels)}
  IN IF best = {} THEN Undeclared ELSE CHOOSE g \in best : TRUE

Swapped(d) == [d EXCEPT !.modules = <<d.modules[2], d.modules[1]>>]

\* The mapping of a host is the most specific one, whatever the order of the extensions.
ASSUME MappingsIgnoreOrder ==
  \A d \in {e \in Mapped : SidecarAccepts(e)}, host \in {NameA, NameB, <<"a">> \o NameB, <<"com">>} :
    MappedBy(d, host) = MostSpecific(d, host) /\ MappedBy(Swapped(d), host) = MappedBy(d, host)

\* Where the mappings disagree the order would tell: the check that refuses it is needed.
ASSUME MappingsWouldNot ==
  \E d \in Mapped : ~MappingsAgree(d) /\ MappedBy(Swapped(d), NameA) # MappedBy(d, NameA)

\* NameA pattern covers another exactly when every host of the other is one of its own.
ASSUME CoversExactly ==
  \A p, q \in {r \in AllPatterns : Len(r.labels) < 3} :
    Covers(p, q) <=> \A host \in Names : Matches(q, host) => Matches(p, host)

\* A document that can be committed, and what each check alone refuses.
Good == Document(<<Extension("x", {Below(NameA)}, <<[pattern |-> Exactly(NameB), target |-> Named(NameA)]>>,
                             <<RuleFor({Exactly(NameB)})>>)>>)
First(d, m) == [d EXCEPT !.modules = <<m>>]
Sole == Good.modules[1]

ASSUME Accepted == Committed(Good) /\ HelperAccepts(Good)

\* What the daemon's own check leaves to the sidecar's, and the commit does not.
ASSUME OnlyTheDaemonAccepts ==
  \A d \in {First(Good, [Sole EXCEPT !.hosts = {Below(NameA), Exactly(<<"b", "com", "">>)}]),
            First(Good, [Sole EXCEPT !.scripts[1].compiles = FALSE]),
            [Good EXCEPT !.users = {16, 256}]} :
    DaemonAccepts(d) /\ ~Committed(d)

ASSUME OnlyTheSidecarAccepts ==
  \A d \in {First(Good, [Sole EXCEPT !.hosts = {Below(NameA), Exactly(Digits)}]),
            First(Good, [Sole EXCEPT !.mappings[1].target.port = TRUE]),
            First(Good, [Sole EXCEPT !.scripts[1].regex.size = 5000]),
            [Good EXCEPT !.paths = "other"]} :
    SidecarAccepts(d) /\ ~DaemonAccepts(d)

ASSUME OnlyTheHelperAccepts ==
  LET d == First(Good, [Sole EXCEPT !.enabled = FALSE, !.hosts = {}]) IN
  HelperAccepts(d) /\ ~SidecarAccepts(d)

RouteFor(anyOf, allOf) ==
  [action |-> "reject", network |-> "none", subject |-> "suffix", name |-> NameA \o <<"">>, canonical |-> FALSE,
   anyOf |-> anyOf, allOf |-> allOf, sorted |-> FALSE, port |-> Undeclared]

\* A lone keyword joins the others, or is refused as one of them twice.
ASSUME KeywordsJoin ==
  /\ Accepts([Sole EXCEPT !.routes = <<RouteFor({"a"}, {"b"}), RouteFor({}, {"a"}), RouteFor({"a", "b"}, {"7"})>>])
  /\ ~Accepts([Sole EXCEPT !.routes = <<RouteFor({"a"}, {"a", "b"})>>])
  /\ ~Accepts([Sole EXCEPT !.routes = <<RouteFor({"a"}, {}), RouteFor({}, {"a"})>>])

\* An import takes one dot off a name and the daemon's check that follows allows for one
\* more: a host that ends with two is imported with one, which the sidecar's check refuses
\* before the document is written.
Spelt(tail) == [Sole EXCEPT !.hosts = {Exactly(<<"b", "com">> \o tail), Below(NameA \o <<"">>)},
                         !.scripts[1].schemes = {}, !.scripts[1].timeout = 0,
                         !.scripts[1].regex.size = 0, !.scripts[1].bodyMode = "absent",
                         !.routes = <<RouteFor({"a"}, {"b"})>>]
ASSUME ImportsOneDot ==
  /\ ~SidecarModule(Spelt(<<"">>)) /\ SidecarModule(Imported(Spelt(<<"">>)))
  /\ Accepts(Spelt(<<"">>)) /\ Accepts(Spelt(<<"", "">>)) /\ ~Accepts(Spelt(<<"", "", "">>))
  /\ Committed(First(Good, Imported(Spelt(<<"">>))))
  /\ LET d == First(Good, Imported(Spelt(<<"", "">>))) IN DaemonAccepts(d) /\ ~Committed(d)

\* An action that no host reaches and one that a message reaches.
ASSUME RulesRun ==
  /\ MatchingRules(Good, "request", [host |-> NameB, scheme |-> "https", status |-> 200]) = {<<1, 1>>}
  /\ MatchingRules(Good, "response", [host |-> NameB, scheme |-> "https", status |-> 200]) = {}
  /\ MatchingRules(Good, "request", [host |-> NameA, scheme |-> "https", status |-> 200]) = {}
=============================================================================
