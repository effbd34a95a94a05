----------------------------- MODULE MCServing -----------------------------
(* The query path and the parts beside it that it shares no model state with:   *)
(* the upstream groups' breakers, the settings API, the rate limiter, the       *)
(* China addresses and the choice between the groups.  A behavior moves the     *)
(* part in focus, the others rest in an initial state.                          *)
EXTENDS MCResolver, Upstream, MCSettings, RateLimit, Chnroute, Arbitration

\* Nested, repeated and touching prefixes, at both ends of eight addresses too.
MCPrefixes ==
  {[ip |-> 0, size |-> 8], [ip |-> 1, size |-> 4], [ip |-> 5, size |-> 4],
   [ip |-> 2, size |-> 2], [ip |-> 0, size |-> 1], [ip |-> 7, size |-> 1]}
MCLists == UNION {[1..n -> MCPrefixes] : n \in 0..3}

\* Addresses of China (c1), of one list only (m1) and foreign (f1, f2).
MCHosts == {"c1", "m1", "f1", "f2"}
MCChinaSets == {{"c1"}, {"c1", "m1"}}
MCReply(truncated, rcode, rrs) == [truncated |-> truncated, rcode |-> rcode, rrs |-> rrs]
MCReplies ==
  {MCReply(FALSE, "ok", <<"cname", "c1", "f1">>), MCReply(FALSE, "ok", <<"m1", "rrsig">>),
   MCReply(TRUE, "ok", <<"c1">>), MCReply(FALSE, "ok", <<"f1", "aaaa", "f2", "rrsig">>),
   MCReply(FALSE, "nx", <<>>)}

VARIABLE focus

Rests(part, still) == focus # part => still

SvInit ==
  /\ focus \in {"queries", "upstream", "settings", "limiter", "chnroute", "choice"}
  /\ Init /\ UpInit /\ RlInit
  /\ StInit /\ Rests("settings", upsFile = NoFile /\ ecsFile = NoFile)
  /\ CrInit /\ Rests("chnroute", lines = <<>>)
  /\ AbInit /\ Rests("choice", gateway /\ liveList = {"c1"})

SvNext ==
  /\ \/ focus = "queries" /\ Next /\ UNCHANGED <<upVars, stVars, rlVars, crVars, abVars>>
     \/ focus = "upstream" /\ UpNext /\ UNCHANGED <<vars, stVars, rlVars, crVars, abVars>>
     \/ focus = "settings" /\ StNext /\ UNCHANGED <<vars, upVars, rlVars, crVars, abVars>>
     \/ focus = "limiter" /\ RlNext /\ UNCHANGED <<vars, upVars, stVars, crVars, abVars>>
     \/ focus = "chnroute" /\ CrNext /\ UNCHANGED <<vars, upVars, stVars, rlVars, abVars>>
     \/ focus = "choice" /\ AbNext /\ UNCHANGED <<vars, upVars, stVars, rlVars, crVars>>
  /\ UNCHANGED focus

svVars == <<focus, vars, upVars, stVars, rlVars, crVars, abVars>>

Others == <<focus, upVars, stVars, rlVars, crVars, abVars>>

\* What Resolver, Upstream and Arbitration assume of the scheduling.
SvFairness ==
  /\ \A q \in Queries : WF_svVars(focus = "queries" /\ QueryStep(q) /\ UNCHANGED Others)
  /\ \A w \in Workers : WF_svVars(focus = "queries" /\ WorkerStep(w) /\ UNCHANGED Others)
  /\ \A f \in Flights : WF_svVars(focus = "queries" /\ DeleteFlight(f) /\ UNCHANGED Others)
  /\ WF_svVars(\/ /\ focus = "upstream" /\ Progress
                  /\ UNCHANGED <<focus, vars, stVars, rlVars, crVars, abVars>>
               \/ /\ focus = "choice" /\ AbWorking
                  /\ UNCHANGED <<focus, vars, upVars, stVars, rlVars, crVars>>)

SvSpec == SvInit /\ [][SvNext]_svVars /\ SvFairness

\* Every query is answered, no flight outlives its resolution, a breaker that opened gets
\* back to letting a call through, and an arbitration ends with both its goroutines
\* (handler.go:296-309, 893-944, breaker.go:57-86, arbitrate.go:61-110).
ServingSettles == EveryQueryAnswered /\ FlightsDrain /\ NeverLatched /\ ArbitrationEnds
=============================================================================
