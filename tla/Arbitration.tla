----------------------------- MODULE Arbitration -----------------------------
(***************************************************************************)
(* One resolution of an A question that no rule decides: both groups are       *)
(* asked at once, China's reply is taken if it names an address of China and   *)
(* trust's otherwise (arbitrate.go), and every other address becomes the       *)
(* gateway's (handler.go), while reloads replace the list of China's           *)
(* addresses.                                                                  *)
(***************************************************************************)
EXTENDS Naturals, Sequences, Loops

CONSTANTS
  Hosts,      \* addresses; the other records of an answer are "cname", "aaaa", "rrsig"
  ChinaSets,  \* the lists there may be: what Chnroute!Contains finds
  Replies,    \* what a group may answer
  Gateway,    \* DNS_GATEWAY_IP
  Failed,     \* an exchange that returned an error
  Pending,    \* one that has not returned
  MaxReloads

Groups == {"china", "trust"}

\* The records of an answer section.
Of(rrs) == {rrs[i] : i \in DOMAIN rrs}

ASSUME AbAssumption ==
  /\ \A reply \in Replies : reply.rrs \in Seq(Of(reply.rrs))
  /\ "aaaa" \notin Hosts
  /\ MaxReloads \in Nat

VARIABLES
  abPC,
  gateway,   \* whether a gateway is configured
  liveList,  \* the list in force
  cn,        \* the list this query loaded
  sent,      \* the goroutine of each group
  came,      \* what each sent into its channel, which has room for it
  ctxOver,   \* the context: its deadline has passed or it is cancelled
  src,       \* the group whose reply was adopted
  answer,
  reloads

abVars == <<abPC, gateway, liveList, cn, sent, came, ctxOver, src, answer, reloads>>

AbInit ==
  /\ abPC = "load"
  /\ gateway \in BOOLEAN
  /\ liveList \in ChinaSets /\ cn = liveList
  /\ sent = [g \in Groups |-> "no"]
  /\ came = [g \in Groups |-> Pending]
  /\ ctxOver = FALSE
  /\ src = "" /\ answer = Failed
  /\ reloads = 0

-----------------------------------------------------------------------------
\* A reload stores another list (handler.go:319-340).
ReloadList ==
  /\ reloads < MaxReloads
  /\ \E l \in ChinaSets \ {liveList} : liveList' = l
  /\ reloads' = reloads + 1
  /\ UNCHANGED <<abPC, gateway, cn, sent, came, ctxOver, src, answer>>

LoadList ==
  /\ abPC = "load"
  /\ cn' = liveList
  /\ abPC' = "launch"
  /\ UNCHANGED <<gateway, liveList, sent, came, ctxOver, src, answer, reloads>>

LaunchBoth ==
  /\ abPC = "launch"
  /\ sent' = [g \in Groups |-> "out"]
  /\ abPC' = "china"
  /\ UNCHANGED <<gateway, liveList, cn, came, ctxOver, src, answer, reloads>>

\* Defect: channels without room, so a goroutine waits for a reader.
ExchangeReturnsUnbuffered(g) ==
  /\ sent[g] = "out"
  /\ abPC = g
  /\ \E r \in Replies \cup {Failed} : came' = [came EXCEPT ![g] = r]
  /\ sent' = [sent EXCEPT ![g] = "ended"]
  /\ UNCHANGED <<abPC, gateway, liveList, cn, ctxOver, src, answer, reloads>>

\* The exchange of one group returns: a reply, an error, or the end of the context.
ExchangeReturns(g) ==
  /\ sent[g] = "out"
  /\ \E r \in Replies \cup {Failed} : came' = [came EXCEPT ![g] = r]
  /\ sent' = [sent EXCEPT ![g] = "ended"]
  /\ UNCHANGED <<abPC, gateway, liveList, cn, ctxOver, src, answer, reloads>>

DeadlinePasses ==
  /\ abPC \in {"china", "trust"}
  /\ ~ctxOver
  /\ ctxOver' = TRUE
  /\ UNCHANGED <<abPC, gateway, liveList, cn, sent, came, src, answer, reloads>>

\* chinaIsCN: a truncated reply proves nothing.
ChinaIsCN(reply, list) ==
  ~reply.truncated /\ \E i \in DOMAIN reply.rrs : reply.rrs[i] \in list

\* arbitrateSrc returns: the deferred cancel tears down what is still out.
Adopt(g) == abPC' = "rewrite" /\ src' = g /\ ctxOver' = TRUE

AwaitChina ==
  /\ abPC = "china"
  /\ came["china"] # Pending
  /\ IF came["china"] # Failed /\ ChinaIsCN(came["china"], cn)
       THEN Adopt("china")
       ELSE abPC' = "trust" /\ UNCHANGED <<src, ctxOver>>
  /\ UNCHANGED <<gateway, liveList, cn, sent, came, answer, reloads>>

\* With no reply at all the query is answered stale or with SERVFAIL (Resolver).
AwaitTrust ==
  /\ abPC = "trust"
  /\ came["trust"] # Pending
  /\ IF came["trust"] # Failed
       THEN Adopt("trust")
       ELSE abPC' = "done" /\ ctxOver' = TRUE /\ UNCHANGED src
  /\ UNCHANGED <<gateway, liveList, cn, sent, came, answer, reloads>>

-----------------------------------------------------------------------------
\* filterAAAA.
WithoutAAAA(rrs) == Only(rrs, Of(rrs) \ {"aaaa"})

\* The addresses to steer: none without a gateway (gwUnset).
Foreign(list) == IF gateway THEN Hosts \ list ELSE {}

\* rewriteA: the first foreign address becomes the gateway's, the others are left out, and
\* so are the signatures once there is one (gatewayAdded, stripDNSSECRRs).
Rewritten(rrs, foreign) ==
  LET gatewayAdded(i) == \E j \in DOMAIN rrs : j < i /\ rrs[j] \in foreign
      Kept(i) == IF rrs[i] \in foreign THEN ~gatewayAdded(i)
                 ELSE rrs[i] = "rrsig" => ~gatewayAdded(Len(rrs) + 1)
      kept == Only([i \in DOMAIN rrs |-> i], {i \in DOMAIN rrs : Kept(i)})
  IN [k \in DOMAIN kept |-> IF rrs[kept[k]] \in foreign THEN Gateway ELSE rrs[kept[k]]]

AnswerFrom(list) ==
  /\ abPC = "rewrite"
  /\ answer' = [rcode |-> came[src].rcode,
                rrs |-> Rewritten(WithoutAAAA(came[src].rrs), Foreign(list))]
  /\ abPC' = "done"
  /\ UNCHANGED <<gateway, liveList, cn, sent, came, ctxOver, src, reloads>>

\* Defect: the rewrite loads the list again.
RewriteReloaded == AnswerFrom(liveList)

RewriteA == AnswerFrom(cn)

AbNext ==
  \/ ReloadList \/ LoadList \/ LaunchBoth
  \/ \E g \in Groups : ExchangeReturns(g)
  \/ DeadlinePasses \/ AwaitChina \/ AwaitTrust \/ RewriteA

\* What goes on: an exchange returns once its context is over, if it has not before.
AbWorking ==
  \/ LoadList \/ LaunchBoth \/ DeadlinePasses \/ AwaitChina \/ AwaitTrust \/ RewriteA
  \/ ctxOver /\ \E g \in Groups : ExchangeReturns(g)

AbSpec == AbInit /\ [][AbNext]_abVars /\ WF_abVars(AbWorking)

-----------------------------------------------------------------------------
AbTypeOK ==
  /\ abPC \in {"load", "launch", "china", "trust", "rewrite", "done"}
  /\ gateway \in BOOLEAN /\ ctxOver \in BOOLEAN
  /\ liveList \in ChinaSets /\ cn \in ChinaSets
  /\ sent \in [Groups -> {"no", "out", "ended"}]
  /\ came \in [Groups -> Replies \cup {Failed, Pending}]
  /\ src \in Groups \cup {""}
  /\ reloads \in 0..MaxReloads

\* Whatever order the groups answer in and whenever the list is replaced: China's reply is
\* the answer exactly when it is whole and names an address of the list the query loaded.
\* Without a gateway or with no address outside that list the client gets all but the AAAA
\* records; otherwise one address of the gateway instead of the foreign ones, with no
\* signature left over (arbitrate.go:99-109, handler.go:1038-1051).
AnswerByMembership ==
  abPC = "done" /\ answer # Failed =>
    LET reply == came[src]
        first == came["china"]
        given == Of(reply.rrs) \ {"aaaa"}
        foreign == given \cap Foreign(cn)
    IN /\ src = IF first # Failed /\ ~first.truncated /\ Of(first.rrs) \cap cn # {}
                  THEN "china" ELSE "trust"
       /\ answer.rcode = reply.rcode
       /\ Of(answer.rrs) = IF foreign = {} THEN given
                           ELSE (given \ (foreign \cup {"rrsig"})) \cup {Gateway}
       /\ Gateway \notin given \ foreign =>
            \A i, j \in DOMAIN answer.rrs :
              answer.rrs[i] = Gateway /\ answer.rrs[j] = Gateway => i = j

\* The arbitration comes to an end and leaves no goroutine behind (arbitrate.go:61-75).
ArbitrationEnds ==
  abPC = "launch" ~> (abPC = "done" /\ \A g \in Groups : sent[g] = "ended")
=============================================================================
