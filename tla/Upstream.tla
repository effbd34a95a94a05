------------------------------ MODULE Upstream ------------------------------
(***************************************************************************)
(* One upstream group of cmd/5gpn-dns: group.Exchange (upstream.go) trying   *)
(* its members in order, each on an equal slice of the remaining budget,     *)
(* behind the group's circuit breaker (breaker.go).  Concurrent callers, of   *)
(* which any may be cancelled by its own caller (arbitration abandons the     *)
(* losing group), share the breaker.                                         *)
(*                                                                         *)
(* Time is kept as countdowns: what is left of the cooldown, of a call's      *)
(* budget and of its current attempt.  openUntil non-zero is "open".          *)
(***************************************************************************)
EXTENDS Integers, FiniteSets

CONSTANTS
  Calls,         \* goroutines that may be inside Exchange
  N,             \* members of the group
  QueryTimeout,  \* the callers' context budget
  AttemptMax,    \* dns.Client's own dial and read timeouts
  Threshold,     \* breakerThreshold
  Cooldown,      \* breakerCooldown
  Outside

ASSUME UpstreamAssumption ==
  /\ N \in Nat \ {0}
  /\ QueryTimeout \in Nat \ {0}
  /\ AttemptMax \in Nat \ {0}
  /\ Threshold \in Nat \ {0}
  /\ Cooldown \in Nat \ {0}
  /\ Outside \notin [member : Nat, left : Nat, slice : Nat, lim : Nat,
                  probe : BOOLEAN, canceled : BOOLEAN]

VARIABLES
  failures,  \* consecutive failures, saturating at Threshold
  open,      \* openUntil is not zero
  cool,      \* what is left until openUntil
  probing,   \* probeInFlight
  call       \* the running Exchange of each caller

upVars == <<failures, open, cool, probing, call>>
breakerVars == <<failures, open, cool, probing>>

Call == [member : Nat, left : Nat, slice : Nat, lim : Nat,
         probe : BOOLEAN, canceled : BOOLEAN]
Active == {c \in Calls : call[c] # Outside}
Probes == {c \in Active : call[c].probe}

UpTypeOK ==
  /\ failures \in 0..Threshold
  /\ open \in BOOLEAN
  /\ cool \in 0..Cooldown
  /\ probing \in BOOLEAN
  /\ call \in [Calls -> Call \cup {Outside}]
  /\ \A c \in Active : /\ call[c].member \in 1..N
                       /\ call[c].lim <= call[c].left /\ call[c].left <= QueryTimeout

UpInit ==
  /\ failures = 0
  /\ open = FALSE
  /\ cool = 0
  /\ probing = FALSE
  /\ call = [c \in Calls |-> Outside]

----------------------------------------------------------------------------
(* breaker.go                                                                *)

\* allow: closed, or cooled down with no probe in flight.
Allow == ~open \/ (cool = 0 /\ ~probing)

AtMost(a, b) == IF a <= b THEN a ELSE b

RecordOk ==
  /\ probing' = FALSE
  /\ failures' = 0
  /\ open' = FALSE
  /\ cool' = 0

RecordFailure ==
  /\ probing' = FALSE
  /\ failures' = AtMost(failures + 1, Threshold)
  /\ IF failures + 1 >= Threshold
       THEN open' = TRUE /\ cool' = Cooldown
       ELSE UNCHANGED <<open, cool>>

RecordCanceled ==
  /\ probing' = FALSE
  /\ UNCHANGED <<failures, open, cool>>

----------------------------------------------------------------------------
(* group.Exchange                                                            *)

\* Defect: every attempt may use all that is left of the budget.
WholeBudget(left, i) == left

\* An even share of what is left for members i..N.
Slice(left, i) == left \div (N - i + 1)

Attempt(i, left, probe) ==
  [member |-> i, left |-> left, slice |-> Slice(left, i),
   lim |-> AtMost(Slice(left, i), AttemptMax), probe |-> probe,
   canceled |-> FALSE]

\* Defect: a half-open probe does not take the slot.
ExchangeUnmarked(c) ==
  /\ call[c] = Outside
  /\ Allow
  /\ call' = [call EXCEPT ![c] = Attempt(1, QueryTimeout, open)]
  /\ UNCHANGED breakerVars

\* A call the breaker lets through; one it refuses fails fast and changes nothing.
Exchange(c) ==
  /\ call[c] = Outside
  /\ Allow
  /\ probing' = (probing \/ open)
  /\ call' = [call EXCEPT ![c] = Attempt(1, QueryTimeout, open)]
  /\ UNCHANGED <<failures, open, cool>>

\* The caller's context is cancelled before its deadline.
Cancel(c) ==
  /\ call[c] # Outside
  /\ ~call[c].canceled
  /\ call[c].left > 0
  /\ call' = [call EXCEPT ![c] =
       [member |-> call[c].member, left |-> call[c].left, slice |-> call[c].slice,
        lim |-> call[c].lim, probe |-> call[c].probe, canceled |-> TRUE]]
  /\ UNCHANGED breakerVars

Uncanceled(c) == call[c] # Outside /\ ~call[c].canceled

\* Error, timeout of the slice, or a reply without the 0x20 echo: next member.
NextMember(c) ==
  /\ Uncanceled(c)
  /\ call[c].member < N
  /\ call' = [call EXCEPT ![c] = Attempt(call[c].member + 1, call[c].left, call[c].probe)]
  /\ UNCHANGED breakerVars

Succeeded(c) ==
  /\ Uncanceled(c)
  /\ RecordOk
  /\ call' = [call EXCEPT ![c] = Outside]

AllFailed(c) ==
  /\ Uncanceled(c)
  /\ call[c].member = N
  /\ RecordFailure
  /\ call' = [call EXCEPT ![c] = Outside]

\* The attempt ends, whatever its result, and the caller is found cancelled.
Abandoned(c) ==
  /\ call[c] # Outside
  /\ call[c].canceled
  /\ RecordCanceled
  /\ call' = [call EXCEPT ![c] = Outside]

Elapsed(r) ==
  [member |-> r.member, left |-> r.left - 1, slice |-> r.slice, lim |-> r.lim - 1,
   probe |-> r.probe, canceled |-> r.canceled]

\* Time passes; no attempt outlives its limit.
Elapse ==
  /\ \A c \in Active : call[c].lim > 0
  /\ cool' = IF cool > 0 THEN cool - 1 ELSE 0
  /\ call' = [c \in Calls |-> IF call[c] = Outside THEN Outside ELSE Elapsed(call[c])]
  /\ UNCHANGED <<failures, open, probing>>

EndAttempt(c) == NextMember(c) \/ Succeeded(c) \/ AllFailed(c) \/ Abandoned(c)

UpNext ==
  \/ Elapse
  \/ \E c \in Calls : Exchange(c) \/ Cancel(c) \/ EndAttempt(c)

UpSpec == UpInit /\ [][UpNext]_upVars

\* Time passes and attempts end, by their deadline at the latest; nobody need call or
\* cancel.  Only finitely many such steps are possible without a new call.
Progress == Elapse \/ \E c \in Calls : EndAttempt(c)
UpFairSpec == UpSpec /\ WF_upVars(Progress)

----------------------------------------------------------------------------
(* Properties                                                                *)

\* At most one call is the half-open probe: "the single half-open probe once
\* cooldown has elapsed" (breaker.go:37), "only one concurrent half-open probe"
\* (resilience_test.go:40).  It needs QueryTimeout < Cooldown: the outcome of a
\* call from before the opening also clears probeInFlight.
SingleProbe == Cardinality(Probes) <= 1

\* The probe slot is taken only while a probe is running, so that no cancelled
\* or failed probe latches the breaker open (breaker.go:77-86).
SlotHeldByProbe == probing => Probes # {}

\* The breaker is open exactly when the count has reached the threshold: one
\* failed probe re-opens it, one success leaves a full run of failures to go.
OpenAtThreshold == open <=> failures = Threshold

\* No member starves the later ones: each attempt starts with at least its share
\* of the whole budget (upstream.go:85-88).
FairSlices == \A c \in Active : call[c].slice >= QueryTimeout \div N

\* The breaker never latches: once open, it gets back to letting a call through.
NeverLatched == open ~> Allow
=============================================================================
