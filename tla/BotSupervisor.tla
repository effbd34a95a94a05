--------------------------- MODULE BotSupervisor ---------------------------
(***************************************************************************)
(* The lifecycle of the Telegram bot of cmd/5gpn-dns (botsupervisor.go):      *)
(* console updates (Apply) that validate a token over the network, persist     *)
(* and go live; the startup retry loop; the bot's own goroutine; and the       *)
(* health reports of its long poll.                                          *)
(*                                                                         *)
(* transitionMu is held across a commit, from the request-number check to     *)
(* the start of the new bot (holder); mu protects single steps, so each        *)
(* critical section under mu alone is one action.  A configuration is a       *)
(* token (Nil: disabled) with a set of administrators.                       *)
(***************************************************************************)
EXTENDS Integers, FiniteSets

CONSTANTS
  MaxApplies, \* bound: console updates in a behavior, named by request number
  Tokens,     \* bot tokens
  Keep,       \* an update that leaves the token alone (tokenPtr == nil)
  AdminSets,  \* administrator sets
  Bots,       \* identities of running bots
  MaxFails,   \* bound: transient failures of one retry loop
  Nil

Applies == 1..MaxApplies
Config == [token : Tokens \cup {Nil}, admins : AdminSets]

VARIABLES
  seq,        \* requestSeq: the newest update
  gen,        \* generation: the committed configuration
  cfg,        \* the committed token and admins
  disk,       \* tgbot.json
  holder,     \* the update that holds transitionMu, or Nil
  apply,      \* the updates
  current,    \* runner: the published bot, or Nil
  bot,        \* every bot whose Run has not returned
  retryOn,    \* retryCancel # nil
  retrySeq,
  loops,      \* running retryLaunch goroutines
  status,     \* state
  setters,    \* go source.SetHealthReporter(...) goroutines not run yet
  started,    \* main called Start
  updatable,  \* the bot replaces its admins in place (botAdminUpdater)
  down        \* the parent context is done

supVars == <<seq, gen, cfg, disk, holder, apply, current, bot, retryOn,
             retrySeq, loops, status, setters, started, updatable, down>>

\* A running retryLaunch goroutine, an update, and a bot whose Run has not returned.
Loop == [gen : Nat, seq : Nat, conf : Config, fails : 0..MaxFails, cancelled : BOOLEAN,
         pc : {"mark", "build", "backoff", "activate", "reject"}]
Update ==
  [conf : Config, adminOnly : BOOLEAN, built : BOOLEAN, old : Bots \cup {Nil},
   pc : {"build", "commit", "save", "install", "stop", "applied", "rejected"}]
Running == [conf : Config, stopping : BOOLEAN, reports : Nat]

ASSUME SupAssumption ==
  /\ MaxApplies \in Nat /\ MaxFails \in Nat
  /\ Nil \notin Applies /\ Nil \notin Bots
  /\ Nil \notin Update /\ Nil \notin Running

SupTypeOK ==
  /\ seq \in 0..MaxApplies /\ gen \in Nat /\ retrySeq \in Nat
  /\ cfg \in Config /\ disk \in Config
  /\ holder \in Applies \cup {Nil}
  /\ apply \in [Applies -> Update \cup {Nil}]
  /\ current \in Bots \cup {Nil}
  /\ bot \in [Bots -> Running \cup {Nil}]
  /\ loops \subseteq Loop
  /\ status \in {"disabled", "starting", "healthy", "degraded"}
  /\ setters \subseteq [bot : Bots, gen : Nat]
  /\ {retryOn, started, updatable, down} \subseteq BOOLEAN

\* newBotSupervisor: the configuration is the one read from tgbot.json.
SupInit ==
  /\ seq = 0 /\ gen = 1 /\ retrySeq = 0
  /\ cfg \in Config /\ disk = cfg
  /\ holder = Nil /\ apply = [a \in Applies |-> Nil]
  /\ current = Nil /\ bot = [b \in Bots |-> Nil]
  /\ retryOn = FALSE /\ loops = {} /\ setters = {}
  /\ status = IF cfg.token = Nil THEN "disabled" ELSE "starting"
  /\ started = FALSE /\ down = FALSE
  /\ updatable \in BOOLEAN

----------------------------------------------------------------------------
(* Retry loops.                                                             *)

\* The identity a scheduled retry captures.
NewLoop(g, s, conf) ==
  [gen |-> g, seq |-> s, conf |-> conf, fails |-> 0, cancelled |-> FALSE, pc |-> "mark"]

IsCurrent(l) == gen = l.gen /\ retrySeq = l.seq /\ retryOn
MayGoOn(l) == ~l.cancelled /\ ~down /\ IsCurrent(l)
Enter(l, pc) == [l EXCEPT !.pc = pc]

\* retryCancel(): the context of the scheduled loop.
CancelRetry == {IF retryOn /\ l.seq = retrySeq THEN [l EXCEPT !.cancelled = TRUE] ELSE l : l \in loops}

\* Publishes a bot, whose goroutine and health setter then start on their own.
StartBot(conf) ==
  \E b \in Bots :
    /\ bot[b] = Nil
    /\ bot' = [bot EXCEPT ![b] = [conf |-> conf, stopping |-> FALSE, reports |-> 0]]
    /\ current' = b
    /\ status' = "healthy"
    /\ setters' = setters \cup {[bot |-> b, gen |-> gen]}

SupStart ==
  /\ ~started /\ holder = Nil
  /\ started' = TRUE
  /\ \/ /\ current # Nil \/ retryOn
        /\ UNCHANGED <<status, retrySeq, retryOn, loops>>
     \/ /\ current = Nil /\ ~retryOn /\ (cfg.token = Nil \/ down)
        /\ status' = IF cfg.token = Nil THEN "disabled" ELSE "degraded"
        /\ UNCHANGED <<retrySeq, retryOn, loops>>
     \/ /\ current = Nil /\ ~retryOn /\ cfg.token # Nil /\ ~down
        /\ status' = "starting"
        /\ retrySeq' = retrySeq + 1 /\ retryOn' = TRUE
        /\ loops' = loops \cup {NewLoop(gen, retrySeq + 1, cfg)}
  /\ UNCHANGED <<seq, gen, cfg, disk, holder, apply, current, bot, setters, updatable, down>>

\* finishRetryCancellation
Quit(l) ==
  /\ loops' = loops \ {l}
  /\ retryOn' = (retryOn /\ ~IsCurrent(l))
  /\ status' = IF IsCurrent(l) /\ down THEN "degraded" ELSE status

Step(l, next) == loops' = (loops \ {l}) \cup {next}

RetryMark(l) ==
  /\ l.pc = "mark"
  /\ IF MayGoOn(l)
     THEN Step(l, Enter(l, "build")) /\ status' = "starting" /\ UNCHANGED retryOn
     ELSE Quit(l)
  /\ UNCHANGED <<current, bot, setters>>

\* getMe answered; a failure is transient or final (unauthorized, forbidden).
RetryBuild(l) ==
  /\ l.pc = "build"
  /\ \/ Step(l, Enter(l, "activate")) /\ UNCHANGED <<status, retryOn>>
     \/ /\ MayGoOn(l)
        /\ status' = "degraded"
        /\ UNCHANGED retryOn
        /\ \/ l.fails < MaxFails /\ Step(l, [Enter(l, "backoff") EXCEPT !.fails = @ + 1])
           \/ Step(l, Enter(l, "reject"))
     \/ ~MayGoOn(l) /\ Quit(l)
  /\ UNCHANGED <<current, bot, setters>>

RetryBackoff(l) ==
  /\ l.pc = "backoff"
  /\ \/ Step(l, Enter(l, "mark")) /\ UNCHANGED <<retryOn, status>>
     \/ (l.cancelled \/ down) /\ Quit(l)
  /\ UNCHANGED <<current, bot, setters>>

\* finishPermanentRetryFailure: nothing is retried until a new configuration.
RetryReject(l) ==
  /\ l.pc = "reject"
  /\ loops' = loops \ {l}
  /\ retryOn' = (retryOn /\ ~IsCurrent(l))
  /\ UNCHANGED <<status, current, bot, setters>>

\* Defect: what was current before getMe is taken to be current after it.
RetryActivateUnchecked(l) ==
  /\ l.pc = "activate" /\ holder = Nil
  /\ loops' = loops \ {l} /\ retryOn' = FALSE /\ StartBot(l.conf)

RetryActivate(l) ==
  /\ l.pc = "activate" /\ holder = Nil
  /\ IF MayGoOn(l)
     THEN loops' = loops \ {l} /\ retryOn' = FALSE /\ StartBot(l.conf)
     ELSE Quit(l) /\ UNCHANGED <<current, bot, setters>>

RetryStep ==
  /\ \E l \in loops :
       RetryMark(l) \/ RetryBuild(l) \/ RetryBackoff(l) \/ RetryReject(l) \/ RetryActivate(l)
  /\ UNCHANGED <<seq, gen, cfg, disk, holder, apply, retrySeq, started, updatable, down>>

----------------------------------------------------------------------------
(* Apply.                                                                   *)

Phase(a, pc) == apply[a] # Nil /\ apply[a].pc = pc
SetPhase(a, pc) == apply' = [apply EXCEPT ![a].pc = pc]
Fail(a) == SetPhase(a, "rejected")

\* The order is allocated under transitionMu, the token is looked up with it.
ApplyBegin(a) ==
  /\ a = seq + 1 /\ holder = Nil
  /\ seq' = a
  /\ \E t \in Tokens \cup {Nil, Keep}, admins \in AdminSets :
       LET token == IF t = Keep THEN cfg.token ELSE t
           adminOnly == token = cfg.token
           build == token # Nil /\ (~adminOnly \/ (current # Nil /\ ~updatable))
       IN apply' = [apply EXCEPT ![a] =
                      [conf |-> [token |-> token, admins |-> admins],
                       adminOnly |-> adminOnly, built |-> FALSE, old |-> Nil,
                       pc |-> IF build THEN "build" ELSE "commit"]]
  /\ UNCHANGED <<gen, cfg, disk, holder, current, bot, retryOn, retrySeq, loops, status, setters>>

\* getMe runs outside both locks.
ApplyBuild(a) ==
  /\ Phase(a, "build")
  /\ \/ apply' = [apply EXCEPT ![a].pc = "commit", ![a].built = TRUE]
     \/ Fail(a)
  /\ UNCHANGED <<seq, gen, cfg, disk, holder, current, bot, retryOn, retrySeq, loops, status, setters>>

Superseded(a) == a # seq

\* Defect: the request number is not compared after getMe.
ApplyLockAnyOrder(a) ==
  /\ Phase(a, "commit") /\ holder = Nil
  /\ SetPhase(a, "save") /\ holder' = a
  /\ UNCHANGED <<seq, gen, cfg, disk, current, bot, retryOn, retrySeq, loops, status, setters>>

ApplyLock(a) ==
  /\ Phase(a, "commit") /\ holder = Nil
  /\ IF Superseded(a) \/ down
     THEN Fail(a) /\ UNCHANGED holder
     ELSE SetPhase(a, "save") /\ holder' = a
  /\ UNCHANGED <<seq, gen, cfg, disk, current, bot, retryOn, retrySeq, loops, status, setters>>

\* Defect: transitionMu is not released when the file cannot be written.
ApplySaveKeepsLock(a) ==
  /\ Phase(a, "save") /\ UNCHANGED holder
  /\ (disk' = apply[a].conf /\ SetPhase(a, "install")) \/ (Fail(a) /\ UNCHANGED disk)
  /\ UNCHANGED <<seq, gen, cfg, current, bot, retryOn, retrySeq, loops, status, setters>>

ApplySave(a) ==
  /\ Phase(a, "save")
  /\ \/ disk' = apply[a].conf /\ SetPhase(a, "install") /\ UNCHANGED holder
     \/ Fail(a) /\ holder' = Nil /\ UNCHANGED disk
  /\ UNCHANGED <<seq, gen, cfg, current, bot, retryOn, retrySeq, loops, status, setters>>

\* detachRunnerLocked and the cancel of stopBotRunner.
Detach(a, pc) ==
  /\ current' = Nil
  /\ bot' = IF current = Nil THEN bot ELSE [bot EXCEPT ![current].stopping = TRUE]
  /\ apply' = [apply EXCEPT ![a].pc = pc, ![a].old = current]
  /\ UNCHANGED <<holder, setters>>

\* ReplaceAdmins on the live bot, and a new reporter for the new generation.
UpdateAdmins(a) ==
  /\ bot' = [bot EXCEPT ![current].conf = apply[a].conf]
  /\ setters' = setters \cup {[bot |-> current, gen |-> gen + 1]}
  /\ SetPhase(a, "applied") /\ holder' = Nil
  /\ UNCHANGED <<current, status, retryOn, retrySeq>>

ApplyInstall(a) ==
  /\ Phase(a, "install")
  /\ gen' = gen + 1 /\ cfg' = apply[a].conf
  /\ loops' = CancelRetry
  /\ LET inPlace == apply[a].adminOnly /\ current # Nil /\ updatable
         restart == apply[a].adminOnly /\ ~apply[a].built
     IN \/ inPlace /\ UpdateAdmins(a)
        \/ /\ ~inPlace /\ apply[a].conf.token = Nil
           /\ Detach(a, "stop") /\ status' = "disabled"
           /\ retryOn' = FALSE /\ UNCHANGED retrySeq
        \/ /\ ~inPlace /\ apply[a].conf.token # Nil /\ restart
           /\ Detach(a, "stop") /\ status' = "starting"
           /\ retryOn' = TRUE /\ retrySeq' = retrySeq + 1
        \/ /\ ~inPlace /\ apply[a].conf.token # Nil /\ ~restart
           /\ Detach(a, "stop") /\ status' = "starting"
           /\ retryOn' = FALSE /\ UNCHANGED retrySeq
  /\ UNCHANGED <<seq, disk>>

\* Defect: the old bot is cancelled and not waited for.
NotAwaited(b) == b \in Bots \cup {Nil}
Stopped(b) == b \notin {x \in Bots : bot[x] # Nil}

\* The old bot is waited for while transitionMu is held.
ApplyFinish(a) ==
  /\ Phase(a, "stop") /\ Stopped(apply[a].old)
  /\ SetPhase(a, "applied") /\ holder' = Nil
  /\ LET conf == apply[a].conf
         restart == apply[a].adminOnly /\ ~apply[a].built
     IN \/ conf.token = Nil /\ UNCHANGED <<bot, current, status, setters, loops>>
        \/ /\ conf.token # Nil /\ restart
           /\ loops' = loops \cup {NewLoop(gen, retrySeq, conf)}
           /\ UNCHANGED <<bot, current, status, setters>>
        \/ conf.token # Nil /\ ~restart /\ StartBot(conf) /\ UNCHANGED loops
  /\ UNCHANGED <<seq, gen, cfg, disk, retryOn, retrySeq>>

ApplyStep(a) ==
  /\ \/ ApplyBegin(a) \/ ApplyBuild(a) \/ ApplyLock(a) \/ ApplySave(a)
     \/ ApplyInstall(a) \/ ApplyFinish(a)
  /\ UNCHANGED <<started, updatable, down>>

----------------------------------------------------------------------------
(* The bot's goroutine, its reports, and the shutdown of the process.        *)

\* runAndObserve: a bot that returns without being replaced is degraded.
BotEnds(b) ==
  /\ bot[b] # Nil
  /\ bot' = [bot EXCEPT ![b] = Nil]
  /\ setters' = {s \in setters : s.bot # b}
  /\ current' = IF current = b THEN Nil ELSE current
  /\ status' = IF current = b THEN "degraded" ELSE status
  /\ UNCHANGED <<seq, gen, cfg, disk, holder, apply, retryOn, retrySeq, loops, started, updatable, down>>

InstallReporter(s) ==
  /\ bot' = [bot EXCEPT ![s.bot].reports = s.gen]
  /\ setters' = setters \ {s}
  /\ UNCHANGED <<seq, gen, cfg, disk, holder, apply, current, retryOn, retrySeq, loops, status, started, updatable, down>>

\* Defect: any bot that still polls is believed.
HeardAlways(b) == bot[b].reports <= gen

\* The callback counts only for the published bot of this generation.
Heard(b) == current = b /\ bot[b].reports = gen

Report(b) ==
  /\ bot[b] # Nil /\ bot[b].reports # 0 /\ Heard(b)
  /\ status' \in {"healthy", "degraded"}
  /\ UNCHANGED <<seq, gen, cfg, disk, holder, apply, current, bot, retryOn, retrySeq, loops, setters, started, updatable, down>>

Shutdown ==
  /\ ~down /\ down' = TRUE
  /\ UNCHANGED <<seq, gen, cfg, disk, holder, apply, current, bot, retryOn, retrySeq, loops, status, setters, started, updatable>>

SupNext ==
  \/ SupStart
  \/ RetryStep
  \/ \E a \in Applies : ApplyStep(a)
  \/ \E b \in Bots : BotEnds(b) \/ Report(b)
  \/ \E s \in setters : InstallReporter(s)
  \/ Shutdown

\* Goroutines run and a cancelled bot returns; nothing makes a console send updates, and
\* nothing makes a bot fail.
Working ==
  \/ RetryStep
  \/ \E a \in Applies : apply[a] # Nil /\ ApplyStep(a)
  \/ \E b \in Bots : (IF bot[b] = Nil THEN FALSE ELSE bot[b].stopping \/ down) /\ BotEnds(b)

SupFairness == WF_supVars(SupStart) /\ WF_supVars(Working)

SupSpec == SupInit /\ [][SupNext]_supVars /\ SupFairness
----------------------------------------------------------------------------
(* Properties.                                                              *)

\* Concurrent updates are last-request-wins, on disk as in memory: while no commit
\* is under way tgbot.json is the live configuration, and the newest update, once
\* applied, is what both hold.
LastRequestWins ==
  /\ holder = Nil => disk = cfg
  /\ \A a \in Applies : Phase(a, "applied") /\ ~Superseded(a) => cfg = apply[a].conf

\* Two bots never poll with a token at the same time, the one being replaced
\* included: Telegram answers the second long poll with a conflict.
OneBot == Cardinality({b \in Bots : bot[b] # Nil}) <= 1

\* The published bot runs with the committed token and obeys the committed
\* administrators: a retry that built its bot for an earlier set never activates it.
ServesCommitted == current # Nil => bot[current].conf = cfg

\* What the console shows is what happens: healthy or degraded-by-report means a
\* published bot; "starting" is no dead end (a commit, or a retry loop that is
\* current and not cancelled, is on the way).
StatusHonest ==
  /\ status = "healthy" => current # Nil
  /\ status = "disabled" => cfg.token = Nil
  /\ started /\ holder = Nil /\ status = "starting" /\ ~down
       => \E l \in loops : IsCurrent(l) /\ ~l.cancelled

\* Every update returns and no retry loop outlives its configuration: since only
\* MaxApplies updates arrive, there is again and again none under way.
AppliesSettle ==
  []<>(/\ \A a \in Applies : apply[a] = Nil \/ Phase(a, "applied") \/ Phase(a, "rejected")
       /\ \A l \in loops : ~l.cancelled)

\* "a non-nil error marks the still-live runner degraded": once no setter is left,
\* the published bot's reports count.
ReportsHeard == current # Nil /\ setters = {} => Heard(current)
=============================================================================
