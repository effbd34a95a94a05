---------------------------- MODULE ConsoleProofs ----------------------------
(* Proofs about BotSupervisor and Marketplace: one update of the bot at a time   *)
(* commits, and what polls Telegram is one bot with the committed configuration; *)
(* what a marketplace writes or installs is what its caller saw. The last        *)
(* section composes them with the conversations of the bot (BotProofs).          *)
EXTENDS MCConsole, BotProofs

\* The old bot is awaited before a retry loop starts again, not before a new bot.
Restarts(a) == apply[a].conf.token # Nil /\ apply[a].adminOnly /\ ~apply[a].built

\* Who holds transitionMu is between its check and its end, and it is the newest.
HolderInv ==
  \A a \in Applies :
    /\ apply[a] # Nil => a <= seq
    /\ holder = a <=> (Phase(a, "save") \/ Phase(a, "install") \/ Phase(a, "stop"))
    /\ holder = a => a = seq

DiskInv ==
  /\ holder = Nil => disk = cfg
  /\ \A a \in Applies :
       /\ Phase(a, "save") => disk = cfg
       /\ Phase(a, "install") => disk = apply[a].conf
       /\ Phase(a, "stop") => disk = cfg /\ cfg = apply[a].conf
       /\ Phase(a, "applied") /\ a = seq => cfg = apply[a].conf

\* An update in place never changes the token.
AdminInv ==
  \A a \in Applies :
    (Phase(a, "build") \/ Phase(a, "commit") \/ Phase(a, "save") \/ Phase(a, "install"))
      /\ a = seq /\ apply[a].adminOnly => apply[a].conf.token = cfg.token

\* What polls is the published bot, or the one that a commit waits for.
BotInv ==
  /\ current # Nil => bot[current] # Nil /\ bot[current].conf = cfg
  /\ \A b \in Bots : bot[b] # Nil =>
       b = current \/ \E a \in Applies : Phase(a, "stop") /\ apply[a].old = b
  /\ \A a \in Applies : Phase(a, "stop") => current = Nil
  /\ \A s \in setters : bot[s.bot] # Nil

\* A loop of this generation retries the committed configuration and is not cancelled.
LoopInv ==
  \A l \in loops :
    /\ l.gen <= gen /\ l.seq <= retrySeq
    /\ l.gen = gen => l.conf = cfg
    /\ l.cancelled => l.gen < gen
    /\ IsCurrent(l) /\ l.pc \in {"backoff", "reject"} => status # "starting"
    /\ \A m \in loops : l.seq = m.seq => l = m
    /\ \A a \in Applies : Phase(a, "stop") => l.gen < gen /\ (Restarts(a) => l.seq < retrySeq)

RetryInv ==
  /\ retryOn => current = Nil
  /\ \A a \in Applies : Phase(a, "stop") => (retryOn <=> Restarts(a))

NoneStops == \A a \in Applies : ~Phase(a, "stop")
OnItsWay == \E l \in loops : IsCurrent(l) /\ ~l.cancelled

StatusInv ==
  /\ status = "healthy" => current # Nil
  /\ status = "disabled" => cfg.token = Nil
  /\ current # Nil => status \in {"healthy", "degraded"}
  /\ \A a \in Applies : Phase(a, "stop") /\ apply[a].conf.token = Nil => status # "starting"
  /\ (started \/ retryOn) /\ ~down /\ status = "starting" /\ NoneStops => OnItsWay

SupInv ==
  /\ SupTypeOK
  /\ HolderInv /\ DiskInv /\ AdminInv
  /\ BotInv /\ LoopInv /\ RetryInv /\ StatusInv

-----------------------------------------------------------------------------
LEMMA SupInitInv == SupInit => SupInv
<1> SUFFICES ASSUME SupInit PROVE SupInv
  OBVIOUS
<1> USE SupAssumption DEF SupInit
<1>1. SupTypeOK
  <2>1. cfg \in Config /\ disk \in Config
    OBVIOUS
  <2>2. apply \in [Applies -> Update \cup {Nil}] /\ bot \in [Bots -> Running \cup {Nil}]
    OBVIOUS
  <2>3. seq \in 0..MaxApplies /\ gen \in Nat /\ retrySeq \in Nat
    OBVIOUS
  <2> QED BY <2>1, <2>2, <2>3 DEF SupTypeOK
<1>2. \A a \in Applies : apply[a] = Nil /\ holder # a
  OBVIOUS
<1>3. \A b \in Bots : bot[b] = Nil
  OBVIOUS
<1>4. HolderInv /\ DiskInv /\ AdminInv
  BY <1>2 DEF HolderInv, DiskInv, AdminInv, Phase
<1>5. BotInv /\ LoopInv /\ RetryInv
  BY <1>2, <1>3 DEF BotInv, LoopInv, RetryInv, Phase
<1>6. StatusInv
  BY <1>2 DEF StatusInv, Phase
<1> QED BY <1>1, <1>4, <1>5, <1>6 DEF SupInv

-----------------------------------------------------------------------------
(* What a step that leaves their variables alone keeps.                       *)

\* While an update is being committed no other is, and none waits for an old bot
\* while the lock is free.
LEMMA OneCommits ==
  ASSUME SupAssumption, HolderInv, NEW a \in Applies, NEW b \in Applies, Phase(b, "stop")
  PROVE  /\ holder # Nil
         /\ holder = a => a = b
         /\ Phase(a, "save") \/ Phase(a, "install") \/ Phase(a, "stop") => a = b
BY SupAssumption DEF HolderInv

LEMMA FreeNoneStops ==
  ASSUME SupAssumption, HolderInv, holder = Nil
  PROVE  NoneStops
BY DEF HolderInv, NoneStops

LEMMA RequestsKept ==
  ASSUME HolderInv, DiskInv, AdminInv, UNCHANGED <<seq, cfg, disk, holder, apply>>
  PROVE  HolderInv' /\ DiskInv' /\ AdminInv'
BY DEF HolderInv, DiskInv, AdminInv, Phase

\* No update begins or ends its wait for an old bot.
SameStops ==
  \A a \in Applies : /\ Phase(a, "stop")' <=> Phase(a, "stop")
                     /\ Phase(a, "stop") => apply'[a] = apply[a]

LEMMA RestKept ==
  ASSUME BotInv, LoopInv, RetryInv, StatusInv, SameStops,
         UNCHANGED <<gen, cfg, current, bot, setters, loops, retryOn, retrySeq, status,
                     started, down>>
  PROVE  BotInv' /\ LoopInv' /\ RetryInv' /\ StatusInv'
<1>1. BotInv'
  BY DEF BotInv, SameStops
<1>2. LoopInv'
  BY DEF LoopInv, SameStops, IsCurrent, Restarts
<1>3. RetryInv'
  BY DEF RetryInv, SameStops, Restarts
<1>4. StatusInv'
  BY DEF StatusInv, SameStops, NoneStops, OnItsWay, IsCurrent
<1> QED BY <1>1, <1>2, <1>3, <1>4

-----------------------------------------------------------------------------
(* The updates.                                                              *)

\* What an update's request becomes; the others keep theirs.
LEMMA PhaseSet ==
  ASSUME SupAssumption, SupTypeOK, NEW a \in Applies, apply[a] # Nil,
         NEW pc \in {"build", "commit", "save", "install", "stop", "applied", "rejected"},
         SetPhase(a, pc)
  PROVE  /\ apply' \in [Applies -> Update \cup {Nil}]
         /\ apply'[a] # Nil /\ apply'[a].pc = pc /\ apply'[a].conf = apply[a].conf
         /\ apply'[a].adminOnly = apply[a].adminOnly /\ apply'[a].built = apply[a].built
         /\ apply'[a].old = apply[a].old
         /\ \A x \in Applies : x # a => apply'[x] = apply[x]
<1>1. apply \in [Applies -> Update \cup {Nil}] /\ apply[a] \in Update
  BY DEF SupTypeOK
<1> DEFINE r == [apply[a] EXCEPT !.pc = pc]
<1>2. r \in Update /\ r.pc = pc /\ r.conf = apply[a].conf /\ r.old = apply[a].old
      /\ r.adminOnly = apply[a].adminOnly /\ r.built = apply[a].built
  BY <1>1 DEF Update
<1>3. apply' = [apply EXCEPT ![a] = r]
  BY DEF SetPhase
<1>4. r # Nil
  BY <1>2, SupAssumption
<1> HIDE DEF r
<1> QED BY <1>1, <1>2, <1>3, <1>4

LEMMA BeginInv ==
  ASSUME SupAssumption, SupInv, NEW a \in Applies, ApplyBegin(a),
         UNCHANGED <<started, updatable, down>>
  PROVE  SupInv'
<1>1. PICK t \in Tokens \cup {Nil, Keep}, adminSet \in AdminSets :
        LET token == IF t = Keep THEN cfg.token ELSE t
            adminOnly == token = cfg.token
            build == token # Nil /\ (~adminOnly \/ (current # Nil /\ ~updatable))
        IN apply' = [apply EXCEPT ![a] =
                       [conf |-> [token |-> token, admins |-> adminSet],
                        adminOnly |-> adminOnly, built |-> FALSE, old |-> Nil,
                        pc |-> IF build THEN "build" ELSE "commit"]]
  BY DEF ApplyBegin
<1> DEFINE token == IF t = Keep THEN cfg.token ELSE t
           new == [conf |-> [token |-> token, admins |-> adminSet],
                   adminOnly |-> token = cfg.token, built |-> FALSE, old |-> Nil,
                   pc |-> IF token # Nil /\ (token # cfg.token \/ (current # Nil /\ ~updatable))
                          THEN "build" ELSE "commit"]
<1>2. apply \in [Applies -> Update \cup {Nil}] /\ cfg.token \in Tokens \cup {Nil}
  BY DEF SupInv, SupTypeOK, Config
<1>3. apply' = [apply EXCEPT ![a] = new]
  BY <1>1
<1>4. new \in Update
  BY <1>2 DEF Update, Config
<1>5. new # Nil /\ new.pc \in {"build", "commit"} /\ (new.adminOnly => new.conf.token = cfg.token)
  BY <1>4, SupAssumption
<1> HIDE DEF new
<1>6. apply'[a] = new /\ \A x \in Applies : x # a => apply'[x] = apply[x]
  BY <1>2, <1>3
<1>7. seq' = a /\ a = seq + 1 /\ holder = Nil /\ a \in 0..MaxApplies /\ seq \in 0..MaxApplies
  BY SupAssumption DEF ApplyBegin, SupInv, SupTypeOK, Applies
<1>8. UNCHANGED <<gen, cfg, disk, holder, current, bot, retryOn, retrySeq, loops, status,
                  setters, started, updatable, down>>
  BY DEF ApplyBegin
<1>9. \A x \in Applies : apply[x] # Nil => x <= seq /\ x # a
  BY <1>7, SupAssumption DEF SupInv, HolderInv, Applies
<1>10. \A x \in Applies : ~Phase(x, "save") /\ ~Phase(x, "install") /\ ~Phase(x, "stop")
  BY <1>7, SupAssumption DEF SupInv, HolderInv
<1>11. SupTypeOK'
  BY <1>2, <1>3, <1>4, <1>7, <1>8 DEF SupInv, SupTypeOK
<1>12. HolderInv'
  <2> SUFFICES ASSUME NEW x \in Applies
               PROVE  /\ apply'[x] # Nil => x <= seq'
                      /\ holder' = x <=> (Phase(x, "save")' \/ Phase(x, "install")' \/ Phase(x, "stop")')
                      /\ holder' = x => x = seq'
    BY DEF HolderInv
  <2>1. holder' # x
    BY <1>7, <1>8, SupAssumption
  <2>2. apply'[x] # Nil => x <= seq'
    <3>1. CASE x = a
      BY <3>1, <1>7, SupAssumption DEF Applies
    <3>2. CASE x # a
      BY <3>2, <1>6, <1>7, <1>9, SupAssumption DEF Applies
    <3> QED BY <3>1, <3>2
  <2>3. ~Phase(x, "save")' /\ ~Phase(x, "install")' /\ ~Phase(x, "stop")'
    BY <1>5, <1>6, <1>10 DEF Phase
  <2> QED BY <2>1, <2>2, <2>3
<1>13. DiskInv'
  <2>1. \A x \in Applies : ~Phase(x, "save")' /\ ~Phase(x, "install")' /\ ~Phase(x, "stop")'
    BY <1>5, <1>6, <1>10 DEF Phase
  <2>2. \A x \in Applies : Phase(x, "applied")' => x # seq'
    BY <1>5, <1>6, <1>7 DEF Phase
  <2> QED BY <2>1, <2>2, <1>7, <1>8 DEF SupInv, DiskInv
<1>14. AdminInv'
  <2> SUFFICES ASSUME NEW x \in Applies, x = seq', apply'[x].adminOnly
               PROVE  apply'[x].conf.token = cfg'.token
    BY DEF AdminInv
  <2> QED BY <1>5, <1>6, <1>7, <1>8
<1>15. SameStops
  BY <1>5, <1>6, <1>10 DEF SameStops, Phase
<1> QED BY <1>8, <1>11, <1>12, <1>13, <1>14, <1>15, RestKept DEF SupInv

\* An update that moves on without the lock, or with it to the write of the file.
LEMMA MovedInv ==
  ASSUME SupAssumption, SupInv, NEW a \in Applies, apply[a] # Nil,
         NEW pc \in {"commit", "rejected", "save", "install"},
         apply'[a] # Nil, apply'[a].pc = pc, apply'[a].conf = apply[a].conf,
         apply'[a].adminOnly = apply[a].adminOnly,
         \A x \in Applies : x # a => apply'[x] = apply[x],
         ~Phase(a, "stop"), ~Phase(a, "applied"),
         UNCHANGED <<seq, cfg>>
  PROVE  /\ SameStops
         /\ \A x \in Applies : apply'[x] # Nil => x <= seq'
         /\ \A x \in Applies : x # a => \A p \in {"save", "install", "stop", "applied"} :
              Phase(x, p)' <=> Phase(x, p)
         /\ pc = "rejected" \/ ~Phase(a, "rejected") => AdminInv'
<1>1. SameStops
  BY DEF SameStops, Phase
<1>2. \A x \in Applies : apply'[x] # Nil => x <= seq'
  BY DEF SupInv, HolderInv
<1>3. \A x \in Applies : x # a => \A p \in {"save", "install", "stop", "applied"} :
              Phase(x, p)' <=> Phase(x, p)
  BY DEF Phase
<1>4. ASSUME pc = "rejected" \/ ~Phase(a, "rejected")
      PROVE  AdminInv'
  <2> SUFFICES ASSUME NEW x \in Applies, x = seq', apply'[x].adminOnly,
                      Phase(x, "build")' \/ Phase(x, "commit")' \/ Phase(x, "save")'
                        \/ Phase(x, "install")'
               PROVE  apply'[x].conf.token = cfg'.token
    BY DEF AdminInv
  <2>1. CASE x # a
    BY <2>1 DEF SupInv, AdminInv, Phase
  <2>2. CASE x = a
    <3>1. pc # "rejected" /\ ~Phase(a, "rejected")
      BY <2>2, <1>4 DEF Phase
    <3>2. Phase(a, "build") \/ Phase(a, "commit") \/ Phase(a, "save") \/ Phase(a, "install")
      <4>1. apply[a] \in Update
        BY DEF SupInv, SupTypeOK
      <4> QED BY <3>1, <4>1 DEF Phase, Update
    <3> QED BY <2>2, <3>2 DEF SupInv, AdminInv
  <2> QED BY <2>1, <2>2
<1> QED BY <1>1, <1>2, <1>3, <1>4

LEMMA BuildInv ==
  ASSUME SupAssumption, SupInv, NEW a \in Applies, ApplyBuild(a),
         UNCHANGED <<started, updatable, down>>
  PROVE  SupInv'
<1>1. apply \in [Applies -> Update \cup {Nil}] /\ apply[a] # Nil /\ apply[a] \in Update
      /\ apply[a].pc = "build"
  BY DEF ApplyBuild, Phase, SupInv, SupTypeOK
<1>2. PICK pc \in {"commit", "rejected"}, built \in BOOLEAN :
        apply' = [apply EXCEPT ![a] = [apply[a] EXCEPT !.pc = pc, !.built = built]]
  <2>1. CASE apply' = [apply EXCEPT ![a].pc = "commit", ![a].built = TRUE]
    <3>1. apply' = [apply EXCEPT ![a] = [apply[a] EXCEPT !.pc = "commit", !.built = TRUE]]
      BY <2>1, <1>1 DEF Update
    <3> QED BY <3>1
  <2>2. CASE Fail(a)
    <3>1. [apply[a] EXCEPT !.pc = "rejected", !.built = apply[a].built]
            = [apply[a] EXCEPT !.pc = "rejected"]
      BY <1>1 DEF Update
    <3>2. apply[a].built \in BOOLEAN
      BY <1>1 DEF Update
    <3> QED BY <2>2, <3>1, <3>2 DEF Fail, SetPhase
  <2> QED BY <2>1, <2>2 DEF ApplyBuild
<1> DEFINE r == [apply[a] EXCEPT !.pc = pc, !.built = built]
<1>3. r \in Update /\ r.pc = pc /\ r.conf = apply[a].conf /\ r.adminOnly = apply[a].adminOnly
  BY <1>1 DEF Update
<1>4. r # Nil /\ apply' = [apply EXCEPT ![a] = r]
  BY <1>2, <1>3, SupAssumption
<1> HIDE DEF r
<1>5. apply'[a] = r /\ \A x \in Applies : x # a => apply'[x] = apply[x]
  BY <1>1, <1>4
<1>6. UNCHANGED <<seq, gen, cfg, disk, holder, current, bot, retryOn, retrySeq, loops, status,
                  setters, started, updatable, down>>
  BY DEF ApplyBuild
<1>7. SupTypeOK'
  BY <1>1, <1>3, <1>4, <1>6 DEF SupInv, SupTypeOK
<1>8. /\ SameStops
      /\ \A x \in Applies : apply'[x] # Nil => x <= seq'
      /\ \A x \in Applies : x # a => \A p \in {"save", "install", "stop", "applied"} :
           Phase(x, p)' <=> Phase(x, p)
      /\ AdminInv'
  BY <1>1, <1>3, <1>4, <1>5, <1>6, MovedInv DEF Phase
<1>9. \A x \in Applies : \A p \in {"save", "install", "stop", "applied"} :
           Phase(x, p)' <=> Phase(x, p)
  BY <1>1, <1>3, <1>5, <1>8 DEF Phase
<1>10. HolderInv'
  BY <1>6, <1>8, <1>9 DEF SupInv, HolderInv
<1>11. DiskInv'
  <2>1. \A x \in Applies : apply'[x] # Nil => apply'[x].conf = apply[x].conf
    BY <1>3, <1>5
  <2> QED BY <2>1, <1>6, <1>9 DEF SupInv, DiskInv, Phase
<1> QED BY <1>6, <1>7, <1>8, <1>10, <1>11, RestKept DEF SupInv

LEMMA LockInv ==
  ASSUME SupAssumption, SupInv, NEW a \in Applies, ApplyLock(a),
         UNCHANGED <<started, updatable, down>>
  PROVE  SupInv'
<1>1. PICK pc \in {"save", "rejected"} :
        /\ SetPhase(a, pc)
        /\ pc = "save" => holder' = a /\ a = seq
        /\ pc = "rejected" => holder' = holder
  BY DEF ApplyLock, Fail, Superseded
<1>2. apply[a] # Nil /\ apply[a].pc = "commit" /\ holder = Nil
  BY DEF ApplyLock, Phase
<1>3. /\ apply' \in [Applies -> Update \cup {Nil}]
      /\ apply'[a] # Nil /\ apply'[a].pc = pc /\ apply'[a].conf = apply[a].conf
      /\ apply'[a].adminOnly = apply[a].adminOnly
      /\ \A x \in Applies : x # a => apply'[x] = apply[x]
  BY <1>1, <1>2, PhaseSet DEF SupInv
<1>4. UNCHANGED <<seq, gen, cfg, disk, current, bot, retryOn, retrySeq, loops, status,
                  setters, started, updatable, down>>
  BY DEF ApplyLock
<1>5. SupTypeOK'
  BY <1>1, <1>2, <1>3, <1>4 DEF SupInv, SupTypeOK
<1>6. /\ SameStops
      /\ \A x \in Applies : apply'[x] # Nil => x <= seq'
      /\ \A x \in Applies : x # a => \A p \in {"save", "install", "stop", "applied"} :
           Phase(x, p)' <=> Phase(x, p)
      /\ AdminInv'
  BY <1>2, <1>3, <1>4, MovedInv DEF Phase
<1>7. \A x \in Applies : ~Phase(x, "save") /\ ~Phase(x, "install") /\ ~Phase(x, "stop")
  BY <1>2, SupAssumption DEF SupInv, HolderInv
<1>8. \A x \in Applies : x # a => ~Phase(x, "save")' /\ ~Phase(x, "install")' /\ ~Phase(x, "stop")'
  BY <1>6, <1>7
<1>9. HolderInv'
  <2>1. CASE pc = "save"
    BY <2>1, <1>1, <1>3, <1>4, <1>6, <1>8, SupAssumption DEF HolderInv, Phase
  <2>2. CASE pc = "rejected"
    BY <2>2, <1>1, <1>2, <1>3, <1>4, <1>6, <1>8, SupAssumption DEF HolderInv, Phase
  <2> QED BY <2>1, <2>2
<1>10. DiskInv'
  <2>1. disk = cfg
    BY <1>2 DEF SupInv, DiskInv
  <2>2. \A x \in Applies : Phase(x, "applied")' => Phase(x, "applied") /\ apply'[x].conf = apply[x].conf
    BY <1>3 DEF Phase
  <2>3. \A x \in Applies : ~Phase(x, "install")' /\ ~Phase(x, "stop")'
    BY <1>3, <1>8 DEF Phase
  <2> QED BY <2>1, <2>2, <2>3, <1>4 DEF SupInv, DiskInv
<1> QED BY <1>4, <1>5, <1>6, <1>9, <1>10, RestKept DEF SupInv

LEMMA SaveInv ==
  ASSUME SupAssumption, SupInv, NEW a \in Applies, ApplySave(a),
         UNCHANGED <<started, updatable, down>>
  PROVE  SupInv'
<1>1. PICK pc \in {"install", "rejected"} :
        /\ SetPhase(a, pc)
        /\ pc = "install" => disk' = apply[a].conf /\ holder' = holder
        /\ pc = "rejected" => disk' = disk /\ holder' = Nil
  BY DEF ApplySave, Fail
<1>2. apply[a] # Nil /\ apply[a].pc = "save" /\ holder = a /\ a = seq /\ apply[a].conf \in Config
  <2>1. apply[a] # Nil /\ apply[a].pc = "save"
    BY DEF ApplySave, Phase
  <2> QED BY <2>1 DEF SupInv, HolderInv, Phase, SupTypeOK, Update
<1>3. /\ apply' \in [Applies -> Update \cup {Nil}]
      /\ apply'[a] # Nil /\ apply'[a].pc = pc /\ apply'[a].conf = apply[a].conf
      /\ apply'[a].adminOnly = apply[a].adminOnly
      /\ \A x \in Applies : x # a => apply'[x] = apply[x]
  BY <1>1, <1>2, PhaseSet DEF SupInv
<1>4. UNCHANGED <<seq, gen, cfg, current, bot, retryOn, retrySeq, loops, status,
                  setters, started, updatable, down>>
  BY DEF ApplySave
<1>5. SupTypeOK'
  BY <1>1, <1>2, <1>3, <1>4 DEF SupInv, SupTypeOK
<1>6. /\ SameStops
      /\ \A x \in Applies : apply'[x] # Nil => x <= seq'
      /\ \A x \in Applies : x # a => \A p \in {"save", "install", "stop", "applied"} :
           Phase(x, p)' <=> Phase(x, p)
      /\ AdminInv'
  BY <1>2, <1>3, <1>4, MovedInv DEF Phase
<1>7. \A x \in Applies : x # a => ~Phase(x, "save") /\ ~Phase(x, "install") /\ ~Phase(x, "stop")
  BY <1>2 DEF SupInv, HolderInv
<1>8. \A x \in Applies : x # a => ~Phase(x, "save")' /\ ~Phase(x, "install")' /\ ~Phase(x, "stop")'
  BY <1>6, <1>7
<1>9. HolderInv'
  <2>1. CASE pc = "install"
    BY <2>1, <1>1, <1>2, <1>3, <1>4, <1>6, <1>8 DEF HolderInv, Phase
  <2>2. CASE pc = "rejected"
    BY <2>2, <1>1, <1>2, <1>3, <1>4, <1>6, <1>8, SupAssumption DEF HolderInv, Phase
  <2> QED BY <2>1, <2>2
<1>10. DiskInv'
  <2>1. disk = cfg
    BY <1>2 DEF SupInv, DiskInv, Phase
  <2>2. \A x \in Applies : Phase(x, "applied")' => Phase(x, "applied") /\ apply'[x].conf = apply[x].conf
    BY <1>3 DEF Phase
  <2>3. \A x \in Applies : Phase(x, "install")' => x = a /\ pc = "install"
    BY <1>3, <1>8 DEF Phase
  <2>4. \A x \in Applies : ~Phase(x, "save")' /\ ~Phase(x, "stop")'
    BY <1>3, <1>8 DEF Phase
  <2>5. holder' = Nil => pc = "rejected"
    BY <1>1, <1>2, SupAssumption
  <2>6. \A x \in Applies : Phase(x, "install")' => disk' = apply'[x].conf
    BY <2>3, <1>1, <1>3
  <2>7. \A x \in Applies : Phase(x, "applied")' /\ x = seq' => cfg' = apply'[x].conf
    BY <2>2, <1>4 DEF SupInv, DiskInv
  <2>8. holder' = Nil => disk' = cfg'
    BY <2>1, <2>5, <1>1, <1>4
  <2> QED BY <2>4, <2>6, <2>7, <2>8 DEF DiskInv
<1> QED BY <1>4, <1>5, <1>6, <1>9, <1>10, RestKept DEF SupInv

\* Cancelling a retry loop changes nothing else of the loops.
LEMMA CancelKeeps ==
  ASSUME loops \subseteq Loop, NEW k \in CancelRetry
  PROVE  /\ k \in Loop
         /\ \E l \in loops :
              /\ k = IF retryOn /\ l.seq = retrySeq THEN [l EXCEPT !.cancelled = TRUE] ELSE l
              /\ k.gen = l.gen /\ k.seq = l.seq /\ k.conf = l.conf /\ k.pc = l.pc
BY DEF CancelRetry, Loop

\* The requests after an install: one waits at most, and holds what was committed.
LEMMA InstallRequests ==
  ASSUME SupAssumption, SupInv, NEW a \in Applies, Phase(a, "install"),
         NEW pc \in {"applied", "stop"},
         apply'[a] # Nil, apply'[a].pc = pc, apply'[a].conf = apply[a].conf,
         \A x \in Applies : x # a => apply'[x] = apply[x],
         holder' = IF pc = "stop" THEN holder ELSE Nil,
         cfg' = apply[a].conf, UNCHANGED <<seq, disk>>
  PROVE  /\ HolderInv' /\ DiskInv' /\ AdminInv'
         /\ \A x \in Applies : Phase(x, "stop")' => x = a /\ pc = "stop"
<1>1. holder = a /\ a = seq /\ disk = apply[a].conf
  BY DEF SupInv, HolderInv, DiskInv
<1>2. \A x \in Applies : x # a => ~Phase(x, "save")' /\ ~Phase(x, "install")' /\ ~Phase(x, "stop")'
  BY <1>1 DEF SupInv, HolderInv, Phase
<1>3. \A x \in Applies : Phase(x, "stop")' => x = a /\ pc = "stop"
  BY <1>2 DEF Phase
<1>4. HolderInv'
  <2> SUFFICES ASSUME NEW x \in Applies
               PROVE  /\ apply'[x] # Nil => x <= seq'
                      /\ holder' = x <=> (Phase(x, "save")' \/ Phase(x, "install")' \/ Phase(x, "stop")')
                      /\ holder' = x => x = seq'
    BY DEF HolderInv
  <2>1. CASE x = a
    BY <2>1, <1>1, SupAssumption DEF Phase, SupInv, HolderInv
  <2>2. CASE x # a
    BY <2>2, <1>1, <1>2, SupAssumption DEF SupInv, HolderInv
  <2> QED BY <2>1, <2>2
<1>5. DiskInv'
  BY <1>1, <1>2 DEF DiskInv, Phase
<1>6. AdminInv'
  BY <1>1 DEF AdminInv, Phase
<1> QED BY <1>3, <1>4, <1>5, <1>6

LEMMA InstallInv ==
  ASSUME SupAssumption, SupInv, NEW a \in Applies, ApplyInstall(a),
         UNCHANGED <<started, updatable, down>>
  PROVE  SupInv'
<1> DEFINE conf == apply[a].conf
           inPlace == apply[a].adminOnly /\ current # Nil /\ updatable
           restart == apply[a].adminOnly /\ ~apply[a].built
<1>1. /\ Phase(a, "install") /\ apply[a] # Nil /\ apply[a].pc = "install"
      /\ gen' = gen + 1 /\ cfg' = conf /\ loops' = CancelRetry /\ UNCHANGED <<seq, disk>>
  BY DEF ApplyInstall, Phase
<1>2. /\ apply \in [Applies -> Update \cup {Nil}] /\ apply[a] \in Update /\ conf \in Config
      /\ bot \in [Bots -> Running \cup {Nil}] /\ current \in Bots \cup {Nil}
      /\ gen \in Nat /\ retrySeq \in Nat /\ retryOn \in BOOLEAN /\ loops \subseteq Loop
      /\ setters \subseteq [bot : Bots, gen : Nat]
  BY <1>1 DEF SupInv, SupTypeOK, Update
<1>3. holder = a /\ a = seq
  BY <1>1 DEF SupInv, HolderInv
<1>4. \A x \in Applies : ~Phase(x, "stop")
  <2>1. \A x \in Applies : Phase(x, "stop") => x = a
    BY <1>3 DEF SupInv, HolderInv
  <2> QED BY <2>1, <1>1 DEF Phase
<1>5. \A b \in Bots : bot[b] # Nil => b = current
  BY <1>4 DEF SupInv, BotInv
\* Every loop is of an older generation now.
<1>6. \A k \in loops' :
        /\ k \in Loop /\ k.gen < gen' /\ k.seq <= retrySeq
        /\ \A m \in loops' : k.seq = m.seq => k = m
  <2> SUFFICES ASSUME NEW k \in CancelRetry
               PROVE  /\ k \in Loop /\ k.gen < gen + 1 /\ k.seq <= retrySeq
                      /\ \A m \in CancelRetry : k.seq = m.seq => k = m
    BY <1>1
  <2>1. k \in Loop
    BY <1>2, CancelKeeps
  <2>2. PICK l \in loops :
          /\ k = IF retryOn /\ l.seq = retrySeq THEN [l EXCEPT !.cancelled = TRUE] ELSE l
          /\ k.gen = l.gen /\ k.seq = l.seq
    BY <1>2, CancelKeeps
  <2>3. l.gen <= gen /\ l.seq <= retrySeq /\ l.gen \in Nat
    BY <1>2 DEF SupInv, LoopInv, Loop
  <2>4. ASSUME NEW m \in CancelRetry, k.seq = m.seq
        PROVE  k = m
    <3>1. PICK j \in loops :
            /\ m = IF retryOn /\ j.seq = retrySeq THEN [j EXCEPT !.cancelled = TRUE] ELSE j
            /\ m.seq = j.seq
      BY <1>2, CancelKeeps
    <3>2. l = j
      BY <3>1, <2>2, <2>4 DEF SupInv, LoopInv
    <3> QED BY <3>1, <3>2, <2>2
  <2> QED BY <2>1, <2>2, <2>3, <2>4, <1>2
<1>7. ASSUME inPlace, UpdateAdmins(a)
      PROVE  SupInv'
  <2>1. /\ apply' \in [Applies -> Update \cup {Nil}]
        /\ apply'[a] # Nil /\ apply'[a].pc = "applied" /\ apply'[a].conf = conf
        /\ \A x \in Applies : x # a => apply'[x] = apply[x]
    BY <1>1, <1>7, PhaseSet DEF UpdateAdmins, SupInv
  <2>2. UNCHANGED <<current, status, retryOn, retrySeq>> /\ holder' = Nil
        /\ bot' = [bot EXCEPT ![current].conf = conf]
        /\ setters' = setters \cup {[bot |-> current, gen |-> gen + 1]}
    BY <1>7 DEF UpdateAdmins
  <2>3. current \in Bots /\ bot[current] # Nil /\ bot[current] \in Running
    BY <1>2, <1>7, SupAssumption DEF SupInv, BotInv
  <2> DEFINE r == [bot[current] EXCEPT !.conf = conf]
  <2>4. r \in Running /\ r # Nil /\ r.conf = conf
    BY <2>3, <1>2, SupAssumption DEF Running
  <2>5. bot' = [bot EXCEPT ![current] = r]
    BY <2>2
  <2> HIDE DEF r
  <2>6. bot' \in [Bots -> Running \cup {Nil}] /\ bot'[current] = r
        /\ \A b \in Bots : b # current => bot'[b] = bot[b]
    BY <2>3, <2>4, <2>5, <1>2
  <2>7. setters' \subseteq [bot : Bots, gen : Nat]
    BY <2>2, <2>3, <1>2
  <2>8. status \in {"healthy", "degraded"} /\ ~retryOn
    BY <1>7 DEF SupInv, StatusInv, RetryInv
  <2>9. SupTypeOK'
    <3>1. loops' \subseteq Loop
      BY <1>6
    <3>2. gen' \in Nat
      BY <1>1, <1>2
    <3> HIDE DEF conf
    <3> QED BY <1>1, <1>2, <2>1, <2>2, <2>6, <2>7, <3>1, <3>2 DEF SupInv, SupTypeOK
  <2>10. /\ HolderInv' /\ DiskInv' /\ AdminInv'
         /\ \A x \in Applies : ~Phase(x, "stop")'
    BY <1>1, <2>1, <2>2, InstallRequests
  <2>11. BotInv'
    <3>1. current' # Nil => bot'[current'] # Nil /\ bot'[current'].conf = cfg'
      BY <2>2, <2>4, <2>6, <1>1
    <3>2. \A b \in Bots : bot'[b] # Nil => b = current'
      BY <2>2, <2>6, <1>5
    <3>3. \A s \in setters' : bot'[s.bot] # Nil
      BY <2>2, <2>4, <2>6, <1>2 DEF SupInv, BotInv
    <3> QED BY <3>1, <3>2, <3>3, <2>10 DEF BotInv
  <2>12. LoopInv'
    BY <1>6, <2>2, <2>10, <1>1, <1>2 DEF LoopInv, IsCurrent, Loop
  <2>13. RetryInv'
    BY <2>2, <2>8, <2>10 DEF RetryInv
  <2>14. StatusInv'
    BY <2>2, <2>8, <2>10, <1>7 DEF StatusInv
  <2> QED BY <2>9, <2>10, <2>11, <2>12, <2>13, <2>14 DEF SupInv
<1>8. ASSUME ~inPlace, Detach(a, "stop"),
             status' = IF conf.token = Nil THEN "disabled" ELSE "starting",
             retryOn' = (conf.token # Nil /\ restart),
             retrySeq' = IF conf.token # Nil /\ restart THEN retrySeq + 1 ELSE retrySeq
      PROVE  SupInv'
  <2> DEFINE r == [apply[a] EXCEPT !.pc = "stop", !.old = current]
  <2>1. r \in Update /\ r # Nil /\ r.pc = "stop" /\ r.conf = conf /\ r.old = current
        /\ r.adminOnly = apply[a].adminOnly /\ r.built = apply[a].built
    BY <1>2, SupAssumption DEF Update
  <2>2. apply' = [apply EXCEPT ![a] = r]
    BY <1>2, <1>8 DEF Detach, Update
  <2> HIDE DEF r
  <2>3. /\ apply' \in [Applies -> Update \cup {Nil}]
        /\ apply'[a] # Nil /\ apply'[a].pc = "stop" /\ apply'[a].conf = conf
        /\ apply'[a].old = current
        /\ apply'[a].adminOnly = apply[a].adminOnly /\ apply'[a].built = apply[a].built
        /\ \A x \in Applies : x # a => apply'[x] = apply[x]
    BY <1>2, <2>1, <2>2
  <2>4. current' = Nil /\ UNCHANGED <<holder, setters>>
        /\ bot' = IF current = Nil THEN bot ELSE [bot EXCEPT ![current].stopping = TRUE]
    BY <1>8 DEF Detach
  <2>5. /\ HolderInv' /\ DiskInv' /\ AdminInv'
        /\ \A x \in Applies : Phase(x, "stop")' => x = a
    BY <1>1, <2>3, <2>4, InstallRequests
  <2>6. bot' \in [Bots -> Running \cup {Nil}] /\ \A b \in Bots : bot'[b] # Nil <=> bot[b] # Nil
    <3>1. CASE current = Nil
      BY <3>1, <2>4, <1>2
    <3>2. CASE current # Nil
      <4>1. current \in Bots /\ bot[current] # Nil /\ bot[current] \in Running
        BY <3>2, <1>2, SupAssumption DEF SupInv, BotInv
      <4> DEFINE n == [bot[current] EXCEPT !.stopping = TRUE]
      <4>2. n \in Running /\ n # Nil
        BY <4>1, SupAssumption DEF Running
      <4>3. bot' = [bot EXCEPT ![current] = n]
        BY <3>2, <2>4
      <4> HIDE DEF n
      <4> QED BY <1>2, <4>1, <4>2, <4>3
    <3> QED BY <3>1, <3>2
  <2>7. SupTypeOK'
    <3>1. loops' \subseteq Loop
      BY <1>6
    <3>2. gen' \in Nat /\ retrySeq' \in Nat /\ retryOn' \in BOOLEAN
      BY <1>1, <1>2, <1>8
    <3>3. status' \in {"disabled", "starting", "healthy", "degraded"}
      BY <1>8
    <3>4. cfg' \in Config
      BY <1>1, <1>2
    <3> HIDE DEF conf, restart, inPlace
    <3> QED BY <1>1, <2>3, <2>4, <2>6, <3>1, <3>2, <3>3, <3>4 DEF SupInv, SupTypeOK
  <2>8. BotInv'
    <3>1. \A b \in Bots : bot'[b] # Nil => Phase(a, "stop")' /\ apply'[a].old = b
      BY <2>3, <2>6, <1>5 DEF Phase
    <3>2. \A s \in setters' : bot'[s.bot] # Nil
      BY <2>4, <2>6, <1>2 DEF SupInv, BotInv
    <3> QED BY <3>1, <3>2, <2>4 DEF BotInv
  <2>9. LoopInv'
    <3> SUFFICES ASSUME NEW k \in loops'
                 PROVE  /\ k.gen < gen' /\ k.seq <= retrySeq'
                        /\ \A m \in loops' : k.seq = m.seq => k = m
                        /\ \A x \in Applies : Phase(x, "stop")' /\ Restarts(x)' => k.seq < retrySeq'
      <4>1. \A k \in loops' : k.gen \in Nat /\ gen' \in Nat
        BY <1>6, <1>1, <1>2 DEF Loop
      <4> QED BY <4>1 DEF LoopInv, IsCurrent
    <3>1. k.gen < gen' /\ k.seq <= retrySeq /\ k.seq \in Nat
      BY <1>6 DEF Loop
    <3>2. retrySeq <= retrySeq'
      BY <1>2, <1>8
    <3>3. \A x \in Applies : Phase(x, "stop")' /\ Restarts(x)' => retrySeq' = retrySeq + 1
      <4>1. Restarts(a)' => conf.token # Nil /\ restart
        BY <2>3 DEF Restarts
      <4> HIDE DEF conf, restart
      <4> QED BY <4>1, <2>5, <1>8
    <3> HIDE DEF conf, restart, inPlace
    <3>4. retrySeq' \in Nat
      BY <2>7 DEF SupTypeOK
    <3>5. k.seq <= retrySeq'
      BY <3>1, <3>2, <3>4, <1>2
    <3>6. \A x \in Applies : Phase(x, "stop")' /\ Restarts(x)' => k.seq < retrySeq'
      BY <3>1, <3>3, <1>2
    <3> QED BY <3>1, <3>5, <3>6, <1>6
  <2>10. RetryInv'
    <3>1. Restarts(a)' <=> (conf.token # Nil /\ restart)
      BY <2>3 DEF Restarts
    <3> QED BY <3>1, <2>4, <2>5, <1>8 DEF RetryInv
  <2>11. StatusInv'
    <3>1. ~NoneStops'
      BY <2>3 DEF NoneStops, Phase
    <3>2. \A x \in Applies : Phase(x, "stop")' /\ apply'[x].conf.token = Nil => status' # "starting"
      BY <2>3, <2>5, <1>8
    <3>3. status' = "disabled" => cfg'.token = Nil
      BY <1>1, <1>8
    <3>4. status' # "healthy"
      BY <1>8
    <3> HIDE DEF conf, restart, inPlace
    <3> QED BY <3>1, <3>2, <3>3, <3>4, <2>4 DEF StatusInv
  <2> QED BY <2>5, <2>7, <2>8, <2>9, <2>10, <2>11 DEF SupInv
<1>9. \/ inPlace /\ UpdateAdmins(a)
      \/ /\ ~inPlace /\ Detach(a, "stop")
         /\ status' = IF conf.token = Nil THEN "disabled" ELSE "starting"
         /\ retryOn' = (conf.token # Nil /\ restart)
         /\ retrySeq' = IF conf.token # Nil /\ restart THEN retrySeq + 1 ELSE retrySeq
  BY DEF ApplyInstall
<1> QED BY <1>7, <1>8, <1>9

\* A bot started when none runs, with the committed configuration.
LEMMA StartedBot ==
  ASSUME SupAssumption, SupTypeOK, BotInv, NoneStops', \A b \in Bots : bot[b] = Nil,
         NEW conf \in Config, conf = cfg', StartBot(conf)
  PROVE  /\ bot' \in [Bots -> Running \cup {Nil}] /\ current' \in Bots
         /\ setters' \subseteq [bot : Bots, gen : Nat] /\ status' = "healthy"
         /\ BotInv'
<1>1. PICK b \in Bots :
        /\ bot' = [bot EXCEPT ![b] = [conf |-> conf, stopping |-> FALSE, reports |-> 0]]
        /\ current' = b /\ status' = "healthy"
        /\ setters' = setters \cup {[bot |-> b, gen |-> gen]}
  BY DEF StartBot
<1> DEFINE r == [conf |-> conf, stopping |-> FALSE, reports |-> 0]
<1>2. r \in Running /\ r # Nil /\ r.conf = conf
  <2>1. r \in Running
    BY DEF Running
  <2> QED BY <2>1, SupAssumption
<1>3. bot' = [bot EXCEPT ![b] = r]
  BY <1>1
<1> HIDE DEF r
<1>4. /\ bot \in [Bots -> Running \cup {Nil}] /\ gen \in Nat
      /\ setters \subseteq [bot : Bots, gen : Nat]
  BY DEF SupTypeOK
<1>5. bot' \in [Bots -> Running \cup {Nil}] /\ bot'[b] = r
      /\ \A x \in Bots : x # b => bot'[x] = Nil
  BY <1>2, <1>3, <1>4
<1>6. setters' \subseteq [bot : Bots, gen : Nat]
  BY <1>1, <1>4
<1>7. \A s \in setters' : s.bot = b
  BY <1>1, <1>4 DEF BotInv
<1>8. BotInv'
  BY <1>1, <1>2, <1>5, <1>7 DEF BotInv, NoneStops
<1> QED BY <1>1, <1>5, <1>6, <1>8

LEMMA FinishInv ==
  ASSUME SupAssumption, SupInv, NEW a \in Applies, ApplyFinish(a),
         UNCHANGED <<started, updatable, down>>
  PROVE  SupInv'
<1> DEFINE conf == apply[a].conf
           restart == apply[a].adminOnly /\ ~apply[a].built
<1>1. /\ Phase(a, "stop") /\ apply[a] # Nil /\ apply[a].pc = "stop" /\ Stopped(apply[a].old)
      /\ SetPhase(a, "applied") /\ holder' = Nil
      /\ UNCHANGED <<seq, gen, cfg, disk, retryOn, retrySeq, started, updatable, down>>
  BY DEF ApplyFinish, Phase
<1>2. /\ apply[a] \in Update /\ conf \in Config /\ restart \in BOOLEAN
      /\ gen \in Nat /\ retrySeq \in Nat /\ retryOn \in BOOLEAN /\ loops \subseteq Loop
  BY <1>1 DEF SupInv, SupTypeOK, Update
<1>3. /\ holder = a /\ a = seq /\ disk = cfg /\ cfg = conf /\ current = Nil
      /\ retryOn <=> Restarts(a)
  BY <1>1 DEF SupInv, HolderInv, DiskInv, BotInv, RetryInv
<1>4. /\ apply' \in [Applies -> Update \cup {Nil}]
      /\ apply'[a] # Nil /\ apply'[a].pc = "applied" /\ apply'[a].conf = conf
      /\ \A x \in Applies : x # a => apply'[x] = apply[x]
  BY <1>1, PhaseSet DEF SupInv
<1>5. \A x \in Applies : ~Phase(x, "save")' /\ ~Phase(x, "install")' /\ ~Phase(x, "stop")'
  BY <1>3, <1>4 DEF SupInv, HolderInv, Phase
<1>6. \A b \in Bots : bot[b] = Nil
  <2>1. \A b \in Bots : bot[b] # Nil => \E x \in Applies : Phase(x, "stop") /\ apply[x].old = b
    BY <1>3, SupAssumption DEF SupInv, BotInv
  <2>2. \A x \in Applies : Phase(x, "stop") => x = a
    BY <1>3 DEF SupInv, HolderInv
  <2>3. \A b \in Bots : bot[b] # Nil => apply[a].old = b
    BY <2>1, <2>2
  <2> QED BY <2>3, <1>1 DEF Stopped
<1>7. HolderInv'
  <2> SUFFICES ASSUME NEW x \in Applies
               PROVE  apply'[x] # Nil => x <= seq'
    BY <1>1, <1>5, SupAssumption DEF HolderInv
  <2>1. CASE x = a
    BY <2>1, <1>1 DEF SupInv, HolderInv
  <2>2. CASE x # a
    BY <2>2, <1>1, <1>4 DEF SupInv, HolderInv
  <2> QED BY <2>1, <2>2
<1>8. DiskInv'
  <2>1. \A x \in Applies : Phase(x, "applied")' /\ x = seq' => cfg' = apply'[x].conf
    BY <1>1, <1>3, <1>4
  <2> QED BY <2>1, <1>1, <1>3, <1>5 DEF DiskInv
<1>9. AdminInv'
  BY <1>1, <1>3, <1>4 DEF AdminInv, Phase
<1>10. NoneStops'
  BY <1>5 DEF NoneStops
<1>11. CASE conf.token = Nil /\ UNCHANGED <<bot, current, status, setters, loops>>
  <2>1. SupTypeOK'
    BY <1>1, <1>4, <1>11 DEF SupInv, SupTypeOK
  <2>2. BotInv'
    BY <1>3, <1>6, <1>10, <1>11 DEF SupInv, BotInv, NoneStops
  <2>3. LoopInv'
    BY <1>1, <1>10, <1>11 DEF SupInv, LoopInv, IsCurrent, NoneStops
  <2>4. RetryInv'
    BY <1>3, <1>10, <1>11 DEF RetryInv, NoneStops
  <2>5. StatusInv'
    BY <1>1, <1>3, <1>11 DEF SupInv, StatusInv
  <2> QED BY <1>7, <1>8, <1>9, <2>1, <2>2, <2>3, <2>4, <2>5 DEF SupInv
<1>12. CASE /\ conf.token # Nil /\ restart
            /\ loops' = loops \cup {NewLoop(gen, retrySeq, conf)}
            /\ UNCHANGED <<bot, current, status, setters>>
  <2> DEFINE new == NewLoop(gen, retrySeq, conf)
  <2>1. new \in Loop /\ new.gen = gen /\ new.seq = retrySeq /\ new.conf = conf
        /\ ~new.cancelled /\ new.pc = "mark"
    BY <1>2, SupAssumption DEF NewLoop, Loop
  <2>2. retryOn /\ Restarts(a)
    BY <1>3, <1>12 DEF Restarts
  <2>3. \A l \in loops : l.gen < gen /\ l.seq < retrySeq
    BY <1>1, <2>2 DEF SupInv, LoopInv
  <2> HIDE DEF new
  <2>4. loops' = loops \cup {new}
    BY <1>12 DEF new
  <2>5. SupTypeOK'
    <3>1. loops' \subseteq Loop
      BY <2>1, <2>4, <1>2
    <3> QED BY <3>1, <1>1, <1>4, <1>12 DEF SupInv, SupTypeOK
  <2>6. BotInv'
    BY <1>3, <1>6, <1>10, <1>12 DEF SupInv, BotInv, NoneStops
  <2>7. LoopInv'
    <3> SUFFICES ASSUME NEW l \in loops'
                 PROVE  /\ l.gen <= gen /\ l.seq <= retrySeq
                        /\ l.gen = gen => l.conf = cfg
                        /\ l.cancelled => l.gen < gen
                        /\ l.gen = gen => l.pc \notin {"backoff", "reject"}
                        /\ \A m \in loops' : l.seq = m.seq => l = m
      BY <1>1, <1>10 DEF LoopInv, IsCurrent, NoneStops
    <3>1. l \in loops => l.gen < gen /\ l.seq < retrySeq /\ l.gen \in Nat /\ l.seq \in Nat
      BY <2>3, <1>2 DEF Loop
    <3>2. CASE l \in loops
      <4>1. \A m \in loops : l.seq = m.seq => l = m
        BY <3>2 DEF SupInv, LoopInv
      <4>2. l.seq # new.seq
        BY <3>1, <3>2, <2>1, <1>2
      <4>3. l.gen # gen
        BY <3>1, <3>2, <1>2
      <4>4. l.gen <= gen /\ l.seq <= retrySeq
        BY <3>1, <3>2, <1>2
      <4> QED BY <3>1, <3>2, <4>1, <4>2, <4>3, <4>4, <2>4
    <3>3. CASE l = new
      <4>1. \A m \in loops : m.seq # new.seq
        <5> TAKE m \in loops
        <5>1. m.seq \in Nat /\ m.seq < retrySeq
          BY <2>3, <1>2 DEF Loop
        <5> QED BY <5>1, <2>1, <1>2
      <4> QED BY <3>3, <4>1, <2>1, <2>4, <1>2, <1>3
    <3> QED BY <3>2, <3>3, <2>4
  <2>8. RetryInv'
    BY <1>3, <1>10, <1>12 DEF RetryInv, NoneStops
  <2>9. StatusInv'
    <3>1. OnItsWay'
      BY <2>1, <2>2, <2>4, <1>1 DEF OnItsWay, IsCurrent
    <3>2. current' = Nil /\ status' = status /\ cfg' = cfg
      BY <1>1, <1>3, <1>12
    <3> QED BY <3>1, <3>2, <1>3, <1>10 DEF SupInv, StatusInv, NoneStops
  <2> QED BY <1>7, <1>8, <1>9, <2>5, <2>6, <2>7, <2>8, <2>9 DEF SupInv
<1>13. CASE conf.token # Nil /\ ~restart /\ StartBot(conf) /\ UNCHANGED loops
  <2>1. /\ bot' \in [Bots -> Running \cup {Nil}] /\ current' \in Bots
        /\ setters' \subseteq [bot : Bots, gen : Nat] /\ status' = "healthy"
        /\ BotInv'
    <3>1. conf = cfg' /\ conf \in Config
      BY <1>1, <1>2, <1>3
    <3> HIDE DEF conf, restart
    <3> QED BY <3>1, <1>6, <1>10, <1>13, StartedBot DEF SupInv
  <2>2. ~retryOn
    BY <1>3, <1>13 DEF Restarts
  <2>3. SupTypeOK'
    BY <1>1, <1>4, <1>13, <2>1 DEF SupInv, SupTypeOK
  <2>4. LoopInv'
    BY <1>1, <1>10, <1>13, <2>1 DEF SupInv, LoopInv, IsCurrent, NoneStops
  <2>5. RetryInv'
    BY <1>1, <1>10, <2>2 DEF RetryInv, NoneStops
  <2>6. StatusInv'
    BY <1>10, <2>1, SupAssumption DEF StatusInv, NoneStops
  <2> QED BY <1>7, <1>8, <1>9, <2>1, <2>3, <2>4, <2>5, <2>6 DEF SupInv
<1> QED BY <1>11, <1>12, <1>13 DEF ApplyFinish

-----------------------------------------------------------------------------
(* The retry loops.                                                          *)

\* A loop goes on, to next: nobody but the current loop changes the status.
LEMMA LoopGoesOn ==
  ASSUME SupAssumption, SupInv, NEW l \in loops, NEW next \in Loop, Step(l, next),
         next.gen = l.gen, next.seq = l.seq, next.conf = l.conf, next.cancelled = l.cancelled,
         status' \in {"disabled", "starting", "healthy", "degraded"},
         status' # status => IsCurrent(l) /\ status' \in {"starting", "degraded"},
         status' = "starting" /\ status # "starting" => ~l.cancelled,
         IsCurrent(l) /\ status' = "starting" => next.pc \notin {"backoff", "reject"},
         UNCHANGED <<current, bot, setters, retryOn, seq, gen, cfg, disk, holder, apply,
                     retrySeq, started, updatable, down>>
  PROVE  SupInv'
<1>1. HolderInv' /\ DiskInv' /\ AdminInv'
  BY RequestsKept DEF SupInv
<1>2. loops' = (loops \ {l}) \cup {next} /\ loops \subseteq Loop
  BY DEF Step, SupInv, SupTypeOK
<1>3. SupTypeOK'
  BY <1>2 DEF SupInv, SupTypeOK
<1>4. BotInv'
  BY DEF SupInv, BotInv, Phase
<1>5. RetryInv'
  BY DEF SupInv, RetryInv, Phase, Restarts
<1>6. \A m \in loops : IsCurrent(m) /\ IsCurrent(l) => m = l
  BY DEF SupInv, LoopInv, IsCurrent
<1>7. LoopInv'
  <2> SUFFICES ASSUME NEW k \in loops'
               PROVE  /\ k.gen <= gen /\ k.seq <= retrySeq
                      /\ k.gen = gen => k.conf = cfg
                      /\ k.cancelled => k.gen < gen
                      /\ IsCurrent(k) /\ k.pc \in {"backoff", "reject"} => status' # "starting"
                      /\ \A m \in loops' : k.seq = m.seq => k = m
                      /\ \A a \in Applies : Phase(a, "stop") => k.gen < gen /\ (Restarts(a) => k.seq < retrySeq)
    BY DEF LoopInv, IsCurrent, Phase, Restarts
  <2>1. \A m \in loops : m # l => m.seq # l.seq
    BY DEF SupInv, LoopInv
  <2>2. \A m \in loops' : k.seq = m.seq => k = m
    BY <1>2, <2>1 DEF SupInv, LoopInv
  <2>3. CASE k \in loops /\ k # l
    <3>1. IsCurrent(k) => ~IsCurrent(l)
      BY <1>6, <2>3
    <3>2. IsCurrent(k) /\ k.pc \in {"backoff", "reject"} => status' # "starting"
      BY <3>1, <2>3 DEF SupInv, LoopInv
    <3> QED BY <2>2, <2>3, <3>2 DEF SupInv, LoopInv
  <2>4. CASE k = next
    <3>1. IsCurrent(k) <=> IsCurrent(l)
      BY <2>4 DEF IsCurrent
    <3> QED BY <2>2, <2>4, <3>1 DEF SupInv, LoopInv
  <2> QED BY <2>3, <2>4, <1>2
<1>8. StatusInv'
  <2>1. IsCurrent(l) => current = Nil
    BY DEF SupInv, RetryInv, IsCurrent
  <2>2. \A a \in Applies : Phase(a, "stop") /\ apply[a].conf.token = Nil => ~retryOn
    BY DEF SupInv, RetryInv, Restarts
  <2>3. \A a \in Applies : Phase(a, "stop") /\ apply[a].conf.token = Nil => status' # "starting"
    BY <2>2 DEF SupInv, StatusInv, IsCurrent
  <2>4. OnItsWay => OnItsWay'
    <3> SUFFICES ASSUME NEW w \in loops, IsCurrent(w), ~w.cancelled
                 PROVE  \E k \in loops' : IsCurrent(k) /\ ~k.cancelled
      BY DEF OnItsWay, IsCurrent
    <3>1. CASE w = l
      BY <3>1, <1>2 DEF IsCurrent
    <3>2. CASE w # l
      BY <3>2, <1>2
    <3> QED BY <3>1, <3>2
  <2>5. status' = "starting" /\ status # "starting" => OnItsWay'
    BY <1>2 DEF OnItsWay, IsCurrent
  <2>6. status' = "starting" /\ (started \/ retryOn) /\ ~down /\ NoneStops => OnItsWay'
    BY <2>4, <2>5 DEF SupInv, StatusInv
  <2>7. (status' = "healthy" => current # Nil) /\ (status' = "disabled" => cfg.token = Nil)
        /\ (current # Nil => status' \in {"healthy", "degraded"})
    BY <2>1 DEF SupInv, StatusInv
  <2> QED BY <2>3, <2>6, <2>7 DEF StatusInv, NoneStops, Phase
<1> QED BY <1>1, <1>3, <1>4, <1>5, <1>7, <1>8 DEF SupInv

\* A loop ends: a cancelled one, one at the shutdown, or one that found the token rejected.
LEMMA LoopEnds ==
  ASSUME SupAssumption, SupInv, NEW l \in loops, loops' = loops \ {l},
         retryOn' = (retryOn /\ ~IsCurrent(l)),
         status' = status \/ (status' = "degraded" /\ IsCurrent(l)),
         IsCurrent(l) /\ status = "starting" => l.cancelled \/ down,
         UNCHANGED <<current, bot, setters, seq, gen, cfg, disk, holder, apply,
                     retrySeq, started, updatable, down>>
  PROVE  SupInv'
<1>1. HolderInv' /\ DiskInv' /\ AdminInv'
  BY RequestsKept DEF SupInv
<1>2. loops \subseteq Loop /\ retryOn \in BOOLEAN /\ retryOn' \in BOOLEAN
  BY DEF SupInv, SupTypeOK
<1>3. SupTypeOK'
  BY <1>2 DEF SupInv, SupTypeOK
<1>4. BotInv'
  BY DEF SupInv, BotInv, Phase
<1>5. l.cancelled => ~IsCurrent(l)
  <2>1. gen \in Nat
    BY DEF SupInv, SupTypeOK
  <2>2. l.cancelled => l.gen < gen
    BY DEF SupInv, LoopInv
  <2>3. l.gen < gen => l.gen # gen
    BY <2>1
  <2> QED BY <2>2, <2>3 DEF IsCurrent
<1>6. IsCurrent(l) => \A a \in Applies : ~Phase(a, "stop")
  <2> SUFFICES ASSUME IsCurrent(l), NEW a \in Applies, Phase(a, "stop")
               PROVE  FALSE
    OBVIOUS
  <2>1. l.gen < gen /\ l.gen = gen /\ gen \in Nat
    BY DEF SupInv, LoopInv, IsCurrent, SupTypeOK
  <2> QED BY <2>1
<1>7. RetryInv'
  BY <1>6 DEF SupInv, RetryInv, Phase, Restarts
<1>8. LoopInv'
  <2>1. \A k \in loops' : IsCurrent(k)' => IsCurrent(k) /\ ~IsCurrent(l)
    BY DEF IsCurrent
  <2> QED BY <2>1 DEF SupInv, LoopInv, Phase, Restarts
<1>9. StatusInv'
  <2>1. IsCurrent(l) => current = Nil
    BY DEF SupInv, RetryInv, IsCurrent
  <2>2. status' = "starting" => status = "starting"
    OBVIOUS
  <2>3. status' = "starting" /\ OnItsWay /\ ~down => OnItsWay'
    <3> SUFFICES ASSUME status = "starting", ~down,
                        NEW w \in loops, IsCurrent(w), ~w.cancelled
                 PROVE  \E k \in loops' : IsCurrent(k)' /\ ~k.cancelled
      BY <2>2 DEF OnItsWay
    <3>1. w # l
      OBVIOUS
    <3>2. ~IsCurrent(l)
      BY <3>1 DEF SupInv, LoopInv, IsCurrent
    <3>3. IsCurrent(w)'
      BY <3>2 DEF IsCurrent
    <3> QED BY <3>1, <3>3
  <2>4. status' = "starting" /\ (started \/ retryOn') /\ ~down /\ NoneStops => OnItsWay'
    BY <2>2, <2>3 DEF SupInv, StatusInv
  <2>5. (status' = "healthy" => current # Nil) /\ (status' = "disabled" => cfg.token = Nil)
        /\ (current # Nil => status' \in {"healthy", "degraded"})
    BY <2>1 DEF SupInv, StatusInv
  <2>6. \A a \in Applies : Phase(a, "stop") /\ apply[a].conf.token = Nil => status' # "starting"
    BY <2>2 DEF SupInv, StatusInv
  <2> QED BY <2>4, <2>5, <2>6 DEF StatusInv, NoneStops, Phase
<1> QED BY <1>1, <1>3, <1>4, <1>7, <1>8, <1>9 DEF SupInv

\* A bot that a loop built is started only if its configuration is still the committed one.
LEMMA ActivateInv ==
  ASSUME SupAssumption, SupInv, NEW l \in loops, holder = Nil, MayGoOn(l),
         loops' = loops \ {l}, retryOn' = FALSE, StartBot(l.conf),
         UNCHANGED <<seq, gen, cfg, disk, holder, apply, retrySeq, started, updatable, down>>
  PROVE  SupInv'
<1>1. HolderInv' /\ DiskInv' /\ AdminInv'
  BY RequestsKept DEF SupInv
<1>2. NoneStops /\ NoneStops'
  <2>1. NoneStops
    BY FreeNoneStops DEF SupInv
  <2> QED BY <2>1 DEF NoneStops, Phase
<1>3. l.conf = cfg /\ l.conf \in Config /\ current = Nil
  BY DEF MayGoOn, IsCurrent, SupInv, LoopInv, RetryInv, SupTypeOK
<1>4. \A b \in Bots : bot[b] = Nil
  BY <1>2, <1>3, SupAssumption DEF SupInv, BotInv, NoneStops
<1>5. /\ bot' \in [Bots -> Running \cup {Nil}] /\ current' \in Bots
      /\ setters' \subseteq [bot : Bots, gen : Nat] /\ status' = "healthy"
      /\ BotInv'
  BY <1>2, <1>3, <1>4, StartedBot DEF SupInv
<1>6. SupTypeOK'
  BY <1>5 DEF SupInv, SupTypeOK
<1>7. LoopInv'
  BY <1>2, <1>5 DEF SupInv, LoopInv, IsCurrent, NoneStops
<1>8. RetryInv'
  BY <1>2 DEF RetryInv, NoneStops
<1>9. StatusInv'
  BY <1>2, <1>5, SupAssumption DEF StatusInv, NoneStops
<1> QED BY <1>1, <1>5, <1>6, <1>7, <1>8, <1>9 DEF SupInv

LEMMA RetryInvariant ==
  ASSUME SupAssumption, SupInv, RetryStep
  PROVE  SupInv'
<1>1. PICK l \in loops :
        RetryMark(l) \/ RetryBuild(l) \/ RetryBackoff(l) \/ RetryReject(l) \/ RetryActivate(l)
  BY DEF RetryStep
<1>2. UNCHANGED <<seq, gen, cfg, disk, holder, apply, retrySeq, started, updatable, down>>
  BY DEF RetryStep
<1>3. l \in Loop /\ status \in {"disabled", "starting", "healthy", "degraded"}
      /\ retryOn \in BOOLEAN
  BY DEF SupInv, SupTypeOK
<1>4. \A pc \in {"mark", "build", "backoff", "activate", "reject"} :
        /\ Enter(l, pc) \in Loop /\ Enter(l, pc).pc = pc
        /\ Enter(l, pc).gen = l.gen /\ Enter(l, pc).seq = l.seq
        /\ Enter(l, pc).conf = l.conf /\ Enter(l, pc).cancelled = l.cancelled
  BY <1>3 DEF Enter, Loop
\* A quitting loop is cancelled, superseded or shut down.
<1>5. ASSUME Quit(l), ~MayGoOn(l), UNCHANGED <<current, bot, setters>>
      PROVE  SupInv'
  <2>1. /\ loops' = loops \ {l} /\ retryOn' = (retryOn /\ ~IsCurrent(l))
        /\ status' = status \/ (status' = "degraded" /\ IsCurrent(l))
    BY <1>5 DEF Quit
  <2>2. IsCurrent(l) => l.cancelled \/ down
    BY <1>5 DEF MayGoOn
  <2> QED BY <2>1, <2>2, <1>2, <1>5, LoopEnds
<1>6. CASE RetryMark(l)
  <2>1. UNCHANGED <<current, bot, setters>>
    BY <1>6 DEF RetryMark
  <2>2. CASE MayGoOn(l) /\ Step(l, Enter(l, "build")) /\ status' = "starting" /\ UNCHANGED retryOn
    <3>1. IsCurrent(l) /\ ~l.cancelled
      BY <2>2 DEF MayGoOn
    <3>2. Enter(l, "build") \in Loop
      BY <1>4
    <3> QED BY <2>1, <2>2, <3>1, <3>2, <1>2, <1>4, LoopGoesOn
  <2>3. CASE ~MayGoOn(l) /\ Quit(l)
    BY <2>1, <2>3, <1>5
  <2> QED BY <2>2, <2>3, <1>6 DEF RetryMark
<1>7. CASE RetryBuild(l)
  <2>1. UNCHANGED <<current, bot, setters>>
    BY <1>7 DEF RetryBuild
  <2>2. CASE Step(l, Enter(l, "activate")) /\ UNCHANGED <<status, retryOn>>
    <3>1. Enter(l, "activate") \in Loop
      BY <1>4
    <3> QED BY <2>1, <2>2, <3>1, <1>2, <1>3, <1>4, LoopGoesOn
  <2>3. CASE /\ MayGoOn(l) /\ status' = "degraded" /\ UNCHANGED retryOn
             /\ \/ l.fails < MaxFails /\ Step(l, [Enter(l, "backoff") EXCEPT !.fails = @ + 1])
                \/ Step(l, Enter(l, "reject"))
    <3>1. IsCurrent(l)
      BY <2>3 DEF MayGoOn
    <3>2. CASE l.fails < MaxFails /\ Step(l, [Enter(l, "backoff") EXCEPT !.fails = @ + 1])
      <4> DEFINE next == [Enter(l, "backoff") EXCEPT !.fails = @ + 1]
      <4>1. l.fails \in 0..MaxFails /\ l.fails + 1 \in 0..MaxFails
        BY <1>3, <3>2, SupAssumption DEF Loop
      <4>2. next \in Loop /\ next.gen = l.gen /\ next.seq = l.seq /\ next.conf = l.conf
            /\ next.cancelled = l.cancelled
        BY <1>3, <4>1 DEF Enter, Loop
      <4> HIDE DEF next
      <4>3. Step(l, next)
        BY <3>2 DEF next
      <4> QED BY <2>1, <2>3, <3>1, <4>2, <4>3, <1>2, LoopGoesOn
    <3>3. CASE Step(l, Enter(l, "reject"))
      <4>1. Enter(l, "reject") \in Loop
        BY <1>4
      <4> QED BY <2>1, <2>3, <3>1, <3>3, <4>1, <1>2, <1>4, LoopGoesOn
    <3> QED BY <2>3, <3>2, <3>3
  <2>4. CASE ~MayGoOn(l) /\ Quit(l)
    BY <2>1, <2>4, <1>5
  <2> QED BY <2>2, <2>3, <2>4, <1>7 DEF RetryBuild
<1>8. CASE RetryBackoff(l)
  <2>1. UNCHANGED <<current, bot, setters>>
    BY <1>8 DEF RetryBackoff
  <2>2. CASE Step(l, Enter(l, "mark")) /\ UNCHANGED <<retryOn, status>>
    <3>1. Enter(l, "mark") \in Loop
      BY <1>4
    <3> QED BY <2>1, <2>2, <3>1, <1>2, <1>3, <1>4, LoopGoesOn
  <2>3. CASE (l.cancelled \/ down) /\ Quit(l)
    BY <2>1, <2>3, <1>5 DEF MayGoOn
  <2> QED BY <2>2, <2>3, <1>8 DEF RetryBackoff
<1>9. CASE RetryReject(l)
  <2>1. IsCurrent(l) => status # "starting"
    BY <1>9 DEF RetryReject, SupInv, LoopInv
  <2> QED BY <2>1, <1>2, <1>9, LoopEnds DEF RetryReject
<1>10. CASE RetryActivate(l)
  <2>1. CASE MayGoOn(l)
    BY <2>1, <1>2, <1>10, ActivateInv DEF RetryActivate
  <2>2. CASE ~MayGoOn(l)
    BY <2>2, <1>5, <1>10 DEF RetryActivate
  <2> QED BY <2>1, <2>2
<1> QED BY <1>1, <1>6, <1>7, <1>8, <1>9, <1>10

LEMMA StartInv ==
  ASSUME SupAssumption, SupInv, SupStart
  PROVE  SupInv'
<1>1. started' = TRUE /\ holder = Nil
      /\ UNCHANGED <<seq, gen, cfg, disk, holder, apply, current, bot, setters, updatable, down>>
  BY DEF SupStart
<1>2. HolderInv' /\ DiskInv' /\ AdminInv'
  BY <1>1, RequestsKept DEF SupInv
<1>3. NoneStops /\ NoneStops'
  <2>1. NoneStops
    BY <1>1, FreeNoneStops DEF SupInv
  <2> QED BY <2>1, <1>1 DEF NoneStops, Phase
<1>4. BotInv'
  BY <1>1 DEF SupInv, BotInv, Phase
<1>5. cfg \in Config /\ gen \in Nat /\ retrySeq \in Nat /\ loops \subseteq Loop
      /\ retryOn \in BOOLEAN
  BY DEF SupInv, SupTypeOK
<1>6. CASE (current # Nil \/ retryOn) /\ UNCHANGED <<status, retrySeq, retryOn, loops>>
  <2>1. SupTypeOK'
    BY <1>1, <1>6 DEF SupInv, SupTypeOK
  <2>2. LoopInv' /\ RetryInv'
    BY <1>1, <1>3, <1>6 DEF SupInv, LoopInv, RetryInv, IsCurrent, NoneStops
  <2>3. status = "starting" => retryOn
    BY <1>6 DEF SupInv, StatusInv
  <2>4. OnItsWay' <=> OnItsWay
    BY <1>1, <1>6 DEF OnItsWay, IsCurrent
  <2>5. StatusInv'
    BY <1>1, <1>3, <1>6, <2>3, <2>4 DEF SupInv, StatusInv, NoneStops
  <2> QED BY <1>2, <1>4, <2>1, <2>2, <2>5 DEF SupInv
<1>7. CASE /\ current = Nil /\ ~retryOn /\ (cfg.token = Nil \/ down)
           /\ status' = IF cfg.token = Nil THEN "disabled" ELSE "degraded"
           /\ UNCHANGED <<retrySeq, retryOn, loops>>
  <2>1. SupTypeOK'
    BY <1>1, <1>7 DEF SupInv, SupTypeOK
  <2>2. LoopInv' /\ RetryInv'
    BY <1>1, <1>3, <1>7 DEF SupInv, LoopInv, RetryInv, IsCurrent, NoneStops
  <2>3. StatusInv'
    BY <1>1, <1>3, <1>7 DEF StatusInv, NoneStops
  <2> QED BY <1>2, <1>4, <2>1, <2>2, <2>3 DEF SupInv
<1>8. CASE /\ current = Nil /\ ~retryOn /\ cfg.token # Nil /\ ~down
           /\ status' = "starting"
           /\ retrySeq' = retrySeq + 1 /\ retryOn' = TRUE
           /\ loops' = loops \cup {NewLoop(gen, retrySeq + 1, cfg)}
  <2> DEFINE new == NewLoop(gen, retrySeq + 1, cfg)
  <2>1. new \in Loop /\ new.gen = gen /\ new.seq = retrySeq + 1 /\ new.conf = cfg
        /\ ~new.cancelled /\ new.pc = "mark"
    BY <1>5, SupAssumption DEF NewLoop, Loop
  <2> HIDE DEF new
  <2>2. loops' = loops \cup {new}
    BY <1>8 DEF new
  <2>3. SupTypeOK'
    <3>1. loops' \subseteq Loop /\ retrySeq' \in Nat
      BY <2>1, <2>2, <1>5, <1>8
    <3> QED BY <3>1, <1>1, <1>8 DEF SupInv, SupTypeOK
  <2>4. \A l \in loops : l.seq \in Nat /\ l.seq <= retrySeq /\ l.seq # retrySeq + 1
    <3> TAKE l \in loops
    <3>1. l.seq \in Nat /\ l.seq <= retrySeq
      BY <1>5 DEF SupInv, LoopInv, Loop
    <3> QED BY <3>1, <1>5
  <2>5. LoopInv'
    <3> SUFFICES ASSUME NEW l \in loops'
                 PROVE  /\ l.gen <= gen /\ l.seq <= retrySeq + 1
                        /\ l.gen = gen => l.conf = cfg
                        /\ l.cancelled => l.gen < gen
                        /\ l.seq = retrySeq + 1 => l.pc \notin {"backoff", "reject"}
                        /\ \A m \in loops' : l.seq = m.seq => l = m
      BY <1>1, <1>3, <1>8 DEF LoopInv, IsCurrent, NoneStops
    <3>1. CASE l \in loops
      <4>1. l.seq \in Nat /\ l.seq <= retrySeq /\ l.seq # retrySeq + 1
        BY <3>1, <2>4
      <4>2. l.seq <= retrySeq + 1
        BY <4>1, <1>5
      <4> QED BY <3>1, <4>1, <4>2, <2>1, <2>2 DEF SupInv, LoopInv
    <3>2. CASE l = new
      BY <3>2, <2>1, <2>2, <2>4, <1>5
    <3> QED BY <3>1, <3>2, <2>2
  <2>6. RetryInv'
    BY <1>1, <1>3, <1>8 DEF RetryInv, NoneStops
  <2>7. OnItsWay'
    BY <2>1, <2>2, <1>1, <1>8 DEF OnItsWay, IsCurrent
  <2>8. StatusInv'
    BY <2>7, <1>1, <1>3, <1>8 DEF StatusInv, NoneStops
  <2> QED BY <1>2, <1>4, <2>3, <2>5, <2>6, <2>8 DEF SupInv
<1> QED BY <1>6, <1>7, <1>8 DEF SupStart

-----------------------------------------------------------------------------
(* The bot's goroutine, and the theorems.                                    *)

LEMMA EndsInv ==
  ASSUME SupAssumption, SupInv, NEW b \in Bots, BotEnds(b)
  PROVE  SupInv'
<1>1. /\ bot' = [bot EXCEPT ![b] = Nil] /\ setters' = {s \in setters : s.bot # b}
      /\ current' = IF current = b THEN Nil ELSE current
      /\ status' = IF current = b THEN "degraded" ELSE status
      /\ UNCHANGED <<seq, gen, cfg, disk, holder, apply, retryOn, retrySeq, loops, started,
                     updatable, down>>
  BY DEF BotEnds
<1>2. HolderInv' /\ DiskInv' /\ AdminInv'
  BY <1>1, RequestsKept DEF SupInv
<1>3. /\ bot \in [Bots -> Running \cup {Nil}] /\ setters \subseteq [bot : Bots, gen : Nat]
      /\ current \in Bots \cup {Nil}
  BY DEF SupInv, SupTypeOK
<1>4. bot' \in [Bots -> Running \cup {Nil}] /\ bot'[b] = Nil
      /\ \A x \in Bots : x # b => bot'[x] = bot[x]
  BY <1>1, <1>3
<1>5. SupTypeOK'
  BY <1>1, <1>3, <1>4 DEF SupInv, SupTypeOK
<1>6. BotInv'
  <2>1. current' # Nil => current' = current /\ current \in Bots /\ current # b
    BY <1>1, <1>3
  <2>2. \A s \in setters' : bot'[s.bot] # Nil
    BY <1>1, <1>3, <1>4 DEF SupInv, BotInv
  <2>3. \A x \in Bots : bot'[x] # Nil =>
          x = current' \/ \E a \in Applies : Phase(a, "stop") /\ apply[a].old = x
    BY <1>1, <1>4 DEF SupInv, BotInv
  <2>4. \A a \in Applies : Phase(a, "stop") => current' = Nil
    BY <1>1 DEF SupInv, BotInv
  <2> QED BY <2>1, <2>2, <2>3, <2>4, <1>1, <1>4 DEF SupInv, BotInv, Phase
<1>7. LoopInv'
  BY <1>1 DEF SupInv, LoopInv, IsCurrent, Phase, Restarts
<1>8. RetryInv'
  BY <1>1 DEF SupInv, RetryInv, Phase, Restarts
<1>9. StatusInv'
  <2>1. OnItsWay' <=> OnItsWay
    BY <1>1 DEF OnItsWay, IsCurrent
  <2>2. current # b => (current' = current /\ status' = status)
    BY <1>1
  <2>3. current = b => (current' = Nil /\ status' = "degraded")
    BY <1>1
  <2> QED BY <2>1, <2>2, <2>3, <1>1 DEF SupInv, StatusInv, NoneStops, Phase
<1> QED BY <1>2, <1>5, <1>6, <1>7, <1>8, <1>9 DEF SupInv

LEMMA ReporterInv ==
  ASSUME SupAssumption, SupInv, NEW s \in setters, InstallReporter(s)
  PROVE  SupInv'
<1>1. /\ bot' = [bot EXCEPT ![s.bot].reports = s.gen] /\ setters' = setters \ {s}
      /\ UNCHANGED <<seq, gen, cfg, disk, holder, apply, current, retryOn, retrySeq, loops,
                     status, started, updatable, down>>
  BY DEF InstallReporter
<1>2. /\ bot \in [Bots -> Running \cup {Nil}] /\ setters \subseteq [bot : Bots, gen : Nat]
      /\ s.bot \in Bots /\ s.gen \in Nat
  BY DEF SupInv, SupTypeOK
<1>3. bot[s.bot] # Nil /\ bot[s.bot] \in Running
  BY <1>2 DEF SupInv, BotInv
<1> DEFINE r == [bot[s.bot] EXCEPT !.reports = s.gen]
<1>4. r \in Running /\ r.conf = bot[s.bot].conf
  BY <1>2, <1>3 DEF Running
<1>5. r # Nil /\ bot' = [bot EXCEPT ![s.bot] = r]
  BY <1>1, <1>4, SupAssumption
<1> HIDE DEF r
<1>6. /\ bot' \in [Bots -> Running \cup {Nil}]
      /\ \A b \in Bots : (bot'[b] # Nil <=> bot[b] # Nil) /\ (bot'[b] # Nil => bot'[b].conf = bot[b].conf)
  BY <1>2, <1>3, <1>4, <1>5
<1>7. HolderInv' /\ DiskInv' /\ AdminInv'
  BY <1>1, RequestsKept DEF SupInv
<1>8. SupTypeOK'
  BY <1>1, <1>2, <1>6 DEF SupInv, SupTypeOK
<1>9. BotInv'
  <2>1. current \in Bots \cup {Nil}
    BY DEF SupInv, SupTypeOK
  <2>2. \A x \in setters' : x.bot \in Bots /\ x \in setters
    BY <1>1, <1>2
  <2> QED BY <2>1, <2>2, <1>1, <1>6 DEF SupInv, BotInv, Phase
<1>10. LoopInv' /\ RetryInv'
  BY <1>1 DEF SupInv, LoopInv, RetryInv, IsCurrent, Phase, Restarts
<1>11. StatusInv'
  <2>1. OnItsWay' <=> OnItsWay
    BY <1>1 DEF OnItsWay, IsCurrent
  <2> QED BY <2>1, <1>1 DEF SupInv, StatusInv, NoneStops, Phase
<1> QED BY <1>7, <1>8, <1>9, <1>10, <1>11 DEF SupInv

\* A report, which counts only for the published bot, and the end of the process.
LEMMA OutsideInv ==
  ASSUME SupAssumption, SupInv, (\E b \in Bots : Report(b)) \/ Shutdown
  PROVE  SupInv'
<1>1. /\ status' = status \/ (current # Nil /\ status' \in {"healthy", "degraded"})
      /\ down => down'
      /\ down' \in BOOLEAN
  <2>1. ASSUME NEW b \in Bots, Report(b)
        PROVE  status' \in {"healthy", "degraded"} /\ current # Nil /\ down' = down
    BY <2>1, SupAssumption DEF Report, Heard
  <2>2. CASE Shutdown
    BY <2>2 DEF Shutdown
  <2> QED BY <2>1, <2>2 DEF SupInv, SupTypeOK
<1>2. UNCHANGED <<seq, gen, cfg, disk, holder, apply, current, bot, retryOn, retrySeq, loops,
                  setters, started, updatable>>
  BY DEF Report, Shutdown
<1>3. HolderInv' /\ DiskInv' /\ AdminInv'
  BY <1>2, RequestsKept DEF SupInv
<1>4. SupTypeOK'
  BY <1>1, <1>2 DEF SupInv, SupTypeOK
<1>5. BotInv' /\ RetryInv'
  BY <1>2 DEF SupInv, BotInv, RetryInv, Phase, Restarts
<1>6. LoopInv'
  <2>1. status # "starting" => status' # "starting"
    BY <1>1
  <2> QED BY <2>1, <1>2 DEF SupInv, LoopInv, IsCurrent, Phase, Restarts
<1>7. StatusInv'
  <2>1. OnItsWay' <=> OnItsWay
    BY <1>2 DEF OnItsWay, IsCurrent
  <2> QED BY <2>1, <1>1, <1>2 DEF SupInv, StatusInv, NoneStops, Phase
<1> QED BY <1>3, <1>4, <1>5, <1>6, <1>7 DEF SupInv

LEMMA SupStepInv ==
  ASSUME SupAssumption, SupInv, [SupNext]_supVars
  PROVE  SupInv'
<1>1. CASE SupStart
  BY <1>1, StartInv
<1>2. CASE RetryStep
  BY <1>2, RetryInvariant
<1>3. ASSUME NEW a \in Applies, ApplyStep(a)
      PROVE  SupInv'
  BY <1>3, BeginInv, BuildInv, LockInv, SaveInv, InstallInv, FinishInv DEF ApplyStep
<1>4. ASSUME NEW b \in Bots, BotEnds(b)
      PROVE  SupInv'
  BY <1>4, EndsInv
<1>5. CASE (\E b \in Bots : Report(b)) \/ Shutdown
  BY <1>5, OutsideInv
<1>6. ASSUME NEW s \in setters, InstallReporter(s)
      PROVE  SupInv'
  BY <1>6, ReporterInv
<1>7. CASE UNCHANGED supVars
  <2>1. HolderInv' /\ DiskInv' /\ AdminInv'
    BY <1>7, RequestsKept DEF SupInv, supVars
  <2>2. SupTypeOK'
    BY <1>7 DEF SupInv, SupTypeOK, supVars
  <2>3. BotInv' /\ LoopInv' /\ RetryInv' /\ StatusInv'
    BY <1>7, RestKept DEF SupInv, SameStops, Phase, supVars
  <2> QED BY <2>1, <2>2, <2>3 DEF SupInv
<1> QED BY <1>1, <1>2, <1>3, <1>4, <1>5, <1>6, <1>7 DEF SupNext

\* The invariant gives what the console run checks.
LEMMA SupInvImplies ==
  ASSUME SupAssumption, SupInv
  PROVE  ServesCommitted /\ LastRequestWins /\ StatusHonest /\ OneBot
<1>1. ServesCommitted
  BY DEF SupInv, BotInv, ServesCommitted
<1>2. LastRequestWins
  BY DEF SupInv, DiskInv, LastRequestWins, Superseded
<1>3. StatusHonest
  <2>1. holder = Nil => NoneStops
    BY FreeNoneStops DEF SupInv
  <2> QED BY <2>1 DEF SupInv, StatusInv, StatusHonest, OnItsWay
<1>4. OneBot
  <2> DEFINE R == {b \in Bots : bot[b] # Nil}
  <2>1. \A b, c \in R : b = c
    <3> SUFFICES ASSUME NEW b \in R, NEW c \in R PROVE b = c
      OBVIOUS
    <3>1. \A x, y \in Applies : Phase(x, "stop") /\ Phase(y, "stop") => x = y
      BY DEF SupInv, HolderInv
    <3>2. \A x \in Applies : Phase(x, "stop") => current = Nil
      BY DEF SupInv, BotInv
    <3>3. \A x \in R : x = current \/ \E a \in Applies : Phase(a, "stop") /\ apply[a].old = x
      BY DEF SupInv, BotInv
    <3> QED BY <3>1, <3>2, <3>3, SupAssumption
  <2>2. CASE R = {}
    BY <2>2, FS_EmptySet DEF OneBot
  <2>3. CASE R # {}
    <3>1. PICK b : R = {b}
      BY <2>1, <2>3
    <3>2. Cardinality(R) = 1
      BY <3>1, FS_Singleton
    <3> QED BY <3>2 DEF OneBot
  <2> QED BY <2>2, <2>3
<1> QED BY <1>1, <1>2, <1>3, <1>4

LEMMA SupInvariance == SupSpec => []SupInv
<1>1. SupInit => SupInv
  BY SupInitInv
<1>2. SupInv /\ [SupNext]_supVars => SupInv'
  BY SupStepInv, SupAssumption
<1> QED BY <1>1, <1>2, PTL DEF SupSpec

\* The supervisor's variables keep their types (botsupervisor.go).
THEOREM SupTypeCorrect == SupSpec => []SupTypeOK
<1>1. SupInv => SupTypeOK
  BY DEF SupInv
<1> QED BY <1>1, SupInvariance, PTL

\* The published bot runs with the committed token and administrators, whatever the
\* order of updates, retries and their getMe answers (botsupervisor.go:118-340).
THEOREM BotServesCommitted == SupSpec => []ServesCommitted
<1>1. SupInv => ServesCommitted
  BY SupInvImplies, SupAssumption
<1> QED BY <1>1, SupInvariance, PTL

\* Updates are last-request-wins: with transitionMu free tgbot.json and the live
\* configuration agree, and the newest update, once applied, is what both hold.
THEOREM UpdatesLastRequestWins == SupSpec => []LastRequestWins
<1>1. SupInv => LastRequestWins
  BY SupInvImplies, SupAssumption
<1> QED BY <1>1, SupInvariance, PTL

\* Two bots never poll at once, the one that is being replaced included: no path starts
\* one before the other's Run has returned (stopBotRunner, activateRetry).
THEOREM AtMostOneBot == SupSpec => []OneBot
<1>1. SupInv => OneBot
  BY SupInvImplies, SupAssumption
<1> QED BY <1>1, SupInvariance, PTL

\* The status that the console shows is what happens; with transitionMu free "starting"
\* is never a dead end.
THEOREM StatusIsHonest == SupSpec => []StatusHonest
<1>1. SupInv => StatusHonest
  BY SupInvImplies, SupAssumption
<1> QED BY <1>1, SupInvariance, PTL

\* An update in place never changes the token, although whether it is one was decided
\* before transitionMu was taken again (botsupervisor.go:118-215).
THEOREM InPlaceKeepsToken ==
  SupSpec => [](\A a \in Applies :
                  Phase(a, "install") /\ apply[a].adminOnly => apply[a].conf.token = cfg.token)
<1>1. SupInv => \A a \in Applies :
        Phase(a, "install") /\ apply[a].adminOnly => apply[a].conf.token = cfg.token
  BY DEF SupInv, AdminInv, HolderInv
<1> QED BY <1>1, SupInvariance, PTL

-----------------------------------------------------------------------------
(* Marketplace.                                                              *)

Ids == {x.id : x \in Indexes}
ModuleDocs == [ext : Manifests \cup {Absent}, rest : {0, 1}]
AskPhases == {"check", "fetch", "lock", "store", "commit", "import", "preview",
              "source"}

\* The requests that are under way.
UnderWay ==
  [do : {"add", "refresh", "install", "delete", "previewAdd", "previewRefresh", "previewInstall"},
   url : Urls \cup {Absent}, id : Ids \cup {Absent}, rev : SUBSET Sources, modRev : ModuleDocs,
   expect : Sources \cup {Absent}, cur : Sources \cup {Absent}, src : Sources \cup {Absent},
   pc : AskPhases]

OfUrl == {"add", "previewAdd"}
OfSource == {"refresh", "install", "previewRefresh", "previewInstall"}
Writing == {"add", "refresh", "install", "delete"}
Previewing == {"previewAdd", "previewRefresh", "previewInstall"}

\* What a request is about, and what it may still do.
PhaseInv(q) ==
  /\ q \in UnderWay
  /\ \/ q.pc = "check" /\ q.do \in {"add"} \cup OfSource
     \/ q.pc = "fetch" /\ q.do \in OfUrl \cup OfSource
     \/ q.pc \in {"lock", "store", "commit"} /\ q.do \in Writing
     \/ q.pc = "import" /\ q.do = "install"
     \/ q.pc = "preview" /\ q.do \in Previewing
     \/ q.pc = "source" /\ q.do = "previewInstall"
  /\ q.do \in OfUrl => q.url \in Urls
  /\ q.do = "delete" => q.expect = Absent

\* What it fetched, and what it was fetched for.
CandidateInv(q) ==
  /\ q.pc # "check" /\ q.do \in OfSource => q.cur \in Sources /\ q.cur.id = q.id
  /\ q.pc \notin {"check", "fetch"} /\ q.do # "delete" =>
       /\ q.src \in Sources
       /\ q.expect # Absent => q.src = q.expect
       /\ q.do \in {"install", "previewInstall"} => q.src = q.cur

\* What it holds; the source of an install cannot change under it.
LockInvariant(r, q) ==
  /\ q.pc \in {"store", "commit", "import"} => mkLock = r
  /\ q.pc \in {"commit", "import"} => storeLock = r
  /\ q.pc = "import" => market = q.rev /\ q.src \in market

\* The same after the step.
WillHold(r, q) ==
  /\ q.pc \in {"store", "commit", "import"} => mkLock' = r
  /\ q.pc \in {"commit", "import"} => storeLock' = r
  /\ q.pc = "import" => market' = q.rev /\ q.src \in market'

AskInv(r) ==
  \/ ask[r] = Absent
  \/ ask[r].pc = "done"
  \/ PhaseInv(ask[r]) /\ CandidateInv(ask[r]) /\ LockInvariant(r, ask[r])

ReviewedInv ==
  \A q \in reviewed :
    /\ q \in UnderWay /\ q.pc = "check" /\ q.do \in {"add", "refresh", "install"}
    /\ q.do = "add" => q.url \in Urls

MkInv ==
  /\ MkTypeOK
  /\ modules \in ModuleDocs
  /\ catalog \in [Urls -> Indexes] /\ served \in Manifests
  /\ ask = [r \in Asks |-> ask[r]]
  /\ \A r \in Asks : AskInv(r)
  /\ ReviewedInv

-----------------------------------------------------------------------------
LEMMA MkInitInv ==
  ASSUME MarketAssumption, MkInit
  PROVE  MkInv
<1>1. market \subseteq Sources /\ ValidMarket(market)
  <2>1. CASE market = {}
    BY <2>1, FS_EmptySet, MarketAssumption DEF ValidMarket, MarketAssumption
  <2>2. ASSUME NEW s \in Sources, market = {s}
        PROVE  market \subseteq Sources /\ ValidMarket(market)
    <3>1. Cardinality(market) = 1
      BY <2>2, FS_Singleton
    <3> QED BY <2>2, <3>1 DEF ValidMarket, MarketAssumption
  <2> QED BY <2>1, <2>2 DEF MkInit
<1>2. MkTypeOK
  BY <1>1 DEF MkTypeOK, MkInit
<1>3. ask = [r \in Asks |-> ask[r]] /\ \A r \in Asks : AskInv(r)
  BY DEF MkInit, AskInv
<1> QED BY <1>2, <1>3 DEF MkInv, MkInit, ReviewedInv, ModuleDocs

\* The other requests keep theirs when a step changes neither the sources nor what they hold.
LEMMA OthersKeep ==
  ASSUME NEW q \in Asks, AskInv(q), ask'[q] = ask[q],
         mkLock = q => mkLock' = q,
         storeLock = q => storeLock' = q /\ market' = market
  PROVE  AskInv(q)'
BY DEF AskInv, PhaseInv, CandidateInv, LockInvariant

\* A step of one request that leaves the documents and the previews alone.
LEMMA OneAsk ==
  ASSUME MarketAssumption, MkInv, NEW r \in Asks, NEW x, ask' = [ask EXCEPT ![r] = x],
         UNCHANGED <<docs, catalog, served, modLock, reviewed>>,
         mkLock' \in Asks \cup {Absent}, storeLock' \in Asks \cup {Absent},
         \A q \in Asks : q # r => (mkLock = q => mkLock' = q) /\ (storeLock = q => storeLock' = q),
         \/ x.pc = "done"
         \/ PhaseInv(x) /\ CandidateInv(x) /\ WillHold(r, x)
  PROVE  MkInv'
<1>1. ask = [q \in Asks |-> ask[q]] /\ \A q \in Asks : AskInv(q)
  BY DEF MkInv
<1>2. ask' = [q \in Asks |-> ask'[q]] /\ ask'[r] = x /\ \A q \in Asks : q # r => ask'[q] = ask[q]
  BY <1>1
<1>3. \A q \in Asks : AskInv(q)'
  <2> SUFFICES ASSUME NEW q \in Asks PROVE AskInv(q)'
    OBVIOUS
  <2>1. CASE q = r
    BY <2>1, <1>2 DEF AskInv, PhaseInv, CandidateInv, LockInvariant, WillHold
  <2>2. CASE q # r
    BY <2>2, <1>1, <1>2, OthersKeep DEF docs
  <2> QED BY <2>1, <2>2
<1>4. MkTypeOK'
  BY DEF MkInv, MkTypeOK, docs, ValidMarket
<1>5. ReviewedInv'
  BY DEF MkInv, ReviewedInv
<1> QED BY <1>2, <1>3, <1>4, <1>5 DEF MkInv, docs

LEMMA SubmitInv ==
  ASSUME MarketAssumption, MkInv, NEW r \in Asks, Submit(r)
  PROVE  MkInv'
<1>1. PICK new \in Submitted : ask' = [ask EXCEPT ![r] = new]
  BY DEF Submit
<1>2. UNCHANGED <<docs, elsewhere, locks, reviewed>>
  BY DEF Submit
<1>3. PhaseInv(new) /\ CandidateInv(new) /\ new.pc \in {"check", "fetch", "lock"}
  <2>1. ASSUME NEW do \in OfUrl, NEW u \in Urls, new = Request(do, u, Absent)
        PROVE  PhaseInv(new) /\ CandidateInv(new) /\ new.pc \in {"check", "fetch", "lock"}
    BY <2>1, MarketAssumption DEF Request, PhaseInv, CandidateInv, UnderWay, AskPhases, MkInv, MkTypeOK, OfUrl, OfSource, Writing, Previewing
  <2>2. ASSUME NEW do \in OfSource \cup {"delete"}, NEW s \in market, new = Request(do, Absent, s.id)
        PROVE  PhaseInv(new) /\ new.pc \in {"check", "fetch", "lock"}
    BY <2>2 DEF Request, PhaseInv, UnderWay, AskPhases, Ids, Sources, Configured, MkInv, MkTypeOK, OfUrl, OfSource, Writing, Previewing
  <2>3. ASSUME NEW do \in OfSource \cup {"delete"}, NEW s \in market, new = Request(do, Absent, s.id)
        PROVE  CandidateInv(new)
    BY <2>3 DEF Request, CandidateInv, OfSource
  <2>4. CASE new \in reviewed
    BY <2>4 DEF MkInv, ReviewedInv, PhaseInv, CandidateInv, OfUrl, OfSource
  <2> QED BY <2>1, <2>2, <2>3, <2>4 DEF Submitted, OfUrl, OfSource
<1>4. WillHold(r, new)
  BY <1>3 DEF WillHold
<1>5. mkLock' \in Asks \cup {Absent} /\ storeLock' \in Asks \cup {Absent}
  BY <1>2 DEF MkInv, MkTypeOK, locks
<1> QED BY <1>1, <1>2, <1>3, <1>4, <1>5, OneAsk DEF locks, elsewhere

LEMMA LeaveInv ==
  ASSUME MarketAssumption, MkInv, NEW r \in Asks, Leave(r),
         UNCHANGED <<docs, catalog, served, modLock, reviewed>>,
         mkLock' \in {mkLock, Unlocked(mkLock, r)}, storeLock' \in {storeLock, Unlocked(storeLock, r)}
  PROVE  MkInv'
<1> DEFINE x == [pc |-> "done"]
<1>1. ask' = [ask EXCEPT ![r] = x] /\ x.pc = "done"
  BY DEF Leave
<1> HIDE DEF x
<1>2. /\ mkLock' \in Asks \cup {Absent} /\ storeLock' \in Asks \cup {Absent}
      /\ \A q \in Asks : q # r => (mkLock = q => mkLock' = q) /\ (storeLock = q => storeLock' = q)
  BY DEF MkInv, MkTypeOK, Unlocked
<1> QED BY <1>1, <1>2, OneAsk

\* The phase a request is in is that of its record.
LEMMA AskInPhase ==
  ASSUME MkInv, NEW r \in Asks, NEW pc, pc # "done", InPhase(r, pc)
  PROVE  /\ PhaseInv(ask[r]) /\ CandidateInv(ask[r]) /\ LockInvariant(r, ask[r])
         /\ ask[r].pc = pc /\ ask[r] # Absent
BY DEF MkInv, AskInv, InPhase

LEMMA PreflightInv ==
  ASSUME MarketAssumption, MkInv, NEW r \in Asks, Preflight(r)
  PROVE  MkInv'
<1>1. PhaseInv(ask[r]) /\ ask[r].pc = "check"
  BY AskInPhase DEF Preflight
<1>2. UNCHANGED <<docs, elsewhere, locks, reviewed>>
  BY DEF Preflight
<1>3. CASE Leave(r)
  BY <1>2, <1>3, LeaveInv DEF locks, elsewhere
<1>4. ASSUME NEW c \in Sources \cup {Absent}, ask' = [ask EXCEPT ![r] = [ask[r] EXCEPT !.cur = c, !.pc = "fetch"]],
             ask[r].do # "add" => c \in market /\ c.id = ask[r].id
      PROVE  MkInv'
  <2> DEFINE x == [ask[r] EXCEPT !.cur = c, !.pc = "fetch"]
  <2>1. x \in UnderWay /\ x.pc = "fetch" /\ x.cur = c /\ x.do = ask[r].do /\ x.url = ask[r].url
        /\ x.expect = ask[r].expect /\ x.id = ask[r].id
    <3>1. ask[r] \in UnderWay /\ c \in Sources \cup {Absent} /\ "fetch" \in AskPhases
      BY <1>1, <1>4 DEF PhaseInv, MkInv, MkTypeOK, AskPhases
    <3> QED BY <3>1 DEF UnderWay
  <2> HIDE DEF x
  <2>2. PhaseInv(x)
    BY <1>1, <2>1 DEF PhaseInv, OfUrl
  <2>3. CandidateInv(x)
    BY <1>1, <1>4, <2>1 DEF CandidateInv, OfSource, MkInv, MkTypeOK
  <2>4. WillHold(r, x)
    BY <2>1 DEF WillHold
  <2>5. mkLock' \in Asks \cup {Absent} /\ storeLock' \in Asks \cup {Absent}
    BY <1>2 DEF MkInv, MkTypeOK, locks
  <2>6. ask' = [ask EXCEPT ![r] = x]
    BY <1>4 DEF x
  <2> QED BY <1>2, <2>2, <2>3, <2>4, <2>5, <2>6, OneAsk DEF locks, elsewhere
<1>5. CASE ask[r].do = "add" /\ ToPhase(r, "fetch")
  <2>1. [ask[r] EXCEPT !.cur = ask[r].cur, !.pc = "fetch"] = [ask[r] EXCEPT !.pc = "fetch"]
    BY <1>1 DEF PhaseInv, UnderWay
  <2>2. ask' = [ask EXCEPT ![r] = [ask[r] EXCEPT !.cur = ask[r].cur, !.pc = "fetch"]]
    BY <1>5, <2>1 DEF ToPhase
  <2>3. ask[r].cur \in Sources \cup {Absent}
    BY <1>1 DEF PhaseInv, UnderWay
  <2> QED BY <1>4, <1>5, <2>2, <2>3
<1>6. ASSUME ask[r].do # "add",
             NEW s \in SourceAt(r), ask' = [ask EXCEPT ![r].cur = s, ![r].pc = "fetch"]
      PROVE  MkInv'
  <2>1. s \in market /\ s.id = ask[r].id /\ s \in Sources
    BY <1>6 DEF SourceAt, MkInv, MkTypeOK
  <2>2. ask' = [ask EXCEPT ![r] = [ask[r] EXCEPT !.cur = s, !.pc = "fetch"]]
    BY <1>6 DEF MkInv
  <2> QED BY <1>4, <2>1, <2>2
<1> QED BY <1>3, <1>5, <1>6 DEF Preflight

LEMMA FetchInv ==
  ASSUME MarketAssumption, MkInv, NEW r \in Asks, FetchCandidate(r)
  PROVE  MkInv'
<1>1. PhaseInv(ask[r]) /\ CandidateInv(ask[r]) /\ ask[r].pc = "fetch"
  BY AskInPhase DEF FetchCandidate
<1>2. UNCHANGED <<docs, elsewhere, locks, reviewed>>
  BY DEF FetchCandidate
<1>3. CASE Leave(r)
  BY <1>2, <1>3, LeaveInv DEF locks, elsewhere
<1>4. ASSUME NEW s \in Fetched(r), ask[r].expect # Absent => s = ask[r].expect,
             ask' = [ask EXCEPT ![r].src = s,
                       ![r].pc = IF ask[r].do \in {"add", "refresh", "install"} THEN "lock" ELSE "preview"]
      PROVE  MkInv'
  <2>1. ask[r].do \in OfUrl \cup OfSource
    BY <1>1 DEF PhaseInv
  <2>2. catalog \in [Urls -> Indexes] /\ ask[r].do \in OfSource => ask[r].cur \in Sources
    BY <1>1 DEF MkInv, CandidateInv
  <2>3. s \in Sources
    <3>1. CASE ask[r].do \in OfUrl
      <4>1. s = Configured(ask[r].url, catalog[ask[r].url]) /\ ask[r].url \in Urls
        BY <1>1, <1>4, <3>1 DEF Fetched, AddCandidate, OfUrl, PhaseInv
      <4> QED BY <4>1 DEF Sources, MkInv
    <3>2. CASE ask[r].do \in {"refresh", "previewRefresh"}
      <4>1. s = Configured(ask[r].cur.url, catalog[ask[r].cur.url])
        BY <1>4, <3>2 DEF Fetched, RefreshCandidate
      <4>2. ask[r].cur.url \in Urls
        BY <1>1, <3>2 DEF CandidateInv, OfSource, Sources, Configured
      <4> QED BY <4>1, <4>2 DEF Sources, MkInv
    <3>3. CASE ask[r].do \in {"install", "previewInstall"}
      BY <1>1, <1>4, <3>3 DEF Fetched, InstallCandidate, CandidateInv, OfSource
    <3> QED BY <2>1, <3>1, <3>2, <3>3 DEF OfSource
  <2>4. ask[r].do \in {"install", "previewInstall"} => s = ask[r].cur
    BY <1>4 DEF Fetched, InstallCandidate
  <2> DEFINE pc == IF ask[r].do \in {"add", "refresh", "install"} THEN "lock" ELSE "preview"
             x == [ask[r] EXCEPT !.src = s, !.pc = pc]
  <2>5. /\ x \in UnderWay /\ x.pc = pc /\ x.src = s /\ x.do = ask[r].do /\ x.url = ask[r].url
        /\ x.expect = ask[r].expect /\ x.id = ask[r].id /\ x.cur = ask[r].cur
    <3>1. ask[r] \in UnderWay /\ pc \in AskPhases
      BY <1>1 DEF PhaseInv, AskPhases
    <3> QED BY <2>3, <3>1 DEF UnderWay
  <2>6. ask' = [ask EXCEPT ![r] = x]
    BY <1>4 DEF MkInv
  <2> HIDE DEF x
  <2>7. PhaseInv(x)
    BY <1>1, <2>1, <2>5 DEF PhaseInv, OfUrl, OfSource, Writing, Previewing
  <2>8. CandidateInv(x)
    BY <1>1, <1>4, <2>1, <2>3, <2>4, <2>5 DEF CandidateInv, OfSource
  <2>9. WillHold(r, x)
    BY <2>5 DEF WillHold
  <2>10. mkLock' \in Asks \cup {Absent} /\ storeLock' \in Asks \cup {Absent}
    BY <1>2 DEF MkInv, MkTypeOK, locks
  <2> QED BY <1>2, <2>6, <2>7, <2>8, <2>9, <2>10, OneAsk DEF locks, elsewhere
<1> QED BY <1>3, <1>4 DEF FetchCandidate

\* A request that only moves on.
LEMMA MovesOn ==
  ASSUME MkInv, NEW r \in Asks, PhaseInv(ask[r]), NEW pc \in AskPhases, ToPhase(r, pc)
  PROVE  LET x == [ask[r] EXCEPT !.pc = pc]
         IN /\ ask' = [ask EXCEPT ![r] = x]
            /\ x \in UnderWay /\ x.pc = pc /\ x.do = ask[r].do /\ x.url = ask[r].url
            /\ x.id = ask[r].id /\ x.rev = ask[r].rev /\ x.modRev = ask[r].modRev
            /\ x.expect = ask[r].expect /\ x.cur = ask[r].cur /\ x.src = ask[r].src
BY DEF ToPhase, PhaseInv, UnderWay

LEMMA TakeLocksInv ==
  ASSUME MarketAssumption, MkInv, NEW r \in Asks, TakeLocks(r)
  PROVE  MkInv'
<1>1. UNCHANGED <<docs, elsewhere, modLock, reviewed>>
  BY DEF TakeLocks
<1>2. CASE Return(r)
  BY <1>1, <1>2, LeaveInv DEF Return, elsewhere
<1> DEFINE x(pc) == [ask[r] EXCEPT !.pc = pc]
<1>3. CASE InPhase(r, "lock") /\ mkLock = Absent /\ mkLock' = r /\ ToPhase(r, "store")
           /\ UNCHANGED storeLock
  <2>1. PhaseInv(ask[r]) /\ CandidateInv(ask[r]) /\ ask[r].pc = "lock"
    BY <1>3, AskInPhase
  <2>2. /\ ask' = [ask EXCEPT ![r] = x("store")]
        /\ x("store") \in UnderWay /\ x("store").pc = "store" /\ x("store").do = ask[r].do
        /\ x("store").url = ask[r].url /\ x("store").id = ask[r].id
        /\ x("store").expect = ask[r].expect /\ x("store").cur = ask[r].cur
        /\ x("store").src = ask[r].src
    BY <1>3, <2>1, MovesOn DEF AskPhases
  <2> HIDE DEF x
  <2>3. PhaseInv(x("store"))
    BY <2>1, <2>2 DEF PhaseInv
  <2>4. CandidateInv(x("store"))
    BY <2>1, <2>2 DEF CandidateInv
  <2>5. WillHold(r, x("store"))
    BY <1>3, <2>2 DEF WillHold
  <2>6. /\ mkLock' \in Asks \cup {Absent} /\ storeLock' \in Asks \cup {Absent}
        /\ \A q \in Asks : q # r => (mkLock = q => mkLock' = q) /\ (storeLock = q => storeLock' = q)
    BY <1>3, MarketAssumption DEF MkInv, MkTypeOK, MarketAssumption, Asks
  <2> QED BY <1>1, <2>2, <2>3, <2>4, <2>5, <2>6, OneAsk DEF elsewhere
<1>4. CASE InPhase(r, "store") /\ storeLock = Absent /\ storeLock' = r /\ ToPhase(r, "commit")
           /\ UNCHANGED mkLock
  <2>1. PhaseInv(ask[r]) /\ CandidateInv(ask[r]) /\ LockInvariant(r, ask[r]) /\ ask[r].pc = "store"
    BY <1>4, AskInPhase
  <2>2. /\ ask' = [ask EXCEPT ![r] = x("commit")]
        /\ x("commit") \in UnderWay /\ x("commit").pc = "commit" /\ x("commit").do = ask[r].do
        /\ x("commit").url = ask[r].url /\ x("commit").id = ask[r].id
        /\ x("commit").expect = ask[r].expect /\ x("commit").cur = ask[r].cur
        /\ x("commit").src = ask[r].src
    BY <1>4, <2>1, MovesOn DEF AskPhases
  <2> HIDE DEF x
  <2>3. PhaseInv(x("commit"))
    BY <2>1, <2>2 DEF PhaseInv
  <2>4. CandidateInv(x("commit"))
    BY <2>1, <2>2 DEF CandidateInv
  <2>5. WillHold(r, x("commit"))
    BY <1>4, <2>1, <2>2 DEF WillHold, LockInvariant
  <2>6. /\ mkLock' \in Asks \cup {Absent} /\ storeLock' \in Asks \cup {Absent}
        /\ \A q \in Asks : q # r => (mkLock = q => mkLock' = q) /\ (storeLock = q => storeLock' = q)
    BY <1>4, MarketAssumption DEF MkInv, MkTypeOK, MarketAssumption, Asks
  <2> QED BY <1>1, <2>2, <2>3, <2>4, <2>5, <2>6, OneAsk DEF elsewhere
<1> QED BY <1>2, <1>3, <1>4 DEF TakeLocks

LEMMA VerifyInv ==
  ASSUME MarketAssumption, MkInv, NEW r \in Asks, VerifySource(r)
  PROVE  MkInv'
<1>1. UNCHANGED <<docs, elsewhere, modLock, reviewed>> /\ ask[r].do = "install"
  BY DEF VerifySource
<1>2. CASE Return(r)
  BY <1>1, <1>2, LeaveInv DEF Return, elsewhere
<1>3. CASE AtRevision(r) /\ ask[r].src \in market /\ Verified(r)
  <2> DEFINE x == [ask[r] EXCEPT !.pc = "import"]
  <2>1. PhaseInv(ask[r]) /\ CandidateInv(ask[r]) /\ LockInvariant(r, ask[r]) /\ ask[r].pc = "commit"
        /\ market = ask[r].rev /\ UNCHANGED <<mkLock, storeLock>>
    BY <1>3, AskInPhase DEF AtRevision, Verified
  <2>2. /\ ask' = [ask EXCEPT ![r] = x]
        /\ x \in UnderWay /\ x.pc = "import" /\ x.do = ask[r].do
        /\ x.url = ask[r].url /\ x.id = ask[r].id /\ x.rev = ask[r].rev
        /\ x.expect = ask[r].expect /\ x.cur = ask[r].cur /\ x.src = ask[r].src
    BY <1>3, <2>1, MovesOn DEF Verified, AskPhases
  <2> HIDE DEF x
  <2>3. PhaseInv(x)
    BY <1>1, <2>1, <2>2 DEF PhaseInv
  <2>4. CandidateInv(x)
    BY <2>1, <2>2 DEF CandidateInv
  <2>5. WillHold(r, x)
    BY <1>1, <1>3, <2>1, <2>2 DEF WillHold, LockInvariant, docs
  <2>6. mkLock' \in Asks \cup {Absent} /\ storeLock' \in Asks \cup {Absent}
    BY <2>1 DEF MkInv, MkTypeOK
  <2> QED BY <1>1, <2>1, <2>2, <2>3, <2>4, <2>5, <2>6, OneAsk DEF elsewhere
<1> QED BY <1>2, <1>3 DEF VerifySource

\* What a commit writes: the document the caller saw with the change, under its lock.
LEMMA CommitWrites ==
  ASSUME MarketAssumption, MkInv, NEW r \in Asks, InPhase(r, "commit"), AtRevision(r),
         NEW next \in Changed(r)
  PROVE  /\ next \subseteq Sources
         /\ ask[r].expect # Absent /\ ask[r].do # "install" => ask[r].expect \in next
<1>1. /\ PhaseInv(ask[r]) /\ CandidateInv(ask[r]) /\ LockInvariant(r, ask[r])
      /\ ask[r].pc = "commit" /\ market \subseteq Sources
  BY AskInPhase DEF MkInv, MkTypeOK
<1>2. ask[r].do \in Writing
  BY <1>1 DEF PhaseInv
<1>3. ask[r].do # "delete" => ask[r].src \in Sources /\ (ask[r].expect # Absent => ask[r].src = ask[r].expect)
  BY <1>1 DEF CandidateInv
<1>4. ask[r].do = "delete" => ask[r].expect = Absent
  BY <1>1 DEF PhaseInv
<1>5. CASE ask[r].do = "add"
  BY <1>1, <1>3, <1>5 DEF Changed
<1>6. CASE ask[r].do = "refresh"
  BY <1>1, <1>3, <1>6 DEF Changed
<1>7. CASE ask[r].do \in {"delete", "install"}
  BY <1>1, <1>4, <1>7 DEF Changed
<1> QED BY <1>2, <1>5, <1>6, <1>7 DEF Writing

\* A request that returns keeps nothing; what the others have stays theirs.
LEMMA Returned ==
  ASSUME MarketAssumption, MkInv, NEW r \in Asks, Return(r)
  PROVE  /\ mkLock' \in Asks \cup {Absent} /\ storeLock' \in Asks \cup {Absent}
         /\ ask' = [q \in Asks |-> ask'[q]]
         /\ ask'[r].pc = "done" /\ \A q \in Asks : q # r => ask'[q] = ask[q]
         /\ \A q \in Asks : q # r => (mkLock = q => mkLock' = q) /\ (storeLock = q => storeLock' = q)
<1>1. ask' = [ask EXCEPT ![r] = [pc |-> "done"]] /\ ask = [q \in Asks |-> ask[q]]
  BY DEF Return, Leave, MkInv
<1>2. ask' = [q \in Asks |-> ask'[q]] /\ ask'[r] = [pc |-> "done"]
      /\ \A q \in Asks : q # r => ask'[q] = ask[q]
  BY <1>1
<1>3. ask'[r].pc = "done"
  BY <1>2
<1>4. /\ mkLock' \in Asks \cup {Absent} /\ storeLock' \in Asks \cup {Absent}
      /\ \A q \in Asks : q # r => (mkLock = q => mkLock' = q) /\ (storeLock = q => storeLock' = q)
  BY DEF Return, Unlocked, MkInv, MkTypeOK
<1> QED BY <1>2, <1>3, <1>4

LEMMA CommitInv ==
  ASSUME MarketAssumption, MkInv, NEW r \in Asks, CommitMarket(r)
  PROVE  MkInv'
<1>1. UNCHANGED <<modules, elsewhere, modLock, reviewed>> /\ Return(r) /\ InPhase(r, "commit")
  BY DEF CommitMarket
<1>2. CASE UNCHANGED market
  BY <1>1, <1>2, LeaveInv DEF Return, elsewhere, docs
<1>3. ASSUME AtRevision(r), NEW next \in Changed(r), ValidMarket(next), market' = next
      PROVE  MkInv'
  <2>1. storeLock = r
    BY <1>1, AskInPhase DEF LockInvariant
  <2>2. /\ mkLock' \in Asks \cup {Absent} /\ storeLock' \in Asks \cup {Absent}
        /\ ask' = [q \in Asks |-> ask'[q]]
        /\ ask'[r].pc = "done" /\ \A q \in Asks : q # r => ask'[q] = ask[q]
        /\ \A q \in Asks : q # r => (mkLock = q => mkLock' = q) /\ (storeLock = q => storeLock' = q)
    BY <1>1, Returned
  <2>3. next \subseteq Sources
    BY <1>1, <1>3, CommitWrites
  <2>4. MkTypeOK'
    BY <1>1, <1>3, <2>2, <2>3 DEF MkInv, MkTypeOK, ValidMarket
  <2>5. \A q \in Asks : AskInv(q)'
    <3> SUFFICES ASSUME NEW q \in Asks PROVE AskInv(q)'
      OBVIOUS
    <3>1. CASE q = r
      BY <3>1, <2>2 DEF AskInv
    <3>2. CASE q # r
      BY <3>2, <2>1, <2>2, OthersKeep DEF MkInv
    <3> QED BY <3>1, <3>2
  <2> QED BY <1>1, <2>2, <2>4, <2>5 DEF MkInv, ReviewedInv, elsewhere
<1> QED BY <1>1, <1>2, <1>3 DEF CommitMarket

\* What an import writes.
LEMMA ImportWrites ==
  ASSUME MarketAssumption, MkInv, NEW r \in Asks, InPhase(r, "import")
  PROVE  /\ market = ask[r].rev /\ ask[r].src \in market /\ ask[r].src \in Sources
         /\ ask[r].src.id = ask[r].id
         /\ ask[r].expect # Absent => ask[r].src = ask[r].expect
         /\ ask[r].src.lists \in Manifests
<1>1. PhaseInv(ask[r]) /\ CandidateInv(ask[r]) /\ LockInvariant(r, ask[r]) /\ ask[r].pc = "import"
  BY AskInPhase
<1>2. ask[r].do = "install"
  BY <1>1 DEF PhaseInv
<1>3. /\ market = ask[r].rev /\ ask[r].src \in market /\ ask[r].src \in Sources
      /\ ask[r].src = ask[r].cur /\ ask[r].cur.id = ask[r].id
      /\ ask[r].expect # Absent => ask[r].src = ask[r].expect
  BY <1>1, <1>2 DEF CandidateInv, LockInvariant, OfSource
<1>4. ask[r].src.lists \in Manifests
  BY <1>3, MarketAssumption DEF Sources, Configured, MarketAssumption
<1> QED BY <1>3, <1>4

LEMMA ImportInv ==
  ASSUME MarketAssumption, MkInv, NEW r \in Asks, ImportSnapshot(r)
  PROVE  MkInv'
<1>1. UNCHANGED <<market, elsewhere, modLock, reviewed>> /\ Return(r) /\ InPhase(r, "import")
  BY DEF ImportSnapshot
<1>2. modules' \in ModuleDocs
  <2>1. modules \in ModuleDocs
    BY DEF MkInv
  <2>2. CASE modules' = [modules EXCEPT !.ext = ask[r].src.lists]
    <3>1. ask[r].src.lists \in Manifests
      BY <1>1, ImportWrites
    <3> QED BY <2>1, <2>2, <3>1 DEF ModuleDocs
  <2> QED BY <2>1, <2>2 DEF ImportSnapshot
<1>3. /\ mkLock' \in Asks \cup {Absent} /\ storeLock' \in Asks \cup {Absent}
      /\ ask' = [q \in Asks |-> ask'[q]]
      /\ ask'[r].pc = "done" /\ \A q \in Asks : q # r => ask'[q] = ask[q]
      /\ \A q \in Asks : q # r => (mkLock = q => mkLock' = q) /\ (storeLock = q => storeLock' = q)
  BY <1>1, Returned
<1>4. MkTypeOK'
  BY <1>1, <1>2, <1>3 DEF MkInv, MkTypeOK, ValidMarket, ModuleDocs
<1>5. \A q \in Asks : AskInv(q)'
  <2> SUFFICES ASSUME NEW q \in Asks PROVE AskInv(q)'
    OBVIOUS
  <2>1. CASE q = r
    BY <2>1, <1>3 DEF AskInv
  <2>2. CASE q # r
    BY <2>2, <1>1, <1>3, OthersKeep DEF MkInv
  <2> QED BY <2>1, <2>2
<1> QED BY <1>1, <1>2, <1>3, <1>4, <1>5 DEF MkInv, ReviewedInv, elsewhere

\* The preview of an install goes on to the source, with what it fetched.
LEMMA PreviewSnapshotInv ==
  ASSUME MarketAssumption, MkInv, NEW r \in Asks, PreviewSnapshot(r)
  PROVE  MkInv'
<1>1. /\ UNCHANGED <<docs, elsewhere, locks, reviewed>>
      /\ InPhase(r, "preview") /\ ask[r].do = "previewInstall"
  BY DEF PreviewSnapshot
<1>2. CASE Leave(r)
  BY <1>1, <1>2, LeaveInv DEF locks, elsewhere
<1>3. CASE ToPhase(r, "source")
  <2>1. PhaseInv(ask[r]) /\ CandidateInv(ask[r]) /\ ask[r].pc = "preview"
    BY <1>1, AskInPhase
  <2> DEFINE x == [ask[r] EXCEPT !.pc = "source"]
  <2>2. /\ ask' = [ask EXCEPT ![r] = x]
        /\ x \in UnderWay /\ x.pc = "source" /\ x.do = ask[r].do /\ x.url = ask[r].url
        /\ x.id = ask[r].id /\ x.expect = ask[r].expect /\ x.cur = ask[r].cur /\ x.src = ask[r].src
    BY <1>3, <2>1, MovesOn DEF AskPhases
  <2> HIDE DEF x
  <2>3. PhaseInv(x)
    BY <1>1, <2>1, <2>2 DEF PhaseInv, OfUrl
  <2>4. CandidateInv(x)
    BY <2>1, <2>2 DEF CandidateInv
  <2>5. WillHold(r, x)
    BY <2>2 DEF WillHold
  <2>6. mkLock' \in Asks \cup {Absent} /\ storeLock' \in Asks \cup {Absent}
    BY <1>1 DEF MkInv, MkTypeOK, locks
  <2> QED BY <1>1, <2>2, <2>3, <2>4, <2>5, <2>6, OneAsk DEF locks, elsewhere
<1> QED BY <1>2, <1>3 DEF PreviewSnapshot

\* A preview leaves what its caller confirms.
LEMMA PreviewInv ==
  ASSUME MarketAssumption, MkInv, NEW r \in Asks, FinishPreview(r)
  PROVE  MkInv'
<1>1. UNCHANGED <<docs, elsewhere, locks>> /\ Leave(r)
      /\ (InPhase(r, "preview") \/ InPhase(r, "source"))
      /\ reviewed' \in {reviewed, reviewed \cup {Confirming(r)}}
  BY DEF FinishPreview
<1>2. PhaseInv(ask[r]) /\ CandidateInv(ask[r]) /\ ask[r].pc \in {"preview", "source"}
  BY <1>1, AskInPhase
<1>3. ask[r] \in UnderWay /\ ask[r].do \in Previewing /\ ask[r].src \in Sources
      /\ (ask[r].do = "previewAdd" => ask[r].url \in Urls)
  BY <1>2 DEF PhaseInv, CandidateInv, OfUrl, Previewing
<1> DEFINE c == Confirming(r)
<1>4. /\ c \in UnderWay /\ c.pc = "check" /\ c.do \in {"add", "refresh", "install"}
      /\ c.do = "add" => c.url \in Urls
  <2> DEFINE do == CASE ask[r].do = "previewAdd" -> "add"
                     [] ask[r].do = "previewRefresh" -> "refresh"
                     [] ask[r].do = "previewInstall" -> "install"
  <2>1. do \in {"add", "refresh", "install"} /\ (do = "add" => ask[r].url \in Urls)
    BY <1>3 DEF Previewing
  <2>2. c = [ask[r] EXCEPT !.do = do, !.expect = ask[r].src, !.cur = Absent, !.src = Absent,
                           !.pc = "check"]
    BY DEF Confirming
  <2> HIDE DEF do, c
  <2> QED BY <1>3, <2>1, <2>2 DEF UnderWay, AskPhases
<1> HIDE DEF c
<1>5. ReviewedInv'
  BY <1>1, <1>4 DEF MkInv, ReviewedInv, c
<1> DEFINE x == [pc |-> "done"]
<1>6. ask' = [ask EXCEPT ![r] = x] /\ x.pc = "done" /\ ask = [q \in Asks |-> ask[q]]
  BY <1>1 DEF Leave, MkInv
<1> HIDE DEF x
<1>7. ask' = [q \in Asks |-> ask'[q]] /\ ask'[r] = x /\ \A q \in Asks : q # r => ask'[q] = ask[q]
  BY <1>6
<1>8. \A q \in Asks : AskInv(q)'
  <2> SUFFICES ASSUME NEW q \in Asks PROVE AskInv(q)'
    OBVIOUS
  <2>1. CASE q = r
    BY <2>1, <1>6, <1>7 DEF AskInv
  <2>2. CASE q # r
    BY <2>2, <1>1, <1>7, OthersKeep DEF MkInv, docs, locks
  <2> QED BY <2>1, <2>2
<1>9. MkTypeOK'
  BY <1>1 DEF MkInv, MkTypeOK, docs, locks, ValidMarket
<1> QED BY <1>1, <1>5, <1>7, <1>8, <1>9 DEF MkInv, docs, elsewhere

\* The rest of the system touches neither the sources nor a request.
LEMMA ElsewhereInv ==
  ASSUME MarketAssumption, MkInv, OtherTransaction \/ RemoteChanges
  PROVE  MkInv'
<1>1. UNCHANGED <<market, mkLock, storeLock, ask, reviewed>>
  BY DEF OtherTransaction, RemoteChanges, docs, locks
<1>2. modules' \in ModuleDocs /\ modLock' \in {Others, Absent}
  <2>1. modules \in ModuleDocs /\ modLock \in {Others, Absent}
    BY DEF MkInv, MkTypeOK
  <2>2. CASE RemoteChanges
    BY <2>1, <2>2 DEF RemoteChanges, docs, locks
  <2>3. CASE OtherTransaction
    BY <2>1, <2>3 DEF OtherTransaction, ModuleDocs
  <2> QED BY <2>2, <2>3
<1>3. catalog' \in [Urls -> Indexes] /\ served' \in Manifests
  BY DEF OtherTransaction, RemoteChanges, MkInv
<1>4. \A q \in Asks : AskInv(q)'
  BY <1>1, OthersKeep DEF MkInv
<1>5. MkTypeOK'
  BY <1>1, <1>2 DEF MkInv, MkTypeOK, ValidMarket, ModuleDocs
<1>6. ReviewedInv'
  BY <1>1 DEF MkInv, ReviewedInv
<1> QED BY <1>1, <1>2, <1>3, <1>4, <1>5, <1>6 DEF MkInv

LEMMA MkStepInv ==
  ASSUME MarketAssumption, MkInv, [MkNext]_mkVars
  PROVE  MkInv'
<1>1. ASSUME NEW r \in Asks, Submit(r) \/ AskStep(r)
      PROVE  MkInv'
  BY <1>1, SubmitInv, PreflightInv, FetchInv, TakeLocksInv, CommitInv, VerifyInv, ImportInv,
     PreviewSnapshotInv, PreviewInv DEF AskStep
<1>2. CASE OtherTransaction \/ RemoteChanges
  BY <1>2, ElsewhereInv
<1>3. CASE UNCHANGED mkVars
  <2>1. \A q \in Asks : AskInv(q)'
    BY <1>3, OthersKeep DEF MkInv, mkVars
  <2>2. MkTypeOK' /\ ReviewedInv'
    BY <1>3 DEF MkInv, MkTypeOK, ValidMarket, ReviewedInv, mkVars
  <2> QED BY <1>3, <2>1, <2>2 DEF MkInv, mkVars
<1> QED BY <1>1, <1>2, <1>3 DEF MkNext

LEMMA MkInvariance == MkSpec => []MkInv
<1>1. MkInit => MkInv
  BY MkInitInv, MarketAssumption
<1>2. MkInv /\ [MkNext]_mkVars => MkInv'
  BY MkStepInv, MarketAssumption
<1> QED BY <1>1, <1>2, PTL DEF MkSpec

\* The document of sources is always one that Read accepts: ids and URLs, final ones
\* included, are of one source each (extension_marketplace.go:835-865).
THEOREM MarketTypeCorrect == MkSpec => []MkTypeOK
<1>1. MkInv => MkTypeOK
  BY DEF MkInv
<1> QED BY <1>1, MkInvariance, PTL

\* No request changes a document other than the one its caller saw, and one that confirms
\* a preview writes the reviewed source (Add, Refresh, Delete and their *Expected forms).
THEOREM CommitsAsSeen == MkSpec => CommittedAsSeen
<1> DEFINE AsSeen(r) == /\ InPhase(r, "commit") /\ ask'[r].pc = "done"
                        /\ ask[r].rev = market
                        /\ ask[r].expect # Absent => ask[r].expect \in market'
           A == market' # market => \E r \in Asks : AsSeen(r)
<1>1. MkInv /\ [MkNext]_mkVars => [A]_mkVars
  <2> SUFFICES ASSUME MkInv, MkNext, market' # market
               PROVE  \E r \in Asks : AsSeen(r)
    BY DEF mkVars
  <2>1. PICK r \in Asks : CommitMarket(r)
    BY DEF MkNext, AskStep, Submit, Preflight, FetchCandidate, TakeLocks, VerifySource,
           ImportSnapshot, PreviewSnapshot, FinishPreview, OtherTransaction, RemoteChanges, docs
  <2>2. PICK next \in Changed(r) : market' = next /\ AtRevision(r) /\ Return(r)
    BY <2>1 DEF CommitMarket
  <2>3. InPhase(r, "commit") /\ ask[r].do # "install"
    BY <2>1 DEF CommitMarket
  <2>4. ask'[r].pc = "done"
    BY <2>2, Returned, MarketAssumption
  <2>5. ask[r].expect # Absent => ask[r].expect \in market'
    BY <2>2, <2>3, CommitWrites, MarketAssumption
  <2> QED BY <2>2, <2>3, <2>4, <2>5 DEF AtRevision
<1>2. MkSpec => [][A]_mkVars
  BY <1>1, MkInvariance, PTL DEF MkSpec
<1> QED BY <1>2 DEF CommittedAsSeen

\* What is installed is what a source lists that is configured at that moment, in the
\* document the caller saw: the marketplace stays locked through the compare-and-swap of
\* the modules (extension_marketplace.go:640-690).
THEOREM InstallsAsListed == MkSpec => InstalledAsListed
<1> DEFINE InstallsListed(r) ==
             /\ InPhase(r, "import") /\ ask'[r].pc = "done"
             /\ market = ask[r].rev /\ modules = ask[r].modRev
             /\ \E s \in market : s.id = ask[r].id /\ s.lists = modules'.ext
             /\ ask[r].expect # Absent => ask[r].expect \in market /\ ask[r].expect.lists = modules'.ext
           A == modules'.ext \notin {modules.ext, Absent} => \E r \in Asks : InstallsListed(r)
<1>1. MkInv /\ [MkNext]_mkVars => [A]_mkVars
  <2> SUFFICES ASSUME MkInv, MkNext, modules'.ext \notin {modules.ext, Absent}
               PROVE  \E r \in Asks : InstallsListed(r)
    BY DEF mkVars
  <2>1. ~OtherTransaction
    BY DEF OtherTransaction, MkInv, ModuleDocs
  <2>2. PICK r \in Asks : ImportSnapshot(r)
    BY <2>1 DEF MkNext, AskStep, Submit, Preflight, FetchCandidate, TakeLocks, CommitMarket,
           VerifySource, PreviewSnapshot, FinishPreview, RemoteChanges, docs
  <2>3. /\ InPhase(r, "import") /\ Return(r) /\ modules = ask[r].modRev
        /\ modules' = [modules EXCEPT !.ext = ask[r].src.lists]
    BY <2>2 DEF ImportSnapshot
  <2>4. modules'.ext = ask[r].src.lists
    BY <2>3 DEF MkInv, ModuleDocs
  <2>5. ask'[r].pc = "done"
    BY <2>3, Returned, MarketAssumption
  <2>6. /\ market = ask[r].rev /\ ask[r].src \in market /\ ask[r].src.id = ask[r].id
        /\ ask[r].expect # Absent => ask[r].src = ask[r].expect
    BY <2>3, ImportWrites, MarketAssumption
  <2> QED BY <2>3, <2>4, <2>5, <2>6
<1>2. MkSpec => [][A]_mkVars
  BY <1>1, MkInvariance, PTL DEF MkSpec
<1> QED BY <1>2 DEF InstalledAsListed

-----------------------------------------------------------------------------
(* What administrators reach, together.                                     *)

LEMMA PartsInit == SvInit => SupInit /\ ExtInit /\ MkInit
BY DEF SvInit

LEMMA PartsNext == [SvNext]_svVars => [SupNext]_supVars /\ [ExtNext]_extVars /\ [MkNext]_mkVars
BY DEF SvNext, svVars

\* The three parts keep their types and the conversations their budgets, in the system
\* that the run checks: each part only moves by its own steps
\* (botsupervisor.go:60-176, bot_extension_state.go:299-340, extension_marketplace.go:381-700).
THEOREM ConsoleWithinLimits == SvSpec => []WithinLimits
<1> DEFINE Inv == SupInv /\ MkInv /\ CoreInv /\ SlotInv /\ Budget(tokens, inputs, used)
<1>1. SvInit => Inv
  BY PartsInit, SupInitInv, MkInitInv, CoreInit, BudgetInit, MarketAssumption
<1>2. Inv /\ [SvNext]_svVars => Inv'
  <2> SUFFICES ASSUME Inv, [SvNext]_svVars PROVE Inv'
    OBVIOUS
  <2>1. [SupNext]_supVars /\ [ExtNext]_extVars /\ [MkNext]_mkVars
    BY PartsNext
  <2>2. SupInv'
    BY <2>1, SupStepInv, SupAssumption
  <2>3. MkInv'
    BY <2>1, MkStepInv, MarketAssumption
  <2>4. CoreInv' /\ SlotInv' /\ Budget(tokens, inputs, used)'
    BY <2>1, CoreKept, BudgetKept
  <2> QED BY <2>2, <2>3, <2>4
<1>3. Inv => WithinLimits
  BY BudgetIs DEF WithinLimits, SupInv, MkInv, CoreInv
<1> QED BY <1>1, <1>2, <1>3, PTL DEF SvSpec
=============================================================================
