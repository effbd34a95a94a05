----------------------------- MODULE BotProofs -----------------------------
(* Proofs about BotExtensions: a mutation is the reviewed one, the newest           *)
(* generation of an administrator decides, nothing under way is out of reach of      *)
(* a cancellation, removed administrators are powerless, and the store is within      *)
(* its budget.                                                            *)
EXTENDS BotExtensions, FiniteSetTheorems, TLAPS

\* Where an update stands: before it belongs to a generation, on its way to the render
\* slot, and with a review.
Starting == {"menu", "preview", "prompt", "text", "reset"}
Conversing == {"check", "register", "recheck", "render", "work", "list"}
Reviewing == {"slot", "fetch", "review", "issue", "control"}
Registered == {"recheck", "render", "work", "list"} \cup Reviewing

LEMMA SubjectFacts ==
  /\ DOMAIN Mutation \subseteq Subjects /\ DOMAIN Menu \subseteq Subjects
  /\ DOMAIN Conversation \subseteq Subjects /\ Selections \subseteq Subjects /\ None \in Subjects
  /\ OfModule \subseteq Selections
BY DEF Subjects, OfModule, Selections

LEMMA PreviewFacts ==
  ASSUME NEW k \in DOMAIN Mutation
  PROVE  /\ Mutation[k].binds \subseteq Docs /\ Mutation[k].changes \in Docs
         /\ Mutation[k].selects \in Selections \cup {None}
BY DEF Mutation, previewMarketplaceAdd, previewMarketplaceRefresh, previewMarketplaceDelete,
       previewMarketplaceInstall, previewImport, previewToggle, previewDelete, previewReorder,
       previewUpdate, previewSettingSelection, previewEgressSelection,
       previewCaptureDNSSelection, mitmCallback, OfMarket, OfModules, Preview, Docs, Selections

LEMMA MenuFacts ==
  ASSUME NEW m \in DOMAIN Menu
  PROVE  Menu[m].issues \subseteq Selections
BY DEF Menu, renderMarket, renderMarketplaceSource, entryCallback, renderModules, renderModule,
       settingsCallback, settingCallback, egressCallback, captureDNSCallback, renderMITM, List,
       Selections

LEMMA ConversationFacts ==
  /\ \A p \in DOMAIN Conversation : Conversation[p] \in DOMAIN Mutation
  /\ DOMAIN Conversation = {"url", "name", "import", "edit"}
  /\ DOMAIN Prompt = {"url", "import", "edit"}
  /\ Conversation["url"] = "add" /\ Conversation["name"] = "add"
  /\ Conversation["import"] = "import" /\ Conversation["edit"] = "setting"
  /\ "add" \in DOMAIN Mutation /\ "modules" \in DOMAIN Menu
BY DEF Conversation, Prompt, Mutation, Menu

-----------------------------------------------------------------------------
(* The updates that the steps make of an update.                             *)

LEMMA TurnedPC ==
  ASSUME NEW x \in Updates, NEW pc \in Phases
  PROVE  LET y == [x EXCEPT !.pc = pc] IN
         /\ y \in Updates /\ y.pc = pc
         /\ y.owner = x.owner /\ y.do = x.do /\ y.kind = x.kind /\ y.tok = x.tok /\ y.gen = x.gen
         /\ y.dead = x.dead /\ y.pay = x.pay /\ y.shown = x.shown /\ y.did = x.did
BY DEF Updates

LEMMA TurnedDead ==
  ASSUME NEW x \in Updates
  PROVE  LET y == [x EXCEPT !.dead = TRUE] IN
         /\ y \in Updates /\ y.pc = x.pc
         /\ y.owner = x.owner /\ y.do = x.do /\ y.kind = x.kind /\ y.tok = x.tok /\ y.gen = x.gen
         /\ y.dead = TRUE /\ y.pay = x.pay /\ y.shown = x.shown /\ y.did = x.did
BY DEF Updates

-----------------------------------------------------------------------------
(* What every update is at each of its steps.                               *)

PayOf(k, p) ==
  /\ \A d \in Docs \ Mutation[k].binds : p.rev[d] = None
  /\ Mutation[k].fetches = FALSE => p.cand = None

AnswerOf(kind, p) ==
  /\ kind \in DOMAIN Conversation /\ p.cand = None
  /\ \A d \in Docs \ Mutation[Conversation[kind]].binds : p.rev[d] = None

\* What is reviewed is what will be applied, bound to the documents it depends on.
UpInv(x) ==
  /\ x.pc \in Doing \ {"reset"} => x.do = x.pc
  /\ x.do = "confirm" => x.pc \in {"confirm", "slot", "apply", "commit", "done"}
  /\ x.pc \in {"apply", "commit"} => x.do = "confirm"
  /\ x.pc \in Starting \cup Conversing =>
       /\ x.do = "preview" => x.kind \in DOMAIN Mutation
       /\ x.do = "menu" => x.kind \in DOMAIN Menu
       /\ x.do = "prompt" => x.kind \in DOMAIN Prompt
  /\ x.pc \in Conversing /\ x.do = "text" => AnswerOf(x.kind, x.pay)
  /\ x.pc \in Reviewing \cup {"apply", "commit"} =>
       x.kind \in DOMAIN Mutation /\ x.shown = x.pay /\ PayOf(x.kind, x.pay)
  /\ x.pc = "list" => x.do = "menu"
  /\ x.pc \in {"slot", "fetch"} => Mutation[x.kind].fetches # FALSE
  /\ x.pc # "done" => x.did.rev = NoPay.rev
  /\ x.pc = "commit" => x.did.cand = x.pay.cand
  /\ x.did.rev = NoPay.rev \/ x.did = x.shown

\* Whether an update should be the registered one of its owner.
Listed(x) == x.pc \in Registered /\ x.do # "confirm"

\* What a step may do to an update.
Moved(x, y) ==
  /\ y.owner = x.owner
  /\ y.gen = x.gen \/ (x.pc \in Starting /\ y.pc \in {"check", "sweep"})
  /\ x.pc = "done" => y.pc = "done"
  /\ x.pc = "finish" => y.pc \in {"finish", "done"}
  /\ x.pc = "control" => y.pc \in {"control", "finish"}
  /\ y.pc = "confirm" => x.pc = "confirm" /\ y.tok = x.tok
  /\ y.do = "run" /\ y.pc # "done" => x.do = "run" /\ y.tok = x.tok
  /\ y.do = "confirm" <=> x.do = "confirm"
  /\ Listed(x) => Listed(y) \/ y.pc = "finish"
  /\ x.dead => y.dead \/ y.pc = "done"
  /\ Listed(y) /\ ~y.dead => (Listed(x) /\ ~x.dead) \/ (x.pc = "register" /\ y.pc = "recheck")

OpsInv(ops) ==
  /\ ops \in [Ops -> Updates \cup {None}]
  /\ \A j \in Ops : ops[j] # None => ops[j] \in Updates /\ UpInv(ops[j])

OpsMoved(ops, next) ==
  \A j \in Ops : /\ ops[j] = None => next[j] = None
                 /\ ops[j] # None => next[j] # None /\ Moved(ops[j], next[j])

LEMMA NotNone == \A x \in Updates : x # None
BY ExtAssumption

LEMMA NoneNoOp == None \notin Ops /\ None \notin Owners /\ 0 \notin Ops /\ Ops \subseteq 0..MaxOps
BY ExtAssumption DEF Ops

LEMMA MovedSame == ASSUME NEW x PROVE Moved(x, x)
BY DEF Moved

\* A step of one update.
OnlyAt(ops, i, y, next) ==
  next \in [Ops -> Updates \cup {None}] /\ next[i] = y /\ \A j \in Ops \ {i} : next[j] = ops[j]

LEMMA OneMoves ==
  ASSUME NEW ops, OpsInv(ops), NEW i \in Ops, ops[i] # None, NEW y \in Updates, UpInv(y),
         Moved(ops[i], y), NEW next, OnlyAt(ops, i, y, next)
  PROVE  OpsInv(next) /\ OpsMoved(ops, next)
<1>1. OpsInv(next)
  BY DEF OpsInv, OnlyAt
<1>2. OpsMoved(ops, next)
  BY NotNone, MovedSame DEF OpsMoved, OpsInv, OnlyAt
<1> QED BY <1>1, <1>2

\* An update is told that its context is over.
LEMMA Killed ==
  ASSUME NEW x \in Updates, UpInv(x)
  PROVE  LET y == [x EXCEPT !.dead = TRUE] IN y \in Updates /\ UpInv(y) /\ Moved(x, y)
<1> DEFINE y == [x EXCEPT !.dead = TRUE]
<1>1. /\ y \in Updates /\ y.pc = x.pc /\ y.dead = TRUE
      /\ y.owner = x.owner /\ y.do = x.do /\ y.kind = x.kind /\ y.tok = x.tok /\ y.gen = x.gen
      /\ y.pay = x.pay /\ y.shown = x.shown /\ y.did = x.did
  BY TurnedDead
<1> HIDE DEF y
<1>2. UpInv(y)
  BY <1>1 DEF UpInv
<1>3. Moved(x, y)
  BY <1>1 DEF Moved, Listed
<1> QED BY <1>1, <1>2, <1>3 DEF y

\* An update that is over.
Over(x) == [owner |-> x.owner, do |-> x.do, kind |-> None, tok |-> None, gen |-> x.gen,
            pc |-> "done", dead |-> FALSE, pay |-> NoPay, shown |-> NoPay, did |-> NoPay]

LEMMA NewIsOver ==
  ASSUME NEW o, NEW do, NEW newGen
  PROVE  [NewOp(o, do, None, None) EXCEPT !.pc = "done", !.gen = newGen]
           = [owner |-> o, do |-> do, kind |-> None, tok |-> None, gen |-> newGen,
              pc |-> "done", dead |-> FALSE, pay |-> NoPay, shown |-> NoPay, did |-> NoPay]
<1>1. ASSUME NEW x, x = [NewOp(o, do, None, None) EXCEPT !.pc = "done", !.gen = newGen]
      PROVE  x = [owner |-> o, do |-> do, kind |-> None, tok |-> None, gen |-> newGen,
                  pc |-> "done", dead |-> FALSE, pay |-> NoPay, shown |-> NoPay, did |-> NoPay]
  BY <1>1 DEF NewOp
<1> QED BY <1>1

LEMMA ClosedIsOver == ASSUME NEW i PROVE Closed(i) = Over(op[i])
BY NewIsOver DEF Closed, Over

LEMMA OverFacts ==
  ASSUME NEW x \in Updates, UpInv(x)
  PROVE  /\ Over(x) \in Updates /\ UpInv(Over(x)) /\ Over(x).gen = x.gen
         /\ Over(x).pc = "done" /\ Over(x).did = NoPay
         /\ ~Listed(x) => Moved(x, Over(x))
<1>1. /\ Over(x).owner = x.owner /\ Over(x).do = x.do /\ Over(x).gen = x.gen /\ Over(x).pc = "done"
      /\ Over(x).did = NoPay
  BY DEF Over
<1>2. NoPay \in Payloads
  BY DEF NoPay, Payloads
<1>3. None \in Subjects /\ "done" \in Phases
  BY SubjectFacts DEF Phases
<1>4. Over(x) \in Updates
  <2>1. x.owner \in Owners /\ x.do \in Doing /\ x.gen \in Nat
    BY DEF Updates
  <2> QED BY <1>2, <1>3, <2>1 DEF Updates, Over
<1>5. UpInv(Over(x))
  BY <1>1 DEF UpInv, Doing, Starting, Conversing, Reviewing
<1>6. ASSUME ~Listed(x) PROVE Moved(x, Over(x))
  <2>1. ~Listed(Over(x))
    BY <1>1 DEF Listed, Registered, Reviewing
  <2>2. x.pc # "control"
    BY <1>6 DEF Listed, Registered, Reviewing, UpInv
  <2> QED BY <1>1, <1>6, <2>1, <2>2 DEF Moved
<1> QED BY <1>1, <1>4, <1>5, <1>6

-----------------------------------------------------------------------------
(* The steps of an update that change its stage only.                        *)

Goes(x, pc) ==
  \/ /\ pc = "finish" /\ x.do # "confirm"
     /\ x.pc \in {"render", "work", "list"} \cup Reviewing
  \/ /\ x.do = "confirm" /\ x.pc = "slot" /\ pc \in {"done", "apply"}
  \/ x.do # "confirm" /\ x.pc = "slot" /\ pc = "fetch"
  \/ /\ <<x.pc, pc>> \in {<<"check", "register">>, <<"recheck", "render">>, <<"render", "work">>,
                          <<"review", "issue">>, <<"issue", "control">>, <<"text", "reset">>,
                          <<"run", "running">>}

LEMMA GoesOn ==
  ASSUME NEW x \in Updates, UpInv(x), NEW pc, Goes(x, pc)
  PROVE  LET y == [x EXCEPT !.pc = pc] IN y \in Updates /\ UpInv(y) /\ Moved(x, y)
<1> DEFINE y == [x EXCEPT !.pc = pc]
<1>1. pc \in Phases
  BY DEF Goes, Phases, Doing
<1>2. /\ y \in Updates /\ y.pc = pc
      /\ y.owner = x.owner /\ y.do = x.do /\ y.kind = x.kind /\ y.tok = x.tok /\ y.gen = x.gen
      /\ y.dead = x.dead /\ y.pay = x.pay /\ y.shown = x.shown /\ y.did = x.did
  BY <1>1, TurnedPC
<1> HIDE DEF y
<1>3. UpInv(y)
  BY <1>2 DEF UpInv, Goes, Doing, Starting, Conversing, Reviewing
<1>4. Moved(x, y)
  BY <1>2 DEF UpInv, Moved, Goes, Listed, Registered, Doing, Starting, Conversing, Reviewing
<1> QED BY <1>2, <1>3, <1>4 DEF y

StepTo(i, y) ==
  /\ OpsInv(op') /\ OpsMoved(op, op') /\ op'[i] = y /\ op'[i] \in Updates
  /\ \A j \in Ops \ {i} : op'[j] = op[j]

LEMMA StepBy ==
  ASSUME OpsInv(op), NEW i \in Ops, op[i] # None, NEW y \in Updates, UpInv(y), Moved(op[i], y),
         op' = [op EXCEPT ![i] = y]
  PROVE  StepTo(i, y)
<1>1. OnlyAt(op, i, y, op')
  BY DEF OnlyAt, OpsInv
<1>2. OpsInv(op') /\ OpsMoved(op, op')
  BY <1>1, OneMoves
<1> QED BY <1>1, <1>2 DEF StepTo, OnlyAt

LEMMA GoStep ==
  ASSUME OpsInv(op), NEW i \in Ops, op[i] # None, NEW pc, Goes(op[i], pc), Go(i, pc)
  PROVE  StepTo(i, [op[i] EXCEPT !.pc = pc])
<1> DEFINE y == [op[i] EXCEPT !.pc = pc]
<1>1. y \in Updates /\ UpInv(y) /\ Moved(op[i], y)
  BY GoesOn DEF OpsInv
<1>2. op' = [op EXCEPT ![i] = y]
  BY DEF Go
<1> HIDE DEF y
<1> QED BY <1>1, <1>2, StepBy DEF y

LEMMA DoneStep ==
  ASSUME OpsInv(op), NEW i \in Ops, op[i] # None, ~Listed(op[i]), Done(i)
  PROVE  StepTo(i, Over(op[i]))
<1>1. Over(op[i]) \in Updates /\ UpInv(Over(op[i])) /\ Moved(op[i], Over(op[i]))
  BY OverFacts DEF OpsInv
<1>2. op' = [op EXCEPT ![i] = Over(op[i])]
  BY ClosedIsOver DEF Done
<1> QED BY <1>1, <1>2, StepBy

\* Starting: the update gets the generation that its owner is at.
LEMMA BeginStep ==
  ASSUME OpsInv(op), ExtTypeOK, NEW i \in Ops, Begin(i)
  PROVE  StepTo(i, [op[i] EXCEPT !.gen = nextGen + 1, !.pc = "check"])
<1> DEFINE x == op[i]
           newGen == nextGen + 1
           y == [x EXCEPT !.gen = newGen, !.pc = "check"]
<1>1. x \in Updates /\ UpInv(x) /\ x # None /\ x.pc \in {"menu", "preview", "prompt"}
  BY DEF OpsInv, Begin, At
<1>2. op' = [op EXCEPT ![i] = y]
  BY DEF Begin
<1>3. newGen \in Nat /\ "check" \in Phases
  BY DEF ExtTypeOK, Phases
<1> HIDE DEF x, newGen
<1>4. /\ y \in Updates /\ y.pc = "check"
      /\ y.owner = x.owner /\ y.do = x.do /\ y.kind = x.kind /\ y.tok = x.tok /\ y.gen = newGen
      /\ y.dead = x.dead /\ y.pay = x.pay /\ y.shown = x.shown /\ y.did = x.did
  BY <1>1, <1>3 DEF Updates
<1> HIDE DEF y
<1>5. UpInv(y)
  BY <1>1, <1>4 DEF UpInv, Doing, Starting, Conversing, Reviewing
<1>6. Moved(x, y)
  BY <1>1, <1>4 DEF Moved, Listed, Registered, Doing, Starting, Conversing, Reviewing
<1> QED BY <1>1, <1>2, <1>4, <1>5, <1>6, StepBy DEF x, newGen, y

LEMMA ResetStep ==
  ASSUME OpsInv(op), ExtTypeOK, NEW i \in Ops, Reset(i)
  PROVE  StepTo(i, [op[i] EXCEPT !.gen = nextGen + 1, !.pc = "sweep"])
<1> DEFINE x == op[i]
           newGen == nextGen + 1
           y == [x EXCEPT !.gen = newGen, !.pc = "sweep"]
<1>1. x \in Updates /\ UpInv(x) /\ x # None /\ x.pc = "reset"
  BY DEF OpsInv, Reset, At
<1>2. op' = [op EXCEPT ![i] = y]
  BY DEF Reset
<1>3. newGen \in Nat /\ "sweep" \in Phases
  BY DEF ExtTypeOK, Phases
<1> HIDE DEF x, newGen
<1>4. /\ y \in Updates /\ y.pc = "sweep"
      /\ y.owner = x.owner /\ y.do = x.do /\ y.kind = x.kind /\ y.tok = x.tok /\ y.gen = newGen
      /\ y.dead = x.dead /\ y.pay = x.pay /\ y.shown = x.shown /\ y.did = x.did
  BY <1>1, <1>3 DEF Updates
<1> HIDE DEF y
<1>5. UpInv(y)
  BY <1>1, <1>4 DEF UpInv, Doing, Starting, Conversing, Reviewing
<1>6. Moved(x, y)
  BY <1>1, <1>4 DEF Moved, UpInv, Listed, Registered, Doing, Starting, Conversing, Reviewing
<1> QED BY <1>1, <1>2, <1>4, <1>5, <1>6, StepBy DEF x, newGen, y

\* The answer an administrator gives belongs to the question that is pending.
PendingInv(ins) == \A o \in Owners : ins[o] # None => AnswerOf(ins[o].kind, ins[o].pay)

LEMMA ClaimStep ==
  ASSUME OpsInv(op), ExtTypeOK, PendingInv(inputs), NEW i \in Ops, At(i, "text"),
         inputs[op[i].owner] # None,
         op' = [op EXCEPT ![i].gen = nextGen + 1, ![i].pc = "check",
                          ![i].kind = inputs[op[i].owner].kind, ![i].pay = inputs[op[i].owner].pay]
  PROVE  StepTo(i, [op[i] EXCEPT !.gen = nextGen + 1, !.pc = "check",
                               !.kind = inputs[op[i].owner].kind, !.pay = inputs[op[i].owner].pay])
<1> DEFINE x == op[i]
           n == inputs[op[i].owner]
           kind == n.kind
           pay == n.pay
           newGen == nextGen + 1
           y == [x EXCEPT !.gen = newGen, !.pc = "check", !.kind = kind, !.pay = pay]
<1>1. x \in Updates /\ UpInv(x) /\ x # None /\ x.pc = "text" /\ x.owner \in Owners
  BY DEF OpsInv, At, Updates
<1>2. op' = [op EXCEPT ![i] = y]
  OBVIOUS
<1>3. newGen \in Nat /\ "check" \in Phases
  BY DEF ExtTypeOK, Phases
<1>4. n \in Inputs /\ AnswerOf(kind, pay)
  BY <1>1 DEF ExtTypeOK, PendingInv
<1>5. kind \in Subjects /\ pay \in Payloads
  BY <1>4, SubjectFacts DEF Inputs
<1> HIDE DEF n, kind, pay, x, newGen
<1>6. /\ y \in Updates /\ y.pc = "check"
      /\ y.owner = x.owner /\ y.do = x.do /\ y.kind = kind /\ y.tok = x.tok /\ y.gen = newGen
      /\ y.dead = x.dead /\ y.pay = pay /\ y.shown = x.shown /\ y.did = x.did
  BY <1>1, <1>3, <1>5 DEF Updates
<1> HIDE DEF y
<1>7. x.do = "text"
  BY <1>1 DEF UpInv, Doing
<1>8. UpInv(y)
  BY <1>1, <1>4, <1>6, <1>7 DEF UpInv, Doing, Starting, Conversing, Reviewing
<1>9. Moved(x, y)
  BY <1>1, <1>6 DEF Moved, Listed, Registered, Doing, Starting, Conversing, Reviewing
<1> QED BY <1>1, <1>2, <1>6, <1>8, <1>9, StepBy DEF x, newGen, y, n, kind, pay

-----------------------------------------------------------------------------
(* The steps of an operation.                                               *)

LEMMA AwayStep ==
  ASSUME OpsInv(op), NEW i \in Ops, op[i] # None, op[i].pc \in {"check", "register", "recheck"},
         op' = [op EXCEPT ![i].pc = "render", ![i].dead = TRUE]
  PROVE  StepTo(i, [op[i] EXCEPT !.pc = "render", !.dead = TRUE])
<1> DEFINE x == op[i]
           y == [x EXCEPT !.pc = "render", !.dead = TRUE]
<1>1. x \in Updates /\ UpInv(x) /\ x # None
  BY DEF OpsInv
<1>2. op' = [op EXCEPT ![i] = y]
  OBVIOUS
<1>3. "render" \in Phases
  BY DEF Phases
<1>4. x.pc \in {"check", "register", "recheck"}
  OBVIOUS
<1> HIDE DEF x
<1>5. /\ y \in Updates /\ y.pc = "render"
      /\ y.owner = x.owner /\ y.do = x.do /\ y.kind = x.kind /\ y.tok = x.tok /\ y.gen = x.gen
      /\ y.dead = TRUE /\ y.pay = x.pay /\ y.shown = x.shown /\ y.did = x.did
  BY <1>1, <1>3 DEF Updates
<1> HIDE DEF y
<1>6. UpInv(y)
  BY <1>1, <1>4, <1>5 DEF UpInv, Doing, Starting, Conversing, Reviewing
<1>7. Moved(x, y)
  BY <1>1, <1>4, <1>5 DEF Moved, UpInv, Listed, Registered, Doing, Starting, Conversing, Reviewing
<1> QED BY <1>1, <1>2, <1>5, <1>6, <1>7, StepBy DEF x, y

\* The registered operation of an owner is at work, and is its own.
ActiveInv(act, ops) ==
  \A o \in Owners : act[o] # None =>
    /\ ops[act[o]] # None /\ ops[act[o]].owner = o
    /\ Listed(ops[act[o]]) \/ ops[act[o]].pc = "finish"

\* A step of update i, which may end the context of another one.
Spared(x, y) == y = x \/ (x # None /\ y = [x EXCEPT !.dead = TRUE])

OpsStep(i) == OpsInv(op') /\ OpsMoved(op, op') /\ \A j \in Ops \ {i} : Spared(op[j], op'[j])

LEMMA RegisterStep ==
  ASSUME OpsInv(op), ExtTypeOK, ActiveInv(active, op), NEW i \in Ops, Register(i)
  PROVE  OpsStep(i)
<1> DEFINE x == op[i]
           prev == active[x.owner]
           y == [x EXCEPT !.pc = "recheck"]
<1>1. x \in Updates /\ UpInv(x) /\ x # None /\ x.pc = "register" /\ x.owner \in Owners
  BY DEF OpsInv, Register, At, Updates
<1>2. prev \in Ops \cup {None} /\ (prev # None => op[prev] # None)
  BY <1>1 DEF ExtTypeOK, ActiveInv
<1>3. CASE op' = [op EXCEPT ![i].pc = "render", ![i].dead = TRUE]
  BY <1>1, <1>3, AwayStep DEF StepTo, OpsStep, Spared
<1>4. CASE op' = [j \in Ops |-> IF j = i THEN y
                                ELSE IF j = prev THEN [op[j] EXCEPT !.dead = TRUE] ELSE op[j]]
  <2>1. /\ y \in Updates /\ y.pc = "recheck"
        /\ y.owner = x.owner /\ y.do = x.do /\ y.kind = x.kind /\ y.tok = x.tok /\ y.gen = x.gen
        /\ y.dead = x.dead /\ y.pay = x.pay /\ y.shown = x.shown /\ y.did = x.did
    <3>1. "recheck" \in Phases
      BY DEF Phases
    <3> HIDE DEF x
    <3> QED BY <1>1, <3>1 DEF Updates
  <2>2. op'[i] = y /\ \A j \in Ops \ {i} : op'[j] = op[j] \/ (j = prev /\ op'[j] = [op[j] EXCEPT !.dead = TRUE])
    BY <1>4
  <2>3. DOMAIN op' = Ops /\ op' = [j \in Ops |-> op'[j]]
    BY <1>4
  <2> HIDE DEF y, x
  <2>4. UpInv(y) /\ Moved(x, y)
    BY <1>1, <2>1 DEF UpInv, Moved, Listed, Registered, Doing, Starting, Conversing, Reviewing
  <2>5. ASSUME NEW j \in Ops, op[j] = None PROVE op'[j] = None
    <3>1. j # i /\ j # prev
      BY <1>1, <1>2, <2>5, NoneNoOp DEF x
    <3> QED BY <2>2, <2>5, <3>1
  <2>6. ASSUME NEW j \in Ops, op[j] # None
        PROVE  op'[j] \in Updates /\ UpInv(op'[j]) /\ Moved(op[j], op'[j])
    <3>1. op[j] \in Updates /\ UpInv(op[j])
      BY <2>6 DEF OpsInv
    <3>2. CASE j = i
      BY <2>1, <2>2, <2>4, <3>2 DEF x
    <3>3. CASE j # i /\ op'[j] = op[j]
      BY <3>1, <3>3, MovedSame
    <3>4. CASE j # i /\ op'[j] = [op[j] EXCEPT !.dead = TRUE]
      BY <3>1, <3>4, Killed
    <3> QED BY <2>2, <3>2, <3>3, <3>4
  <2>7. \A j \in Ops : op'[j] \in Updates \cup {None}
    BY <2>5, <2>6 DEF OpsInv
  <2>8. ASSUME NEW j \in Ops \ {i} PROVE Spared(op[j], op'[j])
    <3>1. j = prev => op[j] # None
      BY <1>2, NoneNoOp DEF x
    <3> QED BY <2>2, <3>1 DEF Spared
  <2> QED BY <2>3, <2>5, <2>6, <2>7, <2>8, NotNone DEF OpsStep, OpsInv, OpsMoved
<1> QED BY <1>1, <1>3, <1>4 DEF Register

\* A review is of what it shows.
LEMMA PrepareStep ==
  ASSUME OpsInv(op), NEW i \in Ops, At(i, "work"), op[i].do # "confirm", NEW k \in DOMAIN Mutation,
         NEW rev \in [Docs -> Contents \cup {None}],
         \A d \in Docs \ Mutation[k].binds : rev[d] = None, Prepare(i, k, rev)
  PROVE  OpsStep(i)
<1> DEFINE x == op[i]
           pay == [rev |-> rev, cand |-> None]
           pc == IF Mutation[k].fetches THEN "slot" ELSE "review"
           y == [x EXCEPT !.kind = k, !.pay = pay, !.shown = pay, !.pc = pc]
<1>1. x \in Updates /\ UpInv(x) /\ x # None /\ x.pc = "work" /\ x.do # "confirm"
  BY DEF OpsInv, At
<1>2. op' = [op EXCEPT ![i] = y]
  BY DEF Prepare
<1>3. pc \in Phases /\ k \in Subjects /\ pay \in Payloads
  BY SubjectFacts DEF Phases, Payloads
<1>4. pay.rev = rev /\ pay.cand = None /\ PayOf(k, pay)
  BY DEF PayOf
<1>5. pc \in {"slot", "review"} /\ (pc = "slot" => Mutation[k].fetches # FALSE)
  OBVIOUS
<1> HIDE DEF x, pay, pc
<1>6. /\ y \in Updates /\ y.pc = pc
      /\ y.owner = x.owner /\ y.do = x.do /\ y.kind = k /\ y.tok = x.tok /\ y.gen = x.gen
      /\ y.dead = x.dead /\ y.pay = pay /\ y.shown = pay /\ y.did = x.did
  BY <1>1, <1>3 DEF Updates
<1> HIDE DEF y
<1>7. UpInv(y)
  BY <1>1, <1>4, <1>5, <1>6 DEF UpInv, Doing, Starting, Conversing, Reviewing
<1>8. Moved(x, y)
  BY <1>1, <1>5, <1>6 DEF Moved, UpInv, Listed, Registered, Doing, Starting, Conversing, Reviewing
<1> QED BY <1>1, <1>2, <1>6, <1>7, <1>8, StepBy DEF x, StepTo, OpsStep, Spared

LEMMA GoOps ==
  ASSUME OpsInv(op), NEW i \in Ops, op[i] # None, NEW pc, Goes(op[i], pc), Go(i, pc)
  PROVE  OpsStep(i)
BY GoStep DEF StepTo, OpsStep, Spared

LEMMA DoneOps ==
  ASSUME OpsInv(op), NEW i \in Ops, op[i] # None, ~Listed(op[i]), Done(i)
  PROVE  OpsStep(i)
BY DoneStep DEF StepTo, OpsStep, Spared

LEMMA SeenFacts ==
  ASSUME doc \in [Docs -> Contents], NEW k \in DOMAIN Mutation
  PROVE  /\ Seen(k) \in [Docs -> Contents \cup {None}]
         /\ \A d \in Docs \ Mutation[k].binds : Seen(k)[d] = None
BY DEF Seen

\* A list's selections are bound to the view it read.
LEMMA ViewFacts ==
  ASSUME doc \in [Docs -> Contents], NEW S
  PROVE  View(S) \in Payloads
<1>1. ASSUME NEW k \in DOMAIN Mutation PROVE [rev |-> Seen(k), cand |-> None] \in Payloads
  <2>1. Seen(k) \in [Docs -> Contents \cup {None}]
    BY SeenFacts
  <2> QED BY <2>1 DEF Payloads
<1>2. "import" \in DOMAIN Mutation /\ "add" \in DOMAIN Mutation
  BY DEF Mutation
<1> QED BY <1>1, <1>2 DEF View

LEMMA ShowOps ==
  ASSUME OpsInv(op), ExtTypeOK, NEW i \in Ops, At(i, "work"), op[i].do = "menu",
         op' = [op EXCEPT ![i].pc = "list", ![i].pay = View(Menu[op[i].kind].issues)]
  PROVE  OpsStep(i)
<1> DEFINE x == op[i]
           pay == View(Menu[op[i].kind].issues)
           y == [x EXCEPT !.pc = "list", !.pay = pay]
<1>1. x \in Updates /\ UpInv(x) /\ x # None /\ x.pc = "work" /\ x.do = "menu"
  BY DEF OpsInv, At
<1>2. op' = [op EXCEPT ![i] = y]
  OBVIOUS
<1>3. "list" \in Phases /\ pay \in Payloads
  BY ViewFacts DEF Phases, ExtTypeOK
<1> HIDE DEF x, pay
<1>4. /\ y \in Updates /\ y.pc = "list"
      /\ y.owner = x.owner /\ y.do = x.do /\ y.kind = x.kind /\ y.tok = x.tok /\ y.gen = x.gen
      /\ y.dead = x.dead /\ y.pay = pay /\ y.shown = x.shown /\ y.did = x.did
  BY <1>1, <1>3 DEF Updates
<1> HIDE DEF y
<1>5. UpInv(y)
  BY <1>1, <1>4 DEF UpInv, Doing, Starting, Conversing, Reviewing
<1>6. Moved(x, y)
  BY <1>1, <1>4 DEF Moved, UpInv, Listed, Registered, Doing, Starting, Conversing, Reviewing
<1> QED BY <1>1, <1>2, <1>4, <1>5, <1>6, StepBy DEF x, StepTo, OpsStep, Spared

LEMMA ListOps ==
  ASSUME OpsInv(op), NEW i \in Ops, ListStep(i)
  PROVE  OpsStep(i)
<1>1. op[i] \in Updates /\ UpInv(op[i]) /\ op[i] # None /\ op[i].pc = "list"
  BY DEF OpsInv, ListStep, At
<1>2. CASE op' = op
  BY <1>2, MovedSame DEF OpsStep, OpsInv, OpsMoved, Spared
<1>3. CASE Go(i, "finish")
  <2>1. Goes(op[i], "finish")
    BY <1>1 DEF Goes, UpInv
  <2> QED BY <1>1, <1>3, <2>1, GoOps
<1> QED BY <1>2, <1>3 DEF ListStep, CancelKind, IssueSelection

LEMMA WorkOps ==
  ASSUME OpsInv(op), ExtTypeOK, NEW i \in Ops, Work(i)
  PROVE  OpsStep(i)
<1> DEFINE x == op[i]
<1>1. x \in Updates /\ UpInv(x) /\ x # None /\ x.pc = "work" /\ x.do # "confirm" /\ At(i, "work")
  BY DEF OpsInv, Work, At, UpInv
<1>2. CASE Go(i, "finish")
  <2>1. Goes(x, "finish")
    BY <1>1 DEF Goes
  <2> QED BY <1>1, <1>2, <2>1, GoOps
<1>3. CASE StartPreview(i)
  <2>1. CASE Prepare(i, x.kind, Seen(x.kind))
    <3>1. x.kind \in DOMAIN Mutation
      BY <1>1, <1>3 DEF StartPreview, UpInv, Conversing
    <3> HIDE DEF x
    <3>2. Seen(x.kind) \in [Docs -> Contents \cup {None}]
          /\ \A d \in Docs \ Mutation[x.kind].binds : Seen(x.kind)[d] = None
      BY <3>1, SeenFacts DEF ExtTypeOK
    <3> QED BY <1>1, <2>1, <3>1, <3>2, PrepareStep DEF x
  <2> QED BY <1>2, <1>3, <2>1 DEF StartPreview
<1>4. CASE TakeInput(i)
  <2>1. AnswerOf(x.kind, x.pay) /\ x.pay.rev \in [Docs -> Contents \cup {None}]
    BY <1>1, <1>4 DEF TakeInput, UpInv, Conversing, Updates, Payloads
  <2>2. ASSUME NEW k \in DOMAIN Mutation, k = Conversation[x.kind], Prepare(i, k, x.pay.rev)
        PROVE  OpsStep(i)
    <3>1. \A d \in Docs \ Mutation[k].binds : x.pay.rev[d] = None
      BY <2>1, <2>2 DEF AnswerOf
    <3> QED BY <1>1, <2>1, <2>2, <3>1, PrepareStep
  <2>3. CASE consumeMarketplaceName(i)
    <3>1. x.kind = "name" /\ (Prepare(i, "add", x.pay.rev) \/ Go(i, "finish"))
      BY <2>3 DEF consumeMarketplaceName
    <3> QED BY <1>2, <2>2, <3>1, ConversationFacts
  <2>4. CASE consumeImport(i)
    <3>1. x.kind = "import" /\ Prepare(i, "import", x.pay.rev)
      BY <2>4 DEF consumeImport
    <3> QED BY <2>2, <3>1, ConversationFacts
  <2>5. CASE consumeSettingInput(i)
    <3>1. x.kind = "edit" /\ (Prepare(i, "setting", x.pay.rev) \/ Go(i, "finish"))
      BY <2>5 DEF consumeSettingInput
    <3> QED BY <1>2, <2>2, <3>1, ConversationFacts
  <2> QED BY <1>2, <1>4, <2>3, <2>4, <2>5 DEF TakeInput, retryInput, consumeMarketplaceURL
<1>5. CASE ShowMenu(i)
  BY <1>1, <1>2, <1>5, ShowOps DEF ShowMenu
<1> QED BY <1>2, <1>3, <1>4, <1>5 DEF Work, AskInput

\* The review shows the candidate that its confirmation will bind.
LEMMA FetchOps ==
  ASSUME OpsInv(op), ExtTypeOK, NEW i \in Ops, Fetch(i)
  PROVE  OpsStep(i)
<1> DEFINE x == op[i]
<1>1. x \in Updates /\ UpInv(x) /\ x # None /\ x.pc = "fetch" /\ x.do # "confirm"
  BY DEF OpsInv, Fetch, At, UpInv
<1>2. CASE Go(i, "finish")
  <2>1. Goes(x, "finish")
    BY <1>1 DEF Goes, Reviewing
  <2> QED BY <1>1, <1>2, <2>1, GoOps
<1>3. CASE op' = [op EXCEPT ![i].pay.cand = remote, ![i].shown.cand = remote, ![i].pc = "review"]
  <2> DEFINE pay == [x.pay EXCEPT !.cand = remote]
             shown == [x.shown EXCEPT !.cand = remote]
             y == [x EXCEPT !.pay = pay, !.shown = shown, !.pc = "review"]
  <2>1. op' = [op EXCEPT ![i] = y]
    BY <1>1, <1>3 DEF OpsInv, Updates
  <2>2. x.pay \in Payloads /\ x.shown = x.pay /\ remote \in Contents /\ PayOf(x.kind, x.pay)
        /\ x.kind \in DOMAIN Mutation /\ Mutation[x.kind].fetches # FALSE
    BY <1>1 DEF Updates, UpInv, ExtTypeOK, Reviewing
  <2> HIDE DEF x
  <2>3. pay = [rev |-> x.pay.rev, cand |-> remote] /\ pay \in Payloads /\ shown = pay
    BY <2>2 DEF Payloads
  <2>4. PayOf(x.kind, pay)
    BY <2>2, <2>3 DEF PayOf
  <2>5. "review" \in Phases
    BY DEF Phases
  <2> HIDE DEF pay, shown
  <2>6. /\ y \in Updates /\ y.pc = "review" /\ y.pay = pay /\ y.shown = shown
        /\ y.owner = x.owner /\ y.do = x.do /\ y.kind = x.kind /\ y.tok = x.tok /\ y.gen = x.gen
        /\ y.dead = x.dead /\ y.did = x.did
    BY <1>1, <2>3, <2>5 DEF Updates
  <2> HIDE DEF y
  <2>7. UpInv(y)
    BY <1>1, <2>2, <2>3, <2>4, <2>6 DEF UpInv, Doing, Starting, Conversing, Reviewing
  <2>8. Moved(x, y)
    BY <1>1, <2>6 DEF Moved, UpInv, Listed, Registered, Doing, Starting, Conversing, Reviewing
  <2> QED BY <1>1, <2>1, <2>6, <2>7, <2>8, StepBy DEF x, StepTo, OpsStep, Spared
<1>4. CASE op' = [op EXCEPT ![i].do = "menu", ![i].kind = "modules", ![i].pc = "work"]
  <2> DEFINE y == [x EXCEPT !.do = "menu", !.kind = "modules", !.pc = "work"]
  <2>1. op' = [op EXCEPT ![i] = y]
    BY <1>4
  <2>2. "menu" \in Doing /\ "work" \in Phases /\ "modules" \in Subjects /\ "modules" \in DOMAIN Menu
    BY SubjectFacts, ConversationFacts DEF Doing, Phases
  <2> HIDE DEF x
  <2>3. /\ y \in Updates /\ y.pc = "work"
        /\ y.owner = x.owner /\ y.do = "menu" /\ y.kind = "modules" /\ y.tok = x.tok /\ y.gen = x.gen
        /\ y.dead = x.dead /\ y.pay = x.pay /\ y.shown = x.shown /\ y.did = x.did
    BY <1>1, <2>2 DEF Updates
  <2> HIDE DEF y
  <2>4. UpInv(y)
    BY <1>1, <2>2, <2>3 DEF UpInv, Doing, Starting, Conversing, Reviewing
  <2>5. Moved(x, y)
    BY <1>1, <2>3 DEF Moved, UpInv, Listed, Registered, Doing, Starting, Conversing, Reviewing
  <2> QED BY <1>1, <2>1, <2>3, <2>4, <2>5, StepBy DEF x, StepTo, OpsStep, Spared
<1> QED BY <1>2, <1>3, <1>4 DEF Fetch

LEMMA NotConfirming ==
  ASSUME NEW x, UpInv(x), x.pc \in Registered \ {"slot"}
  PROVE  x.do # "confirm"
BY DEF UpInv, Registered, Reviewing

LEMMA OperationOps ==
  ASSUME OpsInv(op), ExtTypeOK, PendingInv(inputs), ActiveInv(active, op), NEW i \in Ops,
         OperationStep(i)
  PROVE  OpsStep(i)
<1> DEFINE x == op[i]
<1>0. ASSUME NEW pc, At(i, pc)
      PROVE  x \in Updates /\ UpInv(x) /\ x # None /\ x.pc = pc
  BY <1>0 DEF At, OpsInv
<1>1. CASE Begin(i)
  BY <1>1, BeginStep DEF StepTo, OpsStep, Spared
<1>2. CASE Claim(i)
  <2>1. At(i, "text")
    BY <1>2 DEF Claim
  <2>2. Goes(x, "reset") /\ ~Listed(x)
    BY <1>0, <2>1 DEF Goes, Listed, Registered, Reviewing
  <2> QED BY <1>0, <1>2, <2>1, <2>2, GoOps, DoneOps, ClaimStep DEF Claim, StepTo, OpsStep, Spared
<1>3. CASE Check(i)
  <2>1. At(i, "check")
    BY <1>3 DEF Check
  <2>2. Goes(x, "register")
    BY <1>0, <2>1 DEF Goes
  <2> QED BY <1>0, <1>3, <2>1, <2>2, GoOps, AwayStep DEF Check, StepTo, OpsStep, Spared, Go
<1>4. CASE Register(i)
  BY <1>4, RegisterStep
<1>5. CASE Recheck(i)
  <2>1. At(i, "recheck")
    BY <1>5 DEF Recheck
  <2>2. Goes(x, "render")
    BY <1>0, <2>1 DEF Goes
  <2> QED BY <1>0, <1>5, <2>1, <2>2, GoOps, AwayStep DEF Recheck, StepTo, OpsStep, Spared
<1>6. CASE Render(i)
  <2>1. At(i, "render")
    BY <1>6 DEF Render
  <2>2. Goes(x, "work") /\ Goes(x, "finish")
    BY <1>0, <2>1, NotConfirming DEF Goes, Registered, Reviewing
  <2> QED BY <1>0, <1>6, <2>1, <2>2, GoOps DEF Render
<1>7. CASE Work(i) \/ ListStep(i)
  BY <1>7, WorkOps, ListOps
<1>8. CASE Slot(i)
  <2>1. At(i, "slot")
    BY <1>8 DEF Slot
  <2>2. PICK pc \in {"apply", "fetch", "done", "finish"} :
          Go(i, pc) /\ (x.do = "confirm" <=> pc \in {"apply", "done"})
    BY <1>8 DEF Slot
  <2>3. Goes(x, pc)
    BY <1>0, <2>1, <2>2 DEF Goes, Reviewing
  <2> QED BY <1>0, <2>1, <2>2, <2>3, GoOps
<1>9. CASE Fetch(i)
  BY <1>9, FetchOps
<1>10. CASE Review(i)
  <2>1. At(i, "review")
    BY <1>10 DEF Review
  <2>2. Goes(x, "issue") /\ Goes(x, "finish")
    BY <1>0, <2>1, NotConfirming DEF Goes, Registered, Reviewing
  <2> QED BY <1>0, <1>10, <2>1, <2>2, GoOps DEF Review
<1>11. CASE Issue(i)
  <2>1. At(i, "issue")
    BY <1>11 DEF Issue
  <2>2. Goes(x, "control") /\ Goes(x, "finish")
    BY <1>0, <2>1, NotConfirming DEF Goes, Registered, Reviewing
  <2>3. Go(i, "control") \/ Go(i, "finish")
    BY <1>11 DEF Issue
  <2> QED BY <1>0, <2>1, <2>2, <2>3, GoOps
<1>12. CASE Control(i)
  <2>1. At(i, "control")
    BY <1>12 DEF Control
  <2>2. Goes(x, "finish")
    BY <1>0, <2>1, NotConfirming DEF Goes, Registered, Reviewing
  <2> QED BY <1>0, <1>12, <2>1, <2>2, GoOps DEF Control
<1>13. CASE Finish(i)
  <2>1. At(i, "finish")
    BY <1>13 DEF Finish
  <2>2. ~Listed(x)
    BY <1>0, <2>1 DEF Listed, Registered, Reviewing
  <2> QED BY <1>0, <1>13, <2>1, <2>2, DoneOps DEF Finish
<1> QED BY <1>1, <1>2, <1>3, <1>4, <1>5, <1>6, <1>7, <1>8, <1>9, <1>10, <1>11, <1>12, <1>13
        DEF OperationStep

-----------------------------------------------------------------------------
(* The steps of a confirmation, and the other ones.                         *)

\* A confirmation that is kept is of an update that delivered its review, and of what
\* that review showed.
ButtonInv(ts, ops) ==
  \A t \in ts : t.use = "confirm" =>
    /\ t.by \in Ops /\ ops[t.by] # None
    /\ ops[t.by].owner = t.owner /\ ops[t.by].gen = t.gen
    /\ ops[t.by].pc \in {"control", "finish", "done"}
    /\ t.kind \in DOMAIN Mutation /\ t.shown = t.pay /\ PayOf(t.kind, t.pay)

LEMMA ConsumeOps ==
  ASSUME OpsInv(op), ExtTypeOK, ButtonInv(tokens, op), NEW i \in Ops, Consume(i)
  PROVE  OpsStep(i)
<1> DEFINE x == op[i]
<1>1. x \in Updates /\ UpInv(x) /\ x # None /\ x.pc = "confirm" /\ x.do = "confirm"
  BY DEF OpsInv, Consume, At, UpInv, Doing
<1>2. CASE Done(i)
  <2>1. ~Listed(x)
    BY <1>1 DEF Listed
  <2> QED BY <1>1, <1>2, <2>1, DoneOps
<1>3. ASSUME NEW t \in Confirmation(x.tok),
             op' = [op EXCEPT ![i].kind = t.kind, ![i].pay = t.pay, ![i].shown = t.shown,
                              ![i].pc = IF Mutation[t.kind].fetches THEN "slot" ELSE "apply"]
      PROVE  OpsStep(i)
  <2> DEFINE kind == t.kind
             pay == t.pay
             pc == IF Mutation[kind].fetches THEN "slot" ELSE "apply"
             y == [x EXCEPT !.kind = kind, !.pay = pay, !.shown = pay, !.pc = pc]
  <2>1. t \in tokens /\ t.use = "confirm" /\ t \in Buttons
    BY <1>3 DEF Confirmation, ExtTypeOK
  <2>2. t.kind \in DOMAIN Mutation /\ t.shown = t.pay /\ PayOf(t.kind, t.pay)
    BY <2>1 DEF ButtonInv
  <2>3. op' = [op EXCEPT ![i] = y]
    BY <1>3, <2>2
  <2>4. pc \in Phases /\ kind \in Subjects /\ pay \in Payloads
    BY <2>1, <2>2, SubjectFacts DEF Phases, Buttons
  <2>5. /\ pc \in {"slot", "apply"} /\ (pc = "slot" => Mutation[kind].fetches # FALSE)
        /\ kind \in DOMAIN Mutation /\ PayOf(kind, pay)
    BY <2>2
  <2> HIDE DEF x, kind, pay, pc
  <2>6. /\ y \in Updates /\ y.pc = pc
        /\ y.owner = x.owner /\ y.do = x.do /\ y.kind = kind /\ y.tok = x.tok /\ y.gen = x.gen
        /\ y.dead = x.dead /\ y.pay = pay /\ y.shown = pay /\ y.did = x.did
    BY <1>1, <2>4 DEF Updates
  <2> HIDE DEF y
  <2>7. UpInv(y)
    BY <1>1, <2>5, <2>6 DEF UpInv, Doing, Starting, Conversing, Reviewing
  <2>8. Moved(x, y)
    BY <1>1, <2>5, <2>6 DEF Moved, UpInv, Listed, Registered, Doing, Starting, Conversing, Reviewing
  <2> QED BY <1>1, <2>3, <2>6, <2>7, <2>8, StepBy DEF x, StepTo, OpsStep, Spared
<1> QED BY <1>2, <1>3 DEF Consume

LEMMA ApplyOps ==
  ASSUME OpsInv(op), ExtTypeOK, NEW i \in Ops, Apply(i)
  PROVE  OpsStep(i)
<1> DEFINE x == op[i]
           cand == IF Mutation[x.kind].fetches THEN remote ELSE None
<1>1. x \in Updates /\ UpInv(x) /\ x # None /\ x.pc = "apply" /\ x.do = "confirm"
  BY DEF OpsInv, Apply, At, UpInv
<1>2. CASE Done(i)
  <2>1. ~Listed(x)
    BY <1>1 DEF Listed
  <2> QED BY <1>1, <1>2, <2>1, DoneOps
<1>3. CASE /\ Mutation[x.kind].fetches => AsReviewed(i)
           /\ op' = [op EXCEPT ![i].pc = "commit", ![i].did.cand = cand]
  <2> DEFINE did == [x.did EXCEPT !.cand = cand]
             y == [x EXCEPT !.pc = "commit", !.did = did]
  <2>1. op' = [op EXCEPT ![i] = y]
    BY <1>1, <1>3 DEF OpsInv, Updates
  <2>2. x.kind \in DOMAIN Mutation /\ PayOf(x.kind, x.pay) /\ x.shown = x.pay
    BY <1>1 DEF UpInv
  <2>3. cand \in Contents \cup {None} /\ cand = x.pay.cand
    BY <1>3, <2>2 DEF ExtTypeOK, AsReviewed, PayOf
  <2>4. x.did \in Payloads /\ x.did.rev = NoPay.rev
    BY <1>1 DEF Updates, UpInv
  <2> HIDE DEF x, cand
  <2>5. did = [rev |-> x.did.rev, cand |-> cand] /\ did \in Payloads
    BY <2>3, <2>4 DEF Payloads
  <2>6. did.rev = NoPay.rev /\ did.cand = cand /\ "commit" \in Phases
    BY <2>4, <2>5 DEF Phases
  <2> HIDE DEF did
  <2>7. /\ y \in Updates /\ y.pc = "commit"
        /\ y.owner = x.owner /\ y.do = x.do /\ y.kind = x.kind /\ y.tok = x.tok /\ y.gen = x.gen
        /\ y.dead = x.dead /\ y.pay = x.pay /\ y.shown = x.shown /\ y.did = did
    BY <1>1, <2>5, <2>6 DEF Updates
  <2> HIDE DEF y
  <2>8. UpInv(y)
    BY <1>1, <2>2, <2>3, <2>6, <2>7 DEF UpInv, Doing, Starting, Conversing, Reviewing
  <2>9. Moved(x, y)
    BY <1>1, <2>7 DEF Moved, UpInv, Listed, Registered, Doing, Starting, Conversing, Reviewing
  <2> QED BY <1>1, <2>1, <2>7, <2>8, <2>9, StepBy DEF x, StepTo, OpsStep, Spared
<1> QED BY <1>2, <1>3 DEF Apply

\* What is written was read at the revisions of the review.
LEMMA CommitOps ==
  ASSUME OpsInv(op), ExtTypeOK, NEW i \in Ops, Commit(i)
  PROVE  OpsStep(i)
<1> DEFINE x == op[i]
<1>1. x \in Updates /\ UpInv(x) /\ x # None /\ x.pc = "commit" /\ x.do = "confirm" /\ ~Listed(x)
  BY DEF OpsInv, Commit, At, UpInv, Listed
<1>2. CASE Done(i)
  BY <1>1, <1>2, DoneOps
<1>3. CASE /\ Unchanged(x.kind, x.pay)
           /\ op' = [op EXCEPT ![i] = [Closed(i) EXCEPT !.shown = x.shown,
                                         !.did = [rev |-> Seen(x.kind), cand |-> x.did.cand]]]
  <2> DEFINE did == [rev |-> Seen(x.kind), cand |-> x.did.cand]
             c == Over(x)
             y == [c EXCEPT !.shown = x.shown, !.did = did]
  <2>1. op' = [op EXCEPT ![i] = y]
    BY <1>3, ClosedIsOver
  <2>2. /\ x.kind \in DOMAIN Mutation /\ PayOf(x.kind, x.pay) /\ x.shown = x.pay
        /\ x.did.cand = x.pay.cand /\ x.pay \in Payloads
    BY <1>1 DEF UpInv, Updates
  <2>3. Seen(x.kind) = x.pay.rev
    BY <1>3, <2>2, PreviewFacts DEF Seen, Unchanged, PayOf, Payloads
  <2>4. did = x.shown /\ did \in Payloads
    BY <2>2, <2>3 DEF Payloads
  <2>5. c \in Updates /\ UpInv(c) /\ c.pc = "done" /\ Moved(x, c)
    BY <1>1, OverFacts
  <2> HIDE DEF x, did, c
  <2>6. /\ y \in Updates /\ y.pc = c.pc
        /\ y.owner = c.owner /\ y.do = c.do /\ y.kind = c.kind /\ y.tok = c.tok /\ y.gen = c.gen
        /\ y.dead = c.dead /\ y.pay = c.pay /\ y.shown = x.shown /\ y.did = did
    BY <2>4, <2>5 DEF Updates
  <2> HIDE DEF y
  <2>7. UpInv(y)
    BY <2>4, <2>5, <2>6 DEF UpInv, Doing, Starting, Conversing, Reviewing
  <2>8. Moved(x, y)
    BY <2>5, <2>6 DEF Moved, Listed
  <2> QED BY <1>1, <2>1, <2>6, <2>7, <2>8, StepBy DEF x, StepTo, OpsStep, Spared
<1> QED BY <1>2, <1>3 DEF Commit

\* The sweep of a cancellation.
LEMMA SweepOps ==
  ASSUME NEW ops, OpsInv(ops), NEW o \in Owners, NEW cutoff, ExtTypeOK,
         active[o] # None => ops[active[o]] # None, Sweep(o, cutoff, ops)
  PROVE  /\ OpsInv(op') /\ OpsMoved(ops, op')
         /\ \A j \in Ops : op'[j] = ops[j] \/ (j = active[o] /\ Spared(ops[j], op'[j]))
<1>1. active[o] \in Ops \cup {None}
  BY DEF ExtTypeOK
<1>2. CASE op' = ops
  BY <1>2, MovedSame DEF OpsMoved
<1>3. CASE active[o] # None /\ op' = [ops EXCEPT ![active[o]].dead = TRUE]
  <2> DEFINE i == active[o]
  <2>1. i \in Ops /\ ops[i] # None /\ op' = [ops EXCEPT ![i].dead = TRUE]
    BY <1>1, <1>3
  <2> HIDE DEF i
  <2>2. ops[i] \in Updates /\ UpInv(ops[i])
    BY <2>1 DEF OpsInv
  <2> DEFINE y == [ops[i] EXCEPT !.dead = TRUE]
  <2>3. y \in Updates /\ UpInv(y) /\ Moved(ops[i], y)
    BY <2>2, Killed
  <2>4. OnlyAt(ops, i, y, op')
    BY <2>1, <2>3 DEF OnlyAt, OpsInv
  <2> HIDE DEF y
  <2>5. OpsInv(op') /\ OpsMoved(ops, op')
    BY <2>1, <2>3, <2>4, OneMoves
  <2>6. Spared(ops[i], op'[i])
    BY <2>1, <2>4 DEF Spared, OnlyAt, y
  <2> QED BY <2>4, <2>5, <2>6 DEF i, OnlyAt
<1> QED BY <1>2, <1>3 DEF Sweep

LEMMA SweepResetOps ==
  ASSUME OpsInv(op), ExtTypeOK, ActiveInv(active, op), NEW i \in Ops, SweepReset(i)
  PROVE  OpsStep(i)
<1> DEFINE x == op[i]
           y == IF x.do \in {"ask", "run"} THEN [x EXCEPT !.pc = x.do] ELSE Over(x)
           ops == [op EXCEPT ![i] = y]
<1>1. x \in Updates /\ UpInv(x) /\ x # None /\ x.pc = "sweep" /\ x.owner \in Owners
  BY DEF OpsInv, SweepReset, At, Updates
<1>2. Sweep(x.owner, x.gen, ops)
  BY ClosedIsOver DEF SweepReset
<1>3. y \in Updates /\ UpInv(y) /\ Moved(x, y)
  <2> DEFINE z == [x EXCEPT !.pc = x.do]
  <2>1. CASE x.do \in {"ask", "run"}
    <3>1. x.do \in Phases
      BY <2>1 DEF Phases, Doing
    <3>2. /\ z \in Updates /\ z.pc = x.do
          /\ z.owner = x.owner /\ z.do = x.do /\ z.kind = x.kind /\ z.tok = x.tok /\ z.gen = x.gen
          /\ z.dead = x.dead /\ z.pay = x.pay /\ z.shown = x.shown /\ z.did = x.did
      <4> HIDE DEF x
      <4> QED BY <1>1, <3>1 DEF Updates
    <3>3. y = z
      BY <2>1
    <3> HIDE DEF x, y, z
    <3>4. UpInv(z) /\ Moved(x, z)
      BY <1>1, <2>1, <3>2 DEF UpInv, Moved, Listed, Registered, Doing, Starting, Conversing, Reviewing
    <3> QED BY <3>2, <3>3, <3>4
  <2>2. CASE x.do \notin {"ask", "run"}
    <3>1. ~Listed(x)
      BY <1>1 DEF Listed, Registered, Reviewing
    <3> QED BY <1>1, <2>2, <3>1, OverFacts
  <2> QED BY <2>1, <2>2
<1> HIDE DEF y
<1>4. OnlyAt(op, i, y, ops)
  BY <1>3 DEF OnlyAt, OpsInv
<1> HIDE DEF ops
<1>5. OpsInv(ops) /\ OpsMoved(op, ops)
  BY <1>1, <1>3, <1>4, OneMoves
<1>6. active[x.owner] # i /\ (active[x.owner] # None => ops[active[x.owner]] # None)
  <2>1. active[x.owner] \in Ops \cup {None}
    BY <1>1 DEF ExtTypeOK
  <2>2. active[x.owner] # i
    <3>1. ~Listed(x) /\ x.pc # "finish" /\ i # None
      BY <1>1, NoneNoOp DEF Listed, Registered, Reviewing
    <3> QED BY <1>1, <3>1 DEF ActiveInv
  <2>3. active[x.owner] # None => op[active[x.owner]] # None
    BY <1>1 DEF ActiveInv
  <2> QED BY <2>1, <2>2, <2>3, <1>4 DEF OnlyAt
<1>7. /\ OpsInv(op') /\ OpsMoved(ops, op')
      /\ \A j \in Ops : op'[j] = ops[j] \/ (j = active[x.owner] /\ Spared(ops[j], op'[j]))
  BY <1>1, <1>2, <1>5, <1>6, SweepOps
<1>8. OpsMoved(op, op')
  <2>1. ASSUME NEW j \in Ops PROVE op'[j] = ops[j] \/ ops[j] = op[j]
    BY <1>4, <1>6, <1>7 DEF OnlyAt
  <2> QED BY <1>5, <1>7, <2>1 DEF OpsMoved
<1>9. ASSUME NEW j \in Ops \ {i} PROVE Spared(op[j], op'[j])
  <2>1. ops[j] = op[j]
    BY <1>4 DEF OnlyAt
  <2> QED BY <1>7, <2>1 DEF Spared
<1> QED BY <1>7, <1>8, <1>9 DEF OpsStep

LEMMA OtherOps ==
  ASSUME OpsInv(op), ExtTypeOK, ActiveInv(active, op), NEW i \in Ops, OtherStep(i)
  PROVE  OpsStep(i)
<1> DEFINE x == op[i]
<1>0. ASSUME NEW pc, At(i, pc)
      PROVE  x \in Updates /\ UpInv(x) /\ x # None /\ x.pc = pc
  BY <1>0 DEF At, OpsInv
<1>1. CASE Drop(i)
  <2>1. At(i, "drop")
    BY <1>1 DEF Drop
  <2>2. ~Listed(x)
    BY <1>0, <2>1 DEF Listed, Registered, Reviewing
  <2> QED BY <1>0, <1>1, <2>1, <2>2, DoneOps DEF Drop
<1>2. CASE Reset(i)
  BY <1>2, ResetStep DEF StepTo, OpsStep, Spared
<1>3. CASE SweepReset(i)
  BY <1>3, SweepResetOps
<1>4. CASE Ask(i)
  <2>1. At(i, "ask")
    BY <1>4 DEF Ask
  <2>2. ~Listed(x)
    BY <1>0, <2>1 DEF Listed, Registered, Reviewing
  <2> QED BY <1>0, <1>4, <2>1, <2>2, DoneOps DEF Ask
<1>5. CASE Run(i)
  <2>1. PICK pc \in {"run", "running"} : At(i, pc)
    BY <1>5 DEF Run
  <2>2. ~Listed(x)
    BY <1>0, <2>1 DEF Listed, Registered, Reviewing
  <2>3. CASE Done(i)
    BY <1>0, <2>1, <2>2, <2>3, DoneOps
  <2>4. CASE At(i, "run") /\ Go(i, "running")
    <3>1. Goes(x, "running")
      BY <1>0, <2>4 DEF Goes
    <3> QED BY <1>0, <2>4, <3>1, GoOps
  <2> QED BY <1>5, <2>3, <2>4 DEF Run
<1> QED BY <1>1, <1>2, <1>3, <1>4, <1>5 DEF OtherStep

LEMMA SameOps == ASSUME OpsInv(op), op' = op PROVE OpsStep(None)
BY MovedSame DEF OpsStep, Spared, OpsMoved

LEMMA TimeoutOps ==
  ASSUME OpsInv(op), NEW i \in Ops, Timeout(i)
  PROVE  OpsStep(i)
<1> DEFINE y == [op[i] EXCEPT !.dead = TRUE]
<1>1. op[i] \in Updates /\ UpInv(op[i]) /\ op[i] # None /\ op' = [op EXCEPT ![i] = y]
  BY DEF Timeout, OpsInv
<1>2. y \in Updates /\ UpInv(y) /\ Moved(op[i], y)
  BY <1>1, Killed
<1> HIDE DEF y
<1> QED BY <1>1, <1>2, StepBy DEF StepTo, OpsStep, Spared

LEMMA ReplaceOps ==
  ASSUME OpsInv(op), ExtTypeOK, ActiveInv(active, op), ReplaceAdmins
  PROVE  OpsStep(None)
<1>1. CASE op' = op
  BY <1>1, SameOps
<1>2. CASE replacing # None /\ replacing.sweep # None /\ Sweep(replacing.sweep, replacing.cutoff, op)
  <2> DEFINE o == replacing.sweep
  <2>1. o \in Owners
    BY <1>2 DEF ExtTypeOK, Removals
  <2>2. active[o] # None => op[active[o]] # None
    BY <2>1 DEF ActiveInv
  <2> HIDE DEF o
  <2>3. Sweep(o, replacing.cutoff, op)
    BY <1>2 DEF o
  <2> QED BY <2>1, <2>2, <2>3, SweepOps DEF OpsStep, Spared
<1> QED BY <1>1, <1>2 DEF ReplaceAdmins

\* Whatever happens but the arrival of an update.
Acts(i) == OperationStep(i) \/ ConfirmStep(i) \/ OtherStep(i) \/ Timeout(i)

LEMMA ActsOps ==
  ASSUME OpsInv(op), ExtTypeOK, PendingInv(inputs), ActiveInv(active, op), ButtonInv(tokens, op),
         NEW i \in Ops, Acts(i)
  PROVE  OpsStep(i)
<1>1. CASE ConfirmStep(i)
  BY <1>1, ConsumeOps, ApplyOps, CommitOps DEF ConfirmStep
<1> QED BY <1>1, OperationOps, OtherOps, TimeoutOps DEF Acts

\* An update arrives from an administrator of the moment, with a button that was delivered.
Fresh(x) ==
  /\ x \in Updates /\ UpInv(x) /\ x.owner \in admins /\ x.pc \in Doing /\ x.gen = 0
  /\ x.pc = "confirm" => x.tok \in sent
  /\ x.do = "run" => x.pc = "reset" /\ x.tok \in Ops /\ At(x.tok, "done")

LEMMA NewFacts ==
  ASSUME NEW o \in Owners, NEW do \in Doing, NEW kind \in Subjects, NEW tok \in 0..MaxOps \cup {None},
         do = "preview" => kind \in DOMAIN Mutation, do = "menu" => kind \in DOMAIN Menu,
         do = "prompt" => kind \in DOMAIN Prompt,
         NEW x, x = NewOp(o, do, kind, tok)
  PROVE  /\ x \in Updates /\ UpInv(x) /\ x.owner = o /\ x.pc \in Doing /\ x.gen = 0 /\ x.do = do
         /\ x.tok = tok
         /\ do \in {"ask", "run"} => x.pc = "reset"
         /\ do \notin {"ask", "run"} => x.pc = do
<1> DEFINE pc == IF do \in {"ask", "run"} THEN "reset" ELSE do
<1>1. pc \in Doing /\ pc \in Phases
  BY DEF Doing, Phases
<1>2. x = [owner |-> o, do |-> do, kind |-> kind, tok |-> tok, gen |-> 0, pc |-> pc, dead |-> FALSE,
           pay |-> NoPay, shown |-> NoPay, did |-> NoPay]
  BY DEF NewOp
<1>3. NoPay \in Payloads
  BY DEF NoPay, Payloads
<1> HIDE DEF pc
<1>4. x \in Updates
  BY <1>1, <1>2, <1>3 DEF Updates
<1>5. /\ x.owner = o /\ x.do = do /\ x.kind = kind /\ x.tok = tok /\ x.gen = 0 /\ x.pc = pc
      /\ x.did = NoPay
  BY <1>2
<1>6. UpInv(x)
  BY <1>1, <1>5 DEF UpInv, pc, Doing, Starting, Conversing, Reviewing
<1> QED BY <1>1, <1>4, <1>5, <1>6 DEF pc

LEMMA PressedFacts ==
  ASSUME ExtTypeOK, OpsInv(op), NEW o \in admins, NEW x \in Pressed(o)
  PROVE  Fresh(x) /\ x.owner = o
<1>1. o \in Owners
  BY DEF ExtTypeOK
<1>2. ASSUME NEW s PROVE SourceOf(o, s) \subseteq 0..MaxOps \cup {None}
  BY DEF SourceOf, Held, ExtTypeOK, Buttons
<1>3. None \in Subjects /\ None \in 0..MaxOps \cup {None}
  BY SubjectFacts
<1>4. CASE \E m \in Menus : \E t \in SourceOf(o, Menu[m].needs) : x = NewOp(o, "menu", m, t)
  <2>0. PICK m \in Menus : \E t \in SourceOf(o, Menu[m].needs) : x = NewOp(o, "menu", m, t)
    BY <1>4
  <2>1. PICK t \in SourceOf(o, Menu[m].needs) : x = NewOp(o, "menu", m, t)
    BY <2>0
  <2>2. m \in DOMAIN Menu /\ m \in Subjects /\ t \in 0..MaxOps \cup {None} /\ "menu" \in Doing
    BY <1>2, SubjectFacts, ExtAssumption DEF Doing
  <2>3. x \in Updates /\ UpInv(x) /\ x.owner = o /\ x.pc = "menu" /\ x.gen = 0 /\ x.do = "menu"
    BY <1>1, <2>1, <2>2, NewFacts
  <2> QED BY <2>2, <2>3 DEF Fresh
<1>5. CASE \E k \in Kinds \ {"import"} : \E t \in SourceOf(o, Mutation[k].selects) : x = NewOp(o, "preview", k, t)
  <2>0. PICK k \in Kinds \ {"import"} : \E t \in SourceOf(o, Mutation[k].selects) : x = NewOp(o, "preview", k, t)
    BY <1>5
  <2>1. PICK t \in SourceOf(o, Mutation[k].selects) : x = NewOp(o, "preview", k, t)
    BY <2>0
  <2>2. k \in DOMAIN Mutation /\ k \in Subjects /\ t \in 0..MaxOps \cup {None} /\ "preview" \in Doing
    BY <1>2, SubjectFacts, ExtAssumption DEF Doing
  <2>3. x \in Updates /\ UpInv(x) /\ x.owner = o /\ x.pc = "preview" /\ x.gen = 0 /\ x.do = "preview"
    BY <1>1, <2>1, <2>2, NewFacts
  <2> QED BY <2>2, <2>3 DEF Fresh
<1>6. CASE \E p \in Prompts : \E t \in SourceOf(o, Prompt[p]) : x = NewOp(o, "prompt", p, t)
  <2>0. PICK p \in Prompts : \E t \in SourceOf(o, Prompt[p]) : x = NewOp(o, "prompt", p, t)
    BY <1>6
  <2>1. PICK t \in SourceOf(o, Prompt[p]) : x = NewOp(o, "prompt", p, t)
    BY <2>0
  <2>a. p \in DOMAIN Prompt /\ p \in Subjects
    BY <2>0, SubjectFacts, ConversationFacts, ExtAssumption
  <2>b. t \in 0..MaxOps \cup {None} /\ "prompt" \in Doing
    BY <1>2, <2>1 DEF Doing
  <2>2. p \in DOMAIN Prompt /\ p \in Subjects /\ t \in 0..MaxOps \cup {None} /\ "prompt" \in Doing
    BY <2>a, <2>b
  <2>3. x \in Updates /\ UpInv(x) /\ x.owner = o /\ x.pc = "prompt" /\ x.gen = 0 /\ x.do = "prompt"
    BY <1>1, <2>1, <2>2, NewFacts
  <2> QED BY <2>2, <2>3 DEF Fresh
<1>7. CASE \E do \in {"confirm", "drop"}, j \in sent : x = NewOp(o, do, None, j)
  <2>1. PICK do \in {"confirm", "drop"}, j \in sent : x = NewOp(o, do, None, j)
    BY <1>7
  <2>2. j \in 0..MaxOps \cup {None} /\ do \in Doing
    BY NoneNoOp DEF ExtTypeOK, Doing
  <2>3. x \in Updates /\ UpInv(x) /\ x.owner = o /\ x.pc = do /\ x.gen = 0 /\ x.do = do /\ x.tok = j
    BY <1>1, <1>3, <2>1, <2>2, NewFacts
  <2> QED BY <2>1, <2>2, <2>3 DEF Fresh
<1>8. CASE \E do \in {"text", "reset", "ask"} : x = NewOp(o, do, None, None)
  <2>1. PICK do \in {"text", "reset", "ask"} : x = NewOp(o, do, None, None)
    BY <1>8
  <2>2. do \in Doing /\ do \notin {"preview", "menu", "prompt", "confirm"}
    BY DEF Doing
  <2>3. /\ x \in Updates /\ UpInv(x) /\ x.owner = o /\ x.pc \in Doing /\ x.gen = 0 /\ x.do = do
        /\ x.pc = do \/ x.pc = "reset"
    <3> DEFINE kind == None
               tok == None
    <3>1. kind \in Subjects /\ tok \in 0..MaxOps \cup {None} /\ x = NewOp(o, do, kind, tok)
      BY <1>3, <2>1
    <3> HIDE DEF kind, tok
    <3> QED BY <1>1, <2>2, <3>1, NewFacts
  <2> QED BY <2>1, <2>3 DEF Fresh
<1>9. CASE \E j \in Ops : At(j, "done") /\ x = NewOp(o, "run", None, j)
  <2>1. PICK j \in Ops : At(j, "done") /\ x = NewOp(o, "run", None, j)
    BY <1>9
  <2>2. "run" \in Doing /\ "reset" \in Doing /\ j \in 0..MaxOps \cup {None}
    BY NoneNoOp DEF Doing
  <2>3. x \in Updates /\ UpInv(x) /\ x.owner = o /\ x.pc = "reset" /\ x.gen = 0 /\ x.tok = j
    BY <1>1, <1>3, <2>1, <2>2, NewFacts
  <2> QED BY <2>1, <2>2, <2>3 DEF Fresh, At
<1> QED BY <1>4, <1>5, <1>6, <1>7, <1>8, <1>9 DEF Pressed

LEMMA ArriveFacts ==
  ASSUME ExtTypeOK, OpsInv(op), NEW i \in Ops, Arrive(i)
  PROVE  OpsInv(op') /\ op[i] = None /\ Fresh(op'[i]) /\ \A j \in Ops \ {i} : op'[j] = op[j]
<1>0. PICK o \in admins : \E x \in Pressed(o) : op' = [op EXCEPT ![i] = x]
  BY DEF Arrive
<1>1. PICK x \in Pressed(o) : op' = [op EXCEPT ![i] = x]
  BY <1>0
<1>2. Fresh(x)
  BY PressedFacts
<1>3. op'[i] = x /\ \A j \in Ops \ {i} : op'[j] = op[j]
  BY <1>1 DEF OpsInv
<1>4. op' \in [Ops -> Updates \cup {None}]
  BY <1>1, <1>2 DEF OpsInv, Fresh
<1>5. OpsInv(op')
  BY <1>2, <1>3, <1>4 DEF OpsInv, Fresh
<1> QED BY <1>2, <1>3, <1>5 DEF Arrive

-----------------------------------------------------------------------------
(* What a step of update i makes of the store.                              *)

\* The button of a confirmation, issued by the update that was reviewed.
ConfirmsOf(i, t) ==
  /\ i \in Ops /\ op[i] # None /\ op[i].pc = "issue" /\ op'[i].pc = "control"
  /\ t.by = i /\ t.owner = op[i].owner /\ t.gen = op[i].gen
  /\ t.kind = op[i].kind /\ t.pay = op[i].pay /\ t.shown = op[i].shown

StoreStep(i) ==
  /\ tokens' \subseteq Buttons /\ inputs' \in [Owners -> Inputs \cup {None}]
  /\ \A t \in tokens' : t \in tokens \/ t.use = "select" \/ ConfirmsOf(i, t)
  /\ \A o \in Owners : \/ inputs'[o] = inputs[o] \/ inputs'[o] = None
                       \/ AnswerOf(inputs'[o].kind, inputs'[o].pay)
  /\ \/ UNCHANGED <<gens, nextGen>>
     \/ \E o \in Owners : Advance(o)

\* Only tokens are taken away, or an input.
LEMMA FewerTokens ==
  ASSUME ExtTypeOK, NEW i, tokens' \subseteq tokens,
         \A o \in Owners : inputs'[o] = inputs[o] \/ inputs'[o] = None,
         inputs' \in [Owners -> Inputs \cup {None}],
         UNCHANGED <<gens, nextGen>> \/ \E o \in Owners : Advance(o)
  PROVE  StoreStep(i)
BY DEF StoreStep, ExtTypeOK

LEMMA SameStore == ASSUME ExtTypeOK, NEW i, UNCHANGED store PROVE StoreStep(i)
BY DEF StoreStep, ExtTypeOK, store

LEMMA SelectionFacts ==
  ASSUME NEW i \in 0..MaxOps, NEW s \in Selections, NEW o \in Owners, NEW view \in Payloads
  PROVE  Selection(i, s, o, view) \in Buttons /\ Selection(i, s, o, view).use = "select"
<1>1. NoPay \in Payloads
  BY DEF Payloads, NoPay
<1>2. s \in Subjects
  BY SubjectFacts
<1> QED BY <1>1, <1>2 DEF Buttons, Selection

LEMMA PutInputFacts ==
  ASSUME ExtTypeOK, OpsInv(op), NEW i \in Ops, op[i] # None, NEW input \in Inputs,
         AnswerOf(input.kind, input.pay), PutInput(i, input)
  PROVE  StoreStep(i)
<1> DEFINE o == op[i].owner
<1>1. o \in Owners
  BY DEF OpsInv, Updates
<1>2. CASE inputs' = [inputs EXCEPT ![o] = input] /\ UNCHANGED <<tokens, gens, nextGen>>
  <2>1. inputs' \in [Owners -> Inputs \cup {None}]
    BY <1>1, <1>2 DEF ExtTypeOK
  <2>2. \A x \in Owners : inputs'[x] = inputs[x] \/ (inputs'[x] = input)
    BY <1>1, <1>2 DEF ExtTypeOK
  <2> QED BY <1>2, <2>1, <2>2 DEF StoreStep, ExtTypeOK
<1>3. CASE UNCHANGED store
  BY <1>3, SameStore
<1> QED BY <1>2, <1>3 DEF PutInput

LEMMA WorkStore ==
  ASSUME ExtTypeOK, OpsInv(op), NEW i \in Ops, Work(i)
  PROVE  StoreStep(i)
<1> DEFINE x == op[i]
           o == x.owner
<1>1. x \in Updates /\ UpInv(x) /\ x # None /\ x.pc = "work" /\ o \in Owners
  BY DEF OpsInv, Work, At, Updates
<1>2. CASE UNCHANGED store
  BY <1>2, SameStore
<1>3. CASE AskInput(i)
  <2>1. CASE UNCHANGED store
    BY <2>1, SameStore
  <2>2. CASE PutInput(i, InputFor(x.kind))
    <3>1. x.kind \in DOMAIN Prompt /\ x.kind \in DOMAIN Conversation
      BY <1>1, <1>3, ConversationFacts DEF AskInput, UpInv, Conversing
    <3> DEFINE rev == Seen(Conversation[x.kind])
               pay == [rev |-> rev, cand |-> None]
    <3>2. /\ rev \in [Docs -> Contents \cup {None}]
          /\ \A d \in Docs \ Mutation[Conversation[x.kind]].binds : rev[d] = None
      BY <3>1, ConversationFacts, SeenFacts DEF ExtTypeOK
    <3>3. InputFor(x.kind) = [kind |-> x.kind, pay |-> pay]
      BY DEF InputFor
    <3> HIDE DEF rev
    <3>4. pay \in Payloads /\ AnswerOf(x.kind, pay)
      BY <3>1, <3>2 DEF Payloads, AnswerOf
    <3> HIDE DEF pay
    <3>5. InputFor(x.kind) \in Inputs /\ InputFor(x.kind).kind = x.kind /\ InputFor(x.kind).pay = pay
      BY <3>1, <3>3, <3>4 DEF Inputs
    <3> QED BY <1>1, <2>2, <3>4, <3>5, PutInputFacts
  <2> QED BY <1>3, <2>1, <2>2 DEF AskInput
<1>4. CASE StartPreview(i)
  BY <1>4, SameStore DEF StartPreview
<1>5. CASE TakeInput(i)
  <2>1. AnswerOf(x.kind, x.pay) /\ x.pay \in Payloads
    BY <1>1, <1>5 DEF TakeInput, UpInv, Conversing, Updates
  <2>2. CASE UNCHANGED store
    BY <2>2, SameStore
  <2>3. CASE retryInput(i)
    <3>1. Answer(i) \in Inputs /\ Answer(i).kind = x.kind /\ Answer(i).pay = x.pay
      BY <2>1 DEF Answer, Inputs, AnswerOf
    <3> QED BY <1>1, <2>1, <2>3, <3>1, PutInputFacts DEF retryInput
  <2>4. CASE consumeMarketplaceURL(i)
    <3> DEFINE y == [Answer(i) EXCEPT !.kind = "name"]
    <3>1. y = [kind |-> "name", pay |-> x.pay]
      BY DEF Answer
    <3>2. AnswerOf("name", x.pay)
      BY <2>1, <2>4, ConversationFacts DEF AnswerOf, consumeMarketplaceURL
    <3>3. y \in Inputs /\ y.kind = "name" /\ y.pay = x.pay
      BY <2>1, <3>1, ConversationFacts DEF Inputs
    <3> HIDE DEF y
    <3>4. PutInput(i, y)
      BY <2>4 DEF consumeMarketplaceURL, y
    <3> QED BY <1>1, <3>2, <3>3, <3>4, PutInputFacts
  <2> QED BY <1>5, <2>2, <2>3, <2>4
          DEF TakeInput, consumeMarketplaceName, consumeImport, consumeSettingInput
<1> QED BY <1>2, <1>3, <1>4, <1>5 DEF Work, ShowMenu

LEMMA ListStore ==
  ASSUME ExtTypeOK, OpsInv(op), NEW i \in Ops, ListStep(i)
  PROVE  StoreStep(i)
<1> DEFINE x == op[i]
           o == x.owner
<1>1. x \in Updates /\ UpInv(x) /\ x # None /\ x.pc = "list" /\ o \in Owners
  BY DEF OpsInv, ListStep, At, Updates
<1>2. CASE UNCHANGED store
  BY <1>2, SameStore
<1>3. CASE CancelKind(i)
  <2>1. tokens' \subseteq tokens /\ UNCHANGED <<inputs, gens, nextGen>>
    BY <1>3 DEF CancelKind, SetTokens
  <2> QED BY <2>1, FewerTokens DEF ExtTypeOK
<1>4. CASE IssueSelection(i)
  <2>1. x.kind \in DOMAIN Menu /\ x.pay \in Payloads
    BY <1>1 DEF UpInv, Conversing, Updates
  <2>2. PICK s \in Menu[x.kind].issues : SetTokens(tokens \cup {Selection(i, s, o, x.pay)})
    BY <1>4 DEF IssueSelection
  <2> DEFINE b == Selection(i, s, o, x.pay)
  <2>3. b \in Buttons /\ b.use = "select"
    BY <1>1, <2>1, <2>2, MenuFacts, SelectionFacts, NoneNoOp
  <2> HIDE DEF b
  <2>4. \A t \in tokens' : t \in tokens \/ (t \in Buttons /\ t.use = "select")
    BY <2>2, <2>3 DEF SetTokens, b
  <2> QED BY <1>4, <2>4 DEF IssueSelection, StoreStep, ExtTypeOK
<1> QED BY <1>2, <1>3, <1>4 DEF ListStep

LEMMA IssueStore ==
  ASSUME ExtTypeOK, OpsInv(op), NEW i \in Ops, Issue(i)
  PROVE  StoreStep(i)
<1> DEFINE x == op[i]
           o == x.owner
<1>1. x \in Updates /\ UpInv(x) /\ x # None /\ x.pc = "issue" /\ o \in Owners
  BY DEF OpsInv, Issue, At, Updates
<1>2. CASE UNCHANGED store
  BY <1>2, SameStore
<1>3. CASE ~UNCHANGED store
  <2> DEFINE k == StoreKind(x.kind)
             kept == tokens \ {t \in tokens : t.use = "confirm" /\ t.owner = o /\ StoreKind(t.kind) = k}
             b == [use |-> "confirm", by |-> i, kind |-> x.kind, owner |-> o,
                   gen |-> x.gen, pay |-> x.pay, shown |-> x.shown]
  <2>1. SetTokens(kept \cup {b}) /\ Go(i, "control") /\ UNCHANGED <<inputs, gens, nextGen>>
    BY <1>3 DEF Issue, store
  <2>2. b \in Buttons
    BY <1>1, NoneNoOp DEF Updates, Buttons
  <2>3. op'[i].pc = "control"
    BY <1>1, <2>1, GoStep DEF StepTo, Goes, Go, OpsInv, Updates
  <2>4. /\ b.by = i /\ b.owner = x.owner /\ b.gen = x.gen
        /\ b.kind = x.kind /\ b.pay = x.pay /\ b.shown = x.shown
    OBVIOUS
  <2> HIDE DEF b
  <2>5. ConfirmsOf(i, b)
    BY <1>1, <2>3, <2>4 DEF ConfirmsOf
  <2>6. tokens' \subseteq tokens \cup {b}
    BY <2>1 DEF SetTokens
  <2> QED BY <2>1, <2>2, <2>5, <2>6 DEF StoreStep, ExtTypeOK
<1> QED BY <1>2, <1>3

LEMMA CancelStore ==
  ASSUME ExtTypeOK, NEW i, NEW o \in Owners, CancelOwner(o)
  PROVE  StoreStep(i)
<1>1. /\ inputs' \in [Owners -> Inputs \cup {None}]
      /\ \A x \in Owners : inputs'[x] = inputs[x] \/ inputs'[x] = None
  BY DEF CancelOwner, ExtTypeOK
<1>2. tokens' \subseteq tokens /\ Advance(o)
  BY DEF CancelOwner
<1> QED BY <1>1, <1>2, FewerTokens

LEMMA ActsStore ==
  ASSUME ExtTypeOK, OpsInv(op), NEW i \in Ops, Acts(i)
  PROVE  StoreStep(i)
<1> DEFINE o == op[i].owner
<1>0. op[i] # None => o \in Owners
  BY DEF OpsInv, Updates
<1>1. CASE UNCHANGED store
  BY <1>1, SameStore
<1>2. CASE Begin(i) \/ (Claim(i) /\ ~UNCHANGED store)
  <2>1. /\ op[i] # None /\ Advance(o) /\ inputs' = [inputs EXCEPT ![o] = None]
        /\ tokens' = tokens
    BY <1>2 DEF Begin, Claim, At, Starting
  <2>2. /\ inputs' \in [Owners -> Inputs \cup {None}]
        /\ \A x \in Owners : inputs'[x] = inputs[x] \/ inputs'[x] = None
    BY <1>0, <2>1 DEF ExtTypeOK
  <2> QED BY <1>0, <2>1, <2>2, FewerTokens
<1>3. CASE Work(i) \/ ListStep(i)
  BY <1>3, WorkStore, ListStore
<1>4. CASE Issue(i)
  BY <1>4, IssueStore
<1>5. CASE Control(i) \/ Consume(i) \/ Drop(i)
  <2>1. CASE UNCHANGED store
    BY <2>1, SameStore
  <2>2. CASE ~UNCHANGED store
    <3>1. tokens' \subseteq tokens /\ UNCHANGED <<inputs, gens, nextGen>>
      <4>1. CASE Control(i)
        BY <4>1 DEF Control, SetTokens
      <4>2. CASE Consume(i)
        BY <2>2, <4>2 DEF Consume, SetTokens
      <4>3. CASE Drop(i)
        BY <4>3 DEF Drop, SetTokens
      <4> QED BY <1>5, <4>1, <4>2, <4>3
    <3> QED BY <3>1, FewerTokens DEF ExtTypeOK
  <2> QED BY <2>1, <2>2
<1>6. CASE Reset(i)
  BY <1>0, <1>6, CancelStore DEF Reset, At
<1>7. CASE OperationStep(i)
  BY <1>1, <1>2, <1>3, <1>4, <1>5, <1>7 DEF OperationStep, store
<1>8. CASE ConfirmStep(i)
  BY <1>1, <1>5, <1>8 DEF ConfirmStep, Apply, Commit
<1>9. CASE OtherStep(i)
  BY <1>1, <1>5, <1>6, <1>9 DEF OtherStep, SweepReset, Ask, Run
<1>10. CASE Timeout(i)
  BY <1>1, <1>10 DEF Timeout
<1> QED BY <1>7, <1>8, <1>9, <1>10 DEF Acts

-----------------------------------------------------------------------------
(* The guard, the slots and the rest.                                       *)

\* A registration is kept, given up, or is that of the step; the updates that are not
\* over keep theirs.
GuardStep(i) ==
  /\ active' \in [Owners -> Ops \cup {None}]
  /\ \A o \in Owners :
       \/ active'[o] = None
       \/ active'[o] = active[o] /\ (active[o] = i => op[i].pc # "finish")
       \/ i \in Ops /\ op[i] # None /\ active'[o] = i /\ op[i].owner = o /\ op'[i].pc = "recheck"

LEMMA DeregisterFacts ==
  ASSUME ExtTypeOK, NEW i \in Ops, Deregister(i)
  PROVE  /\ active' \in [Owners -> Ops \cup {None}]
         /\ \A o \in Owners : active'[o] = IF active[o] = i THEN None ELSE active[o]
<1>1. \A o \in Owners : active[o] \in Ops \cup {None}
  BY DEF ExtTypeOK
<1> QED BY <1>1 DEF Deregister

LEMMA SameGuard ==
  ASSUME ExtTypeOK, NEW i \in Ops, op[i].pc # "finish", UNCHANGED active
  PROVE  GuardStep(i)
BY DEF GuardStep, ExtTypeOK

LEMMA SweepFacts ==
  ASSUME ExtTypeOK, NEW o \in Owners, NEW cutoff, NEW ops, Sweep(o, cutoff, ops)
  PROVE  /\ active' \in [Owners -> Ops \cup {None}]
         /\ \A x \in Owners : active'[x] = active[x] \/ active'[x] = None
BY DEF Sweep, ExtTypeOK

LEMMA ActsGuard ==
  ASSUME ExtTypeOK, OpsInv(op), NEW i \in Ops, Acts(i)
  PROVE  GuardStep(i)
<1> DEFINE x == op[i]
           o == x.owner
<1>0. op[i] # None => o \in Owners /\ x \in Updates
  BY DEF OpsInv, Updates
<1>1. CASE At(i, "register") /\ Register(i)
  <2>1. CASE active' = active
    BY <1>1, <2>1, SameGuard DEF At
  <2>2. CASE active' # active
    <3>1. /\ active' = [active EXCEPT ![o] = i]
          /\ op' = [j \in Ops |-> IF j = i THEN [x EXCEPT !.pc = "recheck"]
                                  ELSE IF j = active[o] THEN [op[j] EXCEPT !.dead = TRUE] ELSE op[j]]
      BY <1>1, <2>2 DEF Register
    <3>2. op'[i] = [x EXCEPT !.pc = "recheck"]
      BY <3>1
    <3>3. op'[i].pc = "recheck"
      BY <1>0, <1>1, <3>2 DEF At, Updates
    <3>4. /\ active' \in [Owners -> Ops \cup {None}]
          /\ \A p \in Owners : active'[p] = IF p = o THEN i ELSE active[p]
      BY <3>1 DEF ExtTypeOK
    <3>5. x.pc # "finish"
      BY <1>1 DEF At
    <3> QED BY <1>0, <1>1, <3>3, <3>4, <3>5 DEF GuardStep, At
  <2> QED BY <2>1, <2>2
<1>2. CASE (Recheck(i) \/ Finish(i)) /\ Deregister(i)
  BY <1>2, DeregisterFacts, NoneNoOp DEF GuardStep
<1>3. CASE SweepReset(i)
  BY <1>0, <1>3, SweepFacts DEF SweepReset, GuardStep, At
<1>4. CASE x.pc # "finish" /\ active' = active
  BY <1>4, SameGuard
<1>5. CASE OperationStep(i)
  BY <1>1, <1>2, <1>4, <1>5 DEF OperationStep, Begin, Claim, Check, Register, Recheck, Render, Work, ListStep,
     Slot, Fetch, Review, Issue, Control, Finish, At, guard
<1>6. CASE ConfirmStep(i)
  BY <1>4, <1>6 DEF ConfirmStep, Consume, Apply, Commit, At
<1>7. CASE OtherStep(i)
  BY <1>3, <1>4, <1>7 DEF OtherStep, Drop, Reset, Ask, Run, At
<1>8. CASE Timeout(i)
  BY <1>4, <1>8 DEF Timeout, guard
<1> QED BY <1>5, <1>6, <1>7, <1>8 DEF Acts

\* The documents, the slots, and what was delivered.
RestOK ==
  /\ doc \in [Docs -> Contents] /\ remote \in Contents
  /\ admins \subseteq Owners /\ replacing \in Removals \cup {None}
  /\ rendering \subseteq Ops /\ fetching \subseteq Ops /\ sent \subseteq Ops

LEMMA ActsRest ==
  ASSUME ExtTypeOK, OpsInv(op), NEW i \in Ops, Acts(i)
  PROVE  RestOK' /\ UNCHANGED gate
<1>0. RestOK
  BY DEF ExtTypeOK, RestOK
<1>1. UNCHANGED gate
  BY DEF Acts, OperationStep, ConfirmStep, OtherStep, Timeout
<1>2. UNCHANGED world \/ Commit(i)
  BY DEF Acts, OperationStep, ConfirmStep, OtherStep, Timeout, Consume, Apply, world
<1>3. remote' = remote /\ doc' \in [Docs -> Contents]
  BY <1>0, <1>2 DEF Commit, world, RestOK, Acts, ConfirmStep, OperationStep, OtherStep, Timeout
<1>4. rendering' \subseteq Ops
  BY <1>0 DEF RestOK, Acts, OperationStep, ConfirmStep, OtherStep, Timeout, guard, Render, Finish
<1>5. fetching' \subseteq Ops
  BY <1>0 DEF RestOK, Acts, OperationStep, ConfirmStep, OtherStep, Timeout, guard, Slot, Fetch,
              Consume, Apply, Commit, Unfetch
<1>6. sent' \subseteq Ops
  BY <1>0 DEF RestOK, Acts, OperationStep, ConfirmStep, OtherStep, Timeout, Control
<1> QED BY <1>0, <1>1, <1>3, <1>4, <1>5, <1>6 DEF RestOK, gate

-----------------------------------------------------------------------------
(* The invariant of the conversations.                                      *)

CoreInv == ExtTypeOK /\ OpsInv(op) /\ PendingInv(inputs) /\ ActiveInv(active, op) /\ ButtonInv(tokens, op)

LEMMA PendingKept ==
  ASSUME PendingInv(inputs), NEW i, StoreStep(i)
  PROVE  PendingInv(inputs')
BY DEF PendingInv, StoreStep

LEMMA GensGrow ==
  ASSUME ExtTypeOK, NEW i, StoreStep(i)
  PROVE  /\ nextGen' \in Nat /\ gens' \in [Owners -> Nat]
         /\ \A o \in Owners : gens'[o] <= nextGen' /\ gens[o] <= gens'[o]
<1>1. nextGen \in Nat /\ gens \in [Owners -> Nat] /\ \A o \in Owners : gens[o] <= nextGen
  BY DEF ExtTypeOK
<1>2. CASE UNCHANGED <<gens, nextGen>>
  BY <1>1, <1>2
<1>3. ASSUME NEW o \in Owners, Advance(o)
      PROVE  /\ nextGen' \in Nat /\ gens' \in [Owners -> Nat]
             /\ \A p \in Owners : gens'[p] <= nextGen' /\ gens[p] <= gens'[p]
  <2>1. nextGen' = nextGen + 1 /\ gens' = [gens EXCEPT ![o] = nextGen + 1]
    BY <1>3 DEF Advance
  <2>2. nextGen' \in Nat /\ gens' \in [Owners -> Nat]
    BY <1>1, <2>1
  <2>3. \A p \in Owners : gens'[p] = IF p = o THEN nextGen + 1 ELSE gens[p]
    BY <1>1, <2>1
  <2> QED BY <1>1, <2>1, <2>2, <2>3
<1> QED BY <1>2, <1>3 DEF StoreStep

LEMMA ButtonKept ==
  ASSUME OpsInv(op), ButtonInv(tokens, op), OpsMoved(op, op'), NEW i, StoreStep(i)
  PROVE  ButtonInv(tokens', op')
<1> SUFFICES ASSUME NEW t \in tokens', t.use = "confirm"
             PROVE  /\ t.by \in Ops /\ op'[t.by] # None
                    /\ op'[t.by].owner = t.owner /\ op'[t.by].gen = t.gen
                    /\ op'[t.by].pc \in {"control", "finish", "done"}
                    /\ t.kind \in DOMAIN Mutation /\ t.shown = t.pay /\ PayOf(t.kind, t.pay)
  BY DEF ButtonInv
<1>1. CASE t \in tokens
  <2>1. /\ t.by \in Ops /\ op[t.by] # None
        /\ op[t.by].owner = t.owner /\ op[t.by].gen = t.gen
        /\ op[t.by].pc \in {"control", "finish", "done"}
        /\ t.kind \in DOMAIN Mutation /\ t.shown = t.pay /\ PayOf(t.kind, t.pay)
    BY <1>1 DEF ButtonInv
  <2>2. op'[t.by] # None /\ Moved(op[t.by], op'[t.by])
    BY <2>1 DEF OpsMoved
  <2> QED BY <2>1, <2>2 DEF Moved, Starting
<1>2. CASE ConfirmsOf(i, t)
  <2>1. op'[i] # None /\ Moved(op[i], op'[i]) /\ UpInv(op[i])
    BY <1>2 DEF OpsMoved, OpsInv, ConfirmsOf
  <2>2. t.by = i /\ i \in Ops /\ op[i].pc = "issue" /\ op'[i].pc = "control"
    BY <1>2 DEF ConfirmsOf
  <2>3. op'[i].owner = t.owner /\ op'[i].gen = t.gen
    BY <1>2, <2>1 DEF ConfirmsOf, Moved, Starting
  <2>4. t.kind \in DOMAIN Mutation /\ t.shown = t.pay /\ PayOf(t.kind, t.pay)
    BY <1>2, <2>1 DEF ConfirmsOf, UpInv, Reviewing
  <2> QED BY <2>1, <2>2, <2>3, <2>4
<1> QED BY <1>1, <1>2 DEF StoreStep

LEMMA ActiveKept ==
  ASSUME ExtTypeOK, OpsInv(op), ActiveInv(active, op), NEW i, OpsStep(i), GuardStep(i),
         i \notin Ops \/ op[i] # None
  PROVE  ActiveInv(active', op')
<1> SUFFICES ASSUME NEW o \in Owners, active'[o] # None
             PROVE  /\ op'[active'[o]] # None /\ op'[active'[o]].owner = o
                    /\ Listed(op'[active'[o]]) \/ op'[active'[o]].pc = "finish"
  BY DEF ActiveInv
<1>1. OpsInv(op') /\ OpsMoved(op, op') /\ \A j \in Ops \ {i} : Spared(op[j], op'[j])
  BY DEF OpsStep
<1>2. CASE active'[o] = active[o] /\ (active[o] = i => op[i].pc # "finish")
  <2> DEFINE k == active[o]
  <2>1. k \in Ops /\ op[k] # None /\ op[k].owner = o /\ (Listed(op[k]) \/ op[k].pc = "finish")
    BY <1>2 DEF ExtTypeOK, ActiveInv
  <2>2. op'[k] # None /\ Moved(op[k], op'[k])
    BY <1>1, <2>1 DEF OpsMoved
  <2>3. CASE Listed(op[k])
    BY <1>2, <2>1, <2>2, <2>3 DEF Moved
  <2>4. CASE op[k].pc = "finish"
    <3>1. k # i
      BY <1>2, <2>4
    <3>2. Spared(op[k], op'[k]) /\ op[k] \in Updates
      BY <1>1, <2>1, <3>1 DEF OpsInv
    <3>3. op'[k].pc = op[k].pc
      BY <3>2, TurnedDead DEF Spared
    <3> QED BY <1>2, <2>1, <2>2, <2>4, <3>3 DEF Moved
  <2> QED BY <2>1, <2>3, <2>4
<1>3. CASE i \in Ops /\ op[i] # None /\ active'[o] = i /\ op[i].owner = o /\ op'[i].pc = "recheck"
  <2>1. op'[i] # None /\ Moved(op[i], op'[i]) /\ UpInv(op'[i])
    BY <1>1, <1>3 DEF OpsMoved, OpsInv
  <2>2. op'[i].do # "confirm"
    BY <1>3, <2>1 DEF UpInv
  <2> QED BY <1>3, <2>1, <2>2 DEF Moved, Listed, Registered
<1> QED BY <1>2, <1>3 DEF GuardStep

LEMMA ReplaceFacts ==
  ASSUME ExtTypeOK, ReplaceAdmins
  PROVE  StoreStep(None) /\ GuardStep(None) /\ RestOK'
<1>0. RestOK /\ active \in [Owners -> Ops \cup {None}]
  BY DEF ExtTypeOK, RestOK
<1>1. UNCHANGED <<world, rendering, fetching, sent>>
  BY DEF ReplaceAdmins
<1>2. CASE active' = active /\ UNCHANGED store /\ replacing = None
  <2>1. PICK next \in SUBSET Owners \ {admins} :
          /\ admins' = next
          /\ replacing' = IF admins \subseteq next THEN None ELSE [todo |-> admins \ next, sweep |-> None, cutoff |-> 0]
    BY <1>2 DEF ReplaceAdmins
  <2>2. admins \ next \subseteq Owners
    BY <1>0 DEF RestOK
  <2> DEFINE left == admins \ next
             n == [todo |-> left, sweep |-> None, cutoff |-> 0]
  <2>3. n \in Removals
    <3> HIDE DEF left
    <3> QED BY <2>2 DEF Removals, left
  <2>4. replacing' \in {None, n}
    BY <2>1
  <2> HIDE DEF n
  <2>5. RestOK'
    BY <1>0, <1>1, <2>1, <2>3, <2>4 DEF RestOK, world
  <2> QED BY <1>2, <2>5, SameStore, NoneNoOp DEF GuardStep, ExtTypeOK
<1>3. CASE replacing # None /\ replacing.sweep = None
  <2>1. PICK o \in replacing.todo : /\ CancelOwner(o)
                                    /\ replacing' = [replacing EXCEPT !.sweep = o, !.cutoff = nextGen + 1]
    BY <1>3 DEF ReplaceAdmins
  <2>2. replacing \in Removals /\ o \in Owners /\ nextGen + 1 \in Nat
    BY <1>3, <2>1 DEF ExtTypeOK, Removals
  <2>3. replacing' \in Removals
    BY <2>1, <2>2 DEF Removals
  <2>4. active' = active /\ admins' = admins
    BY <1>3 DEF ReplaceAdmins
  <2>5. StoreStep(None)
    BY <2>1, <2>2, CancelStore
  <2>6. RestOK'
    BY <1>0, <1>1, <2>3, <2>4 DEF RestOK, world
  <2> QED BY <2>4, <2>5, <2>6, NoneNoOp DEF GuardStep, ExtTypeOK
<1>4. CASE replacing # None /\ replacing.sweep # None
  <2> DEFINE left == replacing.todo \ {replacing.sweep}
             n == [todo |-> left, sweep |-> None, cutoff |-> 0]
  <2>1. /\ Sweep(replacing.sweep, replacing.cutoff, op) /\ replacing' \in {None, n}
        /\ UNCHANGED store /\ admins' = admins
    BY <1>4 DEF ReplaceAdmins
  <2>2. replacing \in Removals /\ replacing.sweep \in Owners /\ left \subseteq Owners
    BY <1>4 DEF ExtTypeOK, Removals
  <2>3. n \in Removals
    <3> HIDE DEF left
    <3> QED BY <2>2 DEF Removals
  <2> HIDE DEF n
  <2>4. /\ active' \in [Owners -> Ops \cup {None}]
        /\ \A x \in Owners : active'[x] = active[x] \/ active'[x] = None
    BY <2>1, <2>2, SweepFacts
  <2>5. GuardStep(None)
    BY <2>4, NoneNoOp DEF GuardStep, ExtTypeOK
  <2>6. RestOK'
    BY <1>0, <1>1, <2>1, <2>3 DEF RestOK, world
  <2> QED BY <2>1, <2>5, <2>6, SameStore
<1> QED BY <1>2, <1>3, <1>4 DEF ReplaceAdmins

\* Every step that is not an arrival.
LEMMA ElsewhereFacts ==
  ASSUME ExtTypeOK, OpsInv(op), Elsewhere \/ UNCHANGED extVars
  PROVE  OpsStep(None) /\ StoreStep(None) /\ GuardStep(None) /\ RestOK'
<1>1. op' = op /\ UNCHANGED store /\ UNCHANGED guard /\ UNCHANGED sent /\ UNCHANGED <<admins, replacing>>
  BY DEF Elsewhere, extVars, store, guard
<1>2. doc' \in [Docs -> Contents] /\ remote' \in Contents
  BY DEF Elsewhere, extVars, ExtTypeOK
<1>3. RestOK'
  BY <1>1, <1>2 DEF RestOK, guard, ExtTypeOK
<1> QED BY <1>1, <1>3, SameOps, SameStore, NoneNoOp DEF GuardStep, ExtTypeOK, guard

\* A step of an update that is under way, of a removal, or of the rest.
Stepping(i) ==
  /\ OpsStep(i) /\ StoreStep(i) /\ GuardStep(i) /\ RestOK'
  /\ i \notin Ops \/ op[i] # None

LEMMA NextIs ==
  ASSUME CoreInv, [ExtNext]_extVars
  PROVE  \/ \E i \in Ops : Arrive(i)
         \/ \E i \in Ops : Acts(i) /\ Stepping(i)
         \/ (ReplaceAdmins \/ Elsewhere \/ UNCHANGED extVars) /\ Stepping(None)
<1>0. /\ ExtTypeOK /\ OpsInv(op) /\ PendingInv(inputs) /\ ActiveInv(active, op)
      /\ ButtonInv(tokens, op)
  BY DEF CoreInv
<1>1. ASSUME NEW i \in Ops, Acts(i) PROVE Stepping(i)
  <2>1. op[i] # None
    BY <1>1 DEF Acts, OperationStep, ConfirmStep, OtherStep, Timeout, Begin, Claim, Check, Register,
       Recheck, Render, Work, ListStep, Slot, Fetch, Review, Issue, Control, Finish, Consume, Apply, Commit,
       Drop, Reset, SweepReset, Ask, Run, At
  <2> QED BY <1>0, <1>1, <2>1, ActsOps, ActsStore, ActsGuard, ActsRest DEF Stepping
<1>2. ASSUME ReplaceAdmins PROVE Stepping(None)
  BY <1>0, <1>2, ReplaceOps, ReplaceFacts, NoneNoOp DEF Stepping
<1>3. ASSUME Elsewhere \/ UNCHANGED extVars PROVE Stepping(None)
  BY <1>0, <1>3, ElsewhereFacts, NoneNoOp DEF Stepping
<1> QED BY <1>1, <1>2, <1>3 DEF ExtNext, Acts

LEMMA CoreKept ==
  ASSUME CoreInv, [ExtNext]_extVars
  PROVE  CoreInv'
<1>0. /\ ExtTypeOK /\ OpsInv(op) /\ PendingInv(inputs) /\ ActiveInv(active, op)
      /\ ButtonInv(tokens, op)
  BY DEF CoreInv
<1>1. ASSUME NEW i, Stepping(i) PROVE CoreInv'
  <2>1. /\ OpsStep(i) /\ StoreStep(i) /\ GuardStep(i) /\ RestOK' /\ OpsMoved(op, op')
        /\ i \notin Ops \/ op[i] # None
    BY <1>1 DEF Stepping, OpsStep
  <2>2. PendingInv(inputs') /\ ButtonInv(tokens', op')
    BY <1>0, <2>1, PendingKept, ButtonKept
  <2>3. ActiveInv(active', op')
    BY <1>0, <2>1, ActiveKept
  <2>4. /\ nextGen' \in Nat /\ gens' \in [Owners -> Nat] /\ \A o \in Owners : gens'[o] <= nextGen'
    BY <1>0, <2>1, GensGrow
  <2>5. OpsInv(op')
    BY <2>1 DEF OpsStep
  <2>6. ExtTypeOK'
    BY <2>1, <2>4, <2>5 DEF ExtTypeOK, RestOK, OpsInv, StoreStep, GuardStep
  <2> QED BY <2>2, <2>3, <2>5, <2>6 DEF CoreInv
<1>2. ASSUME NEW i \in Ops, Arrive(i) PROVE CoreInv'
  <2>1. /\ OpsInv(op') /\ op[i] = None /\ Fresh(op'[i]) /\ \A j \in Ops \ {i} : op'[j] = op[j]
    BY <1>0, <1>2, ArriveFacts
  <2>2. UNCHANGED <<world, gate, store, guard, sent>>
    BY <1>2 DEF Arrive
  <2>3. ExtTypeOK'
    BY <1>0, <2>1, <2>2 DEF ExtTypeOK, OpsInv, world, gate, store, guard
  <2>4. ActiveInv(active', op')
    <3>1. \A o \in Owners : active[o] # None => active[o] \in Ops \ {i}
      BY <1>0, <2>1 DEF ActiveInv, ExtTypeOK
    <3> QED BY <1>0, <2>1, <2>2, <3>1 DEF ActiveInv, guard
  <2>5. ButtonInv(tokens', op')
    BY <1>0, <2>1, <2>2 DEF ButtonInv, store
  <2> QED BY <1>0, <2>1, <2>2, <2>3, <2>4, <2>5 DEF CoreInv, store
<1> QED BY <1>1, <1>2, NextIs

LEMMA CoreInit == ExtInit => CoreInv
<1> SUFFICES ASSUME ExtInit PROVE CoreInv
  OBVIOUS
<1>1. /\ doc \in [Docs -> Contents] /\ remote \in Contents /\ admins = Owners /\ replacing = None
      /\ gens = [o \in Owners |-> 0] /\ nextGen = 0 /\ active = [o \in Owners |-> None]
      /\ rendering = {} /\ fetching = {} /\ op = [i \in Ops |-> None] /\ sent = {}
  BY DEF ExtInit
<1>2. OpsInv(op) /\ ActiveInv(active, op)
  BY <1>1 DEF OpsInv, ActiveInv
<1>3. \A s \in Selections, o \in Owners : \A S :
        Selection(0, s, o, View(S)) \in Buttons /\ Selection(0, s, o, View(S)).use = "select"
  BY <1>1, SelectionFacts, ViewFacts, ExtAssumption
<1>4. \A k \in Kinds : Mutation[k].selects # None => Mutation[k].selects \in Selections
  BY PreviewFacts, ExtAssumption
<1>5. \A t \in tokens : t \in Buttons /\ t.use = "select"
  <2>1. PICK o \in Owners :
          \/ tokens = {}
          \/ \E k \in Kinds : /\ Mutation[k].selects # None
                             /\ tokens = {Selection(0, Mutation[k].selects, o, View({Mutation[k].selects}))}
    BY DEF ExtInit
  <2>2. ASSUME NEW k \in Kinds, Mutation[k].selects # None
        PROVE  LET t == Selection(0, Mutation[k].selects, o, View({Mutation[k].selects})) IN
               t \in Buttons /\ t.use = "select"
    <3> DEFINE s == Mutation[k].selects
    <3>1. s \in Selections
      BY <1>4, <2>2
    <3> HIDE DEF s
    <3>2. Selection(0, s, o, View({s})) \in Buttons /\ Selection(0, s, o, View({s})).use = "select"
      BY <1>3, <3>1
    <3> QED BY <3>2 DEF s
  <2>3. CASE tokens # {}
    <3>1. PICK k \in Kinds : /\ Mutation[k].selects # None
                             /\ tokens = {Selection(0, Mutation[k].selects, o, View({Mutation[k].selects}))}
      BY <2>1, <2>3
    <3> DEFINE t == Selection(0, Mutation[k].selects, o, View({Mutation[k].selects}))
    <3>2. t \in Buttons /\ t.use = "select"
      BY <2>2, <3>1
    <3>3. tokens = {t}
      BY <3>1
    <3> HIDE DEF t
    <3> QED BY <3>2, <3>3
  <2> QED BY <2>3
<1>6. \A p \in DOMAIN Conversation :
        InputFor(p) \in Inputs /\ AnswerOf(InputFor(p).kind, InputFor(p).pay)
  <2> SUFFICES ASSUME NEW p \in DOMAIN Conversation
               PROVE  InputFor(p) \in Inputs /\ AnswerOf(InputFor(p).kind, InputFor(p).pay)
    OBVIOUS
  <2> DEFINE rev == Seen(Conversation[p])
             pay == [rev |-> rev, cand |-> None]
  <2>1. /\ rev \in [Docs -> Contents \cup {None}]
        /\ \A d \in Docs \ Mutation[Conversation[p]].binds : rev[d] = None
    BY <1>1, ConversationFacts, SeenFacts
  <2>2. InputFor(p) = [kind |-> p, pay |-> pay]
    BY DEF InputFor
  <2> HIDE DEF rev
  <2>3. pay \in Payloads /\ AnswerOf(p, pay)
    BY <2>1 DEF Payloads, AnswerOf
  <2> HIDE DEF pay
  <2> QED BY <2>2, <2>3 DEF Inputs
<1>7. /\ inputs \in [Owners -> Inputs \cup {None}] /\ PendingInv(inputs)
  <2>1. \A p \in Prompts \cup (IF "url" \in Prompts THEN {"name"} ELSE {}) : p \in DOMAIN Conversation
    BY ConversationFacts, ExtAssumption
  <2>2. PICK o \in Owners :
          \/ inputs = [x \in Owners |-> None]
          \/ \E p \in DOMAIN Conversation : inputs = [x \in Owners |-> IF x = o THEN InputFor(p) ELSE None]
    BY <2>1 DEF ExtInit
  <2> QED BY <1>6, <2>2 DEF PendingInv
<1>8. ExtTypeOK
  BY <1>1, <1>2, <1>5, <1>7 DEF ExtTypeOK, OpsInv
<1>9. ButtonInv(tokens, op)
  BY <1>5 DEF ButtonInv
<1> QED BY <1>2, <1>7, <1>8, <1>9 DEF CoreInv

LEMMA CoreAlways == ExtSpec => []CoreInv
<1>1. ExtInit => CoreInv
  BY CoreInit
<1>2. CoreInv /\ [ExtNext]_extVars => CoreInv'
  BY CoreKept
<1> QED BY <1>1, <1>2, PTL DEF ExtSpec

\* The type invariant of the conversations (bot_extension_state.go:60-180).
THEOREM ExtTypeCorrect == ExtSpec => []ExtTypeOK
<1>1. CoreInv => ExtTypeOK
  BY DEF CoreInv
<1> QED BY <1>1, CoreAlways, PTL

\* A mutation is applied to exactly the documents, and with exactly the candidate, that
\* the review shown to the administrator described: the revisions are compared again
\* when the payload is applied and when the manager commits (bot_extension_mutations.go).
THEOREM MutationsAreAsReviewed == ExtSpec => []ConfirmedAsReviewed
<1>1. CoreInv => ConfirmedAsReviewed
  BY DEF CoreInv, OpsInv, UpInv, ConfirmedAsReviewed
<1> QED BY <1>1, CoreAlways, PTL

-----------------------------------------------------------------------------
(* Generations.                                                             *)

\* No update is ahead of its owner.
GenInv == \A j \in Ops : op[j] # None => op[j].gen <= gens[op[j].owner]

\* An update that gets a generation gets that of its owner.
GensStep(i) ==
  \A j \in Ops : op[j] # None => op'[j].gen = op[j].gen \/ (j = i /\ op'[j].gen = gens'[op[j].owner])

LEMMA SparedSame == ASSUME NEW x, x \in Updates \cup {None}, NEW y, Spared(x, y), x # None
                    PROVE  y.gen = x.gen /\ y.pc = x.pc /\ y.owner = x.owner /\ y.do = x.do /\ y.tok = x.tok
BY TurnedDead DEF Spared

LEMMA StepGens ==
  ASSUME CoreInv, NEW i, Stepping(i), i \in Ops => Acts(i)
  PROVE  GensStep(i)
<1>0. /\ ExtTypeOK /\ OpsInv(op) /\ OpsMoved(op, op') /\ \A j \in Ops \ {i} : Spared(op[j], op'[j])
  BY DEF CoreInv, Stepping, OpsStep
<1>1. ASSUME NEW j \in Ops \ {i}, op[j] # None PROVE op'[j].gen = op[j].gen
  BY <1>0, <1>1, SparedSame DEF OpsInv
<1>2. ASSUME i \in Ops, op[i] # None
      PROVE  op'[i].gen = op[i].gen \/ op'[i].gen = gens'[op[i].owner]
  <2> DEFINE x == op[i]
             newGen == nextGen + 1
  <2>1. x \in Updates /\ x.owner \in Owners /\ gens \in [Owners -> Nat] /\ Moved(x, op'[i])
    BY <1>0, <1>2 DEF OpsInv, Updates, ExtTypeOK, OpsMoved
  <2>2. CASE x.pc \notin Starting
    BY <2>1, <2>2 DEF Moved
  <2>3. CASE Begin(i)
    <3>1. op'[i] = [x EXCEPT !.gen = newGen, !.pc = "check"] /\ Advance(x.owner)
      BY <1>0, <1>2, <2>3, BeginStep DEF StepTo, Begin
    <3> QED BY <2>1, <3>1 DEF Advance, Updates
  <2>4. CASE Reset(i)
    <3>1. op'[i] = [x EXCEPT !.gen = newGen, !.pc = "sweep"] /\ Advance(x.owner)
      BY <1>0, <1>2, <2>4, ResetStep DEF StepTo, Reset, CancelOwner
    <3> QED BY <2>1, <3>1 DEF Advance, Updates
  <2>5. CASE Claim(i)
    <3>1. CASE /\ inputs[x.owner] # None /\ Advance(x.owner)
               /\ op' = [op EXCEPT ![i].gen = nextGen + 1, ![i].pc = "check",
                            ![i].kind = inputs[x.owner].kind, ![i].pay = inputs[x.owner].pay]
      <4> DEFINE kind == inputs[x.owner].kind
                 pay == inputs[x.owner].pay
      <4>1. op'[i] = [x EXCEPT !.gen = newGen, !.pc = "check", !.kind = kind, !.pay = pay]
        BY <1>0, <1>2, <2>5, <3>1, ClaimStep DEF CoreInv, StepTo, Claim
      <4> HIDE DEF kind, pay
      <4>2. op'[i].gen = newGen
        BY <2>1, <4>1 DEF Updates
      <4>3. gens'[x.owner] = newGen
        BY <2>1, <3>1 DEF Advance
      <4> QED BY <4>2, <4>3
    <3>2. CASE Go(i, "reset") \/ Done(i)
      <4>1. op'[i].gen = x.gen
        <5>1. CASE Go(i, "reset")
          BY <1>0, <2>1, <5>1, TurnedPC DEF Go, OpsInv, Phases, Doing
        <5>2. CASE Done(i)
          BY <1>0, <2>1, <5>2, ClosedIsOver, OverFacts DEF Done, OpsInv, Over
        <5> QED BY <3>2, <5>1, <5>2
      <4> QED BY <4>1
    <3> QED BY <2>5, <3>1, <3>2 DEF Claim
  <2>6. x.pc \in Starting => Begin(i) \/ Reset(i) \/ Claim(i)
    BY <1>2 DEF Acts, OperationStep, ConfirmStep, OtherStep, Timeout, Check, Register,
       Recheck, Render, Work, ListStep, Slot, Fetch, Review, Issue, Control, Finish, Consume, Apply, Commit,
       Drop, SweepReset, Ask, Run, At, Starting
  <2> QED BY <2>2, <2>3, <2>4, <2>5, <2>6
<1> QED BY <1>1, <1>2 DEF GensStep

LEMMA GenKept ==
  ASSUME CoreInv, GenInv, [ExtNext]_extVars
  PROVE  GenInv'
<1>0. /\ ExtTypeOK /\ OpsInv(op) /\ ExtTypeOK' /\ OpsInv(op')
  BY CoreKept DEF CoreInv
<1>1. ASSUME NEW i, Stepping(i), i \in Ops => Acts(i) PROVE GenInv'
  <2>1. GensStep(i) /\ OpsMoved(op, op') /\ \A o \in Owners : gens[o] <= gens'[o]
    BY <1>0, <1>1, StepGens, GensGrow DEF Stepping, OpsStep
  <2> SUFFICES ASSUME NEW j \in Ops, op'[j] # None PROVE op'[j].gen <= gens'[op'[j].owner]
    BY DEF GenInv
  <2>2. op[j] # None /\ op'[j].owner = op[j].owner /\ op[j] \in Updates
    BY <1>0, <2>1 DEF OpsMoved, OpsInv, Moved
  <2>3. /\ op[j].owner \in Owners /\ op[j].gen <= gens[op[j].owner] /\ op[j].gen \in Nat
        /\ gens[op[j].owner] \in Nat /\ gens'[op[j].owner] \in Nat
    BY <1>0, <2>2 DEF GenInv, Updates, ExtTypeOK
  <2>4. op'[j].gen = op[j].gen \/ op'[j].gen = gens'[op[j].owner]
    BY <2>1, <2>2 DEF GensStep
  <2> QED BY <2>1, <2>2, <2>3, <2>4
<1>2. ASSUME NEW i \in Ops, Arrive(i) PROVE GenInv'
  <2>1. /\ Fresh(op'[i]) /\ \A j \in Ops \ {i} : op'[j] = op[j]
    BY <1>0, <1>2, ArriveFacts
  <2>2. gens' = gens /\ gens \in [Owners -> Nat]
    BY <1>0, <1>2 DEF Arrive, store, ExtTypeOK
  <2>3. op'[i].gen = 0 /\ op'[i].owner \in Owners
    BY <2>1 DEF Fresh, Updates
  <2> QED BY <2>1, <2>2, <2>3 DEF GenInv
<1> QED BY <1>1, <1>2, NextIs, NoneNoOp

LEMMA GenInit == ExtInit => GenInv
BY DEF ExtInit, GenInv

-----------------------------------------------------------------------------
(* Confirming.                                                              *)

\* It is the update itself that takes its confirmation.
LEMMA ConsumesIs ==
  ASSUME CoreInv, [ExtNext]_extVars, NEW i \in Ops, Consumes(i)
  PROVE  Consume(i) /\ op[i] # None
         /\ \E t \in Confirmation(op[i].tok) : t.owner = op[i].owner /\ gens[t.owner] = t.gen
<1>0. /\ op[i] # None /\ op[i].pc = "confirm" /\ op'[i].pc \in {"slot", "apply"} /\ op[i] \in Updates
      /\ UpInv(op[i])
  BY DEF Consumes, At, CoreInv, OpsInv
<1>1. ~Arrive(i)
  BY <1>0 DEF Arrive
<1>2. ASSUME NEW k, k # i, Stepping(k) PROVE FALSE
  BY <1>0, <1>2, SparedSame DEF Stepping, OpsStep
<1>3. ASSUME NEW k \in Ops, k # i, Arrive(k) PROVE FALSE
  <2>1. op'[i] = op[i]
    BY <1>3, ArriveFacts DEF CoreInv
  <2> QED BY <1>0, <2>1
<1>4. Acts(i)
  BY <1>1, <1>2, <1>3, NextIs, NoneNoOp
<1>5. Consume(i)
  BY <1>0, <1>4 DEF Acts, OperationStep, ConfirmStep, OtherStep, Timeout, Begin, Claim, Check, Register,
       Recheck, Render, Work, ListStep, Slot, Fetch, Review, Issue, Control, Finish, Apply, Commit,
       Drop, Reset, SweepReset, Ask, Run, At
<1>6. CASE Done(i)
  <2>1. op'[i] = Over(op[i])
    BY <1>0, <1>6, DoneStep DEF CoreInv, StepTo, Listed, Registered, Reviewing
  <2> QED BY <1>0, <2>1 DEF Over
<1> QED BY <1>0, <1>5, <1>6 DEF Consume

LEMMA ConsumedIsNewest ==
  ASSUME CoreInv, GenInv, [ExtNext]_extVars, NEW i \in Ops, Consumes(i),
         NEW k \in Ops, op[k] # None, op[k].owner = op[i].owner
  PROVE  op[k].gen <= op[op[i].tok].gen
<1>1. PICK t \in Confirmation(op[i].tok) : t.owner = op[i].owner /\ gens[t.owner] = t.gen
  BY ConsumesIs
<1>2. t \in tokens /\ t.use = "confirm" /\ t.by = op[i].tok
  BY DEF Confirmation
<1>3. op[op[i].tok].gen = t.gen
  BY <1>2 DEF CoreInv, ButtonInv
<1>4. op[k].gen <= gens[op[k].owner]
  BY DEF GenInv
<1> QED BY <1>1, <1>3, <1>4

\* Once the administrator has begun, cancelled or reset anything later, an earlier
\* confirmation has no effect: ConsumeConfirmation compares the generation of the token
\* with that of its owner, which no update is ahead of.
THEOREM OlderConfirmationsAreVoid == ExtSpec => NewestConfirms
<1> DEFINE A == \A i \in Ops : Consumes(i) =>
                  \A k \in Ops : op[k] # None /\ op[k].owner = op[i].owner => op[k].gen <= op[op[i].tok].gen
<1>1. CoreInv /\ GenInv /\ [ExtNext]_extVars => [A]_extVars
  BY ConsumedIsNewest
<1>2. ExtInit => CoreInv /\ GenInv
  BY CoreInit, GenInit
<1>3. CoreInv /\ GenInv /\ [ExtNext]_extVars => CoreInv' /\ GenInv'
  BY CoreKept, GenKept
<1> QED BY <1>1, <1>2, <1>3, PTL DEF ExtSpec, NewestConfirms

-----------------------------------------------------------------------------
(* Cancelling.                                                              *)

\* Who is registered, and what becomes of one that no longer is.
GuardLoses ==
  \A o \in Owners : active[o] # None /\ active'[o] # active[o] =>
     op'[active[o]].dead \/ ~Listed(op'[active[o]])

GuardGains ==
  \A j \in Ops : op[j] # None /\ op[j].pc = "register" /\ op'[j].pc = "recheck" => active'[op[j].owner] = j

LEMMA SweepLoses ==
  ASSUME NEW ops, OpsInv(ops), NEW o \in Owners, NEW cutoff, ExtTypeOK,
         active[o] # None => ops[active[o]] # None, Sweep(o, cutoff, ops)
  PROVE  GuardLoses
<1>1. ASSUME NEW p \in Owners, active[p] # None, active'[p] # active[p] PROVE op'[active[p]].dead
  <2>1. active \in [Owners -> Ops \cup {None}]
    BY DEF ExtTypeOK
  <2>2. /\ op' = [ops EXCEPT ![active[o]].dead = TRUE] /\ active' = [active EXCEPT ![o] = None]
        /\ active[o] # None
    BY <1>1 DEF Sweep
  <2>3. p = o
    BY <1>1, <2>1, <2>2
  <2>4. active[o] \in Ops /\ ops[active[o]] \in Updates
    BY <2>1, <2>2 DEF OpsInv
  <2>5. op'[active[o]] = [ops[active[o]] EXCEPT !.dead = TRUE]
    BY <2>2, <2>4 DEF OpsInv
  <2> QED BY <2>3, <2>4, <2>5, TurnedDead
<1> QED BY <1>1 DEF GuardLoses

LEMMA ActsLoses ==
  ASSUME CoreInv, NEW i \in Ops, Acts(i), op[i] # None
  PROVE  GuardLoses
<1> DEFINE x == op[i]
           o == x.owner
<1>0. /\ ExtTypeOK /\ OpsInv(op) /\ ActiveInv(active, op) /\ x \in Updates /\ UpInv(x) /\ o \in Owners
      /\ active \in [Owners -> Ops \cup {None}]
  BY DEF CoreInv, OpsInv, Updates, ExtTypeOK
<1>1. CASE active' = active
  BY <1>1 DEF GuardLoses
<1>2. CASE Register(i) /\ active' # active
  <2>1. /\ active' = [active EXCEPT ![o] = i]
        /\ op' = [j \in Ops |-> IF j = i THEN [x EXCEPT !.pc = "recheck"]
                                ELSE IF j = active[o] THEN [op[j] EXCEPT !.dead = TRUE] ELSE op[j]]
    BY <1>2 DEF Register
  <2> SUFFICES ASSUME NEW p \in Owners, active[p] # None, active'[p] # active[p]
               PROVE  op'[active[p]].dead
    BY DEF GuardLoses
  <2>2. p = o /\ active[o] \in Ops
    BY <1>0, <2>1
  <2>3. active[o] # i /\ op[active[o]] \in Updates
    BY <1>0, <1>2, <2>2 DEF ActiveInv, Register, At, Listed, Registered, Reviewing, OpsInv
  <2>4. op'[active[o]] = [op[active[o]] EXCEPT !.dead = TRUE]
    BY <2>1, <2>2, <2>3
  <2> QED BY <2>2, <2>3, <2>4, TurnedDead
<1>3. CASE Deregister(i) /\ (Recheck(i) \/ Finish(i))
  <2>0. CASE active' # active
    <3>1. \A p \in Owners : active'[p] # active[p] => active[p] = i
      BY <1>0, <1>3, DeregisterFacts
    <3>2. CASE Finish(i)
      <4>1. op'[i] = Over(x) /\ Over(x).pc = "done"
        BY <1>0, <3>2, DoneStep, OverFacts DEF Finish, At, StepTo, Listed, Registered, Reviewing
      <4> QED BY <3>1, <4>1 DEF GuardLoses, Listed, Registered, Reviewing
    <3>3. CASE Recheck(i)
      <4>1. op' = [op EXCEPT ![i].pc = "render", ![i].dead = TRUE]
        BY <2>0, <3>3 DEF Recheck
      <4>2. op'[i] = [x EXCEPT !.pc = "render", !.dead = TRUE]
        BY <1>0, <3>3, <4>1, AwayStep DEF Recheck, At, StepTo
      <4>3. op'[i].dead
        BY <1>0, <4>2 DEF Updates
      <4> QED BY <3>1, <4>3 DEF GuardLoses
    <3> QED BY <1>3, <3>2, <3>3
  <2> QED BY <1>1, <2>0
<1>4. CASE SweepReset(i)
  <2> DEFINE y == IF x.do \in {"ask", "run"} THEN [x EXCEPT !.pc = x.do] ELSE Over(x)
             ops == [op EXCEPT ![i] = y]
  <2>1. Sweep(o, x.gen, ops) /\ x.pc = "sweep"
    BY <1>4, ClosedIsOver DEF SweepReset, At
  <2>2. ASSUME NEW p \in Owners, active[p] # None, active'[p] # active[p] PROVE op'[active[p]].dead
    <3>1. /\ op' = [ops EXCEPT ![active[o]].dead = TRUE] /\ active' = [active EXCEPT ![o] = None]
          /\ active[o] # None
      BY <2>1, <2>2 DEF Sweep
    <3>2. p = o /\ active[o] \in Ops
      BY <1>0, <2>2, <3>1
    <3>3. active[o] # i /\ op[active[o]] \in Updates
      BY <1>0, <2>1, <3>2, <3>1 DEF ActiveInv, Listed, Registered, Reviewing, OpsInv
    <3>4. ops[active[o]] = op[active[o]] /\ active[o] \in DOMAIN ops
      BY <1>0, <3>2, <3>3 DEF OpsInv
    <3>5. op'[active[o]] = [op[active[o]] EXCEPT !.dead = TRUE]
      BY <3>1, <3>4
    <3> QED BY <3>2, <3>3, <3>5, TurnedDead
  <2> QED BY <2>2 DEF GuardLoses
<1>5. CASE OperationStep(i)
  BY <1>1, <1>2, <1>3, <1>5 DEF OperationStep, Check, Recheck, Finish, guard
<1>6. CASE ConfirmStep(i) \/ Timeout(i)
  BY <1>1, <1>6 DEF ConfirmStep, Timeout, guard
<1>7. CASE OtherStep(i)
  BY <1>1, <1>4, <1>7 DEF OtherStep, Drop, Reset, Ask, Run
<1> QED BY <1>5, <1>6, <1>7 DEF Acts

LEMMA ReplaceLoses ==
  ASSUME CoreInv, ReplaceAdmins
  PROVE  GuardLoses
<1>1. CASE active' = active
  BY <1>1 DEF GuardLoses
<1>2. CASE replacing # None /\ replacing.sweep # None /\ Sweep(replacing.sweep, replacing.cutoff, op)
  <2>1. replacing.sweep \in Owners
    BY <1>2 DEF CoreInv, ExtTypeOK, Removals
  <2> QED BY <1>2, <2>1, SweepLoses DEF CoreInv, ActiveInv
<1> QED BY <1>1, <1>2 DEF ReplaceAdmins

LEMMA ActsGains ==
  ASSUME CoreInv, NEW i \in Ops, Acts(i), Stepping(i)
  PROVE  GuardGains
<1> SUFFICES ASSUME NEW j \in Ops, op[j] # None, op[j].pc = "register", op'[j].pc = "recheck"
             PROVE  active'[op[j].owner] = j
  BY DEF GuardGains
<1>0. op[j] \in Updates /\ op[j].owner \in Owners /\ active \in [Owners -> Ops \cup {None}]
  BY DEF CoreInv, OpsInv, Updates, ExtTypeOK
<1>1. j = i
  BY <1>0, SparedSame DEF Stepping, OpsStep
<1>2. Register(i) \/ Timeout(i)
  BY <1>1 DEF Acts, OperationStep, ConfirmStep, OtherStep, Begin, Claim, Check,
       Recheck, Render, Work, ListStep, Slot, Fetch, Review, Issue, Control, Finish, Consume, Apply, Commit,
       Drop, Reset, SweepReset, Ask, Run, At
<1>3. ~Timeout(i)
  BY <1>1 DEF Timeout
<1>4. CASE op' = [op EXCEPT ![i].pc = "render", ![i].dead = TRUE]
  <2>1. op'[i] = [op[i] EXCEPT !.pc = "render", !.dead = TRUE]
    BY <1>1, <1>4, AwayStep DEF StepTo, CoreInv
  <2>2. op'[i].pc = "render"
    BY <1>0, <1>1, <2>1 DEF Updates
  <2> QED BY <1>1, <2>2
<1>5. CASE active' = [active EXCEPT ![op[i].owner] = i]
  BY <1>0, <1>1, <1>5
<1> QED BY <1>2, <1>3, <1>4, <1>5 DEF Register

\* The registered operation of an owner is the one that is not cancelled.
ListedInv == \A j \in Ops : op[j] # None /\ Listed(op[j]) /\ ~op[j].dead => active[op[j].owner] = j

LEMMA ListedKept ==
  ASSUME CoreInv, ListedInv, [ExtNext]_extVars
  PROVE  ListedInv'
<1>0. /\ ExtTypeOK /\ OpsInv(op) /\ OpsInv(op')
  BY CoreKept DEF CoreInv
<1>1. ASSUME NEW i, Stepping(i), GuardLoses, GuardGains PROVE ListedInv'
  <2> SUFFICES ASSUME NEW j \in Ops, op'[j] # None, Listed(op'[j]), ~op'[j].dead
               PROVE  active'[op'[j].owner] = j
    BY DEF ListedInv
  <2>1. /\ op[j] # None /\ op[j] \in Updates /\ Moved(op[j], op'[j])
    BY <1>0, <1>1 DEF Stepping, OpsStep, OpsMoved, OpsInv
  <2>2. op'[j].owner = op[j].owner /\ op[j].owner \in Owners
    BY <2>1 DEF Moved, Updates
  <2>3. CASE Listed(op[j]) /\ ~op[j].dead
    <3>1. active[op[j].owner] = j
      BY <2>1, <2>3 DEF ListedInv
    <3> QED BY <1>1, <2>2, <3>1, NoneNoOp DEF GuardLoses
  <2>4. CASE op[j].pc = "register" /\ op'[j].pc = "recheck"
    BY <1>1, <2>1, <2>2, <2>4 DEF GuardGains
  <2> QED BY <2>1, <2>3, <2>4 DEF Moved
<1>2. ASSUME NEW i \in Ops, Arrive(i) PROVE ListedInv'
  <2>1. /\ Fresh(op'[i]) /\ \A j \in Ops \ {i} : op'[j] = op[j]
    BY <1>0, <1>2, ArriveFacts
  <2>2. active' = active /\ ~Listed(op'[i])
    BY <1>2, <2>1 DEF Arrive, guard, Fresh, Listed, Registered, Reviewing, Doing
  <2> QED BY <2>1, <2>2 DEF ListedInv
<1>3. ASSUME NEW i, Stepping(i), i \notin Ops PROVE GuardGains
  <2> SUFFICES ASSUME NEW j \in Ops, op[j] # None, op[j].pc = "register", op'[j].pc = "recheck" PROVE FALSE
    BY DEF GuardGains
  <2> QED BY <1>0, <1>3, SparedSame DEF Stepping, OpsStep, OpsInv
<1>4. ASSUME Elsewhere \/ UNCHANGED extVars PROVE GuardLoses
  BY <1>4 DEF Elsewhere, extVars, guard, GuardLoses
<1>5. ASSUME NEW i \in Ops, Acts(i), Stepping(i) PROVE ListedInv'
  BY <1>1, <1>5, ActsLoses, ActsGains DEF Stepping
<1>6. ASSUME ReplaceAdmins \/ Elsewhere \/ UNCHANGED extVars, Stepping(None) PROVE ListedInv'
  BY <1>1, <1>3, <1>4, <1>6, ReplaceLoses, NoneNoOp
<1> QED BY <1>2, <1>5, <1>6, NextIs

\* Somebody is on the way to cancel what an administrator left behind.
Chasing(k, o) ==
  /\ op[k] # None /\ op[k].owner = o /\ op[k].gen = gens[o]
  /\ op[k].pc \in {"check", "register", "sweep"}

ChasedByRemoval(o) == replacing # None /\ replacing.sweep = o /\ replacing.cutoff = gens[o]

Chased(o) == (\E k \in Ops : Chasing(k, o)) \/ ChasedByRemoval(o)

ChaseInv ==
  \A o \in Owners : \A j \in Ops :
    op[j] # None /\ op[j].owner = o /\ Listed(op[j]) /\ ~op[j].dead /\ op[j].pc # "recheck" =>
      op[j].gen = gens[o] \/ Chased(o)

LEMMA KeepsGens ==
  ASSUME NEW i, Acts(i), gens' # gens
  PROVE  Begin(i) \/ Reset(i) \/ (Claim(i) /\ ~UNCHANGED store)
BY DEF Acts, OperationStep, ConfirmStep, OtherStep, Timeout, Work, ShowMenu, AskInput, StartPreview,
       ListStep, CancelKind, IssueSelection, TakeInput, retryInput, consumeMarketplaceURL,
       consumeMarketplaceName, consumeImport, consumeSettingInput, PutInput, Issue, Control, Consume, Apply, Commit, Drop, SweepReset, Ask,
       Run, store

\* An update that takes a generation is on its way to cancel what was registered before.
LEMMA AdvancedIsChased ==
  ASSUME CoreInv, NEW i \in Ops, Acts(i), op[i] # None, NEW o \in Owners, gens'[o] # gens[o]
  PROVE  Chasing(i, o)'
<1> DEFINE x == op[i]
           newGen == nextGen + 1
<1>0. /\ ExtTypeOK /\ OpsInv(op) /\ PendingInv(inputs) /\ x \in Updates /\ x.owner \in Owners
      /\ gens \in [Owners -> Nat]
  BY DEF CoreInv, OpsInv, Updates, ExtTypeOK
<1>1. ASSUME Advance(x.owner) PROVE o = x.owner /\ gens'[o] = newGen
  BY <1>0, <1>1 DEF Advance
<1>2. CASE Begin(i)
  <2>1. op'[i] = [x EXCEPT !.gen = newGen, !.pc = "check"] /\ Advance(x.owner) /\ op'[i] \in Updates
    BY <1>0, <1>2, BeginStep DEF StepTo, Begin
  <2>2. op'[i].gen = newGen /\ op'[i].pc = "check" /\ op'[i].owner = x.owner
    BY <1>0, <2>1 DEF Updates
  <2> QED BY <1>1, <2>1, <2>2, NotNone DEF Chasing
<1>3. CASE Reset(i)
  <2>1. op'[i] = [x EXCEPT !.gen = newGen, !.pc = "sweep"] /\ Advance(x.owner) /\ op'[i] \in Updates
    BY <1>0, <1>3, ResetStep DEF StepTo, Reset, CancelOwner
  <2>2. op'[i].gen = newGen /\ op'[i].pc = "sweep" /\ op'[i].owner = x.owner
    BY <1>0, <2>1 DEF Updates
  <2> QED BY <1>1, <2>1, <2>2, NotNone DEF Chasing
<1>4. CASE Claim(i) /\ ~UNCHANGED store
  <2> DEFINE kind == inputs[x.owner].kind
             pay == inputs[x.owner].pay
  <2>1. /\ op'[i] = [x EXCEPT !.gen = newGen, !.pc = "check", !.kind = kind, !.pay = pay]
        /\ Advance(x.owner) /\ op'[i] \in Updates
    BY <1>0, <1>4, ClaimStep DEF StepTo, Claim
  <2> HIDE DEF kind, pay
  <2>2. op'[i].gen = newGen /\ op'[i].pc = "check" /\ op'[i].owner = x.owner
    BY <1>0, <2>1 DEF Updates
  <2> QED BY <1>1, <2>1, <2>2, NotNone DEF Chasing
<1> QED BY <1>2, <1>3, <1>4, KeepsGens

\* A canceller arrives: when it is no longer on its way, the operation that was
\* registered no longer is.
LEMMA ChaserArrives ==
  ASSUME CoreInv, GenInv, NEW i \in Ops, Acts(i), Stepping(i), NEW o \in Owners, gens'[o] = gens[o],
         Chasing(i, o), active[o] # None
  PROVE  Chasing(i, o)' \/ active'[o] # active[o]
<1> DEFINE x == op[i]
<1>0. /\ ExtTypeOK /\ OpsInv(op) /\ ActiveInv(active, op) /\ x \in Updates /\ x # None /\ x.owner = o
      /\ x.gen = gens[o] /\ x.pc \in {"check", "register", "sweep"}
      /\ active \in [Owners -> Ops \cup {None}] /\ gens \in [Owners -> Nat]
  BY DEF CoreInv, OpsInv, ExtTypeOK, Chasing
<1>1. /\ active[o] \in Ops /\ op[active[o]] \in Updates /\ op[active[o]].owner = o /\ active[o] # i
      /\ op[active[o]].gen <= gens[o] /\ op[active[o]].gen \in Nat
  BY <1>0 DEF ActiveInv, Listed, Registered, Reviewing, OpsInv, GenInv, Updates
<1>2. Check(i) \/ Register(i) \/ SweepReset(i)
  BY <1>0 DEF Acts, OperationStep, ConfirmStep, OtherStep, Timeout, Begin, Claim,
       Recheck, Render, Work, ListStep, Slot, Fetch, Review, Issue, Control, Finish, Consume, Apply, Commit,
       Drop, Reset, Ask, Run, At
<1>3. CASE Check(i)
  <2>1. Go(i, "register")
    BY <1>0, <1>3 DEF Check, Current, Go, At
  <2>2. op'[i] = [x EXCEPT !.pc = "register"] /\ op'[i] \in Updates
    BY <1>0, <1>3, <2>1, GoStep DEF Goes, StepTo, Check, At
  <2>3. op'[i].pc = "register" /\ op'[i].owner = o /\ op'[i].gen = gens[o]
    BY <1>0, <2>2 DEF Updates
  <2> QED BY <2>2, <2>3, NotNone DEF Chasing
<1>4. CASE Register(i)
  <2>1. ~(op[active[o]].gen > x.gen)
    BY <1>0, <1>1
  <2>2. active' = [active EXCEPT ![o] = i]
    BY <1>0, <1>4, <2>1 DEF Register
  <2> QED BY <1>0, <1>1, <2>2
<1>5. CASE SweepReset(i)
  <2> DEFINE y == IF x.do \in {"ask", "run"} THEN [x EXCEPT !.pc = x.do] ELSE Over(x)
             ops == [op EXCEPT ![i] = y]
  <2>1. Sweep(o, x.gen, ops)
    BY <1>0, <1>5, ClosedIsOver DEF SweepReset
  <2>2. ops[active[o]] = op[active[o]]
    BY <1>1 
  <2>3. op[active[o]].gen <= x.gen
    BY <1>0, <1>1
  <2> HIDE DEF ops
  <2>4. active' = [active EXCEPT ![o] = None]
    BY <2>1, <2>3 DEF Sweep
  <2> QED BY <1>0, <1>1, <2>4, NoneNoOp
<1> QED BY <1>2, <1>3, <1>4, <1>5

LEMMA RemovalArrives ==
  ASSUME CoreInv, GenInv, ReplaceAdmins, NEW o \in Owners, gens'[o] = gens[o],
         ChasedByRemoval(o), active[o] # None
  PROVE  active'[o] # active[o]
<1>a. active \in [Owners -> Ops \cup {None}] /\ active[o] \in Ops
  BY DEF CoreInv, ExtTypeOK
<1>b. op[active[o]] # None /\ op[active[o]].owner = o
  BY <1>a DEF CoreInv, ActiveInv
<1>c. op[active[o]].gen <= gens[o]
  BY <1>a, <1>b DEF GenInv
<1>d. replacing # None /\ replacing.sweep = o /\ o # None /\ op[active[o]].gen <= replacing.cutoff
  BY <1>c, NoneNoOp DEF ChasedByRemoval
<1>1. /\ active[o] \in Ops /\ op[active[o]].owner = o /\ op[active[o]].gen <= replacing.cutoff
      /\ active \in [Owners -> Ops \cup {None}] /\ replacing # None /\ replacing.sweep = o /\ o # None
  BY <1>a, <1>b, <1>d
<1>2. Sweep(o, replacing.cutoff, op)
  BY <1>1 DEF ReplaceAdmins
<1>3. active' = [active EXCEPT ![o] = None]
  BY <1>1, <1>2 DEF Sweep
<1> QED BY <1>1, <1>3, NoneNoOp

\* A removal takes a generation for the one that it removes.
LEMMA RemovalAdvances ==
  ASSUME CoreInv, ReplaceAdmins, NEW o \in Owners, gens'[o] # gens[o]
  PROVE  ChasedByRemoval(o)'
<1>1. PICK p \in replacing.todo :
        /\ CancelOwner(p) /\ replacing # None
        /\ replacing' = [replacing EXCEPT !.sweep = p, !.cutoff = nextGen + 1]
  BY DEF ReplaceAdmins, store
<1>2. /\ replacing \in Removals /\ p \in Owners /\ gens \in [Owners -> Nat] /\ nextGen + 1 \in Nat
  BY <1>1 DEF CoreInv, ExtTypeOK, Removals
<1>3. gens' = [gens EXCEPT ![p] = nextGen + 1]
  BY <1>1 DEF CancelOwner, Advance
<1>4. p = o /\ gens'[o] = nextGen + 1
  BY <1>2, <1>3
<1>5. replacing' \in Removals /\ replacing'.sweep = p /\ replacing'.cutoff = nextGen + 1
  BY <1>1, <1>2 DEF Removals
<1>6. replacing' # None
  BY <1>5, ExtAssumption
<1> QED BY <1>4, <1>5, <1>6 DEF ChasedByRemoval

\* A chaser that does not move is still on its way.
LEMMA ChaserWaits ==
  ASSUME CoreInv, NEW i, Stepping(i), NEW k \in Ops, k # i, NEW o \in Owners, gens'[o] = gens[o],
         Chasing(k, o)
  PROVE  Chasing(k, o)'
<1>1. op[k] # None /\ Spared(op[k], op'[k]) /\ op'[k] # None /\ op[k] \in Updates
  BY DEF Chasing, CoreInv, Stepping, OpsStep, OpsMoved, OpsInv
<1>2. op'[k].gen = op[k].gen /\ op'[k].pc = op[k].pc /\ op'[k].owner = op[k].owner
  BY <1>1, SparedSame
<1> QED BY <1>1, <1>2 DEF Chasing

\* What is chased stays so until the chaser arrives.
LEMMA ChasedStays ==
  ASSUME CoreInv, GenInv, NEW o \in Owners, Chased(o), active[o] # None, gens'[o] = gens[o],
         NEW i, Stepping(i),
         \/ i \in Ops /\ Acts(i)
         \/ i = None /\ (ReplaceAdmins \/ Elsewhere \/ UNCHANGED extVars)
  PROVE  Chased(o)' \/ active'[o] # active[o]
<1>1. ASSUME NEW k \in Ops, k # i, Chasing(k, o) PROVE Chased(o)'
  BY <1>1, ChaserWaits DEF Chased
<1>2. CASE i \in Ops /\ Acts(i)
  <2>1. CASE Chasing(i, o)
    BY <1>2, <2>1, ChaserArrives DEF Chased
  <2>2. CASE ChasedByRemoval(o)
    <3>1. replacing' = replacing
      BY <1>2, ActsRest DEF CoreInv, gate
    <3> QED BY <2>2, <3>1 DEF ChasedByRemoval, Chased
  <2> QED BY <1>1, <2>1, <2>2 DEF Chased
<1>3. CASE i = None /\ ReplaceAdmins
  BY <1>1, <1>3, RemovalArrives, NoneNoOp DEF Chased
<1>4. CASE i = None /\ (Elsewhere \/ UNCHANGED extVars)
  <2>1. replacing' = replacing
    BY <1>4 DEF Elsewhere, extVars
  <2> QED BY <1>1, <1>4, <2>1, NoneNoOp DEF Chased, ChasedByRemoval
<1> QED BY <1>2, <1>3, <1>4

LEMMA RecheckedIsCurrent ==
  ASSUME CoreInv, NEW i \in Ops, Acts(i), op[i] # None, op[i].pc = "recheck", ~op'[i].dead,
         op'[i].pc # "recheck"
  PROVE  op'[i].gen = gens'[op[i].owner]
<1>0. OpsInv(op) /\ op[i] \in Updates
  BY DEF CoreInv, OpsInv
<1>1. Recheck(i)
  BY DEF Acts, OperationStep, ConfirmStep, OtherStep, Timeout, Begin, Claim, Check, Register,
       Render, Work, ListStep, Slot, Fetch, Review, Issue, Control, Finish, Consume, Apply, Commit,
       Drop, Reset, SweepReset, Ask, Run, At
<1>2. gens' = gens
  BY <1>1, KeepsGens DEF Recheck, Begin, Reset, Claim, At
<1>3. CASE Current(i) /\ Go(i, "render")
  BY <1>0, <1>2, <1>3, TurnedPC DEF Current, Go, OpsInv, Phases
<1>4. CASE op' = [op EXCEPT ![i].pc = "render", ![i].dead = TRUE]
  <2>1. op'[i] = [op[i] EXCEPT !.pc = "render", !.dead = TRUE]
    BY <1>0, <1>4, AwayStep DEF StepTo
  <2> QED BY <1>0, <2>1 DEF Updates
<1> QED BY <1>1, <1>3, <1>4 DEF Recheck

LEMMA ChaseKept ==
  ASSUME CoreInv, GenInv, ListedInv, ChaseInv, [ExtNext]_extVars
  PROVE  ChaseInv'
<1>0. /\ ExtTypeOK /\ OpsInv(op) /\ OpsInv(op') /\ ListedInv'
  BY CoreKept, ListedKept DEF CoreInv
<1>1. ASSUME NEW i, Stepping(i),
             \/ i \in Ops /\ Acts(i)
             \/ i = None /\ (ReplaceAdmins \/ Elsewhere \/ UNCHANGED extVars)
      PROVE  ChaseInv'
  <2> SUFFICES ASSUME NEW o \in Owners, NEW j \in Ops, op'[j] # None, op'[j].owner = o,
                      Listed(op'[j]), ~op'[j].dead, op'[j].pc # "recheck"
               PROVE  op'[j].gen = gens'[o] \/ Chased(o)'
    BY DEF ChaseInv
  <2> DEFINE x == op[j]
  <2>1. /\ x # None /\ x \in Updates /\ x.owner = o /\ Moved(x, op'[j])
        /\ Listed(x) /\ ~x.dead
    BY <1>0, <1>1 DEF Stepping, OpsStep, OpsMoved, OpsInv, Moved, Updates
  <2>2. active[o] = j /\ active'[o] = j
    BY <1>0, <2>1 DEF ListedInv
  <2>3. op'[j].gen = x.gen
    BY <2>1 DEF Moved, Listed, Registered, Reviewing, Starting
  <2>4. CASE x.pc = "recheck"
    <3>1. j = i
      BY <1>1, <2>1, <2>4, SparedSame DEF Stepping, OpsStep
    <3> QED BY <1>1, <2>1, <2>4, <3>1, RecheckedIsCurrent, NoneNoOp
  <2>5. CASE x.pc # "recheck" /\ gens'[o] # gens[o]
    <3>1. CASE i \in Ops /\ Acts(i)
      BY <1>1, <2>1, <2>5, <3>1, AdvancedIsChased DEF Chased, Stepping
    <3>2. CASE ReplaceAdmins
      BY <2>1, <2>5, <3>2, RemovalAdvances DEF Chased
    <3>3. CASE Elsewhere \/ UNCHANGED extVars
      BY <2>5, <3>3 DEF Elsewhere, extVars, store
    <3> QED BY <1>1, <3>1, <3>2, <3>3
  <2>6. CASE x.pc # "recheck" /\ gens'[o] = gens[o]
    <3>1. x.gen = gens[o] \/ Chased(o)
      BY <2>1, <2>6 DEF ChaseInv
    <3>2. Chased(o) => Chased(o)' \/ active'[o] # active[o]
      BY <1>1, <2>1, <2>2, <2>6, ChasedStays, NoneNoOp
    <3> QED BY <2>1, <2>2, <2>3, <2>6, <3>1, <3>2
  <2> QED BY <2>4, <2>5, <2>6
<1>2. ASSUME NEW i \in Ops, Arrive(i) PROVE ChaseInv'
  <2>1. /\ Fresh(op'[i]) /\ op[i] = None /\ \A j \in Ops \ {i} : op'[j] = op[j]
    BY <1>0, <1>2, ArriveFacts
  <2>2. gens' = gens /\ replacing' = replacing /\ ~Listed(op'[i])
    BY <1>2, <2>1 DEF Arrive, store, gate, Fresh, Listed, Registered, Reviewing, Doing
  <2>3. \A o : Chased(o) => Chased(o)'
    BY <2>1, <2>2 DEF Chased, Chasing, ChasedByRemoval
  <2> QED BY <2>1, <2>2, <2>3 DEF ChaseInv
<1> QED BY <1>1, <1>2, NextIs

\* Every preview is the registered operation of its owner, and when it is no longer
\* current its canceller is on its way: register compares generations under the guard's
\* lock and the operation looks at its own once more afterwards (bot_extensions.go:110-176).
THEOREM EveryPreviewIsReachable == ExtSpec => []CancelReaches
<1> DEFINE Inv == CoreInv /\ GenInv /\ ListedInv /\ ChaseInv
<1>1. ExtInit => Inv
  BY CoreInit, GenInit DEF ExtInit, ListedInv, ChaseInv
<1>2. Inv /\ [ExtNext]_extVars => Inv'
  BY CoreKept, GenKept, ListedKept, ChaseKept
<1>3. Inv => CancelReaches
  <2> SUFFICES ASSUME Inv, NEW i \in Ops, op[i] # None, Live(i)
               PROVE  /\ active[op[i].owner] = i
                      /\ \/ Current(i)
                         \/ replacing # None /\ replacing.sweep = op[i].owner
                         \/ \E k \in Ops : /\ op[k] # None /\ op[k].owner = op[i].owner /\ op[k].gen > op[i].gen
                                           /\ op[k].pc \in {"check", "register", "sweep"}
    BY DEF CancelReaches
  <2>1. Listed(op[i]) /\ ~op[i].dead /\ op[i].pc # "recheck"
    BY DEF Live, At, Listed, Registered, Reviewing
  <2>2. op[i].gen \in Nat /\ gens[op[i].owner] \in Nat /\ op[i].gen <= gens[op[i].owner]
    BY DEF CoreInv, OpsInv, Updates, ExtTypeOK, GenInv
  <2>3. active[op[i].owner] = i /\ (op[i].gen = gens[op[i].owner] \/ Chased(op[i].owner))
    BY <2>1 DEF ListedInv, ChaseInv, CoreInv, OpsInv, Updates
  <2>4. CASE op[i].gen = gens[op[i].owner]
    BY <2>3, <2>4 DEF Current
  <2>5. CASE op[i].gen # gens[op[i].owner] /\ Chased(op[i].owner)
    <3>1. \A k \in Ops : Chasing(k, op[i].owner) => op[k].gen > op[i].gen
      BY <2>2, <2>5 DEF Chasing
    <3> QED BY <2>3, <2>5, <3>1 DEF Chased, Chasing, ChasedByRemoval
  <2> QED BY <2>3, <2>4, <2>5
<1> QED BY <1>1, <1>2, <1>3, PTL DEF ExtSpec

-----------------------------------------------------------------------------
(* Removed administrators.                                                  *)

\* A button that was delivered is of an update that is past its review, and a button
\* that was pressed is one of these.
Past(k) == k \in Ops /\ op[k] # None /\ op[k].pc \in {"finish", "done"}
Asked(k) == k \in Ops /\ op[k] # None /\ op[k].pc = "done"

PressInv ==
  /\ \A k \in sent : Past(k)
  /\ \A j \in Ops : op[j] # None => /\ op[j].pc = "confirm" => Past(op[j].tok)
                                    /\ op[j].do = "run" /\ op[j].pc # "done" => Asked(op[j].tok)

\* Nothing of administrator o that can still be confirmed, or run, has been pressed.
Powerless(o) ==
  \A j \in Ops : op[j] # None /\ op[j].owner = o =>
    /\ op[j].pc = "confirm" => \A t \in tokens : ~(t.use = "confirm" /\ t.owner = o /\ t.by = op[j].tok)
    /\ op[j].do = "run" /\ op[j].pc # "done" => [by |-> op[j].tok, owner |-> o] \notin nonces

Leaving(o) == replacing # None /\ o \in replacing.todo /\ replacing.sweep # o

RemovedInv == \A o \in Owners : o \in admins \/ Leaving(o) \/ Powerless(o)

\* What a step makes of the deliveries and of the maintenance confirmations.
MaintStep(i) ==
  /\ \A k \in sent' : k \in sent \/ (k = i /\ i \in Ops /\ op'[i] # None /\ op'[i].pc = "finish")
  /\ \A n \in nonces' : n \in nonces \/ (i \in Ops /\ op[i] # None /\ op[i].pc = "ask" /\ n.by = i)

LEMMA ActsMaint ==
  ASSUME CoreInv, NEW i \in Ops, Acts(i), op[i] # None
  PROVE  MaintStep(i)
<1>0. OpsInv(op) /\ op[i] \in Updates /\ UpInv(op[i])
  BY DEF CoreInv, OpsInv
<1>1. CASE Control(i)
  <2>1. op'[i] = [op[i] EXCEPT !.pc = "finish"] /\ op'[i] \in Updates
    BY <1>0, <1>1, NotConfirming, GoStep DEF Control, At, Goes, StepTo, Registered, Reviewing
  <2>2. op'[i].pc = "finish" /\ op'[i] # None
    BY <1>0, <2>1, NotNone DEF Updates
  <2>3. sent' \subseteq sent \cup {i}
    BY <1>1 DEF Control
  <2>4. nonces' = nonces
    BY <1>1 DEF Control, Acts, OperationStep, ConfirmStep, OtherStep, Timeout, maint, Consume, Apply,
       Commit, Drop, Reset, SweepReset, Ask, Run, At
  <2> QED BY <2>2, <2>3, <2>4 DEF MaintStep
<1>2. CASE Ask(i)
  <2>1. sent' = sent
    BY <1>2 DEF Ask, Acts, OperationStep, ConfirmStep, OtherStep, Timeout, Begin, Claim, Check, Register,
       Recheck, Render, Work, ListStep, Slot, Fetch, Review, Issue, Control, Finish, Consume, Apply, Commit, At
  <2> QED BY <1>2, <2>1 DEF MaintStep, Ask, At
<1>3. CASE sent' = sent /\ nonces' \subseteq nonces
  BY <1>3 DEF MaintStep
<1>4. CASE OperationStep(i)
  BY <1>1, <1>3, <1>4 DEF OperationStep, maint
<1>5. CASE ConfirmStep(i) \/ Timeout(i)
  BY <1>3, <1>5 DEF ConfirmStep, Timeout, maint
<1>6. CASE OtherStep(i)
  BY <1>2, <1>3, <1>6 DEF OtherStep, Drop, Reset, SweepReset, Run, maint
<1> QED BY <1>4, <1>5, <1>6 DEF Acts

LEMMA RestMaint ==
  ASSUME ReplaceAdmins \/ Elsewhere \/ UNCHANGED extVars
  PROVE  MaintStep(None)
BY DEF MaintStep, ReplaceAdmins, Elsewhere, extVars, maint, RevokeAdmin

LEMMA PressKept ==
  ASSUME CoreInv, PressInv, [ExtNext]_extVars
  PROVE  PressInv'
<1>0. /\ ExtTypeOK /\ OpsInv(op) /\ OpsInv(op')
  BY CoreKept DEF CoreInv
<1>1. ASSUME NEW i, Stepping(i), MaintStep(i) PROVE PressInv'
  <2>1. OpsMoved(op, op')
    BY <1>1 DEF Stepping, OpsStep
  <2>2. \A k : (Past(k) => Past(k)') /\ (Asked(k) => Asked(k)')
    BY <2>1 DEF Past, Asked, OpsMoved, Moved
  <2>3. \A k \in sent' : Past(k)'
    BY <1>1, <2>2 DEF MaintStep, PressInv, Past
  <2>4. ASSUME NEW j \in Ops, op'[j] # None
        PROVE  /\ op'[j].pc = "confirm" => op[j] # None /\ op[j].pc = "confirm" /\ op'[j].tok = op[j].tok
               /\ op'[j].do = "run" /\ op'[j].pc # "done" =>
                    op[j] # None /\ op[j].do = "run" /\ op[j].pc # "done" /\ op'[j].tok = op[j].tok
    BY <2>1, <2>4 DEF OpsMoved, Moved
  <2>5. ASSUME NEW j \in Ops, op'[j] # None, NEW k, k = op'[j].tok
        PROVE  /\ op'[j].pc = "confirm" => Past(k)'
               /\ op'[j].do = "run" /\ op'[j].pc # "done" => Asked(k)'
    BY <2>2, <2>4, <2>5 DEF PressInv
  <2> QED BY <2>3, <2>5 DEF PressInv, Past, Asked
<1>2. ASSUME NEW i \in Ops, Arrive(i) PROVE PressInv'
  <2>1. /\ Fresh(op'[i]) /\ op[i] = None /\ \A j \in Ops \ {i} : op'[j] = op[j]
    BY <1>0, <1>2, ArriveFacts
  <2>2. sent' = sent
    BY <1>2 DEF Arrive
  <2>3. \A k : (Past(k) => Past(k)') /\ (Asked(k) => Asked(k)')
    BY <2>1 DEF Past, Asked
  <2>4. ASSUME NEW j \in Ops, op'[j] # None, NEW k, k = op'[j].tok
        PROVE  /\ op'[j].pc = "confirm" => Past(k)
               /\ op'[j].do = "run" /\ op'[j].pc # "done" => Asked(k)
    <3>1. CASE j = i
      BY <2>1, <2>4, <3>1 DEF Fresh, PressInv, Asked, At
    <3>2. CASE j # i
      BY <2>1, <2>4, <3>2 DEF PressInv
    <3> QED BY <3>1, <3>2
  <2> QED BY <2>2, <2>3, <2>4 DEF PressInv, Past, Asked
<1> QED BY <1>1, <1>2, NextIs, ActsMaint, RestMaint DEF Stepping

\* A removed administrator that is powerless stays so.
LEMMA PowerlessStays ==
  ASSUME CoreInv, PressInv, NEW i, Stepping(i), MaintStep(i), NEW o \in Owners, Powerless(o)
  PROVE  Powerless(o)'
<1>0. OpsMoved(op, op') /\ StoreStep(i)
  BY DEF Stepping, OpsStep
<1> SUFFICES ASSUME NEW j \in Ops, op'[j] # None, op'[j].owner = o
             PROVE  /\ op'[j].pc = "confirm" =>
                         \A t \in tokens' : ~(t.use = "confirm" /\ t.owner = o /\ t.by = op'[j].tok)
                    /\ op'[j].do = "run" /\ op'[j].pc # "done" =>
                         [by |-> op'[j].tok, owner |-> o] \notin nonces'
  BY DEF Powerless
<1>1. op[j] # None /\ op[j].owner = o /\ Moved(op[j], op'[j])
  BY <1>0 DEF OpsMoved, Moved
<1>2. ASSUME op'[j].pc = "confirm", NEW t \in tokens', t.use = "confirm", t.owner = o, t.by = op'[j].tok
      PROVE  FALSE
  <2>1. op[j].pc = "confirm" /\ op'[j].tok = op[j].tok
    BY <1>1, <1>2 DEF Moved
  <2>2. t \notin tokens
    BY <1>1, <1>2, <2>1 DEF Powerless
  <2>3. ConfirmsOf(i, t)
    BY <1>0, <1>2, <2>2 DEF StoreStep
  <2>4. Past(i)
    BY <1>1, <1>2, <2>1, <2>3 DEF ConfirmsOf, PressInv
  <2> QED BY <2>3, <2>4 DEF ConfirmsOf, Past
<1>3. ASSUME op'[j].do = "run", op'[j].pc # "done", [by |-> op'[j].tok, owner |-> o] \in nonces'
      PROVE  FALSE
  <2>1. op[j].do = "run" /\ op[j].pc # "done" /\ op'[j].tok = op[j].tok
    BY <1>1, <1>3 DEF Moved
  <2>2. [by |-> op'[j].tok, owner |-> o] \notin nonces
    BY <1>1, <2>1 DEF Powerless
  <2>3. i \in Ops /\ op[i] # None /\ op[i].pc = "ask" /\ i = op[j].tok
    BY <1>3, <2>1, <2>2 DEF MaintStep
  <2>4. Asked(i)
    BY <1>1, <2>1, <2>3 DEF PressInv
  <2> QED BY <2>3, <2>4 DEF Asked
<1> QED BY <1>2, <1>3

LEMMA RemovedKept ==
  ASSUME CoreInv, PressInv, RemovedInv, [ExtNext]_extVars
  PROVE  RemovedInv'
<1>0. /\ ExtTypeOK /\ OpsInv(op) /\ OpsInv(op')
  BY CoreKept DEF CoreInv
<1>1. ASSUME NEW i, Stepping(i), MaintStep(i), UNCHANGED <<admins, replacing>> PROVE RemovedInv'
  BY <1>1, PowerlessStays DEF RemovedInv, Leaving
<1>2. ASSUME NEW i \in Ops, Acts(i), Stepping(i) PROVE RemovedInv'
  BY <1>0, <1>1, <1>2, ActsRest, ActsMaint DEF gate, Stepping
<1>3. ASSUME Elsewhere \/ UNCHANGED extVars, Stepping(None) PROVE RemovedInv'
  <2>1. UNCHANGED <<admins, replacing>>
    BY <1>3 DEF Elsewhere, extVars
  <2> QED BY <1>1, <1>3, <2>1, RestMaint
<1>4. ASSUME ReplaceAdmins, Stepping(None) PROVE RemovedInv'
  <2> SUFFICES ASSUME NEW o \in Owners, o \notin admins', ~Powerless(o)' PROVE Leaving(o)'
    BY DEF RemovedInv
  <2>1. MaintStep(None)
    BY <1>4, RestMaint
  <2>2. o \in admins \/ Leaving(o)
    BY <1>4, <2>1, PowerlessStays DEF RemovedInv
  <2>3. CASE replacing = None
    <3>1. PICK next \in SUBSET Owners \ {admins} :
            /\ admins' = next
            /\ replacing' = IF admins \subseteq next THEN None ELSE [todo |-> admins \ next, sweep |-> None, cutoff |-> 0]
      BY <1>4, <2>3 DEF ReplaceAdmins
    <3>2. o \in admins \ next
      BY <2>2, <2>3, <3>1 DEF Leaving
    <3> DEFINE todo == admins \ next
               n == [todo |-> todo, sweep |-> None, cutoff |-> 0]
    <3>3. replacing' = n
      BY <3>1, <3>2
    <3>4. n \in Removals /\ n.todo = todo /\ n.sweep = None
      <4>1. todo \subseteq Owners
        BY <1>0 DEF ExtTypeOK
      <4> HIDE DEF todo
      <4> QED BY <4>1 DEF Removals
    <3> HIDE DEF n
    <3> QED BY <3>2, <3>3, <3>4, NoneNoOp, ExtAssumption DEF Leaving
  <2>4. CASE replacing # None /\ replacing.sweep = None
    <3>1. PICK p \in replacing.todo : /\ CancelOwner(p) /\ RevokeAdmin(p) /\ op' = op /\ admins' = admins
                                      /\ replacing' = [replacing EXCEPT !.sweep = p, !.cutoff = nextGen + 1]
      BY <1>4, <2>4 DEF ReplaceAdmins
    <3>2. replacing \in Removals /\ p \in Owners /\ nextGen + 1 \in Nat
      BY <1>0, <2>4, <3>1 DEF ExtTypeOK, Removals
    <3>3. replacing' \in Removals /\ replacing'.sweep = p /\ replacing'.todo = replacing.todo
      BY <3>1, <3>2 DEF Removals
    <3>4. Leaving(o)
      BY <2>2, <3>1
    <3>5. CASE o = p
      <4>1. \A t \in tokens' : t.owner # o
        BY <3>1, <3>5 DEF CancelOwner
      <4>2. \A n \in nonces' : n.owner # o
        BY <3>1, <3>5 DEF RevokeAdmin
      <4>3. Powerless(o)'
        BY <4>1, <4>2 DEF Powerless
      <4> QED BY <4>3
    <3>6. CASE o # p
      BY <3>3, <3>4, <3>6, ExtAssumption DEF Leaving
    <3> QED BY <3>5, <3>6
  <2>5. CASE replacing # None /\ replacing.sweep # None
    <3> DEFINE left == replacing.todo \ {replacing.sweep}
               n == [todo |-> left, sweep |-> None, cutoff |-> 0]
    <3>1. admins' = admins /\ replacing' = IF left = {} THEN None ELSE n
      BY <1>4, <2>5 DEF ReplaceAdmins
    <3>2. o \in left
      BY <2>2, <3>1 DEF Leaving
    <3>3. n \in Removals /\ n.todo = left /\ n.sweep = None
      <4>1. left \subseteq Owners
        BY <1>0, <2>5 DEF ExtTypeOK, Removals
      <4> HIDE DEF left
      <4> QED BY <4>1 DEF Removals
    <3>4. replacing' = n
      BY <3>1, <3>2
    <3> HIDE DEF n, left
    <3> QED BY <3>2, <3>3, <3>4, NoneNoOp, ExtAssumption DEF Leaving
  <2> QED BY <2>3, <2>4, <2>5
<1>5. ASSUME NEW i \in Ops, Arrive(i) PROVE RemovedInv'
  <2>1. /\ Fresh(op'[i]) /\ op[i] = None /\ \A j \in Ops \ {i} : op'[j] = op[j]
    BY <1>0, <1>5, ArriveFacts
  <2>2. UNCHANGED <<admins, replacing, tokens, nonces>>
    BY <1>5 DEF Arrive, gate, store, maint
  <2>3. op'[i].owner \in admins
    BY <2>1 DEF Fresh
  <2> QED BY <2>1, <2>2, <2>3 DEF RemovedInv, Powerless, Leaving
<1> QED BY <1>2, <1>3, <1>4, <1>5, NextIs

\* What can be run has been asked for.
LEMMA RunsIs ==
  ASSUME CoreInv, [ExtNext]_extVars, NEW i \in Ops, At(i, "run"), op'[i].pc = "running"
  PROVE  op[i] # None /\ [by |-> op[i].tok, owner |-> op[i].owner] \in nonces
<1>0. /\ op[i] # None /\ op[i].pc = "run" /\ op[i] \in Updates /\ UpInv(op[i])
  BY DEF At, CoreInv, OpsInv
<1>1. ~Arrive(i)
  BY <1>0 DEF Arrive
<1>2. ASSUME NEW k, k # i, Stepping(k) PROVE FALSE
  BY <1>0, <1>2, SparedSame DEF Stepping, OpsStep
<1>3. ASSUME NEW k \in Ops, k # i, Arrive(k) PROVE FALSE
  <2>1. op'[i] = op[i]
    BY <1>3, ArriveFacts DEF CoreInv
  <2> QED BY <1>0, <2>1
<1>4. Acts(i)
  BY <1>1, <1>2, <1>3, NextIs, NoneNoOp
<1>5. Run(i)
  BY <1>0, <1>4 DEF Acts, OperationStep, ConfirmStep, OtherStep, Timeout, Begin, Claim, Check, Register,
       Recheck, Render, Work, ListStep, Slot, Fetch, Review, Issue, Control, Finish, Consume, Apply, Commit,
       Drop, Reset, SweepReset, Ask, At
<1>6. CASE Done(i)
  <2>1. op'[i] = Over(op[i])
    BY <1>0, <1>6, DoneStep DEF CoreInv, StepTo, Listed, Registered, Reviewing
  <2> QED BY <2>1 DEF Over
<1> QED BY <1>0, <1>5, <1>6 DEF Run, At

\* An administrator whose removal has been carried out confirms nothing more, even with
\* a button pressed before it: the removal revokes what was asked for and every token
\* before its sweep, and nothing that is issued later carries a name that was pressed
\* (bot.go ReplaceAdmins, bot_extension_state.go CancelOwnerWithGeneration).
THEOREM RemovedAdminsAreVoid == ExtSpec => RevokedPowerless
<1> DEFINE A == \A i \in Ops : Consumes(i) \/ (At(i, "run") /\ op'[i].pc = "running") =>
                  \/ op[i].owner \in admins
                  \/ replacing # None /\ op[i].owner \in replacing.todo
           Inv == CoreInv /\ PressInv /\ RemovedInv
<1>1. Inv /\ [ExtNext]_extVars => A
  <2> SUFFICES ASSUME Inv, [ExtNext]_extVars, NEW i \in Ops,
                      Consumes(i) \/ (At(i, "run") /\ op'[i].pc = "running")
               PROVE  op[i].owner \in admins \/ Leaving(op[i].owner)
    BY DEF Leaving
  <2>1. op[i] # None /\ op[i].owner \in Owners /\ UpInv(op[i])
    BY DEF Consumes, At, CoreInv, OpsInv, Updates
  <2>2. CASE Consumes(i)
    <3>1. PICK t \in Confirmation(op[i].tok) : t.owner = op[i].owner
      BY <2>2, ConsumesIs
    <3>2. t \in tokens /\ t.use = "confirm" /\ t.by = op[i].tok /\ op[i].pc = "confirm"
      BY <2>2 DEF Confirmation, Consumes, At
    <3>3. ~Powerless(op[i].owner)
      BY <2>1, <3>1, <3>2 DEF Powerless
    <3> QED BY <2>1, <3>3 DEF RemovedInv
  <2>3. CASE At(i, "run") /\ op'[i].pc = "running"
    <3>1. [by |-> op[i].tok, owner |-> op[i].owner] \in nonces /\ op[i].pc = "run"
      BY <2>3, RunsIs DEF At
    <3>2. op[i].do = "run"
      BY <2>1, <3>1 DEF UpInv, Doing
    <3>3. ~Powerless(op[i].owner)
      BY <2>1, <3>1, <3>2 DEF Powerless
    <3> QED BY <2>1, <3>3 DEF RemovedInv
  <2> QED BY <2>2, <2>3
<1>2. ExtInit => Inv
  <2>1. ExtInit => CoreInv
    BY CoreInit
  <2>2. ExtInit => PressInv /\ RemovedInv
    BY DEF ExtInit, PressInv, RemovedInv
  <2> QED BY <2>1, <2>2
<1>3. Inv /\ [ExtNext]_extVars => Inv'
  BY CoreKept, PressKept, RemovedKept
<1> QED BY <1>1, <1>2, <1>3, PTL DEF ExtSpec, RevokedPowerless

-----------------------------------------------------------------------------
(* The bytes of the store.                                                  *)

LEMMA FiniteParts ==
  ASSUME NEW S, IsFiniteSet(S), NEW T, T \subseteq S
  PROVE  IsFiniteSet(T) /\ Cardinality(T) \in Nat /\ Cardinality(T) <= Cardinality(S)
BY FS_Subset, FS_CardinalityType

LEMMA TwoParts ==
  ASSUME NEW A, NEW B, IsFiniteSet(A), IsFiniteSet(B), A \cap B = {}
  PROVE  IsFiniteSet(A \cup B) /\ Cardinality(A \cup B) = Cardinality(A) + Cardinality(B)
<1>1. /\ IsFiniteSet(A \cup B)
      /\ Cardinality(A \cup B) = Cardinality(A) + Cardinality(B) - Cardinality(A \cap B)
  BY FS_Union
<1>2. Cardinality(A \cap B) = 0
  BY FS_EmptySet
<1>3. Cardinality(A) \in Nat /\ Cardinality(B) \in Nat
  BY FS_CardinalityType
<1> QED BY <1>1, <1>2, <1>3

LEMMA SizeType == ASSUME NEW ts, IsFiniteSet(ts) PROVE SizeOf(ts) \in Nat
<1> DEFINE s == {t \in ts : t.use = "select"}
           c == {t \in ts : t.use = "confirm"}
<1>1. Cardinality(s) \in Nat /\ Cardinality(c) \in Nat
  BY FiniteParts
<1>2. SizeOf(ts) = Cardinality(s) + 2 * Cardinality(c)
  BY DEF SizeOf
<1> HIDE DEF s, c
<1> QED BY <1>1, <1>2

LEMMA SizeParts ==
  ASSUME NEW A, NEW B, IsFiniteSet(A), IsFiniteSet(B), A \cap B = {}
  PROVE  SizeOf(A \cup B) = SizeOf(A) + SizeOf(B)
<1> DEFINE sA == {t \in A : t.use = "select"}
           sB == {t \in B : t.use = "select"}
           cA == {t \in A : t.use = "confirm"}
           cB == {t \in B : t.use = "confirm"}
           s == {t \in A \cup B : t.use = "select"}
           c == {t \in A \cup B : t.use = "confirm"}
<1>1. s = sA \cup sB /\ c = cA \cup cB /\ sA \cap sB = {} /\ cA \cap cB = {}
  OBVIOUS
<1>2. /\ IsFiniteSet(sA) /\ IsFiniteSet(sB) /\ IsFiniteSet(cA) /\ IsFiniteSet(cB)
      /\ Cardinality(sA) \in Nat /\ Cardinality(sB) \in Nat
      /\ Cardinality(cA) \in Nat /\ Cardinality(cB) \in Nat
  BY FiniteParts
<1>3. /\ SizeOf(A) = Cardinality(sA) + 2 * Cardinality(cA)
      /\ SizeOf(B) = Cardinality(sB) + 2 * Cardinality(cB)
      /\ SizeOf(A \cup B) = Cardinality(s) + 2 * Cardinality(c)
  BY DEF SizeOf
<1> HIDE DEF s, c, sA, sB, cA, cB
<1>4. /\ Cardinality(s) = Cardinality(sA) + Cardinality(sB)
      /\ Cardinality(c) = Cardinality(cA) + Cardinality(cB)
  BY <1>1, <1>2, TwoParts
<1> QED BY <1>2, <1>3, <1>4

\* What goes and what comes.
LEMMA SizeChanges ==
  ASSUME NEW A, NEW B, IsFiniteSet(A), IsFiniteSet(B)
  PROVE  /\ SizeOf(B) = SizeOf(A) - SizeOf(A \ B) + SizeOf(B \ A)
         /\ SizeOf(A \ B) \in Nat /\ SizeOf(B \ A) \in Nat /\ SizeOf(A) \in Nat /\ SizeOf(B) \in Nat
         /\ SizeOf(A \cup B) <= SizeOf(A) + SizeOf(B) /\ IsFiniteSet(A \cup B)
         /\ SizeOf(A \ B) <= SizeOf(A)
         /\ B \subseteq A => SizeOf(B \ A) = 0 /\ SizeOf(B) <= SizeOf(A)
<1> DEFINE C == A \cap B
           dA == A \ B
           dB == B \ A
<1>1. IsFiniteSet(C) /\ IsFiniteSet(dA) /\ IsFiniteSet(dB)
  BY FiniteParts
<1>2. A = C \cup dA /\ B = C \cup dB /\ A \cup B = A \cup dB
      /\ C \cap dA = {} /\ C \cap dB = {} /\ A \cap dB = {}
  OBVIOUS
<1>3. B \subseteq A => dB = {}
  OBVIOUS
<1> HIDE DEF C, dA, dB
<1>4. /\ SizeOf(A) = SizeOf(C) + SizeOf(dA) /\ SizeOf(B) = SizeOf(C) + SizeOf(dB)
      /\ SizeOf(A \cup B) = SizeOf(A) + SizeOf(dB)
  BY <1>1, <1>2, SizeParts
<1>5. /\ SizeOf(A) \in Nat /\ SizeOf(B) \in Nat /\ SizeOf(C) \in Nat /\ SizeOf(dA) \in Nat /\ SizeOf(dB) \in Nat
  BY <1>1, SizeType
<1>6. SizeOf({}) = 0
  <2>1. {t \in {} : t.use = "select"} = {} /\ {t \in {} : t.use = "confirm"} = {}
    OBVIOUS
  <2> QED BY <2>1, FS_EmptySet DEF SizeOf
<1>7. IsFiniteSet(A \cup B)
  BY <1>1, <1>2, TwoParts
<1>8. B \subseteq A => SizeOf(dB) = 0
  BY <1>3, <1>6
<1>9. /\ SizeOf(B) = SizeOf(A) - SizeOf(dA) + SizeOf(dB)
      /\ SizeOf(A \cup B) <= SizeOf(A) + SizeOf(B)
      /\ SizeOf(dA) <= SizeOf(A)
      /\ B \subseteq A => SizeOf(dB) = 0 /\ SizeOf(B) <= SizeOf(A)
  BY <1>4, <1>5, <1>8
<1> USE DEF dA, dB
<1> QED BY <1>5, <1>7, <1>9

\* The inputs that are awaited.
Awaited(ins) == {o \in Owners : ins[o] # None}

LEMMA AwaitedFacts == \A ins : Cardinality(Awaited(ins)) \in Nat
BY FiniteParts, ExtAssumption DEF Awaited

LEMMA InputsChange ==
  ASSUME NEW ins, NEW next, NEW o \in Owners, \A x \in Owners \ {o} : next[x] = ins[x]
  PROVE  Cardinality(Awaited(next)) =
           Cardinality(Awaited(ins)) - (IF ins[o] = None THEN 0 ELSE 1) + (IF next[o] = None THEN 0 ELSE 1)
<1> DEFINE R == {x \in Owners \ {o} : ins[x] # None}
<1>1. IsFiniteSet(R) /\ o \notin R /\ Cardinality(R) \in Nat
  BY FiniteParts, ExtAssumption
<1>2. Awaited(ins) = (IF ins[o] = None THEN R ELSE R \cup {o})
  BY DEF Awaited
<1>3. Awaited(next) = (IF next[o] = None THEN R ELSE R \cup {o})
  BY DEF Awaited
<1> HIDE DEF R
<1>4. Cardinality(R \cup {o}) = Cardinality(R) + 1
  BY <1>1, FS_AddElement
<1>5. Cardinality(Awaited(ins)) = Cardinality(R) + (IF ins[o] = None THEN 0 ELSE 1)
  BY <1>1, <1>2, <1>4
<1>6. Cardinality(Awaited(next)) = Cardinality(R) + (IF next[o] = None THEN 0 ELSE 1)
  BY <1>1, <1>3, <1>4
<1> QED BY <1>1, <1>5, <1>6

\* The byte account is exact, and nothing is over its limit.
Budget(ts, ins, u) ==
  /\ IsFiniteSet(ts) /\ u = SizeOf(ts) + Cardinality(Awaited(ins))
  /\ u <= MaxBytes /\ Cardinality(ts) <= MaxTokens

LEMMA FewerBudget ==
  ASSUME Budget(tokens, inputs, used), NEW ts, ts \subseteq tokens, SetTokens(ts), inputs' = inputs
  PROVE  Budget(tokens', inputs', used')
<1>1. IsFiniteSet(tokens) /\ IsFiniteSet(ts) /\ Cardinality(ts) \in Nat /\ Cardinality(ts) <= Cardinality(tokens)
  BY FiniteParts DEF Budget
<1>2. tokens' = ts /\ used' = used - SizeOf(tokens \ ts) + SizeOf(ts \ tokens)
  BY DEF SetTokens
<1>3. /\ SizeOf(ts) = SizeOf(tokens) - SizeOf(tokens \ ts) + SizeOf(ts \ tokens)
      /\ SizeOf(tokens \ ts) \in Nat /\ SizeOf(ts \ tokens) = 0 /\ SizeOf(tokens) \in Nat /\ SizeOf(ts) \in Nat
  BY <1>1, SizeChanges
<1>4. Cardinality(Awaited(inputs)) \in Nat /\ Cardinality(tokens) \in Nat /\ MaxBytes \in Nat /\ MaxTokens \in Nat
  BY <1>1, AwaitedFacts, FS_CardinalityType, ExtAssumption
<1>5. /\ used = SizeOf(tokens) + Cardinality(Awaited(inputs)) /\ used <= MaxBytes
      /\ Cardinality(tokens) <= MaxTokens
  BY DEF Budget
<1>6. /\ used' = SizeOf(ts) + Cardinality(Awaited(inputs)) /\ used' <= MaxBytes
      /\ Cardinality(ts) <= MaxTokens
  BY <1>1, <1>2, <1>3, <1>4, <1>5
<1> QED BY <1>1, <1>2, <1>6 DEF Budget

LEMMA MoreBudget ==
  ASSUME Budget(tokens, inputs, used), NEW kept, kept \subseteq tokens, NEW new, IsFiniteSet(new),
         Fits(kept, new), SetTokens(kept \cup new), inputs' = inputs
  PROVE  Budget(tokens', inputs', used')
<1> DEFINE ts == kept \cup new
<1>1. IsFiniteSet(tokens) /\ IsFiniteSet(kept) /\ kept \ tokens = {}
  BY FiniteParts DEF Budget
<1>2. IsFiniteSet(ts) /\ SizeOf(ts) <= SizeOf(kept) + SizeOf(new) /\ SizeOf(kept) \in Nat /\ SizeOf(new) \in Nat
  BY <1>1, SizeChanges
<1>3. tokens' = ts /\ used' = used - SizeOf(tokens \ ts) + SizeOf(ts \ tokens)
  BY DEF SetTokens
<1> HIDE DEF ts
<1>4. /\ SizeOf(ts) = SizeOf(tokens) - SizeOf(tokens \ ts) + SizeOf(ts \ tokens)
      /\ SizeOf(tokens \ ts) \in Nat /\ SizeOf(ts \ tokens) \in Nat /\ SizeOf(tokens) \in Nat /\ SizeOf(ts) \in Nat
  BY <1>1, <1>2, SizeChanges
<1>5. /\ SizeOf(kept) = SizeOf(tokens) - SizeOf(tokens \ kept) + SizeOf(kept \ tokens)
      /\ SizeOf(tokens \ kept) \in Nat /\ SizeOf(kept \ tokens) = 0
  BY <1>1, SizeChanges
<1>6. Cardinality(Awaited(inputs)) \in Nat /\ MaxBytes \in Nat
  BY AwaitedFacts, ExtAssumption
<1>7. /\ used = SizeOf(tokens) + Cardinality(Awaited(inputs))
      /\ used - SizeOf(tokens \ kept) + SizeOf(new) <= MaxBytes
      /\ Cardinality(ts) <= MaxTokens
  BY DEF Budget, Fits, ts
<1>8. used' = SizeOf(ts) + Cardinality(Awaited(inputs)) /\ used' <= MaxBytes
  BY <1>2, <1>3, <1>4, <1>5, <1>6, <1>7
<1> QED BY <1>2, <1>3, <1>7, <1>8 DEF Budget

LEMMA InputBudget ==
  ASSUME Budget(tokens, inputs, used), ExtTypeOK, NEW o \in Owners, NEW v, v \in Inputs \cup {None},
         inputs' = [inputs EXCEPT ![o] = v], tokens' = tokens,
         used' = used - InputSize(o) + (IF v = None THEN 0 ELSE 1),
         v # None => used - InputSize(o) + 1 <= MaxBytes
  PROVE  Budget(tokens', inputs', used')
<1>1. inputs'[o] = v /\ \A x \in Owners \ {o} : inputs'[x] = inputs[x]
  BY DEF ExtTypeOK
<1> DEFINE before == inputs
           after == inputs'
<1>a. \A x \in Owners \ {o} : after[x] = before[x]
  BY <1>1
<1> HIDE DEF before, after
<1>b. Cardinality(Awaited(after)) =
        Cardinality(Awaited(before)) - (IF before[o] = None THEN 0 ELSE 1) + (IF after[o] = None THEN 0 ELSE 1)
  BY <1>a, InputsChange
<1>c. after[o] = v /\ InputSize(o) = (IF before[o] = None THEN 0 ELSE 1)
  BY <1>1 DEF before, after, InputSize
<1>2. Cardinality(Awaited(inputs')) =
        Cardinality(Awaited(inputs)) - InputSize(o) + (IF v = None THEN 0 ELSE 1)
  BY <1>b, <1>c DEF before, after
<1>3. /\ Cardinality(Awaited(inputs)) \in Nat /\ SizeOf(tokens) \in Nat /\ MaxBytes \in Nat
      /\ InputSize(o) \in {0, 1}
  BY AwaitedFacts, SizeType, ExtAssumption DEF Budget, InputSize
<1>4. used = SizeOf(tokens) + Cardinality(Awaited(inputs)) /\ used <= MaxBytes
  BY DEF Budget
<1>5. used' = SizeOf(tokens) + Cardinality(Awaited(inputs')) /\ used' <= MaxBytes
  BY <1>2, <1>3, <1>4
<1> QED BY <1>5 DEF Budget

LEMMA SameBudget ==
  ASSUME Budget(tokens, inputs, used), UNCHANGED store
  PROVE  Budget(tokens', inputs', used')
BY DEF store

LEMMA PutBudget ==
  ASSUME Budget(tokens, inputs, used), ExtTypeOK, OpsInv(op), NEW i \in Ops, op[i] # None,
         NEW v \in Inputs, PutInput(i, v)
  PROVE  Budget(tokens', inputs', used')
<1> DEFINE o == op[i].owner
<1>1. o \in Owners /\ v # None
  BY ExtAssumption DEF OpsInv, Updates
<1>2. CASE /\ used - InputSize(o) + 1 <= MaxBytes /\ inputs' = [inputs EXCEPT ![o] = v]
           /\ used' = used - InputSize(o) + 1 /\ tokens' = tokens
  BY <1>1, <1>2, InputBudget
<1>3. CASE UNCHANGED store
  BY <1>3, SameBudget
<1> QED BY <1>2, <1>3 DEF PutInput

LEMMA CancelBudget ==
  ASSUME Budget(tokens, inputs, used), ExtTypeOK, NEW o \in Owners, CancelOwner(o)
  PROVE  Budget(tokens', inputs', used')
<1> DEFINE ts == {t \in tokens : t.owner # o}
           gone == {t \in tokens : t.owner = o}
<1>1. IsFiniteSet(tokens) /\ IsFiniteSet(ts) /\ Cardinality(ts) \in Nat /\ Cardinality(ts) <= Cardinality(tokens)
  BY FiniteParts DEF Budget
<1>2. /\ tokens' = ts /\ used' = used - SizeOf(gone) - InputSize(o) /\ inputs' = [inputs EXCEPT ![o] = None]
  BY DEF CancelOwner
<1>3. gone = tokens \ ts /\ ts \subseteq tokens
  OBVIOUS
<1> HIDE DEF ts, gone
<1>4. /\ SizeOf(ts) = SizeOf(tokens) - SizeOf(gone) + 0
      /\ SizeOf(gone) \in Nat /\ SizeOf(tokens) \in Nat /\ SizeOf(ts) \in Nat
  BY <1>1, <1>3, SizeChanges
<1>5. inputs'[o] = None /\ \A x \in Owners \ {o} : inputs'[x] = inputs[x]
  BY <1>2 DEF ExtTypeOK
<1>6. Cardinality(Awaited(inputs')) = Cardinality(Awaited(inputs)) - InputSize(o) + 0
  BY <1>5, InputsChange DEF InputSize
<1>7. /\ Cardinality(Awaited(inputs)) \in Nat /\ MaxBytes \in Nat /\ MaxTokens \in Nat
      /\ Cardinality(tokens) \in Nat /\ InputSize(o) \in {0, 1}
  BY <1>1, AwaitedFacts, FS_CardinalityType, ExtAssumption DEF InputSize
<1>8. /\ used = SizeOf(tokens) + Cardinality(Awaited(inputs)) /\ used <= MaxBytes
      /\ Cardinality(tokens) <= MaxTokens
  BY DEF Budget
<1>9. /\ used' = SizeOf(ts) + Cardinality(Awaited(inputs')) /\ used' <= MaxBytes
      /\ Cardinality(ts) <= MaxTokens
  BY <1>1, <1>2, <1>4, <1>6, <1>7, <1>8
<1> QED BY <1>1, <1>2, <1>9 DEF Budget

LEMMA WorkBudget ==
  ASSUME Budget(tokens, inputs, used), ExtTypeOK, OpsInv(op), NEW i \in Ops, Work(i)
  PROVE  Budget(tokens', inputs', used')
<1> DEFINE x == op[i]
           o == x.owner
<1>1. x \in Updates /\ UpInv(x) /\ x # None /\ x.pc = "work" /\ o \in Owners
  BY DEF OpsInv, Work, At, Updates
<1>2. CASE UNCHANGED store
  BY <1>2, SameBudget
<1>4. CASE AskInput(i) /\ PutInput(i, InputFor(x.kind))
  <2>1. x.kind \in DOMAIN Prompt /\ x.kind \in DOMAIN Conversation
    BY <1>1, <1>4, ConversationFacts DEF AskInput, UpInv, Conversing
  <2> DEFINE rev == Seen(Conversation[x.kind])
             pay == [rev |-> rev, cand |-> None]
  <2>2. rev \in [Docs -> Contents \cup {None}]
    BY <2>1, ConversationFacts, SeenFacts DEF ExtTypeOK
  <2>3. InputFor(x.kind) = [kind |-> x.kind, pay |-> pay]
    BY DEF InputFor
  <2> HIDE DEF rev
  <2>4. pay \in Payloads
    BY <2>2 DEF Payloads
  <2> HIDE DEF pay
  <2>5. InputFor(x.kind) \in Inputs
    BY <2>1, <2>3, <2>4 DEF Inputs
  <2> QED BY <1>1, <1>4, <2>5, PutBudget
<1>5. CASE TakeInput(i)
  <2>1. AnswerOf(x.kind, x.pay) /\ x.pay \in Payloads
    BY <1>1, <1>5 DEF TakeInput, UpInv, Conversing, Updates
  <2>2. CASE retryInput(i)
    <3>1. Answer(i) \in Inputs
      BY <2>1 DEF Answer, Inputs, AnswerOf
    <3> QED BY <1>1, <2>2, <3>1, PutBudget DEF retryInput
  <2>3. CASE consumeMarketplaceURL(i)
    <3> DEFINE y == [Answer(i) EXCEPT !.kind = "name"]
    <3>1. y = [kind |-> "name", pay |-> x.pay]
      BY DEF Answer
    <3>2. y \in Inputs
      BY <2>1, <3>1, ConversationFacts DEF Inputs
    <3> HIDE DEF y
    <3>3. PutInput(i, y)
      BY <2>3 DEF consumeMarketplaceURL, y
    <3> QED BY <1>1, <3>2, <3>3, PutBudget
  <2> QED BY <1>2, <1>5, <2>2, <2>3
          DEF TakeInput, consumeMarketplaceName, consumeImport, consumeSettingInput
<1> QED BY <1>2, <1>4, <1>5 DEF Work, ShowMenu, AskInput, StartPreview

LEMMA ListBudget ==
  ASSUME Budget(tokens, inputs, used), NEW i \in Ops, ListStep(i)
  PROVE  Budget(tokens', inputs', used')
<1>1. CASE UNCHANGED store
  BY <1>1, SameBudget
<1>2. CASE CancelKind(i)
  <2>1. PICK t \in Left(i) : SetTokens(tokens \ {u \in Left(i) : u.kind = t.kind})
    BY <1>2 DEF CancelKind
  <2> DEFINE kept == tokens \ {u \in Left(i) : u.kind = t.kind}
  <2>2. kept \subseteq tokens
    OBVIOUS
  <2> HIDE DEF kept
  <2>3. SetTokens(kept) /\ inputs' = inputs
    BY <1>2, <2>1 DEF kept, CancelKind
  <2> QED BY <2>2, <2>3, FewerBudget
<1>3. CASE IssueSelection(i)
  <2>1. PICK b : Fits(tokens, {b}) /\ SetTokens(tokens \cup {b}) /\ inputs' = inputs
    BY <1>3 DEF IssueSelection
  <2>2. tokens \subseteq tokens /\ IsFiniteSet({b})
    BY FS_Singleton
  <2> QED BY <2>1, <2>2, MoreBudget
<1> QED BY <1>1, <1>2, <1>3 DEF ListStep

LEMMA IssueBudget ==
  ASSUME Budget(tokens, inputs, used), ExtTypeOK, OpsInv(op), NEW i \in Ops, Issue(i)
  PROVE  Budget(tokens', inputs', used')
<1> DEFINE x == op[i]
           o == x.owner
           k == StoreKind(x.kind)
           kept == tokens \ {t \in tokens : t.use = "confirm" /\ t.owner = o /\ StoreKind(t.kind) = k}
           b == [use |-> "confirm", by |-> i, kind |-> x.kind, owner |-> o,
                 gen |-> x.gen, pay |-> x.pay, shown |-> x.shown]
<1>1. CASE UNCHANGED store
  BY <1>1, SameBudget
<1>2. CASE ~UNCHANGED store
  <2>1. SetTokens(kept \cup {b}) /\ Fits(kept, {b}) /\ inputs' = inputs
    BY <1>2 DEF Issue, store
  <2>2. kept \subseteq tokens /\ IsFiniteSet({b})
    BY FS_Singleton
  <2> HIDE DEF kept, b
  <2> QED BY <2>1, <2>2, MoreBudget
<1> QED BY <1>1, <1>2

LEMMA ActsBudget ==
  ASSUME Budget(tokens, inputs, used), ExtTypeOK, OpsInv(op), NEW i \in Ops, Acts(i), op[i] # None
  PROVE  Budget(tokens', inputs', used')
<1> DEFINE o == op[i].owner
<1>0. o \in Owners
  BY DEF OpsInv, Updates
<1>1. CASE UNCHANGED store
  BY <1>1, SameBudget
<1>2. CASE Begin(i) \/ (Claim(i) /\ ~UNCHANGED store)
  <2>1. /\ inputs' = [inputs EXCEPT ![o] = None] /\ tokens' = tokens /\ used' = used - InputSize(o)
    BY <1>2 DEF Begin, Claim, InputSize
  <2>2. used \in Int /\ InputSize(o) \in Int
    BY AwaitedFacts, SizeType DEF Budget, InputSize
  <2>3. used' = used - InputSize(o) + (IF None = None THEN 0 ELSE 1)
    BY <2>1, <2>2
  <2> QED BY <1>0, <2>1, <2>3, InputBudget
<1>3. CASE Work(i) \/ ListStep(i)
  BY <1>3, WorkBudget, ListBudget
<1>4. CASE Issue(i)
  BY <1>4, IssueBudget
<1>5. CASE Control(i) \/ Consume(i) \/ Drop(i)
  <2>1. CASE ~UNCHANGED store
    <3>1. \E ts \in SUBSET tokens : SetTokens(ts) /\ inputs' = inputs
      <4>1. CASE Control(i)
        BY <2>1, <4>1 DEF Control, store
      <4>2. CASE Consume(i)
        BY <2>1, <4>2 DEF Consume
      <4>3. CASE Drop(i)
        <5> DEFINE ts == {t \in tokens : ~(t \in Confirmation(op[i].tok) /\ t.owner = op[i].owner)}
        <5>1. SetTokens(ts) /\ inputs' = inputs /\ ts \in SUBSET tokens
          BY <4>3 DEF Drop
        <5> QED BY <5>1
      <4> QED BY <1>5, <4>1, <4>2, <4>3
    <3> QED BY <3>1, FewerBudget
  <2> QED BY <1>1, <2>1
<1>6. CASE Reset(i)
  BY <1>0, <1>6, CancelBudget DEF Reset
<1>7. CASE OperationStep(i)
  BY <1>1, <1>2, <1>3, <1>4, <1>5, <1>7 DEF OperationStep, store
<1>8. CASE ConfirmStep(i)
  BY <1>1, <1>5, <1>8 DEF ConfirmStep, Apply, Commit
<1>9. CASE OtherStep(i)
  BY <1>1, <1>5, <1>6, <1>9 DEF OtherStep, SweepReset, Ask, Run
<1>10. CASE Timeout(i)
  BY <1>1, <1>10 DEF Timeout
<1> QED BY <1>7, <1>8, <1>9, <1>10 DEF Acts

\* Who holds a slot is at work with it.
SlotInv ==
  /\ \A k \in rendering : op[k] # None /\ (Listed(op[k]) \/ op[k].pc = "finish")
  /\ \A k \in fetching : op[k] # None /\ op[k].pc \in {"fetch", "apply", "commit"}

LEMMA ActsSlots ==
  ASSUME CoreInv, SlotInv, NEW i \in Ops, Acts(i), Stepping(i)
  PROVE  SlotInv'
<1> DEFINE x == op[i]
<1>0. /\ ExtTypeOK /\ OpsInv(op) /\ OpsInv(op') /\ OpsMoved(op, op') /\ x # None /\ x \in Updates /\ UpInv(x)
      /\ op'[i] # None /\ Moved(x, op'[i])
      /\ \A j \in Ops \ {i} : Spared(op[j], op'[j])
  BY NoneNoOp DEF CoreInv, Stepping, OpsStep, OpsInv, OpsMoved
<1>1. ASSUME NEW k \in Ops \ {i}, op[k] # None
      PROVE  op'[k] # None /\ op'[k].pc = op[k].pc /\ op'[k].do = op[k].do
  BY <1>0, <1>1, SparedSame DEF OpsMoved, OpsInv
<1>2. \A k \in rendering' : k \in Ops /\ op'[k] # None /\ (Listed(op'[k]) \/ op'[k].pc = "finish")
  <2>1. ASSUME NEW k \in rendering, k # i \/ x.pc # "finish"
        PROVE  k \in Ops /\ op'[k] # None /\ (Listed(op'[k]) \/ op'[k].pc = "finish")
    <3>1. k \in Ops /\ op[k] # None /\ (Listed(op[k]) \/ op[k].pc = "finish")
      BY <1>0, <2>1 DEF SlotInv, ExtTypeOK
    <3>2. CASE k # i
      BY <1>1, <3>1, <3>2 DEF Listed
    <3>3. CASE k = i
      BY <1>0, <2>1, <3>1, <3>3 DEF Moved
    <3> QED BY <3>2, <3>3
  <2>2. CASE Render(i) /\ rendering' = {i} /\ Go(i, "work")
    <3>1. op'[i] = [x EXCEPT !.pc = "work"] /\ x.do # "confirm"
      BY <1>0, <2>2, GoStep, NotConfirming DEF Render, At, Goes, StepTo, Registered
    <3>2. op'[i].pc = "work" /\ op'[i].do = x.do
      BY <1>0, <3>1 DEF Updates
    <3> QED BY <1>0, <2>2, <3>1, <3>2 DEF Listed, Registered
  <2>3. CASE Finish(i) /\ rendering' = rendering \ {i}
    BY <2>1, <2>3
  <2>4. CASE rendering' = rendering /\ ~Finish(i)
    <3>1. x.pc # "finish"
      BY <2>4 DEF Acts, OperationStep, ConfirmStep, OtherStep, Timeout, Begin, Claim, Check, Register,
         Recheck, Render, Work, ListStep, Slot, Fetch, Review, Issue, Control, Consume, Apply, Commit,
         Drop, Reset, SweepReset, Ask, Run, At
    <3> QED BY <2>1, <2>4, <3>1
  <2>5. CASE OperationStep(i)
    BY <2>2, <2>3, <2>4, <2>5 DEF OperationStep, guard, Render, Finish
  <2>6. CASE ConfirmStep(i) \/ OtherStep(i) \/ Timeout(i)
    <3>1. rendering' = rendering
      BY <2>6 DEF ConfirmStep, OtherStep, Timeout, guard
    <3>2. x.pc # "finish"
      BY <2>6 DEF ConfirmStep, OtherStep, Timeout, Consume, Apply, Commit, Drop, Reset, SweepReset,
                  Ask, Run, At
    <3> QED BY <2>1, <3>1, <3>2
  <2> QED BY <2>5, <2>6 DEF Acts
<1>3. \A k \in fetching' : k \in Ops /\ op'[k] # None /\ op'[k].pc \in {"fetch", "apply", "commit"}
  <2>1. ASSUME NEW k \in fetching, k # i
        PROVE  k \in Ops /\ op'[k] # None /\ op'[k].pc \in {"fetch", "apply", "commit"}
    BY <1>0, <1>1, <2>1 DEF SlotInv, ExtTypeOK
  <2>2. CASE fetching' \subseteq fetching /\ (x.pc \notin {"fetch", "apply", "commit"} \/ i \notin fetching')
    <3>1. i \notin fetching'
      BY <2>2 DEF SlotInv
    <3> QED BY <2>1, <2>2, <3>1
  <2>3. CASE Slot(i) /\ fetching' = fetching \cup {i} /\ Go(i, IF x.do = "confirm" THEN "apply" ELSE "fetch")
    <3> DEFINE pc == IF x.do = "confirm" THEN "apply" ELSE "fetch"
    <3>1. Goes(x, pc)
      BY <2>3 DEF Goes, Slot, At
    <3>2. op'[i] = [x EXCEPT !.pc = pc]
      BY <1>0, <2>3, <3>1, GoStep DEF StepTo
    <3>3. op'[i].pc \in {"fetch", "apply", "commit"}
      BY <1>0, <3>2 DEF Updates
    <3> QED BY <1>0, <2>1, <2>3, <3>3
  <2>4. CASE Apply(i) /\ fetching' = fetching
                      /\ op' = [op EXCEPT ![i].pc = "commit",
                                          ![i].did.cand = IF Mutation[x.kind].fetches THEN remote ELSE None]
    <3> DEFINE cand == IF Mutation[x.kind].fetches THEN remote ELSE None
               did == [x.did EXCEPT !.cand = cand]
    <3>1. op'[i] = [x EXCEPT !.pc = "commit", !.did = did]
      BY <1>0, <2>4 DEF OpsInv
    <3> HIDE DEF did
    <3>2. op'[i].pc = "commit"
      BY <1>0, <3>1 DEF Updates
    <3> QED BY <1>0, <2>1, <2>4, <3>2
  <2>5. CASE OperationStep(i)
    <3>1. CASE Slot(i)
      BY <2>2, <2>3, <3>1 DEF Slot, At
    <3>2. CASE Fetch(i)
      BY <2>2, <3>2 DEF Fetch, At
    <3>3. CASE ~Slot(i) /\ ~Fetch(i)
      <4>1. fetching' = fetching
        BY <2>5, <3>3 DEF OperationStep, guard
      <4>2. x.pc \notin {"fetch", "apply", "commit"}
        BY <2>5, <3>3 DEF OperationStep, Begin, Claim, Check, Register, Recheck, Render, Work, ListStep, Review,
           Issue, Control, Finish, At
      <4> QED BY <2>2, <4>1, <4>2
    <3> QED BY <3>1, <3>2, <3>3
  <2>6. CASE ConfirmStep(i)
    BY <2>2, <2>4, <2>6 DEF ConfirmStep, Consume, Apply, Commit, Unfetch, At
  <2>7. CASE OtherStep(i) \/ Timeout(i)
    <3>1. fetching' = fetching
      BY <2>7 DEF OtherStep, Timeout, guard
    <3>2. x.pc \notin {"fetch", "apply", "commit"}
      BY <2>7 DEF OtherStep, Timeout, Drop, Reset, SweepReset, Ask, Run, At
    <3> QED BY <2>2, <3>1, <3>2
  <2> QED BY <2>5, <2>6, <2>7 DEF Acts
<1> QED BY <1>2, <1>3 DEF SlotInv

LEMMA BudgetKept ==
  ASSUME CoreInv, SlotInv, Budget(tokens, inputs, used), [ExtNext]_extVars
  PROVE  SlotInv' /\ Budget(tokens', inputs', used')
<1>0. /\ ExtTypeOK /\ OpsInv(op)
  BY DEF CoreInv
<1>1. ASSUME NEW i \in Ops, Acts(i), Stepping(i) PROVE SlotInv' /\ Budget(tokens', inputs', used')
  BY <1>0, <1>1, ActsSlots, ActsBudget DEF Stepping
<1>2. ASSUME NEW i \in Ops, Arrive(i) PROVE SlotInv' /\ Budget(tokens', inputs', used')
  <2>1. /\ op[i] = None /\ \A j \in Ops \ {i} : op'[j] = op[j]
    BY <1>0, <1>2, ArriveFacts
  <2>2. UNCHANGED guard /\ UNCHANGED store
    BY <1>2 DEF Arrive
  <2>3. Budget(tokens', inputs', used')
    BY <2>2, SameBudget
  <2>4. rendering' = rendering /\ fetching' = fetching /\ rendering \subseteq Ops /\ fetching \subseteq Ops
    BY <1>0, <2>2 DEF guard, ExtTypeOK
  <2>5. SlotInv'
    BY <2>1, <2>4 DEF SlotInv
  <2> QED BY <2>3, <2>5
<1>3. ASSUME ReplaceAdmins \/ Elsewhere \/ UNCHANGED extVars, Stepping(None)
      PROVE  SlotInv' /\ Budget(tokens', inputs', used')
  <2>1. rendering' = rendering /\ fetching' = fetching /\ rendering \subseteq Ops /\ fetching \subseteq Ops
    BY <1>0, <1>3 DEF ReplaceAdmins, Elsewhere, extVars, guard, ExtTypeOK
  <2>2. ASSUME NEW k \in Ops, op[k] # None
        PROVE  op'[k] # None /\ op'[k].pc = op[k].pc /\ op'[k].do = op[k].do
    BY <1>0, <1>3, <2>2, SparedSame, NoneNoOp DEF Stepping, OpsStep, OpsMoved, OpsInv
  <2>3. SlotInv'
    BY <2>1, <2>2 DEF SlotInv, Listed
  <2>4. UNCHANGED store \/ \E p \in replacing.todo : replacing # None /\ CancelOwner(p)
    BY <1>3 DEF ReplaceAdmins, Elsewhere, extVars, store
  <2>5. \A p \in replacing.todo : replacing # None => p \in Owners
    BY <1>0 DEF ExtTypeOK, Removals
  <2>6. Budget(tokens', inputs', used')
    BY <1>0, <2>4, <2>5, SameBudget, CancelBudget
  <2> QED BY <2>3, <2>6
<1> QED BY <1>1, <1>2, <1>3, NextIs

LEMMA BudgetInit == ExtInit => SlotInv /\ Budget(tokens, inputs, used)
<1> SUFFICES ASSUME ExtInit PROVE SlotInv /\ Budget(tokens, inputs, used)
  OBVIOUS
<1>1. SlotInv
  BY DEF ExtInit, SlotInv
<1>2. /\ MaxBytes \in Nat \ {0} /\ MaxTokens \in Nat \ {0}
  BY ExtAssumption
<1>3. PICK o \in Owners :
        \/ tokens = {} /\ inputs = [x \in Owners |-> None]
        \/ /\ \E t : t.use = "select" /\ tokens = {t}
           /\ inputs = [x \in Owners |-> None]
        \/ /\ tokens = {}
           /\ \E v : inputs = [x \in Owners |-> IF x = o THEN v ELSE None]
  <2>1. \A k, o, v : Selection(0, k, o, v).use = "select"
    BY DEF Selection
  <2> QED BY <2>1 DEF ExtInit
<1>4. used = SizeOf(tokens) + Cardinality(Awaited(inputs))
  BY DEF ExtInit, Awaited
<1>5. SizeOf({}) = 0
  <2>1. {t \in {} : t.use = "select"} = {} /\ {t \in {} : t.use = "confirm"} = {}
    OBVIOUS
  <2> QED BY <2>1, FS_EmptySet DEF SizeOf
<1>6. IsFiniteSet({}) /\ Cardinality({}) = 0
  BY FS_EmptySet
<1>7. CASE \A x \in Owners : inputs[x] = None
  <2>1. Awaited(inputs) = {}
    BY <1>7 DEF Awaited
  <2>2. Cardinality(Awaited(inputs)) = 0
    BY <2>1, FS_EmptySet
  <2>3. CASE tokens = {}
    <3>1. used = 0 + 0
      BY <1>4, <1>5, <2>2, <2>3
    <3>2. used <= MaxBytes /\ 0 <= MaxTokens
      BY <1>2, <3>1
    <3>3. IsFiniteSet(tokens) /\ Cardinality(tokens) = 0
      BY <1>6, <2>3
    <3>4. Cardinality(tokens) <= MaxTokens
      BY <3>2, <3>3
    <3> QED BY <1>1, <1>4, <3>2, <3>3, <3>4 DEF Budget
  <2>4. ASSUME NEW t, t.use = "select", tokens = {t} PROVE Budget(tokens, inputs, used)
    <3>1. {u \in tokens : u.use = "select"} = {t} /\ {u \in tokens : u.use = "confirm"} = {}
      BY <2>4
    <3>2. SizeOf(tokens) = 1
      <4>1. Cardinality({t}) = 1
        BY FS_Singleton
      <4>2. SizeOf(tokens) = 1 + 2 * 0
        BY <1>6, <3>1, <4>1 DEF SizeOf
      <4> QED BY <4>2
    <3>3. IsFiniteSet(tokens) /\ Cardinality(tokens) = 1
      BY <2>4, FS_Singleton
    <3> QED BY <1>2, <1>4, <2>2, <3>2, <3>3 DEF Budget
  <2> QED BY <1>1, <1>3, <2>3, <2>4, FS_EmptySet
<1>8. CASE tokens = {} /\ \E v : inputs = [x \in Owners |-> IF x = o THEN v ELSE None]
  <2>1. Awaited(inputs) \subseteq {o}
    BY <1>8 DEF Awaited
  <2>2. Cardinality(Awaited(inputs)) \in Nat /\ Cardinality(Awaited(inputs)) <= 1
    <3>1. IsFiniteSet({o}) /\ Cardinality({o}) = 1
      BY FS_Singleton
    <3> QED BY <2>1, <3>1, FiniteParts
  <2>3. used = 0 + Cardinality(Awaited(inputs))
    BY <1>4, <1>5, <1>8
  <2>4. used <= MaxBytes /\ 0 <= MaxTokens
    BY <1>2, <2>2, <2>3
  <2>5. IsFiniteSet(tokens) /\ Cardinality(tokens) = 0
    BY <1>8, <1>6
  <2>6. Cardinality(tokens) <= MaxTokens
    BY <2>4, <2>5
  <2> QED BY <1>1, <1>4, <2>4, <2>5, <2>6 DEF Budget
<1> QED BY <1>3, <1>7, <1>8

LEMMA BudgetIs ==
  ASSUME CoreInv, SlotInv, Budget(tokens, inputs, used)
  PROVE  WithinBudget
<1>1. \A o \in Owners : active[o] # None => ~At(active[o], "done")
  BY DEF CoreInv, ActiveInv, At, Listed, Registered, Reviewing
<1>2. \A i \in rendering \cup fetching : ~At(i, "done")
  BY DEF SlotInv, At, Listed, Registered, Reviewing
<1>3. \A i \in rendering \cup fetching \cup {active[o] : o \in {x \in Owners : active[x] # None}} :
        ~At(i, "done")
  BY <1>1, <1>2
<1> QED BY <1>3 DEF Budget, Awaited, WithinBudget

\* What updates take they give back: the byte account is exact and within its limits,
\* and a slot or a registration is held by an update that is still at work
\* (bot_extension_state.go:299-340, bot_extension_operations.go).
THEOREM StoreWithinBudget == ExtSpec => []WithinBudget
<1> DEFINE Inv == CoreInv /\ SlotInv /\ Budget(tokens, inputs, used)
<1>1. ExtInit => Inv
  BY CoreInit, BudgetInit
<1>2. Inv /\ [ExtNext]_extVars => Inv'
  <2> SUFFICES ASSUME Inv, [ExtNext]_extVars PROVE CoreInv' /\ SlotInv' /\ Budget(tokens', inputs', used')
    OBVIOUS
  <2> QED BY CoreKept, BudgetKept
<1>3. Inv => WithinBudget
  BY BudgetIs
<1> QED BY <1>1, <1>2, <1>3, PTL DEF ExtSpec
=============================================================================
