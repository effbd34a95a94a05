--------------------------- MODULE BotExtensions ---------------------------
(***************************************************************************)
(* Extension management in the Telegram bot of cmd/5gpn-dns: the store of    *)
(* selections, confirmations and pending inputs, the guard that cancels        *)
(* superseded operations, and the handlers (bot_extension*.go, bot.go).        *)
(*                                                                         *)
(* Every update runs in a goroutine of its own, an operation here (op).  An    *)
(* administrator is its private chat.  A revision is the hash of a document's   *)
(* content, so equal revisions are equal contents.  What has expired is not     *)
(* found by the step that looks for it (every store operation prunes first);    *)
(* texts, pages and keyboards are left out; an entry of the store has the size  *)
(* of its use.                                                             *)
(***************************************************************************)
EXTENDS Integers, FiniteSets

CONSTANTS
  Owners, MaxOps,   \* administrators; bound: updates in a behavior
  Kinds,            \* the mutations that are previewed, of DOMAIN Mutation
  Menus,            \* the lists that are opened, of DOMAIN Menu
  Prompts,          \* the inputs that are asked for, of DOMAIN Prompt
  Contents,         \* contents of the two documents and of a remote
  MaxEvents,        \* bound: changes of a document, of the remote, of the administrators
  MaxTokens, MaxBytes, FetchSlots,
  Plans,            \* bound: what the updates of a behavior may be, one set of kinds per update
  None

Ops == 1..MaxOps
Docs == {"market", "modules"}

Selections == {"source", "entry", "module", "setting", "egress", "capture-dns"}
OfModule == {"module", "setting", "egress", "capture-dns"}

(* The lists and pages: the selection one is opened with, the selections it revokes     *)
(* and the ones its buttons are issued with.                                          *)
List(needs, clears, issues) == [needs |-> needs, clears |-> clears, issues |-> issues]

renderMarket == List(None, {"source", "entry"}, {"source"})
renderMarketplaceSource == List("source", {"entry"}, {"entry"})
entryCallback == List("entry", {}, {})
renderModules == List(None, OfModule, {"module"})
renderModule == List("module", {}, {})
settingsCallback == List("module", {"setting"}, {"setting"})
settingCallback == List("setting", {"setting"}, {"setting", "module"})
egressCallback == List("module", {"egress"}, {"egress"})
captureDNSCallback == List("module", {"capture-dns"}, {"capture-dns"})
renderMITM == List(None, {}, {})

Menu ==
  [market |-> renderMarket, source |-> renderMarketplaceSource, entry |-> entryCallback,
   modules |-> renderModules, module |-> renderModule, settings |-> settingsCallback,
   setting |-> settingCallback, egress |-> egressCallback, captureDNS |-> captureDNSCallback,
   mitm |-> renderMITM]

(* The previews: the selection one resolves, the documents whose revision its            *)
(* confirmation binds, the one it changes, and whether a candidate is fetched.          *)
Preview(selects, binds, changes, fetches) ==
  [selects |-> selects, binds |-> binds, changes |-> changes, fetches |-> fetches]
OfMarket(selects, fetches) == Preview(selects, {"market"}, "market", fetches)
OfModules(selects, fetches) == Preview(selects, {"modules"}, "modules", fetches)

previewMarketplaceAdd == OfMarket(None, TRUE)
previewMarketplaceRefresh == OfMarket("source", TRUE)
previewMarketplaceDelete == OfMarket("source", FALSE)
previewMarketplaceInstall == Preview("entry", Docs, "modules", TRUE)
previewImport == OfModules(None, TRUE)  \* the end of consumeBotExtensionImport
previewToggle == OfModules("module", FALSE)
previewDelete == OfModules("module", FALSE)
previewReorder == OfModules("module", FALSE)
previewUpdate == OfModules("module", TRUE)
previewSettingSelection == OfModules("setting", FALSE)
previewEgressSelection == OfModules("egress", FALSE)
previewCaptureDNSSelection == OfModules("capture-dns", FALSE)
mitmCallback == OfModules(None, FALSE)

Mutation ==
  [add |-> previewMarketplaceAdd, refresh |-> previewMarketplaceRefresh,
   delete |-> previewMarketplaceDelete, install |-> previewMarketplaceInstall,
   import |-> previewImport, enable |-> previewToggle, disable |-> previewToggle,
   uninstall |-> previewDelete, reorder |-> previewReorder, update |-> previewUpdate,
   setting |-> previewSettingSelection, egress |-> previewEgressSelection,
   captureDNS |-> previewCaptureDNSSelection, mitm |-> mitmCallback]

\* A URL or local import is confirmed as an install.
StoreKind(k) == IF k = "import" THEN "install" ELSE k

\* The first input of a conversation and the selection it starts from; the URL of a
\* source is followed by its name.
Prompt == [url |-> None, import |-> None, edit |-> "setting"]
Conversation == [url |-> "add", name |-> "add", import |-> "import", edit |-> "setting"]

(* What an update, an entry of the store and a removal are.                            *)
Doing == {"menu", "preview", "prompt", "confirm", "drop", "text", "reset", "ask", "run"}
Phases == Doing \cup {"check", "register", "recheck", "render", "work", "list", "slot", "fetch", "review",
                     "issue", "control", "finish", "apply", "commit", "sweep", "running", "done"}
Subjects == DOMAIN Mutation \cup DOMAIN Menu \cup DOMAIN Conversation \cup Selections \cup {None}

Payloads == [rev : [Docs -> Contents \cup {None}], cand : Contents \cup {None}]
Updates == [owner : Owners, do : Doing, kind : Subjects, tok : 0..MaxOps \cup {None}, gen : Nat,
            pc : Phases, dead : BOOLEAN, pay : Payloads, shown : Payloads, did : Payloads]
Inputs == [kind : DOMAIN Conversation, pay : Payloads]
Buttons == [use : {"select", "confirm"}, by : 0..MaxOps, kind : Subjects, owner : Owners, gen : Nat,
            shown : Payloads, pay : Payloads]
Removals == [todo : SUBSET Owners, sweep : Owners \cup {None}, cutoff : Nat]

ASSUME ExtAssumption ==
  /\ MaxOps \in Nat /\ MaxTokens \in Nat \ {0} /\ MaxBytes \in Nat \ {0} /\ FetchSlots \in Nat \ {0}
  /\ IsFiniteSet(Owners)
  /\ Kinds \subseteq DOMAIN Mutation /\ Menus \subseteq DOMAIN Menu /\ Prompts \subseteq DOMAIN Prompt
  /\ None \notin Updates \cup Inputs \cup Removals \cup Owners \cup 0..MaxOps

VARIABLES
  doc, remote, events,      \* the documents, what a fetch returns, events so far
  admins, replacing,        \* the bot's admins; a ReplaceAdmins under way
  tokens, inputs, used,     \* the store: tokens, inputs[owner], usedBytes
  gens, nextGen,            \* the generation of each owner; the last one allocated
  active,                   \* guard.active: the operation registered for an owner
  rendering, fetching,      \* holders of the render slot and of the fetch slots
  op,                       \* the updates
  sent,                     \* operations whose confirmation button was delivered
  nonces, running,          \* maintenance confirmations and the action in flight
  plan                      \* the element of Plans this behavior follows

extVars == <<doc, remote, events, admins, replacing, tokens, inputs, used, gens,
             nextGen, active, rendering, fetching, op, sent, nonces, running, plan>>
world == <<doc, remote>>
store == <<tokens, inputs, used, gens, nextGen>>
guard == <<active, rendering, fetching>>
gate == <<admins, replacing, events>>
maint == <<nonces, running, plan>>

NoPay == [rev |-> [d \in Docs |-> None], cand |-> None]
Seen(k) == [d \in Docs |-> IF d \in Mutation[k].binds THEN doc[d] ELSE None]
Unchanged(k, pay) == \A d \in Mutation[k].binds : doc[d] = pay.rev[d]

\* A confirmation holds twice the bytes of a selection or of an input.
SizeOf(ts) == Cardinality({t \in ts : t.use = "select"}) + 2 * Cardinality({t \in ts : t.use = "confirm"})

\* An update that passed adminGate, in a goroutine of its own.
NewOp(o, do, kind, tok) ==
  [owner |-> o, do |-> do, kind |-> kind, tok |-> tok, gen |-> 0,
   pc |-> IF do \in {"ask", "run"} THEN "reset" ELSE do,
   dead |-> FALSE, pay |-> NoPay, shown |-> NoPay, did |-> NoPay]

At(i, pc) == op[i] # None /\ op[i].pc = pc
Go(i, pc) == op' = [op EXCEPT ![i].pc = pc]
Current(i) == gens[op[i].owner] = op[i].gen
Closed(i) == [NewOp(op[i].owner, op[i].do, None, None) EXCEPT !.pc = "done", !.gen = op[i].gen]
Done(i) == op' = [op EXCEPT ![i] = Closed(i)]
Held(o, k) == {t \in tokens : t.use = "select" /\ t.owner = o /\ t.kind = k}

\* What is kept while the answer to a prompt is awaited.
InputFor(p) == [kind |-> p, pay |-> [rev |-> Seen(Conversation[p]), cand |-> None]]

\* A view that selections are issued from: of the modules, or of the marketplace.
View(selections) ==
  [rev |-> Seen(IF selections \subseteq OfModule THEN "import" ELSE "add"), cand |-> None]

\* A selection issued by update i (0: an earlier one) to administrator o.
Selection(i, s, o, view) ==
  [use |-> "select", by |-> i, kind |-> s, owner |-> o, gen |-> 0, shown |-> NoPay, pay |-> view]

ExtInit ==
  /\ doc \in [Docs -> Contents] /\ remote \in Contents /\ events = 0
  /\ admins = Owners /\ replacing = None
  \* a fresh bot, one that has shown a button, or one that waits for an answer
  /\ \E o \in Owners :
       \/ tokens = {} /\ inputs = [x \in Owners |-> None]
       \/ /\ \E k \in Kinds : Mutation[k].selects # None /\ tokens = {Selection(0, Mutation[k].selects, o, View({Mutation[k].selects}))}
          /\ inputs = [x \in Owners |-> None]
       \/ /\ tokens = {}
          /\ \E p \in Prompts \cup (IF "url" \in Prompts THEN {"name"} ELSE {}) :
               inputs = [x \in Owners |-> IF x = o THEN InputFor(p) ELSE None]
  /\ used = SizeOf(tokens) + Cardinality({o \in Owners : inputs[o] # None})
  /\ gens = [o \in Owners |-> 0] /\ nextGen = 0
  /\ active = [o \in Owners |-> None] /\ rendering = {} /\ fetching = {}
  /\ op = [i \in Ops |-> None] /\ sent = {}
  /\ nonces = {} /\ running = None /\ plan \in Plans

----------------------------------------------------------------------------
(* The store.                                                               *)

\* advanceGenerationLocked
Advance(o) == nextGen' = nextGen + 1 /\ gens' = [gens EXCEPT ![o] = nextGen + 1]

InputSize(o) == IF inputs[o] = None THEN 0 ELSE 1

\* The limits on the number of tokens and on the bytes of the store (issueToken).
Fits(kept, new) ==
  /\ Cardinality(kept \cup new) <= MaxTokens
  /\ used - SizeOf(tokens \ kept) + SizeOf(new) <= MaxBytes

\* Defect: a revoked token keeps its bytes.
SetTokensOnly(ts) == tokens' = ts /\ used' = used + SizeOf(ts \ tokens)

\* Deleting a token releases its bytes.
SetTokens(ts) == tokens' = ts /\ used' = used - SizeOf(tokens \ ts) + SizeOf(ts \ tokens)

\* BeginInput(ForOperation), of the operation's owner, when it is current and there is room.
PutInput(i, input) ==
  LET o == op[i].owner
      fits == used - InputSize(o) + 1 <= MaxBytes
  IN IF Current(i) /\ fits
     THEN /\ inputs' = [inputs EXCEPT ![o] = input]
          /\ used' = used - InputSize(o) + 1
          /\ UNCHANGED <<tokens, gens, nextGen>>
     ELSE UNCHANGED store

\* CancelOwnerWithGeneration: the new generation is the cutoff of the sweep.
CancelOwner(o) ==
  /\ Advance(o)
  /\ tokens' = {t \in tokens : t.owner # o}
  /\ used' = used - SizeOf({t \in tokens : t.owner = o}) - InputSize(o)
  /\ inputs' = [inputs EXCEPT ![o] = None]

\* cancelBotExtensionOperationThrough
Sweep(o, cutoff, ops) ==
  LET hit == active[o] # None /\ op[active[o]].gen <= cutoff
  IN /\ op' = IF hit THEN [ops EXCEPT ![active[o]].dead = TRUE] ELSE ops
     /\ active' = IF hit THEN [active EXCEPT ![o] = None] ELSE active

----------------------------------------------------------------------------
(* Operations: a callback, or a message that answers a prompt.              *)

\* The buttons an administrator can press, and the messages: a list's own are sent last.
SourceOf(o, s) ==
  IF s = None THEN {None} ELSE {t.by : t \in Held(o, s)} \ {j \in Ops : At(j, "list")}

Pressed(o) ==
  (UNION {{NewOp(o, "menu", m, t) : t \in SourceOf(o, Menu[m].needs)} : m \in Menus})
    \cup (UNION {{NewOp(o, "preview", k, t) : t \in SourceOf(o, Mutation[k].selects)} : k \in Kinds \ {"import"}})
    \cup (UNION {{NewOp(o, "prompt", p, t) : t \in SourceOf(o, Prompt[p])} : p \in Prompts})
    \cup {NewOp(o, do, None, j) : do \in {"confirm", "drop"}, j \in {j \in sent : op[j].owner = o}}
    \cup {NewOp(o, do, None, None) : do \in {"text", "reset", "ask"}}
    \cup {NewOp(o, "run", None, j) : j \in {j \in Ops : At(j, "done") /\ op[j].do = "ask" /\ op[j].owner = o}}

Arrive(i) ==
  /\ op[i] = None /\ \A j \in Ops : j < i => op[j] # None
  /\ \E o \in admins : \E new \in Pressed(o) :
       new.do \in plan[i] /\ op' = [op EXCEPT ![i] = new]
  /\ UNCHANGED <<world, gate, store, guard, sent, maint>>

\* BeginOperation drops a pending input; ClaimInput takes it.
Begin(i) ==
  LET o == op[i].owner IN
  /\ \E do \in {"menu", "preview", "prompt"} : At(i, do)
  /\ Advance(o)
  /\ inputs' = [inputs EXCEPT ![o] = None] /\ used' = used - InputSize(o)
  /\ op' = [op EXCEPT ![i].gen = nextGen + 1, ![i].pc = "check"]
  /\ UNCHANGED tokens

\* A command without a pending input resets the conversation; plain text does nothing.
Claim(i) ==
  LET o == op[i].owner IN
  /\ At(i, "text")
  /\ \/ (Go(i, "reset") \/ Done(i)) /\ UNCHANGED store
     \/ /\ inputs[o] # None /\ Advance(o)
        /\ op' = [op EXCEPT ![i].gen = nextGen + 1, ![i].pc = "check",
                            ![i].kind = inputs[o].kind, ![i].pay = inputs[o].pay]
        /\ inputs' = [inputs EXCEPT ![o] = None] /\ used' = used - 1
        /\ UNCHANGED tokens

\* startBotExtensionOperation: check, register under guard.mu, check again.
Check(i) ==
  /\ At(i, "check")
  /\ op' = IF Current(i) THEN [op EXCEPT ![i].pc = "register"]
           ELSE [op EXCEPT ![i].pc = "render", ![i].dead = TRUE]
  /\ UNCHANGED active

\* Defect: the operation before is not cancelled.
RegisterOver(i) ==
  /\ At(i, "register")
  /\ Go(i, "recheck") /\ active' = [active EXCEPT ![op[i].owner] = i]

Register(i) ==
  LET o == op[i].owner
      prev == active[o]
  IN
  /\ At(i, "register")
  /\ IF prev # None /\ op[prev].gen > op[i].gen
     THEN op' = [op EXCEPT ![i].pc = "render", ![i].dead = TRUE] /\ UNCHANGED active
     ELSE /\ op' = [j \in Ops |-> IF j = i THEN [op[i] EXCEPT !.pc = "recheck"]
                                  ELSE IF j = prev THEN [op[j] EXCEPT !.dead = TRUE] ELSE op[j]]
          /\ active' = [active EXCEPT ![o] = i]

Deregister(i) == active' = [o \in Owners |-> IF active[o] = i THEN None ELSE active[o]]

Recheck(i) ==
  /\ At(i, "recheck")
  /\ IF Current(i) THEN Go(i, "render") /\ UNCHANGED active
     ELSE op' = [op EXCEPT ![i].pc = "render", ![i].dead = TRUE] /\ Deregister(i)

\* acquireBotExtensionRender: with a slot free and the context done, either is taken.
Render(i) ==
  /\ At(i, "render")
  /\ \/ rendering = {} /\ rendering' = {i} /\ Go(i, "work")
     \/ op[i].dead /\ Go(i, "finish") /\ UNCHANGED rendering

\* The selection is there and its document unchanged (resolveBotExtension*).
Resolved(i, s) ==
  s = None \/ \E t \in Held(op[i].owner, s) :
                 t.by = op[i].tok /\ \A d \in Docs : t.pay.rev[d] # None => doc[d] = t.pay.rev[d]

\* A list reads its view first.
ShowMenu(i) ==
  /\ op[i].do = "menu"
  /\ \/ /\ Resolved(i, Menu[op[i].kind].needs)
        /\ op' = [op EXCEPT ![i].pc = "list", ![i].pay = View(Menu[op[i].kind].issues)]
     \/ Go(i, "finish")
  /\ UNCHANGED store

\* The selections that the list is still to revoke.
Left(i) == {t \in tokens : /\ t.use = "select" /\ t.owner = op[i].owner /\ t.by # i
                           /\ t.kind \in Menu[op[i].kind].clears}

\* CancelSelectionsByKindForOperation: each kind under a lock of its own.
CancelKind(i) ==
  /\ Current(i)
  /\ \E t \in Left(i) : SetTokens(tokens \ {u \in Left(i) : u.kind = t.kind})
  /\ UNCHANGED <<inputs, gens, nextGen, op>>

\* IssueSelectionForOperation: one selection of each kind stands for those of the page.
IssueSelection(i) ==
  LET o == op[i].owner IN
  /\ Current(i) /\ Left(i) = {}
  /\ \E s \in Menu[op[i].kind].issues :
       LET new == {Selection(i, s, o, op[i].pay)} IN
       /\ \A t \in Held(o, s) : t.by # i
       /\ Fits(tokens, new) /\ SetTokens(tokens \cup new)
  /\ UNCHANGED <<inputs, gens, nextGen, op>>

\* A list ends at the first step that is refused or fails, or with what the page shows,
\* which may be nothing.
ListStep(i) ==
  /\ At(i, "list")
  /\ \/ CancelKind(i) \/ IssueSelection(i)
     \/ (Current(i) => Left(i) = {}) /\ Go(i, "finish") /\ UNCHANGED store

AskInput(i) ==
  /\ op[i].do = "prompt"
  /\ Go(i, "finish")
  /\ IF Resolved(i, Prompt[op[i].kind])
     THEN PutInput(i, InputFor(op[i].kind))
     ELSE UNCHANGED store

\* The review shows, and the payload binds, the documents at the given revisions.
Prepare(i, k, rev) ==
  op' = [op EXCEPT ![i].kind = k, ![i].pay = [rev |-> rev, cand |-> None],
                   ![i].shown = [rev |-> rev, cand |-> None],
                   ![i].pc = IF Mutation[k].fetches THEN "slot" ELSE "review"]

StartPreview(i) ==
  LET k == op[i].kind IN
  /\ op[i].do = "preview"
  /\ (Resolved(i, Mutation[k].selects) /\ Prepare(i, k, Seen(k))) \/ Go(i, "finish")
  /\ UNCHANGED store

(* Answers to a prompt.                                                     *)
Answer(i) == [kind |-> op[i].kind, pay |-> op[i].pay]

\* An answer that is not valid is asked for again.
retryInput(i) == Go(i, "finish") /\ PutInput(i, Answer(i))

consumeMarketplaceURL(i) ==
  /\ op[i].kind = "url"
  /\ Go(i, "finish") /\ PutInput(i, [Answer(i) EXCEPT !.kind = "name"])

consumeMarketplaceName(i) ==
  /\ op[i].kind = "name"
  /\ (Unchanged("add", op[i].pay) /\ Prepare(i, "add", op[i].pay.rev)) \/ Go(i, "finish")
  /\ UNCHANGED store

\* The revision is compared by the manager, when it has the candidate.
consumeImport(i) ==
  /\ op[i].kind = "import" /\ Prepare(i, "import", op[i].pay.rev)
  /\ UNCHANGED store

consumeSettingInput(i) ==
  /\ op[i].kind = "edit"
  /\ (Unchanged("setting", op[i].pay) /\ Prepare(i, "setting", op[i].pay.rev)) \/ Go(i, "finish")
  /\ UNCHANGED store

TakeInput(i) ==
  /\ op[i].do = "text"
  /\ \/ retryInput(i) \/ consumeMarketplaceURL(i) \/ consumeMarketplaceName(i)
     \/ consumeImport(i) \/ consumeSettingInput(i)

Work(i) ==
  /\ At(i, "work")
  /\ ShowMenu(i) \/ AskInput(i) \/ StartPreview(i) \/ TakeInput(i)

\* acquireBotExtensionFetch
Slot(i) ==
  /\ At(i, "slot")
  /\ \/ Cardinality(fetching) < FetchSlots /\ fetching' = fetching \cup {i}
        /\ Go(i, IF op[i].do = "confirm" THEN "apply" ELSE "fetch")
     \/ op[i].dead /\ Go(i, IF op[i].do = "confirm" THEN "done" ELSE "finish") /\ UNCHANGED fetching

\* An update that turns out unchanged shows the list of modules again.
Fetch(i) ==
  LET k == op[i].kind IN
  /\ At(i, "fetch")
  /\ fetching' = fetching \ {i}
  /\ \/ /\ k = "add" \/ Unchanged(k, op[i].pay)
        /\ op' = [op EXCEPT ![i].pay.cand = remote, ![i].shown.cand = remote, ![i].pc = "review"]
     \/ /\ k = "update" /\ Unchanged(k, op[i].pay)
        /\ op' = [op EXCEPT ![i].do = "menu", ![i].kind = "modules", ![i].pc = "work"]
     \/ Go(i, "finish")

\* The complete review is delivered before anything can be confirmed.
Review(i) ==
  /\ At(i, "review")
  /\ (Current(i) /\ Go(i, "issue")) \/ Go(i, "finish")

\* IssueConfirmationForOperation: one confirmation per owner and kind.
Issue(i) ==
  LET o == op[i].owner
      k == StoreKind(op[i].kind)
      kept == tokens \ {t \in tokens : t.use = "confirm" /\ t.owner = o /\ StoreKind(t.kind) = k}
      new == {[use |-> "confirm", by |-> i, kind |-> op[i].kind, owner |-> o,
               gen |-> op[i].gen, pay |-> op[i].pay, shown |-> op[i].shown]}
  IN
  /\ At(i, "issue")
  /\ IF Current(i) /\ Fits(kept, new)
     THEN /\ SetTokens(kept \cup new)
          /\ Go(i, "control")
     ELSE Go(i, "finish") /\ UNCHANGED <<tokens, used>>
  /\ UNCHANGED <<inputs, gens, nextGen>>

Confirmation(j) == {t \in tokens : t.use = "confirm" /\ t.by = j}

Control(i) ==
  /\ At(i, "control")
  /\ \/ Current(i) /\ sent' = sent \cup {i} /\ UNCHANGED <<tokens, used>>
     \/ SetTokens(tokens \ Confirmation(i)) /\ UNCHANGED sent
  /\ Go(i, "finish") /\ UNCHANGED <<inputs, gens, nextGen>>

Finish(i) ==
  /\ At(i, "finish")
  /\ Done(i)
  /\ rendering' = rendering \ {i} /\ Deregister(i)

OperationStep(i) ==
  /\ \/ (Begin(i) \/ Claim(i)) /\ UNCHANGED <<guard, sent>>
     \/ (Check(i) \/ Register(i) \/ Recheck(i)) /\ UNCHANGED <<store, rendering, fetching, sent>>
     \/ (Render(i) /\ UNCHANGED <<store, active, fetching, sent>>)
     \/ (Work(i) \/ ListStep(i)) /\ UNCHANGED <<guard, sent>>
     \/ (Slot(i) \/ Fetch(i)) /\ UNCHANGED <<store, active, rendering, sent>>
     \/ Review(i) /\ UNCHANGED <<store, guard, sent>>
     \/ Issue(i) /\ UNCHANGED <<guard, sent>>
     \/ Control(i) /\ UNCHANGED guard
     \/ Finish(i) /\ UNCHANGED <<store, fetching, sent>>
  /\ UNCHANGED <<world, gate, maint>>

----------------------------------------------------------------------------
(* Confirming, cancelling, maintenance.                                     *)

\* Defect: the generation of the token is not compared.
ConsumeAnyGeneration(i) ==
  LET found == {t \in Confirmation(op[i].tok) : t.owner = op[i].owner} IN
  /\ At(i, "confirm")
  /\ \/ Done(i) /\ UNCHANGED store
     \/ \E t \in found :
          /\ SetTokens(tokens \ {t})
          /\ op' = [op EXCEPT ![i].kind = t.kind, ![i].pay = t.pay, ![i].shown = t.shown,
                              ![i].pc = IF Mutation[t.kind].fetches THEN "slot" ELSE "apply"]
          /\ UNCHANGED <<inputs, gens, nextGen>>
  /\ UNCHANGED <<doc, fetching>>

\* ConsumeConfirmation: a token of another generation is left to expire.
Consume(i) ==
  LET found == {t \in Confirmation(op[i].tok) : t.owner = op[i].owner /\ gens[t.owner] = t.gen} IN
  /\ At(i, "confirm")
  /\ \/ Done(i) /\ UNCHANGED store
     \/ \E t \in found :
          /\ SetTokens(tokens \ {t})
          /\ op' = [op EXCEPT ![i].kind = t.kind, ![i].pay = t.pay, ![i].shown = t.shown,
                              ![i].pc = IF Mutation[t.kind].fetches THEN "slot" ELSE "apply"]
          /\ UNCHANGED <<inputs, gens, nextGen>>
  /\ UNCHANGED <<doc, fetching>>

Unfetch(i) == fetching' = fetching \ {i}

\* Defect: whatever is fetched is applied.
AnyCandidate(i) == remote \in Contents

\* What is fetched again has the digest of the reviewed candidate (applyInstall).
AsReviewed(i) == remote = op[i].pay.cand

\* The view is the reviewed one.
Apply(i) ==
  LET fetches == Mutation[op[i].kind].fetches IN
  /\ At(i, "apply")
  /\ \/ /\ Unchanged(op[i].kind, op[i].pay)
        /\ fetches => AsReviewed(i)
        /\ op' = [op EXCEPT ![i].pc = "commit", ![i].did.cand = IF fetches THEN remote ELSE None]
        /\ UNCHANGED fetching
     \/ Done(i) /\ Unfetch(i)
  /\ UNCHANGED <<store, doc>>

\* The compare-and-swap of the manager.
Commit(i) ==
  LET d == Mutation[op[i].kind].changes IN
  /\ At(i, "commit")
  /\ \/ /\ Unchanged(op[i].kind, op[i].pay)
        /\ \E c \in Contents \ {doc[d]} : doc' = [doc EXCEPT ![d] = c]
        /\ op' = [op EXCEPT ![i] = [Closed(i) EXCEPT !.shown = op[i].shown,
                                      !.did = [rev |-> Seen(op[i].kind), cand |-> op[i].did.cand]]]
     \/ Done(i) /\ UNCHANGED doc
  /\ Unfetch(i) /\ UNCHANGED store

ConfirmStep(i) ==
  /\ Consume(i) \/ Apply(i) \/ Commit(i)
  /\ UNCHANGED <<remote, gate, active, rendering, sent, maint>>

Drop(i) ==
  /\ At(i, "drop") /\ Done(i)
  /\ SetTokens({t \in tokens : ~(t \in Confirmation(op[i].tok) /\ t.owner = op[i].owner)})
  /\ UNCHANGED <<inputs, gens, nextGen, active, maint>>

\* /cancel, a command without pending input, and every callback outside extensions.
Reset(i) ==
  /\ At(i, "reset") /\ CancelOwner(op[i].owner)
  /\ op' = [op EXCEPT ![i].gen = nextGen + 1, ![i].pc = "sweep"]
  /\ UNCHANGED <<active, maint>>

SweepReset(i) ==
  /\ At(i, "sweep")
  /\ Sweep(op[i].owner, op[i].gen,
           IF op[i].do \in {"ask", "run"} THEN [op EXCEPT ![i].pc = op[i].do] ELSE [op EXCEPT ![i] = Closed(i)])
  /\ UNCHANGED <<store, maint>>

\* botActionGuard.Issue: one confirmation per administrator and action.
Ask(i) ==
  /\ At(i, "ask") /\ Done(i)
  /\ nonces' = {n \in nonces : n.owner # op[i].owner} \cup {[by |-> i, owner |-> op[i].owner]}
  /\ UNCHANGED <<store, active, running, plan>>

\* executeConfirmedAction: consume, then at most one at a time.
Run(i) ==
  /\ \/ /\ At(i, "run")
        /\ LET n == [by |-> op[i].tok, owner |-> op[i].owner] IN
           /\ nonces' = nonces \ {n}
           /\ IF n \in nonces /\ running = None
              THEN running' = i /\ Go(i, "running")
              ELSE Done(i) /\ UNCHANGED running
     \/ At(i, "running") /\ Done(i) /\ running' = None /\ UNCHANGED nonces
  /\ UNCHANGED <<store, active, plan>>

OtherStep(i) ==
  /\ Drop(i) \/ Reset(i) \/ SweepReset(i) \/ Ask(i) \/ Run(i)
  /\ UNCHANGED <<world, gate, rendering, fetching, sent>>

----------------------------------------------------------------------------
(* ReplaceAdmins, time, and the rest of the system.                         *)

\* Defect: the maintenance confirmations of a removed administrator stay.
RevokeNothing(o) == o \in Owners /\ UNCHANGED nonces

\* botActionGuard.RevokeAdmin
RevokeAdmin(o) == nonces' = {n \in nonces : n.owner # o}

ReplaceAdmins ==
  /\ \/ /\ replacing = None /\ events < MaxEvents
        /\ \E next \in SUBSET Owners \ {admins} :
             /\ admins' = next
             /\ replacing' = IF admins \subseteq next THEN None ELSE [todo |-> admins \ next, sweep |-> None, cutoff |-> 0]
        /\ events' = events + 1
        /\ UNCHANGED <<store, nonces, op, active>>
     \/ /\ replacing # None
        /\ \/ /\ replacing.sweep = None
              /\ \E o \in replacing.todo :
                   /\ RevokeAdmin(o)
                   /\ CancelOwner(o)
                   /\ replacing' = [replacing EXCEPT !.sweep = o, !.cutoff = nextGen + 1]
              /\ UNCHANGED <<op, active>>
           \/ /\ replacing.sweep # None
              /\ Sweep(replacing.sweep, replacing.cutoff, op)
              /\ LET left == replacing.todo \ {replacing.sweep} IN
                 replacing' = IF left = {} THEN None ELSE [todo |-> left, sweep |-> None, cutoff |-> 0]
              /\ UNCHANGED <<store, nonces>>
        /\ UNCHANGED <<admins, events>>
  /\ UNCHANGED <<world, rendering, fetching, sent, running, plan>>

\* The two minutes of an operation or of an application are over; it is the waits for a
\* slot that depend on it, everything else may fail anyway.
Timeout(i) ==
  /\ op[i] # None /\ ~op[i].dead
  /\ op[i].pc \in {"render", "slot"}
  /\ op' = [op EXCEPT ![i].dead = TRUE]
  /\ UNCHANGED <<world, gate, store, guard, sent, maint>>

Elsewhere ==
  /\ events < MaxEvents /\ events' = events + 1
  /\ \/ \E d \in Docs, c \in Contents : c # doc[d] /\ doc' = [doc EXCEPT ![d] = c] /\ UNCHANGED remote
     \/ \E c \in Contents \ {remote} : remote' = c /\ UNCHANGED doc
  /\ UNCHANGED <<admins, replacing, store, guard, op, sent, maint>>

ExtNext ==
  \/ \E i \in Ops : Arrive(i)
  \/ \E i \in Ops : OperationStep(i) \/ ConfirmStep(i) \/ OtherStep(i) \/ Timeout(i)
  \/ ReplaceAdmins
  \/ Elsewhere

ExtSpec == ExtInit /\ [][ExtNext]_extVars
----------------------------------------------------------------------------
(* Properties.                                                              *)

Consumes(i) == At(i, "confirm") /\ op'[i].pc \in {"slot", "apply"}
Live(i) == ~op[i].dead /\ \E pc \in {"render", "work", "list", "slot", "fetch", "review", "issue", "control"} :
                             At(i, pc) /\ op[i].do # "confirm"

ExtTypeOK ==
  /\ doc \in [Docs -> Contents] /\ remote \in Contents
  /\ admins \subseteq Owners /\ replacing \in Removals \cup {None}
  /\ tokens \subseteq Buttons /\ inputs \in [Owners -> Inputs \cup {None}]
  /\ op \in [Ops -> Updates \cup {None}]
  /\ active \in [Owners -> Ops \cup {None}]
  /\ nextGen \in Nat /\ gens \in [Owners -> Nat] /\ \A o \in Owners : gens[o] <= nextGen
  /\ rendering \subseteq Ops /\ fetching \subseteq Ops /\ sent \subseteq Ops

\* A mutation is applied to exactly the documents, and with exactly the candidate, that
\* the review shown to the administrator described, whatever changed in between.
ConfirmedAsReviewed ==
  \A i \in Ops : op[i] # None => op[i].did.rev = NoPay.rev \/ op[i].did = op[i].shown

\* Once the administrator has begun, cancelled or reset anything later, an earlier
\* confirmation has no effect.
NewestConfirms ==
  [][\A i \in Ops : Consumes(i) =>
       \A k \in Ops : op[k] # None /\ op[k].owner = op[i].owner => op[k].gen <= op[op[i].tok].gen]_extVars

\* No preview is out of reach of the next operation or cancellation: it is the one
\* registered, and when it is no longer current its canceller is on the way.
CancelReaches ==
  \A i \in Ops : op[i] # None /\ Live(i) =>
    LET o == op[i].owner IN
    /\ active[o] = i
    /\ \/ Current(i)
       \/ replacing # None /\ replacing.sweep = o
       \/ \E k \in Ops : /\ op[k] # None /\ op[k].owner = o /\ op[k].gen > op[i].gen
                         /\ op[k].pc \in {"check", "register", "sweep"}

\* An administrator whose removal has been carried out confirms nothing more, even with
\* a button pressed before the removal.
RevokedPowerless ==
  [][\A i \in Ops : Consumes(i) \/ (At(i, "run") /\ op'[i].pc = "running") =>
       \/ op[i].owner \in admins
       \/ replacing # None /\ op[i].owner \in replacing.todo]_extVars

\* What updates take they give back, whatever becomes of them: the byte account is exact
\* and within its limits, and a slot is held by an update that is still at work.
WithinBudget ==
  /\ used = SizeOf(tokens) + Cardinality({o \in Owners : inputs[o] # None})
  /\ used <= MaxBytes /\ Cardinality(tokens) <= MaxTokens
  /\ \A i \in rendering \cup fetching \cup {active[o] : o \in {x \in Owners : active[x] # None}} :
       ~At(i, "done")

=============================================================================
