----------------------------- MODULE MCConsole -----------------------------
(* What administrators reach: the bot's life cycle, its conversations, and the    *)
(* catalogs of the marketplace.  The three hold no state in common, so a          *)
(* behavior moves the part in focus and the others rest in an initial state.     *)
EXTENDS BotSupervisor, BotExtensions, Marketplace

CONSTANTS c1, c2, someAdmins

VARIABLE focus

\* What the administrators send, one set of possibilities per update.
Quiet == <<{}, {}, {}>>
MCPlans ==
  {<<{"preview"}, {"preview", "menu", "prompt", "reset"}, {"confirm", "drop"}>>,
   <<{"preview"}, {"confirm"}, {"confirm", "reset"}>>,
   <<{"text", "prompt"}, {"text", "menu"}, {"confirm"}>>,
   <<{"ask"}, {"ask", "run"}, {"run"}>>,
   Quiet}

MCIndexes == {[id |-> "i", final |-> "u", lists |-> "m"], [id |-> "i", final |-> "v", lists |-> "n"],
              [id |-> "j", final |-> "v", lists |-> "m"]}
MCAskPlans ==
  {<<{"previewAdd", "previewRefresh", "previewInstall"}, {"confirm"}, {"delete", "refresh"}>>,
   <<{"install"}, {"refresh", "delete"}, {"add"}>>,
   <<{"add"}, {"add", "refresh"}, {"install"}>>}

MCRestingPlan == CHOOSE p \in MCAskPlans : TRUE

Rests(part, still) == focus # part => still

SvInit ==
  /\ focus \in {"lifecycle", "conversation", "market"}
  /\ SupInit /\ cfg.admins = someAdmins /\ Rests("lifecycle", cfg.token = Nil /\ updatable)
  /\ doc = [d \in Docs |-> c1] /\ remote = c1 /\ ExtInit
  /\ IF focus = "conversation" THEN plan # Quiet
     ELSE plan = Quiet /\ tokens = {} /\ \A o \in Owners : inputs[o] = None
  /\ MkInit /\ market \subseteq {Configured("u", [id |-> "i", final |-> "u", lists |-> "m"])}
  /\ catalog["u"].id = "i" /\ catalog["u"].lists = "m" /\ served = "m"
  /\ Rests("market", /\ market = {} /\ mkPlan = MCRestingPlan
                      /\ \A x \in Urls : catalog[x] = [catalog["u"] EXCEPT !.final = "u"])

SvNext ==
  /\ \/ focus = "lifecycle" /\ SupNext /\ UNCHANGED <<extVars, mkVars>>
     \/ focus = "conversation" /\ ExtNext /\ UNCHANGED <<supVars, mkVars>>
     \/ focus = "market" /\ MkNext /\ UNCHANGED <<supVars, extVars>>
  /\ UNCHANGED focus

svVars == <<focus, supVars, extVars, mkVars>>

\* The fairness of the life cycle and of the marketplace: what is under way goes on.
SvWork ==
  \/ focus = "lifecycle" /\ (SupStart \/ Working) /\ UNCHANGED <<focus, extVars, mkVars>>
  \/ focus = "market" /\ MkWorking /\ UNCHANGED <<focus, supVars, extVars>>

SvSpec == SvInit /\ [][SvNext]_svVars /\ WF_svVars(SvWork)

\* The types of the three parts, and the budgets of the conversations
\* (bot_extension_state.go:299-340).
WithinLimits == SupTypeOK /\ ExtTypeOK /\ MkTypeOK /\ WithinBudget

\* Requests to change the bot, and to the marketplace, return and give back their locks
\* (botsupervisor.go:118-176, extension_marketplace.go:381-700).
ConsoleSettles == AppliesSettle /\ MarketSettles
=============================================================================
