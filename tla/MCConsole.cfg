SPECIFICATION SvSpec
CONSTANTS
  MaxApplies = 2
  Tokens = {b0}
  Keep = Keep
  AdminSets = {someAdmins, otherAdmins}
  someAdmins = someAdmins
  Bots = {b1, b2}
  MaxFails = 1
  Nil = Nil
  None = None
  Owners = {o1}
  MaxOps = 3
  Kinds = {"add", "install", "setting", "update"}
  Menus = {"modules", "settings", "setting"}
  Prompts = {"url", "import", "edit"}
  c1 = c1
  c2 = c2
  Contents = {c1, c2}
  MaxEvents = 1
  MaxTokens = 3
  MaxBytes = 4
  FetchSlots = 1
  Plans <- MCPlans
  Urls = {"u", "v"}
  Indexes <- MCIndexes
  Manifests = {"m", "n"}
  MaxAsks = 3
  AskPlans <- MCAskPlans
  MaxSources = 2
  MaxRemote = 1
  Absent = Absent
INVARIANTS
  WithinLimits
  ServesCommitted LastRequestWins OneBot StatusHonest
  CancelReaches ConfirmedAsReviewed
PROPERTIES
  NewestConfirms RevokedPowerless CommittedAsSeen InstalledAsListed ConsoleSettles
CHECK_DEADLOCK FALSE
