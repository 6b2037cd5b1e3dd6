SPECIFICATION Spec
CONSTANTS
  Tabs = {a1, a2}
  NoToken = NoToken
  MaxTokens = 3
  MaxLosses = 1
  Browsers = {TRUE, FALSE}
  Checkouts = {a1, a2}
  Hooks = {a1, a2}
  NoCheckout = none
  MaxEvents = 3
  MaxRepeats = 1
  MaxBreaks = 1
  Mails = {m1}
  Hooked = {m1}
  Labels = {"wanted", "away", "gone"}
  MaxRows = 2
  MaxFaults = 1
  MaxHands = 1
  Pipeline <- MCPipeline
  RuleBook <- MCRuleBook
  CrmWorkers = {a1, a2}
  MaxMoves = 2
  PerLead = 2
  MaxPlanned = 3
  MaxNews = 2
  MaxMishaps = 1
INVARIANTS
  TypeOK LoginsHold EventsCount
  ContactFollowsReplies MailsWithinLimits
SYMMETRY Symmetry
CHECK_DEADLOCK FALSE
