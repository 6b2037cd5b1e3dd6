SPECIFICATION MCSpec
CONSTANTS
  c1 = c1
  c2 = c2
  r1 = r1
  r2 = r2
  r3 = r3
  a1 = a1
  a2 = a2
  h1 = h1
  h2 = h2
  NoRow = NoRow
  NoCampaign = NoCampaign
  Campaigns = {c1, c2}
  Recipients = {r1, r2, r3}
  Accounts = {a1, a2}
  CampaignOf <- TwoAndOne
  AddressOf <- OwnAddress
  SmtpList <- BothAccounts
  SmtpCap <- AccountCap
  CampaignCap <- CampaignLimit
  SendDays <- EveryDay
  HasWindow <- NoWindow
  AutoPause <- NoAutoPause
  Week = 1
  DbFaults = FALSE
  EditChoices = {}
  Reportable = {}
  Scheduled = {c2}
  MaxRequests = 1
  MaxCrashes = 0
  Handlers = {h1, h2}
  Businesses <- MCBusinesses
  Redirects = {"d2"}
  NoKey = NoKey
  MaxCompanies = 3
  MaxTasks = 2
  MaxOutside = 3
  Actors = {h1, h2}
  Leads = {l1, l2}
  MaxPipelines = 3
  MaxStages = 4
  MaxRules = 2
  MaxAsked = 2
INVARIANTS AccountOvershootBounded CompaniesTypeOK MergesKeepLeads BoardTypeOK BoardInOrder
PROPERTIES  ErasedStaysErased
SYMMETRY Symmetry
CHECK_DEADLOCK FALSE
