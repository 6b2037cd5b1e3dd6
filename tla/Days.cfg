SPECIFICATION SlowSpec
CONSTANTS
  c1 = c1
  r1 = r1
  a1 = a1
  NoRow = NoRow
  NoCampaign = NoCampaign
  Campaigns = {c1}
  Recipients = {r1}
  Accounts = {a1}
  CampaignOf <- OneRow
  AddressOf <- OneAddress
  SmtpList <- OneAccount
  SmtpCap <- AccountCap
  CampaignCap <- CampaignLimit
  SendDays <- EveryDay
  HasWindow <- WithWindow
  AutoPause <- NoAutoPause
  Week = 1
  DbFaults = FALSE
  EditChoices = {}
  Reportable = {}
  Scheduled = {}
  MaxRequests = 2
  MaxCrashes = 0
PROPERTIES SchedulePauseEnds
