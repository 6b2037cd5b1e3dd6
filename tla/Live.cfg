SPECIFICATION FairSpec
CONSTANTS
  c1 = c1
  r1 = r1
  r2 = r2
  a1 = a1
  NoRow = NoRow
  NoCampaign = NoCampaign
  Campaigns = {c1}
  Recipients = {r1, r2}
  Accounts = {a1}
  CampaignOf <- TwoRows
  AddressOf <- OwnAddress
  SmtpList <- OneAccount
  SmtpCap <- AccountCap
  CampaignCap <- CampaignLimit
  SendDays <- EveryDay
  HasWindow <- NoWindow
  AutoPause <- NoAutoPause
  Week = 1
  DbFaults = FALSE
  EditChoices = {}
  Reportable = {}
  Scheduled = {}
  MaxRequests = 2
  MaxCrashes = 0
PROPERTIES RowsSettle
