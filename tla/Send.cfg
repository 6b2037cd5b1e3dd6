SPECIFICATION Spec
CONSTANTS
  c1 = c1
  r1 = r1
  r2 = r2
  a1 = a1
  NoRow = NoRow
  NoCampaign = NoCampaign
  Campaigns = {c1}
  Recipients = {r1, r2}
  Accounts = {a1}
  CampaignOf <- SameCampaign
  AddressOf <- SameAddress
  SmtpList <- OneAccount
  SmtpCap <- AccountCap
  CampaignCap <- CampaignLimit
  SendDays <- EveryDay
  HasWindow <- NoWindow
  AutoPause <- NoAutoPause
  Week = 1
  DbFaults = TRUE
  EditChoices = {"keep"}
  Reportable = {r1, r2}
  Scheduled = {}
  MaxRequests = 4
  MaxCrashes = 1
INVARIANTS TypeOK AtMostOneMail AtMostOneMailPerAddress SendingHasOwner CompletedLeavesNothingInHand
PROPERTIES DeliveryHolds
SYMMETRY Symmetry
