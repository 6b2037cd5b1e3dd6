SPECIFICATION FairSpec
CONSTANTS
  j1 = j1
  NoJob = NoJob
  Jobs = {j1}
  Recipients = {1, 2}
  Prior <- FirstStep
  HasRunCap = {j1}
  SmtpCap = 1
  CampaignMails = 1
  Week = 2
  OpenDays = {0}
  MaxRequests = 2
  MaxFaults = 1
INVARIANTS TypeOK LimitExceededByOne
PROPERTIES FollowUpsHold JobSettles
