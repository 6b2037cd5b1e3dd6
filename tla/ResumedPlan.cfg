SPECIFICATION Spec
CONSTANTS
  Stores = {"memory", "redis"}
  Plans <- MCPlans
  Confirms = {c1, c2}
  Cancels = {x1}
  Chat = chat
  MaxAttempts = 2
  MaxFaults = 2
  Turns = {t1, t2}
  Old = old
  Campaigns = {n1}
  NoCampaign = none
  MaxTrouble = 1
INVARIANTS EachRiskIsAskedFor
CHECK_DEADLOCK FALSE
