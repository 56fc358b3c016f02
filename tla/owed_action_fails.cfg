SPECIFICATION Spec
CONSTANTS
  w1 = w1
  w2 = w2
  p1 = p1
  Free = Free
  NoJob = NoJob
  Processors <- TwoProcessors
  Projects <- OneProject
  Listings <- Always
  Rank <- AnyOrder
  Unpayable <- None
  Debtors <- OneProject
  Services <- TwoServices
  Historical = FALSE
  AllowOwe = TRUE
  LocksExpire = FALSE
  Price <- Prices
  DayPrice <- DayPrices
  MaxHour = 3
  MaxFaults = 0
PROPERTY OwedActionReturns
