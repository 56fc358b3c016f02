SPECIFICATION FairSpec
CONSTANTS
  w1 = w1
  w2 = w2
  p1 = p1
  Free = Free
  NoJob = NoJob
  Processors <- TwoProcessors
  Projects <- OneProject
  Listings <- Always
  Rank <- AnyOrder
  Unpayable <- None
  Debtors <- OneProject
  Services <- None
  Historical = TRUE
  AllowOwe = TRUE
  LocksExpire = TRUE
  Price <- Prices
  DayPrice <- DayPrices
  MaxHour = 6
  MaxFaults = 2
INVARIANTS NoPeriodSkipped BilledInFull
PROPERTIES ImplementsMetering RatedPeriodsAreBilled
