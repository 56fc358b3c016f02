SPECIFICATION Spec
CONSTANTS
  w1 = w1
  w2 = w2
  p1 = p1
  Free = Free
  NoJob = NoJob
  Processors <- TwoProcessors
  Projects <- OneProject
  Listings <- Sometimes
  Rank <- AnyOrder
  Unpayable <- OneProject
  Debtors <- OneProject
  Services <- TwoServices
  Historical = FALSE
  AllowOwe = TRUE
  LocksExpire = FALSE
  Price <- Prices
  DayPrice <- DayPrices
  MaxHour = 4
  MaxFaults = 2
INVARIANTS TypeOK NoPeriodSkipped BilledOnce BilledInFull
PROPERTY ImplementsMetering
