SPECIFICATION Spec
CONSTANTS
  v1 = v1
  v2 = v2
  v3 = v3
  v4 = v4
  i1 = i1
  NoId = NoId
  Ids = {v1, v2, v3, v4, i1}
  Kind <- MCKind
  Services = {"compute", "volume.volume"}
  ServiceOf <- MCServiceOf
  Limits = {0, 1, 2}
  MaxCost = 2
  MaxChanges = 2
  MaxFaults = 1
INVARIANTS TypeOK PageIsSlice NothingPassedOver SummaryAddsUp ReportIsWhole
PROPERTY NothingShownTwice
SYMMETRY Symmetry
