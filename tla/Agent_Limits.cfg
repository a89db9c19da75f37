SPECIFICATION SyncSpec
CONSTANTS
  Nil = Nil
  n1 = n1
  n2 = n2
  Node = {n1}
  Thread <- BothControllers
  DefaultBatch = 1000
  NameMatches = TRUE
  StatusSubresource = TRUE
  FdLimits = {Nil, 1}
  ProcLimits = {Nil}
  Batches = {0}
  Admin = {"edit", "delete"}
  MayCrash = {}
PROPERTY ImplementsPool AvailablePublished LimitsInstalled LimitsRemovedAlone
