SPECIFICATION FairSpec
CONSTANTS
  Nil = Nil
  n1 = n1
  n2 = n2
  Node = {n1}
  Thread <- BothControllers
  DefaultBatch = 1000
  NameMatches = TRUE
  StatusSubresource = TRUE
  FdLimits = {2}
  ProcLimits = {Nil}
  Batches = {1}
  Admin = {"delete"}
  MayCrash = {}
PROPERTY LimitsRemoved
