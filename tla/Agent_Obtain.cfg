SPECIFICATION GrantSpec
CONSTANTS
  Nil = Nil
  n1 = n1
  n2 = n2
  Node = {n1, n2}
  Thread <- Controllers
  DefaultBatch = 1000
  NameMatches = TRUE
  StatusSubresource = TRUE
  FdLimits = {3}
  ProcLimits = {Nil}
  Batches = {2}
  Admin = {}
  MayCrash = {}
INVARIANT LedgerWithinSpec NodeWithinQuota
PROPERTY LeaseObtained
