SPECIFICATION Spec
CONSTANTS
  Nil = Nil
  n1 = n1
  n2 = n2
  Node = {n1, n2}
  Thread <- Controllers
  DefaultBatch = 1000
  NameMatches = TRUE
  StatusSubresource = TRUE
  FdLimits = {1}
  ProcLimits = {Nil}
  Batches = {1}
  Admin = {}
  MayCrash = {}
INVARIANT GlobalQuotaShared
