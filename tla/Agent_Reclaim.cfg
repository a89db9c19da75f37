SPECIFICATION ReclaimSpec
CONSTANTS
  Nil = Nil
  n1 = n1
  n2 = n2
  Node = {n1, n2}
  Thread <- HolderAndRenewer
  DefaultBatch = 1000
  NameMatches = TRUE
  StatusSubresource = TRUE
  FdLimits = {1}
  ProcLimits = {1}
  Batches = {0}
  Admin = {}
  MayCrash = {n2}
INVARIANT TypeOK
PROPERTY ImplementsManager ImplementsPool CreditsReturn HoldersKeep
