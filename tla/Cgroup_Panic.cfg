SPECIFICATION Spec
CONSTANTS
  a = a
  b = b
  p1 = p1
  p2 = p2
  c = c
  Nil = Nil
  Namespace = {a, b}
  Pod = {p1, p2}
  Containers <- PodContainers
  NsOf <- PodNamespace
  Specs <- AnyKinds
  MayEvict = {}
  MayStay = {}
  MayFail = FALSE
  MayCrash = FALSE
  Resident = {p2}
  Phases = {"active"}
INVARIANT ScannerSurvives
