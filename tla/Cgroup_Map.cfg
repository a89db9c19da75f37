SPECIFICATION FairSpec
CONSTANTS
  a = a
  b = b
  p1 = p1
  p2 = p2
  c = c
  Nil = Nil
  Namespace = {a, b}
  Pod = {p1, p2}
  Containers <- PodContainers
  NsOf <- PodNamespace
  Specs <- BothKinds
  MayEvict <- ContainerEvicted
  MayStay <- PodStays
  MayFail = TRUE
  MayCrash = TRUE
  Resident = {p2}
  Phases = {"active"}
INVARIANT TypeOK MappedToOwner Killable
PROPERTY CgroupsMapped
