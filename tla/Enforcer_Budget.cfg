SPECIFICATION Spec
CONSTANTS
  c1 = c1
  c2 = c2
  g1 = g1
  g2 = g2
  w1 = w1
  w2 = w2
  Nil = Nil
  Kind = "fd"
  MaxLeaks = 0
  Worker = {w1}
  CPU = {c1}
  Cgroup = {g1}
  Limits = {4}
  MaxLimit = 4
  MaxOpen = 4
  Modulus = 8
  Slices = 4
  SmallLimit = 3
  MinStep = 1
  MaxStep = 4
  RingSize = 1
  Resyncs = TRUE
  Removes = FALSE
  Evicts = FALSE
  Crashes = FALSE
INVARIANT BreachOnlyAtLimit
