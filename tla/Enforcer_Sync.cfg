SPECIFICATION Spec
CONSTANTS
  c1 = c1
  c2 = c2
  g1 = g1
  g2 = g2
  w1 = w1
  w2 = w2
  Nil = Nil
  Kind = "fd"
  MaxLeaks = 1
  Worker = {w1, w2}
  CPU = {c1}
  Cgroup = {g1}
  Limits = {1}
  MaxLimit = 1
  MaxOpen = 2
  Modulus = 3
  Slices = 10
  SmallLimit = 0
  MinStep = 10
  MaxStep = 100
  RingSize = 0
  Resyncs = TRUE
  Removes = TRUE
  Evicts = TRUE
  Crashes = FALSE
SYMMETRY Symmetry
INVARIANT BreachOnlyAtLimit
