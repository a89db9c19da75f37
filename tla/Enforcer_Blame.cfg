SPECIFICATION Spec
CONSTANTS
  c1 = c1
  c2 = c2
  g1 = g1
  g2 = g2
  w1 = w1
  w2 = w2
  Nil = Nil
  Kind = "fd"
  MaxLeaks = 0
  Worker = {w1}
  CPU = {c1}
  Cgroup = {g1, g2}
  Limits = {1}
  MaxLimit = 1
  MaxOpen = 3
  Modulus = 8
  Slices = 10
  SmallLimit = 100
  MinStep = 10
  MaxStep = 100
  RingSize = 1
  Resyncs = FALSE
  Removes = FALSE
  Evicts = FALSE
  Crashes = FALSE
INVARIANT BlamesTheAbuser
