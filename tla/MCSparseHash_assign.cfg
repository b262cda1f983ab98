SPECIFICATION AssignSpec
CONSTANTS
  k1 = k1
  k2 = k2
  k3 = k3
  a = a
  b = b
  None = None
  Keys = {k1, k2, k3}
  Values = {a, b}
  Hashes <- HashesMC
  Requests = {0, 3}
  Calls = {"find", "index", "insert", "erase", "clear", "resize", "squash", "copy"}
  GroupSize = 8
  HT_MIN_BUCKETS = 4
  HT_DEFAULT_STARTING_BUCKETS = 4
  MaxDoublings = 2
INVARIANT AssertionsHold
