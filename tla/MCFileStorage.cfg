\* All nine policies over two paths, with one crash and one file that cannot be
\* opened.
SPECIFICATION Spec
CONSTANTS
  k1 = k1
  k2 = k2
  v1 = v1
  v2 = v2
  Keys <- TwoKeys
  Values <- TwoValues
  ReadPolicies <- AllRead
  WritePolicies <- AllWrite
  MaxValues = 2
  MaxCrashes = 1
  MaxFailures = 1
SYMMETRY Symmetry
INVARIANTS
  DefaultKeepsWrites
  Durable
CHECK_DEADLOCK FALSE
