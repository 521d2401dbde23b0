\* Two workers on one page; both limits of a lookup are met.
SPECIFICATION Spec
CONSTANTS
  u1 = u1  h1 = h1  f1 = f1  f2 = f2  w1 = w1  w2 = w2  p1 = p1  p2 = p2  p3 = p3
  Urls = {u1}
  Hosts = {h1}
  HostOf <- OneHost
  Fields = {f1, f2}
  Requests <- OneOfTwo
  MadeTypes = {"CSS"}
  Workers = {w1, w2}
  Parsers = {p1, p2, p3}
  NoParser = NoParser
  MaxVersion = 1
  Threshold = 1
  Confidence <- Confidences
  MaxConfidence = 3
  QueryLimit = 2
  Limit = 1
  Faults = {}
SYMMETRY CacheSymmetry
INVARIANTS TypeOK ActiveIsSelectable MissLeavesNone
PROPERTY InvalidIsFinal
