\* A cached regex, and a request for the same fields.
SPECIFICATION Spec
CONSTANTS
  u1 = u1  h1 = h1  f1 = f1  f2 = f2  w1 = w1  w2 = w2  p1 = p1  p2 = p2  p3 = p3
  Urls = {u1}
  Hosts = {h1}
  HostOf <- OneHost
  Fields = {f1}
  Requests <- OneField
  MadeTypes = {"CSS", "REGEX"}
  Workers = {w1}
  Parsers = {p1}
  NoParser = NoParser
  MaxVersion = 0
  Threshold = 1
  Confidence <- Confidences
  MaxConfidence = 3
  QueryLimit = 20
  Limit = 3
  Faults = {}
INVARIANT CachedIsReused
