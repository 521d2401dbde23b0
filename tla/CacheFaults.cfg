\* One worker and its thread, any statement may fail.
SPECIFICATION FairSpec
CONSTANTS
  u1 = u1  h1 = h1  f1 = f1  f2 = f2  w1 = w1  w2 = w2  p1 = p1  p2 = p2  p3 = p3
  Urls = {u1}
  Hosts = {h1}
  HostOf <- OneHost
  Fields = {f1, f2}
  Requests <- AllRequests
  MadeTypes = {"CSS", "REGEX"}
  Workers = {w1}
  Parsers = {p1, p2}
  NoParser = NoParser
  MaxVersion = 1
  Threshold = 1
  Confidence <- Confidences
  MaxConfidence = 3
  QueryLimit = 2
  Limit = 2
  Faults = {"db"}
INVARIANTS ActiveIsSelectable
PROPERTY ExtractionEnds
