\* Two fields, three items, two of them the examples, and the limits of the code.
SPECIFICATION FairSpec
CONSTANTS
  a = a  b = b
  Fields = {a, b}
  Items = {1, 2, 3}
  Shown = {1, 2}
  Requests <- ManyRequests
  Ratio <- LongValues
  Similarity = 9
  MaxAttempts = 2
  MaxRetries = 2
  MaxIterations = 2
INVARIANTS TypeOK KeptMissesFew KeptShowsExamples MapIsWhole
PROPERTIES ImplementsDraft
