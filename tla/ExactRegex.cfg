\* A keyword on a page of text, with short values.
SPECIFICATION FairSpec
CONSTANTS
  a = a  b = b
  Fields = {a, b}
  Items = {1, 2}
  Shown = {1, 2}
  Requests <- OneKeyword
  Ratio <- ShortValues
  Similarity = 9
  MaxAttempts = 2
  MaxRetries = 1
  MaxIterations = 2
PROPERTIES ExactIsKept
