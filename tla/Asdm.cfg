CONSTANTS
  Platforms = {"VCK5000", "V70", "V80"}
  Watched <- MCWatched
  Values = {3, 8}
  MaxSweeps = 2
  MaxReqs = 1
SPECIFICATION Spec
INVARIANTS RecordsInPlace SizesAgree AnswerOfOneSweep AverageWithinSamples
