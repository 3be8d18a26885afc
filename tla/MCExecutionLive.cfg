CONSTANTS
  ChunkSizes = {1}
  Values = {1, 2}
  ShortHalf = 32768
  MaxTokens = 3
SPECIFICATION FairExec

INVARIANT LaidOut
PROPERTY KeepsGoing
