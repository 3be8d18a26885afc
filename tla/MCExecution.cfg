\* One size of code and two labels: every nesting of up to four statements.
CONSTANTS
  ChunkSizes = {1}
  Values = {1, 2}
  ShortHalf = 32768
  MaxTokens = 4
SPECIFICATION ExecSpec
INVARIANTS TypeOK JumpsLand BreaksAwaitLoop StatementsStartEmpty DepthsAgree StackClean
PROPERTIES ResolvedStays 
