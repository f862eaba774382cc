SPECIFICATION Spec
CONSTANTS
  Req = {1, 2, 3}
  Small = 1
  Large = 2
  PromptLen <- Lengths
  MaxTokens = 3
  BlockSize = 2
  TotalBlocks = 9
  Chunk = 2
  MaxBatch = 3
  Pipelined = TRUE
  Cancellable = {}
  Undecodable = {}
  AdminOps = {}
  Faults = {}
  MaxPauses = 2
INVARIANTS CompleteIsFinished
