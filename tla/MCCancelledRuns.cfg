SPECIFICATION Spec
CONSTANTS
  Req = {1, 2, 3}
  Small = 1
  Large = 2
  PromptLen <- Lengths
  MaxTokens = 2
  BlockSize = 2
  TotalBlocks = 4
  Chunk = 2
  MaxBatch = 2
  Pipelined = FALSE
  Cancellable = {1, 2, 3}
  Undecodable = {}
  AdminOps = {}
  Faults = {}
  MaxPauses = 2
PROPERTIES CancelledStaysCancelled
