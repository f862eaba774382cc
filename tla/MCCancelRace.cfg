SPECIFICATION Spec
CONSTANTS
  Req = {1, 2}
  Small = 1
  Large = 2
  PromptLen <- Lengths
  MaxTokens = 3
  BlockSize = 2
  TotalBlocks = 4
  Chunk = 2
  MaxBatch = 2
  Pipelined = TRUE
  Cancellable = {1, 2}
  Undecodable = {}
  AdminOps = {}
  Faults = {}
  MaxPauses = 2
INVARIANTS InFlightHoldsBlocks
