SPECIFICATION FairSpec
CONSTANTS
  Req = {1, 2, 3}
  Small = 1
  Large = 4
  PromptLen <- Lengths
  MaxTokens = 3
  BlockSize = 2
  TotalBlocks = 5
  Chunk = 2
  MaxBatch = 3
  Pipelined = TRUE
  Cancellable = {}
  Undecodable = {}
  AdminOps = {"pause"}
  Faults = {}
  MaxPauses = 1
INVARIANTS BlocksAccounted InFlightHoldsBlocks
PROPERTIES EveryRequestAnswered PauseSucceeds
