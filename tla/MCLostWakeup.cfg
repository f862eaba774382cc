SPECIFICATION FairSpec
CONSTANTS
  Req = {1}
  Small = 1
  Large = 2
  PromptLen <- Lengths
  MaxTokens = 2
  BlockSize = 2
  TotalBlocks = 4
  Chunk = 2
  MaxBatch = 2
  Pipelined = FALSE
  Cancellable = {}
  Undecodable = {}
  AdminOps = {"pause"}
  Faults = {}
  MaxPauses = 2
PROPERTIES ResumeUnparks
CHECK_DEADLOCK FALSE
