SPECIFICATION Spec
CONSTANTS
  Req = {1, 2, 3, 4}
  Small = 1
  Large = 2
  PromptLen <- Lengths
  MaxTokens = 2
  BlockSize = 2
  TotalBlocks = 4
  Chunk = 2
  MaxBatch = 2
  Pipelined = TRUE
  Cancellable = {3}
  Undecodable = {4}
  AdminOps = {"pause", "timeout", "stop"}
  Faults = {"host"}
  MaxPauses = 2
INVARIANTS TypeOK AnsweredOnce NothingUndelivered BlocksAccounted ExclusiveAccess
CHECK_DEADLOCK FALSE
