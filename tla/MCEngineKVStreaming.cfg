SPECIFICATION Spec
CONSTANTS
  Block = {b1, b2, b3, b4, b5, b6}
  Hole = Hole
  Lossy = Lossy
  BlockSize = 2
  PinBudget = 1
  Req = {1, 2, 3}
  t1 = t1
  t2 = t2
  Token = {t1}
  Prompt <- PromptsStream
  Picture <- NoPicture
  ContentHash <- NoPicture
  PinKv = {1, 2}
  Unservable = {}
  MaxTokens = 10
  Chunk = 2
  MaxDraft = 0
  Candidates = 0
  Streaming = TRUE
  NSinks = 1
  Window = 2
SYMMETRY BlockSymmetry
INVARIANTS NoStalePublication CacheAccounting WindowIntact
