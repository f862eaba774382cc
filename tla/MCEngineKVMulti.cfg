SPECIFICATION Spec
CONSTANTS
  Block = {b1, b2, b3, b4, b5}
  Hole = Hole
  Lossy = Lossy
  BlockSize = 2
  PinBudget = 1
  Req = {1, 2, 3}
  t1 = t1
  t2 = t2
  Token = {t1, t2}
  Prompt <- PromptsApart
  Picture <- PictureTwo
  ContentHash <- NoPicture
  PinKv = {}
  Unservable = {3}
  MaxTokens = 3
  Chunk = 2
  MaxDraft = 1
  Candidates = 2
  Streaming = FALSE
  NSinks = 1
  Window = 2
SYMMETRY BlockSymmetry
INVARIANTS NoTableLeak KvIntegrity
