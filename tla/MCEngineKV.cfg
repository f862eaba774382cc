SPECIFICATION Spec
CONSTANTS
  Block = {b1, b2, b3, b4}
  Hole = Hole
  Lossy = Lossy
  BlockSize = 2
  PinBudget = 1
  Req = {1, 2, 3}
  t1 = t1
  t2 = t2
  Token = {t1, t2}
  Prompt <- PromptsABC
  Picture <- NoPicture
  ContentHash <- NoPicture
  PinKv = {1, 2}
  Unservable = {}
  MaxTokens = 2
  Chunk = 2
  MaxDraft = 2
  Candidates = 0
  Streaming = FALSE
  NSinks = 1
  Window = 2
SYMMETRY BlockSymmetry
INVARIANTS TypeOK NoTableLeak KvIntegrity CachedContent HashMapsInverse SharedPrefixOnly CacheAccounting PinBudgetKept
