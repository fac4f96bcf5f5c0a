SPECIFICATION Spec
CONSTANTS
  N = 3
  TreeWidth = 1
  SplitEqual = FALSE
  CreateGlobal = FALSE
  CreateMax = 3
  Fanout = 1
  Budget = 1
  PromptTags = {}
INVARIANTS TreeInv ReceiptAccounting DrainedAtReturn NoStrayReceipts TermCleanupOK TermDrainedAtReturn
