SPECIFICATION Spec
CONSTANTS
  N = 3
  SplitEqual = FALSE
  CreateGlobal = FALSE
  CreateMax = 3
  Fanout = 1
  Budget = 1
  PromptTags = {"WORK_REPLY", "WORK_RECEIPT"}
INVARIANTS RingInv RequestMatching NoEarlyExit ReceiptAccounting TokenRequestSafe DrainedAtReturn TokenDrainedAtReturn
