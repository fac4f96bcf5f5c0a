SPECIFICATION Spec
CONSTANTS
  N = 2
  SplitEqual = TRUE
  CreateGlobal = FALSE
  CreateMax = 2
  Fanout = 0
  Budget = 0
  PromptTags = {"WORK_REQUEST", "WORK_REPLY", "WORK_RECEIPT", "TOKEN"}
INVARIANT NoStrayReceipts
