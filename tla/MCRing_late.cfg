SPECIFICATION Spec
CONSTANTS
  N = 3
  SplitEqual = TRUE
  CreateGlobal = FALSE
  CreateMax = 2
  Fanout = 0
  Budget = 0
  PromptTags = {"WORK_REQUEST", "WORK_RECEIPT", "TOKEN"}
INVARIANT NoWorkLost
