SPECIFICATION FairSpec
CONSTANTS
  N = 3
  SplitEqual = TRUE
  CreateGlobal = FALSE
  CreateMax = 2
  Fanout = 1
  Budget = 0
  PromptTags = {"WORK_REQUEST", "WORK_REPLY", "WORK_RECEIPT", "TOKEN"}
INVARIANT NoWorkLost
PROPERTY AllReturn
