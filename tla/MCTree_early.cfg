SPECIFICATION Spec
CONSTANTS
  N = 2
  TreeWidth = 64
  SplitEqual = TRUE
  CreateGlobal = FALSE
  CreateMax = 6
  Fanout = 0
  Budget = 0
  PromptTags = {"WORK_REQUEST", "WORK_REPLY", "WORK_RECEIPT", "TERM"}
INVARIANT NoWorkLost
