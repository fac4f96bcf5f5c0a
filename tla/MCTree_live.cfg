SPECIFICATION FairSpec
CONSTANTS
  N = 3
  TreeWidth = 2
  SplitEqual = TRUE
  CreateGlobal = FALSE
  CreateMax = 2
  Fanout = 1
  Budget = 0
  PromptTags = {"WORK_REQUEST", "WORK_REPLY", "WORK_RECEIPT", "TERM"}
PROPERTY AllReturn
