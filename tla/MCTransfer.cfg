SPECIFICATION FairSpec
CONSTANTS
  N = 3
  SplitEqual = FALSE
  CreateGlobal = FALSE
  CreateMax = 3
  Fanout = 0
  Budget = 0
  PromptTags = {"WORK_REQUEST", "WORK_REPLY"}
  Buffered = {"request", "nowork"}
INVARIANTS TransferInv NoWaitChain TransferMatching SharesFit KeepsOne
PROPERTIES HandlersAtomic RequestsAnswered
