SPECIFICATION FairSpec
CONSTANTS
  MaxRanks = 4
  MaxWidth = 2
  Items = 1
  MaxRounds = 2
INVARIANTS ReduceInv FinalResult ReduceDrained CommunicationTree
PROPERTIES ResultComplete ProgressMonotone AllReturn
