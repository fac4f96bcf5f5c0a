SPECIFICATION FairSpec
CONSTANTS
  N = 6
  TreeWidth = 2
  Rounds = 3
INVARIANT BarrierOK
PROPERTIES BarrierSafe BarrierLive
