SPECIFICATION FairSpec
CONSTANTS
  Word <- MCWord
  TLAST_PER_PACKET = FALSE
  None = None
  Transfer <- MCTransfer
  MaxTransfers = 2
INVARIANT BeatsForwardedInOrder
INVARIANT CompletionReportsLastEight
INVARIANT ValidPacketsAreWhole
INVARIANT SoftwareCheckAgrees
PROPERTY ImplementsPassthrough
PROPERTY CompletionsSpaced
PROPERTY TransfersComplete
