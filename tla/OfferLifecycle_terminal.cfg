SPECIFICATION MCSpec
CONSTANTS
  c1 = c1
  c2 = c2
  Clients = {c1, c2}
  MaxRevision = 3
  ManualStatuses <- BeforeOffer
PROPERTY TerminalOfferIsFinal
