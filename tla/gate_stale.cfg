\* The instance of gate.cfg, without the exception for pages that read in between.
CONSTANTS
  Symbols = {"A", "B"}
  Engine <- MCEngine
  Viewers = {page}
  Readers = {page, "runner"}
  Price <- MCPrice
  OpeningCash = 8
  OpeningShares <- MCShares
  Proposed <- MCProposed
  MaxProposals = 2
  GateModes = {"gated", "bypass_risk"}
SPECIFICATION GateSpec
INVARIANT OwnFillsSeen
CHECK_DEADLOCK FALSE
