\* Two proposals in every combination, one page that reads at any time.
CONSTANTS
  Symbols = {"A", "B"}
  Engine <- MCEngine
  Viewers = {page}
  Readers = {page, "runner"}
  Price <- MCPrice
  OpeningCash = 8
  OpeningShares <- MCShares
  Proposed <- MCProposed
  MaxProposals = 2
  GateModes = {"gated", "bypass_risk"}
SPECIFICATION GateSpec
INVARIANT GateTypeOK
INVARIANT OwnFillsSeenAlone
INVARIANT LimitsKept
CHECK_DEADLOCK FALSE
