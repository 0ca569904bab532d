\* A cancellation beside an approval.
CONSTANTS
  MaxProposals = 1
  Deciders = {alice}
  Modes = {"require_approval"}
  Faults = {}
  Overlap = {"cancel_decide"}
  MaxCrashes = 0
SPECIFICATION FairSpec
PROPERTY FilledIsKept
CHECK_DEADLOCK FALSE
