\* Two decisions at once, after the runner is done, nothing fails.
CONSTANTS
  MaxProposals = 2
  Deciders = {alice, bob}
  Modes = {"require_approval"}
  Faults = {}
  Overlap = {}
  MaxCrashes = 0
SPECIFICATION Spec
INVARIANT AwaitingMeansUndecided
CHECK_DEADLOCK FALSE
