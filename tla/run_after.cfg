\* Decisions begin when the runner is done; statements fail, the process may crash.
CONSTANTS
  MaxProposals = 2
  Deciders = {alice, bob}
  Modes = {"require_approval"}
  Faults = {"lost_reply", "db", "crash"}
  Overlap = {"cancel_decide"}
  MaxCrashes = 1
SPECIFICATION Spec
INVARIANT ExecutedMeansNothingAwaits
INVARIANT AtMostOneSubmission
PROPERTY DecisionsAreFinal
SYMMETRY DeciderSymmetry
VIEW LiveState
CHECK_DEADLOCK FALSE
