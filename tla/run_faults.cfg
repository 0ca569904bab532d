\* Every fault, every overlap, one approval request at a time.
CONSTANTS
  MaxProposals = 2
  Deciders = {alice}
  Modes = {"require_approval", "auto_reject_breaches", "bypass_risk"}
  Faults = {"agent", "broker", "lost_reply", "db", "crash"}
  Overlap = {"decide_run", "cancel_decide"}
  MaxCrashes = 1
SPECIFICATION Spec
INVARIANT TypeOK
INVARIANT SubmissionAuthorised
INVARIANT MirrorFollowsBroker
PROPERTY ImplementsAuthority
VIEW LiveState
CHECK_DEADLOCK FALSE
