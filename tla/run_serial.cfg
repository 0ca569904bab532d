\* The run, a cancellation and the decisions one after the other.
CONSTANTS
  MaxProposals = 3
  Deciders = {alice}
  Modes = {"require_approval", "auto_reject_breaches", "bypass_risk"}
  Faults = {"agent", "broker", "lost_reply"}
  Overlap = {}
  MaxCrashes = 0
SPECIFICATION FairSpec
INVARIANT StatusMatchesRows
INVARIANT AwaitingInputIsResumable
INVARIANT NoOrphansAfterFill
PROPERTY FilledIsKept
PROPERTY CancelledNeverTrades
PROPERTY RunComesToRest
PROPERTY ApprovedIsHandled
CHECK_DEADLOCK FALSE
