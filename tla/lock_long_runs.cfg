\* The values of the code: 30 min of lock (one tick is 60 s), and three attempts of
\* 10 and of 8 min for the agents (workflow/steps.go:46-51, 64-69).
CONSTANTS
  Contenders = {scheduler, manual}
  TTL = 30
  MaxRun = 54
  Unreliable = FALSE
SPECIFICATION LockSpec
INVARIANT MutualExclusion
