\* One run; its human's answer is lost once.
CONSTANTS
  Threads = {t1}
  MaxRetries = 0
  MaxRestarts = 0
  MaxLosses = 1
SPECIFICATION AgentSpec
INVARIANT AwaitedRunsContinue
CHECK_DEADLOCK FALSE
