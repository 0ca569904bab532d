\* Runs shorter than the lock's TTL: one tick is 60 s, 30 ticks of lock, at most 24
\* of run (every agent answers or fails at its first attempt, 10 and 8 ticks, and 6
\* are left for the reads and the polls).
\* Two runs that follow one another and a restart of the runtime; two publishers
\* and one stream; three searches; the corners of a strategy's fields; two fills
\* and two NAV upserts; two symbols and one edit at a time.
CONSTANTS
  Contenders = {scheduler, manual, resume}
  TTL = 30
  MaxRun = 24
  Unreliable = TRUE
  Threads = {t1, t2}
  MaxRetries = 2
  MaxRestarts = 1
  MaxLosses = 2
  Conns = {c1}
  Publishers = {p1, p2}
  Quotes = {q1}
  Capacity = 2
  Throttle = 2
  MaxClock = 3
  Callers = {s1, s2, s3}
  Listings <- MCListings
  MaxResults = 2
  Strategies <- MCStrategies
  Symbols = {"held", "new"}
  Price <- MCPrice
  Fills = {f1, f2}
  Requests <- MCRequests
  InitialCash = 3
  Opening <- MCOpening
  Upserts = {u1, u2}
  BrokerAccounts <- MCBrokerAccounts
  Watchable = {w1, w2}
  EnvWatchlist = {w1}
  Limits = {1, 2}
  EnvLimit = 2
  Editors = {e1}
  MaxRows = 3
SPECIFICATION Spec
INVARIANT TypeOK
INVARIANT MutualExclusion
INVARIANT KeyCoversRun
INVARIANT ResumeIsNotRefused
INVARIANT WaitingIsResumable
INVARIANT CompletedOnce
INVARIANT QuoteSpacing
INVARIANT OneFetch
INVARIANT BestMatches
INVARIANT JobsAreAsked
INVARIANT BooksMatchOrders
INVARIANT NavIsWhole
INVARIANT AnswersAreKept
INVARIANT NotHoldableIsNotBought
PROPERTY LockIsReleased
PROPERTY CallReturns
PROPERTY PublishReturns
PROPERTY FillsEnd
CHECK_DEADLOCK FALSE
