------------------------- MODULE WorkflowLockProofs -------------------------
(* Proofs about WorkflowLock, for every set of callers and every TTL. *)
EXTENDS WorkflowLock, TLAPS

\* A run that may not outlive the lock, the condition under which the lock
\* excludes.  The timeouts of steps.go and the three attempts of
\* agentsclient.Call do not meet it (run lock_long_runs).
RunFitsLock == MaxRun < TTL

\* The variables of the lock keep their types.
THEOREM LockTypeCorrect == LockSpec => []LockTypeOK
<1>1. LockInit => LockTypeOK
  BY TTLAssumption, MaxRunAssumption DEF LockInit, LockTypeOK
<1>2. LockTypeOK /\ [LockNext]_lockVars => LockTypeOK'
  <2> SUFFICES ASSUME LockTypeOK, [LockNext]_lockVars
               PROVE  LockTypeOK'
    OBVIOUS
  <2> USE TTLAssumption, MaxRunAssumption DEF LockTypeOK
  <2>1. ASSUME NEW c \in Contenders, Acquire(c)
        PROVE  LockTypeOK'
    BY <2>1 DEF Acquire
  <2>2. ASSUME NEW c \in Contenders, AcquireReplyLost(c)
        PROVE  LockTypeOK'
    BY <2>2 DEF AcquireReplyLost
  <2>3. ASSUME NEW c \in Contenders, Release(c)
        PROVE  LockTypeOK'
    BY <2>3 DEF Release
  <2>4. ASSUME NEW c \in Contenders, AbandonLock(c)
        PROVE  LockTypeOK'
    BY <2>4 DEF AbandonLock
  <2>5. CASE TimePasses
    BY <2>5 DEF TimePasses, KeyHeld, Running
  <2>6. CASE UNCHANGED lockVars
    BY <2>6 DEF lockVars
  <2>7. QED
    BY <2>1, <2>2, <2>3, <2>4, <2>5, <2>6 DEF LockNext
<1>3. QED
  BY <1>1, <1>2, PTL DEF LockSpec

\* While runs are in time, what has passed of a run and what is left of its key
\* make up the TTL, and with it exclusion is inductive.
LEMMA LockInvariant == LockSpec /\ []InTime => []LockInv
<1> DEFINE IdleAge == \A c \in Contenders \ Running : age[c] = 0
<1> USE TTLAssumption, MaxRunAssumption DEF InTime
<1>1. LockInit => LockInv
  BY DEF LockInit, LockInv, LockTypeOK, MutualExclusion, KeyCoversRun, Running
<1>2. LockInv /\ InTime /\ LockTypeOK' /\ [LockNext]_lockVars => LockInv'
  <2> SUFFICES ASSUME LockInv, InTime, LockTypeOK', [LockNext]_lockVars
               PROVE  MutualExclusion' /\ KeyCoversRun' /\ IdleAge'
    BY DEF LockInv
  <2> USE DEF LockInv, LockTypeOK, MutualExclusion, KeyCoversRun, Running, KeyHeld
  <2>1. ASSUME NEW c \in Contenders, Acquire(c)
        PROVE  MutualExclusion' /\ KeyCoversRun' /\ IdleAge'
    \* The key is absent, so by KeyCoversRun a run going on would have used up
    \* the whole TTL, which no run has: nobody is running.
    <3>1. Running = {}
      BY <2>1 DEF Acquire
    <3>2. QED
      BY <2>1, <3>1 DEF Acquire
  <2>2. ASSUME NEW c \in Contenders, AcquireReplyLost(c)
        PROVE  MutualExclusion' /\ KeyCoversRun' /\ IdleAge'
    <3>1. Running = {}
      BY <2>2 DEF AcquireReplyLost
    <3>2. QED
      BY <2>2, <3>1 DEF AcquireReplyLost
  <2>3. ASSUME NEW c \in Contenders, Release(c)
        PROVE  MutualExclusion' /\ KeyCoversRun' /\ IdleAge'
    BY <2>3 DEF Release
  <2>4. ASSUME NEW c \in Contenders, AbandonLock(c)
        PROVE  MutualExclusion' /\ KeyCoversRun' /\ IdleAge'
    BY <2>4 DEF AbandonLock
  <2>5. CASE TimePasses
    <3>1. MutualExclusion'
      BY <2>5 DEF TimePasses
    <3>2. KeyCoversRun'
      BY <2>5 DEF TimePasses
    <3>3. IdleAge'
      BY <2>5 DEF TimePasses
    <3>4. QED
      BY <3>1, <3>2, <3>3
  <2>6. CASE UNCHANGED lockVars
    BY <2>6 DEF lockVars
  <2>7. QED
    BY <2>1, <2>2, <2>3, <2>4, <2>5, <2>6 DEF LockNext
<1>3. QED
  BY <1>1, <1>2, LockTypeCorrect, PTL DEF LockSpec

\* As long as no run has gone on for as long as the TTL, at most one workflow runs
\* at any time and its key is there, although the key names no owner, replies
\* may be lost and processes may die.  No bound on the length of runs is assumed.
THEOREM LockHoldsInTime ==
  LockSpec => ([]InTime => [](MutualExclusion /\ KeyCoversRun))
<1>1. LockInv => MutualExclusion /\ KeyCoversRun
  BY DEF LockInv
<1>2. QED
  BY <1>1, LockInvariant, PTL

LEMMA FittingRunsAreInTime == ASSUME RunFitsLock PROVE LockSpec => []InTime
<1>1. LockTypeOK => InTime
  BY TTLAssumption, MaxRunAssumption DEF RunFitsLock, LockTypeOK, InTime, Running
<1>2. QED
  BY <1>1, LockTypeCorrect, PTL

\* If every run fits in the lock's time to live, at most one workflow runs at
\* any time.
THEOREM LockExcludes == ASSUME RunFitsLock PROVE LockSpec => []MutualExclusion
<1>1. QED
  BY LockHoldsInTime, FittingRunsAreInTime, PTL

\* Under the same condition neither expiry nor a foreign DEL ever takes the key
\* from a run: the key is there until the run's own deadline.
THEOREM KeyOutlivesRun == ASSUME RunFitsLock PROVE LockSpec => []KeyCoversRun
<1>1. QED
  BY LockHoldsInTime, FittingRunsAreInTime, PTL
=============================================================================
