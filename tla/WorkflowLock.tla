---------------------------- MODULE WorkflowLock ----------------------------
(***************************************************************************)
(* The global busy lock that serialises workflow runs                      *)
(* (services/api/internal/workflow/lock.go).                               *)
(*                                                                         *)
(* The lock is one Redis key.  SETNX with a time to live takes it; the     *)
(* returned unlock function deletes it.  The value is the constant "1", so *)
(* the key does not say who set it: DEL removes whatever is there, and an  *)
(* expired key is simply gone while its setter still runs.                 *)
(*                                                                         *)
(* Time is discrete: one step of it is one unit of the TTL.  A run's       *)
(* length is bounded by MaxRun, the sum of the timeouts of what it calls,  *)
(* retries included.  There is no clock, only the time left on the key and *)
(* the time each run has been going on.                                    *)
(***************************************************************************)
EXTENDS Integers

CONSTANTS
  Contenders, \* goroutines that may run RunWorkflow or ResumeAgent
  TTL,        \* DefaultLockTTL, in ticks
  MaxRun,     \* longest a run may take while its process lives, in ticks
  Unreliable  \* whether Redis replies can be lost and processes can crash

ASSUME TTLAssumption == TTL \in Nat \ {0}
ASSUME MaxRunAssumption == MaxRun \in Nat
ASSUME UnreliableAssumption == Unreliable \in BOOLEAN

VARIABLES
  ttl,      \* ticks left on the key workflow:run:lock:busy; 0 when it is absent
  workflow, \* workflow[c]: "idle" or "running" (between acquire and unlock)
  age       \* age[c]: ticks since c's SETNX while it runs, else 0

lockVars == <<ttl, workflow, age>>

KeyHeld == ttl > 0
Running == {c \in Contenders : workflow[c] = "running"}

LockTypeOK ==
  /\ ttl \in 0..TTL
  /\ workflow \in [Contenders -> {"idle", "running"}]
  /\ age \in [Contenders -> 0..MaxRun]

LockInit ==
  /\ ttl = 0
  /\ workflow = [c \in Contenders |-> "idle"]
  /\ age = [c \in Contenders |-> 0]

----------------------------------------------------------------------------
\* Mutant of Acquire: SET in place of SETNX.
AcquireWithSet(c) ==
  /\ workflow[c] = "idle"
  /\ ttl' = TTL
  /\ workflow' = [workflow EXCEPT ![c] = "running"]
  /\ UNCHANGED age

\* SETNX succeeded and the caller was told so.
Acquire(c) ==
  /\ workflow[c] = "idle"
  /\ ~KeyHeld
  /\ ttl' = TTL
  /\ workflow' = [workflow EXCEPT ![c] = "running"]
  /\ UNCHANGED age

\* Mutant of AcquireReplyLost: a SET that renews a key another run relies on.
AcquireRenews(c) ==
  /\ Unreliable
  /\ workflow[c] = "idle"
  /\ ttl' = TTL
  /\ UNCHANGED <<workflow, age>>

\* SETNX was executed but its reply was lost: AcquireWorkflowLock returns the
\* error, nobody owns the key and only the TTL will remove it.  (ErrLockHeld
\* and an error before execution change nothing.)
AcquireReplyLost(c) ==
  /\ Unreliable
  /\ workflow[c] = "idle"
  /\ ~KeyHeld
  /\ ttl' = TTL
  /\ UNCHANGED <<workflow, age>>

\* The deferred unlock: DEL, whoever set the key.
Release(c) ==
  /\ workflow[c] = "running"
  /\ ttl' = 0
  /\ workflow' = [workflow EXCEPT ![c] = "idle"]
  /\ age' = [age EXCEPT ![c] = 0]

\* The deferred unlock whose DEL failed (its error is dropped), or a process
\* that died while it held the lock: the run is over, the key stays.
AbandonLock(c) ==
  /\ Unreliable
  /\ workflow[c] = "running"
  /\ workflow' = [workflow EXCEPT ![c] = "idle"]
  /\ age' = [age EXCEPT ![c] = 0]
  /\ UNCHANGED ttl

\* Mutant of TimePasses: the key is set without a time to live.
TimeWithoutExpiry ==
  /\ \A c \in Running : age[c] < MaxRun
  /\ KeyHeld \/ Running # {}
  /\ age' = [c \in Contenders |-> IF c \in Running THEN age[c] + 1 ELSE age[c]]
  /\ UNCHANGED <<ttl, workflow>>

\* Time passes; Redis drops the key when its time to live is used up.  No run
\* may still be going on at its MaxRun-th tick.
TimePasses ==
  /\ \A c \in Running : age[c] < MaxRun
  /\ KeyHeld \/ Running # {}
  /\ ttl' = IF KeyHeld THEN ttl - 1 ELSE 0
  /\ age' = [c \in Contenders |-> IF c \in Running THEN age[c] + 1 ELSE age[c]]
  /\ UNCHANGED workflow

LockNext ==
  \/ \E c \in Contenders :
       Acquire(c) \/ AcquireReplyLost(c) \/ Release(c) \/ AbandonLock(c)
  \/ TimePasses

LockSpec == LockInit /\ [][LockNext]_lockVars

\* A run ends by its deadline: the timeouts of its calls are enforced by the
\* clients, so time passing forces the deferred unlock.
LockFairness ==
  /\ WF_lockVars(TimePasses)
  /\ \A c \in Contenders : WF_lockVars(Release(c))

----------------------------------------------------------------------------
\* At most one workflow runs at a time (docs/product-overview.md section 6,
\* docs/prd.md RUN-3).
MutualExclusion ==
  \A c, d \in Running : c = d

\* The key outlives the run that set it: while a run goes on, what is left of
\* the TTL is at least what is left of the run's time, so neither expiry nor a
\* foreign DEL can take the key from it.
KeyCoversRun ==
  \A c \in Running : ttl + age[c] = TTL

\* No run has gone on for as long as its key may live.
InTime == \A c \in Running : age[c] < TTL

\* The inductive strengthening of mutual exclusion, as long as runs are in time.
LockInv ==
  /\ LockTypeOK
  /\ MutualExclusion
  /\ KeyCoversRun
  /\ \A c \in Contenders \ Running : age[c] = 0

\* Whatever happened to its setter, a held key is free again some time later:
\* a crash, a lost reply or a failed DEL cannot block trading for good.
LockIsReleased == KeyHeld ~> ~KeyHeld
=============================================================================
