----------------------------- MODULE Scheduler -----------------------------
(***************************************************************************)
(* Scheduler.Reload and its ticks (scheduler/scheduler.go) with the        *)
(* requests that reload it (module StrategyService).                       *)
(*                                                                         *)
(* Reload holds the scheduler's mutex from before it reads the active      *)
(* strategy until the new cron runs, and waits in between for the jobs of  *)
(* the old one to end.  A job is a whole workflow run (module TradingRun,  *)
(* or ErrLockHeld at once), so a reload may take as long as a run, during  *)
(* which no tick is started.                                               *)
(***************************************************************************)
EXTENDS StrategyService

CONSTANTS
  Jobs,         \* slots for jobs that run at the same time (a bound)
  MaxRestarts   \* bound on restarts of the API process

ASSUME MaxRestartsAssumption == MaxRestarts \in Nat

VARIABLES
  mu,        \* s.mu: its holder, or Free
  cron,      \* s.cron: what its entries were built from, or NoCron
  stopped,   \* cron.Stop has been called on it
  job,       \* job[j]: the cron that started a running job, or NoCron
  restarts

cronVars == <<mu, cron, stopped, job>>
vars == <<storeVars, cronVars, restarts>>

Free == "free"

ASSUME FreeAssumption == Free \notin Requests

\* What a cron is built from: the active strategy (0 if there is none, and then
\* it has no entries), as of a version of the table (history).
Crons == [strategy : Strategies \cup {0}, version : 0..MaxChanges]
NoCron == [strategy |-> 0, version |-> 0]

TypeOK ==
  /\ StoreTypeOK
  /\ mu \in Reloaders \cup {Free}
  /\ cron \in Crons
  /\ stopped \in BOOLEAN
  /\ job \in [Jobs -> Crons]
  /\ restarts \in 0..MaxRestarts

Init ==
  /\ StoreInit
  /\ mu = Free
  /\ cron = NoCron
  /\ stopped = FALSE
  /\ job = [j \in Jobs |-> NoCron]
  /\ restarts = 0

----------------------------------------------------------------------------
(* Reload *)

\* Mutant of LockMutex: no mutex.
LockNothing(r) ==
  /\ pc[r] = "lock"
  /\ Goto(r, "read")
  /\ UNCHANGED <<rowVars, local, version, acked, cronVars>>

LockMutex(r) ==
  /\ pc[r] = "lock"
  /\ mu = Free
  /\ mu' = r
  /\ Goto(r, "read")
  /\ UNCHANGED <<rowVars, local, version, acked, cron, stopped, job>>

\* Service.Active: of the active rows the one with the smallest id.
FirstActive ==
  IF active = {} THEN 0
  ELSE CHOOSE s \in active : \A q \in active : s <= q

\* Mutant of ReadActive: an error returns with the mutex locked.
ReadActiveKeepsMutex(r) ==
  /\ pc[r] = "read"
  /\ \/ /\ local' = [local EXCEPT ![r].loaded = FirstActive,
                                  ![r].loadedVersion = version]
        /\ Goto(r, "stop")
     \/ "db" \in Faults /\ Return(r)
  /\ UNCHANGED <<rowVars, version, acked, cronVars>>

\* The active strategy is read and its jobs are built; an error leaves the old
\* cron running and is answered with 500.
ReadActive(r) ==
  /\ pc[r] = "read"
  /\ \/ /\ local' = [local EXCEPT ![r].loaded = FirstActive,
                                  ![r].loadedVersion = version]
        /\ Goto(r, "stop")
        /\ UNCHANGED mu
     \/ "db" \in Faults /\ Return(r) /\ mu' = Free
  /\ UNCHANGED <<rowVars, version, acked, cron, stopped, job>>

\* cron.Stop, if there is a cron: it starts no more jobs.
StopCron(r) ==
  /\ pc[r] = "stop"
  /\ stopped' = (cron # NoCron)
  /\ Goto(r, "wait")
  /\ UNCHANGED <<rowVars, local, version, acked, mu, cron, job>>

\* The new cron starts, the mutex is released, the request answered with 200.
StartNewCron(r) ==
  /\ cron' = [strategy |-> local[r].loaded, version |-> local[r].loadedVersion]
  /\ stopped' = FALSE
  /\ mu' = Free
  /\ acked' = IF local[r].wrote > acked THEN local[r].wrote ELSE acked
  /\ Return(r)
  /\ UNCHANGED <<rowVars, version, job>>

\* Mutant of StartCron: the jobs of the old cron are not waited for.
StartCronAtOnce(r) == pc[r] = "wait" /\ StartNewCron(r)

\* The last job of the old cron has ended.
StartCron(r) ==
  /\ pc[r] = "wait"
  /\ \A j \in Jobs : job[j] = NoCron
  /\ StartNewCron(r)

ReloadStep(r) == LockMutex(r) \/ ReadActive(r) \/ StopCron(r) \/ StartCron(r)

----------------------------------------------------------------------------
(* Ticks *)

\* An entry of the running cron is due: runJob gets what was captured when the
\* entry was added.
Tick(j) ==
  /\ cron.strategy # 0
  /\ ~stopped
  /\ job[j] = NoCron
  /\ job' = [job EXCEPT ![j] = cron]
  /\ UNCHANGED <<storeVars, mu, cron, stopped>>

\* RunWorkflow returns.
JobEnds(j) ==
  /\ job[j] # NoCron
  /\ job' = [job EXCEPT ![j] = NoCron]
  /\ UNCHANGED <<storeVars, mu, cron, stopped>>

\* The API process restarts: requests, jobs and cron are gone, open
\* transactions roll back, the scheduler's goroutine starts again.
Restart ==
  /\ restarts < MaxRestarts
  /\ restarts' = restarts + 1
  /\ pc' = [r \in Reloaders |-> IF r = Startup THEN "lock" ELSE "idle"]
  /\ local' = [r \in Reloaders |-> NoLocals]
  /\ mu' = Free
  /\ cron' = NoCron
  /\ stopped' = FALSE
  /\ job' = [j \in Jobs |-> NoCron]
  /\ UNCHANGED <<rowVars, version, acked>>

----------------------------------------------------------------------------
RequestStep(r) == ServiceStep(r) /\ UNCHANGED <<cronVars, restarts>>
SchedulerStep(r) == ReloadStep(r) /\ UNCHANGED restarts

Next ==
  \/ \E r \in Requests :
       ServiceBegins(r) /\ UNCHANGED <<cronVars, restarts>>
  \/ \E r \in Requests : RequestStep(r)
  \/ \E r \in Reloaders : SchedulerStep(r)
  \/ \E j \in Jobs : (Tick(j) \/ JobEnds(j)) /\ UNCHANGED restarts
  \/ Restart

Spec == Init /\ [][Next]_vars

\* Handlers run on; Go's mutex is starvation free and PostgreSQL grants row
\* locks in turn, so that who waits for one gets it (strong fairness); a job
\* ends, since every agent call of a run has a timeout.
Fairness ==
  /\ \A r \in Requests : SF_vars(RequestStep(r))
  /\ \A r \in Reloaders : SF_vars(SchedulerStep(r))
  /\ \A j \in Jobs : WF_vars(JobEnds(j) /\ UNCHANGED restarts)

FairSpec == Spec /\ Fairness

----------------------------------------------------------------------------
\* One strategy is active, whatever activations overlap (docs/prd.md STR-2),
\* and it cannot be deleted (docs/prd.md STR-1).
ExactlyOneActive == Cardinality(active) = 1

\* A job that runs was started by the present cron: the old schedule has run
\* out before the new one begins.
JobsBelongToCron == \A j \in Jobs : job[j] # NoCron => job[j] = cron

\* Once a client was told that its change is made, the cron that ticks has been
\* built from that change or from a later one (docs/prd.md STR-4).
AcknowledgedIsEffective == cron # NoCron => cron.version >= acked

\* A change of strategy is answered, although it waits for other requests and
\* for the jobs that run.
RequestsReturn == \A r \in Requests : pc[r] # "idle" ~> pc[r] = "idle"

=============================================================================
