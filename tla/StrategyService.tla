-------------------------- MODULE StrategyService --------------------------
(***************************************************************************)
(* The strategies table and the requests that change it: Create, Update,   *)
(* Activate and Delete (strategy/service.go) as the HTTP handlers call     *)
(* them (httpserver/handlers_strategies.go).                               *)
(*                                                                         *)
(* Update and Delete read a row and write it later without a transaction.  *)
(* Activate is one transaction of three statements under PostgreSQL's READ *)
(* COMMITTED: a statement sees what was committed when it began, waits for *)
(* rows that other transactions have written, and looks at them again when *)
(* it gets them.  Reloading the scheduler after a write is in module       *)
(* Scheduler.                                                              *)
(*                                                                         *)
(* The columns of a row are id and is_active; what the others hold is told *)
(* by the number of the change that wrote them.  Requests that fail        *)
(* validation change nothing and are no steps.                             *)
(***************************************************************************)
EXTENDS Integers, FiniteSets

CONSTANTS
  MaxStrategies,  \* ids are 1..MaxStrategies
  Requests,       \* HTTP requests that may be in flight at once
  WritesOverlap,  \* may Update and Delete overlap other requests?
  Faults,         \* a subset of {"db"}: statements fail, or their reply is lost
  MaxChanges      \* bound on the changes of what is active

Strategies == 1..MaxStrategies
Default == 1       \* created by the seed, active, not deletable
Startup == "startup"
Reloaders == Requests \cup {Startup}   \* the callers of Scheduler.Reload

ASSUME MaxStrategiesAssumption == MaxStrategies \in Nat \ {0}
ASSUME RequestsAssumption == IsFiniteSet(Requests) /\ Startup \notin Requests
ASSUME MaxChangesAssumption == MaxChanges \in Nat
ASSUME WritesOverlapAssumption == WritesOverlap \in BOOLEAN
ASSUME ServiceFaultsAssumption == Faults \subseteq {"db"}

VARIABLES
  exists,   \* the ids in the table
  active,   \* those with is_active
  pc,       \* pc[r]: the next statement or scheduler step of r
  local,    \* local[r]: the locals of r
  \* history: changes of what is active are numbered
  version,  \* the newest one committed
  acked     \* the newest one a client was told of (status 200)

rowVars == <<exists, active>>
storeVars == <<exists, active, pc, local, version, acked>>

Writing == {"save", "delete"}
Activating == {"deactivate", "activate", "count", "commit"}
Reloading == {"lock", "read", "stop", "wait"}

Locals ==
  [id : Strategies,                  \* the id in the URL
   wasActive : BOOLEAN,              \* is_active in the row Update read
   snapshot : SUBSET Strategies,     \* active rows Activate's first UPDATE saw
   turnedOff : SUBSET Strategies,    \* rows its open transaction deactivated
   wrote : 0..MaxChanges,            \* history: the change r has committed
   loaded : Strategies \cup {0},     \* the active strategy Reload has read
   loadedVersion : 0..MaxChanges]    \* history: version at that moment

NoLocals ==
  [id |-> Default, wasActive |-> FALSE, snapshot |-> {}, turnedOff |-> {},
   wrote |-> 0, loaded |-> 0, loadedVersion |-> 0]

StoreTypeOK ==
  /\ exists \subseteq Strategies
  /\ active \subseteq exists
  /\ pc \in [Reloaders -> {"idle"} \cup Writing \cup Activating \cup Reloading]
  /\ local \in [Reloaders -> Locals]
  /\ version \in 0..MaxChanges
  /\ acked \in 0..MaxChanges

\* After the seed; the scheduler's own goroutine is about to reload.
StoreInit ==
  /\ exists = {Default}
  /\ active = {Default}
  /\ pc = [r \in Reloaders |-> IF r = Startup THEN "lock" ELSE "idle"]
  /\ local = [r \in Reloaders |-> NoLocals]
  /\ version = 0
  /\ acked = 0

Goto(r, there) == pc' = [pc EXCEPT ![r] = there]

\* The handler answers; its transaction, if any, has ended.
Return(r) == Goto(r, "idle") /\ local' = [local EXCEPT ![r] = NoLocals]

\* Rows that the open transaction of r has written.
Written(r) ==
  local[r].turnedOff \cup (IF pc[r] \in {"count", "commit"} THEN {local[r].id} ELSE {})
LockedByOthers(r) == UNION {Written(q) : q \in Requests \ {r}}

InStore(r) == pc[r] \in Writing \cup Activating
MayWrite == WritesOverlap \/ \A q \in Requests : ~InStore(q)
MayActivate == WritesOverlap \/ \A q \in Requests : pc[q] \notin Writing

\* The bound: every request in flight may change what is active.
MayChange ==
  version + Cardinality({q \in Requests : InStore(q)}) < MaxChanges

----------------------------------------------------------------------------
\* A new strategy is inactive.
Create(r, s) ==
  /\ pc[r] = "idle"
  /\ exists' = exists \cup {s}
  /\ s \notin exists
  /\ UNCHANGED <<active, pc, local, version, acked>>

----------------------------------------------------------------------------
(* Update *)

\* First: the whole row, is_active included.
BeginUpdate(r, s) ==
  /\ pc[r] = "idle"
  /\ MayWrite /\ MayChange
  /\ s \in exists
  /\ local' = [local EXCEPT ![r].id = s, ![r].wasActive = s \in active]
  /\ Goto(r, "save")
  /\ UNCHANGED <<rowVars, version, acked>>

\* Save: every column of the copy, is_active included; a row that is gone is
\* inserted again.  The handler reloads the scheduler if the copy was active.
Save(r) ==
  LET s == local[r].id
      on == local[r].wasActive
  IN
  /\ pc[r] = "save"
  /\ s \notin LockedByOthers(r)
  /\ exists' = exists \cup {s}
  /\ active' = IF on THEN active \cup {s} ELSE active \ {s}
  /\ version' = IF on \/ s \in active THEN version + 1 ELSE version
  /\ \/ /\ on
        /\ Goto(r, "lock")
        /\ local' = [local EXCEPT ![r].wrote = version']
        /\ UNCHANGED acked
     \/ /\ ~on
        /\ acked' = IF s \in active THEN version' ELSE acked
        /\ Return(r)
     \/ "db" \in Faults /\ Return(r) /\ UNCHANGED acked

----------------------------------------------------------------------------
(* Activate *)

\* The transaction's first UPDATE begins: it finds the rows that are active.
BeginActivate(r, s) ==
  /\ pc[r] = "idle"
  /\ MayActivate /\ MayChange
  /\ local' = [local EXCEPT ![r].id = s, ![r].snapshot = active]
  /\ Goto(r, "deactivate")
  /\ UNCHANGED <<rowVars, version, acked>>

\* It gets those rows and deactivates the ones that are active still.
Deactivate(r) ==
  /\ pc[r] = "deactivate"
  /\ local[r].snapshot \cap LockedByOthers(r) = {}
  /\ local' = [local EXCEPT ![r].turnedOff = local[r].snapshot \cap active]
  /\ Goto(r, "activate")
  /\ UNCHANGED <<rowVars, version, acked>>

\* Mutant of ActivateRow: RowsAffected is not looked at.
ActivateRowUnchecked(r) ==
  /\ pc[r] = "activate"
  /\ local[r].id \notin LockedByOthers(r)
  /\ Goto(r, "count")
  /\ UNCHANGED <<rowVars, local, version, acked>>

\* The second UPDATE, by id; without such a row the transaction rolls back.
ActivateRow(r) ==
  /\ pc[r] = "activate"
  /\ local[r].id \notin LockedByOthers(r)
  /\ IF local[r].id \in exists
     THEN Goto(r, "count") /\ UNCHANGED local
     ELSE Return(r)
  /\ UNCHANGED <<rowVars, version, acked>>

\* The rows that are active for r's transaction: the committed ones under its
\* own changes.
ActiveFor(r) == (active \ local[r].turnedOff) \cup {local[r].id}

\* Mutant of CountActive: the count is not looked at.
CountActiveUnchecked(r) ==
  /\ pc[r] = "count"
  /\ Goto(r, "commit")
  /\ UNCHANGED <<rowVars, local, version, acked>>

\* Unless one strategy is active the transaction rolls back (ErrInvariant).
CountActive(r) ==
  /\ pc[r] = "count"
  /\ IF Cardinality(ActiveFor(r)) = 1
     THEN Goto(r, "commit") /\ UNCHANGED local
     ELSE Return(r)
  /\ UNCHANGED <<rowVars, version, acked>>

Commit(r) ==
  /\ pc[r] = "commit"
  /\ active' = ActiveFor(r)
  /\ version' = version + 1
  /\ \/ /\ Goto(r, "lock")
        /\ local' = [local EXCEPT ![r].wrote = version', ![r].turnedOff = {}]
     \/ "db" \in Faults /\ Return(r)
  /\ UNCHANGED <<exists, acked>>

----------------------------------------------------------------------------
(* Delete *)

\* Neither the default nor what is active may be deleted.
BeginDelete(r, s) ==
  /\ pc[r] = "idle"
  /\ MayWrite
  /\ s \in exists \ (active \cup {Default})
  /\ local' = [local EXCEPT ![r].id = s]
  /\ Goto(r, "delete")
  /\ UNCHANGED <<rowVars, version, acked>>

\* By id, whatever the row says by now.
DeleteRow(r) ==
  LET s == local[r].id IN
  /\ pc[r] = "delete"
  /\ s \notin LockedByOthers(r)
  /\ exists' = exists \ {s}
  /\ active' = active \ {s}
  /\ Return(r)
  /\ UNCHANGED <<version, acked>>

----------------------------------------------------------------------------
\* A statement fails: a transaction rolls back, the handler answers 500.
StatementFails(r) ==
  /\ "db" \in Faults
  /\ InStore(r)
  /\ Return(r)
  /\ UNCHANGED <<rowVars, version, acked>>

ServiceStep(r) ==
  \/ Save(r)
  \/ Deactivate(r)
  \/ ActivateRow(r)
  \/ CountActive(r)
  \/ Commit(r)
  \/ DeleteRow(r)
  \/ StatementFails(r)

ServiceBegins(r) ==
  \E s \in Strategies :
    \/ Create(r, s)
    \/ BeginUpdate(r, s)
    \/ BeginActivate(r, s)
    \/ BeginDelete(r, s)
=============================================================================
