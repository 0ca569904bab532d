-------------------------- MODULE SchedulerProofs ---------------------------
(***************************************************************************)
(* Scheduler, for any number of strategies and requests: activations that  *)
(* overlap leave one strategy active, and what a client was told of is in  *)
(* the cron.  Both need that no Update or Delete overlaps another request  *)
(* (~WritesOverlap): one that does can leave two active ones.  That jobs   *)
(* belong to their cron, and the types with their bounds, need no proviso. *)
(***************************************************************************)
EXTENDS Scheduler, SetSums, TLAPS

----------------------------------------------------------------------------
(* One active strategy *)

\* StoreTypeOK without the bound on changes.
Shapes ==
  [id : Strategies, wasActive : BOOLEAN, snapshot : SUBSET Strategies,
   turnedOff : SUBSET Strategies, wrote : Nat, loaded : Strategies \cup {0},
   loadedVersion : Nat]

TypeInv ==
  /\ exists \subseteq Strategies
  /\ active \subseteq Strategies
  /\ pc \in [Reloaders -> {"idle"} \cup Writing \cup Activating \cup Reloading]
  /\ local \in [Reloaders -> Shapes]
  /\ version \in Nat
  /\ acked \in Nat
  /\ cron \in [strategy : Strategies \cup {0}, version : Nat]

InTransaction == {"activate", "count", "commit"}

\* An open transaction has the active row, or none; nobody has both.
LockInv ==
  /\ \A r \in Requests :
       /\ pc[r] \notin InTransaction => local[r].turnedOff = {}
       /\ local[r].turnedOff \subseteq active
  /\ \A q, r \in Requests : q # r => Written(q) \cap Written(r) = {}

\* Update and Delete are alone in the store, so what they read is still true.
WriterInv ==
  \A r \in Requests :
    /\ pc[r] \in Writing => \A q \in Requests \ {r} : ~InStore(q)
    /\ pc[r] = "save" => local[r].wasActive = (local[r].id \in active)
    /\ pc[r] = "delete" => local[r].id \notin active

OneInv ==
  /\ TypeInv
  /\ LockInv
  /\ WriterInv
  /\ \E s : active = {s}
  /\ \A r \in Requests : pc[r] = "commit" => \E s : ActiveFor(r) = {s}

LEMMA Cardinal ==
  ASSUME NEW S \in SUBSET Strategies
  PROVE  Cardinality(S) = 1 <=> \E s : S = {s}
<1>1. IsFiniteSet(Strategies)
  BY MaxStrategiesAssumption, FS_Interval DEF Strategies
<1>2. IsFiniteSet(S)
  BY <1>1, FS_Subset
<1> QED
  BY <1>2, FS_Singleton

LEMMA NoLocalsTyped == NoLocals \in Shapes
BY MaxStrategiesAssumption DEF NoLocals, Shapes, Strategies, Default

LEMMA OneInvInit == Init => OneInv
<1> SUFFICES ASSUME Init
             PROVE  OneInv
  OBVIOUS
<1> USE RequestsAssumption DEF Init, StoreInit, Reloaders, Startup
<1>1. TypeInv
  BY NoLocalsTyped, MaxStrategiesAssumption
     DEF TypeInv, Strategies, Default, NoCron, Reloading
<1>2. \A r \in Requests : pc[r] = "idle" /\ local[r] = NoLocals
  OBVIOUS
<1>3. LockInv
  BY <1>2 DEF LockInv, NoLocals, Written, InTransaction
<1>4. WriterInv
  BY <1>2 DEF WriterInv, Writing
<1> QED
  BY <1>1, <1>2, <1>3, <1>4 DEF OneInv

LEMMA FirstActiveTyped ==
  ASSUME active \subseteq Strategies
  PROVE  FirstActive \in Strategies \cup {0}
<1>1. CASE active = {}
  BY <1>1 DEF FirstActive
<1>2. CASE active # {}
  <2>1. active \in SUBSET Nat
    BY MaxStrategiesAssumption DEF Strategies
  <2>2. \E s \in active : \A q \in active : s <= q
    BY <1>2, <2>1, LeastNatural
  <2> QED
    BY <1>2, <2>2 DEF FirstActive
<1> QED
  BY <1>1, <1>2

LEMMA ShapesKept ==
  ASSUME NEW x \in Shapes, NEW s \in Strategies, NEW some \in SUBSET Strategies,
         NEW on \in BOOLEAN
  PROVE  /\ [x EXCEPT !.id = s, !.wasActive = on] \in Shapes
         /\ [x EXCEPT !.id = s, !.snapshot = some] \in Shapes
BY DEF Shapes

LEMMA TypeStep ==
  ASSUME TypeInv, [Next]_vars
  PROVE  TypeInv'
<1> USE DEF TypeInv, Goto, Return
<1>1. ASSUME NEW r \in Requests, ServiceBegins(r), UNCHANGED cronVars
      PROVE  TypeInv'
  <2> USE <1>1 DEF rowVars, cronVars, Reloaders
  <2>1. PICK s \in Strategies :
          Create(r, s) \/ BeginUpdate(r, s) \/ BeginActivate(r, s) \/ BeginDelete(r, s)
    BY DEF ServiceBegins
  <2>2. CASE Create(r, s)
    BY <2>2 DEF Create
  <2>3. CASE BeginUpdate(r, s)
    <3>1. local' \in [Reloaders -> Shapes]
      <4> DEFINE on == s \in active
                 new == [local[r] EXCEPT !.id = s, !.wasActive = on]
      <4>1. local' = [local EXCEPT ![r] = new]
        <5>1. local' = [local EXCEPT ![r].id = s, ![r].wasActive = on]
          BY <2>3 DEF BeginUpdate
        <5>2. local \in [Reloaders -> Shapes] /\ r \in Reloaders
          OBVIOUS
        <5> HIDE DEF on
        <5> QED
          BY ONLY <5>1, <5>2
      <4>2. new \in Shapes
        <5>1. local[r] \in Shapes /\ s \in Strategies /\ on \in BOOLEAN
          OBVIOUS
        <5> HIDE DEF on
        <5> QED
          BY ONLY <5>1, ShapesKept
      <4> HIDE DEF new
      <4> QED
        BY <4>1, <4>2
    <3>2. pc' = [pc EXCEPT ![r] = "save"] /\ UNCHANGED <<exists, active, version, acked, cron>>
      BY <2>3 DEF BeginUpdate
    <3> QED
      BY <3>1, <3>2 DEF Writing
  <2>4. CASE BeginActivate(r, s)
    <3>1. local' \in [Reloaders -> Shapes]
      <4> DEFINE new == [local[r] EXCEPT !.id = s, !.snapshot = active]
      <4>1. local' = [local EXCEPT ![r] = new]
        BY <2>4 DEF BeginActivate
      <4>2. new \in Shapes
        BY ShapesKept
      <4> HIDE DEF new
      <4> QED
        BY <4>1, <4>2
    <3>2. pc' = [pc EXCEPT ![r] = "deactivate"]
          /\ UNCHANGED <<exists, active, version, acked, cron>>
      BY <2>4 DEF BeginActivate
    <3> QED
      BY <3>1, <3>2 DEF Activating
  <2>5. CASE BeginDelete(r, s)
    BY <2>5 DEF BeginDelete, Shapes, Writing
  <2> QED
    BY <2>1, <2>2, <2>3, <2>4, <2>5
<1>2. ASSUME NEW r \in Requests, ServiceStep(r), UNCHANGED cronVars
      PROVE  TypeInv'
  <2> USE <1>2, NoLocalsTyped DEF rowVars, cronVars, Reloaders
  <2>1. CASE Save(r)
    BY <2>1 DEF Save, Shapes, Reloading
  <2>2. CASE Deactivate(r)
    BY <2>2 DEF Deactivate, Shapes, Activating
  <2>3. CASE ActivateRow(r) \/ CountActive(r)
    BY <2>3 DEF ActivateRow, CountActive, Activating
  <2>4. CASE Commit(r)
    BY <2>4 DEF Commit, Shapes, Reloading, ActiveFor
  <2>5. CASE DeleteRow(r) \/ StatementFails(r)
    BY <2>5 DEF DeleteRow, StatementFails
  <2> QED
    BY <2>1, <2>2, <2>3, <2>4, <2>5 DEF ServiceStep
<1>3. ASSUME NEW r \in Reloaders, ReloadStep(r)
      PROVE  TypeInv'
  <2> USE <1>3, NoLocalsTyped DEF rowVars
  <2>1. CASE LockMutex(r) \/ StopCron(r)
    BY <2>1 DEF LockMutex, StopCron, Reloading
  <2>2. CASE ReadActive(r)
    <3>1. FirstActive \in Strategies \cup {0}
      BY FirstActiveTyped
    <3>2. \/ local' = [local EXCEPT ![r] = NoLocals]
          \/ local' = [local EXCEPT ![r].loaded = FirstActive,
                                   ![r].loadedVersion = version]
      BY <2>2 DEF ReadActive
    <3>3. local' \in [Reloaders -> Shapes]
      BY <3>1, <3>2 DEF Shapes
    <3>4. pc' = [pc EXCEPT ![r] = "stop"] \/ pc' = [pc EXCEPT ![r] = "idle"]
      BY <2>2 DEF ReadActive
    <3> QED
      BY <2>2, <3>3, <3>4 DEF ReadActive, Reloading
  <2>3. CASE StartCron(r)
    <3>1. local[r].loaded \in Strategies \cup {0} /\ local[r].loadedVersion \in Nat
      BY DEF Shapes
    <3>2. cron' \in [strategy : Strategies \cup {0}, version : Nat]
      BY <2>3, <3>1 DEF StartCron, StartNewCron
    <3>3. local[r].wrote \in Nat
      BY DEF Shapes
    <3> QED
      BY <2>3, <3>2, <3>3 DEF StartCron, StartNewCron
  <2> QED
    BY <2>1, <2>2, <2>3 DEF ReloadStep
<1>4. CASE \E j \in Jobs : Tick(j) \/ JobEnds(j)
  BY <1>4 DEF Tick, JobEnds, storeVars
<1>5. CASE Restart
  BY <1>5, NoLocalsTyped DEF Restart, rowVars, NoCron, Reloading
<1>6. CASE UNCHANGED vars
  BY <1>6 DEF vars, storeVars, cronVars
<1> QED
  BY <1>1, <1>2, <1>3, <1>4, <1>5, <1>6 DEF Next, RequestStep, SchedulerStep

\* A step of r that keeps the active row: nobody gets new rows, r may leave its
\* transaction, and does not enter "commit", "save" or "delete".
Mild(r) ==
  /\ UNCHANGED active
  /\ \A q \in Requests \ {r} : pc'[q] = pc[q] /\ local'[q] = local[q]
  /\ \/ /\ pc'[r] \in {"idle", "deactivate"} \cup Reloading
        /\ r \in Requests => local'[r].turnedOff = {}
     \/ pc'[r] = pc[r] /\ local'[r] = local[r]

LEMMA MildKeeps ==
  ASSUME OneInv, NEW r, Mild(r), TypeInv',
         pc'[r] = "deactivate" => pc[r] = "deactivate" \/ MayActivate,
         ~WritesOverlap
  PROVE  OneInv'
<1> USE DEF OneInv, Mild
<1>1. LockInv'
  BY DEF LockInv, Written, InTransaction, Reloading
<1>2. WriterInv'
  BY DEF WriterInv, InStore, MayActivate, Writing, Activating, Reloading
<1>3. \A q \in Requests : pc'[q] = "commit" => \E s : ActiveFor(q)' = {s}
  <2>1. \A q \in Requests :
          pc'[q] = "commit" => pc[q] = "commit" /\ local'[q] = local[q]
    BY DEF Reloading
  <2> QED
    BY <2>1 DEF ActiveFor
<1> QED
  BY <1>1, <1>2, <1>3

LEMMA Returns ==
  ASSUME TypeInv, NEW r \in Reloaders, Return(r)
  PROVE  /\ pc'[r] = "idle"
         /\ local'[r].turnedOff = {}
         /\ \A q \in Requests \ {r} : pc'[q] = pc[q] /\ local'[q] = local[q]
BY DEF TypeInv, Return, Goto, NoLocals, Reloaders

LEMMA ReturnKeeps ==
  ASSUME OneInv, ~WritesOverlap, TypeInv', NEW r \in Reloaders, Return(r),
         UNCHANGED active
  PROVE  OneInv'
<1>1. Mild(r) /\ pc'[r] = "idle"
  BY Returns DEF Mild, OneInv
<1> QED
  BY <1>1, MildKeeps

LEMMA BeginKeeps ==
  ASSUME OneInv, ~WritesOverlap, TypeInv', NEW r \in Requests, ServiceBegins(r)
  PROVE  OneInv'
<1> USE DEF OneInv
<1>1. /\ pc[r] = "idle"
      /\ local[r].turnedOff = {}
      /\ UNCHANGED active
      /\ r \in Reloaders
  BY DEF ServiceBegins, Create, BeginUpdate, BeginActivate, BeginDelete,
         rowVars, LockInv, InTransaction, Reloaders
<1>2. CASE \E s \in Strategies : Create(r, s)
  <2>1. Mild(r) /\ pc'[r] = "idle"
    BY <1>1, <1>2 DEF Create, Mild
  <2> QED
    BY <2>1, MildKeeps
<1>3. CASE \E s \in Strategies : BeginActivate(r, s)
  <2>1. Mild(r) /\ MayActivate
    BY <1>1, <1>3 DEF BeginActivate, Mild, Goto, TypeInv, Shapes, Reloaders
  <2> QED
    BY <2>1, MildKeeps
<1>4. CASE \E s \in Strategies : BeginUpdate(r, s) \/ BeginDelete(r, s)
  <2>1. \A q \in Requests : ~InStore(q)
    BY <1>4 DEF BeginUpdate, BeginDelete, MayWrite
  <2>2. \A q \in Requests \ {r} : pc'[q] = pc[q] /\ local'[q] = local[q]
    BY <1>4 DEF BeginUpdate, BeginDelete, Goto, TypeInv, Reloaders
  <2>3. /\ pc'[r] \in Writing
        /\ local'[r].turnedOff = {}
        /\ pc'[r] = "save" => local'[r].wasActive = (local'[r].id \in active)
        /\ pc'[r] = "delete" => local'[r].id \notin active
    BY <1>1, <1>4 DEF BeginUpdate, BeginDelete, Goto, TypeInv, Shapes, Writing
  <2>4. LockInv'
    BY <1>1, <2>1, <2>2, <2>3
       DEF LockInv, Written, InTransaction, InStore, Activating, Writing
  <2>5. WriterInv'
    BY <1>1, <2>1, <2>2, <2>3 DEF WriterInv, InStore, Writing, Activating
  <2>6. \A q \in Requests : pc'[q] # "commit"
    BY <2>1, <2>2, <2>3 DEF InStore, Writing, Activating
  <2> QED
    BY <1>1, <2>4, <2>5, <2>6
<1> QED
  BY <1>2, <1>3, <1>4 DEF ServiceBegins

LEMMA DeactivateKeeps ==
  ASSUME OneInv, TypeInv', NEW r \in Requests, Deactivate(r)
  PROVE  OneInv'
<1> USE DEF OneInv
<1>1. /\ pc[r] = "deactivate"
      /\ pc'[r] = "activate"
      /\ UNCHANGED active
      /\ \A q \in Requests \ {r} : pc'[q] = pc[q] /\ local'[q] = local[q]
      /\ local'[r].turnedOff = local[r].snapshot \cap active
  BY DEF Deactivate, Goto, TypeInv, Shapes, Reloaders, rowVars
<1>2. \A q \in Requests \ {r} : Written(q)' = Written(q)
  BY <1>1 DEF Written
<1>3. /\ Written(r)' = local[r].snapshot \cap active
      /\ \A q \in Requests \ {r} : local[r].snapshot \cap Written(q) = {}
  BY <1>1 DEF Written, Deactivate, LockedByOthers
<1>4. LockInv'
  BY <1>1, <1>2, <1>3 DEF LockInv, InTransaction
<1>5. WriterInv'
  BY <1>1 DEF WriterInv, InStore, Writing, Activating
<1>6. \A q \in Requests : pc'[q] = "commit" => \E s : ActiveFor(q)' = {s}
  BY <1>1 DEF ActiveFor
<1> QED
  BY <1>1, <1>4, <1>5, <1>6

\* Statements of a transaction that go on inside it.
LEMMA TransactionKeeps ==
  ASSUME OneInv, ~WritesOverlap, TypeInv', NEW r \in Requests,
         ActivateRow(r) \/ CountActive(r)
  PROVE  OneInv'
<1>0. r \in Reloaders /\ UNCHANGED active
  BY DEF ActivateRow, CountActive, rowVars, Reloaders
<1>1. CASE Return(r)
  BY <1>0, <1>1, ReturnKeeps
<1>2. CASE ~Return(r)
  <2> USE DEF OneInv
  <2>1. /\ UNCHANGED <<active, local>>
        /\ \A q \in Requests \ {r} : pc'[q] = pc[q]
        /\ \/ pc[r] = "activate" /\ pc'[r] = "count"
           \/ pc[r] = "count" /\ pc'[r] = "commit"
    <3>1. \/ /\ pc[r] = "activate"
             /\ Goto(r, "count")
             /\ UNCHANGED local
          \/ /\ pc[r] = "count"
             /\ Goto(r, "commit")
             /\ UNCHANGED local
      BY <1>2 DEF ActivateRow, CountActive
    <3> QED
      BY <1>0, <3>1 DEF Goto, TypeInv, Reloaders
  <2>2. \A q \in Requests \ {r} : Written(q)' = Written(q)
    BY <2>1 DEF Written
  <2>3. \A q \in Requests \ {r} : Written(q) \cap Written(r)' = {}
    BY <2>1 DEF LockInv, Written, ActivateRow, CountActive, LockedByOthers
  <2>4. LockInv'
    BY <2>1, <2>2, <2>3 DEF LockInv, InTransaction
  <2>5. WriterInv'
    BY <2>1 DEF WriterInv, InStore, Writing, Activating
  <2>6. pc'[r] = "commit" => \E s : ActiveFor(r) = {s}
    <3>1. ActiveFor(r) \subseteq Strategies
      BY <1>0 DEF ActiveFor, TypeInv, Shapes
    <3> QED
      BY <1>2, <2>1, <3>1, Cardinal DEF CountActive, ActivateRow
  <2>7. \A q \in Requests : pc'[q] = "commit" => \E s : ActiveFor(q)' = {s}
    BY <2>1, <2>6 DEF ActiveFor
  <2> QED
    BY <2>1, <2>4, <2>5, <2>7
<1> QED
  BY <1>1, <1>2

\* Of two transactions only one can be about to commit, and then the others
\* have not deactivated anything.
LEMMA CommitsAlone ==
  ASSUME OneInv, NEW r \in Requests, pc[r] = "commit",
         NEW q \in Requests \ {r}
  PROVE  pc[q] # "commit" /\ local[q].turnedOff = {}
<1>1. PICK a : active = {a}
  BY DEF OneInv
<1>2. Written(q) \cap Written(r) = {}
  BY DEF OneInv, LockInv
<1>3. \A p \in Requests : pc[p] = "commit" => a \in Written(p)
  BY <1>1 DEF OneInv, LockInv, Written, ActiveFor
<1>4. a \notin Written(q)
  BY <1>2, <1>3
<1> QED
  BY <1>1, <1>3, <1>4 DEF OneInv, LockInv, Written

LEMMA CommitKeeps ==
  ASSUME OneInv, TypeInv', NEW r \in Requests, Commit(r)
  PROVE  OneInv'
<1> USE DEF OneInv
<1>1. /\ pc[r] = "commit"
      /\ pc'[r] \in {"lock", "idle"}
      /\ local'[r].turnedOff = {}
      /\ active' = ActiveFor(r)
      /\ \A q \in Requests \ {r} : pc'[q] = pc[q] /\ local'[q] = local[q]
  BY DEF Commit, Return, Goto, TypeInv, Shapes, Reloaders, NoLocals
<1>2. \A q \in Requests \ {r} : Written(q)' = Written(q)
  BY <1>1 DEF Written
<1>3. LockInv'
  <2>1. \A q \in Requests \ {r} : local'[q].turnedOff = {}
    BY <1>1, CommitsAlone
  <2>2. \A q \in Requests : local'[q].turnedOff = {}
    BY <1>1, <2>1
  <2>3. Written(r)' = {}
    BY <1>1 DEF Written
  <2>4. \A p, q \in Requests : p # q => Written(p)' \cap Written(q)' = {}
    <3>1. \A p, q \in Requests : p # q => Written(p) \cap Written(q) = {}
      BY DEF LockInv
    <3> QED
      BY <1>2, <2>3, <3>1
  <2> QED
    BY <2>2, <2>4 DEF LockInv
<1>4. WriterInv'
  BY <1>1 DEF WriterInv, InStore, Writing, Activating
<1>5. \A q \in Requests : pc'[q] # "commit"
  BY <1>1, CommitsAlone
<1> QED
  BY <1>1, <1>3, <1>4, <1>5

\* Update and Delete leave what is active.
LEMMA WritersKeep ==
  ASSUME OneInv, TypeInv', NEW r \in Requests, Save(r) \/ DeleteRow(r)
  PROVE  OneInv'
<1> USE DEF OneInv
<1>1. /\ pc[r] \in Writing
      /\ \A q \in Requests \ {r} : ~InStore(q)
      /\ local[r].turnedOff = {}
  BY DEF Save, DeleteRow, Writing, WriterInv, LockInv, InTransaction
<1>2. UNCHANGED active
  BY <1>1 DEF WriterInv, Save, DeleteRow
<1>3. /\ pc'[r] \in {"lock", "idle"}
      /\ local'[r].turnedOff = {}
      /\ \A q \in Requests \ {r} : pc'[q] = pc[q] /\ local'[q] = local[q]
  BY <1>1 DEF Save, DeleteRow, Return, Goto, TypeInv, Shapes, Reloaders, NoLocals
<1>4. LockInv'
  BY <1>1, <1>2, <1>3
     DEF LockInv, Written, InTransaction, InStore, Activating, Writing
<1>5. WriterInv'
  BY <1>1, <1>2, <1>3 DEF WriterInv, InStore, Writing, Activating
<1>6. \A q \in Requests : pc'[q] # "commit"
  BY <1>1, <1>3 DEF InStore, Activating
<1> QED
  BY <1>2, <1>4, <1>5, <1>6

LEMMA ReloadKeeps ==
  ASSUME OneInv, ~WritesOverlap, TypeInv', NEW r \in Reloaders, ReloadStep(r)
  PROVE  OneInv'
<1>1. CASE Return(r)
  BY <1>1, ReturnKeeps
     DEF ReloadStep, LockMutex, ReadActive, StopCron, StartCron, StartNewCron,
         rowVars
<1>2. CASE ~Return(r)
  <2>1. pc[r] \in Reloading
    BY DEF ReloadStep, LockMutex, ReadActive, StopCron, StartCron, Reloading
  <2>2. \E there \in Reloading : Goto(r, there)
    BY <1>2 DEF ReloadStep, LockMutex, ReadActive, StopCron, StartCron,
                StartNewCron, Reloading
  <2>3. UNCHANGED local \/ local' = [local EXCEPT ![r].loaded = FirstActive,
                                                  ![r].loadedVersion = version]
    BY <1>2 DEF ReloadStep, LockMutex, ReadActive, StopCron, StartCron,
                StartNewCron
  <2>4. r \in Requests => local[r].turnedOff = {}
    BY <2>1 DEF OneInv, LockInv, InTransaction, Reloading
  <2>5. local'[r].turnedOff = local[r].turnedOff
    BY <2>3 DEF OneInv, TypeInv, Shapes
  <2>6. /\ pc'[r] \in Reloading
        /\ \A q \in Requests \ {r} : pc'[q] = pc[q] /\ local'[q] = local[q]
    BY <2>2, <2>3 DEF Goto, OneInv, TypeInv, Reloaders
  <2>7. UNCHANGED active
    BY DEF ReloadStep, LockMutex, ReadActive, StopCron, StartCron,
           StartNewCron, rowVars
  <2>8. Mild(r) /\ pc'[r] # "deactivate"
    BY <2>4, <2>5, <2>6, <2>7 DEF Mild, Reloading
  <2> QED
    BY <2>8, MildKeeps
<1> QED
  BY <1>1, <1>2

LEMMA OneInvNext ==
  ASSUME OneInv, [Next]_vars, ~WritesOverlap
  PROVE  OneInv'
<1>0. TypeInv'
  BY TypeStep DEF OneInv
<1>1. ASSUME NEW r \in Requests, ServiceBegins(r) \/ ServiceStep(r)
      PROVE  OneInv'
  <2>1. r \in Reloaders
    BY DEF Reloaders
  <2> QED
    BY <1>0, <1>1, <2>1, BeginKeeps, DeactivateKeeps, TransactionKeeps,
       CommitKeeps, WritersKeep, ReturnKeeps
       DEF ServiceStep, StatementFails, rowVars
<1>2. ASSUME NEW r \in Reloaders, ReloadStep(r)
      PROVE  OneInv'
  BY <1>0, <1>2, ReloadKeeps
<1>3. CASE UNCHANGED storeVars
  BY <1>0, <1>3
     DEF storeVars, OneInv, LockInv, WriterInv, Written, InStore, ActiveFor
<1>4. CASE Restart
  <2>1. \A r \in Requests : pc'[r] = "idle" /\ local'[r] = NoLocals
    BY <1>4, RequestsAssumption DEF Restart, Reloaders, Startup
  <2>2. UNCHANGED active
    BY <1>4 DEF Restart, rowVars
  <2>3. LockInv'
    BY <2>1 DEF LockInv, NoLocals, Written, InTransaction
  <2>4. WriterInv'
    BY <2>1 DEF WriterInv, Writing
  <2> QED
    BY <1>0, <2>1, <2>2, <2>3, <2>4 DEF OneInv
<1> QED
  BY <1>1, <1>2, <1>3, <1>4 DEF Next, RequestStep, SchedulerStep, Tick, JobEnds,
     vars

LEMMA OneInvHolds ==
  ASSUME ~WritesOverlap
  PROVE  Spec => []OneInv
<1>1. OneInv /\ [Next]_vars => OneInv'
  BY OneInvNext
<1> QED
  BY <1>1, OneInvInit, PTL DEF Spec

\* Activations that overlap leave one strategy active.
THEOREM OneStrategyIsActive ==
  ASSUME ~WritesOverlap
  PROVE  Spec => []ExactlyOneActive
<1>1. OneInv => ExactlyOneActive
  BY Cardinal DEF OneInv, TypeInv, ExactlyOneActive
<1> QED
  BY <1>1, OneInvHolds, PTL

----------------------------------------------------------------------------
(* The jobs and the cron *)

\* JobsBelongToCron is inductive: a new cron starts when no job runs.
JobInv ==
  /\ job = [j \in Jobs |-> job[j]]
  /\ JobsBelongToCron

\* A job that runs was started by the present cron, whatever is done to the
\* strategies.
THEOREM JobsKeepTheirCron == Spec => []JobsBelongToCron
<1>1. Init => JobInv
  BY DEF Init, JobInv, JobsBelongToCron
<1>2. JobInv /\ [Next]_vars => JobInv'
  <2> SUFFICES ASSUME JobInv, [Next]_vars
               PROVE  JobInv'
    OBVIOUS
  <2> USE DEF JobInv, JobsBelongToCron
  <2>1. CASE \E r \in Reloaders : ReloadStep(r)
    BY <2>1 DEF ReloadStep, LockMutex, ReadActive, StopCron, StartCron,
                StartNewCron
  <2>2. CASE \E j \in Jobs : Tick(j)
    BY <2>2 DEF Tick
  <2>3. CASE \E j \in Jobs : JobEnds(j)
    BY <2>3 DEF JobEnds
  <2>4. CASE Restart
    BY <2>4 DEF Restart
  <2>5. CASE UNCHANGED cronVars
    BY <2>5 DEF cronVars
  <2> QED
    BY <2>1, <2>2, <2>3, <2>4, <2>5
       DEF Next, RequestStep, SchedulerStep, vars
<1>3. JobInv => JobsBelongToCron
  BY DEF JobInv
<1> QED
  BY <1>1, <1>2, <1>3, PTL DEF Spec

----------------------------------------------------------------------------
(* What a client was told of *)

\* The mutex has one holder; what it has read of the table is as new as all
\* that clients were told of, and as its own change.
AckInv ==
  /\ \A r \in Reloaders :
       /\ pc[r] \in {"read", "stop", "wait"} <=> mu = r
       /\ local[r].wrote <= version
       /\ pc[r] \in {"stop", "wait"} =>
            local[r].loadedVersion >= acked /\ local[r].loadedVersion >= local[r].wrote
  /\ acked <= version
  /\ AcknowledgedIsEffective

LEMMA AckInit == Init => AckInv
BY RequestsAssumption, FreeAssumption
   DEF Init, StoreInit, Reloaders, Startup, Free, AckInv, NoLocals,
       AcknowledgedIsEffective

\* A step of r outside of Reload.
Outside(r) ==
  /\ pc[r] \notin {"read", "stop", "wait"}
  /\ pc'[r] \notin {"read", "stop", "wait"}
  /\ \A q \in Reloaders \ {r} : pc'[q] = pc[q] /\ local'[q] = local[q]
  /\ version' \in {version, version + 1}
  /\ local'[r].wrote <= version'
  /\ UNCHANGED acked

LEMMA ServiceIsOutside ==
  ASSUME OneInv, AckInv, NEW r \in Requests, ServiceBegins(r) \/ ServiceStep(r)
  PROVE  Outside(r)
<1> USE DEF OneInv, TypeInv, AckInv, Outside, Goto, rowVars
<1>0. r \in Reloaders
  BY DEF Reloaders
<1>1. CASE \E s \in Strategies : Create(r, s)
  BY <1>0, <1>1 DEF Create
<1>2. CASE \E s \in Strategies :
             BeginUpdate(r, s) \/ BeginActivate(r, s) \/ BeginDelete(r, s)
  BY <1>0, <1>2 DEF BeginUpdate, BeginActivate, BeginDelete, Shapes
<1>3. ASSUME Return(r)
      PROVE  /\ pc'[r] = "idle"
             /\ local'[r].wrote = 0
             /\ \A q \in Reloaders \ {r} : pc'[q] = pc[q] /\ local'[q] = local[q]
  BY <1>0, <1>3 DEF Return, NoLocals
<1>4. CASE Save(r)
  <2>1. UNCHANGED acked
    BY <1>4 DEF Save, WriterInv
  <2>2. CASE Return(r)
    BY <1>3, <1>4, <2>1, <2>2 DEF Save
  <2>3. CASE ~Return(r)
    BY <1>0, <1>4, <2>1, <2>3 DEF Save, Shapes
  <2> QED
    BY <2>2, <2>3
<1>5. CASE Deactivate(r)
  BY <1>0, <1>5 DEF Deactivate, Shapes
<1>6. CASE ActivateRow(r) \/ CountActive(r)
  BY <1>0, <1>3, <1>6 DEF ActivateRow, CountActive
<1>7. CASE Commit(r)
  <2>1. CASE Return(r)
    BY <1>3, <1>7, <2>1 DEF Commit
  <2>2. CASE ~Return(r)
    BY <1>0, <1>7, <2>2 DEF Commit, Shapes
  <2> QED
    BY <2>1, <2>2
<1>8. CASE DeleteRow(r) \/ StatementFails(r)
  BY <1>3, <1>8 DEF DeleteRow, StatementFails, InStore, Writing, Activating
<1> QED
  BY <1>1, <1>2, <1>4, <1>5, <1>6, <1>7, <1>8 DEF ServiceBegins, ServiceStep

LEMMA AckServiceStep ==
  ASSUME OneInv, AckInv, NEW r \in Requests, Outside(r), UNCHANGED cronVars
  PROVE  AckInv'
<1>1. version \in Nat /\ \A q \in Reloaders : local[q].wrote \in Nat
  BY DEF OneInv, TypeInv, Shapes
<1>2. acked \in Nat /\ acked' <= version'
  BY <1>1 DEF Outside, OneInv, TypeInv, AckInv
<1>3. \A q \in Reloaders \ {r} : local'[q].wrote <= version'
  BY <1>1 DEF Outside, AckInv
<1>4. r \in Reloaders
  BY DEF Reloaders
<1> QED
  BY <1>2, <1>3, <1>4 DEF Outside, AckInv, cronVars, AcknowledgedIsEffective

LEMMA AckReloadStep ==
  ASSUME OneInv, AckInv, TypeInv', NEW r \in Reloaders, ReloadStep(r)
  PROVE  AckInv'
<1> USE DEF OneInv, TypeInv, AckInv
<1>0. /\ Free \notin Reloaders
      /\ version \in Nat /\ acked \in Nat
      /\ \A q \in Reloaders : local[q].wrote \in Nat
  BY FreeAssumption DEF Reloaders, Free, Startup, Shapes
<1>1. \A q \in Reloaders \ {r} : pc'[q] = pc[q] /\ local'[q] = local[q]
  BY DEF ReloadStep, LockMutex, ReadActive, StopCron, StartCron, StartNewCron,
         Return, Goto
<1>2. CASE LockMutex(r)
  <2>1. /\ mu = Free /\ mu' = r
        /\ pc'[r] = "read"
        /\ UNCHANGED <<local, version, acked, cron>>
    BY <1>2 DEF LockMutex, Goto
  <2> QED
    BY <1>0, <1>1, <2>1 DEF AcknowledgedIsEffective
<1>3. CASE ReadActive(r) /\ ~Return(r)
  <2>1. /\ mu = r /\ mu' = r
        /\ pc'[r] = "stop"
        /\ local'[r].loadedVersion = version
        /\ local'[r].wrote = local[r].wrote
        /\ UNCHANGED <<version, acked, cron>>
    BY <1>3 DEF ReadActive, Goto, Shapes
  <2> QED
    BY <1>0, <1>1, <2>1 DEF AcknowledgedIsEffective
<1>4. CASE ReadActive(r) /\ Return(r)
  <2>1. /\ mu = r /\ mu' = Free
        /\ pc'[r] = "idle"
        /\ local'[r].wrote = 0
        /\ UNCHANGED <<version, acked, cron>>
    BY <1>4 DEF ReadActive, Goto, Return, NoLocals
  <2> QED
    BY <1>0, <1>1, <2>1 DEF AcknowledgedIsEffective
<1>5. CASE StopCron(r)
  BY <1>1, <1>5 DEF StopCron, Goto, AcknowledgedIsEffective
<1>6. CASE StartCron(r)
  <2>1. /\ mu = r /\ mu' = Free
        /\ pc'[r] = "idle"
        /\ local'[r].wrote = 0
        /\ cron'.version = local[r].loadedVersion
        /\ acked' \in {acked, local[r].wrote}
        /\ UNCHANGED version
    BY <1>6 DEF StartCron, StartNewCron, Goto, Return, NoLocals
  <2>2. acked' <= version' /\ cron'.version >= acked'
    BY <1>6, <2>1 DEF StartCron
  <2>3. \A q \in Reloaders : pc'[q] \notin {"read", "stop", "wait"}
    BY <1>1, <2>1
  <2>4. \A q \in Reloaders : local'[q].wrote <= version'
    BY <1>0, <1>1, <2>1
  <2> QED
    BY <1>0, <2>1, <2>2, <2>3, <2>4 DEF AcknowledgedIsEffective
<1> QED
  BY <1>2, <1>3, <1>4, <1>5, <1>6 DEF ReloadStep

LEMMA AckNext ==
  ASSUME OneInv, OneInv', AckInv, [Next]_vars
  PROVE  AckInv'
<1>0. TypeInv'
  BY DEF OneInv
<1>1. CASE Restart
  BY <1>1, RequestsAssumption, FreeAssumption
     DEF Restart, OneInv, TypeInv, Reloaders, Startup, Free, AckInv, NoLocals,
         AcknowledgedIsEffective
<1>2. CASE UNCHANGED <<storeVars, mu, cron>>
  BY <1>2 DEF storeVars, AckInv, AcknowledgedIsEffective
<1> QED
  BY <1>0, <1>1, <1>2, ServiceIsOutside, AckServiceStep, AckReloadStep
     DEF Next, RequestStep, SchedulerStep, Tick, JobEnds, vars, cronVars

\* The cron that ticks is as new as every change that a client was told of.
THEOREM AcknowledgedChangesTick ==
  ASSUME ~WritesOverlap
  PROVE  Spec => []AcknowledgedIsEffective
<1>1. OneInv /\ OneInv' /\ AckInv /\ [Next]_vars => AckInv'
  BY AckNext
<1>2. AckInv => AcknowledgedIsEffective
  BY DEF AckInv
<1> QED
  BY <1>1, <1>2, AckInit, OneInvHolds, PTL DEF Spec

----------------------------------------------------------------------------
(* The types and the bounds *)

\* What is active is in the table, and so is what a transaction is about to
\* activate: its row is locked, and nobody deletes it.
RowInv ==
  /\ active \subseteq exists
  /\ \A r \in Requests : pc[r] \in {"count", "commit"} => local[r].id \in exists

\* Requests that may change what is active yet; each has its number reserved.
Pending == {r \in Requests : pc[r] \in {"save"} \cup Activating}
ChangeInv == version + Cardinality(Pending) <= MaxChanges

\* Nobody knows of a change that is not committed.
NumberInv ==
  /\ acked <= version
  /\ \A r \in Reloaders : local[r].wrote <= version /\ local[r].loadedVersion <= version
  /\ cron.version <= version
  /\ \A j \in Jobs : job[j].version <= version

CronInv ==
  /\ mu \in Reloaders \cup {Free}
  /\ stopped \in BOOLEAN
  /\ job \in [Jobs -> [strategy : Strategies \cup {0}, version : Nat]]
  /\ restarts \in 0..MaxRestarts

BoundInv == TypeInv /\ RowInv /\ ChangeInv /\ NumberInv /\ CronInv

LEMMA BoundInit == Init => BoundInv
<1> SUFFICES ASSUME Init
             PROVE  BoundInv
  OBVIOUS
<1> USE RequestsAssumption, MaxStrategiesAssumption, MaxChangesAssumption,
        MaxRestartsAssumption
    DEF Init, StoreInit, Reloaders, Startup
<1>1. TypeInv
  BY OneInvInit DEF OneInv
<1>2. \A r \in Requests : pc[r] = "idle"
  OBVIOUS
<1>3. RowInv
  BY <1>2 DEF RowInv
<1>4. ChangeInv
  <2>1. Pending = {}
    BY <1>2 DEF Pending, Activating
  <2> QED
    BY <2>1, FS_EmptySet DEF ChangeInv
<1>5. NumberInv
  BY DEF NumberInv, NoLocals, NoCron
<1>6. CronInv
  <2>1. NoCron \in [strategy : Strategies \cup {0}, version : Nat]
    BY DEF NoCron
  <2>2. job \in [Jobs -> [strategy : Strategies \cup {0}, version : Nat]]
    BY <2>1
  <2>3. restarts \in 0..MaxRestarts /\ mu = Free /\ stopped = FALSE
    OBVIOUS
  <2> QED
    BY ONLY <2>2, <2>3 DEF CronInv
<1> QED
  BY <1>1, <1>3, <1>4, <1>5, <1>6 DEF BoundInv

LEMMA OthersKeep ==
  ASSUME TypeInv, NEW r \in Requests, ServiceBegins(r) \/ ServiceStep(r)
  PROVE  \A q \in Reloaders \ {r} : pc'[q] = pc[q] /\ local'[q] = local[q]
BY DEF TypeInv, ServiceBegins, Create, BeginUpdate, BeginActivate, BeginDelete,
       ServiceStep, Save, Deactivate, ActivateRow, CountActive, Commit,
       DeleteRow, StatementFails, Return, Goto, Reloaders

LEMMA RowServiceStep ==
  ASSUME TypeInv, RowInv, NEW r \in Requests, ServiceBegins(r) \/ ServiceStep(r)
  PROVE  RowInv'
<1> USE DEF TypeInv, RowInv, rowVars
<1>1. r \in Reloaders
  BY DEF Reloaders
<1>2. \A q \in Requests \ {r} : pc'[q] = pc[q] /\ local'[q] = local[q]
  BY OthersKeep DEF Reloaders
<1>3. /\ active' \subseteq exists'
      /\ exists' = exists \/ (\E s : exists' = exists \cup {s}) \/ DeleteRow(r)
  BY DEF ServiceBegins, Create, BeginUpdate, BeginActivate, BeginDelete,
       ServiceStep, Save, Deactivate, ActivateRow, CountActive, Commit,
       DeleteRow, StatementFails, ActiveFor
<1>4. \A q \in Requests \ {r} : pc'[q] \in {"count", "commit"} => local'[q].id \in exists'
  <2>1. ASSUME NEW q \in Requests \ {r}, pc[q] \in {"count", "commit"}, DeleteRow(r)
        PROVE  local[q].id # local[r].id
    BY <2>1 DEF DeleteRow, LockedByOthers, Written
  <2> QED
    BY <1>2, <1>3, <2>1 DEF DeleteRow
<1>5. ASSUME Return(r)
      PROVE  pc'[r] = "idle"
  BY <1>1, <1>5 DEF Return, Goto
<1>6. pc'[r] \in {"count", "commit"} => local'[r].id \in exists'
  BY <1>1, <1>5 DEF ServiceBegins, Create, BeginUpdate, BeginActivate, BeginDelete,
       ServiceStep, Save, Deactivate, ActivateRow, CountActive, Commit,
       DeleteRow, StatementFails, Goto
<1> QED
  BY <1>3, <1>4, <1>6

\* How many requests are pending when one of them moves.
LEMMA PendingMoves ==
  ASSUME NEW r \in Requests, \A q \in Requests \ {r} : pc'[q] = pc[q]
  PROVE  /\ IsFiniteSet(Pending) /\ Cardinality(Pending) \in Nat
         /\ Cardinality(Pending)' \in Nat
         /\ r \in Pending /\ r \notin Pending' =>
              Cardinality(Pending)' = Cardinality(Pending) - 1
         /\ r \notin Pending /\ r \in Pending' =>
              Cardinality(Pending)' = Cardinality(Pending) + 1
         /\ (r \in Pending <=> r \in Pending') =>
              Cardinality(Pending)' = Cardinality(Pending)
<1>1. IsFiniteSet(Pending) /\ IsFiniteSet(Pending')
  BY RequestsAssumption, FS_Subset DEF Pending
<1>2. Pending \ {r} = Pending' \ {r}
  BY DEF Pending
<1>3. Cardinality(Pending)' = Cardinality(Pending')
  OBVIOUS
<1>4. Cardinality(Pending) \in Nat /\ Cardinality(Pending') \in Nat
  BY <1>1, FS_CardinalityType
<1>5. ASSUME r \in Pending, r \notin Pending'
      PROVE  Cardinality(Pending') = Cardinality(Pending) - 1
  <2>1. Pending' = Pending \ {r}
    BY <1>2, <1>5
  <2> QED
    BY <1>1, <1>5, <2>1, FS_RemoveElement
<1>6. ASSUME r \notin Pending, r \in Pending'
      PROVE  Cardinality(Pending') = Cardinality(Pending) + 1
  <2>1. Pending' = Pending \cup {r}
    BY <1>2, <1>6
  <2> QED
    BY <1>1, <1>6, <2>1, FS_AddElement
<1>7. ASSUME r \in Pending <=> r \in Pending'
      PROVE  Pending' = Pending
  BY <1>2, <1>7
<1> QED
  BY <1>1, <1>3, <1>4, <1>5, <1>6, <1>7

LEMMA MayChangeBound ==
  ASSUME TypeInv, MayChange
  PROVE  version + Cardinality(Pending) < MaxChanges
<1> DEFINE inStore == {q \in Requests : InStore(q)}
<1>1. IsFiniteSet(inStore) /\ Pending \subseteq inStore
  BY RequestsAssumption, FS_Subset DEF Pending, InStore, Writing
<1>2. /\ Cardinality(Pending) <= Cardinality(inStore)
      /\ Cardinality(Pending) \in Nat /\ Cardinality(inStore) \in Nat
  BY <1>1, FS_Subset, FS_CardinalityType
<1>3. version + Cardinality(inStore) < MaxChanges /\ version \in Nat
  BY DEF MayChange, TypeInv
<1> HIDE DEF inStore
<1> QED
  BY <1>2, <1>3, MaxChangesAssumption

LEMMA ChangeServiceStep ==
  ASSUME TypeInv, ChangeInv, NEW r \in Requests, ServiceBegins(r) \/ ServiceStep(r)
  PROVE  ChangeInv' /\ version' \in {version, version + 1}
<1>0. r \in Reloaders /\ \A q \in Requests \ {r} : pc'[q] = pc[q]
  BY OthersKeep DEF Reloaders
<1> DEFINE pending(there) == there \in {"save"} \cup Activating
<1>1. /\ r \in Pending <=> pending(pc[r])
      /\ r \in Pending' <=> pending(pc'[r])
  BY DEF Pending
<1>2. \/ version' = version /\ (pending(pc'[r]) => pending(pc[r]))
      \/ version' = version + 1 /\ pending(pc[r]) /\ ~pending(pc'[r])
      \/ version' = version /\ MayChange
  <2> USE DEF TypeInv, Goto
  <2>1. ASSUME Return(r)
        PROVE  ~pending(pc'[r])
    BY <1>0, <2>1 DEF Return, Activating
  <2>2. CASE ServiceBegins(r)
    BY <1>0, <2>2 DEF ServiceBegins, Create, BeginUpdate, BeginActivate,
                      BeginDelete, Activating
  <2>3. CASE Save(r) \/ Commit(r)
    BY <1>0, <2>1, <2>3 DEF Save, Commit, Activating
  <2>4. CASE Deactivate(r) \/ ActivateRow(r) \/ CountActive(r)
    BY <1>0, <2>1, <2>4 DEF Deactivate, ActivateRow, CountActive, Activating
  <2>5. CASE DeleteRow(r) \/ StatementFails(r)
    BY <1>0, <2>1, <2>5 DEF DeleteRow, StatementFails
  <2> QED
    BY <2>2, <2>3, <2>4, <2>5 DEF ServiceStep
<1>3. version \in Nat /\ MaxChanges \in Nat
  BY MaxChangesAssumption DEF TypeInv
<1>4. MayChange => version + Cardinality(Pending) < MaxChanges
  BY MayChangeBound
<1> DEFINE many == Cardinality(Pending)
           then == Cardinality(Pending)'
<1>5. /\ many \in Nat /\ then \in Nat
      /\ pending(pc[r]) /\ ~pending(pc'[r]) => then = many - 1
      /\ ~pending(pc[r]) /\ pending(pc'[r]) => then = many + 1
      /\ (pending(pc[r]) <=> pending(pc'[r])) => then = many
  BY <1>0, <1>1, PendingMoves
<1>6. version + many <= MaxChanges
  BY DEF ChangeInv
<1>7. (MayChange => version + many < MaxChanges)
  BY <1>4
<1> HIDE DEF many, then, pending
<1>8. version' + then <= MaxChanges /\ version' \in {version, version + 1}
  BY <1>2, <1>3, <1>5, <1>6, <1>7
<1> QED
  BY <1>8 DEF ChangeInv, then

LEMMA NumberServiceStep ==
  ASSUME TypeInv, TypeInv', NumberInv, CronInv, version' \in {version, version + 1},
         NEW r \in Requests, ServiceBegins(r) \/ ServiceStep(r),
         UNCHANGED <<cronVars, restarts>>
  PROVE  NumberInv' /\ CronInv'
<1>1. /\ version \in Nat /\ acked \in Nat /\ cron.version \in Nat
      /\ \A q \in Reloaders : local[q].wrote \in Nat /\ local[q].loadedVersion \in Nat
      /\ \A j \in Jobs : job[j].version \in Nat
  BY DEF TypeInv, CronInv, Shapes
<1>2. r \in Reloaders
  BY DEF Reloaders
<1>3. \A q \in Reloaders \ {r} : local'[q] = local[q]
  BY OthersKeep
<1>4. /\ acked' \in {acked, version'}
      /\ local'[r].wrote \in {local[r].wrote, version', 0}
      /\ local'[r].loadedVersion \in {local[r].loadedVersion, 0}
  <2> USE <1>2 DEF TypeInv, Shapes, rowVars
  <2>1. ASSUME Return(r)
        PROVE  local'[r].wrote = 0 /\ local'[r].loadedVersion = 0
    BY <2>1 DEF Return, NoLocals
  <2>2. CASE \E s \in Strategies : Create(r, s)
    BY <2>2 DEF Create
  <2>3. CASE \E s \in Strategies : BeginUpdate(r, s)
    BY <2>3 DEF BeginUpdate
  <2>4. CASE \E s \in Strategies : BeginActivate(r, s) \/ BeginDelete(r, s)
    BY <2>4 DEF BeginActivate, BeginDelete
  <2>5. CASE Save(r)
    BY <2>1, <2>5 DEF Save
  <2>6. CASE Commit(r)
    BY <2>1, <2>6 DEF Commit
  <2>7. CASE Deactivate(r)
    BY <2>7 DEF Deactivate
  <2>8. CASE ActivateRow(r) \/ CountActive(r)
    BY <2>1, <2>8 DEF ActivateRow, CountActive
  <2>9. CASE DeleteRow(r) \/ StatementFails(r)
    BY <2>1, <2>9 DEF DeleteRow, StatementFails
  <2> QED
    BY <2>2, <2>3, <2>4, <2>5, <2>6, <2>7, <2>8, <2>9 DEF ServiceBegins, ServiceStep
<1>5. local'[r].wrote <= version' /\ local'[r].loadedVersion <= version'
  BY <1>1, <1>2, <1>4 DEF NumberInv
<1>6. \A q \in Reloaders : local'[q].wrote <= version' /\ local'[q].loadedVersion <= version'
  BY <1>1, <1>3, <1>5 DEF NumberInv
<1>7. acked' <= version' /\ cron'.version <= version' /\ \A j \in Jobs : job'[j].version <= version'
  BY <1>1, <1>4 DEF NumberInv, cronVars
<1>8. CronInv'
  BY DEF CronInv, cronVars
<1> QED
  BY <1>6, <1>7, <1>8 DEF NumberInv

LEMMA BoundReloadStep ==
  ASSUME BoundInv, TypeInv', NEW r \in Reloaders, ReloadStep(r), UNCHANGED restarts
  PROVE  BoundInv'
<1> USE DEF BoundInv
<1>1. /\ UNCHANGED <<exists, active, version, job>>
      /\ \A q \in Reloaders \ {r} : pc'[q] = pc[q] /\ local'[q] = local[q]
      /\ pc[r] \in Reloading
      /\ pc'[r] \in {"idle"} \cup Reloading
  BY DEF ReloadStep, LockMutex, ReadActive, StopCron, StartCron, StartNewCron,
         Return, Goto, rowVars, Reloading, TypeInv
<1>2. RowInv'
  BY <1>1 DEF RowInv, Reloaders, Reloading
<1>3. Pending' = Pending
  BY <1>1 DEF Pending, Reloaders, Reloading, Activating
<1>4. ChangeInv'
  BY <1>1, <1>3 DEF ChangeInv
<1>5. /\ version \in Nat /\ acked \in Nat
      /\ \A q \in Reloaders : local[q].wrote \in Nat /\ local[q].loadedVersion \in Nat
  BY DEF TypeInv, Shapes
<1>6. /\ local'[r].wrote \in {local[r].wrote, 0}
      /\ local'[r].loadedVersion \in {local[r].loadedVersion, version, 0}
  <2> USE DEF TypeInv, Shapes
  <2>1. ASSUME Return(r)
        PROVE  local'[r].wrote = 0 /\ local'[r].loadedVersion = 0
    BY <2>1 DEF Return, NoLocals
  <2>2. CASE LockMutex(r) \/ StopCron(r)
    BY <2>2 DEF LockMutex, StopCron
  <2>3. CASE ReadActive(r)
    BY <2>1, <2>3 DEF ReadActive
  <2>4. CASE StartCron(r)
    BY <2>1, <2>4 DEF StartCron, StartNewCron
  <2> QED
    BY <2>2, <2>3, <2>4 DEF ReloadStep
<1>7. /\ acked' \in {acked, local[r].wrote}
      /\ cron'.version \in {cron.version, local[r].loadedVersion}
      /\ mu' \in Reloaders \cup {Free}
  BY DEF ReloadStep, LockMutex, ReadActive, StopCron, StartCron, StartNewCron,
         CronInv
<1>8. CronInv'
  <2>1. stopped' \in {stopped, FALSE, cron # NoCron}
    BY DEF ReloadStep, LockMutex, ReadActive, StopCron, StartCron, StartNewCron
  <2>2. stopped' \in BOOLEAN
    BY ONLY <2>1, BoundInv DEF BoundInv, CronInv
  <2> QED
    BY <1>1, <1>7, <2>2 DEF CronInv
<1>9. acked' <= version' /\ cron'.version <= version'
  BY <1>1, <1>5, <1>7 DEF NumberInv
<1>10. \A q \in Reloaders : local'[q].wrote <= version' /\ local'[q].loadedVersion <= version'
  BY <1>1, <1>5, <1>6 DEF NumberInv
<1>11. NumberInv'
  BY <1>1, <1>9, <1>10 DEF NumberInv
<1> QED
  BY <1>2, <1>4, <1>8, <1>11

LEMMA BoundNext ==
  ASSUME BoundInv, [Next]_vars
  PROVE  BoundInv'
<1>1. TypeInv'
  BY TypeStep DEF BoundInv
<1>2. ASSUME NEW r \in Requests, ServiceBegins(r) \/ ServiceStep(r),
             UNCHANGED <<cronVars, restarts>>
      PROVE  BoundInv'
  <2>1. ChangeInv' /\ version' \in {version, version + 1}
    BY <1>2, ChangeServiceStep DEF BoundInv
  <2>2. RowInv'
    BY <1>2, RowServiceStep DEF BoundInv
  <2>3. NumberInv' /\ CronInv'
    BY <1>1, <1>2, <2>1, NumberServiceStep DEF BoundInv
  <2> QED
    BY <1>1, <2>1, <2>2, <2>3 DEF BoundInv
<1>3. ASSUME NEW r \in Reloaders, ReloadStep(r), UNCHANGED restarts
      PROVE  BoundInv'
  BY <1>1, <1>3, BoundReloadStep
<1>4. ASSUME NEW j \in Jobs, Tick(j) \/ JobEnds(j), UNCHANGED restarts
      PROVE  BoundInv'
  <2>1. /\ UNCHANGED <<storeVars, mu, cron, stopped, restarts>>
        /\ job' = [job EXCEPT ![j] = cron] \/ job' = [job EXCEPT ![j] = NoCron]
    BY <1>4 DEF Tick, JobEnds
  <2>2. /\ NoCron \in [strategy : Strategies \cup {0}, version : Nat]
        /\ NoCron.version <= version
    BY DEF NoCron, BoundInv, TypeInv
  <2>3. CronInv'
    BY <2>1, <2>2 DEF CronInv, BoundInv, TypeInv
  <2>4. \A k \in Jobs : job'[k].version <= version'
    BY <2>1, <2>2 DEF CronInv, NumberInv, BoundInv, storeVars
  <2>5. NumberInv'
    BY <2>1, <2>4 DEF NumberInv, BoundInv, storeVars
  <2>6. RowInv' /\ ChangeInv'
    BY <2>1 DEF RowInv, ChangeInv, Pending, BoundInv, storeVars
  <2> QED
    BY <1>1, <2>3, <2>5, <2>6 DEF BoundInv
<1>5. CASE Restart
  <2> USE RequestsAssumption, MaxRestartsAssumption
      DEF Restart, Reloaders, rowVars, BoundInv
  <2>1. \A r \in Requests : pc'[r] = "idle"
    BY <1>5
  <2>2. RowInv'
    BY <1>5, <2>1 DEF RowInv
  <2>3. Pending' = {}
    BY <2>1 DEF Pending, Activating
  <2>4. ChangeInv'
    <3>1. Cardinality(Pending)' = 0
      BY <2>3, FS_EmptySet
    <3>2. Cardinality(Pending) \in Nat
      BY RequestsAssumption, FS_Subset, FS_CardinalityType DEF Pending
    <3>3. version' = version /\ version \in Nat /\ version + Cardinality(Pending) <= MaxChanges
      BY <1>5 DEF ChangeInv, TypeInv
    <3> QED
      BY <3>1, <3>2, <3>3, MaxChangesAssumption DEF ChangeInv
  <2>5. NumberInv'
    BY <1>5 DEF NumberInv, NoLocals, NoCron, TypeInv
  <2>6. CronInv'
    <3>1. NoCron \in [strategy : Strategies \cup {0}, version : Nat]
      BY DEF NoCron
    <3>2. job' \in [Jobs -> [strategy : Strategies \cup {0}, version : Nat]]
      BY <1>5, <3>1
    <3>3. restarts' \in 0..MaxRestarts /\ mu' = Free /\ stopped' = FALSE
      BY <1>5 DEF CronInv
    <3> QED
      BY ONLY <3>2, <3>3 DEF CronInv
  <2> QED
    BY <1>1, <2>2, <2>4, <2>5, <2>6
<1>6. CASE UNCHANGED vars
  BY <1>1, <1>6 DEF vars, storeVars, cronVars, BoundInv, RowInv, ChangeInv, Pending,
                    NumberInv, CronInv
<1> QED
  BY <1>2, <1>3, <1>4, <1>5, <1>6 DEF Next, RequestStep, SchedulerStep

\* Every variable keeps its type, whatever the requests do to each other: what is
\* active is in the table, and the changes stay within their bound because each
\* request reserved the number of the change it may commit.
THEOREM SchedulerTypeCorrect == Spec => []TypeOK
<1>1. BoundInv => TypeOK
  <2> SUFFICES ASSUME BoundInv
               PROVE  TypeOK
    OBVIOUS
  <2> USE DEF BoundInv
  <2>1. version \in Nat /\ version <= MaxChanges
    <3>1. Cardinality(Pending) \in Nat
      BY RequestsAssumption, FS_Subset, FS_CardinalityType DEF Pending
    <3> QED
      BY <3>1, MaxChangesAssumption DEF ChangeInv, TypeInv
  <2>2. \A n \in Nat : n <= version => n \in 0..MaxChanges
    BY <2>1, MaxChangesAssumption
  <2>3. local \in [Reloaders -> Locals]
    <3>1. ASSUME NEW r \in Reloaders
          PROVE  local[r] \in Locals
      <4>1. local[r] \in Shapes
        BY DEF TypeInv
      <4>2. local[r].wrote \in 0..MaxChanges /\ local[r].loadedVersion \in 0..MaxChanges
        BY <2>2, <4>1 DEF NumberInv, Shapes
      <4> QED
        BY <4>1, <4>2 DEF Shapes, Locals
    <3> QED
      BY <3>1 DEF TypeInv
  <2>4. version \in 0..MaxChanges /\ acked \in 0..MaxChanges
    BY <2>1, <2>2 DEF TypeInv, NumberInv
  <2>5. StoreTypeOK
    BY <2>3, <2>4 DEF StoreTypeOK, TypeInv, RowInv
  <2>6. cron \in Crons
    BY <2>2 DEF TypeInv, NumberInv, Crons
  <2>7. job \in [Jobs -> Crons]
    <3>1. ASSUME NEW j \in Jobs
          PROVE  job[j] \in Crons
      BY <2>2 DEF CronInv, NumberInv, Crons
    <3> QED
      BY <3>1 DEF CronInv
  <2> QED
    BY <2>5, <2>6, <2>7 DEF TypeOK, CronInv
<1>2. BoundInv /\ [Next]_vars => BoundInv'
  BY BoundNext
<1> QED
  BY <1>1, <1>2, BoundInit, PTL DEF Spec
=============================================================================
