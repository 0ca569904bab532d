--------------------------- MODULE ServicesProofs ---------------------------
(***************************************************************************)
(* Proofs about the settings, the schedule of a strategy, the symbol       *)
(* search, the stream hub and the ledger, for any symbols, editors,        *)
(* strategies, listings, callers, publishers, connections and fills; and,  *)
(* with WorkflowLockProofs and AgentsProofs, the types of all seven        *)
(* services side by side.                                                  *)
(***************************************************************************)
EXTENDS MCServices, WorkflowLockProofs, AgentsProofs, SetSums, TLAPS

----------------------------------------------------------------------------
(* Settings *)

Answers == {"nothing", "hold", "no_hold", "deleted"}

\* What may be in the run's can_hold map.
MapInv ==
  /\ canHold # NotLoaded =>
       \A s \in Watchable : s \in canHold =>
         atLoad[s] = "hold" \/ (atLoad[s] \in {"nothing", "deleted"} /\ s \in EnvWatchlist)
  /\ passed # NoBuy => canHold # NotLoaded /\ passed.symbol \in canHold \cap Watchable

EditsTyped ==
  \A c \in Editors : editing[c] # Idle =>
    editing[c].symbol \in Watchable /\ editing[c].id \in Int /\ editing[c].hold \in BOOLEAN

TableTyped ==
  /\ watch \in [Watchable -> [id : Int, hold : BOOLEAN] \cup {NoRow}]
  /\ answered \in [Watchable -> Answers]
  /\ lastId \in Int
  /\ DOMAIN editing = Editors

SettingsInv ==
  /\ TableTyped
  /\ EditsTyped
  /\ AnswersAreKept
  /\ MapInv

LEMMA SeededKeeps ==
  ASSUME NEW table \in [Watchable -> [id : Int, hold : BOOLEAN] \cup {NoRow}]
  PROVE  /\ Seeded(table) \in [Watchable -> [id : Int, hold : BOOLEAN] \cup {NoRow}]
         /\ \A s \in Watchable : table[s] # NoRow => Seeded(table)[s] = table[s]
         /\ \A s \in Watchable : table[s] = NoRow /\ s \in EnvWatchlist =>
              Seeded(table)[s] # NoRow /\ Seeded(table)[s].hold
         /\ \A s \in Watchable : table[s] = NoRow /\ s \notin EnvWatchlist =>
              Seeded(table)[s] = NoRow
BY SettingsAssumption DEF Seeded, NoRow

LEMMA SettingsInitInv == SettingsInit => SettingsInv
<1> SUFFICES ASSUME SettingsInit
             PROVE  SettingsInv
  OBVIOUS
<1> DEFINE none == [s \in Watchable |-> NoRow]
<1>1. none \in [Watchable -> [id : Int, hold : BOOLEAN] \cup {NoRow}]
      /\ \A s \in Watchable : none[s] = NoRow
  OBVIOUS
<1>2. watch = Seeded(none)
  BY DEF SettingsInit
<1> HIDE DEF none
<1> QED
  BY <1>1, <1>2, SeededKeeps
     DEF SettingsInit, SettingsInv, TableTyped, EditsTyped, Answers, AnswersAreKept,
         MapInv, Idle, NoBuy

LEMMA SettingsStepInv == SettingsInv /\ [SettingsNext]_settingsVars => SettingsInv'
<1> SUFFICES ASSUME SettingsInv, [SettingsNext]_settingsVars
             PROVE  TableTyped' /\ EditsTyped' /\ AnswersAreKept' /\ MapInv'
  BY DEF SettingsInv
<1> USE DEF SettingsInv
<1>1. CASE RestartApi
  <2>0. /\ watch' \in [Watchable -> [id : Int, hold : BOOLEAN] \cup {NoRow}]
        /\ \A s \in Watchable :
             \/ watch'[s] = watch[s] /\ (watch[s] = NoRow => s \notin EnvWatchlist)
             \/ watch[s] = NoRow /\ s \in EnvWatchlist /\ watch'[s] # NoRow /\ watch'[s].hold
        /\ answered' = answered
    BY <1>1, SeededKeeps DEF RestartApi, TableTyped
  <2>1. AnswersAreKept'
    BY <2>0 DEF AnswersAreKept, TableTyped
  <2>2. TableTyped'
    BY <1>1, <2>0 DEF RestartApi, TableTyped
  <2>3. EditsTyped'
    BY <1>1 DEF RestartApi, EditsTyped
  <2>4. MapInv'
    BY <1>1 DEF RestartApi, MapInv
  <2> QED
    BY <2>1, <2>2, <2>3, <2>4
<1>2. ASSUME NEW s \in Watchable, AddSymbol(s)
      PROVE  TableTyped' /\ EditsTyped' /\ AnswersAreKept' /\ MapInv'
  <2>1. TableTyped'
    BY <1>2 DEF AddSymbol, TableTyped, Answers
  <2>2. EditsTyped' /\ MapInv'
    BY <1>2 DEF AddSymbol, EditsTyped, MapInv
  <2>3. AnswersAreKept'
    BY <1>2 DEF AddSymbol, TableTyped, AnswersAreKept, NoRow
  <2> QED
    BY <2>1, <2>2, <2>3
<1>3. ASSUME NEW s \in Watchable, DeleteSymbol(s)
      PROVE  TableTyped' /\ EditsTyped' /\ AnswersAreKept' /\ MapInv'
  <2>1. TableTyped'
    BY <1>3 DEF DeleteSymbol, TableTyped, Answers
  <2>2. EditsTyped' /\ MapInv'
    BY <1>3 DEF DeleteSymbol, EditsTyped, MapInv
  <2>3. AnswersAreKept'
    BY <1>3 DEF DeleteSymbol, TableTyped, AnswersAreKept
  <2> QED
    BY <2>1, <2>2, <2>3
<1>4. ASSUME NEW s \in Watchable, NEW c \in Editors, NEW hold \in BOOLEAN,
             BeginEdit(c, s, hold)
      PROVE  TableTyped' /\ EditsTyped' /\ AnswersAreKept' /\ MapInv'
  <2>1. watch[s].id \in Int
    BY <1>4 DEF BeginEdit, TableTyped
  <2>2. EditsTyped' /\ TableTyped'
    BY <1>4, <2>1 DEF BeginEdit, EditsTyped, TableTyped
  <2> QED
    BY <1>4, <2>2 DEF BeginEdit, AnswersAreKept, MapInv
<1>5. ASSUME NEW s \in Watchable, NEW notional \in Limits, PassBuy(s, notional)
      PROVE  TableTyped' /\ EditsTyped' /\ AnswersAreKept' /\ MapInv'
  BY <1>5 DEF PassBuy, AnswersAreKept, MapInv, TableTyped, EditsTyped
<1>6. ASSUME NEW c \in Editors, SaveEdit(c)
      PROVE  TableTyped' /\ EditsTyped' /\ AnswersAreKept' /\ MapInv'
  <2> DEFINE s == editing[c].symbol
             hold == watch[s] = NoRow \/ editing[c].hold
             row == [id |-> editing[c].id, hold |-> hold]
  <2>1. s \in Watchable /\ row \in [id : Int, hold : BOOLEAN] /\ row # NoRow
    BY <1>6 DEF SaveEdit, EditsTyped, NoRow
  <2>2. \/ /\ watch' = [watch EXCEPT ![s] = row]
           /\ answered' = [answered EXCEPT ![s] = Said(hold)]
        \/ UNCHANGED <<watch, answered>>
    BY <1>6 DEF SaveEdit
  <2>3. EditsTyped' /\ MapInv'
    BY <1>6 DEF SaveEdit, EditsTyped, MapInv, TableTyped
  <2>4. row.hold = hold /\ Said(hold) = IF hold THEN "hold" ELSE "no_hold"
    BY DEF Said
  <2> HIDE DEF s, hold, row
  <2>5. TableTyped'
    BY <1>6, <2>1, <2>2, <2>4 DEF SaveEdit, TableTyped, Answers
  <2>6. AnswersAreKept'
    BY <2>1, <2>2, <2>4 DEF TableTyped, AnswersAreKept
  <2> QED
    BY <2>3, <2>5, <2>6
<1>7. ASSUME NEW v \in Limits, PatchRiskRule(v)
      PROVE  TableTyped' /\ EditsTyped' /\ AnswersAreKept' /\ MapInv'
  BY <1>7 DEF PatchRiskRule, AnswersAreKept, MapInv, TableTyped, EditsTyped
<1>8. CASE LoadCanHold
  <2>1. \A s \in Watchable : s \in canHold' =>
          answered[s] = "hold" \/ (answered[s] \in {"nothing", "deleted"} /\ s \in EnvWatchlist)
    BY <1>8 DEF LoadCanHold, AnswersAreKept, TableTyped, Answers
  <2>2. passed = NoBuy
    BY <1>8 DEF LoadCanHold, MapInv
  <2> QED
    BY <1>8, <2>1, <2>2 DEF LoadCanHold, AnswersAreKept, MapInv, TableTyped, EditsTyped
<1>9. CASE EndRun
  BY <1>9 DEF EndRun, AnswersAreKept, MapInv, TableTyped, EditsTyped
<1>10. CASE UNCHANGED settingsVars
  BY <1>10 DEF settingsVars, AnswersAreKept, MapInv, TableTyped, EditsTyped
<1> QED
  BY <1>1, <1>2, <1>3, <1>4, <1>5, <1>6, <1>7, <1>8, <1>9, <1>10 DEF SettingsNext

LEMMA SettingsInvHolds == SettingsSpec => []SettingsInv
BY SettingsInitInv, SettingsStepInv, PTL DEF SettingsSpec

\* However requests and restarts interleave, the table says what the last
\* successful answer said.
THEOREM SettingsAnswersAreKept == SettingsSpec => []AnswersAreKept
<1>1. SettingsInv => AnswersAreKept
  BY DEF SettingsInv
<1> QED
  BY <1>1, SettingsInvHolds, PTL

\* No run buys what was not holdable when it read the table.
THEOREM OnlyHoldableIsBought == SettingsSpec => []NotHoldableIsNotBought
<1>1. SettingsInv => NotHoldableIsNotBought
  BY DEF SettingsInv, MapInv, NotHoldableIsNotBought
<1> QED
  BY <1>1, SettingsInvHolds, PTL

LEMMA SettingsTypeInit == SettingsInit => SettingsTypeOK
<1> SUFFICES ASSUME SettingsInit
             PROVE  SettingsTypeOK
  OBVIOUS
<1> USE SettingsAssumption DEF SettingsInit
<1>1. watch \in [Watchable -> Rows \cup {NoRow}]
  <2>1. [id |-> MaxRows, hold |-> TRUE] \in Rows
    BY DEF Rows
  <2> QED
    BY <2>1 DEF Seeded
<1>2. lastId \in 0..MaxRows /\ ruleRow \in Limits /\ engineRule \in Limits
  OBVIOUS
<1>3. /\ editing \in [Editors -> {Idle}] /\ canHold = NotLoaded /\ passed = NoBuy
      /\ answered \in [Watchable -> {"nothing"}] /\ atLoad \in [Watchable -> {"nothing"}]
  OBVIOUS
<1> QED
  BY ONLY <1>1, <1>2, <1>3 DEF SettingsTypeOK

LEMMA SettingsTypeStep == SettingsTypeOK /\ [SettingsNext]_settingsVars => SettingsTypeOK'
<1> SUFFICES ASSUME SettingsTypeOK, [SettingsNext]_settingsVars
             PROVE  SettingsTypeOK'
  OBVIOUS
<1> USE SettingsAssumption DEF SettingsTypeOK
<1>0. \A x \in Rows : x.id \in 1..MaxRows /\ x.hold \in BOOLEAN
  BY DEF Rows
<1>1. CASE RestartApi
  <2>1. watch' \in [Watchable -> Rows \cup {NoRow}]
    <3>1. [id |-> MaxRows, hold |-> TRUE] \in Rows
      BY DEF Rows
    <3>2. watch' = Seeded(watch)
      BY <1>1 DEF RestartApi
    <3> QED
      BY <3>1, <3>2 DEF Seeded
  <2> QED
    BY <1>1, <2>1 DEF RestartApi
<1>2. ASSUME NEW s \in Watchable, AddSymbol(s)
      PROVE  SettingsTypeOK'
  <2>1. lastId + 1 \in 1..MaxRows /\ lastId + 1 \in 0..MaxRows
    BY <1>2 DEF AddSymbol
  <2>2. [id |-> lastId + 1, hold |-> TRUE] \in Rows
    BY <2>1 DEF Rows
  <2> QED
    BY <1>2, <2>1, <2>2 DEF AddSymbol
<1>3. ASSUME NEW s \in Watchable, DeleteSymbol(s)
      PROVE  SettingsTypeOK'
  BY <1>3 DEF DeleteSymbol
<1>4. ASSUME NEW s \in Watchable, NEW c \in Editors, NEW hold \in BOOLEAN,
             BeginEdit(c, s, hold)
      PROVE  SettingsTypeOK'
  <2>1. watch[s].id \in 1..MaxRows
    BY <1>0, <1>4 DEF BeginEdit
  <2>2. editing' \in [Editors -> [symbol : Watchable, id : 1..MaxRows, hold : BOOLEAN]
                                   \cup {Idle}]
    BY <1>4, <2>1 DEF BeginEdit
  <2> QED
    BY <1>4, <2>2 DEF BeginEdit
<1>5. ASSUME NEW s \in Watchable, NEW notional \in Limits, PassBuy(s, notional)
      PROVE  SettingsTypeOK'
  <2> DEFINE stored == notional <= ruleRow
  <2>1. stored \in BOOLEAN
    OBVIOUS
  <2>2. passed' = [symbol |-> s, notional |-> notional, stored |-> stored]
    BY <1>5 DEF PassBuy
  <2> HIDE DEF stored
  <2>3. passed' \in [symbol : Watchable, notional : Limits, stored : BOOLEAN]
    BY <2>1, <2>2
  <2> QED
    BY <1>5, <2>3 DEF PassBuy
<1>6. ASSUME NEW c \in Editors, SaveEdit(c)
      PROVE  SettingsTypeOK'
  <2> DEFINE s == editing[c].symbol
             hold == watch[s] = NoRow \/ editing[c].hold
             row == [id |-> editing[c].id, hold |-> hold]
  <2>1. /\ s \in Watchable /\ hold \in BOOLEAN
        /\ editing[c].id \in 1..MaxRows
    BY <1>6 DEF SaveEdit
  <2>2. \/ /\ watch' = [watch EXCEPT ![s] = row]
           /\ answered' = [answered EXCEPT ![s] = Said(hold)]
        \/ UNCHANGED <<watch, answered>>
    BY <1>6 DEF SaveEdit
  <2>3. /\ editing' = [editing EXCEPT ![c] = Idle]
        /\ UNCHANGED <<lastId, ruleRow, engineRule, canHold, atLoad, passed>>
    BY <1>6 DEF SaveEdit
  <2>4. Said(hold) \in {"hold", "no_hold"}
    BY DEF Said
  <2> HIDE DEF s, hold
  <2>5. row \in Rows
    BY <2>1 DEF Rows
  <2> HIDE DEF row
  <2>6. /\ watch' \in [Watchable -> Rows \cup {NoRow}]
        /\ answered' \in [Watchable -> {"nothing", "hold", "no_hold", "deleted"}]
    BY <2>1, <2>2, <2>4, <2>5
  <2> QED
    BY <2>3, <2>6
<1>7. ASSUME NEW v \in Limits, PatchRiskRule(v)
      PROVE  SettingsTypeOK'
  BY <1>7 DEF PatchRiskRule
<1>8. CASE LoadCanHold
  BY <1>8 DEF LoadCanHold
<1>9. CASE EndRun
  BY <1>9 DEF EndRun
<1>10. CASE UNCHANGED settingsVars
  BY <1>10 DEF settingsVars
<1> QED
  BY <1>1, <1>2, <1>3, <1>4, <1>5, <1>6, <1>7, <1>8, <1>9, <1>10 DEF SettingsNext

\* The settings' variables keep their types.
THEOREM SettingsTypeCorrect == SettingsSpec => []SettingsTypeOK
BY SettingsTypeInit, SettingsTypeStep, PTL DEF SettingsSpec

----------------------------------------------------------------------------
(* Schedule *)

Intraday(job) == job.trigger = "intraday"
JobRecords == [trigger : {"pre_open", "intraday"}, hour : 0..23, minute : 0..59]

\* The jobs made so far lie a step and more before the loop's minute, and a
\* step of the loop is never shorter than 15 minutes.
SpacingInv ==
  /\ fields \in StrategyFields
  /\ jobs \in Seq(JobRecords)
  /\ building = "validate" => jobs = <<>>
  /\ building \in {"pre_open", "loop", "done"} => ValidStrategy(fields)
  /\ building = "pre_open" => jobs = <<>>
  /\ building = "loop" =>
       /\ fields.every >= 15 /\ t \in Nat
       /\ \A i \in DOMAIN jobs : Intraday(jobs[i]) => MinuteOf(jobs[i]) + 15 <= t
  /\ RunsSpaced

LEMMA Clock ==
  ASSUME NEW m \in TimeOfDay, NEW trigger \in {"pre_open", "intraday"}
  PROVE  Job(trigger, m) \in JobRecords /\ MinuteOf(Job(trigger, m)) = m
<1>1. m \div 60 \in 0..23 /\ m % 60 \in 0..59 /\ (m \div 60) * 60 + (m % 60) = m
  BY SMT DEF TimeOfDay
<1> QED
  BY <1>1 DEF Job, JobRecords, MinuteOf

\* Minutes before the open are minutes of the day, and so are all minutes up
\* to one of them.
LEMMA Minutes ==
  /\ TimeOfDay \subseteq Nat /\ TimeOfDay \subseteq Int
  /\ \A lead \in Int : lead > 0 /\ lead <= 570 => UsRegularOpen - lead \in TimeOfDay
  /\ \A m \in Nat : \A n \in TimeOfDay \cup {-1} : m <= n => m \in TimeOfDay
<1>1. UsRegularOpen = 570
  BY SMT DEF UsRegularOpen
<1>2. TimeOfDay = 0..1439
  BY SMT DEF TimeOfDay
<1>3. TimeOfDay \subseteq Nat /\ TimeOfDay \subseteq Int
  BY <1>2
<1>4. \A lead \in Int : lead > 0 /\ lead <= 570 => UsRegularOpen - lead \in TimeOfDay
  BY <1>1, <1>2
<1>5. \A m \in Nat : \A n \in TimeOfDay \cup {-1} : m <= n => m \in TimeOfDay
  <2> SUFFICES ASSUME NEW m \in Nat, NEW n \in TimeOfDay \cup {-1}, m <= n
               PROVE  m \in TimeOfDay
    OBVIOUS
  <2>1. n # -1
    OBVIOUS
  <2>2. n \in 0..1439
    BY <1>2, <2>1
  <2> QED
    BY <1>2, <2>2
<1> QED
  BY <1>3, <1>4, <1>5

LEMMA ValidFields ==
  ASSUME NEW s \in StrategyFields, ValidStrategy(s)
  PROVE  /\ s.start \in TimeOfDay /\ s.end \in TimeOfDay \cup {-1}
         /\ s.preOpen \in Int /\ s.preOpen <= 570
         /\ s.every \in Int /\ (s.every > 0 => s.every >= 15)
<1>1. /\ s.start \in TimeOfDay \cup {-1} /\ s.end \in TimeOfDay \cup {-1}
      /\ s.preOpen \in Int /\ s.every \in Int
  BY DEF StrategyFields
<1>2. s.preOpen \in 0..UsRegularOpen /\ (s.every = 0 \/ s.every >= 15) /\ s.start # -1
  BY DEF ValidStrategy
<1>3. UsRegularOpen = 570
  BY SMT DEF UsRegularOpen
<1> QED
  BY <1>1, <1>2, <1>3

LEMMA JobMinute ==
  ASSUME NEW j \in JobRecords
  PROVE  MinuteOf(j) \in Int
<1> DEFINE h == j.hour  m == j.minute
<1>1. h \in Int /\ m \in Int
  BY DEF JobRecords
<1>2. MinuteOf(j) = h * 60 + m
  BY DEF MinuteOf
<1> HIDE DEF h, m
<1> QED
  BY <1>1, <1>2

LEMMA SpacingInit == ScheduleInit => SpacingInv
BY StrategiesAssumption DEF ScheduleInit, SpacingInv, RunsSpaced

LEMMA SpacingStep == SpacingInv /\ [ScheduleNext]_scheduleVars => SpacingInv'
<1> SUFFICES ASSUME SpacingInv, [ScheduleNext]_scheduleVars
             PROVE  SpacingInv'
  OBVIOUS
<1> USE DEF SpacingInv
<1>1. CASE Validate
  BY <1>1 DEF Validate, RunsSpaced
<1>2. CASE PreOpenJob
  <2>1. ValidStrategy(fields) /\ fields \in StrategyFields /\ fields' = fields
    BY <1>2 DEF PreOpenJob
  <2>2. /\ fields.start \in TimeOfDay
        /\ fields.preOpen \in Int /\ fields.preOpen <= 570
        /\ fields.every \in Int /\ (fields.every > 0 => fields.every >= 15)
    BY <2>1, ValidFields
  <2>3. ASSUME fields.preOpen > 0
        PROVE  jobs' \in Seq(JobRecords) /\ \A i \in DOMAIN jobs' : ~Intraday(jobs'[i])
    <3> DEFINE early == Job("pre_open", UsRegularOpen - fields.preOpen)
    <3>1. UsRegularOpen - fields.preOpen \in TimeOfDay
      BY <2>2, <2>3, Minutes
    <3>2. early \in JobRecords /\ ~Intraday(early)
      BY <3>1, Clock DEF Job, Intraday
    <3>3. jobs' = <<early>>
      BY <1>2, <2>3 DEF PreOpenJob
    <3> HIDE DEF early
    <3> QED
      BY <3>2, <3>3
  <2>4. ASSUME ~(fields.preOpen > 0)
        PROVE  jobs' \in Seq(JobRecords) /\ \A i \in DOMAIN jobs' : ~Intraday(jobs'[i])
    BY <1>2, <2>4 DEF PreOpenJob
  <2>5. jobs' \in Seq(JobRecords) /\ \A i \in DOMAIN jobs' : ~Intraday(jobs'[i])
    BY <2>3, <2>4
  <2>6. RunsSpaced'
    BY <2>5 DEF RunsSpaced, Intraday
  <2>7. /\ building' = IF fields.every > 0 THEN "loop" ELSE "done"
        /\ t' = fields.start /\ ValidStrategy(fields')
    BY <1>2, <2>1 DEF PreOpenJob
  <2>8. building' = "loop" => fields'.every >= 15 /\ t' \in Nat
    <3>1. fields'.every = fields.every
      BY <2>1
    <3>2. t' \in Nat
      BY <2>2, <2>7, Minutes
    <3> QED
      BY <2>2, <2>7, <3>1, <3>2
  <2> QED
    BY <2>1, <2>5, <2>6, <2>7, <2>8
<1>3. CASE IntradayJob
  <2> DEFINE new == Job("intraday", t)
  <2>1. /\ building = "loop" /\ ValidStrategy(fields) /\ fields \in StrategyFields
        /\ fields' = fields /\ building' = building
        /\ jobs' = Append(jobs, new) /\ t' = t + fields.every /\ t <= fields.end
    BY <1>3 DEF IntradayJob
  <2>2. /\ fields.every \in Int /\ fields.every >= 15 /\ t \in TimeOfDay
        /\ \A i \in DOMAIN jobs : Intraday(jobs[i]) => MinuteOf(jobs[i]) + 15 <= t
    <3>1. t \in Nat /\ fields.every \in Int /\ fields.end \in TimeOfDay \cup {-1}
      BY <2>1 DEF StrategyFields
    <3> QED
      BY <2>1, <3>1, Minutes
  <2>3. new \in JobRecords /\ MinuteOf(new) = t
    BY <2>2, Clock
  <2> HIDE DEF new
  <2>4. /\ jobs' \in Seq(JobRecords) /\ Len(jobs) \in Nat
        /\ DOMAIN jobs' = 1..(Len(jobs) + 1) /\ DOMAIN jobs = 1..Len(jobs)
        /\ \A i \in DOMAIN jobs : jobs'[i] = jobs[i]
        /\ jobs'[Len(jobs) + 1] = new
    BY <2>1, <2>3
  <2>5. \A j \in JobRecords : MinuteOf(j) \in Int
    BY JobMinute
  <2>6. \A i \in DOMAIN jobs' : jobs'[i] \in JobRecords
    BY <2>4
  <2>7. \A i \in DOMAIN jobs' : Intraday(jobs'[i]) => MinuteOf(jobs'[i]) + 15 <= t'
    BY <2>1, <2>2, <2>3, <2>4, <2>5, <2>6 DEF TimeOfDay
  <2>8. RunsSpaced'
    <3> SUFFICES ASSUME NEW i \in DOMAIN jobs', NEW k \in DOMAIN jobs', i < k,
                        Intraday(jobs'[i]), Intraday(jobs'[k])
                 PROVE  MinuteOf(jobs'[k]) - MinuteOf(jobs'[i]) >= 15
      BY DEF RunsSpaced, Intraday
    <3>1. i \in DOMAIN jobs
      BY <2>4
    <3>2. CASE k \in DOMAIN jobs
      BY <2>4, <3>1, <3>2 DEF RunsSpaced, Intraday
    <3>3. CASE k \notin DOMAIN jobs
      <4>1. jobs'[k] = new
        BY <2>4, <3>3
      <4>2. MinuteOf(jobs'[i]) + 15 <= t /\ MinuteOf(jobs'[i]) \in Int
        BY <2>1, <2>4, <2>5, <2>6, <3>1
      <4> QED
        BY <2>2, <2>3, <4>1, <4>2 DEF TimeOfDay
    <3> QED
      BY <3>2, <3>3
  <2> QED
    <3>1. t' \in Nat /\ fields'.every >= 15 /\ fields' \in StrategyFields
      BY <2>1, <2>2 DEF TimeOfDay
    <3> QED
      BY <2>1, <2>4, <2>7, <2>8, <3>1
<1>4. CASE EndLoop
  BY <1>4 DEF EndLoop, RunsSpaced
<1>5. CASE UNCHANGED scheduleVars
  BY <1>5 DEF scheduleVars, RunsSpaced
<1> QED
  BY <1>1, <1>2, <1>3, <1>4, <1>5 DEF ScheduleNext

\* Whatever a strategy's fields are, the intraday jobs built for it are at
\* least 15 minutes apart.
THEOREM RunsAreSpaced == ScheduleSpec => []RunsSpaced
<1>1. SpacingInv => RunsSpaced
  BY DEF SpacingInv
<1> QED
  BY <1>1, SpacingInit, SpacingStep, PTL DEF ScheduleSpec

\* Whole multiples of a step.
LEMMA Multiples ==
  ASSUME NEW e \in Nat \ {0}, NEW q \in Int, NEW p \in Int,
         NEW r \in 0..(e - 1), NEW s \in 0..(e - 1), e * q + r = e * p + s
  PROVE  q = p
<1>1. CASE q > p
  <2>1. e * (q - p) >= e
    BY <1>1
  <2>2. e * (q - p) = e * q - e * p
    OBVIOUS
  <2> QED
    BY <2>1, <2>2
<1>2. CASE q < p
  <2>1. e * (p - q) >= e
    BY <1>2
  <2>2. e * (p - q) = e * p - e * q
    OBVIOUS
  <2> QED
    BY <2>1, <2>2
<1> QED
  BY <1>1, <1>2

LEMMA Divided ==
  \A a \in Nat, e \in Nat \ {0} :
    /\ a = e * (a \div e) + (a % e)
    /\ a % e \in 0..(e - 1) /\ a \div e \in Int
OBVIOUS

\* The multiples of e after a: the next is a + e, and none lies between.
LEMMA StepDivides ==
  ASSUME NEW a \in Nat, NEW e \in Nat \ {0}, a % e = 0
  PROVE  (a + e) % e = 0
<1> DEFINE q == a \div e  p == (a + e) \div e  s == (a + e) % e
<1>1. a = e * q /\ a + e = e * p + s /\ s \in 0..(e - 1) /\ p \in Int /\ q \in Int
  BY Divided
<1> HIDE DEF p, q, s
<1>2. e * (q + 1) + 0 = e * p + s
  BY <1>1
<1>3. q + 1 = p
  BY <1>1, <1>2, Multiples
<1> QED
  BY <1>1, <1>3 DEF s

LEMMA NoneBetween ==
  ASSUME NEW a \in Nat, NEW b \in Nat, NEW e \in Nat \ {0},
         a % e = 0, b % e = 0, a <= b, b < a + e
  PROVE  a = b
<1> DEFINE q == a \div e  p == b \div e  s == b - a
<1>1. a = e * q /\ b = e * p /\ s \in 0..(e - 1) /\ p \in Int /\ q \in Int
  BY Divided
<1> HIDE DEF p, q, s
<1>2. e * q + s = e * p + 0
  BY <1>1 DEF s
<1>3. q = p
  BY <1>1, <1>2, Multiples
<1> QED
  BY <1>1, <1>3

\* The minute m is one of the loop over the window of s.
AtStep(s, m) == m >= s.start /\ (m - s.start) % s.every = 0

\* The minutes asked for before the loop's next minute are those before this
\* one, and this one.
LEMMA NextMinute ==
  ASSUME NEW s \in StrategyFields, s.start \in TimeOfDay, s.every \in Nat, s.every > 0,
         NEW m \in TimeOfDay, m <= s.end, AtStep(s, m)
  PROVE  /\ AtStep(s, m + s.every)
         /\ {n \in IntradayMinutes(s) : n < m + s.every}
              = {n \in IntradayMinutes(s) : n < m} \cup {m}
<1> DEFINE e == s.every  a == m - s.start
<1>1. /\ m \in Nat /\ s.start \in Nat
      /\ \A n \in IntradayMinutes(s) :
           n \in Nat /\ n >= s.start /\ (n - s.start) % e = 0
  BY Minutes DEF IntradayMinutes
<1>2. e \in Nat \ {0} /\ a \in Nat /\ a % e = 0
  <2>1. m >= s.start /\ a % e = 0
    BY Zenon DEF AtStep
  <2> HIDE DEF a
  <2>2. a \in Nat
    BY <1>1, <2>1 DEF a
  <2> QED
    BY <2>1, <2>2
<1>3. (a + e) % e = 0
  BY <1>2, StepDivides
<1>4. a + e = (m + s.every) - s.start /\ m + s.every >= s.start
  <2> DEFINE o == s.start
  <2>1. m \in Nat /\ o \in Nat /\ e \in Nat /\ m >= o
    BY <1>1, Zenon DEF AtStep
  <2> HIDE DEF o, e
  <2>2. (m - o) + e = (m + e) - o /\ m + e >= o
    BY <2>1
  <2> QED
    BY <2>2, Zenon DEF o, e
<1>5. m \in IntradayMinutes(s)
  BY DEF IntradayMinutes, AtStep
<1>6. ASSUME NEW n \in IntradayMinutes(s), n < m + e, ~(n < m)
      PROVE  n = m
  <2> DEFINE b == n - s.start
  <2>1. b \in Nat /\ b % e = 0 /\ n \in Nat
    BY <1>1, <1>6
  <2>2. a <= b /\ b < a + e
    BY <1>1, <1>2, <1>6, <2>1
  <2> HIDE DEF a, b, e
  <2>3. a = b
    BY <1>2, <2>1, <2>2, NoneBetween
  <2> QED
    BY <1>1, <2>1, <2>3 DEF a, b
<1>7. \A n \in IntradayMinutes(s) : n < m => n < m + e
  BY <1>1, <1>2
<1>8. m < m + e
  BY <1>1, <1>2
<1>9. AtStep(s, m + s.every)
  <2> DEFINE b == (m + s.every) - s.start
  <2>1. b = a + e
    BY <1>4
  <2> HIDE DEF a, b
  <2>2. b % e = 0
    BY <1>3, <2>1, Zenon
  <2> QED
    BY <1>4, <2>2, Zenon DEF b, AtStep
<1> HIDE DEF a
<1> QED
  BY <1>5, <1>6, <1>7, <1>8, <1>9

\* When the loop stands at a minute of its own, the intraday jobs made are
\* those asked for before that minute; the pre-open job is there from the start.
JobsInv ==
  /\ SpacingInv
  /\ building = "loop" =>
       /\ AtStep(fields, t)
       /\ {MinuteOf(jobs[i]) : i \in Made("intraday")}
            = {m \in IntradayMinutes(fields) : m < t}
  /\ building = "done" =>
       {MinuteOf(jobs[i]) : i \in Made("intraday")} = IntradayMinutes(fields)
  /\ building \in {"loop", "done"} =>
       /\ Made("pre_open") = IF fields.preOpen > 0 THEN {1} ELSE {}
       /\ \A i \in Made("pre_open") : MinuteOf(jobs[i]) + fields.preOpen = UsRegularOpen

\* What the jobs' places hold in a list of one job, or of none.
LEMMA FirstJobs ==
  ASSUME SpacingInv, PreOpenJob
  PROVE  /\ Made("intraday")' = {}
         /\ Made("pre_open")' = IF fields.preOpen > 0 THEN {1} ELSE {}
         /\ \A i \in Made("pre_open")' :
              MinuteOf(jobs'[i]) + fields.preOpen = UsRegularOpen
<1>1. ValidStrategy(fields) /\ fields \in StrategyFields
  BY DEF PreOpenJob, SpacingInv
<1>2. fields.preOpen \in Int /\ fields.preOpen <= 570
  BY <1>1, ValidFields
<1>3. CASE fields.preOpen > 0
  <2> DEFINE lead == UsRegularOpen - fields.preOpen  early == Job("pre_open", lead)
  <2>1. lead \in TimeOfDay
    BY <1>2, <1>3, Minutes
  <2>2. MinuteOf(early) = lead /\ early.trigger = "pre_open"
    BY <2>1, Clock DEF Job
  <2>3. jobs' = <<early>>
    BY <1>3 DEF PreOpenJob
  <2>4. lead + fields.preOpen = UsRegularOpen
    BY <1>2, Minutes DEF UsRegularOpen
  <2> HIDE DEF early, lead
  <2>5. DOMAIN jobs' = {1} /\ jobs'[1] = early
    BY <2>3
  <2> QED
    BY <1>3, <2>2, <2>4, <2>5 DEF Made
<1>4. CASE ~(fields.preOpen > 0)
  <2>1. jobs' = <<>>
    BY <1>4 DEF PreOpenJob
  <2>2. DOMAIN jobs' = {}
    BY <2>1
  <2> QED
    BY <1>4, <2>2 DEF Made
<1> QED
  BY <1>3, <1>4

\* A turn of the loop adds one intraday job, at the loop's minute.
LEMMA LoopJobs ==
  ASSUME SpacingInv, IntradayJob
  PROVE  /\ t \in TimeOfDay
         /\ Made("pre_open")' = Made("pre_open")
         /\ \A i \in Made("pre_open") : jobs'[i] = jobs[i]
         /\ {MinuteOf(jobs'[i]) : i \in Made("intraday")'}
              = {MinuteOf(jobs[i]) : i \in Made("intraday")} \cup {t}
<1> DEFINE new == Job("intraday", t)  last == Len(jobs) + 1
<1>1. t \in Nat /\ t <= fields.end /\ fields.end \in TimeOfDay \cup {-1}
  BY DEF IntradayJob, SpacingInv, StrategyFields
<1>2. t \in TimeOfDay
  BY <1>1, Minutes
<1>3. MinuteOf(new) = t /\ new.trigger = "intraday"
  BY <1>2, Clock DEF Job
<1>4. jobs' = Append(jobs, new) /\ jobs \in Seq(JobRecords)
  BY DEF IntradayJob, SpacingInv
<1>5. new \in JobRecords
  BY <1>2, Clock
<1> HIDE DEF new
<1>6. /\ DOMAIN jobs' = DOMAIN jobs \cup {last} /\ last \notin DOMAIN jobs
      /\ \A i \in DOMAIN jobs : jobs'[i] = jobs[i]
      /\ jobs'[last] = new
  BY <1>4, <1>5
<1> HIDE DEF last
<1>7. Made("intraday")' = Made("intraday") \cup {last}
  BY <1>3, <1>6 DEF Made
<1>8. Made("pre_open")' = Made("pre_open")
  BY <1>3, <1>6 DEF Made
<1>9. \A i \in Made("intraday") \cup Made("pre_open") : jobs'[i] = jobs[i]
  BY <1>6 DEF Made
<1>10. {MinuteOf(jobs'[i]) : i \in Made("intraday")'}
         = {MinuteOf(jobs[i]) : i \in Made("intraday")} \cup {t}
  BY <1>3, <1>6, <1>7, <1>9
<1> QED
  BY <1>2, <1>8, <1>9, <1>10

LEMMA JobsInit == ScheduleInit => JobsInv
BY SpacingInit DEF ScheduleInit, JobsInv

LEMMA JobsStep == JobsInv /\ [ScheduleNext]_scheduleVars => JobsInv'
<1> SUFFICES ASSUME JobsInv, [ScheduleNext]_scheduleVars
             PROVE  JobsInv'
  OBVIOUS
<1>1. SpacingInv /\ SpacingInv'
  BY SpacingStep DEF JobsInv
<1>2. CASE Validate
  BY <1>1, <1>2 DEF Validate, JobsInv
<1>3. CASE PreOpenJob
  <2>1. /\ fields' = fields /\ t' = fields.start
        /\ building' = IF fields.every > 0 THEN "loop" ELSE "done"
        /\ ValidStrategy(fields) /\ fields \in StrategyFields
    BY <1>1, <1>3 DEF PreOpenJob, SpacingInv
  <2>2. /\ fields.start \in TimeOfDay /\ fields.every \in Int
        /\ fields.every > 0 => fields.every >= 15
    BY <2>1, ValidFields
  <2>3. /\ Made("intraday")' = {}
        /\ Made("pre_open")' = IF fields.preOpen > 0 THEN {1} ELSE {}
        /\ \A i \in Made("pre_open")' :
             MinuteOf(jobs'[i]) + fields.preOpen = UsRegularOpen
    BY <1>1, <1>3, FirstJobs
  <2>4. {MinuteOf(jobs'[i]) : i \in Made("intraday")'} = {}
    BY <2>3
  <2>5. ~(fields.every > 0) => IntradayMinutes(fields) = {}
    BY DEF IntradayMinutes
  <2>6. {m \in IntradayMinutes(fields) : m < fields.start} = {}
    <3> SUFFICES ASSUME NEW m \in IntradayMinutes(fields)
                 PROVE  ~(m < fields.start)
      OBVIOUS
    <3>1. m \in Nat /\ m >= fields.start /\ fields.start \in Nat
      BY <2>2, Minutes DEF IntradayMinutes
    <3> QED
      BY <3>1
  <2>7. fields.every > 0 => AtStep(fields, fields.start)
    <3> DEFINE s == fields.start  e == fields.every
    <3>1. s \in Int /\ e \in Int
      BY <2>2, Minutes
    <3> HIDE DEF s, e
    <3>2. e > 0 => s >= s /\ (s - s) % e = 0
      <4>1. s - s = 0
        BY <3>1
      <4>2. e > 0 => 0 % e = 0
        BY <3>1, Divided
      <4> QED
        BY <3>1, <4>1, <4>2
    <3> QED
      BY <3>2 DEF s, e, AtStep
  <2> QED
    BY <1>1, <2>1, <2>3, <2>4, <2>5, <2>6, <2>7 DEF JobsInv
<1>4. CASE IntradayJob
  <2>1. /\ building = "loop" /\ building' = "loop" /\ fields' = fields
        /\ t' = t + fields.every /\ t <= fields.end
        /\ ValidStrategy(fields) /\ fields \in StrategyFields /\ fields.every >= 15
    BY <1>1, <1>4 DEF IntradayJob, SpacingInv
  <2>2. /\ fields.start \in TimeOfDay /\ fields.every \in Int
    BY <2>1, ValidFields
  <2>3. fields.every \in Nat /\ fields.every > 0
    BY <2>1, <2>2
  <2>4. /\ t \in TimeOfDay
        /\ Made("pre_open")' = Made("pre_open")
        /\ \A i \in Made("pre_open") : jobs'[i] = jobs[i]
        /\ {MinuteOf(jobs'[i]) : i \in Made("intraday")'}
             = {MinuteOf(jobs[i]) : i \in Made("intraday")} \cup {t}
    BY <1>1, <1>4, LoopJobs
  <2>5. /\ AtStep(fields, t)
        /\ {MinuteOf(jobs[i]) : i \in Made("intraday")}
             = {m \in IntradayMinutes(fields) : m < t}
    BY <2>1 DEF JobsInv
  <2>6. /\ AtStep(fields, t + fields.every)
        /\ {m \in IntradayMinutes(fields) : m < t + fields.every}
             = {m \in IntradayMinutes(fields) : m < t} \cup {t}
    BY <2>1, <2>2, <2>3, <2>4, <2>5, NextMinute
  <2>7. \A i \in Made("pre_open")' :
          MinuteOf(jobs'[i]) + fields.preOpen = UsRegularOpen
    BY <2>1, <2>4 DEF JobsInv
  <2>8. Made("pre_open")' = IF fields.preOpen > 0 THEN {1} ELSE {}
    BY <2>1, <2>4 DEF JobsInv
  <2> QED
    <3>1. {MinuteOf(jobs'[i]) : i \in Made("intraday")'}
            = {m \in IntradayMinutes(fields) : m < t + fields.every}
      BY <2>4, <2>5, <2>6
    <3>2. {m \in IntradayMinutes(fields') : m < t'}
            = {m \in IntradayMinutes(fields) : m < t + fields.every}
      BY <2>1
    <3>3. AtStep(fields', t')
      <4>1. t' = t + fields.every /\ fields' = fields
        BY <2>1
      <4> QED
        BY <2>6, <4>1, Zenon
    <3>4. /\ Made("pre_open")' = IF fields'.preOpen > 0 THEN {1} ELSE {}
          /\ \A i \in Made("pre_open")' :
               MinuteOf(jobs'[i]) + fields'.preOpen = UsRegularOpen
      BY <2>1, <2>7, <2>8
    <3>5. {MinuteOf(jobs'[i]) : i \in Made("intraday")'}
            = {m \in IntradayMinutes(fields') : m < t'}
      BY <3>1, <3>2
    <3> QED
      BY <1>1, <2>1, <3>3, <3>4, <3>5 DEF JobsInv
<1>5. CASE EndLoop
  <2>1. /\ building = "loop" /\ building' = "done" /\ t > fields.end
        /\ fields' = fields /\ t' = t /\ jobs' = jobs
    BY <1>5 DEF EndLoop
  <2>2. t \in Nat /\ fields.end \in Int
    <3>1. t \in Nat /\ fields \in StrategyFields
      BY <1>1, <2>1 DEF SpacingInv
    <3> DEFINE e == fields.end
    <3>2. e \in TimeOfDay \cup {-1}
      BY <3>1 DEF StrategyFields
    <3> HIDE DEF e
    <3>3. e \in Int
      BY <3>2, Minutes
    <3> QED
      BY <3>1, <3>3 DEF e
  <2>3. {m \in IntradayMinutes(fields) : m < t} = IntradayMinutes(fields')
    <3> SUFFICES ASSUME NEW m \in IntradayMinutes(fields)
                 PROVE  m < t
      BY <2>1
    <3>1. m \in Nat /\ m <= fields.end
      BY Minutes DEF IntradayMinutes
    <3> QED
      BY <2>1, <2>2, <3>1
  <2>4. Made("intraday")' = Made("intraday") /\ Made("pre_open")' = Made("pre_open")
    BY <2>1 DEF Made
  <2>5. {MinuteOf(jobs'[i]) : i \in Made("intraday")'} = IntradayMinutes(fields')
    <3>1. {MinuteOf(jobs[i]) : i \in Made("intraday")}
            = {m \in IntradayMinutes(fields) : m < t}
      BY <2>1 DEF JobsInv
    <3> QED
      BY <2>1, <2>3, <2>4, <3>1
  <2>6. /\ Made("pre_open")' = IF fields'.preOpen > 0 THEN {1} ELSE {}
        /\ \A i \in Made("pre_open")' :
             MinuteOf(jobs'[i]) + fields'.preOpen = UsRegularOpen
    <3>1. /\ Made("pre_open") = IF fields.preOpen > 0 THEN {1} ELSE {}
          /\ \A i \in Made("pre_open") :
               MinuteOf(jobs[i]) + fields.preOpen = UsRegularOpen
      BY <2>1 DEF JobsInv
    <3> QED
      BY <2>1, <2>4, <3>1
  <2> QED
    BY <1>1, <2>1, <2>5, <2>6 DEF JobsInv
<1>6. CASE UNCHANGED scheduleVars
  BY <1>1, <1>6 DEF scheduleVars, JobsInv, Made
<1> QED
  BY <1>2, <1>3, <1>4, <1>5, <1>6 DEF ScheduleNext

\* Whatever a strategy's fields are, the jobs built for it are exactly those its
\* lead time and its window ask for, each once and in order: no step of the
\* window is missed at either end, and none is doubled.
THEOREM JobsAreWhatIsAsked == ScheduleSpec => []JobsAreAsked
<1>1. ASSUME JobsInv PROVE JobsAreAsked
  <2> SUFFICES ASSUME building = "done" PROVE JobsAreAsked
    BY DEF JobsAreAsked
  <2>1. SpacingInv
    BY <1>1 DEF JobsInv
  <2>2. \A i \in DOMAIN jobs : jobs[i] \in JobRecords
    BY <2>1 DEF SpacingInv
  <2>3. ASSUME NEW i \in Made("intraday"), NEW k \in Made("intraday"), i < k
        PROVE  MinuteOf(jobs[i]) < MinuteOf(jobs[k])
    <3>1. MinuteOf(jobs[k]) - MinuteOf(jobs[i]) >= 15
      BY <2>1, <2>3 DEF SpacingInv, RunsSpaced, Made
    <3>2. MinuteOf(jobs[k]) \in Int /\ MinuteOf(jobs[i]) \in Int
      BY <2>2, JobMinute DEF Made
    <3> QED
      BY <3>1, <3>2
  <2> QED
    BY <1>1, <2>3 DEF JobsInv, JobsAreAsked
<1> QED
  BY <1>1, JobsInit, JobsStep, PTL DEF ScheduleSpec

\* The schedule's variables keep their types: every job is at a time of the day.
THEOREM ScheduleTypeCorrect == ScheduleSpec => []ScheduleTypeOK
<1> DEFINE inv == SpacingInv /\ ScheduleTypeOK
<1>1. ScheduleInit => inv
  BY SpacingInit DEF ScheduleInit, ScheduleTypeOK
<1>2. inv /\ [ScheduleNext]_scheduleVars => inv'
  <2> SUFFICES ASSUME SpacingInv, ScheduleTypeOK, [ScheduleNext]_scheduleVars
               PROVE  SpacingInv' /\ ScheduleTypeOK'
    OBVIOUS
  <2>1. SpacingInv'
    BY SpacingStep
  <2>2. jobs' \in Seq([trigger : {"pre_open", "intraday"}, hour : 0..23, minute : 0..59])
    BY <2>1 DEF SpacingInv, JobRecords
  <2>3. /\ fields' \in Strategies
        /\ building' \in {"validate", "pre_open", "loop", "done", "refused"}
    BY DEF ScheduleTypeOK, ScheduleNext, Validate, PreOpenJob, IntradayJob, EndLoop,
           scheduleVars
  <2>4. fields.start \in Int /\ fields.every \in Int
    <3>1. fields.start \in TimeOfDay \cup {-1} /\ fields.every \in Int
      BY DEF SpacingInv, StrategyFields
    <3>2. \A x \in TimeOfDay \cup {-1} : x \in Int
      BY Minutes
    <3> QED
      BY ONLY <3>1, <3>2
  <2>5. t' \in {t, fields.start, t + fields.every}
    BY DEF ScheduleNext, Validate, PreOpenJob, IntradayJob, EndLoop, scheduleVars
  <2>6. t' \in Int
    BY <2>4, <2>5 DEF ScheduleTypeOK
  <2> QED
    BY <2>1, <2>2, <2>3, <2>6 DEF ScheduleTypeOK
<1>3. inv => ScheduleTypeOK
  OBVIOUS
<1> QED
  BY <1>1, <1>2, <1>3, PTL DEF ScheduleSpec

----------------------------------------------------------------------------
(* Symbol search *)

\* Who looks again or fetches holds the write lock.
WriteLockInv ==
  /\ DOMAIN searching = Callers
  /\ \A c \in Callers : searching[c] \in {"recheck", "fetch"} => writer = c
  /\ OneFetch

\* For any number of searches the asset list is fetched by one of them at a
\* time, and never while a fresh one is cached.
THEOREM FetchesAreSingle == SearchSpec => []OneFetch
<1>1. SearchInit => WriteLockInv
  BY DEF SearchInit, WriteLockInv, OneFetch
<1>2. WriteLockInv /\ [SearchNext]_searchVars => WriteLockInv'
  <2> SUFFICES ASSUME WriteLockInv, [SearchNext]_searchVars
               PROVE  WriteLockInv'
    OBVIOUS
  <2> USE SearchAssumption DEF WriteLockInv, OneFetch, To, Fresh
  <2>1. CASE Expire
    BY <2>1 DEF Expire
  <2>2. ASSUME NEW c \in Callers, BeginSearch(c) \/ LookUnderReadLock(c) \/ TakeWriteLock(c)
        PROVE  WriteLockInv'
    BY <2>2 DEF BeginSearch, LookUnderReadLock, TakeWriteLock
  <2>3. ASSUME NEW c \in Callers, LookAgain(c)
        PROVE  WriteLockInv'
    BY <2>3 DEF LookAgain
  <2>4. ASSUME NEW c \in Callers, FetchAnswers(c) \/ FetchFails(c)
        PROVE  WriteLockInv'
    BY <2>4 DEF FetchAnswers, FetchFails
  <2>5. ASSUME NEW c \in Callers, ReadMatches(c) \/ AddQuotes(c)
        PROVE  WriteLockInv'
    BY <2>5 DEF ReadMatches, AddQuotes
  <2>6. CASE UNCHANGED searchVars
    BY <2>6 DEF searchVars
  <2> QED
    BY <2>1, <2>2, <2>3, <2>4, <2>5, <2>6 DEF SearchNext, SearchStep
<1>3. WriteLockInv => OneFetch
  BY DEF WriteLockInv
<1> QED
  BY <1>1, <1>2, <1>3, PTL DEF SearchSpec

(* What is shown of the matches *)

LEMMA StrictlyInside ==
  ASSUME NEW S, IsFiniteSet(S), NEW T \in SUBSET S, T # S
  PROVE  Cardinality(T) < Cardinality(S) /\ Cardinality(T) \in Nat /\ Cardinality(S) \in Nat
BY FS_Subset, FS_CardinalityType

StrictOrder(S, ahead) ==
  /\ \A i \in S : <<i, i>> \notin ahead
  /\ \A i, k \in S : i # k => <<i, k>> \in ahead \/ <<k, i>> \in ahead
  /\ \A i, j, k \in S : <<i, j>> \in ahead /\ <<j, k>> \in ahead => <<i, k>> \in ahead

AheadOf(S, ahead, i) == {k \in S : <<k, i>> \in ahead}

LEMMA Ranks ==
  ASSUME NEW S, IsFiniteSet(S), NEW ahead, StrictOrder(S, ahead)
  PROVE  /\ \A i, k \in S : <<i, k>> \in ahead =>
              Cardinality(AheadOf(S, ahead, i)) < Cardinality(AheadOf(S, ahead, k))
         /\ \A n \in 1..Cardinality(S) :
              \E i \in S : Cardinality(AheadOf(S, ahead, i)) = n - 1
<1> USE DEF StrictOrder
<1> DEFINE before(i) == AheadOf(S, ahead, i)
           place == [i \in S |-> Cardinality(before(i)) + 1]
           size == Cardinality(S)
<1>1. size \in Nat
  BY FS_CardinalityType
<1>2. ASSUME NEW i \in S
      PROVE  before(i) \in SUBSET S /\ before(i) # S
  BY DEF AheadOf
<1>3. ASSUME NEW i \in S
      PROVE  /\ Cardinality(before(i)) \in Nat /\ Cardinality(before(i)) < size
             /\ IsFiniteSet(before(i))
  BY <1>2, StrictlyInside, FS_Subset
<1>4. ASSUME NEW i \in S, NEW k \in S, <<i, k>> \in ahead
      PROVE  Cardinality(before(i)) < Cardinality(before(k))
  <2>1. before(i) \in SUBSET before(k) /\ before(i) # before(k)
    BY <1>4 DEF AheadOf
  <2> QED
    BY <1>3, <2>1, StrictlyInside
<1> HIDE DEF before
<1>5. place \in [S -> 1..size]
  BY <1>1, <1>3
<1>6. \A i, k \in S : i # k => place[i] # place[k]
  <2>1. ASSUME NEW i \in S, NEW k \in S, i # k
        PROVE  place[i] # place[k]
    <3>1. Cardinality(before(i)) # Cardinality(before(k))
      <4>1. /\ Cardinality(before(i)) \in Nat /\ Cardinality(before(k)) \in Nat
            /\ <<i, k>> \in ahead \/ <<k, i>> \in ahead
        BY <1>3, <2>1
      <4>2. CASE <<i, k>> \in ahead
        BY ONLY <1>4, <4>1, <4>2, i \in S, k \in S
      <4>3. CASE <<k, i>> \in ahead
        BY ONLY <1>4, <4>1, <4>3, i \in S, k \in S
      <4> QED
        BY <4>1, <4>2, <4>3
    <3> QED
      BY <1>3, <3>1
  <2> QED
    BY <2>1
<1> HIDE DEF place
<1>7. place \in Injection(S, 1..size)
  <2>1. DOMAIN place = S
    BY <1>5
  <2>2. \A a, b \in DOMAIN place : place[a] = place[b] => a = b
    BY <1>6, <2>1
  <2> QED
    BY <1>5, <2>2 DEF Injection, IsInjective
<1>8. IsFiniteSet(1..size) /\ Cardinality(1..size) = size
  BY <1>1, FS_Interval
<1>9. place \in Surjection(S, 1..size)
  BY <1>7, <1>8, FS_Injection
<1>10. \A n \in 1..size : \E i \in S : place[i] = n
  BY <1>9 DEF Surjection
<1>11. ASSUME NEW n \in 1..size
       PROVE  \E i \in S : Cardinality(before(i)) = n - 1
  <2>1. PICK i \in S : place[i] = n
    BY <1>10
  <2>2. Cardinality(before(i)) + 1 = n /\ Cardinality(before(i)) \in Nat
    BY <1>3, <2>1 DEF place
  <2> QED
    BY <2>2
<1> QED
  BY <1>4, <1>11 DEF before

\* An arrangement has each element once and in order.
LEMMA ArrangedIs ==
  ASSUME NEW S, IsFiniteSet(S), NEW ahead, StrictOrder(S, ahead)
  PROVE  /\ Cardinality(S) \in Nat
         /\ Arranged(S, ahead) \in [1..Cardinality(S) -> S]
         /\ \A m, n \in 1..Cardinality(S) :
              m < n => <<Arranged(S, ahead)[m], Arranged(S, ahead)[n]>> \in ahead
         /\ \A i \in S : \E n \in 1..Cardinality(S) : Arranged(S, ahead)[n] = i
<1> DEFINE size == Cardinality(S)
           rank(i) == Cardinality(AheadOf(S, ahead, i))
           line == Arranged(S, ahead)
<1>1. size \in Nat
  BY FS_CardinalityType
<1>2. line = [n \in 1..size |-> CHOOSE i \in S : rank(i) = n - 1]
  BY DEF Arranged, AheadOf
<1>3. /\ \A i, k \in S : <<i, k>> \in ahead => rank(i) < rank(k)
      /\ \A n \in 1..size : \E i \in S : rank(i) = n - 1
  BY Ranks
<1>4. \A i \in S : rank(i) \in Nat /\ rank(i) < size
  <2>1. ASSUME NEW i \in S
        PROVE  AheadOf(S, ahead, i) \in SUBSET S /\ AheadOf(S, ahead, i) # S
    BY DEF AheadOf, StrictOrder
  <2> QED
    BY <2>1, StrictlyInside
<1>5. \A i, k \in S : i # k => <<i, k>> \in ahead \/ <<k, i>> \in ahead
  BY DEF StrictOrder
<1> HIDE DEF rank, line
<1>6. \A n \in 1..size : line[n] \in S /\ rank(line[n]) = n - 1
  <2>1. ASSUME NEW n \in 1..size
        PROVE  line[n] \in S /\ rank(line[n]) = n - 1
    <3>1. line[n] = CHOOSE i \in S : rank(i) = n - 1
      BY <1>2
    <3>2. \E i \in S : rank(i) = n - 1
      BY <1>3
    <3> QED
      BY <3>1, <3>2
  <2> QED
    BY <2>1
<1>7. line \in [1..size -> S]
  BY <1>2, <1>6
<1>8. ASSUME NEW m \in 1..size, NEW n \in 1..size, m < n
      PROVE  <<line[m], line[n]>> \in ahead
  <2>1. rank(line[m]) = m - 1 /\ rank(line[n]) = n - 1
    BY <1>6
  <2>2. line[m] \in S /\ line[n] \in S /\ line[m] # line[n]
    BY <1>6, <1>8, <2>1
  <2>3. CASE <<line[n], line[m]>> \in ahead
    <3>1. rank(line[n]) < rank(line[m])
      BY <1>3, <2>2, <2>3
    <3> QED
      BY <1>8, <2>1, <3>1
  <2> QED
    BY <1>5, <2>2, <2>3
<1>9. ASSUME NEW i \in S
      PROVE  \E n \in 1..size : line[n] = i
  <2>1. rank(i) + 1 \in 1..size
    BY <1>1, <1>4
  <2>2. PICK n \in 1..size : n = rank(i) + 1
    BY <2>1
  <2>3. rank(line[n]) = rank(i) /\ line[n] \in S
    BY <1>4, <1>6, <2>2
  <2>4. line[n] = i
    <3>1. rank(i) \in Nat
      BY <1>4
    <3>2. ~(rank(line[n]) < rank(i)) /\ ~(rank(i) < rank(line[n]))
      BY <2>3, <3>1
    <3> QED
      BY <1>3, <1>5, <2>3, <3>2
  <2> QED
    BY <2>4
<1> QED
  BY <1>1, <1>7, <1>8, <1>9 DEF line

LEMMA BucketOrders ==
  ASSUME NEW list \in Seq(Assets)
  PROVE  /\ IsFiniteSet(PrefixHits(list)) /\ StrictOrder(PrefixHits(list), BySymbol(list))
         /\ IsFiniteSet(NameHits(list)) /\ StrictOrder(NameHits(list), ByPlace(list))
         /\ PrefixHits(list) \in SUBSET DOMAIN list /\ NameHits(list) \in SUBSET DOMAIN list
         /\ \A i, k \in PrefixHits(list) :
              <<i, k>> \in BySymbol(list) => ~Before(list[k], list[i])
<1> DEFINE D == DOMAIN list
<1>1. D = 1..Len(list) /\ IsFiniteSet(D)
  BY FS_Interval
<1>2. PrefixHits(list) \in SUBSET D /\ NameHits(list) \in SUBSET D
  BY DEF PrefixHits, NameHits
<1>3. D \in SUBSET Nat
  BY <1>1
<1>4. \A i \in D : list[i].length \in Nat /\ list[i].rank \in Nat
  <2>1. \A i \in D : list[i] \in Assets
    OBVIOUS
  <2>2. \A x \in Assets : x.length \in Nat /\ x.rank \in Nat
    BY DEF Assets
  <2> HIDE DEF D
  <2> QED
    BY <2>1, <2>2
<1> HIDE DEF D
<1> DEFINE before(i, k) == Before(list[i], list[k])
<1>5. /\ \A i \in D : ~before(i, i)
      /\ \A i, k \in D : before(i, k) => ~before(k, i)
      /\ \A i, j, k \in D : before(i, j) /\ ~before(k, j) => before(i, k)
      /\ \A i, j, k \in D : ~before(j, i) /\ before(j, k) => before(i, k)
      /\ \A i, j, k \in D : ~before(j, i) /\ ~before(k, j) => ~before(k, i)
  <2> SUFFICES ASSUME NEW i \in D, NEW j \in D, NEW k \in D
               PROVE  /\ ~before(i, i)
                      /\ before(i, k) => ~before(k, i)
                      /\ before(i, j) /\ ~before(k, j) => before(i, k)
                      /\ ~before(j, i) /\ before(j, k) => before(i, k)
                      /\ ~before(j, i) /\ ~before(k, j) => ~before(k, i)
    OBVIOUS
  <2> DEFINE li == list[i].length  lj == list[j].length  lk == list[k].length
             ri == list[i].rank  rj == list[j].rank  rk == list[k].rank
  <2>1. /\ li \in Nat /\ lj \in Nat /\ lk \in Nat
        /\ ri \in Nat /\ rj \in Nat /\ rk \in Nat
    BY <1>4
  <2>2. /\ before(i, i) <=> li < li \/ (li = li /\ ri < ri)
        /\ before(i, j) <=> li < lj \/ (li = lj /\ ri < rj)
        /\ before(j, i) <=> lj < li \/ (lj = li /\ rj < ri)
        /\ before(j, k) <=> lj < lk \/ (lj = lk /\ rj < rk)
        /\ before(k, j) <=> lk < lj \/ (lk = lj /\ rk < rj)
        /\ before(i, k) <=> li < lk \/ (li = lk /\ ri < rk)
        /\ before(k, i) <=> lk < li \/ (lk = li /\ rk < ri)
    BY DEF Before
  <2> HIDE DEF before, li, lj, lk, ri, rj, rk
  <2> QED
    BY <2>1, <2>2
<1>6. \A i, k \in D : <<i, k>> \in BySymbol(list) <=>
        before(i, k) \/ (~before(k, i) /\ i < k)
  BY DEF BySymbol, D
<1>7. \A i, k \in D : <<i, k>> \in ByPlace(list) <=> i < k
  BY DEF ByPlace, D
<1> HIDE DEF before
<1>8. StrictOrder(D, BySymbol(list))
  <2>1. \A i \in D : <<i, i>> \notin BySymbol(list)
    BY <1>3, <1>5, <1>6
  <2>2. \A i, k \in D : i # k => <<i, k>> \in BySymbol(list) \/ <<k, i>> \in BySymbol(list)
    BY <1>3, <1>5, <1>6
  <2>3. ASSUME NEW i \in D, NEW j \in D, NEW k \in D,
               <<i, j>> \in BySymbol(list), <<j, k>> \in BySymbol(list)
        PROVE  <<i, k>> \in BySymbol(list)
    <3>1. i \in Nat /\ j \in Nat /\ k \in Nat
      BY <1>3
    <3>2. before(i, j) \/ (~before(j, i) /\ i < j)
      BY <1>6, <2>3
    <3>3. before(j, k) \/ (~before(k, j) /\ j < k)
      BY <1>6, <2>3
    <3>4. before(i, k) \/ (~before(k, i) /\ i < k)
      BY <1>5, <3>1, <3>2, <3>3
    <3> QED
      BY <1>6, <3>4
  <2> QED
    BY <2>1, <2>2, <2>3 DEF StrictOrder
<1>9. StrictOrder(D, ByPlace(list))
  BY <1>3, <1>7 DEF StrictOrder
<1>10. /\ StrictOrder(PrefixHits(list), BySymbol(list))
       /\ StrictOrder(NameHits(list), ByPlace(list))
  BY <1>2, <1>8, <1>9 DEF StrictOrder
<1>11. IsFiniteSet(PrefixHits(list)) /\ IsFiniteSet(NameHits(list))
  BY <1>1, <1>2, FS_Subset
<1>12. \A i, k \in D : <<i, k>> \in BySymbol(list) => ~before(k, i)
  BY <1>5, <1>6
<1> QED
  BY <1>2, <1>10, <1>11, <1>12 DEF before, D

\* The two buckets one after the other: nothing stands before something better.
LEMMA BucketsInOrder ==
  ASSUME NEW list \in Seq(Assets)
  PROVE  LET hits == PrefixHits(list) \cup NameHits(list)
             all == Arranged(PrefixHits(list), BySymbol(list))
                      \o Arranged(NameHits(list), ByPlace(list))
         IN  /\ all \in Seq(hits)
             /\ \A m, n \in DOMAIN all : m < n =>
                  all[m] # all[n] /\ ~Better(list[all[n]], list[all[m]])
             /\ \A i \in hits : \E n \in DOMAIN all : all[n] = i
<1> DEFINE P == PrefixHits(list)
           N == NameHits(list)
           A == Arranged(P, BySymbol(list))
           B == Arranged(N, ByPlace(list))
           a == Cardinality(P)
           b == Cardinality(N)
           all == A \o B
<1>1. /\ a \in Nat /\ A \in [1..a -> P]
      /\ \A m, n \in 1..a : m < n => <<A[m], A[n]>> \in BySymbol(list)
      /\ \A i \in P : \E n \in 1..a : A[n] = i
  BY BucketOrders, ArrangedIs
<1>2. /\ b \in Nat /\ B \in [1..b -> N]
      /\ \A m, n \in 1..b : m < n => <<B[m], B[n]>> \in ByPlace(list)
      /\ \A i \in N : \E n \in 1..b : B[n] = i
  BY BucketOrders, ArrangedIs
<1>3. \A i \in P, k \in N : i # k /\ ~Better(list[k], list[i])
  BY DEF PrefixHits, NameHits, Better
<1>4. \A i, k \in N : ~Better(list[k], list[i])
  BY DEF NameHits, Better
<1>5. \A i, k \in P : <<i, k>> \in BySymbol(list) =>
        i # k /\ ~Better(list[k], list[i])
  <2>1. \A i, k \in P : <<i, k>> \in BySymbol(list) => i # k /\ ~Before(list[k], list[i])
    BY BucketOrders DEF StrictOrder
  <2>2. \A i \in P : list[i].prefix
    BY DEF PrefixHits
  <2> QED
    BY <2>1, <2>2 DEF Better
<1>6. \A i, k \in N : <<i, k>> \in ByPlace(list) => i # k
  BY BucketOrders DEF StrictOrder
<1> DEFINE good(i, k) == i # k /\ ~Better(list[k], list[i])
<1>7. /\ \A m, n \in 1..a : m < n => good(A[m], A[n])
      /\ \A m \in 1..a, n \in 1..b : good(A[m], B[n])
      /\ \A m, n \in 1..b : m < n => good(B[m], B[n])
  BY <1>1, <1>2, <1>3, <1>4, <1>5, <1>6
<1> HIDE DEF A, B, P, N, a, b, good
<1>8. A \in Seq(P \cup N) /\ B \in Seq(P \cup N) /\ Len(A) = a /\ Len(B) = b
  BY <1>1, <1>2
<1>9. /\ all \in Seq(P \cup N)
      /\ DOMAIN all = 1..(a + b)
      /\ \A n \in 1..(a + b) : all[n] = IF n <= a THEN A[n] ELSE B[n - a]
  <2>1. a \in Nat /\ b \in Nat
    BY <1>1, <1>2
  <2>2. all \in Seq(P \cup N)
    BY ONLY <1>8
  <2>3. DOMAIN all = 1..(a + b)
    BY ONLY <1>8, <2>1
  <2>4. \A n \in 1..(a + b) : all[n] = IF n <= a THEN A[n] ELSE B[n - a]
    BY ONLY <1>8, <2>1
  <2> QED
    BY <2>2, <2>3, <2>4
<1> HIDE DEF all
<1>10. ASSUME NEW m \in 1..(a + b), NEW n \in 1..(a + b), m < n
       PROVE  good(all[m], all[n])
  <2>1. CASE n <= a
    <3>1. m \in 1..a /\ n \in 1..a /\ m <= a
      BY <1>1, <1>2, <1>10, <2>1
    <3>2. all[m] = A[m] /\ all[n] = A[n]
      BY <1>9, <2>1, <3>1
    <3> QED
      BY <1>7, <1>10, <3>1, <3>2
  <2>2. CASE m <= a /\ ~(n <= a)
    <3>1. m \in 1..a /\ n - a \in 1..b
      BY <1>1, <1>2, <2>2
    <3>2. all[m] = A[m] /\ all[n] = B[n - a]
      BY <1>9, <2>2
    <3> QED
      BY <1>7, <3>1, <3>2
  <2>3. CASE ~(m <= a)
    <3>1. m - a \in 1..b /\ n - a \in 1..b /\ m - a < n - a /\ ~(n <= a)
      BY <1>1, <1>2, <1>10, <2>3
    <3>2. all[m] = B[m - a] /\ all[n] = B[n - a]
      BY <1>9, <2>3, <3>1
    <3> QED
      BY <1>7, <3>1, <3>2
  <2> QED
    BY <1>1, <1>2, <1>10, <2>1, <2>2, <2>3
<1>11. ASSUME NEW i \in P \cup N
       PROVE  \E n \in 1..(a + b) : all[n] = i
  <2>1. CASE i \in P
    <3>1. PICK n \in 1..a : A[n] = i
      BY <1>1, <2>1
    <3>2. n \in 1..(a + b) /\ all[n] = i
      BY <1>1, <1>2, <1>9, <3>1
    <3> QED
      BY <3>2
  <2>2. CASE i \in N
    <3>1. PICK n \in 1..b : B[n] = i
      BY <1>2, <2>2
    <3>2. a + n \in 1..(a + b) /\ ~(a + n <= a) /\ (a + n) - a = n
      BY <1>1, <1>2, <3>1
    <3>3. all[a + n] = i
      BY <1>9, <3>1, <3>2
    <3> QED
      BY <3>2, <3>3
  <2> QED
    BY <2>1, <2>2
<1>12. all \in Seq(P \cup N)
       /\ (\A m, n \in DOMAIN all : m < n =>
             all[m] # all[n] /\ ~Better(list[all[n]], list[all[m]]))
       /\ (\A i \in P \cup N : \E n \in DOMAIN all : all[n] = i)
  BY <1>9, <1>10, <1>11 DEF good
<1> QED
  BY <1>12 DEF all, A, B, P, N

LEMMA CutIs ==
  ASSUME NEW S, NEW all \in Seq(S), NEW limit \in Nat
  PROVE  LET cut == Cut(all, limit)
         IN  /\ cut \in Seq(S)
             /\ Len(cut) <= limit /\ Len(cut) <= Len(all)
             /\ \A n \in 1..Len(cut) : cut[n] = all[n]
             /\ Len(cut) < Len(all) => Len(cut) = limit
<1>1. CASE Len(all) > limit
  <2>1. /\ SubSeq(all, 1, limit) \in Seq(S)
        /\ Len(SubSeq(all, 1, limit)) = limit
        /\ \A n \in 1..limit : SubSeq(all, 1, limit)[n] = all[n]
    BY <1>1
  <2> QED
    BY <1>1, <2>1 DEF Cut
<1>2. CASE ~(Len(all) > limit)
  BY <1>2 DEF Cut
<1> QED
  BY <1>1, <1>2

\* What is shown of a list, and what is left out.
LEMMA MatchesAre ==
  ASSUME NEW list \in Seq(Assets), NEW limit \in Nat,
         \A i, k \in DOMAIN list : list[i].rank = list[k].rank => i = k
  PROVE  LET r == MatchAssets(list, limit)
         IN  /\ r \in Seq(Assets) /\ Len(r) <= limit
             /\ \A n \in DOMAIN r : \E i \in DOMAIN list :
                  r[n] = list[i] /\ (list[i].prefix \/ list[i].named)
             /\ \A m, n \in DOMAIN r : m < n => r[m] # r[n] /\ ~Better(r[n], r[m])
             /\ \A i \in DOMAIN list :
                  (list[i].prefix \/ list[i].named) /\ (\A n \in DOMAIN r : r[n] # list[i])
                    => /\ Len(r) = limit
                       /\ \A n \in DOMAIN r : ~Better(list[i], r[n])
<1> DEFINE hits == PrefixHits(list) \cup NameHits(list)
           all == Arranged(PrefixHits(list), BySymbol(list))
                    \o Arranged(NameHits(list), ByPlace(list))
           cut == Cut(all, limit)
           r == MatchAssets(list, limit)
<1>1. /\ all \in Seq(hits)
      /\ \A m, n \in DOMAIN all : m < n =>
           all[m] # all[n] /\ ~Better(list[all[n]], list[all[m]])
      /\ \A i \in hits : \E n \in DOMAIN all : all[n] = i
  BY BucketsInOrder
<1>2. /\ hits \in SUBSET DOMAIN list
      /\ \A i \in DOMAIN list : i \in hits <=> list[i].prefix \/ list[i].named
  BY DEF PrefixHits, NameHits
<1>3. r = [n \in DOMAIN cut |-> list[cut[n]]]
  BY DEF MatchAssets
<1> HIDE DEF all, hits, r
<1>4. /\ cut \in Seq(hits)
      /\ Len(cut) <= limit /\ Len(cut) <= Len(all)
      /\ \A n \in 1..Len(cut) : cut[n] = all[n]
      /\ Len(cut) < Len(all) => Len(cut) = limit
  BY <1>1, CutIs
<1> HIDE DEF cut
<1> DEFINE c == Len(cut)
           a == Len(all)
<1>5. c \in Nat /\ a \in Nat /\ DOMAIN cut = 1..c /\ DOMAIN all = 1..a
  BY <1>1, <1>4
<1>6. \A n \in 1..c : cut[n] \in hits /\ cut[n] = all[n] /\ n \in 1..a
  BY <1>4, <1>5
<1>7. \A n \in 1..c : r[n] = list[all[n]] /\ all[n] \in hits /\ all[n] \in DOMAIN list
  BY <1>2, <1>3, <1>5, <1>6
<1>8. r \in Seq(Assets) /\ DOMAIN r = 1..c /\ Len(r) = c
  <2>1. \A i \in DOMAIN list : list[i] \in Assets
    OBVIOUS
  <2>2. r \in [1..c -> Assets]
    BY <1>3, <1>5, <1>7, <2>1
  <2> QED
    BY <1>5, <2>2
<1>9. \A n \in 1..c : \E i \in DOMAIN list :
        r[n] = list[i] /\ (list[i].prefix \/ list[i].named)
  BY <1>2, <1>7
<1>10. \A m, n \in 1..c : m < n => r[m] # r[n] /\ ~Better(r[n], r[m])
  <2>1. ASSUME NEW m \in 1..c, NEW n \in 1..c, m < n
        PROVE  r[m] # r[n] /\ ~Better(r[n], r[m])
    <3>1. m \in DOMAIN all /\ n \in DOMAIN all
      BY <1>5, <1>6
    <3>2. all[m] # all[n] /\ ~Better(list[all[n]], list[all[m]])
      BY <1>1, <2>1, <3>1
    <3>3. list[all[m]] # list[all[n]]
      BY <1>7, <3>2
    <3> QED
      BY <1>7, <3>2, <3>3
  <2> QED
    BY <2>1
<1>11. ASSUME NEW i \in DOMAIN list, list[i].prefix \/ list[i].named,
              \A n \in 1..c : r[n] # list[i]
       PROVE  c = limit /\ \A n \in 1..c : ~Better(list[i], r[n])
  <2>1. PICK k \in 1..a : all[k] = i
    BY <1>1, <1>2, <1>5, <1>11
  <2>2. k \notin 1..c
    BY <1>7, <1>11, <2>1
  <2>3. c < k /\ c < a
    BY <1>5, <2>1, <2>2
  <2>4. c = limit
    BY <1>4, <2>3
  <2>5. ASSUME NEW n \in 1..c
        PROVE  ~Better(list[i], r[n])
    <3>1. n \in DOMAIN all /\ k \in DOMAIN all /\ n < k
      BY <1>5, <1>6, <2>1, <2>3
    <3> QED
      BY <1>1, <1>7, <2>1, <3>1
  <2> QED
    BY <2>4, <2>5
<1>12. /\ r \in Seq(Assets) /\ Len(r) <= limit
       /\ \A n \in DOMAIN r : \E i \in DOMAIN list :
            r[n] = list[i] /\ (list[i].prefix \/ list[i].named)
       /\ \A m, n \in DOMAIN r : m < n => r[m] # r[n] /\ ~Better(r[n], r[m])
       /\ \A i \in DOMAIN list :
            (list[i].prefix \/ list[i].named) /\ (\A n \in DOMAIN r : r[n] # list[i])
              => /\ Len(r) = limit
                 /\ \A n \in DOMAIN r : ~Better(list[i], r[n])
  BY <1>4, <1>8, <1>9, <1>10, <1>11
<1> QED
  BY <1>12 DEF r

LEMMA DistinctCounted ==
  ASSUME NEW S, NEW s \in Seq(S), \A m, n \in DOMAIN s : m < n => s[m] # s[n]
  PROVE  Cardinality({s[n] : n \in DOMAIN s}) = Len(s)
<1> DEFINE visible == {s[n] : n \in DOMAIN s}
<1>1. DOMAIN s = 1..Len(s) /\ Len(s) \in Nat
  OBVIOUS
<1>2. IsFiniteSet(1..Len(s)) /\ Cardinality(1..Len(s)) = Len(s)
  BY <1>1, FS_Interval
<1>3. \A m, n \in 1..Len(s) : s[m] = s[n] => m = n
  BY <1>1
<1>4. s \in [1..Len(s) -> visible] /\ \A x \in visible : \E n \in 1..Len(s) : s[n] = x
  BY <1>1
<1> HIDE DEF visible
<1>5. s \in Surjection(1..Len(s), visible) /\ s \in Injection(1..Len(s), visible)
  BY <1>3, <1>4 DEF Surjection, Injection, IsInjective
<1>6. Cardinality(visible) = Cardinality(1..Len(s))
  BY <1>2, <1>5, FS_Surjection
<1> QED
  BY <1>2, <1>6 DEF visible

\* A caller that shows matches, or has, took them from a list that Alpaca sent.
MatchInv ==
  /\ SearchTypeOK
  /\ result \in [Callers -> Seq(Assets)]
  /\ \A c \in Callers :
       /\ searching[c] = "read" => cached # "nothing"
       /\ searching[c] = "quote" =>
            \E list \in Listings : result[c] = MatchAssets(list, MaxResults)

LEMMA ListingMatches ==
  ASSUME NEW list \in Listings
  PROVE  MatchAssets(list, MaxResults) \in Seq(Assets)
         /\ Len(MatchAssets(list, MaxResults)) <= MaxResults
BY MatchesAre, SearchAssumption

LEMMA MatchInvHolds == SearchSpec => []MatchInv
<1>1. SearchInit => MatchInv
  BY SearchAssumption DEF SearchInit, MatchInv, SearchTypeOK, Stages
<1>2. MatchInv /\ [SearchNext]_searchVars => MatchInv'
  <2> SUFFICES ASSUME MatchInv, [SearchNext]_searchVars
               PROVE  MatchInv'
    OBVIOUS
  <2> USE SearchAssumption DEF MatchInv, SearchTypeOK, To, Fresh, Stages
  <2>1. CASE Expire
    BY <2>1 DEF Expire
  <2>2. ASSUME NEW c \in Callers, BeginSearch(c)
        PROVE  MatchInv'
    BY <2>2 DEF BeginSearch
  <2>3. ASSUME NEW c \in Callers, LookUnderReadLock(c) \/ TakeWriteLock(c)
        PROVE  MatchInv'
    BY <2>3 DEF LookUnderReadLock, TakeWriteLock
  <2>4. ASSUME NEW c \in Callers, LookAgain(c)
        PROVE  MatchInv'
    BY <2>4 DEF LookAgain
  <2>5. ASSUME NEW c \in Callers, FetchAnswers(c) \/ FetchFails(c)
        PROVE  MatchInv'
    BY <2>5 DEF FetchAnswers, FetchFails
  <2>6. ASSUME NEW c \in Callers, ReadMatches(c)
        PROVE  MatchInv'
    <3> DEFINE found == MatchAssets(assets, MaxResults)
    <3>1. assets \in Listings /\ found \in Seq(Assets) /\ Len(found) <= MaxResults
      BY <2>6, ListingMatches DEF ReadMatches
    <3>2. /\ result' = [result EXCEPT ![c] = found]
          /\ searching' = [searching EXCEPT ![c] = IF found = <<>> THEN "idle" ELSE "quote"]
          /\ UNCHANGED <<assets, cached, writer>>
      BY <2>6 DEF ReadMatches
    <3>3. \E list \in Listings : found = MatchAssets(list, MaxResults)
      BY <3>1
    <3> HIDE DEF found
    <3> QED
      BY <3>1, <3>2, <3>3
  <2>7. ASSUME NEW c \in Callers, AddQuotes(c)
        PROVE  MatchInv'
    BY <2>7 DEF AddQuotes
  <2>8. CASE UNCHANGED searchVars
    BY <2>8 DEF searchVars
  <2> QED
    BY <2>1, <2>2, <2>3, <2>4, <2>5, <2>6, <2>7, <2>8 DEF SearchNext, SearchStep
<1> QED
  BY <1>1, <1>2, PTL DEF SearchSpec

\* The search's variables keep their types; no result is longer than the limit.
THEOREM SearchTypeCorrect == SearchSpec => []SearchTypeOK
<1>1. MatchInv => SearchTypeOK
  BY DEF MatchInv
<1> QED
  BY <1>1, MatchInvHolds, PTL

\* Whatever list Alpaca sends and whatever the limit: what is shown are hits,
\* none twice, the better ones first; a hit is left out only for want of room,
\* and nothing that is shown is worse than it.
THEOREM BestMatchesAreShown == SearchSpec => []BestMatches
<1>1. MatchInv => BestMatches
  <2> SUFFICES ASSUME MatchInv, NEW c \in Callers, searching[c] = "quote"
               PROVE  LET visible == {result[c][i] : i \in DOMAIN result[c]} IN
                      /\ Cardinality(visible) = Len(result[c])
                      /\ visible \subseteq Hits
                      /\ \A i, j \in DOMAIN result[c] :
                           Better(result[c][j], result[c][i]) => j < i
                      /\ \E l \in Listings :
                           /\ visible \subseteq {l[k] : k \in DOMAIN l}
                           /\ \A k \in DOMAIN l :
                                (l[k].prefix \/ l[k].named) /\ l[k] \notin visible
                                  => /\ Len(result[c]) = MaxResults
                                     /\ \A b \in visible : ~Better(l[k], b)
    BY DEF BestMatches
  <2>1. PICK list \in Listings : result[c] = MatchAssets(list, MaxResults)
    BY DEF MatchInv
  <2> DEFINE r == result[c]
             visible == {r[n] : n \in DOMAIN r}
  <2>2. /\ list \in Seq(Assets) /\ MaxResults \in Nat
        /\ \A i, k \in DOMAIN list : list[i].rank = list[k].rank => i = k
    BY SearchAssumption
  <2>3. /\ r \in Seq(Assets) /\ Len(r) <= MaxResults
        /\ \A n \in DOMAIN r : \E i \in DOMAIN list :
             r[n] = list[i] /\ (list[i].prefix \/ list[i].named)
        /\ \A m, n \in DOMAIN r : m < n => r[m] # r[n] /\ ~Better(r[n], r[m])
        /\ \A i \in DOMAIN list :
             (list[i].prefix \/ list[i].named) /\ (\A n \in DOMAIN r : r[n] # list[i])
               => /\ Len(r) = MaxResults
                  /\ \A n \in DOMAIN r : ~Better(list[i], r[n])
    <3> DEFINE m == MatchAssets(list, MaxResults)
    <3>1. /\ m \in Seq(Assets) /\ Len(m) <= MaxResults
          /\ \A n \in DOMAIN m : \E i \in DOMAIN list :
               m[n] = list[i] /\ (list[i].prefix \/ list[i].named)
          /\ \A k, n \in DOMAIN m : k < n => m[k] # m[n] /\ ~Better(m[n], m[k])
          /\ \A i \in DOMAIN list :
               (list[i].prefix \/ list[i].named) /\ (\A n \in DOMAIN m : m[n] # list[i])
                 => /\ Len(m) = MaxResults
                    /\ \A n \in DOMAIN m : ~Better(list[i], m[n])
      BY <2>2, MatchesAre
    <3>2. r = m
      BY <2>1
    <3> HIDE DEF r, m
    <3> QED
      BY <3>1, <3>2
  <2> HIDE DEF r
  <2>4. Cardinality(visible) = Len(r)
    BY <2>3, DistinctCounted
  <2>5. visible \subseteq Hits /\ visible \subseteq {list[k] : k \in DOMAIN list}
    BY <2>3 DEF Hits
  <2>6. ASSUME NEW i \in DOMAIN r, NEW j \in DOMAIN r, Better(r[j], r[i])
        PROVE  j < i
    <3>1. i \in Nat /\ j \in Nat
      BY <2>3
    <3>2. r[i].length \in Nat /\ r[i].rank \in Nat
      <4>1. r[i] \in Assets
        BY <2>3
      <4> QED
        BY <4>1 DEF Assets
    <3>3. i # j
      BY <2>6, <3>2 DEF Better, Before
    <3>4. ~(i < j)
      BY <2>3, <2>6
    <3> QED
      BY <3>1, <3>3, <3>4
  <2>7. ASSUME NEW k \in DOMAIN list, list[k].prefix \/ list[k].named, list[k] \notin visible
        PROVE  Len(r) = MaxResults /\ \A b \in visible : ~Better(list[k], b)
    BY <2>3, <2>7
  <2>8. /\ Cardinality(visible) = Len(r)
        /\ visible \subseteq Hits
        /\ \A i, j \in DOMAIN r : Better(r[j], r[i]) => j < i
        /\ \E l \in Listings :
             /\ visible \subseteq {l[k] : k \in DOMAIN l}
             /\ \A k \in DOMAIN l :
                  (l[k].prefix \/ l[k].named) /\ l[k] \notin visible
                    => /\ Len(r) = MaxResults
                       /\ \A b \in visible : ~Better(l[k], b)
    <3>1. /\ visible \subseteq {list[k] : k \in DOMAIN list}
          /\ \A k \in DOMAIN list :
               (list[k].prefix \/ list[k].named) /\ list[k] \notin visible
                 => /\ Len(r) = MaxResults
                    /\ \A b \in visible : ~Better(list[k], b)
      BY <2>5, <2>7
    <3> HIDE DEF visible
    <3> QED
      BY <2>4, <2>5, <2>6, <3>1
  <2> QED
    BY <2>8 DEF r
<1> QED
  BY <1>1, MatchInvHolds, PTL

----------------------------------------------------------------------------
(* Stream hub *)

HubTyped ==
  /\ clock \in 0..MaxClock
  /\ publishing \in [Publishers -> Messages \cup {NoMessage}]
  /\ lastPublish \in [Quotes -> 0..MaxClock \cup {Never}]
  /\ buffer \in [Conns -> Seq(Messages)]
  /\ shown \in [Conns -> [Quotes -> 0..MaxClock \cup {Never}]]

\* The reading of the last publication is the greatest that a client has seen or
\* will see.
LastInv ==
  \A c \in Conns :
    /\ \A s \in Quotes : shown[c][s] <= lastPublish[s]
    /\ \A k \in DOMAIN buffer[c] : buffer[c][k].kind = "market" =>
         buffer[c][k].at <= lastPublish[buffer[c][k].symbol]

HubInv == HubTyped /\ LastInv /\ QuoteSpacing

\* What the invariant says of one connection whose channel is b, whose client was
\* shown seen, when the last publications are last.
Spaced(b, seen, last) ==
  /\ \A s \in Quotes : seen[s] <= last[s]
  /\ \A k \in DOMAIN b : b[k].kind = "market" =>
       /\ b[k].at <= last[b[k].symbol]
       /\ seen[b[k].symbol] # Never => b[k].at - seen[b[k].symbol] >= Throttle
       /\ \A j \in 1..(k - 1) : b[j].kind = "market" /\ b[j].symbol = b[k].symbol
            => b[k].at - b[j].at >= Throttle

LEMMA HubInvByConnection ==
  /\ HubInv <=> HubTyped /\ \A c \in Conns : Spaced(buffer[c], shown[c], lastPublish)
  /\ HubInv' <=> HubTyped' /\ \A c \in Conns : Spaced(buffer'[c], shown'[c], lastPublish')
BY DEF HubInv, LastInv, QuoteSpacing, Spaced

LEMMA QuoteFields ==
  ASSUME NEW m \in Messages, m.kind = "market"
  PROVE  m.symbol \in Quotes /\ m.at \in 0..MaxClock
BY DEF Messages

\* A quote that is not throttled keeps its distance from all that are buffered
\* and shown.
LEMMA AppendSpaced ==
  ASSUME NEW b \in Seq(Messages), NEW seen \in [Quotes -> 0..MaxClock \cup {Never}],
         NEW last \in [Quotes -> 0..MaxClock \cup {Never}], Spaced(b, seen, last),
         NEW m \in Messages, m.kind = "market",
         last[m.symbol] # Never => m.at - last[m.symbol] >= Throttle
  PROVE  /\ Spaced(Append(b, m), seen, [last EXCEPT ![m.symbol] = m.at])
         /\ Spaced(b, seen, [last EXCEPT ![m.symbol] = m.at])
<1> USE HubAssumption
<1>1. m.symbol \in Quotes /\ m.at \in 0..MaxClock
  BY QuoteFields
<1> DEFINE new == [last EXCEPT ![m.symbol] = m.at]
<1>2. /\ \A s \in Quotes : new[s] = IF s = m.symbol THEN m.at ELSE last[s]
      /\ \A s \in Quotes : last[s] <= new[s] /\ last[s] \in Int /\ new[s] \in Int
      /\ \A s \in Quotes : seen[s] \in Int /\ seen[s] >= -1
  BY <1>1 DEF Never
<1>3. \A k \in DOMAIN b : b[k].kind = "market" => b[k].symbol \in Quotes /\ b[k].at \in 0..MaxClock
  BY QuoteFields
<1>4. Spaced(b, seen, new)
  <2> HIDE DEF new
  <2>1. \A s \in Quotes : seen[s] <= new[s]
    <3>1. \A s \in Quotes : seen[s] <= last[s]
      BY DEF Spaced
    <3> QED
      BY <1>2, <3>1
  <2>2. \A k \in DOMAIN b : b[k].kind = "market" => b[k].at <= new[b[k].symbol]
    <3>1. \A k \in DOMAIN b : b[k].kind = "market" => b[k].at <= last[b[k].symbol]
      BY DEF Spaced
    <3> QED
      BY <1>2, <1>3, <3>1
  <2> QED
    BY <2>1, <2>2 DEF Spaced
<1>5. /\ DOMAIN Append(b, m) = 1..(Len(b) + 1) /\ DOMAIN b = 1..Len(b) /\ Len(b) \in Nat
      /\ \A k \in 1..(Len(b) + 1) : Append(b, m)[k] = IF k = Len(b) + 1 THEN m ELSE b[k]
  <2>1. DOMAIN b = 1..Len(b) /\ Len(b) \in Nat
    OBVIOUS
  <2>2. Append(b, m) \in Seq(Messages) /\ Len(Append(b, m)) = Len(b) + 1
    OBVIOUS
  <2>3. \A k \in 1..(Len(b) + 1) : Append(b, m)[k] = IF k = Len(b) + 1 THEN m ELSE b[k]
    BY <2>1
  <2> QED
    BY <2>1, <2>2, <2>3
<1>6. /\ seen[m.symbol] # Never => m.at - seen[m.symbol] >= Throttle
      /\ \A j \in 1..Len(b) : b[j].kind = "market" /\ b[j].symbol = m.symbol
           => m.at - b[j].at >= Throttle
  <2> DEFINE reading == last[m.symbol]
  <2>1. /\ reading \in Int /\ seen[m.symbol] \in Int /\ seen[m.symbol] <= reading
        /\ seen[m.symbol] >= -1
        /\ reading # -1 => m.at - reading >= Throttle
    BY <1>1, <1>2 DEF Spaced, Never
  <2>2. \A j \in 1..Len(b) : b[j].kind = "market" /\ b[j].symbol = m.symbol
          => b[j].at <= reading /\ b[j].at \in 0..MaxClock
    BY <1>3, <1>5 DEF Spaced
  <2> HIDE DEF reading
  <2> QED
    BY <1>1, <2>1, <2>2 DEF Never
<1>7. Spaced(Append(b, m), seen, new)
  <2> DEFINE a == Append(b, m)
  <2>1. new[m.symbol] = m.at
    BY <1>1, <1>2
  <2> HIDE DEF new, a
  <2>2. ASSUME NEW k \in 1..Len(b), b[k].kind = "market"
        PROVE  /\ b[k].at <= new[b[k].symbol]
               /\ seen[b[k].symbol] # Never => b[k].at - seen[b[k].symbol] >= Throttle
               /\ \A j \in 1..(k - 1) : b[j].kind = "market" /\ b[j].symbol = b[k].symbol
                    => b[k].at - b[j].at >= Throttle
    BY <1>4, <1>5, <2>2 DEF Spaced
  <2>3. /\ DOMAIN a = 1..(Len(b) + 1) /\ a[Len(b) + 1] = m
        /\ \A k \in 1..Len(b) : a[k] = b[k]
    BY <1>5 DEF a
  <2>4. \A s \in Quotes : seen[s] <= new[s]
    BY <1>4 DEF Spaced
  <2>5. ASSUME NEW k \in DOMAIN a, a[k].kind = "market"
        PROVE  /\ a[k].at <= new[a[k].symbol]
               /\ seen[a[k].symbol] # Never => a[k].at - seen[a[k].symbol] >= Throttle
               /\ \A j \in 1..(k - 1) : a[j].kind = "market" /\ a[j].symbol = a[k].symbol
                    => a[k].at - a[j].at >= Throttle
    <3>1. CASE k = Len(b) + 1
      <4>1. k - 1 = Len(b) /\ a[k] = m
        BY <1>5, <2>3, <3>1
      <4>2. m.at <= new[m.symbol]
        BY <1>1, <2>1
      <4> QED
        BY <1>6, <2>3, <4>1, <4>2
    <3>2. CASE k \in 1..Len(b)
      BY <1>5, <2>2, <2>3, <2>5, <3>2
    <3> QED
      BY <1>5, <2>3, <3>1, <3>2
  <2> QED
    BY <2>4, <2>5 DEF Spaced, a
<1> QED
  BY <1>4, <1>7

LEMMA TailSpaced ==
  ASSUME NEW b \in Seq(Messages), b # <<>>, NEW seen \in [Quotes -> 0..MaxClock \cup {Never}],
         NEW last \in [Quotes -> 0..MaxClock \cup {Never}], Spaced(b, seen, last),
         NEW now, now = IF Head(b).kind = "market"
                        THEN [seen EXCEPT ![Head(b).symbol] = Head(b).at] ELSE seen
  PROVE  Spaced(Tail(b), now, last) /\ now \in [Quotes -> 0..MaxClock \cup {Never}]
<1> USE HubAssumption
<1>1. /\ Head(b) = b[1] /\ 1 \in DOMAIN b /\ b[1] \in Messages
      /\ Len(b) \in Nat /\ DOMAIN b = 1..Len(b) /\ DOMAIN Tail(b) = 1..(Len(b) - 1)
      /\ \A k \in 1..(Len(b) - 1) : k + 1 \in DOMAIN b /\ Tail(b)[k] = b[k + 1]
  OBVIOUS
<1>2. now \in [Quotes -> 0..MaxClock \cup {Never}]
  BY <1>1, QuoteFields
<1>3. \A s \in Quotes : now[s] = IF b[1].kind = "market" /\ b[1].symbol = s
                                  THEN b[1].at ELSE seen[s]
  BY <1>1
<1>4. \A s \in Quotes : now[s] <= last[s]
  BY <1>1, <1>3 DEF Spaced
<1>5. ASSUME NEW k \in DOMAIN Tail(b), Tail(b)[k].kind = "market"
      PROVE  /\ Tail(b)[k].at <= last[Tail(b)[k].symbol]
             /\ now[Tail(b)[k].symbol] # Never
                  => Tail(b)[k].at - now[Tail(b)[k].symbol] >= Throttle
             /\ \A j \in 1..(k - 1) :
                  Tail(b)[j].kind = "market" /\ Tail(b)[j].symbol = Tail(b)[k].symbol
                    => Tail(b)[k].at - Tail(b)[j].at >= Throttle
  <2>1. k \in 1..(Len(b) - 1) /\ k + 1 \in DOMAIN b /\ Tail(b)[k] = b[k + 1]
    BY <1>1
  <2>2. b[k + 1].kind = "market" /\ b[k + 1].symbol \in Quotes
    <3>1. b[k + 1] \in Messages
      BY <1>1, <2>1
    <3> QED
      BY <1>5, <2>1, <3>1, QuoteFields
  <2>3. /\ b[k + 1].at <= last[b[k + 1].symbol]
        /\ seen[b[k + 1].symbol] # Never => b[k + 1].at - seen[b[k + 1].symbol] >= Throttle
        /\ \A j \in 1..((k + 1) - 1) : b[j].kind = "market" /\ b[j].symbol = b[k + 1].symbol
             => b[k + 1].at - b[j].at >= Throttle
    BY <2>1, <2>2 DEF Spaced
  <2>4. 1 \in 1..((k + 1) - 1)
    BY <1>1, <2>1
  <2>5. now[b[k + 1].symbol] # Never => b[k + 1].at - now[b[k + 1].symbol] >= Throttle
    BY <1>3, <2>2, <2>3, <2>4
  <2>6. \A j \in 1..(k - 1) :
          Tail(b)[j] = b[j + 1] /\ j + 1 \in 1..((k + 1) - 1)
    BY <1>1, <2>1
  <2> QED
    BY <2>1, <2>3, <2>5, <2>6
<1> QED
  BY <1>2, <1>4, <1>5 DEF Spaced

LEMMA HubInvInit == HubInit => HubInv
<1> SUFFICES ASSUME HubInit PROVE HubInv
  OBVIOUS
<1> USE HubAssumption
<1>1. HubTyped
  BY DEF HubInit, HubTyped
<1>2. \A c \in Conns : Spaced(buffer[c], shown[c], lastPublish)
  BY DEF HubInit, Spaced, Never
<1> QED
  BY <1>1, <1>2, HubInvByConnection

LEMMA PublishQuoteStep ==
  ASSUME HubInv, NEW p \in Publishers, PublishQuote(p)
  PROVE  HubInv'
<1> USE HubAssumption
<1> DEFINE m == publishing[p]
<1>1. HubTyped /\ \A c \in Conns : Spaced(buffer[c], shown[c], lastPublish)
  BY HubInvByConnection
<1>2. m \in Messages /\ m.kind = "market"
  BY <1>1 DEF PublishQuote, HubTyped, NoMessage
<1>3. m.symbol \in Quotes /\ m.at \in 0..MaxClock
  BY <1>2, QuoteFields
<1>4. /\ UNCHANGED <<clock, shown>>
      /\ publishing' \in [Publishers -> Messages \cup {NoMessage}]
  BY <1>1 DEF PublishQuote, HubTyped
<1>5. CASE Throttled(m)
  <2>1. UNCHANGED <<lastPublish, buffer>>
    BY <1>5 DEF PublishQuote
  <2>2. HubTyped'
    BY <1>1, <1>4, <2>1 DEF HubTyped
  <2>3. \A c \in Conns : Spaced(buffer'[c], shown'[c], lastPublish')
    BY <1>1, <1>4, <2>1
  <2> QED
    BY <2>2, <2>3, HubInvByConnection
<1>6. CASE ~Throttled(m)
  <2>1. /\ lastPublish' = [lastPublish EXCEPT ![m.symbol] = m.at]
        /\ FanOut("market", m)
        /\ lastPublish[m.symbol] # Never => m.at - lastPublish[m.symbol] >= Throttle
    BY <1>1, <1>3, <1>6 DEF PublishQuote, Throttled, HubTyped, Never
  <2>2. ASSUME NEW c \in Conns
        PROVE  buffer'[c] \in Seq(Messages) /\ Spaced(buffer'[c], shown'[c], lastPublish')
    <3>1. buffer[c] \in Seq(Messages) /\ shown[c] \in [Quotes -> 0..MaxClock \cup {Never}]
      BY <1>1 DEF HubTyped
    <3>2. lastPublish \in [Quotes -> 0..MaxClock \cup {Never}]
      BY <1>1 DEF HubTyped
    <3>3. /\ Spaced(Append(buffer[c], m), shown[c], lastPublish')
          /\ Spaced(buffer[c], shown[c], lastPublish')
      <4> HIDE DEF m
      <4> QED
        BY <1>1, <1>2, <2>1, <3>1, <3>2, AppendSpaced
    <3>4. buffer'[c] = Append(buffer[c], m) \/ buffer'[c] = buffer[c]
      BY <2>1 DEF FanOut
    <3>5. Append(buffer[c], m) \in Seq(Messages)
      BY <1>2, <3>1
    <3>6. Spaced(buffer'[c], shown'[c], lastPublish')
      BY <1>4, <3>3, <3>4
    <3> QED
      BY <3>1, <3>4, <3>5, <3>6
  <2>3. HubTyped'
    <3>1. buffer' \in [Conns -> Seq(Messages)]
      BY <2>1, <2>2 DEF FanOut
    <3>2. lastPublish' \in [Quotes -> 0..MaxClock \cup {Never}]
      BY <1>1, <1>3, <2>1 DEF HubTyped
    <3> QED
      BY <1>1, <1>4, <3>1, <3>2 DEF HubTyped
  <2> QED
    BY <2>2, <2>3, HubInvByConnection
<1> QED
  BY <1>5, <1>6

LEMMA AppendEventSpaced ==
  ASSUME NEW b \in Seq(Messages), NEW seen, NEW last, Spaced(b, seen, last),
         NEW m \in Messages, m.kind # "market"
  PROVE  Spaced(Append(b, m), seen, last)
<1>1. /\ Len(b) \in Nat /\ DOMAIN b = 1..Len(b) /\ DOMAIN Append(b, m) = 1..(Len(b) + 1)
      /\ Append(b, m)[Len(b) + 1] = m
      /\ \A k \in 1..Len(b) : Append(b, m)[k] = b[k]
  OBVIOUS
<1>2. ASSUME NEW k \in DOMAIN Append(b, m), Append(b, m)[k].kind = "market"
      PROVE  /\ k \in DOMAIN b /\ Append(b, m)[k] = b[k]
             /\ \A j \in 1..(k - 1) : Append(b, m)[j] = b[j]
  BY <1>1, <1>2
<1> QED
  BY <1>2 DEF Spaced

LEMMA PublishAccountStep ==
  ASSUME HubInv, NEW p \in Publishers, PublishAccount(p)
  PROVE  HubInv'
<1> DEFINE m == publishing[p]
<1>1. HubTyped /\ \A c \in Conns : Spaced(buffer[c], shown[c], lastPublish)
  BY HubInvByConnection
<1>2. m \in Messages /\ m.kind # "market"
  BY <1>1 DEF PublishAccount, HubTyped, NoMessage
<1>3. /\ UNCHANGED <<clock, shown, lastPublish>> /\ FanOut("account", m)
      /\ publishing' \in [Publishers -> Messages \cup {NoMessage}]
  BY <1>1 DEF PublishAccount, HubTyped
<1> HIDE DEF m
<1>4. ASSUME NEW c \in Conns
      PROVE  buffer'[c] \in Seq(Messages) /\ Spaced(buffer'[c], shown'[c], lastPublish')
  <2>1. buffer[c] \in Seq(Messages)
    BY <1>1 DEF HubTyped
  <2>2. Spaced(Append(buffer[c], m), shown[c], lastPublish)
    BY <1>1, <1>2, <2>1, AppendEventSpaced
  <2>3. buffer'[c] = Append(buffer[c], m) \/ buffer'[c] = buffer[c]
    BY <1>3 DEF FanOut
  <2>4. Append(buffer[c], m) \in Seq(Messages)
    BY <1>2, <2>1
  <2> QED
    BY <1>1, <1>3, <2>1, <2>2, <2>3, <2>4
<1>5. buffer' \in [Conns -> Seq(Messages)]
  BY <1>3, <1>4 DEF FanOut
<1>6. HubTyped'
  BY <1>1, <1>3, <1>5 DEF HubTyped
<1> QED
  BY <1>4, <1>6, HubInvByConnection

LEMMA SubscribeStep ==
  ASSUME HubInv, NEW c \in Conns, Subscribe(c)
  PROVE  HubInv'
<1> USE HubAssumption
<1>1. HubTyped /\ \A d \in Conns : Spaced(buffer[d], shown[d], lastPublish)
  BY HubInvByConnection
<1>2. /\ UNCHANGED <<clock, publishing, lastPublish>>
      /\ buffer' = [buffer EXCEPT ![c] = <<>>]
      /\ shown' = [shown EXCEPT ![c] = [s \in Quotes |-> Never]]
  BY DEF Subscribe
<1>3. Spaced(<<>>, [s \in Quotes |-> Never], lastPublish)
  BY <1>1 DEF Spaced, HubTyped, Never
<1>4. \A d \in Conns : Spaced(buffer'[d], shown'[d], lastPublish')
  BY <1>1, <1>2, <1>3 DEF HubTyped
<1>5. HubTyped'
  <2>1. [s \in Quotes |-> Never] \in [Quotes -> 0..MaxClock \cup {Never}]
    OBVIOUS
  <2>2. shown' \in [Conns -> [Quotes -> 0..MaxClock \cup {Never}]]
    BY <1>1, <1>2, <2>1 DEF HubTyped
  <2>3. buffer' \in [Conns -> Seq(Messages)]
    BY <1>1, <1>2 DEF HubTyped
  <2> QED
    BY <1>1, <1>2, <2>2, <2>3 DEF HubTyped
<1> QED
  BY <1>4, <1>5, HubInvByConnection

LEMMA WriteEventStep ==
  ASSUME HubInv, NEW c \in Conns, WriteEvent(c)
  PROVE  HubInv'
<1> USE HubAssumption
<1> DEFINE m == Head(buffer[c])
           now == IF m.kind = "market" THEN [shown[c] EXCEPT ![m.symbol] = m.at] ELSE shown[c]
<1>1. HubTyped /\ \A d \in Conns : Spaced(buffer[d], shown[d], lastPublish)
  BY HubInvByConnection
<1>2. /\ buffer[c] # <<>> /\ UNCHANGED <<clock, publishing, lastPublish>>
      /\ buffer' = [buffer EXCEPT ![c] = Tail(buffer[c])]
      /\ shown' = [shown EXCEPT ![c] = now]
  BY <1>1 DEF WriteEvent, HubTyped
<1>3. Spaced(Tail(buffer[c]), now, lastPublish) /\ now \in [Quotes -> 0..MaxClock \cup {Never}]
  <2>1. /\ buffer[c] \in Seq(Messages) /\ shown[c] \in [Quotes -> 0..MaxClock \cup {Never}]
        /\ lastPublish \in [Quotes -> 0..MaxClock \cup {Never}]
    BY <1>1 DEF HubTyped
  <2>2. now = IF Head(buffer[c]).kind = "market"
              THEN [shown[c] EXCEPT ![Head(buffer[c]).symbol] = Head(buffer[c]).at]
              ELSE shown[c]
    OBVIOUS
  <2> HIDE DEF now
  <2> QED
    BY <1>1, <1>2, <2>1, <2>2, TailSpaced
<1>4. buffer[c] \in Seq(Messages) /\ Tail(buffer[c]) \in Seq(Messages)
  BY <1>1, <1>2 DEF HubTyped
<1> HIDE DEF now
<1>5. /\ \A d \in Conns : buffer'[d] = IF d = c THEN Tail(buffer[c]) ELSE buffer[d]
      /\ \A d \in Conns : shown'[d] = IF d = c THEN now ELSE shown[d]
  BY <1>1, <1>2 DEF HubTyped
<1>6. \A d \in Conns : Spaced(buffer'[d], shown'[d], lastPublish')
  BY <1>1, <1>2, <1>3, <1>5
<1>7. buffer' \in [Conns -> Seq(Messages)]
  BY <1>1, <1>2, <1>4 DEF HubTyped
<1>8. shown' \in [Conns -> [Quotes -> 0..MaxClock \cup {Never}]]
  BY <1>1, <1>2, <1>3 DEF HubTyped
<1>9. HubTyped'
  BY <1>1, <1>2, <1>7, <1>8 DEF HubTyped
<1> QED
  BY <1>6, <1>9, HubInvByConnection

LEMMA HubInvStep == HubInv /\ [HubNext]_hubVars => HubInv'
<1> SUFFICES ASSUME HubInv, [HubNext]_hubVars
             PROVE  HubInv'
  OBVIOUS
<1> USE HubAssumption
<1>1. HubTyped /\ \A c \in Conns : Spaced(buffer[c], shown[c], lastPublish)
  BY HubInvByConnection
<1>2. ASSUME UNCHANGED <<lastPublish, buffer, shown>>, HubTyped'
      PROVE  HubInv'
  BY <1>1, <1>2, HubInvByConnection
<1>3. CASE Tick
  BY <1>1, <1>2, <1>3 DEF Tick, HubTyped
<1>4. CASE \E p \in Publishers : BeginPublish(p)
  <2>1. PICK p \in Publishers : BeginPublish(p)
    BY <1>4
  <2>2. publishing' \in [Publishers -> Messages \cup {NoMessage}]
    BY <1>1, <2>1 DEF BeginPublish, HubTyped
  <2> QED
    BY <1>1, <1>2, <2>1, <2>2 DEF BeginPublish, HubTyped
<1>5. CASE \E p \in Publishers : Publish(p)
  BY <1>5, PublishQuoteStep, PublishAccountStep DEF Publish
<1>6. CASE \E c \in Conns : Subscribe(c)
  BY <1>6, SubscribeStep
<1>7. CASE \E c \in Conns : WriteEvent(c)
  BY <1>7, WriteEventStep
<1>8. CASE \E c \in Conns : Disconnect(c)
  BY <1>1, <1>2, <1>8 DEF Disconnect, HubTyped
<1>9. CASE UNCHANGED hubVars
  BY <1>1, <1>2, <1>9 DEF hubVars, HubTyped
<1> QED
  BY <1>3, <1>4, <1>5, <1>6, <1>7, <1>8, <1>9 DEF HubNext

\* For any number of publishers, connections and symbols: however publishers
\* overtake each other between the clock and the mutex, no client is shown two
\* quotes of a symbol closer than the throttle, or out of order.
THEOREM QuotesAreSpaced == HubSpec => []QuoteSpacing
<1>1. HubInv => QuoteSpacing
  BY DEF HubInv
<1> QED
  BY <1>1, HubInvInit, HubInvStep, PTL DEF HubSpec

\* Who is subscribed, and how full the channels are.
SubscribersTyped ==
  /\ subscribers \in [Kinds -> SUBSET Conns]
  /\ streaming \in [Conns -> Kinds \cup {"off"}]
  /\ \A c \in Conns : Len(buffer[c]) <= Capacity

LEMMA SubscribersStep ==
  ASSUME HubTyped, SubscribersTyped, [HubNext]_hubVars
  PROVE  SubscribersTyped'
<1> USE HubAssumption DEF SubscribersTyped
<1>0. \A c \in Conns : buffer[c] \in Seq(Messages) /\ Len(buffer[c]) \in Nat
  BY DEF HubTyped
<1>1. CASE Tick \/ \E p \in Publishers : BeginPublish(p)
  BY <1>1 DEF Tick, BeginPublish
<1>2. ASSUME NEW p \in Publishers, PublishQuote(p) \/ PublishAccount(p)
      PROVE  SubscribersTyped'
  <2>1. /\ UNCHANGED <<subscribers, streaming>>
        /\ \/ UNCHANGED buffer
           \/ FanOut("market", publishing[p]) \/ FanOut("account", publishing[p])
    BY <1>2 DEF PublishQuote, PublishAccount
  <2>2. ASSUME NEW kind, NEW m, FanOut(kind, m), NEW c \in Conns
        PROVE  Len(buffer'[c]) <= Capacity
    <3>1. CASE c \in subscribers[kind] /\ Room(c)
      <4>1. buffer'[c] = Append(buffer[c], m)
        BY <2>2, <3>1 DEF FanOut
      <4>2. Len(Append(buffer[c], m)) = Len(buffer[c]) + 1
        <5>1. buffer[c] \in Seq(Messages \cup {m}) /\ m \in Messages \cup {m}
          BY <1>0
        <5> QED
          BY <5>1
      <4> QED
        BY <1>0, <3>1, <4>1, <4>2 DEF Room
    <3>2. CASE ~(c \in subscribers[kind] /\ Room(c))
      BY <2>2, <3>2 DEF FanOut
    <3> QED
      BY <3>1, <3>2
  <2> QED
    BY <2>1, <2>2
<1>3. ASSUME NEW c \in Conns, Subscribe(c)
      PROVE  SubscribersTyped'
  <2>1. PICK kind \in Kinds :
          /\ streaming' = [streaming EXCEPT ![c] = kind]
          /\ subscribers' = [subscribers EXCEPT ![kind] = @ \cup {c}]
    BY <1>3 DEF Subscribe
  <2>2. buffer' = [buffer EXCEPT ![c] = <<>>]
    BY <1>3 DEF Subscribe
  <2>3. \A d \in Conns : buffer'[d] = buffer[d] \/ buffer'[d] = <<>>
    BY <2>2 DEF HubTyped
  <2>4. \A d \in Conns : Len(buffer'[d]) <= Capacity
    BY <2>3
  <2> QED
    BY <2>1, <2>4
<1>4. ASSUME NEW c \in Conns, WriteEvent(c)
      PROVE  SubscribersTyped'
  <2>1. buffer' = [buffer EXCEPT ![c] = Tail(@)] /\ buffer[c] # <<>>
        /\ UNCHANGED <<subscribers, streaming>>
    BY <1>4 DEF WriteEvent
  <2>2. Len(Tail(buffer[c])) = Len(buffer[c]) - 1
    BY <1>0, <2>1
  <2>3. \A d \in Conns : buffer'[d] = IF d = c THEN Tail(buffer[c]) ELSE buffer[d]
    BY <2>1 DEF HubTyped
  <2>4. ASSUME NEW d \in Conns
        PROVE  Len(buffer'[d]) <= Capacity
    <3>1. Len(buffer[d]) \in Nat /\ Len(buffer[d]) <= Capacity
      BY <1>0
    <3>2. Len(buffer'[d]) \in {Len(buffer[d]), Len(buffer[d]) - 1}
      BY <2>2, <2>3
    <3> QED
      BY <3>1, <3>2
  <2> QED
    BY <2>1, <2>4
<1>5. ASSUME NEW c \in Conns, Disconnect(c)
      PROVE  SubscribersTyped'
  BY <1>5 DEF Disconnect
<1>6. CASE UNCHANGED hubVars
  BY <1>6 DEF hubVars
<1> QED
  BY <1>1, <1>2, <1>3, <1>4, <1>5, <1>6 DEF HubNext, Publish

\* The hub's variables keep their types: no channel holds more than its buffer.
THEOREM HubTypeCorrect == HubSpec => []HubTypeOK
<1>1. HubInit => SubscribersTyped
  BY HubAssumption DEF HubInit, SubscribersTyped
<1>2. HubInv /\ SubscribersTyped /\ [HubNext]_hubVars => SubscribersTyped'
  BY SubscribersStep DEF HubInv
<1>3. HubInv /\ SubscribersTyped => HubTypeOK
  BY DEF HubInv, HubTyped, SubscribersTyped, HubTypeOK
<1> QED
  BY <1>1, <1>2, <1>3, HubInvInit, HubInvStep, PTL DEF HubSpec

----------------------------------------------------------------------------
(* The books *)

\* What a call of ApplyFill asked stays known, and its order row is there when
\* it is done.
AskedInv ==
  /\ IsFiniteSet(orders)
  /\ orders = {f \in Fills : filling[f].at = "done"}
  /\ \A f \in Fills :
       filling[f].at \in {"begin", "second", "save", "done"} => Asked(f) \in Requests

AccountRead(f) ==
  filling[f].at = "save" \/ (filling[f].at = "second" /\ Asked(f).side = "buy")
PositionRead(f) ==
  filling[f].at = "save" \/ (filling[f].at = "second" /\ Asked(f).side = "sell")

\* Who has read the account holds its lock, and what it read is still so.
CashKnown(f) ==
  AccountRead(f) =>
    /\ accountLock = f
    /\ filling[f].cash = books
    /\ Asked(f).side = "buy" => Notional(Asked(f)) <= books

\* A symbol has no row or one that is not empty.
OneRow == {<<>>} \cup {<<n>> : n \in Nat \ {0}}
Held(s) == IF rows[s] = <<>> THEN 0 ELSE Head(rows[s])

\* Who has read a position holds its lock if there is a row to lock, and what
\* it read is still so.
PositionKnown(f) ==
  LET r == Asked(f) IN
    /\ PositionRead(f) =>
         /\ filling[f].qty = Held(r.symbol)
         /\ rows[r.symbol] # <<>> => rowLock[r.symbol] = f
         /\ r.side = "sell" => rows[r.symbol] # <<>> /\ r.qty <= filling[f].qty
    /\ filling[f].at \in {"none", "begin", "second"} /\ ~PositionRead(f) => filling[f].qty = 0

\* At constant prices a fill turns cash into shares or back.
Fortune == InitialCash + SumFunction([s \in Symbols |-> Price[s] * Opening[s]])
FortuneInv == books + Worth(Symbols) = Fortune

\* The cash a NAV has read is the books' until a fill commits.
UpsertInv ==
  \A u \in Upserts :
    /\ upserting[u].at \in {"begin", "cash", "positions"} => upserting[u].snap = NoSnapshot
    /\ upserting[u].at \in {"cash", "positions"} => upserting[u].source = "books"
    /\ upserting[u].at = "positions" /\ upserting[u].steady => upserting[u].cash = books

LedgerInv ==
  /\ LedgerTypeOK
  /\ rows \in [Symbols -> OneRow]
  /\ AskedInv
  /\ \A f \in Fills : CashKnown(f) /\ PositionKnown(f)
  /\ BooksMatchOrders
  /\ FortuneInv
  /\ UpsertInv
  /\ NavIsWhole

LEMMA OneRowSums ==
  ASSUME NEW q \in OneRow
  PROVE  /\ SumFunction(q) = IF q = <<>> THEN 0 ELSE Head(q)
         /\ q = <<>> \/ Head(q) \in Nat \ {0}
         /\ Len(q) <= 1 /\ q \in Seq(Nat)
<1>1. CASE q = <<>>
  <2>1. DOMAIN q = {}
    BY <1>1
  <2> QED
    BY <1>1, <2>1, SumEmpty DEF SumFunction
<1>2. CASE q # <<>>
  <2>1. PICK n \in Nat \ {0} : q = <<n>>
    BY <1>2 DEF OneRow
  <2>2. DOMAIN q = {1} /\ q[1] = n /\ Head(q) = n /\ Len(q) = 1 /\ q \in Seq(Nat)
    BY <2>1
  <2>3. SumFunctionOnSet(q, {1}) = q[1]
    BY <2>2, SumSingle
  <2> QED
    BY <1>2, <2>2, <2>3 DEF SumFunction
<1> QED
  BY <1>1, <1>2

LEMMA QuantityIsHeld ==
  ASSUME rows \in [Symbols -> OneRow], NEW s \in Symbols
  PROVE  Quantity(s) = Held(s) /\ Held(s) \in Nat /\ (rows[s] # <<>> => Held(s) # 0)
<1>1. rows[s] \in OneRow
  OBVIOUS
<1> QED
  BY <1>1, OneRowSums DEF Quantity, Held

\* A step that moves one unfinished call and writes nothing.
Quiet ==
  /\ UNCHANGED <<books, rows, orders, snapshot, upserting>>
  /\ \A g \in orders : filling'[g] = filling[g]

LEMMA BooksKept ==
  ASSUME LedgerInv, Quiet
  PROVE  /\ rows' \in [Symbols -> OneRow]
         /\ BooksMatchOrders' /\ FortuneInv' /\ UpsertInv' /\ NavIsWhole'
<1> USE DEF Quiet
<1>1. rows' \in [Symbols -> OneRow]
  BY DEF LedgerInv
<1>2. FortuneInv'
  BY DEF LedgerInv, FortuneInv, Worth, Quantity, Fortune
<1>3. UpsertInv' /\ NavIsWhole'
  BY DEF LedgerInv, UpsertInv, NavIsWhole
<1>4. \A g \in orders : Asked(g)' = Asked(g) /\ Signed(g)' = Signed(g)
  BY DEF Asked, Signed
<1>5. [f \in orders |-> Signed(f) * Price[Asked(f).symbol]]'
        = [f \in orders |-> Signed(f) * Price[Asked(f).symbol]]
  BY <1>4
<1>6. \A s \in Symbols :
        [f \in {g \in orders : Asked(g).symbol = s} |-> Signed(f)]'
          = [f \in {g \in orders : Asked(g).symbol = s} |-> Signed(f)]
  <2> SUFFICES ASSUME NEW s \in Symbols
               PROVE  [f \in {g \in orders : Asked(g).symbol = s} |-> Signed(f)]'
                        = [f \in {g \in orders : Asked(g).symbol = s} |-> Signed(f)]
    OBVIOUS
  <2>1. {g \in orders : Asked(g).symbol = s}' = {g \in orders : Asked(g).symbol = s}
    BY <1>4
  <2> QED
    BY <1>4, <2>1
<1>7. BooksMatchOrders'
  BY <1>5, <1>6 DEF LedgerInv, BooksMatchOrders, Quantity
<1> QED
  BY <1>1, <1>2, <1>3, <1>7

\* Types that the steps of a call need.
LEMMA FillFacts ==
  ASSUME LedgerInv, NEW f \in Fills
  PROVE  /\ filling[f].at = "done" <=> f \in orders
         /\ DOMAIN filling = Fills
         /\ filling[f] \in [at : {"none", "begin", "second", "save", "done", "failed"},
                            request : Requests \cup {NoRequest}, cash : Int, qty : Nat]
         /\ filling[f].at \in {"begin", "second", "save", "done"} =>
              /\ Asked(f) \in Requests
              /\ Asked(f).side \in {"buy", "sell"} /\ Asked(f).symbol \in Symbols
              /\ Asked(f).qty \in Nat \ {0} /\ Price[Asked(f).symbol] \in Nat \ {0}
<1>1. filling \in [Fills -> [at : {"none", "begin", "second", "save", "done", "failed"},
                             request : Requests \cup {NoRequest}, cash : Int, qty : Nat]]
  BY DEF LedgerInv, LedgerTypeOK
<1>2. orders = {g \in Fills : filling[g].at = "done"}
  BY DEF LedgerInv, AskedInv
<1>3. filling[f].at \in {"begin", "second", "save", "done"} => Asked(f) \in Requests
  BY DEF LedgerInv, AskedInv
<1>4. \A r \in Requests : /\ r.side \in {"buy", "sell"} /\ r.symbol \in Symbols
                          /\ r.qty \in Nat \ {0} /\ Price[r.symbol] \in Nat \ {0}
  BY LedgerAssumption
<1> QED
  BY <1>1, <1>2, <1>3, <1>4

\* A step of one call f that leaves what the others rely on alone.
LEMMA OthersKeep ==
  ASSUME LedgerInv, NEW f \in Fills, UNCHANGED <<books, rows>>,
         \A g \in Fills \ {f} : /\ filling'[g] = filling[g]
                                /\ accountLock = g => accountLock' = g
                                /\ \A s \in Symbols : rowLock[s] = g => rowLock'[s] = g
  PROVE  \A g \in Fills \ {f} : CashKnown(g)' /\ PositionKnown(g)'
<1> SUFFICES ASSUME NEW g \in Fills \ {f}
             PROVE  CashKnown(g)' /\ PositionKnown(g)'
  OBVIOUS
<1>1. filling'[g] = filling[g] /\ Asked(g)' = Asked(g)
  BY DEF Asked
<1>2. AccountRead(g)' = AccountRead(g) /\ PositionRead(g)' = PositionRead(g)
  BY <1>1 DEF AccountRead, PositionRead
<1>3. PositionRead(g) => Asked(g).symbol \in Symbols
  BY FillFacts DEF PositionRead
<1>4. CashKnown(g) /\ PositionKnown(g)
  BY DEF LedgerInv
<1>5. CashKnown(g)'
  BY <1>1, <1>2, <1>4 DEF CashKnown, Notional
<1>6. Held(Asked(g).symbol)' = Held(Asked(g).symbol)
  BY <1>1 DEF Held
<1>7. PositionKnown(g)'
  BY <1>1, <1>2, <1>3, <1>4, <1>6 DEF PositionKnown
<1> QED
  BY <1>5, <1>7

LEMMA RollBackKeeps ==
  ASSUME LedgerInv, NEW f \in Fills, filling[f].at # "done", RollBack(f)
  PROVE  LedgerInv'
<1> DEFINE gone == [at |-> "failed", request |-> NoRequest, cash |-> 0, qty |-> 0]
<1>1. /\ filling' = [filling EXCEPT ![f] = gone] /\ Unlock(f)
      /\ UNCHANGED <<books, rows, orders, snapshot, upserting>>
  BY DEF RollBack
<1>2. DOMAIN filling = Fills /\ f \notin orders /\ orders \subseteq Fills
  BY FillFacts DEF LedgerInv, LedgerTypeOK
<1>3. Quiet
  BY <1>1, <1>2 DEF Quiet
<1>4. LedgerTypeOK'
  BY <1>1 DEF LedgerInv, LedgerTypeOK, Unlock, Snapshots
<1>5. AskedInv'
  BY <1>1, <1>2 DEF LedgerInv, AskedInv, Asked
<1>6. \A g \in Fills \ {f} : /\ filling'[g] = filling[g]
                             /\ accountLock = g => accountLock' = g
                             /\ \A s \in Symbols : rowLock[s] = g => rowLock'[s] = g
  BY <1>1, <1>2 DEF Unlock
<1>7. DOMAIN filling' = Fills /\ filling'[f] = gone
  BY <1>1, <1>2
<1>8. ~AccountRead(f)' /\ ~PositionRead(f)' /\ filling'[f].at \notin {"none", "begin", "second"}
  BY <1>7 DEF AccountRead, PositionRead
<1>9. \A g \in Fills : CashKnown(g)' /\ PositionKnown(g)'
  <2>1. CashKnown(f)' /\ PositionKnown(f)'
    BY <1>8 DEF CashKnown, PositionKnown
  <2>2. \A g \in Fills \ {f} : CashKnown(g)' /\ PositionKnown(g)'
    BY <1>1, <1>6, OthersKeep
  <2> QED
    BY <2>1, <2>2
<1> QED
  BY <1>3, <1>4, <1>5, <1>9, BooksKept DEF LedgerInv

FillRecords ==
  [at : {"none", "begin", "second", "save", "done", "failed"},
   request : Requests \cup {NoRequest}, cash : Int, qty : Nat]

\* A call moves, keeps or takes locks, and the types stand.
LEMMA TypesKept ==
  ASSUME LedgerInv, Quiet, NEW f \in Fills, filling' \in [Fills -> FillRecords],
         accountLock' \in {accountLock, f},
         rowLock' = rowLock \/ \E s \in Symbols : rowLock' = [rowLock EXCEPT ![s] = f]
  PROVE  LedgerTypeOK'
<1>2. accountLock' \in Fills \cup {Free} /\ rowLock' \in [Symbols -> Fills \cup {Free}]
  BY DEF LedgerInv, LedgerTypeOK
<1>3. UNCHANGED <<books, rows, orders, snapshot, upserting>>
  BY DEF Quiet
<1> QED
  BY <1>2, <1>3 DEF LedgerInv, LedgerTypeOK, FillRecords, Snapshots

LEMMA FillMoves ==
  ASSUME LedgerInv
  PROVE  filling \in [Fills -> FillRecords]
BY DEF LedgerInv, LedgerTypeOK, FillRecords

LEMMA PositionMoves ==
  ASSUME LedgerInv, NEW f \in Fills, NEW a \in {"second", "save"}, NEW q \in Nat,
         filling' = [filling EXCEPT ![f].at = a, ![f].qty = q]
  PROVE  filling' \in [Fills -> FillRecords]
<1> DEFINE moved == [filling[f] EXCEPT !.at = a, !.qty = q]
<1>1. filling \in [Fills -> FillRecords]
  BY FillMoves
<1>2. moved \in FillRecords
  BY <1>1 DEF FillRecords
<1>3. filling' = [filling EXCEPT ![f] = moved]
  OBVIOUS
<1> HIDE DEF moved
<1> QED
  BY <1>1, <1>2, <1>3

LEMMA CashMoves ==
  ASSUME LedgerInv, NEW f \in Fills, NEW a \in {"second", "save"}, NEW c \in Int,
         filling' = [filling EXCEPT ![f].at = a, ![f].cash = c]
  PROVE  filling' \in [Fills -> FillRecords]
<1> DEFINE moved == [filling[f] EXCEPT !.at = a, !.cash = c]
<1>1. filling \in [Fills -> FillRecords]
  BY FillMoves
<1>2. moved \in FillRecords
  BY <1>1 DEF FillRecords
<1>3. filling' = [filling EXCEPT ![f] = moved]
  OBVIOUS
<1> HIDE DEF moved
<1> QED
  BY <1>1, <1>2, <1>3

LEMMA RequestMoves ==
  ASSUME LedgerInv, NEW f \in Fills, NEW r \in Requests,
         filling' = [filling EXCEPT ![f].at = "begin", ![f].request = r]
  PROVE  filling' \in [Fills -> FillRecords]
<1> DEFINE moved == [filling[f] EXCEPT !.at = "begin", !.request = r]
<1>1. filling \in [Fills -> FillRecords]
  BY FillMoves
<1>2. moved \in FillRecords
  BY <1>1 DEF FillRecords
<1>3. filling' = [filling EXCEPT ![f] = moved]
  OBVIOUS
<1> HIDE DEF moved
<1> QED
  BY <1>1, <1>2, <1>3

LEMMA BeginFillKeeps ==
  ASSUME LedgerInv, NEW f \in Fills, BeginFill(f)
  PROVE  LedgerInv'
<1>1. PICK r \in Requests :
        filling' = [filling EXCEPT ![f].at = "begin", ![f].request = r]
  BY DEF BeginFill
<1>2. /\ UNCHANGED <<books, rows, orders, accountLock, rowLock, snapshot, upserting>>
      /\ filling[f].at = "none" /\ DOMAIN filling = Fills /\ f \notin orders
      /\ orders \subseteq Fills
  BY FillFacts DEF BeginFill, LedgerInv, LedgerTypeOK
<1>3. Quiet
  BY <1>1, <1>2 DEF Quiet
<1>4. LedgerTypeOK'
  <2>1. filling' \in [Fills -> FillRecords]
    BY <1>1, <1>2, RequestMoves
  <2> QED
    BY <1>2, <1>3, <2>1, TypesKept
<1>5. filling'[f].at = "begin" /\ Asked(f)' = r /\ filling'[f].qty = filling[f].qty
  BY <1>1, <1>2, FillFacts DEF Asked
<1>6. AskedInv'
  BY <1>1, <1>2, <1>5 DEF LedgerInv, AskedInv, Asked
<1>7. CashKnown(f)' /\ PositionKnown(f)'
  <2>1. filling[f].qty = 0
    BY <1>2 DEF LedgerInv, PositionKnown, PositionRead
  <2> QED
    BY <1>5, <2>1 DEF CashKnown, PositionKnown, AccountRead, PositionRead
<1>8. \A g \in Fills \ {f} : CashKnown(g)' /\ PositionKnown(g)'
  BY <1>1, <1>2, OthersKeep
<1> QED
  BY <1>3, <1>4, <1>6, <1>7, <1>8, BooksKept DEF LedgerInv

\* The call that takes a lock and goes on.
LEMMA BuyTakesAccountKeeps ==
  ASSUME LedgerInv, NEW f \in Fills, BuyTakesAccount(f)
  PROVE  LedgerInv'
<1>1. filling[f].at = "begin" /\ Asked(f).side = "buy" /\ accountLock = Free
  BY DEF BuyTakesAccount
<1>2. CASE books < Notional(Asked(f))
  BY <1>1, <1>2, RollBackKeeps DEF BuyTakesAccount
<1>3. CASE ~(books < Notional(Asked(f)))
  <2>1. /\ filling' = [filling EXCEPT ![f].at = "second", ![f].cash = books]
        /\ accountLock' = f
        /\ UNCHANGED <<books, rows, orders, rowLock, snapshot, upserting>>
    BY <1>3 DEF BuyTakesAccount
  <2>2. /\ DOMAIN filling = Fills /\ f \notin orders /\ orders \subseteq Fills
        /\ Free \notin Fills /\ books \in Int
    BY <1>1, FillFacts, LedgerAssumption DEF LedgerInv, LedgerTypeOK
  <2>3. Quiet
    BY <2>1, <2>2 DEF Quiet
  <2>4. LedgerTypeOK'
    <3>1. filling' \in [Fills -> FillRecords]
      BY <2>1, <2>2, CashMoves
    <3> QED
      BY <2>1, <2>3, <3>1, TypesKept
  <2>5. /\ filling'[f].at = "second" /\ Asked(f)' = Asked(f)
        /\ filling'[f].cash = books /\ filling'[f].qty = filling[f].qty
    BY <2>1, <2>2, FillFacts DEF Asked
  <2>6. AskedInv'
    BY <1>1, <2>1, <2>2, <2>5 DEF LedgerInv, AskedInv, Asked
  <2>7. filling[f].qty = 0
    BY <1>1 DEF LedgerInv, PositionKnown, PositionRead
  <2>8. Notional(Asked(f)) \in Int
    BY <1>1, FillFacts DEF Notional
  <2>9. CashKnown(f)' /\ PositionKnown(f)'
    BY <1>1, <1>3, <2>1, <2>2, <2>5, <2>7, <2>8
       DEF CashKnown, PositionKnown, AccountRead, PositionRead, Notional
  <2>10. \A g \in Fills \ {f} : CashKnown(g)' /\ PositionKnown(g)'
    BY <1>1, <2>1, <2>2, OthersKeep
  <2> QED
    BY <2>3, <2>4, <2>6, <2>9, <2>10, BooksKept DEF LedgerInv
<1> QED
  BY <1>2, <1>3

LEMMA BuyTakesPositionKeeps ==
  ASSUME LedgerInv, NEW f \in Fills, BuyTakesPosition(f)
  PROVE  LedgerInv'
<1> DEFINE s == Asked(f).symbol
<1>1. /\ filling[f].at = "second" /\ Asked(f).side = "buy"
      /\ UNCHANGED <<books, rows, orders, accountLock, snapshot, upserting>>
  BY DEF BuyTakesPosition
<1>2. /\ DOMAIN filling = Fills /\ f \notin orders /\ orders \subseteq Fills
      /\ Free \notin Fills /\ s \in Symbols /\ DOMAIN rowLock = Symbols
      /\ accountLock = f /\ filling[f].cash = books /\ Notional(Asked(f)) <= books
      /\ filling[f].qty = 0 /\ rows \in [Symbols -> OneRow]
  BY <1>1, FillFacts, LedgerAssumption
     DEF LedgerInv, LedgerTypeOK, CashKnown, PositionKnown, AccountRead, PositionRead
<1>3. ASSUME NEW q, q \in Nat, q = Held(s),
             filling' = [filling EXCEPT ![f].at = "save", ![f].qty = q],
             rows[s] # <<>> => rowLock'[s] = f,
             rowLock' = rowLock \/ (rowLock[s] = Free /\ rowLock' = [rowLock EXCEPT ![s] = f])
      PROVE  LedgerInv'
  <2>1. Quiet
    BY <1>1, <1>2, <1>3 DEF Quiet
  <2>2. LedgerTypeOK'
    <3>1. filling' \in [Fills -> FillRecords]
      BY <1>2, <1>3, PositionMoves
    <3> QED
      BY <1>1, <1>2, <1>3, <2>1, <3>1, TypesKept
  <2>3. /\ filling'[f].at = "save" /\ Asked(f)' = Asked(f)
        /\ filling'[f].cash = filling[f].cash /\ filling'[f].qty = q
    BY <1>2, <1>3, FillFacts DEF Asked
  <2>4. AskedInv'
    BY <1>1, <1>2, <1>3, <2>3 DEF LedgerInv, AskedInv, Asked
  <2>5. CashKnown(f)'
    BY <1>1, <1>2, <2>3 DEF CashKnown, Notional
  <2>6. PositionKnown(f)'
    <3>1. Held(Asked(f).symbol)' = q
      BY <1>1, <1>3, <2>3 DEF Held
    <3> QED
      BY <1>1, <1>3, <2>3, <3>1 DEF PositionKnown, PositionRead
  <2>7. \A g \in Fills \ {f} : CashKnown(g)' /\ PositionKnown(g)'
    BY <1>1, <1>2, <1>3, OthersKeep
  <2> QED
    BY <2>1, <2>2, <2>4, <2>5, <2>6, <2>7, BooksKept DEF LedgerInv
<1>4. CASE rows[s] = <<>>
  <2>1. filling' = [filling EXCEPT ![f].at = "save"] /\ rowLock' = rowLock
    BY <1>4 DEF BuyTakesPosition
  <2>2. filling' = [filling EXCEPT ![f].at = "save", ![f].qty = 0]
    BY <1>2, <2>1, FillMoves DEF FillRecords
  <2>3. Held(s) = 0 /\ 0 \in Nat
    BY <1>4 DEF Held
  <2> HIDE DEF s
  <2> QED
    BY <1>3, <1>4, <2>1, <2>2, <2>3
<1>5. CASE rows[s] # <<>>
  <2>1. /\ rowLock[s] = Free
        /\ filling' = [filling EXCEPT ![f].at = "save", ![f].qty = Head(rows[s])]
        /\ rowLock' = [rowLock EXCEPT ![s] = f]
    BY <1>5 DEF BuyTakesPosition
  <2>2. Held(s) = Head(rows[s]) /\ Held(s) \in Nat
    BY <1>2, <1>5, QuantityIsHeld DEF Held
  <2>3. rowLock'[s] = f
    BY <1>2, <2>1
  <2> QED
    BY <1>3, <2>1, <2>2, <2>3
<1> QED
  BY <1>4, <1>5

LEMMA SellTakesPositionKeeps ==
  ASSUME LedgerInv, NEW f \in Fills, SellTakesPosition(f)
  PROVE  LedgerInv'
<1> DEFINE s == Asked(f).symbol  q == Head(rows[s])
<1>1. filling[f].at = "begin" /\ Asked(f).side = "sell"
  BY DEF SellTakesPosition
<1>2. CASE RollBack(f)
  BY <1>1, <1>2, RollBackKeeps
<1>3. CASE ~RollBack(f)
  <2>1. /\ rows[s] # <<>> /\ rowLock[s] = Free /\ ~(q < Asked(f).qty)
        /\ filling' = [filling EXCEPT ![f].at = "second", ![f].qty = q]
        /\ rowLock' = [rowLock EXCEPT ![s] = f]
        /\ UNCHANGED <<books, rows, orders, accountLock, snapshot, upserting>>
    BY <1>3 DEF SellTakesPosition
  <2>2. /\ DOMAIN filling = Fills /\ f \notin orders /\ orders \subseteq Fills
        /\ Free \notin Fills /\ s \in Symbols /\ DOMAIN rowLock = Symbols
        /\ rows \in [Symbols -> OneRow] /\ Asked(f).qty \in Nat
    BY <1>1, FillFacts, LedgerAssumption DEF LedgerInv, LedgerTypeOK
  <2>3. q = Held(s) /\ q \in Nat
    BY <2>1, <2>2, QuantityIsHeld DEF Held
  <2>4. Quiet
    BY <2>1, <2>2 DEF Quiet
  <2> HIDE DEF q
  <2>5. LedgerTypeOK'
    <3>1. filling' \in [Fills -> FillRecords]
      BY <2>1, <2>2, <2>3, PositionMoves
    <3> QED
      BY <2>1, <2>2, <2>4, <3>1, TypesKept
  <2>6. filling'[f].at = "second" /\ Asked(f)' = Asked(f) /\ filling'[f].qty = q
    BY <2>1, <2>2, FillFacts DEF Asked
  <2>7. AskedInv'
    BY <1>1, <2>1, <2>2, <2>6 DEF LedgerInv, AskedInv, Asked
  <2>8. CashKnown(f)'
    BY <1>1, <2>6 DEF CashKnown, AccountRead
  <2>9. PositionKnown(f)'
    <3>1. Held(Asked(f).symbol)' = q
      BY <2>1, <2>3, <2>6 DEF Held
    <3>2. rowLock'[s] = f /\ rows' = rows
      BY <2>1, <2>2
    <3> QED
      BY <1>1, <2>1, <2>2, <2>3, <2>6, <3>1, <3>2 DEF PositionKnown, PositionRead
  <2>10. \A g \in Fills \ {f} : CashKnown(g)' /\ PositionKnown(g)'
    BY <2>1, <2>2, OthersKeep
  <2> QED
    BY <2>4, <2>5, <2>7, <2>8, <2>9, <2>10, BooksKept DEF LedgerInv
<1> QED
  BY <1>2, <1>3

LEMMA SellTakesAccountKeeps ==
  ASSUME LedgerInv, NEW f \in Fills, SellTakesAccount(f)
  PROVE  LedgerInv'
<1>1. /\ filling[f].at = "second" /\ Asked(f).side = "sell" /\ accountLock = Free
      /\ filling' = [filling EXCEPT ![f].at = "save", ![f].cash = books]
      /\ accountLock' = f
      /\ UNCHANGED <<books, rows, orders, rowLock, snapshot, upserting>>
  BY DEF SellTakesAccount
<1>2. /\ DOMAIN filling = Fills /\ f \notin orders /\ orders \subseteq Fills
      /\ Free \notin Fills
  BY <1>1, FillFacts, LedgerAssumption DEF LedgerInv, LedgerTypeOK
<1>3. Quiet
  BY <1>1, <1>2 DEF Quiet
<1>4. LedgerTypeOK'
  <2>1. books \in Int
    BY DEF LedgerInv, LedgerTypeOK
  <2>2. filling' \in [Fills -> FillRecords]
    BY <1>1, <2>1, CashMoves
  <2> QED
    BY <1>1, <1>3, <2>2, TypesKept
<1>5. /\ filling'[f].at = "save" /\ Asked(f)' = Asked(f)
      /\ filling'[f].cash = books /\ filling'[f].qty = filling[f].qty
  BY <1>1, <1>2, FillFacts DEF Asked
<1>6. AskedInv'
  BY <1>1, <1>2, <1>5 DEF LedgerInv, AskedInv, Asked
<1>7. CashKnown(f)'
  BY <1>1, <1>5 DEF CashKnown
<1>8. PositionKnown(f)'
  <2>1. PositionKnown(f) /\ PositionRead(f)
    BY <1>1 DEF LedgerInv, PositionRead
  <2>2. Held(Asked(f).symbol)' = Held(Asked(f).symbol)
    BY <1>1, <1>5 DEF Held
  <2> QED
    BY <1>1, <1>5, <2>1, <2>2 DEF PositionKnown, PositionRead
<1>9. \A g \in Fills \ {f} : CashKnown(g)' /\ PositionKnown(g)'
  BY <1>1, <1>2, OthersKeep
<1> QED
  BY <1>3, <1>4, <1>6, <1>7, <1>8, <1>9, BooksKept DEF LedgerInv

\* What a commit makes of the position: what is held and what was asked.
LEMMA CommitRows ==
  ASSUME LedgerInv, NEW f \in Fills, Commit(f)
  PROVE  /\ Asked(f).symbol \in Symbols /\ Signed(f) \in Int
         /\ rows' \in [Symbols -> OneRow]
         /\ \A s \in Symbols :
              Held(s)' = IF s = Asked(f).symbol THEN Held(s) + Signed(f) ELSE Held(s)
<1> DEFINE s0 == Asked(f).symbol  qty == Asked(f).qty  q == filling[f].qty
           left == IF Asked(f).side = "buy" THEN q + qty ELSE q - qty
<1>1. /\ filling[f].at = "save" /\ rows' = [rows EXCEPT ![s0] = RowsAfter(f)]
      /\ rows \in [Symbols -> OneRow]
  BY DEF Commit, LedgerInv
<1>2. /\ s0 \in Symbols /\ qty \in Nat \ {0} /\ Asked(f).side \in {"buy", "sell"}
      /\ q = Held(s0) /\ (Asked(f).side = "sell" => qty <= q) /\ rows[s0] \in OneRow
  BY <1>1, FillFacts DEF LedgerInv, PositionKnown, PositionRead
<1>3. q \in Nat /\ (rows[s0] # <<>> => q # 0) /\ Signed(f) \in Int /\ left = q + Signed(f)
  BY <1>1, <1>2, QuantityIsHeld DEF Signed
<1>4. left \in Nat
  BY <1>2, <1>3 DEF Signed
<1>5. RowsAfter(f) = IF q = 0 THEN Append(rows[s0], left)
                     ELSE IF left = 0 THEN Tail(rows[s0]) ELSE <<left>> \o Tail(rows[s0])
  BY DEF RowsAfter
<1> HIDE DEF left
<1>6. RowsAfter(f) = IF left = 0 THEN <<>> ELSE <<left>>
  <2>1. CASE q = 0
    <3>1. rows[s0] = <<>> /\ left # 0
      BY <1>2, <1>3, <2>1 DEF Signed
    <3> QED
      BY <1>4, <1>5, <2>1, <3>1
  <2>2. CASE q # 0
    <3>1. rows[s0] # <<>>
      BY <1>2, <2>2 DEF Held
    <3>2. PICK n \in Nat \ {0} : rows[s0] = <<n>>
      BY <1>2, <3>1 DEF OneRow
    <3>3. Tail(rows[s0]) = <<>> /\ <<left>> \o <<>> = <<left>>
      BY <3>2, <1>4
    <3> QED
      BY <1>5, <2>2, <3>3
  <2> QED
    BY <2>1, <2>2
<1>7. RowsAfter(f) \in OneRow
  BY <1>4, <1>6 DEF OneRow
<1>8. rows' \in [Symbols -> OneRow] /\ rows'[s0] = RowsAfter(f)
      /\ \A s \in Symbols \ {s0} : rows'[s] = rows[s]
  BY <1>1, <1>2, <1>7
<1>9. \A s \in Symbols : Held(s)' = IF s = s0 THEN left ELSE Held(s)
  <2>1. \A s : Held(s)' = IF rows'[s] = <<>> THEN 0 ELSE Head(rows'[s])
    BY DEF Held
  <2>2. <<left>> # <<>> /\ Head(<<left>>) = left
    BY <1>4
  <2> QED
    BY <1>6, <1>8, <2>1, <2>2 DEF Held
<1> QED
  BY <1>2, <1>3, <1>8, <1>9

\* What it makes of the cash.
LEMMA CommitCash ==
  ASSUME LedgerInv, NEW f \in Fills, Commit(f)
  PROVE  /\ books \in Int /\ Signed(f) * Price[Asked(f).symbol] \in Int
         /\ books' = books - Signed(f) * Price[Asked(f).symbol]
         /\ books' >= 0
<1> DEFINE n == Asked(f).qty  p == Price[Asked(f).symbol]
<1>1. /\ filling[f].at = "save"
      /\ books' = IF Asked(f).side = "buy" THEN filling[f].cash - n * p
                  ELSE filling[f].cash + n * p
  BY DEF Commit, Notional
<1>2. /\ filling[f].cash = books
      /\ Asked(f).side = "buy" => n * p <= books
  BY <1>1 DEF LedgerInv, CashKnown, AccountRead, Notional
<1>3. n \in Nat /\ p \in Nat /\ Asked(f).side \in {"buy", "sell"}
  BY <1>1, FillFacts
<1>4. books \in Int /\ books >= 0
  BY DEF LedgerInv, LedgerTypeOK, BooksMatchOrders
<1>5. Signed(f) = IF Asked(f).side = "buy" THEN n ELSE -n
  BY DEF Signed
<1> HIDE DEF n, p
<1>6. n * p \in Nat /\ (-n) * p = -(n * p)
  BY <1>3
<1> DEFINE np == n * p
<1>7. np \in Nat /\ (-n) * p = -np
  BY <1>6
<1>8. /\ books' = IF Asked(f).side = "buy" THEN books - np ELSE books + np
      /\ Asked(f).side = "buy" => np <= books
  BY <1>1, <1>2
<1>9. Signed(f) * p = IF Asked(f).side = "buy" THEN np ELSE -np
  BY <1>5, <1>7
<1> HIDE DEF np
<1>10. /\ Signed(f) * p \in Int /\ books' = books - Signed(f) * p /\ books' >= 0
  BY <1>3, <1>4, <1>7, <1>8, <1>9
<1> QED
  BY <1>4, <1>10 DEF p

\* The order of f counts from now on, the others as before.
LEMMA CommitOrders ==
  ASSUME LedgerInv, NEW f \in Fills, Commit(f)
  PROVE  BooksMatchOrders'
<1>1. /\ f \in Fills /\ filling[f].at = "save" /\ orders' = orders \cup {f}
      /\ \A g \in Fills : Asked(g)' = Asked(g)
      /\ \A g \in Fills : Signed(g)' = Signed(g)
  <2>1. filling[f].at = "save" /\ orders' = orders \cup {f}
    BY DEF Commit
  <2>2. \A g \in Fills : Asked(g)' = Asked(g)
    BY FillFacts DEF Commit, Asked
  <2> QED
    BY <2>1, <2>2 DEF Signed
<1>2. f \notin orders /\ orders \subseteq Fills /\ IsFiniteSet(orders)
  BY <1>1, FillFacts DEF LedgerInv, LedgerTypeOK, AskedInv
<1>3. \A g \in orders \cup {f} :
        /\ Asked(g).symbol \in Symbols /\ Signed(g) \in Int
        /\ Signed(g) * Price[Asked(g).symbol] \in Int
  <2> SUFFICES ASSUME NEW g \in orders \cup {f}
               PROVE  /\ Asked(g).symbol \in Symbols /\ Signed(g) \in Int
                      /\ Signed(g) * Price[Asked(g).symbol] \in Int
    OBVIOUS
  <2>1. g \in Fills /\ filling[g].at \in {"save", "done"}
    BY <1>1, <1>2, FillFacts
  <2>2. /\ Asked(g).symbol \in Symbols /\ Asked(g).qty \in Nat
        /\ Price[Asked(g).symbol] \in Nat
    BY <2>1, FillFacts
  <2>3. Signed(g) \in Int
    BY <2>2 DEF Signed
  <2> QED
    BY <2>2, <2>3
<1> DEFINE cost(g) == Signed(g) * Price[Asked(g).symbol]
           h == [g \in orders |-> cost(g)]
           k == [g \in orders \cup {f} |-> cost(g)]
<1>4. SumFunction(k) = SumFunction(h) + cost(f) /\ SumFunction(h) \in Int /\ cost(f) \in Int
  <2>1. /\ DOMAIN h = orders /\ DOMAIN k = orders \cup {f}
        /\ \A g \in orders : h[g] \in Int /\ k[g] = h[g]
        /\ k[f] = cost(f) /\ cost(f) \in Int
    BY <1>3
  <2> HIDE DEF h, k, cost
  <2>2. SumFunction(k) = SumFunction(h) + k[f]
    BY <1>2, <2>1, TotalGrows
  <2>3. SumFunction(h) \in Int
    BY <1>2, <2>1, TotalInt
  <2> QED
    BY <2>1, <2>2, <2>3
<1>5. [g \in orders |-> Signed(g) * Price[Asked(g).symbol]]' = k
  BY <1>1, <1>2
<1>6. books' = InitialCash - SumFunction([g \in orders |-> Signed(g) * Price[Asked(g).symbol]])'
  <2>1. books = InitialCash - SumFunction(h) /\ InitialCash \in Int
    BY LedgerAssumption DEF LedgerInv, BooksMatchOrders
  <2>2. books' = books - cost(f)
    BY CommitCash
  <2>3. SumFunction([g \in orders |-> Signed(g) * Price[Asked(g).symbol]])' = SumFunction(k)
    BY <1>5
  <2> HIDE DEF h, k, cost
  <2> QED
    BY <1>4, <2>1, <2>2, <2>3
<1>7. ASSUME NEW s \in Symbols
      PROVE  (Len(rows[s]) <= 1)' /\
             (Quantity(s) = Opening[s]
                + SumFunction([g \in {j \in orders : Asked(j).symbol = s} |-> Signed(g)]))'
  <2> DEFINE S == {j \in orders : Asked(j).symbol = s}
             a == [g \in S |-> Signed(g)]
             b == [g \in {j \in orders \cup {f} : Asked(j).symbol = s} |-> Signed(g)]
  <2>1. [g \in {j \in orders : Asked(j).symbol = s} |-> Signed(g)]' = b
    <3>1. {j \in orders : Asked(j).symbol = s}' = {j \in orders \cup {f} : Asked(j).symbol = s}
      BY <1>1, <1>2
    <3> QED
      BY <1>1, <1>2, <3>1
  <2>2. IsFiniteSet(S) /\ f \notin S /\ DOMAIN a = S /\ \A g \in S : a[g] \in Int
    <3>1. S \subseteq orders
      OBVIOUS
    <3> QED
      BY <1>2, <1>3, <3>1, FS_Subset
  <2>3. SumFunction(a) \in Int
    <3> HIDE DEF a, S
    <3> QED
      BY <2>2, TotalInt
  <2>4. SumFunction(b) = IF s = Asked(f).symbol THEN SumFunction(a) + Signed(f)
                         ELSE SumFunction(a)
    <3>1. CASE s = Asked(f).symbol
      <4>1. DOMAIN b = S \cup {f} /\ b[f] = Signed(f) /\ \A g \in S : b[g] = a[g]
        BY <3>1
      <4>2. Signed(f) \in Int
        BY <1>3
      <4>3. SumFunction(b) = SumFunction(a) + b[f]
        <5> HIDE DEF a, b, S
        <5> QED
          BY <2>2, <4>1, <4>2, TotalGrows
      <4> QED
        BY <3>1, <4>1, <4>3
    <3>2. CASE s # Asked(f).symbol
      <4>1. {j \in orders \cup {f} : Asked(j).symbol = s} = S
        BY <3>2
      <4> QED
        BY <3>2, <4>1
    <3> QED
      BY <3>1, <3>2
  <2>5. rows \in [Symbols -> OneRow] /\ rows' \in [Symbols -> OneRow] /\ Signed(f) \in Int
    BY CommitRows DEF LedgerInv
  <2>6. Quantity(s) = Opening[s] + SumFunction(a) /\ Opening[s] \in Int
    <3>1. Quantity(s) = Opening[s] + SumFunction(a)
      BY DEF LedgerInv, BooksMatchOrders
    <3>2. Opening[s] \in Int
      BY LedgerAssumption
    <3> QED
      BY <3>1, <3>2
  <2>7. Quantity(s) = Held(s) /\ Held(s) \in Nat
    BY <2>5, QuantityIsHeld
  <2>8. Quantity(s)' = Held(s)' /\ Len(rows'[s]) <= 1
    <3>1. rows'[s] \in OneRow
      BY <2>5
    <3>2. /\ SumFunction(rows'[s]) = IF rows'[s] = <<>> THEN 0 ELSE Head(rows'[s])
          /\ Len(rows'[s]) <= 1
      BY <3>1, OneRowSums
    <3>3. Quantity(s)' = SumFunction(rows'[s])
      BY DEF Quantity
    <3>4. Held(s)' = IF rows'[s] = <<>> THEN 0 ELSE Head(rows'[s])
      BY DEF Held
    <3> QED
      BY <3>2, <3>3, <3>4
  <2>9. Held(s)' = IF s = Asked(f).symbol THEN Held(s) + Signed(f) ELSE Held(s)
    BY CommitRows
  <2>10. SumFunction([g \in {j \in orders : Asked(j).symbol = s} |-> Signed(g)])' = SumFunction(b)
    BY <2>1
  <2> HIDE DEF a, b, S
  <2> QED
    BY <2>3, <2>4, <2>5, <2>6, <2>7, <2>8, <2>9, <2>10
<1> QED
  BY <1>6, <1>7, CommitCash DEF BooksMatchOrders

UpsertRecords ==
  [at : {"begin", "cash", "positions", "find", "create", "save", "done", "failed"},
   source : {"none", "broker", "books"}, cash : Int, steady : BOOLEAN,
   snap : Snapshots \cup {NoSnapshot}]

LEMMA UpsertsTyped ==
  ASSUME LedgerInv
  PROVE  upserting \in [Upserts -> UpsertRecords]
BY DEF LedgerInv, LedgerTypeOK, UpsertRecords

\* Shares are worth what they cost.
LEMMA CommitFortune ==
  ASSUME LedgerInv, NEW f \in Fills, Commit(f)
  PROVE  FortuneInv'
<1> PICK s0, d : s0 = Asked(f).symbol /\ d = Signed(f)
  OBVIOUS
<1> DEFINE p == Price[s0]
           h == [s \in Symbols |-> Price[s] * Quantity(s)]
           k == [s \in Symbols |-> Price[s] * Held(s)']
<1>1. /\ s0 \in Symbols /\ d \in Int /\ rows' \in [Symbols -> OneRow]
      /\ \A s \in Symbols : Held(s)' = IF s = s0 THEN Held(s) + d ELSE Held(s)
      /\ rows \in [Symbols -> OneRow]
  BY CommitRows DEF LedgerInv
<1>2. \A s \in Symbols : Quantity(s) = Held(s) /\ Held(s) \in Nat
  BY <1>1, QuantityIsHeld
<1>3. \A s \in Symbols : Quantity(s)' = Held(s)' /\ Held(s)' \in Nat
  <2> SUFFICES ASSUME NEW s \in Symbols
               PROVE  Quantity(s)' = Held(s)' /\ Held(s)' \in Nat
    OBVIOUS
  <2>1. rows'[s] \in OneRow
    BY <1>1
  <2>2. /\ SumFunction(rows'[s]) = IF rows'[s] = <<>> THEN 0 ELSE Head(rows'[s])
        /\ rows'[s] = <<>> \/ Head(rows'[s]) \in Nat
    BY <2>1, OneRowSums
  <2>3. Quantity(s)' = SumFunction(rows'[s])
    BY DEF Quantity
  <2>4. Held(s)' = IF rows'[s] = <<>> THEN 0 ELSE Head(rows'[s])
    BY DEF Held
  <2> QED
    BY <2>2, <2>3, <2>4
<1>4. Worth(Symbols) = SumFunction(h) /\ Worth(Symbols)' = SumFunction(k)
  <2>1. [s \in Symbols |-> Price[s] * Quantity(s)]' = k
    BY <1>3
  <2> QED
    BY <2>1 DEF Worth
<1>5. \A s \in Symbols : Price[s] \in Nat /\ Price[s] * Quantity(s) \in Int
                         /\ Price[s] * Held(s)' \in Int
  BY <1>2, <1>3, LedgerAssumption
<1>6. Price[s0] * Held(s0)' - Price[s0] * Quantity(s0) = d * p
  <2>1. p \in Int /\ Held(s0) \in Int /\ d \in Int
    BY <1>1, <1>2, <1>5
  <2>2. \A a, b, c \in Int : a * (b + c) - a * b = c * a
    OBVIOUS
  <2>3. Held(s0)' = Held(s0) + d /\ Quantity(s0) = Held(s0)
    BY <1>1, <1>2
  <2> HIDE DEF p
  <2>4. p * (Held(s0) + d) - p * Held(s0) = d * p
    BY <2>1, <2>2
  <2> QED
    BY <2>3, <2>4 DEF p
<1>7. SumFunction(k) = SumFunction(h) + d * p /\ SumFunction(h) \in Int /\ d * p \in Int
  <2>1. /\ DOMAIN h = Symbols /\ DOMAIN k = Symbols /\ IsFiniteSet(Symbols)
        /\ \A s \in Symbols : h[s] \in Int /\ k[s] \in Int
        /\ \A s \in Symbols : s # s0 => k[s] = h[s]
    BY <1>1, <1>2, <1>5, LedgerAssumption
  <2>2. k[s0] - h[s0] = d * p
    <3>1. k[s0] = Price[s0] * Held(s0)' /\ h[s0] = Price[s0] * Quantity(s0)
      BY <1>1
    <3> QED
      BY <1>6, <3>1
  <2>3. d * p \in Int
    BY <1>1, <1>5
  <2> HIDE DEF h, k, p
  <2>4. SumFunction(k) = SumFunction(h) + (k[s0] - h[s0])
    BY <1>1, <2>1, TotalChanges
  <2>5. SumFunction(h) \in Int
    BY <2>1, TotalInt
  <2> QED
    BY <2>2, <2>3, <2>4, <2>5
<1>8. books' = books - d * p /\ books \in Int
  BY CommitCash
<1>9. books + SumFunction(h) = Fortune
  BY <1>4 DEF LedgerInv, FortuneInv
<1>10. Fortune' = Fortune
  BY DEF Fortune
<1>11. books' + SumFunction(k) = books + SumFunction(h)
  <2> HIDE DEF h, k, p
  <2> DEFINE dp == d * p
  <2>1. dp \in Int /\ books' = books - dp /\ SumFunction(k) = SumFunction(h) + dp
        /\ SumFunction(h) \in Int /\ books \in Int
    BY <1>7, <1>8
  <2> HIDE DEF dp
  <2> QED
    BY <2>1
<1> QED
  BY <1>4, <1>9, <1>10, <1>11 DEF FortuneInv

LEMMA CommitKeeps ==
  ASSUME LedgerInv, NEW f \in Fills, Commit(f)
  PROVE  LedgerInv'
<1>1. /\ filling[f].at = "save" /\ orders' = orders \cup {f} /\ snapshot' = snapshot
      /\ filling' = [filling EXCEPT ![f].at = "done", ![f].cash = 0, ![f].qty = 0]
      /\ Unlock(f)
      /\ upserting' = [u \in Upserts |->
           IF upserting[u].at = "positions" THEN [upserting[u] EXCEPT !.steady = FALSE]
           ELSE upserting[u]]
  BY DEF Commit
<1>2. DOMAIN filling = Fills /\ f \notin orders /\ orders \subseteq Fills
  BY <1>1, FillFacts DEF LedgerInv, LedgerTypeOK
<1>3. rows' \in [Symbols -> OneRow]
  BY CommitRows
<1>4. LedgerTypeOK'
  <2>1. rows' \in [Symbols -> Seq(Nat)]
    <3>1. \A q \in OneRow : q \in Seq(Nat)
      BY OneRowSums
    <3> QED
      BY <1>3, <3>1
  <2>2. books' \in Int
    BY CommitCash
  <2>3. filling' \in [Fills -> FillRecords]
    <3> DEFINE ended == [filling[f] EXCEPT !.at = "done", !.cash = 0, !.qty = 0]
    <3>1. filling \in [Fills -> FillRecords]
      BY FillMoves
    <3>2. ended \in FillRecords
      <4> DEFINE e1 == [filling[f] EXCEPT !.at = "done"]
                 e2 == [e1 EXCEPT !.cash = 0]
      <4>1. e1 \in FillRecords
        BY <3>1 DEF FillRecords
      <4>2. ended = [e2 EXCEPT !.qty = 0]
        OBVIOUS
      <4> HIDE DEF e1
      <4>3. e2 \in FillRecords
        BY <4>1 DEF FillRecords
      <4> HIDE DEF e2
      <4> QED
        BY <4>2, <4>3 DEF FillRecords
    <3>3. filling' = [filling EXCEPT ![f] = ended]
      BY <1>1
    <3> HIDE DEF ended
    <3> QED
      BY <3>1, <3>2, <3>3
  <2>4. accountLock' \in Fills \cup {Free} /\ rowLock' \in [Symbols -> Fills \cup {Free}]
    BY <1>1 DEF LedgerInv, LedgerTypeOK, Unlock
  <2>5. upserting' \in [Upserts -> UpsertRecords]
    <3>1. \A u \in Upserts : upserting[u] \in UpsertRecords
      BY UpsertsTyped
    <3>2. \A r \in UpsertRecords : [r EXCEPT !.steady = FALSE] \in UpsertRecords
      BY DEF UpsertRecords
    <3> HIDE DEF UpsertRecords
    <3> QED
      BY <1>1, <3>1, <3>2
  <2>6. snapshot' \in Snapshots \cup {NoSnapshot} /\ orders' \subseteq Fills
    BY <1>1, <1>2 DEF LedgerInv, LedgerTypeOK
  <2> QED
    BY <2>1, <2>2, <2>3, <2>4, <2>5, <2>6 DEF LedgerTypeOK, FillRecords, UpsertRecords, Snapshots
<1>5. filling'[f].at = "done" /\ Asked(f)' = Asked(f)
      /\ \A g \in Fills \ {f} : filling'[g] = filling[g] /\ Asked(g)' = Asked(g)
  BY <1>1, <1>2, FillFacts DEF Asked
<1>6. AskedInv'
  <2>1. IsFiniteSet(orders')
    BY <1>1, FS_AddElement DEF LedgerInv, AskedInv
  <2>2. orders' = {g \in Fills : filling'[g].at = "done"}
    BY <1>1, <1>2, <1>5 DEF LedgerInv, AskedInv
  <2>3. \A g \in Fills : filling'[g].at \in {"begin", "second", "save", "done"}
                           => Asked(g)' \in Requests
    BY <1>1, <1>5 DEF LedgerInv, AskedInv
  <2> QED
    BY <2>1, <2>2, <2>3 DEF AskedInv
<1>7. \A g \in Fills : CashKnown(g)' /\ PositionKnown(g)'
  <2>1. CashKnown(f)' /\ PositionKnown(f)'
    BY <1>5 DEF CashKnown, PositionKnown, AccountRead, PositionRead
  <2>2. ASSUME NEW g \in Fills \ {f}
        PROVE  CashKnown(g)' /\ PositionKnown(g)'
    <3>1. /\ CashKnown(f) /\ CashKnown(g) /\ PositionKnown(f) /\ PositionKnown(g)
          /\ AccountRead(f) /\ PositionRead(f)
      BY <1>1 DEF LedgerInv, AccountRead, PositionRead
    <3>2. ~AccountRead(g)
      BY <3>1 DEF CashKnown
    <3>3. AccountRead(g)' = AccountRead(g) /\ PositionRead(g)' = PositionRead(g)
      BY <1>5 DEF AccountRead, PositionRead
    <3>4. CashKnown(g)'
      BY <3>2, <3>3 DEF CashKnown
    <3>7. filling'[g] = filling[g] /\ Asked(g)' = Asked(g)
      BY <1>5
    <3>8. PositionKnown(g)
      BY <3>1
    <3>5. CASE ~PositionRead(g)
      BY <3>3, <3>4, <3>5, <3>7, <3>8 DEF PositionKnown
    <3>6. CASE PositionRead(g)
      <4>1. Asked(g).side = "sell" /\ Asked(g).symbol \in Symbols
        BY <3>2, <3>6, FillFacts DEF PositionRead, AccountRead
      <4>2. rowLock[Asked(g).symbol] = g /\ rows[Asked(g).symbol] # <<>>
        BY <3>1, <3>6, <4>1 DEF PositionKnown
      <4>3. Asked(g).symbol # Asked(f).symbol
        BY <3>1, <4>2 DEF PositionKnown
      <4>4. rows'[Asked(g).symbol] = rows[Asked(g).symbol]
        BY <4>1, <4>3 DEF Commit
      <4>5. rowLock'[Asked(g).symbol] = g
        BY <1>1, <4>1, <4>2 DEF Unlock
      <4>6. Held(Asked(g).symbol)' = Held(Asked(g).symbol)
        BY <1>5, <4>4 DEF Held
      <4> QED
        BY <3>3, <3>4, <3>6, <3>7, <3>8, <4>4, <4>5, <4>6 DEF PositionKnown
    <3> QED
      BY <3>4, <3>5, <3>6
  <2> QED
    BY <2>1, <2>2
<1>8. \A u \in Upserts :
        /\ upserting'[u].at = upserting[u].at /\ upserting'[u].source = upserting[u].source
        /\ upserting'[u].snap = upserting[u].snap
        /\ upserting[u].at = "positions" => ~upserting'[u].steady
        /\ upserting[u].at # "positions" => upserting'[u] = upserting[u]
  BY <1>1 DEF LedgerInv, LedgerTypeOK
<1>9. UpsertInv'
  BY <1>8 DEF LedgerInv, UpsertInv
<1>10. NavIsWhole'
  <2> SUFFICES ASSUME NEW u \in Upserts, upserting'[u].snap # NoSnapshot
               PROVE  upserting'[u] = upserting[u] /\ upserting[u].snap # NoSnapshot
    BY DEF LedgerInv, NavIsWhole
  <2> QED
    BY <1>8 DEF LedgerInv, UpsertInv
<1> QED
  BY <1>3, <1>4, <1>6, <1>7, <1>9, <1>10, CommitOrders, CommitFortune DEF LedgerInv

----------------------------------------------------------------------------
(* The day's NAV *)

\* What NavIsWhole says of one call.
NavSound(r) ==
  r.snap # NoSnapshot =>
    IF r.source = "books" THEN r.steady => r.snap.nav = Fortune
    ELSE /\ r.snap.nav = 0 => \E a \in BrokerAccounts : a.equity = 0 /\ a.value = 0
         /\ r.snap.nav >= r.snap.cash => r.snap.nav = r.snap.cash + r.snap.equity

\* A step of one call that stores a NAV, which writes r.
LEMMA UpsertKeeps ==
  ASSUME LedgerInv, UNCHANGED <<books, rows, orders, accountLock, rowLock, filling>>,
         snapshot' \in Snapshots \cup {NoSnapshot},
         NEW u0 \in Upserts, NEW r \in UpsertRecords,
         upserting' = [upserting EXCEPT ![u0] = r],
         r.at \in {"begin", "cash", "positions"} => r.snap = NoSnapshot,
         r.at \in {"cash", "positions"} => r.source = "books",
         r.at = "positions" /\ r.steady => r.cash = books,
         NavSound(r)
  PROVE  LedgerInv'
<1>1. upserting \in [Upserts -> UpsertRecords]
  BY UpsertsTyped
<1>2. /\ upserting' \in [Upserts -> UpsertRecords] /\ upserting'[u0] = r
      /\ \A u \in Upserts \ {u0} : upserting'[u] = upserting[u]
  BY <1>1
<1>3. LedgerTypeOK'
  BY <1>2 DEF LedgerInv, LedgerTypeOK, UpsertRecords, Snapshots
<1>4. rows' \in [Symbols -> OneRow] /\ AskedInv'
  BY DEF LedgerInv, AskedInv, Asked
<1>5. \A f \in Fills : CashKnown(f)' /\ PositionKnown(f)'
  <2> SUFFICES ASSUME NEW f \in Fills
               PROVE  CashKnown(f)' /\ PositionKnown(f)'
    OBVIOUS
  <2>1. CashKnown(f) /\ PositionKnown(f)
    BY DEF LedgerInv
  <2>2. Asked(f)' = Asked(f) /\ AccountRead(f)' = AccountRead(f)
        /\ PositionRead(f)' = PositionRead(f)
    BY DEF Asked, AccountRead, PositionRead
  <2>3. Held(Asked(f).symbol)' = Held(Asked(f).symbol)
    BY <2>2 DEF Held
  <2> QED
    BY <2>1, <2>2, <2>3 DEF CashKnown, PositionKnown, Notional
<1>6. FortuneInv' /\ Fortune' = Fortune
  BY DEF LedgerInv, FortuneInv, Worth, Quantity, Fortune
<1>7. BooksMatchOrders'
  BY DEF LedgerInv, BooksMatchOrders, Quantity, Signed, Asked
<1>8. UpsertInv'
  BY <1>2 DEF LedgerInv, UpsertInv
<1>9. NavIsWhole'
  <2> SUFFICES ASSUME NEW u \in Upserts
               PROVE  NavSound(upserting'[u])
    BY DEF NavIsWhole, NavSound, Fortune
  <2>1. CASE u = u0
    BY <1>2, <2>1
  <2>2. CASE u # u0
    BY <1>2, <2>2 DEF LedgerInv, NavIsWhole, NavSound, Fortune
  <2> QED
    BY <2>1, <2>2
<1> QED
  BY <1>3, <1>4, <1>5, <1>6, <1>7, <1>8, <1>9 DEF LedgerInv

\* What is stored of the broker's account is sound.
LEMMA BrokerTotalsSound ==
  ASSUME NEW a \in BrokerAccounts
  PROVE  LET b == BrokerTotals(a) IN
         /\ b \in Snapshots
         /\ b.nav = 0 => a.equity = 0 /\ a.value = 0
         /\ b.nav >= b.cash => b.nav = b.cash + b.equity
<1> DEFINE nav == IF a.equity = 0 /\ a.value > 0 THEN a.value ELSE a.equity
           x == nav - a.cash
<1>1. a.cash \in Int /\ a.equity \in Nat /\ a.value \in Nat
  BY LedgerAssumption
<1>2. nav \in Nat /\ (nav = 0 => a.equity = 0 /\ a.value = 0)
  BY <1>1
<1>3. BrokerTotals(a) = [cash |-> a.cash, nav |-> nav, equity |-> Max({x, 0})]
  BY DEF BrokerTotals
<1> HIDE DEF nav
<1>4. x \in Int
  BY <1>1, <1>2
<1>5. Max({x, 0}) = IF x >= 0 THEN x ELSE 0
  <2> HIDE DEF x
  <2> DEFINE m == IF x >= 0 THEN x ELSE 0
  <2>1. m \in {x, 0} /\ \A y \in {x, 0} : m >= y
    BY <1>4
  <2>2. \A n \in {x, 0} : (\A y \in {x, 0} : n >= y) => n = m
    BY <1>4
  <2> HIDE DEF m
  <2>3. Max({x, 0}) \in {x, 0} /\ \A y \in {x, 0} : Max({x, 0}) >= y
    BY <2>1 DEF Max
  <2>4. Max({x, 0}) = m
    BY <2>2, <2>3
  <2> QED
    BY <2>4 DEF m
<1> DEFINE e == Max({x, 0})
<1>6. e \in Nat /\ (nav >= a.cash => e = nav - a.cash)
  BY <1>1, <1>2, <1>4, <1>5
<1> HIDE DEF e
<1>7. BrokerTotals(a) = [cash |-> a.cash, nav |-> nav, equity |-> e]
  BY <1>3 DEF e
<1> QED
  BY <1>1, <1>2, <1>6, <1>7 DEF Snapshots

\* Shares without a row are worth nothing.
LEMMA WorthOfMarked ==
  ASSUME LedgerInv, NEW marked \in SUBSET Symbols
  PROVE  /\ Worth(marked) \in Nat
         /\ (\A s \in Symbols \ marked : rows[s] = <<>>) => Worth(marked) = Worth(Symbols)
<1> DEFINE h == [s \in Symbols |-> Price[s] * Quantity(s)]
           k == [s \in marked |-> Price[s] * Quantity(s)]
<1>1. \A s \in Symbols : /\ Quantity(s) = Held(s) /\ Held(s) \in Nat /\ Price[s] \in Nat
                         /\ rows[s] = <<>> => Held(s) = 0
  BY QuantityIsHeld, LedgerAssumption DEF LedgerInv, Held
<1>2. \A s \in Symbols : /\ Price[s] * Quantity(s) \in Nat
                         /\ rows[s] = <<>> => Price[s] * Quantity(s) = 0
  BY <1>1
<1>3. IsFiniteSet(Symbols) /\ IsFiniteSet(marked)
  BY LedgerAssumption, FS_Subset
<1>4. /\ DOMAIN h = Symbols /\ DOMAIN k = marked
      /\ \A s \in Symbols : h[s] \in Nat /\ h[s] \in Int
      /\ \A s \in marked : k[s] \in Nat /\ k[s] = h[s]
      /\ \A s \in Symbols : rows[s] = <<>> => h[s] = 0
  BY <1>2
<1>5. Worth(marked) = SumFunction(k) /\ Worth(Symbols) = SumFunction(h)
  BY DEF Worth
<1> HIDE DEF h, k
<1>6. SumFunction(k) \in Nat
  BY <1>3, <1>4, TotalNat
<1>7. ASSUME \A s \in Symbols \ marked : rows[s] = <<>>
      PROVE  SumFunction(k) = SumFunction(h)
  <2>1. \A s \in Symbols \ marked : h[s] = 0
    BY <1>4, <1>7
  <2>2. /\ \A s \in Symbols : h[s] \in Int
        /\ \A s \in marked : k[s] = h[s]
        /\ DOMAIN h = Symbols /\ DOMAIN k = marked
    BY <1>4
  <2> QED
    BY <1>3, <2>1, <2>2, TotalZeros
<1> QED
  BY <1>5, <1>6, <1>7

LEMMA LedgerInitially == LedgerInit => LedgerInv
<1> SUFFICES ASSUME LedgerInit
             PROVE  LedgerInv
  OBVIOUS
<1> USE DEF LedgerInit
<1>1. rows \in [Symbols -> OneRow]
  <2>1. \A s \in Symbols : (IF Opening[s] > 0 THEN <<Opening[s]>> ELSE <<>>) \in OneRow
    BY LedgerAssumption DEF OneRow
  <2> QED
    BY <2>1
<1>2. LedgerTypeOK
  <2>1. rows \in [Symbols -> Seq(Nat)]
    <3>1. \A q \in OneRow : q \in Seq(Nat)
      BY OneRowSums
    <3> QED
      BY <1>1, <3>1
  <2>2. books \in Int /\ orders \subseteq Fills /\ accountLock \in Fills \cup {Free}
        /\ rowLock \in [Symbols -> Fills \cup {Free}] /\ snapshot \in Snapshots \cup {NoSnapshot}
    BY LedgerAssumption
  <2>3. filling \in [Fills -> FillRecords]
    BY DEF FillRecords
  <2>4. upserting \in [Upserts -> UpsertRecords]
    BY DEF UpsertRecords
  <2> QED
    BY <2>1, <2>2, <2>3, <2>4 DEF LedgerTypeOK, FillRecords, UpsertRecords
<1>3. AskedInv
  BY FS_EmptySet DEF AskedInv
<1>4. \A f \in Fills : CashKnown(f) /\ PositionKnown(f)
  BY DEF CashKnown, PositionKnown, AccountRead, PositionRead
<1>5. \A s \in Symbols : Quantity(s) = Opening[s] /\ Len(rows[s]) <= 1
  <2> SUFFICES ASSUME NEW s \in Symbols
               PROVE  Quantity(s) = Opening[s] /\ Len(rows[s]) <= 1
    OBVIOUS
  <2>1. rows[s] = IF Opening[s] > 0 THEN <<Opening[s]>> ELSE <<>>
    OBVIOUS
  <2>2. Opening[s] \in Nat
    BY LedgerAssumption
  <2>3. Held(s) = Opening[s]
    BY <2>1, <2>2 DEF Held
  <2>4. Quantity(s) = Held(s)
    BY <1>1, QuantityIsHeld
  <2>5. Len(rows[s]) <= 1
    BY <2>1
  <2> QED
    BY <2>3, <2>4, <2>5
<1>6. BooksMatchOrders
  <2>1. SumFunction([f \in orders |-> Signed(f) * Price[Asked(f).symbol]]) = 0
    <3> DEFINE h == [f \in orders |-> Signed(f) * Price[Asked(f).symbol]]
    <3>1. DOMAIN h = {}
      OBVIOUS
    <3> HIDE DEF h
    <3>2. SumFunction(h) = 0
      BY <3>1, SumEmpty DEF SumFunction
    <3> QED
      BY <3>2 DEF h
  <2>2. ASSUME NEW s \in Symbols
        PROVE  SumFunction([f \in {g \in orders : Asked(g).symbol = s} |-> Signed(f)]) = 0
    <3> DEFINE h == [f \in {g \in orders : Asked(g).symbol = s} |-> Signed(f)]
    <3>1. DOMAIN h = {}
      OBVIOUS
    <3> HIDE DEF h
    <3>2. SumFunction(h) = 0
      BY <3>1, SumEmpty DEF SumFunction
    <3> QED
      BY <3>2 DEF h
  <2>3. InitialCash \in Nat /\ Opening \in [Symbols -> Nat] /\ books = InitialCash
    BY LedgerAssumption
  <2>4. books >= 0 /\ books = InitialCash - 0 /\ \A s \in Symbols : Opening[s] = Opening[s] + 0
    BY <2>3
  <2> QED
    BY <1>5, <2>1, <2>2, <2>4 DEF BooksMatchOrders
<1>7. FortuneInv
  <2>1. [s \in Symbols |-> Price[s] * Quantity(s)] = [s \in Symbols |-> Price[s] * Opening[s]]
    BY <1>5
  <2> QED
    BY <2>1 DEF FortuneInv, Fortune, Worth
<1>8. UpsertInv /\ NavIsWhole
  BY DEF UpsertInv, NavIsWhole
<1> QED
  BY <1>1, <1>2, <1>3, <1>4, <1>6, <1>7, <1>8 DEF LedgerInv

LEMMA UpsertStepKeeps ==
  ASSUME LedgerInv, NEW u \in Upserts,
         ReadAccount(u) \/ ReadCash(u) \/ ReadPositions(u) \/ FindSnapshot(u) \/ StoreSnapshot(u)
  PROVE  LedgerInv'
<1> DEFINE r == upserting[u]
<1>1. /\ r \in UpsertRecords /\ NavSound(r) /\ snapshot \in Snapshots \cup {NoSnapshot}
      /\ r.at \in {"begin", "cash", "positions"} => r.snap = NoSnapshot
      /\ r.at \in {"cash", "positions"} => r.source = "books"
      /\ r.at = "positions" /\ r.steady => r.cash = books
      /\ books \in Int
  <2>1. r \in UpsertRecords
    BY UpsertsTyped
  <2>2. NavSound(r)
    BY DEF LedgerInv, NavIsWhole, NavSound, Fortune
  <2>3. snapshot \in Snapshots \cup {NoSnapshot} /\ books \in Int
    BY DEF LedgerInv, LedgerTypeOK
  <2> QED
    BY <2>1, <2>2, <2>3 DEF LedgerInv, UpsertInv
<1> DEFINE Ats == {"cash", "positions", "find", "create", "save", "done", "failed"}
<1>2. /\ \A a \in Ats : [r EXCEPT !.at = a] \in UpsertRecords
      /\ \A a \in Ats, c \in Int : [r EXCEPT !.at = a, !.cash = c] \in UpsertRecords
      /\ \A a \in Ats, n \in Snapshots : [r EXCEPT !.at = a, !.snap = n] \in UpsertRecords
      /\ \A a \in Ats, b \in {"broker", "books"} :
           /\ [r EXCEPT !.at = a, !.source = b] \in UpsertRecords
           /\ \A n \in Snapshots :
                [r EXCEPT !.at = a, !.source = b, !.snap = n] \in UpsertRecords
  <2>1. r \in UpsertRecords
    BY <1>1
  <2> HIDE DEF r
  <2>2. \A a \in Ats : [r EXCEPT !.at = a] \in UpsertRecords
    BY <2>1 DEF UpsertRecords
  <2>3. \A a \in Ats, c \in Int : [r EXCEPT !.at = a, !.cash = c] \in UpsertRecords
    BY <2>1 DEF UpsertRecords
  <2>4. \A a \in Ats, n \in Snapshots : [r EXCEPT !.at = a, !.snap = n] \in UpsertRecords
    BY <2>1 DEF UpsertRecords
  <2>5. \A a \in Ats, b \in {"broker", "books"} :
          [r EXCEPT !.at = a, !.source = b] \in UpsertRecords
    BY <2>1 DEF UpsertRecords
  <2>6. \A a \in Ats, b \in {"broker", "books"}, n \in Snapshots :
          [r EXCEPT !.at = a, !.source = b, !.snap = n] \in UpsertRecords
    BY <2>1 DEF UpsertRecords
  <2> QED
    BY <2>2, <2>3, <2>4, <2>5, <2>6
<1>3. CASE ReadAccount(u)
  <2>1. /\ r.at = "begin" /\ r.snap = NoSnapshot
        /\ UNCHANGED <<books, rows, orders, accountLock, rowLock, filling, snapshot>>
    BY <1>1, <1>3 DEF ReadAccount
  <2>2. ASSUME NEW a \in BrokerAccounts,
               upserting' = [upserting EXCEPT ![u].at = "find", ![u].source = "broker",
                                              ![u].snap = BrokerTotals(a)]
        PROVE  LedgerInv'
    <3> DEFINE new == [r EXCEPT !.at = "find", !.source = "broker", !.snap = BrokerTotals(a)]
    <3>1. /\ BrokerTotals(a) \in Snapshots
          /\ BrokerTotals(a).nav = 0 => a.equity = 0 /\ a.value = 0
          /\ BrokerTotals(a).nav >= BrokerTotals(a).cash
               => BrokerTotals(a).nav = BrokerTotals(a).cash + BrokerTotals(a).equity
      BY BrokerTotalsSound
    <3>2. new \in UpsertRecords /\ upserting' = [upserting EXCEPT ![u] = new]
      <4>1. new \in UpsertRecords
        BY <1>1, <1>2, <2>2, <3>1
      <4>2. upserting' = [upserting EXCEPT ![u] = new]
        BY <2>2, <3>1
      <4> QED
        BY <4>1, <4>2
    <3>3. new.at = "find" /\ new.source = "broker" /\ new.snap = BrokerTotals(a)
      BY <1>1 DEF UpsertRecords
    <3> HIDE DEF new
    <3>4. NavSound(new)
      BY <3>1, <3>3 DEF NavSound
    <3> QED
      BY <1>1, <2>1, <3>2, <3>3, <3>4, UpsertKeeps
  <2>3. ASSUME upserting' = [upserting EXCEPT ![u].at = "cash", ![u].source = "books"]
        PROVE  LedgerInv'
    <3> DEFINE new == [r EXCEPT !.at = "cash", !.source = "books"]
    <3>1. new \in UpsertRecords /\ upserting' = [upserting EXCEPT ![u] = new]
      <4>1. new \in UpsertRecords
        BY <1>1, <1>2, <2>3
      <4>2. upserting' = [upserting EXCEPT ![u] = new]
        BY <2>3
      <4> QED
        BY <4>1, <4>2
    <3>2. new.at = "cash" /\ new.source = "books" /\ new.snap = NoSnapshot
      BY <1>1, <2>1 DEF UpsertRecords
    <3> HIDE DEF new
    <3>3. NavSound(new)
      BY <3>2 DEF NavSound
    <3> QED
      BY <1>1, <2>1, <3>1, <3>2, <3>3, UpsertKeeps
  <2> QED
    BY <1>3, <2>2, <2>3 DEF ReadAccount
<1>4. CASE ReadCash(u)
  <2>1. /\ r.at = "cash" /\ r.snap = NoSnapshot /\ r.source = "books"
        /\ UNCHANGED <<books, rows, orders, accountLock, rowLock, filling, snapshot>>
        /\ upserting' = [upserting EXCEPT ![u].at = "positions", ![u].cash = books]
    BY <1>1, <1>4 DEF ReadCash
  <2> DEFINE new == [r EXCEPT !.at = "positions", !.cash = books]
  <2>2. new \in UpsertRecords /\ upserting' = [upserting EXCEPT ![u] = new]
    <3>1. new \in UpsertRecords
      BY <1>1, <1>2, <2>1
    <3>2. upserting' = [upserting EXCEPT ![u] = new]
      BY <2>1
    <3> QED
      BY <3>1, <3>2
  <2>3. new.at = "positions" /\ new.source = "books" /\ new.snap = NoSnapshot /\ new.cash = books
    BY <1>1, <2>1 DEF UpsertRecords
  <2> HIDE DEF new
  <2>4. NavSound(new)
    BY <2>3 DEF NavSound
  <2> QED
    BY <1>1, <2>1, <2>2, <2>3, <2>4, UpsertKeeps
<1>5. CASE ReadPositions(u)
  <2>1. /\ r.at = "positions" /\ r.snap = NoSnapshot /\ r.source = "books"
        /\ UNCHANGED <<books, rows, orders, accountLock, rowLock, filling, snapshot>>
    BY <1>1, <1>5 DEF ReadPositions
  <2>2. ASSUME upserting' = [upserting EXCEPT ![u].at = "failed"]
        PROVE  LedgerInv'
    <3> DEFINE new == [r EXCEPT !.at = "failed"]
    <3>1. new \in UpsertRecords /\ upserting' = [upserting EXCEPT ![u] = new]
      <4>1. new \in UpsertRecords
        BY <1>1, <1>2, <2>2
      <4>2. upserting' = [upserting EXCEPT ![u] = new]
        BY <2>2
      <4> QED
        BY <4>1, <4>2
    <3>2. new.at = "failed" /\ new.snap = NoSnapshot
      BY <1>1, <2>1 DEF UpsertRecords
    <3> HIDE DEF new
    <3>3. NavSound(new)
      BY <3>2 DEF NavSound
    <3> QED
      BY <1>1, <2>1, <3>1, <3>2, <3>3, UpsertKeeps
  <2>3. ASSUME NEW marked \in SUBSET Symbols, \A s \in Symbols \ marked : rows[s] = <<>>,
               upserting' = [upserting EXCEPT ![u].at = "find", ![u].snap =
                  [cash |-> upserting[u].cash, equity |-> Worth(marked),
                   nav |-> upserting[u].cash + Worth(marked)]]
        PROVE  LedgerInv'
    <3> DEFINE n == [cash |-> r.cash, equity |-> Worth(marked), nav |-> r.cash + Worth(marked)]
               new == [r EXCEPT !.at = "find", !.snap = n]
    <3>1. Worth(marked) \in Nat /\ Worth(marked) = Worth(Symbols) /\ r.cash \in Int
      BY <1>1, <2>3, WorthOfMarked DEF UpsertRecords
    <3>2. n \in Snapshots /\ n.nav = r.cash + Worth(marked)
      BY <3>1 DEF Snapshots
    <3>3. books + Worth(Symbols) = Fortune
      BY DEF LedgerInv, FortuneInv
    <3>4. r.steady => n.nav = Fortune
      BY <1>1, <2>1, <3>1, <3>2, <3>3
    <3>5. upserting' = [upserting EXCEPT ![u] = new]
      BY <2>3
    <3> HIDE DEF n
    <3>6. new \in UpsertRecords
      BY <1>1, <1>2, <3>2
    <3>7. new.at = "find" /\ new.source = "books" /\ new.snap = n /\ new.steady = r.steady
      BY <1>1, <2>1 DEF UpsertRecords
    <3> HIDE DEF new
    <3>8. NavSound(new)
      BY <3>4, <3>7 DEF NavSound
    <3> QED
      BY <1>1, <2>1, <3>5, <3>6, <3>7, <3>8, UpsertKeeps
  <2>4. PICK marked \in SUBSET Symbols :
          IF \E s \in Symbols \ marked : rows[s] # <<>>
          THEN upserting' = [upserting EXCEPT ![u].at = "failed"]
          ELSE upserting' = [upserting EXCEPT ![u].at = "find", ![u].snap =
                  [cash |-> upserting[u].cash, equity |-> Worth(marked),
                   nav |-> upserting[u].cash + Worth(marked)]]
    BY <1>5 DEF ReadPositions
  <2> QED
    BY <2>2, <2>3, <2>4
<1>6. ASSUME NEW a \in {"create", "save", "failed", "done"}, r.at \notin {"begin", "cash", "positions"},
             upserting' = [upserting EXCEPT ![u].at = a],
             snapshot' \in Snapshots \cup {NoSnapshot},
             UNCHANGED <<books, rows, orders, accountLock, rowLock, filling>>
      PROVE  LedgerInv'
  <2> DEFINE new == [r EXCEPT !.at = a]
  <2>1. new \in UpsertRecords /\ upserting' = [upserting EXCEPT ![u] = new]
    <3>1. new \in UpsertRecords
      BY <1>1, <1>2, <1>6
    <3>2. upserting' = [upserting EXCEPT ![u] = new]
      BY <1>6
    <3> QED
      BY <3>1, <3>2
  <2>2. new.at = a /\ new.source = r.source /\ new.snap = r.snap /\ new.steady = r.steady
    BY <1>1 DEF UpsertRecords
  <2> HIDE DEF new
  <2>3. NavSound(new)
    BY <1>1, <2>2 DEF NavSound
  <2> QED
    BY <1>6, <2>1, <2>2, <2>3, UpsertKeeps
<1>7. CASE FindSnapshot(u)
  BY <1>1, <1>6, <1>7 DEF FindSnapshot
<1>8. CASE StoreSnapshot(u)
  <2>1. r.snap \in Snapshots \cup {NoSnapshot}
    BY <1>1 DEF UpsertRecords
  <2> QED
    BY <1>1, <1>6, <1>8, <2>1 DEF StoreSnapshot
<1> QED
  BY <1>3, <1>4, <1>5, <1>7, <1>8

LEMMA LedgerStep == LedgerInv /\ [LedgerNext]_ledgerVars => LedgerInv'
<1> SUFFICES ASSUME LedgerInv, [LedgerNext]_ledgerVars
             PROVE  LedgerInv'
  OBVIOUS
<1>1. ASSUME NEW f \in Fills,
             BeginFill(f) \/ FillStep(f) \/ StatementFails(f) \/ DeadlockVictim(f)
      PROVE  LedgerInv'
  <2>1. CASE StatementFails(f)
    BY <2>1, RollBackKeeps DEF StatementFails
  <2>2. CASE DeadlockVictim(f)
    <3>1. RollBack(f) /\ filling[f].at # "done"
      BY <2>2 DEF DeadlockVictim, WaitsFor
    <3> QED
      BY <3>1, RollBackKeeps
  <2>3. CASE FillStep(f)
    BY <2>3, BuyTakesAccountKeeps, BuyTakesPositionKeeps, SellTakesPositionKeeps,
       SellTakesAccountKeeps, CommitKeeps DEF FillStep
  <2> QED
    BY <1>1, <2>1, <2>2, <2>3, BeginFillKeeps
<1>2. ASSUME NEW u \in Upserts,
             ReadAccount(u) \/ ReadCash(u) \/ ReadPositions(u)
               \/ FindSnapshot(u) \/ StoreSnapshot(u)
      PROVE  LedgerInv'
  BY <1>2, UpsertStepKeeps
<1>3. CASE UNCHANGED ledgerVars
  <2>1. UNCHANGED <<books, rows, orders, accountLock, rowLock, filling, snapshot, upserting>>
    BY <1>3 DEF ledgerVars
  <2>2. Quiet
    BY <2>1 DEF Quiet
  <2>3. LedgerTypeOK' /\ AskedInv'
    BY <2>1 DEF LedgerInv, LedgerTypeOK, AskedInv, Asked, Snapshots
  <2>4. \A f \in Fills : CashKnown(f)' /\ PositionKnown(f)'
    <3> SUFFICES ASSUME NEW f \in Fills
                 PROVE  CashKnown(f)' /\ PositionKnown(f)'
      OBVIOUS
    <3>1. CashKnown(f) /\ PositionKnown(f)
      BY DEF LedgerInv
    <3>2. Asked(f)' = Asked(f) /\ AccountRead(f)' = AccountRead(f)
          /\ PositionRead(f)' = PositionRead(f)
      BY <2>1 DEF Asked, AccountRead, PositionRead
    <3>3. Held(Asked(f).symbol)' = Held(Asked(f).symbol)
      BY <2>1, <3>2 DEF Held
    <3> QED
      BY <2>1, <3>1, <3>2, <3>3 DEF CashKnown, PositionKnown, Notional
  <2> QED
    BY <2>2, <2>3, <2>4, BooksKept DEF LedgerInv
<1> QED
  BY <1>1, <1>2, <1>3 DEF LedgerNext

LEMMA LedgerInvHolds == LedgerSpec => []LedgerInv
BY LedgerInitially, LedgerStep, PTL DEF LedgerSpec

\* The local books keep their types for any symbols, fills and NAV calls.
THEOREM LedgerTypeCorrect == LedgerSpec => []LedgerTypeOK
<1>1. LedgerInv => LedgerTypeOK
  BY DEF LedgerInv
<1> QED
  BY <1>1, LedgerInvHolds, PTL

\* However many calls of ApplyFill interleave, deadlock or fail, cash and
\* positions are what the committed orders make of the opening ones, and no
\* fill overspends, is lost or counted twice.
THEOREM BooksAreKept == LedgerSpec => []BooksMatchOrders
<1>1. LedgerInv => BooksMatchOrders
  BY DEF LedgerInv
<1> QED
  BY <1>1, LedgerInvHolds, PTL

\* A NAV from the books counts every fill once unless one committed between its
\* two reads; one from the broker is not zero while the account is not.
THEOREM NavCountsEverything == LedgerSpec => []NavIsWhole
<1>1. LedgerInv => NavIsWhole
  BY DEF LedgerInv
<1> QED
  BY <1>1, LedgerInvHolds, PTL

----------------------------------------------------------------------------
(* All of them *)

\* Every variable of the seven keeps its type.
THEOREM ServicesTypeCorrect == Spec => []TypeOK
<1>1. Init => /\ part \in Parts
              /\ LockInit /\ AgentInit /\ HubInit /\ SearchInit
              /\ ScheduleInit /\ LedgerInit /\ SettingsInit
  BY DEF Init
<1>2. [Next]_vars => /\ [LockNext]_lockVars
                     /\ [AgentNext]_agentVars
                     /\ [HubNext]_hubVars
                     /\ [SearchNext]_searchVars
                     /\ [ScheduleNext]_scheduleVars
                     /\ [LedgerNext]_ledgerVars
                     /\ [SettingsNext]_settingsVars
  BY DEF Next, vars
<1>3. part \in Parts /\ [Next]_vars => (part \in Parts)'
  BY DEF Next, vars
<1>4. /\ part \in Parts
      /\ LockTypeOK /\ AgentTypeOK /\ HubTypeOK /\ SearchTypeOK
      /\ ScheduleTypeOK /\ LedgerTypeOK /\ SettingsTypeOK
      => TypeOK
  BY DEF TypeOK
<1> QED
  BY <1>1, <1>2, <1>3, <1>4, LockTypeCorrect, AgentsTypeCorrect, HubTypeCorrect,
     SearchTypeCorrect, ScheduleTypeCorrect, LedgerTypeCorrect, SettingsTypeCorrect, PTL
     DEF Spec, LockSpec, AgentSpec, HubSpec, SearchSpec, ScheduleSpec, LedgerSpec, SettingsSpec
=============================================================================
