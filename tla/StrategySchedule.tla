-------------------------- MODULE StrategySchedule --------------------------
(***************************************************************************)
(* The cron jobs of a strategy (strategy/validate.go, schedule.go): the    *)
(* fields are validated, then BuildJobSpecs makes the pre-open job and, in *)
(* a loop over the minutes of the day, the intraday jobs.                  *)
(*                                                                         *)
(* Times are minutes since midnight, Eastern Time; -1 is a text parseHHMM  *)
(* refuses.  A job is its trigger with the hour and the minute of its cron *)
(* expression, which fires Monday to Friday.                               *)
(***************************************************************************)
EXTENDS Integers, Sequences

CONSTANTS Strategies   \* the strategies considered (records, see below)

VARIABLES
  fields,    \* the strategy: named, mode, preOpen, every, start, end
  building,  \* "validate", "pre_open", "loop", "done" or "refused"
  t,         \* the loop's minute
  jobs       \* the jobs built so far

scheduleVars == <<fields, building, t, jobs>>

UsRegularOpen == 9 * 60 + 30
Modes == {"auto_reject_breaches", "require_approval", "bypass_risk"}
TimeOfDay == 0..(24 * 60 - 1)

StrategyFields ==
  [named : BOOLEAN, mode : Modes \cup {"other"}, preOpen : Int, every : Int,
   start : TimeOfDay \cup {-1}, end : TimeOfDay \cup {-1}]

ASSUME StrategiesAssumption == Strategies \subseteq StrategyFields

Job(trigger, minutes) ==
  [trigger |-> trigger, hour |-> minutes \div 60, minute |-> minutes % 60]

ScheduleTypeOK ==
  /\ fields \in Strategies
  /\ building \in {"validate", "pre_open", "loop", "done", "refused"}
  /\ t \in Int
  /\ jobs \in Seq([trigger : {"pre_open", "intraday"}, hour : 0..23, minute : 0..59])

ScheduleInit ==
  /\ fields \in Strategies
  /\ building = "validate"
  /\ t = 0
  /\ jobs = <<>>

\* Mutant of ValidStrategy: a lead time longer than the morning is accepted.
ValidAnyLead(s) ==
  /\ s.named
  /\ s.mode \in Modes
  /\ s.preOpen >= 0
  /\ s.every = 0 \/ s.every >= 15
  /\ s.start # -1 /\ s.end # -1
  /\ s.start <= s.end

\* ValidateStrategyFields.
ValidStrategy(s) ==
  /\ s.named
  /\ s.mode \in Modes
  /\ s.preOpen \in 0..UsRegularOpen
  /\ s.every = 0 \/ s.every >= 15
  /\ s.start # -1 /\ s.end # -1
  /\ s.start <= s.end

Validate ==
  /\ building = "validate"
  /\ building' = IF ValidStrategy(fields) THEN "pre_open" ELSE "refused"
  /\ UNCHANGED <<fields, t, jobs>>

\* Mutant of PreOpenJob: the loop begins when the market opens.
PreOpenJobAtOpen ==
  /\ building = "pre_open"
  /\ jobs' = IF fields.preOpen > 0
             THEN <<Job("pre_open", UsRegularOpen - fields.preOpen)>> ELSE <<>>
  /\ building' = IF fields.every > 0 THEN "loop" ELSE "done"
  /\ t' = UsRegularOpen
  /\ UNCHANGED fields

\* The pre-open job; without intraday jobs that is all.
PreOpenJob ==
  /\ building = "pre_open"
  /\ jobs' = IF fields.preOpen > 0
             THEN <<Job("pre_open", UsRegularOpen - fields.preOpen)>> ELSE <<>>
  /\ building' = IF fields.every > 0 THEN "loop" ELSE "done"
  /\ t' = fields.start
  /\ UNCHANGED fields

\* One turn of the loop.
IntradayJob ==
  /\ building = "loop"
  /\ t <= fields.end
  /\ jobs' = Append(jobs, Job("intraday", t))
  /\ t' = t + fields.every
  /\ UNCHANGED <<fields, building>>

EndLoop ==
  /\ building = "loop"
  /\ t > fields.end
  /\ building' = "done"
  /\ UNCHANGED <<fields, t, jobs>>

ScheduleNext ==
  \/ Validate
  \/ PreOpenJob
  \/ IntradayJob
  \/ EndLoop

ScheduleSpec == ScheduleInit /\ [][ScheduleNext]_scheduleVars

----------------------------------------------------------------------------
(* Properties *)

MinuteOf(job) == job.hour * 60 + job.minute

\* The minutes a strategy asks for: every step from the start to the end of
\* its window, both included.
IntradayMinutes(s) ==
  {m \in TimeOfDay : s.every > 0 /\ m >= s.start /\ m <= s.end
                     /\ (m - s.start) % s.every = 0}

\* The jobs of one trigger, by their places in the list.
Made(trigger) == {i \in DOMAIN jobs : jobs[i].trigger = trigger}

\* The jobs are exactly what the strategy asks for: one pre-open job the given
\* minutes before the market opens, and one intraday job for each step of the
\* window, in order, none twice.
JobsAreAsked ==
  building = "done" =>
    /\ {MinuteOf(jobs[i]) : i \in Made("intraday")} = IntradayMinutes(fields)
    /\ \A i, k \in Made("intraday") : i < k => MinuteOf(jobs[i]) < MinuteOf(jobs[k])
    /\ Made("pre_open") = IF fields.preOpen > 0 THEN {1} ELSE {}
    /\ \A i \in Made("pre_open") : MinuteOf(jobs[i]) + fields.preOpen = UsRegularOpen

\* Two runs of one strategy are never asked for less than 15 minutes apart
\* within the day's window.
RunsSpaced ==
  \A i, k \in DOMAIN jobs :
    (i < k /\ jobs[i].trigger = "intraday" /\ jobs[k].trigger = "intraday")
      => MinuteOf(jobs[k]) - MinuteOf(jobs[i]) >= 15
=============================================================================
