# Verification of the stock-agents trading core

TLA+ models, TLC runs and TLAPS proofs for the Go API (`services/api`) and the
services around it. Everything here is translated from the source; where a
document is quoted it is because a property states what the document says.
Paths are relative to the repository root; `api/` stands for
`services/api/internal/`.

Contents: 1 the system, 2 what makes it hard, 3 modules and their code,
4 runs, 5 bounds, 6 fairness, 7 proofs, 8 what the checks found, 9 what is not
modelled, 10 how the project is ordered and what could come next.

## 1. The system

| Component | State it keeps | Operations | Talks to |
|---|---|---|---|
| Busy lock `api/workflow/lock.go` | one Redis key with a TTL | acquire (SETNX), unlock (DEL) | runner |
| Runner `api/workflow/runner.go` | `workflow_runs`, `workflow_step_results`, `trade_proposals`, its locals | `RunWorkflow`, `ResumeAgent` | lock, agents, risk gate, submission, ledger |
| Order submission `api/workflow/submit.go` | `orders`, `trade_proposals.status`, the order at Alpaca | `SubmitProposal`: send, mirror, poll up to 15 s, settle | called by runner and approvals |
| Approvals `api/approvals/service.go` | `approvals`, `trade_proposals.status`, `workflow_runs.status` | `Decide`, `CancelRun` | submission, ledger |
| Risk gate `api/risk` | rules, from the configuration at start-up | `Evaluate` | called by the runner for every proposal |
| Broker client and cache `api/broker` | cached account and positions | reads, submit (invalidates) | Alpaca |
| Strategy service `api/strategy/service.go` | `strategies` | create, update, activate, delete | HTTP handlers, scheduler |
| Scheduler `api/scheduler/scheduler.go` | a mutex, the running cron and its jobs | `Reload`, ticks | strategy service, runner |
| Ledger and NAV `api/ledger` | accounts, positions, `nav_snapshots` | `ApplyFill`, `UpsertNAV` | runner, approvals |
| Agents client `api/agentsclient` | none | `Call` with retries, `Resume` without | agent runtime |
| Agent runtime `services/agents/runtime` | LangGraph threads in SQLite | run, resume, thread status | LLM, market data |
| Stream hub `api/stream/hub.go` | subscribers, last publication per symbol | subscribe, publish, fan out | SSE handlers |
| Settings `api/httpserver/handlers_settings.go`, `db/seed.go` | `watchlist_symbols`, `risk_rule_configs` | add, edit, delete, seed at start | read by runs (`can_hold`), not by the running engine (rules) |
| Symbol search `api/symbolsearch/client.go` | the cached asset list under a read-write mutex | search | Alpaca |
| HTTP handlers, auth | none | requests | all of the above |
| Web application `apps/web` | view state, polling timers | pages | the API |

A run goes like this. A tick of the scheduler, or a request, calls
`RunWorkflow`. It takes the busy lock, creates the run and calls the agents
analyst and portfolio one after the other. An agent may ask a human; then the
run is suspended (`awaiting_agent_input`) and `ResumeAgent` takes it up later.
The portfolio agent returns proposals. The runner gates each one: rejected,
submitted at once, or parked with an approval row (`awaiting_approval`).
Approval requests and cancellations arrive at any time, do not take the busy
lock, and work on the same rows. Orders are mirrored in PostgreSQL and polled
until they are terminal.

What makes the components correct:

- lock: one workflow at a time; a dead holder does not block for good;
- runner, submission, approvals together: an order needs authority, is sent
  once, and the rows never claim more than Alpaca did; decisions are final;
  status and rows agree; a run always ends where somebody can act on it;
- strategies and scheduler: one active strategy; the cron that ticks is built
  from what clients were told; no job of an old schedule beside a new one;
  requests come back although they wait for running jobs;
- gate and cache: a proposal is judged in a state that contains what the run has
  already bought, so that orders in a row cannot pass the limits together;
- ledger: no fill is lost, doubled or stuck; a NAV is a total of one state;
- agents: a question waits for its answer, a graph ends once, a call comes back;
- settings: the table holds what clients were told, and runs obey `can_hold`;
- hub, search, schedule: a slow client holds nobody up, one fetch serves all, the
  best matches are shown, a strategy gets exactly the ticks it asks for.

## 2. What makes it hard

- **No transaction spans a handler.** Apart from `Decide`'s decision and
  `Activate`, every statement commits on its own and may fail, or take effect
  while the caller gets an error. Between any two statements another handler
  may run or the process may die. Nothing looks for unfinished work at start-up.
- **Three kinds of actor on the same rows**: the runner (one, because of the
  lock), any number of decisions, a cancellation.
- **An unreliable broker**: an order can be accepted and its reply lost, it can
  fill after the poll has ended, or be canceled after a part was filled.
- **Time**: the lock has a TTL, agent calls have timeouts and retries, and these
  do not fit together.
- **Waiting**: a reload of the scheduler waits for running workflows while it
  holds a mutex that requests need.
- **READ COMMITTED**: overlapping activations each see an older table; an edit
  saves what it read.
- **A cache between the gate and the broker** that pages of the web application
  fill as well, and an invalidation that cannot reach reads under way.
- **A runtime that works on when nobody waits**: one worker, requests in turn,
  work whose caller has timed out and repeated it.
- **Opposite lock orders** in the ledger.

Every hazard with its line, and the properties that would catch it, is in
`PROJECT.json` under "hazards".

## 3. Modules and the code they model

| Module | Models | State and actions |
|---|---|---|
| `WorkflowLock` | `lock.go` | `ttl` is the key, `age` how long each run goes on; SETNX, SETNX with a lost reply, DEL, failed DEL or dead process, time |
| `RunStore` | the rows of one run and the control state of its goroutines | no actions: variables, statuses, outcomes of statements (`Writes`, `Reads`) |
| `OrderSubmission` | `submit.go`, the callers' handling of its errors, `refreshRunStatus` | one action per call to Alpaca or PostgreSQL, for a submitter `s` at proposal `cur[s]` |
| `WorkflowRunner` | `runner.go` | one action per agent call or statement of `RunWorkflow` and `ResumeAgent`, both error branches included |
| `ApprovalService` | `approvals/service.go` | `Approve`, `Reject` (one transaction each), `CancelRun` in four statements |
| `TradingRun` | their composition, with Alpaca and crashes | `Next`, `Fairness`, and the properties |
| `OrderAuthority` | the abstract promise | authority is given or refused once; an order only under a granted one, once |
| `StrategyService` | `strategy/service.go`, `handlers_strategies.go` | one action per statement; row locks and READ COMMITTED as `LockedByOthers`, `snapshot`, `ActiveFor` |
| `Scheduler` | `scheduler.go`, composed with `StrategyService` | `Reload` in four steps under the mutex, ticks, jobs, restart |
| `RiskGate` | `risk/evaluate.go` | no state: what an order breaks in a given state, ratios in per cent by cross-multiplication |
| `BrokerCache` | `broker/cache.go` | two cached answers; a miss is `Fetch` (Alpaca answers) and `Got` (stored, later) |
| `TradingGate` | `RiskGate` and `BrokerCache` composed with the loop of `finishProposalsAndFills`, pages that read, and Alpaca's account | one action per read, verdict, submission, reply and poll; quantities and prices are integers |
| `Ledger` | `ledger.go`, `upsertNAV` of runner and approvals | one action per locking statement of `ApplyFillTx`, commit, rollback, deadlock; a NAV in up to four steps |
| `AgentRuntime` | `runtime/app/main.py`, `threads.py`, `checkpoint.py`, entry and end of `plan_loop.py` | thread states, the queue of the one worker, the request in work, the answer under way |
| `AgentsClient` | `agentsclient/client.go` and the runner's treatment of answers, composed with `AgentRuntime` | attempts, timeouts, repetitions, giving up, restarts of the runtime; a resume whose failure or result the rows do not get to say (`NotRecorded`) |
| `StreamHub` | `stream/hub.go`, `handlers_stream.go` | clock reading before the mutex, publication under it, channels with a capacity, SSE loop |
| `SymbolSearch` | `symbolsearch/client.go` | first look, write lock, second look, fetch, matching |
| `StrategySchedule` | `strategy/validate.go`, `schedule.go` | validation and the loop over the day's minutes |
| `Settings` | `handlers_settings.go`, `seed.go`, `loadCanHoldMap`, the engine's construction | edits in two steps, requests, restart, a run's read and its buys |
| `MCTradingRun`, `MCTradingGate`, `MCServices` | TLC instances | symmetry and view; an account with three small rules; the sum described in section 4 |
| `WorkflowLockProofs`, `OrderSafetyProofs`, `StatusProofs`, `SchedulerProofs`, `AgentsProofs`, `ServicesProofs`, `GateProofs` | theorems | section 7 |
| `SetSums` | lemmas | sums over finite sets, least numbers |

Conventions. A step is one call that another process can see; local computation
belongs to the step before it. `pc[s]` names the *next* call of goroutine `s`.
A statement has three outcomes, `ok`, `failed` and `lost` (it took effect, the
caller got an error); `Put` is the field afterwards. Errors that the code drops
(`_ = r.failRun(...)`) have the same outcomes and no branch. Requests that the
code refuses without changing anything are not steps. Variables called history
(`verdict`, `sent`, `version`, `acked`, `wrote`, `loadedVersion`) are not in the
code and guard nothing there; `version` also carries a bound. What an agent
returns, what the gate computes from marks and rules, and what a human decides
are choices. An expired lock is not composed with `TradingRun`, which assumes
one runner; `WorkflowLock` shows under which condition that is so (`InTime`).

Operators called "Mutant of ..." are deliberate errors used to show that a
property can fail; they occur in no specification.

## 4. Runs

| Run | Question | Result |
|---|---|---|
| `run_faults` | types, authority of every order, mirrors behind the broker and refinement of `OrderAuthority`, with every fault and one decision beside everything else | holds |
| `run_after` | with failing statements and a crash, when decisions begin after the runner: is a run called `executed` free of undecided rows in every state, is a proposal sent once, is a decision final? | holds |
| `run_serial` | handlers one after the other, three proposals: do status and rows agree in both directions, can a suspended run be resumed, are orphans cancelled, does a run come to rest, is an approval acted upon? | holds |
| `strategies` | one active strategy, jobs and cron, acknowledged changes, requests that return | holds |
| `gate` | two proposals in every combination, with a page that reads through the same cache: are a run's own fills counted, are the limits kept by orders in a row? | holds |
| `services` | the seven parts that share no state with a run's rows: busy lock (exclusion, a key that outlives its run, a lost key freed, when runs are shorter than the TTL), agent calls, hub, search, schedule, books, settings | holds |
| `lock_long_runs`, `cancel_race`, `decisions_race`, `resume_lost`, `gate_stale`, `edited_rule` | one documented promise each | violated, section 8 |

`run_after` and `run_serial` deliberately allow less than `run_faults`: their
status properties are about columns which the code writes without transactions,
so with arbitrary overlaps or failing statements they do not hold (section 8
shows the ways). The configurations say what is left out: `Overlap` lists which
handlers may overlap, `Faults` what may go wrong. `AtMostOneSubmission` and
`DecisionsAreFinal` are proved for every number of decisions and every overlap;
`run_after` is where a dropped status check shows.

With failing statements these weaker points are known and not repeated as
findings: a run whose failing write is that of its own final
status is not failed (`setRunStatus` assigns memory first); an approval whose
proposal could not be parked stays pending and cannot be decided.

Three more consequences follow from the code without a search, and can be seen
by stating them as an invariant of an instance that exists: a read that fails
after an accepted order makes the run `failed` with a live order (in `run_faults`:
`status = "failed"` and an order that is open); an accepted order whose reply is lost
becomes `rejected`; and an edit of the active strategy that overlaps another
activation leaves two active ones (`strategies` with `WritesOverlap = TRUE`,
`ExactlyOneActive`). `POST /settings/watchlist` with `can_hold: false` stores
`true`, since the column has a default and gorm takes a false field for a missing
one; the answer says `true`, and `Settings!AddSymbol` does so.

`services` is a sum: `part` is chosen in the initial state and only that part
moves. A behaviour of the sum is a behaviour of one part with the other variables
constant, and the parts share neither variables nor constants except the names
`Symbols` and `Price`, so the run checks each part exactly as a run of its own
would. An invariant of one part holds in its initial states when another is
chosen, which is checked as well.

`CHECK_DEADLOCK FALSE` stands in the `TradingRun` configurations because a run
really ends: an executed run with nothing undecided has no next step; likewise
in `gate` (a run at its end), `services` (a schedule that is built, fills that
are done, a hub whose bounded clock has run out), `resume_lost` and `edited_rule`. In
`strategies` and `lock_long_runs` deadlock is checked.

## 5. Bounds and why they are enough

- `services`, lock: one tick is 60 s, TTL 30. 24 ticks are one attempt of each
  agent (10 + 8) and six minutes for reads and polls; three callers, so that one
  can take the lock another has lost while a third waits. `lock_long_runs`: 54
  ticks, three attempts each, as shipped.
- `MaxProposals` 2, in `run_serial` 3: one proposal that is submitted or filled
  beside one that waits is what every property distinguishes; the third covers a
  loop that goes on after both. `OrdersAreSentOnce` and the other theorems hold
  for any number.
- `Deciders` 1 or 2: two requests suffice for a race on one approval and for two
  refreshes to overlap; the theorems hold for any set.
- `gate`: 8 in cash and two shares, rules of 4 per order, 30 % cash, 50 % per
  name: the first order may use up what the second needs, in cash, in one name,
  or free it by a sale; one symbol has no broker price and an estimate that is
  missing or wrong. Two proposals are the least for one to be judged after
  another's fill, three add the same step again. One page suffices to fill
  either cache at any point; `ViewerFetches` may repeat.
- `services`, agents: two threads, so that work abandoned by one run is still
  queued when the next calls; `MaxRetries` 2 as shipped, one restart,
  two resumes whose end is not recorded (`MaxLosses`): one for each thread, or a
  second one after a first. `resume_lost` needs one of each. Hub: two
  publishers that can overtake each other, capacity 2, three clock steps with a
  throttle of two. Search: three callers, one fetching and two queued; a limit of 2
  under three prefix hits and a name hit. Schedule: every corner of the
  validation; the day's 1440 minutes are not scaled. Books: two fills of every
  kind on a held and a new symbol, two NAV calls, cash for one order but not for
  two. Settings: two symbols, one of the environment, one deletion and addition
  beyond it, one edit at a time (the theorem covers any number).
- `MaxCrashes` 1: after a crash every goroutine is gone and only rows remain, so
  a second crash adds interleavings of the same two things.
- `MaxStrategies` 3, two requests, `MaxChanges` 2: the default, the one that is
  activated and a third for the competing activation. Two changes are the least
  for an older one to be overtaken.
- `Jobs` 1 slot: the wait of `Reload` is for "all jobs", one running job decides
  it.
- `SYMMETRY` permutes decision requests, which differ by name only; it is used
  in runs without liveness. `VIEW LiveState` leaves out locals of goroutines that
  have returned; every action assigns them before it reads them.

## 6. Fairness

- `WorkflowLock`: weak fairness of `TimePasses` and of `Release` (deferred,
  so it runs when the run ends, and a run ends because every call it makes is
  given a timeout). A dead process is `AbandonLock`, which is not fair.
- `TradingRun`: weak fairness of each goroutine's next step. Agent calls have
  timeouts, the poll loop has a deadline. That PostgreSQL and Alpaca answer or
  fail is an assumption: `broker/alpaca.go:38` uses a client without a timeout,
  so a scheduled run with a background context could hang there. Nothing is
  assumed of humans, of fills, or of crashes.
- `AgentsClient`: weak fairness of the client's step. Every attempt has a timeout,
  so a waiting client always has one. Nothing is assumed of the runtime.
- `StreamHub`: weak fairness of a publisher between the clock and its return; the
  mutex is held for one step only. Clients need not read.
- `Ledger`: weak fairness of a fill's next statement and of PostgreSQL's deadlock
  detection, which fails a victim after `deadlock_timeout`. A statement that waits for a lock is not
  enabled, so this asks nothing of it.
- `Scheduler`: strong fairness of the steps of a request and of `Reload`,
  because what they wait for (Go's mutex, PostgreSQL's row locks) is granted in
  turn, and weak fairness of the end of a job. Ticks, restarts and new requests
  are not fair.

## 7. Proofs

Every invariant and every action property of the passing runs is also a theorem.
The theorems hold for every value of the constants that satisfies the named
assumptions (sets of proposals, requests, strategies, symbols, listings of any
size; any modes, faults and overlaps but those a theorem excludes by name).

| Theorem | States | Provided that |
|---|---|---|
| `WorkflowLockProofs!LockHoldsInTime` | `MutualExclusion`, `KeyCoversRun` | no run has gone on past its key's TTL so far (`[]InTime`) |
| `WorkflowLockProofs!LockExcludes` | `MutualExclusion` | `RunFitsLock` (`MaxRun < TTL`) |
| `WorkflowLockProofs!KeyOutlivesRun` | `KeyCoversRun` | `RunFitsLock` |
| `OrderSafetyProofs!OrdersAreSentOnce` | `AtMostOneSubmission` | |
| `OrderSafetyProofs!OrdersAreAuthorised` | `SubmissionAuthorised` | |
| `OrderSafetyProofs!RowsFollowBroker` | `MirrorFollowsBroker` | |
| `OrderSafetyProofs!DecisionsStand` | `DecisionsAreFinal` | |
| `OrderSafetyProofs!RunKeepsPromise` | `ImplementsAuthority` | |
| `StatusProofs!ExecutedIsFinal` | `ExecutedMeansNothingAwaits` | decisions begin after the runner |
| `StatusProofs!FailedRunsLeaveNoOrphans` | `NoOrphansAfterFill` | no statement fails |
| `StatusProofs!AwaitedInputCanBeGiven` | `AwaitingInputIsResumable` | no statement fails, no crash |
| `StatusProofs!FillsAreKept` | `FilledIsKept` | cancellations find nobody at work |
| `StatusProofs!CancelledRunsDoNotTrade` | `CancelledNeverTrades` | cancellations find nobody at work |
| `StatusProofs!UndecidedIsShown` | `UndecidedShows`, a part of `StatusMatchesRows` | decisions begin after the runner, no statement fails, no crash |
| `StatusProofs!StatusAgreesWithRows` | `StatusMatchesRows` | `OneAtATime` |
| `SchedulerProofs!OneStrategyIsActive` | `ExactlyOneActive` | `~WritesOverlap` |
| `SchedulerProofs!JobsKeepTheirCron` | `JobsBelongToCron` | |
| `SchedulerProofs!AcknowledgedChangesTick` | `AcknowledgedIsEffective` | `~WritesOverlap` |
| `AgentsProofs!GraphsEndOnce` | `CompletedOnce` | |
| `AgentsProofs!WaitingRunsCanResume` | `WaitingIsResumable` | in the property: not for `unrecorded` threads |
| `AgentsProofs!ResumesAreNotRefused` | `ResumeIsNotRefused` | in the property: not for `unrecorded` threads |
| `GateProofs!RunsSeeTheirFills` | `OwnFillsSeenAlone` | |
| `GateProofs!TradesKeepTheLimits` | `LimitsKept` | `Limited`: an account worth something, orders for something |
| `ServicesProofs!BooksAreKept` | `BooksMatchOrders` | |
| `ServicesProofs!NavCountsEverything` | `NavIsWhole` | |
| `ServicesProofs!SettingsAnswersAreKept` | `AnswersAreKept`, any number of overlapping edits | |
| `ServicesProofs!OnlyHoldableIsBought` | `NotHoldableIsNotBought` | |
| `ServicesProofs!RunsAreSpaced` | `RunsSpaced` | |
| `ServicesProofs!JobsAreWhatIsAsked` | `JobsAreAsked` | |
| `ServicesProofs!FetchesAreSingle` | `OneFetch` | |
| `ServicesProofs!BestMatchesAreShown` | `BestMatches` | |
| `ServicesProofs!QuotesAreSpaced` | `QuoteSpacing` | |

The types: `LockTypeCorrect`, `TypeCorrect`, `SchedulerTypeCorrect`,
`AgentsTypeCorrect`, `GateTypeCorrect`, and for the parts of `services`
`SettingsTypeCorrect`, `ScheduleTypeCorrect`, `SearchTypeCorrect`,
`HubTypeCorrect`, `LedgerTypeCorrect`, which with the lock's and the agents' make
`ServicesTypeCorrect`; none has a proviso.

**Assumptions on constants.** Besides kinds (a number is a number), the proofs
use that requests, symbols and fills are finitely many, that a control value is
not a request (`Runner`, `Startup`, `Free`), that the watchlist may have a row
(`MaxRows` at least 1), and that Alpaca lists a symbol once, which is what an
asset list is and without which `sort.SliceStable` would have ties to keep.

**Lock.** Mutual exclusion is not inductive: a state with one runner and no key
satisfies it and the next SETNX breaks it. `LockInv` adds that the key's TTL and
the run's age sum to the TTL while a run goes on, so the key cannot be missing;
`KeyOutlivesRun` follows from the same sum. `LockHoldsInTime` says how far this
goes with the shipped timeouts: it bounds no run, and excuses only behaviours in
which some run has gone on for the TTL. `LockExcludes` is its corollary for
`MaxRun < TTL` (`FittingRunsAreInTime`), which the shipped numbers do not satisfy
(`lock_long_runs`).

**Orders.** `OrderInv` has five parts besides types. `GateInv`: the gate judges
proposals upwards and a run cannot start its loop again, since a run that can be
started or resumed has no verdicts. `ApprovalInv`: what verdict, approval and
number of submissions of one proposal allow of each other. `SubmitterInv`: who is
inside `SubmitProposal` may be, and is alone with its proposal; before it sends,
nothing was sent. This is the heart: an approval leaves `pending` when a decision
enters, and the runner is at a proposal without an approval, so no two can meet.
`FollowInv`: what the rows say at each point of the polling. `MirrorFollowsBroker`
is part of the invariant. The proof goes action by action; steps that touch
neither orders nor approvals are dealt with in groups.

**Refinement.** `authority` is computed from verdict and approval, `placed` from
the order at Alpaca and the number of submissions. With `OrderInv`, a gate step
that lets through, or an approval, is `Grant`; a gate step that refuses, or a
rejection, is `Deny`; a cancellation is `DenyAll`; a submission, accepted or
not, is `Place`; an end at Alpaca is `Settle`; everything else stutters.

**Status.** Seven properties of a run's status, each on top of `OrderInv` with an
invariant of its own and the weakest proviso found; each proviso excludes a
behaviour that breaks the property.

- `executed` (`ExecutedInv`): the runner knows, in `pendingApprovals`, of
  everything it has parked (`LoopInv`), and a count of a decision that has found
  nothing is still right when its status is written (`CountInv`), because nothing
  begins to wait once the runner is done. A decision that begins while the runner
  is in its loop counts too early and writes `executed` before the next proposal
  is parked.
- Orphans (`OrphanInv`): after a fill of its own the runner does not fail the
  run, but only if no statement of its loop fails; an insertion that fails after a
  fill makes the run `failed` and leaves proposals `pending_auto`.
- Input (`InputInv`): the run's status is moved on by `ResumeAgent` after the step
  is completed, so a statement that fails there, or a crash, leaves
  `awaiting_agent_input` without an interrupted step.
- Fills kept, cancelled runs (`CancelInv`, `UnfilledInv`): a cancellation that
  begins while nobody works finds all that awaits approval and leaves nothing to
  approve. With a decision under way it overwrites what that fills: `cancel_race`.
- Status and rows (`RowsInv`): approval and proposal wait together but for the
  one request between the two (`PairInv`), and who says that something is
  undecided can point to it (`PointInv`). The second needs one decision at a time,
  as `decisions_race` shows.
- The other direction (`ShowInv`): the runner stops with undecided approvals only
  in `Finish`, which knows of them, in `failRun`, which is not reached after a
  fill, or after the count that follows one; for this its status in memory must
  be the name of an agent as long as it is in its loop. After that nothing
  undecided is added, a decision that writes `executed` has counted nothing, and a
  cancellation knows of all there is (`CancelShows`). This one allows any number
  of overlapping decisions and cancellations.

**Strategies.** `OneInv` says who holds the active row: a transaction that has
deactivated it has it locked, no two transactions have written one row
(`LockInv`), and one about to commit sees exactly one active row. Then of two
overlapping activations only one can reach its commit (`CommitsAlone`).
`WriterInv` needs the proviso that edits and deletions do not overlap other
requests (`~WritesOverlap`); `strategies` with `WritesOverlap = TRUE` shows why.
`AckInv` relates mutex, versions read and versions acknowledged. The types need
no proviso, but their bounds need `BoundInv`: every request that may still change
something has its change number reserved (`ChangeInv`), and the row an activation
is about to turn on is locked, so nobody deletes it (`RowInv`).

**Agents.** That a resume is not refused depends on every request the client has
given up. `AgentInv` adds `LiveInv` (only the newest request has a caller that
waits, and one run calls at a time), `ReplyInv` (an answer is the end of a
request, so nothing is queued or worked on behind it), `ResumeInv` (until a
resume is answered its thread waits, and only that resume is under way for it)
and `EndsInv` (a thread is done exactly if its graph has ended once). The proviso
is in the properties: `unrecorded` are the threads whose run waits only because
the end of its last resume did not reach the rows, be it that its caller went away
and took the context of the writes along, that the API's process died, or that a
write failed; a new question on record clears it. For these threads nothing holds
(`resume_lost`): the code has no way to tell.

**Gate.** `GateInv` says, while no page has an excuse, that nothing cached, on its
way or used by the gate is older than the last fill a poll has seen
(`FreshInv`), and why that survives the poll: when an order is sent no answer is on
its way, and the reply empties the cache (`EmptyInv`), so the poll that sees a
fill finds no answer at all. Dropping either half gives `gate_stale`. `LimitsInv`
turns freshness into amounts: without excuses, what the gate judges in *is* the
account at true prices (`CurrentInv`), equity is constant since a fill at a fixed
price changes cash into shares of the same worth, and the account is within the
limits with and without what has been let through and not yet traded
(`KeptInv`). `Limited` is needed because the shares of a limit are computed only
for an account with positive equity, and an order for nothing may pass with cash
already under the limit.

**Ledger.** `LedgerInv` says that what a fill has read under a lock is still so
while it holds the lock (`CashKnown`, `PositionKnown`), that a fill in the books
has its order (`AskedInv`), and that cash and the worth of all positions at fixed
prices sum to what there was at the start (`FortuneInv`), so that a NAV whose
reads fall between no commit has a total to be equal to.

**Settings.** `SettingsInv` adds `MapInv` to `AnswersAreKept`: what the run's map
holds was answered `hold` when it was loaded, or came from the environment and
was never answered otherwise. **Schedule.** `SpacingInv` keeps every job made so
far a step behind the loop's minute, and the step at 15 or more. `JobsInv` says
that the intraday jobs made are the minutes asked for before the loop's: the next
minute asked for is a step further, since both are the start plus a multiple of
the step. **Search.** `WriteLockInv`: whoever looks again or fetches is the
writer. The stable sort is counting: the place of a match is the number of matches
ahead of it, a strict total order puts exactly one at each place, and the cut
keeps the first. **Stream hub.** `HubInv` adds to `QuoteSpacing` that the reading
of a symbol's last publication is the greatest any client has been shown or will
be (`LastInv`), so the throttle's comparison with it is one with all of them.

**Sums.** `SetSums` proves the laws of the community modules' sums over a finite
set (an element may be taken out first, a sum changes by what one summand changes
by, zeros may be left out) from a smallest subset that would violate the law: this takes the
well-foundedness of strict inclusion, but no induction theorem, whose operator
parameter the provers cannot instantiate.

Only model-checked: liveness under fairness (`LockIsReleased`, `RunComesToRest`,
`ApprovedIsHandled`, `RequestsReturn`, `CallReturns`, `PublishReturns`,
`FillsEnd`), which TLAPS does not prove, as it does not reason about `ENABLED`;
and the counterexamples of section 8. The provisos above mark what is neither
proved nor true: for each of them TLC, on an instance with that one alone dropped,
finds a behaviour that violates the property.

## 8. What the runs found

Each is one violation run, and an entry under "findings" with the quoted line.

1. `lock_long_runs`: the busy key expires (30 min) under a run that may take 54,
   a second workflow starts, and the first one's unlock deletes the second's key.
2. `cancel_race`: a cancellation turns a filled proposal into a cancelled one.
3. `decisions_race`: two refreshes leave a run `awaiting_approval` with nothing
   left to decide.
4. `resume_lost`: a browser that goes away while the runtime works on its answer
   ends the context under which the failure would be noted; the run goes on waiting
   for a human, the runtime finishes the thread, and the next answer is refused. The
   same when the answer arrives and storing it fails.
5. `gate_stale`: a page that reads the account while an order is under way leaves
   the answer from before the fill in the cache, and the next proposal of the run
   is judged without the fill.
6. `edited_rule`: an edited risk rule is stored and listed, but the running engine
   was built from the environment, and the next start overwrites the stored value.

Section 4 lists further consequences that follow directly from the code.

## 9. What is not modelled

- **Plan loop** (`graphs/plan_loop.py`): what a round plans and which tools it
  calls is the language model's choice; `AgentRuntime` has the loop as a graph
  that asks a question, ends or fails. The common library of the agents (prompts,
  tool clients) and the legacy agents, which the chain does not call, likewise.
- **Agent snapshot** (`workflow/agent_snapshot.go`): read-only formatting for
  prompts; its effect on the cache is that of any other reader in `TradingGate`.
- **Gate**: partial fills; prices that move during a run; portfolio state from
  the database when there is no broker; advisory texts; `MaxDrawdown`, which no
  rule evaluates. The code divides floats where the model compares integers.
- **TradingRun**: quantities and prices (verdict and terminal status are choices
  there; `TradingGate`, `Ledger` and `Settings` compute what they come from).
  Several runs at once share nothing there but the lock, Alpaca's account and the
  NAV row, so one run is modelled.
- **HTTP**: routing, JSON and authentication (stateless); the handlers that change
  state are actions of the module of their service. The web application and
  its polling, contracts and deployment.
- Contents of prompts, envelopes and reasons; wording; logging.

## 10. How the project is ordered and what could come next

The order follows what can lose money: first who may trade (lock, run store,
submission, runner, approvals, their composition and its abstract promise), then
what starts a run (strategies, scheduler, schedule arithmetic), what a run asks
(agents client and runtime threads), what it decides by (risk gate, broker cache,
settings), what it leaves behind (ledger, NAV) and what watches it (stream hub,
symbol search).

What could come next:

1. The inside of the plan loop, with rounds, limits and the replay of a node after
   a checkpoint, under arbitrary answers of the language model: it ends within its
   rounds, every tool call has one answer.
2. The polling hooks of the web application, composed with `StreamHub`.
3. Further abstract specifications: of the scheduler (a cron that follows what was
   acknowledged), and of the ledger (atomic fills and NAVs).
