---------------------------- MODULE StatusProofs ----------------------------
(***************************************************************************)
(* Why the status of a run says what its rows say (TradingRun): that       *)
(* executed means that nobody is waited for, that a failed run leaves no   *)
(* orphans after a fill, that a run waiting for input can be resumed, that *)
(* what was filled stays filled, and that a cancelled run does not trade.  *)
(*                                                                         *)
(* Each holds under the overlaps and faults its theorem names, for every   *)
(* number of proposals and every choice of the other constants.            *)
(***************************************************************************)
EXTENDS OrderSafetyProofs

----------------------------------------------------------------------------
(* The invariants *)

\* The runner in its loop over the proposals, up to the final status.
InLoop == Judged \cup {"gate", "finish"}

\* Only a proposal over a rule comes to wait for a human.
BreachInv ==
  /\ \A p \in Proposals : proposal[p] = "awaiting_approval" => verdict[p] = "breach"
  /\ pc[Runner] = "await" => verdict[cur[Runner]] = "breach"
  /\ NothingJudged => ~pendingApprovals

\* Decisions have the run to themselves: the runner is done, and it does not
\* begin again.
DeciderInv ==
  \A d \in Deciders : pc[d] # "idle" => pc[Runner] = "idle" /\ ~NothingJudged

\* What the runner has not noted in pendingApprovals is at most the proposal
\* it is parking.
LoopInv ==
  pc[Runner] \in InLoop /\ ~pendingApprovals =>
    \A p \in Proposals :
      approval[p] = "pending" \/ proposal[p] = "awaiting_approval"
        => pc[Runner] = "await" /\ p = cur[Runner]

\* A count that has found nothing so far is still right.
CountInv ==
  \A d \in Deciders :
    /\ pc[d] = "count_proposals" /\ ~seen[d] => ~SomePending
    /\ pc[d] = "write_status" /\ ~seen[d] => ~SomePending /\ ~SomeAwaiting

ExecutedInv ==
  /\ DeciderInv
  /\ LoopInv
  /\ CountInv
  /\ pc[Runner] \in Early \cup InLoop => runStatus # "executed"
  /\ ExecutedMeansNothingAwaits

\* The runner knows of its fills, and fails a run without any.
OrphanInv ==
  /\ RunnerFilled => anyFill
  /\ pc[Runner] = "fail" => ~RunnerFilled
  /\ pc[Runner] \in CountPcs => \A p \in Proposals : proposal[p] # "pending_auto"
  /\ Working => runStatus # "failed"
  /\ NoOrphansAfterFill

\* While a run waits for input a question is on record, or the runner is
\* about to move the run on.
InputInv ==
  /\ pc[Runner] = "suspend" => step[agent] = "interrupted"
  /\ runStatus = "awaiting_agent_input" =>
       \/ \E a \in Agents : step[a] = "interrupted"
       \/ pc[Runner] \in {"resume_status", "fail"}

AllIdle == \A s \in Submitters : pc[s] = "idle"

\* A cancellation has the run to itself, finds all that awaits approval, and
\* leaves nothing that could be approved.
CancelInv ==
  /\ cancelPc # "idle" => AllIdle /\ runStatus = "awaiting_approval"
  /\ cancelPc = "proposals" =>
       cancelIds = {p \in Proposals : proposal[p] = "awaiting_approval"}
  /\ cancelPc \in {"approvals", "run"} => ~SomeAwaiting
  /\ runStatus = "cancelled" => AllIdle /\ ~SomeAwaiting

\* What is about to be parked or refused was not filled.
UnfilledInv ==
  /\ pc[Runner] = "await" =>
       approval[cur[Runner]] = "pending" /\ proposal[cur[Runner]] # "awaiting_approval"
  /\ \A s \in Submitters : pc[s] = "refuse" => order[cur[s]] = "none"

\* Approval and proposal wait together, but for the request or the runner that
\* is between writing the one and the other.
PairInv ==
  \A p \in Proposals :
    /\ approval[p] = "pending" =>
         \/ proposal[p] = "awaiting_approval"
         \/ pc[Runner] = "await" /\ cur[Runner] = p
         \/ cancelPc = "approvals" /\ p \in cancelIds
    /\ proposal[p] = "awaiting_approval" =>
         \/ approval[p] = "pending"
         \/ \E d \in Deciders :
              cur[d] = p /\ pc[d] \in {"submit", "mirror", "mark", "refuse"}

\* Who says that something is undecided can point to it.
PointInv ==
  /\ pc[Runner] \in InLoop /\ pendingApprovals => SomeDecidable
  /\ \A s \in Submitters :
       pc[s] \in {"count_proposals", "write_status"} /\ seen[s] => SomeDecidable
  /\ runStatus = "awaiting_approval" =>
       \/ SomeDecidable
       \/ \E d \in Deciders : pc[d] # "idle"
       \/ cancelPc \in {"approvals", "run"}

RowsInv ==
  /\ PairInv
  /\ PointInv
  /\ Working => runStatus \notin {"awaiting_approval", "executed", "cancelled"}
  /\ runStatus = "cancelled" => ~SomePending

----------------------------------------------------------------------------
(* What the steps leave alone *)

\* The runner moves.
RunnerActs == StartRun \/ (\E a \in Agents : BeginResume(a)) \/ RunnerStep

\* Nothing begins to wait for a human.
Shrinks ==
  \A p \in Proposals :
    /\ approval'[p] = "pending" => approval[p] = "pending"
    /\ proposal'[p] = "awaiting_approval" => proposal[p] = "awaiting_approval"

\* The gate judges a proposal.
GateJudges == GateRejects \/ GateSkips \/ GateAllows \/ GateAsks

RunnerFrame ==
  /\ \A d \in Deciders : pc'[d] = pc[d] /\ cur'[d] = cur[d]
  /\ UNCHANGED <<seen, order, alpaca, sent, cancelPc, cancelIds>>

LEMMA GotoFrames ==
  ASSUME TypeOK, NEW there, Goto(Runner, there)
  PROVE  \A d \in Deciders : pc'[d] = pc[d]
BY RunnerIsNoDecider, DeciderSubmits DEF Goto, TypeOK

LEMMA AdvanceFrames ==
  ASSUME TypeOK, Advance
  PROVE  \A d \in Deciders : pc'[d] = pc[d] /\ cur'[d] = cur[d]
BY RunnerIsNoDecider, DeciderSubmits DEF Advance, TypeOK

LEMMA RunnerFrames ==
  ASSUME TypeOK, RunnerActs
  PROVE  RunnerFrame
<1> USE GotoFrames, AdvanceFrames
    DEF RunnerFrame, Fails, NextAgent, tables, runnerVars, cancelVars, history
<1>1. CASE StartRun
  BY <1>1 DEF StartRun
<1>2. CASE \E a \in Agents : BeginResume(a)
  BY <1>2 DEF BeginResume
<1>3. CASE Prelude \/ BeginStep \/ AgentAnswers \/ AgentInterrupts
           \/ AgentFails \/ Suspend
  BY <1>3 DEF Prelude, BeginStep, AgentAnswers, AgentInterrupts, AgentFails,
              Suspend
<1>4. CASE \/ ResumeAnswers \/ ResumeInterrupts \/ ResumeFails \/ ResumeStatus
           \/ ResumePrelude
  BY <1>4 DEF ResumeAnswers, ResumeInterrupts, ResumeFails, ResumeStatus,
              ResumePrelude
<1>5. CASE InsertProposals \/ InvalidPortfolio \/ GateFails
  BY <1>5 DEF InsertProposals, InvalidPortfolio, GateFails
<1>6. CASE Prepare
  BY <1>6, RunnerIsNoDecider, DeciderSubmits DEF Prepare, TypeOK
<1>7. CASE GateJudges
  BY <1>7 DEF GateJudges, GateRejects, GateSkips, GateAllows, GateAsks
<1>8. CASE \/ ParkProposal \/ RefreshState \/ Finish \/ FailRun
           \/ CancelOrphans
  BY <1>8 DEF ParkProposal, RefreshState, Finish, FailRun, CancelOrphans
<1> QED
  BY <1>1, <1>2, <1>3, <1>4, <1>5, <1>6, <1>7, <1>8
  DEF RunnerActs, RunnerStep, GateJudges

\* A submitter: its own proposal may change, and what it counted.
SubmitFrame(s) ==
  /\ pc[s] \in SubmitPcs \cup CountPcs
  /\ \A t \in Submitters : t # s =>
       pc'[t] = pc[t] /\ cur'[t] = cur[t] /\ seen'[t] = seen[t]
  /\ s # Runner => cur'[s] = cur[s]
  /\ \A p \in Proposals : p # cur[s] => proposal'[p] = proposal[p]
  /\ \A p \in Proposals :
       proposal'[p] \in {proposal[p], "submitted", "filled", "rejected"}
  /\ UNCHANGED <<step, approval, verdict, mode, agent, count, memStatus,
                 pendingApprovals, cancelPc, cancelIds>>

LEMMA SubmitFrames ==
  ASSUME TypeOK, NEW s \in Submitters, SubmitStep(s) \/ CountStep(s)
  PROVE  SubmitFrame(s)
<1>1. /\ pc[s] \in SubmitPcs \cup CountPcs
      /\ UNCHANGED <<step, approval, verdict, mode, agent, count, memStatus,
                     pendingApprovals, cancelPc, cancelIds>>
  BY DEF SubmitStep, SubmitAccepted, SubmitFailed, MirrorOrder, MarkSubmitted,
         SettleOrder, SettleProposal, PollTimeout, PollError, RejectUnsubmitted,
         CountStep, CountApprovals, CountProposals, WriteStatus, SubmitPcs,
         CountPcs, tables, runnerVars, cancelVars, history
<1>2. /\ \A p \in Proposals : p # cur[s] => proposal'[p] = proposal[p]
      /\ \A p \in Proposals :
           proposal'[p] \in {proposal[p], "submitted", "filled", "rejected"}
  BY DEF SubmitStep, SubmitAccepted, SubmitFailed, MirrorOrder, MarkSubmitted,
         SettleOrder, SettleProposal, PollTimeout, PollError, RejectUnsubmitted,
         CountStep, CountApprovals, CountProposals, WriteStatus, TypeOK, Put,
         tables
<1>3. \A t \in Submitters : t # s => pc'[t] = pc[t] /\ seen'[t] = seen[t]
  BY DEF SubmitStep, SubmitAccepted, SubmitFailed, MirrorOrder, MarkSubmitted,
         SettleOrder, SettleProposal, PollTimeout, PollError, RejectUnsubmitted,
         CountStep, CountApprovals, CountProposals, WriteStatus, TypeOK, Goto,
         Advance
<1>4. /\ \A t \in Submitters : t # s => cur'[t] = cur[t]
      /\ s # Runner => cur'[s] = cur[s]
  BY DEF SubmitStep, SubmitAccepted, SubmitFailed, MirrorOrder, MarkSubmitted,
         SettleOrder, SettleProposal, PollTimeout, PollError, RejectUnsubmitted,
         CountStep, CountApprovals, CountProposals, WriteStatus, TypeOK, Advance
<1> QED
  BY <1>1, <1>2, <1>3, <1>4 DEF SubmitFrame

LEMMA SubmitShrinks ==
  ASSUME NEW s, SubmitFrame(s)
  PROVE  Shrinks
BY DEF SubmitFrame, Shrinks

\* Everybody but the runner and the submitters.
Requests ==
  \/ \E d \in Deciders, p \in Proposals : Approve(d, p) \/ Reject(d, p)
  \/ BeginCancel
  \/ CancelStep
  \/ \E p \in Proposals : AlpacaSettles(p)
  \/ Crash
  \/ UNCHANGED vars

RequestFrame ==
  /\ UNCHANGED <<step, verdict, sent, seen, order, mode, agent, count,
                 memStatus, pendingApprovals, anyFill>>
  /\ \A p \in Proposals :
       proposal'[p] \in {proposal[p], "rejected", "cancelled"}
  /\ runStatus' \in {runStatus, "cancelled"}
  /\ pc'[Runner] \in {pc[Runner], "idle"}
  /\ cur'[Runner] = cur[Runner]

LEMMA RequestFrames ==
  ASSUME TypeOK, Requests
  PROVE  RequestFrame /\ Shrinks
<1> USE DEF RequestFrame, Shrinks, Put, tables, runnerVars, cancelVars, history
<1>1. ASSUME NEW d \in Deciders, NEW p \in Proposals,
             Approve(d, p) \/ Reject(d, p)
      PROVE  RequestFrame /\ Shrinks
  <2>1. pc'[Runner] = pc[Runner] /\ cur'[Runner] = cur[Runner]
    BY <1>1, RunnerIsNoDecider, DeciderSubmits
       DEF Approve, Reject, TypeOK, Goto
  <2>2. \A q \in Proposals :
          /\ proposal'[q] \in {proposal[q], "rejected", "cancelled"}
          /\ approval'[q] = "pending" => approval[q] = "pending"
    BY <1>1 DEF Approve, Reject, TypeOK
  <2> QED
    BY <1>1, <2>1, <2>2 DEF Approve, Reject
<1>2. CASE BeginCancel
  BY <1>2 DEF BeginCancel
<1>3. CASE CancelStep
  BY <1>3 DEF CancelStep, PluckProposals, CancelProposals, CancelApprovals,
              CancelRunRow
<1>4. ASSUME NEW p \in Proposals, AlpacaSettles(p)
      PROVE  RequestFrame /\ Shrinks
  BY <1>4 DEF AlpacaSettles
<1>5. CASE Crash
  BY <1>5 DEF Crash, Submitters
<1>6. CASE UNCHANGED vars
  BY <1>6 DEF vars
<1> QED
  BY <1>1, <1>2, <1>3, <1>4, <1>5, <1>6 DEF Requests

\* One of the three makes every step.
LEMMA WhoMoves ==
  ASSUME [Next]_vars
  PROVE  \/ RunnerActs
         \/ \E s \in Submitters : SubmitStep(s) \/ CountStep(s)
         \/ Requests
BY DEF Next, RunnerActs, Requests

\* Where a submitter's step takes it.
SubmitGoes == SubmitPcs \cup CountPcs \cup
              {"idle", "next", "gate", "finish", "fail", "orphans"}

LEMMA SubmitLands ==
  ASSUME TypeOK, NEW s \in Submitters, SubmitStep(s) \/ CountStep(s)
  PROVE  /\ pc'[s] \in SubmitGoes
         /\ s # Runner => pc'[s] \in SubmitTargets
<1> USE SubmitterGoesOn, OnErrorType DEF SubmitGoes, SubmitTargets
<1>1. CASE SubmitAccepted(s) \/ SubmitFailed(s)
  BY <1>1 DEF SubmitAccepted, SubmitFailed, SubmitPcs
<1>2. CASE MirrorOrder(s) \/ MarkSubmitted(s)
  BY <1>2 DEF MirrorOrder, MarkSubmitted, SubmitPcs, CountPcs, ReturnedError
<1>3. CASE SettleOrder(s) \/ SettleProposal(s)
  BY <1>3 DEF SettleOrder, SettleProposal, SubmitPcs, CountPcs, Returned,
              ReturnedError
<1>4. CASE PollTimeout(s) \/ PollError(s)
  BY <1>4 DEF PollTimeout, PollError, CountPcs, Returned, ReturnedError
<1>5. CASE RejectUnsubmitted(s)
  <2>1. CASE s = Runner /\ Advance
    BY <2>1 DEF Advance, TypeOK
  <2>2. CASE ~(s = Runner /\ Advance)
    BY <1>5, <2>2 DEF RejectUnsubmitted, CountPcs
  <2> QED
    BY <2>1, <2>2
<1>6. CASE CountStep(s)
  BY <1>6 DEF CountStep, CountApprovals, CountProposals, WriteStatus, CountPcs
<1> QED
  BY <1>1, <1>2, <1>3, <1>4, <1>5, <1>6 DEF SubmitStep

----------------------------------------------------------------------------
(* Only a breach waits for a human. *)

LEMMA BreachInit == Init => BreachInv
BY RunnerIsNoDecider DEF Init, BreachInv

\* Nothing is parked and the runner does not come to park.
LEMMA CalmKeepsBreach ==
  ASSUME BreachInv, UNCHANGED verdict, Shrinks,
         pendingApprovals' => pendingApprovals,
         pc'[Runner] = "await" => pc[Runner] = "await" /\ cur'[Runner] = cur[Runner]
  PROVE  BreachInv'
BY DEF BreachInv, Shrinks, NothingJudged

\* The runner at the steps before its loop and after it, and between proposals.
CalmRunner ==
  /\ UNCHANGED <<verdict, approval>>
  /\ Shrinks
  /\ pendingApprovals' => pendingApprovals
  /\ pc'[Runner] # "await"

LEMMA CalmSteps ==
  ASSUME TypeOK, RunnerActs, ~GateJudges, ~ParkProposal
  PROVE  CalmRunner
<1> USE RunnerGoes, OnErrorType
    DEF CalmRunner, Shrinks, Fails, NextAgent, Put, tables, runnerVars,
        cancelVars, history
<1>1. CASE StartRun
  BY <1>1 DEF StartRun
<1>2. CASE \E a \in Agents : BeginResume(a)
  BY <1>2 DEF BeginResume
<1>3. CASE Prelude \/ BeginStep \/ AgentAnswers \/ AgentInterrupts
           \/ AgentFails \/ Suspend
  BY <1>3 DEF Prelude, BeginStep, AgentAnswers, AgentInterrupts, AgentFails,
              Suspend
<1>4. CASE \/ ResumeAnswers \/ ResumeInterrupts \/ ResumeFails \/ ResumeStatus
           \/ ResumePrelude
  BY <1>4 DEF ResumeAnswers, ResumeInterrupts, ResumeFails, ResumeStatus,
              ResumePrelude
<1>5. CASE InsertProposals \/ InvalidPortfolio \/ GateFails
  BY <1>5 DEF InsertProposals, InvalidPortfolio, GateFails
<1>6. CASE Prepare \/ RefreshState
  BY <1>6 DEF Prepare, RefreshState, Advance, TypeOK, Submitters
<1>7. CASE Finish \/ FailRun \/ CancelOrphans
  BY <1>7 DEF Finish, FailRun, CancelOrphans
<1> QED
  BY <1>1, <1>2, <1>3, <1>4, <1>5, <1>6, <1>7
  DEF RunnerActs, RunnerStep, GateJudges

\* The gate gives a proposal that had none its verdict.
LEMMA GateGives ==
  ASSUME OrderInv, GateJudges
  PROVE  /\ cur[Runner] \in Proposals
         /\ verdict[cur[Runner]] = "none"
         /\ verdict'[cur[Runner]] # "none"
         /\ GateAsks => verdict'[cur[Runner]] = "breach"
         /\ \A q \in Proposals : q # cur[Runner] => verdict'[q] = verdict[q]
         /\ pc[Runner] = "gate"
         /\ ~NothingJudged'
         /\ UNCHANGED <<runStatus, step, mode, agent, count, memStatus,
                        pendingApprovals, anyFill>>
<1>1. /\ pc[Runner] = "gate"
      /\ UNCHANGED <<runStatus, step, mode, agent, count, memStatus,
                     pendingApprovals, anyFill>>
  BY DEF GateJudges, GateRejects, GateSkips, GateAllows, GateAsks, tables,
         runnerVars
<1>2. cur[Runner] \in Proposals /\ verdict[cur[Runner]] = "none"
  BY <1>1, Unjudged
<1>3. PICK v \in Verdicts \ {"none"} :
        /\ verdict' = [verdict EXCEPT ![cur[Runner]] = v]
        /\ GateAsks => v = "breach"
  BY Members
     DEF GateJudges, GateRejects, GateSkips, GateAllows, GateAsks, Verdicts
<1>4. /\ verdict'[cur[Runner]] = v
      /\ \A q \in Proposals : q # cur[Runner] => verdict'[q] = verdict[q]
  BY <1>2, <1>3 DEF OrderInv, TypeOK
<1> QED
  BY <1>1, <1>2, <1>3, <1>4 DEF NothingJudged

\* Where it goes then, and what it makes of proposal and approval.
LEMMA GateLands ==
  ASSUME TypeOK, GateJudges
  PROVE  /\ pc'[Runner] \in {"gate", "finish", "submit", "await", "idle", "fail",
                             "orphans"}
         /\ pc'[Runner] = "await" => GateAsks /\ UNCHANGED cur
         /\ \A p \in Proposals :
              /\ proposal'[p] \in {proposal[p], "rejected"}
              /\ p # cur[Runner] => /\ proposal'[p] = proposal[p]
                                    /\ approval'[p] = approval[p]
         /\ GateAsks => UNCHANGED proposal
         /\ ~GateAsks => UNCHANGED approval
<1> USE RunnerGoes, OnErrorType DEF GateJudges, Fails, Advance, TypeOK, Put,
        Submitters, tables
<1>1. CASE GateRejects
  <2>1. pc'[Runner] \in {"gate", "finish", "idle", "fail", "orphans"}
    BY <1>1 DEF GateRejects
  <2>2. \A p \in Proposals :
          /\ proposal'[p] \in {proposal[p], "rejected"}
          /\ p # cur[Runner] => proposal'[p] = proposal[p]
    BY <1>1 DEF GateRejects
  <2> QED
    BY <1>1, <2>1, <2>2 DEF GateRejects, GateAsks
<1>2. CASE GateSkips
  BY <1>2 DEF GateSkips
<1>3. CASE GateAllows
  BY <1>3 DEF GateAllows
<1>4. CASE GateAsks
  BY <1>4 DEF GateAsks
<1> QED
  BY <1>1, <1>2, <1>3, <1>4

LEMMA ParkFacts ==
  ASSUME OrderInv, ParkProposal
  PROVE  /\ pc[Runner] = "await"
         /\ cur[Runner] \in Proposals
         /\ UNCHANGED <<runStatus, step, approval, verdict, mode, agent, count,
                        memStatus, anyFill>>
         /\ pc'[Runner] \in {"gate", "finish", "idle", "fail", "orphans"}
         /\ proposal'[cur[Runner]] \in {proposal[cur[Runner]], "awaiting_approval"}
         /\ \A q \in Proposals : q # cur[Runner] => proposal'[q] = proposal[q]
         /\ pendingApprovals => pendingApprovals'
         /\ pc'[Runner] \in {"gate", "finish"} =>
              pendingApprovals' /\ proposal'[cur[Runner]] = "awaiting_approval"
<1>1. /\ pc[Runner] = "await"
      /\ TypeOK
      /\ UNCHANGED <<runStatus, step, approval, verdict, mode, agent, count,
                     memStatus, anyFill>>
  BY DEF ParkProposal, history, OrderInv
<1>2. cur[Runner] \in Proposals
  BY <1>1 DEF OrderInv, GateInv, Judged
<1>3. PICK w \in Writes :
        /\ proposal' = [proposal EXCEPT ![cur[Runner]] =
                          Put(w, "awaiting_approval", @)]
        /\ IF w = "ok" THEN Advance ELSE Fails /\ UNCHANGED cur
        /\ pendingApprovals' = (pendingApprovals \/ w = "ok")
  BY DEF ParkProposal
<1>4. /\ w = "ok" => pc'[Runner] \in {"gate", "finish"}
      /\ w # "ok" => pc'[Runner] \in {"idle", "fail", "orphans"}
  BY <1>1, <1>3, RunnerGoes, OnErrorType DEF Advance, Fails, TypeOK, Submitters
<1>5. /\ proposal'[cur[Runner]] \in {proposal[cur[Runner]], "awaiting_approval"}
      /\ w = "ok" => proposal'[cur[Runner]] = "awaiting_approval"
      /\ \A q \in Proposals : q # cur[Runner] => proposal'[q] = proposal[q]
  BY <1>1, <1>2, <1>3 DEF TypeOK, Put, Applied
<1>6. /\ pendingApprovals => pendingApprovals'
      /\ w = "ok" => pendingApprovals'
  BY <1>3
<1> QED
  BY <1>1, <1>2, <1>4, <1>5, <1>6

LEMMA BreachNext ==
  ASSUME OrderInv, BreachInv, [Next]_vars
  PROVE  BreachInv'
<1>0. TypeOK
  BY OrderInvParts
<1>1. ASSUME RunnerActs, ~GateJudges, ~ParkProposal
      PROVE  BreachInv'
  BY <1>0, <1>1, CalmSteps, CalmKeepsBreach DEF CalmRunner
<1>2. CASE GateJudges
  <2> USE <1>2, GateGives
  <2>1. \A p \in Proposals :
          proposal'[p] = "awaiting_approval" => verdict'[p] = "breach"
    BY <1>0, GateLands DEF BreachInv
  <2>2. pc'[Runner] = "await" => verdict'[cur'[Runner]] = "breach"
    BY <1>0, GateLands
  <2> QED
    BY <2>1, <2>2 DEF BreachInv
<1>3. CASE ParkProposal
  BY <1>3, ParkFacts DEF BreachInv, NothingJudged
<1>4. ASSUME NEW s \in Submitters, SubmitStep(s) \/ CountStep(s)
      PROVE  BreachInv'
  <2>1. SubmitFrame(s) /\ Shrinks
    BY <1>0, <1>4, SubmitFrames, SubmitShrinks
  <2>2. pc'[Runner] = "await" => pc[Runner] = "await" /\ cur'[Runner] = cur[Runner]
    BY <1>0, <1>4, <2>1, SubmitLands, RunnerIsNoDecider
       DEF SubmitFrame, SubmitGoes, SubmitPcs, CountPcs
  <2> QED
    BY <2>1, <2>2, CalmKeepsBreach DEF SubmitFrame
<1>5. CASE Requests
  BY <1>0, <1>5, RequestFrames, CalmKeepsBreach DEF RequestFrame
<1> QED
  BY <1>1, <1>2, <1>3, <1>4, <1>5, WhoMoves

----------------------------------------------------------------------------
(* executed means that nothing awaits. *)

LEMMA RunnerIsBusy ==
  ASSUME RunnerStep
  PROVE  pc[Runner] # "idle"
BY DEF RunnerStep, Prelude, BeginStep, AgentAnswers, AgentInterrupts, AgentFails,
       Suspend, ResumeAnswers, ResumeInterrupts, ResumeFails, ResumeStatus,
       ResumePrelude, InsertProposals, InvalidPortfolio, Prepare, GateRejects,
       GateSkips, GateAllows, GateAsks, GateFails, ParkProposal, RefreshState,
       Finish, FailRun, CancelOrphans

\* When the runner moves no decision is under way: it could not begin while a
\* run has verdicts, and decisions wait until it is done.
LEMMA RunnerIsAlone ==
  ASSUME GateInv, DeciderInv, RunnerActs
  PROVE  \A d \in Deciders : pc[d] = "idle"
<1>1. CASE RunnerStep
  BY <1>1, RunnerIsBusy DEF DeciderInv
<1>2. CASE StartRun \/ \E a \in Agents : BeginResume(a)
  BY <1>2 DEF StartRun, BeginResume, GateInv, DeciderInv
<1> QED
  BY <1>1, <1>2 DEF RunnerActs

\* Into its loop the runner comes from the step before it, or it is there.
LEMMA CalmLands ==
  ASSUME TypeOK, RunnerActs, ~GateJudges, ~ParkProposal
  PROVE  /\ pc'[Runner] \in InLoop =>
              /\ pc[Runner] \in {"prepare", "next"}
              /\ UNCHANGED <<runStatus, pendingApprovals>>
         /\ pc'[Runner] \in Early =>
              \/ pc[Runner] \in Early /\ runStatus' \in {runStatus} \cup Agents
              \/ runStatus' \in {"created", "awaiting_agent_input"}
         /\ runStatus' = "executed" =>
              \/ runStatus = "executed"
              \/ Finish /\ ~pendingApprovals
<1> USE RunnerGoes, OnErrorType
    DEF InLoop, Judged, Early, SubmitPcs, Fails, NextAgent, SetRunStatus, Put,
        TypeOK, Agents, tables, runnerVars
<1>1. CASE StartRun
  <2>1. /\ runStatus' \in {runStatus, "created"}
        /\ pc'[Runner] \in {"prelude", "idle"}
        /\ pc'[Runner] = "prelude" => runStatus' = "created"
    BY <1>1 DEF StartRun, Writes, Applied
  <2> QED
    BY <2>1
<1>2. CASE \E a \in Agents : BeginResume(a)
  BY <1>2 DEF BeginResume
<1>3. CASE Prelude
  BY <1>3 DEF Prelude
<1>12. CASE AgentAnswers
  <2>1. pc'[Runner] \in {"agent", "insert", "idle", "fail", "orphans"}
    BY <1>12 DEF AgentAnswers
  <2>2. pc[Runner] = "call" /\ UNCHANGED runStatus
    BY <1>12 DEF AgentAnswers
  <2> QED
    BY <2>1, <2>2
<1>11. CASE BeginStep
  <2>1. pc'[Runner] \in {"call", "idle", "fail", "orphans"}
    BY <1>11 DEF BeginStep
  <2>2. pc[Runner] = "agent" /\ runStatus' \in {runStatus, "analyst", "portfolio"}
    BY <1>11 DEF BeginStep
  <2> QED
    BY <2>1, <2>2
<1>4. CASE AgentInterrupts \/ AgentFails \/ Suspend
  BY <1>4 DEF AgentInterrupts, AgentFails, Suspend
<1>5. CASE ResumeAnswers \/ ResumeInterrupts \/ ResumeFails
  BY <1>5 DEF ResumeAnswers, ResumeInterrupts, ResumeFails
<1>6. CASE ResumeStatus \/ ResumePrelude
  BY <1>6 DEF ResumeStatus, ResumePrelude
<1>7. CASE InsertProposals \/ InvalidPortfolio \/ GateFails
  BY <1>7 DEF InsertProposals, InvalidPortfolio, GateFails
<1>8. CASE Prepare \/ RefreshState
  <2>1. pc'[Runner] \in {"gate", "finish", "idle", "fail", "orphans"}
    BY <1>8 DEF Prepare, RefreshState, Advance, Submitters
  <2> QED
    BY <1>8, <2>1 DEF Prepare, RefreshState
<1>9. CASE Finish
  BY <1>9 DEF Finish
<1>10. CASE FailRun \/ CancelOrphans
  BY <1>10 DEF FailRun, CancelOrphans
<1> QED
  BY <1>1, <1>2, <1>3, <1>4, <1>5, <1>6, <1>7, <1>8, <1>9, <1>10, <1>11,
     <1>12
  DEF RunnerActs, RunnerStep, GateJudges

\* Before the loop nothing waits.
LEMMA NothingWaitsYet ==
  ASSUME OrderInv, BreachInv, NothingJudged
  PROVE  ~SomePending /\ ~SomeAwaiting
BY DEF OrderInv, ApprovalInv, BreachInv, NothingJudged, SomePending, SomeAwaiting

LEMMA RunnerKeepsLoop ==
  ASSUME OrderInv, BreachInv, LoopInv, RunnerActs
  PROVE  LoopInv'
<1>0. TypeOK
  BY OrderInvParts
<1>1. ASSUME ~GateJudges, ~ParkProposal
      PROVE  LoopInv'
  <2> SUFFICES ASSUME pc'[Runner] \in InLoop
               PROVE  LoopInv'
    BY DEF LoopInv
  <2>1. /\ pc[Runner] \in {"prepare", "next"}
        /\ UNCHANGED pendingApprovals
        /\ Shrinks
    BY <1>0, <1>1, CalmLands, CalmSteps DEF CalmRunner
  <2>2. CASE pc[Runner] = "prepare"
    <3>1. ~SomePending /\ ~SomeAwaiting
      BY <2>2, NothingWaitsYet, OrderInvParts DEF GateInv, Early
    <3> QED
      BY <2>1, <3>1 DEF LoopInv, Shrinks, SomePending, SomeAwaiting
  <2>3. CASE pc[Runner] = "next"
    BY <2>1, <2>3 DEF LoopInv, Shrinks, InLoop, Judged
  <2> QED
    BY <2>1, <2>2, <2>3
<1>2. CASE GateJudges
  <2>1. pc[Runner] = "gate" /\ UNCHANGED pendingApprovals
    BY <1>2, GateGives
  <2>2. CASE GateAsks
    <3>1. pc'[Runner] \in {"await", "idle", "fail", "orphans"}
      BY <1>0, <2>2, RunnerGoes, OnErrorType DEF GateAsks, Fails
    <3> QED
      BY <1>0, <1>2, <2>1, <2>2, <3>1, GateLands
         DEF LoopInv, InLoop, Judged, SubmitPcs
  <2>3. CASE ~GateAsks
    BY <1>0, <1>2, <2>1, <2>3, GateLands DEF LoopInv, InLoop, Judged
  <2> QED
    BY <2>2, <2>3
<1>3. CASE ParkProposal
  BY <1>3, ParkFacts DEF LoopInv, InLoop, Judged, SubmitPcs
<1> QED
  BY <1>1, <1>2, <1>3

LEMMA RunnerKeepsExecuted ==
  ASSUME OrderInv, BreachInv, ExecutedInv, RunnerActs
  PROVE  ExecutedInv'
<1>0. TypeOK /\ GateInv /\ RunnerFrame
  BY OrderInvParts, RunnerFrames
<1>1. \A d \in Deciders : pc'[d] = "idle"
  BY <1>0, RunnerIsAlone DEF ExecutedInv, RunnerFrame
<1>2. DeciderInv' /\ CountInv'
  BY <1>1 DEF DeciderInv, CountInv
<1>3. LoopInv'
  BY RunnerKeepsLoop DEF ExecutedInv
<1>4. pc'[Runner] \in Early \cup InLoop => runStatus' # "executed"
  <2>1. ASSUME ~GateJudges, ~ParkProposal
        PROVE  pc'[Runner] \in Early \cup InLoop => runStatus' # "executed"
    BY <1>0, <2>1, CalmLands DEF ExecutedInv, Early, InLoop, Judged, Agents
  <2>2. CASE GateJudges
    BY <2>2, GateGives DEF ExecutedInv, InLoop
  <2>3. CASE ParkProposal
    BY <2>3, ParkFacts DEF ExecutedInv, InLoop, Judged
  <2> QED
    BY <2>1, <2>2, <2>3
<1>5. ExecutedMeansNothingAwaits'
  <2> SUFFICES ASSUME runStatus' = "executed"
               PROVE  ~SomePending' /\ ~SomeAwaiting'
    BY DEF ExecutedMeansNothingAwaits
  <2>1. ~GateJudges /\ ~ParkProposal
    BY GateGives, ParkFacts DEF ExecutedInv, InLoop, Judged
  <2>2. Shrinks
    BY <1>0, <2>1, CalmSteps DEF CalmRunner
  <2>3. ~SomePending /\ ~SomeAwaiting
    <3>1. CASE runStatus = "executed"
      BY <3>1 DEF ExecutedInv, ExecutedMeansNothingAwaits
    <3>2. CASE Finish /\ ~pendingApprovals
      BY <3>2 DEF Finish, ExecutedInv, LoopInv, InLoop, SomePending, SomeAwaiting
    <3> QED
      BY <1>0, <2>1, <3>1, <3>2, CalmLands
  <2> QED
    BY <2>2, <2>3 DEF Shrinks, SomePending, SomeAwaiting
<1> QED
  BY <1>2, <1>3, <1>4, <1>5 DEF ExecutedInv

\* A submitter's status count: the queries and what is written.
LEMMA CountFacts ==
  ASSUME TypeOK, NEW s \in Submitters, SubmitStep(s) \/ CountStep(s)
  PROVE  /\ pc'[s] = "count_proposals" => seen'[s] = SomePending
         /\ pc'[s] = "write_status" =>
              /\ pc[s] = "count_proposals"
              /\ seen'[s] = (seen[s] \/ SomeAwaiting)
              /\ UNCHANGED <<proposal, approval>>
         /\ \/ runStatus' = runStatus
            \/ /\ pc[s] = "write_status"
               /\ runStatus' = IF seen[s] THEN "awaiting_approval"
                               ELSE IF s = Runner THEN "failed" ELSE "executed"
<1>1. CASE CountStep(s)
  BY <1>1, SubmitterGoesOn
     DEF CountStep, CountApprovals, CountProposals, WriteStatus, TypeOK, Put,
         tables
<1>2. CASE SubmitStep(s)
  <2>1. pc'[s] \in SubmitPcs \cup {"count_approvals", "idle", "next", "gate",
                                    "finish", "fail", "orphans"}
    <3> USE SubmitterGoesOn, OnErrorType
    <3>1. CASE SubmitAccepted(s) \/ SubmitFailed(s)
      BY <3>1 DEF SubmitAccepted, SubmitFailed, SubmitPcs
    <3>2. CASE MirrorOrder(s) \/ MarkSubmitted(s)
      BY <3>2 DEF MirrorOrder, MarkSubmitted, SubmitPcs, ReturnedError
    <3>3. CASE SettleOrder(s) \/ SettleProposal(s)
      BY <3>3 DEF SettleOrder, SettleProposal, SubmitPcs, Returned, ReturnedError
    <3>4. CASE PollTimeout(s) \/ PollError(s)
      BY <3>4 DEF PollTimeout, PollError, Returned, ReturnedError
    <3>5. CASE RejectUnsubmitted(s)
      BY <3>5 DEF RejectUnsubmitted, Advance, TypeOK
    <3> QED
      BY <1>2, <3>1, <3>2, <3>3, <3>4, <3>5 DEF SubmitStep
  <2>2. UNCHANGED runStatus
    BY <1>2 DEF SubmitStep, SubmitAccepted, SubmitFailed, MirrorOrder,
       MarkSubmitted, SettleOrder, SettleProposal, PollTimeout, PollError,
       RejectUnsubmitted, tables
  <2> QED
    BY <2>1, <2>2 DEF SubmitPcs
<1> QED
  BY <1>1, <1>2

\* A submitter that counts does not go back.
LEMMA CountTargets ==
  ASSUME TypeOK, NEW s \in Submitters, SubmitStep(s) \/ CountStep(s),
         pc'[s] \notin CountPcs \cup {"idle"}
  PROVE  pc[s] \in SubmitPcs /\ SubmitStep(s) /\ UNCHANGED runStatus
<1>1. ~CountStep(s)
  BY SubmitterGoesOn
     DEF CountStep, CountApprovals, CountProposals, WriteStatus, CountPcs
<1> QED
  BY <1>1 DEF SubmitStep, SubmitAccepted, SubmitFailed, MirrorOrder, SubmitPcs,
       MarkSubmitted, SettleOrder, SettleProposal, PollTimeout, PollError,
       RejectUnsubmitted, tables

LEMMA SubmitterKeepsExecuted ==
  ASSUME OrderInv, ExecutedInv, NEW s \in Submitters, SubmitStep(s) \/ CountStep(s)
  PROVE  ExecutedInv'
<1>0. TypeOK /\ SubmitFrame(s) /\ Shrinks
  BY OrderInvParts, SubmitFrames, SubmitShrinks
<1>1. pc[s] # "idle"
  BY <1>0 DEF SubmitFrame, SubmitPcs, CountPcs
<1>2. DeciderInv'
  <2>1. CASE s = Runner
    BY <1>0, <1>1, <2>1, RunnerIsNoDecider, DeciderSubmits
       DEF SubmitFrame, ExecutedInv, DeciderInv
  <2>2. CASE s # Runner
    BY <1>0, <1>1, <2>2, RunnerIsNoDecider, DeciderSubmits
       DEF SubmitFrame, ExecutedInv, DeciderInv, NothingJudged, Submitters
  <2> QED
    BY <2>1, <2>2
<1>3. LoopInv'
  <2>1. CASE s = Runner
    <3>1. pc'[Runner] \in InLoop => pc[Runner] \in SubmitPcs
      BY <1>0, <2>1, CountTargets DEF InLoop, Judged, SubmitPcs, CountPcs
    <3> QED
      BY <1>0, <2>1, <3>1
         DEF SubmitFrame, ExecutedInv, LoopInv, Shrinks, InLoop, Judged, SubmitPcs
  <2>2. CASE s # Runner
    BY <1>0, <1>1, <2>2, RunnerIsNoDecider
       DEF SubmitFrame, ExecutedInv, DeciderInv, LoopInv, InLoop, Judged,
           SubmitPcs, Submitters
  <2> QED
    BY <2>1, <2>2
<1>4. CountInv'
  <2>1. /\ SomePending' => SomePending
        /\ SomeAwaiting' => SomeAwaiting
    BY <1>0 DEF Shrinks, SomePending, SomeAwaiting
  <2>2. \A d \in Deciders : d # s => pc'[d] = pc[d] /\ seen'[d] = seen[d]
    BY <1>0, DeciderSubmits DEF SubmitFrame
  <2>3. s \in Deciders =>
          /\ pc'[s] = "count_proposals" /\ ~seen'[s] => ~SomePending
          /\ pc'[s] = "write_status" /\ ~seen'[s] => ~SomePending /\ ~SomeAwaiting
    BY <1>0, CountFacts DEF ExecutedInv, CountInv
  <2> QED
    BY <2>1, <2>2, <2>3 DEF ExecutedInv, CountInv
<1>5. pc'[Runner] \in Early \cup InLoop => runStatus' # "executed"
  <2>1. CASE s = Runner
    BY <1>0, <2>1, CountTargets
       DEF ExecutedInv, InLoop, Judged, Early, SubmitPcs, CountPcs
  <2>2. CASE s # Runner
    BY <1>0, <1>1, <2>2
       DEF SubmitFrame, ExecutedInv, DeciderInv, InLoop, Judged, Early,
           SubmitPcs, Submitters
  <2> QED
    BY <2>1, <2>2
<1>6. ExecutedMeansNothingAwaits'
  BY <1>0, CountFacts
     DEF SubmitFrame, ExecutedInv, CountInv, ExecutedMeansNothingAwaits,
         Shrinks, SomePending, SomeAwaiting, Submitters
<1> QED
  BY <1>2, <1>3, <1>4, <1>5, <1>6 DEF ExecutedInv

\* A request begins with a decision, and only it brings its goroutine to work.
LEMMA RequestLands ==
  ASSUME TypeOK, Requests, NEW d \in Deciders
  PROVE  \/ pc'[d] \in {pc[d], "idle"}
         \/ /\ pc'[d] \in {"submit", "count_approvals"}
            /\ MayDecide
            /\ \E p \in Proposals : Decidable(p)
<1>1. ASSUME NEW e \in Deciders, NEW p \in Proposals, Approve(e, p) \/ Reject(e, p)
      PROVE  \/ pc'[d] \in {pc[d], "idle"}
             \/ /\ pc'[d] \in {"submit", "count_approvals"}
                /\ MayDecide
                /\ \E q \in Proposals : Decidable(q)
  <2>1. MayDecide /\ Decidable(p)
    BY <1>1 DEF Approve, Reject
  <2>2. \E there \in {"submit", "count_approvals", "idle"} : Goto(e, there)
    BY <1>1 DEF Approve, Reject
  <2>3. pc'[d] \in {pc[d], "submit", "count_approvals", "idle"}
    BY <2>2, DeciderSubmits DEF Goto, TypeOK
  <2> QED
    BY <2>1, <2>3
<1>2. CASE BeginCancel \/ CancelStep
  BY <1>2 DEF BeginCancel, CancelStep, PluckProposals, CancelProposals,
              CancelApprovals, CancelRunRow
<1>3. CASE (\E p \in Proposals : AlpacaSettles(p)) \/ UNCHANGED vars
  BY <1>3 DEF AlpacaSettles, vars
<1>4. CASE Crash
  BY <1>4, DeciderSubmits DEF Crash
<1> QED
  BY <1>1, <1>2, <1>3, <1>4 DEF Requests

LEMMA RequestKeepsExecuted ==
  ASSUME OrderInv, BreachInv, ExecutedInv, Requests, "decide_run" \notin Overlap
  PROVE  ExecutedInv'
<1>0. TypeOK /\ RequestFrame /\ Shrinks
  BY OrderInvParts, RequestFrames
<1>1. DeciderInv'
  <2> SUFFICES ASSUME NEW d \in Deciders, pc'[d] # "idle"
               PROVE  pc'[Runner] = "idle" /\ ~NothingJudged'
    BY DEF DeciderInv
  <2>1. pc[Runner] = "idle" /\ ~NothingJudged
    <3>1. CASE pc'[d] = pc[d]
      BY <3>1 DEF ExecutedInv, DeciderInv
    <3>2. ASSUME MayDecide, NEW p \in Proposals, Decidable(p)
          PROVE  pc[Runner] = "idle" /\ ~NothingJudged
      BY <3>2 DEF MayDecide, Decidable, BreachInv, NothingJudged
    <3> QED
      BY <1>0, <3>1, <3>2, RequestLands
  <2> QED
    BY <1>0, <2>1 DEF RequestFrame, NothingJudged
<1>2. LoopInv'
  BY <1>0 DEF RequestFrame, ExecutedInv, LoopInv, Shrinks, InLoop, Judged,
              SubmitPcs
<1>3. CountInv'
  <2>1. \A d \in Deciders :
          pc'[d] \in {"count_proposals", "write_status"} => pc'[d] = pc[d]
    BY <1>0, RequestLands
  <2> QED
    BY <1>0, <2>1
       DEF RequestFrame, ExecutedInv, CountInv, Shrinks, SomePending, SomeAwaiting
<1>4. pc'[Runner] \in Early \cup InLoop => runStatus' # "executed"
  BY <1>0 DEF RequestFrame, ExecutedInv, Early, InLoop, Judged, SubmitPcs
<1>5. ExecutedMeansNothingAwaits'
  BY <1>0 DEF RequestFrame, ExecutedInv, ExecutedMeansNothingAwaits, Shrinks,
              SomePending, SomeAwaiting
<1> QED
  BY <1>1, <1>2, <1>3, <1>4, <1>5 DEF ExecutedInv

LEMMA ExecutedInit == Init => ExecutedInv
BY RunnerIsNoDecider, DeciderSubmits
   DEF Init, ExecutedInv, DeciderInv, LoopInv, CountInv, Early, InLoop, Judged,
       SubmitPcs, ExecutedMeansNothingAwaits

BaseInv == OrderInv /\ BreachInv

LEMMA BaseHolds == Spec => []BaseInv
<1>1. Init => BaseInv
  BY OrderInvInit, BreachInit DEF BaseInv
<1>2. BaseInv /\ [Next]_vars => BaseInv'
  BY OrderInvNext, BreachNext DEF BaseInv
<1> QED
  BY <1>1, <1>2, PTL DEF Spec

LEMMA ExecutedNext ==
  ASSUME "decide_run" \notin Overlap, BaseInv, ExecutedInv, [Next]_vars
  PROVE  ExecutedInv'
BY WhoMoves, RunnerKeepsExecuted, SubmitterKeepsExecuted, RequestKeepsExecuted
   DEF BaseInv

LEMMA ExecutedHolds ==
  ASSUME "decide_run" \notin Overlap
  PROVE  Spec => []ExecutedInv
<1>1. BaseInv /\ ExecutedInv /\ [Next]_vars => ExecutedInv'
  BY ExecutedNext
<1> QED
  BY <1>1, ExecutedInit, BaseHolds, PTL DEF Spec

\* executed means that no approval is pending and no proposal awaits one, if
\* decisions begin only when the runner is done; with any number of requests,
\* failing statements, cancellations and crashes.
THEOREM ExecutedIsFinal ==
  "decide_run" \notin Overlap => (Spec => []ExecutedMeansNothingAwaits)
<1> SUFFICES ASSUME "decide_run" \notin Overlap
             PROVE  Spec => []ExecutedMeansNothingAwaits
  OBVIOUS
<1>1. ExecutedInv => ExecutedMeansNothingAwaits
  BY DEF ExecutedInv
<1> QED
  BY <1>1, ExecutedHolds, PTL

----------------------------------------------------------------------------
(* A failed run leaves no orphans after a fill. *)

LEMMA WritesSucceed ==
  ASSUME "db" \notin Faults
  PROVE  Writes = {"ok"} /\ DBReads = {"ok"} /\ \A new, old : Put("ok", new, old) = new
BY DEF Writes, DBReads, Put, Applied

\* How the runner's steps treat what OrphanInv speaks of.
LEMMA RunnerFails ==
  ASSUME TypeOK, RunnerActs
  PROVE  /\ pc'[Runner] = "fail" => ~anyFill \/ pc[Runner] \in Early
         /\ anyFill' = anyFill \/ runStatus = "awaiting_agent_input"
         /\ pc'[Runner] \in CountPcs => CancelOrphans
         /\ runStatus' = "failed" =>
              runStatus = "failed" \/ (pc[Runner] = "fail" /\ pc'[Runner] = "idle")
<1> USE RunnerGoes
    DEF CountPcs, Early, Fails, OnError, NextAgent, Advance, SetRunStatus, Put,
        TypeOK, Agents, Submitters, tables, runnerVars
<1>1. CASE StartRun \/ \E a \in Agents : BeginResume(a)
  BY <1>1 DEF StartRun, BeginResume
<1>2. CASE Prelude \/ AgentAnswers \/ AgentInterrupts
  BY <1>2 DEF Prelude, AgentAnswers, AgentInterrupts
<1>3. CASE BeginStep
  BY <1>3 DEF BeginStep
<1>4. CASE AgentFails \/ Suspend
  BY <1>4 DEF AgentFails, Suspend
<1>5. CASE ResumeAnswers \/ ResumeInterrupts \/ ResumeFails
  BY <1>5 DEF ResumeAnswers, ResumeInterrupts, ResumeFails
<1>6. CASE ResumeStatus \/ ResumePrelude
  BY <1>6 DEF ResumeStatus, ResumePrelude
<1>7. CASE InsertProposals \/ InvalidPortfolio \/ GateFails
  BY <1>7 DEF InsertProposals, InvalidPortfolio, GateFails
<1>8. CASE Prepare \/ RefreshState
  BY <1>8 DEF Prepare, RefreshState
<1>9. CASE GateRejects \/ GateSkips
  BY <1>9 DEF GateRejects, GateSkips
<1>10. CASE GateAllows \/ GateAsks
  BY <1>10 DEF GateAllows, GateAsks
<1>11. CASE ParkProposal
  BY <1>11 DEF ParkProposal
<1>12. CASE Finish
  BY <1>12 DEF Finish
<1>13. CASE FailRun \/ CancelOrphans
  BY <1>13 DEF FailRun, CancelOrphans
<1> QED
  BY <1>1, <1>2, <1>3, <1>4, <1>5, <1>6, <1>7, <1>8, <1>9, <1>10, <1>11,
     <1>12, <1>13
  DEF RunnerActs, RunnerStep

\* None of the runner's own steps fills a proposal.
LEMMA RunnerFillsNothing ==
  ASSUME OrderInv, RunnerActs
  PROVE  /\ \A p \in Proposals : proposal'[p] = "filled" => proposal[p] = "filled"
         /\ RunnerFilled' => RunnerFilled
<1>0. TypeOK
  BY OrderInvParts
<1>1. ASSUME ~GateJudges
      PROVE  Quiet
    BY <1>0, <1>1, QuietChain, QuietLoop DEF RunnerActs, RunnerStep, GateJudges
<1>2. CASE GateJudges
  <2>1. /\ pc[Runner] = "gate"
        /\ \A q \in Proposals : q # cur[Runner] =>
             verdict'[q] = verdict[q] /\ proposal'[q] = proposal[q]
        /\ \A q \in Proposals : proposal'[q] = "filled" => proposal[q] = "filled"
    BY <1>0, <1>2, GateGives, GateLands
  <2> QED
    BY <2>1, Unjudged DEF RunnerFilled
<1> QED
  BY <1>1, <1>2 DEF Quiet, RunnerFilled

LEMMA RunnerKeepsOrphans ==
  ASSUME OrderInv, OrphanInv, RunnerActs, "db" \notin Faults
  PROVE  OrphanInv'
<1>0. TypeOK /\ GateInv /\ (RunnerFilled' => RunnerFilled)
  BY OrderInvParts, RunnerFillsNothing
<1>1. NothingJudged => ~RunnerFilled
  BY DEF NothingJudged, RunnerFilled
<1>2. RunnerFilled' => anyFill'
  BY <1>0, <1>1, RunnerFails DEF OrphanInv, GateInv
<1>3. pc'[Runner] = "fail" => ~RunnerFilled'
  BY <1>0, <1>1, RunnerFails DEF OrphanInv, GateInv
<1>4. pc'[Runner] \in CountPcs => \A p \in Proposals : proposal'[p] # "pending_auto"
  BY <1>0, RunnerFails, WritesSucceed DEF CancelOrphans
<1>5. runStatus # "failed"
  BY RunnerIsBusy DEF RunnerActs, StartRun, BeginResume, OrphanInv, Working
<1>6. Working' => runStatus' # "failed"
  BY <1>0, <1>5, RunnerFails DEF Working
<1>7. NoOrphansAfterFill'
  BY <1>0, <1>5, RunnerFails DEF OrphanInv, NoOrphansAfterFill
<1> QED
  BY <1>2, <1>3, <1>4, <1>6, <1>7 DEF OrphanInv

\* Of the submitters only the runner fills a proposal it was given by the gate,
\* and it takes note of it.
LEMMA FillIsNoted ==
  ASSUME OrderInv, NEW s \in Submitters, SubmitStep(s) \/ CountStep(s),
         "db" \notin Faults
  PROVE  /\ anyFill => anyFill'
         /\ RunnerFilled' => RunnerFilled \/ (s = Runner /\ anyFill')
         /\ s = Runner /\ pc'[s] = "fail" =>
              ~anyFill /\ (RunnerFilled' => RunnerFilled)
         /\ s = Runner /\ pc'[s] \in CountPcs => pc[s] \in CountPcs
<1>0. TypeOK
  BY OrderInvParts
<1>1. CASE SettleProposal(s)
  <2> DEFINE p == cur[s]
  <2>1. /\ p \in Proposals
        /\ s # Runner => approval[p] = "approved"
    BY <1>1, SubmitterKnows
       DEF SettleProposal, SubmitPcs, OrderInv, SubmitterInv, Submitting
  <2>2. s # Runner => verdict[p] = "breach"
    BY <2>1 DEF OrderInv, ApprovalInv
  <2>3. /\ proposal' = [proposal EXCEPT ![p] =
              IF alpaca[p] = "filled" THEN "filled" ELSE "rejected"]
        /\ Goto(s, Returned(s))
        /\ anyFill' = (anyFill \/ (s = Runner /\ alpaca[p] = "filled"))
        /\ UNCHANGED verdict
    BY <1>1, WritesSucceed DEF SettleProposal, history
  <2>4. s = Runner => pc'[s] = "next"
    BY <1>0, <2>3, SubmitterGoesOn DEF Returned
  <2>5. /\ \A q \in Proposals : q # p => proposal'[q] = proposal[q]
        /\ proposal'[p] = "filled" => alpaca[p] = "filled"
    BY <1>0, <2>1, <2>3 DEF TypeOK
  <2>6. anyFill => anyFill'
    BY <2>3
  <2>7. alpaca[p] = "filled" /\ s = Runner => anyFill'
    BY <2>3
  <2> QED
    BY <2>1, <2>2, <2>3, <2>4, <2>5, <2>6, <2>7 DEF RunnerFilled, CountPcs
<1>2. CASE ~SettleProposal(s)
  <2>1. UNCHANGED anyFill
    BY <1>2 DEF SubmitStep, SubmitAccepted, SubmitFailed, MirrorOrder,
         MarkSubmitted, SettleOrder, PollTimeout, PollError, RejectUnsubmitted,
         CountStep, CountApprovals, CountProposals, WriteStatus, runnerVars
  <2>2. \A p \in Proposals : proposal'[p] = "filled" => proposal[p] = "filled"
    BY <1>0, <1>2 DEF SubmitStep, SubmitAccepted, SubmitFailed, MirrorOrder,
         MarkSubmitted, SettleOrder, PollTimeout, PollError, RejectUnsubmitted,
         CountStep, CountApprovals, CountProposals, WriteStatus, TypeOK, Put,
         tables
  <2>3. RunnerFilled' => RunnerFilled
    BY <1>0, <2>2, SubmitFrames DEF SubmitFrame, RunnerFilled
  <2>4. CASE CountStep(s)
    BY <1>0, <2>1, <2>3, <2>4, SubmitterGoesOn
       DEF CountStep, CountApprovals, CountProposals, WriteStatus, CountPcs
  <2>5. CASE SubmitStep(s) /\ s = Runner
    <3>1. \/ pc'[s] \in SubmitPcs \cup {"next", "gate", "finish"}
          \/ pc'[s] = OnError(memStatus, anyFill)
      <4> USE <1>0, SubmitterGoesOn, WritesSucceed
          DEF Returned, ReturnedError, SubmitPcs
      <4>1. CASE SubmitAccepted(s) \/ SubmitFailed(s)
        BY <4>1 DEF SubmitAccepted, SubmitFailed
      <4>2. CASE MirrorOrder(s) \/ MarkSubmitted(s) \/ SettleOrder(s)
        BY <4>2 DEF MirrorOrder, MarkSubmitted, SettleOrder
      <4>3. CASE PollTimeout(s) \/ PollError(s)
        BY <2>5, <4>3 DEF PollTimeout, PollError
      <4>4. CASE RejectUnsubmitted(s)
        BY <2>5, <4>4 DEF RejectUnsubmitted, Advance, TypeOK
      <4> QED
        BY <1>2, <2>5, <4>1, <4>2, <4>3, <4>4 DEF SubmitStep
    <3> QED
      BY <2>1, <2>3, <3>1 DEF OnError, SubmitPcs, CountPcs
  <2> QED
    BY <2>1, <2>3, <2>4, <2>5
<1> QED
  BY <1>1, <1>2

LEMMA SubmitterKeepsOrphans ==
  ASSUME OrderInv, OrphanInv, NEW s \in Submitters, SubmitStep(s) \/ CountStep(s),
         "db" \notin Faults
  PROVE  OrphanInv'
<1>0. TypeOK /\ SubmitFrame(s)
  BY OrderInvParts, SubmitFrames
<1>1. /\ anyFill => anyFill'
      /\ RunnerFilled' => RunnerFilled \/ (s = Runner /\ anyFill')
      /\ s = Runner /\ pc'[s] = "fail" =>
           ~anyFill /\ (RunnerFilled' => RunnerFilled)
      /\ s = Runner /\ pc'[s] \in CountPcs => pc[s] \in CountPcs
  BY FillIsNoted
<1>2. /\ s # Runner => pc'[Runner] = pc[Runner]
      /\ pc[s] # "idle"
  BY <1>0, RunnerIsNoDecider DEF SubmitFrame, SubmitPcs, CountPcs
<1>3. runStatus' = "failed" =>
        \/ runStatus = "failed" /\ s # Runner
        \/ s = Runner /\ pc[s] = "write_status" /\ pc'[s] = "idle"
  <2>1. CASE pc[s] = "write_status"
    <3>1. WriteStatus(s)
      BY <2>1 DEF SubmitStep, SubmitAccepted, SubmitFailed, MirrorOrder,
         MarkSubmitted, SettleOrder, SettleProposal, PollTimeout, PollError,
         RejectUnsubmitted, CountStep, CountApprovals, CountProposals
    <3> QED
      BY <1>0, <1>2, <2>1, <3>1, CountFacts, SubmitterGoesOn
         DEF WriteStatus, OrphanInv, Working
  <2>2. CASE pc[s] # "write_status"
    BY <1>0, <1>2, <2>2, CountFacts DEF OrphanInv, Working
  <2> QED
    BY <2>1, <2>2
<1>4. RunnerFilled' => anyFill'
  BY <1>1 DEF OrphanInv
<1>5. pc'[Runner] = "fail" => ~RunnerFilled'
  BY <1>1, <1>2 DEF OrphanInv
<1>6. pc'[Runner] \in CountPcs => \A p \in Proposals : proposal'[p] # "pending_auto"
  BY <1>0, <1>1, <1>2 DEF SubmitFrame, OrphanInv
<1>7. Working' => runStatus' # "failed"
  BY <1>2, <1>3 DEF OrphanInv, Working
<1>8. NoOrphansAfterFill'
  <2> SUFFICES ASSUME runStatus' = "failed", RunnerFilled'
               PROVE  \A p \in Proposals : proposal[p] # "pending_auto"
    BY <1>0 DEF SubmitFrame, NoOrphansAfterFill
  <2>1. CASE runStatus = "failed" /\ s # Runner
    BY <1>1, <2>1 DEF OrphanInv, NoOrphansAfterFill
  <2>2. CASE s = Runner /\ pc[s] = "write_status"
    BY <2>2 DEF OrphanInv, CountPcs
  <2> QED
    BY <1>3, <2>1, <2>2
<1> QED
  BY <1>4, <1>5, <1>6, <1>7, <1>8 DEF OrphanInv

LEMMA RequestKeepsOrphans ==
  ASSUME OrderInv, OrphanInv, Requests
  PROVE  OrphanInv'
<1>1. TypeOK /\ RequestFrame
  BY OrderInvParts, RequestFrames
<1>2. RunnerFilled' => RunnerFilled
  BY <1>1 DEF RequestFrame, RunnerFilled
<1> QED
  BY <1>1, <1>2 DEF RequestFrame, OrphanInv, Working, NoOrphansAfterFill, CountPcs

LEMMA OrphanInit == Init => OrphanInv
BY RunnerIsNoDecider
   DEF Init, OrphanInv, RunnerFilled, CountPcs, Working, NoOrphansAfterFill

\* A run that failed after its own fills has no proposal that looks as if it
\* were still to be executed, if no statement fails; whoever overlaps, whatever
\* the agents and Alpaca answer, and wherever the process dies.
THEOREM FailedRunsLeaveNoOrphans ==
  "db" \notin Faults => (Spec => []NoOrphansAfterFill)
<1> SUFFICES ASSUME "db" \notin Faults
             PROVE  Spec => []NoOrphansAfterFill
  OBVIOUS
<1>1. OrderInv /\ OrphanInv /\ [Next]_vars => OrphanInv'
  BY WhoMoves, RunnerKeepsOrphans, SubmitterKeepsOrphans, RequestKeepsOrphans
<1>2. OrphanInv => NoOrphansAfterFill
  BY DEF OrphanInv
<1> QED
  BY <1>1, <1>2, OrphanInit, OrderInvHolds, PTL DEF Spec

----------------------------------------------------------------------------
(* A run that waits for input can be resumed. *)

LEMMA RunnerKeepsInput ==
  ASSUME OrderInv, InputInv, RunnerActs, "db" \notin Faults
  PROVE  InputInv'
<1>0. TypeOK /\ Writes = {"ok"} /\ \A new, old : Put("ok", new, old) = new
  BY OrderInvParts, WritesSucceed
<1>1. pc[Runner] \in Committed => runStatus # "awaiting_agent_input"
  BY OrderInvParts DEF GateInv
<1> USE <1>0, RunnerGoes
    DEF InputInv, Fails, OnError, NextAgent, SetRunStatus, SetStep
<1>2. CASE StartRun \/ \E a \in Agents : BeginResume(a)
  BY <1>2 DEF StartRun, BeginResume, tables
<1>3. CASE Prelude \/ BeginStep
  BY <1>1, <1>3 DEF Prelude, BeginStep, tables, runnerVars, TypeOK, Agents,
                    Committed, Early
<1>4. CASE AgentAnswers \/ AgentFails
  BY <1>1, <1>4 DEF AgentAnswers, AgentFails, Committed, Early, runnerVars
<1>5. CASE AgentInterrupts
  BY <1>1, <1>5 DEF AgentInterrupts, TypeOK, runnerVars, Committed, Early
<1>6. CASE Suspend
  BY <1>6 DEF Suspend, TypeOK
<1>7. CASE ResumeAnswers \/ ResumeFails
  BY <1>7 DEF ResumeAnswers, ResumeFails
<1>8. CASE ResumeInterrupts
  BY <1>8 DEF ResumeInterrupts, TypeOK
<1>9. CASE ResumeStatus \/ ResumePrelude
  BY <1>1, <1>9 DEF ResumeStatus, ResumePrelude, TypeOK, Agents, Committed,
                    Early, tables
<1>10. CASE InsertProposals \/ InvalidPortfolio \/ Prepare \/ GateFails
  BY <1>1, <1>10
     DEF InsertProposals, InvalidPortfolio, Prepare, GateFails, Committed,
         Early, tables, TypeOK, Submitters
<1>11. CASE GateJudges
  BY <1>1, <1>11, GateGives, GateLands DEF Committed
<1>12. CASE ParkProposal
  BY <1>1, <1>12, ParkFacts DEF Committed
<1>13. CASE RefreshState
  BY <1>1, <1>13
     DEF RefreshState, Committed, Advance, tables, TypeOK, Submitters
<1>14. CASE Finish \/ FailRun
  BY <1>14 DEF Finish, FailRun
<1>15. CASE CancelOrphans
  BY <1>15 DEF CancelOrphans
<1> QED
  BY <1>2, <1>3, <1>4, <1>5, <1>6, <1>7, <1>8, <1>9, <1>10, <1>11, <1>12,
     <1>13, <1>14, <1>15
  DEF RunnerActs, RunnerStep, GateJudges

\* The others leave steps and the runner's place alone, unless it crashes.
LEMMA OthersKeepInput ==
  ASSUME OrderInv, InputInv, "crash" \notin Faults,
         \/ \E s \in Submitters : SubmitStep(s) \/ CountStep(s)
         \/ Requests
  PROVE  InputInv'
<1>0. TypeOK
  BY OrderInvParts
<1>1. ASSUME NEW s \in Submitters, SubmitStep(s) \/ CountStep(s)
      PROVE  InputInv'
  <2>1. SubmitFrame(s)
    BY <1>0, <1>1, SubmitFrames
  <2>2. runStatus' = "awaiting_agent_input" => runStatus = "awaiting_agent_input"
    BY <1>0, <1>1, CountFacts
  <2>3. pc'[Runner] # "suspend" \/ pc'[Runner] = pc[Runner]
    BY <1>0, <1>1, <2>1, SubmitLands, RunnerIsNoDecider
       DEF SubmitFrame, SubmitGoes, SubmitPcs, CountPcs
  <2>4. pc[Runner] \in {"resume_status", "fail"} => pc'[Runner] = pc[Runner]
    BY <2>1, RunnerIsNoDecider DEF SubmitFrame, SubmitPcs, CountPcs
  <2> QED
    BY <2>1, <2>2, <2>3, <2>4 DEF SubmitFrame, InputInv
<1>2. CASE Requests
  <2>1. RequestFrame
    BY <1>0, <1>2, RequestFrames
  <2>2. pc'[Runner] = pc[Runner]
    BY <1>0, <1>2, RunnerIsNoDecider, DeciderSubmits
       DEF Requests, Approve, Reject, BeginCancel, CancelStep, PluckProposals,
           CancelProposals, CancelApprovals, CancelRunRow, AlpacaSettles, Crash,
           vars, Goto, TypeOK
  <2> QED
    BY <2>1, <2>2 DEF RequestFrame, InputInv
<1> QED
  BY <1>1, <1>2

LEMMA InputInit == Init => InputInv
BY RunnerIsNoDecider DEF Init, InputInv

\* A run that waits for input has an interrupted step, so that ResumeAgent can
\* take the answer, if no statement fails and the process does not die.
THEOREM AwaitedInputCanBeGiven ==
  Faults \cap {"db", "crash"} = {} => (Spec => []AwaitingInputIsResumable)
<1> SUFFICES ASSUME Faults \cap {"db", "crash"} = {}
             PROVE  Spec => []AwaitingInputIsResumable
  OBVIOUS
<1>0. "db" \notin Faults /\ "crash" \notin Faults
  OBVIOUS
<1>1. OrderInv /\ InputInv /\ [Next]_vars => InputInv'
  BY <1>0, WhoMoves, RunnerKeepsInput, OthersKeepInput
<1>2. InputInv => AwaitingInputIsResumable
  BY DEF InputInv, AwaitingInputIsResumable, Working
<1> QED
  BY <1>1, <1>2, InputInit, OrderInvHolds, PTL DEF Spec

----------------------------------------------------------------------------
(* What was filled stays filled, and a cancelled run does not trade. *)

\* The runner does not cancel a run.
LEMMA RunnerCancelsNot ==
  ASSUME TypeOK, RunnerActs
  PROVE  runStatus' = "cancelled" => runStatus = "cancelled"
<1> USE DEF SetRunStatus, Put, TypeOK, Agents, tables
<1>1. CASE StartRun \/ \E a \in Agents : BeginResume(a)
  BY <1>1 DEF StartRun, BeginResume
<1>2. CASE BeginStep \/ Suspend \/ ResumeStatus
  BY <1>2 DEF BeginStep, Suspend, ResumeStatus
<1>3. CASE Finish \/ FailRun
  BY <1>3 DEF Finish, FailRun
<1>4. CASE /\ RunnerStep
           /\ ~(BeginStep \/ Suspend \/ ResumeStatus \/ Finish \/ FailRun)
  BY <1>4 DEF RunnerStep, Prelude, AgentAnswers, AgentInterrupts, AgentFails,
       ResumeAnswers, ResumeInterrupts, ResumeFails, ResumePrelude,
       InsertProposals, InvalidPortfolio, Prepare, GateRejects, GateSkips,
       GateAllows, GateAsks, GateFails, ParkProposal, RefreshState, CancelOrphans
<1> QED
  BY <1>1, <1>2, <1>3, <1>4 DEF RunnerActs

\* While the runner or a submitter moves, nothing is being cancelled or was.
LEMMA WorkExcludesCancel ==
  ASSUME OrderInv, CancelInv,
         \/ RunnerActs
         \/ \E s \in Submitters : SubmitStep(s) \/ CountStep(s)
  PROVE  cancelPc = "idle" /\ runStatus # "cancelled"
<1>1. CASE StartRun \/ \E a \in Agents : BeginResume(a)
  BY <1>1 DEF StartRun, BeginResume, CancelInv
<1>2. CASE RunnerStep
  BY <1>2, RunnerIsBusy, RunnerIsNoDecider DEF CancelInv, AllIdle
<1>3. ASSUME NEW s \in Submitters, SubmitStep(s) \/ CountStep(s)
      PROVE  cancelPc = "idle" /\ runStatus # "cancelled"
  BY <1>3, OrderInvParts, SubmitFrames
     DEF SubmitFrame, SubmitPcs, CountPcs, CancelInv, AllIdle
<1> QED
  BY <1>1, <1>2, <1>3 DEF RunnerActs

LEMMA WorkKeepsCancel ==
  ASSUME OrderInv, CancelInv,
         \/ RunnerActs
         \/ \E s \in Submitters : SubmitStep(s) \/ CountStep(s)
  PROVE  CancelInv'
<1>1. cancelPc = "idle" /\ runStatus # "cancelled"
  BY WorkExcludesCancel
<1>2. cancelPc' = "idle" /\ runStatus' # "cancelled"
  <2>1. CASE RunnerActs
    BY <1>1, <2>1, OrderInvParts, RunnerFrames, RunnerCancelsNot DEF RunnerFrame
  <2>2. ASSUME NEW s \in Submitters, SubmitStep(s) \/ CountStep(s)
        PROVE  cancelPc' = "idle" /\ runStatus' # "cancelled"
    BY <1>1, <2>2, OrderInvParts, SubmitFrames, CountFacts DEF SubmitFrame
  <2> QED
    BY <2>1, <2>2
<1> QED
  BY <1>2 DEF CancelInv

LEMMA RequestKeepsCancel ==
  ASSUME OrderInv, CancelInv, Requests, "cancel_decide" \notin Overlap
  PROVE  CancelInv'
<1>0. TypeOK
  BY OrderInvParts
<1> USE DEF CancelInv, AllIdle, SomeAwaiting, tables, cancelVars
<1>1. ASSUME NEW d \in Deciders, NEW p \in Proposals, Approve(d, p) \/ Reject(d, p)
      PROVE  CancelInv'
  <2>1. cancelPc = "idle" /\ proposal[p] = "awaiting_approval"
    BY <1>1 DEF Approve, Reject, MayDecide, Decidable
  <2>2. UNCHANGED <<cancelPc, runStatus>>
    BY <1>1 DEF Approve, Reject
  <2> QED
    BY <2>1, <2>2
<1>2. CASE BeginCancel
  BY <1>2 DEF BeginCancel, MayCancel
<1>3. CASE PluckProposals
  <2>1. /\ cancelPc = "pluck"
        /\ UNCHANGED <<proposal, pc, runStatus>>
        /\ cancelPc' \in {"idle", "run", "proposals"}
        /\ cancelPc' # "idle" =>
             /\ cancelIds' = {p \in Proposals : proposal[p] = "awaiting_approval"}
             /\ cancelPc' = "run" => cancelIds' = {}
    BY <1>3 DEF PluckProposals
  <2> QED
    BY <2>1
<1>4. CASE CancelProposals
  <2>1. /\ cancelPc = "proposals"
        /\ UNCHANGED <<pc, runStatus, cancelIds>>
        /\ cancelPc' \in {"idle", "approvals"}
    BY <1>4 DEF CancelProposals
  <2>2. cancelPc' = "approvals" => \A p \in Proposals : proposal'[p] # "awaiting_approval"
    BY <1>4 DEF CancelProposals, Put, Applied
  <2> QED
    BY <2>1, <2>2
<1>5. CASE CancelApprovals
  BY <1>5 DEF CancelApprovals
<1>6. CASE CancelRunRow
  BY <1>6 DEF CancelRunRow, Put
<1>7. CASE (\E p \in Proposals : AlpacaSettles(p)) \/ UNCHANGED vars
  BY <1>7 DEF AlpacaSettles, vars
<1>8. CASE Crash
  BY <1>8 DEF Crash
<1> QED
  BY <1>1, <1>2, <1>3, <1>4, <1>5, <1>6, <1>7, <1>8 DEF Requests, CancelStep

LEMMA RunnerKeepsUnfilled ==
  ASSUME OrderInv, BreachInv, UnfilledInv, RunnerActs
  PROVE  UnfilledInv'
<1>0. TypeOK /\ RunnerFrame
  BY OrderInvParts, RunnerFrames
<1>1. /\ pc'[Runner] = "refuse" => pc[Runner] = "refuse" /\ cur'[Runner] = cur[Runner]
      /\ pc'[Runner] = "await" => GateAsks
  <2>1. ASSUME ~GateJudges
        PROVE  NobodySubmitsAnew
    BY <1>0, <2>1, QuietChain, QuietLoop
       DEF RunnerActs, RunnerStep, GateJudges, Quiet
  <2>2. CASE GateJudges
    BY <1>0, <2>2, GateLands
  <2>3. CASE ParkProposal
    BY <2>3, ParkFacts
  <2>4. ASSUME ~GateJudges, ~ParkProposal
        PROVE  pc'[Runner] # "await"
    BY <1>0, <2>4, CalmSteps DEF CalmRunner
  <2> QED
    BY <2>1, <2>2, <2>3, <2>4, RunnerIsNoDecider DEF NobodySubmitsAnew, SubmitPcs
<1>2. \A s \in Submitters : pc'[s] = "refuse" => order'[cur'[s]] = "none"
  BY <1>0, <1>1 DEF RunnerFrame, UnfilledInv, Submitters
<1>3. ASSUME pc'[Runner] = "await"
      PROVE  /\ approval'[cur'[Runner]] = "pending"
             /\ proposal'[cur'[Runner]] # "awaiting_approval"
  <2>1. /\ GateAsks /\ GateJudges
        /\ UNCHANGED <<cur, proposal>>
        /\ cur[Runner] \in Proposals
        /\ verdict[cur[Runner]] = "none"
    BY <1>0, <1>1, <1>3, GateLands, GateGives DEF GateJudges
  <2>2. PICK w \in Writes :
          /\ approval' = [approval EXCEPT ![cur[Runner]] = Put(w, "pending", @)]
          /\ IF w = "ok" THEN Goto(Runner, "await") ELSE Fails
    BY <2>1 DEF GateAsks
  <2>3. w = "ok"
    BY <1>0, <1>3, <2>2, RunnerGoes, OnErrorType DEF Fails
  <2>4. approval'[cur[Runner]] = "pending"
    BY <1>0, <2>1, <2>2, <2>3 DEF TypeOK, Put, Applied
  <2> QED
    BY <2>1, <2>4 DEF BreachInv
<1> QED
  BY <1>2, <1>3 DEF UnfilledInv

LEMMA SubmitterKeepsUnfilled ==
  ASSUME OrderInv, UnfilledInv, NEW s \in Submitters, SubmitStep(s) \/ CountStep(s)
  PROVE  UnfilledInv'
<1>0. TypeOK /\ GateInv /\ SubmitFrame(s) /\ Shrinks
  BY OrderInvParts, SubmitFrames, SubmitShrinks
<1>1. pc'[Runner] = "await" =>
        /\ approval'[cur'[Runner]] = "pending"
        /\ proposal'[cur'[Runner]] # "awaiting_approval"
  <2>1. pc'[Runner] = "await" => pc[Runner] = "await" /\ cur'[Runner] = cur[Runner]
    BY <1>0, SubmitLands, RunnerIsNoDecider
       DEF SubmitFrame, SubmitGoes, SubmitPcs, CountPcs
  <2> QED
    BY <1>0, <2>1 DEF GateInv, Judged, SubmitFrame, Shrinks, UnfilledInv
<1>2. ASSUME NEW t \in Submitters, pc'[t] = "refuse"
      PROVE  order'[cur'[t]] = "none"
  <2>1. CASE t = s
    <3>1. SubmitFailed(s)
      <4> USE <1>0, SubmitterGoesOn, OnErrorType, <1>2, <2>1
      <4>1. CASE SubmitAccepted(s) \/ MirrorOrder(s) \/ MarkSubmitted(s)
        BY <4>1 DEF SubmitAccepted, MirrorOrder, MarkSubmitted, ReturnedError
      <4>2. CASE SettleOrder(s) \/ SettleProposal(s)
        BY <4>2 DEF SettleOrder, SettleProposal, Returned, ReturnedError
      <4>3. CASE PollTimeout(s) \/ PollError(s) \/ CountStep(s)
        BY <4>3 DEF PollTimeout, PollError, Returned, ReturnedError, CountStep,
                    CountApprovals, CountProposals, WriteStatus
      <4>4. CASE RejectUnsubmitted(s)
        BY <4>4 DEF RejectUnsubmitted, Advance, TypeOK
      <4> QED
        BY <4>1, <4>2, <4>3, <4>4 DEF SubmitStep
    <3> QED
      BY <2>1, <3>1, SubmitterKnows DEF SubmitFailed, SubmitPcs, tables
  <2>2. CASE t # s
    <3>1. pc[t] = "refuse" /\ cur'[t] = cur[t]
      BY <1>0, <1>2, <2>2 DEF SubmitFrame
    <3>2. CASE MirrorOrder(s) \/ SettleOrder(s)
      <4>1. pc[s] \in SubmitPcs
        BY <3>2 DEF MirrorOrder, SettleOrder, SubmitPcs
      <4>2. cur[s] # cur[t] /\ cur[t] \in Proposals
        BY <2>2, <3>1, <4>1, SubmitterKnows DEF Submitting, SubmitPcs
      <4> QED
        BY <1>0, <3>1, <3>2, <4>2 DEF MirrorOrder, SettleOrder, TypeOK, UnfilledInv
    <3>3. CASE ~(MirrorOrder(s) \/ SettleOrder(s))
      <4>1. UNCHANGED order
        BY <3>3 DEF SubmitStep, SubmitAccepted, SubmitFailed, MarkSubmitted,
           SettleProposal, PollTimeout, PollError, RejectUnsubmitted, CountStep,
           CountApprovals, CountProposals, WriteStatus, tables
      <4> QED
        BY <3>1, <4>1 DEF UnfilledInv
    <3> QED
      BY <3>2, <3>3
  <2> QED
    BY <2>1, <2>2
<1> QED
  BY <1>1, <1>2 DEF UnfilledInv

LEMMA RequestKeepsUnfilled ==
  ASSUME OrderInv, CancelInv, UnfilledInv, Requests
  PROVE  UnfilledInv'
<1>0. TypeOK /\ GateInv /\ RequestFrame /\ Shrinks
  BY OrderInvParts, RequestFrames
<1>1. ASSUME pc'[Runner] = "await"
      PROVE  /\ approval'[cur'[Runner]] = "pending"
             /\ proposal'[cur'[Runner]] # "awaiting_approval"
  <2> DEFINE r == cur[Runner]
  <2>1. /\ pc[Runner] = "await"
        /\ cur'[Runner] = r
        /\ r \in Proposals
    BY <1>0, <1>1 DEF RequestFrame, GateInv, Judged
  <2>2. cancelPc = "idle"
    BY <2>1, RunnerIsNoDecider DEF CancelInv, AllIdle
  <2>3. ~Decidable(r)
    BY <2>1 DEF UnfilledInv, Decidable
  <2>4. approval'[r] = approval[r]
    <3>1. ASSUME NEW d \in Deciders, NEW p \in Proposals, Approve(d, p) \/ Reject(d, p)
          PROVE  approval'[r] = approval[r]
      <4>1. p # r
        BY <2>3, <3>1 DEF Approve, Reject
      <4> QED
        BY <1>0, <2>1, <3>1, <4>1 DEF Approve, Reject, TypeOK
    <3> QED
      BY <2>2, <3>1 DEF Requests, BeginCancel, CancelStep, PluckProposals,
         CancelProposals, CancelApprovals, CancelRunRow, AlpacaSettles, Crash,
         vars, tables
  <2> QED
    BY <1>0, <2>1, <2>4 DEF UnfilledInv, Shrinks
<1>2. ASSUME NEW e \in Deciders, pc'[e] = "refuse"
      PROVE  pc[e] = "refuse" /\ cur'[e] = cur[e]
  <2>1. pc[e] = "refuse"
    BY <1>0, <1>2, RequestLands
  <2>2. ASSUME NEW d \in Deciders, NEW p \in Proposals, Approve(d, p)
        PROVE  cur'[e] = cur[e]
    BY <1>0, <2>1, <2>2, DeciderSubmits DEF Approve, TypeOK
  <2> QED
    BY <2>1, <2>2 DEF Requests, Reject, BeginCancel, CancelStep, PluckProposals,
       CancelProposals, CancelApprovals, CancelRunRow, AlpacaSettles, Crash, vars
<1>3. \A s \in Submitters : pc'[s] = "refuse" => order'[cur'[s]] = "none"
  BY <1>0, <1>2 DEF RequestFrame, UnfilledInv, Submitters
<1> QED
  BY <1>1, <1>3 DEF UnfilledInv

KeptInv == BaseInv /\ CancelInv /\ UnfilledInv

LEMMA KeptInit == Init => KeptInv
BY OrderInvInit, BreachInit, RunnerIsNoDecider
   DEF Init, KeptInv, BaseInv, CancelInv, UnfilledInv

LEMMA KeptNext ==
  ASSUME "cancel_decide" \notin Overlap, KeptInv, [Next]_vars
  PROVE  KeptInv'
<1>1. BaseInv'
  BY OrderInvNext, BreachNext DEF BaseInv, KeptInv
<1>2. CancelInv'
  BY WhoMoves, WorkKeepsCancel, RequestKeepsCancel DEF BaseInv, KeptInv
<1>3. UnfilledInv'
  BY WhoMoves, RunnerKeepsUnfilled, SubmitterKeepsUnfilled, RequestKeepsUnfilled
     DEF BaseInv, KeptInv
<1> QED
  BY <1>1, <1>2, <1>3 DEF KeptInv

LEMMA KeptHolds ==
  ASSUME "cancel_decide" \notin Overlap
  PROVE  Spec => []KeptInv
<1>1. KeptInv /\ [Next]_vars => KeptInv'
  BY KeptNext
<1> QED
  BY <1>1, KeptInit, PTL DEF Spec

FillsStay == \A p \in Proposals : proposal[p] = "filled" => proposal'[p] = "filled"

\* What still waits for the gate or for a human was not sent.
LEMMA FilledWasSent ==
  ASSUME OrderInv, NEW p \in Proposals, proposal[p] = "filled"
  PROVE  order[p] = "filled" /\ sent[p] > 0 /\ approval[p] # "pending"
BY DEF OrderInv, TypeOK, MirrorFollowsBroker, ApprovalInv

LEMMA RunnerKeepsFills ==
  ASSUME OrderInv, UnfilledInv, RunnerActs
  PROVE  FillsStay
<1>0. TypeOK /\ GateInv
  BY OrderInvParts
<1>1. CASE InsertProposals
  <2>1. \A p \in Proposals : sent[p] = 0
    BY <1>0, <1>1
       DEF InsertProposals, GateInv, Early, NothingJudged, OrderInv, ApprovalInv
  <2> QED
    BY <2>1, FilledWasSent DEF FillsStay
<1>2. CASE GateJudges
  BY <1>0, <1>2, GateLands, GateGives, Unjudged DEF FillsStay
<1>3. CASE ParkProposal
  BY <1>3, ParkFacts, FilledWasSent DEF UnfilledInv, FillsStay
<1>4. CASE CancelOrphans
  BY <1>4 DEF CancelOrphans, FillsStay
<1>5. ASSUME ~(InsertProposals \/ GateJudges \/ ParkProposal \/ CancelOrphans)
      PROVE  UNCHANGED proposal
  BY <1>5 DEF RunnerActs, RunnerStep, GateJudges, StartRun, BeginResume, Prelude,
     BeginStep, AgentAnswers, AgentInterrupts, AgentFails, Suspend,
     ResumeAnswers, ResumeInterrupts, ResumeFails, ResumeStatus, ResumePrelude,
     InvalidPortfolio, Prepare, GateFails, RefreshState, Finish, FailRun, tables
<1> QED
  BY <1>1, <1>2, <1>3, <1>4, <1>5 DEF FillsStay

LEMMA SubmitterKeepsFills ==
  ASSUME OrderInv, UnfilledInv, NEW s \in Submitters, SubmitStep(s) \/ CountStep(s)
  PROVE  FillsStay
<1>0. TypeOK /\ SubmitFrame(s)
  BY OrderInvParts, SubmitFrames
<1> DEFINE p == cur[s]
<1>1. ASSUME p \in Proposals, proposal[p] = "filled"
      PROVE  proposal'[p] = "filled"
  <2>1. order[p] = "filled" /\ alpaca[p] = "filled"
    BY <1>1, FilledWasSent DEF OrderInv, MirrorFollowsBroker
  <2>2. CASE MarkSubmitted(s)
    BY <1>1, <2>2 DEF MarkSubmitted, OrderInv, FollowInv, Submitting, SubmitPcs
  <2>3. CASE SettleProposal(s)
    BY <1>0, <1>1, <2>1, <2>3 DEF SettleProposal, TypeOK, Put
  <2>4. CASE RejectUnsubmitted(s)
    BY <2>1, <2>4 DEF RejectUnsubmitted, UnfilledInv
  <2>5. CASE ~(MarkSubmitted(s) \/ SettleProposal(s) \/ RejectUnsubmitted(s))
    BY <1>1, <2>5 DEF SubmitStep, SubmitAccepted, SubmitFailed, MirrorOrder,
       SettleOrder, PollTimeout, PollError, CountStep, CountApprovals,
       CountProposals, WriteStatus, tables
  <2> QED
    BY <2>2, <2>3, <2>4, <2>5
<1> QED
  BY <1>0, <1>1 DEF SubmitFrame, FillsStay

LEMMA RequestKeepsFills ==
  ASSUME OrderInv, CancelInv, Requests
  PROVE  FillsStay
<1>0. TypeOK
  BY OrderInvParts
<1>1. ASSUME NEW d \in Deciders, NEW p \in Proposals, Approve(d, p) \/ Reject(d, p)
      PROVE  FillsStay
  BY <1>0, <1>1 DEF Approve, Reject, Decidable, FillsStay, TypeOK
<1>2. CASE CancelProposals
  BY <1>2 DEF CancelProposals, CancelInv, FillsStay
<1>3. CASE ~CancelProposals /\ ~\E d \in Deciders, p \in Proposals :
                                   Approve(d, p) \/ Reject(d, p)
  BY <1>3 DEF Requests, BeginCancel, CancelStep, PluckProposals, CancelApprovals,
     CancelRunRow, AlpacaSettles, Crash, vars, tables, FillsStay
<1> QED
  BY <1>1, <1>2, <1>3

\* Nothing overwrites filled: not the runner when it inserts, rejects or parks,
\* not a second write of submitted, not a cancellation; if cancellations begin
\* only when nobody works on the run, whatever fails and wherever the process
\* dies.
THEOREM FillsAreKept ==
  "cancel_decide" \notin Overlap => (Spec => FilledIsKept)
<1> SUFFICES ASSUME "cancel_decide" \notin Overlap
             PROVE  Spec => FilledIsKept
  OBVIOUS
<1>1. KeptInv /\ [Next]_vars => FillsStay
  BY WhoMoves, RunnerKeepsFills, SubmitterKeepsFills, RequestKeepsFills
     DEF KeptInv, BaseInv
<1>2. Spec => [][FillsStay]_vars
  BY <1>1, KeptHolds, PTL DEF Spec
<1> QED
  BY <1>2, PTL DEF FilledIsKept, FillsStay

\* A cancelled run sends no order: a cancellation finds nobody at work and
\* leaves nothing that could be approved, whatever fails and wherever the
\* process dies.
THEOREM CancelledRunsDoNotTrade ==
  "cancel_decide" \notin Overlap => (Spec => CancelledNeverTrades)
<1> SUFFICES ASSUME "cancel_decide" \notin Overlap
             PROVE  Spec => CancelledNeverTrades
  OBVIOUS
<1>1. KeptInv /\ [Next]_vars => (runStatus = "cancelled" => sent' = sent)
  <2>1. ASSUME KeptInv, [Next]_vars, runStatus = "cancelled"
        PROVE  sent' = sent
    BY <2>1, WhoMoves, WorkExcludesCancel, RequestFrames, OrderInvParts
       DEF KeptInv, BaseInv, RequestFrame
  <2> QED
    BY <2>1
<1>2. Spec => [][runStatus = "cancelled" => sent' = sent]_vars
  BY <1>1, KeptHolds, PTL DEF Spec
<1> QED
  BY <1>2 DEF CancelledNeverTrades

----------------------------------------------------------------------------
(* What can still be decided shows in the run's status. *)

\* The runner when the status in memory is the name of an agent, so that an
\* error of its loop ends in failRun or in the clean-up after a fill.
WithAgent == {"call", "resume_prelude", "insert", "prepare"} \cup InLoop

\* While it is being cancelled, a run has nothing left that the cancellation
\* does not know of.
CancelShows ==
  /\ cancelPc # "idle" => ~Working /\ ~NothingJudged
  /\ cancelPc = "proposals" => \A p \in Proposals : Decidable(p) => p \in cancelIds
  /\ cancelPc \in {"approvals", "run"} => ~SomeDecidable

ShowInv ==
  /\ pc[Runner] \in WithAgent => memStatus \in Agents
  /\ pc[Runner] \in {"count_proposals", "write_status"} =>
       IF seen[Runner] THEN ~NothingJudged ELSE ~SomePending
  /\ runStatus = "awaiting_approval" => ~Working /\ ~NothingJudged
  /\ CancelShows
  /\ UndecidedShows

\* What the gate has judged stays judged.
LEMMA JudgedStays ==
  ASSUME OrderInv, [Next]_vars
  PROVE  NothingJudged' => NothingJudged
<1>0. TypeOK
  BY OrderInvParts
<1>1. ASSUME RunnerActs
      PROVE  NothingJudged' => NothingJudged
  BY <1>0, <1>1, CalmSteps, GateGives, ParkFacts DEF CalmRunner, NothingJudged
<1>2. ASSUME NEW s \in Submitters, SubmitStep(s) \/ CountStep(s)
      PROVE  NothingJudged' => NothingJudged
  BY <1>0, <1>2, SubmitFrames DEF SubmitFrame, NothingJudged
<1>3. CASE Requests
  BY <1>0, <1>3, RequestFrames DEF RequestFrame, NothingJudged
<1> QED
  BY <1>1, <1>2, <1>3, WhoMoves

LEMMA ShrunkDecidable ==
  ASSUME Shrinks
  PROVE  /\ \A p \in Proposals : Decidable(p)' => Decidable(p)
         /\ SomeDecidable' => SomeDecidable
         /\ SomePending' => SomePending
BY DEF Shrinks, SomeDecidable, Decidable, SomePending

LEMMA DecidableIsPending == SomeDecidable => SomePending
BY DEF SomeDecidable, Decidable, SomePending

\* The status in memory, and where the runner stops working when no statement
\* fails: at its end, in failRun, or before it has judged anything.
LEMMA RunnerRests ==
  ASSUME TypeOK, ShowInv, RunnerActs, "db" \notin Faults
  PROVE  /\ pc'[Runner] \in WithAgent => memStatus' \in Agents
         /\ pc'[Runner] = "idle" => Finish \/ FailRun \/ pc[Runner] \in Early
<1> USE WritesSucceed, RunnerGoes
    DEF WithAgent, InLoop, Judged, SubmitPcs, Early, Fails, OnError, NextAgent,
        SetRunStatus, TypeOK, Agents, Submitters, ShowInv, tables, runnerVars
<1>1. CASE StartRun \/ \E a \in Agents : BeginResume(a)
  BY <1>1 DEF StartRun, BeginResume
<1>2. CASE Prelude
  BY <1>2 DEF Prelude
<1>3. CASE AgentAnswers
  BY <1>3 DEF AgentAnswers
<1>4. CASE AgentInterrupts \/ AgentFails
  BY <1>4 DEF AgentInterrupts, AgentFails
<1>5. CASE BeginStep
  BY <1>5 DEF BeginStep
<1>6. CASE Suspend
  BY <1>6 DEF Suspend
<1>7. CASE ResumeAnswers \/ ResumeInterrupts \/ ResumeFails
  BY <1>7 DEF ResumeAnswers, ResumeInterrupts, ResumeFails
<1>8. CASE ResumeStatus
  BY <1>8 DEF ResumeStatus
<1>9. CASE ResumePrelude
  BY <1>9 DEF ResumePrelude
<1>10. CASE InsertProposals
  BY <1>10 DEF InsertProposals
<1>11. CASE InvalidPortfolio \/ GateFails
  BY <1>11 DEF InvalidPortfolio, GateFails
<1>12. CASE Prepare
  BY <1>12 DEF Prepare
<1>13. CASE GateRejects \/ GateSkips
  BY <1>13 DEF GateRejects, GateSkips, Advance
<1>14. CASE GateAllows \/ GateAsks
  BY <1>14 DEF GateAllows, GateAsks
<1>15. CASE ParkProposal
  BY <1>15 DEF ParkProposal, Advance
<1>16. CASE RefreshState
  BY <1>16 DEF RefreshState, Advance
<1>17. CASE Finish
  BY <1>17 DEF Finish
<1>18. CASE FailRun \/ CancelOrphans
  BY <1>18 DEF FailRun, CancelOrphans
<1> QED
  BY <1>1, <1>2, <1>3, <1>4, <1>5, <1>6, <1>7, <1>8, <1>9, <1>10, <1>11, <1>12,
     <1>13, <1>14, <1>15, <1>16, <1>17, <1>18
  DEF RunnerActs, RunnerStep

\* Only its last step brings the run to a status in which it is left.
LEMMA RunnerConcludes ==
  ASSUME TypeOK, RunnerActs, "db" \notin Faults,
         runStatus' \in {"awaiting_approval", "executed", "cancelled"}
  PROVE  \/ runStatus' = runStatus /\ RunnerStep
         \/ /\ Finish
            /\ pc'[Runner] = "idle"
            /\ runStatus' = IF pendingApprovals THEN "awaiting_approval"
                            ELSE "executed"
<1> USE WritesSucceed, RunnerGoes DEF SetRunStatus, TypeOK, Agents, tables
<1>1. CASE StartRun \/ \E a \in Agents : BeginResume(a)
  BY <1>1 DEF StartRun, BeginResume
<1>2. CASE BeginStep \/ Suspend \/ ResumeStatus
  BY <1>2 DEF BeginStep, Suspend, ResumeStatus
<1>3. CASE Finish
  BY <1>3 DEF Finish
<1>4. CASE FailRun
  BY <1>4 DEF FailRun
<1>5. CASE /\ RunnerStep
           /\ ~(BeginStep \/ Suspend \/ ResumeStatus \/ Finish \/ FailRun)
  BY <1>5 DEF RunnerStep, Prelude, AgentAnswers, AgentInterrupts, AgentFails,
       ResumeAnswers, ResumeInterrupts, ResumeFails, ResumePrelude,
       InsertProposals, InvalidPortfolio, Prepare, GateRejects, GateSkips,
       GateAllows, GateAsks, GateFails, ParkProposal, RefreshState, CancelOrphans
<1> QED
  BY <1>1, <1>2, <1>3, <1>4, <1>5 DEF RunnerActs

\* Everything the argument stands on.
ShowBase == BaseInv /\ ExecutedInv /\ OrphanInv /\ ShowInv

LEMMA RunnerShows ==
  ASSUME ShowBase, RunnerActs, "db" \notin Faults
  PROVE  ShowInv'
<1>0. /\ TypeOK /\ OrderInv /\ GateInv /\ BreachInv /\ ExecutedInv /\ OrphanInv
      /\ ShowInv /\ RunnerFrame /\ (NothingJudged' => NothingJudged)
  BY OrderInvParts, RunnerFrames, JudgedStays
     DEF ShowBase, BaseInv, RunnerActs, Next
<1>1. Working \/ NothingJudged
  BY <1>0, RunnerIsBusy DEF RunnerActs, StartRun, BeginResume, GateInv, Working
<1>2. runStatus # "awaiting_approval" /\ cancelPc = "idle" /\ cancelPc' = "idle"
  BY <1>0, <1>1 DEF ShowInv, CancelShows, RunnerFrame
<1>3. pc'[Runner] \notin {"count_proposals", "write_status"}
  BY <1>0, RunnerFails, WritesSucceed, RunnerGoes DEF CountPcs, CancelOrphans
<1>4. runStatus' = "awaiting_approval" => ~Working' /\ ~NothingJudged'
  <2> SUFFICES ASSUME runStatus' = "awaiting_approval"
               PROVE  ~Working' /\ ~NothingJudged'
    OBVIOUS
  <2>1. /\ pc'[Runner] = "idle"
        /\ pendingApprovals
    BY <1>0, <1>2, RunnerConcludes
  <2> QED
    BY <1>0, <2>1 DEF Working, BreachInv
<1>5. UndecidedShows'
  <2> SUFFICES ASSUME pc'[Runner] = "idle", SomeDecidable'
               PROVE  \/ runStatus' = "awaiting_approval"
                      \/ runStatus' = "failed" /\ ~RunnerFilled'
    BY DEF UndecidedShows, Working
  <2>1. CASE Finish
    <3>1. ~GateJudges /\ ~ParkProposal /\ pc[Runner] = "finish"
      BY <2>1 DEF Finish, GateJudges, GateRejects, GateSkips, GateAllows,
                  GateAsks, ParkProposal
    <3>2. SomePending
      BY <1>0, <3>1, CalmSteps, ShrunkDecidable, DecidableIsPending DEF CalmRunner
    <3>3. pendingApprovals
      BY <1>0, <3>1, <3>2 DEF ExecutedInv, LoopInv, InLoop, SomePending
    <3> QED
      BY <2>1, <3>3, WritesSucceed DEF Finish, SetRunStatus
  <2>2. CASE FailRun
    <3>1. runStatus' = "failed" /\ pc[Runner] = "fail"
      BY <2>2, WritesSucceed DEF FailRun, SetRunStatus
    <3> QED
      BY <1>0, <3>1, RunnerFillsNothing DEF OrphanInv
  <2>3. CASE pc[Runner] \in Early
    <3>1. NothingJudged /\ ~GateJudges /\ ~ParkProposal
      BY <1>0, <2>3, GateGives, ParkFacts DEF GateInv, Early
    <3>2. ~SomeDecidable
      BY <1>0, <3>1, NothingWaitsYet, DecidableIsPending
    <3> QED
      BY <1>0, <3>1, <3>2, CalmSteps, ShrunkDecidable DEF CalmRunner
  <2> QED
    BY <1>0, <2>1, <2>2, <2>3, RunnerRests
<1> QED
  BY <1>0, <1>2, <1>3, <1>4, <1>5, RunnerRests DEF ShowInv, CancelShows

\* The runner inside SubmitProposal or the clean-up stops working only with the
\* write of the status.
LEMMA RunnerSubmitRests ==
  ASSUME TypeOK, ShowInv, SubmitStep(Runner) \/ CountStep(Runner),
         "db" \notin Faults
  PROVE  /\ pc'[Runner] \in WithAgent => memStatus' \in Agents
         /\ pc'[Runner] = "idle" => WriteStatus(Runner)
<1>0. Runner \in Submitters /\ SubmitFrame(Runner)
  BY RunnerIsNoDecider, SubmitFrames
<1>1. pc[Runner] \in SubmitPcs => memStatus \in Agents
  BY DEF ShowInv, WithAgent, InLoop, Judged
<1>2. CASE CountStep(Runner)
  BY <1>0, <1>2, WritesSucceed, SubmitterGoesOn
     DEF CountStep, CountApprovals, CountProposals, WriteStatus, WithAgent,
         InLoop, Judged, SubmitPcs
<1>3. CASE SubmitStep(Runner)
  <2>1. pc[Runner] \in SubmitPcs
    BY <1>3 DEF SubmitStep, SubmitAccepted, SubmitFailed, MirrorOrder,
       MarkSubmitted, SettleOrder, SettleProposal, PollTimeout, PollError,
       RejectUnsubmitted, SubmitPcs
  <2>2. pc'[Runner] # "idle"
    <3> USE <1>0, <1>1, <2>1, WritesSucceed, SubmitterGoesOn
        DEF Returned, ReturnedError, OnError, Agents
    <3>1. CASE SubmitAccepted(Runner) \/ SubmitFailed(Runner)
      BY <3>1 DEF SubmitAccepted, SubmitFailed
    <3>2. CASE MirrorOrder(Runner) \/ MarkSubmitted(Runner) \/ SettleOrder(Runner)
      BY <3>2 DEF MirrorOrder, MarkSubmitted, SettleOrder
    <3>3. CASE SettleProposal(Runner)
      BY <3>3 DEF SettleProposal
    <3>4. CASE PollTimeout(Runner) \/ PollError(Runner)
      BY <3>4 DEF PollTimeout, PollError
    <3>5. CASE RejectUnsubmitted(Runner)
      BY <3>5 DEF RejectUnsubmitted, Advance, TypeOK
    <3> QED
      BY <1>3, <3>1, <3>2, <3>3, <3>4, <3>5 DEF SubmitStep
  <2> QED
    BY <1>0, <1>1, <2>1, <2>2 DEF SubmitFrame
<1> QED
  BY <1>2, <1>3

LEMMA RunnerSubmitShows ==
  ASSUME ShowBase, SubmitStep(Runner) \/ CountStep(Runner), "db" \notin Faults
  PROVE  ShowInv'
<1>0. /\ TypeOK /\ OrderInv /\ BreachInv /\ ShowInv /\ Runner \in Submitters
      /\ SubmitFrame(Runner) /\ Shrinks /\ (NothingJudged' => NothingJudged)
  BY OrderInvParts, RunnerIsNoDecider, SubmitFrames, SubmitShrinks, JudgedStays
     DEF ShowBase, BaseInv, Next
<1>1. Working
  BY <1>0 DEF SubmitFrame, SubmitPcs, CountPcs, Working
<1>2. runStatus # "awaiting_approval" /\ cancelPc = "idle" /\ cancelPc' = "idle"
  BY <1>0, <1>1 DEF ShowInv, CancelShows, SubmitFrame
<1>3. SomePending \/ SomeAwaiting => ~NothingJudged
  BY <1>0, NothingWaitsYet
<1>4. pc'[Runner] \in {"count_proposals", "write_status"} =>
        IF seen'[Runner] THEN ~NothingJudged' ELSE ~SomePending'
  BY <1>0, <1>3, CountFacts, ShrunkDecidable DEF ShowInv
<1>5. ASSUME WriteStatus(Runner)
      PROVE  IF seen[Runner]
             THEN runStatus' = "awaiting_approval" /\ ~NothingJudged'
             ELSE runStatus' = "failed" /\ ~SomePending'
  BY <1>0, <1>5, WritesSucceed, ShrunkDecidable DEF WriteStatus, ShowInv
<1>6. runStatus' = "awaiting_approval" => ~Working' /\ ~NothingJudged'
  <2> SUFFICES ASSUME runStatus' = "awaiting_approval"
               PROVE  ~Working' /\ ~NothingJudged'
    OBVIOUS
  <2>1. pc[Runner] = "write_status"
    BY <1>0, <1>2, CountFacts
  <2>2. WriteStatus(Runner)
    BY <2>1 DEF SubmitStep, SubmitAccepted, SubmitFailed, MirrorOrder,
       MarkSubmitted, SettleOrder, SettleProposal, PollTimeout, PollError,
       RejectUnsubmitted, CountStep, CountApprovals, CountProposals
  <2>3. pc'[Runner] = "idle"
    BY <1>0, <2>2, SubmitterGoesOn DEF WriteStatus
  <2> QED
    BY <1>5, <2>2, <2>3 DEF Working
<1>7. UndecidedShows'
  BY <1>0, <1>5, RunnerSubmitRests, DecidableIsPending, ShrunkDecidable
     DEF UndecidedShows, Working, SomeDecidable, SomePending, Decidable
<1> QED
  BY <1>0, <1>2, <1>4, <1>6, <1>7, RunnerSubmitRests DEF ShowInv, CancelShows

LEMMA DeciderShows ==
  ASSUME ShowBase, NEW d \in Deciders, SubmitStep(d) \/ CountStep(d),
         "db" \notin Faults
  PROVE  ShowInv'
<1>0. /\ TypeOK /\ OrderInv /\ ExecutedInv /\ ShowInv
      /\ d \in Submitters /\ d # Runner /\ SubmitFrame(d) /\ Shrinks
      /\ (NothingJudged' => NothingJudged)
  BY OrderInvParts, RunnerIsNoDecider, DeciderSubmits, SubmitFrames,
     SubmitShrinks, JudgedStays
     DEF ShowBase, BaseInv, Next
<1>1. pc[Runner] = "idle" /\ pc'[Runner] = "idle" /\ ~NothingJudged
  BY <1>0, RunnerIsNoDecider
     DEF SubmitFrame, SubmitPcs, CountPcs, ExecutedInv, DeciderInv
<1>2. /\ UNCHANGED cancelVars
      /\ \A p \in Proposals : Decidable(p)' => Decidable(p)
      /\ SomeDecidable' => SomeDecidable
  BY <1>0, ShrunkDecidable DEF SubmitFrame, cancelVars
<1>3. RunnerFilled' => RunnerFilled
  BY <1>0, FillIsNoted
<1>4. \/ runStatus' \in {runStatus, "awaiting_approval"}
      \/ ~SomeDecidable
  BY <1>0, CountFacts, DecidableIsPending DEF ExecutedInv, CountInv
<1>5. UndecidedShows'
  BY <1>0, <1>1, <1>2, <1>3, <1>4 DEF ShowInv, UndecidedShows, Working
<1>6. CancelShows'
  BY <1>0, <1>1, <1>2 DEF ShowInv, CancelShows, Working, cancelVars
<1> QED
  BY <1>0, <1>1, <1>5, <1>6
     DEF ShowInv, Working, WithAgent, InLoop, Judged, SubmitPcs

LEMMA RequestShows ==
  ASSUME ShowBase, Requests, {"db", "crash"} \cap Faults = {}
  PROVE  ShowInv'
<1>0. /\ TypeOK /\ OrderInv /\ BreachInv /\ ShowInv /\ RequestFrame /\ Shrinks
      /\ (NothingJudged' => NothingJudged) /\ "db" \notin Faults /\ ~Crash
  BY OrderInvParts, RequestFrames, JudgedStays
     DEF ShowBase, BaseInv, Requests, Next, Crash
<1>1. pc'[Runner] = pc[Runner]
  <2>1. ASSUME NEW d \in Deciders, NEW p \in Proposals, Approve(d, p) \/ Reject(d, p)
        PROVE  pc'[Runner] = pc[Runner]
    BY <1>0, <2>1, RunnerIsNoDecider, DeciderSubmits DEF Approve, Reject, Goto, TypeOK
  <2>2. CASE BeginCancel \/ CancelStep
    BY <2>2 DEF BeginCancel, CancelStep, PluckProposals, CancelProposals,
                CancelApprovals, CancelRunRow
  <2> QED
    BY <1>0, <2>1, <2>2 DEF Requests, AlpacaSettles, vars
<1>2. /\ \A p \in Proposals : Decidable(p)' => Decidable(p)
      /\ SomeDecidable' => SomeDecidable
      /\ SomePending' => SomePending
      /\ RunnerFilled' => RunnerFilled
  BY <1>0, ShrunkDecidable DEF RequestFrame, RunnerFilled
<1>3. /\ CancelShows'
      /\ runStatus' # runStatus => ~SomeDecidable
  <2>1. CASE CancelStep \/ BeginCancel
    <3> USE <1>0, <1>1, <1>2, <2>1, WritesSucceed DEF ShowInv, CancelShows, Working
    <3>1. CASE BeginCancel
      BY <3>1 DEF BeginCancel, tables
    <3>2. CASE PluckProposals
      <4>1. /\ cancelPc = "pluck"
            /\ UNCHANGED <<proposal, approval, runStatus>>
            /\ \/ cancelPc' = "idle"
               \/ /\ cancelIds' = {p \in Proposals : proposal[p] = "awaiting_approval"}
                  /\ cancelPc' = IF cancelIds' = {} THEN "run" ELSE "proposals"
        BY <3>2 DEF PluckProposals, tables
      <4>2. CASE cancelPc' = "idle"
        BY <4>1, <4>2
      <4>3. CASE cancelIds' = {p \in Proposals : proposal[p] = "awaiting_approval"}
        <5>1. \A p \in Proposals : Decidable(p) => p \in cancelIds'
          BY <4>3 DEF Decidable
        <5>2. cancelIds' = {} => ~SomeDecidable
          BY <5>1 DEF SomeDecidable
        <5> QED
          BY <4>1, <5>1, <5>2
      <4> QED
        BY <4>1, <4>2, <4>3
    <3>3. CASE CancelProposals
      <4>1. /\ cancelPc = "proposals" /\ cancelPc' = "approvals"
            /\ UNCHANGED <<approval, runStatus>>
            /\ \A p \in Proposals : p \in cancelIds => proposal'[p] = "cancelled"
        BY <3>3 DEF CancelProposals
      <4>2. ~SomeDecidable'
        BY <4>1 DEF SomeDecidable, Decidable
      <4> QED
        BY <4>1, <4>2
    <3>4. CASE CancelApprovals
      BY <3>4 DEF CancelApprovals
    <3>5. CASE CancelRunRow
      BY <3>5 DEF CancelRunRow
    <3> QED
      BY <3>1, <3>2, <3>3, <3>4, <3>5 DEF CancelStep
  <2>2. CASE ~(CancelStep \/ BeginCancel)
    <3>1. UNCHANGED <<cancelVars, runStatus>>
      BY <1>0, <2>2
         DEF Requests, Approve, Reject, AlpacaSettles, vars, tables, cancelVars
    <3> QED
      BY <1>0, <1>1, <1>2, <3>1 DEF ShowInv, CancelShows, Working, cancelVars
  <2> QED
    BY <2>1, <2>2
<1>4. UndecidedShows'
  BY <1>0, <1>1, <1>2, <1>3 DEF ShowInv, UndecidedShows, Working
<1> QED
  BY <1>0, <1>1, <1>2, <1>3, <1>4 DEF ShowInv, RequestFrame, Working

LEMMA ShowInit == Init => ShowInv
BY RunnerIsNoDecider
   DEF Init, ShowInv, CancelShows, UndecidedShows, SomeDecidable, Decidable,
       WithAgent, InLoop, Judged, SubmitPcs

LEMMA ShowNext ==
  ASSUME {"db", "crash"} \cap Faults = {}, ShowBase, [Next]_vars
  PROVE  ShowInv'
BY WhoMoves, RunnerShows, RunnerSubmitShows, DeciderShows, RequestShows
   DEF Submitters

LEMMA OrphanNext ==
  ASSUME "db" \notin Faults, OrderInv, OrphanInv, [Next]_vars
  PROVE  OrphanInv'
BY WhoMoves, RunnerKeepsOrphans, SubmitterKeepsOrphans, RequestKeepsOrphans

\* Once the runner is done, a run with an approval that can still be given
\* awaits approval, or failed before it had filled anything; however many
\* decisions and cancellations overlap.  Beside a working runner, after a
\* failed statement or a crash it need not: TLC finds each of the three.
THEOREM UndecidedIsShown ==
  "decide_run" \notin Overlap /\ {"db", "crash"} \cap Faults = {} =>
    (Spec => []UndecidedShows)
<1> SUFFICES ASSUME "decide_run" \notin Overlap, {"db", "crash"} \cap Faults = {}
             PROVE  Spec => []UndecidedShows
  OBVIOUS
<1>1. Init => ShowBase
  BY OrderInvInit, BreachInit, ExecutedInit, OrphanInit, ShowInit
     DEF ShowBase, BaseInv
<1>2. ShowBase /\ [Next]_vars => ShowBase'
  BY OrderInvNext, BreachNext, ExecutedNext, OrphanNext, ShowNext
     DEF ShowBase, BaseInv
<1>3. ShowBase => UndecidedShows
  BY DEF ShowBase, ShowInv
<1> QED
  BY <1>1, <1>2, <1>3, PTL DEF Spec

----------------------------------------------------------------------------
(* The status of a run that is left alone says what its rows say. *)

\* Nothing fails but agents and Alpaca, decisions and cancellations wait for
\* the runner and for each other, and there is one decision at a time.
OneAtATime ==
  /\ Overlap = {}
  /\ Faults \cap {"db", "crash"} = {}
  /\ \A d, e \in Deciders : d = e

WholeInv ==
  /\ BaseInv
  /\ ExecutedInv
  /\ CancelInv
  /\ UnfilledInv
  /\ RowsInv

\* Approval and proposal, with no request in between.
Paired(p) == approval[p] = "pending" <=> proposal[p] = "awaiting_approval"

DecidableStays ==
  \A p \in Proposals : Decidable(p) =>
    approval'[p] = "pending" /\ proposal'[p] = "awaiting_approval"

LEMMA StaysDecidable ==
  ASSUME DecidableStays, SomeDecidable
  PROVE  SomeDecidable'
BY DEF DecidableStays, SomeDecidable, Decidable

\* The runner's steps between proposals leave what can be decided as it is.
LEMMA CalmKeepsRows ==
  ASSUME OrderInv, BreachInv, RunnerActs, ~GateJudges, ~ParkProposal
  PROVE  /\ pc[Runner] # "await"
         /\ UNCHANGED approval
         /\ \A p \in Proposals :
              proposal'[p] = "awaiting_approval" <=> proposal[p] = "awaiting_approval"
<1>0. TypeOK
  BY OrderInvParts
<1>1. /\ UNCHANGED approval
      /\ \A p \in Proposals :
           proposal'[p] = "awaiting_approval" => proposal[p] = "awaiting_approval"
  BY <1>0, CalmSteps DEF CalmRunner, Shrinks
<1>2. pc[Runner] # "await"
  BY DEF RunnerActs, RunnerStep, GateJudges, StartRun, BeginResume, Prelude,
     BeginStep, AgentAnswers, AgentInterrupts, AgentFails, Suspend,
     ResumeAnswers, ResumeInterrupts, ResumeFails, ResumeStatus, ResumePrelude,
     InsertProposals, InvalidPortfolio, Prepare, GateFails, RefreshState, Finish,
     FailRun, CancelOrphans
<1>3. \A p \in Proposals :
        proposal[p] = "awaiting_approval" => proposal'[p] = "awaiting_approval"
  <2>1. CASE InsertProposals
    <3>1. ~SomeAwaiting
      BY <2>1, OrderInvParts, NothingWaitsYet DEF InsertProposals, GateInv, Early
    <3> QED
      BY <3>1 DEF SomeAwaiting
  <2>2. CASE CancelOrphans
    BY <2>2 DEF CancelOrphans
  <2>3. CASE ~(InsertProposals \/ CancelOrphans)
    BY <2>3 DEF RunnerActs, RunnerStep, GateJudges, StartRun, BeginResume,
       Prelude, BeginStep, AgentAnswers, AgentInterrupts, AgentFails, Suspend,
       ResumeAnswers, ResumeInterrupts, ResumeFails, ResumeStatus, ResumePrelude,
       InvalidPortfolio, Prepare, GateFails, RefreshState, Finish, FailRun, tables
  <2> QED
    BY <2>1, <2>2, <2>3
<1> QED
  BY <1>1, <1>2, <1>3

LEMMA RunnerKeepsPairs ==
  ASSUME OrderInv, BreachInv, UnfilledInv, RunnerActs, "db" \notin Faults,
         \A p \in Proposals :
           Paired(p) \/ (pc[Runner] = "await" /\ p = cur[Runner])
  PROVE  /\ \A p \in Proposals :
              Paired(p)' \/ (pc'[Runner] = "await" /\ p = cur'[Runner]
                             /\ proposal'[p] # "awaiting_approval")
         /\ DecidableStays
         /\ ParkProposal => SomeDecidable'
<1>0. TypeOK /\ Writes = {"ok"} /\ (\A new, old : Put("ok", new, old) = new)
  BY OrderInvParts, WritesSucceed
<1>1. ASSUME ~GateJudges, ~ParkProposal
      PROVE  (\A p \in Proposals : Paired(p)') /\ DecidableStays
  BY <1>1, CalmKeepsRows DEF Paired, DecidableStays, Decidable
<1>2. CASE GateJudges
  <2> DEFINE r == cur[Runner]
  <2>1. /\ pc[Runner] = "gate"
        /\ r \in Proposals
        /\ approval[r] = "none"
        /\ proposal[r] # "awaiting_approval"
    BY <1>2, GateGives, Unjudged DEF BreachInv
  <2>2. \A p \in Proposals : p # r =>
          proposal'[p] = proposal[p] /\ approval'[p] = approval[p]
    BY <1>0, <1>2, GateLands
  <2>3. proposal'[r] # "awaiting_approval"
    BY <1>0, <1>2, <2>1, GateLands
  <2>4. GateAsks => pc'[Runner] = "await" /\ UNCHANGED cur
    BY <1>0, RunnerGoes DEF GateAsks
  <2>5. ~GateAsks => approval'[r] = "none"
    BY <1>0, <1>2, <2>1, GateLands
  <2>6. ~ParkProposal
    BY <2>1 DEF ParkProposal
  <2> QED
    BY <2>1, <2>2, <2>3, <2>4, <2>5, <2>6 DEF Paired, DecidableStays, Decidable
<1>3. CASE ParkProposal
  <2> DEFINE r == cur[Runner]
  <2>1. /\ pc[Runner] = "await"
        /\ r \in Proposals
        /\ UNCHANGED approval
        /\ \A p \in Proposals : p # r => proposal'[p] = proposal[p]
    BY <1>3, ParkFacts
  <2>2. approval[r] = "pending"
    BY <2>1 DEF UnfilledInv
  <2>3. proposal'[r] = "awaiting_approval"
    BY <1>0, <1>3, <2>1 DEF ParkProposal, TypeOK
  <2> QED
    BY <2>1, <2>2, <2>3 DEF Paired, DecidableStays, Decidable, SomeDecidable
<1> QED
  BY <1>1, <1>2, <1>3

LEMMA RunnerKeepsRows ==
  ASSUME WholeInv, RunnerActs, "db" \notin Faults
  PROVE  RowsInv'
<1>0. /\ TypeOK /\ OrderInv /\ GateInv /\ BreachInv /\ ExecutedInv /\ CancelInv
      /\ UnfilledInv /\ RowsInv /\ RunnerFrame
  BY OrderInvParts, RunnerFrames DEF WholeInv, BaseInv
<1>1. \A d \in Deciders : pc[d] = "idle" /\ pc'[d] = "idle"
  BY <1>0, RunnerIsAlone DEF ExecutedInv, RunnerFrame
<1>2. cancelPc = "idle" /\ cancelPc' = "idle" /\ runStatus # "cancelled"
  BY <1>0, WorkExcludesCancel DEF RunnerFrame
<1>3. \A p \in Proposals : Paired(p) \/ (pc[Runner] = "await" /\ p = cur[Runner])
  BY <1>0, <1>1, <1>2 DEF RowsInv, PairInv, Paired
<1>4. /\ \A p \in Proposals :
           Paired(p)' \/ (pc'[Runner] = "await" /\ p = cur'[Runner]
                          /\ proposal'[p] # "awaiting_approval")
      /\ DecidableStays
      /\ ParkProposal => SomeDecidable'
  BY <1>0, <1>3, RunnerKeepsPairs
<1>5. PairInv'
  BY <1>4 DEF PairInv, Paired
<1>6. runStatus' \in {"awaiting_approval", "executed", "cancelled"} =>
        /\ Finish
        /\ pc'[Runner] = "idle"
        /\ runStatus' = IF pendingApprovals THEN "awaiting_approval" ELSE "executed"
  <2>1. RunnerStep => Working
    BY RunnerIsBusy DEF Working
  <2> QED
    BY <1>0, <2>1, RunnerConcludes DEF RowsInv
<1>7. pc'[Runner] \in InLoop /\ pendingApprovals' => SomeDecidable'
  <2>1. ASSUME ~GateJudges, ~ParkProposal, pc'[Runner] \in InLoop, pendingApprovals'
        PROVE  SomeDecidable'
    <3>1. pc[Runner] \in {"prepare", "next"} /\ pendingApprovals
      BY <1>0, <2>1, CalmLands
    <3>2. pc[Runner] # "prepare"
      BY <1>0, <3>1 DEF GateInv, Early, BreachInv
    <3> QED
      BY <1>0, <1>4, <3>1, <3>2, StaysDecidable
         DEF RowsInv, PointInv, InLoop, Judged
  <2>2. CASE GateJudges
    BY <1>0, <1>4, <2>2, GateGives, StaysDecidable DEF RowsInv, PointInv, InLoop
  <2> QED
    BY <1>4, <2>1, <2>2
<1>8. pc'[Runner] \notin {"count_proposals", "write_status"}
  BY <1>0, RunnerFails, WritesSucceed, RunnerGoes DEF CountPcs, CancelOrphans
<1>9. runStatus' = "awaiting_approval" => SomeDecidable'
  <2> SUFFICES ASSUME runStatus' = "awaiting_approval"
               PROVE  SomeDecidable'
    OBVIOUS
  <2>1. pc[Runner] = "finish" /\ pendingApprovals
    BY <1>6 DEF Finish
  <2> QED
    BY <1>0, <1>4, <2>1, StaysDecidable DEF RowsInv, PointInv, InLoop
<1>10. PointInv'
  BY <1>1, <1>7, <1>8, <1>9 DEF PointInv, Submitters
<1> QED
  BY <1>5, <1>6, <1>10 DEF RowsInv, Working

\* What a submitter works on is decided, so it changes nothing decidable.
LEMMA SubmitterKeepsDecidable ==
  ASSUME OrderInv, NEW s \in Submitters, SubmitStep(s) \/ CountStep(s)
  PROVE  /\ \A p \in Proposals : approval[p] = "pending" => proposal'[p] = proposal[p]
         /\ DecidableStays
<1>0. TypeOK /\ SubmitFrame(s)
  BY OrderInvParts, SubmitFrames
<1>1. CASE pc[s] \in SubmitPcs
  BY <1>0, <1>1, SubmitterKnows DEF SubmitFrame, DecidableStays, Decidable
<1>2. CASE pc[s] \notin SubmitPcs
  BY <1>0, <1>2 DEF SubmitPcs, SubmitStep, SubmitAccepted, SubmitFailed,
     MirrorOrder, MarkSubmitted, SettleOrder, SettleProposal, PollTimeout,
     PollError, RejectUnsubmitted, CountStep, CountApprovals, CountProposals,
     WriteStatus, tables, SubmitFrame, DecidableStays, Decidable
<1> QED
  BY <1>1, <1>2

\* A decision's goroutine takes its proposal out of the waiting ones before it
\* leaves SubmitProposal, and ends by writing the run's status.
LEMMA DeciderGoesOn ==
  ASSUME TypeOK, NEW d \in Deciders, SubmitStep(d) \/ CountStep(d),
         "db" \notin Faults
  PROVE  /\ pc[d] \in {"submit", "mirror", "mark", "refuse"} =>
              \/ pc'[d] \in {"submit", "mirror", "mark", "refuse"}
              \/ cur[d] \in Proposals => proposal'[cur[d]] # "awaiting_approval"
         /\ pc'[d] = "idle" => pc[d] = "write_status"
         /\ pc'[d] = "write_status" => pc[d] = "count_proposals"
<1> USE DeciderSubmits, RunnerIsNoDecider, WritesSucceed, SubmitterGoesOn
    DEF Returned, ReturnedError
<1>1. CASE SubmitAccepted(d) \/ SubmitFailed(d) \/ MirrorOrder(d)
  BY <1>1 DEF SubmitAccepted, SubmitFailed, MirrorOrder
<1>2. CASE MarkSubmitted(d)
  BY <1>2 DEF MarkSubmitted, TypeOK
<1>3. CASE SettleOrder(d) \/ SettleProposal(d)
  BY <1>3 DEF SettleOrder, SettleProposal
<1>4. CASE PollTimeout(d) \/ PollError(d)
  BY <1>4 DEF PollTimeout, PollError
<1>5. CASE RejectUnsubmitted(d)
  BY <1>5 DEF RejectUnsubmitted, TypeOK
<1>6. CASE CountStep(d)
  BY <1>6 DEF CountStep, CountApprovals, CountProposals, WriteStatus
<1> QED
  BY <1>1, <1>2, <1>3, <1>4, <1>5, <1>6 DEF SubmitStep

LEMMA RunnerSubmitKeepsRows ==
  ASSUME WholeInv, SubmitStep(Runner) \/ CountStep(Runner)
  PROVE  RowsInv'
<1>0. /\ TypeOK /\ OrderInv /\ ExecutedInv /\ CancelInv /\ RowsInv
      /\ SubmitFrame(Runner) /\ Shrinks /\ Runner \in Submitters
  BY OrderInvParts, RunnerIsNoDecider, SubmitFrames, SubmitShrinks
     DEF WholeInv, BaseInv
<1>1. pc[Runner] \in SubmitPcs \cup CountPcs /\ pc'[Runner] # "await"
  BY <1>0, SubmitLands DEF SubmitFrame, SubmitGoes, SubmitPcs, CountPcs
<1>2. pc[Runner] # "idle" /\ pc[Runner] # "await"
  BY <1>1 DEF SubmitPcs, CountPcs
<1>3. \A d \in Deciders : pc[d] = "idle" /\ pc'[d] = "idle"
  BY <1>0, <1>2, RunnerIsNoDecider, DeciderSubmits
     DEF ExecutedInv, DeciderInv, SubmitFrame
<1>4. cancelPc = "idle" /\ cancelPc' = "idle" /\ runStatus # "cancelled"
  BY <1>0, WorkExcludesCancel DEF SubmitFrame
<1>5. \A p \in Proposals : Paired(p)
  BY <1>0, <1>2, <1>3, <1>4 DEF RowsInv, PairInv, Paired
<1>6. /\ \A p \in Proposals : approval[p] = "pending" => proposal'[p] = proposal[p]
      /\ DecidableStays
  BY <1>0, SubmitterKeepsDecidable
<1>7. PairInv'
  BY <1>0, <1>5, <1>6 DEF PairInv, Paired, SubmitFrame, Shrinks
<1>8. SomePending \/ SomeAwaiting => SomeDecidable'
  BY <1>5, <1>6, StaysDecidable
     DEF SomePending, SomeAwaiting, Paired, SomeDecidable, Decidable
<1>9. pc'[Runner] \in InLoop /\ pendingApprovals' => SomeDecidable'
  <2>1. pc'[Runner] \in InLoop => pc[Runner] \in InLoop
    BY <1>0, CountTargets DEF InLoop, Judged, SubmitPcs, CountPcs
  <2> QED
    BY <1>0, <1>6, <2>1, StaysDecidable DEF SubmitFrame, RowsInv, PointInv
<1>10. pc'[Runner] \in {"count_proposals", "write_status"} /\ seen'[Runner]
         => SomeDecidable'
  BY <1>0, <1>6, <1>8, CountFacts, StaysDecidable DEF RowsInv, PointInv
<1>11. runStatus' \in {"awaiting_approval", "executed", "cancelled"} =>
         /\ pc'[Runner] = "idle"
         /\ runStatus' = "awaiting_approval" => SomeDecidable'
         /\ runStatus' # "cancelled"
  <2>1. ASSUME runStatus' # runStatus
        PROVE  /\ pc[Runner] = "write_status"
               /\ pc'[Runner] = "idle"
               /\ runStatus' = IF seen[Runner] THEN "awaiting_approval" ELSE "failed"
    <3>1. /\ pc[Runner] = "write_status"
          /\ runStatus' = IF seen[Runner] THEN "awaiting_approval" ELSE "failed"
      BY <1>0, <2>1, CountFacts
    <3>2. WriteStatus(Runner)
      BY <3>1 DEF SubmitStep, SubmitAccepted, SubmitFailed, MirrorOrder,
         MarkSubmitted, SettleOrder, SettleProposal, PollTimeout, PollError,
         RejectUnsubmitted, CountStep, CountApprovals, CountProposals
    <3> QED
      BY <1>0, <3>1, <3>2, SubmitterGoesOn DEF WriteStatus
  <2>2. runStatus \notin {"awaiting_approval", "executed", "cancelled"}
    BY <1>0, <1>2 DEF RowsInv, Working
  <2> QED
    BY <1>0, <1>6, <2>1, <2>2, StaysDecidable DEF RowsInv, PointInv
<1>12. PointInv'
  BY <1>3, <1>9, <1>10, <1>11 DEF PointInv, Submitters
<1> QED
  BY <1>7, <1>11, <1>12 DEF RowsInv, Working

LEMMA DeciderKeepsRows ==
  ASSUME WholeInv, OneAtATime, NEW d \in Deciders, SubmitStep(d) \/ CountStep(d)
  PROVE  RowsInv'
<1>0. /\ TypeOK /\ OrderInv /\ ExecutedInv /\ CancelInv /\ RowsInv
      /\ d \in Submitters /\ d # Runner /\ SubmitFrame(d) /\ Shrinks
      /\ "db" \notin Faults
  BY OrderInvParts, RunnerIsNoDecider, DeciderSubmits, SubmitFrames, SubmitShrinks
     DEF WholeInv, BaseInv, OneAtATime
<1>1. pc[d] # "idle"
  BY <1>0 DEF SubmitFrame, SubmitPcs, CountPcs
<1>2. pc[Runner] = "idle" /\ pc'[Runner] = "idle"
  BY <1>0, <1>1, RunnerIsNoDecider DEF ExecutedInv, DeciderInv, SubmitFrame
<1>3. \A e \in Deciders : e = d
  BY DEF OneAtATime
<1>4. cancelPc = "idle" /\ cancelPc' = "idle" /\ runStatus # "cancelled"
  BY <1>0, WorkExcludesCancel DEF SubmitFrame
<1>5. \A p \in Proposals :
        /\ approval[p] = "pending" => proposal[p] = "awaiting_approval"
        /\ proposal[p] = "awaiting_approval" =>
             \/ approval[p] = "pending"
             \/ cur[d] = p /\ pc[d] \in {"submit", "mirror", "mark", "refuse"}
  BY <1>0, <1>2, <1>3, <1>4 DEF RowsInv, PairInv
<1>6. /\ \A p \in Proposals : approval[p] = "pending" => proposal'[p] = proposal[p]
      /\ DecidableStays
  BY <1>0, SubmitterKeepsDecidable
<1>7. PairInv'
  BY <1>0, <1>5, <1>6, DeciderGoesOn DEF PairInv, SubmitFrame, Shrinks
<1>8. /\ SomePending => SomeDecidable'
      /\ SomeAwaiting /\ pc[d] = "count_proposals" => SomeDecidable'
  BY <1>5, <1>6, StaysDecidable
     DEF SomePending, SomeAwaiting, SomeDecidable, Decidable
<1>9. pc'[d] \in {"count_proposals", "write_status"} /\ seen'[d] => SomeDecidable'
  BY <1>0, <1>6, <1>8, CountFacts, StaysDecidable DEF RowsInv, PointInv
<1>10. pc'[d] = "idle" /\ runStatus' = "awaiting_approval" => SomeDecidable'
  <2> SUFFICES ASSUME pc'[d] = "idle", runStatus' = "awaiting_approval"
               PROVE  SomeDecidable'
    OBVIOUS
  <2>1. pc[d] = "write_status"
    BY <1>0, DeciderGoesOn
  <2>2. WriteStatus(d)
    BY <2>1 DEF SubmitStep, SubmitAccepted, SubmitFailed, MirrorOrder,
       MarkSubmitted, SettleOrder, SettleProposal, PollTimeout, PollError,
       RejectUnsubmitted, CountStep, CountApprovals, CountProposals
  <2>3. seen[d]
    BY <1>0, <2>2, WritesSucceed DEF WriteStatus
  <2> QED
    BY <1>0, <1>6, <2>1, <2>3, StaysDecidable DEF RowsInv, PointInv
<1>11. runStatus' # "cancelled"
  BY <1>0, <1>4, CountFacts
<1>12. PointInv'
  <2>1. runStatus' = "awaiting_approval" =>
          SomeDecidable' \/ \E e \in Deciders : pc'[e] # "idle"
    BY <1>10
  <2> QED
    BY <1>2, <1>3, <1>9, <2>1 DEF PointInv, Submitters, InLoop, Judged, SubmitPcs
<1> QED
  BY <1>2, <1>7, <1>11, <1>12 DEF RowsInv, Working

LEMMA DecisionKeepsRows ==
  ASSUME WholeInv, OneAtATime, NEW d \in Deciders, NEW p \in Proposals,
         Approve(d, p) \/ Reject(d, p)
  PROVE  RowsInv'
<1>0. /\ TypeOK /\ CancelInv /\ RowsInv /\ d \in Submitters /\ d # Runner
      /\ "db" \notin Faults /\ MayDecide /\ Decidable(p) /\ pc[d] = "idle"
  BY OrderInvParts, RunnerIsNoDecider, DeciderSubmits
     DEF WholeInv, BaseInv, OneAtATime, Approve, Reject
<1>1. pc[Runner] = "idle" /\ cancelPc = "idle" /\ runStatus # "cancelled"
  BY <1>0 DEF OneAtATime, MayDecide, Decidable, CancelInv, SomeAwaiting
<1>2. \A e \in Deciders : e = d
  BY DEF OneAtATime
<1>3. \A q \in Proposals : Paired(q)
  BY <1>0, <1>1, <1>2 DEF RowsInv, PairInv, Paired
<1>4. /\ pc'[Runner] = "idle"
      /\ pc'[d] = IF Approve(d, p) THEN "submit" ELSE "count_approvals"
      /\ UNCHANGED <<runStatus, cancelPc>>
  <2>1. /\ Approve(d, p) => Goto(d, "submit")
        /\ Reject(d, p) => Goto(d, "count_approvals")
        /\ UNCHANGED <<runStatus, cancelPc>>
    BY <1>0, WritesSucceed DEF Approve, Reject, cancelVars
  <2> QED
    BY <1>0, <1>1, <2>1, RunnerIsNoDecider, SubmitterGoesOn
<1>5. /\ \A q \in Proposals : q # p =>
           approval'[q] = approval[q] /\ proposal'[q] = proposal[q]
      /\ approval'[p] \in {"approved", "rejected"}
      /\ \/ proposal'[p] = "rejected"
         \/ Approve(d, p) /\ cur'[d] = p
  BY <1>0, WritesSucceed DEF Approve, Reject, TypeOK
<1>6. PairInv'
  BY <1>3, <1>4, <1>5 DEF PairInv, Paired
<1>7. PointInv'
  BY <1>2, <1>4 DEF PointInv, Submitters, InLoop, Judged, SubmitPcs
<1> QED
  BY <1>1, <1>4, <1>6, <1>7 DEF RowsInv, Working

LEMMA CancellationKeepsRows ==
  ASSUME WholeInv, OneAtATime, BeginCancel \/ CancelStep
  PROVE  RowsInv'
<1>0. /\ TypeOK /\ CancelInv /\ RowsInv /\ Runner \in Submitters
      /\ "db" \notin Faults
  BY OrderInvParts, RunnerIsNoDecider DEF WholeInv, BaseInv, OneAtATime
<1>1. /\ AllIdle
      /\ UNCHANGED <<pc, cur, seen, pendingApprovals>>
      /\ runStatus = "awaiting_approval"
  BY <1>0 DEF BeginCancel, MayCancel, OneAtATime, AllIdle, CancelInv, CancelStep,
     PluckProposals, CancelProposals, CancelApprovals, CancelRunRow, runnerVars
<1>2. /\ \A s \in Submitters : pc[s] = "idle" /\ pc'[s] = "idle"
      /\ pc[Runner] = "idle" /\ pc'[Runner] = "idle"
      /\ ~Working'
  BY <1>0, <1>1 DEF AllIdle, Working
<1>3. \A p \in Proposals :
        /\ approval[p] = "pending" =>
             \/ proposal[p] = "awaiting_approval"
             \/ cancelPc = "approvals" /\ p \in cancelIds
        /\ proposal[p] = "awaiting_approval" => approval[p] = "pending"
  BY <1>0, <1>2, DeciderSubmits DEF RowsInv, PairInv
<1>4. SomeDecidable \/ cancelPc \in {"approvals", "run"}
  BY <1>0, <1>1, <1>2, DeciderSubmits DEF RowsInv, PointInv
<1>5. /\ \A p \in Proposals :
           /\ approval'[p] = "pending" =>
                \/ proposal'[p] = "awaiting_approval"
                \/ cancelPc' = "approvals" /\ p \in cancelIds'
           /\ proposal'[p] = "awaiting_approval" => approval'[p] = "pending"
      /\ runStatus' = "awaiting_approval" =>
           SomeDecidable' \/ cancelPc' \in {"approvals", "run"}
      /\ runStatus' = "cancelled" => ~SomePending'
      /\ runStatus' \in {"awaiting_approval", "cancelled"}
  <2>1. CASE BeginCancel \/ PluckProposals
    <3>1. /\ cancelPc \in {"idle", "pluck"}
          /\ UNCHANGED <<approval, proposal, runStatus>>
      BY <2>1 DEF BeginCancel, PluckProposals, tables
    <3> QED
      BY <1>1, <1>3, <1>4, <3>1 DEF SomeDecidable, Decidable
  <2>2. CASE CancelProposals
    <3>1. /\ cancelPc = "proposals" /\ cancelPc' = "approvals"
          /\ UNCHANGED <<approval, runStatus, cancelIds>>
          /\ \A p \in Proposals : proposal'[p] =
               IF p \in cancelIds THEN "cancelled" ELSE proposal[p]
      BY <1>0, <2>2, WritesSucceed DEF CancelProposals
    <3>2. cancelIds = {p \in Proposals : proposal[p] = "awaiting_approval"}
      BY <1>0, <3>1 DEF CancelInv
    <3> QED
      BY <1>1, <1>3, <3>1, <3>2
  <2>3. CASE CancelApprovals
    <3>1. /\ cancelPc = "approvals" /\ cancelPc' = "run"
          /\ UNCHANGED <<proposal, runStatus, cancelIds>>
          /\ \A p \in Proposals : approval'[p] =
               IF p \in cancelIds /\ approval[p] = "pending" THEN "cancelled"
               ELSE approval[p]
      BY <1>0, <2>3, WritesSucceed DEF CancelApprovals
    <3>2. \A p \in Proposals : proposal[p] # "awaiting_approval"
      BY <1>0, <3>1 DEF CancelInv, SomeAwaiting
    <3> QED
      BY <1>1, <1>3, <3>1, <3>2
  <2>4. CASE CancelRunRow
    <3>1. /\ cancelPc = "run"
          /\ UNCHANGED <<approval, proposal>>
          /\ runStatus' = "cancelled"
      BY <1>0, <2>4, WritesSucceed DEF CancelRunRow
    <3>2. \A p \in Proposals : proposal[p] # "awaiting_approval"
      BY <1>0, <3>1 DEF CancelInv, SomeAwaiting
    <3> QED
      BY <1>3, <3>1, <3>2 DEF SomePending
  <2> QED
    BY <2>1, <2>2, <2>3, <2>4 DEF CancelStep
<1>6. PairInv'
  BY <1>5 DEF PairInv
<1>7. PointInv'
  BY <1>2, <1>5, DeciderSubmits DEF PointInv, InLoop, Judged, SubmitPcs
<1> QED
  BY <1>2, <1>5, <1>6, <1>7 DEF RowsInv

LEMMA RestKeepsRows ==
  ASSUME RowsInv, (\E p \in Proposals : AlpacaSettles(p)) \/ UNCHANGED vars
  PROVE  RowsInv'
BY DEF AlpacaSettles, vars, tables, runnerVars, cancelVars, RowsInv, PairInv,
       PointInv, SomeDecidable, Decidable, SomePending, Working

LEMMA WholeNext ==
  ASSUME OneAtATime, WholeInv, [Next]_vars
  PROVE  WholeInv'
<1>0. "decide_run" \notin Overlap /\ "cancel_decide" \notin Overlap /\ ~Crash
      /\ "db" \notin Faults
  BY DEF OneAtATime, Crash
<1>1. ExecutedInv'
  BY <1>0, ExecutedNext DEF WholeInv
<1>2. BaseInv' /\ CancelInv' /\ UnfilledInv'
  BY <1>0, KeptNext DEF WholeInv, KeptInv
<1>3. RowsInv'
  <2>1. ASSUME NEW s \in Submitters, SubmitStep(s) \/ CountStep(s)
        PROVE  RowsInv'
    BY <2>1, RunnerSubmitKeepsRows, DeciderKeepsRows DEF Submitters
  <2>2. CASE Requests
    BY <1>0, <2>2, DecisionKeepsRows, CancellationKeepsRows, RestKeepsRows
       DEF Requests, WholeInv
  <2> QED
    BY <1>0, <2>1, <2>2, WhoMoves, RunnerKeepsRows
<1> QED
  BY <1>1, <1>2, <1>3 DEF WholeInv

LEMMA RowsInit == Init => RowsInv
BY RunnerIsNoDecider
   DEF Init, RowsInv, PairInv, PointInv, Submitters, InLoop, Judged, SubmitPcs,
       Working, SomePending

\* When nobody works on a run, awaiting_approval means that something can be
\* decided, and executed and cancelled that nothing waits: if decisions come
\* one at a time and after the runner, and no statement fails.  (Two decisions
\* at once break it: AwaitingMeansUndecided.)
THEOREM StatusAgreesWithRows ==
  OneAtATime => (Spec => []StatusMatchesRows)
<1> SUFFICES ASSUME OneAtATime
             PROVE  Spec => []StatusMatchesRows
  OBVIOUS
<1>1. Init => WholeInv
  BY KeptInit, ExecutedInit, RowsInit DEF KeptInv, WholeInv
<1>2. WholeInv /\ [Next]_vars => WholeInv'
  BY WholeNext
<1>3. WholeInv /\ UndecidedShows => StatusMatchesRows
  BY DeciderSubmits
     DEF StatusMatchesRows, WholeInv, RowsInv, PointInv, AtRest, ExecutedInv,
         ExecutedMeansNothingAwaits, CancelInv
<1>4. Spec => []UndecidedShows
  BY UndecidedIsShown DEF OneAtATime
<1> QED
  BY <1>1, <1>2, <1>3, <1>4, PTL DEF Spec
=============================================================================
