------------------------- MODULE OrderSafetyProofs --------------------------
(***************************************************************************)
(* Why no order of TradingRun is sent twice or without authority, why the  *)
(* rows never run ahead of Alpaca, why decisions are final, and that the   *)
(* run implements OrderAuthority: one inductive invariant shows it all.    *)
(* It rests on the types, which come first.  Everything holds for every    *)
(* number of proposals and requests and every choice of modes, faults and  *)
(* overlaps.                                                               *)
(***************************************************************************)
EXTENDS TradingRun, TLAPS

----------------------------------------------------------------------------
(* Facts about the helpers *)

LEMMA RunnerIsNoDecider == Runner \in Submitters /\ Runner \notin Deciders
BY DecidersAssumption DEF Submitters

LEMMA DeciderSubmits == Deciders \subseteq Submitters
BY DEF Submitters

\* The values the steps write are of the right kind.
LEMMA Members ==
  /\ {"none", "created", "awaiting_agent_input", "awaiting_approval",
      "executed", "failed", "cancelled"} \cup Agents \subseteq RunStatuses
  /\ {"ok", "failed", "interrupted"} \subseteq StepStatuses
  /\ {"analyst", "portfolio"} \subseteq Agents
  /\ {"pending_auto", "awaiting_approval", "submitted", "filled", "rejected",
      "cancelled"} \subseteq ProposalStatuses
  /\ {"pending", "approved", "rejected", "cancelled"} \subseteq ApprovalStatuses
  /\ {"submitted", "filled", "canceled"} \subseteq OrderStatuses
  /\ {"open", "filled", "partial", "dead"} \subseteq AlpacaStatuses
  /\ Terminal \subseteq AlpacaStatuses
  /\ {"not_holdable", "no_quantity", "bypass", "auto", "breach", "auto_reject"}
       \subseteq Verdicts
  /\ CancelPcs = {"idle", "pluck", "proposals", "approvals", "run"}
BY DEF RunStatuses, StepStatuses, Agents, ProposalStatuses, ApprovalStatuses,
       OrderStatuses, AlpacaStatuses, Terminal, Verdicts, CancelPcs

\* A write puts the new value in place or leaves the old one.
LEMMA PutType ==
  ASSUME NEW S, NEW w, NEW new \in S, NEW old \in S
  PROVE  Put(w, new, old) \in S
BY DEF Put, Applied

\* A counter of a row that does not exist is not counted up.
LEMMA CountUp ==
  ASSUME NEW D, NEW f \in [D -> Nat], NEW x
  PROVE  [f EXCEPT ![x] = @ + 1] \in [D -> Nat]
<1>1. CASE x \in D
  BY <1>1
<1>2. CASE x \notin D
  BY <1>2
<1> QED
  BY <1>1, <1>2

LEMMA OnErrorType ==
  ASSUME NEW status, NEW fill
  PROVE  OnError(status, fill) \in {"idle", "fail", "orphans"}
BY DEF OnError

----------------------------------------------------------------------------
(* Types: the control state first, then the rest, one group of steps after *)
(* the other.                                                              *)

ControlTyped ==
  /\ pc \in [Submitters -> RunnerPcs]
  /\ \A d \in Deciders : pc[d] \in DeciderPcs

\* Where the runner goes outside of SubmitProposal and of counting.
RunnerTargets ==
  {"idle", "prelude", "agent", "call", "suspend", "resume", "resume_status",
   "resume_prelude", "insert", "prepare", "gate", "await", "next", "finish",
   "fail", "orphans", "submit", "count_approvals"}

LEMMA RunnerGoto ==
  ASSUME ControlTyped, NEW there \in RunnerTargets, Goto(Runner, there)
  PROVE  ControlTyped'
BY RunnerIsNoDecider
   DEF ControlTyped, Goto, RunnerTargets, RunnerPcs, SubmitPcs, CountPcs

\* Where a submitter goes inside SubmitProposal and while it counts.
SubmitTargets == SubmitPcs \cup CountPcs \cup {"idle"}

LEMMA SubmitterGoto ==
  ASSUME ControlTyped, NEW s \in Submitters, NEW there \in SubmitTargets,
         Goto(s, there)
  PROVE  ControlTyped'
BY DeciderSubmits DEF ControlTyped, Goto, SubmitTargets, RunnerPcs, DeciderPcs

LEMMA ReturnType ==
  ASSUME NEW s \in Submitters
  PROVE  /\ s = Runner => /\ Returned(s) \in RunnerTargets
                          /\ ReturnedError(s) \in RunnerTargets
         /\ s # Runner => /\ Returned(s) \in SubmitTargets
                          /\ ReturnedError(s) \in SubmitTargets
BY OnErrorType DEF Returned, ReturnedError, RunnerTargets, SubmitTargets, CountPcs

LEMMA GotoBack ==
  ASSUME ControlTyped, NEW s \in Submitters, Goto(s, Returned(s)) \/ Goto(s, ReturnedError(s))
  PROVE  ControlTyped'
<1>1. CASE s = Runner
  BY <1>1, ReturnType, RunnerGoto
<1>2. CASE s # Runner
  BY <1>2, ReturnType, SubmitterGoto
<1> QED
  BY <1>1, <1>2

LEMMA AdvanceType ==
  ASSUME TypeOK, Advance
  PROVE  ControlTyped' /\ cur' \in [Submitters -> 0..MaxProposals]
<1> USE RunnerIsNoDecider, MaxProposalsAssumption DEF TypeOK
<1>1. ControlTyped
  BY DEF ControlTyped
<1>2. ControlTyped'
  BY <1>1, RunnerGoto DEF Advance, Goto, RunnerTargets
<1>3. cur' \in [Submitters -> 0..MaxProposals]
  BY DEF Advance
<1> QED
  BY <1>2, <1>3

LEMMA TypeInit == Init => TypeOK
<1> SUFFICES ASSUME Init
             PROVE  TypeOK
  OBVIOUS
<1> USE DEF Init
<1>1. /\ runStatus \in RunStatuses
      /\ memStatus \in RunStatuses
      /\ agent \in Agents
      /\ mode \in AllModes
  BY DEF RunStatuses, Agents, AllModes
<1>2. /\ step \in [Agents -> StepStatuses]
      /\ proposal \in [Proposals -> ProposalStatuses]
      /\ approval \in [Proposals -> ApprovalStatuses]
  BY DEF StepStatuses, ProposalStatuses, ApprovalStatuses
<1>3. /\ order \in [Proposals -> OrderStatuses]
      /\ alpaca \in [Proposals -> AlpacaStatuses]
      /\ verdict \in [Proposals -> Verdicts]
      /\ sent \in [Proposals -> Nat]
  BY DEF OrderStatuses, AlpacaStatuses, Verdicts
<1>4. /\ pc \in [Submitters -> RunnerPcs]
      /\ \A d \in Deciders : pc[d] \in DeciderPcs
  BY DEF RunnerPcs, DeciderPcs, Submitters
<1>5. /\ cur \in [Submitters -> 0..MaxProposals]
      /\ seen \in [Submitters -> BOOLEAN]
      /\ count \in 0..MaxProposals
      /\ crashes \in 0..MaxCrashes
  BY MaxProposalsAssumption, MaxCrashesAssumption
<1>6. cancelPc \in CancelPcs /\ cancelIds \subseteq Proposals
  BY DEF CancelPcs
<1> QED
  BY <1>1, <1>2, <1>3, <1>4, <1>5, <1>6 DEF TypeOK

\* The agent chain.
LEMMA TypeChain ==
  ASSUME TypeOK,
         \/ StartRun \/ Prelude \/ BeginStep \/ AgentAnswers
         \/ AgentInterrupts \/ AgentFails \/ Suspend
  PROVE  TypeOK'
<1>a. ControlTyped'
  <2> USE RunnerGoto, OnErrorType DEF Fails, NextAgent, RunnerTargets
  <2>0. ControlTyped
    BY DEF TypeOK, ControlTyped
  <2>1. CASE StartRun
    BY <2>0, <2>1 DEF StartRun
  <2>2. CASE Prelude
    BY <2>0, <2>2 DEF Prelude
  <2>3. CASE BeginStep
    BY <2>0, <2>3 DEF BeginStep
  <2>4. CASE AgentAnswers
    BY <2>0, <2>4 DEF AgentAnswers
  <2>5. CASE AgentInterrupts
    BY <2>0, <2>5 DEF AgentInterrupts
  <2>6. CASE AgentFails
    BY <2>0, <2>6 DEF AgentFails
  <2>7. CASE Suspend
    BY <2>0, <2>7 DEF Suspend
  <2> QED
    BY <2>1, <2>2, <2>3, <2>4, <2>5, <2>6, <2>7
<1> USE <1>a, PutType, Members
    DEF TypeOK, ControlTyped, SetRunStatus, SetStep, tables, runnerVars,
        cancelVars, history
<1>1. CASE StartRun
  BY <1>1, ModesAssumption DEF StartRun
<1>2. CASE Prelude
  BY <1>2 DEF Prelude
<1>3. CASE BeginStep
  BY <1>3 DEF BeginStep
<1>4. CASE AgentAnswers
  BY <1>4 DEF AgentAnswers, NextAgent
<1>5. CASE AgentInterrupts
  BY <1>5 DEF AgentInterrupts
<1>6. CASE AgentFails
  BY <1>6 DEF AgentFails
<1>7. CASE Suspend
  BY <1>7 DEF Suspend
<1> QED
  BY <1>1, <1>2, <1>3, <1>4, <1>5, <1>6, <1>7

\* ResumeAgent up to the point where the chain goes on.
LEMMA TypeResume ==
  ASSUME TypeOK,
         \/ \E a \in Agents : BeginResume(a)
         \/ ResumeAnswers \/ ResumeInterrupts \/ ResumeFails
         \/ ResumeStatus \/ ResumePrelude
  PROVE  TypeOK'
<1>a. ControlTyped'
  <2> USE RunnerGoto DEF NextAgent, RunnerTargets
  <2>0. ControlTyped
    BY DEF TypeOK, ControlTyped
  <2>1. CASE \E a \in Agents : BeginResume(a)
    BY <2>0, <2>1 DEF BeginResume
  <2>2. CASE ResumeAnswers
    BY <2>0, <2>2 DEF ResumeAnswers
  <2>3. CASE ResumeInterrupts
    BY <2>0, <2>3 DEF ResumeInterrupts
  <2>4. CASE ResumeFails
    BY <2>0, <2>4 DEF ResumeFails
  <2>5. CASE ResumeStatus
    BY <2>0, <2>5 DEF ResumeStatus
  <2>6. CASE ResumePrelude
    BY <2>0, <2>6 DEF ResumePrelude
  <2> QED
    BY <2>1, <2>2, <2>3, <2>4, <2>5, <2>6
<1> USE <1>a, PutType, Members
    DEF TypeOK, ControlTyped, SetRunStatus, SetStep, tables, runnerVars,
        cancelVars, history
<1>1. CASE \E a \in Agents : BeginResume(a)
  BY <1>1, ModesAssumption DEF BeginResume
<1>2. CASE ResumeAnswers
  BY <1>2 DEF ResumeAnswers
<1>3. CASE ResumeInterrupts
  BY <1>3 DEF ResumeInterrupts
<1>4. CASE ResumeFails
  BY <1>4 DEF ResumeFails
<1>5. CASE ResumeStatus
  BY <1>5 DEF ResumeStatus
<1>6. CASE ResumePrelude
  BY <1>6 DEF ResumePrelude, NextAgent
<1> QED
  BY <1>1, <1>2, <1>3, <1>4, <1>5, <1>6

\* The proposals and the gate.
LEMMA TypeGate ==
  ASSUME TypeOK,
         \/ InsertProposals \/ InvalidPortfolio \/ Prepare \/ GateRejects
         \/ GateSkips \/ GateAllows \/ GateAsks \/ GateFails
  PROVE  TypeOK'
<1>a. ControlTyped' /\ cur' \in [Submitters -> 0..MaxProposals]
  <2> USE RunnerGoto, OnErrorType, AdvanceType DEF Fails, RunnerTargets
  <2>0. ControlTyped /\ cur \in [Submitters -> 0..MaxProposals]
    BY DEF TypeOK, ControlTyped
  <2>1. CASE InsertProposals
    BY <2>0, <2>1 DEF InsertProposals
  <2>2. CASE InvalidPortfolio
    BY <2>0, <2>2 DEF InvalidPortfolio
  <2>3. CASE Prepare
    <3>1. CASE UNCHANGED cur /\ (Goto(Runner, "finish") \/ Fails)
      BY <2>0, <3>1
    <3>2. CASE /\ Goto(Runner, "gate")
               /\ cur' = [cur EXCEPT ![Runner] = 1]
               /\ count # 0
      <4>1. 1 \in 0..MaxProposals
        BY <3>2, MaxProposalsAssumption DEF TypeOK
      <4> QED
        BY <2>0, <3>2, <4>1
    <3> QED
      BY <2>3, <3>1, <3>2 DEF Prepare
  <2>4. CASE GateRejects
    BY <2>0, <2>4 DEF GateRejects
  <2>5. CASE GateSkips
    BY <2>5 DEF GateSkips
  <2>6. CASE GateAllows
    BY <2>0, <2>6 DEF GateAllows
  <2>7. CASE GateAsks
    BY <2>0, <2>7 DEF GateAsks
  <2>8. CASE GateFails
    BY <2>0, <2>8 DEF GateFails
  <2> QED
    BY <2>1, <2>2, <2>3, <2>4, <2>5, <2>6, <2>7, <2>8
<1> USE <1>a, Members
    DEF TypeOK, ControlTyped, tables, runnerVars, cancelVars, history
<1>1. CASE InsertProposals
  BY <1>1, PutType DEF InsertProposals
<1>2. CASE InvalidPortfolio
  BY <1>2 DEF InvalidPortfolio
<1>3. CASE Prepare
  BY <1>3 DEF Prepare
<1>4. CASE GateRejects
  <2>1. proposal' \in [Proposals -> ProposalStatuses]
    BY <1>4 DEF GateRejects, Put, Applied
  <2>2. PICK v \in {"not_holdable", "auto_reject"} :
          verdict' = [verdict EXCEPT ![cur[Runner]] = v]
    BY <1>4 DEF GateRejects
  <2>3. verdict' \in [Proposals -> Verdicts]
    BY <2>2
  <2> QED
    BY <1>4, <2>1, <2>3 DEF GateRejects
<1>5. CASE GateSkips
  BY <1>5 DEF GateSkips
<1>6. CASE GateAllows
  BY <1>6 DEF GateAllows
<1>7. CASE GateAsks
  <2>1. approval' \in [Proposals -> ApprovalStatuses]
    BY <1>7 DEF GateAsks, Put, Applied
  <2>2. verdict' \in [Proposals -> Verdicts]
    BY <1>7 DEF GateAsks
  <2> QED
    BY <1>7, <2>1, <2>2 DEF GateAsks
<1>8. CASE GateFails
  BY <1>8 DEF GateFails
<1> QED
  BY <1>1, <1>2, <1>3, <1>4, <1>5, <1>6, <1>7, <1>8

\* The end of the loop and the error branches.
LEMMA TypeEnd ==
  ASSUME TypeOK,
         ParkProposal \/ RefreshState \/ Finish \/ FailRun \/ CancelOrphans
  PROVE  TypeOK'
<1>a. ControlTyped' /\ cur' \in [Submitters -> 0..MaxProposals]
  <2> USE RunnerGoto, OnErrorType, AdvanceType DEF Fails, RunnerTargets
  <2>0. ControlTyped /\ cur \in [Submitters -> 0..MaxProposals]
    BY DEF TypeOK, ControlTyped
  <2>1. CASE ParkProposal
    BY <2>0, <2>1 DEF ParkProposal
  <2>2. CASE RefreshState
    BY <2>0, <2>2 DEF RefreshState
  <2>3. CASE Finish
    BY <2>0, <2>3 DEF Finish
  <2>4. CASE FailRun
    BY <2>0, <2>4 DEF FailRun
  <2>5. CASE CancelOrphans
    BY <2>0, <2>5 DEF CancelOrphans
  <2> QED
    BY <2>1, <2>2, <2>3, <2>4, <2>5
<1> USE <1>a, Members
    DEF TypeOK, ControlTyped, SetRunStatus, tables, runnerVars, cancelVars,
        history
<1>1. CASE ParkProposal
  <2>1. proposal' \in [Proposals -> ProposalStatuses]
    BY <1>1 DEF ParkProposal, Put, Applied
  <2> QED
    BY <1>1, <2>1 DEF ParkProposal
<1>2. CASE RefreshState
  BY <1>2 DEF RefreshState
<1>3. CASE Finish
  BY <1>3, PutType DEF Finish
<1>4. CASE FailRun
  BY <1>4, PutType DEF FailRun
<1>5. CASE CancelOrphans
  BY <1>5, PutType DEF CancelOrphans
<1> QED
  BY <1>1, <1>2, <1>3, <1>4, <1>5

\* SubmitProposal and the status counts.
LEMMA TypeSubmit ==
  ASSUME TypeOK, NEW s \in Submitters, SubmitStep(s) \/ CountStep(s)
  PROVE  TypeOK'
<1>a. ControlTyped' /\ cur' \in [Submitters -> 0..MaxProposals]
  <2> USE SubmitterGoto, GotoBack DEF SubmitTargets, SubmitPcs, CountPcs
  <2>0. ControlTyped /\ cur \in [Submitters -> 0..MaxProposals]
    BY DEF TypeOK, ControlTyped
  <2>1. CASE SubmitAccepted(s)
    BY <2>0, <2>1 DEF SubmitAccepted
  <2>2. CASE SubmitFailed(s)
    BY <2>0, <2>2 DEF SubmitFailed
  <2>3. CASE MirrorOrder(s)
    BY <2>0, <2>3 DEF MirrorOrder
  <2>4. CASE MarkSubmitted(s)
    BY <2>0, <2>4 DEF MarkSubmitted
  <2>5. CASE SettleOrder(s)
    BY <2>0, <2>5 DEF SettleOrder
  <2>6. CASE SettleProposal(s)
    BY <2>0, <2>6 DEF SettleProposal
  <2>7. CASE PollTimeout(s)
    BY <2>0, <2>7 DEF PollTimeout
  <2>8. CASE PollError(s)
    BY <2>0, <2>8 DEF PollError
  <2>9. CASE RejectUnsubmitted(s)
    <3>1. CASE Advance
      BY <3>1, AdvanceType
    <3>2. CASE s = Runner /\ Goto(s, OnError(memStatus, anyFill))
               /\ UNCHANGED cur
      BY <2>0, <3>2, OnErrorType, RunnerGoto DEF RunnerTargets
    <3>3. CASE s # Runner /\ (Goto(s, "count_approvals") \/ Goto(s, "idle"))
               /\ UNCHANGED cur
      BY <2>0, <3>3
    <3> QED
      BY <2>9, <3>1, <3>2, <3>3 DEF RejectUnsubmitted
  <2>10. CASE CountStep(s)
    BY <2>0, <2>10 DEF CountStep, CountApprovals, CountProposals, WriteStatus
  <2> QED
    BY <2>1, <2>2, <2>3, <2>4, <2>5, <2>6, <2>7, <2>8, <2>9, <2>10
    DEF SubmitStep
<1> USE <1>a, Members
    DEF TypeOK, ControlTyped, tables, runnerVars, cancelVars, history
<1>1. CASE SubmitAccepted(s)
  <2>1. alpaca' \in [Proposals -> AlpacaStatuses]
    BY <1>1 DEF SubmitAccepted
  <2>2. sent' \in [Proposals -> Nat]
    BY <1>1, CountUp DEF SubmitAccepted
  <2> QED
    BY <1>1, <2>1, <2>2 DEF SubmitAccepted
<1>2. CASE SubmitFailed(s)
  <2>1. alpaca' \in [Proposals -> AlpacaStatuses]
    BY <1>2 DEF SubmitFailed
  <2>2. sent' \in [Proposals -> Nat]
    BY <1>2, CountUp DEF SubmitFailed
  <2> QED
    BY <1>2, <2>1, <2>2 DEF SubmitFailed
<1>3. CASE MirrorOrder(s)
  <2>1. order' \in [Proposals -> OrderStatuses]
    BY <1>3 DEF MirrorOrder, Put, Applied
  <2> QED
    BY <1>3, <2>1 DEF MirrorOrder
<1>4. CASE MarkSubmitted(s)
  <2>1. proposal' \in [Proposals -> ProposalStatuses]
    BY <1>4 DEF MarkSubmitted, Put, Applied
  <2> QED
    BY <1>4, <2>1 DEF MarkSubmitted
<1>5. CASE SettleOrder(s)
  <2>1. order' \in [Proposals -> OrderStatuses]
    BY <1>5 DEF SettleOrder, Put, Applied
  <2> QED
    BY <1>5, <2>1 DEF SettleOrder
<1>6. CASE SettleProposal(s)
  <2>1. proposal' \in [Proposals -> ProposalStatuses]
    BY <1>6 DEF SettleProposal, Put, Applied
  <2> QED
    BY <1>6, <2>1 DEF SettleProposal
<1>7. CASE PollTimeout(s)
  BY <1>7 DEF PollTimeout
<1>8. CASE PollError(s)
  BY <1>8 DEF PollError
<1>9. CASE RejectUnsubmitted(s)
  <2>1. proposal' \in [Proposals -> ProposalStatuses]
    BY <1>9 DEF RejectUnsubmitted, Put, Applied
  <2> QED
    BY <1>9, <2>1 DEF RejectUnsubmitted
<1>10. CASE CountApprovals(s)
  BY <1>10 DEF CountApprovals, SomePending
<1>11. CASE CountProposals(s)
  BY <1>11 DEF CountProposals, SomeAwaiting
<1>12. CASE WriteStatus(s)
  BY <1>12, PutType DEF WriteStatus
<1> QED
  BY <1>1, <1>2, <1>3, <1>4, <1>5, <1>6, <1>7, <1>8, <1>9, <1>10, <1>11, <1>12
  DEF SubmitStep, CountStep

\* Decide, CancelRun, Alpaca and crashes.
LEMMA TypeRequests ==
  ASSUME TypeOK,
         \/ \E d \in Deciders, p \in Proposals : Approve(d, p) \/ Reject(d, p)
         \/ BeginCancel \/ CancelStep
         \/ \E p \in Proposals : AlpacaSettles(p)
         \/ Crash
  PROVE  TypeOK'
<1> USE Members
    DEF TypeOK, ControlTyped, tables, runnerVars, cancelVars, history
<1>1. ASSUME NEW d \in Deciders, NEW p \in Proposals,
             Approve(d, p) \/ Reject(d, p)
      PROVE  TypeOK'
  <2>1. ControlTyped'
    BY <1>1, DeciderSubmits, SubmitterGoto
       DEF Approve, Reject, SubmitTargets, SubmitPcs, CountPcs
  <2>2. p \in 0..MaxProposals
    BY MaxProposalsAssumption DEF Proposals
  <2>3. approval' \in [Proposals -> ApprovalStatuses]
    BY <1>1 DEF Approve, Reject, Put, Applied
  <2>4. proposal' \in [Proposals -> ProposalStatuses]
    BY <1>1 DEF Approve, Reject, Put, Applied
  <2>5. cur' \in [Submitters -> 0..MaxProposals]
    BY <1>1, <2>2 DEF Approve, Reject
  <2> QED
    BY <1>1, <2>1, <2>3, <2>4, <2>5 DEF Approve, Reject
<1>2. CASE BeginCancel
  BY <1>2 DEF BeginCancel
<1>3. CASE PluckProposals
  BY <1>3 DEF PluckProposals
<1>4. CASE CancelProposals
  BY <1>4, PutType DEF CancelProposals
<1>5. CASE CancelApprovals
  BY <1>5, PutType DEF CancelApprovals
<1>6. CASE CancelRunRow
  BY <1>6, PutType DEF CancelRunRow
<1>7. ASSUME NEW p \in Proposals, AlpacaSettles(p)
      PROVE  TypeOK'
  BY <1>7 DEF AlpacaSettles
<1>8. CASE Crash
  <2>1. ControlTyped'
    BY <1>8 DEF Crash, RunnerPcs, DeciderPcs, Submitters
  <2> QED
    BY <1>8, <2>1, MaxCrashesAssumption DEF Crash
<1> QED
  BY <1>1, <1>2, <1>3, <1>4, <1>5, <1>6, <1>7, <1>8 DEF CancelStep

LEMMA TypeNext == TypeOK /\ [Next]_vars => TypeOK'
<1> SUFFICES ASSUME TypeOK, [Next]_vars
             PROVE  TypeOK'
  OBVIOUS
<1>1. CASE RunnerStep
  BY <1>1, TypeChain, TypeResume, TypeGate, TypeEnd DEF RunnerStep
<1>2. CASE StartRun \/ \E a \in Agents : BeginResume(a)
  BY <1>2, TypeChain, TypeResume
<1>3. CASE \E s \in Submitters : SubmitStep(s) \/ CountStep(s)
  BY <1>3, TypeSubmit
<1>4. CASE \/ \E d \in Deciders, p \in Proposals : Approve(d, p) \/ Reject(d, p)
           \/ BeginCancel \/ CancelStep
           \/ \E p \in Proposals : AlpacaSettles(p)
           \/ Crash
  BY <1>4, TypeRequests
<1>5. CASE UNCHANGED vars
  BY <1>5 DEF vars, TypeOK, tables, runnerVars, cancelVars, history
<1> QED
  BY <1>1, <1>2, <1>3, <1>4, <1>5 DEF Next

\* Every variable keeps its type, whatever fails and whoever overlaps.
THEOREM TypeCorrect == Spec => []TypeOK
BY TypeInit, TypeNext, PTL DEF Spec
----------------------------------------------------------------------------
(* The invariant *)

\* The runner before its gate loop, in a new run or in a resumed one.
Early == {"prelude", "agent", "call", "suspend", "resume", "resume_status",
          "resume_prelude", "insert", "prepare"}
\* The same from the moment on that the run is not waiting for input.
Committed == (Early \ {"resume", "resume_status"}) \cup
             {"gate", "await", "next"} \cup SubmitPcs
\* The runner at the proposal cur[Runner], which the gate has judged.
Judged == {"await", "next"} \cup SubmitPcs

NothingJudged == \A p \in Proposals : verdict[p] = "none"

\* The gate judges every proposal once: it goes up through them, and it cannot
\* start again, since a run that could be started or resumed has no verdicts.
GateInv ==
  /\ runStatus \in {"none", "awaiting_agent_input"} => NothingJudged
  /\ pc[Runner] \in Early => NothingJudged
  /\ pc[Runner] \in Committed =>
       runStatus \notin {"none", "awaiting_agent_input"}
  /\ pc[Runner] \in Judged \cup {"gate"} =>
       /\ cur[Runner] \in Proposals
       /\ \A p \in Proposals : p > cur[Runner] => verdict[p] = "none"
  /\ pc[Runner] = "gate" => verdict[cur[Runner]] = "none"

\* What approval and order of a proposal say about each other.
ApprovalInv ==
  \A p \in Proposals :
    /\ verdict[p] = "none" => approval[p] = "none" /\ sent[p] = 0
    /\ approval[p] # "none" => verdict[p] = "breach"
    /\ approval[p] = "pending" => sent[p] = 0
    /\ sent[p] = 0 => alpaca[p] = "none"
    /\ sent[p] > 0 => Authorised(p)
    /\ sent[p] <= 1

Submitting == {s \in Submitters : pc[s] \in SubmitPcs}

\* Whoever is inside SubmitProposal may be, is alone with its proposal, and
\* has not sent it when it is about to.
SubmitterInv ==
  /\ \A s \in Submitting :
       /\ cur[s] \in Proposals
       /\ s = Runner => verdict[cur[s]] \in {"auto", "bypass"}
       /\ s # Runner => approval[cur[s]] = "approved"
       /\ pc[s] = "submit" => sent[cur[s]] = 0
  /\ \A s, t \in Submitting : cur[s] = cur[t] => s = t

\* What the rows say while an order is followed.
FollowInv ==
  \A s \in Submitting :
    /\ pc[s] \in {"mirror", "mark", "poll"} =>
         alpaca[cur[s]] # "none" /\ proposal[cur[s]] # "filled"
    /\ pc[s] = "settle" =>
         /\ alpaca[cur[s]] \in Terminal
         /\ order[cur[s]] = IF alpaca[cur[s]] = "filled" THEN "filled"
                            ELSE "canceled"

OrderInv ==
  /\ TypeOK
  /\ GateInv
  /\ ApprovalInv
  /\ SubmitterInv
  /\ FollowInv
  /\ MirrorFollowsBroker

DataInv ==
  /\ ApprovalInv
  /\ SubmitterInv
  /\ FollowInv
  /\ MirrorFollowsBroker

LEMMA OrderInvParts == OrderInv <=> TypeOK /\ GateInv /\ DataInv
BY DEF OrderInv, DataInv

LEMMA OrderInvInit == Init => OrderInv
<1> SUFFICES ASSUME Init
             PROVE  OrderInv
  OBVIOUS
<1>1. TypeOK
  BY TypeInit
<1>2. GateInv
  BY RunnerIsNoDecider
     DEF Init, GateInv, NothingJudged, Early, Committed, Judged, SubmitPcs
<1>3. DataInv
  BY DEF Init, DataInv, ApprovalInv, SubmitterInv, Submitting, FollowInv,
         MirrorFollowsBroker, SubmitPcs
<1> QED
  BY <1>1, <1>2, <1>3, OrderInvParts

----------------------------------------------------------------------------
(* Steps that are quiet: nobody enters SubmitProposal or moves inside it,  *)
(* and no row that the invariant compares is written.                      *)

NobodySubmitsAnew ==
  \A s \in Submitters : pc'[s] \in SubmitPcs => pc'[s] = pc[s] /\ cur'[s] = cur[s]

Quiet ==
  /\ UNCHANGED <<approval, order, alpaca, verdict, sent>>
  /\ \A p \in Proposals : proposal'[p] = "filled" => proposal[p] = "filled"
  /\ NobodySubmitsAnew

LEMMA QuietKeepsData ==
  ASSUME DataInv, Quiet
  PROVE  DataInv'
<1> USE DEF DataInv, Quiet, NobodySubmitsAnew, Submitting
<1>1. ApprovalInv'
  BY DEF ApprovalInv, Authorised
<1>2. SubmitterInv'
  BY DEF SubmitterInv
<1>3. FollowInv'
  BY DEF FollowInv, SubmitterInv, SubmitPcs
<1>4. MirrorFollowsBroker'
  BY DEF MirrorFollowsBroker
<1> QED
  BY <1>1, <1>2, <1>3, <1>4

LEMMA RunnerStaysOut ==
  ASSUME TypeOK, NEW there, there \notin SubmitPcs, Goto(Runner, there),
         \A d \in Deciders : cur'[d] = cur[d]
  PROVE  NobodySubmitsAnew
BY RunnerIsNoDecider DEF NobodySubmitsAnew, Goto, TypeOK, Submitters

LEMMA ErrorStaysOut ==
  ASSUME NEW status, NEW fill
  PROVE  OnError(status, fill) \notin SubmitPcs
BY DEF OnError, SubmitPcs

LEMMA AdvanceStaysOut ==
  ASSUME TypeOK, Advance
  PROVE  NobodySubmitsAnew
<1>1. \A d \in Deciders : cur'[d] = cur[d]
  BY RunnerIsNoDecider DEF Advance, TypeOK, Submitters
<1>2. Goto(Runner, "gate") \/ Goto(Runner, "finish")
  BY DEF Advance, Goto
<1> QED
  BY <1>1, <1>2, RunnerStaysOut DEF SubmitPcs

LEMMA QuietChain ==
  ASSUME TypeOK,
         \/ StartRun \/ Prelude \/ BeginStep \/ AgentAnswers
         \/ AgentInterrupts \/ AgentFails \/ Suspend
         \/ \E a \in Agents : BeginResume(a)
         \/ ResumeAnswers \/ ResumeInterrupts \/ ResumeFails
         \/ ResumeStatus \/ ResumePrelude
  PROVE  Quiet
<1>1. UNCHANGED <<approval, order, alpaca, verdict, sent, proposal, cur>>
  BY DEF StartRun, Prelude, BeginStep, AgentAnswers, AgentInterrupts,
         AgentFails, Suspend, BeginResume, ResumeAnswers, ResumeInterrupts,
         ResumeFails, ResumeStatus, ResumePrelude, tables, history
<1>2. \E there : there \notin SubmitPcs /\ Goto(Runner, there)
  <2> USE ErrorStaysOut DEF SubmitPcs, Fails, NextAgent
  <2>1. CASE StartRun
    BY <2>1 DEF StartRun
  <2>2. CASE Prelude
    BY <2>2 DEF Prelude
  <2>3. CASE BeginStep
    BY <2>3 DEF BeginStep
  <2>4. CASE AgentAnswers
    BY <2>4 DEF AgentAnswers
  <2>5. CASE AgentInterrupts
    BY <2>5 DEF AgentInterrupts
  <2>6. CASE AgentFails
    BY <2>6 DEF AgentFails
  <2>7. CASE Suspend
    BY <2>7 DEF Suspend
  <2>8. CASE \E a \in Agents : BeginResume(a)
    BY <2>8 DEF BeginResume
  <2>9. CASE ResumeAnswers
    BY <2>9 DEF ResumeAnswers
  <2>10. CASE ResumeInterrupts
    BY <2>10 DEF ResumeInterrupts
  <2>11. CASE ResumeFails
    BY <2>11 DEF ResumeFails
  <2>12. CASE ResumeStatus
    BY <2>12 DEF ResumeStatus
  <2>13. CASE ResumePrelude
    BY <2>13 DEF ResumePrelude
  <2> QED
    BY <2>1, <2>2, <2>3, <2>4, <2>5, <2>6, <2>7, <2>8, <2>9, <2>10, <2>11,
       <2>12, <2>13
<1> QED
  BY <1>1, <1>2, RunnerStaysOut DEF Quiet

LEMMA QuietLoop ==
  ASSUME TypeOK,
         \/ InsertProposals \/ InvalidPortfolio \/ Prepare \/ GateFails
         \/ ParkProposal \/ RefreshState \/ Finish \/ FailRun \/ CancelOrphans
  PROVE  Quiet
<1>1. UNCHANGED <<approval, order, alpaca, verdict, sent>>
  BY DEF InsertProposals, InvalidPortfolio, Prepare, GateFails, ParkProposal,
         RefreshState, Finish, FailRun, CancelOrphans, tables, history
<1>2. \A p \in Proposals : proposal'[p] = "filled" => proposal[p] = "filled"
  BY DEF InsertProposals, InvalidPortfolio, Prepare, GateFails, ParkProposal,
         RefreshState, Finish, FailRun, CancelOrphans, tables, TypeOK, Put
<1>3. NobodySubmitsAnew
  <2> USE RunnerStaysOut, ErrorStaysOut, AdvanceStaysOut
      DEF SubmitPcs, Fails
  <2>1. CASE InsertProposals
    BY <2>1 DEF InsertProposals
  <2>2. CASE InvalidPortfolio
    BY <2>2 DEF InvalidPortfolio
  <2>3. CASE Prepare
    <3>1. \A d \in Deciders : cur'[d] = cur[d]
      BY <2>3, RunnerIsNoDecider DEF Prepare, TypeOK, Submitters
    <3> QED
      BY <2>3, <3>1 DEF Prepare
  <2>4. CASE GateFails
    BY <2>4 DEF GateFails
  <2>5. CASE ParkProposal
    BY <2>5 DEF ParkProposal
  <2>6. CASE RefreshState
    BY <2>6 DEF RefreshState
  <2>7. CASE Finish
    BY <2>7 DEF Finish
  <2>8. CASE FailRun
    BY <2>8 DEF FailRun
  <2>9. CASE CancelOrphans
    BY <2>9 DEF CancelOrphans
  <2> QED
    BY <2>1, <2>2, <2>3, <2>4, <2>5, <2>6, <2>7, <2>8, <2>9
<1> QED
  BY <1>1, <1>2, <1>3 DEF Quiet

LEMMA SubmitterStaysOut ==
  ASSUME TypeOK, NEW s \in Submitters, NEW there, there \notin SubmitPcs,
         Goto(s, there), UNCHANGED cur
  PROVE  NobodySubmitsAnew
BY DEF NobodySubmitsAnew, Goto, TypeOK

LEMMA ReturnStaysOut ==
  ASSUME NEW s
  PROVE  Returned(s) \notin SubmitPcs /\ ReturnedError(s) \notin SubmitPcs
BY ErrorStaysOut DEF Returned, ReturnedError, SubmitPcs

LEMMA QuietReturn ==
  ASSUME TypeOK, NEW s \in Submitters,
         PollTimeout(s) \/ PollError(s) \/ RejectUnsubmitted(s) \/ CountStep(s)
  PROVE  Quiet
<1>1. UNCHANGED <<approval, order, alpaca, verdict, sent>>
  BY DEF PollTimeout, PollError, RejectUnsubmitted, CountStep, CountApprovals,
         CountProposals, WriteStatus, tables, history
<1>2. \A p \in Proposals : proposal'[p] = "filled" => proposal[p] = "filled"
  BY DEF PollTimeout, PollError, RejectUnsubmitted, CountStep, CountApprovals,
         CountProposals, WriteStatus, tables, TypeOK, Put
<1>3. NobodySubmitsAnew
  <2> USE SubmitterStaysOut DEF SubmitPcs
  <2>1. CASE PollTimeout(s)
    BY <2>1, ReturnStaysOut DEF PollTimeout
  <2>2. CASE PollError(s)
    BY <2>2, ReturnStaysOut DEF PollError
  <2>3. CASE RejectUnsubmitted(s)
    BY <2>3, AdvanceStaysOut, ErrorStaysOut DEF RejectUnsubmitted
  <2>4. CASE CountStep(s)
    BY <2>4 DEF CountStep, CountApprovals, CountProposals, WriteStatus
  <2> QED
    BY <2>1, <2>2, <2>3, <2>4
<1> QED
  BY <1>1, <1>2, <1>3 DEF Quiet

LEMMA QuietRequests ==
  ASSUME TypeOK,
         \/ BeginCancel \/ PluckProposals \/ CancelProposals \/ CancelRunRow
         \/ Crash
  PROVE  Quiet
<1>1. UNCHANGED <<approval, order, alpaca, verdict, sent>>
  BY DEF BeginCancel, PluckProposals, CancelProposals, CancelRunRow, Crash,
         tables, history
<1>2. \A p \in Proposals : proposal'[p] = "filled" => proposal[p] = "filled"
  BY DEF BeginCancel, PluckProposals, CancelProposals, CancelRunRow, Crash,
         tables, Put
<1>3. NobodySubmitsAnew
  BY DEF BeginCancel, PluckProposals, CancelProposals, CancelRunRow, Crash,
         NobodySubmitsAnew, SubmitPcs
<1> QED
  BY <1>1, <1>2, <1>3 DEF Quiet

----------------------------------------------------------------------------
(* The gate gives a proposal its verdict. *)

\* A verdict on a proposal that had none: nobody is submitting it, and no other
\* row of it says anything yet.
LEMMA Unjudged ==
  ASSUME OrderInv, pc[Runner] = "gate"
  PROVE  /\ cur[Runner] \in Proposals
         /\ verdict[cur[Runner]] = "none"
         /\ approval[cur[Runner]] = "none"
         /\ sent[cur[Runner]] = 0
         /\ alpaca[cur[Runner]] = "none"
         /\ order[cur[Runner]] = "none"
         /\ proposal[cur[Runner]] # "filled"
         /\ \A s \in Submitting : s # Runner /\ cur[s] # cur[Runner]
<1>1. cur[Runner] \in Proposals /\ verdict[cur[Runner]] = "none"
  BY DEF OrderInv, GateInv
<1>2. /\ approval[cur[Runner]] = "none"
      /\ sent[cur[Runner]] = 0
      /\ alpaca[cur[Runner]] = "none"
  BY <1>1 DEF OrderInv, ApprovalInv
<1>3. order[cur[Runner]] = "none" /\ proposal[cur[Runner]] # "filled"
  BY <1>1, <1>2 DEF OrderInv, MirrorFollowsBroker
<1>4. \A s \in Submitting : s # Runner /\ cur[s] # cur[Runner]
  BY <1>2 DEF OrderInv, SubmitterInv, Submitting, SubmitPcs
<1> QED
  BY <1>1, <1>2, <1>3, <1>4

LEMMA RefusalKeepsData ==
  ASSUME OrderInv, pc[Runner] = "gate", NobodySubmitsAnew,
         NEW v \in {"not_holdable", "auto_reject", "no_quantity"},
         verdict' = [verdict EXCEPT ![cur[Runner]] = v],
         UNCHANGED <<approval, order, alpaca, sent>>,
         \A q \in Proposals : proposal'[q] = "filled" => proposal[q] = "filled"
  PROVE  DataInv'
<1> USE Unjudged, OrderInvParts
    DEF DataInv, TypeOK, NobodySubmitsAnew, Submitting
<1>1. ApprovalInv'
  BY DEF ApprovalInv, Authorised
<1>2. SubmitterInv'
  BY DEF SubmitterInv
<1>3. FollowInv'
  BY DEF FollowInv, SubmitterInv, SubmitPcs
<1>4. MirrorFollowsBroker'
  BY DEF MirrorFollowsBroker
<1> QED
  BY <1>1, <1>2, <1>3, <1>4

LEMMA GateRefusesData ==
  ASSUME OrderInv, GateRejects \/ GateSkips
  PROVE  DataInv'
<1>1. TypeOK /\ pc[Runner] = "gate"
  BY OrderInvParts DEF GateRejects, GateSkips
<1>2. UNCHANGED <<approval, order, alpaca, sent>>
  BY DEF GateRejects, GateSkips, tables
<1>3. NobodySubmitsAnew
  <2>1. Advance \/ (Fails /\ UNCHANGED cur)
    BY DEF GateRejects, GateSkips
  <2> QED
    BY <1>1, <2>1, AdvanceStaysOut, RunnerStaysOut, ErrorStaysOut DEF Fails
<1>4. \A q \in Proposals : proposal'[q] = "filled" => proposal[q] = "filled"
  BY <1>1 DEF GateRejects, GateSkips, tables, Put, TypeOK
<1>5. PICK v \in {"not_holdable", "auto_reject", "no_quantity"} :
        verdict' = [verdict EXCEPT ![cur[Runner]] = v]
  BY DEF GateRejects, GateSkips
<1> QED
  BY <1>1, <1>2, <1>3, <1>4, <1>5, RefusalKeepsData

\* The runner enters SubmitProposal with a proposal that nobody else can have:
\* it has no approval.
LEMMA GateAllowsData ==
  ASSUME OrderInv, GateAllows
  PROVE  DataInv'
<1>1. PICK v \in {"auto", "bypass"} :
        verdict' = [verdict EXCEPT ![cur[Runner]] = v]
  BY DEF GateAllows
<1>2. pc' = [pc EXCEPT ![Runner] = "submit"]
  BY DEF GateAllows, Goto
<1>3. /\ UNCHANGED <<proposal, approval, order, alpaca, sent, cur>>
      /\ pc[Runner] = "gate"
  BY DEF GateAllows, tables
<1> USE <1>1, <1>2, <1>3, Unjudged, OrderInvParts, RunnerIsNoDecider
    DEF DataInv, TypeOK, Submitting
<1>4. ApprovalInv'
  BY DEF ApprovalInv, Authorised
<1>5. SubmitterInv'
  <2>1. \A s \in Submitters : s # Runner => pc'[s] = pc[s]
    OBVIOUS
  <2>2. pc'[Runner] = "submit" /\ verdict'[cur[Runner]] \in {"auto", "bypass"}
    OBVIOUS
  <2>3. \A s \in Submitting : cur[s] # cur[Runner] => verdict'[cur[s]] = verdict[cur[s]]
    BY DEF SubmitterInv
  <2> QED
    BY <2>1, <2>2, <2>3 DEF SubmitterInv
<1>6. FollowInv'
  BY DEF FollowInv
<1>7. MirrorFollowsBroker'
  BY DEF MirrorFollowsBroker
<1> QED
  BY <1>4, <1>5, <1>6, <1>7

LEMMA GateAsksData ==
  ASSUME OrderInv, GateAsks
  PROVE  DataInv'
<1>1. /\ verdict' = [verdict EXCEPT ![cur[Runner]] = "breach"]
      /\ pc[Runner] = "gate"
      /\ UNCHANGED <<proposal, order, alpaca, sent, cur>>
  BY DEF GateAsks
<1>2. PICK w : approval' = [approval EXCEPT ![cur[Runner]] = Put(w, "pending", @)]
  BY DEF GateAsks
<1>3. NobodySubmitsAnew
  <2>1. Goto(Runner, "await") \/ Fails
    BY DEF GateAsks
  <2> QED
    BY <1>1, <2>1, RunnerStaysOut, ErrorStaysOut, OrderInvParts
       DEF Fails, SubmitPcs
<1> USE <1>1, <1>2, <1>3, Unjudged, OrderInvParts
    DEF DataInv, TypeOK, NobodySubmitsAnew, Submitting, Put
<1>4. ApprovalInv'
  BY DEF ApprovalInv, Authorised
<1>5. SubmitterInv'
  BY DEF SubmitterInv
<1>6. FollowInv'
  BY DEF FollowInv, SubmitterInv, SubmitPcs
<1>7. MirrorFollowsBroker'
  BY DEF MirrorFollowsBroker
<1> QED
  BY <1>4, <1>5, <1>6, <1>7

----------------------------------------------------------------------------
(* SubmitProposal *)

LEMMA SubmitterGoesOn ==
  ASSUME TypeOK, NEW s \in Submitters, NEW there, Goto(s, there)
  PROVE  pc'[s] = there /\ \A t \in Submitters : t # s => pc'[t] = pc[t]
BY DEF TypeOK, Goto

\* What the invariant says of a submitter and its proposal.
LEMMA SubmitterKnows ==
  ASSUME OrderInv, NEW s \in Submitters, pc[s] \in SubmitPcs
  PROVE  /\ cur[s] \in Proposals
         /\ Authorised(cur[s])
         /\ verdict[cur[s]] # "none"
         /\ approval[cur[s]] # "pending"
         /\ pc[s] = "submit" =>
              /\ sent[cur[s]] = 0
              /\ alpaca[cur[s]] = "none"
              /\ order[cur[s]] = "none"
              /\ proposal[cur[s]] # "filled"
         /\ \A t \in Submitting : t # s => cur[t] # cur[s]
<1> DEFINE p == cur[s]
<1>1. p \in Proposals /\ \A t \in Submitting : t # s => cur[t] # p
  BY DEF OrderInv, SubmitterInv, Submitting
<1>2. Authorised(p) /\ verdict[p] # "none" /\ approval[p] # "pending"
  BY <1>1 DEF OrderInv, SubmitterInv, Submitting, ApprovalInv, Authorised
<1>3. ASSUME pc[s] = "submit"
      PROVE  /\ sent[p] = 0
             /\ alpaca[p] = "none"
             /\ order[p] = "none"
             /\ proposal[p] # "filled"
  <2>1. sent[p] = 0 /\ alpaca[p] = "none"
    BY <1>1, <1>3 DEF OrderInv, SubmitterInv, Submitting, ApprovalInv
  <2> QED
    BY <1>1, <2>1 DEF OrderInv, MirrorFollowsBroker
<1> QED
  BY <1>1, <1>2, <1>3

LEMMA SubmitData ==
  ASSUME OrderInv, NEW s \in Submitters, SubmitAccepted(s) \/ SubmitFailed(s)
  PROVE  DataInv'
<1> DEFINE p == cur[s]
<1>1. TypeOK /\ pc[s] = "submit" /\ pc[s] \in SubmitPcs
  BY OrderInvParts DEF SubmitAccepted, SubmitFailed, SubmitPcs
<1>2. /\ sent' = [sent EXCEPT ![p] = @ + 1]
      /\ UNCHANGED <<proposal, approval, order, cur, verdict>>
  BY DEF SubmitAccepted, SubmitFailed, tables
<1>3. /\ \A t \in Submitters : t # s => pc'[t] = pc[t]
      /\ pc'[s] \in {"mirror", "refuse"}
      /\ pc'[s] = "mirror" => alpaca'[p] = "open"
      /\ \A q \in Proposals : q # p => alpaca'[q] = alpaca[q]
  BY <1>1, SubmitterGoesOn, SubmitterKnows
     DEF SubmitAccepted, SubmitFailed, TypeOK
<1>4. sent'[p] = 1 /\ \A q \in Proposals : q # p => sent'[q] = sent[q]
  BY <1>1, <1>2, SubmitterKnows DEF TypeOK
<1> USE <1>1, <1>2, <1>3, <1>4, SubmitterKnows, OrderInvParts
    DEF DataInv, Submitting
<1>5. ApprovalInv'
  BY DEF ApprovalInv, Authorised
<1>6. SubmitterInv'
  BY DEF SubmitterInv, SubmitPcs
<1>7. FollowInv'
  BY DEF FollowInv, SubmitPcs
<1>8. MirrorFollowsBroker'
  BY DEF MirrorFollowsBroker
<1> QED
  BY <1>5, <1>6, <1>7, <1>8

\* The steps that follow an accepted order.
LEMMA FollowData ==
  ASSUME OrderInv, NEW s \in Submitters,
         \/ MirrorOrder(s) \/ MarkSubmitted(s)
         \/ SettleOrder(s) \/ SettleProposal(s)
  PROVE  DataInv'
<1> DEFINE p == cur[s]
<1>1. TypeOK /\ DataInv /\ pc[s] \in SubmitPcs
  BY OrderInvParts
     DEF MirrorOrder, MarkSubmitted, SettleOrder, SettleProposal, SubmitPcs
<1>2. UNCHANGED <<approval, alpaca, cur, verdict, sent>>
  BY DEF MirrorOrder, MarkSubmitted, SettleOrder, SettleProposal, history
<1>3. /\ \A t \in Submitters : t # s => pc'[t] = pc[t]
      /\ pc'[s] # "submit"
  BY <1>1, SubmitterGoesOn, ReturnStaysOut
     DEF MirrorOrder, MarkSubmitted, SettleOrder, SettleProposal, SubmitPcs
<1>4. \A q \in Proposals : q # p => order'[q] = order[q] /\ proposal'[q] = proposal[q]
  BY <1>1 DEF MirrorOrder, MarkSubmitted, SettleOrder, SettleProposal, TypeOK
<1>5. p \in Proposals /\ \A t \in Submitting : t # s => cur[t] # p
  BY <1>1, SubmitterKnows
<1>6. ApprovalInv'
  BY <1>1, <1>2 DEF DataInv, ApprovalInv, Authorised
<1>7. SubmitterInv'
  BY <1>1, <1>2, <1>3 DEF DataInv, SubmitterInv, Submitting
<1>8. /\ pc'[s] \in {"mirror", "mark", "poll"} =>
           alpaca'[p] # "none" /\ proposal'[p] # "filled"
      /\ pc'[s] = "settle" =>
           /\ alpaca'[p] \in Terminal
           /\ order'[p] = IF alpaca'[p] = "filled" THEN "filled" ELSE "canceled"
  <2> USE <1>1, <1>2, <1>5, SubmitterGoesOn, ReturnStaysOut
      DEF TypeOK, DataInv, FollowInv, Submitting, SubmitPcs, Put, Applied
  <2>1. CASE MirrorOrder(s)
    BY <2>1 DEF MirrorOrder
  <2>2. CASE MarkSubmitted(s)
    BY <2>2 DEF MarkSubmitted
  <2>3. CASE SettleOrder(s)
    BY <2>3 DEF SettleOrder
  <2>4. CASE SettleProposal(s)
    BY <2>4 DEF SettleProposal
  <2> QED
    BY <2>1, <2>2, <2>3, <2>4
<1>9. FollowInv'
  <2>1. \A t \in Submitting : cur[t] \in Proposals
    BY <1>1 DEF DataInv, SubmitterInv
  <2>2. \A t \in Submitting' : t # s =>
          /\ t \in Submitting
          /\ cur[t] # p
          /\ pc'[t] = pc[t]
          /\ order'[cur[t]] = order[cur[t]]
          /\ proposal'[cur[t]] = proposal[cur[t]]
    BY <1>3, <1>4, <1>5, <2>1 DEF Submitting
  <2> QED
    BY <1>1, <1>2, <1>8, <2>2 DEF DataInv, FollowInv
<1>10. /\ order'[p] # "none" => alpaca[p] # "none"
       /\ order'[p] = "filled" => alpaca[p] = "filled"
       /\ order'[p] = "canceled" => alpaca[p] \in {"partial", "dead"}
       /\ proposal'[p] = "filled" => order'[p] = "filled"
  <2> USE <1>1, <1>5
      DEF TypeOK, DataInv, FollowInv, MirrorFollowsBroker, Submitting,
          SubmitPcs, Put, Applied, Terminal
  <2>1. CASE MirrorOrder(s)
    BY <2>1 DEF MirrorOrder
  <2>2. CASE MarkSubmitted(s)
    BY <2>2 DEF MarkSubmitted
  <2>3. CASE SettleOrder(s)
    BY <2>3 DEF SettleOrder
  <2>4. CASE SettleProposal(s)
    BY <2>4 DEF SettleProposal
  <2> QED
    BY <2>1, <2>2, <2>3, <2>4
<1>11. MirrorFollowsBroker'
  BY <1>1, <1>2, <1>4, <1>10 DEF DataInv, MirrorFollowsBroker
<1> QED
  BY <1>6, <1>7, <1>9, <1>11 DEF DataInv

----------------------------------------------------------------------------
(* Decide, CancelRun, Alpaca *)

LEMMA ApproveData ==
  ASSUME OrderInv, NEW d \in Deciders, NEW p \in Proposals, Approve(d, p)
  PROVE  DataInv'
<1>1. TypeOK /\ DataInv
  BY OrderInvParts
<1>2. /\ pc[d] = "idle"
      /\ approval[p] = "pending"
      /\ cur' = [cur EXCEPT ![d] = p]
      /\ UNCHANGED <<proposal, order, alpaca, verdict, sent>>
  BY DEF Approve, Decidable, history
<1>3. PICK w : /\ approval' = [approval EXCEPT ![p] = Put(w, "approved", @)]
               /\ Goto(d, IF w = "ok" THEN "submit" ELSE "idle")
  BY DEF Approve
<1>4. /\ verdict[p] = "breach"
      /\ sent[p] = 0
  BY <1>1, <1>2 DEF DataInv, ApprovalInv
<1>5. \A t \in Submitting : cur[t] # p
  \* Whoever submits p does it because the gate allowed it or because its
  \* approval is approved, and it is a pending breach.
  BY <1>1, <1>2, <1>4 DEF DataInv, SubmitterInv, Submitting
<1>6. /\ d \in Submitters
      /\ d # Runner
      /\ \A t \in Submitters : t # d => pc'[t] = pc[t] /\ cur'[t] = cur[t]
      /\ cur'[d] = p
      /\ pc'[d] = "submit" => w = "ok"
      /\ pc'[d] \in {"submit", "idle"}
  BY <1>1, <1>2, <1>3, RunnerIsNoDecider, DeciderSubmits, SubmitterGoesOn
     DEF TypeOK
<1>7. /\ \A q \in Proposals : q # p => approval'[q] = approval[q]
      /\ approval'[p] \in {"pending", "approved"}
      /\ w = "ok" => approval'[p] = "approved"
  BY <1>1, <1>2, <1>3 DEF TypeOK, Put, Applied
<1> USE <1>1, <1>2, <1>4, <1>5, <1>6, <1>7 DEF DataInv, Submitting
<1>8. ApprovalInv'
  BY DEF ApprovalInv, Authorised
<1>9. SubmitterInv'
  <2>1. \A t \in Submitting' : t # d => t \in Submitting
    OBVIOUS
  <2> QED
    BY <2>1, RunnerIsNoDecider DEF SubmitterInv, SubmitPcs
<1>10. FollowInv'
  BY DEF FollowInv
<1>11. MirrorFollowsBroker'
  BY DEF MirrorFollowsBroker
<1> QED
  BY <1>8, <1>9, <1>10, <1>11

\* Steps that withdraw pending approvals; nobody submits such a proposal.
LEMMA WithdrawalKeepsData ==
  ASSUME OrderInv, NobodySubmitsAnew,
         UNCHANGED <<order, alpaca, verdict, sent>>,
         \A q \in Proposals : proposal'[q] = "filled" => proposal[q] = "filled",
         \A q \in Proposals :
           \/ approval'[q] = approval[q]
           \/ approval[q] = "pending" /\ approval'[q] \in {"rejected", "cancelled"}
  PROVE  DataInv'
<1> USE OrderInvParts DEF DataInv, NobodySubmitsAnew, Submitting
<1>1. ApprovalInv'
  BY DEF ApprovalInv, Authorised
<1>2. SubmitterInv'
  BY DEF SubmitterInv
<1>3. FollowInv'
  BY DEF FollowInv, SubmitterInv, SubmitPcs
<1>4. MirrorFollowsBroker'
  BY DEF MirrorFollowsBroker
<1> QED
  BY <1>1, <1>2, <1>3, <1>4

LEMMA RejectData ==
  ASSUME OrderInv, NEW d \in Deciders, NEW p \in Proposals, Reject(d, p)
  PROVE  DataInv'
<1>1. TypeOK
  BY OrderInvParts
<1>2. NobodySubmitsAnew
  <2>1. (Goto(d, "count_approvals") \/ Goto(d, "idle")) /\ UNCHANGED cur
    BY DEF Reject
  <2> QED
    BY <1>1, <2>1, DeciderSubmits, SubmitterStaysOut DEF SubmitPcs
<1>3. UNCHANGED <<order, alpaca, verdict, sent>>
  BY DEF Reject, history
<1>4. \A q \in Proposals :
        /\ proposal'[q] = "filled" => proposal[q] = "filled"
        /\ \/ approval'[q] = approval[q]
           \/ approval[q] = "pending" /\ approval'[q] \in {"rejected", "cancelled"}
  BY <1>1 DEF Reject, Decidable, Put, TypeOK
<1> QED
  BY <1>2, <1>3, <1>4, WithdrawalKeepsData

LEMMA CancelApprovalsData ==
  ASSUME OrderInv, CancelApprovals
  PROVE  DataInv'
<1>1. NobodySubmitsAnew
  BY DEF CancelApprovals, NobodySubmitsAnew
<1>2. UNCHANGED <<proposal, order, alpaca, verdict, sent>>
  BY DEF CancelApprovals, history
<1>3. \A q \in Proposals :
        \/ approval'[q] = approval[q]
        \/ approval[q] = "pending" /\ approval'[q] \in {"rejected", "cancelled"}
  BY DEF CancelApprovals, Put
<1> QED
  BY <1>1, <1>2, <1>3, WithdrawalKeepsData

LEMMA SettlesData ==
  ASSUME OrderInv, NEW p \in Proposals, AlpacaSettles(p)
  PROVE  DataInv'
<1>1. TypeOK /\ DataInv
  BY OrderInvParts
<1>2. /\ UNCHANGED <<proposal, approval, order, pc, cur, verdict, sent>>
      /\ alpaca[p] = "open"
      /\ alpaca'[p] \in Terminal
      /\ \A q \in Proposals : q # p => alpaca'[q] = alpaca[q]
  BY <1>1 DEF AlpacaSettles, tables, history, TypeOK
<1> USE <1>1, <1>2 DEF DataInv, Submitting, Terminal
<1>3. ApprovalInv'
  BY DEF ApprovalInv, Authorised
<1>4. SubmitterInv'
  BY DEF SubmitterInv
<1>5. FollowInv'
  BY DEF FollowInv, SubmitterInv
<1>6. MirrorFollowsBroker'
  BY DEF MirrorFollowsBroker
<1> QED
  BY <1>3, <1>4, <1>5, <1>6

LEMMA DataNext ==
  ASSUME OrderInv, [Next]_vars
  PROVE  DataInv'
<1>0. TypeOK /\ DataInv
  BY OrderInvParts
<1>1. CASE RunnerStep \/ StartRun \/ \E a \in Agents : BeginResume(a)
  BY <1>0, <1>1, QuietKeepsData, QuietChain, QuietLoop, GateRefusesData,
     GateAllowsData, GateAsksData DEF RunnerStep
<1>2. ASSUME NEW s \in Submitters, SubmitStep(s) \/ CountStep(s)
      PROVE  DataInv'
  BY <1>0, <1>2, QuietKeepsData, QuietReturn, SubmitData, FollowData
     DEF SubmitStep
<1>3. ASSUME NEW d \in Deciders, NEW p \in Proposals,
             Approve(d, p) \/ Reject(d, p)
      PROVE  DataInv'
  BY <1>3, ApproveData, RejectData
<1>4. CASE BeginCancel \/ CancelStep \/ Crash
  BY <1>0, <1>4, QuietKeepsData, QuietRequests, CancelApprovalsData
     DEF CancelStep
<1>5. ASSUME NEW p \in Proposals, AlpacaSettles(p)
      PROVE  DataInv'
  BY <1>5, SettlesData
<1>6. CASE UNCHANGED vars
  <2>1. Quiet
    BY <1>6 DEF vars, tables, history, Quiet, NobodySubmitsAnew
  <2> QED
    BY <1>0, <2>1, QuietKeepsData
<1> QED
  BY <1>1, <1>2, <1>3, <1>4, <1>5, <1>6 DEF Next

----------------------------------------------------------------------------
(* The gate judges each proposal once. *)

Waiting == {"none", "awaiting_agent_input"}

\* The run does not begin to wait, for a start or for an answer.
KeepsGoing == runStatus' = runStatus \/ runStatus' \notin Waiting

\* The runner stays where it is.
LEMMA OthersKeepGate ==
  ASSUME GateInv, UNCHANGED verdict, KeepsGoing,
         pc'[Runner] = pc[Runner], cur'[Runner] = cur[Runner]
  PROVE  GateInv'
BY DEF GateInv, KeepsGoing, Waiting, NothingJudged

\* The runner works before its loop.
LEMMA BeforeLoopKeepsGate ==
  ASSUME NothingJudged, UNCHANGED verdict,
         pc'[Runner] \notin Judged \cup {"gate"},
         pc'[Runner] \in Committed => runStatus' \notin Waiting
  PROVE  GateInv'
BY DEF GateInv, Waiting, NothingJudged

\* The runner is out of its loop.
LEMMA OutOfLoopKeepsGate ==
  ASSUME GateInv, KeepsGoing,
         UNCHANGED verdict \/ runStatus \notin Waiting,
         pc'[Runner] \notin Early \cup Committed
  PROVE  GateInv'
BY DEF GateInv, KeepsGoing, Waiting, NothingJudged, Committed, Judged

\* The runner is in its loop and stays at its proposal.
LEMMA JudgedKeepsGate ==
  ASSUME GateInv, runStatus \notin Waiting, UNCHANGED <<runStatus, cur>>,
         pc[Runner] \in Judged \cup {"gate"},
         pc'[Runner] \in Judged,
         \A q \in Proposals : q # cur[Runner] => verdict'[q] = verdict[q]
  PROVE  GateInv'
BY DEF GateInv, Waiting, NothingJudged, Early, Judged, SubmitPcs, Proposals

\* The runner is done with its proposal and goes to the next.
LEMMA AdvanceKeepsGate ==
  ASSUME TypeOK, GateInv, Advance, UNCHANGED runStatus,
         pc[Runner] \in Judged \cup {"gate"},
         \A q \in Proposals : q # cur[Runner] => verdict'[q] = verdict[q]
  PROVE  GateInv'
<1>1. /\ runStatus' \notin Waiting
      /\ cur[Runner] \in Proposals
      /\ \A q \in Proposals : q > cur[Runner] => verdict[q] = "none"
  BY DEF GateInv, Waiting, Committed, Judged
<1>2. CASE cur[Runner] < count
  <2>1. /\ pc'[Runner] = "gate"
        /\ cur'[Runner] = cur[Runner] + 1
    BY <1>2, RunnerIsNoDecider DEF Advance, TypeOK, Submitters
  <2>2. cur'[Runner] \in Proposals /\ cur[Runner] \in Int
    BY <1>1, <1>2, <2>1, MaxProposalsAssumption DEF TypeOK, Proposals
  <2>3. \A q \in Proposals : q >= cur'[Runner] => verdict'[q] = "none"
    BY <1>1, <2>1, <2>2 DEF Proposals
  <2> QED
    BY <1>1, <2>1, <2>2, <2>3
       DEF GateInv, Waiting, Early, Committed, Judged, SubmitPcs, Proposals
<1>3. CASE ~(cur[Runner] < count)
  <2>1. pc'[Runner] = "finish"
    BY <1>3, RunnerIsNoDecider DEF Advance, TypeOK, Submitters
  <2> QED
    BY <1>1, <2>1
       DEF GateInv, Waiting, Early, Committed, Judged, SubmitPcs
<1> QED
  BY <1>2, <1>3

\* Where the runner goes that leaves its loop.
Outside == {"idle", "finish", "fail", "orphans"} \cup CountPcs

LEMMA OutsideIsOutside ==
  /\ Outside \cap (Early \cup Committed) = {}
  /\ \A status, fill : OnError(status, fill) \in Outside
BY DEF Outside, Early, Committed, SubmitPcs, CountPcs, OnError

LEMMA RunnerGoes ==
  ASSUME TypeOK, NEW there, Goto(Runner, there)
  PROVE  pc'[Runner] = there
BY DEF TypeOK, Goto, Submitters

LEMMA ChainGate ==
  ASSUME TypeOK, GateInv,
         \/ StartRun \/ Prelude \/ BeginStep \/ AgentAnswers
         \/ AgentInterrupts \/ AgentFails \/ Suspend
         \/ \E a \in Agents : BeginResume(a)
         \/ ResumeAnswers \/ ResumeInterrupts \/ ResumeFails
         \/ ResumeStatus \/ ResumePrelude \/ InsertProposals
         \/ InvalidPortfolio
  PROVE  GateInv'
<1>1. UNCHANGED verdict
  BY DEF StartRun, Prelude, BeginStep, AgentAnswers, AgentInterrupts,
         AgentFails, Suspend, BeginResume, ResumeAnswers, ResumeInterrupts,
         ResumeFails, ResumeStatus, ResumePrelude, InsertProposals,
         InvalidPortfolio, history
<1>2. NothingJudged
  BY DEF GateInv, Early, StartRun, Prelude, BeginStep, AgentAnswers,
         AgentInterrupts, AgentFails, Suspend, BeginResume, ResumeAnswers,
         ResumeInterrupts, ResumeFails, ResumeStatus, ResumePrelude,
         InsertProposals, InvalidPortfolio
<1>3. /\ pc'[Runner] \notin Judged \cup {"gate"}
      /\ pc'[Runner] \in Committed => runStatus' \notin Waiting
  <2> USE OutsideIsOutside, RunnerGoes
      DEF Judged, Committed, Early, SubmitPcs, Waiting, Fails, NextAgent,
          SetRunStatus, Put, Applied
  <2>1. CASE StartRun
    BY <2>1 DEF StartRun
  <2>2. CASE Prelude
    BY <2>2 DEF Prelude, GateInv, tables
  <2>3. CASE BeginStep
    BY <2>3 DEF BeginStep, TypeOK, Agents
  <2>4. CASE AgentAnswers
    BY <2>4 DEF AgentAnswers, GateInv
  <2>5. CASE AgentInterrupts
    BY <2>5 DEF AgentInterrupts, GateInv
  <2>6. CASE AgentFails
    BY <2>6 DEF AgentFails
  <2>7. CASE Suspend
    BY <2>7 DEF Suspend
  <2>8. CASE \E a \in Agents : BeginResume(a)
    BY <2>8 DEF BeginResume
  <2>9. CASE ResumeAnswers
    BY <2>9 DEF ResumeAnswers
  <2>10. CASE ResumeInterrupts
    BY <2>10 DEF ResumeInterrupts
  <2>11. CASE ResumeFails
    BY <2>11 DEF ResumeFails
  <2>12. CASE ResumeStatus
    BY <2>12 DEF ResumeStatus, TypeOK, Agents
  <2>13. CASE ResumePrelude
    BY <2>13 DEF ResumePrelude, GateInv, tables
  <2>14. CASE InsertProposals
    BY <2>14 DEF InsertProposals, GateInv
  <2>15. CASE InvalidPortfolio
    BY <2>15 DEF InvalidPortfolio
  <2> QED
    BY <2>1, <2>2, <2>3, <2>4, <2>5, <2>6, <2>7, <2>8, <2>9, <2>10, <2>11,
       <2>12, <2>13, <2>14, <2>15
<1> QED
  BY <1>1, <1>2, <1>3, BeforeLoopKeepsGate

\* The first proposal is about to be gated.
LEMMA PrepareGate ==
  ASSUME TypeOK, GateInv, Prepare
  PROVE  GateInv'
<1>1. /\ NothingJudged
      /\ UNCHANGED verdict
      /\ runStatus' \notin Waiting
  BY DEF Prepare, GateInv, Early, Committed, Waiting, tables, history
<1>2. CASE Goto(Runner, "gate") /\ cur' = [cur EXCEPT ![Runner] = 1] /\ count # 0
  <2>1. pc'[Runner] = "gate" /\ cur'[Runner] = 1
    BY <1>2, RunnerGoes DEF TypeOK, Submitters
  <2>2. 1 \in Proposals
    BY <1>2, MaxProposalsAssumption DEF TypeOK, Proposals
  <2> QED
    BY <1>1, <2>1, <2>2 DEF GateInv, NothingJudged, Waiting, Early
<1>3. CASE Goto(Runner, "finish") \/ Fails
  BY <1>1, <1>3, BeforeLoopKeepsGate, OutsideIsOutside, RunnerGoes
     DEF Fails, Outside, Committed, Judged
<1> QED
  BY <1>2, <1>3 DEF Prepare

LEMMA LoopGate ==
  ASSUME TypeOK, GateInv,
         \/ GateRejects \/ GateSkips \/ GateAllows \/ GateAsks \/ GateFails
         \/ ParkProposal \/ RefreshState
  PROVE  GateInv'
<1>1. /\ pc[Runner] \in Judged \cup {"gate"}
      /\ UNCHANGED runStatus
  BY DEF GateRejects, GateSkips, GateAllows, GateAsks, GateFails, ParkProposal,
         RefreshState, Judged, tables
<1>2. runStatus \notin Waiting
  BY <1>1 DEF GateInv, Committed, Judged, Waiting
<1>3. \A q \in Proposals : q # cur[Runner] => verdict'[q] = verdict[q]
  BY DEF GateRejects, GateSkips, GateAllows, GateAsks, GateFails, ParkProposal,
         RefreshState, TypeOK, history
<1>4. \/ Advance
      \/ Fails
      \/ UNCHANGED cur /\ \E there \in {"submit", "await"} : Goto(Runner, there)
  BY DEF GateRejects, GateSkips, GateAllows, GateAsks, GateFails, ParkProposal,
         RefreshState
<1>5. CASE Advance
  BY <1>1, <1>3, <1>5, AdvanceKeepsGate
<1>6. CASE Fails
  BY <1>1, <1>2, <1>6, OutOfLoopKeepsGate, OutsideIsOutside, RunnerGoes
     DEF Fails, KeepsGoing
<1>7. CASE UNCHANGED cur /\ \E there \in {"submit", "await"} : Goto(Runner, there)
  BY <1>1, <1>2, <1>3, <1>7, JudgedKeepsGate, RunnerGoes DEF Judged, SubmitPcs
<1> QED
  BY <1>4, <1>5, <1>6, <1>7

LEMMA EndGate ==
  ASSUME TypeOK, GateInv, Finish \/ FailRun \/ CancelOrphans
  PROVE  GateInv'
<1>1. UNCHANGED verdict
  BY DEF Finish, FailRun, CancelOrphans, history
<1>2. KeepsGoing
  BY DEF Finish, FailRun, CancelOrphans, KeepsGoing, SetRunStatus, Put, Waiting
<1>3. pc'[Runner] \in Outside
  <2> USE OutsideIsOutside, RunnerGoes DEF Outside, CountPcs
  <2>1. CASE Finish
    BY <2>1 DEF Finish
  <2>2. CASE FailRun
    BY <2>2 DEF FailRun
  <2>3. CASE CancelOrphans
    BY <2>3 DEF CancelOrphans
  <2> QED
    BY <2>1, <2>2, <2>3
<1> QED
  BY <1>1, <1>2, <1>3, OutsideIsOutside, OutOfLoopKeepsGate

\* A submitter: the runner in its loop or counting, or a decider.
LEMMA SubmitterGate ==
  ASSUME TypeOK, GateInv, NEW s \in Submitters, SubmitStep(s) \/ CountStep(s)
  PROVE  GateInv'
<1>1. /\ UNCHANGED verdict
      /\ KeepsGoing
  BY DEF SubmitStep, SubmitAccepted, SubmitFailed, MirrorOrder, MarkSubmitted,
         SettleOrder, SettleProposal, PollTimeout, PollError, RejectUnsubmitted,
         CountStep, CountApprovals, CountProposals, WriteStatus, KeepsGoing,
         Put, Waiting, tables, history
<1>2. CASE SubmitStep(s)
  <2>1. UNCHANGED runStatus /\ pc[s] \in SubmitPcs
    BY <1>2 DEF SubmitStep, SubmitAccepted, SubmitFailed, MirrorOrder,
       MarkSubmitted, SettleOrder, SettleProposal, PollTimeout, PollError,
       RejectUnsubmitted, tables, SubmitPcs
  <2>2. \/ s = Runner /\ Advance
        \/ UNCHANGED cur /\ \E there \in SubmitPcs \cup
             {Returned(s), ReturnedError(s), OnError(memStatus, anyFill),
              "count_approvals", "idle"} : Goto(s, there)
    BY <1>2 DEF SubmitStep, SubmitAccepted, SubmitFailed, MirrorOrder,
       MarkSubmitted, SettleOrder, SettleProposal, PollTimeout, PollError,
       RejectUnsubmitted, SubmitPcs
  <2>3. CASE s # Runner
    BY <1>1, <2>2, <2>3, SubmitterGoesOn, OthersKeepGate DEF Submitters
  <2>4. CASE s = Runner
    <3>1. pc[Runner] \in Judged /\ runStatus \notin Waiting
      BY <2>1, <2>4 DEF Judged, GateInv, Committed, Waiting
    <3>2. CASE Advance
      BY <1>1, <2>1, <3>1, <3>2, AdvanceKeepsGate
    <3>3. CASE UNCHANGED cur /\ pc'[Runner] \in SubmitPcs \cup {"next"}
      BY <1>1, <2>1, <3>1, <3>3, JudgedKeepsGate DEF Judged
    <3>4. CASE pc'[Runner] \in Outside
      BY <1>1, <3>4, OutsideIsOutside, OutOfLoopKeepsGate
    <3> QED
      BY <2>2, <2>4, <3>2, <3>3, <3>4, OutsideIsOutside, RunnerGoes
         DEF Returned, ReturnedError, Outside, CountPcs
  <2> QED
    BY <2>3, <2>4
<1>3. CASE CountStep(s)
  <2>1. /\ UNCHANGED cur
        /\ pc[s] \in CountPcs
        /\ \E there \in CountPcs \cup {"idle"} : Goto(s, there)
    BY <1>3 DEF CountStep, CountApprovals, CountProposals, WriteStatus, CountPcs
  <2>2. CASE s # Runner
    BY <1>1, <2>1, <2>2, SubmitterGoesOn, OthersKeepGate DEF Submitters
  <2>3. CASE s = Runner
    BY <1>1, <2>1, <2>3, RunnerGoes, OutsideIsOutside, OutOfLoopKeepsGate
       DEF Outside
  <2> QED
    BY <2>2, <2>3
<1> QED
  BY <1>2, <1>3

LEMMA RequestGate ==
  ASSUME TypeOK, GateInv,
         \/ \E d \in Deciders, p \in Proposals : Approve(d, p) \/ Reject(d, p)
         \/ BeginCancel
         \/ CancelStep
         \/ \E p \in Proposals : AlpacaSettles(p)
         \/ UNCHANGED vars
  PROVE  GateInv'
<1>1. /\ UNCHANGED verdict
      /\ KeepsGoing
  BY DEF Approve, Reject, BeginCancel, CancelStep, PluckProposals,
         CancelProposals, CancelApprovals, CancelRunRow, AlpacaSettles, vars,
         tables, history, KeepsGoing, Put, Waiting
<1>2. \/ UNCHANGED <<pc, cur>>
      \/ \E d \in Deciders : \E there :
           Goto(d, there) /\ \A s \in Submitters : s # d => cur'[s] = cur[s]
  BY DEF Approve, Reject, BeginCancel, CancelStep, PluckProposals,
         CancelProposals, CancelApprovals, CancelRunRow, AlpacaSettles, vars,
         tables, TypeOK
<1>3. pc'[Runner] = pc[Runner] /\ cur'[Runner] = cur[Runner]
  BY <1>2, RunnerIsNoDecider, DeciderSubmits, SubmitterGoesOn DEF Submitters
<1> QED
  BY <1>1, <1>3, OthersKeepGate

LEMMA CrashGate ==
  ASSUME GateInv, Crash
  PROVE  GateInv'
<1>1. pc'[Runner] = "idle" /\ UNCHANGED <<runStatus, verdict>>
  BY DEF Crash, Submitters, tables, history
<1> QED
  BY <1>1, OutOfLoopKeepsGate, OutsideIsOutside DEF KeepsGoing, Outside

LEMMA GateNext ==
  ASSUME OrderInv, [Next]_vars
  PROVE  GateInv'
<1>1. TypeOK /\ GateInv
  BY OrderInvParts
<1>2. CASE RunnerStep \/ StartRun \/ \E a \in Agents : BeginResume(a)
  BY <1>1, <1>2, ChainGate, PrepareGate, LoopGate, EndGate DEF RunnerStep
<1>3. CASE \E s \in Submitters : SubmitStep(s) \/ CountStep(s)
  BY <1>1, <1>3, SubmitterGate
<1> QED
  BY <1>1, <1>2, <1>3, RequestGate, CrashGate DEF Next

----------------------------------------------------------------------------
(* The theorems *)

LEMMA OrderInvNext == OrderInv /\ [Next]_vars => OrderInv'
BY OrderInvParts, TypeNext, GateNext, DataNext DEF OrderInv, DataInv

LEMMA OrderInvHolds == Spec => []OrderInv
BY OrderInvInit, OrderInvNext, PTL DEF Spec

\* No proposal is sent to Alpaca twice, by whichever of the runner and any
\* number of requests, whatever fails.
THEOREM OrdersAreSentOnce == Spec => []AtMostOneSubmission
<1>1. OrderInv => AtMostOneSubmission
  BY DEF OrderInv, ApprovalInv, AtMostOneSubmission
<1> QED
  BY <1>1, OrderInvHolds, PTL

\* No order without a verdict of the gate or an approval that stays approved.
THEOREM OrdersAreAuthorised == Spec => []SubmissionAuthorised
<1>1. OrderInv => SubmissionAuthorised
  BY DEF OrderInv, TypeOK, ApprovalInv, SubmissionAuthorised
<1> QED
  BY <1>1, OrderInvHolds, PTL

\* The mirrors and the proposals never claim what did not happen at Alpaca.
THEOREM RowsFollowBroker == Spec => []MirrorFollowsBroker
<1>1. OrderInv => MirrorFollowsBroker
  BY DEF OrderInv
<1> QED
  BY <1>1, OrderInvHolds, PTL

\* What was approved, rejected or cancelled stays so.
THEOREM DecisionsStand == Spec => DecisionsAreFinal
<1> DEFINE
      Decided == {"approved", "rejected", "cancelled"}
      Final == \A p \in Proposals : approval[p] \in Decided => approval'[p] = approval[p]
<1>1. ASSUME OrderInv, Next
      PROVE  Final
  <2>1. CASE UNCHANGED approval
    BY <2>1
  <2>2. CASE GateAsks
    <3>1. approval[cur[Runner]] = "none"
      BY <1>1, <2>2, Unjudged DEF GateAsks
    <3> QED
      BY <1>1, <2>2, <3>1 DEF GateAsks, OrderInv, TypeOK
  <2>3. ASSUME NEW d \in Deciders, NEW p \in Proposals,
               Approve(d, p) \/ Reject(d, p)
        PROVE  Final
    BY <1>1, <2>3 DEF Approve, Reject, Decidable, OrderInv, TypeOK
  <2>4. CASE CancelApprovals
    BY <2>4 DEF CancelApprovals
  <2>5. CASE RunnerStep /\ ~GateAsks
    BY <2>1, <2>5
       DEF RunnerStep, Prelude, BeginStep, AgentAnswers, AgentInterrupts,
           AgentFails, Suspend, ResumeAnswers, ResumeInterrupts, ResumeFails,
           ResumeStatus, ResumePrelude, InsertProposals, InvalidPortfolio,
           Prepare, GateRejects, GateSkips, GateAllows, GateFails,
           ParkProposal, RefreshState, Finish, FailRun, CancelOrphans, tables
  <2>6. CASE \E s \in Submitters : SubmitStep(s) \/ CountStep(s)
    BY <2>1, <2>6
       DEF SubmitStep, SubmitAccepted, SubmitFailed, MirrorOrder, MarkSubmitted,
           SettleOrder, SettleProposal, PollTimeout, PollError,
           RejectUnsubmitted, CountStep, CountApprovals, CountProposals,
           WriteStatus, tables
  <2>7. CASE \/ StartRun
             \/ \E a \in Agents : BeginResume(a)
             \/ BeginCancel \/ (CancelStep /\ ~CancelApprovals)
             \/ \E p \in Proposals : AlpacaSettles(p)
             \/ Crash
    BY <2>1, <2>7
       DEF StartRun, BeginResume, BeginCancel, CancelStep, PluckProposals,
           CancelProposals, CancelRunRow, AlpacaSettles, Crash, tables
  <2> QED
    BY <1>1, <2>2, <2>3, <2>4, <2>5, <2>6, <2>7 DEF Next
<1>2. OrderInv /\ [Next]_vars =>
        [\A p \in Proposals :
           approval[p] \in {"approved", "rejected", "cancelled"}
             => approval'[p] = approval[p]]_vars
  BY <1>1
<1> QED
  BY <1>2, OrderInvHolds, PTL DEF Spec, DecisionsAreFinal

----------------------------------------------------------------------------
(* TradingRun implements OrderAuthority: every step of the run gives or    *)
(* refuses one proposal its authority, refuses all that are undecided,     *)
(* places or settles one order, or does nothing the promise speaks of.     *)

\* Of the proposals, only p may change its authority or its order.
OnlyChanges(p) ==
  \A q \in Proposals \ {p} :
    AuthorityOf(q)' = AuthorityOf(q) /\ PlacedOf(q)' = PlacedOf(q)

Stutter == \A q \in Proposals :
  AuthorityOf(q)' = AuthorityOf(q) /\ PlacedOf(q)' = PlacedOf(q)

LEMMA StutterImplements ==
  ASSUME Stutter
  PROVE  [Authority!Next]_(Authority!vars)
BY DEF Stutter, Authority!vars

LEMMA GrantImplements ==
  ASSUME NEW p \in Proposals, OnlyChanges(p), PlacedOf(p)' = PlacedOf(p),
         AuthorityOf(p) = "undecided", AuthorityOf(p)' = "granted"
  PROVE  Authority!Next
<1>1. Authority!Grant(p)
  BY DEF OnlyChanges, Authority!Grant
<1> QED
  BY <1>1 DEF Authority!Next

LEMMA DenyImplements ==
  ASSUME NEW p \in Proposals, OnlyChanges(p), PlacedOf(p)' = PlacedOf(p),
         AuthorityOf(p) = "undecided", AuthorityOf(p)' = "denied"
  PROVE  Authority!Next
<1>1. Authority!Deny(p)
  BY DEF OnlyChanges, Authority!Deny
<1> QED
  BY <1>1 DEF Authority!Next

LEMMA PlaceImplements ==
  ASSUME NEW p \in Proposals, OnlyChanges(p), AuthorityOf(p)' = AuthorityOf(p),
         AuthorityOf(p) = "granted",
         PlacedOf(p) = "none", PlacedOf(p)' \in {"open", "refused"}
  PROVE  Authority!Next
<1>1. Authority!Place(p)
  BY DEF OnlyChanges, Authority!Place
<1> QED
  BY <1>1 DEF Authority!Next

LEMMA SettleImplements ==
  ASSUME NEW p \in Proposals, OnlyChanges(p), AuthorityOf(p)' = AuthorityOf(p),
         PlacedOf(p) = "open", PlacedOf(p)' \in Terminal
  PROVE  Authority!Next
<1>1. Authority!Settle(p)
  BY DEF OnlyChanges, Authority!Settle, Authority!Settled, Terminal
<1> QED
  BY <1>1 DEF Authority!Next

\* The steps, one kind after the other.

LEMMA UnchangedStutters ==
  ASSUME UNCHANGED <<approval, alpaca, verdict, sent>>
  PROVE  Stutter
BY DEF Stutter, AuthorityOf, PlacedOf, Authorised

LEMMA GateImplements ==
  ASSUME OrderInv,
         GateRejects \/ GateSkips \/ GateAllows \/ GateAsks
  PROVE  [Authority!Next]_(Authority!vars)
<1>0. PICK p \in Proposals : p = cur[Runner]
  BY Unjudged DEF GateRejects, GateSkips, GateAllows, GateAsks
<1>1. /\ pc[Runner] = "gate"
      /\ UNCHANGED <<alpaca, sent>>
      /\ \A q \in Proposals \ {p} :
           verdict'[q] = verdict[q] /\ approval'[q] = approval[q]
  BY <1>0 DEF GateRejects, GateSkips, GateAllows, GateAsks, OrderInv, TypeOK,
              tables
<1>2. /\ verdict[p] = "none"
      /\ approval[p] = "none"
  BY <1>0, <1>1, Unjudged
<1>3. /\ OnlyChanges(p)
      /\ PlacedOf(p)' = PlacedOf(p)
      /\ AuthorityOf(p) = "undecided"
  BY <1>1, <1>2 DEF OnlyChanges, AuthorityOf, PlacedOf, Authorised
<1>4. CASE GateRejects \/ GateSkips
  <2>1. /\ verdict'[p] \in {"not_holdable", "auto_reject", "no_quantity"}
        /\ approval'[p] = "none"
    BY <1>0, <1>2, <1>4 DEF GateRejects, GateSkips, OrderInv, TypeOK, tables
  <2>2. AuthorityOf(p)' = "denied"
    BY <2>1 DEF AuthorityOf, Authorised
  <2> QED
    BY <1>3, <2>2, DenyImplements
<1>5. CASE GateAllows
  <2>1. verdict'[p] \in {"auto", "bypass"}
    BY <1>0, <1>2, <1>5 DEF GateAllows, OrderInv, TypeOK
  <2>2. AuthorityOf(p)' = "granted"
    BY <2>1 DEF AuthorityOf, Authorised
  <2> QED
    BY <1>3, <2>2, GrantImplements
<1>6. CASE GateAsks
  <2>1. verdict'[p] = "breach" /\ approval'[p] \in {"none", "pending"}
    BY <1>0, <1>2, <1>6 DEF GateAsks, OrderInv, TypeOK, Put
  <2>2. AuthorityOf(p)' = "undecided"
    BY <2>1 DEF AuthorityOf, Authorised
  <2> QED
    BY <1>3, <2>2, StutterImplements DEF OnlyChanges, Stutter
<1> QED
  BY <1>4, <1>5, <1>6

LEMMA SubmitImplements ==
  ASSUME OrderInv, NEW s \in Submitters, SubmitAccepted(s) \/ SubmitFailed(s)
  PROVE  Authority!Next
<1>0. PICK p \in Proposals : p = cur[s]
  BY SubmitterKnows DEF SubmitAccepted, SubmitFailed, SubmitPcs
<1>1. /\ pc[s] = "submit"
      /\ UNCHANGED <<approval, verdict>>
      /\ sent' = [sent EXCEPT ![p] = @ + 1]
      /\ \/ UNCHANGED alpaca
         \/ alpaca' = [alpaca EXCEPT ![p] = "open"]
  BY <1>0 DEF SubmitAccepted, SubmitFailed, tables
<1>2. /\ Authorised(p)
      /\ sent[p] = 0
      /\ alpaca[p] = "none"
  BY <1>0, <1>1, SubmitterKnows DEF SubmitPcs
<1>3. /\ sent'[p] = 1
      /\ alpaca'[p] \in {"none", "open"}
      /\ \A q \in Proposals \ {p} : sent'[q] = sent[q] /\ alpaca'[q] = alpaca[q]
  BY <1>1, <1>2 DEF OrderInv, TypeOK
<1>4. /\ OnlyChanges(p)
      /\ AuthorityOf(p)' = AuthorityOf(p)
  BY <1>1, <1>3 DEF OnlyChanges, AuthorityOf, PlacedOf, Authorised
<1>5. /\ AuthorityOf(p) = "granted"
      /\ PlacedOf(p) = "none"
      /\ PlacedOf(p)' \in {"open", "refused"}
  BY <1>2, <1>3 DEF AuthorityOf, PlacedOf
<1> QED
  BY <1>4, <1>5, PlaceImplements

LEMMA DecideImplements ==
  ASSUME OrderInv, NEW d \in Deciders, NEW p \in Proposals,
         Approve(d, p) \/ Reject(d, p)
  PROVE  [Authority!Next]_(Authority!vars)
<1>1. /\ approval[p] = "pending"
      /\ UNCHANGED <<alpaca, sent, verdict>>
      /\ \A q \in Proposals \ {p} : approval'[q] = approval[q]
  BY DEF Approve, Reject, Decidable, OrderInv, TypeOK, history
<1>2. verdict[p] = "breach"
  BY <1>1 DEF OrderInv, ApprovalInv
<1>3. /\ OnlyChanges(p)
      /\ PlacedOf(p)' = PlacedOf(p)
      /\ AuthorityOf(p) = "undecided"
  BY <1>1, <1>2 DEF OnlyChanges, AuthorityOf, PlacedOf, Authorised
<1>4. approval'[p] \in {"pending", "approved", "rejected"}
  BY <1>1 DEF Approve, Reject, OrderInv, TypeOK, Put
<1>5. CASE approval'[p] = "pending"
  BY <1>1, <1>3, <1>5, StutterImplements
     DEF OnlyChanges, Stutter, AuthorityOf, Authorised
<1>6. CASE approval'[p] = "approved"
  <2>1. AuthorityOf(p)' = "granted"
    BY <1>1, <1>2, <1>6 DEF AuthorityOf, Authorised
  <2> QED
    BY <1>3, <2>1, GrantImplements
<1>7. CASE approval'[p] = "rejected"
  <2>1. AuthorityOf(p)' = "denied"
    BY <1>1, <1>2, <1>7 DEF AuthorityOf, Authorised
  <2> QED
    BY <1>3, <2>1, DenyImplements
<1> QED
  BY <1>4, <1>5, <1>6, <1>7

\* A cancellation refuses all that it finds pending.
LEMMA CancelImplements ==
  ASSUME OrderInv, CancelApprovals
  PROVE  [Authority!Next]_(Authority!vars)
<1> DEFINE ps == {p \in cancelIds : approval[p] = "pending"}
<1>1. UNCHANGED <<alpaca, sent, verdict>>
  BY DEF CancelApprovals, history
<1>2. \A q \in Proposals : PlacedOf(q)' = PlacedOf(q)
  BY <1>1 DEF PlacedOf
<1>3. ps \subseteq Proposals
  BY DEF OrderInv, TypeOK
<1>4. CASE UNCHANGED approval
  BY <1>1, <1>4, UnchangedStutters, StutterImplements
<1>5. CASE \A p \in Proposals :
             approval'[p] = IF p \in ps THEN "cancelled" ELSE approval[p]
  <2>1. \A p \in ps : AuthorityOf(p) = "undecided" /\ AuthorityOf(p)' = "denied"
    BY <1>1, <1>3, <1>5 DEF AuthorityOf, Authorised, OrderInv, ApprovalInv
  <2>2. \A p \in Proposals \ ps : AuthorityOf(p)' = AuthorityOf(p)
    BY <1>1, <1>5 DEF AuthorityOf, Authorised
  <2>3. Authority!DenyAll
    BY <1>2, <1>3, <2>1, <2>2 DEF Authority!DenyAll
  <2> QED
    BY <2>3 DEF Authority!Next
<1> QED
  BY <1>4, <1>5 DEF CancelApprovals, Put, OrderInv, TypeOK

LEMMA SettlesImplements ==
  ASSUME OrderInv, NEW p \in Proposals, AlpacaSettles(p)
  PROVE  Authority!Next
<1>1. /\ UNCHANGED <<approval, sent, verdict>>
      /\ alpaca[p] = "open"
      /\ alpaca'[p] \in Terminal
      /\ \A q \in Proposals \ {p} : alpaca'[q] = alpaca[q]
  BY DEF AlpacaSettles, tables, history, OrderInv, TypeOK
<1>2. OnlyChanges(p) /\ AuthorityOf(p)' = AuthorityOf(p)
  BY <1>1 DEF OnlyChanges, AuthorityOf, PlacedOf, Authorised
<1>3. PlacedOf(p) = "open" /\ PlacedOf(p)' \in Terminal
  BY <1>1 DEF PlacedOf, Terminal
<1> QED
  BY <1>2, <1>3, SettleImplements

LEMMA InitImplements == Init => Authority!Init
BY DEF Init, Authority!Init, AuthorityOf, PlacedOf, Authorised

LEMMA NextImplements ==
  OrderInv /\ [Next]_vars => [Authority!Next]_(Authority!vars)
<1> SUFFICES ASSUME OrderInv, [Next]_vars
             PROVE  [Authority!Next]_(Authority!vars)
  OBVIOUS
<1>1. ASSUME UNCHANGED <<approval, alpaca, verdict, sent>>
      PROVE  [Authority!Next]_(Authority!vars)
  BY <1>1, UnchangedStutters, StutterImplements
<1>2. CASE StartRun \/ (\E a \in Agents : BeginResume(a))
  BY <1>1, <1>2, OrderInvParts, QuietChain DEF Quiet
<1>3. CASE RunnerStep
  BY <1>1, <1>3, OrderInvParts, QuietChain, QuietLoop, GateImplements
     DEF RunnerStep, Quiet
<1>4. ASSUME NEW s \in Submitters, SubmitStep(s) \/ CountStep(s)
      PROVE  [Authority!Next]_(Authority!vars)
  <2>1. CASE SubmitAccepted(s) \/ SubmitFailed(s)
    BY <2>1, SubmitImplements
  <2>2. CASE \/ MirrorOrder(s) \/ MarkSubmitted(s)
             \/ SettleOrder(s) \/ SettleProposal(s)
    BY <1>1, <2>2
       DEF MirrorOrder, MarkSubmitted, SettleOrder, SettleProposal, history
  <2>3. CASE \/ PollTimeout(s) \/ PollError(s) \/ RejectUnsubmitted(s)
             \/ CountStep(s)
    BY <1>1, <2>3, OrderInvParts, QuietReturn DEF Quiet
  <2> QED
    BY <1>4, <2>1, <2>2, <2>3 DEF SubmitStep
<1>5. CASE \/ BeginCancel \/ CancelStep \/ Crash
  BY <1>1, <1>5, OrderInvParts, QuietRequests, CancelImplements
     DEF CancelStep, Quiet
<1>6. CASE UNCHANGED vars
  BY <1>1, <1>6 DEF vars, tables, history
<1> QED
  BY <1>2, <1>3, <1>4, <1>5, <1>6, DecideImplements, SettlesImplements DEF Next

\* Whatever fails and however the handlers interleave, the run keeps the
\* promise of OrderAuthority.
THEOREM RunKeepsPromise == Spec => ImplementsAuthority
BY InitImplements, NextImplements, OrderInvHolds, PTL
   DEF Spec, ImplementsAuthority, Authority!Spec
=============================================================================
