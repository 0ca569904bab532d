--------------------------- MODULE WorkflowRunner ---------------------------
(***************************************************************************)
(* RunWorkflow and ResumeAgent (workflow/runner.go) for one run: the agent *)
(* chain analyst -> portfolio with its human-in-the-loop suspension, then  *)
(* the loop that gates every proposal and submits, rejects or parks it.    *)
(*                                                                         *)
(* The busy lock (module WorkflowLock) keeps a second RunWorkflow or       *)
(* ResumeAgent out, so there is one runner; approvals and cancellations do *)
(* not take that lock and run beside it (module ApprovalService).          *)
(*                                                                         *)
(* Not here: the NAV snapshot that ends a successful run.  It touches no   *)
(* row of this module and its failure does not change the run's status.    *)
(***************************************************************************)
EXTENDS OrderSubmission

Fails == Goto(Runner, OnError(memStatus, anyFill))

\* setRunStatus: run.Status first, the row afterwards.
SetRunStatus(w, status) ==
  /\ memStatus' = status
  /\ runStatus' = Put(w, status, runStatus)

\* updateStep or persistStep: each agent has one row.
SetStep(w, status) == step' = [step EXCEPT ![agent] = Put(w, status, @)]

\* The call after agent's step is recorded: the rest of the chain, then the
\* proposals.
NextAgent ==
  IF agent = "analyst"
  THEN agent' = "portfolio" /\ Goto(Runner, "agent")
  ELSE Goto(Runner, "insert") /\ UNCHANGED agent

----------------------------------------------------------------------------
(* RunWorkflow *)

\* The lock is taken, the mode resolved, the run created.
StartRun ==
  /\ pc[Runner] = "idle"
  /\ runStatus = "none"
  /\ mode' \in Modes
  /\ \E w \in Writes :
       /\ SetRunStatus(w, "created")
       /\ Goto(Runner, IF w = "ok" THEN "prelude" ELSE "idle")
  /\ UNCHANGED <<step, proposal, approval, order, alpaca, cur, seen, agent,
                 count, pendingApprovals, anyFill, cancelVars, history,
                 crashes>>

\* loadAccount, loadWatchlist, buildAgentSnapshot (an error without a broker).
Prelude ==
  /\ pc[Runner] = "prelude"
  /\ \E r \in Reads : IF r = "ok" THEN Goto(Runner, "agent") ELSE Fails
  /\ UNCHANGED <<tables, alpaca, cur, seen, runnerVars, cancelVars, history,
                 crashes>>

----------------------------------------------------------------------------
(* runAgentChain *)

\* The run's status becomes the name of the agent about to be called.
BeginStep ==
  /\ pc[Runner] = "agent"
  /\ \E w \in Writes :
       /\ SetRunStatus(w, agent)
       /\ Goto(Runner, IF w = "ok" THEN "call" ELSE OnError(agent, anyFill))
  /\ UNCHANGED <<step, proposal, approval, order, alpaca, cur, seen, mode,
                 agent, count, pendingApprovals, anyFill, cancelVars, history,
                 crashes>>

\* The agent answers and its envelope is persisted.
AgentAnswers ==
  /\ pc[Runner] = "call"
  /\ \E w \in Writes :
       /\ SetStep(w, "ok")
       /\ IF w = "ok" THEN NextAgent ELSE Fails /\ UNCHANGED agent
  /\ UNCHANGED <<runStatus, proposal, approval, order, alpaca, cur, seen, mode,
                 count, memStatus, pendingApprovals, anyFill, cancelVars,
                 history, crashes>>

\* The agent asks a human: the envelope is persisted, the run will suspend.
AgentInterrupts ==
  /\ pc[Runner] = "call"
  /\ \E w \in Writes :
       /\ SetStep(w, "interrupted")
       /\ IF w = "ok" THEN Goto(Runner, "suspend") ELSE Fails
  /\ UNCHANGED <<runStatus, proposal, approval, order, alpaca, cur, seen,
                 runnerVars, cancelVars, history, crashes>>

\* The call fails (the failed step is recorded, the write's error dropped); or
\* the envelope does not decode (no step); or it is persisted and has no result.
AgentFails ==
  /\ pc[Runner] = "call"
  /\ "agent" \in Faults
  /\ \E status \in {"failed", "ok", step[agent]} : SetStep("ok", status)
  /\ Fails
  /\ UNCHANGED <<runStatus, proposal, approval, order, alpaca, cur, seen,
                 runnerVars, cancelVars, history, crashes>>

\* The run waits for a human.  When the row cannot be written, the status in
\* memory already says so and failRun is skipped.
Suspend ==
  /\ pc[Runner] = "suspend"
  /\ \E w \in Writes : SetRunStatus(w, "awaiting_agent_input")
  /\ Goto(Runner, "idle")
  /\ UNCHANGED <<step, proposal, approval, order, alpaca, cur, seen, mode,
                 agent, count, pendingApprovals, anyFill, cancelVars, history,
                 crashes>>

----------------------------------------------------------------------------
(* ResumeAgent *)

\* The lock is taken; the run waits for input and the agent's step is
\* interrupted.  The mode is resolved again, from the strategy as it is now.
BeginResume(a) ==
  /\ pc[Runner] = "idle"
  /\ runStatus = "awaiting_agent_input"
  /\ step[a] = "interrupted"
  /\ agent' = a
  /\ mode' \in Modes
  /\ memStatus' = runStatus
  /\ pendingApprovals' = FALSE
  /\ anyFill' = FALSE
  /\ Goto(Runner, "resume")
  /\ UNCHANGED <<tables, alpaca, cur, seen, count, cancelVars, history,
                 crashes>>

\* The agent finishes; a failed step update returns without failRun.
ResumeAnswers ==
  /\ pc[Runner] = "resume"
  /\ \E w \in Writes :
       /\ SetStep(w, "ok")
       /\ Goto(Runner, IF w = "ok" THEN "resume_status" ELSE "idle")
  /\ UNCHANGED <<runStatus, proposal, approval, order, alpaca, cur, seen,
                 runnerVars, cancelVars, history, crashes>>

\* Mutant of ResumeInterrupts: the second question is recorded as an answer.
ResumeInterruptsAsOk ==
  /\ pc[Runner] = "resume"
  /\ \E w \in Writes : SetStep(w, "ok")
  /\ Goto(Runner, "idle")
  /\ UNCHANGED <<runStatus, proposal, approval, order, alpaca, cur, seen,
                 runnerVars, cancelVars, history, crashes>>

\* The agent asks again: the run goes on waiting.
ResumeInterrupts ==
  /\ pc[Runner] = "resume"
  /\ \E w \in Writes : SetStep(w, "interrupted")
  /\ Goto(Runner, "idle")
  /\ UNCHANGED <<runStatus, proposal, approval, order, alpaca, cur, seen,
                 runnerVars, cancelVars, history, crashes>>

\* The resume fails (recorded in the step) or does not decode (not recorded).
ResumeFails ==
  /\ pc[Runner] = "resume"
  /\ "agent" \in Faults
  /\ \E status \in {"failed", step[agent]} : SetStep("ok", status)
  /\ Goto(Runner, "fail")
  /\ UNCHANGED <<runStatus, proposal, approval, order, alpaca, cur, seen,
                 runnerVars, cancelVars, history, crashes>>

\* The run leaves awaiting_agent_input, so that later failures can fail it; an
\* error of this very write cannot.
ResumeStatus ==
  /\ pc[Runner] = "resume_status"
  /\ \E w \in Writes :
       /\ SetRunStatus(w, agent)
       /\ Goto(Runner, IF w = "ok" THEN "resume_prelude" ELSE "idle")
  /\ UNCHANGED <<step, proposal, approval, order, alpaca, cur, seen, mode,
                 agent, count, pendingApprovals, anyFill, cancelVars, history,
                 crashes>>

\* Earlier results, watchlist and snapshot are loaded, the chain goes on after
\* the resumed agent.
ResumePrelude ==
  /\ pc[Runner] = "resume_prelude"
  /\ \E r \in Reads :
       IF r = "ok" THEN NextAgent ELSE Goto(Runner, "fail") /\ UNCHANGED agent
  /\ UNCHANGED <<tables, alpaca, cur, seen, mode, count, memStatus,
                 pendingApprovals, anyFill, cancelVars, history, crashes>>

----------------------------------------------------------------------------
(* finishProposalsAndFills *)

\* The portfolio result is validated and its proposals are inserted at once.
\* (ResumeAgent loads the account first: an error of that is a failed write.)
InsertProposals ==
  /\ pc[Runner] = "insert"
  /\ \E n \in 0..MaxProposals, w \in Writes :
       /\ count' = n
       /\ proposal' = [p \in Proposals |->
            Put(w, IF p <= n THEN "pending_auto" ELSE proposal[p], proposal[p])]
       /\ Goto(Runner, IF w = "ok" THEN "prepare"
                       ELSE OnError(memStatus, anyFill))
  /\ UNCHANGED <<runStatus, step, approval, order, alpaca, cur, seen, mode,
                 agent, memStatus, pendingApprovals, anyFill, cancelVars,
                 history, crashes>>

\* validatePortfolioResult refuses the portfolio's result.
InvalidPortfolio ==
  /\ pc[Runner] = "insert"
  /\ "agent" \in Faults
  /\ Fails
  /\ UNCHANGED <<tables, alpaca, cur, seen, runnerVars, cancelVars, history,
                 crashes>>

\* Marks, portfolio state and the can_hold map are loaded, once for the loop.
Prepare ==
  /\ pc[Runner] = "prepare"
  /\ \E r \in Reads :
       IF r = "ok"
       THEN IF count = 0
            THEN Goto(Runner, "finish") /\ UNCHANGED cur
            ELSE /\ Goto(Runner, "gate")
                 /\ cur' = [cur EXCEPT ![Runner] = 1]
       ELSE Fails /\ UNCHANGED cur
  /\ UNCHANGED <<tables, alpaca, seen, runnerVars, cancelVars, history,
                 crashes>>

\* The proposal is rejected without asking anybody: a buy of a symbol that may
\* not be held, or a breach under auto_reject_breaches.
GateRejects ==
  LET p == cur[Runner] IN
  /\ pc[Runner] = "gate"
  /\ \E v \in {"not_holdable"} \cup
              (IF mode = "auto_reject_breaches" THEN {"auto_reject"} ELSE {}) :
       verdict' = [verdict EXCEPT ![p] = v]
  /\ \E w \in Writes :
       /\ proposal' = [proposal EXCEPT ![p] = Put(w, "rejected", @)]
       /\ IF w = "ok" THEN Advance ELSE Fails /\ UNCHANGED cur
  /\ UNCHANGED <<runStatus, step, approval, order, alpaca, seen, runnerVars,
                 cancelVars, sent, crashes>>

\* bypass_risk and a quantity that is not positive: the proposal is left as it
\* is, pending_auto, and the loop goes on.
GateSkips ==
  /\ pc[Runner] = "gate"
  /\ mode = "bypass_risk"
  /\ verdict' = [verdict EXCEPT ![cur[Runner]] = "no_quantity"]
  /\ Advance
  /\ UNCHANGED <<tables, alpaca, seen, runnerVars, cancelVars, sent, crashes>>

\* The proposal may be submitted: bypass_risk, or no rule is breached.
GateAllows ==
  /\ pc[Runner] = "gate"
  /\ verdict' = [verdict EXCEPT ![cur[Runner]] =
                   IF mode = "bypass_risk" THEN "bypass" ELSE "auto"]
  /\ Goto(Runner, "submit")
  /\ UNCHANGED <<tables, alpaca, cur, seen, runnerVars, cancelVars, sent,
                 crashes>>

\* A rule is breached under require_approval: an approval is created first.
GateAsks ==
  LET p == cur[Runner] IN
  /\ pc[Runner] = "gate"
  /\ mode = "require_approval"
  /\ verdict' = [verdict EXCEPT ![p] = "breach"]
  /\ \E w \in Writes :
       /\ approval' = [approval EXCEPT ![p] = Put(w, "pending", @)]
       /\ IF w = "ok" THEN Goto(Runner, "await") ELSE Fails
  /\ UNCHANGED <<runStatus, step, proposal, order, alpaca, cur, seen,
                 runnerVars, cancelVars, sent, crashes>>

\* No mark for the symbol (neither a position nor an estimate): the loop ends.
GateFails ==
  /\ pc[Runner] = "gate"
  /\ "agent" \in Faults
  /\ Fails
  /\ UNCHANGED <<tables, alpaca, cur, seen, runnerVars, cancelVars, history,
                 crashes>>

\* The second half of parking a proposal.
ParkProposal ==
  LET p == cur[Runner] IN
  /\ pc[Runner] = "await"
  /\ \E w \in Writes :
       /\ proposal' = [proposal EXCEPT ![p] = Put(w, "awaiting_approval", @)]
       /\ IF w = "ok" THEN Advance ELSE Fails /\ UNCHANGED cur
       /\ pendingApprovals' = (pendingApprovals \/ w = "ok")
  /\ UNCHANGED <<runStatus, step, approval, order, alpaca, seen, mode, agent,
                 count, memStatus, anyFill, cancelVars, history, crashes>>

\* After a submission the portfolio state is read again.
RefreshState ==
  /\ pc[Runner] = "next"
  /\ \E r \in Reads : IF r = "ok" THEN Advance ELSE Fails /\ UNCHANGED cur
  /\ UNCHANGED <<tables, alpaca, seen, runnerVars, cancelVars, history,
                 crashes>>

\* Mutant of Finish: a fill makes the run executed.
FinishByFill ==
  LET status == IF pendingApprovals /\ ~anyFill THEN "awaiting_approval"
                ELSE "executed" IN
  /\ pc[Runner] = "finish"
  /\ \E w \in Writes :
       /\ SetRunStatus(w, status)
       /\ Goto(Runner, IF w = "ok" THEN "idle" ELSE OnError(status, anyFill))
  /\ UNCHANGED <<step, proposal, approval, order, alpaca, cur, seen, mode,
                 agent, count, pendingApprovals, anyFill, cancelVars, history,
                 crashes>>

\* The run's final status, from the loop's own flag.
Finish ==
  LET status == IF pendingApprovals THEN "awaiting_approval" ELSE "executed" IN
  /\ pc[Runner] = "finish"
  /\ \E w \in Writes :
       /\ SetRunStatus(w, status)
       /\ Goto(Runner, IF w = "ok" THEN "idle" ELSE OnError(status, anyFill))
  /\ UNCHANGED <<step, proposal, approval, order, alpaca, cur, seen, mode,
                 agent, count, pendingApprovals, anyFill, cancelVars, history,
                 crashes>>

----------------------------------------------------------------------------
(* The error branches *)

\* failRun; its own error is dropped.
FailRun ==
  /\ pc[Runner] = "fail"
  /\ \E w \in Writes : SetRunStatus(w, "failed")
  /\ Goto(Runner, "idle")
  /\ UNCHANGED <<step, proposal, approval, order, alpaca, cur, seen, mode,
                 agent, count, pendingApprovals, anyFill, cancelVars, history,
                 crashes>>

\* finalizeAfterPartialFill: proposals the loop did not reach are cancelled,
\* then the status is counted and written (CountStep).
CancelOrphans ==
  /\ pc[Runner] = "orphans"
  /\ \E w \in Writes :
       /\ proposal' = [p \in Proposals |->
            IF proposal[p] = "pending_auto"
            THEN Put(w, "cancelled", proposal[p]) ELSE proposal[p]]
       /\ Goto(Runner, IF w = "ok" THEN "count_approvals" ELSE "idle")
  /\ UNCHANGED <<runStatus, step, approval, order, alpaca, cur, seen,
                 runnerVars, cancelVars, history, crashes>>

RunnerStep ==
  \/ Prelude
  \/ BeginStep
  \/ AgentAnswers
  \/ AgentInterrupts
  \/ AgentFails
  \/ Suspend
  \/ ResumeAnswers
  \/ ResumeInterrupts
  \/ ResumeFails
  \/ ResumeStatus
  \/ ResumePrelude
  \/ InsertProposals
  \/ InvalidPortfolio
  \/ Prepare
  \/ GateRejects
  \/ GateSkips
  \/ GateAllows
  \/ GateAsks
  \/ GateFails
  \/ ParkProposal
  \/ RefreshState
  \/ Finish
  \/ FailRun
  \/ CancelOrphans
=============================================================================
