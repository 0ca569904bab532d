--------------------------- MODULE OrderSubmission ---------------------------
(***************************************************************************)
(* SubmitProposal (workflow/submit.go): send one market order to Alpaca,   *)
(* mirror it in PostgreSQL, poll it until it is terminal or 15 s are over. *)
(* The runner calls it for a proposal the gate let through, Decide calls   *)
(* it for a proposal a human approved.  Its steps are written once, for a  *)
(* submitter s working on proposal cur[s].                                 *)
(***************************************************************************)
EXTENDS RunStore

\* Mutant of OnError: the partial fill is not looked at.
OnErrorIgnoringFill(status, fill) ==
  IF status \in {"executed", "awaiting_approval", "awaiting_agent_input"}
  THEN "idle" ELSE "fail"

\* Mutant of OnError: failRun is never called.
OnErrorWithoutFailRun(status, fill) == IF fill THEN "orphans" ELSE "idle"

\* Where the runner goes on an error (the error branch of runWorkflow and the
\* same branch of ResumeAgent): the clean-up after a fill, failRun, or, when
\* the status in memory says the run is over or suspended, nothing.
OnError(status, fill) ==
  IF fill THEN "orphans"
  ELSE IF status \in {"executed", "awaiting_approval", "awaiting_agent_input"}
       THEN "idle"
       ELSE "fail"

\* Where a submitter goes when SubmitProposal returns: nil, or an error that is
\* not ErrSubmitOrder.  Decide refreshes the run's status in both cases.
Returned(s) == IF s = Runner THEN "next" ELSE "count_approvals"
ReturnedError(s) ==
  IF s = Runner THEN OnError(memStatus, anyFill) ELSE "count_approvals"

\* Mutant of Advance: one proposal too many.
AdvancePastEnd ==
  IF cur[Runner] <= count
  THEN /\ cur' = [cur EXCEPT ![Runner] = @ + 1]
       /\ pc' = [pc EXCEPT ![Runner] = "gate"]
  ELSE /\ pc' = [pc EXCEPT ![Runner] = "finish"]
       /\ UNCHANGED cur

\* The runner's step to the next proposal of its slice.
Advance ==
  IF cur[Runner] < count
  THEN /\ cur' = [cur EXCEPT ![Runner] = @ + 1]
       /\ pc' = [pc EXCEPT ![Runner] = "gate"]
  ELSE /\ pc' = [pc EXCEPT ![Runner] = "finish"]
       /\ UNCHANGED cur

Goto(s, there) == pc' = [pc EXCEPT ![s] = there]

----------------------------------------------------------------------------
\* br.SubmitOrder: Alpaca takes the order.  It refuses a client id it knows.
SubmitAccepted(s) ==
  LET p == cur[s] IN
  /\ pc[s] = "submit"
  /\ alpaca[p] = "none"
  /\ alpaca' = [alpaca EXCEPT ![p] = "open"]
  /\ sent' = [sent EXCEPT ![p] = @ + 1]
  /\ Goto(s, "mirror")
  /\ UNCHANGED <<tables, cur, seen, runnerVars, cancelVars, verdict, crashes>>

\* Mutant of SubmitFailed: the order is sent again.
SubmitFailedRetries(s) ==
  LET p == cur[s] IN
  /\ pc[s] = "submit"
  /\ \/ UNCHANGED alpaca
     \/ /\ "lost_reply" \in Faults
        /\ alpaca[p] = "none"
        /\ alpaca' = [alpaca EXCEPT ![p] = "open"]
  /\ sent' = [sent EXCEPT ![p] = IF @ < 2 THEN @ + 1 ELSE @]
  /\ UNCHANGED <<tables, pc, cur, seen, runnerVars, cancelVars, verdict,
                 crashes>>

\* Mutant of SubmitFailed: the error is handled like any other.
SubmitFailedUnhandled(s) ==
  /\ pc[s] = "submit"
  /\ sent' = [sent EXCEPT ![cur[s]] = @ + 1]
  /\ Goto(s, ReturnedError(s))
  /\ UNCHANGED <<tables, alpaca, cur, seen, runnerVars, cancelVars, verdict,
                 crashes>>

\* br.SubmitOrder returns an error: ErrSubmitOrder.  Alpaca has refused the
\* order, was not reached, or has taken it and the reply was lost.
SubmitFailed(s) ==
  LET p == cur[s] IN
  /\ pc[s] = "submit"
  /\ \/ UNCHANGED alpaca
     \/ /\ "lost_reply" \in Faults
        /\ alpaca[p] = "none"
        /\ alpaca' = [alpaca EXCEPT ![p] = "open"]
  /\ sent' = [sent EXCEPT ![p] = @ + 1]
  /\ Goto(s, "refuse")
  /\ UNCHANGED <<tables, cur, seen, runnerVars, cancelVars, verdict, crashes>>

\* The insert of the order mirror.
MirrorOrder(s) ==
  LET p == cur[s] IN
  /\ pc[s] = "mirror"
  /\ \E w \in Writes :
       /\ order' = [order EXCEPT ![p] = Put(w, "submitted", @)]
       /\ Goto(s, IF w = "ok" THEN "mark" ELSE ReturnedError(s))
  /\ UNCHANGED <<runStatus, step, proposal, approval, alpaca, cur, seen,
                 runnerVars, cancelVars, history, crashes>>

\* proposal := submitted, whatever the row holds now.
MarkSubmitted(s) ==
  LET p == cur[s] IN
  /\ pc[s] = "mark"
  /\ \E w \in Writes :
       /\ proposal' = [proposal EXCEPT ![p] = Put(w, "submitted", @)]
       /\ Goto(s, IF w = "ok" THEN "poll" ELSE ReturnedError(s))
  /\ UNCHANGED <<runStatus, step, approval, order, alpaca, cur, seen,
                 runnerVars, cancelVars, history, crashes>>

\* Mutant of SettleOrder: every terminal order counts as filled.
SettleOrderAsFilled(s) ==
  /\ pc[s] = "poll"
  /\ alpaca[cur[s]] \in Terminal
  /\ \E w \in Writes :
       /\ order' = [order EXCEPT ![cur[s]] = Put(w, "filled", @)]
       /\ Goto(s, IF w = "ok" THEN "settle" ELSE ReturnedError(s))
  /\ UNCHANGED <<runStatus, step, proposal, approval, alpaca, cur, seen,
                 runnerVars, cancelVars, history, crashes>>

\* GetOrder finds a terminal order and the mirror is updated with it.  Alpaca's
\* terminal statuses do not change, so reading and writing are one step.
SettleOrder(s) ==
  LET p == cur[s] IN
  /\ pc[s] = "poll"
  /\ alpaca[p] \in Terminal
  /\ \E w \in Writes :
       /\ order' = [order EXCEPT ![p] =
             Put(w, IF alpaca[p] = "filled" THEN "filled" ELSE "canceled", @)]
       /\ Goto(s, IF w = "ok" THEN "settle" ELSE ReturnedError(s))
  /\ UNCHANGED <<runStatus, step, proposal, approval, alpaca, cur, seen,
                 runnerVars, cancelVars, history, crashes>>

\* proposal := filled, or rejected for every other end.  The runner notes its
\* fills in anyFill, but only when this last write succeeds.
SettleProposal(s) ==
  LET p == cur[s]
      filled == alpaca[p] = "filled"
  IN
  /\ pc[s] = "settle"
  /\ \E w \in Writes :
       /\ proposal' = [proposal EXCEPT ![p] =
             Put(w, IF filled THEN "filled" ELSE "rejected", @)]
       /\ Goto(s, IF w = "ok" THEN Returned(s) ELSE ReturnedError(s))
       /\ anyFill' = (anyFill \/ (s = Runner /\ filled /\ w = "ok"))
  /\ UNCHANGED <<runStatus, step, approval, order, alpaca, cur, seen, mode,
                 agent, count, memStatus, pendingApprovals, cancelVars,
                 history, crashes>>

\* The deadline passes with the order still open: SubmitProposal returns nil
\* and leaves proposal and mirror submitted.  Nothing ever reads them again.
PollTimeout(s) ==
  /\ pc[s] = "poll"
  /\ alpaca[cur[s]] = "open"
  /\ Goto(s, Returned(s))
  /\ UNCHANGED <<tables, alpaca, cur, seen, runnerVars, cancelVars, history,
                 crashes>>

\* GetOrder fails, or the request's context ends.
PollError(s) ==
  /\ pc[s] = "poll"
  /\ Faults \cap {"broker", "db"} # {}
  /\ Goto(s, ReturnedError(s))
  /\ UNCHANGED <<tables, alpaca, cur, seen, runnerVars, cancelVars, history,
                 crashes>>

\* The caller's handling of ErrSubmitOrder: proposal := rejected.  The runner
\* goes on with its next proposal; Decide refreshes the run's status, unless
\* this write fails.
RejectUnsubmitted(s) ==
  LET p == cur[s] IN
  /\ pc[s] = "refuse"
  /\ \E w \in Writes :
       /\ proposal' = [proposal EXCEPT ![p] = Put(w, "rejected", @)]
       /\ \/ w = "ok" /\ s = Runner /\ Advance
          \/ /\ ~(w = "ok" /\ s = Runner)
             /\ Goto(s, IF s = Runner THEN OnError(memStatus, anyFill)
                        ELSE IF w = "ok" THEN "count_approvals" ELSE "idle")
             /\ UNCHANGED cur
  /\ UNCHANGED <<runStatus, step, approval, order, alpaca, seen, runnerVars,
                 cancelVars, history, crashes>>

SubmitStep(s) ==
  \/ SubmitAccepted(s)
  \/ SubmitFailed(s)
  \/ MirrorOrder(s)
  \/ MarkSubmitted(s)
  \/ SettleOrder(s)
  \/ SettleProposal(s)
  \/ PollTimeout(s)
  \/ PollError(s)
  \/ RejectUnsubmitted(s)

----------------------------------------------------------------------------
(* Counting what is undecided and writing the run's status from it:        *)
(* refreshRunStatus for Decide, the tail of finalizeAfterPartialFill for   *)
(* the runner.  Two queries and one update, no transaction.                *)

CountApprovals(s) ==
  /\ pc[s] = "count_approvals"
  /\ seen' = [seen EXCEPT ![s] = SomePending]
  /\ \E r \in DBReads : Goto(s, IF r = "ok" THEN "count_proposals" ELSE "idle")
  /\ UNCHANGED <<tables, alpaca, cur, runnerVars, cancelVars, history, crashes>>

\* Mutant of CountProposals: it forgets what the first query found.
CountProposalsAlone(s) ==
  /\ pc[s] = "count_proposals"
  /\ seen' = [seen EXCEPT ![s] = SomeAwaiting]
  /\ \E r \in DBReads : Goto(s, IF r = "ok" THEN "write_status" ELSE "idle")
  /\ UNCHANGED <<tables, alpaca, cur, runnerVars, cancelVars, history, crashes>>

CountProposals(s) ==
  /\ pc[s] = "count_proposals"
  /\ seen' = [seen EXCEPT ![s] = @ \/ SomeAwaiting]
  /\ \E r \in DBReads : Goto(s, IF r = "ok" THEN "write_status" ELSE "idle")
  /\ UNCHANGED <<tables, alpaca, cur, runnerVars, cancelVars, history, crashes>>

\* Unconditional: whatever the run's status is by now.
WriteStatus(s) ==
  /\ pc[s] = "write_status"
  /\ \E w \in Writes :
       runStatus' = Put(w, IF seen[s] THEN "awaiting_approval"
                           ELSE IF s = Runner THEN "failed" ELSE "executed",
                        runStatus)
  /\ Goto(s, "idle")
  /\ UNCHANGED <<step, proposal, approval, order, alpaca, cur, seen,
                 runnerVars, cancelVars, history, crashes>>

CountStep(s) == CountApprovals(s) \/ CountProposals(s) \/ WriteStatus(s)

----------------------------------------------------------------------------
\* Alpaca (external): an open order reaches a terminal status.
AlpacaSettles(p) ==
  /\ alpaca[p] = "open"
  /\ \E end \in Terminal : alpaca' = [alpaca EXCEPT ![p] = end]
  /\ UNCHANGED <<tables, pc, cur, seen, runnerVars, cancelVars, history,
                 crashes>>
=============================================================================
