-------------------------- MODULE ApprovalService ---------------------------
(***************************************************************************)
(* Decide and CancelRun (approvals/service.go).                            *)
(*                                                                         *)
(* Decide records the decision in one transaction that holds row locks on  *)
(* the approval and its proposal; everything after the commit, submission  *)
(* and status refresh, is outside of it.  CancelRun uses no transaction.   *)
(* Neither takes the busy lock.                                            *)
(*                                                                         *)
(* Requests that change nothing (an approval that is not pending, a run    *)
(* that is not cancellable, an invalid decision, no broker) are not steps. *)
(***************************************************************************)
EXTENDS OrderSubmission

\* When a decision request may begin (see OverlapKinds).
MayDecide ==
  /\ "decide_run" \in Overlap \/ pc[Runner] = "idle"
  /\ "cancel_decide" \in Overlap \/ cancelPc = "idle"

MayCancel == "cancel_decide" \in Overlap \/ \A s \in Submitters : pc[s] = "idle"

\* Mutant of Decidable: the approval's status is not checked.
DecidableByProposal(p) ==
  approval[p] # "none" /\ proposal[p] = "awaiting_approval"

\* What Decide's transaction finds under its row locks.
Decidable(p) == approval[p] = "pending" /\ proposal[p] = "awaiting_approval"
SomeDecidable == \E p \in Proposals : Decidable(p)

----------------------------------------------------------------------------
(* Decide *)

\* Approve: only the approval changes; the proposal waits for SubmitProposal.
Approve(d, p) ==
  /\ pc[d] = "idle"
  /\ MayDecide
  /\ Decidable(p)
  /\ cur' = [cur EXCEPT ![d] = p]
  /\ \E w \in Writes :
       /\ approval' = [approval EXCEPT ![p] = Put(w, "approved", @)]
       /\ Goto(d, IF w = "ok" THEN "submit" ELSE "idle")
  /\ UNCHANGED <<runStatus, step, proposal, order, alpaca, seen, runnerVars,
                 cancelVars, history, crashes>>

\* Reject: approval and proposal change together.
Reject(d, p) ==
  /\ pc[d] = "idle"
  /\ MayDecide
  /\ Decidable(p)
  /\ \E w \in Writes :
       /\ approval' = [approval EXCEPT ![p] = Put(w, "rejected", @)]
       /\ proposal' = [proposal EXCEPT ![p] = Put(w, "rejected", @)]
       /\ Goto(d, IF w = "ok" THEN "count_approvals" ELSE "idle")
  /\ UNCHANGED <<runStatus, step, order, alpaca, cur, seen, runnerVars,
                 cancelVars, history, crashes>>

----------------------------------------------------------------------------
(* CancelRun *)

\* The run is read; only one that awaits approval can be cancelled.
BeginCancel ==
  /\ cancelPc = "idle"
  /\ MayCancel
  /\ runStatus = "awaiting_approval"
  /\ cancelPc' = "pluck"
  /\ UNCHANGED <<tables, alpaca, pc, cur, seen, runnerVars, cancelIds, history,
                 crashes>>

\* Mutant of PluckProposals: proposals of every status.
PluckAllProposals ==
  /\ cancelPc = "pluck"
  /\ cancelIds' = Proposals
  /\ cancelPc' = "proposals"
  /\ UNCHANGED <<tables, alpaca, pc, cur, seen, runnerVars, history, crashes>>

\* Mutant of PluckProposals: the first proposal only.
PluckFirstProposal ==
  /\ cancelPc = "pluck"
  /\ cancelIds' = {p \in Proposals :
       /\ proposal[p] = "awaiting_approval"
       /\ \A q \in 1..(p - 1) : proposal[q] # "awaiting_approval"}
  /\ cancelPc' = "proposals"
  /\ UNCHANGED <<tables, alpaca, pc, cur, seen, runnerVars, history, crashes>>

\* Marks are loaded (an error without any), then the ids of the proposals that
\* await approval.
PluckProposals ==
  /\ cancelPc = "pluck"
  /\ \E r \in Reads :
       \/ /\ r = "ok"
          /\ cancelIds' = {p \in Proposals : proposal[p] = "awaiting_approval"}
          /\ cancelPc' = IF cancelIds' = {} THEN "run" ELSE "proposals"
       \/ r = "failed" /\ cancelPc' = "idle" /\ UNCHANGED cancelIds
  /\ UNCHANGED <<tables, alpaca, pc, cur, seen, runnerVars, history, crashes>>

\* Every plucked proposal is cancelled, whatever its status is by now.
CancelProposals ==
  /\ cancelPc = "proposals"
  /\ \E w \in Writes :
       /\ proposal' = [p \in Proposals |->
            IF p \in cancelIds THEN Put(w, "cancelled", proposal[p])
                               ELSE proposal[p]]
       /\ cancelPc' = IF w = "ok" THEN "approvals" ELSE "idle"
  /\ UNCHANGED <<runStatus, step, approval, order, alpaca, pc, cur, seen,
                 runnerVars, cancelIds, history, crashes>>

\* Mutant of CancelApprovals: decided approvals too.
CancelAllApprovals ==
  /\ cancelPc = "approvals"
  /\ approval' = [p \in Proposals |->
       IF p \in cancelIds THEN "cancelled" ELSE approval[p]]
  /\ cancelPc' = "run"
  /\ UNCHANGED <<runStatus, step, proposal, order, alpaca, pc, cur, seen,
                 runnerVars, cancelIds, history, crashes>>

\* Their approvals are cancelled where they are still pending.
CancelApprovals ==
  /\ cancelPc = "approvals"
  /\ \E w \in Writes :
       /\ approval' = [p \in Proposals |->
            IF p \in cancelIds /\ approval[p] = "pending"
            THEN Put(w, "cancelled", approval[p]) ELSE approval[p]]
       /\ cancelPc' = IF w = "ok" THEN "run" ELSE "idle"
  /\ UNCHANGED <<runStatus, step, proposal, order, alpaca, pc, cur, seen,
                 runnerVars, cancelIds, history, crashes>>

CancelRunRow ==
  /\ cancelPc = "run"
  /\ \E w \in Writes : runStatus' = Put(w, "cancelled", runStatus)
  /\ cancelPc' = "idle"
  /\ UNCHANGED <<step, proposal, approval, order, alpaca, pc, cur, seen,
                 runnerVars, cancelIds, history, crashes>>

CancelStep == PluckProposals \/ CancelProposals \/ CancelApprovals \/ CancelRunRow
=============================================================================
