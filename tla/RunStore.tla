------------------------------ MODULE RunStore ------------------------------
(***************************************************************************)
(* The rows of one workflow run and the control state of the goroutines    *)
(* that work on it.  The modules that extend this one give the steps:      *)
(*   OrderSubmission  workflow/submit.go                                   *)
(*   WorkflowRunner   workflow/runner.go                                   *)
(*   ApprovalService  approvals/service.go                                 *)
(* and TradingRun composes them.                                           *)
(*                                                                         *)
(* Every call that reaches PostgreSQL or Alpaca is a step of its own,      *)
(* because none of the handlers holds a lock or a transaction across them  *)
(* (Decide's one transaction is one step).  What happens between two such  *)
(* calls is local and belongs to the step before it.                       *)
(***************************************************************************)
EXTENDS Integers, FiniteSets

CONSTANTS
  MaxProposals, \* most proposals the portfolio agent returns
  Deciders,     \* requests that may be inside approvals.Decide at once
  Modes,        \* execution modes the strategies may have
  Faults,       \* what may go wrong: a subset of FaultKinds
  Overlap,      \* which handlers may overlap: a subset of OverlapKinds
  MaxCrashes    \* bound on process crashes

Runner == "runner"
Submitters == {Runner} \cup Deciders    \* the callers of SubmitProposal
Proposals == 1..MaxProposals

AllModes == {"require_approval", "auto_reject_breaches", "bypass_risk"}
FaultKinds == {"agent",       \* an agent fails or returns an invalid result
               "broker",      \* a read from Alpaca fails
               "lost_reply",  \* Alpaca takes an order, the reply is lost
               "db",          \* a statement fails, or its reply is lost
               "crash"}       \* the API process dies
OverlapKinds == {"decide_run",    \* Decide while the runner is working
                 "cancel_decide"} \* CancelRun while the runner or Decide is

ASSUME MaxProposalsAssumption == MaxProposals \in Nat
ASSUME DecidersAssumption == Runner \notin Deciders
ASSUME ModesAssumption == Modes \subseteq AllModes
ASSUME FaultsAssumption == Faults \subseteq FaultKinds
ASSUME OverlapAssumption == Overlap \subseteq OverlapKinds
ASSUME MaxCrashesAssumption == MaxCrashes \in Nat

VARIABLES
  \* rows in PostgreSQL
  runStatus,  \* workflow_runs.status of the run; "none" before it is created
  step,       \* step[a]: workflow_step_results.status of agent a
  proposal,   \* proposal[p]: trade_proposals.status
  approval,   \* approval[p]: approvals.status of the approval for p
  order,      \* order[p]: orders.status of the mirror of p's order
  \* the order at Alpaca (external)
  alpaca,     \* alpaca[p]: the order with client id prop-p
  \* the goroutines inside SubmitProposal, Decide or the runner
  pc,         \* pc[s]: the next call submitter s makes
  cur,        \* cur[s]: the proposal s is working on
  seen,       \* seen[s]: a status count of s has found something undecided
  \* locals of the runner
  mode,       \* executionMode
  agent,      \* the agent being called
  count,      \* len(proposals)
  memStatus,  \* run.Status in memory, assigned before the row is written
  pendingApprovals,
  anyFill,
  \* the goroutine inside CancelRun
  cancelPc,
  cancelIds,  \* proposalIDs it plucked
  \* history: what the gate said of p, and how often SubmitOrder was called
  verdict,
  sent,
  crashes

tables     == <<runStatus, step, proposal, approval, order>>
runnerVars == <<mode, agent, count, memStatus, pendingApprovals, anyFill>>
cancelVars == <<cancelPc, cancelIds>>
history    == <<verdict, sent>>

vars == <<tables, alpaca, pc, cur, seen, runnerVars, cancelVars, history,
          crashes>>

----------------------------------------------------------------------------
Agents == {"analyst", "portfolio"}
RunStatuses ==
  {"none", "created", "awaiting_agent_input", "awaiting_approval",
   "executed", "failed", "cancelled"} \cup Agents
StepStatuses == {"none", "ok", "failed", "interrupted"}
ProposalStatuses ==
  {"none", "pending_auto", "awaiting_approval", "submitted", "filled",
   "rejected", "cancelled"}
ApprovalStatuses == {"none", "pending", "approved", "rejected", "cancelled"}
OrderStatuses == {"none", "submitted", "filled", "canceled"}
\* Alpaca's terminal statuses (isBrokerTerminal), told apart by what they left:
\* "filled"; "partial", canceled or expired after some shares had traded;
\* "dead", canceled, rejected or expired without a trade.
Terminal == {"filled", "partial", "dead"}
AlpacaStatuses == {"none", "open"} \cup Terminal

\* What the gate of the runner made of a proposal.
Verdicts ==
  {"none",          \* not looked at
   "not_holdable",  \* a buy of a symbol with can_hold = false: rejected
   "no_quantity",   \* bypass_risk and Qty <= 0: skipped
   "bypass",        \* bypass_risk: submit
   "auto",          \* within the rules: submit
   "breach",        \* over a rule, require_approval: a human decides
   "auto_reject"}   \* over a rule, auto_reject_breaches: rejected

SubmitPcs == {"submit", "mirror", "mark", "poll", "settle", "refuse"}
CountPcs == {"count_approvals", "count_proposals", "write_status"}
RunnerPcs ==
  {"idle", "prelude", "agent", "call", "suspend", "resume", "resume_status",
   "resume_prelude", "insert", "prepare", "gate", "await", "next", "finish",
   "fail", "orphans"} \cup SubmitPcs \cup CountPcs
DeciderPcs == {"idle"} \cup SubmitPcs \cup CountPcs
CancelPcs == {"idle", "pluck", "proposals", "approvals", "run"}

TypeOK ==
  /\ runStatus \in RunStatuses
  /\ step \in [Agents -> StepStatuses]
  /\ proposal \in [Proposals -> ProposalStatuses]
  /\ approval \in [Proposals -> ApprovalStatuses]
  /\ order \in [Proposals -> OrderStatuses]
  /\ alpaca \in [Proposals -> AlpacaStatuses]
  /\ pc \in [Submitters -> RunnerPcs]
  /\ \A d \in Deciders : pc[d] \in DeciderPcs
  /\ cur \in [Submitters -> 0..MaxProposals]
  /\ seen \in [Submitters -> BOOLEAN]
  /\ mode \in AllModes
  /\ agent \in Agents
  /\ count \in 0..MaxProposals
  /\ memStatus \in RunStatuses
  /\ pendingApprovals \in BOOLEAN
  /\ anyFill \in BOOLEAN
  /\ cancelPc \in CancelPcs
  /\ cancelIds \subseteq Proposals
  /\ verdict \in [Proposals -> Verdicts]
  /\ sent \in [Proposals -> Nat]
  /\ crashes \in 0..MaxCrashes

Init ==
  /\ runStatus = "none"
  /\ step = [a \in Agents |-> "none"]
  /\ proposal = [p \in Proposals |-> "none"]
  /\ approval = [p \in Proposals |-> "none"]
  /\ order = [p \in Proposals |-> "none"]
  /\ alpaca = [p \in Proposals |-> "none"]
  /\ pc = [s \in Submitters |-> "idle"]
  /\ cur = [s \in Submitters |-> 0]
  /\ seen = [s \in Submitters |-> FALSE]
  /\ mode = "require_approval"
  /\ agent = "analyst"
  /\ count = 0
  /\ memStatus = "none"
  /\ pendingApprovals = FALSE
  /\ anyFill = FALSE
  /\ cancelPc = "idle"
  /\ cancelIds = {}
  /\ verdict = [p \in Proposals |-> "none"]
  /\ sent = [p \in Proposals |-> 0]
  /\ crashes = 0

----------------------------------------------------------------------------
(* The outcome of a statement.  "lost" is the statement that took effect   *)
(* and whose caller got an error all the same (a dropped connection, a     *)
(* request context cancelled while the server was committing).             *)

Writes == IF "db" \in Faults THEN {"ok", "failed", "lost"} ELSE {"ok"}
Applied(w) == w # "failed"

\* Reads from PostgreSQL alone, and reads from PostgreSQL or Alpaca.
DBReads == IF "db" \in Faults THEN {"ok", "failed"} ELSE {"ok"}
Reads == IF Faults \cap {"db", "broker"} # {} THEN {"ok", "failed"} ELSE {"ok"}

\* A field after a write: the new value if the statement took effect.
Put(w, new, old) == IF Applied(w) THEN new ELSE old

\* What the counting queries of refreshRunStatus and finalizeAfterPartialFill
\* look for.
SomePending  == \E p \in Proposals : approval[p] = "pending"
SomeAwaiting == \E p \in Proposals : proposal[p] = "awaiting_approval"
=============================================================================
