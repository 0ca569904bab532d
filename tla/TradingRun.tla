----------------------------- MODULE TradingRun -----------------------------
(***************************************************************************)
(* One workflow run with everything that works on it at the same time: the *)
(* runner, the approval requests, a cancellation, Alpaca, and crashes of   *)
(* the API process.                                                        *)
(***************************************************************************)
EXTENDS WorkflowRunner, ApprovalService

\* The API process dies: every goroutine is gone, the rows stay.  Nothing
\* looks for unfinished work when it comes up again.
Crash ==
  /\ "crash" \in Faults
  /\ crashes < MaxCrashes
  /\ crashes' = crashes + 1
  /\ pc' = [s \in Submitters |-> "idle"]
  /\ cancelPc' = "idle"
  /\ UNCHANGED <<tables, alpaca, cur, seen, runnerVars, cancelIds, history>>

Next ==
  \/ StartRun
  \/ \E a \in Agents : BeginResume(a)
  \/ RunnerStep
  \/ \E s \in Submitters : SubmitStep(s) \/ CountStep(s)
  \/ \E d \in Deciders, p \in Proposals : Approve(d, p) \/ Reject(d, p)
  \/ BeginCancel
  \/ CancelStep
  \/ \E p \in Proposals : AlpacaSettles(p)
  \/ Crash

Spec == Init /\ [][Next]_vars

\* A goroutine that has work goes on: every agent call has a timeout, the poll
\* loop a deadline, and the pool and Alpaca are assumed to answer or to fail.
\* Nothing is assumed of humans, of Alpaca's fills, or of crashes.
Fairness ==
  /\ WF_vars(RunnerStep)
  /\ \A s \in Submitters : WF_vars(SubmitStep(s) \/ CountStep(s))

FairSpec == Spec /\ Fairness

----------------------------------------------------------------------------
(* Safety *)

\* A proposal is sent to Alpaca at most once, by whichever handler: two
\* decisions on one approval, a decision beside the runner, a crash or a lost
\* reply never make a second SubmitOrder call.
AtMostOneSubmission == \A p \in Proposals : sent[p] <= 1

\* What allows an order: the gate let the proposal through, or it found a
\* breach and a human approved it.
Authorised(p) ==
  \/ verdict[p] \in {"auto", "bypass"}
  \/ verdict[p] = "breach" /\ approval[p] = "approved"

\* No order is sent without authority, and the authority is still on record
\* as long as the order is (docs/workflow-flowchart.md section 1).
SubmissionAuthorised ==
  \A p \in Proposals : sent[p] > 0 \/ alpaca[p] # "none" => Authorised(p)

\* The database never claims more than happened at Alpaca: a mirror exists
\* only for an accepted order, carries a terminal status only if the order
\* has it, and a proposal is filled only with its mirror and its order.
MirrorFollowsBroker ==
  \A p \in Proposals :
    /\ order[p] # "none" => alpaca[p] # "none"
    /\ order[p] = "filled" => alpaca[p] = "filled"
    /\ order[p] = "canceled" => alpaca[p] \in {"partial", "dead"}
    /\ proposal[p] = "filled" => order[p] = "filled"

\* A decision is final: no request, cancellation or runner step changes an
\* approval that was approved, rejected or cancelled.
DecisionsAreFinal ==
  [][\A p \in Proposals :
       approval[p] \in {"approved", "rejected", "cancelled"}
         => approval'[p] = approval[p]]_vars

\* The rows that stand for the two variables of the abstract promise.
AuthorityOf(p) ==
  IF Authorised(p) THEN "granted"
  ELSE IF \/ verdict[p] \in {"not_holdable", "no_quantity", "auto_reject"}
          \/ approval[p] \in {"rejected", "cancelled"}
       THEN "denied" ELSE "undecided"

PlacedOf(p) ==
  IF alpaca[p] = "none" /\ sent[p] > 0 THEN "refused" ELSE alpaca[p]

Authority == INSTANCE OrderAuthority WITH
  authority <- [p \in Proposals |-> AuthorityOf(p)],
  placed <- [p \in Proposals |-> PlacedOf(p)]

\* The run keeps the promise of OrderAuthority.
ImplementsAuthority == Authority!Spec

----------------------------------------------------------------------------
(* The run's status *)

Working == pc[Runner] # "idle"
AtRest == (\A s \in Submitters : pc[s] = "idle") /\ cancelPc = "idle"

\* executed means that nothing waits for a human (docs/workflow-flowchart.md
\* section 5).  Counting and writing are three statements, yet it holds in
\* every state if decisions begin only when the runner is done, because from
\* then on what is undecided can only shrink.
ExecutedMeansNothingAwaits ==
  runStatus = "executed" => ~SomePending /\ ~SomeAwaiting

\* Some proposal of the run was filled by the runner itself.
RunnerFilled ==
  \E p \in Proposals :
    verdict[p] \in {"auto", "bypass"} /\ proposal[p] = "filled"

\* A run that failed after its own fills leaves no proposal behind that looks
\* as if it were still to be executed (finalizeAfterPartialFill).
NoOrphansAfterFill ==
  runStatus = "failed" /\ RunnerFilled
    => \A p \in Proposals : proposal[p] # "pending_auto"

\* What can still be decided shows when the runner is done: the run awaits
\* approval, or it failed before it had filled anything itself (failRun leaves
\* the proposals it parked alone; after a fill finalizeAfterPartialFill counts
\* them).
UndecidedShows ==
  ~Working /\ SomeDecidable =>
    \/ runStatus = "awaiting_approval"
    \/ runStatus = "failed" /\ ~RunnerFilled

\* With nobody working on it, the run's status is what its rows say.  It awaits
\* approval only if something can be decided; what can be decided shows; and
\* nothing is left half decided in a run that is executed or cancelled.
StatusMatchesRows ==
  AtRest =>
    /\ runStatus = "awaiting_approval" => SomeDecidable
    /\ UndecidedShows
    /\ runStatus \in {"executed", "cancelled"} => ~SomePending /\ ~SomeAwaiting

\* A run that waits for a human's answer can take it: some agent's step is
\* interrupted, so ResumeAgent does not refuse.
AwaitingInputIsResumable ==
  runStatus = "awaiting_agent_input" /\ ~Working
    => \E a \in Agents : step[a] = "interrupted"

\* A filled proposal stays filled (docs/prd.md RUN-8: a cancellation keeps
\* what was submitted).
FilledIsKept ==
  [][\A p \in Proposals :
       proposal[p] = "filled" => proposal'[p] = "filled"]_vars

\* A cancelled run sends no order.
CancelledNeverTrades ==
  [][runStatus = "cancelled" => sent' = sent]_vars

----------------------------------------------------------------------------
(* Progress *)

\* A run that is being worked on comes to one of the statuses in which it can
\* be left, unless its process dies or its rows cannot be written.
RunComesToRest ==
  runStatus \in {"created", "analyst", "portfolio"}
    ~> runStatus \in {"awaiting_agent_input", "awaiting_approval", "executed",
                      "failed", "cancelled"}

\* An approved proposal does not go on waiting: it is sent or refused.
ApprovedIsHandled ==
  \A p \in Proposals :
    approval[p] = "approved" ~> proposal[p] # "awaiting_approval"

----------------------------------------------------------------------------
(* What documents say of the program and the code does not keep *)

\* docs/prd.md RUN-5: a failed run has submitted nothing to Alpaca.
FailedMeansNothingSubmitted ==
  runStatus = "failed" => \A p \in Proposals : alpaca[p] = "none"

\* docs/workflow-flowchart.md section 5: a run that awaits approval has a
\* proposal that waits for a human.
AwaitingMeansUndecided ==
  AtRest /\ runStatus = "awaiting_approval" => SomePending \/ SomeAwaiting

\* docs/prd.md APR-2: proposal status and order side agree.
RejectedMeansNoPosition ==
  \A p \in Proposals :
    AtRest /\ proposal[p] = "rejected" => alpaca[p] \in {"none", "dead"}
=============================================================================
