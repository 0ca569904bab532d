---------------------------- MODULE AgentsClient ----------------------------
(***************************************************************************)
(* The API's client of the agent runtime (agentsclient/client.go) and what *)
(* the workflow runner does with its answers: Call for /v1/run, which is   *)
(* repeated after a timeout or a 5xx, and Resume for /v1/resume, which is  *)
(* never repeated.                                                         *)
(*                                                                         *)
(* The busy lock lets one workflow call the runtime at a time; run[t] is   *)
(* how far the rows say the workflow of thread t has come.  Runs follow    *)
(* one another, so the requests an earlier run abandoned may still be in   *)
(* the runtime when a later one calls.                                     *)
(*                                                                         *)
(* A resume that fails is noted in the step and then in the run, and the   *)
(* errors of both writes are dropped.  They do fail when the resume failed *)
(* because the request's context ended: the context is theirs too.  The    *)
(* rows then still wait for the human while the runtime has moved on.      *)
(***************************************************************************)
EXTENDS AgentRuntime

CONSTANTS
  MaxRetries,   \* Client.MaxRetries (0 in the struct means 2)
  MaxRestarts,  \* bound: restarts of the runtime
  MaxLosses     \* bound: resumes whose end is not recorded

ASSUME RetriesAssumption ==
  MaxRetries \in Nat /\ MaxRestarts \in Nat /\ MaxLosses \in Nat

VARIABLES
  run,        \* "new"; "calling" or "resuming" the agent; "waiting" for a
              \* human; "stuck" when it awaits one and no step is interrupted;
              \* "ok" or "failed" when it never calls the agent again
  attempt,    \* the attempts made by the running Call or Resume
  unrecorded, \* history: threads of runs that await a human only because the
              \* rows do not say how their last resume ended
  losses,     \* bound: resumes whose end was not recorded so far
  restarts    \* bound: restarts so far

agentVars == <<runtimeVars, run, attempt, unrecorded, losses, restarts>>

RunStates == {"new", "calling", "waiting", "resuming", "stuck", "ok", "failed"}

Calling(t) == run[t] \in {"calling", "resuming"}
NobodyCalls == \A t \in Threads : ~Calling(t)

AgentTypeOK ==
  /\ RuntimeTypeOK
  /\ run \in [Threads -> RunStates]
  /\ attempt \in 0..(MaxRetries + 1)
  /\ unrecorded \subseteq Threads
  /\ losses \in 0..MaxLosses
  /\ restarts \in 0..MaxRestarts

AgentInit ==
  /\ RuntimeInit
  /\ run = [t \in Threads |-> "new"]
  /\ attempt = 0
  /\ unrecorded = {}
  /\ losses = 0
  /\ restarts = 0

\* What is in the runtime when nobody waits for it any more.
Abandoned == [i \in DOMAIN queue |-> [queue[i] EXCEPT !.live = FALSE]]
AbandonedWork == IF Busy THEN [working EXCEPT !.live = FALSE] ELSE None

\* One more POST; the request the client gave up on, if any, stays.
Send(t, kind, first) ==
  /\ queue' = Append(IF first THEN queue ELSE Abandoned,
                     [thread |-> t, kind |-> kind, live |-> TRUE])
  /\ working' = AbandonedWork
  /\ attempt' = IF first THEN 1 ELSE attempt + 1
  /\ reply' = "none"

\* The call is over; whatever is still in the runtime nobody waits for.
Return(t, outcome) ==
  /\ run' = [run EXCEPT ![t] = outcome]
  /\ attempt' = 0
  /\ reply' = "none"
  /\ queue' = Abandoned
  /\ working' = AbandonedWork

\* A resume is over and the run's status does not get to say so: the write
\* failed, or was never made.  The step may have been marked all the same: then
\* none is interrupted any more and every further answer is refused by the API.
NotRecorded(t) ==
  /\ run[t] = "resuming"
  /\ losses < MaxLosses
  /\ losses' = losses + 1
  /\ \E outcome \in {"waiting", "stuck"} : Return(t, outcome)
  /\ unrecorded' = unrecorded \cup {t}

\* A failed call: step and run are marked failed.  Where these writes fail, a
\* run that was calling is over all the same, one that was resuming is not.
Fail(t) ==
  \/ Return(t, "failed") /\ UNCHANGED <<unrecorded, losses>>
  \/ NotRecorded(t)

----------------------------------------------------------------------------
(* The runner *)

\* runAgentChain calls the agent.
StartCall(t) ==
  /\ NobodyCalls
  /\ run[t] = "new"
  /\ run' = [run EXCEPT ![t] = "calling"]
  /\ Send(t, "run", TRUE)
  /\ UNCHANGED <<thread, completions, unrecorded, losses, restarts>>

\* A human answers: ResumeAgent passes the answer on.
StartResume(t) ==
  /\ NobodyCalls
  /\ run[t] = "waiting"
  /\ run' = [run EXCEPT ![t] = "resuming"]
  /\ Send(t, "resume", TRUE)
  /\ UNCHANGED <<thread, completions, unrecorded, losses, restarts>>

\* Mutant of MayRetry: Resume repeats like Call.
MayRetryAny(t) == attempt <= MaxRetries

\* Whether this attempt may be followed by another.
MayRetry(t) == run[t] = "calling" /\ attempt <= MaxRetries

\* An answer of 200: it is decoded and its status read; a question leaves the
\* run waiting for a human.  The run fails when the envelope has no usable
\* result or, in RunWorkflow, the step cannot be stored.
AnswerArrives(t) ==
  /\ Calling(t)
  /\ reply \in {"result", "question"}
  /\ \/ /\ reply = "question"
        /\ Return(t, "waiting")
        /\ unrecorded' = unrecorded \ {t}
     \/ /\ \E outcome \in {"ok", "failed"} :
             /\ outcome = "ok" => reply = "result"
             /\ Return(t, outcome)
        /\ UNCHANGED unrecorded
  /\ UNCHANGED <<thread, completions, losses, restarts>>

\* A resume ends the agent's work and updateStep or setRunStatus fails:
\* ResumeAgent returns without failRun.
ResultNotStored(t) ==
  /\ reply = "result"
  /\ NotRecorded(t)
  /\ UNCHANGED <<thread, completions, restarts>>

\* A 5xx on an attempt that is not the last: the request is sent again.
RetryError(t) ==
  /\ Calling(t)
  /\ reply \in {"unavailable", "error"}
  /\ MayRetry(t)
  /\ Send(t, IF run[t] = "calling" THEN "run" ELSE "resume", FALSE)
  /\ UNCHANGED <<thread, completions, run, unrecorded, losses, restarts>>

\* Any other answer, the last 5xx, or a broken connection ends the call.
AnswerFails(t) ==
  /\ Calling(t)
  /\ \/ reply \in {"conflict", "unknown", "reset"}
     \/ reply \in {"unavailable", "error"} /\ ~MayRetry(t)
  /\ Fail(t)
  /\ UNCHANGED <<thread, completions, restarts>>

\* The step's timeout passes without an answer: the request is sent again.
RetryTimeout(t) ==
  /\ Calling(t)
  /\ reply = "none"
  /\ MayRetry(t)
  /\ Send(t, IF run[t] = "calling" THEN "run" ELSE "resume", FALSE)
  /\ UNCHANGED <<thread, completions, run, unrecorded, losses, restarts>>

\* Mutant of GiveUp: the last attempt has no timeout.
GiveUpEarlyOnly(t) ==
  /\ Calling(t)
  /\ reply = "none"
  /\ attempt <= MaxRetries
  /\ Fail(t)
  /\ UNCHANGED <<thread, completions, restarts>>

\* The timeout of the last attempt; or, at any attempt, the caller's own
\* context ends (a browser that went away, which is not retried) or the process
\* of the API dies.  Of these only the timeout leaves a context, and a process,
\* that can still note the failure; in all of them the runtime goes on.
GiveUp(t) ==
  /\ Calling(t)
  /\ reply = "none"
  /\ Fail(t)
  /\ UNCHANGED <<thread, completions, restarts>>

RestartRuntime ==
  /\ restarts < MaxRestarts
  /\ restarts' = restarts + 1
  /\ Restart
  /\ UNCHANGED <<run, attempt, unrecorded, losses>>

ClientStep(t) ==
  \/ AnswerArrives(t)
  \/ ResultNotStored(t)
  \/ RetryError(t)
  \/ AnswerFails(t)
  \/ RetryTimeout(t)
  \/ GiveUp(t)

Worker == WorkerStep /\ UNCHANGED <<run, attempt, unrecorded, losses, restarts>>

AgentNext ==
  \/ Worker
  \/ RestartRuntime
  \/ \E t \in Threads : StartCall(t) \/ StartResume(t) \/ ClientStep(t)

\* The client's timeouts fire: a call it waits in always goes on.  Nothing is
\* asked of the runtime, which may never answer.
AgentFairness == \A t \in Threads : WF_agentVars(ClientStep(t))

AgentSpec == AgentInit /\ [][AgentNext]_agentVars /\ AgentFairness

----------------------------------------------------------------------------
(* Properties *)

\* The comment in Resume gives it one attempt because a repetition "can return
\* 409": a human's answer to a question on record is never told that the thread
\* does not wait, whatever the runtime still does for requests that timed out
\* earlier.  The human of a run that awaits input only because an earlier
\* resume was not recorded has no such promise (AwaitedRunsContinue).
ResumeIsNotRefused ==
  \A t \in Threads \ unrecorded :
    run[t] = "resuming" => reply \notin {"conflict", "unknown"}

\* While a run waits for a human its thread waits too, and nothing left over in
\* the runtime can move it, so the human's answer will find it paused; unless
\* the run waits only because an earlier resume was not recorded.
WaitingIsResumable ==
  \A t \in Threads \ unrecorded : run[t] = "waiting" =>
    /\ thread[t] = "paused"
    /\ Busy => working.thread # t
    /\ \A i \in DOMAIN queue : queue[i].thread # t

\* A repetition of /v1/run never makes a completed graph run a second time,
\* although the attempt that completed it may have been given up.
CompletedOnce == \A t \in Threads : completions[t] <= 1

\* The workflow always gets out of a call: every attempt ends in an answer or a
\* timeout, and the attempts are bounded.
CallReturns == \A t \in Threads : Calling(t) ~> ~Calling(t)

----------------------------------------------------------------------------
(* What documents say of the program and the code does not keep *)

\* "run awaiting_agent_input; POST /runs/:id/agent-resume can continue the
\* chain": the answer to a run that awaits it is not refused by the runtime.
AwaitedRunsContinue ==
  \A t \in Threads : run[t] = "resuming" => reply \notin {"conflict", "unknown"}
=============================================================================
