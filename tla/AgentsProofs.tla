---------------------------- MODULE AgentsProofs ----------------------------
(***************************************************************************)
(* AgentsClient, for any number of runs, retries and restarts: a graph     *)
(* ends once, who waits for a human can be resumed, and a resume is not    *)
(* refused.  The argument is about the requests somebody still waits for   *)
(* (live): there is one at most, it is the newest, and the worker takes    *)
(* requests in their order, so when it is answered nothing else is left.   *)
(***************************************************************************)
EXTENDS AgentsClient, TLAPS

\* Only the newest request is live, and its caller waits for it.
LiveInv ==
  /\ \A i \in DOMAIN queue : queue[i].live => i = Len(queue) /\ Calling(queue[i].thread)
  /\ Busy /\ working.live => queue = <<>> /\ Calling(working.thread)
  /\ \A s, t \in Threads : Calling(s) /\ Calling(t) => s = t

\* An answer leaves nothing behind in the runtime, and a question was asked by
\* a thread that waits.
ReplyInv ==
  /\ reply # "none" => queue = <<>> /\ ~Busy
  /\ \A t \in Threads : Calling(t) /\ reply = "question" => thread[t] = "paused"

\* Until a resume is answered its thread waits and nothing but the resume
\* itself is under way for it.
ResumeInv ==
  \A t \in Threads \ unrecorded : run[t] = "resuming" /\ reply = "none" =>
    /\ thread[t] = "paused"
    /\ Busy /\ working.thread = t => working.live /\ working.kind = "resume"
    /\ \A i \in DOMAIN queue : queue[i].thread = t => queue[i].live /\ queue[i].kind = "resume"

\* A graph has ended exactly if its thread is done.
EndsInv == \A t \in Threads : completions[t] = IF thread[t] = "done" THEN 1 ELSE 0

AgentInv ==
  /\ AgentTypeOK
  /\ LiveInv
  /\ ReplyInv
  /\ ResumeInv
  /\ EndsInv
  /\ WaitingIsResumable
  /\ ResumeIsNotRefused

----------------------------------------------------------------------------
(* Types *)

LEMMA NoneIsNoPost == None \notin Posts
BY DEF None, Posts

LEMMA AbandonedTyped ==
  ASSUME RuntimeTypeOK
  PROVE  /\ Abandoned \in Seq(Posts)
         /\ Len(Abandoned) = Len(queue)
         /\ AbandonedWork \in Posts \cup {None}
<1> USE DEF RuntimeTypeOK
<1>1. \A p \in Posts : [p EXCEPT !.live = FALSE] \in Posts
  BY DEF Posts
<1>2. Len(queue) \in Nat /\ DOMAIN queue = 1..Len(queue)
  OBVIOUS
<1>3. \A i \in DOMAIN queue : queue[i] \in Posts
  OBVIOUS
<1>4. Abandoned \in [1..Len(queue) -> Posts]
  BY <1>1, <1>2, <1>3 DEF Abandoned
<1>5. Abandoned \in Seq(Posts) /\ Len(Abandoned) = Len(queue)
  BY <1>2, <1>4
<1>6. AbandonedWork \in Posts \cup {None}
  BY <1>1 DEF AbandonedWork, Busy
<1> QED
  BY <1>5, <1>6

LEMMA AppendTyped ==
  ASSUME NEW S, NEW s \in Seq(S), NEW e \in S
  PROVE  Append(s, e) \in Seq(S)
OBVIOUS

LEMMA AppendFacts ==
  ASSUME NEW S, NEW s \in Seq(S), NEW e \in S
  PROVE  /\ Len(Append(s, e)) = Len(s) + 1
         /\ DOMAIN Append(s, e) = 1..(Len(s) + 1)
         /\ \A i \in 1..Len(s) : Append(s, e)[i] = s[i]
         /\ Append(s, e)[Len(s) + 1] = e
OBVIOUS

LEMMA SendTyped ==
  ASSUME AgentTypeOK, NEW t \in Threads, NEW kind \in {"run", "resume"},
         NEW first \in BOOLEAN, Send(t, kind, first)
  PROVE  queue' \in Seq(Posts) /\ working' \in Posts \cup {None}
<1> DEFINE new == [thread |-> t, kind |-> kind, live |-> TRUE]
<1>1. new \in Posts
  BY DEF Posts
<1>2. queue \in Seq(Posts) /\ Abandoned \in Seq(Posts) /\ AbandonedWork \in Posts \cup {None}
  BY AbandonedTyped DEF AgentTypeOK, RuntimeTypeOK
<1>3. queue' = Append(queue, new) \/ queue' = Append(Abandoned, new)
  BY DEF Send
<1>4. Append(queue, new) \in Seq(Posts) /\ Append(Abandoned, new) \in Seq(Posts)
  <2> HIDE DEF new
  <2> QED
    BY <1>1, <1>2, AppendTyped
<1>5. queue' \in Seq(Posts)
  BY <1>3, <1>4
<1> QED
  BY <1>2, <1>5 DEF Send

LEMMA AgentTypeInit == AgentInit => AgentTypeOK
BY RetriesAssumption
   DEF AgentInit, RuntimeInit, AgentTypeOK, RuntimeTypeOK, ThreadStates, RunStates

LEMMA AgentTypeStep == AgentTypeOK /\ [AgentNext]_agentVars => AgentTypeOK'
<1> SUFFICES ASSUME AgentTypeOK, [AgentNext]_agentVars
             PROVE  AgentTypeOK'
  OBVIOUS
<1> USE RetriesAssumption
<1>1. ASSUME NEW t \in Threads, NEW kind \in {"run", "resume"}, NEW first \in BOOLEAN,
             Send(t, kind, first), first \/ attempt <= MaxRetries,
             UNCHANGED <<thread, completions, unrecorded, losses, restarts>>,
             run' \in [Threads -> RunStates]
      PROVE  AgentTypeOK'
  <2>1. queue' \in Seq(Posts) /\ working' \in Posts \cup {None}
    BY <1>1, SendTyped
  <2>2. attempt' \in 0..(MaxRetries + 1) /\ reply' = "none"
    BY <1>1 DEF Send, AgentTypeOK
  <2> QED
    BY <1>1, <2>1, <2>2 DEF AgentTypeOK, RuntimeTypeOK
<1>2. ASSUME NEW t \in Threads, StartCall(t) \/ StartResume(t)
      PROVE  AgentTypeOK'
  BY <1>1, <1>2 DEF StartCall, StartResume, AgentTypeOK, RunStates
<1>3. ASSUME NEW t \in Threads, NEW outcome \in RunStates,
             Return(t, outcome), UNCHANGED <<thread, completions, restarts>>,
             unrecorded' \subseteq Threads, losses' \in 0..MaxLosses
      PROVE  AgentTypeOK'
  <2>1. queue' \in Seq(Posts) /\ working' \in Posts \cup {None}
    BY <1>3, AbandonedTyped DEF Return, AgentTypeOK
  <2> QED
    BY <1>3, <2>1 DEF Return, AgentTypeOK, RuntimeTypeOK
<1>4. ASSUME NEW t \in Threads,
             AnswerArrives(t) \/ ResultNotStored(t) \/ AnswerFails(t) \/ GiveUp(t)
      PROVE  AgentTypeOK'
  <2> USE DEF AnswerArrives, ResultNotStored, AnswerFails, GiveUp, Fail, NotRecorded
  <2>1. \E outcome \in RunStates : Return(t, outcome)
    BY <1>4 DEF RunStates
  <2>2. /\ UNCHANGED <<thread, completions, restarts>>
        /\ unrecorded' \subseteq Threads /\ losses' \in 0..MaxLosses
    BY <1>4 DEF AgentTypeOK
  <2> QED
    BY <1>3, <2>1, <2>2
<1>5. ASSUME NEW t \in Threads, RetryError(t) \/ RetryTimeout(t)
      PROVE  AgentTypeOK'
  <2>1. \E kind \in {"run", "resume"} : Send(t, kind, FALSE)
    BY <1>5 DEF RetryError, RetryTimeout
  <2> QED
    BY <1>1, <1>5, <2>1 DEF RetryError, RetryTimeout, MayRetry, AgentTypeOK
<1>6. CASE Worker
  <2>1. /\ queue' \in Seq(Posts)
        /\ working' \in Posts \cup {None}
        /\ reply' \in Replies \cup {"none"}
        /\ thread' \in [Threads -> ThreadStates]
        /\ completions' \in [Threads -> Nat]
    <3> USE DEF AgentTypeOK, RuntimeTypeOK
    <3>1. CASE TakeRequest
      BY <3>1 DEF TakeRequest
    <3>2. CASE DropRequest
      BY <3>2 DEF DropRequest
    <3>3. CASE Refuse
      BY <3>3 DEF Refuse, Answer, Replies
    <3>4. CASE Unavailable
      BY <3>4 DEF Unavailable, Answer, Replies
    <3>5. CASE RunGraph
      <4>1. working.thread \in Threads
        BY <3>5 DEF RunGraph, Busy, Posts
      <4>2. thread' \in [Threads -> ThreadStates] /\ queue' = queue /\ working' = None
        BY <3>5, <4>1 DEF RunGraph, Answer, ThreadStates
      <4>3. reply' \in Replies \cup {"none"}
        BY <3>5 DEF RunGraph, Answer, Replies
      <4>4. completions' \in [Threads -> Nat]
        BY <3>5, <4>1 DEF RunGraph
      <4> QED
        BY <4>2, <4>3, <4>4
    <3>6. CASE GraphFails
      BY <3>6, NoneIsNoPost DEF GraphFails, Answer, Replies, ThreadStates, Busy, Posts
    <3> QED
      BY <1>6, <3>1, <3>2, <3>3, <3>4, <3>5, <3>6 DEF Worker, WorkerStep
  <2> QED
    BY <1>6, <2>1 DEF Worker, AgentTypeOK, RuntimeTypeOK
<1>7. CASE RestartRuntime
  BY <1>7, NoneIsNoPost
     DEF RestartRuntime, Restart, AgentTypeOK, RuntimeTypeOK, ThreadStates, Busy, Posts, Replies
<1>8. CASE UNCHANGED agentVars
  BY <1>8 DEF agentVars, runtimeVars, AgentTypeOK, RuntimeTypeOK
<1> QED
  BY <1>2, <1>4, <1>5, <1>6, <1>7, <1>8 DEF AgentNext, ClientStep

\* The variables of client and runtime keep their types.
THEOREM AgentsTypeCorrect == AgentSpec => []AgentTypeOK
BY AgentTypeInit, AgentTypeStep, PTL DEF AgentSpec

----------------------------------------------------------------------------
(* What a call does to the runtime *)

LEMMA AbandonedFacts ==
  ASSUME RuntimeTypeOK
  PROVE  /\ DOMAIN queue = 1..Len(queue) /\ Len(queue) \in Nat
         /\ Abandoned \in Seq(Posts) /\ DOMAIN Abandoned = 1..Len(queue)
         /\ Len(Abandoned) = Len(queue)
         /\ \A i \in DOMAIN queue : /\ ~Abandoned[i].live
                                     /\ Abandoned[i].thread = queue[i].thread
                                     /\ Abandoned[i].kind = queue[i].kind
         /\ Busy => /\ AbandonedWork # None /\ ~AbandonedWork.live
                    /\ AbandonedWork.thread = working.thread
                    /\ AbandonedWork.kind = working.kind
         /\ ~Busy => AbandonedWork = None
<1> USE DEF RuntimeTypeOK
<1>1. DOMAIN queue = 1..Len(queue) /\ Len(queue) \in Nat
  OBVIOUS
<1>2. \A p \in Posts : LET q == [p EXCEPT !.live = FALSE] IN
        q \in Posts /\ ~q.live /\ q.thread = p.thread /\ q.kind = p.kind
  BY DEF Posts
<1>3. \A i \in DOMAIN queue : queue[i] \in Posts
  OBVIOUS
<1>4. \A i \in DOMAIN queue : Abandoned[i] = [queue[i] EXCEPT !.live = FALSE]
  BY DEF Abandoned
<1>5. \A i \in DOMAIN queue : /\ ~Abandoned[i].live
                              /\ Abandoned[i].thread = queue[i].thread
                              /\ Abandoned[i].kind = queue[i].kind
  <2> TAKE i \in DOMAIN queue
  <2> DEFINE p == queue[i]
  <2>1. p \in Posts /\ Abandoned[i] = [p EXCEPT !.live = FALSE]
    BY <1>3, <1>4
  <2> HIDE DEF p
  <2>2. ~Abandoned[i].live /\ Abandoned[i].thread = p.thread /\ Abandoned[i].kind = p.kind
    BY <1>2, <2>1
  <2> QED
    BY <2>2 DEF p
<1>6. ASSUME Busy
      PROVE  /\ AbandonedWork # None /\ ~AbandonedWork.live
             /\ AbandonedWork.thread = working.thread
             /\ AbandonedWork.kind = working.kind
  <2>1. working \in Posts /\ working # None
    BY <1>6 DEF Busy
  <2>2. AbandonedWork = [working EXCEPT !.live = FALSE]
    BY <1>6 DEF AbandonedWork
  <2>3. AbandonedWork \in Posts /\ ~AbandonedWork.live
        /\ AbandonedWork.thread = working.thread /\ AbandonedWork.kind = working.kind
    BY <1>2, <2>1, <2>2
  <2> QED
    BY <2>3, NoneIsNoPost
<1>7. ~Busy => AbandonedWork = None
  BY DEF AbandonedWork
<1>8. DOMAIN Abandoned = 1..Len(queue)
  BY <1>1 DEF Abandoned
<1> QED
  BY <1>1, <1>5, <1>6, <1>7, <1>8, AbandonedTyped

LEMMA SendFacts ==
  ASSUME AgentTypeOK, NEW t \in Threads, NEW kind \in {"run", "resume"},
         NEW first \in BOOLEAN, Send(t, kind, first),
         first => \A i \in DOMAIN queue : ~queue[i].live
  PROVE  /\ Len(queue') = Len(queue) + 1 /\ DOMAIN queue' = 1..(Len(queue) + 1)
         /\ \A i \in DOMAIN queue : /\ ~queue'[i].live
                                     /\ queue'[i].thread = queue[i].thread
                                     /\ queue'[i].kind = queue[i].kind
         /\ queue'[Len(queue) + 1] = [thread |-> t, kind |-> kind, live |-> TRUE]
         /\ Busy' <=> Busy
         /\ Busy => ~working'.live /\ working'.thread = working.thread
                                  /\ working'.kind = working.kind
<1> DEFINE new == [thread |-> t, kind |-> kind, live |-> TRUE]
           old == IF first THEN queue ELSE Abandoned
<1> USE AbandonedFacts DEF AgentTypeOK
<1>1. new \in Posts
  BY DEF Posts
<1>2. old \in Seq(Posts) /\ Len(old) = Len(queue)
  BY DEF RuntimeTypeOK
<1>3. \A i \in DOMAIN queue : /\ ~old[i].live
                              /\ old[i].thread = queue[i].thread
                              /\ old[i].kind = queue[i].kind
  OBVIOUS
<1>4. queue' = Append(old, new)
  BY DEF Send
<1> HIDE DEF new, old
<1>5. /\ Len(queue') = Len(queue) + 1 /\ DOMAIN queue' = 1..(Len(queue) + 1)
      /\ \A i \in 1..Len(queue) : queue'[i] = old[i]
      /\ queue'[Len(queue) + 1] = new
  BY <1>1, <1>2, <1>4, AppendFacts
<1>6. working' = AbandonedWork
  BY DEF Send
<1> QED
  BY <1>3, <1>5, <1>6 DEF Busy, new

----------------------------------------------------------------------------
(* The parts of the invariant *)

LEMMA AgentInvInit == AgentInit => AgentInv
BY AgentTypeInit
   DEF AgentInit, RuntimeInit, AgentInv, LiveInv, ReplyInv, ResumeInv, EndsInv,
       WaitingIsResumable, ResumeIsNotRefused, Calling, Busy

LEMMA EndsStep == AgentTypeOK /\ EndsInv /\ [AgentNext]_agentVars => EndsInv'
<1> SUFFICES ASSUME AgentTypeOK, EndsInv, [AgentNext]_agentVars
             PROVE  EndsInv'
  OBVIOUS
<1> USE DEF AgentTypeOK, RuntimeTypeOK, EndsInv
<1>1. Busy => working \in Posts
  BY DEF Busy
<1>2. CASE RunGraph
  <2>1. Busy /\ Startable(working) /\ working.thread \in Threads
    BY <1>1, <1>2 DEF RunGraph, Posts
  <2>2. thread[working.thread] # "done"
    BY <2>1 DEF Startable
  <2> QED
    BY <1>2, <2>1, <2>2 DEF RunGraph
<1>3. CASE GraphFails
  BY <1>1, <1>3 DEF GraphFails, Startable, Posts
<1>4. CASE RestartRuntime
  BY <1>1, <1>4 DEF RestartRuntime, Restart, Startable, Posts
<1>5. CASE UNCHANGED <<thread, completions>>
  BY <1>5
<1> QED
  BY <1>2, <1>3, <1>4, <1>5
     DEF AgentNext, Worker, WorkerStep, TakeRequest, DropRequest, Refuse, Unavailable,
         ClientStep, StartCall, StartResume, AnswerArrives, ResultNotStored, RetryError,
         AnswerFails, RetryTimeout, GiveUp, Fail, NotRecorded, agentVars, runtimeVars

\* A call of t sends a request: its first when nobody calls, or one more.
Sends(t) ==
  /\ \E kind \in {"run", "resume"}, first \in BOOLEAN :
       /\ Send(t, kind, first)
       /\ first => NobodyCalls
       /\ ~first => Calling(t) /\ kind = "run" /\ run' = run /\ run[t] = "calling"
       /\ first /\ kind = "run" => run[t] = "new" /\ run' = [run EXCEPT ![t] = "calling"]
       /\ first /\ kind = "resume" =>
            run[t] = "waiting" /\ run' = [run EXCEPT ![t] = "resuming"]
  /\ UNCHANGED <<thread, completions, unrecorded, losses, restarts>>

\* What a call may leave the run in.
Ends == {"waiting", "stuck", "ok", "failed"}

\* A call of t returns; the run then waits for a human because it was asked a
\* question, or because the end of its resume was not recorded.
Returned(t) ==
  /\ Calling(t)
  /\ UNCHANGED <<thread, completions, restarts>>
  /\ \E outcome \in Ends :
       /\ Return(t, outcome)
       /\ outcome = "waiting" => reply = "question" \/ t \in unrecorded'
  /\ unrecorded' \in {unrecorded, unrecorded \cup {t}, unrecorded \ {t}}

LEMMA ClientSends ==
  ASSUME NEW t \in Threads, StartCall(t) \/ StartResume(t) \/ RetryError(t) \/ RetryTimeout(t)
  PROVE  Sends(t)
BY DEF Sends, StartCall, StartResume, RetryError, RetryTimeout, MayRetry, Calling

LEMMA ClientReturns ==
  ASSUME NEW t \in Threads,
         AnswerArrives(t) \/ ResultNotStored(t) \/ AnswerFails(t) \/ GiveUp(t)
  PROVE  Returned(t)
BY DEF Returned, AnswerArrives, ResultNotStored, AnswerFails, GiveUp, Fail, NotRecorded,
       Calling, Ends

\* Every step sends, returns, is the worker's or restarts the runtime.
LEMMA StepCases ==
  ASSUME AgentNext
  PROVE  \/ \E t \in Threads : Sends(t) \/ Returned(t)
         \/ WorkerStep /\ UNCHANGED <<run, attempt, unrecorded, losses, restarts>>
         \/ Restart /\ UNCHANGED <<run, attempt, unrecorded, losses>>
BY ClientSends, ClientReturns DEF AgentNext, ClientStep, Worker, RestartRuntime

LEMMA LiveStep == AgentTypeOK /\ LiveInv /\ [AgentNext]_agentVars => LiveInv'
<1> SUFFICES ASSUME AgentTypeOK, LiveInv, [AgentNext]_agentVars
             PROVE  LiveInv'
  OBVIOUS
<1>0. queue \in Seq(Posts) /\ run \in [Threads -> RunStates]
  BY DEF AgentTypeOK, RuntimeTypeOK
<1>1. ASSUME NEW t \in Threads, Sends(t)
      PROVE  LiveInv'
  <2> PICK kind \in {"run", "resume"}, first \in BOOLEAN :
             /\ Send(t, kind, first)
             /\ first => NobodyCalls
             /\ ~first => Calling(t) /\ run' = run
             /\ first => \E now \in {"calling", "resuming"} : run' = [run EXCEPT ![t] = now]
    BY <1>1 DEF Sends
  <2>1. first => \A i \in DOMAIN queue : ~queue[i].live
    <3>1. \A i \in DOMAIN queue : queue[i] \in Posts
      BY <1>0
    <3>2. \A p \in Posts : p.thread \in Threads
      BY DEF Posts
    <3> QED
      BY <3>1, <3>2 DEF LiveInv, NobodyCalls
  <2>2. Calling(t)' /\ \A s \in Threads : Calling(s)' => s = t
    BY <1>0 DEF Calling, NobodyCalls, LiveInv
  <2>3. /\ Len(queue') = Len(queue) + 1 /\ DOMAIN queue' = 1..(Len(queue) + 1)
        /\ \A i \in 1..Len(queue) : ~queue'[i].live
        /\ queue'[Len(queue) + 1].thread = t
        /\ Busy' => ~working'.live
    <3>1. /\ Len(queue') = Len(queue) + 1 /\ DOMAIN queue' = 1..(Len(queue) + 1)
          /\ \A i \in DOMAIN queue : ~queue'[i].live
          /\ queue'[Len(queue) + 1] = [thread |-> t, kind |-> kind, live |-> TRUE]
          /\ Busy' <=> Busy
          /\ Busy => ~working'.live
      BY <2>1, SendFacts
    <3> QED
      BY <3>1, <1>0
  <2>4. \A i \in DOMAIN queue' : queue'[i].live => i = Len(queue') /\ queue'[i].thread = t
    BY <1>0, <2>3
  <2>5. \A i \in DOMAIN queue' : queue'[i].live => Calling(queue[i].thread)'
    BY <2>2, <2>4 DEF Calling
  <2>6. \A r, s \in Threads : Calling(r)' /\ Calling(s)' => r = s
    BY <2>2
  <2> QED
    BY <2>3, <2>4, <2>5, <2>6 DEF LiveInv
<1>2. ASSUME NEW t \in Threads, Returned(t)
      PROVE  LiveInv'
  <2> PICK outcome \in Ends : Return(t, outcome)
    BY <1>2 DEF Returned
  <2>1. \A s \in Threads : ~Calling(s)'
    BY <1>0, <1>2 DEF Return, Returned, LiveInv, Calling, Ends
  <2>2. (\A i \in DOMAIN queue' : ~queue'[i].live) /\ (Busy' => ~working'.live)
    BY AbandonedFacts DEF Return, AgentTypeOK, Busy
  <2> QED
    BY <2>1, <2>2 DEF LiveInv
<1>3. CASE WorkerStep /\ UNCHANGED run
  <2>1. CASE TakeRequest \/ DropRequest
    <3>1. queue # <<>> /\ queue' = Tail(queue) /\ ~Busy
      BY <2>1 DEF TakeRequest, DropRequest
    <3>2. /\ Len(queue') = Len(queue) - 1 /\ DOMAIN queue' = 1..(Len(queue) - 1)
          /\ \A i \in DOMAIN queue' : i + 1 \in DOMAIN queue /\ queue'[i] = queue[i + 1]
          /\ Head(queue) = queue[1] /\ 1 \in DOMAIN queue
          /\ Len(queue) = 1 => queue' = <<>>
      BY <1>0, <3>1
    <3>3. \A i \in DOMAIN queue' : queue'[i].live => i = Len(queue') /\ Calling(queue[i].thread)'
      <4> SUFFICES ASSUME NEW i \in DOMAIN queue', queue'[i].live
                   PROVE  i = Len(queue') /\ Calling(queue[i].thread)'
        OBVIOUS
      <4>1. queue[i + 1].live /\ i + 1 \in DOMAIN queue /\ i \in Nat
        BY <3>2
      <4>2. i + 1 = Len(queue) /\ Calling(queue[i + 1].thread)
        BY <4>1 DEF LiveInv
      <4> QED
        BY <1>3, <3>2, <4>2 DEF Calling
    <3>4. Busy' /\ working'.live => queue' = <<>> /\ Calling(working.thread)'
      <4>1. CASE TakeRequest
        <5>1. working' = queue[1]
          BY <3>2, <4>1 DEF TakeRequest
        <5> QED
          BY <1>3, <3>2, <5>1 DEF LiveInv, Calling
      <4>2. CASE DropRequest
        BY <3>1, <4>2 DEF DropRequest, Busy
      <4> QED
        BY <2>1, <4>1, <4>2
    <3> QED
      BY <1>3, <3>3, <3>4 DEF LiveInv, Calling
  <2>2. CASE Refuse \/ Unavailable \/ RunGraph \/ GraphFails
    <3>1. working' = None /\ queue' = queue
      BY <2>2 DEF Refuse, Unavailable, RunGraph, GraphFails, Answer
    <3> QED
      BY <1>3, <3>1 DEF LiveInv, Calling, Busy
  <2> QED
    BY <1>3, <2>1, <2>2 DEF WorkerStep
<1>4. CASE Restart /\ UNCHANGED run
  BY <1>4 DEF Restart, LiveInv, Calling, Busy
<1>5. CASE UNCHANGED agentVars
  BY <1>5 DEF agentVars, runtimeVars, LiveInv, Calling, Busy
<1> QED
  BY <1>1, <1>2, <1>3, <1>4, <1>5, StepCases

\* A worker step takes a request from the queue's head or finishes one.
LEMMA TakenFacts ==
  ASSUME RuntimeTypeOK, TakeRequest \/ DropRequest
  PROVE  /\ queue # <<>> /\ ~Busy
         /\ UNCHANGED <<thread, reply, completions>>
         /\ \A i \in DOMAIN queue' : i + 1 \in DOMAIN queue /\ queue'[i] = queue[i + 1]
         /\ 1 \in DOMAIN queue
         /\ Busy' => working' = queue[1]
<1>1. queue # <<>> /\ queue' = Tail(queue) /\ ~Busy /\ UNCHANGED <<thread, reply, completions>>
  BY DEF TakeRequest, DropRequest
<1>2. queue \in Seq(Posts)
  BY DEF RuntimeTypeOK
<1>3. /\ \A i \in DOMAIN queue' : i + 1 \in DOMAIN queue /\ queue'[i] = queue[i + 1]
      /\ 1 \in DOMAIN queue /\ Head(queue) = queue[1]
  BY <1>1, <1>2
<1>4. Busy' => working' = queue[1]
  BY <1>1, <1>3 DEF TakeRequest, DropRequest, Busy
<1> QED
  BY <1>1, <1>3, <1>4

Finishes == Refuse \/ Unavailable \/ RunGraph \/ GraphFails

LEMMA FinishedFacts ==
  ASSUME RuntimeTypeOK, Finishes
  PROVE  /\ Busy /\ ~Busy' /\ queue' = queue /\ working \in Posts
         /\ working.thread \in Threads
         /\ ~working.live => reply' = reply
         /\ working.live => reply' # "none"
         /\ \A t \in Threads \ {working.thread} : thread'[t] = thread[t]
         /\ working.live /\ reply' = "question" => thread'[working.thread] = "paused"
         /\ working.live /\ reply' \in {"conflict", "unknown"} => ~Startable(working)
<1>1. Busy /\ working \in Posts
  BY DEF Finishes, Refuse, Unavailable, RunGraph, GraphFails, RuntimeTypeOK, Busy
<1>2. working.thread \in Threads
  BY <1>1 DEF Posts
<1> USE <1>1, <1>2 DEF Busy, Answer, RuntimeTypeOK
<1>3. CASE Refuse
  BY <1>3 DEF Refuse
<1>4. CASE Unavailable
  BY <1>4 DEF Unavailable
<1>5. CASE RunGraph
  BY <1>5 DEF RunGraph
<1>6. CASE GraphFails
  BY <1>6 DEF GraphFails
<1> QED
  BY <1>3, <1>4, <1>5, <1>6 DEF Finishes

LEMMA ReplyStep ==
  AgentTypeOK /\ LiveInv /\ ReplyInv /\ [AgentNext]_agentVars => ReplyInv'
<1> SUFFICES ASSUME AgentTypeOK, LiveInv, ReplyInv, [AgentNext]_agentVars
             PROVE  ReplyInv'
  OBVIOUS
<1>0. RuntimeTypeOK
  BY DEF AgentTypeOK
<1>1. ASSUME NEW t \in Threads, Sends(t) \/ Returned(t)
      PROVE  ReplyInv'
  BY <1>1 DEF Sends, Returned, Send, Return, ReplyInv
<1>2. CASE WorkerStep /\ UNCHANGED run
  <2>1. CASE TakeRequest \/ DropRequest
    BY <1>0, <2>1, TakenFacts DEF ReplyInv
  <2>2. CASE Finishes
    <3>1. reply = "none"
      BY <1>0, <2>2, FinishedFacts DEF ReplyInv
    <3>2. CASE working.live
      BY <1>0, <1>2, <2>2, <3>2, FinishedFacts DEF ReplyInv, LiveInv, Calling
    <3>3. CASE ~working.live
      BY <1>0, <2>2, <3>1, <3>3, FinishedFacts DEF ReplyInv
    <3> QED
      BY <3>2, <3>3
  <2> QED
    BY <1>2, <2>1, <2>2 DEF WorkerStep, Finishes
<1>3. CASE Restart /\ UNCHANGED run
  BY <1>3 DEF Restart, ReplyInv, Busy, Calling
<1>4. CASE UNCHANGED agentVars
  BY <1>4 DEF agentVars, runtimeVars, ReplyInv, Calling, Busy
<1> QED
  BY <1>1, <1>2, <1>3, <1>4, StepCases

LEMMA WaitingStep ==
  ASSUME AgentInv, [AgentNext]_agentVars
  PROVE  WaitingIsResumable'
<1>0. /\ RuntimeTypeOK /\ unrecorded \subseteq Threads
      /\ run \in [Threads -> RunStates]
  BY DEF AgentInv, AgentTypeOK
<1> SUFFICES ASSUME NEW t \in Threads, t \notin unrecorded', run'[t] = "waiting"
             PROVE  /\ thread'[t] = "paused"
                    /\ Busy' => working'.thread # t
                    /\ \A i \in DOMAIN queue' : queue'[i].thread # t
  BY DEF WaitingIsResumable
<1> DEFINE Waits == /\ thread[t] = "paused"
                    /\ Busy => working.thread # t
                    /\ \A i \in DOMAIN queue : queue[i].thread # t
<1>1. t \notin unrecorded /\ run[t] = "waiting" => Waits
  BY DEF AgentInv, WaitingIsResumable
<1> HIDE DEF Waits
<1>2. ASSUME NEW s \in Threads, Sends(s)
      PROVE  /\ thread'[t] = "paused"
             /\ Busy' => working'.thread # t
             /\ \A i \in DOMAIN queue' : queue'[i].thread # t
  <2> PICK kind \in {"run", "resume"}, first \in BOOLEAN :
             /\ Send(s, kind, first)
             /\ first => NobodyCalls
             /\ ~first => Calling(s) /\ run' = run
             /\ first => \E now \in {"calling", "resuming"} : run' = [run EXCEPT ![s] = now]
    BY <1>2 DEF Sends
  <2>1. t # s /\ run[t] = "waiting"
    BY <1>0 DEF Calling
  <2>2. Waits /\ thread' = thread
    BY <1>1, <1>2, <2>1 DEF Sends
  <2>3. first => \A i \in DOMAIN queue : ~queue[i].live
    <3>1. \A i \in DOMAIN queue : queue[i] \in Posts
      BY <1>0 DEF RuntimeTypeOK
    <3>2. \A p \in Posts : p.thread \in Threads
      BY DEF Posts
    <3> QED
      BY <3>1, <3>2 DEF AgentInv, LiveInv, NobodyCalls
  <2>4. /\ DOMAIN queue' = 1..(Len(queue) + 1)
        /\ \A i \in DOMAIN queue : queue'[i].thread = queue[i].thread
        /\ queue'[Len(queue) + 1] = [thread |-> s, kind |-> kind, live |-> TRUE]
        /\ Busy' <=> Busy
        /\ Busy => working'.thread = working.thread
    BY <2>3, SendFacts DEF AgentInv
  <2>5. DOMAIN queue = 1..Len(queue) /\ Len(queue) \in Nat
    BY <1>0, AbandonedFacts
  <2>6. \A i \in DOMAIN queue' : i \in DOMAIN queue \/ i = Len(queue) + 1
    BY <2>4, <2>5
  <2> QED
    BY <2>1, <2>2, <2>4, <2>6 DEF Waits
<1>3. ASSUME NEW s \in Threads, Returned(s)
      PROVE  /\ thread'[t] = "paused"
             /\ Busy' => working'.thread # t
             /\ \A i \in DOMAIN queue' : queue'[i].thread # t
  <2> PICK outcome \in Ends :
             /\ Return(s, outcome)
             /\ outcome = "waiting" => reply = "question" \/ s \in unrecorded'
    BY <1>3 DEF Returned
  <2>0. unrecorded' \in {unrecorded, unrecorded \cup {s}, unrecorded \ {s}}
    BY <1>3 DEF Returned
  <2>1. Waits
    <3>1. CASE t = s
      <4>1. reply = "question" /\ Calling(t)
        BY <1>0, <1>3, <3>1 DEF Return, Returned
      <4> QED
        BY <4>1 DEF AgentInv, ReplyInv, Waits
    <3>2. CASE t # s
      BY <1>0, <1>1, <2>0, <3>2 DEF Return
    <3> QED
      BY <3>1, <3>2
  <2>2. queue' = Abandoned /\ working' = AbandonedWork /\ thread' = thread
    BY <1>3 DEF Return, Returned
  <2> QED
    BY <1>0, <2>1, <2>2, AbandonedFacts DEF Waits, Busy
<1>4. CASE WorkerStep /\ UNCHANGED <<run, unrecorded>>
  <2>1. Waits
    BY <1>1, <1>4
  <2>2. CASE TakeRequest \/ DropRequest
    BY <1>0, <2>1, <2>2, TakenFacts DEF Waits
  <2>3. CASE Finishes
    BY <1>0, <2>1, <2>3, FinishedFacts DEF Waits
  <2> QED
    BY <1>4, <2>2, <2>3 DEF WorkerStep, Finishes
<1>5. CASE Restart /\ UNCHANGED <<run, unrecorded>>
  <2>1. Waits
    BY <1>1, <1>5
  <2> QED
    BY <1>0, <1>5, <2>1 DEF Restart, Waits, Busy, RuntimeTypeOK
<1>6. CASE UNCHANGED agentVars
  BY <1>1, <1>6 DEF agentVars, runtimeVars, Waits, Busy
<1> QED
  BY <1>2, <1>3, <1>4, <1>5, <1>6, StepCases

LEMMA ResumeStep ==
  ASSUME AgentInv, [AgentNext]_agentVars
  PROVE  ResumeInv'
<1>0. /\ RuntimeTypeOK /\ unrecorded \subseteq Threads
      /\ run \in [Threads -> RunStates]
  BY DEF AgentInv, AgentTypeOK
<1> SUFFICES ASSUME NEW t \in Threads, t \notin unrecorded',
                    run'[t] = "resuming", reply' = "none"
             PROVE  /\ thread'[t] = "paused"
                    /\ Busy' /\ working'.thread = t => working'.live /\ working'.kind = "resume"
                    /\ \A i \in DOMAIN queue' : queue'[i].thread = t =>
                                               queue'[i].live /\ queue'[i].kind = "resume"
  BY DEF ResumeInv
<1> DEFINE Alone == /\ thread[t] = "paused"
                    /\ Busy /\ working.thread = t => working.live /\ working.kind = "resume"
                    /\ \A i \in DOMAIN queue : queue[i].thread = t =>
                                               queue[i].live /\ queue[i].kind = "resume"
<1>1. t \notin unrecorded /\ run[t] = "resuming" /\ reply = "none" => Alone
  BY DEF AgentInv, ResumeInv
<1>2. \A r, s \in Threads : Calling(r) /\ Calling(s) => r = s
  BY DEF AgentInv, LiveInv
<1>3. ASSUME NEW s \in Threads, Sends(s)
      PROVE  /\ thread'[t] = "paused"
             /\ Busy' /\ working'.thread = t => working'.live /\ working'.kind = "resume"
             /\ \A i \in DOMAIN queue' : queue'[i].thread = t =>
                                        queue'[i].live /\ queue'[i].kind = "resume"
  <2> PICK kind \in {"run", "resume"}, first \in BOOLEAN :
             /\ Send(s, kind, first)
             /\ first => NobodyCalls
             /\ ~first => Calling(s) /\ kind = "run" /\ run' = run /\ run[s] = "calling"
             /\ first /\ kind = "run" =>
                  run[s] = "new" /\ run' = [run EXCEPT ![s] = "calling"]
             /\ first /\ kind = "resume" =>
                  run[s] = "waiting" /\ run' = [run EXCEPT ![s] = "resuming"]
    BY <1>3 DEF Sends
  <2>1. first /\ kind = "resume" /\ t = s
    BY <1>0, <1>2 DEF Calling, NobodyCalls
  <2>2. /\ thread[t] = "paused"
        /\ Busy => working.thread # t
        /\ \A i \in DOMAIN queue : queue[i].thread # t
    BY <1>3, <2>1 DEF Sends, AgentInv, WaitingIsResumable
  <2>3. first => \A i \in DOMAIN queue : ~queue[i].live
    <3>1. \A i \in DOMAIN queue : queue[i] \in Posts
      BY <1>0 DEF RuntimeTypeOK
    <3>2. \A p \in Posts : p.thread \in Threads
      BY DEF Posts
    <3> QED
      BY <3>1, <3>2 DEF AgentInv, LiveInv, NobodyCalls
  <2>4. /\ DOMAIN queue' = 1..(Len(queue) + 1)
        /\ \A i \in DOMAIN queue : queue'[i].thread = queue[i].thread
        /\ queue'[Len(queue) + 1] = [thread |-> s, kind |-> kind, live |-> TRUE]
        /\ Busy' <=> Busy
        /\ Busy => working'.thread = working.thread
    BY <2>3, SendFacts DEF AgentInv
  <2>5. DOMAIN queue = 1..Len(queue) /\ Len(queue) \in Nat
    BY <1>0, AbandonedFacts
  <2>6. \A i \in DOMAIN queue' : i \in DOMAIN queue \/ i = Len(queue) + 1
    BY <2>4, <2>5
  <2>7. thread' = thread
    BY <1>3 DEF Sends
  <2> QED
    BY <2>1, <2>2, <2>4, <2>6, <2>7
<1>4. ASSUME NEW s \in Threads, Returned(s)
      PROVE  FALSE
  BY <1>0, <1>2, <1>4 DEF Returned, Return, Calling, Ends
<1> HIDE DEF Alone
<1>5. CASE WorkerStep /\ UNCHANGED <<run, unrecorded>>
  <2>1. CASE TakeRequest \/ DropRequest
    BY <1>0, <1>1, <1>5, <2>1, TakenFacts DEF Alone
  <2>2. CASE Finishes
    \* Nothing was answered, so the request that ended was not for t.
    <3>1. Busy /\ ~working.live /\ reply = "none"
      BY <1>0, <2>2, FinishedFacts
    <3>2. Alone /\ working.thread # t
      BY <1>1, <1>5, <3>1 DEF Alone
    <3> QED
      BY <1>0, <2>2, <3>2, FinishedFacts DEF Alone
  <2> QED
    BY <1>5, <2>1, <2>2 DEF WorkerStep, Finishes
<1>6. CASE Restart /\ UNCHANGED <<run, unrecorded>>
  <2>1. reply = "none" /\ ~(Busy /\ working.live)
    BY <1>6 DEF Restart
  <2>2. Alone
    BY <1>1, <1>6, <2>1
  <2>3. thread'[t] = thread[t]
    BY <1>0, <1>6, <2>1, <2>2 DEF Restart, Alone, RuntimeTypeOK
  <2> QED
    BY <1>6, <2>2, <2>3 DEF Restart, Alone, Busy
<1>7. CASE UNCHANGED agentVars
  BY <1>1, <1>7 DEF agentVars, runtimeVars, Alone, Busy
<1> QED
  BY <1>3, <1>4, <1>5, <1>6, <1>7, StepCases

LEMMA RefusedStep ==
  ASSUME AgentInv, [AgentNext]_agentVars
  PROVE  ResumeIsNotRefused'
<1>0. RuntimeTypeOK /\ unrecorded \subseteq Threads
  BY DEF AgentInv, AgentTypeOK
<1> SUFFICES ASSUME NEW t \in Threads, t \notin unrecorded', run'[t] = "resuming"
             PROVE  reply' \notin {"conflict", "unknown"}
  BY DEF ResumeIsNotRefused
<1>1. ASSUME NEW s \in Threads, Sends(s) \/ Returned(s)
      PROVE  reply' = "none"
  BY <1>1 DEF Sends, Returned, Send, Return
<1>2. CASE WorkerStep /\ UNCHANGED <<run, unrecorded>>
  <2>1. run[t] = "resuming" /\ t \notin unrecorded /\ reply \notin {"conflict", "unknown"}
    BY <1>2 DEF AgentInv, ResumeIsNotRefused
  <2>2. CASE TakeRequest \/ DropRequest
    BY <1>0, <2>1, <2>2, TakenFacts
  <2>3. CASE Finishes
    <3>1. CASE working.live
      \* The answer is the one the caller waits for, and its thread is paused.
      <4>1. Busy /\ reply = "none" /\ working.thread = t
        BY <1>0, <2>1, <2>3, <3>1, FinishedFacts
           DEF AgentInv, LiveInv, ReplyInv, Calling
      <4>2. thread[t] = "paused" /\ working.kind = "resume"
        BY <2>1, <4>1 DEF AgentInv, ResumeInv
      <4>3. Startable(working)
        BY <4>1, <4>2 DEF Startable
      <4> QED
        BY <1>0, <2>3, <3>1, <4>3, FinishedFacts
    <3>2. CASE ~working.live
      BY <1>0, <2>1, <2>3, <3>2, FinishedFacts
    <3> QED
      BY <3>1, <3>2
  <2> QED
    BY <1>2, <2>2, <2>3 DEF WorkerStep, Finishes
<1>3. CASE Restart /\ UNCHANGED <<run, unrecorded>>
  BY <1>3 DEF Restart, AgentInv, ResumeIsNotRefused
<1>4. CASE UNCHANGED agentVars
  BY <1>4 DEF agentVars, runtimeVars, AgentInv, ResumeIsNotRefused
<1> QED
  BY <1>1, <1>2, <1>3, <1>4, StepCases

LEMMA AgentInvNext == AgentInv /\ [AgentNext]_agentVars => AgentInv'
<1> SUFFICES ASSUME AgentInv, [AgentNext]_agentVars
             PROVE  AgentInv'
  OBVIOUS
<1>1. AgentTypeOK' /\ LiveInv' /\ ReplyInv' /\ EndsInv'
  BY AgentTypeStep, LiveStep, ReplyStep, EndsStep DEF AgentInv
<1>2. ResumeInv' /\ WaitingIsResumable' /\ ResumeIsNotRefused'
  BY ResumeStep, WaitingStep, RefusedStep
<1> QED
  BY <1>1, <1>2 DEF AgentInv

LEMMA AgentInvHolds == AgentSpec => []AgentInv
BY AgentInvInit, AgentInvNext, PTL DEF AgentSpec

----------------------------------------------------------------------------
(* The theorems *)

\* However often a call is repeated and the runtime restarted, no graph ends
\* twice.
THEOREM GraphsEndOnce == AgentSpec => []CompletedOnce
<1>1. AgentInv => CompletedOnce
  <2> SUFFICES ASSUME AgentInv, NEW t \in Threads
               PROVE  completions[t] <= 1
    BY DEF CompletedOnce
  <2>1. completions[t] = IF thread[t] = "done" THEN 1 ELSE 0
    BY DEF AgentInv, EndsInv
  <2>2. completions[t] = 1 \/ completions[t] = 0
    BY <2>1
  <2> QED
    BY <2>2
<1> QED
  BY <1>1, AgentInvHolds, PTL

\* A run that waits for a human, with its last resume on record, has a thread
\* that waits, out of reach of what is left over in the runtime.
THEOREM WaitingRunsCanResume == AgentSpec => []WaitingIsResumable
<1>1. AgentInv => WaitingIsResumable
  BY DEF AgentInv
<1> QED
  BY <1>1, AgentInvHolds, PTL

\* The answer to a question on record never gets a 409 or a 404: one attempt is
\* enough for it, whatever earlier requests are still in the runtime.
THEOREM ResumesAreNotRefused == AgentSpec => []ResumeIsNotRefused
<1>1. AgentInv => ResumeIsNotRefused
  BY DEF AgentInv
<1> QED
  BY <1>1, AgentInvHolds, PTL
=============================================================================
