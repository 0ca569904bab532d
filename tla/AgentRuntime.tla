---------------------------- MODULE AgentRuntime ----------------------------
(***************************************************************************)
(* The agent runtime as the workflow sees it (services/agents/runtime): a  *)
(* single worker that handles POST /v1/run and POST /v1/resume one after   *)
(* the other (the handlers never await while a graph runs), and one        *)
(* LangGraph thread per run and agent, checkpointed in SQLite.             *)
(*                                                                         *)
(* A thread is "none" (no checkpoint), "open" (a graph is running on it or *)
(* was cut off), "paused" (it asks a human) or "done".                     *)
(*                                                                         *)
(* The caller may give up on a request (live = FALSE).  The runtime does   *)
(* not notice: it finishes the work and drops the answer.                  *)
(***************************************************************************)
EXTENDS Naturals, Sequences

CONSTANTS Threads    \* the threads, one per run (thread_id "<run>:<agent>")

VARIABLES
  thread,       \* the state of each thread, as the checkpointer keeps it
  queue,        \* the requests the worker has not taken up yet, in order
  working,      \* the request being handled, or None
  reply,        \* the answer on its way to the caller, or "none"
  completions   \* history: how many times the thread's graph has ended

runtimeVars == <<thread, queue, working, reply, completions>>

ThreadStates == {"none", "open", "paused", "done"}
Posts == [thread : Threads, kind : {"run", "resume"}, live : BOOLEAN]
None == [kind |-> "none"]

\* 200 with a result, 200 with a question, 409, 404, 503 and 500; the last is
\* no answer: the connection broke.
Replies == {"result", "question", "conflict", "unknown", "unavailable", "error",
            "reset"}

RuntimeTypeOK ==
  /\ thread \in [Threads -> ThreadStates]
  /\ queue \in Seq(Posts)
  /\ working \in Posts \cup {None}
  /\ reply \in Replies \cup {"none"}
  /\ completions \in [Threads -> Nat]

RuntimeInit ==
  /\ thread = [t \in Threads |-> "none"]
  /\ queue = <<>>
  /\ working = None
  /\ reply = "none"
  /\ completions = [t \in Threads |-> 0]

Busy == working # None

\* The worker is free again; only a caller that still listens gets the answer.
Answer(code) ==
  /\ working' = None
  /\ reply' = IF working.live THEN code ELSE reply

----------------------------------------------------------------------------
(* The worker *)

\* Mutant of TakeRequest: the newest request is taken up first.
TakeNewestRequest ==
  /\ ~Busy
  /\ queue # <<>>
  /\ working' = queue[Len(queue)]
  /\ queue' = SubSeq(queue, 1, Len(queue) - 1)
  /\ UNCHANGED <<thread, reply, completions>>

\* The next request is taken up.
TakeRequest ==
  /\ ~Busy
  /\ queue # <<>>
  /\ working' = Head(queue)
  /\ queue' = Tail(queue)
  /\ UNCHANGED <<thread, reply, completions>>

\* A request whose caller hung up before the worker came to it is dropped when
\* the server has noticed: reading its body fails.
DropRequest ==
  /\ ~Busy
  /\ queue # <<>>
  /\ ~Head(queue).live
  /\ queue' = Tail(queue)
  /\ UNCHANGED <<thread, working, reply, completions>>

\* Mutant of Startable: /v1/run does not look for a completed thread.
StartableAnyRun(request) ==
  IF request.kind = "run" THEN TRUE ELSE thread[request.thread] = "paused"

\* The thread's state lets the request start a graph: a run anything but a
\* completed thread, a resume a paused one.
Startable(request) ==
  IF request.kind = "run" THEN thread[request.thread] # "done"
  ELSE thread[request.thread] = "paused"

\* A request its thread does not allow: ThreadAlreadyCompleted and
\* ThreadNotPaused are 409, ThreadNotFound is 404.
Refuse ==
  /\ Busy
  /\ ~Startable(working)
  /\ Answer(IF working.kind = "resume" /\ thread[working.thread] = "none"
            THEN "unknown" ELSE "conflict")
  /\ UNCHANGED <<thread, queue, completions>>

\* The checkpointer cannot be opened.
Unavailable ==
  /\ Busy
  /\ Answer("unavailable")
  /\ UNCHANGED <<thread, queue, completions>>

\* The graph ends, with a result or with an interrupt.  A run starts from the
\* initial state even when the thread is paused or was cut off.  The result of
\* a graph that has ended may still be refused by its schema (500).
RunGraph ==
  /\ Busy
  /\ Startable(working)
  /\ \E end \in {"done", "paused"} :
       /\ thread' = [thread EXCEPT ![working.thread] = end]
       /\ IF end = "done"
          THEN /\ completions' = [completions EXCEPT ![working.thread] = @ + 1]
               /\ \E code \in {"result", "error"} : Answer(code)
          ELSE Answer("question") /\ UNCHANGED completions
  /\ UNCHANGED queue

\* The model or a tool fails in the middle of the graph.
GraphFails ==
  /\ Busy
  /\ Startable(working)
  /\ thread' = [thread EXCEPT ![working.thread] = "open"]
  /\ Answer("error")
  /\ UNCHANGED <<queue, completions>>

\* The runtime dies and starts again: the checkpoints survive, the requests do
\* not.  A graph it was running has left its thread open.
Restart ==
  /\ thread' = IF Busy /\ Startable(working)
                THEN [thread EXCEPT ![working.thread] = "open"] ELSE thread
  /\ working' = None
  /\ queue' = <<>>
  /\ reply' = IF (Busy /\ working.live) \/ (\E i \in DOMAIN queue : queue[i].live)
              THEN "reset" ELSE reply
  /\ UNCHANGED completions

WorkerStep ==
  \/ TakeRequest
  \/ DropRequest
  \/ Refuse
  \/ Unavailable
  \/ RunGraph
  \/ GraphFails
=============================================================================
