----------------------------- MODULE AnswerServer -----------------------------
(* GET /answer as src/disclosure_agent/server/app.py serves it: an event loop  *)
(* that admits one request at a time through asyncio.Semaphore(1), a thread    *)
(* pool with one worker that runs the request's job, a 270 s timer that gives  *)
(* up on the job without being able to stop it, and the start and the end of   *)
(* the process around them.  The job is ReliableAnswerService.answer reduced   *)
(* to the points at which it looks at the request's deadline or is observed    *)
(* from outside; AnswerService models what it computes.                        *)
EXTENDS Naturals, Sequences, FiniteSets

CONSTANTS
  Requests,       \* the requests a client sends, each at most once
  NoRequest,      \* what an idle worker runs
  Timeout,        \* ServerConfig.answer_timeout_seconds, in ticks
  RepairTimeout,  \* ResponseConfig.repair_timeout_seconds, in ticks
  MaxModelCalls   \* AgentConfig.max_model_calls

ASSUME ServerAssumption ==
  /\ NoRequest \notin Requests
  /\ Timeout \in Nat \ {0}
  /\ RepairTimeout \in Nat \ {0}
  /\ MaxModelCalls \in Nat

(* ThreadPoolExecutor(max_workers = 1).                                        *)
MaxWorkers == 1

Workers == 1..MaxWorkers

VARIABLES
  lifecycle,  \* where the lifespan context manager is
  service,    \* the service the lifespan built
  phase,      \* where each request's handler coroutine is
  value,      \* the semaphore's counter
  waiters,    \* coroutines parked in the semaphore, oldest first
  cancel,     \* each request's threading.Event
  left,       \* time until the deadline a request got when it was admitted
  age,        \* time since the request arrived
  ahead,      \* how many requests were in front of it when it arrived
  job,        \* the state of the future its handler waits for
  pool,       \* the executor's work queue
  thread,     \* the request each worker is running
  stage,      \* how far that run has come
  context,    \* the worker thread's request_execution context variable
  calls,      \* model calls the worker's run has made
  grant,      \* the time limit given to the worker's model call
  late,       \* model calls each request made after it was replied to
  reply       \* the status sent to the client

loopVars    == <<phase, value, waiters, cancel, left, age, ahead, reply>>
workerVars  == <<thread, stage, context, calls, grant, late>>
processVars == <<lifecycle, service>>
vars == <<processVars, loopVars, workerVars, job, pool>>

Lifecycles == {"constructing", "warming", "ready", "draining", "stopping", "closed", "failed"}
Phases == {"idle", "queued", "granted", "executing", "replied"}
Jobs   == {"none", "pending", "running", "ok", "error", "cancelled"}
Stages == {"idle", "cache", "run", "armed", "checked", "call", "check1", "build", "repair", "check2", "put"}

Positions(s) == 1..Len(s)

TypeOK ==
  /\ lifecycle \in Lifecycles
  /\ service \in {"none", "open", "closed"}
  /\ phase \in [Requests -> Phases]
  /\ value \in 0..1
  /\ waiters \in Seq(Requests)
  /\ cancel \in [Requests -> BOOLEAN]
  /\ left \in [Requests -> 0..Timeout]
  /\ age \in [Requests -> Nat]
  /\ ahead \in [Requests -> Nat]
  /\ job \in [Requests -> Jobs]
  /\ pool \in Seq(Requests)
  /\ thread \in [Workers -> Requests \cup {NoRequest}]
  /\ stage \in [Workers -> Stages]
  /\ context \in [Workers -> Requests \cup {NoRequest}]
  /\ calls \in [Workers -> 0..MaxModelCalls]
  /\ grant \in [Workers -> Nat]
  /\ late \in [Requests -> Nat]
  /\ reply \in [Requests -> {0, 200, 422, 503}]

Init ==
  /\ lifecycle = "constructing"
  /\ service = "none"
  /\ phase = [r \in Requests |-> "idle"]
  /\ value = 1
  /\ waiters = <<>>
  /\ cancel = [r \in Requests |-> FALSE]
  /\ left = [r \in Requests |-> 0]
  /\ age = [r \in Requests |-> 0]
  /\ ahead = [r \in Requests |-> 0]
  /\ job = [r \in Requests |-> "none"]
  /\ pool = <<>>
  /\ thread = [w \in Workers |-> NoRequest]
  /\ stage = [w \in Workers |-> "idle"]
  /\ context = [w \in Workers |-> NoRequest]
  /\ calls = [w \in Workers |-> 0]
  /\ grant = [w \in Workers |-> 0]
  /\ late = [r \in Requests |-> 0]
  /\ reply = [r \in Requests |-> 0]

-------------------------------------------------------------------------------
(* The lifespan.                                                               *)

Construct ==
  /\ lifecycle = "constructing"
  /\ \/ lifecycle' = "warming" /\ service' = "open"
     \/ lifecycle' = "failed" /\ UNCHANGED service
  /\ UNCHANGED <<loopVars, workerVars, job, pool>>

(* A failed warm-up closes the service before the error leaves the lifespan.   *)
Warmup ==
  /\ lifecycle = "warming"
  /\ \/ lifecycle' = "ready" /\ UNCHANGED service
     \/ lifecycle' = "failed" /\ service' = "closed"
  /\ UNCHANGED <<loopVars, workerVars, job, pool>>

(* The server process is told to stop: it accepts no more connections.         *)
BeginDrain ==
  /\ lifecycle = "ready"
  /\ lifecycle' = "draining"
  /\ UNCHANGED <<service, loopVars, workerVars, job, pool>>

InFlight(r) == phase[r] \in {"queued", "granted", "executing"}

(* ... and leaves the lifespan when every handler has returned.  The executor  *)
(* drops what no worker has taken (cancel_futures).                            *)
Shutdown ==
  /\ lifecycle = "draining"
  /\ \A r \in Requests : ~InFlight(r)
  /\ lifecycle' = "stopping"
  /\ job' = [r \in Requests |-> IF job[r] = "pending" THEN "cancelled" ELSE job[r]]
  /\ pool' = <<>>
  /\ UNCHANGED <<service, loopVars, workerVars>>

(* executor.shutdown(wait = True) has joined the worker.                       *)
JoinNothing == TRUE   \* faulty variant: shutdown(wait = False)

WorkersJoined == \A w \in Workers : thread[w] = NoRequest

Close ==
  /\ lifecycle = "stopping"
  /\ WorkersJoined
  /\ lifecycle' = "closed"
  /\ service' = "closed"
  /\ UNCHANGED <<loopVars, workerVars, job, pool>>

-------------------------------------------------------------------------------
(* The handler coroutine.                                                      *)

(* The handlers that are inside the semaphore, and the line behind them.       *)
Holders == {r \in Requests : phase[r] \in {"granted", "executing"}}

InFront == (IF Holders = {} THEN 0 ELSE 1) + Len(waiters)

(* Semaphore.acquire does not wait.                                            *)
Unlocked == value > 0 /\ waiters = <<>>

(* The body under the semaphore up to its first await: the deadline is taken   *)
(* here, and the job is handed to the executor.                                *)
Submit(r) ==
  /\ phase' = [phase EXCEPT ![r] = "executing"]
  /\ left' = [left EXCEPT ![r] = Timeout]
  /\ job' = [job EXCEPT ![r] = "pending"]
  /\ pool' = Append(pool, r)

(* Queries with the wrong parameters never reach the semaphore.                *)
Reject(r) ==
  /\ lifecycle = "ready"
  /\ phase[r] = "idle"
  /\ phase' = [phase EXCEPT ![r] = "replied"]
  /\ reply' = [reply EXCEPT ![r] = 422]
  /\ UNCHANGED <<processVars, value, waiters, cancel, left, age, ahead, workerVars, job, pool>>

Arrive(r) ==
  /\ lifecycle = "ready"
  /\ phase[r] = "idle"
  /\ ahead' = [ahead EXCEPT ![r] = InFront]
  /\ \/ /\ Unlocked
        /\ value' = value - 1
        /\ Submit(r)
        /\ UNCHANGED waiters
     \/ /\ ~Unlocked
        /\ phase' = [phase EXCEPT ![r] = "queued"]
        /\ waiters' = Append(waiters, r)
        /\ UNCHANGED <<value, left, job, pool>>
  /\ UNCHANGED <<processVars, cancel, age, workerVars, reply>>

(* A parked coroutine that was handed the semaphore runs again.                *)
Resume(r) ==
  /\ phase[r] = "granted"
  /\ Submit(r)
  /\ UNCHANGED <<processVars, value, waiters, cancel, age, ahead, workerVars, reply>>

(* faulty variant: a stack, not a line                                         *)
WakeYoungest == [who |-> waiters[Len(waiters)], rest |-> SubSeq(waiters, 1, Len(waiters) - 1)]

(* Which parked coroutine Semaphore.release wakes, and who stays parked.       *)
Wake == [who |-> Head(waiters), rest |-> Tail(waiters)]

LeaveUnheard(r, s) ==   \* faulty variant: raises the counter and wakes nobody
  /\ reply' = [reply EXCEPT ![r] = s]
  /\ phase' = [phase EXCEPT ![r] = "replied"]
  /\ value' = value + 1
  /\ UNCHANGED waiters

(* The handler leaves the semaphore with status s: release hands it straight   *)
(* to the next waiter, and only without one is the counter raised.             *)
Leave(r, s) ==
  /\ reply' = [reply EXCEPT ![r] = s]
  /\ IF waiters = <<>>
     THEN /\ value' = value + 1
          /\ phase' = [phase EXCEPT ![r] = "replied"]
          /\ UNCHANGED waiters
     ELSE /\ phase' = [phase EXCEPT ![r] = "replied", ![Wake.who] = "granted"]
          /\ waiters' = Wake.rest
          /\ UNCHANGED value

(* wait_for returns what the job returned or raised.                           *)
Deliver(r) ==
  /\ phase[r] = "executing"
  /\ job[r] \in {"ok", "error"}
  /\ Leave(r, IF job[r] = "ok" THEN 200 ELSE 503)
  /\ UNCHANGED <<processVars, cancel, left, age, ahead, workerVars, job, pool>>

CancelNothing(j) == j   \* faulty variant: the future is left alone

(* future.cancel() takes a job back only while no worker has started it.       *)
AfterCancel(j) == IF j = "pending" THEN "cancelled" ELSE j

SignalNothing(r) == UNCHANGED cancel   \* faulty variant: cancel_event.set() forgotten

Signal(r) == cancel' = [cancel EXCEPT ![r] = TRUE]

ExpiredUnlessRunning(r) == left[r] = 0 /\ job[r] # "running"   \* faulty: waits for the run

(* The timer of wait_for.                                                      *)
Expired(r) == left[r] = 0

(* wait_for gives up, also when the job ended in the same turn of the loop.    *)
TimeOut(r) ==
  /\ phase[r] = "executing"
  /\ Expired(r)
  /\ Signal(r)
  /\ job' = [job EXCEPT ![r] = AfterCancel(@)]
  /\ Leave(r, 503)
  /\ UNCHANGED <<processVars, left, age, ahead, workerVars, pool>>

-------------------------------------------------------------------------------
(* The worker thread.                                                          *)

ContextUnbound(w) == FALSE   \* faulty variant: answer() called without answer_with_context

(* request_cancelled(): the thread's context names a request whose event is    *)
(* set or whose deadline has passed.                                           *)
RequestCancelled(w) ==
  /\ context[w] # NoRequest
  /\ cancel[context[w]] \/ left[context[w]] = 0

(* The worker takes the oldest work item; set_running_or_notify_cancel() tells *)
(* it whether there is still something to run.                                 *)
Take(w) ==
  /\ thread[w] = NoRequest
  /\ pool # <<>>
  /\ job[Head(pool)] = "pending"
  /\ pool' = Tail(pool)
  /\ job' = [job EXCEPT ![Head(pool)] = "running"]
  /\ thread' = [thread EXCEPT ![w] = Head(pool)]
  /\ context' = [context EXCEPT ![w] = Head(pool)]
  /\ stage' = [stage EXCEPT ![w] = "cache"]
  /\ UNCHANGED <<processVars, loopVars, calls, grant, late>>

SkipCancelled(w) ==
  /\ thread[w] = NoRequest
  /\ pool # <<>>
  /\ job[Head(pool)] # "pending"
  /\ pool' = Tail(pool)
  /\ UNCHANGED <<processVars, loopVars, workerVars, job>>

(* The run ends: the context variable is reset and the future resolved.        *)
Finish(w, outcome) ==
  /\ job' = [job EXCEPT ![thread[w]] = outcome]
  /\ thread' = [thread EXCEPT ![w] = NoRequest]
  /\ stage' = [stage EXCEPT ![w] = "idle"]
  /\ context' = [context EXCEPT ![w] = NoRequest]
  /\ calls' = [calls EXCEPT ![w] = 0]
  /\ grant' = [grant EXCEPT ![w] = 0]
  /\ UNCHANGED <<processVars, loopVars, late, pool>>

Goto(w, s) ==
  /\ stage' = [stage EXCEPT ![w] = s]
  /\ UNCHANGED <<processVars, loopVars, thread, context, calls, grant, late, job, pool>>

(* A cached response is returned as it is, with no look at the deadline.       *)
LookUp(w) ==
  /\ stage[w] = "cache"
  /\ Finish(w, "ok") \/ Goto(w, "run")

(* call_model: what is left of the budget is read first ...                    *)
ArmCall(w) ==
  /\ stage[w] = "run"
  /\ calls[w] < MaxModelCalls
  /\ ~RequestCancelled(w)
  /\ stage' = [stage EXCEPT ![w] = "armed"]
  /\ calls' = [calls EXCEPT ![w] = @ + 1]
  /\ grant' = [grant EXCEPT ![w] = left[thread[w]]]
  /\ UNCHANGED <<processVars, loopVars, thread, context, late, job, pool>>

CallAwaitsBudget(w) ==   \* faulty variant: looks again instead of raising
  UNCHANGED <<processVars, loopVars, workerVars, job, pool>>

(* ... _complete_model looks at the request once more, and raises or goes on ... *)
CallDropped(w) ==
  /\ stage' = [stage EXCEPT ![w] = "run"]
  /\ grant' = [grant EXCEPT ![w] = 0]
  /\ UNCHANGED <<processVars, loopVars, thread, context, calls, late, job, pool>>

CheckCall(w) ==
  /\ stage[w] = "armed"
  /\ \/ ~RequestCancelled(w) /\ Goto(w, "checked")
     \/ RequestCancelled(w) /\ CallDropped(w)

(* ... and the call goes out after that, from another thread than the one that *)
(* may time out in between.                                                    *)
CountLate(w) ==
  late' = [late EXCEPT ![thread[w]] = IF phase[thread[w]] = "replied" THEN @ + 1 ELSE @]

SendCall(w) ==
  /\ stage[w] = "checked"
  /\ stage' = [stage EXCEPT ![w] = "call"]
  /\ CountLate(w)
  /\ UNCHANGED <<processVars, loopVars, thread, context, calls, grant, job, pool>>

EndCall(w) ==
  /\ stage[w] \in {"call", "repair"}
  /\ stage' = [stage EXCEPT ![w] = IF @ = "call" THEN "run" ELSE "check2"]
  /\ grant' = [grant EXCEPT ![w] = 0]
  /\ UNCHANGED <<processVars, loopVars, thread, context, calls, late, job, pool>>

(* runner.run raises, or returns a result.                                     *)
EndRun(w) ==
  /\ stage[w] = "run"
  /\ Finish(w, "error") \/ Goto(w, "check1")

(* The deadline check between run and build, then the contract checks and the  *)
(* temporary-failure rule of ReliableAnswerService.answer.                     *)
FirstCheck(w) ==
  /\ stage[w] = "check1"
  /\ \/ Finish(w, "error")
     \/ ~RequestCancelled(w) /\ Goto(w, "build")

(* The builder validates the draft; one that fails is repaired by one more     *)
(* model call, with a time limit of its own.                                   *)
Build(w) ==
  /\ stage[w] = "build"
  /\ Finish(w, "error") \/ Goto(w, "check2")

StartRepair(w) ==
  /\ stage[w] = "build"
  /\ stage' = [stage EXCEPT ![w] = "repair"]
  /\ grant' = [grant EXCEPT ![w] = RepairTimeout]
  /\ CountLate(w)
  /\ UNCHANGED <<processVars, loopVars, thread, context, calls, job, pool>>

SecondCheck(w) ==
  /\ stage[w] = "check2"
  /\ \/ Finish(w, "error")
     \/ ~RequestCancelled(w) /\ Goto(w, "put")

(* The response enters the cache and is returned.                              *)
Put(w) ==
  /\ stage[w] = "put"
  /\ Finish(w, "ok")

-------------------------------------------------------------------------------
(* Time.  The loop has something to do that it does before a tick passes: the  *)
(* model's unit of time is far longer than a turn of the event loop.           *)
LoopDue(r) ==
  \/ phase[r] = "granted"
  \/ phase[r] = "executing" /\ (Expired(r) \/ job[r] \in {"ok", "error"})

Tick ==
  /\ \E r \in Requests : InFlight(r)
  /\ \A r \in Requests : ~LoopDue(r)
  /\ age' = [r \in Requests |-> IF InFlight(r) THEN age[r] + 1 ELSE age[r]]
  /\ left' = [r \in Requests |-> IF phase[r] = "executing" THEN left[r] - 1 ELSE left[r]]
  /\ UNCHANGED <<processVars, phase, value, waiters, cancel, ahead, workerVars, job, pool, reply>>

(* A process that has ended and has nothing running.                           *)
Terminated ==
  /\ lifecycle \in {"closed", "failed"}
  /\ UNCHANGED vars

Lifespan == Construct \/ Warmup \/ BeginDrain \/ Shutdown \/ Close

Handler(r) == Reject(r) \/ Arrive(r) \/ Resume(r) \/ Deliver(r) \/ TimeOut(r)

Worker(w) ==
  \/ Take(w) \/ SkipCancelled(w) \/ LookUp(w) \/ ArmCall(w) \/ CheckCall(w) \/ SendCall(w) \/ EndCall(w)
  \/ EndRun(w) \/ FirstCheck(w) \/ Build(w) \/ StartRepair(w) \/ SecondCheck(w) \/ Put(w)

Next ==
  \/ Lifespan
  \/ \E r \in Requests : Handler(r)
  \/ \E w \in Workers : Worker(w)
  \/ Tick
  \/ Terminated

Spec == Init /\ [][Next]_vars

(* The event loop runs every coroutine that is ready and time passes.  Nothing *)
(* is assumed of the worker: a run may hang in a model call for ever.          *)
LoopStep(r) == Resume(r) \/ Deliver(r) \/ TimeOut(r)

LoopFairness ==
  /\ \A r \in Requests : WF_vars(LoopStep(r))
  /\ WF_vars(Tick)

FairSpec == Spec /\ LoopFairness

(* What stopping needs besides: the lifespan goes on and the worker's run does, *)
(* to its end.                                                                 *)
StopFairness ==
  /\ WF_vars(Shutdown \/ Close)
  /\ \A w \in Workers : WF_vars(Worker(w))

-------------------------------------------------------------------------------
(* Safety.                                                                     *)

(* The semaphore admits one handler at a time and no wake-up is lost: whenever *)
(* its counter is up, nobody is parked and nobody is inside (app.py:162).      *)
SemaphoreSafe ==
  /\ Cardinality(Holders) + value = 1
  /\ value = 1 => waiters = <<>>

(* A run whose handler is gone is one whose handler timed out: its client has  *)
(* a 503 and its cancel event is set, so the run can find out (app.py:192).    *)
OrphansAreCancelled ==
  \A w \in Workers : thread[w] # NoRequest /\ phase[thread[w]] # "executing" =>
    /\ cancel[thread[w]]
    /\ reply[thread[w]] = 503

(* A timed-out request costs the model at most one more call, the one whose    *)
(* budget check had been passed before: the worker's thread-local context      *)
(* stops every later one (execution.py:50, runner.py:8133, service.py:111).    *)
AtMostOneLateCall == \A r \in Requests : late[r] <= 1

(* The service is closed under no run: shutdown joins the worker before the    *)
(* OpenDART and HCX sessions go away (app.py:130-137).                         *)
ServiceOutlivesRuns ==
  (\E w \in Workers : thread[w] # NoRequest) => service = "open"

(* A request leaves the server within one timeout for itself and one for each  *)
(* request that was in front of it, whatever the worker is stuck in: the timer *)
(* of the request inside the semaphore runs even while its job waits behind a  *)
(* timed-out run in the pool (app.py:162-195).                                 *)
BoundedWait == \A r \in Requests : age[r] <= Timeout * (ahead[r] + 1)

(* A worker starts only jobs whose handler still waits for them: a request     *)
(* that timed out in the pool never runs (app.py:194).                         *)
NoAbandonedStart ==
  [][\A w \in Workers : thread'[w] \notin {NoRequest, thread[w]} =>
       phase[thread'[w]] = "executing"]_vars

(* docs/CHAT_UI_USAGE.md:101: the remaining time budget propagates to the HCX  *)
(* layer -- so no model call is given more time than its request has left.     *)
(* The code does not keep it; the README, section 3, tells how.                *)
BudgetPropagates ==
  [][\A w \in Workers : grant[w] = 0 /\ grant'[w] > 0 =>
       grant'[w] <= left[thread[w]]]_vars

-------------------------------------------------------------------------------
(* Liveness and refinement.                                                    *)

(* The server implements the one-line contract: admission order is reply       *)
(* order, and every admitted request is answered although runs may hang.       *)
Line ==
  (IF Holders = {} THEN <<>> ELSE <<CHOOSE r \in Holders : TRUE>>) \o waiters

Contract == INSTANCE AnswerContract WITH line <- Line

ImplementsContract == Contract!Spec

(* A server told to stop does stop once its run ends, with the service closed  *)
(* (app.py:128-137).                                                           *)
StopCompletes == StopFairness => (lifecycle = "draining" ~> lifecycle = "closed")
===============================================================================
