-------------------------- MODULE AnswerServerProofs --------------------------
(* Proofs about AnswerServer, for every set of requests, every timeout and     *)
(* every budget of model calls.                                                *)
EXTENDS AnswerServer, SequenceTheorems, FiniteSetTheorems, TLAPS

(* Who is inside the semaphore, and who is parked in front of it.              *)
Inside(r) == phase[r] \in {"granted", "executing"}

SemaphoreInv ==
  /\ value = 0 <=> \E r \in Requests : Inside(r)
  /\ \A p, q \in Requests : Inside(p) /\ Inside(q) => p = q
  /\ value = 1 => waiters = <<>>
  /\ \A i \in Positions(waiters) : phase[waiters[i]] = "queued"
  /\ \A i, j \in Positions(waiters) : waiters[i] = waiters[j] => i = j

LoopInv == TypeOK /\ SemaphoreInv

LEMMA LoopInvInit == Init => LoopInv
BY ServerAssumption DEF Init, LoopInv, TypeOK, SemaphoreInv, Inside, Positions, Lifecycles, Phases, Jobs, Stages

(* The worker and the lifespan do not touch what the event loop keeps.         *)
LEMMA WorkerLeavesLoop == ASSUME NEW w \in Workers, Worker(w) PROVE UNCHANGED loopVars
BY DEF Worker, Take, SkipCancelled, LookUp, ArmCall, CheckCall, CallDropped, SendCall, EndCall, EndRun, FirstCheck,
  Build, StartRepair, SecondCheck, Put, Finish, Goto

LEMMA LifespanLeavesLoop == Lifespan => UNCHANGED loopVars
BY DEF Lifespan, Construct, Warmup, BeginDrain, Shutdown, Close

LEMMA UnchangedLoop == SemaphoreInv /\ UNCHANGED loopVars => SemaphoreInv'
BY DEF SemaphoreInv, Inside, Positions, loopVars

LEMMA TypeLifespan == TypeOK /\ Lifespan => TypeOK'
<1> SUFFICES ASSUME TypeOK, Lifespan PROVE TypeOK'
  OBVIOUS
<1> USE DEF TypeOK, loopVars, workerVars, Lifecycles
<1>1. CASE Construct BY <1>1 DEF Construct
<1>2. CASE Warmup BY <1>2 DEF Warmup
<1>3. CASE BeginDrain BY <1>3 DEF BeginDrain
<1>4. CASE Shutdown
  <2>1. job' \in [Requests -> Jobs] BY <1>4 DEF Shutdown, Jobs
  <2> QED BY <1>4, <2>1, EmptySeq DEF Shutdown
<1>5. CASE Close BY <1>5 DEF Close
<1> QED BY <1>1, <1>2, <1>3, <1>4, <1>5 DEF Lifespan

LEMMA TypeFinish ==
  ASSUME TypeOK, NEW w \in Workers, thread[w] \in Requests,
         NEW outcome \in {"ok", "error"}, Finish(w, outcome)
  PROVE  TypeOK'
<1>1. job' \in [Requests -> Jobs] BY DEF TypeOK, Finish, Jobs
<1>2. stage' \in [Workers -> Stages] BY DEF TypeOK, Finish, Stages
<1>3. calls' \in [Workers -> 0..MaxModelCalls] BY ServerAssumption DEF TypeOK, Finish
<1> QED BY <1>1, <1>2, <1>3 DEF TypeOK, Finish, processVars, loopVars

LEMMA TypeGoto ==
  ASSUME TypeOK, NEW w \in Workers, NEW s \in Stages, Goto(w, s)
  PROVE  TypeOK'
BY DEF TypeOK, Goto, processVars, loopVars

(* A worker that is past "idle" has a request.                                 *)
StageInv == \A w \in Workers :
  /\ thread[w] = NoRequest <=> stage[w] = "idle"
  /\ context[w] = thread[w]

LEMMA TypeWorker ==
  ASSUME TypeOK, StageInv, NEW w \in Workers, Worker(w)
  PROVE  TypeOK'
<1> USE ServerAssumption DEF StageInv, processVars, loopVars
<1>0. stage[w] # "idle" => thread[w] \in Requests BY DEF TypeOK
<1>a. \A s \in {"run", "checked", "check1", "build", "check2", "put"} : s \in Stages BY DEF Stages
<1>b. pool # <<>> => Head(pool) \in Requests /\ Tail(pool) \in Seq(Requests)
  BY HeadTailProperties DEF TypeOK
<1>1. CASE Take(w)
  <2>1. job' \in [Requests -> Jobs] BY <1>1, <1>b DEF Take, TypeOK, Jobs
  <2>2. stage' \in [Workers -> Stages] BY <1>1 DEF Take, TypeOK, Stages
  <2>3. /\ thread' \in [Workers -> Requests \cup {NoRequest}]
        /\ context' \in [Workers -> Requests \cup {NoRequest}]
    BY <1>1, <1>b DEF Take, TypeOK
  <2> QED BY <1>1, <1>b, <2>1, <2>2, <2>3 DEF Take, TypeOK
<1>12. CASE SkipCancelled(w) BY <1>12, <1>b DEF SkipCancelled, TypeOK, workerVars
<1>2. CASE LookUp(w) BY <1>2, <1>0, <1>a, TypeFinish, TypeGoto DEF LookUp
<1>3. CASE ArmCall(w)
  <2>1. stage' \in [Workers -> Stages] BY <1>3 DEF ArmCall, TypeOK, Stages
  <2>2. calls' \in [Workers -> 0..MaxModelCalls] BY <1>3 DEF ArmCall, TypeOK
  <2>3. left[thread[w]] \in Nat BY <1>3, <1>0 DEF ArmCall, TypeOK
  <2>4. grant' \in [Workers -> Nat] BY <1>3, <2>3 DEF ArmCall, TypeOK
  <2> QED BY <1>3, <2>1, <2>2, <2>4 DEF ArmCall, TypeOK
<1>13. CASE CheckCall(w)
  <2>1. CASE Goto(w, "checked") BY <2>1, <1>a, TypeGoto
  <2>2. CASE CallDropped(w)
    <3>1. stage' \in [Workers -> Stages] BY <2>2, <1>a DEF CallDropped, TypeOK
    <3>2. grant' \in [Workers -> Nat] BY <2>2 DEF CallDropped, TypeOK
    <3> QED BY <2>2, <3>1, <3>2 DEF CallDropped, TypeOK
  <2> QED BY <1>13, <2>1, <2>2 DEF CheckCall
<1>4. CASE SendCall(w)
  <2>1. stage' \in [Workers -> Stages] BY <1>4 DEF SendCall, TypeOK, Stages
  <2>2. late' \in [Requests -> Nat] BY <1>4, <1>0 DEF SendCall, CountLate, TypeOK
  <2> QED BY <1>4, <2>1, <2>2 DEF SendCall, TypeOK
<1>5. CASE EndCall(w) BY <1>5, <1>0 DEF EndCall, TypeOK, Stages
<1>6. CASE EndRun(w) BY <1>6, <1>0, <1>a, TypeFinish, TypeGoto DEF EndRun
<1>7. CASE FirstCheck(w) BY <1>7, <1>0, <1>a, TypeFinish, TypeGoto DEF FirstCheck
<1>8. CASE Build(w) BY <1>8, <1>0, <1>a, TypeFinish, TypeGoto DEF Build
<1>9. CASE StartRepair(w)
  <2>1. stage' \in [Workers -> Stages] BY <1>9 DEF StartRepair, TypeOK, Stages
  <2>2. grant' \in [Workers -> Nat] BY <1>9 DEF StartRepair, TypeOK
  <2>3. late' \in [Requests -> Nat] BY <1>9, <1>0 DEF StartRepair, CountLate, TypeOK
  <2> QED BY <1>9, <2>1, <2>2, <2>3 DEF StartRepair, TypeOK
<1>10. CASE SecondCheck(w) BY <1>10, <1>0, <1>a, TypeFinish, TypeGoto DEF SecondCheck
<1>11. CASE Put(w) BY <1>11, <1>0, TypeFinish DEF Put
<1> QED BY <1>1, <1>2, <1>3, <1>4, <1>5, <1>6, <1>7, <1>8, <1>9, <1>10, <1>11, <1>12, <1>13 DEF Worker

-------------------------------------------------------------------------------
(* The handlers.                                                               *)

LEMMA LeaveKeepsSemaphore ==
  ASSUME LoopInv, NEW r \in Requests, phase[r] = "executing",
         NEW s \in {200, 503}, Leave(r, s)
  PROVE  /\ SemaphoreInv'
         /\ phase' \in [Requests -> Phases]
         /\ value' \in 0..1
         /\ waiters' \in Seq(Requests)
         /\ reply' \in [Requests -> {0, 200, 422, 503}]
<1> USE DEF LoopInv
<1>1. /\ phase \in [Requests -> Phases] /\ value \in 0..1 /\ waiters \in Seq(Requests)
      /\ reply \in [Requests -> {0, 200, 422, 503}]
  BY DEF TypeOK
<1>2. /\ value = 0
      /\ \A q \in Requests : q # r => ~Inside(q)
  BY <1>1 DEF SemaphoreInv, Inside
<1>3. reply' \in [Requests -> {0, 200, 422, 503}] BY <1>1 DEF Leave
<1>4. CASE waiters = <<>>
  <2>1. /\ phase' = [phase EXCEPT ![r] = "replied"] /\ value' = 1 /\ waiters' = <<>>
    BY <1>1, <1>2, <1>4 DEF Leave
  <2>2. \A q \in Requests : ~Inside(q)' BY <1>1, <1>2, <2>1 DEF Inside
  <2>3. Positions(waiters)' = {} BY <2>1 DEF Positions
  <2>4. SemaphoreInv' BY <2>1, <2>2, <2>3 DEF SemaphoreInv
  <2>5. phase' \in [Requests -> Phases] BY <1>1, <2>1 DEF Phases
  <2> QED BY <1>1, <1>3, <2>1, <2>4, <2>5
<1>5. CASE waiters # <<>>
  <2> DEFINE h == Head(waiters)
  <2>1. /\ phase' = [phase EXCEPT ![r] = "replied", ![h] = "granted"]
        /\ value' = value /\ waiters' = Tail(waiters)
    BY <1>5 DEF Leave, Wake
  <2>2. /\ h \in Requests /\ h = waiters[1] /\ waiters' \in Seq(Requests)
        /\ Len(waiters') = Len(waiters) - 1 /\ 1 \in Positions(waiters)
        /\ \A i \in Positions(waiters)' : waiters'[i] = waiters[i + 1] /\ i + 1 \in Positions(waiters)
    BY <1>1, <1>5, <2>1, HeadTailProperties, EmptySeq DEF Positions
  <2>3. phase[h] = "queued" /\ h # r BY <2>2 DEF SemaphoreInv
  <2>4. \A q \in Requests : Inside(q)' <=> q = h BY <1>1, <1>2, <2>1, <2>2, <2>3 DEF Inside
  <2>5. \A i \in Positions(waiters)' : phase'[waiters'[i]] = "queued"
    <3> SUFFICES ASSUME NEW i \in Positions(waiters)' PROVE phase'[waiters'[i]] = "queued"
      OBVIOUS
    <3>1. i + 1 \in Positions(waiters) /\ waiters'[i] = waiters[i + 1] /\ i + 1 # 1
      BY <2>2 DEF Positions
    <3>2. phase[waiters[i + 1]] = "queued" /\ waiters[i + 1] # h
      BY <2>2, <3>1 DEF SemaphoreInv
    <3>3. waiters[i + 1] \in Requests BY <1>1, <3>1, ElementOfSeq DEF Positions
    <3> DEFINE x == waiters[i + 1]
    <3>4. x \in Requests /\ x # h /\ phase[x] = "queued" /\ x # r
      BY <1>1, <3>2, <3>3
    <3> HIDE DEF x
    <3>5. phase'[x] = "queued"
      BY <1>1, <2>1, <3>4
    <3> QED BY <3>1, <3>5 DEF x
  <2>6. \A i, j \in Positions(waiters)' : waiters'[i] = waiters'[j] => i = j
    BY <2>2 DEF SemaphoreInv, Positions
  <2>7. SemaphoreInv'
    <3>1. value' = 0 BY <1>2, <2>1
    <3>2. \A p, q \in Requests : Inside(p)' /\ Inside(q)' => p = q BY <2>4
    <3>3. \E q \in Requests : Inside(q)' BY <2>2, <2>4
    <3> QED BY <2>5, <2>6, <3>1, <3>2, <3>3 DEF SemaphoreInv, Inside
  <2>8. phase' \in [Requests -> Phases] BY <1>1, <2>1 DEF Phases
  <2> QED BY <1>1, <1>3, <2>1, <2>2, <2>7, <2>8
<1> QED BY <1>4, <1>5

LEMMA SubmitType ==
  ASSUME TypeOK, NEW r \in Requests, Submit(r)
  PROVE  /\ phase' \in [Requests -> Phases]
         /\ left' \in [Requests -> 0..Timeout]
         /\ job' \in [Requests -> Jobs]
         /\ pool' \in Seq(Requests)
BY ServerAssumption DEF TypeOK, Submit, Phases, Jobs

LEMMA HandlerKeepsLoopInv ==
  ASSUME LoopInv, NEW r \in Requests, Handler(r)
  PROVE  LoopInv'
<1> USE DEF LoopInv, processVars, workerVars
<1>1. CASE Reject(r)
  <2>1. TypeOK' BY <1>1 DEF Reject, TypeOK, Phases
  <2>2. \A q \in Requests : Inside(q)' <=> Inside(q) BY <1>1 DEF Reject, TypeOK, Inside
  <2>3. \A i \in Positions(waiters) : waiters[i] \in Requests /\ waiters[i] # r
    BY <1>1, ElementOfSeq DEF Reject, TypeOK, SemaphoreInv, Positions
  <2>4. UNCHANGED <<value, waiters>> /\ \A q \in Requests : q # r => phase'[q] = phase[q]
    BY <1>1 DEF Reject, TypeOK
  <2>5. \A i \in Positions(waiters) : phase'[waiters[i]] = phase[waiters[i]]
    BY <2>3, <2>4
  <2> QED BY <2>1, <2>2, <2>4, <2>5 DEF SemaphoreInv, Inside, Positions
<1>2. CASE Arrive(r) /\ Unlocked
  <2>1. /\ value = 1 /\ value' = 0 /\ waiters = <<>> /\ waiters' = <<>> /\ Submit(r)
        /\ UNCHANGED <<processVars, cancel, age, workerVars, reply>>
        /\ ahead' = [ahead EXCEPT ![r] = InFront] /\ InFront \in Nat
    BY <1>2, EmptySeq DEF Arrive, Unlocked, TypeOK, InFront
  <2>2. TypeOK'
    <3>1. /\ phase' \in [Requests -> Phases] /\ left' \in [Requests -> 0..Timeout]
          /\ job' \in [Requests -> Jobs] /\ pool' \in Seq(Requests)
      BY <2>1, SubmitType
    <3>2. ahead' \in [Requests -> Nat] /\ value' \in 0..1 /\ waiters' \in Seq(Requests)
      BY <2>1 DEF TypeOK
    <3> QED BY <2>1, <3>1, <3>2 DEF TypeOK
  <2>3. \A q \in Requests : Inside(q)' <=> q = r
    BY <2>1 DEF TypeOK, SemaphoreInv, Inside, Submit
  <2> QED BY <2>1, <2>2, <2>3 DEF SemaphoreInv, Positions
<1>3. CASE Arrive(r) /\ ~Unlocked
  <2>1. /\ phase[r] = "idle" /\ phase' = [phase EXCEPT ![r] = "queued"]
        /\ waiters' = Append(waiters, r)
        /\ ahead' = [ahead EXCEPT ![r] = InFront]
        /\ UNCHANGED <<value, left, job, pool>>
    BY <1>3 DEF Arrive
  <2>2. UNCHANGED <<lifecycle, service, cancel, age, thread, stage, context, calls, grant, late, reply>>
    BY <1>3 DEF Arrive
  <2>3. waiters \in Seq(Requests) /\ Len(waiters) \in Nat /\ InFront \in Nat
    BY DEF TypeOK, InFront
  <2>4. value = 0 BY <1>3 DEF Unlocked, TypeOK, SemaphoreInv
  <2>5. TypeOK' BY <2>1, <2>2, <2>3 DEF TypeOK, Phases
  <2>6. \A q \in Requests : Inside(q)' <=> Inside(q) BY <2>1 DEF TypeOK, Inside
  <2>7. \A i \in Positions(waiters) : waiters[i] \in Requests /\ waiters[i] # r
    BY <2>1, <2>3, ElementOfSeq DEF SemaphoreInv, Positions
  <2>8. /\ Len(waiters') = Len(waiters) + 1
        /\ waiters'[Len(waiters) + 1] = r
        /\ \A i \in Positions(waiters) : waiters'[i] = waiters[i]
    BY <2>1, <2>3 DEF Positions
  <2>9. \A i \in Positions(waiters') : phase'[waiters'[i]] = "queued"
    <3> SUFFICES ASSUME NEW i \in Positions(waiters') PROVE phase'[waiters'[i]] = "queued"
      OBVIOUS
    <3>1. CASE i = Len(waiters) + 1 BY <2>1, <2>8, <3>1 DEF TypeOK
    <3>2. CASE i # Len(waiters) + 1
      <4>1. i \in Positions(waiters) BY <2>3, <2>8, <3>2 DEF Positions
      <4> QED BY <2>1, <2>7, <2>8, <4>1 DEF TypeOK, SemaphoreInv
    <3> QED BY <3>1, <3>2
  <2>10. \A i, j \in Positions(waiters') : waiters'[i] = waiters'[j] => i = j
    <3> SUFFICES ASSUME NEW i \in Positions(waiters'), NEW j \in Positions(waiters'),
                        waiters'[i] = waiters'[j]
                 PROVE  i = j
      OBVIOUS
    <3>1. i \in Positions(waiters) \/ i = Len(waiters) + 1 BY <2>3, <2>8 DEF Positions
    <3>2. j \in Positions(waiters) \/ j = Len(waiters) + 1 BY <2>3, <2>8 DEF Positions
    <3> QED BY <2>7, <2>8, <3>1, <3>2 DEF SemaphoreInv
  <2>11. \A p, q \in Requests : Inside(p)' /\ Inside(q)' => p = q BY <2>6 DEF SemaphoreInv
  <2>12. \E q \in Requests : Inside(q)' BY <2>4, <2>6 DEF SemaphoreInv
  <2>13. value' = 0 BY <2>1, <2>4
  <2> QED BY <2>5, <2>9, <2>10, <2>11, <2>12, <2>13 DEF SemaphoreInv, Inside
<1>4. CASE Resume(r)
  <2>1. TypeOK' BY <1>4, SubmitType DEF Resume, TypeOK
  <2>2. \A q \in Requests : Inside(q)' <=> Inside(q) BY <1>4 DEF Resume, Submit, TypeOK, Inside
  <2>3. \A i \in Positions(waiters) : waiters[i] \in Requests /\ waiters[i] # r
    BY <1>4, ElementOfSeq DEF Resume, TypeOK, SemaphoreInv, Positions
  <2>4. UNCHANGED <<value, waiters>> /\ \A q \in Requests : q # r => phase'[q] = phase[q]
    BY <1>4 DEF Resume, Submit, TypeOK
  <2>5. \A i \in Positions(waiters) : phase'[waiters[i]] = phase[waiters[i]]
    BY <2>3, <2>4
  <2> QED BY <2>1, <2>2, <2>4, <2>5 DEF SemaphoreInv, Inside, Positions
<1>5. CASE Deliver(r)
  <2>1. PICK s \in {200, 503} : Leave(r, s) BY <1>5 DEF Deliver
  <2>2. /\ SemaphoreInv' /\ phase' \in [Requests -> Phases] /\ value' \in 0..1
        /\ waiters' \in Seq(Requests) /\ reply' \in [Requests -> {0, 200, 422, 503}]
    BY <1>5, <2>1, LeaveKeepsSemaphore DEF Deliver
  <2>3. UNCHANGED <<processVars, cancel, left, age, ahead, workerVars, job, pool>>
    BY <1>5 DEF Deliver
  <2> QED BY <2>2, <2>3 DEF TypeOK
<1>6. CASE TimeOut(r)
  <2>1. job' \in [Requests -> Jobs] BY <1>6 DEF TimeOut, AfterCancel, TypeOK, Jobs
  <2>2. cancel' \in [Requests -> BOOLEAN] BY <1>6 DEF TimeOut, Signal, TypeOK
  <2>3. /\ SemaphoreInv' /\ phase' \in [Requests -> Phases] /\ value' \in 0..1
        /\ waiters' \in Seq(Requests) /\ reply' \in [Requests -> {0, 200, 422, 503}]
    BY <1>6, LeaveKeepsSemaphore DEF TimeOut
  <2>4. UNCHANGED <<processVars, left, age, ahead, workerVars, pool>>
    BY <1>6 DEF TimeOut
  <2> QED BY <2>1, <2>2, <2>3, <2>4 DEF TypeOK
<1> QED BY <1>1, <1>2, <1>3, <1>4, <1>5, <1>6 DEF Handler

LEMMA TickKeepsLoopInv == LoopInv /\ Tick => LoopInv'
<1> SUFFICES ASSUME LoopInv, Tick PROVE LoopInv'
  OBVIOUS
<1> USE DEF LoopInv, processVars, workerVars, Tick
<1>1. \A r \in Requests : phase[r] = "executing" => left[r] - 1 \in 0..Timeout
  BY ServerAssumption DEF TypeOK, LoopDue, Expired
<1>2. left' \in [Requests -> 0..Timeout] BY <1>1 DEF TypeOK
<1>3. age' \in [Requests -> Nat] BY DEF TypeOK
<1>4. TypeOK' BY <1>2, <1>3 DEF TypeOK
<1> QED BY <1>4 DEF SemaphoreInv, Inside, Positions

(* What a release does to each handler.                                        *)
LEMMA LeavePhases ==
  ASSUME LoopInv, NEW r \in Requests, phase[r] = "executing", NEW s, Leave(r, s)
  PROVE  /\ phase'[r] = "replied" /\ reply'[r] = s
         /\ \A q \in Requests : q # r =>
              /\ reply'[q] = reply[q]
              /\ phase'[q] = phase[q] \/ (phase[q] = "queued" /\ phase'[q] = "granted")
<1> USE DEF LoopInv, TypeOK
<1>1. CASE waiters = <<>> BY <1>1 DEF Leave
<1>2. CASE waiters # <<>>
  <2>1. Head(waiters) \in Requests /\ phase[Head(waiters)] = "queued"
    BY <1>2, HeadTailProperties, EmptySeq DEF SemaphoreInv, Positions
  <2>2. /\ phase' = [phase EXCEPT ![r] = "replied", ![Head(waiters)] = "granted"]
        /\ reply' = [reply EXCEPT ![r] = s]
    BY <1>2 DEF Leave, Wake
  <2>3. Head(waiters) # r BY <2>1
  <2> QED BY <2>1, <2>2, <2>3
<1> QED BY <1>1, <1>2

-------------------------------------------------------------------------------
(* The worker's run and its request's future, event and reply.                 *)
JobInv ==
  /\ StageInv
  /\ \A w \in Workers : thread[w] # NoRequest => job[thread[w]] = "running"
  /\ \A v, w \in Workers : thread[v] # NoRequest /\ thread[v] = thread[w] => v = w
  /\ \A r \in Requests :
       /\ phase[r] \in {"idle", "queued", "granted"} => job[r] = "none"
       /\ phase[r] = "executing" => job[r] \in {"pending", "running", "ok", "error"}
       /\ phase[r] = "replied" => job[r] # "pending"
       /\ phase[r] = "replied" /\ job[r] = "running" => cancel[r] /\ reply[r] = 503

(* A late call leaves its run only stages that lead to an end.                 *)
LateStages == {"call", "run", "check1", "repair", "check2"}

LateInv ==
  /\ \A r \in Requests : late[r] <= 1
  /\ \A r \in Requests : phase[r] # "replied" => late[r] = 0
  /\ \A w \in Workers : thread[w] # NoRequest /\ late[thread[w]] = 1 => stage[w] \in LateStages

(* The service lives through everything that can run.                          *)
ServiceInv ==
  /\ lifecycle \in {"warming", "ready", "draining", "stopping"} => service = "open"
  /\ \A r \in Requests : InFlight(r) => lifecycle \in {"ready", "draining"}
  /\ \A w \in Workers : thread[w] # NoRequest => lifecycle \in {"ready", "draining", "stopping"}

IInv == LoopInv /\ JobInv /\ LateInv /\ ServiceInv

LEMMA IInvInit == Init => IInv
<1> SUFFICES ASSUME Init PROVE IInv
  OBVIOUS
<1>1. LoopInv BY LoopInvInit
<1>2. JobInv BY ServerAssumption DEF Init, JobInv, StageInv
<1>3. LateInv BY DEF Init, LateInv
<1>4. ServiceInv BY DEF Init, ServiceInv, InFlight
<1> QED BY <1>1, <1>2, <1>3, <1>4 DEF IInv

LEMMA LifespanKeepsIInv == IInv /\ Lifespan => IInv'
<1> SUFFICES ASSUME IInv, Lifespan PROVE IInv'
  OBVIOUS
<1>1. /\ LoopInv'
      /\ UNCHANGED <<phase, cancel, reply>>
  BY TypeLifespan, LifespanLeavesLoop, UnchangedLoop DEF IInv, LoopInv, loopVars
<1>2. UNCHANGED <<thread, stage, context, late>>
  BY DEF Lifespan, Construct, Warmup, BeginDrain, Shutdown, Close, workerVars
<1>3. \A r \in Requests : job'[r] = job[r]
  <2>1. CASE Shutdown
    <3>1. \A r \in Requests : job[r] # "pending"
      BY <2>1 DEF Shutdown, InFlight, IInv, JobInv, LoopInv, TypeOK, Phases
    <3> QED BY <2>1, <3>1 DEF Shutdown
  <2>2. CASE ~Shutdown BY <2>2 DEF Lifespan, Construct, Warmup, BeginDrain, Close
  <2> QED BY <2>1, <2>2
<1>4. \A w \in Workers : thread[w] # NoRequest => thread[w] \in Requests
  BY DEF IInv, LoopInv, TypeOK
<1>5. JobInv' BY <1>1, <1>2, <1>3, <1>4 DEF IInv, JobInv, StageInv
<1>6. LateInv' BY <1>1, <1>2 DEF IInv, LateInv
<1>7. ServiceInv'
  <2> USE DEF IInv, ServiceInv, InFlight
  <2>1. CASE Construct BY <1>1, <1>2, <2>1 DEF Construct
  <2>2. CASE Warmup BY <1>1, <1>2, <2>2 DEF Warmup
  <2>3. CASE BeginDrain BY <1>1, <1>2, <2>3 DEF BeginDrain
  <2>4. CASE Shutdown BY <1>1, <1>2, <2>4 DEF Shutdown
  <2>5. CASE Close BY <1>1, <1>2, <2>5 DEF Close, WorkersJoined
  <2> QED BY <2>1, <2>2, <2>3, <2>4, <2>5 DEF Lifespan
<1> QED BY <1>1, <1>5, <1>6, <1>7 DEF IInv

LEMMA HandlerKeepsIInv ==
  ASSUME IInv, NEW r \in Requests, Handler(r)
  PROVE  IInv'
<1>1. LoopInv' BY HandlerKeepsLoopInv DEF IInv
<1>2. /\ UNCHANGED <<lifecycle, service, thread, stage, context, late>>
      /\ phase[r] = "idle" => lifecycle = "ready"
      /\ phase[r] # "replied"
  BY DEF Handler, Reject, Arrive, Resume, Deliver, TimeOut, processVars, workerVars
<1>3. \A w \in Workers : thread[w] # NoRequest => thread[w] \in Requests
  BY DEF IInv, LoopInv, TypeOK
<1>t. /\ phase \in [Requests -> Phases] /\ job \in [Requests -> Jobs]
      /\ cancel \in [Requests -> BOOLEAN] /\ reply \in [Requests -> {0, 200, 422, 503}]
  BY DEF IInv, LoopInv, TypeOK
<1>4. \A q \in Requests : q # r =>
        /\ job'[q] = job[q] /\ cancel'[q] = cancel[q] /\ reply'[q] = reply[q]
        /\ phase'[q] = phase[q] \/ (phase[q] = "queued" /\ phase'[q] = "granted")
  <2>1. CASE Reject(r) BY <1>t, <2>1 DEF Reject
  <2>2. CASE Arrive(r) BY <1>t, <2>2 DEF Arrive, Submit
  <2>3. CASE Resume(r) BY <1>t, <2>3 DEF Resume, Submit
  <2>4. CASE Deliver(r) BY <1>t, <2>4, LeavePhases DEF Deliver, IInv
  <2>5. CASE TimeOut(r) BY <1>t, <2>5, LeavePhases DEF TimeOut, Signal, IInv
  <2> QED BY <2>1, <2>2, <2>3, <2>4, <2>5 DEF Handler
<1>5. /\ phase'[r] \in {"idle", "queued", "granted"} => job'[r] = "none"
      /\ phase'[r] = "executing" => job'[r] = "pending"
      /\ phase'[r] = "replied" => job'[r] # "pending"
      /\ phase'[r] = "replied" /\ job'[r] = "running" => cancel'[r] /\ reply'[r] = 503
      /\ job[r] = "running" => job'[r] = "running"
  <2> USE DEF IInv, JobInv
  <2>1. CASE Reject(r) BY <1>t, <2>1 DEF Reject
  <2>2. CASE Arrive(r) BY <1>t, <2>2 DEF Arrive, Submit
  <2>3. CASE Resume(r) BY <1>t, <2>3 DEF Resume, Submit
  <2>4. CASE Deliver(r)
    <3>1. phase'[r] = "replied" /\ job' = job /\ job[r] \in {"ok", "error"}
      BY <2>4, LeavePhases DEF Deliver
    <3> QED BY <3>1
  <2>5. CASE TimeOut(r)
    <3>1. phase'[r] = "replied" /\ reply'[r] = 503 BY <2>5, LeavePhases DEF TimeOut
    <3>2. cancel'[r] /\ job'[r] = AfterCancel(job[r]) BY <1>t, <2>5 DEF TimeOut, Signal
    <3> QED BY <3>1, <3>2 DEF AfterCancel
  <2> QED BY <2>1, <2>2, <2>3, <2>4, <2>5 DEF Handler
<1>6. JobInv'
  <2>1. StageInv' BY <1>2 DEF IInv, JobInv, StageInv
  <2>2. \A w \in Workers : thread[w] # NoRequest => job'[thread[w]] = "running"
    BY <1>3, <1>4, <1>5 DEF IInv, JobInv
  <2>3. \A q \in Requests : q # r =>
          /\ phase'[q] \in {"idle", "queued", "granted"} => job'[q] = "none"
          /\ phase'[q] = "executing" => job'[q] \in {"pending", "running", "ok", "error"}
          /\ phase'[q] = "replied" => job'[q] # "pending"
          /\ phase'[q] = "replied" /\ job'[q] = "running" => cancel'[q] /\ reply'[q] = 503
    BY <1>4 DEF IInv, JobInv
  <2> QED BY <1>2, <1>5, <2>1, <2>2, <2>3 DEF IInv, JobInv
<1>7. LateInv'
  <2>1. \A q \in Requests : phase'[q] # "replied" => phase[q] # "replied" BY <1>2, <1>4
  <2> QED BY <1>2, <2>1 DEF IInv, LateInv
<1>8. ServiceInv'
  <2>1. \A q \in Requests : InFlight(q)' => InFlight(q) \/ q = r BY <1>4 DEF InFlight
  <2>2. InFlight(r) \/ lifecycle = "ready" BY <1>2, <1>t DEF InFlight, Phases
  <2> QED BY <1>2, <2>1, <2>2 DEF IInv, ServiceInv
<1> QED BY <1>1, <1>6, <1>7, <1>8 DEF IInv

(* What a step of worker w does to the run it is in.                           *)
LEMMA FinishKeepsIInv ==
  ASSUME IInv, TypeOK', NEW w \in Workers, thread[w] # NoRequest,
         NEW outcome \in {"ok", "error"}, Finish(w, outcome)
  PROVE  IInv'
<1> USE DEF Finish
<1>1. LoopInv' BY UnchangedLoop DEF IInv, LoopInv
<1>2. thread[w] \in Requests /\ \A v \in Workers : thread[v] \in Requests \cup {NoRequest}
  BY DEF IInv, LoopInv, TypeOK
<1>3. /\ job' = [job EXCEPT ![thread[w]] = outcome] /\ UNCHANGED <<phase, cancel, reply, late, lifecycle, service>>
      /\ thread' = [thread EXCEPT ![w] = NoRequest] /\ context' = [context EXCEPT ![w] = NoRequest]
      /\ stage' = [stage EXCEPT ![w] = "idle"]
  BY DEF loopVars, processVars
<1>4. /\ job \in [Requests -> Jobs] /\ thread \in [Workers -> Requests \cup {NoRequest}]
      /\ context \in [Workers -> Requests \cup {NoRequest}] /\ stage \in [Workers -> Stages]
  BY DEF IInv, LoopInv, TypeOK
<1>5. JobInv'
  <2>1. StageInv' BY <1>3, <1>4 DEF IInv, JobInv, StageInv
  <2>2. \A v \in Workers : thread'[v] # NoRequest =>
          v # w /\ thread'[v] = thread[v] /\ thread[v] # thread[w]
    BY <1>3, <1>4 DEF IInv, JobInv
  <2>3. \A v \in Workers : thread'[v] # NoRequest => job'[thread'[v]] = "running"
    BY <1>2, <1>3, <1>4, <2>2 DEF IInv, JobInv
  <2>4. \A u, v \in Workers : thread'[u] # NoRequest /\ thread'[u] = thread'[v] => u = v
    BY <2>2 DEF IInv, JobInv
  <2>5. \A r \in Requests : job'[r] = job[r] \/ (job[r] = "running" /\ job'[r] \in {"ok", "error"})
    BY <1>2, <1>3, <1>4 DEF IInv, JobInv
  <2> QED BY <1>3, <2>1, <2>3, <2>4, <2>5 DEF IInv, JobInv
<1>6. LateInv' BY <1>3, <1>4 DEF IInv, LateInv
<1>7. ServiceInv' BY <1>3, <1>4 DEF IInv, ServiceInv, InFlight
<1> QED BY <1>1, <1>5, <1>6, <1>7 DEF IInv

(* A step that moves the run from one stage to another.                        *)
LEMMA StageKeepsIInv ==
  ASSUME IInv, TypeOK', NEW w \in Workers, thread[w] # NoRequest, NEW s \in Stages \ {"idle"},
         stage' = [stage EXCEPT ![w] = s],
         late[thread[w]] = 1 => s \in LateStages,
         late' = late \/ (CountLate(w) /\ stage[w] \notin LateStages /\ s \in LateStages),
         UNCHANGED <<processVars, loopVars, thread, context, job>>
  PROVE  IInv'
<1>1. LoopInv' BY UnchangedLoop DEF IInv, LoopInv
<1>2. /\ thread[w] \in Requests /\ stage \in [Workers -> Stages]
      /\ late \in [Requests -> Nat]
  BY DEF IInv, LoopInv, TypeOK
<1>3. UNCHANGED <<phase, cancel, reply, lifecycle, service, thread, context, job>>
  BY DEF loopVars, processVars
<1>4. JobInv' BY <1>2, <1>3 DEF IInv, JobInv, StageInv
<1>5. LateInv'
  <2>1. CASE late' = late BY <1>2, <1>3, <2>1 DEF IInv, LateInv
  <2>2. CASE CountLate(w) /\ stage[w] \notin LateStages /\ s \in LateStages
    <3>1. late[thread[w]] = 0 BY <1>2, <2>2 DEF IInv, LateInv
    <3>2. late'[thread[w]] = IF phase[thread[w]] = "replied" THEN 1 ELSE 0
      BY <1>2, <2>2, <3>1 DEF CountLate
    <3>3. \A r \in Requests : r # thread[w] => late'[r] = late[r]
      BY <1>2, <2>2 DEF CountLate
    <3>4. \A v \in Workers : v # w => stage'[v] = stage[v] BY <1>2
    <3>5. \A v \in Workers : v # w /\ thread[v] # NoRequest => thread[v] # thread[w]
      BY DEF IInv, JobInv
    <3>6. stage'[w] \in LateStages BY <1>2, <2>2
    <3>7. \A v \in Workers : thread[v] # NoRequest => thread[v] \in Requests
      BY DEF IInv, LoopInv, TypeOK
    <3>8. \A r \in Requests : late'[r] <= 1 /\ (phase[r] # "replied" => late'[r] = 0)
      BY <3>2, <3>3 DEF IInv, LateInv
    <3>9. \A v \in Workers : thread[v] # NoRequest /\ late'[thread[v]] = 1 => stage'[v] \in LateStages
      BY <3>3, <3>4, <3>5, <3>6, <3>7 DEF IInv, LateInv
    <3> QED BY <1>3, <3>8, <3>9 DEF LateInv
  <2> QED BY <2>1, <2>2
<1>6. ServiceInv' BY <1>3 DEF IInv, ServiceInv, InFlight
<1> QED BY <1>1, <1>4, <1>5, <1>6 DEF IInv

(* A run that made a late call has been cancelled, and its context says so.    *)
LEMMA LateIsCancelled ==
  ASSUME IInv, NEW w \in Workers, thread[w] # NoRequest, late[thread[w]] = 1
  PROVE  RequestCancelled(w)
<1>1. thread[w] \in Requests BY DEF IInv, LoopInv, TypeOK
<1>2. phase[thread[w]] = "replied" BY <1>1 DEF IInv, LateInv
<1> QED BY <1>1, <1>2 DEF IInv, JobInv, StageInv, RequestCancelled

LEMMA GotoKeepsIInv ==
  ASSUME IInv, TypeOK', NEW w \in Workers, thread[w] # NoRequest, NEW s \in Stages \ {"idle"},
         late[thread[w]] = 1 => s \in LateStages, Goto(w, s)
  PROVE  IInv'
<1>1. /\ stage' = [stage EXCEPT ![w] = s] /\ late' = late
      /\ UNCHANGED <<processVars, loopVars, thread, context, job>>
  BY DEF Goto
<1> QED BY <1>1, StageKeepsIInv

LEMMA WorkerKeepsIInv ==
  ASSUME IInv, NEW w \in Workers, Worker(w)
  PROVE  IInv'
<1>0. TypeOK' BY TypeWorker DEF IInv, LoopInv, JobInv
<1>1. /\ stage[w] # "idle" => thread[w] # NoRequest
      /\ thread[w] # NoRequest => late[thread[w]] # 1 \/ stage[w] \in LateStages
  BY DEF IInv, JobInv, StageInv, LateInv
<1>s. \A s \in {"run", "armed", "checked", "call", "check1", "build", "repair", "check2", "put"} :
        s \in Stages \ {"idle"}
  BY DEF Stages
<1>2. CASE Take(w)
  <2> DEFINE r == Head(pool)
  <2>1. r \in Requests BY <1>2, HeadTailProperties DEF Take, IInv, LoopInv, TypeOK
  <2>2. /\ thread[w] = NoRequest /\ job[r] = "pending" /\ job' = [job EXCEPT ![r] = "running"]
        /\ thread' = [thread EXCEPT ![w] = r] /\ context' = [context EXCEPT ![w] = r]
        /\ stage' = [stage EXCEPT ![w] = "cache"]
        /\ UNCHANGED <<phase, cancel, reply, late, lifecycle, service, loopVars>>
    BY <1>2 DEF Take, loopVars, processVars
  <2>3. /\ job \in [Requests -> Jobs] /\ thread \in [Workers -> Requests \cup {NoRequest}]
        /\ context \in [Workers -> Requests \cup {NoRequest}] /\ stage \in [Workers -> Stages]
    BY DEF IInv, LoopInv, TypeOK
  <2>4. phase[r] = "executing" /\ late[r] = 0
    <3>1. phase[r] \in Phases BY <2>1 DEF IInv, LoopInv, TypeOK
    <3> QED BY <2>1, <2>2, <3>1 DEF Phases, IInv, JobInv, LateInv
  <2>5. LoopInv' BY <1>0, <2>2, UnchangedLoop DEF IInv, LoopInv
  <2>6. \A v \in Workers : v # w /\ thread[v] # NoRequest => thread[v] # r /\ thread'[v] = thread[v]
    BY <2>2, <2>3 DEF IInv, JobInv
  <2>7. \A v \in Workers : v # w => thread'[v] = thread[v] /\ stage'[v] = stage[v]
    BY <2>2, <2>3
  <2>8. thread'[w] = r /\ stage'[w] = "cache" /\ context'[w] = r BY <2>2, <2>3
  <2>9. JobInv'
    <3>1. StageInv' BY <2>1, <2>2, <2>3, ServerAssumption DEF IInv, JobInv, StageInv
    <3>2. \A v \in Workers : thread'[v] # NoRequest => job'[thread'[v]] = "running"
      <4> SUFFICES ASSUME NEW v \in Workers, thread'[v] # NoRequest
                   PROVE  job'[thread'[v]] = "running"
        OBVIOUS
      <4>1. CASE v = w BY <2>1, <2>2, <2>3, <2>8, <4>1
      <4>2. CASE v # w
        <5>1. thread[v] \in Requests /\ thread[v] # r /\ job[thread[v]] = "running"
          BY <2>3, <2>6, <2>7, <4>2 DEF IInv, JobInv
        <5> QED BY <2>2, <2>3, <2>7, <4>2, <5>1
      <4> QED BY <4>1, <4>2
    <3>3. \A u, v \in Workers : thread'[u] # NoRequest /\ thread'[u] = thread'[v] => u = v
      BY <2>6, <2>7, <2>8 DEF IInv, JobInv
    <3>4. \A q \in Requests : q # r => job'[q] = job[q] BY <2>2, <2>3
    <3>5. job'[r] = "running" BY <2>1, <2>2, <2>3
    <3> QED BY <2>2, <2>4, <3>1, <3>2, <3>3, <3>4, <3>5 DEF IInv, JobInv
  <2>10. LateInv'
    <3>1. \A v \in Workers : thread'[v] # NoRequest /\ late[thread'[v]] = 1 => stage'[v] \in LateStages
      BY <2>4, <2>7, <2>8 DEF IInv, LateInv
    <3> QED BY <2>2, <3>1 DEF IInv, LateInv
  <2>11. ServiceInv'
    <3>1. lifecycle \in {"ready", "draining"}
      BY <2>1, <2>4 DEF IInv, ServiceInv, InFlight
    <3> QED BY <2>2, <3>1 DEF IInv, ServiceInv, InFlight
  <2> QED BY <2>5, <2>9, <2>10, <2>11 DEF IInv
<1>3. CASE SkipCancelled(w)
  <2>1. UNCHANGED <<loopVars, workerVars, processVars, job>> BY <1>3 DEF SkipCancelled
  <2>2. LoopInv' BY <1>0, <2>1, UnchangedLoop DEF IInv, LoopInv
  <2> QED BY <2>1, <2>2 DEF IInv, JobInv, StageInv, LateInv, ServiceInv, InFlight,
        loopVars, workerVars, processVars
<1>4. CASE LookUp(w)
  <2>1. thread[w] # NoRequest /\ late[thread[w]] # 1 BY <1>1, <1>4 DEF LookUp, LateStages
  <2> QED BY <1>0, <1>4, <1>s, <2>1, FinishKeepsIInv, GotoKeepsIInv DEF LookUp
<1>5. CASE ArmCall(w)
  <2>1. thread[w] # NoRequest /\ late[thread[w]] # 1 BY <1>1, <1>5, LateIsCancelled DEF ArmCall
  <2> QED BY <1>0, <1>5, <1>s, <2>1, StageKeepsIInv DEF ArmCall
<1>14. CASE CheckCall(w)
  <2>1. thread[w] # NoRequest /\ late[thread[w]] # 1 BY <1>1, <1>14 DEF CheckCall, LateStages
  <2>2. CASE Goto(w, "checked") BY <1>0, <1>s, <2>1, <2>2, GotoKeepsIInv
  <2>3. CASE CallDropped(w) BY <1>0, <1>s, <2>1, <2>3, StageKeepsIInv DEF CallDropped
  <2> QED BY <1>14, <2>2, <2>3 DEF CheckCall
<1>6. CASE SendCall(w)
  <2>1. thread[w] # NoRequest /\ "call" \in LateStages /\ stage[w] \notin LateStages
    BY <1>1, <1>6 DEF SendCall, LateStages
  <2> QED BY <1>0, <1>6, <1>s, <2>1, StageKeepsIInv DEF SendCall
<1>7. CASE EndCall(w)
  <2>1. thread[w] # NoRequest /\ \A s \in {"run", "check2"} : s \in LateStages
    BY <1>1, <1>7 DEF EndCall, LateStages
  <2>2. PICK s \in {"run", "check2"} : stage' = [stage EXCEPT ![w] = s]
    BY <1>7 DEF EndCall
  <2> QED BY <1>0, <1>7, <1>s, <2>1, <2>2, StageKeepsIInv DEF EndCall
<1>8. CASE EndRun(w)
  <2>1. thread[w] # NoRequest /\ "check1" \in LateStages BY <1>1, <1>8 DEF EndRun, LateStages
  <2> QED BY <1>0, <1>8, <1>s, <2>1, FinishKeepsIInv, GotoKeepsIInv DEF EndRun
<1>9. CASE FirstCheck(w)
  <2>1. thread[w] # NoRequest BY <1>1, <1>9 DEF FirstCheck
  <2>2. CASE Finish(w, "error") BY <1>0, <2>1, <2>2, FinishKeepsIInv
  <2>3. CASE ~RequestCancelled(w) /\ Goto(w, "build")
    BY <1>0, <1>s, <2>1, <2>3, LateIsCancelled, GotoKeepsIInv
  <2> QED BY <1>9, <2>2, <2>3 DEF FirstCheck
<1>10. CASE Build(w)
  <2>1. thread[w] # NoRequest /\ late[thread[w]] # 1 BY <1>1, <1>10 DEF Build, LateStages
  <2> QED BY <1>0, <1>10, <1>s, <2>1, FinishKeepsIInv, GotoKeepsIInv DEF Build
<1>11. CASE StartRepair(w)
  <2>1. thread[w] # NoRequest /\ "repair" \in LateStages /\ stage[w] \notin LateStages
    BY <1>1, <1>11 DEF StartRepair, LateStages
  <2> QED BY <1>0, <1>11, <1>s, <2>1, StageKeepsIInv DEF StartRepair
<1>12. CASE SecondCheck(w)
  <2>1. thread[w] # NoRequest BY <1>1, <1>12 DEF SecondCheck
  <2>2. CASE Finish(w, "error") BY <1>0, <2>1, <2>2, FinishKeepsIInv
  <2>3. CASE ~RequestCancelled(w) /\ Goto(w, "put")
    BY <1>0, <1>s, <2>1, <2>3, LateIsCancelled, GotoKeepsIInv
  <2> QED BY <1>12, <2>2, <2>3 DEF SecondCheck
<1>13. CASE Put(w)
  <2>1. thread[w] # NoRequest BY <1>1, <1>13 DEF Put
  <2> QED BY <1>0, <1>13, <2>1, FinishKeepsIInv DEF Put
<1> QED BY <1>2, <1>3, <1>4, <1>5, <1>6, <1>7, <1>8, <1>9, <1>10, <1>11, <1>12, <1>13, <1>14 DEF Worker

LEMMA TickKeepsIInv == IInv /\ Tick => IInv'
<1> SUFFICES ASSUME IInv, Tick PROVE IInv'
  OBVIOUS
<1>1. LoopInv' BY TickKeepsLoopInv DEF IInv
<1>2. UNCHANGED <<lifecycle, service, phase, cancel, reply, job, thread, stage, context, late>>
  BY DEF Tick, processVars, workerVars
<1> QED BY <1>1, <1>2 DEF IInv, JobInv, StageInv, LateInv, ServiceInv, InFlight

LEMMA IInvStep == IInv /\ [Next]_vars => IInv'
<1> SUFFICES ASSUME IInv, [Next]_vars PROVE IInv'
  OBVIOUS
<1>1. CASE Lifespan BY <1>1, LifespanKeepsIInv
<1>2. CASE \E r \in Requests : Handler(r) BY <1>2, HandlerKeepsIInv
<1>3. CASE \E w \in Workers : Worker(w) BY <1>3, WorkerKeepsIInv
<1>4. CASE Tick BY <1>4, TickKeepsIInv
<1>5. CASE UNCHANGED vars
  <2>1. /\ UNCHANGED loopVars /\ UNCHANGED <<lifecycle, service, job, pool>>
        /\ UNCHANGED <<thread, stage, context, calls, grant, late>>
    BY <1>5 DEF vars, processVars, workerVars
  <2>2. TypeOK' BY <2>1 DEF IInv, LoopInv, TypeOK, loopVars
  <2>3. LoopInv' BY <2>1, <2>2, UnchangedLoop DEF IInv, LoopInv
  <2> QED BY <2>1, <2>3 DEF IInv, JobInv, StageInv, LateInv, ServiceInv, InFlight, loopVars
<1> QED BY <1>1, <1>2, <1>3, <1>4, <1>5 DEF Next, Terminated

LEMMA Invariance == Spec => []IInv
BY IInvInit, IInvStep, PTL DEF Spec

-------------------------------------------------------------------------------
(* Every variable keeps its type: in particular the counter of the semaphore   *)
(* never leaves 0..1 and no deadline is counted below zero (app.py:120-195).   *)
THEOREM TypeCorrect == Spec => []TypeOK
<1>1. IInv => TypeOK BY DEF IInv, LoopInv
<1> QED BY <1>1, Invariance, PTL

(* One handler at a time is inside the semaphore and no wake-up is lost        *)
(* (app.py:162): the lock discipline that a single run at a time rests on.     *)
THEOREM SemaphoreIsSafe == Spec => []SemaphoreSafe
<1>1. IInv => SemaphoreSafe
  <2> SUFFICES ASSUME IInv PROVE SemaphoreSafe
    OBVIOUS
  <2> USE DEF IInv, LoopInv, SemaphoreInv, Inside
  <2>1. value \in {0, 1} BY DEF TypeOK
  <2>2. CASE value = 0
    <3>1. PICK r \in Requests : Inside(r) BY <2>2
    <3>2. Holders = {r} BY <3>1 DEF Holders
    <3>3. Cardinality(Holders) = 1 BY <3>2, FS_Singleton
    <3> QED BY <2>2, <3>3 DEF SemaphoreSafe
  <2>3. CASE value = 1
    <3>1. Holders = {} BY <2>3 DEF Holders
    <3>2. Cardinality(Holders) = 0 BY <3>1, FS_EmptySet
    <3> QED BY <2>3, <3>2 DEF SemaphoreSafe
  <2> QED BY <2>1, <2>2, <2>3
<1> QED BY <1>1, Invariance, PTL

(* A run without a handler has been cancelled and its client has a 503         *)
(* (app.py:192-195).                                                           *)
THEOREM OrphansCancelled == Spec => []OrphansAreCancelled
<1>1. IInv => OrphansAreCancelled
  <2> SUFFICES ASSUME IInv, NEW w \in Workers, thread[w] # NoRequest, phase[thread[w]] # "executing"
               PROVE  cancel[thread[w]] /\ reply[thread[w]] = 503
    BY DEF OrphansAreCancelled
  <2>1. thread[w] \in Requests /\ phase[thread[w]] \in Phases BY DEF IInv, LoopInv, TypeOK
  <2>2. job[thread[w]] = "running" BY DEF IInv, JobInv
  <2> QED BY <2>1, <2>2 DEF IInv, JobInv, Phases
<1> QED BY <1>1, Invariance, PTL

(* However many model calls a run may make, at most one of them starts after   *)
(* its request was answered with a time-out (runner.py:8133, service.py:111).  *)
THEOREM OneLateCall == Spec => []AtMostOneLateCall
<1>1. IInv => AtMostOneLateCall BY DEF IInv, LateInv, AtMostOneLateCall
<1> QED BY <1>1, Invariance, PTL

(* The sources and the model session are not closed under a run (app.py:130).  *)
THEOREM ServiceOutlives == Spec => []ServiceOutlivesRuns
<1>1. IInv => ServiceOutlivesRuns BY DEF IInv, ServiceInv, ServiceOutlivesRuns
<1> QED BY <1>1, Invariance, PTL

(* No worker starts the job of a request that has timed out (app.py:194).      *)
THEOREM AbandonedNeverStart == Spec => NoAbandonedStart
<1> DEFINE Started(w) == thread'[w] \notin {NoRequest, thread[w]} => phase[thread'[w]] = "executing"
<1>1. IInv /\ [Next]_vars => [\A w \in Workers : Started(w)]_vars
  <2> SUFFICES ASSUME IInv, Next, NEW v \in Workers, thread'[v] \notin {NoRequest, thread[v]}
               PROVE  phase[thread'[v]] = "executing"
    OBVIOUS
  <2>1. thread \in [Workers -> Requests \cup {NoRequest}] BY DEF IInv, LoopInv, TypeOK
  <2>2. CASE \E w \in Workers : Worker(w)
    <3>1. PICK w \in Workers : Worker(w) BY <2>2
    <3>2. CASE Take(w)
      <4>1. Head(pool) \in Requests BY <3>2, HeadTailProperties DEF Take, IInv, LoopInv, TypeOK
      <4>2. thread'[v] = Head(pool) BY <2>1, <3>2 DEF Take
      <4>3. phase[Head(pool)] \in Phases BY <4>1 DEF IInv, LoopInv, TypeOK
      <4> QED BY <3>2, <4>1, <4>2, <4>3 DEF Take, IInv, JobInv, Phases
    <3>3. CASE ~Take(w)
      <4>1. thread' = thread \/ thread' = [thread EXCEPT ![w] = NoRequest]
        BY <3>1, <3>3 DEF Worker, SkipCancelled, LookUp, ArmCall, CheckCall, CallDropped, SendCall, EndCall, EndRun, FirstCheck,
          Build, StartRepair, SecondCheck, Put, Finish, Goto, workerVars
      <4> QED BY <2>1, <4>1
    <3> QED BY <3>2, <3>3
  <2>3. CASE ~(\E w \in Workers : Worker(w))
    <3>1. UNCHANGED workerVars
      BY <2>3 DEF Next, Terminated, vars, Lifespan, Construct, Warmup, BeginDrain, Shutdown, Close,
        Handler, Reject, Arrive, Resume, Deliver, TimeOut, Tick
    <3> QED BY <3>1 DEF workerVars
  <2> QED BY <2>2, <2>3
<1>2. [][\A w \in Workers : Started(w)]_vars => NoAbandonedStart
  BY PTL DEF NoAbandonedStart
<1> QED BY <1>1, <1>2, Invariance, PTL DEF Spec

-------------------------------------------------------------------------------
(* The line in front of the worker: how long a request waits in it, and that   *)
(* it is the line of AnswerContract.                                           *)

(* Who waits for the semaphore is parked in it, and nobody is replied to early. *)
LineInv ==
  /\ \A r \in Requests : phase[r] = "queued" => \E i \in Positions(waiters) : waiters[i] = r
  /\ \A r \in Requests : reply[r] = 0 <=> phase[r] # "replied"

(* The time that n requests take at most.                                      *)
Turns(n) == Timeout * n

(* What a request inside the semaphore has left of its turn.                   *)
Remaining(r) == IF phase[r] = "executing" THEN left[r] ELSE Timeout

(* A parked request still waits for the one inside and for those in front of   *)
(* it, and all of them fit the turns that it found ahead of itself.            *)
WaitInv ==
  /\ \A r \in Requests : phase[r] = "idle" => age[r] = 0
  /\ \A r \in Requests : Inside(r) => age[r] + Remaining(r) <= Turns(ahead[r]) + Timeout
  /\ \A r \in Requests : phase[r] = "replied" => age[r] <= Turns(ahead[r]) + Timeout
  /\ \A r \in Requests, i \in Positions(waiters) :
       Inside(r) => age[waiters[i]] + Remaining(r) + Turns(i - 1) <= Turns(ahead[waiters[i]])

LEMMA TurnsAdd ==
  /\ Turns(0) = 0
  /\ \A n \in Nat : Turns(n) \in Nat /\ Turns(n + 1) = Turns(n) + Timeout
BY ServerAssumption DEF Turns

LEMMA LineInvInit == Init => LineInv /\ WaitInv
<1> SUFFICES ASSUME Init PROVE LineInv /\ WaitInv
  OBVIOUS
<1>1. Positions(waiters) = {}
  BY EmptySeq DEF Init, Positions
<1> QED BY <1>1 DEF Init, LineInv, WaitInv, Inside

-------------------------------------------------------------------------------
(* The steps.                                                                  *)

(* What LoopInv says of the types that the steps of the line need.             *)
LEMMA LineTypes ==
  ASSUME LoopInv
  PROVE  /\ phase \in [Requests -> Phases] /\ reply \in [Requests -> {0, 200, 422, 503}]
         /\ age \in [Requests -> Nat] /\ ahead \in [Requests -> Nat]
         /\ left \in [Requests -> 0..Timeout] /\ Timeout \in Nat
         /\ waiters \in Seq(Requests) /\ Len(waiters) \in Nat /\ value \in {0, 1}
         /\ \A i \in Positions(waiters) : waiters[i] \in Requests /\ i \in Nat /\ i - 1 \in Nat
         /\ \A r \in Requests : Remaining(r) \in Nat /\ Remaining(r) <= Timeout
<1>1. \A r \in Requests : Remaining(r) \in Nat /\ Remaining(r) <= Timeout
  BY ServerAssumption DEF LoopInv, TypeOK, Remaining
<1>2. waiters \in Seq(Requests) /\ Len(waiters) \in Nat
  BY DEF LoopInv, TypeOK
<1>3. \A i \in Positions(waiters) : waiters[i] \in Requests /\ i \in Nat /\ i - 1 \in Nat
  BY <1>2, ElementOfSeq DEF Positions
<1> QED BY <1>1, <1>2, <1>3, ServerAssumption DEF LoopInv, TypeOK

LEMMA UnchangedLine ==
  ASSUME LineInv, WaitInv, UNCHANGED loopVars
  PROVE  LineInv' /\ WaitInv'
BY DEF LineInv, WaitInv, Inside, Remaining, Positions, loopVars

LEMMA RejectKeepsLine ==
  ASSUME LoopInv, LineInv, WaitInv, NEW r \in Requests, Reject(r)
  PROVE  LineInv' /\ WaitInv'
<1>1. /\ phase[r] = "idle" /\ phase' = [phase EXCEPT ![r] = "replied"]
      /\ reply' = [reply EXCEPT ![r] = 422]
      /\ UNCHANGED <<waiters, left, age, ahead>>
  BY DEF Reject
<1>2. \A q \in Requests : /\ Inside(q)' <=> Inside(q)
                          /\ Inside(q) => Remaining(q)' = Remaining(q)
  BY <1>1, LineTypes DEF Inside, Remaining
<1>3. LineInv'
  BY <1>1, LineTypes DEF LineInv, Positions
<1>4. age[r] = 0 /\ Turns(ahead[r]) \in Nat
  BY <1>1, LineTypes, TurnsAdd DEF WaitInv
<1>5. \A q \in Requests : phase'[q] = "replied" => age[q] <= Turns(ahead[q]) + Timeout
  BY <1>1, <1>4, LineTypes DEF WaitInv
<1>6. \A q \in Requests : phase'[q] = "idle" => age[q] = 0
  BY <1>1, LineTypes DEF WaitInv
<1>7. WaitInv'
  BY <1>1, <1>2, <1>5, <1>6 DEF WaitInv, Positions, Turns
<1> QED BY <1>3, <1>7

(* Who finds the semaphore free waits for nobody.                              *)
LEMMA EnterKeepsLine ==
  ASSUME LoopInv, LineInv, WaitInv, NEW r \in Requests, Arrive(r), Unlocked
  PROVE  LineInv' /\ WaitInv'
<1>1. /\ value = 1 /\ waiters = <<>> /\ waiters' = <<>>
      /\ phase[r] = "idle" /\ phase' = [phase EXCEPT ![r] = "executing"]
      /\ left' = [left EXCEPT ![r] = Timeout]
      /\ ahead' = [ahead EXCEPT ![r] = InFront]
      /\ UNCHANGED <<age, reply>>
  BY LineTypes DEF Arrive, Unlocked, Submit
<1>2. \A q \in Requests : ~Inside(q)
  BY <1>1 DEF LoopInv, SemaphoreInv
<1>3. \A q \in Requests : Inside(q)' <=> q = r
  BY <1>1, <1>2, LineTypes DEF Inside
<1>4. Positions(waiters) = {} /\ Positions(waiters)' = {}
  BY <1>1, EmptySeq DEF Positions
<1>5. InFront = 0
  <2>1. Holders = {}
    BY <1>2 DEF Holders, Inside
  <2> QED BY <1>1, <2>1, EmptySeq DEF InFront
<1>6. \A q \in Requests : phase[q] # "queued"
  BY <1>4 DEF LineInv
<1>7. LineInv'
  BY <1>1, <1>6, LineTypes DEF LineInv
<1>8. age[r] = 0 /\ Remaining(r)' = Timeout /\ Turns(ahead'[r]) = 0
  BY <1>1, <1>5, LineTypes, TurnsAdd DEF WaitInv, Remaining
<1>9. \A q \in Requests : Inside(q)' => age'[q] + Remaining(q)' <= Turns(ahead'[q]) + Timeout
  BY <1>1, <1>3, <1>8, LineTypes
<1>10. \A q \in Requests : phase'[q] = "replied" => age'[q] <= Turns(ahead'[q]) + Timeout
  BY <1>1, LineTypes DEF WaitInv
<1>11. \A q \in Requests : phase'[q] = "idle" => age'[q] = 0
  BY <1>1, LineTypes DEF WaitInv
<1>12. WaitInv'
  BY <1>4, <1>9, <1>10, <1>11 DEF WaitInv, Turns
<1> QED BY <1>7, <1>12

(* Who does not waits for the one inside and those that are parked.            *)
LEMMA ParkKeepsLine ==
  ASSUME LoopInv, LineInv, WaitInv, NEW r \in Requests, Arrive(r), ~Unlocked
  PROVE  LineInv' /\ WaitInv'
<1>1. /\ phase[r] = "idle" /\ phase' = [phase EXCEPT ![r] = "queued"]
      /\ waiters' = Append(waiters, r)
      /\ ahead' = [ahead EXCEPT ![r] = InFront]
      /\ UNCHANGED <<left, age, reply>>
  BY DEF Arrive
<1>2. value = 0
  BY LineTypes DEF Unlocked, LoopInv, SemaphoreInv
<1>3. PICK h \in Requests : Inside(h) /\ \A q \in Requests : Inside(q) => q = h
  BY <1>2 DEF LoopInv, SemaphoreInv
<1>4. InFront = Len(waiters) + 1
  <2>1. Holders # {}
    BY <1>3 DEF Holders, Inside
  <2> QED BY <2>1, LineTypes DEF InFront
<1>5. /\ Len(waiters') = Len(waiters) + 1 /\ waiters'[Len(waiters) + 1] = r
      /\ \A i \in Positions(waiters) : waiters'[i] = waiters[i]
      /\ Positions(waiters') = Positions(waiters) \cup {Len(waiters) + 1}
  BY <1>1, LineTypes DEF Positions
<1>6. \A i \in Positions(waiters) : waiters[i] # r
  BY <1>1 DEF LoopInv, SemaphoreInv
<1>7. \A q \in Requests : (Inside(q)' <=> Inside(q)) /\ (Inside(q) => Remaining(q)' = Remaining(q))
  BY <1>1, LineTypes DEF Inside, Remaining
<1>8. LineInv'
  <2>1. \A q \in Requests : phase'[q] = "queued" => \E i \in Positions(waiters') : waiters'[i] = q
    <3> SUFFICES ASSUME NEW q \in Requests, phase'[q] = "queued"
                 PROVE  \E i \in Positions(waiters') : waiters'[i] = q
      OBVIOUS
    <3>1. CASE q = r
      BY <1>5, <3>1
    <3>2. CASE q # r
      <4>1. phase[q] = "queued"
        BY <1>1, <3>2, LineTypes
      <4>2. PICK i \in Positions(waiters) : waiters[i] = q
        BY <4>1 DEF LineInv
      <4> QED BY <1>5, <4>2
    <3> QED BY <3>1, <3>2
  <2>2. \A q \in Requests : reply'[q] = 0 <=> phase'[q] # "replied"
    BY <1>1, LineTypes DEF LineInv
  <2> QED BY <2>1, <2>2 DEF LineInv
<1>9. \A q \in Requests, i \in Positions(waiters') : Inside(q) =>
        age[waiters'[i]] + Remaining(q) + Turns(i - 1) <= Turns(ahead'[waiters'[i]])
  <2> SUFFICES ASSUME NEW q \in Requests, NEW i \in Positions(waiters'), Inside(q)
               PROVE  age[waiters'[i]] + Remaining(q) + Turns(i - 1) <= Turns(ahead'[waiters'[i]])
    OBVIOUS
  <2>1. CASE i \in Positions(waiters)
    <3>1. waiters'[i] = waiters[i] /\ ahead'[waiters[i]] = ahead[waiters[i]]
      BY <1>1, <1>5, <1>6, <2>1, LineTypes
    <3> QED BY <2>1, <3>1 DEF WaitInv
  <2>2. CASE i = Len(waiters) + 1
    <3>1. /\ waiters'[i] = r /\ ahead'[r] = Len(waiters) + 1 /\ age[r] = 0
          /\ i - 1 = Len(waiters)
      BY <1>1, <1>4, <1>5, <2>2, LineTypes DEF WaitInv
    <3>2. Turns(Len(waiters) + 1) = Turns(Len(waiters)) + Timeout /\ Turns(Len(waiters)) \in Nat
      BY LineTypes, TurnsAdd
    <3> QED BY <3>1, <3>2, LineTypes
  <2> QED BY <1>5, <2>1, <2>2
<1>10. \A q \in Requests : Inside(q) => ahead'[q] = ahead[q]
  BY <1>1, LineTypes DEF Inside
<1>11. \A q \in Requests : phase'[q] = "replied" => age'[q] <= Turns(ahead'[q]) + Timeout
  BY <1>1, LineTypes DEF WaitInv
<1>12. \A q \in Requests : phase'[q] = "idle" => age'[q] = 0
  BY <1>1, LineTypes DEF WaitInv
<1>13. \A q \in Requests : Inside(q)' => age'[q] + Remaining(q)' <= Turns(ahead'[q]) + Timeout
  BY <1>1, <1>7, <1>10 DEF WaitInv
<1>14. \A q \in Requests, i \in Positions(waiters') : Inside(q)' =>
        age'[waiters'[i]] + Remaining(q)' + Turns(i - 1) <= Turns(ahead'[waiters'[i]])
  BY <1>1, <1>7, <1>9
<1>15. WaitInv'
  BY <1>11, <1>12, <1>13, <1>14 DEF WaitInv, Positions, Turns
<1> QED BY <1>8, <1>15

LEMMA ResumeKeepsLine ==
  ASSUME LoopInv, LineInv, WaitInv, NEW r \in Requests, Resume(r)
  PROVE  LineInv' /\ WaitInv'
<1>1. /\ phase[r] = "granted" /\ phase' = [phase EXCEPT ![r] = "executing"]
      /\ left' = [left EXCEPT ![r] = Timeout]
      /\ UNCHANGED <<waiters, age, ahead, reply>>
  BY DEF Resume, Submit
<1>2. \A q \in Requests : (Inside(q)' <=> Inside(q)) /\ (Inside(q) => Remaining(q)' = Remaining(q))
  BY <1>1, LineTypes DEF Inside, Remaining
<1>3. LineInv'
  BY <1>1, LineTypes DEF LineInv, Positions
<1>4. \A q \in Requests : phase'[q] \in {"replied", "idle"} => phase'[q] = phase[q]
  BY <1>1, LineTypes
<1>5. WaitInv'
  BY <1>1, <1>2, <1>4 DEF WaitInv, Positions, Turns
<1> QED BY <1>3, <1>5

(* The one that is woken has a whole turn, where the one that leaves had what  *)
(* remained of its own; everybody behind is one place further.                 *)
LEMMA LeaveKeepsLine ==
  ASSUME LoopInv, LineInv, WaitInv, NEW r \in Requests, phase[r] = "executing",
         NEW s \in {200, 503}, Leave(r, s), UNCHANGED <<left, age, ahead>>
  PROVE  LineInv' /\ WaitInv'
<1>1. Inside(r) /\ \A q \in Requests : Inside(q) => q = r
  BY DEF LoopInv, SemaphoreInv, Inside
<1>2. age[r] <= Turns(ahead[r]) + Timeout
  <2>1. age[r] + Remaining(r) <= Turns(ahead[r]) + Timeout
    BY <1>1 DEF WaitInv
  <2>2. /\ age[r] \in Nat /\ Remaining(r) \in Nat /\ ahead[r] \in Nat /\ Timeout \in Nat
    BY LineTypes
  <2>3. Turns(ahead[r]) \in Nat
    BY <2>2, TurnsAdd
  <2> QED BY <2>1, <2>2, <2>3
<1>3. reply' = [reply EXCEPT ![r] = s]
  BY DEF Leave
<1>4. CASE waiters = <<>>
  <2>1. /\ phase' = [phase EXCEPT ![r] = "replied"] /\ waiters' = <<>>
        /\ Positions(waiters) = {} /\ Positions(waiters)' = {}
    BY <1>4, EmptySeq DEF Leave, Positions
  <2>2. \A q \in Requests : ~Inside(q)' /\ phase[q] # "queued"
    BY <1>1, <2>1, LineTypes DEF Inside, LineInv
  <2>3. LineInv'
    BY <1>3, <2>1, <2>2, LineTypes DEF LineInv
  <2>4. \A q \in Requests : phase'[q] = "replied" => age[q] <= Turns(ahead[q]) + Timeout
    BY <1>2, <2>1, LineTypes DEF WaitInv
  <2>5. \A q \in Requests : phase'[q] = "idle" => age[q] = 0
    BY <2>1, LineTypes DEF WaitInv
  <2>6. WaitInv'
    BY <2>1, <2>2, <2>4, <2>5 DEF WaitInv, Turns
  <2> QED BY <2>3, <2>6
<1>5. CASE waiters # <<>>
  <2>0. PICK h \in Requests : h = Head(waiters)
    BY <1>5, LineTypes, HeadTailProperties
  <2>1. /\ phase' = [phase EXCEPT ![r] = "replied", ![h] = "granted"]
        /\ waiters' = Tail(waiters)
    BY <1>5, <2>0 DEF Leave, Wake
  <2>2. /\ h = waiters[1] /\ 1 \in Positions(waiters)
        /\ Len(waiters') = Len(waiters) - 1
        /\ \A i \in Positions(waiters') : waiters'[i] = waiters[i + 1] /\ i + 1 \in Positions(waiters)
    <3> DEFINE w == waiters
    <3>1. w \in Seq(Requests) /\ Len(w) \in Nat /\ w # <<>>
      BY <1>5, LineTypes
    <3>2. waiters' = Tail(w) /\ h = Head(w) /\ Positions(waiters) = 1..Len(w)
      BY <2>0, <2>1 DEF Positions
    <3> HIDE DEF w
    <3>3. Len(w) # 0 /\ Head(w) = w[1] /\ Len(Tail(w)) = Len(w) - 1
          /\ \A i \in 1..(Len(w) - 1) : Tail(w)[i] = w[i + 1] /\ i + 1 \in 1..Len(w)
      BY <3>1, HeadTailProperties, EmptySeq
    <3>4. Positions(waiters') = 1..(Len(w) - 1) /\ 1 \in 1..Len(w)
      BY <3>1, <3>2, <3>3 DEF Positions
    <3> QED BY <3>2, <3>3, <3>4 DEF w
  <2>3. phase[h] = "queued" /\ h # r
    BY <2>2 DEF LoopInv, SemaphoreInv
  <2>a. phase \in [Requests -> Phases] /\ reply \in [Requests -> {0, 200, 422, 503}]
    BY LineTypes
  <2>b. \A q \in Requests : phase'[q] = IF q = h THEN "granted" ELSE IF q = r THEN "replied" ELSE phase[q]
    BY <2>1, <2>2, <2>a
  <2>4. \A q \in Requests : Inside(q)' <=> q = h
    BY <1>1, <2>3, <2>b DEF Inside
  <2>5. LineInv'
    <3>1. \A q \in Requests : phase'[q] = "queued" => \E i \in Positions(waiters') : waiters'[i] = q
      <4> SUFFICES ASSUME NEW q \in Requests, phase'[q] = "queued"
                   PROVE  \E i \in Positions(waiters') : waiters'[i] = q
        OBVIOUS
      <4>1. phase[q] = "queued" /\ q # h
        BY <2>b
      <4>2. PICK i \in Positions(waiters) : waiters[i] = q
        BY <4>1 DEF LineInv
      <4>3. i # 1
        BY <2>2, <4>1, <4>2
      <4>4. i - 1 \in Positions(waiters') /\ (i - 1) + 1 = i
        <5>1. Len(waiters) \in Nat /\ i \in 1..Len(waiters) /\ Len(waiters') = Len(waiters) - 1
          BY <2>2, LineTypes DEF Positions
        <5> QED BY <4>3, <5>1 DEF Positions
      <4> QED BY <2>2, <4>2, <4>4
    <3>2. \A q \in Requests : reply'[q] = 0 <=> phase'[q] # "replied"
      BY <1>3, <2>3, <2>a, <2>b DEF LineInv
    <3> QED BY <3>1, <3>2 DEF LineInv
  <2>6. Remaining(h)' = Timeout
    BY <2>2, <2>b DEF Remaining
  <2>7. age[h] + Timeout <= Turns(ahead[h]) + Timeout
    <3>1. age[waiters[1]] + Remaining(r) + Turns(1 - 1) <= Turns(ahead[waiters[1]])
      BY <1>1, <2>2 DEF WaitInv
    <3>2. Turns(1 - 1) = 0
      BY TurnsAdd
    <3>3. age[h] \in Nat /\ ahead[h] \in Nat /\ Remaining(r) \in Nat /\ Timeout \in Nat
      BY <2>2, LineTypes
    <3>4. Turns(ahead[h]) \in Nat
      BY <3>3, TurnsAdd
    <3> QED BY <2>2, <3>1, <3>2, <3>3, <3>4
  <2>8. \A i \in Positions(waiters') :
          age[waiters'[i]] + Timeout + Turns(i - 1) <= Turns(ahead[waiters'[i]])
    <3> SUFFICES ASSUME NEW i \in Positions(waiters')
                 PROVE  age[waiters'[i]] + Timeout + Turns(i - 1) <= Turns(ahead[waiters'[i]])
      OBVIOUS
    <3>1. /\ i \in Nat /\ i - 1 \in Nat /\ i + 1 \in Positions(waiters)
          /\ waiters'[i] = waiters[i + 1] /\ waiters[i + 1] \in Requests
      <4>1. i \in 1..(Len(waiters) - 1) /\ Len(waiters) \in Nat
        BY <2>2, LineTypes DEF Positions
      <4>2. i \in Nat /\ i - 1 \in Nat
        BY <4>1
      <4>3. i + 1 \in Positions(waiters) /\ waiters'[i] = waiters[i + 1]
        BY <2>2
      <4>4. waiters[i + 1] \in Requests
        BY <4>3, LineTypes
      <4> QED BY <4>2, <4>3, <4>4
    <3>2. age[waiters[i + 1]] + Remaining(r) + Turns((i + 1) - 1) <= Turns(ahead[waiters[i + 1]])
      BY <1>1, <3>1 DEF WaitInv
    <3>3. Turns(i) = Turns(i - 1) + Timeout /\ Turns(i - 1) \in Nat /\ (i + 1) - 1 = i
      BY <3>1, TurnsAdd
    <3>4. /\ age[waiters[i + 1]] \in Nat /\ ahead[waiters[i + 1]] \in Nat
          /\ Remaining(r) \in Nat /\ Timeout \in Nat
      BY <3>1, LineTypes
    <3>6. Turns(ahead[waiters[i + 1]]) \in Nat
      BY <3>4, TurnsAdd
    <3>5. age[waiters[i + 1]] + Remaining(r) + Turns(i) <= Turns(ahead[waiters[i + 1]])
      BY <3>2, <3>3
    <3> QED BY <3>1, <3>3, <3>4, <3>5, <3>6
  <2>9. \A q \in Requests : phase'[q] = "replied" => age[q] <= Turns(ahead[q]) + Timeout
    BY <1>2, <2>b DEF WaitInv
  <2>10. \A q \in Requests : phase'[q] = "idle" => age[q] = 0
    BY <2>b DEF WaitInv
  <2>11. WaitInv'
    <3>1. \A q \in Requests : Inside(q)' => age'[q] + Remaining(q)' <= Turns(ahead'[q]) + Timeout
      BY <2>4, <2>6, <2>7
    <3>2. \A q \in Requests, i \in Positions(waiters)' : Inside(q)' =>
            age'[waiters'[i]] + Remaining(q)' + Turns(i - 1) <= Turns(ahead'[waiters'[i]])
      BY <2>4, <2>6, <2>8 DEF Positions
    <3> QED BY <2>9, <2>10, <3>1, <3>2 DEF WaitInv, Turns
  <2> QED BY <2>5, <2>11
<1> QED BY <1>4, <1>5

(* A tick makes everybody older and the one inside has less of its turn left.  *)
LEMMA TickKeepsLine ==
  ASSUME LoopInv, LineInv, WaitInv, Tick
  PROVE  LineInv' /\ WaitInv'
<1>1. /\ UNCHANGED <<phase, value, waiters, ahead, reply>>
      /\ age' = [q \in Requests |-> IF InFlight(q) THEN age[q] + 1 ELSE age[q]]
      /\ left' = [q \in Requests |-> IF phase[q] = "executing" THEN left[q] - 1 ELSE left[q]]
  BY DEF Tick
<1>2. \A q \in Requests : Inside(q) =>
        Remaining(q) \in Nat /\ Remaining(q)' = Remaining(q) - 1 /\ age'[q] = age[q] + 1
  BY <1>1, LineTypes DEF Tick, LoopDue, Inside, InFlight, Remaining
<1>3. \A i \in Positions(waiters) : age'[waiters[i]] = age[waiters[i]] + 1
  BY <1>1, LineTypes DEF LoopInv, SemaphoreInv, InFlight
<1>4. LineInv'
  BY <1>1 DEF LineInv, Positions
<1>5. \A q \in Requests : phase[q] \in {"idle", "replied"} => age'[q] = age[q]
  BY <1>1 DEF InFlight
<1>6. \A q \in Requests : Inside(q)' => age'[q] + Remaining(q)' <= Turns(ahead'[q]) + Timeout
  <2> SUFFICES ASSUME NEW q \in Requests, Inside(q)
               PROVE  age'[q] + Remaining(q)' <= Turns(ahead[q]) + Timeout
    BY <1>1 DEF Inside
  <2>1. age[q] + Remaining(q) <= Turns(ahead[q]) + Timeout
    BY DEF WaitInv
  <2>2. age[q] \in Nat /\ ahead[q] \in Nat /\ Timeout \in Nat
    BY LineTypes
  <2>3. Turns(ahead[q]) \in Nat
    BY <2>2, TurnsAdd
  <2> QED BY <1>2, <2>1, <2>2, <2>3
<1>7. \A q \in Requests, i \in Positions(waiters)' : Inside(q)' =>
        age'[waiters'[i]] + Remaining(q)' + Turns(i - 1) <= Turns(ahead'[waiters'[i]])
  <2> SUFFICES ASSUME NEW q \in Requests, NEW i \in Positions(waiters), Inside(q)
               PROVE  age'[waiters[i]] + Remaining(q)' + Turns(i - 1) <= Turns(ahead[waiters[i]])
    BY <1>1 DEF Inside, Positions
  <2>1. age[waiters[i]] + Remaining(q) + Turns(i - 1) <= Turns(ahead[waiters[i]])
    BY DEF WaitInv
  <2>2. age[waiters[i]] \in Nat /\ ahead[waiters[i]] \in Nat /\ i - 1 \in Nat
    BY LineTypes
  <2>3. Turns(i - 1) \in Nat /\ Turns(ahead[waiters[i]]) \in Nat
    BY <2>2, TurnsAdd
  <2> QED BY <1>2, <1>3, <2>1, <2>2, <2>3
<1>8. WaitInv'
  BY <1>1, <1>5, <1>6, <1>7 DEF WaitInv, Positions, Turns
<1> QED BY <1>4, <1>8

LEMMA LineInvStep ==
  ASSUME IInv, LineInv, WaitInv, [Next]_vars
  PROVE  LineInv' /\ WaitInv'
<1>1. LoopInv
  BY DEF IInv
<1>2. CASE Lifespan
  BY <1>2, LifespanLeavesLoop, UnchangedLine
<1>3. CASE \E r \in Requests : Handler(r)
  <2>1. PICK r \in Requests : Handler(r)
    BY <1>3
  <2>2. CASE Arrive(r)
    BY <1>1, <2>2, EnterKeepsLine, ParkKeepsLine
  <2>3. CASE Deliver(r) \/ TimeOut(r)
    <3>1. PICK s \in {200, 503} : Leave(r, s)
      BY <2>3 DEF Deliver, TimeOut
    <3>2. phase[r] = "executing" /\ UNCHANGED <<left, age, ahead>>
      BY <2>3 DEF Deliver, TimeOut
    <3> QED BY <1>1, <3>1, <3>2, LeaveKeepsLine
  <2> QED BY <1>1, <2>1, <2>2, <2>3, RejectKeepsLine, ResumeKeepsLine DEF Handler
<1>4. CASE \E w \in Workers : Worker(w)
  BY <1>4, WorkerLeavesLoop, UnchangedLine
<1>5. CASE Tick
  BY <1>1, <1>5, TickKeepsLine
<1>6. CASE Terminated \/ UNCHANGED vars
  BY <1>6, UnchangedLine DEF Terminated, vars
<1> QED BY <1>2, <1>3, <1>4, <1>5, <1>6 DEF Next

LEMMA LineInvariance == Spec => [](LineInv /\ WaitInv)
<1>1. Init => LineInv /\ WaitInv
  BY LineInvInit
<1>2. IInv /\ LineInv /\ WaitInv /\ [Next]_vars => LineInv' /\ WaitInv'
  BY LineInvStep
<1> QED BY <1>1, <1>2, Invariance, PTL DEF Spec

-------------------------------------------------------------------------------
(* Waiting.                                                                    *)

(* A request leaves the server within its own turn and one for each request    *)
(* that it found in front of it, for every number of requests and every        *)
(* timeout, whatever the worker does (app.py:162-195).                         *)
THEOREM WaitIsBounded == Spec => []BoundedWait
<1>1. IInv /\ LineInv /\ WaitInv => BoundedWait
  <2> SUFFICES ASSUME LoopInv, LineInv, WaitInv, NEW r \in Requests
               PROVE  age[r] <= Turns(ahead[r] + 1)
    BY DEF IInv, BoundedWait, Turns
  <2>1. /\ Turns(ahead[r] + 1) = Turns(ahead[r]) + Timeout /\ Turns(ahead[r]) \in Nat
        /\ age[r] \in Nat /\ Timeout \in Nat
    BY LineTypes, TurnsAdd
  <2>2. CASE phase[r] \in {"idle", "replied"}
    BY <2>1, <2>2 DEF WaitInv
  <2>3. CASE Inside(r)
    <3>1. age[r] + Remaining(r) <= Turns(ahead[r]) + Timeout
      BY <2>3 DEF WaitInv
    <3> QED BY <2>1, <3>1, LineTypes
  <2>4. CASE phase[r] = "queued"
    <3>1. PICK i \in Positions(waiters) : waiters[i] = r
      BY <2>4 DEF LineInv
    <3>2. PICK h \in Requests : Inside(h)
      BY <3>1, LineTypes, EmptySeq DEF LoopInv, SemaphoreInv, Positions
    <3>3. age[r] + Remaining(h) + Turns(i - 1) <= Turns(ahead[r])
      BY <3>1, <3>2 DEF WaitInv
    <3>4. Turns(i - 1) \in Nat
      BY LineTypes, TurnsAdd
    <3>5. Remaining(h) \in Nat
      BY LineTypes
    <3> DEFINE x == age[r]  y == Remaining(h)  z == Turns(i - 1)  t == Turns(ahead[r])  u == Turns(ahead[r] + 1)
    <3>6. /\ x \in Nat /\ y \in Nat /\ z \in Nat /\ t \in Nat /\ Timeout \in Nat
          /\ x + y + z <= t /\ u = t + Timeout
      BY <2>1, <3>3, <3>4, <3>5
    <3> HIDE DEF x, y, z, t, u
    <3>7. x <= u
      BY <3>6
    <3> QED BY <3>7 DEF x, u
  <2>5. phase[r] \in Phases
    BY LineTypes
  <2> QED BY <2>2, <2>3, <2>4, <2>5 DEF Phases, Inside
<1> QED BY <1>1, Invariance, LineInvariance, PTL

-------------------------------------------------------------------------------
(* The line of AnswerContract: the request inside, if any, then the parked.    *)

LEMMA ConsSeq ==
  ASSUME NEW S, NEW h \in S, NEW w \in Seq(S)
  PROVE  /\ <<h>> \o w \in Seq(S) /\ <<h>> \o w # <<>>
         /\ Len(<<h>> \o w) = Len(w) + 1
         /\ Head(<<h>> \o w) = h /\ Tail(<<h>> \o w) = w
         /\ \A i \in 1..Len(<<h>> \o w) : (<<h>> \o w)[i] = IF i = 1 THEN h ELSE w[i - 1]
         /\ \A e \in S : <<h>> \o Append(w, e) = Append(<<h>> \o w, e)
<1>1. /\ <<h>> \in Seq(S) /\ Len(<<h>>) = 1 /\ <<h>>[1] = h /\ Len(w) \in Nat
  OBVIOUS
<1>2. /\ <<h>> \o w \in Seq(S)
      /\ Len(<<h>> \o w) = Len(w) + 1
      /\ \A i \in 1..(Len(w) + 1) : (<<h>> \o w)[i] = IF i <= 1 THEN <<h>>[i] ELSE w[i - 1]
  BY <1>1, ConcatProperties
<1>3. \A i \in 1..(Len(w) + 1) : (<<h>> \o w)[i] = IF i = 1 THEN h ELSE w[i - 1]
  BY <1>1, <1>2
<1>4. <<h>> \o w # <<>>
  BY <1>1, <1>2, EmptySeq
<1>5. Head(<<h>> \o w) = h
  BY <1>1, <1>2, <1>3
<1>6. Tail(<<h>> \o w) = w
  <2> DEFINE c == <<h>> \o w
  <2>1. Tail(c) \in Seq(S) /\ Len(Tail(c)) = Len(w) /\ \A i \in 1..Len(Tail(c)) : Tail(c)[i] = c[i + 1]
    BY <1>1, <1>2, <1>4, HeadTailProperties
  <2>2. \A i \in 1..Len(w) : Tail(c)[i] = w[i]
    BY <1>1, <1>3, <2>1
  <2> QED BY <2>1, <2>2, SeqEqual
<1>7. ASSUME NEW e \in S PROVE <<h>> \o Append(w, e) = Append(<<h>> \o w, e)
  <2> DEFINE a == <<h>> \o Append(w, e)
             b == Append(<<h>> \o w, e)
  <2>1. /\ Append(w, e) \in Seq(S) /\ Len(Append(w, e)) = Len(w) + 1
        /\ \A i \in 1..Len(w) : Append(w, e)[i] = w[i]
        /\ Append(w, e)[Len(w) + 1] = e
    BY <1>1
  <2>2. /\ a \in Seq(S) /\ Len(a) = Len(w) + 2
        /\ \A i \in 1..(Len(w) + 2) : a[i] = IF i <= 1 THEN <<h>>[i] ELSE Append(w, e)[i - 1]
    BY <1>1, <2>1, ConcatProperties
  <2>3. /\ b \in Seq(S) /\ Len(b) = Len(w) + 2
        /\ \A i \in 1..(Len(w) + 1) : b[i] = (<<h>> \o w)[i]
        /\ b[Len(w) + 2] = e
    BY <1>1, <1>2
  <2> HIDE DEF a, b
  <2>4. \A i \in 1..Len(a) : a[i] = b[i]
    <3> SUFFICES ASSUME NEW i \in 1..Len(a) PROVE a[i] = b[i]
      OBVIOUS
    <3> DEFINE n == Len(w)
    <3>0. n \in Nat /\ i \in 1..(n + 2)
      BY <1>1, <2>2
    <3>1. CASE i = n + 2
      <4>1. a[i] = Append(w, e)[i - 1] /\ i - 1 = n + 1
        BY <2>2, <3>0, <3>1
      <4> QED BY <2>1, <2>3, <3>1, <4>1
    <3>2. CASE i # n + 2
      <4>1. i \in 1..(n + 1) /\ b[i] = (<<h>> \o w)[i]
        BY <2>3, <3>0, <3>2
      <4>2. CASE i = 1
        BY <1>1, <1>3, <2>2, <3>0, <4>1, <4>2
      <4>3. CASE i # 1
        <5>1. i - 1 \in 1..n /\ ~(i <= 1)
          BY <3>0, <4>1, <4>3
        <5>2. a[i] = w[i - 1]
          BY <2>1, <2>2, <3>0, <5>1
        <5> QED BY <1>3, <4>1, <5>1, <5>2
      <4> QED BY <4>2, <4>3
    <3> QED BY <3>1, <3>2
  <2>5. a = b
    BY <2>2, <2>3, <2>4, SeqEqual
  <2> QED BY <2>5 DEF a, b
<1> QED BY <1>1, <1>2, <1>3, <1>4, <1>5, <1>6, <1>7

(* How the line is put together, from the set of those inside.                 *)
LEMMA LineOf ==
  ASSUME NEW holders, NEW w
  PROVE  /\ holders = {} =>
              (IF holders = {} THEN <<>> ELSE <<CHOOSE r \in holders : TRUE>>) \o w = <<>> \o w
         /\ \A h : holders = {h} =>
              (IF holders = {} THEN <<>> ELSE <<CHOOSE r \in holders : TRUE>>) \o w = <<h>> \o w
OBVIOUS

LEMMA LineNow ==
  ASSUME LoopInv
  PROVE  /\ value = 1 => Line = <<>> /\ waiters = <<>> /\ Holders = {}
         /\ \A h \in Requests : Inside(h) => Line = <<h>> \o waiters /\ Holders = {h}
         /\ \A r \in Requests : phase[r] = "idle" => \A i \in 1..Len(Line) : Line[i] # r
<1>1. CASE value = 1
  <2>1. Holders = {} /\ waiters = <<>>
    BY <1>1 DEF LoopInv, SemaphoreInv, Holders, Inside
  <2>2. Line = <<>>
    BY <2>1, EmptySeq, ConcatEmptySeq DEF Line
  <2>3. \A h \in Requests : ~Inside(h)
    BY <2>1 DEF Holders, Inside
  <2> QED BY <2>1, <2>2, <2>3, EmptySeq
<1>2. CASE value = 0
  <2>1. PICK h \in Requests : Inside(h) /\ \A q \in Requests : Inside(q) => q = h
    BY <1>2 DEF LoopInv, SemaphoreInv
  <2>2. Holders = {h}
    BY <2>1 DEF Holders, Inside
  <2>3. Line = <<h>> \o waiters
    BY <2>2, LineOf DEF Line
  <2>4. waiters \in Seq(Requests) /\ Len(waiters) \in Nat
    BY DEF LoopInv, TypeOK
  <2>5. ASSUME NEW r \in Requests, phase[r] = "idle", NEW i \in 1..Len(Line)
        PROVE  Line[i] # r
    <3>1. i \in 1..(Len(waiters) + 1) /\ Line[i] = IF i = 1 THEN h ELSE waiters[i - 1]
      BY <2>3, <2>4, ConsSeq
    <3>2. CASE i = 1
      BY <2>1, <2>5, <3>1, <3>2 DEF Inside
    <3>3. CASE i # 1
      <4>1. i - 1 \in Positions(waiters)
        BY <2>4, <3>1, <3>3 DEF Positions
      <4> QED BY <2>5, <3>1, <3>3, <4>1 DEF LoopInv, SemaphoreInv
    <3> QED BY <3>2, <3>3
  <2> QED BY <1>2, <2>1, <2>2, <2>3, <2>5
<1>3. value = 0 \/ value = 1
  BY DEF LoopInv, TypeOK
<1> QED BY <1>1, <1>2, <1>3

LEMMA LineUnchanged ==
  ASSUME UNCHANGED <<waiters, reply>>, Holders' = Holders
  PROVE  UNCHANGED Contract!vars
BY DEF Contract!vars, Line

(* The head of the line leaves it and gets its answer.                         *)
LEMMA LeaveAnswers ==
  ASSUME LoopInv, NEW r \in Requests, phase[r] = "executing", NEW s \in {200, 503}, Leave(r, s)
  PROVE  Contract!AnswerHead
<1>1. /\ waiters \in Seq(Requests) /\ phase \in [Requests -> Phases]
  BY DEF LoopInv, TypeOK
<1>2. Line = <<r>> \o waiters /\ Holders = {r}
  BY LineNow DEF Inside
<1>3. Line # <<>> /\ Head(Line) = r /\ Tail(Line) = waiters
  BY <1>1, <1>2, ConsSeq
<1>4. Line' = waiters
  <2>1. CASE waiters = <<>>
    <3>1. waiters' = <<>> /\ phase' = [phase EXCEPT ![r] = "replied"]
      BY <2>1 DEF Leave
    <3>2. Holders' = {}
      BY <1>1, <1>2, <3>1 DEF Holders
    <3> QED BY <2>1, <3>1, <3>2, EmptySeq, ConcatEmptySeq DEF Line
  <2>2. CASE waiters # <<>>
    <3>1. PICK h \in Requests : h = Head(waiters)
      BY <1>1, <2>2, HeadTailProperties
    <3>2. /\ phase' = [phase EXCEPT ![r] = "replied", ![h] = "granted"]
          /\ waiters' = Tail(waiters)
      BY <2>2, <3>1 DEF Leave, Wake
    <3>3. h # r
      BY <1>1, <2>2, <3>1, EmptySeq DEF LoopInv, SemaphoreInv, Positions
    <3>4. \A q \in Requests :
            phase'[q] = IF q = h THEN "granted" ELSE IF q = r THEN "replied" ELSE phase[q]
      BY <1>1, <3>2
    <3>5. Holders' = {h}
      <4>1. \A q \in Requests : phase[q] \in {"granted", "executing"} => q = r
        BY <1>2 DEF Holders
      <4>2. \A q \in Requests : phase'[q] \in {"granted", "executing"} <=> q = h
        BY <3>3, <3>4, <4>1
      <4> QED BY <4>2 DEF Holders
    <3>6. Line' = <<h>> \o waiters'
      BY <3>5, LineOf DEF Line
    <3>7. <<h>> \o Tail(waiters) = waiters
      <4>1. /\ Tail(waiters) \in Seq(Requests) /\ Len(Tail(waiters)) = Len(waiters) - 1
            /\ \A i \in 1..Len(Tail(waiters)) : Tail(waiters)[i] = waiters[i + 1]
            /\ waiters[1] = h /\ Len(waiters) \in Nat
        BY <1>1, <2>2, <3>1, HeadTailProperties
      <4>2. /\ <<h>> \o Tail(waiters) \in Seq(Requests)
            /\ Len(<<h>> \o Tail(waiters)) = Len(Tail(waiters)) + 1
            /\ \A i \in 1..Len(<<h>> \o Tail(waiters)) :
                  (<<h>> \o Tail(waiters))[i] = IF i = 1 THEN h ELSE Tail(waiters)[i - 1]
        BY <4>1, ConsSeq
      <4>3. \A i \in 1..Len(<<h>> \o Tail(waiters)) : (<<h>> \o Tail(waiters))[i] = waiters[i]
        BY <4>1, <4>2
      <4> QED BY <1>1, <4>1, <4>2, <4>3, SeqEqual
    <3> QED BY <3>2, <3>6, <3>7
  <2> QED BY <2>1, <2>2
<1>5. reply' = [reply EXCEPT ![Head(Line)] = s]
  BY <1>3 DEF Leave
<1> QED BY <1>3, <1>4, <1>5 DEF Contract!AnswerHead, Contract!Answer

LEMMA ArriveAdmits ==
  ASSUME LoopInv, LineInv, NEW r \in Requests, Arrive(r)
  PROVE  Contract!Admit(r)
<1>1. /\ waiters \in Seq(Requests) /\ phase \in [Requests -> Phases] /\ value \in {0, 1}
      /\ phase[r] = "idle" /\ reply' = reply /\ reply[r] = 0
  BY DEF LoopInv, TypeOK, Arrive, LineInv
<1>2. \A i \in 1..Len(Line) : Line[i] # r
  BY <1>1, LineNow
<1>3. Line' = Append(Line, r)
  <2>1. CASE Unlocked
    <3>1. /\ value = 1 /\ waiters = <<>> /\ waiters' = <<>>
          /\ phase' = [phase EXCEPT ![r] = "executing"]
      BY <1>1, <2>1 DEF Arrive, Unlocked, Submit
    <3>2. Line = <<>> /\ Holders = {}
      BY <3>1, LineNow
    <3>3. Holders' = {r}
      BY <1>1, <3>1, <3>2 DEF Holders
    <3>4. Line' = <<r>> \o <<>>
      BY <3>1, <3>3, LineOf DEF Line
    <3>5. <<r>> \o <<>> = <<r>> /\ Append(<<>>, r) = <<r>>
      BY ConcatEmptySeq
    <3> QED BY <3>2, <3>4, <3>5
  <2>2. CASE ~Unlocked
    <3>1. phase' = [phase EXCEPT ![r] = "queued"] /\ waiters' = Append(waiters, r)
      BY <2>2 DEF Arrive
    <3>2. value = 0
      BY <1>1, <2>2 DEF Unlocked, LoopInv, SemaphoreInv
    <3>3. PICK h \in Requests : Inside(h)
      BY <3>2 DEF LoopInv, SemaphoreInv
    <3>4. Line = <<h>> \o waiters /\ Holders = {h}
      BY <3>3, LineNow
    <3>5. Holders' = {h}
      BY <1>1, <3>1, <3>4 DEF Holders
    <3>6. Line' = <<h>> \o Append(waiters, r)
      BY <3>1, <3>5, LineOf DEF Line
    <3> QED BY <1>1, <3>4, <3>6, ConsSeq
  <2> QED BY <2>1, <2>2
<1> QED BY <1>1, <1>2, <1>3 DEF Contract!Admit

LEMMA RejectRefuses ==
  ASSUME LoopInv, LineInv, NEW r \in Requests, Reject(r)
  PROVE  Contract!Refuse(r)
<1>1. /\ phase \in [Requests -> Phases] /\ phase[r] = "idle" /\ reply[r] = 0
      /\ phase' = [phase EXCEPT ![r] = "replied"] /\ reply' = [reply EXCEPT ![r] = 422]
      /\ waiters' = waiters
  BY DEF LoopInv, TypeOK, Reject, LineInv
<1>2. \A i \in 1..Len(Line) : Line[i] # r
  BY <1>1, LineNow
<1>3. Holders' = Holders
  BY <1>1 DEF Holders
<1>4. Line' = Line
  BY <1>1, <1>3 DEF Line
<1> QED BY <1>1, <1>2, <1>4 DEF Contract!Refuse

LEMMA StepImplementsContract ==
  ASSUME LoopInv, LineInv, [Next]_vars
  PROVE  [Contract!Next]_Contract!vars
<1>1. CASE UNCHANGED loopVars
  BY <1>1, LineUnchanged DEF loopVars, Holders
<1>2. CASE \E r \in Requests : Handler(r)
  <2>1. PICK r \in Requests : Handler(r)
    BY <1>2
  <2>2. CASE Reject(r)
    BY <2>2, RejectRefuses DEF Contract!Next
  <2>3. CASE Arrive(r)
    BY <2>3, ArriveAdmits DEF Contract!Next
  <2>4. CASE Resume(r)
    <3>1. Holders' = Holders /\ UNCHANGED <<waiters, reply>>
      BY <2>4 DEF Resume, Submit, Holders, LoopInv, TypeOK
    <3> QED BY <3>1, LineUnchanged
  <2>5. CASE Deliver(r) \/ TimeOut(r)
    <3>1. PICK s \in {200, 503} : Leave(r, s)
      BY <2>5 DEF Deliver, TimeOut
    <3>2. phase[r] = "executing"
      BY <2>5 DEF Deliver, TimeOut
    <3> QED BY <3>1, <3>2, LeaveAnswers DEF Contract!Next
  <2> QED BY <2>1, <2>2, <2>3, <2>4, <2>5 DEF Handler
<1>3. CASE Tick
  <2>1. Holders' = Holders /\ UNCHANGED <<waiters, reply>>
    BY <1>3 DEF Tick, Holders
  <2> QED BY <2>1, LineUnchanged
<1>4. CASE Lifespan \/ (\E w \in Workers : Worker(w)) \/ Terminated \/ UNCHANGED vars
  BY <1>1, <1>4, LifespanLeavesLoop, WorkerLeavesLoop DEF Terminated, vars
<1> QED BY <1>2, <1>3, <1>4 DEF Next

(* The server is the one line of AnswerContract for every number of requests:  *)
(* an admitted request joins its end, only its head is answered, once, and     *)
(* with 200 or 503.  That the line keeps moving is liveness, which the run     *)
(* checks (app.py:162-195).                                                    *)
ContractSteps == Contract!Init /\ [][Contract!Next]_(Contract!vars)

(* Every step of the server is a step of that line or leaves it alone, with    *)
(* the line read off the handlers (app.py:162-195).                            *)
THEOREM ServerIsOneLine == Spec => ContractSteps
<1>1. Init => Contract!Init
  <2> SUFFICES ASSUME Init PROVE Contract!Init
    OBVIOUS
  <2>1. Holders = {} /\ waiters = <<>>
    BY DEF Init, Holders
  <2>2. Line = <<>>
    BY <2>1, EmptySeq, ConcatEmptySeq DEF Line
  <2> QED BY <2>2 DEF Init, Contract!Init
<1>2. IInv /\ LineInv /\ [Next]_vars => [Contract!Next]_(Contract!vars)
  BY StepImplementsContract DEF IInv
<1> QED BY <1>1, <1>2, Invariance, LineInvariance, PTL DEF Spec, ContractSteps
===============================================================================
