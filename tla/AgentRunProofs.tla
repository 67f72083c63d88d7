---------------------------- MODULE AgentRunProofs ----------------------------
(* Proofs about AgentRun, and about its preflight routes (AgentRoutes), for    *)
(* every set of filings, every naming of the chains and every budget.          *)
EXTENDS AgentRoutes, FiniteSetTheorems, TLAPS

(* The preflight looks at the budget but for two calls; the planner's turn     *)
(* before a call is picked, so when it is made there is at most the listing in *)
(* front of it to pay for.                                                     *)
BudgetInv ==
  /\ toolCalls <= MaxToolCalls + 2
  /\ pc = "route" => toolCalls <= MaxToolCalls
  /\ pc = "pinned" => toolCalls <= MaxToolCalls + 1
  /\ pc = "call" => toolCalls <= MaxToolCalls

(* What is called is a call.                                                   *)
CallInv == pc = "call" => call \in Calls

(* A preflight draft is a run's first model call, every other draft comes by   *)
(* way of a check of the histories after which no evidence is added.           *)
HistoryInv ==
  /\ pc \in Routes => modelCalls = 0
  /\ pc = "final" /\ modelCalls > 0 => HistorySatisfied(evidence)
  /\ pc = "drafting" /\ modelCalls > 1 => HistorySatisfied(evidence)

(* Evidence is never lost between the preflight, which reads no statement, and *)
(* the end of the run.                                                         *)
EvidenceInv ==
  /\ pc \in Routes => statement # TRUE
  /\ pc \in {"history", "final", "drafting"} => evidence # {}
  /\ statement = TRUE => evidence # {}
  /\ CompletedOnEvidence

RunInv == AgentTypeOK /\ BudgetInv /\ CallInv /\ HistoryInv /\ EvidenceInv

Results == [outcome : Outcomes, evidence : SUBSET Filings, limits : SUBSET Limits]

LEMMA RunInvInit == Init => RunInv
<1> SUFFICES ASSUME Init PROVE RunInv
  OBVIOUS
<1>1. AgentTypeOK
  <2>1. modelCalls \in 0..MaxModelCalls /\ pending \in 0..MaxTurn /\ companies \in 0..MaxCompanies
    BY AgentAssumption DEF Init
  <2>2. pc \in Places /\ toolCalls \in Nat BY DEF Init, Places, Routes
  <2>3. statement \in BOOLEAN /\ basis \in BOOLEAN /\ expired \in BOOLEAN /\ lineageOk \in BOOLEAN
    BY Zenon DEF Init
  <2>4. result \in {NoResult} \cup Results BY DEF Init
  <2> QED BY <2>1, <2>2, <2>3, <2>4 DEF Init, AgentTypeOK, Results
<1>2. BudgetInv BY AgentAssumption DEF Init, BudgetInv
<1>3. HistoryInv BY DEF Init, HistoryInv, Routes
<1>4. EvidenceInv BY DEF Init, EvidenceInv, CompletedOnEvidence, NoResult, Routes
<1> QED BY <1>1, <1>2, <1>3, <1>4 DEF RunInv, CallInv, Init

-------------------------------------------------------------------------------
(* The ends of a run.                                                          *)

Stops ==
  /\ pc' = "done"
  /\ result' \in Results
  /\ result'.outcome = "completed" => result'.evidence # {}
  /\ UNCHANGED <<knowledge, turn, world>>

LEMMA ReturnStops ==
  ASSUME NEW o \in Outcomes, NEW found \in SUBSET Filings, NEW known \in SUBSET Limits,
         o = "completed" => found # {}, Return(o, found, known)
  PROVE  Stops
BY DEF Return, Stops, Results

LEMMA FinishStops ==
  ASSUME NEW o \in Outcomes \ {"completed"}, NEW found \in SUBSET Filings,
         NEW known \in SUBSET Limits, Finish(o, found, known)
  PROVE  Stops
<1>1. Kept(o, found, known) \in SUBSET Filings BY DEF Kept
<1>2. CASE Return(o, Kept(o, found, known), known) BY <1>1, <1>2, ReturnStops
<1>3. CASE Return("failed_closed", {}, known) BY <1>3, ReturnStops DEF Outcomes
<1> QED BY <1>2, <1>3 DEF Finish

LEMMA GiveUpStops ==
  ASSUME AgentTypeOK, NEW known \in SUBSET Limits, GiveUp(known)
  PROVE  Stops
<1>1. evidence \in SUBSET Filings /\ limits \cup known \in SUBSET Limits BY DEF AgentTypeOK
<1> QED BY <1>1, FinishStops DEF GiveUp, Outcomes

LEMMA FailClosedStops == ASSUME AgentTypeOK, FailClosed PROVE Stops
<1>1. evidence \in SUBSET Filings /\ limits \in SUBSET Limits BY DEF AgentTypeOK
<1> QED BY <1>1, FinishStops DEF FailClosed, Outcomes

LEMMA PreflightAnswerStops ==
  ASSUME AgentTypeOK, NEW known \in SUBSET Limits, PreflightAnswer(known)
  PROVE  Stops
<1>1. limits \cup known \in SUBSET Limits BY DEF AgentTypeOK
<1>2. PICK o \in Outcomes, kept \in SUBSET Filings :
        (o = "completed" => kept # {}) /\ Return(o, kept, limits \cup known)
  BY DEF PreflightAnswer
<1> QED BY <1>1, <1>2, ReturnStops

LEMMA DispatchStops ==
  ASSUME AgentTypeOK, DispatchEndsRun
  PROVE  Stops /\ toolCalls' = toolCalls + 1 /\ modelCalls' = modelCalls
<1>1. {} \in SUBSET Filings /\ limits \cup {"tool_dispatch_failed"} \in SUBSET Limits
  BY DEF AgentTypeOK, Limits
<1>2. CASE FailClosed BY <1>2, FailClosedStops DEF DispatchEndsRun
<1>3. CASE Finish("information_limit", {}, limits \cup {"tool_dispatch_failed"})
  BY <1>1, <1>3, FinishStops DEF DispatchEndsRun, Outcomes
<1> QED BY <1>2, <1>3 DEF DispatchEndsRun

LEMMA StopKeepsRunInv ==
  ASSUME RunInv, Stops, modelCalls' = modelCalls,
         toolCalls' = toolCalls \/ toolCalls' = toolCalls + 1,
         toolCalls' <= MaxToolCalls + 2
  PROVE  RunInv'
<1> USE DEF RunInv, Stops, knowledge, turn, world
<1>1. AgentTypeOK' BY DEF AgentTypeOK, Places, Routes, Results
<1>2. BudgetInv' BY DEF BudgetInv
<1>3. HistoryInv' BY DEF HistoryInv, Routes
<1>4. EvidenceInv' BY DEF EvidenceInv, CompletedOnEvidence, Routes
<1> QED BY <1>1, <1>2, <1>3, <1>4 DEF CallInv

(* A call that ends the run.                                                   *)
LEMMA DispatchEndKeepsRunInv ==
  ASSUME RunInv, ToolBudgetLeft \/ pc \in {"route", "pinned", "call"}, DispatchEndsRun
  PROVE  RunInv'
<1>1. Stops /\ toolCalls' = toolCalls + 1 /\ modelCalls' = modelCalls
  BY DispatchStops DEF RunInv
<1>2. toolCalls' <= MaxToolCalls + 2
  BY <1>1, AgentAssumption DEF RunInv, BudgetInv, ToolBudgetLeft, AgentTypeOK
<1> QED BY <1>1, <1>2, StopKeepsRunInv

(* An end that costs nothing.                                                  *)
LEMMA FreeEndKeepsRunInv ==
  ASSUME RunInv, Stops, UNCHANGED budget
  PROVE  RunInv'
BY StopKeepsRunInv DEF RunInv, BudgetInv, budget

-------------------------------------------------------------------------------
(* The steps after which a run goes on.                                        *)

Quiet == Routes \cup {"plan", "asked", "turn", "call", "event", "companies",
          "fallback", "search", "fanout", "history"}

(* A step that goes on to p, where no draft is due, with no less evidence.     *)
LEMMA AdvanceKeepsRunInv ==
  ASSUME RunInv, AgentTypeOK', NEW p \in Quiet, pc' = p,
         UNCHANGED result,
         p \in Routes => modelCalls' = 0 /\ statement' # TRUE,
         toolCalls' <= MaxToolCalls + 2,
         p = "route" => toolCalls' <= MaxToolCalls,
         p = "pinned" => toolCalls' <= MaxToolCalls + 1,
         p = "call" => toolCalls' <= MaxToolCalls /\ call' \in Calls,
         evidence \subseteq evidence',
         p = "history" => evidence' # {},
         statement' = TRUE => statement = TRUE \/ evidence' # {}
  PROVE  RunInv'
<1> USE DEF RunInv, Quiet, Routes, Routes
<1>1. BudgetInv' BY DEF BudgetInv
<1>2. HistoryInv' BY DEF HistoryInv
<1>3. EvidenceInv' BY DEF EvidenceInv, CompletedOnEvidence
<1> QED BY <1>1, <1>2, <1>3 DEF CallInv

TurnTypeOK ==
  /\ pending \in 0..MaxTurn
  /\ call \in Calls \cup {NoCall}
  /\ seen \in SUBSET Calls
  /\ reusable \in SUBSET Calls
  /\ listed \in SUBSET Reads
  /\ statement \in BOOLEAN
  /\ companies \in 0..MaxCompanies

LEMMA TurnTypeKept == AgentTypeOK => TurnTypeOK /\ (UNCHANGED turn => TurnTypeOK')
BY DEF AgentTypeOK, TurnTypeOK, turn

(* A tool call after which the run goes on at p.                               *)
LEMMA AnyCallKeepsRunInv ==
  ASSUME RunInv,
         NEW p \in Quiet, NEW found \in SUBSET Filings,
         \/ Raised(p) \/ ToolError(p) \/ Unused(p)
         \/ Found(found, p) /\ histories' \in SUBSET Corrections,
         TurnTypeOK',
         \/ ToolBudgetLeft
         \/ pc = "call" /\ p \notin Routes \cup {"call"}
         \/ pc = "route" /\ p = "pinned"
         \/ pc = "pinned" /\ p = "named",
         p \in Routes => pc \in Routes /\ statement' = statement, p = "call" => call' \in Calls,
         p = "history" => evidence' # {},
         statement' = TRUE => statement = TRUE \/ evidence' # {}
  PROVE  RunInv'
<1>1. /\ pc' = p /\ toolCalls' = toolCalls + 1 /\ modelCalls' = modelCalls
      /\ result' = result /\ UNCHANGED world /\ evidence \subseteq evidence'
  BY DEF Raised, ToolError, Found, Unused, knowledge
<1>2. /\ evidence' \in SUBSET Filings /\ histories' \in SUBSET Corrections
      /\ limits' \in SUBSET Limits
  BY DEF Raised, ToolError, Found, Unused, knowledge, RunInv, AgentTypeOK, Limits
<1>3. AgentTypeOK'
  <2>1. pc' \in Places /\ toolCalls' \in Nat BY <1>1 DEF RunInv, AgentTypeOK, Places, Quiet, Routes
  <2> QED BY <1>1, <1>2, <2>1 DEF RunInv, AgentTypeOK, TurnTypeOK, world
<1>4. /\ toolCalls' <= MaxToolCalls + 2
      /\ p = "call" => toolCalls' <= MaxToolCalls
      /\ p = "route" => toolCalls' <= MaxToolCalls
      /\ p = "pinned" => toolCalls' <= MaxToolCalls + 1
  BY <1>1, AgentAssumption DEF RunInv, BudgetInv, ToolBudgetLeft, AgentTypeOK, Routes
<1>5. p \in Routes => modelCalls' = 0 /\ statement' # TRUE
  BY <1>1 DEF RunInv, HistoryInv, EvidenceInv
<1> QED BY <1>1, <1>3, <1>4, <1>5, AdvanceKeepsRunInv

(* A call after the preflight.                                                 *)
LEMMA CallKeepsRunInv ==
  ASSUME RunInv, ToolBudgetLeft \/ pc = "call",
         NEW p \in Quiet \ Routes, NEW found \in SUBSET Filings,
         Raised(p) \/ ToolError(p) \/ (Found(found, p) /\ histories' \in SUBSET Corrections),
         TurnTypeOK',
         p = "call" => pc # "call" /\ call' \in Calls,
         p = "history" => evidence' # {},
         statement' = TRUE => statement = TRUE \/ evidence' # {}
  PROVE  RunInv'
BY AnyCallKeepsRunInv

(* A step that calls nothing and goes on at p.                                 *)
LEMMA GotoKeepsRunInv ==
  ASSUME RunInv, NEW p \in Quiet \ Routes, Goto(p), TurnTypeOK',
         p = "call" => ToolBudgetLeft /\ call' \in Calls,
         p = "history" => evidence # {},
         statement' = TRUE => statement = TRUE
  PROVE  RunInv'
<1>1. pc' = p /\ UNCHANGED <<budget, knowledge, world, result>> BY DEF Goto
<1>2. AgentTypeOK' BY <1>1 DEF RunInv, AgentTypeOK, TurnTypeOK, Places, Quiet, Routes, budget, knowledge, world
<1>3. toolCalls' <= MaxToolCalls + 2 /\ (p = "call" => toolCalls' <= MaxToolCalls)
  BY <1>1, AgentAssumption DEF RunInv, BudgetInv, ToolBudgetLeft, AgentTypeOK, budget
<1> QED BY <1>1, <1>2, <1>3, AdvanceKeepsRunInv DEF knowledge, Routes

LEMMA GotoFinalKeepsRunInv ==
  ASSUME RunInv, Goto("final"), UNCHANGED turn, evidence # {},
         modelCalls > 0 => HistorySatisfied(evidence)
  PROVE  RunInv'
<1>1. pc' = "final" /\ UNCHANGED <<budget, knowledge, turn, world, result>> BY DEF Goto
<1> USE DEF RunInv, budget, knowledge, turn, world
<1>2. AgentTypeOK' BY <1>1 DEF AgentTypeOK, Places, Routes
<1>3. BudgetInv' BY <1>1 DEF BudgetInv
<1>4. HistoryInv' BY <1>1 DEF HistoryInv, HistorySatisfied, Routes
<1>5. EvidenceInv' BY <1>1 DEF EvidenceInv, CompletedOnEvidence, Routes
<1> QED BY <1>1, <1>2, <1>3, <1>4, <1>5 DEF CallInv

LEMMA GiveUpKeepsRunInv ==
  ASSUME RunInv, NEW known \in SUBSET Limits, GiveUp(known), UNCHANGED budget
  PROVE  RunInv'
BY GiveUpStops, FreeEndKeepsRunInv DEF RunInv

LEMMA FailClosedKeepsRunInv ==
  ASSUME RunInv, FailClosed, UNCHANGED budget
  PROVE  RunInv'
BY FailClosedStops, FreeEndKeepsRunInv DEF RunInv

LEMMA ReturnKeepsRunInv ==
  ASSUME RunInv, NEW o \in Outcomes, NEW found \in SUBSET Filings, NEW known \in SUBSET Limits,
         o = "completed" => found # {}, Return(o, found, known), UNCHANGED budget
  PROVE  RunInv'
BY ReturnStops, FreeEndKeepsRunInv

-------------------------------------------------------------------------------
(* The actions.                                                                *)

(* A preflight call that looks at the budget, or one of the two that do not.   *)
LEMMA PreflightResultKeepsRunInv ==
  ASSUME RunInv, NEW p \in Routes, pc \in Routes, PreflightResult(p),
         \/ ToolBudgetLeft
         \/ pc = "route" /\ p = "pinned"
         \/ pc = "pinned" /\ p = "named"
  PROVE  RunInv'
<1>0. AgentTypeOK /\ p \in Quiet /\ p \notin {"call", "history"} /\ {} \in SUBSET Filings
  BY DEF RunInv, Quiet, Routes
<1>1. Remember => TurnTypeOK' /\ UNCHANGED statement
  <2> SUFFICES ASSUME Remember PROVE TurnTypeOK' /\ UNCHANGED statement
    OBVIOUS
  <2>1. reusable' \in SUBSET Calls BY <1>0 DEF Remember, AgentTypeOK, Calls
  <2>2. statement' \in BOOLEAN BY <1>0, Zenon DEF Remember, AgentTypeOK
  <2> QED BY <1>0, <2>1, <2>2 DEF Remember, AgentTypeOK, TurnTypeOK
<1>2. UNCHANGED turn => TurnTypeOK' /\ UNCHANGED statement BY <1>0, TurnTypeKept DEF turn
<1>3. CASE PreflightCallEnds
  <2>1. Stops /\ toolCalls' = toolCalls + 1 /\ modelCalls' = modelCalls
    BY <1>0, <1>3, PreflightAnswerStops DEF PreflightCallEnds, Limits
  <2>2. toolCalls' <= MaxToolCalls + 2
    BY <2>1, AgentAssumption DEF RunInv, BudgetInv, ToolBudgetLeft, AgentTypeOK
  <2> QED BY <2>1, <2>2, StopKeepsRunInv
<1>4. CASE (Raised(p) \/ Unused(p)) /\ UNCHANGED turn BY <1>0, <1>2, <1>4, AnyCallKeepsRunInv
<1>5. CASE ToolError(p) /\ Remember BY <1>0, <1>1, <1>5, AnyCallKeepsRunInv
<1>6. ASSUME NEW found \in SUBSET Filings, Found(found, p), Remember, UNCHANGED histories
      PROVE  RunInv'
  <2>1. histories' \in SUBSET Corrections BY <1>0, <1>6 DEF AgentTypeOK
  <2> QED BY <1>0, <1>1, <1>6, <2>1, AnyCallKeepsRunInv
<1> QED BY <1>3, <1>4, <1>5, <1>6 DEF PreflightResult

LEMMA PreflightKeepsRunInv == RunInv /\ Preflight => RunInv'
<1> SUFFICES ASSUME RunInv, Preflight PROVE RunInv'
  OBVIOUS
<1>0. AgentTypeOK /\ "plan" \in Quiet \ Routes BY DEF RunInv, Quiet, Routes
<1>1. CASE PreflightCall \/ UncheckedCall
  BY <1>1, PreflightResultKeepsRunInv DEF PreflightCall, UncheckedCall, Routes
<1>2. CASE PreflightEnds
  <2>1. Stops BY <1>0, <1>2, PreflightAnswerStops DEF PreflightEnds, Limits
  <2> QED BY <1>2, <2>1, FreeEndKeepsRunInv DEF PreflightEnds
<1>3. CASE PreflightPasses
  <2>1. CASE evidence # {} /\ Goto("final")
    <3>1. modelCalls = 0 BY <1>3 DEF PreflightPasses, RunInv, HistoryInv
    <3> QED BY <1>3, <2>1, <3>1, GotoFinalKeepsRunInv DEF PreflightPasses
  <2>2. CASE Goto("plan")
    <3>1. TurnTypeOK' /\ statement' = statement BY <1>0, <1>3, TurnTypeKept DEF PreflightPasses, turn
    <3> QED BY <1>0, <2>2, <3>1, GotoKeepsRunInv
  <2> QED BY <1>3, <2>1, <2>2 DEF PreflightPasses
<1> QED BY <1>1, <1>2, <1>3 DEF Preflight

LEMMA SelectionKeepsRunInv == RunInv /\ PreflightSelects => RunInv'
<1> SUFFICES ASSUME RunInv, PreflightSelects PROVE RunInv'
  OBVIOUS
<1>1. /\ evidence' \in SUBSET Filings /\ pc' = pc /\ pc \in Routes
      /\ UNCHANGED <<budget, histories, limits, turn, world, result>>
  BY DEF PreflightSelects
<1> USE DEF RunInv, budget, turn, world
<1>2. AgentTypeOK' BY <1>1 DEF AgentTypeOK
<1>3. BudgetInv' /\ CallInv' BY <1>1 DEF BudgetInv, CallInv
<1>4. HistoryInv' BY <1>1 DEF HistoryInv, Routes
<1>5. EvidenceInv' BY <1>1 DEF EvidenceInv, CompletedOnEvidence, Routes
<1> QED BY <1>2, <1>3, <1>4, <1>5

LEMMA PlannerKeepsRunInv == RunInv /\ Planner => RunInv'
<1> SUFFICES ASSUME RunInv, Planner PROVE RunInv'
  OBVIOUS
<1>0. /\ AgentTypeOK
      /\ \A p \in {"turn", "history", "fallback", "asked"} : p \in Quiet \ Routes
      /\ {} \in SUBSET Limits /\ {"deadline_exhausted"} \in SUBSET Limits
      /\ {"model_gateway_failed"} \in SUBSET Limits
  BY DEF RunInv, Quiet, Routes, Limits
<1>1. CASE AskPlanner
  <2>1. /\ pc' = "asked" /\ UNCHANGED <<toolCalls, knowledge, turn, world, result>>
        /\ modelCalls' \in 0..MaxModelCalls
    BY <1>0, <1>1, AgentAssumption DEF AskPlanner, CountModelCall, ModelBudgetLeft, AgentTypeOK
  <2>2. AgentTypeOK' BY <1>0, <2>1 DEF AgentTypeOK, Places, Routes, knowledge, turn, world
  <2>3. toolCalls' <= MaxToolCalls + 2 BY <2>1 DEF RunInv, BudgetInv
  <2> QED BY <1>0, <2>1, <2>2, <2>3, AdvanceKeepsRunInv DEF knowledge, turn
<1>2. CASE PlannerNotAsked
  BY <1>0, <1>2, FailClosedKeepsRunInv, GiveUpKeepsRunInv DEF PlannerNotAsked
<1>3. CASE PlannerFails
  BY <1>0, <1>3, FailClosedKeepsRunInv, GiveUpKeepsRunInv DEF PlannerFails
<1>4. CASE PlannerCallsTools
  <2>0. statement' \in BOOLEAN BY <1>4, Zenon DEF PlannerCallsTools
  <2>1. TurnTypeOK' BY <1>0, <1>4, <2>0 DEF PlannerCallsTools, TurnTypeOK, AgentTypeOK
  <2>2. Goto("turn") /\ statement' = FALSE BY <1>4 DEF PlannerCallsTools
  <2> QED BY <1>0, <2>1, <2>2, GotoKeepsRunInv
<1>5. CASE PlannerStops
  <2>1. UNCHANGED turn => TurnTypeOK' /\ statement' = statement BY <1>0, TurnTypeKept DEF turn
  <2>2. CASE evidence # {} /\ Goto("history") /\ UNCHANGED turn
    BY <1>0, <2>1, <2>2, GotoKeepsRunInv
  <2>3. CASE Goto("fallback") /\ UNCHANGED turn BY <1>0, <2>1, <2>3, GotoKeepsRunInv
  <2>4. CASE GiveUp({}) /\ UNCHANGED budget BY <1>0, <2>4, GiveUpKeepsRunInv
  <2> QED BY <1>5, <2>2, <2>3, <2>4 DEF PlannerStops
<1> QED BY <1>1, <1>2, <1>3, <1>4, <1>5 DEF Planner

LEMMA PickCallTyped ==
  ASSUME AgentTypeOK, NEW c \in Calls, PickCall(c), listed' \in SUBSET Reads
  PROVE  TurnTypeOK' /\ UNCHANGED statement /\ call' \in Calls /\ ToolBudgetLeft /\ pc = "turn"
<1>1. pending' \in 0..MaxTurn BY AgentAssumption DEF PickCall, AgentTypeOK
<1>2. call' \in Calls /\ UNCHANGED statement /\ ToolBudgetLeft /\ pc = "turn" BY DEF PickCall
<1>3. seen' \in SUBSET Calls /\ reusable' \in SUBSET Calls /\ companies' \in 0..MaxCompanies
  BY DEF PickCall, AgentTypeOK
<1>4. statement' \in BOOLEAN BY <1>2, Zenon DEF AgentTypeOK
<1> QED BY <1>1, <1>2, <1>3, <1>4 DEF TurnTypeOK

LEMMA ListSectionsKeepsRunInv ==
  ASSUME RunInv, NEW c \in Calls, ListSections(c)
  PROVE  RunInv'
<1>0. /\ AgentTypeOK /\ "call" \in Quiet \ Routes /\ {} \in SUBSET Filings /\ c \in Reads
  BY DEF ListSections, NeedsSections, RunInv, Quiet, Routes
<1>1. CASE PickCall(c) /\ (Raised("call") \/ ToolError("call")) /\ UNCHANGED listed
  <2>1. listed' \in SUBSET Reads BY <1>0, <1>1 DEF AgentTypeOK
  <2> QED BY <1>0, <1>1, <2>1, PickCallTyped, CallKeepsRunInv
<1>2. CASE PickCall(c) /\ Found({}, "call") /\ UNCHANGED histories /\ listed' \in {listed, listed \cup {c}}
  <2>1. listed' \in SUBSET Reads /\ histories' \in SUBSET Corrections BY <1>0, <1>2 DEF AgentTypeOK
  <2> QED BY <1>0, <1>2, <2>1, PickCallTyped, CallKeepsRunInv
<1>3. CASE ToolBudgetLeft /\ DispatchEndsRun BY <1>3, DispatchEndKeepsRunInv
<1> QED BY <1>1, <1>2, <1>3 DEF ListSections

LEMMA TakeCallKeepsRunInv ==
  ASSUME RunInv, NEW c \in Calls, TakeCall(c)
  PROVE  RunInv'
<1>1. /\ AgentTypeOK /\ "call" \in Quiet \ Routes /\ listed' \in SUBSET Reads
      /\ PickCall(c) /\ Goto("call")
  BY DEF TakeCall, RunInv, AgentTypeOK, Quiet, Routes
<1> QED BY <1>1, PickCallTyped, GotoKeepsRunInv

LEMMA DispatchCallKeepsRunInv == RunInv /\ DispatchCall => RunInv'
<1> SUFFICES ASSUME RunInv, DispatchCall PROVE RunInv'
  OBVIOUS
<1>0. /\ AgentTypeOK /\ pc = "call" /\ {} \in SUBSET Filings
      /\ \A p \in {"turn", "event", "companies"} : p \in Quiet \ Routes
      /\ call \in Calls
  BY DEF RunInv, DispatchCall, Quiet, Routes, CallInv
<1>1. CASE DispatchEndsRun BY <1>0, <1>1, DispatchEndKeepsRunInv
<1>2. ASSUME Dispatched, UNCHANGED <<pending, call>>
      PROVE  /\ pending' \in 0..MaxTurn /\ call' \in Calls \cup {NoCall} /\ seen' \in SUBSET Calls
  BY <1>0, <1>2 DEF Dispatched, AgentTypeOK
<1>3. CASE /\ Raised("turn") \/ ToolError("turn")
           /\ Dispatched
           /\ UNCHANGED <<pending, call, reusable, listed, statement, companies>>
  <2>1. TurnTypeOK' BY <1>0, <1>2, <1>3 DEF AgentTypeOK, TurnTypeOK
  <2> QED BY <1>0, <1>3, <2>1, CallKeepsRunInv
<1>4. CASE Learn /\ Dispatched /\ UNCHANGED <<pending, call>>
  <2>1. CASE LearnSum
    <3>1. TurnTypeOK' /\ histories' \in SUBSET Corrections /\ statement' = statement
      BY <1>0, <1>2, <1>4, <2>1, AgentAssumption DEF LearnSum, AgentTypeOK, TurnTypeOK, Calls
    <3> QED BY <1>0, <2>1, <3>1, CallKeepsRunInv DEF LearnSum
  <2>2. ASSUME NEW found \in SUBSET Filings, LearnHistory(found) PROVE RunInv'
    <3>1. TurnTypeOK' /\ histories' \in SUBSET Corrections /\ statement' = statement
      BY <1>0, <1>2, <1>4, <2>2, AgentAssumption DEF LearnHistory, AgentTypeOK, TurnTypeOK, Calls
    <3> QED BY <1>0, <2>2, <3>1, CallKeepsRunInv DEF LearnHistory
  <2>3. ASSUME NEW found \in SUBSET Filings, LearnSection(found) PROVE RunInv'
    <3>1. TurnTypeOK' /\ histories' \in SUBSET Corrections
      BY <1>0, <1>2, <1>4, <2>3, AgentAssumption DEF LearnSection, AgentTypeOK, TurnTypeOK, Calls
    <3>2. statement' = TRUE => statement = TRUE \/ evidence' # {}
      BY <2>3 DEF LearnSection, Found
    <3> QED BY <1>0, <2>3, <3>1, <3>2, CallKeepsRunInv DEF LearnSection
  <2>4. ASSUME NEW found \in SUBSET Filings, LearnLookup(found) PROVE RunInv'
    <3>1. listed' \in SUBSET Reads /\ companies' \in 0..MaxCompanies
      BY <1>0, <2>4 DEF LearnLookup, AgentTypeOK
    <3>2. TurnTypeOK' /\ histories' \in SUBSET Corrections /\ statement' = statement
      BY <1>0, <1>2, <1>4, <2>4, <3>1, AgentAssumption DEF LearnLookup, AgentTypeOK, TurnTypeOK, Calls
    <3>3. PICK p \in {"turn", "event", "companies"} : Found(found, p) BY <2>4 DEF LearnLookup
    <3> QED BY <1>0, <3>2, <3>3, CallKeepsRunInv
  <2> QED BY <1>4, <2>1, <2>2, <2>3, <2>4 DEF Learn
<1> QED BY <1>1, <1>3, <1>4 DEF DispatchCall

(* A call of a turn that is not made.                                          *)
LEMMA SpareCallKeepsRunInv == RunInv /\ (SpareCall \/ RejectCall \/ RefuseCall) => RunInv'
<1> SUFFICES ASSUME RunInv, SpareCall \/ RejectCall \/ RefuseCall PROVE RunInv'
  OBVIOUS
<1>0. /\ AgentTypeOK /\ "turn" \in Quiet \ Routes
      /\ {} \in SUBSET Limits /\ {"deadline_exhausted"} \in SUBSET Limits
  BY DEF RunInv, Quiet, Routes, Limits
<1>1. CASE SpareCall
  <2>1. Goto("turn") /\ TurnTypeOK' /\ UNCHANGED statement
    BY <1>0, <1>1, TurnTypeKept DEF SpareCall, turn
  <2> QED BY <1>0, <2>1, GotoKeepsRunInv
<1>2. CASE RejectCall BY <1>0, <1>2, GiveUpKeepsRunInv DEF RejectCall
<1>3. CASE RefuseCall BY <1>0, <1>3, GiveUpKeepsRunInv DEF RefuseCall
<1> QED BY <1>1, <1>2, <1>3

LEMMA QueryEventsKeepsRunInv == RunInv /\ QueryEvents => RunInv'
<1> SUFFICES ASSUME RunInv, QueryEvents PROVE RunInv'
  OBVIOUS
<1>0. AgentTypeOK /\ "turn" \in Quiet \ Routes /\ {} \in SUBSET Filings BY DEF RunInv, Quiet, Routes
<1>1. UNCHANGED turn => TurnTypeOK' /\ UNCHANGED statement BY <1>0, TurnTypeKept DEF turn
<1>2. CASE Goto("turn") /\ UNCHANGED turn BY <1>0, <1>1, <1>2, GotoKeepsRunInv
<1>3. CASE ToolBudgetLeft /\ DispatchEndsRun BY <1>3, DispatchEndKeepsRunInv
<1>4. CASE ToolBudgetLeft /\ Raised("turn") /\ UNCHANGED turn
  BY <1>0, <1>1, <1>4, CallKeepsRunInv
<1>5. ASSUME ToolBudgetLeft, NEW found \in SUBSET Filings, NEW key \in Lookups \ reusable,
             (Found(found, "turn") /\ UNCHANGED histories) \/ ToolError("turn"),
             reusable' = reusable \cup {key},
             UNCHANGED <<pending, call, seen, listed, statement, companies>>
      PROVE  RunInv'
  <2>1. reusable' \in SUBSET Calls BY <1>0, <1>5 DEF AgentTypeOK, Calls
  <2>2. statement' \in BOOLEAN BY <1>0, <1>5, Zenon DEF AgentTypeOK
  <2>3. TurnTypeOK' BY <1>0, <1>5, <2>1, <2>2 DEF AgentTypeOK, TurnTypeOK
  <2>4. UNCHANGED histories => histories' \in SUBSET Corrections BY <1>0 DEF AgentTypeOK
  <2> QED BY <1>0, <1>5, <2>3, <2>4, CallKeepsRunInv
<1> QED BY <1>2, <1>3, <1>4, <1>5 DEF QueryEvents

LEMMA CompaniesKeepRunInv == RunInv /\ (SearchCompany \/ LeaveCompanies) => RunInv'
<1> SUFFICES ASSUME RunInv, SearchCompany \/ LeaveCompanies PROVE RunInv'
  OBVIOUS
<1>0. /\ AgentTypeOK /\ {"turn", "history"} \subseteq Quiet \ Routes
      /\ {"companies", "fanout"} \subseteq Quiet \ (Routes \cup {"call", "history"})
      /\ {} \in SUBSET Filings /\ {} \in SUBSET Limits
  BY DEF RunInv, Quiet, Routes
<1>1. CASE SearchCompany
  <2>1. CASE DispatchEndsRun BY <1>1, <2>1, DispatchEndKeepsRunInv DEF SearchCompany
  <2>2. CASE /\ Raised(pc) \/ \E found \in SUBSET Filings : (Found(found, pc) /\ UNCHANGED histories)
             /\ companies' = companies - 1
             /\ UNCHANGED <<pending, call, seen, reusable, listed, statement>>
    <3>1. companies' \in 0..MaxCompanies
      BY <1>0, <1>1, <2>2, AgentAssumption DEF SearchCompany, AgentTypeOK
    <3>2. statement' \in BOOLEAN BY <1>0, <2>2, Zenon DEF AgentTypeOK
    <3>3. TurnTypeOK' BY <1>0, <2>2, <3>1, <3>2 DEF AgentTypeOK, TurnTypeOK
    <3>4. UNCHANGED histories => histories' \in SUBSET Corrections BY <1>0 DEF AgentTypeOK
    <3>5. pc \in {"companies", "fanout"} /\ ToolBudgetLeft BY <1>1 DEF SearchCompany
    <3>6. pc \in Quiet /\ pc \notin Routes /\ pc # "call" /\ pc # "history" BY <1>0, <3>5
    <3> QED BY <1>0, <2>2, <3>3, <3>4, <3>5, <3>6, CallKeepsRunInv
  <2> QED BY <1>1, <2>1, <2>2 DEF SearchCompany
<1>2. CASE LeaveCompanies
  <2>1. UNCHANGED turn => TurnTypeOK' /\ UNCHANGED statement BY <1>0, TurnTypeKept DEF turn
  <2>2. CASE Goto("turn") /\ UNCHANGED turn BY <1>0, <2>1, <2>2, GotoKeepsRunInv
  <2>3. CASE evidence # {} /\ Goto("history") /\ UNCHANGED turn BY <1>0, <2>1, <2>3, GotoKeepsRunInv
  <2>4. CASE GiveUp({}) /\ UNCHANGED budget BY <1>0, <2>4, GiveUpKeepsRunInv
  <2> QED BY <1>2, <2>2, <2>3, <2>4 DEF LeaveCompanies
<1> QED BY <1>1, <1>2

LEMMA EndTurnKeepsRunInv == RunInv /\ EndTurn => RunInv'
<1> SUFFICES ASSUME RunInv, EndTurn PROVE RunInv'
  OBVIOUS
<1>0. AgentTypeOK /\ "plan" \in Quiet \ Routes BY DEF RunInv, Quiet, Routes
<1>1. CASE statement /\ HistorySatisfied(evidence) /\ Goto("final") /\ UNCHANGED turn
  <2>1. evidence # {} BY <1>1 DEF RunInv, EvidenceInv
  <2> QED BY <1>1, <2>1, GotoFinalKeepsRunInv
<1>2. CASE Goto("plan") /\ UNCHANGED turn
  <2>1. TurnTypeOK' /\ UNCHANGED statement BY <1>0, <1>2, TurnTypeKept DEF turn
  <2> QED BY <1>0, <1>2, <2>1, GotoKeepsRunInv
<1>3. CASE FailClosed /\ UNCHANGED budget BY <1>3, FailClosedKeepsRunInv
<1> QED BY <1>1, <1>2, <1>3 DEF EndTurn

LEMMA TurnKeepsRunInv == RunInv /\ Turn => RunInv'
BY SpareCallKeepsRunInv, DispatchCallKeepsRunInv, EndTurnKeepsRunInv, TakeCallKeepsRunInv,
   ListSectionsKeepsRunInv, QueryEventsKeepsRunInv, CompaniesKeepRunInv DEF Turn

LEMMA FruitlessCallKeepsRunInv ==
  ASSUME RunInv, ToolBudgetLeft, NEW known \in SUBSET Limits, FruitlessCall(known)
  PROVE  RunInv'
<1>1. AgentTypeOK /\ {} \in SUBSET Limits /\ {"tool_dispatch_failed"} \in SUBSET Limits
  BY DEF RunInv, Limits
<1>2. Stops BY <1>1, GiveUpStops DEF FruitlessCall
<1>3. /\ modelCalls' = modelCalls /\ toolCalls' = toolCalls + 1
      /\ toolCalls' <= MaxToolCalls + 2
  BY <1>1, AgentAssumption DEF FruitlessCall, ToolBudgetLeft, AgentTypeOK
<1> QED BY <1>2, <1>3, StopKeepsRunInv

LEMMA FallbackKeepsRunInv == RunInv /\ Fallback => RunInv'
<1> SUFFICES ASSUME RunInv, Fallback PROVE RunInv'
  OBVIOUS
<1>0. /\ AgentTypeOK /\ "search" \in Quiet \ Routes /\ "fanout" \in Quiet \ Routes /\ "history" \in Quiet \ Routes
      /\ {} \in SUBSET Filings /\ {} \in SUBSET Limits
      /\ UNCHANGED histories => histories' \in SUBSET Corrections
  BY DEF RunInv, Quiet, Routes, AgentTypeOK
<1>1. UNCHANGED turn => TurnTypeOK' /\ UNCHANGED statement BY <1>0, TurnTypeKept DEF turn
<1>2. CASE GiveUp({}) /\ UNCHANGED budget BY <1>0, <1>2, GiveUpKeepsRunInv
<1>3. CASE ToolBudgetLeft /\ DispatchEndsRun BY <1>3, DispatchEndKeepsRunInv
<1>4. CASE ToolBudgetLeft /\ Raised("search") /\ UNCHANGED turn
  BY <1>0, <1>1, <1>4, CallKeepsRunInv
<1>5. CASE ToolBudgetLeft /\ Found({}, "search") /\ UNCHANGED <<histories, turn>>
  BY <1>0, <1>1, <1>5, CallKeepsRunInv
<1>6. CASE /\ ToolBudgetLeft /\ Found({}, "fanout") /\ UNCHANGED histories
           /\ companies' \in 2..MaxCompanies
           /\ UNCHANGED <<pending, call, seen, reusable, listed, statement>>
  <2>1. statement' \in BOOLEAN BY <1>0, <1>6, Zenon DEF AgentTypeOK
  <2>2. companies' \in 0..MaxCompanies BY <1>6, AgentAssumption
  <2>3. TurnTypeOK' BY <1>0, <1>6, <2>1, <2>2 DEF AgentTypeOK, TurnTypeOK
  <2> QED BY <1>0, <1>6, <2>3, CallKeepsRunInv
<1>7. CASE ToolBudgetLeft /\ FruitlessCall({}) BY <1>0, <1>7, FruitlessCallKeepsRunInv
<1>8. ASSUME ToolBudgetLeft, NEW found \in SUBSET Filings, found # {},
             Found(found, "history"), UNCHANGED <<histories, turn>>
      PROVE  RunInv'
  <2>1. evidence' # {} BY <1>8 DEF Found
  <2> QED BY <1>0, <1>1, <1>8, <2>1, CallKeepsRunInv
<1>9. CASE ResolveFallback BY <1>2, <1>3, <1>4, <1>5, <1>6, <1>9 DEF ResolveFallback
<1>10. CASE SearchFallback BY <1>2, <1>3, <1>7, <1>8, <1>10 DEF SearchFallback
<1> QED BY <1>9, <1>10 DEF Fallback

LEMMA HistoryKeepsRunInv == RunInv /\ (ReadHistory \/ HistoryRead) => RunInv'
<1> SUFFICES ASSUME RunInv, ReadHistory \/ HistoryRead PROVE RunInv'
  OBVIOUS
<1>0. /\ AgentTypeOK /\ "history" \in Quiet \ Routes /\ {} \in SUBSET Limits
      /\ pc = "history" /\ evidence # {}
  BY DEF RunInv, Quiet, Routes, EvidenceInv, ReadHistory, HistoryRead
<1>1. CASE GiveUp({}) /\ UNCHANGED budget BY <1>0, <1>1, GiveUpKeepsRunInv
<1>2. CASE FailClosed /\ UNCHANGED budget BY <1>2, FailClosedKeepsRunInv
<1>3. CASE HistorySatisfied(evidence) /\ Goto("final") /\ UNCHANGED turn
  BY <1>0, <1>3, GotoFinalKeepsRunInv
<1>4. CASE ToolBudgetLeft /\ DispatchEndsRun BY <1>4, DispatchEndKeepsRunInv
<1>5. ASSUME ToolBudgetLeft, NEW known \in {{}, {"tool_error"}}, FruitlessCall(known)
      PROVE  RunInv'
  <2>1. known \in SUBSET Limits BY DEF Limits
  <2> QED BY <1>5, <2>1, FruitlessCallKeepsRunInv
<1>6. ASSUME ToolBudgetLeft, NEW f \in evidence \cap Corrections, NEW found \in SUBSET Filings,
             histories' = histories \cup {f}, Found(found, "history"), UNCHANGED turn
      PROVE  RunInv'
  <2>1. TurnTypeOK' /\ UNCHANGED statement BY <1>0, <1>6, TurnTypeKept DEF turn
  <2>2. histories' \in SUBSET Corrections BY <1>0, <1>6 DEF AgentTypeOK
  <2>3. evidence' # {} BY <1>0, <1>6 DEF Found
  <2> QED BY <1>0, <1>6, <2>1, <2>2, <2>3, CallKeepsRunInv
<1>7. CASE ReadHistory BY <1>1, <1>4, <1>5, <1>6, <1>7 DEF ReadHistory
<1>8. CASE HistoryRead BY <1>1, <1>2, <1>3, <1>8 DEF HistoryRead
<1> QED BY <1>7, <1>8

LEMMA DraftKeepsRunInv == RunInv /\ (DraftNotAsked \/ AskDraft \/ DraftFails \/ Draft) => RunInv'
<1> SUFFICES ASSUME RunInv, DraftNotAsked \/ AskDraft \/ DraftFails \/ Draft PROVE RunInv'
  OBVIOUS
<1>0. /\ AgentTypeOK /\ evidence # {} /\ evidence \in SUBSET Filings /\ {} \in SUBSET Filings
      /\ limits \in SUBSET Limits /\ limits \cup {"deadline_exhausted"} \in SUBSET Limits
      /\ limits \cup {"model_gateway_failed"} \in SUBSET Limits
      /\ limits \cup {"tool_dispatch_failed"} \in SUBSET Limits
      /\ {"completed", "information_limit", "failed_closed"} \subseteq Outcomes
  BY DEF RunInv, EvidenceInv, AgentTypeOK, Limits, Outcomes, DraftNotAsked, AskDraft, DraftFails, Draft
<1>1. CASE DraftNotAsked BY <1>0, <1>1, ReturnKeepsRunInv DEF DraftNotAsked
<1>2. CASE DraftFails BY <1>0, <1>2, ReturnKeepsRunInv DEF DraftFails
<1>3. CASE Draft
  <2>1. CASE UNCHANGED budget /\ Return("completed", evidence, limits)
    BY <1>0, <2>1, ReturnKeepsRunInv
  <2>2. CASE /\ ToolBudgetLeft /\ toolCalls' = toolCalls + 1 /\ UNCHANGED modelCalls
             /\ \/ Return("completed", evidence, limits)
                \/ Return("completed", evidence, limits \cup {"tool_dispatch_failed"})
                \/ Return("failed_closed", evidence, limits)
    <3>1. Stops BY <1>0, <2>2, ReturnStops
    <3>2. toolCalls' <= MaxToolCalls + 2
      BY <1>0, <2>2, AgentAssumption DEF ToolBudgetLeft, AgentTypeOK
    <3> QED BY <2>2, <3>1, <3>2, StopKeepsRunInv
  <2> QED BY <1>3, <2>1, <2>2 DEF Draft
<1>4. CASE AskDraft
  <2>1. /\ pc' = "drafting" /\ UNCHANGED <<toolCalls, knowledge, turn, world, result>>
        /\ modelCalls' = modelCalls + 1 /\ modelCalls' \in 0..MaxModelCalls /\ pc = "final"
    BY <1>0, <1>4, AgentAssumption DEF AskDraft, CountModelCall, ModelBudgetLeft, AgentTypeOK
  <2> USE DEF RunInv, knowledge, turn, world
  <2>2. AgentTypeOK' BY <2>1 DEF AgentTypeOK, Places, Routes
  <2>3. BudgetInv' /\ CallInv' BY <2>1 DEF BudgetInv, CallInv
  <2>4. modelCalls' > 1 => HistorySatisfied(evidence)
    BY <1>0, <2>1, AgentAssumption DEF HistoryInv, AgentTypeOK
  <2>5. HistoryInv' BY <2>1, <2>4 DEF HistoryInv, HistorySatisfied, Routes
  <2>6. EvidenceInv' BY <1>0, <2>1 DEF EvidenceInv, CompletedOnEvidence, Routes
  <2> QED BY <2>2, <2>3, <2>5, <2>6
<1> QED BY <1>1, <1>2, <1>3, <1>4

LEMMA WorldKeepsRunInv == RunInv /\ (Expire \/ ChangeLineage \/ UNCHANGED vars) => RunInv'
<1> SUFFICES ASSUME RunInv, Expire \/ ChangeLineage \/ UNCHANGED vars PROVE RunInv'
  OBVIOUS
<1>1. UNCHANGED <<pc, budget, knowledge, turn, basis, result>>
  BY DEF Expire, ChangeLineage, vars, world
<1>2. expired' \in BOOLEAN /\ lineageOk' \in BOOLEAN
  <2>1. expired \in BOOLEAN /\ lineageOk \in BOOLEAN BY DEF RunInv, AgentTypeOK
  <2> QED BY <2>1, Zenon DEF Expire, ChangeLineage, vars, world
<1> USE DEF RunInv, budget, knowledge, turn
<1>3. AgentTypeOK' BY <1>1, <1>2 DEF AgentTypeOK
<1>4. BudgetInv' /\ CallInv' BY <1>1 DEF BudgetInv, CallInv
<1>5. HistoryInv' BY <1>1 DEF HistoryInv, HistorySatisfied
<1>6. EvidenceInv' BY <1>1 DEF EvidenceInv, CompletedOnEvidence
<1> QED BY <1>3, <1>4, <1>5, <1>6

LEMMA RunInvStep == RunInv /\ [Next]_vars => RunInv'
BY PreflightKeepsRunInv, SelectionKeepsRunInv, PlannerKeepsRunInv, TurnKeepsRunInv, FallbackKeepsRunInv,
   HistoryKeepsRunInv, DraftKeepsRunInv, WorldKeepsRunInv DEF Next, Step, Final, Done

-------------------------------------------------------------------------------
(* The theorems.                                                               *)

(* The counters, sets and results of a run keep their types; in particular the *)
(* model is called max_model_calls times at most (runner.py:8156).             *)
THEOREM TypeCorrectRun == Spec => []AgentTypeOK
<1>1. RunInv => AgentTypeOK BY DEF RunInv
<1> QED BY <1>1, RunInvInit, RunInvStep, PTL DEF Spec

(* However the planner's calls, the code's own calls and the listings in front *)
(* of reads mix, the tool budget is overrun by two calls at most               *)
(* (runner.py:12564, 12665, 12877 and 10544, 11304, 11897, 12093).             *)
THEOREM ToolCallsStayBounded == Spec => []ToolCallsBounded
<1>1. RunInv => ToolCallsBounded BY DEF RunInv, BudgetInv, ToolCallsBounded
<1> QED BY <1>1, RunInvInit, RunInvStep, PTL DEF Spec

(* No draft that follows on the planner is asked for before the histories of   *)
(* all corrections cited were consulted (runner.py:12445, 13294).              *)
THEOREM DraftsFollowHistory == Spec => []DraftsKnowHistory
<1>1. RunInv => DraftsKnowHistory BY DEF RunInv, HistoryInv, DraftsKnowHistory, HistorySatisfied
<1> QED BY <1>1, RunInvInit, RunInvStep, PTL DEF Spec

(* A run completes only with evidence, although the branches that draft do not *)
(* look for it (runner.py:12212, 13357).                                       *)
THEOREM CompletedHasEvidence == Spec => []CompletedOnEvidence
<1>1. RunInv => CompletedOnEvidence BY DEF RunInv, EvidenceInv
<1> QED BY <1>1, RunInvInit, RunInvStep, PTL DEF Spec

-------------------------------------------------------------------------------
(* The routes.                                                                 *)

(* Where the run is at each stage of the routes: its unchecked calls are made  *)
(* by the company of a periodic question and by the call that follows on it.   *)
FirstStages ==
  {"entry", "profile", "reports", "sections", "roster", "read", "spoiled",
   "pay", "payreport", "paysearch", "paysection", "sector", "margins", "amounts",
   "pin", "total", "types", "events", "funding", "missing", "difference", "direct",
   "merger", "target", "capital", "plans", "facilities", "sums", "periodic"}

PinnedStages ==
  {"searches", "ratios", "quarter", "growth", "rows", "comparison", "margin", "answer",
   "statement", "correction", "receipt"}

LastStages == {"versions", "extract", "shown"}

PlaceInv ==
  /\ stage \in FirstStages => pc = "route"
  /\ stage \in PinnedStages => pc \in {"route", "pinned"}
  /\ stage \in LastStages => pc \in Routes
  /\ stage \notin {"planner", "over"} => result = NoResult
  /\ stage = "planner" => result = NoResult

RouteTyped ==
  /\ stage \in Stages
  /\ asked \in SUBSET Subjects
  /\ todo \in SUBSET asked
  /\ subject \in Subjects \cup {NoSubject}
  /\ named \in SUBSET Subjects
  /\ local \in SUBSET Filings
  /\ owed \in 0..3
  /\ rule \in Rules
  /\ checked \in SUBSET Subjects

Idle == todo = {} /\ subject = NoSubject /\ local = {}

(* What is still to be called at these stages fits the budget.  With a budget  *)
(* of one call no company of a sector is checked.                              *)
SectorRoom(calls) ==
  IF MaxToolCalls = 1
  THEN todo = {} /\ subject = NoSubject /\ asked \subseteq named
  ELSE toolCalls + calls + 1 <= MaxToolCalls

RoomInv ==
  /\ stage \in {"entry", "sector"} => toolCalls = 0
  /\ stage \in {"entry", "sector", "pin", "total", "events", "periodic"} => Idle
  /\ stage = "margins" => SectorRoom(2 * Cardinality(todo) + (IF subject = NoSubject THEN 0 ELSE 1))
  /\ stage = "amounts" => subject = NoSubject /\ SectorRoom(Cardinality(todo))
  /\ stage = "types" => toolCalls + Cardinality(todo) + 1 <= MaxToolCalls

(* The stages at which an answer owes the whole question, and those at which a *)
(* search of the reports decides what it owes.                                 *)
EveryStages ==
  Stages \ {"funding", "direct", "difference", "merger", "target", "capital", "searches", "rows",
            "comparison", "statement", "extract", "shown", "planner", "over"}

RuleInv ==
  /\ stage \in EveryStages => rule = "every"
  /\ stage = "searches" => rule \in {"every", "several"}

(* What has been found, is named and is still looked for is all of what was    *)
(* asked, or the types of events are all looked at.                            *)
CoverInv ==
  /\ stage \in {"margins", "amounts", "plans", "facilities"} =>
       asked \subseteq Covered(evidence) \cup named \cup todo \cup {subject}
  /\ stage \in {"margins", "amounts"} /\ subject # NoSubject => local # {} /\ local \subseteq FilingsOf(subject)
  /\ stage \in {"plans", "facilities", "sums"} => subject = NoSubject
  /\ stage = "types" => asked \subseteq Covered(local) \cup named \cup todo
  /\ stage = "missing" => Covered(local) \subseteq asked /\ checked \subseteq Covered(local) \cup named
  /\ stage \in {"funding", "target", "capital"} => rule = "checked"
  /\ stage \in {"funding", "direct", "merger"} => asked \subseteq checked
  /\ stage \in {"target", "capital"} => subject \in Subjects /\ asked \subseteq checked \cup {subject}
  /\ stage = "direct" => rule = "checked" \/ (rule = "every" /\ asked \subseteq Covered(evidence) \cup named)
  /\ stage = "difference" => rule = "any" /\ asked \cap Covered(evidence) # {}
  /\ stage = "sums" => asked \subseteq Covered(evidence) \cup named
  /\ stage = "searches" =>
       local \subseteq evidence /\ Covered(local) \subseteq asked /\ subject \in asked \cup {NoSubject}
  /\ stage \in {"rows", "comparison"} => rule = "several" /\ Cardinality(Covered(evidence)) >= 2
  /\ stage \in {"growth", "margin", "answer"} => asked \subseteq Covered(evidence)
  /\ stage = "statement" => rule = "several" \/ evidence = {} \/ Reaches(evidence, {})
  /\ stage = "over" => AnswersCoverTheQuestion

RouteInv == RunInv /\ RouteTyped /\ PlaceInv /\ RoomInv /\ RuleInv /\ CoverInv

USE DEF reach

LEMMA RouteInvInit == RoutesInit => RouteInv
<1> SUFFICES ASSUME RoutesInit PROVE RouteInv
  OBVIOUS
<1>1. RunInv BY RunInvInit DEF RoutesInit
<1>2. stage = "entry" /\ pc = "route" /\ result = NoResult /\ toolCalls = 0
  BY DEF RoutesInit, Init
<1>3. RouteTyped BY DEF RoutesInit, RouteTyped, Stages, Rules
<1>4. PlaceInv BY <1>2 DEF PlaceInv, FirstStages, PinnedStages, LastStages
<1>5. RoomInv BY <1>2 DEF RoutesInit, RoomInv, Idle
<1>6. RuleInv BY DEF RoutesInit, RuleInv
<1>7. CoverInv BY <1>2 DEF CoverInv
<1> QED BY <1>1, <1>3, <1>4, <1>5, <1>6, <1>7 DEF RouteInv

-------------------------------------------------------------------------------
(* The steps of a route are steps of AgentRun.                                 *)

(* A call after which the routes go on, the run being at p.                    *)
Made(found, p) ==
  /\ Next
  /\ pc' = p
  /\ toolCalls' = toolCalls + 1
  /\ evidence' = evidence \cup found
  /\ result' = result

LEMMA NothingCalled == ASSUME NoCallMade PROVE UNCHANGED vars
BY DEF NoCallMade, Goto, vars

LEMMA ResultMade ==
  ASSUME NEW p, NEW found \in SUBSET Filings, pc \in Routes,
         \/ Raised(p) /\ UNCHANGED turn
         \/ Unused(p) /\ UNCHANGED turn
         \/ ToolError(p) /\ (Remember \/ UNCHANGED turn)
         \/ Found(found, p) /\ UNCHANGED histories /\ (Remember \/ UNCHANGED turn)
  PROVE  /\ PreflightResult(p) /\ pc' = p /\ toolCalls' = toolCalls + 1 /\ result' = result
         /\ evidence' = evidence \/ (Found(found, p) /\ evidence' = evidence \cup found)
<1>1. UNCHANGED turn => Remember BY DEF turn, Remember
<1>2. PreflightResult(p) BY <1>1 DEF PreflightResult
<1> QED BY <1>2 DEF Raised, Unused, ToolError, Found, knowledge

LEMMA CheckedCall ==
  ASSUME pc \in Routes, ToolBudgetLeft, PreflightResult(pc)
  PROVE  Next
BY DEF PreflightCall, Preflight, Step, Next

LEMMA FreeCall ==
  ASSUME pc \in {"route", "pinned"}, PreflightResult(NextPlace)
  PROVE  Next
BY DEF UncheckedCall, Preflight, Step, Next, NextPlace

(* A call that looks at the budget.                                            *)
LEMMA ReplyMade ==
  ASSUME pc \in Routes, ToolBudgetLeft, NEW found \in SUBSET Filings, Reply(found)
  PROVE  Made(found, pc)
<1>1. Found(found, pc) /\ UNCHANGED histories /\ UNCHANGED turn BY DEF Reply
<1>2. /\ PreflightResult(pc) /\ pc' = pc /\ toolCalls' = toolCalls + 1 /\ result' = result
      /\ evidence' = evidence \cup found
  BY <1>1, ResultMade DEF Found
<1> QED BY <1>2, CheckedCall DEF Made

LEMMA NothingFound ==
  ASSUME pc \in Routes, ToolBudgetLeft,
         \/ Raise \/ Spoil
         \/ Reply({})
         \/ Found({}, pc) /\ Remember /\ UNCHANGED histories
         \/ ToolError(pc) /\ Remember
  PROVE  Made({}, pc)
<1>1. /\ PreflightResult(pc) /\ pc' = pc /\ toolCalls' = toolCalls + 1 /\ result' = result
      /\ evidence' = evidence
  BY ResultMade, {} \in SUBSET Filings DEF Raise, Spoil, Reply
<1> QED BY <1>1, CheckedCall DEF Made

(* A call that does not.                                                       *)
LEMMA UncheckedMade ==
  ASSUME pc \in {"route", "pinned"}, NEW found \in SUBSET Filings,
         UncheckedReply(found) \/ (found = {} /\ (UncheckedRaise \/ (ToolError(NextPlace) /\ UNCHANGED turn)))
  PROVE  Made(found, NextPlace)
<1>1. /\ PreflightResult(NextPlace) /\ pc' = NextPlace /\ toolCalls' = toolCalls + 1 /\ result' = result
      /\ evidence' = evidence \cup found
  <2>1. CASE UncheckedReply(found)
    <3>1. Found(found, NextPlace) /\ UNCHANGED histories /\ UNCHANGED turn BY <2>1 DEF UncheckedReply
    <3> QED BY <3>1, ResultMade DEF Found, Routes
  <2>2. CASE found = {} /\ (UncheckedRaise \/ (ToolError(NextPlace) /\ UNCHANGED turn))
    BY <2>2, ResultMade DEF UncheckedRaise, Routes
  <2> QED BY <2>1, <2>2
<1> QED BY <1>1, FreeCall DEF Made

-------------------------------------------------------------------------------
(* The ends of a route.                                                        *)

Quit ==
  /\ Next
  /\ pc' = "done"
  /\ Over
  /\ result'.outcome # "completed"
  /\ named' = named

(* It answers by citing cited, if it answers.                                  *)
Ended(cited) ==
  /\ Next
  /\ pc' = "done"
  /\ Over
  /\ result'.outcome # "completed" \/ result'.evidence = cited

CanCall == pc \in Routes /\ (ToolBudgetLeft \/ pc \in {"route", "pinned"})

LEMMA ReturnIsPreflights ==
  ASSUME pc \in Routes, NEW o \in Outcomes, NEW kept \in SUBSET Filings, NEW known \in SUBSET Limits,
         o = "completed" => kept # {},
         Return(o, kept, limits \cup known),
         \/ UNCHANGED budget /\ (known = {} \/ (expired /\ known = {"deadline_exhausted"}))
         \/ CanCall /\ toolCalls' = toolCalls + 1 /\ UNCHANGED modelCalls /\ known \in {{}, {"tool_dispatch_failed"}}
  PROVE  Next /\ pc' = "done" /\ result'.outcome = o /\ result'.evidence = kept
<1>1. PreflightAnswer(known) BY DEF PreflightAnswer
<1>2. ASSUME UNCHANGED budget, known = {} \/ (expired /\ known = {"deadline_exhausted"})
      PROVE  Next
  <2>1. PreflightAnswer({}) \/ (expired /\ PreflightAnswer({"deadline_exhausted"})) BY <1>1, <1>2
  <2>2. PreflightEnds BY <1>2, <2>1 DEF PreflightEnds
  <2> QED BY <2>2 DEF Preflight, Step, Next
<1>3. ASSUME CanCall, toolCalls' = toolCalls + 1, UNCHANGED modelCalls, known \in {{}, {"tool_dispatch_failed"}}
      PROVE  Next
  <2>1. PreflightResult(pc) /\ PreflightResult(NextPlace) BY <1>1, <1>3 DEF PreflightCallEnds, PreflightResult
  <2>2. CASE ToolBudgetLeft BY <2>1, <2>2, CheckedCall
  <2>3. CASE pc \in {"route", "pinned"} BY <2>1, <2>3, FreeCall
  <2> QED BY <1>3, <2>2, <2>3 DEF CanCall
<1>4. Next BY <1>2, <1>3
<1> QED BY <1>4 DEF Return

LEMMA FinishIsPreflights ==
  ASSUME pc \in Routes, NEW o \in Outcomes \ {"completed"}, NEW kept \in SUBSET Filings, NEW known \in SUBSET Limits,
         Finish(o, kept, limits \cup known),
         \/ UNCHANGED budget /\ (known = {} \/ (expired /\ known = {"deadline_exhausted"}))
         \/ CanCall /\ toolCalls' = toolCalls + 1 /\ UNCHANGED modelCalls /\ known \in {{}, {"tool_dispatch_failed"}}
  PROVE  Next /\ pc' = "done" /\ result'.outcome # "completed"
<1>1. Kept(o, kept, limits \cup known) \in SUBSET Filings /\ {} \in SUBSET Filings BY DEF Kept
<1>2. CASE Return(o, Kept(o, kept, limits \cup known), limits \cup known)
  BY <1>1, <1>2, ReturnIsPreflights
<1>3. CASE Return("failed_closed", {}, limits \cup known)
  <2>1. "failed_closed" \in Outcomes \ {"completed"} BY DEF Outcomes
  <2> QED BY <1>1, <1>3, <2>1, ReturnIsPreflights
<1> QED BY <1>2, <1>3 DEF Finish

LEMMA EndsFree ==
  ASSUME AgentTypeOK, pc \in Routes, Limit \/ OutOfTime \/ Fail
  PROVE  Quit
<1>1. /\ evidence \in SUBSET Filings /\ {} \in SUBSET Limits /\ {"deadline_exhausted"} \in SUBSET Limits
      /\ {"information_limit", "failed_closed"} \subseteq Outcomes \ {"completed"}
      /\ limits \cup {} = limits
  BY DEF AgentTypeOK, Limits, Outcomes
<1>2. Next /\ pc' = "done" /\ result'.outcome # "completed"
  BY <1>1, FinishIsPreflights DEF Limit, OutOfTime, Fail, GiveUp, FailClosed
<1> QED BY <1>2 DEF Quit, Limit, OutOfTime, Fail

LEMMA CallFinishesRun ==
  ASSUME AgentTypeOK, CanCall, NEW o \in {"information_limit", "failed_closed"}, NEW kept \in SUBSET Filings,
         NEW known \in {{}, {"tool_dispatch_failed"}}, CallFinishes(o, kept, known)
  PROVE  Quit
<1>1. known \in SUBSET Limits /\ o \in Outcomes \ {"completed"} /\ pc \in Routes
  BY DEF Limits, Outcomes, CanCall
<1>2. Next /\ pc' = "done" /\ result'.outcome # "completed"
  BY <1>1, FinishIsPreflights DEF CallFinishes
<1> QED BY <1>2 DEF Quit, CallFinishes

LEMMA CallEnds ==
  ASSUME AgentTypeOK, CanCall,
         CallEndsRun \/ RaiseEndsRun \/ ResultEndsRun \/ CallFailsClosed
  PROVE  Quit
<1>1. /\ evidence \in SUBSET Filings /\ {} \in SUBSET Filings /\ {} \in SUBSET Limits
      /\ {"tool_dispatch_failed"} \in SUBSET Limits /\ pc \in Routes
      /\ {"information_limit", "failed_closed"} \subseteq Outcomes \ {"completed"}
      /\ limits \cup {} = limits
  BY DEF AgentTypeOK, Limits, Outcomes, CanCall
<1>2. CASE RaiseEndsRun \/ ResultEndsRun \/ CallFailsClosed
  BY <1>1, <1>2, CallFinishesRun DEF RaiseEndsRun, ResultEndsRun, CallFailsClosed
<1>3. CASE CallEndsRun
  <2>1. Next /\ pc' = "done" /\ result'.outcome # "completed"
    BY <1>1, <1>3, FinishIsPreflights DEF CallEndsRun, DispatchEndsRun, FailClosed
  <2> QED BY <1>3, <2>1 DEF Quit, CallEndsRun
<1> QED BY <1>2, <1>3

LEMMA CalculationEnds ==
  ASSUME AgentTypeOK, pc \in Routes, NoRoomToCalculate \/ CalculationFails
  PROVE  Quit
BY EndsFree, CallEnds DEF NoRoomToCalculate, CalculationFails, CanCall

Refusals == {"information_limit", "failed_closed"}

LEMMA AnswerEnds ==
  ASSUME pc \in Routes, NEW missing, NEW cited \in SUBSET Filings, NEW otherwise \in Refusals,
         AnswerNaming(missing, cited, otherwise)
  PROVE  Ended(cited) /\ named' = missing /\ cited # {}
<1>1. /\ {} \in SUBSET Filings /\ {} \in SUBSET Limits /\ otherwise \in Outcomes
      /\ otherwise # "completed" /\ "completed" \in Outcomes /\ UNCHANGED budget
  BY DEF Outcomes, Refusals, AnswerNaming
<1>2. /\ cited # {} /\ Over
      /\ \/ Return("completed", cited, limits \cup {})
         \/ Return(otherwise, {}, limits \cup {})
  BY DEF AnswerNaming, Answers
<1>3. Next /\ pc' = "done" /\ (result'.outcome # "completed" \/ result'.evidence = cited)
  BY <1>1, <1>2, ReturnIsPreflights
<1> QED BY <1>2, <1>3 DEF Ended, AnswerNaming

LEMMA PackedAnswerEnds ==
  ASSUME pc \in Routes, NEW missing, NEW cited \in SUBSET Filings, AnswerIfPacked(cited, missing)
  PROVE  Ended(cited) /\ named' = missing /\ cited # {}
<1>1. {} \in SUBSET Limits /\ "completed" \in Outcomes /\ limits \cup {} = limits BY DEF Outcomes
<1>2. Next /\ pc' = "done" /\ (result'.outcome # "completed" \/ result'.evidence = cited)
  BY <1>1, ReturnIsPreflights DEF AnswerIfPacked
<1> QED BY <1>2 DEF Ended, AnswerIfPacked

LEMMA CallAnswerEnds ==
  ASSUME CanCall, NEW missing, NEW cited \in SUBSET Filings, NEW otherwise \in Refusals,
         CallAnswersNaming(missing, cited, otherwise) \/ RaiseAnswersNaming(missing, cited, otherwise)
  PROVE  Ended(cited) /\ named' = missing /\ cited # {}
<1>1. /\ {} \in SUBSET Filings /\ {} \in SUBSET Limits /\ {"tool_dispatch_failed"} \in SUBSET Limits
      /\ otherwise \in Outcomes /\ otherwise # "completed" /\ "completed" \in Outcomes
      /\ pc \in Routes
  BY DEF Outcomes, Refusals, Limits, CanCall
<1>2. PICK known \in {{}, {"tool_dispatch_failed"}} :
        /\ toolCalls' = toolCalls + 1 /\ UNCHANGED modelCalls /\ named' = missing
        /\ Answers(cited, otherwise, known)
  BY DEF CallAnswersNaming, RaiseAnswersNaming
<1>3. /\ cited # {} /\ Over
      /\ \/ Return("completed", cited, limits \cup known)
         \/ Return(otherwise, {}, limits \cup known)
  BY <1>2 DEF Answers
<1>4. Next /\ pc' = "done" /\ (result'.outcome # "completed" \/ result'.evidence = cited)
  BY <1>1, <1>2, <1>3, ReturnIsPreflights
<1> QED BY <1>2, <1>3, <1>4 DEF Ended

-------------------------------------------------------------------------------
(* What is kept.                                                               *)

LEMMA AtFirst ==
  ASSUME RouteInv, stage \in FirstStages
  PROVE  /\ AgentTypeOK /\ RouteTyped /\ pc = "route" /\ pc \in Routes /\ CanCall
         /\ stage \notin {"planner", "over"} /\ result = NoResult
BY DEF RouteInv, RunInv, PlaceInv, FirstStages, CanCall, Routes

LEMMA AtPinned ==
  ASSUME RouteInv, stage \in PinnedStages
  PROVE  /\ AgentTypeOK /\ RouteTyped /\ pc \in {"route", "pinned"} /\ pc \in Routes /\ CanCall
         /\ NextPlace \in Routes /\ stage \notin {"planner", "over"} /\ result = NoResult
BY DEF RouteInv, RunInv, PlaceInv, PinnedStages, CanCall, Routes, NextPlace

LEMMA AtLast ==
  ASSUME RouteInv, stage \in LastStages
  PROVE  /\ AgentTypeOK /\ RouteTyped /\ pc \in Routes
         /\ stage \notin {"planner", "over"} /\ result = NoResult
BY DEF RouteInv, RunInv, PlaceInv, LastStages

LEMMA RunStays == ASSUME RouteInv, [Next]_vars PROVE RunInv'
BY RunInvStep DEF RouteInv

(* A step keeps the invariant and is one of AgentRun's.                        *)
StepKept == [Next]_vars /\ RouteInv'

LEMMA ReachesAll ==
  ASSUME NEW cited, NEW missing, rule = "every", asked \subseteq Covered(cited) \cup missing
  PROVE  Reaches(cited, missing)
BY DEF Reaches

LEMMA ReachesChecked ==
  ASSUME NEW cited, NEW missing, rule = "checked", asked \subseteq Covered(cited) \cup missing \cup checked
  PROVE  Reaches(cited, missing)
BY DEF Reaches

LEMMA OverKeeps ==
  ASSUME RouteInv, Next, pc' = "done", Over, named' \in SUBSET Subjects,
         result'.outcome # "completed" \/ Reaches(result'.evidence, named')
  PROVE  StepKept
<1>1. stage' = "over" /\ asked' = asked /\ Cleared /\ UNCHANGED reach BY DEF Over, Move
<1>2. RunInv' BY RunStays
<1>3. RouteTyped' BY <1>1 DEF RouteInv, RouteTyped, Stages, Cleared
<1>4. PlaceInv' BY <1>1 DEF PlaceInv, FirstStages, PinnedStages, LastStages
<1>5. RoomInv' BY <1>1 DEF RoomInv
<1>6. RuleInv' BY <1>1 DEF RuleInv, EveryStages
<1>7. CoverInv' BY <1>1 DEF CoverInv, AnswersCoverTheQuestion, Reaches, Covered
<1> QED BY <1>2, <1>3, <1>4, <1>5, <1>6, <1>7 DEF RouteInv, StepKept

LEMMA QuitKeeps == ASSUME RouteInv, Quit PROVE StepKept
BY OverKeeps DEF Quit, RouteInv, RouteTyped

LEMMA EndedKeeps ==
  ASSUME RouteInv, NEW cited, Ended(cited), named' \in SUBSET Subjects,
         Reaches(cited, named')
  PROVE  StepKept
BY OverKeeps DEF Ended

(* An answer that owes the whole question.                                     *)
LEMMA EveryEnds ==
  ASSUME RouteInv, stage \in EveryStages, NEW cited, Ended(cited), named' \in SUBSET Subjects,
         asked \subseteq Covered(cited) \cup named'
  PROVE  StepKept
<1>1. rule = "every" BY DEF RouteInv, RuleInv
<1> QED BY <1>1, ReachesAll, EndedKeeps

(* The places of the stages that follow, by what the step did with the run.    *)
PlaceKept ==
  /\ stage' \in FirstStages => pc' = "route"
  /\ stage' \in PinnedStages => pc' \in {"route", "pinned"}
  /\ stage' \in LastStages => pc' \in Routes

LEMMA GoesOn ==
  ASSUME RouteInv, [Next]_vars, result' = result, result = NoResult,
         stage' # "over", RouteTyped', PlaceKept, RoomInv', RuleInv', CoverInv'
  PROVE  StepKept
<1>1. RunInv' BY RunStays
<1>2. PlaceInv' BY DEF PlaceInv, PlaceKept
<1> QED BY <1>1, <1>2 DEF RouteInv, StepKept

RoomStages == {"entry", "sector", "pin", "total", "events", "periodic", "margins", "amounts", "types"}

CoverStages ==
  {"margins", "amounts", "plans", "facilities", "sums", "types", "funding", "direct", "merger",
   "missing", "difference", "target", "capital", "searches", "rows", "comparison", "growth", "margin",
   "answer", "statement", "over"}

LEMMA NoRoomOwed == ASSUME stage' \notin RoomStages PROVE RoomInv'
BY DEF RoomInv, RoomStages

LEMMA NoCoverOwed == ASSUME stage' \notin CoverStages PROVE CoverInv'
BY DEF CoverInv, CoverStages

LEMMA RuleKept == ASSUME RouteInv, stage \in EveryStages, rule' = rule PROVE RuleInv'
BY DEF RouteInv, RuleInv

LEMMA NoRuleOwed == ASSUME stage' \notin EveryStages, stage' # "searches" PROVE RuleInv'
BY DEF RuleInv

(* The loop at hand is left for a stage that starts idle.                      *)
LEMMA SettledKeeps ==
  ASSUME RouteInv, stage \in EveryStages, [Next]_vars, result' = result, result = NoResult,
         NEW st \in {"periodic", "total", "events", "correction", "receipt"}, Settled(st),
         st \in {"periodic", "total", "events"} => pc' = "route",
         st \in {"correction", "receipt"} => pc' \in {"route", "pinned"}
  PROVE  StepKept
<1>1. stage' = st /\ asked' = asked /\ Cleared /\ UNCHANGED <<named, reach>> BY DEF Settled, Move
<1>2. RouteTyped' BY <1>1 DEF RouteInv, RouteTyped, Stages, Cleared
<1>3. PlaceKept BY <1>1 DEF PlaceKept, FirstStages, PinnedStages, LastStages
<1>4. RoomInv' BY <1>1 DEF RoomInv, Cleared, Idle
<1>5. CoverInv' BY <1>1, NoCoverOwed DEF CoverStages
<1>6. RuleInv' BY <1>1, RuleKept
<1> QED BY <1>1, <1>2, <1>3, <1>4, <1>5, <1>6, GoesOn

(* ... or for the drafting of a statement.                                     *)
LEMMA StatementKeeps ==
  ASSUME RouteInv, [Next]_vars, result' = result, result = NoResult, Settled("statement"),
         pc' \in {"route", "pinned"},
         rule = "several" \/ evidence' = {} \/ Reaches(evidence', {})
  PROVE  StepKept
<1>1. stage' = "statement" /\ asked' = asked /\ Cleared /\ UNCHANGED <<named, reach>> BY DEF Settled, Move
<1>2. RouteTyped' BY <1>1 DEF RouteInv, RouteTyped, Stages, Cleared
<1>3. PlaceKept BY <1>1 DEF PlaceKept, FirstStages, PinnedStages, LastStages
<1>4. RoomInv' BY <1>1, NoRoomOwed DEF RoomStages
<1>5. CoverInv' BY <1>1 DEF CoverInv, Reaches, Covered
<1>6. RuleInv' BY <1>1, NoRuleOwed DEF EveryStages
<1> QED BY <1>1, <1>2, <1>3, <1>4, <1>5, <1>6, GoesOn

LEMMA SelectMade ==
  ASSUME pc \in Routes, NEW kept \in SUBSET Filings, Select(kept)
  PROVE  Next /\ pc' = pc /\ toolCalls' = toolCalls /\ result' = result /\ evidence' = kept
BY DEF Select, PreflightSelects, Next, budget

-------------------------------------------------------------------------------
(* The entry, the profile and the pay.                                         *)

LEMMA MadeSteps == ASSUME NEW found, NEW p, Made(found, p) PROVE [Next]_vars /\ result' = result
BY DEF Made

LEMMA EntryKeeps == RouteInv /\ EnterRoutes => StepKept
<1> SUFFICES ASSUME RouteInv, EnterRoutes PROVE StepKept
  OBVIOUS
<1>0. stage = "entry" /\ stage \in FirstStages BY DEF EnterRoutes, FirstStages
<1>1. CASE Limit BY <1>0, <1>1, AtFirst, EndsFree, QuitKeeps
<1>2. ASSUME NoCallMade, NEW st \in {"profile", "pay", "sector", "pin", "periodic"}, Move(st),
             UNCHANGED <<work, named, reach>>
      PROVE  StepKept
  <2>1. UNCHANGED vars /\ pc = "route" /\ RouteTyped /\ result = NoResult
    BY <1>0, <1>2, AtFirst, NothingCalled
  <2>2. stage' = st /\ UNCHANGED <<asked, todo, subject, local, owed, named, reach>>
    BY <1>2 DEF Move, work
  <2>3. pc' = pc /\ toolCalls' = toolCalls /\ result' = result BY <2>1 DEF vars, budget
  <2>4. RouteTyped' BY <2>1, <2>2 DEF RouteTyped, Stages
  <2>5. PlaceKept BY <2>1, <2>2, <2>3 DEF PlaceKept, FirstStages, PinnedStages, LastStages
  <2>6. RoomInv' BY <1>0, <2>2, <2>3 DEF RouteInv, RoomInv, Idle
  <2>7. CoverInv' BY <2>2, NoCoverOwed DEF CoverStages
  <2>8. RuleInv' BY <1>0, <2>2, RuleKept DEF EveryStages, Stages
  <2> QED BY <2>1, <2>2, <2>3, <2>4, <2>5, <2>6, <2>7, <2>8, GoesOn
<1> QED BY <1>0, <1>1, <1>2 DEF EnterRoutes

(* A stage of the first routes at which nothing is promised yet.               *)
LEMMA PlainStageKeeps ==
  ASSUME RouteInv, stage \in FirstStages, stage \in EveryStages,
         [Next]_vars, result' = result, pc' = pc,
         NEW st \in FirstStages \ (RoomStages \cup CoverStages), stage' = st,
         asked' = asked, todo' \in SUBSET asked, subject' \in Subjects \cup {NoSubject},
         named' \in SUBSET Subjects, local' \in SUBSET Filings, owed' \in 0..3, UNCHANGED reach
  PROVE  StepKept
<1>1. pc = "route" /\ RouteTyped /\ result = NoResult BY AtFirst
<1>2. RouteTyped' BY <1>1 DEF RouteTyped, Stages, FirstStages
<1>3. PlaceKept BY <1>1 DEF PlaceKept, FirstStages, PinnedStages, LastStages
<1>4. RoomInv' BY NoRoomOwed
<1>5. CoverInv' BY NoCoverOwed
<1>6. stage' # "over" BY DEF CoverStages
<1>7. RuleInv' BY RuleKept
<1> QED BY <1>1, <1>2, <1>3, <1>4, <1>5, <1>6, <1>7, GoesOn

LEMMA ProfileKeeps == RouteInv /\ ProfileStep => StepKept
<1> SUFFICES ASSUME RouteInv, ProfileStep PROVE StepKept
  OBVIOUS
<1>0. /\ stage \in FirstStages /\ stage \in EveryStages
      /\ {"profile", "reports", "sections", "roster", "read", "spoiled"} \subseteq FirstStages \ (RoomStages \cup CoverStages)
      /\ stage \in {"profile", "reports", "sections", "roster", "read", "spoiled"}
  BY DEF ProfileStep, ProfileCall, SearchRoster, ReadProfileSection, AnswerProfile,
         FirstStages, EveryStages, Stages, RoomStages, CoverStages
<1>1. AgentTypeOK /\ RouteTyped /\ pc \in Routes /\ CanCall BY <1>0, AtFirst
<1>2. ProfileOpen => ToolBudgetLeft BY DEF ProfileOpen
<1>3. CASE ProfileCall
  <2>1. CASE Limit BY <1>1, <2>1, EndsFree, QuitKeeps
  <2>2. CASE CallEndsRun \/ RaiseEndsRun \/ ResultEndsRun BY <1>1, <2>2, CallEnds, QuitKeeps
  <2>3. ASSUME ToolBudgetLeft, Reply({}), UNCHANGED <<subject, local, owed, named, reach>>,
               NEW st \in {"reports", "sections", "roster", "read"}, Move(st), todo' \in {todo} \cup SUBSET asked
        PROVE  StepKept
    <3>1. Made({}, pc) BY <1>1, <2>3, NothingFound
    <3> QED BY <1>0, <1>1, <2>3, <3>1, PlainStageKeeps DEF Made, Move, RouteTyped
  <2> QED BY <1>2, <1>3, <2>1, <2>2, <2>3 DEF ProfileCall
<1>4. CASE SearchRoster
  <2>1. PICK st \in {"read", "spoiled"} :
          /\ Move(st) /\ todo' \in SUBSET asked
          /\ NoCallMade \/ (ToolBudgetLeft /\ (Raise \/ Spoil \/ Reply({})))
    BY <1>1, <1>2, <1>4 DEF SearchRoster, RosterSection, RouteTyped
  <2>2. UNCHANGED vars \/ Made({}, pc) BY <1>1, <2>1, NothingCalled, NothingFound
  <2>3. [Next]_vars /\ result' = result /\ pc' = pc BY <2>2 DEF Made, vars
  <2> QED BY <1>0, <1>1, <1>4, <2>1, <2>3, PlainStageKeeps DEF SearchRoster, Move, RouteTyped
<1>5. ASSUME NEW s \in Subjects, ReadProfileSection(s) PROVE StepKept
  <2>1. CASE ProfileOpen /\ CallFailsClosed BY <1>1, <2>1, CallEnds, QuitKeeps
  <2>2. CASE /\ todo' = todo \ {s}
             /\ UNCHANGED <<owed, named, reach>>
             /\ \/ ~ProfileOpen /\ NoCallMade /\ Move(stage) /\ subject' = NoSubject /\ UNCHANGED local
                \/ ProfileOpen /\ Raise /\ Move(stage) /\ subject' = NoSubject /\ UNCHANGED local
                \/ ProfileOpen /\ Spoil /\ Move("spoiled") /\ subject' = NoSubject /\ UNCHANGED local
                \/ /\ ProfileOpen /\ Reply({}) /\ Move(stage)
                   /\ \/ subject' = NoSubject /\ \E found \in SUBSET FilingsOf(s) : local' = local \cup found
                      \/ subject = NoSubject /\ subject' = s /\ UNCHANGED local
    <3>1. PICK st \in {"read", "spoiled"} :
            /\ Move(st)
            /\ NoCallMade \/ (ToolBudgetLeft /\ (Raise \/ Spoil \/ Reply({})))
      BY <1>2, <1>5, <2>2 DEF ReadProfileSection
    <3>2. UNCHANGED vars \/ Made({}, pc) BY <1>1, <3>1, NothingCalled, NothingFound
    <3>3. [Next]_vars /\ result' = result /\ pc' = pc BY <3>2 DEF Made, vars
    <3>4. subject' \in Subjects \cup {NoSubject} /\ local' \in SUBSET Filings
      BY <1>1, <2>2 DEF RouteTyped, FilingsOf
    <3>5. stage' = st /\ asked' = asked BY <3>1 DEF Move
    <3> QED BY <1>0, <1>1, <2>2, <3>3, <3>4, <3>5, PlainStageKeeps DEF RouteTyped
  <2> QED BY <1>5, <2>1, <2>2 DEF ReadProfileSection
<1>6. CASE AnswerProfile
  <2>1. CASE Fail \/ Limit BY <1>1, <2>1, EndsFree, QuitKeeps
  <2>2. ASSUME NEW facts \in SUBSET Covered(local), AnswerNaming(asked \ facts, local, "failed_closed")
        PROVE  StepKept
    <3>1. Ended(local) /\ named' = asked \ facts
      BY <1>1, <2>2, AnswerEnds DEF Refusals, RouteTyped
    <3>2. asked \subseteq Covered(local) \cup named' BY <3>1
    <3> QED BY <1>0, <1>1, <3>1, <3>2, EveryEnds DEF RouteTyped
  <2> QED BY <1>6, <2>1, <2>2 DEF AnswerProfile
<1> QED BY <1>3, <1>4, <1>5, <1>6 DEF ProfileStep

LEMMA PayKeeps == RouteInv /\ PayStep => StepKept
<1> SUFFICES ASSUME RouteInv, PayStep PROVE StepKept
  OBVIOUS
<1>0. /\ stage \in FirstStages /\ stage \in EveryStages
      /\ {"payreport", "paysearch", "paysection"} \subseteq FirstStages \ (RoomStages \cup CoverStages)
  BY DEF PayStep, PayCall, ReadPay, FirstStages, EveryStages, Stages, RoomStages, CoverStages
<1>1. AgentTypeOK /\ RouteTyped /\ pc \in Routes /\ CanCall /\ evidence \in SUBSET Filings
  BY <1>0, AtFirst DEF AgentTypeOK
<1>2. PayOpen => ToolBudgetLeft
  BY <1>1, AgentAssumption DEF PayOpen, ToolBudgetLeft, Smaller, PayCalls, AgentTypeOK
<1>3. CASE Limit BY <1>1, <1>3, EndsFree, QuitKeeps
<1>4. ASSUME NEW found \in SUBSET Filings, PayResultEnds(found) PROVE StepKept
  <2>1. Quit BY <1>1, <1>4, CallEnds, CallFinishesRun DEF PayResultEnds
  <2> QED BY <2>1, QuitKeeps
<1>5. ASSUME ToolBudgetLeft, NEW found \in SUBSET Filings, Reply(found), UNCHANGED <<todo, subject, local, named, reach>>,
             NEW st \in {"payreport", "paysearch", "paysection"}, Move(st), owed' \in {owed, 1, 2}
      PROVE  StepKept
  <2>1. Made(found, pc) BY <1>1, <1>5, ReplyMade
  <2>2. owed' \in 0..3 BY <1>1, <1>5 DEF RouteTyped
  <2> QED BY <1>0, <1>1, <1>5, <2>1, <2>2, PlainStageKeeps DEF Made, Move, RouteTyped
<1>6. CASE PayCall BY <1>2, <1>3, <1>4, <1>5, <1>6, {} \in SUBSET Filings DEF PayCall
<1>7. CASE ReadPay
  <2>1. ASSUME PayOpen, NEW found \in SUBSET Filings, asked \subseteq Covered(found),
               CallAnswers(evidence \cup found, "failed_closed")
        PROVE  StepKept
    <3>1. CallAnswersNaming(named, evidence \cup found, "failed_closed") BY <2>1 DEF CallAnswers
    <3>2. evidence \cup found \in SUBSET Filings /\ "failed_closed" \in Refusals BY <1>1 DEF Refusals
    <3>3. Ended(evidence \cup found) /\ named' = named BY <1>1, <3>1, <3>2, CallAnswerEnds
    <3>4. asked \subseteq Covered(evidence \cup found) BY <2>1 DEF Covered
    <3> QED BY <1>0, <1>1, <3>3, <3>4, EveryEnds DEF RouteTyped
  <2> QED BY <1>2, <1>3, <1>4, <1>5, <1>7, <2>1, {} \in SUBSET Filings DEF ReadPay
<1> QED BY <1>6, <1>7 DEF PayStep

-------------------------------------------------------------------------------
(* The ranking of a sector and the total of events: what is left to look up    *)
(* has room.                                                                   *)

LEMMA Countable ==
  ASSUME NEW S \in SUBSET Subjects
  PROVE  /\ IsFiniteSet(S) /\ Cardinality(S) \in Nat /\ Cardinality({}) = 0
         /\ \A s \in S : Cardinality(S \ {s}) = Cardinality(S) - 1
<1>1. IsFiniteSet(S) BY RouteAssumption, FS_Subset
<1> QED BY <1>1, FS_CardinalityType, FS_EmptySet, FS_RemoveElement

LEMMA SectorKeeps == RouteInv /\ ResolveSector => StepKept
<1> SUFFICES ASSUME RouteInv, ResolveSector PROVE StepKept
  OBVIOUS
<1>0. stage = "sector" /\ stage \in FirstStages BY DEF ResolveSector, FirstStages
<1>1. /\ AgentTypeOK /\ RouteTyped /\ pc \in Routes /\ pc = "route" /\ CanCall /\ result = NoResult
      /\ toolCalls = 0 /\ Idle
  BY <1>0, AtFirst DEF RouteInv, RoomInv
<1>2. CASE Limit BY <1>1, <1>2, EndsFree, QuitKeeps
<1>3. CASE CallEndsRun \/ RaiseEndsRun \/ ResultEndsRun BY <1>1, <1>3, CallEnds, QuitKeeps
<1>4. ASSUME ToolBudgetLeft, NEW margin \in BOOLEAN, Reply({}),
             Move(IF margin THEN "margins" ELSE "amounts"),
             todo' \in {c \in SUBSET asked : Cardinality(c) = Smaller(Cardinality(asked), Capacity(margin))},
             named' = asked \ todo',
             UNCHANGED <<subject, local, owed, reach>>
      PROVE  StepKept
  <2>1. Made({}, pc) BY <1>1, <1>4, NothingFound
  <2>2. pc' = pc /\ toolCalls' = 1 /\ result' = result /\ [Next]_vars BY <1>1, <2>1 DEF Made
  <2>3. stage' \in {"margins", "amounts"} /\ asked' = asked /\ todo' \in SUBSET asked BY <1>4 DEF Move
  <2>4. RouteTyped' BY <1>1, <1>4, <2>3 DEF RouteTyped, Stages
  <2>5. PlaceKept BY <1>1, <2>2, <2>3 DEF PlaceKept, FirstStages, PinnedStages, LastStages
  <2>6. RoomInv'
    <3>1. Cardinality(asked) \in Nat /\ Cardinality(todo') \in Nat /\ MaxToolCalls \in Nat \ {0}
      BY <1>1, <2>3, Countable, AgentAssumption DEF RouteTyped
    <3>2. Cardinality(todo') = Smaller(Cardinality(asked), Capacity(margin)) BY <1>4
    <3>3. CASE MaxToolCalls = 1
      <4>1. Cardinality(todo') = 0 BY <3>1, <3>2, <3>3 DEF Capacity, Smaller
      <4>2. todo' = {} BY <1>1, <2>3, <4>1, Countable, FS_EmptySet DEF RouteTyped
      <4> QED BY <1>1, <1>4, <2>3, <3>3, <4>2 DEF RoomInv, SectorRoom, Idle
    <3>4. CASE MaxToolCalls # 1
      <4>1. Capacity(TRUE) = (MaxToolCalls - 2) \div 2 /\ Capacity(FALSE) = MaxToolCalls - 2
        BY <3>1, <3>4 DEF Capacity, RatioCapacity, RankCapacity
      <4>2. (MaxToolCalls - 2) \div 2 \in Nat /\ 2 * ((MaxToolCalls - 2) \div 2) <= MaxToolCalls - 2
        BY <3>1, <3>4
      <4> DEFINE half == (MaxToolCalls - 2) \div 2
      <4> HIDE DEF half
      <4>a. half \in Nat /\ 2 * half <= MaxToolCalls - 2 /\ Capacity(TRUE) = half
        BY <4>1, <4>2 DEF half
      <4>3. ASSUME margin = TRUE PROVE 2 * Cardinality(todo') <= MaxToolCalls - 2
        <5>1. Cardinality(todo') = Smaller(Cardinality(asked), half) BY <3>2, <4>3, <4>a
        <5>2. Cardinality(todo') <= half BY <3>1, <4>a, <5>1 DEF Smaller
        <5> QED BY <3>1, <4>a, <5>2
      <4>4. ASSUME margin = FALSE PROVE Cardinality(todo') <= MaxToolCalls - 2
        <5>1. Cardinality(todo') = Smaller(Cardinality(asked), MaxToolCalls - 2) BY <3>2, <4>1, <4>4
        <5> QED BY <3>1, <5>1 DEF Smaller
      <4>5. stage' = "margins" => margin = TRUE BY <1>4 DEF Move
      <4>6. stage' = "amounts" => margin = FALSE BY <1>4 DEF Move
      <4>7. subject' = NoSubject BY <1>1, <1>4 DEF Idle
      <4>8. stage' = "margins" => SectorRoom(2 * Cardinality(todo) + (IF subject = NoSubject THEN 0 ELSE 1))'
        BY <2>2, <3>1, <3>4, <4>3, <4>5, <4>7 DEF SectorRoom
      <4>9. ASSUME stage' = "amounts" PROVE SectorRoom(Cardinality(todo))'
        <5>1. Cardinality(todo') <= MaxToolCalls - 2 BY <4>4, <4>6, <4>9, Zenon
        <5> QED BY <2>2, <3>1, <3>4, <5>1 DEF SectorRoom
      <4> QED BY <2>3, <4>7, <4>8, <4>9 DEF RoomInv
    <3> QED BY <3>3, <3>4
  <2>7. CoverInv' BY <1>1, <1>4, <2>3 DEF CoverInv, Idle
  <2>8. RuleInv' BY <1>0, <1>4, RuleKept DEF EveryStages, Stages
  <2> QED BY <1>1, <2>2, <2>3, <2>4, <2>5, <2>6, <2>7, <2>8, GoesOn
<1> QED BY <1>2, <1>3, <1>4 DEF ResolveSector

(* A company of the sector is looked up, or its ratio calculated.              *)
LEMMA CandidateKeeps ==
  ASSUME RouteInv, stage \in {"margins", "amounts"}, stage' = stage, asked' = asked,
         UNCHANGED reach, NEW found \in SUBSET Filings, Made(found, pc),
         RouteTyped', RoomInv', CoverInv'
  PROVE  StepKept
<1>1. stage \in FirstStages /\ stage # "over" BY DEF FirstStages
<1>2. pc = "route" /\ result = NoResult BY <1>1, AtFirst
<1>3. [Next]_vars /\ result' = result /\ pc' = pc BY DEF Made
<1>4. PlaceKept BY <1>1, <1>2, <1>3 DEF PlaceKept, PinnedStages, LastStages
<1>5. RuleInv' BY RuleKept DEF EveryStages, Stages
<1> QED BY <1>1, <1>2, <1>3, <1>4, <1>5, GoesOn

LEMMA CandidatesKeep == ASSUME RouteInv, NEW s \in Subjects, SearchCandidate(s) PROVE StepKept
<1>0. /\ stage \in {"margins", "amounts"} /\ stage \in FirstStages
      /\ subject = NoSubject /\ s \in todo /\ ToolBudgetLeft
  BY DEF SearchCandidate, FirstStages
<1>1. AgentTypeOK /\ RouteTyped /\ pc \in Routes /\ pc = "route" /\ CanCall /\ result = NoResult
  BY <1>0, AtFirst
<1>2. CASE CallEndsRun BY <1>1, <1>2, CallEnds, QuitKeeps
<1>3. ASSUME stage' = stage, asked' = asked, todo' = todo \ {s}, UNCHANGED <<owed, reach>>,
             NEW found \in SUBSET FilingsOf(s), Made(found, pc),
             \/ named' = named \cup {s} /\ UNCHANGED <<subject, local>>
             \/ stage = "amounts" /\ found # {} /\ UNCHANGED <<subject, local, named>>
             \/ /\ stage = "margins" /\ subject' = s /\ named' = named
                /\ local' # {} /\ local' \subseteq FilingsOf(s)
      PROVE  StepKept
  <2>1. found \in SUBSET Filings /\ s \in Subjects /\ s \in asked BY <1>0, <1>1 DEF FilingsOf, RouteTyped
  <2>2. RouteTyped' BY <1>1, <1>3, <2>1 DEF RouteTyped, FilingsOf
  <2>3. RoomInv'
    <3>1. todo \in SUBSET Subjects BY <1>1 DEF RouteTyped
    <3>2. /\ Cardinality(todo) \in Nat /\ Cardinality(todo') \in Nat
          /\ Cardinality(todo') = Cardinality(todo) - 1
      BY <1>0, <1>3, <3>1, Countable
    <3>3. toolCalls \in Nat /\ toolCalls' = toolCalls + 1 /\ MaxToolCalls \in Nat
      BY <1>1, <1>3, AgentAssumption DEF Made, AgentTypeOK
    <3>4. MaxToolCalls # 1 /\ NoSubject \notin Subjects
      BY <1>0, RouteAssumption DEF RouteInv, RoomInv, SectorRoom
    <3>5. CASE stage = "amounts"
      <4>1. toolCalls + Cardinality(todo) + 1 <= MaxToolCalls BY <3>4, <3>5 DEF RouteInv, RoomInv, SectorRoom
      <4>2. toolCalls' + Cardinality(todo') + 1 <= MaxToolCalls BY <3>2, <3>3, <4>1
      <4>3. SectorRoom(Cardinality(todo))' BY <3>4, <4>2 DEF SectorRoom
      <4>4. subject' = NoSubject BY <1>0, <1>3, <3>5
      <4> QED BY <1>3, <3>5, <4>3, <4>4 DEF RoomInv
    <3>6. CASE stage = "margins"
      <4>1. toolCalls + 2 * Cardinality(todo) + 1 <= MaxToolCalls
        BY <1>0, <3>2, <3>3, <3>4, <3>6 DEF RouteInv, RoomInv, SectorRoom
      <4>2. /\ toolCalls' + (2 * Cardinality(todo') + 0) + 1 <= MaxToolCalls
            /\ toolCalls' + (2 * Cardinality(todo') + 1) + 1 <= MaxToolCalls
        BY <3>2, <3>3, <4>1
      <4>3. SectorRoom(2 * Cardinality(todo) + (IF subject = NoSubject THEN 0 ELSE 1))'
        BY <3>4, <4>2 DEF SectorRoom
      <4> QED BY <1>3, <3>6, <4>3 DEF RoomInv
    <3> QED BY <1>0, <3>5, <3>6
  <2>4. CoverInv'
    <3>1. evidence' = evidence \cup found /\ Covered(evidence) \subseteq Covered(evidence')
      BY <1>3 DEF Made, Covered
    <3>2. asked \subseteq Covered(evidence) \cup named \cup todo
      BY <1>0, <1>1, RouteAssumption DEF RouteInv, CoverInv, RouteTyped
    <3>3. found # {} => s \in Covered(evidence') BY <1>3, <3>1 DEF Covered, FilingsOf
    <3>4. asked' \subseteq Covered(evidence') \cup named' \cup todo' \cup {subject'}
      BY <1>3, <3>1, <3>2, <3>3
    <3>5. /\ subject' # NoSubject => local' # {} /\ local' \subseteq FilingsOf(subject')
          /\ Covered(evidence)' = Covered(evidence') /\ FilingsOf(subject)' = FilingsOf(subject')
      BY <1>0, <1>3 DEF Covered, FilingsOf
    <3> QED BY <1>0, <1>3, <3>4, <3>5 DEF CoverInv
  <2> QED BY <1>0, <1>3, <2>1, <2>2, <2>3, <2>4, CandidateKeeps
<1>4. CASE /\ Move(stage) /\ todo' = todo \ {s} /\ UNCHANGED <<owed, reach>>
           /\ \/ (Raise \/ Reply({})) /\ Misses(s)
              \/ \E found \in (SUBSET FilingsOf(s)) \ {{}} :
                   \/ stage = "amounts" /\ Reply(found) /\ UNCHANGED <<subject, local, named>>
                   \/ stage = "margins" /\ Reply({}) /\ local' = found /\ subject' = s /\ UNCHANGED named
  <2>1. stage' = stage /\ asked' = asked /\ {} \in SUBSET FilingsOf(s) BY <1>4 DEF Move
  <2>2. CASE (Raise \/ Reply({})) /\ Misses(s)
    <3>1. Made({}, pc) BY <1>0, <1>1, <2>2, NothingFound
    <3> QED BY <1>3, <1>4, <2>1, <2>2, <3>1 DEF Misses
  <2>3. ASSUME NEW found \in (SUBSET FilingsOf(s)) \ {{}}, stage = "amounts", Reply(found), UNCHANGED <<subject, local, named>>
        PROVE  StepKept
    <3>1. found \in SUBSET Filings BY DEF FilingsOf
    <3>2. Made(found, pc) BY <1>0, <1>1, <2>3, <3>1, ReplyMade
    <3>3. found \in SUBSET FilingsOf(s) /\ found # {} BY <2>3
    <3>4. todo' = todo \ {s} /\ UNCHANGED <<owed, reach>> BY <1>4
    <3> QED BY <1>3, <2>1, <2>3, <3>2, <3>3, <3>4
  <2>4. ASSUME NEW found \in (SUBSET FilingsOf(s)) \ {{}}, stage = "margins", Reply({}), local' = found,
               subject' = s, UNCHANGED named
        PROVE  StepKept
    <3>1. Made({}, pc) BY <1>0, <1>1, <2>4, NothingFound
    <3>2. local' # {} /\ local' \subseteq FilingsOf(s) BY <2>4
    <3>3. todo' = todo \ {s} /\ UNCHANGED <<owed, reach>> BY <1>4
    <3> QED BY <1>3, <2>1, <2>4, <3>1, <3>2, <3>3
  <2> QED BY <1>4, <2>2, <2>3, <2>4
<1> QED BY <1>2, <1>4 DEF SearchCandidate

LEMMA RatioKeeps == RouteInv /\ CandidateRatio => StepKept
<1> SUFFICES ASSUME RouteInv, CandidateRatio PROVE StepKept
  OBVIOUS
<1>0. stage = "margins" /\ stage \in FirstStages /\ subject # NoSubject BY DEF CandidateRatio, FirstStages
<1>1. AgentTypeOK /\ RouteTyped /\ pc \in Routes /\ pc = "route" /\ CanCall /\ result = NoResult
  BY <1>0, AtFirst
<1>2. CASE NoRoomToCalculate \/ CalculationFails BY <1>1, <1>2, CalculationEnds, QuitKeeps
<1>3. CASE /\ ToolBudgetLeft
           /\ Move(stage) /\ subject' = NoSubject /\ local' = {} /\ UNCHANGED <<todo, owed, reach>>
           /\ \/ Reply({}) /\ named' = named \cup {subject}
              \/ Reply(local) /\ UNCHANGED named
  <2>1. PICK found \in {{}, local} :
          /\ Reply(found)
          /\ named' = named \cup {subject} \/ (found = local /\ named' = named)
    BY <1>3
  <2>2. found \in SUBSET Filings /\ subject \in Subjects BY <1>0, <1>1 DEF RouteTyped
  <2>3. Made(found, pc) BY <1>1, <1>3, <2>1, <2>2, ReplyMade
  <2>4. stage' = stage /\ asked' = asked BY <1>3 DEF Move
  <2>5. RouteTyped' BY <1>1, <1>3, <2>1, <2>2, <2>4 DEF RouteTyped
  <2>6. RoomInv'
    <3>1. todo \in SUBSET Subjects BY <1>1 DEF RouteTyped
    <3>2. Cardinality(todo) \in Nat /\ todo' = todo BY <1>3, <3>1, Countable
    <3>3. toolCalls \in Nat /\ toolCalls' = toolCalls + 1 /\ MaxToolCalls \in Nat
      BY <1>1, <2>3, AgentAssumption DEF Made, AgentTypeOK
    <3>4. MaxToolCalls # 1 /\ toolCalls + (2 * Cardinality(todo) + 1) + 1 <= MaxToolCalls
      BY <1>0 DEF RouteInv, RoomInv, SectorRoom
    <3>5. toolCalls' + (2 * Cardinality(todo') + 0) + 1 <= MaxToolCalls BY <3>2, <3>3, <3>4
    <3>6. SectorRoom(2 * Cardinality(todo) + (IF subject = NoSubject THEN 0 ELSE 1))'
      BY <1>3, <3>4, <3>5 DEF SectorRoom
    <3> QED BY <1>0, <2>4, <3>6 DEF RoomInv
  <2>7. CoverInv'
    <3>1. evidence' = evidence \cup found /\ Covered(evidence) \subseteq Covered(evidence')
      BY <2>3 DEF Made, Covered
    <3>2. /\ asked \subseteq Covered(evidence) \cup named \cup todo \cup {subject}
          /\ local # {} /\ local \subseteq FilingsOf(subject)
      BY <1>0 DEF RouteInv, CoverInv
    <3>3. found = local => subject \in Covered(evidence') BY <3>1, <3>2 DEF Covered, FilingsOf
    <3>4. asked' \subseteq Covered(evidence') \cup named' \cup todo' \cup {subject'}
      BY <1>3, <2>1, <2>4, <3>1, <3>2, <3>3
    <3>5. Covered(evidence)' = Covered(evidence') BY DEF Covered
    <3> QED BY <1>0, <1>3, <2>4, <3>4, <3>5 DEF CoverInv
  <2> QED BY <1>0, <1>3, <2>2, <2>3, <2>4, <2>5, <2>6, <2>7, CandidateKeeps
<1> QED BY <1>2, <1>3 DEF CandidateRatio

LEMMA RankKeeps == RouteInv /\ RankCandidates => StepKept
<1> SUFFICES ASSUME RouteInv, RankCandidates PROVE StepKept
  OBVIOUS
<1>0. stage \in {"margins", "amounts"} /\ stage \in FirstStages /\ subject = NoSubject /\ todo = {}
  BY DEF RankCandidates, FirstStages
<1>1. AgentTypeOK /\ RouteTyped /\ pc \in Routes /\ CanCall /\ evidence \in SUBSET Filings
  BY <1>0, AtFirst DEF AgentTypeOK
<1>2. CASE Limit BY <1>1, <1>2, EndsFree, QuitKeeps
<1>3. CASE NoRoomToCalculate \/ CalculationFails BY <1>1, <1>3, CalculationEnds, QuitKeeps
<1>4. CASE ResultEndsRun \/ CallFailsClosed BY <1>1, <1>4, CallEnds, QuitKeeps
<1>5. CASE CallAnswers(evidence, "failed_closed")
  <2>1. Ended(evidence) /\ named' = named BY <1>1, <1>5, CallAnswerEnds DEF CallAnswers, Refusals
  <2>2. asked \subseteq Covered(evidence) \cup named
    BY <1>0, <1>1, RouteAssumption DEF RouteInv, CoverInv, RouteTyped
  <2>3. stage \in EveryStages BY <1>0 DEF EveryStages, Stages
  <2> QED BY <1>1, <2>1, <2>2, <2>3, EveryEnds DEF RouteTyped
<1> QED BY <1>2, <1>3, <1>4, <1>5 DEF RankCandidates

LEMMA TotalKeeps == RouteInv /\ TotalStep => StepKept
<1> SUFFICES ASSUME RouteInv, TotalStep PROVE StepKept
  OBVIOUS
<1>0. stage \in {"total", "types"} /\ stage \in FirstStages /\ stage \in EveryStages
  BY DEF TotalStep, EnterTotal, QueryType, SumTypes, FirstStages, EveryStages, Stages
<1>1. /\ AgentTypeOK /\ RouteTyped /\ pc \in Routes /\ pc = "route" /\ CanCall /\ result = NoResult
      /\ asked \in SUBSET Subjects /\ todo \in SUBSET Subjects
      /\ toolCalls \in Nat /\ MaxToolCalls \in Nat
  BY <1>0, AtFirst, AgentAssumption DEF RouteTyped, AgentTypeOK
<1>2. ASSUME [Next]_vars, result' = result, pc' = pc, stage' = "types", asked' = asked,
             todo' \in SUBSET asked, named' \in SUBSET Subjects, local' \in SUBSET Filings,
             UNCHANGED <<subject, owed, reach>>,
             toolCalls' + Cardinality(todo') + 1 <= MaxToolCalls,
             asked \subseteq Covered(local') \cup named' \cup todo'
      PROVE  StepKept
  <2>1. RouteTyped' BY <1>1, <1>2 DEF RouteTyped, Stages
  <2>2. PlaceKept BY <1>1, <1>2 DEF PlaceKept, PinnedStages, LastStages
  <2>3. RoomInv' BY <1>2 DEF RoomInv
  <2>4. Covered(local)' = Covered(local') BY DEF Covered
  <2>5. CoverInv' BY <1>2, <2>4 DEF CoverInv
  <2>6. RuleInv' BY <1>0, <1>2, RuleKept
  <2> QED BY <1>1, <1>2, <2>1, <2>2, <2>3, <2>5, <2>6, GoesOn
<1>3. CASE Limit \/ OutOfTime BY <1>1, <1>3, EndsFree, QuitKeeps
<1>4. CASE CallEndsRun \/ RaiseEndsRun \/ ResultEndsRun \/ CallFailsClosed
  BY <1>1, <1>4, CallEnds, QuitKeeps
<1>5. CASE NoRoomToCalculate \/ CalculationFails BY <1>1, <1>5, CalculationEnds, QuitKeeps
<1>6. CASE EnterTotal
  <2>1. ASSUME TotalFits, NoCallMade, Move("types"), todo' = asked,
               UNCHANGED <<subject, local, owed, named, reach>>
        PROVE  StepKept
    <3>1. UNCHANGED vars BY <2>1, NothingCalled
    <3>2. result' = result /\ pc' = pc /\ toolCalls' = toolCalls BY <3>1 DEF vars, budget
    <3>3. toolCalls' + Cardinality(todo') + 1 <= MaxToolCalls BY <2>1, <3>2 DEF TotalFits
    <3> QED BY <1>1, <1>2, <2>1, <3>1, <3>2, <3>3 DEF Move, RouteTyped
  <2> QED BY <1>3, <1>6, <2>1 DEF EnterTotal
<1>7. ASSUME NEW s \in Subjects, QueryType(s) PROVE StepKept
  <2>1. CASE /\ Reply({}) /\ Move(stage) /\ todo' = todo \ {s}
             /\ \/ named' = named \cup {s} /\ UNCHANGED local
                \/ \E found \in (SUBSET FilingsOf(s)) \ {{}} : local' = local \cup found /\ UNCHANGED named
             /\ UNCHANGED <<subject, owed, reach>>
    <3>1. stage = "types" /\ s \in todo BY <1>7 DEF QueryType
    <3>2. toolCalls + Cardinality(todo) + 1 <= MaxToolCalls /\ asked \subseteq Covered(local) \cup named \cup todo
      BY <3>1 DEF RouteInv, RoomInv, CoverInv
    <3>3. /\ Cardinality(todo) \in Nat /\ Cardinality(todo') \in Nat
          /\ Cardinality(todo') = Cardinality(todo) - 1
      BY <1>1, <2>1, <3>1, Countable
    <3>4. ToolBudgetLeft BY <1>1, <3>2, <3>3 DEF ToolBudgetLeft
    <3>5. Made({}, pc) BY <1>1, <2>1, <3>4, NothingFound
    <3>6. [Next]_vars /\ result' = result /\ pc' = pc /\ toolCalls' = toolCalls + 1 BY <3>5 DEF Made
    <3>7. toolCalls' + Cardinality(todo') + 1 <= MaxToolCalls BY <1>1, <3>2, <3>3, <3>6
    <3>8. /\ named' \in SUBSET Subjects /\ local' \in SUBSET Filings
          /\ Covered(local) \subseteq Covered(local') /\ named \subseteq named'
          /\ s \in Covered(local') \cup named'
      BY <1>1, <2>1 DEF RouteTyped, FilingsOf, Covered
    <3>9. asked \subseteq Covered(local') \cup named' \cup todo' BY <2>1, <3>2, <3>8
    <3>10. stage' = "types" /\ asked' = asked /\ todo' \in SUBSET asked BY <1>1, <2>1, <3>1 DEF Move, RouteTyped
    <3> QED BY <1>2, <2>1, <3>6, <3>7, <3>8, <3>9, <3>10
  <2> QED BY <1>3, <1>4, <1>7, <2>1 DEF QueryType
<1>8. CASE SumTypes
  <2>1. ASSUME CallAnswers(local, "failed_closed") PROVE StepKept
    <3>1. local \in SUBSET Filings BY <1>1 DEF RouteTyped
    <3>2. Ended(local) /\ named' = named BY <1>1, <2>1, <3>1, CallAnswerEnds DEF CallAnswers, Refusals
    <3>3. asked \subseteq Covered(local) \cup named BY <1>8 DEF SumTypes, RouteInv, CoverInv
    <3> QED BY <1>0, <1>1, <3>2, <3>3, EveryEnds DEF RouteTyped
  <2> QED BY <1>3, <1>4, <1>5, <1>8, <2>1 DEF SumTypes
<1> QED BY <1>6, <1>7, <1>8 DEF TotalStep

-------------------------------------------------------------------------------
(* The events of a company.                                                    *)

LEMMA FirstStageKeeps ==
  ASSUME RouteInv, stage \in FirstStages, [Next]_vars, result' = result, pc' = pc,
         stage' \in FirstStages \ RoomStages, asked' \in SUBSET Subjects,
         todo' \in SUBSET asked', subject' \in Subjects \cup {NoSubject}, named' \in SUBSET Subjects,
         local' \in SUBSET Filings, owed' \in 0..3, rule' \in Rules, checked' \in SUBSET Subjects,
         RuleInv', CoverInv'
  PROVE  StepKept
<1>1. pc = "route" /\ RouteTyped /\ result = NoResult BY AtFirst
<1>2. RouteTyped' BY <1>1 DEF RouteTyped, Stages, FirstStages
<1>3. PlaceKept BY <1>1 DEF PlaceKept, FirstStages, PinnedStages, LastStages
<1>4. RoomInv' BY NoRoomOwed
<1>5. stage' # "over" BY DEF FirstStages
<1> QED BY <1>1, <1>2, <1>3, <1>4, <1>5, GoesOn

LEMMA LaterKeeps ==
  ASSUME RouteInv, stage \in FirstStages, [Next]_vars, result' = result, pc' = pc, Later
  PROVE  StepKept
<1>1. pc = "route" /\ RouteTyped /\ result = NoResult BY AtFirst
<1>2. /\ stage' = "periodic" /\ asked' = asked /\ Cleared /\ UNCHANGED named
      /\ rule' = "every" /\ checked' = {}
  BY DEF Later, Move
<1>3. RouteTyped' BY <1>1, <1>2 DEF RouteTyped, Stages, Rules, Cleared
<1>4. PlaceKept BY <1>1, <1>2 DEF PlaceKept, FirstStages, PinnedStages, LastStages
<1>5. RoomInv' BY <1>2 DEF RoomInv, Cleared, Idle
<1>6. CoverInv' BY <1>2, NoCoverOwed DEF CoverStages
<1>7. RuleInv' BY <1>2 DEF RuleInv
<1> QED BY <1>1, <1>2, <1>3, <1>4, <1>5, <1>6, <1>7, GoesOn

LEMMA PinKeeps == RouteInv /\ PinCompany => StepKept
<1> SUFFICES ASSUME RouteInv, PinCompany PROVE StepKept
  OBVIOUS
<1>0. stage = "pin" /\ stage \in FirstStages /\ stage \in EveryStages /\ ToolBudgetLeft
  BY DEF PinCompany, FirstStages, EveryStages, Stages
<1>1. /\ AgentTypeOK /\ RouteTyped /\ pc \in Routes /\ pc = "route" /\ CanCall /\ result = NoResult /\ Idle
  BY <1>0, AtFirst DEF RouteInv, RoomInv
<1>2. CASE CallEndsRun \/ ResultEndsRun BY <1>1, <1>2, CallEnds, QuitKeeps
<1>3. ASSUME Raise \/ Reply({}) \/ (Found({}, pc) /\ Remember /\ UNCHANGED histories)
      PROVE  [Next]_vars /\ result' = result /\ pc' = pc
  BY <1>0, <1>1, <1>3, NothingFound DEF Made
<1>4. CASE (Raise \/ Reply({})) /\ Later BY <1>0, <1>3, <1>4, LaterKeeps
<1>5. ASSUME Found({}, pc), Remember, UNCHANGED histories,
             NEW st \in {"total", "events", "periodic"}, Settled(st)
      PROVE  StepKept
  BY <1>0, <1>1, <1>3, <1>5, SettledKeeps
<1>6. CASE /\ Reply({}) /\ Cardinality(asked) = 2
           /\ Move("plans") \/ Move("facilities")
           /\ todo' = asked /\ UNCHANGED <<subject, local, owed, named, reach>>
  <2>1. stage' \in {"plans", "facilities"} /\ asked' = asked /\ subject' = NoSubject BY <1>1, <1>6 DEF Move, Idle
  <2>2. stage' \in FirstStages \ RoomStages BY <2>1 DEF FirstStages, RoomStages
  <2>3. CoverInv' BY <1>6, <2>1 DEF CoverInv
  <2>4. RuleInv' BY <1>0, <1>6, RuleKept
  <2> QED BY <1>0, <1>1, <1>3, <1>6, <2>1, <2>2, <2>3, <2>4, FirstStageKeeps DEF RouteTyped
<1> QED BY <1>2, <1>4, <1>5, <1>6 DEF PinCompany

LEMMA AllTypesKeep == RouteInv /\ QueryAllTypes => StepKept
<1> SUFFICES ASSUME RouteInv, QueryAllTypes PROVE StepKept
  OBVIOUS
<1>0. stage = "events" /\ stage \in FirstStages BY DEF QueryAllTypes, FirstStages
<1>1. /\ AgentTypeOK /\ RouteTyped /\ pc \in Routes /\ pc = "route" /\ CanCall /\ result = NoResult /\ Idle
  BY <1>0, AtFirst DEF RouteInv, RoomInv
<1>2. CASE NoCallMade /\ Later
  <2>1. UNCHANGED vars BY <1>2, NothingCalled
  <2>2. [Next]_vars /\ result' = result /\ pc' = pc BY <2>1 DEF vars
  <2> QED BY <1>0, <1>2, <2>2, LaterKeeps
<1>3. CASE CallEndsRun BY <1>1, <1>3, CallEnds, QuitKeeps
<1>4. ASSUME ToolBudgetLeft, Raise \/ (ToolError(pc) /\ Remember) \/ (Found({}, pc) /\ Remember /\ UNCHANGED histories)
      PROVE  [Next]_vars /\ result' = result /\ pc' = pc
  BY <1>1, <1>4, NothingFound DEF Made
<1>5. CASE ToolBudgetLeft /\ (Raise \/ (ToolError(pc) /\ Remember)) /\ Later BY <1>0, <1>4, <1>5, LaterKeeps
<1>6. CASE /\ ToolBudgetLeft /\ Found({}, pc) /\ Remember /\ UNCHANGED <<histories, subject, named>>
           /\ \/ /\ Move("funding") /\ checked' = asked /\ rule' = "checked" /\ owed' \in 0..2
                 /\ UNCHANGED <<todo, local>>
              \/ \E found \in SUBSET {f \in Filings : About[f] \in asked} :
                   /\ Move("missing") /\ local' = found /\ checked' = Covered(found)
                   /\ todo' = IF Cardinality(asked) >= 2 THEN asked \ Covered(found) ELSE {}
                   /\ UNCHANGED <<owed, rule>>
  <2>1. /\ stage' \in {"funding", "missing"} /\ asked' = asked
        /\ stage' = "funding" => rule' = "checked" /\ checked' = asked
        /\ stage' = "missing" => rule' = rule /\ checked' = Covered(local') /\ Covered(local') \subseteq asked
        /\ rule' \in {"checked", rule} /\ checked' \in {asked, Covered(local')}
    BY <1>6 DEF Move, Covered
  <2>2. stage' \in FirstStages \ RoomStages BY <2>1 DEF FirstStages, RoomStages
  <2>3. rule = "every" BY <1>0 DEF RouteInv, RuleInv, EveryStages, Stages
  <2>4. Covered(local)' = Covered(local') BY DEF Covered
  <2>5. CoverInv' BY <2>1, <2>4 DEF CoverInv
  <2>6. /\ todo' \in SUBSET asked' /\ local' \in SUBSET Filings /\ named' \in SUBSET Subjects
        /\ owed' \in 0..3 /\ subject' = subject
    BY <1>1, <1>6, <2>1 DEF RouteTyped
  <2>7. RuleInv' BY <2>1, <2>3 DEF RuleInv, EveryStages
  <2>8. Covered(local') \subseteq asked \/ checked' = asked BY <2>1
  <2>9. rule' \in Rules /\ checked' \in SUBSET Subjects BY <1>1, <2>1, <2>3, <2>8 DEF Rules, RouteTyped
  <2> QED BY <1>0, <1>1, <1>4, <1>6, <2>1, <2>2, <2>5, <2>6, <2>7, <2>9, FirstStageKeeps DEF RouteTyped
<1> QED BY <1>2, <1>3, <1>5, <1>6 DEF QueryAllTypes, EventsOpen

LEMMA FundingKeeps == RouteInv /\ (SearchFunding \/ AnswerFunding) => StepKept
<1> SUFFICES ASSUME RouteInv, SearchFunding \/ AnswerFunding PROVE StepKept
  OBVIOUS
<1>0. stage = "funding" /\ stage \in FirstStages /\ rule = "checked" /\ asked \subseteq checked
  BY DEF SearchFunding, AnswerFunding, FirstStages, RouteInv, CoverInv
<1>1. /\ AgentTypeOK /\ RouteTyped /\ pc \in Routes /\ CanCall
      /\ local \in SUBSET Filings /\ named \in SUBSET Subjects /\ asked \in SUBSET Subjects
  BY <1>0, AtFirst DEF RouteTyped
<1>2. CASE Limit BY <1>1, <1>2, EndsFree, QuitKeeps
<1>3. CASE CallEndsRun BY <1>1, <1>3, CallEnds, QuitKeeps
<1>4. CASE SearchFunding /\ ~CallEndsRun
  <2>1. /\ Raise \/ Reply({})
        /\ Move(stage) /\ owed' = owed - 1 /\ UNCHANGED <<todo, subject, named, reach>>
        /\ local' \in SUBSET Filings /\ owed > 0 /\ ToolBudgetLeft
    BY <1>1, <1>4 DEF SearchFunding, EventsOpen
  <2>2. [Next]_vars /\ result' = result /\ pc' = pc BY <1>1, <2>1, NothingFound DEF Made
  <2>3. stage' = "funding" /\ asked' = asked BY <1>0, <2>1 DEF Move
  <2>4. stage' \in FirstStages \ RoomStages BY <2>3 DEF FirstStages, RoomStages
  <2>5. CoverInv' BY <1>0, <2>1, <2>3 DEF CoverInv
  <2>6. owed' \in 0..3 BY <1>1, <2>1 DEF RouteTyped
  <2>7. RuleInv' BY <2>3, NoRuleOwed DEF EveryStages
  <2> QED BY <1>0, <1>1, <2>1, <2>2, <2>3, <2>4, <2>5, <2>6, <2>7, FirstStageKeeps DEF RouteTyped
<1>5. ASSUME NEW absent \in SUBSET asked, AnswerNaming(absent, local, "failed_closed") PROVE StepKept
  <2>1. Ended(local) /\ named' = absent BY <1>1, <1>5, AnswerEnds DEF Refusals
  <2>2. Reaches(local, named') BY <1>0, ReachesChecked
  <2> QED BY <1>1, <2>1, <2>2, EndedKeeps
<1> QED BY <1>2, <1>3, <1>4, <1>5 DEF AnswerFunding

LEMMA MissingKeeps == RouteInv /\ (MissingTypeEndsRun \/ \E s \in Subjects : QueryMissingType(s)) => StepKept
<1> SUFFICES ASSUME RouteInv, MissingTypeEndsRun \/ \E s \in Subjects : QueryMissingType(s) PROVE StepKept
  OBVIOUS
<1>0. /\ stage = "missing" /\ stage \in FirstStages /\ stage \in FirstStages \ RoomStages
      /\ stage \in EveryStages
      /\ Covered(local) \subseteq asked /\ checked \subseteq Covered(local) \cup named
  BY DEF MissingTypeEndsRun, QueryMissingType, FirstStages, RoomStages, EveryStages, Stages, RouteInv, CoverInv
<1>1. AgentTypeOK /\ RouteTyped /\ pc \in Routes /\ CanCall BY <1>0, AtFirst
<1>2. CASE MissingTypeEndsRun BY <1>1, <1>2, CallEnds, QuitKeeps DEF MissingTypeEndsRun
<1>3. ASSUME NEW s \in Subjects, QueryMissingType(s) PROVE StepKept
  <2>1. /\ Move(stage) /\ todo' \in SUBSET todo /\ UNCHANGED <<subject, owed, rule>>
        /\ s \in asked
    BY <1>1, <1>3 DEF QueryMissingType, LeaveLoop, RouteTyped
  <2>2. NoCallMade \/ (ToolBudgetLeft /\ (Raise \/ (Found({}, pc) /\ Remember /\ UNCHANGED histories)))
    BY <1>3 DEF QueryMissingType, EventsOpen
  <2>3. UNCHANGED vars \/ Made({}, pc) BY <1>1, <2>2, NothingCalled, NothingFound
  <2>4. [Next]_vars /\ result' = result /\ pc' = pc BY <2>3 DEF Made, vars
  <2>5. \/ local' = local /\ named' = named /\ checked' = checked
        \/ local' = local /\ named' = named \cup {s} /\ checked' = checked \cup {s}
        \/ \E found \in SUBSET FilingsOf(s) :
             local' = local \cup found /\ named' = named /\ checked' = checked \cup Covered(found)
    BY <1>3 DEF QueryMissingType
  <2>6. \A found \in SUBSET FilingsOf(s) :
          found \in SUBSET Filings /\ Covered(found) \subseteq {s} /\ Covered(local \cup found) = Covered(local) \cup Covered(found)
    BY DEF FilingsOf, Covered
  <2>7. /\ local' \in SUBSET Filings /\ named' \in SUBSET Subjects /\ checked' \in SUBSET Subjects
        /\ Covered(local') \subseteq asked /\ checked' \subseteq Covered(local') \cup named'
    BY <1>0, <1>1, <2>1, <2>5, <2>6 DEF RouteTyped
  <2>8. Covered(local)' = Covered(local') BY DEF Covered
  <2>9. stage' = "missing" /\ asked' = asked BY <1>0, <2>1 DEF Move
  <2>10. CoverInv' BY <2>7, <2>8, <2>9 DEF CoverInv
  <2>11. RuleInv' BY <1>0, <2>1, RuleKept
  <2> QED BY <1>0, <1>1, <2>1, <2>4, <2>7, <2>9, <2>10, <2>11, FirstStageKeeps DEF RouteTyped
<1> QED BY <1>2, <1>3

LEMMA SelectionsKeep == RouteInv /\ SelectEvents => StepKept
<1> SUFFICES ASSUME RouteInv, SelectEvents PROVE StepKept
  OBVIOUS
<1>0. /\ stage = "missing" /\ stage \in FirstStages
      /\ rule = "every" /\ Covered(local) \subseteq asked /\ checked \subseteq Covered(local) \cup named
  BY DEF SelectEvents, FirstStages, RouteInv, RuleInv, EveryStages, Stages, CoverInv
<1>1. /\ AgentTypeOK /\ RouteTyped /\ pc \in Routes /\ CanCall
      /\ local \in SUBSET Filings /\ evidence \in SUBSET Filings /\ asked \in SUBSET Subjects
      /\ pc = "route" /\ result = NoResult
  BY <1>0, AtFirst DEF RouteTyped, AgentTypeOK
<1>2. CASE Limit BY <1>1, <1>2, EndsFree, QuitKeeps
<1>3. CASE SelectEvents /\ ~Limit
  <2>1. PICK kept \in SUBSET local :
          /\ Select(evidence \cup kept)
          /\ \/ Later
             \/ /\ kept # {} /\ Cleared /\ UNCHANGED <<named, checked>>
                /\ \/ /\ asked \subseteq checked /\ Move("direct")
                      /\ rule' = "checked" \/ (Covered(kept) = Covered(local) /\ rule' = "every")
                   \/ Move("difference") /\ rule' = "any"
    BY <1>3 DEF SelectEvents
  <2>2. evidence \cup kept \in SUBSET Filings BY <1>1
  <2>3. Next /\ pc' = pc /\ result' = result /\ evidence' = evidence \cup kept
    BY <1>1, <2>1, <2>2, SelectMade
  <2>4. CASE Later BY <1>0, <2>3, <2>4, LaterKeeps
  <2>5. Covered(kept) \subseteq Covered(local) /\ Covered(kept) \subseteq Covered(evidence)'
    BY <2>3 DEF Covered
  <2>6. CASE /\ Cleared /\ UNCHANGED <<named, checked>>
             /\ asked \subseteq checked /\ Move("direct")
             /\ rule' = "checked" \/ (Covered(kept) = Covered(local) /\ rule' = "every")
    <3>1. stage' = "direct" /\ asked' = asked /\ named' = named /\ checked' = checked BY <2>6 DEF Move
    <3>2. rule' = "every" => asked' \subseteq Covered(evidence)' \cup named' BY <1>0, <2>5, <2>6, <3>1
    <3>3. CoverInv' BY <2>6, <3>1, <3>2 DEF CoverInv
    <3>4. RuleInv' BY <3>1, NoRuleOwed DEF EveryStages
    <3>5. stage' \in FirstStages \ RoomStages BY <3>1 DEF FirstStages, RoomStages
    <3>6. rule' \in Rules /\ checked' \in SUBSET Subjects BY <1>1, <2>6, <3>1 DEF Rules, RouteTyped
    <3> QED BY <1>0, <1>1, <2>3, <2>6, <3>1, <3>3, <3>4, <3>5, <3>6, FirstStageKeeps DEF RouteTyped, Cleared
  <2>7. CASE kept # {} /\ Cleared /\ UNCHANGED <<named, checked>> /\ Move("difference") /\ rule' = "any"
    <3>1. stage' = "difference" /\ asked' = asked BY <2>7 DEF Move
    <3>2. Covered(kept) # {} BY <2>7 DEF Covered
    <3>3. asked' \cap Covered(evidence)' # {} BY <1>0, <2>5, <3>1, <3>2
    <3>4. CoverInv' BY <2>7, <3>1, <3>3 DEF CoverInv
    <3>5. RuleInv' BY <3>1, NoRuleOwed DEF EveryStages
    <3>6. stage' \in FirstStages \ RoomStages BY <3>1 DEF FirstStages, RoomStages
    <3>7. rule' \in Rules /\ checked' \in SUBSET Subjects BY <1>1, <2>7 DEF Rules, RouteTyped
    <3> QED BY <1>0, <1>1, <2>3, <2>7, <3>1, <3>4, <3>5, <3>6, <3>7, FirstStageKeeps DEF RouteTyped, Cleared
  <2> QED BY <2>1, <2>4, <2>6, <2>7
<1> QED BY <1>2, <1>3

LEMMA DifferenceKeeps == RouteInv /\ CalculateDifference => StepKept
<1> SUFFICES ASSUME RouteInv, CalculateDifference PROVE StepKept
  OBVIOUS
<1>0. stage = "difference" /\ stage \in FirstStages BY DEF CalculateDifference, FirstStages
<1>1. AgentTypeOK /\ RouteTyped /\ pc \in Routes /\ CanCall /\ evidence \in SUBSET Filings
  BY <1>0, AtFirst DEF AgentTypeOK
<1>2. CASE NoRoomToCalculate \/ CalculationFails BY <1>1, <1>2, CalculationEnds, QuitKeeps
<1>3. CASE ResultEndsRun BY <1>1, <1>3, CallEnds, QuitKeeps
<1>4. CASE CallAnswers(evidence, "information_limit")
  <2>1. Ended(evidence) /\ named' = named BY <1>1, <1>4, CallAnswerEnds DEF CallAnswers, Refusals
  <2>2. rule = "any" /\ asked \cap Covered(evidence) # {} BY <1>0 DEF RouteInv, CoverInv
  <2>3. Reaches(evidence, named') BY <2>2 DEF Reaches
  <2> QED BY <1>1, <2>1, <2>3, EndedKeeps DEF RouteTyped
<1> QED BY <1>2, <1>3, <1>4 DEF CalculateDifference

(* An answer from the evidence, which reaches what it owes.                    *)
LEMMA PackedKeeps ==
  ASSUME RouteInv, pc \in Routes, NEW missing \in SUBSET Subjects, AnswerIfPacked(evidence, missing),
         evidence # {} => Reaches(evidence, missing)
  PROVE  StepKept
<1>1. evidence \in SUBSET Filings BY DEF RouteInv, RunInv, AgentTypeOK
<1>2. Ended(evidence) /\ named' = missing /\ evidence # {} BY <1>1, PackedAnswerEnds
<1> QED BY <1>1, <1>2, EndedKeeps

LEMMA DirectKeeps == RouteInv /\ AnswerEvents => StepKept
<1> SUFFICES ASSUME RouteInv, AnswerEvents PROVE StepKept
  OBVIOUS
<1>0. /\ stage = "direct" /\ stage \in FirstStages /\ "merger" \in FirstStages \ RoomStages
      /\ asked \subseteq checked
      /\ rule = "checked" \/ (rule = "every" /\ asked \subseteq Covered(evidence) \cup named)
  BY DEF AnswerEvents, FirstStages, RoomStages, RouteInv, CoverInv
<1>1. /\ AgentTypeOK /\ RouteTyped /\ pc \in Routes /\ {} \in SUBSET Filings
      /\ named \in SUBSET Subjects /\ {} \in SUBSET Subjects
  BY <1>0, AtFirst DEF RouteTyped
<1>2. CASE AnswerIfPacked(evidence, named)
  <2>1. Reaches(evidence, named) BY <1>0, ReachesAll, ReachesChecked
  <2> QED BY <1>1, <1>2, <2>1, PackedKeeps
<1>3. CASE rule = "checked" /\ AnswerIfPacked(evidence, {})
  <2>1. Reaches(evidence, {}) BY <1>0, <1>3, ReachesChecked
  <2> QED BY <1>1, <1>3, <2>1, PackedKeeps
<1>4. CASE NoCallMade /\ (Later \/ Settled("merger"))
  <2>1. UNCHANGED vars BY <1>4, NothingCalled
  <2>2. [Next]_vars /\ result' = result /\ pc' = pc /\ evidence' = evidence BY <2>1 DEF vars, knowledge
  <2>3. CASE Later BY <1>0, <2>2, <2>3, LaterKeeps
  <2>4. CASE Settled("merger")
    <3>1. stage' = "merger" /\ asked' = asked /\ Cleared /\ UNCHANGED <<named, reach>>
      BY <2>4 DEF Settled, Move
    <3>2. CoverInv' BY <1>0, <3>1 DEF CoverInv
    <3>3. RuleInv' BY <3>1, NoRuleOwed DEF EveryStages
    <3> QED BY <1>0, <1>1, <2>2, <3>1, <3>2, <3>3, FirstStageKeeps DEF RouteTyped, Cleared
  <2> QED BY <1>4, <2>3, <2>4
<1>5. CASE Select({}) /\ Later
  <2>1. Next /\ pc' = pc /\ result' = result BY <1>1, <1>5, SelectMade
  <2> QED BY <1>0, <1>5, <2>1, LaterKeeps
<1> QED BY <1>2, <1>3, <1>4, <1>5 DEF AnswerEvents

LEMMA MergerKeeps == RouteInv /\ EnterMerger => StepKept
<1> SUFFICES ASSUME RouteInv, EnterMerger PROVE StepKept
  OBVIOUS
<1>0. /\ stage = "merger" /\ stage \in FirstStages /\ "target" \in FirstStages \ RoomStages
      /\ asked \subseteq checked
  BY DEF EnterMerger, FirstStages, RoomStages, RouteInv, CoverInv
<1>1. AgentTypeOK /\ RouteTyped /\ pc \in Routes /\ evidence \in SUBSET Filings
  BY <1>0, AtFirst DEF AgentTypeOK
<1>2. CASE Limit \/ Fail BY <1>1, <1>2, EndsFree, QuitKeeps
<1>3. ASSUME NEW kept \in SUBSET evidence, NEW s \in Subjects \ asked, Select(kept),
             stage' = "target", asked' = asked \cup {s}, subject' = s,
             named' \in {named, {}}, rule' = "checked",
             UNCHANGED <<todo, local, owed, checked>>
      PROVE  StepKept
  <2>1. kept \in SUBSET Filings BY <1>1
  <2>2. Next /\ pc' = pc /\ result' = result BY <1>1, <1>3, <2>1, SelectMade
  <2>3. CoverInv' BY <1>0, <1>3 DEF CoverInv
  <2>4. RuleInv' BY <1>3, NoRuleOwed DEF EveryStages
  <2>5. rule' \in Rules /\ checked' \in SUBSET Subjects /\ named' \in SUBSET Subjects
    BY <1>1, <1>3 DEF Rules, RouteTyped
  <2> QED BY <1>0, <1>1, <1>3, <2>2, <2>3, <2>4, <2>5, FirstStageKeeps DEF RouteTyped
<1> QED BY <1>2, <1>3 DEF EnterMerger

LEMMA TargetKeeps == RouteInv /\ FollowMerger => StepKept
<1> SUFFICES ASSUME RouteInv, FollowMerger PROVE StepKept
  OBVIOUS
<1>0. /\ stage \in {"target", "capital"} /\ stage \in FirstStages /\ "capital" \in FirstStages \ RoomStages
      /\ subject \in Subjects /\ asked \subseteq checked \cup {subject} /\ rule = "checked"
  BY DEF FollowMerger, FirstStages, RoomStages, RouteInv, CoverInv
<1>1. /\ AgentTypeOK /\ RouteTyped /\ pc \in Routes /\ CanCall /\ evidence \in SUBSET Filings
      /\ CapitalMissing \in SUBSET Subjects /\ "failed_closed" \in Refusals
      /\ Reaches(evidence, CapitalMissing)
  BY <1>0, AtFirst, ReachesChecked DEF AgentTypeOK, CapitalMissing, RouteTyped, Refusals
<1>2. CASE AnswerNaming(CapitalMissing, evidence, "failed_closed")
  <2>1. Ended(evidence) /\ named' = CapitalMissing BY <1>1, <1>2, AnswerEnds
  <2> QED BY <1>1, <2>1, EndedKeeps
<1>3. CASE \/ RaiseAnswersNaming(CapitalMissing, evidence, "failed_closed")
           \/ CallAnswersNaming(CapitalMissing, evidence, "failed_closed")
  <2>1. Ended(evidence) /\ named' = CapitalMissing BY <1>1, <1>3, CallAnswerEnds
  <2> QED BY <1>1, <2>1, EndedKeeps
<1>4. CASE CallEndsRun BY <1>1, <1>4, CallEnds, QuitKeeps
<1>5. CASE EventsOpen /\ Reply({}) /\ Move("capital") /\ UNCHANGED <<work, named, reach>>
  <2>1. Made({}, pc) BY <1>1, <1>5, NothingFound DEF EventsOpen
  <2>2. [Next]_vars /\ result' = result /\ pc' = pc BY <2>1 DEF Made
  <2>3. stage' = "capital" /\ asked' = asked /\ UNCHANGED <<todo, subject, local, owed, named, reach>>
    BY <1>5 DEF Move, work
  <2>4. CoverInv' BY <1>0, <2>3 DEF CoverInv
  <2>5. RuleInv' BY <2>3, NoRuleOwed DEF EveryStages
  <2> QED BY <1>0, <1>1, <2>2, <2>3, <2>4, <2>5, FirstStageKeeps DEF RouteTyped
<1>6. ASSUME NEW found \in (SUBSET FilingsOf(subject)) \ {{}}, CallAnswers(evidence \cup found, "failed_closed")
      PROVE  StepKept
  <2>1. evidence \cup found \in SUBSET Filings BY <1>1 DEF FilingsOf
  <2>2. Ended(evidence \cup found) /\ named' = named BY <1>1, <1>6, <2>1, CallAnswerEnds DEF CallAnswers
  <2>3. subject \in Covered(evidence \cup found) BY DEF Covered, FilingsOf
  <2>4. Reaches(evidence \cup found, named) BY <1>0, <2>3, ReachesChecked
  <2> QED BY <1>1, <2>2, <2>4, EndedKeeps DEF RouteTyped
<1> QED BY <1>2, <1>3, <1>4, <1>5, <1>6 DEF FollowMerger

-------------------------------------------------------------------------------
(* The comparison of two companies' plans or facilities.                       *)

LEMMA CompanyCallKeeps ==
  ASSUME RouteInv, NEW s \in Subjects, NEW st \in {"plans", "facilities"}, CompanyCall(st, s)
  PROVE  StepKept
<1>0. /\ stage = st /\ stage \in FirstStages /\ st \in FirstStages \ RoomStages /\ s \in todo
      /\ subject = NoSubject /\ asked \subseteq Covered(evidence) \cup named \cup todo \cup {subject}
  BY DEF CompanyCall, FirstStages, RoomStages, RouteInv, CoverInv
<1>1. AgentTypeOK /\ RouteTyped /\ pc \in Routes /\ CanCall BY <1>0, AtFirst
<1>2. CASE NoCallMade /\ Later
  <2>1. UNCHANGED vars BY <1>2, NothingCalled
  <2>2. [Next]_vars /\ result' = result /\ pc' = pc BY <2>1 DEF vars
  <2> QED BY <1>0, <1>2, <2>2, LaterKeeps
<1>3. CASE CallEndsRun BY <1>1, <1>3, CallEnds, QuitKeeps
<1>4. CASE EventsOpen /\ (Raise \/ Reply({})) /\ Later
  <2>1. Made({}, pc) BY <1>1, <1>4, NothingFound DEF EventsOpen
  <2> QED BY <1>0, <1>4, <2>1, LaterKeeps DEF Made
<1>5. ASSUME ToolBudgetLeft, NEW found \in (SUBSET FilingsOf(s)) \ {{}}, Reply(found),
             Move(st), UNCHANGED <<subject, local, owed, named, reach>>,
             todo' = todo \ {s} \/ todo' = todo
      PROVE  StepKept
  <2>0. found \in SUBSET Filings BY DEF FilingsOf
  <2>1. Made(found, pc) BY <1>1, <1>5, <2>0, ReplyMade
  <2>2. [Next]_vars /\ result' = result /\ pc' = pc /\ evidence' = evidence \cup found BY <2>1 DEF Made
  <2>3. stage' = st /\ asked' = asked /\ todo' \in SUBSET asked' BY <1>1, <1>5 DEF Move, RouteTyped
  <2>4. Covered(evidence) \subseteq Covered(evidence)' /\ s \in Covered(evidence)'
    BY <2>2 DEF Covered, FilingsOf
  <2>5. asked' \subseteq Covered(evidence)' \cup named' \cup todo' \cup {subject'}
    BY <1>0, <1>5, <2>3, <2>4
  <2>6. CoverInv' BY <1>0, <1>5, <2>3, <2>5 DEF CoverInv
  <2>7. RuleInv' BY <1>0, <1>5, RuleKept DEF EveryStages, Stages
  <2> QED BY <1>0, <1>1, <1>5, <2>2, <2>3, <2>6, <2>7, FirstStageKeeps DEF RouteTyped
<1> QED BY <1>2, <1>3, <1>4, <1>5 DEF CompanyCall, EventsOpen

LEMMA PlansKeep == RouteInv /\ (NoPlanToSearch \/ ComparePlans) => StepKept
<1> SUFFICES ASSUME RouteInv, NoPlanToSearch \/ ComparePlans PROVE StepKept
  OBVIOUS
<1>0. stage = "plans" /\ stage \in FirstStages /\ stage \in EveryStages /\ rule = "every"
  BY DEF NoPlanToSearch, ComparePlans, FirstStages, EveryStages, Stages, RouteInv, RuleInv
<1>1. /\ AgentTypeOK /\ RouteTyped /\ pc \in Routes /\ CanCall /\ evidence \in SUBSET Filings
      /\ {} \in SUBSET Filings /\ asked \in SUBSET Subjects /\ named \in SUBSET Subjects
  BY <1>0, AtFirst DEF AgentTypeOK, RouteTyped
<1>2. CASE NoCallMade /\ Later
  <2>1. UNCHANGED vars BY <1>2, NothingCalled
  <2>2. [Next]_vars /\ result' = result /\ pc' = pc BY <2>1 DEF vars
  <2> QED BY <1>0, <1>2, <2>2, LaterKeeps
<1>3. CASE ComparePlans /\ ~(NoCallMade /\ Later)
  <2>0. asked \subseteq Covered(evidence) \cup named
    BY <1>0, <1>1, <1>3, RouteAssumption DEF ComparePlans, RouteInv, CoverInv
  <2>1. CASE AnswerIfPacked(evidence, named) BY <1>0, <1>1, <2>0, <2>1, ReachesAll, PackedKeeps
  <2>2. CASE Select({}) /\ Later
    <3>1. Next /\ pc' = pc /\ result' = result BY <1>1, <2>2, SelectMade
    <3> QED BY <1>0, <2>2, <3>1, LaterKeeps
  <2>3. CASE Limit BY <1>1, <2>3, EndsFree, QuitKeeps
  <2>4. CASE NoRoomToCalculate \/ CalculationFails BY <1>1, <2>4, CalculationEnds, QuitKeeps
  <2>5. CASE CallFailsClosed BY <1>1, <2>5, CallEnds, QuitKeeps
  <2>6. CASE CallAnswers(evidence, "failed_closed")
    <3>1. Ended(evidence) /\ named' = named BY <1>1, <2>6, CallAnswerEnds DEF CallAnswers, Refusals
    <3> QED BY <1>0, <1>1, <2>0, <3>1, EveryEnds DEF RouteTyped
  <2> QED BY <1>3, <2>1, <2>2, <2>3, <2>4, <2>5, <2>6 DEF ComparePlans
<1> QED BY <1>2, <1>3 DEF NoPlanToSearch

LEMMA SumsKeep == RouteInv /\ (OweSums \/ SumFacilities \/ CompareFacilities) => StepKept
<1> SUFFICES ASSUME RouteInv, OweSums \/ SumFacilities \/ CompareFacilities PROVE StepKept
  OBVIOUS
<1>0. /\ stage \in {"facilities", "sums"} /\ stage \in FirstStages /\ "sums" \in FirstStages \ RoomStages
      /\ subject = NoSubject /\ stage \in EveryStages /\ rule = "every"
  BY DEF OweSums, SumFacilities, CompareFacilities, FirstStages, RoomStages, EveryStages, Stages,
         RouteInv, RuleInv, CoverInv
<1>1. /\ AgentTypeOK /\ RouteTyped /\ pc \in Routes /\ CanCall /\ evidence \in SUBSET Filings
      /\ {} \in SUBSET Filings /\ asked \in SUBSET Subjects /\ named \in SUBSET Subjects
  BY <1>0, AtFirst DEF AgentTypeOK, RouteTyped
<1>2. asked \subseteq Covered(evidence) \cup named
  <2>1. stage = "facilities" => todo = {} BY DEF OweSums, SumFacilities, CompareFacilities
  <2> QED BY <1>0, <1>1, <2>1, RouteAssumption DEF RouteInv, CoverInv
<1>3. ASSUME [Next]_vars, result' = result, pc' = pc, evidence' = evidence, Move("sums"), owed' \in 0..3,
             UNCHANGED <<todo, subject, local, named, reach>>
      PROVE  StepKept
  <2>1. stage' = "sums" /\ asked' = asked /\ Covered(evidence)' = Covered(evidence) BY <1>3 DEF Move, Covered
  <2>2. CoverInv' BY <1>0, <1>2, <1>3, <2>1 DEF CoverInv
  <2>3. RuleInv' BY <1>0, <1>3, RuleKept
  <2> QED BY <1>0, <1>1, <1>3, <2>1, <2>2, <2>3, FirstStageKeeps DEF RouteTyped
<1>4. ASSUME NoCallMade PROVE [Next]_vars /\ result' = result /\ pc' = pc /\ evidence' = evidence
  <2>1. UNCHANGED vars BY <1>4, NothingCalled
  <2> QED BY <2>1 DEF vars, knowledge
<1>5. CASE OweSums BY <1>0, <1>3, <1>4, <1>5, LaterKeeps DEF OweSums
<1>6. CASE SumFacilities
  <2>1. CASE NoCallMade /\ Later BY <1>0, <1>4, <2>1, LaterKeeps
  <2>2. CASE CallFailsClosed BY <1>1, <2>2, CallEnds, QuitKeeps
  <2>3. ASSUME ToolBudgetLeft, Raise \/ Reply({})
        PROVE  [Next]_vars /\ result' = result /\ pc' = pc /\ evidence' = evidence
    BY <1>1, <2>3, NothingFound DEF Made
  <2>4. CASE ToolBudgetLeft /\ (Raise \/ Reply({})) /\ Later BY <1>0, <2>3, <2>4, LaterKeeps
  <2>5. CASE /\ ToolBudgetLeft /\ Reply({}) /\ Move(stage) /\ owed' = owed - 1
             /\ UNCHANGED <<todo, subject, local, named, reach>>
    <3>1. stage = "sums" /\ owed' \in 0..3 BY <1>1, <1>6, <2>5 DEF SumFacilities, RouteTyped
    <3> QED BY <1>3, <2>3, <2>5, <3>1
  <2> QED BY <1>6, <2>1, <2>2, <2>4, <2>5 DEF SumFacilities
<1>7. CASE CompareFacilities
  <2>1. CASE AnswerIfPacked(evidence, named) BY <1>0, <1>1, <1>2, <2>1, ReachesAll, PackedKeeps
  <2>2. CASE NoCallMade /\ Later BY <1>0, <1>4, <2>2, LaterKeeps
  <2>3. CASE Select({}) /\ Later
    <3>1. Next /\ pc' = pc /\ result' = result BY <1>1, <2>3, SelectMade
    <3> QED BY <1>0, <2>3, <3>1, LaterKeeps
  <2> QED BY <1>7, <2>1, <2>2, <2>3 DEF CompareFacilities
<1> QED BY <1>5, <1>6, <1>7

LEMMA EventRoutesKeep == RouteInv /\ EventRoutesStep => StepKept
<1>1. RouteInv /\ SectorStep => StepKept
  BY SectorKeeps, CandidatesKeep, RatioKeeps, RankKeeps DEF SectorStep
<1>2. RouteInv /\ EventStep => StepKept
  BY PinKeeps, AllTypesKeep, FundingKeeps, MissingKeeps, SelectionsKeep, DifferenceKeeps,
     DirectKeeps, MergerKeeps, TargetKeeps DEF EventStep
<1>3. RouteInv /\ CompaniesStep => StepKept BY CompanyCallKeeps, PlansKeep, SumsKeep DEF CompaniesStep
<1> QED BY <1>1, <1>2, <1>3, EntryKeeps, ProfileKeeps, PayKeeps, TotalKeeps DEF EventRoutesStep

-------------------------------------------------------------------------------
(* The periodic reports.                                                       *)

LEMMA PinnedKeeps ==
  ASSUME RouteInv, [Next]_vars, result' = result, result = NoResult,
         stage' \in PinnedStages, pc' \in {"route", "pinned"}, asked' \in SUBSET Subjects,
         todo' \in SUBSET asked', subject' \in Subjects \cup {NoSubject}, named' \in SUBSET Subjects,
         local' \in SUBSET Filings, owed' \in 0..3, rule' \in Rules, checked' \in SUBSET Subjects,
         RuleInv', CoverInv'
  PROVE  StepKept
<1>1. stage' \in Stages BY DEF Stages, PinnedStages
<1>2. RouteTyped' BY <1>1 DEF RouteTyped
<1>3. PlaceKept BY DEF PlaceKept, FirstStages, PinnedStages, LastStages
<1>4. RoomInv' BY NoRoomOwed DEF PinnedStages, RoomStages
<1>5. stage' # "over" BY DEF PinnedStages
<1> QED BY <1>2, <1>3, <1>4, <1>5, GoesOn

LEMMA PassesKeep ==
  ASSUME RouteInv, pc \in Routes, result = NoResult,
         NEW p \in {"plan", "final"}, p = "final" => evidence # {}, HandOver(p)
  PROVE  StepKept
<1>1. /\ Goto(p) /\ UNCHANGED turn
      /\ stage' = "planner" /\ asked' = asked /\ Cleared /\ UNCHANGED <<named, reach>>
  BY DEF HandOver, Settled, Move
<1>2. PreflightPasses BY <1>1 DEF PreflightPasses
<1>3. Next BY <1>2 DEF Preflight, Step, Next
<1>4. result' = result BY <1>1 DEF Goto
<1>5. RouteTyped' BY <1>1 DEF RouteInv, RouteTyped, Stages, Cleared
<1>6. PlaceKept BY <1>1 DEF PlaceKept, FirstStages, PinnedStages, LastStages
<1>7. RoomInv' BY <1>1, NoRoomOwed DEF RoomStages
<1>8. CoverInv' BY <1>1, NoCoverOwed DEF CoverStages
<1>9. RuleInv' BY <1>1, NoRuleOwed DEF EveryStages
<1> QED BY <1>1, <1>3, <1>4, <1>5, <1>6, <1>7, <1>8, <1>9, GoesOn

LEMMA PeriodicKeeps == RouteInv /\ ResolvePeriodic => StepKept
<1> SUFFICES ASSUME RouteInv, ResolvePeriodic PROVE StepKept
  OBVIOUS
<1>0. /\ stage = "periodic" /\ stage \in FirstStages /\ stage \in EveryStages
      /\ rule = "every"
  BY DEF ResolvePeriodic, FirstStages, EveryStages, Stages, RouteInv, RuleInv
<1>1. /\ AgentTypeOK /\ RouteTyped /\ pc \in {"route", "pinned"} /\ CanCall /\ result = NoResult /\ Idle
      /\ NextPlace = "pinned" /\ {} \in SUBSET Filings
  BY <1>0, AtFirst DEF RouteInv, RoomInv, NextPlace
<1>2. CASE NoCallMade /\ Settled("correction")
  <2>1. UNCHANGED vars BY <1>2, NothingCalled
  <2>2. [Next]_vars /\ result' = result /\ pc' = pc BY <2>1 DEF vars
  <2> QED BY <1>0, <1>1, <1>2, <2>2, SettledKeeps
<1>3. CASE CallEndsRun \/ ResultEndsRun BY <1>1, <1>3, CallEnds, QuitKeeps
<1>4. ASSUME UncheckedRaise \/ UncheckedReply({})
      PROVE  [Next]_vars /\ result' = result /\ pc' = "pinned"
  BY <1>1, <1>4, UncheckedMade DEF Made
<1>5. CASE (UncheckedRaise \/ UncheckedReply({})) /\ Settled("correction")
  BY <1>0, <1>1, <1>4, <1>5, SettledKeeps
<1>6. CASE /\ UncheckedReply({}) /\ stage' = "searches"
           /\ UNCHANGED <<asked, subject, local, owed, named, checked>>
           /\ todo' \in SUBSET asked /\ rule' \in {"every", "several"}
  <2>1. rule' \in Rules BY <1>6 DEF Rules
  <2>2. Covered(local)' = {} /\ local' = {} /\ subject' = NoSubject BY <1>1, <1>6 DEF Idle, Covered
  <2>3. CoverInv' BY <1>6, <2>2 DEF CoverInv
  <2>4. stage' \in PinnedStages BY <1>6 DEF PinnedStages
  <2>5. RuleInv' BY <1>6 DEF RuleInv, EveryStages
  <2> QED BY <1>1, <1>4, <1>6, <2>1, <2>3, <2>4, <2>5, PinnedKeeps DEF RouteTyped
<1> QED BY <1>0, <1>2, <1>3, <1>5, <1>6 DEF ResolvePeriodic

LEMMA SearchesKeep ==
  RouteInv /\ (SearchSecondSection \/ SearchEndsRun \/ \E s \in Subjects : SearchReport(s)) => StepKept
<1> SUFFICES ASSUME RouteInv, SearchSecondSection \/ SearchEndsRun \/ \E s \in Subjects : SearchReport(s)
             PROVE  StepKept
  OBVIOUS
<1>0. stage = "searches" /\ stage \in PinnedStages
  BY DEF SearchSecondSection, SearchEndsRun, SearchReport, PinnedStages
<1>1. /\ AgentTypeOK /\ RouteTyped /\ pc \in {"route", "pinned"} /\ pc \in Routes /\ CanCall /\ result = NoResult
      /\ local \subseteq evidence /\ Covered(local) \subseteq asked /\ subject \in asked \cup {NoSubject}
      /\ rule \in {"every", "several"} /\ asked \in SUBSET Subjects
  BY <1>0, AtPinned DEF RouteInv, RuleInv, CoverInv, RouteTyped
<1>2. ASSUME Move(stage), UNCHANGED <<owed, named, reach>>, todo' \in SUBSET todo,
             subject' \in asked \cup {NoSubject},
             NEW s \in asked, NEW found \in SUBSET FilingsOf(s), local' \in {local, local \cup found},
             \/ NoCallMade /\ local' = local
             \/ ToolBudgetLeft /\ Reply(found)
             \/ ToolBudgetLeft /\ Raise /\ local' = local
      PROVE  StepKept
  <2>0. found \in SUBSET Filings /\ Covered(found) \subseteq asked /\ Covered(local \cup found) \subseteq asked
    BY <1>1 DEF FilingsOf, Covered
  <2>1. [Next]_vars /\ result' = result /\ pc' = pc /\ local' \subseteq evidence'
    <3>1. CASE NoCallMade /\ local' = local
      <4>1. UNCHANGED vars BY <3>1, NothingCalled
      <4> QED BY <1>1, <3>1, <4>1 DEF vars, knowledge
    <3>2. CASE ToolBudgetLeft /\ Reply(found)
      <4>1. Made(found, pc) BY <1>1, <2>0, <3>2, ReplyMade
      <4> QED BY <1>1, <1>2, <4>1 DEF Made
    <3>3. CASE ToolBudgetLeft /\ Raise /\ local' = local
      <4>1. Made({}, pc) BY <1>1, <3>3, NothingFound
      <4> QED BY <1>1, <3>3, <4>1 DEF Made
    <3> QED BY <1>2, <3>1, <3>2, <3>3
  <2>2. stage' = "searches" /\ asked' = asked BY <1>0, <1>2 DEF Move
  <2>3. Covered(local)' = Covered(local') BY DEF Covered
  <2>4. CoverInv' BY <1>1, <1>2, <2>0, <2>1, <2>2, <2>3 DEF CoverInv
  <2>5. RuleInv' BY <1>1, <1>2, <2>2 DEF RuleInv, EveryStages
  <2>6. local' \in SUBSET Filings /\ rule' \in Rules BY <1>1, <1>2, <2>0 DEF RouteTyped, Rules
  <2> QED BY <1>0, <1>1, <1>2, <2>1, <2>2, <2>4, <2>5, <2>6, PinnedKeeps DEF RouteTyped
<1>3. CASE SearchEndsRun BY <1>1, <1>3, CallEnds, QuitKeeps DEF SearchEndsRun
<1>4. CASE SearchSecondSection
  <2>1. Move(stage) /\ subject' = NoSubject /\ UNCHANGED <<todo, owed, named, reach>> /\ subject \in asked
    BY <1>1, <1>4 DEF SearchSecondSection
  <2>2. CASE NoCallMade /\ UNCHANGED local BY <1>2, <2>1, <2>2, {} \in SUBSET FilingsOf(subject)
  <2>3. ASSUME ToolBudgetLeft, NEW found \in SUBSET FilingsOf(subject), Reply(found), local' = local \cup found
        PROVE  StepKept
    BY <1>2, <2>1, <2>3
  <2> QED BY <1>4, <2>2, <2>3 DEF SearchSecondSection
<1>5. ASSUME NEW s \in Subjects, SearchReport(s) PROVE StepKept
  <2>1. Move(stage) /\ UNCHANGED <<owed, named, reach>> /\ subject = NoSubject /\ s \in asked
    BY <1>1, <1>5 DEF SearchReport, RouteTyped
  <2>2. CASE NoCallMade /\ LeaveLoop /\ UNCHANGED <<subject, local>>
    BY <1>2, <2>1, <2>2, {} \in SUBSET FilingsOf(s) DEF LeaveLoop
  <2>3. CASE ToolBudgetLeft /\ todo' = todo \ {s} /\ Raise /\ UNCHANGED <<subject, local>>
    BY <1>2, <2>1, <2>3, {} \in SUBSET FilingsOf(s)
  <2>4. ASSUME ToolBudgetLeft, todo' = todo \ {s}, NEW found \in SUBSET FilingsOf(s),
               Reply(found), local' = local \cup found, subject' \in {NoSubject, s}
        PROVE  StepKept
    BY <1>2, <2>1, <2>4
  <2> QED BY <1>5, <2>2, <2>3, <2>4 DEF SearchReport
<1> QED BY <1>3, <1>4, <1>5

LEMMA ChoiceKeeps == RouteInv /\ ChooseAnswer => StepKept
<1> SUFFICES ASSUME RouteInv, ChooseAnswer PROVE StepKept
  OBVIOUS
<1>0. stage = "searches" /\ stage \in PinnedStages /\ todo = {} BY DEF ChooseAnswer, PinnedStages
<1>1. /\ AgentTypeOK /\ RouteTyped /\ pc \in {"route", "pinned"} /\ pc \in Routes /\ result = NoResult
      /\ rule \in {"every", "several"} /\ asked \in SUBSET Subjects
      /\ Covered(local) \subseteq Covered(evidence) /\ Covered(local) \subseteq asked
  BY <1>0, AtPinned DEF RouteInv, RuleInv, CoverInv, RouteTyped, Covered
<1>2. CASE Limit BY <1>1, <1>2, EndsFree, QuitKeeps
<1>3. ASSUME NoCallMade, UNCHANGED <<todo, subject, local, named, checked>>, owed' \in 0..3, Move(stage'),
             \/ /\ stage' \in {"comparison", "rows"} /\ rule' = "several"
                /\ Cardinality(Covered(evidence)) >= 2
             \/ stage' = "statement" /\ (rule' = "several" \/ (rule' \in {"every", "any"} /\ Reaches(evidence, {})'))
             \/ stage' \in {"quarter", "growth", "margin", "ratios"} /\ rule' = "every" /\ asked \subseteq Covered(evidence)
      PROVE  StepKept
  <2>1. UNCHANGED vars BY <1>3, NothingCalled
  <2>2. [Next]_vars /\ result' = result /\ pc' = pc /\ evidence' = evidence BY <2>1 DEF vars, knowledge
  <2>3. Covered(evidence)' = Covered(evidence) /\ asked' = asked BY <1>3, <2>2 DEF Covered, Move
  <2>4. CoverInv' BY <1>3, <2>3 DEF CoverInv
  <2>5. stage' \in PinnedStages BY <1>3 DEF PinnedStages
  <2>6. RuleInv' BY <1>3 DEF RuleInv, EveryStages
  <2>7. rule' \in Rules BY <1>3 DEF Rules
  <2> QED BY <1>1, <1>3, <2>2, <2>3, <2>4, <2>5, <2>6, <2>7, PinnedKeeps DEF RouteTyped
<1>4. EnoughFound /\ rule = "every" => asked \subseteq Covered(local) BY DEF EnoughFound
<1>5. EnoughFound /\ rule = "several" => Cardinality(Covered(evidence)) >= 2 BY DEF EnoughFound
<1>6. CASE /\ NoCallMade /\ EnoughFound /\ Move(IF rule = "several" THEN "rows" ELSE "ratios")
           /\ owed' \in 1..3
           /\ UNCHANGED <<todo, subject, local, named, reach>>
  <2>1. owed' \in 0..3 BY <1>6
  <2>2. CASE rule = "several" BY <1>3, <1>5, <1>6, <2>1, <2>2 DEF Move
  <2>3. CASE rule = "every" BY <1>1, <1>3, <1>4, <1>6, <2>1, <2>3 DEF Move
  <2> QED BY <1>1, <2>2, <2>3
<1>7. CASE NoCallMade /\ UNCHANGED <<work, named, checked>>
  <2>1. /\ UNCHANGED <<todo, subject, local, named, checked>> /\ owed' \in 0..3 BY <1>1, <1>7 DEF work, RouteTyped
  <2>2. UNCHANGED vars BY <1>7, NothingCalled
  <2>3. Covered(evidence)' = Covered(evidence) BY <2>2 DEF vars, knowledge, Covered
  <2>4. CASE EnoughFound /\ Move(IF rule = "several" THEN "comparison" ELSE "statement") /\ UNCHANGED rule
    <3>1. CASE rule = "several" BY <1>3, <1>5, <1>7, <2>1, <2>4, <3>1 DEF Move
    <3>2. CASE rule = "every"
      <4>1. stage' = "statement" /\ asked' = asked /\ rule' = "every" BY <2>4, <3>2 DEF Move
      <4>2. asked' \subseteq Covered(evidence)' BY <1>1, <1>4, <2>3, <2>4, <3>2, <4>1
      <4>3. Reaches(evidence, {})' BY <4>1, <4>2 DEF Reaches, Covered
      <4> QED BY <1>3, <1>7, <2>1, <2>4, <3>2, <4>1, <4>3 DEF Move
    <3> QED BY <1>1, <3>1, <3>2
  <2>5. CASE EnoughFound /\ rule = "every" /\ (Move("quarter") \/ Move("growth") \/ Move("margin")) /\ UNCHANGED rule
    BY <1>1, <1>3, <1>4, <1>7, <2>1, <2>5 DEF Move
  <2>6. CASE rule = "every" /\ local # {} /\ Move("statement") /\ rule' = "any"
    <3>1. stage' = "statement" /\ asked' = asked BY <2>6 DEF Move
    <3>2. Covered(local) # {} BY <2>6 DEF Covered
    <3>3. asked' \cap Covered(evidence)' # {} BY <1>1, <2>3, <3>1, <3>2
    <3>4. Reaches(evidence, {})' BY <2>6, <3>3 DEF Reaches, Covered
    <3> QED BY <1>3, <1>7, <2>1, <2>6, <3>1, <3>4 DEF Move
  <2> QED BY <1>2, <1>7, <2>4, <2>5, <2>6, <1>6 DEF ChooseAnswer
<1> QED BY <1>2, <1>6, <1>7 DEF ChooseAnswer

(* A stage of the calculations is left for itself or for another one.          *)
LEMMA CalculationsKeep ==
  ASSUME RouteInv, stage \in PinnedStages, [Next]_vars, result' = result, pc' = pc,
         stage' \in PinnedStages, Move(stage'), UNCHANGED <<todo, subject, named, reach>>,
         local' \in {local, {}}, owed' \in 0..3, RuleInv', CoverInv'
  PROVE  StepKept
<1>1. RouteTyped /\ pc \in {"route", "pinned"} /\ result = NoResult BY AtPinned
<1>2. asked' = asked /\ rule' \in Rules /\ checked' \in SUBSET Subjects BY <1>1 DEF Move, RouteTyped
<1> QED BY <1>1, <1>2, PinnedKeeps DEF RouteTyped

LEMMA CitedKeeps ==
  ASSUME RouteInv, stage \in EveryStages, pc \in Routes, NEW cited \in SUBSET Filings, Cites(cited),
         NEW otherwise \in Refusals,
         Answer(cited, otherwise) \/ (CanCall /\ CallAnswers(cited, otherwise))
  PROVE  StepKept
<1>1. named \in SUBSET Subjects BY DEF RouteInv, RouteTyped
<1>2. Ended(cited) /\ named' = named BY AnswerEnds, CallAnswerEnds DEF Answer, CallAnswers
<1> QED BY <1>1, <1>2, EveryEnds DEF Cites

(* The evidence itself is cited, if it reaches what is owed.                   *)
LEMMA EvidenceCitedKeeps ==
  ASSUME RouteInv, CanCall, evidence = {} \/ Reaches(evidence, {}),
         \/ Answer(evidence, "failed_closed")
         \/ CallAnswers(evidence, "failed_closed")
         \/ RaiseAnswersNaming(named, evidence, "failed_closed")
  PROVE  StepKept
<1>1. named \in SUBSET Subjects /\ evidence \in SUBSET Filings /\ "failed_closed" \in Refusals /\ pc \in Routes
  BY DEF RouteInv, RouteTyped, RunInv, AgentTypeOK, Refusals, CanCall
<1>2. Ended(evidence) /\ named' = named /\ evidence # {}
  BY <1>1, AnswerEnds, CallAnswerEnds DEF Answer, CallAnswers
<1>3. Reaches(evidence, named) BY <1>2 DEF Reaches
<1> QED BY <1>1, <1>2, <1>3, EndedKeeps

LEMMA RatiosKeep == RouteInv /\ (CalculateRatio \/ AnswerRatios \/ CalculateQuarter) => StepKept
<1> SUFFICES ASSUME RouteInv, CalculateRatio \/ AnswerRatios \/ CalculateQuarter PROVE StepKept
  OBVIOUS
<1>0. stage \in {"ratios", "quarter"} /\ stage \in PinnedStages /\ stage \in EveryStages
  BY DEF CalculateRatio, AnswerRatios, CalculateQuarter, PinnedStages, EveryStages, Stages
<1>1. AgentTypeOK /\ RouteTyped /\ pc \in Routes /\ CanCall BY <1>0, AtPinned
<1>2. CASE Limit BY <1>1, <1>2, EndsFree, QuitKeeps
<1>3. CASE NoRoomToCalculate \/ CalculationFails BY <1>1, <1>3, CalculationEnds, QuitKeeps
<1>4. CASE ResultEndsRun \/ RaiseEndsRun \/ CallFailsClosed BY <1>1, <1>4, CallEnds, QuitKeeps
<1>5. CASE CalculateRatio
  <2>1. CASE /\ ToolBudgetLeft /\ Reply({}) /\ Move(stage) /\ owed' = owed - 1
             /\ UNCHANGED <<todo, subject, local, named, reach>>
    <3>1. Made({}, pc) BY <1>1, <2>1, NothingFound
    <3>2. stage = "ratios" /\ stage' = stage BY <1>5, <2>1 DEF CalculateRatio, Move
    <3>3. owed' \in 0..3
      <4>1. owed \in 0..3 /\ (owed > 0 \/ Limit) BY <1>1, <1>5 DEF CalculateRatio, RouteTyped
      <4>2. owed > 0 BY <2>1, <4>1, <3>2 DEF Limit, Over, Move
      <4> QED BY <2>1, <4>1, <4>2
    <3>4. CoverInv' BY <3>2 DEF CoverInv
    <3>5. RuleInv' BY <1>0, <2>1, RuleKept
    <3> QED BY <1>0, <2>1, <3>1, <3>2, <3>3, <3>4, <3>5, CalculationsKeep DEF Made
  <2> QED BY <1>2, <1>3, <1>4, <1>5, <2>1 DEF CalculateRatio
<1>6. CASE AnswerRatios BY <1>0, <1>1, <1>6, CitedKeeps DEF AnswerRatios, Refusals
<1>7. CASE CalculateQuarter BY <1>0, <1>1, <1>2, <1>4, <1>7, CitedKeeps DEF CalculateQuarter, Refusals
<1> QED BY <1>5, <1>6, <1>7

LEMMA GrowthKeeps == RouteInv /\ CalculateGrowth => StepKept
<1> SUFFICES ASSUME RouteInv, CalculateGrowth PROVE StepKept
  OBVIOUS
<1>0. /\ stage = "growth" /\ stage \in PinnedStages
      /\ rule = "every" /\ asked \subseteq Covered(evidence)
  BY DEF CalculateGrowth, PinnedStages, EveryStages, Stages, RouteInv, RuleInv, CoverInv
<1>1. AgentTypeOK /\ RouteTyped /\ pc \in Routes /\ CanCall BY <1>0, AtPinned
<1>2. CASE Limit BY <1>1, <1>2, EndsFree, QuitKeeps
<1>3. CASE RaiseEndsRun \/ CallFailsClosed \/ ResultEndsRun BY <1>1, <1>3, CallEnds, QuitKeeps
<1>4. CASE CallAnswers(evidence, "failed_closed") BY <1>0, <1>1, <1>4, ReachesAll, EvidenceCitedKeeps
<1> QED BY <1>2, <1>3, <1>4 DEF CalculateGrowth

LEMMA RowsKeep == RouteInv /\ (CalculateRow \/ AnswerRows) => StepKept
<1> SUFFICES ASSUME RouteInv, CalculateRow \/ AnswerRows PROVE StepKept
  OBVIOUS
<1>0. /\ stage = "rows" /\ stage \in PinnedStages
      /\ rule = "several" /\ Cardinality(Covered(evidence)) >= 2
  BY DEF CalculateRow, AnswerRows, PinnedStages, RouteInv, CoverInv
<1>1. AgentTypeOK /\ RouteTyped /\ pc \in Routes /\ CanCall BY <1>0, AtPinned
<1>2. CASE CallFailsClosed BY <1>1, <1>2, CallEnds, QuitKeeps
<1>3. CASE CalculateRow /\ ~CallFailsClosed
  <2>1. /\ Move(stage) /\ UNCHANGED <<todo, subject, named, reach>>
        /\ owed' \in {0, owed - 1} /\ owed > 0 /\ local' \in {local, {}}
        /\ NoCallMade \/ (ToolBudgetLeft /\ (Raise \/ Reply({})))
    BY <1>3 DEF CalculateRow
  <2>2. UNCHANGED vars \/ Made({}, pc) BY <1>1, <2>1, NothingCalled, NothingFound
  <2>3. [Next]_vars /\ result' = result /\ pc' = pc /\ evidence' = evidence
    BY <2>2 DEF Made, vars, knowledge
  <2>4. stage' = stage /\ owed' \in 0..3 BY <1>1, <2>1 DEF Move, RouteTyped
  <2>5. Covered(evidence)' = Covered(evidence) BY <2>3 DEF Covered
  <2>6. CoverInv' BY <1>0, <2>1, <2>4, <2>5 DEF CoverInv
  <2>7. RuleInv' BY <1>0, <2>4, NoRuleOwed DEF EveryStages
  <2> QED BY <1>0, <2>1, <2>3, <2>4, <2>6, <2>7, CalculationsKeep
<1>4. CASE AnswerRows
  <2>1. CASE Limit BY <1>1, <2>1, EndsFree, QuitKeeps
  <2>2. Reaches(evidence, {}) BY <1>0 DEF Reaches
  <2> QED BY <1>0, <1>1, <1>2, <1>4, <2>1, <2>2, EvidenceCitedKeeps DEF AnswerRows
<1> QED BY <1>2, <1>3, <1>4

LEMMA ComparisonKeeps == RouteInv /\ (CompareCompanies \/ AnswerComparison) => StepKept
<1> SUFFICES ASSUME RouteInv, CompareCompanies \/ AnswerComparison PROVE StepKept
  OBVIOUS
<1>0. /\ stage = "comparison" /\ stage \in PinnedStages
      /\ rule = "several" /\ Cardinality(Covered(evidence)) >= 2
  BY DEF CompareCompanies, AnswerComparison, PinnedStages, RouteInv, CoverInv
<1>1. /\ AgentTypeOK /\ RouteTyped /\ pc \in Routes /\ pc \in {"route", "pinned"} /\ CanCall
      /\ result = NoResult /\ {} \in SUBSET Filings /\ named \in SUBSET Subjects
  BY <1>0, AtPinned DEF RouteTyped
<1>2. CASE CompareCompanies
  <2>1. Made({}, pc) BY <1>1, <1>2, NothingFound DEF CompareCompanies
  <2>2. [Next]_vars /\ result' = result /\ pc' = pc /\ evidence' = evidence BY <2>1 DEF Made
  <2>3. stage' = stage /\ owed' \in 0..3 /\ Move(stage) /\ UNCHANGED <<todo, subject, local, named, reach>>
    BY <1>1, <1>2 DEF CompareCompanies, Move, RouteTyped
  <2>4. Covered(evidence)' = Covered(evidence) BY <2>2 DEF Covered
  <2>5. CoverInv' BY <1>0, <2>3, <2>4 DEF CoverInv
  <2>6. RuleInv' BY <1>0, <2>3, NoRuleOwed DEF EveryStages
  <2> QED BY <1>0, <2>2, <2>3, <2>5, <2>6, CalculationsKeep
<1>3. CASE AnswerComparison
  <2>1. CASE CallFailsClosed BY <1>1, <2>1, CallEnds, QuitKeeps
  <2>2. CASE AnswerIfPacked(evidence, named)
    <3>1. Reaches(evidence, named) BY <1>0 DEF Reaches
    <3> QED BY <1>1, <2>2, <3>1, PackedKeeps
  <2>3. CASE NoCallMade /\ Settled("statement")
    <3>1. UNCHANGED vars BY <2>3, NothingCalled
    <3>2. [Next]_vars /\ result' = result /\ pc' = pc BY <3>1 DEF vars
    <3> QED BY <1>0, <1>1, <2>3, <3>2, StatementKeeps
  <2>4. CASE Select({}) /\ Settled("statement")
    <3>1. Next /\ pc' = pc /\ result' = result BY <1>1, <2>4, SelectMade
    <3> QED BY <1>0, <1>1, <2>4, <3>1, StatementKeeps
  <2> QED BY <1>3, <2>1, <2>2, <2>3, <2>4 DEF AnswerComparison
<1> QED BY <1>2, <1>3

LEMMA MarginKeeps == RouteInv /\ (CalculateMargin \/ AnswerMargin) => StepKept
<1> SUFFICES ASSUME RouteInv, CalculateMargin \/ AnswerMargin PROVE StepKept
  OBVIOUS
<1>0. /\ stage \in {"margin", "answer"} /\ stage \in PinnedStages /\ "answer" \in PinnedStages
      /\ stage \in EveryStages /\ rule = "every" /\ asked \subseteq Covered(evidence)
  BY DEF CalculateMargin, AnswerMargin, PinnedStages, EveryStages, Stages, RouteInv, RuleInv, CoverInv
<1>1. /\ AgentTypeOK /\ RouteTyped /\ pc \in Routes /\ pc \in {"route", "pinned"} /\ CanCall
      /\ result = NoResult /\ {} \in SUBSET Filings /\ named \in SUBSET Subjects
      /\ Reaches(evidence, {}) /\ Reaches(evidence, named)
  BY <1>0, AtPinned, ReachesAll DEF RouteTyped
<1>2. CASE CallFailsClosed BY <1>1, <1>2, CallEnds, QuitKeeps
<1>3. CASE NoCallMade /\ Settled("statement")
  <2>1. UNCHANGED vars BY <1>3, NothingCalled
  <2>2. [Next]_vars /\ result' = result /\ pc' = pc /\ evidence' = evidence BY <2>1 DEF vars, knowledge
  <2> QED BY <1>0, <1>1, <1>3, <2>2, StatementKeeps
<1>4. ASSUME ToolBudgetLeft, Raise \/ Reply({})
      PROVE  [Next]_vars /\ result' = result /\ pc' = pc /\ evidence' = evidence
  BY <1>1, <1>4, NothingFound DEF Made
<1>5. CASE ToolBudgetLeft /\ Raise /\ Settled("statement") BY <1>0, <1>1, <1>4, <1>5, StatementKeeps
<1>6. CASE ToolBudgetLeft /\ Reply({}) /\ Move("answer") /\ UNCHANGED <<work, named, reach>>
  <2>1. stage' = "answer" /\ asked' = asked /\ UNCHANGED <<todo, subject, local, owed, named, reach>>
    BY <1>6 DEF Move, work
  <2>2. Covered(evidence)' = Covered(evidence) /\ evidence' = evidence BY <1>4, <1>6 DEF Covered
  <2>3. CoverInv' BY <1>0, <2>1, <2>2 DEF CoverInv
  <2>4. RuleInv' BY <1>0, <2>1, RuleKept
  <2> QED BY <1>0, <1>1, <1>4, <1>6, <2>1, <2>3, <2>4, CalculationsKeep DEF RouteTyped, Move
<1>7. CASE AnswerIfPacked(evidence, named) BY <1>0, <1>1, <1>7, PackedKeeps
<1>8. CASE Select({}) /\ Settled("statement")
  <2>1. Next /\ pc' = pc /\ result' = result /\ evidence' = {} BY <1>1, <1>8, SelectMade
  <2> QED BY <1>0, <1>1, <1>8, <2>1, StatementKeeps
<1> QED BY <1>2, <1>3, <1>5, <1>6, <1>7, <1>8 DEF CalculateMargin, AnswerMargin

LEMMA StatementStepKeeps == RouteInv /\ AnswerStatement => StepKept
<1> SUFFICES ASSUME RouteInv, AnswerStatement PROVE StepKept
  OBVIOUS
<1>0. /\ stage = "statement" /\ stage \in PinnedStages
      /\ rule = "several" \/ evidence = {} \/ Reaches(evidence, {})
  BY DEF AnswerStatement, PinnedStages, RouteInv, CoverInv
<1>1. AgentTypeOK /\ RouteTyped /\ pc \in Routes /\ CanCall /\ result = NoResult BY <1>0, AtPinned
<1>2. CASE Limit BY <1>1, <1>2, EndsFree, QuitKeeps
<1>3. CASE rule # "several" /\ Answer(evidence, "failed_closed") BY <1>0, <1>1, <1>3, EvidenceCitedKeeps
<1>4. CASE evidence # {} /\ HandOver("final") BY <1>1, <1>4, PassesKeep
<1> QED BY <1>2, <1>3, <1>4 DEF AnswerStatement

-------------------------------------------------------------------------------
(* The correction and the named receipt.                                       *)

LEMMA LastKeeps ==
  ASSUME RouteInv, [Next]_vars, result' = result, result = NoResult,
         stage' \in LastStages, pc' \in Routes, Move(stage'), todo' \in SUBSET asked,
         UNCHANGED <<subject, local, owed, named, reach>>, RuleInv'
  PROVE  StepKept
<1>1. stage' \in Stages /\ asked' = asked BY DEF Stages, LastStages, Move
<1>2. RouteTyped' BY <1>1 DEF RouteInv, RouteTyped
<1>3. PlaceKept BY DEF PlaceKept, FirstStages, PinnedStages, LastStages
<1>4. RoomInv' BY NoRoomOwed DEF LastStages, RoomStages
<1>5. CoverInv' BY NoCoverOwed DEF LastStages, CoverStages
<1>6. stage' # "over" BY DEF LastStages
<1> QED BY <1>2, <1>3, <1>4, <1>5, <1>6, GoesOn

LEMMA CorrectionKeeps == RouteInv /\ ResolveCorrection => StepKept
<1> SUFFICES ASSUME RouteInv, ResolveCorrection PROVE StepKept
  OBVIOUS
<1>0. stage = "correction" /\ stage \in PinnedStages /\ stage \in EveryStages
  BY DEF ResolveCorrection, PinnedStages, EveryStages, Stages
<1>1. /\ AgentTypeOK /\ RouteTyped /\ pc \in {"route", "pinned"} /\ CanCall /\ result = NoResult
      /\ NextPlace \in Routes /\ {} \in SUBSET Filings
  BY <1>0, AtPinned
<1>2. CASE NoCallMade /\ Settled("receipt")
  <2>1. UNCHANGED vars BY <1>2, NothingCalled
  <2>2. [Next]_vars /\ result' = result /\ pc' = pc BY <2>1 DEF vars
  <2> QED BY <1>0, <1>1, <1>2, <2>2, SettledKeeps
<1>3. CASE CallEndsRun \/ RaiseEndsRun \/ ResultEndsRun BY <1>1, <1>3, CallEnds, QuitKeeps
<1>4. CASE /\ UncheckedReply({}) /\ Move("versions") /\ todo' = asked
           /\ UNCHANGED <<subject, local, owed, named, reach>>
  <2>1. Made({}, NextPlace) BY <1>1, <1>4, UncheckedMade
  <2>2. stage' = "versions" /\ stage' \in LastStages BY <1>4 DEF Move, LastStages
  <2>3. RuleInv' BY <1>0, <1>4, RuleKept
  <2> QED BY <1>1, <1>4, <2>1, <2>2, <2>3, LastKeeps DEF Made
<1> QED BY <1>2, <1>3, <1>4 DEF ResolveCorrection

LEMMA VersionsKeep == RouteInv /\ (AnswerCorrection \/ \E s \in Subjects : ReadVersion(s)) => StepKept
<1> SUFFICES ASSUME RouteInv, AnswerCorrection \/ \E s \in Subjects : ReadVersion(s) PROVE StepKept
  OBVIOUS
<1>0. stage = "versions" /\ stage \in LastStages /\ stage \in EveryStages
  BY DEF AnswerCorrection, ReadVersion, LastStages, EveryStages, Stages
<1>1. AgentTypeOK /\ RouteTyped /\ pc \in Routes /\ result = NoResult BY <1>0, AtLast
<1>2. CASE Limit BY <1>1, <1>2, EndsFree, QuitKeeps
<1>3. CASE AnswerCorrection BY <1>0, <1>1, <1>2, <1>3, CitedKeeps DEF AnswerCorrection, Refusals
<1>4. ASSUME NEW s \in Subjects, ReadVersion(s) PROVE StepKept
  <2>1. CASE ToolBudgetLeft /\ (CallEndsRun \/ RaiseEndsRun \/ ResultEndsRun)
    BY <1>1, <2>1, CallEnds, QuitKeeps DEF CanCall
  <2>2. ASSUME ToolBudgetLeft, NEW found \in (SUBSET FilingsOf(s)) \ {{}}, Reply(found),
               Move(stage), todo' = todo \ {s}, UNCHANGED <<subject, local, owed, named, reach>>
        PROVE  StepKept
    <3>1. found \in SUBSET Filings BY DEF FilingsOf
    <3>2. Made(found, pc) BY <1>1, <2>2, <3>1, ReplyMade
    <3>3. stage' = stage /\ todo' \in SUBSET asked BY <1>1, <2>2 DEF Move, RouteTyped
    <3>4. RuleInv' BY <1>0, <2>2, RuleKept
    <3> QED BY <1>0, <1>1, <2>2, <3>2, <3>3, <3>4, LastKeeps DEF Made
  <2> QED BY <1>2, <1>4, <2>1, <2>2 DEF ReadVersion
<1> QED BY <1>3, <1>4

LEMMA ReceiptKeeps == RouteInv /\ SearchReceipt => StepKept
<1> SUFFICES ASSUME RouteInv, SearchReceipt PROVE StepKept
  OBVIOUS
<1>0. stage = "receipt" /\ stage \in PinnedStages BY DEF SearchReceipt, PinnedStages
<1>1. /\ AgentTypeOK /\ RouteTyped /\ pc \in {"route", "pinned"} /\ pc \in Routes /\ CanCall
      /\ result = NoResult /\ NextPlace \in Routes /\ {} \in SUBSET Filings
  BY <1>0, AtPinned
<1>2. CASE HandOver("plan") BY <1>1, <1>2, PassesKeep
<1>3. CASE Fail \/ OutOfTime BY <1>1, <1>3, EndsFree, QuitKeeps
<1>4. CASE CallEndsRun BY <1>1, <1>4, CallEnds, QuitKeeps
<1>5. ASSUME NEW found \in SUBSET Filings, Made(found, NextPlace), NEW st \in {"extract", "shown"}, Move(st),
             UNCHANGED <<work, named, reach>>
      PROVE  StepKept
  <2>1. todo' \in SUBSET asked BY <1>1, <1>5 DEF work, RouteTyped
  <2>2. stage' = st /\ stage' \in LastStages BY <1>5 DEF Move, LastStages
  <2>3. RuleInv' BY <1>5, <2>2, NoRuleOwed DEF EveryStages
  <2> QED BY <1>1, <1>5, <2>1, <2>2, <2>3, LastKeeps DEF Made, Move, work
<1>6. "shown" \in {"extract", "shown"} /\ "extract" \in {"extract", "shown"} OBVIOUS
<1>7. CASE UncheckedRaise /\ Move("shown") /\ UNCHANGED <<work, named, reach>>
  <2>1. Made({}, NextPlace) BY <1>1, <1>7, UncheckedMade
  <2> QED BY <1>1, <1>5, <1>6, <1>7, <2>1
<1>8. CASE ToolError(NextPlace) /\ UNCHANGED turn /\ Move("extract") /\ UNCHANGED <<work, named, reach>>
  <2>1. Made({}, NextPlace) BY <1>1, <1>8, UncheckedMade
  <2> QED BY <1>1, <1>5, <1>6, <1>8, <2>1
<1>9. ASSUME NEW found \in SUBSET Filings, UncheckedReply(found), Move("extract"), UNCHANGED <<work, named, reach>>
      PROVE  StepKept
  <2>1. Made(found, NextPlace) BY <1>1, <1>9, UncheckedMade
  <2> QED BY <1>5, <1>6, <1>9, <2>1
<1> QED BY <1>2, <1>3, <1>4, <1>7, <1>8, <1>9 DEF SearchReceipt

LEMMA ExtractKeeps == RouteInv /\ ShowReceipt => StepKept
<1> SUFFICES ASSUME RouteInv, ShowReceipt PROVE StepKept
  OBVIOUS
<1>0. stage \in {"extract", "shown"} /\ stage \in LastStages BY DEF ShowReceipt, LastStages
<1>1. /\ AgentTypeOK /\ RouteTyped /\ pc \in Routes /\ result = NoResult /\ evidence \in SUBSET Filings
  BY <1>0, AtLast DEF AgentTypeOK
<1>2. CASE HandOver("plan") BY <1>1, <1>2, PassesKeep
<1>3. CASE Fail \/ Limit BY <1>1, <1>3, EndsFree, QuitKeeps
<1>4. CASE /\ evidence # {} /\ Return("completed", evidence, limits)
           /\ Move("over") /\ Cleared /\ rule' = "extract" /\ UNCHANGED <<budget, named, checked>>
  <2>0. stage' = "over" /\ asked' = asked BY <1>4 DEF Move
  <2>1. {} \in SUBSET Limits /\ "completed" \in Outcomes /\ limits \cup {} = limits BY DEF Outcomes
  <2>2. Next BY <1>1, <1>4, <2>1, ReturnIsPreflights
  <2>3. RunInv' BY <2>2, RunStays
  <2>4. RouteTyped' BY <1>1, <1>4, <2>0 DEF RouteTyped, Stages, Rules, Cleared
  <2>5. PlaceInv' BY <2>0 DEF PlaceInv, FirstStages, PinnedStages, LastStages
  <2>6. RoomInv' BY <2>0, NoRoomOwed DEF RoomStages
  <2>7. AnswersCoverTheQuestion' BY <1>4 DEF AnswersCoverTheQuestion, Reaches
  <2>8. CoverInv' BY <2>0, <2>7 DEF CoverInv
  <2>9. RuleInv' BY <2>0, NoRuleOwed DEF EveryStages
  <2> QED BY <2>2, <2>3, <2>4, <2>5, <2>6, <2>8, <2>9 DEF RouteInv, StepKept
<1> QED BY <1>2, <1>3, <1>4 DEF ShowReceipt

LEMMA PeriodicRoutesKeep == RouteInv /\ PeriodicStep => StepKept
BY PeriodicKeeps, SearchesKeep, ChoiceKeeps, RatiosKeep, GrowthKeeps, RowsKeep, ComparisonKeeps,
   MarginKeeps, StatementStepKeeps, CorrectionKeeps, VersionsKeep, ReceiptKeeps, ExtractKeeps DEF PeriodicStep

-------------------------------------------------------------------------------
(* The theorems about the routes.                                              *)

LEMMA WorldKeepsRouteInv ==
  ASSUME RouteInv, ((Expire \/ ChangeLineage) /\ UNCHANGED route) \/ UNCHANGED routesVars
  PROVE  StepKept
<1>1. [Next]_vars BY DEF Next, routesVars
<1>2. UNCHANGED route /\ UNCHANGED <<pc, budget, evidence, result>>
  BY DEF Expire, ChangeLineage, routesVars, vars, knowledge
<1>3. RunInv' BY <1>1, RunStays
<1> USE DEF route, work, budget
<1>4. RouteTyped' BY <1>2 DEF RouteInv, RouteTyped
<1>5. PlaceInv' BY <1>2 DEF RouteInv, PlaceInv
<1>6. RoomInv' BY <1>2 DEF RouteInv, RoomInv, Idle, SectorRoom
<1>7. CoverInv' BY <1>2 DEF RouteInv, CoverInv, Covered, FilingsOf, AnswersCoverTheQuestion, Reaches
<1>8. RuleInv' BY <1>2 DEF RouteInv, RuleInv
<1> QED BY <1>1, <1>3, <1>4, <1>5, <1>6, <1>7, <1>8 DEF RouteInv, StepKept

LEMMA RouteInvStep == RouteInv /\ [RoutesNext]_routesVars => StepKept
BY EventRoutesKeep, PeriodicRoutesKeep, WorldKeepsRouteInv DEF RoutesNext, RouteStep, WorldStep, Finished

LEMMA RouteInvHolds == RoutesSpec => []RouteInv
<1>1. RouteInv /\ [RoutesNext]_routesVars => RouteInv' BY RouteInvStep DEF StepKept
<1> QED BY <1>1, RouteInvInit, PTL DEF RoutesSpec

(* The state of the routes keeps its types: a loop looks only for what was     *)
(* asked, and owes three calls at most (runner.py:8042-12191).                 *)
THEOREM RoutesTyped == RoutesSpec => []RoutesTypeOK
<1>1. RouteInv => RoutesTypeOK BY DEF RouteInv, RunInv, RouteTyped, RoutesTypeOK
<1> QED BY <1>1, RouteInvHolds, PTL

(* Every route, with whatever it finds and however its calls fail, takes only  *)
(* the steps that AgentRun allows its preflight (runner.py:8042-12191).        *)
THEOREM RoutesImplementAgentRun == RoutesSpec => ImplementsAgentRun
<1>1. RouteInv /\ [RoutesNext]_routesVars => [Next]_vars BY RouteInvStep DEF StepKept
<1>2. RoutesInit => Init BY DEF RoutesInit
<1> QED BY <1>1, <1>2, RouteInvHolds, PTL DEF RoutesSpec, ImplementsAgentRun

(* What was proved of a run holds of every route: its calls overrun the budget *)
(* by two at most (runner.py:10544, 11304, 11897, 12093).                      *)
THEOREM RouteCallsStayBounded == RoutesSpec => []ToolCallsBounded
BY RoutesImplementAgentRun, ToolCallsStayBounded, PTL DEF ImplementsAgentRun, Spec

(* A route that counts its calls before the first has room for the last: the   *)
(* sum of all event types, the ratio of every company of a sector and the      *)
(* ranking of those that were checked (runner.py:3417, 8978).                  *)
THEOREM CalculationsKeepRoom == RoutesSpec => []CalculationsHaveRoom
<1>1. RouteInv => CalculationsHaveRoom
  <2> SUFFICES ASSUME RouteInv PROVE CalculationsHaveRoom
    OBVIOUS
  <2>1. /\ todo \in SUBSET Subjects /\ toolCalls \in Nat /\ MaxToolCalls \in Nat
        /\ Cardinality(todo) \in Nat
    BY Countable, AgentAssumption DEF RouteInv, RunInv, AgentTypeOK, RouteTyped
  <2>2. CASE stage = "types" BY <2>1, <2>2 DEF CalculationsHaveRoom, RouteInv, RoomInv, ToolBudgetLeft
  <2>3. CASE stage = "amounts"
    BY <2>1, <2>3 DEF CalculationsHaveRoom, RouteInv, RoomInv, SectorRoom, ToolBudgetLeft
  <2>4. CASE stage = "margins"
    BY <2>1, <2>4 DEF CalculationsHaveRoom, RouteInv, RoomInv, SectorRoom, ToolBudgetLeft
  <2> QED BY <2>2, <2>3, <2>4 DEF CalculationsHaveRoom
<1> QED BY <1>1, RouteInvHolds, PTL

(* Whatever a route's calls find, lose or leave out, an answer cites evidence  *)
(* of everything asked or names what is missing, and where it owes less than   *)
(* that, no type of event was left unlooked at, a part of the question is      *)
(* cited, and a comparison is of two companies (runner.py:9866, 9957, 10626,   *)
(* 10800, 10813).                                                              *)
THEOREM RoutesCoverTheQuestion == RoutesSpec => []AnswersCoverTheQuestion
<1>1. RouteInv => AnswersCoverTheQuestion
  <2> SUFFICES ASSUME RouteInv PROVE AnswersCoverTheQuestion
    OBVIOUS
  <2>1. CASE stage = "over" BY <2>1 DEF RouteInv, CoverInv
  <2>2. CASE stage # "over"
    <3>1. result = NoResult BY <2>2 DEF RouteInv, PlaceInv
    <3> QED BY <3>1 DEF AnswersCoverTheQuestion, NoResult
  <2> QED BY <2>1, <2>2
<1> QED BY <1>1, RouteInvHolds, PTL
===============================================================================
