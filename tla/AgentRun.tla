------------------------------- MODULE AgentRun -------------------------------
(* AgentRunner.run of src/disclosure_agent/agent/runner.py: one question's run *)
(* through the code-routed preflight calls, the planner loop, the fallback for *)
(* a planner that calls no tool, the correction-history loop and the final     *)
(* draft.  A tool call and a model call are one step each; what the tools find *)
(* and what the model says is chosen freely.  The evidence is reduced to the   *)
(* filings it cites: a filing that needs no history (an original, or an event  *)
(* row) or a correction, which cites the other filings of its chain by name.   *)
EXTENDS Naturals, FiniteSets

CONSTANTS
  Plain,          \* filings whose evidence needs no history
  Corrections,    \* corrected filings
  Names,          \* the filings a correction's citation names: itself, root, latest
  Reads,          \* read_section calls the planner can make
  Lookups,        \* other tool calls of the planner that add evidence
  NoCall,         \* between two calls
  MaxToolCalls,   \* AgentConfig.max_tool_calls
  MaxModelCalls,  \* AgentConfig.max_model_calls
  MaxTurn,        \* bound on the tool calls in one planner response
  MaxCompanies    \* companies of an ambiguous name that are searched: 5 in the code

Filings == Plain \cup Corrections

(* get_history is identified by the filing it asks for.                        *)
Calls == Reads \cup Lookups \cup Corrections \cup {"calculate"}

ASSUME AgentAssumption ==
  /\ Names \in [Corrections -> SUBSET Filings]
  /\ \A f \in Corrections : f \in Names[f]
  /\ NoCall \notin Calls
  /\ MaxToolCalls \in Nat \ {0}
  /\ MaxModelCalls \in Nat \ {0}
  /\ MaxTurn \in Nat \ {0}
  /\ MaxCompanies \in Nat \ {0}

VARIABLES
  pc,         \* the part of run that is executing
  toolCalls,  \* tool_calls
  modelCalls, \* model_calls
  evidence,   \* the filings the collected evidence cites
  histories,  \* history_identifiers
  limits,     \* the limitations that are read again
  pending,    \* calls of the planner's response not yet looked at
  call,       \* the one being made
  seen,       \* seen_calls
  reusable,   \* keys of preflight_results
  listed,     \* reads whose receipt is in sections_by_receipt
  statement,  \* successful_financial_read
  companies,  \* companies still to be searched one by one
  basis,      \* the question asks for one accounting basis
  expired,    \* the deadline has passed or the request was cancelled
  lineageOk,  \* the registry still reports the lineage the run began with
  result      \* the AgentRunResult, reduced

budget    == <<toolCalls, modelCalls>>
knowledge == <<evidence, histories, limits>>
turn      == <<pending, call, seen, reusable, listed, statement, companies>>
world     == <<basis, expired, lineageOk>>
vars == <<pc, budget, knowledge, turn, world, result>>

(* The preflight, before and after its calls that do not look at the budget.   *)
Routes == {"route", "pinned", "named"}

Places == Routes \cup {"plan", "asked", "turn", "call", "event", "companies",
           "fallback", "search", "fanout", "history", "final", "drafting", "done"}

Outcomes == {"completed", "information_limit", "failed_closed"}

Limits == {"tool_dispatch_failed", "tool_error", "model_gateway_failed", "deadline_exhausted"}

NoResult == [outcome |-> "none", evidence |-> {}, limits |-> {}]

AgentTypeOK ==
  /\ pc \in Places
  /\ toolCalls \in Nat
  /\ modelCalls \in 0..MaxModelCalls
  /\ evidence \in SUBSET Filings
  /\ histories \in SUBSET Corrections
  /\ limits \in SUBSET Limits
  /\ pending \in 0..MaxTurn
  /\ call \in Calls \cup {NoCall}
  /\ seen \in SUBSET Calls
  /\ reusable \in SUBSET Calls
  /\ listed \in SUBSET Reads
  /\ statement \in BOOLEAN
  /\ companies \in 0..MaxCompanies
  /\ basis \in BOOLEAN
  /\ expired \in BOOLEAN
  /\ lineageOk \in BOOLEAN
  /\ result \in {NoResult} \cup [outcome : Outcomes, evidence : SUBSET Filings, limits : SUBSET Limits]

Init ==
  /\ pc = "route"
  /\ toolCalls = 0
  /\ modelCalls = 0
  /\ evidence = {}
  /\ histories = {}
  /\ limits = {}
  /\ pending = 0
  /\ call = NoCall
  /\ seen = {}
  /\ reusable = {}
  /\ listed = {}
  /\ statement = FALSE
  /\ companies = 0
  /\ basis \in BOOLEAN
  /\ expired = FALSE
  /\ lineageOk = TRUE
  /\ result = NoResult

-------------------------------------------------------------------------------
(* How a run ends.                                                             *)

Return(outcome, found, known) ==
  /\ pc' = "done"
  /\ result' = [outcome |-> outcome, evidence |-> found, limits |-> known]
  /\ UNCHANGED <<knowledge, turn, world>>

(* finish: a backend failure drops what was found, and evidence that cannot be *)
(* packed fails the run closed.                                                *)
Kept(outcome, found, known) ==
  IF outcome = "information_limit" /\ "tool_dispatch_failed" \in known THEN {} ELSE found

Finish(outcome, found, known) ==
  \/ Return(outcome, Kept(outcome, found, known), known)
  \/ Kept(outcome, found, known) # {} /\ Return("failed_closed", {}, known)

GiveUp(known) == Finish("information_limit", evidence, limits \cup known)

FailClosed == Finish("failed_closed", evidence, limits)

(* How a tool call ends the run: a malformed result, another lineage or company *)
(* fails it closed, and a backend's error drops all evidence.                  *)
DispatchEndsRun ==
  /\ toolCalls' = toolCalls + 1
  /\ \/ FailClosed
     \/ lineageOk /\ Finish("information_limit", {}, limits \cup {"tool_dispatch_failed"})
  /\ UNCHANGED modelCalls

(* Otherwise the run goes on at p: dispatch raised, ...                        *)
Raised(p) ==
  /\ toolCalls' = toolCalls + 1
  /\ limits' = limits \cup {"tool_dispatch_failed"}
  /\ pc' = p
  /\ UNCHANGED <<modelCalls, evidence, histories, world, result>>

(* ... or returned evidence under the run's lineage, ...                       *)
Found(found, p) ==
  /\ lineageOk
  /\ toolCalls' = toolCalls + 1
  /\ evidence' = evidence \cup found
  /\ pc' = p
  /\ UNCHANGED <<modelCalls, limits, world, result>>

(* ... or an error of the tool, which is not the backend's.                    *)
ToolError(p) ==
  /\ lineageOk
  /\ toolCalls' = toolCalls + 1
  /\ limits' = limits \cup {"tool_error"}
  /\ pc' = p
  /\ UNCHANGED <<modelCalls, evidence, histories, world, result>>

Goto(p) ==
  /\ pc' = p
  /\ UNCHANGED <<budget, knowledge, world, result>>

HistorySatisfiedByAny(found) == found \cap Corrections # {} => histories # {}   \* faulty variant

(* _history_satisfies: the history of every correction cited was consulted     *)
(* under one of the names its citation gives.                                  *)
HistorySatisfied(found) == \A f \in found \cap Corrections : Names[f] \cap histories # {}

BudgetUnchecked == TRUE   \* faulty variant: the limit is not looked at

ToolBudgetLeft == toolCalls < MaxToolCalls

-------------------------------------------------------------------------------
(* The preflight calls, by which the code answers a routed question or pins a  *)
(* company before the planner is asked.                                        *)

(* A resolved company or an event query is kept for the planner to reuse.      *)
Remember ==
  /\ reusable' \in {reusable} \cup {reusable \cup {key} : key \in Lookups}
  /\ UNCHANGED <<pending, call, seen, listed, statement, companies>>

(* What the preflight ends with, and which of the filings its calls found it   *)
(* keeps, is decided by its routes (module AgentRoutes).                       *)
PreflightAnswer(known) ==
  \E outcome \in Outcomes, kept \in SUBSET Filings :
    /\ outcome = "completed" => kept # {}
    /\ Return(outcome, kept, limits \cup known)

PreflightCallEnds ==
  /\ toolCalls' = toolCalls + 1
  /\ \E known \in {{}, {"tool_dispatch_failed"}} : PreflightAnswer(known)
  /\ UNCHANGED modelCalls

(* A result of another scope that a route notes, going on without it.          *)
Unused(p) ==
  /\ toolCalls' = toolCalls + 1
  /\ pc' = p
  /\ UNCHANGED <<modelCalls, knowledge, world, result>>

PreflightResult(p) ==
  \/ PreflightCallEnds
  \/ Unused(p) /\ UNCHANGED turn
  \/ Raised(p) /\ UNCHANGED turn
  \/ ToolError(p) /\ Remember
  \/ \E found \in SUBSET Filings : Found(found, p) /\ Remember /\ UNCHANGED histories

PreflightCall ==
  /\ pc \in Routes
  /\ ToolBudgetLeft
  /\ PreflightResult(pc)

(* The company of a routed question is resolved, and then its growth is        *)
(* calculated, its correction's history read or the receipts it names looked   *)
(* up, whatever the calls before have left of the budget.                      *)
UncheckedCall ==
  \/ pc = "route" /\ PreflightResult("pinned")
  \/ pc = "pinned" /\ PreflightResult("named")

PreflightEnds ==
  /\ pc \in Routes
  /\ UNCHANGED budget
  /\ PreflightAnswer({}) \/ (expired /\ PreflightAnswer({"deadline_exhausted"}))

(* A route adds what it selected of the filings its calls found, or loses all  *)
(* evidence when it cannot be packed.                                          *)
PreflightSelects ==
  /\ pc \in Routes
  /\ evidence' \in SUBSET Filings
  /\ UNCHANGED <<pc, budget, histories, limits, turn, world, result>>

(* A structured question whose table cannot be read by code is drafted by the  *)
(* model at once; all others that are left go to the planner.                  *)
PreflightPasses ==
  /\ pc \in Routes
  /\ \/ evidence # {} /\ Goto("final")
     \/ Goto("plan")
  /\ UNCHANGED turn

-------------------------------------------------------------------------------
(* The planner loop.                                                           *)

CountNothing == UNCHANGED modelCalls   \* faulty variant: model_calls is not raised

CountModelCall == modelCalls' = modelCalls + 1

ModelBudgetLeft == modelCalls < MaxModelCalls

(* call_model up to the call itself.                                           *)
AskPlanner ==
  /\ pc = "plan"
  /\ lineageOk /\ ~expired /\ ModelBudgetLeft
  /\ CountModelCall
  /\ pc' = "asked"
  /\ UNCHANGED <<toolCalls, knowledge, turn, world, result>>

PlannerNotAsked ==
  /\ pc = "plan"
  /\ UNCHANGED budget
  /\ \/ FailClosed
     \/ lineageOk /\ expired /\ GiveUp({"deadline_exhausted"})
     \/ lineageOk /\ ~expired /\ ~ModelBudgetLeft /\ GiveUp({})

PlannerFails ==
  /\ pc = "asked"
  /\ UNCHANGED budget
  /\ \/ GiveUp({"model_gateway_failed"})
     \/ FailClosed
     \/ lineageOk /\ expired /\ GiveUp({"deadline_exhausted"})

PlannerCallsTools ==
  /\ pc = "asked"
  /\ lineageOk /\ ~expired
  /\ Goto("turn")
  /\ pending' \in 1..MaxTurn
  /\ call' = NoCall
  /\ statement' = FALSE
  /\ UNCHANGED <<seen, reusable, listed, companies>>

(* A planner that is done goes on to the final draft by way of the correction  *)
(* histories, one that never called a tool by way of a search of the code's.   *)
PlannerStops ==
  /\ pc = "asked"
  /\ lineageOk /\ ~expired
  /\ \/ evidence # {} /\ Goto("history") /\ UNCHANGED turn
     \/ evidence = {} /\ limits = {} /\ Goto("fallback") /\ UNCHANGED turn
     \/ evidence = {} /\ limits # {} /\ GiveUp({}) /\ UNCHANGED budget

(* The next call of the response is refused, and with it the run: the deadline *)
(* (not looked at before the first call), the budget, the arguments.           *)
RefuseCall ==
  /\ pc = "turn" /\ pending > 0
  /\ UNCHANGED budget
  /\ \/ expired /\ call # NoCall /\ GiveUp({"deadline_exhausted"})
     \/ ~ToolBudgetLeft /\ GiveUp({})
     \/ GiveUp({})

PickCall(c) ==
  /\ pc = "turn" /\ pending > 0
  /\ ToolBudgetLeft
  /\ pending' = pending - 1
  /\ call' = c
  /\ UNCHANGED <<seen, reusable, statement, companies>>

(* A read on a question with a basis has its receipt's sections listed first.  *)
NeedsSections(c) == c \in Reads \ listed /\ basis /\ ~expired

TakeCall(c) == PickCall(c) /\ ~NeedsSections(c) /\ Goto("call") /\ UNCHANGED listed

ListSections(c) ==
  /\ NeedsSections(c)
  /\ \/ PickCall(c) /\ (Raised("call") \/ ToolError("call")) /\ UNCHANGED listed
     \/ PickCall(c) /\ Found({}, "call") /\ UNCHANGED histories /\ listed' \in {listed, listed \cup {c}}
     \/ pc = "turn" /\ pending > 0 /\ ToolBudgetLeft /\ DispatchEndsRun

(* A result already at hand is reused and costs nothing.                       *)
SpareCall ==
  /\ pc = "call"
  /\ \/ call \in reusable
     \/ call \in Corrections \ seen /\ (seen \cup reusable) \cap Lookups # {}
  /\ Goto("turn")
  /\ UNCHANGED turn

(* A call made before, a calculation on nothing, and a section of the wrong    *)
(* basis end the run.                                                          *)
RejectCall ==
  /\ pc = "call"
  /\ \/ call \in seen \ reusable
     \/ call = "calculate" /\ evidence = {}
     \/ call \in Reads /\ basis
  /\ GiveUp({})
  /\ UNCHANGED budget

Dispatched == seen' = seen \cup {call}

(* What a result teaches the run, by the tool that gave it.                    *)
LearnSum ==
  /\ call = "calculate"
  /\ Found({}, "turn")
  /\ UNCHANGED <<histories, reusable, listed, statement, companies>>

LearnHistory(found) ==
  /\ call \in Corrections
  /\ Found(found, "turn")
  /\ histories' \in {histories, histories \cup {call}}
  /\ UNCHANGED <<reusable, listed, statement, companies>>

LearnSection(found) ==
  /\ call \in Reads
  /\ Found(found, "turn")
  /\ reusable' = reusable \cup {call}
  /\ \/ UNCHANGED statement
     \/ basis /\ found # {} /\ statement' = TRUE
  /\ UNCHANGED <<histories, listed, companies>>

LearnLookup(found) ==
  /\ call \in Lookups
  /\ \/ /\ Found(found, "turn")
        /\ listed' \in {listed} \cup {listed \cup {r} : r \in Reads}
        /\ UNCHANGED companies
     \/ Found(found, "event") /\ UNCHANGED <<listed, companies>>
     \/ Found(found, "companies") /\ companies' \in 2..MaxCompanies /\ UNCHANGED listed
  /\ UNCHANGED <<histories, reusable, statement>>

Learn == LearnSum \/ \E found \in SUBSET Filings : LearnHistory(found) \/ LearnSection(found) \/ LearnLookup(found)

DispatchCall ==
  /\ pc = "call"
  /\ call \notin reusable \cup seen
  /\ call = "calculate" => evidence # {}
  /\ \/ DispatchEndsRun
     \/ /\ Raised("turn") \/ ToolError("turn")
        /\ Dispatched
        /\ UNCHANGED <<pending, call, reusable, listed, statement, companies>>
     \/ Learn /\ Dispatched /\ UNCHANGED <<pending, call>>

(* A resolved company has its events queried at once, if there is room.        *)
QueryEvents ==
  /\ pc = "event"
  /\ \/ /\ ~ToolBudgetLeft \/ expired
        /\ Goto("turn")
        /\ UNCHANGED turn
     \/ /\ ToolBudgetLeft /\ ~expired
        /\ \/ DispatchEndsRun
           \/ Raised("turn") /\ UNCHANGED turn
           \/ \E found \in SUBSET Filings, key \in Lookups \ reusable :
                /\ (Found(found, "turn") /\ UNCHANGED histories) \/ ToolError("turn")
                /\ reusable' = reusable \cup {key}
                /\ UNCHANGED <<pending, call, seen, listed, statement, companies>>

(* An ambiguous name has each of its companies searched, as far as there is    *)
(* room: from the planner's turn, or from the fallback.                        *)
SearchCompany ==
  /\ pc \in {"companies", "fanout"}
  /\ companies > 0
  /\ ToolBudgetLeft /\ ~expired /\ lineageOk
  /\ \/ DispatchEndsRun
     \/ /\ Raised(pc) \/ \E found \in SUBSET Filings : (Found(found, pc) /\ UNCHANGED histories)
        /\ companies' = companies - 1
        /\ UNCHANGED <<pending, call, seen, reusable, listed, statement>>

CompaniesSearched == companies = 0 \/ ~ToolBudgetLeft \/ expired \/ ~lineageOk

LeaveCompanies ==
  /\ CompaniesSearched
  /\ \/ pc = "companies" /\ Goto("turn") /\ UNCHANGED turn
     \/ pc = "fanout" /\ evidence # {} /\ Goto("history") /\ UNCHANGED turn
     \/ pc = "fanout" /\ evidence = {} /\ GiveUp({}) /\ UNCHANGED budget

(* After the last call of a response: a statement that was read may be enough, *)
(* otherwise the planner is asked again.                                       *)
EndTurn ==
  /\ pc = "turn" /\ pending = 0
  /\ \/ statement /\ HistorySatisfied(evidence) /\ Goto("final") /\ UNCHANGED turn
     \/ Goto("plan") /\ UNCHANGED turn
     \/ evidence # {} /\ FailClosed /\ UNCHANGED budget

-------------------------------------------------------------------------------
(* The fallback of a planner that called no tool: resolve the company, then    *)
(* search its filings, or those of each company of an ambiguous name.          *)

ResolveFallback ==
  /\ pc = "fallback"
  /\ \/ ~ToolBudgetLeft /\ GiveUp({}) /\ UNCHANGED budget
     \/ /\ ToolBudgetLeft
        /\ \/ DispatchEndsRun
           \/ Raised("search") /\ UNCHANGED turn
           \/ Found({}, "search") /\ UNCHANGED <<histories, turn>>
           \/ /\ Found({}, "fanout") /\ UNCHANGED histories
              /\ companies' \in 2..MaxCompanies
              /\ UNCHANGED <<pending, call, seen, reusable, listed, statement>>

(* A call on which everything depends raises or finds nothing.                 *)
FruitlessCall(known) ==
  /\ toolCalls' = toolCalls + 1
  /\ GiveUp({"tool_dispatch_failed"}) \/ (lineageOk /\ GiveUp(known))
  /\ UNCHANGED modelCalls

SearchFallback ==
  /\ pc = "search"
  /\ \/ ~ToolBudgetLeft /\ GiveUp({}) /\ UNCHANGED budget
     \/ /\ ToolBudgetLeft
        /\ \/ DispatchEndsRun
           \/ FruitlessCall({})
           \/ \E found \in SUBSET Filings :
                /\ found # {}
                /\ Found(found, "history")
                /\ UNCHANGED <<histories, turn>>

-------------------------------------------------------------------------------
(* The correction histories that are still missing, then the final draft.      *)

ReadHistory ==
  /\ pc = "history"
  /\ ~HistorySatisfied(evidence)
  /\ \/ ~ToolBudgetLeft /\ GiveUp({}) /\ UNCHANGED budget
     \/ /\ ToolBudgetLeft
        /\ \/ DispatchEndsRun
           \/ \E known \in {{}, {"tool_error"}} : FruitlessCall(known)
           \/ \E f \in evidence \cap Corrections, found \in SUBSET Filings :
                /\ Names[f] \cap histories = {}
                /\ histories' = histories \cup {f}
                /\ Found(found, "history")
                /\ UNCHANGED turn

HistoryRead ==
  /\ pc = "history"
  /\ HistorySatisfied(evidence)
  /\ \/ Goto("final") /\ UNCHANGED turn
     \/ (FailClosed \/ GiveUp({})) /\ UNCHANGED budget

(* _generate_final keeps the evidence of a run that it gives up.               *)
DraftNotAsked ==
  /\ pc = "final"
  /\ UNCHANGED budget
  /\ \/ Return("failed_closed", {}, limits)
     \/ Return("information_limit", evidence, limits)
     \/ expired /\ Return("information_limit", evidence, limits \cup {"deadline_exhausted"})
     \/ ~lineageOk /\ Return("failed_closed", evidence, limits)

AskDraft ==
  /\ pc = "final"
  /\ lineageOk /\ ~expired /\ ModelBudgetLeft
  /\ CountModelCall
  /\ pc' = "drafting"
  /\ UNCHANGED <<toolCalls, knowledge, turn, world, result>>

DraftFails ==
  /\ pc = "drafting"
  /\ UNCHANGED budget
  /\ \/ Return("information_limit", evidence, limits \cup {"model_gateway_failed"})
     \/ Return("failed_closed", evidence, limits)
     \/ lineageOk /\ expired /\ Return("information_limit", evidence, limits \cup {"deadline_exhausted"})

(* A draft that shows a sum has it calculated, when that is still possible.    *)
Draft ==
  /\ pc = "drafting"
  /\ lineageOk /\ ~expired
  /\ \/ Return("completed", evidence, limits) /\ UNCHANGED budget
     \/ /\ ToolBudgetLeft
        /\ toolCalls' = toolCalls + 1
        /\ UNCHANGED modelCalls
        /\ \/ Return("completed", evidence, limits)
           \/ Return("completed", evidence, limits \cup {"tool_dispatch_failed"})
           \/ Return("failed_closed", evidence, limits)

-------------------------------------------------------------------------------
(* The world around the run: the deadline passes, after which the server also  *)
(* sets the cancel event, and the registry may come to report another lineage. *)

Expire ==
  /\ pc # "done" /\ ~expired
  /\ expired' = TRUE
  /\ UNCHANGED <<pc, budget, knowledge, turn, basis, lineageOk, result>>

ChangeLineage ==
  /\ pc # "done" /\ lineageOk
  /\ lineageOk' = FALSE
  /\ UNCHANGED <<pc, budget, knowledge, turn, basis, expired, result>>

Done == pc = "done" /\ UNCHANGED vars

Preflight == PreflightCall \/ UncheckedCall \/ PreflightEnds \/ PreflightPasses

Planner == AskPlanner \/ PlannerNotAsked \/ PlannerFails \/ PlannerCallsTools \/ PlannerStops

Turn ==
  \/ RefuseCall \/ SpareCall \/ RejectCall \/ DispatchCall \/ EndTurn
  \/ \E c \in Calls : TakeCall(c) \/ ListSections(c)
  \/ QueryEvents \/ SearchCompany \/ LeaveCompanies

Fallback == ResolveFallback \/ SearchFallback

Final == ReadHistory \/ HistoryRead \/ DraftNotAsked \/ AskDraft \/ DraftFails \/ Draft

Step == Preflight \/ Planner \/ Turn \/ Fallback \/ Final

Next == Step \/ PreflightSelects \/ Expire \/ ChangeLineage \/ Done

Spec == Init /\ [][Next]_vars

(* Tools and gateway answer or fail: each has a time limit of its own.         *)
FairSpec == Spec /\ WF_vars(Step)

-------------------------------------------------------------------------------
(* However they mix, the tool calls of a run overrun the budget by two at most: *)
(* the planner's reads by the listing in front of them (runner.py:12665,       *)
(* 12877), the preflight by two calls that do not look (10544, and 11304,      *)
(* 11897 or 12093).                                                            *)
ToolCallsBounded == toolCalls <= MaxToolCalls + 2

(* README.md:66: at most max_tool_calls tool calls in a question, here of one  *)
(* whose planner made calls, each after a look at the budget.                  *)
(* The code does not keep it; the README, section 3, tells how.                *)
ToolBudgetHolds == call # NoCall => toolCalls <= MaxToolCalls

(* A draft that follows on the planner is asked for only when the history of   *)
(* every correction in the evidence was consulted, wherever the evidence came  *)
(* from: the planner's calls, the companies, the fallback, or a history itself *)
(* (runner.py:12445, 13294).                                                   *)
DraftsKnowHistory ==
  pc = "drafting" /\ modelCalls > 1 =>
    \A f \in evidence \cap Corrections : \E h \in histories : h \in Names[f]

(* No run completes without evidence (runner.py:12212, 13357).                 *)
CompletedOnEvidence == result.outcome = "completed" => result.evidence # {}

(* Every run ends: a turn that only reuses results costs no tool call, but the *)
(* planner is asked max_model_calls times at most (runner.py:8156).            *)
RunEnds == <>(pc = "done")
===============================================================================
