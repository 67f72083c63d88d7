------------------------------ MODULE RouteSteps ------------------------------
(* What the preflight routes of AgentRunner.run have in common: their state    *)
(* and the ways in which one of their tool calls goes on or ends the run.  It  *)
(* details the preflight of AgentRun.  A question is about subjects (the event *)
(* types, companies, facts or receipts it asks for), and a filing about one.   *)
EXTENDS AgentRun

CONSTANTS
  Subjects,   \* what a question can ask about
  About,      \* the subject of a filing
  NoSubject

ASSUME RouteAssumption ==
  /\ IsFiniteSet(Subjects)
  /\ About \in [Filings -> Subjects]
  /\ NoSubject \notin Subjects

VARIABLES
  stage,    \* the call or decision the routes have come to
  asked,    \* the subjects of the question
  todo,     \* those the loop at hand has still to look up
  subject,  \* the one looked up further
  named,    \* those the answer says are missing, not disclosed or not checked
  local,    \* filings found that are not in evidence yet
  owed,     \* calls that are still due in the loop at hand
  rule,     \* how much of the question the answer at hand has to reach
  checked   \* the event types whose query was answered: verified_event_types

work       == <<todo, subject, local, owed>>
reach      == <<rule, checked>>
route      == <<stage, asked, work, named, reach>>
routesVars == <<vars, route>>

FilingsOf(s) == {f \in Filings : About[f] = s}

Covered(found) == {About[f] : f \in found}

-------------------------------------------------------------------------------
(* A step of the routes goes to a stage, and names the variables it changes.   *)

Move(st) == stage' = st /\ UNCHANGED asked

Cleared == todo' = {} /\ subject' = NoSubject /\ local' = {} /\ owed' = 0

ContinueLoop == UNCHANGED todo   \* faulty variant: the loop is not left

(* The budget is spent before the loop has come to its end.                    *)
LeaveLoop == todo' = {}

Over == Move("over") /\ Cleared /\ UNCHANGED reach

(* The loop at hand is left, with nothing to do.                               *)
Settled(st) == Move(st) /\ Cleared /\ UNCHANGED <<named, reach>>

(* One call more, or none, and the preflight goes on.                          *)
Reply(found) == Found(found, pc) /\ UNCHANGED <<histories, turn>>

Raise == Raised(pc) /\ UNCHANGED turn

(* A result that is noted as being of another scope.                           *)
Spoil == Unused(pc) /\ UNCHANGED turn

NoCallMade == Goto(pc) /\ UNCHANGED turn

(* A call that does not look at the budget.                                    *)
NextPlace == IF pc = "route" THEN "pinned" ELSE "named"

UncheckedReply(found) == Found(found, NextPlace) /\ UNCHANGED <<histories, turn>>

UncheckedRaise == Raised(NextPlace) /\ UNCHANGED turn

-------------------------------------------------------------------------------
(* How a route ends the run without a call: finish, or an answer, which a      *)
(* context that cannot be packed turns into another end without evidence.      *)

Limit == UNCHANGED <<budget, named>> /\ GiveUp({}) /\ Over

OutOfTime == UNCHANGED <<budget, named>> /\ expired /\ GiveUp({"deadline_exhausted"}) /\ Over

Fail == UNCHANGED <<budget, named>> /\ FailClosed /\ Over

Answers(cited, otherwise, known) ==
  /\ cited # {}
  /\ Return("completed", cited, limits \cup known) \/ Return(otherwise, {}, limits \cup known)
  /\ Over

AnswerNaming(missing, cited, otherwise) ==
  /\ UNCHANGED budget
  /\ Answers(cited, otherwise, {})
  /\ named' = missing

Answer(cited, otherwise) == AnswerNaming(named, cited, otherwise)

(* An answer that the later routes can do without, and the loss of all         *)
(* evidence when the context for it could not be packed.                       *)
AnswerIfPacked(cited, missing) ==
  /\ cited # {}
  /\ Return("completed", cited, limits)
  /\ Over
  /\ named' = missing
  /\ UNCHANGED budget

Select(kept) ==
  /\ evidence' = kept
  /\ UNCHANGED <<pc, budget, histories, limits, turn, world, result>>

-------------------------------------------------------------------------------
(* How a call ends the run.                                                    *)

CallFinishes(outcome, kept, known) ==
  /\ toolCalls' = toolCalls + 1
  /\ Finish(outcome, kept, limits \cup known)
  /\ Over
  /\ UNCHANGED <<modelCalls, named>>

(* _dispatch_result_contract, lineage_matches, the company and the section of  *)
(* a result, and _is_backend_tool_error.                                       *)
CallEndsRun == DispatchEndsRun /\ Over /\ UNCHANGED named

CallFailsClosed == CallFinishes("failed_closed", evidence, {})

RaiseEndsRun == CallFinishes("information_limit", evidence, {"tool_dispatch_failed"})

ResultEndsRun == lineageOk /\ CallFinishes("information_limit", evidence, {})

CallAnswersNaming(missing, cited, otherwise) ==
  /\ lineageOk
  /\ toolCalls' = toolCalls + 1
  /\ Answers(cited, otherwise, {})
  /\ named' = missing
  /\ UNCHANGED modelCalls

CallAnswers(cited, otherwise) == CallAnswersNaming(named, cited, otherwise)

(* A call that raised leaves an answer without what it was for.                *)
RaiseAnswersNaming(missing, cited, otherwise) ==
  /\ toolCalls' = toolCalls + 1
  /\ Answers(cited, otherwise, {"tool_dispatch_failed"})
  /\ named' = missing
  /\ UNCHANGED modelCalls

(* call_calculation.                                                           *)
NoRoomToCalculate == ~ToolBudgetLeft /\ Limit

CalculationFails == ToolBudgetLeft /\ (CallEndsRun \/ RaiseEndsRun)

-------------------------------------------------------------------------------
RoutesInit ==
  /\ Init
  /\ stage = "entry"
  /\ asked \in (SUBSET Subjects) \ {{}}
  /\ todo = {}
  /\ subject = NoSubject
  /\ named = {}
  /\ local = {}
  /\ owed = 0
  /\ rule = "every"
  /\ checked = {}
===============================================================================
