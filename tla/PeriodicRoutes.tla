---------------------------- MODULE PeriodicRoutes ----------------------------
(* The later routes of AgentRunner.run: questions answered from the periodic   *)
(* reports of one company or of the companies of an ambiguous name, the        *)
(* comparison of a correction with what it corrects, and the question that     *)
(* names a receipt.  What they leave is handed over to the planner or, with    *)
(* its evidence, to the final draft of AgentRun.                               *)
EXTENDS EventRoutes

(* A stage at which the run is no longer the routes'.                          *)
HandOver(p) == Goto(p) /\ UNCHANGED turn /\ Settled("planner")

(* The company is resolved whatever the calls so far have left of the budget.  *)
ResolvePeriodic ==
  /\ stage = "periodic"
  /\ \/ NoCallMade /\ Settled("correction")
     \/ CallEndsRun \/ ResultEndsRun
     \/ (UncheckedRaise \/ UncheckedReply({})) /\ Settled("correction")
     \/ /\ UncheckedReply({}) /\ stage' = "searches"
        /\ UNCHANGED <<asked, subject, local, owed, named, checked>>
        /\ \/ todo' = asked /\ UNCHANGED rule
           \/ /\ Cardinality(asked) >= 2
              /\ todo' \in {c \in SUBSET asked : Cardinality(c) = Smaller(Cardinality(asked), MaxCompanies)}
              /\ rule' = "several"

(* One search for each report or company, one more in a second section; what   *)
(* they find counts for this route only.                                       *)
SearchReport(s) ==
  /\ stage = "searches" /\ subject = NoSubject /\ s \in todo
  /\ \/ ~ToolBudgetLeft /\ NoCallMade /\ Move(stage) /\ LeaveLoop /\ UNCHANGED <<subject, local>>
     \/ /\ ToolBudgetLeft /\ Move(stage) /\ todo' = todo \ {s}
        /\ \/ Raise /\ UNCHANGED <<subject, local>>
           \/ \E found \in SUBSET FilingsOf(s) :
                /\ Reply(found) /\ local' = local \cup found
                /\ subject' \in {NoSubject, s}
  /\ UNCHANGED <<owed, named, reach>>

SearchSecondSection ==
  /\ stage = "searches" /\ subject # NoSubject
  /\ \/ ~ToolBudgetLeft /\ NoCallMade /\ UNCHANGED local
     \/ ToolBudgetLeft /\ \E found \in SUBSET FilingsOf(subject) : Reply(found) /\ local' = local \cup found
  /\ Move(stage) /\ subject' = NoSubject /\ UNCHANGED <<todo, owed, named, reach>>

SearchEndsRun ==
  /\ stage = "searches" /\ ToolBudgetLeft
  /\ \/ (todo # {} \/ subject # NoSubject) /\ CallEndsRun
     \/ subject # NoSubject /\ RaiseEndsRun

AnyFound == local # {}   \* faulty variant: one search with a result is enough

(* One company needs a result of every search; segments of a company, of any.  *)
(* Several companies need evidence of two.                                     *)
EnoughFound == IF rule = "several" THEN Cardinality(Covered(evidence)) >= 2 ELSE asked \subseteq Covered(local)

ChooseAnswer ==
  /\ stage = "searches" /\ todo = {} /\ subject = NoSubject
  /\ \/ ~EnoughFound /\ Limit
     \/ /\ NoCallMade /\ UNCHANGED <<work, named, checked>>
        /\ \/ EnoughFound /\ Move(IF rule = "several" THEN "comparison" ELSE "statement") /\ UNCHANGED rule
           \/ EnoughFound /\ rule = "every" /\ (Move("quarter") \/ Move("growth") \/ Move("margin")) /\ UNCHANGED rule
           \/ rule = "every" /\ local # {} /\ Move("statement") /\ rule' = "any"
     \/ /\ NoCallMade /\ EnoughFound /\ Move(IF rule = "several" THEN "rows" ELSE "ratios")
        /\ owed' \in 1..3
        /\ UNCHANGED <<todo, subject, local, named, reach>>

(* Ratios of one report, the changes of several metrics, the margin of a       *)
(* fourth quarter: every calculation must succeed.  An operand may be missing  *)
(* before the first or between two.                                            *)
CalculateRatio ==
  /\ stage = "ratios"
  /\ \/ Limit
     \/ /\ owed > 0
        /\ \/ NoRoomToCalculate \/ CalculationFails
           \/ ToolBudgetLeft /\ ResultEndsRun
           \/ /\ ToolBudgetLeft /\ Reply({}) /\ Move(stage) /\ owed' = owed - 1
              /\ UNCHANGED <<todo, subject, local, named, reach>>

Cites(cited) == cited \subseteq evidence /\ asked \subseteq Covered(cited)

AnswerRatios ==
  /\ stage = "ratios" /\ owed = 0
  /\ \E cited \in SUBSET Filings : Cites(cited) /\ Answer(cited, "information_limit")

CalculateQuarter ==
  /\ stage = "quarter"
  /\ \/ Limit
     \/ /\ ToolBudgetLeft
        /\ \/ RaiseEndsRun \/ CallFailsClosed \/ ResultEndsRun
           \/ \E cited \in SUBSET Filings : Cites(cited) /\ CallAnswers(cited, "information_limit")

(* The growth is calculated whatever is left of the budget.                    *)
CalculateGrowth ==
  /\ stage = "growth"
  /\ \/ Limit
     \/ RaiseEndsRun \/ CallFailsClosed \/ ResultEndsRun
     \/ CallAnswers(evidence, "failed_closed")

(* The margins of several companies, as far as the budget goes, and their      *)
(* difference; the answer needs a margin of each.                              *)
CalculateRow ==
  /\ stage = "rows" /\ owed > 0
  /\ \/ ToolBudgetLeft /\ CallFailsClosed
     \/ /\ Move(stage) /\ UNCHANGED <<todo, subject, named, reach>>
        /\ \/ ~ToolBudgetLeft /\ NoCallMade /\ owed' = 0 /\ local' = {}
           \/ ToolBudgetLeft /\ (Raise \/ Reply({})) /\ owed' = 0 /\ local' = {}
           \/ ToolBudgetLeft /\ Reply({}) /\ owed' = owed - 1 /\ UNCHANGED local

AnswerRows ==
  /\ stage = "rows"
  /\ \/ Limit
     \/ /\ owed = 0 /\ local # {}
        /\ \/ Answer(evidence, "failed_closed")
           \/ /\ ToolBudgetLeft
              /\ \/ CallFailsClosed
                 \/ CallAnswers(evidence, "failed_closed")
                 \/ RaiseAnswersNaming(named, evidence, "failed_closed")

(* The comparison of an amount of several companies, with its difference and   *)
(* multiple if there is room for them.                                         *)
CompareCompanies ==
  /\ stage = "comparison"
  /\ UNCHANGED <<todo, subject, local>>
  /\ owed < 2 /\ ToolBudgetLeft
  /\ (Raise \/ Reply({})) /\ Move(stage) /\ owed' = owed + 1 /\ UNCHANGED <<named, reach>>

AnswerComparison ==
  /\ stage = "comparison"
  /\ \/ ToolBudgetLeft /\ owed < 2 /\ CallFailsClosed
     \/ AnswerIfPacked(evidence, named)
     \/ NoCallMade /\ Settled("statement")
     \/ Select({}) /\ Settled("statement")

CalculateMargin ==
  /\ stage = "margin"
  /\ \/ ~ToolBudgetLeft /\ NoCallMade /\ Settled("statement")
     \/ /\ ToolBudgetLeft
        /\ \/ CallFailsClosed
           \/ Raise /\ Settled("statement")
           \/ Reply({}) /\ Move("answer") /\ UNCHANGED <<work, named, reach>>

AnswerMargin ==
  /\ stage = "answer"
  /\ \/ AnswerIfPacked(evidence, named)
     \/ NoCallMade /\ Settled("statement")
     \/ Select({}) /\ Settled("statement")

(* An amount, a table or an excerpt rendered from the evidence.  What cannot   *)
(* be rendered is drafted by the model from whatever evidence there is.        *)
AnswerStatement ==
  /\ stage = "statement"
  /\ \/ Limit
     \/ rule # "several" /\ Answer(evidence, "failed_closed")
     \/ evidence # {} /\ HandOver("final")

-------------------------------------------------------------------------------
(* A correction and the filing it corrects, compared section by section.       *)

ResolveCorrection ==
  /\ stage = "correction"
  /\ \/ NoCallMade /\ Settled("receipt")
     \/ /\ Cardinality(asked) = 2
        /\ \/ CallEndsRun \/ RaiseEndsRun \/ ResultEndsRun
           \/ /\ UncheckedReply({}) /\ Move("versions") /\ todo' = asked
              /\ UNCHANGED <<subject, local, owed, named, reach>>

ReadVersion(s) ==
  /\ stage = "versions" /\ s \in todo
  /\ \/ (~ToolBudgetLeft \/ expired) /\ Limit
     \/ /\ ToolBudgetLeft /\ ~expired
        /\ \/ CallEndsRun \/ RaiseEndsRun \/ ResultEndsRun
           \/ /\ \E found \in (SUBSET FilingsOf(s)) \ {{}} : Reply(found)
              /\ Move(stage) /\ todo' = todo \ {s} /\ UNCHANGED <<subject, local, owed, named, reach>>

AnswerCorrection ==
  /\ stage = "versions" /\ todo = {}
  /\ \/ Limit
     \/ \E cited \in SUBSET Filings : Cites(cited) /\ Answer(cited, "information_limit")

(* The filing of a named receipt is looked up whatever is left of the budget   *)
(* and shown word for word, if no correction needs its history consulted: an   *)
(* extract speaks only for the filings it shows.                               *)
SearchReceipt ==
  /\ stage = "receipt"
  /\ \/ HandOver("plan")
     \/ ~lineageOk /\ Fail
     \/ OutOfTime
     \/ /\ ~expired
        /\ \/ CallEndsRun
           \/ UncheckedRaise /\ Move("shown") /\ UNCHANGED <<work, named, reach>>
           \/ /\ ToolError(NextPlace) /\ UNCHANGED turn
              /\ Move("extract") /\ UNCHANGED <<work, named, reach>>
           \/ /\ \E found \in SUBSET Filings : UncheckedReply(found)
              /\ Move("extract") /\ UNCHANGED <<work, named, reach>>

ShowReceipt ==
  /\ stage \in {"extract", "shown"}
  /\ \/ (stage = "shown" \/ evidence = {} \/ ~HistorySatisfied(evidence)) /\ HandOver("plan")
     \/ stage = "extract" /\ evidence # {} /\ Fail
     \/ /\ stage = "extract" /\ HistorySatisfied(evidence) /\ evidence # {}
        /\ \/ Limit
           \/ /\ Return("completed", evidence, limits)
              /\ Move("over") /\ Cleared /\ rule' = "extract"
              /\ UNCHANGED <<budget, named, checked>>

-------------------------------------------------------------------------------
PeriodicStep ==
  \/ ResolvePeriodic
  \/ \E s \in Subjects : SearchReport(s) \/ ReadVersion(s)
  \/ SearchSecondSection \/ SearchEndsRun \/ ChooseAnswer
  \/ CalculateRatio \/ AnswerRatios \/ CalculateQuarter \/ CalculateGrowth
  \/ CalculateRow \/ AnswerRows \/ CompareCompanies \/ AnswerComparison
  \/ CalculateMargin \/ AnswerMargin \/ AnswerStatement
  \/ ResolveCorrection \/ AnswerCorrection \/ SearchReceipt \/ ShowReceipt
===============================================================================
