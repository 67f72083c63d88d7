----------------------------- MODULE EventRoutes ------------------------------
(* The first routes of AgentRunner.run: company profiles, executive pay and    *)
(* sector rankings, which end the run, and the questions about events of a     *)
(* pinned company or of two companies, some of which go on to the later routes *)
(* (PeriodicRoutes).                                                           *)
EXTENDS RouteSteps

Smaller(a, b) == IF a < b THEN a ELSE b

(* Scope, and the first route that fits the question.                          *)
EnterRoutes ==
  /\ stage = "entry"
  /\ \/ Limit
     \/ /\ NoCallMade
        /\ \E st \in {"profile", "pay", "sector", "pin", "periodic"} : Move(st)
        /\ UNCHANGED <<work, named, reach>>

-------------------------------------------------------------------------------
(* The open company profile: resolve the company, list its annual reports and  *)
(* the sections of one, look for the roster, read the sections.                *)

ProfileInTime == ~expired   \* faulty variant: the budget is not looked at

ProfileOpen == ToolBudgetLeft /\ ~expired

ProfileCall ==
  /\ stage \in {"profile", "reports", "sections"}
  /\ \/ ~ProfileOpen /\ Limit
     \/ /\ ProfileOpen
        /\ \/ CallEndsRun \/ RaiseEndsRun \/ ResultEndsRun
           \/ /\ Reply({}) /\ UNCHANGED <<subject, local, owed, named, reach>>
              /\ \/ stage = "profile" /\ Move("reports") /\ UNCHANGED todo
                 \/ stage = "reports" /\ Move("sections") /\ UNCHANGED todo
                 \/ stage = "sections" /\ (Move("roster") \/ Move("read")) /\ todo' \in SUBSET asked

RosterSection == asked

(* A result of another scope spoils the answer, but not before the sections    *)
(* that are left have been read as well.                                       *)
SearchRoster ==
  /\ stage = "roster"
  /\ \/ ~ProfileOpen /\ NoCallMade /\ Move("read") /\ UNCHANGED todo
     \/ ProfileOpen /\ Raise /\ Move("read") /\ UNCHANGED todo
     \/ ProfileOpen /\ Spoil /\ Move("spoiled") /\ UNCHANGED todo
     \/ ProfileOpen /\ Reply({}) /\ Move("read") /\ todo' \in {todo} \cup {todo \cup {s} : s \in RosterSection}
  /\ UNCHANGED <<subject, local, owed, named, reach>>

(* A section is read, and a roster that does not end in it once more.          *)
ReadProfileSection(s) ==
  /\ stage \in {"read", "spoiled"}
  /\ subject = s \/ (subject = NoSubject /\ s \in todo)
  /\ \/ ProfileOpen /\ CallFailsClosed
     \/ /\ todo' = todo \ {s}
        /\ UNCHANGED <<owed, named, reach>>
        /\ \/ ~ProfileOpen /\ NoCallMade /\ Move(stage) /\ subject' = NoSubject /\ UNCHANGED local
           \/ ProfileOpen /\ Raise /\ Move(stage) /\ subject' = NoSubject /\ UNCHANGED local
           \/ ProfileOpen /\ Spoil /\ Move("spoiled") /\ subject' = NoSubject /\ UNCHANGED local
           \/ /\ ProfileOpen /\ Reply({}) /\ Move(stage)
              /\ \/ subject' = NoSubject /\ \E found \in SUBSET FilingsOf(s) : local' = local \cup found
                 \/ subject = NoSubject /\ subject' = s /\ UNCHANGED local

AnswerProfile ==
  /\ stage \in {"read", "spoiled"}
  /\ todo = {} /\ subject = NoSubject
  /\ \/ (stage = "spoiled" \/ ~lineageOk) /\ Fail
     \/ /\ stage = "read" /\ lineageOk
        /\ \/ Limit
           \/ /\ "tool_dispatch_failed" \notin limits
              /\ \E facts \in SUBSET Covered(local) : AnswerNaming(asked \ facts, local, "failed_closed")

-------------------------------------------------------------------------------
(* Executive pay: resolve the company, find its report, then search and read   *)
(* the table of pay and, if the role is still missing, the roster.             *)

PayCalls == 8

PayOpen == toolCalls < Smaller(PayCalls, MaxToolCalls) /\ ~expired

PayResultEnds(found) ==
  \/ RaiseEndsRun
  \/ CallFinishes("information_limit", evidence \cup found, {})

PayCall ==
  /\ stage \in {"pay", "payreport", "paysearch"}
  /\ \/ ~PayOpen /\ Limit
     \/ PayOpen /\ PayResultEnds({})
     \/ /\ PayOpen /\ Reply({}) /\ UNCHANGED <<todo, subject, local, named, reach>>
        /\ \/ stage = "pay" /\ Move("payreport") /\ UNCHANGED owed
           \/ stage = "payreport" /\ Move("paysearch") /\ owed' = 2
           \/ stage = "paysearch" /\ Move("paysection") /\ UNCHANGED owed

ReadPay ==
  /\ stage = "paysection"
  /\ \/ ~PayOpen /\ Limit
     \/ PayOpen /\ PayResultEnds({})
     \/ /\ PayOpen
        /\ \E found \in SUBSET Filings :
             \/ PayResultEnds(found)
             \/ asked \subseteq Covered(found) /\ CallAnswers(evidence \cup found, "failed_closed")
             \/ /\ owed = 2 /\ found # {}
                /\ Reply(found) /\ Move("paysearch") /\ owed' = 1
                /\ UNCHANGED <<todo, subject, local, named, reach>>

-------------------------------------------------------------------------------
(* Sector rankings: as many companies of the sector as leave room for the      *)
(* calculations, the others are named as not checked.                          *)

AllRatioCapacity == MaxToolCalls - 2   \* faulty variant: a ratio costs no call

RatioCapacity == (MaxToolCalls - 2) \div 2

RankCapacity == MaxToolCalls - 2

Capacity(margin) == IF MaxToolCalls < 2 THEN 0 ELSE IF margin THEN RatioCapacity ELSE RankCapacity

ResolveSector ==
  /\ stage = "sector"
  /\ \/ ~ToolBudgetLeft /\ Limit
     \/ /\ ToolBudgetLeft
        /\ \/ CallEndsRun \/ RaiseEndsRun \/ ResultEndsRun
           \/ \E margin \in BOOLEAN :
                /\ Reply({})
                /\ Move(IF margin THEN "margins" ELSE "amounts")
                /\ todo' \in {c \in SUBSET asked : Cardinality(c) = Smaller(Cardinality(asked), Capacity(margin))}
                /\ named' = asked \ todo'
                /\ UNCHANGED <<subject, local, owed, reach>>

(* A company without a usable figure is named as missing.                      *)
Misses(s) == named' = named \cup {s} /\ UNCHANGED <<subject, local>>

(* The loop's own look at the budget never finds it spent: CalculationsHaveRoom.*)
SearchCandidate(s) ==
  /\ stage \in {"margins", "amounts"} /\ subject = NoSubject /\ s \in todo
  /\ ToolBudgetLeft
  /\ \/ CallEndsRun
     \/ /\ Move(stage) /\ todo' = todo \ {s} /\ UNCHANGED <<owed, reach>>
        /\ \/ (Raise \/ Reply({})) /\ Misses(s)
           \/ \E found \in (SUBSET FilingsOf(s)) \ {{}} :
                \/ stage = "amounts" /\ Reply(found) /\ UNCHANGED <<subject, local, named>>
                \/ stage = "margins" /\ Reply({}) /\ local' = found /\ subject' = s /\ UNCHANGED named

CandidateRatio ==
  /\ stage = "margins" /\ subject # NoSubject
  /\ \/ NoRoomToCalculate \/ CalculationFails
     \/ /\ ToolBudgetLeft
        /\ Move(stage) /\ subject' = NoSubject /\ local' = {} /\ UNCHANGED <<todo, owed, reach>>
        /\ \/ Reply({}) /\ named' = named \cup {subject}
           \/ Reply(local) /\ UNCHANGED named

RankCandidates ==
  /\ stage \in {"margins", "amounts"} /\ subject = NoSubject /\ todo = {}
  /\ \/ Cardinality(asked \ named) < 2 /\ Limit
     \/ /\ Cardinality(asked \ named) >= 2
        /\ \/ NoRoomToCalculate \/ CalculationFails
           \/ ToolBudgetLeft /\ (ResultEndsRun \/ CallFailsClosed \/ CallAnswers(evidence, "failed_closed"))

-------------------------------------------------------------------------------
(* The company of a question about events or of one marked as a company's is   *)
(* pinned; a failure to do so leaves the question to the later routes.         *)

Later ==
  /\ Move("periodic") /\ Cleared /\ UNCHANGED named
  /\ rule' = "every" /\ checked' = {}

PinCompany ==
  /\ stage = "pin" /\ ToolBudgetLeft
  /\ \/ CallEndsRun \/ ResultEndsRun
     \/ Raise /\ Later
     \/ Reply({}) /\ Later
     \/ /\ Found({}, pc) /\ Remember /\ UNCHANGED histories
        /\ \E st \in {"total", "events", "periodic"} : Settled(st)
     \/ /\ Reply({}) /\ Cardinality(asked) = 2
        /\ Move("plans") \/ Move("facilities")
        /\ todo' = asked /\ UNCHANGED <<subject, local, owed, named, reach>>

-------------------------------------------------------------------------------
(* run_event_total: every type is queried on its own, and summed only if every *)
(* answer is complete and the sum still has room.                              *)

TotalFits == toolCalls + Cardinality(asked) + 1 <= MaxToolCalls

EnterTotal ==
  /\ stage = "total"
  /\ \/ Limit
     \/ /\ TotalFits
        /\ NoCallMade /\ Move("types") /\ todo' = asked
        /\ UNCHANGED <<subject, local, owed, named, reach>>

QueryType(s) ==
  /\ stage = "types" /\ s \in todo
  /\ \/ OutOfTime
     \/ /\ ~expired
        /\ \/ CallEndsRun \/ RaiseEndsRun \/ ResultEndsRun
           \/ /\ Reply({}) /\ Move(stage) /\ todo' = todo \ {s}
              /\ \/ named' = named \cup {s} /\ UNCHANGED local
                 \/ \E found \in (SUBSET FilingsOf(s)) \ {{}} : local' = local \cup found /\ UNCHANGED named
              /\ UNCHANGED <<subject, owed, reach>>

SumTypes ==
  /\ stage = "types" /\ todo = {}
  /\ \/ Limit
     \/ /\ local # {}
        /\ \/ NoRoomToCalculate \/ CalculationFails
           \/ ToolBudgetLeft /\ (CallFailsClosed \/ CallAnswers(local, "failed_closed"))

-------------------------------------------------------------------------------
(* The events of the pinned company, by all types asked for at once.           *)

EventsOpen == ToolBudgetLeft /\ ~expired

QueryAllTypes ==
  /\ stage = "events"
  /\ \/ ~EventsOpen /\ NoCallMade /\ Later
     \/ EventsOpen /\ CallEndsRun
     \/ EventsOpen /\ Raise /\ Later
     \/ EventsOpen /\ ToolError(pc) /\ Remember /\ Later
     \/ /\ EventsOpen /\ Found({}, pc) /\ Remember /\ UNCHANGED <<histories, subject, named>>
        /\ \/ /\ Move("funding") /\ checked' = asked /\ rule' = "checked" /\ owed' \in 0..2
              /\ UNCHANGED <<todo, local>>
           \/ \E found \in SUBSET {f \in Filings : About[f] \in asked} :
                /\ Move("missing") /\ local' = found /\ checked' = Covered(found)
                /\ todo' = IF Cardinality(asked) >= 2 THEN asked \ Covered(found) ELSE {}
                /\ UNCHANGED <<owed, rule>>

(* Types without events may be in the annual report's tables of funding; the   *)
(* answer from them names some of the types that are not.                      *)
SearchFunding ==
  /\ stage = "funding" /\ owed > 0 /\ EventsOpen
  /\ \/ CallEndsRun
     \/ /\ Move(stage) /\ owed' = owed - 1 /\ UNCHANGED <<todo, subject, named, reach>>
        /\ \/ Raise /\ UNCHANGED local
           \/ Reply({}) /\ \E found \in SUBSET Filings : local' = local \cup found

AnswerFunding ==
  /\ stage = "funding"
  /\ owed = 0 \/ ~EventsOpen
  /\ Limit \/ \E absent \in SUBSET asked : AnswerNaming(absent, local, "failed_closed")

(* A type that the query did not show is asked for on its own.                 *)
QueryMissingType(s) ==
  /\ stage = "missing" /\ s \in todo
  /\ UNCHANGED <<subject, owed, rule>>
  /\ \/ ~EventsOpen /\ NoCallMade /\ Move(stage) /\ LeaveLoop /\ UNCHANGED <<local, named, checked>>
     \/ EventsOpen /\ Raise /\ Move(stage) /\ todo' = todo \ {s} /\ UNCHANGED <<local, named, checked>>
     \/ /\ EventsOpen /\ Found({}, pc) /\ Remember /\ UNCHANGED histories
        /\ Move(stage) /\ todo' = todo \ {s}
        /\ \/ named' = named \cup {s} /\ checked' = checked \cup {s} /\ UNCHANGED local
           \/ \E found \in SUBSET FilingsOf(s) :
                local' = local \cup found /\ checked' = checked \cup Covered(found) /\ UNCHANGED named

MissingTypeEndsRun == stage = "missing" /\ todo # {} /\ EventsOpen /\ CallEndsRun

(* Of what was found the corrections, if the question is for them, or a few    *)
(* latest versions of each type.  A direct answer needs every type looked at:  *)
(* one about corrections or terminations reaches no further than that, and the *)
(* difference a correction made to an amount only to the contract it is of.    *)
SelectEvents ==
  /\ stage = "missing" /\ todo = {}
  /\ \/ local \cap Corrections = {} /\ Limit
     \/ \E kept \in SUBSET local :
          /\ Covered(kept) = Covered(local) \/ (kept = local \cap Corrections /\ kept # {})
          /\ Select(evidence \cup kept)
          /\ \/ Later
             \/ /\ kept # {} /\ Cleared /\ UNCHANGED <<named, checked>>
                /\ \/ /\ asked \subseteq checked /\ Move("direct")
                      /\ rule' = "checked" \/ (Covered(kept) = Covered(local) /\ rule' = "every")
                   \/ Move("difference") /\ rule' = "any"

CalculateDifference ==
  /\ stage = "difference"
  /\ \/ NoRoomToCalculate \/ CalculationFails
     \/ ToolBudgetLeft /\ (ResultEndsRun \/ CallAnswers(evidence, "information_limit"))

-------------------------------------------------------------------------------
(* The direct answer from event rows names the types that were not found, and  *)
(* the one about corrections or terminations does not; a row or a context that *)
(* cannot be rendered leaves the question to the later routes.                 *)

AnswerEvents ==
  /\ stage = "direct"
  /\ \/ AnswerIfPacked(evidence, named)
     \/ rule = "checked" /\ AnswerIfPacked(evidence, {})
     \/ NoCallMade /\ (Later \/ Settled("merger"))
     \/ Select({}) /\ Later

(* run_merger_capital_hop: the events must be of one merger, whose target is   *)
(* resolved and has its capital searched.  Without it the answer says so; once *)
(* the target is known, the types of events that were not found go unsaid.     *)
EnterMerger ==
  /\ stage = "merger"
  /\ \/ Limit \/ Fail
     \/ \E kept \in SUBSET evidence, s \in Subjects \ asked :
          /\ kept # {} /\ Covered(kept) = Covered(evidence)
          /\ Select(kept)
          /\ stage' = "target" /\ asked' = asked \cup {s} /\ subject' = s
          /\ named' \in {named, {}} /\ rule' = "checked"
          /\ UNCHANGED <<todo, local, owed, checked>>

CapitalMissing == named \cup {subject}

FollowMerger ==
  /\ stage \in {"target", "capital"}
  /\ \/ (Cardinality(evidence) > 1 \/ stage = "target" \/ ~EventsOpen)
        /\ AnswerNaming(CapitalMissing, evidence, "failed_closed")
     \/ /\ Cardinality(evidence) = 1 /\ EventsOpen
        /\ \/ CallEndsRun
           \/ RaiseAnswersNaming(CapitalMissing, evidence, "failed_closed")
           \/ CallAnswersNaming(CapitalMissing, evidence, "failed_closed")
           \/ /\ stage = "target" /\ Reply({}) /\ Move("capital")
              /\ UNCHANGED <<work, named, reach>>
           \/ /\ stage = "capital"
              /\ \E found \in (SUBSET FilingsOf(subject)) \ {{}} : CallAnswers(evidence \cup found, "failed_closed")

-------------------------------------------------------------------------------
(* Two companies' plans or executed investments, and their facility events.    *)

CompanyCall(st, s) ==
  /\ stage = st /\ s \in todo
  /\ \/ ~EventsOpen /\ NoCallMade /\ Later
     \/ EventsOpen /\ CallEndsRun
     \/ EventsOpen /\ (Raise \/ Reply({})) /\ Later
     \/ /\ EventsOpen
        /\ \E found \in (SUBSET FilingsOf(s)) \ {{}} : Reply(found)
        /\ Move(st) /\ UNCHANGED <<subject, local, owed, named, reach>>
        /\ todo' = todo \ {s} \/ (st = "plans" /\ UNCHANGED todo)

NoPlanToSearch == stage = "plans" /\ todo # {} /\ NoCallMade /\ Later

ComparePlans ==
  /\ stage = "plans" /\ todo = {}
  /\ \/ AnswerIfPacked(evidence, named)
     \/ NoCallMade /\ Later
     \/ Select({}) /\ Later
     \/ Limit
     \/ NoRoomToCalculate \/ CalculationFails
     \/ ToolBudgetLeft /\ (CallFailsClosed \/ CallAnswers(evidence, "failed_closed"))

(* The sums of each company's facilities and their difference.                 *)
OweSums ==
  /\ stage = "facilities" /\ todo = {}
  /\ NoCallMade
  /\ \/ Later
     \/ /\ Move("sums") /\ owed' \in 0..3
        /\ UNCHANGED <<todo, subject, local, named, reach>>

SumFacilities ==
  /\ stage = "sums" /\ owed > 0
  /\ \/ ~ToolBudgetLeft /\ NoCallMade /\ Later
     \/ ToolBudgetLeft /\ CallFailsClosed
     \/ ToolBudgetLeft /\ (Raise \/ Reply({})) /\ Later
     \/ /\ ToolBudgetLeft /\ Reply({}) /\ Move(stage) /\ owed' = owed - 1
        /\ UNCHANGED <<todo, subject, local, named, reach>>

CompareFacilities ==
  /\ stage = "sums" /\ owed = 0
  /\ \/ AnswerIfPacked(evidence, named)
     \/ NoCallMade /\ Later
     \/ Select({}) /\ Later

-------------------------------------------------------------------------------
ProfileStep == ProfileCall \/ SearchRoster \/ (\E s \in Subjects : ReadProfileSection(s)) \/ AnswerProfile

PayStep == PayCall \/ ReadPay

SectorStep == ResolveSector \/ (\E s \in Subjects : SearchCandidate(s)) \/ CandidateRatio \/ RankCandidates

TotalStep == EnterTotal \/ (\E s \in Subjects : QueryType(s)) \/ SumTypes

EventStep ==
  \/ PinCompany \/ QueryAllTypes \/ SearchFunding \/ AnswerFunding
  \/ \E s \in Subjects : QueryMissingType(s)
  \/ MissingTypeEndsRun \/ SelectEvents \/ CalculateDifference
  \/ AnswerEvents \/ EnterMerger \/ FollowMerger

CompaniesStep ==
  \/ \E s \in Subjects : CompanyCall("plans", s) \/ CompanyCall("facilities", s)
  \/ NoPlanToSearch \/ ComparePlans \/ OweSums \/ SumFacilities \/ CompareFacilities

EventRoutesStep ==
  EnterRoutes \/ ProfileStep \/ PayStep \/ SectorStep \/ TotalStep \/ EventStep \/ CompaniesStep
===============================================================================
