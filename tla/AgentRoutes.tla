------------------------------ MODULE AgentRoutes ------------------------------
(* The preflight routes of AgentRunner.run, from the question's entry to the   *)
(* end of the run or its hand-over to the planner, as an implementation of the *)
(* preflight of AgentRun.                                                      *)
EXTENDS PeriodicRoutes

Stages == {"entry", "profile", "reports", "sections", "roster", "read", "spoiled",
           "pay", "payreport", "paysearch", "paysection", "sector", "margins", "amounts",
           "pin", "total", "types", "events", "funding", "missing", "difference", "direct",
           "merger", "target", "capital", "plans", "facilities", "sums",
           "periodic", "searches", "ratios", "quarter", "growth", "rows", "comparison",
           "margin", "answer", "statement", "correction", "versions", "receipt",
           "extract", "shown", "planner", "over"}

Rules == {"every", "checked", "any", "several", "extract"}

RoutesTypeOK ==
  /\ AgentTypeOK
  /\ stage \in Stages
  /\ asked \in SUBSET Subjects
  /\ todo \in SUBSET asked
  /\ subject \in Subjects \cup {NoSubject}
  /\ named \in SUBSET Subjects
  /\ local \in SUBSET Filings
  /\ owed \in 0..3
  /\ rule \in Rules
  /\ checked \in SUBSET Subjects

RouteStep == EventRoutesStep \/ PeriodicStep

WorldStep == (Expire \/ ChangeLineage) /\ UNCHANGED route

Finished == stage \in {"planner", "over"} /\ UNCHANGED routesVars

RoutesNext ==
  \/ RouteStep
  \/ stage \notin {"planner", "over"} /\ WorldStep
  \/ Finished

RoutesSpec == RoutesInit /\ [][RoutesNext]_routesVars

(* Each call of a route answers or fails: tools have time limits of their own. *)
FairRoutesSpec == RoutesSpec /\ WF_routesVars(RouteStep)

-------------------------------------------------------------------------------
(* Every step of a route is a step that AgentRun allows its preflight, so that *)
(* the bounds proved there hold of all the routes (runner.py:8042-12191).      *)
ImplementsAgentRun == Init /\ [][Next]_vars

(* A route that first counts its calls never comes to a calculation without    *)
(* room for it: the sum of run_event_total (runner.py:3417), the ratio of a    *)
(* company and the ranking of the companies that were checked                  *)
(* (runner.py:8978).                                                           *)
CalculationsHaveRoom ==
  /\ stage = "types" /\ todo = {} => ToolBudgetLeft
  /\ stage \in {"margins", "amounts"} /\ (subject # NoSubject \/ (todo = {} /\ ~(asked \subseteq named)))
       => ToolBudgetLeft

(* What an answer owes to the question, which is the whole one however little  *)
(* was found: every subject is cited or named as missing; of the answers that  *)
(* name nothing, those about corrections, terminations, funding or a merger    *)
(* have every type of event looked at, segments and a corrected amount cite    *)
(* something that was asked for, and a comparison cites two companies.  An     *)
(* extract of a receipt owes no more than what it shows.                       *)
Reaches(cited, missing) ==
  LET told == Covered(cited) \cup missing IN
  /\ rule = "every" => asked \subseteq told
  /\ rule = "checked" => asked \subseteq told \cup checked
  /\ rule = "any" => asked \cap Covered(cited) # {}
  /\ rule = "several" => Cardinality(Covered(cited)) >= 2

(* No answer leaves out a part of the question that was not looked for, a call *)
(* that raised or was not made included, nor speaks for one company where it   *)
(* should compare (runner.py:9866, 9957, 10626, 10800, 10813).                 *)
AnswersCoverTheQuestion == result.outcome = "completed" => Reaches(result.evidence, named)

(* docs/TECHNICAL_PROPOSAL.md:205: an answer to a part of a compound question  *)
(* shows what was not confirmed along with what was.                           *)
(* The code does not keep it; the README, section 3, tells how.                *)
PartialAnswersSaySo ==
  result.outcome = "completed" => asked \subseteq Covered(result.evidence) \cup named

(* Every route ends the run or hands it over.                                  *)
RoutesEnd == <>(stage \in {"planner", "over"})
===============================================================================
