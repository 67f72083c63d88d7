--------------------------- MODULE MCGroundedAnswers --------------------------
(* Two companies: a filing of A and two sections of its correction, and three  *)
(* filings of B, one of them of the same day and of a report of the same name  *)
(* as the correction, one withdrawn.  A run has some of them as evidence, a    *)
(* part in its context.                                                        *)
EXTENDS GroundedAnswers

Item(receipt, root, latest, section, corp, status, newest, number) ==
  [receipt |-> receipt, root |-> root, latest |-> latest, date |-> receipt,
   report |-> "annual", section |-> section,
   corp |-> corp, target |-> "none", status |-> status, newest |-> newest,
   numbers |-> {number}, terms |-> {"revenue"}, period |-> "none",
   basis |-> "none", statement |-> "none"]

A1 == Item(1, 1, 2, "is", "A", "original", FALSE, 10)
A2 == [Item(2, 1, 2, "is", "A", "linked", TRUE, 20) EXCEPT
         !.report = "corrected annual", !.period = "12", !.basis = "consolidated"]
A3 == [Item(2, 1, 2, "bs", "A", "linked", TRUE, 25) EXCEPT !.report = "corrected annual"]
B1 == [Item(3, 3, 3, "is", "B", "original", TRUE, 30) EXCEPT
         !.date = A2.date, !.period = "9", !.statement = "income"]
B2 == [Item(4, 4, 4, "merger", "B", "ambiguous_candidate", TRUE, 40) EXCEPT
         !.report = "merger", !.target = "A"]
B3 == Item(5, 5, 5, "is", "B", "withdrawn", FALSE, 50)

Plain == [companies |-> {}, numbers |-> {}, terms |-> {}, tone |-> {}, cites |-> {}]
Claim(item, number) ==
  [Plain EXCEPT !.companies = {item.corp}, !.numbers = {number}, !.cites = {Token(item)}]
Citing(claim, cite) == [claim EXCEPT !.cites = {cite}]
By(receipt, date, section) ==
  [receipt |-> receipt, date |-> date, report |-> "annual", section |-> section]
Of(claims)    == [claims |-> claims, disclosed |-> {}, bullets |-> FALSE, abstains |-> "no"]
Bullets(claims) == [Of(claims) EXCEPT !.bullets = TRUE]

MCAnswers == {
  Of(<<Claim(A1, 10)>>),
  Bullets(<<Claim(A2, 20), Claim(A1, 10)>>),
  Of(<<Citing(Claim(A2, 20), By(1, 0, "is"))>>),
  Of(<<Citing(Claim(A2, 30), By(0, 2, "any"))>>),
  Of(<<Citing(Claim(B1, 30), By(3, 4, "none"))>>),
  Bullets(<<Claim(A2, 20), Claim(B1, 30)>>),
  Of(<<Claim(A2, 30), Claim(B1, 20)>>),
  Of(<<Claim(B1, 30), [Claim(B2, 40) EXCEPT !.companies = {"A", "B"}, !.tone = {"confirmed"}]>>),
  Of(<<Claim(A2, 20), Claim(B1, 30),
       [Plain EXCEPT !.companies = {"A", "B"}, !.tone = {"comparison"},
                     !.cites = {Token(A2)}]>>),
  Of(<<[Claim(B2, 40) EXCEPT !.companies = {"A", "B"}]>>),
  Of(<<Claim(A2, 50)>>),
  Of(<<Claim(A2, 10)>>),
  Of(<<Claim(B1, 40)>>),
  Of(<<Claim(A2, 20), Claim(B2, 40)>>),
  Bullets(<<Claim(A3, 25)>>),
  Bullets(<<[Claim(A2, 20) EXCEPT !.companies = {}]>>),
  Of(<<[Claim(A2, 20) EXCEPT !.terms = {"rumour", "degree"}, !.tone = {"future"}]>>),
  Of(<<[Claim(B1, 30) EXCEPT !.terms = {"degree"}, !.tone = {"investment", "leak"}]>>),
  Of(<<[Claim(B1, 2024) EXCEPT !.cites = {}]>>),
  Of(<<Claim(A1, 10), Claim(A2, 20), Claim(B1, 30), Claim(B2, 40)>>),
  Abstention("anything") }

MCDrafts == MCAnswers
MCRepairs == MCAnswers

Lead(companies, numbers, terms, tone) ==
  [wellFormed |-> TRUE, companies |-> companies, numbers |-> numbers, terms |-> terms, tone |-> tone]

MCLeads == { Lead({"A"}, {}, {}, {}), Lead({"A", "B"}, {}, {"XBRL"}, {}),
             Lead({"A", "B"}, {}, {"rumour"}, {}), Lead({"B"}, {2024}, {}, {}),
             Lead({"B"}, {30}, {}, {}), Lead({"A"}, {}, {}, {"superlative"}),
             Lead({"B"}, {}, {}, {"future"}),
             [Lead({"A", "B"}, {}, {}, {}) EXCEPT !.wellFormed = FALSE] }

Run(evidence, packed, limitations, draft) ==
  [outcome |-> "completed", evidence |-> evidence, packed |-> packed,
   calculated |-> {}, limitations |-> limitations, draft |-> draft]

Contexts == { <<{A1}, {A1}>>, <<{A1, A2}, {A2}>>, <<{A1, A2}, {A1, A2}>>,
              <<{A2, B1}, {A2, B1}>>, <<{A1, A2, A3, B1}, {A2, B1}>>, <<{A3, B1}, {B1}>>,
              <<{B1, B2}, {B1, B2}>>, <<{A1, A2, B1, B2}, {A1, A2, B1, B2}>>,
              <<{B1, B3}, {B1, B3}>> }

MCLimitations == { {}, {"deterministic_answer"},
                   {"deterministic_answer", "partial_requested_metrics"},
                   {"deterministic_answer", "bounded_narrative_answer"},
                   {"narrative_evidence_limited"}, {"database_checked_no_match"} }

Stopped(limitations, packed) ==
  [Run(packed, packed, limitations, Of(<<>>)) EXCEPT !.outcome = "information_limit"]

MCRuns ==
  {Run(c[1], c[2], limitations, draft) :
     c \in Contexts, limitations \in MCLimitations, draft \in MCDrafts}
  \cup {Stopped(limitations, packed) :
          limitations \in {{}, {"deadline_exhausted"}, {"outside_corpus"},
                           {"sector_resolution_ambiguous", "deadline_exhausted"}},
          packed \in {{}, {A1}}}

Asked(numbers, period, basis, statement) ==
  [numbers |-> numbers, terms |-> {}, period |-> period, basis |-> basis, statement |-> statement]

MCQuestions == { Asked({}, "any", "any", "any"), Asked({2024}, "12", "any", "any"),
                 Asked({2024}, "any", "separate", "any"), Asked({}, "any", "any", "balance") }
===============================================================================
