---------------------------- MODULE GroundedAnswers ---------------------------
(* GroundedAnswerBuilder.build (agent/validator.py): from the run of the agent *)
(* to the answer that is served.  The draft is checked; a clean draft of a     *)
(* deterministic route may get an introduction by the model, a draft with      *)
(* issues is repaired by it, once; the model may answer anything or fail.      *)
EXTENDS AnswerChecks

CONSTANTS Questions,   \* the questions
          Runs,        \* the results of the agent, with their drafts
          Leads,       \* introductions the model may write
          Repairs,     \* answers the model may write
          Latin,       \* terms in Latin letters
          Failure      \* the model fails, or calls a tool instead of answering

ASSUME BuildAssumption ==
  /\ \A r \in Runs : /\ r.draft \in AnswerTexts
                     /\ r.evidence \subseteq Items /\ IsFiniteSet(r.evidence)
                     /\ r.packed \subseteq Items /\ IsFiniteSet(r.packed)
  /\ \A repair \in Repairs : repair \in AnswerTexts
  /\ \A lead \in Leads : lead \in [wellFormed : BOOLEAN, companies : SUBSET STRING,
                                   numbers : SUBSET Nat, terms : SUBSET STRING,
                                   tone : SUBSET STRING]

VARIABLES question, run,
          gateway,    \* there is a gateway to the model
          stage,      \* "drafted", "presenting", "repairing" or "served"
          issues,     \* of the draft, then of the repaired answer
          calls,      \* calls of the model
          response    \* what is served

vars == <<question, run, gateway, stage, issues, calls, response>>

Nothing == [kind |-> "nothing"]

Init ==
  /\ question \in Questions /\ run \in Runs /\ gateway \in BOOLEAN
  /\ stage = "drafted" /\ issues = {} /\ calls = 0 /\ response = Nothing

-------------------------------------------------------------------------------
(* Why there is no answer: the first of these reasons that holds.              *)

SpecificReasons == <<
  "executive_pay_period_unsupported", "executive_pay_section_incomplete",
  "executive_pay_evidence_mismatch", "executive_pay_not_uniquely_disclosed",
  "sector_population_cardinality_mismatch", "sector_ranking_period_unsupported",
  "sector_resolution_ambiguous", "sector_ranking_insufficient_grounded_candidates",
  "derived_ratio_operands_not_found", "event_total_period_semantics_unsupported",
  "multi_hop_event_lineage_invalid", "sector_resolution_not_found">>

LimitReasons == << <<"refused", {"prompt_injection", "secret_request"}>>,
                   <<"external", {"outside_corpus", "external_information"}>>,
                   <<"future", {"unsupported_future_fact", "future_prediction", "investment_opinion"}>>,
                   <<"incomparable", {"incomparable_financial_metric"}>>,
                   <<"no_match", {"database_checked_no_match"}>>,
                   <<"no_event", {"event_type_checked_no_match"}>>,
                   <<"no_correction", {"correction_event_checked_no_match"}>>,
                   <<"unknown_company", {"company_outside_universe"}>> >>

IssueReasons == << <<"period", {"period_mismatch"}>>,
                   <<"basis", {"financial_basis_mismatch"}>>,
                   <<"statement", {"financial_statement_mismatch"}>>,
                   <<"citation", {"citation_required", "citation_identity_mismatch",
                                  "citation_claim_mismatch"}>>,
                   <<"content", {"ungrounded_number", "ungrounded_claim_term"}>> >>

FirstOf(reasons, found, otherwise) ==
  LET holding == SelectSeq(reasons, LAMBDA r : r[2] \cap found # {})
  IN IF holding = <<>> THEN otherwise ELSE holding[1][1]

ProgressReason(limitations, packed) ==
  IF limitations \cap {"tool_dispatch_failed", "model_gateway_failed", "deadline_exhausted"} # {}
  THEN "incomplete"
  ELSE IF packed # {} \/ limitations \cap {"no_admissible_evidence",
            "quarterly_table_contract_unavailable", "deterministic_answer_unavailable"} # {}
       THEN "insufficient" ELSE "unconfirmed"

InformationLimit(failed, found) ==
  LET specific == [k \in DOMAIN SpecificReasons |-> <<SpecificReasons[k], {SpecificReasons[k]}>>]
      later    == IF failed THEN FirstOf(IssueReasons, found, "validation")
                  ELSE ProgressReason(run.limitations, run.packed)
  IN FirstOf(specific \o LimitReasons, run.limitations, later)

-------------------------------------------------------------------------------
(* What is served.                                                             *)

Abstain(status, reason) == [kind |-> "abstention", status |-> status, reason |-> reason]

Status ==
  CASE run.limitations \cap {"partial_requested_metrics", "open_profile_partial"} # {} -> "partial"
    [] "narrative_evidence_limited" \in run.limitations -> "information_limit"
    [] OTHER -> "completed"

(* The links of the display count, too: what is too large then is not served.  *)
Factual(answer) ==
  IF Abstains(answer) THEN Abstain(Status, answer.abstains)
  ELSE IF DisplayedSize(Displayed(answer, run)) > MaxSize
       THEN Abstain("safe_fallback", "none")
       ELSE [kind |-> "answer", status |-> Status, answer |-> answer,
             shown |-> Displayed(answer, run)]

Serve(what) == response' = what /\ stage' = "served"

Draft == Prepared(run.draft, run.packed)
Clean(answer) == Validate(answer, run, question) = {}

LockedFormat == run.limitations \cap {"partial_requested_metrics", "bounded_narrative_answer"} # {}

(* A line put before the answer becomes part of its first claim.               *)
Introduced(claim, lead) ==
  [claim EXCEPT !.companies = @ \cup lead.companies, !.numbers = @ \cup lead.numbers,
                !.terms = @ \cup lead.terms, !.tone = @ \cup lead.tone]
Compose(lead, answer) ==
  IF answer.claims = <<>> THEN answer
  ELSE [answer EXCEPT !.claims[1] = Introduced(answer.claims[1], lead)]

(* An answer that begins with a bullet gets an introduction, if it stays clean. *)
Stable(answer) ==
  LET companies == {item.corp : item \in run.evidence}
      intro == [companies |-> IF Cardinality(companies) = 1 THEN companies ELSE {},
                numbers |-> {}, terms |-> {}, tone |-> {}]
      introduced == IF answer.bullets THEN Compose(intro, answer) ELSE answer
  IN IF LockedFormat \/ ~Clean(introduced) THEN answer ELSE introduced

-------------------------------------------------------------------------------
(* The introduction by the model.                                              *)

(* It cites nothing, has no number that is not the user's, and names every     *)
(* company of the evidence that the answer names.                              *)
LeadFits(lead, answer) ==
  /\ lead.wellFormed
  /\ lead.numbers \subseteq question.numbers
  /\ {item.corp : item \in run.evidence} \cap Said(answer, "companies") \subseteq lead.companies

(* As if a number more did no harm.                                            *)
PreservesAtLeast(presented, answer) ==
  /\ Said(answer, "numbers") \subseteq Said(presented, "numbers")
  /\ Cites(answer) \subseteq Cites(presented)

PreservesLocked(presented, answer) ==
  LET tokens == {Token(item) : item \in run.packed}
  IN /\ Said(presented, "numbers") = Said(answer, "numbers")
     /\ Cites(answer) \cap tokens \subseteq Cites(presented)
     /\ Disclosures(run.packed) \cap answer.disclosed \subseteq presented.disclosed
     /\ {item.corp : item \in run.packed} \cap Said(answer, "companies")
          \subseteq Said(presented, "companies")

LeadSafe(presented, answer) ==
  /\ "superlative" \notin Said(presented, "tone")
  /\ Said(presented, "terms") \cap Latin \subseteq Said(answer, "terms")

Acceptable(presented, answer) ==
  PreservesLocked(presented, answer) /\ LeadSafe(presented, answer) /\ Clean(presented)

-------------------------------------------------------------------------------

Limited ==
  /\ stage = "drafted"
  /\ run.outcome # "completed" \/ run.packed = {}
  /\ Serve(Abstain("information_limit", InformationLimit(FALSE, {})))
  /\ UNCHANGED <<question, run, gateway, issues, calls>>

Check ==
  /\ stage = "drafted"
  /\ run.outcome = "completed" /\ run.packed # {}
  /\ issues' = Validate(Draft, run, question)
  /\ \/ /\ issues' = {} /\ Trusted(run) /\ gateway /\ ~LockedFormat
        /\ stage' = "presenting"
        /\ UNCHANGED response
     \/ /\ issues' = {} /\ Trusted(run) /\ (~gateway \/ LockedFormat)
        /\ Serve(Factual(Stable(Draft)))
     \/ /\ issues' = {} /\ ~Trusted(run)
        /\ Serve(Factual(Draft))
     \/ /\ issues' # {} /\ gateway
        /\ stage' = "repairing"
        /\ UNCHANGED response
     \/ /\ issues' # {} /\ ~gateway
        /\ Serve(Abstain("safe_fallback", InformationLimit(TRUE, issues')))
  /\ UNCHANGED <<question, run, gateway, calls>>

(* A failed or unfit introduction leaves the deterministic answer as it was.   *)
Presented(lead) ==
  LET composed == Prepared(Compose(lead, Draft), run.packed)
  IN IF lead # Failure /\ LeadFits(lead, Draft) /\ Acceptable(composed, Draft)
     THEN composed ELSE Stable(Draft)

(* As if a refused introduction were repaired.                                 *)
PresentOrRepair(lead) ==
  /\ stage = "presenting"
  /\ calls' = calls + 1
  /\ IF Presented(lead) # Stable(Draft) THEN Serve(Factual(Presented(lead)))
     ELSE stage' = "repairing" /\ UNCHANGED response
  /\ UNCHANGED <<question, run, gateway, issues>>

Present(lead) ==
  /\ stage = "presenting"
  /\ calls' = calls + 1
  /\ Serve(Factual(Presented(lead)))
  /\ UNCHANGED <<question, run, gateway, issues>>

RepairedIssues(repair) == Validate(Prepared(repair, run.packed), run, question)

Repair(repair) ==
  /\ stage = "repairing"
  /\ calls' = calls + 1
  /\ issues' = IF repair = Failure THEN issues ELSE RepairedIssues(repair)
  /\ IF issues' = {} THEN Serve(Factual(Prepared(repair, run.packed)))
     ELSE Serve(Abstain("safe_fallback", InformationLimit(TRUE, issues')))
  /\ UNCHANGED <<question, run, gateway>>

Served == stage = "served" /\ UNCHANGED vars

Next ==
  \/ Limited
  \/ Check
  \/ \E lead \in Leads \cup {Failure} : Present(lead)
  \/ \E repair \in Repairs \cup {Failure} : Repair(repair)
  \/ Served

Spec == Init /\ [][Next]_vars

-------------------------------------------------------------------------------
(* Properties.                                                                 *)

Answered == response.kind = "answer"

NumbersAre(Filings(_)) ==
  Answered => \A claim \in Claims(response.answer) :
    claim.cites # {} => claim.numbers \subseteq
      Known(Filings(claim), "numbers") \cup question.numbers \cup run.calculated

(* However an answer came about, as a draft of a route or of the model, with   *)
(* an introduction or repaired, every number of a claim with a citation is     *)
(* the user's, calculated, or in a filing that a citation of the claim can     *)
(* mean: one of the chain of the receipt it gives, or, where it gives a date   *)
(* only, one of that date with such a report, of whatever company.  It is      *)
(* never in another filing of the same evidence.                               *)
NumbersAreCited ==
  LET Meant(claim) == {i \in Candidates(run) : \E cite \in claim.cites : Means(cite, i)}
  IN NumbersAre(LAMBDA claim :
       {item \in Candidates(run) : \E i \in Meant(claim) : item.receipt = i.receipt})

(* docs/TECHNICAL_PROPOSAL.md:126 says that the numbers of an answer agree     *)
(* with the passages of the receipts it cites: a number is in the very filing  *)
(* that is cited for it, not in the one it corrected or was corrected by.      *)
NumbersAreOfTheirReceipt ==
  LET Named(claim) == {cite.receipt : cite \in claim.cites}
  IN NumbersAre(LAMBDA claim : {item \in Candidates(run) : item.receipt \in Named(claim)})

(* docs/TECHNICAL_PROPOSAL.md:126 again, of companies: the numbers of a claim  *)
(* that names one company of the evidence, with one citation, are of that      *)
(* company.  The code does not keep it where the citation gives a date only    *)
(* (validator.py:705-710); the README, section 3, tells how.                   *)
NumbersAreOfTheirCompany ==
  Answered => \A claim \in Claims(response.answer) :
    \A company \in claim.companies \cap {item.corp : item \in Candidates(run)} :
      Cardinality(claim.cites) = 1 /\ Cardinality(claim.companies) = 1 =>
        claim.numbers \subseteq
          Known({item \in Candidates(run) : company \in MayName(item)}, "numbers")
            \cup question.numbers \cup run.calculated

(* What a deterministic route drafted without an issue is served with the same *)
(* numbers, citations and corrections, whatever the model writes to introduce  *)
(* it or however its call ends.                                                *)
LockedFactsSurvive ==
  stage = "served" /\ Answered /\ Trusted(run) /\ Clean(Draft) =>
    /\ Said(response.answer, "numbers") = Said(Draft, "numbers")
    /\ (UNION {claim.cites : claim \in ToSet(response.shown.text)}) \cup response.shown.below
         = Cites(Draft)
    /\ {d.root : d \in response.shown.corrections} = {d.root : d \in Draft.disclosed}

(* Of each chain whose filings in the context the answer cites, when one of    *)
(* them is a correction or was corrected, the correction is told with the      *)
(* answer, in the display too, which keeps one disclosure of a chain.          *)
CorrectionsShown ==
  Answered => \A item \in Cited(response.answer, run.packed) :
    NeedsDisclosure(item) => \E d \in response.shown.corrections : d.root = item.root

(* A build calls the model once at most: an introduction that is refused is    *)
(* not asked for again, nor followed by a repair, and a repair is not repaired. *)
OneModelCall == [][calls' # calls => calls = 0 /\ stage' = "served"]_vars

(* docs/TECHNICAL_PROPOSAL.md:193 says of every citation of a corrected filing *)
(* what CorrectionsShown says of those in the context: the correction is told. *)
(* The code does not keep it; the README, section 3, tells how.                *)
CitedCorrectionsShown ==
  Answered => \A item \in Cited(response.answer, Candidates(run)) :
    NeedsDisclosure(item) => \E d \in response.shown.corrections : d.root = item.root
===============================================================================
