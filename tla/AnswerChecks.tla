------------------------------ MODULE AnswerChecks -----------------------------
(* agent/validator.py and answer_contract.py: what an answer cites, what it is *)
(* checked for against the evidence of its run, and how it is displayed.       *)
(*                                                                             *)
(* An answer is a sequence of claims, each the text before a block of          *)
(* citations with those citations (the last may have none), the correction     *)
(* disclosures in it, and whether it begins with a bullet.  Of a text are kept *)
(* the numbers, the companies and the other terms in it, and its tones: what   *)
(* the patterns of the validator find.  A citation is the name of a report with *)
(* a receipt, a date of filing or both (0 is none), and a section or "none".     *)
EXTENDS Naturals, Sequences, FiniteSets, SequencesExt

CONSTANTS MaxSize,      \* the largest response
          Overlapping,  \* pairs of names, {a, b}, of which one contains the other
          AnySection    \* words for a section that stand for any

(* What a text is made of, and an item of the evidence.                        *)
Citations == [receipt : Nat, date : Nat, report : STRING, section : STRING]
ClaimTexts == [companies : SUBSET STRING, numbers : SUBSET Nat, terms : SUBSET STRING,
               tone : SUBSET STRING, cites : SUBSET Citations]
AnswerTexts == [claims : Seq(ClaimTexts),
                disclosed : SUBSET [status : STRING, root : Nat, latest : Nat, receipt : Nat],
                bullets : BOOLEAN, abstains : STRING]
Items == [receipt : Nat \ {0}, root : Nat \ {0}, latest : Nat \ {0}, date : Nat \ {0},
          report : STRING, section : STRING, corp : STRING, target : STRING, status : STRING, newest : BOOLEAN,
          numbers : SUBSET Nat, terms : SUBSET STRING, period : STRING, basis : STRING,
          statement : STRING]

Claims(answer)      == ToSet(answer.claims)
Cites(answer)       == UNION {claim.cites : claim \in Claims(answer)}
Said(answer, field) == UNION {claim[field] : claim \in Claims(answer)}

(* The two abstentions are recognized by how they begin; what follows is free. *)
Abstention(reason) ==
  [claims |-> <<>>, disclosed |-> {}, bullets |-> FALSE, abstains |-> reason]
Abstains(answer)   == answer.abstains # "no"

-------------------------------------------------------------------------------
(* Evidence.  An item has a receipt, the root and the latest of its chain, the *)
(* date, report and section it is from, a company and what its text holds.     *)

Token(item)    == [receipt |-> item.receipt, date |-> 0,
                   report |-> item.report, section |-> item.section]
Receipts(item) == {item.receipt, item.root, item.latest}

(* A part of a name is as good as the name.                                    *)
SameName(a, b) == a = b \/ {a, b} \in Overlapping

(* The filings that a citation can mean: those of the chain of its receipt, or *)
(* without one those of its date; then companies are not told apart.           *)
Means(cite, item) ==
  /\ SameName(cite.report, item.report)
  /\ cite.receipt # 0 \/ cite.date # 0
  /\ cite.receipt # 0 => cite.receipt \in Receipts(item)
  /\ cite.date # 0 => cite.date = item.date

(* A citation need not name a section, or not exactly.                         *)
Match(cite, item) ==
  /\ Means(cite, item)
  /\ cite.section \in {"none"} \cup AnySection \/ SameName(cite.section, item.section)

Cited(answer, items) == {item \in items : \E cite \in Cites(answer) : Match(cite, item)}

Statuses == {"original", "linked", "ambiguous_candidate", "unresolved_external_root"}

NeedsDisclosure(item) ==
  item.status # "original" \/ ~item.newest \/ item.root # item.latest

(* The disclosure of an original names its chain, any other the filing as well. *)
Disclosure(item) ==
  [status |-> item.status, root |-> item.root, latest |-> item.latest,
   receipt |-> IF item.status = "original" THEN item.root ELSE item.receipt]

Disclosures(items) == {Disclosure(item) : item \in {i \in items : NeedsDisclosure(i)}}

-------------------------------------------------------------------------------
(* What is repaired in any answer before it is checked.                        *)

(* A citation with a receipt, and a section that is that of packed passages of *)
(* one token, becomes that token.                                              *)
Tokens(cite, packed) ==
  {Token(item) : item \in {i \in packed : cite.receipt \in Receipts(i) /\ cite.section = i.section}}
Exact(cite, packed) ==
  IF Cardinality(Tokens(cite, packed)) = 1 THEN CHOOSE t \in Tokens(cite, packed) : TRUE ELSE cite
Canonical(claim, packed) ==
  [claim EXCEPT !.cites = {Exact(cite, packed) : cite \in claim.cites}]
Canonicalize(answer, packed) ==
  [answer EXCEPT !.claims = [k \in DOMAIN answer.claims |-> Canonical(answer.claims[k], packed)]]

(* Words of degree, which no disclosure states, are left out.                  *)
Undegreed(claim) == [claim EXCEPT !.terms = @ \ {"degree"}]
RemoveDegrees(answer) ==
  [answer EXCEPT !.claims = [k \in DOMAIN answer.claims |-> Undegreed(answer.claims[k])]]

AppendDisclosures(answer, packed) ==
  [answer EXCEPT !.disclosed = @ \cup Disclosures(Cited(answer, packed))]

Prepared(answer, packed) ==
  AppendDisclosures(RemoveDegrees(Canonicalize(answer, packed)), packed)

-------------------------------------------------------------------------------
(* The validator.  Evidence that is not in the context counts only for answers *)
(* of the deterministic routes, which are trusted.                             *)

Trusted(run)    == "deterministic_answer" \in run.limitations
Candidates(run) == run.packed \cup (IF Trusted(run) THEN run.evidence ELSE {})

Grounded(answer, run) ==
  Cites(answer) # {} /\ \A cite \in Cites(answer) : \E item \in Candidates(run) : Match(cite, item)

(* A merger's filing may be cited for what it says of the company it acquires.  *)
MayName(item) == {item.corp, item.target}

Known(items, field) == UNION {item[field] : item \in items}

(* As if only companies could be confused, and not the filings of one.         *)
SeveralCompanies(items) == Cardinality({item.corp : item \in items}) >= 2

(* Where several companies or documents could be meant, a claim's numbers and  *)
(* companies must be those of what it cites; a claim without a number may      *)
(* compare companies whose numbers were shown before.                          *)
Several(items) ==
  \/ Cardinality({item.corp : item \in items}) >= 2
  \/ Cardinality({item.receipt : item \in items}) >= 2

ClaimsMatch(answer, run, question) ==
  LET items      == Candidates(run)
      Matched(k) == {item \in items : \E cite \in answer.claims[k].cites : Match(cite, item)}
      Named(k)   == answer.claims[k].companies \cap {item.corp : item \in items}
      Companies(k) == Named(k) \subseteq UNION {MayName(item) : item \in Matched(k)}
      Numbers(k)   == answer.claims[k].numbers \subseteq
                        Known(Matched(k), "numbers") \cup question.numbers \cup run.calculated
      Shows(k)   == answer.claims[k].numbers # {} /\ Matched(k) # {} /\ Companies(k) /\ Numbers(k)
      Shown(k)   == UNION {Named(j) : j \in {i \in 1..(k - 1) : Shows(i)}}
      Summary(k) == /\ answer.claims[k].numbers = {} /\ Cardinality(Named(k)) >= 2
                    /\ Named(k) \subseteq Shown(k) /\ "comparison" \in answer.claims[k].tone
  IN Several(items) =>
       \A k \in DOMAIN answer.claims :
         Matched(k) # {} => (Companies(k) \/ Summary(k)) /\ Numbers(k)

(* The month, the accounting basis or the statement that the question asks for *)
(* must be among those of the passages cited, if they have any.                *)
Mismatched(aspect, answer, run, question) ==
  LET cited == {item[aspect] : item \in Cited(answer, run.packed)} \ {"none"}
  IN question[aspect] # "any" /\ cited # {} /\ question[aspect] \notin cited

NumbersGrounded(answer, run, question) ==
  Said(answer, "numbers") \subseteq
    Known(Candidates(run), "numbers") \cup question.numbers \cup run.calculated

TermsGrounded(answer, run, question) ==
  Said(answer, "terms") \cup Said(answer, "companies") \subseteq
    Known(Candidates(run), "terms") \cup {item.corp : item \in run.packed} \cup question.terms

Size(answer) ==
  FoldLeft(LAMBDA n, claim : n + 1 + Cardinality(claim.cites), 0, answer.claims)
    + Cardinality(answer.disclosed)

TrueOnes(found) == {issue \in DOMAIN found : found[issue]}

FormIssues(answer, run) == TrueOnes([
  response_too_large         |-> Size(answer) > MaxSize,
  sensitive_leakage          |-> "leak" \in Said(answer, "tone"),
  forbidden_investment_claim |-> "investment" \in Said(answer, "tone"),
  invalid_evidence_citation  |-> \E item \in run.packed : item.status \notin Statuses])

CorrectionIssues(answer, run) ==
  LET due == {item \in Cited(answer, run.packed) : NeedsDisclosure(item)}
  IN TrueOnes([
       invalid_correction_status      |-> \E item \in due : item.status \notin Statuses,
       correction_disclosure_required |-> ~(Disclosures(due) \subseteq answer.disclosed),
       ambiguous_correction_asserted  |->
         /\ "confirmed" \in Said(answer, "tone")
         /\ \E item \in due : item.status \in {"ambiguous_candidate", "unresolved_external_root"}])

FactIssues(answer, run, question) == TrueOnes([
  citation_required            |-> Cites(answer) = {},
  citation_identity_mismatch   |-> Cites(answer) # {} /\ ~Grounded(answer, run),
  citation_claim_mismatch      |-> Grounded(answer, run) /\ ~ClaimsMatch(answer, run, question),
  period_mismatch              |-> Mismatched("period", answer, run, question),
  financial_basis_mismatch     |-> Mismatched("basis", answer, run, question),
  financial_statement_mismatch |-> Mismatched("statement", answer, run, question),
  ungrounded_number            |-> ~NumbersGrounded(answer, run, question),
  ungrounded_claim_term        |-> ~Trusted(run) /\ ~TermsGrounded(answer, run, question),
  forbidden_future_claim       |->
    /\ "future" \in Said(answer, "tone")
    /\ ~(/\ Grounded(answer, run) /\ NumbersGrounded(answer, run, question)
         /\ TermsGrounded(answer, run, question))])

Validate(answer, run, question) ==
  FormIssues(answer, run) \cup
    (IF Abstains(answer) THEN {}
     ELSE IF run.outcome # "completed" \/ run.packed = {} THEN {"no_evidence_factual_answer"}
     ELSE FactIssues(answer, run, question) \cup CorrectionIssues(answer, run))

-------------------------------------------------------------------------------
(* The display: the tokens of the context move below the text, once each, and  *)
(* of the disclosures of one root only the newest linked one is kept.          *)

Newer(a, b) ==
  LET linked(i) == IF i.status = "linked" THEN 1 ELSE 0
      newest(i) == IF i.newest THEN 1 ELSE 0
  IN \/ linked(a) > linked(b)
     \/ linked(a) = linked(b) /\ newest(a) > newest(b)
     \/ linked(a) = linked(b) /\ newest(a) = newest(b) /\ a.receipt > b.receipt

(* As if the chains were not told apart.                                       *)
SelectedOfAll(due) == {item \in due : \A other \in due : ~Newer(other, item)}

Selected(due) ==
  {item \in due : \A other \in due : other.root = item.root => ~Newer(other, item)}

Displayed(answer, run) ==
  LET labelled == {Token(item) : item \in run.packed} \cap Cites(answer)
      due      == {item \in run.packed : NeedsDisclosure(item) /\ Disclosure(item) \in answer.disclosed}
      Bare(claim) == [claim EXCEPT !.cites = @ \ labelled]
  IN IF "bounded_narrative_answer" \in run.limitations
     THEN [text |-> answer.claims, below |-> {}, corrections |-> answer.disclosed]
     ELSE [text        |-> [k \in DOMAIN answer.claims |-> Bare(answer.claims[k])],
           below       |-> labelled,
           corrections |-> (answer.disclosed \ Disclosures(due)) \cup Disclosures(Selected(due))]

(* A citation is displayed with a link.                                        *)
DisplayedSize(shown) ==
  FoldLeft(LAMBDA n, claim : n + 1 + 2 * Cardinality(claim.cites), 0, shown.text)
    + 2 * Cardinality(shown.below) + Cardinality(shown.corrections)
===============================================================================
