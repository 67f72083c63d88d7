------------------------- MODULE GroundedAnswersProofs -------------------------
(* Proofs about GroundedAnswers, for every question, run, introduction and     *)
(* repair, and every limit of size.                                            *)
EXTENDS GroundedAnswers, FiniteSetTheorems, TLAPS

(* Two answers that state the same.                                            *)
SameFacts(a, b) ==
  /\ Said(a, "numbers") = Said(b, "numbers") /\ Cites(a) = Cites(b) /\ a.disclosed = b.disclosed

-------------------------------------------------------------------------------
(* What is repaired of an answer before it is checked.                         *)

(* The token that a citation becomes is the only one that fits.                *)
LEMMA OneToken ==
  ASSUME NEW packed, packed \subseteq Items, IsFiniteSet(packed), NEW cite,
         Cardinality(Tokens(cite, packed)) = 1
  PROVE  Tokens(cite, packed) = {Exact(cite, packed)}
<1> DEFINE near == {i \in packed : cite.receipt \in Receipts(i) /\ cite.section = i.section}
           f == [i \in near |-> Token(i)]
<1>1. IsFiniteSet(near)
  BY FS_Subset
<1>2. f \in Surjection(near, Tokens(cite, packed))
  BY DEF Surjection, Tokens
<1>3. IsFiniteSet(Tokens(cite, packed))
  BY <1>1, <1>2, FS_Surjection
<1>4. PICK x : Tokens(cite, packed) = {x}
  BY <1>3, FS_Singleton
<1> QED BY <1>4 DEF Exact

LEMMA ExactTyped ==
  ASSUME NEW packed, packed \subseteq Items, IsFiniteSet(packed), NEW cite \in Citations
  PROVE  Exact(cite, packed) \in Citations
<1>1. CASE Cardinality(Tokens(cite, packed)) = 1
  <2>1. Exact(cite, packed) \in Tokens(cite, packed)
    BY <1>1, OneToken
  <2> QED BY <2>1 DEF Tokens, Token, Items, Citations
<1>2. CASE Cardinality(Tokens(cite, packed)) # 1
  BY <1>2 DEF Exact
<1> QED BY <1>1, <1>2

(* A citation that was made exact stays as it is.                              *)
LEMMA ExactTwice ==
  ASSUME NEW packed, packed \subseteq Items, IsFiniteSet(packed), NEW cite
  PROVE  Exact(Exact(cite, packed), packed) = Exact(cite, packed)
<1>1. CASE Cardinality(Tokens(cite, packed)) = 1
  <2>1. PICK i \in packed : Exact(cite, packed) = Token(i)
    BY <1>1, OneToken DEF Tokens
  <2> DEFINE t == Token(i)
  <2>2. t.receipt = i.receipt /\ t.section = i.section
    BY DEF Token
  <2>3. t \in Tokens(t, packed)
    BY <2>2 DEF Tokens, Receipts
  <2> HIDE DEF t
  <2>4. Exact(t, packed) = t
    <3>1. CASE Cardinality(Tokens(t, packed)) = 1
      BY <2>3, <3>1, OneToken
    <3>2. CASE Cardinality(Tokens(t, packed)) # 1
      BY <3>2 DEF Exact
    <3> QED BY <3>1, <3>2
  <2> QED BY <2>1, <2>4 DEF t
<1>2. CASE Cardinality(Tokens(cite, packed)) # 1
  BY <1>2 DEF Exact
<1> QED BY <1>1, <1>2

(* The text keeps its numbers, its citations become exact, and what they call  *)
(* for is disclosed.                                                           *)
LEMMA PreparedIs ==
  ASSUME NEW packed, packed \subseteq Items, IsFiniteSet(packed), NEW a \in AnswerTexts
  PROVE  LET b == Prepared(a, packed)
         IN /\ b \in AnswerTexts
            /\ DOMAIN b.claims = DOMAIN a.claims
            /\ \A k \in DOMAIN a.claims :
                 /\ b.claims[k].numbers = a.claims[k].numbers
                 /\ b.claims[k].cites = {Exact(cite, packed) : cite \in a.claims[k].cites}
            /\ b.disclosed = a.disclosed \cup Disclosures(Cited(b, packed))
<1> DEFINE c == Canonicalize(a, packed)
           d == RemoveDegrees(c)
           b == Prepared(a, packed)
<1>1. \A k \in DOMAIN a.claims : a.claims[k] \in ClaimTexts
  BY DEF AnswerTexts
<1>2. c \in AnswerTexts /\ DOMAIN c.claims = DOMAIN a.claims /\ c.disclosed = a.disclosed
      /\ \A k \in DOMAIN a.claims : c.claims[k] = Canonical(a.claims[k], packed)
  <2>1. ASSUME NEW claim \in ClaimTexts
        PROVE  Canonical(claim, packed) \in ClaimTexts
    BY ExactTyped DEF Canonical, ClaimTexts
  <2> DEFINE seq == [k \in DOMAIN a.claims |-> Canonical(a.claims[k], packed)]
  <2>2. seq \in Seq(ClaimTexts)
    BY <1>1, <2>1 DEF AnswerTexts
  <2>3. c = [a EXCEPT !.claims = seq]
    BY DEF Canonicalize
  <2>4. \A k \in DOMAIN a.claims : seq[k] = Canonical(a.claims[k], packed)
    OBVIOUS
  <2>5. DOMAIN seq = DOMAIN a.claims
    OBVIOUS
  <2> HIDE DEF seq, c
  <2> QED BY <2>2, <2>3, <2>4, <2>5 DEF AnswerTexts
<1>3. d \in AnswerTexts /\ DOMAIN d.claims = DOMAIN a.claims /\ d.disclosed = a.disclosed
      /\ \A k \in DOMAIN a.claims : d.claims[k] = Undegreed(c.claims[k])
  <2>1. ASSUME NEW claim \in ClaimTexts
        PROVE  Undegreed(claim) \in ClaimTexts
    BY DEF Undegreed, ClaimTexts
  <2> DEFINE seq == [k \in DOMAIN c.claims |-> Undegreed(c.claims[k])]
  <2>0. \A k \in DOMAIN c.claims : c.claims[k] \in ClaimTexts
    BY <1>2 DEF AnswerTexts
  <2>2. seq \in Seq(ClaimTexts)
    BY <1>2, <2>0, <2>1 DEF AnswerTexts
  <2>3. d = [c EXCEPT !.claims = seq]
    BY DEF RemoveDegrees
  <2>4. \A k \in DOMAIN c.claims : seq[k] = Undegreed(c.claims[k])
    OBVIOUS
  <2>5. DOMAIN seq = DOMAIN c.claims
    OBVIOUS
  <2> HIDE DEF seq, c, d
  <2> QED BY <1>2, <2>2, <2>3, <2>4, <2>5 DEF AnswerTexts
<1>4. b = [d EXCEPT !.disclosed = @ \cup Disclosures(Cited(d, packed))]
  BY DEF Prepared, AppendDisclosures
<1>5. Disclosures(Cited(d, packed)) \in SUBSET [status : STRING, root : Nat, latest : Nat, receipt : Nat]
  BY DEF Disclosures, Disclosure, Cited, Items
<1>6. b \in AnswerTexts /\ b.claims = d.claims /\ b.disclosed = d.disclosed \cup Disclosures(Cited(d, packed))
  <2> HIDE DEF b, d
  <2> QED BY <1>3, <1>4, <1>5 DEF AnswerTexts
<1>7. Cited(b, packed) = Cited(d, packed)
  <2> HIDE DEF b, d
  <2> QED BY <1>6 DEF Cited, Cites, Claims
<1>8. ASSUME NEW k \in DOMAIN a.claims
      PROVE  /\ b.claims[k].numbers = a.claims[k].numbers
             /\ b.claims[k].cites = {Exact(cite, packed) : cite \in a.claims[k].cites}
  <2>1. b.claims[k] = Undegreed(Canonical(a.claims[k], packed))
    <3> HIDE DEF b, c, d
    <3> QED BY <1>2, <1>3, <1>6
  <2>2. Undegreed(Canonical(a.claims[k], packed)).numbers = a.claims[k].numbers
        /\ Undegreed(Canonical(a.claims[k], packed)).cites = {Exact(cite, packed) : cite \in a.claims[k].cites}
    BY <1>1 DEF Undegreed, Canonical, ClaimTexts
  <2> HIDE DEF b, c, d
  <2> QED BY <2>1, <2>2
<1>9. DOMAIN b.claims = DOMAIN a.claims /\ b.disclosed = a.disclosed \cup Disclosures(Cited(b, packed))
  <2> HIDE DEF b, c, d
  <2> QED BY <1>2, <1>3, <1>6, <1>7
<1>10. b \in AnswerTexts
  BY <1>6
<1> HIDE DEF b, c, d
<1> QED BY <1>8, <1>9, <1>10 DEF b

(* What is said of an introduction, the model's or the fixed one.              *)
IsLead(lead) ==
  /\ lead.companies \in SUBSET STRING /\ lead.numbers \in SUBSET Nat
  /\ lead.terms \in SUBSET STRING /\ lead.tone \in SUBSET STRING

(* An introduction changes the texts of the first claim only, and no citation. *)
LEMMA ComposeIs ==
  ASSUME NEW a \in AnswerTexts, NEW lead, IsLead(lead)
  PROVE  LET b == Compose(lead, a)
         IN /\ b \in AnswerTexts /\ b.disclosed = a.disclosed
            /\ DOMAIN b.claims = DOMAIN a.claims
            /\ \A k \in DOMAIN a.claims : b.claims[k].cites = a.claims[k].cites
            /\ lead.numbers = {} =>
                 \A k \in DOMAIN a.claims : b.claims[k].numbers = a.claims[k].numbers
<1>1. CASE a.claims = <<>>
  BY <1>1 DEF Compose
<1>2. CASE a.claims # <<>>
  <2> DEFINE b == Compose(lead, a)
             seq == [a.claims EXCEPT ![1] = Introduced(a.claims[1], lead)]
  <2>1. a.claims \in Seq(ClaimTexts)
    BY DEF AnswerTexts
  <2>2. 1 \in DOMAIN a.claims /\ a.claims[1] \in ClaimTexts
    BY <1>2, <2>1
  <2>3. /\ Introduced(a.claims[1], lead) \in ClaimTexts
        /\ Introduced(a.claims[1], lead).cites = a.claims[1].cites
        /\ Introduced(a.claims[1], lead).numbers = a.claims[1].numbers \cup lead.numbers
    BY <2>2 DEF Introduced, ClaimTexts, IsLead
  <2>4. seq \in Seq(ClaimTexts) /\ DOMAIN seq = DOMAIN a.claims
    <3> DEFINE same == [k \in DOMAIN a.claims |-> IF k = 1 THEN Introduced(a.claims[1], lead) ELSE a.claims[k]]
    <3>1. same \in Seq(ClaimTexts)
      BY <2>1, <2>3
    <3>2. seq = same
      BY <2>1
    <3> QED BY <3>1, <3>2
  <2>5. \A k \in DOMAIN a.claims : seq[k] = IF k = 1 THEN Introduced(a.claims[1], lead) ELSE a.claims[k]
    BY <2>2
  <2>6. b = [a EXCEPT !.claims = seq]
    BY <1>2 DEF Compose, AnswerTexts
  <2> HIDE DEF b, seq
  <2>7. b \in AnswerTexts /\ b.disclosed = a.disclosed /\ b.claims = seq
    BY <2>4, <2>6 DEF AnswerTexts
  <2>8. \A k \in DOMAIN a.claims : b.claims[k].cites = a.claims[k].cites
    BY <2>3, <2>5, <2>7
  <2>9. lead.numbers = {} => \A k \in DOMAIN a.claims : b.claims[k].numbers = a.claims[k].numbers
    BY <2>3, <2>5, <2>7
  <2> QED BY <2>4, <2>7, <2>8, <2>9 DEF b
<1> QED BY <1>1, <1>2

LEMMA SameClaims ==
  ASSUME NEW a, NEW b, DOMAIN b.claims = DOMAIN a.claims, b.disclosed = a.disclosed,
         \A k \in DOMAIN a.claims : b.claims[k].cites = a.claims[k].cites
                                  /\ b.claims[k].numbers = a.claims[k].numbers
  PROVE  SameFacts(b, a)
<1>1. \A k \in DOMAIN a.claims : b.claims[k]["numbers"] = a.claims[k]["numbers"]
  OBVIOUS
<1>2. UNION {claim["numbers"] : claim \in ToSet(b.claims)} = UNION {claim["numbers"] : claim \in ToSet(a.claims)}
  BY <1>1 DEF ToSet
<1>3. UNION {claim.cites : claim \in ToSet(b.claims)} = UNION {claim.cites : claim \in ToSet(a.claims)}
  BY DEF ToSet
<1> QED BY <1>2, <1>3 DEF SameFacts, Said, Cites, Claims

(* What is prepared already is cited and disclosed the same prepared again.    *)
LEMMA PreparedTwice ==
  ASSUME NEW packed, packed \subseteq Items, IsFiniteSet(packed), NEW a \in AnswerTexts,
         NEW b \in AnswerTexts, DOMAIN b.claims = DOMAIN a.claims,
         b.disclosed = Prepared(a, packed).disclosed,
         \A k \in DOMAIN a.claims : b.claims[k].cites = Prepared(a, packed).claims[k].cites
  PROVE  /\ Cites(Prepared(b, packed)) = Cites(Prepared(a, packed))
         /\ Prepared(b, packed).disclosed = Prepared(a, packed).disclosed
<1> DEFINE p == Prepared(a, packed)
           q == Prepared(b, packed)
<1>1. /\ p \in AnswerTexts /\ DOMAIN p.claims = DOMAIN a.claims
      /\ p.disclosed = a.disclosed \cup Disclosures(Cited(p, packed))
      /\ \A k \in DOMAIN a.claims : p.claims[k].cites = {Exact(cite, packed) : cite \in a.claims[k].cites}
  BY PreparedIs
<1>2. /\ DOMAIN q.claims = DOMAIN a.claims
      /\ q.disclosed = b.disclosed \cup Disclosures(Cited(q, packed))
      /\ \A k \in DOMAIN a.claims : q.claims[k].cites = {Exact(cite, packed) : cite \in b.claims[k].cites}
  BY PreparedIs
<1>3. b.disclosed = p.disclosed /\ \A k \in DOMAIN a.claims : b.claims[k].cites = p.claims[k].cites
  OBVIOUS
<1> HIDE DEF p, q
<1>4. ASSUME NEW k \in DOMAIN a.claims
      PROVE  q.claims[k].cites = p.claims[k].cites
  <2>1. \A cite : Exact(Exact(cite, packed), packed) = Exact(cite, packed)
    BY ExactTwice
  <2>2. \A cite \in p.claims[k].cites : Exact(cite, packed) = cite
    BY <1>1, <2>1
  <2>3. q.claims[k].cites = {Exact(cite, packed) : cite \in p.claims[k].cites}
    BY <1>2, <1>3
  <2> QED BY <2>2, <2>3
<1>5. Cites(q) = Cites(p)
  BY <1>1, <1>2, <1>4 DEF Cites, Claims, ToSet
<1>6. Cited(q, packed) = Cited(p, packed)
  BY <1>5 DEF Cited
<1> QED BY <1>1, <1>2, <1>3, <1>5, <1>6 DEF p, q

-------------------------------------------------------------------------------
(* The display.                                                                *)

LEMMA NewerOrder ==
  ASSUME NEW a \in Items, NEW b \in Items, NEW c \in Items, Newer(a, b), Newer(b, c)
  PROVE  Newer(a, c) /\ ~Newer(a, a)
<1> DEFINE linked(i) == IF i.status = "linked" THEN 1 ELSE 0
           newest(i) == IF i.newest THEN 1 ELSE 0
<1>1. \A i \in Items : linked(i) \in Nat /\ newest(i) \in Nat /\ i.receipt \in Nat
  BY DEF Items
<1>2. \A x, y : Newer(x, y) <=>
        \/ linked(x) > linked(y)
        \/ linked(x) = linked(y) /\ newest(x) > newest(y)
        \/ linked(x) = linked(y) /\ newest(x) = newest(y) /\ x.receipt > y.receipt
  BY DEF Newer
<1> HIDE DEF linked, newest
<1> QED BY <1>1, <1>2

(* Of the filings of a chain one is selected.                                  *)
LEMMA OneIsSelected ==
  ASSUME NEW due, due \subseteq Items, IsFiniteSet(due), NEW item \in due
  PROVE  \E best \in Selected(due) : best.root = item.root
<1> DEFINE chain == {i \in due : i.root = item.root}
           Above(i) == {j \in chain : Newer(j, i)}
           Aboves == {Above(i) : i \in chain}
<1>1. Aboves \subseteq FiniteSubsetsOf(due) /\ Aboves # {}
  <2>1. ASSUME NEW i \in chain PROVE IsFiniteSet(Above(i)) /\ Above(i) \subseteq due
    BY FS_Subset
  <2>2. item \in chain
    OBVIOUS
  <2> QED BY <2>1, <2>2 DEF FiniteSubsetsOf
<1>2. PICK low \in Aboves : \A s \in Aboves : <<s, low>> \notin StrictSubsetOrdering(due)
  <2> HIDE DEF Aboves
  <2> QED BY <1>1, FS_StrictSubsetOrderingWellFounded, WFMin
<1>3. PICK i \in chain : low = Above(i)
  OBVIOUS
<1>4. ASSUME NEW j \in Above(i) PROVE FALSE
  <2>1. j \in chain /\ Newer(j, i) /\ i \in Items /\ j \in Items
    OBVIOUS
  <2>2. ASSUME NEW k \in Above(j) PROVE k \in Above(i)
    <3>1. k \in Items /\ Newer(k, j)
      OBVIOUS
    <3> QED BY <2>1, <3>1, NewerOrder
  <2>3. ~Newer(j, j)
    <3>1. SUFFICES ASSUME Newer(j, j) PROVE FALSE
      OBVIOUS
    <3> QED BY <2>1, <3>1, NewerOrder
  <2>4. Above(j) \subseteq Above(i) /\ Above(j) # Above(i)
    BY <2>1, <2>2, <2>3
  <2>5. <<Above(j), Above(i)>> \in StrictSubsetOrdering(due)
    BY <2>4 DEF StrictSubsetOrdering
  <2> QED BY <1>2, <1>3, <2>1, <2>5
<1>5. i \in due /\ i.root = item.root /\ \A j \in due : j.root = i.root => ~Newer(j, i)
  BY <1>4
<1> QED BY <1>5 DEF Selected

(* The display cites what the answer cites, and tells a correction of each     *)
(* chain that the answer tells one of.                                         *)
LEMMA DisplayKeeps ==
  ASSUME NEW r \in Runs, NEW a \in AnswerTexts
  PROVE  LET shown == Displayed(a, r)
         IN /\ (UNION {claim.cites : claim \in ToSet(shown.text)}) \cup shown.below = Cites(a)
            /\ {d.root : d \in shown.corrections} = {d.root : d \in a.disclosed}
<1> DEFINE shown == Displayed(a, r)
           labelled == {Token(item) : item \in r.packed} \cap Cites(a)
           due == {item \in r.packed : NeedsDisclosure(item) /\ Disclosure(item) \in a.disclosed}
           Bare(claim) == [claim EXCEPT !.cites = @ \ labelled]
<1>1. CASE "bounded_narrative_answer" \in r.limitations
  <2>1. shown.text = a.claims /\ shown.below = {} /\ shown.corrections = a.disclosed
    BY <1>1 DEF Displayed
  <2> HIDE DEF shown
  <2> QED BY <2>1 DEF shown, Cites, Claims
<1>2. CASE "bounded_narrative_answer" \notin r.limitations
  <2>1. /\ shown.text = [k \in DOMAIN a.claims |-> Bare(a.claims[k])] /\ shown.below = labelled
        /\ shown.corrections = (a.disclosed \ Disclosures(due)) \cup Disclosures(Selected(due))
    BY <1>2 DEF Displayed
  <2>2. \A k \in DOMAIN a.claims : Bare(a.claims[k]).cites = a.claims[k].cites \ labelled
    <3>1. \A k \in DOMAIN a.claims : a.claims[k] \in ClaimTexts
      BY DEF AnswerTexts
    <3> QED BY <3>1 DEF ClaimTexts
  <2> HIDE DEF Bare
  <2>3. UNION {claim.cites : claim \in ToSet(shown.text)} = Cites(a) \ labelled
    <3> HIDE DEF labelled
    <3>1. UNION {claim.cites : claim \in ToSet(shown.text)} =
            UNION {Bare(a.claims[k]).cites : k \in DOMAIN a.claims}
      <4> HIDE DEF shown
      <4> QED BY <2>1 DEF ToSet
    <3>2. Cites(a) = UNION {a.claims[k].cites : k \in DOMAIN a.claims}
      BY DEF Cites, Claims, ToSet
    <3> QED BY <2>2, <3>1, <3>2
  <2>4. labelled \subseteq Cites(a)
    OBVIOUS
  <2>5. due \subseteq Items /\ IsFiniteSet(due)
    BY BuildAssumption, FS_Subset
  <2>6. \A i : Disclosure(i).root = i.root
    BY DEF Disclosure
  <2>7. \A i \in due : NeedsDisclosure(i) /\ Disclosure(i) \in a.disclosed
    OBVIOUS
  <2>8. Selected(due) \subseteq due
    BY DEF Selected
  <2> HIDE DEF due
  <2>9. ASSUME NEW d \in a.disclosed
        PROVE  \E c \in shown.corrections : c.root = d.root
    <3>1. CASE d \notin Disclosures(due)
      <4> HIDE DEF shown
      <4> QED BY <2>1, <3>1
    <3>2. CASE d \in Disclosures(due)
      <4>1. PICK i \in due : d = Disclosure(i)
        BY <3>2 DEF Disclosures
      <4>2. PICK best \in Selected(due) : best.root = i.root
        BY <2>5, OneIsSelected
      <4>3. Disclosure(best) \in Disclosures(Selected(due))
        BY <2>7, <2>8 DEF Disclosures
      <4> HIDE DEF shown
      <4> QED BY <2>1, <2>6, <4>1, <4>2, <4>3
    <3> QED BY <3>1, <3>2
  <2>10. shown.corrections \subseteq a.disclosed
    <3>1. Disclosures(Selected(due)) \subseteq a.disclosed
      BY <2>7, <2>8 DEF Disclosures
    <3> HIDE DEF shown
    <3> QED BY <2>1, <3>1
  <2>11. {d.root : d \in shown.corrections} = {d.root : d \in a.disclosed}
    <3> HIDE DEF shown
    <3> QED BY <2>9, <2>10
  <2>12. (UNION {claim.cites : claim \in ToSet(shown.text)}) \cup shown.below = Cites(a)
    <3> DEFINE texts == UNION {claim.cites : claim \in ToSet(shown.text)}
    <3>1. texts = Cites(a) \ labelled /\ shown.below = labelled
      BY <2>1, <2>3
    <3> HIDE DEF shown, labelled, texts
    <3>2. texts \cup shown.below = Cites(a)
      BY <2>4, <3>1
    <3> QED BY <3>2 DEF texts
  <2> HIDE DEF shown, labelled
  <2> QED BY <2>11, <2>12 DEF shown
<1> QED BY <1>1, <1>2

-------------------------------------------------------------------------------
(* The checks.                                                                 *)

(* What the checks make sure of.                                               *)
LEMMA CleanMeans ==
  ASSUME NEW a, NEW r, NEW q, Validate(a, r, q) = {},
         ~Abstains(a), r.outcome = "completed", r.packed # {}
  PROVE  /\ Grounded(a, r) /\ ClaimsMatch(a, r, q) /\ NumbersGrounded(a, r, q)
         /\ \A item \in Cited(a, r.packed) : NeedsDisclosure(item) => Disclosure(item) \in a.disclosed
<1>1. FactIssues(a, r, q) = {} /\ CorrectionIssues(a, r) = {}
  BY DEF Validate
<1>2. Cites(a) # {} /\ (Cites(a) # {} => Grounded(a, r)) /\ (Grounded(a, r) => ClaimsMatch(a, r, q))
      /\ NumbersGrounded(a, r, q)
  <2> DEFINE found == [
        citation_required            |-> Cites(a) = {},
        citation_identity_mismatch   |-> Cites(a) # {} /\ ~Grounded(a, r),
        citation_claim_mismatch      |-> Grounded(a, r) /\ ~ClaimsMatch(a, r, q),
        period_mismatch              |-> Mismatched("period", a, r, q),
        financial_basis_mismatch     |-> Mismatched("basis", a, r, q),
        financial_statement_mismatch |-> Mismatched("statement", a, r, q),
        ungrounded_number            |-> ~NumbersGrounded(a, r, q),
        ungrounded_claim_term        |-> ~Trusted(r) /\ ~TermsGrounded(a, r, q),
        forbidden_future_claim       |->
          /\ "future" \in Said(a, "tone")
          /\ ~(/\ Grounded(a, r) /\ NumbersGrounded(a, r, q)
               /\ TermsGrounded(a, r, q))]
  <2>1. TrueOnes(found) = {}
    BY <1>1 DEF FactIssues
  <2>2. ~found.citation_required /\ ~found.citation_identity_mismatch
        /\ ~found.citation_claim_mismatch /\ ~found.ungrounded_number
    BY <2>1 DEF TrueOnes
  <2> QED BY <2>2
<1>3. Disclosures({item \in Cited(a, r.packed) : NeedsDisclosure(item)}) \subseteq a.disclosed
  <2> DEFINE due == {item \in Cited(a, r.packed) : NeedsDisclosure(item)}
             found == [
               invalid_correction_status      |-> \E item \in due : item.status \notin Statuses,
               correction_disclosure_required |-> ~(Disclosures(due) \subseteq a.disclosed),
               ambiguous_correction_asserted  |->
                 /\ "confirmed" \in Said(a, "tone")
                 /\ \E item \in due : item.status \in {"ambiguous_candidate", "unresolved_external_root"}]
  <2>1. TrueOnes(found) = {}
    BY <1>1 DEF CorrectionIssues
  <2>2. ~found.correction_disclosure_required
    BY <2>1 DEF TrueOnes
  <2> QED BY <2>2
<1>4. \A item \in Cited(a, r.packed) : NeedsDisclosure(item) => Disclosure(item) \in a.disclosed
  BY <1>3 DEF Disclosures
<1> QED BY <1>2, <1>4

LEMMA NotTwo ==
  ASSUME NEW S, IsFiniteSet(S), NEW x \in S, NEW y \in S, ~(Cardinality(S) >= 2)
  PROVE  x = y
<1> SUFFICES ASSUME x # y PROVE FALSE
  OBVIOUS
<1>1. IsFiniteSet({x}) /\ Cardinality({x}) = 1
  BY FS_Singleton
<1>2. Cardinality({x} \cup {y}) = 2 /\ IsFiniteSet({x} \cup {y})
  BY <1>1, FS_AddElement
<1>3. {x} \cup {y} \in SUBSET S
  OBVIOUS
<1>4. Cardinality({x} \cup {y}) <= Cardinality(S) /\ Cardinality(S) \in Nat
  BY <1>3, FS_Subset, FS_CardinalityType
<1> QED BY <1>2, <1>4

(* Where no two filings could be confused, all the evidence is of one.         *)
LEMMA OneFiling ==
  ASSUME NEW r \in Runs, ~Several(Candidates(r)), NEW i \in Candidates(r), NEW j \in Candidates(r)
  PROVE  i.receipt = j.receipt
<1> DEFINE items == Candidates(r)
           receipts == {item.receipt : item \in items}
           f == [item \in items |-> item.receipt]
<1>1. IsFiniteSet(items)
  BY BuildAssumption, FS_Union, FS_EmptySet DEF Candidates
<1>2. f \in Surjection(items, receipts)
  <2> HIDE DEF items
  <2> QED BY DEF Surjection
<1>3. IsFiniteSet(receipts)
  BY <1>1, <1>2, FS_Surjection
<1>4. ~(Cardinality(receipts) >= 2)
  BY DEF Several
<1> HIDE DEF receipts
<1>5. i.receipt \in receipts /\ j.receipt \in receipts
  BY DEF receipts
<1> QED BY <1>3, <1>4, <1>5, NotTwo

(* With several filings each claim is held to what it cites; with one filing   *)
(* there is nothing to confuse.                                                *)
LEMMA NumbersOfClean ==
  ASSUME NEW a \in AnswerTexts, NEW r \in Runs, NEW q, 
         Grounded(a, r), ClaimsMatch(a, r, q), NumbersGrounded(a, r, q),
         NEW claim \in Claims(a), claim.cites # {}, NEW n \in claim.numbers
  PROVE  \/ n \in q.numbers \cup r.calculated
         \/ \E item, i \in Candidates(r) :
              /\ n \in item.numbers
              /\ \E cite \in claim.cites : Match(cite, i)
              /\ item.receipt = i.receipt
<1>1. PICK k \in DOMAIN a.claims : claim = a.claims[k]
  BY DEF Claims, ToSet
<1>2. PICK cite \in claim.cites : cite \in Cites(a)
  BY DEF Cites
<1>3. PICK i \in Candidates(r) : Match(cite, i)
  BY <1>2 DEF Grounded
<1>4. CASE Several(Candidates(r))
  <2> DEFINE matched == {item \in Candidates(r) : \E c \in a.claims[k].cites : Match(c, item)}
  <2>1. matched # {}
    BY <1>1, <1>3
  <2>2. a.claims[k].numbers \subseteq Known(matched, "numbers") \cup q.numbers \cup r.calculated
    BY <1>4, <2>1 DEF ClaimsMatch
  <2>3. n \in Known(matched, "numbers") \cup q.numbers \cup r.calculated
    BY <1>1, <2>2
  <2>4. ASSUME n \in Known(matched, "numbers")
        PROVE  \E item \in matched : n \in item.numbers
    BY <2>4 DEF Known
  <2> QED BY <1>1, <2>3, <2>4
<1>5. CASE ~Several(Candidates(r))
  <2>1. n \in Said(a, "numbers")
    BY DEF Said
  <2>2. n \in Known(Candidates(r), "numbers") \cup q.numbers \cup r.calculated
    BY <2>1 DEF NumbersGrounded
  <2>3. ASSUME n \in Known(Candidates(r), "numbers")
        PROVE  \E item \in Candidates(r) : n \in item.numbers
    BY <2>3 DEF Known
  <2>4. \A item \in Candidates(r) : item.receipt = i.receipt
    BY <1>5, OneFiling
  <2> QED BY <1>3, <2>2, <2>3, <2>4
<1> QED BY <1>4, <1>5

-------------------------------------------------------------------------------
(* The invariant.                                                              *)

(* What may be served as an answer: it has passed every check, on a completed  *)
(* run with a context, its display is within the limit, and where a route had  *)
(* drafted a clean one it states the same.                                     *)
Sound(served) ==
  served.kind = "answer" =>
    /\ served.answer \in AnswerTexts
    /\ Clean(served.answer) /\ ~Abstains(served.answer)
    /\ Clean(Draft) => SameFacts(served.answer, Draft)
    /\ run.outcome = "completed" /\ run.packed # {}
    /\ served.shown = Displayed(served.answer, run)
    /\ ~(DisplayedSize(served.shown) > MaxSize)

(* Until it is served an answer has cost no call of the model; an introduction *)
(* is asked for a clean draft only, and a repair only where there are issues:  *)
(* one that fails leaves them, and nothing unclean is served for it.           *)
BuildInv ==
  /\ question \in Questions /\ run \in Runs
  /\ stage # "served" => calls = 0
  /\ stage \in {"presenting", "repairing"} => run.outcome = "completed" /\ run.packed # {}
  /\ stage = "presenting" => Clean(Draft)
  /\ stage = "repairing" => issues # {} /\ ~Clean(Draft)
  /\ Sound(response)

LEMMA BuildInvInit == Init => BuildInv
BY DEF Init, BuildInv, Sound, Nothing

(* An answer that is clean, or found so by the checks, is sound when served.   *)
LEMMA FactualIsSound ==
  ASSUME NEW answer \in AnswerTexts, Clean(answer), Clean(Draft) => SameFacts(answer, Draft),
         run.outcome = "completed", run.packed # {}
  PROVE  Sound(Factual(answer))
<1>1. CASE Abstains(answer) \/ DisplayedSize(Displayed(answer, run)) > MaxSize
  BY <1>1 DEF Factual, Abstain, Sound
<1>2. CASE ~Abstains(answer) /\ ~(DisplayedSize(Displayed(answer, run)) > MaxSize)
  <2>1. Factual(answer) = [kind |-> "answer", status |-> Status, answer |-> answer,
                           shown |-> Displayed(answer, run)]
    BY <1>2 DEF Factual
  <2> QED BY <1>2, <2>1 DEF Sound
<1> QED BY <1>1, <1>2

LEMMA DraftTyped ==
  ASSUME BuildInv
  PROVE  Draft \in AnswerTexts /\ SameFacts(Draft, Draft)
<1>1. run.draft \in AnswerTexts /\ run.packed \subseteq Items /\ IsFiniteSet(run.packed)
  BY BuildAssumption DEF BuildInv
<1> QED BY <1>1, PreparedIs DEF Draft, SameFacts

(* The fixed introduction states nothing, and is dropped when the answer does  *)
(* not stay clean.                                                             *)
LEMMA StableKeeps ==
  ASSUME BuildInv, Clean(Draft)
  PROVE  Clean(Stable(Draft)) /\ Stable(Draft) \in AnswerTexts /\ SameFacts(Stable(Draft), Draft)
<1> DEFINE companies == {item.corp : item \in run.evidence}
           intro == [companies |-> IF Cardinality(companies) = 1 THEN companies ELSE {},
                     numbers |-> {}, terms |-> {}, tone |-> {}]
<1>1. Clean(Stable(Draft)) /\ Stable(Draft) \in {Draft, Compose(intro, Draft)}
  BY DEF Stable
<1>2. Compose(intro, Draft) \in AnswerTexts /\ SameFacts(Compose(intro, Draft), Draft)
  <2>1. companies \in SUBSET STRING
    BY BuildAssumption DEF BuildInv, Items
  <2>2. IsLead(intro) /\ intro.numbers = {}
    BY <2>1 DEF IsLead
  <2> HIDE DEF intro
  <2> DEFINE d == Draft
             c == Compose(intro, d)
  <2>4. d \in AnswerTexts
    BY DraftTyped
  <2> HIDE DEF d
  <2>3. /\ c \in AnswerTexts /\ c.disclosed = d.disclosed /\ DOMAIN c.claims = DOMAIN d.claims
        /\ \A k \in DOMAIN d.claims : /\ c.claims[k].cites = d.claims[k].cites
                                    /\ c.claims[k].numbers = d.claims[k].numbers
    BY <2>2, <2>4, ComposeIs
  <2> HIDE DEF c
  <2> QED BY <2>3, SameClaims DEF c, d
<1> QED BY <1>1, <1>2, DraftTyped

(* The model's introduction is dropped unless the answer keeps its numbers; it *)
(* cites nothing, and the citations of the draft are exact already.            *)
LEMMA PresentedKeeps ==
  ASSUME BuildInv, NEW lead \in Leads \cup {Failure}, Clean(Draft)
  PROVE  /\ Clean(Presented(lead)) /\ Presented(lead) \in AnswerTexts
         /\ SameFacts(Presented(lead), Draft)
<1> DEFINE d == Draft
           b == Compose(lead, d)
           composed == Prepared(b, run.packed)
<1>1. CASE lead # Failure /\ LeadFits(lead, Draft) /\ Acceptable(composed, Draft)
  <2>1. /\ run.draft \in AnswerTexts /\ run.packed \subseteq Items /\ IsFiniteSet(run.packed)
        /\ lead \in [wellFormed : BOOLEAN, companies : SUBSET STRING, numbers : SUBSET Nat,
                     terms : SUBSET STRING, tone : SUBSET STRING]
    BY <1>1, BuildAssumption DEF BuildInv
  <2>8. d \in AnswerTexts
    BY DraftTyped
  <2>9. IsLead(lead)
    BY <2>1 DEF IsLead
  <2>3. DOMAIN d.claims = DOMAIN run.draft.claims /\ d = Prepared(run.draft, run.packed)
    BY <2>1, PreparedIs DEF Draft
  <2> HIDE DEF d
  <2>2. /\ b \in AnswerTexts /\ b.disclosed = d.disclosed /\ DOMAIN b.claims = DOMAIN d.claims
        /\ \A k \in DOMAIN d.claims : b.claims[k].cites = d.claims[k].cites
    BY <2>8, <2>9, ComposeIs
  <2> HIDE DEF b
  <2>4. composed \in AnswerTexts
    BY <2>1, <2>2, PreparedIs
  <2>5. Cites(composed) = Cites(d) /\ composed.disclosed = d.disclosed
    BY <2>1, <2>2, <2>3, PreparedTwice
  <2> HIDE DEF composed
  <2>6. Said(composed, "numbers") = Said(Draft, "numbers") /\ Clean(composed)
    BY <1>1 DEF Acceptable, PreservesLocked, composed
  <2>7. Presented(lead) = composed
    BY <1>1 DEF Presented, composed, b, d
  <2> QED BY <2>4, <2>5, <2>6, <2>7 DEF SameFacts, d
<1>2. CASE ~(lead # Failure /\ LeadFits(lead, Draft) /\ Acceptable(composed, Draft))
  <2>1. Presented(lead) = Stable(Draft)
    BY <1>2 DEF Presented
  <2> QED BY <2>1, StableKeeps
<1> QED BY <1>1, <1>2

-------------------------------------------------------------------------------
(* The steps.                                                                  *)

(* What is sound stays so, since no step changes the question or the run.      *)
LEMMA SoundIsStable ==
  ASSUME UNCHANGED <<question, run>>, NEW served, Sound(served), response' = served
  PROVE  Sound(response)'
<1>1. question' = question /\ run' = run
  OBVIOUS
<1>2. Clean(served.answer) <=> Clean(served.answer)'
  BY <1>1 DEF Clean
<1>3. Draft' = Draft /\ (Clean(Draft) <=> Clean(Draft)')
  BY <1>1 DEF Clean, Draft
<1>4. Sound(served)'
  BY <1>1, <1>2, <1>3 DEF Sound
<1> QED BY <1>4 DEF Sound, Clean

LEMMA LimitedKeepsInv ==
  ASSUME BuildInv, Limited
  PROVE  BuildInv'
<1>1. Sound(Abstain("information_limit", InformationLimit(FALSE, {})))
  BY DEF Sound, Abstain
<1>2. Sound(response)'
  BY <1>1, SoundIsStable DEF Limited, Serve
<1> QED BY <1>2 DEF BuildInv, Limited, Serve

LEMMA CheckKeepsInv ==
  ASSUME BuildInv, Check
  PROVE  BuildInv'
<1>1. /\ stage = "drafted" /\ run.outcome = "completed" /\ run.packed # {}
      /\ issues' = Validate(Draft, run, question)
      /\ UNCHANGED <<question, run, gateway, calls>>
  BY DEF Check
<1>2. Draft' = Draft /\ (Clean(Draft) => Clean(Draft)')
  BY <1>1 DEF Draft, Clean
<1>3. CASE issues' = {} /\ stage' = "presenting" /\ UNCHANGED response
  <2>1. Clean(Draft)'
    BY <1>1, <1>2, <1>3 DEF Clean
  <2>2. Sound(response)'
    BY <1>1, <1>3, SoundIsStable DEF BuildInv
  <2> QED BY <1>1, <1>3, <2>1, <2>2 DEF BuildInv
<1>4. CASE issues' = {} /\ (Serve(Factual(Stable(Draft))) \/ Serve(Factual(Draft)))
  <2>1. Clean(Draft)
    BY <1>1, <1>4 DEF Clean
  <2>2. Sound(Factual(Stable(Draft))) /\ Sound(Factual(Draft))
    BY <1>1, <2>1, StableKeeps, DraftTyped, FactualIsSound
  <2>3. Sound(response)'
    BY <1>1, <1>4, <2>2, SoundIsStable DEF Serve
  <2> QED BY <1>1, <1>4, <2>3 DEF BuildInv, Serve
<1>5. CASE issues' # {} /\ stage' = "repairing" /\ UNCHANGED response
  <2>1. Sound(response)'
    BY <1>1, <1>5, SoundIsStable DEF BuildInv
  <2>2. ~Clean(Draft)'
    BY <1>1, <1>5 DEF Draft, Clean
  <2> QED BY <1>1, <1>5, <2>1, <2>2 DEF BuildInv
<1>6. CASE Serve(Abstain("safe_fallback", InformationLimit(TRUE, issues')))
  <2>1. Sound(Abstain("safe_fallback", InformationLimit(TRUE, issues')))
    BY DEF Sound, Abstain
  <2>2. Sound(response)'
    BY <1>1, <1>6, <2>1, SoundIsStable DEF Serve
  <2> QED BY <1>1, <1>6, <2>2 DEF BuildInv, Serve
<1> QED BY <1>3, <1>4, <1>5, <1>6 DEF Check

LEMMA PresentKeepsInv ==
  ASSUME BuildInv, NEW lead \in Leads \cup {Failure}, Present(lead)
  PROVE  BuildInv'
<1>1. Clean(Draft) /\ run.outcome = "completed" /\ run.packed # {}
  BY DEF BuildInv, Present
<1>2. Sound(Factual(Presented(lead)))
  BY <1>1, PresentedKeeps, FactualIsSound
<1>3. Sound(response)'
  BY <1>2, SoundIsStable DEF Present, Serve
<1> QED BY <1>3 DEF BuildInv, Present, Serve

LEMMA RepairKeepsInv ==
  ASSUME BuildInv, NEW repair \in Repairs \cup {Failure}, Repair(repair)
  PROVE  BuildInv'
<1>1. issues # {} /\ ~Clean(Draft) /\ run.outcome = "completed" /\ run.packed # {}
  BY DEF BuildInv, Repair
<1>2. CASE issues' = {}
  <2>1. Clean(Prepared(repair, run.packed)) /\ repair \in Repairs
    BY <1>1, <1>2 DEF Repair, RepairedIssues, Clean
  <2>2. Prepared(repair, run.packed) \in AnswerTexts
    BY <2>1, PreparedIs, BuildAssumption DEF BuildInv
  <2>3. Sound(Factual(Prepared(repair, run.packed)))
    BY <1>1, <2>1, <2>2, FactualIsSound
  <2>4. Sound(response)'
    BY <1>1, <1>2, <2>3, SoundIsStable DEF Repair, Serve
  <2> QED BY <1>2, <2>4 DEF BuildInv, Repair, Serve
<1>3. CASE issues' # {}
  <2>1. Sound(Abstain("safe_fallback", InformationLimit(TRUE, issues')))
    BY DEF Sound, Abstain
  <2>2. Sound(response)'
    BY <1>3, <2>1, SoundIsStable DEF Repair, Serve
  <2> QED BY <1>3, <2>2 DEF BuildInv, Repair, Serve
<1> QED BY <1>2, <1>3

LEMMA StutterKeepsInv ==
  ASSUME BuildInv, UNCHANGED vars
  PROVE  BuildInv'
<1>1. Sound(response)'
  BY SoundIsStable DEF BuildInv, vars
<1>2. Clean(Draft) <=> Clean(Draft)'
  BY DEF Draft, Clean, vars
<1>3. (Clean(Draft)' \/ stage' # "presenting") /\ (~Clean(Draft)' \/ stage' # "repairing")
  BY <1>2 DEF BuildInv, vars
<1> QED BY <1>1, <1>3 DEF BuildInv, vars

LEMMA BuildInvStep == BuildInv /\ [Next]_vars => BuildInv'
<1> SUFFICES ASSUME BuildInv, [Next]_vars PROVE BuildInv'
  OBVIOUS
<1>1. CASE Limited
  BY <1>1, LimitedKeepsInv
<1>2. CASE Check
  BY <1>2, CheckKeepsInv
<1>3. CASE \E lead \in Leads \cup {Failure} : Present(lead)
  BY <1>3, PresentKeepsInv
<1>4. CASE \E repair \in Repairs \cup {Failure} : Repair(repair)
  BY <1>4, RepairKeepsInv
<1>5. CASE Served \/ UNCHANGED vars
  BY <1>5, StutterKeepsInv DEF Served
<1> QED BY <1>1, <1>2, <1>3, <1>4, <1>5 DEF Next

LEMMA BuildInvHolds == Spec => []BuildInv
BY BuildInvInit, BuildInvStep, PTL DEF Spec

-------------------------------------------------------------------------------
(* What follows.                                                               *)

(* Every answer that is served, a draft of a route, an introduced one or the   *)
(* model's own repair, has passed every check of the validator in the form in  *)
(* which it is served (validator.py:1392-1585).                                *)
ServedIsClean ==
  Answered => Clean(response.answer) /\ run.outcome = "completed" /\ run.packed # {}

(* So it is on every branch of build, for every draft, introduction and repair *)
(* (validator.py:1392-1585).                                                   *)
THEOREM OnlyCleanAnswersAreServed == Spec => []ServedIsClean
<1>1. BuildInv => ServedIsClean
  BY DEF BuildInv, Sound, ServedIsClean, Answered
<1> QED BY <1>1, BuildInvHolds, PTL

(* A build calls the model once at most (validator.py:1481, 1541).             *)
THEOREM ModelIsCalledOnce == Spec => OneModelCall
<1>1. BuildInv /\ [Next]_vars => [calls' # calls => calls = 0 /\ stage' = "served"]_vars
  <2> SUFFICES ASSUME BuildInv, Next, calls' # calls
               PROVE  calls = 0 /\ stage' = "served"
    OBVIOUS
  <2>1. CASE \E lead \in Leads \cup {Failure} : Present(lead)
    BY <2>1 DEF Present, Serve, BuildInv
  <2>2. CASE \E repair \in Repairs \cup {Failure} : Repair(repair)
    BY <2>2 DEF Repair, Serve, BuildInv
  <2>3. CASE Limited \/ Check \/ Served
    BY <2>3 DEF Limited, Check, Served, vars
  <2> QED BY <2>1, <2>2, <2>3 DEF Next
<1> QED BY <1>1, BuildInvHolds, PTL DEF Spec, OneModelCall

(* However an answer came about, every number of a claim with a citation is    *)
(* the user's, calculated, or in a filing that a citation of the claim can     *)
(* mean: of the chain of its receipt, or of its date when it gives no receipt  *)
(* (validator.py:678-726, 855-933, 989-1015).                                  *)
THEOREM NumbersComeFromTheirCitations == Spec => []NumbersAreCited
<1>1. BuildInv => NumbersAreCited
  <2> SUFFICES ASSUME BuildInv, Answered,
                      NEW claim \in Claims(response.answer), claim.cites # {},
                      NEW n \in claim.numbers
               PROVE  \/ n \in question.numbers \cup run.calculated
                      \/ \E item \in Candidates(run) :
                           /\ n \in item.numbers
                           /\ \E i \in Candidates(run) :
                                /\ \E cite \in claim.cites : Means(cite, i)
                                /\ item.receipt = i.receipt
    BY DEF NumbersAreCited, NumbersAre, Known
  <2>1. response.answer \in AnswerTexts /\ run \in Runs
    BY DEF BuildInv, Sound, Answered
  <2>2. /\ Grounded(response.answer, run) /\ ClaimsMatch(response.answer, run, question)
        /\ NumbersGrounded(response.answer, run, question)
    BY CleanMeans DEF BuildInv, Sound, Answered, Clean
  <2>3. \A cite, i : Match(cite, i) => Means(cite, i)
    BY DEF Match
  <2> QED BY <2>1, <2>2, <2>3, NumbersOfClean
<1> QED BY <1>1, BuildInvHolds, PTL

(* Of each chain that the answer cites in its context, when one of its filings *)
(* is a correction or was corrected, a correction is told in the display       *)
(* (validator.py:588-675, 1032-1050).                                          *)
THEOREM CorrectionsAreShown == Spec => []CorrectionsShown
<1>1. BuildInv => CorrectionsShown
  <2> SUFFICES ASSUME BuildInv, Answered, NEW item \in Cited(response.answer, run.packed),
                      NeedsDisclosure(item)
               PROVE  \E d \in response.shown.corrections : d.root = item.root
    BY DEF CorrectionsShown
  <2>1. /\ response.answer \in AnswerTexts /\ run \in Runs
        /\ response.shown = Displayed(response.answer, run)
    BY DEF BuildInv, Sound, Answered
  <2>2. Disclosure(item) \in response.answer.disclosed
    BY CleanMeans DEF BuildInv, Sound, Answered, Clean
  <2>3. item.root \in {d.root : d \in response.answer.disclosed}
    BY <2>2 DEF Disclosure
  <2>4. item.root \in {d.root : d \in response.shown.corrections}
    BY <2>1, <2>3, DisplayKeeps
  <2> QED BY <2>4
<1> QED BY <1>1, BuildInvHolds, PTL

(* What a route drafted without an issue is served with the same numbers,      *)
(* citations and corrections, whatever the model writes to introduce it        *)
(* (validator.py:1312-1338, 1456-1528).                                        *)
THEOREM LockedFactsAreServed == Spec => []LockedFactsSurvive
<1>1. BuildInv => LockedFactsSurvive
  <2> SUFFICES ASSUME BuildInv, Answered, Clean(Draft)
               PROVE  /\ Said(response.answer, "numbers") = Said(Draft, "numbers")
                      /\ (UNION {claim.cites : claim \in ToSet(response.shown.text)})
                           \cup response.shown.below = Cites(Draft)
                      /\ {d.root : d \in response.shown.corrections} = {d.root : d \in Draft.disclosed}
    BY DEF LockedFactsSurvive
  <2>1. /\ response.answer \in AnswerTexts /\ run \in Runs
        /\ response.shown = Displayed(response.answer, run)
        /\ SameFacts(response.answer, Draft)
    BY DEF BuildInv, Sound, Answered
  <2>2. /\ (UNION {claim.cites : claim \in ToSet(response.shown.text)})
             \cup response.shown.below = Cites(response.answer)
        /\ {d.root : d \in response.shown.corrections} = {d.root : d \in response.answer.disclosed}
    BY <2>1, DisplayKeeps
  <2> QED BY <2>1, <2>2 DEF SameFacts
<1> QED BY <1>1, BuildInvHolds, PTL
===============================================================================
