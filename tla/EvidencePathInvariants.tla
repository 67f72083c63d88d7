------------------------ MODULE EvidencePathInvariants ------------------------
(* What the proofs about EvidencePath are stated with: the inductive           *)
(* invariants of the path, of the context and of a section, and what holds of  *)
(* texts, pages, candidates and selections on the way to them. The first three *)
(* are formulas that TLC can check.                                            *)
EXTENDS EvidencePath, FiniteSetTheorems, SequenceTheorems

-------------------------------------------------------------------------------
(* Folds and sequences of sequences.                                           *)

(* What is folded over a sequence, from the empty one up, by steps that stay   *)
(* in a set.                                                                   *)
Folds(g, n, D, base, st) ==
  /\ g = [s \in SUBSET (1..n) |-> IF s = {} THEN base ELSE st[Max(s)][g[s \ {Max(s)}]]]
  /\ \A s \in SUBSET (1..n) : g[s] \in D

(* A sequence of sequences, flattened one after another.                       *)
Flattens(h, seqs, S) ==
  /\ h[0] = <<>> /\ FlattenSeq(seqs) = h[Len(seqs)] /\ Len(seqs) \in Nat
  /\ \A k \in 0..Len(seqs) : h[k] \in Seq(S)
  /\ \A k \in 1..Len(seqs) : h[k] = h[k-1] \o seqs[k]

-------------------------------------------------------------------------------
(* The parser: texts, and the chunks of a section.                             *)

(* The texts that have a line.                                                 *)
SomeTexts == {t \in Texts : t # <<>>}

(* Chunks of which no two neighbours could be one.                             *)
Grouped == {g \in Seq(SomeTexts) :
              \A i \in 1..(Len(g) - 1) : Chars(g[i]) + 2 + Chars(g[i+1]) > MaxChunkChars}

(* What the characters of a text from one place to another are of one of its   *)
(* lines, and the lines that they are of.                                      *)
Piece(t, a, b, i) ==
  LET start == Greatest(a, LineStart(t, i))
  IN [t[i] EXCEPT !.from = @ + (start - LineStart(t, i)), !.size = Least(b, LineEnd(t, i)) - start]
Touched(t, a, b) == {i \in DOMAIN t : LineStart(t, i) <= b /\ a <= LineEnd(t, i)}

(* The rows of a table, one after another.                                     *)
TableState == [parts : Seq(SomeTexts), rows : Texts]
AddTableRow(header, s, row) ==
  IF s.rows # <<>> /\ Chars(header \o s.rows \o <<row>>) > MaxChunkChars
  THEN [parts |-> Append(s.parts, header \o s.rows), rows |-> <<row>>]
  ELSE [s EXCEPT !.rows = Append(@, row)]

(* What is repeated of a table, and what comes after it.                       *)
HeaderOf(table) == SubSeq(table, 1, IF table[1].kind = "head" THEN 2 ELSE 4)
RestOf(table)   == SubSeq(table, Len(HeaderOf(table)) + 1, Len(table))

-------------------------------------------------------------------------------
(* The reader: rows, pages, and what a page takes.                             *)

(* A part on a page, and the state of the loop that fills one.                 *)
RowTexts  == [part : Nat \ {0}, text : SomeTexts]
PartTexts == [part : Nat, source : Nat, text : Texts]
PageState == [parts : Seq(PartTexts), used : Nat, full : BOOLEAN]
RowsOf(parts) == PageRows([parts |-> parts])
PairChars == MaxChunkChars + 1

(* What the parts of a page take, and how many there can be: two neighbours    *)
(* that both fit are longer than a chunk.                                      *)
SumOfParts(s) ==
  Listed(RowsOf(s.parts)) + 2 * Len(s.parts)
    = 2 * (s.used + (IF s.parts = <<>> THEN 0 ELSE 1)) + 2 * CitationChars * Len(s.parts)
FewParts(s, maxChars) ==
  \E a \in Nat : Len(s.parts) <= 2 * a + 2 /\ a * PairChars <= maxChars
WholeParts(s) ==
  \E a \in Nat :
    \/ Len(s.parts) = 2 * a /\ a * PairChars <= s.used + 1
    \/ /\ Len(s.parts) = 2 * a + 1
       /\ a * PairChars + Chars(s.parts[Len(s.parts)].text) + 1 <= s.used + 1

Paged(chunks, from, maxChars, k) ==
  {s \in PageState :
     /\ s.used <= maxChars
     /\ s.parts = <<>> => s.used = 0
     /\ SumOfParts(s)
     /\ FewParts(s, maxChars)
     /\ ~s.full =>
          /\ Len(s.parts) = k
          /\ WholeParts(s)
          /\ k # 0 => Chars(s.parts[k].text) >= Chars(chunks[from + k - 1])}

(* What a page gets of a row that has the part asked for, or a later one.      *)
Put(rows, maxChars, s, k) ==
  LET separator == IF s.parts = <<>> THEN 0 ELSE 1
      text      == Prefix(rows[k].text, maxChars - (s.used + separator))
  IN IF s.full \/ maxChars <= s.used + separator THEN [s EXCEPT !.full = TRUE]
     ELSE [parts |-> Append(s.parts, [part |-> rows[k].part, source |-> k, text |-> text]),
           used  |-> s.used + separator + Chars(text),
           full  |-> Chars(text) < Chars(rows[k].text)]

(* The rows of a path that occurs once.                                        *)
Numbered(chunks) == [k \in DOMAIN chunks |-> [part |-> k, text |-> chunks[k]]]

(* The rows that a page takes or passes over, one after another.               *)
PartRuns(rows, from, maxChars, F) ==
  /\ F[0] = [parts |-> <<>>, used |-> 0, full |-> FALSE]
  /\ \A k \in 0..Len(rows) : F[k] \in PageState
  /\ \A k \in 1..Len(rows) : F[k] = AddPart(rows, from, maxChars, F[k-1], k)
  /\ PartsFrom(rows, from, maxChars) = F[Len(rows)].parts

(* The rows that have a number.                                                *)
OfPart(p) == {x \in RowTexts : x.part = p}

(* The rows of a search.                                                       *)
CitedRows == [source : Nat, text : Texts, cite : {"labelled"}, size : Nat]

-------------------------------------------------------------------------------
(* What the backends hold, what the tools answer, and where it is from.        *)

(* What the backends hold does not change.                                     *)
WorldInv ==
  /\ live \in BOOLEAN /\ events \in EventLists /\ filings \in FilingCounts
  /\ files \in Seq(Seq(Seq(Blocks))) /\ stored = Rows(files)

(* Rows with a citation of one kind.                                           *)
RowsOfCite(cite) == [source : Nat, text : Texts, cite : {cite}, size : Nat]

(* An answer that found something.                                             *)
Sound(r, c) ==
  /\ r.tool = c.tool /\ r.said \in 0..NoteChars
  /\ c.tool \in {"query_events", "list_sections", "read_section", "search_chunks"} =>
       r.rows \in Seq(RowsOfCite("labelled"))
  /\ c.tool \in Structured => r.rows \in Seq(RowsOfCite("unlabelled"))
  /\ c.tool = "read_section" /\ Once => Rendered(r) <= MaxResultChars
  /\ c.tool = "query_events" /\ ~live /\ Len(r.rows) # 1 => Rendered(r) <= MaxResultChars

(* The form of every answer.                                                   *)
IsResponse(r) == r = [tool |-> r.tool, status |-> r.status, code |-> r.code, rows |-> r.rows,
                      said |-> r.said, from |-> r.from]

(* Evidence from one release.                                                  *)
ItemsOf(release) ==
  [source : Nat, text : Texts, priority : {1}, rank : Nat \ {0}, from : SUBSET {release}]

(* A page.                                                                     *)
PageRecords == [parts : Seq(PartTexts), truncated : BOOLEAN, nextPart : Nat]

(* The pages that are kept are those of the section that is read.              *)
PagesWereRead == \A p \in pages : p[1] \in Nat \ {0} /\ p = <<p[1], Page(p[1])>>

(* What a call gets as evidence was read from the release that the registry is *)
(* bound to, whenever a path of a backend is replaced: before the call, while  *)
(* the company is resolved, while the tool runs or after it                    *)
(* (tool_registry.py:665-746).                                                 *)
ResultOfLineage ==
  stage = "done" => \A i \in DOMAIN result.evidence : result.evidence[i].from \subseteq {lineage}

(* As long as nothing was replaced an answer that waits for the second look is *)
(* of the lineage; if something was, the look finds it, since it stays so.     *)
LineageInv ==
  /\ bound \in [BoundPaths -> Releases]
  /\ stage \in {"enter", "read", "leave"} => call \in Calls /\ call.tool \in ToolsModelled
  /\ stage = "leave" => "from" \in DOMAIN answer /\ (Intact => answer.from \subseteq {lineage})
  /\ ResultOfLineage

(* An answer that waits for the second look is the one of the tool that was asked. *)
AnswerInv ==
  /\ stage # "idle" => call \in Calls
  /\ stage = "leave" => IsResponse(answer) /\ (answer.status = "ok" => Sound(answer, Asked))

(* What was collected is evidence from the lineage, and so is what will be.    *)
EvidenceInv ==
  /\ evidence \in Seq(ItemsOf(lineage))
  /\ stage = "done" => result.evidence \in Seq(ItemsOf(lineage))
  /\ PagesWereRead

(* The invariant: what holds the evidence together, with what the backends     *)
(* hold and how far the call is.                                               *)
PathInv == WorldInv /\ LineageInv /\ AnswerInv /\ AnswersArrive /\ EvidenceInv

(* The parts of the type invariant that no part of PathInv says.               *)
TypeInv ==
  /\ lineage \in Releases /\ call \in Calls \cup {NoCall} /\ naming \in BOOLEAN
  /\ stage \in Stages /\ calls \in 0..MaxCalls

-------------------------------------------------------------------------------
(* Packing: prose and tables.                                                  *)

(* What is computed from what comes later in a range.                          *)
Descends(w, from, to, D, base, stop, nx, st) ==
  /\ w \in [from..to -> D]
  /\ w = [s \in from..to |-> IF stop[s] THEN base[s] ELSE st[s][w[nx[s]]]]

(* What candidates are: each shows some characters and fits, the first one     *)
(* also where a passage has room for more when it is the first of a context.   *)
Passages == [shows : SUBSET Nat, size : Nat]
Fits(candidates, first) ==
  \A j \in DOMAIN candidates :
    candidates[j].size >= 1 /\ candidates[j].size <= Room(first /\ j = 1)
ShownBy(candidates) == UNION {candidates[k].shows : k \in DOMAIN candidates}

(* The prose between two places of a text is all in the passages that it is    *)
(* cut into, each with room for its own, unless there is no room at all.       *)
PlainGood(t, from, to, first) ==
  LET p == PlainCandidates(t, from, to, first)
  IN /\ p.candidates \in Seq(Passages) /\ p.omitted \in BOOLEAN /\ p.said = {}
     /\ Fits(p.candidates, first)
     /\ ~p.omitted => from..(to - 1) \subseteq ShownBy(p.candidates)
     /\ p.omitted => Room(first) = 0 \/ Room(FALSE) = 0

(* What may be said of an item that is not in its passages as a whole.         *)
Reasons == {"passage_header_exceeds_limit", "malformed_table_row_omitted", "oversized_table_row_omitted"}

(* What is known of a table whose rows up to here are done with.               *)
TableStates(t) == [candidates : Seq(Passages), omitted : BOOLEAN, said : SUBSET Reasons,
                   rows : Seq(1..Len(t)), first : BOOLEAN]
Tabled(t, head, first, done, s) ==
  /\ s \in TableStates(t)
  /\ Fits(s.candidates, first)
  /\ s.first = (first /\ s.candidates = <<>>)
  /\ s.omitted => s.said # {}
  /\ s.rows # <<>> => SizeUnder(t, head, s.rows) <= Room(s.first)
  /\ ~s.omitted => \A row \in done : \/ row \in ToSet(s.rows)
                                     \/ Characters(t, {head, head + 1, row}) \subseteq ShownBy(s.candidates)

(* What is known of a text that is done with up to a place in it.              *)
TextStates == [candidates : Seq(Passages), omitted : BOOLEAN, said : SUBSET Reasons, cursor : Nat]
Covers(t, candidates, to) ==
  \A i \in 1..Len(t) : \A n \in LineStart(t, i)..(LineEnd(t, i) - 1) :
    n < to => n \in ShownBy(candidates)
Texted(t, first, s) ==
  /\ s \in TextStates
  /\ s.cursor <= Chars(t)
  /\ Fits(s.candidates, first)
  /\ s.omitted => s.said # {}
  /\ ~s.omitted => Covers(t, s.candidates, s.cursor)

(* A text is all in its candidates, each with room for its own, unless it is   *)
(* said what was left out.                                                     *)
TextGood(t, first) ==
  LET p == TextCandidates(t, first)
  IN /\ p.candidates \in Seq(Passages) /\ p.omitted \in BOOLEAN /\ p.said \in SUBSET Reasons
     /\ Fits(p.candidates, first)
     /\ p.omitted => p.said # {}
     /\ ~p.omitted => Characters(t, DOMAIN t) \subseteq ShownBy(p.candidates)

-------------------------------------------------------------------------------
(* Packing: groups, candidates and the selection.                              *)

(* What is known of groups: each is of one item, and fits.                     *)
ItemPassages == [item : Nat, shows : SUBSET Nat, size : Nat]
OneItem(items, group) ==
  \A k \in DOMAIN group : group[k].item = group[1].item /\ group[k].item \in DOMAIN items
Parted(items, groups) ==
  /\ groups \in Seq(Seq(ItemPassages))
  /\ \A g \in DOMAIN groups : groups[g] # <<>> /\ OneItem(items, groups[g]) /\ Fits(groups[g], g = 1)
SplitStates == [groups : Seq(Seq(ItemPassages)), omitted : BOOLEAN, said : SUBSET Reasons]
Splits(items) == {s \in SplitStates : Parted(items, s.groups) /\ (s.omitted => s.said # {})}

(* An item is in the groups, all of it.                                        *)
WholeIn(items, a, groups) ==
  \A x \in Characters(items[a].text, DOMAIN items[a].text) :
    \E g \in DOMAIN groups : \E k \in DOMAIN groups[g] :
      groups[g][k].item = a /\ x \in groups[g][k].shows

(* Passages of some items.                                                     *)
ItemChoices(items) == {c \in ItemPassages : c.item \in DOMAIN items}

(* What a selection may say that it left out for.                              *)
Quotas == {"passage_quota_reached", "source_passage_quota_reached", "context_budget_exhausted"}
SelectStates(items) == [passages : Seq(ItemChoices(items)), chars : Nat, truncated : BOOLEAN, said : SUBSET Quotas]

(* A context is made of the evidence as it is, which stays so.                 *)
PackInv ==
  pack # NoPack =>
    \E interleave \in BOOLEAN :
      pack = [context |-> PackContext(evidence, interleave), interleave |-> interleave]

(* A selection within the budgets.                                             *)
Within(items, s) ==
  /\ s.chars <= MaxContextChars
  /\ Len(s.passages) <= MaxPassages
  /\ \A k \in DOMAIN s.passages :
       /\ HeaderChars + s.passages[k].size <= MaxPassageChars
       /\ Selected(items, s, s.passages[k]) <= MaxPassagesPerSource

(* The lengths of candidates as passages, one after another.                   *)
Grown(sum, c) == sum + Fragment(c, sum = 0)

(* How far the first m candidates get: what is selected of them is some of     *)
(* those, and takes no more than all of those would.                           *)
GetFar(cs, m, F, T) ==
  \A k \in Nat : k <= m =>
    /\ Len(F[k].passages) <= k
    /\ F[k].passages = <<>> <=> k = 0
    /\ T[k] = 0 <=> k = 0
    /\ F[k].chars <= T[k]
    /\ \A p \in ToSet(F[k].passages) : \E j \in 1..k : p = cs[j]
    /\ k # m => F[k].chars + Fragment(cs[k + 1], F[k].passages = <<>>) <= T[k + 1]
    /\ k # m => cs[k + 1].size >= 1 /\ cs[k + 1].size <= Room(F[k].passages = <<>>)

(* The leads of groups, and what they take.                                    *)
LeadsOf(groups)   == FlattenSeq([g \in DOMAIN groups |-> Lead(groups[g])])
Taken(candidates) == FoldLeft(LAMBDA a, c : Grown(a, c), 0, candidates)
Apart(items, groups) ==
  \A g, h \in DOMAIN groups :
    g # h => items[groups[g][1].item].source # items[groups[h][1].item].source

-------------------------------------------------------------------------------
(* Sections that arrive whole.                                                 *)

(* The origins of several texts.                                               *)
AllOrigins(texts) == UNION {Origins(texts[k]) : k \in DOMAIN texts}

(* Every part of a page is what the page has room for of the row it is of.     *)
PartOfRow(rows, part) ==
  /\ part.source \in 1..Len(rows) /\ part.part = rows[part.source].part
  /\ Origins(part.text) \subseteq Origins(rows[part.source].text)
PartsOfRows(rows, parts) == \A i \in 1..Len(parts) : PartOfRow(rows, parts[i])

(* A page has the rows from a part on whole, all of them or those before the   *)
(* one whose number it gives.                                                  *)
HasWhole(page, rows, j) ==
  \E i \in 1..Len(page.parts) : page.parts[i].source = j /\ page.parts[i].text = rows[j].text
PageGood(page, rows, from) ==
  /\ PartsOfRows(rows, page.parts)
  /\ page.truncated = (page.nextPart # 0)
  /\ page.nextPart = 0 => \A j \in 1..Len(rows) : rows[j].part >= from => HasWhole(page, rows, j)
  /\ page.nextPart # 0 =>
       \E m \in 1..Len(rows) :
         /\ page.nextPart = rows[m].part /\ page.nextPart >= from
         /\ \A j \in 1..Len(rows) : rows[j].part >= from /\ j < m => HasWhole(page, rows, j)

(* A page that was read is what the call for it found, and what was found of   *)
(* it is held until the context is packed.                                     *)
Held == AllOrigins([i \in DOMAIN evidence |-> evidence[i].text])
HeldPage(page) == \A i \in DOMAIN page.parts : Origins(page.parts[i].text) \subseteq Held
FoundPage(page, found) ==
  \A i \in DOMAIN page.parts : i \in DOMAIN found /\ found[i].text = page.parts[i].text
SectionInv ==
  /\ IsFiniteSet(pages)
  /\ stage = "leave" /\ answer.status = "ok" /\ Asked.tool = "read_section" =>
       answer.rows = PageRows(Page(call.partFrom))
  /\ stage = "done" /\ result.status = "ok" /\ call.tool = "read_section" =>
       FoundPage(Page(call.partFrom), result.evidence)
  /\ Len(files) = 1 => \A p \in pages : HeldPage(p[2])

(* Pages that go on from one another hold all that is before the part they go  *)
(* on from.                                                                    *)
Covered(r) ==
  \A k \in DOMAIN stored : stored[k].part < r \/ r = 0 => Origins(stored[k].text) \subseteq Held

(* What is reached is found page after page.                                   *)
Beyond(parts) == parts \cup {p[2].nextPart : p \in {q \in pages : q[1] \in parts}}
===============================================================================
