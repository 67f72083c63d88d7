----------------------------- MODULE ContextPacker -----------------------------
(* context/packer.py: evidence is put in order, split into passages that fit,  *)
(* and as many of the passages as the budgets allow become the context that    *)
(* the model answers from.                                                     *)
EXTENDS SectionText

CONSTANTS
  MaxPassageChars, MaxContextChars, MaxPassages, MaxPassagesPerSource, Overlap,
  HeaderChars,    \* the length of a passage's header
  SeparatorChars  \* what joins two passages

ASSUME PackerAssumption ==
  /\ {MaxPassageChars, MaxContextChars, MaxPassages, MaxPassagesPerSource, Overlap}
       \subseteq Nat \ {0}
  /\ {HeaderChars, SeparatorChars} \subseteq Nat
  /\ MaxPassageChars <= MaxContextChars
  /\ Overlap <= MaxPassageChars \div 2

(* A header is a few hundred characters of a passage's 2,400 (packer.py:26,    *)
(* 130-147): it does not end just where the separator of two passages would no *)
(* longer fit.  There the code stops after the first passage and does not say  *)
(* why (packer.py:237-238, 271-273).                                           *)
ASSUME HeaderAssumption ==
  HeaderChars < MaxPassageChars => HeaderChars + SeparatorChars < MaxPassageChars

(* What a passage may hold under its header: the first one of a context is not *)
(* joined to anything.                                                         *)
Room(first) ==
  LET taken == HeaderChars + (IF first THEN 0 ELSE SeparatorChars)
  IN IF taken < MaxPassageChars THEN MaxPassageChars - taken ELSE 0

-------------------------------------------------------------------------------
(* Splitting one item.  A candidate shows some of the characters of the item,  *)
(* and its size counts the header of a table that it repeats.                  *)

Newlines(t) == {LineEnd(t, i) : i \in 1..(Len(t) - 1)}

(* Prose is cut after the last blank line that the passage reaches, else after *)
(* the last newline, else where the passage is full.                           *)
Boundary(newlines, start, hardEnd) ==
  LET breaks     == {e \in (start + 1)..hardEnd : e - 1 \in newlines}
      paragraphs == {e \in breaks : /\ e - 1 > start /\ e - 2 \in newlines
                                    /\ e = hardEnd \/ e \notin newlines}
  IN IF paragraphs # {} THEN Max(paragraphs)
     ELSE IF breaks # {} THEN Max(breaks)
     ELSE hardEnd

PlainCandidates(t, from, to, first) ==
  LET RoomAt(start)  == Room(first /\ start = from)
      HardEnd(start) == Least(to, start + RoomAt(start))
      Stop(start)    == IF HardEnd(start) = to THEN to
                        ELSE Boundary(Newlines(t), start, HardEnd(start))
      Again(start)   == IF Stop(start) < HardEnd(start) THEN 0
                        ELSE Least(Overlap, Stop(start) - start - 1)
      Here(start)    == <<[shows |-> start..(Stop(start) - 1), size |-> Stop(start) - start]>>
      Walk[start \in from..to] ==
        IF start = to THEN [candidates |-> <<>>, omitted |-> FALSE]
        ELSE IF RoomAt(start) = 0 THEN [candidates |-> <<>>, omitted |-> TRUE]
        ELSE IF Stop(start) = to THEN [candidates |-> Here(start), omitted |-> FALSE]
        ELSE LET onward == Walk[Stop(start) - Again(start)]
             IN [candidates |-> Here(start) \o onward.candidates, omitted |-> onward.omitted]
  IN [candidates |-> Walk[from].candidates, omitted |-> Walk[from].omitted, said |-> {}]

Piped(t, i) == t[i].kind # "prose"

(* A table is a header, its separator and the piped lines below them.          *)
TablesAt(t) ==
  {i \in DOMAIN t : /\ i + 2 \in DOMAIN t
                    /\ t[i].kind = "head" /\ t[i + 1].kind = "separator" /\ Piped(t, i + 2)}
RowEnd(t, i) ==
  CHOOSE j \in (i + 2)..Len(t) :
    /\ \A k \in (i + 2)..j : Piped(t, k)
    /\ j = Len(t) \/ ~Piped(t, j + 1)

Characters(t, lines) == UNION {LineStart(t, i)..(LineEnd(t, i) - 1) : i \in lines}

(* The rows of a table, each whole, as many to a passage as fit below its      *)
(* header; a row that cannot be shown so is left out.                          *)
SizeUnder(t, head, rows) ==
  Chars(<<t[head], t[head + 1]>> \o [k \in DOMAIN rows |-> t[rows[k]]])
ShownUnder(t, head, rows) ==
  [shows |-> Characters(t, {head, head + 1} \cup ToSet(rows)), size |-> SizeUnder(t, head, rows)]

LeaveOut(s, why) == [s EXCEPT !.omitted = TRUE, !.said = @ \cup why]
Flush(t, head, s, rows) ==
  [s EXCEPT !.candidates = Append(s.candidates, ShownUnder(t, head, s.rows)),
            !.rows = rows, !.first = FALSE]

AddRow(t, head, s, row) ==
  IF t[row].kind # "row" THEN LeaveOut(s, {"malformed_table_row_omitted"})
  ELSE IF SizeUnder(t, head, <<row>>) > Room(s.first)
  THEN LeaveOut(s, {"oversized_table_row_omitted"})
  ELSE IF SizeUnder(t, head, Append(s.rows, row)) <= Room(s.first)
  THEN [s EXCEPT !.rows = Append(s.rows, row)]
  ELSE IF SizeUnder(t, head, <<row>>) > Room(FALSE)
  THEN LeaveOut(Flush(t, head, s, <<>>), {"oversized_table_row_omitted"})
  ELSE Flush(t, head, s, <<row>>)

TableRows(t, head, first) ==
  FoldLeft(LAMBDA s, row : AddRow(t, head, s, row),
           [candidates |-> <<>>, omitted |-> FALSE, said |-> {}, rows |-> <<>>, first |-> first],
           [k \in 1..(RowEnd(t, head) - head - 1) |-> head + k + 1])

TableCandidates(t, head, first) ==
  LET end == TableRows(t, head, first)
  IN IF end.rows = <<>> THEN end ELSE Flush(t, head, end, <<>>)

(* An item's candidates: the prose before its first table, the table, the      *)
(* prose up to the next, and so on.  What is before the cursor is done with,   *)
(* and so are the lines of a table that look like the header of another.       *)
Plus(s, more, cursor) ==
  [candidates |-> s.candidates \o more.candidates,
   omitted    |-> s.omitted \/ more.omitted,
   said       |-> s.said \cup more.said,
   cursor     |-> cursor]

AddProse(t, first, s, to) ==
  Plus(s, PlainCandidates(t, s.cursor, to, first /\ s.candidates = <<>>), to)
AddTable(t, first, s, head) ==
  Plus(s, TableCandidates(t, head, first /\ s.candidates = <<>>),
       LineEnd(t, RowEnd(t, head)) + (IF RowEnd(t, head) < Len(t) THEN 1 ELSE 0))
AddLines(t, first, s, i) ==
  IF i \in TablesAt(t) /\ s.cursor <= LineStart(t, i)
  THEN AddTable(t, first, AddProse(t, first, s, LineStart(t, i)), i)
  ELSE s

TablesAndProse(t, first) ==
  FoldLeft(LAMBDA s, i : AddLines(t, first, s, i),
           [candidates |-> <<>>, omitted |-> FALSE, said |-> {}, cursor |-> 0],
           [i \in 1..Len(t) |-> i])

TextCandidates(t, first) ==
  IF Room(first) = 0
  THEN [candidates |-> <<>>, omitted |-> TRUE, said |-> {"passage_header_exceeds_limit"}]
  ELSE AddProse(t, first, TablesAndProse(t, first), Chars(t))

-------------------------------------------------------------------------------
(* Packing.  An item is [source, text, priority, rank, ...]; a source is named *)
(* by a number, its place in the order of the identifiers.                     *)

(* Whether item a of a sequence comes before item b.                           *)
Before(items, a, b) ==
  LET x == items[a] y == items[b]
  IN \/ x.priority > y.priority
     \/ x.priority = y.priority /\ x.rank < y.rank
     \/ x.priority = y.priority /\ x.rank = y.rank /\ x.source < y.source
     \/ x.priority = y.priority /\ x.rank = y.rank /\ x.source = y.source /\ a < b

(* A set of items in order: at k the one that k - 1 others come before.        *)
Earlier(items, set, a) == {b \in set : Before(items, b, a)}
Ordered(items, set) ==
  [k \in 1..Cardinality(set) |->
     CHOOSE a \in set : Cardinality(Earlier(items, set, a)) = k - 1]

(* Of the items with one source and one text, the first in order.              *)
Alike(items, a, b) == items[b].source = items[a].source /\ items[b].text = items[a].text
Firsts(items) ==
  {a \in DOMAIN items : ~\E b \in DOMAIN items : Alike(items, a, b) /\ Before(items, b, a)}
Unique(items) == Ordered(items, Firsts(items))

(* The groups of candidates, one for each item that has any, with what the     *)
(* splitting left out.                                                         *)
Own(a, found) ==
  [k \in DOMAIN found |-> [item |-> a, shows |-> found[k].shows, size |-> found[k].size]]
AddGroup(s, a, found) ==
  [groups  |-> IF found.candidates = <<>> THEN s.groups
               ELSE Append(s.groups, Own(a, found.candidates)),
   omitted |-> s.omitted \/ found.omitted,
   said    |-> s.said \cup found.said]
AddItem(items, s, a) == AddGroup(s, a, TextCandidates(items[a].text, s.groups = <<>>))

Split(items) ==
  FoldLeft(LAMBDA s, a : AddItem(items, s, a),
           [groups |-> <<>>, omitted |-> FALSE, said |-> {}], Unique(items))

Small(group) == FoldLeft(LAMBDA n, c : n + c.size, 0, group) <= MaxPassageChars

(* What an item shows before any item shows more: a small one everything.      *)
Lead(group) == IF Small(group) THEN group ELSE SubSeq(group, 1, 1)
Rest(group) == IF Small(group) THEN <<>> ELSE Tail(group)

RoundRobin(groups) ==
  LET longest == Max({Len(groups[g]) : g \in DOMAIN groups} \cup {0})
      Round(r) == FlattenSeq([g \in DOMAIN groups |->
                                IF r <= Len(groups[g]) THEN <<groups[g][r]>> ELSE <<>>])
  IN FlattenSeq([r \in 1..longest |-> Round(r)])

(* Mutant: the items one after the other, also where they are to take turns.   *)
CandidatesInOrder(groups, interleave) == FlattenSeq(groups)

Candidates(groups, interleave) ==
  IF interleave
  THEN FlattenSeq([g \in DOMAIN groups |-> Lead(groups[g])])
         \o RoundRobin([g \in DOMAIN groups |-> Rest(groups[g])])
  ELSE FlattenSeq(groups)

Fragment(candidate, first) ==
  HeaderChars + candidate.size + (IF first THEN 0 ELSE SeparatorChars)

Say(s, why)        == [s EXCEPT !.truncated = TRUE, !.said = @ \cup why]
SameSource(items, c, d) == items[d.item].source = items[c.item].source
Selected(items, s, c) ==
  Cardinality({k \in DOMAIN s.passages : SameSource(items, c, s.passages[k])})

(* Mutant: a passage that has no place among those of its source is dropped    *)
(* and nothing is said.                                                        *)
AddPassageSilently(items, s, c) ==
  LET fragment == Fragment(c, s.passages = <<>>)
  IN IF Len(s.passages) >= MaxPassages THEN Say(s, {"passage_quota_reached"})
     ELSE IF Selected(items, s, c) >= MaxPassagesPerSource THEN s
     ELSE IF fragment > MaxPassageChars THEN Say(s, {})
     ELSE IF s.chars + fragment > MaxContextChars THEN Say(s, {"context_budget_exhausted"})
     ELSE [s EXCEPT !.passages = Append(@, c), !.chars = @ + fragment]

AddPassage(items, s, c) ==
  LET fragment == Fragment(c, s.passages = <<>>)
  IN IF Len(s.passages) >= MaxPassages THEN Say(s, {"passage_quota_reached"})
     ELSE IF Selected(items, s, c) >= MaxPassagesPerSource
     THEN Say(s, {"source_passage_quota_reached"})
     ELSE IF fragment > MaxPassageChars THEN Say(s, {})
     ELSE IF s.chars + fragment > MaxContextChars THEN Say(s, {"context_budget_exhausted"})
     ELSE [s EXCEPT !.passages = Append(@, c), !.chars = @ + fragment]

Select(items, candidates) ==
  FoldLeft(LAMBDA s, c : AddPassage(items, s, c),
           [passages |-> <<>>, chars |-> 0, truncated |-> FALSE, said |-> {}], candidates)

PackContext(items, interleave) ==
  LET repeated == Len(Unique(items)) < Len(items)
      Context(split, selected) ==
        [passages  |-> selected.passages,
         chars     |-> selected.chars,
         truncated |-> repeated \/ split.omitted \/ selected.truncated,
         said      |-> split.said \cup selected.said
                         \cup (IF repeated THEN {"duplicate_evidence_removed"} ELSE {})
                         \cup (IF selected.passages = <<>> THEN {"no_admissible_evidence"} ELSE {})]
      Chosen(split) == Context(split, Select(items, Candidates(split.groups, interleave)))
  IN Chosen(Split(items))
===============================================================================
