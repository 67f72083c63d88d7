---------------------------- MODULE DisclosureTools ----------------------------
(* The tools behind the registry: tools/*.py over the pipeline release,        *)
(* retrieval/fts.py over its index, and the readers of the OpenDART source,    *)
(* which answer in the same form.                                              *)
(*                                                                             *)
(* A response is [tool, status, code, rows, said, from]: what it found, the    *)
(* length of its limitations, and the releases it was read from.               *)
EXTENDS SectionText

CONSTANTS
  Tiers,          \* what a name matches: by code, by alias, by words, inside a run of letters
  MaxEventChars,  \* what query_events leaves itself of a result
  MinFrameChars,  \* what it counts for all but the events
  CitationChars,  \* what a citation takes
  NoteChars,      \* what a limitation takes
  FilingChars,    \* what a filing takes in a listing
  Limit,          \* rows asked for
  MaxChars,       \* characters of a page asked for
  SearchChars,    \* the longest piece of text a live search returns
  NoCompany

VARIABLES
  live,      \* the backend is the OpenDART source
  files,     \* what has the path of the section that is read: files, in each the
             \* occurrences of the path, of each the blocks
  stored,    \* the rows that were made of them
  events,    \* the sizes of the company's events, newest first
  filings    \* the number of its filings

worldVars == <<live, files, stored, events, filings>>

-------------------------------------------------------------------------------

Response(tool, status, rows, said, from) ==
  [tool |-> tool, status |-> status, code |-> "tool_rejected_arguments", rows |-> rows,
   said |-> said, from |-> from]

Found(tool, rows, said, from) ==
  Response(tool, IF rows = <<>> THEN "not_found" ELSE "ok", rows, said, from)

(* An OpenDART call that failed, with a code the registry knows.               *)
Failure(c) == [Response(c.tool, "error", <<>>, 0, {}) EXCEPT !.code = "backend_service_error"]

Row(source, text, cite, size) == [source |-> source, text |-> text, cite |-> cite, size |-> size]

(* A row that is rendered as one line.                                         *)
Record(source, cite, size) ==
  Row(source, <<[kind |-> "prose", id |-> source, from |-> 0, size |-> size]>>, cite, size)

(* A name is looked up in four ways, each when the one before found nothing.   *)
Matches(name) ==
  LET tiers == Tiers[name]
      hits  == {i \in DOMAIN tiers : tiers[i] # {}}
  IN IF hits = {} THEN {} ELSE tiers[Min(hits)]

ResolveCompany(name) ==
  LET found == Matches(name)
      rows  == [k \in 1..Cardinality(found) |-> Record(k, "none", 1)]
  IN CASE found = {}             -> Response("resolve_company", "not_found", <<>>, NoteChars, {})
       [] Cardinality(found) > 1 -> Response("resolve_company", "ambiguous", rows, NoteChars, {})
       [] OTHER                  -> Response("resolve_company", "ok", rows, 0, {})

(* What rows take: a citation is rendered in its row and once more after them. *)
Listed(rows) == FoldLeft(LAMBDA n, row : n + row.size + 2 * CitationChars, 0, rows)

(* Mutant: a citation is counted once.                                         *)
FitEventsOnce(rows) ==
  LET Running(k) == MinFrameChars + Listed(SubSeq(rows, 1, k)) - k * CitationChars
      over == {k \in 2..Len(rows) : Running(k) > MaxEventChars}
  IN IF over = {} THEN rows ELSE SubSeq(rows, 1, Min(over) - 1)

(* Events are dropped from the oldest until the rest fit, but never the first. *)
FitEvents(rows) ==
  LET over == {k \in 2..Len(rows) : MinFrameChars + Listed(SubSeq(rows, 1, k)) > MaxEventChars}
  IN IF over = {} THEN rows ELSE SubSeq(rows, 1, Min(over) - 1)

QueryEvents(from) ==
  LET all == [k \in 1..Least(Limit, Len(events)) |-> Record(200 + k, "labelled", events[k])]
      fit == IF live THEN all ELSE FitEvents(all)
  IN Found("query_events", fit, IF Len(fit) < Len(all) THEN NoteChars ELSE 0, from)

ListFilings(from) ==
  Found("list_filings", [k \in 1..Least(Limit, filings) |-> Record(300 + k, "unlabelled", FilingChars)], 0, from)

GetHistory(from) ==
  Found("get_history", [k \in 1..filings |-> Record(400 + k, "unlabelled", FilingChars)], 0, from)

ListSections(from) == Found("list_sections", <<Record(500, "labelled", 1)>>, 0, from)

-------------------------------------------------------------------------------
(* The section's text.                                                         *)

(* The rows of a section are made when a release is built, or when the         *)
(* OpenDART source first reads the document: there a path that comes again     *)
(* gets a name of its own.                                                     *)
SectionInit(sections) ==
  /\ \E section \in sections : files = IF live THEN <<<<section[1][1]>>>> ELSE section
  /\ stored = Rows(files)

Once == Len(files) = 1 /\ Len(files[1]) = 1

ChunkRow(source, text) == Row(source, text, "labelled", Chars(text))

Page(partFrom) == ReadSection(stored, partFrom, MaxChars)

(* A page's text is in its result twice, by part and as a whole.               *)
PageRows(page) ==
  [k \in DOMAIN page.parts |->
     [ChunkRow(page.parts[k].source, page.parts[k].text) EXCEPT !.size = 2 * @]]

ReadPage(partFrom, from) ==
  Found("read_section", PageRows(Page(partFrom)),
        IF Page(partFrom).truncated THEN NoteChars ELSE 0, from)

(* A live search returns pieces of a chunk: its lines, the long ones cut, put  *)
(* together while they fit.                                                    *)
Slices(line) ==
  LET n == (line.size + SearchChars - 1) \div SearchChars
      Slice(k) ==
        LET skipped == (k - 1) * SearchChars
            size    == Least(SearchChars, line.size - skipped)
        IN IF k = 1 THEN CutLine(line, size)
           ELSE [kind |-> "prose", id |-> line.id, from |-> line.from + skipped, size |-> size]
  IN [k \in 1..n |-> Slice(k)]

AddLine(pieces, line) ==
  IF pieces # <<>> /\ Chars(Append(Last(pieces), line)) <= SearchChars
  THEN [pieces EXCEPT ![Len(pieces)] = Append(@, line)]
  ELSE Append(pieces, <<line>>)

SearchSubchunks(text) ==
  LET lines == FlattenSeq([i \in DOMAIN text |-> Slices(text[i])])
  IN IF Chars(text) <= SearchChars THEN <<text>> ELSE FoldLeft(AddLine, <<>>, lines)

SearchRows ==
  LET pieces == [p \in DOMAIN stored |->
                   LET subchunks == SearchSubchunks(stored[p].text)
                   IN [k \in DOMAIN subchunks |-> ChunkRow(10 * p + k, subchunks[k])]]
  IN IF live THEN FlattenSeq(pieces)
     ELSE [p \in DOMAIN stored |-> ChunkRow(p, stored[p].text)]

(* The index returns whole chunks of the release it was built from, and none   *)
(* when one of them is not in the release that is read.                        *)
SearchChunks(bound) ==
  LET from == {bound["pipeline_release"], bound["retrieval_release"]}
  IN IF ~live /\ Cardinality(from) > 1
     THEN Response("search_chunks", "error", <<>>, NoteChars, from)
     ELSE Found("search_chunks", SubSeq(SearchRows, 1, Least(Limit, Len(SearchRows))),
                IF ~live /\ Limit < Len(SearchRows) THEN NoteChars ELSE 0, from)

Respond(c, bound) ==
  LET from == {bound["db_path"]}
  IN CASE c.tool = "resolve_company" -> ResolveCompany(c.company)
       [] c.tool = "query_events"    -> QueryEvents(from)
       [] c.tool = "list_filings"    -> ListFilings(from)
       [] c.tool = "list_sections"   -> ListSections(from)
       [] c.tool = "read_section"    -> ReadPage(c.partFrom, from)
       [] c.tool = "search_chunks"   -> SearchChunks(bound)
       [] c.tool = "get_history"     -> GetHistory(from)
===============================================================================
