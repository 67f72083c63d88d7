---------------------------- MODULE MCEvidencePath -----------------------------
EXTENDS EvidencePath

Line(kind, id, size) == [kind |-> kind, id |-> id, from |-> 0, size |-> size]
Text(id, sizes)      == [k \in DOMAIN sizes |-> Line("prose", id + k - 1, sizes[k])]
Table(id, rows)      ==
  <<Line("head", id, 1), Line("separator", id + 1, 1)>>
    \o [k \in DOMAIN rows |-> Line("row", id + 1 + k, rows[k])]

OneFile(occurrences) == <<occurrences>>
Single(blocks)       == OneFile(<<blocks>>)

(* Lines that a cut goes through, tables with and without a caption, a path    *)
(* that comes again in a file, so often that a page of it is too large a       *)
(* result, and one that two files have.                                        *)
MCSections == {
  Single(<<Text(1, <<12>>), Text(2, <<3>>), Text(3, <<8>>)>>),
  Single(<<Text(1, <<7, 9>>), Table(10, <<2>>)>>),
  Single(<<Table(10, <<2, 2, 2, 5>>)>>),
  Single(<<Joined(Text(1, <<1>>), Table(10, <<2, 2, 3>>))>>),
  Single(<<Joined(Text(1, <<1, 1>>), Table(10, <<2, 2>>))>>),
  Single(<<Text(1, <<6>>), Table(10, <<12>>)>>),
  Single(<<Text(1, <<6>>), Table(10, <<2, 3>>)>>),
  OneFile([o \in 1..8 |-> <<Text(o, <<1>>)>>]),
  OneFile(<<<<Text(1, <<12>>), Text(2, <<5>>)>>, <<Text(3, <<2>>)>>>>),
  <<<<<<Text(1, <<9>>), Text(2, <<8>>)>>>>, <<<<Text(3, <<2>>)>>>>>>}

MCEventLists   == {[k \in 1..9 |-> 1], <<39, 2>>}
MCFilingCounts == {1, 9}

MCTiers == [
  code    |-> <<{"c1"}, {"c1", "c2"}, {}, {}>>,
  shared  |-> <<{}, {"c1", "c2"}, {"c1"}, {}>>,
  worded  |-> <<{}, {}, {"c1"}, {"c2"}>>,
  outside |-> <<{}, {}, {}, {}>>]

Named(tool, company) == [tool |-> tool, valid |-> TRUE, company |-> company, partFrom |-> 1]
Plain(tool)          == Named(tool, NoCompany)

MCCalls ==
  {Plain(tool) : tool \in {"query_events", "list_sections", "read_section", "search_chunks",
                           "get_history", "list_filings"}}
    \cup {[Plain("read_section") EXCEPT !.partFrom = n] : n \in 2..3}
    \cup {Named("query_events", company) : company \in DOMAIN MCTiers}
    \cup {Plain("delete_filing"), [Plain("search_chunks") EXCEPT !.valid = FALSE]}
===============================================================================
