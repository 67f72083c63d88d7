--------------------------- MODULE DisclosureSource ---------------------------
(* OpenDartSource (sources/opendart.py): the filings the process has seen, the *)
(* lineage of corrections it derives from them, and the few documents it keeps.*)
(* The disclosure service is external: it publishes filings and marks old ones.*)
(* A call of the source runs to its end before the next (one worker thread), so*)
(* it is one step; calls that fail before they ingest anything change nothing. *)
EXTENDS Integers, SequencesExt

CONSTANTS
  NumFilings,       \* filings there will be, numbered by (rcept_dt, rcept_no)
  Corrections,      \* those whose report name says they correct one
  Report,           \* _report_chain_key of each
  NoDocument,       \* those without a document at the service
  MaxDocuments,     \* _MAX_DOCUMENT_CACHE
  MaxNewDownloads,  \* _MAX_SEARCH_NEW_DOCUMENTS
  MaxWithdrawn      \* filings that are withdrawn (bound of the model)

Filings == 1..NumFilings

ASSUME SourceAssumption ==
  /\ NumFilings \in Nat
  /\ Corrections \subseteq Filings
  /\ DOMAIN Report = Filings
  /\ NoDocument \subseteq Filings
  /\ {MaxDocuments, MaxNewDownloads} \subseteq Nat \ {0}
  /\ MaxWithdrawn \in Nat

VARIABLES
  filed,      \* number of filings published
  rm,         \* the service's marks
  seen,       \* the keys of _filings
  flags,      \* rm_flags of their rows
  row,        \* the fields of their rows that the lineage sets
  watermark,  \* _latest_watermark
  documents,  \* _documents, the next to go first: a filing and a copy of its row
  torn        \* reports whose last ingestion stopped before the lineage

upstreamVars == <<filed, rm>>
filingVars == <<seen, flags, row, watermark, torn>>
vars == <<upstreamVars, filingVars, documents>>

(* What rm_flags tells the lineage: a withdrawn (cheol) filing is treated the  *)
(* same whether it is also marked as corrected (jeong).                        *)
Marks == {"none", "corrected", "withdrawn"}
Statuses == {"original", "unresolved_external_root", "linked", "withdrawn"}
Rows == [root : Filings, latest : Filings, isLatest : BOOLEAN, status : Statuses]

(* The fields of a filing on its own, as a listing gives it.                   *)
Own(f, mark) ==
  [root |-> f, latest |-> f, isLatest |-> mark = "none",
   status |-> IF mark = "withdrawn" THEN "withdrawn"
              ELSE IF f \in Corrections THEN "unresolved_external_root" ELSE "original"]

SourceTypeOK ==
  /\ filed \in 0..NumFilings
  /\ rm \in [Filings -> Marks]
  /\ seen \subseteq 1..filed
  /\ flags \in [Filings -> Marks]
  /\ row \in [Filings -> Rows]
  /\ watermark \in {0} \cup seen
  /\ \A i \in DOMAIN documents : documents[i].filing \in seen \ NoDocument /\ documents[i].row \in Rows
  /\ Len(documents) <= MaxDocuments
  /\ \A i, j \in DOMAIN documents : documents[i].filing = documents[j].filing => i = j
  /\ torn \subseteq {Report[f] : f \in seen}

Init ==
  /\ filed = 0
  /\ rm = [f \in Filings |-> "none"]
  /\ seen = {}
  /\ flags = [f \in Filings |-> "none"]
  /\ row = [f \in Filings |-> Own(f, "none")]
  /\ watermark = 0
  /\ documents = <<>>
  /\ torn = {}

-------------------------------------------------------------------------------
(* The disclosure service.  A mark may come before or after the correction it  *)
(* announces, and is never taken back.                                         *)

Publish ==
  /\ filed < NumFilings
  /\ filed' = filed + 1
  /\ UNCHANGED <<rm, filingVars, documents>>

MarkCorrected(f) ==
  /\ f <= filed
  /\ rm[f] = "none"
  /\ rm' = [rm EXCEPT ![f] = "corrected"]
  /\ UNCHANGED <<filed, filingVars, documents>>

MarkWithdrawn(f) ==
  /\ f <= filed
  /\ rm[f] # "withdrawn"
  /\ Cardinality({g \in Filings : rm[g] = "withdrawn"}) < MaxWithdrawn
  /\ rm' = [rm EXCEPT ![f] = "withdrawn"]
  /\ UNCHANGED <<filed, filingVars, documents>>

-------------------------------------------------------------------------------
(* _apply_correction_lineage.                                                  *)

SameReport(known, f) == {g \in known : Report[g] = Report[f]}

Predecessors(f, known, marks) ==
  {p \in SameReport(known, f) : p < f /\ marks[p] = "corrected"}

Links(f, known, marks) ==
  /\ f \in known \cap Corrections
  /\ marks[f] # "withdrawn"
  /\ Predecessors(f, known, marks) # {}

StillLatest(r, root, latest) == [r EXCEPT !.root = root, !.latest = latest]   \* faulty variant

Replaced(r, root, latest) == [r EXCEPT !.root = root, !.latest = latest, !.isLatest = FALSE]

(* One turn of the loop over the corrections: f joins the chain of its         *)
(* predecessor, and the whole chain so far learns of it.                       *)
Linked(f, rows, known, marks) ==
  LET root == rows[Max(Predecessors(f, known, marks))].root
      chain == {c \in SameReport(known, f) : c < f /\ root \in {c, rows[c].root}}
  IN [c \in Filings |->
        IF c = f
        THEN [root |-> root, latest |-> f, isLatest |-> marks[f] # "corrected", status |-> "linked"]
        ELSE IF c \in chain THEN Replaced(rows[c], root, f) ELSE rows[c]]

(* Faulty variant: what an earlier call derived is left in place.              *)
KeepRows(rows, known, marks, reports) == rows

(* Every known filing of the reports concerned starts anew.                    *)
ResetRows(rows, known, marks, reports) ==
  [f \in Filings |-> IF f \in known /\ Report[f] \in reports THEN Own(f, marks[f]) ELSE rows[f]]

Turn(f, rows, known, marks, reports) ==
  IF Report[f] \in reports /\ Links(f, known, marks) THEN Linked(f, rows, known, marks) ELSE rows

Lineage(rows, known, marks, reports) ==
  LET after[f \in 0..NumFilings] ==
        IF f = 0 THEN ResetRows(rows, known, marks, reports)
        ELSE Turn(f, after[f - 1], known, marks, reports)
  IN after[NumFilings]

-------------------------------------------------------------------------------
(* _filing and _ingest_filings.                                                *)

Listed(found) ==
  /\ seen' = seen \cup found
  /\ flags' = [f \in Filings |-> IF f \in found THEN rm[f] ELSE flags[f]]
  /\ watermark' = Max(found \cup {watermark})

FreshRows(found) == [f \in Filings |-> IF f \in found THEN Own(f, rm[f]) ELSE row[f]]

ReportsOf(found) == {Report[f] : f \in found}

(* Faulty variant: only the rows of this listing are related to each other.    *)
IngestAlone(found) ==
  /\ Listed(found)
  /\ row' = Lineage(FreshRows(found), found, flags', ReportsOf(found))
  /\ torn' = torn \ ReportsOf(found)

Ingest(found) ==
  /\ Listed(found)
  /\ row' = Lineage(FreshRows(found), seen', flags', ReportsOf(found))
  /\ torn' = torn \ ReportsOf(found)

-------------------------------------------------------------------------------
(* The calls.                                                                  *)

Published == 1..filed

(* A search finds the newest of the filings of a company, a period and a type, *)
(* page by page up to its limits: any set of filings, for some such search.    *)
(* One that finds nothing, or whose pages cannot be read, changes nothing.     *)
Found == (SUBSET Published) \ {{}}

(* list_filings and query_events.                                              *)
ListFilings(found) ==
  /\ Ingest(found)
  /\ UNCHANGED <<upstreamVars, documents>>

(* A row of the listing is malformed: those before it are stored, and the call *)
(* ends in an error without a lineage.                                         *)
ListingBreaks(found) ==
  /\ Listed(found)
  /\ row' = FreshRows(found)
  /\ torn' = torn \cup ReportsOf(found)
  /\ UNCHANGED <<upstreamVars, documents>>

Kept(docs) == {docs[i].filing : i \in DOMAIN docs}

KeptRow(f) == documents[CHOOSE i \in DOMAIN documents : documents[i].filing = f].row

(* A document that is read again is the last to go.                            *)
Touch(docs, f) ==
  LET i == CHOOSE i \in DOMAIN docs : docs[i].filing = f
  IN Append(RemoveAt(docs, i), docs[i])

KeepAll(docs, f, copied) == Append(docs, [filing |-> f, row |-> copied])   \* faulty variant

(* _document, when the download succeeds.                                      *)
Keep(docs, f, copied) ==
  LET grown == Append(docs, [filing |-> f, row |-> copied])
  IN IF Len(grown) > MaxDocuments THEN Tail(grown) ELSE grown

(* A filing has a document when its archive can be read and its files have a   *)
(* section with text in them.                                                  *)
Retrievable(f) == f \notin NoDocument

(* _metadata_for_receipt: a filing already seen is taken as it is; another is  *)
(* looked for among those of its day, and ingested alone.                      *)
Metadata(f) ==
  IF f \in seen THEN UNCHANGED filingVars ELSE Ingest({f})

(* list_sections and read_section, whose download may fail.                    *)
ReadSection(f) ==
  /\ Metadata(f)
  /\ \/ f \in Kept(documents) /\ documents' = Touch(documents, f)
     \/ f \notin Kept(documents) /\ Retrievable(f) /\ documents' = Keep(documents, f, row'[f])
     \/ f \notin Kept(documents) /\ UNCHANGED documents
  /\ UNCHANGED upstreamVars

(* One candidate of search_chunks.  An error other than a missing document     *)
(* ends the search, with what it kept so far.                                  *)
Explore(search, f, rows, failing) ==
  IF search.failed THEN search
  ELSE IF f \in Kept(search.docs) THEN [search EXCEPT !.docs = Touch(@, f)]
  ELSE IF search.downloads >= MaxNewDownloads THEN search
  ELSE IF f = failing THEN [search EXCEPT !.failed = TRUE]
  ELSE [search EXCEPT !.downloads = @ + 1,
                      !.docs = IF Retrievable(f) THEN Keep(@, f, rows[f]) ELSE @]

(* Those of the filings found that a query asks for: of some reports only, and *)
(* the latest ones or all.                                                     *)
Matches(f, rows, wanted, latestOnly) ==
  Report[f] \in wanted /\ (latestOnly => rows[f].isLatest)

Candidates(found, rows) ==
  {{f \in found : Matches(f, rows, wanted, latestOnly)} :
     wanted \in SUBSET ReportsOf(found), latestOnly \in BOOLEAN}

(* The newest candidate first.                                                 *)
DocumentsAfter(docs, candidates, rows, failing) ==
  LET from[f \in 1..(NumFilings + 1)] ==
        IF f > NumFilings THEN [docs |-> docs, downloads |-> 0, failed |-> FALSE]
        ELSE IF f \in candidates THEN Explore(from[f + 1], f, rows, failing) ELSE from[f + 1]
  IN from[1].docs

(* search_chunks.                                                              *)
SearchChunks(found) ==
  /\ Ingest(found)
  /\ \E candidates \in Candidates(found, row') :
       documents' \in {DocumentsAfter(documents, candidates, row', failing) :
                          failing \in candidates \cup {0}}
  /\ UNCHANGED upstreamVars

GetHistory(f) ==
  /\ Metadata(f)
  /\ UNCHANGED <<upstreamVars, documents>>

-------------------------------------------------------------------------------

Next ==
  \/ Publish
  \/ \E f \in Filings : MarkCorrected(f) \/ MarkWithdrawn(f)
  \/ \E found \in Found :
       ListFilings(found) \/ ListingBreaks(found) \/ SearchChunks(found)
  \/ \E f \in Published : ReadSection(f) \/ GetHistory(f)

Spec == Init /\ [][Next]_vars

-------------------------------------------------------------------------------
(* What get_history answers for a filing that has been seen.                   *)

ChainOfTarget(f) == {g \in seen : row[g].root = f}   \* faulty variant: by receipt, not root

HistoryChain(f) == {g \in seen : row[g].root = row[f].root}

Verified(f) ==
  \/ Cardinality(HistoryChain(f)) > 1 /\ \E g \in HistoryChain(f) : row[g].status = "linked"
  \/ row[f].status = "withdrawn"

HistoryLatest(f) == Max({row[g].latest : g \in HistoryChain(f)})

(* What read_section cites for a document it keeps, and what any listing cites. *)
CitedAs(f) ==
  IF f \in Kept(documents)
  THEN {row[f], KeptRow(f)}
  ELSE {row[f]}

-------------------------------------------------------------------------------
(* Properties.                                                                 *)

(* The lineage in one definition: a correction follows the last earlier filing *)
(* of its report that is marked as corrected.                                  *)
RootOf(known, marks) ==
  LET root[f \in Filings] ==
        IF Links(f, known, marks) THEN root[Max(Predecessors(f, known, marks))] ELSE f
  IN root

(* In whatever portions, order and repetition listings came in, and whatever   *)
(* was derived before: the rows of a report say what the filings seen and the  *)
(* marks last seen say, once its last listing was processed to the end         *)
(* (opendart.py:1294-1369).                                                    *)
LineageFollowsObservation ==
  LET rootOf == RootOf(seen, flags)
  IN \A f \in seen :
       Report[f] \notin torn =>
         LET newest == Max({g \in seen : rootOf[g] = rootOf[f]})
         IN row[f] = [root |-> rootOf[f], latest |-> newest,
                      isLatest |-> f = newest /\ flags[f] = "none",
                      status |-> IF Links(f, seen, flags) THEN "linked" ELSE Own(f, flags[f]).status]

(* Even after an interrupted listing, no two filings of a chain are called the *)
(* latest (opendart.py:1362-1368).                                             *)
OneLatestPerChain ==
  \A f, g \in seen :
    row[f].isLatest /\ row[g].isLatest /\ row[f].root = row[g].root => f = g

(* A citation that says linked, live or copied, has a verified history with    *)
(* the filing and the latest one in it, unless a filing of the report was      *)
(* withdrawn or its last listing was interrupted (opendart.py:2055-2121).      *)
HistoryAnswersLinks ==
  \A f \in seen :
    /\ \E cited \in CitedAs(f) : cited.status = "linked"
    /\ Report[f] \notin torn
    /\ \A g \in SameReport(seen, f) : flags[g] # "withdrawn"
    => /\ Verified(f)
       /\ HistoryLatest(f) \in HistoryChain(f)
       /\ {g \in HistoryChain(f) : row[g].isLatest} \subseteq {HistoryLatest(f)}

(* More knowledge never undoes a link: only a withdrawal or an interrupted     *)
(* listing does (opendart.py:1330-1346).                                       *)
LinksPersist ==
  [][\A f \in seen :
       /\ row[f].status = "linked"
       /\ Report[f] \notin torn \cup torn'
       /\ \A g \in SameReport(seen', f) : flags'[g] # "withdrawn"
       => row'[f].status = "linked"]_vars

(* docs/OPENDART_IMPROVEMENT_ROADMAP.md:164: a withdrawn or replaced filing has *)
(* is_latest=False -- in whatever is cited of it.                              *)
(* The code does not keep it; the README, section 3, tells how.                *)
ReplacedIsNotLatest ==
  \A f \in seen : ~row[f].isLatest => \A cited \in CitedAs(f) : ~cited.isLatest
===============================================================================
