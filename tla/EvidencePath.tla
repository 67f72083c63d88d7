------------------------------ MODULE EvidencePath -----------------------------
(* From a call to the context: what the tools find for the calls of a question *)
(* is collected as evidence, a section that took two pages is put together     *)
(* again, and the evidence is packed for the model.                            *)
EXTENDS ToolRegistry, ContextPacker

CONSTANTS
  Calls,       \* the calls a question makes
  Sections,    \* what its filing may have under the section's path: files, in
               \* each file the occurrences of the path, of each its blocks
  EventLists,  \* the events its company may have, as sequences of sizes
  FilingCounts,
  MaxCalls,    \* bound: calls of a question
  NoPack

(* The tools that are modelled; no call that is permitted is of another.     *)
ToolsModelled == ToolNames \ {"resolve_sector", "calculate"}

ASSUME CallsAssumption ==
  /\ Calls \subseteq [tool : STRING, valid : BOOLEAN, company : DOMAIN Tiers \cup {NoCompany},
                      partFrom : Nat \ {0}]
  /\ \A c \in Calls : c.tool \in ToolNames /\ Permitted(c) => c.tool \in ToolsModelled
  /\ MaxCalls \in Nat

ASSUME WorldAssumption ==
  /\ Sections \subseteq Seq(Seq(Seq(Blocks)))
  /\ \A s \in Sections : s # <<>> /\ s[1] # <<>>
  /\ EventLists \subseteq Seq(Nat) /\ FilingCounts \subseteq Nat
  /\ {MinFrameChars, CitationChars, NoteChars, FilingChars, Limit, FrameChars, MaxResultChars}
       \subseteq Nat
  /\ {MaxChars, SearchChars, MaxEventChars} \subseteq Nat \ {0}

(* A result has room for the events that are left of a list (60,000 characters *)
(* of 65,536, tools/events.py:36-39) and for a page (12,000 at most,           *)
(* tool_registry.py:259), of whose parts, up to 3,500 characters each, no two  *)
(* neighbours could be one where the path occurs once: of those, so many fit   *)
(* on a page, and each is cited.                                               *)
MaxParts == 2 * (MaxChars \div (MaxChunkChars + 1)) + 2

ASSUME SizesAssumption ==
  /\ FrameChars + NoteChars + MaxEventChars <= MaxResultChars + MinFrameChars
  /\ \A parts \in 1..MaxParts :
       FrameChars + NoteChars + 2 * (MaxChars + 1 - parts) + 2 * CitationChars * parts
         <= MaxResultChars

VARIABLES
  evidence,  \* collected so far
  pages,     \* the pages of the section that were read, as <<first part, page>>
  calls,     \* calls made
  pack       \* the context

vars == <<worldVars, registryVars, evidence, pages, calls, pack>>

Init ==
  /\ live \in BOOLEAN
  /\ SectionInit(Sections) /\ events \in EventLists /\ filings \in FilingCounts
  /\ RegistryInit
  /\ evidence = <<>> /\ pages = {} /\ calls = 0 /\ pack = NoPack

-------------------------------------------------------------------------------

Ask ==
  /\ pack = NoPack /\ calls < MaxCalls
  /\ \E c \in Calls : Dispatch(c)
  /\ calls' = calls + 1
  /\ UNCHANGED <<worldVars, evidence, pages, pack>>

(* The registry's steps; a path may be replaced at any of them.                *)
Step ==
  /\ \/ Enter \/ Execute \/ ExecuteFails \/ Leave
     \/ \E path \in BoundPaths, release \in Releases : pack = NoPack /\ Rebind(path, release)
  /\ UNCHANGED <<worldVars, evidence, pages, calls, pack>>

Collect ==
  /\ stage = "done" /\ pack = NoPack
  /\ evidence' = evidence \o result.evidence
  /\ pages' = IF result.status = "ok" /\ call.tool = "read_section"
              THEN pages \cup {<<call.partFrom, Page(call.partFrom)>>} ELSE pages
  /\ stage' = "idle" /\ call' = NoCall /\ answer' = NoAnswer /\ result' = NoResult
  /\ naming' = FALSE
  /\ UNCHANGED <<worldVars, bound, lineage, calls, pack>>

(* The profile route replaces the evidence of two pages by whole chunks.       *)
JoinedPages ==
  IF \E first, second \in pages : first[1] = 1 /\ second[1] = first[2].nextPart
  THEN LET first  == (CHOOSE p \in pages : p[1] = 1)[2]
           second == (CHOOSE p \in pages : p[1] = first.nextPart)[2]
       IN JoinPages(first, second)
  ELSE <<>>

IsPart(item)  == \E k \in DOMAIN JoinedPages : item.source = JoinedPages[k].source
PartsHeld     == {i \in DOMAIN evidence : IsPart(evidence[i])}
OtherEvidence ==
  FoldLeft(LAMBDA kept, item : IF IsPart(item) THEN kept ELSE Append(kept, item), <<>>, evidence)

Join ==
  /\ stage = "idle" /\ pack = NoPack
  /\ JoinedPages # <<>>
  /\ LET Whole(k) == [source |-> JoinedPages[k].source, text |-> JoinedPages[k].text,
                      priority |-> 1, rank |-> k,
                      from |-> UNION {evidence[i].from : i \in PartsHeld}]
     IN /\ evidence' = [k \in DOMAIN JoinedPages |-> Whole(k)] \o OtherEvidence
        /\ evidence' # evidence
  /\ UNCHANGED <<worldVars, registryVars, pages, calls, pack>>

Pack ==
  /\ stage = "idle" /\ pack = NoPack
  /\ \E interleave \in BOOLEAN :
       pack' = [context |-> PackContext(evidence, interleave), interleave |-> interleave]
  /\ UNCHANGED <<worldVars, registryVars, evidence, pages, calls>>

Next == Ask \/ Step \/ Collect \/ Join \/ Pack
Spec == Init /\ [][Next]_vars

-------------------------------------------------------------------------------
(* The types of what the registry holds and of what is collected.              *)
EvidenceTypeOK ==
  /\ lineage \in Releases /\ bound \in [BoundPaths -> Releases]
  /\ call \in Calls \cup {NoCall} /\ naming \in BOOLEAN
  /\ stage \in Stages
  /\ \A i \in DOMAIN evidence :
       /\ evidence[i].source \in Nat /\ evidence[i].rank \in Nat \ {0}
       /\ \A k \in DOMAIN evidence[i].text : evidence[i].text[k].kind \in Kinds
  /\ calls \in 0..MaxCalls

(* A context stays within every budget of the packer: the characters of it,    *)
(* its passages, those of one source, and the characters of each passage with  *)
(* its header (packer.py:409-442).                                             *)
ContextFits ==
  pack # NoPack =>
    LET passages == pack.context.passages
    IN /\ pack.context.chars <= MaxContextChars
       /\ Len(passages) <= MaxPassages
       /\ \A k \in DOMAIN passages :
            /\ HeaderChars + passages[k].size <= MaxPassageChars
            /\ Selected(evidence, pack.context, passages[k]) <= MaxPassagesPerSource

(* All the evidence of a question was read from the release that the registry  *)
(* was bound to, whatever is replaced while a tool runs                        *)
(* (tool_registry.py:677-679, 703-705).                                        *)
OneLineage == \A i \in DOMAIN evidence : evidence[i].from \subseteq {lineage}

(* What a tool found gets through the registry's checks: no citation of it is  *)
(* refused, and neither a page of a path that occurs once nor more than one    *)
(* event, cut to size where they are read, is too large a result               *)
(* (tool_registry.py:542, events.py:43).                                       *)
AnswersArrive ==
  stage = "done" /\ answer # NoAnswer /\ answer.status = "ok" =>
    \/ result.status = "ok"
    \/ result.code = "lineage_changed"
    \/ /\ result.code = "result_too_large"
       /\ call.tool = "read_section" => ~Once
       /\ call.tool = "query_events" /\ ~live => Len(answer.rows) = 1

(* What item i shows in the context.                                           *)
ShownOf(i) ==
  UNION {p.shows : p \in {q \in ToSet(pack.context.passages) :
                            /\ evidence[q.item].source = evidence[i].source
                            /\ evidence[q.item].text = evidence[i].text}}

(* No evidence is left out of a context that does not say so, and say why      *)
(* (packer.py:289-429).                                                        *)
ShownOrSaid ==
  pack # NoPack =>
    \/ pack.context.truncated /\ pack.context.said # {}
    \/ \A i \in DOMAIN evidence :
         Characters(evidence[i].text, DOMAIN evidence[i].text) \subseteq ShownOf(i)

(* The parts from which the pages that were read go on.                        *)
Reached ==
  LET Reach[n \in 0..Cardinality(pages)] ==
        IF n = 0 THEN {1}
        ELSE Reach[n - 1] \cup {p[2].nextPart : p \in {q \in pages : q[1] \in Reach[n - 1]}}
  IN Reach[Cardinality(pages)]

OriginsShown ==
  UNION {LET t == evidence[i].text
         IN UNION {{<<t[k].id, t[k].from + c - LineStart(t, k)>> :
                      c \in ShownOf(i) \cap (LineStart(t, k)..(LineEnd(t, k) - 1))} :
                   k \in DOMAIN t} :
         i \in DOMAIN evidence}

(* All that has the section's path.                                            *)
BlocksRead ==
  UNION {UNION {ToSet(files[f][o]) : o \in DOMAIN files[f]} : f \in DOMAIN files}

(* A section that was read page by page to its end, 0 or the part that a page  *)
(* says to go on from, is in the context, every line of every block of every   *)
(* occurrence of its path in a file, unless the context says that it left      *)
(* something out (periodic.py:230, filings.py:93, open_profile_route.py:209,   *)
(* packer.py:289).                                                             *)
SectionArrives ==
  pack # NoPack /\ ~pack.context.truncated /\ 0 \in Reached /\ Len(files) = 1 =>
    UNION {Origins(block) : block \in BlocksRead} \subseteq OriginsShown

(* open_profile_route.py:205: a second page closes the section, and a gap is   *)
(* never spliced: whatever files have the path, two pages that were put        *)
(* together are all of it.                                                     *)
(* The code does not keep it where more than one file has the path; the        *)
(* README, section 3, tells how.                                               *)
JoinedPagesHaveNoGap ==
  JoinedPages # <<>> =>
    UNION {Origins(block) : block \in BlocksRead}
      \subseteq UNION {Origins(JoinedPages[k].text) : k \in DOMAIN JoinedPages}

(* Interleaved, no item is crowded out by the length of another: each shows a  *)
(* passage when there is room for a first one of every item and for all of the *)
(* small ones (packer.py:367-381).                                             *)
EveryItemHeard ==
  pack # NoPack /\ pack.interleave =>
    LET groups == Split(evidence).groups
        First(g) == IF Small(groups[g]) THEN groups[g] ELSE SubSeq(groups[g], 1, 1)
        leads  == FlattenSeq([g \in DOMAIN groups |-> First(g)])
        taken  == FoldLeft(LAMBDA n, c : n + Fragment(c, n = 0), 0, leads)
        Owner(g) == groups[g][1].item
    IN /\ Len(leads) <= MaxPassages
       /\ taken <= MaxContextChars
       /\ \A g, h \in DOMAIN groups : g # h => evidence[Owner(g)].source # evidence[Owner(h)].source
       => \A g \in DOMAIN groups :
            \E p \in ToSet(pack.context.passages) : p.item = Owner(g)

(* tool_registry.py:691: a company reference that is ambiguous ends the call   *)
(* with that, and never falls through to a hard error.                         *)
(* The code does not keep it; the README, section 3, tells how.                *)
AmbiguousNamesReachTheCaller ==
  stage = "done" /\ naming /\ answer # NoAnswer /\ answer.status = "ambiguous" /\ Intact =>
    result.status = "ambiguous"

(* docs/TECHNICAL_PROPOSAL.md:200: the rows of a table are packed whole only,  *)
(* under its header.                                                           *)
OnlyWholeRows ==
  pack # NoPack =>
    \A p \in ToSet(pack.context.passages) :
      LET t == evidence[p.item].text
      IN \A k \in DOMAIN t :
           t[k].kind = "row" /\ p.shows \cap Characters(t, {k}) # {} =>
             \E block \in BlocksRead : t[k] \in ToSet(block)
===============================================================================
