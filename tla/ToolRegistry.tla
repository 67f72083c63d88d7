------------------------------ MODULE ToolRegistry -----------------------------
(* tool_registry.py: the closed set of tools, bound to one pipeline release    *)
(* and its retrieval index.  A call is checked, a company named in it is       *)
(* resolved, the tool runs between two looks at what the backends are bound    *)
(* to, and its answer is checked and turned into evidence.                     *)
EXTENDS DisclosureTools

CONSTANTS
  Releases,        \* releases a path may lead to
  NoCall, NoAnswer, NoResult,
  MaxResultChars,  \* the size of the largest result
  FrameChars       \* what a result takes besides its rows, citations and limitations

ToolNames == {"resolve_company", "resolve_sector", "query_events", "list_filings",
              "list_sections", "read_section", "search_chunks", "get_history", "calculate"}
GroundedTools == ToolNames \ {"resolve_company", "resolve_sector", "calculate"}
ByCompany     == {"query_events", "list_filings"}
Structured    == {"list_filings", "get_history"}

VARIABLES
  bound,    \* the release each path of the backends leads to now
  lineage,  \* the release the registry was bound to
  call,     \* the call in progress
  naming,   \* its company is being resolved
  stage,    \* how far it is
  answer,   \* what the backend answered
  result    \* what the caller gets

registryVars == <<bound, lineage, call, naming, stage, answer, result>>

BoundPaths == {"release", "db_path", "pipeline_release", "retrieval_release"}
Stages     == {"idle", "enter", "read", "leave", "done"}

(* The index must have been built from the release that the tools read.        *)
RegistryInit ==
  /\ lineage \in Releases
  /\ bound = [path \in BoundPaths |-> lineage]
  /\ call = NoCall /\ naming = FALSE /\ stage = "idle"
  /\ answer = NoAnswer /\ result = NoResult

-------------------------------------------------------------------------------
(* Results.                                                                    *)

Error(code) == [status |-> "error", code |-> code, rows |-> <<>>, evidence |-> <<>>]

(* Where a row has no section of its own, its citation gets the tool's label.  *)
Labelled(row, tool) ==
  IF tool \in Structured /\ row.cite = "unlabelled" THEN [row EXCEPT !.cite = "labelled"] ELSE row

Canonical(response) ==
  IF response.status = "ok"
  THEN [response EXCEPT !.rows = [k \in DOMAIN @ |-> Labelled(@[k], response.tool)]]
  ELSE response

(* Every row of a grounded tool that returns any carries its own citation.     *)
Embedded(response) ==
  response.tool \in GroundedTools =>
    \A k \in DOMAIN response.rows : response.rows[k].cite # "none"

(* Evidence has no empty field, so each citation must name a section.          *)
CanBeEvidence(response) ==
  response.status = "ok" /\ response.tool \in GroundedTools =>
    \A k \in DOMAIN response.rows : response.rows[k].cite = "labelled"

Rendered(response) == FrameChars + response.said + Listed(response.rows)

Evidence(response) ==
  IF response.status # "ok" \/ response.tool \notin GroundedTools THEN <<>>
  ELSE [k \in DOMAIN response.rows |->
          [source |-> response.rows[k].source, text |-> response.rows[k].text,
           priority |-> 1, rank |-> k, from |-> response.from]]

Normalize(raw) ==
  LET response == Canonical(raw)
  IN IF raw.status = "error" THEN Error(raw.code)
     ELSE IF ~Embedded(response) THEN Error("malformed_tool_result")
     ELSE IF Rendered(response) > MaxResultChars THEN Error("result_too_large")
     ELSE IF ~CanBeEvidence(response) THEN Error("malformed_tool_result")
     ELSE [status |-> raw.status, code |-> "none", rows |-> response.rows,
           evidence |-> Evidence(response)]

-------------------------------------------------------------------------------
(* A dispatch.                                                                 *)

Intact == \A path \in BoundPaths : bound[path] = lineage

Finish(outcome) == result' = outcome /\ stage' = "done"

(* The arguments are those of the tool's schema and agree with each other: a   *)
(* company by code or name, a filing by one identifier, dates and amounts in   *)
(* order, no path of the file system.                                          *)
Permitted(c) == c.valid

Dispatch(c) ==
  /\ stage = "idle"
  /\ call' = c
  /\ naming' = (c.tool \in ByCompany /\ c.company # NoCompany)
  /\ answer' = NoAnswer
  /\ IF c.tool \notin ToolNames THEN Finish(Error("unknown_tool"))
     ELSE IF ~Permitted(c) THEN Finish(Error("invalid_arguments"))
     ELSE stage' = "enter" /\ result' = NoResult
  /\ UNCHANGED <<bound, lineage>>

(* The first look at the bindings.                                             *)
Enter ==
  /\ stage = "enter"
  /\ IF Intact THEN stage' = "read" /\ UNCHANGED result ELSE Finish(Error("lineage_changed"))
  /\ UNCHANGED <<bound, lineage, call, naming, answer>>

(* What runs in between: the resolution of the company first, if one is named. *)
Asked == IF naming THEN [call EXCEPT !.tool = "resolve_company"] ELSE call

Execute ==
  /\ stage = "read"
  /\ \/ answer' = Respond(Asked, bound)
     \/ live /\ answer' = Failure(Asked)
  /\ stage' = "leave"
  /\ UNCHANGED <<bound, lineage, call, naming, result>>

(* A backend that raises: a database that cannot be read, for one.             *)
ExecuteFails ==
  /\ stage = "read"
  /\ Finish(Error("tool_execution_failed"))
  /\ answer' = NoAnswer
  /\ UNCHANGED <<bound, lineage, call, naming>>

(* Mutant: the backends are looked at before a tool runs and not after.        *)
LeaveUnlooked ==
  /\ stage = "leave"
  /\ IF naming /\ answer.status = "ok"
     THEN stage' = "enter" /\ naming' = FALSE /\ UNCHANGED result
     ELSE Finish(Normalize([answer EXCEPT !.tool = call.tool])) /\ UNCHANGED naming
  /\ UNCHANGED <<bound, lineage, call, answer>>

(* The second look.  A company that was resolved is put in the arguments and   *)
(* the tool itself runs; one that was not ends the call with the resolution's  *)
(* own answer, as if the tool had given it.                                    *)
Leave ==
  /\ stage = "leave"
  /\ IF ~Intact THEN Finish(Error("lineage_changed")) /\ UNCHANGED naming
     ELSE IF naming /\ answer.status = "ok"
     THEN stage' = "enter" /\ naming' = FALSE /\ UNCHANGED result
     ELSE Finish(Normalize([answer EXCEPT !.tool = call.tool])) /\ UNCHANGED naming
  /\ UNCHANGED <<bound, lineage, call, answer>>

(* Something else replaces what one path leads to, for good.                   *)
Rebind(path, release) ==
  /\ ~live
  /\ Intact
  /\ release # lineage
  /\ bound' = [bound EXCEPT ![path] = release]
  /\ UNCHANGED <<lineage, call, naming, stage, answer, result>>
===============================================================================
