-------------------------------- MODULE Releases -------------------------------
(* The publication chain: the tools that audit the corpus, build the pipeline  *)
(* release and its retrieval index, choose evaluation cases, export and apply  *)
(* their review and measure baselines, and the service that reads the result.  *)
(*                                                                             *)
(* A store keeps immutable releases, directories that are renamed into place   *)
(* whole and are named by a hash of their contents, and a pointer to one of    *)
(* them; a release is therefore modelled by its contents, which is the lineage *)
(* that it was built from.  The evaluation cases are kept differently: their   *)
(* files are replaced in place, one after the other.  Nothing locks a store:   *)
(* the tools run side by side, and one may fail or be killed at any step.      *)
EXTENDS Naturals, Sequences, FiniteSets

CONSTANTS
  Builders,     \* processes that run the tools
  Tools,        \* the tools they run
  MaxRevision,  \* bound: revisions of the corpus
  MaxJobs,      \* bound: tools started
  Nothing       \* what has not been built or read

VARIABLES
  corpus,    \* revision of the corpus on disk
  damaged,   \* a document of it cannot be parsed
  releases,  \* the complete releases of each store
  pointer,   \* the release that current.json of each store names
  live,      \* the files of the evaluation cases: of which revision each is
  manifest,  \* the manifest of the evaluation cases
  sheet,     \* the review sheet: the cases it lists, and whether it is decided
  job,       \* the tool each process runs, its place in it and what it has read
  started    \* tools started so far

stores == <<releases, pointer>>
cases  == <<live, manifest, sheet>>
vars   == <<corpus, damaged, stores, cases, job, started>>

Stores == {"audit", "pipeline", "index", "review", "baseline", "agent"}
Splits == {"development", "regression", "holdout"}

-------------------------------------------------------------------------------
(* The steps of the tools, each an action below.                               *)

AuditCourse    == <<"corpus", "look", "rename", "point">>
PipelineCourse == <<"corpus", "chunks", "qa", "audit", "look", "rename", "point">>
IndexCourse    == <<"pipeline", "look", "rename", "unchanged", "point", "pipeline", "index">>
ServiceCourse  == <<"pipeline", "index", "serve">>

LoadCases == <<"cases", "load_development", "load_regression">>

CandidateCourse == <<"pipeline", "development", "regression", "holdout", "new_sheet",
                     "manifest">>
ExportCourse    == LoadCases \o <<"queue">>
ValidateCourse  == LoadCases \o <<"pipeline", "queue">>
ReviewCourse    == LoadCases \o <<"decisions", "look", "rename", "point">>

LoadLineage == LoadCases \o <<"review", "pipeline", "index">>

BaselineCourse     == LoadLineage \o <<"look", "rename", "point">>
AgentCourse        == LoadLineage \o <<"look", "rename", "point">>
AuthenticateCourse == <<"report">> \o LoadLineage \o <<"authentic">>

Course == [
  audit |-> AuditCourse, pipeline |-> PipelineCourse, index |-> IndexCourse,
  service |-> ServiceCourse, candidates |-> CandidateCourse, export |-> ExportCourse,
  validate |-> ValidateCourse, review |-> ReviewCourse, baseline |-> BaselineCourse,
  agent |-> AgentCourse, authenticate |-> AuthenticateCourse]

ASSUME ToolsAssumption == Tools \subseteq DOMAIN Course

Read == [corpus |-> Nothing, failures |-> FALSE, audit |-> Nothing,
         pipeline |-> Nothing, index |-> Nothing, cases |-> Nothing, loaded |-> {},
         rows |-> Nothing, review |-> Nothing, report |-> Nothing]

Idle == [tool |-> Nothing, at |-> 0, read |-> Read]

-------------------------------------------------------------------------------
(* Contents.                                                                   *)

Revisions == 0..MaxRevision

AuditReleases    == [corpus : Revisions]
PipelineReleases == [corpus : Revisions, failures : BOOLEAN, audit : AuditReleases]
IndexReleases    == [pipeline : PipelineReleases]
Manifests        == [pipeline : PipelineReleases, files : Revisions]
ReviewReleases   == [cases : Manifests, rows : Revisions]
BaselineReleases == [cases : Manifests, review : ReviewReleases,
                     pipeline : PipelineReleases, index : IndexReleases]

ReleasesOf(store) ==
  CASE store = "audit"    -> AuditReleases
    [] store = "pipeline" -> PipelineReleases
    [] store = "index"    -> IndexReleases
    [] store = "review"   -> ReviewReleases
    [] OTHER              -> BaselineReleases

Sheets == [rows : Revisions, decided : BOOLEAN]

\* What a baseline says it was measured on.
Lineage(r) == [cases |-> r.cases, review |-> r.review, pipeline |-> r.pipeline,
               index |-> r.index]

Product(tool, r) ==
  [audit    |-> [corpus |-> r.corpus],
   pipeline |-> [corpus |-> r.corpus, failures |-> r.failures, audit |-> r.audit],
   index    |-> [pipeline |-> r.pipeline],
   review   |-> [cases |-> r.cases, rows |-> r.rows],
   baseline |-> Lineage(r),
   agent    |-> Lineage(r)][tool]

-------------------------------------------------------------------------------
Running(b) == job[b].at > 0
Tool(b)    == job[b].tool
Made(b)    == Product(Tool(b), job[b].read)

At(b, step) == Running(b) /\ Course[Tool(b)][job[b].at] = step

Last(b) == job[b].at = Len(Course[Tool(b)])

\* The process has taken the step in this run of its tool.
Passed(b, step) == \E i \in 1..(job[b].at - 1) : Course[Tool(b)][i] = step

\* The tool goes n steps on, with what it has read by then; after its last step
\* it is through.
Proceed(b, n, read) ==
  job' = [job EXCEPT ![b] =
            IF Last(b) THEN Idle ELSE [tool |-> Tool(b), at |-> job[b].at + n, read |-> read]]

\* The tool raises: its stage is removed and nothing else changes.
Refuse(b) == job' = [job EXCEPT ![b] = Idle]

Replace(b, store) == pointer' = [pointer EXCEPT ![store] = Made(b)]

-------------------------------------------------------------------------------
(* The steps of a tool that publishes a release.                               *)

\* The inputs on disk are read; the corpus does not change meanwhile.
ReadCorpus(b) ==
  /\ At(b, "corpus")
  /\ Proceed(b, 1, [job[b].read EXCEPT !.corpus = corpus])
  /\ UNCHANGED <<stores, cases>>

\* A document that fails is listed and the others are built.
BuildChunks(b) ==
  /\ At(b, "chunks")
  /\ Proceed(b, 1, [job[b].read EXCEPT !.failures = damaged])
  /\ UNCHANGED <<stores, cases>>

\* Mutant: the counts are compared, the list of failures is not.
QaOfCounts(b) == TRUE

QaPasses(b) == ~job[b].read.failures

CheckQuality(b) ==
  /\ At(b, "qa")
  /\ IF QaPasses(b) THEN Proceed(b, 1, job[b].read) ELSE Refuse(b)
  /\ UNCHANGED <<stores, cases>>

\* The pipeline takes down which audit is current, when it is done building.
ReadAudit(b) ==
  /\ At(b, "audit")
  /\ IF pointer.audit = Nothing
     THEN Refuse(b)
     ELSE Proceed(b, 1, [job[b].read EXCEPT !.audit = pointer.audit])
  /\ UNCHANGED <<stores, cases>>

\* Mutant: the release that is there may have other contents.
LookOncePublished(b) ==
  /\ At(b, "look")
  /\ Proceed(b, IF pointer[Tool(b)] # Nothing THEN 2 ELSE 1, job[b].read)
  /\ UNCHANGED <<stores, cases>>

\* A release of these contents may be there; it is used, and the stage removed.
Look(b) ==
  /\ At(b, "look")
  /\ Proceed(b, IF Made(b) \in releases[Tool(b)] THEN 2 ELSE 1, job[b].read)
  /\ UNCHANGED <<stores, cases>>

\* The stage becomes the release, unless somebody else's did since the look:
\* a directory is not renamed onto a full one.
Rename(b) ==
  /\ At(b, "rename")
  /\ IF Made(b) \in releases[Tool(b)]
     THEN Refuse(b) /\ UNCHANGED releases
     ELSE /\ releases' = [releases EXCEPT ![Tool(b)] = @ \union {Made(b)}]
          /\ Proceed(b, 1, job[b].read)
  /\ UNCHANGED <<pointer, cases>>

\* The index is pointed to only if the pipeline has not moved meanwhile.
Unchanged(b) ==
  /\ At(b, "unchanged")
  /\ IF pointer.pipeline = job[b].read.pipeline
     THEN Proceed(b, 1, job[b].read)
     ELSE Refuse(b)
  /\ UNCHANGED <<stores, cases>>

Point(b) ==
  /\ At(b, "point")
  /\ Replace(b, Tool(b))
  /\ Proceed(b, 1, job[b].read)
  /\ UNCHANGED <<releases, cases>>

-------------------------------------------------------------------------------
(* The steps of a reader of releases: the service at its start, the check of   *)
(* an index that was just published, and the measurement of a baseline.        *)

\* Mutant: the current pipeline, whatever the cases were chosen from.
ServesAnyCases(b, p) == TRUE

\* Cases are good for the pipeline that they were chosen from, only.
ServesCases(b, p) == Passed(b, "cases") => job[b].read.cases.pipeline = p

LoadPipeline(b) ==
  /\ At(b, "pipeline")
  /\ IF pointer.pipeline # Nothing /\ ServesCases(b, pointer.pipeline)
     THEN Proceed(b, 1, [job[b].read EXCEPT !.pipeline = pointer.pipeline])
     ELSE Refuse(b)
  /\ UNCHANGED <<stores, cases>>

\* Mutant: the index's lineage is not compared.
AnyIndex(i, p) == i # Nothing

\* An index is good for the pipeline release that it was built from, only.
FitsPipeline(i, p) == i # Nothing /\ i.pipeline = p

LoadIndex(b) ==
  /\ At(b, "index")
  /\ IF FitsPipeline(pointer.index, job[b].read.pipeline)
     THEN Proceed(b, 1, [job[b].read EXCEPT !.index = pointer.index])
     ELSE Refuse(b)
  /\ UNCHANGED <<stores, cases>>

-------------------------------------------------------------------------------
(* Evaluation cases: built from a pipeline and replaced file by file, the      *)
(* manifest last; the new review sheet is blank.                               *)

NewSheet(revision) == sheet' = [rows |-> revision, decided |-> FALSE]

ReplaceSplit(b, split) ==
  /\ At(b, split)
  /\ live' = [live EXCEPT ![split] = job[b].read.pipeline.corpus]
  /\ Proceed(b, 1, job[b].read)
  /\ UNCHANGED <<stores, manifest, sheet>>

ReplaceSheet(b) ==
  /\ At(b, "new_sheet")
  /\ NewSheet(job[b].read.pipeline.corpus)
  /\ Proceed(b, 1, job[b].read)
  /\ UNCHANGED <<stores, live, manifest>>

ReplaceManifest(b) ==
  /\ At(b, "manifest")
  /\ manifest' = [pipeline |-> job[b].read.pipeline, files |-> job[b].read.pipeline.corpus]
  /\ Proceed(b, 1, job[b].read)
  /\ UNCHANGED <<stores, live, sheet>>

-------------------------------------------------------------------------------
(* The cases are loaded by their manifest; a file that it does not describe is *)
(* refused.                                                                    *)

LoadManifest(b) ==
  /\ At(b, "cases")
  /\ IF manifest = Nothing
     THEN Refuse(b)
     ELSE Proceed(b, 1, [job[b].read EXCEPT !.cases = manifest])
  /\ UNCHANGED <<stores, cases>>

\* Mutant: the files' descriptors are not compared.
Undescribed(b, revision) == TRUE

Described(b, revision) == revision = job[b].read.cases.files

LoadSplit(b, split, step) ==
  /\ At(b, step)
  /\ IF Described(b, live[split])
     THEN Proceed(b, 1, [job[b].read EXCEPT !.loaded = @ \union {live[split]}])
     ELSE Refuse(b)
  /\ UNCHANGED <<stores, cases>>

\* The queue for the reviewers replaces the sheet, whatever they wrote in it.
WriteQueue(b) ==
  /\ At(b, "queue")
  /\ NewSheet(job[b].read.cases.files)
  /\ Proceed(b, 1, job[b].read)
  /\ UNCHANGED <<stores, live, manifest>>

\* Every row is the one of the cases loaded, and every case is decided.
Decided(b) ==
  /\ sheet # Nothing
  /\ sheet.decided
  /\ sheet.rows = job[b].read.cases.files

ReadDecisions(b) ==
  /\ At(b, "decisions")
  /\ IF Decided(b)
     THEN Proceed(b, 1, [job[b].read EXCEPT !.rows = sheet.rows])
     ELSE Refuse(b)
  /\ UNCHANGED <<stores, cases>>

\* Decisions count only for the manifest that they were made for.
ReviewsCases(r, c) == r # Nothing /\ r.cases = c

LoadReview(b) ==
  /\ At(b, "review")
  /\ IF ReviewsCases(pointer.review, job[b].read.cases)
     THEN Proceed(b, 1, [job[b].read EXCEPT !.review = pointer.review])
     ELSE Refuse(b)
  /\ UNCHANGED <<stores, cases>>

\* A baseline report is read, and then every source that it names.
ReadReport(b) ==
  /\ At(b, "report")
  /\ IF pointer.baseline = Nothing
     THEN Refuse(b)
     ELSE Proceed(b, 1, [job[b].read EXCEPT !.report = pointer.baseline])
  /\ UNCHANGED <<stores, cases>>

\* It is authentic if they are what it names; either way the tool is through.
Authenticate(b) ==
  /\ At(b, "authentic")
  /\ IF job[b].read.report = Lineage(job[b].read)
     THEN Proceed(b, 1, job[b].read)
     ELSE Refuse(b)
  /\ UNCHANGED <<stores, cases>>

-------------------------------------------------------------------------------
(* Around the tools.                                                           *)

Start(b, tool) ==
  /\ ~Running(b)
  /\ started < MaxJobs
  /\ started' = started + 1
  /\ job' = [job EXCEPT ![b] = [tool |-> tool, at |-> 1, read |-> Read]]
  /\ UNCHANGED <<corpus, damaged, stores, cases>>

\* A failure, injected or not, or a kill; a service that stops; a sample build,
\* which is never published, ends like this as well.
Interrupt(b) ==
  /\ Running(b)
  /\ Refuse(b)
  /\ UNCHANGED <<corpus, damaged, stores, cases, started>>

NewRevision ==
  /\ corpus < MaxRevision
  /\ corpus' = corpus + 1
  /\ damaged' \in BOOLEAN
  /\ UNCHANGED <<stores, cases, job, started>>

\* The reviewers fill the sheet in.
Decide ==
  /\ sheet # Nothing
  /\ ~sheet.decided
  /\ sheet' = [sheet EXCEPT !.decided = TRUE]
  /\ UNCHANGED <<corpus, damaged, stores, live, manifest, job, started>>

Publish(b) ==
  \/ ReadCorpus(b) \/ BuildChunks(b) \/ CheckQuality(b) \/ ReadAudit(b) \/ Look(b)
  \/ Rename(b) \/ Unchanged(b) \/ Point(b)

Load(b) ==
  \/ LoadPipeline(b) \/ LoadIndex(b) \/ LoadManifest(b) \/ ReadDecisions(b) \/ LoadReview(b)
  \/ ReadReport(b) \/ Authenticate(b)
  \/ LoadSplit(b, "development", "load_development")
  \/ LoadSplit(b, "regression", "load_regression")

WriteCases(b) ==
  \/ \E split \in Splits : ReplaceSplit(b, split)
  \/ ReplaceSheet(b) \/ ReplaceManifest(b) \/ WriteQueue(b)

Step(b) ==
  /\ Publish(b) \/ Load(b) \/ WriteCases(b)
  /\ UNCHANGED <<corpus, damaged, started>>

Ended ==
  /\ started = MaxJobs
  /\ \A b \in Builders : ~Running(b)
  /\ UNCHANGED vars

Next ==
  \/ \E b \in Builders : Step(b) \/ Interrupt(b)
  \/ \E b \in Builders, tool \in Tools : Start(b, tool)
  \/ NewRevision \/ Decide
  \/ Ended

-------------------------------------------------------------------------------
(* Nothing is there, or the tools have run once on the first revision.         *)

Audit0    == [corpus |-> 0]
Pipeline0 == [corpus |-> 0, failures |-> FALSE, audit |-> Audit0]
Index0    == [pipeline |-> Pipeline0]

Empty ==
  /\ releases = [s \in Stores |-> {}]
  /\ pointer = [s \in Stores |-> Nothing]
  /\ live = [s \in Splits |-> Nothing]
  /\ manifest = Nothing
  /\ sheet = Nothing

Built ==
  /\ releases = [audit |-> {Audit0}, pipeline |-> {Pipeline0}, index |-> {Index0},
                 review |-> {}, baseline |-> {}, agent |-> {}]
  /\ pointer = [audit |-> Audit0, pipeline |-> Pipeline0, index |-> Index0,
                review |-> Nothing, baseline |-> Nothing, agent |-> Nothing]
  /\ live = [s \in Splits |-> 0]
  /\ manifest = [pipeline |-> Pipeline0, files |-> 0]
  /\ sheet = [rows |-> 0, decided |-> FALSE]

Init ==
  /\ corpus = 0
  /\ damaged = FALSE
  /\ Empty \/ Built
  /\ job = [b \in Builders |-> Idle]
  /\ started = 0

Spec == Init /\ [][Next]_vars

-------------------------------------------------------------------------------
(* Properties.                                                                 *)

\* Every part of the state has its type; a pointer and what a tool has read are
\* releases of the right store.
ReleasesTypeOK ==
  /\ corpus \in Revisions
  /\ damaged \in BOOLEAN
  /\ \A s \in Stores : /\ \A r \in releases[s] : r \in ReleasesOf(s)
                       /\ pointer[s] = Nothing \/ pointer[s] \in ReleasesOf(s)
  /\ live \in [Splits -> Revisions \union {Nothing}]
  /\ manifest = Nothing \/ manifest \in Manifests
  /\ sheet = Nothing \/ sheet \in Sheets
  /\ started \in 0..MaxJobs

\* A document that cannot be parsed does not stop the build, but no release that
\* lacks it is ever published, nor an index or cases made from such a release.
NothingLeftOut ==
  /\ \A p \in releases.pipeline : ~p.failures
  /\ manifest # Nothing => ~manifest.pipeline.failures

\* Whatever is killed between the rename of a release and the replacement of
\* its pointer, and whoever else publishes: a pointer names a complete release,
\* and every release names complete releases as what it was built from.
LineageResolves ==
  /\ \A s \in Stores : pointer[s] # Nothing => pointer[s] \in releases[s]
  /\ \A p \in releases.pipeline : p.audit \in releases.audit
  /\ \A i \in releases.index : i.pipeline \in releases.pipeline
  /\ \A r \in releases.review : r.cases.pipeline \in releases.pipeline
  /\ \A x \in releases.baseline \union releases.agent :
       x.review \in releases.review /\ x.index \in releases.index

\* The service answers from one snapshot: its index was built from its pipeline,
\* although the two pointers are read at different times.
ServedTogether ==
  \A b \in Builders : At(b, "serve") =>
    /\ job[b].read.index.pipeline = job[b].read.pipeline
    /\ job[b].read.index \in releases.index

\* A baseline was measured on one lineage: cases chosen from its pipeline, their
\* own review and the index of that pipeline, although any of the four may have
\* been published anew while they were read.
BaselineOfOneLineage ==
  \A x \in releases.baseline \union releases.agent :
    /\ x.review.cases = x.cases
    /\ x.cases.pipeline = x.pipeline
    /\ x.index.pipeline = x.pipeline

\* Cases that were replaced in part are refused, never mixed: whoever has
\* loaded the cases has files of one revision, those the manifest was made for,
\* and decisions are of the very cases that they are published for.
NeverMixed ==
  /\ \A b \in Builders : Running(b) /\ Passed(b, "load_regression") =>
       job[b].read.loaded = {job[b].read.cases.pipeline.corpus}
  /\ \A r \in releases.review : r.rows = r.cases.pipeline.corpus
===============================================================================
