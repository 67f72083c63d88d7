----------------------------- MODULE ReleasesProofs ----------------------------
(* Proofs about Releases, for every number of processes, revisions and tools   *)
(* started, and every place at which a tool may be killed.                     *)
EXTENDS Releases, TLAPS

-------------------------------------------------------------------------------
(* The order of the steps of the tools.                                        *)

Before(c, i, s) == \E k \in 1..(i - 1) : c[k] = s

NoneBefore(c, i, S) == \A k \in 1..(i - 1) : c[k] \notin S

(* What is read once, and before what.                                         *)
ReadsInOrder(c) == \A i \in 1..Len(c) :
  /\ c[i] = "chunks" => NoneBefore(c, i, {"qa"})
  /\ c[i] = "pipeline" => NoneBefore(c, i, {"index"})
  /\ c[i] = "cases" => NoneBefore(c, i, {"cases", "pipeline", "review", "load_development",
                                         "load_regression", "decisions"})
  /\ c[i] \in {"load_development", "load_regression"} => Before(c, i, "cases")
  /\ c[i] = "manifest" => Before(c, i, "pipeline")
  /\ c[i] = "serve" => Before(c, i, "pipeline") /\ Before(c, i, "index")

(* A release is looked for, renamed and pointed to in this order.              *)
PublishesInOrder(c) == \A i \in 1..Len(c) :
  /\ c[i] = "look" => i + 2 <= Len(c) /\ c[i + 1] = "rename"
  /\ c[i] \in {"unchanged", "point"} => i > 1 /\ c[i - 1] \in {"rename", "unchanged"}

(* What a tool has passed when it renames its stage.                           *)
Needs ==
  [audit    |-> {},
   pipeline |-> {"qa", "audit"},
   index    |-> {"pipeline"},
   review   |-> {"cases", "decisions"},
   baseline |-> {"cases", "review", "pipeline", "index"},
   agent    |-> {"cases", "review", "pipeline", "index"}]

RenamesWithAll(c, tool) == \A i \in 1..Len(c) :
  /\ c[i] \in {"rename", "unchanged", "point"} => tool \in Stores
  /\ c[i] = "rename" => \A s \in Needs[tool] : Before(c, i, s)

Orderly(c, tool) ==
  /\ Len(c) \in Nat \ {0}
  /\ ReadsInOrder(c)
  /\ PublishesInOrder(c)
  /\ RenamesWithAll(c, tool)

LEMMA CoursesAreOrderly == \A tool \in DOMAIN Course : Orderly(Course[tool], tool)
<1> USE DEF Orderly, ReadsInOrder, PublishesInOrder, RenamesWithAll, Needs, Stores, Before,
            NoneBefore
<1>1. Orderly(AuditCourse, "audit")
  BY DEF AuditCourse
<1>2. Orderly(PipelineCourse, "pipeline")
  BY DEF PipelineCourse
<1>3. Orderly(IndexCourse, "index")
  BY DEF IndexCourse
<1>4. Orderly(ServiceCourse, "service")
  BY DEF ServiceCourse
<1>5. Orderly(CandidateCourse, "candidates")
  BY DEF CandidateCourse
<1>6. Orderly(ExportCourse, "export")
  BY DEF ExportCourse, LoadCases
<1>7. Orderly(ValidateCourse, "validate")
  BY DEF ValidateCourse, LoadCases
<1>8. Orderly(ReviewCourse, "review")
  BY DEF ReviewCourse, LoadCases
<1>9. Orderly(BaselineCourse, "baseline")
  BY DEF BaselineCourse, LoadLineage, LoadCases
<1>10. Orderly(AgentCourse, "agent")
  BY DEF AgentCourse, LoadLineage, LoadCases
<1>11. Orderly(AuthenticateCourse, "authenticate")
  BY DEF AuthenticateCourse, LoadLineage, LoadCases
<1> HIDE DEF Orderly
<1> QED
  BY <1>1, <1>2, <1>3, <1>4, <1>5, <1>6, <1>7, <1>8, <1>9, <1>10, <1>11 DEF Course

-------------------------------------------------------------------------------
(* The inductive invariant.                                                    *)

(* A process is idle or at a step of a tool.                                   *)
JobShape(j) ==
  /\ DOMAIN j = {"tool", "at", "read"}
  /\ DOMAIN j.read = DOMAIN Read
  /\ j.at \in Nat
  /\ j.at > 0 => j.tool \in DOMAIN Course /\ j.at <= Len(Course[j.tool])

ShapeInv ==
  /\ DOMAIN releases = Stores
  /\ DOMAIN pointer = Stores
  /\ DOMAIN job = Builders
  /\ \A b \in Builders : JobShape(job[b])

(* What is on disk: complete releases that name complete releases, each of one *)
(* lineage, and cases that were chosen from such a release.                    *)
StoresInv ==
  /\ LineageResolves
  /\ BaselineOfOneLineage
  /\ \A p \in releases.pipeline : ~p.failures
  /\ \A r \in releases.review : r.rows = r.cases.pipeline.corpus
  /\ manifest # Nothing => /\ manifest.pipeline \in releases.pipeline
                           /\ manifest.files = manifest.pipeline.corpus

(* What a process has read is still complete, and fits what it read before:    *)
(* releases are never taken away, so this stays true whoever publishes next.   *)
ReadInv(b) ==
  LET read == job[b].read IN
  /\ Passed(b, "qa") => ~read.failures
  /\ Passed(b, "audit") => read.audit \in releases.audit
  /\ Passed(b, "pipeline") => read.pipeline \in releases.pipeline
  /\ Passed(b, "cases") => /\ read.cases.pipeline \in releases.pipeline
                           /\ read.cases.files = read.cases.pipeline.corpus
                           /\ Passed(b, "pipeline") => read.cases.pipeline = read.pipeline
  /\ Passed(b, "review") => read.review \in releases.review /\ read.review.cases = read.cases
  /\ Passed(b, "index") => read.index \in releases.index /\ read.index.pipeline = read.pipeline
  /\ Passed(b, "decisions") => read.rows = read.cases.files

(* The cases loaded are those of the manifest that was read.                   *)
LoadedInv(b) ==
  LET read == job[b].read IN
  /\ ~Passed(b, "cases") => read.loaded = {}
  /\ Passed(b, "cases") => read.loaded \subseteq {read.cases.files}
  /\ Passed(b, "load_regression") => read.cases.files \in read.loaded

(* A pointer is about to be set to a release that is there.                    *)
PublishInv(b) == At(b, "unchanged") \/ At(b, "point") => Made(b) \in releases[Tool(b)]

ChainInv ==
  /\ ShapeInv
  /\ StoresInv
  /\ \A b \in Builders : ReadInv(b) /\ LoadedInv(b) /\ PublishInv(b)

LEMMA IdleInv ==
  ASSUME NEW b \in Builders, job[b] = Idle
  PROVE  JobShape(job[b]) /\ ReadInv(b) /\ LoadedInv(b) /\ PublishInv(b)
<1>1. job[b].at = 0 /\ job[b].read = Read /\ DOMAIN job[b] = {"tool", "at", "read"}
  BY DEF Idle
<1>2. \A s : ~Passed(b, s) /\ ~At(b, s)
  BY <1>1 DEF Passed, At, Running
<1>3. Read.loaded = {}
  BY DEF Read
<1> QED BY <1>1, <1>2, <1>3 DEF JobShape, ReadInv, LoadedInv, PublishInv

LEMMA IdleInvNext ==
  ASSUME NEW b \in Builders, job'[b] = Idle
  PROVE  JobShape(job[b])' /\ ReadInv(b)' /\ LoadedInv(b)' /\ PublishInv(b)'
<1>1. job'[b].at = 0 /\ job'[b].read = Read /\ DOMAIN job'[b] = {"tool", "at", "read"}
  BY DEF Idle
<1>2. \A s : ~Passed(b, s)' /\ ~At(b, s)'
  BY <1>1 DEF Passed, At, Running
<1>3. Read.loaded = {}
  BY DEF Read
<1> QED BY <1>1, <1>2, <1>3 DEF JobShape, ReadInv, LoadedInv, PublishInv

LEMMA ChainInvInit == Init => ChainInv
<1> SUFFICES ASSUME Init PROVE ChainInv
  OBVIOUS
<1>1. DOMAIN job = Builders /\ \A b \in Builders : job[b] = Idle
  BY DEF Init
<1>2. CASE Empty
  BY <1>1, <1>2, IdleInv DEF Empty, ChainInv, ShapeInv, StoresInv, LineageResolves,
    BaselineOfOneLineage, Stores
<1>3. CASE Built
  <2>1. ShapeInv
    BY <1>1, <1>3, IdleInv DEF Built, ShapeInv, Stores
  <2>2. StoresInv
    BY <1>3 DEF Built, StoresInv, LineageResolves, BaselineOfOneLineage, Stores,
      Audit0, Pipeline0, Index0
  <2> QED BY <1>1, <2>1, <2>2, IdleInv DEF ChainInv
<1> QED BY <1>2, <1>3 DEF Init

-------------------------------------------------------------------------------
(* A step of one process leaves the others what they have.                     *)

(* Releases are added and never removed.                                       *)
Grows == \A s \in Stores : releases[s] \subseteq releases'[s]

LEMMA OthersKeepInv ==
  ASSUME ChainInv, NEW b \in Builders, job'[b] = job[b], Grows
  PROVE  JobShape(job[b])' /\ ReadInv(b)' /\ LoadedInv(b)' /\ PublishInv(b)'
<1>1. \A s : (Passed(b, s)' <=> Passed(b, s)) /\ (At(b, s)' <=> At(b, s))
  BY DEF Passed, At, Running, Tool
<1>2. JobShape(job[b])' /\ LoadedInv(b)'
  BY <1>1 DEF ChainInv, ShapeInv, JobShape, LoadedInv
<1>3. ReadInv(b)'
  BY <1>1 DEF ChainInv, ReadInv, Grows, Stores
<1>4. PublishInv(b)'
  <2> SUFFICES ASSUME At(b, "unchanged") \/ At(b, "point")
               PROVE  Made(b)' \in releases'[Tool(b)']
    BY <1>1 DEF PublishInv
  <2>1. Tool(b) \in Stores
    BY CoursesAreOrderly DEF At, Running, Tool, ChainInv, ShapeInv, JobShape, Orderly,
      RenamesWithAll
  <2>2. Made(b)' = Made(b) /\ Tool(b)' = Tool(b)
    BY DEF Made, Tool
  <2> QED BY <2>1, <2>2 DEF ChainInv, PublishInv, Grows
<1> QED BY <1>2, <1>3, <1>4

LEMMA RefuseEffect ==
  ASSUME ChainInv, NEW b \in Builders, Refuse(b)
  PROVE  /\ DOMAIN job' = Builders
         /\ job'[b] = Idle
         /\ \A c \in Builders \ {b} : job'[c] = job[c]
BY DEF Refuse, ChainInv, ShapeInv

(* A process goes on from step s, of which it knows what is in read.           *)
GoesOn(b, s, n, read) ==
  /\ JobShape(job[b])'
  /\ job'[b].read = read
  /\ Tool(b)' = Tool(b) /\ Tool(b) \in DOMAIN Course
  /\ Passed(b, s)'
  /\ \A x : Passed(b, x) => Passed(b, x)'
  /\ \A x : Passed(b, x)' => Passed(b, x) \/ x = s \/ (n = 2 /\ x = "rename")
  /\ At(b, "unchanged")' \/ At(b, "point")' => s \in {"rename", "unchanged"} \/ n = 2

LEMMA ProceedEffect ==
  ASSUME ChainInv, NEW b \in Builders, NEW s, At(b, s), NEW read, DOMAIN read = DOMAIN Read,
         NEW n \in {1, 2}, n = 2 => s = "look", Proceed(b, n, read)
  PROVE  /\ DOMAIN job' = Builders
         /\ \A c \in Builders \ {b} : job'[c] = job[c]
         /\ job'[b] = Idle \/ GoesOn(b, s, n, read)
<1>1. DOMAIN job' = Builders /\ \A c \in Builders \ {b} : job'[c] = job[c]
  BY DEF Proceed, ChainInv, ShapeInv
<1>2. CASE Last(b)
  BY <1>1, <1>2 DEF Proceed, ChainInv, ShapeInv
<1>3. CASE ~Last(b)
  <2> DEFINE c == Course[Tool(b)]
             i == job[b].at
  <2>1. /\ Tool(b) \in DOMAIN Course /\ i \in Nat /\ i > 0 /\ i <= Len(c) /\ c[i] = s
        /\ DOMAIN job[b] = {"tool", "at", "read"}
    BY DEF At, Running, Tool, ChainInv, ShapeInv, JobShape
  <2>2. Len(c) \in Nat /\ i < Len(c) /\ Orderly(c, Tool(b))
    BY <1>3, <2>1, CoursesAreOrderly DEF Last, Orderly
  <2>3. n = 2 => i + 2 <= Len(c) /\ c[i + 1] = "rename"
    BY <2>1, <2>2 DEF Orderly, PublishesInOrder
  <2>4. job'[b] = [tool |-> Tool(b), at |-> i + n, read |-> read]
    BY <1>3 DEF Proceed, ChainInv, ShapeInv
  <2>5. /\ job'[b].tool = Tool(b) /\ job'[b].at = i + n /\ job'[b].read = read
        /\ DOMAIN job'[b] = {"tool", "at", "read"}
    BY <2>4 DEF Tool
  <2>6. JobShape(job[b])'
    BY <2>1, <2>2, <2>3, <2>5 DEF JobShape
  <2>7. \A x : Passed(b, x)' <=> \E k \in 1..(i + n - 1) : c[k] = x
    <3> SUFFICES ASSUME NEW x PROVE Passed(b, x)' <=> \E k \in 1..(i + n - 1) : c[k] = x
      OBVIOUS
    <3>1. 1..(job'[b].at - 1) = 1..(i + n - 1)
      BY <2>1, <2>5
    <3>2. Course[job'[b].tool] = c
      BY <2>5, Zenon
    <3> HIDE DEF c, i
    <3> QED BY <3>1, <3>2, Zenon DEF Passed, Tool
  <2>8. \A x : Passed(b, x) <=> \E k \in 1..(i - 1) : c[k] = x
    BY DEF Passed
  <2> HIDE DEF c, i
  <2>9. Passed(b, s)' /\ \A x : Passed(b, x) => Passed(b, x)'
    BY <2>1, <2>7, <2>8
  <2>10. \A x : Passed(b, x)' => Passed(b, x) \/ x = s \/ (n = 2 /\ x = "rename")
    BY <2>1, <2>3, <2>7, <2>8
  <2>11. ASSUME At(b, "unchanged")' \/ At(b, "point")', n = 1 PROVE s \in {"rename", "unchanged"}
    <3>1. c[i + 1] \in {"unchanged", "point"}
      BY <2>5, <2>11 DEF At, Tool, c
    <3>2. i + 1 \in 1..Len(c)
      BY <2>1, <2>2
    <3> QED BY <2>1, <2>2, <3>1, <3>2 DEF Orderly, PublishesInOrder
  <2>12. Tool(b)' = Tool(b)
    BY <2>5 DEF Tool
  <2> QED BY <1>1, <2>1, <2>5, <2>6, <2>9, <2>10, <2>11, <2>12 DEF GoesOn
<1> QED BY <1>2, <1>3

(* The order of a course, said of a process.                                   *)
LEMMA StepOrder ==
  ASSUME ChainInv, NEW b \in Builders, NEW s, At(b, s)
  PROVE  /\ s = "chunks" => ~Passed(b, "qa")
         /\ s = "pipeline" => ~Passed(b, "index")
         /\ s = "cases" => \A x \in {"cases", "pipeline", "review", "load_development",
                                     "load_regression", "decisions"} : ~Passed(b, x)
         /\ s \in {"load_development", "load_regression"} => Passed(b, "cases")
         /\ s = "manifest" => Passed(b, "pipeline")
         /\ s = "serve" => Passed(b, "pipeline") /\ Passed(b, "index")
         /\ s \in {"rename", "unchanged", "point"} => Tool(b) \in Stores
         /\ s = "rename" => \A x \in Needs[Tool(b)] : Passed(b, x)
<1> DEFINE c == Course[Tool(b)]
           i == job[b].at
<1>1. i \in 1..Len(c) /\ Orderly(c, Tool(b)) /\ c[i] = s
  BY CoursesAreOrderly DEF At, Running, Tool, ChainInv, ShapeInv, JobShape, Orderly
<1>2. \A x : Passed(b, x) <=> \E k \in 1..(i - 1) : c[k] = x
  BY DEF Passed
<1> HIDE DEF c, i
<1>3. \A x : Passed(b, x) <=> Before(c, i, x)
  BY <1>2 DEF Before
<1>4. \A S : NoneBefore(c, i, S) => \A x \in S : ~Passed(b, x)
  BY <1>2 DEF NoneBefore
<1> QED BY <1>1, <1>3, <1>4 DEF Orderly, ReadsInOrder, RenamesWithAll

(* A step that neither publishes nor replaces the manifest.                    *)
LEMMA StoresStay ==
  ASSUME ChainInv, NEW b \in Builders, UNCHANGED <<releases, pointer, manifest>>,
         DOMAIN job' = Builders, \A c \in Builders \ {b} : job'[c] = job[c],
         job'[b] = Idle \/ (JobShape(job[b])' /\ ReadInv(b)' /\ LoadedInv(b)' /\ PublishInv(b)')
  PROVE  ChainInv'
<1>1. Grows
  BY DEF Grows
<1>2. StoresInv'
  BY DEF ChainInv, StoresInv, LineageResolves, BaselineOfOneLineage
<1>3. \A c \in Builders : JobShape(job[c])' /\ ReadInv(c)' /\ LoadedInv(c)' /\ PublishInv(c)'
  BY <1>1, OthersKeepInv, IdleInvNext
<1> QED BY <1>2, <1>3 DEF ChainInv, ShapeInv

LEMMA ReadingKeepsInv ==
  ASSUME ChainInv, NEW b \in Builders, UNCHANGED <<stores, cases>>,
         DOMAIN job' = Builders, \A c \in Builders \ {b} : job'[c] = job[c],
         job'[b] = Idle \/ (JobShape(job[b])' /\ ReadInv(b)' /\ LoadedInv(b)' /\ PublishInv(b)')
  PROVE  ChainInv'
BY StoresStay DEF stores, cases

LEMMA StepKeepsInv ==
  ASSUME ChainInv, NEW b \in Builders, NEW s, At(b, s), s \notin {"look", "rename", "unchanged"},
         NEW read, DOMAIN read = DOMAIN Read, UNCHANGED <<stores, cases>>,
         Proceed(b, 1, read), GoesOn(b, s, 1, read) => ReadInv(b)' /\ LoadedInv(b)'
  PROVE  ChainInv'
<1>1. /\ DOMAIN job' = Builders /\ \A c \in Builders \ {b} : job'[c] = job[c]
      /\ job'[b] = Idle \/ GoesOn(b, s, 1, read)
  BY ProceedEffect
<1>2. GoesOn(b, s, 1, read) => PublishInv(b)'
  BY DEF GoesOn, PublishInv
<1> QED BY <1>1, <1>2, ReadingKeepsInv DEF GoesOn

LEMMA RefusalKeepsInv ==
  ASSUME ChainInv, NEW b \in Builders, UNCHANGED <<stores, cases>>, Refuse(b)
  PROVE  ChainInv'
BY RefuseEffect, ReadingKeepsInv

(* What a step reads goes to a field of its own.                               *)
LEMMA FieldRead ==
  ASSUME ChainInv, NEW b \in Builders, NEW field \in DOMAIN Read, NEW value
  PROVE  LET read == [job[b].read EXCEPT ![field] = value] IN
         /\ DOMAIN read = DOMAIN Read
         /\ read[field] = value
         /\ \A f \in DOMAIN Read \ {field} : read[f] = job[b].read[f]
BY DEF ChainInv, ShapeInv, JobShape

LEMMA ReadCorpusKeepsInv ==
  ASSUME ChainInv, NEW b \in Builders, ReadCorpus(b)
  PROVE  ChainInv'
<1> DEFINE read == [job[b].read EXCEPT !.corpus = corpus]
<1>1. /\ At(b, "corpus") /\ Proceed(b, 1, read) /\ UNCHANGED <<stores, cases>>
  BY DEF ReadCorpus
<1>2. /\ DOMAIN read = DOMAIN Read
      /\ read.corpus = corpus
      /\ \A f \in DOMAIN Read \ {"corpus"} : read[f] = job[b].read[f]
  BY FieldRead DEF Read
<1>3. ASSUME GoesOn(b, "corpus", 1, read) PROVE ReadInv(b)'
  BY <1>1, <1>2, <1>3, StepOrder
    DEF GoesOn, ReadInv, ChainInv, stores, Read
<1>4. ASSUME GoesOn(b, "corpus", 1, read) PROVE LoadedInv(b)'
  BY <1>1, <1>2, <1>4, StepOrder
    DEF GoesOn, LoadedInv, ChainInv, Read
<1> HIDE DEF read
<1> QED BY <1>1, <1>2, <1>3, <1>4, StepKeepsInv

LEMMA BuildChunksKeepsInv ==
  ASSUME ChainInv, NEW b \in Builders, BuildChunks(b)
  PROVE  ChainInv'
<1> DEFINE read == [job[b].read EXCEPT !.failures = damaged]
<1>1. /\ At(b, "chunks") /\ Proceed(b, 1, read) /\ UNCHANGED <<stores, cases>>
  BY DEF BuildChunks
<1>2. /\ DOMAIN read = DOMAIN Read
      /\ read.failures = damaged
      /\ \A f \in DOMAIN Read \ {"failures"} : read[f] = job[b].read[f]
  BY FieldRead DEF Read
<1>3. ASSUME GoesOn(b, "chunks", 1, read) PROVE ReadInv(b)'
  BY <1>1, <1>2, <1>3, StepOrder
    DEF GoesOn, ReadInv, ChainInv, stores, Read
<1>4. ASSUME GoesOn(b, "chunks", 1, read) PROVE LoadedInv(b)'
  BY <1>1, <1>2, <1>4, StepOrder
    DEF GoesOn, LoadedInv, ChainInv, Read
<1> HIDE DEF read
<1> QED BY <1>1, <1>2, <1>3, <1>4, StepKeepsInv

LEMMA ReadAuditKeepsInv ==
  ASSUME ChainInv, NEW b \in Builders, ReadAudit(b)
  PROVE  ChainInv'
<1>1. CASE Refuse(b)
  BY <1>1, RefusalKeepsInv DEF ReadAudit
<1>2. CASE ~Refuse(b)
  <2> DEFINE read == [job[b].read EXCEPT !.audit = pointer.audit]
  <2>1. /\ At(b, "audit") /\ Proceed(b, 1, read) /\ UNCHANGED <<stores, cases>>
        /\ pointer.audit # Nothing
    BY <1>2 DEF ReadAudit
  <2>2. /\ DOMAIN read = DOMAIN Read
        /\ read.audit = pointer.audit
        /\ \A f \in DOMAIN Read \ {"audit"} : read[f] = job[b].read[f]
    BY FieldRead DEF Read
  <2>3. pointer.audit \in releases.audit
    BY <2>1 DEF ChainInv, StoresInv, LineageResolves, Stores
  <2>4. ASSUME GoesOn(b, "audit", 1, read) PROVE ReadInv(b)'
    BY <2>1, <2>2, <2>3, <2>4, StepOrder
      DEF GoesOn, ReadInv, ChainInv, stores, Read
  <2>5. ASSUME GoesOn(b, "audit", 1, read) PROVE LoadedInv(b)'
    BY <2>1, <2>2, <2>3, <2>5, StepOrder
      DEF GoesOn, LoadedInv, ChainInv, Read
  <2> HIDE DEF read
  <2> QED BY <2>1, <2>2, <2>4, <2>5, StepKeepsInv
<1> QED BY <1>1, <1>2

LEMMA LoadPipelineKeepsInv ==
  ASSUME ChainInv, NEW b \in Builders, LoadPipeline(b)
  PROVE  ChainInv'
<1>1. CASE Refuse(b)
  BY <1>1, RefusalKeepsInv DEF LoadPipeline
<1>2. CASE ~Refuse(b)
  <2> DEFINE read == [job[b].read EXCEPT !.pipeline = pointer.pipeline]
  <2>1. /\ At(b, "pipeline") /\ Proceed(b, 1, read) /\ UNCHANGED <<stores, cases>>
        /\ pointer.pipeline # Nothing /\ ServesCases(b, pointer.pipeline)
    BY <1>2 DEF LoadPipeline
  <2>2. /\ DOMAIN read = DOMAIN Read
        /\ read.pipeline = pointer.pipeline
        /\ \A f \in DOMAIN Read \ {"pipeline"} : read[f] = job[b].read[f]
    BY FieldRead DEF Read
  <2>3. pointer.pipeline \in releases.pipeline
    BY <2>1 DEF ChainInv, StoresInv, LineageResolves, Stores
  <2>4. ASSUME GoesOn(b, "pipeline", 1, read) PROVE ReadInv(b)'
    BY <2>1, <2>2, <2>3, <2>4, StepOrder
      DEF GoesOn, ReadInv, ChainInv, stores, Read, ServesCases
  <2>5. ASSUME GoesOn(b, "pipeline", 1, read) PROVE LoadedInv(b)'
    BY <2>1, <2>2, <2>3, <2>5, StepOrder
      DEF GoesOn, LoadedInv, ChainInv, Read
  <2> HIDE DEF read
  <2> QED BY <2>1, <2>2, <2>4, <2>5, StepKeepsInv
<1> QED BY <1>1, <1>2

LEMMA LoadIndexKeepsInv ==
  ASSUME ChainInv, NEW b \in Builders, LoadIndex(b)
  PROVE  ChainInv'
<1>1. CASE Refuse(b)
  BY <1>1, RefusalKeepsInv DEF LoadIndex
<1>2. CASE ~Refuse(b)
  <2> DEFINE read == [job[b].read EXCEPT !.index = pointer.index]
  <2>1. /\ At(b, "index") /\ Proceed(b, 1, read) /\ UNCHANGED <<stores, cases>>
        /\ FitsPipeline(pointer.index, job[b].read.pipeline)
    BY <1>2 DEF LoadIndex
  <2>2. /\ DOMAIN read = DOMAIN Read
        /\ read.index = pointer.index
        /\ \A f \in DOMAIN Read \ {"index"} : read[f] = job[b].read[f]
    BY FieldRead DEF Read
  <2>3. pointer.index \in releases.index
    BY <2>1 DEF ChainInv, StoresInv, LineageResolves, Stores, FitsPipeline
  <2>4. ASSUME GoesOn(b, "index", 1, read) PROVE ReadInv(b)'
    BY <2>1, <2>2, <2>3, <2>4, StepOrder
      DEF GoesOn, ReadInv, ChainInv, stores, Read, FitsPipeline
  <2>5. ASSUME GoesOn(b, "index", 1, read) PROVE LoadedInv(b)'
    BY <2>1, <2>2, <2>3, <2>5, StepOrder
      DEF GoesOn, LoadedInv, ChainInv, Read
  <2> HIDE DEF read
  <2> QED BY <2>1, <2>2, <2>4, <2>5, StepKeepsInv
<1> QED BY <1>1, <1>2

LEMMA LoadManifestKeepsInv ==
  ASSUME ChainInv, NEW b \in Builders, LoadManifest(b)
  PROVE  ChainInv'
<1>1. CASE Refuse(b)
  BY <1>1, RefusalKeepsInv DEF LoadManifest
<1>2. CASE ~Refuse(b)
  <2> DEFINE read == [job[b].read EXCEPT !.cases = manifest]
  <2>1. /\ At(b, "cases") /\ Proceed(b, 1, read) /\ UNCHANGED <<stores, cases>>
        /\ manifest # Nothing
    BY <1>2 DEF LoadManifest
  <2>2. /\ DOMAIN read = DOMAIN Read
        /\ read.cases = manifest
        /\ \A f \in DOMAIN Read \ {"cases"} : read[f] = job[b].read[f]
    BY FieldRead DEF Read
  <2>3. manifest.pipeline \in releases.pipeline /\ manifest.files = manifest.pipeline.corpus
    BY <2>1 DEF ChainInv, StoresInv
  <2>4. ASSUME GoesOn(b, "cases", 1, read) PROVE ReadInv(b)'
    BY <2>1, <2>2, <2>3, <2>4, StepOrder
      DEF GoesOn, ReadInv, ChainInv, stores, Read
  <2>5. ASSUME GoesOn(b, "cases", 1, read) PROVE LoadedInv(b)'
    BY <2>1, <2>2, <2>3, <2>5, StepOrder
      DEF GoesOn, LoadedInv, ChainInv, Read
  <2> HIDE DEF read
  <2> QED BY <2>1, <2>2, <2>4, <2>5, StepKeepsInv
<1> QED BY <1>1, <1>2

LEMMA ReadDecisionsKeepsInv ==
  ASSUME ChainInv, NEW b \in Builders, ReadDecisions(b)
  PROVE  ChainInv'
<1>1. CASE Refuse(b)
  BY <1>1, RefusalKeepsInv DEF ReadDecisions
<1>2. CASE ~Refuse(b)
  <2> DEFINE read == [job[b].read EXCEPT !.rows = sheet.rows]
  <2>1. /\ At(b, "decisions") /\ Proceed(b, 1, read) /\ UNCHANGED <<stores, cases>>
        /\ Decided(b)
    BY <1>2 DEF ReadDecisions
  <2>2. /\ DOMAIN read = DOMAIN Read
        /\ read.rows = sheet.rows
        /\ \A f \in DOMAIN Read \ {"rows"} : read[f] = job[b].read[f]
    BY FieldRead DEF Read
  <2>3. ASSUME GoesOn(b, "decisions", 1, read) PROVE ReadInv(b)'
    BY <2>1, <2>2, <2>3, StepOrder
      DEF GoesOn, ReadInv, ChainInv, stores, Read, Decided
  <2>4. ASSUME GoesOn(b, "decisions", 1, read) PROVE LoadedInv(b)'
    BY <2>1, <2>2, <2>4, StepOrder
      DEF GoesOn, LoadedInv, ChainInv, Read
  <2> HIDE DEF read
  <2> QED BY <2>1, <2>2, <2>3, <2>4, StepKeepsInv
<1> QED BY <1>1, <1>2

LEMMA LoadReviewKeepsInv ==
  ASSUME ChainInv, NEW b \in Builders, LoadReview(b)
  PROVE  ChainInv'
<1>1. CASE Refuse(b)
  BY <1>1, RefusalKeepsInv DEF LoadReview
<1>2. CASE ~Refuse(b)
  <2> DEFINE read == [job[b].read EXCEPT !.review = pointer.review]
  <2>1. /\ At(b, "review") /\ Proceed(b, 1, read) /\ UNCHANGED <<stores, cases>>
        /\ ReviewsCases(pointer.review, job[b].read.cases)
    BY <1>2 DEF LoadReview
  <2>2. /\ DOMAIN read = DOMAIN Read
        /\ read.review = pointer.review
        /\ \A f \in DOMAIN Read \ {"review"} : read[f] = job[b].read[f]
    BY FieldRead DEF Read
  <2>3. pointer.review \in releases.review
    BY <2>1 DEF ChainInv, StoresInv, LineageResolves, Stores, ReviewsCases
  <2>4. ASSUME GoesOn(b, "review", 1, read) PROVE ReadInv(b)'
    BY <2>1, <2>2, <2>3, <2>4, StepOrder
      DEF GoesOn, ReadInv, ChainInv, stores, Read, ReviewsCases
  <2>5. ASSUME GoesOn(b, "review", 1, read) PROVE LoadedInv(b)'
    BY <2>1, <2>2, <2>3, <2>5, StepOrder
      DEF GoesOn, LoadedInv, ChainInv, Read
  <2> HIDE DEF read
  <2> QED BY <2>1, <2>2, <2>4, <2>5, StepKeepsInv
<1> QED BY <1>1, <1>2

LEMMA ReadReportKeepsInv ==
  ASSUME ChainInv, NEW b \in Builders, ReadReport(b)
  PROVE  ChainInv'
<1>1. CASE Refuse(b)
  BY <1>1, RefusalKeepsInv DEF ReadReport
<1>2. CASE ~Refuse(b)
  <2> DEFINE read == [job[b].read EXCEPT !.report = pointer.baseline]
  <2>1. /\ At(b, "report") /\ Proceed(b, 1, read) /\ UNCHANGED <<stores, cases>>
    BY <1>2 DEF ReadReport
  <2>2. /\ DOMAIN read = DOMAIN Read
        /\ read.report = pointer.baseline
        /\ \A f \in DOMAIN Read \ {"report"} : read[f] = job[b].read[f]
    BY FieldRead DEF Read
  <2>3. ASSUME GoesOn(b, "report", 1, read) PROVE ReadInv(b)'
    BY <2>1, <2>2, <2>3, StepOrder
      DEF GoesOn, ReadInv, ChainInv, stores, Read
  <2>4. ASSUME GoesOn(b, "report", 1, read) PROVE LoadedInv(b)'
    BY <2>1, <2>2, <2>4, StepOrder
      DEF GoesOn, LoadedInv, ChainInv, Read
  <2> HIDE DEF read
  <2> QED BY <2>1, <2>2, <2>3, <2>4, StepKeepsInv
<1> QED BY <1>1, <1>2

LEMMA LoadSplitKeepsInv ==
  ASSUME ChainInv, NEW b \in Builders, NEW split \in Splits,
         NEW s \in {"load_development", "load_regression"}, LoadSplit(b, split, s)
  PROVE  ChainInv'
<1>1. CASE Refuse(b)
  BY <1>1, RefusalKeepsInv DEF LoadSplit
<1>2. CASE ~Refuse(b)
  <2> DEFINE read == [job[b].read EXCEPT !.loaded = @ \union {live[split]}]
  <2>1. /\ At(b, s) /\ Proceed(b, 1, read) /\ UNCHANGED <<stores, cases>>
        /\ live[split] = job[b].read.cases.files
    BY <1>2 DEF LoadSplit, Described
  <2>2. /\ DOMAIN read = DOMAIN Read
        /\ read.loaded = job[b].read.loaded \union {live[split]}
        /\ \A f \in DOMAIN Read \ {"loaded"} : read[f] = job[b].read[f]
    BY FieldRead DEF Read
  <2>3. ASSUME GoesOn(b, s, 1, read) PROVE ReadInv(b)'
    BY <2>1, <2>2, <2>3 DEF GoesOn, ReadInv, ChainInv, stores, Read
  <2>4. ASSUME GoesOn(b, s, 1, read) PROVE LoadedInv(b)'
    BY <2>1, <2>2, <2>4, StepOrder DEF GoesOn, LoadedInv, ChainInv, Read
  <2> HIDE DEF read
  <2> QED BY <2>1, <2>2, <2>3, <2>4, StepKeepsInv
<1> QED BY <1>1, <1>2

(* A step that checks what was read, and reads nothing more.                   *)
LEMMA CheckKeepsInv ==
  ASSUME ChainInv, NEW b \in Builders, CheckQuality(b) \/ Authenticate(b)
  PROVE  ChainInv'
<1>1. CASE Refuse(b)
  BY <1>1, RefusalKeepsInv DEF CheckQuality, Authenticate
<1>2. CASE ~Refuse(b)
  <2> DEFINE read == job[b].read
  <2>1. PICK s \in {"qa", "authentic"} : At(b, s) /\ (s = "qa" => ~read.failures)
    BY <1>2 DEF CheckQuality, Authenticate, QaPasses
  <2>2. Proceed(b, 1, read) /\ UNCHANGED <<stores, cases>> /\ DOMAIN read = DOMAIN Read
    BY <1>2 DEF CheckQuality, Authenticate, ChainInv, ShapeInv, JobShape
  <2>3. ASSUME GoesOn(b, s, 1, read) PROVE ReadInv(b)' /\ LoadedInv(b)'
    BY <2>1, <2>2, <2>3 DEF GoesOn, ReadInv, LoadedInv, ChainInv, stores
  <2> HIDE DEF read
  <2> QED BY <2>1, <2>2, <2>3, StepKeepsInv
<1> QED BY <1>1, <1>2

-------------------------------------------------------------------------------
(* Publishing.                                                                 *)

LEMMA LookKeepsInv ==
  ASSUME ChainInv, NEW b \in Builders, Look(b)
  PROVE  ChainInv'
<1> DEFINE n == IF Made(b) \in releases[Tool(b)] THEN 2 ELSE 1
<1>1. At(b, "look") /\ Proceed(b, n, job[b].read) /\ UNCHANGED <<stores, cases>>
  BY DEF Look
<1>2. n \in {1, 2} /\ DOMAIN job[b].read = DOMAIN Read
  BY DEF ChainInv, ShapeInv, JobShape
<1>3. n = 2 => Made(b) \in releases[Tool(b)]
  OBVIOUS
<1> HIDE DEF n
<1>4. ASSUME GoesOn(b, "look", n, job[b].read) PROVE ReadInv(b)' /\ LoadedInv(b)'
  BY <1>1, <1>4 DEF GoesOn, ReadInv, LoadedInv, ChainInv, stores
<1>5. ASSUME GoesOn(b, "look", n, job[b].read) PROVE PublishInv(b)'
  BY <1>1, <1>2, <1>3, <1>5 DEF GoesOn, PublishInv, Made, Tool, stores
<1> QED BY <1>1, <1>2, <1>4, <1>5, ProceedEffect, ReadingKeepsInv DEF GoesOn

LEMMA UnchangedKeepsInv ==
  ASSUME ChainInv, NEW b \in Builders, Unchanged(b)
  PROVE  ChainInv'
<1>1. CASE Refuse(b)
  BY <1>1, RefusalKeepsInv DEF Unchanged
<1>2. CASE ~Refuse(b)
  <2>1. At(b, "unchanged") /\ Proceed(b, 1, job[b].read) /\ UNCHANGED <<stores, cases>>
    BY <1>2 DEF Unchanged
  <2>2. DOMAIN job[b].read = DOMAIN Read
    BY DEF ChainInv, ShapeInv, JobShape
  <2>3. ASSUME GoesOn(b, "unchanged", 1, job[b].read) PROVE ReadInv(b)' /\ LoadedInv(b)'
    BY <2>1, <2>3 DEF GoesOn, ReadInv, LoadedInv, ChainInv, stores
  <2>4. ASSUME GoesOn(b, "unchanged", 1, job[b].read) PROVE PublishInv(b)'
    BY <2>1, <2>4 DEF GoesOn, ChainInv, PublishInv, Made, Tool, stores
  <2> QED BY <2>1, <2>2, <2>3, <2>4, ProceedEffect, ReadingKeepsInv DEF GoesOn
<1> QED BY <1>1, <1>2

(* A stage that is renamed is a release whose lineage is there.                *)
LEMMA StageIsComplete ==
  ASSUME ChainInv, NEW b \in Builders, At(b, "rename")
  PROVE  LET r == Made(b) IN
         /\ Tool(b) \in Stores
         /\ Tool(b) = "pipeline" => r.audit \in releases.audit /\ ~r.failures
         /\ Tool(b) = "index" => r.pipeline \in releases.pipeline
         /\ Tool(b) = "review" => /\ r.cases.pipeline \in releases.pipeline
                                  /\ r.rows = r.cases.pipeline.corpus
         /\ Tool(b) \in {"baseline", "agent"} =>
              /\ r.review \in releases.review /\ r.index \in releases.index
              /\ r.review.cases = r.cases /\ r.cases.pipeline = r.pipeline
              /\ r.index.pipeline = r.pipeline
<1>1. Tool(b) \in Stores /\ \A x \in Needs[Tool(b)] : Passed(b, x)
  BY StepOrder
<1>2. ReadInv(b)
  BY DEF ChainInv
<1>3. CASE Tool(b) = "pipeline"
  BY <1>1, <1>2, <1>3 DEF Needs, ReadInv, Made, Product
<1>4. CASE Tool(b) = "index"
  BY <1>1, <1>2, <1>4 DEF Needs, ReadInv, Made, Product
<1>5. CASE Tool(b) = "review"
  BY <1>1, <1>2, <1>5 DEF Needs, ReadInv, Made, Product
<1>6. CASE Tool(b) = "baseline"
  BY <1>1, <1>2, <1>6 DEF Needs, ReadInv, Made, Product, Lineage
<1>7. CASE Tool(b) = "agent"
  BY <1>1, <1>2, <1>7 DEF Needs, ReadInv, Made, Product, Lineage
<1> QED BY <1>1, <1>3, <1>4, <1>5, <1>6, <1>7

LEMMA RenameKeepsInv ==
  ASSUME ChainInv, NEW b \in Builders, Rename(b)
  PROVE  ChainInv'
<1>1. CASE Made(b) \in releases[Tool(b)]
  BY <1>1, RefusalKeepsInv DEF Rename, stores
<1>2. CASE Made(b) \notin releases[Tool(b)]
  <2>1. /\ At(b, "rename") /\ Proceed(b, 1, job[b].read)
        /\ releases' = [releases EXCEPT ![Tool(b)] = @ \union {Made(b)}]
        /\ UNCHANGED <<pointer, live, manifest, sheet>>
    BY <1>2 DEF Rename, cases
  <2>2. DOMAIN job[b].read = DOMAIN Read /\ DOMAIN releases = Stores
    BY DEF ChainInv, ShapeInv, JobShape
  <2>3. /\ Grows
        /\ Made(b) \in releases'[Tool(b)]
        /\ \A s \in Stores : \A r \in releases'[s] :
             r \in releases[s] \/ (s = Tool(b) /\ r = Made(b))
    BY <2>1, <2>2, StageIsComplete DEF Grows
  <2>4. StoresInv'
    BY <2>1, <2>3, StageIsComplete
      DEF ChainInv, StoresInv, LineageResolves, BaselineOfOneLineage, Grows, Stores
  <2>5. ASSUME GoesOn(b, "rename", 1, job[b].read)
        PROVE  ReadInv(b)' /\ LoadedInv(b)' /\ PublishInv(b)'
    <3>1. ReadInv(b)'
      BY <2>3, <2>5 DEF GoesOn, ReadInv, ChainInv, Grows, Stores
    <3>2. LoadedInv(b)'
      BY <2>5 DEF GoesOn, LoadedInv, ChainInv
    <3>3. PublishInv(b)'
      BY <2>3, <2>5 DEF GoesOn, PublishInv, Made
    <3> QED BY <3>1, <3>2, <3>3
  <2>6. /\ DOMAIN job' = Builders /\ \A c \in Builders \ {b} : job'[c] = job[c]
        /\ job'[b] = Idle \/ GoesOn(b, "rename", 1, job[b].read)
    BY <2>1, <2>2, ProceedEffect
  <2>7. \A c \in Builders : JobShape(job[c])' /\ ReadInv(c)' /\ LoadedInv(c)' /\ PublishInv(c)'
    BY <2>3, <2>5, <2>6, OthersKeepInv, IdleInvNext DEF GoesOn
  <2> QED BY <2>1, <2>2, <2>4, <2>6, <2>7 DEF ChainInv, ShapeInv
<1> QED BY <1>1, <1>2

LEMMA PointKeepsInv ==
  ASSUME ChainInv, NEW b \in Builders, Point(b)
  PROVE  ChainInv'
<1>1. /\ At(b, "point") /\ Proceed(b, 1, job[b].read)
      /\ pointer' = [pointer EXCEPT ![Tool(b)] = Made(b)]
      /\ UNCHANGED <<releases, live, manifest, sheet>>
  BY DEF Point, Replace, cases
<1>2. DOMAIN job[b].read = DOMAIN Read /\ DOMAIN pointer = Stores
  BY DEF ChainInv, ShapeInv, JobShape
<1>3. Made(b) \in releases[Tool(b)] /\ Tool(b) \in Stores
  BY <1>1, StepOrder DEF ChainInv, PublishInv
<1>4. Grows /\ DOMAIN pointer' = Stores
  BY <1>1, <1>2 DEF Grows
<1>5. StoresInv'
  <2>1. \A s \in Stores : pointer'[s] # Nothing => pointer'[s] \in releases'[s]
    BY <1>1, <1>2, <1>3 DEF ChainInv, StoresInv, LineageResolves
  <2> QED BY <1>1, <2>1 DEF ChainInv, StoresInv, LineageResolves, BaselineOfOneLineage
<1>6. ASSUME GoesOn(b, "point", 1, job[b].read)
      PROVE  ReadInv(b)' /\ LoadedInv(b)' /\ PublishInv(b)'
  BY <1>1, <1>6 DEF GoesOn, ReadInv, LoadedInv, PublishInv, ChainInv
<1>7. /\ DOMAIN job' = Builders /\ \A c \in Builders \ {b} : job'[c] = job[c]
      /\ job'[b] = Idle \/ GoesOn(b, "point", 1, job[b].read)
  BY <1>1, <1>2, ProceedEffect
<1>8. \A c \in Builders : JobShape(job[c])' /\ ReadInv(c)' /\ LoadedInv(c)' /\ PublishInv(c)'
  BY <1>4, <1>6, <1>7, OthersKeepInv, IdleInvNext DEF GoesOn
<1> QED BY <1>1, <1>4, <1>5, <1>7, <1>8 DEF ChainInv, ShapeInv

-------------------------------------------------------------------------------
(* The evaluation cases, and what is around the tools.                         *)

(* Files that no invariant speaks of until they are loaded and compared.       *)
LEMMA WriteKeepsInv ==
  ASSUME ChainInv, NEW b \in Builders,
         (\E split \in Splits : ReplaceSplit(b, split)) \/ ReplaceSheet(b) \/ WriteQueue(b)
  PROVE  ChainInv'
<1>1. PICK s \in Splits \union {"new_sheet", "queue"} : At(b, s)
  BY DEF ReplaceSplit, ReplaceSheet, WriteQueue
<1>2. Proceed(b, 1, job[b].read) /\ UNCHANGED <<releases, pointer, manifest>>
  BY DEF ReplaceSplit, ReplaceSheet, WriteQueue, stores
<1>3. DOMAIN job[b].read = DOMAIN Read /\ s \notin {"look", "rename", "unchanged"}
      /\ s \notin {"qa", "audit", "pipeline", "cases", "review", "index", "decisions",
                    "load_regression"}
  BY DEF Splits, ChainInv, ShapeInv, JobShape
<1>4. ASSUME GoesOn(b, s, 1, job[b].read)
      PROVE  ReadInv(b)' /\ LoadedInv(b)' /\ PublishInv(b)'
  BY <1>2, <1>3, <1>4 DEF GoesOn, ReadInv, LoadedInv, PublishInv, ChainInv
<1>5. /\ DOMAIN job' = Builders /\ \A c \in Builders \ {b} : job'[c] = job[c]
      /\ job'[b] = Idle \/ GoesOn(b, s, 1, job[b].read)
  BY <1>1, <1>2, <1>3, ProceedEffect
<1> QED BY <1>2, <1>4, <1>5, StoresStay DEF GoesOn

LEMMA ReplaceManifestKeepsInv ==
  ASSUME ChainInv, NEW b \in Builders, ReplaceManifest(b)
  PROVE  ChainInv'
<1> DEFINE p == job[b].read.pipeline
<1>1. /\ At(b, "manifest") /\ Proceed(b, 1, job[b].read)
      /\ manifest' = [pipeline |-> p, files |-> p.corpus]
      /\ UNCHANGED <<releases, pointer>>
  BY DEF ReplaceManifest, stores
<1>2. DOMAIN job[b].read = DOMAIN Read /\ p \in releases.pipeline
  BY <1>1, StepOrder DEF ChainInv, ShapeInv, JobShape, ReadInv
<1>3. StoresInv' /\ Grows
  BY <1>1, <1>2 DEF ChainInv, StoresInv, LineageResolves, BaselineOfOneLineage, Grows
<1>4. ASSUME GoesOn(b, "manifest", 1, job[b].read)
      PROVE  ReadInv(b)' /\ LoadedInv(b)' /\ PublishInv(b)'
  BY <1>1, <1>4 DEF GoesOn, ReadInv, LoadedInv, PublishInv, ChainInv
<1>5. /\ DOMAIN job' = Builders /\ \A c \in Builders \ {b} : job'[c] = job[c]
      /\ job'[b] = Idle \/ GoesOn(b, "manifest", 1, job[b].read)
  BY <1>1, <1>2, ProceedEffect
<1>6. \A c \in Builders : JobShape(job[c])' /\ ReadInv(c)' /\ LoadedInv(c)' /\ PublishInv(c)'
  BY <1>3, <1>4, <1>5, OthersKeepInv, IdleInvNext DEF GoesOn
<1> QED BY <1>1, <1>3, <1>5, <1>6 DEF ChainInv, ShapeInv

LEMMA StartKeepsInv ==
  ASSUME ChainInv, NEW b \in Builders, NEW tool \in Tools, Start(b, tool)
  PROVE  ChainInv'
<1> DEFINE j == [tool |-> tool, at |-> 1, read |-> Read]
<1>1. /\ DOMAIN job' = Builders /\ job'[b] = j
      /\ \A c \in Builders \ {b} : job'[c] = job[c]
      /\ UNCHANGED <<releases, pointer, manifest>>
  BY DEF Start, stores, cases, ChainInv, ShapeInv
<1>2. tool \in DOMAIN Course /\ Orderly(Course[tool], tool)
  BY ToolsAssumption, CoursesAreOrderly
<1>3. JobShape(job[b])'
  BY <1>1, <1>2 DEF JobShape, Orderly
<1>4. \A s : ~Passed(b, s)'
  BY <1>1 DEF Passed
<1>5. ReadInv(b)' /\ LoadedInv(b)'
  BY <1>1, <1>4 DEF ReadInv, LoadedInv, Read
<1>6. PublishInv(b)'
  <2>1. 1 \in 1..Len(Course[tool])
    BY <1>2 DEF Orderly
  <2>2. Course[tool][1] \notin {"unchanged", "point"}
    BY <1>2, <2>1 DEF Orderly, PublishesInOrder
  <2> QED BY <1>1, <2>2 DEF PublishInv, At, Tool
<1> QED BY <1>1, <1>3, <1>5, <1>6, StoresStay

LEMMA AroundKeepsInv ==
  ASSUME ChainInv, NewRevision \/ Decide \/ UNCHANGED vars
  PROVE  ChainInv'
<1>1. UNCHANGED <<releases, pointer, manifest, job>>
  BY DEF NewRevision, Decide, vars, stores, cases
<1>2. StoresInv' /\ Grows
  BY <1>1 DEF ChainInv, StoresInv, LineageResolves, BaselineOfOneLineage, Grows
<1>3. \A b \in Builders : JobShape(job[b])' /\ ReadInv(b)' /\ LoadedInv(b)' /\ PublishInv(b)'
  BY <1>1, <1>2, OthersKeepInv
<1> QED BY <1>1, <1>2, <1>3 DEF ChainInv, ShapeInv

LEMMA ChainInvStep == ChainInv /\ [Next]_vars => ChainInv'
<1> SUFFICES ASSUME ChainInv, [Next]_vars PROVE ChainInv'
  OBVIOUS
<1>1. ASSUME NEW b \in Builders, Publish(b) PROVE ChainInv'
  BY <1>1, ReadCorpusKeepsInv, BuildChunksKeepsInv, CheckKeepsInv, ReadAuditKeepsInv,
     LookKeepsInv, RenameKeepsInv, UnchangedKeepsInv, PointKeepsInv DEF Publish
<1>2. ASSUME NEW b \in Builders, Load(b) PROVE ChainInv'
  BY <1>2, LoadPipelineKeepsInv, LoadIndexKeepsInv, LoadManifestKeepsInv,
     ReadDecisionsKeepsInv, LoadReviewKeepsInv, ReadReportKeepsInv, CheckKeepsInv,
     LoadSplitKeepsInv DEF Load, Splits
<1>3. ASSUME NEW b \in Builders, WriteCases(b) PROVE ChainInv'
  BY <1>3, WriteKeepsInv, ReplaceManifestKeepsInv DEF WriteCases
<1>4. ASSUME NEW b \in Builders, Interrupt(b) PROVE ChainInv'
  BY <1>4, RefusalKeepsInv DEF Interrupt
<1> QED
  BY <1>1, <1>2, <1>3, <1>4, StartKeepsInv, AroundKeepsInv DEF Next, Step, Ended

LEMMA ChainInvHolds == Spec => []ChainInv
BY ChainInvInit, ChainInvStep, PTL DEF Spec

-------------------------------------------------------------------------------
(* What follows.                                                               *)

(* Whoever publishes and wherever tools are killed, pointers and lineages      *)
(* resolve to complete releases (build_pipeline.py:375-388, fts.py:284-300).   *)
THEOREM LineagesResolve == Spec => []LineageResolves
<1>1. ChainInv => LineageResolves BY DEF ChainInv, StoresInv
<1> QED BY <1>1, ChainInvHolds, PTL

(* A baseline is of one lineage although its sources are read one by one       *)
(* (evaluate_retrieval.py:65-120).                                             *)
THEOREM BaselinesAreOfOneLineage == Spec => []BaselineOfOneLineage
<1>1. ChainInv => BaselineOfOneLineage BY DEF ChainInv, StoresInv
<1> QED BY <1>1, ChainInvHolds, PTL

(* A release that lacks a document is never published, and no cases are chosen *)
(* from one (build_pipeline.py:255-272).                                       *)
THEOREM NothingIsLeftOut == Spec => []NothingLeftOut
<1>1. ChainInv => NothingLeftOut BY DEF ChainInv, StoresInv, NothingLeftOut
<1> QED BY <1>1, ChainInvHolds, PTL

(* The service starts on a pipeline and the index built from it, whatever is   *)
(* published between its two reads (fts.py:112-156, 348-386).                  *)
THEOREM ServesOneSnapshot == Spec => []ServedTogether
<1>1. ChainInv => ServedTogether
  <2> SUFFICES ASSUME ChainInv, NEW b \in Builders, At(b, "serve")
               PROVE  /\ job[b].read.index.pipeline = job[b].read.pipeline
                      /\ job[b].read.index \in releases.index
    BY DEF ServedTogether
  <2> QED BY StepOrder DEF ChainInv, ReadInv
<1> QED BY <1>1, ChainInvHolds, PTL

(* Cases replaced in part are never taken for cases, and decisions count for   *)
(* the cases they were made for only (review.py:258-348, 594-657).             *)
THEOREM CasesAreNeverMixed == Spec => []NeverMixed
<1>1. ChainInv => NeverMixed
  <2> SUFFICES ASSUME ChainInv PROVE NeverMixed
    OBVIOUS
  <2>1. ASSUME NEW b \in Builders, Running(b), Passed(b, "load_regression")
        PROVE  job[b].read.loaded = {job[b].read.cases.pipeline.corpus}
    <3>1. Passed(b, "cases")
      BY <2>1 DEF ChainInv, LoadedInv
    <3> QED BY <2>1, <3>1 DEF ChainInv, LoadedInv, ReadInv
  <2> QED BY <2>1 DEF NeverMixed, ChainInv, StoresInv
<1> QED BY <1>1, ChainInvHolds, PTL
===============================================================================
