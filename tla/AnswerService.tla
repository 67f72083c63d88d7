----------------------------- MODULE AnswerService -----------------------------
(* ReliableAnswerService.answer of src/disclosure_agent/runtime/service.py: a  *)
(* look-up in the response cache, else one run of the agent, two looks at the  *)
(* deadline, the answer builder, and the put.  The executor's one worker calls *)
(* it, so one question is under way at a time (AnswerServer).  A run is what   *)
(* AgentRun returns, reduced to its outcome, whether it brought evidence, and  *)
(* whether a backend failed in it.                                             *)
EXTENDS ResponseCache

CONSTANT Runs   \* what the runner can return

ASSUME RunAssumption ==
  Runs \subseteq {run \in [outcome : {"completed", "information_limit", "failed_closed"},
                           evidence : BOOLEAN, failed : BOOLEAN] :
                    run.outcome = "completed" => run.evidence}

(* No entry is no entry, and no answer no answer.                              *)
ASSUME NothingAssumption ==
  /\ Nothing \notin Answers
  /\ Nothing \notin Entry
  /\ Nothing \notin [text : Spellings, answer : Answers, age : 0..Ttl]

Statuses == {"completed", "information_limit", "safe_fallback"}

(* What the builder can make of them.                                          *)
Responses == {a \in [run : Runs, status : Statuses] :
                a.run.outcome # "completed" => a.status # "completed"}

VARIABLES
  pc,        \* the part of answer that is executing
  asked,     \* the question, as it is written
  run,       \* what the runner returned
  response,  \* what the builder returned
  expired,   \* the deadline has passed or the request was cancelled
  returned   \* the last answer a caller got to each question (history)

serviceVars == <<pc, asked, run, response, expired, returned>>

Questions == [key : Keys, text : Spellings]

ServiceTypeOK ==
  /\ pc \in {"idle", "run", "check1", "build", "check2"}
  /\ asked \in Questions \cup {Nothing}
  /\ run \in Runs \cup {Nothing}
  /\ response \in Answers \cup {Nothing}
  /\ expired \in BOOLEAN
  /\ returned \in [Questions -> Answers \cup {Nothing}]
  /\ CacheTypeOK

ServiceInit ==
  /\ CacheInit
  /\ pc = "idle"
  /\ asked = Nothing
  /\ run = Nothing
  /\ response = Nothing
  /\ expired = FALSE
  /\ returned = [q \in Questions |-> Nothing]

-------------------------------------------------------------------------------

(* answer raises, or returns a to the question q.                              *)
Raise ==
  /\ pc' = "idle"
  /\ asked' = Nothing
  /\ run' = Nothing
  /\ response' = Nothing
  /\ expired' = FALSE
  /\ UNCHANGED returned

Return(q, a) ==
  /\ pc' = "idle"
  /\ asked' = Nothing
  /\ run' = Nothing
  /\ response' = Nothing
  /\ expired' = FALSE
  /\ returned' = [returned EXCEPT ![q] = a]

(* A cached answer is returned without a look at the deadline.                 *)
Ask(q) ==
  /\ pc = "idle"
  /\ \E ok \in BOOLEAN : Get(q.key, q.text, ok)
  /\ \/ served'.answer # Nothing /\ Return(q, served'.answer)
     \/ /\ served'.answer = Nothing
        /\ pc' = "run"
        /\ asked' = q
        /\ UNCHANGED <<run, response, expired, returned>>

(* The runner's source calls are what the process observes filings by.         *)
Observe == pc = "run" /\ NewFiling /\ UNCHANGED serviceVars

Expire ==
  /\ pc # "idle" /\ ~expired
  /\ expired' = TRUE
  /\ UNCHANGED <<cacheVars, pc, asked, run, response, returned>>

TimePasses == Tick /\ UNCHANGED serviceVars

EndRun ==
  /\ pc = "run"
  /\ UNCHANGED cacheVars
  /\ \/ Raise
     \/ /\ run' \in Runs
        /\ pc' = "check1"
        /\ UNCHANGED <<asked, response, expired, returned>>

(* The run found nothing because a backend failed: worth another try.          *)
Temporary(r) == r.outcome = "information_limit" /\ ~r.evidence /\ r.failed

(* A run of another release or question is refused as well.                    *)
FirstCheck ==
  /\ pc = "check1"
  /\ UNCHANGED cacheVars
  /\ \/ Raise
     \/ /\ ~expired
        /\ ~Temporary(run)
        /\ pc' = "build"
        /\ UNCHANGED <<asked, run, response, expired, returned>>

(* The builder answers from a completed run, with a safe fallback when neither *)
(* draft nor repair holds, and else states the limit; or it returns something  *)
(* that is no answer to this question.                                         *)
Build ==
  /\ pc = "build"
  /\ UNCHANGED cacheVars
  /\ \/ Raise
     \/ /\ response' \in {a \in Answers : a.run = run} \cup {Nothing}
        /\ pc' = "check2"
        /\ UNCHANGED <<asked, run, expired, returned>>

IdentityMatches == response # Nothing

Store == \E ok \in BOOLEAN : Put(asked.key, asked.text, response, ok)

SecondCheckTooLate ==   \* faulty variant: the answer is stored before the check
  /\ pc = "check2"
  /\ \/ ~IdentityMatches /\ Raise /\ UNCHANGED cacheVars
     \/ IdentityMatches /\ expired /\ Store /\ Raise
     \/ IdentityMatches /\ ~expired /\ Store /\ Return(asked, response)

SecondCheck ==
  /\ pc = "check2"
  /\ \/ (expired \/ ~IdentityMatches) /\ Raise /\ UNCHANGED cacheVars
     \/ ~expired /\ IdentityMatches /\ Store /\ Return(asked, response)

ServiceNext ==
  \/ \E q \in Questions : Ask(q)
  \/ Observe \/ Expire \/ TimePasses
  \/ EndRun \/ FirstCheck \/ Build \/ SecondCheck

ServiceSpec == ServiceInit /\ [][ServiceNext]_<<cacheVars, serviceVars>>

-------------------------------------------------------------------------------

Cached == {entries[k] : k \in {q \in Keys : entries[q] # Nothing}}

(* What is kept for a question is the last answer a caller got to it: a        *)
(* response that came too late, or that another spelling's answer evicted, is  *)
(* never reused, although a question that got an error may still have an       *)
(* answer of another spelling kept under its key (service.py:137-146).         *)
KeptWasReturned ==
  \A k \in Keys : entries[k] # Nothing =>
    returned[[key |-> k, text |-> entries[k].text]] = entries[k].answer

(* docs/reviews/CURRENT_ARCHITECTURE_REVIEW.md:328, service.py:53: transient    *)
(* failures do not enter the response cache.                                   *)
TransientFailuresNotKept ==
  \A e \in Cached : e.answer.run.failed => e.answer.run.outcome = "completed"
===============================================================================
