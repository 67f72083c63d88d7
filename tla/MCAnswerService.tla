--------------------------- MODULE MCAnswerService ----------------------------
(* Instances of AnswerService for TLC: keys and spellings are interchangeable. *)
EXTENDS AnswerService, TLC

ServiceSymmetry == Permutations(Keys) \cup Permutations(Spellings)

AnyRun == {r \in [outcome : {"completed", "information_limit", "failed_closed"},
                    evidence : BOOLEAN, failed : BOOLEAN] :
             r.outcome = "completed" => r.evidence}

(* A run that succeeds, and one that finds nothing because a backend failed.   *)
TwoRuns == {[outcome |-> "completed", evidence |-> TRUE, failed |-> FALSE],
            [outcome |-> "information_limit", evidence |-> FALSE, failed |-> TRUE]}

OneAnswerEach == {a \in Responses : a.status = a.run.outcome}
===============================================================================
