----------------------------- MODULE FreshAnswers -----------------------------
(* What the response cache promises the service: an answer may be reused for   *)
(* exactly the question it was given to, until its time is up, and no answer   *)
(* survives the moment at which a newer filing is observed.                    *)
EXTENDS Naturals

CONSTANTS Keys, Spellings, Answers, Nothing, Ttl

VARIABLES
  valid,   \* the answer that may be reused for each key, with its age
  served   \* the last look-up and what it returned

vars == <<valid, served>>

Init ==
  /\ valid = [k \in Keys |-> Nothing]
  /\ served = Nothing

(* Answers may always be forgotten.                                            *)
Forgetting(kept) ==
  /\ DOMAIN valid' = Keys
  /\ \A k \in Keys : valid'[k] = kept[k] \/ valid'[k] = Nothing

Store(k, t, a) ==
  /\ Forgetting([valid EXCEPT ![k] = [text |-> t, answer |-> a, age |-> 0]])
  /\ UNCHANGED served

Reuse(k, t) ==
  /\ valid[k] # Nothing
  /\ valid[k].text = t
  /\ served' = [key |-> k, text |-> t, answer |-> valid[k].answer]
  /\ UNCHANGED valid

Miss(k, t) ==
  /\ Forgetting(valid)
  /\ served' = [key |-> k, text |-> t, answer |-> Nothing]

NewFiling ==
  /\ valid' = [k \in Keys |-> Nothing]
  /\ UNCHANGED served

Aged(v) == IF v = Nothing \/ v.age + 1 = Ttl THEN Nothing ELSE [v EXCEPT !.age = @ + 1]

Tick ==
  /\ valid' = [k \in Keys |-> Aged(valid[k])]
  /\ UNCHANGED served

Forget == Forgetting(valid) /\ UNCHANGED served

Next ==
  \/ \E k \in Keys, t \in Spellings : Reuse(k, t) \/ Miss(k, t)
  \/ \E k \in Keys, t \in Spellings, a \in Answers : Store(k, t, a)
  \/ NewFiling \/ Tick \/ Forget

Spec == Init /\ [][Next]_vars
===============================================================================
