---------------------------- MODULE AnswerContract ----------------------------
(* What a client of GET /answer may rely on, whatever the server does inside:  *)
(* an admitted request joins the end of one line, only the head of the line is *)
(* answered, it is answered once, and the line keeps moving.                   *)
EXTENDS Naturals, Sequences

CONSTANT Requests

VARIABLES line, reply

vars == <<line, reply>>

Init ==
  /\ line = <<>>
  /\ reply = [r \in Requests |-> 0]

Refuse(r) ==
  /\ reply[r] = 0
  /\ \A i \in 1..Len(line) : line[i] # r
  /\ reply' = [reply EXCEPT ![r] = 422]
  /\ UNCHANGED line

Admit(r) ==
  /\ reply[r] = 0
  /\ \A i \in 1..Len(line) : line[i] # r
  /\ line' = Append(line, r)
  /\ UNCHANGED reply

Answer(s) ==
  /\ line # <<>>
  /\ line' = Tail(line)
  /\ reply' = [reply EXCEPT ![Head(line)] = s]

AnswerHead == \E s \in {200, 503} : Answer(s)

Next == AnswerHead \/ \E r \in Requests : Refuse(r) \/ Admit(r)

Spec == Init /\ [][Next]_vars /\ WF_vars(AnswerHead)
===============================================================================
