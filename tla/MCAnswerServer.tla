---------------------------- MODULE MCAnswerServer ----------------------------
(* Instances of AnswerServer for TLC.  Requests are interchangeable, but       *)
(* liveness is checked, so their symmetry is not used.                         *)
EXTENDS AnswerServer, TLC
===============================================================================
