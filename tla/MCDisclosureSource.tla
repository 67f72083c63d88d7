-------------------------- MODULE MCDisclosureSource --------------------------
(* DisclosureSource for TLC: a report with two corrections, and another one in *)
(* between.                                                                    *)
EXTENDS DisclosureSource

Reports == <<"a", "a", "b", "a">>
===============================================================================
