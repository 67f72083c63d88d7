------------------------------- MODULE MCReleases ------------------------------
(* Instances of Releases for TLC.                                              *)
EXTENDS Releases, TLC

CONSTANTS b1, b2

AllTools == DOMAIN Course

Symmetry == Permutations({b1, b2})
===============================================================================
