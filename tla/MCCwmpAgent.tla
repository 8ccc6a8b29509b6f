---------------------------- MODULE MCCwmpAgent -----------------------------
(* Small instances of CwmpAgent for TLC.                                   *)
EXTENDS CwmpAgent, TLC

\* Requests are interchangeable, and so are URLs.
Symmetry == Permutations(Downloads) \cup Permutations(Urls)
=============================================================================
