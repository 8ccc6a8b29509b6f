---------------------------- MODULE MCDataLimit -----------------------------
(***************************************************************************)
(* DataLimit for TLC: two SIMs and two interfaces, that nothing tells      *)
(* apart; the configurations choose the period.                            *)
(***************************************************************************)
EXTENDS DataLimit, TLC

SimSymmetry == Permutations(Sims) \cup Permutations(Ifaces)

====
