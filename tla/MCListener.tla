----------------------------- MODULE MCListener -----------------------------
(***************************************************************************)
(* Instances of Listener for TLC.                                          *)
(***************************************************************************)
EXTENDS Listener, TLC

CONSTANTS p1, p2, h1, h2

Duo == {p1, p2}

Helpers == {h1, h2}

DuoSymmetry == Permutations(Duo) \cup Permutations(Helpers)
============================================================================
