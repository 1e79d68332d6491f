---------------------------- MODULE MCGovernance ---------------------------
(***************************************************************************)
(* Governance for TLC: handlers and schedulers are interchangeable.        *)
(***************************************************************************)
EXTENDS Governance, TLC

Symmetry == Permutations(Handlers) \cup Permutations(Schedulers)
=============================================================================
