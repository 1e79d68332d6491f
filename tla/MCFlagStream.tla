---------------------------- MODULE MCFlagStream ---------------------------
(***************************************************************************)
(* FlagStream for TLC: connections and reloaders are interchangeable.      *)
(***************************************************************************)
EXTENDS FlagStream, TLC

Symmetry == Permutations(Conns) \cup Permutations(Reloaders)
=============================================================================
