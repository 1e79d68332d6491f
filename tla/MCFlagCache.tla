---------------------------- MODULE MCFlagCache ----------------------------
(***************************************************************************)
(* FlagCache for TLC: FlagCache.cfg gives the constants their values.  No  *)
(* symmetry is declared, since the run checks a temporal property.         *)
(***************************************************************************)
EXTENDS FlagCache
=============================================================================
