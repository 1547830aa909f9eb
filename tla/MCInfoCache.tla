---------------------------- MODULE MCInfoCache -----------------------------
(***************************************************************************)
(* Model-checking instance of InfoCache.  The threads are model values; no *)
(* bound is needed, every variable ranges over a finite set.  There is no  *)
(* symmetry set: the runs check temporal properties.                       *)
(***************************************************************************)
EXTENDS InfoCache
=============================================================================
