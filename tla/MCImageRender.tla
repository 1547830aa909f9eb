--------------------------- MODULE MCImageRender ----------------------------
(***************************************************************************)
(* Model-checking instance of ImageRender.  File bounds how many names are *)
(* taken at once, by calls, drawings and files left behind; when none is   *)
(* free no request arrives.                                                *)
(***************************************************************************)
EXTENDS ImageRender
=============================================================================
