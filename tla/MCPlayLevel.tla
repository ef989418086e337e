----------------------------- MODULE MCPlayLevel -----------------------------
(* A level with one of each thing and two messes.                          *)
EXTENDS PlayLevel
=============================================================================
