------------------------------- MODULE MCSessions -------------------------------
(* Two devices of one user.                                                *)
EXTENDS Sessions

CONSTANTS tablet, terminal
=============================================================================
