-------------------------------- MODULE Totals --------------------------------
(***************************************************************************)
(* The sum of a column over a set of rows: the reduce((s, x) => s + ...)   *)
(* and the SUM(...) of the services, whose result does not depend on the   *)
(* order of the rows.                                                      *)
(***************************************************************************)
EXTENDS FiniteSetsExt

Total(f, S) == MapThenSumSet(LAMBDA x : f[x], S)
=============================================================================
