------------------------------ MODULE Quantities ------------------------------
(***************************************************************************)
(* Adding up the quantities of rows.                                       *)
(***************************************************************************)
EXTENDS FiniteSetsExt

TotalQty(S) == MapThenSumSet(LAMBDA a : a.qty, S)

===============================================================================
