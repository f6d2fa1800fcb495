------------------------------- MODULE MCLists -------------------------------
(***************************************************************************)
(* Constants for the runs of Lists and Margin.                             *)
(***************************************************************************)
EXTENDS Margin

R(status, flag, created, closed) ==
  [status |-> status, flag |-> flag, created |-> created, closed |-> closed]

(* Three rows, two of them of one transaction, and one still to come. *)
MCRows ==
  LET kind(created) == {R("open", FALSE, created, 1), R("open", TRUE, created, 1),
                        R("closed", FALSE, created, 1), R("closed", FALSE, created, 2),
                        R("closed", TRUE, created, 1)}
      absent == R("absent", FALSE, 1, 1)
  IN {<<a, b, c, absent>> : a \in kind(1), b \in kind(2), c \in kind(2)}

(* Product 1 is sold in orders 1 and 2, product 2 in 1, and product 3 for 1 *)
(* in order 3 and for nothing in order 2.                                   *)
MCRevenue ==
  << <<2, 3, NotSold>>, <<2, NotSold, 0>>, <<NotSold, NotSold, 1>>,
     <<NotSold, NotSold, NotSold>> >>

===============================================================================
