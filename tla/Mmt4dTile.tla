------------------------------ MODULE Mmt4dTile ------------------------------
(***************************************************************************)
(* What a call of an mmt4d tile function promises: one step replaces the    *)
(* output tile by the (accumulated) product of the two panels.  Elements   *)
(* are symbolic: the old element or zero, and the products added to it,    *)
(* each a pair of the matrix coordinates of an LHS and an RHS value.       *)
(***************************************************************************)
EXTENDS Integers, Sequences

CONSTANT Shapes   \* the tile products that may be asked for

VARIABLES shape, tile, returned

vars == <<shape, tile, returned>>

Cells(s) == (0 .. s.M - 1) \X (0 .. s.N - 1)
Old(s) == [cell \in Cells(s) |-> [base |-> cell, terms |-> <<>>]]
Product(s) ==
  [cell \in Cells(s) |->
     [base |-> IF s.accumulate THEN cell ELSE <<>>,
      terms |-> [x \in 1 .. s.K |-> <<<<cell[1], x - 1>>, <<cell[2], x - 1>>>>]]]

Init == shape \in Shapes /\ tile = Old(shape) /\ returned = FALSE
Compute == ~returned /\ tile' = Product(shape) /\ returned' = TRUE /\ UNCHANGED shape
Safety == Init /\ [][Compute]_vars
Spec == Safety /\ WF_vars(Compute)
=============================================================================
