--------------------------- MODULE MCMmt4dXsmtvdot ---------------------------
(***************************************************************************)
(* Calls for model checking Mmt4dXsmtvdot, and its refinement of Mmt4dTile. *)
(***************************************************************************)
EXTENDS Mmt4dXsmtvdot

MCCalls ==
  [MT : 1 .. 2, atom : {4}, K : 0 .. 2, accumulate : BOOLEAN, vlen : {256, 512}]
    \cup [MT : {3}, atom : {4}, K : {1, 2}, accumulate : BOOLEAN, vlen : {256}]
    \cup [MT : {1}, atom : {8}, K : {1}, accumulate : {TRUE}, vlen : {1024}]
    \cup [MT : {1}, atom : {4}, K : {5}, accumulate : BOOLEAN, vlen : {256}]
=============================================================================
