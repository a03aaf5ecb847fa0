------------------------------ MODULE MCLocking ------------------------------
(* The runs of Locking: flows are model values, numbers are given in the    *)
(* configurations.                                                          *)
EXTENDS Locking
=============================================================================
