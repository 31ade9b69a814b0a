---------------------------- MODULE MCM68kFlags ----------------------------
(***************************************************************************)
(* Every pair of operands of an eight-bit long: all combinations of signs, *)
(* carries and overflows.                                                  *)
(***************************************************************************)
EXTENDS M68kFlags
=============================================================================
