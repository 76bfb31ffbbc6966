------------------------------ MODULE MCSubTurn ------------------------------
(* Small instance of the sub-turns for TLC. *)
EXTENDS SubTurn
===============================================================================
