------------------------------ MODULE Optional ------------------------------
(* The None of the code, for fields that hold a number or nothing. *)
EXTENDS Integers

CONSTANT None

ASSUME NoneAssumption == None \notin Int
=============================================================================
