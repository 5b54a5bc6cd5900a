--------------------------- MODULE MCFormScreens ---------------------------
(* Every field of FormScreens, each on its own.                            *)
EXTENDS FormScreens
=============================================================================
