--------------------------- MODULE MCListScreens ---------------------------
(* One item on every screen of ListScreens.                                *)
EXTENDS ListScreens
=============================================================================
