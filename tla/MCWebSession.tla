---------------------------- MODULE MCWebSession ----------------------------
(* One browser with two tabs.                                              *)
EXTENDS WebSession, TLC

Symmetric == Permutations(Accounts) \cup Permutations(Tabs) \cup Permutations(Calls)

(* Nothing is claimed of a browser in which two sessions have mixed.       *)
Unmixed == ~crossed

=============================================================================
