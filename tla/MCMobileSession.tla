-------------------------- MODULE MCMobileSession --------------------------
(* One phone that two people share.                                        *)
EXTENDS MobileSession, TLC

CONSTANTS c1, c2

(* One call refreshes lists, the other does everything a screen may do.    *)
OneListsOneActs == [c \in Calls |-> IF c = c1 THEN {"read"} ELSE Kinds]

PhoneSymmetry == Permutations(Accounts)


(* Nothing is claimed of a phone on which two sessions have mixed.         *)
Unmixed == ~crossed

=============================================================================
