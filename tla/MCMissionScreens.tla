-------------------------- MODULE MCMissionScreens --------------------------
(***************************************************************************)
(* One owner and two others: the client of a mission and two transporters,  *)
(* or the transporter of a return trip and two clients, who are alike.      *)
(***************************************************************************)
EXTENDS MissionScreens

Alike == Permutations(Others)
=============================================================================
