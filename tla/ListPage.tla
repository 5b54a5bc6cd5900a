------------------------------ MODULE ListPage ------------------------------
(***************************************************************************)
(* The words a list screen is described in.  A screen is a record:          *)
(*                                                                         *)
(*   shows   for each choice of its tabs and filters, the statuses whose    *)
(*           rows it lists                                                 *)
(*   counts  for each tab with a number, the statuses it counts among the   *)
(*           rows it has                                                   *)
(*   reads   how it reads its rows                                         *)
(*   offers  for each status, the acts offered on a row in it               *)
(*   acts    what it does with each act and with its answer                 *)
(*   serves  for each act and status, the statuses the server may leave the *)
(*           row in: none where it refuses                                 *)
(*   moves   for each status, what others may make of it                    *)
(***************************************************************************)
EXTENDS Naturals, FiniteSets, TLC

CONSTANT None

(* How a page reads: a hook or an effect without any guard, whose rows stay *)
(* while it reads again and when that fails, and which reads when it is     *)
(* mounted and after an act only.                                          *)
Plain ==
    [server |-> FALSE,    \* the filter goes to the server with each reading
     drops |-> FALSE,     \* the answer to any reading but the last is dropped
     hides |-> FALSE,     \* the rows are hidden while it reads
     clears |-> FALSE,    \* and forgotten
     blanks |-> FALSE,    \* an error takes the place of the rows
     again |-> FALSE,     \* it polls, or can be asked to read again
     query |-> FALSE]     \* the first reading is not sent twice, and an error
                          \* stands until the next answer

(* What becomes of an act.                                                 *)
Reread ==
    [asks |-> FALSE,      \* a dialog names the row before it is sent
     stays |-> FALSE,     \* the dialog is still there when the act has failed
     shuts |-> FALSE,     \* it closes when the act is sent
     after |-> "read",    \* done: the page reads again, writes the answer into
                          \* the row, wrote it when it was sent, does nothing,
                          \* does nothing and keeps what the act has changed,
                          \* adds it to the row, or reads again if the answer
                          \* is what the row showed and else writes it
     always |-> FALSE,    \* it reads again when the act has failed too
     locks |-> TRUE,      \* the server holds the row from its test to its write
     mute |-> FALSE]      \* confirming sends nothing
Write == [Reread EXCEPT !.after = "write"]
Hope == [Reread EXCEPT !.after = "hope"]
Forget == [Reread EXCEPT !.after = "none"]
Untold == [Reread EXCEPT !.after = "untold"]
AddOn == [Reread EXCEPT !.after = "add"]
Either == [Reread EXCEPT !.after = "either"]
Ask(act) == [act EXCEPT !.asks = TRUE, !.stays = TRUE]
AskOnce(act) == [act EXCEPT !.asks = TRUE]
Shut(act) == [act EXCEPT !.asks = TRUE, !.shuts = TRUE]
Unlocked(act) == [act EXCEPT !.locks = FALSE]

(* A tab for each status, and one for all of them.                          *)
Tabs(statuses) == [c \in statuses |-> {c}]
AllAnd(statuses, all) == [c \in statuses \cup {"ALL"} |-> IF c = "ALL" THEN all ELSE {c}]
NoCounts == [c \in {} |-> {}]
NoActs == [a \in {} |-> {}]

(* An act that turns every status of one set into another one.              *)
Turns(statuses, from, to) == [s \in statuses |-> IF s \in from THEN {to} ELSE {}]
=============================================================================
