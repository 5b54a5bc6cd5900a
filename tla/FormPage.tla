------------------------------ MODULE FormPage ------------------------------
(***************************************************************************)
(* The words a form is described in.  One field of a form is a record:      *)
(*                                                                         *)
(*   values  what the field can hold, in classes the code tells apart       *)
(*   types   for what is there, what a person can make of it at once        *)
(*   likes   for what was typed, what the field may show that honours it    *)
(*   records what the server may hold before                                *)
(*   first   what the field shows before anything is read                   *)
(*   reads   "none": nothing; "behind": the form is hidden until it is read; *)
(*           "beside": the form can be filled while it is read              *)
(*   shows   what the field shows of what was read                          *)
(*   unread  what it shows where reading failed: None where there is no form *)
(*   again   it is read again later, whatever has been typed                *)
(*   cached  the server answers from a cache no save clears                 *)
(*   edits   the form is opened from a page, and filled when it is opened   *)
(*   fills   what fills the field in by itself, or when it is pressed        *)
(*   early   what is let through to the next step of a form in steps        *)
(*   checks  what is let through to the server                              *)
(*   sends   what is sent for what is shown, None where it is left out      *)
(*   stores  what the server makes of what is sent: none where it refuses   *)
(*   ages    what time makes of a value                                     *)
(*   draft   the form is kept on the device                                 *)
(*   kept    the form is hidden and not taken down when it is left: what fills *)
(*           it in may still arrive in the next one                          *)
(*   creates the form creates a record, and does not change one             *)
(*   others  what the record may become by other hands                      *)
(***************************************************************************)
EXTENDS Naturals, FiniteSets

CONSTANT None

Left == "left"   \* in place of what a field held, in a form since left

Same(values) == [v \in values |-> v]
Only(values) == [v \in values |-> {v}]
Refusing(values, bad) == [v \in values |-> IF v \in bad THEN {} ELSE {v}]
NoFills == [f \in {} |-> {}]

(* A form that creates a record: nothing is read, all of it is sent.        *)
Creation(values, types) ==
    [values |-> values, types |-> [v \in values |-> types \ {v}], likes |-> Only(values), records |-> {"nothing"},
     first |-> "", reads |-> "none", shows |-> Same({"nothing"}), unread |-> None,
     again |-> FALSE, cached |-> FALSE, edits |-> FALSE, fills |-> NoFills, early |-> values,
     checks |-> values, sends |-> Same(values), stores |-> Only(values),
     ages |-> Same(values), draft |-> FALSE, kept |-> FALSE, creates |-> TRUE, others |-> {}]

(* A form that shows a record and saves it whole.                           *)
Change(values, types, records) ==
    [Creation(values, types) EXCEPT
        !.records = records, !.reads = "behind", !.shows = Same(values), !.creates = FALSE,
        !.others = records]

(* A page whose "edit" button opens such a form on what the page shows.     *)
Edition(values, types, records) == [Change(values, types, records) EXCEPT !.edits = TRUE]

(* What fills a field in: asked when a button is pressed, or by the page;   *)
(* put in for what the field held when it was asked and what it holds now.  *)
Fill(pressed, values, put(_, _)) ==
    [pressed |-> pressed, put |-> [p \in (values \cup {Left}) \X values |-> put(p[1], p[2])]]
Overwrites(pressed, values, results) ==
    LET put(was, now) == results IN Fill(pressed, values, put)
IfEmpty(values, results) ==
    LET put(was, now) == IF now = "" THEN results ELSE {now} IN Fill(FALSE, values, put)
IfWasEmpty(values, results) ==
    LET put(was, now) == IF was = "" THEN results ELSE {now} IN Fill(FALSE, values, put)
=============================================================================
