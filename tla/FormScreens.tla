---------------------------- MODULE FormScreens ----------------------------
(***************************************************************************)
(* A person before one field of one form, the server, and everybody else.   *)
(*                                                                         *)
(* The field is read, typed in, filled in by answers that arrive late, kept  *)
(* as a draft, and sent; the call is accepted, refused or lost.  Three       *)
(* ghosts remember what the person meant: what was typed last, whether what  *)
(* is shown is the person's, and what the person has saved.                  *)
(***************************************************************************)
EXTENDS PublishForms, AccountForms

Fields ==
    [p \in DOMAIN PublishFields \cup DOMAIN AccountFields |->
        IF p \in DOMAIN PublishFields THEN PublishFields[p] ELSE AccountFields[p]]

VARIABLES
    scr,       \* the field
    rec,       \* what the server holds
    cache,     \* what it answers instead, or None
    val,       \* what the field holds
    seen,      \* what was read last, or None
    reading,   \* None, Sent, or the answer on its way
    loaded,    \* the form has something to show
    open,      \* the form is there
    step,      \* "fill", or "sure": past the step that checks the field
    asked,     \* for each fill on its way, what the field held, or None
    call,      \* the save on its way, or None
    draft,     \* what the device keeps, or None
    hand,      \* what was typed last and not saved, or None: a ghost
    own,       \* what is shown was typed or asked for: a ghost
    mine       \* what the person knows to have saved, and nobody changed: a ghost

vars == <<scr, rec, cache, val, seen, reading, loaded, open, step, asked, call, draft,
          hand, own, mine>>
server == <<rec, cache>>
page == <<seen, reading, loaded>>
ghosts == <<hand, own, mine>>

Field == Fields[scr]
Fills == DOMAIN Field.fills
Sent == "asked"
Idle == [f \in Fills |-> None]
(* Mutated: a form that creates reads as well.                              *)
Mut_FirstReading == Sent

FirstReading == IF Field.reads = "none" THEN None ELSE Sent

Init ==
    /\ scr \in DOMAIN Fields
    /\ rec \in Field.records
    /\ cache = None /\ call = None
    /\ val = Field.first
    /\ draft = IF Field.draft THEN [val |-> val, step |-> "fill"] ELSE None
    /\ seen = None
    /\ reading = FirstReading
    /\ loaded = (Field.reads # "behind")
    /\ open = ~Field.edits
    /\ step = "fill"
    /\ asked = Idle
    /\ hand = None /\ own = FALSE /\ mine = None

Usable == open /\ loaded /\ (Field.reads = "behind" => reading = None \/ Field.edits)
Keep(v, s) == draft' = IF Field.draft THEN [val |-> v, step |-> s] ELSE draft

-----------------------------------------------------------------------------
(* Reading.  A page that is not a form to be opened copies what it reads    *)
(* into the field, over what is there.                                     *)

Serve ==
    /\ reading = Sent
    /\ reading' = IF Field.cached /\ cache # None THEN cache ELSE rec
    /\ cache' = IF Field.cached /\ cache = None THEN rec ELSE cache
    /\ UNCHANGED <<scr, rec, val, seen, loaded, open, step, asked, call, draft, ghosts>>

ReadDone ==
    /\ reading \notin {None, Sent}
    /\ reading' = None
    /\ seen' = reading
    /\ loaded' = TRUE
    /\ IF Field.edits THEN UNCHANGED <<val, own>>
       ELSE IF Field.shows[reading] = None THEN UNCHANGED <<val, own>>
       ELSE val' = Field.shows[reading] /\ own' = FALSE
    /\ UNCHANGED <<scr, server, open, step, asked, call, draft, hand, mine>>

ReadFail ==
    /\ reading # None
    /\ reading' = None
    /\ IF loaded \/ Field.unread = None THEN UNCHANGED <<val, loaded>>
       ELSE val' = Field.unread /\ loaded' = TRUE
    /\ UNCHANGED <<scr, server, seen, open, step, asked, call, draft, ghosts>>

Again ==
    /\ reading = None /\ Field.reads # "none"
    /\ Field.again \/ ~loaded
    /\ reading' = Sent
    /\ UNCHANGED <<scr, server, val, seen, loaded, open, step, asked, call, draft, ghosts>>

-----------------------------------------------------------------------------
(* Filling in.                                                             *)

Edit ==
    /\ ~open /\ loaded /\ Field.edits /\ seen # None
    /\ open' = TRUE
    /\ val' = Field.shows[seen]
    /\ step' = "fill"
    /\ hand' = None /\ own' = FALSE
    /\ UNCHANGED <<scr, server, page, asked, call, draft, mine>>

Cancel ==
    /\ open /\ Field.edits /\ call = None
    /\ open' = FALSE
    /\ UNCHANGED <<scr, server, val, page, step, asked, call, draft, ghosts>>

Type(v) ==
    /\ Usable /\ step = "fill"
    /\ v \in Field.types[val]
    /\ val' = v
    /\ hand' = v /\ own' = TRUE
    /\ Keep(v, step)
    /\ UNCHANGED <<scr, server, page, open, step, asked, call, mine>>

Ask(f) ==
    /\ Usable /\ asked[f] = None
    /\ Field.fills[f].pressed => step = "fill"
    /\ asked' = [asked EXCEPT ![f] = val]
    /\ hand' = IF Field.fills[f].pressed THEN None ELSE hand
    /\ UNCHANGED <<scr, server, val, page, open, step, call, draft, own, mine>>

FillDone(f) ==
    /\ asked[f] # None
    /\ asked' = [asked EXCEPT ![f] = None]
    /\ \E v \in Field.fills[f].put[<<asked[f], val>>] : val' = v /\ Keep(v, step)
    /\ own' = (own \/ (Field.fills[f].pressed /\ asked[f] # Left))
    /\ UNCHANGED <<scr, server, page, open, step, call, hand, mine>>

FillFail(f) ==
    /\ asked[f] # None
    /\ asked' = [asked EXCEPT ![f] = None]
    /\ UNCHANGED <<scr, server, val, page, open, step, call, draft, ghosts>>

(* Time passes: what was a date to come is one no longer.                   *)
Age ==
    /\ open /\ Field.ages[val] # val
    /\ val' = Field.ages[val]
    /\ hand' = IF hand = val THEN val' ELSE hand
    /\ draft' = IF draft = None THEN None ELSE [draft EXCEPT !.val = Field.ages[@]]
    /\ UNCHANGED <<scr, server, page, open, step, asked, call, own, mine>>

(* Mutated: the next step is there whatever is in the field.                *)
Mut_Check ==
    /\ Usable /\ step = "fill"
    /\ step' = "sure"
    /\ Keep(val, "sure")
    /\ UNCHANGED <<scr, server, val, page, open, asked, call, ghosts>>

Check ==
    /\ Usable /\ step = "fill"
    /\ val \in Field.early
    /\ step' = "sure"
    /\ Keep(val, "sure")
    /\ UNCHANGED <<scr, server, val, page, open, asked, call, ghosts>>

Back ==
    /\ Usable /\ step = "sure" /\ call = None
    /\ step' = "fill"
    /\ Keep(val, "fill")
    /\ UNCHANGED <<scr, server, val, page, open, asked, call, ghosts>>

(* The page is left, and opened again: a draft is put back, and the step.   *)
(* Mutated: the step alone is put back.                                     *)
Mut_Return ==
    /\ open' = ~Field.edits
    /\ val' = Field.first
    /\ step' = IF draft = None THEN "fill" ELSE draft.step
    /\ seen' = None
    /\ reading' = FirstReading
    /\ loaded' = (Field.reads # "behind")
    /\ asked' = IF Field.kept THEN [f \in Fills |-> IF asked[f] = None THEN None ELSE Left] ELSE Idle
    /\ call' = None
    /\ Keep(val', step')
    /\ hand' = IF draft = None THEN None ELSE hand
    /\ own' = (own /\ draft # None)
    /\ UNCHANGED <<scr, server, mine>>

Return ==
    /\ open' = ~Field.edits
    /\ val' = IF draft = None THEN Field.first ELSE draft.val
    /\ step' = IF draft = None THEN "fill" ELSE draft.step
    /\ seen' = None
    /\ reading' = FirstReading
    /\ loaded' = (Field.reads # "behind")
    /\ asked' = IF Field.kept THEN [f \in Fills |-> IF asked[f] = None THEN None ELSE Left] ELSE Idle
    /\ call' = None
    /\ Keep(val', step')
    /\ hand' = IF draft = None THEN None ELSE hand
    /\ own' = (own /\ draft # None)
    /\ UNCHANGED <<scr, server, mine>>

-----------------------------------------------------------------------------
(* Saving: one call at a time.                                              *)

Send ==
    /\ Usable /\ call = None /\ step = "sure"
    /\ val \in Field.checks
    /\ call' = [value |-> Field.sends[val], shown |-> val, own |-> own, seen |-> seen, res |-> None,
                 got |-> "sent"]
    /\ UNCHANGED <<scr, server, val, page, open, step, asked, draft, ghosts>>

Results ==
    IF call.value # None THEN Field.stores[call.value]
    ELSE {IF Field.creates THEN "" ELSE rec}

Accept ==
    /\ call # None /\ call.got = "sent"
    /\ rec' \in Results
    /\ call' = [call EXCEPT !.got = "done", !.res = rec']
    /\ hand' = IF hand = call.shown THEN None ELSE hand
    /\ UNCHANGED <<scr, cache, val, page, open, step, asked, draft, own, mine>>

Refuse ==
    /\ call # None /\ call.got = "sent"
    /\ Results = {}
    /\ call' = [call EXCEPT !.got = "failed"]
    /\ UNCHANGED <<scr, server, val, page, open, step, asked, draft, ghosts>>

(* The call, or its answer, is lost.                                        *)
Lose ==
    /\ call # None /\ call.got \in {"sent", "done"}
    /\ call' = [call EXCEPT !.got = "failed"]
    /\ mine' = IF call.got = "done" THEN None ELSE mine
    /\ UNCHANGED <<scr, server, val, page, open, step, asked, draft, hand, own>>

(* The answer is what has been stored: an edited page shows it.             *)
(* Mutated: the page goes on showing what it had read.                      *)
Mut_Answered ==
    /\ call # None /\ call.got = "done"
    /\ call' = None
    /\ open' = ~(Field.edits \/ Field.creates)
    /\ step' = "fill"
    /\ draft' = IF Field.creates THEN None ELSE draft
    /\ mine' = IF call.own /\ rec = call.shown THEN rec ELSE mine
    /\ UNCHANGED <<scr, server, val, page, asked, hand, own>>

Answered ==
    /\ call # None /\ call.got = "done"
    /\ call' = None
    /\ open' = ~(Field.edits \/ Field.creates)
    /\ step' = "fill"
    /\ seen' = IF Field.edits \/ (~Field.creates /\ val = call.shown) THEN call.res ELSE seen
    /\ draft' = IF Field.creates THEN None ELSE draft
    /\ mine' = IF call.own /\ rec = call.shown THEN rec ELSE mine
    /\ UNCHANGED <<scr, server, val, reading, loaded, asked, hand, own>>

Failed ==
    /\ call # None /\ call.got = "failed"
    /\ call' = None
    /\ UNCHANGED <<scr, server, val, page, open, step, asked, draft, ghosts>>

-----------------------------------------------------------------------------

Others ==
    /\ rec' \in Field.others \ {rec}
    /\ mine' = None
    /\ UNCHANGED <<scr, cache, val, page, open, step, asked, call, draft, hand, own>>

CacheExpires ==
    /\ cache # None
    /\ cache' = None
    /\ UNCHANGED <<scr, rec, val, page, open, step, asked, call, draft, ghosts>>

Next ==
    \/ Serve \/ ReadDone \/ ReadFail \/ Again
    \/ Edit \/ Cancel \/ Age \/ Check \/ Back \/ Return
    \/ \E v \in Field.values : Type(v)
    \/ \E f \in Fills : Ask(f) \/ FillDone(f) \/ FillFail(f)
    \/ Send \/ Accept \/ Refuse \/ Lose \/ Answered \/ Failed
    \/ Others \/ CacheExpires

Spec == Init /\ [][Next]_vars

-----------------------------------------------------------------------------

(* Every variable holds what it is declared to hold.                        *)
TypeOK ==
    /\ scr \in DOMAIN Fields
    /\ rec \in Field.records \cup Field.values
    /\ val \in Field.values \cup {Field.first}
    /\ {cache, seen, mine} \subseteq Field.records \cup Field.values \cup {None}
    /\ reading \in Field.records \cup Field.values \cup {None, Sent}
    /\ {loaded, open, own} \subseteq BOOLEAN
    /\ step \in {"fill", "sure"}
    /\ asked \in [Fills -> Field.values \cup {Left, None}]
    /\ hand \in Field.values \cup {None}
    /\ call # None => call.value \in Field.values \cup {None} /\ call.shown \in Field.values
    /\ draft # None => draft.val \in Field.values

(* What is known to take the place of what was typed: the position of the   *)
(* device, an upload started before a photograph was removed, an estimate   *)
(* asked for before a price was typed, and what was read again since.        *)
OverwrittenIn(p) ==
    CASE p = "demandAddress" -> {"located", "long"}
      [] p = "demandGovernorate" -> {"located"}
      [] p = "demandPhotos" -> {"old and new"}
      [] p \in {"demandBudget", "phonePrice"} -> {"estimate"}
      [] OTHER -> {}
KnownOverwritten == OverwrittenIn(scr) \cup {v \in Field.values : Field.again /\ ~own}

(* What a person has typed stays in the form until it is saved, replaced or  *)
(* given up: no answer to what was asked before, no step back, refused save *)
(* or return to the page takes it away, but for the known cases.            *)
TypedIsShown ==
    (open /\ hand # None) => val \in Field.likes[hand] \cup KnownOverwritten

(* What forms are known to send for the server to refuse.                   *)
RefusedIn(p) ==
    CASE p \in {"demandAddress", "phoneAddress", "requestPickup", "transporterSpecs"} -> {"long"}
      [] p \in {"demandSchedule", "tripDeparture", "phoneDeparture"} -> {"past"}
      [] p \in {"accountPassword", "phonePassword"} -> {"common", "short"}
      [] p \in {"clientPhone", "transporterPhone"} -> {""}
      [] p = "transporterCapacity" -> {"two decimals"}
      [] p \in {"addressLabel", "phoneLabel"} -> {"taken"}
      [] p = "requestWeight" -> {"above the capacity"}
      [] p = "requestPrice" -> {"zero", "above the cash ceiling"}
      [] p = "phoneDocument" -> {"wrong date"}
      [] p = "phoneWithdrawal" -> {"above the balance"}
      [] p = "phoneDispute" -> {"too long"}
      [] OTHER -> {}
KnownRefusedForms == RefusedIn(scr)

(* What a form has let through its steps and checks the server accepts, be  *)
(* it late, restored from a draft or filled in after the check.             *)
SentIsAccepted ==
    (call # None /\ call.got = "sent" /\ call.shown \notin KnownRefusedForms)
        => call.value = None \/ Field.stores[call.value] # {}

(* Where a form is known to save what nobody meant: a capacity cannot be    *)
(* taken away; hours without a day are left out; a photograph sent from a   *)
(* request since closed is put into the next; a field that was never read   *)
(* is saved as the page was written; and a form read through a cache, or    *)
(* read again, puts back what its person has replaced.                      *)
KnownUnmeant ==
    \/ scr = "transporterCapacity" /\ call.shown = "" /\ rec' = rec
    \/ scr = "requestSlot" /\ call.shown = "hours alone" /\ rec' = ""
KnownLeaked == scr = "requestPhotos"
KnownGuess == call.seen = None /\ rec' = Field.unread
KnownUndone == Field.cached \/ Field.again

(* What a form offers by itself: what it starts from, as time makes of it,    *)
(* and what the page fills in.                                             *)
OfferedBy(F) ==
    LET aged(v) == IF v \in DOMAIN F.ages THEN {v, F.ages[v], F.ages[F.ages[v]]} ELSE {v}
        byPage == {f \in DOMAIN F.fills : ~F.fills[f].pressed}
    IN  aged(F.first) \cup UNION {F.fills[f].put[p] : f \in byPage, p \in F.values \X {F.first, ""}}
Offered == OfferedBy(Field)

(* A save does what its person meant by it.  What was typed or asked for is *)
(* stored as it was shown; what was not touched stays, or is put back as it *)
(* was read, but never over what the same person has saved since; and a new *)
(* record holds nothing that was neither typed or asked for in its own form *)
(* nor put there by the form itself.                                       *)
Saved == call # None /\ call.got = "sent" /\ call' # None /\ call'.got = "done"
SavedIsMeant ==
    [][Saved =>
          IF Field.creates \/ call.own
          THEN /\ rec' = call.shown \/ KnownUnmeant
               /\ call.own \/ call.shown \in Offered \/ KnownLeaked
          ELSE /\ rec' \in {rec, call.seen} \/ KnownGuess
               /\ (mine # None /\ mine = rec) => rec' = rec \/ KnownUndone]_vars
-----------------------------------------------------------------------------
(* What a call keeps of the form it saves.                                  *)
Calls(F) ==
    [value : F.values \cup {None}, shown : F.values, own : BOOLEAN,
     seen : F.values \cup F.records \cup {None}, res : F.values \cup F.records \cup {None},
     got : {"sent", "done", "failed"}]

(* None stands for what is not there: it is no value, no record, no call.    *)
ASSUME FieldsAssumption ==
    \A p \in DOMAIN Fields :
        None \notin {Left, Sent} \cup Fields[p].values \cup Fields[p].records \cup Calls(Fields[p])
=============================================================================
