----------------------------- MODULE ListScreens ----------------------------
(***************************************************************************)
(* A person before one list screen, the server, and everybody else.         *)
(*                                                                         *)
(* The screen shows the rows of the last reading that was answered, through *)
(* the tabs and filters chosen.  Readings are answered in any order, or     *)
(* fail.  An act is sent on a row as the screen knows it: the row may be    *)
(* another by then, and the answer may be lost with the act done or not.    *)
(***************************************************************************)
EXTENDS BackOffice, UserScreens, PhoneScreens, Sequences

CONSTANTS Items, MaxReads   \* MaxReads: readings on their way at once, a bound

WebPages ==
    [jobs |-> JobsPage, job |-> JobDetailPage, dashboard |-> DashboardPage,
     payments |-> PaymentsPage, disputes |-> DisputesPage, users |-> UsersPage,
     requests |-> RequestsPage, documents |-> DocumentsPage, profiles |-> ProfilesPage,
     reviews |-> ReviewsPage, debts |-> DebtsPage, audit |-> AuditPage,
     myOffers |-> MyOffersPage, notifications |-> NotificationsPage, inbox |-> InboxPage,
     thread |-> ThreadPage, search |-> SearchPage, browse |-> BrowsePage, alerts |-> AlertsPage,
     received |-> ReceivedPage, myTrips |-> MyTripsPage, sent |-> SentRequestsPage,
     favourites |-> FavouritesPage, wallet |-> WalletPage, clientWallet |-> ClientWalletPage,
     myReviews |-> MyReviewsPage, home |-> HomePage, litiges |-> LitigesPage,
     transporterHome |-> TransporterHomePage, bell |-> BellPage, performance |-> PerformancePage,
     transporterMissions |-> TransporterMissionsPage, clientMissions |-> ClientMissionsPage,
     verification |-> VerificationPage]
Pages ==
    [p \in DOMAIN WebPages \cup DOMAIN PhonePages |->
        IF p \in DOMAIN WebPages THEN WebPages[p] ELSE PhonePages[p]]

ASSUME ListAssumption ==
    /\ MaxReads \in Nat \ {0}
    /\ None \notin {"sent", "tested", "done", "failed"}
    /\ \A p \in DOMAIN Pages :
          /\ None \notin [Items -> DOMAIN Pages[p].moves \cup {"absent", "twice"}]
          /\ None \notin DOMAIN Pages[p].acts

VARIABLES
    scr,        \* the screen
    srv,        \* the status of each item
    crit,       \* the choice of tabs and filters shown
    rows,       \* the rows of the last answer, None before it
    wire,       \* the readings on their way, the first sent first
    loading, failed,
    missed,     \* items changed elsewhere since the reading shown: a ghost
    overtaken,  \* an answer has overwritten a later one: a ghost
    box,        \* the dialog that is open
    call        \* for each item, the act on its way

vars == <<scr, srv, crit, rows, wire, loading, failed, missed, overtaken, box, call>>

Page == Pages[scr]
Statuses == DOMAIN Page.moves
Acts == DOMAIN Page.acts

Idle == [act |-> None, saw |-> None, under |-> None, got |-> None, res |-> None]
Absent == "absent"
Twice == "twice"

Shown(c, s) == s \in Page.shows[c]
Answer(c) ==
    [i \in Items |-> IF Page.reads.server /\ ~Shown(c, srv[i]) THEN Absent ELSE srv[i]]
Reading(c) == [crit |-> c, snap |-> None, behind |-> {}, late |-> FALSE]

(* What is on the screen: a row of a status no tab lists is on none.        *)
Covered == (loading /\ Page.reads.hides) \/ (failed /\ Page.reads.blanks) \/ rows = None
Listed(i) ==
    ~Covered /\ rows[i] \notin {Absent, Twice} /\ (Page.reads.server \/ Shown(crit, rows[i]))
Offered(i) == IF Listed(i) THEN Page.offers[rows[i]] ELSE {}

Init ==
    /\ scr \in DOMAIN Pages
    /\ srv \in [Items -> Statuses]
    /\ crit \in DOMAIN Page.shows
    /\ rows = None
    /\ wire = <<Reading(crit)>>
    /\ loading = TRUE
    /\ failed = FALSE
    /\ missed = {}
    /\ overtaken = FALSE
    /\ box = None
    /\ call = [i \in Items |-> Idle]

-----------------------------------------------------------------------------
(* Reading.                                                                *)

Send(c) ==
    /\ Len(wire) < MaxReads
    /\ wire' = Append(wire, Reading(c))
    /\ rows' = IF Page.reads.clears THEN None ELSE rows
    /\ loading' = TRUE
    /\ failed' = (Page.reads.query /\ failed /\ rows # None)

Choose(c) ==
    /\ c # crit
    /\ box = None
    /\ crit' = c
    /\ IF Page.reads.server THEN Send(c) ELSE UNCHANGED <<rows, wire, loading, failed>>
    /\ UNCHANGED <<scr, srv, missed, overtaken, box, call>>

Again ==
    /\ Page.reads.again
    /\ Page.reads.query => rows # None \/ wire = <<>>
    /\ Send(crit)
    /\ UNCHANGED <<scr, srv, crit, missed, overtaken, box, call>>

(* The server works out the answer to a reading.                            *)
Serve(k) ==
    /\ wire[k].snap = None
    /\ wire' = [wire EXCEPT ![k].snap = Answer(wire[k].crit)]
    /\ UNCHANGED <<scr, srv, crit, rows, loading, failed, missed, overtaken, box, call>>

Without(k) ==
    [j \in 1 .. Len(wire) - 1 |->
        IF j < k THEN [wire[j] EXCEPT !.late = TRUE] ELSE wire[j + 1]]

(* Mutated: an answer that comes after a later one is written.             *)
Mut_Dropped(k) == Page.reads.drops /\ k < Len(wire)

Dropped(k) == Page.reads.drops /\ (k < Len(wire) \/ wire[k].late)

(* The reading is not the last word: an older one was answered after it, it *)
(* was for another tab, or it crosses an act already shown as done.         *)
Stale(k) ==
    \/ wire[k].late
    \/ Page.reads.server /\ wire[k].crit # crit
    \/ \E i \in Items : call[i].act # None /\ Page.acts[call[i].act].after = "hope"

Arrive(k) ==
    /\ wire[k].snap # None
    /\ wire' = Without(k)
    /\ IF Dropped(k)
       THEN UNCHANGED <<rows, loading, failed, missed, overtaken>>
       ELSE /\ rows' = wire[k].snap
            /\ loading' = FALSE
            /\ failed' = FALSE
            /\ missed' = wire[k].behind
            /\ overtaken' = Stale(k)
    /\ UNCHANGED <<scr, srv, crit, box, call>>

Fail(k) ==
    /\ wire' = Without(k)
    /\ IF Dropped(k) THEN UNCHANGED <<loading, failed>>
       ELSE loading' = FALSE /\ failed' = TRUE
    /\ UNCHANGED <<scr, srv, crit, rows, missed, overtaken, box, call>>

-----------------------------------------------------------------------------
(* Acting.                                                                 *)

Begin(i, act, saw) ==
    /\ call[i] = Idle
    /\ call' = [call EXCEPT ![i] =
                   [act |-> act, saw |-> saw, got |-> "sent", res |-> None,
                    under |-> IF Page.reads.server THEN crit ELSE None]]

Open(i, act) ==
    /\ box = None /\ call[i] = Idle
    /\ act \in Offered(i) /\ Page.acts[act].asks
    /\ box' = [item |-> i, act |-> act, saw |-> rows[i]]
    /\ UNCHANGED <<scr, srv, crit, rows, wire, loading, failed, missed, overtaken, call>>

Close ==
    /\ box # None /\ call[box.item] = Idle
    /\ box' = None
    /\ UNCHANGED <<scr, srv, crit, rows, wire, loading, failed, missed, overtaken, call>>

Confirm ==
    /\ box # None /\ ~Page.acts[box.act].mute
    /\ Begin(box.item, box.act, box.saw)
    /\ box' = IF Page.acts[box.act].shuts THEN None ELSE box
    /\ UNCHANGED <<scr, srv, crit, rows, wire, loading, failed, missed, overtaken>>

Press(i, act) ==
    /\ box = None
    /\ act \in Offered(i) /\ ~Page.acts[act].asks
    /\ Begin(i, act, rows[i])
    /\ rows' = IF Page.acts[act].after # "hope" THEN rows
               ELSE [rows EXCEPT ![i] = CHOOSE s \in Page.serves[act][rows[i]] : TRUE]
    /\ UNCHANGED <<scr, srv, crit, wire, loading, failed, missed, overtaken, box>>

(* The server refuses the act, or finds what it is to do, and does it at    *)
(* once where it has locked the row.                                       *)
Results(i) == Page.serves[call[i].act][srv[i]]

Refuse(i) ==
    /\ call[i].got = "sent" /\ Results(i) = {}
    /\ call' = [call EXCEPT ![i].got = "failed"]
    /\ UNCHANGED <<scr, srv, crit, rows, wire, loading, failed, missed, overtaken, box>>

Act(i) ==
    /\ call[i].got = "sent" /\ Page.acts[call[i].act].locks
    /\ \E s \in Results(i) :
          /\ srv' = [srv EXCEPT ![i] = s]
          /\ call' = [call EXCEPT ![i].got = "done", ![i].res = s]
    /\ UNCHANGED <<scr, crit, rows, wire, loading, failed, missed, overtaken, box>>

(* Mutated: the view does not keep what it has found it is to write.       *)
Mut_Test(i) ==
    /\ call[i].got = "sent" /\ ~Page.acts[call[i].act].locks /\ Results(i) # {}
    /\ call' = [call EXCEPT ![i].got = "tested"]
    /\ UNCHANGED <<scr, srv, crit, rows, wire, loading, failed, missed, overtaken, box>>

Test(i) ==
    /\ call[i].got = "sent" /\ ~Page.acts[call[i].act].locks
    /\ \E s \in Results(i) : call' = [call EXCEPT ![i].got = "tested", ![i].res = s]
    /\ UNCHANGED <<scr, srv, crit, rows, wire, loading, failed, missed, overtaken, box>>

Save(i) ==
    /\ call[i].got = "tested"
    /\ srv' = [srv EXCEPT ![i] = call[i].res]
    /\ call' = [call EXCEPT ![i].got = "done"]
    /\ UNCHANGED <<scr, crit, rows, wire, loading, failed, missed, overtaken, box>>

(* The act, or its answer, is lost: what it has changed is news to the page. *)
Behind(i) ==
    /\ missed' = missed \cup {i}
    /\ wire' = [k \in DOMAIN wire |->
                  IF wire[k].snap = None THEN wire[k]
                  ELSE [wire[k] EXCEPT !.behind = @ \cup {i}]]

Lose(i) ==
    /\ \/ call[i].got = "sent" /\ UNCHANGED <<missed, wire>>
       \/ call[i].got = "done" /\ Behind(i)
    /\ call' = [call EXCEPT ![i].got = "failed", ![i].res = None]
    /\ UNCHANGED <<scr, srv, crit, rows, loading, failed, overtaken, box>>

(* The readings whose answer is worked out are from before what is written. *)
Aged == [k \in DOMAIN wire |-> IF wire[k].snap = None THEN wire[k] ELSE [wire[k] EXCEPT !.late = TRUE]]

(* An act reads again under the tab it was pressed on.                      *)
SendUnder(i) == Send(IF call[i].under = None THEN crit ELSE call[i].under)

Put(i, row) ==
    /\ rows' = IF rows = None \/ rows[i] = Absent THEN rows ELSE [rows EXCEPT ![i] = row]
    /\ missed' = IF srv[i] = call[i].res THEN missed ELSE missed \cup {i}
    /\ wire' = Aged
    /\ UNCHANGED <<loading, failed>>

Done(i) ==
    /\ call[i].got = "done"
    /\ call' = [call EXCEPT ![i] = Idle]
    /\ box' = IF box # None /\ box.item = i THEN None ELSE box
    /\ LET after == Page.acts[call[i].act].after IN
       CASE after = "read" -> SendUnder(i) /\ UNCHANGED missed
         [] after = "write" -> Put(i, call[i].res)
         [] after = "untold" -> Behind(i) /\ UNCHANGED <<rows, loading, failed>>
         [] after = "add" -> Put(i, IF rows[i] = call[i].res THEN Twice ELSE call[i].res)
         [] after = "either" ->
              IF call[i].res = call[i].saw THEN SendUnder(i) /\ UNCHANGED missed
              ELSE Put(i, call[i].res)
         [] OTHER -> wire' = Aged /\ UNCHANGED <<rows, missed, loading, failed>>
    /\ UNCHANGED <<scr, srv, crit, overtaken>>

Reverted(i) == Page.acts[call[i].act].after = "hope" /\ rows[i] # Absent

Refused(i) ==
    /\ call[i].got = "failed"
    /\ call' = [call EXCEPT ![i] = Idle]
    /\ box' = IF box # None /\ box.item = i /\ ~Page.acts[call[i].act].stays THEN None ELSE box
    /\ IF Page.acts[call[i].act].always THEN SendUnder(i)
       ELSE /\ rows' = IF Reverted(i) THEN [rows EXCEPT ![i] = call[i].saw] ELSE rows
            /\ UNCHANGED <<wire, loading, failed>>
    /\ UNCHANGED <<scr, srv, crit, missed, overtaken>>

(* Somebody else, or the server by itself, changes an item: once between    *)
(* two readings of it, a bound.                                            *)
Elsewhere(i) ==
    /\ i \notin missed
    /\ \E s \in Page.moves[srv[i]] : srv' = [srv EXCEPT ![i] = s]
    /\ Behind(i)
    /\ UNCHANGED <<scr, crit, rows, loading, failed, overtaken, box, call>>

-----------------------------------------------------------------------------

Next ==
    \/ \E c \in DOMAIN Page.shows : Choose(c)
    \/ Again \/ Close \/ Confirm
    \/ \E k \in DOMAIN wire : Serve(k) \/ Arrive(k) \/ Fail(k)
    \/ \E i \in Items :
          \/ \E act \in Acts : Open(i, act) \/ Press(i, act)
          \/ Refuse(i) \/ Act(i) \/ Test(i) \/ Save(i) \/ Lose(i)
          \/ Done(i) \/ Refused(i) \/ Elsewhere(i)

Spec == Init /\ [][Next]_vars

-----------------------------------------------------------------------------

(* Every variable holds what it is declared to hold.                        *)
TypeOK ==
    /\ scr \in DOMAIN Pages
    /\ srv \in [Items -> Statuses]
    /\ crit \in DOMAIN Page.shows
    /\ rows \in [Items -> Statuses \cup {Absent, Twice}] \cup {None}
    /\ Len(wire) <= MaxReads
    /\ loading \in BOOLEAN /\ failed \in BOOLEAN /\ overtaken \in BOOLEAN
    /\ missed \subseteq Items
    /\ box # None => box.item \in Items /\ box.act \in Acts
    /\ \A i \in Items : call[i].act \in Acts \cup {None}

AtRest == wire = <<>> /\ box = None /\ call = [i \in Items |-> Idle]
Fresh(i) ==
    AtRest /\ ~failed /\ ~overtaken /\ i \notin missed /\ (rows = None \/ rows[i] # Twice)

(* The number on a tab is that of the rows the page has: of all there are   *)
(* where the server has sent all, and of the documents hidden too.          *)
CountsAll(i, c) ==
    \/ rows = None
    \/ Page.reads.server /\ crit # "ALL"
    \/ scr = "documents" /\ srv[i] \in OlderDocs
    \/ rows[i] \in Page.counts[c] <=> Shown(c, srv[i])

(* Once every reading and act has been answered, a row nobody has changed   *)
(* since is on the screen if and only if the tab chosen is for its status   *)
(* on the server, with that status, and in the numbers of its tabs: through *)
(* overlapping readings, failures, changes of filter, optimistic writes and *)
(* their reverts.  Three kinds of row are set apart, those somebody else    *)
(* has changed, those of a page whose last reading has failed, and those of *)
(* an answer overtaken by an older one; a page which drops old answers has  *)
(* none of the last kind.                                                  *)
SettledShowsServer ==
    /\ \A i \in Items :
          Fresh(i) =>
            /\ ~Covered
            /\ Listed(i) <=> Shown(crit, srv[i])
            /\ Listed(i) => rows[i] = srv[i]
            /\ \A c \in DOMAIN Page.counts : CountsAll(i, c)
    /\ Page.reads.drops => ~overtaken

(* What pages are known to get wrong.  They offer an administrator every    *)
(* status to force, a ruling on a dispute nobody has taken up, a bulk act   *)
(* on rows it does not suit, and a warning that is never sent.              *)
KnownRefused(p, s) ==
    CASE p = "jobs" -> JobStatus \ VALID_TRANSITIONS[s]
      [] p = "disputes" /\ s = "OPEN" -> {"resolve", "reject"}
      [] p = "users" -> {IF s \in ActiveUsers THEN "bulkActivate" ELSE "bulkSuspend"}
      [] p = "reviews" -> {"warn"}
      [] p = "received" /\ s = "COUNTERED" -> {"accept", "counter", "reject"}
      [] p \in {"myTrips", "phoneTrips"} /\ s = "long over" -> {"extend", "duplicate"}
      [] p \in {"myTrips", "phoneTrips"} /\ s \in {"engaged", "cancelled"} -> {"extend", "unpublish"}
      [] p \in {"litiges", "phoneDisputes"} /\ s \in {"OPEN", "INVESTIGATING"} -> {"open"}
      [] p = "phoneMissions" /\ s = "MATCHED online" -> {"start"}
      [] p = "phoneCompleted" /\ s = "reviewed" -> {"review"}
      [] p = "phoneWallet" /\ s = "too little" -> {"withdraw"}
      [] OTHER -> {}
(* They offer no refund of a FAILED payment, and nothing on a document that *)
(* another one of its type hides.                                          *)
KnownMissing(p, s) ==
    CASE p = "payments" -> {a \in {"refund"} : s = "FAILED"}
      [] p = "documents" -> IF s \in OlderDocs THEN DOMAIN Pages[p].acts ELSE {}
      [] p = "myOffers" /\ s = "PENDING past its deadline" -> {"withdraw"}
      [] p = "favourites" /\ s = "forgotten" -> {"remove"}
      [] OTHER -> {}

(* A row on the screen, with every reading and act answered and nobody else *)
(* having changed it, is offered what the server will do; and what the      *)
(* server would change of any row is offered on it, or would be under       *)
(* another tab.                                                            *)
OffersMatchServer ==
    \A i \in Items :
        Fresh(i) =>
            LET s == srv[i] IN
            /\ \A a \in Offered(i) \ KnownRefused(scr, s) :
                  Page.serves[a][s] # {} /\ ~Page.acts[a].mute
            /\ \A a \in Acts \ KnownMissing(scr, s) :
                  \/ Page.serves[a][s] \subseteq {s}
                  \/ a \in Offered(i)
                  \/ ~Listed(i) /\ a \in Page.offers[s] /\ \E c \in DOMAIN Page.shows : Shown(c, s)

(* Acts the server does on a row that is another by then.  An approval or a *)
(* refusal of a document tests nothing (trust/views.py:205-231), one of a   *)
(* request tests a row it does not lock (:101-110), and so do the rulings,  *)
(* the forced statuses and the releases of the back office, a withdrawal of *)
(* an offer or a request, a delivery, a desistment, an extension; a         *)
(* suspension, a refund of a failed payment, a settlement and a second      *)
(* dispute suit several statuses; a favourite or a review is turned over;   *)
(* messages and withdrawals of money are meant to add up.                   *)
KnownOverwrites(p) ==
    CASE p \in {"jobs", "payments", "disputes", "requests", "documents", "profiles", "reviews",
                "debts", "myOffers", "thread", "favourites", "wallet", "litiges",
                "phoneThread", "phoneFavourites", "phoneWallet", "phoneDisputes"} ->
             DOMAIN Pages[p].acts
      [] p = "users" -> DOMAIN Pages[p].acts \ {"resetPassword"}
      [] p \in {"myTrips", "phoneTrips"} -> {"extend", "unpublish"}
      [] p \in {"verification", "phoneTrust"} -> {"submit"}
      [] p = "phoneSent" -> {"withdraw"}
      [] p = "phoneMissions" -> {"complete", "cancel"}
      [] OTHER -> {}

(* What others have decided on a row since it was read stands: of the acts  *)
(* that would have changed the row as it was shown, one the server takes up *)
(* once the row is another is refused or changes nothing, also when it      *)
(* turns into another between the server's test and its write.  The acts    *)
(* known to overwrite are set apart; what is left is what the lock on the   *)
(* row protects (the answers to a request, of either side, the start of a   *)
(* mission) or what can only be done once, however often it is sent.       *)
DecisionsStand ==
    [][\A i \in Items :
          (/\ call[i].got \in {"sent", "tested"} /\ call'[i].got = "done"
           /\ call[i].act \notin KnownOverwrites(scr)
           /\ ~(Page.serves[call[i].act][call[i].saw] \subseteq {call[i].saw}))
          => srv[i] = call[i].saw \/ srv'[i] = srv[i]]_vars
=============================================================================
