----------------------------- MODULE ListTables -----------------------------
(***************************************************************************)
(* What the tables of the list screens have in common, proved of each page  *)
(* from the tables it is made of (EveryPage): the theorems of ListProofs    *)
(* use nothing else of them.                                               *)
(*                                                                         *)
(* A page's lemma first says what its fields are, then what each of its     *)
(* tables holds, row by row; what a page must be follows from those.        *)
(***************************************************************************)
EXTENDS ListScreens, TLAPS

(* Statuses and acts are closed.                                           *)
Closed(page) ==
    LET statuses == DOMAIN page.moves
        acts == DOMAIN page.acts
    IN  /\ \A s \in statuses : page.moves[s] \subseteq statuses /\ page.offers[s] \subseteq acts
        /\ \A a \in acts, s \in statuses : page.serves[a][s] \subseteq statuses
        /\ "twice" \notin statuses
        /\ "absent" \in statuses =>
               page.reads.server /\ \A c \in DOMAIN page.shows : "absent" \notin page.shows[c]
        /\ page.reads.query \in BOOLEAN

(* One that filters on the server, drops old answers or forgets its rows    *)
(* writes no answer into them; an act is mute only behind a dialog; and one *)
(* written into the row when it is sent has one outcome and no dialog.      *)
Careful(page) ==
    \A a \in DOMAIN page.acts :
        LET act == page.acts[a] IN
        /\ act.after \in {"read", "write", "untold", "add", "either", "hope", "none"}
        /\ page.reads.server \/ page.reads.clears => act.after = "read"
        /\ page.reads.drops => act.after \in {"read", "untold"} /\ ~page.reads.server
        /\ act.mute => act.asks
        /\ act.after = "none" => act.mute
        /\ act.after = "hope" =>
               /\ ~act.asks
               /\ \A s, t \in DOMAIN page.moves :
                     \A x \in page.serves[a][s], y \in page.serves[a][t] : x = y
               /\ \A s \in DOMAIN page.moves : a \in page.offers[s] => page.serves[a][s] # {}

(* The number on a tab counts the statuses the tab lists, but for documents *)
(* another one hides; the tab of all has the rows of every other one.       *)
Counted(p) ==
    LET page == Pages[p] IN
    \A c \in DOMAIN page.counts :
        /\ c \in DOMAIN page.shows
        /\ \A s \in DOMAIN page.moves :
               \/ s \in page.counts[c] <=> s \in page.shows[c]
               \/ p = "documents" /\ s \in OlderDocs
        /\ page.reads.server =>
               /\ "absent" \notin page.counts[c]
               /\ "ALL" \in DOMAIN page.shows /\ page.shows[c] \subseteq page.shows["ALL"]

(* An act not known to overwrite, that would change a row, changes no other *)
(* one; and if the row is not held while it is done, it leaves every row it *)
(* is done on as it leaves that other one.                                 *)
Stands(p) ==
    LET page == Pages[p] IN
    \A a \in DOMAIN page.acts \ KnownOverwrites(p), s, t \in DOMAIN page.moves :
        (s # t /\ ~(page.serves[a][s] \subseteq {s})) =>
            /\ page.serves[a][t] \subseteq {t}
            /\ page.acts[a].locks
                 \/ \A u \in DOMAIN page.moves : page.serves[a][u] \subseteq {t}

(* What is offered on a row some tab lists is sent and served, but for what *)
(* is known to be refused; what would change a row is offered on it, but    *)
(* for what is known to be missing.                                        *)
Suited(p) ==
    LET page == Pages[p]
        listed(s) == \E c \in DOMAIN page.shows : s \in page.shows[c]
    IN  \A a \in DOMAIN page.acts, s \in DOMAIN page.moves :
          /\ listed(s) /\ a \in page.offers[s] =>
                \/ a \in KnownRefused(p, s)
                \/ page.serves[a][s] # {} /\ ~page.acts[a].mute
          /\ \/ a \in KnownMissing(p, s)
             \/ page.serves[a][s] \subseteq {s}
             \/ listed(s) /\ a \in page.offers[s]

Sound(p) ==
    Closed(Pages[p]) /\ Careful(Pages[p]) /\ Counted(p) /\ Stands(p) /\ Suited(p)

LEMMA QuietPage ==
    ASSUME NEW p, DOMAIN Pages[p].acts = {}, Closed(Pages[p]), Counted(p)
    PROVE  Sound(p)
BY DEF Sound, Careful, Stands, Suited

(* The pages with no other act than those known to overwrite.               *)
LEMMA Overwriting ==
    ASSUME NEW p \in {"jobs", "payments", "disputes", "requests", "documents", "profiles",
                      "reviews", "debts", "myOffers", "thread", "favourites", "wallet",
                      "litiges", "phoneThread", "phoneFavourites", "phoneWallet",
                       "phoneDisputes"}
    PROVE  Stands(p)
<1>1. KnownOverwrites(p) = DOMAIN Pages[p].acts
  BY DEF KnownOverwrites
<1>2. QED
  BY <1>1 DEF Stands

-----------------------------------------------------------------------------
(* The back office.                                                        *)

LEMMA JobsSound == Sound("jobs")
<1>1. Pages["jobs"] = JobsPage
  BY DEF Pages, WebPages
<1>2. /\ JobsPage.shows = JobsShows /\ JobsPage.counts = JobsShows
      /\ JobsPage.reads = JobsReads /\ JobsPage.offers = JobsOffers
      /\ JobsPage.acts = JobsActs /\ JobsPage.moves = VALID_TRANSITIONS
  BY DEF JobsPage, JobsCounts
<1>3. /\ DOMAIN JobsShows = JobTabs \cup {"ALL"} /\ JobsShows["ALL"] = JobStatus
      /\ \A c \in DOMAIN JobsShows : JobsShows[c] \subseteq JobStatus
  BY DEF JobsShows, AllAnd, JobTabs, JobStatus
<1>4. /\ JobsReads.server /\ ~JobsReads.drops
      /\ JobsReads.query \in BOOLEAN
  BY DEF JobsReads, Plain
<1>5. /\ DOMAIN JobsActs = (JobStatus \ {"DISPUTED"}) \cup {"cancel"}
      /\ \A a \in DOMAIN JobsActs : ~JobsActs[a].mute /\ JobsActs[a].after = "read"
  BY DEF JobsActs, Reread, Unlocked, Ask
<1>6. /\ DOMAIN VALID_TRANSITIONS = JobStatus
      /\ \A s \in JobStatus : VALID_TRANSITIONS[s] \subseteq JobStatus \ {s}
  BY DEF VALID_TRANSITIONS, JobStatus
<1>7. /\ \A s \in JobStatus :
           JobsOffers[s] = (JobStatus \ {s, "DISPUTED"})
                             \cup {a \in {"cancel"} : s \notin {"CANCELLED", "COMPLETED"}}
      /\ \A s \in JobStatus :
           AdminJobCancel[s] = IF s \in {"CANCELLED", "COMPLETED"} THEN {} ELSE {"CANCELLED"}
      /\ \A a, s \in JobStatus :
           AdminJobForceStatus(a)[s] = IF a \in VALID_TRANSITIONS[s] THEN {a} ELSE {}
  BY DEF JobsOffers, AdminJobCancel, AdminJobForceStatus, Turns
<1>8. /\ JobsPage.serves["cancel"] = AdminJobCancel
      /\ \A a \in JobStatus \ {"DISPUTED"} : JobsPage.serves[a] = AdminJobForceStatus(a)
  BY <1>5 DEF JobsPage, JobStatus
<1>9. \A s : KnownRefused("jobs", s) = JobStatus \ VALID_TRANSITIONS[s]
        /\ KnownMissing("jobs", s) = {}
  BY DEF KnownRefused, KnownMissing
<1>10. Closed(Pages["jobs"])
  BY <1>1, <1>2, <1>4, <1>5, <1>6, <1>7, <1>8 DEF Closed, JobStatus
<1>11. Careful(Pages["jobs"])
  BY <1>1, <1>2, <1>4, <1>5 DEF Careful, JobStatus
<1>12. Counted("jobs")
  BY <1>1, <1>2, <1>3, <1>4, <1>6 DEF Counted, JobStatus
<1>13. Stands("jobs")
  BY Overwriting
<1>14. Suited("jobs")
  <2> SUFFICES ASSUME NEW a \in DOMAIN JobsActs, NEW s \in JobStatus
               PROVE  /\ a \in JobsOffers[s] => \/ a \in KnownRefused("jobs", s)
                                                \/ JobsPage.serves[a][s] # {}
                                                     /\ ~JobsActs[a].mute
                      /\ JobsPage.serves[a][s] \subseteq {s} \/ a \in JobsOffers[s]
    BY <1>1, <1>2, <1>3, <1>6 DEF Suited
  <2>1. CASE a = "cancel"
    BY <2>1, <1>5, <1>7, <1>8 DEF JobStatus
  <2>2. CASE a # "cancel"
    <3>1. a \in JobStatus \ {"DISPUTED"} /\ ~JobsActs[a].mute
      BY <2>2, <1>5
    <3>2. JobsPage.serves[a][s] = IF a \in VALID_TRANSITIONS[s] THEN {a} ELSE {}
      BY <3>1, <1>7, <1>8
    <3>3. a \in JobsOffers[s] <=> a # s
      BY <2>2, <3>1, <1>7
    <3>4. a \in VALID_TRANSITIONS[s] \/ a \in KnownRefused("jobs", s)
      BY <3>1, <1>9
    <3>5. s \notin VALID_TRANSITIONS[s]
      BY <1>6
    <3>6. QED
      BY <3>1, <3>2, <3>3, <3>4, <3>5
  <2>3. QED
    BY <2>1, <2>2
<1>15. QED
  BY <1>10, <1>11, <1>12, <1>13, <1>14 DEF Sound

LEMMA JobSound == Sound("job")
<1>1. Pages["job"] = JobDetailPage
  BY DEF Pages, WebPages
<1>2. /\ JobDetailPage.shows = [c \in {"ALL"} |-> JobStatus]
      /\ JobDetailPage.counts = NoCounts /\ JobDetailPage.reads = JobDetailReads
      /\ JobDetailPage.offers = [s \in JobStatus |-> {}] /\ JobDetailPage.acts = NoActs
      /\ JobDetailPage.moves = VALID_TRANSITIONS
  BY DEF JobDetailPage
<1>3. /\ DOMAIN VALID_TRANSITIONS = JobStatus
      /\ \A s \in JobStatus : VALID_TRANSITIONS[s] \subseteq JobStatus
  BY DEF VALID_TRANSITIONS, JobStatus
<1>4. DOMAIN NoCounts = {} /\ DOMAIN NoActs = {} /\ JobDetailReads.query \in BOOLEAN
  BY DEF NoCounts, NoActs, JobDetailReads, Plain
<1>5. QED
  BY <1>1, <1>2, <1>3, <1>4, QuietPage DEF Closed, Counted, JobStatus

LEMMA DashboardSound == Sound("dashboard")
<1>1. Pages["dashboard"] = DashboardPage
  BY DEF Pages, WebPages
<1>2. /\ DashboardPage.shows = [c \in {"ALL"} |-> JobStatus]
      /\ DashboardPage.counts = NoCounts /\ DashboardPage.reads = DashboardReads
      /\ DashboardPage.offers = [s \in JobStatus |-> {}] /\ DashboardPage.acts = NoActs
      /\ DashboardPage.moves = VALID_TRANSITIONS
  BY DEF DashboardPage, JobDetailPage
<1>3. /\ DOMAIN VALID_TRANSITIONS = JobStatus
      /\ \A s \in JobStatus : VALID_TRANSITIONS[s] \subseteq JobStatus
  BY DEF VALID_TRANSITIONS, JobStatus
<1>4. DOMAIN NoCounts = {} /\ DOMAIN NoActs = {} /\ DashboardReads.query \in BOOLEAN
  BY DEF NoCounts, NoActs, DashboardReads, Plain
<1>5. QED
  BY <1>1, <1>2, <1>3, <1>4, QuietPage DEF Closed, Counted, JobStatus

LEMMA PaymentsSound == Sound("payments")
<1>1. Pages["payments"] = PaymentsPage
  BY DEF Pages, WebPages
<1>2. /\ PaymentsPage.shows = PaymentTabs /\ PaymentsPage.counts = PaymentCounts
      /\ PaymentsPage.reads = PaymentReads /\ PaymentsPage.offers = PaymentOffers
      /\ PaymentsPage.acts = PaymentActs /\ PaymentsPage.moves = EscrowMoves
      /\ PaymentsPage.serves.release = AdminEscrowRelease
      /\ PaymentsPage.serves.refund = AdminEscrowRefund
  BY DEF PaymentsPage
<1>3. /\ DOMAIN PaymentTabs = {"ALL", "HELD", "RELEASED", "REFUNDED", "BLOCKED"}
      /\ \A c \in DOMAIN PaymentTabs : PaymentTabs[c] = IF c = "ALL" THEN EscrowStatus ELSE {c}
      /\ DOMAIN PaymentCounts = DOMAIN PaymentTabs \ {"ALL"}
      /\ \A c \in DOMAIN PaymentCounts : PaymentCounts[c] = {c}
  BY DEF PaymentTabs, PaymentCounts
<1>4. /\ ~PaymentReads.server /\ ~PaymentReads.drops /\ ~PaymentReads.clears
      /\ PaymentReads.query \in BOOLEAN
  BY DEF PaymentReads, Plain
<1>5. /\ DOMAIN PaymentActs = {"release", "refund"}
      /\ \A a \in {"release", "refund"} : ~PaymentActs[a].mute /\ PaymentActs[a].after = "read"
  BY DEF PaymentActs, Reread, Unlocked, Ask
<1>6. DOMAIN EscrowMoves = EscrowStatus /\ \A s \in EscrowStatus :
        EscrowMoves[s] \subseteq EscrowStatus
  BY DEF EscrowMoves, EscrowStatus
<1>7. /\ \A s \in EscrowStatus :
           PaymentOffers[s] =
               {a \in {"release"} : s = "HELD"} \cup {a \in {"refund"} :
                 s \in {"HELD", "BLOCKED"}}
      /\ \A s \in EscrowStatus : AdminEscrowRelease[s] = IF s = "HELD" THEN {"RELEASED"} ELSE {}
      /\ \A s \in EscrowStatus :
           AdminEscrowRefund[s] = IF s \in {"HELD", "FAILED"} THEN {"REFUNDED"} ELSE {}
  BY DEF PaymentOffers, AdminEscrowRelease, AdminEscrowRefund, Turns
<1>8. \A s : KnownRefused("payments", s) = {}
        /\ KnownMissing("payments", s) = {a \in {"refund"} : s = "FAILED"}
  BY DEF KnownRefused, KnownMissing
<1>9. QED
  BY Overwriting, <1>1, <1>2, <1>3, <1>4, <1>5, <1>6, <1>7, <1>8 DEF Sound, Closed, Careful,
     Counted, Suited, EscrowStatus

LEMMA DisputesSound == Sound("disputes")
<1>1. Pages["disputes"] = DisputesPage
  BY DEF Pages, WebPages
<1>2. /\ DisputesPage.shows = DisputeTabs /\ DisputesPage.counts = DisputeTabs
      /\ DisputesPage.reads = DisputeReads /\ DisputesPage.offers = DisputeOffers
      /\ DisputesPage.acts = DisputeActs /\ DisputesPage.moves = DISPUTE_TRANSITIONS
      /\ DisputesPage.serves = DisputeServes
  BY DEF DisputesPage, DisputeCounts
<1>3. /\ DOMAIN DisputeTabs = {"OPEN", "INVESTIGATING", "RESOLVED", "ALL"}
      /\ DisputeTabs["ALL"] = DisputeStatus
  BY DEF DisputeTabs, AllAnd
<1>4. /\ ~DisputeReads.server /\ ~DisputeReads.drops /\ ~DisputeReads.clears
      /\ DisputeReads.query \in BOOLEAN
  BY DEF DisputeReads, Plain
<1>5. /\ DOMAIN DisputeActs = {"investigate", "resolve", "reject"}
      /\ ~DisputeActs.investigate.mute /\ DisputeActs.investigate.after = "read"
      /\ ~DisputeActs.resolve.mute /\ DisputeActs.resolve.after = "read"
      /\ ~DisputeActs.reject.mute /\ DisputeActs.reject.after = "read"
  BY DEF DisputeActs, Reread, Unlocked, Ask
<1>6. /\ DOMAIN DISPUTE_TRANSITIONS = DisputeStatus
      /\ \A s \in DisputeStatus :
           DISPUTE_TRANSITIONS[s] = IF s = "OPEN" THEN {"INVESTIGATING"}
                                    ELSE IF s = "INVESTIGATING" THEN {"RESOLVED",
                                      "REJECTED"} ELSE {}
  BY DEF DISPUTE_TRANSITIONS, DisputeStatus
<1>7. \A s \in DisputeStatus :
        DisputeOffers[s] = {a \in {"investigate"} : s = "OPEN"}
                             \cup {a \in {"resolve", "reject"} :
                               s \in {"OPEN", "INVESTIGATING"}}
  BY DEF DisputeOffers
<1>8. \A s \in DisputeStatus :
        /\ DisputeServes["investigate"][s] = IF s = "OPEN" THEN {"INVESTIGATING"} ELSE {}
        /\ DisputeServes["resolve"][s] = IF s = "INVESTIGATING" THEN {"RESOLVED"} ELSE {}
        /\ DisputeServes["reject"][s] = IF s = "INVESTIGATING" THEN {"REJECTED"} ELSE {}
  BY <1>6, <1>5 DEF DisputeServes, Turns
<1>9. \A s : /\ KnownRefused("disputes", s) = IF s = "OPEN" THEN {"resolve", "reject"} ELSE {}
           /\ KnownMissing("disputes", s) = {}
  BY DEF KnownRefused, KnownMissing
<1>10. QED
  BY Overwriting, <1>1, <1>2, <1>3, <1>4, <1>5, <1>6, <1>7, <1>8, <1>9
     DEF Sound, Closed, Careful,
     Counted, Suited, DisputeStatus

LEMMA UsersSound == Sound("users")
<1>1. Pages["users"] = UsersPage
  BY DEF Pages, WebPages
<1>2. DOMAIN UsersPage.acts =
          {"suspend", "activate", "resetPassword", "bulkSuspend", "bulkActivate",
           "editToClient", "editToTransporter"}
  BY DEF UsersPage
<1>3. /\ DOMAIN UsersPage.moves = UserStatus
      /\ UserStatus = {"CLIENT", "TRANSPORTER", "CLIENT SUSPENDED", "TRANSPORTER SUSPENDED"}
  BY DEF UsersPage, UserStatus, ActiveUsers, SuspendedUsers
<1>4. /\ DOMAIN UsersPage.shows = {"ALL", "CLIENT", "TRANSPORTER"}
      /\ UsersPage.shows["ALL"] = UserStatus
      /\ \A c \in {"CLIENT", "TRANSPORTER"} : UsersPage.shows[c] \subseteq UserStatus
  BY DEF UsersPage, UserTabs, UserStatus, ActiveUsers, SuspendedUsers, OfRole, Suspended
<1>5. UsersPage.counts = UsersPage.shows
  BY DEF UsersPage, UserCounts
<1>6. UsersPage.reads.server /\ ~UsersPage.reads.drops /\ UsersPage.reads.query \in BOOLEAN
  BY DEF UsersPage, UserReads, Plain
<1>7. \A a \in DOMAIN UsersPage.acts :
        ~UsersPage.acts[a].mute /\ UsersPage.acts[a].after = "read"
  <2>1. /\ ~UserActs.mute /\ UserActs.after = "read"
        /\ ~BulkActs.mute /\ BulkActs.after = "read"
        /\ ~EditActs.mute /\ EditActs.after = "read"
    BY DEF UserActs, BulkActs, EditActs, Reread, Unlocked, Ask, AskOnce
  <2>2. \A a \in DOMAIN UsersPage.acts : UsersPage.acts[a] \in {UserActs, BulkActs, EditActs}
    BY <1>2 DEF UsersPage
  <2>3. QED
    BY <2>1, <2>2
<1>8. /\ AdminUserSuspend["CLIENT"] = {"CLIENT SUSPENDED"}
      /\ AdminUserSuspend["TRANSPORTER"] = {"TRANSPORTER SUSPENDED"}
      /\ AdminUserSuspend["CLIENT SUSPENDED"] = {}
      /\ AdminUserSuspend["TRANSPORTER SUSPENDED"] = {}
  BY DEF AdminUserSuspend, Suspended, UserStatus, ActiveUsers, SuspendedUsers
<1>9. /\ AdminUserActivate["CLIENT"] = {}
      /\ AdminUserActivate["TRANSPORTER"] = {}
      /\ AdminUserActivate["CLIENT SUSPENDED"] = {"CLIENT"}
      /\ AdminUserActivate["TRANSPORTER SUSPENDED"] = {"TRANSPORTER"}
  <2>1. Activated("CLIENT SUSPENDED") = "CLIENT"
          /\ Activated("TRANSPORTER SUSPENDED") = "TRANSPORTER"
    BY DEF Activated, Suspended, ActiveUsers
  <2>2. QED
    BY <2>1 DEF AdminUserActivate, UserStatus, ActiveUsers, SuspendedUsers
<1>10. \A s \in UserStatus :
          UsersPage.moves[s] = AdminUserSuspend[s] \cup AdminUserActivate[s]
  BY DEF UsersPage
<1>11. /\ AdminUserEdit("CLIENT")["CLIENT"] = {}
       /\ AdminUserEdit("CLIENT")["TRANSPORTER"] = {"CLIENT"}
       /\ AdminUserEdit("CLIENT")["CLIENT SUSPENDED"] = {}
       /\ AdminUserEdit("CLIENT")["TRANSPORTER SUSPENDED"] = {"CLIENT SUSPENDED"}
  BY DEF AdminUserEdit, OfRole, Suspended, UserStatus, ActiveUsers, SuspendedUsers
<1>12. /\ AdminUserEdit("TRANSPORTER")["CLIENT"] = {"TRANSPORTER"}
       /\ AdminUserEdit("TRANSPORTER")["TRANSPORTER"] = {}
       /\ AdminUserEdit("TRANSPORTER")["CLIENT SUSPENDED"] = {"TRANSPORTER SUSPENDED"}
       /\ AdminUserEdit("TRANSPORTER")["TRANSPORTER SUSPENDED"] = {}
  BY DEF AdminUserEdit, OfRole, Suspended, UserStatus, ActiveUsers, SuspendedUsers
<1>13. /\ Edit("CLIENT") = "editToTransporter" /\ Edit("CLIENT SUSPENDED") = "editToTransporter"
       /\ Edit("TRANSPORTER") = "editToClient" /\ Edit("TRANSPORTER SUSPENDED") = "editToClient"
  BY DEF Edit, OfRole, Suspended
<1>14. \A s \in UserStatus : \A a :
          a \in UsersPage.offers[s] <=>
              \/ a \in {"resetPassword", "bulkSuspend", "bulkActivate"} \/ a = Edit(s)
              \/ a = "activate" /\ s \in {"CLIENT SUSPENDED", "TRANSPORTER SUSPENDED"}
              \/ a = "suspend" /\ s \in {"CLIENT", "TRANSPORTER"}
  BY DEF UsersPage, UserOffers, UserStatus, ActiveUsers, SuspendedUsers
<1>15. \A s \in UserStatus : UsersPage.offers[s] \subseteq DOMAIN UsersPage.acts
  <2> SUFFICES ASSUME NEW s \in UserStatus, NEW a \in UsersPage.offers[s]
               PROVE  a \in DOMAIN UsersPage.acts
    OBVIOUS
  <2>1. Edit(s) \in {"editToClient", "editToTransporter"}
    BY <1>3, <1>13
  <2>2. a \in {"resetPassword", "bulkSuspend", "bulkActivate", "activate", "suspend", Edit(s)}
    BY <1>14
  <2>3. QED
    BY <1>2, <2>1, <2>2
<1>16. ASSUME NEW a \in DOMAIN UsersPage.acts, NEW s \in UserStatus
       PROVE  /\ UsersPage.serves[a][s] \subseteq UserStatus
              /\ a = "resetPassword" => UsersPage.serves[a][s] \subseteq {s}
              /\ a \in UsersPage.offers[s] =>
                    a \in KnownRefused("users", s) \/ UsersPage.serves[a][s] # {}
              /\ UsersPage.serves[a][s] \subseteq {s} \/ a \in UsersPage.offers[s]
  <2>1. a = "bulkActivate" /\ s \in {"CLIENT", "TRANSPORTER"} => a \in KnownRefused("users", s)
    BY DEF KnownRefused, ActiveUsers
  <2>2. a = "bulkSuspend" /\ s \notin {"CLIENT", "TRANSPORTER"} =>
          a \in KnownRefused("users", s)
    BY DEF KnownRefused, ActiveUsers
  <2>0. /\ a = "suspend" =>
             (a \in UsersPage.offers[s] <=> s \in {"CLIENT", "TRANSPORTER"})
        /\ a = "activate" =>
             (a \in UsersPage.offers[s]
                <=> s \in {"CLIENT SUSPENDED", "TRANSPORTER SUSPENDED"})
    <3>1. Edit(s) \in {"editToClient", "editToTransporter"}
      BY <1>3, <1>13
    <3>2. a \in UsersPage.offers[s] <=>
              \/ a \in {"resetPassword", "bulkSuspend", "bulkActivate"} \/ a = Edit(s)
              \/ a = "activate" /\ s \in {"CLIENT SUSPENDED", "TRANSPORTER SUSPENDED"}
              \/ a = "suspend" /\ s \in {"CLIENT", "TRANSPORTER"}
      BY <1>14
    <3>3. QED
      BY <3>1, <3>2
  <2>3. CASE a = "suspend"
    <3>1. UsersPage.serves[a] = AdminUserSuspend
      BY <2>3 DEF UsersPage
    <3>2. a \in UsersPage.offers[s] <=> s \in {"CLIENT", "TRANSPORTER"}
      BY <2>0, <2>3
    <3>3. QED
      BY <2>3, <3>1, <3>2, <1>3, <1>8
  <2>4. CASE a = "bulkSuspend"
    <3>1. UsersPage.serves[a] = AdminUserSuspend
      BY <2>4 DEF UsersPage
    <3>2. QED
      BY <2>2, <2>4, <3>1, <1>3, <1>8, <1>13, <1>14
  <2>5. CASE a = "activate"
    <3>1. UsersPage.serves[a] = AdminUserActivate
      BY <2>5 DEF UsersPage
    <3>2. a \in UsersPage.offers[s] <=> s \in {"CLIENT SUSPENDED", "TRANSPORTER SUSPENDED"}
      BY <2>0, <2>5
    <3>3. QED
      BY <2>5, <3>1, <3>2, <1>3, <1>9
  <2>6. CASE a = "bulkActivate"
    <3>1. UsersPage.serves[a] = AdminUserActivate
      BY <2>6 DEF UsersPage
    <3>2. QED
      BY <2>1, <2>6, <3>1, <1>3, <1>9, <1>13, <1>14
  <2>7. CASE a = "resetPassword"
    BY <2>7 DEF UsersPage, AdminUserResetPassword
  <2>8. CASE a = "editToClient"
    <3>1. UsersPage.serves[a] = AdminUserEdit("CLIENT")
      BY <2>8 DEF UsersPage
    <3>2. QED
      BY <2>8, <3>1, <1>3, <1>11, <1>13, <1>14
  <2>9. CASE a = "editToTransporter"
    <3>1. UsersPage.serves[a] = AdminUserEdit("TRANSPORTER")
      BY <2>9 DEF UsersPage
    <3>2. QED
      BY <2>9, <3>1, <1>3, <1>12, <1>13, <1>14
  <2>10. QED
    BY <1>2, <2>3, <2>4, <2>5, <2>6, <2>7, <2>8, <2>9
<1>17. Closed(UsersPage)
  <2>1. ASSUME NEW s \in UserStatus PROVE UsersPage.moves[s] \subseteq UserStatus
    <3>1. AdminUserSuspend[s] \subseteq UserStatus
      BY <1>3, <1>8
    <3>2. AdminUserActivate[s] \subseteq UserStatus
      BY <1>3, <1>9
    <3>3. QED
      BY <1>10, <3>1, <3>2
  <2>2. "absent" \notin UserStatus /\ "twice" \notin UserStatus
    BY <1>3
  <2>3. QED
    BY <1>3, <1>6, <1>15, <1>16, <2>1, <2>2 DEF Closed
<1>18. Careful(UsersPage)
  BY <1>6, <1>7 DEF Careful
<1>19. Counted("users")
  <2>1. "absent" \notin UserStatus
    BY <1>3
  <2>2. \A c \in DOMAIN UsersPage.shows :
            UsersPage.shows[c] \subseteq UsersPage.shows["ALL"]
              /\ "absent" \notin UsersPage.shows[c]
    BY <1>4, <2>1
  <2>3. QED
    BY <1>1, <1>4, <1>5, <2>2 DEF Counted
<1>20. Stands("users")
  <2>1. DOMAIN UsersPage.acts \ KnownOverwrites("users") = {"resetPassword"}
    BY <1>1, <1>2 DEF KnownOverwrites
  <2>2. \A s \in UserStatus : UsersPage.serves.resetPassword[s] \subseteq {s}
    BY <1>2, <1>16
  <2>3. QED
    BY <1>1, <1>3, <2>1, <2>2 DEF Stands
<1>21. Suited("users")
  <2>1. \A s \in UserStatus : \E c \in DOMAIN UsersPage.shows : s \in UsersPage.shows[c]
    BY <1>4
  <2>2. ASSUME NEW a \in DOMAIN UsersPage.acts, NEW s \in DOMAIN UsersPage.moves
        PROVE  /\ a \in UsersPage.offers[s] =>
                     \/ a \in KnownRefused("users", s)
                     \/ UsersPage.serves[a][s] # {} /\ ~UsersPage.acts[a].mute
               /\ UsersPage.serves[a][s] \subseteq {s} \/ a \in UsersPage.offers[s]
    <3>1. s \in UserStatus
      BY <1>3
    <3>2. QED
      BY <1>7, <1>16, <3>1
  <2>3. QED
    BY <1>1, <1>3, <2>1, <2>2 DEF Suited
<1>22. QED
  BY <1>1, <1>17, <1>18, <1>19, <1>20, <1>21 DEF Sound

LEMMA RequestsSound == Sound("requests")
<1>1. Pages["requests"] = RequestsPage
  BY DEF Pages, WebPages
<1>2. /\ RequestsPage.shows = RequestTabs /\ RequestsPage.counts = RequestTabs
      /\ RequestsPage.reads = VerificationReads /\ RequestsPage.offers = RequestOffers
      /\ RequestsPage.acts = RequestActs
      /\ RequestsPage.moves = [s \in RequestStatus |->
                      AdminVerificationApprove[s] \cup AdminVerificationReject[s]]
      /\ RequestsPage.serves.approve = AdminVerificationApprove
      /\ RequestsPage.serves.reject = AdminVerificationReject
  BY DEF RequestsPage
<1>3. /\ DOMAIN RequestTabs = RequestStatus \cup {"ALL"}
      /\ RequestTabs["ALL"] = RequestStatus
  BY DEF RequestTabs, AllAnd
<1>4. /\ ~VerificationReads.server /\ ~VerificationReads.drops /\ ~VerificationReads.clears
      /\ VerificationReads.query \in BOOLEAN
  BY DEF VerificationReads, Plain
<1>5. /\ DOMAIN RequestActs = {"approve", "reject"}
      /\ ~RequestActs.approve.mute /\ RequestActs.approve.after = "read"
      /\ ~RequestActs.reject.mute /\ RequestActs.reject.after = "read"
  BY DEF RequestActs, Reread, Unlocked, AskOnce
<1>6. \A s \in RequestStatus :
        /\ RequestOffers[s] = IF s = "PENDING_REVIEW" THEN {"approve", "reject"} ELSE {}
        /\ AdminVerificationApprove[s] = IF s = "PENDING_REVIEW" THEN {"APPROVED"} ELSE {}
        /\ AdminVerificationReject[s] = IF s = "PENDING_REVIEW" THEN {"REJECTED"} ELSE {}
  BY DEF RequestOffers, AdminVerificationApprove, AdminVerificationReject, Turns
<1>7. QED
  BY Overwriting, <1>1, <1>2, <1>3, <1>4, <1>5, <1>6 DEF Sound, Closed, Careful,
     Counted, Suited, RequestStatus

LEMMA DocumentsSound == Sound("documents")
<1>1. Pages["documents"] = DocumentsPage
  BY DEF Pages, WebPages
<1>2. /\ DOMAIN DocumentsPage.acts = {"approve", "reject"}
      /\ DOMAIN DocumentsPage.shows = {"ALL"} /\ DOMAIN DocumentsPage.counts = {"ALL"}
      /\ DOMAIN DocumentsPage.moves = DocStatus
  BY DEF DocumentsPage, DocActs, groupDocuments, DocProgress, DocMoves
<1>3. DocStatus = {"pending", "approved", "rejected",
                   "pending (older)", "approved (older)", "rejected (older)"}
  BY DEF DocStatus, LatestDocs, OlderDocs
<1>4. DocumentsPage.shows["ALL"] = LatestDocs /\ DocumentsPage.counts["ALL"] = DocStatus
  BY DEF DocumentsPage, groupDocuments, DocProgress
<1>5. /\ ~DocumentsPage.reads.server /\ ~DocumentsPage.reads.drops
           /\ ~DocumentsPage.reads.clears
      /\ DocumentsPage.reads.query \in BOOLEAN
  BY DEF DocumentsPage, DocReads, Plain
<1>6. \A a \in {"approve", "reject"} :
          ~DocumentsPage.acts[a].mute /\ DocumentsPage.acts[a].after = "write"
  <2>1. ~DocActs.approve.mute /\ DocActs.approve.after = "write"
    BY DEF DocActs, Reread, Write, Unlocked
  <2>2. ~DocActs.reject.mute /\ DocActs.reject.after = "write"
    BY DEF DocActs, Reread, Write, Unlocked, AskOnce
  <2>3. QED
    BY <2>1, <2>2 DEF DocumentsPage
<1>7. /\ Older("pending") = "pending (older)"
      /\ Older("approved") = "approved (older)"
      /\ Older("rejected") = "rejected (older)"
  BY DEF Older
<1>8. \A s \in DocStatus : \A u :
          /\ u \in Reviewed("approved")[s] <=>
                \/ s \in LatestDocs /\ u = "approved"
                \/ s \notin LatestDocs /\ u = "approved (older)"
          /\ u \in Reviewed("rejected")[s] <=>
                \/ s \in LatestDocs /\ u = "rejected"
                \/ s \notin LatestDocs /\ u = "rejected (older)"
  BY <1>7 DEF Reviewed
<1>9. \A s \in DocStatus : \A a :
          a \in DocumentsPage.offers[s] <=>
              \/ a = "approve" /\ s \notin {"approved", "approved (older)"}
              \/ a = "reject" /\ s \notin {"rejected", "rejected (older)"}
  BY <1>7 DEF DocumentsPage, DocOffers
<1>10. \A u \in LatestDocs : Older(u) \in DocStatus
  BY <1>3, <1>7 DEF LatestDocs
<1>11. \A s \in DocStatus : DocumentsPage.moves[s] \subseteq DocStatus
  <2>1. \A s \in DocStatus :
          Reviewed("approved")[s] \cup Reviewed("rejected")[s] \subseteq DocStatus
    BY <1>3, <1>8
  <2>2. \A s \in DocStatus :
           DocumentsPage.moves[s] = Reviewed("approved")[s] \cup Reviewed("rejected")[s]
                                      \cup {Older(u) : u \in LatestDocs \cap {s}}
    BY DEF DocumentsPage, DocMoves
  <2>3. QED
    BY <1>10, <2>1, <2>2
<1>12. ASSUME NEW a \in {"approve", "reject"}, NEW s \in DocStatus
       PROVE  /\ DocumentsPage.serves[a][s] \subseteq DocStatus
              /\ DocumentsPage.serves[a][s] # {}
              /\ s \in LatestDocs => \/ DocumentsPage.serves[a][s] \subseteq {s}
                                     \/ a \in DocumentsPage.offers[s]
  <2>1. CASE a = "approve"
    <3>1. DocumentsPage.serves[a] = Reviewed("approved")
      BY <2>1 DEF DocumentsPage, AdminDocumentReview
    <3>2. QED
      BY <2>1, <3>1, <1>3, <1>8, <1>9 DEF LatestDocs
  <2>2. CASE a = "reject"
    <3>1. DocumentsPage.serves[a] = Reviewed("rejected")
      BY <2>2 DEF DocumentsPage, AdminDocumentReview
    <3>2. QED
      BY <2>2, <3>1, <1>3, <1>8, <1>9 DEF LatestDocs
  <2>3. QED
    BY <2>1, <2>2
<1>13. Closed(DocumentsPage)
  <2>1. "absent" \notin DocStatus /\ "twice" \notin DocStatus
    BY <1>3
  <2>2. \A s \in DocStatus : DocumentsPage.offers[s] \subseteq {"approve", "reject"}
    BY <1>9
  <2>3. QED
    BY <1>2, <1>5, <1>11, <1>12, <2>1, <2>2 DEF Closed
<1>14. Careful(DocumentsPage)
  BY <1>2, <1>5, <1>6 DEF Careful
<1>15. Counted("documents")
  BY <1>1, <1>2, <1>4, <1>5 DEF Counted, DocStatus
<1>16. Stands("documents")
  BY Overwriting
<1>17. Suited("documents")
  <2>1. \A s \in DocStatus, a \in {"approve", "reject"} :
           s \in OlderDocs => a \in KnownMissing("documents", s)
    BY <1>1, <1>2 DEF KnownMissing
  <2>2. \A s \in DocStatus \ OlderDocs : s \in LatestDocs
    BY DEF DocStatus
  <2>3. QED
    BY <1>1, <1>2, <1>4, <1>6, <1>12, <2>1, <2>2 DEF Suited
<1>18. QED
  BY <1>1, <1>13, <1>14, <1>15, <1>16, <1>17 DEF Sound

LEMMA ProfilesSound == Sound("profiles")
<1>1. Pages["profiles"] = ProfilesPage
  BY DEF Pages, WebPages
<1>2. /\ DOMAIN ProfilesPage.moves = ProfileStatus
      /\ DOMAIN ProfilesPage.acts = {"approveDocument", "rejectDocument"}
  BY DEF ProfilesPage, SubmitTrustProfile, ProfileActs, Ask, Unlocked, Reread
<1>3. /\ DOMAIN ProfilesPage.shows = (ProfileStatus \ {"SUSPENDED"}) \cup {"ALL"}
           /\ ProfilesPage.shows["ALL"] = ProfileStatus
      /\ ProfilesPage.counts = ProfilesPage.shows
  BY DEF ProfilesPage, ProfileTabs, AllAnd, ProfileStatus
<1>4. /\ ~ProfilesPage.reads.server /\ ~ProfilesPage.reads.drops /\ ~ProfilesPage.reads.clears
      /\ ProfilesPage.reads.query \in BOOLEAN
  BY DEF ProfilesPage, VerificationReads, Plain
<1>5. \A s \in ProfileStatus : ProfilesPage.moves[s] \subseteq ProfileStatus
  BY DEF ProfilesPage, SubmitTrustProfile, ProfileStatus
<1>6. /\ ProfilesPage.acts.approveDocument.after = "read"
           /\ ~ProfilesPage.acts.approveDocument.mute
      /\ ProfilesPage.acts.rejectDocument.after = "read"
           /\ ~ProfilesPage.acts.rejectDocument.mute
  BY DEF ProfilesPage, ProfileActs, Ask, Unlocked, Reread
<1>7. \A s \in ProfileStatus : \A a :
        a \in ProfilesPage.offers[s] <=> a \in {"approveDocument", "rejectDocument"}
  BY DEF ProfilesPage, ProfileOffers
<1>8. \A s \in ProfileStatus : \A u :
        /\ u \in ProfilesPage.serves.approveDocument[s] <=>
             u \in {"VERIFIED", "PARTIALLY_REVIEWED", "REJECTED"}
        /\ u \in ProfilesPage.serves.rejectDocument[s] <=> u = "REJECTED"
  BY DEF ProfilesPage, recalculate_profile_status
<1>9. QED
  BY Overwriting, <1>1, <1>2, <1>3, <1>4, <1>5, <1>6, <1>7, <1>8 DEF Sound, Closed, Careful,
     Counted, Suited, KnownRefused, KnownMissing, ProfileStatus

LEMMA ReviewsSound == Sound("reviews")
<1>1. Pages["reviews"] = ReviewsPage
  BY DEF Pages, WebPages
<1>2. /\ DOMAIN ReviewsPage.moves = ReviewStatus
      /\ DOMAIN ReviewsPage.acts = {"toggle", "warn"}
  BY DEF ReviewsPage, AdminReviewToggleVisibility, ReviewActs, Forget, Ask, Unlocked, Reread
<1>3. /\ DOMAIN ReviewsPage.shows = ReviewStatus \cup {"ALL"}
           /\ ReviewsPage.shows["ALL"] = ReviewStatus
      /\ ReviewsPage.counts = ReviewsPage.shows
  BY DEF ReviewsPage, ReviewTabs, AllAnd, ReviewStatus
<1>4. /\ ~ReviewsPage.reads.server /\ ~ReviewsPage.reads.drops /\ ~ReviewsPage.reads.clears
      /\ ReviewsPage.reads.query \in BOOLEAN
  BY DEF ReviewsPage, ReviewReads, Plain
<1>5. \A s \in ReviewStatus : ReviewsPage.moves[s] \subseteq ReviewStatus
  BY DEF ReviewsPage, AdminReviewToggleVisibility, ReviewStatus
<1>6. /\ ReviewsPage.acts.toggle.after = "read" /\ ~ReviewsPage.acts.toggle.mute
      /\ ReviewsPage.acts.warn.after = "none" /\ ReviewsPage.acts.warn.mute
           /\ ReviewsPage.acts.warn.asks
  BY DEF ReviewsPage, ReviewActs, Forget, Ask, Unlocked, Reread
<1>7. \A s \in ReviewStatus : \A a :
        a \in ReviewsPage.offers[s] <=> a \in {"toggle", "warn"}
  BY DEF ReviewsPage, ReviewOffers
<1>8. \A s \in ReviewStatus : \A u :
        /\ u \in ReviewsPage.serves.toggle[s] <=> u \in ReviewStatus /\ u # s
        /\ u \in ReviewsPage.serves.warn[s] <=> u = s
  BY DEF ReviewsPage, AdminReviewToggleVisibility, AdminUserWarn
<1>9. QED
  BY Overwriting, <1>1, <1>2, <1>3, <1>4, <1>5, <1>6, <1>7, <1>8 DEF Sound, Closed, Careful,
     Counted, Suited, KnownRefused, KnownMissing, ReviewStatus

LEMMA DebtsSound == Sound("debts")
<1>1. Pages["debts"] = DebtsPage
  BY DEF Pages, WebPages
<1>2. /\ DOMAIN DebtsPage.moves = DebtStatus
      /\ DOMAIN DebtsPage.acts = {"settle"}
  BY DEF DebtsPage, DebtMoves, DebtActs, AskOnce, Reread
<1>3. /\ DOMAIN DebtsPage.shows = {"ALL"} /\ DebtsPage.shows["ALL"] = {"owes", "owes more"}
      /\ DebtsPage.counts = DebtsPage.shows
  BY DEF DebtsPage, DebtList
<1>4. /\ ~DebtsPage.reads.server /\ ~DebtsPage.reads.drops /\ ~DebtsPage.reads.clears
      /\ DebtsPage.reads.query \in BOOLEAN
  BY DEF DebtsPage, DebtReads, Plain
<1>5. \A s \in DebtStatus : DebtsPage.moves[s] \subseteq DebtStatus
  BY DEF DebtsPage, DebtMoves, DebtStatus
<1>6. DebtsPage.acts.settle.after = "read" /\ ~DebtsPage.acts.settle.mute
  BY DEF DebtsPage, DebtActs, AskOnce, Reread
<1>7. \A s \in DebtStatus : \A a :
        a \in DebtsPage.offers[s] <=> a = "settle" /\ s # "clear"
  BY DEF DebtsPage, DebtOffers
<1>8. \A s \in DebtStatus : \A u :
        u \in DebtsPage.serves.settle[s] <=> s # "clear" /\ u = "clear"
  BY DEF DebtsPage, AdminDebtSettle, Turns, DebtStatus
<1>9. Closed(Pages["debts"])
  <2>1. \A s \in DebtStatus : DebtsPage.offers[s] \subseteq {"settle"}
    BY <1>7
  <2>2. \A s \in DebtStatus : DebtsPage.serves["settle"][s] \subseteq DebtStatus
    BY <1>8 DEF DebtStatus
  <2>3. "twice" \notin DebtStatus /\ "absent" \notin DebtStatus
    BY DEF DebtStatus
  <2>4. QED
    BY <1>1, <1>2, <1>4, <1>5, <2>1, <2>2, <2>3 DEF Closed
<1>10. Careful(Pages["debts"])
  BY <1>1, <1>2, <1>4, <1>6 DEF Careful, DebtStatus
<1>11. Counted("debts")
  BY <1>1, <1>2, <1>3, <1>4 DEF Counted, DebtStatus
<1>12. Stands("debts")
  BY Overwriting
<1>13. Suited("debts")
  <2>1. \A s \in DebtStatus :
           "settle" \in DebtsPage.offers[s] <=> DebtsPage.serves["settle"][s] # {}
    BY <1>7, <1>8
  <2>2. \A s \in DebtStatus :
           DebtsPage.serves["settle"][s] # {} => s \in DebtsPage.shows["ALL"]
    BY <1>3, <1>8 DEF DebtStatus
  <2>3. \A a \in DOMAIN DebtsPage.acts, s \in DOMAIN DebtsPage.moves :
           /\ a \in DebtsPage.offers[s] =>
                 DebtsPage.serves[a][s] # {} /\ ~DebtsPage.acts[a].mute
           /\ \/ DebtsPage.serves[a][s] \subseteq {s}
              \/ s \in DebtsPage.shows["ALL"] /\ a \in DebtsPage.offers[s]
    BY <1>2, <1>6, <2>1, <2>2
  <2>4. QED
    BY <1>1, <1>3, <2>3 DEF Suited
<1>14. QED
  BY <1>9, <1>10, <1>11, <1>12, <1>13 DEF Sound

LEMMA AuditSound == Sound("audit")
<1>1. Pages["audit"] = AuditPage
  BY DEF Pages, WebPages
<1>2. /\ DOMAIN AuditPage.moves = AuditStatus
      /\ DOMAIN AuditPage.acts = {}
  BY DEF AuditPage, NoActs
<1>3. /\ DOMAIN AuditPage.shows = {"JOB_CANCELLED", "USER_SUSPENDED", "ALL"}
      /\ \A c \in DOMAIN AuditPage.shows : "absent" \notin AuditPage.shows[c]
      /\ DOMAIN AuditPage.counts = {}
  BY DEF AuditPage, AuditFilter, AllAnd, AuditStatus, NoCounts
<1>4. /\ AuditPage.reads.server
      /\ AuditPage.reads.query \in BOOLEAN
  BY DEF AuditPage, AuditReads, Plain
<1>5. \A s \in AuditStatus : AuditPage.moves[s] \subseteq AuditStatus
  BY DEF AuditPage, AuditStatus
<1>6. \A s \in AuditStatus : AuditPage.offers[s] = {}
  BY DEF AuditPage
<1>7. QED
  BY <1>1, <1>2, <1>3, <1>4, <1>5, <1>6, QuietPage DEF Closed, Counted, AuditStatus

-----------------------------------------------------------------------------
(* What clients and transporters read on the web.                          *)

LEMMA MyOffersSound == Sound("myOffers")
<1>1. Pages["myOffers"] = MyOffersPage
  BY DEF Pages, WebPages
<1>2. /\ DOMAIN MyOffersPage.moves = OfferStatus
      /\ DOMAIN MyOffersPage.acts = {"withdraw"}
  BY DEF MyOffersPage, OfferMoves, Ask, Unlocked, Reread
<1>3. /\ "ALL" \in DOMAIN MyOffersPage.shows /\ MyOffersPage.shows["ALL"] = OfferStatus
      /\ DOMAIN MyOffersPage.counts = {}
  BY DEF MyOffersPage, OfferTabs, NoCounts
<1>4. /\ ~MyOffersPage.reads.server /\ ~MyOffersPage.reads.drops /\ ~MyOffersPage.reads.clears
      /\ MyOffersPage.reads.query \in BOOLEAN
  BY DEF MyOffersPage, Polled, Plain
<1>5. \A s \in OfferStatus : MyOffersPage.moves[s] \subseteq OfferStatus
  BY DEF MyOffersPage, OfferMoves, OfferStatus
<1>6. MyOffersPage.acts.withdraw.after = "read" /\ ~MyOffersPage.acts.withdraw.mute
  BY DEF MyOffersPage, Ask, Unlocked, Reread
<1>7. \A s \in OfferStatus : \A a :
        a \in MyOffersPage.offers[s] <=> a = "withdraw" /\ s = "PENDING"
  BY DEF MyOffersPage, OfferStatusCard, mapApiOffer, OfferStatus
<1>8. \A s \in OfferStatus : \A u :
        u \in MyOffersPage.serves.withdraw[s] <=>
          s \in {"PENDING", "PENDING past its deadline"} /\ u = "WITHDRAWN"
  BY DEF MyOffersPage, OfferWithdraw, Turns
<1>9. Closed(Pages["myOffers"])
  <2>1. \A s \in OfferStatus : MyOffersPage.offers[s] \subseteq DOMAIN MyOffersPage.acts
    BY <1>2, <1>7
  <2>2. \A s \in OfferStatus : MyOffersPage.serves.withdraw[s] \subseteq OfferStatus
    BY <1>8 DEF OfferStatus
  <2>3. \A a \in DOMAIN MyOffersPage.acts, s \in OfferStatus :
          MyOffersPage.serves[a][s] \subseteq OfferStatus
    BY <1>2, <2>2
  <2>4. "twice" \notin OfferStatus /\ "absent" \notin OfferStatus
    BY DEF OfferStatus
  <2>5. QED
    BY <1>1, <1>2, <1>4, <1>5, <2>1, <2>3, <2>4 DEF Closed
<1>10. Careful(Pages["myOffers"])
  BY <1>1, <1>2, <1>4, <1>6 DEF Careful, OfferStatus
<1>11. Counted("myOffers")
  BY <1>1, <1>2, <1>3, <1>4 DEF Counted, OfferStatus
<1>12. Stands("myOffers")
  BY Overwriting
<1>13. Suited("myOffers")
  <2> DEFINE listed(s) == \E c \in DOMAIN MyOffersPage.shows : s \in MyOffersPage.shows[c]
  <2>1. \A s \in OfferStatus :
           /\ listed(s) /\ "withdraw" \in MyOffersPage.offers[s] =>
                 \/ "withdraw" \in KnownRefused("myOffers", s)
                 \/ MyOffersPage.serves.withdraw[s] # {} /\ ~MyOffersPage.acts.withdraw.mute
           /\ \/ "withdraw" \in KnownMissing("myOffers", s)
              \/ MyOffersPage.serves.withdraw[s] \subseteq {s}
              \/ listed(s) /\ "withdraw" \in MyOffersPage.offers[s]
    BY <1>3, <1>6, <1>7, <1>8 DEF OfferStatus, KnownRefused, KnownMissing
  <2> HIDE DEF listed
  <2>2. \A a \in DOMAIN MyOffersPage.acts, s \in DOMAIN MyOffersPage.moves :
           /\ listed(s) /\ a \in MyOffersPage.offers[s] =>
                 \/ a \in KnownRefused("myOffers", s)
                 \/ MyOffersPage.serves[a][s] # {} /\ ~MyOffersPage.acts[a].mute
           /\ \/ a \in KnownMissing("myOffers", s)
              \/ MyOffersPage.serves[a][s] \subseteq {s}
              \/ listed(s) /\ a \in MyOffersPage.offers[s]
    BY <1>2, <2>1
  <2>3. QED
    BY <1>1, <2>2 DEF Suited, listed
<1>14. QED
  BY <1>9, <1>10, <1>11, <1>12, <1>13 DEF Sound

LEMMA NotificationsSound == Sound("notifications")
<1>1. Pages["notifications"] = NotificationsPage
  BY DEF Pages, WebPages
<1>2. /\ DOMAIN NotificationsPage.moves = NotificationStatus
      /\ DOMAIN NotificationsPage.acts = {"read", "readAll"}
  BY DEF NotificationsPage, Hope, Unlocked, Reread
<1>3. /\ DOMAIN NotificationsPage.shows = {"all", "unread"}
           /\ NotificationsPage.shows["all"] = NotificationStatus
      /\ NotificationsPage.counts = NotificationsPage.shows
  BY DEF NotificationsPage, NotificationTabs
<1>4. /\ ~NotificationsPage.reads.server /\ ~NotificationsPage.reads.drops
           /\ ~NotificationsPage.reads.clears
      /\ NotificationsPage.reads.query \in BOOLEAN
  BY DEF NotificationsPage, Polled, Plain
<1>5. \A s \in NotificationStatus : NotificationsPage.moves[s] \subseteq NotificationStatus
  BY DEF NotificationsPage, NotificationStatus
<1>6. /\ NotificationsPage.acts.read.after = "hope" /\ ~NotificationsPage.acts.read.mute
           /\ ~NotificationsPage.acts.read.asks
      /\ NotificationsPage.acts.readAll.after = "hope"
           /\ ~NotificationsPage.acts.readAll.mute /\ ~NotificationsPage.acts.readAll.asks
  BY DEF NotificationsPage, Hope, Unlocked, Reread
<1>7. \A s \in NotificationStatus : \A a :
        a \in NotificationsPage.offers[s] <=> a \in {"read", "readAll"} /\ s = "unread"
  BY DEF NotificationsPage, NotificationItem
<1>8. \A s \in NotificationStatus : \A u :
        /\ u \in NotificationsPage.serves.read[s] <=> u = "read"
        /\ u \in NotificationsPage.serves.readAll[s] <=> u = "read"
  BY DEF NotificationsPage, NotificationRead
<1>9. Closed(Pages["notifications"])
  BY <1>1, <1>2, <1>4, <1>5, <1>7, <1>8 DEF Closed, NotificationStatus
<1>10. Careful(Pages["notifications"])
  BY <1>1, <1>2, <1>4, <1>6, <1>7, <1>8 DEF Careful, NotificationStatus
<1>11. Counted("notifications")
  BY <1>1, <1>2, <1>3, <1>4 DEF Counted, NotificationStatus
<1>12. Stands("notifications")
  <2>1. DOMAIN NotificationsPage.acts \ KnownOverwrites("notifications") = {"read", "readAll"}
    BY <1>1, <1>2 DEF KnownOverwrites
  <2>2. ASSUME NEW a \in {"read", "readAll"},
               NEW s \in NotificationStatus, NEW t \in NotificationStatus, s # t,
               ~(NotificationsPage.serves[a][s] \subseteq {s})
        PROVE  /\ NotificationsPage.serves[a][t] \subseteq {t}
               /\ \A u \in NotificationStatus : NotificationsPage.serves[a][u] \subseteq {t}
    BY <1>8, <2>1, <2>2 DEF NotificationStatus
  <2>3. QED
    BY <1>1, <1>2, <2>1, <2>2 DEF Stands
<1>13. Suited("notifications")
  BY <1>1, <1>2, <1>3, <1>6, <1>7, <1>8 DEF Suited, NotificationStatus, KnownRefused,
     KnownMissing
<1>14. QED
  BY <1>9, <1>10, <1>11, <1>12, <1>13 DEF Sound

LEMMA BellSound == Sound("bell")
<1>1. Pages["bell"] = BellPage
  BY DEF Pages, WebPages
<1>2. /\ DOMAIN BellPage.moves = NotificationStatus
      /\ DOMAIN BellPage.acts = {"read", "readAll"}
  BY DEF BellPage, NotificationsPage, BellActs, Hope, Unlocked, Reread
<1>3. /\ DOMAIN BellPage.shows = {"bell", "panel"} /\ BellPage.shows["bell"] = {"unread"}
           /\ BellPage.shows["panel"] = NotificationStatus
      /\ DOMAIN BellPage.counts = {"bell"} /\ BellPage.counts["bell"] = {"unread"}
  BY DEF BellPage, NotificationsPage, BellPlaces, BellCounts
<1>4. /\ ~BellPage.reads.server /\ ~BellPage.reads.drops /\ ~BellPage.reads.clears
      /\ BellPage.reads.query \in BOOLEAN
  BY DEF BellPage, NotificationsPage, Polled, Plain
<1>5. \A s \in NotificationStatus : BellPage.moves[s] \subseteq NotificationStatus
  BY DEF BellPage, NotificationsPage, NotificationStatus
<1>6. /\ BellPage.acts.read.after = "hope" /\ ~BellPage.acts.read.mute
           /\ ~BellPage.acts.read.asks
      /\ BellPage.acts.readAll.after = "hope" /\ ~BellPage.acts.readAll.mute
           /\ ~BellPage.acts.readAll.asks
  BY DEF BellPage, NotificationsPage, BellActs, Hope, Unlocked, Reread
<1>7. \A s \in NotificationStatus : \A a :
        a \in BellPage.offers[s] <=> a \in {"read", "readAll"} /\ s = "unread"
  BY DEF BellPage, NotificationsPage, NotificationItem
<1>8. \A s \in NotificationStatus : \A u :
        /\ u \in BellPage.serves.read[s] <=> u = "read"
        /\ u \in BellPage.serves.readAll[s] <=> u = "read"
  BY DEF BellPage, NotificationsPage, NotificationRead
<1>9. Stands("bell")
  <2>1. DOMAIN BellPage.acts \ KnownOverwrites("bell") = {"read", "readAll"}
    BY <1>1, <1>2 DEF KnownOverwrites
  <2>2. ASSUME NEW a \in {"read", "readAll"},
               NEW s \in NotificationStatus, NEW t \in NotificationStatus, s # t,
               ~(BellPage.serves[a][s] \subseteq {s})
        PROVE  /\ BellPage.serves[a][t] \subseteq {t}
               /\ \A u \in NotificationStatus : BellPage.serves[a][u] \subseteq {t}
    BY <1>8, <2>1, <2>2 DEF NotificationStatus
  <2>3. QED
    BY <1>1, <1>2, <2>1, <2>2 DEF Stands
<1>10. QED
  BY <1>1, <1>2, <1>3, <1>4, <1>5, <1>6, <1>7, <1>8, <1>9 DEF Sound, Closed, Careful,
     Counted, Suited, KnownRefused, KnownMissing, NotificationStatus

LEMMA InboxSound == Sound("inbox")
<1>1. Pages["inbox"] = InboxPage
  BY DEF Pages, WebPages
<1>2. /\ DOMAIN InboxPage.moves = ConversationStatus
      /\ DOMAIN InboxPage.acts = {}
  BY DEF InboxPage, NoActs
<1>3. /\ DOMAIN InboxPage.shows = {"ALL"} /\ InboxPage.shows["ALL"] = ConversationStatus
      /\ DOMAIN InboxPage.counts = {}
  BY DEF InboxPage, NoCounts
<1>4. InboxPage.reads.query \in BOOLEAN
  BY DEF InboxPage, InboxReads, Polled, Plain
<1>5. \A s \in ConversationStatus : InboxPage.moves[s] \subseteq ConversationStatus
  BY DEF InboxPage, ConversationStatus
<1>6. \A s \in ConversationStatus : InboxPage.offers[s] = {}
  BY DEF InboxPage
<1>7. QED
  BY <1>1, <1>2, <1>3, <1>4, <1>5, <1>6, QuietPage DEF Closed, Counted, ConversationStatus

LEMMA ThreadSound == Sound("thread")
<1>1. Pages["thread"] = ThreadPage
  BY DEF Pages, WebPages
<1>2. /\ DOMAIN ThreadPage.moves = ThreadStatus
      /\ DOMAIN ThreadPage.acts = {"send"}
  BY DEF ThreadPage, AddOn, Unlocked, Reread
<1>3. /\ DOMAIN ThreadPage.shows = {"ALL"} /\ ThreadPage.shows["ALL"] = ThreadStatus
      /\ DOMAIN ThreadPage.counts = {}
  BY DEF ThreadPage, NoCounts
<1>4. /\ ~ThreadPage.reads.server /\ ~ThreadPage.reads.drops /\ ~ThreadPage.reads.clears
      /\ ThreadPage.reads.query \in BOOLEAN
  BY DEF ThreadPage, ThreadReads, Polled, Plain
<1>5. \A s \in ThreadStatus : ThreadPage.moves[s] \subseteq ThreadStatus
  BY DEF ThreadPage, ThreadStatus
<1>6. ThreadPage.acts.send.after = "add" /\ ~ThreadPage.acts.send.mute
  BY DEF ThreadPage, AddOn, Unlocked, Reread
<1>7. \A s \in ThreadStatus : \A a :
        a \in ThreadPage.offers[s] <=> a = "send" /\ s = "quiet"
  BY DEF ThreadPage, ThreadOffers
<1>8. \A s \in ThreadStatus : \A u :
        u \in ThreadPage.serves.send[s] <=> s = "quiet" /\ u = "said"
  BY DEF ThreadPage, SendMessage, Turns
<1>9. QED
  BY Overwriting, <1>1, <1>2, <1>3, <1>4, <1>5, <1>6, <1>7, <1>8 DEF Sound, Closed, Careful,
     Counted, Suited, KnownRefused, KnownMissing, ThreadStatus

LEMMA SearchSound == Sound("search")
<1>1. Pages["search"] = SearchPage
  BY DEF Pages, WebPages
<1>2. /\ DOMAIN SearchPage.moves = TripStatus
      /\ DOMAIN SearchPage.acts = {}
  BY DEF SearchPage, TripMoves, NoActs
<1>3. /\ DOMAIN SearchPage.shows = {"north", "south", "ALL"}
      /\ \A c \in DOMAIN SearchPage.shows : "absent" \notin SearchPage.shows[c]
      /\ DOMAIN SearchPage.counts = {}
  BY DEF SearchPage, Corridors, AllAnd, NoCounts
<1>4. /\ SearchPage.reads.server
      /\ SearchPage.reads.query \in BOOLEAN
  BY DEF SearchPage, SearchReads, Plain
<1>5. \A s \in TripStatus : SearchPage.moves[s] \subseteq TripStatus
  BY DEF SearchPage, TripMoves, TripStatus
<1>6. \A s \in TripStatus : SearchPage.offers[s] = {}
  BY DEF SearchPage
<1>7. QED
  BY <1>1, <1>2, <1>3, <1>4, <1>5, <1>6, QuietPage DEF Closed, Counted, TripStatus

LEMMA BrowseSound == Sound("browse")
<1>1. Pages["browse"] = BrowsePage
  BY DEF Pages, WebPages
<1>2. /\ DOMAIN BrowsePage.moves = TripStatus
      /\ DOMAIN BrowsePage.acts = {}
  BY DEF BrowsePage, SearchPage, TripMoves, NoActs
<1>3. /\ DOMAIN BrowsePage.shows = {"north", "south", "ALL"}
      /\ \A c \in DOMAIN BrowsePage.shows : "absent" \notin BrowsePage.shows[c]
      /\ DOMAIN BrowsePage.counts = {}
  BY DEF BrowsePage, SearchPage, Corridors, AllAnd, NoCounts
<1>4. /\ BrowsePage.reads.server
      /\ BrowsePage.reads.query \in BOOLEAN
  BY DEF BrowsePage, SearchPage, BrowseReads, SearchReads, Plain
<1>5. \A s \in TripStatus : BrowsePage.moves[s] \subseteq TripStatus
  BY DEF BrowsePage, SearchPage, TripMoves, TripStatus
<1>6. \A s \in TripStatus : BrowsePage.offers[s] = {}
  BY DEF BrowsePage, SearchPage
<1>7. QED
  BY <1>1, <1>2, <1>3, <1>4, <1>5, <1>6, QuietPage DEF Closed, Counted, TripStatus

LEMMA AlertsSound == Sound("alerts")
<1>1. Pages["alerts"] = AlertsPage
  BY DEF Pages, WebPages
<1>2. /\ DOMAIN AlertsPage.moves = AlertStatus
      /\ DOMAIN AlertsPage.acts = {"create", "delete"}
  BY DEF AlertsPage, AlertActs, Write, Unlocked, Reread
<1>3. /\ DOMAIN AlertsPage.shows = {"alerts", "noResults"}
           /\ AlertsPage.shows["noResults"] = AlertStatus
      /\ DOMAIN AlertsPage.counts = {}
  BY DEF AlertsPage, AlertLists, NoCounts
<1>4. /\ ~AlertsPage.reads.server /\ ~AlertsPage.reads.drops /\ ~AlertsPage.reads.clears
      /\ AlertsPage.reads.query \in BOOLEAN
  BY DEF AlertsPage, AlertReads, Plain
<1>5. \A s \in AlertStatus : AlertsPage.moves[s] \subseteq AlertStatus
  BY DEF AlertsPage, AlertStatus
<1>6. /\ AlertsPage.acts.create.after = "read" /\ ~AlertsPage.acts.create.mute
      /\ AlertsPage.acts.delete.after = "write" /\ ~AlertsPage.acts.delete.mute
  BY DEF AlertsPage, AlertActs, Write, Unlocked, Reread
<1>7. \A s \in AlertStatus : \A a :
        a \in AlertsPage.offers[s] <=>
          \/ a = "create"
          \/ a = "delete" /\ s = "active"
  BY DEF AlertsPage, AlertOffers
<1>8. \A s \in AlertStatus : \A u :
        /\ u \in AlertsPage.serves.create[s] <=> u = "active"
        /\ u \in AlertsPage.serves.delete[s] <=> u = "none"
  BY DEF AlertsPage, CorridorAlertCreate, CorridorAlertDelete
<1>9. Stands("alerts")
  <2>1. DOMAIN AlertsPage.acts \ KnownOverwrites("alerts") = {"create", "delete"}
    BY <1>1, <1>2 DEF KnownOverwrites
  <2>2. ASSUME NEW a \in {"create", "delete"},
               NEW s \in AlertStatus, NEW t \in AlertStatus, s # t,
               ~(AlertsPage.serves[a][s] \subseteq {s})
        PROVE  /\ AlertsPage.serves[a][t] \subseteq {t}
               /\ \A u \in AlertStatus : AlertsPage.serves[a][u] \subseteq {t}
    BY <1>8, <2>1, <2>2 DEF AlertStatus
  <2>3. QED
    BY <1>1, <1>2, <2>1, <2>2 DEF Stands
<1>10. QED
  BY <1>1, <1>2, <1>3, <1>4, <1>5, <1>6, <1>7, <1>8, <1>9 DEF Sound, Closed, Careful,
     Counted, Suited, KnownRefused, KnownMissing, AlertStatus

LEMMA ReceivedSound == Sound("received")
<1>1. Pages["received"] = ReceivedPage
  BY DEF Pages, WebPages
<1>2. /\ DOMAIN ReceivedPage.moves = RequestsOf
      /\ DOMAIN ReceivedPage.acts = {"accept", "reject", "counter"}
  BY DEF ReceivedPage, RequestMoves, ReceivedActs, Shut, Reread
<1>3. /\ DOMAIN ReceivedPage.shows = {"a-decider", "negociation", "archivees"}
      /\ "PENDING" \in ReceivedPage.shows["a-decider"]
           /\ "COUNTERED" \in ReceivedPage.shows["negociation"]
      /\ DOMAIN ReceivedPage.counts = {}
  BY DEF ReceivedPage, ONGLETS, NoCounts
<1>4. /\ ReceivedPage.reads.server /\ ~ReceivedPage.reads.drops
      /\ ReceivedPage.reads.query \in BOOLEAN
  BY DEF ReceivedPage, ReceivedReads, Plain
<1>5. \A s \in RequestsOf : ReceivedPage.moves[s] \subseteq RequestsOf
  BY DEF ReceivedPage, RequestMoves, RequestsOf
<1>6. /\ ReceivedPage.acts.accept.after = "read" /\ ~ReceivedPage.acts.accept.mute
      /\ ReceivedPage.acts.reject.after = "read" /\ ~ReceivedPage.acts.reject.mute
      /\ ReceivedPage.acts.counter.after = "read" /\ ~ReceivedPage.acts.counter.mute
  BY DEF ReceivedPage, ReceivedActs, Shut, Reread
<1>7. \A s \in RequestsOf : \A a :
        a \in ReceivedPage.offers[s] <=>
          a \in {"accept", "counter", "reject"} /\ s \in {"PENDING", "COUNTERED"}
  BY DEF ReceivedPage, ReceivedRequestCard, ONGLETS, RequestsOf
<1>8. \A s \in RequestsOf : \A u :
        /\ u \in ReceivedPage.serves.accept[s] <=> s = "PENDING" /\ u = "ACCEPTED"
        /\ u \in ReceivedPage.serves.counter[s] <=> s = "PENDING" /\ u = "COUNTERED"
        /\ u \in ReceivedPage.serves.reject[s] <=> s = "PENDING" /\ u = "REJECTED"
  BY DEF ReceivedPage, TripRequestRespond, Turns
<1>9. Stands("received")
  <2>1. DOMAIN ReceivedPage.acts \ KnownOverwrites("received") = {"accept", "reject", "counter"}
    BY <1>1, <1>2 DEF KnownOverwrites
  <2>2. /\ ReceivedPage.acts.accept.locks
        /\ ReceivedPage.acts.reject.locks
        /\ ReceivedPage.acts.counter.locks
    BY DEF ReceivedPage, ReceivedActs, Shut, Reread
  <2>3. ASSUME NEW a \in {"accept", "reject", "counter"},
               NEW s \in RequestsOf, NEW t \in RequestsOf, s # t,
               ~(ReceivedPage.serves[a][s] \subseteq {s})
        PROVE  /\ ReceivedPage.serves[a][t] \subseteq {t}
               /\ ReceivedPage.acts[a].locks
    BY <1>8, <2>1, <2>2, <2>3 DEF RequestsOf
  <2>4. QED
    BY <1>1, <1>2, <2>1, <2>3 DEF Stands
<1>10. QED
  BY <1>1, <1>2, <1>3, <1>4, <1>5, <1>6, <1>7, <1>8, <1>9 DEF Sound, Closed, Careful,
     Counted, Suited, KnownRefused, KnownMissing, RequestsOf

LEMMA MyTripsSound == Sound("myTrips")
<1>1. Pages["myTrips"] = MyTripsPage
  BY DEF Pages, WebPages
<1>2. /\ DOMAIN MyTripsPage.moves = OwnedStatus
      /\ DOMAIN MyTripsPage.acts = {"extend", "duplicate", "unpublish"}
  BY DEF MyTripsPage, OwnedMoves, OwnedActs, Shut, Unlocked, Reread
<1>3. /\ DOMAIN MyTripsPage.shows = {"ALL"} /\ MyTripsPage.shows["ALL"] = OwnedStatus
      /\ DOMAIN MyTripsPage.counts = {}
  BY DEF MyTripsPage, NoCounts
<1>4. /\ ~MyTripsPage.reads.server /\ ~MyTripsPage.reads.drops /\ ~MyTripsPage.reads.clears
      /\ MyTripsPage.reads.query \in BOOLEAN
  BY DEF MyTripsPage, OwnedReads, Plain
<1>5. \A s \in OwnedStatus : MyTripsPage.moves[s] \subseteq OwnedStatus
  BY DEF MyTripsPage, OwnedMoves, OwnedStatus
<1>6. /\ MyTripsPage.acts.extend.after = "read" /\ ~MyTripsPage.acts.extend.mute
      /\ MyTripsPage.acts.duplicate.after = "read" /\ ~MyTripsPage.acts.duplicate.mute
      /\ MyTripsPage.acts.unpublish.after = "read" /\ ~MyTripsPage.acts.unpublish.mute
  BY DEF MyTripsPage, OwnedActs, Shut, Unlocked, Reread
<1>7. \A s \in OwnedStatus : \A a :
        a \in MyTripsPage.offers[s] <=> a \in {"extend", "duplicate", "unpublish"}
  BY DEF MyTripsPage, ReturnTripRow
<1>8. \A s \in OwnedStatus : \A u :
        /\ u \in MyTripsPage.serves.extend[s] <=> s \in {"to come", "over"} /\ u = "to come"
        /\ u \in MyTripsPage.serves.duplicate[s] <=> s # "long over" /\ u = s
        /\ u \in MyTripsPage.serves.unpublish[s] <=>
             s \in {"to come", "over", "long over"} /\ u = "cancelled"
  BY DEF MyTripsPage, extendReturnTrip, duplicateReturnTrip, unpublishReturnTrip, Published,
     Turns
<1>9. Closed(Pages["myTrips"])
  <2>1. \A s \in OwnedStatus : MyTripsPage.offers[s] \subseteq DOMAIN MyTripsPage.acts
    BY <1>2, <1>7
  <2>2. \A s \in OwnedStatus : MyTripsPage.serves.extend[s] \subseteq OwnedStatus
    BY <1>8 DEF OwnedStatus
  <2>3. \A s \in OwnedStatus : MyTripsPage.serves.duplicate[s] \subseteq OwnedStatus
    BY <1>8 DEF OwnedStatus
  <2>4. \A s \in OwnedStatus : MyTripsPage.serves.unpublish[s] \subseteq OwnedStatus
    BY <1>8 DEF OwnedStatus
  <2>5. \A a \in DOMAIN MyTripsPage.acts, s \in OwnedStatus :
          MyTripsPage.serves[a][s] \subseteq OwnedStatus
    BY <1>2, <2>2, <2>3, <2>4
  <2>6. "twice" \notin OwnedStatus /\ "absent" \notin OwnedStatus
    BY DEF OwnedStatus
  <2>7. QED
    BY <1>1, <1>2, <1>4, <1>5, <2>1, <2>5, <2>6 DEF Closed
<1>10. Careful(Pages["myTrips"])
  BY <1>1, <1>2, <1>4, <1>6 DEF Careful, OwnedStatus
<1>11. Counted("myTrips")
  BY <1>1, <1>2, <1>3, <1>4 DEF Counted, OwnedStatus
<1>12. Stands("myTrips")
  <2>1. DOMAIN MyTripsPage.acts \ KnownOverwrites("myTrips") = {"duplicate"}
    BY <1>1, <1>2 DEF KnownOverwrites
  <2>2. \A s \in OwnedStatus : MyTripsPage.serves.duplicate[s] \subseteq {s}
    BY <1>8
  <2>3. QED
    BY <1>1, <1>2, <2>1, <2>2 DEF Stands
<1>13. Suited("myTrips")
  <2> DEFINE listed(s) == \E c \in DOMAIN MyTripsPage.shows : s \in MyTripsPage.shows[c]
  <2>1. \A s \in OwnedStatus :
           /\ listed(s) /\ "extend" \in MyTripsPage.offers[s] =>
                 \/ "extend" \in KnownRefused("myTrips", s)
                 \/ MyTripsPage.serves.extend[s] # {} /\ ~MyTripsPage.acts.extend.mute
           /\ \/ "extend" \in KnownMissing("myTrips", s)
              \/ MyTripsPage.serves.extend[s] \subseteq {s}
              \/ listed(s) /\ "extend" \in MyTripsPage.offers[s]
    BY <1>3, <1>6, <1>7, <1>8 DEF OwnedStatus, KnownRefused, KnownMissing
  <2>2. \A s \in OwnedStatus :
           /\ listed(s) /\ "duplicate" \in MyTripsPage.offers[s] =>
                 \/ "duplicate" \in KnownRefused("myTrips", s)
                 \/ MyTripsPage.serves.duplicate[s] # {} /\ ~MyTripsPage.acts.duplicate.mute
           /\ \/ "duplicate" \in KnownMissing("myTrips", s)
              \/ MyTripsPage.serves.duplicate[s] \subseteq {s}
              \/ listed(s) /\ "duplicate" \in MyTripsPage.offers[s]
    BY <1>3, <1>6, <1>7, <1>8 DEF OwnedStatus, KnownRefused, KnownMissing
  <2>3. \A s \in OwnedStatus :
           /\ listed(s) /\ "unpublish" \in MyTripsPage.offers[s] =>
                 \/ "unpublish" \in KnownRefused("myTrips", s)
                 \/ MyTripsPage.serves.unpublish[s] # {} /\ ~MyTripsPage.acts.unpublish.mute
           /\ \/ "unpublish" \in KnownMissing("myTrips", s)
              \/ MyTripsPage.serves.unpublish[s] \subseteq {s}
              \/ listed(s) /\ "unpublish" \in MyTripsPage.offers[s]
    BY <1>3, <1>6, <1>7, <1>8 DEF OwnedStatus, KnownRefused, KnownMissing
  <2> HIDE DEF listed
  <2>4. \A a \in DOMAIN MyTripsPage.acts, s \in DOMAIN MyTripsPage.moves :
           /\ listed(s) /\ a \in MyTripsPage.offers[s] =>
                 \/ a \in KnownRefused("myTrips", s)
                 \/ MyTripsPage.serves[a][s] # {} /\ ~MyTripsPage.acts[a].mute
           /\ \/ a \in KnownMissing("myTrips", s)
              \/ MyTripsPage.serves[a][s] \subseteq {s}
              \/ listed(s) /\ a \in MyTripsPage.offers[s]
    BY <1>2, <2>1, <2>2, <2>3
  <2>5. QED
    BY <1>1, <2>4 DEF Suited, listed
<1>14. QED
  BY <1>9, <1>10, <1>11, <1>12, <1>13 DEF Sound

LEMMA SentSound == Sound("sent")
<1>1. Pages["sent"] = SentRequestsPage
  BY DEF Pages, WebPages
<1>2. /\ DOMAIN SentRequestsPage.moves = RequestsOf
      /\ DOMAIN SentRequestsPage.acts = {}
  BY DEF SentRequestsPage, RequestMoves, NoActs
<1>3. /\ DOMAIN SentRequestsPage.shows = OngletExpedition
      /\ DOMAIN SentRequestsPage.counts = DOMAIN SentRequestsPage.shows
      /\ \A c \in DOMAIN SentRequestsPage.counts : \A s : s \in SentRequestsPage.counts[c] <=>
           s \in SentRequestsPage.shows[c]
  BY DEF SentRequestsPage, SentTabs
<1>4. /\ ~SentRequestsPage.reads.server
      /\ SentRequestsPage.reads.query \in BOOLEAN
  BY DEF SentRequestsPage, Plain
<1>5. \A s \in RequestsOf : SentRequestsPage.moves[s] \subseteq RequestsOf
  BY DEF SentRequestsPage, RequestMoves, RequestsOf
<1>6. \A s \in RequestsOf : SentRequestsPage.offers[s] = {}
  BY DEF SentRequestsPage
<1>7. Closed(Pages["sent"])
  BY <1>1, <1>2, <1>4, <1>5, <1>6 DEF Closed, RequestsOf
<1>8. Counted("sent")
  BY <1>1, <1>2, <1>3, <1>4 DEF Counted
<1>9. QED
  BY <1>1, <1>2, <1>7, <1>8, QuietPage

LEMMA ClientWalletSound == Sound("clientWallet")
<1>1. Pages["clientWallet"] = ClientWalletPage
  BY DEF Pages, WebPages
<1>2. /\ DOMAIN ClientWalletPage.moves = MoneyStatus
      /\ DOMAIN ClientWalletPage.acts = {}
  BY DEF ClientWalletPage, NoActs
<1>3. /\ DOMAIN ClientWalletPage.shows = {"ALL"}
      /\ DOMAIN ClientWalletPage.counts = {}
  BY DEF ClientWalletPage, NoCounts
<1>4. ClientWalletPage.reads.query \in BOOLEAN
  BY DEF ClientWalletPage, Once, Plain
<1>5. \A s \in MoneyStatus : ClientWalletPage.moves[s] \subseteq MoneyStatus
  BY DEF ClientWalletPage, MoneyStatus
<1>6. \A s \in MoneyStatus : ClientWalletPage.offers[s] = {}
  BY DEF ClientWalletPage
<1>7. QED
  BY <1>1, <1>2, <1>3, <1>4, <1>5, <1>6, QuietPage DEF Closed, Counted, MoneyStatus

LEMMA MyReviewsSound == Sound("myReviews")
<1>1. Pages["myReviews"] = MyReviewsPage
  BY DEF Pages, WebPages
<1>2. /\ DOMAIN MyReviewsPage.moves = RevealStatus
      /\ DOMAIN MyReviewsPage.acts = {}
  BY DEF MyReviewsPage, NoActs
<1>3. /\ DOMAIN MyReviewsPage.shows = {"ALL"}
      /\ DOMAIN MyReviewsPage.counts = {}
  BY DEF MyReviewsPage, NoCounts
<1>4. MyReviewsPage.reads.query \in BOOLEAN
  BY DEF MyReviewsPage, Once, Plain
<1>5. \A s \in RevealStatus : MyReviewsPage.moves[s] \subseteq RevealStatus
  BY DEF MyReviewsPage, RevealStatus
<1>6. \A s \in RevealStatus : MyReviewsPage.offers[s] = {}
  BY DEF MyReviewsPage
<1>7. QED
  BY <1>1, <1>2, <1>3, <1>4, <1>5, <1>6, QuietPage DEF Closed, Counted, RevealStatus

LEMMA HomeSound == Sound("home")
<1>1. Pages["home"] = HomePage
  BY DEF Pages, WebPages
<1>2. /\ DOMAIN HomePage.moves = HomeStatus
      /\ DOMAIN HomePage.acts = {}
  BY DEF HomePage, HomeMoves, NoActs
<1>3. /\ DOMAIN HomePage.shows = {"ALL"}
      /\ DOMAIN HomePage.counts = {}
  BY DEF HomePage, ClientDashboard, NoCounts
<1>4. HomePage.reads.query \in BOOLEAN
  BY DEF HomePage, HomeReads, Plain
<1>5. \A s \in HomeStatus : HomePage.moves[s] \subseteq HomeStatus
  BY DEF HomePage, HomeMoves, HomeStatus
<1>6. \A s \in HomeStatus : HomePage.offers[s] = {}
  BY DEF HomePage
<1>7. QED
  BY <1>1, <1>2, <1>3, <1>4, <1>5, <1>6, QuietPage DEF Closed, Counted, HomeStatus

LEMMA TransporterHomeSound == Sound("transporterHome")
<1>1. Pages["transporterHome"] = TransporterHomePage
  BY DEF Pages, WebPages
<1>2. /\ DOMAIN TransporterHomePage.moves = HomeStatus
      /\ DOMAIN TransporterHomePage.acts = {}
  BY DEF TransporterHomePage, HomePage, HomeMoves, NoActs
<1>3. /\ DOMAIN TransporterHomePage.shows = {"ALL"}
      /\ DOMAIN TransporterHomePage.counts = {}
  BY DEF TransporterHomePage, HomePage, TransporterDashboard, NoCounts
<1>4. TransporterHomePage.reads.query \in BOOLEAN
  BY DEF TransporterHomePage, HomePage, HomeReads, Plain
<1>5. \A s \in HomeStatus : TransporterHomePage.moves[s] \subseteq HomeStatus
  BY DEF TransporterHomePage, HomePage, HomeMoves, HomeStatus
<1>6. \A s \in HomeStatus : TransporterHomePage.offers[s] = {}
  BY DEF TransporterHomePage, HomePage
<1>7. QED
  BY <1>1, <1>2, <1>3, <1>4, <1>5, <1>6, QuietPage DEF Closed, Counted, HomeStatus

LEMMA PerformanceSound == Sound("performance")
<1>1. Pages["performance"] = PerformancePage
  BY DEF Pages, WebPages
<1>2. /\ DOMAIN PerformancePage.moves = CorridorStatus
      /\ DOMAIN PerformancePage.acts = {}
  BY DEF PerformancePage, CorridorMoves, NoActs
<1>3. /\ DOMAIN PerformancePage.shows = {"revenue", "opportunities"}
      /\ DOMAIN PerformancePage.counts = {}
  BY DEF PerformancePage, PerformanceSections, NoCounts
<1>4. PerformancePage.reads.query \in BOOLEAN
  BY DEF PerformancePage, PerformanceReads, Once, Plain
<1>5. \A s \in CorridorStatus : PerformancePage.moves[s] \subseteq CorridorStatus
  BY DEF PerformancePage, CorridorMoves, CorridorStatus
<1>6. \A s \in CorridorStatus : PerformancePage.offers[s] = {}
  BY DEF PerformancePage
<1>7. QED
  BY <1>1, <1>2, <1>3, <1>4, <1>5, <1>6, QuietPage DEF Closed, Counted, CorridorStatus

LEMMA TransporterMissionsSound == Sound("transporterMissions")
<1>1. Pages["transporterMissions"] = TransporterMissionsPage
  BY DEF Pages, WebPages
<1>2. /\ DOMAIN TransporterMissionsPage.moves = MissionStatus
      /\ DOMAIN TransporterMissionsPage.acts = {}
  BY DEF TransporterMissionsPage, MissionMoves, HomeStatus, NoActs
<1>3. /\ DOMAIN TransporterMissionsPage.shows = {"ALL", "UPCOMING", "IN_PROGRESS", "COMPLETED"}
      /\ DOMAIN TransporterMissionsPage.counts = DOMAIN TransporterMissionsPage.shows
      /\ \A c \in DOMAIN TransporterMissionsPage.counts : \A s :
           s \in TransporterMissionsPage.counts[c] <=> s \in TransporterMissionsPage.shows[c]
  BY DEF TransporterMissionsPage, TransporterTabs
<1>4. /\ ~TransporterMissionsPage.reads.server
      /\ TransporterMissionsPage.reads.query \in BOOLEAN
  BY DEF TransporterMissionsPage, Polled, Plain
<1>5. \A s \in MissionStatus : TransporterMissionsPage.moves[s] \subseteq MissionStatus
  BY DEF TransporterMissionsPage, MissionMoves, HomeStatus, MissionStatus
<1>6. \A s \in MissionStatus : TransporterMissionsPage.offers[s] = {}
  BY DEF TransporterMissionsPage
<1>7. Closed(Pages["transporterMissions"])
  BY <1>1, <1>2, <1>4, <1>5, <1>6 DEF Closed, MissionStatus, HomeStatus
<1>8. Counted("transporterMissions")
  BY <1>1, <1>2, <1>3, <1>4 DEF Counted
<1>9. QED
  BY <1>1, <1>2, <1>7, <1>8, QuietPage

LEMMA ClientMissionsSound == Sound("clientMissions")
<1>1. Pages["clientMissions"] = ClientMissionsPage
  BY DEF Pages, WebPages
<1>2. /\ DOMAIN ClientMissionsPage.moves = MissionStatus
      /\ DOMAIN ClientMissionsPage.acts = {}
  BY DEF ClientMissionsPage, TransporterMissionsPage, MissionMoves, HomeStatus, NoActs
<1>3. /\ DOMAIN ClientMissionsPage.shows = OngletExpedition
      /\ DOMAIN ClientMissionsPage.counts = DOMAIN ClientMissionsPage.shows
      /\ \A c \in DOMAIN ClientMissionsPage.counts : \A s :
           s \in ClientMissionsPage.counts[c] <=> s \in ClientMissionsPage.shows[c]
  BY DEF ClientMissionsPage, TransporterMissionsPage, ClientTabs
<1>4. /\ ~ClientMissionsPage.reads.server
      /\ ClientMissionsPage.reads.query \in BOOLEAN
  BY DEF ClientMissionsPage, TransporterMissionsPage, HomeReads, Plain
<1>5. \A s \in MissionStatus : ClientMissionsPage.moves[s] \subseteq MissionStatus
  BY DEF ClientMissionsPage, TransporterMissionsPage, MissionMoves, HomeStatus, MissionStatus
<1>6. \A s \in MissionStatus : ClientMissionsPage.offers[s] = {}
  BY DEF ClientMissionsPage, TransporterMissionsPage
<1>7. Closed(Pages["clientMissions"])
  BY <1>1, <1>2, <1>4, <1>5, <1>6 DEF Closed, MissionStatus, HomeStatus
<1>8. Counted("clientMissions")
  BY <1>1, <1>2, <1>3, <1>4 DEF Counted
<1>9. QED
  BY <1>1, <1>2, <1>7, <1>8, QuietPage

LEMMA FavouritesSound == Sound("favourites")
<1>1. Pages["favourites"] = FavouritesPage
  BY DEF Pages, WebPages
<1>2. /\ DOMAIN FavouritesPage.moves = FavouriteStatus
      /\ DOMAIN FavouritesPage.acts = {"remove"}
  BY DEF FavouritesPage, FavoriteToggle, Either, Unlocked, Reread
<1>3. /\ DOMAIN FavouritesPage.shows = {"ALL"} /\ FavouritesPage.shows["ALL"] = {"favourite"}
      /\ DOMAIN FavouritesPage.counts = {}
  BY DEF FavouritesPage, FavouriteList, NoCounts
<1>4. /\ ~FavouritesPage.reads.server /\ ~FavouritesPage.reads.drops
           /\ ~FavouritesPage.reads.clears
      /\ FavouritesPage.reads.query \in BOOLEAN
  BY DEF FavouritesPage, Once, Plain
<1>5. \A s \in FavouriteStatus : FavouritesPage.moves[s] \subseteq FavouriteStatus
  BY DEF FavouritesPage, FavoriteToggle, FavouriteStatus
<1>6. FavouritesPage.acts.remove.after = "either" /\ ~FavouritesPage.acts.remove.mute
  BY DEF FavouritesPage, Either, Unlocked, Reread
<1>7. \A s \in FavouriteStatus : \A a :
        a \in FavouritesPage.offers[s] <=> a = "remove" /\ s = "favourite"
  BY DEF FavouritesPage, FavouriteOffers
<1>8. \A s \in FavouriteStatus : \A u :
        u \in FavouritesPage.serves.remove[s] <=> u \in FavouriteStatus /\ u # s
  BY DEF FavouritesPage, FavoriteToggle
<1>9. Closed(Pages["favourites"])
  <2>1. \A s \in FavouriteStatus : FavouritesPage.offers[s] \subseteq DOMAIN FavouritesPage.acts
    BY <1>2, <1>7
  <2>2. \A s \in FavouriteStatus : FavouritesPage.serves.remove[s] \subseteq FavouriteStatus
    BY <1>8 DEF FavouriteStatus
  <2>3. \A a \in DOMAIN FavouritesPage.acts, s \in FavouriteStatus :
          FavouritesPage.serves[a][s] \subseteq FavouriteStatus
    BY <1>2, <2>2
  <2>4. "twice" \notin FavouriteStatus /\ "absent" \notin FavouriteStatus
    BY DEF FavouriteStatus
  <2>5. QED
    BY <1>1, <1>2, <1>4, <1>5, <2>1, <2>3, <2>4 DEF Closed
<1>10. Careful(Pages["favourites"])
  BY <1>1, <1>2, <1>4, <1>6 DEF Careful, FavouriteStatus
<1>11. Counted("favourites")
  BY <1>1, <1>2, <1>3, <1>4 DEF Counted, FavouriteStatus
<1>12. Stands("favourites")
  BY Overwriting
<1>13. Suited("favourites")
  <2> DEFINE listed(s) == \E c \in DOMAIN FavouritesPage.shows : s \in FavouritesPage.shows[c]
  <2>1. \A s \in FavouriteStatus :
           /\ listed(s) /\ "remove" \in FavouritesPage.offers[s] =>
                 \/ "remove" \in KnownRefused("favourites", s)
                 \/ FavouritesPage.serves.remove[s] # {} /\ ~FavouritesPage.acts.remove.mute
           /\ \/ "remove" \in KnownMissing("favourites", s)
              \/ FavouritesPage.serves.remove[s] \subseteq {s}
              \/ listed(s) /\ "remove" \in FavouritesPage.offers[s]
    BY <1>3, <1>6, <1>7, <1>8 DEF FavouriteStatus, KnownRefused, KnownMissing
  <2> HIDE DEF listed
  <2>2. \A a \in DOMAIN FavouritesPage.acts, s \in DOMAIN FavouritesPage.moves :
           /\ listed(s) /\ a \in FavouritesPage.offers[s] =>
                 \/ a \in KnownRefused("favourites", s)
                 \/ FavouritesPage.serves[a][s] # {} /\ ~FavouritesPage.acts[a].mute
           /\ \/ a \in KnownMissing("favourites", s)
              \/ FavouritesPage.serves[a][s] \subseteq {s}
              \/ listed(s) /\ a \in FavouritesPage.offers[s]
    BY <1>2, <2>1
  <2>3. QED
    BY <1>1, <2>2 DEF Suited, listed
<1>14. QED
  BY <1>9, <1>10, <1>11, <1>12, <1>13 DEF Sound

LEMMA WalletSound == Sound("wallet")
<1>1. Pages["wallet"] = WalletPage
  BY DEF Pages, WebPages
<1>2. /\ DOMAIN WalletPage.moves = BalanceStatus
      /\ DOMAIN WalletPage.acts = {"withdraw"}
  BY DEF WalletPage, Unlocked, Reread
<1>3. /\ DOMAIN WalletPage.shows = {"ALL"} /\ WalletPage.shows["ALL"] = BalanceStatus
      /\ DOMAIN WalletPage.counts = {}
  BY DEF WalletPage, NoCounts
<1>4. /\ ~WalletPage.reads.server /\ ~WalletPage.reads.drops /\ ~WalletPage.reads.clears
      /\ WalletPage.reads.query \in BOOLEAN
  BY DEF WalletPage, WalletReads, Once, Plain
<1>5. \A s \in BalanceStatus : WalletPage.moves[s] \subseteq BalanceStatus
  BY DEF WalletPage, BalanceStatus
<1>6. WalletPage.acts.withdraw.after = "read" /\ ~WalletPage.acts.withdraw.mute
  BY DEF WalletPage, Unlocked, Reread
<1>7. \A s \in BalanceStatus : \A a :
        a \in WalletPage.offers[s] <=> a = "withdraw" /\ s = "enough"
  BY DEF WalletPage, WalletOffers
<1>8. \A s \in BalanceStatus : \A u :
        u \in WalletPage.serves.withdraw[s] <=> s = "enough" /\ u \in BalanceStatus
  BY DEF WalletPage, RequestWithdrawal
<1>9. Closed(Pages["wallet"])
  <2>1. \A s \in BalanceStatus : WalletPage.offers[s] \subseteq DOMAIN WalletPage.acts
    BY <1>2, <1>7
  <2>2. \A s \in BalanceStatus : WalletPage.serves.withdraw[s] \subseteq BalanceStatus
    BY <1>8 DEF BalanceStatus
  <2>3. \A a \in DOMAIN WalletPage.acts, s \in BalanceStatus :
          WalletPage.serves[a][s] \subseteq BalanceStatus
    BY <1>2, <2>2
  <2>4. "twice" \notin BalanceStatus /\ "absent" \notin BalanceStatus
    BY DEF BalanceStatus
  <2>5. QED
    BY <1>1, <1>2, <1>4, <1>5, <2>1, <2>3, <2>4 DEF Closed
<1>10. Careful(Pages["wallet"])
  BY <1>1, <1>2, <1>4, <1>6 DEF Careful, BalanceStatus
<1>11. Counted("wallet")
  BY <1>1, <1>2, <1>3, <1>4 DEF Counted, BalanceStatus
<1>12. Stands("wallet")
  BY Overwriting
<1>13. Suited("wallet")
  <2> DEFINE listed(s) == \E c \in DOMAIN WalletPage.shows : s \in WalletPage.shows[c]
  <2>1. \A s \in BalanceStatus :
           /\ listed(s) /\ "withdraw" \in WalletPage.offers[s] =>
                 \/ "withdraw" \in KnownRefused("wallet", s)
                 \/ WalletPage.serves.withdraw[s] # {} /\ ~WalletPage.acts.withdraw.mute
           /\ \/ "withdraw" \in KnownMissing("wallet", s)
              \/ WalletPage.serves.withdraw[s] \subseteq {s}
              \/ listed(s) /\ "withdraw" \in WalletPage.offers[s]
    BY <1>3, <1>6, <1>7, <1>8 DEF BalanceStatus, KnownRefused, KnownMissing
  <2> HIDE DEF listed
  <2>2. \A a \in DOMAIN WalletPage.acts, s \in DOMAIN WalletPage.moves :
           /\ listed(s) /\ a \in WalletPage.offers[s] =>
                 \/ a \in KnownRefused("wallet", s)
                 \/ WalletPage.serves[a][s] # {} /\ ~WalletPage.acts[a].mute
           /\ \/ a \in KnownMissing("wallet", s)
              \/ WalletPage.serves[a][s] \subseteq {s}
              \/ listed(s) /\ a \in WalletPage.offers[s]
    BY <1>2, <2>1
  <2>3. QED
    BY <1>1, <2>2 DEF Suited, listed
<1>14. QED
  BY <1>9, <1>10, <1>11, <1>12, <1>13 DEF Sound

LEMMA LitigesSound == Sound("litiges")
<1>1. Pages["litiges"] = LitigesPage
  BY DEF Pages, WebPages
<1>2. /\ DOMAIN LitigesPage.moves = LitigeStatus
      /\ DOMAIN LitigesPage.acts = {"open"}
  BY DEF LitigesPage, LitigeMoves, Ask, Reread
<1>3. /\ DOMAIN LitigesPage.shows = {"ALL", "OPEN", "INVESTIGATING", "RESOLVED", "REJECTED",
           "new"}
      /\ LitigesPage.shows["new"] = LitigeStatus
      /\ DOMAIN LitigesPage.counts = DOMAIN LitigesPage.shows \ {"new"}
      /\ \A c \in DOMAIN LitigesPage.counts : \A s : s \in LitigesPage.counts[c] <=>
           s \in LitigesPage.shows[c]
  BY DEF LitigesPage, LitigeTabs, LitigeCounts, LitigeTabs
<1>4. /\ ~LitigesPage.reads.server /\ ~LitigesPage.reads.drops /\ ~LitigesPage.reads.clears
      /\ LitigesPage.reads.query \in BOOLEAN
  BY DEF LitigesPage, LitigeReads, Plain
<1>5. \A s \in LitigeStatus : LitigesPage.moves[s] \subseteq LitigeStatus
  BY DEF LitigesPage, LitigeMoves, LitigeStatus
<1>6. LitigesPage.acts.open.after = "read" /\ ~LitigesPage.acts.open.mute
  BY DEF LitigesPage, Ask, Reread
<1>7. \A s \in LitigeStatus : \A a :
        a \in LitigesPage.offers[s] <=> a = "open"
  BY DEF LitigesPage, getDisputableJobs
<1>8. \A s \in LitigeStatus : \A u :
        u \in LitigesPage.serves.open[s] <=>
          s \in {"none", "RESOLVED", "REJECTED"} /\ u = "OPEN"
  BY DEF LitigesPage, createDispute, Turns
<1>9. Closed(Pages["litiges"])
  <2>1. \A s \in LitigeStatus : LitigesPage.offers[s] \subseteq DOMAIN LitigesPage.acts
    BY <1>2, <1>7
  <2>2. \A s \in LitigeStatus : LitigesPage.serves.open[s] \subseteq LitigeStatus
    BY <1>8 DEF LitigeStatus
  <2>3. \A a \in DOMAIN LitigesPage.acts, s \in LitigeStatus :
          LitigesPage.serves[a][s] \subseteq LitigeStatus
    BY <1>2, <2>2
  <2>4. "twice" \notin LitigeStatus /\ "absent" \notin LitigeStatus
    BY DEF LitigeStatus
  <2>5. QED
    BY <1>1, <1>2, <1>4, <1>5, <2>1, <2>3, <2>4 DEF Closed
<1>10. Careful(Pages["litiges"])
  BY <1>1, <1>2, <1>4, <1>6 DEF Careful, LitigeStatus
<1>11. Counted("litiges")
  BY <1>1, <1>2, <1>3, <1>4 DEF Counted, LitigeStatus
<1>12. Stands("litiges")
  BY Overwriting
<1>13. Suited("litiges")
  <2> DEFINE listed(s) == \E c \in DOMAIN LitigesPage.shows : s \in LitigesPage.shows[c]
  <2>1. \A s \in LitigeStatus :
           /\ listed(s) /\ "open" \in LitigesPage.offers[s] =>
                 \/ "open" \in KnownRefused("litiges", s)
                 \/ LitigesPage.serves.open[s] # {} /\ ~LitigesPage.acts.open.mute
           /\ \/ "open" \in KnownMissing("litiges", s)
              \/ LitigesPage.serves.open[s] \subseteq {s}
              \/ listed(s) /\ "open" \in LitigesPage.offers[s]
    BY <1>3, <1>6, <1>7, <1>8 DEF LitigeStatus, KnownRefused, KnownMissing
  <2> HIDE DEF listed
  <2>2. \A a \in DOMAIN LitigesPage.acts, s \in DOMAIN LitigesPage.moves :
           /\ listed(s) /\ a \in LitigesPage.offers[s] =>
                 \/ a \in KnownRefused("litiges", s)
                 \/ LitigesPage.serves[a][s] # {} /\ ~LitigesPage.acts[a].mute
           /\ \/ a \in KnownMissing("litiges", s)
              \/ LitigesPage.serves[a][s] \subseteq {s}
              \/ listed(s) /\ a \in LitigesPage.offers[s]
    BY <1>2, <2>1
  <2>3. QED
    BY <1>1, <2>2 DEF Suited, listed
<1>14. QED
  BY <1>9, <1>10, <1>11, <1>12, <1>13 DEF Sound

LEMMA VerificationSound == Sound("verification")
<1>1. Pages["verification"] = VerificationPage
  BY DEF Pages, WebPages
<1>2. /\ DOMAIN VerificationPage.moves = VerificationStatus
      /\ DOMAIN VerificationPage.acts = {"upload", "submit"}
  BY DEF VerificationPage, VerificationMoves, VerifyActs, Unlocked, Reread
<1>3. /\ DOMAIN VerificationPage.shows = {"ALL"}
           /\ VerificationPage.shows["ALL"] = VerificationStatus
      /\ DOMAIN VerificationPage.counts = {}
  BY DEF VerificationPage, NoCounts
<1>4. /\ ~VerificationPage.reads.server /\ ~VerificationPage.reads.drops
           /\ ~VerificationPage.reads.clears
      /\ VerificationPage.reads.query \in BOOLEAN
  BY DEF VerificationPage, VerifyReads, Plain
<1>5. \A s \in VerificationStatus : VerificationPage.moves[s] \subseteq VerificationStatus
  BY DEF VerificationPage, VerificationMoves, VerificationStatus
<1>6. /\ VerificationPage.acts.upload.after = "read" /\ ~VerificationPage.acts.upload.mute
      /\ VerificationPage.acts.submit.after = "read" /\ ~VerificationPage.acts.submit.mute
  BY DEF VerificationPage, VerifyActs, Unlocked, Reread
<1>7. \A s \in VerificationStatus : \A a :
        a \in VerificationPage.offers[s] <=>
          s \in {"UNVERIFIED", "REJECTED"} /\ a \in {"upload", "submit"}
  BY DEF VerificationPage, showUploadForm
<1>8. \A s \in VerificationStatus : \A u :
        /\ u \in VerificationPage.serves.upload[s] <=> u = s
        /\ u \in VerificationPage.serves.submit[s] <=>
             \/ s \in {"UNVERIFIED", "REJECTED"} /\ u = "PENDING"
             \/ s \notin {"UNVERIFIED", "REJECTED"} /\ u = s
  BY DEF VerificationPage, DocumentUpload, TrustProfileSubmission
<1>9. Closed(Pages["verification"])
  <2>1. \A s \in VerificationStatus :
          VerificationPage.offers[s] \subseteq DOMAIN VerificationPage.acts
    BY <1>2, <1>7
  <2>2. \A s \in VerificationStatus :
          VerificationPage.serves.upload[s] \subseteq VerificationStatus
    BY <1>8 DEF VerificationStatus
  <2>3. \A s \in VerificationStatus :
          VerificationPage.serves.submit[s] \subseteq VerificationStatus
    BY <1>8 DEF VerificationStatus
  <2>4. \A a \in DOMAIN VerificationPage.acts, s \in VerificationStatus :
          VerificationPage.serves[a][s] \subseteq VerificationStatus
    BY <1>2, <2>2, <2>3
  <2>5. "twice" \notin VerificationStatus /\ "absent" \notin VerificationStatus
    BY DEF VerificationStatus
  <2>6. QED
    BY <1>1, <1>2, <1>4, <1>5, <2>1, <2>4, <2>5 DEF Closed
<1>10. Careful(Pages["verification"])
  BY <1>1, <1>2, <1>4, <1>6 DEF Careful, VerificationStatus
<1>11. Counted("verification")
  BY <1>1, <1>2, <1>3, <1>4 DEF Counted, VerificationStatus
<1>12. Stands("verification")
  <2>1. DOMAIN VerificationPage.acts \ KnownOverwrites("verification") = {"upload"}
    BY <1>1, <1>2 DEF KnownOverwrites
  <2>2. \A s \in VerificationStatus : VerificationPage.serves.upload[s] \subseteq {s}
    BY <1>8
  <2>3. QED
    BY <1>1, <1>2, <2>1, <2>2 DEF Stands
<1>13. Suited("verification")
  <2> DEFINE listed(s) == \E c \in DOMAIN VerificationPage.shows :
               s \in VerificationPage.shows[c]
  <2>1. \A s \in VerificationStatus :
           /\ listed(s) /\ "upload" \in VerificationPage.offers[s] =>
                 \/ "upload" \in KnownRefused("verification", s)
                 \/ VerificationPage.serves.upload[s] # {} /\ ~VerificationPage.acts.upload.mute
           /\ \/ "upload" \in KnownMissing("verification", s)
              \/ VerificationPage.serves.upload[s] \subseteq {s}
              \/ listed(s) /\ "upload" \in VerificationPage.offers[s]
    BY <1>3, <1>6, <1>7, <1>8 DEF VerificationStatus, KnownRefused, KnownMissing
  <2>2. \A s \in VerificationStatus :
           /\ listed(s) /\ "submit" \in VerificationPage.offers[s] =>
                 \/ "submit" \in KnownRefused("verification", s)
                 \/ VerificationPage.serves.submit[s] # {} /\ ~VerificationPage.acts.submit.mute
           /\ \/ "submit" \in KnownMissing("verification", s)
              \/ VerificationPage.serves.submit[s] \subseteq {s}
              \/ listed(s) /\ "submit" \in VerificationPage.offers[s]
    BY <1>3, <1>6, <1>7, <1>8 DEF VerificationStatus, KnownRefused, KnownMissing
  <2> HIDE DEF listed
  <2>3. \A a \in DOMAIN VerificationPage.acts, s \in DOMAIN VerificationPage.moves :
           /\ listed(s) /\ a \in VerificationPage.offers[s] =>
                 \/ a \in KnownRefused("verification", s)
                 \/ VerificationPage.serves[a][s] # {} /\ ~VerificationPage.acts[a].mute
           /\ \/ a \in KnownMissing("verification", s)
              \/ VerificationPage.serves[a][s] \subseteq {s}
              \/ listed(s) /\ a \in VerificationPage.offers[s]
    BY <1>2, <2>1, <2>2
  <2>4. QED
    BY <1>1, <2>3 DEF Suited, listed
<1>14. QED
  BY <1>9, <1>10, <1>11, <1>12, <1>13 DEF Sound

-----------------------------------------------------------------------------
(* What they read on the phone.                                            *)

LEMMA PhoneSearchSound == Sound("phoneSearch")
<1>1. Pages["phoneSearch"] = PhoneSearchPage
  BY DEF Pages, WebPages, PhonePages
<1>2. /\ DOMAIN PhoneSearchPage.moves = MatchStatus
      /\ DOMAIN PhoneSearchPage.acts = {}
  BY DEF PhoneSearchPage, MatchMoves, NoActs
<1>3. /\ DOMAIN PhoneSearchPage.shows = {"all", "noGoods", "noDay", "corridor", "neighbours"}
      /\ "absent" \notin PhoneSearchPage.shows.all
           /\ "absent" \notin PhoneSearchPage.shows.noGoods
                /\ "absent" \notin PhoneSearchPage.shows.noDay
      /\ "absent" \notin PhoneSearchPage.shows.corridor
           /\ "absent" \notin PhoneSearchPage.shows.neighbours
      /\ DOMAIN PhoneSearchPage.counts = {}
  BY DEF PhoneSearchPage, SearchEmptyState, NoCounts
<1>4. /\ PhoneSearchPage.reads.server
      /\ PhoneSearchPage.reads.query \in BOOLEAN
  BY DEF PhoneSearchPage, useReturnTripMatch, Plain
<1>5. \A s \in MatchStatus : PhoneSearchPage.moves[s] \subseteq MatchStatus
  BY DEF PhoneSearchPage, MatchMoves, MatchStatus
<1>6. \A s \in MatchStatus : PhoneSearchPage.offers[s] = {}
  BY DEF PhoneSearchPage
<1>7. QED
  BY <1>1, <1>2, <1>3, <1>4, <1>5, <1>6, QuietPage DEF Closed, Counted, MatchStatus

LEMMA PhoneAlertsSound == Sound("phoneAlerts")
<1>1. Pages["phoneAlerts"] = PhoneAlertsPage
  BY DEF Pages, WebPages, PhonePages
<1>2. /\ DOMAIN PhoneAlertsPage.moves = AlertStatus
      /\ DOMAIN PhoneAlertsPage.acts = {"create", "delete"}
  BY DEF PhoneAlertsPage, AlertsPage, useCreateCorridorAlert, CorridorAlertRow, Untold, Shut,
     Unlocked, Reread
<1>3. /\ DOMAIN PhoneAlertsPage.shows = {"alerts", "noResults"}
           /\ PhoneAlertsPage.shows["noResults"] = AlertStatus
      /\ DOMAIN PhoneAlertsPage.counts = {}
  BY DEF PhoneAlertsPage, AlertsPage, AlertLists, NoCounts
<1>4. /\ ~PhoneAlertsPage.reads.server /\ PhoneAlertsPage.reads.drops
           /\ ~PhoneAlertsPage.reads.clears
      /\ PhoneAlertsPage.reads.query \in BOOLEAN
  BY DEF PhoneAlertsPage, AlertsPage, Query, Plain
<1>5. \A s \in AlertStatus : PhoneAlertsPage.moves[s] \subseteq AlertStatus
  BY DEF PhoneAlertsPage, AlertsPage, AlertStatus
<1>6. /\ PhoneAlertsPage.acts.create.after = "untold" /\ ~PhoneAlertsPage.acts.create.mute
      /\ PhoneAlertsPage.acts.delete.after = "read" /\ ~PhoneAlertsPage.acts.delete.mute
  BY DEF PhoneAlertsPage, AlertsPage, useCreateCorridorAlert, CorridorAlertRow, Untold, Shut,
     Unlocked, Reread
<1>7. \A s \in AlertStatus : \A a :
        a \in PhoneAlertsPage.offers[s] <=>
          \/ a = "create"
          \/ a = "delete" /\ s = "active"
  BY DEF PhoneAlertsPage, AlertsPage, AlertOffers
<1>8. \A s \in AlertStatus : \A u :
        /\ u \in PhoneAlertsPage.serves.create[s] <=> u = "active"
        /\ u \in PhoneAlertsPage.serves.delete[s] <=> u = "none"
  BY DEF PhoneAlertsPage, AlertsPage, CorridorAlertCreate, CorridorAlertDelete
<1>9. Closed(Pages["phoneAlerts"])
  <2>1. \A s \in AlertStatus : PhoneAlertsPage.offers[s] \subseteq DOMAIN PhoneAlertsPage.acts
    BY <1>2, <1>7
  <2>2. \A s \in AlertStatus : PhoneAlertsPage.serves.create[s] \subseteq AlertStatus
    BY <1>8 DEF AlertStatus
  <2>3. \A s \in AlertStatus : PhoneAlertsPage.serves.delete[s] \subseteq AlertStatus
    BY <1>8 DEF AlertStatus
  <2>4. \A a \in DOMAIN PhoneAlertsPage.acts, s \in AlertStatus :
          PhoneAlertsPage.serves[a][s] \subseteq AlertStatus
    BY <1>2, <2>2, <2>3
  <2>5. "twice" \notin AlertStatus /\ "absent" \notin AlertStatus
    BY DEF AlertStatus
  <2>6. QED
    BY <1>1, <1>2, <1>4, <1>5, <2>1, <2>4, <2>5 DEF Closed
<1>10. Careful(Pages["phoneAlerts"])
  BY <1>1, <1>2, <1>4, <1>6 DEF Careful, AlertStatus
<1>11. Counted("phoneAlerts")
  BY <1>1, <1>2, <1>3, <1>4 DEF Counted, AlertStatus
<1>12. Stands("phoneAlerts")
  <2>1. DOMAIN PhoneAlertsPage.acts \ KnownOverwrites("phoneAlerts") = {"create", "delete"}
    BY <1>1, <1>2 DEF KnownOverwrites
  <2>2. ASSUME NEW a \in {"create", "delete"},
               NEW s \in AlertStatus, NEW t \in AlertStatus, s # t,
               ~(PhoneAlertsPage.serves[a][s] \subseteq {s})
        PROVE  /\ PhoneAlertsPage.serves[a][t] \subseteq {t}
               /\ \A u \in AlertStatus : PhoneAlertsPage.serves[a][u] \subseteq {t}
    BY <1>8, <2>1, <2>2 DEF AlertStatus
  <2>3. QED
    BY <1>1, <1>2, <2>1, <2>2 DEF Stands
<1>13. Suited("phoneAlerts")
  <2> DEFINE listed(s) == \E c \in DOMAIN PhoneAlertsPage.shows : s \in PhoneAlertsPage.shows[c]
  <2>1. \A s \in AlertStatus :
           /\ listed(s) /\ "create" \in PhoneAlertsPage.offers[s] =>
                 \/ "create" \in KnownRefused("phoneAlerts", s)
                 \/ PhoneAlertsPage.serves.create[s] # {} /\ ~PhoneAlertsPage.acts.create.mute
           /\ \/ "create" \in KnownMissing("phoneAlerts", s)
              \/ PhoneAlertsPage.serves.create[s] \subseteq {s}
              \/ listed(s) /\ "create" \in PhoneAlertsPage.offers[s]
    BY <1>3, <1>6, <1>7, <1>8 DEF AlertStatus, KnownRefused, KnownMissing
  <2>2. \A s \in AlertStatus :
           /\ listed(s) /\ "delete" \in PhoneAlertsPage.offers[s] =>
                 \/ "delete" \in KnownRefused("phoneAlerts", s)
                 \/ PhoneAlertsPage.serves.delete[s] # {} /\ ~PhoneAlertsPage.acts.delete.mute
           /\ \/ "delete" \in KnownMissing("phoneAlerts", s)
              \/ PhoneAlertsPage.serves.delete[s] \subseteq {s}
              \/ listed(s) /\ "delete" \in PhoneAlertsPage.offers[s]
    BY <1>3, <1>6, <1>7, <1>8 DEF AlertStatus, KnownRefused, KnownMissing
  <2> HIDE DEF listed
  <2>3. \A a \in DOMAIN PhoneAlertsPage.acts, s \in DOMAIN PhoneAlertsPage.moves :
           /\ listed(s) /\ a \in PhoneAlertsPage.offers[s] =>
                 \/ a \in KnownRefused("phoneAlerts", s)
                 \/ PhoneAlertsPage.serves[a][s] # {} /\ ~PhoneAlertsPage.acts[a].mute
           /\ \/ a \in KnownMissing("phoneAlerts", s)
              \/ PhoneAlertsPage.serves[a][s] \subseteq {s}
              \/ listed(s) /\ a \in PhoneAlertsPage.offers[s]
    BY <1>2, <2>1, <2>2
  <2>4. QED
    BY <1>1, <2>3 DEF Suited, listed
<1>14. QED
  BY <1>9, <1>10, <1>11, <1>12, <1>13 DEF Sound

LEMMA PhoneRequestsSound == Sound("phoneRequests")
<1>1. Pages["phoneRequests"] = PhoneRequestsPage
  BY DEF Pages, WebPages, PhonePages
<1>2. /\ DOMAIN PhoneRequestsPage.moves = RequestsOf
      /\ DOMAIN PhoneRequestsPage.acts = {"accept", "reject", "counter"}
  BY DEF PhoneRequestsPage, ReceivedPage, RequestMoves, useRespondRequest, Shut, Reread
<1>3. /\ DOMAIN PhoneRequestsPage.shows = {"ALL"} /\ PhoneRequestsPage.shows["ALL"] = RequestsOf
      /\ DOMAIN PhoneRequestsPage.counts = {}
  BY DEF PhoneRequestsPage, ReceivedPage, NoCounts
<1>4. /\ ~PhoneRequestsPage.reads.server /\ PhoneRequestsPage.reads.drops
           /\ ~PhoneRequestsPage.reads.clears
      /\ PhoneRequestsPage.reads.query \in BOOLEAN
  BY DEF PhoneRequestsPage, ReceivedPage, ErrorFirst, Query, Plain
<1>5. \A s \in RequestsOf : PhoneRequestsPage.moves[s] \subseteq RequestsOf
  BY DEF PhoneRequestsPage, ReceivedPage, RequestMoves, RequestsOf
<1>6. /\ PhoneRequestsPage.acts.accept.after = "read" /\ ~PhoneRequestsPage.acts.accept.mute
      /\ PhoneRequestsPage.acts.reject.after = "read" /\ ~PhoneRequestsPage.acts.reject.mute
      /\ PhoneRequestsPage.acts.counter.after = "read" /\ ~PhoneRequestsPage.acts.counter.mute
  BY DEF PhoneRequestsPage, ReceivedPage, useRespondRequest, Shut, Reread
<1>7. \A s \in RequestsOf : \A a :
        a \in PhoneRequestsPage.offers[s] <=>
          s = "PENDING" /\ a \in {"accept", "counter", "reject"}
  BY DEF PhoneRequestsPage, ReceivedPage, RequestCard
<1>8. \A s \in RequestsOf : \A u :
        /\ u \in PhoneRequestsPage.serves.accept[s] <=> s = "PENDING" /\ u = "ACCEPTED"
        /\ u \in PhoneRequestsPage.serves.counter[s] <=> s = "PENDING" /\ u = "COUNTERED"
        /\ u \in PhoneRequestsPage.serves.reject[s] <=> s = "PENDING" /\ u = "REJECTED"
  BY DEF PhoneRequestsPage, ReceivedPage, TripRequestRespond, Turns
<1>9. Closed(Pages["phoneRequests"])
  <2>1. \A s \in RequestsOf :
          PhoneRequestsPage.offers[s] \subseteq DOMAIN PhoneRequestsPage.acts
    BY <1>2, <1>7
  <2>2. \A s \in RequestsOf : PhoneRequestsPage.serves.accept[s] \subseteq RequestsOf
    BY <1>8 DEF RequestsOf
  <2>3. \A s \in RequestsOf : PhoneRequestsPage.serves.reject[s] \subseteq RequestsOf
    BY <1>8 DEF RequestsOf
  <2>4. \A s \in RequestsOf : PhoneRequestsPage.serves.counter[s] \subseteq RequestsOf
    BY <1>8 DEF RequestsOf
  <2>5. \A a \in DOMAIN PhoneRequestsPage.acts, s \in RequestsOf :
          PhoneRequestsPage.serves[a][s] \subseteq RequestsOf
    BY <1>2, <2>2, <2>3, <2>4
  <2>6. "twice" \notin RequestsOf /\ "absent" \notin RequestsOf
    BY DEF RequestsOf
  <2>7. QED
    BY <1>1, <1>2, <1>4, <1>5, <2>1, <2>5, <2>6 DEF Closed
<1>10. Careful(Pages["phoneRequests"])
  BY <1>1, <1>2, <1>4, <1>6 DEF Careful, RequestsOf
<1>11. Counted("phoneRequests")
  BY <1>1, <1>2, <1>3, <1>4 DEF Counted, RequestsOf
<1>12. Stands("phoneRequests")
  <2>1. DOMAIN PhoneRequestsPage.acts \ KnownOverwrites("phoneRequests") =
           {"accept", "reject", "counter"}
    BY <1>1, <1>2 DEF KnownOverwrites
  <2>2. /\ PhoneRequestsPage.acts.accept.locks
        /\ PhoneRequestsPage.acts.reject.locks
        /\ PhoneRequestsPage.acts.counter.locks
    BY DEF PhoneRequestsPage, ReceivedPage, useRespondRequest, Shut, Reread
  <2>3. ASSUME NEW a \in {"accept", "reject", "counter"},
               NEW s \in RequestsOf, NEW t \in RequestsOf, s # t,
               ~(PhoneRequestsPage.serves[a][s] \subseteq {s})
        PROVE  /\ PhoneRequestsPage.serves[a][t] \subseteq {t}
               /\ PhoneRequestsPage.acts[a].locks
    BY <1>8, <2>1, <2>2, <2>3 DEF RequestsOf
  <2>4. QED
    BY <1>1, <1>2, <2>1, <2>3 DEF Stands
<1>13. Suited("phoneRequests")
  <2> DEFINE listed(s) == \E c \in DOMAIN PhoneRequestsPage.shows :
               s \in PhoneRequestsPage.shows[c]
  <2>1. \A s \in RequestsOf :
           /\ listed(s) /\ "accept" \in PhoneRequestsPage.offers[s] =>
                 \/ "accept" \in KnownRefused("phoneRequests", s)
                 \/ PhoneRequestsPage.serves.accept[s] # {}
                      /\ ~PhoneRequestsPage.acts.accept.mute
           /\ \/ "accept" \in KnownMissing("phoneRequests", s)
              \/ PhoneRequestsPage.serves.accept[s] \subseteq {s}
              \/ listed(s) /\ "accept" \in PhoneRequestsPage.offers[s]
    BY <1>3, <1>6, <1>7, <1>8 DEF RequestsOf, KnownRefused, KnownMissing
  <2>2. \A s \in RequestsOf :
           /\ listed(s) /\ "reject" \in PhoneRequestsPage.offers[s] =>
                 \/ "reject" \in KnownRefused("phoneRequests", s)
                 \/ PhoneRequestsPage.serves.reject[s] # {}
                      /\ ~PhoneRequestsPage.acts.reject.mute
           /\ \/ "reject" \in KnownMissing("phoneRequests", s)
              \/ PhoneRequestsPage.serves.reject[s] \subseteq {s}
              \/ listed(s) /\ "reject" \in PhoneRequestsPage.offers[s]
    BY <1>3, <1>6, <1>7, <1>8 DEF RequestsOf, KnownRefused, KnownMissing
  <2>3. \A s \in RequestsOf :
           /\ listed(s) /\ "counter" \in PhoneRequestsPage.offers[s] =>
                 \/ "counter" \in KnownRefused("phoneRequests", s)
                 \/ PhoneRequestsPage.serves.counter[s] # {}
                      /\ ~PhoneRequestsPage.acts.counter.mute
           /\ \/ "counter" \in KnownMissing("phoneRequests", s)
              \/ PhoneRequestsPage.serves.counter[s] \subseteq {s}
              \/ listed(s) /\ "counter" \in PhoneRequestsPage.offers[s]
    BY <1>3, <1>6, <1>7, <1>8 DEF RequestsOf, KnownRefused, KnownMissing
  <2> HIDE DEF listed
  <2>4. \A a \in DOMAIN PhoneRequestsPage.acts, s \in DOMAIN PhoneRequestsPage.moves :
           /\ listed(s) /\ a \in PhoneRequestsPage.offers[s] =>
                 \/ a \in KnownRefused("phoneRequests", s)
                 \/ PhoneRequestsPage.serves[a][s] # {} /\ ~PhoneRequestsPage.acts[a].mute
           /\ \/ a \in KnownMissing("phoneRequests", s)
              \/ PhoneRequestsPage.serves[a][s] \subseteq {s}
              \/ listed(s) /\ a \in PhoneRequestsPage.offers[s]
    BY <1>2, <2>1, <2>2, <2>3
  <2>5. QED
    BY <1>1, <2>4 DEF Suited, listed
<1>14. QED
  BY <1>9, <1>10, <1>11, <1>12, <1>13 DEF Sound

LEMMA PhoneSentSound == Sound("phoneSent")
<1>1. Pages["phoneSent"] = PhoneSentPage
  BY DEF Pages, WebPages, PhonePages
<1>2. /\ DOMAIN PhoneSentPage.moves = RequestsOf
      /\ DOMAIN PhoneSentPage.acts = {"accept", "withdraw"}
  BY DEF PhoneSentPage, SentRequestsPage, RequestMoves, MyRequestActs, Shut, Unlocked, Reread
<1>3. /\ DOMAIN PhoneSentPage.shows = ONGLETS_DEMANDES
      /\ "PENDING" \in PhoneSentPage.shows["attente"]
           /\ "COUNTERED" \in PhoneSentPage.shows["negociation"]
      /\ {"attente", "negociation"} \subseteq ONGLETS_DEMANDES
      /\ DOMAIN PhoneSentPage.counts = DOMAIN PhoneSentPage.shows
      /\ \A c \in DOMAIN PhoneSentPage.counts : \A s : s \in PhoneSentPage.counts[c] <=>
           s \in PhoneSentPage.shows[c]
  BY DEF PhoneSentPage, SentRequestsPage, DemandeTabs, ONGLETS_DEMANDES, ongletDeLaDemande,
     RequestsOf, compterParOnglet
<1>4. /\ ~PhoneSentPage.reads.server /\ PhoneSentPage.reads.drops /\ ~PhoneSentPage.reads.clears
      /\ PhoneSentPage.reads.query \in BOOLEAN
  BY DEF PhoneSentPage, SentRequestsPage, Query, Plain
<1>5. \A s \in RequestsOf : PhoneSentPage.moves[s] \subseteq RequestsOf
  BY DEF PhoneSentPage, SentRequestsPage, RequestMoves, RequestsOf
<1>6. /\ PhoneSentPage.acts.accept.after = "read" /\ ~PhoneSentPage.acts.accept.mute
      /\ PhoneSentPage.acts.withdraw.after = "read" /\ ~PhoneSentPage.acts.withdraw.mute
  BY DEF PhoneSentPage, SentRequestsPage, MyRequestActs, Shut, Unlocked, Reread
<1>7. \A s \in RequestsOf : \A a :
        a \in PhoneSentPage.offers[s] <=>
          \/ a = "accept" /\ s = "COUNTERED"
          \/ a = "withdraw" /\ s \in {"PENDING", "COUNTERED"}
  BY DEF PhoneSentPage, SentRequestsPage, MyRequestCard
<1>8. \A s \in RequestsOf : \A u :
        /\ u \in PhoneSentPage.serves.accept[s] <=> s = "COUNTERED" /\ u = "ACCEPTED"
        /\ u \in PhoneSentPage.serves.withdraw[s] <=>
             s \in {"PENDING", "COUNTERED"} /\ u = "CANCELLED"
  BY DEF PhoneSentPage, SentRequestsPage, TripRequestAcceptCounter, TripRequestCancel, Turns
<1>9. Closed(Pages["phoneSent"])
  <2>1. \A s \in RequestsOf : PhoneSentPage.offers[s] \subseteq DOMAIN PhoneSentPage.acts
    BY <1>2, <1>7
  <2>2. \A s \in RequestsOf : PhoneSentPage.serves.accept[s] \subseteq RequestsOf
    BY <1>8 DEF RequestsOf
  <2>3. \A s \in RequestsOf : PhoneSentPage.serves.withdraw[s] \subseteq RequestsOf
    BY <1>8 DEF RequestsOf
  <2>4. \A a \in DOMAIN PhoneSentPage.acts, s \in RequestsOf :
          PhoneSentPage.serves[a][s] \subseteq RequestsOf
    BY <1>2, <2>2, <2>3
  <2>5. "twice" \notin RequestsOf /\ "absent" \notin RequestsOf
    BY DEF RequestsOf
  <2>6. QED
    BY <1>1, <1>2, <1>4, <1>5, <2>1, <2>4, <2>5 DEF Closed
<1>10. Careful(Pages["phoneSent"])
  BY <1>1, <1>2, <1>4, <1>6 DEF Careful, RequestsOf
<1>11. Counted("phoneSent")
  BY <1>1, <1>2, <1>3, <1>4 DEF Counted, RequestsOf
<1>12. Stands("phoneSent")
  <2>1. DOMAIN PhoneSentPage.acts \ KnownOverwrites("phoneSent") = {"accept"}
    BY <1>1, <1>2 DEF KnownOverwrites
  <2>2. PhoneSentPage.acts.accept.locks
    BY DEF PhoneSentPage, SentRequestsPage, MyRequestActs, Shut, Unlocked, Reread
  <2>3. ASSUME NEW a \in {"accept"},
               NEW s \in RequestsOf, NEW t \in RequestsOf, s # t,
               ~(PhoneSentPage.serves[a][s] \subseteq {s})
        PROVE  /\ PhoneSentPage.serves[a][t] \subseteq {t}
               /\ PhoneSentPage.acts[a].locks
    BY <1>8, <2>1, <2>2, <2>3 DEF RequestsOf
  <2>4. QED
    BY <1>1, <1>2, <2>1, <2>3 DEF Stands
<1>13. Suited("phoneSent")
  <2> DEFINE listed(s) == \E c \in DOMAIN PhoneSentPage.shows : s \in PhoneSentPage.shows[c]
  <2>1. \A s \in RequestsOf :
           /\ listed(s) /\ "accept" \in PhoneSentPage.offers[s] =>
                 \/ "accept" \in KnownRefused("phoneSent", s)
                 \/ PhoneSentPage.serves.accept[s] # {} /\ ~PhoneSentPage.acts.accept.mute
           /\ \/ "accept" \in KnownMissing("phoneSent", s)
              \/ PhoneSentPage.serves.accept[s] \subseteq {s}
              \/ listed(s) /\ "accept" \in PhoneSentPage.offers[s]
    BY <1>3, <1>6, <1>7, <1>8 DEF RequestsOf, KnownRefused, KnownMissing
  <2>2. \A s \in RequestsOf :
           /\ listed(s) /\ "withdraw" \in PhoneSentPage.offers[s] =>
                 \/ "withdraw" \in KnownRefused("phoneSent", s)
                 \/ PhoneSentPage.serves.withdraw[s] # {} /\ ~PhoneSentPage.acts.withdraw.mute
           /\ \/ "withdraw" \in KnownMissing("phoneSent", s)
              \/ PhoneSentPage.serves.withdraw[s] \subseteq {s}
              \/ listed(s) /\ "withdraw" \in PhoneSentPage.offers[s]
    BY <1>3, <1>6, <1>7, <1>8 DEF RequestsOf, KnownRefused, KnownMissing
  <2> HIDE DEF listed
  <2>3. \A a \in DOMAIN PhoneSentPage.acts, s \in DOMAIN PhoneSentPage.moves :
           /\ listed(s) /\ a \in PhoneSentPage.offers[s] =>
                 \/ a \in KnownRefused("phoneSent", s)
                 \/ PhoneSentPage.serves[a][s] # {} /\ ~PhoneSentPage.acts[a].mute
           /\ \/ a \in KnownMissing("phoneSent", s)
              \/ PhoneSentPage.serves[a][s] \subseteq {s}
              \/ listed(s) /\ a \in PhoneSentPage.offers[s]
    BY <1>2, <2>1, <2>2
  <2>4. QED
    BY <1>1, <2>3 DEF Suited, listed
<1>14. QED
  BY <1>9, <1>10, <1>11, <1>12, <1>13 DEF Sound

LEMMA PhoneTripsSound == Sound("phoneTrips")
<1>1. Pages["phoneTrips"] = PhoneTripsPage
  BY DEF Pages, WebPages, PhonePages
<1>2. /\ DOMAIN PhoneTripsPage.moves = OwnedStatus
      /\ DOMAIN PhoneTripsPage.acts = {"extend", "duplicate", "unpublish"}
  BY DEF PhoneTripsPage, MyTripsPage, OwnedMoves, OwnedActs, Shut, Unlocked, Reread
<1>3. /\ DOMAIN PhoneTripsPage.shows = {"ALL"} /\ PhoneTripsPage.shows["ALL"] = OwnedStatus
      /\ DOMAIN PhoneTripsPage.counts = {}
  BY DEF PhoneTripsPage, MyTripsPage, NoCounts
<1>4. /\ ~PhoneTripsPage.reads.server /\ PhoneTripsPage.reads.drops
           /\ ~PhoneTripsPage.reads.clears
      /\ PhoneTripsPage.reads.query \in BOOLEAN
  BY DEF PhoneTripsPage, MyTripsPage, Query, Plain
<1>5. \A s \in OwnedStatus : PhoneTripsPage.moves[s] \subseteq OwnedStatus
  BY DEF PhoneTripsPage, MyTripsPage, OwnedMoves, OwnedStatus
<1>6. /\ PhoneTripsPage.acts.extend.after = "read" /\ ~PhoneTripsPage.acts.extend.mute
      /\ PhoneTripsPage.acts.duplicate.after = "read" /\ ~PhoneTripsPage.acts.duplicate.mute
      /\ PhoneTripsPage.acts.unpublish.after = "read" /\ ~PhoneTripsPage.acts.unpublish.mute
  BY DEF PhoneTripsPage, MyTripsPage, OwnedActs, Shut, Unlocked, Reread
<1>7. \A s \in OwnedStatus : \A a :
        a \in PhoneTripsPage.offers[s] <=> a \in {"extend", "duplicate", "unpublish"}
  BY DEF PhoneTripsPage, MyTripsPage, ReturnTripRow
<1>8. \A s \in OwnedStatus : \A u :
        /\ u \in PhoneTripsPage.serves.extend[s] <=> s \in {"to come", "over"} /\ u = "to come"
        /\ u \in PhoneTripsPage.serves.duplicate[s] <=> s # "long over" /\ u = s
        /\ u \in PhoneTripsPage.serves.unpublish[s] <=>
             s \in {"to come", "over", "long over"} /\ u = "cancelled"
  BY DEF PhoneTripsPage, MyTripsPage, extendReturnTrip, duplicateReturnTrip,
     unpublishReturnTrip, Published, Turns
<1>9. Closed(Pages["phoneTrips"])
  <2>1. \A s \in OwnedStatus : PhoneTripsPage.offers[s] \subseteq DOMAIN PhoneTripsPage.acts
    BY <1>2, <1>7
  <2>2. \A s \in OwnedStatus : PhoneTripsPage.serves.extend[s] \subseteq OwnedStatus
    BY <1>8 DEF OwnedStatus
  <2>3. \A s \in OwnedStatus : PhoneTripsPage.serves.duplicate[s] \subseteq OwnedStatus
    BY <1>8 DEF OwnedStatus
  <2>4. \A s \in OwnedStatus : PhoneTripsPage.serves.unpublish[s] \subseteq OwnedStatus
    BY <1>8 DEF OwnedStatus
  <2>5. \A a \in DOMAIN PhoneTripsPage.acts, s \in OwnedStatus :
          PhoneTripsPage.serves[a][s] \subseteq OwnedStatus
    BY <1>2, <2>2, <2>3, <2>4
  <2>6. "twice" \notin OwnedStatus /\ "absent" \notin OwnedStatus
    BY DEF OwnedStatus
  <2>7. QED
    BY <1>1, <1>2, <1>4, <1>5, <2>1, <2>5, <2>6 DEF Closed
<1>10. Careful(Pages["phoneTrips"])
  BY <1>1, <1>2, <1>4, <1>6 DEF Careful, OwnedStatus
<1>11. Counted("phoneTrips")
  BY <1>1, <1>2, <1>3, <1>4 DEF Counted, OwnedStatus
<1>12. Stands("phoneTrips")
  <2>1. DOMAIN PhoneTripsPage.acts \ KnownOverwrites("phoneTrips") = {"duplicate"}
    BY <1>1, <1>2 DEF KnownOverwrites
  <2>2. \A s \in OwnedStatus : PhoneTripsPage.serves.duplicate[s] \subseteq {s}
    BY <1>8
  <2>3. QED
    BY <1>1, <1>2, <2>1, <2>2 DEF Stands
<1>13. Suited("phoneTrips")
  <2> DEFINE listed(s) == \E c \in DOMAIN PhoneTripsPage.shows : s \in PhoneTripsPage.shows[c]
  <2>1. \A s \in OwnedStatus :
           /\ listed(s) /\ "extend" \in PhoneTripsPage.offers[s] =>
                 \/ "extend" \in KnownRefused("phoneTrips", s)
                 \/ PhoneTripsPage.serves.extend[s] # {} /\ ~PhoneTripsPage.acts.extend.mute
           /\ \/ "extend" \in KnownMissing("phoneTrips", s)
              \/ PhoneTripsPage.serves.extend[s] \subseteq {s}
              \/ listed(s) /\ "extend" \in PhoneTripsPage.offers[s]
    BY <1>3, <1>6, <1>7, <1>8 DEF OwnedStatus, KnownRefused, KnownMissing
  <2>2. \A s \in OwnedStatus :
           /\ listed(s) /\ "duplicate" \in PhoneTripsPage.offers[s] =>
                 \/ "duplicate" \in KnownRefused("phoneTrips", s)
                 \/ PhoneTripsPage.serves.duplicate[s] # {}
                      /\ ~PhoneTripsPage.acts.duplicate.mute
           /\ \/ "duplicate" \in KnownMissing("phoneTrips", s)
              \/ PhoneTripsPage.serves.duplicate[s] \subseteq {s}
              \/ listed(s) /\ "duplicate" \in PhoneTripsPage.offers[s]
    BY <1>3, <1>6, <1>7, <1>8 DEF OwnedStatus, KnownRefused, KnownMissing
  <2>3. \A s \in OwnedStatus :
           /\ listed(s) /\ "unpublish" \in PhoneTripsPage.offers[s] =>
                 \/ "unpublish" \in KnownRefused("phoneTrips", s)
                 \/ PhoneTripsPage.serves.unpublish[s] # {}
                      /\ ~PhoneTripsPage.acts.unpublish.mute
           /\ \/ "unpublish" \in KnownMissing("phoneTrips", s)
              \/ PhoneTripsPage.serves.unpublish[s] \subseteq {s}
              \/ listed(s) /\ "unpublish" \in PhoneTripsPage.offers[s]
    BY <1>3, <1>6, <1>7, <1>8 DEF OwnedStatus, KnownRefused, KnownMissing
  <2> HIDE DEF listed
  <2>4. \A a \in DOMAIN PhoneTripsPage.acts, s \in DOMAIN PhoneTripsPage.moves :
           /\ listed(s) /\ a \in PhoneTripsPage.offers[s] =>
                 \/ a \in KnownRefused("phoneTrips", s)
                 \/ PhoneTripsPage.serves[a][s] # {} /\ ~PhoneTripsPage.acts[a].mute
           /\ \/ a \in KnownMissing("phoneTrips", s)
              \/ PhoneTripsPage.serves[a][s] \subseteq {s}
              \/ listed(s) /\ a \in PhoneTripsPage.offers[s]
    BY <1>2, <2>1, <2>2, <2>3
  <2>5. QED
    BY <1>1, <2>4 DEF Suited, listed
<1>14. QED
  BY <1>9, <1>10, <1>11, <1>12, <1>13 DEF Sound

LEMMA PhoneHubSound == Sound("phoneHub")
<1>1. Pages["phoneHub"] = PhoneHubPage
  BY DEF Pages, WebPages, PhonePages
<1>2. /\ DOMAIN PhoneHubPage.moves = OwnedStatus
      /\ DOMAIN PhoneHubPage.acts = {}
  BY DEF PhoneHubPage, MyTripsPage, OwnedMoves, NoActs
<1>3. /\ DOMAIN PhoneHubPage.shows = {"ALL"}
      /\ DOMAIN PhoneHubPage.counts = {}
  BY DEF PhoneHubPage, MyTripsPage, ReturnsHubSection, NoCounts
<1>4. PhoneHubPage.reads.query \in BOOLEAN
  BY DEF PhoneHubPage, MyTripsPage, Mounted, Query, Plain
<1>5. \A s \in OwnedStatus : PhoneHubPage.moves[s] \subseteq OwnedStatus
  BY DEF PhoneHubPage, MyTripsPage, OwnedMoves, OwnedStatus
<1>6. \A s \in OwnedStatus : PhoneHubPage.offers[s] = {}
  BY DEF PhoneHubPage, MyTripsPage
<1>7. QED
  BY <1>1, <1>2, <1>3, <1>4, <1>5, <1>6, QuietPage DEF Closed, Counted, OwnedStatus

LEMMA PhoneMissionsSound == Sound("phoneMissions")
<1>1. Pages["phoneMissions"] = PhoneMissionsPage
  BY DEF Pages, WebPages, PhonePages
<1>2. /\ DOMAIN PhoneMissionsPage.moves = CardStatus
      /\ DOMAIN PhoneMissionsPage.acts = {"start", "complete", "cancel"}
  BY DEF PhoneMissionsPage, CardMoves, ACTIVE, MissionCardActs, Ask, Reread, Unlocked
<1>3. /\ DOMAIN PhoneMissionsPage.shows = {"ALL"} /\ PhoneMissionsPage.shows["ALL"] = ACTIVE
      /\ DOMAIN PhoneMissionsPage.counts = {}
  BY DEF PhoneMissionsPage, NoCounts
<1>4. /\ ~PhoneMissionsPage.reads.server /\ PhoneMissionsPage.reads.drops
           /\ ~PhoneMissionsPage.reads.clears
      /\ PhoneMissionsPage.reads.query \in BOOLEAN
  BY DEF PhoneMissionsPage, Mounted, Query, Plain
<1>5. \A s \in CardStatus : PhoneMissionsPage.moves[s] \subseteq CardStatus
  BY DEF PhoneMissionsPage, CardMoves, ACTIVE, CardStatus
<1>6. /\ PhoneMissionsPage.acts.start.after = "read" /\ ~PhoneMissionsPage.acts.start.mute
      /\ PhoneMissionsPage.acts.complete.after = "read" /\ ~PhoneMissionsPage.acts.complete.mute
      /\ PhoneMissionsPage.acts.cancel.after = "read" /\ ~PhoneMissionsPage.acts.cancel.mute
  BY DEF PhoneMissionsPage, MissionCardActs, Ask, Reread, Unlocked
<1>7. \A s \in CardStatus : \A a :
        a \in PhoneMissionsPage.offers[s] <=>
          \/ a = "start" /\ s \in {"MATCHED online", "MATCHED cash"}
          \/ a = "complete" /\ s = "IN_PROGRESS"
          \/ a = "cancel" /\ s \in ACTIVE
  BY DEF PhoneMissionsPage, MissionCard
<1>8. \A s \in CardStatus : \A u :
        /\ u \in PhoneMissionsPage.serves.start[s] <=> s = "MATCHED cash" /\ u = "IN_PROGRESS"
        /\ u \in PhoneMissionsPage.serves.complete[s] <=> s = "IN_PROGRESS" /\ u = "COMPLETED"
        /\ u \in PhoneMissionsPage.serves.cancel[s] <=> s \in ACTIVE /\ u = "PUBLISHED"
  BY DEF PhoneMissionsPage, Turns
<1>9. \A s, a :
        a \in KnownRefused("phoneMissions", s) <=> a = "start" /\ s = "MATCHED online"
  BY DEF KnownRefused
<1>10. Closed(Pages["phoneMissions"])
  <2>1. \A s \in CardStatus :
          PhoneMissionsPage.offers[s] \subseteq DOMAIN PhoneMissionsPage.acts
    BY <1>2, <1>7
  <2>2. \A s \in CardStatus : PhoneMissionsPage.serves.start[s] \subseteq CardStatus
    BY <1>8 DEF CardStatus
  <2>3. \A s \in CardStatus : PhoneMissionsPage.serves.complete[s] \subseteq CardStatus
    BY <1>8 DEF CardStatus
  <2>4. \A s \in CardStatus : PhoneMissionsPage.serves.cancel[s] \subseteq CardStatus
    BY <1>8 DEF CardStatus
  <2>5. \A a \in DOMAIN PhoneMissionsPage.acts, s \in CardStatus :
          PhoneMissionsPage.serves[a][s] \subseteq CardStatus
    BY <1>2, <2>2, <2>3, <2>4
  <2>6. "twice" \notin CardStatus /\ "absent" \notin CardStatus
    BY DEF CardStatus
  <2>7. QED
    BY <1>1, <1>2, <1>4, <1>5, <2>1, <2>5, <2>6 DEF Closed
<1>11. Careful(Pages["phoneMissions"])
  BY <1>1, <1>2, <1>4, <1>6 DEF Careful, CardStatus, ACTIVE
<1>12. Counted("phoneMissions")
  BY <1>1, <1>2, <1>3, <1>4 DEF Counted, CardStatus, ACTIVE
<1>13. Stands("phoneMissions")
  <2>1. DOMAIN PhoneMissionsPage.acts \ KnownOverwrites("phoneMissions") = {"start"}
    BY <1>1, <1>2 DEF KnownOverwrites
  <2>2. PhoneMissionsPage.acts.start.locks
    BY DEF PhoneMissionsPage, MissionCardActs, Ask, Reread, Unlocked
  <2>3. ASSUME NEW a \in {"start"},
               NEW s \in CardStatus, NEW t \in CardStatus, s # t,
               ~(PhoneMissionsPage.serves[a][s] \subseteq {s})
        PROVE  /\ PhoneMissionsPage.serves[a][t] \subseteq {t}
               /\ PhoneMissionsPage.acts[a].locks
    BY <1>8, <2>1, <2>2, <2>3 DEF CardStatus
  <2>4. QED
    BY <1>1, <1>2, <2>1, <2>3 DEF Stands
<1>14. Suited("phoneMissions")
  <2> DEFINE listed(s) == \E c \in DOMAIN PhoneMissionsPage.shows :
               s \in PhoneMissionsPage.shows[c]
  <2>0. /\ \A s : listed(s) <=> s \in ACTIVE
        /\ \A s \in {"MATCHED cash", "IN_PROGRESS"} : s \in ACTIVE
    BY <1>3 DEF ACTIVE
  <2> HIDE DEF listed
  <2>1. ASSUME NEW s \in CardStatus
        PROVE
           /\ listed(s) /\ "start" \in PhoneMissionsPage.offers[s] =>
                 \/ "start" \in KnownRefused("phoneMissions", s)
                 \/ PhoneMissionsPage.serves.start[s] # {} /\ ~PhoneMissionsPage.acts.start.mute
           /\ \/ "start" \in KnownMissing("phoneMissions", s)
              \/ PhoneMissionsPage.serves.start[s] \subseteq {s}
              \/ listed(s) /\ "start" \in PhoneMissionsPage.offers[s]
    <3>1. s = "MATCHED cash" =>
             /\ "start" \in PhoneMissionsPage.offers[s]
             /\ PhoneMissionsPage.serves.start[s] # {}
      BY <1>7, <1>8
    <3>2. s # "MATCHED cash" => PhoneMissionsPage.serves.start[s] = {}
      BY <1>8
    <3>3. "start" \in PhoneMissionsPage.offers[s] =>
             s = "MATCHED cash" \/ "start" \in KnownRefused("phoneMissions", s)
      BY <1>7, <1>9
    <3>4. s = "MATCHED cash" => listed(s)
      BY <2>0
    <3>5. QED
      BY <1>6, <3>1, <3>2, <3>3, <3>4
  <2>2. ASSUME NEW s \in CardStatus
        PROVE
           /\ listed(s) /\ "complete" \in PhoneMissionsPage.offers[s] =>
                 \/ "complete" \in KnownRefused("phoneMissions", s)
                 \/ PhoneMissionsPage.serves.complete[s] # {}
                      /\ ~PhoneMissionsPage.acts.complete.mute
           /\ \/ "complete" \in KnownMissing("phoneMissions", s)
              \/ PhoneMissionsPage.serves.complete[s] \subseteq {s}
              \/ listed(s) /\ "complete" \in PhoneMissionsPage.offers[s]
    <3>1. s = "IN_PROGRESS" =>
             /\ "complete" \in PhoneMissionsPage.offers[s]
             /\ PhoneMissionsPage.serves.complete[s] # {}
      BY <1>7, <1>8
    <3>2. s # "IN_PROGRESS" => PhoneMissionsPage.serves.complete[s] = {}
      BY <1>8
    <3>3. "complete" \in PhoneMissionsPage.offers[s] => s = "IN_PROGRESS"
      <4>1. \A a : a \in PhoneMissionsPage.offers[s] /\ a \notin {"start", "cancel"} =>
                a = "complete" /\ s = "IN_PROGRESS"
        BY <1>7
      <4>2. QED
        BY <4>1
    <3>4. s = "IN_PROGRESS" => listed(s)
      BY <2>0
    <3>5. QED
      BY <1>6, <3>1, <3>2, <3>3, <3>4
  <2>3. \A s \in CardStatus :
           /\ listed(s) /\ "cancel" \in PhoneMissionsPage.offers[s] =>
                 \/ "cancel" \in KnownRefused("phoneMissions", s)
                 \/ PhoneMissionsPage.serves.cancel[s] # {}
                      /\ ~PhoneMissionsPage.acts.cancel.mute
           /\ \/ "cancel" \in KnownMissing("phoneMissions", s)
              \/ PhoneMissionsPage.serves.cancel[s] \subseteq {s}
              \/ listed(s) /\ "cancel" \in PhoneMissionsPage.offers[s]
    BY <2>0, <1>6, <1>7, <1>8, <1>9
  <2>4. \A a \in DOMAIN PhoneMissionsPage.acts, s \in DOMAIN PhoneMissionsPage.moves :
           /\ listed(s) /\ a \in PhoneMissionsPage.offers[s] =>
                 \/ a \in KnownRefused("phoneMissions", s)
                 \/ PhoneMissionsPage.serves[a][s] # {} /\ ~PhoneMissionsPage.acts[a].mute
           /\ \/ a \in KnownMissing("phoneMissions", s)
              \/ PhoneMissionsPage.serves[a][s] \subseteq {s}
              \/ listed(s) /\ a \in PhoneMissionsPage.offers[s]
    BY <1>2, <2>1, <2>2, <2>3
  <2>5. QED
    BY <1>1, <2>4 DEF Suited, listed
<1>15. QED
  BY <1>10, <1>11, <1>12, <1>13, <1>14 DEF Sound

LEMMA PhoneCompletedSound == Sound("phoneCompleted")
<1>1. Pages["phoneCompleted"] = PhoneCompletedPage
  BY DEF Pages, WebPages, PhonePages
<1>2. /\ DOMAIN PhoneCompletedPage.moves = CompletedStatus
      /\ DOMAIN PhoneCompletedPage.acts = {"review"}
  BY DEF PhoneCompletedPage, Turns, useCreateReview, Ask, Untold, Reread
<1>3. /\ DOMAIN PhoneCompletedPage.shows = {"ALL"}
           /\ PhoneCompletedPage.shows["ALL"] = {"COMPLETED", "reviewed"}
      /\ DOMAIN PhoneCompletedPage.counts = {}
  BY DEF PhoneCompletedPage, NoCounts
<1>4. /\ ~PhoneCompletedPage.reads.server /\ PhoneCompletedPage.reads.drops
           /\ ~PhoneCompletedPage.reads.clears
      /\ PhoneCompletedPage.reads.query \in BOOLEAN
  BY DEF PhoneCompletedPage, Mounted, Query, Plain
<1>5. \A s \in CompletedStatus : PhoneCompletedPage.moves[s] \subseteq CompletedStatus
  BY DEF PhoneCompletedPage, Turns, CompletedStatus
<1>6. PhoneCompletedPage.acts.review.after = "untold" /\ ~PhoneCompletedPage.acts.review.mute
  BY DEF PhoneCompletedPage, useCreateReview, Ask, Untold, Reread
<1>7. \A s \in CompletedStatus : \A a :
        a \in PhoneCompletedPage.offers[s] <=> a = "review" /\ s \in {"COMPLETED", "reviewed"}
  BY DEF PhoneCompletedPage, CompletedMissionsList
<1>8. \A s \in CompletedStatus : \A u :
        u \in PhoneCompletedPage.serves.review[s] <=> s = "COMPLETED" /\ u = "reviewed"
  BY DEF PhoneCompletedPage, ReviewCreate, Turns
<1>9. Closed(Pages["phoneCompleted"])
  <2>1. \A s \in CompletedStatus :
          PhoneCompletedPage.offers[s] \subseteq DOMAIN PhoneCompletedPage.acts
    BY <1>2, <1>7
  <2>2. \A s \in CompletedStatus : PhoneCompletedPage.serves.review[s] \subseteq CompletedStatus
    BY <1>8 DEF CompletedStatus
  <2>3. \A a \in DOMAIN PhoneCompletedPage.acts, s \in CompletedStatus :
          PhoneCompletedPage.serves[a][s] \subseteq CompletedStatus
    BY <1>2, <2>2
  <2>4. "twice" \notin CompletedStatus /\ "absent" \notin CompletedStatus
    BY DEF CompletedStatus
  <2>5. QED
    BY <1>1, <1>2, <1>4, <1>5, <2>1, <2>3, <2>4 DEF Closed
<1>10. Careful(Pages["phoneCompleted"])
  BY <1>1, <1>2, <1>4, <1>6 DEF Careful, CompletedStatus
<1>11. Counted("phoneCompleted")
  BY <1>1, <1>2, <1>3, <1>4 DEF Counted, CompletedStatus
<1>12. Stands("phoneCompleted")
  <2>1. DOMAIN PhoneCompletedPage.acts \ KnownOverwrites("phoneCompleted") = {"review"}
    BY <1>1, <1>2 DEF KnownOverwrites
  <2>2. PhoneCompletedPage.acts.review.locks
    BY DEF PhoneCompletedPage, useCreateReview, Ask, Untold, Reread
  <2>3. ASSUME NEW a \in {"review"},
               NEW s \in CompletedStatus, NEW t \in CompletedStatus, s # t,
               ~(PhoneCompletedPage.serves[a][s] \subseteq {s})
        PROVE  /\ PhoneCompletedPage.serves[a][t] \subseteq {t}
               /\ PhoneCompletedPage.acts[a].locks
    BY <1>8, <2>1, <2>2, <2>3 DEF CompletedStatus
  <2>4. QED
    BY <1>1, <1>2, <2>1, <2>3 DEF Stands
<1>13. Suited("phoneCompleted")
  <2> DEFINE listed(s) == \E c \in DOMAIN PhoneCompletedPage.shows :
               s \in PhoneCompletedPage.shows[c]
  <2>1. \A s \in CompletedStatus :
           /\ listed(s) /\ "review" \in PhoneCompletedPage.offers[s] =>
                 \/ "review" \in KnownRefused("phoneCompleted", s)
                 \/ PhoneCompletedPage.serves.review[s] # {}
                      /\ ~PhoneCompletedPage.acts.review.mute
           /\ \/ "review" \in KnownMissing("phoneCompleted", s)
              \/ PhoneCompletedPage.serves.review[s] \subseteq {s}
              \/ listed(s) /\ "review" \in PhoneCompletedPage.offers[s]
    BY <1>3, <1>6, <1>7, <1>8 DEF CompletedStatus, KnownRefused, KnownMissing
  <2> HIDE DEF listed
  <2>2. \A a \in DOMAIN PhoneCompletedPage.acts, s \in DOMAIN PhoneCompletedPage.moves :
           /\ listed(s) /\ a \in PhoneCompletedPage.offers[s] =>
                 \/ a \in KnownRefused("phoneCompleted", s)
                 \/ PhoneCompletedPage.serves[a][s] # {} /\ ~PhoneCompletedPage.acts[a].mute
           /\ \/ a \in KnownMissing("phoneCompleted", s)
              \/ PhoneCompletedPage.serves[a][s] \subseteq {s}
              \/ listed(s) /\ a \in PhoneCompletedPage.offers[s]
    BY <1>2, <2>1
  <2>3. QED
    BY <1>1, <2>2 DEF Suited, listed
<1>14. QED
  BY <1>9, <1>10, <1>11, <1>12, <1>13 DEF Sound

LEMMA PhoneNotificationsSound == Sound("phoneNotifications")
<1>1. Pages["phoneNotifications"] = PhoneNotificationsPage
  BY DEF Pages, WebPages, PhonePages
<1>2. /\ DOMAIN PhoneNotificationsPage.moves = NotificationStatus
      /\ DOMAIN PhoneNotificationsPage.acts = {"read", "readAll"}
  BY DEF PhoneNotificationsPage, NotificationsPage, useMarkNotifications, Unlocked, Reread
<1>3. /\ DOMAIN PhoneNotificationsPage.shows = {"ALL"}
           /\ PhoneNotificationsPage.shows["ALL"] = NotificationStatus
      /\ DOMAIN PhoneNotificationsPage.counts = {}
  BY DEF PhoneNotificationsPage, NotificationsPage, NoCounts
<1>4. /\ ~PhoneNotificationsPage.reads.server /\ PhoneNotificationsPage.reads.drops
           /\ ~PhoneNotificationsPage.reads.clears
      /\ PhoneNotificationsPage.reads.query \in BOOLEAN
  BY DEF PhoneNotificationsPage, NotificationsPage, Query, Plain
<1>5. \A s \in NotificationStatus : PhoneNotificationsPage.moves[s] \subseteq NotificationStatus
  BY DEF PhoneNotificationsPage, NotificationsPage, NotificationStatus
<1>6. /\ PhoneNotificationsPage.acts.read.after = "read"
           /\ ~PhoneNotificationsPage.acts.read.mute
      /\ PhoneNotificationsPage.acts.readAll.after = "read"
           /\ ~PhoneNotificationsPage.acts.readAll.mute
  BY DEF PhoneNotificationsPage, NotificationsPage, useMarkNotifications, Unlocked, Reread
<1>7. \A s \in NotificationStatus : \A a :
        a \in PhoneNotificationsPage.offers[s] <=> a \in {"read", "readAll"} /\ s = "unread"
  BY DEF PhoneNotificationsPage, NotificationsPage, NotificationItem
<1>8. \A s \in NotificationStatus : \A u :
        /\ u \in PhoneNotificationsPage.serves.read[s] <=> u = "read"
        /\ u \in PhoneNotificationsPage.serves.readAll[s] <=> u = "read"
  BY DEF PhoneNotificationsPage, NotificationsPage, NotificationRead
<1>9. Closed(Pages["phoneNotifications"])
  <2>1. \A s \in NotificationStatus :
          PhoneNotificationsPage.offers[s] \subseteq DOMAIN PhoneNotificationsPage.acts
    BY <1>2, <1>7
  <2>2. \A s \in NotificationStatus :
          PhoneNotificationsPage.serves.read[s] \subseteq NotificationStatus
    BY <1>8 DEF NotificationStatus
  <2>3. \A s \in NotificationStatus :
          PhoneNotificationsPage.serves.readAll[s] \subseteq NotificationStatus
    BY <1>8 DEF NotificationStatus
  <2>4. \A a \in DOMAIN PhoneNotificationsPage.acts, s \in NotificationStatus :
          PhoneNotificationsPage.serves[a][s] \subseteq NotificationStatus
    BY <1>2, <2>2, <2>3
  <2>5. "twice" \notin NotificationStatus /\ "absent" \notin NotificationStatus
    BY DEF NotificationStatus
  <2>6. QED
    BY <1>1, <1>2, <1>4, <1>5, <2>1, <2>4, <2>5 DEF Closed
<1>10. Careful(Pages["phoneNotifications"])
  BY <1>1, <1>2, <1>4, <1>6 DEF Careful, NotificationStatus
<1>11. Counted("phoneNotifications")
  BY <1>1, <1>2, <1>3, <1>4 DEF Counted, NotificationStatus
<1>12. Stands("phoneNotifications")
  <2>1. DOMAIN PhoneNotificationsPage.acts \ KnownOverwrites("phoneNotifications") =
           {"read", "readAll"}
    BY <1>1, <1>2 DEF KnownOverwrites
  <2>2. ASSUME NEW a \in {"read", "readAll"},
               NEW s \in NotificationStatus, NEW t \in NotificationStatus, s # t,
               ~(PhoneNotificationsPage.serves[a][s] \subseteq {s})
        PROVE  /\ PhoneNotificationsPage.serves[a][t] \subseteq {t}
               /\ \A u \in NotificationStatus :
                     PhoneNotificationsPage.serves[a][u] \subseteq {t}
    BY <1>8, <2>1, <2>2 DEF NotificationStatus
  <2>3. QED
    BY <1>1, <1>2, <2>1, <2>2 DEF Stands
<1>13. Suited("phoneNotifications")
  <2> DEFINE listed(s) == \E c \in DOMAIN PhoneNotificationsPage.shows :
               s \in PhoneNotificationsPage.shows[c]
  <2>1. \A s \in NotificationStatus :
           /\ listed(s) /\ "read" \in PhoneNotificationsPage.offers[s] =>
                 \/ "read" \in KnownRefused("phoneNotifications", s)
                 \/ PhoneNotificationsPage.serves.read[s] # {}
                      /\ ~PhoneNotificationsPage.acts.read.mute
           /\ \/ "read" \in KnownMissing("phoneNotifications", s)
              \/ PhoneNotificationsPage.serves.read[s] \subseteq {s}
              \/ listed(s) /\ "read" \in PhoneNotificationsPage.offers[s]
    BY <1>3, <1>6, <1>7, <1>8 DEF NotificationStatus, KnownRefused, KnownMissing
  <2>2. \A s \in NotificationStatus :
           /\ listed(s) /\ "readAll" \in PhoneNotificationsPage.offers[s] =>
                 \/ "readAll" \in KnownRefused("phoneNotifications", s)
                 \/ PhoneNotificationsPage.serves.readAll[s] # {}
                      /\ ~PhoneNotificationsPage.acts.readAll.mute
           /\ \/ "readAll" \in KnownMissing("phoneNotifications", s)
              \/ PhoneNotificationsPage.serves.readAll[s] \subseteq {s}
              \/ listed(s) /\ "readAll" \in PhoneNotificationsPage.offers[s]
    BY <1>3, <1>6, <1>7, <1>8 DEF NotificationStatus, KnownRefused, KnownMissing
  <2> HIDE DEF listed
  <2>3. \A a \in DOMAIN PhoneNotificationsPage.acts, s \in DOMAIN PhoneNotificationsPage.moves :
           /\ listed(s) /\ a \in PhoneNotificationsPage.offers[s] =>
                 \/ a \in KnownRefused("phoneNotifications", s)
                 \/ PhoneNotificationsPage.serves[a][s] # {}
                      /\ ~PhoneNotificationsPage.acts[a].mute
           /\ \/ a \in KnownMissing("phoneNotifications", s)
              \/ PhoneNotificationsPage.serves[a][s] \subseteq {s}
              \/ listed(s) /\ a \in PhoneNotificationsPage.offers[s]
    BY <1>2, <2>1, <2>2
  <2>4. QED
    BY <1>1, <2>3 DEF Suited, listed
<1>14. QED
  BY <1>9, <1>10, <1>11, <1>12, <1>13 DEF Sound

LEMMA PhoneInboxSound == Sound("phoneInbox")
<1>1. Pages["phoneInbox"] = PhoneInboxPage
  BY DEF Pages, WebPages, PhonePages
<1>2. /\ DOMAIN PhoneInboxPage.moves = ConversationStatus
      /\ DOMAIN PhoneInboxPage.acts = {}
  BY DEF PhoneInboxPage, InboxPage, NoActs
<1>3. /\ DOMAIN PhoneInboxPage.shows = {"ALL"}
      /\ DOMAIN PhoneInboxPage.counts = {}
  BY DEF PhoneInboxPage, InboxPage, NoCounts
<1>4. PhoneInboxPage.reads.query \in BOOLEAN
  BY DEF PhoneInboxPage, InboxPage, Query, Plain
<1>5. \A s \in ConversationStatus : PhoneInboxPage.moves[s] \subseteq ConversationStatus
  BY DEF PhoneInboxPage, InboxPage, ConversationStatus
<1>6. \A s \in ConversationStatus : PhoneInboxPage.offers[s] = {}
  BY DEF PhoneInboxPage, InboxPage
<1>7. QED
  BY <1>1, <1>2, <1>3, <1>4, <1>5, <1>6, QuietPage DEF Closed, Counted, ConversationStatus

LEMMA PhoneThreadSound == Sound("phoneThread")
<1>1. Pages["phoneThread"] = PhoneThreadPage
  BY DEF Pages, WebPages, PhonePages
<1>2. /\ DOMAIN PhoneThreadPage.moves = ThreadStatus
      /\ DOMAIN PhoneThreadPage.acts = {"send"}
  BY DEF PhoneThreadPage, ThreadPage, useSendMessage, Unlocked, Reread
<1>3. /\ DOMAIN PhoneThreadPage.shows = {"ALL"} /\ PhoneThreadPage.shows["ALL"] = ThreadStatus
      /\ DOMAIN PhoneThreadPage.counts = {}
  BY DEF PhoneThreadPage, ThreadPage, NoCounts
<1>4. /\ ~PhoneThreadPage.reads.server /\ PhoneThreadPage.reads.drops
           /\ ~PhoneThreadPage.reads.clears
      /\ PhoneThreadPage.reads.query \in BOOLEAN
  BY DEF PhoneThreadPage, ThreadPage, Query, Plain
<1>5. \A s \in ThreadStatus : PhoneThreadPage.moves[s] \subseteq ThreadStatus
  BY DEF PhoneThreadPage, ThreadPage, ThreadStatus
<1>6. PhoneThreadPage.acts.send.after = "read" /\ ~PhoneThreadPage.acts.send.mute
  BY DEF PhoneThreadPage, ThreadPage, useSendMessage, Unlocked, Reread
<1>7. \A s \in ThreadStatus : \A a :
        a \in PhoneThreadPage.offers[s] <=> a = "send" /\ s = "quiet"
  BY DEF PhoneThreadPage, ThreadPage, ThreadOffers
<1>8. \A s \in ThreadStatus : \A u :
        u \in PhoneThreadPage.serves.send[s] <=> s = "quiet" /\ u = "said"
  BY DEF PhoneThreadPage, ThreadPage, SendMessage, Turns
<1>9. Closed(Pages["phoneThread"])
  <2>1. \A s \in ThreadStatus : PhoneThreadPage.offers[s] \subseteq DOMAIN PhoneThreadPage.acts
    BY <1>2, <1>7
  <2>2. \A s \in ThreadStatus : PhoneThreadPage.serves.send[s] \subseteq ThreadStatus
    BY <1>8 DEF ThreadStatus
  <2>3. \A a \in DOMAIN PhoneThreadPage.acts, s \in ThreadStatus :
          PhoneThreadPage.serves[a][s] \subseteq ThreadStatus
    BY <1>2, <2>2
  <2>4. "twice" \notin ThreadStatus /\ "absent" \notin ThreadStatus
    BY DEF ThreadStatus
  <2>5. QED
    BY <1>1, <1>2, <1>4, <1>5, <2>1, <2>3, <2>4 DEF Closed
<1>10. Careful(Pages["phoneThread"])
  BY <1>1, <1>2, <1>4, <1>6 DEF Careful, ThreadStatus
<1>11. Counted("phoneThread")
  BY <1>1, <1>2, <1>3, <1>4 DEF Counted, ThreadStatus
<1>12. Stands("phoneThread")
  BY Overwriting
<1>13. Suited("phoneThread")
  <2> DEFINE listed(s) == \E c \in DOMAIN PhoneThreadPage.shows : s \in PhoneThreadPage.shows[c]
  <2>1. \A s \in ThreadStatus :
           /\ listed(s) /\ "send" \in PhoneThreadPage.offers[s] =>
                 \/ "send" \in KnownRefused("phoneThread", s)
                 \/ PhoneThreadPage.serves.send[s] # {} /\ ~PhoneThreadPage.acts.send.mute
           /\ \/ "send" \in KnownMissing("phoneThread", s)
              \/ PhoneThreadPage.serves.send[s] \subseteq {s}
              \/ listed(s) /\ "send" \in PhoneThreadPage.offers[s]
    BY <1>3, <1>6, <1>7, <1>8 DEF ThreadStatus, KnownRefused, KnownMissing
  <2> HIDE DEF listed
  <2>2. \A a \in DOMAIN PhoneThreadPage.acts, s \in DOMAIN PhoneThreadPage.moves :
           /\ listed(s) /\ a \in PhoneThreadPage.offers[s] =>
                 \/ a \in KnownRefused("phoneThread", s)
                 \/ PhoneThreadPage.serves[a][s] # {} /\ ~PhoneThreadPage.acts[a].mute
           /\ \/ a \in KnownMissing("phoneThread", s)
              \/ PhoneThreadPage.serves[a][s] \subseteq {s}
              \/ listed(s) /\ a \in PhoneThreadPage.offers[s]
    BY <1>2, <2>1
  <2>3. QED
    BY <1>1, <2>2 DEF Suited, listed
<1>14. QED
  BY <1>9, <1>10, <1>11, <1>12, <1>13 DEF Sound

LEMMA PhoneFavouritesSound == Sound("phoneFavourites")
<1>1. Pages["phoneFavourites"] = PhoneFavouritesPage
  BY DEF Pages, WebPages, PhonePages
<1>2. /\ DOMAIN PhoneFavouritesPage.moves = FavouriteStatus
      /\ DOMAIN PhoneFavouritesPage.acts = {"toggle"}
  BY DEF PhoneFavouritesPage, FavouritesPage, FavoriteToggle, Unlocked, Reread
<1>3. /\ DOMAIN PhoneFavouritesPage.shows = {"panel", "heart"}
           /\ PhoneFavouritesPage.shows["heart"] = FavouriteStatus
      /\ DOMAIN PhoneFavouritesPage.counts = {}
  BY DEF PhoneFavouritesPage, FavouritesPage, FavoriteButton, NoCounts
<1>4. /\ ~PhoneFavouritesPage.reads.server /\ PhoneFavouritesPage.reads.drops
           /\ ~PhoneFavouritesPage.reads.clears
      /\ PhoneFavouritesPage.reads.query \in BOOLEAN
  BY DEF PhoneFavouritesPage, FavouritesPage, Query, Plain
<1>5. \A s \in FavouriteStatus : PhoneFavouritesPage.moves[s] \subseteq FavouriteStatus
  BY DEF PhoneFavouritesPage, FavouritesPage, FavoriteToggle, FavouriteStatus
<1>6. PhoneFavouritesPage.acts.toggle.after = "read" /\ ~PhoneFavouritesPage.acts.toggle.mute
  BY DEF PhoneFavouritesPage, FavouritesPage, Unlocked, Reread
<1>7. \A s \in FavouriteStatus : \A a :
        a \in PhoneFavouritesPage.offers[s] <=> a = "toggle"
  BY DEF PhoneFavouritesPage, FavouritesPage
<1>8. \A s \in FavouriteStatus : \A u :
        u \in PhoneFavouritesPage.serves.toggle[s] <=> u \in FavouriteStatus /\ u # s
  BY DEF PhoneFavouritesPage, FavouritesPage, FavoriteToggle
<1>9. Closed(Pages["phoneFavourites"])
  <2>1. \A s \in FavouriteStatus :
          PhoneFavouritesPage.offers[s] \subseteq DOMAIN PhoneFavouritesPage.acts
    BY <1>2, <1>7
  <2>2. \A s \in FavouriteStatus :
          PhoneFavouritesPage.serves.toggle[s] \subseteq FavouriteStatus
    BY <1>8 DEF FavouriteStatus
  <2>3. \A a \in DOMAIN PhoneFavouritesPage.acts, s \in FavouriteStatus :
          PhoneFavouritesPage.serves[a][s] \subseteq FavouriteStatus
    BY <1>2, <2>2
  <2>4. "twice" \notin FavouriteStatus /\ "absent" \notin FavouriteStatus
    BY DEF FavouriteStatus
  <2>5. QED
    BY <1>1, <1>2, <1>4, <1>5, <2>1, <2>3, <2>4 DEF Closed
<1>10. Careful(Pages["phoneFavourites"])
  BY <1>1, <1>2, <1>4, <1>6 DEF Careful, FavouriteStatus
<1>11. Counted("phoneFavourites")
  BY <1>1, <1>2, <1>3, <1>4 DEF Counted, FavouriteStatus
<1>12. Stands("phoneFavourites")
  BY Overwriting
<1>13. Suited("phoneFavourites")
  <2> DEFINE listed(s) == \E c \in DOMAIN PhoneFavouritesPage.shows :
               s \in PhoneFavouritesPage.shows[c]
  <2>1. \A s \in FavouriteStatus :
           /\ listed(s) /\ "toggle" \in PhoneFavouritesPage.offers[s] =>
                 \/ "toggle" \in KnownRefused("phoneFavourites", s)
                 \/ PhoneFavouritesPage.serves.toggle[s] # {}
                      /\ ~PhoneFavouritesPage.acts.toggle.mute
           /\ \/ "toggle" \in KnownMissing("phoneFavourites", s)
              \/ PhoneFavouritesPage.serves.toggle[s] \subseteq {s}
              \/ listed(s) /\ "toggle" \in PhoneFavouritesPage.offers[s]
    BY <1>3, <1>6, <1>7, <1>8 DEF FavouriteStatus, KnownRefused, KnownMissing
  <2> HIDE DEF listed
  <2>2. \A a \in DOMAIN PhoneFavouritesPage.acts, s \in DOMAIN PhoneFavouritesPage.moves :
           /\ listed(s) /\ a \in PhoneFavouritesPage.offers[s] =>
                 \/ a \in KnownRefused("phoneFavourites", s)
                 \/ PhoneFavouritesPage.serves[a][s] # {} /\ ~PhoneFavouritesPage.acts[a].mute
           /\ \/ a \in KnownMissing("phoneFavourites", s)
              \/ PhoneFavouritesPage.serves[a][s] \subseteq {s}
              \/ listed(s) /\ a \in PhoneFavouritesPage.offers[s]
    BY <1>2, <2>1
  <2>3. QED
    BY <1>1, <2>2 DEF Suited, listed
<1>14. QED
  BY <1>9, <1>10, <1>11, <1>12, <1>13 DEF Sound

LEMMA PhoneWalletSound == Sound("phoneWallet")
<1>1. Pages["phoneWallet"] = PhoneWalletPage
  BY DEF Pages, WebPages, PhonePages
<1>2. /\ DOMAIN PhoneWalletPage.moves = BalanceStatus
      /\ DOMAIN PhoneWalletPage.acts = {"withdraw"}
  BY DEF PhoneWalletPage, WalletPage, WithdrawalSheet, Ask, Unlocked, Reread
<1>3. /\ DOMAIN PhoneWalletPage.shows = {"ALL"} /\ PhoneWalletPage.shows["ALL"] = BalanceStatus
      /\ DOMAIN PhoneWalletPage.counts = {}
  BY DEF PhoneWalletPage, WalletPage, NoCounts
<1>4. /\ ~PhoneWalletPage.reads.server /\ PhoneWalletPage.reads.drops
           /\ ~PhoneWalletPage.reads.clears
      /\ PhoneWalletPage.reads.query \in BOOLEAN
  BY DEF PhoneWalletPage, WalletPage, Query, Plain
<1>5. \A s \in BalanceStatus : PhoneWalletPage.moves[s] \subseteq BalanceStatus
  BY DEF PhoneWalletPage, WalletPage, BalanceStatus
<1>6. PhoneWalletPage.acts.withdraw.after = "read" /\ ~PhoneWalletPage.acts.withdraw.mute
  BY DEF PhoneWalletPage, WalletPage, WithdrawalSheet, Ask, Unlocked, Reread
<1>7. \A s \in BalanceStatus : \A a :
        a \in PhoneWalletPage.offers[s] <=> a = "withdraw"
  BY DEF PhoneWalletPage, WalletPage
<1>8. \A s \in BalanceStatus : \A u :
        u \in PhoneWalletPage.serves.withdraw[s] <=> s = "enough" /\ u \in BalanceStatus
  BY DEF PhoneWalletPage, WalletPage, RequestWithdrawal
<1>9. Closed(Pages["phoneWallet"])
  <2>1. \A s \in BalanceStatus : PhoneWalletPage.offers[s] \subseteq DOMAIN PhoneWalletPage.acts
    BY <1>2, <1>7
  <2>2. \A s \in BalanceStatus : PhoneWalletPage.serves.withdraw[s] \subseteq BalanceStatus
    BY <1>8 DEF BalanceStatus
  <2>3. \A a \in DOMAIN PhoneWalletPage.acts, s \in BalanceStatus :
          PhoneWalletPage.serves[a][s] \subseteq BalanceStatus
    BY <1>2, <2>2
  <2>4. "twice" \notin BalanceStatus /\ "absent" \notin BalanceStatus
    BY DEF BalanceStatus
  <2>5. QED
    BY <1>1, <1>2, <1>4, <1>5, <2>1, <2>3, <2>4 DEF Closed
<1>10. Careful(Pages["phoneWallet"])
  BY <1>1, <1>2, <1>4, <1>6 DEF Careful, BalanceStatus
<1>11. Counted("phoneWallet")
  BY <1>1, <1>2, <1>3, <1>4 DEF Counted, BalanceStatus
<1>12. Stands("phoneWallet")
  BY Overwriting
<1>13. Suited("phoneWallet")
  <2> DEFINE listed(s) == \E c \in DOMAIN PhoneWalletPage.shows : s \in PhoneWalletPage.shows[c]
  <2>1. \A s \in BalanceStatus :
           /\ listed(s) /\ "withdraw" \in PhoneWalletPage.offers[s] =>
                 \/ "withdraw" \in KnownRefused("phoneWallet", s)
                 \/ PhoneWalletPage.serves.withdraw[s] # {}
                      /\ ~PhoneWalletPage.acts.withdraw.mute
           /\ \/ "withdraw" \in KnownMissing("phoneWallet", s)
              \/ PhoneWalletPage.serves.withdraw[s] \subseteq {s}
              \/ listed(s) /\ "withdraw" \in PhoneWalletPage.offers[s]
    BY <1>3, <1>6, <1>7, <1>8 DEF BalanceStatus, KnownRefused, KnownMissing
  <2> HIDE DEF listed
  <2>2. \A a \in DOMAIN PhoneWalletPage.acts, s \in DOMAIN PhoneWalletPage.moves :
           /\ listed(s) /\ a \in PhoneWalletPage.offers[s] =>
                 \/ a \in KnownRefused("phoneWallet", s)
                 \/ PhoneWalletPage.serves[a][s] # {} /\ ~PhoneWalletPage.acts[a].mute
           /\ \/ a \in KnownMissing("phoneWallet", s)
              \/ PhoneWalletPage.serves[a][s] \subseteq {s}
              \/ listed(s) /\ a \in PhoneWalletPage.offers[s]
    BY <1>2, <2>1
  <2>3. QED
    BY <1>1, <2>2 DEF Suited, listed
<1>14. QED
  BY <1>9, <1>10, <1>11, <1>12, <1>13 DEF Sound

LEMMA PhoneClientWalletSound == Sound("phoneClientWallet")
<1>1. Pages["phoneClientWallet"] = PhoneClientWalletPage
  BY DEF Pages, WebPages, PhonePages
<1>2. /\ DOMAIN PhoneClientWalletPage.moves = MoneyStatus
      /\ DOMAIN PhoneClientWalletPage.acts = {}
  BY DEF PhoneClientWalletPage, ClientWalletPage, NoActs
<1>3. /\ DOMAIN PhoneClientWalletPage.shows = {"ALL"}
      /\ DOMAIN PhoneClientWalletPage.counts = {}
  BY DEF PhoneClientWalletPage, ClientWalletPage, NoCounts
<1>4. PhoneClientWalletPage.reads.query \in BOOLEAN
  BY DEF PhoneClientWalletPage, ClientWalletPage, Query, Plain
<1>5. \A s \in MoneyStatus : PhoneClientWalletPage.moves[s] \subseteq MoneyStatus
  BY DEF PhoneClientWalletPage, ClientWalletPage, MoneyStatus
<1>6. \A s \in MoneyStatus : PhoneClientWalletPage.offers[s] = {}
  BY DEF PhoneClientWalletPage, ClientWalletPage
<1>7. QED
  BY <1>1, <1>2, <1>3, <1>4, <1>5, <1>6, QuietPage DEF Closed, Counted, MoneyStatus

LEMMA PhoneReviewsSound == Sound("phoneReviews")
<1>1. Pages["phoneReviews"] = PhoneReviewsPage
  BY DEF Pages, WebPages, PhonePages
<1>2. /\ DOMAIN PhoneReviewsPage.moves = RevealStatus
      /\ DOMAIN PhoneReviewsPage.acts = {}
  BY DEF PhoneReviewsPage, MyReviewsPage, NoActs
<1>3. /\ DOMAIN PhoneReviewsPage.shows = {"ALL"}
      /\ DOMAIN PhoneReviewsPage.counts = {}
  BY DEF PhoneReviewsPage, MyReviewsPage, NoCounts
<1>4. PhoneReviewsPage.reads.query \in BOOLEAN
  BY DEF PhoneReviewsPage, MyReviewsPage, Query, Plain
<1>5. \A s \in RevealStatus : PhoneReviewsPage.moves[s] \subseteq RevealStatus
  BY DEF PhoneReviewsPage, MyReviewsPage, RevealStatus
<1>6. \A s \in RevealStatus : PhoneReviewsPage.offers[s] = {}
  BY DEF PhoneReviewsPage, MyReviewsPage
<1>7. QED
  BY <1>1, <1>2, <1>3, <1>4, <1>5, <1>6, QuietPage DEF Closed, Counted, RevealStatus

LEMMA PhoneProfileSound == Sound("phoneProfile")
<1>1. Pages["phoneProfile"] = PhoneProfilePage
  BY DEF Pages, WebPages, PhonePages
<1>2. /\ DOMAIN PhoneProfilePage.moves = RevealStatus
      /\ DOMAIN PhoneProfilePage.acts = {}
  BY DEF PhoneProfilePage, MyReviewsPage, NoActs
<1>3. /\ DOMAIN PhoneProfilePage.shows = {"ALL"}
      /\ DOMAIN PhoneProfilePage.counts = {}
  BY DEF PhoneProfilePage, MyReviewsPage, NoCounts
<1>4. PhoneProfilePage.reads.query \in BOOLEAN
  BY DEF PhoneProfilePage, MyReviewsPage, ErrorFirst, Query, Plain
<1>5. \A s \in RevealStatus : PhoneProfilePage.moves[s] \subseteq RevealStatus
  BY DEF PhoneProfilePage, MyReviewsPage, RevealStatus
<1>6. \A s \in RevealStatus : PhoneProfilePage.offers[s] = {}
  BY DEF PhoneProfilePage, MyReviewsPage
<1>7. QED
  BY <1>1, <1>2, <1>3, <1>4, <1>5, <1>6, QuietPage DEF Closed, Counted, RevealStatus

LEMMA PhoneDisputesSound == Sound("phoneDisputes")
<1>1. Pages["phoneDisputes"] = PhoneDisputesPage
  BY DEF Pages, WebPages, PhonePages
<1>2. /\ DOMAIN PhoneDisputesPage.moves = LitigeStatus
      /\ DOMAIN PhoneDisputesPage.acts = {"open"}
  BY DEF PhoneDisputesPage, LitigesPage, LitigeMoves, Ask, Reread
<1>3. /\ DOMAIN PhoneDisputesPage.shows = {"panel", "mission"}
           /\ PhoneDisputesPage.shows["mission"] = LitigeStatus
      /\ DOMAIN PhoneDisputesPage.counts = {}
  BY DEF PhoneDisputesPage, LitigesPage, DisputesPanel, NoCounts
<1>4. /\ ~PhoneDisputesPage.reads.server /\ PhoneDisputesPage.reads.drops
           /\ ~PhoneDisputesPage.reads.clears
      /\ PhoneDisputesPage.reads.query \in BOOLEAN
  BY DEF PhoneDisputesPage, LitigesPage, Query, Plain
<1>5. \A s \in LitigeStatus : PhoneDisputesPage.moves[s] \subseteq LitigeStatus
  BY DEF PhoneDisputesPage, LitigesPage, LitigeMoves, LitigeStatus
<1>6. PhoneDisputesPage.acts.open.after = "read" /\ ~PhoneDisputesPage.acts.open.mute
  BY DEF PhoneDisputesPage, LitigesPage, Ask, Reread
<1>7. \A s \in LitigeStatus : \A a :
        a \in PhoneDisputesPage.offers[s] <=> a = "open"
  BY DEF PhoneDisputesPage, LitigesPage, getDisputableJobs
<1>8. \A s \in LitigeStatus : \A u :
        u \in PhoneDisputesPage.serves.open[s] <=>
          s \in {"none", "RESOLVED", "REJECTED"} /\ u = "OPEN"
  BY DEF PhoneDisputesPage, LitigesPage, createDispute, Turns
<1>9. Closed(Pages["phoneDisputes"])
  <2>1. \A s \in LitigeStatus :
          PhoneDisputesPage.offers[s] \subseteq DOMAIN PhoneDisputesPage.acts
    BY <1>2, <1>7
  <2>2. \A s \in LitigeStatus : PhoneDisputesPage.serves.open[s] \subseteq LitigeStatus
    BY <1>8 DEF LitigeStatus
  <2>3. \A a \in DOMAIN PhoneDisputesPage.acts, s \in LitigeStatus :
          PhoneDisputesPage.serves[a][s] \subseteq LitigeStatus
    BY <1>2, <2>2
  <2>4. "twice" \notin LitigeStatus /\ "absent" \notin LitigeStatus
    BY DEF LitigeStatus
  <2>5. QED
    BY <1>1, <1>2, <1>4, <1>5, <2>1, <2>3, <2>4 DEF Closed
<1>10. Careful(Pages["phoneDisputes"])
  BY <1>1, <1>2, <1>4, <1>6 DEF Careful, LitigeStatus
<1>11. Counted("phoneDisputes")
  BY <1>1, <1>2, <1>3, <1>4 DEF Counted, LitigeStatus
<1>12. Stands("phoneDisputes")
  BY Overwriting
<1>13. Suited("phoneDisputes")
  <2> DEFINE listed(s) == \E c \in DOMAIN PhoneDisputesPage.shows :
               s \in PhoneDisputesPage.shows[c]
  <2>1. \A s \in LitigeStatus :
           /\ listed(s) /\ "open" \in PhoneDisputesPage.offers[s] =>
                 \/ "open" \in KnownRefused("phoneDisputes", s)
                 \/ PhoneDisputesPage.serves.open[s] # {} /\ ~PhoneDisputesPage.acts.open.mute
           /\ \/ "open" \in KnownMissing("phoneDisputes", s)
              \/ PhoneDisputesPage.serves.open[s] \subseteq {s}
              \/ listed(s) /\ "open" \in PhoneDisputesPage.offers[s]
    BY <1>3, <1>6, <1>7, <1>8 DEF LitigeStatus, KnownRefused, KnownMissing
  <2> HIDE DEF listed
  <2>2. \A a \in DOMAIN PhoneDisputesPage.acts, s \in DOMAIN PhoneDisputesPage.moves :
           /\ listed(s) /\ a \in PhoneDisputesPage.offers[s] =>
                 \/ a \in KnownRefused("phoneDisputes", s)
                 \/ PhoneDisputesPage.serves[a][s] # {} /\ ~PhoneDisputesPage.acts[a].mute
           /\ \/ a \in KnownMissing("phoneDisputes", s)
              \/ PhoneDisputesPage.serves[a][s] \subseteq {s}
              \/ listed(s) /\ a \in PhoneDisputesPage.offers[s]
    BY <1>2, <2>1
  <2>3. QED
    BY <1>1, <2>2 DEF Suited, listed
<1>14. QED
  BY <1>9, <1>10, <1>11, <1>12, <1>13 DEF Sound

LEMMA PhoneTrustSound == Sound("phoneTrust")
<1>1. Pages["phoneTrust"] = PhoneTrustPage
  BY DEF Pages, WebPages, PhonePages
<1>2. /\ DOMAIN PhoneTrustPage.moves = VerificationStatus
      /\ DOMAIN PhoneTrustPage.acts = {"upload", "submit"}
  BY DEF PhoneTrustPage, VerificationPage, VerificationMoves, Ask, Unlocked, Reread
<1>3. /\ DOMAIN PhoneTrustPage.shows = {"ALL"}
           /\ PhoneTrustPage.shows["ALL"] = VerificationStatus
      /\ DOMAIN PhoneTrustPage.counts = {}
  BY DEF PhoneTrustPage, VerificationPage, NoCounts
<1>4. /\ ~PhoneTrustPage.reads.server /\ PhoneTrustPage.reads.drops
           /\ ~PhoneTrustPage.reads.clears
      /\ PhoneTrustPage.reads.query \in BOOLEAN
  BY DEF PhoneTrustPage, VerificationPage, Mounted, Query, Plain
<1>5. \A s \in VerificationStatus : PhoneTrustPage.moves[s] \subseteq VerificationStatus
  BY DEF PhoneTrustPage, VerificationPage, VerificationMoves, VerificationStatus
<1>6. /\ PhoneTrustPage.acts.upload.after = "read" /\ ~PhoneTrustPage.acts.upload.mute
      /\ PhoneTrustPage.acts.submit.after = "read" /\ ~PhoneTrustPage.acts.submit.mute
  BY DEF PhoneTrustPage, VerificationPage, Ask, Unlocked, Reread
<1>7. \A s \in VerificationStatus : \A a :
        a \in PhoneTrustPage.offers[s] <=> a \in {"upload", "submit"}
  BY DEF PhoneTrustPage, VerificationPage, TrustPanel
<1>8. \A s \in VerificationStatus : \A u :
        /\ u \in PhoneTrustPage.serves.upload[s] <=> u = s
        /\ u \in PhoneTrustPage.serves.submit[s] <=>
             \/ s \in {"UNVERIFIED", "REJECTED"} /\ u = "PENDING"
             \/ s \notin {"UNVERIFIED", "REJECTED"} /\ u = s
  BY DEF PhoneTrustPage, VerificationPage, DocumentUpload, TrustProfileSubmission
<1>9. Closed(Pages["phoneTrust"])
  <2>1. \A s \in VerificationStatus :
          PhoneTrustPage.offers[s] \subseteq DOMAIN PhoneTrustPage.acts
    BY <1>2, <1>7
  <2>2. \A s \in VerificationStatus :
          PhoneTrustPage.serves.upload[s] \subseteq VerificationStatus
    BY <1>8 DEF VerificationStatus
  <2>3. \A s \in VerificationStatus :
          PhoneTrustPage.serves.submit[s] \subseteq VerificationStatus
    BY <1>8 DEF VerificationStatus
  <2>4. \A a \in DOMAIN PhoneTrustPage.acts, s \in VerificationStatus :
          PhoneTrustPage.serves[a][s] \subseteq VerificationStatus
    BY <1>2, <2>2, <2>3
  <2>5. "twice" \notin VerificationStatus /\ "absent" \notin VerificationStatus
    BY DEF VerificationStatus
  <2>6. QED
    BY <1>1, <1>2, <1>4, <1>5, <2>1, <2>4, <2>5 DEF Closed
<1>10. Careful(Pages["phoneTrust"])
  BY <1>1, <1>2, <1>4, <1>6 DEF Careful, VerificationStatus
<1>11. Counted("phoneTrust")
  BY <1>1, <1>2, <1>3, <1>4 DEF Counted, VerificationStatus
<1>12. Stands("phoneTrust")
  <2>1. DOMAIN PhoneTrustPage.acts \ KnownOverwrites("phoneTrust") = {"upload"}
    BY <1>1, <1>2 DEF KnownOverwrites
  <2>2. \A s \in VerificationStatus : PhoneTrustPage.serves.upload[s] \subseteq {s}
    BY <1>8
  <2>3. QED
    BY <1>1, <1>2, <2>1, <2>2 DEF Stands
<1>13. Suited("phoneTrust")
  <2> DEFINE listed(s) == \E c \in DOMAIN PhoneTrustPage.shows : s \in PhoneTrustPage.shows[c]
  <2>1. \A s \in VerificationStatus :
           /\ listed(s) /\ "upload" \in PhoneTrustPage.offers[s] =>
                 \/ "upload" \in KnownRefused("phoneTrust", s)
                 \/ PhoneTrustPage.serves.upload[s] # {} /\ ~PhoneTrustPage.acts.upload.mute
           /\ \/ "upload" \in KnownMissing("phoneTrust", s)
              \/ PhoneTrustPage.serves.upload[s] \subseteq {s}
              \/ listed(s) /\ "upload" \in PhoneTrustPage.offers[s]
    BY <1>3, <1>6, <1>7, <1>8 DEF VerificationStatus, KnownRefused, KnownMissing
  <2>2. \A s \in VerificationStatus :
           /\ listed(s) /\ "submit" \in PhoneTrustPage.offers[s] =>
                 \/ "submit" \in KnownRefused("phoneTrust", s)
                 \/ PhoneTrustPage.serves.submit[s] # {} /\ ~PhoneTrustPage.acts.submit.mute
           /\ \/ "submit" \in KnownMissing("phoneTrust", s)
              \/ PhoneTrustPage.serves.submit[s] \subseteq {s}
              \/ listed(s) /\ "submit" \in PhoneTrustPage.offers[s]
    BY <1>3, <1>6, <1>7, <1>8 DEF VerificationStatus, KnownRefused, KnownMissing
  <2> HIDE DEF listed
  <2>3. \A a \in DOMAIN PhoneTrustPage.acts, s \in DOMAIN PhoneTrustPage.moves :
           /\ listed(s) /\ a \in PhoneTrustPage.offers[s] =>
                 \/ a \in KnownRefused("phoneTrust", s)
                 \/ PhoneTrustPage.serves[a][s] # {} /\ ~PhoneTrustPage.acts[a].mute
           /\ \/ a \in KnownMissing("phoneTrust", s)
              \/ PhoneTrustPage.serves[a][s] \subseteq {s}
              \/ listed(s) /\ a \in PhoneTrustPage.offers[s]
    BY <1>2, <2>1, <2>2
  <2>4. QED
    BY <1>1, <2>3 DEF Suited, listed
<1>14. QED
  BY <1>9, <1>10, <1>11, <1>12, <1>13 DEF Sound

LEMMA PhoneAddressesSound == Sound("phoneAddresses")
<1>1. Pages["phoneAddresses"] = PhoneAddressesPage
  BY DEF Pages, WebPages, PhonePages
<1>2. /\ DOMAIN PhoneAddressesPage.moves = AddressStatus
      /\ DOMAIN PhoneAddressesPage.acts = {"delete"}
  BY DEF PhoneAddressesPage, SavedAddressDetail, Turns, useDeleteAddress, Shut, Unlocked, Reread
<1>3. /\ DOMAIN PhoneAddressesPage.shows = {"ALL"}
           /\ PhoneAddressesPage.shows["ALL"] = {"saved"}
      /\ DOMAIN PhoneAddressesPage.counts = {}
  BY DEF PhoneAddressesPage, NoCounts
<1>4. /\ ~PhoneAddressesPage.reads.server /\ PhoneAddressesPage.reads.drops
           /\ ~PhoneAddressesPage.reads.clears
      /\ PhoneAddressesPage.reads.query \in BOOLEAN
  BY DEF PhoneAddressesPage, ErrorFirst, Query, Plain
<1>5. \A s \in AddressStatus : PhoneAddressesPage.moves[s] \subseteq AddressStatus
  BY DEF PhoneAddressesPage, SavedAddressDetail, Turns, AddressStatus
<1>6. PhoneAddressesPage.acts.delete.after = "read" /\ ~PhoneAddressesPage.acts.delete.mute
  BY DEF PhoneAddressesPage, useDeleteAddress, Shut, Unlocked, Reread
<1>7. \A s \in AddressStatus : \A a :
        a \in PhoneAddressesPage.offers[s] <=> a = "delete" /\ s = "saved"
  BY DEF PhoneAddressesPage, AddressBookPanel
<1>8. \A s \in AddressStatus : \A u :
        u \in PhoneAddressesPage.serves.delete[s] <=> s = "saved" /\ u = "gone"
  BY DEF PhoneAddressesPage, SavedAddressDetail, Turns
<1>9. Closed(Pages["phoneAddresses"])
  <2>1. \A s \in AddressStatus :
          PhoneAddressesPage.offers[s] \subseteq DOMAIN PhoneAddressesPage.acts
    BY <1>2, <1>7
  <2>2. \A s \in AddressStatus : PhoneAddressesPage.serves.delete[s] \subseteq AddressStatus
    BY <1>8 DEF AddressStatus
  <2>3. \A a \in DOMAIN PhoneAddressesPage.acts, s \in AddressStatus :
          PhoneAddressesPage.serves[a][s] \subseteq AddressStatus
    BY <1>2, <2>2
  <2>4. "twice" \notin AddressStatus /\ "absent" \notin AddressStatus
    BY DEF AddressStatus
  <2>5. QED
    BY <1>1, <1>2, <1>4, <1>5, <2>1, <2>3, <2>4 DEF Closed
<1>10. Careful(Pages["phoneAddresses"])
  BY <1>1, <1>2, <1>4, <1>6 DEF Careful, AddressStatus
<1>11. Counted("phoneAddresses")
  BY <1>1, <1>2, <1>3, <1>4 DEF Counted, AddressStatus
<1>12. Stands("phoneAddresses")
  <2>1. DOMAIN PhoneAddressesPage.acts \ KnownOverwrites("phoneAddresses") = {"delete"}
    BY <1>1, <1>2 DEF KnownOverwrites
  <2>2. ASSUME NEW a \in {"delete"},
               NEW s \in AddressStatus, NEW t \in AddressStatus, s # t,
               ~(PhoneAddressesPage.serves[a][s] \subseteq {s})
        PROVE  /\ PhoneAddressesPage.serves[a][t] \subseteq {t}
               /\ \A u \in AddressStatus : PhoneAddressesPage.serves[a][u] \subseteq {t}
    BY <1>8, <2>1, <2>2 DEF AddressStatus
  <2>3. QED
    BY <1>1, <1>2, <2>1, <2>2 DEF Stands
<1>13. Suited("phoneAddresses")
  <2> DEFINE listed(s) == \E c \in DOMAIN PhoneAddressesPage.shows :
               s \in PhoneAddressesPage.shows[c]
  <2>1. \A s \in AddressStatus :
           /\ listed(s) /\ "delete" \in PhoneAddressesPage.offers[s] =>
                 \/ "delete" \in KnownRefused("phoneAddresses", s)
                 \/ PhoneAddressesPage.serves.delete[s] # {}
                      /\ ~PhoneAddressesPage.acts.delete.mute
           /\ \/ "delete" \in KnownMissing("phoneAddresses", s)
              \/ PhoneAddressesPage.serves.delete[s] \subseteq {s}
              \/ listed(s) /\ "delete" \in PhoneAddressesPage.offers[s]
    BY <1>3, <1>6, <1>7, <1>8 DEF AddressStatus, KnownRefused, KnownMissing
  <2> HIDE DEF listed
  <2>2. \A a \in DOMAIN PhoneAddressesPage.acts, s \in DOMAIN PhoneAddressesPage.moves :
           /\ listed(s) /\ a \in PhoneAddressesPage.offers[s] =>
                 \/ a \in KnownRefused("phoneAddresses", s)
                 \/ PhoneAddressesPage.serves[a][s] # {} /\ ~PhoneAddressesPage.acts[a].mute
           /\ \/ a \in KnownMissing("phoneAddresses", s)
              \/ PhoneAddressesPage.serves[a][s] \subseteq {s}
              \/ listed(s) /\ a \in PhoneAddressesPage.offers[s]
    BY <1>2, <2>1
  <2>3. QED
    BY <1>1, <2>2 DEF Suited, listed
<1>14. QED
  BY <1>9, <1>10, <1>11, <1>12, <1>13 DEF Sound

-----------------------------------------------------------------------------
(* Every screen, of the web and of the phone, has tables that are closed,   *)
(* careful, counted and forward, and offers what suits its server but for   *)
(* what KnownRefused and KnownMissing list.                                *)
THEOREM EveryPage == \A p \in DOMAIN Pages : Sound(p)
<1>1. DOMAIN Pages = DOMAIN WebPages \cup DOMAIN PhonePages
  BY DEF Pages
<1>2. ASSUME NEW p \in DOMAIN WebPages  PROVE Sound(p)
  <2>1. p \in {"jobs", "job", "dashboard", "payments", "disputes", "users", "requests",
             "documents", "profiles", "reviews", "debts", "audit", "myOffers",
             "notifications", "inbox", "thread", "search", "browse", "alerts",
             "received", "myTrips", "sent", "favourites", "wallet", "clientWallet",
             "myReviews", "home", "litiges", "transporterHome", "bell", "performance",
             "transporterMissions", "clientMissions", "verification"}
    BY DEF WebPages
  <2>2. QED
    BY <2>1, JobsSound, JobSound, DashboardSound, PaymentsSound, DisputesSound, UsersSound,
       RequestsSound, DocumentsSound, ProfilesSound, ReviewsSound, DebtsSound,
       AuditSound, MyOffersSound, NotificationsSound, BellSound, InboxSound,
       ThreadSound, SearchSound, BrowseSound, AlertsSound, ReceivedSound, MyTripsSound,
       SentSound, ClientWalletSound, MyReviewsSound, HomeSound, TransporterHomeSound,
       PerformanceSound, TransporterMissionsSound, ClientMissionsSound,
       FavouritesSound, WalletSound, LitigesSound, VerificationSound
<1>3. ASSUME NEW p \in DOMAIN PhonePages  PROVE Sound(p)
  <2>1. p \in {"phoneSearch", "phoneAlerts", "phoneRequests", "phoneSent", "phoneTrips",
             "phoneHub", "phoneMissions", "phoneCompleted", "phoneNotifications",
             "phoneInbox", "phoneThread", "phoneFavourites", "phoneWallet",
             "phoneClientWallet", "phoneReviews", "phoneProfile", "phoneDisputes",
             "phoneTrust", "phoneAddresses"}
    BY DEF PhonePages
  <2>2. QED
    BY <2>1, PhoneSearchSound, PhoneAlertsSound, PhoneRequestsSound, PhoneSentSound,
       PhoneTripsSound, PhoneHubSound, PhoneMissionsSound, PhoneCompletedSound,
       PhoneNotificationsSound, PhoneInboxSound, PhoneThreadSound,
       PhoneFavouritesSound, PhoneWalletSound, PhoneClientWalletSound,
       PhoneReviewsSound, PhoneProfileSound, PhoneDisputesSound, PhoneTrustSound,
       PhoneAddressesSound
<1>4. QED
  BY <1>1, <1>2, <1>3
=============================================================================
