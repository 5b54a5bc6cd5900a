---------------------------- MODULE UserScreens ----------------------------
(***************************************************************************)
(* The list screens of clients and transporters on the web, and the         *)
(* endpoints they call.                                                    *)
(***************************************************************************)
EXTENDS ListPage

Once == [Plain EXCEPT !.hides = TRUE, !.blanks = TRUE]     \* reads when mounted

(* And on a timer.  Notifications and messages hide their rows during a      *)
(* refresh the person asks for, not during a poll, which shows no error when *)
(* it fails.  The two are one here, which never hides, so that a row can be  *)
(* pressed during either; "failed" is that the last one did, told or not.   *)
Polled == [Plain EXCEPT !.again = TRUE]

-----------------------------------------------------------------------------
(* My offers.  An offer past its deadline is PENDING to the server, EXPIRED *)
(* to the page, until a command expires it.                                *)

OfferStatus == {"PENDING", "PENDING past its deadline", "ACCEPTED", "REJECTED", "EXPIRED", "WITHDRAWN"}
mapApiOffer == [s \in OfferStatus |-> IF s = "PENDING past its deadline" THEN "EXPIRED" ELSE s]
OfferTabs ==
    [c \in {"ALL", "PENDING", "ACCEPTED", "REJECTED", "EXPIRED", "WITHDRAWN"} |->
        {s \in OfferStatus : c = "ALL" \/ mapApiOffer[s] = c}]
OfferStatusCard == [s \in OfferStatus |-> {a \in {"withdraw"} : mapApiOffer[s] = "PENDING"}]
OfferWithdraw ==
    Turns(OfferStatus, {"PENDING", "PENDING past its deadline"}, "WITHDRAWN")
OfferMoves ==
    [s \in OfferStatus |->
        CASE s = "PENDING" -> {"PENDING past its deadline", "ACCEPTED", "REJECTED"}
          [] s = "PENDING past its deadline" -> {"EXPIRED"}
          [] OTHER -> {}]

MyOffersPage ==
    [shows |-> OfferTabs, counts |-> NoCounts, reads |-> Polled, offers |-> OfferStatusCard,
     acts |-> [withdraw |-> Ask(Unlocked(Reread))], moves |-> OfferMoves,
     serves |-> [withdraw |-> OfferWithdraw]]

-----------------------------------------------------------------------------
(* Notifications: what is read is marked before the server has said so.     *)

NotificationStatus == {"unread", "read"}
NotificationTabs == [all |-> NotificationStatus, unread |-> {"unread"}]
NotificationItem == [s \in NotificationStatus |-> {a \in {"read", "readAll"} : s = "unread"}]
NotificationRead == [s \in NotificationStatus |-> {"read"}]
NotificationsPage ==
    [shows |-> NotificationTabs, counts |-> NotificationTabs, reads |-> Polled,
     offers |-> NotificationItem, acts |-> [a \in {"read", "readAll"} |-> Unlocked(Hope)],
     moves |-> [s \in NotificationStatus |-> {"read"} \ {s}],
     serves |-> [a \in {"read", "readAll"} |-> NotificationRead]]

(* The bell at the head of every page, which counts the unread, and the     *)
(* panel it opens.  They keep their own copy of the notifications, which is *)
(* read again, and not put back, when marking fails.                       *)
BellPlaces == [bell |-> {"unread"}, panel |-> NotificationStatus]
BellCounts == [c \in {"bell"} |-> BellPlaces[c]]
BellActs == [a \in {"read", "readAll"} |-> [Unlocked(Hope) EXCEPT !.always = TRUE]]
BellPage ==
    [NotificationsPage EXCEPT !.shows = BellPlaces, !.counts = BellCounts, !.acts = BellActs]

-----------------------------------------------------------------------------
(* Conversations, and one of them: what is sent is added to the thread when *)
(* the server has answered, on top of what has been read meanwhile.  One    *)
(* message is sent, a bound.                                               *)

ConversationStatus == {"read", "unread", "locked"}
InboxReads == Polled
InboxPage ==
    [shows |-> [c \in {"ALL"} |-> ConversationStatus],
     counts |-> NoCounts, reads |-> InboxReads,
     offers |-> [s \in ConversationStatus |-> {}], acts |-> NoActs, serves |-> NoActs,
     moves |-> [s \in ConversationStatus |-> ConversationStatus \ {s}]]

ThreadStatus == {"quiet", "said", "locked"}
ThreadReads == [Polled EXCEPT !.blanks = TRUE]
ThreadOffers == [s \in ThreadStatus |-> {a \in {"send"} : s = "quiet"}]
SendMessage == Turns(ThreadStatus, {"quiet"}, "said")
ThreadPage ==
    [shows |-> [c \in {"ALL"} |-> ThreadStatus], counts |-> NoCounts, reads |-> ThreadReads,
     offers |-> ThreadOffers, acts |-> [send |-> Unlocked(AddOn)], serves |-> [send |-> SendMessage],
     moves |-> [s \in ThreadStatus |-> IF s = "quiet" THEN {"locked"} ELSE {}]]

-----------------------------------------------------------------------------
(* The two searches number their readings and drop the answer to any but    *)
(* the last.  A trip has a corridor; one that is gone is in none.           *)

TripStatus == {"north", "south", "gone"}
Corridors == AllAnd({"north", "south"}, {"north", "south"})
SearchReads == [Plain EXCEPT !.server = TRUE, !.drops = TRUE, !.hides = TRUE]
TripMoves == [s \in TripStatus |-> IF s = "gone" THEN {} ELSE {"gone"}]
SearchPage ==
    [shows |-> Corridors, counts |-> NoCounts, reads |-> SearchReads,
     offers |-> [s \in TripStatus |-> {}], acts |-> NoActs, serves |-> NoActs, moves |-> TripMoves]

BrowseReads == [SearchReads EXCEPT !.blanks = TRUE, !.again = TRUE]
BrowsePage == [SearchPage EXCEPT !.reads = BrowseReads]

(* A client's alert on a corridor.  The offer to create one stands where    *)
(* nothing is found, alert or not.  A reading that fails empties the list.  *)
AlertStatus == {"none", "active"}
AlertLists == [alerts |-> {"active"}, noResults |-> AlertStatus]
AlertReads == [Plain EXCEPT !.blanks = TRUE]
AlertOffers == [s \in AlertStatus |-> {"create"} \cup {a \in {"delete"} : s = "active"}]
AlertActs == [create |-> Reread, delete |-> Unlocked(Write)]
CorridorAlertCreate == [s \in AlertStatus |-> {"active"}]
CorridorAlertDelete == [s \in AlertStatus |-> {"none"}]
AlertsPage ==
    [shows |-> AlertLists, counts |-> NoCounts, reads |-> AlertReads, offers |-> AlertOffers,
     acts |-> AlertActs, moves |-> [s \in AlertStatus |-> AlertStatus \ {s}],
     serves |-> [create |-> CorridorAlertCreate, delete |-> CorridorAlertDelete]]

-----------------------------------------------------------------------------
(* Requests received: each tab reads its own, and nothing tells the answer  *)
(* of one tab from that of another.  The buttons depend on the tab.         *)

RequestsOf == {"PENDING", "COUNTERED", "ACCEPTED", "REJECTED", "CANCELLED"}
ONGLETS ==
    [c \in {"a-decider", "negociation", "archivees"} |->
        CASE c = "a-decider" -> {"PENDING"}
          [] c = "negociation" -> {"COUNTERED"}
          [] c = "archivees" -> {"ACCEPTED", "REJECTED", "CANCELLED"}]
ReceivedReads == [Plain EXCEPT !.server = TRUE, !.clears = TRUE, !.again = TRUE]
ReceivedRequestCard ==
    [s \in RequestsOf |-> IF s \in ONGLETS["archivees"] THEN {} ELSE {"accept", "counter", "reject"}]
(* Mutated: the view reads the request it answers without locking it.      *)
Mut_ReceivedActs ==
    [accept |-> Unlocked(Reread), reject |-> Reread, counter |-> Shut(Reread)]

ReceivedActs ==
    [accept |-> Reread, reject |-> Reread, counter |-> Shut(Reread)]
TripRequestRespond ==
    [accept |-> Turns(RequestsOf, {"PENDING"}, "ACCEPTED"),
     counter |-> Turns(RequestsOf, {"PENDING"}, "COUNTERED"),
     reject |-> Turns(RequestsOf, {"PENDING"}, "REJECTED")]
(* A withdrawal locks nothing: it is saved over an answer given since.     *)
RequestMoves ==
    [s \in RequestsOf |->
        {u \in {"REJECTED"} : s = "PENDING"} \cup {u \in {"ACCEPTED"} : s = "COUNTERED"}
        \cup {u \in {"CANCELLED"} : s # "CANCELLED"}]

ReceivedPage ==
    [shows |-> ONGLETS, counts |-> NoCounts, reads |-> ReceivedReads,
     offers |-> ReceivedRequestCard, acts |-> ReceivedActs, moves |-> RequestMoves,
     serves |-> TripRequestRespond]

(* A transporter's own trips, whatever their status, with the same buttons. *)
(* A week more brings a trip back only if it has been over for less.        *)
OwnedStatus == {"to come", "over", "long over", "engaged", "cancelled"}
Published == {"to come", "over", "long over"}
OwnedReads == [Plain EXCEPT !.again = TRUE]
ReturnTripRow == [s \in OwnedStatus |-> {"extend", "duplicate", "unpublish"}]
OwnedActs == [extend |-> Unlocked(Reread), duplicate |-> Unlocked(Reread),
              unpublish |-> Shut(Unlocked(Reread))]
extendReturnTrip == Turns(OwnedStatus, {"to come", "over"}, "to come")
duplicateReturnTrip == [s \in OwnedStatus |-> IF s = "long over" THEN {} ELSE {s}]
unpublishReturnTrip == Turns(OwnedStatus, Published, "cancelled")
OwnedMoves ==
    [s \in OwnedStatus |->
        CASE s = "to come" -> {"over", "engaged"} [] s = "over" -> {"long over"} [] OTHER -> {}]

MyTripsPage ==
    [shows |-> [c \in {"ALL"} |-> OwnedStatus], counts |-> NoCounts, reads |-> OwnedReads,
     offers |-> ReturnTripRow, acts |-> OwnedActs, moves |-> OwnedMoves,
     serves |-> [extend |-> extendReturnTrip, duplicate |-> duplicateReturnTrip,
                 unpublish |-> unpublishReturnTrip]]

-----------------------------------------------------------------------------
(* Favourites: the server turns a favourite over; the page takes it away if *)
(* it is gone, and reads again if it is back.                              *)

FavouriteStatus == {"favourite", "forgotten"}
FavouriteList == [c \in {"ALL"} |-> {"favourite"}]
FavouriteOffers == [s \in FavouriteStatus |-> {a \in {"remove"} : s = "favourite"}]
FavoriteToggle == [s \in FavouriteStatus |-> FavouriteStatus \ {s}]
FavouritesPage ==
    [shows |-> FavouriteList, counts |-> NoCounts, reads |-> Once, offers |-> FavouriteOffers,
     acts |-> [remove |-> Unlocked(Either)], moves |-> FavoriteToggle,
     serves |-> [remove |-> FavoriteToggle]]

-----------------------------------------------------------------------------
(* A transporter's balance: below what can be withdrawn, or above it.       *)

BalanceStatus == {"too little", "enough"}
WalletReads == [Once EXCEPT !.again = TRUE]
WalletOffers == [s \in BalanceStatus |-> {a \in {"withdraw"} : s = "enough"}]
RequestWithdrawal == [s \in BalanceStatus |-> IF s = "enough" THEN BalanceStatus ELSE {}]
WalletPage ==
    [shows |-> [c \in {"ALL"} |-> BalanceStatus], counts |-> NoCounts, reads |-> WalletReads,
     offers |-> WalletOffers, acts |-> [withdraw |-> Unlocked(Reread)],
     moves |-> [s \in BalanceStatus |-> BalanceStatus \ {s}],
     serves |-> [withdraw |-> RequestWithdrawal]]

(* A client's money, by what has become of it.                              *)
MoneyStatus == {"HELD", "RELEASED", "REFUNDED"}
ClientWalletPage ==
    [shows |-> [c \in {"ALL"} |-> MoneyStatus], counts |-> NoCounts, reads |-> Once,
     offers |-> [s \in MoneyStatus |-> {}], acts |-> NoActs, serves |-> NoActs,
     moves |-> [s \in MoneyStatus |-> IF s = "HELD" THEN MoneyStatus \ {s} ELSE {}]]

(* Reviews received: hidden until both have written, or a week has passed.  *)
RevealStatus == {"hidden", "revealed"}
MyReviewsPage ==
    [shows |-> [c \in {"ALL"} |-> RevealStatus], counts |-> NoCounts, reads |-> Once,
     offers |-> [s \in RevealStatus |-> {}], acts |-> NoActs, serves |-> NoActs,
     moves |-> [s \in RevealStatus |-> {"revealed"} \ {s}]]

(* The corridors of a transporter: those that have paid, for good, and those *)
(* where requests wait for somebody.  One error takes the place of both, as *)
(* no corridor is not the same as none read.                               *)
CorridorStatus == {"neither", "earned", "waiting", "both"}
PerformanceReads == Once
PerformanceSections == [revenue |-> {"earned", "both"}, opportunities |-> {"waiting", "both"}]
CorridorMoves ==
    [s \in CorridorStatus |->
        CASE s = "neither" -> {"earned", "waiting"} [] s = "waiting" -> {"neither", "both"}
          [] s = "earned" -> {"both"} [] s = "both" -> {"earned"}]
PerformancePage ==
    [shows |-> PerformanceSections, counts |-> NoCounts, reads |-> PerformanceReads,
     offers |-> [s \in CorridorStatus |-> {}], acts |-> NoActs, serves |-> NoActs,
     moves |-> CorridorMoves]

(* The home of each role reads its figures and latest missions together: a  *)
(* client's own, and those a transporter has got.                          *)
HomeStatus == {"PUBLISHED", "MATCHED", "IN_PROGRESS", "COMPLETED"}
ClientDashboard == [c \in {"ALL"} |-> HomeStatus]
TransporterDashboard == [c \in {"ALL"} |-> HomeStatus \ {"PUBLISHED"}]
HomeReads == [Plain EXCEPT !.hides = TRUE]
HomeMoves ==
    [s \in HomeStatus |->
        CASE s = "PUBLISHED" -> {"MATCHED"} [] s = "MATCHED" -> {"IN_PROGRESS"}
          [] s = "IN_PROGRESS" -> {"COMPLETED"} [] OTHER -> {}]
HomePage ==
    [shows |-> ClientDashboard, counts |-> NoCounts, reads |-> HomeReads,
     offers |-> [s \in HomeStatus |-> {}], acts |-> NoActs, serves |-> NoActs, moves |-> HomeMoves]
TransporterHomePage == [HomePage EXCEPT !.shows = TransporterDashboard]

-----------------------------------------------------------------------------
(* My missions: a transporter's, and a client's by who must act.            *)

MissionStatus == HomeStatus \cup {"DRAFT", "CANCELLED", "DISPUTED"}
MissionMoves ==
    [s \in MissionStatus |->
        CASE s = "DRAFT" -> {"PUBLISHED"}
          [] s = "PUBLISHED" -> {"MATCHED", "CANCELLED"}
          [] s = "MATCHED" -> {"IN_PROGRESS", "PUBLISHED", "CANCELLED"}
          [] s = "IN_PROGRESS" -> {"COMPLETED", "DISPUTED"}
          [] OTHER -> {}]

(* The transporter has those an offer of theirs is accepted on.             *)
TransporterJobList == MissionStatus \ {"DRAFT", "PUBLISHED", "CANCELLED"}
TransporterTabs ==
    [c \in {"ALL", "UPCOMING", "IN_PROGRESS", "COMPLETED"} |->
        CASE c = "ALL" -> TransporterJobList [] c = "UPCOMING" -> {"MATCHED"} [] OTHER -> {c}]
TransporterMissionsPage ==
    [shows |-> TransporterTabs, counts |-> TransporterTabs, reads |-> Polled,
     offers |-> [s \in MissionStatus |-> {}], acts |-> NoActs, serves |-> NoActs,
     moves |-> MissionMoves]

OngletExpedition == {"attente", "negociation", "a-payer", "en-cours", "terminees"}
ongletDuJob ==
    [s \in MissionStatus |->
        CASE s \in {"PUBLISHED", "DRAFT"} -> "attente"
          [] s = "MATCHED" -> "a-payer"
          [] s = "IN_PROGRESS" -> "en-cours"
          [] OTHER -> "terminees"]
ClientTabs == [c \in OngletExpedition |-> {s \in MissionStatus : ongletDuJob[s] = c}]
ClientMissionsPage ==
    [TransporterMissionsPage EXCEPT !.shows = ClientTabs, !.counts = ClientTabs,
                                    !.reads = HomeReads]

(* The requests a client has sent on return trips, in the same tabs.        *)
ongletDeLaDemande ==
    [s \in RequestsOf |->
        CASE s = "PENDING" -> "attente"
          [] s = "COUNTERED" -> "negociation"
          [] s = "ACCEPTED" -> "a-payer"
          [] OTHER -> "terminees"]
SentTabs == [c \in OngletExpedition |-> {s \in RequestsOf : ongletDeLaDemande[s] = c}]
SentRequestsPage ==
    [shows |-> SentTabs, counts |-> SentTabs, reads |-> Plain,
     offers |-> [s \in RequestsOf |-> {}], acts |-> NoActs, serves |-> NoActs,
     moves |-> [s \in RequestsOf |->
                  RequestMoves[s] \cup {u \in {"COUNTERED", "ACCEPTED"} : s = "PENDING"}]]

-----------------------------------------------------------------------------
(* My disputes, and the missions one can be opened on: whoever has an open  *)
(* dispute is offered another, which the server refuses.                   *)

LitigeStatus == {"none", "OPEN", "INVESTIGATING", "RESOLVED", "REJECTED"}
LitigeTabs ==
    [c \in {"ALL", "OPEN", "INVESTIGATING", "RESOLVED", "REJECTED", "new"} |->
        CASE c = "ALL" -> LitigeStatus \ {"none"}
          [] c = "new" -> LitigeStatus
          [] OTHER -> {c}]
LitigeCounts == [c \in DOMAIN LitigeTabs \ {"new"} |-> LitigeTabs[c]]
LitigeReads == [Plain EXCEPT !.hides = TRUE]
getDisputableJobs == [s \in LitigeStatus |-> {"open"}]
createDispute == Turns(LitigeStatus, {"none", "RESOLVED", "REJECTED"}, "OPEN")
LitigeMoves ==
    [s \in LitigeStatus |->
        CASE s = "none" -> {"OPEN"}
          [] s = "OPEN" -> {"INVESTIGATING"}
          [] s = "INVESTIGATING" -> {"RESOLVED", "REJECTED"}
          [] OTHER -> {}]
LitigesPage ==
    [shows |-> LitigeTabs, counts |-> LitigeCounts, reads |-> LitigeReads,
     offers |-> getDisputableJobs, acts |-> [open |-> Ask(Reread)], moves |-> LitigeMoves,
     serves |-> [open |-> createDispute]]

-----------------------------------------------------------------------------
(* A transporter's own verification.  Submitting changes a profile that is  *)
(* not verified or was rejected, and answers the same to any other.         *)

VerificationStatus ==
    {"UNVERIFIED", "PENDING", "PARTIALLY_REVIEWED", "VERIFIED", "REJECTED"}
VerifyReads == [Plain EXCEPT !.hides = TRUE, !.again = TRUE]
showUploadForm ==
    [s \in VerificationStatus |-> IF s \in {"UNVERIFIED", "REJECTED"} THEN {"upload", "submit"} ELSE {}]
VerifyActs == [a \in {"upload", "submit"} |-> Unlocked(Reread)]
TrustProfileSubmission ==
    [s \in VerificationStatus |-> IF s \in {"UNVERIFIED", "REJECTED"} THEN {"PENDING"} ELSE {s}]
DocumentUpload == [s \in VerificationStatus |-> {s}]
VerificationMoves ==
    [s \in VerificationStatus |->
        IF s = "UNVERIFIED" THEN {} ELSE {"PARTIALLY_REVIEWED", "VERIFIED", "REJECTED"} \ {s}]
VerificationPage ==
    [shows |-> [c \in {"ALL"} |-> VerificationStatus], counts |-> NoCounts, reads |-> VerifyReads,
     offers |-> showUploadForm, acts |-> VerifyActs, moves |-> VerificationMoves,
     serves |-> [upload |-> DocumentUpload, submit |-> TrustProfileSubmission]]
=============================================================================
