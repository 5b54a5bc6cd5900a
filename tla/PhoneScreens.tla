---------------------------- MODULE PhoneScreens ----------------------------
(***************************************************************************)
(* The list screens of the phone.  They keep what they read in one cache,   *)
(* by key: an act that succeeds declares keys out of date, which cancels    *)
(* the readings of them on their way and sends another.                    *)
(***************************************************************************)
EXTENDS UserScreens

Query == [Plain EXCEPT !.drops = TRUE, !.again = TRUE, !.query = TRUE]
Mounted == [Query EXCEPT !.again = FALSE]     \* nothing on the screen asks again
ErrorFirst == [Query EXCEPT !.blanks = TRUE]  \* it tests the error before the rows

-----------------------------------------------------------------------------
(* The search.  A trip is on the corridor asked for, at another day or      *)
(* unfit for the goods, or starts next door.  Where nothing is found the    *)
(* screen asks again with one constraint less: goods, day, corridor.        *)

MatchStatus == {"fits", "unfit goods", "other day", "next door", "gone"}
SearchEmptyState ==
    [all |-> {"fits"},
     noGoods |-> {"fits", "unfit goods"},
     noDay |-> {"fits", "other day"},
     corridor |-> {"fits", "unfit goods", "other day"},
     neighbours |-> {"fits", "unfit goods", "other day", "next door"}]
useReturnTripMatch == [Plain EXCEPT !.server = TRUE, !.drops = TRUE, !.again = TRUE]
MatchMoves ==
    [s \in MatchStatus |->
        CASE s = "gone" -> {} [] s = "unfit goods" -> {"fits", "gone"} [] OTHER -> {"gone"}]
PhoneSearchPage ==
    [shows |-> SearchEmptyState, counts |-> NoCounts, reads |-> useReturnTripMatch,
     offers |-> [s \in MatchStatus |-> {}], acts |-> NoActs, serves |-> NoActs, moves |-> MatchMoves]

(* The alerts are a panel over the search; what creates one does not say so *)
(* to the panel.                                                           *)
CorridorAlertRow == Shut(Unlocked(Reread))
useCreateCorridorAlert == Untold
PhoneAlertsPage ==
    [AlertsPage EXCEPT !.reads = Query,
                       !.acts = [create |-> useCreateCorridorAlert, delete |-> CorridorAlertRow]]

-----------------------------------------------------------------------------
(* Requests.  A transporter's, on one trip; a client's own, in four tabs.   *)

RequestCard ==
    [s \in RequestsOf |-> IF s = "PENDING" THEN {"accept", "counter", "reject"} ELSE {}]
useRespondRequest == [accept |-> Reread, reject |-> Reread, counter |-> Shut(Reread)]
PhoneRequestsPage ==
    [ReceivedPage EXCEPT !.shows = [c \in {"ALL"} |-> RequestsOf], !.reads = ErrorFirst,
                         !.offers = RequestCard, !.acts = useRespondRequest]

ONGLETS_DEMANDES == {"attente", "negociation", "a-payer", "terminees"}
DemandeTabs == [c \in ONGLETS_DEMANDES |-> {s \in RequestsOf : ongletDeLaDemande[s] = c}]
compterParOnglet == DemandeTabs
MyRequestCard ==
    [s \in RequestsOf |-> {a \in {"accept"} : s = "COUNTERED"}
                          \cup {a \in {"withdraw"} : s \in {"PENDING", "COUNTERED"}}]
MyRequestActs == [accept |-> Reread, withdraw |-> Shut(Unlocked(Reread))]
TripRequestAcceptCounter == Turns(RequestsOf, {"COUNTERED"}, "ACCEPTED")
TripRequestCancel == Turns(RequestsOf, {"PENDING", "COUNTERED"}, "CANCELLED")
PhoneSentPage ==
    [SentRequestsPage EXCEPT
        !.shows = DemandeTabs, !.counts = compterParOnglet, !.reads = Query,
        !.offers = MyRequestCard, !.acts = MyRequestActs,
        !.serves = [accept |-> TripRequestAcceptCounter, withdraw |-> TripRequestCancel]]

-----------------------------------------------------------------------------
(* A transporter's trips: all of them with their acts, and on the home      *)
(* those still online.                                                     *)

PhoneTripsPage == [MyTripsPage EXCEPT !.reads = Query]
ReturnsHubSection == [c \in {"ALL"} |-> {"to come"}]
PhoneHubPage ==
    [MyTripsPage EXCEPT !.shows = ReturnsHubSection, !.reads = Mounted,
                        !.offers = [s \in OwnedStatus |-> {}], !.acts = NoActs, !.serves = NoActs]

(* A transporter's missions under way.  One that is paid online starts when *)
(* the money is there; its card offers the start of it all the same.        *)
CardStatus == {"MATCHED online", "MATCHED cash", "IN_PROGRESS", "COMPLETED", "PUBLISHED", "CANCELLED"}
ACTIVE == {"MATCHED online", "MATCHED cash", "IN_PROGRESS"}
MissionCard ==
    [s \in CardStatus |->
        {a \in {"start"} : s \in {"MATCHED online", "MATCHED cash"}}
        \cup {a \in {"complete"} : s = "IN_PROGRESS"} \cup {a \in {"cancel"} : s \in ACTIVE}]
MissionCardActs ==
    [start |-> Reread, complete |-> Unlocked(Reread), cancel |-> Ask(Unlocked(Reread))]
CardMoves ==
    [s \in CardStatus |->
        CASE s = "MATCHED online" -> {"IN_PROGRESS", "CANCELLED"}
          [] s \in ACTIVE -> {"CANCELLED"}
          [] OTHER -> {}]
PhoneMissionsPage ==
    [shows |-> [c \in {"ALL"} |-> ACTIVE], counts |-> NoCounts, reads |-> Mounted,
     offers |-> MissionCard, acts |-> MissionCardActs, moves |-> CardMoves,
     serves |-> [start |-> Turns(CardStatus, {"MATCHED cash"}, "IN_PROGRESS"),
                 complete |-> Turns(CardStatus, {"IN_PROGRESS"}, "COMPLETED"),
                 cancel |-> Turns(CardStatus, ACTIVE, "PUBLISHED")]]

(* Those that are over, to review: the row does not know that it has been,  *)
(* and a review declares the person's own reviews out of date, not the list. *)
CompletedStatus == {"IN_PROGRESS", "COMPLETED", "reviewed"}
CompletedMissionsList ==
    [s \in CompletedStatus |-> {a \in {"review"} : s \in {"COMPLETED", "reviewed"}}]
useCreateReview == Ask(Untold)
ReviewCreate == Turns(CompletedStatus, {"COMPLETED"}, "reviewed")
PhoneCompletedPage ==
    [shows |-> [c \in {"ALL"} |-> {"COMPLETED", "reviewed"}], counts |-> NoCounts, reads |-> Mounted,
     offers |-> CompletedMissionsList, acts |-> [review |-> useCreateReview],
     moves |-> Turns(CompletedStatus, {"IN_PROGRESS"}, "COMPLETED"),
     serves |-> [review |-> ReviewCreate]]

-----------------------------------------------------------------------------
(* Notifications, conversations and one of them: nothing is written before  *)
(* the server has answered.                                                *)

useMarkNotifications == [a \in {"read", "readAll"} |-> Unlocked(Reread)]
PhoneNotificationsPage ==
    [NotificationsPage EXCEPT !.shows = [c \in {"ALL"} |-> NotificationStatus], !.counts = NoCounts,
                              !.reads = Query, !.acts = useMarkNotifications]
PhoneInboxPage == [InboxPage EXCEPT !.reads = Query]
useSendMessage == [send |-> Unlocked(Reread)]
PhoneThreadPage == [ThreadPage EXCEPT !.reads = Query, !.acts = useSendMessage]

(* Favourites: a panel of them, and the heart on any transporter's profile, *)
(* out of one cache.  Both turn over what the server has.                   *)
FavoriteButton == [panel |-> {"favourite"}, heart |-> FavouriteStatus]
PhoneFavouritesPage ==
    [FavouritesPage EXCEPT
        !.shows = FavoriteButton, !.reads = Query,
        !.offers = [s \in FavouriteStatus |-> {"toggle"}], !.acts = [toggle |-> Unlocked(Reread)],
        !.serves = [toggle |-> FavoriteToggle]]

-----------------------------------------------------------------------------
(* Money, reviews and disputes.  Any balance above nothing offers a         *)
(* withdrawal, whose sheet stays when it is refused.                       *)

WithdrawalSheet == Ask(Unlocked(Reread))
PhoneWalletPage ==
    [WalletPage EXCEPT !.reads = Query, !.offers = [s \in BalanceStatus |-> {"withdraw"}],
                       !.acts = [withdraw |-> WithdrawalSheet]]
PhoneClientWalletPage == [ClientWalletPage EXCEPT !.reads = Query]
PhoneReviewsPage == [MyReviewsPage EXCEPT !.reads = Query]
PhoneProfilePage == [MyReviewsPage EXCEPT !.reads = ErrorFirst]

(* A dispute is opened from a mission, whatever disputes there are, and     *)
(* listed in a panel.                                                      *)
DisputesPanel == [panel |-> LitigeStatus \ {"none"}, mission |-> LitigeStatus]
PhoneDisputesPage == [LitigesPage EXCEPT !.shows = DisputesPanel, !.counts = NoCounts, !.reads = Query]

-----------------------------------------------------------------------------
(* Verification, whose vehicle and documents may be sent at any status, and *)
(* the address book.                                                       *)

TrustPanel == [s \in VerificationStatus |-> {"upload", "submit"}]
PhoneTrustPage ==
    [VerificationPage EXCEPT !.reads = Mounted, !.offers = TrustPanel,
                             !.acts = [upload |-> Ask(Unlocked(Reread)), submit |-> Unlocked(Reread)]]

AddressStatus == {"saved", "gone"}
AddressBookPanel == [s \in AddressStatus |-> {a \in {"delete"} : s = "saved"}]
useDeleteAddress == Shut(Unlocked(Reread))
SavedAddressDetail == Turns(AddressStatus, {"saved"}, "gone")
PhoneAddressesPage ==
    [shows |-> [c \in {"ALL"} |-> {"saved"}], counts |-> NoCounts, reads |-> ErrorFirst,
     offers |-> AddressBookPanel, acts |-> [delete |-> useDeleteAddress],
     moves |-> SavedAddressDetail, serves |-> [delete |-> SavedAddressDetail]]

PhonePages ==
    [phoneSearch |-> PhoneSearchPage, phoneAlerts |-> PhoneAlertsPage,
     phoneRequests |-> PhoneRequestsPage, phoneSent |-> PhoneSentPage,
     phoneTrips |-> PhoneTripsPage, phoneHub |-> PhoneHubPage,
     phoneMissions |-> PhoneMissionsPage, phoneCompleted |-> PhoneCompletedPage,
     phoneNotifications |-> PhoneNotificationsPage, phoneInbox |-> PhoneInboxPage,
     phoneThread |-> PhoneThreadPage, phoneFavourites |-> PhoneFavouritesPage,
     phoneWallet |-> PhoneWalletPage, phoneClientWallet |-> PhoneClientWalletPage,
     phoneReviews |-> PhoneReviewsPage, phoneProfile |-> PhoneProfilePage,
     phoneDisputes |-> PhoneDisputesPage, phoneTrust |-> PhoneTrustPage,
     phoneAddresses |-> PhoneAddressesPage]
=============================================================================
