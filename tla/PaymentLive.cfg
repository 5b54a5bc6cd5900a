\* Two workers, one of which may die; every paid link is recorded.
SPECIFICATION FairSpec
CONSTANTS
    j1 = j1
    trip = trip
    Jobs <- OneJob
    ReturnTrips = {}
    Offers = {o1, o2}
    OfferJob <- BidsOnOneJob
    Escrows <- OneRow
    EscrowJob <- RowsOnOneJob
    Disputes = {d1}
    DisputeJob <- DisputesOnOneJob
    Workers = {w1, w2}
    MaxCrashes = 1
PROPERTIES
    PaidIsRecorded
    DeliveredIsPaidOut
    DebtIsRecorded
\* Users and moderators may stop asking.
CHECK_DEADLOCK FALSE
