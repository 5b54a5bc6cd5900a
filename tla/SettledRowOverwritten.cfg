\* A callback that read INITIATED saves HELD over a refund.
SPECIFICATION Spec
CONSTANTS
    j1 = j1
    trip = trip
    Jobs <- OneJob
    ReturnTrips = {}
    Offers = {o1, o2}
    OfferJob <- BidsOnOneJob
    Escrows <- TwoRows
    EscrowJob <- RowsOnOneJob
    Disputes = {d1}
    DisputeJob <- DisputesOnOneJob
    Workers = {w1, w2}
    MaxCrashes = 0
PROPERTIES
    SettledRowIsFinal
\* Users and moderators may stop asking.
CHECK_DEADLOCK FALSE
