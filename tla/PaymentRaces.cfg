\* Two workers: stale reads of one meet the writes of the other.
SPECIFICATION Spec
CONSTANTS
    j1 = j1
    trip = trip
    Jobs <- OneJob
    ReturnTrips = {}
    Offers = {o1, o2}
    OfferJob <- BidsOnOneJob
    Escrows <- TwoRows
    EscrowJob <- RowsOnOneJob
    Disputes = {d1}
    DisputeJob <- DisputesOnOneJob
    Workers = {w1, w2}
    MaxCrashes = 1
SYMMETRY Alike
INVARIANTS
    ReleasedWasPaid
    DigitalStartIsPaid
    RefundIsQueued
    ActiveIsBooked
PROPERTIES
    ReleaseBlockedByDispute
\* Users and moderators may stop asking.
CHECK_DEADLOCK FALSE
