\* One worker: every request runs to its end, or dies, before the next.
\* A classic mission with a bid, a row and a dispute, and a return trip with
\* two requests and two rows.
SPECIFICATION Spec
CONSTANTS
    j1 = j1
    trip = trip
    Jobs <- TwoJobs
    ReturnTrips <- Trips
    Offers = {"bid", "request", "request2"}
    OfferJob <- BidOnEach
    Escrows <- ThreeRows
    EscrowJob <- RowOnEach
    Disputes = {d1}
    DisputeJob <- DisputesOnOneJob
    Workers = {w1}
    MaxCrashes = 1
INVARIANTS
    TypeOK
    EngagedHasContract
    RulingMovedMoney
PROPERTIES
    ImplementsContract
\* Users and moderators may stop asking.
CHECK_DEADLOCK FALSE
