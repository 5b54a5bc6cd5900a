\* Two workers beside the scheduler on one mission.
SPECIFICATION FairSpec
CONSTANTS
    j1 = j1
    j2 = j2
    t1 = t1
    t2 = t2
    a1 = a1
    a2 = a2
    a3 = a3
    b1 = b1
    c1 = c1
    c2 = c2
    c3 = c3
    Jobs = {j1}
    Transporters = {t1, t2}
    Offers = {a1, b1}
    OfferJob <- JobOf
    OfferBy <- AuthorOf
    AskedPrice <- AskedFor
    Counters = {c1}
    CounterOn <- OnFirstBid
    CounterPrice <- ProposedHere
    Workers = {w1, w2}
    MaxPending = 1
    MaxCounters = 1
INVARIANTS
    BookedPriceWasOffered
PROPERTIES
    StaleBidExpires
\* Users may stop asking.
CHECK_DEADLOCK FALSE
