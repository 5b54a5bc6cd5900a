\* One owner, two others: a mission with two bids or requests at most, and a
\* screen two changes behind at most.
CONSTANTS
    Owner = own
    Others = {ann, bob}
    None = none
    MaxRows = 2
    MaxBehind = 2
SPECIFICATION Spec
INVARIANTS
    BookedTripHasPayer
SYMMETRY Alike
\* People may stop acting.
CHECK_DEADLOCK FALSE
