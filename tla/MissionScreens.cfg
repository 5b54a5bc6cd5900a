\* One owner, two others: a mission with two bids or requests at most, and a
\* screen one change behind at most.
CONSTANTS
    Owner = own
    Others = {ann, bob}
    None = none
    MaxRows = 2
    MaxBehind = 1
SPECIFICATION Spec
INVARIANTS
    TypeOK
    WhoMayActMayLook
    OfferedIsAccepted
    NoDeadEnd
    StaleStepIsRefused
    DoneIsNotOffered
PROPERTIES
    RetryIsRefused
SYMMETRY Alike
\* People may stop acting.
CHECK_DEADLOCK FALSE
