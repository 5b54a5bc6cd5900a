\* One item, and two readings on their way: two answers can cross, which is
\* all that order can do to a list whose rows do not depend on each other.
CONSTANTS
    Items = {a}
    None = none
    MaxReads = 2
SPECIFICATION Spec
INVARIANTS
    TypeOK
    SettledShowsServer
    OffersMatchServer
PROPERTIES
    DecisionsStand
\* A page that has read everything, offers nothing and is changed by nobody
\* (a mission that is over) has nothing left to do.
CHECK_DEADLOCK FALSE
