\* Fields do not depend on each other but through what is sent for one when
\* another is saved, and a field not touched stands for those: one is enough.
CONSTANTS
    None = none
SPECIFICATION Spec
INVARIANTS
    TypeOK
    TypedIsShown
    SentIsAccepted
PROPERTIES
    SavedIsMeant
