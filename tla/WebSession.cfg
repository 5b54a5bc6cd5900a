\* Two accounts, two tabs, two calls at a time.
SPECIFICATION Spec
CONSTANTS
    Accounts = {ann, bob}
    Tabs = {t1, t2}
    Calls = {c1, c2}
    MaxPairs = 2
    None = None
SYMMETRY Symmetric
CONSTRAINT Unmixed
INVARIANTS
    TypeOK
    OneAccount
    AtMostOnce
PROPERTIES
    SpentOnlyByRace
\* Users may stop asking.
CHECK_DEADLOCK FALSE
