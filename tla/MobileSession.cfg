\* Two accounts on one phone, two calls at a time.
SPECIFICATION Spec
CONSTANTS
    Accounts = {ann, bob}
    c1 = c1
    c2 = c2
    Calls = {c1, c2}
    KindsOf <- OneListsOneActs
    MaxPairs = 2
    None = None
SYMMETRY PhoneSymmetry
CONSTRAINT Unmixed
INVARIANTS
    TypeOK
    OneAccount
    AtMostOnce
PROPERTIES
    SignsOutOnlyTheRefused
\* Users may stop asking.
CHECK_DEADLOCK FALSE
