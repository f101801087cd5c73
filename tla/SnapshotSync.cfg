\* Three documents, two releases, two crashes.  Documents 1 and 3 are each refused
\* by one of the two books.
\* A node whose artifact is invalid refuses to start and waits for the operator.
CHECK_DEADLOCK FALSE
SPECIFICATION FairSpec
CONSTANTS
    b1 = b1
    b2 = b2
    Corrupt = Corrupt
    Book = {b1, b2}
    Compat <- MCCompat
    MaxVersion = 3
    MaxStamp = 2
    MaxCrashes = 2
    MaxFailures = 1
INVARIANTS
    FailClosed
    PairConsistent
    CacheIntact
PROPERTIES
    VersionNeverGoesBack
    Adopted
