\* A window of 2 slides over 4 sequence numbers in each of 2 boot epochs.
SPECIFICATION FairSessionSpec
CONSTANTS
    WINDOW = 2
    MaxEpoch = 2
    MaxSeq = 4
    Payload = {p1}
INVARIANTS
    AtMostOnce
    WindowExact
    NeverPoisoned
PROPERTIES
    ImplementsLink
    Resync
