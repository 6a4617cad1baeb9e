SPECIFICATION FairSpec
CONSTANTS
    c1 = c1
    c2 = c2
    Calls = {c1, c2}
    SmsProviders <- MCSmsProviders
    MaxFaults = 2
INVARIANTS
    TypeOK
    SentWasTaken
    ArrivedCodeIsStored
    PendingOnlyBeforeCommit
    ArrivesOncePerDelivery
PROPERTIES
    JobsAreDone
CHECK_DEADLOCK FALSE
