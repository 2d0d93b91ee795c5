SPECIFICATION FairSpec
CONSTANTS
    Listeners = {l1, l2}
    MaxFrames = 2
    TapCap = 1
    WireCap = 1
    ChanCap = 1
    MaxOrphans = 1
    MaxReloads = 1
INVARIANTS NoSendOnClosed OneFeed
PROPERTIES KeepsPromise ListenerFed IdleFeedStops
CHECK_DEADLOCK FALSE
