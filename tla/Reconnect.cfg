CONSTANTS
    Sessions = {nostr, torrent}
    MaxAttempts = 3
    MaxPerPeer = 2
SPECIFICATION FairSpec
INVARIANTS
    TypeOK
    OneClaimedPeer
    RetryArmed
    ListenerLinkLive
    ClosedHoldsNothing
PROPERTIES
    PromiseSettles
    ListenerLetsGo
CHECK_DEADLOCK FALSE
