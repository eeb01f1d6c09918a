CONSTANTS
    Sessions = {nostr, torrent}
    MaxAttempts = 2
    MaxPerPeer = 2
SPECIFICATION Spec
INVARIANTS
    NewOffersWhileDown
CHECK_DEADLOCK FALSE
