SPECIFICATION MCSpec
CONSTANTS
  relayA = relayA  relayB = relayB  mine = mine  mine2 = mine2  theirs = theirs  late = late
  tracker = tracker  offerA = offerA  offerB = offerB  remote = remote
  Urls = {relayA, relayB}
  Own = {mine, mine2}
  Others = {theirs, late}
  Readable = {theirs, late}
  Skew <- MCSkew
  TTL = 1
  Keep = 1
  MaxTime = 2
  MaxChain = 2
  Trackers = {tracker}
  Ours = {offerA, offerB}
  Theirs = {remote}
  Spacing = 1
  Newest = 1
  MaxInbox = 1
INVARIANTS TypesOK RelaysKept OpenRelayHasAll
PROPERTIES ImplementsSignaling TorrentImplementsSignaling OfferAnnounced
CHECK_DEADLOCK FALSE
