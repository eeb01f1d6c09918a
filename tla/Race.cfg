CONSTANTS
    alice = alice
    bob = bob
    Client <- MCClients
SPECIFICATION FairSpec
INVARIANTS
    TypeOK
    OneSession
    StopsAfterItsSession
PROPERTY
    LoserLetsGo
CHECK_DEADLOCK FALSE
