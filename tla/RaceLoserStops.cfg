CONSTANTS
    alice = alice
    bob = bob
    Client <- MCClient
SPECIFICATION Spec
INVARIANTS
    AcceptedSessionRunsOn
CHECK_DEADLOCK FALSE
