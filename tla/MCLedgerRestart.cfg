CONSTANTS
    alice = alice
    bob = bob
    carol = carol
    Addrs = {alice, bob, carol}
    Blocks <- Plain
    Genesis <- Rich
    BatchSize = 2
    MaxInterrupts = 1
SPECIFICATION Spec
INVARIANT IndexSurvivesRestart
CHECK_DEADLOCK FALSE
