CONSTANTS
    rate = 2
    max = 3
    burst = 4
    Counts = {0, 1, 2, 3, 4}
    Horizon = 7
SPECIFICATION Spec
INVARIANTS TypeOK WindowBound LifetimeBound SteadyClientServed
