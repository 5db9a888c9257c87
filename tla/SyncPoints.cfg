SPECIFICATION FairSpec

CONSTANTS
    N = 3
    Labels = {1}
    Requests = {{}, {1, 2}}
    Initial = 2
    Failing = {2}
    MaxChanges = 2
    MaxRejected = 5

INVARIANTS
    BarrierWaits
    RestoreReproduces
    NoOvertaking

PROPERTIES
    ImplementsBarrier
    PointsRetire
