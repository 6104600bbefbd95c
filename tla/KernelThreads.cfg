\* Two tasks and the init thread, stacks three frames deep.
CONSTANTS
    Tasks = {t1, t2}
    InitThread = init
    NoThread = none
    MaxFrames = 3
SPECIFICATION FairSpec
INVARIANTS
    ThreadPlaces
PROPERTIES
    ImplementsRoundRobin
    EveryThreadRuns
    InterruptsComeBack
