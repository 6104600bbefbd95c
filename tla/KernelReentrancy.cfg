CONSTANTS
    Tasks = {t1}
    InitThread = init
    NoThread = none
    MaxFrames = 4
SPECIFICATION Spec
INVARIANT NoReentrancy
