\* One task and the init thread, and stacks four frames deep: an interrupt may
\* be taken inside the handler of an interrupt that was taken inside a guard.
CONSTANTS
    Tasks = {t1}
    InitThread = init
    NoThread = none
    MaxFrames = 4
SPECIFICATION Spec
INVARIANTS
    CountIsGuards
    MaskedWhileGuarded
    EnabledWhenFree
    ReentrancyOnlyIfTorn
    VanishFindsThread
