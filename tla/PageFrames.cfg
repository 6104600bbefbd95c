\* Frames 0 and 1 hold the kernel image, frame 2 a module, frame 6 is reserved
\* and frame 9 is beyond the kernel's region: the pool is 3, 4, 5 and 7.
CONSTANTS
    NUMBER_OF_PAGE_FRAMES = 8
    PAGE_SIZE = 2
    MemoryMap = {0, 1, 2, 3, 4, 5, 7, 9}
    break_address_ = 3
    Modules <- MCModules
    Lengths = {4}
    Controllers = {c1, c2, c3}
SPECIFICATION Spec
SYMMETRY ControllerSymmetry
INVARIANTS
    CountIsFree
    FramesConserved
