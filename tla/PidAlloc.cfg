\* Two slots, initproc's and one more, and a 3-bit int: nextpid passes
\* INT_MAX after a few allocations, successful or failed.
CONSTANTS
    NPROC = 2
    IntBits = 3
SPECIFICATION Spec
INVARIANT LivePidsDistinct
