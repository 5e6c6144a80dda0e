\* 6-bit uint64_t, 3-bit int (the same 2:1 ratio), 4 bytes of memory;
\* x1 takes the boundary values of MCArgs, so truncation and wrap both occur.
CONSTANTS
    AddrBits = 6
    IntBits = 3
    MemMax = 4
    NSys = 8
    Table <- MCTable
    NoHandler = NoHandler
    ChildPid = 2
    Args <- MCArgs
SPECIFICATION Spec
\* After sys_exit the modelled process never runs again.
CHECK_DEADLOCK FALSE
INVARIANT SzMatchesMapping
