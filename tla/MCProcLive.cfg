CONSTANTS
    c1 = c1
    c2 = c2
    CPUs <- MCOneCPU
    NPROC = 3
    MaxPid = 4
    NoCpu = NoCpu
    NULL = NULL
    EvChan = EvChan

SPECIFICATION Spec

PROPERTY RunnableRuns
