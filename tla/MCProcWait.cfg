CONSTANTS
    c1 = c1
    c2 = c2
    CPUs <- MCCPUs
    NPROC = 2
    MaxPid = 2
    NoCpu = NoCpu
    NULL = NULL
    EvChan = EvChan

SPECIFICATION Spec

PROPERTY WaitWakesOnZombie
