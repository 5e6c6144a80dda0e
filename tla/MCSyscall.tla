------------------------------ MODULE MCSyscall ------------------------------
EXTENDS Syscall, TLC

\* A dispatch table with one empty slot: 0 brk, 1 clone, 2 wait4,
\* 3 yield, 4 exit, 5 exec, 6 empty, 7 another handler.
MCTable == (0 :> "brk") @@ (1 :> "clone") @@ (2 :> "wait4") @@ (3 :> "yield")
           @@ (4 :> "exit") @@ (5 :> "exec") @@ (6 :> NoHandler) @@ (7 :> "other")
\* x1 values: small sizes, 4 and 8 (positive 64-bit values that read as a
\* negative and as a zero int, like 2^31 and 2^32 in the code), 17 (SIGCHLD),
\* and -2, -1 as uint64_t.
MCArgs == {0, 1, 3, 4, 8, 17, 62, 63}
=============================================================================
