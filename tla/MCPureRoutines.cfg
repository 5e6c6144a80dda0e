\* SyscallArgs: 4-bit addresses, words of two 2-bit bytes, 6 bytes of user
\* memory, argv of 2 entries: words that wrap the address space, strings
\* that run off the end of memory, argv arrays one entry too long.
\* Strings: 5 bytes over 3 byte values, buffers overlapping by any amount;
\* int is 3 bits for memset's int m = n.
\* Strtol: 4 characters over NUL, tab, blank, +, -, 0, 8, f, x and G in
\* bases 0, 8, 10 and 16; long is 8 bits, so "888", "0xff" and "ffff"
\* overflow it.
CONSTANTS
    AddrBits = 4
    ByteBits = 2
    WordBytes = 2
    MemSize = 6
    MAXARG = 2
    M = 5
    NChar = 3
    IntBits = 3
    L = 4
    LongBits = 8
    Alphabet = {0, 9, 32, 43, 45, 48, 56, 102, 120, 71}
    Bases = {0, 8, 10, 16}
SPECIFICATION Spec
INVARIANTS
    FetchIntMatchesRef
    ArgptrMatchesRef
    ExecArgvMatchesRef
    MemmoveMatchesRef
    CopiesMatchRef
    ComparesMatchRef
    SearchesMatchRef
    MemsetFillsN
    StrtolMatchesRef
