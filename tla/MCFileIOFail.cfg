\* Two processes share the file; it holds 3 bytes, written one byte per
\* chunk, by calls of up to 2 bytes: chunks of two writes interleave, and
\* a write can fail at its second chunk.  No state is final (read and
\* write stay possible), so deadlock is checked.
CONSTANTS
    Procs = {p1, p2}
    MaxFile = 3
    MaxChunk = 1
    MaxWrite = 2
    None = None
SPECIFICATION Spec
PROPERTY FailedWriteWroteNothing
