\* FileTable: three processes over two file slots and two descriptors
\* each, two inodes: enough for a slot shared by fork and dup across
\* processes, a full table, a slot freed and reused by another process
\* while the closer is still between its unlock and its iput, and an exit
\* with both descriptors open.
\* FileIO: two processes share a file of 3 bytes, written one byte per
\* chunk, by calls of up to 2 bytes: chunks of two writes interleave, and
\* a write can fail at its second chunk.
CONSTANTS
    p1 = p1
    p2 = p2
    p3 = p3
    i1 = i1
    i2 = i2
    NoFile = NoFile
    NoInode = NoInode
    None = None
    InitProc = p1
    NFILE = 2
    NOFILE = 2
    MaxFile = 3
    MaxChunk = 1
    MaxWrite = 2
SPECIFICATION Spec
INVARIANTS RefCounts InodeRefs NoByteWrittenTwice
PROPERTY Refines
