-------------------------------- MODULE FileIO --------------------------------
(***************************************************************************)
(* file_read and file_write of src/unnamed/part_000 on one open file that  *)
(* several processes share, as fork and dup leave it.  Each read, and each *)
(* chunk of a write, runs under the inode's sleep-lock (ilock .. iunlock)  *)
(* and is one step; between two chunks of a write other processes run.    *)
(* readi and writei are not in src; their contracts are xv6's: both fail  *)
(* at an offset past the inode's size, readi reads up to the size, writei  *)
(* writes all it is given, growing the size, or fails past the largest     *)
(* file.                                                                   *)
(* The ghost wcount counts how often each byte of the file was written.    *)
(***************************************************************************)
EXTENDS Integers

CONSTANTS
    Procs,      \* processes sharing the file
    MaxFile,    \* MAXFILE * BSIZE: the largest offset writei accepts
    MaxChunk,   \* ((MAXOPBLOCKS - 4) / 2) * 512, file_write's max
    MaxWrite,   \* the largest n a call asks for
    None

VARIABLES
    readable, writable,  \* f->readable, f->writable
    off,                 \* f->off
    size,                \* f->ip->size
    wr,                  \* a process in file_write's loop: [n, i]
    pc,                  \* "run" or "panic"
    wcount               \* ghost: writes of each byte of the file

vars == <<readable, writable, off, size, wr, pc, wcount>>

Idle(p) == pc[p] = "run" /\ wr[p] = None

\* readi at offset o: -1 past the size, else up to n bytes below it.
readi(o, n) == IF o > size THEN -1 ELSE IF o + n > size THEN size - o ELSE n

\* writei at offset o: -1 past the size or the largest file, else all n.
writei(o, n) == IF o > size \/ o + n > MaxFile THEN -1 ELSE n

\* file_read: -1 on a file not readable; else readi at f->off, and f->off
\* advanced by a positive r.  A -1 from readi is returned as it is.
file_read(p) ==
    /\ Idle(p) /\ readable
    /\ \E n \in 1 .. MaxWrite :
         off' = IF readi(off, n) > 0 THEN off + readi(off, n) ELSE off
    /\ UNCHANGED <<readable, writable, size, wr, pc, wcount>>

\* file_write on a writable file: the loop starts with i = 0.
file_write(p) ==
    /\ Idle(p) /\ writable
    /\ \E n \in 1 .. MaxWrite : wr' = [wr EXCEPT ![p] = [n |-> n, i |-> 0]]
    /\ UNCHANGED <<readable, writable, off, size, pc, wcount>>

\* The next chunk of p's write, n1 = min(n - i, max), and writei's result.
Chunk(p) == IF wr[p].n - wr[p].i > MaxChunk THEN MaxChunk ELSE wr[p].n - wr[p].i
ChunkResult(p) == writei(off, Chunk(p))

\* The bytes [o, o + r) a chunk writes.
Written(o, r) == {b \in 0 .. (MaxFile - 1) : o <= b /\ b < o + r}

\* Mutant of file_write_chunk: f->off += r dropped.
file_write_chunk_nooff(p) ==
    /\ wr[p] # None
    /\ LET r == ChunkResult(p) IN
       /\ wcount' = [b \in DOMAIN wcount |->
                       IF b \in Written(off, r) THEN wcount[b] + 1 ELSE wcount[b]]
       /\ size' = IF r > 0 /\ off + r > size THEN off + r ELSE size
       /\ IF r < 0 \/ wr[p].i + r = wr[p].n THEN wr' = [wr EXCEPT ![p] = None]
          ELSE wr' = [wr EXCEPT ![p].i = @ + r]
    /\ UNCHANGED <<readable, writable, off, pc>>

\* One pass of file_write's loop: writei at f->off under ilock, f->off
\* advanced by a positive r; r < 0 leaves the loop (return -1), a short r
\* panics, i reaching n leaves it (return n).
file_write_chunk(p) ==
    /\ wr[p] # None
    /\ LET r == ChunkResult(p) IN
       /\ off' = IF r > 0 THEN off + r ELSE off
       /\ size' = IF r > 0 /\ off + r > size THEN off + r ELSE size
       /\ wcount' = [b \in DOMAIN wcount |->
                       IF b \in Written(off, r) THEN wcount[b] + 1 ELSE wcount[b]]
       /\ IF r >= 0 /\ r # Chunk(p)
          THEN pc' = [pc EXCEPT ![p] = "panic"] /\ UNCHANGED wr
          ELSE /\ wr' = [wr EXCEPT ![p] =
                           IF r < 0 \/ wr[p].i + r = wr[p].n THEN None
                           ELSE [@ EXCEPT !.i = @ + r]]
               /\ UNCHANGED pc
    /\ UNCHANGED <<readable, writable>>

\* The file was opened, with any mode, at offset 0.
Init ==
    /\ \E mode \in {<<TRUE, FALSE>>, <<FALSE, TRUE>>, <<TRUE, TRUE>>} :
         readable = mode[1] /\ writable = mode[2]
    /\ off = 0
    /\ size = 0
    /\ wr = [p \in Procs |-> None]
    /\ pc = [p \in Procs |-> "run"]
    /\ wcount = [b \in 0 .. (MaxFile - 1) |-> 0]

Next == \E p \in Procs : file_read(p) \/ file_write(p) \/ file_write_chunk(p)

Spec == Init /\ [][Next]_vars

-----------------------------------------------------------------------------
\* However the chunks of processes sharing the file interleave, no byte
\* of it is written twice through the shared offset: each chunk writes at
\* f->off and moves f->off past what it wrote, under the inode lock.
NoByteWrittenTwice == \A b \in DOMAIN wcount : wcount[b] <= 1

\* A file_write that returns -1 has written nothing: what file_write's
\* panic on a short chunk asserts of one chunk, asked of the whole call.
FailedWriteWroteNothing ==
    [][\A p \in Procs :
         (wr[p] # None /\ wr'[p] = None /\ ChunkResult(p) < 0) => wr[p].i = 0]_vars
=============================================================================
