------------------------------- MODULE MCFiles -------------------------------
(***************************************************************************)
(* The file table (FileTable) and the shared offset (FileIO) checked in    *)
(* one run.  Each behaviour is one of them: layer names which, and the     *)
(* other module's variables keep an initial value.  FileIO's pc is     *)
(* ioPc here.  No symmetry is declared: Refines has a liveness part.       *)
(***************************************************************************)
EXTENDS Integers

CONSTANTS
    p1, p2, p3, i1, i2,
    InitProc, NFILE, NOFILE, NoFile, NoInode, None,   \* FileTable
    MaxFile, MaxChunk, MaxWrite                       \* FileIO

VARIABLES
    layer,
    ref, ftype, fip, iref, ofile, cwd, pc, pend,              \* FileTable
    readable, writable, off, size, wr, ioPc, wcount           \* FileIO

ftVars == <<ref, ftype, fip, iref, ofile, cwd, pc, pend>>
ioVars == <<readable, writable, off, size, wr, ioPc, wcount>>
vars == <<layer, ftVars, ioVars>>

FT == INSTANCE FileTable WITH Procs <- {p1, p2, p3}, Inodes <- {i1, i2}
IO == INSTANCE FileIO WITH Procs <- {p1, p2}, pc <- ioPc

\* Each module's initial choices are made only on its own layer: the
\* other module starts from one of its initial states.
Init ==
    /\ FT!Init /\ IO!Init /\ layer \in {"table", "io"}
    /\ layer = "table" => readable /\ writable
    /\ layer = "io" => cwd[InitProc] = i1

Next ==
    \/ layer = "table" /\ FT!Next /\ UNCHANGED <<layer, ioVars>>
    \/ layer = "io" /\ IO!Next /\ UNCHANGED <<layer, ftVars>>

\* FileTable's fairness; FileIO has none.
Spec ==
    /\ Init /\ [][Next]_vars
    /\ \A p \in {p1, p2, p3} :
         WF_ftVars(FT!exit_close(p) \/ FT!file_close_iput(p) \/ FT!exit_cwd(p))

-----------------------------------------------------------------------------
\* f->ref counts exactly the descriptors naming the slot (FileTable).
RefCounts == FT!RefCounts

\* An inode's count is its open slots, pending iputs and cwds (FileTable).
InodeRefs == FT!InodeRefs

\* The file table implements OpenFiles (FileTable).
Refines == FT!Refines

\* No byte of a shared file is written twice through the shared offset
\* (FileIO).
NoByteWrittenTwice == IO!NoByteWrittenTwice
=============================================================================
