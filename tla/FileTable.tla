------------------------------ MODULE FileTable ------------------------------
(***************************************************************************)
(* The file table of src/unnamed/part_000 (file.c) with the process code   *)
(* that shares its entries: fork's file_dup loop and exit's file_close     *)
(* loop and iput of the cwd in src/kern/syscall.c.  The system calls that  *)
(* open, dup and close a descriptor (sys_openat, sys_dup, sys_close) and   *)
(* the inode layer (namei, idup, iput, readi, writei) are not in src; they *)
(* are modelled from their contracts.                                      *)
(*                                                                         *)
(* Every section of code between acquire(&ftable.lock) and its release is  *)
(* one step; file_close is two: the critical section that drops the        *)
(* reference and clears the slot, then, with the lock released, the iput   *)
(* of the inode it copied out of the slot.  file_read and file_write, which *)
(* touch no reference count, are in FileIO.tla.                            *)
(***************************************************************************)
EXTENDS Integers, FiniteSets

CONSTANTS
    Procs,      \* process slots
    InitProc,   \* initproc, which never exits
    NFILE,      \* entries of ftable.file
    NOFILE,     \* entries of p->ofile
    Inodes,     \* inodes a path can name
    NoFile, NoInode, None

ASSUME InitProc \in Procs

Files == 1 .. NFILE
Fds   == 1 .. NOFILE

VARIABLES
    ref, ftype, fip,  \* struct file, per slot (the offset and modes: FileIO)
    iref,     \* the inode layer's reference count of each inode
    ofile,    \* p->ofile
    cwd,      \* p->cwd
    pc,       \* "dead", "run", or "exit" while in exit's loops
    pend      \* file_close after its critical section: [fd, f, ip, type]

fileVars == <<ref, ftype, fip>>
vars == <<fileVars, iref, ofile, cwd, pc, pend>>

\* The process is between system calls.
Idle(p) == pc[p] = "run" /\ pend[p] = None

\* fdalloc: the lowest free descriptor (sys_openat, sys_dup).
FreeFd(p) == {fd \in Fds : ofile[p][fd] = NoFile}
LowestFd(S) == CHOOSE fd \in S : \A e \in S : fd <= e

\* Mutant of file_alloc: the !f->ref test dropped, so the scan stops at
\* the first slot.
file_alloc_any == 1

\* file_alloc: the first slot with no reference, or NoFile.
file_alloc ==
    LET free == {f \in Files : ref[f] = 0}
    IN  IF free = {} THEN NoFile ELSE CHOOSE f \in free : \A g \in free : f <= g

\* file_close's critical section on descriptor fd of p: drop a reference;
\* the last one copies the slot, clears ref and type and leaves the iput
\* to file_close_iput.  The caller's p->ofile[fd] = 0 is done here for a
\* reference that is not the last, and after the iput for the last.
FileClose(p, fd) ==
    LET f == ofile[p][fd] IN
    IF ref[f] < 1
    THEN /\ pc' = [pc EXCEPT ![p] = "panic"]
         /\ UNCHANGED <<fileVars, iref, ofile, cwd, pend>>
    ELSE
    /\ ref' = [ref EXCEPT ![f] = @ - 1]
    /\ IF ref[f] > 1
       THEN /\ ofile' = [ofile EXCEPT ![p][fd] = NoFile]
            /\ UNCHANGED <<ftype, pend>>
       ELSE /\ ftype' = [ftype EXCEPT ![f] = "NONE"]
            /\ pend' = [pend EXCEPT ![p] = [fd |-> fd, f |-> f, ip |-> fip[f],
                                              type |-> ftype[f]]]
            /\ UNCHANGED ofile
    /\ UNCHANGED <<fip, iref, cwd, pc>>

\* sys_openat: namei takes a reference to the inode, file_alloc a slot,
\* fdalloc the lowest descriptor.  With no free slot nothing changes.
sys_openat(p) ==
    /\ Idle(p) /\ FreeFd(p) # {} /\ file_alloc # NoFile
    /\ \E i \in Inodes :
         LET f == file_alloc IN
         /\ ref' = [ref EXCEPT ![f] = 1]
         /\ ftype' = [ftype EXCEPT ![f] = "INODE"]
         /\ fip' = [fip EXCEPT ![f] = i]
         /\ iref' = [iref EXCEPT ![i] = @ + 1]
         /\ ofile' = [ofile EXCEPT ![p][LowestFd(FreeFd(p))] = f]
    /\ UNCHANGED <<cwd, pc, pend>>

\* sys_dup: file_dup into the lowest free descriptor; file_dup panics on
\* a slot with no reference.
sys_dup(p) ==
    /\ Idle(p) /\ FreeFd(p) # {}
    /\ \E fd \in Fds :
         LET f == ofile[p][fd] IN
         /\ f # NoFile
         /\ IF ref[f] < 1
            THEN pc' = [pc EXCEPT ![p] = "panic"] /\ UNCHANGED <<ref, ofile>>
            ELSE /\ ref' = [ref EXCEPT ![f] = @ + 1]
                 /\ ofile' = [ofile EXCEPT ![p][LowestFd(FreeFd(p))] = f]
                 /\ UNCHANGED pc
    /\ UNCHANGED <<ftype, fip, iref, cwd, pend>>

\* sys_close: file_close on an open descriptor.
sys_close(p) ==
    /\ Idle(p)
    /\ \E fd \in Fds : ofile[p][fd] # NoFile /\ FileClose(p, fd)

\* Mutant of file_close_iput: iput(f->ip) read from the slot after the
\* lock was released, instead of from the copy ff.
file_close_iput_reread(p) ==
    /\ pend[p] # None
    /\ iref' = [iref EXCEPT ![fip[pend[p].f]] = @ - 1]
    /\ ofile' = [ofile EXCEPT ![p][pend[p].fd] = NoFile]
    /\ pend' = [pend EXCEPT ![p] = None]
    /\ UNCHANGED <<fileVars, cwd, pc>>

\* file_close after release(&ftable.lock): iput(ff.ip) of the copy (any
\* type but FD_INODE panics), then the caller clears the descriptor.
file_close_iput(p) ==
    /\ pend[p] # None
    /\ IF pend[p].type # "INODE"
       THEN pc' = [pc EXCEPT ![p] = "panic"] /\ UNCHANGED <<iref, ofile, pend>>
       ELSE /\ iref' = [iref EXCEPT ![pend[p].ip] = @ - 1]
            /\ ofile' = [ofile EXCEPT ![p][pend[p].fd] = NoFile]
            /\ pend' = [pend EXCEPT ![p] = None]
            /\ UNCHANGED pc
    /\ UNCHANGED <<fileVars, cwd>>

\* fork's loop: file_dup of every open descriptor into the child, and
\* idup of the cwd.  Each file_dup is its own critical section, but the
\* child cannot run and the parent, which is forking, closes nothing, so
\* no slot it names can drop to zero meanwhile: the loop is one step.
fork_files(p) ==
    /\ Idle(p)
    /\ \E q \in Procs :
         /\ pc[q] = "dead"
         /\ ref' = [f \in Files |->
                      ref[f] + Cardinality({fd \in Fds : ofile[p][fd] = f})]
         /\ ofile' = [ofile EXCEPT ![q] = ofile[p]]
         /\ cwd' = [cwd EXCEPT ![q] = cwd[p]]
         /\ iref' = [iref EXCEPT ![cwd[p]] = @ + 1]
         /\ pc' = [pc EXCEPT ![q] = "run"]
    /\ UNCHANGED <<ftype, fip, pend>>

\* exit(): initproc panics; any other process enters its close loop.
sys_exit(p) ==
    /\ Idle(p) /\ p # InitProc
    /\ pc' = [pc EXCEPT ![p] = "exit"]
    /\ UNCHANGED <<fileVars, iref, ofile, cwd, pend>>

\* exit's loop: file_close of the lowest open descriptor.
exit_close(p) ==
    /\ pc[p] = "exit" /\ pend[p] = None
    /\ \E fd \in Fds :
         /\ ofile[p][fd] # NoFile
         /\ \A e \in Fds : e < fd => ofile[p][e] = NoFile
         /\ FileClose(p, fd)

\* Mutant of exit_cwd: the cwd dropped before the close loop has ended.
exit_cwd_early(p) ==
    /\ pc[p] = "exit" /\ pend[p] = None
    /\ iref' = [iref EXCEPT ![cwd[p]] = @ - 1]
    /\ cwd' = [cwd EXCEPT ![p] = NoInode]
    /\ pc' = [pc EXCEPT ![p] = "dead"]
    /\ UNCHANGED <<fileVars, ofile, pend>>

\* exit after its loop: iput(p->cwd), p->cwd = 0; the rest of exit and
\* the reaping by wait are Proc's, and leave the slot free for fork.
exit_cwd(p) ==
    /\ pc[p] = "exit" /\ pend[p] = None
    /\ \A fd \in Fds : ofile[p][fd] = NoFile
    /\ iref' = [iref EXCEPT ![cwd[p]] = @ - 1]
    /\ cwd' = [cwd EXCEPT ![p] = NoInode]
    /\ pc' = [pc EXCEPT ![p] = "dead"]
    /\ UNCHANGED <<fileVars, ofile, pend>>

Init ==
    /\ ref = [f \in Files |-> 0]
    /\ ftype = [f \in Files |-> "NONE"]
    /\ fip = [f \in Files |-> NoInode]
    \* user_init gives initproc the root directory as its cwd.
    /\ \E root \in Inodes :
         /\ iref = [i \in Inodes |-> IF i = root THEN 1 ELSE 0]
         /\ cwd = [p \in Procs |-> IF p = InitProc THEN root ELSE NoInode]
    /\ ofile = [p \in Procs |-> [fd \in Fds |-> NoFile]]
    /\ pc = [p \in Procs |-> IF p = InitProc THEN "run" ELSE "dead"]
    /\ pend = [p \in Procs |-> None]

Next ==
    \E p \in Procs :
        \/ sys_openat(p) \/ sys_dup(p) \/ sys_close(p) \/ file_close_iput(p)
        \/ fork_files(p) \/ sys_exit(p) \/ exit_close(p) \/ exit_cwd(p)

Spec == Init /\ [][Next]_vars

\* An exiting process keeps running its loops, and a close finishes its
\* iput: each is a path through code that takes only ftable.lock and the
\* inode layer's locks, which their holders release.
FairSpec ==
    Spec /\ \A p \in Procs : WF_vars(exit_close(p) \/ file_close_iput(p) \/ exit_cwd(p))

-----------------------------------------------------------------------------
\* The descriptors that hold a reference to slot f: every ofile entry that
\* names it, except one whose last reference file_close already dropped.
Holders(f) ==
    {<<p, fd>> \in Procs \X Fds :
        ofile[p][fd] = f /\ ~(pend[p] # None /\ pend[p].fd = fd)}

\* f->ref counts exactly the descriptors naming the slot, across any
\* interleaving of opens, dups, forks, closes and exits: no slot is
\* handed out twice, and none is freed while a descriptor still names it.
RefCounts == \A f \in Files : ref[f] = Cardinality(Holders(f))

\* An inode's reference count is the number of open slots naming it, plus
\* the file_closes between their unlock and their iput, plus the cwds: the
\* iput after the lock is released puts the inode the slot held, even
\* when another process has reused the slot in between.
InodeRefs ==
    \A i \in Inodes :
        iref[i] = Cardinality({f \in Files : ref[f] > 0 /\ fip[f] = i})
                  + Cardinality({p \in Procs : pend[p] # None /\ pend[p].ip = i})
                  + Cardinality({p \in Procs : cwd[p] = i})

-----------------------------------------------------------------------------
(* Refinement: the file table implements OpenFiles.  A descriptor names   *)
(* the inode of its slot; one whose last reference file_close has already *)
(* dropped is closed, though the caller clears it only after the iput.    *)

AbsDesc ==
    [p \in Procs |-> [fd \in Fds |->
        IF ofile[p][fd] = NoFile \/ (pend[p] # None /\ pend[p].fd = fd) THEN NoInode
        ELSE fip[ofile[p][fd]]]]

FileTableAbs == INSTANCE OpenFiles WITH desc <- AbsDesc, st <- pc

\* Through slots shared by fork and dup, reference counts and the close
\* split around the unlock, each process's descriptors change only by its
\* own open, dup, close, fork and exit, as OpenFiles says, and an exiting
\* process closes them all and dies.
Refines == FileTableAbs!Spec
=============================================================================
