------------------------------ MODULE OpenFiles ------------------------------
(***************************************************************************)
(* What the file table promises the processes above it, with no slots and *)
(* no reference counts: each process has descriptors, each open one names *)
(* an inode, and only the process's own open, dup, close, fork and exit    *)
(* change them.  open and dup take the lowest free descriptor; fork gives  *)
(* the child the parent's descriptors and cwd; an exiting process closes   *)
(* its descriptors, lowest first, then drops its cwd and is gone.          *)
(* FileTable.tla implements this specification (see FileTableAbs there).  *)
(***************************************************************************)
EXTENDS Integers

CONSTANTS Procs, InitProc, NOFILE, Inodes, NoInode

Fds == 1 .. NOFILE

VARIABLES
    desc,   \* desc[p][fd]: the inode descriptor fd of p names, or NoInode
    cwd,    \* the current directory of p, or NoInode
    st      \* "run", "exit" (closing its descriptors) or "dead"

vars == <<desc, cwd, st>>

Free(p) == {fd \in Fds : desc[p][fd] = NoInode}
Lowest(S) == CHOOSE fd \in S : \A e \in S : fd <= e

Open(p) ==
    /\ st[p] = "run" /\ Free(p) # {}
    /\ \E i \in Inodes : desc' = [desc EXCEPT ![p][Lowest(Free(p))] = i]
    /\ UNCHANGED <<cwd, st>>

Dup(p) ==
    /\ st[p] = "run" /\ Free(p) # {}
    /\ \E fd \in Fds \ Free(p) : desc' = [desc EXCEPT ![p][Lowest(Free(p))] = desc[p][fd]]
    /\ UNCHANGED <<cwd, st>>

Close(p) ==
    /\ st[p] = "run"
    /\ \E fd \in Fds \ Free(p) : desc' = [desc EXCEPT ![p][fd] = NoInode]
    /\ UNCHANGED <<cwd, st>>

Fork(p) ==
    /\ st[p] = "run"
    /\ \E q \in Procs :
         /\ st[q] = "dead"
         /\ desc' = [desc EXCEPT ![q] = desc[p]]
         /\ cwd' = [cwd EXCEPT ![q] = cwd[p]]
         /\ st' = [st EXCEPT ![q] = "run"]

Exit(p) ==
    /\ st[p] = "run" /\ p # InitProc
    /\ st' = [st EXCEPT ![p] = "exit"]
    /\ UNCHANGED <<desc, cwd>>

ExitClose(p) ==
    /\ st[p] = "exit" /\ Free(p) # Fds
    /\ desc' = [desc EXCEPT ![p][Lowest(Fds \ Free(p))] = NoInode]
    /\ UNCHANGED <<cwd, st>>

ExitDone(p) ==
    /\ st[p] = "exit" /\ Free(p) = Fds
    /\ cwd' = [cwd EXCEPT ![p] = NoInode]
    /\ st' = [st EXCEPT ![p] = "dead"]
    /\ UNCHANGED desc

Init ==
    /\ desc = [p \in Procs |-> [fd \in Fds |-> NoInode]]
    /\ \E root \in Inodes : cwd = [p \in Procs |-> IF p = InitProc THEN root ELSE NoInode]
    /\ st = [p \in Procs |-> IF p = InitProc THEN "run" ELSE "dead"]

Next ==
    \E p \in Procs :
        Open(p) \/ Dup(p) \/ Close(p) \/ Fork(p) \/ Exit(p) \/ ExitClose(p) \/ ExitDone(p)

\* A process that has begun to exit finishes.
Spec == Init /\ [][Next]_vars /\ \A p \in Procs : WF_vars(ExitClose(p) \/ ExitDone(p))
=============================================================================
