------------------------------ MODULE ProcTree ------------------------------
(***************************************************************************)
(* What the process lifecycle of src/kern/syscall.c promises, with no      *)
(* CPUs, locks, kernel stacks or scheduling: slots that are free, alive or *)
(* a zombie, the parent of each, and a pid that no other process in the   *)
(* tree holds.  Boot makes the first slot initproc; an alive process forks *)
(* a child into a free slot; a process other than initproc exits, handing *)
(* its children to initproc, and stays a zombie until its parent's wait()  *)
(* frees the slot.  Proc.tla implements this specification (ProcTreeAbs). *)
(***************************************************************************)
EXTENDS Integers

CONSTANTS NPROC, MaxPid, NULL

Slots == 1 .. NPROC
Pids == 1 .. (MaxPid + 1)

VARIABLES
    life,   \* "free", "alive" or "zombie"
    par,    \* the parent of the slot, or NULL
    apid,   \* the pid of the process in the slot, 0 for a free one
    root    \* initproc, or NULL before boot

vars == <<life, par, apid, root>>

InTree(s) == life[s] # "free"

\* A pid no process of the tree has.
FreshPid(n) == \A t \in Slots : InTree(t) => apid[t] # n

Boot ==
    /\ root = NULL
    /\ \E s \in Slots, n \in Pids :
         /\ root' = s
         /\ life' = [life EXCEPT ![s] = "alive"]
         /\ apid' = [apid EXCEPT ![s] = n]
    /\ UNCHANGED par

Fork(p) ==
    /\ life[p] = "alive"
    /\ \E s \in Slots, n \in Pids :
         /\ life[s] = "free" /\ FreshPid(n)
         /\ life' = [life EXCEPT ![s] = "alive"]
         /\ par' = [par EXCEPT ![s] = p]
         /\ apid' = [apid EXCEPT ![s] = n]
    /\ UNCHANGED root

Exit(p) ==
    /\ life[p] = "alive" /\ p # root
    /\ life' = [life EXCEPT ![p] = "zombie"]
    /\ par' = [s \in Slots |-> IF par[s] = p THEN root ELSE par[s]]
    /\ UNCHANGED <<apid, root>>

Wait(p) ==
    /\ life[p] = "alive"
    /\ \E z \in Slots :
         /\ par[z] = p /\ life[z] = "zombie"
         /\ life' = [life EXCEPT ![z] = "free"]
         /\ par' = [par EXCEPT ![z] = NULL]
         /\ apid' = [apid EXCEPT ![z] = 0]
    /\ UNCHANGED root

Init ==
    /\ life = [s \in Slots |-> "free"]
    /\ par = [s \in Slots |-> NULL]
    /\ apid = [s \in Slots |-> 0]
    /\ root = NULL

Next == Boot \/ \E p \in Slots : Fork(p) \/ Exit(p) \/ Wait(p)

Spec == Init /\ [][Next]_vars
=============================================================================
