------------------------------ MODULE PidAlloc ------------------------------
(***************************************************************************)
(* PID minting in src/kern/syscall.c: proc_alloc() takes the first UNUSED  *)
(* slot and gives it pid_next(), nextpid++ under pid_lock, before kalloc() *)
(* of the kernel stack, which may fail and proc_free() the slot again; a   *)
(* process that exits is reaped by its parent's wait(), whose proc_free()  *)
(* sets the pid to 0.  The scheduling, locks and sleeps around these steps *)
(* are in Proc.tla, where every fork is bounded; here nothing is, and      *)
(* nextpid is an int of IntBits bits.  Signed overflow is undefined in C;  *)
(* the AArch64 build increments with an add that wraps, as the model does.*)
(***************************************************************************)
EXTENDS Integers

CONSTANTS
    NPROC,      \* slots of ptable.proc
    IntBits     \* width of int, scaled

ASSUME NPROC >= 2 /\ IntBits >= 2

Slots == 1 .. NPROC

VARIABLES
    state,      \* "UNUSED" or "USED" (EMBRYO and later)
    pid,        \* p->pid
    nextpid     \* nextpid

vars == <<state, pid, nextpid>>

\* An int: the low IntBits bits, read as signed.
ToInt(x) ==
    LET v == x % (2^IntBits)
    IN  IF v >= 2^(IntBits - 1) THEN v - 2^IntBits ELSE v

\* The first UNUSED slot of proc_alloc()'s scan.
FirstUnused == CHOOSE s \in Slots :
                   state[s] = "UNUSED" /\ \A t \in 1 .. (s - 1) : state[t] # "UNUSED"

\* proc_free(p), as far as the pid goes.
proc_free(s) ==
    /\ state' = [state EXCEPT ![s] = "UNUSED"]
    /\ pid' = [pid EXCEPT ![s] = 0]

\* proc_alloc() with a slot free: p->pid = pid_next(); then kalloc()
\* either gives the kernel stack (the slot is the new process) or fails,
\* and proc_free() puts the slot back with the pid spent.  A failing
\* uvm_copy in fork() frees the slot the same way.
proc_alloc ==
    LET s == FirstUnused IN
    /\ \E t \in Slots : state[t] = "UNUSED"
    /\ nextpid' = ToInt(nextpid + 1)
    /\ \/ /\ state' = [state EXCEPT ![s] = "USED"]
          /\ pid' = [pid EXCEPT ![s] = nextpid]
       \/ proc_free(s)

\* A process other than initproc exits and its parent's wait() reaps it.
reap ==
    /\ \E s \in Slots \ {1} : state[s] = "USED" /\ proc_free(s)
    /\ UNCHANGED nextpid

\* After user_init(): initproc holds slot 1 with pid 1.
Init ==
    /\ state = [s \in Slots |-> IF s = 1 THEN "USED" ELSE "UNUSED"]
    /\ pid = [s \in Slots |-> IF s = 1 THEN 1 ELSE 0]
    /\ nextpid = 2

Next == proc_alloc \/ reap

Spec == Init /\ [][Next]_vars

-----------------------------------------------------------------------------
\* A live process has a positive pid that no other live process has, as
\* the pid field's "monotonically increasing positive integer; 0 means
\* slot is free" promises: fork()'s return to the parent is then neither
\* 0, what the child gets, nor -1, failure, and the pid wait() returns
\* names one child.
LivePidsDistinct ==
    \A s, t \in Slots :
        state[s] = "USED" =>
            /\ pid[s] > 0
            /\ (s # t /\ state[t] = "USED" => pid[s] # pid[t])
=============================================================================
