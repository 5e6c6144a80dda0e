-------------------------------- MODULE Proc --------------------------------
(***************************************************************************)
(* The process table of the kernel (proc.c, kept in src/kern/syscall.c    *)
(* from line 138): the per-CPU round-robin scheduler, the sched()/swtch() *)
(* hand-off of p->lock between a process and its CPU's scheduler, yield,  *)
(* fork, exit, wait, reparent, sleep and wakeup.                          *)
(*                                                                         *)
(* The thread of control is the CPU.  pc[c] is where CPU c is: in its     *)
(* scheduler loop, or executing the kernel code of the process its        *)
(* scheduler switched to (c->proc, here CurProc(c)).  A process that is   *)
(* switched out keeps its resume point in ctx[s] (the saved x30 of its    *)
(* context).  A spinlock is the CPU holding it, or NoCpu.  No in-kernel   *)
(* preemption exists (spinlocks disable interrupts and the core only      *)
(* gives up the CPU in sched()), so the locals of a kernel path that does *)
(* not sleep are per-CPU; those that survive sched() are per-slot.        *)
(***************************************************************************)
EXTENDS Naturals, FiniteSets

CONSTANTS
    CPUs,       \* the CPUs, each running scheduler()
    NPROC,      \* number of slots in ptable.proc
    MaxPid,     \* bound: fork is only started while nextpid <= MaxPid
    NoCpu,      \* holder of a free spinlock
    NULL,       \* the null pointer (parent, chan, initproc)
    EvChan      \* the channel of a kernel event another subsystem sleeps on

Slots == 1..NPROC

ASSUME /\ NPROC \in Nat \ {0}
       /\ MaxPid \in Nat \ {0}
       /\ NoCpu \notin CPUs
       /\ NULL \notin Slots /\ EvChan \notin Slots /\ NULL # EvChan

States == {"UNUSED", "EMBRYO", "SLEEPING", "RUNNABLE", "RUNNING", "ZOMBIE"}

\* The return points a saved context can hold: forkret for a fresh slot
\* (proc_alloc sets context->x30), otherwise the caller of sched().
Resumes == {"forkret", "yield", "sleep", "exit"}

\* The two locks a process hands to sleep(): wait_lock (from wait) and the
\* lock of the kernel event.
SleepLocks == {"wait_lock", "ev_lock"}

\* Program counters at which a CPU executes on the kernel stack of the
\* process it switched to; "scan" and "swtch_ret" run on the scheduler's
\* own stack, "panic" is a halted CPU.
ProcPcs == {"forkret", "forkret_init", "user", "alloc", "fork_copy", "fork_parent",
            "fork_run", "exit", "exit_lock", "exit_zombie", "exit_release",
            "wait_acq", "wait_scan", "sleep", "sleep_chan", "sleep_ret",
            "sleep_reacq", "ev_check", "wakeup", "ev_release", "yield_ret",
            "yield_sched", "sleep_sched", "exit_sched"}
Pcs == ProcPcs \cup {"scan", "swtch_ret", "panic"}

VARIABLES
    state,      \* p->state
    pid,        \* p->pid (0 for a free slot)
    parent,     \* p->parent, a slot or NULL; guarded by wait_lock
    chan,       \* p->chan
    kstack,     \* p->kstack != NULL: the slot owns its kernel-stack page
    ctx,        \* where the saved context of the slot resumes
    slk,        \* the lk argument of the sleep() the slot is inside
    plock,      \* p->lock: the CPU holding it, or NoCpu
    waitLock,   \* wait_lock
    nextpid,    \* nextpid (pid_lock is folded into pid_next's one step)
    initproc,   \* initproc
    first,      \* forkret's static first
    fsinit,     \* times iinit()/initlog() have been started (history)
    pc,         \* where each CPU is
    sidx,       \* the scheduler's p: the slot scanned or switched to
    np,         \* fork's np: proc_alloc's p while it scans, then the child
    widx,       \* wakeup's p while it scans the table
    evLock,     \* the spinlock guarding the kernel event's condition
    cond        \* the kernel event's condition

\* The boot-time globals, and the kernel event's lock and condition.
bootVars == <<nextpid, initproc, first, fsinit>>
evVars == <<evLock, cond>>

vars == <<state, pid, parent, chan, kstack, ctx, slk, plock, waitLock,
          bootVars, pc, sidx, np, widx, evVars>>

-----------------------------------------------------------------------------
\* c->proc: the slot CPU c switched to, while it runs that slot's code.
CurProc(c) == IF pc[c] \in ProcPcs THEN sidx[c] ELSE NULL

Free(l) == l = NoCpu

\* The pc at which swtch() resumes a slot whose context returns to r.
ResumePc(r) == CASE r = "forkret" -> "forkret"
                 [] r = "yield"   -> "yield_ret"
                 [] r = "sleep"   -> "sleep_ret"
                 [] r = "exit"    -> "panic"   \* "exit: zombie returned!"

\* The channel sleep() is given by each caller: wait sleeps on its own
\* proc, the event waiter on the event's channel.
SleepChan(lk, p) == IF lk = "wait_lock" THEN p ELSE EvChan

\* Where the caller of sleep() continues once it holds lk again.
AfterSleep(lk) == IF lk = "wait_lock" THEN "wait_scan" ELSE "ev_check"

\* proc_free(p): release the kernel stack and page table, reset the slot.
proc_free(s) ==
    /\ chan' = [chan EXCEPT ![s] = NULL]
    /\ pid' = [pid EXCEPT ![s] = 0]
    /\ parent' = [parent EXCEPT ![s] = NULL]
    /\ kstack' = [kstack EXCEPT ![s] = FALSE]
    /\ state' = [state EXCEPT ![s] = "UNUSED"]

Goto(c, l) == pc' = [pc EXCEPT ![c] = l]

Release(c, s) == plock' = [plock EXCEPT ![s] = NoCpu]

-----------------------------------------------------------------------------
(* Boot.                                                                    *)

\* user_init(): proc_alloc() takes slot 1 (every slot is UNUSED at boot),
\* the slot gets its page table and trap frame, becomes RUNNABLE and is
\* released.  kalloc() and pgdir_init() do not fail at boot.
user_init ==
    /\ initproc = NULL
    /\ initproc' = 1
    /\ state' = [state EXCEPT ![1] = "RUNNABLE"]
    /\ pid' = [pid EXCEPT ![1] = nextpid]
    /\ nextpid' = nextpid + 1
    /\ kstack' = [kstack EXCEPT ![1] = TRUE]
    /\ ctx' = [ctx EXCEPT ![1] = "forkret"]
    /\ UNCHANGED <<parent, chan, slk, plock, waitLock, first, fsinit, pc,
                   sidx, np, widx, evVars>>

-----------------------------------------------------------------------------
(* scheduler(): one iteration of the loop over ptable for slot sidx[c].     *)

\* Mutant: the loop bound is off by one, p runs past the last slot.
NextSlot_overrun(s) == IF s = NPROC + 1 THEN 1 ELSE s + 1

\* Mutant: the scan restarts at the first slot.
NextSlot_restart(s) == 1

\* ++p in the for loop, which the while (1) around it starts over.
NextSlot(s) == (s % NPROC) + 1

\* Mutant: picks a RUNNABLE slot without acquire(&p->lock).
scheduler_pick_nolock(c) ==
    LET s == sidx[c] IN
    /\ pc[c] = "scan"
    /\ IF state[s] # "RUNNABLE"
         THEN /\ sidx' = [sidx EXCEPT ![c] = NextSlot(s)]
              /\ UNCHANGED <<state, plock, pc>>
         ELSE /\ state' = [state EXCEPT ![s] = "RUNNING"]
              /\ plock' = [plock EXCEPT ![s] = c]
              /\ Goto(c, ResumePc(ctx[s]))
              /\ UNCHANGED sidx
    /\ UNCHANGED <<pid, parent, chan, kstack, ctx, slk, waitLock, bootVars,
                   np, widx, evVars>>

\* acquire(&p->lock); skip a slot that is not RUNNABLE, otherwise set
\* c->proc, mark it RUNNING and swtch() into its saved context.
scheduler_pick(c) ==
    LET s == sidx[c] IN
    /\ pc[c] = "scan"
    /\ Free(plock[s])
    /\ IF state[s] # "RUNNABLE"
         THEN /\ sidx' = [sidx EXCEPT ![c] = NextSlot(s)]
              /\ UNCHANGED <<state, plock, pc>>
         ELSE /\ state' = [state EXCEPT ![s] = "RUNNING"]
              /\ plock' = [plock EXCEPT ![s] = c]
              /\ Goto(c, ResumePc(ctx[s]))
              /\ UNCHANGED sidx
    /\ UNCHANGED <<pid, parent, chan, kstack, ctx, slk, waitLock, bootVars,
                   np, widx, evVars>>

\* swtch() returned to the scheduler: c->proc = NULL, release(&p->lock).
scheduler_swtch_ret(c) ==
    LET s == sidx[c] IN
    /\ pc[c] = "swtch_ret"
    /\ Release(c, s)
    /\ sidx' = [sidx EXCEPT ![c] = NextSlot(s)]
    /\ Goto(c, "scan")
    /\ UNCHANGED <<state, pid, parent, chan, kstack, ctx, slk, waitLock,
                   bootVars, np, widx, evVars>>

\* sched(): panic unless the caller holds p->lock and p is no longer
\* RUNNING; then swtch(&p->context, c->scheduler).  The caller is named by
\* the pc it called from.
sched(c) ==
    LET p == CurProc(c)
        r == CASE pc[c] = "yield_sched" -> "yield"
               [] pc[c] = "sleep_sched" -> "sleep"
               [] pc[c] = "exit_sched"  -> "exit"
    IN
    /\ pc[c] \in {"yield_sched", "sleep_sched", "exit_sched"}
    /\ IF plock[p] # c \/ state[p] = "RUNNING"
         THEN /\ Goto(c, "panic")
              /\ UNCHANGED ctx
         ELSE /\ ctx' = [ctx EXCEPT ![p] = r]
              /\ Goto(c, "swtch_ret")
    /\ UNCHANGED <<state, pid, parent, chan, kstack, slk, plock, waitLock,
                   bootVars, sidx, np, widx, evVars>>

\* forkret(): release the p->lock the scheduler took and test the static
\* first, with no lock held; only the first process to get here sees it
\* set and initialises the file system before returning to user space.
forkret(c) ==
    /\ pc[c] = "forkret"
    /\ plock[CurProc(c)] = c
    /\ Release(c, CurProc(c))
    /\ Goto(c, IF first THEN "forkret_init" ELSE "user")
    /\ UNCHANGED <<state, pid, parent, chan, kstack, ctx, slk, waitLock,
                   bootVars, sidx, np, widx, evVars>>

\* Mutant: the one-shot block runs without clearing first.
forkret_init_keepfirst(c) ==
    /\ pc[c] = "forkret_init"
    /\ fsinit' = fsinit + 1
    /\ Goto(c, "user")
    /\ UNCHANGED <<state, pid, parent, chan, kstack, ctx, slk, plock,
                   waitLock, nextpid, initproc, first, sidx, np, widx,
                   evVars>>

\* The body of if (first): first = 0, then iinit() and initlog(), which
\* may sleep on disk I/O; the model folds them into one step that counts
\* them, then usertrapret().
forkret_init(c) ==
    /\ pc[c] = "forkret_init"
    /\ first' = FALSE
    /\ fsinit' = fsinit + 1
    /\ Goto(c, "user")
    /\ UNCHANGED <<state, pid, parent, chan, kstack, ctx, slk, plock,
                   waitLock, nextpid, initproc, sidx, np, widx, evVars>>

-----------------------------------------------------------------------------
(* yield(): acquire(&p->lock); p->state = RUNNABLE; sched(); release.       *)
(* Entered from sys_yield() or from the timer trap.                         *)

yield(c) ==
    LET p == CurProc(c) IN
    /\ pc[c] = "user"
    /\ Free(plock[p])
    /\ plock' = [plock EXCEPT ![p] = c]
    /\ state' = [state EXCEPT ![p] = "RUNNABLE"]
    /\ Goto(c, "yield_sched")
    /\ UNCHANGED <<pid, parent, chan, kstack, ctx, slk, waitLock, bootVars,
                   sidx, np, widx, evVars>>

yield_ret(c) ==
    /\ pc[c] = "yield_ret"
    /\ Release(c, CurProc(c))
    /\ Goto(c, "user")
    /\ UNCHANGED <<state, pid, parent, chan, kstack, ctx, slk, waitLock,
                   bootVars, sidx, np, widx, evVars>>

-----------------------------------------------------------------------------
(* fork(), entered from sys_clone(SIGCHLD).                                 *)

\* The user process calls clone(17, stack).
sys_clone(c) ==
    /\ pc[c] = "user"
    /\ nextpid <= MaxPid
    /\ np' = [np EXCEPT ![c] = 1]
    /\ Goto(c, "alloc")
    /\ UNCHANGED <<state, pid, parent, chan, kstack, ctx, slk, plock,
                   waitLock, bootVars, sidx, widx, evVars>>

\* Mutant: the increment of nextpid is lost, as when two CPUs run
\* nextpid++ without pid_lock.
pid_next_lost == nextpid' = nextpid

\* pid_next(): under pid_lock, return nextpid and increment it.  The pid
\* returned is nextpid of the state before the step.
pid_next == nextpid' = nextpid + 1

\* proc_alloc(), one slot: acquire(&p->lock); release and go on if it is
\* in use (return NULL after the last slot); else pid_next(), kalloc() a
\* kernel stack (proc_free() and NULL if that fails), point the context at
\* forkret, EMBRYO, and return with p->lock held.
proc_alloc(c) ==
    LET j == np[c] IN
    /\ pc[c] = "alloc"
    /\ Free(plock[j])
    /\ IF state[j] # "UNUSED"
         THEN /\ IF j = NPROC
                   THEN /\ Goto(c, "user") /\ np' = [np EXCEPT ![c] = 1]
                   ELSE /\ np' = [np EXCEPT ![c] = j + 1]
                        /\ UNCHANGED pc
              /\ UNCHANGED <<state, pid, parent, chan, kstack, ctx, plock,
                             nextpid>>
         ELSE /\ pid_next
              /\ \/ /\ kstack' = [kstack EXCEPT ![j] = TRUE]
                    /\ pid' = [pid EXCEPT ![j] = nextpid]
                    /\ ctx' = [ctx EXCEPT ![j] = "forkret"]
                    /\ state' = [state EXCEPT ![j] = "EMBRYO"]
                    /\ plock' = [plock EXCEPT ![j] = c]
                    /\ Goto(c, "fork_copy")
                    /\ UNCHANGED <<parent, chan, np>>
                 \/ /\ proc_free(j)
                    /\ Goto(c, "user")
                    /\ np' = [np EXCEPT ![c] = 1]
                    /\ UNCHANGED <<ctx, plock>>
    /\ UNCHANGED <<slk, waitLock, initproc, first, fsinit, sidx, widx,
                   evVars>>

\* Mutant: release(&np->lock) forgotten before fork takes wait_lock.
fork_copy_keeplock(c) ==
    LET j == np[c] IN
    /\ pc[c] = "fork_copy"
    /\ \/ /\ Goto(c, "fork_parent")
          /\ UNCHANGED <<state, pid, parent, chan, kstack, np, plock>>
       \/ /\ proc_free(j)
          /\ Release(c, j)
          /\ Goto(c, "user")
          /\ np' = [np EXCEPT ![c] = 1]
    /\ UNCHANGED <<ctx, slk, waitLock, bootVars, sidx, widx, evVars>>

\* uvm_copy() of the parent's memory either fails (proc_free(np),
\* release, return -1) or succeeds; then trap frame, files, cwd and name
\* are copied and release(&np->lock).
fork_copy(c) ==
    LET j == np[c] IN
    /\ pc[c] = "fork_copy"
    /\ Release(c, j)
    /\ \/ /\ Goto(c, "fork_parent")
          /\ UNCHANGED <<state, pid, parent, chan, kstack, np>>
       \/ /\ proc_free(j)
          /\ Goto(c, "user")
          /\ np' = [np EXCEPT ![c] = 1]
    /\ UNCHANGED <<ctx, slk, waitLock, bootVars, sidx, widx, evVars>>

\* acquire(&wait_lock); np->parent = p; release(&wait_lock).
fork_parent(c) ==
    /\ pc[c] = "fork_parent"
    /\ Free(waitLock)
    /\ parent' = [parent EXCEPT ![np[c]] = CurProc(c)]
    /\ Goto(c, "fork_run")
    /\ UNCHANGED <<state, pid, chan, kstack, ctx, slk, plock, waitLock,
                   bootVars, sidx, np, widx, evVars>>

\* acquire(&np->lock); np->state = RUNNABLE; release; return pid.
fork_run(c) ==
    /\ pc[c] = "fork_run"
    /\ Free(plock[np[c]])
    /\ state' = [state EXCEPT ![np[c]] = "RUNNABLE"]
    /\ Goto(c, "user")
    /\ np' = [np EXCEPT ![c] = 1]
    /\ UNCHANGED <<pid, parent, chan, kstack, ctx, slk, plock, waitLock,
                   bootVars, sidx, widx, evVars>>

-----------------------------------------------------------------------------
(* exit(0), entered from sys_exit().  The init program never exits.         *)

sys_exit(c) ==
    /\ pc[c] = "user"
    /\ CurProc(c) # initproc
    /\ Goto(c, "exit")
    /\ UNCHANGED <<state, pid, parent, chan, kstack, ctx, slk, plock,
                   waitLock, bootVars, sidx, np, widx, evVars>>

\* Panic for initproc; close the open files and drop cwd (file table and
\* inode cache are outside this module).
exit_files(c) ==
    /\ pc[c] = "exit"
    /\ Goto(c, IF CurProc(c) = initproc THEN "panic" ELSE "exit_lock")
    /\ UNCHANGED <<state, pid, parent, chan, kstack, ctx, slk, plock,
                   waitLock, bootVars, sidx, np, widx, evVars>>

\* Mutant: the loop of reparent() stops one slot short.
reparent_short(p) ==
    parent' = [s \in Slots |-> IF parent[s] = p /\ s < NPROC
                               THEN initproc ELSE parent[s]]

\* reparent(p): every slot whose parent is p now has parent initproc.
reparent(p) ==
    parent' = [s \in Slots |-> IF parent[s] = p THEN initproc ELSE parent[s]]

\* acquire(&wait_lock); reparent(p).
exit_reparent(c) ==
    /\ pc[c] = "exit_lock"
    /\ Free(waitLock)
    /\ waitLock' = c
    /\ reparent(CurProc(c))
    /\ Goto(c, "exit_zombie")
    /\ UNCHANGED <<state, pid, chan, kstack, ctx, slk, plock, bootVars,
                   sidx, np, widx, evVars>>

\* Mutant: exit() marks itself ZOMBIE without acquire(&p->lock).
exit_zombie_nolock(c) ==
    LET p == CurProc(c) IN
    /\ pc[c] = "exit_zombie"
    /\ state' = [state EXCEPT ![p] = "ZOMBIE"]
    /\ Goto(c, "exit_release")
    /\ UNCHANGED <<pid, parent, chan, kstack, ctx, slk, plock, waitLock,
                   bootVars, sidx, np, widx, evVars>>

\* acquire(&p->lock); p->xstate = status; p->state = ZOMBIE.
exit_zombie(c) ==
    LET p == CurProc(c) IN
    /\ pc[c] = "exit_zombie"
    /\ Free(plock[p])
    /\ plock' = [plock EXCEPT ![p] = c]
    /\ state' = [state EXCEPT ![p] = "ZOMBIE"]
    /\ Goto(c, "exit_release")
    /\ UNCHANGED <<pid, parent, chan, kstack, ctx, slk, waitLock, bootVars,
                   sidx, np, widx, evVars>>

\* release(&wait_lock), then sched().
exit_release(c) ==
    /\ pc[c] = "exit_release"
    /\ waitLock' = NoCpu
    /\ Goto(c, "exit_sched")
    /\ UNCHANGED <<state, pid, parent, chan, kstack, ctx, slk, plock,
                   bootVars, sidx, np, widx, evVars>>

-----------------------------------------------------------------------------
(* wait(), entered from sys_wait4(-1, 0, 0, 0).                             *)

sys_wait4(c) ==
    /\ pc[c] = "user"
    /\ Goto(c, "wait_acq")
    /\ UNCHANGED <<state, pid, parent, chan, kstack, ctx, slk, plock,
                   waitLock, bootVars, sidx, np, widx, evVars>>

wait_acquire(c) ==
    /\ pc[c] = "wait_acq"
    /\ Free(waitLock)
    /\ waitLock' = c
    /\ Goto(c, "wait_scan")
    /\ UNCHANGED <<state, pid, parent, chan, kstack, ctx, slk, plock,
                   bootVars, sidx, np, widx, evVars>>

\* One pass of the loop, under wait_lock: proc_free() the first ZOMBIE
\* child and return its pid; return -1 with no children (p->killed is
\* never set in this kernel); otherwise sleep(p, &wait_lock).
wait_scan(c) ==
    LET p == CurProc(c)
        kids == {s \in Slots : parent[s] = p}
        zombies == {s \in kids : state[s] = "ZOMBIE"}
    IN
    /\ pc[c] = "wait_scan"
    /\ \/ /\ zombies # {}
          /\ proc_free(CHOOSE z \in zombies : \A y \in zombies : z <= y)
          /\ waitLock' = NoCpu
          /\ Goto(c, "user")
          /\ UNCHANGED slk
       \/ /\ kids = {}
          /\ waitLock' = NoCpu
          /\ Goto(c, "user")
          /\ UNCHANGED <<state, pid, parent, chan, kstack, slk>>
       \/ /\ kids # {} /\ zombies = {}
          /\ slk' = [slk EXCEPT ![p] = "wait_lock"]
          /\ Goto(c, "sleep")
          /\ UNCHANGED <<state, pid, parent, chan, kstack, waitLock>>
    /\ UNCHANGED <<ctx, plock, bootVars, sidx, np, widx, evVars>>

-----------------------------------------------------------------------------
(* sleep(chan, lk) and wakeup(chan).                                        *)

\* acquire(&p->lock); release(lk).
sleep_lock(c) ==
    LET p == CurProc(c) IN
    /\ pc[c] = "sleep"
    /\ Free(plock[p])
    /\ plock' = [plock EXCEPT ![p] = c]
    /\ IF slk[p] = "wait_lock"
         THEN waitLock' = NoCpu /\ UNCHANGED evLock
         ELSE evLock' = NoCpu /\ UNCHANGED waitLock
    /\ Goto(c, "sleep_chan")
    /\ UNCHANGED <<state, pid, parent, chan, kstack, ctx, slk, bootVars,
                   sidx, np, widx, cond>>

\* p->chan = chan; p->state = SLEEPING; then sched().
sleep_chan(c) ==
    LET p == CurProc(c) IN
    /\ pc[c] = "sleep_chan"
    /\ chan' = [chan EXCEPT ![p] = SleepChan(slk[p], p)]
    /\ state' = [state EXCEPT ![p] = "SLEEPING"]
    /\ Goto(c, "sleep_sched")
    /\ UNCHANGED <<pid, parent, kstack, ctx, slk, plock, waitLock, bootVars,
                   sidx, np, widx, evVars>>

\* Back from sched(): p->chan = 0; release(&p->lock).
sleep_ret(c) ==
    LET p == CurProc(c) IN
    /\ pc[c] = "sleep_ret"
    /\ chan' = [chan EXCEPT ![p] = NULL]
    /\ Release(c, p)
    /\ Goto(c, "sleep_reacq")
    /\ UNCHANGED <<state, pid, parent, kstack, ctx, slk, waitLock, bootVars,
                   sidx, np, widx, evVars>>

\* acquire(lk), and the caller of sleep() goes on.
sleep_reacquire(c) ==
    LET p == CurProc(c) IN
    /\ pc[c] = "sleep_reacq"
    /\ IF slk[p] = "wait_lock"
         THEN Free(waitLock) /\ waitLock' = c /\ UNCHANGED evLock
         ELSE Free(evLock) /\ evLock' = c /\ UNCHANGED waitLock
    /\ Goto(c, AfterSleep(slk[p]))
    /\ UNCHANGED <<state, pid, parent, chan, kstack, ctx, slk, plock,
                   bootVars, sidx, np, widx, cond>>

\* Mutant: wakeup() tests p->state and p->chan without acquire(&p->lock).
wakeup_nolock(c) ==
    LET j == widx[c] IN
    /\ pc[c] = "wakeup"
    /\ IF j # CurProc(c) /\ state[j] = "SLEEPING" /\ chan[j] = EvChan
         THEN state' = [state EXCEPT ![j] = "RUNNABLE"]
         ELSE UNCHANGED state
    /\ IF j = NPROC
         THEN Goto(c, "ev_release") /\ widx' = [widx EXCEPT ![c] = 1]
         ELSE widx' = [widx EXCEPT ![c] = j + 1] /\ UNCHANGED pc
    /\ UNCHANGED <<pid, parent, chan, kstack, ctx, slk, plock, waitLock,
                   bootVars, sidx, np, evVars>>

\* wakeup(chan), one slot: other than the caller's own, acquire(&p->lock),
\* SLEEPING on chan becomes RUNNABLE, release.  Only the kernel event's
\* signaller calls wakeup(); nothing in this kernel wakes EvChan's peers
\* or a proc's own address.
wakeup(c) ==
    LET j == widx[c] IN
    /\ pc[c] = "wakeup"
    /\ j # CurProc(c) => Free(plock[j])
    /\ IF j # CurProc(c) /\ state[j] = "SLEEPING" /\ chan[j] = EvChan
         THEN state' = [state EXCEPT ![j] = "RUNNABLE"]
         ELSE UNCHANGED state
    /\ IF j = NPROC
         THEN Goto(c, "ev_release") /\ widx' = [widx EXCEPT ![c] = 1]
         ELSE widx' = [widx EXCEPT ![c] = j + 1] /\ UNCHANGED pc
    /\ UNCHANGED <<pid, parent, chan, kstack, ctx, slk, plock, waitLock,
                   bootVars, sidx, np, evVars>>

-----------------------------------------------------------------------------
(* A kernel event used by other subsystems (a sleep lock, the log): the    *)
(* waiter takes ev_lock and sleeps until cond holds, consuming it; the     *)
(* signaller sets cond and calls wakeup() holding ev_lock.                 *)

ev_wait(c) ==
    /\ pc[c] = "user"
    /\ Free(evLock)
    /\ evLock' = c
    /\ Goto(c, "ev_check")
    /\ UNCHANGED <<state, pid, parent, chan, kstack, ctx, slk, plock,
                   waitLock, bootVars, sidx, np, widx, cond>>

ev_check(c) ==
    LET p == CurProc(c) IN
    /\ pc[c] = "ev_check"
    /\ \/ /\ cond
          /\ cond' = FALSE
          /\ evLock' = NoCpu
          /\ Goto(c, "user")
          /\ UNCHANGED slk
       \/ /\ ~cond
          /\ slk' = [slk EXCEPT ![p] = "ev_lock"]
          /\ Goto(c, "sleep")
          /\ UNCHANGED <<evVars>>
    /\ UNCHANGED <<state, pid, parent, chan, kstack, ctx, plock, waitLock,
                   bootVars, sidx, np, widx>>

ev_signal(c) ==
    /\ pc[c] = "user"
    /\ Free(evLock)
    /\ evLock' = c
    /\ cond' = TRUE
    /\ widx' = [widx EXCEPT ![c] = 1]
    /\ Goto(c, "wakeup")
    /\ UNCHANGED <<state, pid, parent, chan, kstack, ctx, slk, plock,
                   waitLock, bootVars, sidx, np>>

ev_release(c) ==
    /\ pc[c] = "ev_release"
    /\ evLock' = NoCpu
    /\ Goto(c, "user")
    /\ UNCHANGED <<state, pid, parent, chan, kstack, ctx, slk, plock,
                   waitLock, bootVars, sidx, np, widx, cond>>

-----------------------------------------------------------------------------
(* proc_init(): every lock free, every slot UNUSED; each CPU enters        *)
(* scheduler() with c->proc = NULL.                                        *)

Init ==
    /\ state = [s \in Slots |-> "UNUSED"]
    /\ pid = [s \in Slots |-> 0]
    /\ parent = [s \in Slots |-> NULL]
    /\ chan = [s \in Slots |-> NULL]
    /\ kstack = [s \in Slots |-> FALSE]
    /\ ctx = [s \in Slots |-> "forkret"]
    /\ slk = [s \in Slots |-> "wait_lock"]
    /\ plock = [s \in Slots |-> NoCpu]
    /\ waitLock = NoCpu
    /\ nextpid = 1
    /\ initproc = NULL
    /\ first = TRUE
    /\ fsinit = 0
    /\ pc = [c \in CPUs |-> "scan"]
    /\ sidx = [c \in CPUs |-> 1]
    /\ np = [c \in CPUs |-> 1]
    /\ widx = [c \in CPUs |-> 1]
    /\ evLock = NoCpu
    /\ cond = FALSE

\* What user code on CPU c may do: the system calls of this module.
UserStep(c) ==
    \/ sys_clone(c) \/ sys_exit(c) \/ sys_wait4(c) \/ yield(c)
    \/ ev_wait(c) \/ ev_signal(c)

\* Every step CPU c takes in the kernel.
KernelStep(c) ==
    \/ scheduler_pick(c) \/ scheduler_swtch_ret(c) \/ sched(c) \/ forkret(c)
    \/ forkret_init(c) \/ yield_ret(c) \/ proc_alloc(c) \/ fork_copy(c)
    \/ fork_parent(c) \/ fork_run(c) \/ exit_files(c) \/ exit_reparent(c)
    \/ exit_zombie(c)
    \/ exit_release(c) \/ wait_acquire(c) \/ wait_scan(c) \/ sleep_lock(c)
    \/ sleep_chan(c) \/ sleep_ret(c) \/ sleep_reacquire(c) \/ wakeup(c)
    \/ ev_check(c) \/ ev_release(c)

Next == user_init \/ \E c \in CPUs : KernelStep(c) \/ UserStep(c)

\* Every CPU keeps executing kernel code; a spinlock it spins on and that
\* is free again and again is eventually taken (hence strong fairness);
\* a process that returns to user mode again and again is eventually
\* interrupted there by the timer, whose trap calls yield(); boot runs
\* user_init().
Fairness ==
    /\ WF_vars(user_init)
    /\ \A c \in CPUs : SF_vars(KernelStep(c)) /\ SF_vars(yield(c))

Spec == Init /\ [][Next]_vars /\ Fairness

-----------------------------------------------------------------------------
(* Properties.                                                              *)

TypeOK ==
    /\ state \in [Slots -> States]
    /\ pid \in [Slots -> 0..MaxPid + 1]
    /\ parent \in [Slots -> Slots \cup {NULL}]
    /\ chan \in [Slots -> Slots \cup {EvChan, NULL}]
    /\ kstack \in [Slots -> BOOLEAN]
    /\ ctx \in [Slots -> Resumes]
    /\ slk \in [Slots -> SleepLocks]
    /\ plock \in [Slots -> CPUs \cup {NoCpu}]
    /\ waitLock \in CPUs \cup {NoCpu}
    /\ nextpid \in 1..MaxPid + 2
    /\ initproc \in Slots \cup {NULL}
    /\ first \in BOOLEAN
    /\ fsinit \in Nat
    /\ pc \in [CPUs -> Pcs]
    /\ sidx \in [CPUs -> Slots]
    /\ np \in [CPUs -> Slots]
    /\ widx \in [CPUs -> Slots]
    /\ evLock \in CPUs \cup {NoCpu}
    /\ cond \in BOOLEAN

\* The p->lock hand-off of scheduler()/sched()/forkret(): two CPUs never
\* execute on the kernel stack of the same process.  yield(), sleep() and
\* exit() make their process RUNNABLE or SLEEPING before it is switched
\* out; only p->lock, held until the scheduler is back on its own stack,
\* keeps another CPU from switching into it meanwhile.
NoSharedKstack ==
    \A c1, c2 \in CPUs :
        c1 # c2 /\ pc[c1] \in ProcPcs /\ pc[c2] \in ProcPcs
            => sidx[c1] # sidx[c2]

\* forkret() tests and clears its static first with no lock held, so two
\* CPUs in forkret() at once could both see it set.  They never are while
\* it is set: the first process to run is initproc, and no other exists
\* until it forks from user space, after the block.  Hence the file system
\* is initialised at most once, and before any process returns to user
\* space.
FsInitOnce ==
    /\ fsinit <= 1
    /\ \A c \in CPUs : pc[c] \in ProcPcs \ {"forkret", "forkret_init"} => fsinit = 1

\* A lock is a pair: <<"p", s>> for p->lock of slot s, <<"wait_lock", 0>>,
\* <<"ev_lock", 0>>; <<"none", 0>> is no lock.
NoLock == <<"none", 0>>

\* The locks CPU c holds.
Held(c) ==
    {<<"p", s>> : s \in {t \in Slots : plock[t] = c}}
    \cup (IF waitLock = c THEN {<<"wait_lock", 0>>} ELSE {})
    \cup (IF evLock = c THEN {<<"ev_lock", 0>>} ELSE {})

\* The lock the next step of CPU c spins on (the acquire its step guards
\* on), or NoLock.  User mode only takes a lock it does not hold.
Wants(c) ==
    CASE pc[c] = "scan"                     -> <<"p", sidx[c]>>
      [] pc[c] \in {"alloc", "fork_run"}    -> <<"p", np[c]>>
      [] pc[c] \in {"exit_zombie", "sleep"} -> <<"p", CurProc(c)>>
      [] pc[c] = "wakeup" /\ widx[c] # CurProc(c) -> <<"p", widx[c]>>
      [] pc[c] \in {"fork_parent", "exit_lock", "wait_acq"} -> <<"wait_lock", 0>>
      [] pc[c] = "sleep_reacq"              -> <<slk[CurProc(c)], 0>>
      [] OTHER                              -> NoLock

\* The spinlocks are taken in one order, wait_lock or ev_lock before any
\* p->lock and never one p->lock while holding another, so no cycle of
\* CPUs each spinning on a lock the next holds can form: wakeup() is
\* called "without any p->lock", fork() releases np->lock before it takes
\* wait_lock, sleep() lets go of p->lock before it takes lk back.  And
\* sched() is entered holding only p->lock, as its comment demands: exit()
\* and sleep() have released wait_lock and lk before they switch away.
LockOrder ==
    \A c \in CPUs :
        /\ Wants(c)[1] \in {"wait_lock", "ev_lock"} => Held(c) = {}
        /\ Wants(c)[1] = "p" => \A l \in Held(c) : l[1] # "p"
        /\ pc[c] \in {"yield_sched", "sleep_sched", "exit_sched"}
               => Held(c) = {<<"p", CurProc(c)>>}

\* No CPU ever reaches a panic of this code: sched() is always entered
\* holding exactly p->lock with p no longer RUNNING, a zombie is never
\* switched back into, and initproc never exits.
NoPanic == \A c \in CPUs : pc[c] # "panic"

\* sleep()/wakeup() lose no wakeup: a process asleep on the event while its
\* condition holds is one that the signaller's wakeup() scan, which set
\* the condition, has not reached yet.  It rests on sleep() taking p->lock
\* before it lets go of lk.
NoLostWakeup ==
    \A s \in Slots :
        state[s] = "SLEEPING" /\ chan[s] = EvChan /\ cond
            => \E c \in CPUs : pc[c] = "wakeup" /\ widx[c] <= s

\* The parent of a live process is a live process: exit() hands every
\* child to initproc under wait_lock before it becomes a ZOMBIE, so no
\* process is left pointing at a zombie or at a freed (and maybe reused)
\* slot.
ParentIsLive ==
    \A s \in Slots :
        parent[s] # NULL => state[parent[s]] \notin {"UNUSED", "ZOMBIE"}

\* A process's kernel stack is never freed while a CPU still executes on
\* it.  wait() proc_free()s a ZOMBIE child holding only wait_lock, while
\* the child's CPU, having released wait_lock in exit(), is still in
\* sched() on that stack.
KstackLive ==
    \A c \in CPUs : pc[c] \in ProcPcs => kstack[sidx[c]]

\* A parent asleep in wait() that has a ZOMBIE child returns from the
\* sleep: exit() is what must wake it.
WaitWakesOnZombie ==
    \A p \in Slots :
        (/\ state[p] = "SLEEPING" /\ chan[p] = p
         /\ \E s \in Slots : parent[s] = p /\ state[s] = "ZOMBIE")
            ~> state[p] # "SLEEPING"


\* Round-robin scheduling starves nobody: a RUNNABLE process is eventually
\* switched into by some CPU, whatever the other processes do.
RunnableRuns ==
    \A s \in Slots : state[s] = "RUNNABLE" ~> state[s] = "RUNNING"


-----------------------------------------------------------------------------
(* Refinement: Proc implements ProcTree.  A slot is in the tree once it is *)
(* initproc or fork() has set its parent, so an EMBRYO that fork_copy may *)
(* still free is not; exit() leaves the tree's alive processes when it    *)
(* has reparented its children under wait_lock, the step after which it   *)
(* only marks itself ZOMBIE, still holding wait_lock.                      *)

\* The CPU running slot s is between exit's reparent() and its ZOMBIE.
Exiting(s) == \E c \in CPUs : pc[c] = "exit_zombie" /\ sidx[c] = s

AbsLife ==
    [s \in Slots |->
        IF state[s] = "ZOMBIE" \/ Exiting(s) THEN "zombie"
        ELSE IF state[s] # "UNUSED" /\ (s = initproc \/ parent[s] # NULL)
             THEN "alive"
        ELSE "free"]

AbsPid == [s \in Slots |-> IF AbsLife[s] = "free" THEN 0 ELSE pid[s]]

TreeVars == <<AbsLife, parent, AbsPid, initproc>>

ProcTreeAbs == INSTANCE ProcTree
                   WITH life <- AbsLife, par <- parent, apid <- AbsPid,
                        root <- initproc

\* However the CPUs interleave fork, exit and wait, the process tree only
\* changes as ProcTree allows: a child joins under a live parent with a
\* pid no process in the tree has, only a zombie child is reaped, by its
\* own parent, and an exit hands every child to initproc at once.
ProcRefines ==
    /\ ProcTreeAbs!Init
    /\ [][UNCHANGED TreeVars \/ ProcTreeAbs!Next]_TreeVars
=============================================================================
