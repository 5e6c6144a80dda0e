# TLA+ models of the xv6-armv8 process core

This directory holds TLA+ models of the process core of the kernel in `src/`: the
process table, the per-CPU scheduler, the `sched()`/`swtch()` hand-off, sleep/wakeup,
fork/exit/wait, and the system-call layer above them, with the file table those
processes share and the string helpers the kernel uses. It also holds the TLC
configurations that check the models. Every definition is translated from the
source. `PROJECT.json` maps each definition to the lines it models.

Where the code lives. `src/kern/syscall.c` holds two files joined together. Lines
1–137 are the system-call layer. Lines 138–647 are `proc.c`. `src/kern/sysproc.c`
holds the process system calls. `src/unnamed/part_000` is `file.c`, the file table.
`src/inc/string.h` holds the string helpers. `src/inc/fs.h` holds the on-disk layout.

## 1. Inventory

### Components and their state

| Component | Source | State | Operations |
|---|---|---|---|
| Process table | syscall.c 152–289 | `ptable.proc[NPROC]`. Each slot has `state`, `pid`, `parent`, `chan`, `killed`, `xstate`, `sz`, `pgdir`, `kstack`, `tf`, `context`, `ofile`, `cwd`, `name` and `lock`. Also `nextpid` with `pid_lock`, `wait_lock` and `initproc`. | `proc_init`, `pid_next`, `proc_alloc`, `proc_free`, `user_init` |
| Scheduler | syscall.c 300–370 | `cpus[c].proc` and `cpus[c].scheduler`; forkret's static `first` | `scheduler`, `sched`, `forkret` |
| Sleep/wakeup | syscall.c 427–479 | `p->chan`, `p->state` | `sleep`, `wakeup`, `yield` |
| Lifecycle | syscall.c 376–584 | `p->parent` (under `wait_lock`), ZOMBIE slots | `reparent`, `exit`, `fork`, `wait`, `growproc` |
| Syscall layer | syscall.c 17–137, sysproc.c | the trap frame (`x0`–`x8`) and `p->sz` | `fetchint`, `fetchstr`, `argint`, `argptr`, `argstr`, `syscall1`, `sys_exec`, `sys_yield`, `sys_brk`, `sys_clone`, `sys_wait4`, `sys_exit` |
| File table | part_000 | `ftable.file[NFILE]` with `ref`, `type`, `off`, `readable` and `writable`, all under `ftable.lock` | `file_alloc`, `file_dup`, `file_close`, `file_stat`, `file_read`, `file_write` |
| String helpers | string.h | none (pure) | `strlen`, `strncpy`, `strlcpy`, `memset`, `memmove`, `strtol`, … |
| Debug dumps | syscall.c 590–647 | none | `proc_dump`, `trapframe_dump` (print only) |

### How the components interact

- Every CPU runs `scheduler()` forever. For each slot it acquires `p->lock`. If the slot
  is RUNNABLE, the scheduler sets `c->proc`, marks the slot RUNNING and calls
  `swtch()` into the slot's saved context. It still holds `p->lock` at that point.
- The process gives `p->lock` back in one of two places. On its first run it is
  released in `forkret()`. Otherwise it is released after the `sched()` call inside
  `yield()` or `sleep()`.
- A process leaves the CPU only through `sched()`. Before calling it, the process
  takes `p->lock` and sets its state to something other than RUNNING. `sched()`
  checks both conditions and panics if either fails. Then `swtch()` returns to the
  scheduler, which clears `c->proc` and releases the lock.
- User code enters the kernel through `syscall1()`, which dispatches on `x8`.
  `sys_clone` calls `fork`, `sys_exit` calls `exit(0)`, `sys_wait4` calls `wait`
  and `sys_yield` calls `yield`. The timer trap also calls `yield` (`trap.c` is not
  in `src/`).
- Parent and child meet through `wait_lock`:
  - `fork` sets `np->parent` under `wait_lock`.
  - `exit` reparents the process's children to `initproc` and becomes a ZOMBIE, all
    under `wait_lock`.
  - `wait` scans for ZOMBIE children under `wait_lock` and sleeps on its own proc
    with `wait_lock` as the lock.
- `wakeup()` is defined in `proc.c`, but nothing in `src/` calls it. Its callers are
  the sleep-lock, log and buffer code, which are outside `src/`.
- `exit` closes its files through `file_close`. `fork` duplicates them through
  `file_dup`. Both use the file table's own lock.

### What is hard

- Lock hand-off across `swtch()`. The lock is taken by the scheduler and released
  by the process, or taken by the process and released by the scheduler, on
  whichever CPU runs it.
- Two CPUs touching the same slot. The scheduler, `proc_alloc` and `wakeup` each
  lock one slot at a time, and `wait` reads slots under `wait_lock` only.
- The window in `exit()` between `release(&wait_lock)` and `swtch()`. The process
  is already a ZOMBIE but still runs on its kernel stack.
- Lost wakeups between `release(lk)` and `SLEEPING`.
- Failure in the middle of `fork` (`kalloc`, `uvm_copy`) and in `file_write`.
- Numeric edges: the width of `nextpid`, `growproc` reaching 0, `argptr` with a
  negative size, `strtol` overflow.

### What makes each component correct

- Scheduler: two CPUs never run on one kernel stack; `sched()` never panics;
  every RUNNABLE process eventually runs.
- Sleep/wakeup: no wakeup is lost; a waiter returns holding its lock.
- Lifecycle:
  - a live process's parent is live;
  - a reaped process's kernel stack is no longer in use;
  - a parent waiting on a ZOMBIE child is woken;
  - pids are unique.
- Syscall layer:
  - a fetched argument lies in `[0, sz)`;
  - an unknown syscall does not hang the CPU;
  - `exec` takes at most `MAXARG-1` arguments.
- File table: a file's `ref` equals the number of descriptors that point at it; a
  slot is reused only when `ref` is 0.

The hazards, each at its source line, are listed under `hazards` in `PROJECT.json`.

## 2. Plan

1. **Proc** (done). This module models the process table, the scheduler,
   `sched`/`swtch`/`forkret`, yield, sleep/wakeup, fork, exit, wait and reparent
   with several CPUs. It comes first because every other part depends on its lock
   discipline.
2. **Syscall** (done, as `Syscall` and `SyscallArgs`; see section 4). It models `syscall1` dispatch, including the spin on
   an unknown number. It has `fetchint`/`fetchstr`/`argptr` as operators over a
   small user memory bounded by `sz`, and the argv walk of `sys_exec` checked
   against a reference definition. It also has `sys_brk`/`growproc` against an
   abstract `uvm_alloc`/`uvm_dealloc`, including the shrink-to-zero edge. It
   composes with Proc through `sys_clone`, `sys_wait4`, `sys_exit` and `sys_yield`.
3. **FileTable** (done, as `FileTable`, `OpenFiles` and `FileIO`; see section 5).
   It models `file_alloc`/`file_dup`/`file_close` reference counts and the `ofile`
   arrays that `fork` duplicates and `exit` closes, and shows that the table
   implements an abstract specification of descriptors (`OpenFiles`). The
   `file_write` chunk loop is modelled for its partial failure. It carries the
   process life cycle it needs itself (run, exit, dead) instead of composing Proc,
   whose state space would not leave room for it.
4. **ProcTree** and a refinement (done; see "The refinement to ProcTree" in
   section 3). This abstract process tree has atomic Boot, Fork, Exit (reparent
   plus zombie) and Wait steps. Proc is shown to implement it under a refinement
   mapping. The wait race of finding 1 does not show there: it is about kernel
   stacks, which the tree does not have. `KstackLive` shows it instead.
5. **Strings** (done, as `Strings` and `Strtol`; see section 6). Every routine of
   `string.h`, `strtol` at a fixed width included, is a RECURSIVE operator over
   bounded inputs, checked against a reference definition.

## 3. The Proc module

`Proc.tla` models `proc.c`. The thread of control is the **CPU**. `pc[c]` says
where CPU `c` is. It is either in its scheduler loop (`"scan"` or `"swtch_ret"`) or
running the kernel code of the slot its scheduler switched to. That slot is
`sidx[c]`, which is `c->proc` (`CurProc(c)`). A switched-out slot keeps its resume
point in `ctx[s]`: `forkret` for a fresh slot, otherwise the `sched()` caller it
returns to.

The kernel has no in-kernel preemption: spinlocks disable interrupts, and the core
gives up the CPU only in `sched()`. So the locals of a kernel path that does not
sleep (fork's `np`, wakeup's scan index) are per CPU. The `lk` of a `sleep()` is
per slot. Each spinlock (`p->lock`, `wait_lock`, the event lock) is the CPU that
holds it, or `NoCpu`. Acquiring a lock is a guard that the lock is free.

Each step is one stretch of code between two lock operations:

- `scheduler_pick`: one slot of the scan. Acquire, test RUNNABLE, switch in.
- `scheduler_swtch_ret`: back from `swtch()`. Clear `c->proc`, release, next slot.
- `sched`: the two panics, then `swtch()`.
- `forkret`: release the lock and test `first`, with no lock held.
- `forkret_init`: the `if (first)` block. It sets `first = 0` and runs `iinit`/`initlog`,
  folded into one step that the history variable `fsinit` counts.
- `yield`, `yield_ret`.
- `proc_alloc`: one slot per step. On a free slot it calls `pid_next`, then
  `kalloc`, which may fail.
- `fork_copy`: `uvm_copy` may fail; `release(&np->lock)`.
- `fork_parent`: set the parent under `wait_lock`.
- `fork_run`: RUNNABLE under `np->lock`.
- `exit_files`: the initproc panic; files and cwd closed.
- `exit_reparent`: under `wait_lock`.
- `exit_zombie`: under `p->lock`.
- `exit_release`: release `wait_lock`.
- `wait_acquire`.
- `wait_scan`: one pass of wait's loop. It reaps the first ZOMBIE child, returns -1
  without children, or goes to sleep.
- `sleep_lock`, `sleep_chan`, `sleep_ret`, `sleep_reacquire`: sleep's four steps.
- `wakeup`: one slot per step.

What is abstracted:

- Page tables, trap frames, names, files and cwd are data the properties do not
  tell apart.
- `kalloc` and `uvm_copy` succeed or fail nondeterministically.
- `killed` is never set by any code in `src/`, so wait's `p->killed` test is false.
- `xstate` is always 0 (`sys_exit` passes 0).
- The init program never calls `exit`.
- `user_init` runs at boot with memory available.

Nothing in `src/` calls `wakeup()`, so the model adds a **kernel event** that
stands for the sleep-lock and log users outside `src/`, modelled from the spec
(§4.5, §8 scenario 5). A waiter (`ev_wait`, `ev_check`) takes `ev_lock`. If the
condition holds, it consumes it. Otherwise it calls `sleep(EvChan, &ev_lock)`. A
signaller (`ev_signal`, `ev_release`) sets the condition and calls `wakeup(EvChan)`
while holding `ev_lock`.

`MCProc.tla` gives the CPUs as model values. It declares no symmetry, because the
runs include liveness properties.

### The refinement to ProcTree

`ProcTree.tla` says what fork, exit and wait promise, with no CPUs or locks.

- **State.** Each slot is free, alive or a zombie, with its parent, its pid and the
  root (`initproc`).
- **`Boot`.** Makes one slot the root.
- **`Fork(p)`.** Puts a child of the alive process `p` into a free slot, with a pid
  that no process in the tree has.
- **`Exit(p)`.** Makes `p` a zombie and hands its children to the root, in one step.
- **`Wait(p)`.** Frees a zombie child of `p`.

Proc maps onto it in `ProcTreeAbs`:

- A slot is in the tree once it is `initproc` or `fork_parent` has set its parent.
  An EMBRYO that `fork_copy` may still free is not in the tree yet.
- An exiting process counts as a zombie from the `exit_reparent` step on. At that
  step it still holds `wait_lock`, which keeps every `wait` out until it is
  a ZOMBIE.
- Parents map as they are. Pids map as they are, and a free slot has pid 0.

`ProcRefines` is the abstract `Init` with `[][Next]` under that mapping. It is
stated with the stuttering disjunct first, so that TLC rejects most steps cheaply.
The abstract spec needs no fairness, because Proc's liveness is checked by its own
properties. The mutant that loses `nextpid`'s increment, as an unlocked
`nextpid++` on two CPUs would, gives two processes one pid, and `Fork`'s
fresh-pid guard rejects it.

### Fairness

`Fairness` in `Proc.tla` has three parts, each justified by the hardware or the code:

- **Strong fairness per CPU on its kernel steps.** A CPU always executes, but a
  spinlock it spins on is only intermittently free. The model assumes the lock is
  eventually won.
- **Strong fairness on `yield` from user mode.** The timer trap calls `yield()`, and
  it fires while the process is in user mode.
- **Weak fairness on `user_init`.** Boot runs it.

User system calls carry no fairness, because a process need not make any.

### Runs

| Run | Config | Bounds | Checks | Result |
|---|---|---|---|---|
| `proc_safety` | `MCProc.cfg` | 2 CPUs, 3 slots, `MaxPid = 4` (3 forks) | `TypeOK`, `NoSharedKstack`, `NoPanic`, `NoLostWakeup`, `ParentIsLive`, `FsInitOnce`, `LockOrder`, `ProcRefines` | passes; 5.4M distinct states, about 3 min |
| `proc_round_robin` | `MCProcLive.cfg` | 1 CPU, 3 slots, `MaxPid = 4` | `RunnableRuns` | passes; 98K states |
| `wait_frees_running_stack` | `MCProcKstack.cfg` | as `proc_safety` | `KstackLive` | **violated**, 21 steps |
| `wait_never_woken` | `MCProcWait.cfg` | 2 CPUs, 2 slots, `MaxPid = 2` | `WaitWakesOnZombie` | **violated** |

What the properties say:

- **`NoSharedKstack`**: two CPUs never run on the same process's kernel stack. This
  is the purpose of the `p->lock` hand-off. A scheduler that picks a slot without
  taking its lock breaks it as soon as a `yield()` on another CPU has marked its
  process RUNNABLE but has not yet switched out.
- **`NoPanic`**: no `sched()` check fires, no zombie is resumed, and `initproc`
  never exits.
- **`NoLostWakeup`**: take a process asleep on the event while the condition holds.
  Then the signaller's `wakeup()` scan has not reached that process yet. The
  property depends on `sleep()` taking `p->lock` before releasing `lk`, and on
  `wakeup()` taking each `p->lock`.
- **`ParentIsLive`**: a parent pointer never names a ZOMBIE or UNUSED slot, so it
  never names a slot that is reaped and reused.
- **`LockOrder`**: the spinlocks are taken in one order. `wait_lock` or `ev_lock`
  may be held when a `p->lock` is taken, and never the reverse. No `p->lock` is
  taken while another is held. `sched()` is entered holding only the process's own
  lock. So no cycle of CPUs spinning on each other's locks can form; TLC's deadlock
  check confirms this for the instance. A `fork` that keeps `np->lock` while taking
  `wait_lock` breaks the property.
- **`FsInitOnce`**: the file system is initialised at most once, and before any
  process leaves `forkret` for user space. `forkret` tests and clears `first` without a
  lock, so this depends on no second process existing until `initproc` has passed the
  block: `initproc` is the only process until it forks from user space. A `forkret`
  that leaves `first` set initialises twice, on the first fork child.
- **`RunnableRuns`**: round-robin starves nobody. A scan that restarts at slot 1
  after each switch starves slot 2 or 3.

The bounds are enough to reach each case:

- Three slots allow a grandchild, which the reparent case needs. They also allow
  three processes contending on one CPU, which the starvation case needs.
- Two CPUs are what the hand-off and wait races need.
- Three forks let a slot be freed and reused.

Liveness runs use smaller models, because liveness checking on the 5.4M-state
model does not finish in minutes.

### Findings

1. **`wait()` frees a kernel stack that is still in use** (`syscall.c:569`).
   - `wait` calls `proc_free(np)` while holding only `wait_lock`.
   - The child released `wait_lock` in `exit()` at line 416. Its CPU is still in
     `sched()` on the child's kernel stack, and still holds `np->lock`.
   - `kfree(np->kstack)` therefore frees a stack in use. The spec (§4.1) says
     `proc_free` is called with the slot's lock held.
   - TLC finds the trace with two CPUs: init forks a child, the child exits on CPU
     1, and init's `wait` on CPU 2 reaps it before CPU 1 has switched out.
2. **A waiting parent is never woken** (`syscall.c:416`, `582`). `exit()` does not
   call `wakeup(p->parent)`. A parent that sleeps in `wait` before its child exits
   therefore sleeps forever (spec §9, question 1). TLC shows a lasso in which the
   child is a ZOMBIE and the parent stays SLEEPING while both CPUs keep scanning.

### Not modelled (yet)

- `nextpid` is bounded by `MaxPid` in Proc. Its overflow is checked in `PidAlloc`
  (section 3a).
- `swtch` assembly, `trap.c`, `vm.c`, `kalloc.c`, the file system and the spinlock
  implementation are not in `src/`. The model uses them only through the contracts
  described above.
- `proc_dump` and `trapframe_dump` only print.

## 3a. PID minting: `PidAlloc`

`PidAlloc.tla` models what Proc bounds away: the width of `nextpid`.

- **State.** Each slot is UNUSED or USED, with its `pid`. There is also `nextpid`,
  an int of `IntBits` bits.
- **`proc_alloc`.** Takes the first UNUSED slot and gives it `nextpid`, wrapped to
  the width (`nextpid++` at `syscall.c:172`). Then `kalloc` either succeeds, or
  fails and `proc_free` puts the slot back with its pid spent.
- **`reap`.** A process other than `initproc` exits and `wait` frees it.
- **`Init`.** The state after `user_init`: slot 1 with pid 1.
- **Width.** Signed overflow is undefined in C. The AArch64 build's add wraps,
  and so does the model.

The locks and the scheduling are left out. `pid_lock` makes `pid_next` atomic,
and Proc already checks the interleavings around it.

| Run | Config | Bounds | Checks | Result |
|---|---|---|---|---|
| `pid_wraps` | `PidAlloc.cfg` | 2 slots, 3-bit int | `LivePidsDistinct` | **violated**, 4 states |

`LivePidsDistinct` says every live process has a positive pid that no other live
process has. That is what spec §3 ("monotonically increasing positive integer; 0
means slot is free") and §8 ("PIDs are strictly increasing") promise.

### Finding

7. **PIDs wrap** (`syscall.c:172`). Every `proc_alloc` that finds a slot spends a
   pid, the failed ones included. After `INT_MAX` of them, `nextpid++` makes the
   next pid negative, then 0, then the pids of processes still alive. TLC's trace
   with a 3-bit int has 4 states: two failed `proc_alloc`s spend pids 2 and 3,
   taking `nextpid` from 2 to 3 and on to -4, and the next allocation gives
   slot 2 pid -4. A parent that gets -1 from `fork()`
   takes it as failure, and one that gets 0 takes itself for the child. Spec §4.1
   notes that wraparound is not defended against.

## 4. The system-call layer: `Syscall` and `SyscallArgs`

Both modules work on a scaled machine. Each keeps the widths' ratio and every
conversion, because the bugs of this layer are at the edges of the arithmetic:

- `SyscallArgs` has 4-bit addresses, 2-byte words of 2-bit bytes and 6 bytes of
  user memory.
- `Syscall` has a 6-bit `uint64_t` and a 3-bit `int`.
- `U(x)` is `uint64_t` arithmetic. `ToInt` is the truncating conversion
  `uint64_t` to `int`. An `int` result is stored in `x0` through `U`.

### `SyscallArgs`: argument fetching as operators

- `fetchint`, `fetchstr`, `argptr` and `argstr` (`syscall.c` 17–89) are operators
  over the current process's memory `mem` and size `sz`.
- `sys_exec` (`sysproc.c` 11–48) is the argv walk up to the call of `execve`.
  It is a RECURSIVE operator with the code's `i >= ARRAY_SIZE(argv)` test.
- Each state is one input: a memory content and a `p->sz`. `Next` changes nothing.
  The invariants compare the operators with reference definitions on every
  argument, over all 28,672 inputs:
  - `FetchIntMatchesRef`: `fetchint` succeeds exactly when `addr + 8 <= sz`. This
    includes addresses at the top of the space, where `addr + 8` wraps.
  - `ArgptrMatchesRef`: the same for `argptr` with a non-negative size.
  - `ExecArgvMatchesRef`: `sys_exec` accepts exactly a well-formed argv. Its NULL
    must fit in the kernel's `argv[MAXARG]`, so at most `MAXARG - 1` strings, with
    `MAXARG = 2`. Six bytes are enough to hold an argv of `MAXARG` pointers plus
    its NULL. The off-by-one mutant (`i > MAXARG`), which would store past the
    array, is therefore caught.

### `Syscall`: dispatch and `brk`

- **State.** The process is `pc` (`user`, `kernel`, `spin`, `exited`). The trap
  frame is `tf` (`x8`, `x1`–`x4`, `x0`). Then come `p->sz` and the set `mapped` of
  user bytes the page table maps.
- **Entry.** `svc` traps with any number in `0..NSys` (the first out of range
  included) and argument values from `Args`.
- **Dispatch.** `syscall1` runs the handler as one step and writes its result to
  `x0`, or goes to `spin` on a number without a handler.
- **`sys_brk`.** It is the whole of `growproc`. `vm.c` is not in `src/`, so
  `uvm_alloc`/`uvm_dealloc` follow the spec's "newsz or 0" contract: allocation may
  fail for lack of memory, and deallocation unmaps `[newsz, oldsz)`.
- **Other handlers.** `sys_clone` and `sys_wait4` keep their argument checks and
  return fork's or wait's possible results. Proc models those calls.
- **Fairness.** `WF` on the kernel steps, because a CPU that has entered a
  handler keeps executing it.
- **Deadlock.** Deadlock is not checked: after `sys_exit` the process never runs
  again.

`MCSyscall.tla` gives a table with an empty slot and `Args = {0, 1, 3, 4, 8, 17, 62, 63}`:

- small sizes;
- 4 and 8, the scaled 2^31 and 2^32, which read as a negative and a zero `int`;
- 17 (SIGCHLD);
- −2 and −1.

### Runs

| Run | Config | Checks | Result |
|---|---|---|---|
| `pure_routines_ref` | `MCPureRoutines.cfg` | `FetchIntMatchesRef`, `ArgptrMatchesRef`, `ExecArgvMatchesRef` (with the string properties of section 6) | passes; 28,672 argument inputs of 38,915, 10 s |
| `syscall_brk` | `MCSyscall.cfg` | `TypeOK`, `BrkResult` (a failed brk leaves `p->sz`; a successful one returns the old size) | passes; 661K states, about 1 min |
| `brk_unmaps_user_memory` | `MCSyscallMap.cfg` | `SzMatchesMapping` | **violated** |
| `brk_truncates_request` | `MCSyscallTrunc.cfg` | `BrkResizesByRequest` | **violated** |
| `unknown_syscall_spins` | `MCSyscallLive.cfg` | `SyscallReturns` | **violated** |

### Findings

3. **`growproc` desynchronises `p->sz` from the page table** (`syscall.c:492`).
   - A shrink with `-n > sz` wraps `sz + n`. Under `uvm_dealloc`'s contract
     `p->sz` then becomes nearly 2^64, and the bounds checks of `fetchint` and
     `fetchstr` admit unmapped addresses.
   - A shrink to exactly 0 unmaps everything. It then gets 0 back, which it reads
     as failure, so it keeps the old `p->sz`.
   - TLC's trace: `sz = 1`, then `brk` with `x1 = 4`, which reads as `-4`, leaves
     `p->sz = 61` with only byte 0 mapped.
4. **`brk`'s argument is truncated to `int`** (`sysproc.c:60`). `growproc(int n)`
   receives the 64-bit register. A request of 2^31 bytes shrinks the break, and a
   request of 2^32 succeeds without change. The spec says `brk(n)` grows by `n`.
5. **An unknown system call hangs its CPU** (`syscall.c:132`). `syscall1` spins in
   `while (1)`. The unreachable `return -1` that follows, and spec §9 question 2,
   say it should fail with -1.

## 5. The file table: `FileTable`, `OpenFiles` and `FileIO`

`file.c` (`src/unnamed/part_000`) keeps `ftable.file[NFILE]` under `ftable.lock`.
Processes point at its slots from `p->ofile[NOFILE]`. A slot is shared by every
descriptor that `fork` or `dup` copied from the one `open` made. Its `ref` counts
them, and the last `file_close` releases the inode with `iput`.

### `FileTable`

- **State.** `ref`, `ftype` and `fip` per slot; `iref` is the inode layer's count
  per inode. `ofile` and `cwd` are per process. `pc` is a process's life cycle
  (run, exit, dead, or panic when the code panics). `pend` is a `file_close`
  that has released the lock and not yet called `iput`.
- **One step per critical section.** `file_alloc`, `file_dup` and the first half
  of `file_close` run under `ftable.lock`, so each is atomic.
- **`file_close` is two steps.** The first, `FileClose`, drops the reference. On
  the last reference it copies the slot (`ff = *f`), sets `ref = 0` and
  `type = FD_NONE`, and unlocks. The second, `file_close_iput`, calls
  `iput(ff.ip)` from the copy, and then the caller clears `p->ofile[fd]`.
  Another process can allocate the freed slot between the two steps.
- **Callers.**
  - `fork_files` is `fork`'s `file_dup` loop and `idup` of the cwd (`syscall.c:527–532`).
    It is one step: the child cannot run yet, and the parent, which is forking,
    closes nothing. So no slot that the parent names can drop to zero in between.
  - `exit_close` and `exit_cwd` are `exit`'s loop and its `iput(p->cwd)`.
  - `sys_openat`, `sys_dup` and `sys_close` are not in `src`. They are modelled
    from their contracts: `namei`, `file_alloc`, and `fdalloc` taking the lowest
    free descriptor.
- **Properties.**
  - `RefCounts`: every slot's `ref` equals the number of descriptors that hold it.
    A descriptor whose last reference is already dropped does not count.
  - `InodeRefs`: every inode's count equals the open slots naming it, plus the
    pending `iput`s, plus the cwds.
  - `Refines`: `FileTable` implements `OpenFiles`.

### `OpenFiles` and the refinement

`OpenFiles` says what the table promises, with no slots and no counts:

- each process has descriptors, and each open descriptor names an inode;
- open and dup take the lowest free descriptor;
- fork copies the parent's descriptors and cwd to the child;
- an exiting process closes its descriptors lowest first, drops its cwd, and
  eventually dies (weak fairness).

`FileTable` maps onto it with `FileTableAbs == INSTANCE OpenFiles WITH desc <- AbsDesc, st <- pc`.

- `AbsDesc` reads a descriptor's inode through its slot.
- It treats a descriptor whose last reference is dropped as already closed. This
  makes the `iput` step a stutter.
- `Refines == FileTableAbs!Spec` is checked as a PROPERTY under `FairSpec`.
- `FairSpec` is weak fairness on each process's exit loop and its pending
  `iput`. These paths take only `ftable.lock` and the inode layer's locks, which
  their holders release.

### `FileIO`

This module models `file_read` and `file_write` on one open file that two
processes share, as after `fork`.

- Each `readi`, and each chunk of a write, runs between `ilock` and `iunlock`, so
  it is one step. Other processes run between the chunks of a write.
- `readi` and `writei` are not in `src`. They follow xv6's contract:
  - both fail at an offset past the size;
  - `readi` reads up to the size;
  - `writei` writes everything or fails past `MAXFILE*BSIZE`.
- `MaxFile` and `MaxChunk` stand for `MAXFILE*BSIZE` and for the code's
  `((MAXOPBLOCKS-4)/2)*512`.
- A ghost `wcount` counts the writes to each byte.

### Runs

| Run | Config | Bounds | Checks | Result |
|---|---|---|---|---|
| `files` | `MCFiles.cfg` | FileTable: 3 processes, 2 slots, 2 descriptors, 2 inodes. FileIO: 2 processes, file of 3 bytes, chunks of 1, writes of up to 2 | `RefCounts`, `InodeRefs`, `Refines`, `NoByteWrittenTwice` | passes; 386K states, about 2.5 min |
| `fileio_failed_write` | `MCFileIOFail.cfg` (on `FileIO`) | FileIO's bounds as above | `FailedWriteWroteNothing` | **violated** |

`MCFiles.tla` checks both modules in one run. A variable `layer` picks, in the
initial state, whether a behaviour runs FileTable or FileIO; the other module's
variables keep one of its initial states throughout. Each property is its
module's, and holds trivially on the other layer, where that module only
stutters. The fairness is FileTable's.

Why these bounds are enough:

- Two slots among three processes give a full table, a slot shared across processes,
  and a freed slot reused by another process while the closer still has its `iput`
  pending. That last case is the one `InodeRefs` is about: the mutant that calls
  `iput(f->ip)` from the slot instead of the copy breaks it.
- Writes of two 1-byte chunks let a write fail on its second chunk, and let two
  writers' chunks alternate.

Symmetry is not used, because `Refines` has a liveness part.

### Findings

6. **A failed `file_write` may have written data** (`part_000:149`).
   - When `writei` fails on a later chunk, `file_write` breaks out and returns -1.
     By then the earlier chunks are written and `f->off` has moved past them.
   - TLC's trace: a 2-byte write at offset 2, with at most 3 bytes allowed, writes
     one byte, fails on the second, and returns -1.
   - The panic on a short chunk shows that the code means a chunk to be
     all-or-nothing. Nothing says so of the whole call: spec §9 question 4 asks only
     about `file_read`.

## 6. The string helpers: `Strings` and `Strtol`

`src/inc/string.h` is pure. Each routine is an operator that follows its C loop:

- **Memory.** The memory is a function from addresses 1..M to bytes; 0 is the
  null pointer.
- **Reads during a copy.** Every read in a copy sees the memory as it stands after
  the bytes already written. This is what makes an overlapping `memmove`, and
  `strncpy`'s re-read of `*src` after its store, behave as they do in C.
- **memset.** It keeps `int m = n`, with `int` scaled to 3 bits.
- **strtol.** It works on ASCII codes, with `long` scaled to 8 bits. The C code
  leaves `val * base + dig` overflowing undefined; the AArch64 build wraps it,
  and so does the model.

Each property compares a routine with a reference definition. The references are
written with sets, `Min` and `MapThenSumSet` rather than loops. The inputs are every
argument that keeps the buffers inside the memory.

| Property | Routines | What it shows |
|---|---|---|
| `MemmoveMatchesRef` | `memmove`, `memcpy` | copies correctly whichever way the buffers overlap |
| `CopiesMatchRef` | `strcpy`, `strcat`, `strncpy`, `strlcpy` | the string, strncpy's padding (no NUL when the source fills the buffer), strlcpy's NUL and return value |
| `ComparesMatchRef` | `strcmp`, `strncmp`, `memcmp` | sign of the first difference; strncmp stops at n |
| `SearchesMatchRef` | `strlen`, `strnlen`, `strchr`, `strfind`, `memfind` | first occurrence or the documented fallback |
| `MemsetFillsN` | `memset` | exactly n bytes for every n an int holds; every caller's size lies in that range, and larger sizes write nothing |
| `StrtolMatchesRef` | `strtol` | stops at the first non-digit, and returns the value modulo 2^LongBits |

`MCPureRoutines` checks these together with the three `SyscallArgs` properties in
one run, `pure_routines_ref`.

- Each state is one input to one module: a user memory for `SyscallArgs`, a
  5-byte memory for `Strings`, or a 4-character string for `Strtol`.
- A variable `input` says which. Each property is asked only of its own module's
  inputs.
- The input sets are 28,672 memories, 243 memories and 10,000 strings.

## 7. Not modelled

- **`src/inc/fs.h`.** This header declares the on-disk format: constants, structs
  and prototypes. Its only computations are the `IBLOCK`/`BBLOCK` macros, which
  `fs.c` and `mkfs` use. Neither of those is in `src`, so nothing in `src` exercises
  them. Its constants enter `FileIO` as `MaxFile` and `MaxChunk`.
- **Debug dumps.** `proc_dump` and `trapframe_dump` in `syscall.c` only print.
- **`file_init` and `file_stat`.** `file_init` only initialises the lock, and
  `file_stat` changes no state.
- **Outside `src`.** The inode layer, the log, `vm.c`, the spinlock and `swtch` are
  not in `src`, so each is used only through its contract.
- **Composition.** `FileTable` carries its own process life cycle instead of
  instantiating `Proc`. `Proc`'s 5.4M states already fill TLC's budget, so their
  product is out of reach.
