------------------------------- MODULE Syscall -------------------------------
(***************************************************************************)
(* System-call dispatch of one process: syscall1 in src/kern/syscall.c and *)
(* the core handlers of src/kern/sysproc.c (sys_brk with growproc,         *)
(* sys_clone, sys_wait4, sys_yield, sys_exit, sys_exec).                   *)
(*                                                                         *)
(* The process traps with a syscall number in x8 and arguments in x1..x4;  *)
(* syscall1 looks the number up in the dispatch table, runs the handler    *)
(* and writes its result to x0, or spins forever on an unknown number.     *)
(* Each handler runs as one step: what it delegates to the process module  *)
(* (fork, wait, yield, exit; see Proc.tla) is reduced here to the results  *)
(* it can return, and execve, outside the source, to its result.           *)
(*                                                                         *)
(* Widths are scaled: uint64_t is AddrBits bits, int is IntBits bits, and  *)
(* the conversions between them (uint64_t -> int truncates, int ->         *)
(* uint64_t sign-extends) are kept.  The page table of the process is the  *)
(* set mapped of user bytes it maps; user memory is [0, p->sz).            *)
(***************************************************************************)
EXTENDS Naturals, Integers

CONSTANTS
    AddrBits,   \* width of uint64_t, scaled
    IntBits,    \* width of int, scaled
    MemMax,     \* bytes of physical memory uvm_alloc can map
    NSys,       \* ARRAY_SIZE(syscalls)
    Table,      \* syscalls[]: 0 .. NSys-1 -> handler name or NoHandler
    NoHandler,  \* an empty slot of syscalls[]
    ChildPid,   \* a pid fork or wait can return
    Args        \* the values a user program puts in x1

Handlers == {"brk", "exec", "yield", "clone", "wait4", "exit", "other"}

ASSUME /\ IntBits < AddrBits
       /\ MemMax + 2^(IntBits - 1) < 2^AddrBits
       /\ Table \in [0 .. (NSys - 1) -> Handlers \cup {NoHandler}]
       /\ Args \subseteq 0 .. (2^AddrBits - 1)

Addr == 0 .. (2^AddrBits - 1)

\* uint64_t arithmetic, and the sign-extension of an int to uint64_t.
U(x) == x % (2^AddrBits)

\* (int)x of a uint64_t: keep the low IntBits bits, read them as signed.
ToInt(x) ==
    LET v == x % (2^IntBits)
    IN  IF v >= 2^(IntBits - 1) THEN v - 2^IntBits ELSE v

\* A uint64_t register read as a signed 64-bit number.
Signed(x) == IF x >= 2^(AddrBits - 1) THEN x - 2^AddrBits ELSE x

Minus1 == U(-1)

VARIABLES
    pc,      \* "user", "kernel" (in syscall1), "spin", "exited"
    tf,      \* the trap frame: x8 and x1..x4 in, x0 out
    sz,      \* p->sz
    mapped   \* user bytes the page table maps

vars == <<pc, tf, sz, mapped>>

Bytes(lo, hi) == {b \in 0 .. (MemMax - 1) : lo <= b /\ b < hi}

-----------------------------------------------------------------------------
(* Virtual memory, outside the source: the contracts of uvm_alloc and     *)
(* uvm_dealloc, "newsz or 0".                                             *)

\* uvm_alloc maps [oldsz, newsz) and returns newsz, or returns 0 when it
\* runs out of memory.
UvmAllocResults(old, new) ==
    {[ret |-> 0, map |-> mapped]} \cup
    (IF new <= MemMax THEN {[ret |-> new, map |-> mapped \cup Bytes(old, new)]}
     ELSE {})

\* uvm_dealloc unmaps [newsz, oldsz) and returns newsz.
UvmDeallocResult(old, new) == [ret |-> new, map |-> mapped \ Bytes(new, old)]

-----------------------------------------------------------------------------
(* Handlers.                                                              *)

\* The handler syscall1 runs for number no, or NoHandler.
Handler(no) == IF no < NSys THEN Table[no] ELSE NoHandler

\* Mutant of Return: the int result stored in x0 without conversion.
Return_raw(r) == /\ pc' = "user"
                 /\ tf' = [tf EXCEPT !.x0 = r]

\* Return from syscall1 with result r written to x0 as uint64_t.
Return(r) == /\ pc' = "user"
             /\ tf' = [tf EXCEPT !.x0 = U(r)]

\* Mutant of growproc: p->sz takes the VM's result before the zero test.
growproc_store_first(n) ==
    IF n > 0 THEN
        {IF a.ret = 0 THEN [ret |-> -1, sz |-> 0, map |-> a.map]
         ELSE [ret |-> 0, sz |-> a.ret, map |-> a.map]
         : a \in UvmAllocResults(sz, U(sz + n))}
    ELSE IF n < 0 THEN
        LET d == UvmDeallocResult(sz, U(sz + n))
        IN  {IF d.ret = 0 THEN [ret |-> -1, sz |-> 0, map |-> d.map]
             ELSE [ret |-> 0, sz |-> d.ret, map |-> d.map]}
    ELSE {[ret |-> 0, sz |-> sz, map |-> mapped]}

\* growproc(n): the results as records [ret, sz, map].
growproc(n) ==
    IF n > 0 THEN
        {IF a.ret = 0 THEN [ret |-> -1, sz |-> sz, map |-> a.map]
         ELSE [ret |-> 0, sz |-> a.ret, map |-> a.map]
         : a \in UvmAllocResults(sz, U(sz + n))}
    ELSE IF n < 0 THEN
        LET d == UvmDeallocResult(sz, U(sz + n))
        IN  {IF d.ret = 0 THEN [ret |-> -1, sz |-> sz, map |-> d.map]
             ELSE [ret |-> 0, sz |-> d.ret, map |-> d.map]}
    ELSE {[ret |-> 0, sz |-> sz, map |-> mapped]}

\* sys_brk: n = x1 passed to growproc(int n); the old size on success.
sys_brk ==
    /\ pc = "kernel" /\ Handler(tf.x8) = "brk"
    /\ \E g \in growproc(ToInt(tf.x1)) :
          /\ sz' = g.sz
          /\ mapped' = g.map
          /\ Return(IF g.ret < 0 THEN -1 ELSE sz)

\* sys_clone: only flags == 17 (SIGCHLD) reaches fork, which returns the
\* child's pid or -1.
sys_clone ==
    /\ pc = "kernel" /\ Handler(tf.x8) = "clone"
    /\ \E r \in IF tf.x1 # 17 THEN {-1} ELSE {-1, ChildPid} : Return(r)
    /\ UNCHANGED <<sz, mapped>>

\* sys_wait4: only pid == -1 with the other arguments 0 reaches wait.
sys_wait4 ==
    /\ pc = "kernel" /\ Handler(tf.x8) = "wait4"
    /\ \E r \in IF tf.x1 # Minus1 \/ tf.x2 # 0 \/ tf.x3 # 0 \/ tf.x4 # 0
                THEN {-1} ELSE {-1, ChildPid} : Return(r)
    /\ UNCHANGED <<sz, mapped>>

sys_yield ==
    /\ pc = "kernel" /\ Handler(tf.x8) = "yield"
    /\ Return(0)
    /\ UNCHANGED <<sz, mapped>>

\* sys_exit: exit(0) never returns to this process.
sys_exit ==
    /\ pc = "kernel" /\ Handler(tf.x8) = "exit"
    /\ pc' = "exited"
    /\ UNCHANGED <<tf, sz, mapped>>

\* sys_exec: argument failure (see SyscallArgs.tla) or execve's result;
\* the handlers outside the source return some result.
sys_other ==
    /\ pc = "kernel" /\ Handler(tf.x8) \in {"exec", "other"}
    /\ \E r \in {-1, 0} : Return(r)
    /\ UNCHANGED <<sz, mapped>>

\* syscall1 on a number outside the table or on an empty slot.
syscall_unknown ==
    /\ pc = "kernel" /\ Handler(tf.x8) = NoHandler
    /\ pc' = "spin"
    /\ UNCHANGED <<tf, sz, mapped>>

\* while (1) ;
spin == pc = "spin" /\ UNCHANGED vars

\* The process executes SVC with any number and arguments; x0 is not an
\* argument in this ABI, and no handler reads it.
svc ==
    /\ pc = "user"
    /\ \E no \in 0 .. NSys, a1 \in Args, a2, a3, a4 \in {0, 1} :
          tf' = [x8 |-> no, x1 |-> a1, x2 |-> a2, x3 |-> a3, x4 |-> a4, x0 |-> 0]
    /\ pc' = "kernel"
    /\ UNCHANGED <<sz, mapped>>

Init == /\ pc = "user"
        /\ tf = [x8 |-> 0, x1 |-> 0, x2 |-> 0, x3 |-> 0, x4 |-> 0, x0 |-> 0]
        /\ \E s \in 0 .. MemMax : sz = s /\ mapped = Bytes(0, s)

Kernel == sys_brk \/ sys_clone \/ sys_wait4 \/ sys_yield \/ sys_exit
          \/ sys_other \/ syscall_unknown \/ spin

Next == svc \/ Kernel

\* The kernel runs a handler it has entered to its end.
Spec == Init /\ [][Next]_vars /\ WF_vars(Kernel)

-----------------------------------------------------------------------------
TypeOK == /\ pc \in {"user", "kernel", "spin", "exited"}
          /\ tf \in [{"x8", "x1", "x2", "x3", "x4", "x0"} -> Addr]
          /\ sz \in Addr
          /\ mapped \subseteq 0 .. (MemMax - 1)

\* A step of sys_brk.
BrkStep == pc = "kernel" /\ Handler(tf.x8) = "brk" /\ pc' = "user"

\* sys_brk either fails with -1 and leaves p->sz as it was, or returns the
\* size before the call: the order of growproc's zero test, its store to
\* p->sz and sys_brk's read of p->sz.
BrkResult ==
    [][BrkStep => \/ tf'.x0 = Minus1 /\ sz' = sz
                  \/ tf'.x0 = sz]_vars

\* User memory is [0, p->sz) and is exactly what the page table maps, so
\* the bounds checks of fetchint and fetchstr admit only mapped bytes.
SzMatchesMapping == mapped = Bytes(0, sz) /\ sz <= MemMax

\* A successful brk(n) moves the break by n, the 64-bit register value
\* read as signed, in uint64_t arithmetic.
BrkResizesByRequest ==
    [][BrkStep /\ tf'.x0 # Minus1 => sz' = U(sz + Signed(tf.x1))]_vars

\* Every system call the process makes returns to it, or ends it.
SyscallReturns == pc = "kernel" ~> pc \in {"user", "exited"}
=============================================================================
