----------------------------- MODULE SyscallArgs -----------------------------
(***************************************************************************)
(* The system-call argument layer of src/kern/syscall.c and the argv walk  *)
(* of sys_exec in src/kern/sysproc.c: fetchint, fetchstr, argptr, argstr   *)
(* and the loop that builds the kernel argv array.                         *)
(*                                                                         *)
(* The machine is scaled down but keeps its shape: an address is an        *)
(* AddrBits-bit unsigned integer (uint64_t in the code) and arithmetic on  *)
(* it wraps modulo 2^AddrBits; a word is WordBytes little-endian bytes of  *)
(* ByteBits bits each (an int64_t of 8 bytes in the code), so a word spans *)
(* the whole address space, as it does on the real machine.  The user      *)
(* memory of the current process is mem, its size p->sz is sz.  Both are  *)
(* fixed per state: every state is one input, and the properties compare   *)
(* each operator with a reference definition on every argument.            *)
(***************************************************************************)
EXTENDS Naturals, Integers, FiniteSetsExt

CONSTANTS
    AddrBits,   \* width of uint64_t, scaled
    ByteBits,   \* width of a byte, scaled
    WordBytes,  \* sizeof(int64_t) = sizeof(uint64_t), scaled
    MemSize,    \* bytes of user memory that exist
    MAXARG      \* ARRAY_SIZE(argv) in sys_exec

ASSUME /\ WordBytes * ByteBits = AddrBits
       /\ MemSize < 2^AddrBits
       /\ MAXARG \in Nat \ {0}

Addr  == 0 .. (2^AddrBits - 1)
Bytes == 0 .. (2^ByteBits - 1)

\* uint64_t arithmetic: results wrap.
U(x) == x % (2^AddrBits)

\* A result: ok is FALSE for the code's "return -1", val is what is stored
\* through the out-pointer (or returned as a length).
Fail      == [ok |-> FALSE, val |-> 0]
Ok(v)     == [ok |-> TRUE, val |-> v]

VARIABLES mem, sz
vars == <<mem, sz>>

\* A byte of user memory; beyond MemSize nothing is mapped.
Load(a) == IF a < MemSize THEN mem[a] ELSE 0

\* *(int64_t*)(addr): WordBytes bytes, little endian.
Word(a) ==
    LET RECURSIVE W(_)
        W(k) == IF k = WordBytes THEN 0
                ELSE Load(U(a + k)) * 2^(ByteBits * k) + W(k + 1)
    IN  W(0)

\* Mutant of fetchint: the addr >= p->sz test dropped.
fetchint_nostart(addr) ==
    IF U(addr + WordBytes) > sz THEN Fail ELSE Ok(Word(addr))

\* fetchint: bounds check with the wrapping sum addr + 8, then the load.
fetchint(addr) ==
    IF addr >= sz \/ U(addr + WordBytes) > sz THEN Fail
    ELSE Ok(Word(addr))

\* fetchstr: scan from addr up to p->sz for the NUL; the length on success.
fetchstr(addr) ==
    LET RECURSIVE Scan(_)
        Scan(s) == IF s >= sz THEN Fail
                   ELSE IF Load(s) = 0 THEN Ok(s - addr)
                   ELSE Scan(s + 1)
    IN  IF addr >= sz THEN Fail ELSE Scan(addr)

\* Mutant of argptr: the i >= p->sz test dropped.
argptr_nostart(i, size) ==
    IF U(i + size) > sz THEN Fail ELSE Ok(i)

\* argptr on register value i: the int size is sign-extended to uint64_t
\* before the wrapping sum i + size.
argptr(i, size) ==
    IF i >= sz \/ U(i + size) > sz THEN Fail ELSE Ok(i)

\* argstr: argint never fails for n <= 3, so this is fetchstr of the register.
argstr(reg) == fetchstr(reg)

\* Mutant of sys_exec: the bound test i > ARRAY_SIZE(argv), off by one.
sys_exec_overrun(path, uargv) ==
    LET RECURSIVE Walk(_)
        Walk(i) ==
            IF i > MAXARG THEN Fail
            ELSE LET w == fetchint(U(uargv + WordBytes * i))
                 IN  IF ~w.ok THEN Fail
                     ELSE IF w.val = 0 THEN Ok(i)
                     ELSE IF ~fetchstr(w.val).ok THEN Fail
                     ELSE Walk(i + 1)
    IN  IF ~argstr(path).ok THEN Fail ELSE Walk(0)

\* sys_exec up to the call of execve: path is register x1, uargv register
\* x2; the result carries argc, the index at which the NULL was stored.
sys_exec(path, uargv) ==
    LET RECURSIVE Walk(_)
        Walk(i) ==
            IF i >= MAXARG THEN Fail
            ELSE LET w == fetchint(U(uargv + WordBytes * i))
                 IN  IF ~w.ok THEN Fail
                     ELSE IF w.val = 0 THEN Ok(i)
                     ELSE IF ~fetchstr(w.val).ok THEN Fail
                     ELSE Walk(i + 1)
    IN  IF ~argstr(path).ok THEN Fail ELSE Walk(0)

Init == /\ mem \in [0 .. (MemSize - 1) -> Bytes]
        /\ sz \in 0 .. MemSize

\* Nothing changes: every state is one input to the operators above.
Next == UNCHANGED vars

Spec == Init /\ [][Next]_vars

-----------------------------------------------------------------------------
(* Reference definitions, in unbounded integer arithmetic.                *)

\* The bytes [a, a + len) all lie below p->sz.
Within(a, len) == a + len <= sz

StrRef(a) ==
    LET nuls == {k \in a .. (sz - 1) : Load(k) = 0}
    IN  IF nuls = {} THEN Fail ELSE Ok(Min(nuls) - a)

\* argv is well formed with argc = k: the words uargv[0..k] lie in user
\* memory, uargv[k] is NULL, every earlier one points at a string, and the
\* NULL itself fits in the kernel array of MAXARG entries.
ExecRef(path, uargv) ==
    LET WordAt(j) == Word(uargv + WordBytes * j)
        good == {k \in 0 .. (MAXARG - 1) :
                   /\ Within(uargv, WordBytes * (k + 1))
                   /\ WordAt(k) = 0
                   /\ \A j \in 0 .. (k - 1) : WordAt(j) # 0 /\ StrRef(WordAt(j)).ok}
    IN  IF ~StrRef(path).ok \/ good = {} THEN Fail ELSE Ok(Min(good))

-----------------------------------------------------------------------------
\* fetchint succeeds exactly when the whole 8-byte word lies in the
\* process's memory, even for an addr near the top of the address space
\* where addr + 8 wraps to a small number.
FetchIntMatchesRef ==
    \A a \in Addr : fetchint(a).ok <=> Within(a, WordBytes)

\* argptr accepts a non-negative size exactly when [i, i + size) lies in
\* the process's memory and starts inside it, wrap of i + size included.
ArgptrMatchesRef ==
    \A i \in Addr, size \in 0 .. WordBytes :
        argptr(i, size).ok <=> (i < sz /\ Within(i, size))

\* sys_exec accepts exactly the well-formed (path, argv) pairs, with the
\* right argc: never an argv whose NULL would be stored past argv[MAXARG-1],
\* never one with an unterminated string or a word outside user memory.
ExecArgvMatchesRef ==
    \A path \in 0 .. MemSize, uargv \in (0 .. MemSize) \cup {2^AddrBits - 1} :
        sys_exec(path, uargv) = ExecRef(path, uargv)
=============================================================================
