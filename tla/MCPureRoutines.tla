---------------------------- MODULE MCPureRoutines ----------------------------
(***************************************************************************)
(* The pure routines checked together: the argument layer (SyscallArgs),   *)
(* the string and memory routines (Strings) and strtol (Strtol).  Each     *)
(* state is one input to one of them: input names which, and the other    *)
(* modules' variables hold a fixed value.  Every property below is the     *)
(* property of its module, asked of that module's inputs.                  *)
(***************************************************************************)
EXTENDS Integers

CONSTANTS
    AddrBits, ByteBits, WordBytes, MemSize, MAXARG,   \* SyscallArgs
    M, NChar, IntBits,                                \* Strings
    L, LongBits, Alphabet, Bases                      \* Strtol

VARIABLES input, umem, usz, smem, buf
vars == <<input, umem, usz, smem, buf>>

Args == INSTANCE SyscallArgs WITH mem <- umem, sz <- usz
Str  == INSTANCE Strings WITH mem <- smem
Tol  == INSTANCE Strtol

NoUMem == [a \in 0 .. (MemSize - 1) |-> 0]
NoSMem == [a \in 1 .. M |-> 0]
NoBuf  == [i \in 1 .. L |-> 0]

Init ==
    \/ input = "args" /\ Args!Init /\ smem = NoSMem /\ buf = NoBuf
    \/ input = "mem" /\ Str!Init /\ umem = NoUMem /\ usz = 0 /\ buf = NoBuf
    \/ input = "str" /\ Tol!Init /\ umem = NoUMem /\ usz = 0 /\ smem = NoSMem

Next == UNCHANGED vars

Spec == Init /\ [][Next]_vars

-----------------------------------------------------------------------------
\* fetchint succeeds exactly when the whole word lies in user memory,
\* including where addr + 8 wraps (SyscallArgs).
FetchIntMatchesRef == input = "args" => Args!FetchIntMatchesRef

\* argptr accepts exactly the in-memory buffers (SyscallArgs).
ArgptrMatchesRef == input = "args" => Args!ArgptrMatchesRef

\* sys_exec's argv walk accepts exactly the well-formed argv arrays that
\* fit argv[MAXARG], with the right argc (SyscallArgs).
ExecArgvMatchesRef == input = "args" => Args!ExecArgvMatchesRef

\* memmove and memcpy copy correctly between overlapping buffers (Strings).
MemmoveMatchesRef == input = "mem" => Str!MemmoveMatchesRef

\* strcpy, strcat, strncpy and strlcpy write what their contracts say,
\* strlcpy's NUL and strncpy's padding included (Strings).
CopiesMatchRef == input = "mem" => Str!CopiesMatchRef

\* strcmp, strncmp and memcmp order by the first differing byte (Strings).
ComparesMatchRef == input = "mem" => Str!ComparesMatchRef

\* strlen, strnlen, strchr, strfind and memfind find what they should
\* (Strings).
SearchesMatchRef == input = "mem" => Str!SearchesMatchRef

\* memset fills exactly n bytes for every n an int holds (Strings).
MemsetFillsN == input = "mem" => Str!MemsetFillsN

\* strtol returns the digits' value modulo 2^LongBits and stops at the
\* first non-digit (Strtol).
StrtolMatchesRef == input = "str" => Tol!StrtolMatchesRef
=============================================================================
