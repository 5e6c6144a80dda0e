------------------------------- MODULE Strings -------------------------------
(***************************************************************************)
(* The string and memory routines of src/inc/string.h.  Each is an         *)
(* operator that follows its C loop byte by byte on a memory m, reading    *)
(* the memory as it stands after the bytes already written, so that a      *)
(* copy between overlapping buffers behaves as the code does.  Addresses   *)
(* are 1 .. M (0 is the null pointer); a byte is 0 (NUL) .. NChar - 1.     *)
(* The memory is fixed per state: every state is one input, and the        *)
(* properties compare each routine with a reference definition on every    *)
(* argument that keeps its buffers inside the memory.                      *)
(*                                                                         *)
(* size_t is unbounded here; int is IntBits bits wide, for memset's        *)
(* int m = n.                                                              *)
(***************************************************************************)
EXTENDS Integers, FiniteSetsExt

CONSTANTS
    M,        \* bytes of memory
    NChar,    \* values of a byte
    IntBits   \* width of int, scaled

Mem  == 1 .. M
Char == 0 .. (NChar - 1)
NULL == 0

\* (int)n of a size_t: the low IntBits bits, read as signed.
ToInt(n) ==
    LET v == n % (2^IntBits)
    IN  IF v >= 2^(IntBits - 1) THEN v - 2^IntBits ELSE v

VARIABLE mem
vars == <<mem>>

\* A byte of m; outside the memory every byte reads as NUL and every
\* store is lost, so each loop below ends.
Load(m, a) == IF a \in Mem THEN m[a] ELSE 0
Store(m, a, c) == IF a \in Mem THEN [m EXCEPT ![a] = c] ELSE m

-----------------------------------------------------------------------------
(* Lengths and searches.                                                  *)

strlen(m, s) ==
    LET RECURSIVE L(_)
        L(n) == IF Load(m, s + n) = 0 THEN n ELSE L(n + 1)
    IN  L(0)

\* Mutant of strnlen: the size > 0 test dropped.
strnlen_nobound(m, s, size) == strlen(m, s)

strnlen(m, s, size) ==
    LET RECURSIVE L(_)
        L(n) == IF size - n > 0 /\ Load(m, s + n) # 0 THEN L(n + 1) ELSE n
    IN  L(0)

\* strchr: the address of the first c before the NUL, or NULL.
strchr(m, s, c) ==
    LET RECURSIVE F(_)
        F(a) == IF Load(m, a) = 0 THEN NULL
                ELSE IF Load(m, a) = c THEN a ELSE F(a + 1)
    IN  F(s)

\* strfind: the address of the first c, or of the NUL.
strfind(m, s, c) ==
    LET RECURSIVE F(_)
        F(a) == IF Load(m, a) = 0 \/ Load(m, a) = c THEN a ELSE F(a + 1)
    IN  F(s)

\* memfind: s + the index of the first c among n bytes, or s + n.
memfind(m, s, c, n) ==
    LET RECURSIVE F(_)
        F(i) == IF i < n /\ Load(m, s + i) # c THEN F(i + 1) ELSE s + i
    IN  F(0)

-----------------------------------------------------------------------------
(* Comparisons: the difference of the first bytes that differ.            *)

strcmp(m, p, q) ==
    LET RECURSIVE C(_)
        C(k) == IF Load(m, p + k) # 0 /\ Load(m, p + k) = Load(m, q + k)
                THEN C(k + 1) ELSE Load(m, p + k) - Load(m, q + k)
    IN  C(0)

\* Mutant of strncmp: the n == 0 test dropped.
strncmp_nozero(m, p, q, n) ==
    LET RECURSIVE C(_, _)
        C(k, left) == IF left > 0 /\ Load(m, p + k) # 0 /\ Load(m, p + k) = Load(m, q + k)
                      THEN C(k + 1, left - 1) ELSE Load(m, p + k) - Load(m, q + k)
    IN  C(0, n)

strncmp(m, p, q, n) ==
    LET RECURSIVE C(_, _)
        C(k, left) ==
            IF left > 0 /\ Load(m, p + k) # 0 /\ Load(m, p + k) = Load(m, q + k)
            THEN C(k + 1, left - 1)
            ELSE IF left = 0 THEN 0 ELSE Load(m, p + k) - Load(m, q + k)
    IN  C(0, n)

memcmp(m, v1, v2, n) ==
    LET RECURSIVE C(_)
        C(k) == IF k = n THEN 0
                ELSE IF Load(m, v1 + k) # Load(m, v2 + k)
                     THEN Load(m, v1 + k) - Load(m, v2 + k)
                     ELSE C(k + 1)
    IN  C(0)

-----------------------------------------------------------------------------
(* Copies: each returns the memory after the call.                        *)

strcpy(m, dst, src) ==
    LET RECURSIVE C(_, _)
        C(m1, k) == LET c == Load(m1, src + k)
                        m2 == Store(m1, dst + k, c)
                    IN  IF c = 0 THEN m2 ELSE C(m2, k + 1)
    IN  C(m, 0)

strcat(m, dst, src) == strcpy(m, dst + strlen(m, dst), src)

\* strncpy: size bytes to dst; src stops advancing at its NUL, which
\* pads the rest.  The test *src != '\0' reads src after the store.
strncpy(m, dst, src, size) ==
    LET RECURSIVE C(_, _, _)
        C(m1, i, s) ==
            IF i >= size THEN m1
            ELSE LET m2 == Store(m1, dst + i, Load(m1, s))
                 IN  C(m2, i + 1, IF Load(m2, s) # 0 THEN s + 1 ELSE s)
    IN  C(m, 0, src)

\* Mutant of strlcpy: the loop test --size > 0 written size-- > 0.
strlcpy_post(m, dst, src, size) ==
    LET RECURSIVE C(_, _, _)
        C(m1, k, left) ==
            IF left > 0 /\ Load(m1, src + k) # 0
            THEN C(Store(m1, dst + k, Load(m1, src + k)), k + 1, left - 1)
            ELSE [mem |-> Store(m1, dst + k, 0), ret |-> k]
    IN  IF size > 0 THEN C(m, 0, size) ELSE [mem |-> m, ret |-> 0]

\* strlcpy: at most size - 1 bytes and a NUL; returns the bytes copied.
strlcpy(m, dst, src, size) ==
    LET RECURSIVE C(_, _, _)
        C(m1, k, left) ==
            IF left - 1 > 0 /\ Load(m1, src + k) # 0
            THEN C(Store(m1, dst + k, Load(m1, src + k)), k + 1, left - 1)
            ELSE [mem |-> Store(m1, dst + k, 0), ret |-> k]
    IN  IF size > 0 THEN C(m, 0, size) ELSE [mem |-> m, ret |-> 0]

\* Mutant of memset: the loop test --m >= 0 written --m > 0.
memset_short(m, v, c, n) ==
    LET RECURSIVE S(_, _, _)
        S(m1, k, left) == IF left - 1 > 0 THEN S(Store(m1, v + k, c), k + 1, left - 1)
                          ELSE m1
    IN  S(m, 0, ToInt(n))

\* memset: the count is int m = n; the loop runs while --m >= 0.
memset(m, v, c, n) ==
    LET RECURSIVE S(_, _, _)
        S(m1, k, left) == IF left - 1 >= 0 THEN S(Store(m1, v + k, c), k + 1, left - 1)
                          ELSE m1
    IN  S(m, 0, ToInt(n))

\* Mutant of memmove: always the forward loop.
memmove_fwd(m, dst, src, n) ==
    LET RECURSIVE Fwd(_, _)
        Fwd(m1, k) == IF k = n THEN m1
                      ELSE Fwd(Store(m1, dst + k, Load(m1, src + k)), k + 1)
    IN  Fwd(m, 0)

\* memmove: backwards when src lies below dst and the buffers overlap.
memmove(m, dst, src, n) ==
    LET RECURSIVE Fwd(_, _), Bwd(_, _)
        Fwd(m1, k) == IF k = n THEN m1
                      ELSE Fwd(Store(m1, dst + k, Load(m1, src + k)), k + 1)
        Bwd(m1, k) == IF k = 0 THEN m1
                      ELSE Bwd(Store(m1, dst + k - 1, Load(m1, src + k - 1)), k - 1)
    IN  IF src < dst /\ src + n > dst THEN Bwd(m, n) ELSE Fwd(m, 0)

memcpy(m, dst, src, n) == memmove(m, dst, src, n)

Init == mem \in [Mem -> Char]

\* Nothing changes: every state is one input to the operators above.
Next == UNCHANGED vars

Spec == Init /\ [][Next]_vars

-----------------------------------------------------------------------------
(* Reference definitions, over the memory as it is before the call.       *)

\* A NUL lies at or after s in the memory, and the string at s ends there.
Terminated(s) == \E a \in Mem : a >= s /\ mem[a] = 0
Len(s) == Min({a \in Mem : a >= s /\ mem[a] = 0}) - s

\* The buffer [a, a + n) lies in the memory.
Fits(a, n) == a + n <= M + 1

\* Two buffers share no byte.
Apart(a, n, b, k) == a + n <= b \/ b + k <= a

\* The memory with [dst, dst + n) holding the bytes of f(0), .., f(n - 1).
With(dst, n, f(_)) == [a \in Mem |-> IF dst <= a /\ a < dst + n THEN f(a - dst) ELSE mem[a]]

\* The sign of the first difference of the byte strings x and y of length
\* n, or 0.
Sign(v) == IF v > 0 THEN 1 ELSE IF v < 0 THEN -1 ELSE 0
LexRef(x, y, n) ==
    LET diff == {k \in 0 .. (n - 1) : x[k] # y[k]}
    IN  IF diff = {} THEN 0 ELSE Sign(x[Min(diff)] - y[Min(diff)])

\* The bytes of a string and its NUL, then NULs.
StrBytes(s) == [k \in 0 .. M |-> IF k < Len(s) THEN mem[s + k] ELSE 0]
RawBytes(s) == [k \in 0 .. M |-> Load(mem, s + k)]

-----------------------------------------------------------------------------
\* memmove and memcpy copy n bytes from src to dst, as a copy through a
\* separate buffer would, whichever way the buffers overlap.
MemmoveMatchesRef ==
    \A dst, src \in Mem, n \in 0 .. M :
        Fits(dst, n) /\ Fits(src, n) =>
            /\ memmove(mem, dst, src, n) = With(dst, n, LAMBDA k : mem[src + k])
            /\ memcpy(mem, dst, src, n) = memmove(mem, dst, src, n)

\* Between buffers that do not overlap, strcpy and strcat copy the string
\* and its NUL, strncpy fills size bytes with the string and NUL padding
\* (no NUL when the string has size bytes or more), and strlcpy copies at
\* most size - 1 bytes, always ends them with a NUL, and returns their number.
CopiesMatchRef ==
    \A dst, src \in Mem, size \in 0 .. M :
        Terminated(src) =>
        LET len == Len(src) IN
        /\ Fits(dst, len + 1) /\ Apart(dst, len + 1, src, len + 1) =>
              strcpy(mem, dst, src) = With(dst, len + 1, LAMBDA k : StrBytes(src)[k])
        /\ Terminated(dst) /\ Fits(dst, Len(dst) + len + 1)
           /\ Apart(dst, Len(dst) + len + 1, src, len + 1) =>
              strcat(mem, dst, src) =
                  With(dst + Len(dst), len + 1, LAMBDA k : StrBytes(src)[k])
        /\ Fits(dst, size) /\ Apart(dst, size, src, len + 1) =>
              strncpy(mem, dst, src, size) = With(dst, size, LAMBDA k : StrBytes(src)[k])
        /\ Fits(dst, size) /\ Apart(dst, size, src, len + 1) =>
              LET n == IF size = 0 THEN 0 ELSE Min({len, size - 1})
              IN  strlcpy(mem, dst, src, size) =
                      [mem |-> IF size = 0 THEN mem
                               ELSE With(dst, n + 1, LAMBDA k : IF k < n THEN mem[src + k] ELSE 0),
                       ret |-> n]

\* strcmp and strncmp order strings, and memcmp byte arrays, by their
\* first differing byte; strncmp looks at no byte past the n-th.
ComparesMatchRef ==
    \A p, q \in Mem, n \in 0 .. M :
        /\ Terminated(p) /\ Terminated(q) =>
              /\ Sign(strcmp(mem, p, q)) = LexRef(StrBytes(p), StrBytes(q), M + 1)
              /\ Sign(strncmp(mem, p, q, n)) = LexRef(StrBytes(p), StrBytes(q), n)
        /\ Fits(p, n) /\ Fits(q, n) =>
              Sign(memcmp(mem, p, q, n)) = LexRef(RawBytes(p), RawBytes(q), n)

\* strlen and strnlen count the bytes before the NUL (strnlen at most
\* size); strchr finds the first c before the NUL or returns NULL, strfind
\* the first c or the NUL, memfind the first c of n bytes or their end.
SearchesMatchRef ==
    \A s \in Mem, c \in Char \ {0}, n \in 0 .. M :
        LET At(S) == IF S = {} THEN NULL ELSE Min(S) IN
        /\ Terminated(s) =>
              /\ strlen(mem, s) = Len(s)
              /\ strnlen(mem, s, n) = Min({Len(s), n})
              /\ strchr(mem, s, c) = At({a \in s .. (s + Len(s) - 1) : mem[a] = c})
              /\ strfind(mem, s, c) = At({a \in s .. (s + Len(s)) : mem[a] = c \/ mem[a] = 0})
        /\ Fits(s, n) =>
              memfind(mem, s, c, n) = At({a \in s .. (s + n - 1) : mem[a] = c} \cup {s + n})

\* memset fills exactly the n bytes at v with c, for every n an int can
\* hold, which covers every size the kernel passes it (sizeof a context,
\* a trap frame, sys_exec's argv); int m = n makes larger sizes write
\* nothing.
MemsetFillsN ==
    \A v \in Mem, c \in Char, n \in 0 .. M :
        Fits(v, n) /\ n < 2^(IntBits - 1) =>
            memset(mem, v, c, n) = With(v, n, LAMBDA k : c)

=============================================================================
