------------------------------- MODULE Strtol -------------------------------
(***************************************************************************)
(* strtol of src/inc/string.h on every string of up to L characters over   *)
(* a small ASCII alphabet that exercises each of its branches: both        *)
(* whitespace characters, both signs, the 0x and 0 prefixes, a digit that  *)
(* only hex accepts, one that octal rejects, and an upper-case letter.     *)
(* long is LongBits bits wide.  val * base + dig overflowing a long is     *)
(* undefined in C; the AArch64 build computes it with a multiply-add that  *)
(* wraps, and so does the model.                                           *)
(***************************************************************************)
EXTENDS Integers, FiniteSetsExt

CONSTANTS
    L,          \* characters before the terminating NUL
    LongBits,   \* width of long, scaled
    Alphabet,   \* the characters a string is made of (ASCII codes)
    Bases       \* the base arguments

VARIABLE buf    \* the string: buf[1 .. L], then a NUL
vars == <<buf>>

\* The character at index i; buf[L + 1] is the NUL.
At(i) == IF i \in 1 .. L THEN buf[i] ELSE 0

\* A long: the low LongBits bits, read as signed.
Long(x) ==
    LET v == x % (2^LongBits)
    IN  IF v >= 2^(LongBits - 1) THEN v - 2^LongBits ELSE v

\* The loop's dig: the value of a character, or -1 where it breaks.
Dig(c) ==
    CASE c \in 48 .. 57  -> c - 48
      [] c \in 97 .. 122 -> c - 97 + 10
      [] c \in 65 .. 90  -> c - 65 + 10
      [] OTHER           -> -1

\* Mutant of strtol: the test dig >= base written dig > base.
strtol_digbase(base0) ==
    LET RECURSIVE Skip(_), Digits(_, _)
        Skip(i) == IF At(i) \in {32, 9} THEN Skip(i + 1) ELSE i
        s0 == Skip(1)
        s1 == IF At(s0) \in {43, 45} THEN s0 + 1 ELSE s0
        pre == IF base0 \in {0, 16} /\ At(s1) = 48 /\ At(s1 + 1) = 120
               THEN [s |-> s1 + 2, base |-> 16]
               ELSE IF base0 = 0 /\ At(s1) = 48 THEN [s |-> s1 + 1, base |-> 8]
               ELSE [s |-> s1, base |-> IF base0 = 0 THEN 10 ELSE base0]
        Digits(i, val) ==
            IF Dig(At(i)) < 0 \/ Dig(At(i)) > pre.base THEN [end |-> i, val |-> val]
            ELSE Digits(i + 1, Long(val * pre.base + Dig(At(i))))
        d == Digits(pre.s, 0)
    IN  [val |-> IF At(s0) = 45 THEN Long(-d.val) ELSE d.val, end |-> d.end]

\* strtol(s, &end, base0): skip blanks and tabs, take a sign, a 0x prefix
\* (base 0 or 16) or a 0 prefix (base 0), then digits below the base.
\* The result is the value and the index end points at.
strtol(base0) ==
    LET RECURSIVE Skip(_), Digits(_, _)
        Skip(i) == IF At(i) \in {32, 9} THEN Skip(i + 1) ELSE i
        s0 == Skip(1)
        s1 == IF At(s0) \in {43, 45} THEN s0 + 1 ELSE s0
        pre == IF base0 \in {0, 16} /\ At(s1) = 48 /\ At(s1 + 1) = 120
               THEN [s |-> s1 + 2, base |-> 16]
               ELSE IF base0 = 0 /\ At(s1) = 48 THEN [s |-> s1 + 1, base |-> 8]
               ELSE [s |-> s1, base |-> IF base0 = 0 THEN 10 ELSE base0]
        Digits(i, val) ==
            IF Dig(At(i)) < 0 \/ Dig(At(i)) >= pre.base THEN [end |-> i, val |-> val]
            ELSE Digits(i + 1, Long(val * pre.base + Dig(At(i))))
        d == Digits(pre.s, 0)
    IN  [val |-> IF At(s0) = 45 THEN Long(-d.val) ELSE d.val, end |-> d.end]

Init == buf \in [1 .. L -> Alphabet]

\* Nothing changes: every state is one input to strtol.
Next == UNCHANGED vars

Spec == Init /\ [][Next]_vars

-----------------------------------------------------------------------------
(* Reference: the number the digits denote, in unbounded arithmetic.      *)

Idx == 1 .. (L + 1)

\* The first index, from i on, whose character is not in S.
FirstNotIn(i, S) == Min({j \in Idx : j >= i /\ At(j) \notin S})

\* The digits begin at first, in base b; they run to the first character
\* that is not a digit below b, and denote the sum of digit * b^place.
DigitsRef(first, b) ==
    LET last == FirstNotIn(first, {c \in Alphabet : Dig(c) \in 0 .. (b - 1)})
    IN  [end |-> last,
         val |-> MapThenSumSet(LAMBDA j : Dig(At(j)) * b^(last - 1 - j), first .. (last - 1))]

StrtolRef(base0) ==
    LET start == FirstNotIn(1, {32, 9})
        neg   == At(start) = 45
        sign  == IF At(start) \in {43, 45} THEN start + 1 ELSE start
        hex   == base0 \in {0, 16} /\ At(sign) = 48 /\ At(sign + 1) = 120
        d     == CASE hex                         -> DigitsRef(sign + 2, 16)
                   [] base0 = 0 /\ At(sign) = 48  -> DigitsRef(sign + 1, 8)
                   [] base0 = 0                   -> DigitsRef(sign, 10)
                   [] OTHER                       -> DigitsRef(sign, base0)
    IN  [end |-> d.end, val |-> IF neg THEN -d.val ELSE d.val]

-----------------------------------------------------------------------------
\* strtol stops at the first character that is not a digit of the base
\* and returns the number the digits before it denote whenever that fits
\* in a long; a larger one is returned modulo 2^LongBits, undetected, as
\* the comment at the digit loop admits.
StrtolMatchesRef ==
    \A base0 \in Bases :
        LET r == strtol(base0)  ref == StrtolRef(base0) IN
        /\ r.end = ref.end
        /\ r.val = Long(ref.val)
=============================================================================
