------------------------------- MODULE MCProc -------------------------------
(* Proc with two CPUs and three slots.                                     *)
EXTENDS Proc

CONSTANTS c1, c2

MCCPUs == {c1, c2}

\* One CPU: three slots then contend for a single scheduler.
MCOneCPU == {c1}

=============================================================================
