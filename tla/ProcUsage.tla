----------------------------- MODULE ProcUsage ------------------------------
(***************************************************************************)
(* The CPU percentages of process.go, as the exact fraction num/den of     *)
(* ticks used over ticks elapsed: times 100 and without the rounding of    *)
(* float64.                                                                *)
(***************************************************************************)
EXTENDS Integers

CONSTANT Word   \* 2^64 in the code: unsigned subtraction wraps at it

Usage == [num : Nat, den : Nat \ {0}]

\* Mutant: signed subtraction.
SignedSub(a, b) == a - b

\* cpuTicks2 - cpuTicks1 on uint64: it wraps instead of going negative.
Sub64(a, b) == (a - b) % Word

Zero == [num |-> 0, den |-> 1]

InstantCPUPercent(ticks1, ticks2, elapsedTicks) ==
  IF elapsedTicks <= 0 THEN Zero
  ELSE [num |-> Sub64(ticks2, ticks1), den |-> elapsedTicks]

AverageCPUPercent(cpuTicks, starttime, uptime) ==
  IF uptime - starttime <= 0 THEN Zero
  ELSE [num |-> cpuTicks, den |-> uptime - starttime]
=============================================================================
