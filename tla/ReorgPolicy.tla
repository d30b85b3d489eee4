---------------------------- MODULE ReorgPolicy ----------------------------
(***************************************************************************)
(* The planning every indexer and processor shares: how far a pass may go  *)
(* and how far behind its cursor it starts.                                *)
(***************************************************************************)
EXTENDS Naturals

CONSTANTS Confirmations, ReorgBuffer, ChunkSize

ASSUME ReorgPolicyAssumption ==
  /\ Confirmations \in Nat
  /\ ReorgBuffer \in Nat
  /\ ChunkSize \in Nat \ {0}

AtLeast(a, b) == IF a >= b THEN a ELSE b
AtMost(a, b) == IF a <= b THEN a ELSE b
Minus(a, b) == AtLeast(a, b) - b     \* Math.max(0, a - b)

\* Mutant: confirmations are added.
ComputeTargetBlockAhead(latest) == latest + Confirmations

ComputeTargetBlock(latest) == Minus(latest, Confirmations)

\* Mutant: the window is one block short.
ComputeRescanFromBlockShort(start, last) ==
  IF ReorgBuffer = 0 THEN AtLeast(start, last + 1)
  ELSE AtLeast(start, Minus(last + 2, ReorgBuffer))

ComputeRescanFromBlock(start, last) ==
  IF ReorgBuffer = 0 THEN AtLeast(start, last + 1)
  ELSE AtLeast(start, Minus(last + 1, ReorgBuffer))

ShouldSync(from, target) == target > 0 /\ from <= target

\* The last block of the chunk that starts at from.
CurrentTo(from, target) == AtMost(target, from + ChunkSize - 1)
=============================================================================
