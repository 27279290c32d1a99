------------------------------ MODULE LoopGuard ------------------------------
(* The state-loop half of engine/orchestrator/loop_guard.py.  The other half, *)
(* the duplicate-call guard, is the membership test on `seen' in StepRunner.  *)
EXTENDS Naturals, Sequences

\* Mutant of CycleLengths: a guard that looks for the period the loop has.
CycleLengthsTo6 == 1..6

\* The lengths of the cycles the guard looks for: range(1, 6).
CycleLengths == 1..5

\* h ends in three copies of one chunk of n states.
EndsInThreeCopies(h, n) ==
  /\ Len(h) >= 3 * n
  /\ \A i \in 1..n :
       LET a == h[Len(h) - 3 * n + i]
           b == h[Len(h) - 2 * n + i]
           c == h[Len(h) - n + i]
       IN  a = b /\ b = c

CheckStateLoop(h) == \E n \in CycleLengths : EndsInThreeCopies(h, n)
=============================================================================
