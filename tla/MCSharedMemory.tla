---------------------------- MODULE MCSharedMemory -----------------------------
(* Instances of SharedMemory for TLC.                                         *)
EXTENDS SharedMemory

CONSTANTS alex, chat, ann

\* Runs of one user in one session, all stating the same fact.
OneSession == [r \in Run |-> chat]
OneUser == [r \in Run |-> ann]
SameFact == [r \in Run |-> alex]

\* A failure the run survives, and one it does not, with the write applied.
Degraded == {"ok", "connect_error", "answer_lost"}
================================================================================
