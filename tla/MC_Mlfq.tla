------------------------------ MODULE MC_Mlfq -------------------------------
(* Small instances of Mlfq for TLC. *)
EXTENDS Mlfq

\* main joins all its workers or the first; main and that one share a mutex.
MainJoins == {<<1, 2>>, <<1, 3>>}
MainAndWorkerLock == {<<1, 1>>, <<2, 1>>}
FirstJoined == {<<1, 2>>}
=============================================================================
