------------------------------ MODULE MC_Psjf -------------------------------
(* Small instances of Psjf for TLC. *)
EXTENDS Psjf

\* main joins its first worker; the workers contend for a mutex.
WorkersLock == {<<2, 1>>, <<3, 1>>}
FirstJoined == {<<1, 2>>}
=============================================================================
