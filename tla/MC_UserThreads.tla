--------------------------- MODULE MC_UserThreads ---------------------------
(* Small instances of UserThreads for TLC. *)
EXTENDS UserThreads

\* main joins its workers, and the workers join each other.
MainJoins == {<<1, 2>>, <<1, 3>>}
ChainJoins == {<<1, 2>>, <<1, 3>>, <<2, 3>>}

\* All threads contend for one mutex; main and one worker for a second.
OneForAll == {<<1, 1>>, <<2, 1>>, <<3, 1>>}
OneForAllOneForTwo == OneForAll \cup {<<1, 2>>, <<2, 2>>}
=============================================================================
