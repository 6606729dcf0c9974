------------------------------- MODULE MC_Vm --------------------------------
(* Small instances of Vm for TLC. *)
EXTENDS Vm

\* From the last word of a page to the next page, and from the end of a payload;
\* within a page.
CrossingAccesses == {<<Payload - 1, 2>>, <<Payload, 1>>}
OneAccess == {<<0, 1>>}

Clients == Permutations(Client)
=============================================================================
