-------------------------------- MODULE Tlb ---------------------------------
(***************************************************************************)
(* The translation cache of p3/code/my_vm.c: a list of entries, the most   *)
(* recently used first.  An entry names a page and the cell of the page    *)
(* table that holds the page's frame.                                      *)
(***************************************************************************)
EXTENDS Naturals, Sequences, SequencesExt

CONSTANT TlbEntries    \* TLB_ENTRIES

ASSUME TlbAssumption == TlbEntries \in Nat \ {0}

\* search_and_remove's search: the entry's position, 0 if there is none.
PositionOf(tlb, page) == SelectInSeq(tlb, LAMBDA e : e.page = page)

\* Variant: only the cache's first entry is compared.
WithoutFront(tlb, page) ==
    IF tlb # <<>> /\ Head(tlb).page = page THEN Tail(tlb) ELSE tlb

\* search_and_remove
Without(tlb, page) ==
    LET i == PositionOf(tlb, page)
    IN  IF i = 0 THEN tlb ELSE RemoveAt(tlb, i)

\* Variant: the cache is never full.
EvictedNever(tlb) == tlb

\* evict_lru_cached_entry, when the list is full.
Evicted(tlb) == IF Len(tlb) = TlbEntries THEN Front(tlb) ELSE tlb

\* check_TLB: the cell a translation returns, walk being what the page tables
\* say ...
Translation(tlb, page, walk) ==
    LET i == PositionOf(tlb, page)
    IN  IF i = 0 THEN walk ELSE tlb[i].cell

\* ... and the list it leaves.
Cached(tlb, page, walk) ==
    LET entry == [page |-> page, cell |-> Translation(tlb, page, walk)]
        rest  == IF PositionOf(tlb, page) = 0
                 THEN Evicted(tlb) ELSE Without(tlb, page)
    IN  <<entry>> \o rest
=============================================================================
