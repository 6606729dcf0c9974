------------------------------- MODULE Memory -------------------------------
(***************************************************************************)
(* What the virtual memory of p3/code/my_vm.c promises to its clients:     *)
(* t_malloc hands out allocations that are zeroed and that differ from the *)
(* live ones, put_value changes the words it names and no others, and      *)
(* get_value returns what was put there.                                   *)
(***************************************************************************)
EXTENDS Naturals, Sequences, Functions

CONSTANTS
    Client,     \* the threads that use the memory
    Base,       \* the addresses t_malloc may return
    Payload,    \* words an allocation has per page
    Requests,   \* the pages an allocation may have
    Accesses,   \* the <<offset, length>> that clients put and get
    Values      \* what they put

NULL == <<"page", 0>>       \* the NULL address, and an unset word

\* The i-th word of a value.
Datum(v, i) == <<"data", <<v, i>>>>

VARIABLES
    content,    \* per live allocation: its words
    result      \* who returned last, and with which words

vars == <<content, result>>

Init ==
    /\ content = <<>>
    /\ result = <<>>

Malloc(t, b, n) ==
    /\ b \notin DOMAIN content
    /\ content' = [d \in DOMAIN content \cup {b} |->
                      IF d \in DOMAIN content THEN content[d]
                                              ELSE [i \in 1..(n * Payload) |-> NULL]]
    /\ result' = <<t, <<<<"page", b>>>>>>

MallocFails(t) == result' = <<t, <<NULL>>>> /\ UNCHANGED content

Free(t, b) ==
    /\ b \in DOMAIN content
    /\ content' = Restrict(content, DOMAIN content \ {b})
    /\ result' = <<t, <<>>>>

\* Positions off + 1 to off + len.
Put(t, b, off, len, v) ==
    /\ b \in DOMAIN content
    /\ off + len <= Len(content[b])
    /\ content' = [content EXCEPT ![b] =
                      [i \in DOMAIN @ |-> IF i \in (off + 1)..(off + len)
                                          THEN Datum(v, i - off) ELSE @[i]]]
    /\ result' = <<t, <<>>>>

Get(t, b, off, len) ==
    /\ b \in DOMAIN content
    /\ off + len <= Len(content[b])
    /\ result' = <<t, SubSeq(content[b], off + 1, off + len)>>
    /\ UNCHANGED content

Next ==
    \E t \in Client :
        \/ MallocFails(t)
        \/ \E b \in Base :
              \/ \E n \in Requests : Malloc(t, b, n)
              \/ Free(t, b)
              \/ \E a \in Accesses :
                    \/ \E v \in Values : Put(t, b, a[1], a[2], v)
                    \/ Get(t, b, a[1], a[2])

Spec == Init /\ [][Next]_vars
=============================================================================
