-------------------------------- MODULE Rand --------------------------------
(***************************************************************************)
(* rand of the memory tester: a counter and an index, both static, without *)
(* a lock, and a table of two words that the index is masked with the      *)
(* length of.  Each load and each store is a step.  The counter is kept    *)
(* modulo MODULUS, a power of two above the length: the mask sees no more. *)
(***************************************************************************)
EXTENDS Naturals

CONSTANTS CPU, MODULUS

sz == 2             \* words in random_data.h

VARIABLES
    pc,             \* where each core is in rand
    it, mod,        \* the static variables
    reg             \* the register of a load-modify-store, per core

vars == <<pc, it, mod, reg>>

Init ==
    /\ pc = [c \in CPU |-> "load"]
    /\ it = 0 /\ mod = 0
    /\ reg = [c \in CPU |-> 0]

Transition(c, from, to) == pc[c] = from /\ pc' = [pc EXCEPT ![c] = to]

\* sz & x, for a length of two.
Masked(x) == sz * ((x \div sz) % 2)

\* mod = sz & it
LoadIt(c) ==
    /\ Transition(c, "load", "mask")
    /\ reg' = [reg EXCEPT ![c] = it]
    /\ UNCHANGED <<it, mod>>

StoreMod(c) ==
    /\ Transition(c, "mask", "count")
    /\ mod' = Masked(reg[c])
    /\ UNCHANGED <<it, reg>>

\* it++
LoadCount(c) ==
    /\ Transition(c, "count", "store")
    /\ reg' = [reg EXCEPT ![c] = it]
    /\ UNCHANGED <<it, mod>>

StoreCount(c) ==
    /\ Transition(c, "store", "return")
    /\ it' = (reg[c] + 1) % MODULUS
    /\ UNCHANGED <<mod, reg>>

\* return uirandom[mod]; the next call may follow.
Return(c) ==
    /\ Transition(c, "return", "load")
    /\ UNCHANGED <<it, mod, reg>>

rand(c) == LoadIt(c) \/ StoreMod(c) \/ LoadCount(c) \/ StoreCount(c) \/ Return(c)

Next == \E c \in CPU : rand(c)

Spec == Init /\ [][Next]_vars

----------------------------------------------------------------------------
\* The index is below the number of words sz is computed to be
\* (memtester.c 13).
IndexInTable == \A c \in CPU : pc[c] = "return" => mod < sz
=============================================================================
