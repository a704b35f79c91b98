------------------------------ MODULE MemTester ------------------------------
(***************************************************************************)
(* The memory tester: every core runs test_entry over a region of its own, *)
(* one after the other through the tests of a table.  A test fills or      *)
(* changes the two halves of the region in the same way and compares them. *)
(* The address of the region goes through meminfo, a global that all cores *)
(* write and read without a lock; compiled without optimisation, each use  *)
(* of it is a load.                                                        *)
(*                                                                         *)
(* A region is named by the core it is meant for.  mem_len is the same for *)
(* all cores and left out; the two lines a failed test prints are the step *)
(* that restarts the table.                                                *)
(***************************************************************************)
EXTENDS Naturals, Sequences

CONSTANTS
    CPU,        \* the cores, and the regions at 0x30800000 + TEST_SIZE * id
    Master,     \* core 0, whose region is the initial value of mem_base
    WIDTH,      \* bits in a word
    COUNT,      \* words in a half
    memtests    \* the table: the operation of each test and its passes

Op == {"fill", "xor", "mul", "div", "or", "and"}

ASSUME MemTesterAssumption ==
    /\ Master \in CPU
    /\ WIDTH \in Nat \ {0}
    /\ COUNT \in Nat \ {0}
    /\ memtests # <<>>
    /\ memtests \in Seq([op : Op, passes : Nat \ {0}])
    /\ \A k \in 1 .. Len(memtests) : memtests[k].op = "fill" \/ memtests[k].passes = 1
    /\ memtests[1].op = "fill"

\* 2^k.
Power[k \in Nat] == IF k = 0 THEN 1 ELSE 2 * Power[k - 1]

Word == 0 .. Power[WIDTH] - 1
Place == {"a", "b"} \X CPU \X (1 .. COUNT)  \* half, region, word

VARIABLES
    pc,         \* where each core is
    mem_base,   \* the region in meminfo
    bufa, bufb, \* the regions in whose first and second half a core works
    mem,        \* the tested memory
    i,          \* entry of the table, per core
    j,          \* pass of the test, per core
    n,          \* word, per core
    q,          \* operand or value, per core
    p3,         \* word loaded, per core
    res         \* a comparison of the pass has failed, per core

vars == <<pc, mem_base, bufa, bufb, mem, i, j, n, q, p3, res>>

\* What the memory holds is not read: the first test fills both halves.  They
\* differ here, so that a test of words not written would fail.
Init ==
    /\ pc = [c \in CPU |-> "entry"]
    /\ mem_base = Master
    /\ bufa = [c \in CPU |-> c] /\ bufb = [c \in CPU |-> c]
    /\ mem = [x \in Place |-> IF x[1] = "a" THEN 0 ELSE 1]
    /\ i = [c \in CPU |-> 1] /\ j = [c \in CPU |-> 1] /\ n = [c \in CPU |-> 1]
    /\ q = [c \in CPU |-> 0] /\ p3 = [c \in CPU |-> 0]
    /\ res = [c \in CPU |-> FALSE]

----------------------------------------------------------------------------
Transition(c, from, to) == pc[c] = from /\ pc' = [pc EXCEPT ![c] = to]

A(c) == <<"a", bufa[c], n[c]>>
B(c) == <<"b", bufb[c], n[c]>>

\* meminfo.mem_base = test_addr
SetBase(c) ==
    /\ Transition(c, "entry", "bufa")
    /\ mem_base' = c
    /\ UNCHANGED <<bufa, bufb, mem, i, j, n, q, p3, res>>

\* Mutant: the first half is the argument's, not meminfo's.
GetBufA_Mutant(c) ==
    /\ Transition(c, "bufa", "bufb")
    /\ bufa' = [bufa EXCEPT ![c] = Master]
    /\ UNCHANGED <<mem_base, bufb, mem, i, j, n, q, p3, res>>

\* bufa = meminfo.mem_base, and bufb = meminfo.mem_base + halflen.
GetBufA(c) ==
    /\ Transition(c, "bufa", "bufb")
    /\ bufa' = [bufa EXCEPT ![c] = mem_base]
    /\ UNCHANGED <<mem_base, bufb, mem, i, j, n, q, p3, res>>

GetBufB(c) ==
    /\ Transition(c, "bufb", "test")
    /\ bufb' = [bufb EXCEPT ![c] = mem_base]
    /\ UNCHANGED <<mem_base, bufa, mem, i, j, n, q, p3, res>>

\* A test starts; the ones that change the memory take an operand from rand.
BeginTest(c) ==
    /\ IF memtests[i[c]].op = "fill"
       THEN Transition(c, "test", "fill") /\ UNCHANGED q
       ELSE Transition(c, "test", "loada") /\ \E w \in Word : q' = [q EXCEPT ![c] = w]
    /\ UNCHANGED <<mem_base, bufa, bufb, mem, i, j, n, p3, res>>

\* Mutant: one word too many.
NextWord_Mutant(c, from, loop, after) ==
    IF n[c] <= COUNT
    THEN Transition(c, from, loop) /\ n' = [n EXCEPT ![c] = @ + 1]
    ELSE Transition(c, from, after) /\ n' = [n EXCEPT ![c] = 1]

\* The end of the loop body: the next word, or the comparison.
NextWord(c, from, loop, after) ==
    IF n[c] < COUNT
    THEN Transition(c, from, loop) /\ n' = [n EXCEPT ![c] = @ + 1]
    ELSE Transition(c, from, after) /\ n' = [n EXCEPT ![c] = 1]

\* *p1++ = *p2++ = value: the second half is written first.
FillB(c) ==
    /\ Transition(c, "fill", "copy")
    /\ \E w \in Word : q' = [q EXCEPT ![c] = w] /\ mem' = [mem EXCEPT ![B(c)] = w]
    /\ UNCHANGED <<mem_base, bufa, bufb, i, j, n, p3, res>>

\* Mutant: the first half keeps its old word.
FillA_Mutant(c) ==
    /\ NextWord(c, "copy", "fill", "cmpa")
    /\ UNCHANGED <<mem_base, bufa, bufb, mem, i, j, q, p3, res>>

FillA(c) ==
    /\ NextWord(c, "copy", "fill", "cmpa")
    /\ mem' = [mem EXCEPT ![A(c)] = q[c]] /\ q' = [q EXCEPT ![c] = 0]
    /\ UNCHANGED <<mem_base, bufa, bufb, i, j, p3, res>>

\* The bitwise or of the k low bits of two words, from the lowest one.
Or[k \in Nat] ==
    IF k = 0 THEN [w \in Nat \X Nat |-> 0]
    ELSE [w \in Nat \X Nat |->
            (IF w[1] % 2 = 1 \/ w[2] % 2 = 1 THEN 1 ELSE 0)
            + 2 * Or[k - 1][<<w[1] \div 2, w[2] \div 2>>]]

BitOr(x, y) == Or[WIDTH][<<x, y>>]

\* *p1++ op= q and *p2++ op= q, each a load and a store.  A divisor of zero
\* is made one (test_sub_comparison is an xor).  A register or local that the
\* code does not read again is put back to 0, which saves states.
Operate(op, x, y) ==
    CASE op = "or"  -> BitOr(x, y)
      [] op = "and" -> x + y - BitOr(x, y)
      [] op = "xor" -> BitOr(x, y) - (x + y - BitOr(x, y))
      [] op = "mul" -> (x * y) % Power[WIDTH]
      [] op = "div" -> x \div (IF y = 0 THEN 1 ELSE y)

Operated(c) == Operate(memtests[i[c]].op, p3[c], q[c])

Load(c, place) ==
    /\ p3' = [p3 EXCEPT ![c] = mem[place]]
    /\ UNCHANGED <<mem_base, bufa, bufb, mem, i, j, n, q, res>>

LoadA(c) == Transition(c, "loada", "storea") /\ Load(c, A(c))
LoadB(c) == Transition(c, "loadb", "storeb") /\ Load(c, B(c))

StoreA(c) ==
    /\ Transition(c, "storea", "loadb")
    /\ mem' = [mem EXCEPT ![A(c)] = Operated(c)] /\ p3' = [p3 EXCEPT ![c] = 0]
    /\ UNCHANGED <<mem_base, bufa, bufb, i, j, n, q, res>>

StoreB(c) ==
    /\ NextWord(c, "storeb", "loada", "cmpa")
    /\ mem' = [mem EXCEPT ![B(c)] = Operated(c)] /\ p3' = [p3 EXCEPT ![c] = 0]
    /\ UNCHANGED <<mem_base, bufa, bufb, i, j, q, res>>

\* compare_regions goes on to the end after a difference.
CompareA(c) == Transition(c, "cmpa", "cmpb") /\ Load(c, A(c))

CompareB(c) ==
    /\ NextWord(c, "cmpb", "cmpa", "result")
    /\ res' = [res EXCEPT ![c] = @ \/ p3[c] # mem[B(c)]]
    /\ p3' = [p3 EXCEPT ![c] = 0] /\ q' = [q EXCEPT ![c] = 0]
    /\ UNCHANGED <<mem_base, bufa, bufb, mem, i, j>>

\* The pass was good: the next pass of the test, or the next test; the table
\* starts again after its last entry.
Passed(c) ==
    /\ ~res[c]
    /\ Transition(c, "result", IF j[c] < memtests[i[c]].passes THEN "fill" ELSE "test")
    /\ IF j[c] < memtests[i[c]].passes
       THEN j' = [j EXCEPT ![c] = @ + 1] /\ UNCHANGED i
       ELSE /\ j' = [j EXCEPT ![c] = 1]
            /\ i' = [i EXCEPT ![c] = (@ % Len(memtests)) + 1]
    /\ UNCHANGED <<mem_base, bufa, bufb, mem, n, q, p3, res>>

\* Mutant: a failure leaves the table where it is.
Failed_Mutant(c) ==
    /\ res[c]
    /\ Transition(c, "result", "test")
    /\ res' = [res EXCEPT ![c] = FALSE]
    /\ UNCHANGED <<mem_base, bufa, bufb, mem, i, j, n, q, p3>>

\* The failure is printed, the rest of the table is skipped.
Failed(c) ==
    /\ res[c]
    /\ Transition(c, "result", "test")
    /\ i' = [i EXCEPT ![c] = 1]
    /\ j' = [j EXCEPT ![c] = 1]
    /\ res' = [res EXCEPT ![c] = FALSE]
    /\ UNCHANGED <<mem_base, bufa, bufb, mem, n, q, p3>>

test_entry(c) ==
    \/ SetBase(c) \/ GetBufA(c) \/ GetBufB(c)
    \/ BeginTest(c) \/ FillB(c) \/ FillA(c)
    \/ LoadA(c) \/ StoreA(c) \/ LoadB(c) \/ StoreB(c)
    \/ CompareA(c) \/ CompareB(c) \/ Passed(c) \/ Failed(c)

Next == \E c \in CPU : test_entry(c)

Spec == Init /\ [][Next]_vars

\* Every core keeps executing: test_entry neither waits nor takes interrupts.
FairSpec == Spec /\ \A c \in CPU : WF_vars(test_entry(c))

----------------------------------------------------------------------------
\* Type invariant.
TypeOK ==
    /\ pc \in [CPU -> {"entry", "bufa", "bufb", "test", "fill", "copy", "loada", "storea",
                       "loadb", "storeb", "cmpa", "cmpb", "result"}]
    /\ mem_base \in CPU /\ bufa \in [CPU -> CPU] /\ bufb \in [CPU -> CPU]
    /\ mem \in [Place -> Word] /\ q \in [CPU -> Word] /\ p3 \in [CPU -> Word]
    /\ i \in [CPU -> 1 .. Len(memtests)] /\ n \in [CPU -> 1 .. COUNT]
    /\ j \in [CPU -> Nat] /\ \A c \in CPU : j[c] \in 1 .. memtests[i[c]].passes
    /\ res \in [CPU -> BOOLEAN]

\* The halves whose addresses a core has taken from meminfo.
Halves(c) ==
    (IF pc[c] \in {"entry", "bufa"} THEN {} ELSE {<<"a", bufa[c]>>})
    \cup (IF pc[c] \in {"entry", "bufa", "bufb"} THEN {} ELSE {<<"b", bufb[c]>>})

Shares(c, d) == Halves(c) \cap Halves(d) # {}

\* In working memory a test fails only on a core that shares a half with
\* another one: every test, whatever its operand, leaves equal halves equal
\* (iram_test.c 53-74 and the tests of memtester.c).
AloneNeverFails ==
    \A c \in CPU : res[c] => \E d \in CPU \ {c} : Shares(c, d)

\* Of the cores that race for meminfo the last one to write it works in its
\* own region; a core that lost its first half has lost its second half too
\* (iram_test.c 45-50).
LastWriterKeepsRegion ==
    \A c \in CPU :
        /\ mem_base = c /\ pc[c] # "entry" => Halves(c) \subseteq {<<"a", c>>, <<"b", c>>}
        /\ <<"b", c>> \in Halves(c) => <<"a", c>> \in Halves(c)

\* Every core comes back to the first test for ever, whatever fails
\* (iram_test.c 53-66).
KeepsTesting == \A c \in CPU : []<>(pc[c] = "test" /\ i[c] = 1)

\* A FAIL line means that the memory is bad; the modelled memory is not
\* (iram_test.c 63-65).
NoFalseFail == \A c \in CPU : ~res[c]
=============================================================================
