---------------------------- MODULE MemTester_proofs ----------------------------
(***************************************************************************)
(* The outcome of the race for meminfo, for every number of cores, size of *)
(* the memory and table of tests.                                          *)
(***************************************************************************)
EXTENDS MemTester, Integers, SequenceTheorems, WellFoundedInduction, TLAPS

\* The part of the state the race is about.
Race == <<pc, mem_base, bufa, bufb>>

RaceTypeOK ==
    /\ DOMAIN pc = CPU
    /\ bufa \in [CPU -> CPU] /\ bufb \in [CPU -> CPU]
    /\ mem_base \in CPU

\* LastWriterKeepsRegion without the set of halves.
BaseInv ==
    /\ RaceTypeOK
    /\ \A c \in CPU :
        /\ mem_base = c /\ pc[c] \notin {"entry", "bufa"} => bufa[c] = c
        /\ mem_base = c /\ pc[c] \notin {"entry", "bufa", "bufb"} => bufb[c] = c
        /\ pc[c] \notin {"entry", "bufa", "bufb"} /\ bufb[c] = c => bufa[c] = c

Entering == {"entry", "bufa", "bufb"}

\* A core that is past its set-up stays there and keeps its buffers.
TestStep(c) ==
    /\ pc[c] \notin Entering
    /\ \E l : l \notin Entering /\ pc' = [pc EXCEPT ![c] = l]
    /\ UNCHANGED <<mem_base, bufa, bufb>>

LEMMA StepKinds ==
  ASSUME NEW c \in CPU, test_entry(c)
  PROVE  SetBase(c) \/ GetBufA(c) \/ GetBufB(c) \/ TestStep(c)
<1> USE DEF TestStep, Transition, Entering
<1>1. CASE SetBase(c) \/ GetBufA(c) \/ GetBufB(c)
  BY <1>1
<1>2. CASE BeginTest(c)
  BY <1>2 DEF BeginTest
<1>3. CASE FillB(c)
  BY <1>3 DEF FillB
<1>4. CASE FillA(c)
  BY <1>4 DEF FillA, NextWord
<1>5. CASE LoadA(c) \/ LoadB(c) \/ CompareA(c)
  BY <1>5 DEF LoadA, LoadB, CompareA, Load
<1>6. CASE StoreA(c)
  BY <1>6 DEF StoreA
<1>7. CASE StoreB(c)
  BY <1>7 DEF StoreB, NextWord
<1>8. CASE CompareB(c)
  BY <1>8 DEF CompareB, NextWord
<1>9. CASE Passed(c)
  BY <1>9 DEF Passed
<1>10. CASE Failed(c)
  BY <1>10 DEF Failed
<1>11. QED
  BY <1>1, <1>2, <1>3, <1>4, <1>5, <1>6, <1>7, <1>8, <1>9, <1>10 DEF test_entry

LEMMA BaseStep ==
  ASSUME BaseInv, NEW c \in CPU, test_entry(c)
  PROVE  BaseInv'
<1> USE DEF BaseInv, RaceTypeOK, Transition, Entering
<1>1. CASE SetBase(c)
  BY <1>1 DEF SetBase
<1>2. CASE GetBufA(c)
  BY <1>2 DEF GetBufA
<1>3. CASE GetBufB(c)
  BY <1>3 DEF GetBufB
<1>4. CASE TestStep(c)
  BY <1>4 DEF TestStep
<1>5. QED
  BY <1>1, <1>2, <1>3, <1>4, StepKinds

\* The last core to write meminfo.mem_base tests its own region, and a core
\* has its own second half only with its own first half (iram_test.c 45-50).
THEOREM RaceOutcome == Spec => []LastWriterKeepsRegion
<1>1. Init => BaseInv
  BY MemTesterAssumption DEF Init, BaseInv, RaceTypeOK
<1>2. BaseInv /\ [Next]_vars => BaseInv'
  <2> SUFFICES ASSUME BaseInv, [Next]_vars PROVE BaseInv'
    OBVIOUS
  <2>1. CASE UNCHANGED vars
    BY <2>1 DEF vars, BaseInv, RaceTypeOK
  <2>2. CASE Next
    BY <2>2, BaseStep DEF Next
  <2>3. QED
    BY <2>1, <2>2
<1>3. BaseInv => LastWriterKeepsRegion
  BY DEF BaseInv, LastWriterKeepsRegion, Halves
<1>4. QED
  BY <1>1, <1>2, <1>3, PTL DEF Spec
----------------------------------------------------------------------------
(* A core that shares no half never fails                                  *)

Words == 1 .. COUNT
Same(c, k) == mem[<<"a", bufa[c], k>>] = mem[<<"b", bufb[c], k>>]

\* What a core that enters, or starts a test, finds.
StartsAfresh ==
    \A c \in CPU : /\ pc[c] \in Entering => i[c] = 1 /\ ~res[c]
                   /\ pc[c] \in Entering \cup {"test", "result"} => n[c] = 1

Domains ==
    /\ pc = [c \in CPU |-> pc[c]] /\ mem = [x \in Place |-> mem[x]]
    /\ i = [c \in CPU |-> i[c]] /\ q = [c \in CPU |-> q[c]] /\ p3 = [c \in CPU |-> p3[c]]
    /\ res = [c \in CPU |-> res[c]] /\ n \in [CPU -> Words]

\* How far the halves of a core are equal, at each of its statements.
Good(c) ==
    /\ ~res[c]
    /\ pc[c] = "test" => memtests[i[c]].op = "fill" \/ \A k \in Words : Same(c, k)
    /\ pc[c] \in {"fill", "copy"} => \A k \in Words : k < n[c] => Same(c, k)
    /\ pc[c] = "copy" => mem[B(c)] = q[c]
    /\ pc[c] \in {"loada", "storea", "cmpa", "cmpb", "result"} => \A k \in Words : Same(c, k)
    /\ pc[c] \in {"storea", "cmpb"} => p3[c] = mem[A(c)]
    /\ pc[c] \in {"loadb", "storeb"} =>
          /\ \A k \in Words : k # n[c] => Same(c, k)
          /\ mem[A(c)] = Operate(memtests[i[c]].op, mem[B(c)], q[c])
    /\ pc[c] = "storeb" => p3[c] = mem[B(c)]

Alone(c) == \A d \in CPU \ {c} : ~Shares(c, d)

AloneIsGood == \A c \in CPU : pc[c] \notin Entering /\ Alone(c) => Good(c)

MemInv == RaceTypeOK /\ Domains /\ StartsAfresh /\ AloneIsGood

\* A core keeps the halves it has, so who is alone has always been.
LEMMA HalvesStay ==
  ASSUME MemInv, NEW c \in CPU, test_entry(c)
  PROVE  \A d \in CPU : Halves(d) \subseteq Halves(d)'
<1> USE DEF MemInv, RaceTypeOK, Transition, Entering, Halves
<1>1. CASE SetBase(c)
  BY <1>1 DEF SetBase
<1>2. CASE GetBufA(c)
  BY <1>2 DEF GetBufA
<1>3. CASE GetBufB(c)
  BY <1>3 DEF GetBufB
<1>4. CASE TestStep(c)
  BY <1>4 DEF TestStep
<1> QED
  BY <1>1, <1>2, <1>3, <1>4, StepKinds

LEMMA WasAlone ==
  ASSUME MemInv, NEW c \in CPU, test_entry(c), NEW d \in CPU, Alone(d)'
  PROVE  Alone(d)
<1>1. ASSUME NEW e \in CPU \ {d}, Shares(d, e) PROVE FALSE
  <2>1. Halves(d) \subseteq Halves(d)' /\ Halves(e) \subseteq Halves(e)'
    BY HalvesStay
  <2>2. Halves(d)' \cap Halves(e)' = {}
    BY DEF Alone, Shares
  <2> QED  BY <1>1, <2>1, <2>2 DEF Shares
<1> QED  BY <1>1 DEF Alone

\* The word of the next round of a loop, or the first one after its end.
LEMMA NextWordStep ==
  ASSUME MemInv, NEW c \in CPU, NEW from, NEW loop, NEW after, NextWord(c, from, loop, after)
  PROVE  \E w \in Words :
            /\ pc[c] = from /\ n' = [n EXCEPT ![c] = w]
            /\ pc' = [pc EXCEPT ![c] = IF n[c] < COUNT THEN loop ELSE after]
            /\ w = IF n[c] < COUNT THEN n[c] + 1 ELSE 1
<1>1. COUNT \in Nat \ {0} /\ n[c] \in Words
  BY MemTesterAssumption DEF MemInv, Domains
<1>2. CASE n[c] < COUNT
  <2>1. n[c] + 1 \in Words
    BY <1>1, <1>2 DEF Words
  <2> QED  BY <1>2, <2>1 DEF NextWord, Transition
<1>3. CASE ~(n[c] < COUNT)
  <2>1. 1 \in Words
    BY <1>1 DEF Words
  <2> QED  BY <1>3, <2>1 DEF NextWord, Transition
<1> QED  BY <1>2, <1>3

\* The domains and the entry, which every step keeps.
LEMMA DomainsStep ==
  ASSUME MemInv, NEW c \in CPU, test_entry(c)
  PROVE  RaceTypeOK' /\ Domains' /\ StartsAfresh'
<1>1. RaceTypeOK'
  <2> USE DEF MemInv, RaceTypeOK, Transition
  <2>1. CASE SetBase(c) \/ GetBufA(c) \/ GetBufB(c)
    BY <2>1 DEF SetBase, GetBufA, GetBufB
  <2>2. CASE TestStep(c)
    BY <2>2 DEF TestStep
  <2> QED  BY <2>1, <2>2, StepKinds
<1> USE DEF Domains, StartsAfresh, Transition, Entering
<1>2. MemInv /\ Domains /\ StartsAfresh
  BY DEF MemInv
<1>3. CASE SetBase(c) \/ GetBufA(c) \/ GetBufB(c)
  BY <1>1, <1>2, <1>3 DEF SetBase, GetBufA, GetBufB
<1>4. CASE BeginTest(c)
  BY <1>1, <1>2, <1>4 DEF BeginTest
<1>5. CASE FillB(c) \/ StoreA(c)
  BY <1>1, <1>2, <1>5 DEF FillB, StoreA
<1>6. CASE LoadA(c) \/ LoadB(c) \/ CompareA(c)
  <2>1. PICK to \in {"storea", "storeb", "cmpb"} : pc' = [pc EXCEPT ![c] = to]
    BY <1>6 DEF LoadA, LoadB, CompareA
  <2>2. /\ \E v : p3' = [p3 EXCEPT ![c] = v]
        /\ UNCHANGED <<mem, i, n, q, res>>
    BY <1>6 DEF LoadA, LoadB, CompareA, Load
  <2>3. Domains'
    BY <1>2, <2>1, <2>2
  <2> QED  BY <1>1, <1>2, <2>1, <2>2, <2>3
<1>7. CASE FillA(c) \/ StoreB(c) \/ CompareB(c)
  <2>1. PICK from \in {"copy", "storeb", "cmpb"}, loop \in {"fill", "loada", "cmpa"},
             after \in {"cmpa", "result"} : NextWord(c, from, loop, after)
    BY <1>7 DEF FillA, StoreB, CompareB
  <2>2. PICK w \in Words :
            /\ pc[c] = from /\ n' = [n EXCEPT ![c] = w]
            /\ pc' = [pc EXCEPT ![c] = IF n[c] < COUNT THEN loop ELSE after]
            /\ w = IF n[c] < COUNT THEN n[c] + 1 ELSE 1
    BY <1>2, <2>1, NextWordStep
  <2>3. /\ mem' = [x \in Place |-> mem'[x]] /\ q' = [d \in CPU |-> q'[d]]
        /\ p3' = [d \in CPU |-> p3'[d]] /\ res' = [d \in CPU |-> res'[d]] /\ i' = i
        /\ \A d \in CPU : d # c => res'[d] = res[d]
    BY <1>2, <1>7 DEF FillA, StoreB, CompareB
  <2>4. Domains'
    BY <1>2, <2>2, <2>3
  <2>5. \A d \in CPU : d # c => pc'[d] = pc[d] /\ n'[d] = n[d]
    BY <1>2, <2>2
  <2>6. pc'[c] \notin Entering \cup {"test"} /\ (pc'[c] = "result" => n'[c] = 1)
    BY <1>2, <2>1, <2>2
  <2> QED  BY <1>1, <1>2, <2>3, <2>4, <2>5, <2>6
<1>8. CASE Passed(c)
  BY <1>1, <1>2, <1>8 DEF Passed
<1>9. CASE Failed(c)
  BY <1>1, <1>2, <1>9 DEF Failed
<1> QED
  BY <1>3, <1>4, <1>5, <1>6, <1>7, <1>8, <1>9 DEF test_entry

\* The own steps of a core that is alone.
LEMMA OwnStep ==
  ASSUME MemInv, NEW c \in CPU, test_entry(c), pc'[c] \notin Entering,
         pc[c] \notin Entering => Good(c)
  PROVE  Good(c)'
<1> DEFINE r == bufa[c]  s == bufb[c]  w == n[c]
<1>0. /\ COUNT \in Nat \ {0} /\ r \in CPU /\ s \in CPU /\ w \in Words /\ Words \subseteq Nat
      /\ DOMAIN pc = CPU /\ DOMAIN n = CPU /\ DOMAIN q = CPU /\ DOMAIN p3 = CPU
      /\ DOMAIN res = CPU /\ DOMAIN i = CPU /\ DOMAIN mem = Place
      /\ A(c) = <<"a", r, w>> /\ B(c) = <<"b", s, w>> /\ A(c) \in Place /\ B(c) \in Place
      /\ \A k \in Words : <<"a", r, k>> \in Place /\ <<"b", s, k>> \in Place
  BY MemTesterAssumption DEF MemInv, RaceTypeOK, Domains, Words, A, B, Place
<1>12. \A k, l \in Words : (k <= l <=> k < l \/ k = l) /\ (k < l + 1 <=> k <= l)
  BY MemTesterAssumption DEF Words
<1> USE DEF Transition, Entering, Good, Same
<1>1. CASE SetBase(c) \/ GetBufA(c)
  BY <1>0, <1>1 DEF SetBase, GetBufA
<1>2. CASE GetBufB(c)
  <2>1. pc[c] \in Entering /\ i[c] = 1 /\ ~res[c] /\ memtests[1].op = "fill"
    BY <1>2, MemTesterAssumption DEF GetBufB, MemInv, StartsAfresh
  <2> QED  BY <1>0, <1>2, <2>1 DEF GetBufB
<1>3. CASE BeginTest(c)
  <2>1. w = 1
    BY <1>3 DEF BeginTest, MemInv, StartsAfresh
  <2> QED  BY <1>0, <1>3, <2>1 DEF BeginTest, A, B, Words
<1>4. CASE FillB(c)
  <2>1. PICK v \in Word : mem' = [mem EXCEPT ![B(c)] = v] /\ q' = [q EXCEPT ![c] = v]
    BY <1>4 DEF FillB
  <2>2. pc[c] = "fill" /\ pc' = [pc EXCEPT ![c] = "copy"] /\ UNCHANGED <<bufa, bufb, i, n, res>>
    BY <1>4 DEF FillB
  <2>3. \A x \in Place : mem'[x] = IF x = B(c) THEN v ELSE mem[x]
    BY <1>0, <2>1
  <2>4. \A k \in Words : k < w => Same(c, k)'
    BY <1>0, <2>2, <2>3
  <2>5. mem'[B(c)'] = q'[c]
    BY <1>0, <2>1, <2>2, <2>3 DEF B
  <2> QED  BY <1>0, <2>2, <2>4, <2>5
<1>5. CASE FillA(c)
  <2>1. /\ mem' = [mem EXCEPT ![A(c)] = q[c]] /\ pc[c] = "copy" /\ UNCHANGED <<bufa, bufb, i, res>>
        /\ w < COUNT => pc'[c] = "fill" /\ n'[c] = w + 1
        /\ ~(w < COUNT) => pc'[c] = "cmpa"
    BY <1>0, <1>5 DEF FillA, NextWord
  <2>0. A(c) # B(c) /\ \A k \in Words : <<"b", s, k>> # A(c) /\ (<<"a", r, k>> = A(c) => k = w)
    BY <1>0
  <2>2. \A x \in Place : mem'[x] = IF x = A(c) THEN q[c] ELSE mem[x]
    BY <1>0, <2>1
  <2>3. mem[B(c)] = q[c] /\ \A k \in Words : k < w => Same(c, k)
    BY <2>1
  <2>4. \A k \in Words : k <= w => Same(c, k)'
    <3>1. ASSUME NEW k \in Words, k < w PROVE Same(c, k)'
      BY <1>0, <2>0, <2>1, <2>2, <2>3, <3>1
    <3>2. ASSUME NEW k \in Words, k = w PROVE Same(c, k)'
      BY <1>0, <2>0, <2>1, <2>2, <2>3, <3>2
    <3>3. \A k \in Words : k <= w => k < w \/ k = w
      BY <1>0, <1>12
    <3> QED  BY <3>1, <3>2, <3>3
  <2>5. CASE w < COUNT
    <3>0. n'[c] = w + 1
      BY <2>1, <2>5
    <3>1. \A k \in Words : k < w + 1 => k <= w
      BY <1>0, <1>12
    <3>2. \A k \in Words : k < n'[c] => Same(c, k)'
      BY <2>4, <3>0, <3>1
    <3> QED  BY <2>1, <2>5, <3>2
  <2>6. CASE ~(w < COUNT)
    <3>1. \A k \in Words : Same(c, k)'
      BY <1>0, <2>4, <2>6 DEF Words
    <3> QED  BY <2>1, <2>6, <3>1
  <2> QED  BY <2>5, <2>6
<1>6. CASE LoadA(c) \/ LoadB(c) \/ CompareA(c)
  BY <1>0, <1>6 DEF LoadA, LoadB, CompareA, Load, A, B
<1>7. CASE StoreA(c)
  <2>1. /\ mem' = [mem EXCEPT ![A(c)] = Operate(memtests[i[c]].op, p3[c], q[c])]
        /\ pc[c] = "storea" /\ pc' = [pc EXCEPT ![c] = "loadb"]
        /\ UNCHANGED <<bufa, bufb, i, n, q, res>>
    BY <1>7 DEF StoreA, Operated
  <2>2. /\ mem'[A(c)] = Operate(memtests[i[c]].op, p3[c], q[c])
        /\ \A x \in Place : x # A(c) => mem'[x] = mem[x]
    BY <1>0, <2>1
  <2>3. p3[c] = mem[A(c)] /\ mem[A(c)] = mem[B(c)] /\ \A k \in Words : Same(c, k)
    BY <1>0, <2>1
  <2>4. A(c)' = A(c) /\ B(c)' = B(c) /\ B(c) # A(c)
    BY <1>0, <2>1 DEF A, B
  <2>5. mem'[A(c)] = Operate(memtests[i[c]].op, mem'[B(c)], q[c])
    BY <1>0, <2>2, <2>3, <2>4
  <2>6. \A k \in Words : k # w => Same(c, k)'
    BY <1>0, <2>1, <2>2, <2>3
  <2> QED  BY <1>0, <2>1, <2>4, <2>5, <2>6
<1>8. CASE StoreB(c)
  <2>1. /\ mem' = [mem EXCEPT ![B(c)] = Operate(memtests[i[c]].op, p3[c], q[c])]
        /\ pc[c] = "storeb" /\ pc'[c] \in {"loada", "cmpa"}
        /\ UNCHANGED <<bufa, bufb, i, q, res>>
    BY <1>0, <1>8 DEF StoreB, NextWord, Operated
  <2>2. /\ mem'[B(c)] = Operate(memtests[i[c]].op, p3[c], q[c])
        /\ \A x \in Place : x # B(c) => mem'[x] = mem[x]
    BY <1>0, <2>1
  <2>3. /\ p3[c] = mem[B(c)] /\ \A k \in Words : k # w => Same(c, k)
        /\ mem[A(c)] = Operate(memtests[i[c]].op, mem[B(c)], q[c])
    BY <2>1
  <2>4. mem'[A(c)] = mem'[B(c)]
    BY <1>0, <2>2, <2>3
  <2>5. \A k \in Words : Same(c, k)'
    BY <1>0, <2>1, <2>2, <2>3, <2>4
  <2> QED  BY <2>1, <2>5
<1>9. CASE CompareB(c)
  <2>1. /\ pc[c] = "cmpb" /\ pc'[c] \in {"cmpa", "result"} /\ UNCHANGED <<bufa, bufb, mem, i>>
        /\ res'[c] = (res[c] \/ p3[c] # mem[B(c)])
    BY <1>0, <1>9 DEF CompareB, NextWord
  <2>2. p3[c] = mem[B(c)] /\ ~res[c] /\ \A k \in Words : Same(c, k)
    BY <1>0, <2>1
  <2> QED  BY <2>1, <2>2
<1>10. CASE Passed(c)
  <2>1. pc[c] = "result" /\ pc'[c] \in {"fill", "test"} /\ UNCHANGED <<bufa, bufb, mem, n, res>>
    BY <1>0, <1>10 DEF Passed
  <2> QED  BY <1>0, <2>1
<1>11. CASE Failed(c)
  BY <1>11 DEF Failed
<1> QED
  BY <1>1, <1>2, <1>3, <1>4, <1>5, <1>6, <1>7, <1>8, <1>9, <1>10, <1>11 DEF test_entry

\* What a core writes lies in its halves.
LEMMA WritesOwnHalves ==
  ASSUME MemInv, NEW d \in CPU, test_entry(d)
  PROVE  \A x \in Place : mem'[x] # mem[x] => <<x[1], x[2]>> \in Halves(d)
<1>1. /\ DOMAIN mem = Place /\ A(d) = <<"a", bufa[d], n[d]>> /\ B(d) = <<"b", bufb[d], n[d]>>
  BY DEF MemInv, Domains, A, B
<1> USE DEF Transition
<1>2. CASE FillB(d) \/ StoreB(d)
  <2>1. PICK v : mem' = [mem EXCEPT ![B(d)] = v]
    BY <1>2 DEF FillB, StoreB
  <2>2. pc[d] \in {"fill", "storeb"}
    BY <1>2 DEF FillB, StoreB, NextWord
  <2>3. \A x \in Place : mem'[x] # mem[x] => x = B(d)
    BY <1>1, <2>1
  <2> QED  BY <1>1, <2>2, <2>3 DEF Halves
<1>3. CASE FillA(d) \/ StoreA(d)
  <2>1. PICK v : mem' = [mem EXCEPT ![A(d)] = v]
    BY <1>3 DEF FillA, StoreA
  <2>2. pc[d] \in {"copy", "storea"}
    BY <1>3 DEF FillA, StoreA, NextWord
  <2>3. \A x \in Place : mem'[x] # mem[x] => x = A(d)
    BY <1>1, <2>1
  <2> QED  BY <1>1, <2>2, <2>3 DEF Halves
<1>4. CASE ~(FillB(d) \/ StoreB(d) \/ FillA(d) \/ StoreA(d))
  BY <1>4 DEF test_entry, SetBase, GetBufA, GetBufB, BeginTest, LoadA, LoadB, CompareA, Load,
     CompareB, Passed, Failed
<1> QED  BY <1>2, <1>3, <1>4

\* A step of another core touches neither the halves nor the locals of a core
\* that is alone.
LEMMA OtherStep ==
  ASSUME MemInv, NEW c \in CPU, NEW d \in CPU \ {c}, test_entry(d), Alone(c),
         pc[c] \notin Entering, Good(c)
  PROVE  Good(c)'
<1>1. /\ pc'[c] = pc[c] /\ bufa'[c] = bufa[c] /\ bufb'[c] = bufb[c] /\ i'[c] = i[c]
      /\ n'[c] = n[c] /\ q'[c] = q[c] /\ p3'[c] = p3[c] /\ res'[c] = res[c]
  <2> USE DEF MemInv, RaceTypeOK, Domains, Transition
  <2>1. CASE SetBase(d) \/ GetBufA(d) \/ GetBufB(d)
    BY <2>1 DEF SetBase, GetBufA, GetBufB
  <2>2. CASE BeginTest(d) \/ FillB(d)
    BY <2>2 DEF BeginTest, FillB
  <2>3. CASE LoadA(d) \/ LoadB(d) \/ CompareA(d) \/ StoreA(d)
    BY <2>3 DEF LoadA, LoadB, CompareA, Load, StoreA
  <2>4. CASE FillA(d) \/ StoreB(d) \/ CompareB(d)
    BY <2>4 DEF FillA, StoreB, CompareB, NextWord
  <2>5. CASE Passed(d) \/ Failed(d)
    BY <2>5 DEF Passed, Failed
  <2> QED  BY <2>1, <2>2, <2>3, <2>4, <2>5 DEF test_entry
<1>2. \A k \in Words : /\ <<"a", bufa[c], k>> \in Place /\ <<"b", bufb[c], k>> \in Place
  BY DEF MemInv, RaceTypeOK, Words, Place
<1>3. Halves(c) = {<<"a", bufa[c]>>, <<"b", bufb[c]>>} /\ Halves(c) \cap Halves(d) = {}
  BY DEF Halves, Entering, Alone, Shares
<1>4. \A k \in Words : /\ mem'[<<"a", bufa[c], k>>] = mem[<<"a", bufa[c], k>>]
                       /\ mem'[<<"b", bufb[c], k>>] = mem[<<"b", bufb[c], k>>]
  BY <1>2, <1>3, WritesOwnHalves
<1>5. /\ \A k \in Words : Same(c, k)' <=> Same(c, k)
      /\ mem'[A(c)'] = mem[A(c)] /\ mem'[B(c)'] = mem[B(c)]
  <2>1. bufa'[c] = bufa[c] /\ bufb'[c] = bufb[c] /\ n'[c] = n[c]
    BY <1>1
  <2>2. \A k \in Words : Same(c, k)' <=> Same(c, k)
    BY <1>4, <2>1 DEF Same
  <2>3. n[c] \in Words
    BY DEF MemInv, Domains
  <2> QED  BY <1>4, <2>1, <2>2, <2>3 DEF A, B
<1> QED  BY <1>1, <1>5 DEF Good

\* In a memory that works no test fails on a core that has its two halves to
\* itself, whatever the table, the operands and the size (iram_test.c 53-74).
THEOREM AloneIsSafe == Spec => []AloneNeverFails
<1>1. Init => MemInv
  <2> SUFFICES ASSUME Init PROVE MemInv
    OBVIOUS
  <2>1. RaceTypeOK /\ StartsAfresh
    BY MemTesterAssumption DEF Init, RaceTypeOK, StartsAfresh
  <2>2. Domains
    BY MemTesterAssumption DEF Init, Domains, Words
  <2>3. AloneIsGood
    BY DEF Init, AloneIsGood, Entering
  <2> QED  BY <2>1, <2>2, <2>3 DEF MemInv
<1>2. MemInv /\ [Next]_vars => MemInv'
  <2> SUFFICES ASSUME MemInv, [Next]_vars PROVE MemInv'
    OBVIOUS
  <2>1. CASE UNCHANGED vars
    <3> USE <2>1 DEF vars, MemInv
    <3>1. RaceTypeOK' /\ Domains' /\ StartsAfresh'
      BY DEF RaceTypeOK, Domains, StartsAfresh
    <3>2. \A c \in CPU : (Alone(c)' <=> Alone(c)) /\ (Good(c)' <=> Good(c))
      BY DEF Alone, Shares, Halves, Good, Same, A, B
    <3> QED  BY <3>1, <3>2 DEF AloneIsGood
  <2>2. ASSUME NEW c \in CPU, test_entry(c) PROVE MemInv'
    <3>1. RaceTypeOK' /\ Domains' /\ StartsAfresh'
      BY <2>2, DomainsStep
    <3>2. ASSUME NEW d \in CPU, pc'[d] \notin Entering, Alone(d)' PROVE Good(d)'
      <4>1. pc[d] \notin Entering => Good(d)
        BY <2>2, <3>2, WasAlone DEF MemInv, AloneIsGood
      <4>2. CASE d = c
        BY <2>2, <3>2, <4>1, <4>2, OwnStep
      <4>3. CASE d # c
        <5>1. pc'[d] = pc[d] /\ Alone(d)
          <6>1. Alone(d)
            BY <2>2, <3>2, WasAlone
          <6>2. SetBase(c) \/ GetBufA(c) \/ GetBufB(c) \/ TestStep(c)
            BY <2>2, StepKinds
          <6> QED
            BY <4>3, <6>1, <6>2 DEF SetBase, GetBufA, GetBufB, TestStep, Transition, MemInv,
               RaceTypeOK
        <5> QED  BY <2>2, <3>2, <4>1, <4>3, <5>1, OtherStep
      <4> QED  BY <4>2, <4>3
    <3> QED  BY <3>1, <3>2 DEF MemInv, AloneIsGood
  <2> QED  BY <2>1, <2>2 DEF Next
<1>3. MemInv => AloneNeverFails
  BY DEF MemInv, StartsAfresh, AloneIsGood, Alone, Good, AloneNeverFails
<1> QED  BY <1>1, <1>2, <1>3, PTL DEF Spec

----------------------------------------------------------------------------
(* Induction on the natural numbers, for one set at a time, and what a      *)
(* function defined by recursion is.                                        *)

Less == {p \in Nat \X Nat : p[1] < p[2]}

LEMMA LessWF == IsWellFoundedOn(Less, Nat)
BY NatLessThanWellFounded DEF OpToRel, Less

\* A set of numbers with 0 and every successor is the set of all numbers.
LEMMA SetInduction ==
  ASSUME NEW S, S \subseteq Nat, 0 \in S, \A m \in S : m + 1 \in S
  PROVE  S = Nat
<1> DEFINE T == Nat \ S
<1>1. SUFFICES ASSUME T # {} PROVE FALSE
  OBVIOUS
<1> HIDE DEF T
<1>2. T \subseteq Nat
  BY DEF T
<1>3. PICK x \in T : \A y \in T : ~ (<<y, x>> \in Less)
  BY <1>1, <1>2, WFMin, LessWF
<1>4. x \in Nat /\ x \notin S /\ x # 0
  BY <1>3 DEF T
<1>5. x - 1 \in Nat /\ x - 1 < x
  BY <1>4
<1>6. <<x - 1, x>> \in Less
  BY <1>5, <1>4 DEF Less
<1>7. x - 1 \in S
  BY <1>3, <1>5, <1>6 DEF T
<1>8. x - 1 + 1 \in S
  BY <1>7
<1> QED
  BY <1>4, <1>8

\* The first m + 1 values of a recursion that starts from s and goes on by G.
Upto(S, s, G, m) ==
    {f \in [0 .. m -> S] : f[0] = s /\ \A k \in 1 .. m : f[k] = G[f[k - 1]]}

LEMMA Recursion ==
  ASSUME NEW S, NEW s \in S, NEW G \in [S -> S]
  PROVE  \E f \in [Nat -> S] : f[0] = s /\ \A k \in Nat \ {0} : f[k] = G[f[k - 1]]
<1> DEFINE U(m) == Upto(S, s, G, m)
           Found == {m \in Nat : U(m) # {}}
           One == {m \in Nat : \A l \in Nat : l >= m =>
                      \A f \in U(m), g \in U(l) : f[m] = g[m]}
<1>1. Found = Nat
  <2>1. 0 \in Found
    <3> DEFINE f == [k \in 0 .. 0 |-> s]
    <3>1. f \in U(0)
      BY DEF Upto
    <3> QED  BY <3>1
  <2>2. ASSUME NEW m \in Found PROVE m + 1 \in Found
    <3>1. PICK f : f \in U(m)
      OBVIOUS
    <3> DEFINE g == [k \in 0 .. m + 1 |-> IF k = m + 1 THEN G[f[m]] ELSE f[k]]
    <3>2. f \in [0 .. m -> S] /\ f[0] = s /\ \A k \in 1 .. m : f[k] = G[f[k - 1]]
      BY <3>1 DEF Upto
    <3>3. G[f[m]] \in S
      BY <3>2
    <3>4. g \in [0 .. m + 1 -> S]
      BY <3>2, <3>3
    <3>5. g[0] = s /\ \A k \in 1 .. m + 1 : g[k] = G[g[k - 1]]
      BY <3>2
    <3> HIDE DEF g
    <3>6. g \in U(m + 1)
      BY <3>4, <3>5 DEF Upto
    <3> QED  BY <3>6
  <2>3. Found \subseteq Nat
    OBVIOUS
  <2> HIDE DEF Found
  <2> QED  BY <2>1, <2>2, <2>3, SetInduction
<1>2. One = Nat
  <2>1. 0 \in One
    BY DEF Upto
  <2>2. ASSUME NEW m \in One PROVE m + 1 \in One
    <3> SUFFICES ASSUME NEW l \in Nat, l >= m + 1, NEW f \in U(m + 1), NEW g \in U(l)
                 PROVE  f[m + 1] = g[m + 1]
      OBVIOUS
    <3> DEFINE h == [k \in 0 .. m |-> f[k]]
    <3>1. h \in U(m)
      BY DEF Upto
    <3>2. h[m] = g[m]
      BY <3>1
    <3>3. f[m] = g[m]
      BY <3>2
    <3>4. m + 1 \in 1 .. m + 1 /\ m + 1 \in 1 .. l /\ m + 1 - 1 = m
      OBVIOUS
    <3>5. f[m + 1] = G[f[m]] /\ g[m + 1] = G[g[m]]
      BY <3>4 DEF Upto
    <3> QED  BY <3>3, <3>5
  <2>3. One \subseteq Nat
    OBVIOUS
  <2> HIDE DEF One
  <2> QED  BY <2>1, <2>2, <2>3, SetInduction
<1> DEFINE F(m) == CHOOSE f : f \in U(m)
           all == [m \in Nat |-> F(m)[m]]
<1>3. \A m \in Nat : F(m) \in U(m)
  BY <1>1
<1> HIDE DEF F
<1>4. all \in [Nat -> S]
  BY <1>3 DEF Upto
<1>5. all[0] = s
  BY <1>3 DEF Upto
<1>6. ASSUME NEW k \in Nat \ {0} PROVE all[k] = G[all[k - 1]]
  <2>1. k - 1 \in Nat /\ k >= k - 1 /\ k \in 1 .. k
    OBVIOUS
  <2>2. F(k - 1)[k - 1] = F(k)[k - 1]
    BY <1>2, <1>3, <2>1
  <2>3. F(k)[k] = G[F(k)[k - 1]]
    BY <1>3, <2>1 DEF Upto
  <2> QED  BY <2>1, <2>2, <2>3
<1> HIDE DEF all
<1> QED
  BY <1>4, <1>5, <1>6

----------------------------------------------------------------------------
(* The operations of the tests on words.                                    *)

LEMMA PowerIs ==
  /\ Power[0] = 1
  /\ \A k \in Nat : Power[k] \in Nat \ {0} /\ Power[k + 1] = 2 * Power[k]
<1> DEFINE Rec(f) == f = [k \in Nat |-> IF k = 0 THEN 1 ELSE 2 * f[k - 1]]
<1>1. \E f : Rec(f)
  <2> DEFINE G == [x \in Nat |-> 2 * x]
             S == Nat
             s == 1
  <2>1. G \in [S -> S] /\ s \in S
    OBVIOUS
  <2>2. PICK f \in [Nat -> Nat] : f[0] = 1 /\ \A k \in Nat \ {0} : f[k] = G[f[k - 1]]
    <3> HIDE DEF G, S, s
    <3>1. \E f \in [Nat -> S] : f[0] = s /\ \A k \in Nat \ {0} : f[k] = G[f[k - 1]]
      BY <2>1, Recursion
    <3> QED  BY <3>1 DEF S, s
  <2>3. ASSUME NEW k \in Nat \ {0} PROVE f[k] = 2 * f[k - 1]
    <3>1. k - 1 \in Nat
      OBVIOUS
    <3>2. f[k - 1] \in Nat /\ f[k] = G[f[k - 1]]
      BY <2>2, <3>1
    <3> QED  BY <3>2
  <2>4. \A k \in Nat : f[k] = IF k = 0 THEN 1 ELSE 2 * f[k - 1]
    BY <2>2, <2>3
  <2>5. Rec(f)
    BY <2>4
  <2> QED  BY <2>5
<1>2. Power = CHOOSE f : Rec(f)
  BY DEF Power
<1> HIDE DEF Rec
<1>3. Rec(Power)
  BY <1>1, <1>2
<1>4. \A k \in Nat : Power[k] = IF k = 0 THEN 1 ELSE 2 * Power[k - 1]
  BY <1>3 DEF Rec
<1>5. Power[0] = 1 /\ \A k \in Nat : Power[k + 1] = 2 * Power[k]
  BY <1>4
<1> DEFINE P == {k \in Nat : Power[k] \in Nat \ {0}}
<1>6. P = Nat
  <2>1. 0 \in P /\ P \subseteq Nat
    BY <1>5
  <2>2. \A m \in P : m + 1 \in P
    BY <1>5
  <2> HIDE DEF P
  <2> QED  BY <2>1, <2>2, SetInduction
<1> QED
  BY <1>5, <1>6

Pairs == Nat \X Nat
Bit(w) == IF w[1] % 2 = 1 \/ w[2] % 2 = 1 THEN 1 ELSE 0
Rest(w) == <<w[1] \div 2, w[2] \div 2>>

LEMMA OrIs ==
  /\ \A w \in Pairs : Or[0][w] = 0
  /\ \A k \in Nat : Or[k] \in [Pairs -> Nat]
  /\ \A k \in Nat, w \in Pairs : Or[k + 1][w] = Bit(w) + 2 * Or[k][Rest(w)]
<1> DEFINE Zero == [w \in Pairs |-> 0]
           Longer(g) == [w \in Pairs |-> Bit(w) + 2 * g[Rest(w)]]
           Rec(f) == f = [k \in Nat |-> IF k = 0 THEN Zero ELSE Longer(f[k - 1])]
           S == [Pairs -> Nat]
<1>0. \A w \in Pairs : Rest(w) \in Pairs /\ Bit(w) \in {0, 1}
  BY DEF Rest, Bit, Pairs
<1>1. Zero \in S /\ \A g \in S : Longer(g) \in S
  BY <1>0
<1>2. Or = CHOOSE f : Rec(f)
  BY DEF Or, Pairs, Bit, Rest
<1> HIDE DEF S, Zero, Longer
<1>3. \E f : Rec(f)
  <2> DEFINE G == [g \in S |-> Longer(g)]
  <2>1. G \in [S -> S]
    BY <1>1
  <2>2. PICK f \in [Nat -> S] : f[0] = Zero /\ \A k \in Nat \ {0} : f[k] = G[f[k - 1]]
    <3> HIDE DEF G
    <3> QED  BY <1>1, <2>1, Recursion
  <2>3. ASSUME NEW k \in Nat \ {0} PROVE f[k] = Longer(f[k - 1])
    <3>1. k - 1 \in Nat
      OBVIOUS
    <3>2. f[k - 1] \in S /\ f[k] = G[f[k - 1]]
      BY <2>2, <3>1
    <3> QED  BY <3>2
  <2>4. \A k \in Nat : f[k] = IF k = 0 THEN Zero ELSE Longer(f[k - 1])
    BY <2>2, <2>3
  <2>5. Rec(f)
    BY <2>4
  <2> QED  BY <2>5
<1> HIDE DEF Rec
<1>4. Rec(Or)
  BY <1>2, <1>3
<1>5. \A k \in Nat : Or[k] = IF k = 0 THEN Zero ELSE Longer(Or[k - 1])
  BY <1>4 DEF Rec
<1>6. Or[0] = Zero /\ \A k \in Nat : Or[k + 1] = Longer(Or[k])
  BY <1>5
<1> DEFINE P == {k \in Nat : Or[k] \in S}
<1>7. P = Nat
  <2>1. 0 \in P /\ P \subseteq Nat
    BY <1>1, <1>6
  <2>2. \A m \in P : m + 1 \in P
    BY <1>1, <1>6
  <2> HIDE DEF P
  <2> QED  BY <2>1, <2>2, SetInduction
<1> QED
  BY <1>6, <1>7 DEF Zero, Longer, S

\* The or of k bits lies between the larger word and the sum of the two, and
\* has no more bits.
Between(k, x, y, z) == z >= x /\ z >= y /\ z <= x + y /\ z < Power[k]

LEMMA OrBetween ==
  ASSUME NEW k \in Nat, NEW x \in Nat, NEW y \in Nat, x < Power[k], y < Power[k]
  PROVE  Or[k][<<x, y>>] \in Nat /\ Between(k, x, y, Or[k][<<x, y>>])
<1> DEFINE P == {m \in Nat : \A a, b \in Nat : a < Power[m] /\ b < Power[m] =>
                    Between(m, a, b, Or[m][<<a, b>>])}
<1>1. 0 \in P
  <2>1. \A a, b \in Nat : a < 1 /\ b < 1 => a = 0 /\ b = 0
    OBVIOUS
  <2> QED  BY <2>1, PowerIs, OrIs DEF Between, Pairs
<1>2. ASSUME NEW m \in P PROVE m + 1 \in P
  <2> SUFFICES ASSUME NEW a \in Nat, NEW b \in Nat, a < Power[m + 1], b < Power[m + 1]
               PROVE  Between(m + 1, a, b, Or[m + 1][<<a, b>>])
    OBVIOUS
  <2> DEFINE c == a \div 2
             d == b \div 2
             e == Bit(<<a, b>>)
             z == Or[m][<<c, d>>]
             pow == Power[m]
  <2>1. pow \in Nat /\ Power[m + 1] = 2 * pow
    BY PowerIs
  <2>2. c \in Nat /\ d \in Nat /\ c < pow /\ d < pow
    <3> HIDE DEF pow
    <3> QED  BY <2>1
  <2>3. a = 2 * c + (a % 2) /\ b = 2 * d + (b % 2) /\ a % 2 \in {0, 1} /\ b % 2 \in {0, 1}
    BY SMT
  <2>4. e \in {0, 1} /\ e >= a % 2 /\ e >= b % 2 /\ e <= (a % 2) + (b % 2)
    BY <2>3 DEF Bit
  <2>5. z \in Nat /\ Or[m + 1][<<a, b>>] = e + 2 * z
    BY <2>2, OrIs DEF Pairs, Rest
  <2>6. Between(m, c, d, z)
    BY <2>2
  <2> HIDE DEF c, d, e, z
  <2>7. z >= c /\ z >= d /\ z <= c + d /\ z < pow
    BY <2>6 DEF Between
  <2> HIDE DEF pow
  <2>8. e + 2 * z >= a /\ e + 2 * z >= b /\ e + 2 * z <= a + b /\ e + 2 * z < 2 * pow
    BY <2>1, <2>2, <2>3, <2>4, <2>5, <2>7
  <2> QED  BY <2>1, <2>5, <2>8 DEF Between
<1>3. P = Nat
  <2>1. P \subseteq Nat
    OBVIOUS
  <2> HIDE DEF P
  <2> QED  BY <1>1, <1>2, <2>1, SetInduction
<1>4. k \in P
  BY <1>3
<1>5. <<x, y>> \in Pairs
  BY DEF Pairs
<1> QED
  BY <1>4, <1>5, OrIs

\* Each operation makes a word out of two.
LEMMA OperateIsWord ==
  ASSUME NEW op \in Op \ {"fill"}, NEW x \in Word, NEW y \in Word
  PROVE  Operate(op, x, y) \in Word
<1> DEFINE pow == Power[WIDTH]
           z == BitOr(x, y)
<1>1. pow \in Nat \ {0} /\ Word = 0 .. pow - 1 /\ WIDTH \in Nat
  BY MemTesterAssumption, PowerIs DEF Word
<1>2. x \in Nat /\ y \in Nat /\ x < pow /\ y < pow
  <2> HIDE DEF pow
  <2> QED  BY <1>1
<1>3. z \in Nat /\ z >= x /\ z >= y /\ z <= x + y /\ z < pow
  BY <1>1, <1>2, OrBetween DEF BitOr, Between
<1> HIDE DEF pow, z
<1>4. \A v \in Nat : v < pow => v \in Word
  BY <1>1
<1>5. CASE op = "or"
  BY <1>3, <1>4, <1>5 DEF Operate, z
<1>6. CASE op = "and"
  <2>1. x + y - z \in Nat /\ x + y - z < pow
    BY <1>1, <1>2, <1>3
  <2> QED  BY <1>4, <1>6, <2>1 DEF Operate, z
<1>7. CASE op = "xor"
  <2>1. z - (x + y - z) \in Nat /\ z - (x + y - z) < pow
    BY <1>1, <1>2, <1>3
  <2> QED  BY <1>4, <1>7, <2>1 DEF Operate, z
<1>8. CASE op = "mul"
  <2>1. x * y \in Nat
    BY <1>2
  <2>2. (x * y) % pow \in Nat /\ (x * y) % pow < pow
    BY <1>1, <2>1
  <2> QED  BY <1>4, <1>8, <2>2 DEF Operate, pow
<1>9. CASE op = "div"
  <2> DEFINE by == IF y = 0 THEN 1 ELSE y
  <2>1. by \in Nat \ {0}
    BY <1>2
  <2> HIDE DEF by
  <2>2. x \div by \in Nat /\ x \div by <= x
    BY <1>2, <2>1
  <2>3. x \div by \in Word
    BY <1>1, <1>2, <1>4, <2>2
  <2> QED  BY <1>9, <2>3 DEF Operate, by
<1> QED
  BY <1>5, <1>6, <1>7, <1>8, <1>9 DEF Op

----------------------------------------------------------------------------
(* The ranges of the variables.                                             *)

Labels == {"entry", "bufa", "bufb", "test", "fill", "copy", "loada", "storea",
           "loadb", "storeb", "cmpa", "cmpb", "result"}

LEMMA TableIs ==
  /\ Len(memtests) \in Nat \ {0}
  /\ \A k \in 1 .. Len(memtests) : memtests[k].op \in Op /\ memtests[k].passes \in Nat \ {0}
<1>1. memtests \in Seq([op : Op, passes : Nat \ {0}]) /\ memtests # <<>>
  BY MemTesterAssumption
<1>2. Len(memtests) \in Nat \ {0}
  BY <1>1, LenProperties, EmptySeq
<1>3. \A k \in 1 .. Len(memtests) : memtests[k] \in [op : Op, passes : Nat \ {0}]
  BY <1>1, ElementOfSeq
<1> QED
  BY <1>2, <1>3

LEMMA WordsAre == 0 \in Word /\ 1 \in Word
<1> DEFINE pow == Power[WIDTH - 1]
<1>1. WIDTH - 1 \in Nat /\ WIDTH - 1 + 1 = WIDTH
  BY MemTesterAssumption
<1>2. pow \in Nat \ {0} /\ Power[WIDTH] = 2 * pow
  BY <1>1, PowerIs
<1> HIDE DEF pow
<1> QED
  BY <1>2 DEF Word

\* A core has words of its own halves before it.
LEMMA PlacesAre ==
  ASSUME TypeOK, NEW c \in CPU
  PROVE  A(c) \in Place /\ B(c) \in Place
BY DEF TypeOK, A, B, Place

LEMMA NextWordType ==
  ASSUME TypeOK, NEW c \in CPU, NEW from, NEW loop \in Labels, NEW after \in Labels,
         NextWord(c, from, loop, after)
  PROVE  pc' \in [CPU -> Labels] /\ n' \in [CPU -> 1 .. COUNT]
<1>1. pc \in [CPU -> Labels] /\ n \in [CPU -> 1 .. COUNT] /\ COUNT \in Nat \ {0}
  BY MemTesterAssumption DEF TypeOK, Labels
<1>2. CASE n[c] < COUNT
  <2>1. n[c] + 1 \in 1 .. COUNT
    BY <1>1, <1>2
  <2> QED  BY <1>1, <1>2, <2>1 DEF NextWord, Transition
<1>3. CASE ~(n[c] < COUNT)
  BY <1>1, <1>3 DEF NextWord, Transition
<1> QED
  BY <1>2, <1>3

\* Only the tests that are not fillings load words and store them changed.
Operating == {"loada", "storea", "loadb", "storeb"}

TypeInv ==
    TypeOK /\ \A c \in CPU : pc[c] \in Operating => memtests[i[c]].op # "fill"

LEMMA TypeStep ==
  ASSUME TypeInv, NEW c \in CPU, test_entry(c)
  PROVE  TypeOK'
<1>0. /\ pc \in [CPU -> Labels]
      /\ mem_base \in CPU /\ bufa \in [CPU -> CPU] /\ bufb \in [CPU -> CPU]
      /\ mem \in [Place -> Word] /\ q \in [CPU -> Word] /\ p3 \in [CPU -> Word]
      /\ i \in [CPU -> 1 .. Len(memtests)] /\ n \in [CPU -> 1 .. COUNT]
      /\ j \in [CPU -> Nat] /\ \A d \in CPU : j[d] \in 1 .. memtests[i[d]].passes
      /\ res \in [CPU -> BOOLEAN]
  BY DEF TypeInv, TypeOK, Labels
<1> SUFFICES /\ pc' \in [CPU -> Labels]
             /\ mem_base' \in CPU /\ bufa' \in [CPU -> CPU] /\ bufb' \in [CPU -> CPU]
             /\ mem' \in [Place -> Word] /\ q' \in [CPU -> Word] /\ p3' \in [CPU -> Word]
             /\ i' \in [CPU -> 1 .. Len(memtests)] /\ n' \in [CPU -> 1 .. COUNT]
             /\ j' \in [CPU -> Nat] /\ \A d \in CPU : j'[d] \in 1 .. memtests[i'[d]].passes
             /\ res' \in [CPU -> BOOLEAN]
  BY DEF TypeOK, Labels, Place, Word
<1>1. CASE SetBase(c) \/ GetBufA(c) \/ GetBufB(c)
  <2>1. pc' \in [CPU -> Labels]
    BY <1>0, <1>1 DEF SetBase, GetBufA, GetBufB, Transition, Labels
  <2>2. mem_base' \in CPU /\ bufa' \in [CPU -> CPU] /\ bufb' \in [CPU -> CPU]
    <3>1. CASE SetBase(c)
      BY <1>0, <3>1 DEF SetBase
    <3>2. CASE GetBufA(c)
      BY <1>0, <3>2 DEF GetBufA
    <3>3. CASE GetBufB(c)
      BY <1>0, <3>3 DEF GetBufB
    <3> QED  BY <1>1, <3>1, <3>2, <3>3
  <2>3. UNCHANGED <<mem, i, j, n, q, p3, res>>
    BY <1>1 DEF SetBase, GetBufA, GetBufB
  <2> QED  BY <1>0, <2>1, <2>2, <2>3
<1>2. CASE BeginTest(c)
  <2>1. pc' \in [CPU -> Labels]
    BY <1>0, <1>2 DEF BeginTest, Transition, Labels
  <2>2. q' \in [CPU -> Word]
    BY <1>0, <1>2 DEF BeginTest
  <2> QED  BY <1>0, <1>2, <2>1, <2>2 DEF BeginTest
<1>3. CASE FillB(c)
  <2>1. pc' \in [CPU -> Labels]
    BY <1>0, <1>3 DEF FillB, Transition, Labels
  <2>2. PICK w \in Word : q' = [q EXCEPT ![c] = w] /\ mem' = [mem EXCEPT ![B(c)] = w]
    BY <1>3 DEF FillB
  <2>3. q' \in [CPU -> Word] /\ mem' \in [Place -> Word]
    BY <1>0, <2>2
  <2> QED  BY <1>0, <1>3, <2>1, <2>3 DEF FillB
<1>4. CASE FillA(c)
  <2>1. pc' \in [CPU -> Labels] /\ n' \in [CPU -> 1 .. COUNT]
    BY <1>4, NextWordType DEF FillA, Labels, TypeInv
  <2> QED  BY <1>0, <1>4, <2>1, WordsAre DEF FillA
<1>5. CASE LoadA(c) \/ LoadB(c) \/ CompareA(c)
  <2>1. pc' \in [CPU -> Labels]
    BY <1>0, <1>5 DEF LoadA, LoadB, CompareA, Transition, Labels
  <2>2. PICK place \in Place : Load(c, place)
    BY <1>5, PlacesAre DEF LoadA, LoadB, CompareA, TypeInv
  <2>3. p3' \in [CPU -> Word]
    BY <1>0, <2>2 DEF Load
  <2> QED  BY <1>0, <2>1, <2>2, <2>3 DEF Load
<1>6. CASE StoreA(c) \/ StoreB(c)
  <2>1. pc[c] \in {"storea", "storeb"} /\ pc' \in [CPU -> Labels] /\ n' \in [CPU -> 1 .. COUNT]
    <3>1. CASE StoreA(c)
      BY <1>0, <3>1 DEF StoreA, Transition, Labels
    <3>2. CASE StoreB(c)
      BY <3>2, NextWordType DEF StoreB, NextWord, Transition, Labels, TypeInv
    <3> QED  BY <1>6, <3>1, <3>2
  <2>2. Operated(c) \in Word
    <3>1. i[c] \in 1 .. Len(memtests) /\ memtests[i[c]].op # "fill"
      BY <1>0, <2>1 DEF TypeInv, Operating
    <3>2. memtests[i[c]].op \in Op \ {"fill"}
      BY <3>1, TableIs
    <3> QED  BY <1>0, <3>2, OperateIsWord DEF Operated
  <2>3. mem' \in [Place -> Word]
    BY <1>0, <1>6, <2>2 DEF StoreA, StoreB
  <2>4. p3' \in [CPU -> Word]
    BY <1>0, <1>6, WordsAre DEF StoreA, StoreB
  <2> QED  BY <1>0, <1>6, <2>1, <2>3, <2>4 DEF StoreA, StoreB
<1>7. CASE CompareB(c)
  <2>1. pc' \in [CPU -> Labels] /\ n' \in [CPU -> 1 .. COUNT]
    BY <1>7, NextWordType DEF CompareB, Labels, TypeInv
  <2>2. res' \in [CPU -> BOOLEAN]
    BY <1>0, <1>7 DEF CompareB
  <2> QED  BY <1>0, <1>7, <2>1, <2>2, WordsAre DEF CompareB
<1>8. CASE Passed(c)
  <2>1. UNCHANGED <<mem_base, bufa, bufb, mem, n, q, p3, res>>
    BY <1>8 DEF Passed
  <2>2. pc' \in [CPU -> Labels]
    BY <1>0, <1>8 DEF Passed, Transition, Labels
  <2>3. CASE j[c] < memtests[i[c]].passes
    <3>1. j' = [j EXCEPT ![c] = @ + 1] /\ i' = i
      BY <1>8, <2>3 DEF Passed
    <3>2. j[c] \in Nat /\ memtests[i[c]].passes \in Nat
      BY <1>0, TableIs
    <3>3. j[c] + 1 \in 1 .. memtests[i[c]].passes /\ j[c] + 1 \in Nat
      BY <2>3, <3>2
    <3> QED  BY <1>0, <2>1, <2>2, <3>1, <3>3
  <2>4. CASE ~(j[c] < memtests[i[c]].passes)
    <3> DEFINE to == (i[c] % Len(memtests)) + 1
    <3>1. j' = [j EXCEPT ![c] = 1] /\ i' = [i EXCEPT ![c] = to]
      BY <1>8, <2>4 DEF Passed
    <3>2. to \in 1 .. Len(memtests)
      <4>1. i[c] \in Nat
        BY <1>0, TableIs
      <4> QED  BY <4>1, TableIs
    <3> HIDE DEF to
    <3>3. 1 \in 1 .. memtests[to].passes
      BY <3>2, TableIs
    <3> QED  BY <1>0, <2>1, <2>2, <3>1, <3>2, <3>3
  <2> QED  BY <2>3, <2>4
<1>9. CASE Failed(c)
  <2>1. UNCHANGED <<mem_base, bufa, bufb, mem, n, q, p3>> /\ res' = [res EXCEPT ![c] = FALSE]
        /\ i' = [i EXCEPT ![c] = 1] /\ j' = [j EXCEPT ![c] = 1]
    BY <1>9 DEF Failed
  <2>2. pc' \in [CPU -> Labels]
    BY <1>0, <1>9 DEF Failed, Transition, Labels
  <2>3. 1 \in 1 .. Len(memtests) /\ 1 \in 1 .. memtests[1].passes
    BY TableIs
  <2> QED  BY <1>0, <2>1, <2>2, <2>3
<1> QED
  BY <1>1, <1>2, <1>3, <1>4, <1>5, <1>6, <1>7, <1>8, <1>9 DEF test_entry

LEMMA OperatingStep ==
  ASSUME TypeInv, NEW c \in CPU, test_entry(c), NEW d \in CPU, pc'[d] \in Operating
  PROVE  memtests[i'[d]].op # "fill"
<1>0. pc \in [CPU -> Labels] /\ i \in [CPU -> 1 .. Len(memtests)]
      /\ (pc[d] \in Operating => memtests[i[d]].op # "fill")
  BY DEF TypeInv, TypeOK, Labels
<1> USE DEF Operating, Transition
<1>1. CASE SetBase(c) \/ GetBufA(c) \/ GetBufB(c)
  BY <1>0, <1>1 DEF SetBase, GetBufA, GetBufB
<1>2. CASE BeginTest(c)
  BY <1>0, <1>2 DEF BeginTest
<1>3. CASE FillB(c) \/ FillA(c)
  BY <1>0, <1>3 DEF FillB, FillA, NextWord
<1>4. CASE LoadA(c) \/ LoadB(c) \/ CompareA(c)
  BY <1>0, <1>4 DEF LoadA, LoadB, CompareA, Load
<1>5. CASE StoreA(c) \/ StoreB(c) \/ CompareB(c)
  BY <1>0, <1>5 DEF StoreA, StoreB, CompareB, NextWord
<1>6. CASE Passed(c)
  BY <1>0, <1>6 DEF Passed
<1>7. CASE Failed(c)
  BY <1>0, <1>7 DEF Failed
<1> QED
  BY <1>1, <1>2, <1>3, <1>4, <1>5, <1>6, <1>7 DEF test_entry

\* Every core works on words of the tested halves, in the ranges of its
\* counters, and every operation of a test (memtester.c 77-163) makes a word
\* of two, for every width, table, number of words and of cores.
THEOREM TypeCorrect == Spec => []TypeOK
<1>1. Init => TypeInv
  <2> SUFFICES ASSUME Init PROVE TypeInv
    OBVIOUS
  <2>1. /\ 1 \in 1 .. Len(memtests) /\ 1 \in 1 .. memtests[1].passes /\ 1 \in 1 .. COUNT
        /\ Master \in CPU
    BY TableIs, MemTesterAssumption
  <2>2. mem \in [Place -> Word]
    BY WordsAre DEF Init
  <2> QED  BY <2>1, <2>2, WordsAre DEF Init, TypeInv, TypeOK, Operating
<1>2. TypeInv /\ [Next]_vars => TypeInv'
  <2> SUFFICES ASSUME TypeInv, [Next]_vars PROVE TypeInv'
    OBVIOUS
  <2>1. CASE UNCHANGED vars
    BY <2>1 DEF vars, TypeInv, TypeOK, Place, Word
  <2>2. ASSUME NEW c \in CPU, test_entry(c) PROVE TypeInv'
    BY <2>2, TypeStep, OperatingStep DEF TypeInv
  <2> QED  BY <2>1, <2>2 DEF Next
<1>3. TypeInv => TypeOK
  BY DEF TypeInv
<1> QED
  BY <1>1, <1>2, <1>3, PTL DEF Spec

=============================================================================
