---------------------------- MODULE Console_proofs ----------------------------
(***************************************************************************)
(* Mutual exclusion on the console, no overrun of the transmitter, and the *)
(* refinement of LineLog, for every set of cores and messages and any      *)
(* number of calls.                                                        *)
(***************************************************************************)
EXTENDS Console, Integers, SequenceTheorems, WellFoundedInduction, TLAPS

\* Between the lock loop and the unlock.
Inside == {"poll", "write"}

\* The inductive invariant: an owner is the only core inside, and from its
\* poll to its write the transmitter is empty, since only it writes.
IInv ==
    /\ DOMAIN pc = CPU /\ DOMAIN rest = CPU
    /\ lock \in {0, 1}
    /\ lock = 1 <=> \E c \in CPU : pc[c] \in Inside
    /\ \A c, d \in CPU : pc[c] \in Inside /\ pc[d] \in Inside => c = d
    /\ \A c \in CPU : pc[c] = "write" => thr = <<>>

LEMMA CoreStep ==
  ASSUME IInv, NEW c \in CPU, mprintf(c)
  PROVE  IInv'
<1> USE DEF IInv, Inside
<1>1. CASE Call(c)
  BY <1>1 DEF Call
<1>2. CASE ReadLock(c)
  BY <1>2 DEF ReadLock
<1>3. CASE PollLsr(c)
  BY <1>3 DEF PollLsr
<1>4. CASE WriteThr(c)
  BY <1>4 DEF WriteThr
<1>5. CASE Unlock(c)
  BY <1>5 DEF Unlock
<1>6. QED
  BY <1>1, <1>2, <1>3, <1>4, <1>5 DEF mprintf

LEMMA InductiveStep == IInv /\ [Next]_vars => IInv'
<1> SUFFICES ASSUME IInv, [Next]_vars PROVE IInv'
  OBVIOUS
<1>1. CASE UNCHANGED vars
  BY <1>1 DEF vars, IInv, Inside
<1>2. CASE Transmit
  BY <1>2 DEF Transmit, IInv, Inside
<1>3. CASE \E c \in CPU : mprintf(c)
  BY <1>3, CoreStep
<1> QED
  BY <1>1, <1>2, <1>3 DEF Next

LEMMA Inductive == Spec => []IInv
<1>1. Init => IInv
  BY DEF Init, IInv, Inside
<1> QED
  BY <1>1, InductiveStep, PTL DEF Spec

\* One core at a time prints, and the lock register is 1 exactly then
\* (mprintf.c 125-162).
THEOREM OnePrinter == Spec => []Exclusive
<1>1. IInv => Exclusive
  BY DEF IInv, Inside, Exclusive, Printing
<1>2. QED
  BY Inductive, <1>1, PTL

\* No character is overwritten before it is sent (mprintf.c 70-71).
THEOREM NothingOverwritten == Spec => []NoOverrun
<1>1. IInv => NoOverrun
  BY DEF IInv, NoOverrun
<1>2. QED
  BY Inductive, <1>1, PTL

----------------------------------------------------------------------------
(* Types.                                                                   *)

Char == CPU \cup {"-", "\n", "\r"} \cup STRING

\* A call that has begun is one of the MAX_CALLS.
TypeInv ==
    /\ TypeOK
    /\ \A c \in CPU : pc[c] # "out" => calls[c] < MAX_CALLS
    /\ rest \in [CPU -> Seq(Char)]
    /\ thr \in Seq(Char) /\ wire \in Seq(Char)

LEMMA Texts ==
  ASSUME NEW m \in Message, NEW c \in CPU
  PROVE  m \in Seq(STRING) /\ m \in Seq(Char) /\ <<"-", c, "-">> \in Seq(Char)
         /\ <<"-", c, "-">> \o m \in Seq(Char)
<1>1. m \in Seq(STRING) /\ STRING \subseteq Char
  BY ConsoleAssumption DEF Char
<1>2. m \in Seq(Char)
  BY <1>1, SeqMonotonic
<1>3. "-" \in Char /\ c \in Char
  BY DEF Char
<1> HIDE DEF Char
<1>4. <<"-", c, "-">> \in Seq(Char)
  BY <1>3
<1> QED
  BY <1>1, <1>2, <1>4, ConcatProperties

LEMMA TypeInit == Init => TypeInv
<1> SUFFICES ASSUME Init PROVE TypeInv
  OBVIOUS
<1>1. << >> \in Seq(Char) /\ Len(<< >>) = 0
  BY EmptySeq
<1>2. 0 \in 0 .. MAX_CALLS
  BY ConsoleAssumption
<1> HIDE DEF Char
<1> QED
  BY <1>1, <1>2 DEF Init, TypeInv, TypeOK

LEMMA WriteTypes ==
  ASSUME TypeInv, NEW c \in CPU, WriteThr(c)
  PROVE  /\ Head(rest[c]) \in Char /\ Tail(rest[c]) \in Seq(Char)
         /\ thr' = <<Head(rest[c])>> /\ thr' \in Seq(Char) /\ Len(thr') = 1
         /\ rest' = [rest EXCEPT ![c] = (IF Head(rest[c]) = "\n" THEN <<"\r">> ELSE << >>)
                                         \o Tail(rest[c])]
         /\ rest' \in [CPU -> Seq(Char)]
<1>1. rest[c] \in Seq(Char) /\ rest[c] # << >> /\ rest \in [CPU -> Seq(Char)]
  BY DEF WriteThr, TypeInv, TypeOK
<1>2. Head(rest[c]) \in Char /\ Tail(rest[c]) \in Seq(Char)
  BY <1>1, HeadTailProperties
<1>3. "\r" \in Char
  BY DEF Char
<1> DEFINE h == Head(rest[c])
           t == Tail(rest[c])
<1>4. thr' = <<h>> /\ rest' = [rest EXCEPT ![c] = (IF h = "\n" THEN <<"\r">> ELSE << >>) \o t]
  BY DEF WriteThr
<1> HIDE DEF Char, h, t
<1>5. h \in Char /\ t \in Seq(Char)
  BY <1>2 DEF h, t
<1>6. thr' \in Seq(Char) /\ Len(thr') = 1
  BY <1>4, <1>5
<1>7. <<"\r">> \o t \in Seq(Char) /\ << >> \o t \in Seq(Char)
  BY <1>3, <1>5, ConcatProperties, EmptySeq
<1>8. rest' \in [CPU -> Seq(Char)]
  <2>1. (IF h = "\n" THEN <<"\r">> ELSE << >>) \o t \in Seq(Char)
    BY <1>7
  <2> QED  BY <1>1, <1>4, <2>1
<1> QED
  BY <1>4, <1>5, <1>6, <1>8 DEF h, t

LEMMA TypeStep == TypeInv /\ [Next]_vars => TypeInv'
<1> SUFFICES ASSUME TypeInv, [Next]_vars PROVE TypeInv'
  OBVIOUS
<1> HIDE DEF Char
<1>1. ASSUME NEW c \in CPU, Call(c) PROVE TypeInv'
  <2>1. PICK m \in Message : rest' = [rest EXCEPT ![c] = <<"-", c, "-">> \o m]
    BY <1>1 DEF Call
  <2>2. <<"-", c, "-">> \o m \in Seq(Char)
    BY Texts
  <2>3. rest' \in [CPU -> Seq(Char)] /\ \A d \in CPU \ {c} : rest'[d] = rest[d]
    BY <2>1, <2>2 DEF TypeInv
  <2> QED  BY <1>1, <2>3 DEF Call, TypeInv, TypeOK
<1>2. ASSUME NEW c \in CPU, ReadLock(c) PROVE TypeInv'
  BY <1>2 DEF ReadLock, TypeInv, TypeOK
<1>3. ASSUME NEW c \in CPU, PollLsr(c) PROVE TypeInv'
  BY <1>3 DEF PollLsr, TypeInv, TypeOK
<1>4. ASSUME NEW c \in CPU, WriteThr(c) PROVE TypeInv'
  <2>1. pc' = [pc EXCEPT ![c] = "poll"] /\ sent' = [sent EXCEPT ![c] = @ + 1] /\ pc[c] = "write"
        /\ UNCHANGED <<calls, lock, wire>>
    BY <1>4 DEF WriteThr
  <2>2. \A d \in CPU \ {c} : rest'[d] = rest[d]
    BY <1>4, WriteTypes DEF TypeInv
  <2>3. rest' \in [CPU -> Seq(Char)] /\ thr' \in Seq(Char) /\ Len(thr') = 1
    BY <1>4, WriteTypes
  <2>4. pc' \in [CPU -> {"out", "lock", "poll", "write"}] /\ sent' \in [CPU -> Nat]
    BY <2>1 DEF TypeInv, TypeOK
  <2>5. \A d \in CPU : pc'[d] = "write" => rest'[d] # << >>
    BY <2>1, <2>2 DEF TypeInv, TypeOK
  <2>6. \A d \in CPU : pc'[d] # "out" => calls'[d] < MAX_CALLS
    BY <2>1 DEF TypeInv, TypeOK
  <2> QED  BY <2>1, <2>3, <2>4, <2>5, <2>6 DEF TypeInv, TypeOK
<1>5. ASSUME NEW c \in CPU, Unlock(c) PROVE TypeInv'
  <2>1. calls[c] < MAX_CALLS /\ calls[c] \in 0 .. MAX_CALLS
    BY <1>5 DEF Unlock, TypeInv, TypeOK
  <2>2. calls[c] + 1 \in 0 .. MAX_CALLS
    BY <2>1, ConsoleAssumption
  <2> QED  BY <1>5, <2>2 DEF Unlock, TypeInv, TypeOK
<1>6. CASE Transmit
  <2>1. wire' \in Seq(Char) /\ thr' \in Seq(Char) /\ Len(thr') <= 1
    BY <1>6, ConcatProperties, EmptySeq DEF Transmit, TypeInv
  <2> QED  BY <1>6, <2>1 DEF Transmit, TypeInv, TypeOK
<1>7. CASE UNCHANGED vars
  BY <1>7 DEF vars, TypeInv, TypeOK
<1> QED
  BY <1>1, <1>2, <1>3, <1>4, <1>5, <1>6, <1>7 DEF Next, mprintf

\* The states of the calls keep their ranges; a core that is about to write has
\* a character to write.
THEOREM TypeCorrect == Spec => []TypeOK
<1>1. TypeInv => TypeOK
  BY DEF TypeInv
<1> QED
  BY <1>1, TypeInit, TypeStep, PTL DEF Spec

----------------------------------------------------------------------------
(* Induction on the natural numbers, for one set at a time.                 *)

Less == {p \in Nat \X Nat : p[1] < p[2]}

LEMMA LessWF == IsWellFoundedOn(Less, Nat)
BY NatLessThanWellFounded DEF OpToRel, Less

\* A set of numbers with 0 and every successor is the set of all numbers.
LEMMA SetInduction ==
  ASSUME NEW S, S \subseteq Nat, 0 \in S, \A n \in S : n + 1 \in S
  PROVE  S = Nat
<1> DEFINE T == Nat \ S
<1>1. SUFFICES ASSUME T # {} PROVE FALSE
  OBVIOUS
<1> HIDE DEF T
<1>2. T \subseteq Nat
  BY DEF T
<1>3. PICK x \in T : \A y \in T : ~ (<<y, x>> \in Less)
  BY <1>1, <1>2, WFMin, LessWF
<1>4. x \in Nat /\ x \notin S /\ x # 0
  BY <1>3 DEF T
<1>5. x - 1 \in Nat /\ x - 1 < x
  BY <1>4
<1>6. <<x - 1, x>> \in Less
  BY <1>5, <1>4 DEF Less
<1>7. x - 1 \notin T
  BY <1>3, <1>6
<1>8. x - 1 \in S
  BY <1>5, <1>7 DEF T
<1>9. x - 1 + 1 \in S
  BY <1>8
<1> QED
  BY <1>4, <1>9

----------------------------------------------------------------------------
(* The printed text of a message, from its recursive definition.            *)

\* f[n] is the printed text of the first n characters of m.
Prefixes(m, f) ==
    /\ f \in [0 .. Len(m) -> Seq(Char)]
    /\ f[0] = << >>
    /\ \A n \in Nat : n < Len(m) => f[n + 1] = f[n] \o Log!Echo(m[n + 1])

\* The definition of upTo in Printed, up to k.
Body(m, f, k) ==
    f = [n \in 0 .. k |-> IF n = 0 THEN << >> ELSE f[n - 1] \o Log!Echo(m[n])]

LEMMA Associative == \A a, b, c \in Seq(Char) : (a \o b) \o c = a \o (b \o c)
BY ConcatAssociative

LEMMA EchoType == ASSUME NEW x \in Char PROVE Log!Echo(x) \in Seq(Char)
<1>1. "\n" \in Char /\ "\r" \in Char
  BY DEF Char
<1> QED
  BY <1>1 DEF Log!Echo

LEMMA BodyExists ==
  ASSUME NEW m
  PROVE  \A k \in Nat : \E f : Body(m, f, k)
<1> DEFINE S == {k \in Nat : \E f : Body(m, f, k)}
<1>1. 0 \in S
  <2>1. Body(m, [n \in 0 .. 0 |-> << >>], 0)
    BY DEF Body
  <2> QED  BY <2>1
<1>2. ASSUME NEW k \in S PROVE k + 1 \in S
  <2>1. PICK f : Body(m, f, k)
    BY <1>2
  <2>2. k \in Nat
    BY <1>2
  <2> DEFINE g == [n \in 0 .. k + 1 |-> IF n = k + 1 THEN f[k] \o Log!Echo(m[k + 1]) ELSE f[n]]
             e(n) == Log!Echo(m[n])
  <2>3. \A n \in 0 .. k : f[n] = IF n = 0 THEN << >> ELSE f[n - 1] \o e(n)
    BY <2>1, <2>2 DEF Body
  <2>4. g[k + 1] = f[k] \o e(k + 1) /\ \A n \in 0 .. k : g[n] = f[n]
    BY <2>2
  <2> HIDE DEF e
  <2>5. \A n \in 0 .. k + 1 : g[n] = IF n = 0 THEN << >> ELSE g[n - 1] \o e(n)
    <3> SUFFICES ASSUME NEW n \in 0 .. k + 1
                 PROVE  g[n] = IF n = 0 THEN << >> ELSE g[n - 1] \o e(n)
      OBVIOUS
    <3> HIDE DEF g
    <3>1. CASE n = k + 1
      <4>1. n # 0 /\ n - 1 = k /\ k \in 0 .. k
        BY <3>1, <2>2
      <4>2. g[n] = f[k] \o e(n) /\ g[n - 1] = f[k]
        BY <3>1, <4>1, <2>4
      <4> QED  BY <4>1, <4>2
    <3>2. CASE n \in 0 .. k
      <4>1. CASE n = 0
        BY <3>2, <4>1, <2>3, <2>4
      <4>2. CASE n # 0
        <5>1. n - 1 \in 0 .. k
          BY <3>2, <4>2, <2>2
        <5>2. g[n - 1] = f[n - 1] /\ g[n] = f[n]
          BY <5>1, <3>2, <2>4
        <5>3. f[n] = f[n - 1] \o e(n)
          BY <4>2, <3>2, <2>3
        <5> QED  BY <5>2, <5>3, <4>2
      <4> QED  BY <4>1, <4>2
    <3> QED  BY <3>1, <3>2, <2>2
  <2>6. Body(m, g, k + 1)
    <3>1. g = [n \in 0 .. k + 1 |-> g[n]]
      OBVIOUS
    <3> HIDE DEF g
    <3> QED  BY <3>1, <2>5 DEF Body, e
  <2> QED  BY <2>2, <2>6
<1> HIDE DEF S
<1>3. S = Nat
  <2>1. S \subseteq Nat
    BY DEF S
  <2> QED  BY <1>1, <1>2, <2>1, SetInduction
<1> QED
  BY <1>3 DEF S

LEMMA PrintedIs ==
  ASSUME NEW m \in Seq(Char)
  PROVE  \E f : Prefixes(m, f) /\ Log!Printed(m) = f[Len(m)]
<1>1. Len(m) \in Nat /\ \A n \in 1 .. Len(m) : m[n] \in Char
  BY ElementOfSeq, LenProperties
<1>2. \E f : Body(m, f, Len(m))
  BY <1>1, BodyExists
<1>3. PICK f : Body(m, f, Len(m)) /\ Log!Printed(m) = f[Len(m)]
  BY <1>2 DEF Body, Log!Printed
<1> HIDE DEF Char
<1>4. f[0] = << >> /\ \A n \in Nat : n < Len(m) => f[n + 1] = f[n] \o Log!Echo(m[n + 1])
  <2>1. \A n \in 0 .. Len(m) : f[n] = IF n = 0 THEN << >> ELSE f[n - 1] \o Log!Echo(m[n])
    BY <1>3 DEF Body
  <2>2. f[0] = << >>
    BY <2>1, <1>1
  <2>3. ASSUME NEW n \in Nat, n < Len(m) PROVE f[n + 1] = f[n] \o Log!Echo(m[n + 1])
    <3>1. n + 1 \in 0 .. Len(m) /\ n + 1 # 0 /\ n + 1 - 1 = n
      BY <2>3, <1>1
    <3> DEFINE k == n + 1
    <3>2. k \in 0 .. Len(m) /\ k # 0 /\ k - 1 = n
      BY <3>1
    <3> HIDE DEF k
    <3>3. f[k] = f[k - 1] \o Log!Echo(m[k])
      BY <3>2, <2>1
    <3> QED  BY <3>2, <3>3 DEF k
  <2> QED  BY <2>2, <2>3
<1> DEFINE S == {n \in Nat : n <= Len(m) => f[n] \in Seq(Char)}
<1>5. 0 \in S
  BY <1>4, EmptySeq
<1>6. ASSUME NEW n \in S PROVE n + 1 \in S
  <2>1. n \in Nat /\ (n <= Len(m) => f[n] \in Seq(Char))
    BY <1>6
  <2>2. SUFFICES ASSUME n + 1 <= Len(m) PROVE f[n + 1] \in Seq(Char)
    BY <2>1
  <2>3. n + 1 \in 1 .. Len(m) /\ n < Len(m) /\ f[n] \in Seq(Char)
    BY <2>1, <2>2, <1>1
  <2>4. Log!Echo(m[n + 1]) \in Seq(Char)
    BY <2>3, <1>1, EchoType
  <2>5. f[n + 1] = f[n] \o Log!Echo(m[n + 1])
    BY <2>1, <2>3, <1>4
  <2> QED  BY <2>3, <2>4, <2>5, ConcatProperties
<1>7. S = Nat
  <2>1. S \subseteq Nat
    OBVIOUS
  <2> HIDE DEF S
  <2> QED  BY <1>5, <1>6, <2>1, SetInduction
<1>8. \A n \in 0 .. Len(m) : f[n] \in Seq(Char)
  BY <1>7, <1>1
<1>9. f \in [0 .. Len(m) -> Seq(Char)]
  BY <1>3, <1>8 DEF Body
<1> QED
  BY <1>3, <1>4, <1>9 DEF Prefixes

LEMMA PrintedType == ASSUME NEW m \in Seq(Char) PROVE Log!Printed(m) \in Seq(Char)
<1>1. PICK f : Prefixes(m, f) /\ Log!Printed(m) = f[Len(m)]
  BY PrintedIs
<1>2. Len(m) \in 0 .. Len(m)
  BY LenProperties
<1> QED
  BY <1>1, <1>2 DEF Prefixes

LEMMA PrintedEmpty == Log!Printed(<< >>) = << >>
<1>1. << >> \in Seq(Char) /\ Len(<< >>) = 0
  BY EmptySeq
<1>2. PICK f : Prefixes(<< >>, f) /\ Log!Printed(<< >>) = f[0]
  BY <1>1, PrintedIs
<1> QED
  BY <1>2 DEF Prefixes

LEMMA PrintedCons ==
  ASSUME NEW x \in Char, NEW t \in Seq(Char)
  PROVE  Log!Printed(<<x>> \o t) = Log!Echo(x) \o Log!Printed(t)
<1> DEFINE m == <<x>> \o t
<1>1. m \in Seq(Char) /\ Len(m) = Len(t) + 1 /\ Len(t) \in Nat /\ m[1] = x
      /\ \A n \in 1 .. Len(t) : m[n + 1] = t[n]
  <2>1. <<x>> \in Seq(Char) /\ Len(<<x>>) = 1
    OBVIOUS
  <2> QED  BY <2>1, ConcatProperties, LenProperties
<1> HIDE DEF m
<1>2. PICK f : Prefixes(m, f) /\ Log!Printed(m) = f[Len(m)]
  BY <1>1, PrintedIs
<1>3. PICK g : Prefixes(t, g) /\ Log!Printed(t) = g[Len(t)]
  BY PrintedIs
<1>4. Log!Echo(x) \in Seq(Char) /\ \A n \in 1 .. Len(t) : Log!Echo(t[n]) \in Seq(Char)
  BY EchoType, ElementOfSeq
<1> HIDE DEF Char
<1> DEFINE E == Log!Echo(x)
           S == {n \in Nat : n <= Len(t) => f[n + 1] = E \o g[n]}
<1>5. f[1] = E \o g[0]
  <2>1. 0 < Len(m) /\ 0 + 1 = 1
    BY <1>1
  <2>2. f[0 + 1] = f[0] \o Log!Echo(m[0 + 1]) /\ f[0] = << >> /\ g[0] = << >>
    BY <2>1, <1>2, <1>3 DEF Prefixes
  <2>3. << >> \o E = E /\ E \o << >> = E
    BY <1>4, ConcatEmptySeq
  <2> HIDE DEF S
  <2> QED  BY <2>1, <2>2, <2>3, <1>1
<1>6. ASSUME NEW n \in Nat, n + 1 <= Len(t), f[n + 1] = E \o g[n]
      PROVE  f[n + 1 + 1] = E \o g[n + 1]
  <2> HIDE DEF S
  <2> DEFINE a == g[n]
             b == Log!Echo(t[n + 1])
  <2>1. n + 1 \in Nat /\ n + 1 < Len(m) /\ n < Len(t) /\ n \in 0 .. Len(t) /\ n + 1 \in 1 .. Len(t)
    BY <1>6, <1>1
  <2>2. m[n + 1 + 1] = t[n + 1]
    BY <2>1, <1>1
  <2>3. f[n + 1 + 1] = f[n + 1] \o Log!Echo(m[n + 1 + 1])
    BY <2>1, <1>2 DEF Prefixes
  <2>4. g[n + 1] = a \o b
    BY <2>1, <1>3, <1>6 DEF Prefixes
  <2>5. a \in Seq(Char)
    BY <2>1, <1>3 DEF Prefixes
  <2>6. b \in Seq(Char) /\ E \in Seq(Char)
    BY <2>1, <1>4
  <2>7. (E \o a) \o b = E \o (a \o b)
    <3> HIDE DEF a, b, E
    <3>1. \A w \in Seq(Char) : (E \o a) \o w = E \o (a \o w)
      BY <2>5, <2>6, Associative
    <3> QED  BY <2>6, <3>1
  <2> QED  BY <1>6, <2>2, <2>3, <2>4, <2>7
<1>7. S = Nat
  <2>1. S \subseteq Nat
    OBVIOUS
  <2>2. 0 \in S
    <3>1. 0 + 1 = 1
      OBVIOUS
    <3> HIDE DEF E
    <3> QED  BY <3>1, <1>5
  <2>3. ASSUME NEW n \in S PROVE n + 1 \in S
    <3>1. n \in Nat /\ n + 1 \in Nat /\ (n + 1 <= Len(t) => n <= Len(t))
      BY <1>1
    <3>2. n <= Len(t) => f[n + 1] = E \o g[n]
      BY <2>3
    <3>3. n + 1 <= Len(t) => f[n + 1 + 1] = E \o g[n + 1]
      BY <3>1, <3>2, <1>6
    <3> HIDE DEF E
    <3> QED  BY <3>1, <3>3
  <2> HIDE DEF S
  <2> QED  BY <2>1, <2>2, <2>3, SetInduction
<1>8. f[Len(t) + 1] = E \o g[Len(t)]
  <2>1. Len(t) \in S /\ Len(t) <= Len(t)
    <3> HIDE DEF S
    <3> QED  BY <1>7, <1>1
  <2> HIDE DEF E
  <2> QED  BY <2>1
<1> QED
  BY <1>1, <1>2, <1>3, <1>8 DEF m

\* Writing one character, and a carriage return after a line feed, is
\* printing the rest (mprintf.c 70-78).
LEMMA PrintedStep ==
  ASSUME NEW r \in Seq(Char), r # << >>
  PROVE  Log!Printed(r) = <<Head(r)>>
             \o Log!Printed((IF Head(r) = "\n" THEN <<"\r">> ELSE << >>) \o Tail(r))
<1> DEFINE x == Head(r)
           t == Tail(r)
<1>1. x \in Char /\ t \in Seq(Char) /\ r = <<x>> \o t
  BY HeadTailProperties
<1>2. "\r" \in Char /\ "\n" \in Char /\ "\r" # "\n"
  BY DEF Char
<1> HIDE DEF Char, x, t
<1>3. Log!Printed(r) = Log!Echo(x) \o Log!Printed(t)
  BY <1>1, PrintedCons
<1>4. Log!Printed(t) \in Seq(Char)
  BY <1>1, PrintedType
<1>5. CASE x = "\n"
  <2>1. Log!Printed(<<"\r">> \o t) = <<"\r">> \o Log!Printed(t)
    <3>1. Log!Echo("\r") = <<"\r">>
      BY <1>2 DEF Log!Echo
    <3> QED  BY <3>1, <1>1, <1>2, PrintedCons
  <2>2. Log!Echo(x) = <<x>> \o <<"\r">>
    BY <1>5 DEF Log!Echo
  <2>3. (<<x>> \o <<"\r">>) \o Log!Printed(t) = <<x>> \o (<<"\r">> \o Log!Printed(t))
    <3>1. <<x>> \in Seq(Char) /\ <<"\r">> \in Seq(Char)
      BY <1>1, <1>2
    <3> QED  BY <3>1, <1>4, ConcatAssociative
  <2> QED  BY <1>3, <1>5, <2>1, <2>2, <2>3 DEF x, t
<1>6. CASE x # "\n"
  <2>1. Log!Echo(x) = <<x>>
    BY <1>6 DEF Log!Echo
  <2>2. << >> \o t = t
    BY <1>1, ConcatEmptySeq
  <2> QED  BY <1>3, <1>6, <2>1, <2>2 DEF x, t
<1> QED
  BY <1>5, <1>6

\* The mark of the core and the message make up the line (mprintf.c 125-131).
LEMMA LineIs ==
  ASSUME NEW c \in CPU, NEW m \in Message
  PROVE  Log!Line(c, m) = Log!Printed(<<"-", c, "-">> \o m)
<1>1. m \in Seq(Char) /\ "-" \in Char /\ c \in Char /\ c # "\n" /\ "-" # "\n"
  BY Texts, ConsoleAssumption DEF Char
<1> HIDE DEF Char
<1> DEFINE d == <<"-">>
           i == <<c>>
           p == Log!Printed(m)
<1>2. d \in Seq(Char) /\ i \in Seq(Char) /\ p \in Seq(Char)
  BY <1>1, PrintedType
<1>3. Log!Echo("-") = d /\ Log!Echo(c) = i
  BY <1>1 DEF Log!Echo
<1>4. <<"-", c, "-">> = d \o (i \o d)
  OBVIOUS
<1> HIDE DEF d, i, p
<1>5. /\ d \o m \in Seq(Char) /\ i \o (d \o m) \in Seq(Char)
      /\ d \o p \in Seq(Char) /\ i \o d \in Seq(Char)
  BY <1>1, <1>2, ConcatProperties
<1>6. \A s \in Seq(Char) : (d \o (i \o d)) \o s = d \o (i \o (d \o s))
  <2> TAKE s \in Seq(Char)
  <2>1. (d \o (i \o d)) \o s = d \o ((i \o d) \o s)
    <3> DEFINE j == i \o d
    <3>1. d \in Seq(Char) /\ j \in Seq(Char) /\ s \in Seq(Char)
      BY <1>2, <1>5
    <3> HIDE DEF j
    <3>2. \A w \in Seq(Char) : (d \o j) \o w = d \o (j \o w)
      BY <3>1, Associative
    <3> QED  BY <3>1, <3>2 DEF j
  <2>2. (i \o d) \o s = i \o (d \o s)
    <3>1. \A w \in Seq(Char) : (i \o d) \o w = i \o (d \o w)
      BY <1>2, Associative
    <3> QED  BY <3>1
  <2> QED  BY <2>1, <2>2
<1>7. Log!Printed(d \o m) = d \o p
  BY <1>1, <1>3, PrintedCons DEF d, p
<1>8. Log!Printed(i \o (d \o m)) = i \o (d \o p)
  BY <1>1, <1>3, <1>5, <1>7, PrintedCons DEF i
<1>9. Log!Printed(d \o (i \o (d \o m))) = d \o (i \o (d \o p))
  BY <1>1, <1>3, <1>5, <1>8, PrintedCons DEF d
<1> QED
  BY <1>1, <1>2, <1>4, <1>6, <1>9 DEF Log!Line, p

----------------------------------------------------------------------------
(* The refinement of LineLog.                                               *)

\* A core that waits for the lock has its whole line before it.
Waiting ==
    \A c \in CPU : pc[c] = "lock" =>
        sent[c] = 0 /\ \E m \in Message : rest[c] = <<"-", c, "-">> \o m

\* What has been written is the text of the calls that have returned and the
\* part the owner has put out of its line.
Half(c, com, m) ==
    /\ com \in Seq(Char) /\ m \in Message
    /\ \E out \in Seq(Char) :
        /\ Written = com \o out /\ Len(out) = sent[c]
        /\ Log!Line(c, m) = out \o Log!Printed(rest[c])

LogInv ==
    /\ IInv /\ TypeInv
    /\ Waiting
    /\ \A c \in Printing : \E com, m : Half(c, com, m)

\* Without the last characters.
LEMMA Prefix ==
  ASSUME NEW com \in Seq(Char), NEW out \in Seq(Char)
  PROVE  SubSeq(com \o out, 1, Len(com \o out) - Len(out)) = com
<1> DEFINE s == com \o out
<1>1. s \in Seq(Char) /\ Len(s) = Len(com) + Len(out) /\ \A i \in 1 .. Len(com) : s[i] = com[i]
  BY ConcatProperties, LenProperties
<1>2. Len(com) \in Nat /\ Len(out) \in Nat
  BY LenProperties
<1> HIDE DEF s, Char
<1>3. Len(s) - Len(out) = Len(com)
  BY <1>1, <1>2
<1>4. 1 \in 1 .. Len(s) + 1 /\ Len(com) \in 1 - 1 .. Len(s)
  BY <1>1, <1>2
<1>5. /\ SubSeq(s, 1, Len(com)) \in Seq(Char)
      /\ Len(SubSeq(s, 1, Len(com))) = Len(com)
      /\ \A i \in 1 .. Len(com) : SubSeq(s, 1, Len(com))[i] = s[i]
  BY <1>1, <1>2, SubSeqProperties
<1>6. SubSeq(s, 1, Len(com)) = com
  BY <1>1, <1>5, SeqEqual
<1> QED
  BY <1>3, <1>6 DEF s

\* The owner is the one core the choice in Committed can find.
LEMMA Owner ==
  ASSUME NEW S, NEW c \in S, \A d, e \in S : d = e
  PROVE  (CHOOSE d \in S : TRUE) = c
OBVIOUS

LEMMA OwnedText ==
  ASSUME IInv, TypeInv, NEW c \in Printing, NEW com, NEW m, Half(c, com, m)
  PROVE  Committed = com
<1>1. lock = 1 /\ \A d, e \in Printing : d = e
  BY DEF IInv, Printing, Inside
<1>2. (CHOOSE d \in Printing : TRUE) = c
  BY <1>1, Owner
<1>3. PICK out \in Seq(Char) : Written = com \o out /\ Len(out) = sent[c]
  BY DEF Half
<1>4. SubSeq(Written, 1, Len(Written) - sent[c]) = com
  BY <1>3, Prefix DEF Half
<1> HIDE DEF Char
<1> QED
  BY <1>1, <1>2, <1>4 DEF Committed

LEMMA FreeText == lock = 0 => Committed = Written
BY DEF Committed

LEMMA WrittenType == TypeInv => Written \in Seq(Char)
BY ConcatProperties DEF TypeInv, Written

LEMMA LogInit == Init => LogInv /\ Log!Init
<1> SUFFICES ASSUME Init PROVE LogInv /\ Log!Init
  OBVIOUS
<1>1. IInv
  BY DEF Init, IInv, Inside
<1>2. TypeInv
  BY TypeInit
<1>3. Printing = {} /\ Waiting
  BY DEF Init, Printing, Waiting
<1>4. Written = << >>
  BY ConcatEmptySeq, EmptySeq DEF Init, Written
<1>5. Committed = << >>
  BY <1>4, FreeText DEF Init
<1> QED
  BY <1>1, <1>2, <1>3, <1>5 DEF LogInv, Log!Init

\* Nothing of the text changes: what a step leaves as it is.
LEMMA SameText ==
  ASSUME LogInv, UNCHANGED <<sent, rest>>, Written' = Written, lock' = lock, Printing' = Printing,
         \A c \in CPU : pc'[c] = "lock" => pc[c] = "lock"
  PROVE  Waiting' /\ (\A c \in Printing' : \E com, m : Half(c, com, m)') /\ Committed' = Committed
<1>1. Waiting'
  BY DEF LogInv, Waiting
<1>2. \A c \in Printing : \A com, m : Half(c, com, m)' <=> Half(c, com, m)
  BY DEF Half
<1>3. \A c \in Printing' : \E com, m : Half(c, com, m)'
  BY <1>2 DEF LogInv
<1>4. Committed' = Committed
  BY DEF Committed
<1> QED
  BY <1>1, <1>3, <1>4

LEMMA CallText ==
  ASSUME LogInv, NEW c \in CPU, Call(c)
  PROVE  Waiting' /\ (\A d \in Printing' : \E com, m : Half(d, com, m)') /\ Committed' = Committed
<1>1. PICK m \in Message : rest' = [rest EXCEPT ![c] = <<"-", c, "-">> \o m]
  BY DEF Call
<1>2. /\ pc' = [pc EXCEPT ![c] = "lock"] /\ sent' = [sent EXCEPT ![c] = 0]
      /\ UNCHANGED <<lock, thr, wire>> /\ pc[c] = "out"
  BY DEF Call
<1>3. DOMAIN pc = CPU /\ DOMAIN rest = CPU /\ DOMAIN sent = CPU
  BY DEF LogInv, IInv, TypeInv, TypeOK
<1> HIDE DEF Char
<1>4. Printing' = Printing /\ Written' = Written /\ c \notin Printing
  BY <1>2, <1>3 DEF Printing, Written
<1>5. \A d \in CPU \ {c} : rest'[d] = rest[d] /\ sent'[d] = sent[d] /\ pc'[d] = pc[d]
  BY <1>1, <1>2, <1>3
<1>6. rest'[c] = <<"-", c, "-">> \o m /\ sent'[c] = 0
  BY <1>1, <1>2, <1>3
<1>7. Waiting'
  BY <1>5, <1>6 DEF LogInv, Waiting
<1>8. \A d \in Printing : d \in CPU \ {c}
  BY <1>4 DEF Printing
<1>9. \A d \in Printing : \A com, n : Half(d, com, n)' <=> Half(d, com, n)
  BY <1>4, <1>5, <1>8 DEF Half
<1>10. \A d \in Printing' : \E com, n : Half(d, com, n)'
  BY <1>4, <1>9 DEF LogInv
<1>11. Committed' = Committed
  <2>1. CASE lock = 0
    BY <2>1, <1>2, <1>4 DEF Committed
  <2>2. CASE lock # 0
    <3>1. PICK d \in Printing : TRUE
      BY <2>2 DEF LogInv, IInv, Printing, Inside
    <3>2. \A e, f \in Printing : e = f
      BY DEF LogInv, IInv, Printing, Inside
    <3>3. (CHOOSE e \in Printing : TRUE) = d
      BY <3>1, <3>2, Owner
    <3>4. sent'[d] = sent[d]
      BY <1>5, <1>8
    <3>5. (CHOOSE e \in Printing' : TRUE) = d
      BY <3>1, <3>2, <1>4, Owner
    <3>6. Committed = SubSeq(Written, 1, Len(Written) - sent[d])
      BY <2>2, <3>3 DEF Committed
    <3>7. Committed' = SubSeq(Written', 1, Len(Written') - sent'[d])
      BY <2>2, <3>5, <1>2 DEF Committed
    <3> QED  BY <3>4, <3>6, <3>7, <1>4
  <2> QED  BY <2>1, <2>2
<1> QED
  BY <1>7, <1>10, <1>11

LEMMA LockText ==
  ASSUME LogInv, NEW c \in CPU, ReadLock(c)
  PROVE  Waiting' /\ (\A d \in Printing' : \E com, m : Half(d, com, m)') /\ Committed' = Committed
<1> HIDE DEF Char
<1>1. pc[c] = "lock" /\ UNCHANGED <<rest, sent, thr, wire>> /\ Written' = Written /\ lock' = 1
  BY DEF ReadLock, Written
<1>2. CASE lock = 0
  <2>1. pc' = [pc EXCEPT ![c] = "poll"] /\ DOMAIN pc = CPU
    BY <1>2 DEF ReadLock, LogInv, IInv
  <2>2. Printing = {} /\ Printing' = {c}
    BY <2>1, <1>2, <1>1 DEF LogInv, IInv, Printing, Inside
  <2>3. PICK m \in Message : sent[c] = 0 /\ rest[c] = <<"-", c, "-">> \o m
    BY <1>1 DEF LogInv, Waiting
  <2>4. Written \in Seq(Char)
    BY WrittenType DEF LogInv
  <2>5. Half(c, Written, m)'
    <3>1. << >> \in Seq(Char) /\ Len(<< >>) = 0 /\ Written \o << >> = Written
      BY <2>4, EmptySeq, ConcatEmptySeq
    <3>2. Log!Line(c, m) = Log!Printed(rest[c])
      BY <2>3, LineIs
    <3>3. Log!Printed(rest[c]) \in Seq(Char)
      <4>1. rest[c] \in Seq(Char)
        BY DEF LogInv, TypeInv
      <4> QED  BY <4>1, PrintedType
    <3>4. << >> \o Log!Printed(rest[c]) = Log!Printed(rest[c])
      BY <3>3, ConcatEmptySeq
    <3> QED  BY <3>1, <3>2, <3>4, <2>3, <2>4, <1>1 DEF Half
  <2>6. Waiting'
    BY <2>1, <1>1 DEF LogInv, Waiting
  <2>7. Committed' = Written'
    <3>1. (CHOOSE d \in Printing' : TRUE) = c
      BY <2>2, Owner
    <3>2. sent'[c] = 0 /\ lock' # 0
      BY <2>3, <1>1
    <3>3. SubSeq(Written', 1, Len(Written') - 0) = Written'
      <4>1. Len(<< >>) = 0 /\ << >> \in Seq(Char) /\ Written \o << >> = Written
        BY <2>4, EmptySeq, ConcatEmptySeq
      <4> QED  BY <4>1, <2>4, <1>1, Prefix
    <3> QED  BY <3>1, <3>2, <3>3 DEF Committed
  <2>8. Committed = Written
    BY <1>2, FreeText
  <2> QED  BY <2>2, <2>5, <2>6, <2>7, <2>8, <1>1
<1>3. CASE lock # 0
  <2>1. lock' = lock /\ pc' = pc
    BY <1>3, <1>1 DEF ReadLock, LogInv, IInv
  <2>2. Printing' = Printing
    BY <2>1 DEF Printing
  <2> QED  BY <2>1, <2>2, <1>1, SameText
<1> QED
  BY <1>2, <1>3

LEMMA PollText ==
  ASSUME LogInv, NEW c \in CPU, PollLsr(c)
  PROVE  Waiting' /\ (\A d \in Printing' : \E com, m : Half(d, com, m)') /\ Committed' = Committed
<1>1. pc[c] = "poll" /\ pc' = [pc EXCEPT ![c] = "write"] /\ UNCHANGED <<rest, sent, lock, thr, wire>>
      /\ DOMAIN pc = CPU
  BY DEF PollLsr, LogInv, IInv
<1>2. Printing' = Printing /\ Written' = Written
  BY <1>1 DEF Printing, Written
<1>3. \A d \in CPU : pc'[d] = "lock" => pc[d] = "lock"
  BY <1>1
<1> QED
  BY <1>1, <1>2, <1>3, SameText

LEMMA WriteText ==
  ASSUME LogInv, IInv', TypeInv', NEW c \in CPU, WriteThr(c)
  PROVE  Waiting' /\ (\A d \in Printing' : \E com, m : Half(d, com, m)') /\ Committed' = Committed
<1> HIDE DEF Char
<1> DEFINE h == Head(rest[c])
           r == (IF h = "\n" THEN <<"\r">> ELSE << >>) \o Tail(rest[c])
<1>1. /\ pc[c] = "write" /\ pc' = [pc EXCEPT ![c] = "poll"] /\ thr' = <<h>>
      /\ rest' = [rest EXCEPT ![c] = r] /\ sent' = [sent EXCEPT ![c] = @ + 1]
      /\ UNCHANGED <<lock, wire>>
  BY DEF WriteThr
<1>2. DOMAIN pc = CPU /\ DOMAIN rest = CPU /\ sent \in [CPU -> Nat]
      /\ rest[c] \in Seq(Char) /\ rest[c] # << >> /\ thr = << >> /\ wire \in Seq(Char)
  BY <1>1 DEF LogInv, IInv, TypeInv, TypeOK
<1>3. h \in Char
  BY <1>2, HeadTailProperties
<1>4. Log!Printed(rest[c]) = <<h>> \o Log!Printed(r)
  BY <1>2, PrintedStep
<1> HIDE DEF h, r
<1>5. rest'[c] = r /\ sent'[c] = sent[c] + 1 /\ r \in Seq(Char)
  BY <1>1, <1>2 DEF TypeInv
<1>6. c \in Printing /\ Printing' = Printing
  BY <1>1, <1>2 DEF Printing
<1>7. PICK com, m : Half(c, com, m)
  BY <1>6 DEF LogInv
<1>8. PICK out \in Seq(Char) : /\ Written = com \o out /\ Len(out) = sent[c]
                               /\ Log!Line(c, m) = out \o Log!Printed(rest[c])
  BY <1>7 DEF Half
<1>9. com \in Seq(Char) /\ m \in Message
  BY <1>7 DEF Half
<1> DEFINE o == out \o <<h>>
           p == Log!Printed(r)
<1>10. <<h>> \in Seq(Char) /\ Len(<<h>>) = 1 /\ p \in Seq(Char)
  BY <1>3, <1>5, PrintedType
<1>11. o \in Seq(Char) /\ Len(o) = sent'[c]
  <2>1. Len(o) = Len(out) + 1 /\ o \in Seq(Char)
    BY <1>10, ConcatProperties
  <2> QED  BY <2>1, <1>8, <1>5
<1>12. Written' = com \o o
  <2>1. Written = wire
    BY <1>2, ConcatEmptySeq DEF Written
  <2>2. Written' = (com \o out) \o <<h>>
    BY <2>1, <1>1, <1>8 DEF Written
  <2>3. (com \o out) \o <<h>> = com \o (out \o <<h>>)
    BY <1>9, <1>10, Associative
  <2> QED  BY <2>2, <2>3
<1>13. Log!Line(c, m) = o \o p
  <2>1. (out \o <<h>>) \o p = out \o (<<h>> \o p)
    <3> HIDE DEF p
    <3> QED  BY <1>10, Associative
  <2> QED  BY <2>1, <1>4, <1>8
<1> HIDE DEF o, p
<1>14. Half(c, com, m)'
  BY <1>5, <1>9, <1>11, <1>12, <1>13 DEF Half, p
<1>15. \A d \in Printing : d = c
  BY <1>6 DEF LogInv, IInv, Printing, Inside
<1>16. Waiting'
  <2>1. \A d \in CPU \ {c} : pc'[d] = pc[d] /\ rest'[d] = rest[d] /\ sent'[d] = sent[d]
    BY <1>1, <1>2
  <2>2. pc'[c] # "lock"
    BY <1>1, <1>2
  <2> QED  BY <2>1, <2>2 DEF LogInv, Waiting
<1>17. Committed = com
  BY <1>6, <1>7, OwnedText DEF LogInv
<1>18. Committed' = com
  <2>1. lock' # 0
    BY <1>1, <1>2 DEF LogInv, IInv, Inside
  <2>2. (CHOOSE d \in Printing' : TRUE) = c
    BY <1>6, <1>15, Owner
  <2>3. SubSeq(Written', 1, Len(Written') - sent'[c]) = com
    BY <1>9, <1>11, <1>12, Prefix
  <2>4. Committed' = SubSeq(Written', 1, Len(Written') - sent'[c])
    BY <2>1, <2>2 DEF Committed
  <2> QED  BY <2>3, <2>4
<1> QED
  BY <1>6, <1>14, <1>15, <1>16, <1>17, <1>18

\* The unlock is the step of LineLog.
LEMMA UnlockText ==
  ASSUME LogInv, NEW c \in CPU, Unlock(c)
  PROVE  /\ Waiting' /\ \A d \in Printing' : \E com, m : Half(d, com, m)'
         /\ \E m \in Message : Log!PutLine(c, m)
<1> HIDE DEF Char
<1>1. /\ pc[c] = "poll" /\ pc' = [pc EXCEPT ![c] = "out"] /\ rest[c] = << >> /\ lock' = 0
      /\ UNCHANGED <<rest, sent, thr, wire>>
  BY DEF Unlock
<1>2. DOMAIN pc = CPU /\ c \in Printing /\ \A d \in Printing : d = c
  BY <1>1 DEF LogInv, IInv, Printing, Inside
<1>3. Printing' = {}
  BY <1>1, <1>2 DEF Printing
<1>4. Waiting'
  BY <1>1, <1>2 DEF LogInv, Waiting
<1>5. PICK com, m : Half(c, com, m)
  BY <1>2 DEF LogInv
<1>6. PICK out \in Seq(Char) : /\ Written = com \o out
                               /\ Log!Line(c, m) = out \o Log!Printed(rest[c])
  BY <1>5 DEF Half
<1>7. out \o Log!Printed(rest[c]) = out
  BY <1>1, PrintedEmpty, ConcatEmptySeq
<1>8. Written = com \o Log!Line(c, m)
  BY <1>6, <1>7
<1>9. Committed = com
  BY <1>2, <1>5, OwnedText DEF LogInv
<1>10. Committed' = Written' /\ Written' = Written
  BY <1>1 DEF Committed, Written
<1>11. m \in Message /\ Log!PutLine(c, m)
  BY <1>5, <1>8, <1>9, <1>10 DEF Half, Log!PutLine
<1> QED
  BY <1>3, <1>4, <1>11

LEMMA TransmitText ==
  ASSUME LogInv, Transmit
  PROVE  Waiting' /\ (\A d \in Printing' : \E com, m : Half(d, com, m)') /\ Committed' = Committed
<1> HIDE DEF Char
<1>1. UNCHANGED <<pc, rest, sent, lock>> /\ Printing' = Printing
  BY DEF Transmit, Printing
<1>2. Written' = Written
  <2>1. wire \o thr \in Seq(Char)
    BY ConcatProperties DEF LogInv, TypeInv
  <2>2. (wire \o thr) \o << >> = wire \o thr
    BY <2>1, ConcatEmptySeq
  <2> QED  BY <2>2 DEF Transmit, Written
<1> QED
  BY <1>1, <1>2, SameText

LEMMA LogStep == LogInv /\ [Next]_vars => LogInv' /\ [Log!Next]_Committed
<1> SUFFICES ASSUME LogInv, [Next]_vars PROVE LogInv' /\ [Log!Next]_Committed
  OBVIOUS
<1> HIDE DEF Char
<1>1. TypeInv'
  BY TypeStep DEF LogInv
<1>2. IInv'
  BY InductiveStep DEF LogInv
<1>3. SUFFICES /\ Waiting' /\ \A d \in Printing' : \E com, m : Half(d, com, m)'
               /\ [Log!Next]_Committed
  BY <1>1, <1>2 DEF LogInv
<1>4. ASSUME NEW c \in CPU, Call(c)
      PROVE  /\ Waiting' /\ \A d \in Printing' : \E com, m : Half(d, com, m)'
             /\ [Log!Next]_Committed
  BY <1>4, CallText
<1>5. ASSUME NEW c \in CPU, ReadLock(c)
      PROVE  /\ Waiting' /\ \A d \in Printing' : \E com, m : Half(d, com, m)'
             /\ [Log!Next]_Committed
  BY <1>5, LockText
<1>6. ASSUME NEW c \in CPU, PollLsr(c)
      PROVE  /\ Waiting' /\ \A d \in Printing' : \E com, m : Half(d, com, m)'
             /\ [Log!Next]_Committed
  BY <1>6, PollText
<1>7. ASSUME NEW c \in CPU, WriteThr(c)
      PROVE  /\ Waiting' /\ \A d \in Printing' : \E com, m : Half(d, com, m)'
             /\ [Log!Next]_Committed
  BY <1>7, <1>1, <1>2, WriteText
<1>8. ASSUME NEW c \in CPU, Unlock(c)
      PROVE  /\ Waiting' /\ \A d \in Printing' : \E com, m : Half(d, com, m)'
             /\ [Log!Next]_Committed
  BY <1>8, UnlockText DEF Log!Next
<1>9. CASE Transmit
  BY <1>9, TransmitText
<1>10. CASE UNCHANGED vars
  <2>1. UNCHANGED <<pc, rest, sent, lock, Written, Printing>>
    BY <1>10 DEF vars, Written, Printing
  <2> QED  BY <2>1, SameText
<1> QED
  BY <1>4, <1>5, <1>6, <1>7, <1>8, <1>9, <1>10 DEF Next, mprintf

\* Every call appends its whole line in one piece, at its unlock, and no other
\* step changes the text: the console implements LineLog (mprintf.c 117-163).
THEOREM LinesAreWhole == Spec => WholeLines
<1> HIDE DEF Char
<1>1. Init => LogInv /\ Log!Init
  BY LogInit
<1>2. LogInv /\ [Next]_vars => LogInv' /\ [Log!Next]_Committed
  BY LogStep
<1> QED
  BY <1>1, <1>2, PTL DEF Spec, WholeLines, Log!Spec
=============================================================================
