---------------------------- MODULE UartIrq_proofs ----------------------------
(***************************************************************************)
(* Every digit 4 that irq_return sends belongs to a character it has taken, *)
(* echo_test loses nothing but the overruns, and everything keeps its type, *)
(* for any sizes of the FIFOs and any traffic on the line.                  *)
(***************************************************************************)
EXTENDS UartIrq, SequenceTheorems, TLAPS

Char == [n : Nat, bad : BOOLEAN]

Typed == /\ rx \in Seq(Char) /\ arrived \in Nat
         /\ taken \in Nat /\ reported \in Nat

\* A cause "receiver data" that has been read is still true when the handler
\* comes to read the character.
StillThere == handler = "rx" /\ iir = "RDI" => rx # << >>

\* A digit that is still to be sent has been paid for.
PaidFor == reported + (IF handler = "tx" /\ iir = "RDI" THEN 1 ELSE 0) <= taken

IInv == Typed /\ StillThere /\ PaidFor

----------------------------------------------------------------------------

\* IIR says a cause that is pending.
LEMMA IirIsPending ==
  ASSUME Pending # {}
  PROVE  IIR \in Pending
<1> DEFINE First(k) == /\ Priority[k] \in Pending
                       /\ \A l \in 1 .. k - 1 : Priority[l] \notin Pending
<1>2. Priority[1] = "RLSI" /\ Priority[2] = "RDI" /\ Priority[3] = "THRI" /\ Priority[4] = "MSI"
  BY DEF Priority
<1>3. Pending \subseteq {"RLSI", "RDI", "THRI", "MSI"}
  BY DEF Pending
<1>4. \E k \in 1 .. 4 : First(k)
  <2>1. CASE "RLSI" \in Pending
    <3>1. First(1)
      BY <1>2, <2>1
    <3> QED  BY <3>1
  <2>2. CASE "RLSI" \notin Pending /\ "RDI" \in Pending
    <3>1. \A l \in 1 .. 2 - 1 : l = 1
      OBVIOUS
    <3>2. First(2)
      BY <1>2, <2>2, <3>1
    <3> QED  BY <3>2
  <2>3. CASE "RLSI" \notin Pending /\ "RDI" \notin Pending /\ "THRI" \in Pending
    <3>1. \A l \in 1 .. 3 - 1 : l = 1 \/ l = 2
      OBVIOUS
    <3>2. First(3)
      BY <1>2, <2>3, <3>1
    <3> QED  BY <3>2
  <2>4. CASE "RLSI" \notin Pending /\ "RDI" \notin Pending /\ "THRI" \notin Pending
    <3>1. \A l \in 1 .. 4 - 1 : l = 1 \/ l = 2 \/ l = 3
      OBVIOUS
    <3>2. "MSI" \in Pending
      BY <1>3, <2>4
    <3>3. First(4)
      BY <1>2, <2>4, <3>1, <3>2
    <3> QED  BY <3>3
  <2> QED  BY <2>1, <2>2, <2>3, <2>4
<1>5. IIR = Priority[CHOOSE k \in 1 .. 4 : First(k)]
  BY DEF IIR
<1> QED
  BY <1>4, <1>5

\* IIR says "receiver data" only when there is a character.
LEMMA CauseIsTrue == IIR = "RDI" => rx # << >>
<1> SUFFICES ASSUME IIR = "RDI" PROVE rx # << >>
  OBVIOUS
<1>1. Pending # {}
  BY DEF IIR
<1> QED
  BY <1>1, IirIsPending DEF Pending

\* A read of RX and a character that arrives keep the receiver a sequence.
LEMMA ReadKeepsType == Typed /\ TakeRx => rx' \in Seq(Char)
  BY DEF Typed, TakeRx

LEMMA ArrivalKeepsType ==
  ASSUME Typed, NEW bad \in BOOLEAN, Received(bad)
  PROVE  rx' \in Seq(Char) /\ rx' # << >> /\ arrived' \in Nat
<1> DEFINE new == [n |-> arrived + 1, bad |-> bad]
<1>1. new \in Char /\ arrived' \in Nat
  BY DEF Typed, Char, Received
<1>2. CASE Len(rx) # RxRoom
  <2>1. rx' = Append(rx, new)
    BY <1>2 DEF Received
  <2> HIDE DEF new
  <2> QED  BY <1>1, <2>1 DEF Typed
<1>3. CASE Len(rx) = RxRoom /\ ~fcr
  <2>1. rx' = <<new>>
    BY <1>3 DEF Received
  <2> HIDE DEF new
  <2> QED  BY <1>1, <2>1
<1>4. CASE Len(rx) = RxRoom /\ fcr
  <2>1. rx' = rx /\ Len(rx) > 1
    BY <1>4, UartAssumption DEF Received, RxRoom
  <2> QED  BY <1>1, <2>1 DEF Typed
<1> QED
  BY <1>2, <1>3, <1>4

\* A step of the task is taken outside the handler and leaves its counts alone.
LEMMA TaskIsOutside ==
  ASSUME Typed, TaskStep
  PROVE  /\ handler = "none" /\ handler' = "none" /\ rx' \in Seq(Char)
         /\ UNCHANGED <<arrived, taken, reported>>
<1>1. CASE BootStep \/ request_irq
  BY <1>1 DEF BootStep, gic_init_secure, FindFrame, ClearSleep, WaitChildren,
     InitCpuInterface, Unmask, request_irq, Start, Task, data, history, Typed
<1>2. CASE SetupStep
  BY <1>2 DEF SetupStep, ckg_enable, SetDlab, WriteDll, WriteDlh, ClearDlab,
     set_line_ctrl, Configure, Program, Task, data, Typed
<1>3. CASE EchoRx
  <2>1. rx' \in Seq(Char)
    BY <1>3, ReadKeepsType DEF EchoRx
  <2> QED  BY <1>3, <2>1 DEF EchoRx, Program, Task
<1>4. CASE PollLsr \/ EchoTx
  BY <1>4 DEF PollLsr, EchoTx, Program, Task, data, Typed
<1>5. CASE WriteIer \/ WriteFcr \/ WriteMcr
  <2>1. rx' = rx \/ rx' = << >>
    BY <1>5 DEF WriteIer, WriteFcr, WriteMcr, data
  <2>2. << >> \in Seq(Char)
    OBVIOUS
  <2> QED
    BY <1>5, <2>1, <2>2 DEF WriteIer, WriteFcr, WriteMcr, Program, Task, Typed
<1> QED
  BY <1>1, <1>2, <1>3, <1>4, <1>5 DEF TaskStep, EchoStep, IntrStep

\* A step of the handler: the character is taken after the cause was read, and
\* reported after it was taken.
LEMMA HandlerKeepsInv ==
  ASSUME IInv, FiqStep
  PROVE  IInv'
<1> USE DEF IInv
<1>1. CASE TakeFiq
  BY <1>1 DEF TakeFiq, Handler, data, Typed, StillThere, PaidFor
<1>2. CASE ReadIir
  <2>1. Typed' /\ PaidFor'
    BY <1>2 DEF ReadIir, Handler, data, Typed, PaidFor
  <2>2. iir' = "RDI" => rx' # << >>
    BY <1>2, CauseIsTrue DEF ReadIir, data
  <2> QED  BY <2>1, <2>2 DEF StillThere
<1>3. CASE ReadRx
  <2>1. rx' \in Seq(Char)
    BY <1>3, ReadKeepsType DEF ReadRx
  <2>2. handler = "rx" /\ handler' = "tx"
    BY <1>3 DEF ReadRx, Handler
  <2>3. UNCHANGED <<arrived, reported, iir>>
        /\ taken' = IF rx = << >> THEN taken ELSE taken + 1
    BY <1>3 DEF ReadRx, Handler
  <2> QED  BY <2>1, <2>2, <2>3 DEF Typed, StillThere, PaidFor
<1>4. CASE Report
  BY <1>4 DEF Report, Handler, Typed, StillThere, PaidFor
<1> QED
  BY <1>1, <1>2, <1>3, <1>4 DEF FiqStep

\* Characters that arrive while the handler runs only add to or replace those
\* in the receiver.
LEMMA LineKeepsInv ==
  ASSUME IInv, LineActive
  PROVE  IInv'
<1>1. UNCHANGED <<handler, iir, taken, reported>>
  BY DEF LineActive, CharTime
<1>2. rx' \in Seq(Char) /\ arrived' \in Nat /\ (rx' # << >> \/ rx' = rx)
  <2>1. CASE \E bad \in BOOLEAN : Received(bad)
    BY <2>1, ArrivalKeepsType DEF IInv
  <2>2. CASE UNCHANGED <<arrived, rx, overrun, err>>
    BY <2>2 DEF IInv, Typed
  <2> QED  BY <2>1, <2>2 DEF LineActive, CharTime
<1> QED
  BY <1>1, <1>2 DEF IInv, Typed, StillThere, PaidFor

LEMMA InitInv == Init => IInv
  BY DEF Init, IInv, Typed, StillThere, PaidFor

LEMMA NextInv == IInv /\ [Next]_vars => IInv'
<1> SUFFICES ASSUME IInv, [Next]_vars PROVE IInv'
  OBVIOUS
<1>1. CASE TaskStep
  BY <1>1, TaskIsOutside DEF IInv, Typed, StillThere, PaidFor
<1>2. CASE FiqStep
  BY <1>2, HandlerKeepsInv
<1>3. CASE LineActive
  BY <1>3, LineKeepsInv
<1>4. CASE Forward \/ Wake \/ ModemChange \/ UNCHANGED vars
  <2>1. UNCHANGED <<rx, handler, iir, arrived, taken, reported>>
    BY <1>4 DEF Forward, Wake, ModemChange, vars, data, history
  <2> QED  BY <2>1 DEF IInv, Typed, StillThere, PaidFor
<1> QED
  BY <1>1, <1>2, <1>3, <1>4 DEF Next

\* irq_return sends no digit 4 without a character that it has taken for it,
\* for any sizes of the FIFOs and whatever arrives between its two reads.
THEOREM DigitsAreEarned == Spec => []ReportIsEarned
<1>1. IInv => ReportIsEarned
  BY DEF IInv, Typed, PaidFor, ReportIsEarned
<1> QED
  BY <1>1, InitInv, NextInv, PTL DEF Spec

----------------------------------------------------------------------------
(* echo_test.                                                               *)

\* No interrupt comes; the line is quiet during the set-up; a character is in
\* hand between its two statements.  As one character leaves while one arrives,
\* there are never more than two on the way, so TX has room for the one in hand.
EchoTyped == /\ Typed /\ tx \in Seq(Nat) /\ sent \in Seq(Nat) /\ val \in Nat
             /\ overrun \subseteq 1 .. arrived
AtEcho ==
    /\ pc \in BootLabel \cup SetupLabel \cup EchoLabel
    /\ handler = "none" /\ fiq = FALSE /\ ier = {} /\ fcr = FALSE
    /\ pc \notin EchoLabel => rx = << >> /\ tx = << >> /\ sent = << >> /\ arrived = 0
    /\ pc = "echo_rx" => rx # << >>
    /\ pc = "echo_tx" <=> val # 0
    /\ Len(rx) <= 1
    /\ Len(tx) + Len(InHand) + Len(rx) <= 2
EchoInv == test = "ECHO_TEST" => EchoTyped /\ AtEcho /\ Complete(OnTheWay, arrived, overrun)

\* The character that arrives is the last of the sequence.
LEMMA CompleteGrows ==
    ASSUME NEW s \in Seq(Nat), NEW n \in Nat, NEW D, D \subseteq 1 .. n, Complete(s, n, D)
    PROVE  Complete(Append(s, n + 1), n + 1, D)
<1> DEFINE t == Append(s, n + 1)
<1>1. /\ t \in Seq(Nat) /\ Len(t) = Len(s) + 1 /\ Len(s) \in Nat
      /\ \A k \in 1 .. Len(s) : t[k] = s[k]
      /\ t[Len(s) + 1] = n + 1
    BY AppendProperties, LenProperties
<1>2. DOMAIN s = 1 .. Len(s) /\ DOMAIN t = 1 .. Len(s) + 1
    BY <1>1, LenProperties
<1>3. /\ \A x : x \in (1 .. n) \ D <=> \E k \in 1 .. Len(s) : x = s[k]
      /\ \A j, k \in 1 .. Len(s) : j < k => s[j] < s[k]
    BY <1>2 DEF Complete
<1> HIDE DEF t
<1>4. \A k \in DOMAIN t : k \in 1 .. Len(s) \/ k = Len(s) + 1
    BY <1>1, <1>2
<1>5. (1 .. n + 1) \ D = ((1 .. n) \ D) \cup {n + 1}
    <2>1. 1 .. n + 1 = (1 .. n) \cup {n + 1} /\ n + 1 \notin 1 .. n
        OBVIOUS
    <2> QED  BY <2>1
<1>6. {t[k] : k \in DOMAIN t} = (1 .. n + 1) \ D
    <2>1. ASSUME NEW k \in DOMAIN t PROVE t[k] \in (1 .. n + 1) \ D
        BY <1>1, <1>3, <1>4, <1>5
    <2>2. ASSUME NEW x \in (1 .. n + 1) \ D PROVE \E k \in DOMAIN t : x = t[k]
        <3>1. CASE x = n + 1
            <4>1. Len(s) + 1 \in DOMAIN t
                BY <1>1, <1>2
            <4> QED  BY <1>1, <3>1, <4>1
        <3>2. CASE x \in (1 .. n) \ D
            <4>1. PICK k \in 1 .. Len(s) : x = s[k]
                BY <1>3, <3>2
            <4>2. k \in DOMAIN t
                BY <1>1, <1>2
            <4> QED  BY <1>1, <4>1, <4>2
        <3> QED  BY <1>5, <3>1, <3>2
    <2> QED  BY <2>1, <2>2
<1>7. ASSUME NEW j \in DOMAIN t, NEW k \in DOMAIN t, j < k PROVE t[j] < t[k]
    <2>1. j \in 1 .. Len(s)
        BY <1>1, <1>2, <1>7
    <2>2. CASE k \in 1 .. Len(s)
        BY <1>1, <1>3, <1>7, <2>1, <2>2
    <2>3. CASE k = Len(s) + 1
        <3>1. s[j] \in 1 .. n
            BY <1>3, <2>1
        <3> QED  BY <1>1, <2>1, <2>3, <3>1
    <2> QED  BY <1>4, <2>2, <2>3
<1> QED
    BY <1>6, <1>7 DEF Complete, t

\* A character that is written over takes its place in the overruns.
LEMMA LastIsReplaced ==
    ASSUME NEW b \in Seq(Nat), NEW x \in Nat, NEW n \in Nat, NEW D, D \subseteq 1 .. n,
           Complete(Append(b, x), n, D)
    PROVE  /\ x \in 1 .. n
           /\ Complete(b, n, D \cup {x})
<1> DEFINE t == Append(b, x)
<1>1. /\ t \in Seq(Nat) /\ Len(t) = Len(b) + 1 /\ Len(b) \in Nat
      /\ \A k \in 1 .. Len(b) : t[k] = b[k]
      /\ t[Len(b) + 1] = x
    BY AppendProperties, LenProperties
<1>2. DOMAIN b = 1 .. Len(b) /\ DOMAIN t = 1 .. Len(b) + 1
    BY <1>1, LenProperties
<1>3. /\ \A y : y \in (1 .. n) \ D <=> \E k \in 1 .. Len(b) + 1 : y = t[k]
      /\ \A j, k \in 1 .. Len(b) + 1 : j < k => t[j] < t[k]
    BY <1>2 DEF Complete
<1> HIDE DEF t
<1>4. /\ \A k \in 1 .. Len(b) : k \in 1 .. Len(b) + 1 /\ k < Len(b) + 1
      /\ \A k \in 1 .. Len(b) + 1 : k \in 1 .. Len(b) \/ k = Len(b) + 1
      /\ Len(b) + 1 \in 1 .. Len(b) + 1
    BY <1>1
<1>5. x \in (1 .. n) \ D
    BY <1>1, <1>3, <1>4
<1>6. \A k \in 1 .. Len(b) : b[k] \in Nat /\ b[k] < x
    BY <1>1, <1>3, <1>4, ElementOfSeq
<1>7. {b[k] : k \in DOMAIN b} = (1 .. n) \ (D \cup {x})
    <2>1. ASSUME NEW k \in DOMAIN b PROVE b[k] \in (1 .. n) \ (D \cup {x})
        <3>1. b[k] \in (1 .. n) \ D
            BY <1>1, <1>2, <1>3, <1>4
        <3>2. b[k] # x
            BY <1>2, <1>6
        <3> QED  BY <3>1, <3>2
    <2>2. ASSUME NEW y \in (1 .. n) \ (D \cup {x}) PROVE \E k \in DOMAIN b : y = b[k]
        <3>1. PICK k \in 1 .. Len(b) + 1 : y = t[k]
            BY <1>3
        <3>2. k \in 1 .. Len(b)
            BY <1>1, <1>4, <3>1
        <3> QED  BY <1>1, <1>2, <3>1, <3>2
    <2> QED  BY <2>1, <2>2
<1>8. \A j, k \in DOMAIN b : j < k => b[j] < b[k]
    BY <1>1, <1>2, <1>3, <1>4
<1> QED
    BY <1>5, <1>7, <1>8 DEF Complete

\* What leaves TX has been sent.
LEMMA HeadMoves ==
    ASSUME NEW s \in Seq(Nat), NEW t \in Seq(Nat), t # << >>
    PROVE  Append(s, t[1]) \o Tail(t) = s \o t
<1> DEFINE a == Append(s, t[1])
           u == Tail(t)
<1>1. Len(t) \in Nat \ {0} /\ Len(s) \in Nat /\ t[1] \in Nat
    <2>1. Len(t) \in Nat \ {0} /\ Len(s) \in Nat
        BY EmptySeq, LenProperties
    <2>2. 1 \in 1 .. Len(t)
        BY <2>1
    <2> QED  BY <2>1, <2>2, ElementOfSeq
<1>2. /\ a \in Seq(Nat) /\ Len(a) = Len(s) + 1 /\ a[Len(s) + 1] = t[1]
      /\ \A k \in 1 .. Len(s) : a[k] = s[k]
    BY <1>1, AppendProperties
<1>3. /\ u \in Seq(Nat) /\ Len(u) = Len(t) - 1
      /\ \A k \in 1 .. Len(t) - 1 : u[k] = t[k + 1]
    BY HeadTailProperties
<1> HIDE DEF a, u
<1>4. /\ a \o u \in Seq(Nat) /\ Len(a \o u) = Len(a) + Len(u)
      /\ \A k \in 1 .. Len(a) + Len(u) : (a \o u)[k] = IF k <= Len(a) THEN a[k] ELSE u[k - Len(a)]
    BY <1>2, <1>3, ConcatProperties
<1>5. /\ s \o t \in Seq(Nat) /\ Len(s \o t) = Len(s) + Len(t)
      /\ \A k \in 1 .. Len(s) + Len(t) : (s \o t)[k] = IF k <= Len(s) THEN s[k] ELSE t[k - Len(s)]
    BY ConcatProperties
<1>6. Len(a) + Len(u) = Len(s) + Len(t)
    BY <1>1, <1>2, <1>3
<1>7. ASSUME NEW k \in 1 .. Len(s) + Len(t) PROVE (a \o u)[k] = (s \o t)[k]
    <2>1. CASE k <= Len(s)
        <3>1. k \in 1 .. Len(s) /\ k <= Len(a)
            BY <1>1, <1>2, <2>1
        <3> QED  BY <1>2, <1>4, <1>5, <1>6, <2>1, <3>1
    <2>2. CASE k = Len(s) + 1
        <3>1. ~(k <= Len(s)) /\ k - Len(s) = 1 /\ k <= Len(a)
            BY <1>1, <1>2, <2>2
        <3> QED  BY <1>2, <1>4, <1>5, <1>6, <2>2, <3>1
    <2>3. CASE k > Len(s) + 1
        <3>1. /\ ~(k <= Len(s)) /\ ~(k <= Len(a)) /\ k - Len(a) \in 1 .. Len(t) - 1
              /\ (k - Len(a)) + 1 = k - Len(s)
            BY <1>1, <1>2, <2>3
        <3>2. (a \o u)[k] = u[k - Len(a)] /\ (s \o t)[k] = t[k - Len(s)]
            BY <1>4, <1>5, <1>6, <3>1
        <3>3. u[k - Len(a)] = t[(k - Len(a)) + 1]
            BY <1>3, <3>1
        <3> QED  BY <3>1, <3>2, <3>3
    <2>4. k <= Len(s) \/ k = Len(s) + 1 \/ k > Len(s) + 1
        BY <1>1
    <2> QED  BY <2>1, <2>2, <2>3, <2>4
<1>8. a \o u = s \o t
    BY <1>4, <1>5, <1>6, <1>7, SeqEqual
<1> QED
    BY <1>8 DEF a, u

LEMMA One == ASSUME NEW n \in Nat, n # 0, n <= 1 PROVE n = 1
    OBVIOUS

\* The receiver without FIFO is empty or holds one character.
LEMMA Receiver ==
    ASSUME rx \in Seq(Char), Len(rx) <= 1
    PROVE  \/ rx = << >> /\ Numbers(rx) = << >>
           \/ \E c \in Char : rx = <<c>> /\ Numbers(rx) = <<c.n>> /\ c.n \in Nat
<1>1. CASE rx = << >>
    BY <1>1 DEF Numbers
<1>2. CASE rx # << >>
    <2>1. Len(rx) = 1 /\ rx[1] \in Char
        <3>1. Len(rx) = 1
            <4>1. Len(rx) \in Nat /\ Len(rx) # 0
                BY <1>2, EmptySeq
            <4>2. Len(rx) <= 1
                OBVIOUS
            <4> QED  BY ONLY <4>1, <4>2, One
        <3> QED  BY <3>1, ElementOfSeq
    <2>2. rx = <<rx[1]>>
        BY <2>1, LenProperties
    <2>3. Numbers(<<rx[1]>>) = <<rx[1].n>>
        BY DEF Numbers
    <2>4. rx[1].n \in Nat
        BY <2>1 DEF Char
    <2> QED  BY <2>1, <2>2, <2>3, <2>4
<1> QED
    BY <1>1, <1>2

\* All but the receiver's character.
Base == sent \o tx \o InHand

LEMMA Bases ==
    ASSUME EchoTyped
    PROVE  /\ sent \o tx \in Seq(Nat) /\ InHand \in Seq(Nat) /\ Base \in Seq(Nat)
           /\ OnTheWay = Base \o Numbers(rx)
           /\ Len(InHand) = IF val = 0 THEN 0 ELSE 1
<1>1. sent \o tx \in Seq(Nat)
    BY ConcatProperties DEF EchoTyped
<1>2. InHand \in Seq(Nat) /\ Len(InHand) = IF val = 0 THEN 0 ELSE 1
    BY DEF InHand, EchoTyped
<1> QED
    BY <1>1, <1>2, ConcatProperties DEF Base, OnTheWay

LEMMA EchoInit == Init => EchoInv
<1> SUFFICES ASSUME Init PROVE EchoTyped /\ AtEcho /\ Complete(OnTheWay, arrived, overrun)
    BY DEF EchoInv
<1> USE DEF Init
<1>1. EchoTyped
    BY EmptySeq DEF EchoTyped, Typed
<1>2. Base = << >> /\ Numbers(rx) = << >>
    BY DEF Base, InHand, Numbers
<1>3. OnTheWay = << >>
    BY <1>1, <1>2, Bases
<1>4. Complete(<< >>, 0, {})
    BY DEF Complete
<1>5. AtEcho
    BY DEF AtEcho, BootLabel, EchoLabel, InHand
<1> QED
    BY <1>1, <1>3, <1>4, <1>5

\* Statements outside the loop leave the characters alone.
LEMMA EchoQuiet ==
    ASSUME test = "ECHO_TEST", EchoInv, UNCHANGED <<rx, tx, sent, val, arrived, overrun, test>>,
           UNCHANGED <<handler, fiq, ier, fcr, taken, reported>>,
           \/ pc' = pc
           \/ pc \notin EchoLabel /\ pc' \in BootLabel \cup SetupLabel \cup {"lsr"}
           \/ pc = "lsr" /\ pc' \in {"lsr", "echo_rx"} /\ (pc' = "echo_rx" => rx # << >>)
    PROVE  EchoInv'
<1>1. EchoTyped' /\ OnTheWay' = OnTheWay /\ InHand' = InHand
    <2>1. EchoTyped /\ UNCHANGED <<taken, reported>>
        BY DEF EchoInv
    <2>2. EchoTyped'
        BY <2>1 DEF EchoTyped, Typed
    <2> QED  BY <2>2 DEF OnTheWay, InHand, Numbers
<1>2. AtEcho'
    BY <1>1 DEF EchoInv, AtEcho, EchoLabel, BootLabel, SetupLabel
<1> QED
    BY <1>1, <1>2 DEF EchoInv

\* The character is taken: it is in hand instead of in the receiver.
LEMMA EchoTakes == ASSUME test = "ECHO_TEST", EchoInv, EchoRx PROVE EchoInv'
<1>0. EchoTyped /\ AtEcho /\ Complete(OnTheWay, arrived, overrun)
    BY DEF EchoInv
<1>1. pc = "echo_rx" /\ pc' = "echo_tx" /\ rx # << >> /\ val = 0
    BY <1>0 DEF EchoRx, Program, Task, AtEcho
<1>2. PICK c \in Char : rx = <<c>> /\ Numbers(rx) = <<c.n>> /\ c.n \in Nat
    BY <1>0, <1>1, Receiver DEF EchoTyped, Typed, AtEcho
<1>3. /\ UNCHANGED <<test, handler, fiq, ier, fcr, tx, sent, arrived, overrun, taken, reported>>
      /\ rx' = << >> /\ val' = c.n
    BY <1>1, <1>2 DEF EchoRx, Program, Task, TakeRx, control
<1>4. InHand = << >> /\ Base = sent \o tx /\ sent \o tx \in Seq(Nat)
    BY <1>0, <1>1, Bases, ConcatEmptySeq DEF InHand, Base
<1>5. OnTheWay = Append(sent \o tx, c.n)
    BY <1>0, <1>2, <1>4, Bases, AppendIsConcat
<1>6. c.n \in 1 .. arrived
    BY <1>0, <1>2, <1>4, <1>5, LastIsReplaced DEF EchoTyped, Typed
<1>7. EchoTyped'
    BY <1>0, <1>2, <1>3, EmptySeq DEF EchoTyped, Typed
<1>8. InHand' = <<c.n>> /\ Numbers(rx') = << >>
    BY <1>3, <1>6 DEF InHand, Numbers
<1>9. OnTheWay' = Append(sent \o tx, c.n)
    <2>1. OnTheWay' = (sent \o tx) \o <<c.n>> \o << >>
        BY <1>3, <1>8 DEF OnTheWay
    <2>2. (sent \o tx) \o <<c.n>> = Append(sent \o tx, c.n)
        BY <1>2, <1>4, AppendIsConcat
    <2>3. Append(sent \o tx, c.n) \in Seq(Nat)
        BY <1>2, <1>4, AppendProperties
    <2> QED  BY <2>1, <2>2, <2>3, ConcatEmptySeq
<1>10. AtEcho'
    <2>1. Len(tx) + 0 + 1 <= 2 /\ Len(tx) \in Nat
        BY <1>0, <1>2, <1>4, LenProperties DEF AtEcho, EchoTyped
    <2>2. Len(tx') + Len(InHand') + Len(rx') <= 2 /\ Len(rx') <= 1
        BY <1>3, <1>8, <2>1
    <2>3. pc' \in EchoLabel /\ val' # 0 /\ pc' = "echo_tx"
        BY <1>1, <1>3, <1>6 DEF EchoLabel
    <2> QED  BY <1>0, <1>1, <1>3, <2>2, <2>3 DEF AtEcho
<1> QED
    BY <1>0, <1>3, <1>5, <1>7, <1>9, <1>10 DEF EchoInv

\* The character is written to TX, which has room for it.
LEMMA EchoSends == ASSUME test = "ECHO_TEST", EchoInv, EchoTx PROVE EchoInv'
<1>0. EchoTyped /\ AtEcho /\ Complete(OnTheWay, arrived, overrun)
    BY DEF EchoInv
<1>1. pc = "echo_tx" /\ pc' = "lsr" /\ val # 0 /\ val' = 0 /\ val \in Nat
    BY <1>0 DEF EchoTx, Program, Task, AtEcho, EchoTyped
<1>2. InHand = <<val>> /\ InHand' = << >>
    BY <1>1 DEF InHand
<1>3. Len(tx) \in Nat /\ Len(rx) \in Nat /\ Len(tx) + 1 + Len(rx) <= 2
    BY <1>0, <1>2, LenProperties DEF AtEcho, EchoTyped, Typed
<1>4. /\ UNCHANGED <<test, handler, fiq, ier, fcr, rx, sent, arrived, overrun, taken, reported>>
      /\ tx' = Append(tx, val)
    <2>1. Len(tx) < TxRoom
        BY <1>0, <1>3 DEF TxRoom, AtEcho
    <2> QED  BY <2>1 DEF EchoTx, Program, Task, PutTx, control
<1>5. tx' \in Seq(Nat) /\ Len(tx') = Len(tx) + 1
    BY <1>0, <1>1, <1>4, AppendProperties DEF EchoTyped
<1>6. EchoTyped'
    BY <1>0, <1>1, <1>4, <1>5 DEF EchoTyped, Typed
<1>7. Base' = Base
    <2>1. Base' = (sent \o (tx \o <<val>>)) \o << >>
        BY <1>0, <1>1, <1>2, <1>4, AppendIsConcat DEF Base, EchoTyped
    <2>2. sent \o (tx \o <<val>>) = (sent \o tx) \o <<val>> /\ <<val>> \in Seq(Nat)
        BY <1>0, <1>1, ConcatAssociative DEF EchoTyped
    <2>3. Base \in Seq(Nat) /\ Base = (sent \o tx) \o <<val>>
        BY <1>0, <1>2, Bases DEF Base
    <2> QED  BY <2>1, <2>2, <2>3, ConcatEmptySeq
<1>8. OnTheWay' = OnTheWay
    BY <1>4, <1>7 DEF OnTheWay, Base, Numbers
<1>9. AtEcho'
    <2>1. Len(tx') + Len(InHand') + Len(rx') <= 2
        BY <1>2, <1>3, <1>4, <1>5
    <2> QED  BY <1>0, <1>1, <1>4, <2>1 DEF AtEcho, EchoLabel
<1> QED
    BY <1>0, <1>4, <1>6, <1>8, <1>9 DEF EchoInv

\* A character time: one may leave TX, and one may come into the receiver or
\* over the one that was there.
LEMMA EchoHears ==
    ASSUME test = "ECHO_TEST", EchoInv, LineActive
    PROVE  EchoInv'
<1>0. EchoTyped /\ AtEcho /\ Complete(OnTheWay, arrived, overrun)
    BY DEF EchoInv
<1>1. /\ pc \in EchoLabel /\ fcr = FALSE
      /\ UNCHANGED <<test, pc, handler, fiq, ier, fcr, val, taken, reported>>
    BY <1>0 DEF LineActive, CharTime, control, AtEcho, EchoLabel, IntrLabel, BootLabel, SetupLabel
<1>2. InHand' = InHand
    BY <1>1 DEF InHand
<1>3. /\ tx' \in Seq(Nat) /\ sent' \in Seq(Nat) /\ sent' \o tx' = sent \o tx
      /\ Len(tx) \in Nat /\ Len(tx') = IF tx = << >> THEN 0 ELSE Len(tx) - 1
    <2>1. CASE tx = << >>
        BY <1>0, <2>1 DEF LineActive, CharTime, EchoTyped
    <2>2. CASE tx # << >>
        <3>1. tx' = Tail(tx) /\ sent' = Append(sent, tx[1])
            BY <2>2 DEF LineActive, CharTime
        <3>2. Len(tx) \in Nat /\ tx[1] \in Nat
            BY <1>0, <2>2, ElementOfSeq, EmptySeq DEF EchoTyped
        <3> QED
            BY <1>0, <2>2, <3>1, <3>2, HeadMoves, HeadTailProperties, AppendProperties DEF EchoTyped
    <2> QED  BY <2>1, <2>2
<1>4. Base' = Base /\ Base \in Seq(Nat) /\ OnTheWay = Base \o Numbers(rx)
      /\ OnTheWay' = Base' \o Numbers(rx)'
    BY <1>0, <1>2, <1>3, Bases DEF Base, OnTheWay
<1>5. Len(InHand) \in Nat /\ Len(tx) + Len(InHand) + Len(rx) <= 2 /\ Len(rx) <= 1 /\ Len(rx) \in Nat
      /\ (Len(tx) = 0 => tx = << >>)
    BY <1>0, Bases, EmptySeq, LenProperties DEF AtEcho, EchoTyped, Typed
<1>6. CASE UNCHANGED <<arrived, rx, overrun, err>>
    <2>1. OnTheWay' = OnTheWay
        BY <1>4, <1>6 DEF Numbers
    <2>2. EchoTyped'
        BY <1>0, <1>1, <1>3, <1>6 DEF EchoTyped, Typed
    <2>3. Len(tx') + Len(InHand') + Len(rx') <= 2
        BY <1>2, <1>3, <1>5, <1>6
    <2>4. AtEcho'
        BY <1>0, <1>1, <1>6, <2>3 DEF AtEcho
    <2> QED  BY <1>0, <1>1, <1>6, <2>1, <2>2, <2>4 DEF EchoInv
<1>7. ASSUME NEW bad \in BOOLEAN, Received(bad) PROVE EchoInv'
    <2> DEFINE new == [n |-> arrived + 1, bad |-> bad]
    <2>1. arrived' = arrived + 1 /\ arrived \in Nat /\ new \in Char
        BY <1>0, <1>7 DEF Received, EchoTyped, Typed, Char
    <2>2. /\ rx' = <<new>>
          /\ overrun' = IF rx = << >> THEN overrun ELSE overrun \cup {rx[1].n}
        <3>1. RxRoom = 1
            BY <1>1 DEF RxRoom
        <3>2. CASE rx = << >>
            BY <1>7, <3>1, <3>2 DEF Received
        <3>3. CASE rx # << >>
            <4>1. Len(rx) = 1
                <5>1. rx \in Seq(Char)
                    BY <1>0 DEF EchoTyped, Typed
                <5>2. Len(rx) \in Nat \ {0}
                    BY <3>3, <5>1, EmptySeq
                <5>3. Len(rx) <= 1
                    BY <1>5
                <5> QED  BY <5>2, <5>3
            <4> QED  BY <1>1, <1>7, <3>1, <3>3, <4>1 DEF Received
        <3> QED  BY <3>2, <3>3
    <2>3. Numbers(rx)' = <<arrived + 1>>
        BY <2>2 DEF Numbers
    <2> HIDE DEF new
    <2>4. OnTheWay' = Append(Base, arrived + 1)
        BY <1>4, <2>1, <2>3, AppendIsConcat
    <2>5. Complete(Base, arrived, overrun') /\ overrun' \subseteq 1 .. arrived
        <3>1. CASE rx = << >>
            <4>1. Numbers(rx) = << >>
                BY <3>1 DEF Numbers
            <4>2. OnTheWay = Base
                BY <1>4, <4>1, ConcatEmptySeq
            <4> QED  BY <1>0, <2>2, <3>1, <4>2 DEF EchoTyped
        <3>2. CASE rx # << >>
            <4>1. PICK c \in Char : rx = <<c>> /\ Numbers(rx) = <<c.n>> /\ c.n \in Nat
                BY <1>0, <1>5, <3>2, Receiver DEF EchoTyped, Typed
            <4>2. OnTheWay = Append(Base, c.n) /\ rx[1].n = c.n
                BY <1>4, <4>1, AppendIsConcat
            <4>3. c.n \in 1 .. arrived /\ Complete(Base, arrived, overrun \cup {c.n})
                BY <1>0, <1>4, <2>1, <4>1, <4>2, LastIsReplaced DEF EchoTyped
            <4> QED  BY <1>0, <2>2, <3>2, <4>2, <4>3 DEF EchoTyped
        <3> QED  BY <3>1, <3>2
    <2>6. Complete(OnTheWay', arrived', overrun')
        BY <1>4, <2>1, <2>4, <2>5, CompleteGrows
    <2>7. overrun' \subseteq 1 .. arrived'
        <3>1. \A x \in 1 .. arrived : x \in 1 .. arrived + 1
            BY <2>1
        <3> QED  BY <2>1, <2>5, <3>1
    <2>8. rx' \in Seq(Char) /\ Len(rx') = 1 /\ rx' # << >>
        BY <2>1, <2>2
    <2>9. EchoTyped'
        BY <1>0, <1>1, <1>3, <2>1, <2>7, <2>8 DEF EchoTyped, Typed
    <2>10. Len(tx') + Len(InHand') + Len(rx') <= 2
        <3>1. CASE tx = << >>
            <4>1. Len(InHand) <= 1
                <5>1. Len(InHand) = IF val = 0 THEN 0 ELSE 1
                    BY <1>0, Bases
                <5> QED  BY <5>1
            <4> QED  BY <1>2, <1>3, <1>5, <2>8, <3>1, <4>1
        <3>2. CASE tx # << >>
            <4>1. Len(tx') = Len(tx) - 1 /\ Len(rx') = 1 /\ Len(InHand') = Len(InHand)
                BY <1>2, <1>3, <2>8, <3>2
            <4>2. Len(tx) + Len(InHand) <= 2
                BY <1>3, <1>5
            <4> QED  BY <1>3, <1>5, <4>1, <4>2
        <3> QED  BY <3>1, <3>2
    <2>11. AtEcho'
        BY <1>0, <1>1, <2>8, <2>10 DEF AtEcho
    <2> QED  BY <2>6, <2>9, <2>11 DEF EchoInv
<1> QED
    BY <1>6, <1>7 DEF LineActive, CharTime

LEMMA EchoNext == EchoInv /\ [Next]_vars => EchoInv'
<1> SUFFICES ASSUME EchoInv, [Next]_vars PROVE EchoInv'
    OBVIOUS
<1>1. test' = test
    BY DEF Next, TaskStep, BootStep, SetupStep, EchoStep, IntrStep, FiqStep, vars, gic_init_secure,
       FindFrame, ClearSleep, WaitChildren, InitCpuInterface, Unmask, request_irq, Start, Task,
       ckg_enable, SetDlab, WriteDll, WriteDlh, ClearDlab, set_line_ctrl, Configure, Program,
       PollLsr, EchoRx, EchoTx, WriteIer, WriteFcr, WriteMcr, TakeFiq, ReadIir, ReadRx, Report,
       Handler, Forward, Wake, LineActive, CharTime, ModemChange
<1> SUFFICES ASSUME test = "ECHO_TEST" PROVE EchoInv'
    BY <1>1 DEF EchoInv
<1>0. AtEcho
    BY DEF EchoInv
<1> USE DEF data, control, history, boot, setup, latches
<1>2. CASE BootStep
    BY <1>2, EchoQuiet DEF BootStep, gic_init_secure, FindFrame, ClearSleep, WaitChildren,
       InitCpuInterface, Unmask, Start, Task, BootLabel, SetupLabel, EchoLabel
<1>3. CASE SetupStep
    BY <1>3, EchoQuiet DEF SetupStep, ckg_enable, SetDlab, WriteDll, WriteDlh, ClearDlab,
       set_line_ctrl, Configure, Program, Task, BootLabel, SetupLabel, EchoLabel
<1>4. CASE PollLsr
    BY <1>4, EchoQuiet DEF PollLsr, Program, Task
<1>5. CASE IntrStep
    BY <1>0, <1>5 DEF IntrStep, request_irq, Start, WriteIer, WriteFcr, WriteMcr, Program, Task,
       AtEcho, BootLabel, SetupLabel, EchoLabel
<1>6. CASE FiqStep
    BY <1>0, <1>6 DEF FiqStep, TakeFiq, ReadIir, ReadRx, Report, Handler, AtEcho
<1>7. CASE Forward
    <2>1. IIR = "NO_INT"
        BY <1>0 DEF IIR, Pending, AtEcho
    <2> QED  BY <1>0, <1>7, <2>1 DEF Forward, AtEcho
<1>8. CASE Wake \/ ModemChange \/ UNCHANGED vars
    BY <1>8, EchoQuiet DEF Wake, ModemChange, vars
<1> QED
    BY <1>2, <1>3, <1>4, <1>5, <1>6, <1>7, <1>8, EchoTakes, EchoSends, EchoHears
       DEF Next, TaskStep, EchoStep

\* echo_test sends every character but the overruns, in order and once, for any
\* traffic on the line: it never writes over a character that waits in TX,
\* although it does not look (main.c 149-158).
THEOREM EchoLosesNothing == Spec => []EchoIsComplete
<1>1. EchoInv => EchoIsComplete
    BY DEF EchoInv, EchoIsComplete
<1> QED
    BY <1>1, EchoInit, EchoNext, PTL DEF Spec

----------------------------------------------------------------------------
(* The types, and the bounds of the histories.                              *)

GicType == [grp1 : SUBSET (0 .. ItLines), asleep : SUBSET {"processor", "children"},
            cpu_if : BOOLEAN, masked : BOOLEAN, enabled : SUBSET {0, UART_IRQ_NR}, on : BOOLEAN]

Boots == /\ test \in Test /\ pc \in BootLabel \cup SetupLabel \cup EchoLabel \cup IntrLabel
         /\ handler \in HandlerLabel /\ frame \in 0 .. OwnFrame /\ modem \in 0 .. MaxModem
         /\ gic \in GicType /\ fiq \in BOOLEAN
Registers == /\ apb.base \subseteq 0 .. 3 /\ apb.next \subseteq 0 .. 3
             /\ lcr \subseteq 0 .. 7 /\ dl \in 0 .. MaxDivisor /\ ier \subseteq Cause
             /\ fcr \in BOOLEAN /\ mcr \in BOOLEAN
             /\ iir \in Cause \cup {"NO_INT"} /\ reported \in 0 .. MaxChars + 1
\* A character that was taken is no longer in the receiver.
Receives == /\ rx \in Seq([n : 1 .. MaxChars, bad : BOOLEAN]) /\ Len(rx) <= RxRoom
            /\ arrived \in 0 .. MaxChars /\ overrun \subseteq 1 .. MaxChars
            /\ taken \in Nat /\ taken + Len(rx) <= arrived
            /\ err \in BOOLEAN
\* What echo_test sends is a character, not the 0 of the handler.
Sends == /\ tx \in Seq(0 .. MaxChars) /\ Len(tx) <= TxRoom
         /\ test = "ECHO_TEST" => tx \in Seq(1 .. MaxChars)
         /\ val \in 0 .. MaxChars /\ sent \in Seq(1 .. MaxChars)
         /\ thri \in BOOLEAN /\ msi \in BOOLEAN

TypeInv == Boots /\ Registers /\ Receives /\ Sends

LEMMA TypeInvIsTypeOK == TypeInv => TypeOK
<1> SUFFICES ASSUME TypeInv PROVE TypeOK
    OBVIOUS
<1> USE DEF TypeInv, Boots, Registers, Receives, Sends
<1>1. /\ gic.grp1 \subseteq 0 .. ItLines /\ gic.enabled \subseteq {0, UART_IRQ_NR}
      /\ gic.asleep \subseteq {"processor", "children"}
      /\ gic.cpu_if \in BOOLEAN /\ gic.masked \in BOOLEAN /\ gic.on \in BOOLEAN
    BY DEF GicType
<1>2. {gic.cpu_if, gic.masked, gic.on, fiq, fcr, mcr, err, thri, msi} \subseteq BOOLEAN
    BY <1>1, Zenon
<1>3. taken \in 0 .. MaxChars
    <2>1. Len(rx) \in Nat /\ arrived \in 0 .. MaxChars /\ MaxChars \in Nat
        BY LenProperties, UartAssumption
    <2> QED  BY <2>1
<1> QED
    BY <1>1, <1>2, <1>3 DEF TypeOK

LEMMA TypeInit == Init => TypeInv
<1> SUFFICES ASSUME Init PROVE TypeInv
    OBVIOUS
<1>1. Boots
    <2>1. gic \in GicType
        BY DEF Init, GicType
    <2>2. 0 \in 0 .. OwnFrame /\ 0 \in 0 .. MaxModem
        BY UartAssumption
    <2> QED  BY <2>1, <2>2 DEF Boots, Init, BootLabel, HandlerLabel
<1>2. Registers
    <2>1. 0 \in 0 .. MaxDivisor /\ 0 \in 0 .. MaxChars + 1
        BY UartAssumption, SMT DEF MaxDivisor
    <2> QED  BY <2>1 DEF Registers, Init
<1>3. Receives
    <2>1. RxRoom = 1 /\ 0 \in 0 .. MaxChars /\ 0 + 0 <= 0 /\ 0 <= 1 /\ 0 \in Nat
        BY UartAssumption DEF RxRoom, Init
    <2>2. rx \in Seq([n : 1 .. MaxChars, bad : BOOLEAN]) /\ Len(rx) = 0
        BY EmptySeq DEF Init
    <2> QED  BY <2>1, <2>2 DEF Receives, Init
<1>4. Sends
    <2>1. TxRoom = 2 /\ 0 \in 0 .. MaxChars /\ 0 <= 2
        BY UartAssumption DEF TxRoom, Init
    <2>2. /\ tx \in Seq(0 .. MaxChars) /\ Len(tx) = 0
          /\ tx \in Seq(1 .. MaxChars) /\ sent \in Seq(1 .. MaxChars)
        BY EmptySeq DEF Init
    <2> QED  BY <2>1, <2>2 DEF Sends, Init
<1> QED
    BY <1>1, <1>2, <1>3, <1>4 DEF TypeInv

\* What the statements write to the GIC.
LEMMA GicWrites ==
    ASSUME NEW g \in GicType
    PROVE  /\ [g EXCEPT !.on = TRUE, !.grp1 = 1 .. ItLines] \in GicType
           /\ [g EXCEPT !.asleep = @ \ {"processor"}] \in GicType
           /\ [g EXCEPT !.asleep = {}] \in GicType
           /\ [g EXCEPT !.cpu_if = TRUE, !.grp1 = @ \cup {0}, !.enabled = {0}] \in GicType
           /\ [g EXCEPT !.masked = FALSE] \in GicType
           /\ [g EXCEPT !.enabled = @ \cup {UART_IRQ_NR}] \in GicType
<1> DEFINE A == 0 .. ItLines
           S == 1 .. ItLines
<1>1. S \subseteq A /\ 0 \in A
    BY UartAssumption
<1> HIDE DEF A, S
<1>2. /\ [g EXCEPT !.on = TRUE, !.grp1 = S] \in GicType
      /\ [g EXCEPT !.asleep = @ \ {"processor"}] \in GicType
      /\ [g EXCEPT !.asleep = {}] \in GicType
    BY <1>1 DEF GicType, A
<1>3. [g EXCEPT !.cpu_if = TRUE, !.grp1 = @ \cup {0}, !.enabled = {0}] \in GicType
    BY <1>1 DEF GicType, A
<1>4. /\ [g EXCEPT !.masked = FALSE] \in GicType
      /\ [g EXCEPT !.enabled = @ \cup {UART_IRQ_NR}] \in GicType
    BY DEF GicType
<1> QED
    BY <1>2, <1>3, <1>4 DEF S

LEMMA BootsStep == Boots /\ [Next]_vars => Boots'
<1> SUFFICES ASSUME Boots, [Next]_vars PROVE Boots'
    OBVIOUS
<1> USE DEF Boots, data, control, history, boot, setup, latches
<1>1. CASE gic_init_secure \/ ClearSleep \/ InitCpuInterface \/ Unmask \/ request_irq \/ Wake
    <2>1. gic \in GicType
        OBVIOUS
    <2>2. gic' \in GicType
        BY ONLY <1>1, <2>1, GicWrites DEF gic_init_secure, ClearSleep, InitCpuInterface, Unmask,
           request_irq, Wake
    <2>3. /\ UNCHANGED <<test, handler, frame, modem, fiq>>
          /\ pc' \in BootLabel \cup SetupLabel \cup EchoLabel \cup IntrLabel
        BY <1>1 DEF gic_init_secure, ClearSleep, InitCpuInterface, Unmask, request_irq, Wake,
           Start, Task, BootLabel, SetupLabel, EchoLabel, IntrLabel
    <2> QED  BY <2>2, <2>3
<1>2. CASE FindFrame
    <2>1. frame' \in 0 .. OwnFrame
        BY <1>2, UartAssumption DEF FindFrame
    <2> QED  BY <1>2, <2>1 DEF FindFrame, Start, Task, BootLabel
<1>3. CASE WaitChildren
    BY <1>3 DEF WaitChildren, Start, Task, BootLabel
<1>4. CASE SetupStep
    BY <1>4 DEF SetupStep, ckg_enable, SetDlab, WriteDll, WriteDlh, ClearDlab, set_line_ctrl,
       Configure, Program, Task, SetupLabel, EchoLabel, IntrLabel
<1>5. CASE EchoStep
    BY <1>5 DEF EchoStep, PollLsr, EchoRx, EchoTx, Program, Task, EchoLabel
<1>6. CASE WriteIer \/ WriteFcr \/ WriteMcr
    BY <1>6 DEF WriteIer, WriteFcr, WriteMcr, Program, Task, IntrLabel
<1>7. CASE FiqStep
    BY <1>7 DEF FiqStep, TakeFiq, ReadIir, ReadRx, Report, Handler, HandlerLabel
<1>8. CASE Forward
    BY <1>8 DEF Forward
<1>9. CASE LineActive
    BY <1>9 DEF LineActive, CharTime
<1>10. CASE ModemChange
    BY <1>10, UartAssumption DEF ModemChange
<1>11. CASE UNCHANGED vars
    BY <1>11 DEF vars
<1> QED
    BY <1>1, <1>2, <1>3, <1>4, <1>5, <1>6, <1>7, <1>8, <1>9, <1>10, <1>11
       DEF Next, TaskStep, BootStep, IntrStep

\* The divisor keeps its two bytes.
LEMMA InRange == ASSUME NEW N \in Nat, NEW v \in Nat, v <= N PROVE v \in 0 .. N
    BY SMT

LEMMA OutRange == ASSUME NEW N \in Nat, NEW v \in 0 .. N PROVE v \in Nat /\ v <= N
    BY SMT

LEMMA DivisorBound == MaxDivisor \in Nat
    BY SMT DEF MaxDivisor

Byte == 0 .. 255

LEMMA TwoBytes ==
    ASSUME NEW low \in Byte, NEW high \in Byte
    PROVE  256 * high + low \in 0 .. MaxDivisor
<1>1. 256 * high + low \in Nat /\ 256 * high + low <= MaxDivisor
    BY SMT DEF MaxDivisor, Byte
<1> QED
    BY ONLY <1>1, DivisorBound, InRange

LEMMA HighAndLow ==
    ASSUME NEW d \in 0 .. MaxDivisor
    PROVE  d % 256 \in Byte /\ d \div 256 \in Byte
<1>1. d \in Nat /\ d <= MaxDivisor
    BY DivisorBound, OutRange
<1>2. d % 256 \in 0 .. 255 /\ d \div 256 \in Nat
    BY ONLY <1>1, SMT
<1>3. d <= 256 * 256 - 1
    BY ONLY <1>1 DEF MaxDivisor
<1>4. d \div 256 <= 255
    BY ONLY <1>1, <1>3, SMT
<1> QED
    BY <1>2, <1>4 DEF Byte

LEMMA Bytes ==
    ASSUME NEW d \in 0 .. MaxDivisor
    PROVE  /\ 256 * (d \div 256) + (Divisor(115200) % 256) \in 0 .. MaxDivisor
           /\ 256 * ((Divisor(115200) \div 256) % 256) + (d % 256) \in 0 .. MaxDivisor
<1> DEFINE v == Divisor(115200)
<1>1. v \in Nat
    <2>1. CLK_HZ \div 115200 \in Nat
        BY UartAssumption, SMT
    <2> QED  BY <2>1, SMT DEF Divisor
<1> HIDE DEF v
<1>2. v % 256 \in Byte /\ v \div 256 \in Nat
    BY <1>1, SMT DEF Byte
<1>3. (v \div 256) % 256 \in Byte
    BY <1>2, SMT DEF Byte
<1>4. 256 * (d \div 256) + (v % 256) \in 0 .. MaxDivisor
    BY <1>2, HighAndLow, TwoBytes
<1>5. 256 * ((v \div 256) % 256) + (d % 256) \in 0 .. MaxDivisor
    BY <1>3, HighAndLow, TwoBytes
<1> QED
    BY <1>4, <1>5 DEF v

LEMMA RegistersStep == Registers /\ [Next]_vars => Registers'
<1> SUFFICES ASSUME Registers, [Next]_vars PROVE Registers'
    OBVIOUS
<1> USE DEF Registers, data, control, history, boot, setup, latches
<1>1. CASE BootStep \/ request_irq
    BY <1>1 DEF BootStep, gic_init_secure, FindFrame, ClearSleep, WaitChildren,
       InitCpuInterface, Unmask, request_irq, Start
<1>2. CASE ckg_enable
    <2>1. apb'.base \subseteq 0 .. 3 /\ apb'.next \subseteq 0 .. 3
        <3>1. TEST_PORT \in 0 .. 3
            BY UartAssumption
        <3>2. apb'.base = apb.base \cup {TEST_PORT} /\ apb'.next = apb.next \cup {TEST_PORT}
            BY <1>2 DEF ckg_enable
        <3> QED  BY <3>1, <3>2
    <2>2. UNCHANGED <<lcr, dl, control, iir, reported>>
        BY <1>2 DEF ckg_enable, Configure, Program
    <2> QED  BY <2>1, <2>2
<1>3. CASE SetDlab \/ ClearDlab
    <2>1. lcr' = lcr \cup {7} \/ lcr' = lcr \ {7}
        BY <1>3 DEF SetDlab, ClearDlab, DLAB
    <2>2. 7 \in 0 .. 7
        OBVIOUS
    <2>3. lcr' \subseteq 0 .. 7
        BY <2>1, <2>2
    <2>4. UNCHANGED <<apb, dl, control, iir, reported>>
        BY <1>3 DEF SetDlab, ClearDlab, Configure, Program
    <2> QED  BY <2>3, <2>4
<1>4. CASE set_line_ctrl
    <2>1. LineBits(8, 1, "NONE") \subseteq 0 .. 7
        BY DEF LineBits
    <2>2. lcr' \subseteq 0 .. 7
        BY <1>4, <2>1 DEF set_line_ctrl
    <2> QED  BY <1>4, <2>2 DEF set_line_ctrl, Configure, Program
<1>5. CASE WriteDll \/ WriteDlh
    <2>1. dl' \in 0 .. MaxDivisor
        BY <1>5, Bytes DEF WriteDll, WriteDlh
    <2>2. UNCHANGED <<apb, lcr, control, iir, reported>>
        BY <1>5 DEF WriteDll, WriteDlh, Configure, Program
    <2> QED  BY <2>1, <2>2
<1>6. CASE EchoStep
    BY <1>6 DEF EchoStep, PollLsr, EchoRx, EchoTx, Program
<1>7. CASE WriteIer \/ WriteFcr \/ WriteMcr
    BY <1>7 DEF WriteIer, WriteFcr, WriteMcr, Program
<1>8. CASE TakeFiq \/ ReadRx
    BY <1>8 DEF TakeFiq, ReadRx, Handler
<1>9. CASE ReadIir
    <2>1. IIR \in Cause \cup {"NO_INT"}
        <3>1. CASE Pending = {}
            BY <3>1 DEF IIR
        <3>2. CASE Pending # {}
            BY <3>2, IirIsPending DEF Pending
        <3> QED  BY <3>1, <3>2
    <2>2. iir' = IIR /\ UNCHANGED <<setup, control, reported>>
        BY <1>9 DEF ReadIir, Handler
    <2> HIDE DEF IIR
    <2> QED  BY <2>1, <2>2
<1>10. CASE Report
    <2>1. reported' \in 0 .. MaxChars + 1
        BY <1>10, UartAssumption DEF Report
    <2> QED  BY <1>10, <2>1 DEF Report, Handler
<1>11. CASE LineActive
    BY <1>11 DEF LineActive, CharTime
<1>12. CASE Forward \/ Wake \/ ModemChange \/ UNCHANGED vars
    BY <1>12 DEF Forward, Wake, ModemChange, vars
<1> QED
    BY <1>1, <1>2, <1>3, <1>4, <1>5, <1>6, <1>7, <1>8, <1>9, <1>10, <1>11, <1>12
       DEF Next, TaskStep, SetupStep, IntrStep, FiqStep

\* A read of RX takes at most one character out.
LEMMA TakeRxTypes ==
    ASSUME Receives, TakeRx
    PROVE  /\ rx' \in Seq([n : 1 .. MaxChars, bad : BOOLEAN]) /\ err' \in BOOLEAN
           /\ Len(rx) \in Nat
           /\ Len(rx') = IF rx = << >> THEN 0 ELSE Len(rx) - 1
           /\ (rx = << >> => Len(rx) = 0)
<1>1. Len(rx) \in Nat /\ (rx # << >> => Len(rx) # 0)
    BY LenProperties, EmptySeq DEF Receives
<1>2. err' \in BOOLEAN
    BY DEF TakeRx
<1>3. CASE rx = << >>
    BY <1>1, <1>2, <1>3, EmptySeq DEF TakeRx, Receives
<1>4. CASE rx # << >>
    <2>1. rx' = Tail(rx)
        BY <1>4 DEF TakeRx
    <2> QED  BY <1>1, <1>2, <1>4, <2>1, HeadTailProperties DEF Receives
<1> QED
    BY <1>3, <1>4

LEMMA ReceivesStep == Boots /\ Registers /\ Receives /\ [Next]_vars => Receives'
<1> SUFFICES ASSUME Boots, Registers, Receives, [Next]_vars PROVE Receives'
    OBVIOUS
<1> USE DEF data, control, history, boot, setup, latches
<1>0. /\ RxRoom \in Nat \ {0} /\ fcr \in BOOLEAN /\ Len(rx) \in Nat /\ MaxChars \in Nat
      /\ RxRoom # 1 => fcr
    BY UartAssumption, LenProperties DEF RxRoom, Registers, Receives
<1>1. CASE EchoRx
    <2>1. TakeRx /\ UNCHANGED <<fcr, arrived, overrun, taken>>
        BY <1>1 DEF EchoRx, Program
    <2>2. Len(rx') <= Len(rx) /\ Len(rx') \in Nat
        BY <1>0, <2>1, TakeRxTypes, LenProperties
    <2>3. taken + Len(rx') <= arrived /\ Len(rx') <= RxRoom
        BY <1>0, <2>2 DEF Receives
    <2> QED  BY <2>1, <2>3, TakeRxTypes DEF Receives, RxRoom
<1>2. CASE ReadRx
    <2>1. /\ TakeRx /\ UNCHANGED <<fcr, arrived, overrun>>
          /\ taken' = IF rx = << >> THEN taken ELSE taken + 1
        BY <1>2 DEF ReadRx, Handler
    <2>2. taken' \in Nat /\ taken' + Len(rx') = taken + Len(rx) /\ Len(rx') <= Len(rx)
        <3>1. taken \in Nat
            BY DEF Receives
        <3>2. /\ Len(rx) \in Nat /\ (rx = << >> => Len(rx) = 0)
              /\ Len(rx') = IF rx = << >> THEN 0 ELSE Len(rx) - 1
            BY <2>1, TakeRxTypes
        <3>3. CASE rx = << >>
            BY <2>1, <3>1, <3>2, <3>3
        <3>4. CASE rx # << >>
            BY <2>1, <3>1, <3>2, <3>4
        <3> QED  BY <3>3, <3>4
    <2>3. taken' + Len(rx') <= arrived /\ Len(rx') <= RxRoom
        <3>1. Len(rx') \in Nat
            BY <2>1, TakeRxTypes, LenProperties
        <3> QED  BY <1>0, <2>2, <3>1 DEF Receives
    <2> QED  BY <2>1, <2>2, <2>3, TakeRxTypes DEF Receives, RxRoom
<1>3. CASE PollLsr
    <2>1. err' = FALSE /\ UNCHANGED <<rx, fcr, arrived, overrun, taken>>
        BY <1>3 DEF PollLsr, Program
    <2> QED  BY <2>1 DEF Receives, RxRoom
<1>4. CASE WriteFcr
    <2>1. rx' = << >> /\ fcr' = TRUE /\ UNCHANGED <<arrived, overrun, taken, err>>
        BY <1>4 DEF WriteFcr, Program
    <2>2. Len(rx') = 0 /\ taken <= arrived
        BY <1>0, <2>1 DEF Receives
    <2> QED  BY <2>1, <2>2, UartAssumption, EmptySeq DEF Receives, RxRoom
<1>5. CASE LineActive
    <2>1. UNCHANGED <<fcr, taken>>
        BY <1>5 DEF LineActive, CharTime
    <2>2. CASE UNCHANGED <<arrived, rx, overrun, err>>
        BY <2>1, <2>2 DEF Receives, RxRoom
    <2>3. ASSUME NEW bad \in BOOLEAN, Received(bad) PROVE Receives'
        <3> DEFINE C == [n : 1 .. MaxChars, bad : BOOLEAN]
                   new == [n |-> arrived + 1, bad |-> bad]
        <3>1. arrived' = arrived + 1 /\ arrived \in Nat /\ arrived + 1 \in 1 .. MaxChars
            BY <1>0, <2>3 DEF Received, Receives
        <3>2. new \in C /\ err' \in BOOLEAN
            BY <2>3, <3>1 DEF Received
        <3>3. rx \in Seq(C) /\ taken \in Nat /\ taken + Len(rx) <= arrived /\ Len(rx) <= RxRoom
            BY DEF Receives
        <3>4. CASE Len(rx) # RxRoom
            <4>1. rx' = Append(rx, new) /\ overrun' = overrun
                BY <2>3, <3>4 DEF Received
            <4> HIDE DEF new, C
            <4>2. rx' \in Seq(C) /\ Len(rx') = Len(rx) + 1
                BY <3>2, <3>3, <4>1, AppendProperties
            <4>3. Len(rx') <= RxRoom /\ taken + Len(rx') <= arrived'
                BY <1>0, <3>1, <3>3, <3>4, <4>2
            <4> QED  BY <2>1, <3>1, <3>2, <3>3, <4>1, <4>2, <4>3 DEF Receives, RxRoom, C
        <3>5. CASE Len(rx) = RxRoom /\ fcr
            <4>1. rx' = rx /\ overrun' = overrun \cup {arrived + 1}
                BY <2>3, <3>5 DEF Received
            <4>2. taken + Len(rx) <= arrived + 1
                BY <1>0, <3>1, <3>3
            <4> HIDE DEF new
            <4> QED  BY <2>1, <3>1, <3>2, <3>3, <4>1, <4>2 DEF Receives, RxRoom
        <3>6. CASE Len(rx) = RxRoom /\ ~fcr
            <4>1. rx' = <<new>> /\ overrun' = overrun \cup {rx[1].n}
                BY <2>3, <3>6 DEF Received
            <4>2. Len(rx) = 1 /\ RxRoom = 1
                BY <3>6 DEF RxRoom
            <4>3. rx[1] \in C
                <5> HIDE DEF C
                <5>1. 1 \in 1 .. Len(rx)
                    BY <4>2
                <5> QED  BY <3>3, <5>1, ElementOfSeq
            <4>4. rx[1].n \in 1 .. MaxChars
                BY <4>3
            <4> HIDE DEF new
            <4>5. rx' \in Seq(C) /\ Len(rx') = 1
                BY <3>2, <4>1
            <4>6. taken + 1 <= arrived + 1
                BY <3>1, <3>3, <4>2
            <4>7. /\ Len(rx') <= RxRoom' /\ taken' + Len(rx') <= arrived' /\ arrived' \in 0 .. MaxChars
                  /\ taken' \in Nat /\ err' \in BOOLEAN
                BY <2>1, <3>1, <3>2, <3>3, <4>2, <4>5, <4>6 DEF RxRoom
            <4>8. overrun' \subseteq 1 .. MaxChars
                BY <4>1, <4>4 DEF Receives
            <4> QED  BY <4>5, <4>7, <4>8 DEF Receives
        <3> QED  BY <3>4, <3>5, <3>6
    <2> QED  BY <1>5, <2>2, <2>3 DEF LineActive, CharTime
<1>6. CASE BootStep \/ request_irq
    <2>1. UNCHANGED <<rx, fcr, arrived, overrun, taken, err>>
        BY <1>6 DEF BootStep, gic_init_secure, FindFrame, ClearSleep, WaitChildren,
           InitCpuInterface, Unmask, request_irq, Start
    <2> QED  BY <2>1 DEF Receives, RxRoom
<1>7. CASE SetupStep \/ EchoTx \/ WriteIer \/ WriteMcr
    <2>1. UNCHANGED <<rx, fcr, arrived, overrun, taken, err>>
        BY <1>7 DEF SetupStep, ckg_enable, SetDlab, WriteDll, WriteDlh, ClearDlab, set_line_ctrl,
           Configure, Program, EchoTx, WriteIer, WriteMcr
    <2> QED  BY <2>1 DEF Receives, RxRoom
<1>8. CASE TakeFiq \/ ReadIir \/ Report \/ Forward \/ Wake \/ ModemChange \/ UNCHANGED vars
    <2>1. UNCHANGED <<rx, fcr, arrived, overrun, taken, err>>
        BY <1>8 DEF TakeFiq, ReadIir, Report, Handler, Forward, Wake, ModemChange, vars
    <2> QED  BY <2>1 DEF Receives, RxRoom
<1> QED
    BY <1>1, <1>2, <1>3, <1>4, <1>5, <1>6, <1>7, <1>8
       DEF Next, TaskStep, EchoStep, IntrStep, FiqStep

\* A write to TX stays within the room there is.
LEMMA PutTxTypes ==
    ASSUME NEW S, tx \in Seq(S), NEW c \in S, Len(tx) <= TxRoom, PutTx(c), fcr' = fcr
    PROVE  tx' \in Seq(S) /\ Len(tx') <= TxRoom'
<1>1. TxRoom' = TxRoom /\ TxRoom \in Nat \ {0, 1} /\ (~fcr => TxRoom = 2)
    BY UartAssumption DEF TxRoom
<1>2. Len(tx) \in Nat
    BY LenProperties
<1>3. CASE Len(tx) < TxRoom
    <2>1. tx' = Append(tx, c)
        BY <1>3 DEF PutTx
    <2>2. tx' \in Seq(S) /\ Len(tx') = Len(tx) + 1
        BY <2>1, AppendProperties
    <2> QED  BY <1>1, <1>2, <1>3, <2>2
<1>4. CASE ~(Len(tx) < TxRoom) /\ fcr
    BY <1>1, <1>4 DEF PutTx
<1>5. CASE ~(Len(tx) < TxRoom) /\ ~fcr
    <2>1. tx' = <<tx[1], c>>
        BY <1>5 DEF PutTx
    <2>2. 1 \in 1 .. Len(tx)
        BY <1>1, <1>2, <1>5
    <2>3. tx[1] \in S
        BY <2>2, ElementOfSeq
    <2>4. tx' \in Seq(S) /\ Len(tx') = 2
        BY <2>1, <2>3
    <2> QED  BY <1>1, <1>5, <2>4
<1> QED
    BY <1>3, <1>4, <1>5

LEMMA SendsStep == EchoInv /\ TypeInv /\ [Next]_vars => Sends'
<1> SUFFICES ASSUME EchoInv, TypeInv, [Next]_vars PROVE Sends'
    OBVIOUS
<1> USE DEF data, control, history, boot, setup, latches
<1>0. /\ tx \in Seq(0 .. MaxChars) /\ Len(tx) <= TxRoom
      /\ test = "ECHO_TEST" => tx \in Seq(1 .. MaxChars)
      /\ val \in 0 .. MaxChars /\ sent \in Seq(1 .. MaxChars)
      /\ thri \in BOOLEAN /\ msi \in BOOLEAN
      /\ MaxChars \in Nat
    BY UartAssumption DEF TypeInv, Sends
<1>1. CASE EchoRx
    <2>1. val' \in 0 .. MaxChars
        <3>1. CASE rx = << >>
            BY <1>0, <1>1, <3>1 DEF EchoRx
        <3>2. CASE rx # << >>
            <4> DEFINE C == [n : 1 .. MaxChars, bad : BOOLEAN]
            <4>1. rx \in Seq(C)
                BY DEF TypeInv, Receives
            <4>2. rx[1] \in C
                <5> HIDE DEF C
                <5>1. Len(rx) \in Nat \ {0}
                    BY <3>2, <4>1, EmptySeq
                <5>2. 1 \in 1 .. Len(rx)
                    BY <5>1
                <5> QED  BY <4>1, <5>2, ElementOfSeq
            <4>3. rx[1].n \in 1 .. MaxChars
                BY <4>2
            <4> QED  BY <1>0, <1>1, <3>2, <4>3 DEF EchoRx
        <3> QED  BY <3>1, <3>2
    <2>2. UNCHANGED <<test, fcr, tx, sent, thri, msi>>
        BY <1>1 DEF EchoRx, Program, Task
    <2> QED  BY <1>0, <2>1, <2>2 DEF Sends, TxRoom
<1>2. CASE EchoTx
    <2>1. PutTx(val) /\ val' = 0 /\ UNCHANGED <<test, fcr, sent, thri, msi>>
        BY <1>2 DEF EchoTx, Program, Task
    <2>2. tx' \in Seq(0 .. MaxChars) /\ Len(tx') <= TxRoom'
        BY <1>0, <2>1, PutTxTypes
    <2>3. ASSUME test = "ECHO_TEST" PROVE tx' \in Seq(1 .. MaxChars)
        <3>1. val # 0
            BY <1>2, <2>3 DEF EchoTx, Program, Task, EchoInv, AtEcho
        <3>2. val \in 1 .. MaxChars
            BY <1>0, <3>1
        <3> QED  BY <1>0, <2>1, <2>3, <3>2, PutTxTypes
    <2>4. 0 \in 0 .. MaxChars
        BY <1>0
    <2> QED  BY <1>0, <2>1, <2>2, <2>3, <2>4 DEF Sends
<1>3. CASE Report
    <2>1. test # "ECHO_TEST"
        BY <1>3 DEF Report, Handler, EchoInv, AtEcho
    <2>2. UNCHANGED <<test, fcr, sent, val, thri, msi>> /\ (tx' = tx \/ PutTx(0))
        BY <1>3 DEF Report, Handler
    <2>3. 0 \in 0 .. MaxChars
        BY <1>0
    <2>4. tx' \in Seq(0 .. MaxChars) /\ Len(tx') <= TxRoom'
        <3>1. CASE tx' = tx
            BY <1>0, <2>2, <3>1 DEF TxRoom
        <3>2. CASE PutTx(0)
            BY <1>0, <2>2, <2>3, <3>2, PutTxTypes
        <3> QED  BY <2>2, <3>1, <3>2
    <2> QED  BY <1>0, <2>1, <2>2, <2>4 DEF Sends
<1>4. CASE WriteFcr
    <2>1. tx' = << >> /\ fcr' = TRUE /\ UNCHANGED <<test, sent, val, msi>> /\ thri' \in BOOLEAN
        BY <1>0, <1>4 DEF WriteFcr, Program, Task
    <2>2. Len(tx') <= TxRoom'
        BY <2>1, UartAssumption DEF TxRoom
    <2> QED  BY <1>0, <2>1, <2>2, EmptySeq DEF Sends
<1>5. CASE LineActive
    <2>1. UNCHANGED <<test, fcr, val, msi>> /\ thri' \in BOOLEAN
        BY <1>5 DEF LineActive, CharTime
    <2>2. CASE tx = << >>
        <3>1. UNCHANGED <<tx, sent>>
            BY <1>5, <2>2 DEF LineActive, CharTime
        <3> QED  BY <1>0, <2>1, <3>1 DEF Sends, TxRoom
    <2>3. CASE tx # << >>
        <3>1. /\ tx' = Tail(tx)
              /\ sent' = IF test = "ECHO_TEST" THEN Append(sent, tx[1]) ELSE sent
            BY <1>5, <2>3 DEF LineActive, CharTime
        <3>2. tx' \in Seq(0 .. MaxChars) /\ Len(tx') = Len(tx) - 1 /\ Len(tx) \in Nat \ {0}
            BY <1>0, <2>3, <3>1, HeadTailProperties, EmptySeq
        <3>3. TxRoom \in Nat
            BY UartAssumption DEF TxRoom
        <3>4. Len(tx') <= TxRoom'
            <4>1. TxRoom' = TxRoom
                BY <2>1 DEF TxRoom
            <4> QED  BY <1>0, <3>2, <3>3, <4>1
        <3>5. ASSUME test = "ECHO_TEST"
              PROVE  tx' \in Seq(1 .. MaxChars) /\ sent' \in Seq(1 .. MaxChars)
            <4>1. tx \in Seq(1 .. MaxChars) /\ 1 \in 1 .. Len(tx)
                BY <1>0, <3>2, <3>5
            <4>2. tx[1] \in 1 .. MaxChars
                BY <4>1, ElementOfSeq
            <4> QED  BY <1>0, <2>3, <3>1, <3>5, <4>1, <4>2, HeadTailProperties, AppendProperties
        <3> QED  BY <1>0, <2>1, <3>1, <3>2, <3>4, <3>5 DEF Sends
    <2> QED  BY <2>2, <2>3
<1>6. CASE BootStep \/ request_irq \/ SetupStep \/ PollLsr \/ WriteMcr
    <2>1. UNCHANGED <<test, fcr, tx, val, sent, thri, msi>>
        <3>1. CASE BootStep \/ request_irq
            BY <3>1 DEF BootStep, gic_init_secure, FindFrame, ClearSleep, WaitChildren,
               InitCpuInterface, Unmask, request_irq, Start, Task
        <3>2. CASE SetupStep
            BY <3>2 DEF SetupStep, ckg_enable, SetDlab, WriteDll, WriteDlh, ClearDlab,
               set_line_ctrl, Configure, Program, Task
        <3>3. CASE PollLsr \/ WriteMcr
            BY <3>3 DEF PollLsr, WriteMcr, Program, Task
        <3> QED  BY <1>6, <3>1, <3>2, <3>3
    <2> QED  BY <1>0, <2>1 DEF Sends, TxRoom
<1>8. CASE WriteIer
    <2>1. UNCHANGED <<test, fcr, tx, val, sent, msi>>
        BY <1>8 DEF WriteIer, Program, Task
    <2>2. thri' \in BOOLEAN
        BY <1>8 DEF WriteIer
    <2> QED  BY <1>0, <2>1, <2>2 DEF Sends, TxRoom
<1>7. CASE TakeFiq \/ ReadIir \/ ReadRx \/ Forward \/ Wake \/ ModemChange \/ UNCHANGED vars
    <2>1. UNCHANGED <<test, fcr, tx, val, sent>> /\ thri' \in BOOLEAN /\ msi' \in BOOLEAN
        BY <1>0, <1>7 DEF TakeFiq, ReadIir, ReadRx, Handler, Forward, Wake, ModemChange, vars
    <2> QED  BY <1>0, <2>1 DEF Sends, TxRoom
<1> QED
    BY <1>1, <1>2, <1>3, <1>4, <1>5, <1>6, <1>7, <1>8
       DEF Next, TaskStep, EchoStep, IntrStep, FiqStep

\* The registers and the characters stay in their ranges, for any FIFOs and any
\* traffic: neither the echo nor the digits of the handler fill TX beyond its
\* depth, and no character is taken that has not arrived.
THEOREM TypeCorrect == Spec => []TypeOK
<1>1. EchoInv /\ TypeInv /\ [Next]_vars => TypeInv'
    BY BootsStep, RegistersStep, ReceivesStep, SendsStep DEF TypeInv
<1> QED
    BY <1>1, TypeInit, EchoInit, EchoNext, TypeInvIsTypeOK, PTL DEF Spec
=============================================================================
