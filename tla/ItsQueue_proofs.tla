--------------------------- MODULE ItsQueue_proofs ---------------------------
(* For any chip and number of LPIs no LPI is mapped before it is enabled, and *)
(* a failed set-up sends nothing.  For the LPIs of the code the command ring  *)
(* is a channel.                                                              *)
EXTENDS ItsQueue, SequenceTheorems, TLAPS

Slots == 0 .. Ring - 1

\* A command is read after the memory has been cleared, so it is one of
\* genLpi's; its LPI was enabled before the command was written.
MemoryCleared == pc = "clr_addr" => ~its /\ \A e \in Event : itt[e] = 0
WritingEnabled == pc \in {"itsCmdWrite", "publish"} => 8192 + i \in prop
WrittenEnabled ==
    pc # "clr_addr" => \A s \in Slots : cmdq[s].op = "mapti" => cmdq[s].lpi \in prop
Domains ==
    /\ DOMAIN cmdq = Slots /\ cmdq = [s \in Slots |-> cmdq[s]]
    /\ itt = [e \in Event |-> itt[e]]
    /\ CREADR \in Slots
    /\ m \in Nat /\ (pc = "itsCmdWrite" => m < 4)

IInv == Domains /\ MemoryCleared /\ WritingEnabled /\ WrittenEnabled /\ MappedAreEnabled

\* The only commands that map are those with the LPI of the batch.
LEMMA CommandFacts ==
    ASSUME NEW l, NEW k \in 0 .. 3, Commands(l)[k + 1].op = "mapti"
    PROVE  Commands(l)[k + 1].lpi = l
<1>1. k = 0 \/ k = 1 \/ k = 2 \/ k = 3
    OBVIOUS
<1>2. CASE k = 0
    BY <1>2 DEF Commands, Mapd
<1>3. CASE k = 1
    BY <1>3 DEF Commands, Mapc
<1>4. CASE k = 2
    BY <1>4 DEF Commands, Mapti
<1>5. CASE k = 3
    BY <1>5 DEF Commands, Inv
<1> QED
    BY <1>1, <1>2, <1>3, <1>4, <1>5

\* CREADR stays in the ring.
LEMMA NextRead == ASSUME NEW n \in Slots PROVE (n + 1) % Ring \in Slots
<1>1. Ring = 128
    BY DEF Ring, CMDQ_SIZE
<1>2. n \in Nat /\ (n + 1) % 128 \in 0 .. 127
    BY <1>1 DEF Slots
<1> QED
    BY <1>1, <1>2 DEF Slots

LEMMA InitIInv == Init => IInv
<1> SUFFICES ASSUME Init PROVE IInv
    OBVIOUS
<1>1. Domains
    BY DEF Init, Domains, Slots, Ring, CMDQ_SIZE
<1>2. MemoryCleared /\ MappedAreEnabled
    BY DEF Init, MemoryCleared, MappedAreEnabled
<1>3. WritingEnabled /\ WrittenEnabled
    BY DEF Init, WritingEnabled, WrittenEnabled
<1> QED
    BY <1>1, <1>2, <1>3 DEF IInv

LEMMA Inductive == IInv /\ [Next]_vars => IInv'
<1> SUFFICES ASSUME IInv, [Next]_vars PROVE IInv'
    OBVIOUS
<1> USE DEF IInv, Domains, MemoryCleared, WritingEnabled, WrittenEnabled, MappedAreEnabled
<1> USE DEF Goto, Return, local, gicr, queue, tables, irq
<1>1. CASE clr_addr
    BY <1>1 DEF clr_addr, Zero
<1>2. CASE setDistAddr
    BY <1>2 DEF setDistAddr
<1>3. CASE getReDistAddr
    BY <1>3 DEF getReDistAddr
<1>4. CASE setupDist
    BY <1>4 DEF setupDist
<1>5. CASE setupReDist
    BY <1>5 DEF setupReDist, Poll, Awake
<1>6. CASE setupCPUIF
    BY <1>6 DEF setupCPUIF
<1>7. CASE setupIts
    <2>1. 0 \in Slots
        BY DEF Slots, Ring, CMDQ_SIZE
    <2> QED  BY <1>7, <2>1 DEF setupIts
<1>8. CASE aximChk
    BY <1>8 DEF aximChk
<1>9. CASE genLpi
    BY <1>9 DEF genLpi
<1>10. CASE itsCmdWrite
    <2> DEFINE c == Commands(8192 + i)[m + 1]
    <2>1. m \in 0 .. 3 /\ 8192 + i \in prop
        BY <1>10 DEF itsCmdWrite
    <2>2. c.op = "mapti" => c.lpi \in prop
        BY <2>1, CommandFacts
    <2> HIDE DEF c
    <2>3. /\ cmdq' = [cmdq EXCEPT ![cwrite_ptr] = c]
          /\ UNCHANGED <<prop, i, itt, its, CREADR>> /\ m' = m + 1
          /\ pc = "itsCmdWrite" /\ pc' = IF m + 1 = 4 THEN "publish" ELSE "itsCmdWrite"
        BY <1>10 DEF itsCmdWrite, c
    <2>4. \A s \in Slots : cmdq'[s] = IF s = cwrite_ptr THEN c ELSE cmdq[s]
        BY <2>3
    <2>5. WrittenEnabled'
        BY <2>2, <2>3, <2>4
    <2>6. Domains'
        BY <2>1, <2>3
    <2> QED
        BY <2>1, <2>3, <2>5, <2>6
<1>11. CASE Publish
    BY <1>11 DEF Publish
<1>12. CASE Trigger
    BY <1>12 DEF Trigger
<1>13. ASSUME NEW l \in Lpi, do_irq(l) PROVE IInv'
    BY <1>13 DEF do_irq
<1>14. CASE Wake
    BY <1>14 DEF Wake
<1>15. CASE ReadCommand
    <2> DEFINE c == cmdq[CREADR]
    <2>1. /\ its /\ Execute(c) /\ CREADR' = (CREADR + 1) % Ring
          /\ UNCHANGED <<pc, local, gicr, cmdq, its>>
        BY <1>15 DEF ReadCommand
    <2>2. CREADR' \in Slots
        BY <2>1, NextRead
    <2>3. pc # "clr_addr" /\ (c.op = "mapti" => c.lpi \in prop)
        BY <2>1
    <2> HIDE DEF c
    <2>4. itt' = [e \in Event |-> itt'[e]] /\ MappedAreEnabled'
        BY <2>1, <2>3 DEF Execute
    <2> QED
        BY <2>1, <2>2, <2>3, <2>4
<1>16. CASE UNCHANGED vars
    BY <1>16 DEF vars
<1> QED
    BY <1>1, <1>2, <1>3, <1>4, <1>5, <1>6, <1>7, <1>8, <1>9, <1>10, <1>11, <1>12,
       <1>13, <1>14, <1>15, <1>16 DEF Next, main, test_entry

\* An event is never mapped to an LPI that is disabled in the property table,
\* whenever the ITS reads the commands (main.c 305-338).
THEOREM EnabledBeforeMapped == Spec => []MappedAreEnabled
<1>1. IInv => MappedAreEnabled
    BY DEF IInv
<1> QED
    BY InitIInv, Inductive, <1>1, PTL DEF Spec
----------------------------------------------------------------------------
(* The types, and what has been set up when the core comes to a statement. *)

Sending == {"genLpi", "itsCmdWrite", "publish"}

\* ret is only false in main; the loop of getReDistAddr is at a frame; the
\* commands of an LPI are counted; the ITS is told of
\* slots up to the wrap only.
AtStatement ==
    /\ pc \in Sending \cup {"clr_addr", "setDistAddr", "getReDistAddr", "setupDist",
                            "setupReDist", "setupCPUIF", "setupIts", "aximChk", "main"}
    /\ ~ret => pc = "main"
    /\ pc = "getReDistAddr" => cnt < Len(hw.frames)
    /\ pc \in {"clr_addr", "setDistAddr"} => cnt = 0
    /\ pc = "itsCmdWrite" => m < 4
    /\ CWRITER \in 0 .. Wrap

\* A command that maps an event has an event and an LPI of the program's.
CommandTypes == \A s \in Slots :
    cmdq[s].op = "mapti" => cmdq[s].event \in Event /\ cmdq[s].lpi \in Lpi

\* The own frame is known once it has been passed.
FrameFound ==
    /\ gicr_base # 0 => hw.frames[gicr_base].own
    /\ \A f \in 1 .. cnt : hw.frames[f].own => gicr_base # 0

\* What has been found and set up, unless test_entry has failed.
SetUpSoFar ==
    ret =>
        /\ pc \notin {"clr_addr", "setDistAddr"} => hw.dist
        /\ pc \notin {"clr_addr", "setDistAddr", "getReDistAddr"} =>
              cnt = Len(hw.frames) /\ cnt = NUM_CORES
        /\ pc \in Sending \cup {"setupCPUIF", "setupIts", "aximChk", "main"} =>
              waker = "awake" /\ lpiOn
        /\ pc \in Sending \cup {"setupIts", "aximChk", "main"} => cpuif
        /\ pc \in Sending \cup {"main"} => hw.lpiSup /\ hw.frames[gicr_base].num = 0

\* Before the first command, and for ever after a failure, nothing happens.
Nothing ==
    /\ CWRITER = 0 /\ CREADR = 0 /\ pending = {} /\ taken = 0
    /\ \A e \in Event : itt[e] = 0
Silence == pc \notin Sending \cup {"main"} \/ ~ret => Nothing

SetUpInv == TypeOK /\ AtStatement /\ CommandTypes /\ FrameFound /\ SetUpSoFar /\ Silence

LEMMA Frames ==
    ASSUME hw \in Hardware
    PROVE  /\ Len(hw.frames) \in Nat /\ hw.dist \in BOOLEAN /\ hw.lpiSup \in BOOLEAN
           /\ \A f \in 1 .. Len(hw.frames) : hw.frames[f].last <=> f = Len(hw.frames)
           /\ \E f \in 1 .. Len(hw.frames) : hw.frames[f].own
    BY ItsAssumption

LEMMA Lpis ==
    /\ INT_NUM \in Nat \ {0} /\ 10 \in Event
    /\ \A k \in 0 .. INT_NUM - 1 : 8192 + k \in Lpi
    /\ \A k \in 0 .. INT_NUM - 1 : (k + 1) % INT_NUM \in 0 .. INT_NUM - 1
    BY ItsAssumption DEF Event, Lpi

LEMMA NextSlotInRange == ASSUME NEW s \in 0 .. Wrap PROVE NextSlot(s) \in 0 .. Wrap
    BY DEF NextSlot, Wrap, CMDQ_SIZE

\* A command of the program maps, if it maps at all, event 10.
LEMMA CommandsTyped ==
    ASSUME NEW l \in Lpi, NEW k \in 0 .. 3, Commands(l)[k + 1].op = "mapti"
    PROVE  Commands(l)[k + 1].event \in Event /\ Commands(l)[k + 1].lpi \in Lpi
<1>1. k = 0 \/ k = 1 \/ k = 2 \/ k = 3
    OBVIOUS
<1>2. CASE k = 0
    BY <1>2 DEF Commands, Mapd
<1>3. CASE k = 1
    BY <1>3 DEF Commands, Mapc
<1>4. CASE k = 2
    BY <1>4, Lpis DEF Commands, Mapti
<1>5. CASE k = 3
    BY <1>5 DEF Commands, Inv
<1> QED
    BY <1>1, <1>2, <1>3, <1>4, <1>5

LEMMA InitSetUp == Init => SetUpInv
<1> SUFFICES ASSUME Init PROVE SetUpInv
    OBVIOUS
<1>1. Len(hw.frames) \in Nat /\ POLLS \in Nat /\ 0 \in 0 .. INT_NUM - 1
    BY Frames, ItsAssumption DEF Init
<1>2. TypeOK
    <2>1. \E c : cmdq = [s \in 0 .. Ring - 1 |-> c]
        BY DEF Init
    <2>2. /\ DOMAIN cmdq = 0 .. Ring - 1 /\ itt \in [Event -> {0} \cup Lpi]
          /\ prop \subseteq Lpi /\ 0 \in 0 .. Ring - 1 /\ 0 \in 0 .. Wrap
        BY <2>1 DEF Init, Ring, Wrap, CMDQ_SIZE
    <2>3. /\ hw \in Hardware /\ ret \in BOOLEAN /\ cnt = 0 /\ gicr_base = 0 /\ polls = 0
          /\ i = 0 /\ m = 0 /\ waker = "asleep" /\ cwrite_ptr = 0 /\ CWRITER = 0 /\ CREADR = 0
          /\ pending = {} /\ taken = 0
        BY DEF Init
    <2>4. {lpiOn, cpuif, its, device, coll} \subseteq BOOLEAN
        <3>1. lpiOn = FALSE /\ cpuif = FALSE /\ its = FALSE /\ device = FALSE /\ coll = FALSE
            BY DEF Init
        <3>2. \A b \in {lpiOn, cpuif, its, device, coll} : b = FALSE
            BY <3>1, Zenon
        <3> QED  BY <3>2, Zenon
    <2> QED  BY <1>1, <2>2, <2>3, <2>4 DEF TypeOK
<1>3. AtStatement /\ FrameFound /\ SetUpSoFar
    BY <1>1 DEF Init, AtStatement, FrameFound, SetUpSoFar, Sending, Wrap, CMDQ_SIZE
<1>4. CommandTypes
    <2>1. 8192 \in Lpi
        BY Lpis, <1>1
    <2>2. PICK c \in {Zero, Mapd, Mapti(10, 8192)} : \A s \in Slots : cmdq[s] = c
        BY DEF Init, Slots
    <2>3. c.op = "mapti" => c.event \in Event /\ c.lpi \in Lpi
        BY <2>1, Lpis DEF Zero, Mapd, Mapti
    <2> QED
        BY <2>2, <2>3 DEF CommandTypes
<1>5. Silence
    BY DEF Init, Silence, Nothing
<1> QED
    BY <1>2, <1>3, <1>4, <1>5 DEF SetUpInv

\* The steps that prepare the chip.
LEMMA PrepareStep ==
    ASSUME SetUpInv, clr_addr \/ setDistAddr \/ setupDist \/ setupReDist \/ setupCPUIF
                     \/ setupIts \/ aximChk,
           UNCHANGED hw
    PROVE  SetUpInv'
<1> USE DEF SetUpInv, local, gicr, queue, tables, irq, Goto, Return
<1>1. Len(hw.frames) \in Nat /\ hw.dist \in BOOLEAN
    BY Frames DEF TypeOK
<1>2. CASE clr_addr
    <2>1. /\ pc' = "setDistAddr" /\ prop' = {} /\ cmdq' = [s \in DOMAIN cmdq |-> Zero]
          /\ pc = "clr_addr"
          /\ UNCHANGED <<ret, cnt, gicr_base, polls, i, cwrite_ptr, m, waker, lpiOn, cpuif,
                         CWRITER, CREADR, its, tables, irq>>
        BY <1>2 DEF clr_addr
    <2>2. TypeOK'
        BY <2>1 DEF TypeOK
    <2>3. CommandTypes'
        BY <2>1 DEF CommandTypes, TypeOK, Slots, Zero
    <2>4. AtStatement' /\ FrameFound' /\ SetUpSoFar' /\ Silence'
        BY <2>1 DEF AtStatement, FrameFound, SetUpSoFar, Silence, Nothing, Sending
    <2> QED
        BY <2>2, <2>3, <2>4
<1>3. CASE setDistAddr
    <2>1. TypeOK' /\ CommandTypes' /\ FrameFound'
        BY <1>3 DEF setDistAddr, TypeOK, CommandTypes, FrameFound
    <2>2. AtStatement'
        <3>1. 0 < Len(hw.frames)
            BY <1>1, Frames DEF TypeOK
        <3> QED  BY <1>3, <3>1 DEF setDistAddr, AtStatement, Sending
    <2>3. SetUpSoFar' /\ Silence'
        BY <1>3 DEF setDistAddr, SetUpSoFar, Silence, Nothing, Sending
    <2> QED  BY <2>1, <2>2, <2>3
<1>4. CASE setupDist
    <2>1. TypeOK' /\ CommandTypes' /\ FrameFound' /\ AtStatement'
        BY <1>4 DEF setupDist, TypeOK, CommandTypes, FrameFound, AtStatement, Sending
    <2>2. SetUpSoFar' /\ Silence'
        BY <1>4 DEF setupDist, SetUpSoFar, Silence, Nothing, Sending
    <2> QED  BY <2>1, <2>2
<1>5. CASE setupReDist
    <2>1. TypeOK'
        <3>1. CASE polls >= POLLS \/ waker = "awake"
            BY <1>5, <3>1 DEF setupReDist, Poll, Awake, TypeOK
        <3>2. CASE ~(polls >= POLLS)
            <4>1. polls + 1 \in 0 .. POLLS
                BY <3>2, ItsAssumption DEF TypeOK
            <4> QED  BY <1>5, <3>2, <4>1 DEF setupReDist, Poll, Awake, TypeOK
        <3> QED  BY <3>1, <3>2
    <2>2. CommandTypes' /\ FrameFound' /\ AtStatement'
        BY <1>5 DEF setupReDist, Poll, Awake, CommandTypes, FrameFound, AtStatement, Sending
    <2>3. SetUpSoFar' /\ Silence'
        BY <1>5 DEF setupReDist, Poll, Awake, SetUpSoFar, Silence, Nothing, Sending
    <2> QED  BY <2>1, <2>2, <2>3
<1>6. CASE setupCPUIF
    <2>1. TypeOK' /\ CommandTypes' /\ FrameFound' /\ AtStatement'
        BY <1>6 DEF setupCPUIF, TypeOK, CommandTypes, FrameFound, AtStatement, Sending
    <2>2. SetUpSoFar' /\ Silence'
        BY <1>6 DEF setupCPUIF, SetUpSoFar, Silence, Nothing, Sending
    <2> QED  BY <2>1, <2>2
<1>7. CASE setupIts
    <2>1. TypeOK' /\ CommandTypes' /\ FrameFound' /\ AtStatement'
        BY <1>7 DEF setupIts, TypeOK, CommandTypes, FrameFound, AtStatement, Sending, Ring, Wrap,
           CMDQ_SIZE
    <2>2. SetUpSoFar' /\ Silence'
        BY <1>7 DEF setupIts, SetUpSoFar, Silence, Nothing, Sending
    <2> QED  BY <2>1, <2>2
<1>8. CASE aximChk
    <2>1. TypeOK' /\ CommandTypes' /\ FrameFound' /\ AtStatement'
        BY <1>8 DEF aximChk, TypeOK, CommandTypes, FrameFound, AtStatement, Sending
    <2>2. SetUpSoFar' /\ Silence'
        BY <1>8 DEF aximChk, SetUpSoFar, Silence, Nothing, Sending
    <2> QED  BY <2>1, <2>2
<1> QED
    BY <1>2, <1>3, <1>4, <1>5, <1>6, <1>7, <1>8

\* The loop over the frames, which leaves at the last one or at one that does
\* not identify itself.
LEMMA FrameStep ==
    ASSUME SetUpInv, getReDistAddr, UNCHANGED hw
    PROVE  SetUpInv'
<1> USE DEF SetUpInv, gicr, queue, tables, irq, Goto, Return
<1>1. /\ Len(hw.frames) \in Nat /\ cnt \in Nat /\ cnt < Len(hw.frames)
      /\ pc = "getReDistAddr" /\ ret /\ hw.dist /\ NUM_CORES \in Nat
    BY Frames, ItsAssumption DEF getReDistAddr, TypeOK, AtStatement, SetUpSoFar
<1> DEFINE f == hw.frames[cnt + 1]
<1>2. cnt + 1 \in 1 .. Len(hw.frames) /\ (f.last <=> cnt + 1 = Len(hw.frames))
    <2>1. cnt + 1 \in 1 .. Len(hw.frames)
        BY ONLY <1>1
    <2> QED  BY <2>1, Frames DEF TypeOK
<1>3. UNCHANGED <<polls, i, cwrite_ptr, m, gicr, queue, tables, irq>>
    BY DEF getReDistAddr
<1>4. CASE ~f.pidr
    <2>1. pc' = "main" /\ ret' = FALSE /\ UNCHANGED <<cnt, gicr_base>>
        BY <1>4 DEF getReDistAddr
    <2>2. TypeOK' /\ CommandTypes' /\ FrameFound' /\ AtStatement'
        BY <1>3, <2>1 DEF TypeOK, CommandTypes, FrameFound, AtStatement
    <2>3. SetUpSoFar' /\ Silence'
        BY <1>1, <1>3, <2>1 DEF SetUpSoFar, Silence, Nothing, Sending
    <2> QED  BY <2>2, <2>3
<1>5. CASE f.pidr
    <2>1. /\ cnt' = cnt + 1 /\ gicr_base' = IF f.own THEN cnt + 1 ELSE gicr_base
          /\ IF ~f.last THEN pc' = "getReDistAddr" /\ ret' = ret
             ELSE IF cnt + 1 = NUM_CORES THEN pc' = "setupDist" /\ ret' = ret
             ELSE pc' = "main" /\ ret' = FALSE
        BY <1>5 DEF getReDistAddr
    <2>2. gicr_base \in 0 .. cnt /\ gicr_base' \in 0 .. cnt' /\ cnt' \in 0 .. Len(hw.frames)
        BY <1>1, <1>2, <2>1 DEF TypeOK
    <2>3. TypeOK'
        BY <1>1, <1>3, <2>1, <2>2 DEF TypeOK
    <2>4. AtStatement'
        <3>1. CASE f.last
            BY <1>1, <1>3, <2>1, <3>1 DEF AtStatement, Sending
        <3>2. CASE ~f.last
            <4>1. cnt' < Len(hw.frames)
                BY <1>1, <1>2, <2>1, <3>2
            <4>2. pc' = "getReDistAddr" /\ ret' /\ CWRITER' = CWRITER
                BY <1>1, <1>3, <2>1, <3>2
            <4> QED  BY <4>1, <4>2 DEF AtStatement, Sending
        <3> QED  BY <3>1, <3>2
    <2>5. FrameFound'
        <3>1. \A g \in 1 .. cnt + 1 : g \in 1 .. cnt \/ g = cnt + 1
            BY <1>1
        <3>2. gicr_base' # 0 => hw.frames[gicr_base'].own
            BY <1>1, <2>1 DEF FrameFound
        <3>3. ASSUME NEW g \in 1 .. cnt + 1, hw.frames[g].own PROVE gicr_base' # 0
            <4>1. CASE f.own
                BY <1>1, <2>1, <4>1
            <4>2. CASE ~f.own
                BY <2>1, <3>1, <3>3, <4>2 DEF FrameFound
            <4> QED  BY <4>1, <4>2
        <3> QED  BY <2>1, <3>2, <3>3 DEF FrameFound
    <2>6. SetUpSoFar'
        BY <1>1, <1>2, <1>3, <2>1 DEF SetUpSoFar, Sending
    <2>7. Silence' /\ CommandTypes'
        BY <1>1, <1>3, <2>1 DEF Silence, Nothing, Sending, CommandTypes
    <2> QED  BY <2>3, <2>4, <2>5, <2>6, <2>7
<1> QED
    BY <1>4, <1>5

\* The steps that send the commands of the LPIs.
LEMMA SendStep ==
    ASSUME SetUpInv, genLpi \/ itsCmdWrite \/ Publish, UNCHANGED hw
    PROVE  SetUpInv'
<1> USE DEF SetUpInv, local, gicr, queue, tables, irq, Goto, Return
<1>1. pc \in Sending /\ ret
    BY DEF genLpi, itsCmdWrite, Publish, AtStatement, Sending
<1>2. i \in 0 .. INT_NUM - 1 /\ 8192 + i \in Lpi /\ INT_NUM \in Nat \ {0}
    BY Lpis DEF TypeOK
<1>3. CASE genLpi
    <2>1. TypeOK'
        <3>1. cwrite_ptr' \in 0 .. Wrap
            BY <1>3 DEF genLpi, AtStatement
        <3> QED  BY <1>2, <1>3, <3>1 DEF genLpi, TypeOK
    <2>2. CommandTypes' /\ FrameFound' /\ AtStatement'
        BY <1>1, <1>3 DEF genLpi, CommandTypes, FrameFound, AtStatement, Sending
    <2>3. SetUpSoFar' /\ Silence'
        BY <1>1, <1>3 DEF genLpi, SetUpSoFar, Silence, Nothing, Sending
    <2> QED  BY <2>1, <2>2, <2>3
<1>4. CASE itsCmdWrite
    <2> DEFINE c == Commands(8192 + i)[m + 1]
    <2>1. pc = "itsCmdWrite" /\ m \in 0 .. 3
        BY <1>4 DEF itsCmdWrite, TypeOK, AtStatement
    <2>2. c.op = "mapti" => c.event \in Event /\ c.lpi \in Lpi
        BY <1>2, <2>1, CommandsTyped
    <2> HIDE DEF c
    <2>3. /\ cmdq' = [cmdq EXCEPT ![cwrite_ptr] = c] /\ cwrite_ptr' = NextSlot(cwrite_ptr)
          /\ m' = m + 1 /\ pc' = IF m + 1 = 4 THEN "publish" ELSE "itsCmdWrite"
          /\ UNCHANGED <<hw, ret, cnt, gicr_base, polls, i, gicr, CWRITER, CREADR, its, tables, irq>>
        BY <1>4 DEF itsCmdWrite, c
    <2>4. cwrite_ptr' \in 0 .. Wrap /\ m' \in 0 .. 4
        BY <2>1, <2>3, NextSlotInRange DEF TypeOK
    <2>5. TypeOK'
        BY <2>3, <2>4 DEF TypeOK
    <2>6. CommandTypes'
        <3>1. \A s \in Slots : cmdq'[s] = IF s = cwrite_ptr THEN c ELSE cmdq[s]
            BY <2>3 DEF TypeOK, Slots
        <3> QED  BY <2>2, <3>1 DEF CommandTypes
    <2>7. AtStatement'
        BY <1>1, <2>1, <2>3 DEF AtStatement, Sending
    <2>8. FrameFound' /\ SetUpSoFar' /\ Silence'
        BY <1>1, <2>1, <2>3 DEF FrameFound, SetUpSoFar, Silence, Nothing, Sending
    <2> QED  BY <2>5, <2>6, <2>7, <2>8
<1>5. CASE Publish
    <2>1. TypeOK'
        <3>1. CWRITER' \in 0 .. Ring - 1
            BY <1>5 DEF Publish, TypeOK, Ring, Wrap, CMDQ_SIZE
        <3>2. i' \in 0 .. INT_NUM - 1
            BY <1>2, <1>5 DEF Publish
        <3>3. UNCHANGED <<hw, ret, cnt, gicr_base, polls, cwrite_ptr, m, gicr, cmdq, CREADR, its,
                          tables, irq>>
            BY <1>5 DEF Publish
        <3> QED  BY <3>1, <3>2, <3>3 DEF TypeOK
    <2>2. CommandTypes' /\ FrameFound' /\ AtStatement'
        BY <1>1, <1>5 DEF Publish, CommandTypes, FrameFound, AtStatement, Sending, TypeOK
    <2>3. SetUpSoFar' /\ Silence'
        BY <1>1, <1>5 DEF Publish, SetUpSoFar, Silence, Nothing, Sending
    <2> QED  BY <2>1, <2>2, <2>3
<1> QED
    BY <1>3, <1>4, <1>5

\* The loop of main, the interrupt handler and the hardware.
LEMMA OtherStep ==
    ASSUME SetUpInv, \/ Trigger /\ UNCHANGED hw
                     \/ \E l \in Lpi : do_irq(l)
                     \/ Wake \/ ReadCommand
    PROVE  SetUpInv'
<1> USE DEF SetUpInv, local, gicr, queue, tables, irq, Goto
<1>1. CASE Trigger /\ UNCHANGED hw
    <2>1. 10 + i \in Event
        BY Lpis DEF TypeOK, Event
    <2>2. /\ pc = "main" /\ pc' = "main" /\ i' = (i + 1) % INT_NUM
          /\ pending' = IF its /\ device /\ coll /\ lpiOn /\ itt[10 + i] # 0
                        THEN pending \cup {itt[10 + i]} ELSE pending
          /\ UNCHANGED <<hw, ret, cnt, gicr_base, polls, cwrite_ptr, m, gicr, queue, tables, taken>>
        BY <1>1 DEF Trigger
    <2>3. i' \in 0 .. INT_NUM - 1
        BY <2>2, Lpis DEF TypeOK
    <2>4. pending' \subseteq Lpi
        BY <2>1, <2>2 DEF TypeOK
    <2>5. TypeOK'
        BY <2>2, <2>3, <2>4 DEF TypeOK
    <2>6. AtStatement' /\ CommandTypes' /\ FrameFound' /\ SetUpSoFar'
        BY <2>2 DEF AtStatement, CommandTypes, FrameFound, SetUpSoFar, Sending
    <2>7. Silence'
        BY <2>1, <2>2 DEF Silence, Nothing
    <2> QED  BY <2>5, <2>6, <2>7
<1>2. ASSUME NEW l \in Lpi, do_irq(l) PROVE SetUpInv'
    <2>1. TypeOK' /\ AtStatement' /\ CommandTypes' /\ FrameFound' /\ SetUpSoFar'
        BY <1>2 DEF do_irq, TypeOK, AtStatement, CommandTypes, FrameFound, SetUpSoFar
    <2>2. Silence'
        BY <1>2 DEF do_irq, Silence, Nothing
    <2> QED  BY <2>1, <2>2
<1>3. CASE Wake
    <2>1. TypeOK' /\ AtStatement' /\ CommandTypes' /\ FrameFound'
        BY <1>3 DEF Wake, TypeOK, AtStatement, CommandTypes, FrameFound
    <2>2. SetUpSoFar' /\ Silence'
        BY <1>3 DEF Wake, SetUpSoFar, Silence, Nothing
    <2> QED  BY <2>1, <2>2
<1>4. CASE ReadCommand
    <2> DEFINE c == cmdq[CREADR]
    <2>1. /\ CREADR # CWRITER /\ Execute(c) /\ CREADR' = (CREADR + 1) % Ring
          /\ UNCHANGED <<hw, pc, local, gicr, cmdq, CWRITER, its, irq>>
        BY <1>4 DEF ReadCommand
    <2>2. CREADR \in Slots /\ CREADR' \in Slots
        BY <2>1, NextRead DEF TypeOK, Slots
    <2>3. c.op = "mapti" => c.event \in Event /\ c.lpi \in Lpi
        BY <2>2 DEF CommandTypes
    <2> HIDE DEF c
    <2>4. /\ itt' \in [Event -> {0} \cup Lpi] /\ device' \in BOOLEAN /\ coll' \in BOOLEAN
        BY <2>1, <2>3 DEF Execute, TypeOK
    <2>5. TypeOK'
        BY <2>1, <2>2, <2>4 DEF TypeOK, Slots
    <2>6. AtStatement' /\ CommandTypes' /\ FrameFound' /\ SetUpSoFar'
        BY <2>1 DEF AtStatement, CommandTypes, FrameFound, SetUpSoFar
    <2>7. Silence'
        BY <2>1 DEF Silence, Nothing
    <2> QED  BY <2>5, <2>6, <2>7
<1> QED
    BY <1>1, <1>2, <1>3, <1>4

LEMMA SetUpHolds == Spec => []SetUpInv
<1>1. SetUpInv /\ [Next]_vars => SetUpInv'
    <2> SUFFICES ASSUME SetUpInv, [Next]_vars PROVE SetUpInv'
        OBVIOUS
    <2>1. CASE UNCHANGED vars
        <3> USE <2>1 DEF vars, local, gicr, queue, tables, irq, SetUpInv
        <3>1. TypeOK' /\ AtStatement' /\ CommandTypes'
            BY DEF TypeOK, AtStatement, CommandTypes
        <3>2. FrameFound' /\ SetUpSoFar' /\ Silence'
            BY DEF FrameFound, SetUpSoFar, Silence, Nothing
        <3> QED  BY <3>1, <3>2
    <2>2. CASE Next
        BY <2>2, PrepareStep, FrameStep, SendStep, OtherStep DEF Next, main, test_entry
    <2> QED  BY <2>1, <2>2
<1> QED
    BY <1>1, InitSetUp, PTL DEF Spec

\* Every variable keeps its type: the pointers stay in the ring, the events and
\* LPIs of the commands among those of the test.
THEOREM TypeCorrect == Spec => []TypeOK
<1>1. SetUpInv => TypeOK
    BY DEF SetUpInv
<1> QED
    BY <1>1, SetUpHolds, PTL

\* Whatever the chip, a failed test_entry has sent no command, and one that
\* sends has set up all an LPI passes (main.c 401-436, 455).
THEOREM SilentFailure == Spec => []FailureIsSilent
<1>1. SetUpInv => FailureIsSilent
    <2> SUFFICES ASSUME SetUpInv PROVE FailureIsSilent
        OBVIOUS
    <2> USE DEF SetUpInv
    <2>1. ~ret => pending = {} /\ taken = 0 /\ CREADR = CWRITER
        BY DEF Silence, Nothing
    <2>2. ASSUME CWRITER # 0 PROVE SetUpFirst
        <3>1. ret /\ pc \in Sending \cup {"main"}
            BY <2>2 DEF Silence, Nothing, TypeOK
        <3>2. cnt = Len(hw.frames) /\ Len(hw.frames) = NUM_CORES
            BY <3>1 DEF SetUpSoFar, Sending
        <3>3. gicr_base # 0 /\ hw.frames[gicr_base].own
            BY <3>2, Frames DEF FrameFound, TypeOK
        <3> QED
            BY <3>1, <3>2, <3>3 DEF SetUpSoFar, SetUpFirst, Sending
    <2> QED
        BY <2>1, <2>2 DEF FailureIsSilent, SetUpFirst
<1> QED
    BY <1>1, SetUpHolds, PTL


----------------------------------------------------------------------------
(* The ring implements CommandChannel.                                      *)

\* With the LPIs of the code (INT_NUM is 4) the write pointer does not come to
\* its wrap: the commands lie in the order of the LPIs, those of the current one
\* ahead of the pointer the ITS knows.
RingInv ==
    /\ CREADR <= CWRITER /\ CWRITER <= 16
    /\ pc \notin Sending \cup {"main"} => i = 0
    /\ pc \in Sending => CWRITER = 4 * i
    /\ pc \in {"itsCmdWrite", "publish"} =>
          /\ cwrite_ptr = 4 * i + m
          /\ \A k \in 0 .. 3 : k < m => cmdq[4 * i + k] = Commands(8192 + i)[k + 1]
    /\ pc = "publish" => m = 4

\* The pointers as numbers.
LEMMA Pointers ==
    ASSUME SetUpInv
    PROVE  /\ Ring = 128 /\ Wrap = 16 /\ Slots = 0 .. 127 /\ DOMAIN cmdq = Slots
           /\ CREADR \in 0 .. 127 /\ CWRITER \in 0 .. 16 /\ i \in Nat /\ m \in Nat
           /\ i <= INT_NUM - 1 /\ m <= 4 /\ INT_NUM \in Nat \ {0}
<1>1. Ring = 128 /\ Wrap = 16
    BY DEF Ring, Wrap, CMDQ_SIZE
<1> QED
    BY <1>1, ItsAssumption DEF SetUpInv, TypeOK, AtStatement, Slots

LEMMA RingInit == Init => RingInv
    BY DEF Init, RingInv, Sending

\* One command in the next slot.
LEMMA RingWrite ==
    ASSUME INT_NUM <= 4, SetUpInv, RingInv, itsCmdWrite
    PROVE  /\ RingInv'
           /\ \A s \in Slots : s < CWRITER => cmdq'[s] = cmdq[s]
           /\ UNCHANGED <<CWRITER, CREADR>>
<1> DEFINE c == Commands(8192 + i)[m + 1]
<1>1. /\ m \in 0 .. 3 /\ i \in 0 .. 3 /\ cwrite_ptr = 4 * i + m /\ CWRITER = 4 * i
      /\ pc = "itsCmdWrite" /\ cwrite_ptr \in Slots /\ CREADR \in Nat
    <2>1. pc = "itsCmdWrite"
        BY DEF itsCmdWrite
    <2>2. cwrite_ptr = 4 * i + m /\ CWRITER = 4 * i
        BY <2>1 DEF RingInv, Sending
    <2>3. m < 4
        BY <2>1 DEF SetUpInv, AtStatement
    <2>4. m \in Nat /\ i \in Nat /\ i <= INT_NUM - 1 /\ INT_NUM \in Nat /\ CREADR \in Nat
          /\ Slots = 0 .. 127
        BY Pointers
    <2>5. m \in 0 .. 3 /\ i \in 0 .. 3
        BY <2>3, <2>4
    <2>6. cwrite_ptr \in 0 .. 127
        BY <2>2, <2>5
    <2> QED  BY <2>1, <2>2, <2>4, <2>5, <2>6
<1>2. /\ cmdq' = [cmdq EXCEPT ![cwrite_ptr] = c] /\ m' = m + 1 /\ i' = i
      /\ cwrite_ptr' = NextSlot(cwrite_ptr) /\ UNCHANGED <<CWRITER, CREADR>>
      /\ pc' = IF m + 1 = 4 THEN "publish" ELSE "itsCmdWrite"
    BY DEF itsCmdWrite, Goto
<1> HIDE DEF c
<1>3. cwrite_ptr' = 4 * i + (m + 1)
    BY <1>1, <1>2, Pointers DEF NextSlot
<1>4. \A s \in Slots : cmdq'[s] = IF s = cwrite_ptr THEN c ELSE cmdq[s]
    BY <1>2, Pointers
<1>5. ASSUME NEW k \in 0 .. 3, k < m + 1
      PROVE  cmdq'[4 * i + k] = Commands(8192 + i)[k + 1]
    <2>1. 4 * i + k \in Slots /\ (k = m \/ (k < m /\ 4 * i + k # cwrite_ptr))
        BY <1>1, <1>5, Pointers
    <2>2. CASE k = m
        BY <1>1, <1>4, <2>1, <2>2 DEF c
    <2>3. CASE k < m /\ 4 * i + k # cwrite_ptr
        BY <1>1, <1>4, <2>1, <2>3 DEF RingInv
    <2> QED  BY <2>1, <2>2, <2>3
<1>6. \A s \in Slots : s < CWRITER => cmdq'[s] = cmdq[s]
    <2>1. \A s \in Slots : s < CWRITER => s # cwrite_ptr
        BY <1>1, Pointers
    <2> QED  BY <1>4, <2>1
<1>7. RingInv'
    BY <1>1, <1>2, <1>3, <1>5 DEF RingInv, Sending
<1> QED
    BY <1>2, <1>6, <1>7

LEMMA RingStep ==
    ASSUME INT_NUM <= 4
    PROVE  SetUpInv /\ RingInv /\ [Next]_vars => RingInv'
<1> SUFFICES ASSUME SetUpInv, RingInv, [Next]_vars PROVE RingInv'
    OBVIOUS
<1> USE Pointers DEF Goto, Return, local, gicr, queue, tables, irq
<1>1. CASE clr_addr \/ setDistAddr \/ getReDistAddr \/ setupDist \/ setupReDist \/ setupCPUIF
    <2>1. /\ pc \notin Sending \cup {"main"} /\ pc' \notin Sending
          /\ UNCHANGED <<i, CWRITER, CREADR>>
        BY <1>1 DEF clr_addr, setDistAddr, getReDistAddr, setupDist, setupReDist, Poll, Awake,
           setupCPUIF, Sending
    <2> QED  BY <2>1 DEF RingInv, Sending
<1>2. CASE setupIts \/ aximChk
    <2>1. /\ pc \notin Sending \cup {"main"} /\ pc' \in {"aximChk", "genLpi", "main"}
          /\ i' = i /\ CWRITER' = 0 /\ CREADR' = 0
        BY <1>2 DEF setupIts, aximChk, Sending, SetUpInv, Silence, Nothing
    <2> QED  BY <2>1 DEF RingInv, Sending
<1>3. CASE genLpi
    <2>1. pc = "genLpi" /\ pc' = "itsCmdWrite" /\ cwrite_ptr' = CWRITER /\ m' = 0
          /\ UNCHANGED <<i, CWRITER, CREADR>>
        BY <1>3 DEF genLpi
    <2> QED  BY <2>1 DEF RingInv, Sending
<1>4. CASE itsCmdWrite
    BY <1>4, RingWrite
<1>5. CASE Publish
    <2>1. /\ pc = "publish" /\ CWRITER = 4 * i /\ CWRITER' = 4 * i + 4 /\ CREADR' = CREADR
        BY <1>5 DEF Publish, RingInv, Sending
    <2>0. CREADR \in Nat /\ CREADR <= CWRITER /\ i \in 0 .. 3
        BY Pointers DEF RingInv
    <2>4. CREADR' <= CWRITER' /\ CWRITER' <= 16
        BY <2>0, <2>1
    <2>2. CASE i + 1 < INT_NUM
        <3>1. i' = i + 1 /\ pc' = "genLpi"
            BY <1>5, <2>2 DEF Publish
        <3>2. CWRITER' = 4 * i'
            BY <2>0, <2>1, <3>1
        <3> QED  BY <2>4, <3>1, <3>2 DEF RingInv, Sending
    <2>3. CASE ~(i + 1 < INT_NUM)
        <3>1. pc' = "main"
            BY <1>5, <2>3 DEF Publish
        <3> QED  BY <2>4, <3>1 DEF RingInv, Sending
    <2> QED  BY <2>2, <2>3
<1>6. CASE Trigger
    BY <1>6 DEF Trigger, RingInv, Sending
<1>7. ASSUME NEW l \in Lpi, do_irq(l) PROVE RingInv'
    BY <1>7 DEF do_irq, RingInv
<1>8. CASE Wake
    BY <1>8 DEF Wake, RingInv
<1>9. CASE ReadCommand
    <2>1. CREADR < CWRITER /\ CREADR' = CREADR + 1
        BY <1>9 DEF ReadCommand, RingInv
    <2> QED  BY <1>9, <2>1 DEF ReadCommand, RingInv
<1>10. CASE UNCHANGED vars
    BY <1>10 DEF vars, RingInv
<1> QED
    BY <1>1, <1>2, <1>3, <1>4, <1>5, <1>6, <1>7, <1>8, <1>9, <1>10 DEF Next, main, test_entry

\* The part of a ring from slot r to before slot w, which does not reach its end.
Part(q, r, w) == [k \in 1 .. w - r |-> q[r + k - 1]]

LEMMA PartOfRing ==
    ASSUME NEW q, NEW r \in 0 .. 16, NEW w \in 0 .. 16, r <= w
    PROVE  [k \in 1 .. (w - r) % Ring |-> q[(r + k - 1) % Ring]] = Part(q, r, w)
<1>1. Ring = 128
    BY DEF Ring, CMDQ_SIZE
<1>2. (w - r) % Ring = w - r
    BY <1>1
<1>3. \A k \in 1 .. w - r : (r + k - 1) % Ring = r + k - 1
    BY <1>1
<1> QED
    BY <1>2, <1>3 DEF Part

LEMMA PartIsSeq ==
    ASSUME NEW q, NEW r \in Nat, NEW w \in Nat, r <= w,
           NEW X, \A k \in 1 .. w - r : q[r + k - 1] \in X
    PROVE  Part(q, r, w) \in Seq(X) /\ Len(Part(q, r, w)) = w - r
<1> DEFINE n == w - r
           p == Part(q, r, w)
<1>1. n \in Nat
    OBVIOUS
<1>2. p \in [1 .. n -> X]
    BY DEF Part
<1> HIDE DEF n, p
<1>3. p \in Seq(X) /\ Len(p) = n
    BY <1>1, <1>2, SeqDef, LenProperties
<1> QED
    BY <1>3 DEF n, p

\* The part grows at its end by the commands written there.
LEMMA PartGrows ==
    ASSUME NEW q, NEW r \in Nat, NEW w \in Nat, r <= w,
           NEW X, NEW C \in Seq(X), Len(C) = 4,
           \A k \in 1 .. w + 4 - r : q[r + k - 1] \in X,
           \A k \in 0 .. 3 : q[w + k] = C[k + 1]
    PROVE  Part(q, r, w + 4) = Part(q, r, w) \o C
<1> DEFINE n == w - r
           p == Part(q, r, w)
           g == Part(q, r, w + 4)
<1>1. n \in Nat /\ w = r + n /\ w + 4 - r = n + 4
    OBVIOUS
<1>2. p \in Seq(X) /\ Len(p) = n
    <2>1. r <= w /\ \A k \in 1 .. w - r : q[r + k - 1] \in X
        OBVIOUS
    <2> QED  BY ONLY <2>1, r \in Nat, w \in Nat, PartIsSeq
<1>3. g \in Seq(X) /\ Len(g) = n + 4
    <2>1. w + 4 \in Nat /\ r <= w + 4
        OBVIOUS
    <2> DEFINE v == w + 4
    <2>2. v \in Nat /\ r <= v /\ \A k \in 1 .. v - r : q[r + k - 1] \in X
        BY <2>1
    <2>3. v - r = n + 4
        BY <1>1
    <2> HIDE DEF v
    <2>4. Part(q, r, v) \in Seq(X) /\ Len(Part(q, r, v)) = v - r
        BY ONLY <2>2, r \in Nat, PartIsSeq
    <2> QED  BY <2>3, <2>4 DEF v
<1>4. \A k \in 1 .. n : p[k] = q[r + k - 1]
    BY DEF Part
<1>5. \A k \in 1 .. n + 4 : g[k] = q[r + k - 1]
    BY <1>1 DEF Part
<1> HIDE DEF n, p, g
<1>6. /\ p \o C \in Seq(X) /\ Len(p \o C) = n + 4
      /\ \A k \in 1 .. n + 4 : (p \o C)[k] = IF k <= n THEN p[k] ELSE C[k - n]
    <2>1. /\ p \o C \in Seq(X) /\ Len(p \o C) = Len(p) + Len(C)
          /\ \A k \in 1 .. Len(p) + Len(C) :
                (p \o C)[k] = IF k <= Len(p) THEN p[k] ELSE C[k - Len(p)]
        BY <1>2, ConcatProperties
    <2>2. Len(p) = n /\ Len(C) = 4
        BY <1>2
    <2> QED  BY <2>1, <2>2
<1>7. ASSUME NEW k \in 1 .. n + 4 PROVE g[k] = (p \o C)[k]
    <2>1. CASE k <= n
        <3>1. k \in 1 .. n
            BY <1>1, <2>1
        <3> QED  BY <1>4, <1>5, <1>6, <2>1, <3>1
    <2>2. CASE ~(k <= n)
        <3>1. PICK j \in 0 .. 3 : k = n + j + 1
            <4>1. k - n - 1 \in 0 .. 3 /\ k = n + (k - n - 1) + 1
                BY <1>1, <2>2
            <4> QED  BY <4>1
        <3>2. r + k - 1 = w + j /\ k - n = j + 1
            BY <1>1, <3>1
        <3> QED  BY <1>5, <1>6, <2>2, <3>2
    <2> QED  BY <2>1, <2>2
<1>8. g = p \o C
    BY <1>3, <1>6, <1>7, SeqEqual
<1> QED
    BY <1>8 DEF p, g

\* The part shrinks at its beginning by one command.
LEMMA PartShrinks ==
    ASSUME NEW q, NEW r \in Nat, NEW w \in Nat, r < w,
           NEW X, \A k \in 1 .. w - r : q[r + k - 1] \in X
    PROVE  Part(q, r, w) # << >> /\ Part(q, r + 1, w) = Tail(Part(q, r, w))
<1> DEFINE n == w - r
           p == Part(q, r, w)
           t == Part(q, r + 1, w)
<1>1. n \in Nat /\ n # 0 /\ n - 1 \in Nat /\ w - (r + 1) = n - 1
    OBVIOUS
<1>2. p \in Seq(X) /\ Len(p) = n
    <2>1. r <= w /\ \A k \in 1 .. w - r : q[r + k - 1] \in X
        OBVIOUS
    <2> QED  BY ONLY <2>1, r \in Nat, w \in Nat, PartIsSeq
<1>3. t \in Seq(X) /\ Len(t) = n - 1
    <2>1. r + 1 \in Nat /\ r + 1 <= w
        OBVIOUS
    <2>2. \A k \in 1 .. w - (r + 1) : q[(r + 1) + k - 1] \in X
        <3> SUFFICES ASSUME NEW k \in 1 .. w - (r + 1) PROVE q[(r + 1) + k - 1] \in X
            OBVIOUS
        <3>1. k + 1 \in 1 .. w - r /\ (r + 1) + k - 1 = r + (k + 1) - 1
            OBVIOUS
        <3> QED  BY <3>1
    <2> QED  BY <1>1, <2>1, <2>2, PartIsSeq
<1>4. \A k \in 1 .. n : p[k] = q[r + k - 1]
    BY DEF Part
<1>5. \A k \in 1 .. n - 1 : t[k] = q[(r + 1) + k - 1]
    BY <1>1 DEF Part
<1> HIDE DEF n, p, t
<1>6. p # << >>
    BY <1>1, <1>2, EmptySeq
<1>7. /\ Tail(p) \in Seq(X) /\ Len(Tail(p)) = n - 1
      /\ \A k \in 1 .. n - 1 : Tail(p)[k] = p[k + 1]
    BY <1>2, <1>6, HeadTailProperties
<1>8. ASSUME NEW k \in 1 .. n - 1 PROVE t[k] = Tail(p)[k]
    <2>1. k + 1 \in 1 .. n /\ (r + 1) + k - 1 = r + (k + 1) - 1
        BY <1>1
    <2> QED  BY <1>4, <1>5, <1>7, <2>1
<1>9. t = Tail(p)
    BY <1>3, <1>7, <1>8, SeqEqual
<1> QED
    BY <1>6, <1>9 DEF p, t

\* What the ITS has still to read is a part of the ring.
LEMMA UnreadIs ==
    ASSUME SetUpInv, RingInv
    PROVE  /\ CREADR \in 0 .. 16 /\ CWRITER \in 0 .. 16 /\ CREADR <= CWRITER
           /\ Unread = Part(cmdq, CREADR, CWRITER)
           /\ \A k \in 1 .. CWRITER - CREADR : CREADR + k - 1 \in Slots
<1>1. CREADR \in 0 .. 16 /\ CWRITER \in 0 .. 16 /\ CREADR <= CWRITER
    BY Pointers DEF RingInv
<1>2. Slots = 0 .. 127
    BY Pointers
<1>3. \A k \in 1 .. CWRITER - CREADR : CREADR + k - 1 \in Slots
    BY <1>1, <1>2
<1> QED
    BY <1>1, <1>3, PartOfRing DEF Unread

LEMMA UnreadNext ==
    ASSUME SetUpInv', RingInv'
    PROVE  /\ CREADR' \in 0 .. 16 /\ CWRITER' \in 0 .. 16 /\ CREADR' <= CWRITER'
           /\ Unread' = Part(cmdq', CREADR', CWRITER')
<1>1. CREADR' \in 0 .. 127 /\ CWRITER' \in 0 .. 16
    BY ItsAssumption DEF SetUpInv, TypeOK, AtStatement, Slots, Ring, Wrap, CMDQ_SIZE
<1>2. CREADR' \in 0 .. 16 /\ CREADR' <= CWRITER'
    BY <1>1 DEF RingInv
<1> QED
    BY <1>1, <1>2, PartOfRing DEF Unread

\* Publish appends the four commands of the LPI.
LEMMA PublishSends ==
    ASSUME SetUpInv, RingInv, SetUpInv', RingInv', Publish
    PROVE  Unread' = Unread \o Commands(8192 + i)
<1> DEFINE C == Commands(8192 + i)
           X == {cmdq[s] : s \in Slots} \cup {C[k] : k \in 1 .. 4}
<1>1. UNCHANGED <<cmdq, CREADR>> /\ CWRITER' = cwrite_ptr /\ pc = "publish"
    BY DEF Publish
<1>2. CWRITER = 4 * i /\ cwrite_ptr = 4 * i + m /\ m = 4
    BY <1>1 DEF RingInv, Sending
<1>3. CWRITER' = CWRITER + 4
    BY <1>1, <1>2
<1>4. \A k \in 0 .. 3 : cmdq[CWRITER + k] = C[k + 1]
    BY <1>1, <1>2 DEF RingInv
<1>5. C \in Seq(X) /\ Len(C) = 4
    <2>1. C = <<Mapd, Mapc, Mapti(10, 8192 + i), Inv(8192 + i)>>
        BY DEF Commands
    <2>2. C[1] \in X /\ C[2] \in X /\ C[3] \in X /\ C[4] \in X
        OBVIOUS
    <2> HIDE DEF C, X
    <2> QED  BY <2>1, <2>2
<1>6. CREADR \in Nat /\ CWRITER \in Nat /\ CREADR <= CWRITER /\ CWRITER + 4 <= 16
    <2>1. CREADR \in 0 .. 16 /\ CWRITER \in 0 .. 16 /\ CREADR <= CWRITER
        BY UnreadIs
    <2>2. CWRITER' \in 0 .. 16
        BY UnreadNext
    <2> QED  BY <1>3, <2>1, <2>2
<1>7. \A k \in 1 .. CWRITER + 4 - CREADR : cmdq[CREADR + k - 1] \in X
    <2> SUFFICES ASSUME NEW k \in 1 .. CWRITER + 4 - CREADR PROVE cmdq[CREADR + k - 1] \in X
        OBVIOUS
    <2>1. CREADR + k - 1 \in 0 .. 127 /\ Slots = 0 .. 127
        BY <1>6, Pointers
    <2> QED  BY <2>1
<1>8. Unread = Part(cmdq, CREADR, CWRITER) /\ Unread' = Part(cmdq, CREADR, CWRITER + 4)
    BY <1>1, <1>3, UnreadIs, UnreadNext
<1> HIDE DEF C, X
<1>9. Unread' = Unread \o C
    <2>1. Part(cmdq, CREADR, CWRITER + 4) = Part(cmdq, CREADR, CWRITER) \o C
        <3>1. /\ CREADR \in Nat /\ CWRITER \in Nat /\ CREADR <= CWRITER
              /\ C \in Seq(X) /\ Len(C) = 4
              /\ \A k \in 1 .. CWRITER + 4 - CREADR : cmdq[CREADR + k - 1] \in X
              /\ \A k \in 0 .. 3 : cmdq[CWRITER + k] = C[k + 1]
            BY <1>4, <1>5, <1>6, <1>7
        <3> QED  BY <3>1, PartGrows, ZenonT(60)
    <2> QED  BY <1>8, <2>1
<1> QED
    BY <1>9 DEF C

\* The ITS takes the first of the unread commands.
LEMMA ReadReceives ==
    ASSUME SetUpInv, RingInv, SetUpInv', RingInv', ReadCommand
    PROVE  Unread # << >> /\ Unread' = Tail(Unread)
<1> DEFINE X == {cmdq[s] : s \in Slots}
<1>1. UNCHANGED <<cmdq, CWRITER>> /\ CREADR # CWRITER /\ CREADR' = (CREADR + 1) % Ring
    BY DEF ReadCommand
<1>2. CREADR \in Nat /\ CWRITER \in Nat /\ CREADR < CWRITER
    <2>1. CREADR \in 0 .. 16 /\ CWRITER \in 0 .. 16 /\ CREADR <= CWRITER
        BY UnreadIs
    <2> QED  BY <1>1, <2>1
<1>3. CREADR' = CREADR + 1
    <2>1. CREADR \in 0 .. 16 /\ Ring = 128
        BY UnreadIs, Pointers
    <2> QED  BY <1>1, <2>1
<1>4. \A k \in 1 .. CWRITER - CREADR : cmdq[CREADR + k - 1] \in X
    BY UnreadIs
<1>5. Unread = Part(cmdq, CREADR, CWRITER) /\ Unread' = Part(cmdq, CREADR + 1, CWRITER)
    BY <1>1, <1>3, UnreadIs, UnreadNext
<1> HIDE DEF X
<1> QED
    BY <1>2, <1>4, <1>5, PartShrinks

\* No other step shows.
LEMMA OthersStutter ==
    ASSUME INT_NUM <= 4, SetUpInv, RingInv, SetUpInv', RingInv', Next, ~Publish, ~ReadCommand
    PROVE  Unread' = Unread
<1>0. /\ Unread = Part(cmdq, CREADR, CWRITER) /\ Unread' = Part(cmdq', CREADR', CWRITER')
      /\ CREADR \in 0 .. 16 /\ CWRITER \in 0 .. 16
    BY UnreadIs, UnreadNext
<1>1. CASE clr_addr \/ setupIts
    <2>1. CREADR = 0 /\ CWRITER = 0
        BY <1>1 DEF clr_addr, setupIts, SetUpInv, Silence, Nothing, Sending
    <2>2. CREADR' = 0 /\ CWRITER' = 0
        BY <1>1, <2>1 DEF clr_addr, setupIts
    <2>3. 1 .. 0 - 0 = {}
        OBVIOUS
    <2> QED  BY <1>0, <2>1, <2>2, <2>3 DEF Part
<1>2. CASE itsCmdWrite
    <2>1. \A s \in Slots : s < CWRITER => cmdq'[s] = cmdq[s]
        BY <1>2, RingWrite
    <2>2. UNCHANGED <<CWRITER, CREADR>>
        BY <1>2, RingWrite
    <2>3. \A k \in 1 .. CWRITER - CREADR : CREADR + k - 1 < CWRITER
        BY <1>0
    <2>4. \A k \in 1 .. CWRITER - CREADR : cmdq'[CREADR + k - 1] = cmdq[CREADR + k - 1]
        BY <2>1, <2>3, UnreadIs
    <2> QED  BY <1>0, <2>2, <2>4 DEF Part
<1>3. ASSUME ~clr_addr, ~setupIts, ~itsCmdWrite PROVE UNCHANGED <<cmdq, CWRITER, CREADR>>
    <2> USE DEF Goto, Return, local, gicr, queue, tables, irq
    <2>1. CASE test_entry
        BY <1>3, <2>1 DEF test_entry, setDistAddr, getReDistAddr, setupDist, setupReDist,
           setupCPUIF, aximChk, genLpi
    <2>2. CASE Trigger
        BY <2>2 DEF Trigger
    <2>3. ASSUME NEW l \in Lpi, do_irq(l) PROVE UNCHANGED <<cmdq, CWRITER, CREADR>>
        BY <2>3 DEF do_irq
    <2>4. CASE Wake
        BY <2>4 DEF Wake
    <2> QED  BY <1>3, <2>1, <2>2, <2>3, <2>4 DEF Next, main
<1> QED
    BY <1>0, <1>1, <1>2, <1>3

\* As long as the commands of all LPIs end before the wrap of the pointer, as
\* the code's 4 do, the command ring is a channel: the four commands of
\* an LPI enter together, and the ITS, reading in its own time, takes them out
\* one by one, each once and in order (main.c 294-334).
THEOREM RingRefines ==
    ASSUME 4 * INT_NUM <= Wrap
    PROVE  Spec => RingIsChannel
<1>0. INT_NUM <= 4
    BY ItsAssumption DEF Wrap, CMDQ_SIZE
<1>1. Init => Channel!Init
    <2> SUFFICES ASSUME Init PROVE Unread = << >>
        BY DEF Channel!Init
    <2>1. Unread = Part(cmdq, 0, 0)
        BY InitSetUp, RingInit, UnreadIs DEF Init
    <2>2. 1 .. 0 - 0 = {}
        OBVIOUS
    <2> QED  BY <2>1, <2>2 DEF Part
<1>2. /\ SetUpInv /\ RingInv /\ SetUpInv' /\ RingInv' /\ [Next]_vars
      => [Channel!Next]_Unread
    <2> SUFFICES ASSUME SetUpInv, RingInv, SetUpInv', RingInv', [Next]_vars
                 PROVE  [Channel!Next]_Unread
        OBVIOUS
    <2>1. CASE Publish
        <3>1. Commands(8192 + i) \in {Commands(l) : l \in Lpi}
            BY Lpis DEF SetUpInv, TypeOK
        <3>2. Unread' = Unread \o Commands(8192 + i)
            BY <2>1, PublishSends
        <3>3. \E b \in {Commands(l) : l \in Lpi} : Unread' = Unread \o b
            <4> WITNESS Commands(8192 + i) \in {Commands(l) : l \in Lpi}
            <4> QED  BY <3>2
        <3> QED  BY <3>3 DEF Channel!Next, Channel!Send
    <2>2. CASE ReadCommand
        BY <2>2, ReadReceives DEF Channel!Next, Channel!Receive
    <2>3. CASE UNCHANGED vars
        BY <2>3 DEF vars, queue, Unread
    <2> QED  BY <1>0, <2>1, <2>2, <2>3, OthersStutter
<1>3. Spec => [](SetUpInv /\ RingInv)
    <2>1. SetUpInv /\ RingInv /\ [Next]_vars => RingInv'
        BY <1>0, RingStep
    <2> QED  BY <2>1, SetUpHolds, RingInit, PTL DEF Spec
<1> QED
    BY <1>1, <1>2, <1>3, PTL DEF Spec, RingIsChannel, Channel!Spec

=============================================================================
