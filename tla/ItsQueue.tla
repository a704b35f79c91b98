------------------------------ MODULE ItsQueue ------------------------------
(***************************************************************************)
(* lpi_test: one core sets up the GIC, sends an ITS the commands that map  *)
(* an event to each of INT_NUM LPIs, and then triggers events for ever.    *)
(* The ITS reads the commands from a ring in memory in its own time, and   *)
(* LPIs interrupt the core between any two of its steps.                   *)
(*                                                                         *)
(* The hardware is an input: whether the distributor identifies itself,    *)
(* the redistributor frames, and whether LPIs are supported.  One step is  *)
(* a write the hardware can see, or a poll.  The ITS ignores a command in  *)
(* error, and a second MAPD of a device may or may not keep its events.    *)
(***************************************************************************)
EXTENDS Naturals, Sequences

CONSTANTS
    INT_NUM,        \* LPIs to set up
    NUM_CORES,      \* redistributor frames to be found
    POLLS,          \* polls of GICR_WAKER before giving up (100 in the code)
    Hardware        \* records: dist, frames, lpiSup

\* One frame is the core's own; the frames end with the one that says it is
\* the last.
ASSUME ItsAssumption ==
    /\ INT_NUM \in Nat \ {0} /\ NUM_CORES \in Nat \ {0} /\ POLLS \in Nat
    /\ \A h \in Hardware :
        /\ h.dist \in BOOLEAN /\ h.lpiSup \in BOOLEAN
        /\ h.frames \in Seq([pidr : BOOLEAN, own : BOOLEAN, num : Nat, last : BOOLEAN])
        /\ \E f \in 1 .. Len(h.frames) : h.frames[f].own
        /\ \A f \in 1 .. Len(h.frames) : h.frames[f].last <=> f = Len(h.frames)

CMDQ_SIZE == 0
Ring == 128 * (CMDQ_SIZE + 1)   \* commands of 32 bytes in pages of 4096
Wrap == 16 * (CMDQ_SIZE + 1)    \* 512 * (CMDQ_SIZE + 1) bytes

Lpi == 8192 .. 8192 + INT_NUM - 1
Event == 10 .. 10 + INT_NUM - 1

Mapd == [op |-> "mapd"]
Mapc == [op |-> "mapc"]
Mapti(e, l) == [op |-> "mapti", event |-> e, lpi |-> l]
Inv(e) == [op |-> "inv", event |-> e]
Zero == [op |-> "zero"]

\* The commands of one LPI.  Mutant: no MAPC.
Commands_Mutant(l) == <<Mapd, Mapti(10, l), Inv(l), Inv(l)>>
Commands(l) == <<Mapd, Mapc, Mapti(10, l), Inv(l)>>

\* The write pointer.  Mutant: it wraps at the end of the part, not behind it.
NextSlot_Mutant(s) == IF s + 1 = Wrap THEN 0 ELSE s + 1
NextSlot(s) == IF s = Wrap THEN 0 ELSE s + 1

VARIABLES
    hw,             \* the hardware the program runs on
    pc,             \* statement of the core
    ret,            \* what test_entry has returned: 0 or -1 (FALSE)
    cnt, gicr_base, \* frames seen; the core's own one (0: not set)
    polls,          \* polls of GICR_WAKER
    i,              \* loop counter of aximChk and main
    cwrite_ptr, m,  \* write pointer as a slot; commands of the LPI written
    waker,          \* redistributor: "asleep", "waking", "awake"
    lpiOn, cpuif,   \* GICR_CTLR.EnableLPIs; the CPU interface is enabled
    prop,           \* LPIs enabled in the property table
    cmdq,           \* the ring in memory
    CWRITER, CREADR,\* registers of the ITS, as slots
    its,            \* GITS_CTLR.Enabled
    device, coll,   \* device 1 and collection 0 are mapped
    itt,            \* the LPI of each event, 0 when unmapped
    pending,        \* pending LPIs
    taken           \* history: the LPI taken last, 0 before the first

local == <<ret, cnt, gicr_base, polls, i, cwrite_ptr, m>>
gicr == <<waker, lpiOn, cpuif, prop>>
queue == <<cmdq, CWRITER, CREADR, its>>
tables == <<device, coll, itt>>
irq == <<pending, taken>>
vars == <<hw, pc, local, gicr, queue, tables, irq>>

\* Memory has any contents before it is cleared.
Init ==
    /\ hw \in Hardware
    /\ pc = "clr_addr" /\ ret = TRUE
    /\ cnt = 0 /\ gicr_base = 0 /\ polls = 0 /\ i = 0 /\ cwrite_ptr = 0 /\ m = 0
    /\ waker = "asleep" /\ lpiOn = FALSE /\ cpuif = FALSE
    /\ prop \in {{}, Lpi}
    /\ \E c \in {Zero, Mapd, Mapti(10, 8192)} : cmdq = [s \in 0 .. Ring - 1 |-> c]
    /\ CWRITER = 0 /\ CREADR = 0 /\ its = FALSE
    /\ device = FALSE /\ coll = FALSE /\ itt = [e \in Event |-> 0]
    /\ pending = {} /\ taken = 0

----------------------------------------------------------------------------
(* The core.                                                               *)

Goto(s) == pc' = s /\ UNCHANGED ret
Return(r) == pc' = "main" /\ ret' = r

clr_addr ==
    /\ pc = "clr_addr" /\ Goto("setDistAddr")
    /\ prop' = {} /\ cmdq' = [s \in DOMAIN cmdq |-> Zero]
    /\ UNCHANGED <<cnt, gicr_base, polls, i, cwrite_ptr, m, waker, lpiOn, cpuif,
                   CWRITER, CREADR, its, tables, irq>>

setDistAddr ==
    /\ pc = "setDistAddr"
    /\ IF hw.dist THEN Goto("getReDistAddr") ELSE Return(FALSE)
    /\ UNCHANGED <<cnt, gicr_base, polls, i, cwrite_ptr, m, gicr, queue, tables, irq>>

\* One frame.  The count is compared after the last one.
getReDistAddr ==
    /\ pc = "getReDistAddr"
    /\ LET f == hw.frames[cnt + 1] IN
        IF f.pidr
        THEN /\ cnt' = cnt + 1
             /\ gicr_base' = IF f.own THEN cnt + 1 ELSE gicr_base
             /\ IF ~f.last THEN Goto("getReDistAddr")
                ELSE IF cnt + 1 = NUM_CORES THEN Goto("setupDist") ELSE Return(FALSE)
        ELSE Return(FALSE) /\ UNCHANGED <<cnt, gicr_base>>
    /\ UNCHANGED <<polls, i, cwrite_ptr, m, gicr, queue, tables, irq>>

\* setReDistAddr and setSre are passed over (the pending write of GICD_CTLR is
\* taken to end), setupDist enables the groups, and then the redistributor is
\* told to wake.
setupDist ==
    /\ pc = "setupDist" /\ Goto("setupReDist")
    /\ waker' = "waking"
    /\ UNCHANGED <<cnt, gicr_base, polls, i, cwrite_ptr, m, lpiOn, cpuif, prop,
                   queue, tables, irq>>

\* A poll of GICR_WAKER; after the last one the set-up is given up.
Poll(timeout) ==
    /\ waker # "awake"
    /\ IF polls >= POLLS THEN timeout /\ UNCHANGED polls
       ELSE Goto("setupReDist") /\ polls' = polls + 1
    /\ UNCHANGED lpiOn
Awake == waker = "awake" /\ Goto("setupCPUIF") /\ lpiOn' = TRUE /\ UNCHANGED polls

setupReDist ==
    /\ pc = "setupReDist"
    /\ Poll(Return(FALSE)) \/ Awake
    /\ UNCHANGED <<cnt, gicr_base, i, cwrite_ptr, m, waker, cpuif, prop, queue, tables, irq>>

setupCPUIF ==
    /\ pc = "setupCPUIF" /\ Goto("setupIts") /\ cpuif' = TRUE
    /\ UNCHANGED <<cnt, gicr_base, polls, i, cwrite_ptr, m, waker, lpiOn, prop,
                   queue, tables, irq>>

\* CWRITER = 0, the write of CBASER clears CREADR, and the ITS is enabled last.
setupIts ==
    /\ pc = "setupIts" /\ Goto("aximChk")
    /\ CWRITER' = 0 /\ CREADR' = 0 /\ its' = TRUE
    /\ UNCHANGED <<cnt, gicr_base, polls, i, cwrite_ptr, m, gicr, cmdq, tables, irq>>

\* At EL1: LPIs are sent only by core 0 and if there are any.  Mutant: the
\* check of the core does not return.
aximChk_Mutant ==
    /\ pc = "aximChk"
    /\ IF hw.lpiSup THEN pc' = "genLpi" /\ ret' = (hw.frames[gicr_base].num = 0)
       ELSE Return(FALSE)
    /\ UNCHANGED <<cnt, gicr_base, polls, i, cwrite_ptr, m, gicr, queue, tables, irq>>
aximChk ==
    /\ pc = "aximChk"
    /\ IF hw.lpiSup /\ hw.frames[gicr_base].num = 0 THEN Goto("genLpi") ELSE Return(FALSE)
    /\ UNCHANGED <<cnt, gicr_base, polls, i, cwrite_ptr, m, gicr, queue, tables, irq>>

\* genLpi for LPI 8192 + i: its byte in the property table.  Mutant: the
\* byte is written at the index of the event.
genLpi_Mutant ==
    /\ pc = "genLpi" /\ Goto("itsCmdWrite")
    /\ prop' = prop \cup {8192}
    /\ cwrite_ptr' = CWRITER /\ m' = 0
    /\ UNCHANGED <<cnt, gicr_base, polls, i, waker, lpiOn, cpuif, queue, tables, irq>>
genLpi ==
    /\ pc = "genLpi" /\ Goto("itsCmdWrite")
    /\ prop' = prop \cup {8192 + i}
    /\ cwrite_ptr' = CWRITER /\ m' = 0
    /\ UNCHANGED <<cnt, gicr_base, polls, i, waker, lpiOn, cpuif, queue, tables, irq>>

\* One command, in place before the pointer moves.
itsCmdWrite ==
    /\ pc = "itsCmdWrite"
    /\ cmdq' = [cmdq EXCEPT ![cwrite_ptr] = Commands(8192 + i)[m + 1]]
    /\ cwrite_ptr' = NextSlot(cwrite_ptr)
    /\ m' = m + 1
    /\ Goto(IF m + 1 = 4 THEN "publish" ELSE "itsCmdWrite")
    /\ UNCHANGED <<cnt, gicr_base, polls, i, gicr, CWRITER, CREADR, its, tables, irq>>

\* The ITS gets to see the four commands; the next LPI follows.  Mutant: the
\* counter is not reset for the loop of main.
Publish_Mutant ==
    /\ pc = "publish" /\ CWRITER' = cwrite_ptr
    /\ i' = i + 1
    /\ IF i + 1 < INT_NUM THEN Goto("genLpi") ELSE Return(ret)
    /\ UNCHANGED <<cnt, gicr_base, polls, cwrite_ptr, m, gicr, cmdq, CREADR, its, tables, irq>>
Publish ==
    /\ pc = "publish" /\ CWRITER' = cwrite_ptr
    /\ IF i + 1 < INT_NUM THEN i' = i + 1 /\ Goto("genLpi")
       ELSE i' = 0 /\ Return(ret)
    /\ UNCHANGED <<cnt, gicr_base, polls, cwrite_ptr, m, gicr, cmdq, CREADR, its, tables, irq>>

\* The loop of main, whatever test_entry has returned: event 10 + i.  An
\* event without a mapping is dropped.
Trigger ==
    /\ pc = "main" /\ Goto("main")
    /\ i' = (i + 1) % INT_NUM
    /\ pending' = IF its /\ device /\ coll /\ lpiOn /\ itt[10 + i] # 0
                  THEN pending \cup {itt[10 + i]} ELSE pending
    /\ UNCHANGED <<cnt, gicr_base, polls, cwrite_ptr, m, gicr, queue, tables, taken>>

test_entry ==
    \/ setDistAddr \/ getReDistAddr \/ setupDist \/ setupReDist \/ setupCPUIF
    \/ setupIts \/ aximChk \/ genLpi \/ itsCmdWrite \/ Publish

main == (clr_addr \/ test_entry \/ Trigger) /\ UNCHANGED hw

\* _do_irq: acknowledge, end, deactivate, and write the marker.
do_irq(l) ==
    /\ waker = "awake" /\ cpuif /\ l \in pending \cap prop
    /\ taken' = l /\ pending' = pending \ {l}
    /\ UNCHANGED <<hw, pc, local, gicr, queue, tables>>

----------------------------------------------------------------------------
(* The hardware.                                                           *)

Wake ==
    /\ waker = "waking" /\ waker' = "awake"
    /\ UNCHANGED <<hw, pc, local, lpiOn, cpuif, prop, queue, tables, irq>>

\* A MAPTI for an unmapped device, an INV of an unmapped event and anything
\* that is no command are errors and ignored.
Execute(c) ==
    \/ c.op = "mapd" /\ device' = TRUE /\ UNCHANGED coll
       /\ itt' \in {itt, [e \in Event |-> 0]}
    \/ c.op = "mapc" /\ coll' = TRUE /\ UNCHANGED <<device, itt>>
    \/ c.op = "mapti" /\ device /\ itt' = [itt EXCEPT ![c.event] = c.lpi]
       /\ UNCHANGED <<device, coll>>
    \/ c.op \notin {"mapd", "mapc"} /\ (c.op = "mapti" => ~device) /\ UNCHANGED tables

ReadCommand ==
    /\ its /\ CREADR # CWRITER
    /\ Execute(cmdq[CREADR])
    /\ CREADR' = (CREADR + 1) % Ring
    /\ UNCHANGED <<hw, pc, local, gicr, cmdq, CWRITER, its, irq>>

Next == main \/ (\E l \in Lpi : do_irq(l)) \/ Wake \/ ReadCommand

Spec == Init /\ [][Next]_vars

\* The core runs, the ITS goes on reading, and the GIC presents every pending
\* LPI in the end (they have one priority).  Nothing is promised about the
\* redistributor's waking up in time.
Fairness ==
    /\ WF_vars(main) /\ WF_vars(ReadCommand)
    /\ \A l \in Lpi : WF_vars(do_irq(l))
FairSpec == Spec /\ Fairness

----------------------------------------------------------------------------
\* Type invariant.
TypeOK ==
    /\ hw \in Hardware /\ ret \in BOOLEAN
    /\ cnt \in 0 .. Len(hw.frames) /\ gicr_base \in 0 .. cnt
    /\ polls \in 0 .. POLLS
    /\ i \in 0 .. INT_NUM - 1 /\ m \in 0 .. 4
    /\ waker \in {"asleep", "waking", "awake"}
    /\ {lpiOn, cpuif, its, device, coll} \subseteq BOOLEAN
    /\ cwrite_ptr \in 0 .. Wrap
    /\ {CWRITER, CREADR} \subseteq 0 .. Ring - 1
    /\ DOMAIN cmdq = 0 .. Ring - 1
    /\ itt \in [Event -> {0} \cup Lpi]
    /\ prop \subseteq Lpi /\ pending \subseteq Lpi /\ taken \in {0} \cup Lpi

\* Commands are sent only when everything an LPI passes is set up: the core's
\* own frame is known and awake, LPIs and the CPU interface are enabled, and
\* the core is the one whose tables these are (main.c 401-436).
SetUpFirst ==
    CWRITER # 0 =>
        /\ hw.dist /\ hw.lpiSup /\ Len(hw.frames) = NUM_CORES
        /\ gicr_base # 0 /\ hw.frames[gicr_base].own /\ hw.frames[gicr_base].num = 0
        /\ waker = "awake" /\ lpiOn /\ cpuif

\* main does not look at the result of test_entry (main.c 455); after a
\* failure its triggers have no effect, at whatever step it happened: no
\* command has been sent.
FailureIsSilent ==
    /\ ~ret => pending = {} /\ taken = 0 /\ CREADR = CWRITER
    /\ SetUpFirst

\* An event is mapped only to an LPI that is enabled in the property table:
\* the byte is written before the commands, and nothing depends on INV, which
\* names the LPI where the ITS expects the event (main.c 311, 328).
MappedAreEnabled == \A e \in Event : itt[e] # 0 => itt[e] \in prop

\* Refinement of CommandChannel: what the ITS has still to read.
Unread == [k \in 1 .. (CWRITER - CREADR) % Ring |-> cmdq[(CREADR + k - 1) % Ring]]

Channel == INSTANCE CommandChannel WITH
    queue <- Unread, Batch <- {Commands(l) : l \in Lpi}

\* The ring is a channel: the ITS reads whole groups of commands, each once,
\* in order, although pointer and reader never synchronise (main.c 294-334).
RingIsChannel == Channel!Spec

\* After a successful set-up LPIs keep coming, and from some time on the only
\* one is the last: all four are mapped to event 10, and the events 11 to 13
\* are dropped (main.c 325, 464).
Last == 8192 + INT_NUM - 1
OnlyLastKeepsComing ==
    (pc = "main" /\ ret) ~>
        [](taken = Last /\ pending \subseteq {Last} /\ <>(pending = {}) /\ <>(pending = {Last}))
=============================================================================
