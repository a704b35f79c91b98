------------------------------- MODULE UartIrq -------------------------------
(***************************************************************************)
(* uart_c: one core sets up the interrupt controller and a UART and runs    *)
(* one of two tests.  echo_test polls the line status and sends back what   *)
(* arrives.  intr_test enables all four causes of the UART; its handler     *)
(* reads the cause, then a character whether there is one or not, and       *)
(* sends the cause back as a digit.                                         *)
(*                                                                          *)
(* One step is one access to a register that the line or the interrupt      *)
(* controller can change or see.  The UART and the GIC are external: their  *)
(* actions say what main.c and uart_c.h expect of them.                     *)
(***************************************************************************)
EXTENDS Naturals, Sequences

CONSTANTS TEST_PORT,    \* the UART under test
          CLK_HZ,       \* frequency of its clock
          RxDepth,      \* characters in the receive FIFO
          TxDepth,      \* characters in the transmit FIFO
          ItLines,      \* ITLinesNumber: words of shared interrupts of the GIC
          OwnFrame,     \* position of the core's redistributor frame
          MaxChars,     \* bound: characters that arrive on the line
          MaxModem      \* bound: changes of the modem signals

ASSUME UartAssumption ==
    /\ TEST_PORT \in 0 .. 3 /\ CLK_HZ \in Nat \ {0}
    /\ RxDepth \in Nat \ {0, 1} /\ TxDepth \in Nat \ {0, 1}
    /\ ItLines \in Nat \ {0} /\ OwnFrame \in Nat
    /\ MaxChars \in Nat /\ MaxModem \in Nat

UART_IRQ_NR == 51 + TEST_PORT
Test == {"ECHO_TEST", "INTR_TEST"}

\* Causes of an interrupt, the most urgent first.
Priority == <<"RLSI", "RDI", "THRI", "MSI">>
Cause == {Priority[i] : i \in 1 .. 4}

\* LCR is the set of its bits that are 1: 0 and 1 are the word length, and
STOP == 2
PARITY == 3
EPAR == 4
SPAR == 5
DLAB == 7

VARIABLES
    test,               \* TEST_TYPE, a choice of the build
    pc, handler,        \* statement of the task, and of the FIQ handler
    frame,              \* redistributor frame in the search of start.S
    gic,                \* registers of the interrupt controller
    fiq,                \* the signal from the GIC to the core
    apb,                \* clock enable bits: the two registers of the APB block
    lcr, dl, ier, fcr, mcr,     \* registers of the UART
    rx, tx,             \* characters received, and waiting to be sent
    err, thri, msi,     \* latched: line error, transmitter empty, modem change
    val, iir,           \* locals of echo_test and of irq_return
    arrived, overrun,   \* history: characters on the line, those lost in RX
    sent,               \* history: characters sent by echo_test
    taken, reported,    \* history: characters taken and digits 4 of irq_return
    modem               \* changes of the modem signals so far

boot    == <<frame, gic>>
setup   == <<apb, lcr, dl>>
control == <<ier, fcr, mcr>>
latches == <<err, thri, msi>>
data    == <<rx, tx>>
history == <<arrived, overrun, sent, taken, reported, modem>>
vars    == <<test, pc, handler, boot, fiq, setup, control, data, latches,
             val, iir, history>>

BootLabel  == {"gicd", "find", "wake", "children", "cpu_if", "unmask"}
SetupLabel == {"clock", "dlab", "dll", "dlh", "no_dlab", "line"}
EchoLabel  == {"lsr", "echo_rx", "echo_tx"}
IntrLabel  == {"request_irq", "ier", "fcr", "mcr", "stop"}
HandlerLabel == {"none", "iir", "rx", "tx"}

Init ==
    /\ test \in Test
    /\ pc = "gicd" /\ handler = "none" /\ frame = 0
    /\ gic = [grp1 |-> {}, asleep |-> {"processor", "children"}, cpu_if |-> FALSE,
              masked |-> TRUE, enabled |-> {}, on |-> FALSE]
    /\ fiq = FALSE
    /\ apb = [base |-> {}, next |-> {}]
    /\ lcr = {} /\ dl = 0 /\ ier = {} /\ fcr = FALSE /\ mcr = FALSE
    /\ rx = <<>> /\ tx = <<>> /\ err = FALSE /\ thri = FALSE /\ msi = FALSE
    /\ val = 0 /\ iir = "NO_INT"
    /\ arrived = 0 /\ overrun = {} /\ sent = <<>> /\ taken = 0 /\ reported = 0
    /\ modem = 0

----------------------------------------------------------------------------
(* The UART and the interrupt controller. *)

Ready == /\ TEST_PORT \in apb.base /\ TEST_PORT \in apb.next
         /\ dl # 0 /\ DLAB \notin lcr

RxRoom == IF fcr THEN RxDepth ELSE 1
TxRoom == IF fcr THEN TxDepth ELSE 2    \* holding and shift register

\* UART_IIR: the first of the causes that are pending and enabled.
Pending == ier \cap ( (IF err THEN {"RLSI"} ELSE {})
                 \cup (IF rx # <<>> THEN {"RDI"} ELSE {})
                 \cup (IF thri THEN {"THRI"} ELSE {})
                 \cup (IF msi THEN {"MSI"} ELSE {}) )

IIR == IF Pending = {} THEN "NO_INT"
       ELSE Priority[CHOOSE i \in 1 .. 4 : /\ Priority[i] \in Pending
                                           /\ \A j \in 1 .. i - 1 : Priority[j] \notin Pending]

\* Every stage of the GIC that start.S sets up lets the interrupt through.
Deliverable ==
    /\ gic.on /\ gic.asleep = {} /\ gic.cpu_if
    /\ UART_IRQ_NR \in gic.enabled
    /\ UART_IRQ_NR \div 32 \in gic.grp1

\* The GIC follows the level of the UART, later: the core may see an interrupt
\* whose cause is gone.
Forward ==
    /\ fiq # (Deliverable /\ IIR # "NO_INT")
    /\ fiq' = ~fiq
    /\ UNCHANGED <<test, pc, handler, boot, setup, control, data, latches,
                   val, iir, history>>

\* The redistributor wakes up.
Wake ==
    /\ "processor" \notin gic.asleep /\ "children" \in gic.asleep
    /\ gic' = [gic EXCEPT !.asleep = {}]
    /\ UNCHANGED <<test, pc, handler, frame, fiq, setup, control, data, latches,
                   val, iir, history>>

\* A character arrives.  Without FIFO it replaces one that was not read; a
\* full FIFO stays as it is.  Both are an overrun.
Received(bad) ==
    LET new  == [n |-> arrived + 1, bad |-> bad]
        full == Len(rx) = RxRoom
    IN  /\ arrived < MaxChars
        /\ arrived' = arrived + 1
        /\ rx' = IF full THEN (IF fcr THEN rx ELSE <<new>>) ELSE Append(rx, new)
        /\ overrun' = IF ~full THEN overrun
                      ELSE overrun \cup {IF fcr THEN new.n ELSE rx[1].n}
        /\ err' = (err \/ full \/ (bad /\ rx = <<>>))

\* One character time: both directions of the line have the same rate, so at
\* most one character leaves while one arrives.
CharTime ==
    /\ Ready
    /\ \/ \E bad \in BOOLEAN : Received(bad)
       \/ tx # <<>> /\ UNCHANGED <<arrived, rx, overrun, err>>
    /\ tx' = IF tx = <<>> THEN tx ELSE Tail(tx)
    /\ sent' = IF tx # <<>> /\ test = "ECHO_TEST" THEN Append(sent, tx[1]) ELSE sent
    /\ thri' = (thri \/ Len(tx) = 1)
    /\ UNCHANGED <<test, pc, handler, boot, fiq, setup, control, msi,
                   val, iir, taken, reported, modem>>

\* The line is quiet until the UART has its parameters.
LineActive == pc \in EchoLabel \cup IntrLabel /\ CharTime

\* CTS, DSR, RI or DCD changes.
ModemChange ==
    /\ modem < MaxModem /\ modem' = modem + 1
    /\ msi' = TRUE
    /\ UNCHANGED <<test, pc, handler, boot, fiq, setup, control, data, err, thri,
                   val, iir, arrived, overrun, sent, taken, reported>>

\* A read of RX: the next character comes to the top with its error.
TakeRx ==
    /\ rx' = IF rx = <<>> THEN rx ELSE Tail(rx)
    /\ err' = (err \/ (Len(rx) > 1 /\ rx[2].bad))

\* Mutant: a transmitter that takes everything.
PutTx_Mutant(c) == tx' = Append(tx, c)

\* A write to TX: a full FIFO ignores it, a full register is overwritten.
PutTx(c) == tx' = IF Len(tx) < TxRoom THEN Append(tx, c)
                  ELSE IF fcr THEN tx ELSE <<tx[1], c>>

----------------------------------------------------------------------------
(* start.S *)

Task(from, to) == pc = from /\ handler = "none" /\ pc' = to /\ UNCHANGED <<test, handler>>

Start(from, to) ==
    /\ Task(from, to)
    /\ UNCHANGED <<fiq, setup, control, data, latches, val, iir, history>>

\* Mutant: the loop over the words stops one short.
gic_init_secure_Mutant ==
    /\ Start("gicd", "find")
    /\ gic' = [gic EXCEPT !.on = TRUE, !.grp1 = 1 .. ItLines - 1]
    /\ UNCHANGED frame

\* Interrupts 32 and up are in the words from 1; all of them become group 1.
gic_init_secure ==
    /\ Start("gicd", "find")
    /\ gic' = [gic EXCEPT !.on = TRUE, !.grp1 = 1 .. ItLines]
    /\ UNCHANGED frame

\* The loop over the frames of the redistributors.
FindFrame ==
    /\ Start("find", IF frame = OwnFrame THEN "wake" ELSE "find")
    /\ frame' = IF frame = OwnFrame THEN frame ELSE frame + 1
    /\ UNCHANGED gic

ClearSleep ==
    /\ Start("wake", "children")
    /\ gic' = [gic EXCEPT !.asleep = @ \ {"processor"}]
    /\ UNCHANGED frame

WaitChildren ==
    /\ Start("children", IF "children" \in gic.asleep THEN "children" ELSE "cpu_if")
    /\ UNCHANGED boot

\* Groups of the private interrupts and the registers of the CPU interface.
InitCpuInterface ==
    /\ Start("cpu_if", "unmask")
    /\ gic' = [gic EXCEPT !.cpu_if = TRUE, !.grp1 = @ \cup {0}, !.enabled = {0}]
    /\ UNCHANGED frame

\* msr daifclr; then main and uart_init, which only fill the fields of up.
Unmask ==
    /\ Start("unmask", "clock")
    /\ gic' = [gic EXCEPT !.masked = FALSE]
    /\ UNCHANGED frame

\* One word enable bit, set by a write of 1; the route is core 0.
request_irq ==
    /\ Start("request_irq", "ier")
    /\ gic' = [gic EXCEPT !.enabled = @ \cup {UART_IRQ_NR}]
    /\ UNCHANGED frame

----------------------------------------------------------------------------
(* main.c *)

Program(from, to) == Task(from, to) /\ UNCHANGED <<boot, fiq, modem, arrived, overrun,
                                                   sent, taken, reported>>

Configure(from, to) ==
    Program(from, to) /\ UNCHANGED <<control, data, latches, val, iir>>

\* Two registers, each read, changed in one bit and written.
ckg_enable ==
    /\ Configure("clock", "dlab")
    /\ apb' = [base |-> apb.base \cup {TEST_PORT}, next |-> apb.next \cup {TEST_PORT}]
    /\ UNCHANGED <<lcr, dl>>

\* The divisor set_baudrate computes: clk/baud rounded down, then the nearest
\* multiple of 16.
Divisor(baud) == (CLK_HZ \div baud + 8) \div 16
MaxDivisor == 256 * 256 - 1     \* what DLL and DLH hold

SetDlab ==
    /\ Configure("dlab", "dll")
    /\ lcr' = lcr \cup {DLAB}
    /\ UNCHANGED <<apb, dl>>

WriteDll ==
    /\ Configure("dll", "dlh")
    /\ dl' = IF DLAB \in lcr THEN 256 * (dl \div 256) + (Divisor(115200) % 256) ELSE dl
    /\ UNCHANGED <<apb, lcr>>

WriteDlh ==
    /\ Configure("dlh", "no_dlab")
    /\ dl' = IF DLAB \in lcr THEN 256 * ((Divisor(115200) \div 256) % 256) + (dl % 256) ELSE dl
    /\ UNCHANGED <<apb, lcr>>

ClearDlab ==
    /\ Configure("no_dlab", "line")
    /\ lcr' = lcr \ {DLAB}
    /\ UNCHANGED <<apb, dl>>

\* The bits set_line_ctrl computes; other arguments than these set none.
LineBits(word, stop, par) ==
    (CASE word = 6 -> {0} [] word = 7 -> {1} [] word = 8 -> {0, 1} [] OTHER -> {})
    \cup (IF stop = 2 THEN {STOP} ELSE {})
    \cup (CASE par = "ODD"   -> {PARITY}
             [] par = "EVEN"  -> {PARITY, EPAR}
             [] par = "MARK"  -> {PARITY, SPAR}
             [] par = "SPACE" -> {PARITY, EPAR, SPAR}
             [] OTHER         -> {})

\* The switch of main decides what follows.
set_line_ctrl ==
    /\ Configure("line", IF test = "ECHO_TEST" THEN "lsr" ELSE "request_irq")
    /\ lcr' = (lcr \ (0 .. 5)) \cup LineBits(8, 1, "NONE")
    /\ UNCHANGED <<apb, dl>>

\* Mutant: a character with an error is read and dropped.
PollLsr_Mutant ==
    /\ Program("lsr", IF rx # <<>> /\ ~err THEN "echo_rx" ELSE "lsr")
    /\ IF err THEN TakeRx ELSE UNCHANGED <<rx, err>>
    /\ UNCHANGED <<setup, control, tx, thri, msi, val, iir>>

\* echo_test: a read of LSR clears the latched error.  A character with an
\* error is polled again, then without it.
PollLsr ==
    /\ Program("lsr", IF rx # <<>> /\ ~err THEN "echo_rx" ELSE "lsr")
    /\ err' = FALSE
    /\ UNCHANGED <<setup, control, data, thri, msi, val, iir>>

EchoRx ==
    /\ Program("echo_rx", "echo_tx")
    /\ TakeRx
    /\ val' = IF rx = <<>> THEN 0 ELSE rx[1].n
    /\ UNCHANGED <<setup, control, tx, thri, msi, iir>>

EchoTx ==
    /\ Program("echo_tx", "lsr")
    /\ PutTx(val) /\ val' = 0
    /\ UNCHANGED <<setup, control, rx, latches, iir>>

\* intr_test.  Enabling THRI with an empty transmitter raises it.
WriteIer ==
    /\ Program("ier", "fcr")
    /\ ier' = Cause
    /\ thri' = (thri \/ tx = <<>>)
    /\ UNCHANGED <<setup, fcr, mcr, data, err, msi, val, iir>>

\* FIFOs on, and both of them cleared.
WriteFcr ==
    /\ Program("fcr", "mcr")
    /\ fcr' = TRUE /\ rx' = <<>> /\ tx' = <<>>
    /\ thri' = (thri \/ tx # <<>>)
    /\ UNCHANGED <<setup, ier, mcr, err, msi, val, iir>>

WriteMcr ==
    /\ Program("mcr", "stop")
    /\ mcr' = TRUE
    /\ UNCHANGED <<setup, ier, fcr, data, latches, val, iir>>

----------------------------------------------------------------------------
(* _do_fiq of exceptions.S and irq_return. *)

Handler(from, to) ==
    /\ handler = from /\ handler' = to
    /\ UNCHANGED <<test, pc, boot, setup, control, arrived, overrun, sent, modem>>

\* The core takes the interrupt, acknowledges it and ends it at once; what it
\* acknowledged may be 1023, and irq_return does not look.
TakeFiq ==
    /\ fiq /\ ~gic.masked
    /\ Handler("none", "iir")
    /\ fiq' = FALSE
    /\ UNCHANGED <<data, latches, val, iir, taken, reported>>

\* A read of IIR that says THRI clears it.
ReadIir ==
    /\ Handler("iir", "rx")
    /\ iir' = IIR
    /\ thri' = (thri /\ IIR # "THRI")
    /\ UNCHANGED <<fiq, data, err, msi, val, taken, reported>>

\* Mutant: the character is left in the receiver.
ReadRx_Mutant ==
    /\ Handler("rx", "tx")
    /\ UNCHANGED <<fiq, data, latches, val, iir, taken, reported>>

ReadRx ==
    /\ Handler("rx", "tx")
    /\ TakeRx
    /\ taken' = IF rx = <<>> THEN taken ELSE taken + 1
    /\ UNCHANGED <<fiq, tx, thri, msi, val, iir, reported>>

\* 0x32 is THRI; anything else is sent.  The history counts up to one more
\* than can be right.
Report ==
    /\ Handler("tx", "none")
    /\ IF iir = "THRI" THEN UNCHANGED tx ELSE PutTx(0)
    /\ reported' = IF iir = "RDI" /\ reported <= MaxChars THEN reported + 1 ELSE reported
    /\ UNCHANGED <<fiq, rx, latches, val, iir, taken>>

----------------------------------------------------------------------------

BootStep  == gic_init_secure \/ FindFrame \/ ClearSleep \/ WaitChildren
             \/ InitCpuInterface \/ Unmask
SetupStep == ckg_enable \/ SetDlab \/ WriteDll \/ WriteDlh \/ ClearDlab \/ set_line_ctrl
EchoStep  == PollLsr \/ EchoRx \/ EchoTx
IntrStep  == request_irq \/ WriteIer \/ WriteFcr \/ WriteMcr
TaskStep  == BootStep \/ SetupStep \/ EchoStep \/ IntrStep
\* Mutant: the character is read before the cause.
FiqStep_Mutant ==
    \/ TakeFiq \/ Report
    \/ /\ Handler("iir", "rx") /\ TakeRx
       /\ taken' = IF rx = <<>> THEN taken ELSE taken + 1
       /\ UNCHANGED <<fiq, tx, thri, msi, val, iir, reported>>
    \/ /\ Handler("rx", "tx") /\ iir' = IIR /\ thri' = (thri /\ IIR # "THRI")
       /\ UNCHANGED <<fiq, data, err, msi, val, taken, reported>>

FiqStep   == TakeFiq \/ ReadIir \/ ReadRx \/ Report

Next == TaskStep \/ FiqStep \/ Forward \/ Wake \/ LineActive \/ ModemChange

\* The core executes its task and takes a pending interrupt; the GIC and the
\* redistributor answer.  The line and the modem need not move.
Fairness == WF_vars(TaskStep) /\ WF_vars(FiqStep) /\ WF_vars(Forward) /\ WF_vars(Wake)

Spec == Init /\ [][Next]_vars /\ Fairness

----------------------------------------------------------------------------
(* Properties *)

TypeOK ==
    /\ test \in Test /\ pc \in BootLabel \cup SetupLabel \cup EchoLabel \cup IntrLabel
    /\ handler \in HandlerLabel /\ frame \in 0 .. OwnFrame
    /\ gic.grp1 \subseteq 0 .. ItLines /\ gic.enabled \subseteq {0, UART_IRQ_NR}
    /\ gic.asleep \subseteq {"processor", "children"}
    /\ {gic.cpu_if, gic.masked, gic.on, fiq, fcr, mcr, err, thri, msi} \subseteq BOOLEAN
    /\ apb.base \subseteq 0 .. 3 /\ apb.next \subseteq 0 .. 3
    /\ lcr \subseteq 0 .. 7 /\ dl \in 0 .. MaxDivisor /\ ier \subseteq Cause
    /\ rx \in Seq([n : 1 .. MaxChars, bad : BOOLEAN]) /\ Len(rx) <= RxRoom
    /\ tx \in Seq(0 .. MaxChars) /\ Len(tx) <= TxRoom
    /\ val \in 0 .. MaxChars /\ iir \in Cause \cup {"NO_INT"}
    /\ arrived \in 0 .. MaxChars /\ overrun \subseteq 1 .. MaxChars
    /\ sent \in Seq(1 .. MaxChars) /\ taken \in 0 .. MaxChars /\ reported \in 0 .. MaxChars + 1
    /\ modem \in 0 .. MaxModem

\* echo_test polls the receiver and never the transmitter.  Still what is
\* sent, waits to be sent, is in hand or waits to be read is what arrived
\* except the overruns, in order and each once: no character is written over
\* another in TX, and a character with an error is sent as well.
Numbers(s) == [i \in DOMAIN s |-> s[i].n]
InHand == IF val = 0 THEN <<>> ELSE <<val>>
OnTheWay == sent \o tx \o InHand \o Numbers(rx)
Complete(s, n, lost) ==
    /\ {s[k] : k \in DOMAIN s} = (1 .. n) \ lost
    /\ \A j, k \in DOMAIN s : j < k => s[j] < s[k]
EchoIsComplete == test = "ECHO_TEST" => Complete(OnTheWay, arrived, overrun)

\* irq_return reads the cause first and the character after it.  A digit 4
\* ("receiver data") is therefore always the digit of one character; a
\* character that comes between the two reads has none.
ReportIsEarned == reported <= taken

\* intr_test comes to its last loop and the handler to rest.  Two things may
\* keep it busy for good.  A line error or a modem change stays pending, since
\* irq_return reads neither LSR nor MSR.  And as exceptions.S ends the interrupt
\* before irq_return clears its cause, the core may take it once more, find no
\* cause and send a digit 1, whose end is the next cause.
StatusPending == "RLSI" \in Pending \/ "MSI" \in Pending
NothingFound == handler = "rx" /\ iir = "NO_INT"
Settles ==
    test = "INTR_TEST" => \/ <>[](pc = "stop" /\ handler = "none")
                          \/ <>[]StatusPending
                          \/ []<>NothingFound

\* No character stays in the receiver, in either test: the poll comes back to
\* one it skipped, and an interrupt that is set up completely takes the rest.
ReceiverIsServed == rx # <<>> ~> rx = <<>>
=============================================================================
