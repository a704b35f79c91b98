----------------------------- MODULE SpiRouting -----------------------------
(***************************************************************************)
(* fy13gic_c: the hand-shake over cpu_status and the routing of shared     *)
(* peripheral interrupts.  Core 0 brings the other cores online, then a    *)
(* timer interrupt is handed from core to core: the callback that serves   *)
(* it routes it to the next core and starts the timer again.  A served     *)
(* core stays ALIVE, inside its handler, until core 0 has seen them all.   *)
(* Then core 0 takes two GPIO interrupts and sends SGI0 to every core.     *)
(*                                                                         *)
(* One step is one access to cpu_status, to the callback count, to a       *)
(* device or to the GIC, or one end of an mprintf.  The cores run with the *)
(* MMU off, so memory is strongly ordered.                                 *)
(***************************************************************************)
EXTENDS Naturals, FiniteSets

CONSTANTS CPU_NR,       \* cores; the sources also call it NR_CPUS
          SlowTimer,    \* the timer does not expire within two instructions
          PromptGpio    \* GPIO interrupts are taken before the next mprintf

ASSUME RoutingAssumption ==
    CPU_NR \in Nat \ {0, 1} /\ SlowTimer \in BOOLEAN /\ PromptGpio \in BOOLEAN

CPU == 0 .. CPU_NR - 1
Gpio == {"gpio4", "gpio17"}
SPI == Gpio \cup {"timer"}
Status == {"OFFLINE", "ONLINE", "IDLE", "ALIVE"}

VARIABLES
    pc,             \* the statement of each core's task
    handler,        \* the statement of each core's interrupt handler
    irqnr,          \* the interrupt do_irqs was called with, per core
    console,        \* holder of the mprintf lock, <<>> when it is free
    cpu_status,     \* the shared array
    interrupt_callback_count,
    index,          \* i of check_all_cpu_status
    irq_handler,    \* interrupts registered in the table of irq.c
    enabled, route, \* GICD_ISENABLER and GICD_IROUTER
    on, line,       \* devices started, and those asserting their interrupt
    released, armed,\* 0x2400008 written; cores able to take interrupts
    sgi,            \* cores where SGI0 is pending
    served, woken   \* history: timer callbacks begun, and SGIs handled

task    == <<pc, index>>
irq     == <<handler, irqnr>>
shared  == <<cpu_status, interrupt_callback_count>>
gic     == <<enabled, route, irq_handler>>
devices == <<on, line>>
boot    == <<released, armed>>
history == <<served, woken>>
vars    == <<task, irq, console, shared, gic, devices, boot, sgi, history>>

\* The printing statements, with the statement that follows each of them.
Said == [hello |-> "set_online", say_online |-> "say_start",
         say_start |-> "req_timer", say_end |-> "say_gpio",
         say_gpio |-> "req_gpio4", say_gpio_end |-> "say_sgi",
         say_sgi |-> "send", cpu_online |-> "mark_online"]

HandlerSaid == [entry |-> "iar", number |-> "call", ipi |-> "iar",
                t_say |-> "t_next", g_say |-> "g_off"]

MainLabel == (DOMAIN Said \ {"cpu_online"}) \cup
    {"set_online", "release", "scan_online", "set_alive", "req_timer", "unmask_timer",
     "aff_timer", "start_timer", "scan_alive", "set_idle", "req_gpio4", "unmask_gpio4",
     "aff_gpio4", "start_gpio4", "req_gpio17", "unmask_gpio17", "aff_gpio17",
     "start_gpio17", "send", "stop"}
SecondaryLabel == {"off", "cpu_online", "mark_online", "wait_alive", "idling"}
HandlerLabel == DOMAIN HandlerSaid \cup
    {"none", "iar", "call", "t_stop", "t_alive", "t_next", "t_restart", "t_check",
     "t_wait", "g_off"}

Init ==
    /\ pc = [c \in CPU |-> IF c = 0 THEN "hello" ELSE "off"]
    /\ handler = [c \in CPU |-> "none"]
    /\ irqnr = [c \in CPU |-> "none"]
    /\ console = <<>> /\ index = 0
    /\ cpu_status = [c \in CPU |-> "OFFLINE"]
    /\ interrupt_callback_count = 0
    /\ irq_handler = {} /\ enabled = {}
    /\ route = [i \in SPI |-> 0]
    /\ on = {} /\ line = {} /\ sgi = {}
    /\ released = FALSE /\ armed = {0}      \* start.S 361-369, before main
    /\ served = [c \in CPU |-> 0] /\ woken = {}

----------------------------------------------------------------------------
(* The tasks: main on core 0, secondary_entry on the others. *)

Task(c, from, to) ==
    /\ pc[c] = from
    /\ handler[c] = "none"
    /\ pc' = [pc EXCEPT ![c] = to]
    /\ UNCHANGED <<irq, history>>

\* mprintf from its lock loop to its unlock.  PromptGpio says that core 0
\* has served the GPIO interrupts when main comes to its next line.
SayBegin(c) ==
    /\ pc[c] \in DOMAIN Said /\ handler[c] = "none"
    /\ console = <<>> /\ console' = <<c, "task">>
    /\ PromptGpio /\ pc[c] = "say_gpio_end" => on \cap Gpio = {}
    /\ UNCHANGED <<task, irq, shared, gic, devices, boot, sgi, history>>

SayEnd(c) ==
    /\ console = <<c, "task">>
    /\ Task(c, pc[c], Said[pc[c]])
    /\ console' = <<>>
    /\ UNCHANGED <<index, shared, gic, devices, boot, sgi>>

SetStatus(c, from, status, to) ==
    /\ Task(c, from, to)
    /\ cpu_status' = [cpu_status EXCEPT ![c] = status]
    /\ UNCHANGED <<index, interrupt_callback_count, console, gic, devices, boot, sgi>>

SetOnline == SetStatus(0, "set_online", "ONLINE", "release")
SetAlive == SetStatus(0, "set_alive", "ALIVE", "say_online")
SetIdle == SetStatus(0, "set_idle", "IDLE", "say_end")

release_secondary_cpu ==
    /\ Task(0, "release", "scan_online")
    /\ released' = TRUE
    /\ UNCHANGED <<index, console, shared, gic, devices, armed, sgi>>

\* while(check_all_cpu_status(cpu_s)): one entry of the array at a time,
\* starting again from 0 after the first that differs.
Scan(from, status, to) ==
    LET match == cpu_status[index] = status
        last  == index = CPU_NR - 1
    IN  /\ Task(0, from, IF match /\ last THEN to ELSE from)
        /\ index' = IF match /\ ~last THEN index + 1 ELSE 0
        /\ UNCHANGED <<console, shared, gic, devices, boot, sgi>>

ScanOnline == Scan("scan_online", "ONLINE", "set_alive")
\* Mutant: the loop stops one short.
ScanAlive_Mutant ==
    LET match == cpu_status[index] = "ALIVE"
        last  == index = CPU_NR - 2
    IN  /\ Task(0, "scan_alive", IF match /\ last THEN "set_idle" ELSE "scan_alive")
        /\ index' = IF match /\ ~last THEN index + 1 ELSE 0
        /\ UNCHANGED <<console, shared, gic, devices, boot, sgi>>

ScanAlive == Scan("scan_alive", "ALIVE", "set_idle")

\* request_irq enters the handler, unless the interrupt has one; then it
\* routes the interrupt to core 0, makes it level-sensitive and enables it.
RegisterHandler(i, from, to, refused) ==
    /\ Task(0, from, IF i \in irq_handler THEN refused ELSE to)
    /\ irq_handler' = irq_handler \cup {i}
    /\ UNCHANGED <<index, console, shared, enabled, route, devices, boot, sgi>>

UnmaskIrq(i, from, to) ==
    /\ Task(0, from, to)
    /\ route' = [route EXCEPT ![i] = 0]
    /\ enabled' = enabled \cup {i}
    /\ UNCHANGED <<index, console, shared, irq_handler, devices, boot, sgi>>

\* gic_set_affinity leaves an enabled interrupt enabled.
SetAffinity(i, from, to) ==
    /\ Task(0, from, to)
    /\ route' = [route EXCEPT ![i] = 0]
    /\ UNCHANGED <<index, console, shared, enabled, irq_handler, devices, boot, sgi>>

StartDevice(i, from, to) ==
    /\ Task(0, from, to)
    /\ on' = on \cup {i}
    /\ UNCHANGED <<index, console, shared, gic, line, boot, sgi>>

\* Mutant: the timer is started before its interrupt is requested.
spi_route_to_multcore_test_Mutant ==
    \/ StartDevice("timer", "req_timer", "unmask_timer")
    \/ UnmaskIrq("timer", "unmask_timer", "aff_timer")
    \/ RegisterHandler("timer", "aff_timer", "scan_alive", "scan_alive")

spi_route_to_multcore_test ==
    \/ RegisterHandler("timer", "req_timer", "unmask_timer", "aff_timer")
    \/ UnmaskIrq("timer", "unmask_timer", "aff_timer")
    \/ SetAffinity("timer", "aff_timer", "start_timer")
    \/ StartDevice("timer", "start_timer", "scan_alive")

GpioTest ==
    \/ RegisterHandler("gpio4", "req_gpio4", "unmask_gpio4", "aff_gpio4")
    \/ UnmaskIrq("gpio4", "unmask_gpio4", "aff_gpio4")
    \/ SetAffinity("gpio4", "aff_gpio4", "start_gpio4")
    \/ StartDevice("gpio4", "start_gpio4", "req_gpio17")
    \/ RegisterHandler("gpio17", "req_gpio17", "unmask_gpio17", "aff_gpio17")
    \/ UnmaskIrq("gpio17", "unmask_gpio17", "aff_gpio17")
    \/ SetAffinity("gpio17", "aff_gpio17", "start_gpio17")
    \/ StartDevice("gpio17", "start_gpio17", "say_gpio_end")

\* write_icc_sgi1r_el1(0xff): the target list holds every core.
SendSgi ==
    /\ Task(0, "send", "stop")
    /\ sgi' = CPU
    /\ UNCHANGED <<index, console, shared, gic, devices, boot>>

main ==
    \/ SayBegin(0) \/ SayEnd(0)
    \/ SetOnline \/ release_secondary_cpu \/ ScanOnline \/ SetAlive
    \/ spi_route_to_multcore_test
    \/ ScanAlive \/ SetIdle
    \/ GpioTest \/ SendSgi

\* _secondary_start: the redistributor and the CPU interface come first.
SecondaryStart(c) ==
    /\ released
    /\ Task(c, "off", "cpu_online")
    /\ armed' = armed \cup {c}
    /\ UNCHANGED <<index, console, shared, gic, devices, released, sgi>>

MarkOnline(c) == SetStatus(c, "mark_online", "ONLINE", "wait_alive")

WaitAlive(c) ==
    /\ cpu_status[0] = "ALIVE"
    /\ Task(c, "wait_alive", "idling")
    /\ UNCHANGED <<index, console, shared, gic, devices, boot, sgi>>

IdleLoop(c) == SetStatus(c, "idling", "IDLE", "idling")

secondary_entry(c) ==
    \/ SayBegin(c) \/ SayEnd(c)
    \/ SecondaryStart(c) \/ MarkOnline(c) \/ WaitAlive(c) \/ IdleLoop(c)

----------------------------------------------------------------------------
(* The devices and the interrupt handler. *)

\* A started device asserts its level interrupt after some time.
Fire(i) ==
    /\ i \in on \ line
    /\ SlowTimer /\ i = "timer" => \A c \in CPU : handler[c] # "t_check"
    /\ line' = line \cup {i}
    /\ UNCHANGED <<task, irq, console, shared, gic, on, boot, sgi, history>>

Deliverable(c) ==
    IF c \in armed
    THEN {i \in line \cap enabled : route[i] = c} \cup {s \in {"sgi"} : c \in sgi}
    ELSE {}

Handler(c, from, to) ==
    /\ handler[c] = from
    /\ handler' = [handler EXCEPT ![c] = to]
    /\ UNCHANGED <<task, boot>>

TakeInterrupt(c) ==
    /\ Deliverable(c) # {}
    /\ Handler(c, "none", "entry")
    /\ UNCHANGED <<irqnr, console, shared, gic, devices, sgi, history>>

HandlerSayBegin(c) ==
    /\ handler[c] \in DOMAIN HandlerSaid
    /\ console = <<>> /\ console' = <<c, "handler">>
    /\ UNCHANGED <<task, irq, shared, gic, devices, boot, sgi, history>>

HandlerSayEnd(c) ==
    /\ console = <<c, "handler">>
    /\ Handler(c, handler[c], HandlerSaid[handler[c]])
    /\ console' = <<>>
    /\ woken' = IF handler[c] = "ipi" THEN woken \cup {c} ELSE woken
    /\ UNCHANGED <<irqnr, shared, gic, devices, sgi, served>>

\* gic_handle_irq: acknowledge, end of interrupt, dispatch; loop until the
\* acknowledge returns the spurious number 1023.  An SPI stays pending after
\* its EOI while its line is asserted.
ReadIar(c) ==
    \/ \E i \in Deliverable(c) \cap SPI :
          /\ Handler(c, "iar", "number")
          /\ irqnr' = [irqnr EXCEPT ![c] = i]
          /\ UNCHANGED <<console, shared, gic, devices, sgi, history>>
    \/ /\ "sgi" \in Deliverable(c)
       /\ Handler(c, "iar", "ipi")
       /\ sgi' = sgi \ {c}
       /\ UNCHANGED <<irqnr, console, shared, gic, devices, history>>
    \/ /\ Deliverable(c) = {}
       /\ Handler(c, "iar", "none")
       /\ UNCHANGED <<irqnr, console, shared, gic, devices, sgi, history>>

\* do_irqs: an interrupt without an entry in the table is ignored.
do_irqs(c) ==
    /\ Handler(c, "call", IF irqnr[c] \notin irq_handler THEN "iar"
                          ELSE IF irqnr[c] = "timer" THEN "t_stop" ELSE "g_say")
    /\ UNCHANGED <<irqnr, console, shared, gic, devices, sgi, history>>

\* timer_callback
TimerStop(c) ==
    /\ Handler(c, "t_stop", "t_alive")
    /\ on' = on \ {"timer"} /\ line' = line \ {"timer"}
    /\ served' = [served EXCEPT ![c] = @ + 1]
    /\ UNCHANGED <<irqnr, console, shared, gic, sgi, woken>>

TimerAlive(c) ==
    /\ Handler(c, "t_alive", "t_say")
    /\ cpu_status' = IF interrupt_callback_count = 0 THEN cpu_status
                     ELSE [cpu_status EXCEPT ![interrupt_callback_count] = "ALIVE"]
    /\ UNCHANGED <<irqnr, interrupt_callback_count, console, gic, devices, sgi, history>>

\* Mutants: the range check of gic_set_affinity is dropped; count++ for ++count.
TimerNext_Unchecked(c) ==
    /\ Handler(c, "t_next", "t_restart")
    /\ interrupt_callback_count' = interrupt_callback_count + 1
    /\ route' = [route EXCEPT !["timer"] = interrupt_callback_count']
    /\ UNCHANGED <<irqnr, cpu_status, console, enabled, irq_handler, devices, sgi, history>>

TimerNext_PostIncrement(c) ==
    /\ Handler(c, "t_next", "t_restart")
    /\ interrupt_callback_count' = interrupt_callback_count + 1
    /\ route' = [route EXCEPT !["timer"] = interrupt_callback_count]
    /\ UNCHANGED <<irqnr, cpu_status, console, enabled, irq_handler, devices, sgi, history>>

\* gic_set_affinity refuses a core that does not exist.
TimerNext(c) ==
    /\ Handler(c, "t_next", "t_restart")
    /\ interrupt_callback_count' = interrupt_callback_count + 1
    /\ route' = IF interrupt_callback_count' < CPU_NR
                THEN [route EXCEPT !["timer"] = interrupt_callback_count'] ELSE route
    /\ UNCHANGED <<irqnr, cpu_status, console, enabled, irq_handler, devices, sgi, history>>

\* Mutant: <= for <.
TimerRestart_Mutant(c) ==
    /\ Handler(c, "t_restart", "t_check")
    /\ on' = IF interrupt_callback_count <= CPU_NR THEN on \cup {"timer"} ELSE on
    /\ UNCHANGED <<irqnr, console, shared, gic, line, sgi, history>>

TimerRestart(c) ==
    /\ Handler(c, "t_restart", "t_check")
    /\ on' = IF interrupt_callback_count < CPU_NR THEN on \cup {"timer"} ELSE on
    /\ UNCHANGED <<irqnr, console, shared, gic, line, sgi, history>>

TimerCheck(c) ==
    /\ Handler(c, "t_check", IF interrupt_callback_count # 1 THEN "t_wait" ELSE "iar")
    /\ UNCHANGED <<irqnr, console, shared, gic, devices, sgi, history>>

TimerWait(c) ==
    /\ cpu_status[0] = "IDLE"
    /\ Handler(c, "t_wait", "iar")
    /\ UNCHANGED <<irqnr, console, shared, gic, devices, sgi, history>>

timer_callback(c) ==
    TimerStop(c) \/ TimerAlive(c) \/ TimerNext(c) \/ TimerRestart(c) \/ TimerCheck(c)
    \/ TimerWait(c)

\* Mutant: the callback leaves the device on.
GpioOff_Mutant(c) ==
    /\ Handler(c, "g_off", "iar")
    /\ UNCHANGED <<irqnr, console, shared, gic, devices, sgi, history>>

\* gpio_callback, after its message: the device is switched off.
GpioOff(c) ==
    /\ Handler(c, "g_off", "iar")
    /\ on' = on \ {irqnr[c]} /\ line' = line \ {irqnr[c]}
    /\ UNCHANGED <<irqnr, console, shared, gic, sgi, history>>

Interrupt(c) ==
    \/ TakeInterrupt(c) \/ HandlerSayBegin(c) \/ HandlerSayEnd(c)
    \/ ReadIar(c) \/ do_irqs(c) \/ timer_callback(c) \/ GpioOff(c)

----------------------------------------------------------------------------

Next ==
    \/ main
    \/ \E c \in CPU \ {0} : secondary_entry(c)
    \/ \E c \in CPU : Interrupt(c)
    \/ \E i \in SPI : Fire(i)

Spec == Init /\ [][Next]_vars

\* Every core keeps executing, and a started device raises its interrupt.
Fairness ==
    /\ WF_vars(main)
    /\ \A c \in CPU \ {0} : WF_vars(secondary_entry(c))
    /\ \A c \in CPU : WF_vars(Interrupt(c))
    /\ \A i \in SPI : WF_vars(Fire(i))

FairSpec == Spec /\ Fairness

----------------------------------------------------------------------------

CallbackHead == {"t_stop", "t_alive", "t_say", "t_next"}
CallbackTail == {"t_restart", "t_check"}

\* Type invariant.
TypeOK ==
    /\ pc \in [CPU -> MainLabel \cup SecondaryLabel]
    /\ \A c \in CPU : pc[c] \in IF c = 0 THEN MainLabel ELSE SecondaryLabel
    /\ handler \in [CPU -> HandlerLabel]
    /\ irqnr \in [CPU -> SPI \cup {"none"}]
    /\ console \in {<<>>} \cup (CPU \X {"task", "handler"})
    /\ cpu_status \in [CPU -> Status]
    /\ interrupt_callback_count \in 0 .. CPU_NR
    /\ index \in CPU
    /\ irq_handler \in SUBSET SPI /\ enabled \in SUBSET SPI
    /\ route \in [SPI -> CPU]
    /\ on \in SUBSET SPI /\ line \in SUBSET on
    /\ released \in BOOLEAN /\ armed \in SUBSET CPU
    /\ sgi \in SUBSET CPU /\ woken \in SUBSET CPU
    /\ served \in [CPU -> Nat]

\* Only one core at a time is in the part of timer_callback that reads and
\* increments the unprotected count, and it is the core whose number the
\* count is; so cpu_status is indexed in range (main.c 47-53).  The count that
\* a core reads again at 54 and 56, after the timer may have been started for
\* the next core, is still the one it wrote.
OneCallbackAtATime == \A c \in CPU :
    /\ handler[c] \in CallbackHead =>
        /\ interrupt_callback_count = c
        /\ \A d \in CPU \ {c} : handler[d] \notin CallbackHead \cup CallbackTail
    /\ handler[c] \in CallbackTail => interrupt_callback_count = c + 1

\* The timer is only ever started for a core that exists, is online and can
\* take its interrupt, and not once more after the last one (main.c 53-55).
TimerHasATarget ==
    "timer" \in on =>
        /\ interrupt_callback_count < CPU_NR
        /\ route["timer"] = interrupt_callback_count
        /\ route["timer"] \in armed
        /\ "timer" \in enabled \cap irq_handler

\* No interrupt is acknowledged and then dropped because its handler is not
\* in the table yet (irq.c 131-137 against 346-358).
NoInterruptDropped ==
    \A c \in CPU : handler[c] \in {"number", "call"} => irqnr[c] \in irq_handler

\* The scans of cpu_status are not atomic, but when one of them succeeds all
\* cores are in that state together, and the second means that every core
\* has taken the timer interrupt exactly once (main.c 29-42, 111 and 119).
ScanIsExact ==
    /\ pc[0] = "set_alive" => \A c \in CPU : cpu_status[c] = "ONLINE" /\ c \in armed
    /\ pc[0] = "set_idle" => \A c \in CPU : cpu_status[c] = "ALIVE" /\ served[c] = 1

\* The timer is served by the cores in ascending order, each one once.
ServedInOrder ==
    [][\A c \in CPU : served'[c] # served[c] =>
          served[c] = 0 /\ \A d \in CPU : served[d] = 1 <=> d < c]_vars

\* Every core, core 0 included, handles the SGI and returns from it
\* (main.c 145, irq.c 126-129).
EveryCoreWakes == <>[](woken = CPU /\ \A c \in CPU : handler[c] = "none")

\* main.c 139: the GPIO test comes to its end as well.
GpioTestEnds == <>(pc[0] = "stop")
=============================================================================
