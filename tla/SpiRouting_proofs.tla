-------------------------- MODULE SpiRouting_proofs --------------------------
(***************************************************************************)
(* The hand-over of the timer in fy13gic_c, for any number of cores: its    *)
(* callbacks do not meet on the unprotected count, the timer is only        *)
(* started for a core that takes its interrupt, and no interrupt finds the  *)
(* table of handlers empty.                                                 *)
(***************************************************************************)
EXTENDS SpiRouting, TLAPS

\* main has not requested, and not started, the timer.
Unrequested == {"hello", "set_online", "release", "scan_online", "set_alive",
                "say_online", "say_start", "req_timer"}
Unstarted == Unrequested \cup {"unmask_timer", "aff_timer", "start_timer"}

Callback == CallbackHead \cup CallbackTail

\* Who holds the lock of mprintf is at a statement that prints.
LockIsHeldInPrint == \A c \in CPU :
    /\ console = <<c, "task">> => pc[c] \in DOMAIN Said
    /\ console = <<c, "handler">> => handler[c] \in DOMAIN HandlerSaid

\* A core that has left its start, or has a status, can take interrupts; so
\* can all once core 0 has seen every status.
StartedAreArmed ==
    /\ 0 \in armed
    /\ \A c \in CPU \ {0} : pc[c] # "off" => c \in armed
    /\ \A c \in CPU : cpu_status[c] # "OFFLINE" => c \in armed
    /\ pc[0] \in {"hello", "set_online", "release"} => index = 0
    /\ pc[0] = "scan_online" => \A c \in CPU : c < index => c \in armed
    /\ pc[0] \notin {"hello", "set_online", "release", "scan_online"} => armed = CPU

\* An interrupt is in the table before it is enabled; once requested, the
\* timer is both.
EnabledAreRegistered ==
    /\ enabled \subseteq irq_handler
    /\ pc[0] \in Unrequested => "timer" \notin irq_handler
    /\ pc[0] = "unmask_timer" => "timer" \in irq_handler
    /\ pc[0] = "unmask_gpio4" => "gpio4" \in irq_handler
    /\ pc[0] = "unmask_gpio17" => "gpio17" \in irq_handler
    /\ pc[0] \notin Unrequested \cup {"unmask_timer"} => "timer" \in enabled

\* Before it is started nothing of the timer has happened; main then starts it
\* for core 0.
UnstartedIsQuiet ==
    /\ pc[0] \in Unstarted => /\ "timer" \notin on /\ interrupt_callback_count = 0
                              /\ \A c \in CPU : handler[c] \notin Callback
    /\ pc[0] = "start_timer" => route["timer"] = 0

\* A core that has acknowledged the timer is its target, and the timer keeps its
\* interrupt asserted until that core stops it.
Acknowledged(c) ==
    \/ handler[c] = "t_stop"
    \/ handler[c] \in {"number", "call"} /\ irqnr[c] = "timer"

TargetHasIt ==
    \A c \in CPU : Acknowledged(c) => "timer" \in line /\ route["timer"] = c

GpioIsGpio ==
    \A c \in CPU : handler[c] \in {"g_say", "g_off"} => irqnr[c] \in Gpio

\* While the timer runs no callback is past its stop, but one that has just
\* restarted it; that one is over when the timer expires.
RunningIsAlone ==
    /\ "timer" \in on =>
          \A c \in CPU : handler[c] \notin {"t_alive", "t_say", "t_next", "t_restart"}
    /\ "timer" \in line => \A c \in CPU : handler[c] # "t_check"

\* At most one callback; the count is the number of its core, then the next
\* core's, to which the timer has been routed.
CountIsOwn ==
    /\ \A c, d \in CPU : handler[c] \in Callback /\ handler[d] \in Callback => c = d
    /\ \A c \in CPU :
          /\ handler[c] \in CallbackHead => interrupt_callback_count = c
          /\ handler[c] \in CallbackTail => interrupt_callback_count = c + 1
          /\ handler[c] = "t_restart" /\ interrupt_callback_count < CPU_NR
                => route["timer"] = interrupt_callback_count

IInv ==
    /\ TypeOK /\ LockIsHeldInPrint /\ StartedAreArmed /\ EnabledAreRegistered
    /\ UnstartedIsQuiet /\ TargetHasIt /\ GpioIsGpio /\ RunningIsAlone /\ CountIsOwn
    /\ TimerHasATarget /\ NoInterruptDropped

----------------------------------------------------------------------------
(* The printing statements *)

LEMMA Labels ==
    /\ DOMAIN Said = {"hello", "say_online", "say_start", "say_end", "say_gpio",
                      "say_gpio_end", "say_sgi", "cpu_online"}
    /\ DOMAIN HandlerSaid = {"entry", "number", "ipi", "t_say", "g_say"}
  BY DEF Said, HandlerSaid

\* What follows a printing statement: no print comes before the request of an
\* interrupt and ends after it.
LEMMA SaidMoves == \A l \in DOMAIN Said :
    /\ l # "cpu_online" => Said[l] \in MainLabel
    /\ l = "cpu_online" => Said[l] = "mark_online"
    /\ l \in Unrequested <=> Said[l] \in Unrequested
    /\ l \in {"hello", "set_online", "release"} <=> Said[l] \in {"hello", "set_online", "release"}
    /\ Said[l] \notin {"scan_online", "unmask_timer", "unmask_gpio4", "unmask_gpio17",
                       "aff_timer", "start_timer", "off"}
  BY DEF Said, Unrequested, MainLabel

LEMMA HandlerSaidMoves == \A l \in DOMAIN HandlerSaid :
    /\ HandlerSaid[l] \in HandlerLabel \ {"none", "number", "t_stop", "t_check", "t_restart"}
    /\ HandlerSaid[l] \in Callback <=> l \in Callback
    /\ HandlerSaid[l] \in CallbackHead <=> l \in CallbackHead
    /\ HandlerSaid[l] \in {"g_say", "g_off"} => l = "g_say"
    /\ HandlerSaid[l] = "call" <=> l = "number"
  BY DEF HandlerSaid, HandlerLabel, Callback, CallbackHead, CallbackTail

----------------------------------------------------------------------------
(* Steps of the tasks *)

\* Parts of IInv that speak of the timer and of the table of handlers.
Routing == EnabledAreRegistered /\ UnstartedIsQuiet /\ TargetHasIt /\ GpioIsGpio
           /\ RunningIsAlone /\ CountIsOwn /\ TimerHasATarget /\ NoInterruptDropped

\* A step that leaves interrupts, table and devices alone keeps these parts,
\* when core 0 stays on its side of the request.
LEMMA RoutingFrame ==
  ASSUME IInv, UNCHANGED <<handler, irqnr, gic, devices, interrupt_callback_count>>,
         armed \subseteq armed',
         pc'[0] \in Unrequested <=> pc[0] \in Unrequested,
         pc'[0] = pc[0] \/ pc'[0] \notin {"unmask_timer", "unmask_gpio4", "unmask_gpio17",
                                          "aff_timer", "start_timer"},
         pc'[0] = pc[0] \/ pc[0] \notin {"unmask_timer", "aff_timer", "start_timer"}
  PROVE  Routing'
<1> USE DEF IInv, gic, devices
<1>1. EnabledAreRegistered' /\ UnstartedIsQuiet'
  BY DEF EnabledAreRegistered, UnstartedIsQuiet, Unstarted
<1>2. TargetHasIt' /\ GpioIsGpio' /\ RunningIsAlone' /\ CountIsOwn'
  BY DEF TargetHasIt, Acknowledged, GpioIsGpio, RunningIsAlone, CountIsOwn
<1>3. TimerHasATarget' /\ NoInterruptDropped'
  BY DEF TimerHasATarget, NoInterruptDropped
<1> QED  BY <1>1, <1>2, <1>3 DEF Routing

LEMMA SayInv ==
  ASSUME IInv, NEW c \in CPU, SayBegin(c) \/ SayEnd(c)
  PROVE  IInv'
<1> USE DEF IInv, task, irq, shared, gic, devices, boot, history
<1>1. CASE SayBegin(c)
  <2>1. TypeOK' /\ LockIsHeldInPrint' /\ StartedAreArmed'
    BY <1>1 DEF SayBegin, TypeOK, LockIsHeldInPrint, StartedAreArmed
  <2>2. Routing'
    BY <1>1, RoutingFrame DEF SayBegin
  <2> QED  BY <2>1, <2>2 DEF Routing
<1>2. CASE SayEnd(c)
  <2>1. pc[c] \in DOMAIN Said /\ (pc[c] = "cpu_online" <=> c # 0)
    BY <1>2, Labels DEF SayEnd, LockIsHeldInPrint, TypeOK, MainLabel, SecondaryLabel
  <2>2. pc' = [pc EXCEPT ![c] = Said[pc[c]]] /\ console' = << >>
        /\ UNCHANGED <<irq, history, index, shared, gic, devices, boot, sgi>>
    BY <1>2 DEF SayEnd, Task
  <2>3. TypeOK'
    BY <2>1, <2>2, SaidMoves DEF TypeOK, SecondaryLabel
  <2>4. LockIsHeldInPrint'
    BY <2>2 DEF LockIsHeldInPrint
  <2>5. StartedAreArmed'
    <3>1. CASE c = 0
      BY <2>1, <2>2, <3>1, SaidMoves, Labels DEF StartedAreArmed, TypeOK
    <3>2. CASE c # 0
      BY <2>1, <2>2, <3>2 DEF StartedAreArmed, TypeOK
    <3> QED  BY <3>1, <3>2
  <2>6. Routing'
    <3>1. CASE c = 0
      BY <2>1, <2>2, <3>1, SaidMoves, Labels, RoutingFrame DEF TypeOK, CPU
    <3>2. CASE c # 0
      BY <2>1, <2>2, <3>2, RoutingFrame DEF TypeOK, CPU
    <3> QED  BY <3>1, <3>2
  <2> QED  BY <2>3, <2>4, <2>5, <2>6 DEF Routing
<1> QED  BY <1>1, <1>2

\* The other steps of core 0 before and after the tests.
LEMMA StatusInv ==
  ASSUME IInv, SetOnline \/ SetAlive \/ SetIdle \/ release_secondary_cpu \/ SendSgi
  PROVE  IInv'
<1> USE DEF IInv, irq, shared, gic, devices, boot, history
<1>1. 0 \in CPU
  BY RoutingAssumption DEF CPU
<1>2. PICK from, to \in MainLabel :
         /\ pc[0] = from /\ pc' = [pc EXCEPT ![0] = to]
         /\ <<from, to>> \in {<<"set_online", "release">>, <<"set_alive", "say_online">>,
                              <<"set_idle", "say_end">>, <<"release", "scan_online">>,
                              <<"send", "stop">>}
  BY Labels DEF SetOnline, SetAlive, SetIdle, SetStatus, release_secondary_cpu, SendSgi, Task,
     MainLabel
<1>3. /\ UNCHANGED <<irq, history, index, console, gic, devices, armed,
                     interrupt_callback_count>>
      /\ cpu_status' = cpu_status \/ \E st \in Status : cpu_status' = [cpu_status EXCEPT ![0] = st]
      /\ released' \in {released, TRUE} /\ sgi' \in {sgi, CPU}
  BY DEF SetOnline, SetAlive, SetIdle, SetStatus, release_secondary_cpu, SendSgi, Task, Status
<1>4. TypeOK'
  <2>1. pc' \in [CPU -> MainLabel \cup SecondaryLabel]
        /\ \A c \in CPU : pc'[c] \in IF c = 0 THEN MainLabel ELSE SecondaryLabel
    BY <1>1, <1>2 DEF TypeOK
  <2>2. cpu_status' \in [CPU -> Status]
    BY <1>1, <1>3 DEF TypeOK
  <2> QED  BY <1>1, <1>3, <2>1, <2>2 DEF TypeOK
<1>5. LockIsHeldInPrint'
  BY <1>1, <1>2, <1>3, Labels DEF LockIsHeldInPrint, TypeOK
<1>6. StartedAreArmed'
  <2>1. \A c \in CPU : cpu_status'[c] # "OFFLINE" => cpu_status[c] # "OFFLINE" \/ c = 0
    BY <1>1, <1>3 DEF TypeOK
  <2>2. \A c \in CPU : pc'[c] = IF c = 0 THEN pc'[0] ELSE pc[c]
    BY <1>1, <1>2 DEF TypeOK
  <2>3. \A c \in CPU : ~(c < 0)
    BY RoutingAssumption DEF CPU
  <2> QED  BY <1>1, <1>2, <1>3, <2>1, <2>2, <2>3 DEF StartedAreArmed, TypeOK
<1>7. Routing'
  BY <1>1, <1>2, <1>3, RoutingFrame DEF TypeOK, Unrequested
<1> QED  BY <1>4, <1>5, <1>6, <1>7 DEF Routing

\* A scan of cpu_status: the cores below the index have been seen ONLINE.
LEMMA ScanInv ==
  ASSUME IInv, ScanOnline \/ ScanAlive
  PROVE  IInv'
<1> USE DEF IInv, irq, shared, gic, devices, boot, history
<1>1. 0 \in CPU /\ CPU_NR \in Nat /\ CPU = 0 .. CPU_NR - 1
  BY RoutingAssumption DEF CPU
<1>2. PICK to \in {"scan_online", "set_alive", "scan_alive", "set_idle"} :
         pc' = [pc EXCEPT ![0] = to]
  BY DEF ScanOnline, ScanAlive, Scan, Task
<1>3. /\ pc[0] \in {"scan_online", "scan_alive"}
      /\ pc'[0] = pc[0] \/ pc'[0] = IF pc[0] = "scan_online" THEN "set_alive" ELSE "set_idle"
      /\ index' \in {0, index + 1} /\ index' \in CPU
      /\ UNCHANGED <<irq, history, console, shared, gic, devices, boot, sgi>>
  BY <1>1 DEF ScanOnline, ScanAlive, Scan, Task, TypeOK
<1>4. TypeOK'
  <2>1. to \in MainLabel
    BY DEF MainLabel
  <2>2. pc' \in [CPU -> MainLabel \cup SecondaryLabel]
        /\ \A c \in CPU : pc'[c] \in IF c = 0 THEN MainLabel ELSE SecondaryLabel
    BY <1>1, <1>2, <2>1 DEF TypeOK
  <2> QED  BY <1>3, <2>2 DEF TypeOK
<1>5. LockIsHeldInPrint'
  BY <1>1, <1>2, <1>3, Labels DEF LockIsHeldInPrint, TypeOK
<1>6. StartedAreArmed'
  <2>1. CASE ScanOnline
    <3>1. pc[0] = "scan_online" /\ \A c \in CPU : c < index => c \in armed
      BY <2>1 DEF ScanOnline, Scan, Task, StartedAreArmed
    <3>2. cpu_status[index] = "ONLINE" => index \in armed
      BY DEF StartedAreArmed, TypeOK
    <3>3. CASE cpu_status[index] = "ONLINE"
      <4>1. \A c \in CPU : c <= index => c \in armed
        BY <1>1, <3>1, <3>2, <3>3 DEF TypeOK
      <4>2. CASE index = CPU_NR - 1
        <5>1. armed = CPU
          <6>1. \A c \in CPU : c <= index
            BY <1>1, <4>2
          <6> QED  BY <4>1, <6>1 DEF TypeOK
        <5> QED  BY <1>1, <1>2, <1>3, <5>1, <4>1, <2>1, <4>2 DEF StartedAreArmed, TypeOK, ScanOnline, Scan, Task
      <4>3. CASE index # CPU_NR - 1
        <5>1. pc' = [pc EXCEPT ![0] = "scan_online"] /\ index' = index + 1
          BY <2>1, <3>3, <4>3 DEF ScanOnline, Scan, Task
        <5> QED  BY <1>1, <1>2, <1>3, <5>1, <4>1 DEF StartedAreArmed, TypeOK
      <4> QED  BY <4>2, <4>3
    <3>4. CASE cpu_status[index] # "ONLINE"
      <4>1. pc' = [pc EXCEPT ![0] = "scan_online"] /\ index' = 0
        BY <2>1, <3>4 DEF ScanOnline, Scan, Task
      <4> QED  BY <1>1, <1>2, <1>3, <4>1 DEF StartedAreArmed, TypeOK
    <3> QED  BY <3>3, <3>4
  <2>2. CASE ScanAlive
    <3>1. pc[0] = "scan_alive" /\ pc'[0] \in {"scan_alive", "set_idle"}
      BY <1>1, <2>2 DEF ScanAlive, Scan, Task, TypeOK
    <3> QED  BY <1>1, <1>2, <1>3, <3>1 DEF StartedAreArmed, TypeOK
  <2> QED  BY <2>1, <2>2
<1>7. Routing'
  BY <1>1, <1>2, <1>3, RoutingFrame DEF TypeOK, Unrequested
<1> QED  BY <1>4, <1>5, <1>6, <1>7 DEF Routing

\* The steps of a secondary core outside its prints.
LEMMA SecondaryInv ==
  ASSUME IInv, NEW c \in CPU \ {0},
         SecondaryStart(c) \/ MarkOnline(c) \/ WaitAlive(c) \/ IdleLoop(c)
  PROVE  IInv'
<1> USE DEF IInv, irq, shared, gic, devices, boot, history
<1>1. 0 \in CPU /\ c \in CPU /\ c # 0
  BY RoutingAssumption DEF CPU
<1>2. PICK to \in {"cpu_online", "wait_alive", "idling"} : pc' = [pc EXCEPT ![c] = to]
  BY DEF SecondaryStart, MarkOnline, WaitAlive, IdleLoop, SetStatus, Task
<1>3. /\ pc[c] \in {"off", "mark_online", "wait_alive", "idling"}
      /\ UNCHANGED <<irq, history, index, console, gic, devices, released, sgi,
                     interrupt_callback_count>>
  BY DEF SecondaryStart, MarkOnline, WaitAlive, IdleLoop, SetStatus, Task
<1>4. /\ cpu_status' = cpu_status
         \/ (pc[c] # "off" /\ \E st \in Status : cpu_status' = [cpu_status EXCEPT ![c] = st])
      /\ armed' = IF pc[c] = "off" THEN armed \cup {c} ELSE armed
  <2>1. CASE SecondaryStart(c) \/ WaitAlive(c)
    <3>1. cpu_status' = cpu_status
      BY <2>1 DEF SecondaryStart, WaitAlive
    <3>2. armed' = IF pc[c] = "off" THEN armed \cup {c} ELSE armed
      BY <2>1 DEF SecondaryStart, WaitAlive, Task
    <3> QED  BY <3>1, <3>2
  <2>2. CASE MarkOnline(c) \/ IdleLoop(c)
    <3>1. PICK st \in Status : cpu_status' = [cpu_status EXCEPT ![c] = st]
      BY <2>2 DEF MarkOnline, IdleLoop, SetStatus, Status
    <3>2. pc[c] # "off" /\ armed' = armed
      BY <2>2 DEF MarkOnline, IdleLoop, SetStatus, Task
    <3> QED  BY <3>1, <3>2
  <2> QED  BY <2>1, <2>2
<1>5. TypeOK'
  <2>1. cpu_status' \in [CPU -> Status]
    BY <1>1, <1>4 DEF TypeOK
  <2> QED  BY <1>1, <1>2, <1>3, <1>4, <2>1 DEF TypeOK, SecondaryLabel
<1>6. LockIsHeldInPrint'
  BY <1>1, <1>2, <1>3, Labels DEF LockIsHeldInPrint, TypeOK
<1>7. StartedAreArmed'
  BY <1>1, <1>2, <1>3, <1>4 DEF StartedAreArmed, TypeOK
<1>8. Routing'
  BY <1>1, <1>2, <1>3, <1>4, RoutingFrame DEF TypeOK
<1> QED  BY <1>5, <1>6, <1>7, <1>8 DEF Routing

\* A step of core 0 between two statements that do not print, apart from the
\* parts about the timer.
LEMMA MainFrame ==
  ASSUME IInv, NEW from \in MainLabel \ DOMAIN Said, NEW to \in MainLabel,
         from \notin {"hello", "set_online", "release", "scan_online"},
         to \notin {"hello", "set_online", "release", "scan_online"},
         pc[0] = from, pc' = [pc EXCEPT ![0] = to],
         UNCHANGED <<irq, index, console, shared, boot, sgi, history>>,
         irq_handler' \in SUBSET SPI, enabled' \in SUBSET SPI, route' \in [SPI -> CPU],
         on' \in SUBSET SPI, line' \in SUBSET on'
  PROVE  TypeOK' /\ LockIsHeldInPrint' /\ StartedAreArmed'
<1> USE DEF IInv, irq, shared, boot, history
<1>1. 0 \in CPU
  BY RoutingAssumption DEF CPU
<1>2. TypeOK'
  <2>1. pc' \in [CPU -> MainLabel \cup SecondaryLabel]
        /\ \A c \in CPU : pc'[c] \in IF c = 0 THEN MainLabel ELSE SecondaryLabel
    BY <1>1 DEF TypeOK
  <2> QED  BY <2>1 DEF TypeOK
<1>3. LockIsHeldInPrint'
  BY <1>1 DEF LockIsHeldInPrint, TypeOK
<1>4. StartedAreArmed'
  BY <1>1 DEF StartedAreArmed, TypeOK
<1> QED  BY <1>2, <1>3, <1>4

\* request_irq enters the handler before it enables the interrupt.
LEMMA RegisterInv ==
  ASSUME IInv,
         \/ RegisterHandler("timer", "req_timer", "unmask_timer", "aff_timer")
         \/ RegisterHandler("gpio4", "req_gpio4", "unmask_gpio4", "aff_gpio4")
         \/ RegisterHandler("gpio17", "req_gpio17", "unmask_gpio17", "aff_gpio17")
  PROVE  IInv'
<1> USE DEF IInv, irq, shared, devices, boot, history
<1>1. 0 \in CPU
  BY RoutingAssumption DEF CPU
<1>2. PICK i \in SPI, from \in {"req_timer", "req_gpio4", "req_gpio17"},
           to \in MainLabel :
         /\ <<i, from, to>> \in
               {<<"timer", "req_timer", "unmask_timer">>, <<"gpio4", "req_gpio4", "unmask_gpio4">>,
                <<"gpio4", "req_gpio4", "aff_gpio4">>, <<"gpio17", "req_gpio17", "unmask_gpio17">>,
                <<"gpio17", "req_gpio17", "aff_gpio17">>}
         /\ pc[0] = from /\ pc' = [pc EXCEPT ![0] = to]
         /\ irq_handler' = irq_handler \cup {i}
  <2>1. CASE RegisterHandler("timer", "req_timer", "unmask_timer", "aff_timer")
    <3>1. "timer" \notin irq_handler
      BY <2>1 DEF RegisterHandler, Task, EnabledAreRegistered, Unrequested
    <3> QED  BY <2>1, <3>1 DEF RegisterHandler, Task, SPI, MainLabel
  <2>2. CASE RegisterHandler("gpio4", "req_gpio4", "unmask_gpio4", "aff_gpio4")
    BY <2>2 DEF RegisterHandler, Task, SPI, Gpio, MainLabel
  <2>3. CASE RegisterHandler("gpio17", "req_gpio17", "unmask_gpio17", "aff_gpio17")
    BY <2>3 DEF RegisterHandler, Task, SPI, Gpio, MainLabel
  <2> QED  BY <2>1, <2>2, <2>3
<1>3. UNCHANGED <<irq, history, index, console, shared, enabled, route, devices, boot, sgi>>
  BY DEF RegisterHandler, Task
<1>4. TypeOK' /\ LockIsHeldInPrint' /\ StartedAreArmed'
  <2>1. from \in MainLabel \ DOMAIN Said
    BY Labels DEF MainLabel
  <2> QED  BY <1>2, <1>3, <2>1, MainFrame DEF TypeOK
<1>5. EnabledAreRegistered' /\ UnstartedIsQuiet'
  BY <1>1, <1>2, <1>3 DEF EnabledAreRegistered, UnstartedIsQuiet, Unrequested, Unstarted, TypeOK
<1>6. TargetHasIt' /\ GpioIsGpio' /\ RunningIsAlone' /\ CountIsOwn'
  BY <1>3 DEF TargetHasIt, Acknowledged, GpioIsGpio, RunningIsAlone, CountIsOwn
<1>7. TimerHasATarget' /\ NoInterruptDropped'
  BY <1>2, <1>3 DEF TimerHasATarget, NoInterruptDropped
<1> QED  BY <1>4, <1>5, <1>6, <1>7

\* The route of an interrupt to core 0 and its enable bit.
LEMMA RouteInv ==
  ASSUME IInv,
         \/ UnmaskIrq("timer", "unmask_timer", "aff_timer")
         \/ SetAffinity("timer", "aff_timer", "start_timer")
         \/ UnmaskIrq("gpio4", "unmask_gpio4", "aff_gpio4")
         \/ SetAffinity("gpio4", "aff_gpio4", "start_gpio4")
         \/ UnmaskIrq("gpio17", "unmask_gpio17", "aff_gpio17")
         \/ SetAffinity("gpio17", "aff_gpio17", "start_gpio17")
  PROVE  IInv'
<1> USE DEF IInv, irq, shared, devices, boot, history
<1>1. 0 \in CPU
  BY RoutingAssumption DEF CPU
<1>2. PICK i \in SPI, from \in MainLabel \ DOMAIN Said, to \in MainLabel :
         /\ <<i, from, to>> \in
               {<<"timer", "unmask_timer", "aff_timer">>, <<"timer", "aff_timer", "start_timer">>,
                <<"gpio4", "unmask_gpio4", "aff_gpio4">>, <<"gpio4", "aff_gpio4", "start_gpio4">>,
                <<"gpio17", "unmask_gpio17", "aff_gpio17">>,
                <<"gpio17", "aff_gpio17", "start_gpio17">>}
         /\ pc[0] = from /\ pc' = [pc EXCEPT ![0] = to]
         /\ route' = [route EXCEPT ![i] = 0]
         /\ enabled' = IF from \in {"unmask_timer", "unmask_gpio4", "unmask_gpio17"}
                       THEN enabled \cup {i} ELSE enabled
  BY Labels DEF UnmaskIrq, SetAffinity, Task, SPI, Gpio, MainLabel
<1>3. UNCHANGED <<irq, history, index, console, shared, irq_handler, devices, boot, sgi>>
  BY DEF UnmaskIrq, SetAffinity, Task
<1>4. TypeOK' /\ LockIsHeldInPrint' /\ StartedAreArmed'
  BY <1>1, <1>2, <1>3, MainFrame DEF TypeOK
<1>5. EnabledAreRegistered' /\ UnstartedIsQuiet'
  BY <1>1, <1>2, <1>3 DEF EnabledAreRegistered, UnstartedIsQuiet, Unrequested, Unstarted, TypeOK
<1>6. i = "timer" => "timer" \notin on /\ "timer" \notin line
                     /\ \A c \in CPU : handler[c] \notin Callback
  BY <1>2 DEF UnstartedIsQuiet, Unstarted, TypeOK
<1>7. i # "timer" => route'["timer"] = route["timer"]
  BY <1>2 DEF TypeOK, SPI
<1>8. TargetHasIt' /\ GpioIsGpio' /\ RunningIsAlone' /\ CountIsOwn'
  BY <1>3, <1>6, <1>7 DEF TargetHasIt, Acknowledged, GpioIsGpio, RunningIsAlone, CountIsOwn,
     Callback, CallbackTail
<1>9. TimerHasATarget' /\ NoInterruptDropped'
  BY <1>2, <1>3, <1>6, <1>7 DEF TimerHasATarget, NoInterruptDropped
<1> QED  BY <1>4, <1>5, <1>8, <1>9

\* A device is started; the timer, for core 0.
LEMMA StartInv ==
  ASSUME IInv,
         \/ StartDevice("timer", "start_timer", "scan_alive")
         \/ StartDevice("gpio4", "start_gpio4", "req_gpio17")
         \/ StartDevice("gpio17", "start_gpio17", "say_gpio_end")
  PROVE  IInv'
<1> USE DEF IInv, irq, shared, gic, boot, history
<1>1. 0 \in CPU /\ 0 < CPU_NR
  BY RoutingAssumption DEF CPU
<1>2. PICK i \in SPI, from \in MainLabel \ DOMAIN Said, to \in MainLabel :
         /\ <<i, from, to>> \in
               {<<"timer", "start_timer", "scan_alive">>, <<"gpio4", "start_gpio4", "req_gpio17">>,
                <<"gpio17", "start_gpio17", "say_gpio_end">>}
         /\ pc[0] = from /\ pc' = [pc EXCEPT ![0] = to]
         /\ on' = on \cup {i}
  BY Labels DEF StartDevice, Task, SPI, Gpio, MainLabel
<1>3. UNCHANGED <<irq, history, index, console, shared, gic, line, boot, sgi>>
  BY DEF StartDevice, Task
<1>4. TypeOK' /\ LockIsHeldInPrint' /\ StartedAreArmed'
  BY <1>1, <1>2, <1>3, MainFrame DEF TypeOK
<1>5. EnabledAreRegistered' /\ UnstartedIsQuiet'
  BY <1>1, <1>2, <1>3 DEF EnabledAreRegistered, UnstartedIsQuiet, Unrequested, Unstarted, TypeOK
<1>6. i = "timer" => /\ \A c \in CPU : handler[c] \notin Callback
                     /\ interrupt_callback_count = 0 /\ route["timer"] = 0
                     /\ "timer" \in enabled
  BY <1>2 DEF UnstartedIsQuiet, Unstarted, Unrequested, EnabledAreRegistered
<1>7. TargetHasIt' /\ GpioIsGpio' /\ RunningIsAlone' /\ CountIsOwn'
  BY <1>2, <1>3, <1>6 DEF TargetHasIt, Acknowledged, GpioIsGpio, RunningIsAlone, CountIsOwn,
     Callback, CallbackHead, CallbackTail
<1>8. TimerHasATarget' /\ NoInterruptDropped'
  BY <1>1, <1>2, <1>3, <1>6 DEF TimerHasATarget, NoInterruptDropped, StartedAreArmed,
     EnabledAreRegistered
<1> QED  BY <1>4, <1>5, <1>7, <1>8

LEMMA MainInv ==
  ASSUME IInv, main
  PROVE  IInv'
<1>1. 0 \in CPU
  BY RoutingAssumption DEF CPU
<1>2. CASE spi_route_to_multcore_test
  BY <1>2, RegisterInv, RouteInv, StartInv DEF spi_route_to_multcore_test
<1>3. CASE GpioTest
  BY <1>3, RegisterInv, RouteInv, StartInv DEF GpioTest
<1> QED
  BY <1>1, <1>2, <1>3, SayInv, StatusInv, ScanInv DEF main

----------------------------------------------------------------------------
(* Devices and handlers *)

\* The timer is slow: when it expires, the callback that restarted it is over.
LEMMA FireInv ==
  ASSUME IInv, SlowTimer, NEW i \in SPI, Fire(i)
  PROVE  IInv'
<1> USE DEF IInv, Fire, task, irq, shared, gic, boot, history
<1>1. TypeOK' /\ LockIsHeldInPrint' /\ StartedAreArmed'
  BY DEF TypeOK, LockIsHeldInPrint, StartedAreArmed
<1>2. EnabledAreRegistered' /\ UnstartedIsQuiet' /\ TargetHasIt' /\ GpioIsGpio'
  BY DEF EnabledAreRegistered, UnstartedIsQuiet, TargetHasIt, Acknowledged, GpioIsGpio
<1>3. RunningIsAlone' /\ CountIsOwn' /\ TimerHasATarget' /\ NoInterruptDropped'
  BY DEF RunningIsAlone, CountIsOwn, TimerHasATarget, NoInterruptDropped
<1> QED  BY <1>1, <1>2, <1>3

\* A step of a handler leaves the tasks, and with them the parts about the
\* start, alone when it also leaves the table.
LEMMA HandlerFrame ==
  ASSUME IInv, NEW c \in CPU, NEW to \in HandlerLabel,
         handler' = [handler EXCEPT ![c] = to],
         console = <<c, "handler">> => handler[c] \notin DOMAIN HandlerSaid \/ console' = << >>,
         console' \in {console, << >>},
         irqnr' \in [CPU -> SPI \cup {"none"}], sgi' \in SUBSET CPU, woken' \in SUBSET CPU,
         on' \in SUBSET SPI, line' \in SUBSET on', served' \in [CPU -> Nat],
         cpu_status' \in [CPU -> Status], route' \in [SPI -> CPU],
         interrupt_callback_count' \in 0 .. CPU_NR,
         UNCHANGED <<task, boot, enabled, irq_handler>>
  PROVE  /\ TypeOK' /\ LockIsHeldInPrint' /\ EnabledAreRegistered'
         /\ cpu_status' = cpu_status => StartedAreArmed'
<1> USE DEF IInv, task, boot
<1>1. TypeOK'
  BY DEF TypeOK
<1>2. LockIsHeldInPrint'
  <2>1. ASSUME NEW d \in CPU, console' = <<d, "task">> PROVE pc'[d] \in DOMAIN Said
    <3>1. console = <<d, "task">>
      BY <2>1
    <3> QED  BY <3>1 DEF LockIsHeldInPrint
  <2>2. ASSUME NEW d \in CPU, console' = <<d, "handler">>
        PROVE  handler'[d] \in DOMAIN HandlerSaid
    <3>1. console = <<d, "handler">> /\ console' # << >>
      BY <2>2
    <3>2. handler[d] \in DOMAIN HandlerSaid
      BY <3>1 DEF LockIsHeldInPrint
    <3>3. d # c
      BY <3>1, <3>2
    <3> QED  BY <3>2, <3>3 DEF TypeOK
  <2> QED  BY <2>1, <2>2 DEF LockIsHeldInPrint
<1>3. EnabledAreRegistered' /\ (cpu_status' = cpu_status => StartedAreArmed')
  BY DEF EnabledAreRegistered, StartedAreArmed
<1> QED  BY <1>1, <1>2, <1>3

\* Handler steps outside timer_callback.
LEMMA HandlerSayInv ==
  ASSUME IInv, NEW c \in CPU, HandlerSayBegin(c) \/ HandlerSayEnd(c)
  PROVE  IInv'
<1> USE DEF IInv, task, irq, shared, gic, devices, boot, history
<1>1. CASE HandlerSayBegin(c)
  <2>1. TypeOK' /\ LockIsHeldInPrint' /\ StartedAreArmed'
    BY <1>1 DEF HandlerSayBegin, TypeOK, LockIsHeldInPrint, StartedAreArmed
  <2>2. Routing'
    BY <1>1, RoutingFrame DEF HandlerSayBegin
  <2> QED  BY <2>1, <2>2 DEF Routing
<1>2. CASE HandlerSayEnd(c)
  <2>1. PICK from \in DOMAIN HandlerSaid : handler[c] = from
    BY <1>2 DEF HandlerSayEnd, LockIsHeldInPrint
  <2>2. /\ handler' = [handler EXCEPT ![c] = HandlerSaid[from]] /\ console' = << >>
        /\ woken' \in {woken, woken \cup {c}}
        /\ UNCHANGED <<task, boot, irqnr, shared, gic, devices, sgi, served>>
    BY <1>2, <2>1 DEF HandlerSayEnd, Handler
  <2>3. TypeOK' /\ LockIsHeldInPrint' /\ EnabledAreRegistered' /\ StartedAreArmed'
    <3>1. HandlerSaid[from] \in HandlerLabel
      BY <2>1, HandlerSaidMoves
    <3>2. /\ irqnr' \in [CPU -> SPI \cup {"none"}] /\ sgi' \in SUBSET CPU
          /\ on' \in SUBSET SPI /\ line' \in SUBSET on' /\ served' \in [CPU -> Nat]
          /\ cpu_status' \in [CPU -> Status] /\ route' \in [SPI -> CPU]
          /\ interrupt_callback_count' \in 0 .. CPU_NR /\ woken' \in SUBSET CPU
      BY <2>2 DEF TypeOK
    <3>3. /\ handler' = [handler EXCEPT ![c] = HandlerSaid[from]] /\ console' = << >>
          /\ UNCHANGED <<task, boot, enabled, irq_handler, cpu_status>>
      BY <2>2
    <3> QED  BY <3>1, <3>2, <3>3, HandlerFrame
  <2>4. HandlerSaid[from] # "ipi" /\ HandlerSaid[from] \notin {"t_stop", "t_check", "t_restart", "number"}
    BY <2>1, HandlerSaidMoves, Labels DEF HandlerSaid
  <2>5. \A d \in CPU : handler'[d] = IF d = c THEN HandlerSaid[from] ELSE handler[d]
    BY <2>2 DEF TypeOK
  <2>6. \A d \in CPU : /\ handler'[d] \in Callback <=> handler[d] \in Callback
                       /\ handler'[d] \in CallbackHead <=> handler[d] \in CallbackHead
                       /\ handler'[d] \in CallbackTail <=> handler[d] \in CallbackTail
                       /\ handler'[d] \in {"t_stop", "t_check", "t_restart"} => handler'[d] = handler[d]
                       /\ handler'[d] \in {"t_alive", "t_say", "t_next"} =>
                             handler[d] \in {"t_alive", "t_say", "t_next"}
                       /\ handler'[d] \in {"number", "call"} => handler[d] \in {"number", "call"}
    BY <2>1, <2>5 DEF HandlerSaid, Callback, CallbackHead, CallbackTail
  <2>7. UnstartedIsQuiet' /\ TargetHasIt'
    BY <2>2, <2>6 DEF UnstartedIsQuiet, TargetHasIt, Acknowledged
  <2>8. GpioIsGpio'
    BY <2>1, <2>2, <2>5 DEF GpioIsGpio, HandlerSaid
  <2>9. RunningIsAlone' /\ CountIsOwn'
    BY <2>2, <2>6 DEF RunningIsAlone, CountIsOwn
  <2>10. TimerHasATarget' /\ NoInterruptDropped'
    BY <2>2, <2>6 DEF TimerHasATarget, NoInterruptDropped
  <2> QED  BY <2>3, <2>7, <2>8, <2>9, <2>10
<1> QED  BY <1>1, <1>2

\* The handler goes to a statement outside timer_callback and touches nothing
\* that the timer or the table is about.
LEMMA PlainInv ==
  ASSUME IInv, NEW c \in CPU, NEW to \in {"entry", "iar", "number", "call", "ipi", "none", "g_say", "t_wait"},
         handler[c] \notin Callback \cup DOMAIN HandlerSaid \/ handler[c] = "t_check",
         handler[c] = "t_check" => to \in {"iar", "t_wait"},
         handler' = [handler EXCEPT ![c] = to],
         irqnr' \in [CPU -> SPI \cup {"none"}], sgi' \in SUBSET CPU,
         \A d \in CPU \ {c} : irqnr'[d] = irqnr[d],
         to \in {"number", "call"} =>
            /\ irqnr'[c] \in irq_handler
            /\ irqnr'[c] = "timer" => "timer" \in line /\ route["timer"] = c,
         to = "g_say" => irqnr'[c] \in Gpio,
         UNCHANGED <<task, boot, console, shared, gic, devices, history>>
  PROVE  IInv'
<1> USE DEF IInv, shared, gic, devices, history
<1>1. to \in HandlerLabel \ {"t_say"}
  BY DEF HandlerLabel, HandlerSaid
<1>2. TypeOK' /\ LockIsHeldInPrint' /\ EnabledAreRegistered' /\ StartedAreArmed'
  <2>1. /\ on' \in SUBSET SPI /\ line' \in SUBSET on' /\ served' \in [CPU -> Nat]
        /\ cpu_status' \in [CPU -> Status] /\ route' \in [SPI -> CPU]
        /\ interrupt_callback_count' \in 0 .. CPU_NR /\ woken' \in SUBSET CPU
    BY DEF TypeOK
  <2>2. handler[c] \notin DOMAIN HandlerSaid
    BY Labels
  <2>3. UNCHANGED <<console, enabled, irq_handler, cpu_status>>
    OBVIOUS
  <2> QED  BY <1>1, <2>1, <2>2, <2>3, HandlerFrame
<1>3. \A d \in CPU : handler'[d] = IF d = c THEN to ELSE handler[d]
  BY DEF TypeOK
<1>4. to \notin Callback
  BY DEF Callback, CallbackHead, CallbackTail
<1>5. UnstartedIsQuiet'
  BY <1>3, <1>4 DEF UnstartedIsQuiet, task
<1>6. TargetHasIt'
  BY <1>3, <1>4 DEF TargetHasIt, Acknowledged, Callback, CallbackHead
<1>7. GpioIsGpio' /\ RunningIsAlone'
  BY <1>3 DEF GpioIsGpio, RunningIsAlone
<1>8. CountIsOwn'
  BY <1>3, <1>4 DEF CountIsOwn, Callback, CallbackTail
<1>9. TimerHasATarget' /\ NoInterruptDropped'
  BY <1>3 DEF TimerHasATarget, NoInterruptDropped, boot
<1> QED  BY <1>2, <1>5, <1>6, <1>7, <1>8, <1>9

\* What a core acknowledges is enabled, so it is in the table.
LEMMA AcknowledgeInv ==
  ASSUME IInv, NEW c \in CPU, TakeInterrupt(c) \/ ReadIar(c)
  PROVE  IInv'
<1> USE DEF shared, gic, devices, history
<1>1. handler[c] \notin Callback \cup DOMAIN HandlerSaid
  BY Labels DEF TakeInterrupt, ReadIar, Handler, Callback, CallbackHead, CallbackTail
<1>2. IInv /\ irqnr \in [CPU -> SPI \cup {"none"}] /\ sgi \in SUBSET CPU
  BY DEF IInv, TypeOK
<1>3. CASE TakeInterrupt(c)
  BY <1>1, <1>2, <1>3, PlainInv DEF TakeInterrupt, Handler
<1>4. ASSUME NEW i \in Deliverable(c) \cap SPI,
             Handler(c, "iar", "number"), irqnr' = [irqnr EXCEPT ![c] = i],
             UNCHANGED <<console, shared, gic, devices, sgi, history>>
      PROVE  IInv'
  <2>1. i \in line \cap enabled /\ route[i] = c
    BY <1>4, Labels DEF Deliverable, SPI, Gpio
  <2>2. i \in irq_handler
    BY <1>2, <2>1 DEF IInv, EnabledAreRegistered
  <2> QED  BY <1>1, <1>2, <1>4, <2>1, <2>2, PlainInv DEF Handler
<1>5. CASE Handler(c, "iar", "ipi") /\ sgi' = sgi \ {c}
           /\ UNCHANGED <<irqnr, console, shared, gic, devices, history>>
  BY <1>1, <1>2, <1>5, PlainInv DEF Handler
<1>6. CASE Handler(c, "iar", "none")
           /\ UNCHANGED <<irqnr, console, shared, gic, devices, sgi, history>>
  BY <1>1, <1>2, <1>6, PlainInv DEF Handler
<1> QED  BY <1>3, <1>4, <1>5, <1>6 DEF ReadIar

\* The first core in the callback is the target; no other is left in it.
LEMMA DispatchInv ==
  ASSUME IInv, NEW c \in CPU, do_irqs(c)
  PROVE  IInv'
<1> USE DEF task, boot, shared, gic, devices, history
<1>1. /\ handler[c] = "call" /\ irqnr[c] \in irq_handler
      /\ UNCHANGED <<task, boot, irqnr, console, shared, gic, devices, sgi, history>>
  BY DEF do_irqs, Handler, IInv, NoInterruptDropped
<1>2. handler[c] \notin Callback \cup DOMAIN HandlerSaid
  BY <1>1, Labels DEF Callback, CallbackHead, CallbackTail
<1>3. CASE irqnr[c] # "timer"
  <2>1. handler' = [handler EXCEPT ![c] = "g_say"]
    BY <1>1, <1>3 DEF do_irqs, Handler
  <2>2. irqnr[c] \in Gpio
    BY <1>1, <1>3 DEF IInv, TypeOK, SPI
  <2> QED  BY <1>1, <1>2, <2>1, <2>2, PlainInv DEF IInv, TypeOK
<1>4. CASE irqnr[c] = "timer"
  <2>1. handler' = [handler EXCEPT ![c] = "t_stop"]
    BY <1>1, <1>4 DEF do_irqs, Handler
  <2>2. "timer" \in line /\ "timer" \in on /\ route["timer"] = c /\ interrupt_callback_count = c
    BY <1>1, <1>4 DEF IInv, TargetHasIt, Acknowledged, TypeOK, TimerHasATarget
  <2>3. \A d \in CPU : handler[d] \notin Callback
    <3>1. ASSUME NEW d \in CPU, handler[d] = "t_stop" PROVE FALSE
      <4>1. route["timer"] = d
        BY <3>1 DEF IInv, TargetHasIt, Acknowledged
      <4> QED  BY <1>1, <2>2, <3>1, <4>1
    <3> QED
      BY <2>2, <3>1 DEF IInv, RunningIsAlone, Callback, CallbackHead, CallbackTail
  <2>4. \A d \in CPU : handler'[d] = IF d = c THEN "t_stop" ELSE handler[d]
    BY <2>1 DEF IInv, TypeOK
  <2>5. TypeOK' /\ LockIsHeldInPrint' /\ EnabledAreRegistered' /\ StartedAreArmed'
    <3>1. /\ on' \in SUBSET SPI /\ line' \in SUBSET on' /\ served' \in [CPU -> Nat]
          /\ cpu_status' \in [CPU -> Status] /\ route' \in [SPI -> CPU]
          /\ interrupt_callback_count' \in 0 .. CPU_NR /\ woken' \in SUBSET CPU
          /\ irqnr' \in [CPU -> SPI \cup {"none"}] /\ sgi' \in SUBSET CPU
      BY <1>1 DEF IInv, TypeOK
    <3>2. "t_stop" \in HandlerLabel
      BY DEF HandlerLabel
    <3> QED  BY <1>1, <1>2, <2>1, <3>1, <3>2, HandlerFrame
  <2>6. pc[0] \notin Unstarted
    BY <2>2 DEF IInv, UnstartedIsQuiet
  <2>7. UnstartedIsQuiet' /\ TargetHasIt' /\ GpioIsGpio'
    BY <1>1, <2>2, <2>4, <2>6 DEF IInv, UnstartedIsQuiet, Unstarted, TargetHasIt, Acknowledged,
       GpioIsGpio
  <2>8. RunningIsAlone' /\ CountIsOwn'
    BY <1>1, <2>2, <2>3, <2>4 DEF IInv, RunningIsAlone, CountIsOwn, Callback, CallbackHead,
       CallbackTail
  <2>9. TimerHasATarget' /\ NoInterruptDropped'
    BY <1>1, <2>4 DEF IInv, TimerHasATarget, NoInterruptDropped
  <2> QED  BY <2>5, <2>7, <2>8, <2>9 DEF IInv
<1> QED  BY <1>3, <1>4

\* gpio_callback switches its own device off.
LEMMA GpioOffInv ==
  ASSUME IInv, NEW c \in CPU, GpioOff(c)
  PROVE  IInv'
<1> USE DEF IInv, GpioOff, Handler, task, shared, gic, boot, history
<1>1. irqnr[c] \in Gpio /\ irqnr[c] # "timer"
  BY DEF GpioIsGpio, Gpio
<1>2. \A d \in CPU : handler'[d] = IF d = c THEN "iar" ELSE handler[d]
  BY DEF TypeOK
<1>3. TypeOK' /\ LockIsHeldInPrint' /\ EnabledAreRegistered' /\ StartedAreArmed'
  <2>1. /\ on' \in SUBSET SPI /\ line' \in SUBSET on' /\ served' \in [CPU -> Nat]
        /\ cpu_status' \in [CPU -> Status] /\ route' \in [SPI -> CPU]
        /\ interrupt_callback_count' \in 0 .. CPU_NR /\ woken' \in SUBSET CPU
        /\ irqnr' \in [CPU -> SPI \cup {"none"}] /\ sgi' \in SUBSET CPU
    BY DEF TypeOK
  <2>2. "iar" \in HandlerLabel /\ handler[c] \notin DOMAIN HandlerSaid
    BY Labels DEF HandlerLabel
  <2> QED  BY <2>1, <2>2, HandlerFrame
<1>4. UnstartedIsQuiet' /\ TargetHasIt'
  BY <1>1, <1>2 DEF UnstartedIsQuiet, TargetHasIt, Acknowledged, Callback, CallbackHead,
     CallbackTail
<1>5. GpioIsGpio' /\ RunningIsAlone' /\ CountIsOwn'
  BY <1>1, <1>2 DEF GpioIsGpio, RunningIsAlone, CountIsOwn, Callback, CallbackHead, CallbackTail
<1>6. TimerHasATarget' /\ NoInterruptDropped'
  BY <1>1, <1>2 DEF TimerHasATarget, NoInterruptDropped
<1> QED  BY <1>3, <1>4, <1>5, <1>6

----------------------------------------------------------------------------
(* timer_callback *)

\* In the callback the count is the number of the core, the core is the only
\* one there, and all cores can take interrupts.
LEMMA InCallback ==
  ASSUME IInv, NEW c \in CPU, handler[c] \in Callback
  PROVE  /\ \A d \in CPU \ {c} : handler[d] \notin Callback
         /\ handler[c] \in CallbackHead => interrupt_callback_count = c
         /\ handler[c] \in CallbackTail => interrupt_callback_count = c + 1
         /\ pc[0] \notin Unstarted /\ armed = CPU /\ "timer" \in enabled
  BY DEF IInv, CountIsOwn, UnstartedIsQuiet, StartedAreArmed, EnabledAreRegistered, Unstarted,
     Unrequested

LEMMA TimerStopInv ==
  ASSUME IInv, NEW c \in CPU, TimerStop(c)
  PROVE  IInv'
<1> USE DEF IInv, TimerStop, Handler, task, boot, gic, shared
<1>1. handler[c] = "t_stop" /\ \A d \in CPU : handler'[d] = IF d = c THEN "t_alive" ELSE handler[d]
  BY DEF TypeOK
<1>2. handler[c] \in Callback
  BY <1>1 DEF Callback, CallbackHead
<1>3. TypeOK' /\ LockIsHeldInPrint' /\ EnabledAreRegistered' /\ StartedAreArmed'
  <2>1. /\ on' \in SUBSET SPI /\ line' \in SUBSET on' /\ served' \in [CPU -> Nat]
        /\ cpu_status' \in [CPU -> Status] /\ route' \in [SPI -> CPU]
        /\ interrupt_callback_count' \in 0 .. CPU_NR /\ woken' \in SUBSET CPU
        /\ irqnr' \in [CPU -> SPI \cup {"none"}] /\ sgi' \in SUBSET CPU
    BY DEF TypeOK
  <2>2. "t_alive" \in HandlerLabel /\ handler[c] \notin DOMAIN HandlerSaid
    BY Labels DEF HandlerLabel
  <2> QED  BY <2>1, <2>2, HandlerFrame
<1>4. UnstartedIsQuiet' /\ TargetHasIt' /\ GpioIsGpio'
  <2>1. \A d \in CPU : ~Acknowledged(d)'
    <3>1. \A d \in CPU : Acknowledged(d) => d = c
      BY <1>1 DEF TargetHasIt, Acknowledged
    <3> QED  BY <1>1, <3>1 DEF Acknowledged
  <2> QED  BY <1>1, <1>2, <2>1, InCallback DEF UnstartedIsQuiet, Unstarted, TargetHasIt, GpioIsGpio
<1>5. RunningIsAlone' /\ CountIsOwn'
  BY <1>1, <1>2, InCallback DEF RunningIsAlone, CountIsOwn, Callback, CallbackHead, CallbackTail,
     TypeOK
<1>6. TimerHasATarget' /\ NoInterruptDropped'
  BY <1>1 DEF TimerHasATarget, NoInterruptDropped
<1> QED  BY <1>3, <1>4, <1>5, <1>6

\* The count is a core, whose entry of cpu_status is set.
LEMMA TimerAliveInv ==
  ASSUME IInv, NEW c \in CPU, TimerAlive(c)
  PROVE  IInv'
<1> USE DEF IInv, TimerAlive, Handler, task, boot, gic, devices, history
<1>1. handler[c] = "t_alive" /\ \A d \in CPU : handler'[d] = IF d = c THEN "t_say" ELSE handler[d]
  BY DEF TypeOK
<1>2. handler[c] \in Callback
  BY <1>1 DEF Callback, CallbackHead
<1>3. cpu_status' \in [CPU -> Status]
  BY <1>1, <1>2, InCallback DEF TypeOK, Status
<1>4. TypeOK' /\ LockIsHeldInPrint' /\ EnabledAreRegistered'
  <2>1. /\ on' \in SUBSET SPI /\ line' \in SUBSET on' /\ served' \in [CPU -> Nat]
        /\ route' \in [SPI -> CPU]
        /\ interrupt_callback_count' \in 0 .. CPU_NR /\ woken' \in SUBSET CPU
        /\ irqnr' \in [CPU -> SPI \cup {"none"}] /\ sgi' \in SUBSET CPU
    BY DEF TypeOK
  <2>2. "t_say" \in HandlerLabel /\ handler[c] \notin DOMAIN HandlerSaid
    BY Labels DEF HandlerLabel
  <2> QED  BY <1>3, <2>1, <2>2, HandlerFrame
<1>5. StartedAreArmed'
  BY <1>2, InCallback DEF StartedAreArmed
<1>6. UnstartedIsQuiet' /\ TargetHasIt' /\ GpioIsGpio'
  BY <1>1, <1>2, InCallback DEF UnstartedIsQuiet, Unstarted, TargetHasIt, Acknowledged, GpioIsGpio
<1>7. RunningIsAlone' /\ CountIsOwn'
  BY <1>1, <1>2, InCallback DEF RunningIsAlone, CountIsOwn, Callback, CallbackHead, CallbackTail
<1>8. TimerHasATarget' /\ NoInterruptDropped'
  BY <1>1 DEF TimerHasATarget, NoInterruptDropped
<1> QED  BY <1>4, <1>5, <1>6, <1>7, <1>8

\* The timer is off when the count moves on and its route follows.
LEMMA TimerNextInv ==
  ASSUME IInv, NEW c \in CPU, TimerNext(c)
  PROVE  IInv'
<1> USE DEF IInv, TimerNext, Handler, task, boot, devices, history
<1>1. handler[c] = "t_next" /\ \A d \in CPU : handler'[d] = IF d = c THEN "t_restart" ELSE handler[d]
  BY DEF TypeOK
<1>2. handler[c] \in Callback /\ handler[c] \in CallbackHead
  BY <1>1 DEF Callback, CallbackHead
<1>3. interrupt_callback_count = c /\ c \in Nat /\ c < CPU_NR /\ CPU_NR \in Nat
  BY <1>2, InCallback, RoutingAssumption DEF CPU
<1>4. interrupt_callback_count' = c + 1 /\ interrupt_callback_count' \in 0 .. CPU_NR
  BY <1>3
<1>5. /\ route' \in [SPI -> CPU]
      /\ interrupt_callback_count' < CPU_NR => route'["timer"] = interrupt_callback_count'
  BY <1>3, <1>4 DEF TypeOK, CPU, SPI
<1>6. "timer" \notin on /\ "timer" \notin line
  BY <1>1 DEF RunningIsAlone, TypeOK
<1>7. TypeOK' /\ LockIsHeldInPrint' /\ EnabledAreRegistered' /\ StartedAreArmed'
  <2>1. /\ on' \in SUBSET SPI /\ line' \in SUBSET on' /\ served' \in [CPU -> Nat]
        /\ cpu_status' \in [CPU -> Status] /\ woken' \in SUBSET CPU
        /\ irqnr' \in [CPU -> SPI \cup {"none"}] /\ sgi' \in SUBSET CPU
    BY DEF TypeOK
  <2>2. "t_restart" \in HandlerLabel /\ handler[c] \notin DOMAIN HandlerSaid
    BY <1>1, Labels DEF HandlerLabel
  <2> QED  BY <1>4, <1>5, <2>1, <2>2, HandlerFrame
<1>8. UnstartedIsQuiet' /\ TargetHasIt' /\ GpioIsGpio'
  BY <1>1, <1>2, <1>6, InCallback DEF UnstartedIsQuiet, Unstarted, TargetHasIt, Acknowledged,
     GpioIsGpio
<1>9. RunningIsAlone' /\ CountIsOwn'
  BY <1>1, <1>2, <1>4, <1>5, <1>6, InCallback DEF RunningIsAlone, CountIsOwn, Callback,
     CallbackHead, CallbackTail
<1>10. TimerHasATarget' /\ NoInterruptDropped'
  BY <1>1, <1>6 DEF TimerHasATarget, NoInterruptDropped
<1> QED  BY <1>7, <1>8, <1>9, <1>10

\* The timer is started again for the next core, if there is one.
LEMMA TimerRestartInv ==
  ASSUME IInv, NEW c \in CPU, TimerRestart(c)
  PROVE  IInv'
<1> USE DEF IInv, TimerRestart, Handler, task, boot, shared, gic, history
<1>1. handler[c] = "t_restart" /\ \A d \in CPU : handler'[d] = IF d = c THEN "t_check" ELSE handler[d]
  BY DEF TypeOK
<1>2. handler[c] \in Callback /\ handler[c] \in CallbackTail
  BY <1>1 DEF Callback, CallbackTail
<1>3. "timer" \notin on /\ "timer" \notin line
  BY <1>1 DEF RunningIsAlone, TypeOK
<1>4. on' \in {on, on \cup {"timer"}} /\ ("timer" \in on' => interrupt_callback_count < CPU_NR)
  BY <1>3
<1>5. TypeOK' /\ LockIsHeldInPrint' /\ EnabledAreRegistered' /\ StartedAreArmed'
  <2>1. /\ on' \in SUBSET SPI /\ line' \in SUBSET on' /\ served' \in [CPU -> Nat]
        /\ cpu_status' \in [CPU -> Status] /\ route' \in [SPI -> CPU]
        /\ interrupt_callback_count' \in 0 .. CPU_NR /\ woken' \in SUBSET CPU
        /\ irqnr' \in [CPU -> SPI \cup {"none"}] /\ sgi' \in SUBSET CPU
    BY <1>4 DEF TypeOK, SPI
  <2>2. "t_check" \in HandlerLabel /\ handler[c] \notin DOMAIN HandlerSaid
    BY <1>1, Labels DEF HandlerLabel
  <2> QED  BY <2>1, <2>2, HandlerFrame
<1>6. UnstartedIsQuiet' /\ TargetHasIt' /\ GpioIsGpio'
  BY <1>1, <1>2, InCallback DEF UnstartedIsQuiet, Unstarted, TargetHasIt, Acknowledged, GpioIsGpio
<1>7. RunningIsAlone' /\ CountIsOwn'
  BY <1>1, <1>2, <1>3, InCallback DEF RunningIsAlone, CountIsOwn, Callback, CallbackHead,
     CallbackTail
<1>8. TimerHasATarget' /\ NoInterruptDropped'
  <2>1. "timer" \in on' => /\ route["timer"] = interrupt_callback_count
                           /\ route["timer"] \in armed /\ "timer" \in enabled \cap irq_handler
    <3>1. route["timer"] \in CPU
      BY DEF TypeOK, SPI
    <3> QED  BY <1>1, <1>2, <1>4, <3>1, InCallback DEF CountIsOwn, EnabledAreRegistered
  <2> QED  BY <1>1, <1>4, <2>1 DEF TimerHasATarget, NoInterruptDropped
<1> QED  BY <1>5, <1>6, <1>7, <1>8

LEMMA CallbackInv ==
  ASSUME IInv, NEW c \in CPU, timer_callback(c)
  PROVE  IInv'
<1>1. CASE TimerCheck(c) \/ TimerWait(c)
  <2>1. PICK to \in {"iar", "t_wait"} : handler' = [handler EXCEPT ![c] = to]
    BY <1>1 DEF TimerCheck, TimerWait, Handler
  <2>2. /\ handler[c] \in {"t_check", "t_wait"}
        /\ UNCHANGED <<task, boot, irqnr, console, shared, gic, devices, sgi, history>>
    BY <1>1 DEF TimerCheck, TimerWait, Handler
  <2>3. handler[c] \notin Callback \cup DOMAIN HandlerSaid \/ handler[c] = "t_check"
    BY <2>2, Labels DEF Callback, CallbackHead, CallbackTail
  <2>4. irqnr' \in [CPU -> SPI \cup {"none"}] /\ sgi' \in SUBSET CPU
    BY <2>2 DEF IInv, TypeOK
  <2> QED  BY <2>1, <2>2, <2>3, <2>4, PlainInv
<1> QED
  BY <1>1, TimerStopInv, TimerAliveInv, TimerNextInv, TimerRestartInv DEF timer_callback

----------------------------------------------------------------------------

LEMMA InitInv == Init => IInv
<1> SUFFICES ASSUME Init PROVE IInv
  OBVIOUS
<1>1. 0 \in CPU /\ CPU_NR \in Nat
  BY RoutingAssumption DEF CPU
<1>2. TypeOK
  <2>1. /\ pc \in [CPU -> MainLabel \cup SecondaryLabel]
        /\ \A c \in CPU : pc[c] \in IF c = 0 THEN MainLabel ELSE SecondaryLabel
    BY DEF Init, MainLabel, SecondaryLabel, Said
  <2>2. /\ handler \in [CPU -> HandlerLabel] /\ irqnr \in [CPU -> SPI \cup {"none"}]
        /\ cpu_status \in [CPU -> Status] /\ served \in [CPU -> Nat]
        /\ route \in [SPI -> CPU]
    BY <1>1 DEF Init, HandlerLabel, Status
  <2>3. interrupt_callback_count \in 0 .. CPU_NR /\ index \in CPU
    BY <1>1 DEF Init
  <2>4. /\ irq_handler \in SUBSET SPI /\ enabled \in SUBSET SPI /\ on \in SUBSET SPI
        /\ line \in SUBSET on /\ released \in BOOLEAN /\ armed \in SUBSET CPU
        /\ sgi \in SUBSET CPU /\ woken \in SUBSET CPU
        /\ console \in {<<>>} \cup (CPU \X {"task", "handler"})
    BY <1>1 DEF Init
  <2> QED  BY <2>1, <2>2, <2>3, <2>4 DEF TypeOK
<1>3. LockIsHeldInPrint /\ StartedAreArmed /\ EnabledAreRegistered
  BY <1>1 DEF Init, LockIsHeldInPrint, StartedAreArmed, EnabledAreRegistered, Unrequested
<1>4. UnstartedIsQuiet /\ TargetHasIt /\ GpioIsGpio /\ RunningIsAlone
  BY <1>1 DEF Init, UnstartedIsQuiet, TargetHasIt, Acknowledged, GpioIsGpio, RunningIsAlone,
     Callback, CallbackHead, CallbackTail
<1>5. CountIsOwn /\ TimerHasATarget /\ NoInterruptDropped
  BY <1>1 DEF Init, CountIsOwn, TimerHasATarget, NoInterruptDropped, Callback, CallbackHead,
     CallbackTail
<1> QED  BY <1>2, <1>3, <1>4, <1>5 DEF IInv

LEMMA NextInv ==
  ASSUME SlowTimer
  PROVE  IInv /\ [Next]_vars => IInv'
<1> SUFFICES ASSUME IInv, [Next]_vars PROVE IInv'
  OBVIOUS
<1>1. CASE main
  BY <1>1, MainInv
<1>2. ASSUME NEW c \in CPU \ {0}, secondary_entry(c) PROVE IInv'
  BY <1>2, SayInv, SecondaryInv DEF secondary_entry
<1>3. ASSUME NEW c \in CPU, Interrupt(c) PROVE IInv'
  BY <1>3, HandlerSayInv, AcknowledgeInv, DispatchInv, CallbackInv, GpioOffInv DEF Interrupt
<1>4. ASSUME NEW i \in SPI, Fire(i) PROVE IInv'
  BY <1>4, FireInv
<1>5. CASE UNCHANGED vars
  <2> USE <1>5 DEF vars, task, irq, shared, gic, devices, boot, history
  <2>1. TypeOK' /\ LockIsHeldInPrint' /\ StartedAreArmed'
    BY DEF IInv, TypeOK, LockIsHeldInPrint, StartedAreArmed
  <2>2. Routing'
    BY RoutingFrame
  <2> QED  BY <2>1, <2>2 DEF IInv, Routing
<1> QED
  BY <1>1, <1>2, <1>3, <1>4, <1>5 DEF Next

LEMMA InvHolds ==
  ASSUME SlowTimer
  PROVE  Spec => []IInv
  BY InitInv, NextInv, PTL DEF Spec

\* Every variable keeps its type: the index of the scans and the count of the
\* callbacks never leave the array of the cores.
THEOREM TypeCorrect ==
  ASSUME SlowTimer
  PROVE  Spec => []TypeOK
<1>1. IInv => TypeOK
  BY DEF IInv
<1> QED  BY <1>1, InvHolds, PTL

\* The callbacks of two cores never meet on the count of main.c 47-56, which
\* nothing protects.
THEOREM CallbacksAlone ==
  ASSUME SlowTimer
  PROVE  Spec => []OneCallbackAtATime
<1>1. IInv => OneCallbackAtATime
  BY DEF IInv, CountIsOwn, OneCallbackAtATime, Callback
<1> QED  BY <1>1, InvHolds, PTL

\* The timer of main.c 53-55 is only started for a core that is there, is armed
\* and is the one it is routed to.
THEOREM TargetExists ==
  ASSUME SlowTimer
  PROVE  Spec => []TimerHasATarget
<1>1. IInv => TimerHasATarget
  BY DEF IInv
<1> QED  BY <1>1, InvHolds, PTL

\* do_irqs of irq.c never finds its table without the acknowledged interrupt.
THEOREM NothingDropped ==
  ASSUME SlowTimer
  PROVE  Spec => []NoInterruptDropped
<1>1. IInv => NoInterruptDropped
  BY DEF IInv
<1> QED  BY <1>1, InvHolds, PTL
----------------------------------------------------------------------------
(* Who has been served, and what the scans of cpu_status have seen *)

\* Handler statements between the stop of the timer and the increment of the
\* count, and those at which a core has reported ALIVE and waits for core 0.
Serving == {"t_alive", "t_say", "t_next"}
Held == {"t_say", "t_next", "t_restart", "t_check", "t_wait"}

\* main before it reports ONLINE, while it is ONLINE, and while it is ALIVE.
OfflinePart == {"hello", "set_online"}
OnlinePart == {"release", "scan_online", "set_alive"}
AlivePart == {"say_online", "say_start", "req_timer", "unmask_timer", "aff_timer",
              "start_timer", "scan_alive", "set_idle"}

\* The cores below the count have been served once, and so has the core whose
\* callback is about to increment it; no other has.
ServedIsCount == \A c \in CPU :
    served[c] = IF c < interrupt_callback_count \/ handler[c] \in Serving THEN 1 ELSE 0

StatusOfMain ==
    /\ pc[0] \in OfflinePart => cpu_status[0] = "OFFLINE"
    /\ pc[0] \in OnlinePart => cpu_status[0] = "ONLINE"
    /\ pc[0] \in AlivePart => cpu_status[0] = "ALIVE"

NoneIdles == pc[0] \in OfflinePart \cup OnlinePart => \A c \in CPU : pc[c] # "idling"

\* Until core 0 is IDLE a core that is ALIVE has been served and stays in its
\* callback.
AliveIsServed ==
    cpu_status[0] # "IDLE" =>
        \A c \in CPU \ {0} : cpu_status[c] = "ALIVE" => served[c] = 1 /\ handler[c] \in Held

\* What a scan has passed is still as it was seen.
ScanSoFar ==
    /\ pc[0] \notin {"scan_online", "scan_alive"} => index = 0
    /\ \A c \in CPU :
          /\ pc[0] = "scan_online" /\ c < index => cpu_status[c] = "ONLINE"
          /\ pc[0] = "set_alive" => cpu_status[c] = "ONLINE"
          /\ pc[0] = "scan_alive" /\ c < index => cpu_status[c] = "ALIVE"
          /\ pc[0] = "set_idle" => cpu_status[c] = "ALIVE"

ServiceInv == ServedIsCount /\ StatusOfMain /\ NoneIdles /\ AliveIsServed /\ ScanSoFar

\* A step that leaves handlers, count, status and scan index alone, when
\* core 0 stays in its part of main and does not enter or leave a scan.
LEMMA ServiceFrame ==
  ASSUME IInv, ServiceInv, UNCHANGED <<handler, served, shared, index>>,
         pc' \in [CPU -> MainLabel \cup SecondaryLabel],
         \A c \in CPU : pc'[c] = "idling" => pc[c] = "idling" \/ cpu_status[0] = "ALIVE",
         \/ pc'[0] = pc[0]
         \/ /\ pc[0] \notin {"scan_online", "scan_alive"} /\ pc'[0] \notin {"set_alive", "set_idle"}
            /\ pc'[0] \in OfflinePart => pc[0] \in OfflinePart
            /\ pc'[0] \in OnlinePart => pc[0] \in OnlinePart
            /\ pc'[0] \in AlivePart => pc[0] \in AlivePart
  PROVE  ServiceInv'
<1> USE DEF ServiceInv, shared
<1>1. 0 \in CPU /\ \A c \in CPU : ~(c < 0)
  BY RoutingAssumption DEF CPU
<1>2. ServedIsCount' /\ AliveIsServed' /\ StatusOfMain'
  BY DEF ServedIsCount, AliveIsServed, StatusOfMain
<1>3. NoneIdles'
  BY <1>1 DEF NoneIdles, StatusOfMain
<1>4. ScanSoFar'
  BY <1>1 DEF ScanSoFar
<1> QED  BY <1>2, <1>3, <1>4

\* The handler of one core moves, and nothing else that the parts speak of.
LEMMA ServiceHandlerFrame ==
  ASSUME IInv, ServiceInv, UNCHANGED <<task, shared, served>>,
         NEW c \in CPU, NEW to, handler' = [handler EXCEPT ![c] = to],
         to \in Serving <=> handler[c] \in Serving,
         handler[c] \in Held /\ c # 0 /\ cpu_status[0] # "IDLE" => to \in Held
  PROVE  ServiceInv'
<1> USE DEF ServiceInv, shared, task
<1>1. \A d \in CPU : handler'[d] = IF d = c THEN to ELSE handler[d]
  BY DEF IInv, TypeOK
<1>2. ServedIsCount' /\ AliveIsServed'
  BY <1>1 DEF ServedIsCount, AliveIsServed
<1>3. StatusOfMain' /\ NoneIdles' /\ ScanSoFar'
  BY DEF StatusOfMain, NoneIdles, ScanSoFar
<1> QED  BY <1>2, <1>3

\* main reports its own status.
LEMMA ServiceStatus ==
  ASSUME IInv, ServiceInv, SetOnline \/ SetAlive \/ SetIdle
  PROVE  ServiceInv'
<1> USE DEF ServiceInv
<1>1. 0 \in CPU /\ \A c \in CPU : ~(c < 0)
  BY RoutingAssumption DEF CPU
<1>2. PICK from, st, to :
         /\ <<from, st, to>> \in {<<"set_online", "ONLINE", "release">>,
                <<"set_alive", "ALIVE", "say_online">>, <<"set_idle", "IDLE", "say_end">>}
         /\ pc[0] = from /\ pc' = [pc EXCEPT ![0] = to]
         /\ cpu_status' = [cpu_status EXCEPT ![0] = st]
         /\ UNCHANGED <<handler, served, interrupt_callback_count, index>>
  BY DEF SetOnline, SetAlive, SetIdle, SetStatus, Task, irq, history
<1>3. /\ \A c \in CPU : cpu_status'[c] = IF c = 0 THEN st ELSE cpu_status[c]
      /\ \A c \in CPU : pc'[c] = IF c = 0 THEN to ELSE pc[c]
  BY <1>2 DEF IInv, TypeOK
<1>4. ServedIsCount' /\ StatusOfMain'
  BY <1>1, <1>2, <1>3 DEF ServedIsCount, StatusOfMain, OfflinePart, OnlinePart, AlivePart
<1>5. NoneIdles'
  BY <1>1, <1>2, <1>3 DEF NoneIdles, OfflinePart, OnlinePart
<1>6. AliveIsServed'
  BY <1>1, <1>2, <1>3 DEF AliveIsServed, StatusOfMain, OfflinePart, OnlinePart, AlivePart
<1>7. ScanSoFar'
  BY <1>1, <1>2, <1>3 DEF ScanSoFar
<1> QED  BY <1>4, <1>5, <1>6, <1>7

\* A scan goes on when the entry it reads matches, and starts again when it
\* does not; the entries below the index cannot have changed since.
LEMMA ServiceScan ==
  ASSUME IInv, ServiceInv, ScanOnline \/ ScanAlive
  PROVE  ServiceInv'
<1> USE DEF ServiceInv
<1>1. 0 \in CPU /\ (\A c \in CPU : ~(c < 0)) /\ CPU_NR \in Nat /\ CPU = 0 .. CPU_NR - 1
  BY RoutingAssumption DEF CPU
<1>2. PICK from, st, to :
         /\ <<from, st, to>> \in {<<"scan_online", "ONLINE", "set_alive">>,
                                  <<"scan_alive", "ALIVE", "set_idle">>}
         /\ Scan(from, st, to)
  BY DEF ScanOnline, ScanAlive
<1>3. /\ pc[0] = from /\ pc' = [pc EXCEPT ![0] = pc'[0]]
      /\ UNCHANGED <<handler, served, shared>>
      /\ cpu_status[index] = st /\ index = CPU_NR - 1 => pc'[0] = to /\ index' = 0
      /\ cpu_status[index] = st /\ index # CPU_NR - 1 => pc'[0] = from /\ index' = index + 1
      /\ cpu_status[index] # st => pc'[0] = from /\ index' = 0
  BY <1>1, <1>2 DEF Scan, Task, irq, history, IInv, TypeOK
<1>4. \A c \in CPU : pc'[c] = IF c = 0 THEN pc'[0] ELSE pc[c]
  BY <1>1, <1>3 DEF IInv, TypeOK
<1>5. pc'[0] \in {from, to}
  BY <1>3
<1>6. ServedIsCount' /\ AliveIsServed' /\ StatusOfMain'
  BY <1>2, <1>3, <1>5 DEF ServedIsCount, AliveIsServed, StatusOfMain, shared, OfflinePart,
     OnlinePart, AlivePart
<1>7. NoneIdles'
  BY <1>2, <1>3, <1>4, <1>5 DEF NoneIdles, OfflinePart, OnlinePart
<1>8. ScanSoFar'
  <2>1. \A c \in CPU : c < index => cpu_status[c] = st
    BY <1>2, <1>3 DEF ScanSoFar
  <2>2. index \in CPU /\ \A c \in CPU : c <= CPU_NR - 1
    BY <1>1 DEF IInv, TypeOK
  <2>3. CASE cpu_status[index] = st /\ index = CPU_NR - 1
    <3>1. \A c \in CPU : cpu_status[c] = st
      BY <1>1, <2>1, <2>2, <2>3
    <3> QED  BY <1>1, <1>2, <1>3, <2>3, <3>1 DEF ScanSoFar, shared
  <2>4. CASE cpu_status[index] = st /\ index # CPU_NR - 1
    <3>1. \A c \in CPU : c < index + 1 => cpu_status[c] = st
      BY <1>1, <2>1, <2>2, <2>4
    <3> QED  BY <1>1, <1>2, <1>3, <2>4, <3>1 DEF ScanSoFar, shared
  <2>5. CASE cpu_status[index] # st
    BY <1>1, <1>2, <1>3, <2>5 DEF ScanSoFar, shared
  <2> QED  BY <2>3, <2>4, <2>5
<1> QED  BY <1>6, <1>7, <1>8

LEMMA ServiceMain ==
  ASSUME IInv, ServiceInv, main
  PROVE  ServiceInv'
<1>1. 0 \in CPU
  BY RoutingAssumption DEF CPU
<1>2. CASE SayBegin(0)
  BY <1>1, <1>2, ServiceFrame DEF SayBegin, task, irq, history, IInv, TypeOK
<1>3. CASE SayEnd(0)
  <2>1. pc[0] \in DOMAIN Said \ {"cpu_online"}
    BY <1>1, <1>3, Labels DEF SayEnd, IInv, LockIsHeldInPrint, TypeOK, MainLabel
  <2>2. pc' = [pc EXCEPT ![0] = Said[pc[0]]] /\ UNCHANGED <<handler, served, shared, index>>
    BY <1>3 DEF SayEnd, Task, irq, history
  <2>3. pc' \in [CPU -> MainLabel \cup SecondaryLabel]
    BY <2>1, <2>2, SaidMoves DEF IInv, TypeOK
  <2>4. \A c \in CPU : pc'[c] = IF c = 0 THEN Said[pc[0]] ELSE pc[c]
    BY <1>1, <2>2 DEF IInv, TypeOK
  <2>5. \A l \in DOMAIN Said \ {"cpu_online"} :
          /\ l \notin {"scan_online", "scan_alive"}
          /\ Said[l] \notin {"set_alive", "set_idle", "idling"}
          /\ Said[l] \in OfflinePart => l \in OfflinePart
          /\ Said[l] \in OnlinePart => l \in OnlinePart
          /\ Said[l] \in AlivePart => l \in AlivePart
    BY DEF Said, OfflinePart, OnlinePart, AlivePart
  <2> QED  BY <1>1, <2>1, <2>2, <2>3, <2>4, <2>5, ServiceFrame
<1>4. CASE release_secondary_cpu \/ spi_route_to_multcore_test \/ GpioTest \/ SendSgi
  <2>1. PICK from, to \in MainLabel :
          /\ pc[0] = from /\ pc' = [pc EXCEPT ![0] = to]
          /\ from \notin {"scan_online", "scan_alive"}
          /\ to \notin {"set_alive", "set_idle", "idling"}
          /\ to \in OfflinePart => from \in OfflinePart
          /\ to \in OnlinePart => from \in OnlinePart
          /\ to \in AlivePart => from \in AlivePart
    <3> USE DEF Task, MainLabel, OfflinePart, OnlinePart, AlivePart
    <3>1. CASE release_secondary_cpu \/ SendSgi
      BY <3>1 DEF release_secondary_cpu, SendSgi
    <3>2. CASE spi_route_to_multcore_test
      BY <3>2 DEF spi_route_to_multcore_test, RegisterHandler, UnmaskIrq, SetAffinity, StartDevice
    <3>3. CASE GpioTest
      <4>1. PICK from, to :
              /\ <<from, to>> \in
                    {<<"req_gpio4", "unmask_gpio4">>, <<"req_gpio4", "aff_gpio4">>,
                     <<"unmask_gpio4", "aff_gpio4">>, <<"aff_gpio4", "start_gpio4">>,
                     <<"start_gpio4", "req_gpio17">>, <<"req_gpio17", "unmask_gpio17">>,
                     <<"req_gpio17", "aff_gpio17">>, <<"unmask_gpio17", "aff_gpio17">>,
                     <<"aff_gpio17", "start_gpio17">>, <<"start_gpio17", "say_gpio_end">>}
              /\ pc[0] = from /\ pc' = [pc EXCEPT ![0] = to]
        BY <3>3 DEF GpioTest, RegisterHandler, UnmaskIrq, SetAffinity, StartDevice
      <4>2. from \in MainLabel /\ to \in MainLabel
        BY <4>1, Labels
      <4>3. from \notin {"scan_online", "scan_alive"}
            /\ to \notin {"set_alive", "set_idle", "idling"}
            /\ to \notin OfflinePart /\ to \notin OnlinePart /\ to \notin AlivePart
        BY <4>1
      <4> QED  BY <4>1, <4>2, <4>3
    <3> QED  BY <1>4, <3>1, <3>2, <3>3
  <2>2. UNCHANGED <<handler, served, shared, index>>
    BY <1>4 DEF release_secondary_cpu, spi_route_to_multcore_test, GpioTest, SendSgi, Task,
       RegisterHandler, UnmaskIrq, SetAffinity, StartDevice, irq, history
  <2>3. pc' \in [CPU -> MainLabel \cup SecondaryLabel]
        /\ \A c \in CPU : pc'[c] = IF c = 0 THEN to ELSE pc[c]
    BY <1>1, <2>1 DEF IInv, TypeOK
  <2> QED  BY <1>1, <2>1, <2>2, <2>3, ServiceFrame
<1> QED
  BY <1>2, <1>3, <1>4, ServiceStatus, ServiceScan DEF main

\* A secondary core writes its status outside its handler; ALIVE is written in
\* one that does not return before core 0 is IDLE.
LEMMA ServiceSecondary ==
  ASSUME IInv, ServiceInv, NEW c \in CPU \ {0}, secondary_entry(c)
  PROVE  ServiceInv'
<1>1. 0 \in CPU /\ c \in CPU /\ c # 0
  BY RoutingAssumption DEF CPU
<1>2. CASE SayBegin(c)
  BY <1>1, <1>2, ServiceFrame DEF SayBegin, task, irq, history, IInv, TypeOK
<1>3. CASE SayEnd(c) \/ SecondaryStart(c) \/ WaitAlive(c)
  <2>1. PICK to \in SecondaryLabel :
          pc' = [pc EXCEPT ![c] = to] /\ (to = "idling" => cpu_status[0] = "ALIVE")
    <3>1. CASE SayEnd(c)
      <4>1. pc[c] = "cpu_online"
        BY <1>1, <3>1, Labels DEF SayEnd, IInv, LockIsHeldInPrint, TypeOK, SecondaryLabel
      <4> QED  BY <3>1, <4>1 DEF SayEnd, Task, Said, SecondaryLabel
    <3>2. CASE SecondaryStart(c) \/ WaitAlive(c)
      BY <3>2 DEF SecondaryStart, WaitAlive, Task, SecondaryLabel
    <3> QED  BY <1>3, <3>1, <3>2
  <2>2. UNCHANGED <<handler, served, shared, index>>
    BY <1>3 DEF SayEnd, SecondaryStart, WaitAlive, Task, irq, history
  <2>3. pc' \in [CPU -> MainLabel \cup SecondaryLabel]
        /\ \A d \in CPU : pc'[d] = IF d = c THEN to ELSE pc[d]
    BY <1>1, <2>1 DEF IInv, TypeOK
  <2> QED  BY <1>1, <2>1, <2>2, <2>3, ServiceFrame
<1>4. CASE MarkOnline(c) \/ IdleLoop(c)
  <2> USE DEF ServiceInv
  <2>1. PICK from, st, to :
          /\ <<from, st, to>> \in {<<"mark_online", "ONLINE", "wait_alive">>,
                                   <<"idling", "IDLE", "idling">>}
          /\ pc[c] = from /\ handler[c] = "none" /\ pc' = [pc EXCEPT ![c] = to]
          /\ cpu_status' = [cpu_status EXCEPT ![c] = st]
          /\ UNCHANGED <<handler, served, interrupt_callback_count, index>>
    BY <1>4 DEF MarkOnline, IdleLoop, SetStatus, Task, irq, history
  <2>2. /\ \A d \in CPU : cpu_status'[d] = IF d = c THEN st ELSE cpu_status[d]
        /\ \A d \in CPU : pc'[d] = IF d = c THEN to ELSE pc[d]
    BY <2>1 DEF IInv, TypeOK
  <2>3. ServedIsCount' /\ StatusOfMain' /\ NoneIdles' /\ AliveIsServed'
    BY <1>1, <2>1, <2>2 DEF ServedIsCount, StatusOfMain, NoneIdles, AliveIsServed
  <2>4. ScanSoFar'
    <3>1. pc[0] \in {"scan_online", "set_alive"} => st = "ONLINE"
      BY <1>1, <2>1 DEF NoneIdles, OnlinePart
    <3>2. pc[0] \in {"scan_alive", "set_idle"} => cpu_status[c] # "ALIVE"
      BY <1>1, <2>1 DEF StatusOfMain, AliveIsServed, AlivePart, Held
    <3> QED  BY <1>1, <2>1, <2>2, <3>1, <3>2 DEF ScanSoFar
  <2> QED  BY <2>3, <2>4
<1> QED  BY <1>2, <1>3, <1>4 DEF secondary_entry

\* The handler outside the three steps of the callback that the count is about.
LEMMA ServiceHandler ==
  ASSUME IInv, ServiceInv, NEW c \in CPU,
         \/ TakeInterrupt(c) \/ HandlerSayBegin(c) \/ HandlerSayEnd(c)
         \/ ReadIar(c) \/ do_irqs(c) \/ GpioOff(c)
         \/ TimerRestart(c) \/ TimerCheck(c) \/ TimerWait(c)
  PROVE  ServiceInv'
<1>1. CASE HandlerSayBegin(c)
  BY <1>1, ServiceFrame DEF HandlerSayBegin, task, irq, history, IInv, TypeOK
<1>2. CASE HandlerSayEnd(c)
  <2>1. PICK from \in DOMAIN HandlerSaid : handler[c] = from
    BY <1>2 DEF HandlerSayEnd, IInv, LockIsHeldInPrint
  <2>2. HandlerSaid[from] \in Serving <=> from \in Serving
    BY <2>1 DEF HandlerSaid, Serving
  <2>3. from \in Held => HandlerSaid[from] \in Held
    BY <2>1 DEF HandlerSaid, Held
  <2>4. /\ UNCHANGED <<task, shared, served>>
        /\ handler' = [handler EXCEPT ![c] = HandlerSaid[from]]
    BY <1>2, <2>1 DEF HandlerSayEnd, Handler
  <2> QED  BY <2>1, <2>2, <2>3, <2>4, ServiceHandlerFrame
<1>3. CASE TakeInterrupt(c) \/ ReadIar(c) \/ do_irqs(c) \/ GpioOff(c)
  <2>1. PICK to : /\ handler' = [handler EXCEPT ![c] = to]
                  /\ to \notin Serving /\ handler[c] \notin Serving /\ handler[c] \notin Held
    BY <1>3 DEF TakeInterrupt, ReadIar, do_irqs, GpioOff, Handler, Serving, Held
  <2>2. UNCHANGED <<task, shared, served>>
    BY <1>3 DEF TakeInterrupt, ReadIar, do_irqs, GpioOff, Handler, history
  <2> QED  BY <2>1, <2>2, ServiceHandlerFrame
<1>4. CASE TimerRestart(c) \/ TimerCheck(c) \/ TimerWait(c)
  <2>1. UNCHANGED <<task, shared, served>>
    BY <1>4 DEF TimerRestart, TimerCheck, TimerWait, Handler, history
  <2>2. CASE TimerRestart(c)
    <3>1. handler[c] = "t_restart" /\ handler' = [handler EXCEPT ![c] = "t_check"]
      BY <2>2 DEF TimerRestart, Handler
    <3> QED  BY <2>1, <3>1, ServiceHandlerFrame DEF Serving, Held
  <2>3. CASE TimerCheck(c)
    <3>1. handler[c] = "t_check" /\ interrupt_callback_count = c + 1
      BY <2>3 DEF TimerCheck, Handler, IInv, CountIsOwn, CallbackTail
    <3>2. c # 0 => c + 1 # 1
      BY RoutingAssumption DEF CPU
    <3>3. PICK to : /\ handler' = [handler EXCEPT ![c] = to]
                    /\ to \in {"t_wait", "iar"} /\ (c # 0 => to = "t_wait")
      BY <2>3, <3>1, <3>2 DEF TimerCheck, Handler
    <3> QED  BY <2>1, <3>1, <3>3, ServiceHandlerFrame DEF Serving, Held
  <2>4. CASE TimerWait(c)
    <3>1. /\ handler[c] = "t_wait" /\ handler' = [handler EXCEPT ![c] = "iar"]
          /\ cpu_status[0] = "IDLE"
      BY <2>4 DEF TimerWait, Handler
    <3> QED  BY <2>1, <3>1, ServiceHandlerFrame DEF Serving
  <2> QED  BY <1>4, <2>2, <2>3, <2>4
<1> QED  BY <1>1, <1>2, <1>3, <1>4

\* The callback of core c: it is counted as served from its first step, reports
\* its core ALIVE, and counts it with the increment.
LEMMA ServiceCallback ==
  ASSUME IInv, ServiceInv, NEW c \in CPU, TimerStop(c) \/ TimerAlive(c) \/ TimerNext(c)
  PROVE  ServiceInv'
<1> USE DEF ServiceInv, task
<1>1. /\ \A d \in CPU \ {c} : handler[d] \notin Callback
      /\ interrupt_callback_count = c /\ pc[0] \notin Unstarted
      /\ c \in Nat /\ CPU \subseteq Nat
  BY InCallback, RoutingAssumption DEF TimerStop, TimerAlive, TimerNext, Handler, Callback,
     CallbackHead, CPU
<1>2. \A d \in CPU \ {c} : handler[d] \notin Serving
  BY <1>1 DEF Serving, Callback, CallbackHead
<1>3. CASE TimerStop(c)
  <2>1. /\ handler[c] = "t_stop" /\ UNCHANGED <<task, shared>>
        /\ \A d \in CPU : handler'[d] = IF d = c THEN "t_alive" ELSE handler[d]
        /\ \A d \in CPU : served'[d] = IF d = c THEN served[c] + 1 ELSE served[d]
    BY <1>3 DEF TimerStop, Handler, IInv, TypeOK
  <2>2. served[c] = 0
    BY <1>1, <2>1 DEF ServedIsCount, Serving
  <2>3. ServedIsCount'
    BY <1>1, <2>1, <2>2 DEF ServedIsCount, Serving, shared
  <2>4. AliveIsServed'
    BY <2>1 DEF AliveIsServed, Held, shared
  <2>5. StatusOfMain' /\ NoneIdles' /\ ScanSoFar'
    BY <2>1 DEF StatusOfMain, NoneIdles, ScanSoFar, shared
  <2> QED  BY <2>3, <2>4, <2>5
<1>4. CASE TimerAlive(c)
  <2>1. /\ handler[c] = "t_alive" /\ UNCHANGED <<task, interrupt_callback_count, served>>
        /\ \A d \in CPU : handler'[d] = IF d = c THEN "t_say" ELSE handler[d]
        /\ \A d \in CPU : cpu_status'[d] = IF d = c /\ c # 0 THEN "ALIVE" ELSE cpu_status[d]
    BY <1>1, <1>4 DEF TimerAlive, Handler, IInv, TypeOK, history
  <2>2. served[c] = 1
    BY <2>1 DEF ServedIsCount, Serving
  <2>3. 0 \in CPU /\ cpu_status'[0] = cpu_status[0]
    BY <2>1, RoutingAssumption DEF CPU
  <2>4. ServedIsCount'
    BY <2>1 DEF ServedIsCount, Serving
  <2>5. AliveIsServed'
    BY <2>1, <2>2, <2>3 DEF AliveIsServed, Held
  <2>6. StatusOfMain' /\ NoneIdles'
    BY <2>1, <2>3 DEF StatusOfMain, NoneIdles
  <2>7. ScanSoFar'
    <3>1. pc[0] \notin {"scan_online", "set_alive"}
      BY <1>1 DEF Unstarted, Unrequested
    <3> QED  BY <2>1, <3>1 DEF ScanSoFar
  <2> QED  BY <2>4, <2>5, <2>6, <2>7
<1>5. CASE TimerNext(c)
  <2>1. /\ handler[c] = "t_next" /\ UNCHANGED <<task, cpu_status, served>>
        /\ interrupt_callback_count' = c + 1
        /\ \A d \in CPU : handler'[d] = IF d = c THEN "t_restart" ELSE handler[d]
    BY <1>1, <1>5 DEF TimerNext, Handler, IInv, TypeOK, history
  <2>2. ServedIsCount'
    <3>1. ASSUME NEW d \in CPU
          PROVE  served'[d] = IF d < c + 1 \/ handler'[d] \in Serving THEN 1 ELSE 0
      <4>1. CASE d = c
        BY <1>1, <2>1, <4>1 DEF ServedIsCount, Serving
      <4>2. CASE d # c
        BY <1>1, <1>2, <2>1, <4>2 DEF ServedIsCount
      <4> QED  BY <4>1, <4>2
    <3> QED  BY <2>1, <3>1 DEF ServedIsCount
  <2>3. AliveIsServed'
    BY <2>1 DEF AliveIsServed, Held
  <2>4. StatusOfMain' /\ NoneIdles' /\ ScanSoFar'
    BY <2>1 DEF StatusOfMain, NoneIdles, ScanSoFar
  <2> QED  BY <2>2, <2>3, <2>4
<1> QED  BY <1>3, <1>4, <1>5

LEMMA ServiceInit == Init => ServiceInv
<1> SUFFICES ASSUME Init PROVE ServiceInv
  OBVIOUS
<1>1. 0 \in CPU /\ \A c \in CPU : ~(c < 0)
  BY RoutingAssumption DEF CPU
<1>2. ServedIsCount /\ AliveIsServed
  BY <1>1 DEF Init, ServedIsCount, AliveIsServed, Serving
<1>3. StatusOfMain /\ NoneIdles /\ ScanSoFar
  BY <1>1 DEF Init, StatusOfMain, NoneIdles, ScanSoFar, OfflinePart, OnlinePart, AlivePart
<1> QED  BY <1>2, <1>3 DEF ServiceInv

LEMMA ServiceNext == IInv /\ ServiceInv /\ [Next]_vars => ServiceInv'
<1> SUFFICES ASSUME IInv, ServiceInv, [Next]_vars PROVE ServiceInv'
  OBVIOUS
<1>1. CASE main
  BY <1>1, ServiceMain
<1>2. ASSUME NEW c \in CPU \ {0}, secondary_entry(c) PROVE ServiceInv'
  BY <1>2, ServiceSecondary
<1>3. ASSUME NEW c \in CPU, Interrupt(c) PROVE ServiceInv'
  BY <1>3, ServiceHandler, ServiceCallback DEF Interrupt, timer_callback
<1>4. ASSUME NEW i \in SPI, Fire(i) PROVE ServiceInv'
  BY <1>4, ServiceFrame DEF Fire, task, irq, history, IInv, TypeOK
<1>5. CASE UNCHANGED vars
  BY <1>5, ServiceFrame DEF vars, task, irq, history, IInv, TypeOK
<1> QED
  BY <1>1, <1>2, <1>3, <1>4, <1>5 DEF Next

LEMMA ServiceHolds ==
  ASSUME SlowTimer
  PROVE  Spec => [](IInv /\ ServiceInv)
  BY InitInv, NextInv, ServiceInit, ServiceNext, PTL DEF Spec

\* When a scan of check_all_cpu_status ends, all cores are in the state it has
\* looked for, at the same time; after the second one each of them has served the
\* timer exactly once (main.c 111 and 119).
THEOREM ScansAreExact ==
  ASSUME SlowTimer
  PROVE  Spec => []ScanIsExact
<1>1. IInv /\ ServiceInv => ScanIsExact
  <2> SUFFICES ASSUME IInv, ServiceInv PROVE ScanIsExact
    OBVIOUS
  <2> USE DEF IInv, ServiceInv
  <2>1. 0 \in CPU /\ 1 \in CPU /\ CPU \subseteq Nat
    BY RoutingAssumption DEF CPU
  <2>2. pc[0] = "set_alive" => \A c \in CPU : cpu_status[c] = "ONLINE" /\ c \in armed
    BY DEF ScanSoFar, StartedAreArmed
  <2>3. ASSUME pc[0] = "set_idle" PROVE \A c \in CPU : cpu_status[c] = "ALIVE" /\ served[c] = 1
    <3>1. \A c \in CPU : cpu_status[c] = "ALIVE"
      BY <2>3 DEF ScanSoFar
    <3>2. \A c \in CPU \ {0} : served[c] = 1
      BY <2>1, <3>1 DEF AliveIsServed
    <3>3. 1 < interrupt_callback_count \/ handler[1] \in Serving
      BY <2>1, <3>2 DEF ServedIsCount
    <3>4. 0 < interrupt_callback_count
      BY <2>1, <3>3 DEF CountIsOwn, Serving, CallbackHead, TypeOK
    <3>5. served[0] = 1
      BY <2>1, <3>4 DEF ServedIsCount
    <3> QED  BY <3>1, <3>2, <3>5
  <2> QED  BY <2>2, <2>3 DEF ScanIsExact
<1> QED  BY <1>1, ServiceHolds, PTL

\* The timer goes from core to core in ascending order, to each one once: its
\* callback on a core begins when all the cores below, and no other, have had it.
THEOREM AscendingService ==
  ASSUME SlowTimer
  PROVE  Spec => ServedInOrder
<1> DEFINE A == \A c \in CPU : served'[c] # served[c] =>
                   served[c] = 0 /\ \A d \in CPU : served[d] = 1 <=> d < c
<1>1. IInv /\ ServiceInv /\ [Next]_vars => [A]_vars
  <2> SUFFICES ASSUME IInv, ServiceInv, Next, served' # served PROVE A
    BY DEF vars, history
  <2>1. PICK c \in CPU : TimerStop(c)
    BY DEF Next, main, SayBegin, SayEnd, SetOnline, SetAlive, SetIdle, SetStatus,
       release_secondary_cpu, ScanOnline, ScanAlive, Scan, spi_route_to_multcore_test, GpioTest,
       RegisterHandler, UnmaskIrq, SetAffinity, StartDevice, SendSgi, secondary_entry,
       SecondaryStart, MarkOnline, WaitAlive, IdleLoop, Task, Interrupt, TakeInterrupt,
       HandlerSayBegin, HandlerSayEnd, ReadIar, do_irqs, timer_callback, TimerAlive, TimerNext,
       TimerRestart, TimerCheck, TimerWait, GpioOff, Fire, history
  <2>2. handler[c] = "t_stop" /\ \A d \in CPU : d # c => served'[d] = served[d]
    BY <2>1 DEF TimerStop, Handler, IInv, TypeOK
  <2>3. /\ \A d \in CPU : d # c => handler[d] \notin Callback
        /\ interrupt_callback_count = c
    BY <2>2, InCallback DEF Callback, CallbackHead
  <2>4. \A d \in CPU : handler[d] \notin Serving
    BY <2>2, <2>3 DEF Serving, Callback, CallbackHead
  <2>5. \A d \in CPU : served[d] = IF d < c THEN 1 ELSE 0
    BY <2>3, <2>4 DEF ServiceInv, ServedIsCount
  <2>6. ~(c < c)
    BY RoutingAssumption DEF CPU
  <2> QED  BY <2>2, <2>5, <2>6
<1> QED  BY <1>1, ServiceHolds, PTL DEF Spec, ServedInOrder

=============================================================================
