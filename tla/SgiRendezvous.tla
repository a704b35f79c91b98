--------------------------- MODULE SgiRendezvous ---------------------------
(***************************************************************************)
(* fy13sgi: every core brings up its interrupt interface, adds its bit to  *)
(* cpu_wait_flag under a hardware spin lock and, on a secondary core that  *)
(* reads the complete mask, sends SGI0 to every core, so that each of them *)
(* leaves its idle loop once.                                              *)
(*                                                                         *)
(* One step is one access to shared state (a lock register, the flag, the  *)
(* GIC) or one call that touches none.  The cores run with the MMU off, so *)
(* memory is strongly ordered.  cpu_wait_flag is the set of the cores      *)
(* whose bit is 1; the characters between the two accesses to the console  *)
(* lock are the subject of module Console.                                 *)
(***************************************************************************)
EXTENDS Naturals, FiniteSets

CONSTANTS CPU,          \* the CPU_MAX cores
          Master        \* the core that boots first and releases the others

ASSUME CpuAssumption == Master \in CPU /\ IsFiniteSet(CPU)

Secondary == CPU \ {Master}

VARIABLES
    pc,             \* where each core's task is, named by the source statement
    handler,        \* where each core's interrupt handler is, "none" outside
    printLock,      \* the lock register at SPIN_LOCK_BASE + 0x1000
    flagLock,       \* the lock register at SPIN_LOCK_BASE + 0x2000
    cpu_wait_flag,  \* the shared word, as the set of its 1 bits
    loaded,         \* the register |= loads into, {} once it is dead
    mask,           \* cpu_mask, the local of secondary_cpu_entry
    released,       \* has 0x2400008 been written
    distributor,    \* has GICD_CTLR been written
    redist,         \* cores whose redistributor has been told to wake up and has
                    \*   SGI0 enabled in group 1
    awake,          \* redistributors that have woken up
    cpuif,          \* cores whose CPU interface is enabled
    unmasked,       \* cores with PSTATE.IF clear
    pending,        \* cores where SGI0 is pending
    calls           \* completed calls of interrupt_callback, per core

regs  == <<loaded, mask>>
gic   == <<distributor, redist, awake, cpuif>>
vars  == <<pc, handler, printLock, flagLock, cpu_wait_flag, regs, released,
           gic, unmasked, pending, calls>>

MasterLabel == {"main", "hello", "gicd", "gicr", "gicc", "el1", "release",
                "lockW", "load", "store", "unlockW", "idle"}
SecondaryLabel == {"off", "entry", "hello", "gicr", "gicc", "el1", "lockW",
                   "load", "store", "unlockW", "lockR", "read", "unlockR",
                   "test", "say", "saying", "send", "idle"}
HandlerLabel == {"none", "ack", "print", "printing"}

Init ==
    /\ pc = [c \in CPU |-> IF c = Master THEN "main" ELSE "off"]
    /\ handler = [c \in CPU |-> "none"]
    /\ printLock = FALSE /\ flagLock = FALSE
    /\ cpu_wait_flag = {}
    /\ loaded = [c \in CPU |-> {}]
    /\ mask = [c \in CPU |-> {}]
    /\ released = FALSE /\ distributor = FALSE
    /\ redist = {} /\ awake = {} /\ cpuif = {} /\ pending = {}
    /\ unmasked = {Master}          \* start.S clears DAIF before main
    /\ calls = [c \in CPU |-> 0]

(***************************************************************************)
(* The task of core c moves between two labels; it is suspended while the  *)
(* core is in its interrupt handler.                                       *)
(***************************************************************************)
Task(c, from, to) ==
    /\ pc[c] = from
    /\ handler[c] = "none"
    /\ pc' = [pc EXCEPT ![c] = to]
    /\ UNCHANGED <<handler, calls>>

\* mprintf from its lock loop (Begin) to its unlock (End), in the task.
PrintBegin(c, from, to) ==
    /\ Task(c, from, to)
    /\ ~printLock /\ printLock' = TRUE
    /\ UNCHANGED <<flagLock, cpu_wait_flag, regs, released, gic, unmasked, pending>>

PrintEnd(c, from, to) ==
    /\ Task(c, from, to)
    /\ printLock' = FALSE
    /\ UNCHANGED <<flagLock, cpu_wait_flag, regs, released, gic, unmasked, pending>>

----------------------------------------------------------------------------
\* The bring-up shared by both entry points.

Hello(c) ==
    PrintBegin(c, IF c = Master THEN "main" ELSE "entry", "hello")

HelloEnd(c) ==
    PrintEnd(c, "hello", IF c = Master THEN "gicd" ELSE "gicr")

gicd_init(c) ==
    /\ Task(c, "gicd", "gicr")
    /\ distributor' = TRUE
    /\ UNCHANGED <<printLock, flagLock, cpu_wait_flag, regs, released, redist,
                   awake, cpuif, unmasked, pending>>

\* Mutant: cpu_id is left out of the register addresses.
gicr_init_Mutant(c) ==
    /\ Task(c, "gicr", "gicc")
    /\ redist' = redist \cup {Master}
    /\ UNCHANGED <<printLock, flagLock, cpu_wait_flag, regs, released,
                   distributor, awake, cpuif, unmasked, pending>>

\* GICR_PWRR, GICR_WAKER, the group and the enable of SGI0.  Nothing waits for
\* GICR_WAKER.ChildrenAsleep to clear: the redistributor wakes up later.
gicr_init(c) ==
    /\ Task(c, "gicr", "gicc")
    /\ redist' = redist \cup {c}
    /\ UNCHANGED <<printLock, flagLock, cpu_wait_flag, regs, released,
                   distributor, awake, cpuif, unmasked, pending>>

\* The hardware: a redistributor that has been told to wake up does so, at any
\* time after the write to GICR_WAKER.
Wake(c) ==
    /\ c \in redist \ awake
    /\ awake' = awake \cup {c}
    /\ UNCHANGED <<pc, handler, printLock, flagLock, cpu_wait_flag, regs, released,
                   distributor, redist, cpuif, unmasked, pending, calls>>

gicc_init(c) ==
    /\ Task(c, "gicc", "el1")
    /\ cpuif' = cpuif \cup {c}
    /\ UNCHANGED <<printLock, flagLock, cpu_wait_flag, regs, released,
                   distributor, redist, awake, unmasked, pending>>

switch_to_el1(c) ==
    /\ Task(c, "el1", IF c = Master THEN "release" ELSE "lockW")
    /\ unmasked' = unmasked \cup {c}
    /\ UNCHANGED <<printLock, flagLock, cpu_wait_flag, regs, released, gic, pending>>

\* main 159-161: the master lets the other cores out of reset, and only then
\* goes on to register itself.
ReleaseSecondaries(c) ==
    /\ Task(c, "release", "lockW")
    /\ released' = TRUE
    /\ UNCHANGED <<printLock, flagLock, cpu_wait_flag, regs, gic, unmasked, pending>>

SecondaryStart(c) ==
    /\ released
    /\ Task(c, "off", "entry")
    /\ UNCHANGED <<printLock, flagLock, cpu_wait_flag, regs, released, gic,
                   unmasked, pending>>

----------------------------------------------------------------------------
\* write_cpu_wait_flag: the |= is a load and a store between lock and unlock.

LockFlag(c, from, to) ==
    /\ Task(c, from, to)
    /\ ~flagLock /\ flagLock' = TRUE
    /\ UNCHANGED <<printLock, cpu_wait_flag, regs, released, gic, unmasked, pending>>

UnlockFlag(c, from, to) ==
    /\ Task(c, from, to)
    /\ flagLock' = FALSE
    /\ UNCHANGED <<printLock, cpu_wait_flag, regs, released, gic, unmasked, pending>>

\* Mutant: the lock register is read once instead of in a loop.
WriteLock_Mutant(c) ==
    /\ Task(c, "lockW", "load")
    /\ flagLock' = TRUE
    /\ UNCHANGED <<printLock, cpu_wait_flag, regs, released, gic, unmasked, pending>>

WriteLock(c) == LockFlag(c, "lockW", "load")

WriteLoad(c) ==
    /\ Task(c, "load", "store")
    /\ loaded' = [loaded EXCEPT ![c] = cpu_wait_flag]
    /\ UNCHANGED <<printLock, flagLock, cpu_wait_flag, mask, released, gic,
                   unmasked, pending>>

\* Mutant: = for |=.
WriteStore_Mutant(c) ==
    /\ Task(c, "store", "unlockW")
    /\ cpu_wait_flag' = {c}
    /\ UNCHANGED <<printLock, flagLock, regs, released, gic, unmasked, pending>>

WriteStore(c) ==
    /\ Task(c, "store", "unlockW")
    /\ cpu_wait_flag' = loaded[c] \cup {c}
    /\ loaded' = [loaded EXCEPT ![c] = {}]
    /\ UNCHANGED <<printLock, flagLock, mask, released, gic, unmasked, pending>>

\* Mutant: without the while(1) of main the master goes on.
WriteUnlock_Mutant(c) == UnlockFlag(c, "unlockW", "lockR")

WriteUnlock(c) ==
    UnlockFlag(c, "unlockW", IF c = Master THEN "idle" ELSE "lockR")

\* read_cpu_wait_flag
ReadLock(c) == LockFlag(c, "lockR", "read")

ReadLoad(c) ==
    /\ Task(c, "read", "unlockR")
    /\ mask' = [mask EXCEPT ![c] = cpu_wait_flag]
    /\ UNCHANGED <<printLock, flagLock, cpu_wait_flag, loaded, released, gic,
                   unmasked, pending>>

\* Mutant: an early return before the unlock.
ReadUnlock_Mutant(c) ==
    /\ Task(c, "unlockR", "test")
    /\ UNCHANGED <<printLock, flagLock, cpu_wait_flag, regs, released, gic,
                   unmasked, pending>>

ReadUnlock(c) == UnlockFlag(c, "unlockR", "test")

\* if ((cpu_mask + 1) == (1 << CPU_MAX))
TestMask(c) ==
    /\ Task(c, "test", IF mask[c] = CPU THEN "say" ELSE "idle")
    /\ UNCHANGED <<printLock, flagLock, cpu_wait_flag, regs, released, gic,
                   unmasked, pending>>

Say(c) == PrintBegin(c, "say", "saying")

SayEnd(c) == PrintEnd(c, "saying", "send")

\* Mutant: the broadcast form of ICC_SGI1R, which spares the sender.
SendSgi_Mutant(c) ==
    /\ Task(c, "send", "idle")
    /\ pending' = pending \cup (redist \ {c})
    /\ UNCHANGED <<printLock, flagLock, cpu_wait_flag, regs, released, gic, unmasked>>

\* The write to ICC_SGI1R_EL1.  Its target list is cpu_wait_flag read once
\* more, without the lock.  The SGI is made pending at a redistributor that
\* has it in group 1, where it waits if that redistributor is still asleep; at
\* one that has not been through gicr_init it is discarded.
SendSgi(c) ==
    /\ Task(c, "send", "idle")
    /\ pending' = pending \cup (cpu_wait_flag \cap redist)
    /\ UNCHANGED <<printLock, flagLock, cpu_wait_flag, regs, released, gic, unmasked>>

----------------------------------------------------------------------------
\* The interrupt path: vector, acknowledge, mprintf of interrupt_callback,
\* return.  Interrupts are masked by the hardware until exception_exit.

TakeInterrupt(c) ==
    /\ handler[c] = "none"
    /\ c \in pending /\ distributor
    /\ c \in redist \cap awake \cap cpuif \cap unmasked
    /\ handler' = [handler EXCEPT ![c] = "ack"]
    /\ UNCHANGED <<pc, printLock, flagLock, cpu_wait_flag, regs, released, gic,
                   unmasked, pending, calls>>

\* _do_irq: read of ICC_IAR1, then clr_intr (EOI and DIR).
AckInterrupt(c) ==
    /\ handler[c] = "ack"
    /\ handler' = [handler EXCEPT ![c] = "print"]
    /\ pending' = pending \ {c}
    /\ UNCHANGED <<pc, printLock, flagLock, cpu_wait_flag, regs, released, gic,
                   unmasked, calls>>

\* Mutant: interrupt_callback prints without taking the console lock.
CallbackBegin_Mutant(c) ==
    /\ handler[c] = "print"
    /\ printLock' = TRUE
    /\ handler' = [handler EXCEPT ![c] = "printing"]
    /\ UNCHANGED <<pc, flagLock, cpu_wait_flag, regs, released, gic, unmasked,
                   pending, calls>>

CallbackBegin(c) ==
    /\ handler[c] = "print"
    /\ ~printLock /\ printLock' = TRUE
    /\ handler' = [handler EXCEPT ![c] = "printing"]
    /\ UNCHANGED <<pc, flagLock, cpu_wait_flag, regs, released, gic, unmasked,
                   pending, calls>>

\* Mutant: the unlock at the end of mprintf is missing.
CallbackEnd_Mutant(c) ==
    /\ handler[c] = "printing"
    /\ handler' = [handler EXCEPT ![c] = "none"]
    /\ calls' = [calls EXCEPT ![c] = @ + 1]
    /\ UNCHANGED <<pc, printLock, flagLock, cpu_wait_flag, regs, released, gic,
                   unmasked, pending>>

CallbackEnd(c) ==
    /\ handler[c] = "printing"
    /\ printLock' = FALSE
    /\ handler' = [handler EXCEPT ![c] = "none"]
    /\ calls' = [calls EXCEPT ![c] = @ + 1]
    /\ UNCHANGED <<pc, flagLock, cpu_wait_flag, regs, released, gic, unmasked, pending>>

----------------------------------------------------------------------------

write_cpu_wait_flag(c) ==
    WriteLock(c) \/ WriteLoad(c) \/ WriteStore(c) \/ WriteUnlock(c)

read_cpu_wait_flag(c) == ReadLock(c) \/ ReadLoad(c) \/ ReadUnlock(c)

main(c) ==
    \/ Hello(c) \/ HelloEnd(c)
    \/ gicd_init(c) \/ gicr_init(c) \/ gicc_init(c) \/ switch_to_el1(c)
    \/ ReleaseSecondaries(c)
    \/ write_cpu_wait_flag(c)

secondary_cpu_entry(c) ==
    \/ SecondaryStart(c)
    \/ Hello(c) \/ HelloEnd(c)
    \/ gicr_init(c) \/ gicc_init(c) \/ switch_to_el1(c)
    \/ write_cpu_wait_flag(c) \/ read_cpu_wait_flag(c)
    \/ TestMask(c) \/ Say(c) \/ SayEnd(c) \/ SendSgi(c)

Interrupt(c) ==
    TakeInterrupt(c) \/ AckInterrupt(c) \/ CallbackBegin(c) \/ CallbackEnd(c)

Next ==
    \/ main(Master)
    \/ \E c \in Secondary : secondary_cpu_entry(c)
    \/ \E c \in CPU : Interrupt(c) \/ Wake(c)

\* Every core executes instructions at its own speed but does not stop, and a
\* deliverable interrupt is delivered.  A redistributor that has been told to
\* wake up wakes up.  A spinning core is promised nothing more than that its
\* loop runs: the lock need not be fair.
Fairness ==
    /\ WF_vars(main(Master))
    /\ \A c \in Secondary : WF_vars(secondary_cpu_entry(c))
    /\ \A c \in CPU : WF_vars(Interrupt(c)) /\ WF_vars(Wake(c))

Spec == Init /\ [][Next]_vars
FairSpec == Spec /\ Fairness

----------------------------------------------------------------------------
\* The history the properties refer to, read off the program counters.

Registered == {c \in CPU : pc[c] \in {"unlockW", "lockR", "read", "unlockR",
                                      "test", "say", "saying", "send", "idle"}}
HaveRead == {c \in Secondary : pc[c] \in {"unlockR", "test", "say", "saying",
                                          "send", "idle"}}
SawFull == {c \in HaveRead : mask[c] = CPU}
Senders == {c \in SawFull : pc[c] = "idle"}

FlagHolders == {c \in CPU : pc[c] \in {"load", "store", "unlockW", "read", "unlockR"}}
TaskPrinters == {c \in CPU : pc[c] \in {"hello", "saying"}}
HandlerPrinters == {c \in CPU : handler[c] = "printing"}

\* Type invariant; it also says that the master and the secondaries keep to
\* the statements of main and of secondary_cpu_entry.
TypeOK ==
    /\ pc \in [CPU -> MasterLabel \cup SecondaryLabel]
    /\ pc[Master] \in MasterLabel
    /\ \A c \in Secondary : pc[c] \in SecondaryLabel
    /\ handler \in [CPU -> HandlerLabel]
    /\ printLock \in BOOLEAN /\ flagLock \in BOOLEAN
    /\ cpu_wait_flag \in SUBSET CPU
    /\ loaded \in [CPU -> SUBSET CPU]
    /\ mask \in [CPU -> SUBSET CPU]
    /\ released \in BOOLEAN /\ distributor \in BOOLEAN
    /\ redist \in SUBSET CPU /\ awake \in SUBSET redist /\ cpuif \in SUBSET CPU
    /\ unmasked \in SUBSET CPU /\ pending \in SUBSET CPU
    /\ calls \in [CPU -> Nat]

\* Each lock register is 1 exactly while one core is between its lock loop and
\* its unlock, whether that core is there in its task or in its interrupt
\* handler (main.c 31-36 and 43-48, uart.c 125-162).
LockOwnership ==
    /\ flagLock <=> FlagHolders # {}
    /\ \A c, d \in FlagHolders : c = d
    /\ printLock <=> TaskPrinters \cup HandlerPrinters # {}
    /\ \A c, d \in TaskPrinters : c = d
    /\ \A c, d \in HandlerPrinters : c = d
    /\ TaskPrinters = {} \/ HandlerPrinters = {}

\* No registration is lost or invented: the shared word holds exactly the
\* cores whose store has been done, although each |= is a separate load and
\* store (main.c 34).
FlagExact == cpu_wait_flag = Registered

\* The flag principle.  Each secondary sets its own bit before it reads the
\* word, so of any two that have read at least one saw the other, and the
\* masks they read are ordered by inclusion (main.c 183-184).
MasksOrdered ==
    \A c, d \in HaveRead :
        /\ c \in mask[c]
        /\ mask[c] \subseteq mask[d] \/ mask[d] \subseteq mask[c]

\* Once every secondary has read, one of them has seen all the secondaries;
\* that core can only fail to send because of the master (main.c 184-186).
LastReaderSeesAll ==
    HaveRead = Secondary /\ Secondary # {} =>
        \E c \in Secondary : Secondary \subseteq mask[c]

\* A core is counted before its redistributor need be awake, since gicr_init
\* does not wait for it (main.c 70-81).  So the SGI may come before it can be
\* taken, and must be kept.  At a counted core nothing but the wake-up is
\* missing: distributor, redistributor, CPU interface and PSTATE have been set
\* up before the flag (main.c 153-165 and 179-183).  Once an SGI has been sent,
\* every core, asleep or not, has it pending, is in its handler or has been
\* called back; none has lost it.
CountedCoresAreArmed ==
    /\ cpu_wait_flag # {} => distributor
    /\ cpu_wait_flag \subseteq redist \cap cpuif \cap unmasked
    /\ Senders # {} =>
           \A c \in CPU : c \in pending \/ handler[c] # "none" \/ calls[c] > 0

\* Although the target list is read again without the lock after the message
\* has been printed (main.c 188), it is still every core, and every core has
\* the SGI pending after the write.
SendReachesAll ==
    [][\A c \in Secondary : pc[c] = "send" /\ pc'[c] = "idle" => pending' = CPU]_vars

----------------------------------------------------------------------------
\* If the master has registered while some secondary has yet to read the
\* word, the SGI is sent (main.c 165 before 184 on some core).
MasterInTimeIsSent ==
    (Master \in cpu_wait_flag /\ HaveRead # Secondary) ~> (Senders # {})

\* When only one secondary ever sees the complete mask, its SGI wakes every
\* core: interrupt_callback returns on each of them (main.c 186-188, 52-55).
SoleSenderWakesAll ==
    [](Cardinality(SawFull) <= 1) =>
        \A c \in CPU : (Senders # {}) ~> (calls[c] > 0)

\* What main.c 187 prints, "send SGI0 to all cpu", as the goal of the
\* program: once the cores have been released, somebody sends the SGI.
SgiAlwaysSent == released ~> (Senders # {})

\* ... and once it has been sent it wakes every core.
SentWakesAll == \A c \in CPU : (Senders # {}) ~> (calls[c] > 0)
=============================================================================
