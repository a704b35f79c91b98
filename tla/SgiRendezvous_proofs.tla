----------------------- MODULE SgiRendezvous_proofs -----------------------
(* Proofs about SgiRendezvous, for every finite set of cores. *)
EXTENDS SgiRendezvous, TLAPS

\* A step of the system is one of the following, by the core c.
StepOf(c) ==
    \/ Hello(c) \/ HelloEnd(c)
    \/ c = Master /\ (gicd_init(c) \/ ReleaseSecondaries(c))
    \/ gicr_init(c) \/ gicc_init(c) \/ switch_to_el1(c)
    \/ write_cpu_wait_flag(c)
    \/ c \in Secondary /\ ( SecondaryStart(c) \/ read_cpu_wait_flag(c)
                            \/ TestMask(c) \/ Say(c) \/ SayEnd(c) \/ SendSgi(c))
    \/ Interrupt(c) \/ Wake(c)

LEMMA NextIsAStep == Next => \E c \in CPU : StepOf(c)
  BY CpuAssumption DEF Next, StepOf, main, secondary_cpu_entry, Secondary

LEMMA TypeStep ==
  ASSUME TypeOK, NEW c \in CPU, StepOf(c) PROVE TypeOK'
<1> USE CpuAssumption DEF TypeOK, MasterLabel, SecondaryLabel, HandlerLabel,
                          Secondary, Task, regs, gic
<1>1. CASE Hello(c)                    BY <1>1 DEF Hello, PrintBegin
<1>2. CASE HelloEnd(c)                 BY <1>2 DEF HelloEnd, PrintEnd
<1>3. CASE c = Master /\ gicd_init(c)  BY <1>3 DEF gicd_init
<1>4. CASE c = Master /\ ReleaseSecondaries(c)
                                       BY <1>4 DEF ReleaseSecondaries
<1>5. CASE gicr_init(c)                BY <1>5 DEF gicr_init
<1>6. CASE gicc_init(c)                BY <1>6 DEF gicc_init
<1>7. CASE switch_to_el1(c)            BY <1>7 DEF switch_to_el1
<1>8. CASE WriteLock(c)                BY <1>8 DEF WriteLock, LockFlag
<1>9. CASE WriteLoad(c)                BY <1>9 DEF WriteLoad
<1>10. CASE WriteStore(c)              BY <1>10 DEF WriteStore
<1>11. CASE WriteUnlock(c)             BY <1>11 DEF WriteUnlock, UnlockFlag
<1>12. CASE SecondaryStart(c) /\ c \in Secondary
                                       BY <1>12 DEF SecondaryStart
<1>13. CASE ReadLock(c) /\ c \in Secondary
                                       BY <1>13 DEF ReadLock, LockFlag
<1>14. CASE ReadLoad(c) /\ c \in Secondary
                                       BY <1>14 DEF ReadLoad
<1>15. CASE ReadUnlock(c) /\ c \in Secondary
                                       BY <1>15 DEF ReadUnlock, UnlockFlag
<1>16. CASE TestMask(c) /\ c \in Secondary
                                       BY <1>16 DEF TestMask
<1>17. CASE Say(c) /\ c \in Secondary  BY <1>17 DEF Say, PrintBegin
<1>18. CASE SayEnd(c) /\ c \in Secondary
                                       BY <1>18 DEF SayEnd, PrintEnd
<1>19. CASE SendSgi(c) /\ c \in Secondary
                                       BY <1>19 DEF SendSgi
<1>20. CASE TakeInterrupt(c)           BY <1>20 DEF TakeInterrupt
<1>21. CASE AckInterrupt(c)            BY <1>21 DEF AckInterrupt
<1>22. CASE CallbackBegin(c)           BY <1>22 DEF CallbackBegin
<1>23. CASE CallbackEnd(c)
  <2>1. calls' \in [CPU -> Nat]        BY <1>23 DEF CallbackEnd
  <2>2. handler' \in [CPU -> HandlerLabel]
                                       BY <1>23 DEF CallbackEnd
  <2>3. QED                            BY <1>23, <2>1, <2>2, Zenon DEF CallbackEnd
<1>24. CASE Wake(c)                    BY <1>24 DEF Wake
<1>25. QED
  BY <1>1, <1>2, <1>3, <1>4, <1>5, <1>6, <1>7, <1>8, <1>9, <1>10,
     <1>11, <1>12, <1>13, <1>14, <1>15, <1>16, <1>17, <1>18, <1>19,
     <1>20, <1>21, <1>22, <1>23, <1>24
  DEF StepOf, write_cpu_wait_flag, read_cpu_wait_flag, Interrupt

LEMMA InitType == Init => TypeOK
<1> SUFFICES ASSUME Init PROVE TypeOK
  OBVIOUS
<1>1. Master \in CPU
  BY CpuAssumption
<1>2. /\ pc \in [CPU -> MasterLabel \cup SecondaryLabel] /\ pc[Master] \in MasterLabel
      /\ \A c \in Secondary : pc[c] \in SecondaryLabel
  BY <1>1 DEF Init, MasterLabel, SecondaryLabel, Secondary
<1>3. /\ handler \in [CPU -> HandlerLabel] /\ calls \in [CPU -> Nat]
      /\ loaded \in [CPU -> SUBSET CPU] /\ mask \in [CPU -> SUBSET CPU]
  BY DEF Init, HandlerLabel
<1>4. /\ cpu_wait_flag \in SUBSET CPU /\ redist \in SUBSET CPU /\ awake \in SUBSET redist /\ cpuif \in SUBSET CPU
      /\ unmasked \in SUBSET CPU /\ pending \in SUBSET CPU
      /\ printLock \in BOOLEAN /\ flagLock \in BOOLEAN
      /\ released \in BOOLEAN /\ distributor \in BOOLEAN
  BY <1>1 DEF Init
<1> QED
  BY <1>2, <1>3, <1>4 DEF TypeOK

\* Every variable keeps its type, and the master and the secondaries keep to
\* the statements of main and of secondary_cpu_entry (main.c 145-190).
THEOREM TypeCorrect == Spec => []TypeOK
<1>1. TypeOK /\ [Next]_vars => TypeOK'
  <2> SUFFICES ASSUME TypeOK, [Next]_vars PROVE TypeOK'
    OBVIOUS
  <2>1. CASE UNCHANGED vars
    BY <2>1 DEF TypeOK, vars, regs, gic
  <2>2. QED
    BY <2>1, TypeStep, NextIsAStep
<1>2. QED
  BY InitType, <1>1, PTL DEF Spec

----------------------------------------------------------------------------
LEMMA LockOwnershipStep ==
  ASSUME TypeOK, LockOwnership, NEW c \in CPU, StepOf(c) PROVE LockOwnership'
<1> USE CpuAssumption, TypeOK DEF LockOwnership, FlagHolders, TaskPrinters, HandlerPrinters, TypeOK, Task, regs, gic, Secondary
<1>1. CASE Hello(c)                          BY <1>1 DEF Hello, PrintBegin
<1>2. CASE HelloEnd(c)                       BY <1>2 DEF HelloEnd, PrintEnd
<1>3. CASE c = Master /\ gicd_init(c)        BY <1>3 DEF gicd_init
<1>4. CASE c = Master /\ ReleaseSecondaries(c) BY <1>4 DEF ReleaseSecondaries
<1>5. CASE gicr_init(c)                      BY <1>5 DEF gicr_init
<1>6. CASE gicc_init(c)                      BY <1>6 DEF gicc_init
<1>7. CASE switch_to_el1(c)                  BY <1>7 DEF switch_to_el1
<1>8. CASE WriteLock(c)                      BY <1>8 DEF WriteLock, LockFlag
<1>9. CASE WriteLoad(c)                      BY <1>9 DEF WriteLoad
<1>10. CASE WriteStore(c)                    BY <1>10 DEF WriteStore
<1>11. CASE WriteUnlock(c)                   BY <1>11 DEF WriteUnlock, UnlockFlag
<1>12. CASE SecondaryStart(c) /\ c \in Secondary BY <1>12 DEF SecondaryStart
<1>13. CASE ReadLock(c) /\ c \in Secondary   BY <1>13 DEF ReadLock, LockFlag
<1>14. CASE ReadLoad(c) /\ c \in Secondary   BY <1>14 DEF ReadLoad
<1>15. CASE ReadUnlock(c) /\ c \in Secondary BY <1>15 DEF ReadUnlock, UnlockFlag
<1>16. CASE TestMask(c) /\ c \in Secondary   BY <1>16 DEF TestMask
<1>17. CASE Say(c) /\ c \in Secondary        BY <1>17 DEF Say, PrintBegin
<1>18. CASE SayEnd(c) /\ c \in Secondary     BY <1>18 DEF SayEnd, PrintEnd
<1>19. CASE SendSgi(c) /\ c \in Secondary    BY <1>19 DEF SendSgi
<1>20. CASE TakeInterrupt(c)                 BY <1>20 DEF TakeInterrupt
<1>21. CASE AckInterrupt(c)                  BY <1>21 DEF AckInterrupt
<1>22. CASE CallbackBegin(c)                 BY <1>22 DEF CallbackBegin
<1>23. CASE CallbackEnd(c)                   BY <1>23 DEF CallbackEnd
<1>24. CASE Wake(c)                          BY <1>24 DEF Wake
<1>25. QED
  BY <1>1, <1>2, <1>3, <1>4, <1>5, <1>6, <1>7, <1>8, <1>9, <1>10, <1>11, <1>12, <1>13, <1>14, <1>15, <1>16, <1>17, <1>18, <1>19, <1>20, <1>21, <1>22, <1>23, <1>24
  DEF StepOf, write_cpu_wait_flag, read_cpu_wait_flag, Interrupt

----------------------------------------------------------------------------
(* The strengthening of the safety invariants.  What a core has loaded stays *)
(* the current value of the word while it holds the lock; a mask that was    *)
(* read stays a part of the word; a core's interrupt interface is on from    *)
(* the statement that enables it, and the secondaries run only when the      *)
(* master has set up the distributor and released them; an SGI that has been *)
(* sent is pending, being handled or done on every core.                     *)

LoadIsCurrent == \A c \in CPU : pc[c] = "store" => loaded[c] = cpu_wait_flag

MasksAreOld == \A c \in HaveRead : mask[c] \subseteq cpu_wait_flag

FullBeforeSend == \A c \in CPU : pc[c] \in {"say", "saying", "send"} => mask[c] = CPU

ArmedInOrder ==
    \A c \in CPU :
        LET before(S) == pc[c] \in {"main", "off", "entry", "hello", "gicd"} \cup S
        IN  /\ before({"gicr"}) \/ c \in redist
            /\ before({"gicr", "gicc"}) \/ c \in cpuif
            /\ before({"gicr", "gicc", "el1"}) \/ c \in unmasked

ReleasedInOrder ==
    /\ pc[Master] \in {"main", "hello", "gicd"} \/ distributor
    /\ released => distributor
    /\ \A c \in Secondary : pc[c] # "off" => released

SgiKept ==
    Senders # {} => \A c \in CPU : c \in pending \/ handler[c] # "none" \/ calls[c] > 0

LEMMA ArmedInOrderStep ==
  ASSUME TypeOK, ArmedInOrder, NEW c \in CPU, StepOf(c) PROVE ArmedInOrder'
<1> USE CpuAssumption, TypeOK, ArmedInOrder DEF ArmedInOrder, TypeOK, Task, regs, gic, Secondary
<1>1. CASE Hello(c)                          BY <1>1 DEF Hello, PrintBegin
<1>2. CASE HelloEnd(c)                       BY <1>2 DEF HelloEnd, PrintEnd
<1>3. CASE c = Master /\ gicd_init(c)        BY <1>3 DEF gicd_init
<1>4. CASE c = Master /\ ReleaseSecondaries(c) BY <1>4 DEF ReleaseSecondaries
<1>5. CASE gicr_init(c)                      BY <1>5 DEF gicr_init
<1>6. CASE gicc_init(c)                      BY <1>6 DEF gicc_init
<1>7. CASE switch_to_el1(c)                  BY <1>7 DEF switch_to_el1
<1>8. CASE WriteLock(c)                      BY <1>8 DEF WriteLock, LockFlag
<1>9. CASE WriteLoad(c)                      BY <1>9 DEF WriteLoad
<1>10. CASE WriteStore(c)                    BY <1>10 DEF WriteStore
<1>11. CASE WriteUnlock(c)                   BY <1>11 DEF WriteUnlock, UnlockFlag
<1>12. CASE SecondaryStart(c) /\ c \in Secondary BY <1>12 DEF SecondaryStart
<1>13. CASE ReadLock(c) /\ c \in Secondary   BY <1>13 DEF ReadLock, LockFlag
<1>14. CASE ReadLoad(c) /\ c \in Secondary   BY <1>14 DEF ReadLoad
<1>15. CASE ReadUnlock(c) /\ c \in Secondary BY <1>15 DEF ReadUnlock, UnlockFlag
<1>16. CASE TestMask(c) /\ c \in Secondary   BY <1>16 DEF TestMask
<1>17. CASE Say(c) /\ c \in Secondary        BY <1>17 DEF Say, PrintBegin
<1>18. CASE SayEnd(c) /\ c \in Secondary     BY <1>18 DEF SayEnd, PrintEnd
<1>19. CASE SendSgi(c) /\ c \in Secondary    BY <1>19 DEF SendSgi
<1>20. CASE TakeInterrupt(c)                 BY <1>20 DEF TakeInterrupt
<1>21. CASE AckInterrupt(c)                  BY <1>21 DEF AckInterrupt
<1>22. CASE CallbackBegin(c)                 BY <1>22 DEF CallbackBegin
<1>23. CASE CallbackEnd(c)                   BY <1>23 DEF CallbackEnd
<1>24. CASE Wake(c)                          BY <1>24 DEF Wake
<1>25. QED
  BY <1>1, <1>2, <1>3, <1>4, <1>5, <1>6, <1>7, <1>8, <1>9, <1>10, <1>11, <1>12, <1>13, <1>14, <1>15, <1>16, <1>17, <1>18, <1>19, <1>20, <1>21, <1>22, <1>23, <1>24
  DEF StepOf, write_cpu_wait_flag, read_cpu_wait_flag, Interrupt

LEMMA ReleasedInOrderStep ==
  ASSUME TypeOK, ReleasedInOrder, NEW c \in CPU, StepOf(c) PROVE ReleasedInOrder'
<1> USE CpuAssumption, TypeOK, ReleasedInOrder DEF ReleasedInOrder, TypeOK, Task, regs, gic, Secondary
<1>1. CASE Hello(c)                          BY <1>1 DEF Hello, PrintBegin
<1>2. CASE HelloEnd(c)                       BY <1>2 DEF HelloEnd, PrintEnd
<1>3. CASE c = Master /\ gicd_init(c)        BY <1>3 DEF gicd_init
<1>4. CASE c = Master /\ ReleaseSecondaries(c) BY <1>4 DEF ReleaseSecondaries
<1>5. CASE gicr_init(c)                      BY <1>5 DEF gicr_init
<1>6. CASE gicc_init(c)                      BY <1>6 DEF gicc_init
<1>7. CASE switch_to_el1(c)                  BY <1>7 DEF switch_to_el1
<1>8. CASE WriteLock(c)                      BY <1>8 DEF WriteLock, LockFlag
<1>9. CASE WriteLoad(c)                      BY <1>9 DEF WriteLoad
<1>10. CASE WriteStore(c)                    BY <1>10 DEF WriteStore
<1>11. CASE WriteUnlock(c)                   BY <1>11 DEF WriteUnlock, UnlockFlag
<1>12. CASE SecondaryStart(c) /\ c \in Secondary BY <1>12 DEF SecondaryStart
<1>13. CASE ReadLock(c) /\ c \in Secondary   BY <1>13 DEF ReadLock, LockFlag
<1>14. CASE ReadLoad(c) /\ c \in Secondary   BY <1>14 DEF ReadLoad
<1>15. CASE ReadUnlock(c) /\ c \in Secondary BY <1>15 DEF ReadUnlock, UnlockFlag
<1>16. CASE TestMask(c) /\ c \in Secondary   BY <1>16 DEF TestMask
<1>17. CASE Say(c) /\ c \in Secondary        BY <1>17 DEF Say, PrintBegin
<1>18. CASE SayEnd(c) /\ c \in Secondary     BY <1>18 DEF SayEnd, PrintEnd
<1>19. CASE SendSgi(c) /\ c \in Secondary    BY <1>19 DEF SendSgi
<1>20. CASE TakeInterrupt(c)                 BY <1>20 DEF TakeInterrupt
<1>21. CASE AckInterrupt(c)                  BY <1>21 DEF AckInterrupt
<1>22. CASE CallbackBegin(c)                 BY <1>22 DEF CallbackBegin
<1>23. CASE CallbackEnd(c)                   BY <1>23 DEF CallbackEnd
<1>24. CASE Wake(c)                          BY <1>24 DEF Wake
<1>25. QED
  BY <1>1, <1>2, <1>3, <1>4, <1>5, <1>6, <1>7, <1>8, <1>9, <1>10, <1>11, <1>12, <1>13, <1>14, <1>15, <1>16, <1>17, <1>18, <1>19, <1>20, <1>21, <1>22, <1>23, <1>24
  DEF StepOf, write_cpu_wait_flag, read_cpu_wait_flag, Interrupt

LEMMA FlagExactStep ==
  ASSUME TypeOK, LockOwnership, FlagExact, LoadIsCurrent, NEW c \in CPU, StepOf(c)
  PROVE  FlagExact' /\ LoadIsCurrent'
<1> USE CpuAssumption, TypeOK, LoadIsCurrent DEF FlagExact, LoadIsCurrent, Registered, TypeOK, Task, regs, gic, Secondary
<1>1. CASE Hello(c)                          BY <1>1 DEF Hello, PrintBegin
<1>2. CASE HelloEnd(c)                       BY <1>2 DEF HelloEnd, PrintEnd
<1>3. CASE c = Master /\ gicd_init(c)        BY <1>3 DEF gicd_init
<1>4. CASE c = Master /\ ReleaseSecondaries(c) BY <1>4 DEF ReleaseSecondaries
<1>5. CASE gicr_init(c)                      BY <1>5 DEF gicr_init
<1>6. CASE gicc_init(c)                      BY <1>6 DEF gicc_init
<1>7. CASE switch_to_el1(c)                  BY <1>7 DEF switch_to_el1
<1>8. CASE WriteLock(c)                      BY <1>8 DEF WriteLock, LockFlag
<1>9. CASE WriteLoad(c)                      BY <1>9 DEF WriteLoad
<1>10. CASE WriteStore(c)                    BY <1>10, LockOwnership DEF WriteStore, LockOwnership, FlagHolders
<1>11. CASE WriteUnlock(c)                   BY <1>11 DEF WriteUnlock, UnlockFlag
<1>12. CASE SecondaryStart(c) /\ c \in Secondary BY <1>12 DEF SecondaryStart
<1>13. CASE ReadLock(c) /\ c \in Secondary   BY <1>13 DEF ReadLock, LockFlag
<1>14. CASE ReadLoad(c) /\ c \in Secondary   BY <1>14 DEF ReadLoad
<1>15. CASE ReadUnlock(c) /\ c \in Secondary BY <1>15 DEF ReadUnlock, UnlockFlag
<1>16. CASE TestMask(c) /\ c \in Secondary   BY <1>16 DEF TestMask
<1>17. CASE Say(c) /\ c \in Secondary        BY <1>17 DEF Say, PrintBegin
<1>18. CASE SayEnd(c) /\ c \in Secondary     BY <1>18 DEF SayEnd, PrintEnd
<1>19. CASE SendSgi(c) /\ c \in Secondary    BY <1>19 DEF SendSgi
<1>20. CASE TakeInterrupt(c)                 BY <1>20 DEF TakeInterrupt
<1>21. CASE AckInterrupt(c)                  BY <1>21 DEF AckInterrupt
<1>22. CASE CallbackBegin(c)                 BY <1>22 DEF CallbackBegin
<1>23. CASE CallbackEnd(c)                   BY <1>23 DEF CallbackEnd
<1>24. CASE Wake(c)                          BY <1>24 DEF Wake
<1>25. QED
  BY <1>1, <1>2, <1>3, <1>4, <1>5, <1>6, <1>7, <1>8, <1>9, <1>10, <1>11, <1>12, <1>13, <1>14, <1>15, <1>16, <1>17, <1>18, <1>19, <1>20, <1>21, <1>22, <1>23, <1>24
  DEF StepOf, write_cpu_wait_flag, read_cpu_wait_flag, Interrupt

LEMMA MasksStep ==
  ASSUME TypeOK, FlagExact, LoadIsCurrent, MasksAreOld, MasksOrdered, FullBeforeSend,
         NEW c \in CPU, StepOf(c)
  PROVE  MasksAreOld' /\ MasksOrdered' /\ FullBeforeSend'
<1> USE CpuAssumption, TypeOK DEF FlagExact, Registered, MasksAreOld, MasksOrdered, FullBeforeSend, HaveRead, TypeOK, Task, regs, gic, Secondary
<1>1. CASE Hello(c)                          BY <1>1 DEF Hello, PrintBegin
<1>2. CASE HelloEnd(c)                       BY <1>2 DEF HelloEnd, PrintEnd
<1>3. CASE c = Master /\ gicd_init(c)        BY <1>3 DEF gicd_init
<1>4. CASE c = Master /\ ReleaseSecondaries(c) BY <1>4 DEF ReleaseSecondaries
<1>5. CASE gicr_init(c)                      BY <1>5 DEF gicr_init
<1>6. CASE gicc_init(c)                      BY <1>6 DEF gicc_init
<1>7. CASE switch_to_el1(c)                  BY <1>7 DEF switch_to_el1
<1>8. CASE WriteLock(c)                      BY <1>8 DEF WriteLock, LockFlag
<1>9. CASE WriteLoad(c)                      BY <1>9 DEF WriteLoad
<1>10. CASE WriteStore(c)
  <2>1. cpu_wait_flag \subseteq cpu_wait_flag'
    BY <1>10 DEF WriteStore, LoadIsCurrent
  <2>2. QED
    BY <1>10, <2>1 DEF WriteStore
<1>11. CASE WriteUnlock(c)                   BY <1>11 DEF WriteUnlock, UnlockFlag
<1>12. CASE SecondaryStart(c) /\ c \in Secondary BY <1>12 DEF SecondaryStart
<1>13. CASE ReadLock(c) /\ c \in Secondary   BY <1>13 DEF ReadLock, LockFlag
<1>14. CASE ReadLoad(c) /\ c \in Secondary   BY <1>14 DEF ReadLoad
<1>15. CASE ReadUnlock(c) /\ c \in Secondary BY <1>15 DEF ReadUnlock, UnlockFlag
<1>16. CASE TestMask(c) /\ c \in Secondary   BY <1>16 DEF TestMask
<1>17. CASE Say(c) /\ c \in Secondary        BY <1>17 DEF Say, PrintBegin
<1>18. CASE SayEnd(c) /\ c \in Secondary     BY <1>18 DEF SayEnd, PrintEnd
<1>19. CASE SendSgi(c) /\ c \in Secondary    BY <1>19 DEF SendSgi
<1>20. CASE TakeInterrupt(c)                 BY <1>20 DEF TakeInterrupt
<1>21. CASE AckInterrupt(c)                  BY <1>21 DEF AckInterrupt
<1>22. CASE CallbackBegin(c)                 BY <1>22 DEF CallbackBegin
<1>23. CASE CallbackEnd(c)                   BY <1>23 DEF CallbackEnd
<1>24. CASE Wake(c)                          BY <1>24 DEF Wake
<1>25. QED
  BY <1>1, <1>2, <1>3, <1>4, <1>5, <1>6, <1>7, <1>8, <1>9, <1>10, <1>11, <1>12, <1>13, <1>14, <1>15, <1>16, <1>17, <1>18, <1>19, <1>20, <1>21, <1>22, <1>23, <1>24
  DEF StepOf, write_cpu_wait_flag, read_cpu_wait_flag, Interrupt

LEMMA LastReaderStep ==
  ASSUME TypeOK, FlagExact, LastReaderSeesAll, NEW c \in CPU, StepOf(c)
  PROVE  LastReaderSeesAll'
<1> USE CpuAssumption, TypeOK DEF FlagExact, Registered, LastReaderSeesAll, HaveRead, TypeOK, Task, regs, gic, Secondary
<1>1. CASE Hello(c)                          BY <1>1 DEF Hello, PrintBegin
<1>2. CASE HelloEnd(c)                       BY <1>2 DEF HelloEnd, PrintEnd
<1>3. CASE c = Master /\ gicd_init(c)        BY <1>3 DEF gicd_init
<1>4. CASE c = Master /\ ReleaseSecondaries(c) BY <1>4 DEF ReleaseSecondaries
<1>5. CASE gicr_init(c)                      BY <1>5 DEF gicr_init
<1>6. CASE gicc_init(c)                      BY <1>6 DEF gicc_init
<1>7. CASE switch_to_el1(c)                  BY <1>7 DEF switch_to_el1
<1>8. CASE WriteLock(c)                      BY <1>8 DEF WriteLock, LockFlag
<1>9. CASE WriteLoad(c)                      BY <1>9 DEF WriteLoad
<1>10. CASE WriteStore(c)                    BY <1>10 DEF WriteStore
<1>11. CASE WriteUnlock(c)                   BY <1>11 DEF WriteUnlock, UnlockFlag
<1>12. CASE SecondaryStart(c) /\ c \in Secondary BY <1>12 DEF SecondaryStart
<1>13. CASE ReadLock(c) /\ c \in Secondary   BY <1>13 DEF ReadLock, LockFlag
<1>14. CASE ReadLoad(c) /\ c \in Secondary   BY <1>14 DEF ReadLoad
<1>15. CASE ReadUnlock(c) /\ c \in Secondary BY <1>15 DEF ReadUnlock, UnlockFlag
<1>16. CASE TestMask(c) /\ c \in Secondary   BY <1>16 DEF TestMask
<1>17. CASE Say(c) /\ c \in Secondary        BY <1>17 DEF Say, PrintBegin
<1>18. CASE SayEnd(c) /\ c \in Secondary     BY <1>18 DEF SayEnd, PrintEnd
<1>19. CASE SendSgi(c) /\ c \in Secondary    BY <1>19 DEF SendSgi
<1>20. CASE TakeInterrupt(c)                 BY <1>20 DEF TakeInterrupt
<1>21. CASE AckInterrupt(c)                  BY <1>21 DEF AckInterrupt
<1>22. CASE CallbackBegin(c)                 BY <1>22 DEF CallbackBegin
<1>23. CASE CallbackEnd(c)                   BY <1>23 DEF CallbackEnd
<1>24. CASE Wake(c)                          BY <1>24 DEF Wake
<1>25. QED
  BY <1>1, <1>2, <1>3, <1>4, <1>5, <1>6, <1>7, <1>8, <1>9, <1>10, <1>11, <1>12, <1>13, <1>14, <1>15, <1>16, <1>17, <1>18, <1>19, <1>20, <1>21, <1>22, <1>23, <1>24
  DEF StepOf, write_cpu_wait_flag, read_cpu_wait_flag, Interrupt

LEMMA SgiKeptStep ==
  ASSUME TypeOK, FlagExact, ArmedInOrder, MasksAreOld, FullBeforeSend, SgiKept,
         NEW c \in CPU, StepOf(c)
  PROVE  SgiKept'
<1> USE CpuAssumption, TypeOK, SgiKept DEF SgiKept, Senders, SawFull, HaveRead, TypeOK, Task, regs, gic, Secondary
<1>1. CASE Hello(c)                          BY <1>1 DEF Hello, PrintBegin
<1>2. CASE HelloEnd(c)                       BY <1>2 DEF HelloEnd, PrintEnd
<1>3. CASE c = Master /\ gicd_init(c)        BY <1>3 DEF gicd_init
<1>4. CASE c = Master /\ ReleaseSecondaries(c) BY <1>4 DEF ReleaseSecondaries
<1>5. CASE gicr_init(c)                      BY <1>5 DEF gicr_init
<1>6. CASE gicc_init(c)                      BY <1>6 DEF gicc_init
<1>7. CASE switch_to_el1(c)                  BY <1>7 DEF switch_to_el1
<1>8. CASE WriteLock(c)                      BY <1>8 DEF WriteLock, LockFlag
<1>9. CASE WriteLoad(c)                      BY <1>9 DEF WriteLoad
<1>10. CASE WriteStore(c)                    BY <1>10 DEF WriteStore
<1>11. CASE WriteUnlock(c)                   BY <1>11 DEF WriteUnlock, UnlockFlag
<1>12. CASE SecondaryStart(c) /\ c \in Secondary BY <1>12 DEF SecondaryStart
<1>13. CASE ReadLock(c) /\ c \in Secondary   BY <1>13 DEF ReadLock, LockFlag
<1>14. CASE ReadLoad(c) /\ c \in Secondary   BY <1>14 DEF ReadLoad
<1>15. CASE ReadUnlock(c) /\ c \in Secondary BY <1>15 DEF ReadUnlock, UnlockFlag
<1>16. CASE TestMask(c) /\ c \in Secondary   BY <1>16 DEF TestMask
<1>17. CASE Say(c) /\ c \in Secondary        BY <1>17 DEF Say, PrintBegin
<1>18. CASE SayEnd(c) /\ c \in Secondary     BY <1>18 DEF SayEnd, PrintEnd
<1>19. CASE SendSgi(c) /\ c \in Secondary
  <2>1. cpu_wait_flag = CPU
    BY <1>19 DEF SendSgi, FullBeforeSend, MasksAreOld
  <2>2. redist = CPU
    BY <2>1 DEF FlagExact, Registered, ArmedInOrder
  <2>3. QED
    BY <1>19, <2>1, <2>2 DEF SendSgi
<1>20. CASE TakeInterrupt(c)                 BY <1>20 DEF TakeInterrupt
<1>21. CASE AckInterrupt(c)                  BY <1>21 DEF AckInterrupt
<1>22. CASE CallbackBegin(c)                 BY <1>22 DEF CallbackBegin
<1>23. CASE CallbackEnd(c)                   BY <1>23 DEF CallbackEnd
<1>24. CASE Wake(c)                          BY <1>24 DEF Wake
<1>25. QED
  BY <1>1, <1>2, <1>3, <1>4, <1>5, <1>6, <1>7, <1>8, <1>9, <1>10, <1>11, <1>12, <1>13, <1>14, <1>15, <1>16, <1>17, <1>18, <1>19, <1>20, <1>21, <1>22, <1>23, <1>24
  DEF StepOf, write_cpu_wait_flag, read_cpu_wait_flag, Interrupt

----------------------------------------------------------------------------
IInv ==
    /\ TypeOK
    /\ LockOwnership
    /\ ArmedInOrder /\ ReleasedInOrder
    /\ FlagExact /\ LoadIsCurrent
    /\ MasksAreOld /\ MasksOrdered /\ FullBeforeSend
    /\ LastReaderSeesAll
    /\ SgiKept

THEOREM Inductive == Spec => []IInv
<1>1. Init => IInv
  <2> SUFFICES ASSUME Init PROVE IInv
    OBVIOUS
  <2>1. TypeOK
    BY InitType
  <2>2. \A c \in CPU : pc[c] \in {"main", "off"} /\ handler[c] = "none"
    BY DEF Init
  <2>3. LockOwnership
    BY <2>2 DEF Init, LockOwnership, FlagHolders, TaskPrinters, HandlerPrinters
  <2>4. ArmedInOrder /\ ReleasedInOrder
    BY <2>2, CpuAssumption DEF Init, ArmedInOrder, ReleasedInOrder, Secondary
  <2>5. FlagExact /\ LoadIsCurrent
    BY <2>2 DEF Init, FlagExact, LoadIsCurrent, Registered
  <2>6. HaveRead = {}
    BY <2>2 DEF HaveRead, Secondary
  <2>7. MasksAreOld /\ MasksOrdered /\ FullBeforeSend
    BY <2>2, <2>6 DEF MasksAreOld, MasksOrdered, FullBeforeSend
  <2>8. LastReaderSeesAll
    BY <2>6 DEF LastReaderSeesAll
  <2>9. SgiKept
    BY <2>6 DEF SgiKept, Senders, SawFull
  <2>10. QED
    BY <2>1, <2>3, <2>4, <2>5, <2>7, <2>8, <2>9 DEF IInv
<1>2. IInv /\ [Next]_vars => IInv'
  <2> SUFFICES ASSUME IInv, [Next]_vars PROVE IInv'
    OBVIOUS
  <2>1. CASE UNCHANGED vars
    BY <2>1 DEF IInv, vars, regs, gic, TypeOK, LockOwnership, ArmedInOrder, FlagExact,
       ReleasedInOrder, LoadIsCurrent, MasksAreOld, MasksOrdered, FullBeforeSend,
       LastReaderSeesAll, SgiKept, Senders, SawFull, FlagHolders, TaskPrinters, HandlerPrinters, Registered, HaveRead
  <2>2. ASSUME NEW c \in CPU, StepOf(c) PROVE IInv'
    BY <2>2, TypeStep, LockOwnershipStep, ArmedInOrderStep, ReleasedInOrderStep,
       FlagExactStep, MasksStep, LastReaderStep, SgiKeptStep
    DEF IInv
  <2>3. QED
    BY <2>1, <2>2, NextIsAStep
<1>3. QED
  BY <1>1, <1>2, PTL DEF Spec

\* The two lock registers give mutual exclusion to tasks and handlers alike
\* (main.c 31-36 and 43-48, uart.c 125-162).
THEOREM LocksExclusive == Spec => []LockOwnership
  BY Inductive, PTL DEF IInv

\* No update of cpu_wait_flag is ever lost (main.c 28-37).
THEOREM NoLostRegistration == Spec => []FlagExact
  BY Inductive, PTL DEF IInv

\* Of two secondaries that have read the word, one saw the other (main.c 183-184).
THEOREM FlagPrinciple == Spec => []MasksOrdered
  BY Inductive, PTL DEF IInv

\* When all the secondaries have read, one saw them all, whatever their number
\* (main.c 184-186).
THEOREM LastReader == Spec => []LastReaderSeesAll
  BY Inductive, PTL DEF IInv

\* A core is in the word only when nothing but the wake-up of its redistributor
\* is missing for it to take the SGI, and no core loses one that has been sent
\* (main.c 70-81, 153-165 and 179-188).
THEOREM CountedAreArmed == Spec => []CountedCoresAreArmed
<1>1. IInv => CountedCoresAreArmed
  <2> SUFFICES ASSUME IInv PROVE CountedCoresAreArmed
    OBVIOUS
  <2>1. cpu_wait_flag \subseteq redist \cap cpuif \cap unmasked
    BY DEF IInv, TypeOK, FlagExact, Registered, ArmedInOrder
  <2>2. ASSUME NEW c \in cpu_wait_flag PROVE distributor
    <3>1. c \in CPU /\ pc[c] \notin {"main", "hello", "gicd", "off"}
      BY DEF IInv, FlagExact, Registered
    <3>2. QED
      BY <3>1 DEF IInv, ReleasedInOrder, Secondary
  <2>3. QED
    BY <2>1, <2>2 DEF CountedCoresAreArmed, IInv, SgiKept
<1>2. QED
  BY Inductive, <1>1, PTL

\* A core's label changes only by a step of its own task, and the step from
\* "send" is SendSgi.
LEMMA TaskSteps ==
  ASSUME NEW c \in CPU, StepOf(c), pc' # pc
  PROVE  /\ \E l \in MasterLabel \cup SecondaryLabel : pc' = [pc EXCEPT ![c] = l]
         /\ pc[c] = "send" => SendSgi(c)
<1>1. ~Interrupt(c) /\ ~Wake(c)
  BY DEF Wake, Interrupt, TakeInterrupt, AckInterrupt, CallbackBegin, CallbackEnd
<1>2. QED
  BY <1>1, Zenon
  DEF StepOf, Task, Hello, HelloEnd, PrintBegin, PrintEnd, gicd_init, gicr_init,
      gicc_init, switch_to_el1, ReleaseSecondaries, SecondaryStart,
      write_cpu_wait_flag, WriteLock, WriteLoad, WriteStore, WriteUnlock,
      read_cpu_wait_flag, ReadLock, ReadLoad, ReadUnlock, LockFlag, UnlockFlag,
      TestMask, Say, SayEnd, SendSgi, MasterLabel, SecondaryLabel

\* The write to ICC_SGI1R makes the SGI pending on every core, although it
\* reads its target list again without the lock (main.c 188).
THEOREM SendIsComplete == Spec => SendReachesAll
<1> DEFINE A == \A c \in Secondary : pc[c] = "send" /\ pc'[c] = "idle" => pending' = CPU
<1>1. IInv /\ [Next]_vars => A
  <2> SUFFICES ASSUME IInv, [Next]_vars, NEW s \in Secondary,
                      pc[s] = "send", pc'[s] = "idle"
               PROVE  pending' = CPU
    OBVIOUS
  <2>1. PICK c \in CPU : StepOf(c)
    BY NextIsAStep DEF vars
  <2>2. pc # pc'
    OBVIOUS
  <2>3. c = s
    <3>1. PICK l : pc' = [pc EXCEPT ![c] = l]
      BY <2>1, <2>2, TaskSteps
    <3>2. s \in CPU /\ pc \in [CPU -> MasterLabel \cup SecondaryLabel]
      BY DEF IInv, TypeOK, Secondary
    <3>3. QED
      BY <3>1, <3>2
  <2>4. SendSgi(s)
    BY <2>1, <2>2, <2>3, TaskSteps
  <2>5. cpu_wait_flag = CPU
    BY DEF IInv, FullBeforeSend, MasksAreOld, HaveRead, TypeOK, Secondary
  <2>6. redist = CPU
    BY <2>5 DEF IInv, TypeOK, FlagExact, Registered, ArmedInOrder
  <2>7. QED
    BY <2>4, <2>5, <2>6 DEF SendSgi, IInv, TypeOK
<1>2. QED
  BY Inductive, <1>1, PTL DEF Spec, SendReachesAll
=============================================================================
