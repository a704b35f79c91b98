------------------------------ MODULE MmuCopy -------------------------------
(***************************************************************************)
(* The programs that run under their own translation tables: mmu_c brings   *)
(* up the DRAM (DramInit), builds its tables in it (PageTables), enables    *)
(* the MMU and copies memory; mmu_s builds and enables; memtester_c's first *)
(* core builds, enables and goes on to print and to start the other cores.  *)
(***************************************************************************)
EXTENDS Naturals, Sequences

CONSTANTS
    DEPTH,      \* stores that can be on their way to memory
    SIZE,       \* bytes copied; 300 * 1024 in the code
    COPIES      \* copies made; 1001 in the code

ASSUME MmuAssumption ==
    DEPTH \in 1 .. 127 /\ SIZE \in Nat \ {0} /\ SIZE % 8 = 0 /\ COPIES \in Nat \ {0}

VARIABLES
    pc,
    item, i, marked, regs,          \* dram_init
    image, n, buffer, memory, mmu,  \* the tables
    dest,       \* words at dest, 0x43000000
    offset,     \* i of mc_memcpy
    copies      \* copies finished

INSTANCE DramInit

\* mmu_c's tables are in the memory that dram_init brings up.
TableMemoryWorks == image = "mmu_c" => Trained

INSTANCE PageTables WITH works <- TableMemoryWorks

dramVars == <<item, i, marked, regs>>
tableVars == <<image, n, buffer, memory, mmu>>
copyVars == <<dest, offset, copies>>
vars == <<pc, dramVars, tableVars, copyVars>>

WORDS == SIZE \div 8

\* The words at src, 0x42000000: their values tell them apart.
src == [w \in 0 .. WORDS |-> w + 1]

Init ==
    /\ DramStart /\ TableStart
    /\ pc = IF image = "mmu_c" THEN "entry" ELSE "cloop"
    /\ dest = [w \in 0 .. WORDS |-> 0] /\ offset = 0 /\ copies = 0

----------------------------------------------------------------------------

\* Blocks used once the MMU is on, in order: the next instruction's, then
\* the store to 0x100, or memtester's print (lock and UART), the start
\* addresses of the other cores and the memory under test.
Accesses ==
    CASE image = "mmu_c" -> <<0, 0>>
      [] image = "mmu_s" -> <<2560, 0>>
      [] image = "memtester_c" -> <<0, 130, 193, 18, 388>>

\* The first access of each program is the fetch of its code.
Permitted(b, fetch) == Walk(b).kind # "fault" /\ ~(fetch /\ Walk(b).xn)

Access ==
    /\ pc = "access"
    /\ IF Permitted(Accesses[n + 1], n = 0)
       THEN IF n + 1 < Len(Accesses) THEN n' = n + 1 /\ UNCHANGED pc
            ELSE n' = 0 /\ pc' = IF image = "mmu_c" THEN "copy" ELSE "end"
       ELSE pc' = "fault" /\ UNCHANGED n
    /\ UNCHANGED <<dramVars, image, buffer, memory, mmu, copyVars>>

\* Blocks of src and dest.
SrcBlock == 528
DestBlock == 536

\* Mutant: the test of the loop is i <= size.
mc_memcpy_Mutant ==
    /\ pc = "copy" /\ offset <= SIZE
    /\ dest' = [dest EXCEPT ![offset \div 8] = src[offset \div 8]] /\ offset' = offset + 8
    /\ UNCHANGED <<pc, dramVars, tableVars, copies>>

\* One turn of the loop: a word is read and written through the MMU.
mc_memcpy ==
    /\ pc = "copy" /\ offset < SIZE
    /\ IF Walk(SrcBlock).kind # "fault" /\ Walk(DestBlock).kind # "fault"
       THEN /\ dest' = [dest EXCEPT ![offset \div 8] = src[offset \div 8]]
            /\ offset' = offset + 8 /\ UNCHANGED pc
       ELSE pc' = "fault" /\ UNCHANGED <<dest, offset>>
    /\ UNCHANGED <<dramVars, tableVars, copies>>

\* The function returns; main copies again or comes to its last loop.
NextCopy ==
    /\ pc = "copy" /\ offset >= SIZE
    /\ offset' = 0 /\ copies' = copies + 1
    /\ pc' = IF copies' < COPIES THEN "copy" ELSE "end"
    /\ UNCHANGED <<dramVars, tableVars, dest>>

----------------------------------------------------------------------------

Program ==
    \/ dram_init /\ UNCHANGED <<tableVars, copyVars>>
    \/ Build /\ UNCHANGED <<dramVars, copyVars>>
    \/ Access \/ mc_memcpy \/ NextCopy

Bus ==
    \/ Hardware /\ UNCHANGED <<tableVars, copyVars>>
    \/ Drain /\ UNCHANGED <<dramVars, copyVars>>

Next == Program \/ Bus

\* The core runs; the controller answers and stores arrive (external).
Spec == Init /\ [][Next]_vars /\ WF_vars(Program) /\ WF_vars(Bus)

----------------------------------------------------------------------------
(* Properties *)

\* Every counter, store and word of the copy stays in its range: the loops of
\* mmus.S write no entry outside their pages.
TypeOK ==
    /\ DramTypeOK /\ TableTypeOK
    /\ dest \in [0 .. WORDS -> 0 .. WORDS + 1]
    /\ offset \in 0 .. SIZE /\ copies \in 0 .. COPIES

\* mmu_start is reached with the DRAM trained: every wait of the list has
\* been answered, and every step of the training was switched off again.
DramIsTrained == image = "mmu_c" /\ pc \notin {"entry", "poll"} => Trained

\* What the comments and constants of the programs say of each block.
Meant(b) ==
    LET to(kind, xn) == [kind |-> kind, page |-> PageSlots * b, xn |-> xn]
    IN  CASE image = "memtester_c" /\ b < 512 ->
                 IF b \in {0, 388} THEN to("normal", FALSE) ELSE to("device", TRUE)
          [] image = "mmu_c" /\ b < 512 -> to("device", FALSE)
          [] image = "mmu_c" /\ b \in 512 .. 639 -> to("normal", FALSE)
          [] image = "mmu_s" /\ (b < 512 \/ b \in 2560 .. 2687) -> to("normal", FALSE)
          [] OTHER -> Fault

\* Once the stores have arrived, the tables map each block of the address
\* space to itself with its kind, and no other: nothing is left of what the
\* pages held, and the entry of the root written twice is the last one.
MapIsRight == mmu /\ buffer = << >> => \A b \in Blocks : Walk(b) = Meant(b)

\* An access faults only in memtester_c, whose entry of the root is stored
\* last and may still be on its way when the MMU is on; the others store
\* enough after the entries that they use first.
FaultOnlyOnLateRoot ==
    [][pc' = "fault" /\ pc # "fault" =>
          image = "memtester_c" /\ \E k \in 1 .. Len(buffer) : buffer[k].at = <<0, 0>>]_vars

\* Each program comes to its end, mmu_c with the copy made and nothing
\* written past it; only the late entry of the root can stop memtester_c.
Finishes ==
    /\ image = "mmu_c" =>
          <>[](pc = "end" /\ \A w \in 0 .. WORDS : dest[w] = IF w < WORDS THEN src[w] ELSE 0)
    /\ image = "mmu_s" => <>[](pc = "end")
    /\ image = "memtester_c" => <>[](pc \in {"end", "fault"})
=============================================================================
