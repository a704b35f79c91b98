----------------------------- MODULE PageTables -----------------------------
(***************************************************************************)
(* mmu_c, mmu_s and memtester_c build translation tables with the MMU off   *)
(* and then enable it.  Each has three pages: the root (level 1, 1 GB an    *)
(* entry) and two tables of level 2 (2 MB an entry).                        *)
(*                                                                          *)
(* A word of a table is a record: page number, low 12 bits, execute-never.  *)
(* Stores leave the core in order through a buffer that nothing flushes     *)
(* before the MMU reads the tables: there is no barrier in the code.  No    *)
(* one else looks at the tables while they are built, so a loop of stores   *)
(* is one step; its last stores may still be on their way after it.         *)
(***************************************************************************)
EXTENDS Naturals, Sequences

CONSTANT DEPTH      \* stores that can be on their way to memory

VARIABLES
    image,      \* the program
    pc,         \* loop or statement of the core
    n,          \* page of cloop, or number of an access
    buffer,     \* stores that have not reached memory
    memory,     \* the three pages, as the MMU reads them
    mmu,        \* sctlr_el3.M
    works       \* the memory of the tables keeps what is stored

Images == {"mmu_c", "mmu_s", "memtester_c"}

PageSlots == 512                    \* words of a page; also pages of a block
Slots == 0 .. PageSlots - 1
Pages == 0 .. 2                     \* root, first and second table

\* x0, the page of the root; memtester's is a label in its image.
Root == CASE image = "mmu_c" -> \h41000
          [] image = "mmu_s" -> \h141000
          [] image = "memtester_c" -> 16

\* The first block of the second table and its slot in the root.
Base == IF image = "mmu_c" THEN \h40000 ELSE \h140000
BaseSlot == IF image = "mmu_c" THEN 1 ELSE 5

\* Attributes of the low 1 GB: a valid block with the access flag, of
\* attribute 0 in mmu_c and of attribute 4 in mmu_s.
LowAttr == IF image = "mmu_c" THEN \h401 ELSE \h411

Word(page, low, xn) == [page |-> page, low |-> low, xn |-> xn]
Zero == Word(0, 0, FALSE)

\* What the pages hold before: the fill of memtester's image, and in DRAM
\* whatever was there, here words that would translate.
Before == IF image = "memtester_c" THEN Word(\hfffffff, \hfff, TRUE)
                                   ELSE Word(0, \h401, FALSE)

\* w + page * 0x1000 + low, with the carry out of the low bits.
Plus(w, page, low) ==
    Word(w.page + page + (w.low + low) \div 4096, (w.low + low) % 4096, w.xn)

TableStart ==
    /\ image \in Images /\ n = 0 /\ buffer = << >> /\ mmu = FALSE
    /\ memory = [p \in Pages |-> [s \in Slots |-> Before]]

----------------------------------------------------------------------------
(* Stores *)

Store(page, slot, word) ==
    /\ Len(buffer) < DEPTH
    /\ buffer' = Append(buffer, [at |-> <<page, slot>>, word |-> word])
    /\ UNCHANGED <<image, n, memory, mmu>>

\* The words word[0], word[1], ... from the start of a page.  The loop is
\* longer than the buffer: what was stored before it has arrived, and all but
\* the last of its own stores have.
StoreLoop(page, word) ==
    LET bound == Len(word)
    IN  /\ buffer = << >>
        /\ \E late \in 0 .. DEPTH :
              /\ memory' = IF ~works THEN memory
                           ELSE [memory EXCEPT ![page] = [s \in Slots |->
                                   IF s < bound - late THEN word[s + 1] ELSE @[s]]]
              /\ buffer' = [k \in 1 .. late |->
                              [at |-> <<page, bound - late + k - 1>>,
                               word |-> word[bound - late + k]]]
        /\ UNCHANGED <<image, mmu>>

\* The oldest store arrives (external); memory that does not work loses it.
Drain ==
    /\ buffer # << >>
    /\ LET s == Head(buffer)
       IN  memory' = IF works THEN [memory EXCEPT ![s.at[1]][s.at[2]] = s.word]
                              ELSE memory
    /\ buffer' = Tail(buffer)
    /\ UNCHANGED <<image, pc, n, mmu>>

\* cloop; clr_addr on each of the three pages.
Clear ==
    /\ pc = "cloop"
    /\ StoreLoop(n, [k \in 1 .. PageSlots |-> Zero])
    /\ IF n < 2 THEN n' = n + 1 /\ UNCHANGED pc
       ELSE n' = 0 /\ pc' = IF image = "memtester_c" THEN "map_lp" ELSE "tbl0"

\* Entries of consecutive blocks from a page on: size bytes of the table.
BlockEntries(first, attr, size) ==
    [k \in 1 .. size \div 8 |-> Plus(Word(first, attr, FALSE), PageSlots * (k - 1), 0)]

\* x1 = root + 0x1002: no valid entry yet, though the comment says 1003.
FirstEntry == Plus(Word(Root, 0, FALSE), 1, 2)

SetTbl0 ==
    /\ pc = "tbl0" /\ pc' = "tbl0_next"
    /\ Store(0, 0, FirstEntry)

\* x3 = x1 + 0x1001: the second table, valid.
SetTbl0Next ==
    /\ pc = "tbl0_next" /\ pc' = "tl1_lp"
    /\ Store(0, BaseSlot, Plus(FirstEntry, 1, 1))

\* Mutant: the size is not divided by 8.
SetTbl1_Mutant ==
    /\ pc = "tl1_lp" /\ pc' = "repair"
    /\ StoreLoop(2, BlockEntries(Base, \h411, 8 * \h400)) /\ UNCHANGED n

\* 0x400 bytes of entries: 256 MB of normal memory from the base.
SetTbl1 ==
    /\ pc = "tl1_lp" /\ pc' = "repair"
    /\ StoreLoop(2, BlockEntries(Base, \h411, \h400)) /\ UNCHANGED n

\* Mutant: the first entry of the root keeps the value of SetTbl0.
Repair_Mutant ==
    /\ pc = "repair" /\ pc' = "tl2_lp"
    /\ UNCHANGED <<image, n, buffer, memory, mmu>>

\* set_tbl2 begins with the entry of the root that SetTbl0 left invalid.
Repair ==
    /\ pc = "repair" /\ pc' = "tl2_lp"
    /\ Store(0, 0, Plus(Word(Root, 0, FALSE), 1, 3))

\* Mutant: the loop is as long as that of the other table.
SetTbl2_Mutant ==
    /\ pc = "tl2_lp" /\ pc' = "enable"
    /\ StoreLoop(1, BlockEntries(0, LowAttr, \h400)) /\ UNCHANGED n

SetTbl2 ==
    /\ pc = "tl2_lp" /\ pc' = "enable"
    /\ StoreLoop(1, BlockEntries(0, LowAttr, \h1000)) /\ UNCHANGED n

\* mmu_table_map: IRAM and the VEU's SRAM are normal memory, all other blocks
\* of the first 1 GB are devices that are not executable.
MapEntries ==
    [k \in 1 .. \h1000 \div 8 |->
        LET page == PageSlots * (k - 1)
            ram  == page \in {0, \h30800}
        IN  Plus(Word(0, IF ram THEN \h411 ELSE \h401, ~ram), page, 0)]

MapLoop ==
    /\ pc = "map_lp" /\ pc' = "root"
    /\ StoreLoop(1, MapEntries) /\ UNCHANGED n

\* The entry of the root is the last store before mmu_enable.
MapRoot ==
    /\ pc = "root" /\ pc' = "enable"
    /\ Store(0, 0, Plus(Word(Root + 1, 0, FALSE), 0, 3))

\* ttbr0_el3, tcr_el3, mair_el3 and sctlr_el3, with no barrier before them.
mmu_enable ==
    /\ pc = "enable"
    /\ mmu' = TRUE /\ pc' = "access"
    /\ UNCHANGED <<image, n, buffer, memory>>

Build ==
    \/ Clear \/ SetTbl0 \/ SetTbl0Next \/ SetTbl1 \/ Repair \/ SetTbl2
    \/ MapLoop \/ MapRoot \/ mmu_enable

----------------------------------------------------------------------------
(* The walk of the MMU (external), as the registers above set it up. *)

\* T0SZ 32 or 28: blocks of 2 MB in 4 GB or 64 GB of addresses.
Blocks == 0 .. (IF image = "mmu_s" THEN 32767 ELSE 2047)

\* mair_el3 = 0xff440c0400: attributes 0 to 2 are devices, 3 is not cached.
Mair == <<"device", "device", "device", "uncached", "normal",
          "device", "device", "device">>

Fault == [kind |-> "fault", page |-> 0, xn |-> TRUE]

\* The entry of the block in the table that the root points to.
Leaf(b) ==
    LET top == memory[0][b \div PageSlots]
    IN  IF (top.low % 4) = 3 /\ top.page \in Root .. Root + 2
        THEN memory[top.page - Root][b % PageSlots] ELSE Zero

\* Where an address of block b goes: a valid block with its access flag set.
Walk(b) ==
    LET e == Leaf(b)
    IN  IF (e.low % 4) = 1 /\ (e.low \div \h400) % 2 = 1
        THEN [kind |-> Mair[((e.low \div 4) % 8) + 1],
              page |-> (e.page \div PageSlots) * PageSlots, xn |-> e.xn]
        ELSE Fault

TableTypeOK ==
    /\ image \in Images /\ n \in 0 .. 5 /\ mmu \in BOOLEAN
    /\ Len(buffer) <= DEPTH
    /\ \A k \in 1 .. Len(buffer) : buffer[k].at \in Pages \X Slots
    /\ DOMAIN memory = Pages /\ \A p \in Pages : DOMAIN memory[p] = Slots
=============================================================================
