------------------------------ MODULE DramInit ------------------------------
(***************************************************************************)
(* mmu_c, dram_init: an interpreter of a list of registers that brings up   *)
(* the DRAM.  An entry is a register, bits to set and a mask of bits to     *)
(* replace.  An entry whose address is marked in its low bits is a wait     *)
(* instead: the mark is taken out of the list and the register is polled    *)
(* until its masked bits are those of the entry.                            *)
(*                                                                          *)
(* A register is the set of its bits that are 1.  Registers that start,     *)
(* reset or report something are tracked, and every entry for one of them   *)
(* is kept; stretches between such entries, parameters all (timings,        *)
(* delays, address maps, clocks of other blocks), are one item that counts  *)
(* for its entries.                                                         *)
(***************************************************************************)
EXTENDS Naturals, Sequences

VARIABLES
    pc,         \* statement of the core: "entry" and "poll" are dram_init's
    item,       \* position in DdrList
    i,          \* entries done, the loop's counter
    marked,     \* waits that still carry their mark
    regs        \* the registers that the list starts, resets or polls

Channel == {1, 2}

\* Registers by channel and offset: "c_" of the controller at 0x2c100000 or
\* 0x2c200000, "p_" of the PHY at 0x2c300000 or 0x2c400000; channel 0 is the
\* block at 0x2c000000 with the PLL and the resets.
Reg == ({0} \X {"314", "318", "408", "c0c"})
       \cup (Channel \X {"c_004", "c_180", "c_1b0", "c_1bc", "c_320",
                         "p_004", "p_0a4", "p_0b0", "p_158", "p_174", "p_1c4"})

Write(ch, reg, regv, mask) ==
    [op |-> "write", at |-> <<ch, reg>>, regv |-> regv, mask |-> mask, n |-> 1]
Wait(ch, reg, regv, mask) ==
    [op |-> "wait", at |-> <<ch, reg>>, regv |-> regv, mask |-> mask, n |-> 1]
Parameters(n) ==
    [op |-> "skip", at |-> <<0, "314">>, regv |-> {}, mask |-> {}, n |-> n]

\* The PLL is started and locks; both channels are put into reset.
PllAndReset ==
    <<Write(0, "314", {8, 9}, {8, 9}), Parameters(1), Write(0, "314", {5}, {5}),
      Write(0, "c0c", {2, 7, 8, 9, 10, 12, 13, 16}, 0 .. 17),
      Write(0, "314", {}, {5}), Wait(0, "318", {0}, {0}),
      Parameters(4), Write(0, "408", {0, 1}, {0, 1}), Parameters(3)>>

\* The parameters of a controller.  Those of c_1b0 already start the DFI and
\* the controller (bits 5 and 0), while the channel is still in reset.
SetUp(ch) ==
    <<Parameters(35),
      Write(ch, "c_180", {6, 24, 30}, 0 .. 9 \cup 16 .. 26 \cup 29 .. 31), Parameters(1),
      Write(ch, "c_1b0", {0, 5}, {0, 4, 5} \cup 8 .. 12), Parameters(32),
      Write(ch, "c_320", {0}, {0}), Parameters(61)>>

\* The last parameter of the PHY that is of a tracked register, two others,
\* then the two resets of the channel are released.
Release(ch) ==
    <<Write(ch, "p_0a4", {3}, {3}), Parameters(2),
      Write(0, "408", {}, {8 + ch}), Write(0, "408", {}, {ch - 1})>>

\* DFI initialisation, start of the controller, then two steps of training,
\* a calibration and a last step, each started, awaited and switched off.
Train(ch) ==
    <<Write(ch, "c_320", {}, {0}), Write(ch, "c_1b0", {}, {0}),
      Write(ch, "c_1b0", {5}, {5}), Write(ch, "c_320", {0}, {0}),
      Wait(ch, "c_1bc", {0}, {0}),
      Write(ch, "c_320", {}, {0}), Write(ch, "c_1b0", {}, {5}),
      Write(ch, "c_1b0", {0}, {0}), Write(ch, "c_320", {0}, {0}),
      Wait(ch, "c_004", {0}, {0, 1, 2}),
      Write(ch, "c_180", {31}, {31}),
      Write(ch, "p_004", {9, 11, 13, 14}, 8 .. 15), Parameters(2),
      Write(ch, "p_004", {4, 7, 16, 24, 30}, {4, 6, 7} \cup 16 .. 31),
      Wait(ch, "p_174", 8 .. 11, 8 .. 11),
      Write(ch, "p_004", {}, {4}), Write(ch, "p_004", {}, {6, 7}), Parameters(5),
      Write(ch, "p_004", {3}, {2, 3}), Write(ch, "p_004", {0}, {0}),
      Wait(ch, "p_174", 0 .. 3, 0 .. 3),
      Write(ch, "p_004", {}, {0}), Write(ch, "p_004", {}, {2, 3}), Parameters(4),
      Write(ch, "p_0a4", {0, 9}, {0, 8, 9}), Wait(ch, "p_1c4", 12 .. 15, 12 .. 15),
      Write(ch, "p_0a4", {}, {0}),
      Write(ch, "p_0b0", {0, 7}, {0, 4, 6, 7}), Write(ch, "p_0b0", {1}, {1}),
      Wait(ch, "p_158", {7}, {7}),
      Write(ch, "p_0b0", {}, {1, 6, 7}), Parameters(1), Write(ch, "c_180", {}, {31})>>

\* The whole list: the parameters of both controllers, then per channel those
\* of its PHY, its release and its training; address maps and other clocks.
DdrList ==
    PllAndReset \o SetUp(1) \o SetUp(2)
    \o <<Parameters(34)>> \o Release(1) \o Train(1)
    \o <<Parameters(62)>> \o Release(2) \o Train(2)
    \o <<Parameters(88), Parameters(17)>>

LEN == 571      \* the first word of the list, 0x23b

DramStart ==
    /\ item = 1 /\ i = 0
    /\ marked = {k \in 1 .. Len(DdrList) : DdrList[k].op = "wait"}
    /\ regs = [r \in Reg |-> IF r = <<0, "408">> THEN {0, 1, 9, 10} ELSE {}]

----------------------------------------------------------------------------

\* i++ and the condition of the loop; mmu_start follows it.
NextEntry ==
    /\ item' = item + 1
    /\ i' = i + DdrList[item].n
    /\ pc' = IF i' < LEN THEN "entry" ELSE "cloop"

\* reg_val is read, masked, combined and written back.
Modify(r, regv, mask) == regs' = [regs EXCEPT ![r] = (@ \ mask) \cup regv]

WriteEntry ==
    /\ pc = "entry" /\ item \notin marked
    /\ Modify(DdrList[item].at, DdrList[item].regv, DdrList[item].mask)
    /\ NextEntry
    /\ UNCHANGED marked

\* reg_addr &= ~0x3: the entry would be a write if the list were run again.
UnmarkEntry ==
    /\ pc = "entry" /\ item \in marked
    /\ marked' = marked \ {item}
    /\ pc' = "poll"
    /\ UNCHANGED <<item, i, regs>>

\* Mutant: the poll is not repeated.
Poll_Mutant == pc = "poll" /\ NextEntry /\ UNCHANGED <<marked, regs>>

Poll ==
    /\ pc = "poll"
    /\ LET e == DdrList[item]
       IN  IF regs[e.at] \cap e.mask = e.regv
           THEN NextEntry ELSE UNCHANGED <<pc, item, i>>
    /\ UNCHANGED <<marked, regs>>

dram_init == WriteEntry \/ UnmarkEntry \/ Poll

----------------------------------------------------------------------------
(* The hardware answers what has been started (external). *)

Released(ch) == regs[<<0, "408">>] \cap {ch - 1, 8 + ch} = {}

\* The answers that are due, as a register and bits.  DFI and controller are
\* started by the parameters, so their answers may come as soon as the channel
\* is out of reset, before the list starts them again and waits; c_320, which
\* opens registers of the controller for writes, does not hold them back.
Due(ch) ==
    LET on(reg, bits) == bits \subseteq regs[<<ch, reg>>]
    IN  (IF Released(ch) /\ on("c_1b0", {5}) THEN {<<"c_1bc", {0}>>} ELSE {})
        \cup (IF Released(ch) /\ on("c_1b0", {0}) /\ on("c_1bc", {0})
              THEN {<<"c_004", {0}>>} ELSE {})
        \cup (IF on("p_004", {4}) THEN {<<"p_174", 8 .. 11>>} ELSE {})
        \cup (IF on("p_004", {0}) THEN {<<"p_174", 0 .. 3>>} ELSE {})
        \cup (IF on("p_0a4", {0}) THEN {<<"p_1c4", 12 .. 15>>} ELSE {})
        \cup (IF on("p_0b0", {1}) THEN {<<"p_158", {7}>>} ELSE {})

Answer ==
    /\ \E ch \in Channel : \E d \in Due(ch) :
          /\ ~(d[2] \subseteq regs[<<ch, d[1]>>])
          /\ regs' = [regs EXCEPT ![<<ch, d[1]>>] = @ \cup d[2]]
    /\ UNCHANGED <<pc, item, i, marked>>

Lock ==
    /\ {8, 9} \subseteq regs[<<0, "314">>] /\ 5 \notin regs[<<0, "314">>]
    /\ regs[<<0, "c0c">>] # {} /\ 0 \notin regs[<<0, "318">>]
    /\ regs' = [regs EXCEPT ![<<0, "318">>] = @ \cup {0}]
    /\ UNCHANGED <<pc, item, i, marked>>

Hardware == Answer \/ Lock

----------------------------------------------------------------------------

DramTypeOK ==
    /\ item \in 1 .. Len(DdrList) + 1 /\ i \in 0 .. LEN
    /\ marked \subseteq 1 .. Len(DdrList)
    /\ regs \in [Reg -> SUBSET (0 .. 31)]

\* The PLL is locked and both channels run: out of reset, initialised, every
\* step of the training answered and switched off again, the registers of the
\* controller closed, c_180 back to its parameters.
Trained ==
    /\ 0 \in regs[<<0, "318">>]
    /\ \A ch \in Channel :
        /\ Released(ch)
        /\ regs[<<ch, "c_1bc">>] = {0} /\ regs[<<ch, "c_004">>] = {0}
        /\ regs[<<ch, "c_1b0">>] = {0} /\ regs[<<ch, "c_320">>] = {0}
        /\ regs[<<ch, "c_180">>] = {6, 24, 30}
        /\ regs[<<ch, "p_174">>] = 0 .. 3 \cup 8 .. 11
        /\ regs[<<ch, "p_1c4">>] = 12 .. 15 /\ regs[<<ch, "p_158">>] = {7}
        /\ regs[<<ch, "p_004">>] \cap {0, 2, 3, 4, 6, 7} = {}
        /\ 0 \notin regs[<<ch, "p_0a4">>] /\ 1 \notin regs[<<ch, "p_0b0">>]
=============================================================================
