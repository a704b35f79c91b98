---------------------------- MODULE MmuDram_proofs ----------------------------
(***************************************************************************)
(* mmu_c comes to its tables with the DRAM trained: every wait of the list *)
(* has been answered and every step of the training switched off, whatever *)
(* the order in which the hardware answers.                                *)
(***************************************************************************)
EXTENDS MmuCopy, Integers, SequenceTheorems, TLAPS

Early == {"entry", "poll"}

----------------------------------------------------------------------------
(* The list, entry by entry.                                                *)

\* The training of a channel begins after this entry.
Off(ch) == IF ch = 1 THEN 28 ELSE 66

Bits == 0 .. 31
Entry == [op : {"write", "wait", "skip"}, at : Reg, regv : SUBSET Bits, mask : SUBSET Bits, n : Nat]

LEMMA NumbersTo33 ==
  ASSUME NEW S,
         {1, 2, 3, 4, 5, 6, 7, 8, 9, 10, 11} \subseteq S,
         {12, 13, 14, 15, 16, 17, 18, 19, 20, 21, 22} \subseteq S,
         {23, 24, 25, 26, 27, 28, 29, 30, 31, 32, 33} \subseteq S
  PROVE  \A k \in 1 .. 33 : k \in S
OBVIOUS

LEMMA TrainIs ==
  ASSUME NEW ch
  PROVE  LET t == Train(ch) IN
         /\ Len(t) = 33 /\ DOMAIN t = 1 .. 33
         /\ t[1] = Write(ch, "c_320", {}, {0}) /\ t[2] = Write(ch, "c_1b0", {}, {0})
         /\ t[3] = Write(ch, "c_1b0", {5}, {5}) /\ t[4] = Write(ch, "c_320", {0}, {0})
         /\ t[5] = Wait(ch, "c_1bc", {0}, {0})
         /\ t[6] = Write(ch, "c_320", {}, {0}) /\ t[7] = Write(ch, "c_1b0", {}, {5})
         /\ t[8] = Write(ch, "c_1b0", {0}, {0}) /\ t[9] = Write(ch, "c_320", {0}, {0})
         /\ t[10] = Wait(ch, "c_004", {0}, {0, 1, 2})
         /\ t[11] = Write(ch, "c_180", {31}, {31})
         /\ t[12] = Write(ch, "p_004", {9, 11, 13, 14}, 8 .. 15) /\ t[13] = Parameters(2)
         /\ t[14] = Write(ch, "p_004", {4, 7, 16, 24, 30}, {4, 6, 7} \cup 16 .. 31)
         /\ t[15] = Wait(ch, "p_174", 8 .. 11, 8 .. 11)
         /\ t[16] = Write(ch, "p_004", {}, {4}) /\ t[17] = Write(ch, "p_004", {}, {6, 7})
         /\ t[18] = Parameters(5)
         /\ t[19] = Write(ch, "p_004", {3}, {2, 3}) /\ t[20] = Write(ch, "p_004", {0}, {0})
         /\ t[21] = Wait(ch, "p_174", 0 .. 3, 0 .. 3)
         /\ t[22] = Write(ch, "p_004", {}, {0}) /\ t[23] = Write(ch, "p_004", {}, {2, 3})
         /\ t[24] = Parameters(4)
         /\ t[25] = Write(ch, "p_0a4", {0, 9}, {0, 8, 9})
         /\ t[26] = Wait(ch, "p_1c4", 12 .. 15, 12 .. 15)
         /\ t[27] = Write(ch, "p_0a4", {}, {0})
         /\ t[28] = Write(ch, "p_0b0", {0, 7}, {0, 4, 6, 7})
         /\ t[29] = Write(ch, "p_0b0", {1}, {1})
         /\ t[30] = Wait(ch, "p_158", {7}, {7})
         /\ t[31] = Write(ch, "p_0b0", {}, {1, 6, 7}) /\ t[32] = Parameters(1)
         /\ t[33] = Write(ch, "c_180", {}, {31})
<1> DEFINE t == Train(ch)
<1>1. Len(t) = 33 /\ DOMAIN t = 1 .. 33
  BY DEF Train
<1>2. /\ t[1] = Write(ch, "c_320", {}, {0}) /\ t[2] = Write(ch, "c_1b0", {}, {0})
      /\ t[3] = Write(ch, "c_1b0", {5}, {5}) /\ t[4] = Write(ch, "c_320", {0}, {0})
      /\ t[5] = Wait(ch, "c_1bc", {0}, {0})
      /\ t[6] = Write(ch, "c_320", {}, {0}) /\ t[7] = Write(ch, "c_1b0", {}, {5})
      /\ t[8] = Write(ch, "c_1b0", {0}, {0}) /\ t[9] = Write(ch, "c_320", {0}, {0})
      /\ t[10] = Wait(ch, "c_004", {0}, {0, 1, 2})
      /\ t[11] = Write(ch, "c_180", {31}, {31})
  BY DEF Train
<1>3. /\ t[12] = Write(ch, "p_004", {9, 11, 13, 14}, 8 .. 15) /\ t[13] = Parameters(2)
      /\ t[14] = Write(ch, "p_004", {4, 7, 16, 24, 30}, {4, 6, 7} \cup 16 .. 31)
      /\ t[15] = Wait(ch, "p_174", 8 .. 11, 8 .. 11)
      /\ t[16] = Write(ch, "p_004", {}, {4}) /\ t[17] = Write(ch, "p_004", {}, {6, 7})
      /\ t[18] = Parameters(5)
      /\ t[19] = Write(ch, "p_004", {3}, {2, 3}) /\ t[20] = Write(ch, "p_004", {0}, {0})
      /\ t[21] = Wait(ch, "p_174", 0 .. 3, 0 .. 3)
  BY DEF Train
<1>4. /\ t[22] = Write(ch, "p_004", {}, {0}) /\ t[23] = Write(ch, "p_004", {}, {2, 3})
      /\ t[24] = Parameters(4)
      /\ t[25] = Write(ch, "p_0a4", {0, 9}, {0, 8, 9})
      /\ t[26] = Wait(ch, "p_1c4", 12 .. 15, 12 .. 15)
      /\ t[27] = Write(ch, "p_0a4", {}, {0})
      /\ t[28] = Write(ch, "p_0b0", {0, 7}, {0, 4, 6, 7})
      /\ t[29] = Write(ch, "p_0b0", {1}, {1})
      /\ t[30] = Wait(ch, "p_158", {7}, {7})
      /\ t[31] = Write(ch, "p_0b0", {}, {1, 6, 7}) /\ t[32] = Parameters(1)
      /\ t[33] = Write(ch, "c_180", {}, {31})
  BY DEF Train
<1> HIDE DEF t
<1> QED
  BY <1>1, <1>2, <1>3, <1>4 DEF t

\* The registers of a channel.
ChannelReg == {"c_004", "c_180", "c_1b0", "c_1bc", "c_320",
               "p_004", "p_0a4", "p_0b0", "p_158", "p_174", "p_1c4"}

\* What holds of the bits R of a register once p entries of the training of its
\* channel are done: which bits it can have at all, and those that the training
\* has switched on or off for good.
Keeps(reg, p, R) ==
    /\ reg = "c_320" => R \subseteq {0} /\ (p >= 9 => 0 \in R)
    /\ reg = "c_1b0" => R \subseteq {0, 5} /\ (p >= 7 => 5 \notin R) /\ (p >= 8 => 0 \in R)
    /\ reg = "c_1bc" => R \subseteq {0} /\ (p >= 5 => 0 \in R)
    /\ reg = "c_004" => R \subseteq {0} /\ (p >= 10 => 0 \in R)
    /\ reg = "c_180" => R \subseteq {6, 24, 30, 31} /\ (p >= 33 => 31 \notin R)
    /\ reg = "p_004" => /\ (p >= 16 => 4 \notin R)
                        /\ (p >= 17 => 6 \notin R /\ 7 \notin R) /\ (p >= 22 => 0 \notin R)
                        /\ (p >= 23 => 2 \notin R /\ 3 \notin R)
    /\ reg = "p_174" => /\ R \subseteq 0 .. 3 \cup 8 .. 11
                        /\ (p >= 15 => 8 .. 11 \subseteq R) /\ (p >= 21 => 0 .. 3 \subseteq R)
    /\ reg = "p_0a4" => (p >= 27 => 0 \notin R)
    /\ reg = "p_1c4" => R \subseteq 12 .. 15 /\ (p >= 26 => 12 .. 15 \subseteq R)
    /\ reg = "p_0b0" => (p >= 31 => 1 \notin R)
    /\ reg = "p_158" => R \subseteq {7} /\ (p >= 30 => 7 \in R)

\* Entries that the p first ones of a training count for.
TrainDone(p) ==
    p + (IF p >= 13 THEN 1 ELSE 0) + (IF p >= 18 THEN 4 ELSE 0) + (IF p >= 24 THEN 3 ELSE 0)

\* What an entry does: a write changes the bits, a wait ends if they are its own.
Effect(e, R, T) ==
    IF e.op = "wait" THEN T = R /\ R \cap e.mask = e.regv ELSE T = (R \ e.mask) \cup e.regv

\* An entry that leaves the lock of the PLL and the parameters of c_180 alone.
Spares(e) == e.at # <<0, "318">> /\ (e.at[2] = "c_180" => e.op = "write" /\ e.mask = {31})

\* The k-th entry of the training keeps all that.
Fits(ch, k, e) ==
    /\ e \in Entry /\ e.n = TrainDone(k) - TrainDone(k - 1) /\ Spares(e)
    /\ \/ e.at = <<0, "314">> /\ e.op = "skip" /\ e.regv = {} /\ e.mask = {}
       \/ \E reg \in ChannelReg : e.at = <<ch, reg>>
    /\ \A reg \in ChannelReg, R \in SUBSET Bits :
          Keeps(reg, k - 1, R) =>
              IF e.at = <<ch, reg>> THEN \A T : Effect(e, R, T) => Keeps(reg, k, T)
                                    ELSE Keeps(reg, k, R)

\* The register that the k-th entry settles.
Turn(k) ==
    CASE k = 9 -> "c_320"
      [] k \in {7, 8} -> "c_1b0"
      [] k = 5 -> "c_1bc"
      [] k = 10 -> "c_004"
      [] k = 33 -> "c_180"
      [] k \in {16, 17, 22, 23} -> "p_004"
      [] k \in {15, 21} -> "p_174"
      [] k = 27 -> "p_0a4"
      [] k = 26 -> "p_1c4"
      [] k = 31 -> "p_0b0"
      [] k = 30 -> "p_158"
      [] OTHER -> "none"

WriteKeeps(reg, k, v, m) ==
    \A R \in SUBSET Bits : Keeps(reg, k - 1, R) => Keeps(reg, k, (R \ m) \cup v)

WaitKeeps(reg, k, v, m) ==
    \A R \in SUBSET Bits : Keeps(reg, k - 1, R) /\ R \cap m = v => Keeps(reg, k, R)

LEMMA OtherKeeps ==
  ASSUME NEW k \in 1 .. 33, NEW reg \in ChannelReg, reg # Turn(k), NEW R \in SUBSET Bits,
         Keeps(reg, k - 1, R)
  PROVE  Keeps(reg, k, R)
<1>1. CASE reg \in {"c_320", "c_1b0", "c_004", "c_180", "c_1bc"}
  BY <1>1, SMT DEF Keeps, Turn
<1>2. CASE reg = "p_004"
  BY <1>2, SMT DEF Keeps, Turn
<1>3. CASE reg = "p_174"
  BY <1>3, SMT DEF Keeps, Turn
<1>4. CASE reg \in {"p_0a4", "p_1c4", "p_0b0", "p_158"}
  BY <1>4, SMT DEF Keeps, Turn
<1> QED
  BY <1>1, <1>2, <1>3, <1>4 DEF ChannelReg

LEMMA Counts == \A k \in 1 .. 33 : k \notin {13, 18, 24} => TrainDone(k) - TrainDone(k - 1) = 1
BY DEF TrainDone

LEMMA WriteFits ==
  ASSUME NEW ch \in Channel, NEW k \in 1 .. 33, NEW reg \in ChannelReg,
         NEW v \in SUBSET Bits, NEW m \in SUBSET Bits, k \notin {13, 18, 24},
         Turn(k) \in {reg, "none"}, WriteKeeps(reg, k, v, m), reg = "c_180" => m = {31}
  PROVE  Fits(ch, k, Write(ch, reg, v, m))
<1>1. "none" \notin ChannelReg
  BY DEF ChannelReg
<1>2. \A r \in ChannelReg \ {reg} : \A R \in SUBSET Bits : Keeps(r, k - 1, R) => Keeps(r, k, R)
  BY <1>1, OtherKeeps
<1> QED
  BY <1>2, Counts DEF Fits, WriteKeeps, Write, Entry, Effect, Reg, ChannelReg, Spares, Channel

LEMMA WaitFits ==
  ASSUME NEW ch \in Channel, NEW k \in 1 .. 33, NEW reg \in ChannelReg,
         NEW v \in SUBSET Bits, NEW m \in SUBSET Bits, k \notin {13, 18, 24},
         Turn(k) \in {reg, "none"}, WaitKeeps(reg, k, v, m), reg # "c_180"
  PROVE  Fits(ch, k, Wait(ch, reg, v, m))
<1>1. "none" \notin ChannelReg
  BY DEF ChannelReg
<1>2. \A r \in ChannelReg \ {reg} : \A R \in SUBSET Bits : Keeps(r, k - 1, R) => Keeps(r, k, R)
  BY <1>1, OtherKeeps
<1> QED
  BY <1>2, Counts DEF Fits, WaitKeeps, Wait, Entry, Effect, Reg, ChannelReg, Spares, Channel

LEMMA NoTurn ==
  ASSUME NEW k \in {1, 2, 3, 4, 6, 11, 12, 13, 14, 18, 19, 20, 24, 25, 28, 29, 32}
  PROVE  Turn(k) = "none"
BY SMT DEF Turn

LEMMA ParametersFit ==
  ASSUME NEW ch \in Channel, NEW k \in {13, 18, 24, 32}
  PROVE  Fits(ch, k, Parameters(TrainDone(k) - TrainDone(k - 1)))
<1> DEFINE many == TrainDone(k) - TrainDone(k - 1)
<1>1. many \in Nat /\ k \in 1 .. 33
  BY DEF TrainDone
<1>2. "none" \notin ChannelReg /\ Turn(k) = "none"
  BY NoTurn DEF ChannelReg
<1>3. \A r \in ChannelReg : \A R \in SUBSET Bits : Keeps(r, k - 1, R) => Keeps(r, k, R)
  BY <1>1, <1>2, OtherKeeps
<1> HIDE DEF many
<1>4. Fits(ch, k, Parameters(many))
  BY <1>1, <1>3 DEF many, Fits, Parameters, Entry, Reg, Channel, Bits, ChannelReg, Spares
<1> QED
  BY <1>4 DEF many

LEMMA TrainFits ==
  ASSUME NEW ch \in Channel, NEW k \in 1 .. 33
  PROVE  Fits(ch, k, Train(ch)[k])
<1>1. Fits(ch, 1, Write(ch, "c_320", {}, {0}))
  <2>1. WriteKeeps("c_320", 1, {}, {0})
    BY DEF WriteKeeps, Keeps
  <2>3. {} \in SUBSET Bits /\ {0} \in SUBSET Bits
    BY DEF Bits
  <2> QED  BY <2>1, <2>3, WriteFits, NoTurn DEF ChannelReg
<1>2. Fits(ch, 2, Write(ch, "c_1b0", {}, {0}))
  <2>1. WriteKeeps("c_1b0", 2, {}, {0})
    BY DEF WriteKeeps, Keeps
  <2>3. {} \in SUBSET Bits /\ {0} \in SUBSET Bits
    BY DEF Bits
  <2> QED  BY <2>1, <2>3, WriteFits, NoTurn DEF ChannelReg
<1>3. Fits(ch, 3, Write(ch, "c_1b0", {5}, {5}))
  <2>1. WriteKeeps("c_1b0", 3, {5}, {5})
    BY DEF WriteKeeps, Keeps
  <2>3. {5} \in SUBSET Bits /\ {5} \in SUBSET Bits
    BY DEF Bits
  <2> QED  BY <2>1, <2>3, WriteFits, NoTurn DEF ChannelReg
<1>4. Fits(ch, 4, Write(ch, "c_320", {0}, {0}))
  <2>1. WriteKeeps("c_320", 4, {0}, {0})
    BY DEF WriteKeeps, Keeps
  <2>3. {0} \in SUBSET Bits /\ {0} \in SUBSET Bits
    BY DEF Bits
  <2> QED  BY <2>1, <2>3, WriteFits, NoTurn DEF ChannelReg
<1>5. Fits(ch, 5, Wait(ch, "c_1bc", {0}, {0}))
  <2>1. WaitKeeps("c_1bc", 5, {0}, {0})
    BY DEF WaitKeeps, Keeps
  <2>2. Turn(5) = "c_1bc"
    BY SMT DEF Turn
  <2>3. {0} \in SUBSET Bits /\ {0} \in SUBSET Bits
    BY DEF Bits
  <2> QED  BY <2>2, <2>1, <2>3, WaitFits DEF ChannelReg
<1>6. Fits(ch, 6, Write(ch, "c_320", {}, {0}))
  <2>1. WriteKeeps("c_320", 6, {}, {0})
    BY DEF WriteKeeps, Keeps
  <2>3. {} \in SUBSET Bits /\ {0} \in SUBSET Bits
    BY DEF Bits
  <2> QED  BY <2>1, <2>3, WriteFits, NoTurn DEF ChannelReg
<1>7. Fits(ch, 7, Write(ch, "c_1b0", {}, {5}))
  <2>1. WriteKeeps("c_1b0", 7, {}, {5})
    BY DEF WriteKeeps, Keeps
  <2>2. Turn(7) = "c_1b0"
    BY SMT DEF Turn
  <2>3. {} \in SUBSET Bits /\ {5} \in SUBSET Bits
    BY DEF Bits
  <2> QED  BY <2>2, <2>1, <2>3, WriteFits DEF ChannelReg
<1>8. Fits(ch, 8, Write(ch, "c_1b0", {0}, {0}))
  <2>1. WriteKeeps("c_1b0", 8, {0}, {0})
    BY DEF WriteKeeps, Keeps
  <2>2. Turn(8) = "c_1b0"
    BY SMT DEF Turn
  <2>3. {0} \in SUBSET Bits /\ {0} \in SUBSET Bits
    BY DEF Bits
  <2> QED  BY <2>2, <2>1, <2>3, WriteFits DEF ChannelReg
<1>9. Fits(ch, 9, Write(ch, "c_320", {0}, {0}))
  <2>1. WriteKeeps("c_320", 9, {0}, {0})
    BY DEF WriteKeeps, Keeps
  <2>2. Turn(9) = "c_320"
    BY SMT DEF Turn
  <2>3. {0} \in SUBSET Bits /\ {0} \in SUBSET Bits
    BY DEF Bits
  <2> QED  BY <2>2, <2>1, <2>3, WriteFits DEF ChannelReg
<1>10. Fits(ch, 10, Wait(ch, "c_004", {0}, {0, 1, 2}))
  <2>1. WaitKeeps("c_004", 10, {0}, {0, 1, 2})
    BY DEF WaitKeeps, Keeps
  <2>2. Turn(10) = "c_004"
    BY SMT DEF Turn
  <2>3. {0} \in SUBSET Bits /\ {0, 1, 2} \in SUBSET Bits
    BY DEF Bits
  <2> QED  BY <2>2, <2>1, <2>3, WaitFits DEF ChannelReg
<1>11. Fits(ch, 11, Write(ch, "c_180", {31}, {31}))
  <2>1. WriteKeeps("c_180", 11, {31}, {31})
    BY DEF WriteKeeps, Keeps
  <2>3. {31} \in SUBSET Bits /\ {31} \in SUBSET Bits
    BY DEF Bits
  <2> QED  BY <2>1, <2>3, WriteFits, NoTurn DEF ChannelReg
<1>12. Fits(ch, 12, Write(ch, "p_004", {9, 11, 13, 14}, 8 .. 15))
  <2>1. WriteKeeps("p_004", 12, {9, 11, 13, 14}, 8 .. 15)
    BY DEF WriteKeeps, Keeps
  <2>3. {9, 11, 13, 14} \in SUBSET Bits /\ 8 .. 15 \in SUBSET Bits
    BY DEF Bits
  <2> QED  BY <2>1, <2>3, WriteFits, NoTurn DEF ChannelReg
<1>13. Fits(ch, 13, Parameters(2))
  <2>1. TrainDone(13) - TrainDone(13 - 1) = 2
    BY DEF TrainDone
  <2> QED  BY <2>1, ParametersFit
<1>14. Fits(ch, 14, Write(ch, "p_004", {4, 7, 16, 24, 30}, {4, 6, 7} \cup 16 .. 31))
  <2> DEFINE v == {4, 7, 16, 24, 30}
             m == {4, 6, 7} \cup 16 .. 31
  <2>1. WriteKeeps("p_004", 14, v, m)
    BY DEF WriteKeeps, Keeps
  <2>2. Turn(14) = "none"
    BY NoTurn
  <2>3. v \in SUBSET Bits /\ m \in SUBSET Bits
    BY DEF Bits
  <2> HIDE DEF v, m
  <2>4. Fits(ch, 14, Write(ch, "p_004", v, m))
    BY <2>1, <2>2, <2>3, WriteFits DEF ChannelReg
  <2> QED  BY <2>4 DEF v, m
<1>15. Fits(ch, 15, Wait(ch, "p_174", 8 .. 11, 8 .. 11))
  <2>1. WaitKeeps("p_174", 15, 8 .. 11, 8 .. 11)
    BY DEF WaitKeeps, Keeps
  <2>2. Turn(15) = "p_174"
    BY SMT DEF Turn
  <2>3. 8 .. 11 \in SUBSET Bits /\ 8 .. 11 \in SUBSET Bits
    BY DEF Bits
  <2> QED  BY <2>2, <2>1, <2>3, WaitFits DEF ChannelReg
<1>16. Fits(ch, 16, Write(ch, "p_004", {}, {4}))
  <2>1. WriteKeeps("p_004", 16, {}, {4})
    BY DEF WriteKeeps, Keeps
  <2>2. Turn(16) = "p_004"
    BY SMT DEF Turn
  <2>3. {} \in SUBSET Bits /\ {4} \in SUBSET Bits
    BY DEF Bits
  <2> QED  BY <2>2, <2>1, <2>3, WriteFits DEF ChannelReg
<1>17. Fits(ch, 17, Write(ch, "p_004", {}, {6, 7}))
  <2>1. WriteKeeps("p_004", 17, {}, {6, 7})
    BY DEF WriteKeeps, Keeps
  <2>2. Turn(17) = "p_004"
    BY SMT DEF Turn
  <2>3. {} \in SUBSET Bits /\ {6, 7} \in SUBSET Bits
    BY DEF Bits
  <2> QED  BY <2>2, <2>1, <2>3, WriteFits DEF ChannelReg
<1>18. Fits(ch, 18, Parameters(5))
  <2>1. TrainDone(18) - TrainDone(18 - 1) = 5
    BY DEF TrainDone
  <2> QED  BY <2>1, ParametersFit
<1>19. Fits(ch, 19, Write(ch, "p_004", {3}, {2, 3}))
  <2>1. WriteKeeps("p_004", 19, {3}, {2, 3})
    BY DEF WriteKeeps, Keeps
  <2>3. {3} \in SUBSET Bits /\ {2, 3} \in SUBSET Bits
    BY DEF Bits
  <2> QED  BY <2>1, <2>3, WriteFits, NoTurn DEF ChannelReg
<1>20. Fits(ch, 20, Write(ch, "p_004", {0}, {0}))
  <2>1. WriteKeeps("p_004", 20, {0}, {0})
    BY DEF WriteKeeps, Keeps
  <2>3. {0} \in SUBSET Bits /\ {0} \in SUBSET Bits
    BY DEF Bits
  <2> QED  BY <2>1, <2>3, WriteFits, NoTurn DEF ChannelReg
<1>21. Fits(ch, 21, Wait(ch, "p_174", 0 .. 3, 0 .. 3))
  <2>1. WaitKeeps("p_174", 21, 0 .. 3, 0 .. 3)
    BY DEF WaitKeeps, Keeps
  <2>2. Turn(21) = "p_174"
    BY SMT DEF Turn
  <2>3. 0 .. 3 \in SUBSET Bits /\ 0 .. 3 \in SUBSET Bits
    BY DEF Bits
  <2> QED  BY <2>2, <2>1, <2>3, WaitFits DEF ChannelReg
<1>22. Fits(ch, 22, Write(ch, "p_004", {}, {0}))
  <2>1. WriteKeeps("p_004", 22, {}, {0})
    BY DEF WriteKeeps, Keeps
  <2>2. Turn(22) = "p_004"
    BY SMT DEF Turn
  <2>3. {} \in SUBSET Bits /\ {0} \in SUBSET Bits
    BY DEF Bits
  <2> QED  BY <2>2, <2>1, <2>3, WriteFits DEF ChannelReg
<1>23. Fits(ch, 23, Write(ch, "p_004", {}, {2, 3}))
  <2>1. WriteKeeps("p_004", 23, {}, {2, 3})
    BY DEF WriteKeeps, Keeps
  <2>2. Turn(23) = "p_004"
    BY SMT DEF Turn
  <2>3. {} \in SUBSET Bits /\ {2, 3} \in SUBSET Bits
    BY DEF Bits
  <2> QED  BY <2>2, <2>1, <2>3, WriteFits DEF ChannelReg
<1>24. Fits(ch, 24, Parameters(4))
  <2>1. TrainDone(24) - TrainDone(24 - 1) = 4
    BY DEF TrainDone
  <2> QED  BY <2>1, ParametersFit
<1>25. Fits(ch, 25, Write(ch, "p_0a4", {0, 9}, {0, 8, 9}))
  <2>1. WriteKeeps("p_0a4", 25, {0, 9}, {0, 8, 9})
    BY DEF WriteKeeps, Keeps
  <2>3. {0, 9} \in SUBSET Bits /\ {0, 8, 9} \in SUBSET Bits
    BY DEF Bits
  <2> QED  BY <2>1, <2>3, WriteFits, NoTurn DEF ChannelReg
<1>26. Fits(ch, 26, Wait(ch, "p_1c4", 12 .. 15, 12 .. 15))
  <2>1. WaitKeeps("p_1c4", 26, 12 .. 15, 12 .. 15)
    BY DEF WaitKeeps, Keeps
  <2>2. Turn(26) = "p_1c4"
    BY SMT DEF Turn
  <2>3. 12 .. 15 \in SUBSET Bits /\ 12 .. 15 \in SUBSET Bits
    BY DEF Bits
  <2> QED  BY <2>2, <2>1, <2>3, WaitFits DEF ChannelReg
<1>27. Fits(ch, 27, Write(ch, "p_0a4", {}, {0}))
  <2>1. WriteKeeps("p_0a4", 27, {}, {0})
    BY DEF WriteKeeps, Keeps
  <2>2. Turn(27) = "p_0a4"
    BY SMT DEF Turn
  <2>3. {} \in SUBSET Bits /\ {0} \in SUBSET Bits
    BY DEF Bits
  <2> QED  BY <2>2, <2>1, <2>3, WriteFits DEF ChannelReg
<1>28. Fits(ch, 28, Write(ch, "p_0b0", {0, 7}, {0, 4, 6, 7}))
  <2>1. WriteKeeps("p_0b0", 28, {0, 7}, {0, 4, 6, 7})
    BY DEF WriteKeeps, Keeps
  <2>3. {0, 7} \in SUBSET Bits /\ {0, 4, 6, 7} \in SUBSET Bits
    BY DEF Bits
  <2> QED  BY <2>1, <2>3, WriteFits, NoTurn DEF ChannelReg
<1>29. Fits(ch, 29, Write(ch, "p_0b0", {1}, {1}))
  <2>1. WriteKeeps("p_0b0", 29, {1}, {1})
    BY DEF WriteKeeps, Keeps
  <2>3. {1} \in SUBSET Bits /\ {1} \in SUBSET Bits
    BY DEF Bits
  <2> QED  BY <2>1, <2>3, WriteFits, NoTurn DEF ChannelReg
<1>30. Fits(ch, 30, Wait(ch, "p_158", {7}, {7}))
  <2>1. WaitKeeps("p_158", 30, {7}, {7})
    BY DEF WaitKeeps, Keeps
  <2>2. Turn(30) = "p_158"
    BY SMT DEF Turn
  <2>3. {7} \in SUBSET Bits /\ {7} \in SUBSET Bits
    BY DEF Bits
  <2> QED  BY <2>2, <2>1, <2>3, WaitFits DEF ChannelReg
<1>31. Fits(ch, 31, Write(ch, "p_0b0", {}, {1, 6, 7}))
  <2>1. WriteKeeps("p_0b0", 31, {}, {1, 6, 7})
    BY DEF WriteKeeps, Keeps
  <2>2. Turn(31) = "p_0b0"
    BY SMT DEF Turn
  <2>3. {} \in SUBSET Bits /\ {1, 6, 7} \in SUBSET Bits
    BY DEF Bits
  <2> QED  BY <2>2, <2>1, <2>3, WriteFits DEF ChannelReg
<1>32. Fits(ch, 32, Parameters(1))
  <2>1. TrainDone(32) - TrainDone(32 - 1) = 1
    BY DEF TrainDone
  <2> QED  BY <2>1, ParametersFit
<1>33. Fits(ch, 33, Write(ch, "c_180", {}, {31}))
  <2>1. WriteKeeps("c_180", 33, {}, {31})
    BY DEF WriteKeeps, Keeps
  <2>2. Turn(33) = "c_180"
    BY SMT DEF Turn
  <2>3. {} \in SUBSET Bits /\ {31} \in SUBSET Bits
    BY DEF Bits
  <2> QED  BY <2>2, <2>1, <2>3, WriteFits DEF ChannelReg
<1> DEFINE S == {j \in 1 .. 33 : Fits(ch, j, Train(ch)[j])}
<1>34. {1, 2, 3, 4, 5, 6, 7, 8, 9, 10, 11} \subseteq S
  <2>1. {1, 2, 3, 4, 5, 6} \subseteq S
    BY <1>1, <1>2, <1>3, <1>4, <1>5, <1>6, TrainIs
  <2>2. {7, 8, 9, 10, 11} \subseteq S
    BY <1>7, <1>8, <1>9, <1>10, <1>11, TrainIs
  <2> HIDE DEF S
  <2> QED  BY <2>1, <2>2
<1>35. {12, 13, 14, 15, 16, 17, 18, 19, 20, 21, 22} \subseteq S
  <2>0. 14 \in S
    BY <1>14, TrainIs
  <2>1. {12, 13, 15, 16, 17} \subseteq S
    BY <1>12, <1>13, <1>15, <1>16, <1>17, TrainIs
  <2>2. {18, 19, 20, 21, 22} \subseteq S
    BY <1>18, <1>19, <1>20, <1>21, <1>22, TrainIs
  <2> HIDE DEF S
  <2> QED  BY <2>0, <2>1, <2>2
<1>36. {23, 24, 25, 26, 27, 28, 29, 30, 31, 32, 33} \subseteq S
  <2>1. {23, 24, 25, 26, 27, 28} \subseteq S
    BY <1>23, <1>24, <1>25, <1>26, <1>27, <1>28, TrainIs
  <2>2. {29, 30, 31, 32, 33} \subseteq S
    BY <1>29, <1>30, <1>31, <1>32, <1>33, TrainIs
  <2> HIDE DEF S
  <2> QED  BY <2>1, <2>2
<1>37. \A j \in 1 .. 33 : j \in S
  <2> HIDE DEF S
  <2> QED  BY <1>34, <1>35, <1>36, NumbersTo33
<1> QED
  BY <1>37

----------------------------------------------------------------------------
(* The whole list.                                                          *)

\* Entries that the q first ones of a set-up count for.
SetUpDone(q) == q + (IF q >= 1 THEN 34 ELSE 0) + (IF q >= 5 THEN 31 ELSE 0) + (IF q >= 7 THEN 60 ELSE 0)

\* Entries that the q first ones of a release count for.
ReleaseDone(q) == q + (IF q >= 2 THEN 1 ELSE 0)

\* Entries that the p first ones count for.
Done(p) ==
    CASE p \in 0 .. 9    -> p + (IF p >= 7 THEN 3 ELSE 0) + (IF p >= 9 THEN 2 ELSE 0)
      [] p \in 10 .. 16  -> 14 + SetUpDone(p - 9)
      [] p \in 17 .. 23  -> 146 + SetUpDone(p - 16)
      [] p \in 24 .. 28  -> 312 + ReleaseDone(p - 24)
      [] p \in 29 .. 61  -> 317 + TrainDone(p - 28)
      [] p \in 62 .. 66  -> 420 + ReleaseDone(p - 62)
      [] p \in 67 .. 99  -> 425 + TrainDone(p - 66)
      [] p = 100         -> 554
      [] p = 101         -> 571

\* The resets that the p first entries have released.
Resets(p, R) ==
    /\ (p >= 27 => 9 \notin R) /\ (p >= 28 => 0 \notin R)
    /\ (p >= 65 => 10 \notin R) /\ (p >= 66 => 1 \notin R)

\* The entries that set what Spares speaks of.
Settling == {6, 11, 18}

\* The k-th entry of the list, one that is not of a training.
Common(k, e) ==
    /\ e \in Entry /\ e.n = Done(k) - Done(k - 1)
    /\ k \notin Settling => Spares(e)
    /\ \A ch \in Channel, reg \in ChannelReg, R \in SUBSET Bits :
          e.at = <<ch, reg>> /\ Keeps(reg, k - 1 - Off(ch), R) =>
              \A T : Effect(e, R, T) => Keeps(reg, k - Off(ch), T)
    /\ \A R \in SUBSET Bits :
          Resets(k - 1, R) =>
              IF e.at = <<0, "408">> THEN \A T : Effect(e, R, T) => Resets(k, T)
                                     ELSE Resets(k, R)

Releases(k, v, m) ==
    \A R \in SUBSET Bits : Resets(k - 1, R) => Resets(k, (R \ m) \cup v)

LEMMA SameResets ==
  ASSUME NEW k \in 1 .. 101, k \notin {27, 28, 65, 66}, NEW R, Resets(k - 1, R)
  PROVE  Resets(k, R)
BY DEF Resets

\* The entries of one register of channel 0.
Singles == {1, 3, 4, 5, 6}
ResetEntries == {8, 27, 28, 65, 66}

\* Those of the parameters of a channel.
ParameterWrites == {11, 13, 15, 18, 20, 22, 25, 63}

LEMMA SinglesCount ==
  \A k \in Singles \cup ResetEntries \cup ParameterWrites : k \in 1 .. 101 /\ Done(k) - Done(k - 1) = 1
BY SMT DEF Done, SetUpDone, ReleaseDone, Singles, ResetEntries, ParameterWrites

LEMMA SingleCommon ==
  ASSUME NEW k \in Singles, NEW reg \in {"314", "318", "c0c"}, reg = "318" => k \in Settling,
         NEW v \in SUBSET Bits, NEW m \in SUBSET Bits
  PROVE  Common(k, Write(0, reg, v, m)) /\ Common(k, Wait(0, reg, v, m))
<1>1. <<0, reg>> \in Reg /\ reg # "408" /\ reg # "c_180"
  BY DEF Reg
<1>2. ASSUME NEW e \in {Write(0, reg, v, m), Wait(0, reg, v, m)} PROVE Common(k, e)
  <2>1. e \in Entry /\ e.n = 1 /\ e.at = <<0, reg>> /\ e.at # <<0, "408">>
    BY <1>1 DEF Write, Wait, Entry
  <2>2. k \notin {27, 28, 65, 66}
    BY DEF Singles
  <2>3. \A R \in SUBSET Bits : Resets(k - 1, R) => Resets(k, R)
    BY <2>2, SinglesCount, SameResets
  <2>4. k \notin Settling => Spares(e)
    BY <1>1, <2>1 DEF Spares
  <2>5. \A ch \in Channel, c \in ChannelReg : e.at # <<ch, c>>
    BY <2>1 DEF Channel
  <2> QED  BY <2>1, <2>3, <2>4, <2>5, SinglesCount DEF Common
<1> QED
  BY <1>2

LEMMA ResetCommon ==
  ASSUME NEW k \in ResetEntries, NEW v \in SUBSET Bits, NEW m \in SUBSET Bits, Releases(k, v, m)
  PROVE  Common(k, Write(0, "408", v, m))
<1> DEFINE e == Write(0, "408", v, m)
<1>1. /\ e \in Entry /\ e.n = 1 /\ e.at = <<0, "408">>
      /\ \A R, T : Effect(e, R, T) => T = (R \ m) \cup v
  BY DEF Write, Entry, Effect, Reg
<1> HIDE DEF e
<1>2. Done(k) - Done(k - 1) = 1
  BY SinglesCount
<1>3. Spares(e) /\ \A ch \in Channel, c \in ChannelReg : e.at # <<ch, c>>
  BY <1>1 DEF Spares, Channel
<1> QED
  BY <1>1, <1>2, <1>3 DEF Common, Releases, e

LEMMA ParametersCommon ==
  ASSUME NEW k \in 1 .. 101, k \notin {27, 28, 65, 66}, NEW many \in Nat, Done(k) - Done(k - 1) = many
  PROVE  Common(k, Parameters(many))
<1> DEFINE e == Parameters(many)
<1>1. e \in Entry /\ e.n = many /\ e.at = <<0, "314">>
  BY DEF Parameters, Entry, Reg, Bits
<1> HIDE DEF e
<1>2. \A R \in SUBSET Bits : Resets(k - 1, R) =>
         IF e.at = <<0, "408">> THEN \A T : Effect(e, R, T) => Resets(k, T) ELSE Resets(k, R)
  BY <1>1, SameResets
<1>3. Spares(e) /\ \A ch \in Channel, c \in ChannelReg : e.at # <<ch, c>>
  BY <1>1 DEF Spares, Channel
<1> QED
  BY <1>1, <1>2, <1>3 DEF Common, e

\* The bits that the parameters write into registers of a channel.
Given == {<<"c_180", {6, 24, 30}>>, <<"c_1b0", {0, 5}>>, <<"c_320", {0}>>, <<"p_0a4", {3}>>}

LEMMA ParameterWriteCommon ==
  ASSUME NEW ch \in Channel, NEW k \in ParameterWrites, k <= Off(ch),
         NEW g \in Given, g[1] = "c_180" => k \in Settling, NEW m \in SUBSET Bits
  PROVE  Common(k, Write(ch, g[1], g[2], m))
<1> DEFINE e == Write(ch, g[1], g[2], m)
           reg == g[1]
           v == g[2]
           p == k - Off(ch)
<1>0. k \in 1 .. 101 /\ k \notin {27, 28, 65, 66}
  BY DEF ParameterWrites
<1>1. reg \in ChannelReg /\ v \in SUBSET Bits /\ <<ch, reg>> \in Reg /\ ch # 0
  BY DEF Given, ChannelReg, Bits, Reg, Channel
<1>2. p \in Int /\ p <= 0 /\ k - 1 - Off(ch) = p - 1
  BY <1>0 DEF Off
<1>3. \A R : Keeps(reg, p - 1, R) => Keeps(reg, p, (R \ m) \cup v)
  <2> HIDE DEF p
  <2>1. CASE g = <<"c_180", {6, 24, 30}>>
    BY <1>2, <2>1 DEF Keeps
  <2>2. CASE g = <<"c_1b0", {0, 5}>>
    BY <1>2, <2>2 DEF Keeps
  <2>3. CASE g = <<"c_320", {0}>>
    BY <1>2, <2>3 DEF Keeps
  <2>4. CASE g = <<"p_0a4", {3}>>
    BY <1>2, <2>4 DEF Keeps
  <2> QED  BY <2>1, <2>2, <2>3, <2>4 DEF Given
<1> HIDE DEF reg, v, p
<1>4. e = Write(ch, reg, v, m)
  BY DEF reg, v
<1>5. /\ e \in Entry /\ e.n = 1 /\ e.at = <<ch, reg>> /\ e.at[1] = ch /\ e.at[2] = reg
      /\ \A R, T : Effect(e, R, T) => T = (R \ m) \cup v
  BY <1>1, <1>4 DEF Write, Entry, Effect
<1> HIDE DEF e
<1>6. Done(k) - Done(k - 1) = 1
  BY SinglesCount
<1>7. k \notin Settling => Spares(e)
  BY <1>1, <1>5 DEF Spares, reg
<1>8. ASSUME NEW c \in Channel, NEW o \in ChannelReg, NEW R \in SUBSET Bits,
             e.at = <<c, o>>, Keeps(o, k - 1 - Off(c), R), NEW T, Effect(e, R, T)
      PROVE  Keeps(o, k - Off(c), T)
  <2>1. c = ch /\ o = reg
    BY <1>5, <1>8
  <2>2. Keeps(reg, p - 1, R) /\ T = (R \ m) \cup v
    BY <1>2, <1>5, <1>8, <2>1
  <2>3. Keeps(reg, p, T)
    BY <1>3, <2>2
  <2> QED  BY <2>1, <2>3 DEF p
<1>9. e.at # <<0, "408">> /\ \A R \in SUBSET Bits : Resets(k - 1, R) => Resets(k, R)
  BY <1>0, <1>1, <1>5, SameResets
<1> QED
  BY <1>5, <1>6, <1>7, <1>8, <1>9 DEF Common, e, reg, v

\* What the stretches of parameters count for.
LEMMA StretchesCount ==
  /\ Done(2) - Done(1) = 1 /\ Done(7) - Done(6) = 4 /\ Done(9) - Done(8) = 3
  /\ \A b \in {9, 16} : /\ Done(b + 1) - Done(b + 1 - 1) = 35 /\ Done(b + 3) - Done(b + 3 - 1) = 1
                        /\ Done(b + 5) - Done(b + 5 - 1) = 32 /\ Done(b + 7) - Done(b + 7 - 1) = 61
  /\ Done(24) - Done(23) = 34 /\ Done(26) - Done(25) = 2
  /\ Done(62) - Done(61) = 62 /\ Done(64) - Done(63) = 2
  /\ Done(100) - Done(99) = 88 /\ Done(101) - Done(100) = 17
<1>1. Done(2) - Done(1) = 1 /\ Done(7) - Done(6) = 4 /\ Done(9) - Done(8) = 3
  BY SMT DEF Done
<1>2. /\ Done(10) - Done(9) = 35 /\ Done(12) - Done(11) = 1
      /\ Done(14) - Done(13) = 32 /\ Done(16) - Done(15) = 61
  BY SMT DEF Done, SetUpDone
<1>3. /\ Done(17) - Done(16) = 35 /\ Done(19) - Done(18) = 1
      /\ Done(21) - Done(20) = 32 /\ Done(23) - Done(22) = 61
  BY SMT DEF Done, SetUpDone
<1>4. /\ Done(24) - Done(23) = 34 /\ Done(26) - Done(25) = 2
      /\ Done(62) - Done(61) = 62 /\ Done(64) - Done(63) = 2
      /\ Done(100) - Done(99) = 88 /\ Done(101) - Done(100) = 17
  BY SMT DEF Done, SetUpDone, ReleaseDone, TrainDone
<1> QED
  BY <1>1, <1>2, <1>3, <1>4

LEMMA TrainDoneIs ==
  ASSUME NEW ch \in Channel, NEW k \in 1 .. 33
  PROVE  Done(Off(ch) + k) - Done(Off(ch) + k - 1) = TrainDone(k) - TrainDone(k - 1)
<1>1. CASE ch = 1
  BY <1>1, SMT DEF Done, TrainDone, ReleaseDone, Off
<1>2. CASE ch = 2
  BY <1>2, SMT DEF Done, TrainDone, ReleaseDone, Off
<1> QED
  BY <1>1, <1>2 DEF Channel

LEMMA DoneGrows ==
  /\ Done(0) = 0 /\ Done(101) = LEN
  /\ \A p \in 0 .. 100 : Done(p) \in Nat /\ Done(p) < LEN
<1>1. /\ \A q \in 0 .. 33 : TrainDone(q) \in 0 .. 41
      /\ \A q \in 0 .. 7 : SetUpDone(q) \in 0 .. 132
      /\ \A q \in 0 .. 4 : ReleaseDone(q) \in 0 .. 5
  BY SMT DEF TrainDone, SetUpDone, ReleaseDone
<1>2. /\ \A p \in 29 .. 61 : p - 28 \in 0 .. 33
      /\ \A p \in 67 .. 99 : p - 66 \in 0 .. 33
  OBVIOUS
<1>3. /\ \A p \in 10 .. 16 : p - 9 \in 0 .. 7
      /\ \A p \in 17 .. 23 : p - 16 \in 0 .. 7
      /\ \A p \in 24 .. 28 : p - 24 \in 0 .. 4
      /\ \A p \in 62 .. 66 : p - 62 \in 0 .. 4
  OBVIOUS
<1>4. Done(0) = 0 /\ Done(100) = 554 /\ Done(101) = LEN
  BY SMT DEF Done, LEN
<1>5. ASSUME NEW p \in 0 .. 9 PROVE Done(p) \in Nat /\ Done(p) < LEN
  <2>1. Done(p) = p + (IF p >= 7 THEN 3 ELSE 0) + (IF p >= 9 THEN 2 ELSE 0)
    BY SMT DEF Done
  <2> QED  BY <2>1, SMT DEF LEN
<1>6. ASSUME NEW p \in 10 .. 23 PROVE Done(p) \in Nat /\ Done(p) < LEN
  <2>1. p \in 10 .. 16 => Done(p) = 14 + SetUpDone(p - 9)
    BY SMT DEF Done
  <2>2. p \in 17 .. 23 => Done(p) = 146 + SetUpDone(p - 16)
    BY SMT DEF Done
  <2>3. p \in 10 .. 16 \/ p \in 17 .. 23
    OBVIOUS
  <2> QED  BY <1>1, <1>3, <2>1, <2>2, <2>3, SMT DEF LEN
<1>7. ASSUME NEW p \in 24 .. 28 \cup 62 .. 66 PROVE Done(p) \in Nat /\ Done(p) < LEN
  <2>1. p \in 24 .. 28 => Done(p) = 312 + ReleaseDone(p - 24)
    BY SMT DEF Done
  <2>2. p \in 62 .. 66 => Done(p) = 420 + ReleaseDone(p - 62)
    BY SMT DEF Done
  <2> QED  BY <1>1, <1>3, <2>1, <2>2, SMT DEF LEN
<1>8. ASSUME NEW p \in 29 .. 61 \cup 67 .. 99 PROVE Done(p) \in Nat /\ Done(p) < LEN
  <2>1. p \in 29 .. 61 => Done(p) = 317 + TrainDone(p - 28)
    BY SMT DEF Done
  <2>2. p \in 67 .. 99 => Done(p) = 425 + TrainDone(p - 66)
    BY SMT DEF Done
  <2> QED  BY <1>1, <1>2, <2>1, <2>2, SMT DEF LEN
<1>9. \A p \in 0 .. 100 : \/ p \in 0 .. 9 \/ p \in 10 .. 23 \/ p \in 24 .. 28 \cup 62 .. 66
                          \/ p \in 29 .. 61 \cup 67 .. 99 \/ p = 100
  OBVIOUS
<1> QED
  BY <1>4, <1>5, <1>6, <1>7, <1>8, <1>9 DEF LEN

LEMMA PllCommon ==
  ASSUME NEW k \in 1 .. 9
  PROVE  Common(k, PllAndReset[k])
<1> DEFINE t == PllAndReset
           set == {2, 7, 8, 9, 10, 12, 13, 16}
<1>1. /\ <<0, "314">> \in Reg /\ <<0, "318">> \in Reg /\ <<0, "408">> \in Reg /\ <<0, "c0c">> \in Reg
      /\ {} \in SUBSET Bits /\ {0} \in SUBSET Bits /\ {5} \in SUBSET Bits /\ {8, 9} \in SUBSET Bits
      /\ {0, 1} \in SUBSET Bits /\ set \in SUBSET Bits /\ 0 .. 17 \in SUBSET Bits
  BY DEF Reg, Bits
<1> HIDE DEF set
<1>2. /\ t[1] = Write(0, "314", {8, 9}, {8, 9}) /\ t[2] = Parameters(1)
      /\ t[3] = Write(0, "314", {5}, {5}) /\ t[4] = Write(0, "c0c", set, 0 .. 17)
      /\ t[5] = Write(0, "314", {}, {5}) /\ t[6] = Wait(0, "318", {0}, {0})
      /\ t[7] = Parameters(4) /\ t[8] = Write(0, "408", {0, 1}, {0, 1}) /\ t[9] = Parameters(3)
  BY DEF PllAndReset, set
<1> HIDE DEF t
<1>3. Common(1, t[1]) /\ Common(3, t[3]) /\ Common(4, t[4])
  BY <1>1, <1>2, SingleCommon DEF Singles
<1>4. Common(5, t[5]) /\ Common(6, t[6])
  BY <1>1, <1>2, SingleCommon DEF Singles, Settling
<1>5. Common(2, t[2]) /\ Common(7, t[7]) /\ Common(9, t[9])
  BY <1>2, ParametersCommon, StretchesCount
<1>6. Common(8, t[8])
  <2>1. Releases(8, {0, 1}, {0, 1})
    BY DEF Releases, Resets
  <2> QED  BY <1>1, <1>2, <2>1, ResetCommon DEF ResetEntries
<1>7. k \in {1, 2, 3, 4, 5, 6, 7, 8, 9}
  OBVIOUS
<1> QED
  BY <1>3, <1>4, <1>5, <1>6, <1>7 DEF t

LEMMA SetUpCommon ==
  ASSUME NEW ch \in Channel, NEW k \in 1 .. 7
  PROVE  Common(7 * ch + 2 + k, SetUp(ch)[k])
<1> DEFINE t == SetUp(ch)
           b == 7 * ch + 2
           wide == 0 .. 9 \cup 16 .. 26 \cup 29 .. 31
           some == {0, 4, 5} \cup 8 .. 12
<1>1. /\ t[1] = Parameters(35) /\ t[2] = Write(ch, "c_180", {6, 24, 30}, wide)
      /\ t[3] = Parameters(1) /\ t[4] = Write(ch, "c_1b0", {0, 5}, some)
      /\ t[5] = Parameters(32) /\ t[6] = Write(ch, "c_320", {0}, {0}) /\ t[7] = Parameters(61)
  BY DEF SetUp
<1>2. wide \in SUBSET Bits /\ some \in SUBSET Bits /\ {0} \in SUBSET Bits
  BY DEF Bits
<1> HIDE DEF t, wide, some
<1>3. b \in {9, 16} /\ b + 7 <= Off(ch)
  BY DEF Channel, Off
<1> HIDE DEF b
<1>4. /\ b + 2 \in ParameterWrites /\ b + 4 \in ParameterWrites /\ b + 6 \in ParameterWrites
      /\ b + 2 \in Settling
      /\ \A j \in {1, 3, 5, 7} : b + j \in 1 .. 101 /\ b + j \notin {27, 28, 65, 66}
      /\ \A j \in 1 .. 7 : b + j <= Off(ch)
  BY <1>3 DEF ParameterWrites, Settling, Off
<1>5. Common(b + 1, t[1]) /\ Common(b + 3, t[3])
  BY <1>1, <1>3, <1>4, ParametersCommon, StretchesCount
<1>6. Common(b + 5, t[5]) /\ Common(b + 7, t[7])
  BY <1>1, <1>3, <1>4, ParametersCommon, StretchesCount
<1>7. Common(b + 2, t[2])
  <2> DEFINE g == <<"c_180", {6, 24, 30}>>
  <2>1. g \in Given /\ g[1] = "c_180" /\ g[2] = {6, 24, 30}
    BY DEF Given
  <2> HIDE DEF g
  <2>2. b + 2 \in ParameterWrites /\ b + 2 <= Off(ch) /\ (g[1] = "c_180" => b + 2 \in Settling)
    BY <1>4, <2>1
  <2>3. Common(b + 2, Write(ch, g[1], g[2], wide))
    BY <1>2, <2>1, <2>2, ParameterWriteCommon
  <2> QED  BY <1>1, <2>1, <2>3
<1>8. Common(b + 4, t[4])
  <2> DEFINE g == <<"c_1b0", {0, 5}>>
  <2>1. g \in Given /\ g[1] = "c_1b0" /\ g[2] = {0, 5}
    BY DEF Given
  <2> HIDE DEF g
  <2>2. b + 4 \in ParameterWrites /\ b + 4 <= Off(ch) /\ (g[1] = "c_180" => b + 4 \in Settling)
    BY <1>4, <2>1
  <2>3. Common(b + 4, Write(ch, g[1], g[2], some))
    BY <1>2, <2>1, <2>2, ParameterWriteCommon
  <2> QED  BY <1>1, <2>1, <2>3
<1>9. Common(b + 6, t[6])
  <2> DEFINE g == <<"c_320", {0}>>
  <2>1. g \in Given /\ g[1] = "c_320" /\ g[2] = {0}
    BY DEF Given
  <2> HIDE DEF g
  <2>2. b + 6 \in ParameterWrites /\ b + 6 <= Off(ch) /\ (g[1] = "c_180" => b + 6 \in Settling)
    BY <1>4, <2>1
  <2>3. Common(b + 6, Write(ch, g[1], g[2], {0}))
    BY <1>2, <2>1, <2>2, ParameterWriteCommon
  <2> QED  BY <1>1, <2>1, <2>3
<1>10. k \in {1, 2, 3, 4, 5, 6, 7}
  OBVIOUS
<1>11. Common(b + k, t[k])
  BY <1>5, <1>6, <1>7, <1>8, <1>9, <1>10
<1> QED
  BY <1>11 DEF b, t

LEMMA ReleaseCommon ==
  ASSUME NEW ch \in Channel, NEW k \in 1 .. 4
  PROVE  Common(Off(ch) - 4 + k, Release(ch)[k])
<1> DEFINE t == Release(ch)
           g == <<"p_0a4", {3}>>
<1>1. /\ t[1] = Write(ch, "p_0a4", {3}, {3}) /\ t[2] = Parameters(2)
      /\ t[3] = Write(0, "408", {}, {8 + ch}) /\ t[4] = Write(0, "408", {}, {ch - 1})
  BY DEF Release
<1> HIDE DEF t
<1>2. <<0, "408">> \in Reg /\ {} \in SUBSET Bits /\ \A b \in {0, 1, 3, 9, 10} : {b} \in SUBSET Bits
  BY DEF Reg, Bits
<1>3. g \in Given /\ g[1] = "p_0a4" /\ g[2] = {3}
  BY DEF Given
<1> HIDE DEF g
<1>4. CASE ch = 1
  <2>1. t[3] = Write(0, "408", {}, {9}) /\ t[4] = Write(0, "408", {}, {0})
    BY <1>1, <1>4
  <2>2. Common(26, t[2])
    BY <1>1, ParametersCommon, StretchesCount
  <2>3. Releases(27, {}, {9}) /\ Releases(28, {}, {0})
    BY DEF Releases, Resets
  <2>4. Common(27, t[3]) /\ Common(28, t[4])
    BY <1>2, <2>1, <2>3, ResetCommon DEF ResetEntries
  <2>5. Off(ch) = 28 /\ 25 \in ParameterWrites /\ 25 <= Off(ch)
    BY <1>4 DEF Off, ParameterWrites
  <2>6. Common(25, t[1])
    <3>1. {3} \in SUBSET Bits /\ g[1] # "c_180"
      BY <1>2, <1>3
    <3>2. Common(25, Write(ch, g[1], g[2], {3}))
      BY <1>3, <2>5, <3>1, ParameterWriteCommon
    <3> QED  BY <1>1, <1>3, <3>2
  <2>7. k \in {1, 2, 3, 4} /\ 28 - 4 + 1 = 25 /\ 28 - 4 + 2 = 26 /\ 28 - 4 + 3 = 27 /\ 28 - 4 + 4 = 28
    OBVIOUS
  <2> QED  BY <2>2, <2>4, <2>5, <2>6, <2>7 DEF t
<1>5. CASE ch = 2
  <2>1. t[3] = Write(0, "408", {}, {10}) /\ t[4] = Write(0, "408", {}, {1})
    BY <1>1, <1>5
  <2>2. Common(64, t[2])
    BY <1>1, ParametersCommon, StretchesCount
  <2>3. Releases(65, {}, {10}) /\ Releases(66, {}, {1})
    BY DEF Releases, Resets
  <2>4. Common(65, t[3]) /\ Common(66, t[4])
    BY <1>2, <2>1, <2>3, ResetCommon DEF ResetEntries
  <2>5. Off(ch) = 66 /\ 63 \in ParameterWrites /\ 63 <= Off(ch)
    BY <1>5 DEF Off, ParameterWrites
  <2>6. Common(63, t[1])
    <3>1. {3} \in SUBSET Bits /\ g[1] # "c_180"
      BY <1>2, <1>3
    <3>2. Common(63, Write(ch, g[1], g[2], {3}))
      BY <1>3, <2>5, <3>1, ParameterWriteCommon
    <3> QED  BY <1>1, <1>3, <3>2
  <2>7. k \in {1, 2, 3, 4} /\ 66 - 4 + 1 = 63 /\ 66 - 4 + 2 = 64 /\ 66 - 4 + 3 = 65 /\ 66 - 4 + 4 = 66
    OBVIOUS
  <2> QED  BY <2>2, <2>4, <2>5, <2>6, <2>7 DEF t
<1> QED
  BY <1>4, <1>5 DEF Channel

\* A list has another one after its first a entries.
HasAt(list, a, piece) ==
    /\ a + Len(piece) <= Len(list)
    /\ \A k \in 1 .. Len(piece) : list[a + k] = piece[k]

LEMMA Joined ==
  ASSUME NEW s \in Seq(Entry), NEW t \in Seq(Entry)
  PROVE  /\ s \o t \in Seq(Entry) /\ Len(s \o t) = Len(s) + Len(t)
         /\ HasAt(s \o t, Len(s), t)
         /\ \A a \in Nat, p \in Seq(Entry) : HasAt(s, a, p) => HasAt(s \o t, a, p)
<1>1. s \o t \in Seq(Entry) /\ Len(s \o t) = Len(s) + Len(t) /\ Len(s) \in Nat /\ Len(t) \in Nat
  BY ConcatProperties, LenProperties
<1>2. \A k \in 1 .. Len(s) + Len(t) : (s \o t)[k] = IF k <= Len(s) THEN s[k] ELSE t[k - Len(s)]
  BY ConcatProperties
<1> DEFINE l == s \o t
<1> HIDE DEF l
<1>3. ASSUME NEW k \in 1 .. Len(t) PROVE l[Len(s) + k] = t[k]
  <2>1. Len(s) + k \in 1 .. Len(s) + Len(t) /\ ~(Len(s) + k <= Len(s)) /\ Len(s) + k - Len(s) = k
    BY <1>1
  <2> QED  BY <2>1, <1>2 DEF l
<1>4. ASSUME NEW a \in Nat, NEW p \in Seq(Entry), HasAt(s, a, p) PROVE HasAt(l, a, p)
  <2>0. Len(p) \in Nat
    BY LenProperties
  <2>1. ASSUME NEW k \in 1 .. Len(p) PROVE l[a + k] = p[k]
    <3>1. a + k \in 1 .. Len(s) + Len(t) /\ a + k <= Len(s)
      BY <1>1, <1>4, <2>0 DEF HasAt
    <3>2. l[a + k] = s[a + k]
      BY <3>1, <1>2 DEF l
    <3> QED  BY <3>2, <1>4 DEF HasAt
  <2>2. a + Len(p) <= Len(l)
    BY <1>1, <1>4, <2>0 DEF HasAt, l
  <2> QED  BY <2>1, <2>2 DEF HasAt
<1>5. Len(s) + Len(t) <= Len(l)
  BY <1>1 DEF l
<1> QED
  BY <1>1, <1>3, <1>4, <1>5 DEF HasAt, l

LEMMA PiecesAre ==
  /\ PllAndReset \in Seq(Entry) /\ Len(PllAndReset) = 9
  /\ \A ch \in Channel : /\ SetUp(ch) \in Seq(Entry) /\ Len(SetUp(ch)) = 7
                         /\ Release(ch) \in Seq(Entry) /\ Len(Release(ch)) = 4
                         /\ Train(ch) \in Seq(Entry) /\ Len(Train(ch)) = 33
  /\ \A many \in Nat : Parameters(many) \in Entry
<1>1. \A many \in Nat : Parameters(many) \in Entry
  BY DEF Parameters, Entry, Reg, Bits
<1>2. PllAndReset \in Seq(Entry) /\ Len(PllAndReset) = 9
  <2>1. Len(PllAndReset) = 9 /\ PllAndReset = [k \in 1 .. 9 |-> PllAndReset[k]]
    BY DEF PllAndReset
  <2>2. \A k \in 1 .. 9 : PllAndReset[k] \in Entry
    BY PllCommon DEF Common
  <2>3. PllAndReset \in [1 .. 9 -> Entry]
    BY <2>1, <2>2
  <2> QED  BY <2>1, <2>3, SeqDef
<1>3. ASSUME NEW ch \in Channel PROVE Release(ch) \in Seq(Entry) /\ Len(Release(ch)) = 4
  <2>1. Len(Release(ch)) = 4 /\ Release(ch) = [k \in 1 .. 4 |-> Release(ch)[k]]
    BY DEF Release
  <2>2. \A k \in 1 .. 4 : Release(ch)[k] \in Entry
    BY ReleaseCommon DEF Common
  <2>3. Release(ch) \in [1 .. 4 -> Entry]
    BY <2>1, <2>2
  <2> QED  BY <2>1, <2>3, SeqDef
<1>4. ASSUME NEW ch \in Channel PROVE Train(ch) \in Seq(Entry) /\ Len(Train(ch)) = 33
  <2>1. Len(Train(ch)) = 33 /\ Train(ch) = [k \in 1 .. 33 |-> Train(ch)[k]]
    BY DEF Train
  <2>2. \A k \in 1 .. 33 : Train(ch)[k] \in Entry
    BY TrainFits DEF Fits
  <2>3. Train(ch) \in [1 .. 33 -> Entry]
    BY <2>1, <2>2
  <2> QED  BY <2>1, <2>3, SeqDef
<1>5. ASSUME NEW ch \in Channel PROVE SetUp(ch) \in Seq(Entry) /\ Len(SetUp(ch)) = 7
  <2>1. Len(SetUp(ch)) = 7 /\ SetUp(ch) = [k \in 1 .. 7 |-> SetUp(ch)[k]]
    BY DEF SetUp
  <2>2. \A k \in 1 .. 7 : SetUp(ch)[k] \in Entry
    BY SetUpCommon DEF Common
  <2>3. SetUp(ch) \in [1 .. 7 -> Entry]
    BY <2>1, <2>2
  <2> QED  BY <2>1, <2>3, SeqDef
<1> QED
  BY <1>1, <1>2, <1>3, <1>4, <1>5

\* Where the pieces are in the list.
LEMMA ListIs ==
  /\ DdrList \in Seq(Entry) /\ Len(DdrList) = 101
  /\ HasAt(DdrList, 0, PllAndReset)
  /\ HasAt(DdrList, 9, SetUp(1))
  /\ HasAt(DdrList, 16, SetUp(2))
  /\ HasAt(DdrList, 23, <<Parameters(34)>>)
  /\ HasAt(DdrList, 24, Release(1))
  /\ HasAt(DdrList, 28, Train(1))
  /\ HasAt(DdrList, 61, <<Parameters(62)>>)
  /\ HasAt(DdrList, 62, Release(2))
  /\ HasAt(DdrList, 66, Train(2))
  /\ HasAt(DdrList, 99, <<Parameters(88), Parameters(17)>>)
<1> DEFINE s1 == SetUp(1)
           s2 == SetUp(2)
           c2 == <<Parameters(34)>>
           r1 == Release(1)
           t1 == Train(1)
           c3 == <<Parameters(62)>>
           r2 == Release(2)
           t2 == Train(2)
           c4 == <<Parameters(88), Parameters(17)>>
           l1 == PllAndReset \o s1
           l2 == l1 \o s2
           l3 == l2 \o c2
           l4 == l3 \o r1
           l5 == l4 \o t1
           l6 == l5 \o c3
           l7 == l6 \o r2
           l8 == l7 \o t2
           l9 == l8 \o c4
<1>0. 1 \in Channel /\ 2 \in Channel
  BY DEF Channel
<1>1. /\ c2 \in Seq(Entry) /\ Len(c2) = 1 /\ c3 \in Seq(Entry) /\ Len(c3) = 1
      /\ c4 \in Seq(Entry) /\ Len(c4) = 2
  BY PiecesAre
<1>2. /\ s1 \in Seq(Entry) /\ Len(s1) = 7 /\ s2 \in Seq(Entry) /\ Len(s2) = 7
      /\ r1 \in Seq(Entry) /\ Len(r1) = 4 /\ t1 \in Seq(Entry) /\ Len(t1) = 33
      /\ r2 \in Seq(Entry) /\ Len(r2) = 4 /\ t2 \in Seq(Entry) /\ Len(t2) = 33
  BY <1>0, PiecesAre
<1>3. DdrList = l9
  BY DEF DdrList
<1> HIDE DEF s1, s2, c2, r1, t1, c3, r2, t2, c4, l1, l2, l3, l4, l5, l6, l7, l8, l9
<1>4. HasAt(PllAndReset, 0, PllAndReset)
  BY PiecesAre DEF HasAt
<1>5. /\ l1 \in Seq(Entry) /\ Len(l1) = 16 /\ HasAt(l1, 9, s1)
      /\ \A a \in Nat, p \in Seq(Entry) : HasAt(PllAndReset, a, p) => HasAt(l1, a, p)
  <2>1. PllAndReset \in Seq(Entry) /\ Len(PllAndReset) = 9 /\ s1 \in Seq(Entry) /\ Len(s1) = 7
    BY <1>1, <1>2, PiecesAre
  <2>2. l1 = PllAndReset \o s1
    BY DEF l1
  <2>3. l1 \in Seq(Entry) /\ Len(l1) = Len(PllAndReset) + Len(s1) /\ HasAt(l1, Len(PllAndReset), s1)
    BY <2>1, <2>2, Joined, ZenonT(60)
  <2>4. \A a \in Nat, p \in Seq(Entry) : HasAt(PllAndReset, a, p) => HasAt(l1, a, p)
    BY <2>1, <2>2, Joined
  <2>5. Len(l1) = 16 /\ HasAt(l1, 9, s1)
    BY <2>1, <2>3
  <2> QED  BY <2>3, <2>4, <2>5
<1>6. /\ l2 \in Seq(Entry) /\ Len(l2) = 23 /\ HasAt(l2, 16, s2)
      /\ \A a \in Nat, p \in Seq(Entry) : HasAt(l1, a, p) => HasAt(l2, a, p)
  <2>1. l1 \in Seq(Entry) /\ Len(l1) = 16 /\ s2 \in Seq(Entry) /\ Len(s2) = 7
    BY <1>1, <1>2, <1>5
  <2>2. l2 = l1 \o s2
    BY DEF l2
  <2>3. l2 \in Seq(Entry) /\ Len(l2) = Len(l1) + Len(s2) /\ HasAt(l2, Len(l1), s2)
    BY <2>1, <2>2, Joined, ZenonT(60)
  <2>4. \A a \in Nat, p \in Seq(Entry) : HasAt(l1, a, p) => HasAt(l2, a, p)
    BY <2>1, <2>2, Joined
  <2>5. Len(l2) = 23 /\ HasAt(l2, 16, s2)
    BY <2>1, <2>3
  <2> QED  BY <2>3, <2>4, <2>5
<1>7. /\ l3 \in Seq(Entry) /\ Len(l3) = 24 /\ HasAt(l3, 23, c2)
      /\ \A a \in Nat, p \in Seq(Entry) : HasAt(l2, a, p) => HasAt(l3, a, p)
  <2>1. l2 \in Seq(Entry) /\ Len(l2) = 23 /\ c2 \in Seq(Entry) /\ Len(c2) = 1
    BY <1>1, <1>2, <1>6
  <2>2. l3 = l2 \o c2
    BY DEF l3
  <2>3. l3 \in Seq(Entry) /\ Len(l3) = Len(l2) + Len(c2) /\ HasAt(l3, Len(l2), c2)
    BY <2>1, <2>2, Joined, ZenonT(60)
  <2>4. \A a \in Nat, p \in Seq(Entry) : HasAt(l2, a, p) => HasAt(l3, a, p)
    BY <2>1, <2>2, Joined
  <2>5. Len(l3) = 24 /\ HasAt(l3, 23, c2)
    BY <2>1, <2>3
  <2> QED  BY <2>3, <2>4, <2>5
<1>8. /\ l4 \in Seq(Entry) /\ Len(l4) = 28 /\ HasAt(l4, 24, r1)
      /\ \A a \in Nat, p \in Seq(Entry) : HasAt(l3, a, p) => HasAt(l4, a, p)
  <2>1. l3 \in Seq(Entry) /\ Len(l3) = 24 /\ r1 \in Seq(Entry) /\ Len(r1) = 4
    BY <1>1, <1>2, <1>7
  <2>2. l4 = l3 \o r1
    BY DEF l4
  <2>3. l4 \in Seq(Entry) /\ Len(l4) = Len(l3) + Len(r1) /\ HasAt(l4, Len(l3), r1)
    BY <2>1, <2>2, Joined, ZenonT(60)
  <2>4. \A a \in Nat, p \in Seq(Entry) : HasAt(l3, a, p) => HasAt(l4, a, p)
    BY <2>1, <2>2, Joined
  <2>5. Len(l4) = 28 /\ HasAt(l4, 24, r1)
    BY <2>1, <2>3
  <2> QED  BY <2>3, <2>4, <2>5
<1>9. /\ l5 \in Seq(Entry) /\ Len(l5) = 61 /\ HasAt(l5, 28, t1)
      /\ \A a \in Nat, p \in Seq(Entry) : HasAt(l4, a, p) => HasAt(l5, a, p)
  <2>1. l4 \in Seq(Entry) /\ Len(l4) = 28 /\ t1 \in Seq(Entry) /\ Len(t1) = 33
    BY <1>1, <1>2, <1>8
  <2>2. l5 = l4 \o t1
    BY DEF l5
  <2>3. l5 \in Seq(Entry) /\ Len(l5) = Len(l4) + Len(t1) /\ HasAt(l5, Len(l4), t1)
    BY <2>1, <2>2, Joined, ZenonT(60)
  <2>4. \A a \in Nat, p \in Seq(Entry) : HasAt(l4, a, p) => HasAt(l5, a, p)
    BY <2>1, <2>2, Joined
  <2>5. Len(l5) = 61 /\ HasAt(l5, 28, t1)
    BY <2>1, <2>3
  <2> QED  BY <2>3, <2>4, <2>5
<1>10. /\ l6 \in Seq(Entry) /\ Len(l6) = 62 /\ HasAt(l6, 61, c3)
      /\ \A a \in Nat, p \in Seq(Entry) : HasAt(l5, a, p) => HasAt(l6, a, p)
  <2>1. l5 \in Seq(Entry) /\ Len(l5) = 61 /\ c3 \in Seq(Entry) /\ Len(c3) = 1
    BY <1>1, <1>2, <1>9
  <2>2. l6 = l5 \o c3
    BY DEF l6
  <2>3. l6 \in Seq(Entry) /\ Len(l6) = Len(l5) + Len(c3) /\ HasAt(l6, Len(l5), c3)
    BY <2>1, <2>2, Joined, ZenonT(60)
  <2>4. \A a \in Nat, p \in Seq(Entry) : HasAt(l5, a, p) => HasAt(l6, a, p)
    BY <2>1, <2>2, Joined
  <2>5. Len(l6) = 62 /\ HasAt(l6, 61, c3)
    BY <2>1, <2>3
  <2> QED  BY <2>3, <2>4, <2>5
<1>11. /\ l7 \in Seq(Entry) /\ Len(l7) = 66 /\ HasAt(l7, 62, r2)
      /\ \A a \in Nat, p \in Seq(Entry) : HasAt(l6, a, p) => HasAt(l7, a, p)
  <2>1. l6 \in Seq(Entry) /\ Len(l6) = 62 /\ r2 \in Seq(Entry) /\ Len(r2) = 4
    BY <1>1, <1>2, <1>10
  <2>2. l7 = l6 \o r2
    BY DEF l7
  <2>3. l7 \in Seq(Entry) /\ Len(l7) = Len(l6) + Len(r2) /\ HasAt(l7, Len(l6), r2)
    BY <2>1, <2>2, Joined, ZenonT(60)
  <2>4. \A a \in Nat, p \in Seq(Entry) : HasAt(l6, a, p) => HasAt(l7, a, p)
    BY <2>1, <2>2, Joined
  <2>5. Len(l7) = 66 /\ HasAt(l7, 62, r2)
    BY <2>1, <2>3
  <2> QED  BY <2>3, <2>4, <2>5
<1>12. /\ l8 \in Seq(Entry) /\ Len(l8) = 99 /\ HasAt(l8, 66, t2)
      /\ \A a \in Nat, p \in Seq(Entry) : HasAt(l7, a, p) => HasAt(l8, a, p)
  <2>1. l7 \in Seq(Entry) /\ Len(l7) = 66 /\ t2 \in Seq(Entry) /\ Len(t2) = 33
    BY <1>1, <1>2, <1>11
  <2>2. l8 = l7 \o t2
    BY DEF l8
  <2>3. l8 \in Seq(Entry) /\ Len(l8) = Len(l7) + Len(t2) /\ HasAt(l8, Len(l7), t2)
    BY <2>1, <2>2, Joined, ZenonT(60)
  <2>4. \A a \in Nat, p \in Seq(Entry) : HasAt(l7, a, p) => HasAt(l8, a, p)
    BY <2>1, <2>2, Joined
  <2>5. Len(l8) = 99 /\ HasAt(l8, 66, t2)
    BY <2>1, <2>3
  <2> QED  BY <2>3, <2>4, <2>5
<1>13. /\ l9 \in Seq(Entry) /\ Len(l9) = 101 /\ HasAt(l9, 99, c4)
      /\ \A a \in Nat, p \in Seq(Entry) : HasAt(l8, a, p) => HasAt(l9, a, p)
  <2>1. l8 \in Seq(Entry) /\ Len(l8) = 99 /\ c4 \in Seq(Entry) /\ Len(c4) = 2
    BY <1>1, <1>2, <1>12
  <2>2. l9 = l8 \o c4
    BY DEF l9
  <2>3. l9 \in Seq(Entry) /\ Len(l9) = Len(l8) + Len(c4) /\ HasAt(l9, Len(l8), c4)
    BY <2>1, <2>2, Joined, ZenonT(60)
  <2>4. \A a \in Nat, p \in Seq(Entry) : HasAt(l8, a, p) => HasAt(l9, a, p)
    BY <2>1, <2>2, Joined
  <2>5. Len(l9) = 101 /\ HasAt(l9, 99, c4)
    BY <2>1, <2>3
  <2> QED  BY <2>3, <2>4, <2>5
<1>14. HasAt(l1, 0, PllAndReset)
  BY <1>1, <1>2, <1>4, <1>5, PiecesAre
<1>15. HasAt(l2, 0, PllAndReset) /\ HasAt(l2, 9, s1)
  BY <1>1, <1>2, <1>14, <1>6, <1>5, PiecesAre
<1>16. HasAt(l3, 0, PllAndReset) /\ HasAt(l3, 9, s1) /\ HasAt(l3, 16, s2)
  BY <1>1, <1>2, <1>15, <1>7, <1>6, PiecesAre
<1>17. /\ HasAt(l4, 0, PllAndReset) /\ HasAt(l4, 9, s1) /\ HasAt(l4, 16, s2)
       /\ HasAt(l4, 23, c2)
  BY <1>1, <1>2, <1>16, <1>8, <1>7, PiecesAre
<1>18. /\ HasAt(l5, 0, PllAndReset) /\ HasAt(l5, 9, s1) /\ HasAt(l5, 16, s2)
       /\ HasAt(l5, 23, c2) /\ HasAt(l5, 24, r1)
  BY <1>1, <1>2, <1>17, <1>9, <1>8, PiecesAre
<1>19. /\ HasAt(l6, 0, PllAndReset) /\ HasAt(l6, 9, s1) /\ HasAt(l6, 16, s2)
       /\ HasAt(l6, 23, c2) /\ HasAt(l6, 24, r1) /\ HasAt(l6, 28, t1)
  BY <1>1, <1>2, <1>18, <1>10, <1>9, PiecesAre
<1>20. /\ HasAt(l7, 0, PllAndReset) /\ HasAt(l7, 9, s1) /\ HasAt(l7, 16, s2)
       /\ HasAt(l7, 23, c2) /\ HasAt(l7, 24, r1) /\ HasAt(l7, 28, t1)
       /\ HasAt(l7, 61, c3)
  BY <1>1, <1>2, <1>19, <1>11, <1>10, PiecesAre
<1>21. /\ HasAt(l8, 0, PllAndReset) /\ HasAt(l8, 9, s1) /\ HasAt(l8, 16, s2)
       /\ HasAt(l8, 23, c2) /\ HasAt(l8, 24, r1) /\ HasAt(l8, 28, t1)
       /\ HasAt(l8, 61, c3) /\ HasAt(l8, 62, r2)
  BY <1>1, <1>2, <1>20, <1>12, <1>11, PiecesAre
<1>22. /\ HasAt(l9, 0, PllAndReset) /\ HasAt(l9, 9, s1) /\ HasAt(l9, 16, s2)
       /\ HasAt(l9, 23, c2) /\ HasAt(l9, 24, r1) /\ HasAt(l9, 28, t1)
       /\ HasAt(l9, 61, c3) /\ HasAt(l9, 62, r2) /\ HasAt(l9, 66, t2)
  BY <1>1, <1>2, <1>21, <1>13, <1>12, PiecesAre
<1> QED
  BY <1>3, <1>13, <1>22 DEF s1, s2, c2, r1, t1, c3, r2, t2, c4

LEMMA ParametersAt ==
  /\ DdrList[24] = Parameters(34) /\ DdrList[62] = Parameters(62)
  /\ DdrList[100] = Parameters(88) /\ DdrList[101] = Parameters(17)
<1>1. DdrList[23 + 1] = Parameters(34) /\ DdrList[61 + 1] = Parameters(62)
  BY ListIs DEF HasAt
<1>2. DdrList[99 + 1] = Parameters(88) /\ DdrList[99 + 2] = Parameters(17)
  BY ListIs DEF HasAt
<1> QED
  BY <1>1, <1>2

\* The entries that settle the lock of the PLL and the parameters of c_180.
LEMMA SettlingAt ==
  ASSUME NEW R, NEW T
  PROVE  /\ DdrList[6].at = <<0, "318">> /\ (Effect(DdrList[6], R, T) => 0 \in T)
         /\ DdrList[11].at = <<1, "c_180">> /\ (Effect(DdrList[11], R, T) => {6, 24, 30} \subseteq T)
         /\ DdrList[18].at = <<2, "c_180">> /\ (Effect(DdrList[18], R, T) => {6, 24, 30} \subseteq T)
<1>1. DdrList[0 + 6] = PllAndReset[6] /\ DdrList[9 + 2] = SetUp(1)[2] /\ DdrList[16 + 2] = SetUp(2)[2]
  <2>1. Len(PllAndReset) = 9 /\ Len(SetUp(1)) = 7 /\ Len(SetUp(2)) = 7
    BY PiecesAre DEF Channel
  <2>2. \A k \in 1 .. 9 : DdrList[0 + k] = PllAndReset[k]
    BY <2>1, ListIs DEF HasAt
  <2>3. \A k \in 1 .. 7 : DdrList[9 + k] = SetUp(1)[k] /\ DdrList[16 + k] = SetUp(2)[k]
    BY <2>1, ListIs DEF HasAt
  <2> QED  BY <2>2, <2>3
<1>2. DdrList[6] = Wait(0, "318", {0}, {0})
  BY <1>1 DEF PllAndReset
<1> DEFINE wide == 0 .. 9 \cup 16 .. 26 \cup 29 .. 31
<1>3. DdrList[11] = Write(1, "c_180", {6, 24, 30}, wide) /\ DdrList[18] = Write(2, "c_180", {6, 24, 30}, wide)
  BY <1>1 DEF SetUp
<1> HIDE DEF wide
<1>4. DdrList[6].at = <<0, "318">> /\ (Effect(DdrList[6], R, T) => 0 \in T)
  BY <1>2 DEF Wait, Effect
<1> QED
  BY <1>3, <1>4 DEF Write, Effect

\* What each entry of the list does.
InTraining(ch, k) == k \in Off(ch) + 1 .. Off(ch) + 33

LEMMA ListDoes ==
  ASSUME NEW k \in 1 .. 101
  PROVE  /\ DdrList[k] \in Entry /\ DdrList[k].n = Done(k) - Done(k - 1)
         /\ \A ch \in Channel : InTraining(ch, k) => Fits(ch, k - Off(ch), DdrList[k])
         /\ (\A ch \in Channel : ~InTraining(ch, k)) => Common(k, DdrList[k])
<1>1. ASSUME NEW ch \in Channel, InTraining(ch, k)
      PROVE  Fits(ch, k - Off(ch), DdrList[k]) /\ DdrList[k].n = Done(k) - Done(k - 1)
  <2> DEFINE j == k - Off(ch)
  <2>1. j \in 1 .. 33 /\ Off(ch) + j = k /\ Off(ch) \in {28, 66} /\ (Off(ch) = 28 <=> ch = 1)
    BY <1>1 DEF InTraining, Off
  <2> HIDE DEF j
  <2>2. DdrList[k] = Train(ch)[j]
    <3>1. CASE ch = 1
      <4>1. Off(ch) = 28 /\ HasAt(DdrList, 28, Train(ch))
        BY <3>1, ListIs DEF Off
      <4>2. j \in 1 .. Len(Train(ch))
        BY <2>1, PiecesAre
      <4> QED  BY <2>1, <4>1, <4>2 DEF HasAt
    <3>2. CASE ch = 2
      <4>1. Off(ch) = 66 /\ HasAt(DdrList, 66, Train(ch))
        BY <3>2, ListIs DEF Off
      <4>2. j \in 1 .. Len(Train(ch))
        BY <2>1, PiecesAre
      <4> QED  BY <2>1, <4>1, <4>2 DEF HasAt
    <3> QED  BY <3>1, <3>2 DEF Channel
  <2>3. Fits(ch, j, DdrList[k])
    BY <2>1, <2>2, TrainFits
  <2>4. Done(k) - Done(k - 1) = TrainDone(j) - TrainDone(j - 1)
    BY <2>1, TrainDoneIs
  <2> QED  BY <2>3, <2>4 DEF Fits, j
<1>2. ASSUME \A ch \in Channel : ~InTraining(ch, k) PROVE Common(k, DdrList[k])
  <2>1. \/ k \in 1 .. 9 \/ k \in 10 .. 16 \/ k \in 17 .. 23 \/ k \in {24, 62, 100, 101}
        \/ k \in 25 .. 28 \/ k \in 63 .. 66
    BY <1>2 DEF InTraining, Off, Channel
  <2>2. CASE k \in 1 .. 9
    <3>1. DdrList[0 + k] = PllAndReset[k]
      BY <2>2, ListIs, PiecesAre DEF HasAt
    <3> QED  BY <2>2, <3>1, PllCommon
  <2>3. CASE k \in 10 .. 16
    <3> DEFINE j == k - 9
    <3>1. j \in 1 .. 7 /\ k = 9 + j
      BY <2>3
    <3> HIDE DEF j
    <3>2. 1 \in Channel /\ 7 * 1 + 2 + j = k
      BY <3>1 DEF Off, Channel
    <3>3. HasAt(DdrList, 9, SetUp(1)) /\ j \in 1 .. Len(SetUp(1))
      BY <3>1, <3>2, ListIs, PiecesAre
    <3>4. DdrList[k] = SetUp(1)[j]
      BY <3>1, <3>3 DEF HasAt
    <3> QED  BY <3>1, <3>2, <3>4, SetUpCommon
  <2>4. CASE k \in 17 .. 23
    <3> DEFINE j == k - 16
    <3>1. j \in 1 .. 7 /\ k = 16 + j
      BY <2>4
    <3> HIDE DEF j
    <3>2. 2 \in Channel /\ 7 * 2 + 2 + j = k
      BY <3>1 DEF Off, Channel
    <3>3. HasAt(DdrList, 16, SetUp(2)) /\ j \in 1 .. Len(SetUp(2))
      BY <3>1, <3>2, ListIs, PiecesAre
    <3>4. DdrList[k] = SetUp(2)[j]
      BY <3>1, <3>3 DEF HasAt
    <3> QED  BY <3>1, <3>2, <3>4, SetUpCommon
  <2>5. CASE k \in {24, 62, 100, 101}
    BY <2>5, ParametersAt, ParametersCommon, StretchesCount
  <2>6. CASE k \in 25 .. 28
    <3> DEFINE j == k - 24
    <3>1. j \in 1 .. 4 /\ k = 24 + j
      BY <2>6
    <3> HIDE DEF j
    <3>2. 1 \in Channel /\ Off(1) - 4 + j = k
      BY <3>1 DEF Off, Channel
    <3>3. HasAt(DdrList, 24, Release(1)) /\ j \in 1 .. Len(Release(1))
      BY <3>1, <3>2, ListIs, PiecesAre
    <3>4. DdrList[k] = Release(1)[j]
      BY <3>1, <3>3 DEF HasAt
    <3> QED  BY <3>1, <3>2, <3>4, ReleaseCommon
  <2>7. CASE k \in 63 .. 66
    <3> DEFINE j == k - 62
    <3>1. j \in 1 .. 4 /\ k = 62 + j
      BY <2>7
    <3> HIDE DEF j
    <3>2. 2 \in Channel /\ Off(2) - 4 + j = k
      BY <3>1 DEF Off, Channel
    <3>3. HasAt(DdrList, 62, Release(2)) /\ j \in 1 .. Len(Release(2))
      BY <3>1, <3>2, ListIs, PiecesAre
    <3>4. DdrList[k] = Release(2)[j]
      BY <3>1, <3>3 DEF HasAt
    <3> QED  BY <3>1, <3>2, <3>4, ReleaseCommon
  <2> QED  BY <2>1, <2>2, <2>3, <2>4, <2>5, <2>6, <2>7
<1>3. DdrList[k] \in Entry
  <2>1. DdrList \in Seq(Entry) /\ Len(DdrList) = 101
    BY ListIs
  <2>2. k \in 1 .. Len(DdrList)
    BY <2>1
  <2> DEFINE l == DdrList
  <2>3. l \in Seq(Entry) /\ k \in 1 .. Len(l)
    BY <2>1, <2>2
  <2> HIDE DEF l
  <2>4. l[k] \in Entry
    BY <2>3, ElementOfSeq
  <2> QED  BY <2>4 DEF l
<1> QED
  BY <1>1, <1>2, <1>3 DEF Common

----------------------------------------------------------------------------
(* The registers, by the entries that are done.                             *)

\* The PLL is locked and the parameters of c_180 are there, for good.
Settled(p, r) ==
    /\ p >= 6 => 0 \in r[<<0, "318">>]
    /\ p >= 11 => {6, 24, 30} \subseteq r[<<1, "c_180">>]
    /\ p >= 18 => {6, 24, 30} \subseteq r[<<2, "c_180">>]

Registers(p, r) ==
    /\ r \in [Reg -> SUBSET Bits]
    /\ Settled(p, r)
    /\ \A ch \in Channel, reg \in ChannelReg : Keeps(reg, p - Off(ch), r[<<ch, reg>>])
    /\ Resets(p, r[<<0, "408">>])

Waits == {k \in 1 .. 101 : DdrList[k].op = "wait"}

\* The inductive invariant: the registers are as the entries done leave them,
\* and the waits that are still to come carry their marks.
DramInv ==
    /\ item \in 1 .. 102 /\ i = Done(item - 1)
    /\ Registers(item - 1, regs)
    /\ marked \subseteq Waits
    /\ pc = "entry" => item # 102 /\ \A k \in Waits : k >= item => k \in marked
    /\ pc = "poll" => item \in Waits /\ \A k \in Waits : k > item => k \in marked
    /\ image = "mmu_c" /\ pc \notin Early => item = 102

\* Outside of a training nothing changes about the registers of its channel.
LEMMA KeepsOn ==
  ASSUME NEW ch \in Channel, NEW k \in 1 .. 101, ~InTraining(ch, k),
         NEW reg \in ChannelReg, NEW R, Keeps(reg, k - 1 - Off(ch), R)
  PROVE  Keeps(reg, k - Off(ch), R)
<1> DEFINE p == k - Off(ch)
<1>1. p \in Int /\ p \notin 1 .. 33 /\ k - 1 - Off(ch) = p - 1
  BY DEF InTraining, Off
<1> HIDE DEF p
<1>2. Keeps(reg, p - 1, R)
  BY <1>1
<1>3. ASSUME p <= 0 PROVE Keeps(reg, p, R)
  BY <1>1, <1>2, <1>3, SMT DEF Keeps
<1>4. ASSUME p >= 34 PROVE Keeps(reg, p, R)
  BY <1>1, <1>2, <1>4, SMT DEF Keeps
<1>5. Keeps(reg, p, R)
  <2>1. p <= 0 \/ p >= 34
    BY <1>1
  <2> QED  BY <2>1, <1>3, <1>4
<1> QED
  BY <1>5 DEF p

LEMMA RegsAre ==
  /\ \A ch \in Channel, reg \in ChannelReg : <<ch, reg>> \in Reg
  /\ <<0, "408">> \in Reg /\ <<0, "318">> \in Reg
  /\ <<1, "c_180">> \in Reg /\ <<2, "c_180">> \in Reg
BY DEF Reg, Channel, ChannelReg

\* An entry is done.
LEMMA EntryDone ==
  ASSUME NEW k \in 1 .. 101, NEW r, Registers(k - 1, r),
         NEW e, e = DdrList[k], NEW T, Effect(e, r[e.at], T)
  PROVE  Registers(k, [r EXCEPT ![e.at] = T])
<1> DEFINE new == [r EXCEPT ![e.at] = T]
<1>1. e \in Entry /\ e.at \in Reg /\ e.mask \in SUBSET Bits /\ e.regv \in SUBSET Bits
  BY ListDoes DEF Entry
<1>2. r \in [Reg -> SUBSET Bits] /\ r[e.at] \in SUBSET Bits
  BY <1>1 DEF Registers
<1>3. T \in SUBSET Bits
  BY <1>1, <1>2 DEF Effect
<1>4. /\ new \in [Reg -> SUBSET Bits] /\ new[e.at] = T
      /\ \A x \in Reg : x # e.at => new[x] = r[x]
  BY <1>1, <1>2, <1>3
<1> HIDE DEF new
<1>5. ASSUME NEW ch \in Channel, NEW reg \in ChannelReg
      PROVE  Keeps(reg, k - Off(ch), new[<<ch, reg>>])
  <2> DEFINE at == <<ch, reg>>
  <2>1. at \in Reg /\ r[at] \in SUBSET Bits /\ Keeps(reg, k - 1 - Off(ch), r[at])
    BY <1>2, <1>5, RegsAre DEF Registers
  <2>2. CASE InTraining(ch, k)
    <3> DEFINE p == k - Off(ch)
    <3>1. Fits(ch, p, e)
      BY <2>2, ListDoes
    <3>2. k - 1 - Off(ch) = p - 1
      BY DEF Off
    <3>3. Keeps(reg, p - 1, r[at])
      BY <2>1, <3>2
    <3> HIDE DEF p
    <3>4. IF e.at = at THEN \A U : Effect(e, r[at], U) => Keeps(reg, p, U) ELSE Keeps(reg, p, r[at])
      BY <2>1, <3>1, <3>3 DEF Fits
    <3>5. Keeps(reg, p, new[at])
      BY <1>4, <2>1, <3>4
    <3> QED  BY <3>5 DEF p
  <2>3. CASE ~InTraining(ch, k)
    <3>1. CASE e.at # at
      BY <1>4, <2>1, <2>3, <3>1, KeepsOn
    <3>2. CASE e.at = at
      <4>1. ASSUME NEW other \in Channel, InTraining(other, k) PROVE FALSE
        <5>1. other # ch /\ Fits(other, k - Off(other), e)
          BY <2>3, <4>1, ListDoes
        <5>2. e.at[1] = 0 \/ e.at[1] = other
          BY <5>1 DEF Fits
        <5> QED  BY <3>2, <5>1, <5>2 DEF Channel
      <4>2. Common(k, e)
        BY <4>1, ListDoes
      <4>3. Keeps(reg, k - Off(ch), T)
        BY <1>2, <2>1, <3>2, <4>2 DEF Common
      <4> QED  BY <1>4, <3>2, <4>3
    <3> QED  BY <3>1, <3>2
  <2> QED  BY <2>2, <2>3
<1>6. Resets(k, new[<<0, "408">>])
  <2> DEFINE at == <<0, "408">>
  <2>1. at \in Reg /\ r[at] \in SUBSET Bits /\ Resets(k - 1, r[at])
    BY <1>2, RegsAre DEF Registers
  <2>2. CASE \E ch \in Channel : InTraining(ch, k)
    <3>1. PICK ch \in Channel : InTraining(ch, k)
      BY <2>2
    <3>2. Fits(ch, k - Off(ch), e) /\ k \notin {27, 28, 65, 66}
      BY <3>1, ListDoes DEF InTraining, Off, Channel
    <3>3. e.at # at
      BY <3>2 DEF Fits, Channel
    <3>4. new[at] = r[at]
      BY <1>4, <2>1, <3>3
    <3> QED  BY <2>1, <3>2, <3>4, SameResets
  <2>3. CASE \A ch \in Channel : ~InTraining(ch, k)
    <3>1. Common(k, e)
      BY <2>3, ListDoes
    <3>2. IF e.at = at THEN \A U : Effect(e, r[at], U) => Resets(k, U) ELSE Resets(k, r[at])
      BY <2>1, <3>1 DEF Common
    <3> QED  BY <1>4, <2>1, <3>2
  <2> QED  BY <2>2, <2>3
<1>7. Settled(k, new)
  <2>1. /\ <<0, "318">> \in Reg /\ <<1, "c_180">> \in Reg /\ <<2, "c_180">> \in Reg
        /\ Settled(k - 1, r)
    BY RegsAre DEF Registers
  <2>2. CASE k \in Settling
    <3>1. k = 6 \/ k = 11 \/ k = 18
      BY <2>2 DEF Settling
    <3>2. k = 6 => 0 \in new[<<0, "318">>]
      BY <1>4, SettlingAt
    <3>3. /\ k = 11 => {6, 24, 30} \subseteq new[<<1, "c_180">>]
          /\ k = 18 => {6, 24, 30} \subseteq new[<<2, "c_180">>]
      BY <1>4, SettlingAt
    <3>4. /\ k # 6 => new[<<0, "318">>] = r[<<0, "318">>]
          /\ k # 11 => new[<<1, "c_180">>] = r[<<1, "c_180">>]
      BY <1>4, <2>1, <3>1, SettlingAt
    <3> QED  BY <2>1, <3>1, <3>2, <3>3, <3>4 DEF Settled
  <2>3. CASE k \notin Settling
    <3>1. Spares(e)
      BY <2>3, ListDoes DEF Common, Fits
    <3>2. new[<<0, "318">>] = r[<<0, "318">>]
      BY <1>4, <2>1, <3>1 DEF Spares
    <3>3. ASSUME NEW ch \in Channel, {6, 24, 30} \subseteq r[<<ch, "c_180">>]
          PROVE  {6, 24, 30} \subseteq new[<<ch, "c_180">>]
      <4>1. CASE e.at = <<ch, "c_180">>
        <5>1. e.mask = {31} /\ e.op = "write"
          BY <3>1, <4>1 DEF Spares
        <5>2. T = (r[e.at] \ {31}) \cup e.regv
          BY <5>1 DEF Effect
        <5> QED  BY <1>4, <3>3, <4>1, <5>2
      <4>2. CASE e.at # <<ch, "c_180">>
        <5>1. <<ch, "c_180">> \in Reg
          BY <2>1 DEF Channel
        <5> QED  BY <1>4, <3>3, <4>2, <5>1
      <4> QED  BY <4>1, <4>2
    <3>4. k # 6 /\ k # 11 /\ k # 18 /\ 1 \in Channel /\ 2 \in Channel
      BY <2>3 DEF Settling, Channel
    <3> QED  BY <2>1, <3>2, <3>3, <3>4 DEF Settled
  <2> QED  BY <2>2, <2>3
<1> QED
  BY <1>4, <1>5, <1>6, <1>7 DEF Registers, new

\* What the hardware answers.
Answers ==
    {<<"c_1bc", {0}>>, <<"c_004", {0}>>, <<"p_174", 8 .. 11>>, <<"p_174", 0 .. 3>>,
     <<"p_1c4", 12 .. 15>>, <<"p_158", {7}>>}

LEMMA AnswersKeep ==
  ASSUME NEW d \in Answers, NEW p \in Int, NEW R, Keeps(d[1], p, R)
  PROVE  Keeps(d[1], p, R \cup d[2])
<1>1. CASE d = <<"c_1bc", {0}>> \/ d = <<"c_004", {0}>>
  BY <1>1 DEF Keeps
<1>2. CASE d = <<"p_174", 8 .. 11>>
  BY <1>2 DEF Keeps
<1>3. CASE d = <<"p_174", 0 .. 3>>
  BY <1>3 DEF Keeps
<1>4. CASE d = <<"p_1c4", 12 .. 15>>
  BY <1>4 DEF Keeps
<1>5. CASE d = <<"p_158", {7}>>
  BY <1>5 DEF Keeps
<1> QED
  BY <1>1, <1>2, <1>3, <1>4, <1>5 DEF Answers

LEMMA AnswersAre ==
  \A d \in Answers : d[1] \in ChannelReg /\ d[2] \in SUBSET Bits
BY DEF Answers, ChannelReg, Bits

LEMMA AnswerIs ==
  ASSUME NEW ch \in Channel, NEW d \in Due(ch)
  PROVE  d \in Answers
BY DEF Due, Answers

LEMMA HardwareKeeps ==
  ASSUME NEW p \in Nat, Registers(p, regs), Hardware
  PROVE  Registers(p, regs')
<1>0. regs \in [Reg -> SUBSET Bits]
  BY DEF Registers
<1>1. CASE Answer
  <2>0. PICK ch \in Channel :
           \E d \in Due(ch) : regs' = [regs EXCEPT ![<<ch, d[1]>>] = @ \cup d[2]]
    BY <1>1 DEF Answer
  <2>1. PICK d \in Due(ch) : regs' = [regs EXCEPT ![<<ch, d[1]>>] = @ \cup d[2]]
    BY <2>0
  <2>2. d \in Answers /\ d[1] \in ChannelReg /\ d[2] \in SUBSET Bits
    BY AnswerIs, AnswersAre
  <2> DEFINE at == <<ch, d[1]>>
             new == regs[at] \cup d[2]
  <2>3. at \in Reg /\ at[1] # 0 /\ new \in SUBSET Bits
    BY <1>0, <2>2, RegsAre DEF Channel
  <2>4. regs' = [regs EXCEPT ![at] = new]
    BY <2>1
  <2>5. Keeps(d[1], p - Off(ch), new)
    <3>1. p - Off(ch) \in Int /\ Keeps(d[1], p - Off(ch), regs[at])
      BY <2>2 DEF Registers, Off
    <3> QED  BY <2>2, <3>1, AnswersKeep
  <2> HIDE DEF new
  <2>6. /\ regs' \in [Reg -> SUBSET Bits] /\ regs'[at] = new
        /\ \A x \in Reg : x # at => regs'[x] = regs[x]
    BY <1>0, <2>3, <2>4
  <2>7. ASSUME NEW c \in Channel, NEW reg \in ChannelReg
        PROVE  Keeps(reg, p - Off(c), regs'[<<c, reg>>])
    <3>1. Keeps(reg, p - Off(c), regs[<<c, reg>>]) /\ <<c, reg>> \in Reg
      BY RegsAre DEF Registers
    <3>2. CASE c = ch /\ reg = d[1]
      BY <2>5, <2>6, <3>2
    <3>3. CASE ~(c = ch /\ reg = d[1])
      <4>1. <<c, reg>> # at
        BY <3>3
      <4> QED  BY <2>6, <3>1, <4>1
    <3> QED  BY <3>2, <3>3
  <2>8. regs'[<<0, "408">>] = regs[<<0, "408">>]
    BY <2>3, <2>6, RegsAre
  <2>9. \A x \in Reg : regs[x] \subseteq regs'[x]
    BY <2>6 DEF new
  <2>10. Settled(p, regs')
    BY <2>9, RegsAre DEF Registers, Settled
  <2> QED  BY <2>6, <2>7, <2>8, <2>10 DEF Registers
<1>2. CASE Lock
  <2> DEFINE at == <<0, "318">>
             new == regs[at] \cup {0}
  <2>1. at \in Reg /\ regs' = [regs EXCEPT ![at] = new]
    BY <1>2 DEF Lock, Reg
  <2>2. new \in SUBSET Bits
    BY <1>0, <2>1 DEF Bits
  <2> HIDE DEF new
  <2>3. regs' \in [Reg -> SUBSET Bits] /\ \A x \in Reg : x # at => regs'[x] = regs[x]
    BY <1>0, <2>1, <2>2
  <2>4. regs'[<<0, "408">>] = regs[<<0, "408">>]
    BY <2>3, RegsAre
  <2>5. \A c \in Channel, reg \in ChannelReg : regs'[<<c, reg>>] = regs[<<c, reg>>]
    BY <2>3, RegsAre DEF Channel
  <2>6. \A x \in Reg : regs[x] \subseteq regs'[x]
    BY <1>0, <2>1, <2>3 DEF new
  <2>7. Settled(p, regs')
    BY <2>6, RegsAre DEF Registers, Settled
  <2> QED  BY <2>3, <2>4, <2>5, <2>7 DEF Registers
<1> QED
  BY <1>1, <1>2 DEF Hardware

----------------------------------------------------------------------------
(* The steps.                                                               *)

LEMMA DramStarts ==
  ASSUME Init
  PROVE  DramInv
<1>1. /\ item = 1 /\ i = 0 /\ pc = IF image = "mmu_c" THEN "entry" ELSE "cloop"
      /\ marked = {k \in 1 .. Len(DdrList) : DdrList[k].op = "wait"}
      /\ regs = [r \in Reg |-> IF r = <<0, "408">> THEN {0, 1, 9, 10} ELSE {}]
  BY DEF Init, DramStart
<1>2. marked = Waits
  BY <1>1, ListIs DEF Waits
<1>3. regs \in [Reg -> SUBSET Bits] /\ regs[<<0, "408">>] = {0, 1, 9, 10}
  BY <1>1, RegsAre DEF Bits
<1>4. ASSUME NEW ch \in Channel, NEW reg \in ChannelReg
      PROVE  Keeps(reg, 0 - Off(ch), regs[<<ch, reg>>])
  <2>1. regs[<<ch, reg>>] = {}
    BY <1>1, RegsAre DEF Channel
  <2>2. 0 - Off(ch) \in Int /\ 0 - Off(ch) < 0
    BY DEF Off
  <2> DEFINE p == 0 - Off(ch)
  <2> HIDE DEF p
  <2>3. Keeps(reg, p, {})
    BY <2>2 DEF p, Keeps
  <2> QED  BY <2>1, <2>3 DEF p
<1>5. Registers(0, regs)
  BY <1>3, <1>4 DEF Registers, Resets, Settled
<1>6. item - 1 = 0 /\ item \in 1 .. 102 /\ item # 102 /\ i = Done(item - 1)
  BY <1>1, DoneGrows
<1>7. marked \subseteq Waits /\ (\A k \in Waits : k >= item => k \in marked)
  BY <1>2
<1>8. pc # "poll" /\ ~(image = "mmu_c" /\ pc \notin Early)
  BY <1>1 DEF Early
<1> QED
  BY <1>5, <1>6, <1>7, <1>8 DEF DramInv

\* An entry is done, the loop goes on.
LEMMA NextEntryStep ==
  ASSUME DramInv, item # 102, pc \in Early, NextEntry,
         NEW T, Effect(DdrList[item], regs[DdrList[item].at], T),
         regs' = [regs EXCEPT ![DdrList[item].at] = T],
         marked' = marked, \A k \in Waits : k > item => k \in marked,
         image = "mmu_c" => image' = "mmu_c"
  PROVE  DramInv'
<1>1. item \in 1 .. 101 /\ item' = item + 1 /\ item' \in 1 .. 102 /\ item' - 1 = item
  BY DEF DramInv, NextEntry
<1>2. i' = Done(item)
  <2>1. i = Done(item - 1) /\ i' = i + DdrList[item].n
    BY DEF DramInv, NextEntry
  <2>2. DdrList[item].n = Done(item) - Done(item - 1)
    BY <1>1, ListDoes
  <2>3. Done(item) \in Nat /\ Done(item - 1) \in Nat
    <3>1. item - 1 \in 0 .. 100 /\ (item \in 0 .. 100 \/ item = 101)
      BY <1>1
    <3> QED  BY <3>1, DoneGrows DEF LEN
  <2> QED  BY <2>1, <2>2, <2>3
<1>3. Registers(item, regs')
  BY <1>1, EntryDone DEF DramInv
<1>4. pc' = IF item = 101 THEN "cloop" ELSE "entry"
  <2>1. pc' = IF i' < LEN THEN "entry" ELSE "cloop"
    BY DEF NextEntry
  <2>2. CASE item = 101
    BY <1>2, <2>1, <2>2, DoneGrows DEF LEN
  <2>3. CASE item \in 0 .. 100
    BY <1>2, <2>1, <2>3, DoneGrows
  <2> QED  BY <1>1, <2>2, <2>3
<1>5. marked' \subseteq Waits /\ \A k \in Waits : k >= item' => k \in marked'
  BY <1>1 DEF DramInv, Waits
<1>6. Waits' = Waits
  BY DEF Waits, DdrList
<1> QED
  BY <1>1, <1>2, <1>3, <1>4, <1>5 DEF DramInv, Early

LEMMA InitStep ==
  ASSUME DramInv, dram_init, image' = image
  PROVE  DramInv'
<1>0. /\ item \in 1 .. 102 /\ regs \in [Reg -> SUBSET Bits]
      /\ pc = "entry" => item # 102 /\ \A k \in Waits : k >= item => k \in marked
      /\ pc = "poll" => item \in Waits /\ \A k \in Waits : k > item => k \in marked
  BY DEF DramInv, Registers
<1>1. CASE WriteEntry
  <2> DEFINE e == DdrList[item]
             T == (regs[e.at] \ e.mask) \cup e.regv
  <2>1. /\ pc = "entry" /\ item \notin marked /\ NextEntry /\ marked' = marked
        /\ regs' = [regs EXCEPT ![e.at] = T]
    BY <1>1 DEF WriteEntry, Modify
  <2>2. item \in 1 .. 101 /\ item \notin Waits
    BY <1>0, <2>1
  <2>3. e.op # "wait"
    BY <2>2 DEF Waits
  <2> HIDE DEF e
  <2>4. Effect(e, regs[e.at], T)
    BY <2>3 DEF Effect
  <2>5. \A k \in Waits : k > item => k \in marked
    BY <1>0, <2>1 DEF Waits
  <2>6. item # 102 /\ pc \in Early
    BY <2>1, <2>2 DEF Early
  <2> HIDE DEF T
  <2> QED  BY <2>1, <2>4, <2>5, <2>6, NextEntryStep DEF e
<1>2. CASE UnmarkEntry
  <2>1. /\ pc = "entry" /\ item \in marked /\ marked' = marked \ {item} /\ pc' = "poll"
        /\ UNCHANGED <<item, i, regs>>
    BY <1>2 DEF UnmarkEntry
  <2>2. item \in Waits /\ marked \subseteq Waits
    BY <2>1 DEF DramInv
  <2>3. \A k \in Waits : k > item => k \in marked'
    BY <1>0, <2>1 DEF Waits
  <2>4. marked' \subseteq Waits
    BY <2>1, <2>2
  <2> QED  BY <2>1, <2>2, <2>3, <2>4 DEF DramInv, Early
<1>3. CASE Poll
  <2> DEFINE e == DdrList[item]
  <2>1. pc = "poll" /\ marked' = marked /\ regs' = regs
    BY <1>3 DEF Poll
  <2>2. item \in Waits /\ item \in 1 .. 101 /\ e.op = "wait"
    BY <1>0, <2>1 DEF Waits
  <2>3. \A k \in Waits : k > item => k \in marked
    BY <1>0, <2>1
  <2>4. CASE regs[e.at] \cap e.mask = e.regv
    <3>1. NextEntry
      BY <1>3, <2>4 DEF Poll
    <3>2. Effect(e, regs[e.at], regs[e.at])
      BY <2>2, <2>4 DEF Effect
    <3>3. regs' = [regs EXCEPT ![e.at] = regs[e.at]]
      BY <1>0, <2>1
    <3>4. item # 102 /\ pc \in Early
      BY <2>1, <2>2 DEF Early
    <3> QED  BY <2>1, <2>3, <3>1, <3>2, <3>3, <3>4, NextEntryStep
  <2>5. CASE ~(regs[e.at] \cap e.mask = e.regv)
    <3>1. UNCHANGED <<pc, item, i>>
      BY <1>3, <2>5 DEF Poll
    <3> QED  BY <2>1, <3>1 DEF DramInv
  <2> QED  BY <2>4, <2>5
<1> QED
  BY <1>1, <1>2, <1>3 DEF dram_init

\* The statements after dram_init leave the list and its registers alone.
LEMMA LaterStep ==
  ASSUME DramInv, pc \notin Early, pc' \notin Early, UNCHANGED dramVars, image' = image
  PROVE  DramInv'
<1>1. item' = item /\ i' = i /\ marked' = marked /\ regs' = regs
  BY DEF dramVars
<1>2. pc' # "entry" /\ pc' # "poll"
  BY DEF Early
<1> QED
  BY <1>1, <1>2 DEF DramInv

LEMMA BuildPc ==
  ASSUME Build
  PROVE  pc \notin Early /\ pc' \notin Early /\ image' = image
<1>1. CASE Clear
  BY <1>1 DEF Clear, StoreLoop, Early
<1>2. CASE SetTbl0 \/ SetTbl0Next \/ Repair \/ MapRoot
  BY <1>2 DEF SetTbl0, SetTbl0Next, Repair, MapRoot, Store, Early
<1>3. CASE SetTbl1 \/ SetTbl2 \/ MapLoop
  BY <1>3 DEF SetTbl1, SetTbl2, MapLoop, StoreLoop, Early
<1>4. CASE mmu_enable
  BY <1>4 DEF mmu_enable, Early
<1> QED
  BY <1>1, <1>2, <1>3, <1>4 DEF Build

LEMMA DramInvStep ==
  ASSUME DramInv, [Next]_vars
  PROVE  DramInv'
<1>1. CASE dram_init /\ UNCHANGED <<tableVars, copyVars>>
  BY <1>1, InitStep DEF tableVars
<1>2. CASE Build /\ UNCHANGED <<dramVars, copyVars>>
  BY <1>2, BuildPc, LaterStep
<1>3. CASE Access \/ mc_memcpy \/ NextCopy
  <2>1. pc \in {"access", "copy"} /\ UNCHANGED dramVars /\ image' = image
    BY <1>3 DEF Access, mc_memcpy, NextCopy, tableVars
  <2>2. pc' \in {"access", "copy", "fault", "end"}
    BY <1>3 DEF Access, mc_memcpy, NextCopy
  <2> QED  BY <2>1, <2>2, LaterStep DEF Early
<1>4. CASE Hardware /\ UNCHANGED <<tableVars, copyVars>>
  <2>1. UNCHANGED <<pc, item, i, marked, image>>
    BY <1>4 DEF Hardware, Answer, Lock, tableVars
  <2>2. item - 1 \in Nat /\ Registers(item - 1, regs)
    BY DEF DramInv
  <2>3. Registers(item - 1, regs')
    BY <1>4, <2>2, HardwareKeeps
  <2> QED  BY <2>1, <2>3 DEF DramInv
<1>5. CASE Drain /\ UNCHANGED <<dramVars, copyVars>>
  <2>1. UNCHANGED <<pc, item, i, marked, regs, image>>
    BY <1>5 DEF Drain, dramVars
  <2> QED  BY <2>1 DEF DramInv
<1>6. CASE UNCHANGED vars
  <2>1. UNCHANGED <<pc, item, i, marked, regs, image>>
    BY <1>6 DEF vars, dramVars, tableVars
  <2> QED  BY <2>1 DEF DramInv
<1> QED
  BY <1>1, <1>2, <1>3, <1>4, <1>5, <1>6 DEF Next, Program, Bus

LEMMA DramFollows ==
  ASSUME DramInv
  PROVE  DramIsTrained
<1> SUFFICES ASSUME image = "mmu_c", pc \notin Early PROVE Trained
  BY DEF DramIsTrained, Early
<1>1. item - 1 = 101 /\ Registers(101, regs)
  BY DEF DramInv
<1>2. 9 \notin regs[<<0, "408">>] /\ 0 \notin regs[<<0, "408">>]
      /\ 10 \notin regs[<<0, "408">>] /\ 1 \notin regs[<<0, "408">>]
  BY <1>1 DEF Registers, Resets
<1>0. 0 \in regs[<<0, "318">>] /\ \A ch \in Channel : {6, 24, 30} \subseteq regs[<<ch, "c_180">>]
  BY <1>1 DEF Registers, Settled, Channel
<1> SUFFICES ASSUME NEW ch \in Channel
             PROVE  /\ Released(ch)
                    /\ regs[<<ch, "c_1bc">>] = {0} /\ regs[<<ch, "c_004">>] = {0}
                    /\ regs[<<ch, "c_1b0">>] = {0} /\ regs[<<ch, "c_320">>] = {0}
                    /\ regs[<<ch, "c_180">>] = {6, 24, 30}
                    /\ regs[<<ch, "p_174">>] = 0 .. 3 \cup 8 .. 11
                    /\ regs[<<ch, "p_1c4">>] = 12 .. 15 /\ regs[<<ch, "p_158">>] = {7}
                    /\ regs[<<ch, "p_004">>] \cap {0, 2, 3, 4, 6, 7} = {}
                    /\ 0 \notin regs[<<ch, "p_0a4">>] /\ 1 \notin regs[<<ch, "p_0b0">>]
  BY <1>0 DEF Trained
<1>3. Released(ch)
  BY <1>2 DEF Released, Channel
<1> DEFINE p == 101 - Off(ch)
           R(reg) == regs[<<ch, reg>>]
<1>4. p \in Nat /\ p >= 35
  BY DEF Off
<1>5. \A reg \in ChannelReg : Keeps(reg, p, R(reg))
  BY <1>1 DEF Registers
<1> HIDE DEF p
<1>6. R("c_1bc") = {0} /\ R("c_004") = {0} /\ R("c_1b0") = {0} /\ R("c_320") = {0}
  BY <1>4, <1>5 DEF Keeps, ChannelReg
<1>7. R("p_174") = 0 .. 3 \cup 8 .. 11
  BY <1>4, <1>5 DEF Keeps, ChannelReg
<1>8. R("p_1c4") = 12 .. 15 /\ R("p_158") = {7}
  BY <1>4, <1>5 DEF Keeps, ChannelReg
<1>9. R("c_180") = {6, 24, 30}
  <2>1. R("c_180") \subseteq {6, 24, 30, 31} /\ 31 \notin R("c_180")
    BY <1>4, <1>5 DEF Keeps, ChannelReg
  <2> QED  BY <1>0, <2>1
<1>10. R("p_004") \cap {0, 2, 3, 4, 6, 7} = {}
  <2>1. Keeps("p_004", p, R("p_004"))
    BY <1>5 DEF ChannelReg
  <2>2. \A b \in {0, 2, 3, 4, 6, 7} : b \notin R("p_004")
    BY <1>4, <2>1 DEF Keeps
  <2> QED  BY <2>2
<1>11. 0 \notin R("p_0a4") /\ 1 \notin R("p_0b0")
  BY <1>4, <1>5 DEF Keeps, ChannelReg
<1> QED
  BY <1>3, <1>6, <1>7, <1>8, <1>9, <1>10, <1>11

\* dram_init (main.c 13 to 34) comes to its tables, from any order of the
\* hardware's answers, with every wait of the list answered and every step of
\* the training switched off.
THEOREM DramTrained == Spec => []DramIsTrained
<1>1. Init => DramInv
  BY DramStarts
<1>2. DramInv /\ [Next]_vars => DramInv'
  BY DramInvStep
<1>3. DramInv => DramIsTrained
  BY DramFollows
<1> QED
  BY <1>1, <1>2, <1>3, PTL DEF Spec

=============================================================================
