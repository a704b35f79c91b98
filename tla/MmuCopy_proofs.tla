---------------------------- MODULE MmuCopy_proofs ----------------------------
(***************************************************************************)
(* The translation tables, for every depth of the store buffer: what they  *)
(* map once the stores have arrived, and that no access before that faults *)
(* but for the late root of memtester_c.  Then the ranges of the counters, *)
(* and that the copies of mmu_c are complete.                              *)
(***************************************************************************)
EXTENDS MmuDram_proofs

Running == {"access", "copy", "end", "fault"}
Built == Running \cup {"enable"}

\* The statements of each program, from the reset on.
Statements ==
    IF image = "memtester_c" THEN {"cloop", "map_lp", "root"} \cup Built
    ELSE {"cloop", "tbl0", "tbl0_next", "tl1_lp", "repair", "tl2_lp"} \cup Built
         \cup (IF image = "mmu_c" THEN Early ELSE {})

\* The three entries of the root that the programs write.
SecondEntry == Plus(FirstEntry, 1, 1)
RepairedEntry == Plus(Word(Root, 0, FALSE), 1, 3)
LateEntry == Plus(Word(Root + 1, 0, FALSE), 0, 3)

\* The entries of the two tables of level 2.
LowEntries == BlockEntries(0, LowAttr, \h1000)
HighEntries == BlockEntries(Base, \h411, \h400)

RootWord(s) ==
    CASE s = 0 /\ pc \in {"tbl0_next", "tl1_lp", "repair"} -> FirstEntry
      [] s = 0 /\ image # "memtester_c" /\ pc \in {"tl2_lp"} \cup Built -> RepairedEntry
      [] s = 0 /\ image = "memtester_c" /\ pc \in Built -> LateEntry
      [] s = BaseSlot /\ image # "memtester_c"
            /\ pc \in {"tl1_lp", "repair", "tl2_lp"} \cup Built -> SecondEntry
      [] OTHER -> Zero

FirstTableWord(s) ==
    IF pc \in {"root"} \cup Built
    THEN IF image = "memtester_c" THEN MapEntries[s + 1]
                                  ELSE LowEntries[s + 1]
    ELSE Zero

SecondTableWord(s) ==
    IF image # "memtester_c" /\ pc \in {"repair", "tl2_lp"} \cup Built /\ s < 128
    THEN HighEntries[s + 1] ELSE Zero

\* The last word that the program has stored in a slot; what was there before
\* if it has not come to it.
Reached(p) == pc \notin Early /\ (pc = "cloop" => p < n)

Stored(p, s) ==
    IF ~Reached(p) THEN Before
    ELSE CASE p = 0 -> RootWord(s)
           [] p = 1 -> FirstTableWord(s)
           [] p = 2 -> SecondTableWord(s)

Table == [x \in Pages \X Slots |-> Stored(x[1], x[2])]

\* The stores of the words of a table, on their way.
StoresOf(F) == {[at |-> x, word |-> F[x]] : x \in Pages \X Slots}

\* Every slot holds its word of the table F, or the store of it is on its way.
Holds(mem, buf, F) ==
    /\ DOMAIN mem = Pages /\ \A p \in Pages : DOMAIN mem[p] = Slots
    /\ buf \in Seq(StoresOf(F))
    /\ \A x \in Pages \X Slots :
          mem[x[1]][x[2]] = F[x] \/ \E k \in 1 .. Len(buf) : buf[k].at = x

\* Which stores can be on their way, by statement.
OnTheWay ==
    \A k \in 1 .. Len(buffer) :
        /\ pc \notin Early
        /\ pc \in {"tbl0", "map_lp", "repair"} => buffer[k].at[1] = 2
        /\ pc = "tbl0_next" => buffer[k].at[1] = 2 \/ buffer[k].at = <<0, 0>>
        /\ pc = "root" => buffer[k].at[1] = 1
        /\ pc \in Built /\ image # "memtester_c" =>
               buffer[k].at[1] = 1 /\ buffer[k].at[2] >= PageSlots - DEPTH

\* The entry of memtester_c's root is the last store.
RootIsLast ==
    image = "memtester_c" /\ pc \in Built /\ buffer # << >> =>
        buffer[Len(buffer)].at = <<0, 0>>

\* The inductive invariant: a slot holds what was stored last, or a store to
\* it is on its way; every store on its way is the last one to its slot.
TableInv ==
    /\ image \in Images /\ pc \in Statements /\ n \in Nat
    /\ pc \notin {"cloop", "access", "fault"} => n = 0
    /\ pc = "cloop" => n \in 0 .. 2
    /\ pc = "access" => n \in 0 .. 4 /\ (image # "memtester_c" => n \in 0 .. 1)
    /\ pc = "copy" => image = "mmu_c"
    /\ mmu \in BOOLEAN /\ (mmu => pc \in Running)
    /\ Holds(memory, buffer, Table)
    /\ OnTheWay /\ RootIsLast

----------------------------------------------------------------------------
(* Stores on their way, for any memory, buffer and table.                   *)

LEMMA Sizes == PageSlots = 512 /\ Slots = 0 .. 511 /\ Pages = {0, 1, 2}
BY DEF PageSlots, Slots, Pages

LEMMA SlotsAreNumbers == Slots \subseteq Nat
BY DEF Slots, PageSlots

LEMMA SlotIs == \A s : s \in 0 .. 511 => s \in Slots
BY SMT DEF Slots, PageSlots

LEMMA InSeq ==
  ASSUME NEW S, NEW T, NEW q \in Seq(S), \A k \in 1 .. Len(q) : q[k] \in T
  PROVE  q \in Seq(T)
<1>1. q \in [1 .. Len(q) -> S] /\ Len(q) \in Nat
  BY LenProperties
<1>2. q \in [1 .. Len(q) -> T]
  BY <1>1
<1> QED
  BY <1>1, <1>2, SeqDef

LEMMA StoreIs ==
  ASSUME NEW F, NEW buf \in Seq(StoresOf(F)), NEW k \in 1 .. Len(buf)
  PROVE  buf[k].at \in Pages \X Slots /\ buf[k].word = F[buf[k].at]
         /\ buf[k] = [at |-> buf[k].at, word |-> F[buf[k].at]]
<1>1. buf[k] \in StoresOf(F)
  BY ElementOfSeq
<1>2. PICK x \in Pages \X Slots : buf[k] = [at |-> x, word |-> F[x]]
  BY <1>1 DEF StoresOf
<1> QED
  BY <1>2

LEMMA OldestIs ==
  ASSUME NEW F, NEW buf \in Seq(StoresOf(F)), buf # << >>
  PROVE  Head(buf).at \in Pages \X Slots /\ Head(buf).word = F[Head(buf).at]
<1>1. Head(buf) \in StoresOf(F)
  BY HeadTailProperties
<1>2. PICK x \in Pages \X Slots : Head(buf) = [at |-> x, word |-> F[x]]
  BY <1>1 DEF StoresOf
<1> QED
  BY <1>2

\* With nothing on its way memory is the table.
LEMMA AllArrived ==
  ASSUME NEW mem, NEW F, Holds(mem, << >>, F)
  PROVE  \A x \in Pages \X Slots : mem[x[1]][x[2]] = F[x]
<1>1. Len(<< >>) = 0
  OBVIOUS
<1> QED
  BY <1>1 DEF Holds

\* A store to a slot that no store on its way is for.
LEMMA OneStore ==
  ASSUME NEW mem, NEW buf, NEW F, NEW G, Holds(mem, buf, F), NEW x \in Pages \X Slots, NEW w,
         \A k \in 1 .. Len(buf) : buf[k].at # x,
         G[x] = w, \A y \in (Pages \X Slots) \ {x} : G[y] = F[y]
  PROVE  Holds(mem, Append(buf, [at |-> x, word |-> w]), G)
<1> DEFINE st == [at |-> x, word |-> w]
           new == Append(buf, st)
           XS == Pages \X Slots
<1>1. buf \in Seq(StoresOf(F))
  BY DEF Holds
<1>2. st \in StoresOf(G) /\ st.at = x
  BY DEF StoresOf
<1>3. \A k \in 1 .. Len(buf) : buf[k] \in StoresOf(G)
  <2> TAKE k \in 1 .. Len(buf)
  <2>1. buf[k] = [at |-> buf[k].at, word |-> F[buf[k].at]] /\ buf[k].at \in XS
    BY <1>1, StoreIs
  <2>2. F[buf[k].at] = G[buf[k].at]
    BY <2>1
  <2> QED  BY <2>1, <2>2 DEF StoresOf
<1>4. buf \in Seq(StoresOf(G))
  BY <1>1, <1>3, InSeq
<1> HIDE DEF st
<1>5. new \in Seq(StoresOf(G)) /\ Len(new) = Len(buf) + 1 /\ Len(buf) \in Nat
      /\ new[Len(buf) + 1] = st /\ \A k \in 1 .. Len(buf) : new[k] = buf[k]
  BY <1>2, <1>4, AppendProperties, LenProperties
<1> HIDE DEF new, XS
<1>6. ASSUME NEW y \in XS PROVE mem[y[1]][y[2]] = G[y] \/ \E k \in 1 .. Len(new) : new[k].at = y
  <2>1. CASE y = x
    <3>1. Len(buf) + 1 \in 1 .. Len(new)
      BY <1>5
    <3> QED  BY <3>1, <2>1, <1>5, <1>2
  <2>2. CASE y # x
    <3>1. G[y] = F[y]
      BY <2>2 DEF XS
    <3>2. mem[y[1]][y[2]] = F[y] \/ \E k \in 1 .. Len(buf) : buf[k].at = y
      BY DEF Holds, XS
    <3>3. ASSUME NEW k \in 1 .. Len(buf) PROVE k \in 1 .. Len(new) /\ new[k] = buf[k]
      BY <1>5
    <3> QED  BY <3>1, <3>2, <3>3
  <2> QED  BY <2>1, <2>2
<1> QED
  BY <1>5, <1>6 DEF Holds, XS, new, st

\* The oldest store arrives.
LEMMA OldestArrives ==
  ASSUME NEW mem, NEW buf, NEW F, Holds(mem, buf, F), buf # << >>
  PROVE  Holds([mem EXCEPT ![Head(buf).at[1]][Head(buf).at[2]] = Head(buf).word], Tail(buf), F)
<1> DEFINE st == Head(buf)
           p == st.at[1]
           s == st.at[2]
           new == [mem EXCEPT ![p][s] = st.word]
           XS == Pages \X Slots
<1>1. buf \in Seq(StoresOf(F)) /\ Len(buf) \in Nat
  BY LenProperties DEF Holds
<1>2. Tail(buf) \in Seq(StoresOf(F)) /\ Len(Tail(buf)) = Len(buf) - 1 /\ st = buf[1] /\ Len(buf) >= 1
      /\ \A k \in 1 .. Len(Tail(buf)) : Tail(buf)[k] = buf[k + 1]
  BY <1>1, HeadTailProperties, EmptySeq
<1>3. st.at \in XS /\ st.word = F[st.at]
  BY <1>1, OldestIs
<1> HIDE DEF st
<1>4. p \in Pages /\ s \in Slots /\ st.at = <<p, s>>
  BY <1>3
<1>5. DOMAIN new = Pages /\ \A q \in Pages : DOMAIN new[q] = Slots
  BY <1>4 DEF Holds
<1>6. \A q \in Pages, r \in Slots : new[q][r] = IF q = p /\ r = s THEN st.word ELSE mem[q][r]
  BY <1>4 DEF Holds
<1> HIDE DEF new, p, s
<1>7. ASSUME NEW y \in XS
      PROVE  new[y[1]][y[2]] = F[y] \/ \E k \in 1 .. Len(Tail(buf)) : Tail(buf)[k].at = y
  <2>1. y[1] \in Pages /\ y[2] \in Slots /\ y = <<y[1], y[2]>>
    OBVIOUS
  <2>2. CASE y = st.at
    BY <2>1, <2>2, <1>3, <1>4, <1>6
  <2>3. CASE y # st.at
    <3>1. new[y[1]][y[2]] = mem[y[1]][y[2]]
      BY <2>1, <2>3, <1>4, <1>6
    <3>2. mem[y[1]][y[2]] = F[y] \/ \E k \in 1 .. Len(buf) : buf[k].at = y
      BY DEF Holds
    <3>3. ASSUME NEW k \in 1 .. Len(buf), buf[k].at = y
          PROVE  \E j \in 1 .. Len(Tail(buf)) : Tail(buf)[j].at = y
      <4>1. k # 1
        BY <3>3, <2>3, <1>2
      <4>2. k - 1 \in 1 .. Len(Tail(buf)) /\ k - 1 + 1 = k
        BY <4>1, <1>1, <1>2
      <4>3. Tail(buf)[k - 1] = buf[k]
        BY <4>2, <1>2
      <4> QED  BY <4>2, <4>3, <3>3
    <3> QED  BY <3>1, <3>2, <3>3
  <2> QED  BY <2>2, <2>3
<1> QED
  BY <1>2, <1>5, <1>7 DEF Holds, new, p, s, st

\* A loop of stores to the slots of a page, whose last ones are on their way.
Written(mem, page, word, bound, late) ==
    [mem EXCEPT ![page] = [s \in Slots |-> IF s < bound - late THEN word[s + 1] ELSE @[s]]]

LastOnes(page, word, bound, late) ==
    [k \in 1 .. late |-> [at |-> <<page, bound - late + k - 1>>, word |-> word[bound - late + k]]]

LEMMA ManyStores ==
  ASSUME NEW mem, NEW F, NEW G, Holds(mem, << >>, F),
         NEW page \in Pages, NEW bound \in Nat, bound <= 512,
         NEW late \in Nat, late <= bound, NEW word,
         \A s \in Slots : s < bound => G[<<page, s>>] = word[s + 1],
         \A p \in Pages, s \in Slots : ~(p = page /\ s < bound) => G[<<p, s>>] = F[<<p, s>>]
  PROVE  Holds(Written(mem, page, word, bound, late), LastOnes(page, word, bound, late), G)
<1> DEFINE new == Written(mem, page, word, bound, late)
           buf == LastOnes(page, word, bound, late)
<1>1. \A p \in Pages, s \in Slots : mem[p][s] = F[<<p, s>>]
  <2>1. \A x \in Pages \X Slots : mem[x[1]][x[2]] = F[x]
    BY AllArrived
  <2> QED  BY <2>1
<1>2. DOMAIN new = Pages /\ (\A p \in Pages : DOMAIN new[p] = Slots)
      /\ \A p \in Pages, s \in Slots :
            new[p][s] = IF p = page /\ s < bound - late THEN word[s + 1] ELSE mem[p][s]
  BY DEF Holds, Written
<1>3. \A k \in 1 .. late : buf[k].at = <<page, bound - late + k - 1>>
                           /\ buf[k] \in StoresOf(G)
  <2> TAKE k \in 1 .. late
  <2> USE DEF LastOnes
  <2> DEFINE s == bound - late + k - 1
  <2>1. s \in 0 .. 511 /\ s < bound /\ s + 1 = bound - late + k
    OBVIOUS
  <2>0. s \in Slots
    <3> HIDE DEF s
    <3> QED  BY <2>1, SlotIs
  <2>2. buf[k] = [at |-> <<page, s>>, word |-> word[s + 1]]
    BY <2>1
  <2> HIDE DEF s, buf
  <2>3. word[s + 1] = G[<<page, s>>]
    BY <2>0, <2>1
  <2>4. <<page, s>> \in Pages \X Slots
    BY <2>0
  <2> QED  BY <2>2, <2>3, <2>4 DEF StoresOf, s
<1>4. buf \in Seq(StoresOf(G)) /\ Len(buf) = late
  <2>1. buf \in [1 .. late -> StoresOf(G)] /\ late \in Nat
    <3>1. DOMAIN buf = 1 .. late /\ buf = [k \in 1 .. late |-> buf[k]]
      BY DEF LastOnes
    <3> HIDE DEF buf
    <3> QED  BY <3>1, <1>3
  <2> HIDE DEF buf
  <2>2. buf \in Seq(StoresOf(G))
    BY <2>1, SeqDef
  <2>3. DOMAIN buf = 1 .. late /\ DOMAIN buf = 1 .. Len(buf) /\ Len(buf) \in Nat
    BY <2>1, <2>2, LenProperties
  <2> QED  BY <2>1, <2>2, <2>3
<1> HIDE DEF new, buf
<1>5. ASSUME NEW x \in Pages \X Slots
      PROVE  new[x[1]][x[2]] = G[x] \/ \E k \in 1 .. Len(buf) : buf[k].at = x
  <2>1. PICK p \in Pages, s \in Slots : x = <<p, s>>
    OBVIOUS
  <2>2. s \in Nat
    BY <2>1, SlotsAreNumbers
  <2>3. CASE p = page /\ s < bound - late
    <3>1. s < bound
      BY <2>2, <2>3
    <3>2. new[p][s] = word[s + 1]
      BY <2>3, <1>2
    <3>3. G[<<p, s>>] = word[s + 1]
      BY <3>1, <2>3
    <3> QED  BY <3>2, <3>3, <2>1
  <2>4. CASE p = page /\ s < bound /\ ~(s < bound - late)
    <3> DEFINE k == s - (bound - late) + 1
    <3>1. k \in 1 .. late /\ bound - late + k - 1 = s
      BY <2>2, <2>4
    <3> HIDE DEF k
    <3>2. buf[k].at = <<page, bound - late + k - 1>>
      BY <3>1, <1>3
    <3> QED  BY <3>1, <3>2, <2>1, <2>4, <1>4
  <2>5. CASE ~(p = page /\ s < bound)
    <3>1. ~(p = page /\ s < bound - late)
      BY <2>2, <2>5
    <3>2. new[p][s] = mem[p][s] /\ G[<<p, s>>] = F[<<p, s>>]
      BY <3>1, <2>5, <1>2
    <3> QED  BY <3>2, <2>1, <1>1
  <2> QED  BY <2>3, <2>4, <2>5
<1> QED
  BY <1>2, <1>4, <1>5 DEF Holds, new, buf

----------------------------------------------------------------------------
(* The walk through the entries of the tables.                              *)

Normal == \h411
Device == \h401
Plain(page, low) == Word(page, low, FALSE)
NoExec(page, low) == Word(page, low, TRUE)

LEMMA Attributes ==
  /\ Normal = \h411 /\ Device = \h401 /\ PageSlots = 512
  /\ Normal % 4 = 1 /\ (Normal \div \h400) % 2 = 1 /\ ((Normal \div 4) % 8) + 1 = 5
  /\ Device % 4 = 1 /\ (Device \div \h400) % 2 = 1 /\ ((Device \div 4) % 8) + 1 = 1
BY SMT DEF Normal, Device, PageSlots

LEMMA PlusIs ==
  ASSUME NEW p, NEW l, NEW d, NEW e
  PROVE  /\ Plus(Plain(p, l), d, e) = Plain(p + d + ((l + e) \div 4096), (l + e) % 4096)
         /\ Plus(NoExec(p, l), d, e) = NoExec(p + d + ((l + e) \div 4096), (l + e) % 4096)
BY DEF Plus, Plain, NoExec, Word

\* The entry of a block: its number of pages after the first, its attributes.
LEMMA EntryIs ==
  ASSUME NEW first \in Nat, NEW attr \in {Device, Normal}, NEW d \in Nat
  PROVE  /\ Plus(Plain(first, attr), d, 0) = Plain(first + d, attr)
         /\ Plus(NoExec(first, attr), d, 0) = NoExec(first + d, attr)
<1> DEFINE x == first + d + ((attr + 0) \div 4096)
           y == (attr + 0) % 4096
<1>1. x = first + d /\ y = attr
  BY SMT DEF Normal, Device
<1>2. Plus(Plain(first, attr), d, 0) = Plain(x, y) /\ Plus(NoExec(first, attr), d, 0) = NoExec(x, y)
  BY PlusIs
<1> HIDE DEF x, y
<1> QED
  BY <1>1, <1>2

LEMMA EntriesAre ==
  ASSUME NEW first \in Nat, NEW attr \in {Device, Normal}, NEW size,
         NEW s \in Nat, s + 1 \in 1 .. size \div 8
  PROVE  BlockEntries(first, attr, size)[s + 1] = Plain(first + PageSlots * s, attr)
<1> DEFINE k == s + 1
           d == PageSlots * s
<1>1. PageSlots * (k - 1) = d /\ d \in Nat /\ k \in 1 .. size \div 8
  BY Sizes, SMT
<1> HIDE DEF k, d
<1>2. BlockEntries(first, attr, size)[k] = Plus(Plain(first, attr), PageSlots * (k - 1), 0)
  BY <1>1, SMT DEF BlockEntries, Plain, Plus, Word
<1>3. Plus(Plain(first, attr), d, 0) = Plain(first + d, attr)
  BY <1>1, EntryIs
<1>4. BlockEntries(first, attr, size)[k] = Plain(first + d, attr)
  BY <1>1, <1>2, <1>3
<1> QED
  BY <1>4 DEF k, d

\* What the walk makes of an entry.
Translate(e) ==
    IF (e.low % 4) = 1 /\ (e.low \div \h400) % 2 = 1
    THEN [kind |-> Mair[((e.low \div 4) % 8) + 1],
          page |-> (e.page \div PageSlots) * PageSlots, xn |-> e.xn]
    ELSE Fault

\* The page is the first of a block.
Aligned(d) == (d \div PageSlots) * PageSlots = d

LEMMA NormalIs ==
  ASSUME NEW d, Aligned(d)
  PROVE  Translate(Plain(d, Normal)) = [kind |-> "normal", page |-> d, xn |-> FALSE]
<1>1. \A x : Translate(Word(d, Normal, x)) = [kind |-> "normal", page |-> d, xn |-> x]
  <2> TAKE x
  <2> DEFINE e == Word(d, Normal, x)
  <2>1. e.low = Normal /\ e.page = d /\ e.xn = x
    BY DEF Word
  <2> HIDE DEF e
  <2>2. Mair[5] = "normal"
    BY SMT DEF Mair
  <2>3. Translate(e) = [kind |-> Mair[5], page |-> d, xn |-> x]
    BY <2>1, Attributes, SMT DEF Translate, Aligned
  <2> QED  BY <2>2, <2>3 DEF e
<1> QED
  BY <1>1, Zenon DEF Plain

LEMMA DeviceIs ==
  ASSUME NEW d, Aligned(d)
  PROVE  /\ Translate(Plain(d, Device)) = [kind |-> "device", page |-> d, xn |-> FALSE]
         /\ Translate(NoExec(d, Device)) = [kind |-> "device", page |-> d, xn |-> TRUE]
<1>1. \A x : Translate(Word(d, Device, x)) = [kind |-> "device", page |-> d, xn |-> x]
  <2> TAKE x
  <2> DEFINE e == Word(d, Device, x)
  <2>1. e.low = Device /\ e.page = d /\ e.xn = x
    BY DEF Word
  <2> HIDE DEF e
  <2>2. Mair[1] = "device"
    BY SMT DEF Mair
  <2>3. Translate(e) = [kind |-> Mair[1], page |-> d, xn |-> x]
    BY <2>1, Attributes, SMT DEF Translate, Aligned
  <2> QED  BY <2>2, <2>3 DEF e
<1> QED
  BY <1>1, Zenon DEF Plain, NoExec

\* A block, from its entry.
LEMMA BlockIs ==
  ASSUME NEW b \in Nat
  PROVE  /\ Leaf(b) = Plain(PageSlots * b, Normal) =>
                Walk(b) = [kind |-> "normal", page |-> PageSlots * b, xn |-> FALSE]
         /\ Leaf(b) = Plain(PageSlots * b, Device) =>
                Walk(b) = [kind |-> "device", page |-> PageSlots * b, xn |-> FALSE]
         /\ Leaf(b) = NoExec(PageSlots * b, Device) =>
                Walk(b) = [kind |-> "device", page |-> PageSlots * b, xn |-> TRUE]
<1>1. Aligned(PageSlots * b)
  BY Sizes, SMT DEF Aligned
<1>2. Walk(b) = Translate(Leaf(b))
  BY DEF Walk, Translate
<1> QED
  BY <1>1, <1>2, NormalIs, DeviceIs, Zenon

LEMMA NoBlock ==
  ASSUME NEW b, Leaf(b) = Zero
  PROVE  Walk(b) = Fault
BY SMT DEF Walk, Zero, Word

LEMMA LeafIs ==
  ASSUME NEW b, NEW q \in {1, 2}, Root \in Nat,
         memory[0][b \div PageSlots] = Plain(Root + q, 3)
  PROVE  Leaf(b) = memory[q][b % PageSlots]
<1> DEFINE top == memory[0][b \div PageSlots]
<1>1. top.low = 3 /\ top.page = Root + q
  BY SMT DEF Word, Plain
<1> HIDE DEF top
<1>2. top.low % 4 = 3 /\ top.page \in Root .. Root + 2 /\ top.page - Root = q
  BY <1>1, SMT
<1> QED
  BY <1>2, SMT DEF Leaf, top

LEMMA NoLeaf ==
  ASSUME NEW b, memory[0][b \div PageSlots] = Zero
  PROVE  Leaf(b) = Zero
<1> DEFINE top == memory[0][b \div PageSlots]
<1>1. top.low = 0
  BY SMT DEF Zero, Word
<1> HIDE DEF top
<1>2. ~(top.low % 4 = 3)
  BY <1>1, SMT
<1> QED
  BY <1>2, SMT DEF Leaf, top

LEMMA BlockNumbers ==
  ASSUME NEW b \in Blocks
  PROVE  /\ b \in Nat /\ b \div PageSlots \in 0 .. 63 /\ b % PageSlots \in 0 .. 511
         /\ b = PageSlots * (b \div PageSlots) + (b % PageSlots)
BY Sizes, SMT DEF Blocks

\* What mmu_c and mmu_s have stored when their MMU is on.
LEMMA TablesOf ==
  ASSUME image \in {"mmu_c", "mmu_s"}, pc \in Running, NEW s \in 0 .. 511
  PROVE  /\ Stored(0, s) = IF s = 0 THEN Plain(Root + 1, 3)
                           ELSE IF s = BaseSlot THEN Plain(Root + 2, 3) ELSE Zero
         /\ Stored(1, s) = Plain(PageSlots * s, LowAttr)
         /\ Stored(2, s) = IF s < 128 THEN Plain(Base + PageSlots * s, Normal) ELSE Zero
<1>1. Reached(0) /\ Reached(1) /\ Reached(2) /\ pc \in Built
  BY SMT DEF Reached, Running, Built, Early
<1>2. Root \in Nat /\ Base \in Nat /\ BaseSlot \in {1, 5} /\ LowAttr \in {Device, Normal}
      /\ image # "memtester_c"
  BY SMT DEF Root, Base, BaseSlot, LowAttr, Normal, Device
<1>3. RepairedEntry = Plain(Root + 1, 3)
  <2>1. RepairedEntry = Plain(Root + 1 + ((0 + 3) \div 4096), (0 + 3) % 4096)
    BY SMT DEF RepairedEntry, Plus, Word, Plain
  <2>2. Root + 1 + ((0 + 3) \div 4096) = Root + 1 /\ (0 + 3) % 4096 = 3
    BY <1>2, SMT
  <2> QED  BY <2>1, <2>2, SMT
<1>4. SecondEntry = Plain(Root + 2, 3)
  <2>1. FirstEntry = Plain(Root + 1 + ((0 + 2) \div 4096), (0 + 2) % 4096)
    BY SMT DEF FirstEntry, Plus, Word, Plain
  <2>2. Root + 1 + ((0 + 2) \div 4096) = Root + 1 /\ (0 + 2) % 4096 = 2
    BY <1>2, SMT
  <2>3. FirstEntry = Plain(Root + 1, 2)
    BY <2>1, <2>2, SMT
  <2>4. SecondEntry = Plain(Root + 1 + 1 + ((2 + 1) \div 4096), (2 + 1) % 4096)
    BY <2>3, PlusIs, SMT DEF SecondEntry
  <2>5. Root + 1 + 1 + ((2 + 1) \div 4096) = Root + 2 /\ (2 + 1) % 4096 = 3
    BY <1>2, SMT
  <2> QED  BY <2>4, <2>5, SMT
<1>5. RootWord(s) = IF s = 0 THEN RepairedEntry ELSE IF s = BaseSlot THEN SecondEntry ELSE Zero
  BY <1>1, <1>2, SMT DEF RootWord, Running, Built
<1>6. FirstTableWord(s) = Plain(PageSlots * s, LowAttr)
  <2>1. s \in Nat /\ s + 1 \in 1 .. \h1000 \div 8 /\ 0 + PageSlots * s = PageSlots * s
    BY Sizes, SMT
  <2>2. BlockEntries(0, LowAttr, \h1000)[s + 1] = Plain(0 + PageSlots * s, LowAttr)
    BY <2>1, <1>2, EntriesAre, SMT
  <2>3. FirstTableWord(s) = BlockEntries(0, LowAttr, \h1000)[s + 1]
    BY <1>1, <1>2, SMT DEF FirstTableWord, LowEntries
  <2> QED  BY <2>1, <2>2, <2>3, SMT
<1>7. SecondTableWord(s) = IF s < 128 THEN Plain(Base + PageSlots * s, Normal) ELSE Zero
  <2>1. CASE s < 128
    <3>1. s \in Nat /\ s + 1 \in 1 .. \h400 \div 8 /\ Normal \in {Device, Normal}
      BY <2>1, SMT
    <3>2. BlockEntries(Base, Normal, \h400)[s + 1] = Plain(Base + PageSlots * s, Normal)
      BY <3>1, <1>2, EntriesAre, SMT
    <3>3. SecondTableWord(s) = BlockEntries(Base, Normal, \h400)[s + 1]
      BY <1>1, <1>2, <2>1, SMT DEF SecondTableWord, HighEntries, Normal
    <3> QED  BY <3>2, <3>3, <2>1, SMT
  <2>2. CASE ~(s < 128)
    BY <2>2, SMT DEF SecondTableWord
  <2> QED  BY <2>1, <2>2
<1>8. Stored(0, s) = RootWord(s) /\ Stored(1, s) = FirstTableWord(s)
      /\ Stored(2, s) = SecondTableWord(s)
  BY <1>1, SMT DEF Stored
<1> QED
  BY <1>3, <1>4, <1>5, <1>6, <1>7, <1>8, SMT

LEMMA TablesOfMemtester ==
  ASSUME image = "memtester_c", pc \in Running, NEW s \in 0 .. 511
  PROVE  /\ Stored(0, s) = IF s = 0 THEN Plain(Root + 1, 3) ELSE Zero
         /\ Stored(1, s) = IF s \in {0, 388} THEN Plain(PageSlots * s, Normal)
                                              ELSE NoExec(PageSlots * s, Device)
<1>1. Reached(0) /\ Reached(1) /\ pc \in Built
  BY SMT DEF Reached, Running, Built, Early
<1>2. Root \in Nat
  BY SMT DEF Root
<1>3. LateEntry = Plain(Root + 1, 3)
  <2>1. LateEntry = Plain(Root + 1 + 0 + ((0 + 3) \div 4096), (0 + 3) % 4096)
    BY SMT DEF LateEntry, Plus, Word, Plain
  <2>2. Root + 1 + 0 + ((0 + 3) \div 4096) = Root + 1 /\ (0 + 3) % 4096 = 3
    BY <1>2, SMT
  <2> QED  BY <2>1, <2>2, SMT
<1>4. RootWord(s) = IF s = 0 THEN LateEntry ELSE Zero
  BY <1>1, SMT DEF RootWord, Running, Built
<1>5. FirstTableWord(s) = IF s \in {0, 388} THEN Plain(PageSlots * s, Normal)
                                            ELSE NoExec(PageSlots * s, Device)
  <2> DEFINE k == s + 1
             page == PageSlots * s
             ram == page \in {0, \h30800}
  <2>1. k \in 1 .. \h1000 \div 8 /\ PageSlots * (k - 1) = page /\ page \in Nat /\ 0 + page = page
    BY Sizes, SMT
  <2> DEFINE attr == IF ram THEN Normal ELSE Device
  <2>2. (ram <=> s \in {0, 388}) /\ 0 + page + ((attr + 0) \div 4096) = page /\ (attr + 0) % 4096 = attr
    BY Attributes, SMT DEF Normal, Device
  <2> HIDE DEF k, page
  <2>3. MapEntries[k] =
           LET pg == PageSlots * (k - 1)
               r  == pg \in {0, \h30800}
           IN  Plus(Word(0, IF r THEN \h411 ELSE \h401, ~r), pg, 0)
    <3> DEFINE E(j) == LET pg == PageSlots * (j - 1)
                           r  == pg \in {0, \h30800}
                       IN  Plus(Word(0, IF r THEN \h411 ELSE \h401, ~r), pg, 0)
    <3>1. MapEntries = [j \in 1 .. \h1000 \div 8 |-> E(j)]
      BY SMT DEF MapEntries
    <3> HIDE DEF E
    <3>2. MapEntries[k] = E(k)
      BY <2>1, <3>1, SMT
    <3> QED  BY <3>2, SMT DEF E
  <2>4. FirstTableWord(s) = MapEntries[k]
    BY <1>1 DEF FirstTableWord, k
  <2>5. FirstTableWord(s) = Plus(Word(0, attr, ~ram), page, 0)
    BY <2>1, <2>3, <2>4, SMT DEF Normal, Device
  <2> HIDE DEF ram, attr
  <2>6. FirstTableWord(s) = [page |-> 0 + page + ((attr + 0) \div 4096), low |-> (attr + 0) % 4096,
                             xn |-> ~ram]
    BY <2>5 DEF Plus, Word
  <2>7. FirstTableWord(s) = [page |-> page, low |-> attr, xn |-> ~ram]
    BY <2>2, <2>6
  <2>8. CASE ram
    <3>1. attr = Normal
      BY <2>8 DEF attr
    <3>2. FirstTableWord(s) = Plain(page, Normal)
      BY <2>7, <2>8, <3>1, Zenon DEF Plain, Word
    <3> QED  BY <3>2, <2>2, <2>8 DEF page
  <2>9. CASE ~ram
    <3>1. attr = Device
      BY <2>9 DEF attr
    <3>2. FirstTableWord(s) = NoExec(page, Device)
      BY <2>7, <2>9, <3>1, Zenon DEF NoExec, Word
    <3> QED  BY <3>2, <2>2, <2>9 DEF page
  <2> QED  BY <2>8, <2>9
<1>6. Stored(0, s) = RootWord(s) /\ Stored(1, s) = FirstTableWord(s)
  BY <1>1, SMT DEF Stored
<1> QED
  BY <1>3, <1>4, <1>5, <1>6, SMT

\* The entries that the walk of a block reads have arrived.
Arrived(b) ==
    /\ memory[0][b \div PageSlots] = Stored(0, b \div PageSlots)
    /\ memory[1][b % PageSlots] = Stored(1, b % PageSlots)
    /\ memory[2][b % PageSlots] = Stored(2, b % PageSlots)

\* The walk of such a block finds what is meant.
LEMMA WalkIs ==
  ASSUME image \in Images, pc \in Running, NEW b \in Blocks, Arrived(b)
  PROVE  Walk(b) = Meant(b)
<1>1. PICK t, s : /\ t = b \div PageSlots /\ s = b % PageSlots
                  /\ b \in Nat /\ t \in 0 .. 511 /\ s \in 0 .. 511 /\ b = PageSlots * t + s
  BY BlockNumbers, SMT
<1>2. memory[0][t] = Stored(0, t) /\ memory[1][s] = Stored(1, s) /\ memory[2][s] = Stored(2, s)
  BY <1>1 DEF Arrived
<1>3. Root \in Nat
  BY SMT DEF Root, Images
<1>4. ASSUME t = 0 PROVE b = s /\ b < 512
  BY <1>1, <1>4, Sizes, SMT
<1>5. ASSUME t # 0 PROVE ~(b < 512)
  BY <1>1, <1>5, Sizes, SMT
<1>6. CASE image \in {"mmu_c", "mmu_s"}
  <2>1. /\ memory[0][t] = IF t = 0 THEN Plain(Root + 1, 3)
                          ELSE IF t = BaseSlot THEN Plain(Root + 2, 3) ELSE Zero
        /\ memory[1][s] = Plain(PageSlots * s, LowAttr)
        /\ memory[2][s] = IF s < 128 THEN Plain(Base + PageSlots * s, Normal) ELSE Zero
    <3>1. Stored(0, t) = IF t = 0 THEN Plain(Root + 1, 3)
                         ELSE IF t = BaseSlot THEN Plain(Root + 2, 3) ELSE Zero
      <4>1. t \in 0 .. 511
        BY <1>1
      <4> QED  BY <1>6, <4>1, TablesOf
    <3>2. /\ Stored(1, s) = Plain(PageSlots * s, LowAttr)
          /\ Stored(2, s) = IF s < 128 THEN Plain(Base + PageSlots * s, Normal) ELSE Zero
      <4>1. s \in 0 .. 511
        BY <1>1
      <4> QED  BY <1>6, <4>1, TablesOf
    <3> QED  BY <3>1, <3>2, <1>2
  <2>2. /\ Base = PageSlots * (PageSlots * BaseSlot) /\ BaseSlot \in {1, 5}
        /\ image = "mmu_c" => BaseSlot = 1 /\ LowAttr = Device
        /\ image = "mmu_s" => BaseSlot = 5 /\ LowAttr = Normal
    BY <1>6, Sizes, SMT DEF Base, BaseSlot, LowAttr, Normal, Device
  <2>3. CASE t = 0
    <3>1. memory[0][b \div PageSlots] = Plain(Root + 1, 3) /\ 1 \in {1, 2}
      BY <1>1, <2>1, <2>3
    <3>2. Leaf(b) = memory[1][s]
      BY <1>1, <1>3, <3>1, LeafIs
    <3>3. Leaf(b) = Plain(PageSlots * b, LowAttr)
      BY <3>2, <2>1, <1>4, <2>3
    <3>4. CASE image = "mmu_c"
      <4>1. Walk(b) = [kind |-> "device", page |-> PageSlots * b, xn |-> FALSE]
        BY <3>3, <3>4, <2>2, <1>1, BlockIs
      <4> QED  BY <4>1, <3>4, <1>4, <2>3, Sizes, SMT DEF Meant
    <3>5. CASE image = "mmu_s"
      <4>1. Walk(b) = [kind |-> "normal", page |-> PageSlots * b, xn |-> FALSE]
        BY <3>3, <3>5, <2>2, <1>1, BlockIs
      <4> QED  BY <4>1, <3>5, <1>4, <2>3, Sizes, SMT DEF Meant
    <3> QED  BY <3>4, <3>5, <1>6
  <2>4. CASE t = BaseSlot
    <3>1. t # 0 /\ b = PageSlots * BaseSlot + s
      BY <2>2, <2>4, <1>1, Sizes, SMT
    <3>2. memory[0][b \div PageSlots] = Plain(Root + 2, 3) /\ 2 \in {1, 2}
      BY <1>1, <2>1, <2>4, <3>1
    <3>3. Leaf(b) = memory[2][s]
      BY <1>1, <1>3, <3>2, LeafIs
    <3>4. CASE s < 128
      <4>1. /\ Base + PageSlots * s = PageSlots * b /\ ~(b < 512)
            /\ image = "mmu_c" => b \in 512 .. 639
            /\ image = "mmu_s" => b \in 2560 .. 2687
        BY <2>2, <3>1, <3>4, <1>1, Sizes, SMT
      <4>2. Leaf(b) = Plain(PageSlots * b, Normal)
        BY <4>1, <3>3, <3>4, <2>1
      <4>3. Walk(b) = [kind |-> "normal", page |-> PageSlots * b, xn |-> FALSE]
        BY <4>2, <1>1, BlockIs
      <4> QED  BY <4>1, <4>3, <1>6, Sizes, SMT DEF Meant
    <3>5. CASE ~(s < 128)
      <4>1. Walk(b) = Fault
        BY <3>3, <3>5, <2>1, NoBlock
      <4>2. CASE image = "mmu_c"
        <5>1. ~(b < 512) /\ b \notin 512 .. 639
          BY <3>5, <4>2, <2>2, <3>1, <1>1, Sizes, SMT
        <5> QED  BY <4>1, <4>2, <5>1, SMT DEF Meant
      <4>3. CASE image = "mmu_s"
        <5>1. ~(b < 512) /\ b \notin 2560 .. 2687
          BY <3>5, <4>3, <2>2, <3>1, <1>1, Sizes, SMT
        <5> QED  BY <4>1, <4>3, <5>1, SMT DEF Meant
      <4> QED  BY <4>2, <4>3, <1>6
    <3> QED  BY <3>4, <3>5
  <2>5. CASE t # 0 /\ t # BaseSlot
    <3>1. memory[0][b \div PageSlots] = Zero
      BY <1>1, <2>1, <2>5
    <3>2. Walk(b) = Fault
      BY <3>1, NoLeaf, NoBlock
    <3>3. CASE image = "mmu_c"
      <4>1. ~(b < 512) /\ b \notin 512 .. 639
        BY <3>3, <2>2, <2>5, <1>1, Sizes, SMT
      <4> QED  BY <3>2, <3>3, <4>1, SMT DEF Meant
    <3>4. CASE image = "mmu_s"
      <4>1. ~(b < 512) /\ b \notin 2560 .. 2687
        BY <3>4, <2>2, <2>5, <1>1, Sizes, SMT
      <4> QED  BY <3>2, <3>4, <4>1, SMT DEF Meant
    <3> QED  BY <3>3, <3>4, <1>6
  <2> QED  BY <2>3, <2>4, <2>5
<1>7. CASE image = "memtester_c"
  <2>1. /\ memory[0][t] = IF t = 0 THEN Plain(Root + 1, 3) ELSE Zero
        /\ memory[1][s] = IF s \in {0, 388} THEN Plain(PageSlots * s, Normal)
                                             ELSE NoExec(PageSlots * s, Device)
    <3>1. Stored(0, t) = IF t = 0 THEN Plain(Root + 1, 3) ELSE Zero
      <4>1. t \in 0 .. 511
        BY <1>1
      <4> QED  BY <1>7, <4>1, TablesOfMemtester
    <3>2. Stored(1, s) = IF s \in {0, 388} THEN Plain(PageSlots * s, Normal)
                                             ELSE NoExec(PageSlots * s, Device)
      <4>1. s \in 0 .. 511
        BY <1>1
      <4> QED  BY <1>7, <4>1, TablesOfMemtester
    <3> QED  BY <3>1, <3>2, <1>2
  <2>2. CASE t = 0
    <3>1. memory[0][b \div PageSlots] = Plain(Root + 1, 3) /\ 1 \in {1, 2}
      BY <1>1, <2>1, <2>2
    <3>2. Leaf(b) = memory[1][s] /\ b = s /\ b < 512
      BY <1>1, <1>3, <3>1, LeafIs, <1>4, <2>2
    <3>3. CASE b \in {0, 388}
      <4>1. Leaf(b) = Plain(PageSlots * b, Normal)
        BY <3>2, <3>3, <2>1
      <4>2. Walk(b) = [kind |-> "normal", page |-> PageSlots * b, xn |-> FALSE]
        BY <4>1, <1>1, BlockIs
      <4> QED  BY <4>2, <3>2, <3>3, <1>7, Sizes, SMT DEF Meant
    <3>4. CASE b \notin {0, 388}
      <4>1. Leaf(b) = NoExec(PageSlots * b, Device)
        BY <3>2, <3>4, <2>1
      <4>2. Walk(b) = [kind |-> "device", page |-> PageSlots * b, xn |-> TRUE]
        BY <4>1, <1>1, BlockIs
      <4> QED  BY <4>2, <3>2, <3>4, <1>7, Sizes, SMT DEF Meant
    <3> QED  BY <3>3, <3>4
  <2>3. CASE t # 0
    <3>1. memory[0][b \div PageSlots] = Zero
      BY <1>1, <2>1, <2>3
    <3>2. Walk(b) = Fault
      BY <3>1, NoLeaf, NoBlock
    <3> QED  BY <3>2, <1>5, <2>3, <1>7, SMT DEF Meant
  <2> QED  BY <2>2, <2>3
<1> QED
  BY <1>6, <1>7 DEF Images

----------------------------------------------------------------------------
(* Every step keeps the invariant, as long as the memory works.             *)

LEMMA SameEntries ==
  ASSUME image' = image
  PROVE  /\ FirstEntry' = FirstEntry /\ SecondEntry' = SecondEntry
         /\ RepairedEntry' = RepairedEntry /\ LateEntry' = LateEntry
         /\ Before' = Before /\ BaseSlot' = BaseSlot
         /\ LowEntries' = LowEntries /\ HighEntries' = HighEntries
<1>1. Root' = Root /\ LowAttr' = LowAttr /\ Base' = Base
  BY SMT DEF Root, LowAttr, Base
<1>2. FirstEntry' = FirstEntry /\ RepairedEntry' = RepairedEntry /\ LateEntry' = LateEntry
  BY <1>1, SMT DEF FirstEntry, RepairedEntry, LateEntry, Plus, Word
<1>3. SecondEntry' = SecondEntry
  BY <1>2, SMT DEF SecondEntry, Plus, Word
<1>4. LowEntries' = LowEntries
  BY <1>1, SMT DEF LowEntries, BlockEntries, Plus, Word
<1>5. HighEntries' = HighEntries
  BY <1>1, SMT DEF HighEntries, BlockEntries, Plus, Word
<1>6. Before' = Before /\ BaseSlot' = BaseSlot
  BY SMT DEF Before, BaseSlot
<1> QED
  BY <1>2, <1>3, <1>4, <1>5, <1>6

\* The words of a table that a step leaves alone.
LEMMA SameWords ==
  ASSUME image' = image, pc' = pc \/ (pc \in Built /\ pc' \in Built), n' = n \/ pc # "cloop"
  PROVE  \A p \in Pages, s \in Slots : Stored(p, s)' = Stored(p, s)
<1> TAKE p \in Pages, s \in Slots
<1>1. CASE pc' = pc
  <2>1. RootWord(s)' = RootWord(s) /\ FirstTableWord(s)' = FirstTableWord(s)
        /\ SecondTableWord(s)' = SecondTableWord(s)
    BY <1>1, SameEntries DEF RootWord, FirstTableWord, SecondTableWord
  <2>2. CASE Reached(p)
    <3>1. Reached(p)'
      BY <1>1, <2>2 DEF Reached
    <3> QED  BY <2>1, <2>2, <3>1, Sizes DEF Stored
  <2>3. CASE ~Reached(p)
    <3>1. ~Reached(p)'
      BY <1>1, <2>3 DEF Reached
    <3> QED  BY <2>3, <3>1, SameEntries DEF Stored
  <2> QED  BY <2>2, <2>3
<1>2. CASE pc \in Built /\ pc' \in Built
  <2>1. Reached(p) /\ Reached(p)'
    BY <1>2 DEF Reached, Early, Built, Running
  <2>2. /\ pc \notin {"tbl0_next", "tl1_lp", "repair", "tl2_lp"}
        /\ pc' \notin {"tbl0_next", "tl1_lp", "repair", "tl2_lp"}
    BY <1>2 DEF Built, Running
  <2>3. RootWord(s)' = RootWord(s)
    BY <1>2, <2>2, SameEntries DEF RootWord
  <2>4. FirstTableWord(s)' = FirstTableWord(s)
    BY <1>2, SameEntries DEF FirstTableWord
  <2>5. SecondTableWord(s)' = SecondTableWord(s)
    BY <1>2, SameEntries DEF SecondTableWord
  <2> QED  BY <2>1, <2>3, <2>4, <2>5, Sizes DEF Stored
<1> QED
  BY <1>1, <1>2

LEMMA LenOf ==
  ASSUME NEW m \in Nat, NEW w, w = [k \in 1 .. m |-> w[k]]
  PROVE  Len(w) = m
<1>1. w \in [1 .. m -> {w[k] : k \in 1 .. m}]
  OBVIOUS
<1>2. w \in Seq({w[k] : k \in 1 .. m})
  BY <1>1, SeqDef
<1>3. DOMAIN w = 1 .. m /\ DOMAIN w = 1 .. Len(w) /\ Len(w) \in Nat
  BY <1>1, <1>2, LenProperties
<1> QED
  BY <1>3

\* The DRAM works when there is something to store.
LEMMA Works ==
  ASSUME DramIsTrained, pc \notin Early
  PROVE  TableMemoryWorks
BY DEF DramIsTrained, TableMemoryWorks, Early

LEMMA Buffered ==
  ASSUME TableInv
  PROVE  /\ buffer \in Seq(StoresOf(Table)) /\ Len(buffer) \in Nat
         /\ pc \in Early => Len(buffer) = 0
<1>1. buffer \in Seq(StoresOf(Table))
  BY DEF TableInv, Holds
<1>2. Len(buffer) \in Nat
  BY <1>1, LenProperties
<1>3. ASSUME pc \in Early, Len(buffer) # 0 PROVE FALSE
  <2>1. 1 \in 1 .. Len(buffer)
    BY <1>2, <1>3
  <2> QED  BY <2>1, <1>3 DEF TableInv, OnTheWay
<1> QED
  BY <1>1, <1>2, <1>3

\* A step that stores nothing, before or after the tables are built.
LEMMA NothingStored ==
  ASSUME TableInv, UNCHANGED <<image, buffer, memory>>,
         \A p \in Pages, s \in Slots : Stored(p, s)' = Stored(p, s)
  PROVE  Holds(memory, buffer, Table)'
<1>1. Table' = Table
  BY DEF Table
<1>2. Holds(memory, buffer, Table)
  BY DEF TableInv
<1>3. Pages' = Pages /\ Slots' = Slots
  BY DEF Pages, Slots, PageSlots
<1> QED
  BY <1>1, <1>2, <1>3 DEF Holds, StoresOf

LEMMA HoldsNext ==
  ASSUME Holds(memory', buffer', Table')
  PROVE  Holds(memory, buffer, Table)'
<1>1. Pages' = Pages /\ Slots' = Slots
  BY DEF Pages, Slots, PageSlots
<1> QED
  BY <1>1 DEF Holds, StoresOf

LEMMA AfterBuild ==
  ASSUME TableInv, pc \in Built, pc' \in Running, UNCHANGED <<image, buffer, memory>>,
         n' \in Nat, mmu' \in BOOLEAN,
         pc' \notin {"access", "fault"} => n' = 0,
         pc' = "access" => n' \in 0 .. 4 /\ (image # "memtester_c" => n' \in 0 .. 1),
         pc' = "copy" => image = "mmu_c"
  PROVE  TableInv'
<1>1. pc' \in Built /\ pc' \notin Early /\ pc \notin Early /\ pc # "cloop" /\ pc' # "cloop"
      /\ pc' \notin {"tbl0", "map_lp", "repair", "tbl0_next", "root", "tl1_lp", "tl2_lp"}
      /\ pc \notin {"tbl0", "map_lp", "repair", "tbl0_next", "root", "tl1_lp", "tl2_lp"}
  BY DEF Built, Running, Early
<1>2. \A p \in Pages, s \in Slots : Stored(p, s)' = Stored(p, s)
  BY <1>1, SameWords
<1>3. Holds(memory, buffer, Table)'
  BY <1>2, NothingStored
<1>4. OnTheWay' /\ RootIsLast'
  BY <1>1 DEF TableInv, OnTheWay, RootIsLast
<1>5. image' \in Images /\ pc' \in Statements'
  BY <1>1 DEF TableInv, Statements
<1> QED
  BY <1>1, <1>3, <1>4, <1>5 DEF TableInv

LEMMA DramStep ==
  ASSUME TableInv, dram_init, UNCHANGED tableVars
  PROVE  TableInv'
<1>1. pc \in Early /\ pc' \in Early \cup {"cloop"} /\ UNCHANGED <<image, n, buffer, memory, mmu>>
  BY DEF dram_init, WriteEntry, UnmarkEntry, Poll, NextEntry, tableVars, Early
<1>2. n = 0 /\ image = "mmu_c" /\ ~mmu
  BY <1>1 DEF TableInv, Statements, Early, Built, Running
<1>3. \A p \in Pages : ~Reached(p) /\ ~Reached(p)'
  BY <1>1, <1>2, Sizes, SMT DEF Reached, Early
<1>4. \A p \in Pages, s \in Slots : Stored(p, s)' = Stored(p, s)
  BY <1>1, <1>3, SameEntries DEF Stored
<1>5. Holds(memory, buffer, Table)'
  BY <1>1, <1>4, NothingStored
<1>6. Len(buffer) = 0
  BY <1>1, Buffered
<1>7. OnTheWay'
  BY <1>1, <1>6 DEF OnTheWay
<1>8. pc' \in Statements' /\ pc' \notin Built
  BY <1>1, <1>2 DEF Statements, Early, Built, Running
<1>9. RootIsLast'
  BY <1>8 DEF RootIsLast
<1> QED
  BY <1>1, <1>2, <1>5, <1>7, <1>8, <1>9 DEF TableInv, Early, Built

LEMMA SameStep ==
  ASSUME TableInv, UNCHANGED <<pc, image, n, buffer, memory, mmu>>
  PROVE  TableInv'
<1>1. \A p \in Pages, s \in Slots : Stored(p, s)' = Stored(p, s)
  BY SameWords
<1>2. Holds(memory, buffer, Table)'
  BY <1>1, NothingStored
<1>3. OnTheWay' /\ RootIsLast'
  BY DEF TableInv, OnTheWay, RootIsLast
<1>4. pc' \in Statements'
  BY DEF TableInv, Statements
<1> QED
  BY <1>2, <1>3, <1>4 DEF TableInv

----------------------------------------------------------------------------
(* Single stores.                                                           *)

LEMMA AppendIndex ==
  ASSUME NEW S, NEW q \in Seq(S), NEW st, NEW k \in 1 .. Len(Append(q, st))
  PROVE  \/ k \in 1 .. Len(q) /\ Append(q, st)[k] = q[k]
         \/ k = Len(Append(q, st)) /\ Append(q, st)[k] = st
<1> DEFINE T == S \cup {st}
<1>1. q \in Seq(T) /\ st \in T
  BY SeqMonotonic
<1> HIDE DEF T
<1>2. /\ Len(Append(q, st)) = Len(q) + 1 /\ Len(q) \in Nat /\ Append(q, st)[Len(q) + 1] = st
      /\ \A j \in 1 .. Len(q) : Append(q, st)[j] = q[j]
  BY <1>1, AppendProperties, LenProperties
<1> QED
  BY <1>2

LEMMA StoreStep ==
  ASSUME TableInv, NEW page \in Pages, NEW slot \in Slots, NEW word, Store(page, slot, word),
         \A k \in 1 .. Len(buffer) : buffer[k].at # <<page, slot>>,
         Stored(page, slot)' = word,
         \A p \in Pages, s \in Slots : <<p, s>> # <<page, slot>> => Stored(p, s)' = Stored(p, s)
  PROVE  /\ Holds(memory, buffer, Table)' /\ UNCHANGED <<image, n, memory, mmu>>
         /\ \A k \in 1 .. Len(buffer') :
               \/ k \in 1 .. Len(buffer) /\ buffer'[k] = buffer[k]
               \/ k = Len(buffer') /\ buffer'[k].at = <<page, slot>>
<1> DEFINE st == [at |-> <<page, slot>>, word |-> word]
           x == <<page, slot>>
<1>1. buffer' = Append(buffer, st) /\ UNCHANGED <<image, n, memory, mmu>>
  BY DEF Store
<1>2. x \in Pages \X Slots
  OBVIOUS
<1>3. Table'[x] = word
  BY DEF Table
<1>4. \A y \in (Pages \X Slots) \ {x} : Table'[y] = Table[y]
  BY DEF Table
<1>5. Holds(memory, buffer, Table)
  BY DEF TableInv
<1>6. Holds(memory, Append(buffer, st), Table')
  <2> HIDE DEF x
  <2>1. st = [at |-> x, word |-> word]
    BY DEF x
  <2>2. \A k \in 1 .. Len(buffer) : buffer[k].at # x
    BY DEF x
  <2> HIDE DEF st
  <2> QED  BY <1>2, <1>3, <1>4, <1>5, <2>1, <2>2, OneStore
<1>7. Holds(memory, buffer, Table)'
  BY <1>1, <1>6, HoldsNext
<1>8. ASSUME NEW k \in 1 .. Len(buffer')
      PROVE  \/ k \in 1 .. Len(buffer) /\ buffer'[k] = buffer[k]
             \/ k = Len(buffer') /\ buffer'[k].at = <<page, slot>>
  <2>1. buffer \in Seq(StoresOf(Table))
    BY Buffered
  <2>2. st.at = <<page, slot>>
    OBVIOUS
  <2> HIDE DEF st
  <2> QED  BY <1>1, <1>8, <2>1, <2>2, AppendIndex
<1> QED
  BY <1>1, <1>7, <1>8

\* Facts of the control that a store does not touch.
LEMMA BuildControl ==
  ASSUME TableInv, UNCHANGED <<image, n, mmu>>, pc \notin Running, n = 0,
         pc' \in Statements', pc' \notin Running \cup {"cloop"},
         Holds(memory, buffer, Table)', OnTheWay', RootIsLast'
  PROVE  TableInv'
BY SMT DEF TableInv, Running

LEMMA SetTbl0Step ==
  ASSUME TableInv, SetTbl0
  PROVE  TableInv'
<1>1. pc = "tbl0" /\ pc' = "tbl0_next" /\ Store(0, 0, FirstEntry)
  BY DEF SetTbl0
<1>2. UNCHANGED <<image, n, memory, mmu>>
  BY <1>1 DEF Store
<1>3. image # "memtester_c" /\ n = 0 /\ 0 \in Pages /\ 0 \in Slots
  BY <1>1, Sizes DEF TableInv, Statements, Built, Running
<1>4. \A p \in Pages, s \in Slots :
         Stored(p, s)' = IF p = 0 /\ s = 0 THEN FirstEntry ELSE Stored(p, s)
  BY <1>1, <1>2, <1>3, SameEntries, Sizes, SMT
     DEF Stored, Reached, RootWord, FirstTableWord, SecondTableWord, Early, Built, Running
<1>5. \A k \in 1 .. Len(buffer) : buffer[k].at[1] = 2 /\ buffer[k].at # <<0, 0>>
  BY <1>1 DEF TableInv, OnTheWay
<1>6. /\ Holds(memory, buffer, Table)'
      /\ \A k \in 1 .. Len(buffer') :
            \/ k \in 1 .. Len(buffer) /\ buffer'[k] = buffer[k]
            \/ k = Len(buffer') /\ buffer'[k].at = <<0, 0>>
  BY <1>1, <1>3, <1>4, <1>5, StoreStep
<1>7. OnTheWay' /\ RootIsLast' /\ pc' \in Statements'
  BY <1>1, <1>2, <1>3, <1>5, <1>6 DEF OnTheWay, RootIsLast, Statements, Early, Built, Running
<1> QED
  BY <1>1, <1>2, <1>3, <1>6, <1>7, BuildControl DEF Running

LEMMA SetTbl0NextStep ==
  ASSUME TableInv, SetTbl0Next
  PROVE  TableInv'
<1>1. pc = "tbl0_next" /\ pc' = "tl1_lp" /\ Store(0, BaseSlot, SecondEntry)
  BY DEF SetTbl0Next, SecondEntry
<1>2. UNCHANGED <<image, n, memory, mmu>>
  BY <1>1 DEF Store
<1>3. image # "memtester_c" /\ n = 0 /\ 0 \in Pages
  BY <1>1, Sizes DEF TableInv, Statements, Built, Running
<1>4. BaseSlot \in Slots /\ BaseSlot # 0
  BY Sizes DEF BaseSlot
<1>5. \A p \in Pages, s \in Slots :
         Stored(p, s)' = IF p = 0 /\ s = BaseSlot THEN SecondEntry ELSE Stored(p, s)
  BY <1>1, <1>2, <1>3, <1>4, SameEntries, Sizes, SMT
     DEF Stored, Reached, RootWord, FirstTableWord, SecondTableWord, Early, Built, Running
<1>6. \A k \in 1 .. Len(buffer) : buffer[k].at # <<0, BaseSlot>>
  BY <1>1, <1>4 DEF TableInv, OnTheWay
<1>7. Holds(memory, buffer, Table)'
  BY <1>1, <1>3, <1>4, <1>5, <1>6, StoreStep
<1>8. OnTheWay' /\ RootIsLast' /\ pc' \in Statements'
  BY <1>1, <1>2, <1>3 DEF OnTheWay, RootIsLast, Statements, Early, Built, Running
<1> QED
  BY <1>1, <1>2, <1>3, <1>7, <1>8, BuildControl DEF Running

LEMMA RepairStep ==
  ASSUME TableInv, Repair
  PROVE  TableInv'
<1>1. pc = "repair" /\ pc' = "tl2_lp" /\ Store(0, 0, RepairedEntry)
  BY DEF Repair, RepairedEntry
<1>2. UNCHANGED <<image, n, memory, mmu>>
  BY <1>1 DEF Store
<1>3. image # "memtester_c" /\ n = 0 /\ 0 \in Pages /\ 0 \in Slots /\ BaseSlot # 0
  BY <1>1, Sizes DEF TableInv, Statements, Built, Running, BaseSlot
<1>4. \A p \in Pages, s \in Slots :
         Stored(p, s)' = IF p = 0 /\ s = 0 THEN RepairedEntry ELSE Stored(p, s)
  BY <1>1, <1>2, <1>3, SameEntries, Sizes, SMT
     DEF Stored, Reached, RootWord, FirstTableWord, SecondTableWord, Early, Built, Running
<1>5. \A k \in 1 .. Len(buffer) : buffer[k].at # <<0, 0>>
  BY <1>1 DEF TableInv, OnTheWay
<1>6. Holds(memory, buffer, Table)'
  BY <1>1, <1>3, <1>4, <1>5, StoreStep
<1>7. OnTheWay' /\ RootIsLast' /\ pc' \in Statements'
  BY <1>1, <1>2, <1>3 DEF OnTheWay, RootIsLast, Statements, Early, Built, Running
<1> QED
  BY <1>1, <1>2, <1>3, <1>6, <1>7, BuildControl DEF Running

LEMMA MapRootStep ==
  ASSUME TableInv, MapRoot
  PROVE  TableInv'
<1>1. pc = "root" /\ pc' = "enable" /\ Store(0, 0, LateEntry)
  BY DEF MapRoot, LateEntry
<1>2. UNCHANGED <<image, n, memory, mmu>>
  BY <1>1 DEF Store
<1>3. image = "memtester_c" /\ n = 0 /\ 0 \in Pages /\ 0 \in Slots
  BY <1>1, Sizes DEF TableInv, Statements, Built, Running, Early
<1>4. \A p \in Pages, s \in Slots :
         Stored(p, s)' = IF p = 0 /\ s = 0 THEN LateEntry ELSE Stored(p, s)
  BY <1>1, <1>2, <1>3, SameEntries, Sizes, SMT
     DEF Stored, Reached, RootWord, FirstTableWord, SecondTableWord, Early, Built, Running
<1>5. \A k \in 1 .. Len(buffer) : buffer[k].at # <<0, 0>>
  BY <1>1 DEF TableInv, OnTheWay
<1>6. /\ Holds(memory, buffer, Table)'
      /\ \A k \in 1 .. Len(buffer') :
            \/ k \in 1 .. Len(buffer) /\ buffer'[k] = buffer[k]
            \/ k = Len(buffer') /\ buffer'[k].at = <<0, 0>>
  BY <1>1, <1>3, <1>4, <1>5, StoreStep
<1>7. RootIsLast'
  <2>1. buffer' = Append(buffer, [at |-> <<0, 0>>, word |-> LateEntry])
    BY <1>1 DEF Store
  <2>2. Len(buffer') = Len(buffer) + 1 /\ Len(buffer) \in Nat
    <3>1. buffer \in Seq(StoresOf(Table))
      BY Buffered
    <3> QED  BY <2>1, <3>1, Buffered
  <2>3. Len(buffer') \in 1 .. Len(buffer') /\ Len(buffer') \notin 1 .. Len(buffer)
    BY <2>2
  <2>4. buffer'[Len(buffer')].at = <<0, 0>>
    BY <2>3, <1>6
  <2> QED  BY <2>4 DEF RootIsLast
<1>8. OnTheWay' /\ pc' \in Statements'
  BY <1>1, <1>2, <1>3 DEF OnTheWay, Statements, Early, Built, Running
<1> QED
  BY <1>1, <1>2, <1>3, <1>6, <1>7, <1>8, BuildControl DEF Running

----------------------------------------------------------------------------
(* Loops of stores.                                                         *)

LEMMA LoopStep ==
  ASSUME TableInv, TableMemoryWorks, NEW page \in Pages, NEW word, StoreLoop(page, word),
         Len(word) \in Nat, DEPTH <= Len(word), Len(word) <= 512,
         \A s \in Slots : s < Len(word) => Stored(page, s)' = word[s + 1],
         \A p \in Pages, s \in Slots :
            ~(p = page /\ s < Len(word)) => Stored(p, s)' = Stored(p, s)
  PROVE  /\ Holds(memory, buffer, Table)' /\ UNCHANGED <<image, mmu>>
         /\ \A k \in 1 .. Len(buffer') :
               buffer'[k].at[1] = page /\ buffer'[k].at[2] >= Len(word) - DEPTH
<1> DEFINE bound == Len(word)
<1>1. PICK late \in 0 .. DEPTH :
         /\ memory' = Written(memory, page, word, bound, late)
         /\ buffer' = LastOnes(page, word, bound, late)
  BY DEF StoreLoop, Written, LastOnes
<1> HIDE DEF bound
<1>0. bound \in Nat /\ DEPTH <= bound /\ bound <= 512 /\ bound = Len(word)
  BY DEF bound
<1>2. buffer = << >> /\ UNCHANGED <<image, mmu>>
  BY DEF StoreLoop
<1>3. late \in Nat /\ late <= DEPTH /\ late <= bound /\ DEPTH \in Nat
  BY <1>0, <1>1, MmuAssumption
<1>4. Holds(memory, << >>, Table)
  BY <1>2 DEF TableInv
<1>5. \A s \in Slots : s < bound => Table'[<<page, s>>] = word[s + 1]
  BY <1>0 DEF Table
<1>6. \A p \in Pages, s \in Slots : ~(p = page /\ s < bound) => Table'[<<p, s>>] = Table[<<p, s>>]
  BY <1>0 DEF Table
<1>7. Holds(memory', buffer', Table')
  <2> HIDE DEF Table
  <2>1. Holds(Written(memory, page, word, bound, late), LastOnes(page, word, bound, late), Table')
    BY <1>0, <1>3, <1>4, <1>5, <1>6, ManyStores
  <2> QED  BY <1>1, <2>1
<1>8. Holds(memory, buffer, Table)'
  BY <1>7, HoldsNext
<1>9. Len(buffer') = late
  <2>1. buffer' = [k \in 1 .. late |-> buffer'[k]]
    BY <1>1 DEF LastOnes
  <2> QED  BY <2>1, <1>3, LenOf
<1>10. ASSUME NEW k \in 1 .. Len(buffer')
       PROVE  buffer'[k].at[1] = page /\ buffer'[k].at[2] >= bound - DEPTH
  <2>1. k \in 1 .. late /\ bound - late + k - 1 >= bound - DEPTH
    BY <1>0, <1>3, <1>9
  <2>2. buffer'[k].at = <<page, bound - late + k - 1>>
    BY <1>1, <2>1 DEF LastOnes
  <2> QED  BY <2>1, <2>2
<1> QED
  BY <1>0, <1>2, <1>8, <1>10

LEMMA DepthIsSmall == DEPTH \in Nat /\ DEPTH <= 127
BY MmuAssumption

LEMMA ClearStep ==
  ASSUME TableInv, DramIsTrained, Clear
  PROVE  TableInv'
<1>1. PICK page, word : page = n /\ word = [k \in 1 .. PageSlots |-> Zero]
  OBVIOUS
<1>2. /\ pc = "cloop" /\ StoreLoop(page, word)
      /\ n < 2 => n' = n + 1 /\ pc' = pc
      /\ ~(n < 2) => n' = 0 /\ pc' = IF image = "memtester_c" THEN "map_lp" ELSE "tbl0"
  BY <1>1 DEF Clear
<1>3. page \in Pages /\ n \in 0 .. 2 /\ image' = image /\ mmu' = mmu /\ ~mmu
  <2>1. n \in 0 .. 2
    BY <1>2 DEF TableInv
  <2>2. page \in Pages
    BY <1>1, <2>1 DEF Pages
  <2>3. image' = image /\ mmu' = mmu
    BY <1>2 DEF StoreLoop
  <2>4. ~mmu
    BY <1>2 DEF TableInv, Running
  <2> QED  BY <2>1, <2>2, <2>3, <2>4
<1>4. TableMemoryWorks
  BY <1>2, Works DEF Early
<1>5. Len(word) = 512 /\ \A s \in Slots : word[s + 1] = Zero
  <2>1. word = [k \in 1 .. PageSlots |-> word[k]] /\ \A k \in 1 .. PageSlots : word[k] = Zero
    BY <1>1
  <2>2. \A s \in Slots : s + 1 \in 1 .. PageSlots
    BY Sizes
  <2>3. PageSlots \in Nat
    BY Sizes
  <2>4. Len(word) = PageSlots
    BY <2>1, <2>3, LenOf
  <2>5. PageSlots = 512
    BY Sizes
  <2>6. \A s \in Slots : word[s + 1] = Zero
    BY <2>1, <2>2
  <2> QED  BY <2>4, <2>5, <2>6
<1>6. pc' \in {"cloop", "map_lp", "tbl0"} /\ (pc' = "cloop" => n' = n + 1)
  BY <1>2
<1>7. \A s \in Slots : Stored(page, s)' = Zero
  <2> TAKE s \in Slots
  <2>1. RootWord(s)' = Zero /\ FirstTableWord(s)' = Zero /\ SecondTableWord(s)' = Zero
    BY <1>6 DEF RootWord, FirstTableWord, SecondTableWord, Built, Running
  <2>2. Reached(page)'
    BY <1>1, <1>3, <1>6 DEF Reached, Early
  <2> QED  BY <1>3, <2>1, <2>2, Sizes DEF Stored
<1>8. \A p \in Pages, s \in Slots : p # page => Stored(p, s)' = Stored(p, s)
  <2> TAKE p \in Pages, s \in Slots
  <2> SUFFICES ASSUME p # page PROVE Stored(p, s)' = Stored(p, s)
    OBVIOUS
  <2>1. /\ RootWord(s)' = Zero /\ FirstTableWord(s)' = Zero /\ SecondTableWord(s)' = Zero
        /\ RootWord(s) = Zero /\ FirstTableWord(s) = Zero /\ SecondTableWord(s) = Zero
    BY <1>2, <1>6 DEF RootWord, FirstTableWord, SecondTableWord, Built, Running
  <2>2. p \in {0, 1, 2} /\ p # n
    BY <1>1, Sizes
  <2>3. CASE p < n
    <3>1. Reached(p) /\ Reached(p)'
      BY <1>2, <1>3, <1>6, <2>2, <2>3 DEF Reached, Early
    <3> QED  BY <2>1, <2>2, <3>1 DEF Stored
  <2>4. CASE ~(p < n)
    <3>1. n < 2 /\ pc' = "cloop" /\ n' = n + 1
      BY <1>2, <1>3, <2>2, <2>4
    <3>2. ~Reached(p) /\ ~Reached(p)'
      BY <1>2, <1>3, <2>2, <2>4, <3>1 DEF Reached, Early
    <3> QED  BY <1>3, <3>2, SameEntries DEF Stored
  <2> QED  BY <2>3, <2>4
<1>9. /\ Holds(memory, buffer, Table)'
      /\ \A k \in 1 .. Len(buffer') : buffer'[k].at[1] = page
  <2>1. Len(word) \in Nat /\ DEPTH <= Len(word) /\ Len(word) <= 512
    BY <1>5, DepthIsSmall
  <2>2. \A s \in Slots : s < Len(word) => Stored(page, s)' = word[s + 1]
    BY <1>5, <1>7
  <2>3. \A p \in Pages, s \in Slots :
           ~(p = page /\ s < Len(word)) => Stored(p, s)' = Stored(p, s)
    <3>1. \A s \in Slots : s < Len(word)
      BY <1>5, Sizes
    <3> QED  BY <1>8, <3>1
  <2>4. Holds(memory, buffer, Table)'
    BY <1>2, <1>3, <1>4, <2>1, <2>2, <2>3, LoopStep
  <2>5. \A k \in 1 .. Len(buffer') : buffer'[k].at[1] = page
    BY <1>2, <1>3, <1>4, <2>1, <2>2, <2>3, LoopStep
  <2> QED  BY <2>4, <2>5
<1>10. CASE n < 2
  <2>1. pc' = "cloop" /\ n' \in 0 .. 2 /\ n' \in Nat
    BY <1>2, <1>3, <1>10
  <2>2. OnTheWay' /\ RootIsLast' /\ pc' \in Statements'
    BY <2>1, <1>3 DEF OnTheWay, RootIsLast, Statements, Early, Built, Running
  <2> QED  BY <2>1, <2>2, <1>3, <1>9 DEF TableInv
<1>11. CASE ~(n < 2)
  <2>1. n = 2 /\ n' = 0 /\ pc' = IF image = "memtester_c" THEN "map_lp" ELSE "tbl0"
    BY <1>2, <1>3, <1>11
  <2>2. OnTheWay' /\ RootIsLast' /\ pc' \in Statements'
    BY <2>1, <1>1, <1>3, <1>9 DEF OnTheWay, RootIsLast, Statements, Early, Built, Running
  <2> QED  BY <2>1, <2>2, <1>3, <1>9 DEF TableInv
<1> QED
  BY <1>10, <1>11

LEMMA LengthsOfTables ==
  Len(LowEntries) = 512 /\ Len(HighEntries) = 128 /\ Len(MapEntries) = 512
<1>1. \h1000 \div 8 = PageSlots /\ \h400 \div 8 = 128 /\ PageSlots \in Nat /\ 128 \in Nat
  BY SMT DEF PageSlots
<1>2. /\ LowEntries = [k \in 1 .. PageSlots |-> LowEntries[k]]
      /\ MapEntries = [k \in 1 .. PageSlots |-> MapEntries[k]]
  <2>1. LowEntries = [k \in 1 .. PageSlots |-> LowEntries[k]]
    BY <1>1, SMT DEF LowEntries, BlockEntries
  <2>2. MapEntries = [k \in 1 .. PageSlots |-> MapEntries[k]]
    BY <1>1, SMT DEF MapEntries
  <2> QED  BY <2>1, <2>2
<1>3. HighEntries = [k \in 1 .. 128 |-> HighEntries[k]]
  BY <1>1, SMT DEF HighEntries, BlockEntries
<1>4. Len(LowEntries) = PageSlots /\ Len(MapEntries) = PageSlots
  BY <1>1, <1>2, LenOf
<1>5. Len(HighEntries) = 128
  BY <1>1, <1>3, LenOf
<1> QED
  BY <1>4, <1>5, Sizes

LEMMA SetTbl1Step ==
  ASSUME TableInv, DramIsTrained, SetTbl1
  PROVE  TableInv'
<1>1. pc = "tl1_lp" /\ pc' = "repair" /\ StoreLoop(2, HighEntries) /\ n' = n
  BY DEF SetTbl1, HighEntries
<1>2. image' = image /\ mmu' = mmu /\ image # "memtester_c" /\ n = 0 /\ 2 \in Pages
  BY <1>1, Sizes DEF TableInv, StoreLoop, Statements, Built, Running
<1>3. TableMemoryWorks
  BY <1>1, Works DEF Early
<1>4. Len(HighEntries) = 128
  BY LengthsOfTables
<1>5. \A s \in Slots : s < 128 => Stored(2, s)' = HighEntries[s + 1]
  BY <1>1, <1>2, SameEntries, SMT
     DEF Stored, Reached, SecondTableWord, Early, Built, Running
<1>6. \A p \in Pages, s \in Slots : ~(p = 2 /\ s < 128) => Stored(p, s)' = Stored(p, s)
  BY <1>1, <1>2, SameEntries, Sizes, SMT
     DEF Stored, Reached, RootWord, FirstTableWord, SecondTableWord, Early, Built, Running
<1>7. /\ Holds(memory, buffer, Table)'
      /\ \A k \in 1 .. Len(buffer') : buffer'[k].at[1] = 2
  <2>1. Len(HighEntries) \in Nat /\ DEPTH <= Len(HighEntries) /\ Len(HighEntries) <= 512
    BY <1>4, DepthIsSmall
  <2>2. \A s \in Slots : s < Len(HighEntries) => Stored(2, s)' = HighEntries[s + 1]
    BY <1>4, <1>5
  <2>3. \A p \in Pages, s \in Slots :
           ~(p = 2 /\ s < Len(HighEntries)) => Stored(p, s)' = Stored(p, s)
    BY <1>4, <1>6
  <2>4. StoreLoop(2, HighEntries) /\ 2 \in Pages
    BY <1>1, <1>2
  <2>5. Holds(memory, buffer, Table)'
    BY <1>3, <2>1, <2>2, <2>3, <2>4, LoopStep
  <2>6. \A k \in 1 .. Len(buffer') : buffer'[k].at[1] = 2
    BY <1>3, <2>1, <2>2, <2>3, <2>4, LoopStep
  <2> QED  BY <2>5, <2>6
<1>8. OnTheWay' /\ RootIsLast' /\ pc' \in Statements'
  BY <1>1, <1>2, <1>7 DEF OnTheWay, RootIsLast, Statements, Early, Built, Running
<1> QED
  BY <1>1, <1>2, <1>7, <1>8, BuildControl DEF Running

LEMMA SetTbl2Step ==
  ASSUME TableInv, DramIsTrained, SetTbl2
  PROVE  TableInv'
<1>1. pc = "tl2_lp" /\ pc' = "enable" /\ StoreLoop(1, LowEntries) /\ n' = n
  BY DEF SetTbl2, LowEntries
<1>2. image' = image /\ mmu' = mmu /\ image # "memtester_c" /\ n = 0 /\ 1 \in Pages
  BY <1>1, Sizes DEF TableInv, StoreLoop, Statements, Built, Running
<1>3. TableMemoryWorks
  BY <1>1, Works DEF Early
<1>4. Len(LowEntries) = 512
  BY LengthsOfTables
<1>5. \A s \in Slots : Stored(1, s)' = LowEntries[s + 1]
  BY <1>1, <1>2, SameEntries, SMT
     DEF Stored, Reached, FirstTableWord, Early, Built, Running
<1>6. \A p \in Pages, s \in Slots : p # 1 => Stored(p, s)' = Stored(p, s)
  BY <1>1, <1>2, SameEntries, Sizes, SMT
     DEF Stored, Reached, RootWord, FirstTableWord, SecondTableWord, Early, Built, Running
<1>7. /\ Holds(memory, buffer, Table)'
      /\ \A k \in 1 .. Len(buffer') : buffer'[k].at[1] = 1 /\ buffer'[k].at[2] >= 512 - DEPTH
  <2>1. Len(LowEntries) \in Nat /\ DEPTH <= Len(LowEntries) /\ Len(LowEntries) <= 512
    BY <1>4, DepthIsSmall
  <2>2. \A s \in Slots : s < Len(LowEntries) => Stored(1, s)' = LowEntries[s + 1]
    BY <1>4, <1>5
  <2>3. \A p \in Pages, s \in Slots :
           ~(p = 1 /\ s < Len(LowEntries)) => Stored(p, s)' = Stored(p, s)
    BY <1>4, <1>6, Sizes
  <2>4. StoreLoop(1, LowEntries) /\ 1 \in Pages
    BY <1>1, <1>2
  <2>5. Holds(memory, buffer, Table)'
    BY <1>3, <2>1, <2>2, <2>3, <2>4, LoopStep
  <2>6. \A k \in 1 .. Len(buffer') : buffer'[k].at[1] = 1 /\ buffer'[k].at[2] >= Len(LowEntries) - DEPTH
    BY <1>3, <2>1, <2>2, <2>3, <2>4, LoopStep
  <2> QED  BY <2>5, <2>6, <1>4
<1>8. OnTheWay' /\ RootIsLast' /\ pc' \in Statements'
  BY <1>1, <1>2, <1>7, Sizes DEF OnTheWay, RootIsLast, Statements, Early, Built, Running
<1> QED
  BY <1>1, <1>2, <1>7, <1>8, BuildControl DEF Running

LEMMA MapLoopStep ==
  ASSUME TableInv, DramIsTrained, MapLoop
  PROVE  TableInv'
<1>1. pc = "map_lp" /\ pc' = "root" /\ StoreLoop(1, MapEntries) /\ n' = n
  BY DEF MapLoop
<1>2. image' = image /\ mmu' = mmu /\ image = "memtester_c" /\ n = 0 /\ 1 \in Pages
  BY <1>1, Sizes DEF TableInv, StoreLoop, Statements, Built, Running, Early
<1>3. TableMemoryWorks
  BY <1>1, Works DEF Early
<1>4. Len(MapEntries) = 512
  BY LengthsOfTables
<1>5. \A s \in Slots : Stored(1, s)' = MapEntries[s + 1]
  BY <1>1, <1>2, SMT DEF Stored, Reached, FirstTableWord, Early, Built, Running
<1>6. \A p \in Pages, s \in Slots : p # 1 => Stored(p, s)' = Stored(p, s)
  BY <1>1, <1>2, SameEntries, Sizes, SMT
     DEF Stored, Reached, RootWord, FirstTableWord, SecondTableWord, Early, Built, Running
<1>7. /\ Holds(memory, buffer, Table)'
      /\ \A k \in 1 .. Len(buffer') : buffer'[k].at[1] = 1
  <2>1. Len(MapEntries) \in Nat /\ DEPTH <= Len(MapEntries) /\ Len(MapEntries) <= 512
    BY <1>4, DepthIsSmall
  <2>2. \A s \in Slots : s < Len(MapEntries) => Stored(1, s)' = MapEntries[s + 1]
    BY <1>4, <1>5
  <2>3. \A p \in Pages, s \in Slots :
           ~(p = 1 /\ s < Len(MapEntries)) => Stored(p, s)' = Stored(p, s)
    BY <1>4, <1>6, Sizes
  <2>4. StoreLoop(1, MapEntries) /\ 1 \in Pages
    BY <1>1, <1>2
  <2>5. Holds(memory, buffer, Table)'
    BY <1>3, <2>1, <2>2, <2>3, <2>4, LoopStep
  <2>6. \A k \in 1 .. Len(buffer') : buffer'[k].at[1] = 1
    BY <1>3, <2>1, <2>2, <2>3, <2>4, LoopStep
  <2> QED  BY <2>5, <2>6, <1>4
<1>8. OnTheWay' /\ RootIsLast' /\ pc' \in Statements'
  BY <1>1, <1>2, <1>7 DEF OnTheWay, RootIsLast, Statements, Early, Built, Running
<1> QED
  BY <1>1, <1>2, <1>7, <1>8, BuildControl DEF Running


----------------------------------------------------------------------------
(* The other steps, and the invariant.                                      *)

LEMMA BufferedPc ==
  ASSUME TableInv, buffer # << >>
  PROVE  pc \notin Early
<1>1. Len(buffer) # 0
  BY Buffered, EmptySeq
<1> QED
  BY <1>1, Buffered

LEMMA DrainStep ==
  ASSUME TableInv, DramIsTrained, Drain
  PROVE  TableInv'
<1>1. /\ buffer # << >> /\ buffer' = Tail(buffer) /\ UNCHANGED <<image, pc, n, mmu>>
      /\ TableMemoryWorks =>
            memory' = [memory EXCEPT ![Head(buffer).at[1]][Head(buffer).at[2]] = Head(buffer).word]
  BY DEF Drain
<1>2. TableMemoryWorks
  BY <1>1, BufferedPc, Works
<1>3. Table' = Table
  <2>1. \A p \in Pages, s \in Slots : Stored(p, s)' = Stored(p, s)
    BY <1>1, SameWords
  <2> QED  BY <2>1 DEF Table
<1>4. Holds(memory, buffer, Table)
  BY DEF TableInv
<1>5. Holds(memory', buffer', Table)
  BY <1>1, <1>2, <1>4, OldestArrives
<1>6. Holds(memory, buffer, Table)'
  BY <1>3, <1>5, HoldsNext
<1>7. /\ Len(buffer) \in Nat /\ Len(buffer') = Len(buffer) - 1
      /\ \A k \in 1 .. Len(buffer') : buffer'[k] = buffer[k + 1]
  <2>1. buffer \in Seq(StoresOf(Table))
    BY Buffered
  <2> QED  BY <1>1, <2>1, HeadTailProperties, LenProperties
<1>8. OnTheWay'
  <2>1. \A k \in 1 .. Len(buffer') : k + 1 \in 1 .. Len(buffer)
    BY <1>7
  <2>2. OnTheWay
    BY DEF TableInv
  <2>3. PageSlots' = PageSlots /\ image' = image /\ pc' = pc
    BY <1>1 DEF PageSlots
  <2> QED  BY <1>7, <2>1, <2>2, <2>3 DEF OnTheWay
<1>9. RootIsLast'
  <2> SUFFICES ASSUME image' = "memtester_c", pc' \in Built, buffer' # << >>
               PROVE  buffer'[Len(buffer')].at = <<0, 0>>
    BY DEF RootIsLast, Built, Running
  <2>1. Len(buffer') # 0
    <3>1. buffer' \in Seq(StoresOf(Table'))
      BY <1>6 DEF Holds
    <3> QED  BY <3>1, EmptySeq
  <2>2. Len(buffer') \in 1 .. Len(buffer') /\ Len(buffer') + 1 = Len(buffer)
    BY <1>7, <2>1
  <2>3. buffer'[Len(buffer')] = buffer[Len(buffer)]
    BY <1>7, <2>2
  <2> QED  BY <1>1, <2>3 DEF TableInv, RootIsLast
<1>10. pc' \in Statements'
  BY <1>1 DEF TableInv, Statements
<1> QED
  BY <1>1, <1>6, <1>8, <1>9, <1>10 DEF TableInv

LEMMA EnableStep ==
  ASSUME TableInv, mmu_enable
  PROVE  TableInv'
BY AfterBuild DEF mmu_enable, TableInv, Built, Running

LEMMA AccessStep ==
  ASSUME TableInv, Access
  PROVE  TableInv'
<1>1. /\ pc = "access" /\ UNCHANGED <<image, buffer, memory, mmu>>
      /\ \/ n + 1 < Len(Accesses) /\ n' = n + 1 /\ pc' = "access"
         \/ n' = 0 /\ pc' = IF image = "mmu_c" THEN "copy" ELSE "end"
         \/ n' = n /\ pc' = "fault"
  BY DEF Access
<1>2. image \in Images /\ n \in Nat /\ mmu \in BOOLEAN
  BY DEF TableInv
<1>3. Len(Accesses) = IF image = "memtester_c" THEN 5 ELSE 2
  BY <1>2 DEF Accesses, Images
<1>4. n' \in Nat /\ (pc' = "access" => n' \in 0 .. 4 /\ (image # "memtester_c" => n' \in 0 .. 1))
  BY <1>1, <1>2, <1>3
<1>5. pc \in Built /\ pc' \in Running
  BY <1>1 DEF Built, Running
<1>6. (pc' \notin {"access", "fault"} => n' = 0) /\ (pc' = "copy" => image = "mmu_c")
  BY <1>1
<1> QED
  BY <1>1, <1>2, <1>4, <1>5, <1>6, AfterBuild

LEMMA CopyStep ==
  ASSUME TableInv, mc_memcpy \/ NextCopy
  PROVE  TableInv'
<1>1. pc = "copy" /\ UNCHANGED tableVars /\ pc' \in {"copy", "fault", "end"}
  BY DEF mc_memcpy, NextCopy
<1>2. UNCHANGED <<image, n, buffer, memory, mmu>>
  BY <1>1 DEF tableVars
<1>3. n = 0 /\ image = "mmu_c" /\ mmu \in BOOLEAN
  BY <1>1 DEF TableInv
<1>4. pc \in Built /\ pc' \in Running /\ n' \in Nat
  BY <1>1, <1>2, <1>3 DEF Built, Running
<1> QED
  BY <1>1, <1>2, <1>3, <1>4, AfterBuild

LEMMA TableInit ==
  ASSUME Init
  PROVE  TableInv
<1>1. /\ image \in Images /\ n = 0 /\ buffer = << >> /\ mmu = FALSE
      /\ memory = [p \in Pages |-> [s \in Slots |-> Before]]
      /\ pc = IF image = "mmu_c" THEN "entry" ELSE "cloop"
  BY DEF Init, TableStart
<1>2. \A p \in Pages : ~Reached(p)
  <2>1. \A p \in Pages : ~(p < 0)
    BY DEF Pages
  <2>2. pc \in Early \/ pc = "cloop"
    BY <1>1 DEF Early
  <2> QED  BY <1>1, <2>1, <2>2 DEF Reached
<1>3. \A p \in Pages, s \in Slots : memory[p][s] = Stored(p, s)
  BY <1>1, <1>2 DEF Stored
<1>4. Len(buffer) = 0 /\ buffer \in Seq(StoresOf(Table))
  BY <1>1, EmptySeq
<1>5. \A x \in Pages \X Slots : memory[x[1]][x[2]] = Table[x]
  BY <1>3 DEF Table
<1>6. DOMAIN memory = Pages /\ \A p \in Pages : DOMAIN memory[p] = Slots
  BY <1>1
<1>7. Holds(memory, buffer, Table)
  BY <1>4, <1>5, <1>6 DEF Holds
<1>8. OnTheWay /\ RootIsLast
  BY <1>1, <1>4 DEF OnTheWay, RootIsLast
<1>9. pc \in Statements /\ n \in Nat /\ n \in 0 .. 2 /\ pc \notin {"access", "copy"}
  BY <1>1 DEF Statements, Early, Built, Running, Images
<1> QED
  BY <1>1, <1>7, <1>8, <1>9 DEF TableInv

\* Every step of the program, the controller and the memory.
LEMMA TableStep ==
  ASSUME TableInv, DramIsTrained, [Next]_vars
  PROVE  TableInv'
<1>1. CASE dram_init /\ UNCHANGED <<tableVars, copyVars>>
  BY <1>1, DramStep DEF tableVars
<1>2. CASE Build
  BY <1>2, ClearStep, SetTbl0Step, SetTbl0NextStep, SetTbl1Step, RepairStep, SetTbl2Step,
     MapLoopStep, MapRootStep, EnableStep DEF Build
<1>3. CASE Access
  BY <1>3, AccessStep
<1>4. CASE mc_memcpy \/ NextCopy
  BY <1>4, CopyStep
<1>5. CASE Hardware /\ UNCHANGED <<tableVars, copyVars>>
  <2>1. UNCHANGED <<pc, image, n, buffer, memory, mmu>>
    BY <1>5 DEF Hardware, Answer, Lock, tableVars
  <2> QED  BY <2>1, SameStep
<1>6. CASE Drain
  BY <1>6, DrainStep
<1>7. CASE UNCHANGED vars
  <2>1. UNCHANGED <<pc, image, n, buffer, memory, mmu>>
    BY <1>7 DEF vars, tableVars
  <2> QED  BY <2>1, SameStep
<1> QED
  BY <1>1, <1>2, <1>3, <1>4, <1>5, <1>6, <1>7 DEF Next, Program, Bus

----------------------------------------------------------------------------
(* What the tables are for.                                                 *)

LEMMA NothingMissing ==
  ASSUME TableInv, buffer = << >>
  PROVE  \A b \in Blocks : Arrived(b)
<1>1. \A x \in Pages \X Slots : memory[x[1]][x[2]] = Table[x]
  BY AllArrived DEF TableInv
<1>2. \A p \in Pages, s \in Slots : memory[p][s] = Stored(p, s)
  <2> TAKE p \in Pages, s \in Slots
  <2>1. Table[<<p, s>>] = Stored(p, s)
    BY DEF Table
  <2> QED  BY <1>1, <2>1
<1> TAKE b \in Blocks
<1>3. b \div PageSlots \in Slots /\ b % PageSlots \in Slots
  <2>1. b \div PageSlots \in 0 .. 63 /\ b % PageSlots \in 0 .. 511
    BY BlockNumbers
  <2>2. \A x \in 0 .. 63 : x \in Slots
    BY Sizes
  <2> QED  BY <2>1, <2>2, Sizes
<1>4. 0 \in Pages /\ 1 \in Pages /\ 2 \in Pages
  BY Sizes
<1> QED
  BY <1>2, <1>3, <1>4 DEF Arrived

LEMMA MapFollows ==
  ASSUME TableInv
  PROVE  MapIsRight
<1> SUFFICES ASSUME mmu, buffer = << >>, NEW b \in Blocks PROVE Walk(b) = Meant(b)
  BY DEF MapIsRight
<1>1. image \in Images /\ pc \in Running
  BY DEF TableInv
<1>2. Arrived(b)
  BY NothingMissing
<1> QED
  BY <1>1, <1>2, WalkIs

\* The tables that mmu_start (mmus.S of mmu_c, asm.S of mmu_s) and
\* mmu_table_map build map each block as meant once their stores have arrived,
\* for every depth of the store buffer below the shortest loop.
THEOREM MapCorrect == Spec => []MapIsRight
<1>1. Init => TableInv
  BY TableInit
<1>2. TableInv /\ DramIsTrained /\ [Next]_vars => TableInv'
  BY TableStep
<1>3. TableInv => MapIsRight
  BY MapFollows
<1>4. Spec => []DramIsTrained
  BY DramTrained
<1> QED
  BY <1>1, <1>2, <1>3, <1>4, PTL DEF Spec

\* The entries that the program uses first have arrived when it uses them:
\* no more than DEPTH stores are on their way, to the end of the first table.
LEMMA FirstUsesArrive ==
  ASSUME TableInv, pc \in Running, image # "memtester_c", NEW b \in {0, 528, 536, 2560}
  PROVE  Arrived(b)
<1>1. PICK t, s : t = b \div PageSlots /\ s = b % PageSlots /\ t \in {0, 1, 5} /\ s \in {0, 16, 24}
  BY Sizes, SMT
<1>2. t \in Slots /\ s \in Slots /\ {0, 1, 2} = Pages
  BY <1>1, Sizes, SMT
<1>3. ASSUME NEW k \in 1 .. Len(buffer)
      PROVE  buffer[k].at[1] = 1 /\ buffer[k].at[2] >= PageSlots - DEPTH
  BY DEF TableInv, OnTheWay, Built
<1>4. PageSlots - DEPTH > t /\ PageSlots - DEPTH > s
  BY <1>1, DepthIsSmall, Sizes, SMT
<1>5. ASSUME NEW p \in Pages, NEW r \in {t, s}
      PROVE  memory[p][r] = Stored(p, r)
  <2>1. <<p, r>> \in Pages \X Slots
    BY <1>2, <1>5
  <2>2. \A k \in 1 .. Len(buffer) : buffer[k].at # <<p, r>>
    <3> SUFFICES ASSUME NEW k \in 1 .. Len(buffer), buffer[k].at = <<p, r>> PROVE FALSE
      OBVIOUS
    <3>1. r >= PageSlots - DEPTH
      BY <1>3
    <3> QED  BY <3>1, <1>1, <1>4, <1>5, DepthIsSmall, Sizes
  <2>3. memory[p][r] = Table[<<p, r>>]
    BY <2>1, <2>2 DEF TableInv, Holds
  <2>4. Table[<<p, r>>] = Stored(p, r)
    BY <2>1 DEF Table
  <2> QED  BY <2>3, <2>4
<1> QED
  BY <1>1, <1>2, <1>5 DEF Arrived

\* Where the accesses of each program go, and how.
LEMMA AccessesAre ==
  ASSUME TableInv, pc = "access"
  PROVE  /\ Accesses[n + 1] \in Blocks
         /\ image # "memtester_c" => Accesses[n + 1] \in {0, 2560}
         /\ Meant(Accesses[n + 1]).kind # "fault"
         /\ n = 0 => ~Meant(Accesses[n + 1]).xn
<1>1. CASE image = "mmu_c"
  <2>1. Accesses[n + 1] = 0
    BY <1>1 DEF TableInv, Accesses
  <2> QED  BY <1>1, <2>1, SMT DEF Blocks, Meant
<1>2. CASE image = "mmu_s"
  <2>1. Accesses[n + 1] \in {0, 2560}
    BY <1>2, SMT DEF TableInv, Accesses
  <2>2. 0 \in Blocks /\ 2560 \in Blocks
    BY <1>2, SMT DEF Blocks
  <2>3. /\ Meant(0).kind = "normal" /\ ~Meant(0).xn
        /\ Meant(2560).kind = "normal" /\ ~Meant(2560).xn
    BY <1>2, SMT DEF Meant
  <2>4. CASE Accesses[n + 1] = 0
    BY <1>2, <2>2, <2>3, <2>4
  <2>5. CASE Accesses[n + 1] = 2560
    BY <1>2, <2>2, <2>3, <2>5
  <2> QED  BY <2>1, <2>4, <2>5, SMT
<1>3. CASE image = "memtester_c"
  <2>1. PICK b : b = Accesses[n + 1] /\ b \in {0, 130, 193, 18, 388} /\ (n = 0 => b = 0)
    BY <1>3, SMT DEF TableInv, Accesses
  <2>2. b \in Blocks /\ b < 512
    BY <1>3, <2>1, SMT DEF Blocks
  <2>3. CASE b = 0
    <3>1. Meant(b).kind = "normal" /\ ~Meant(b).xn
      BY <1>3, <2>3, SMT DEF Meant
    <3> QED  BY <1>3, <2>1, <2>2, <3>1
  <2>4. CASE b # 0
    <3>1. Meant(b).kind \in {"normal", "device"}
      BY <1>3, <2>2, SMT DEF Meant
    <3> QED  BY <1>3, <2>1, <2>2, <2>4, <3>1
  <2> QED  BY <2>3, <2>4
<1> QED
  BY <1>1, <1>2, <1>3 DEF TableInv, Images

FaultIsLate ==
    pc' = "fault" /\ pc # "fault" =>
        image = "memtester_c" /\ \E k \in 1 .. Len(buffer) : buffer[k].at = <<0, 0>>

LEMMA AccessFault ==
  ASSUME TableInv, Access
  PROVE  FaultIsLate
<1>1. pc = "access" /\ (pc' = "fault" => ~Permitted(Accesses[n + 1], n = 0))
  BY DEF Access
<1> SUFFICES ASSUME ~(image = "memtester_c" /\ \E k \in 1 .. Len(buffer) : buffer[k].at = <<0, 0>>)
             PROVE  Permitted(Accesses[n + 1], n = 0)
  BY <1>1 DEF FaultIsLate
<1>2. PICK b \in Blocks : b = Accesses[n + 1]
  BY <1>1, AccessesAre
<1>3. image \in Images /\ pc \in Running
  BY <1>1 DEF TableInv, Running
<1>4. Arrived(b)
  <2>1. CASE image # "memtester_c"
    BY <1>1, <1>2, <1>3, <2>1, AccessesAre, FirstUsesArrive
  <2>2. CASE image = "memtester_c"
    <3>1. ASSUME buffer # << >> PROVE FALSE
      <4>1. buffer[Len(buffer)].at = <<0, 0>>
        BY <1>3, <2>2, <3>1 DEF TableInv, RootIsLast, Built
      <4>2. Len(buffer) \in 1 .. Len(buffer)
        BY <3>1, Buffered, EmptySeq
      <4> QED  BY <4>1, <4>2, <2>2
    <3> QED  BY <3>1, NothingMissing
  <2> QED  BY <2>1, <2>2
<1>5. Walk(b) = Meant(b)
  BY <1>3, <1>4, WalkIs
<1>6. Meant(b).kind # "fault" /\ (n = 0 => ~Meant(b).xn)
  BY <1>1, <1>2, AccessesAre
<1> QED
  BY <1>2, <1>5, <1>6 DEF Permitted

LEMMA CopyFault ==
  ASSUME TableInv, mc_memcpy
  PROVE  FaultIsLate
<1>1. pc = "copy" /\ (pc' = "fault" => Walk(SrcBlock).kind = "fault" \/ Walk(DestBlock).kind = "fault")
  BY DEF mc_memcpy
<1>2. image = "mmu_c" /\ pc \in Running
  BY <1>1 DEF TableInv, Running
<1>3. ASSUME NEW b \in {528, 536} PROVE Walk(b).kind = "normal"
  <2>1. Arrived(b)
    BY <1>2, FirstUsesArrive
  <2>2. b \in Blocks /\ image \in Images
    BY <1>2, SMT DEF Blocks, Images
  <2>3. Walk(b) = Meant(b)
    BY <1>2, <2>1, <2>2, WalkIs
  <2>4. Meant(b).kind = "normal"
    BY <1>2, SMT DEF Meant
  <2> QED  BY <2>3, <2>4
<1> QED
  BY <1>1, <1>3 DEF FaultIsLate, SrcBlock, DestBlock

LEMMA FaultStep ==
  ASSUME TableInv, [Next]_vars
  PROVE  FaultIsLate
<1>1. CASE Access
  BY <1>1, AccessFault DEF Access
<1>2. CASE mc_memcpy
  BY <1>2, CopyFault
<1>3. CASE dram_init \/ Build
  <2>1. CASE dram_init
    BY <2>1 DEF dram_init, WriteEntry, UnmarkEntry, Poll, NextEntry, FaultIsLate
  <2>2. CASE Clear \/ SetTbl0 \/ SetTbl0Next \/ SetTbl1 \/ Repair
    BY <2>2 DEF Clear, SetTbl0, SetTbl0Next, SetTbl1, Repair, FaultIsLate
  <2>3. CASE SetTbl2 \/ MapLoop \/ MapRoot \/ mmu_enable
    BY <2>3 DEF SetTbl2, MapLoop, MapRoot, mmu_enable, FaultIsLate
  <2> QED  BY <1>3, <2>1, <2>2, <2>3 DEF Build
<1>4. CASE NextCopy
  BY <1>4 DEF NextCopy, FaultIsLate
<1>5. CASE (Hardware /\ UNCHANGED <<tableVars, copyVars>>) \/ Drain \/ UNCHANGED vars
  <2>1. pc' = pc
    BY <1>5 DEF Hardware, Answer, Lock, Drain, vars
  <2> QED  BY <2>1 DEF FaultIsLate
<1> QED
  BY <1>1, <1>2, <1>3, <1>4, <1>5 DEF Next, Program, Bus

\* No access faults before the tables have arrived, although nothing waits for
\* them (mmus.S 87), but for the entry of the root that memtester_c stores last
\* (main.c 209).
THEOREM NoEarlyFault == Spec => FaultOnlyOnLateRoot
<1>1. Init => TableInv
  BY TableInit
<1>2. TableInv /\ DramIsTrained /\ [Next]_vars => TableInv'
  BY TableStep
<1>3. TableInv /\ [Next]_vars => [FaultIsLate]_vars
  BY FaultStep
<1>4. Spec => []DramIsTrained
  BY DramTrained
<1> QED
  BY <1>1, <1>2, <1>3, <1>4, PTL DEF Spec, FaultOnlyOnLateRoot, FaultIsLate


----------------------------------------------------------------------------
(* The ranges of the counters, and the copy.                                *)

\* The bytes that the copies made so far and the current one have covered.
Copied(w) == w < WORDS /\ (copies > 0 \/ 8 * w < offset)

\* The inductive invariant: what the copies have covered is src, the rest is
\* what it was; nothing is copied before pc comes to it.
CopyInv ==
    /\ Len(buffer) <= DEPTH
    /\ pc = "fault" => n \in 0 .. 4
    /\ offset \in 0 .. SIZE /\ offset % 8 = 0
    /\ copies \in 0 .. COPIES /\ (pc = "copy" => copies < COPIES)
    /\ pc \notin {"copy", "end", "fault"} => copies = 0
    /\ image = "mmu_c" /\ pc = "end" => copies = COPIES
    /\ dest \in [0 .. WORDS -> 0 .. WORDS + 1]
    /\ \A w \in 0 .. WORDS : dest[w] = IF Copied(w) THEN src[w] ELSE 0

LEMMA SizeIs == SIZE \in Nat /\ WORDS \in Nat /\ SIZE = 8 * WORDS /\ WORDS > 0 /\ COPIES \in Nat /\ COPIES > 0
BY MmuAssumption DEF WORDS

LEMMA CopyStarts ==
  ASSUME Init
  PROVE  CopyInv
<1>1. /\ buffer = << >> /\ dest = [w \in 0 .. WORDS |-> 0] /\ offset = 0 /\ copies = 0
      /\ pc \in {"entry", "cloop"}
  BY DEF Init, TableStart
<1>2. Len(buffer) <= DEPTH
  BY <1>1, MmuAssumption
<1>3. dest \in [0 .. WORDS -> 0 .. WORDS + 1]
  BY <1>1, SizeIs
<1>4. \A w \in 0 .. WORDS : dest[w] = IF Copied(w) THEN src[w] ELSE 0
  BY <1>1, SizeIs DEF Copied
<1> QED
  BY <1>1, <1>2, <1>3, <1>4, SizeIs DEF CopyInv

\* Only the loop of mc_memcpy and the end of a copy change what is copied.
LEMMA NoCopyStep ==
  ASSUME CopyInv, UNCHANGED copyVars, Len(buffer') <= DEPTH,
         pc' = "fault" => n' \in 0 .. 4,
         pc' = "copy" => copies < COPIES,
         pc' \notin {"copy", "end", "fault"} => copies = 0,
         image' = "mmu_c" /\ pc' = "end" => copies = COPIES
  PROVE  CopyInv'
<1>1. dest' = dest /\ offset' = offset /\ copies' = copies
  BY DEF copyVars
<1>2. \A w \in 0 .. WORDS : dest'[w] = IF Copied(w)' THEN src[w] ELSE 0
  BY <1>1 DEF CopyInv, Copied
<1>3. WORDS' = WORDS /\ src' = src
  BY DEF WORDS, src
<1> QED
  BY <1>1, <1>2, <1>3 DEF CopyInv

LEMMA WordCopied ==
  ASSUME CopyInv, pc = "copy", offset < SIZE,
         dest' = [dest EXCEPT ![offset \div 8] = src[offset \div 8]], offset' = offset + 8,
         UNCHANGED <<pc, dramVars, tableVars, copies>>
  PROVE  CopyInv'
<1> DEFINE k == offset \div 8
<1>1. offset \in Nat /\ offset % 8 = 0 /\ offset <= SIZE
  BY SizeIs DEF CopyInv
<1>2. k \in Nat /\ offset = 8 * k /\ k < WORDS /\ k \in 0 .. WORDS
  BY <1>1, SizeIs, SMT
<1> HIDE DEF k
<1>3. offset' = 8 * (k + 1) /\ offset' \in 0 .. SIZE /\ offset' % 8 = 0
  BY <1>2, SizeIs, SMT
<1>4. dest' = [dest EXCEPT ![k] = src[k]]
  BY DEF k
<1>5. src[k] = k + 1 /\ k + 1 \in 0 .. WORDS + 1
  BY <1>2, SizeIs DEF src
<1>6. dest' \in [0 .. WORDS -> 0 .. WORDS + 1]
  BY <1>4, <1>5 DEF CopyInv
<1>7. ASSUME NEW w \in 0 .. WORDS PROVE dest'[w] = IF Copied(w)' THEN src[w] ELSE 0
  <2>0. w \in Nat /\ copies' = copies
    BY SizeIs
  <2>1. CASE w = k
    <3>1. Copied(w)'
      BY <1>2, <1>3, <2>0, <2>1, SMT DEF Copied, WORDS
    <3>2. dest'[w] = src[w]
      BY <1>2, <1>4, <2>1 DEF CopyInv
    <3> QED  BY <3>1, <3>2
  <2>2. CASE w # k
    <3>1. Copied(w)' <=> Copied(w)
      BY <1>2, <1>3, <2>0, <2>2, SMT DEF Copied, WORDS
    <3>2. dest'[w] = dest[w]
      BY <1>2, <1>4, <2>2 DEF CopyInv
    <3> QED  BY <3>1, <3>2 DEF CopyInv
  <2> QED  BY <2>1, <2>2
<1>8. WORDS' = WORDS /\ src' = src
  BY DEF WORDS, src
<1>9. buffer' = buffer /\ image' = image /\ n' = n /\ pc' = pc /\ copies' = copies
  BY DEF tableVars
<1> QED
  BY <1>3, <1>6, <1>7, <1>8, <1>9 DEF CopyInv

LEMMA CopyDone ==
  ASSUME CopyInv, NextCopy
  PROVE  CopyInv'
<1>1. /\ pc = "copy" /\ offset >= SIZE /\ offset' = 0 /\ copies' = copies + 1
      /\ pc' = IF copies' < COPIES THEN "copy" ELSE "end"
      /\ dest' = dest /\ buffer' = buffer /\ image' = image /\ n' = n
  BY DEF NextCopy, tableVars
<1>2. copies \in Nat /\ copies < COPIES /\ offset = SIZE
  BY <1>1, SizeIs DEF CopyInv
<1>3. copies' \in 0 .. COPIES /\ copies' > 0 /\ (pc' = "end" => copies' = COPIES)
  BY <1>1, <1>2, SizeIs
<1>4. ASSUME NEW w \in 0 .. WORDS PROVE Copied(w)' <=> Copied(w)
  <2>1. w \in Nat
    BY SizeIs
  <2>2. Copied(w)' <=> w < WORDS
    BY <1>3 DEF Copied, WORDS
  <2>3. Copied(w) <=> w < WORDS
    BY <1>2, <2>1, SizeIs DEF Copied
  <2> QED  BY <2>2, <2>3
<1>5. \A w \in 0 .. WORDS : dest'[w] = IF Copied(w)' THEN src[w] ELSE 0
  BY <1>1, <1>4 DEF CopyInv
<1>6. WORDS' = WORDS /\ src' = src
  BY DEF WORDS, src
<1>7. offset' \in 0 .. SIZE /\ offset' % 8 = 0
  BY <1>1, SizeIs
<1>8. pc' \in {"copy", "end"} /\ (pc' = "copy" => copies' < COPIES)
  BY <1>1
<1> QED
  BY <1>1, <1>3, <1>5, <1>6, <1>7, <1>8 DEF CopyInv

\* No more than DEPTH stores are on their way.
LEMMA LoopLength ==
  ASSUME NEW page, NEW word, StoreLoop(page, word)
  PROVE  Len(buffer') <= DEPTH
<1>1. PICK late \in 0 .. DEPTH :
         buffer' = [k \in 1 .. late |-> [at |-> <<page, Len(word) - late + k - 1>>,
                                         word |-> word[Len(word) - late + k]]]
  BY DEF StoreLoop
<1>2. late \in Nat /\ late <= DEPTH
  BY DepthIsSmall
<1>3. Len(buffer') = late
  BY <1>1, <1>2, LenOf
<1> QED
  BY <1>2, <1>3

LEMMA StoreLength ==
  ASSUME NEW page, NEW slot, NEW word, TableInv, Store(page, slot, word)
  PROVE  Len(buffer') <= DEPTH
<1>1. Len(buffer) < DEPTH /\ buffer' = Append(buffer, [at |-> <<page, slot>>, word |-> word])
  BY DEF Store
<1>2. Len(buffer) \in Nat /\ Len(buffer') = Len(buffer) + 1
  <2>1. buffer \in Seq(StoresOf(Table))
    BY Buffered
  <2> DEFINE st == [at |-> <<page, slot>>, word |-> word]
  <2>2. buffer \in Seq(StoresOf(Table) \cup {st}) /\ st \in StoresOf(Table) \cup {st}
    BY <2>1, InSeq, ElementOfSeq
  <2> HIDE DEF st
  <2>3. Len(Append(buffer, st)) = Len(buffer) + 1
    BY <2>2, AppendProperties
  <2> QED  BY <1>1, <2>1, <2>3, LenProperties DEF st
<1> QED
  BY <1>1, <1>2, DepthIsSmall

LEMMA BuildLength ==
  ASSUME TableInv, CopyInv, Build
  PROVE  /\ Len(buffer') <= DEPTH /\ image' = image
         /\ pc \notin {"copy", "end", "fault"} /\ pc' \notin {"copy", "end", "fault"}
<1>1. CASE Clear
  <2>1. Len(buffer') <= DEPTH
    BY <1>1, LoopLength DEF Clear
  <2> QED  BY <1>1, <2>1 DEF Clear, StoreLoop
<1>2. CASE SetTbl0 \/ SetTbl0Next \/ Repair \/ MapRoot
  <2>1. Len(buffer') <= DEPTH
    BY <1>2, StoreLength DEF SetTbl0, SetTbl0Next, Repair, MapRoot
  <2> QED  BY <1>2, <2>1 DEF SetTbl0, SetTbl0Next, Repair, MapRoot, Store
<1>3. CASE SetTbl1 \/ SetTbl2 \/ MapLoop
  <2>1. Len(buffer') <= DEPTH
    BY <1>3, LoopLength DEF SetTbl1, SetTbl2, MapLoop
  <2> QED  BY <1>3, <2>1 DEF SetTbl1, SetTbl2, MapLoop, StoreLoop
<1>4. CASE mmu_enable
  BY <1>4 DEF mmu_enable, CopyInv
<1> QED
  BY <1>1, <1>2, <1>3, <1>4 DEF Build

LEMMA DrainLength ==
  ASSUME TableInv, CopyInv, Drain
  PROVE  Len(buffer') <= DEPTH
<1>1. buffer # << >> /\ buffer' = Tail(buffer) /\ buffer \in Seq(StoresOf(Table))
  BY Buffered DEF Drain
<1>2. Len(buffer') = Len(buffer) - 1 /\ Len(buffer) \in Nat
  BY <1>1, HeadTailProperties, LenProperties
<1> QED
  BY <1>2, DepthIsSmall DEF CopyInv

LEMMA CopyInvStep ==
  ASSUME TableInv, CopyInv, [Next]_vars
  PROVE  CopyInv'
<1>0. /\ Len(buffer) <= DEPTH /\ (pc = "fault" => n \in 0 .. 4)
      /\ pc = "copy" => copies < COPIES
      /\ pc \notin {"copy", "end", "fault"} => copies = 0
      /\ image = "mmu_c" /\ pc = "end" => copies = COPIES
  BY DEF CopyInv
<1>1. CASE dram_init /\ UNCHANGED <<tableVars, copyVars>>
  <2>1. /\ pc \in Early /\ pc' \in Early \cup {"cloop"}
        /\ UNCHANGED <<image, n, buffer, copyVars>>
    BY <1>1 DEF dram_init, WriteEntry, UnmarkEntry, Poll, NextEntry, Early, tableVars
  <2> QED  BY <1>0, <2>1, NoCopyStep DEF Early
<1>2. CASE Build /\ UNCHANGED <<dramVars, copyVars>>
  BY <1>0, <1>2, BuildLength, NoCopyStep
<1>3. CASE Access
  <2>1. /\ pc = "access" /\ UNCHANGED <<image, buffer, copyVars>>
        /\ pc' \in {"access", "fault"} \cup (IF image = "mmu_c" THEN {"copy"} ELSE {"end"})
        /\ pc' = "fault" => n' = n
    BY <1>3 DEF Access
  <2>2. n \in 0 .. 4 /\ copies = 0 /\ 0 < COPIES
    BY <1>0, <2>1, SizeIs DEF TableInv
  <2> QED  BY <1>0, <2>1, <2>2, NoCopyStep
<1>4. CASE mc_memcpy
  <2>1. pc = "copy" /\ offset < SIZE /\ UNCHANGED <<dramVars, tableVars, copies>>
    BY <1>4 DEF mc_memcpy
  <2>2. CASE pc' = pc /\ dest' = [dest EXCEPT ![offset \div 8] = src[offset \div 8]]
             /\ offset' = offset + 8
    BY <2>1, <2>2, WordCopied
  <2>3. CASE pc' = "fault" /\ UNCHANGED <<dest, offset>>
    <3>1. UNCHANGED <<copyVars, image, buffer, n>>
      BY <2>1, <2>3 DEF copyVars, tableVars
    <3>2. n = 0
      BY <2>1 DEF TableInv
    <3> QED  BY <1>0, <2>3, <3>1, <3>2, NoCopyStep
  <2> QED  BY <1>4, <2>2, <2>3 DEF mc_memcpy
<1>5. CASE NextCopy
  BY <1>5, CopyDone
<1>6. CASE Hardware /\ UNCHANGED <<tableVars, copyVars>>
  <2>1. UNCHANGED <<pc, image, n, buffer, copyVars>>
    BY <1>6 DEF Hardware, Answer, Lock, tableVars
  <2> QED  BY <1>0, <2>1, NoCopyStep
<1>7. CASE Drain /\ UNCHANGED <<dramVars, copyVars>>
  <2>1. UNCHANGED <<pc, image, n>>
    BY <1>7 DEF Drain
  <2> QED  BY <1>0, <1>7, <2>1, DrainLength, NoCopyStep
<1>8. CASE UNCHANGED vars
  <2>1. UNCHANGED <<pc, image, n, buffer, copyVars>>
    BY <1>8 DEF vars, tableVars
  <2> QED  BY <1>0, <2>1, NoCopyStep
<1> QED
  BY <1>1, <1>2, <1>3, <1>4, <1>5, <1>6, <1>7, <1>8 DEF Next, Program, Bus

LEMMA TypeFollows ==
  ASSUME TableInv, DramInv, CopyInv
  PROVE  TypeOK
<1>1. DramTypeOK
  <2>1. item \in 1 .. 102 /\ i = Done(item - 1) /\ regs \in [Reg -> SUBSET Bits] /\ marked \subseteq Waits
    BY DEF DramInv, Registers
  <2>2. Len(DdrList) = 101
    BY ListIs
  <2>3. i \in 0 .. LEN
    <3>1. CASE item - 1 \in 0 .. 100
      <4>1. Done(item - 1) \in Nat /\ Done(item - 1) < LEN
        BY <3>1, DoneGrows
      <4> QED  BY <2>1, <4>1 DEF LEN
    <3>2. CASE item - 1 = 101
      BY <2>1, <3>2, DoneGrows DEF LEN
    <3> QED  BY <2>1, <3>1, <3>2
  <2> QED  BY <2>1, <2>2, <2>3 DEF DramTypeOK, Waits, Bits
<1>2. TableTypeOK
  <2>1. image \in Images /\ mmu \in BOOLEAN /\ Len(buffer) <= DEPTH
    BY DEF TableInv, CopyInv
  <2>2. n \in 0 .. 5
    BY DEF TableInv, CopyInv
  <2>3. \A k \in 1 .. Len(buffer) : buffer[k].at \in Pages \X Slots
    BY Buffered, StoreIs
  <2>4. DOMAIN memory = Pages /\ \A p \in Pages : DOMAIN memory[p] = Slots
    BY DEF TableInv, Holds
  <2> QED  BY <2>1, <2>2, <2>3, <2>4 DEF TableTypeOK
<1> QED
  BY <1>1, <1>2 DEF TypeOK, CopyInv

\* Every counter of the three programs, the length of the store buffer and the
\* place of every store stay in their ranges, for every depth of the buffer,
\* size of the copy and number of copies.
THEOREM TypeCorrect == Spec => []TypeOK
<1>1. Init => TableInv /\ CopyInv
  BY TableInit, CopyStarts
<1>2. TableInv /\ CopyInv /\ DramIsTrained /\ [Next]_vars => (TableInv /\ CopyInv)'
  BY TableStep, CopyInvStep
<1>3. Init => DramInv
  BY DramStarts
<1>4. DramInv /\ [Next]_vars => DramInv'
  BY DramInvStep
<1>5. TableInv /\ DramInv /\ CopyInv => TypeOK
  BY TypeFollows
<1>6. DramInv => DramIsTrained
  BY DramFollows
<1> QED
  BY <1>1, <1>2, <1>3, <1>4, <1>5, <1>6, PTL DEF Spec

\* mmu_c does not come to its last loop (main.c 60) before every word at dest
\* is that of src, and at no time has a word past them been written.
THEOREM CopyIsMade ==
    Spec => [](/\ dest[WORDS] = 0
               /\ image = "mmu_c" /\ pc = "end" => \A w \in 0 .. WORDS - 1 : dest[w] = src[w])
<1> DEFINE Made == /\ dest[WORDS] = 0
                   /\ image = "mmu_c" /\ pc = "end" =>
                         \A w \in 0 .. WORDS - 1 : dest[w] = src[w]
<1>1. Init => TableInv /\ CopyInv
  BY TableInit, CopyStarts
<1>2. TableInv /\ CopyInv /\ DramIsTrained /\ [Next]_vars => (TableInv /\ CopyInv)'
  BY TableStep, CopyInvStep
<1>3. Spec => []DramIsTrained
  BY DramTrained
<1>4. CopyInv => Made
  <2> SUFFICES ASSUME CopyInv PROVE Made
    OBVIOUS
  <2>1. \A w \in 0 .. WORDS : dest[w] = IF Copied(w) THEN src[w] ELSE 0
    BY DEF CopyInv
  <2>2. WORDS \in 0 .. WORDS /\ ~Copied(WORDS)
    BY SizeIs DEF Copied
  <2>3. ASSUME image = "mmu_c", pc = "end", NEW w \in 0 .. WORDS - 1 PROVE dest[w] = src[w]
    <3>1. copies > 0 /\ w \in 0 .. WORDS /\ w < WORDS
      BY <2>3, SizeIs DEF CopyInv
    <3> QED  BY <2>1, <3>1 DEF Copied
  <2> QED  BY <2>1, <2>2, <2>3
<1> HIDE DEF Made
<1>5. Spec => []Made
  BY <1>1, <1>2, <1>3, <1>4, PTL DEF Spec
<1> QED
  BY <1>5 DEF Made
=============================================================================
