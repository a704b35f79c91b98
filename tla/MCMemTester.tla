----------------------------- MODULE MCMemTester -----------------------------
(* MemTester for TLC: a filling test of two passes, an operation that must    *)
(* avoid a zero operand and one that changes every bit it can.                *)
EXTENDS MemTester

\* Bit k of a word, to compare the recursive Or with what a bitwise or is.
Bit(x, k) == (x \div Power[k]) % 2

ASSUME OrIsBitwise ==
    \A x, y \in 0 .. 15 : \A k \in 0 .. 3 :
        Bit(Or[4][<<x, y>>], k) = 1 <=> (Bit(x, k) = 1 \/ Bit(y, k) = 1)

Test(op, passes) == [op |-> op, passes |-> passes]

MCForms == <<Test("fill",2), Test("div",1), Test("xor",1)>>
=============================================================================
