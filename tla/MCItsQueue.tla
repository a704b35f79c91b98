----------------------------- MODULE MCItsQueue -----------------------------
(* ItsQueue for TLC: chips with two frames, and one of each kind on which    *)
(* the test cannot run.                                                      *)
EXTENDS ItsQueue

Frame(own, num, last) == [pidr |-> TRUE, own |-> own, num |-> num, last |-> last]
First == <<Frame(TRUE, 0, FALSE), Frame(FALSE, 1, TRUE)>>
Second == <<Frame(FALSE, 1, FALSE), Frame(TRUE, 0, TRUE)>>
OtherCore == <<Frame(FALSE, 0, FALSE), Frame(TRUE, 1, TRUE)>>
TooFew == <<Frame(TRUE, 0, TRUE)>>
TooMany == <<Frame(TRUE, 0, FALSE), Frame(FALSE, 1, FALSE), Frame(FALSE, 2, TRUE)>>
NoFrame == <<Frame(TRUE, 0, FALSE), [Frame(FALSE, 1, TRUE) EXCEPT !.pidr = FALSE]>>

Chip(dist, frames, lpiSup) == [dist |-> dist, frames |-> frames, lpiSup |-> lpiSup]

MCHardware ==
    {Chip(TRUE, f, TRUE) : f \in {First, Second, OtherCore, TooFew, TooMany, NoFrame}}
    \cup {Chip(FALSE, First, TRUE), Chip(TRUE, First, FALSE)}
=============================================================================
