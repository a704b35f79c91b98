------------------------------- MODULE Console -------------------------------
(***************************************************************************)
(* The console: mprintf takes a hardware spin lock, writes "-id-" and the  *)
(* characters of the message one by one into the transmitter, and frees    *)
(* the lock.  m_putchar waits for the transmitter to be empty and then     *)
(* writes; the transmitter sends in its own time.                          *)
(*                                                                         *)
(* A message is the sequence of characters its format and arguments        *)
(* produce; the number of the core is one character.  Each core makes at   *)
(* most MAX_CALLS calls, which bounds the serial line.                     *)
(***************************************************************************)
EXTENDS Naturals, Sequences

CONSTANTS CPU, Message, MAX_CALLS

\* The number of a core is not a line feed.
ASSUME ConsoleAssumption ==
    MAX_CALLS \in Nat /\ Message \subseteq Seq(STRING) /\ "\n" \notin CPU

VARIABLES
    pc,         \* "out", "lock", "poll" or "write", per core
    rest,       \* characters still to be written by the call, per core
    sent,       \* number of characters the call has written, per core
    calls,      \* calls that have returned, per core
    lock,       \* the lock register: 1 when taken
    thr,        \* character in the transmitter, <<>> when TEMT is set
    wire        \* characters sent on the serial line

vars == <<pc, rest, sent, calls, lock, thr, wire>>

Init ==
    /\ pc = [c \in CPU |-> "out"]
    /\ rest = [c \in CPU |-> <<>>]
    /\ sent = [c \in CPU |-> 0]
    /\ calls = [c \in CPU |-> 0]
    /\ lock = 0
    /\ thr = <<>>
    /\ wire = <<>>

\* mprintf is called: -id- and the message are to be written.
Call(c) ==
    /\ pc[c] = "out" /\ calls[c] < MAX_CALLS
    /\ pc' = [pc EXCEPT ![c] = "lock"]
    /\ \E m \in Message : rest' = [rest EXCEPT ![c] = <<"-", c, "-">> \o m]
    /\ sent' = [sent EXCEPT ![c] = 0]
    /\ UNCHANGED <<calls, lock, thr, wire>>

\* Mutant: the status is read once and used without the loop.
ReadLock_Mutant(c) ==
    /\ pc[c] = "lock"
    /\ pc' = [pc EXCEPT ![c] = "poll"]
    /\ lock' = 1
    /\ UNCHANGED <<rest, sent, calls, thr, wire>>

\* A read of the lock register returns 1 if it was taken, and takes it.
ReadLock(c) ==
    /\ pc[c] = "lock"
    /\ pc' = IF lock = 0 THEN [pc EXCEPT ![c] = "poll"] ELSE pc
    /\ lock' = 1
    /\ UNCHANGED <<rest, sent, calls, thr, wire>>

\* Mutants: the end of the string is not seen; the poll of LSR is left out.
PollLsr_PastEnd(c) ==
    /\ pc[c] = "poll"
    /\ thr = <<>>
    /\ pc' = [pc EXCEPT ![c] = "write"]
    /\ UNCHANGED <<rest, sent, calls, lock, thr, wire>>

PollLsr_Mutant(c) ==
    /\ pc[c] = "poll" /\ rest[c] # <<>>
    /\ pc' = [pc EXCEPT ![c] = "write"]
    /\ UNCHANGED <<rest, sent, calls, lock, thr, wire>>

\* m_putchar polls bit 6 of LSR, for the next character if there is one.
PollLsr(c) ==
    /\ pc[c] = "poll" /\ rest[c] # <<>>
    /\ thr = <<>>
    /\ pc' = [pc EXCEPT ![c] = "write"]
    /\ UNCHANGED <<rest, sent, calls, lock, thr, wire>>

\* The write to THR; m_putchar calls itself with '\r' after a '\n'.  A
\* character that has not been sent is overwritten.
WriteThr(c) ==
    LET ch == Head(rest[c])
    IN  /\ pc[c] = "write"
        /\ thr' = <<ch>>
        /\ rest' = [rest EXCEPT ![c] = (IF ch = "\n" THEN <<"\r">> ELSE <<>>) \o Tail(@)]
        /\ sent' = [sent EXCEPT ![c] = @ + 1]
        /\ pc' = [pc EXCEPT ![c] = "poll"]
        /\ UNCHANGED <<calls, lock, wire>>

\* Mutant: the lock is not released.
Unlock_Mutant(c) ==
    /\ pc[c] = "poll" /\ rest[c] = <<>>
    /\ pc' = [pc EXCEPT ![c] = "out"]
    /\ calls' = [calls EXCEPT ![c] = @ + 1]
    /\ UNCHANGED <<rest, sent, lock, thr, wire>>

\* The end of the message: the lock is released, the last character may
\* still be in the transmitter.
Unlock(c) ==
    /\ pc[c] = "poll" /\ rest[c] = <<>>
    /\ lock' = 0
    /\ pc' = [pc EXCEPT ![c] = "out"]
    /\ calls' = [calls EXCEPT ![c] = @ + 1]
    /\ UNCHANGED <<rest, sent, thr, wire>>

mprintf(c) == Call(c) \/ ReadLock(c) \/ PollLsr(c) \/ WriteThr(c) \/ Unlock(c)

\* The UART moves the character out.
Transmit ==
    /\ thr # <<>>
    /\ wire' = wire \o thr
    /\ thr' = <<>>
    /\ UNCHANGED <<pc, rest, sent, calls, lock>>

Next == Transmit \/ \E c \in CPU : mprintf(c)

Spec == Init /\ [][Next]_vars

\* Cores and UART keep running; a spinning core reads the lock again and
\* again, but nothing makes it win against another one.
Fairness == WF_vars(Transmit) /\ \A c \in CPU : WF_vars(mprintf(c))

FairSpec == Spec /\ Fairness

----------------------------------------------------------------------------
Printing == {c \in CPU : pc[c] \in {"poll", "write"}}

\* Type invariant.
TypeOK ==
    /\ pc \in [CPU -> {"out", "lock", "poll", "write"}]
    /\ \A c \in CPU : pc[c] = "write" => rest[c] # <<>>
    /\ sent \in [CPU -> Nat]
    /\ calls \in [CPU -> 0 .. MAX_CALLS]
    /\ lock \in {0, 1}
    /\ Len(thr) <= 1

\* One core at a time is between the lock loop and the unlock, and the lock
\* register says so (mprintf.c 125-162).
Exclusive ==
    /\ lock = 1 <=> Printing # {}
    /\ \A c, d \in Printing : c = d

\* No character is written over one that has not been sent, not even the
\* last one of the call before (mprintf.c 70-71).
NoOverrun == \A c \in CPU : pc[c] = "write" => thr = <<>>

\* Refinement of LineLog: the text is what has been written by the calls that
\* have returned, in the order of their unlocks.
Written == wire \o thr
Committed ==
    IF lock = 0 THEN Written
    ELSE SubSeq(Written, 1, Len(Written) - sent[CHOOSE c \in Printing : TRUE])

Log == INSTANCE LineLog WITH text <- Committed

\* Calls of different cores never mix and nothing is lost: every call appends
\* its whole line at once (mprintf.c 117-163).
WholeLines == Log!Spec

\* Every call of mprintf returns, and everything written is sent.
CallsReturn == \A c \in CPU : pc[c] # "out" ~> (pc[c] = "out" /\ thr = <<>>)
=============================================================================
