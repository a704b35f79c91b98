------------------------------- MODULE LineLog -------------------------------
(***************************************************************************)
(* What mprintf promises to the cores that share the serial line: a call   *)
(* by core c appends the whole text of its message, in one piece, marked   *)
(* with the number of the core.                                            *)
(***************************************************************************)
EXTENDS Naturals, Sequences

CONSTANTS CPU, Message  \* a message is a sequence of characters

VARIABLE text           \* everything on the serial line

\* A line feed is followed by a carriage return.
Echo(ch) == IF ch = "\n" THEN <<"\n", "\r">> ELSE <<ch>>

Printed(m) ==
    LET upTo[n \in 0 .. Len(m)] == IF n = 0 THEN <<>> ELSE upTo[n - 1] \o Echo(m[n])
    IN  upTo[Len(m)]

Line(c, m) == <<"-", c, "-">> \o Printed(m)

Init == text = <<>>

PutLine(c, m) == text' = text \o Line(c, m)

Next == \E c \in CPU, m \in Message : PutLine(c, m)

Spec == Init /\ [][Next]_text
=============================================================================
