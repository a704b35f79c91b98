--------------------------- MODULE CommandChannel ---------------------------
(***************************************************************************)
(* What the command ring promises: the commands for one interrupt enter    *)
(* together, and the ITS takes commands out one by one, in their order and *)
(* as they were sent.                                                      *)
(***************************************************************************)
EXTENDS Sequences

CONSTANT Batch          \* the sequences of commands that can be sent

VARIABLE queue

Init == queue = <<>>

Send(b) == queue' = queue \o b

Receive == queue # <<>> /\ queue' = Tail(queue)

Next == Receive \/ \E b \in Batch : Send(b)

Spec == Init /\ [][Next]_queue
=============================================================================
