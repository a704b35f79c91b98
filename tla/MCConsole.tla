----------------------------- MODULE MCConsole -----------------------------
(* Console for TLC: a message with a line feed inside and one without. *)
EXTENDS Console

MCMessage == {<<"a">>, <<"b", "\n", "b">>}
=============================================================================
