----------------------------- MODULE MCConsole -----------------------------
(* Console for TLC: lines of up to three characters, a history of two.     *)
EXTENDS Console

MCCommands == << <<"x", "x">>, <<"x", "x", "x">> >>
=============================================================================
