------------------------------ MODULE MCOutput ------------------------------
(* OutputLoop for TLC: two buffers of four bytes.                          *)
EXTENDS OutputLoop
=============================================================================
