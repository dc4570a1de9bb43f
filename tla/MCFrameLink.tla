---------------------------- MODULE MCFrameLink ----------------------------
(* FrameLink for TLC, with the counters' widths scaled down.               *)
EXTENDS FrameLink
=============================================================================
