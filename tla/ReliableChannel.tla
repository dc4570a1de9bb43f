-------------------------- MODULE ReliableChannel --------------------------
(***************************************************************************)
(* What the reliable layer of lib/framing promises: payloads, numbered in  *)
(* the order in which they are first sent, reach the other side once each  *)
(* and in that order, one at a time, and only what has arrived is          *)
(* acknowledged.  Sending a payload again changes nothing here.            *)
(***************************************************************************)
EXTENDS Naturals, Sequences

VARIABLES submitted, delivered, acked

cvars == <<submitted, delivered, acked>>

ChannelInit == submitted = 0 /\ delivered = <<>> /\ acked = 0

Submit ==
  /\ submitted = acked
  /\ submitted' = submitted + 1
  /\ UNCHANGED <<delivered, acked>>

Deliver ==
  /\ Len(delivered) < submitted
  /\ delivered' = Append(delivered, Len(delivered) + 1)
  /\ UNCHANGED <<submitted, acked>>

Acknowledge ==
  /\ acked < Len(delivered)
  /\ acked' = acked + 1
  /\ UNCHANGED <<submitted, delivered>>

ChannelSpec == ChannelInit /\ [][Submit \/ Deliver \/ Acknowledge]_cvars
=============================================================================
