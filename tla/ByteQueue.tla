----------------------------- MODULE ByteQueue -----------------------------
(***************************************************************************)
(* What buffered console output promises: the characters it takes leave on *)
(* the wire once each and in the order they were printed.  A character for *)
(* which there is no room is refused whole, a line end with its CR.        *)
(***************************************************************************)
EXTENDS Naturals, Sequences

CONSTANTS
  Capacity,      (* characters it can hold *)
  Texts          (* what one call may add: a character, or CR and LF *)

VARIABLE queue

QueueInit == queue = <<>>

Accept(t) ==
  /\ Len(queue) + Len(t) <= Capacity
  /\ queue' = queue \o t

Send == queue # <<>> /\ queue' = Tail(queue)

QueueNext == Send \/ \E t \in Texts : Accept(t)

QueueSpec == QueueInit /\ [][QueueNext]_queue
=============================================================================
