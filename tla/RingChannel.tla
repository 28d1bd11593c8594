---------------------------- MODULE RingChannel ----------------------------
(***************************************************************************)
(* What each of the two mailbox rings promises its users: a bounded FIFO   *)
(* channel with one sender and one receiver.  A ring of n entries carries  *)
(* at most n - 1 messages (one slot stays empty to tell full from empty).  *)
(***************************************************************************)
EXTENDS Naturals, Sequences

CONSTANTS Capacity  \* messages the channel can hold

VARIABLE chan       \* the messages sent and not yet received, oldest first

Init == chan = <<>>

Send == /\ Len(chan) < Capacity
        /\ Len(chan') = Len(chan) + 1
        /\ SubSeq(chan', 1, Len(chan)) = chan

Receive == /\ chan # <<>>
           /\ chan' = Tail(chan)

Next == Send \/ Receive

Spec == Init /\ [][Next]_chan
=============================================================================
