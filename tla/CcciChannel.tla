----------------------------- MODULE CcciChannel -----------------------------
(***************************************************************************)
(* What CCCI promises between two cores: a bounded first-in first-out      *)
(* channel.  A message that was accepted is handed to the receiver's       *)
(* callback once, whole, after all the messages accepted before it.        *)
(***************************************************************************)
EXTENDS Naturals, Sequences

CONSTANTS Messages, Size

VARIABLES
    channel,   \* the messages accepted and not yet handed over, in order
    handed     \* the message the callback was last called with

Init == channel = <<>> /\ handed \in Messages

Accept(m) ==
    /\ Len(channel) < Size
    /\ channel' = Append(channel, m)
    /\ UNCHANGED handed

Hand ==
    /\ channel # <<>>
    /\ handed' = Head(channel)
    /\ channel' = Tail(channel)

Next == Hand \/ \E m \in Messages : Accept(m)

Spec == Init /\ [][Next]_<<channel, handed>>
=============================================================================
