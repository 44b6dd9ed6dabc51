------------------------------ MODULE CcciProps ------------------------------
(***************************************************************************)
(* The properties of the cross-core channel and the abstract channel it    *)
(* implements.                                                             *)
(***************************************************************************)
EXTENDS Ccci

TypeOK ==
    /\ fifo \in [Slots -> Messages] /\ status \in [Slots -> Idle .. ReceiveDone]
    /\ readPoint \in Slots /\ writePoint \in Slots /\ counter \in 0 .. FifoSize
    /\ event \in BOOLEAN /\ word \in Parts /\ word2 \in Parts /\ ack \in BOOLEAN
    /\ pc \in [Senders -> {"idle", "full", "wait"}]
    /\ call \in [Senders -> [msg : Messages, wait : BOOLEAN]]
    /\ slot \in [Senders -> Slots]
    /\ ackPc \in {"idle", "clear"} /\ recvPc \in {"idle", "callback", "answer"}
    /\ msg \in Messages
    /\ failed \in {"none", "send", "ack"}
    /\ before \in [Senders -> 0 .. FifoSize]

\* The places a message can be at while it is on its way: its event is set and
\* not taken, the receiver handles it, or its ACK is set and not handled.
OnWire == event /\ recvPc = "idle"
InReceiver == recvPc # "idle"
InAck == ack /\ ackPc = "idle"

\* While the FIFO holds messages exactly one of them is on its way, and none
\* when it is empty: nothing is sent over an event that has not been answered,
\* and the sending never stops with messages left.
OneOutstanding ==
    failed = "none" =>
        /\ counter > 0 <=> OnWire \/ InReceiver \/ InAck
        /\ ~(OnWire /\ InAck) /\ ~(InReceiver /\ InAck)

\* The assertion "should not busy" of the sending side (ccci.c:443, 537) is never
\* hit, nor, when the ACK handler is prompt, that of the receiving side.
NeverBusy == failed # "send" /\ (Prompt => failed = "none")

\* The assertion "should not busy" at the receiver's ACK (ccci.c:263).
AckNeverBusy == failed # "ack"

\* The slot k places after the oldest message; the oldest message is with the
\* receiver or answered.
At(k) == IF readPoint + k < FifoSize THEN readPoint + k ELSE readPoint + k - FifoSize
Handed == InReceiver \/ InAck

\* The parts of the inductive invariant: the two events agree with the handlers'
\* places, the write pointer is counter places after the read pointer, ...
Flow ==
    failed = "none" =>
        /\ recvPc = "callback" => event
        /\ recvPc = "answer" => ~event
        /\ ackPc = "clear" => ack
Ring == writePoint = At(counter)

\* ... a sender waits at the slot of its message until that is handed over, ...
Place(s) == before[s] - IF Handed THEN 0 ELSE 1
Waiting ==
    failed = "none" => \A s \in Senders : pc[s] = "wait" /\ before[s] > 0 =>
        /\ Place(s) < counter /\ slot[s] = At(Place(s))
        /\ status[slot[s]] # ReceiveDone

\* ... and the event carries the oldest message.
Words == failed = "none" /\ event => [data |-> word, data2 |-> word2] = fifo[readPoint]

CcciInv == TypeOK /\ OneOutstanding /\ NeverBusy /\ Flow /\ Ring /\ Waiting /\ Words

\* A call that waits for reception returns after the callback was called with
\* its message, also when its slot of the FIFO has been used again.
WaitMeansReceived ==
    [][\A s \in Senders : pc[s] = "wait" /\ pc'[s] = "idle" => before[s] = 0]_vars

\* The messages accepted and not yet handed to the callback, in order.
Left == IF Handed THEN counter - 1 ELSE counter
Undone == [i \in 1 .. Left |-> fifo[At(counter - Left + i - 1)]]
Channel == INSTANCE CcciChannel WITH Size <- FifoSize, handed <- msg, channel <- Undone

\* The FIFO, its two events and the third word together are one channel: every
\* accepted message reaches the callback once, whole and in order.
ChannelSpec == Channel!Spec

\* Every call that waits for room or for reception returns.
Returns == \A s \in Senders : pc[s] # "idle" ~> pc[s] = "idle"
=============================================================================
