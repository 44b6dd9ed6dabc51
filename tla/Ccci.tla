-------------------------------- MODULE Ccci --------------------------------
(***************************************************************************)
(* The cross-core communication interface (ccci.c), one direction: tasks   *)
(* of the sending core put messages into a software FIFO; one at a time is *)
(* on its way, as a CCNI event with a two-word message and a third word in *)
(* the message memory of an unused event.  The receiving core runs the     *)
(* user's callback in its interrupt handler and answers with an ACK event, *)
(* whose handler on the sending core removes the message and sends the     *)
(* next one.  hal_ccni is external: setting an event that has not been     *)
(* cleared fails as busy.                                                  *)
(***************************************************************************)
EXTENDS Naturals, Sequences

CONSTANTS
    Senders,     \* tasks of the sending core
    Parts,       \* the contents of a word
    FifoSize,    \* CCCI_SW_FIFO_SIZE
    Prompt       \* the ACK handler ends before the receiver answers what it sent

ASSUME CcciAssumption ==
    /\ FifoSize \in Nat \ {0} /\ Prompt \in BOOLEAN /\ Parts # {}

Idle == 0
Push == 1
Pop == 2
ReceiveDone == 3
Slots == 0 .. FifoSize - 1
Messages == [data : Parts, data2 : Parts]

VARIABLES
    fifo,      \* ccci_sw_fifo: the message of each slot
    status,    \* ccci_sw_fifo_note_status of each slot
    readPoint, writePoint, counter,
    event,     \* the CCCI event is set
    word,      \* the words of its message
    word2,     \* the word data2 travels in
    ack,       \* the ACK event is set
    pc,        \* per sender: where its call of ccci_send_msg is
    call,      \* per sender: the message and whether it waits for reception
    slot,      \* per sender: the slot it polls
    ackPc,     \* the ACK handler of the sending core
    recvPc,    \* the handler of the receiving core
    msg,       \* the message the callback was last called with
    failed,    \* the assertion that was hit
    before     \* ghost, per sender: messages to hand over up to its own

vars == <<fifo, status, readPoint, writePoint, counter, event, word, word2, ack,
          pc, call, slot, ackPc, recvPc, msg, failed, before>>
fifoVars == <<fifo, status, readPoint, writePoint, counter>>
wire == <<event, word, word2>>
senderVars == <<pc, call, slot>>

NoMessage == CHOOSE m \in Messages : TRUE
NoCall == [msg |-> NoMessage, wait |-> FALSE]

Init ==
    /\ fifo = [i \in Slots |-> NoMessage] /\ status = [i \in Slots |-> Idle]
    /\ readPoint = 0 /\ writePoint = 0 /\ counter = 0
    /\ event = FALSE /\ word = NoMessage.data /\ word2 = NoMessage.data2 /\ ack = FALSE
    /\ pc = [s \in Senders |-> "idle"] /\ call = [s \in Senders |-> NoCall]
    /\ slot = [s \in Senders |-> 0] /\ before = [s \in Senders |-> 0]
    /\ ackPc = "idle" /\ recvPc = "idle"
    /\ msg = NoMessage /\ failed = "none"

-----------------------------------------------------------------------------
\* The tasks of the sending core do not run while its ACK handler does, nor once
\* an assertion has stopped a core.
SenderRuns == ackPc = "idle" /\ failed = "none"
Undelivered == counter - IF recvPc # "idle" \/ ack THEN 1 ELSE 0

\* The event is set with the words of m, or found busy.
SetEvent(m) ==
    /\ word2' = m.data2
    /\ IF event THEN failed' = "send" /\ UNCHANGED <<event, word>>
                ELSE event' = TRUE /\ word' = m.data /\ UNCHANGED failed

HasRoom == counter < FifoSize

\* Steps 2 to 4 of ccci_send_msg, masked: push, and when nothing else is on its
\* way take the message out again and send it.
PushAndSend(s, c) ==
    /\ counter' = counter + 1
    /\ fifo' = [fifo EXCEPT ![writePoint] = c.msg]
    /\ writePoint' = (writePoint + 1) % FifoSize
    /\ slot' = [slot EXCEPT ![s] = writePoint]
    /\ call' = [call EXCEPT ![s] = c]
    /\ pc' = [pc EXCEPT ![s] = IF c.wait THEN "wait" ELSE "idle"]
    /\ before' = [before EXCEPT ![s] = Undelivered + 1]
    /\ IF counter > 0
       THEN /\ status' = [status EXCEPT ![writePoint] = Push]
            /\ UNCHANGED <<wire, failed>>
       ELSE /\ status' = [status EXCEPT ![writePoint] = Push, ![readPoint] = Pop]
            /\ SetEvent(fifo'[readPoint])

\* ccci_send_msg finds room.  With a full FIFO a call that does not wait returns
\* CCCI_STATUS_SW_FIFO_FULL and changes nothing.
SendMsg(s, c) ==
    /\ SenderRuns /\ pc[s] = "idle" /\ HasRoom
    /\ PushAndSend(s, c)
    /\ UNCHANGED <<readPoint, ack, ackPc, recvPc, msg>>

\* A call that waits looks for room every millisecond.
SendFull(s, c) ==
    /\ SenderRuns /\ pc[s] = "idle" /\ ~HasRoom /\ c.wait
    /\ pc' = [pc EXCEPT ![s] = "full"] /\ call' = [call EXCEPT ![s] = c]
    /\ UNCHANGED <<fifoVars, wire, ack, slot, ackPc, recvPc, msg, failed, before>>

SendRetry(s) ==
    /\ SenderRuns /\ pc[s] = "full" /\ HasRoom
    /\ PushAndSend(s, call[s])
    /\ UNCHANGED <<readPoint, ack, ackPc, recvPc, msg>>

\* Mutant: it is enough that the message was taken out of the FIFO.
WaitDonePopped(s) ==
    /\ SenderRuns /\ pc[s] = "wait" /\ status[slot[s]] >= Pop
    /\ pc' = [pc EXCEPT ![s] = "idle"]
    /\ UNCHANGED <<fifoVars, wire, ack, call, slot, ackPc, recvPc, msg, failed, before>>

\* wait_for_one_ccci_event_send_or_receive_done sees the slot done.
WaitDone(s) ==
    /\ SenderRuns /\ pc[s] = "wait" /\ status[slot[s]] >= ReceiveDone
    /\ pc' = [pc EXCEPT ![s] = "idle"]
    /\ UNCHANGED <<fifoVars, wire, ack, call, slot, ackPc, recvPc, msg, failed, before>>

-----------------------------------------------------------------------------
\* The receiving core runs in parallel with the ACK handler.
ReceiverRuns == failed = "none" /\ (Prompt => ackPc = "idle")

\* The interrupt: the three words are read and the callback is called.
Receive ==
    /\ ReceiverRuns /\ recvPc = "idle" /\ event
    /\ msg' = [data |-> word, data2 |-> word2]
    /\ before' = [s \in Senders |-> IF before[s] > 0 THEN before[s] - 1 ELSE 0]
    /\ recvPc' = "callback"
    /\ UNCHANGED <<fifoVars, wire, ack, senderVars, ackPc, failed>>

\* After the callback the event is cleared and unmasked.
ClearEvent ==
    /\ ReceiverRuns /\ recvPc = "callback"
    /\ event' = FALSE
    /\ recvPc' = "answer"
    /\ UNCHANGED <<fifoVars, word, word2, ack, senderVars, ackPc, msg, failed, before>>

\* The ACK event is set, or found busy, which asserts.
SendAck ==
    /\ ReceiverRuns /\ recvPc = "answer"
    /\ recvPc' = "idle"
    /\ IF ack THEN failed' = "ack" /\ ack' = ack
              ELSE failed' = failed /\ ack' = TRUE
    /\ UNCHANGED <<fifoVars, wire, senderVars, ackPc, msg, before>>

\* Mutant: the next message is taken from the slot that is done.
AckReceivedSame ==
    /\ failed = "none" /\ ack /\ ackPc = "idle"
    /\ counter' = counter - 1
    /\ readPoint' = (readPoint + 1) % FifoSize
    /\ ackPc' = "clear"
    /\ IF counter' > 0
       THEN /\ status' = [status EXCEPT ![readPoint] = ReceiveDone, ![readPoint'] = Pop]
            /\ SetEvent(fifo[readPoint])
       ELSE /\ status' = [status EXCEPT ![readPoint] = ReceiveDone]
            /\ UNCHANGED <<wire, failed>>
    /\ UNCHANGED <<fifo, writePoint, ack, senderVars, recvPc, msg, before>>

\* The ACK handler: the slot is done, the next message is sent ...
AckReceived ==
    /\ failed = "none" /\ ack /\ ackPc = "idle"
    /\ counter' = counter - 1
    /\ readPoint' = (readPoint + 1) % FifoSize
    /\ ackPc' = "clear"
    /\ IF counter' > 0
       THEN /\ status' = [status EXCEPT ![readPoint] = ReceiveDone, ![readPoint'] = Pop]
            /\ SetEvent(fifo[readPoint'])
       ELSE /\ status' = [status EXCEPT ![readPoint] = ReceiveDone]
            /\ UNCHANGED <<wire, failed>>
    /\ UNCHANGED <<fifo, writePoint, ack, senderVars, recvPc, msg, before>>

\* Mutant: the ACK event is not cleared.
AckClearNothing ==
    /\ failed = "none" /\ ackPc = "clear"
    /\ ackPc' = "idle"
    /\ UNCHANGED <<fifoVars, wire, ack, senderVars, recvPc, msg, failed, before>>

\* ... and only then the ACK event is cleared.
AckClear ==
    /\ failed = "none" /\ ackPc = "clear"
    /\ ack' = FALSE
    /\ ackPc' = "idle"
    /\ UNCHANGED <<fifoVars, wire, senderVars, recvPc, msg, failed, before>>

Send(s) == \E m \in Messages, w \in BOOLEAN : LET c == [msg |-> m, wait |-> w]
                                              IN  SendMsg(s, c) \/ SendFull(s, c)
Receiver == Receive \/ ClearEvent \/ SendAck
AckHandler == AckReceived \/ AckClear

Next == Receiver \/ AckHandler \/ \E s \in Senders : Send(s) \/ SendRetry(s) \/ WaitDone(s)

Spec == Init /\ [][Next]_vars
\* Interrupts are taken and handlers end; a waiting task polls again and again.
FairSpec == /\ Spec /\ WF_vars(Receiver) /\ WF_vars(AckHandler)
            /\ \A s \in Senders : WF_vars(SendRetry(s)) /\ WF_vars(WaitDone(s))
=============================================================================
