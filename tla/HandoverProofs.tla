--------------------------- MODULE HandoverProofs ---------------------------
(***************************************************************************)
(* Proofs about the two handovers between programs that share no memory    *)
(* they could lock.                                                        *)
(*                                                                         *)
(* Part 1, the cross-core channel, for every number of senders, every size *)
(* of the FIFO and all contents: its invariants, and that with an ACK      *)
(* handler that ends in time it implements the abstract channel.           *)
(*                                                                         *)
(* Part 2, the firmware package that the application leaves to the boot    *)
(* loader, for every number of blocks and of versions and whatever the     *)
(* uninitialised mark holds, as long as the flash reports no error: no     *)
(* half copied firmware is started, and the update implements the atomic   *)
(* one.                                                                    *)
(***************************************************************************)
EXTENDS CcciProps, Fota, SequenceTheorems, TLAPS

(***************************************************************************)
(* Part 1: the channel.                                                    *)
(***************************************************************************)

\* The read and write pointers advance around the FIFO.
LEMMA NextSlot ==
    ASSUME NEW a \in Slots
    PROVE  (a + 1) % FifoSize = IF a + 1 = FifoSize THEN 0 ELSE a + 1
BY CcciAssumption, SMTT(30) DEF Slots

LEMMA Fields == \A m \in Messages : m.data \in Parts /\ m.data2 \in Parts
BY DEF Messages

\* The content of a message does not matter initially.
LEMMA SomeMessage == NoMessage \in Messages
<1>1. PICK p \in Parts : TRUE
    BY CcciAssumption
<1>2. [data |-> p, data2 |-> p] \in Messages
    BY <1>1 DEF Messages
<1> QED
    BY <1>2 DEF NoMessage

\* The initial states satisfy the inductive invariant.
LEMMA InitInv == Init => CcciInv
<1> SUFFICES ASSUME Init PROVE CcciInv
    OBVIOUS
<1> USE CcciAssumption DEF Init
<1>1. TypeOK
    <2>1. 0 \in Slots /\ 0 \in 0 .. FifoSize
        BY DEF Slots
    <2>2. fifo \in [Slots -> Messages] /\ status \in [Slots -> Idle .. ReceiveDone]
        BY SomeMessage DEF Idle, ReceiveDone
    <2>3. word \in Parts /\ word2 \in Parts /\ msg \in Messages
        BY SomeMessage, Fields
    <2>4. NoCall \in [msg : Messages, wait : BOOLEAN]
        BY SomeMessage DEF NoCall
    <2>5. slot \in [Senders -> Slots] /\ before \in [Senders -> 0 .. FifoSize]
        BY <2>1
    <2> QED
        BY <2>1, <2>2, <2>3, <2>4, <2>5 DEF TypeOK
<1>2. OneOutstanding /\ NeverBusy /\ Flow
    BY DEF OneOutstanding, NeverBusy, Flow, OnWire, InReceiver, InAck
<1>3. Ring /\ Waiting /\ Words
    BY DEF Ring, Waiting, Words, At
<1> QED
    BY <1>1, <1>2, <1>3 DEF CcciInv

\* The slots around the FIFO: the last one is the first free one.
LEMMA Places ==
    ASSUME readPoint \in Slots
    PROVE  /\ \A k \in 0 .. FifoSize : At(k) \in Slots
           /\ At(0) = readPoint /\ At(FifoSize) = readPoint
           /\ \A j, k \in 0 .. FifoSize - 1 : At(j) = At(k) => j = k
BY CcciAssumption DEF At, Slots

\* A message is put into the FIFO, and sent when it is the only one.
LEMMA PushAndSendInv ==
    ASSUME CcciInv, SenderRuns, HasRoom,
           NEW s \in Senders, NEW c \in [msg : Messages, wait : BOOLEAN],
           PushAndSend(s, c), UNCHANGED <<readPoint, ack, ackPc, recvPc, msg>>
    PROVE  CcciInv'
<1> USE CcciAssumption DEF CcciInv
<1>1. /\ ackPc = "idle" /\ failed = "none" /\ counter < FifoSize /\ counter \in 0 .. FifoSize
      /\ readPoint \in Slots /\ writePoint \in Slots
    BY DEF SenderRuns, HasRoom, TypeOK
<1>2. counter = 0 => ~event /\ ~ack /\ recvPc = "idle"
    BY <1>1 DEF OneOutstanding, OnWire, InReceiver, InAck
<1>3. ack \/ recvPc # "idle" => counter > 0
    BY <1>1 DEF OneOutstanding, InReceiver, InAck
<1>4. Undelivered \in 0 .. counter
    BY <1>1, <1>3 DEF Undelivered
<1>5. writePoint = At(counter) /\ (counter = 0 => writePoint = readPoint)
    BY <1>1, Places DEF Ring
<1>6. counter > 0 => writePoint # readPoint
    BY <1>1, <1>5, Places
<1>7. fifo' = [fifo EXCEPT ![writePoint] = c.msg] /\ c.msg \in Messages
    BY DEF PushAndSend
<1>8. counter = 0 => /\ event' = TRUE /\ word' = c.msg.data /\ word2' = c.msg.data2
                     /\ failed' = failed /\ fifo'[readPoint] = c.msg
    BY <1>1, <1>2, <1>5, <1>7 DEF PushAndSend, SetEvent, TypeOK
<1>9. counter > 0 => UNCHANGED <<event, word, word2, failed>>
    BY <1>1 DEF PushAndSend, wire
<1>10. failed' = "none" /\ counter' = counter + 1 /\ counter' > 0
    BY <1>1, <1>8, <1>9 DEF PushAndSend
<1>11. TypeOK'
    <2>1. fifo' \in [Slots -> Messages] /\ counter' \in 0 .. FifoSize
        BY <1>1, <1>7, <1>10 DEF TypeOK
    <2>2. status' \in [Slots -> Idle .. ReceiveDone]
        BY <1>1 DEF TypeOK, PushAndSend, Idle, Push, Pop, ReceiveDone
    <2>3. writePoint' \in Slots
        BY <1>1, NextSlot DEF PushAndSend, Slots
    <2>4. event' \in BOOLEAN /\ word' \in Parts /\ word2' \in Parts
        <3>1. c.msg.data \in Parts /\ c.msg.data2 \in Parts
            BY <1>7, Fields
        <3>2. event \in BOOLEAN /\ word \in Parts /\ word2 \in Parts
            BY DEF TypeOK
        <3>3. counter = 0 \/ counter > 0
            BY <1>1
        <3> QED
            BY <1>8, <1>9, <3>1, <3>2, <3>3
    <2>5. /\ slot' \in [Senders -> Slots] /\ call' \in [Senders -> [msg : Messages, wait : BOOLEAN]]
          /\ pc' \in [Senders -> {"idle", "full", "wait"}]
        BY <1>1 DEF TypeOK, PushAndSend
    <2>6. before' \in [Senders -> 0 .. FifoSize]
        BY <1>1, <1>4 DEF TypeOK, PushAndSend
    <2> QED
        BY <1>10, <2>1, <2>2, <2>3, <2>4, <2>5, <2>6 DEF TypeOK
<1>12. OneOutstanding'
    BY <1>1, <1>2, <1>8, <1>9, <1>10 DEF OneOutstanding, OnWire, InReceiver, InAck
<1>13. NeverBusy' /\ Flow'
    BY <1>1, <1>2, <1>8, <1>9, <1>10 DEF NeverBusy, Flow
<1>14. Ring'
    BY <1>1, <1>5, <1>10, NextSlot DEF Ring, At, PushAndSend, Slots
<1>15. Handed' = Handed /\ (Handed => counter > 0)
    BY <1>1, <1>3 DEF Handed, InReceiver, InAck
<1>16. Waiting'
    <2> SUFFICES ASSUME NEW t \in Senders, pc'[t] = "wait", before'[t] > 0
                 PROVE  /\ Place(t)' < counter' /\ slot'[t] = At(Place(t))'
                        /\ status'[slot'[t]] # ReceiveDone
        BY DEF Waiting
    <2>1. CASE t = s
        <3>1. before'[s] = Undelivered + 1 /\ slot'[s] = writePoint
            BY DEF PushAndSend, TypeOK
        <3>2. Undelivered = counter - IF Handed THEN 1 ELSE 0
            BY <1>1 DEF Undelivered, Handed, InReceiver, InAck
        <3>3. Place(s)' = counter
            BY <1>1, <1>15, <3>1, <3>2 DEF Place
        <3>4. status'[writePoint] # ReceiveDone
            BY <1>1 DEF PushAndSend, TypeOK, Push, Pop, ReceiveDone
        <3> QED
            BY <1>1, <1>5, <1>10, <2>1, <3>1, <3>3, <3>4 DEF At
    <2>2. CASE t # s
        <3>1. pc[t] = "wait" /\ before'[t] = before[t] /\ slot'[t] = slot[t]
            BY <2>2 DEF PushAndSend, TypeOK
        <3>2. Place(t)' = Place(t) /\ before[t] \in 0 .. FifoSize /\ before[t] > 0
            BY <1>15, <3>1 DEF Place, TypeOK
        <3>3. Place(t) < counter /\ slot[t] = At(Place(t)) /\ status[slot[t]] # ReceiveDone
            BY <1>1, <3>1, <3>2 DEF Waiting
        <3>4. Place(t) \in 0 .. FifoSize - 1
            BY <1>1, <3>2, <3>3 DEF Place
        <3>5. status'[slot[t]] # ReceiveDone
            BY <1>1, <3>3 DEF PushAndSend, TypeOK, Push, Pop, ReceiveDone
        <3> QED
            BY <1>1, <1>10, <3>1, <3>2, <3>3, <3>4, <3>5 DEF At
    <2> QED
        BY <2>1, <2>2
<1>17. Words'
    <2>1. CASE counter = 0
        BY <1>7, <1>8, <2>1 DEF Words, Messages
    <2>2. CASE counter > 0
        <3>1. fifo'[readPoint] = fifo[readPoint]
            BY <1>1, <1>6, <1>7, <2>2 DEF TypeOK
        <3> QED
            BY <1>9, <2>2, <3>1 DEF Words
    <2> QED
        BY <1>1, <2>1, <2>2
<1> QED
    BY <1>11, <1>12, <1>13, <1>14, <1>16, <1>17

\* The interrupt takes the message of the event.
LEMMA ReceiveInv == CcciInv /\ Receive => CcciInv'
<1> SUFFICES ASSUME CcciInv, Receive PROVE CcciInv'
    OBVIOUS
<1> USE CcciAssumption DEF CcciInv
<1>1. failed = "none" /\ recvPc = "idle" /\ event /\ recvPc' = "callback"
    BY DEF Receive, ReceiverRuns
<1>2. UNCHANGED <<fifoVars, wire, ack, senderVars, ackPc, failed>>
    BY DEF Receive
<1> USE <1>2 DEF fifoVars, wire, senderVars
<1>3. ~Handed /\ Handed' /\ ~InAck
    BY <1>1 DEF Handed, InReceiver, OneOutstanding, OnWire
<1>4. TypeOK'
    <2>1. before' \in [Senders -> 0 .. FifoSize]
        BY DEF Receive, TypeOK
    <2>2. msg' \in Messages
        BY DEF Receive, TypeOK, Messages
    <2> QED
        BY <1>1, <2>1, <2>2 DEF TypeOK
<1>5. OneOutstanding' /\ NeverBusy' /\ Flow'
    BY <1>1, <1>3 DEF OneOutstanding, NeverBusy, Flow, OnWire, InReceiver, InAck
<1>6. Ring' /\ Words'
    BY DEF Ring, At, Words
<1>7. Waiting'
    <2> SUFFICES ASSUME NEW t \in Senders, pc[t] = "wait", before'[t] > 0
                 PROVE  /\ Place(t)' < counter /\ slot[t] = At(Place(t))'
                        /\ status[slot[t]] # ReceiveDone
        BY DEF Waiting
    <2>1. before[t] \in 0 .. FifoSize /\ before[t] > 0 /\ before'[t] = before[t] - 1
        BY DEF Receive, TypeOK
    <2>2. Place(t)' = Place(t)
        BY <1>3, <2>1 DEF Place
    <2> QED
        BY <1>1, <2>1, <2>2 DEF Waiting, At
<1> QED
    BY <1>4, <1>5, <1>6, <1>7

\* A step that leaves the FIFO, the waiting senders and who holds the oldest
\* message as they are leaves the waiting senders' places as they are.
LEMMA WaitingKept ==
    ASSUME Waiting, failed = "none", Handed' = Handed,
           UNCHANGED <<fifo, status, readPoint, counter, slot, before>>,
           \A s \in Senders : pc'[s] = "wait" => pc[s] = "wait"
    PROVE  Waiting'
BY DEF Waiting, Place, At

\* The receiver clears the event and answers it.
LEMMA ClearEventInv == CcciInv /\ ClearEvent => CcciInv'
<1> SUFFICES ASSUME CcciInv, ClearEvent PROVE CcciInv'
    OBVIOUS
<1> USE DEF CcciInv, ClearEvent, fifoVars, senderVars
<1>1. failed = "none" /\ recvPc = "callback" /\ recvPc' = "answer" /\ ~event'
    BY DEF ReceiverRuns
<1>2. TypeOK'
    BY <1>1 DEF TypeOK
<1>3. OneOutstanding' /\ NeverBusy' /\ Flow'
    BY <1>1 DEF OneOutstanding, NeverBusy, Flow, OnWire, InReceiver, InAck
<1>4. Ring' /\ Words'
    BY <1>1 DEF Ring, At, Words
<1>5. Waiting'
    BY <1>1, WaitingKept DEF Handed, InReceiver, InAck
<1> QED
    BY <1>2, <1>3, <1>4, <1>5

LEMMA SendAckInv == CcciInv /\ SendAck => CcciInv'
<1> SUFFICES ASSUME CcciInv, SendAck PROVE CcciInv'
    OBVIOUS
<1> USE DEF CcciInv, SendAck, fifoVars, senderVars, wire
<1>1. failed = "none" /\ recvPc = "answer" /\ recvPc' = "idle" /\ ~event /\ event' = event
    BY DEF ReceiverRuns, Flow
<1>2. ~InAck /\ counter > 0
    BY <1>1 DEF OneOutstanding, InReceiver
<1>3. CASE ~ack
    <2>1. failed' = "none" /\ ack' = TRUE /\ ackPc = "idle" /\ ackPc' = ackPc
        BY <1>1, <1>3 DEF Flow, TypeOK
    <2>2. TypeOK'
        BY <1>1, <2>1 DEF TypeOK
    <2>3. OneOutstanding' /\ NeverBusy' /\ Flow'
        BY <1>1, <1>2, <2>1 DEF OneOutstanding, NeverBusy, Flow, OnWire, InReceiver, InAck
    <2>4. Ring' /\ Words'
        BY <1>1 DEF Ring, At, Words
    <2>5. Handed /\ Handed'
        BY <1>1, <2>1 DEF Handed, InReceiver, InAck
    <2>6. Waiting'
        BY <1>1, <2>5, WaitingKept
    <2> QED
        BY <2>2, <2>3, <2>4, <2>6
<1>4. CASE ack
    <2>1. failed' = "ack" /\ ack' = ack /\ ~Prompt
        BY <1>2, <1>4 DEF InAck, ReceiverRuns
    <2>2. TypeOK'
        BY <1>1, <2>1 DEF TypeOK
    <2>3. /\ OneOutstanding' /\ NeverBusy' /\ Flow' /\ Words' /\ Waiting'
        BY <2>1 DEF OneOutstanding, NeverBusy, Flow, Words, Waiting
    <2>4. Ring'
        BY DEF Ring, At
    <2> QED
        BY <2>2, <2>3, <2>4
<1> QED
    BY <1>3, <1>4

\* The ACK handler takes the oldest message off the FIFO and sends the next.
LEMMA AckReceivedInv == CcciInv /\ AckReceived => CcciInv'
<1> SUFFICES ASSUME CcciInv, AckReceived PROVE CcciInv'
    OBVIOUS
<1> USE CcciAssumption DEF CcciInv
<1>1. failed = "none" /\ ack /\ ackPc = "idle" /\ ackPc' = "clear"
    BY DEF AckReceived
<1>2. UNCHANGED <<fifo, writePoint, ack, senderVars, recvPc, msg, before>>
    BY DEF AckReceived
<1>3. counter > 0 /\ recvPc = "idle" /\ ~event
    BY <1>1 DEF OneOutstanding, InAck, InReceiver, OnWire, TypeOK
<1>4. /\ counter \in 1 .. FifoSize /\ counter' = counter - 1
      /\ readPoint \in Slots /\ readPoint' \in Slots
      /\ readPoint' = IF readPoint + 1 = FifoSize THEN 0 ELSE readPoint + 1
    BY <1>3, NextSlot DEF AckReceived, TypeOK, Slots
<1>5. /\ failed' = "none"
      /\ counter' = 0 => UNCHANGED wire
      /\ counter' > 0 => /\ event' = TRUE /\ word' = fifo[readPoint'].data
                         /\ word2' = fifo[readPoint'].data2
    BY <1>1, <1>3, <1>4 DEF AckReceived, SetEvent
<1>6. TypeOK'
    <2>1. status' \in [Slots -> Idle .. ReceiveDone]
        BY <1>4 DEF TypeOK, AckReceived, Idle, Pop, ReceiveDone
    <2>2. fifo[readPoint'].data \in Parts /\ fifo[readPoint'].data2 \in Parts
        BY <1>4, Fields DEF TypeOK
    <2>3. event \in BOOLEAN /\ word \in Parts /\ word2 \in Parts
        BY DEF TypeOK
    <2>4. counter' = 0 \/ counter' > 0
        BY <1>4
    <2>5. event' \in BOOLEAN /\ word' \in Parts /\ word2' \in Parts
        BY <1>5, <2>2, <2>3, <2>4 DEF wire
    <2>6. counter' \in 0 .. FifoSize
        BY <1>4
    <2> QED
        BY <1>1, <1>2, <1>4, <1>5, <2>1, <2>5, <2>6 DEF TypeOK, senderVars
<1>7. OneOutstanding' /\ NeverBusy' /\ Flow'
    BY <1>1, <1>2, <1>3, <1>4, <1>5
    DEF OneOutstanding, NeverBusy, Flow, OnWire, InReceiver, InAck, wire
<1>8. Ring'
    BY <1>2, <1>4 DEF Ring, At, TypeOK, Slots
<1>9. Words'
    <2>1. CASE counter' = 0
        BY <1>3, <1>5, <2>1 DEF Words, wire
    <2>2. CASE counter' > 0
        <3>1. fifo[readPoint'] \in Messages
            BY <1>4 DEF TypeOK
        <3> QED
            BY <1>2, <1>5, <2>2, <3>1 DEF Words, Messages
    <2> QED
        BY <1>4, <2>1, <2>2
<1>10. Handed /\ ~Handed'
    BY <1>1, <1>2, <1>3 DEF Handed, InReceiver, InAck
<1>11. Waiting'
    <2> SUFFICES ASSUME NEW t \in Senders, pc[t] = "wait", before[t] > 0
                 PROVE  /\ Place(t)' < counter' /\ slot[t] = At(Place(t))'
                        /\ status'[slot[t]] # ReceiveDone
        BY <1>2 DEF Waiting, senderVars
    <2>1. before[t] \in 1 .. FifoSize /\ before'[t] = before[t] /\ slot[t] \in Slots
        BY <1>2 DEF TypeOK
    <2>2. Place(t) = before[t] /\ Place(t)' = before[t] - 1
        BY <1>10, <2>1 DEF Place
    <2>3. before[t] < counter /\ slot[t] = At(before[t]) /\ status[slot[t]] # ReceiveDone
        BY <1>1, <2>2 DEF Waiting
    <2>4. At(before[t]) # readPoint
        BY <1>4, <2>1, <2>3 DEF At, Slots
    <2>5. status'[slot[t]] # ReceiveDone
        <3> DEFINE done == [status EXCEPT ![readPoint] = ReceiveDone]
        <3>1. status' = [done EXCEPT ![readPoint'] = Pop]
            BY <1>4, <2>1, <2>3 DEF AckReceived
        <3>2. slot[t] # readPoint
            BY <2>3, <2>4
        <3>3. done \in [Slots -> Idle .. ReceiveDone] /\ done[slot[t]] # ReceiveDone
            BY <2>1, <2>3, <3>2 DEF TypeOK, Idle, ReceiveDone
        <3>4. CASE slot[t] = readPoint'
            BY <1>4, <3>1, <3>3, <3>4 DEF Pop, ReceiveDone
        <3>5. CASE slot[t] # readPoint'
            BY <2>1, <3>1, <3>3, <3>5
        <3> QED
            BY <3>4, <3>5
    <2>6. slot[t] = At(Place(t))'
        BY <1>4, <2>1, <2>2, <2>3 DEF At, Slots
    <2> QED
        BY <1>4, <2>1, <2>2, <2>3, <2>5, <2>6
<1> QED
    BY <1>6, <1>7, <1>8, <1>9, <1>11

LEMMA AckClearInv == CcciInv /\ AckClear => CcciInv'
<1> SUFFICES ASSUME CcciInv, AckClear PROVE CcciInv'
    OBVIOUS
<1> USE DEF CcciInv, AckClear, fifoVars, senderVars, wire
<1>1. failed = "none" /\ ackPc = "clear" /\ ackPc' = "idle" /\ ~ack'
    OBVIOUS
<1>2. TypeOK'
    BY <1>1 DEF TypeOK
<1>3. OneOutstanding' /\ NeverBusy' /\ Flow'
    BY <1>1 DEF OneOutstanding, NeverBusy, Flow, OnWire, InReceiver, InAck
<1>4. Ring' /\ Words'
    BY <1>1 DEF Ring, At, Words
<1>5. Waiting'
    BY <1>1, WaitingKept DEF Handed, InReceiver, InAck
<1> QED
    BY <1>2, <1>3, <1>4, <1>5

\* A sender that begins to wait for room, and one that returns.
LEMMA SenderMovesInv ==
    ASSUME CcciInv, UNCHANGED <<fifoVars, wire, ack, slot, ackPc, recvPc, msg, failed, before>>,
           call' \in [Senders -> [msg : Messages, wait : BOOLEAN]],
           pc' \in [Senders -> {"idle", "full", "wait"}],
           \A t \in Senders : pc'[t] = "wait" => pc[t] = "wait"
    PROVE  CcciInv'
<1> USE DEF CcciInv, fifoVars, wire
<1>1. TypeOK'
    BY DEF TypeOK
<1>2. OneOutstanding' /\ NeverBusy' /\ Flow'
    BY DEF OneOutstanding, NeverBusy, Flow, OnWire, InReceiver, InAck
<1>3. Ring' /\ Words'
    BY DEF Ring, At, Words
<1>4. Waiting'
    <2>1. CASE failed = "none"
        BY <2>1, WaitingKept DEF Handed, InReceiver, InAck
    <2>2. CASE failed # "none"
        BY <2>2 DEF Waiting
    <2> QED
        BY <2>1, <2>2
<1> QED
    BY <1>1, <1>2, <1>3, <1>4

LEMMA SendInv ==
    ASSUME CcciInv, NEW s \in Senders, Send(s)
    PROVE  CcciInv'
<1>1. PICK m \in Messages, w \in BOOLEAN :
          SendMsg(s, [msg |-> m, wait |-> w]) \/ SendFull(s, [msg |-> m, wait |-> w])
    BY DEF Send
<1>2. [msg |-> m, wait |-> w] \in [msg : Messages, wait : BOOLEAN]
    OBVIOUS
<1>3. CASE SendMsg(s, [msg |-> m, wait |-> w])
    BY <1>2, <1>3, PushAndSendInv DEF SendMsg
<1>4. CASE SendFull(s, [msg |-> m, wait |-> w])
    <2>1. TypeOK
        BY DEF CcciInv
    <2>2. call' \in [Senders -> [msg : Messages, wait : BOOLEAN]]
        BY <1>2, <1>4, <2>1 DEF SendFull, TypeOK
    <2>3. /\ pc' \in [Senders -> {"idle", "full", "wait"}]
          /\ \A t \in Senders : pc'[t] = "wait" => pc[t] = "wait"
        BY <1>4, <2>1 DEF SendFull, TypeOK
    <2> QED
        BY <1>4, <2>2, <2>3, SenderMovesInv DEF SendFull
<1> QED
    BY <1>1, <1>3, <1>4

LEMMA SendRetryInv ==
    ASSUME CcciInv, NEW s \in Senders, SendRetry(s)
    PROVE  CcciInv'
<1>1. call[s] \in [msg : Messages, wait : BOOLEAN]
    BY DEF CcciInv, TypeOK
<1> QED
    BY <1>1, PushAndSendInv DEF SendRetry

LEMMA WaitDoneInv ==
    ASSUME CcciInv, NEW s \in Senders, WaitDone(s)
    PROVE  CcciInv'
<1>1. TypeOK
    BY DEF CcciInv
<1>2. call' \in [Senders -> [msg : Messages, wait : BOOLEAN]]
    BY <1>1 DEF WaitDone, TypeOK
<1>3. /\ pc' \in [Senders -> {"idle", "full", "wait"}]
      /\ \A t \in Senders : pc'[t] = "wait" => pc[t] = "wait"
    BY <1>1 DEF WaitDone, TypeOK
<1> QED
    BY <1>2, <1>3, SenderMovesInv DEF WaitDone

\* Every step keeps the invariant.
LEMMA NextInv == CcciInv /\ [Next]_vars => CcciInv'
<1> SUFFICES ASSUME CcciInv, [Next]_vars PROVE CcciInv'
    OBVIOUS
<1>1. CASE Receiver
    BY <1>1, ReceiveInv, ClearEventInv, SendAckInv DEF Receiver
<1>2. CASE AckHandler
    BY <1>2, AckReceivedInv, AckClearInv DEF AckHandler
<1>3. ASSUME NEW s \in Senders, Send(s) \/ SendRetry(s) \/ WaitDone(s)
      PROVE  CcciInv'
    BY <1>3, SendInv, SendRetryInv, WaitDoneInv
<1>4. CASE UNCHANGED vars
    BY <1>4 DEF vars, CcciInv, TypeOK, OneOutstanding, NeverBusy, Flow, Ring, Waiting, Words,
                OnWire, InReceiver, InAck, At, Handed, Place
<1> QED
    BY <1>1, <1>2, <1>3, <1>4 DEF Next

\* The state of both cores, the FIFO and the events stays well typed and the
\* parts of the invariant hold (ccci.c:331-564).
THEOREM Invariance == Spec => []CcciInv
<1> QED
    BY InitInv, NextInv, PTL DEF Spec

\* Exactly one message is on its way while the FIFO holds any, so no event is
\* sent over one not answered, and neither "should not busy" assertion of the
\* sending core is ever hit (ccci.c:443, 537).
THEOREM Channels == Spec => [](OneOutstanding /\ NeverBusy)
<1>1. CcciInv => OneOutstanding /\ NeverBusy
    BY DEF CcciInv
<1> QED
    BY <1>1, Invariance, PTL

\* Only the poll that sees its slot done ends the waiting of a sender.
LEMMA OnlyWaitDone ==
    ASSUME TypeOK, Next, NEW s \in Senders, pc[s] = "wait", pc'[s] = "idle"
    PROVE  WaitDone(s)
<1>1. CASE Receiver
    BY <1>1 DEF Receiver, Receive, ClearEvent, SendAck, senderVars
<1>2. CASE AckHandler
    BY <1>2 DEF AckHandler, AckReceived, AckClear, senderVars
<1>3. ASSUME NEW t \in Senders, Send(t) PROVE FALSE
    <2>1. pc' = [pc EXCEPT ![t] = pc'[t]] /\ pc[t] = "idle"
        BY <1>3 DEF Send, SendMsg, SendFull, PushAndSend, TypeOK
    <2> QED
        BY <2>1 DEF TypeOK
<1>4. ASSUME NEW t \in Senders, SendRetry(t) PROVE FALSE
    <2>1. pc' = [pc EXCEPT ![t] = pc'[t]] /\ pc[t] = "full"
        BY <1>4 DEF SendRetry, PushAndSend, TypeOK
    <2> QED
        BY <2>1 DEF TypeOK
<1>5. ASSUME NEW t \in Senders, WaitDone(t) PROVE t = s
    BY <1>5 DEF WaitDone, TypeOK
<1> QED
    BY <1>1, <1>2, <1>3, <1>4, <1>5 DEF Next

\* A call that waits for reception returns after the callback had its message
\* (ccci.c:364-376): the slot it polls is not marked done before.
THEOREM Received == Spec => WaitMeansReceived
<1>1. CcciInv /\ [Next]_vars =>
          [\A s \in Senders : pc[s] = "wait" /\ pc'[s] = "idle" => before[s] = 0]_vars
    <2> SUFFICES ASSUME CcciInv, Next, NEW s \in Senders, pc[s] = "wait", pc'[s] = "idle"
                 PROVE  before[s] = 0
        OBVIOUS
    <2>1. TypeOK /\ Waiting
        BY DEF CcciInv
    <2>2. WaitDone(s)
        BY <2>1, OnlyWaitDone
    <2>3. status[slot[s]] = ReceiveDone /\ failed = "none"
        BY <2>1, <2>2 DEF WaitDone, SenderRuns, TypeOK, Idle, ReceiveDone
    <2>4. before[s] \in 0 .. FifoSize
        BY <2>1 DEF TypeOK
    <2> QED
        BY <2>1, <2>3, <2>4, CcciAssumption DEF Waiting
<1> QED
    BY <1>1, Invariance, PTL DEF Spec, WaitMeansReceived

-----------------------------------------------------------------------------
(* The FIFO implements the abstract channel when the ACK handler is prompt. *)

LEMMA FunctionSeq ==
    ASSUME NEW S, NEW n \in Nat, NEW f \in [1 .. n -> S]
    PROVE  f \in Seq(S) /\ Len(f) = n
<1>1. f \in Seq(S)
    BY SeqDef
<1>2. DOMAIN f = 1 .. n /\ DOMAIN f = 1 .. Len(f) /\ Len(f) \in Nat
    BY <1>1, LenProperties
<1> QED
    BY <1>1, <1>2

\* The messages left are a sequence.
LEMMA UndoneSeq ==
    ASSUME TypeOK, OneOutstanding, failed = "none"
    PROVE  /\ Left \in 0 .. FifoSize /\ (Handed => counter > 0)
           /\ counter - Left = IF Handed THEN 1 ELSE 0
           /\ Undone \in Seq(Messages) /\ Len(Undone) = Left
           /\ \A i \in 1 .. Left : Undone[i] = fifo[At(counter - Left + i - 1)]
<1>1. counter \in 0 .. FifoSize /\ (Handed => counter > 0)
    BY DEF TypeOK, OneOutstanding, Handed
<1>2. /\ Left \in 0 .. FifoSize /\ counter - Left = IF Handed THEN 1 ELSE 0
      /\ \A i \in 1 .. Left : counter - Left + i - 1 \in 0 .. FifoSize
    BY <1>1, CcciAssumption DEF Left
<1>3. \A i \in 1 .. Left : fifo[At(counter - Left + i - 1)] \in Messages
    BY <1>2, Places DEF TypeOK
<1>4. Undone \in [1 .. Left -> Messages]
    BY <1>3 DEF Undone
<1>5. Undone \in Seq(Messages) /\ Len(Undone) = Left
    BY <1>2, <1>4, FunctionSeq
<1> QED
    BY <1>1, <1>2, <1>5 DEF Undone

\* A step that leaves the FIFO and who holds the oldest message as they are is no
\* step of the channel.
LEMMA ChannelStutter ==
    ASSUME UNCHANGED <<fifo, readPoint, counter, msg>>, Handed' = Handed
    PROVE  UNCHANGED <<Undone, msg>>
BY DEF Undone, Left, At

LEMMA AcceptStep ==
    ASSUME CcciInv, CcciInv', SenderRuns, HasRoom,
           NEW s \in Senders, NEW c \in [msg : Messages, wait : BOOLEAN],
           PushAndSend(s, c), UNCHANGED <<readPoint, ack, ackPc, recvPc, msg>>,
           failed' = "none"
    PROVE  Channel!Accept(c.msg)
<1> USE CcciAssumption DEF CcciInv
<1>1. failed = "none" /\ counter \in 0 .. FifoSize - 1 /\ readPoint \in Slots /\ writePoint \in Slots
    BY DEF SenderRuns, HasRoom, TypeOK
<1>2. Handed' = Handed /\ counter' = counter + 1 /\ writePoint = At(counter)
    BY DEF Handed, InReceiver, InAck, Ring, PushAndSend
<1>3. fifo' = [fifo EXCEPT ![writePoint] = c.msg] /\ c.msg \in Messages
    BY DEF PushAndSend
<1>4. /\ Left \in 0 .. FifoSize /\ (Handed => counter > 0)
      /\ counter - Left = IF Handed THEN 1 ELSE 0
      /\ Undone \in Seq(Messages) /\ Len(Undone) = Left
      /\ \A i \in 1 .. Left : Undone[i] = fifo[At(counter - Left + i - 1)]
    BY <1>1, UndoneSeq
<1>5. Left' = Left + 1 /\ (counter - Left)' = counter - Left
    BY <1>1, <1>2 DEF Left
<1>6. Append(Undone, c.msg) = Undone'
    <2> DEFINE a == Append(Undone, c.msg)
    <2>1. a \in Seq(Messages) /\ Len(a) = Left + 1
        BY <1>3, <1>4
    <2>2. a = [i \in 1 .. Left + 1 |-> a[i]]
        BY <2>1, LenProperties
    <2>3. ASSUME NEW i \in 1 .. Left + 1
          PROVE  a[i] = fifo'[At(counter - Left + i - 1)]
        <3>1. CASE i = Left + 1
            <4>1. counter - Left + i - 1 = counter
                BY <1>1, <1>4, <3>1
            <4>2. a[i] = c.msg
                BY <1>3, <1>4, <3>1
            <4> QED
                BY <1>1, <1>2, <1>3, <4>1, <4>2 DEF TypeOK
        <3>2. CASE i # Left + 1
            <4>1. i \in 1 .. Left /\ a[i] = Undone[i]
                BY <1>3, <1>4, <3>2
            <4>2. counter - Left + i - 1 \in 0 .. counter - 1
                BY <1>1, <1>4, <4>1
            <4>3. At(counter - Left + i - 1) # writePoint
                BY <1>1, <1>2, <4>2, Places
            <4>4. At(counter - Left + i - 1) \in Slots
                BY <1>1, <4>2, Places
            <4> QED
                BY <1>1, <1>3, <1>4, <4>1, <4>3, <4>4 DEF TypeOK
        <3> QED
            BY <3>1, <3>2
    <2>4. Undone' = [i \in 1 .. Left + 1 |-> fifo'[At(counter - Left + i - 1)]]
        BY <1>5 DEF Undone, At
    <2>5. a = Undone'
        <3> HIDE DEF a
        <3>1. [i \in 1 .. Left + 1 |-> a[i]]
              = [i \in 1 .. Left + 1 |-> fifo'[At(counter - Left + i - 1)]]
            BY <2>3
        <3> QED
            BY <2>2, <2>4, <3>1
    <2> QED
        BY <2>5
<1> QED
    BY <1>1, <1>4, <1>6 DEF Channel!Accept

\* The receiver's interrupt hands over the head of the channel.
LEMMA HandStep == CcciInv /\ Receive => Channel!Hand
<1> SUFFICES ASSUME CcciInv, Receive PROVE Channel!Hand
    OBVIOUS
<1> USE CcciAssumption DEF CcciInv
<1>1. failed = "none" /\ recvPc = "idle" /\ event /\ recvPc' = "callback"
    BY DEF Receive, ReceiverRuns
<1>2. UNCHANGED <<fifo, readPoint, counter>>
    BY DEF Receive, fifoVars
<1>3. ~Handed /\ Handed' /\ counter > 0 /\ counter \in 0 .. FifoSize
    BY <1>1 DEF Handed, InReceiver, OneOutstanding, OnWire, TypeOK
<1>4. Left = counter /\ Left' = counter - 1 /\ (counter - Left)' = 1
    BY <1>2, <1>3 DEF Left
<1>5. /\ Undone \in Seq(Messages) /\ Len(Undone) = counter
      /\ \A i \in 1 .. counter : Undone[i] = fifo[At(i - 1)]
    BY <1>1, <1>3, <1>4, UndoneSeq
<1>6. Undone # <<>> /\ msg' = Head(Undone)
    <2>1. Undone # <<>> /\ Head(Undone) = Undone[1]
        BY <1>3, <1>5
    <2>2. Undone[1] = fifo[readPoint]
        BY <1>3, <1>5, Places DEF TypeOK
    <2>3. msg' = fifo[readPoint]
        BY <1>1 DEF Receive, Words
    <2> QED
        BY <2>1, <2>2, <2>3
<1>7. Undone' = Tail(Undone)
    <2> DEFINE t == Tail(Undone)
    <2>1. t \in Seq(Messages) /\ Len(t) = counter - 1
        BY <1>3, <1>5, <1>6
    <2>2. t = [i \in 1 .. counter - 1 |-> t[i]]
        BY <2>1, LenProperties
    <2>3. ASSUME NEW i \in 1 .. counter - 1 PROVE t[i] = fifo[At(i)]
        <3>1. t[i] = Undone[i + 1]
            BY <1>3, <1>5, <1>6
        <3>2. i + 1 \in 1 .. counter /\ i + 1 - 1 = i
            BY <1>3
        <3> QED
            BY <1>5, <3>1, <3>2
    <2>4. Undone' = [i \in 1 .. counter - 1 |-> fifo[At(i)]]
        <3>1. Undone' = [i \in 1 .. Left' |-> fifo[At((counter - Left)' + i - 1)]]
            BY <1>2 DEF Undone, At
        <3>2. \A i \in 1 .. counter - 1 : 1 + i - 1 = i
            BY <1>3
        <3> QED
            BY <1>4, <3>1, <3>2
    <2>5. t = Undone'
        <3> HIDE DEF t
        <3>1. [i \in 1 .. counter - 1 |-> t[i]] = [i \in 1 .. counter - 1 |-> fifo[At(i)]]
            BY <2>3
        <3> QED
            BY <2>2, <2>4, <3>1
    <2> QED
        BY <2>5
<1> QED
    BY <1>6, <1>7 DEF Channel!Hand

\* The ACK handler changes nothing of what is left.
LEMMA AckStutter == CcciInv /\ AckReceived => UNCHANGED <<Undone, msg>>
<1> SUFFICES ASSUME CcciInv, AckReceived PROVE UNCHANGED <<Undone, msg>>
    OBVIOUS
<1> USE CcciAssumption DEF CcciInv
<1>1. failed = "none" /\ ack /\ ackPc = "idle" /\ ackPc' = "clear"
    BY DEF AckReceived
<1>2. UNCHANGED <<fifo, ack, recvPc, msg>>
    BY DEF AckReceived
<1>3. recvPc = "idle" /\ Handed /\ ~Handed' /\ counter \in 1 .. FifoSize
    BY <1>1, <1>2 DEF OneOutstanding, Handed, InAck, InReceiver, TypeOK
<1>4. /\ readPoint \in Slots /\ counter' = counter - 1
      /\ readPoint' = IF readPoint + 1 = FifoSize THEN 0 ELSE readPoint + 1
    BY NextSlot DEF AckReceived, TypeOK
<1>5. Left = counter - 1 /\ Left' = Left /\ counter - Left = 1 /\ (counter - Left)' = 0
    BY <1>3, <1>4 DEF Left
<1>6. \A i \in 1 .. counter - 1 : At(1 + i - 1) = At(i) /\ At(0 + i - 1)' = At(i)
    <2> SUFFICES ASSUME NEW i \in 1 .. counter - 1
                 PROVE  At(1 + i - 1) = At(i) /\ At(0 + i - 1)' = At(i)
        OBVIOUS
    <2>1. i \in 1 .. FifoSize - 1
        BY <1>3
    <2> QED
        BY <1>4, <2>1 DEF At, Slots
<1>7. Undone = [i \in 1 .. counter - 1 |-> fifo[At(1 + i - 1)]]
    BY <1>5 DEF Undone
<1>8. Undone' = [i \in 1 .. counter - 1 |-> fifo[At(0 + i - 1)']]
    BY <1>2, <1>5 DEF Undone, At
<1>9. [i \in 1 .. counter - 1 |-> fifo[At(1 + i - 1)]]
      = [i \in 1 .. counter - 1 |-> fifo[At(0 + i - 1)']]
    BY <1>6
<1> QED
    BY <1>2, <1>7, <1>8, <1>9

\* Every other step is no step of the channel.
LEMMA ChannelStep ==
    ASSUME CcciInv, CcciInv', [Next]_vars, Prompt
    PROVE  [Channel!Next]_<<Undone, msg>>
<1>1. failed = "none" /\ failed' = "none"
    BY DEF CcciInv, NeverBusy
<1>2. CASE Receive
    BY <1>2, HandStep DEF Channel!Next
<1>3. CASE ClearEvent
    BY <1>3, ChannelStutter DEF ClearEvent, fifoVars, Handed, InReceiver, InAck
<1>4. CASE SendAck
    <2>1. Handed /\ Handed'
        BY <1>1, <1>4 DEF SendAck, Handed, InReceiver, InAck, ReceiverRuns
    <2> QED
        BY <1>4, <2>1, ChannelStutter DEF SendAck, fifoVars
<1>5. CASE AckReceived
    BY <1>5, AckStutter
<1>6. CASE AckClear
    <2>1. Handed' = Handed
        BY <1>6 DEF AckClear, Handed, InReceiver, InAck
    <2> QED
        BY <1>6, <2>1, ChannelStutter DEF AckClear, fifoVars
<1>7. ASSUME NEW s \in Senders, Send(s) PROVE [Channel!Next]_<<Undone, msg>>
    <2>1. PICK m \in Messages, w \in BOOLEAN :
              SendMsg(s, [msg |-> m, wait |-> w]) \/ SendFull(s, [msg |-> m, wait |-> w])
        BY <1>7 DEF Send
    <2>2. CASE SendMsg(s, [msg |-> m, wait |-> w])
        <3>1. Channel!Accept(m)
            BY <1>1, <2>2, AcceptStep DEF SendMsg
        <3> QED
            BY <3>1 DEF Channel!Next
    <2>3. CASE SendFull(s, [msg |-> m, wait |-> w])
        BY <2>3, ChannelStutter DEF SendFull, fifoVars, Handed, InReceiver, InAck
    <2> QED
        BY <2>1, <2>2, <2>3
<1>8. ASSUME NEW s \in Senders, SendRetry(s) PROVE [Channel!Next]_<<Undone, msg>>
    <2>1. call[s] \in [msg : Messages, wait : BOOLEAN]
        BY DEF CcciInv, TypeOK
    <2>2. Channel!Accept(call[s].msg) /\ call[s].msg \in Messages
        BY <1>1, <1>8, <2>1, AcceptStep DEF SendRetry
    <2> QED
        BY <2>2 DEF Channel!Next
<1>9. ASSUME NEW s \in Senders, WaitDone(s) PROVE [Channel!Next]_<<Undone, msg>>
    BY <1>9, ChannelStutter DEF WaitDone, fifoVars, Handed, InReceiver, InAck
<1>10. CASE UNCHANGED vars
    BY <1>10, ChannelStutter DEF vars, Handed, InReceiver, InAck
<1> QED
    BY <1>2, <1>3, <1>4, <1>5, <1>6, <1>7, <1>8, <1>9, <1>10 DEF Next, Receiver, AckHandler

\* With an ACK handler that ends before what it sent is answered, every accepted
\* message is handed to the receiver's callback once, whole and in order.
THEOREM Implements ==
    ASSUME Prompt
    PROVE  Spec => ChannelSpec
<1>1. Init => Channel!Init
    <2> SUFFICES ASSUME Init PROVE Channel!Init
        OBVIOUS
    <2>1. CcciInv /\ counter = 0 /\ failed = "none"
        BY InitInv DEF Init
    <2>2. ~Handed /\ Left = 0
        BY <2>1 DEF Left, Handed, InReceiver, InAck, Init
    <2>3. Undone = <<>>
        BY <2>1, <2>2, UndoneSeq, EmptySeq DEF CcciInv
    <2> QED
        BY <2>1, <2>3 DEF Channel!Init, CcciInv, TypeOK
<1>2. CcciInv /\ CcciInv' /\ [Next]_vars => [Channel!Next]_<<Undone, msg>>
    BY ChannelStep
<1> QED
    BY <1>1, <1>2, Invariance, PTL DEF Spec, ChannelSpec, Channel!Spec

(***************************************************************************)
(* Part 2: the update.                                                     *)
(***************************************************************************)

\* Without faults every operation of the flash succeeds: what the steps that use it do.
LEMMA NoFault ==
    ASSUME ~Faulty
    PROVE  /\ EraseLast => first' = "blank" /\ marker' = "blank"
           /\ Boot => runs' = IF marker = "marker" \/ first = "magic" THEN "check" ELSE "app"
           /\ Check => runs' = IF tmp \in Packages THEN "mark" ELSE "status"
           /\ Mark => runs' = IF marker = "marker" THEN "erase" ELSE "markErase"
           /\ MarkWrite => /\ first' = "zero" /\ marker' = Programmed(marker, "marker")
                           /\ runs' = "erase"
           /\ EraseBlock => image' = [image EXCEPT ![at] = Blank] /\ runs' = "program"
           /\ ProgramBlock => /\ image' = [image EXCEPT ![at] = tmp]
                              /\ runs' = IF at = Size THEN "status" ELSE "erase"
                              /\ at' = IF at = Size THEN at ELSE at + 1
<1>1. Outcomes = {TRUE}
    BY DEF Outcomes
<1>2. EraseLast => first' = "blank" /\ marker' = "blank"
    BY <1>1, Zenon DEF EraseLast
<1>3. Mark => runs' = IF marker = "marker" THEN "erase" ELSE "markErase"
    BY <1>1, Zenon DEF Mark, Marked
<1>4. MarkWrite => first' = "zero" /\ marker' = Programmed(marker, "marker") /\ runs' = "erase"
    BY <1>1, Zenon DEF MarkWrite
<1>5. EraseBlock => image' = [image EXCEPT ![at] = Blank] /\ runs' = "program"
    BY <1>1, Zenon DEF EraseBlock
<1>6. ProgramBlock => /\ image' = [image EXCEPT ![at] = tmp]
                      /\ runs' = IF at = Size THEN "status" ELSE "erase"
                      /\ at' = IF at = Size THEN at ELSE at + 1
    BY <1>1, Zenon DEF ProgramBlock
<1>7. Boot => runs' = IF marker = "marker" \/ first = "magic" THEN "check" ELSE "app"
    BY <1>1, Zenon DEF Boot, Marked, Triggered
<1>8. Check => runs' = IF tmp \in Packages THEN "mark" ELSE "status"
    BY <1>1, Zenon DEF Check, Intact
<1> QED
    BY <1>2, <1>3, <1>4, <1>5, <1>6, <1>7, <1>8

\* The first block tells which version a whole firmware is.
LEMMA FirstBlock ==
    ASSUME FotaInv, Whole
    PROVE  image[1] \in Packages /\ Holds(image[1])
<1>1. 1 \in Blocks
    BY FotaAssumption DEF Blocks
<1>2. PICK p \in Packages : Holds(p)
    BY DEF Whole
<1> QED
    BY <1>1, <1>2 DEF Holds

\* The initial states satisfy the inductive invariant.
LEMMA DeliveredInv == FotaInit => FotaInv
<1> SUFFICES ASSUME FotaInit PROVE FotaInv
    OBVIOUS
<1>1. 1 \in Blocks
    BY FotaAssumption DEF Blocks
<1>2. PICK p \in Packages : image = [b \in Blocks |-> p]
    BY DEF FotaInit
<1>3. Whole
    BY <1>2 DEF Whole, Holds
<1>4. FotaTypeOK
    BY <1>1, <1>2 DEF FotaInit, FotaTypeOK, Application, Steps
<1> QED
    BY <1>3, <1>4 DEF FotaInit, FotaInv, Resumable, Copying

\* The steps that leave the firmware alone.
LEMMA QuietInv ==
    ASSUME ~Faulty, FotaInv,
           \/ BeginDownload \/ TriggerErase \/ TriggerWrite \/ Reset \/ PowerLoss
           \/ Boot \/ Check \/ Mark \/ MarkErase \/ MarkWrite \/ StatusErase \/ StatusWrite
           \/ \E p \in Packages : EndDownload(p)
    PROVE  FotaInv' /\ (Whole' <=> Whole)
<1> USE DEF FotaInv
<1>1. UNCHANGED image /\ (Whole' <=> Whole)
    BY DEF BeginDownload, EndDownload, TriggerErase, TriggerWrite, Reset, PowerLoss, Boot, Check,
           Mark, MarkErase, MarkWrite, StatusErase, StatusWrite, Whole, Holds
<1>2. 1 \in Blocks /\ \A b \in Blocks : ~(b < 1)
    BY FotaAssumption DEF Blocks
<1>3. CASE BeginDownload \/ Reset \/ \E p \in Packages : EndDownload(p)
    BY <1>1, <1>3 DEF BeginDownload, EndDownload, Reset, FotaTypeOK, Resumable, Copying, Application, Steps
<1>4. CASE TriggerErase \/ TriggerWrite
    BY <1>1, <1>4 DEF TriggerErase, TriggerWrite, FotaTypeOK, Resumable, Copying, Application, Steps
<1>5. CASE PowerLoss \/ Boot \/ Check
    BY <1>1, <1>5, NoFault DEF PowerLoss, Boot, Check, FotaTypeOK, Resumable, Copying, Application, Steps
<1>6. CASE Mark
    BY <1>1, <1>2, <1>6, NoFault DEF Mark, FotaTypeOK, Resumable, Copying, Application, Steps
<1>7. CASE MarkErase
    BY <1>1, <1>7, NoFault DEF MarkErase, FotaTypeOK, Resumable, Copying, Application, Steps
<1>8. CASE MarkWrite
    BY <1>1, <1>2, <1>8, NoFault DEF MarkWrite, Programmed, FotaTypeOK, Resumable, Copying, Application, Steps
<1>9. CASE StatusErase \/ StatusWrite
    BY <1>1, <1>9, FotaAssumption
       DEF StatusErase, StatusWrite, EraseLast, Programmed, FotaTypeOK, Resumable, Copying, Application, Steps
<1> QED
    BY <1>1, <1>3, <1>4, <1>5, <1>6, <1>7, <1>8, <1>9

\* Erasing the next block keeps the blocks already copied.
LEMMA EraseInv ==
    ASSUME ~Faulty, FotaInv, EraseBlock
    PROVE  FotaInv' /\ ~Whole'
<1> USE DEF FotaInv
<1>1. /\ at \in Blocks /\ image' = [image EXCEPT ![at] = Blank] /\ runs = "erase" /\ runs' = "program"
      /\ UNCHANGED <<tmp, first, marker, at>>
    BY NoFault DEF EraseBlock, FotaTypeOK
<1>2. image'[at] = Blank
    BY <1>1 DEF FotaTypeOK
<1>3. ~Whole'
    BY <1>1, <1>2, FotaAssumption DEF Whole, Holds
<1>4. FotaTypeOK'
    BY <1>1 DEF FotaTypeOK, Steps
<1>5. \A b \in Blocks : b < at => image'[b] = tmp
    BY <1>1 DEF FotaTypeOK, Copying, Blocks
<1> QED
    BY <1>1, <1>3, <1>4, <1>5 DEF Resumable, Copying

\* Programming the last block makes the firmware whole again.
LEMMA ProgramInv ==
    ASSUME ~Faulty, FotaInv, ProgramBlock
    PROVE  FotaInv' /\ tmp \in Packages /\ image'[at] = tmp /\ UNCHANGED tmp
<1> USE DEF FotaInv
<1>1. /\ at \in Blocks /\ image' = [image EXCEPT ![at] = tmp] /\ runs = "program"
      /\ UNCHANGED <<tmp, first, marker>>
    BY NoFault DEF ProgramBlock, FotaTypeOK
<1>2. tmp \in Packages /\ marker = "marker" /\ \A b \in Blocks : b < at => image[b] = tmp
    BY <1>1 DEF Copying
<1>3. image'[at] = tmp /\ \A b \in Blocks : b # at => image'[b] = image[b]
    BY <1>1 DEF FotaTypeOK
<1>4. \A b \in Blocks : b <= at => image'[b] = tmp
    BY <1>1, <1>2, <1>3 DEF Blocks
<1>5. image' \in [Blocks -> Packages \cup {Blank}]
    BY <1>1, <1>2 DEF FotaTypeOK
<1>6. CASE at = Size
    <2>1. runs' = "status" /\ at' = at
        BY <1>6, NoFault
    <2>2. \A b \in Blocks : image'[b] = tmp
        BY <1>4, <1>6 DEF Blocks
    <2>3. Whole'
        BY <1>2, <2>2, <1>1 DEF Whole, Holds
    <2>4. FotaInv'
        BY <1>1, <1>5, <2>1, <2>3 DEF FotaTypeOK, Resumable, Copying, Steps
    <2> QED
        BY <1>1, <1>2, <1>3, <2>4
<1>7. CASE at # Size
    <2>1. runs' = "erase" /\ at' = at + 1
        BY <1>7, NoFault
    <2>2. at' \in Blocks /\ \A b \in Blocks : b < at' => image'[b] = tmp
        BY <1>1, <1>4, <1>7, <2>1, FotaAssumption DEF Blocks
    <2>3. FotaInv'
        BY <1>1, <1>2, <1>5, <2>1, <2>2 DEF FotaTypeOK, Resumable, Copying, Steps
    <2> QED
        BY <1>1, <1>2, <1>3, <2>3
<1> QED
    BY <1>6, <1>7

\* Every step keeps the inductive invariant.
LEMMA UpdateInv ==
    ASSUME ~Faulty, FotaInv, [FotaNext]_fotaVars
    PROVE  FotaInv'
<1>1. CASE UNCHANGED fotaVars
    BY <1>1 DEF fotaVars, FotaInv, FotaTypeOK, Resumable, Copying, Whole, Holds
<1>2. CASE FotaNext
    BY <1>2, QuietInv, EraseInv, ProgramInv DEF FotaNext, Loader
<1> QED
    BY <1>1, <1>2

\* Firmware that is not whole is never started, and the mark and the package to
\* complete it are there, wherever power failed.
THEOREM UpdateInvariance ==
    ASSUME ~Faulty
    PROVE  FotaSpec => []FotaInv
<1>1. FotaInv /\ [FotaNext]_fotaVars => FotaInv'
    BY UpdateInv
<1> QED
    BY <1>1, DeliveredInv, PTL DEF FotaSpec
-----------------------------------------------------------------------------
\* A step of the update is a step of the atomic one, or none.
LEMMA UpdateStep ==
    ASSUME ~Faulty, FotaInv, FotaInv', [FotaNext]_fotaVars
    PROVE  [Update!Next]_<<Installed, tmp, Running>>
<1> USE DEF Installed, Running
<1>1. None \notin Packages /\ Torn \notin Packages
    BY FotaAssumption
<1>2. runs \in Application => Whole /\ image[1] \in Packages
    BY FirstBlock DEF FotaInv, Resumable, Application
<1>3. CASE UNCHANGED fotaVars
    BY <1>3 DEF fotaVars, Whole, Holds
<1>4. ASSUME BeginDownload \/ \E p \in Packages : EndDownload(p)
      PROVE  \E p \in Packages \cup {Torn} : Update!Stage(p)
    <2>1. Whole' /\ UNCHANGED <<image, runs>> /\ runs \in Application
        BY <1>2, <1>4, QuietInv DEF BeginDownload, EndDownload
    <2>2. Running # None /\ UNCHANGED <<Installed, Running>>
        BY <1>1, <1>2, <2>1
    <2>3. tmp' \in Packages \cup {Torn}
        BY <1>4 DEF BeginDownload, EndDownload
    <2> QED
        BY <2>2, <2>3 DEF Update!Stage
<1>5. ASSUME TriggerErase \/ TriggerWrite
      PROVE  UNCHANGED <<Installed, tmp, Running>>
    <2>1. (Whole' <=> Whole) /\ UNCHANGED <<image, tmp>>
        BY <1>5, QuietInv DEF TriggerErase, TriggerWrite
    <2>2. runs \in Application /\ runs' \in Application
        BY <1>5 DEF TriggerErase, TriggerWrite, Application
    <2> QED
        BY <2>1, <2>2
<1>6. ASSUME Reset
      PROVE  Update!Stop
    <2>1. (Whole' <=> Whole) /\ UNCHANGED <<image, tmp>>
        BY <1>6, QuietInv DEF Reset
    <2>2. runs' \notin Application
        BY <1>6 DEF Reset, Application
    <2> QED
        BY <2>1, <2>2 DEF Update!Stop
<1>7. ASSUME PowerLoss \/ Boot \/ Check \/ Mark \/ MarkErase \/ MarkWrite \/ StatusErase \/ StatusWrite
      PROVE  Update!Start \/ UNCHANGED <<Installed, tmp, Running>>
    <2>1. (Whole' <=> Whole) /\ UNCHANGED <<image, tmp>>
        BY <1>7, QuietInv
           DEF PowerLoss, Boot, Check, Mark, MarkErase, MarkWrite, StatusErase, StatusWrite
    <2>2. runs \notin Application
        BY <1>7 DEF PowerLoss, Boot, Check, Mark, MarkErase, MarkWrite, StatusErase, StatusWrite,
                    Application, Steps
    <2>3. CASE runs' \in Application
        <3>1. Whole'
            BY <2>3 DEF FotaInv, Resumable, Application
        <3> QED
            BY <2>1, <2>2, <2>3, <3>1 DEF Update!Start
    <2>4. CASE runs' \notin Application
        BY <2>1, <2>2, <2>4
    <2> QED
        BY <2>3, <2>4
<1>8. ASSUME EraseBlock
      PROVE  Update!Install
    <2>1. ~Whole' /\ UNCHANGED tmp /\ tmp \in Packages
        BY <1>8, EraseInv DEF EraseBlock, FotaInv, Copying
    <2>2. runs \notin Application /\ runs' \notin Application
        BY <1>8, NoFault DEF EraseBlock, Application
    <2> QED
        BY <2>1, <2>2 DEF Update!Install
<1>9. ASSUME ProgramBlock
      PROVE  Update!Install
    <2>1. tmp \in Packages /\ image'[at] = tmp /\ UNCHANGED tmp /\ at \in Blocks
        BY <1>9, ProgramInv DEF FotaInv, FotaTypeOK
    <2>2. runs \notin Application /\ runs' \notin Application
        BY <1>9, NoFault DEF ProgramBlock, Application
    <2>3. Whole' => image'[1] = tmp
        <3>1. 1 \in Blocks
            BY FotaAssumption DEF Blocks
        <3> QED
            BY <2>1, <3>1 DEF Whole, Holds
    <2> QED
        BY <2>1, <2>2, <2>3 DEF Update!Install
<1> QED
    BY <1>3, <1>4, <1>5, <1>6, <1>7, <1>8, <1>9 DEF FotaNext, Loader, Update!Next

\* The update is atomic: an application that runs is the installed version, whole, and
\* only the package in TMP replaces it, while none runs.
THEOREM UpdateImplements ==
    ASSUME ~Faulty
    PROVE  FotaSpec => ImageSpec
<1>1. FotaInit => Update!Init
    <2> SUFFICES ASSUME FotaInit PROVE Update!Init
        OBVIOUS
    <2>1. PICK p \in Packages : image = [b \in Blocks |-> p]
        BY DEF FotaInit
    <2>2. FotaInv /\ Whole
        BY <2>1, DeliveredInv DEF Whole, Holds
    <2> QED
        BY <2>2, FirstBlock DEF Update!Init, FotaInit, Installed, Running, Application
<1>2. FotaInv /\ FotaInv' /\ [FotaNext]_fotaVars => [Update!Next]_<<Installed, tmp, Running>>
    BY UpdateStep
<1> QED
    BY <1>1, <1>2, UpdateInvariance, PTL DEF FotaSpec, ImageSpec, Update!Spec
=============================================================================
