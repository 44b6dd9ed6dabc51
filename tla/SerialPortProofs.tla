-------------------------- MODULE SerialPortProofs --------------------------
(***************************************************************************)
(* Proofs about the serial port service for any number of tasks, ports and *)
(* blocks, when each user keeps its handle to itself (Owners): the memory  *)
(* of an UART in use is its own, nothing leaks while the heap has plenty,  *)
(* and bytes move only through the open the handle belongs to.             *)
(***************************************************************************)
EXTENDS SerialPort, TLAPS

LEMMA InitInv == Init => PortInv
<1> SUFFICES ASSUME Init PROVE PortInv
    OBVIOUS
<1> USE SerialPortAssumption, NoHandleAssumption DEF Init
<1>1. TypeOK
    <2>1. 0 \in 0 .. Counts - 1
        OBVIOUS
    <2> QED
        BY <2>1 DEF TypeOK
<1>2. FreedOnce /\ \A t \in Tasks : ~Has(t)
    BY DEF FreedOnce, Has
<1>3. Apart /\ Vacant /\ Owned
    BY <1>2 DEF Apart, Vacant, Owned
<1> QED
    BY <1>1, <1>2, <1>3 DEF PortInv

\* A step of task t at port d that leaves alone the other tasks, the other ports
\* and the blocks of others keeps the invariant if it keeps t's own part of it.
LEMMA Frame ==
    ASSUME PortInv, NEW t \in Tasks, NEW d \in Ports, TypeOK', ~twice',
           \A u \in Tasks : u # t => /\ pc'[u] = pc[u] /\ port'[u] = port[u]
                                     /\ handle'[u] = handle[u] /\ used'[u] = used[u]
                                     /\ Has(u) => PortOf(u) # d,
           \A e \in Ports : e # d => /\ busy'[e] = busy[e] /\ hw'[e] = hw[e]
                                     /\ opened'[e] = opened[e]
                                     /\ sendBuf'[e] = sendBuf[e] /\ recvBuf'[e] = recvBuf[e],
           Has(t) => PortOf(t) = d,
           Has(t)' => PortOf(t)' = d /\ Held(t)',
           ~Has(t)' => hw'[d] = "uninit",
           heap \ Mem(t) \subseteq heap',
           heap' \cap heap \cap Mem(t)' \subseteq Mem(t),
           Plenty => heap' \subseteq (heap \ Mem(t)) \cup Mem(t)'
    PROVE  PortInv'
<1> USE DEF PortInv
<1>1. ASSUME NEW u \in Tasks, u # t
      PROVE  /\ Has(u)' = Has(u) /\ (Has(u) => PortOf(u)' = PortOf(u) /\ PortOf(u) \in Ports)
             /\ Mem(u)' = Mem(u) /\ (Has(u) => Mem(u) \subseteq heap)
    <2>1. Has(u)' = Has(u) /\ (Has(u) => PortOf(u)' = PortOf(u))
        BY <1>1 DEF Has, PortOf
    <2>2. Has(u) => PortOf(u) \in Ports /\ PortOf(u) # d
        BY <1>1 DEF Has, PortOf, TypeOK, Handles
    <2>3. HasSend(u)' = HasSend(u) /\ HasRecv(u)' = HasRecv(u)
        BY <1>1, <2>1 DEF HasSend, HasRecv
    <2>4. HasSend(u) => Has(u) /\ sendBuf'[PortOf(u)'] = sendBuf[PortOf(u)]
        BY <2>1, <2>2 DEF HasSend
    <2>5. HasRecv(u) => Has(u) /\ recvBuf'[PortOf(u)'] = recvBuf[PortOf(u)]
        BY <2>1, <2>2 DEF HasRecv
    <2>6. Mem(u)' = Mem(u)
        BY <2>3, <2>4, <2>5 DEF Mem
    <2>7. Has(u) => Mem(u) \subseteq heap
        BY DEF Held
    <2> QED
        BY <2>1, <2>2, <2>6, <2>7
<1>2. ASSUME NEW u \in Tasks, u # t, Has(u)
      PROVE  Mem(u) \cap Mem(t) = {} /\ Mem(u) \subseteq heap'
    <2>1. Mem(u) \subseteq heap
        BY <1>1, <1>2
    <2>2. Mem(u) \cap Mem(t) = {}
        <3>1. CASE Has(t)
            BY <1>2, <3>1 DEF Apart
        <3>2. CASE ~Has(t)
            BY <3>2 DEF Mem, HasSend, HasRecv
        <3> QED
            BY <3>1, <3>2
    <2> QED
        BY <2>1, <2>2
<1>3. \A u \in Tasks : Has(u)' => Held(u)'
    <2> SUFFICES ASSUME NEW u \in Tasks, u # t, Has(u)' PROVE Held(u)'
        OBVIOUS
    <2>1. Has(u) /\ Held(u) /\ PortOf(u)' = PortOf(u) /\ PortOf(u) \in Ports /\ PortOf(u) # d
        BY <1>1
    <2>2. HasSend(u)' = HasSend(u) /\ HasRecv(u)' = HasRecv(u)
        BY <1>1, <2>1 DEF HasSend, HasRecv
    <2>3. UartOf(u)' = UartOf(u) /\ IsOpen(u)' = IsOpen(u)
        BY DEF UartOf, IsOpen
    <2>4. Mem(u)' \subseteq heap'
        BY <1>1, <1>2, <2>1
    <2> QED
        BY <2>1, <2>2, <2>3, <2>4 DEF Held
<1>4. Apart'
    <2>1. ASSUME NEW u \in Tasks, u # t, Has(u)', Has(t)'
          PROVE  PortOf(u)' # PortOf(t)' /\ Mem(u)' \cap Mem(t)' = {}
        <3>1. Has(u) /\ PortOf(u)' # d
            BY <1>1, <2>1
        <3>2. Mem(u)' = Mem(u) /\ Mem(u) \subseteq heap /\ Mem(u) \subseteq heap'
            BY <1>1, <1>2, <2>1, <3>1
        <3> QED
            BY <1>2, <2>1, <3>1, <3>2
    <2>2. ASSUME NEW u \in Tasks, NEW v \in Tasks, u # t, v # t, u # v, Has(u)', Has(v)'
          PROVE  PortOf(u)' # PortOf(v)' /\ Mem(u)' \cap Mem(v)' = {}
        BY <1>1, <2>2 DEF Apart
    <2> QED
        BY <2>1, <2>2 DEF Apart
<1>5. Vacant'
    <2> SUFFICES ASSUME NEW e \in Ports, \A u \in Tasks : Has(u)' => PortOf(u)' # e
                 PROVE  hw'[e] = "uninit"
        BY DEF Vacant
    <2>1. CASE e = d
        BY <2>1
    <2>2. CASE e # d
        BY <1>1, <2>2 DEF Vacant
    <2> QED
        BY <2>1, <2>2
<1>6. Owned'
    <2> SUFFICES ASSUME Plenty, NEW b \in heap' PROVE \E u \in Tasks : b \in Mem(u)'
        BY DEF Owned
    <2>1. CASE b \in Mem(t)'
        BY <2>1
    <2>2. CASE b \in heap \ Mem(t)
        <3>1. PICK u \in Tasks : b \in Mem(u)
            BY <2>2 DEF Owned
        <3> QED
            BY <1>1, <2>2, <3>1
    <2> QED
        BY <2>1, <2>2
<1> QED
    BY <1>3, <1>4, <1>5, <1>6 DEF FreedOnce

\* What every step of a call in progress may use.
LEMMA InCall ==
    ASSUME PortInv, NEW t \in Tasks, pc[t] # "idle"
    PROVE  /\ Has(t) /\ Held(t) /\ PortOf(t) = port[t] /\ port[t] \in Ports
           /\ \A u \in Tasks : u # t => (Has(u) => PortOf(u) # port[t])
<1>1. Has(t) /\ PortOf(t) = port[t]
    BY DEF Has, PortOf
<1> QED
    BY <1>1 DEF PortInv, Apart, TypeOK

\* Claim: the port was nobody's, so it is off.
LEMMA ClaimInv ==
    ASSUME PortInv, Owners, NEW t \in Tasks, NEW d \in Ports, Claim(t, d)
    PROVE  PortInv'
<1> USE DEF Claim, Go, buffers
<1>1. TypeOK
    BY DEF PortInv
<1>2. pc[t] = "idle" /\ handle[t] = NoHandle /\ ~Has(t)
    BY DEF Owners, Has
<1>3. \A u \in Tasks : Has(u) => PortOf(u) # d
    BY DEF PortInv, Held
<1>4. hw[d] = "uninit"
    BY <1>3 DEF PortInv, Vacant
<1>5. pc'[t] = "send" /\ port'[t] = d /\ busy'[d]
    BY <1>1 DEF TypeOK
<1>6. TypeOK'
    BY <1>1 DEF TypeOK
<1>7. Mem(t) = {} /\ Mem(t)' = {}
    BY <1>2, <1>5 DEF Mem, HasSend, HasRecv
<1>8. Has(t)' /\ PortOf(t)' = d
    BY <1>5 DEF Has, PortOf
<1>9. Held(t)'
    BY <1>2, <1>4, <1>5, <1>7, <1>8 DEF Held, UartOf, IsOpen, HasSend
<1>10. \A u \in Tasks : u # t => pc'[u] = pc[u] /\ port'[u] = port[u]
    BY <1>1 DEF TypeOK
<1>11. \A e \in Ports : e # d => busy'[e] = busy[e]
    BY <1>1 DEF TypeOK
<1> QED
    BY <1>2, <1>3, <1>6, <1>7, <1>8, <1>9, <1>10, <1>11, Frame DEF PortInv, FreedOnce

\* The buffers are taken from the blocks not in use.
LEMMA AllocSendInv ==
    ASSUME PortInv, NEW t \in Tasks, AllocSend(t)
    PROVE  PortInv'
<1> USE SerialPortAssumption DEF AllocSend, Go, service
<1>1. TypeOK /\ pc[t] = "send"
    BY DEF PortInv
<1> DEFINE d == port[t]
<1>2. Has(t) /\ Held(t) /\ PortOf(t) = d /\ d \in Ports
      /\ \A u \in Tasks : u # t => (Has(u) => PortOf(u) # d)
    BY <1>1, InCall
<1>3. PICK b \in Given : /\ sendBuf' = [sendBuf EXCEPT ![d] = b] /\ heap' = TakenWith(b)
                         /\ pc' = [pc EXCEPT ![t] = IF b = NoBlock THEN "undo" ELSE "recv"]
    OBVIOUS
<1>4. /\ sendBuf'[d] = b /\ pc'[t] = IF b = NoBlock THEN "undo" ELSE "recv"
      /\ \A e \in Ports : e # d => sendBuf'[e] = sendBuf[e]
      /\ \A u \in Tasks : u # t => pc'[u] = pc[u]
    BY <1>1, <1>2, <1>3 DEF TypeOK
<1>5. b = NoBlock \/ b \in Blocks \ heap
    BY <1>3 DEF Given
<1>6. TypeOK'
    BY <1>1, <1>3, <1>5 DEF TypeOK, TakenWith
<1>7. Has(t)' /\ PortOf(t)' = d
    BY <1>4 DEF Has, PortOf
<1>8. Mem(t) = {} /\ Mem(t)' = {b} \ {NoBlock}
    BY <1>1, <1>4, <1>7 DEF Mem, HasSend, HasRecv
<1>9. heap' = heap \cup Mem(t)'
    BY <1>3, <1>8 DEF TakenWith
<1>10. Held(t)'
    BY <1>1, <1>2, <1>4, <1>7, <1>9 DEF Held, UartOf, IsOpen, HasSend, HasRecv
<1>11. heap' \cap heap \cap Mem(t)' \subseteq Mem(t)
    BY <1>5, <1>8
<1> HIDE DEF d
<1> QED
    BY <1>2, <1>4, <1>6, <1>7, <1>8, <1>9, <1>10, <1>11, Frame DEF PortInv, FreedOnce

LEMMA AllocRecvInv ==
    ASSUME PortInv, NEW t \in Tasks, AllocRecv(t)
    PROVE  PortInv'
<1> USE SerialPortAssumption DEF AllocRecv, Go, service
<1>1. TypeOK /\ pc[t] = "recv"
    BY DEF PortInv
<1> DEFINE d == port[t]
<1>2. Has(t) /\ Held(t) /\ PortOf(t) = d /\ d \in Ports
      /\ \A u \in Tasks : u # t => (Has(u) => PortOf(u) # d)
    BY <1>1, InCall
<1>3. PICK b \in Given : /\ recvBuf' = [recvBuf EXCEPT ![d] = b] /\ heap' = TakenWith(b)
                         /\ pc' = [pc EXCEPT ![t] = IF b = NoBlock THEN "undo" ELSE "init"]
    OBVIOUS
<1>4. /\ recvBuf'[d] = b /\ pc'[t] = IF b = NoBlock THEN "undo" ELSE "init"
      /\ \A e \in Ports : e # d => recvBuf'[e] = recvBuf[e]
      /\ \A u \in Tasks : u # t => pc'[u] = pc[u]
    BY <1>1, <1>2, <1>3 DEF TypeOK
<1>5. b = NoBlock \/ b \in Blocks \ heap
    BY <1>3 DEF Given
<1>6. TypeOK'
    BY <1>1, <1>3, <1>5 DEF TypeOK, TakenWith
<1>7. Has(t)' /\ PortOf(t)' = d
    BY <1>4 DEF Has, PortOf
<1>8. Mem(t) = {sendBuf[d]} /\ Mem(t)' = IF b = NoBlock THEN {} ELSE {sendBuf[d], b}
    BY <1>1, <1>2, <1>4, <1>7 DEF Mem, HasSend, HasRecv
<1>9. heap' = heap \cup ({b} \ {NoBlock}) /\ sendBuf[d] \in heap
    BY <1>2, <1>3, <1>8 DEF TakenWith, Held
<1>10. Held(t)'
    <2>1. Mem(t)' \subseteq heap' /\ (b # NoBlock => sendBuf[d] # b)
        BY <1>5, <1>8, <1>9
    <2> QED
        BY <1>1, <1>2, <1>4, <1>7, <2>1 DEF Held, UartOf, IsOpen, HasSend, HasRecv
<1>11. heap' \cap heap \cap Mem(t)' \subseteq Mem(t) /\ heap \ Mem(t) \subseteq heap'
    BY <1>5, <1>8, <1>9
<1>12. Plenty => heap' \subseteq (heap \ Mem(t)) \cup Mem(t)'
    BY <1>3, <1>8, <1>9 DEF Given
<1> HIDE DEF d
<1> QED
    BY <1>2, <1>4, <1>6, <1>7, <1>10, <1>11, <1>12, Frame DEF PortInv, FreedOnce

\* The UART is off, so hal_uart_init succeeds, and so does hal_uart_set_dma.
LEMMA UartOnInv ==
    ASSUME PortInv, Owners, NEW t \in Tasks, UartInit(t) \/ SetDma(t)
    PROVE  PortInv'
<1> USE DEF Go, service, buffers
<1>1. TypeOK /\ pc[t] \in {"init", "dma"}
    BY DEF PortInv, UartInit, SetDma
<1> DEFINE d == port[t]
<1>2. Has(t) /\ Held(t) /\ PortOf(t) = d /\ d \in Ports
      /\ \A u \in Tasks : u # t => (Has(u) => PortOf(u) # d)
    BY <1>1, InCall
<1>3. hw[d] = IF pc[t] = "init" THEN "uninit" ELSE "poll"
    BY <1>1, <1>2 DEF Held, UartOf
<1>4. /\ hw' = [hw EXCEPT ![d] = IF pc[t] = "init" THEN "poll" ELSE "dma"]
      /\ pc' = [pc EXCEPT ![t] = IF pc[t] = "init" THEN "dma" ELSE "give"]
      /\ UNCHANGED <<service, buffers, port, used>>
    BY <1>1, <1>3 DEF UartInit, SetDma, Owners
<1>5. /\ hw'[d] = IF pc[t] = "init" THEN "poll" ELSE "dma"
      /\ pc'[t] = IF pc[t] = "init" THEN "dma" ELSE "give"
      /\ \A e \in Ports : e # d => hw'[e] = hw[e]
      /\ \A u \in Tasks : u # t => pc'[u] = pc[u]
    BY <1>1, <1>2, <1>4 DEF TypeOK
<1>6. TypeOK'
    BY <1>1, <1>4 DEF TypeOK
<1>7. Has(t)' /\ PortOf(t)' = d
    BY <1>1, <1>4, <1>5 DEF Has, PortOf
<1>8. HasSend(t) /\ HasRecv(t) /\ HasSend(t)' /\ HasRecv(t)'
    BY <1>1, <1>2, <1>5, <1>7 DEF HasSend, HasRecv
<1>9. Mem(t)' = Mem(t)
    BY <1>2, <1>4, <1>7, <1>8 DEF Mem
<1>10. Held(t)'
    BY <1>1, <1>2, <1>4, <1>5, <1>7, <1>8, <1>9 DEF Held, UartOf, IsOpen
<1> HIDE DEF d
<1> QED
    BY <1>2, <1>4, <1>5, <1>6, <1>7, <1>9, <1>10, Frame DEF PortInv, FreedOnce

\* The open ends with a handle.
LEMMA GiveInv ==
    ASSUME PortInv, Owners, NEW t \in Tasks, Give(t)
    PROVE  PortInv'
<1> USE SerialPortAssumption, NoHandleAssumption DEF Give, Go, buffers
<1>1. TypeOK /\ pc[t] = "give"
    BY DEF PortInv
<1> DEFINE d == port[t]
           h == [port |-> d, count |-> count']
<1>2. Has(t) /\ Held(t) /\ PortOf(t) = d /\ d \in Ports
      /\ \A u \in Tasks : u # t => (Has(u) => PortOf(u) # d)
    BY <1>1, InCall
<1>3. count' \in 0 .. Counts - 1
    BY <1>1 DEF TypeOK
<1>4. h \in Handles /\ h # NoHandle /\ h.port = d
    BY <1>2, <1>3 DEF Handles
<1>5. handle' = [handle EXCEPT ![t] = h] /\ opened' = [opened EXCEPT ![d] = h]
    BY DEF Owners
<1> HIDE DEF h
<1>6. /\ handle'[t] = h /\ opened'[d] = h /\ pc'[t] = "idle"
      /\ \A e \in Ports : e # d => opened'[e] = opened[e]
      /\ \A u \in Tasks : u # t => pc'[u] = pc[u] /\ handle'[u] = handle[u]
    BY <1>1, <1>2, <1>5 DEF TypeOK
<1>7. TypeOK'
    BY <1>1, <1>3, <1>4, <1>5 DEF TypeOK
<1>8. Has(t)' /\ PortOf(t)' = d
    BY <1>4, <1>6 DEF Has, PortOf
<1>9. HasSend(t) /\ HasRecv(t) /\ HasSend(t)' /\ HasRecv(t)'
    BY <1>1, <1>2, <1>6, <1>8 DEF HasSend, HasRecv
<1>10. Mem(t)' = Mem(t)
    BY <1>2, <1>8, <1>9 DEF Mem
<1>11. Held(t)'
    BY <1>1, <1>2, <1>4, <1>6, <1>8, <1>9, <1>10 DEF Held, UartOf, IsOpen
<1> HIDE DEF d
<1> QED
    BY <1>2, <1>6, <1>7, <1>8, <1>10, <1>11, Frame DEF PortInv, FreedOnce

\* A failed open holds no UART.
LEMMA UndoInv ==
    ASSUME PortInv, Owners, NEW t \in Tasks, Undo(t)
    PROVE  PortInv'
<1> USE DEF Undo, Go, buffers
<1>1. TypeOK /\ pc[t] = "undo"
    BY DEF PortInv
<1> DEFINE d == port[t]
<1>2. Has(t) /\ Held(t) /\ PortOf(t) = d /\ d \in Ports
      /\ \A u \in Tasks : u # t => (Has(u) => PortOf(u) # d)
    BY <1>1, InCall
<1>3. handle' = [handle EXCEPT ![t] = NoHandle]
    BY DEF Owners
<1>4. /\ handle'[t] = NoHandle /\ pc'[t] = "idle"
      /\ \A e \in Ports : e # d => busy'[e] = busy[e]
      /\ \A u \in Tasks : u # t => pc'[u] = pc[u] /\ handle'[u] = handle[u]
    BY <1>1, <1>2, <1>3 DEF TypeOK
<1>5. TypeOK'
    BY <1>1, <1>3 DEF TypeOK
<1>6. ~Has(t)' /\ Mem(t) = {} /\ Mem(t)' = {}
    BY <1>1, <1>4 DEF Has, Mem, HasSend, HasRecv
<1>7. hw[d] = "uninit"
    BY <1>1, <1>2 DEF Held, UartOf
<1> HIDE DEF d
<1> QED
    BY <1>2, <1>4, <1>5, <1>6, <1>7, Frame DEF PortInv, FreedOnce

\* A control or a close is for the port of the task's own handle.
LEMMA StartInv ==
    ASSUME PortInv, Owners, NEW t \in Tasks, NEW l \in {"io", "deinit"}, Start(t, l)
    PROVE  PortInv'
<1> USE DEF Start, Go, service, buffers
<1>1. TypeOK /\ pc[t] = "idle"
    BY DEF PortInv
<1> DEFINE d == handle[t].port
<1>2. handle[t] # NoHandle /\ handle[t] \in Handles /\ Has(t) /\ Held(t) /\ PortOf(t) = d
    BY <1>1 DEF Owners, Has, PortOf, PortInv, TypeOK
<1>3. d \in Ports /\ \A u \in Tasks : u # t => (Has(u) => PortOf(u) # d)
    BY <1>2 DEF Handles, PortInv, Apart
<1>4. /\ used' = [used EXCEPT ![t] = handle[t]] /\ port' = [port EXCEPT ![t] = d]
      /\ pc' = [pc EXCEPT ![t] = l] /\ UNCHANGED <<service, hw, buffers>>
    BY DEF Owners
<1>5. /\ used'[t] = handle[t] /\ port'[t] = d /\ pc'[t] = l
      /\ \A u \in Tasks : u # t => pc'[u] = pc[u] /\ port'[u] = port[u] /\ used'[u] = used[u]
    BY <1>1, <1>4 DEF TypeOK
<1>6. TypeOK'
    BY <1>1, <1>2, <1>3, <1>4 DEF TypeOK
<1>7. Has(t)' /\ PortOf(t)' = d
    BY <1>5 DEF Has, PortOf
<1>8. HasSend(t) /\ HasRecv(t) /\ HasSend(t)' /\ HasRecv(t)'
    BY <1>1, <1>2, <1>5, <1>7 DEF HasSend, HasRecv
<1>9. Mem(t)' = Mem(t)
    BY <1>2, <1>4, <1>7, <1>8 DEF Mem
<1>10. Held(t)'
    BY <1>1, <1>2, <1>4, <1>5, <1>7, <1>8, <1>9 DEF Held, UartOf, IsOpen
<1> HIDE DEF d
<1> QED
    BY <1>2, <1>3, <1>4, <1>5, <1>6, <1>7, <1>9, <1>10, Frame DEF PortInv, FreedOnce

\* A step that only moves t on to a place where its port's state is the same.
LEMMA MoveInv ==
    ASSUME PortInv, NEW t \in Tasks, NEW l \in {"idle", "off"},
           pc[t] \in {"io", "deinit"}, pc' = [pc EXCEPT ![t] = l],
           UNCHANGED <<service, hw, buffers, port, used>>
    PROVE  PortInv'
<1> USE DEF service, buffers
<1>1. TypeOK
    BY DEF PortInv
<1> DEFINE d == port[t]
<1>2. Has(t) /\ Held(t) /\ PortOf(t) = d /\ d \in Ports
      /\ \A u \in Tasks : u # t => (Has(u) => PortOf(u) # d)
    BY InCall
<1>3. handle[t] # NoHandle /\ handle[t].port = d
    BY <1>2 DEF Held, IsOpen
<1>4. pc'[t] = l /\ \A u \in Tasks : u # t => pc'[u] = pc[u]
    BY <1>1 DEF TypeOK
<1>5. TypeOK'
    BY <1>1 DEF TypeOK
<1>6. Has(t)' /\ PortOf(t)' = d
    BY <1>3, <1>4 DEF Has, PortOf
<1>7. HasSend(t) /\ HasRecv(t) /\ HasSend(t)' /\ HasRecv(t)'
    BY <1>2, <1>4, <1>6 DEF HasSend, HasRecv
<1>8. Mem(t)' = Mem(t)
    BY <1>2, <1>6, <1>7 DEF Mem
<1>9. Held(t)'
    BY <1>2, <1>3, <1>4, <1>6, <1>7, <1>8 DEF Held, UartOf, IsOpen
<1> HIDE DEF d
<1> QED
    BY <1>2, <1>4, <1>5, <1>6, <1>8, <1>9, Frame DEF PortInv, FreedOnce

\* The UART goes off while its buffers are still in use.
LEMMA UartOffInv ==
    ASSUME PortInv, NEW t \in Tasks, UartOff(t)
    PROVE  PortInv'
<1> USE DEF UartOff, Go, service, buffers
<1>1. TypeOK /\ pc[t] = "off"
    BY DEF PortInv
<1> DEFINE d == port[t]
<1>2. Has(t) /\ Held(t) /\ PortOf(t) = d /\ d \in Ports
      /\ \A u \in Tasks : u # t => (Has(u) => PortOf(u) # d)
    BY <1>1, InCall
<1>3. /\ hw'[d] = "uninit" /\ pc'[t] = "freeSend"
      /\ \A e \in Ports : e # d => hw'[e] = hw[e]
      /\ \A u \in Tasks : u # t => pc'[u] = pc[u]
    BY <1>1, <1>2 DEF TypeOK
<1>4. TypeOK'
    BY <1>1 DEF TypeOK
<1>5. Has(t)' /\ PortOf(t)' = d
    BY <1>3 DEF Has, PortOf
<1>6. HasSend(t) /\ HasRecv(t) /\ HasSend(t)' /\ HasRecv(t)'
    BY <1>1, <1>2, <1>3, <1>5 DEF HasSend, HasRecv
<1>7. Mem(t)' = Mem(t)
    BY <1>2, <1>5, <1>6 DEF Mem
<1>8. Held(t)'
    BY <1>1, <1>2, <1>3, <1>5, <1>6, <1>7 DEF Held, UartOf, IsOpen
<1> HIDE DEF d
<1> QED
    BY <1>2, <1>3, <1>4, <1>5, <1>7, <1>8, Frame DEF PortInv, FreedOnce

\* Each buffer is in use when it is freed, and the other one is another block.
LEMMA FreeSendInv ==
    ASSUME PortInv, NEW t \in Tasks, FreeSend(t)
    PROVE  PortInv'
<1> USE DEF FreeSend, Free, Go, service
<1>1. TypeOK /\ pc[t] = "freeSend" /\ ~twice
    BY DEF PortInv, FreedOnce
<1> DEFINE d == port[t]
<1>2. Has(t) /\ Held(t) /\ PortOf(t) = d /\ d \in Ports
      /\ \A u \in Tasks : u # t => (Has(u) => PortOf(u) # d)
    BY <1>1, InCall
<1>3. pc'[t] = "freeRecv" /\ \A u \in Tasks : u # t => pc'[u] = pc[u]
    BY <1>1 DEF TypeOK
<1>4. TypeOK'
    BY <1>1 DEF TypeOK
<1>5. Has(t)' /\ PortOf(t)' = d
    BY <1>3 DEF Has, PortOf
<1>6. Mem(t) = {sendBuf[d], recvBuf[d]} /\ Mem(t)' = {recvBuf[d]}
    BY <1>1, <1>2, <1>3, <1>5 DEF Mem, HasSend, HasRecv
<1>7. sendBuf[d] \in heap /\ recvBuf[d] \in heap /\ sendBuf[d] # recvBuf[d]
    BY <1>1, <1>2, <1>6 DEF Held, HasSend, HasRecv
<1>8. heap' = heap \ {sendBuf[d]} /\ ~twice'
    BY <1>1, <1>7
<1>9. Held(t)'
    <2>1. Mem(t)' \subseteq heap' /\ ~HasSend(t)'
        BY <1>3, <1>6, <1>7, <1>8 DEF HasSend
    <2> QED
        BY <1>1, <1>2, <1>3, <1>5, <2>1 DEF Held, UartOf, IsOpen
<1>10. /\ heap \ Mem(t) \subseteq heap' /\ heap' \cap heap \cap Mem(t)' \subseteq Mem(t)
       /\ heap' \subseteq (heap \ Mem(t)) \cup Mem(t)'
    BY <1>6, <1>8
<1> HIDE DEF d
<1> QED
    BY <1>2, <1>3, <1>4, <1>5, <1>8, <1>9, <1>10, Frame

LEMMA FreeRecvInv ==
    ASSUME PortInv, NEW t \in Tasks, FreeRecv(t)
    PROVE  PortInv'
<1> USE DEF FreeRecv, Free, Go, service
<1>1. TypeOK /\ pc[t] = "freeRecv" /\ ~twice
    BY DEF PortInv, FreedOnce
<1> DEFINE d == port[t]
<1>2. Has(t) /\ Held(t) /\ PortOf(t) = d /\ d \in Ports
      /\ \A u \in Tasks : u # t => (Has(u) => PortOf(u) # d)
    BY <1>1, InCall
<1>3. pc'[t] = "release" /\ \A u \in Tasks : u # t => pc'[u] = pc[u]
    BY <1>1 DEF TypeOK
<1>4. TypeOK'
    BY <1>1 DEF TypeOK
<1>5. Has(t)' /\ PortOf(t)' = d
    BY <1>3 DEF Has, PortOf
<1>6. Mem(t) = {recvBuf[d]} /\ Mem(t)' = {}
    BY <1>1, <1>2, <1>3, <1>5 DEF Mem, HasSend, HasRecv
<1>7. recvBuf[d] \in heap
    BY <1>2, <1>6 DEF Held
<1>8. heap' = heap \ {recvBuf[d]} /\ ~twice'
    BY <1>1, <1>7
<1>9. Held(t)'
    BY <1>1, <1>2, <1>3, <1>5, <1>6 DEF Held, UartOf, IsOpen, HasSend
<1>10. heap \ Mem(t) \subseteq heap' /\ heap' \subseteq heap \ Mem(t)
    BY <1>6, <1>8
<1> HIDE DEF d
<1> QED
    BY <1>2, <1>3, <1>4, <1>5, <1>6, <1>8, <1>9, <1>10, Frame

\* The port is released with its UART off and nothing left in use.
LEMMA ReleaseInv ==
    ASSUME PortInv, Owners, NEW t \in Tasks, Release(t)
    PROVE  PortInv'
<1> USE DEF Release, Go, buffers
<1>1. TypeOK /\ pc[t] = "release"
    BY DEF PortInv
<1> DEFINE d == port[t]
<1>2. Has(t) /\ Held(t) /\ PortOf(t) = d /\ d \in Ports
      /\ \A u \in Tasks : u # t => (Has(u) => PortOf(u) # d)
    BY <1>1, InCall
<1>3. handle' = [handle EXCEPT ![t] = NoHandle]
    BY DEF Owners
<1>4. /\ handle'[t] = NoHandle /\ pc'[t] = "idle"
      /\ \A e \in Ports : e # d => busy'[e] = busy[e] /\ opened'[e] = opened[e]
      /\ \A u \in Tasks : u # t => pc'[u] = pc[u] /\ handle'[u] = handle[u]
    BY <1>1, <1>2, <1>3 DEF TypeOK
<1>5. TypeOK'
    BY <1>1, <1>3 DEF TypeOK
<1>6. ~Has(t)' /\ Mem(t) = {} /\ Mem(t)' = {}
    BY <1>1, <1>4 DEF Has, Mem, HasSend, HasRecv
<1>7. hw[d] = "uninit"
    BY <1>1, <1>2 DEF Held, UartOf
<1>8. ~twice' /\ heap' = heap /\ hw' = hw /\ sendBuf' = sendBuf /\ recvBuf' = recvBuf
      /\ \A u \in Tasks : port'[u] = port[u] /\ used'[u] = used[u]
    BY <1>1 DEF PortInv, FreedOnce
<1> HIDE DEF d, Release, Go, buffers
<1> QED
    BY <1>2, <1>4, <1>5, <1>6, <1>7, <1>8, Frame

LEMMA NextInv == Owners /\ PortInv /\ [Next]_vars => PortInv'
<1> SUFFICES ASSUME Owners, PortInv, [Next]_vars PROVE PortInv'
    OBVIOUS
<1>1. ASSUME NEW t \in Tasks, Call(t) PROVE PortInv'
    BY <1>1, StartInv, ClaimInv DEF Call, Control, Close
<1>2. ASSUME NEW t \in Tasks, Opening(t) PROVE PortInv'
    BY <1>2, AllocSendInv, AllocRecvInv, UartOnInv, GiveInv, UndoInv DEF Opening
<1>3. ASSUME NEW t \in Tasks, Io(t) PROVE PortInv'
    BY <1>3, MoveInv DEF Io, Go
<1>4. ASSUME NEW t \in Tasks, Deinit(t) PROVE PortInv'
    BY <1>4, MoveInv DEF Deinit, Go
<1>5. ASSUME NEW t \in Tasks, Closing(t) PROVE PortInv'
    BY <1>4, <1>5, UartOffInv, FreeSendInv, FreeRecvInv, ReleaseInv DEF Closing
<1>6. CASE UNCHANGED vars
    <2>1. /\ busy' = busy /\ count' = count /\ hw' = hw /\ sendBuf' = sendBuf
          /\ recvBuf' = recvBuf /\ heap' = heap /\ twice' = twice /\ pc' = pc
          /\ port' = port /\ used' = used /\ handle' = handle /\ opened' = opened
        BY <1>6 DEF vars
    <2>2. TypeOK' /\ FreedOnce'
        BY <2>1 DEF PortInv, TypeOK, FreedOnce
    <2>3. \A t \in Tasks : /\ Has(t)' = Has(t) /\ PortOf(t)' = PortOf(t)
                           /\ HasSend(t)' = HasSend(t) /\ HasRecv(t)' = HasRecv(t)
                           /\ UartOf(t)' = UartOf(t) /\ IsOpen(t)' = IsOpen(t)
        BY <2>1 DEF Has, PortOf, HasSend, HasRecv, UartOf, IsOpen
    <2>4. \A t \in Tasks : Mem(t)' = Mem(t)
        BY <2>1, <2>3 DEF Mem
    <2>5. \A t \in Tasks : Has(t)' => Held(t)'
        BY <2>1, <2>3, <2>4 DEF PortInv, Held
    <2>6. Apart' /\ Vacant' /\ Owned'
        BY <2>1, <2>3, <2>4 DEF PortInv, Apart, Vacant, Owned
    <2> QED
        BY <2>2, <2>5, <2>6 DEF PortInv
<1> QED
    BY <1>1, <1>2, <1>3, <1>5, <1>6 DEF Next

\* While users keep their handles to themselves every port, its UART and its
\* buffers go together (serial_port.c:113-250, serial_port_uart.c:71-213).
THEOREM Invariance ==
    ASSUME Owners
    PROVE  Spec => []PortInv
<1>1. PortInv /\ [Next]_vars => PortInv'
    BY NextInv
<1> QED
    BY <1>1, InitInv, PTL DEF Spec

\* An UART in use never moves bytes through memory that is not its own, no buffer
\* is freed twice, and the UART of a free port is off.
THEOREM Memory ==
    ASSUME Owners
    PROVE  Spec => [](OwnMemory /\ FreedOnce /\ FreePortsOff)
<1>1. ASSUME PortInv PROVE OwnMemory /\ FreedOnce /\ FreePortsOff
    <2> USE <1>1 DEF PortInv
    <2>1. ASSUME NEW d \in Ports, hw[d] # "uninit"
          PROVE  \E t \in Tasks : Has(t) /\ PortOf(t) = d /\ busy[d]
        BY <2>1 DEF Vacant, Held
    <2>2. ASSUME NEW d \in Ports, hw[d] = "dma"
          PROVE  \E t \in Tasks : /\ Has(t) /\ PortOf(t) = d
                                  /\ Mem(t) = {sendBuf[d], recvBuf[d]} /\ Mem(t) \subseteq heap
                                  /\ sendBuf[d] # recvBuf[d]
        <3>1. PICK t \in Tasks : Has(t) /\ PortOf(t) = d
            BY <2>1, <2>2
        <3>2. Held(t) /\ UartOf(t) = "dma"
            BY <2>2, <3>1 DEF Held
        <3>3. HasSend(t) /\ HasRecv(t)
            BY <3>1, <3>2 DEF UartOf, HasSend, HasRecv
        <3> QED
            BY <3>1, <3>2, <3>3 DEF Held, Mem
    <2>3. OwnMemory
        <3> SUFFICES ASSUME NEW d \in Ports, hw[d] = "dma"
                     PROVE  /\ sendBuf[d] \in heap /\ recvBuf[d] \in heap /\ sendBuf[d] # recvBuf[d]
                            /\ \A e \in Ports \ {d} : hw[e] = "dma" =>
                                   {sendBuf[d], recvBuf[d]} \cap {sendBuf[e], recvBuf[e]} = {}
            BY DEF OwnMemory
        <3>1. PICK t \in Tasks : /\ Has(t) /\ PortOf(t) = d
                                 /\ Mem(t) = {sendBuf[d], recvBuf[d]} /\ Mem(t) \subseteq heap
                                 /\ sendBuf[d] # recvBuf[d]
            BY <2>2
        <3>2. ASSUME NEW e \in Ports \ {d}, hw[e] = "dma"
              PROVE  {sendBuf[d], recvBuf[d]} \cap {sendBuf[e], recvBuf[e]} = {}
            <4>1. PICK u \in Tasks : Has(u) /\ PortOf(u) = e /\ Mem(u) = {sendBuf[e], recvBuf[e]}
                BY <2>2, <3>2
            <4>2. t # u
                BY <3>1, <4>1
            <4> QED
                BY <3>1, <4>1, <4>2 DEF Apart
        <3> QED
            BY <3>1, <3>2
    <2>4. FreePortsOff
        BY <2>1 DEF FreePortsOff
    <2> QED
        BY <2>3, <2>4
<1> QED
    BY <1>1, Invariance, PTL

\* While the heap has a block for every request nothing stays allocated that no
\* open port uses.
THEOREM Leakless ==
    ASSUME Owners, Plenty
    PROVE  Spec => []NothingLeaks
<1>1. ASSUME PortInv PROVE NothingLeaks
    <2> SUFFICES ASSUME NEW b \in heap
                 PROVE  \E d \in Ports : busy[d] /\ b \in {sendBuf[d], recvBuf[d]}
        BY DEF NothingLeaks
    <2>1. PICK t \in Tasks : b \in Mem(t)
        BY <1>1 DEF PortInv, Owned
    <2>2. Has(t) /\ b \in {sendBuf[PortOf(t)], recvBuf[PortOf(t)]}
        BY <2>1 DEF Mem, HasSend, HasRecv
    <2>3. PortOf(t) \in Ports /\ busy[PortOf(t)]
        BY <1>1, <2>2 DEF PortInv, Held, Has, PortOf, TypeOK, Handles
    <2> QED
        BY <2>2, <2>3
<1> QED
    BY <1>1, Invariance, PTL

\* Bytes are moved only through the open whose handle the caller holds.
THEOREM OwnHandles ==
    ASSUME Owners
    PROVE  Spec => ControlsOwn
<1>1. ASSUME PortInv, [Next]_vars
      PROVE  [\A t \in Tasks : pc[t] = "io" /\ pc'[t] = "idle" /\ hw[port[t]] = "dma" =>
                 opened[port[t]] = used[t]]_vars
    <2>1. ASSUME NEW t \in Tasks, pc[t] = "io" PROVE opened[port[t]] = used[t]
        BY <1>1, <2>1, InCall DEF Held, IsOpen
    <2> QED
        BY <2>1
<1> QED
    BY <1>1, Invariance, PTL DEF Spec, ControlsOwn
=============================================================================
