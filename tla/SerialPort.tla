----------------------------- MODULE SerialPort -----------------------------
(***************************************************************************)
(* The serial port service over its UART layer (serial_port.c,             *)
(* serial_port_uart.c).  A port is claimed and released under the          *)
(* interrupt mask; its buffers, its UART and its handle are dealt with     *)
(* outside of it, one step after the other.                                *)
(***************************************************************************)
EXTENDS Naturals

CONSTANTS
    Tasks, Ports,
    Blocks, NoBlock,  \* the blocks the heap can give, and NULL
    NoHandle,
    Counts,           \* open events told apart by a handle: 256
    Uses,             \* the task whose handle variable a task uses
    Forget,           \* users drop a handle once it is closed
    Plenty,           \* the heap has a block for every request
    GoodSizes         \* the FIFO sizes asked for suit the UART

ASSUME SerialPortAssumption ==
    /\ Counts \in Nat \ {0} /\ Uses \in [Tasks -> Tasks]
    /\ Forget \in BOOLEAN /\ Plenty \in BOOLEAN /\ GoodSizes \in BOOLEAN
    /\ NoBlock \notin Blocks

Handles == [port : Ports, count : 0 .. Counts - 1]
ASSUME NoHandleAssumption == NoHandle \notin Handles

VARIABLES
    busy,       \* g_serial_port_device_is_busy
    count,      \* g_serial_port_open_count
    hw,         \* per port: g_uart_hwstatus
    sendBuf,    \* per port: g_serial_port_send_vfifo_buffer
    recvBuf,    \* per port: g_serial_port_receive_vfifo_buffer
    heap,       \* the blocks in use
    twice,      \* ghost: a block was freed that was not in use
    pc,         \* per task: where its call is
    port,       \* per task: the port of its call
    used,       \* per task: the handle of its call
    handle,     \* per handle variable: the handle the last open returned
    opened      \* ghost, per port: the handle of the open in effect

vars == <<busy, count, hw, sendBuf, recvBuf, heap, twice, pc, port, used, handle, opened>>
buffers == <<sendBuf, recvBuf, heap, twice>>
service == <<busy, count, opened, handle>>

Init ==
    /\ busy = [d \in Ports |-> FALSE] /\ count = 0
    /\ hw = [d \in Ports |-> "uninit"]
    /\ sendBuf = [d \in Ports |-> NoBlock] /\ recvBuf = [d \in Ports |-> NoBlock]
    /\ heap = {} /\ twice = FALSE
    /\ pc = [t \in Tasks |-> "idle"] /\ port \in [Tasks -> Ports]
    /\ used = [t \in Tasks |-> NoHandle] /\ handle = [t \in Tasks |-> NoHandle]
    /\ opened = [d \in Ports |-> NoHandle]

Go(t, l) == pc' = [pc EXCEPT ![t] = l]

-----------------------------------------------------------------------------
(* serial_port_open; a busy port is refused and nothing changes. *)

\* The port is claimed under the mask.
Claim(t, d) ==
    /\ pc[t] = "idle" /\ (Forget => handle[Uses[t]] = NoHandle)
    /\ ~busy[d]
    /\ busy' = [busy EXCEPT ![d] = TRUE]
    /\ port' = [port EXCEPT ![t] = d]
    /\ Go(t, "send")
    /\ UNCHANGED <<count, hw, buffers, used, handle, opened>>

\* What pvPortMallocNC may return.
Given == (Blocks \ heap) \cup IF Plenty THEN {} ELSE {NoBlock}
TakenWith(b) == heap \cup ({b} \ {NoBlock})

AllocSend(t) ==
    /\ pc[t] = "send"
    /\ \E b \in Given :
        /\ sendBuf' = [sendBuf EXCEPT ![port[t]] = b]
        /\ heap' = TakenWith(b)
        /\ Go(t, IF b = NoBlock THEN "undo" ELSE "recv")
    /\ UNCHANGED <<service, hw, recvBuf, twice, port, used>>

AllocRecv(t) ==
    /\ pc[t] = "recv"
    /\ \E b \in Given :
        /\ recvBuf' = [recvBuf EXCEPT ![port[t]] = b]
        /\ heap' = TakenWith(b)
        /\ Go(t, IF b = NoBlock THEN "undo" ELSE "init")
    /\ UNCHANGED <<service, hw, sendBuf, twice, port, used>>

\* hal_uart_init is refused unless the UART is off.
UartInit(t) ==
    /\ pc[t] = "init"
    /\ IF hw[port[t]] = "uninit"
       THEN hw' = [hw EXCEPT ![port[t]] = "poll"] /\ Go(t, "dma")
       ELSE hw' = hw /\ Go(t, "undo")
    /\ UNCHANGED <<service, buffers, port, used>>

\* hal_uart_set_dma refuses sizes that do not suit; hal_uart_register_callback
\* does not fail after it.
SetDma(t) ==
    /\ pc[t] = "dma"
    /\ \/ /\ hw[port[t]] = "poll"
          /\ hw' = [hw EXCEPT ![port[t]] = "dma"] /\ Go(t, "give")
       \/ /\ hw[port[t]] # "poll" \/ ~GoodSizes
          /\ hw' = hw /\ Go(t, "undo")
    /\ UNCHANGED <<service, buffers, port, used>>

\* The handle of a new open event is returned.
Give(t) ==
    /\ pc[t] = "give"
    /\ count' = (count + 1) % Counts
    /\ LET h == [port |-> port[t], count |-> count'] IN
        /\ handle' = [handle EXCEPT ![Uses[t]] = h]
        /\ opened' = [opened EXCEPT ![port[t]] = h]
    /\ Go(t, "idle")
    /\ UNCHANGED <<busy, hw, buffers, port, used>>

\* A failed open releases the port and returns an invalid handle.
Undo(t) ==
    /\ pc[t] = "undo"
    /\ busy' = [busy EXCEPT ![port[t]] = FALSE]
    /\ handle' = [handle EXCEPT ![Uses[t]] = NoHandle]
    /\ Go(t, "idle")
    /\ UNCHANGED <<count, hw, buffers, port, used, opened>>

-----------------------------------------------------------------------------
(* serial_port_control and serial_port_close: of the handle only the port is
   looked at; a port that is not busy is refused and nothing changes. *)

Start(t, l) ==
    LET h == handle[Uses[t]] IN
    /\ pc[t] = "idle" /\ h # NoHandle
    /\ busy[h.port]
    /\ used' = [used EXCEPT ![t] = h]
    /\ port' = [port EXCEPT ![t] = h.port]
    /\ Go(t, l)
    /\ UNCHANGED <<service, hw, buffers>>

Control(t) == Start(t, "io")
Close(t) == Start(t, "deinit")

\* The UART's FIFO is read or written; an UART that is off moves no byte.
Io(t) ==
    /\ pc[t] = "io" /\ Go(t, "idle")
    /\ UNCHANGED <<service, hw, buffers, port, used>>

\* hal_uart_deinit looks at the status, waits until all is sent ...
Deinit(t) ==
    /\ pc[t] = "deinit"
    /\ Go(t, IF hw[port[t]] = "uninit" THEN "idle" ELSE "off")
    /\ UNCHANGED <<service, hw, buffers, port, used>>

\* Mutant: the UART is left on.
UartOffSkipped(t) ==
    /\ pc[t] = "off"
    /\ Go(t, "freeSend")
    /\ UNCHANGED <<service, hw, buffers, port, used>>

\* Mutant: the port is released as soon as its UART is off.
UartOffReleased(t) ==
    /\ pc[t] = "off"
    /\ hw' = [hw EXCEPT ![port[t]] = "uninit"]
    /\ busy' = [busy EXCEPT ![port[t]] = FALSE]
    /\ Go(t, "freeSend")
    /\ UNCHANGED <<count, opened, handle, buffers, port, used>>

\* ... and turns the UART off.
UartOff(t) ==
    /\ pc[t] = "off"
    /\ hw' = [hw EXCEPT ![port[t]] = "uninit"]
    /\ Go(t, "freeSend")
    /\ UNCHANGED <<service, buffers, port, used>>

Free(b) == heap' = heap \ {b} /\ twice' = (twice \/ b \notin heap)

FreeSend(t) ==
    /\ pc[t] = "freeSend" /\ Free(sendBuf[port[t]]) /\ Go(t, "freeRecv")
    /\ UNCHANGED <<service, hw, sendBuf, recvBuf, port, used>>

FreeRecv(t) ==
    /\ pc[t] = "freeRecv" /\ Free(recvBuf[port[t]]) /\ Go(t, "release")
    /\ UNCHANGED <<service, hw, sendBuf, recvBuf, port, used>>

\* The port is released under the mask.
Release(t) ==
    /\ pc[t] = "release"
    /\ busy' = [busy EXCEPT ![port[t]] = FALSE]
    /\ opened' = [opened EXCEPT ![port[t]] = NoHandle]
    /\ handle' = IF Forget THEN [handle EXCEPT ![Uses[t]] = NoHandle] ELSE handle
    /\ Go(t, "idle")
    /\ UNCHANGED <<count, hw, buffers, port, used>>

Opening(t) == AllocSend(t) \/ AllocRecv(t) \/ UartInit(t) \/ SetDma(t) \/ Give(t) \/ Undo(t)
Closing(t) == Deinit(t) \/ UartOff(t) \/ FreeSend(t) \/ FreeRecv(t) \/ Release(t)
Call(t) == Control(t) \/ Close(t) \/ \E d \in Ports : Claim(t, d)

Next == \E t \in Tasks : Call(t) \/ Opening(t) \/ Closing(t) \/ Io(t)

Spec == Init /\ [][Next]_vars

-----------------------------------------------------------------------------
TypeOK ==
    /\ busy \in [Ports -> BOOLEAN] /\ count \in 0 .. Counts - 1
    /\ hw \in [Ports -> {"uninit", "poll", "dma"}]
    /\ sendBuf \in [Ports -> Blocks \cup {NoBlock}]
    /\ recvBuf \in [Ports -> Blocks \cup {NoBlock}]
    /\ heap \subseteq Blocks /\ twice \in BOOLEAN
    /\ pc \in [Tasks -> {"idle", "send", "recv", "init", "dma", "give", "undo", "io", "deinit",
                         "off", "freeSend", "freeRecv", "release"}]
    /\ port \in [Tasks -> Ports]
    /\ used \in [Tasks -> Handles \cup {NoHandle}]
    /\ handle \in [Tasks -> Handles \cup {NoHandle}]
    /\ opened \in [Ports -> Handles \cup {NoHandle}]

\* The UART never moves bytes through memory that was freed or is another's: while
\* its DMA is on its two buffers are in use and belong to this port only.
OwnMemory ==
    \A d \in Ports : hw[d] = "dma" =>
        /\ sendBuf[d] \in heap /\ recvBuf[d] \in heap /\ sendBuf[d] # recvBuf[d]
        /\ \A e \in Ports \ {d} : hw[e] = "dma" =>
               {sendBuf[d], recvBuf[d]} \cap {sendBuf[e], recvBuf[e]} = {}

\* A block in use is a buffer of a busy port: nothing stays allocated when every
\* port is closed, however the calls of the tasks are interleaved.
NothingLeaks == \A b \in heap : \E d \in Ports : busy[d] /\ b \in {sendBuf[d], recvBuf[d]}

\* No buffer is freed twice.
FreedOnce == ~twice

\* The UART of a port nobody has open is off, so the next open succeeds.
FreePortsOff == \A d \in Ports : ~busy[d] => hw[d] = "uninit"

\* Bytes are moved only through the open the handle was returned by.
ControlsOwn ==
    [][\A t \in Tasks : pc[t] = "io" /\ pc'[t] = "idle" /\ hw[port[t]] = "dma" =>
           opened[port[t]] = used[t]]_vars

-----------------------------------------------------------------------------
(* The inductive invariant, for users that keep their handle to themselves, drop
   it once it is closed and ask for sizes that suit. *)
Owners == Forget /\ GoodSizes /\ \A t \in Tasks : Uses[t] = t

\* The task has a port: it has it open, or its open or close is under way.
Has(t) == pc[t] # "idle" \/ handle[t] # NoHandle
PortOf(t) == IF pc[t] = "idle" THEN handle[t].port ELSE port[t]

\* The blocks that are its.
HasSend(t) == Has(t) /\ pc[t] \notin {"send", "freeRecv", "release", "undo"}
HasRecv(t) == Has(t) /\ pc[t] \notin {"send", "recv", "release", "undo"}
Mem(t) == (IF HasSend(t) THEN {sendBuf[PortOf(t)]} ELSE {})
            \cup (IF HasRecv(t) THEN {recvBuf[PortOf(t)]} ELSE {})

\* The status of its UART, and the handle of the open in effect.
UartOf(t) == IF pc[t] = "dma" THEN "poll"
             ELSE IF pc[t] \in {"give", "io", "deinit", "off", "idle"} THEN "dma" ELSE "uninit"
IsOpen(t) == pc[t] \in {"idle", "io", "deinit", "off", "freeSend", "freeRecv", "release"}
Held(t) ==
    /\ busy[PortOf(t)] /\ hw[PortOf(t)] = UartOf(t)
    /\ IF IsOpen(t) THEN handle[t] # NoHandle /\ handle[t].port = PortOf(t)
                         /\ opened[PortOf(t)] = handle[t]
                    ELSE handle[t] = NoHandle
    /\ pc[t] = "io" => used[t] = handle[t]
    /\ HasSend(t) /\ HasRecv(t) => sendBuf[PortOf(t)] # recvBuf[PortOf(t)]
    /\ Mem(t) \subseteq heap

\* Two tasks have different ports and different blocks, a port no task has is off,
\* and, when the heap has plenty, every block in use is a task's.
Apart == \A t, u \in Tasks : t # u /\ Has(t) /\ Has(u) => PortOf(t) # PortOf(u)
                                                          /\ Mem(t) \cap Mem(u) = {}
Vacant == \A d \in Ports : (\A t \in Tasks : Has(t) => PortOf(t) # d) => hw[d] = "uninit"
Owned == Plenty => \A b \in heap : \E t \in Tasks : b \in Mem(t)

PortInv == TypeOK /\ FreedOnce /\ (\A t \in Tasks : Has(t) => Held(t)) /\ Apart /\ Vacant /\ Owned
=============================================================================
