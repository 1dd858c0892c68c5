-------------------------------- MODULE Serial --------------------------------
(* A serial port from the line to the sketch: HardwareSerial.cpp over          *)
(* k210-hal/k210-hal-uart.c over RT-Thread's serial device (external: its      *)
(* receive FIFO and the interrupt that fills it), a task that polls the port   *)
(* and stores what it reads in a RingBuffer, and the sketch's loop, which      *)
(* takes bytes out and may begin and end the port and set its callback.        *)
(* Bytes are numbered in the order in which they come over the line.  The      *)
(* sketch does not begin or end the port while the other task is in a call     *)
(* (hal_uart_available keeps a pointer into the device, line 382).             *)
EXTENDS RingBuffer

CONSTANTS BufSz,       \* _bufferSize, the size of the device's FIFO
          MaxBytes     \* bound on the bytes sent over the line

ASSUME SerialAssumption == /\ BufSz \in Nat \ {0, 1} /\ MaxBytes \in Nat
                           /\ 0 .. MaxBytes - 1 \subseteq Bytes

VARIABLES opened,      \* _uart and dev are set: the port is open
          buffer, put_index, get_index,   \* the device's FIFO
          callback,    \* _onRecvCallback is set
          notify,      \* user_rx_notify and the device's rx_notify are set
          sent,        \* bytes sent over the line
          last,        \* ghost: the last byte the loop took
          polling      \* the other task: "idle", or what it does next

portVars == <<opened, buffer, put_index, get_index, callback, notify, sent>>
vars == <<ringVars, portVars, last, polling>>

Fifo == 0 .. BufSz - 1
Inc(i) == IF i + 1 >= BufSz THEN 0 ELSE i + 1

-------------------------------------------------------------------------------
(* The device (external).  A byte that finds the FIFO full replaces the oldest.*)
Received ==
    /\ buffer' = [buffer EXCEPT ![put_index] = sent]
    /\ put_index' = Inc(put_index)
    /\ get_index' = IF Inc(put_index) = get_index THEN Inc(get_index) ELSE get_index

(* A byte on the line; a closed port does not hear it.                         *)
LineByte ==
    /\ sent < MaxBytes
    /\ sent' = sent + 1
    /\ IF opened THEN Received ELSE UNCHANGED <<buffer, put_index, get_index>>
    /\ UNCHANGED <<ringVars, opened, callback, notify, last, polling>>

-------------------------------------------------------------------------------
(* Seeded fault: the wrapped case is forgotten.                                *)
F_hal_uart_available == put_index - get_index

hal_uart_available == IF put_index >= get_index THEN put_index - get_index
                      ELSE BufSz - (get_index - put_index)

(* The polling task: available() > 0, then hal_uart_read_one, then store_char. *)
Poll == /\ polling = "idle" /\ producer = "idle"
        /\ opened /\ hal_uart_available > 0
        /\ polling' = "read"
        /\ UNCHANGED <<ringVars, portVars, last>>

ReadOne == /\ polling = "read"
           /\ polling' = "idle"
           /\ get_index' = Inc(get_index)
           /\ StoreChar(buffer[get_index])
           /\ UNCHANGED <<opened, buffer, put_index, callback, notify, sent, last>>

Store == StoreStep /\ UNCHANGED <<portVars, last, polling>>

-------------------------------------------------------------------------------
(* The loop takes bytes; the value is returned by the step that counts.        *)
Loop == /\ ReadStep
        /\ last' = IF consumer = "count" THEN value ELSE last
        /\ UNCHANGED <<portVars, polling>>

(* clear asks both sides of the buffer to be quiescent (RingBuffer.h, line 10). *)
LoopClear == RingClear /\ UNCHANGED <<portVars, last, polling>>

Quiet == polling = "idle" /\ consumer = "idle"

(* hal_uart_end: the callback is taken back, then the device closed, which     *)
(* frees the FIFO.                                                             *)
hal_uart_end == opened' = FALSE /\ notify' = FALSE /\ put_index' = 0 /\ get_index' = 0

(* begin: an open port is ended, the device opened with an empty FIFO, and     *)
(* the callback cleared, one that onReceive was given before included.         *)
Begin == /\ Quiet
         /\ opened' = TRUE
         /\ put_index' = 0 /\ get_index' = 0
         /\ notify' = FALSE
         /\ UNCHANGED <<ringVars, buffer, callback, sent, last, polling>>

End == /\ Quiet /\ opened
       /\ hal_uart_end
       /\ UNCHANGED <<ringVars, buffer, callback, sent, last, polling>>

(* onReceive(callback), NULL included; the callback itself runs in the         *)
(* receive interrupt and only looks at the port.                               *)
OnReceive(cb) ==
    /\ consumer = "idle"
    /\ callback' = cb
    /\ notify' = (opened /\ cb)
    /\ UNCHANGED <<ringVars, opened, buffer, put_index, get_index, sent, last, polling>>

-------------------------------------------------------------------------------
Init == /\ RingInit
        /\ opened = FALSE /\ buffer = [i \in Fifo |-> 0] /\ put_index = 0 /\ get_index = 0
        /\ callback = FALSE /\ notify = FALSE
        /\ sent = 0 /\ last = NoByte /\ polling = "idle"

Next == \/ LineByte \/ Poll \/ ReadOne \/ Store \/ Loop \/ LoopClear \/ Begin \/ End
        \/ \E cb \in BOOLEAN : OnReceive(cb)

(* The polling task and the loop keep running: they share the CPU by the tick. *)
Fairness == WF_vars(Poll) /\ WF_vars(ReadOne) /\ WF_vars(Store) /\ WF_vars(Loop)

Spec == Init /\ [][Next]_vars /\ Fairness

-------------------------------------------------------------------------------
(* The types of the state.                                                     *)
TypeOK == /\ RingTypeOK
          /\ opened \in BOOLEAN /\ callback \in BOOLEAN /\ notify \in BOOLEAN
          /\ buffer \in [Fifo -> Bytes] /\ put_index \in Fifo /\ get_index \in Fifo
          /\ sent \in 0 .. MaxBytes /\ last \in Bytes \cup {NoByte}
          /\ polling \in {"idle", "read"}

(* What is on its way from the line to the loop, the next to arrive first.     *)
Unread == [i \in 1 .. hal_uart_available |-> buffer[(get_index + i - 1) % BufSz]]
Storing == IF storing = NoByte THEN <<>> ELSE <<storing>>
Pipeline == <<last>> \o Contents \o Storing \o Unread

(* The state keeps its types, the indices inside the buffers.                  *)
(* Bytes never overtake one another and none is delivered twice on the way     *)
(* from the line through the device's FIFO and the ring buffer to the loop,    *)
(* however full the two are and wherever the port is begun and ended.          *)
PipelineOrdered ==
    /\ TypeOK
    /\ \A i, j \in DOMAIN Pipeline : i < j => Pipeline[i] < Pipeline[j]

(* Bytes do not stay behind: a FIFO that holds some is emptied or its port     *)
(* closed, and so is the ring buffer (available() and read()).                 *)
Drains == /\ put_index # get_index ~> put_index = get_index
          /\ count_ > 0 ~> count_ = 0
===============================================================================
