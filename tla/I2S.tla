---------------------------------- MODULE I2S ----------------------------------
(***************************************************************************)
(* libraries/I2S: one I2SClass instance, its I2SDoubleBuffer and the DMA   *)
(* channel that moves whole 32-bit words between the buffer and the        *)
(* peripheral.  The task's calls run under InterruptGuard and are one step *)
(* each; the DMA runs concurrently; its completion interrupt restarts it   *)
(* and then runs the user's callback, which may call read and write too.   *)
(*                                                                         *)
(* Bytes are numbered in the order in which they enter the stream.  The    *)
(* memory holds these numbers, so what the memory must contain for the     *)
(* stream to leave in order can be stated.                                 *)
(***************************************************************************)
EXTENDS Integers

CONSTANTS
  CapacityWords,   \* size of a slot in words (512 by default)
  Sizes,           \* byte counts the program passes to read and write
  MaxBytes         \* bound on the bytes that enter the stream

ASSUME I2SAssumption ==
  /\ CapacityWords \in Nat \ {0}
  /\ Sizes \subseteq Nat \ {0}
  /\ MaxBytes \in Nat /\ MaxBytes % 4 = 0

Word == 4
Capacity == Word * CapacityWords
Slots == {0, 1}

VARIABLES
  b,            \* the instance: see Instances
  mem,          \* storage_: two slots of Capacity bytes
  pc,           \* the task: "free", or inside "flush", "endflush", "close"
  irq,          \* "none", or "callback" while the user's callback runs
  in, out,      \* history: bytes that entered and that left the stream
  writeError    \* Print::setWriteError was called

vars == <<b, mem, pc, irq, in, out, writeError>>

\* ready_, direction_, busy_, received_, the buffer's application_, used_ and
\* consumed_, and the transfer programmed last: slot, bytes, bytes moved.
Instances ==
  [ready : BOOLEAN, dir : {"idle", "sending", "receiving"}, busy : BOOLEAN,
   received : BOOLEAN, app : Slots, used : 0 .. Capacity, consumed : 0 .. Capacity,
   slot : Slots, len : 0 .. Capacity, pos : 0 .. Capacity]

Closed ==
  [ready |-> FALSE, dir |-> "idle", busy |-> FALSE, received |-> FALSE,
   app |-> 0, used |-> 0, consumed |-> 0, slot |-> 1, len |-> 0, pos |-> 0]

\* The contents of memory that was allocated and not written.
Undefined == -1
Fresh == [s \in Slots |-> [k \in 0 .. Capacity - 1 |-> Undefined]]

Least(x, y) == IF x <= y THEN x ELSE y

-------------------------------------------------------------------------------
(* I2SDoubleBuffer and I2SClass, as functions of the instance.             *)

available(s) == s.used - s.consumed
\* Seeded fault: one byte more than fits is accepted.
availableForWrite_slack(s) == Capacity - s.used + 1
availableForWrite(s) == Capacity - s.used
swap(s, length) == [s EXCEPT !.app = 1 - s.app, !.consumed = 0, !.used = length]
start(s, slot, bytes) ==
  [s EXCEPT !.busy = TRUE, !.slot = slot, !.len = bytes, !.pos = 0]

\* Seeded fault: the slots are not swapped.
serviceSender_unswapped(s) ==
  IF available(s) = 0 \/ available(s) % Word # 0 THEN s
  ELSE start([s EXCEPT !.used = 0], s.app, available(s))

\* Seeded fault: whole words of a buffer that ends in a partial one are sent.
serviceSender_partial(s) ==
  IF available(s) < Word THEN s
  ELSE start(swap(s, 0), s.app, available(s) - (available(s) % Word))

\* service() of a sender: what was written leaves, if it is whole words.
serviceSender(s) ==
  IF available(s) = 0 \/ available(s) % Word # 0 THEN s
  ELSE start(swap(s, 0), s.app, available(s))

\* Seeded fault: unread samples do not hold the DMA back.
serviceReceiver_eager(s) ==
  IF s.received
  THEN start([swap(s, Capacity) EXCEPT !.received = FALSE], s.app, Capacity)
  ELSE start(s, 1 - s.app, Capacity)

\* service() of a receiver: the next reception goes into the slot that the
\* application does not use, once it has read the other one empty.
serviceReceiver(s) ==
  IF s.received /\ available(s) # 0 THEN s
  ELSE IF s.received
  THEN start([swap(s, Capacity) EXCEPT !.received = FALSE], s.app, Capacity)
  ELSE start(s, 1 - s.app, Capacity)

\* service(): starts the next transfer if the DMA is idle and there is one.
service(s) ==
  IF ~ s.ready \/ s.busy \/ s.dir = "idle" THEN s
  ELSE IF s.dir = "sending" THEN serviceSender(s) ELSE serviceReceiver(s)

\* select(): the direction is fixed by the first call that needs one.
selects(s, dir) == s.ready /\ s.dir \in {"idle", dir}

\* memcpy of n bytes, numbered from first, behind what is in the slot.
Filled(slot, from, n, first) ==
  [mem EXCEPT ![slot] =
     [k \in 0 .. Capacity - 1 |->
        IF from <= k /\ k < from + n THEN first + (k - from) ELSE mem[slot][k]]]

-------------------------------------------------------------------------------
Init ==
  /\ b = Closed
  /\ mem = Fresh
  /\ pc = "free" /\ irq = "none"
  /\ in = 0 /\ out = 0
  /\ writeError = FALSE

\* The task's own calls, and those it makes from the completion callback.
Runs(x) == IF x = "task" THEN pc = "free" /\ irq = "none" ELSE irq = "callback"

\* begin() with buffer and DMA channel to be had; otherwise nothing changes.
begin ==
  /\ Runs("task") /\ ~ b.ready
  /\ b' = [Closed EXCEPT !.ready = TRUE]
  /\ in' = 0 /\ out' = 0
  /\ UNCHANGED <<mem, pc, irq, writeError>>

write(x, n) ==
  /\ Runs(x) /\ selects(b, "sending")
  /\ LET count == Least(n, availableForWrite(b))
     IN  /\ in + count <= MaxBytes
         /\ mem' = Filled(b.app, b.used, count, in)
         /\ in' = in + count
         /\ b' = service([b EXCEPT !.dir = "sending", !.used = b.used + count])
  /\ UNCHANGED <<pc, irq, out, writeError>>

\* available(), peek(): they may start the reception.
poll(x) ==
  /\ Runs(x) /\ selects(b, "receiving")
  /\ b' = service([b EXCEPT !.dir = "receiving"])
  /\ UNCHANGED <<mem, pc, irq, in, out, writeError>>

\* availableForWrite() fixes the direction and starts nothing.
pollWrite(x) ==
  /\ Runs(x) /\ selects(b, "sending")
  /\ b' = [b EXCEPT !.dir = "sending"]
  /\ UNCHANGED <<mem, pc, irq, in, out, writeError>>

read(x, n) ==
  /\ Runs(x) /\ selects(b, "receiving")
  /\ LET s == service([b EXCEPT !.dir = "receiving"])
         count == Least(n, available(s))
     IN  /\ out' = out + count
         /\ b' = service([s EXCEPT !.consumed = s.consumed + count])
  /\ UNCHANGED <<mem, pc, irq, in, writeError>>

\* flush() of a receiver drops the unread bytes of the application's slot.
flushReceiver ==
  /\ Runs("task") /\ b.ready /\ b.dir = "receiving"
  /\ out' = out + available(b)
  /\ b' = service([b EXCEPT !.used = 0, !.consumed = 0])
  /\ UNCHANGED <<mem, pc, irq, in, writeError>>

\* flush() otherwise, and end() of a sender, which flushes first.
flush ==
  /\ Runs("task") /\ b.ready /\ b.dir # "receiving"
  /\ pc' = "flush"
  /\ UNCHANGED <<b, mem, irq, in, out, writeError>>

end ==
  /\ Runs("task") /\ b.ready
  /\ pc' = IF b.dir = "sending" THEN "endflush" ELSE "close"
  /\ UNCHANGED <<b, mem, irq, in, out, writeError>>

AfterFlush == IF pc = "flush" THEN "free" ELSE "close"

\* Seeded fault: the transfer in progress is not waited for.
flushRound_early ==
  /\ pc \in {"flush", "endflush"} /\ irq = "none"
  /\ LET pad == (Word - (available(b) % Word)) % Word
         s == service([b EXCEPT !.used = b.used + pad])
     IN  /\ mem' = Filled(b.app, b.used, pad, in)
         /\ in' = in + pad
         /\ b' = s
         /\ pc' = IF available(s) = 0 THEN AfterFlush ELSE pc
  /\ UNCHANGED <<irq, out, writeError>>

\* One round of the flush loop: a partial word is filled up with zeros.
flushRound ==
  /\ pc \in {"flush", "endflush"} /\ irq = "none"
  /\ LET pad == (Word - (available(b) % Word)) % Word
         s == service([b EXCEPT !.used = b.used + pad])
     IN  /\ mem' = Filled(b.app, b.used, pad, in)
         /\ in' = in + pad
         /\ b' = s
         /\ pc' = IF ~ s.busy /\ available(s) = 0 THEN AfterFlush ELSE pc
  /\ UNCHANGED <<irq, out, writeError>>

flushTimeout ==
  /\ pc \in {"flush", "endflush"} /\ irq = "none"
  /\ writeError' = TRUE
  /\ pc' = AfterFlush
  /\ UNCHANGED <<b, mem, irq, in, out>>

\* The guarded section of end(): the DMA is stopped before its memory goes.
close ==
  /\ pc = "close" /\ irq = "none"
  /\ b' = Closed
  /\ mem' = Fresh
  /\ pc' = "free"
  /\ UNCHANGED <<irq, in, out, writeError>>

-------------------------------------------------------------------------------
(* The DMA channel and its interrupt.                                      *)

transferWord ==
  /\ b.busy /\ b.pos < b.len
  /\ b' = [b EXCEPT !.pos = b.pos + Word]
  /\ IF b.dir = "sending"
     THEN out' = out + Word /\ UNCHANGED <<mem, in>>
     ELSE /\ in + Word <= MaxBytes
          /\ mem' = Filled(b.slot, b.pos, Word, in)
          /\ in' = in + Word
          /\ UNCHANGED out
  /\ UNCHANGED <<pc, irq, writeError>>

\* Seeded fault: the completion does not start the next transfer.
transferComplete_idle ==
  /\ b.busy /\ b.pos = b.len /\ irq = "none"
  /\ b' = [b EXCEPT !.busy = FALSE, !.received = (b.dir = "receiving")]
  /\ irq' = "callback"
  /\ UNCHANGED <<mem, pc, in, out, writeError>>

\* i2s_dmac_irq, _onTransferComplete: the next transfer is started before the
\* user's callback runs.
transferComplete ==
  /\ b.busy /\ b.pos = b.len /\ irq = "none"
  /\ b' = service([b EXCEPT !.busy = FALSE, !.received = (b.dir = "receiving")])
  /\ irq' = "callback"
  /\ UNCHANGED <<mem, pc, in, out, writeError>>

callbackReturns ==
  /\ irq = "callback"
  /\ irq' = "none"
  /\ UNCHANGED <<b, mem, pc, in, out, writeError>>

-------------------------------------------------------------------------------
Calls ==
  \/ begin
  \/ \E x \in {"task", "irq"} :
       poll(x) \/ pollWrite(x) \/ \E n \in Sizes : write(x, n) \/ read(x, n)
  \/ flushReceiver \/ flush \/ end

Flushing == flushRound \/ flushTimeout \/ close
Dma == transferWord \/ transferComplete \/ callbackReturns

Next == Calls \/ Flushing \/ Dma
Spec == Init /\ [][Next]_vars

\* The peripheral's clock runs while a transfer is programmed, so words move;
\* the interrupt is taken; callbacks return.  Nothing makes the program call
\* anything, or a flush go on.
FairSpec ==
  /\ Spec
  /\ WF_vars(transferWord) /\ WF_vars(transferComplete)
  /\ WF_vars(callbackReturns)

-------------------------------------------------------------------------------
(* Properties.                                                             *)

\* Type invariant.
TypeOK ==
  /\ b \in Instances
  /\ mem \in [Slots -> [0 .. Capacity - 1 -> Nat \cup {Undefined}]]
  /\ pc \in {"free", "flush", "endflush", "close"}
  /\ irq \in {"none", "callback"}
  /\ in \in 0 .. MaxBytes /\ out \in 0 .. MaxBytes
  /\ writeError \in BOOLEAN

\* While the DMA moves a slot, read and write address the other one, and the
\* transfer is whole words inside the slot.
DmaHasItsSlot ==
  b.busy => b.slot # b.app /\ b.len % Word = 0 /\ b.pos <= b.len /\ b.len <= Capacity

\* Sending, the bytes accepted by write leave in order, each once: the rest of
\* the transfer holds the next ones, the application's slot those after them.
TxInOrder ==
  b.dir = "sending" =>
    LET rest == IF b.busy THEN b.len - b.pos ELSE 0
    IN  /\ in = out + rest + b.used
        /\ \A k \in 0 .. Capacity - 1 :
             /\ b.busy /\ b.pos <= k /\ k < b.len => mem[b.slot][k] = out + (k - b.pos)
             /\ k < b.used => mem[b.app][k] = out + rest + k

\* Receiving, read returns the bytes the DMA delivered in order, each once: the
\* unread ones of the application's slot, then a received slot, then what the
\* transfer has moved so far.
RxInOrder ==
  b.dir = "receiving" =>
    /\ in = out + available(b) + (IF b.busy THEN b.pos ELSE IF b.received THEN Capacity ELSE 0)
    /\ \A k \in 0 .. Capacity - 1 :
         /\ b.consumed <= k /\ k < b.used => mem[b.app][k] = out + (k - b.consumed)
         /\ b.busy /\ k < b.pos => mem[b.slot][k] = out + available(b) + k
         /\ ~ b.busy /\ b.received => mem[1 - b.app][k] = out + available(b) + k

\* A flush() that ends without the timeout leaves nothing behind, neither in
\* the buffer nor in the transfer.
FlushDrains ==
  [][flushRound => (pc' # pc => in' = out')]_vars

\* Once the program has written a whole number of words and writes no more,
\* everything leaves without further calls: the completion interrupt starts
\* what was written while the DMA was busy.
WholeWordsLeave ==
  \A n \in {4 * w : w \in 1 .. MaxBytes \div 4} :
    <>[](b.dir = "sending" /\ in = n) => []<>(out = n)

===============================================================================
