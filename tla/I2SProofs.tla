------------------------------- MODULE I2SProofs -------------------------------
(***************************************************************************)
(* Proofs about I2S: for every buffer size, every set of call sizes and    *)
(* every interleaving of task, callback and DMA, the program and the DMA   *)
(* never share a slot and the stream keeps every byte in order.            *)
(*                                                                         *)
(* The invariant is stated as a predicate of an instance, the memory and   *)
(* the two counters, because every call ends in service(), which is then   *)
(* treated once (ServiceKeeps) for the state the call has prepared.        *)
(***************************************************************************)
EXTENDS I2S, TLAPS

\* What the fields of an instance say about each other.
Shape(s) ==
  /\ s \in Instances
  /\ s.consumed <= s.used
  /\ s.dir = "idle" => ~ s.busy /\ ~ s.received /\ s.used = 0 /\ s.consumed = 0
  /\ s.dir = "sending" => ~ s.received /\ s.consumed = 0
  /\ s.dir = "receiving" /\ s.busy => s.len = Capacity
  /\ s.busy => /\ ~ s.received
               /\ s.slot # s.app
               /\ s.pos <= s.len
               /\ s.len % 4 = 0
               /\ s.pos % 4 = 0

\* TxInOrder, of an instance, a memory and the counters.
Tx(s, m, i, o) ==
  s.dir = "sending" =>
    /\ o % 4 = 0
    /\ i = o + (IF s.busy THEN s.len - s.pos ELSE 0) + s.used
    /\ \A k \in 0 .. Capacity - 1 :
         /\ s.busy /\ s.pos <= k /\ k < s.len => m[s.slot][k] = o + (k - s.pos)
         /\ k < s.used => m[s.app][k] = o + (IF s.busy THEN s.len - s.pos ELSE 0) + k

\* RxInOrder, of an instance, a memory and the counters.
Rx(s, m, i, o) ==
  s.dir = "receiving" =>
    /\ i = o + available(s) + (IF s.busy THEN s.pos ELSE IF s.received THEN Capacity ELSE 0)
    /\ \A k \in 0 .. Capacity - 1 :
         /\ s.consumed <= k /\ k < s.used => m[s.app][k] = o + (k - s.consumed)
         /\ s.busy /\ k < s.pos => m[s.slot][k] = o + available(s) + k
         /\ ~ s.busy /\ s.received => m[1 - s.app][k] = o + available(s) + k

\* A stream that has not chosen a direction has moved nothing.
Rest(s, i, o) == s.ready /\ s.dir = "idle" => i = 0 /\ o = 0

Memories == [Slots -> [0 .. Capacity - 1 -> Nat \cup {Undefined}]]

\* The inductive invariant.
Good(s, m, i, o) ==
  /\ Shape(s)
  /\ Tx(s, m, i, o)
  /\ Rx(s, m, i, o)
  /\ Rest(s, i, o)

IInv ==
  /\ TypeOK
  /\ Good(b, mem, in, out)
  /\ b.dir # "idle" => b.ready
  /\ irq = "callback" => b.dir # "idle"
  /\ pc # "free" => b.ready
  /\ pc = "endflush" => b.dir = "sending"
  /\ pc = "flush" => b.dir # "receiving"

-------------------------------------------------------------------------------
(* Facts about the operators.                                              *)

\* A slot is a positive whole number of words.
LEMMA CapacityFacts ==
  /\ Capacity \in Nat
  /\ Capacity >= 4
  /\ Capacity % 4 = 0
BY I2SAssumption DEF Capacity, Word

\* What filling a slot leaves in each cell of both slots.
LEMMA FilledFacts ==
  ASSUME mem \in Memories,
         NEW slot \in Slots, NEW from \in Nat, NEW n \in Nat, NEW first \in Nat
  PROVE  /\ Filled(slot, from, n, first) \in Memories
         /\ \A k \in 0 .. Capacity - 1 :
              Filled(slot, from, n, first)[slot][k]
                = IF from <= k /\ k < from + n THEN first + (k - from) ELSE mem[slot][k]
         /\ \A other \in Slots \ {slot} :
              Filled(slot, from, n, first)[other] = mem[other]
<1>1. Capacity \in Nat
  BY CapacityFacts
<1>. DEFINE row == [k \in 0 .. Capacity - 1 |->
        IF from <= k /\ k < from + n THEN first + (k - from) ELSE mem[slot][k]]
<1>2. row \in [0 .. Capacity - 1 -> Nat \cup {Undefined}]
  BY <1>1 DEF Memories, Undefined
<1>3. Filled(slot, from, n, first) = [mem EXCEPT ![slot] = row]
  BY DEF Filled
<1>. HIDE DEF row
<1>4. /\ Filled(slot, from, n, first) \in Memories
      /\ Filled(slot, from, n, first)[slot] = row
      /\ \A other \in Slots \ {slot} : Filled(slot, from, n, first)[other] = mem[other]
  BY <1>2, <1>3 DEF Memories
<1>5. \A k \in 0 .. Capacity - 1 :
        row[k] = IF from <= k /\ k < from + n THEN first + (k - from) ELSE mem[slot][k]
  BY DEF row
<1>. QED
  BY <1>4, <1>5

\* The fields of an instance after start() and after swap().
LEMMA StartFields ==
  ASSUME NEW s \in Instances, NEW slot \in Slots, NEW n \in 0 .. Capacity
  PROVE  LET t == start(s, slot, n)
         IN  /\ t \in Instances
             /\ t.busy /\ t.slot = slot /\ t.len = n /\ t.pos = 0
             /\ t.ready = s.ready /\ t.dir = s.dir /\ t.received = s.received
             /\ t.app = s.app /\ t.used = s.used /\ t.consumed = s.consumed
<1>1. 0 \in 0 .. Capacity
  BY CapacityFacts
<1>. QED
  BY <1>1 DEF Instances, start

LEMMA SwapFields ==
  ASSUME NEW s \in Instances, NEW n \in 0 .. Capacity
  PROVE  LET t == swap(s, n)
         IN  /\ t \in Instances
             /\ t.app = 1 - s.app /\ t.used = n /\ t.consumed = 0
             /\ t.busy = s.busy /\ t.slot = s.slot /\ t.len = s.len /\ t.pos = s.pos
             /\ t.ready = s.ready /\ t.dir = s.dir /\ t.received = s.received
<1>1. 0 \in 0 .. Capacity
  BY CapacityFacts
<1>2. 1 - s.app \in Slots
  BY DEF Instances, Slots
<1>. QED
  BY <1>1, <1>2 DEF Instances, swap

\* The instance of a sender whose written bytes were handed to the DMA.
LEMMA SenderFields ==
  ASSUME NEW s \in Instances, s.consumed = 0
  PROVE  LET t == start(swap(s, 0), s.app, available(s))
         IN  /\ t \in Instances
             /\ t.busy /\ t.slot = s.app /\ t.len = s.used /\ t.pos = 0
             /\ t.ready = s.ready /\ t.dir = s.dir /\ t.received = s.received
             /\ t.app = 1 - s.app /\ t.used = 0 /\ t.consumed = 0
<1>. DEFINE w == swap(s, 0)
<1>1. s.app \in Slots /\ s.used \in 0 .. Capacity /\ 0 \in 0 .. Capacity
  BY CapacityFacts DEF Instances
<1>2. available(s) = s.used
  BY <1>1, CapacityFacts DEF available
<1>3. /\ w \in Instances
      /\ w.app = 1 - s.app /\ w.used = 0 /\ w.consumed = 0
      /\ w.ready = s.ready /\ w.dir = s.dir /\ w.received = s.received
  BY <1>1, SwapFields
<1>. HIDE DEF w
<1>4. LET t == start(w, s.app, s.used)
      IN  /\ t \in Instances
          /\ t.busy /\ t.slot = s.app /\ t.len = s.used /\ t.pos = 0
          /\ t.ready = w.ready /\ t.dir = w.dir /\ t.received = w.received
          /\ t.app = w.app /\ t.used = w.used /\ t.consumed = w.consumed
  BY <1>1, <1>3, StartFields
<1>5. start(swap(s, 0), s.app, available(s)) = start(w, s.app, s.used)
  BY <1>2 DEF w
<1>. QED
  BY <1>3, <1>4, <1>5

\* The instance of a receiver that was given the received slot.
LEMMA ReceiverFields ==
  ASSUME NEW s \in Instances
  PROVE  LET t == start([swap(s, Capacity) EXCEPT !.received = FALSE], s.app, Capacity)
         IN  /\ t \in Instances
             /\ t.busy /\ t.slot = s.app /\ t.len = Capacity /\ t.pos = 0
             /\ t.ready = s.ready /\ t.dir = s.dir /\ ~ t.received
             /\ t.app = 1 - s.app /\ t.used = Capacity /\ t.consumed = 0
<1>. DEFINE w == swap(s, Capacity)
            v == [w EXCEPT !.received = FALSE]
<1>1. s.app \in Slots /\ Capacity \in 0 .. Capacity
  BY CapacityFacts DEF Instances
<1>2. /\ w \in Instances
      /\ w.app = 1 - s.app /\ w.used = Capacity /\ w.consumed = 0
      /\ w.ready = s.ready /\ w.dir = s.dir
  BY <1>1, SwapFields
<1>. HIDE DEF w
<1>3. /\ v \in Instances
      /\ v.app = w.app /\ v.used = w.used /\ v.consumed = w.consumed
      /\ v.ready = w.ready /\ v.dir = w.dir /\ ~ v.received
  BY <1>2 DEF Instances
<1>. HIDE DEF v
<1>4. LET t == start(v, s.app, Capacity)
      IN  /\ t \in Instances
          /\ t.busy /\ t.slot = s.app /\ t.len = Capacity /\ t.pos = 0
          /\ t.ready = v.ready /\ t.dir = v.dir /\ t.received = v.received
          /\ t.app = v.app /\ t.used = v.used /\ t.consumed = v.consumed
  BY <1>1, <1>3, StartFields
<1>5. start([swap(s, Capacity) EXCEPT !.received = FALSE], s.app, Capacity)
        = start(v, s.app, Capacity)
  BY DEF v, w
<1>. QED
  BY <1>2, <1>3, <1>4, <1>5

\* The instance of a receiver whose first transfer was started.
LEMMA FirstFields ==
  ASSUME NEW s \in Instances
  PROVE  LET u == start(s, 1 - s.app, Capacity)
         IN  /\ u \in Instances
             /\ u.busy /\ u.slot = 1 - s.app /\ u.len = Capacity /\ u.pos = 0
             /\ u.ready = s.ready /\ u.dir = s.dir /\ u.received = s.received
             /\ u.app = s.app /\ u.used = s.used /\ u.consumed = s.consumed
<1>1. 1 - s.app \in Slots /\ Capacity \in 0 .. Capacity
  BY CapacityFacts DEF Instances, Slots
<1>. QED
  BY <1>1, StartFields

\* service() of an idle sender keeps the stream in order: the application's
\* slot becomes the transfer.
LEMMA SenderKeeps ==
  ASSUME NEW s, NEW m, NEW i \in Nat, NEW o \in Nat,
         Good(s, m, i, o), s.ready, ~ s.busy, s.dir = "sending"
  PROVE  Good(serviceSender(s), m, i, o)
<1>. DEFINE t == start(swap(s, 0), s.app, available(s))
<1>1. CASE available(s) = 0 \/ available(s) % 4 # 0
  BY <1>1 DEF serviceSender, Word
<1>2. CASE ~ (available(s) = 0 \/ available(s) % 4 # 0)
  <2>1. serviceSender(s) = t
    BY <1>2 DEF serviceSender, Word
  <2>2. /\ t \in Instances
        /\ t.ready /\ t.busy /\ t.dir = "sending" /\ ~ t.received
        /\ t.app = 1 - s.app /\ t.slot = s.app
        /\ t.used = 0 /\ t.consumed = 0 /\ t.pos = 0 /\ t.len = s.used
        /\ s.used % 4 = 0
    <3>1. s \in Instances /\ s.consumed = 0 /\ s.used \in 0 .. Capacity
      BY DEF Good, Shape, Instances
    <3>2. s.used % 4 = 0
      BY <1>2, <3>1, CapacityFacts DEF available
    <3>3. /\ t \in Instances
          /\ t.busy /\ t.slot = s.app /\ t.len = s.used /\ t.pos = 0
          /\ t.ready = s.ready /\ t.dir = s.dir /\ t.received = s.received
          /\ t.app = 1 - s.app /\ t.used = 0 /\ t.consumed = 0
      BY <3>1, SenderFields
    <3>4. ~ s.received
      BY DEF Good, Shape
    <3>. QED
      BY <3>2, <3>3, <3>4
  <2>. HIDE DEF t
  <2>3. Shape(t)
    BY <2>2, CapacityFacts DEF Good, Shape, Instances, Slots
  <2>4. Tx(t, m, i, o)
    BY <2>2, CapacityFacts DEF Good, Shape, Tx, Instances, Slots
  <2>5. Rx(t, m, i, o) /\ Rest(t, i, o)
    BY <2>2 DEF Rx, Rest
  <2>. QED
    BY <2>1, <2>3, <2>4, <2>5 DEF Good
<1>. QED
  BY <1>1, <1>2

\* service() of an idle receiver keeps the stream in order: a received slot is
\* handed to the application only when it has read the other one empty.
LEMMA ReceiverKeeps ==
  ASSUME NEW s, NEW m, NEW i \in Nat, NEW o \in Nat,
         Good(s, m, i, o), s.ready, ~ s.busy, s.dir = "receiving"
  PROVE  Good(serviceReceiver(s), m, i, o)
<1>. DEFINE t == start([swap(s, Capacity) EXCEPT !.received = FALSE], s.app, Capacity)
            u == start(s, 1 - s.app, Capacity)
<1>1. CASE s.received /\ available(s) # 0
  BY <1>1 DEF serviceReceiver
<1>2. CASE s.received /\ available(s) = 0
  <2>1. serviceReceiver(s) = t
    BY <1>2 DEF serviceReceiver
  <2>2. /\ t \in Instances
        /\ t.ready /\ t.busy /\ t.dir = "receiving" /\ ~ t.received
        /\ t.app = 1 - s.app /\ t.slot = s.app
        /\ t.used = Capacity /\ t.consumed = 0 /\ t.pos = 0 /\ t.len = Capacity
    BY ReceiverFields DEF Good, Shape
  <2>. HIDE DEF t
  <2>3. Shape(t)
    BY <2>2, CapacityFacts DEF Good, Shape, Instances, Slots
  <2>4. Rx(t, m, i, o)
    BY <1>2, <2>2, CapacityFacts DEF Good, Shape, Rx, Instances, Slots, available
  <2>5. Tx(t, m, i, o) /\ Rest(t, i, o)
    BY <2>2 DEF Tx, Rest
  <2>. QED
    BY <2>1, <2>3, <2>4, <2>5 DEF Good
<1>3. CASE ~ s.received
  <2>1. serviceReceiver(s) = u
    BY <1>3 DEF serviceReceiver
  <2>2. /\ u \in Instances
        /\ u.ready /\ u.busy /\ u.dir = "receiving" /\ ~ u.received
        /\ u.app = s.app /\ u.slot = 1 - s.app
        /\ u.used = s.used /\ u.consumed = s.consumed /\ u.pos = 0 /\ u.len = Capacity
    BY <1>3, FirstFields DEF Good, Shape
  <2>. HIDE DEF u
  <2>3. Shape(u)
    BY <2>2, CapacityFacts DEF Good, Shape, Instances, Slots
  <2>4. Rx(u, m, i, o)
    BY <1>3, <2>2, CapacityFacts DEF Good, Shape, Rx, Instances, Slots, available
  <2>5. Tx(u, m, i, o) /\ Rest(u, i, o)
    BY <2>2 DEF Tx, Rest
  <2>. QED
    BY <2>1, <2>3, <2>4, <2>5 DEF Good
<1>. QED
  BY <1>1, <1>2, <1>3

\* service() keeps the stream in order and leaves ready_ and direction_ alone.
LEMMA ServiceKeeps ==
  ASSUME NEW s, NEW m, NEW i \in Nat, NEW o \in Nat, Good(s, m, i, o)
  PROVE  /\ Good(service(s), m, i, o)
         /\ service(s).ready = s.ready
         /\ service(s).dir = s.dir
<1>1. CASE ~ s.ready \/ s.busy \/ s.dir = "idle"
  BY <1>1 DEF service
<1>2. CASE s.ready /\ ~ s.busy /\ s.dir = "sending"
  <2>1. service(s) = serviceSender(s)
    BY <1>2 DEF service
  <2>2. serviceSender(s).ready = s.ready /\ serviceSender(s).dir = s.dir
    BY DEF serviceSender, start, swap, Good, Shape, Instances
  <2>. QED
    BY <1>2, <2>1, <2>2, SenderKeeps
<1>3. CASE s.ready /\ ~ s.busy /\ s.dir = "receiving"
  <2>1. service(s) = serviceReceiver(s)
    BY <1>3 DEF service
  <2>2. serviceReceiver(s).ready = s.ready /\ serviceReceiver(s).dir = s.dir
    BY DEF serviceReceiver, start, swap, Good, Shape, Instances
  <2>. QED
    BY <1>3, <2>1, <2>2, ReceiverKeeps
<1>4. s.dir \in {"idle", "sending", "receiving"} /\ s.ready \in BOOLEAN /\ s.busy \in BOOLEAN
  BY DEF Good, Shape, Instances
<1>. QED
  BY <1>1, <1>2, <1>3, <1>4
\* Nothing leaves that has not entered.
LEMMA OutWithinIn ==
  ASSUME NEW s, NEW m, NEW i \in Nat, NEW o \in Nat, Good(s, m, i, o), s.dir # "idle"
  PROVE  o <= i
BY CapacityFacts DEF Good, Shape, Tx, Rx, Instances, available

-------------------------------------------------------------------------------
(* One lemma per action.                                                   *)

LEMMA InitInv == Init => IInv
<1>. SUFFICES ASSUME Init PROVE IInv
  OBVIOUS
<1>1. b \in Instances
  BY CapacityFacts DEF Init, Closed, Instances, Slots
<1>2. mem \in Memories
  BY DEF Init, Fresh, Memories
<1>3. TypeOK
  <2>1. in \in 0 .. MaxBytes /\ out \in 0 .. MaxBytes
    BY I2SAssumption DEF Init
  <2>2. pc = "free" /\ irq = "none" /\ writeError = FALSE
    BY DEF Init
  <2>. QED
    BY <1>1, <1>2, <2>1, <2>2 DEF TypeOK, Memories
<1>4. Good(b, mem, in, out)
  BY <1>1, CapacityFacts DEF Init, Closed, Good, Shape, Tx, Rx, Rest
<1>. QED
  BY <1>3, <1>4 DEF Init, Closed, IInv

\* begin() starts an empty stream.
LEMMA BeginInv == ASSUME IInv, begin PROVE IInv'
<1>1. /\ b' \in Instances
      /\ b'.ready /\ b'.dir = "idle" /\ ~ b'.busy /\ ~ b'.received
      /\ b'.used = 0 /\ b'.consumed = 0
  <2>1. Closed \in Instances
    BY CapacityFacts DEF Closed, Instances, Slots
  <2>2. /\ Closed.dir = "idle" /\ ~ Closed.busy /\ ~ Closed.received
        /\ Closed.used = 0 /\ Closed.consumed = 0
    BY DEF Closed
  <2>. QED
    BY <2>1, <2>2 DEF begin, Instances
<1>2. Good(b', mem', in', out')
  BY <1>1, CapacityFacts DEF begin, Good, Shape, Tx, Rx, Rest
<1>3. TypeOK'
  BY <1>1, I2SAssumption DEF begin, TypeOK, IInv
<1>. QED
  BY <1>1, <1>2, <1>3 DEF begin, IInv, Runs

\* available(), peek() and availableForWrite() may fix the direction.
LEMMA DirectionKeeps ==
  ASSUME Good(b, mem, in, out), in \in Nat, out \in Nat,
         NEW d \in {"sending", "receiving"}, selects(b, d)
  PROVE  LET t == [b EXCEPT !.dir = d]
         IN  /\ Good(t, mem, in, out)
             /\ t.ready /\ t.dir = d
<1>. DEFINE t == [b EXCEPT !.dir = d]
<1>1. b \in Instances
  BY DEF Good, Shape
<1>2. /\ t \in Instances
      /\ t.dir = d /\ t.used = b.used
      /\ t.ready = b.ready /\ t.busy = b.busy /\ t.received = b.received
      /\ t.app = b.app /\ t.consumed = b.consumed
      /\ t.slot = b.slot /\ t.len = b.len /\ t.pos = b.pos
  BY <1>1 DEF Instances
<1>. HIDE DEF t
<1>3. b.ready /\ b.dir \in {"idle", d}
  BY DEF selects
<1>4. Shape(t)
  BY <1>2, <1>3 DEF Good, Shape
<1>5. Tx(t, mem, in, out)
  BY <1>1, <1>2, <1>3 DEF Good, Shape, Tx, Rest, Instances
<1>6. Rx(t, mem, in, out)
  BY <1>1, <1>2, <1>3, CapacityFacts DEF Good, Shape, Rx, Rest, Instances, available
<1>7. Rest(t, in, out)
  BY <1>2 DEF Rest
<1>. QED
  BY <1>2, <1>3, <1>4, <1>5, <1>6, <1>7 DEF Good, t
\* The type invariant after a step that leaves a running stream.
LEMMA TypeFromGood ==
  ASSUME TypeOK, Good(b', mem', in', out'), b'.dir # "idle",
         mem' \in Memories, in' \in 0 .. MaxBytes, out' \in Nat,
         pc' \in {"free", "flush", "endflush", "close"}, irq' \in {"none", "callback"},
         writeError' \in BOOLEAN
  PROVE  TypeOK'
<1>1. out' <= in' /\ in' \in Nat /\ MaxBytes \in Nat
  BY OutWithinIn, I2SAssumption
<1>2. out' \in 0 .. MaxBytes
  BY <1>1
<1>3. b' \in Instances
  BY DEF Good, Shape
<1>. QED
  BY <1>2, <1>3 DEF TypeOK, Memories

LEMMA PollInv == ASSUME IInv, NEW x \in {"task", "irq"}, poll(x) PROVE IInv'
<1>. DEFINE t == [b EXCEPT !.dir = "receiving"]
<1>1. in \in Nat /\ out \in Nat /\ selects(b, "receiving")
  BY I2SAssumption DEF IInv, TypeOK, poll
<1>2. Good(t, mem, in, out) /\ t.ready /\ t.dir = "receiving"
  BY <1>1, DirectionKeeps DEF IInv
<1>3. b' = service(t) /\ UNCHANGED <<mem, pc, irq, in, out, writeError>>
  BY DEF poll
<1>. HIDE DEF t
<1>4. Good(b', mem', in', out') /\ b'.ready /\ b'.dir = "receiving"
  BY <1>1, <1>2, <1>3, ServiceKeeps
<1>5. TypeOK'
  BY <1>1, <1>3, <1>4, TypeFromGood DEF IInv, TypeOK, Memories
<1>6. pc # "endflush" /\ pc # "flush"
  <2>1. CASE x = "task"
    BY <2>1 DEF poll, Runs
  <2>2. CASE x = "irq"
    BY <2>2, <1>1 DEF poll, Runs, IInv, selects
  <2>. QED
    BY <2>1, <2>2
<1>. QED
  BY <1>3, <1>4, <1>5, <1>6 DEF IInv

LEMMA PollWriteInv == ASSUME IInv, NEW x \in {"task", "irq"}, pollWrite(x) PROVE IInv'
<1>1. in \in Nat /\ out \in Nat /\ selects(b, "sending")
  BY I2SAssumption DEF IInv, TypeOK, pollWrite
<1>2. /\ b' = [b EXCEPT !.dir = "sending"]
      /\ UNCHANGED <<mem, pc, irq, in, out, writeError>>
  BY DEF pollWrite
<1>3. Good(b', mem', in', out') /\ b'.ready /\ b'.dir = "sending"
  BY <1>1, <1>2, DirectionKeeps DEF IInv
<1>4. TypeOK'
  BY <1>1, <1>2, <1>3, TypeFromGood DEF IInv, TypeOK, Memories
<1>. QED
  BY <1>2, <1>3, <1>4 DEF IInv

\* Bytes appended behind what was written keep the order.
LEMMA AppendKeeps ==
  ASSUME Good(b, mem, in, out), mem \in Memories, in \in Nat, out \in Nat,
         selects(b, "sending"), NEW c \in Nat, b.used + c <= Capacity,
         NEW t \in Instances,
         t.dir = "sending", t.used = b.used + c,
         t.ready = b.ready, t.busy = b.busy, t.received = b.received,
         t.app = b.app, t.consumed = b.consumed,
         t.slot = b.slot, t.len = b.len, t.pos = b.pos
  PROVE  LET m == Filled(b.app, b.used, c, in)
         IN  Good(t, m, in + c, out) /\ m \in Memories /\ t.ready
<1>. DEFINE m == Filled(b.app, b.used, c, in)
<1>1. /\ b \in Instances /\ b.app \in Slots /\ b.slot \in Slots /\ b.used \in Nat
      /\ b.len \in Nat /\ b.pos \in Nat /\ b.consumed \in Nat
      /\ b.used + c \in 0 .. Capacity
  BY CapacityFacts DEF Good, Shape, Instances
<1>3. /\ m \in Memories
      /\ \A k \in 0 .. Capacity - 1 :
           m[b.app][k] = IF b.used <= k /\ k < b.used + c
                         THEN in + (k - b.used) ELSE mem[b.app][k]
      /\ \A other \in Slots \ {b.app} : m[other] = mem[other]
  <2>1. PICK a \in Slots : a = b.app
    BY <1>1
  <2>2. PICK u \in Nat : u = b.used
    BY <1>1
  <2>3. /\ Filled(a, u, c, in) \in Memories
        /\ \A k \in 0 .. Capacity - 1 :
             Filled(a, u, c, in)[a][k]
               = IF u <= k /\ k < u + c THEN in + (k - u) ELSE mem[a][k]
        /\ \A other \in Slots \ {a} : Filled(a, u, c, in)[other] = mem[other]
    BY FilledFacts
  <2>. QED
    BY <2>1, <2>2, <2>3
<1>. HIDE DEF m
<1>4. b.ready /\ b.dir \in {"idle", "sending"}
  BY DEF selects
<1>5. Shape(t)
  BY <1>1, <1>4 DEF Good, Shape
<1>6. Tx(t, m, in + c, out)
  <2>1. /\ out % 4 = 0
        /\ in = out + (IF b.busy THEN b.len - b.pos ELSE 0) + b.used
        /\ b.busy => b.slot # b.app /\ b.pos <= b.len
        /\ \A k \in 0 .. Capacity - 1 :
             /\ b.busy /\ b.pos <= k /\ k < b.len => mem[b.slot][k] = out + (k - b.pos)
             /\ k < b.used => mem[b.app][k] = out + (IF b.busy THEN b.len - b.pos ELSE 0) + k
    BY <1>1, <1>4 DEF Good, Shape, Tx, Rest
  <2>2. \A k \in 0 .. Capacity - 1 :
          b.busy /\ b.pos <= k /\ k < b.len => m[b.slot][k] = out + (k - b.pos)
    BY <1>1, <1>3, <2>1
  <2>3. \A k \in 0 .. Capacity - 1 :
          k < b.used + c => m[b.app][k] = out + (IF b.busy THEN b.len - b.pos ELSE 0) + k
    BY <1>1, <1>3, <2>1, CapacityFacts
  <2>. QED
    BY <1>1, <2>1, <2>2, <2>3 DEF Tx
<1>7. Rx(t, m, in + c, out) /\ Rest(t, in + c, out)
  BY DEF Rx, Rest
<1>. QED
  BY <1>3, <1>4, <1>5, <1>6, <1>7 DEF Good, m

LEMMA WriteInv ==
  ASSUME IInv, NEW x \in {"task", "irq"}, NEW n \in Sizes, write(x, n) PROVE IInv'
<1>. DEFINE c == Least(n, availableForWrite(b))
            t == [b EXCEPT !.dir = "sending", !.used = b.used + c]
<1>1. /\ in \in Nat /\ out \in Nat /\ selects(b, "sending") /\ mem \in Memories
      /\ b.used \in 0 .. Capacity
  BY I2SAssumption DEF IInv, TypeOK, write, Memories, Instances
<1>2. c \in Nat /\ b.used + c <= Capacity
  BY <1>1, I2SAssumption, CapacityFacts DEF Least, availableForWrite
<1>3. /\ mem' = Filled(b.app, b.used, c, in) /\ in' = in + c /\ in' <= MaxBytes
      /\ b' = service(t) /\ UNCHANGED <<pc, irq, out, writeError>>
  BY DEF write
<1>. HIDE DEF c
<1>8. /\ t \in Instances
      /\ t.dir = "sending" /\ t.used = b.used + c
      /\ t.ready = b.ready /\ t.busy = b.busy /\ t.received = b.received
      /\ t.app = b.app /\ t.consumed = b.consumed
      /\ t.slot = b.slot /\ t.len = b.len /\ t.pos = b.pos
  <2>1. b \in Instances /\ b.used + c \in 0 .. Capacity
    BY <1>1, <1>2, CapacityFacts DEF IInv, TypeOK
  <2>. QED
    BY <2>1 DEF Instances
<1>. HIDE DEF t
<1>4. Good(t, mem', in', out') /\ mem' \in Memories /\ t.ready /\ t.dir = "sending"
  BY <1>1, <1>2, <1>3, <1>8, AppendKeeps DEF IInv
<1>5. in' \in Nat /\ out' \in Nat
  BY <1>1, <1>2, <1>3
<1>6. Good(b', mem', in', out') /\ b'.ready /\ b'.dir = "sending"
  BY <1>3, <1>4, <1>5, ServiceKeeps
<1>7. TypeOK'
  <2>1. in' \in 0 .. MaxBytes
    BY <1>3, <1>5, I2SAssumption
  <2>. QED
    BY <1>3, <1>4, <1>5, <1>6, <2>1, TypeFromGood DEF IInv, TypeOK
<1>. QED
  BY <1>3, <1>6, <1>7 DEF IInv
\* Reading from the front of the application's slot keeps the order.
LEMMA ConsumeKeeps ==
  ASSUME NEW s, NEW m, NEW i \in Nat, NEW o \in Nat, Good(s, m, i, o),
         s.dir = "receiving", s.ready, NEW c \in 0 .. available(s)
  PROVE  LET t == [s EXCEPT !.consumed = s.consumed + c]
         IN  Good(t, m, i, o + c) /\ t.ready /\ t.dir = "receiving"
<1>. DEFINE t == [s EXCEPT !.consumed = s.consumed + c]
<1>1. /\ s \in Instances /\ s.consumed \in Nat /\ s.used \in 0 .. Capacity
      /\ s.consumed + c \in 0 .. Capacity /\ s.consumed + c <= s.used /\ c \in Nat
  BY CapacityFacts DEF Good, Shape, Instances, available
<1>2. /\ t \in Instances
      /\ t.dir = s.dir /\ t.used = s.used /\ t.consumed = s.consumed + c
      /\ t.ready = s.ready /\ t.busy = s.busy /\ t.received = s.received
      /\ t.app = s.app /\ t.slot = s.slot /\ t.len = s.len /\ t.pos = s.pos
  BY <1>1 DEF Instances
<1>. HIDE DEF t
<1>3. Shape(t)
  BY <1>1, <1>2 DEF Good, Shape
<1>4. Rx(t, m, i, o + c)
  <2>1. available(t) = available(s) - c /\ available(s) \in Nat
    BY <1>1, <1>2, CapacityFacts DEF available
  <2>. QED
    BY <1>1, <1>2, <2>1, CapacityFacts DEF Good, Shape, Rx, Instances
<1>5. Tx(t, m, i, o + c) /\ Rest(t, i, o + c)
  BY <1>2 DEF Tx, Rest
<1>. QED
  BY <1>2, <1>3, <1>4, <1>5 DEF Good, t

LEMMA ReadInv ==
  ASSUME IInv, NEW x \in {"task", "irq"}, NEW n \in Sizes, read(x, n) PROVE IInv'
<1>. DEFINE t == [b EXCEPT !.dir = "receiving"]
            s == service(t)
            c == Least(n, available(s))
            u == [s EXCEPT !.consumed = s.consumed + c]
<1>1. in \in Nat /\ out \in Nat /\ selects(b, "receiving")
  BY I2SAssumption DEF IInv, TypeOK, read
<1>2. Good(t, mem, in, out) /\ t.ready /\ t.dir = "receiving"
  BY <1>1, DirectionKeeps DEF IInv
<1>3. /\ b' = service(u) /\ out' = out + c
      /\ UNCHANGED <<mem, pc, irq, in, writeError>>
  BY DEF read
<1>. HIDE DEF t
<1>4. Good(s, mem, in, out) /\ s.ready /\ s.dir = "receiving"
  BY <1>1, <1>2, ServiceKeeps
<1>. HIDE DEF s
<1>5. available(s) \in Nat
  BY <1>4, CapacityFacts DEF Good, Shape, Instances, available
<1>6. c \in 0 .. available(s) /\ c \in Nat
  BY <1>5, I2SAssumption DEF Least
<1>. HIDE DEF c
<1>7. Good(u, mem, in, out + c) /\ u.ready /\ u.dir = "receiving"
  BY <1>1, <1>4, <1>6, ConsumeKeeps
<1>. HIDE DEF u
<1>8. out' \in Nat /\ in' \in Nat
  BY <1>1, <1>3, <1>6
<1>9. Good(b', mem', in', out') /\ b'.ready /\ b'.dir = "receiving"
  <2>1. Good(u, mem', in', out')
    BY <1>3, <1>7
  <2>. QED
    BY <1>3, <1>7, <1>8, <2>1, ServiceKeeps
<1>10. TypeOK'
  BY <1>3, <1>8, <1>9, TypeFromGood DEF IInv, TypeOK, Memories
<1>11. pc # "endflush" /\ pc # "flush"
  <2>1. CASE x = "task"
    BY <2>1 DEF read, Runs
  <2>2. CASE x = "irq"
    BY <2>2, <1>1 DEF read, Runs, IInv, selects
  <2>. QED
    BY <2>1, <2>2
<1>. QED
  BY <1>3, <1>9, <1>10, <1>11 DEF IInv

LEMMA FlushReceiverInv == ASSUME IInv, flushReceiver PROVE IInv'
<1>. DEFINE t == [b EXCEPT !.used = 0, !.consumed = 0]
<1>1. /\ in \in Nat /\ out \in Nat /\ b \in Instances /\ 0 \in 0 .. Capacity
      /\ b.ready /\ b.dir = "receiving" /\ pc = "free"
      /\ Good(b, mem, in, out)
  BY I2SAssumption, CapacityFacts DEF IInv, TypeOK, flushReceiver, Runs
<1>2. /\ b' = service(t) /\ out' = out + available(b)
      /\ UNCHANGED <<mem, pc, irq, in, writeError>>
  BY DEF flushReceiver
<1>3. /\ t \in Instances
      /\ t.dir = b.dir /\ t.used = 0 /\ t.consumed = 0
      /\ t.ready = b.ready /\ t.busy = b.busy /\ t.received = b.received
      /\ t.app = b.app /\ t.slot = b.slot /\ t.len = b.len /\ t.pos = b.pos
  BY <1>1 DEF Instances
<1>. HIDE DEF t
<1>4. available(b) \in Nat /\ out' \in Nat
  BY <1>1, <1>2, CapacityFacts DEF Good, Shape, Instances, available
<1>5. Good(t, mem, in, out')
  <2>1. Shape(t)
    BY <1>1, <1>3 DEF Good, Shape
  <2>2. available(t) = 0
    BY <1>3 DEF available
  <2>3. Rx(t, mem, in, out')
    BY <1>1, <1>2, <1>3, <1>4, <2>2, CapacityFacts DEF Good, Shape, Rx, Instances
  <2>4. Tx(t, mem, in, out') /\ Rest(t, in, out')
    BY <1>1, <1>3 DEF Tx, Rest
  <2>. QED
    BY <2>1, <2>3, <2>4 DEF Good
<1>6. Good(b', mem', in', out') /\ b'.ready /\ b'.dir = "receiving"
  <2>1. mem' = mem /\ in' = in /\ Good(t, mem', in', out') /\ in' \in Nat
    BY <1>1, <1>2, <1>5
  <2>. QED
    BY <1>1, <1>2, <1>3, <1>4, <2>1, ServiceKeeps
<1>7. TypeOK'
  BY <1>2, <1>4, <1>6, TypeFromGood DEF IInv, TypeOK, Memories
<1>. QED
  BY <1>1, <1>2, <1>6, <1>7 DEF IInv
\* The steps of flush() and end() that leave the instance alone.
LEMMA FlushStartInv == ASSUME IInv, flush \/ end \/ flushTimeout PROVE IInv'
<1>1. UNCHANGED <<b, mem, irq, in, out>>
  BY DEF flush, end, flushTimeout
<1>2. b.ready /\ pc' \in {"free", "flush", "endflush", "close"} /\ writeError' \in BOOLEAN
  BY DEF flush, end, flushTimeout, AfterFlush, IInv, TypeOK
<1>3. /\ pc' = "endflush" => b.dir = "sending"
      /\ pc' = "flush" => b.dir # "receiving"
  BY DEF flush, end, flushTimeout, AfterFlush
<1>4. TypeOK'
  BY <1>1, <1>2 DEF TypeOK, IInv
<1>5. Good(b', mem', in', out')
  BY <1>1 DEF IInv
<1>. QED
  BY <1>1, <1>2, <1>3, <1>4, <1>5 DEF IInv

\* The zeros that fill up the last word fit into the slot, and the stream's
\* bound, whatever sizes were written.
LEMMA PadFits ==
  ASSUME Good(b, mem, in, out), in \in 0 .. MaxBytes, out \in Nat, b.dir = "sending"
  PROVE  LET pad == (Word - (available(b) % Word)) % Word
         IN  pad \in Nat /\ b.used + pad <= Capacity /\ in + pad <= MaxBytes
<1>. DEFINE pad == (Word - (available(b) % Word)) % Word
<1>1. /\ b.used \in 0 .. Capacity /\ b.used \in Nat /\ b.consumed = 0 /\ MaxBytes \in Nat
      /\ MaxBytes % 4 = 0 /\ Capacity \in Nat /\ Capacity % 4 = 0 /\ in \in Nat
  BY I2SAssumption, CapacityFacts DEF Good, Shape, Instances
<1>2. pad = (4 - (b.used % 4)) % 4
  BY <1>1 DEF available, Word
<1>3. in % 4 = b.used % 4
  <2>1. /\ out % 4 = 0
        /\ in = out + (IF b.busy THEN b.len - b.pos ELSE 0) + b.used
        /\ b.busy => b.pos <= b.len /\ b.len % 4 = 0 /\ b.pos % 4 = 0
        /\ b.len \in Nat /\ b.pos \in Nat
    BY CapacityFacts DEF Good, Shape, Tx, Instances
  <2>2. PICK rest \in Nat : rest % 4 = 0 /\ in = out + rest + b.used
    <3>1. CASE b.busy
      <4>1. b.len - b.pos \in Nat /\ (b.len - b.pos) % 4 = 0
        BY <2>1, <3>1
      <4>2. in = out + (b.len - b.pos) + b.used
        BY <2>1, <3>1
      <4>. QED
        BY <4>1, <4>2
    <3>2. CASE ~ b.busy
      <4>1. 0 \in Nat /\ 0 % 4 = 0
        OBVIOUS
      <4>2. in = out + 0 + b.used
        BY <2>1, <3>2
      <4>. QED
        BY <4>1, <4>2
    <3>. QED
      BY <3>1, <3>2
  <2>. QED
    BY <1>1, <2>1, <2>2
<1>. HIDE DEF pad
<1>4. pad \in Nat /\ (b.used + pad) % 4 = 0 /\ pad < 4
  BY <1>1, <1>2
<1>5. b.used + pad <= Capacity
  BY <1>1, <1>4
<1>6. in + pad <= MaxBytes
  <2>1. pad = (4 - (in % 4)) % 4
    BY <1>2, <1>3
  <2>2. in <= MaxBytes
    OBVIOUS
  <2>. QED
    BY <1>1, <2>1, <2>2
<1>. QED
  BY <1>4, <1>5, <1>6 DEF pad

LEMMA FlushRoundInv ==
  ASSUME IInv, flushRound PROVE IInv' /\ b'.dir # "receiving" /\ b'.ready
<1>. DEFINE pad == (Word - (available(b) % Word)) % Word
            t == [b EXCEPT !.used = b.used + pad]
            s == service(t)
<1>1. /\ mem' = Filled(b.app, b.used, pad, in) /\ in' = in + pad /\ b' = s
      /\ pc' = (IF ~ s.busy /\ available(s) = 0 THEN AfterFlush ELSE pc)
      /\ UNCHANGED <<irq, out, writeError>>
  BY DEF flushRound
<1>2. /\ in \in 0 .. MaxBytes /\ in \in Nat /\ out \in Nat /\ mem \in Memories
      /\ b \in Instances /\ b.ready /\ b.dir # "receiving" /\ b.used \in Nat
      /\ b.app \in Slots /\ Good(b, mem, in, out)
  BY I2SAssumption, CapacityFacts DEF IInv, TypeOK, Memories, flushRound, Instances
<1>. HIDE DEF s
<1>3. /\ pc' \in {"free", "flush", "endflush", "close"}
      /\ pc' = "endflush" => b.dir = "sending"
  BY <1>1 DEF flushRound, AfterFlush, IInv
<1>4. CASE b.dir = "sending"
  <2>1. pad \in Nat /\ b.used + pad <= Capacity /\ in + pad <= MaxBytes
    BY <1>2, <1>4, PadFits
  <2>. HIDE DEF pad
  <2>2. b.used + pad \in 0 .. Capacity
    BY <1>2, <2>1, CapacityFacts
  <2>3. /\ t \in Instances
        /\ t.dir = b.dir /\ t.used = b.used + pad
        /\ t.ready = b.ready /\ t.busy = b.busy /\ t.received = b.received
        /\ t.app = b.app /\ t.consumed = b.consumed
        /\ t.slot = b.slot /\ t.len = b.len /\ t.pos = b.pos
    BY <1>2, <2>2 DEF Instances
  <2>. HIDE DEF t
  <2>4. selects(b, "sending")
    BY <1>2, <1>4 DEF selects
  <2>5. Good(t, mem', in', out') /\ mem' \in Memories
    BY <1>1, <1>2, <1>4, <2>1, <2>3, <2>4, AppendKeeps
  <2>6. in' \in Nat /\ out' \in Nat /\ in' \in 0 .. MaxBytes
    BY <1>1, <1>2, <2>1
  <2>7. Good(b', mem', in', out') /\ b'.ready /\ b'.dir = "sending"
    BY <1>1, <1>2, <1>4, <2>3, <2>5, <2>6, ServiceKeeps DEF s
  <2>8. TypeOK'
    BY <1>1, <1>3, <2>5, <2>6, <2>7, TypeFromGood DEF IInv, TypeOK
  <2>. QED
    BY <1>1, <2>7, <2>8 DEF IInv
<1>5. CASE b.dir = "idle"
  <2>1. b.used = 0 /\ b.consumed = 0 /\ in = 0 /\ out = 0 /\ ~ b.busy /\ ~ b.received
    BY <1>2, <1>5 DEF Good, Shape, Rest
  <2>2. pad = 0
    BY <2>1 DEF available, Word
  <2>3. /\ t \in Instances
        /\ t.dir = b.dir /\ t.used = 0 /\ t.ready /\ ~ t.busy
        /\ ~ t.received /\ t.consumed = 0
    BY <1>2, <2>1, <2>2 DEF Instances
  <2>4. mem' \in Memories
    <3>1. PICK u \in Nat : u = b.used
      BY <1>2
    <3>2. PICK p \in Nat : p = pad
      BY <2>2
    <3>3. PICK a \in Slots : a = b.app
      BY <1>2
    <3>. HIDE DEF pad
    <3>4. Filled(a, u, p, in) \in Memories
      BY <1>2, FilledFacts
    <3>. QED
      BY <1>1, <3>1, <3>2, <3>3, <3>4
  <2>5. in' = 0 /\ out' = 0
    BY <1>1, <2>1, <2>2
  <2>. HIDE DEF t, pad
  <2>6. b' = t
    BY <1>1, <1>5, <2>3 DEF s, service
  <2>7. Good(b', mem', in', out')
    BY <1>5, <2>3, <2>5, <2>6 DEF Good, Shape, Tx, Rx, Rest
  <2>8. TypeOK'
    BY <1>1, <1>3, <2>3, <2>4, <2>5, <2>6, I2SAssumption DEF TypeOK, IInv, Memories
  <2>. QED
    BY <1>1, <1>3, <1>5, <2>3, <2>6, <2>7, <2>8 DEF IInv
<1>. QED
  BY <1>2, <1>4, <1>5 DEF Instances
\* The guarded section of end().
LEMMA CloseInv == ASSUME IInv, close PROVE IInv'
<1>1. /\ b' = Closed /\ mem' = Fresh /\ pc' = "free" /\ irq = "none"
      /\ UNCHANGED <<irq, in, out, writeError>>
  BY DEF close
<1>2. Closed \in Instances
  BY CapacityFacts DEF Closed, Instances, Slots
<1>3. /\ ~ Closed.ready /\ Closed.dir = "idle" /\ ~ Closed.busy /\ ~ Closed.received
      /\ Closed.used = 0 /\ Closed.consumed = 0
  BY DEF Closed
<1>4. Fresh \in Memories
  BY DEF Fresh, Memories
<1>5. Good(b', mem', in', out')
  BY <1>1, <1>2, <1>3, CapacityFacts DEF Good, Shape, Tx, Rx, Rest
<1>6. TypeOK'
  BY <1>1, <1>2, <1>4 DEF TypeOK, IInv, Memories
<1>. QED
  BY <1>1, <1>3, <1>5, <1>6 DEF IInv

\* A word leaves the transfer's slot, or arrives in it.
LEMMA TransferWordInv == ASSUME IInv, transferWord PROVE IInv'
<1>1. /\ in \in Nat /\ in \in 0 .. MaxBytes /\ out \in Nat /\ mem \in Memories
      /\ b \in Instances /\ b.busy /\ b.pos < b.len /\ Good(b, mem, in, out)
  BY I2SAssumption DEF IInv, TypeOK, Memories, transferWord
<1>2. /\ b.pos \in Nat /\ b.len \in 0 .. Capacity /\ b.len % 4 = 0 /\ b.pos % 4 = 0
      /\ b.app \in Slots /\ b.slot \in Slots /\ b.slot # b.app /\ ~ b.received
      /\ b.used \in 0 .. Capacity /\ b.consumed \in 0 .. Capacity /\ b.consumed <= b.used
      /\ b.dir # "idle"
  BY <1>1, CapacityFacts DEF Good, Shape, Instances
<1>3. b.pos + 4 <= b.len /\ b.pos + 4 \in 0 .. Capacity /\ (b.pos + 4) % 4 = 0
  BY <1>1, <1>2, CapacityFacts
<1>4. /\ b' \in Instances
      /\ b'.pos = b.pos + 4
      /\ b'.dir = b.dir /\ b'.used = b.used /\ b'.consumed = b.consumed
      /\ b'.ready = b.ready /\ b'.busy = b.busy /\ b'.received = b.received
      /\ b'.app = b.app /\ b'.slot = b.slot /\ b'.len = b.len
  BY <1>1, <1>3 DEF Instances, transferWord, Word
<1>5. Shape(b')
  BY <1>1, <1>2, <1>3, <1>4 DEF Good, Shape
<1>6. UNCHANGED <<pc, irq, writeError>>
  BY DEF transferWord
<1>7. CASE b.dir = "sending"
  <2>1. out' = out + 4 /\ mem' = mem /\ in' = in
    BY <1>7 DEF transferWord, Word
  <2>2. Tx(b', mem', in', out')
    BY <1>1, <1>2, <1>3, <1>4, <1>7, <2>1, CapacityFacts DEF Good, Tx
  <2>3. Rx(b', mem', in', out') /\ Rest(b', in', out')
    BY <1>4, <1>7 DEF Rx, Rest
  <2>4. Good(b', mem', in', out')
    BY <1>5, <2>2, <2>3 DEF Good
  <2>5. TypeOK'
    BY <1>1, <1>4, <1>6, <1>7, <2>1, <2>4, TypeFromGood DEF IInv, TypeOK
  <2>. QED
    BY <1>4, <1>6, <1>7, <2>4, <2>5 DEF IInv
<1>8. CASE b.dir = "receiving"
  <2>1. /\ out' = out /\ mem' = Filled(b.slot, b.pos, 4, in) /\ in' = in + 4
        /\ in' \in 0 .. MaxBytes
    BY <1>1, <1>8, I2SAssumption DEF transferWord, Word
  <2>2. /\ mem' \in Memories
        /\ \A k \in 0 .. Capacity - 1 :
             mem'[b.slot][k] = IF b.pos <= k /\ k < b.pos + 4
                               THEN in + (k - b.pos) ELSE mem[b.slot][k]
        /\ mem'[b.app] = mem[b.app]
    <3>1. PICK a \in Slots : a = b.slot
      BY <1>2
    <3>2. PICK u \in Nat : u = b.pos
      BY <1>2
    <3>3. PICK c \in Nat : c = 4
      OBVIOUS
    <3>4. /\ Filled(a, u, c, in) \in Memories
          /\ \A k \in 0 .. Capacity - 1 :
               Filled(a, u, c, in)[a][k]
                 = IF u <= k /\ k < u + c THEN in + (k - u) ELSE mem[a][k]
          /\ \A other \in Slots \ {a} : Filled(a, u, c, in)[other] = mem[other]
      <4>1. mem \in Memories /\ in \in Nat
        BY <1>1
      <4>. QED
        BY <4>1, FilledFacts
    <3>. QED
      BY <1>2, <2>1, <3>1, <3>2, <3>3, <3>4
  <2>3. Rx(b', mem', in', out')
    <3>1. /\ in = out + (b.used - b.consumed) + b.pos
          /\ \A k \in 0 .. Capacity - 1 :
               /\ b.consumed <= k /\ k < b.used => mem[b.app][k] = out + (k - b.consumed)
               /\ k < b.pos => mem[b.slot][k] = out + (b.used - b.consumed) + k
      BY <1>1, <1>8 DEF Good, Rx, available
    <3>2. \A k \in 0 .. Capacity - 1 :
            k < b.pos + 4 => mem'[b.slot][k] = out + (b.used - b.consumed) + k
      BY <1>1, <1>2, <2>2, <3>1, CapacityFacts
    <3>3. in' = out' + (b.used - b.consumed) + (b.pos + 4)
      BY <1>1, <1>2, <2>1, <3>1, CapacityFacts
    <3>. QED
      BY <1>1, <1>4, <1>8, <2>1, <2>2, <3>1, <3>2, <3>3 DEF Rx, available
  <2>4. Tx(b', mem', in', out') /\ Rest(b', in', out')
    BY <1>4, <1>8 DEF Tx, Rest
  <2>5. Good(b', mem', in', out')
    BY <1>5, <2>3, <2>4 DEF Good
  <2>6. TypeOK'
    BY <1>1, <1>4, <1>6, <1>8, <2>1, <2>2, <2>5, TypeFromGood DEF IInv, TypeOK
  <2>. QED
    BY <1>4, <1>6, <1>8, <2>5, <2>6 DEF IInv
<1>. QED
  BY <1>1, <1>2, <1>7, <1>8 DEF Instances

\* The end of a transfer frees the slot, or hands it on as received.
LEMMA TransferCompleteInv == ASSUME IInv, transferComplete PROVE IInv'
<1>. DEFINE t == [b EXCEPT !.busy = FALSE, !.received = (b.dir = "receiving")]
<1>1. /\ in \in Nat /\ in \in 0 .. MaxBytes /\ out \in Nat
      /\ b \in Instances /\ b.busy /\ b.pos = b.len /\ Good(b, mem, in, out)
  BY I2SAssumption DEF IInv, TypeOK, transferComplete
<1>2. /\ b' = service(t) /\ irq' = "callback"
      /\ UNCHANGED <<mem, pc, in, out, writeError>>
  BY DEF transferComplete
<1>3. /\ b.pos \in Nat /\ b.len \in 0 .. Capacity
      /\ b.app \in Slots /\ b.slot \in Slots /\ b.slot # b.app
      /\ b.used \in 0 .. Capacity /\ b.consumed \in 0 .. Capacity /\ b.consumed <= b.used
      /\ b.dir \in {"sending", "receiving"}
  BY <1>1, CapacityFacts DEF Good, Shape, Instances
<1>4. /\ t \in Instances
      /\ ~ t.busy /\ t.received = (b.dir = "receiving")
      /\ t.dir = b.dir /\ t.used = b.used /\ t.consumed = b.consumed
      /\ t.ready = b.ready /\ t.pos = b.pos
      /\ t.app = b.app /\ t.slot = b.slot /\ t.len = b.len
  BY <1>1 DEF Instances
<1>. HIDE DEF t
<1>5. Shape(t)
  BY <1>1, <1>3, <1>4 DEF Good, Shape
<1>6. Tx(t, mem, in, out)
  BY <1>1, <1>3, <1>4, CapacityFacts DEF Good, Tx
<1>7. Rx(t, mem, in, out)
  <2>1. CASE b.dir = "receiving"
    <3>1. b.slot = 1 - b.app /\ b.len = Capacity
      BY <1>1, <1>3, <2>1 DEF Slots, Good, Shape
    <3>2. /\ in = out + (b.used - b.consumed) + b.pos
          /\ \A k \in 0 .. Capacity - 1 :
               /\ b.consumed <= k /\ k < b.used => mem[b.app][k] = out + (k - b.consumed)
               /\ k < b.pos => mem[b.slot][k] = out + (b.used - b.consumed) + k
      BY <1>1, <2>1 DEF Good, Rx, available
    <3>3. \A k \in 0 .. Capacity - 1 :
            mem[1 - b.app][k] = out + (b.used - b.consumed) + k
      BY <1>1, <3>1, <3>2, CapacityFacts
    <3>4. in = out + (b.used - b.consumed) + Capacity
      BY <1>1, <3>1, <3>2
    <3>. QED
      BY <1>4, <2>1, <3>2, <3>3, <3>4 DEF Rx, available
  <2>2. CASE b.dir # "receiving"
    BY <1>4, <2>2 DEF Rx
  <2>. QED
    BY <2>1, <2>2
<1>8. Rest(t, in, out)
  BY <1>3, <1>4 DEF Rest
<1>9. Good(b', mem', in', out') /\ b'.ready = b.ready /\ b'.dir = b.dir
  <2>1. Good(t, mem, in, out)
    BY <1>5, <1>6, <1>7, <1>8 DEF Good
  <2>. QED
    BY <1>1, <1>2, <1>4, <2>1, ServiceKeeps
<1>10. TypeOK'
  BY <1>1, <1>2, <1>3, <1>9, TypeFromGood DEF IInv, TypeOK, Memories
<1>. QED
  BY <1>2, <1>3, <1>9, <1>10 DEF IInv

LEMMA CallbackReturnsInv == ASSUME IInv, callbackReturns PROVE IInv'
<1>1. irq' = "none" /\ UNCHANGED <<b, mem, pc, in, out, writeError>>
  BY DEF callbackReturns
<1>2. TypeOK' /\ Good(b', mem', in', out')
  BY <1>1 DEF TypeOK, IInv
<1>. QED
  BY <1>1, <1>2 DEF IInv

-------------------------------------------------------------------------------
(* The theorems.                                                           *)

\* The invariant holds in every reachable state: every call of the program,
\* every word the DMA moves and every completion interrupt keeps it.
THEOREM Invariance == Spec => []IInv
<1>1. Init => IInv
  BY InitInv
<1>2. IInv /\ [Next]_vars => IInv'
  <2>. SUFFICES ASSUME IInv, [Next]_vars PROVE IInv'
    OBVIOUS
  <2>1. CASE Calls
    BY <2>1, BeginInv, PollInv, PollWriteInv, WriteInv, ReadInv, FlushReceiverInv,
       FlushStartInv DEF Calls
  <2>2. CASE Flushing
    BY <2>2, FlushRoundInv, FlushStartInv, CloseInv DEF Flushing
  <2>3. CASE Dma
    BY <2>3, TransferWordInv, TransferCompleteInv, CallbackReturnsInv DEF Dma
  <2>4. CASE UNCHANGED vars
    <3>1. UNCHANGED <<b, mem, pc, irq, in, out, writeError>>
      BY <2>4 DEF vars
    <3>2. TypeOK' /\ Good(b', mem', in', out')
      BY <3>1 DEF TypeOK, IInv
    <3>. QED
      BY <3>1, <3>2 DEF IInv
  <2>. QED
    BY <2>1, <2>2, <2>3, <2>4 DEF Next
<1>. QED
  BY <1>1, <1>2, PTL DEF Spec

\* Type correctness of the instance, the memory and the counters; in particular
\* the bytes in a slot never exceed its size and the stream never its bound.
THEOREM TypeCorrect == Spec => []TypeOK
<1>1. IInv => TypeOK
  BY DEF IInv
<1>. QED
  BY <1>1, Invariance, PTL

\* read() and write() never address the slot the DMA is moving, whatever the
\* sizes of the calls and wherever the completion interrupt falls.
THEOREM SlotsAreDisjoint == Spec => []DmaHasItsSlot
<1>1. IInv => DmaHasItsSlot
  BY CapacityFacts DEF IInv, Good, Shape, DmaHasItsSlot, Instances, Word
<1>. QED
  BY <1>1, Invariance, PTL

\* What write() accepted leaves in the order in which it was written, each byte
\* once.
THEOREM SendingInOrder == Spec => []TxInOrder
<1>1. IInv => TxInOrder
  BY DEF IInv, Good, Tx, TxInOrder
<1>. QED
  BY <1>1, Invariance, PTL

\* What the DMA delivered is returned by read() in the order of its arrival,
\* each byte once, and nothing is overwritten before it was read.
THEOREM ReceivingInOrder == Spec => []RxInOrder
<1>1. IInv => RxInOrder
  BY DEF IInv, Good, Rx, RxInOrder
<1>. QED
  BY <1>1, Invariance, PTL

\* A flush() that ends without the timeout has sent everything.
THEOREM FlushSendsAll == Spec => FlushDrains
<1>1. IInv /\ IInv' /\ [Next]_vars => [flushRound => (pc' # pc => in' = out')]_vars
  <2>. SUFFICES ASSUME IInv, IInv', flushRound, pc' # pc PROVE in' = out'
    OBVIOUS
  <2>1. ~ b'.busy /\ available(b') = 0
    BY DEF flushRound
  <2>2. b'.dir # "receiving" /\ b'.ready
    BY FlushRoundInv
  <2>3. CASE b'.dir = "sending"
    <3>1. /\ in' = out' + 0 + b'.used /\ b'.consumed = 0
          /\ in' \in Nat /\ out' \in Nat /\ b'.used \in Nat
      BY <2>1, <2>3, I2SAssumption, CapacityFacts
         DEF IInv, TypeOK, Good, Shape, Tx, Instances
    <3>. QED
      BY <2>1, <3>1 DEF available
  <2>4. CASE b'.dir = "idle"
    BY <2>2, <2>4 DEF IInv, Good, Rest
  <2>. QED
    BY <2>2, <2>3, <2>4 DEF IInv, TypeOK, Instances
<1>. QED
  BY <1>1, Invariance, PTL DEF Spec, FlushDrains
===============================================================================
