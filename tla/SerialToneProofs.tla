---------------------------- MODULE SerialToneProofs ---------------------------
(* Theorems about RingBuffer, about Serial, which is built on it, and, at the  *)
(* end, about Tone, which shares nothing with them.                            *)
(*                                                                             *)
(* RingBufferN is a bounded queue, for every capacity and every interleaving   *)
(* of its producer and its consumer.  The inductive invariant says what each   *)
(* side may rely on between its own steps: the producer, that the slot it      *)
(* writes is the one after the contents and stays free; the consumer, that the *)
(* oldest byte stays where it is.                                              *)
(*                                                                             *)
(* The steps of Serial are steps of the ring buffer or leave it alone, so that *)
(* this holds of the port as well; and the bytes keep their order from the     *)
(* line through both buffers to the loop.                                      *)
EXTENDS Serial, Tone, SequenceTheorems, WellFoundedInduction, TLAPS

-------------------------------------------------------------------------------
(* The ring buffer.                                                            *)

(* Bytes in data_ past count_: the one store_char is about to count.           *)
Uncounted == IF producer = "count" THEN 1 ELSE 0

RingInv ==
  /\ RingTypeOK
  /\ producer = "idle" <=> storing = NoByte
  /\ consumer \in {"idle", "data"} <=> value = NoByte
  /\ consumer # "idle" => count_ > 0
  /\ producer \in {"data", "index", "count"} => count_ < N
  /\ write_ = At(Oldest, count_ + Uncounted)
  /\ producer = "index" => data_[write_] = storing
  /\ producer = "count" => data_[At(Oldest, count_)] = storing
  /\ consumer \in {"index", "count"} => value = data_[Oldest]

-------------------------------------------------------------------------------
(* Slots.                                                                      *)

LEMMA ModStep ==
  ASSUME NEW r \in Slot
  PROVE  (r + 1) % N = At(r, 1) /\ At(r, 1) \in Slot
BY RingAssumption DEF Slot, At

LEMMA AtSlot ==
  ASSUME NEW h \in Slot, NEW i \in 0 .. N
  PROVE  At(h, i) \in Slot
BY RingAssumption DEF Slot, At

LEMMA AtInjective ==
  ASSUME NEW h \in Slot, NEW i \in 0 .. N - 1, NEW j \in 0 .. N - 1, i # j
  PROVE  At(h, i) # At(h, j)
BY RingAssumption DEF Slot, At

LEMMA AtNext ==
  ASSUME NEW h \in Slot, NEW i \in 0 .. N - 1
  PROVE  At(At(h, i), 1) = At(h, i + 1) /\ At(At(h, 1), i) = At(h, i + 1)
BY RingAssumption DEF Slot, At

LEMMA OldestSlot ==
  ASSUME RingTypeOK
  PROVE  Oldest \in Slot /\ (consumer = "count" => At(Oldest, 1) = read_)
BY RingAssumption DEF RingTypeOK, Oldest, Slot, At

LEMMA OldestBack ==
  ASSUME NEW r \in Slot
  PROVE  (IF At(r, 1) = 0 THEN N - 1 ELSE At(r, 1) - 1) = r
BY RingAssumption DEF Slot, At

-------------------------------------------------------------------------------
(* The inductive invariant.                                                    *)

LEMMA InvInit == RingInit => RingInv
BY RingAssumption DEF RingInit, RingInv, RingTypeOK, Slot, NoByte, At, Oldest, Uncounted

LEMMA InvStep == RingInv /\ [RingNext]_ringVars => RingInv'
<1> SUFFICES ASSUME RingInv, [RingNext]_ringVars PROVE RingInv'
    OBVIOUS
<1> USE RingAssumption
<1>0. /\ RingTypeOK /\ Oldest \in Slot /\ count_ \in 0 .. N
      /\ NoByte \notin Bytes
      /\ consumer = "count" => At(Oldest, 1) = read_
    BY OldestSlot DEF RingInv, RingTypeOK, NoByte
<1>1. ASSUME NEW v \in Bytes, StoreChar(v) PROVE RingInv'
    BY <1>0, <1>1 DEF StoreChar, RingInv, RingTypeOK, At, Oldest, Uncounted
<1>2. CASE StoreFull
    BY <1>0, <1>2 DEF StoreFull, RingInv, RingTypeOK, At, Oldest, Uncounted
<1>3. CASE StoreRoom
    BY <1>0, <1>3 DEF StoreRoom, isFull, RingInv, RingTypeOK, At, Oldest, Uncounted
<1>4. CASE StoreData
    <2>1. write_ # Oldest \/ count_ = 0
        BY <1>0, <1>4, AtInjective DEF StoreData, RingInv, Uncounted, At, Slot
    <2>2. Oldest' = Oldest /\ Uncounted' = 0 /\ Uncounted = 0
        BY <1>4 DEF StoreData, Oldest, Uncounted
    <2>3. storing \in Bytes
        BY <1>0, <1>4 DEF StoreData, RingInv, RingTypeOK
    <2>4. RingTypeOK'
        BY <1>0, <1>4, <2>3 DEF StoreData, RingTypeOK
    <2>5. data_'[write_] = storing
        BY <1>0, <1>4 DEF StoreData, RingTypeOK
    <2>6. consumer \in {"index", "count"} => data_'[Oldest] = data_[Oldest]
        BY <1>0, <1>4, <2>1 DEF StoreData, RingInv, RingTypeOK
    <2> QED
        BY <1>0, <1>4, <2>2, <2>4, <2>5, <2>6 DEF StoreData, RingInv, At
<1>5. CASE StoreIndex
    <2>1. write_' = At(write_, 1) /\ write_' \in Slot
        BY <1>0, <1>5, ModStep DEF StoreIndex, RingTypeOK
    <2>2. Oldest' = Oldest /\ Uncounted = 0 /\ Uncounted' = 1
        BY <1>5 DEF StoreIndex, Oldest, Uncounted
    <2>3. write_ = At(Oldest, count_) /\ count_ \in 0 .. N - 1
        BY <1>0, <1>5, <2>2 DEF StoreIndex, RingInv
    <2>4. write_' = At(Oldest, count_ + 1)
        BY <1>0, <2>1, <2>3, AtNext
    <2>5. RingTypeOK'
        BY <1>0, <1>5, <2>1 DEF StoreIndex, RingTypeOK
    <2> QED
        BY <1>0, <1>5, <2>2, <2>3, <2>4, <2>5 DEF StoreIndex, RingInv, At
<1>6. CASE StoreCount
    BY <1>0, <1>6 DEF StoreCount, RingInv, RingTypeOK, At, Oldest, Uncounted
<1>7. CASE ReadCheck
    BY <1>0, <1>7 DEF ReadCheck, RingInv, RingTypeOK, At, Oldest, Uncounted
<1>8. CASE ReadData
    BY <1>0, <1>8 DEF ReadData, RingInv, RingTypeOK, At, Oldest, Uncounted, Slot
<1>9. CASE ReadIndex
    <2>1. read_' = At(read_, 1) /\ read_' \in Slot
        BY <1>0, <1>9, ModStep DEF ReadIndex, RingTypeOK
    <2>2. Oldest' = Oldest
        BY <1>0, <1>9, <2>1, OldestBack DEF ReadIndex, Oldest, RingTypeOK
    <2>3. RingTypeOK'
        BY <1>0, <1>9, <2>1 DEF ReadIndex, RingTypeOK
    <2> QED
        BY <1>0, <1>9, <2>2, <2>3 DEF ReadIndex, RingInv, At, Uncounted
<1>10. CASE ReadCount
    <2>1. Oldest' = At(Oldest, 1) /\ Uncounted' = Uncounted /\ Uncounted \in {0, 1}
        BY <1>0, <1>10 DEF ReadCount, Oldest, Uncounted
    <2>2. count_ > 0 /\ count_' = count_ - 1 /\ count_ + Uncounted \in 1 .. N
        BY <1>0, <1>10 DEF ReadCount, RingInv, Uncounted
    <2>3. write_ = At(Oldest', count_' + Uncounted')
        BY <1>0, <2>1, <2>2, AtNext DEF RingInv, At, Slot
    <2>4. At(Oldest', count_') = At(Oldest, count_)
        BY <1>0, <2>1, <2>2, AtNext DEF At, Slot
    <2>5. RingTypeOK'
        BY <1>0, <1>10, <2>2 DEF ReadCount, RingTypeOK
    <2> QED
        BY <1>0, <1>10, <2>1, <2>2, <2>3, <2>4, <2>5 DEF ReadCount, RingInv, At
<1>11. CASE RingClear
    BY <1>0, <1>11 DEF RingClear, RingInv, RingTypeOK, At, Oldest, Uncounted, Slot
<1>12. CASE UNCHANGED ringVars
    BY <1>12 DEF ringVars, RingInv, RingTypeOK, At, Oldest, Uncounted
<1> QED
    BY <1>1, <1>2, <1>3, <1>4, <1>5, <1>6, <1>7, <1>8, <1>9, <1>10, <1>11, <1>12
       DEF RingNext, StoreStep, ReadStep

(* The invariant holds in every state of the buffer.                           *)
THEOREM RingInvariance == RingSpec => []RingInv
BY InvInit, InvStep, PTL DEF RingSpec

(* Neither index leaves the array and the count stays within the capacity,     *)
(* whatever store_char, read_char and clear do (RingBuffer.h).                 *)
THEOREM RingTypeCorrect == RingSpec => []RingTypeOK
<1>1. RingInv => RingTypeOK
    BY DEF RingInv
<1> QED
    BY <1>1, RingInvariance, PTL

-------------------------------------------------------------------------------
(* The refinement.                                                             *)

LEMMA RunOfBytes ==
  ASSUME NEW d \in [Slot -> Bytes], NEW h \in Slot, NEW n \in 0 .. N
  PROVE  /\ [i \in 1 .. n |-> d[At(h, i - 1)]] \in Seq(Bytes)
         /\ Len([i \in 1 .. n |-> d[At(h, i - 1)]]) = n
<1>1. \A i \in 1 .. n : d[At(h, i - 1)] \in Bytes
    BY RingAssumption, AtSlot
<1>2. n \in Nat
    BY RingAssumption
<1> QED
    BY <1>1, <1>2

LEMMA ContentsSeq ==
  ASSUME RingInv
  PROVE  /\ Contents \in Seq(Bytes) /\ Len(Contents) = count_
         /\ \A i \in 1 .. count_ : Contents[i] = data_[At(Oldest, i - 1)]
BY RunOfBytes, OldestSlot DEF Contents, RingInv, RingTypeOK

(* Steps that move neither the count nor the oldest byte, nor write a slot in  *)
(* use, leave the queue as it is.                                              *)
LEMMA ContentsSame ==
  ASSUME RingInv, RingInv', count_' = count_, Oldest' = Oldest,
         \A i \in 0 .. count_ - 1 : data_'[At(Oldest, i)] = data_[At(Oldest, i)]
  PROVE  Contents' = Contents
<1>1. count_ \in Nat
    BY RingAssumption DEF RingInv, RingTypeOK
<1>2. \A i \in 1 .. count_ : data_'[At(Oldest', i - 1)] = data_[At(Oldest, i - 1)]
    BY <1>1 DEF At
<1> QED
    BY <1>1, <1>2 DEF Contents, At

LEMMA RefInit == RingInit => Queue!Init
BY DEF RingInit, Queue!Init, Contents

LEMMA RefStep == RingInv /\ RingInv' /\ [RingNext]_ringVars => [Queue!Next]_(Queue!vars)
<1> SUFFICES ASSUME RingInv, RingInv', [RingNext]_ringVars
             PROVE  [Queue!Next]_(Queue!vars)
    OBVIOUS
<1> USE RingAssumption
<1>0. /\ RingTypeOK /\ Oldest \in Slot /\ count_ \in 0 .. N /\ NoByte \notin Bytes
      /\ consumer = "count" => At(Oldest, 1) = read_
    BY OldestSlot DEF RingInv, RingTypeOK, NoByte
<1>a. /\ Contents \in Seq(Bytes) /\ Len(Contents) = count_
      /\ \A i \in 1 .. count_ : Contents[i] = data_[At(Oldest, i - 1)]
    BY ContentsSeq
<1>1. ASSUME NEW v \in Bytes, StoreChar(v) PROVE Queue!Next
    <2>1. Contents' = Contents
        BY <1>1, ContentsSame DEF StoreChar, Oldest
    <2>2. storing = NoByte
        BY <1>1 DEF StoreChar, RingInv
    <2> QED
        BY <1>1, <2>1, <2>2 DEF StoreChar, Queue!Next, Queue!Offer
<1>2. CASE StoreFull
    <2>1. Contents' = Contents
        BY <1>2, ContentsSame DEF StoreFull, Oldest
    <2>2. storing # NoByte /\ Len(Contents) = N
        BY <1>2, <1>a DEF StoreFull, isFull, RingInv
    <2> QED
        BY <1>2, <2>1, <2>2 DEF StoreFull, Queue!Next, Queue!Drop
<1>3. CASE StoreRoom
    <2>1. Contents' = Contents
        BY <1>3, ContentsSame DEF StoreRoom, Oldest
    <2> QED
        BY <1>3, <2>1 DEF StoreRoom, Queue!vars
<1>4. CASE StoreData
    <2>1. write_ = At(Oldest, count_) /\ count_ \in 0 .. N - 1
        BY <1>0, <1>4 DEF StoreData, RingInv, Uncounted
    <2>2. ASSUME NEW i \in 0 .. count_ - 1 PROVE data_'[At(Oldest, i)] = data_[At(Oldest, i)]
        <3>1. i \in 0 .. N - 1 /\ i # count_
            BY <1>0, <2>1
        <3>2. At(Oldest, i) # write_
            BY <1>0, <2>1, <3>1, AtInjective
        <3> QED
            BY <1>4, <3>2 DEF StoreData, RingInv, RingTypeOK
    <2>3. Contents' = Contents
        BY <1>4, <2>2, ContentsSame DEF StoreData, Oldest
    <2> QED
        BY <1>4, <2>3 DEF StoreData, Queue!vars
<1>5. CASE StoreIndex
    <2>1. Contents' = Contents
        BY <1>5, ContentsSame DEF StoreIndex, Oldest
    <2> QED
        BY <1>5, <2>1 DEF StoreIndex, Queue!vars
<1>6. CASE StoreCount
    <2>1. /\ count_' = count_ + 1 /\ data_' = data_ /\ Oldest' = Oldest /\ count_ < N
          /\ data_[At(Oldest, count_)] = storing
        BY <1>6 DEF StoreCount, RingInv, Oldest
    <2>2. storing \in Bytes
        BY <1>0, <1>6 DEF StoreCount, RingInv, RingTypeOK
    <2>3. Contents' \in Seq(Bytes) /\ Len(Contents') = count_ + 1
        BY <1>0, <2>1, RunOfBytes DEF Contents, RingTypeOK, At
    <2>4. /\ Append(Contents, storing) \in Seq(Bytes)
          /\ Len(Append(Contents, storing)) = count_ + 1
          /\ \A i \in 1 .. count_ : Append(Contents, storing)[i] = Contents[i]
          /\ Append(Contents, storing)[count_ + 1] = storing
        BY <1>a, <2>2, AppendProperties
    <2>5. \A i \in 1 .. count_ + 1 : Contents'[i] = data_[At(Oldest, i - 1)]
        BY <2>1 DEF Contents, At
    <2>6. \A i \in 1 .. count_ + 1 : Contents'[i] = Append(Contents, storing)[i]
        BY <1>0, <1>a, <2>1, <2>4, <2>5
    <2>7. Contents' = Append(Contents, storing)
        BY <2>3, <2>4, <2>6, SeqEqual
    <2> QED
        BY <1>0, <1>6, <1>a, <2>1, <2>2, <2>7 DEF StoreCount, Queue!Next, Queue!Put
<1>7. CASE ReadCheck
    <2>1. Contents' = Contents
        BY <1>7, ContentsSame DEF ReadCheck, Oldest
    <2> QED
        BY <1>7, <2>1 DEF ReadCheck, Queue!vars
<1>8. CASE ReadData
    <2>1. Contents' = Contents
        BY <1>8, ContentsSame DEF ReadData, Oldest
    <2>2. value = NoByte /\ count_ > 0 /\ Oldest = read_
        BY <1>8 DEF ReadData, RingInv, Oldest
    <2>3. At(Oldest, 0) = Oldest
        BY <1>0 DEF At, Slot
    <2>4. Contents # <<>> /\ Head(Contents) = data_[Oldest]
        BY <1>0, <1>a, <2>2, <2>3
    <2> QED
        BY <1>8, <2>1, <2>2, <2>4 DEF ReadData, Queue!Next, Queue!Look
<1>9. CASE ReadIndex
    <2>1. read_' = At(read_, 1)
        BY <1>0, <1>9, ModStep DEF ReadIndex, RingTypeOK
    <2>2. Oldest' = Oldest
        BY <1>0, <1>9, <2>1, OldestBack DEF ReadIndex, Oldest, RingTypeOK
    <2>3. Contents' = Contents
        BY <1>9, <2>2, ContentsSame DEF ReadIndex
    <2> QED
        BY <1>9, <2>3 DEF ReadIndex, Queue!vars
<1>10. CASE ReadCount
    <2>1. /\ count_' = count_ - 1 /\ count_ > 0 /\ data_' = data_ /\ Oldest' = At(Oldest, 1)
          /\ value = data_[Oldest] /\ value # NoByte
        BY <1>0, <1>10 DEF ReadCount, RingInv, Oldest
    <2>2. At(Oldest, 0) = Oldest
        BY <1>0 DEF At, Slot
    <2>3. value = Head(Contents)
        BY <1>0, <1>a, <2>1, <2>2
    <2>4. /\ Contents' \in Seq(Bytes) /\ Len(Contents') = count_ - 1
          /\ \A i \in 1 .. count_ - 1 : Contents'[i] = data_[At(At(Oldest, 1), i - 1)]
        <3>1. Contents' \in Seq(Bytes) /\ Len(Contents') = count_ - 1
            BY <1>0, <2>1, AtSlot, RunOfBytes DEF Contents, RingTypeOK, At
        <3>2. \A i \in 1 .. count_ - 1 : Contents'[i] = data_[At(At(Oldest, 1), i - 1)]
            BY <2>1 DEF Contents, At
        <3> QED
            BY <3>1, <3>2
    <2>5. \A i \in 1 .. count_ - 1 : data_[At(At(Oldest, 1), i - 1)] = Contents[i + 1]
        <3> TAKE i \in 1 .. count_ - 1
        <3>1. i - 1 \in 0 .. N - 1 /\ (i - 1) + 1 = i /\ i + 1 \in 1 .. count_ /\ (i + 1) - 1 = i
            BY <1>0
        <3>2. At(At(Oldest, 1), i - 1) = At(Oldest, i)
            BY <1>0, <3>1, AtNext
        <3> QED
            BY <1>a, <3>1, <3>2
    <2>6. /\ Tail(Contents) \in Seq(Bytes) /\ Len(Tail(Contents)) = count_ - 1
          /\ \A i \in 1 .. count_ - 1 : Tail(Contents)[i] = Contents[i + 1]
        BY <1>0, <1>a, <2>1, HeadTailProperties
    <2>7. Contents' = Tail(Contents)
        BY <2>4, <2>5, <2>6, SeqEqual
    <2> QED
        BY <1>10, <2>1, <2>3, <2>7 DEF ReadCount, Queue!Next, Queue!Take
<1>11. CASE RingClear
    <2>1. storing = NoByte /\ value = NoByte
        BY <1>11 DEF RingClear, RingInv
    <2>2. Contents' = <<>>
        BY <1>11 DEF RingClear, Contents
    <2> QED
        BY <1>11, <2>1, <2>2 DEF RingClear, Queue!Next, Queue!Clear
<1>12. CASE UNCHANGED ringVars
    <2>1. Contents' = Contents
        BY <1>12, ContentsSame DEF ringVars, Oldest
    <2> QED
        BY <1>12, <2>1 DEF ringVars, Queue!vars
<1> QED
    BY <1>1, <1>2, <1>3, <1>4, <1>5, <1>6, <1>7, <1>8, <1>9, <1>10, <1>11, <1>12
       DEF RingNext, StoreStep, ReadStep

(* RingBufferN implements a bounded queue, for every capacity: between a       *)
(* producer in store_char and a consumer in read_char, however their steps     *)
(* interleave, no byte is lost but by a full buffer, and none is overtaken.    *)
THEOREM RingRefinesQueue == RingSpec => RingIsQueue
<1>1. RingSpec => [][Queue!Next]_(Queue!vars)
    BY RingInvariance, RefStep, PTL DEF RingSpec
<1>2. RingSpec => Queue!Init
    BY RefInit DEF RingSpec
<1> QED
    BY <1>1, <1>2 DEF RingIsQueue, Queue!Spec

-------------------------------------------------------------------------------
(* The port.                                                                   *)

(* The device's FIFO holds bytes and its indices stay inside, whatever the     *)
(* order of begin, end and the bytes on the line.                              *)
PortInv ==
    /\ opened \in BOOLEAN /\ callback \in BOOLEAN /\ notify \in BOOLEAN
    /\ buffer \in [Fifo -> Bytes] /\ put_index \in Fifo /\ get_index \in Fifo
    /\ sent \in 0 .. MaxBytes
    /\ polling \in {"idle", "read"}

LEMMA IncInside == \A i \in Fifo : Inc(i) \in Fifo
BY SerialAssumption DEF Fifo, Inc

LEMMA PortInit == Init => PortInv
<1> SUFFICES ASSUME Init
             PROVE  PortInv
    OBVIOUS
<1>1. buffer \in [Fifo -> Bytes]
    BY RingAssumption DEF Init
<1>2. put_index \in Fifo /\ get_index \in Fifo /\ sent \in 0 .. MaxBytes
    BY SerialAssumption DEF Init, Fifo
<1>3. opened \in BOOLEAN /\ callback \in BOOLEAN /\ notify \in BOOLEAN /\ polling \in {"idle", "read"}
    BY Zenon DEF Init
<1> QED
    BY <1>1, <1>2, <1>3, Zenon DEF PortInv

(* One step per action: what the line, the two tasks and the calls do to the   *)
(* device.                                                                     *)
LEMMA PortStep == PortInv /\ [Next]_vars => PortInv'
<1> SUFFICES ASSUME PortInv, [Next]_vars
             PROVE  PortInv'
    OBVIOUS
<1>0. \A i \in Fifo : Inc(i) \in Fifo
    BY IncInside
<1>z. 0 \in Fifo
    BY SerialAssumption DEF Fifo
<1>1. CASE LineByte
    <2>1. sent' \in 0 .. MaxBytes /\ sent \in Bytes
        BY <1>1, SerialAssumption DEF LineByte, PortInv
    <2>2. CASE opened
        BY <1>0, <1>1, <2>1, <2>2 DEF LineByte, Received, PortInv
    <2>3. CASE ~opened
        BY <1>1, <2>1, <2>3 DEF LineByte, PortInv
    <2> QED
        BY <2>2, <2>3
<1>2. CASE Poll
    BY <1>2 DEF Poll, portVars, PortInv
<1>3. CASE ReadOne
    BY <1>0, <1>3 DEF ReadOne, PortInv
<1>4. CASE Store
    BY <1>4 DEF Store, portVars, PortInv
<1>5. CASE Loop
    BY <1>5 DEF Loop, portVars, PortInv
<1>6. CASE LoopClear
    BY <1>6 DEF LoopClear, portVars, PortInv
<1>7. CASE Begin
    BY <1>7, <1>z DEF Begin, PortInv
<1>8. CASE End
    BY <1>8, <1>z DEF End, hal_uart_end, PortInv
<1>9. CASE \E cb \in BOOLEAN : OnReceive(cb)
    BY <1>9 DEF OnReceive, PortInv
<1>10. CASE UNCHANGED vars
    BY <1>10 DEF vars, portVars, PortInv
<1> QED
    BY <1>1, <1>2, <1>3, <1>4, <1>5, <1>6, <1>7, <1>8, <1>9, <1>10 DEF Next

(* The port never indexes outside the device's FIFO, whatever wraps and        *)
(* overflows, for every size of the FIFO (rt_serial_rx_fifo).                  *)
THEOREM PortInvariance == Spec => []PortInv
<1> QED
    BY PortInit, PortStep, PTL DEF Spec

(* Every step of the port is a step of the ring buffer or leaves it alone.     *)
LEMMA RingOrRest == PortInv /\ [Next]_vars => [RingNext]_ringVars
<1> SUFFICES ASSUME PortInv, [Next]_vars
             PROVE  [RingNext]_ringVars
    OBVIOUS
<1>1. CASE ReadOne
    BY <1>1 DEF ReadOne, PortInv, RingNext
<1>2. CASE Store
    BY <1>2 DEF Store, RingNext
<1>3. CASE Loop
    BY <1>3 DEF Loop, RingNext
<1>4. CASE LoopClear
    BY <1>4 DEF LoopClear, RingNext
<1>5. CASE LineByte \/ Poll \/ Begin \/ End \/ UNCHANGED vars
    BY <1>5 DEF LineByte, Poll, Begin, End, vars
<1>6. CASE \E cb \in BOOLEAN : OnReceive(cb)
    BY <1>6 DEF OnReceive
<1> QED
    BY <1>1, <1>2, <1>3, <1>4, <1>5, <1>6 DEF Next

(* Inside the port, with the polling task as its producer and the sketch's     *)
(* loop as its consumer, the ring buffer behaves as it does on its own.        *)
THEOREM PortUsesRing == Spec => RingSpec
<1>1. Init => RingInit
    BY DEF Init
<1> QED
    BY <1>1, PortInvariance, RingOrRest, PTL DEF Spec, RingSpec

(* Through begin, end, clear and callbacks, what the polling task stores       *)
(* reaches the loop as through a bounded queue, for every capacity.            *)
THEOREM PortIsQueue == Spec => RingIsQueue
BY PortUsesRing, RingRefinesQueue

(* The types of the state, those of the ring buffer and the last byte taken    *)
(* included.                                                                   *)
LEMMA LastStep ==
    ASSUME RingInv, last \in Bytes \cup {NoByte}, [Next]_vars
    PROVE  last' \in Bytes \cup {NoByte}
<1>1. value \in Bytes \cup {NoByte}
    BY DEF RingInv, RingTypeOK
<1>2. last' = last \/ last' = value
    BY DEF Next, LineByte, Poll, ReadOne, Store, Loop, LoopClear, Begin, End, OnReceive, vars
<1> QED
    BY <1>1, <1>2

(* Every variable of the port keeps its type: all four indices stay inside     *)
(* their buffers, for every size of both.                                      *)
THEOREM PortTypeCorrect == Spec => []TypeOK
<1>1. Init => last \in Bytes \cup {NoByte}
    BY DEF Init
<1>2. RingInv /\ last \in Bytes \cup {NoByte} /\ [Next]_vars => (last \in Bytes \cup {NoByte})'
    BY LastStep
<1>3. Spec => []RingInv
    BY PortUsesRing, RingInvariance, PTL
<1>4. Spec => [](last \in Bytes \cup {NoByte})
    BY <1>1, <1>2, <1>3, PTL DEF Spec
<1>5. RingInv /\ PortInv /\ last \in Bytes \cup {NoByte} => TypeOK
    BY DEF TypeOK, RingInv, PortInv
<1> QED
    BY <1>3, <1>4, <1>5, PortInvariance, PTL

-------------------------------------------------------------------------------
(* The order of the bytes.  What the loop, the ring buffer and store_char hold *)
(* rises and stays below s; s is every byte of the FIFO, and the next one on   *)
(* the line.                                                                   *)
Rises(l, c, st, s) ==
    /\ l < s
    /\ \A i \in 1 .. Len(c) : l < c[i] /\ c[i] < s
    /\ \A i, j \in 1 .. Len(c) : i < j => c[i] < c[j]
    /\ st # NoByte => /\ l < st /\ st < s
                      /\ \A i \in 1 .. Len(c) : c[i] < st

(* The FIFO between two indices: how much it holds and where.                  *)
Held(p, g) == IF p >= g THEN p - g ELSE BufSz - (g - p)
Cell(g, k) == IF g + k < BufSz THEN g + k ELSE g + k - BufSz

FifoRises(b, p, g, s) ==
    /\ \A k \in 0 .. Held(p, g) - 1 : b[Cell(g, k)] < s
    /\ \A k, m \in 0 .. Held(p, g) - 1 : k < m => b[Cell(g, k)] < b[Cell(g, m)]

OrderInv ==
    /\ Rises(last, Contents, storing, sent)
    /\ \A k \in 0 .. Held(put_index, get_index) - 1 :
         Rises(last, Contents, storing, buffer[Cell(get_index, k)])
    /\ FifoRises(buffer, put_index, get_index, sent)
    /\ polling = "read" => Held(put_index, get_index) > 0

(* Cells of the FIFO.                                                          *)
LEMMA FifoIs ==
    ASSUME NEW p \in Fifo, NEW g \in Fifo
    PROVE  /\ Held(p, g) \in 0 .. BufSz - 1
           /\ p = Cell(g, Held(p, g))
           /\ \A k \in 0 .. BufSz - 1 : Cell(g, k) \in Fifo
           /\ \A k, m \in 0 .. BufSz - 1 : Cell(g, k) = Cell(g, m) => k = m
BY SerialAssumption DEF Fifo, Held, Cell

LEMMA CellNext ==
    ASSUME NEW g \in Fifo, NEW k \in 0 .. BufSz - 2
    PROVE  Cell(Inc(g), k) = Cell(g, k + 1)
BY SerialAssumption DEF Fifo, Inc, Cell

(* A byte comes into a FIFO with room, or into a full one, or one is taken.    *)
LEMMA HeldNext ==
    ASSUME NEW p \in Fifo, NEW g \in Fifo
    PROVE  /\ Inc(p) # g => Held(Inc(p), g) = Held(p, g) + 1
           /\ Inc(p) = g => Held(p, g) = BufSz - 1 /\ Held(Inc(p), Inc(g)) = BufSz - 1
           /\ Held(p, g) > 0 => Held(p, Inc(g)) = Held(p, g) - 1
BY SerialAssumption DEF Fifo, Inc, Held

LEMMA ZeroHeld == Held(0, 0) = 0
BY SerialAssumption DEF Held

Written(b, p, s) == [b EXCEPT ![p] = s]

(* A byte on the line is the youngest of the FIFO ...                          *)
LEMMA RoomIs ==
    ASSUME NEW p \in Fifo, NEW g \in Fifo, NEW b \in [Fifo -> Bytes], NEW s \in Bytes, Inc(p) # g
    PROVE  /\ Held(Inc(p), g) = Held(p, g) + 1
           /\ \A k \in 0 .. Held(p, g) : Written(b, p, s)[Cell(g, k)] = IF k = Held(p, g) THEN s ELSE b[Cell(g, k)]
<1>1. Held(Inc(p), g) = Held(p, g) + 1
    BY HeldNext
<1>2. Held(p, g) \in 0 .. BufSz - 1 /\ p = Cell(g, Held(p, g)) /\ BufSz \in Nat
    BY FifoIs, SerialAssumption
<1>3. ASSUME NEW k \in 0 .. Held(p, g)
      PROVE  Written(b, p, s)[Cell(g, k)] = IF k = Held(p, g) THEN s ELSE b[Cell(g, k)]
    <2>1. k \in 0 .. BufSz - 1
        BY <1>2
    <2>2. Cell(g, k) \in Fifo /\ (Cell(g, k) = p => k = Held(p, g))
        BY <1>2, <2>1, FifoIs
    <2> QED
        BY <1>2, <2>2 DEF Written
<1> QED
    BY <1>1, <1>3

(* ... and where there is no room, the oldest is lost.                         *)
LEMMA FullIs ==
    ASSUME NEW p \in Fifo, NEW g \in Fifo, NEW b \in [Fifo -> Bytes], NEW s \in Bytes, Inc(p) = g
    PROVE  /\ Held(Inc(p), Inc(g)) = Held(p, g) /\ Held(p, g) = BufSz - 1
           /\ \A k \in 0 .. BufSz - 2 : Written(b, p, s)[Cell(Inc(g), k)] = IF k = BufSz - 2 THEN s ELSE b[Cell(g, k + 1)]
<1>1. Held(Inc(p), Inc(g)) = Held(p, g) /\ Held(p, g) = BufSz - 1
    BY HeldNext
<1>2. p = Cell(g, BufSz - 1) /\ BufSz \in Nat /\ BufSz > 1
    BY <1>1, FifoIs, SerialAssumption
<1>3. ASSUME NEW k \in 0 .. BufSz - 2
      PROVE  Written(b, p, s)[Cell(Inc(g), k)] = IF k = BufSz - 2 THEN s ELSE b[Cell(g, k + 1)]
    <2>1. k + 1 \in 0 .. BufSz - 1 /\ BufSz - 1 \in 0 .. BufSz - 1 /\ (k + 1 = BufSz - 1 <=> k = BufSz - 2)
        BY <1>2
    <2>2. Cell(g, k + 1) \in Fifo /\ (Cell(g, k + 1) = p => k + 1 = BufSz - 1)
        BY <1>2, <2>1, FifoIs
    <2>3. Cell(Inc(g), k) = Cell(g, k + 1)
        BY CellNext
    <2>4. CASE k = BufSz - 2
        <3>1. Cell(g, k + 1) = p
            BY <1>2, <2>1, <2>4
        <3> QED
            BY <2>2, <2>3, <2>4, <3>1 DEF Written
    <2>5. CASE k # BufSz - 2
        BY <2>1, <2>2, <2>3, <2>5 DEF Written
    <2> QED
        BY <2>4, <2>5
<1> QED
    BY <1>1, <1>3

(* Order is kept as a byte comes in ...                                        *)
LEMMA CellBytes ==
    ASSUME NEW p \in Fifo, NEW g \in Fifo, NEW b \in [Fifo -> Bytes]
    PROVE  /\ Held(p, g) \in 0 .. BufSz - 1 /\ BufSz \in Nat /\ BufSz > 1
           /\ \A k \in 0 .. BufSz - 1 : b[Cell(g, k)] \in Nat
<1>1. \A k \in 0 .. BufSz - 1 : Cell(g, k) \in Fifo
    BY FifoIs
<1>2. \A k \in 0 .. BufSz - 1 : b[Cell(g, k)] \in Nat
    BY <1>1, RingAssumption
<1>3. Held(p, g) \in 0 .. BufSz - 1
    BY FifoIs
<1> QED
    BY <1>2, <1>3, SerialAssumption

LEMMA RoomRises ==
    ASSUME NEW p \in Fifo, NEW g \in Fifo, NEW b \in [Fifo -> Bytes], NEW s \in Bytes,
           FifoRises(b, p, g, s), Inc(p) # g
    PROVE  /\ FifoRises(Written(b, p, s), Inc(p), g, s + 1) /\ Held(Inc(p), g) > 0
           /\ \A k \in 0 .. Held(Inc(p), g) - 1 :
                Written(b, p, s)[Cell(g, k)] = s \/ \E m \in 0 .. Held(p, g) - 1 : Written(b, p, s)[Cell(g, k)] = b[Cell(g, m)]
<1>0. /\ Held(p, g) \in 0 .. BufSz - 1 /\ BufSz \in Nat /\ BufSz > 1 /\ s \in Nat
      /\ \A k \in 0 .. BufSz - 1 : b[Cell(g, k)] \in Nat
    BY CellBytes, RingAssumption
<1>1. Held(Inc(p), g) = Held(p, g) + 1
    BY RoomIs
<1>2. \A k \in 0 .. Held(p, g) : Written(b, p, s)[Cell(g, k)] = IF k = Held(p, g) THEN s ELSE b[Cell(g, k)]
    BY RoomIs
<1>3. \A k \in 0 .. Held(p, g) : k = Held(p, g) \/ k \in 0 .. Held(p, g) - 1
    BY <1>0
<1>4. \A k \in 0 .. Held(p, g) : Written(b, p, s)[Cell(g, k)] < s + 1
    BY <1>0, <1>2, <1>3 DEF FifoRises
<1>5. \A k, m \in 0 .. Held(p, g) : k < m => Written(b, p, s)[Cell(g, k)] < Written(b, p, s)[Cell(g, m)]
    BY <1>0, <1>2, <1>3 DEF FifoRises
<1>6. 0 .. Held(Inc(p), g) - 1 = 0 .. Held(p, g) /\ Held(Inc(p), g) > 0
    BY <1>0, <1>1
<1>7. FifoRises(Written(b, p, s), Inc(p), g, s + 1)
    BY <1>4, <1>5, <1>6, Zenon DEF FifoRises
<1>8. \A k \in 0 .. Held(p, g) :
        Written(b, p, s)[Cell(g, k)] = s \/ \E m \in 0 .. Held(p, g) - 1 : Written(b, p, s)[Cell(g, k)] = b[Cell(g, m)]
    BY <1>2, <1>3
<1> QED
    BY <1>6, <1>7, <1>8, Zenon

(* ... whether or not another is lost ...                                      *)
LEMMA FullRises ==
    ASSUME NEW p \in Fifo, NEW g \in Fifo, NEW b \in [Fifo -> Bytes], NEW s \in Bytes,
           FifoRises(b, p, g, s), Inc(p) = g
    PROVE  /\ FifoRises(Written(b, p, s), Inc(p), Inc(g), s + 1) /\ Held(Inc(p), Inc(g)) > 0
           /\ \A k \in 0 .. Held(Inc(p), Inc(g)) - 1 :
                Written(b, p, s)[Cell(Inc(g), k)] = s \/ \E m \in 0 .. Held(p, g) - 1 : Written(b, p, s)[Cell(Inc(g), k)] = b[Cell(g, m)]
<1>0. /\ BufSz \in Nat /\ BufSz > 1 /\ s \in Nat
      /\ \A k \in 0 .. BufSz - 1 : b[Cell(g, k)] \in Nat
    BY CellBytes, RingAssumption
<1>1. Held(Inc(p), Inc(g)) = BufSz - 1 /\ Held(p, g) = BufSz - 1
    BY FullIs
<1>2. \A k \in 0 .. BufSz - 2 : Written(b, p, s)[Cell(Inc(g), k)] = IF k = BufSz - 2 THEN s ELSE b[Cell(g, k + 1)]
    BY FullIs
<1>3. \A k \in 0 .. BufSz - 2 : k = BufSz - 2 \/ k + 1 \in 0 .. Held(p, g) - 1
    BY <1>0, <1>1
<1>4. \A k \in 0 .. BufSz - 2 : Written(b, p, s)[Cell(Inc(g), k)] < s + 1
    BY <1>0, <1>1, <1>2, <1>3 DEF FifoRises
<1>5. ASSUME NEW k \in 0 .. BufSz - 2, NEW m \in 0 .. BufSz - 2, k < m
      PROVE  Written(b, p, s)[Cell(Inc(g), k)] < Written(b, p, s)[Cell(Inc(g), m)]
    <2>1. k # BufSz - 2 /\ k + 1 \in 0 .. Held(p, g) - 1 /\ k + 1 < m + 1
        BY <1>0, <1>1, <1>5
    <2> QED
        BY <1>0, <1>1, <1>2, <1>3, <2>1 DEF FifoRises
<1>6. 0 .. Held(Inc(p), Inc(g)) - 1 = 0 .. BufSz - 2 /\ Held(Inc(p), Inc(g)) > 0
    BY <1>0, <1>1
<1>7. FifoRises(Written(b, p, s), Inc(p), Inc(g), s + 1)
    BY <1>4, <1>5, <1>6, Zenon DEF FifoRises
<1>8. \A k \in 0 .. BufSz - 2 :
        Written(b, p, s)[Cell(Inc(g), k)] = s \/ \E m \in 0 .. Held(p, g) - 1 : Written(b, p, s)[Cell(Inc(g), k)] = b[Cell(g, m)]
    BY <1>2, <1>3
<1> QED
    BY <1>6, <1>7, <1>8, Zenon

(* ... and as the oldest is taken.                                             *)
LEMMA FifoGives ==
    ASSUME NEW p \in Fifo, NEW g \in Fifo, NEW b \in [Fifo -> Bytes], NEW s \in Nat,
           FifoRises(b, p, g, s), Held(p, g) > 0
    PROVE  /\ FifoRises(b, p, Inc(g), s) /\ b[g] = b[Cell(g, 0)] /\ b[g] \in Nat /\ b[g] < s
           /\ \A k \in 0 .. Held(p, Inc(g)) - 1 :
                /\ b[Cell(Inc(g), k)] \in Nat /\ b[g] < b[Cell(Inc(g), k)]
                /\ \E m \in 0 .. Held(p, g) - 1 : b[Cell(Inc(g), k)] = b[Cell(g, m)]
<1>1. /\ Held(p, g) \in 1 .. BufSz - 1 /\ BufSz \in Nat /\ BufSz > 1
      /\ Held(p, Inc(g)) = Held(p, g) - 1
      /\ \A k \in 0 .. BufSz - 1 : b[Cell(g, k)] \in Nat
    BY CellBytes, HeldNext
<1>2. g = Cell(g, 0)
    BY SerialAssumption DEF Cell, Fifo
<1>3. \A k \in 0 .. Held(p, g) - 1 - 1 :
        /\ b[Cell(Inc(g), k)] = b[Cell(g, k + 1)]
        /\ k + 1 \in 0 .. Held(p, g) - 1 /\ 0 < k + 1 /\ k + 1 \in 0 .. BufSz - 1
    <2> TAKE k \in 0 .. Held(p, g) - 1 - 1
    <2>1. k \in 0 .. BufSz - 2 /\ k + 1 \in 0 .. Held(p, g) - 1 /\ 0 < k + 1 /\ k + 1 \in 0 .. BufSz - 1
        BY <1>1
    <2> QED
        BY <2>1, CellNext
<1>4. 0 \in 0 .. Held(p, g) - 1
    BY <1>1
<1>5. b[g] \in Nat /\ b[g] < s
    BY <1>1, <1>2, <1>4 DEF FifoRises
<1>6. \A k \in 0 .. Held(p, g) - 1 - 1 :
        /\ b[Cell(Inc(g), k)] \in Nat /\ b[g] < b[Cell(Inc(g), k)]
        /\ \E m \in 0 .. Held(p, g) - 1 : b[Cell(Inc(g), k)] = b[Cell(g, m)]
    BY <1>1, <1>2, <1>3, <1>4 DEF FifoRises
<1>7. \A k \in 0 .. Held(p, g) - 1 - 1 : b[Cell(Inc(g), k)] < s
    BY <1>3 DEF FifoRises
<1>8. \A k, m \in 0 .. Held(p, g) - 1 - 1 : k < m => b[Cell(Inc(g), k)] < b[Cell(Inc(g), m)]
    <2> TAKE k, m \in 0 .. Held(p, g) - 1 - 1
    <2> HAVE k < m
    <2>1. k + 1 < m + 1
        BY <1>1
    <2> QED
        BY <1>3, <2>1 DEF FifoRises
<1>9. FifoRises(b, p, Inc(g), s)
    BY <1>1, <1>7, <1>8 DEF FifoRises
<1> QED
    BY <1>1, <1>2, <1>5, <1>6, <1>9

(* What the steps of the two tasks do to the order before the FIFO.            *)
LEMMA BytesAreInts ==
    ASSUME NEW c \in Seq(Bytes)
    PROVE  \A i \in 1 .. Len(c) : c[i] \in Int
<1>1. \A i \in 1 .. Len(c) : c[i] \in Bytes
    BY ElementOfSeq
<1>2. Bytes \subseteq Int
    BY RingAssumption
<1> QED
    BY <1>1, <1>2

LEMMA RisesUp ==
    ASSUME NEW l \in Int, NEW c \in Seq(Bytes), NEW st \in Int, NEW s \in Int, NEW s2 \in Int,
           Rises(l, c, st, s), s <= s2
    PROVE  Rises(l, c, st, s2)
<1>1. \A i \in 1 .. Len(c) : c[i] \in Int
    BY BytesAreInts
<1> QED
    BY <1>1 DEF Rises

LEMMA RisesStores ==
    ASSUME NEW l \in Int, NEW c \in Seq(Bytes), NEW v \in Int, NEW s \in Int,
           Rises(l, c, NoByte, v), v < s
    PROVE  Rises(l, c, v, s)
<1>1. \A i \in 1 .. Len(c) : c[i] \in Int
    BY BytesAreInts
<1> QED
    BY <1>1 DEF Rises

LEMMA RisesPuts ==
    ASSUME NEW l \in Int, NEW c \in Seq(Bytes), NEW st \in Bytes, NEW s \in Int,
           Rises(l, c, st, s)
    PROVE  Rises(l, Append(c, st), NoByte, s)
<1>1. /\ Len(Append(c, st)) = Len(c) + 1 /\ Len(c) \in Nat
      /\ \A i \in 1 .. Len(c) : Append(c, st)[i] = c[i]
      /\ Append(c, st)[Len(c) + 1] = st
    BY AppendProperties
<1>2. st # NoByte
    BY RingAssumption DEF NoByte
<1> DEFINE a == Append(c, st)
<1> HIDE DEF a
<1>3. \A i \in 1 .. Len(c) + 1 : i \in 1 .. Len(c) \/ i = Len(c) + 1
    BY <1>1
<1>4. \A i \in 1 .. Len(c) + 1 : l < a[i] /\ a[i] < s
    BY <1>1, <1>2, <1>3 DEF a, Rises
<1>5. \A i, j \in 1 .. Len(c) + 1 : i < j => a[i] < a[j]
    <2> TAKE i, j \in 1 .. Len(c) + 1
    <2> HAVE i < j
    <2>1. i \in 1 .. Len(c)
        BY <1>1
    <2>2. CASE j \in 1 .. Len(c)
        BY <1>1, <2>1, <2>2 DEF a, Rises
    <2>3. CASE j = Len(c) + 1
        BY <1>1, <1>2, <2>1, <2>3 DEF a, Rises
    <2> QED
        BY <1>3, <2>2, <2>3
<1>6. Len(a) = Len(c) + 1 /\ l < s
    BY <1>1 DEF a, Rises
<1>7. Rises(l, a, NoByte, s)
    BY <1>4, <1>5, <1>6 DEF Rises
<1> QED
    BY <1>7 DEF a

LEMMA RisesTakes ==
    ASSUME NEW l, NEW c \in Seq(Bytes), c # <<>>, NEW st, NEW s,
           Rises(l, c, st, s)
    PROVE  Rises(Head(c), Tail(c), st, s)
<1>1. /\ Len(Tail(c)) = Len(c) - 1 /\ Len(c) \in Nat /\ Len(c) > 0 /\ Head(c) = c[1]
      /\ \A i \in 1 .. Len(c) - 1 : Tail(c)[i] = c[i + 1]
    BY HeadTailProperties
<1> DEFINE a == Tail(c)
<1> HIDE DEF a
<1>2. \A i \in 1 .. Len(c) - 1 : a[i] = c[i + 1] /\ i + 1 \in 1 .. Len(c) /\ 1 < i + 1 /\ 1 \in 1 .. Len(c)
    BY <1>1 DEF a
<1>3. Len(a) = Len(c) - 1 /\ 1 \in 1 .. Len(c)
    BY <1>1 DEF a
<1>4. \A i \in 1 .. Len(a) : c[1] < a[i] /\ a[i] < s
    BY <1>2, <1>3 DEF Rises
<1>5. \A i, j \in 1 .. Len(a) : i < j => a[i] < a[j]
    <2> TAKE i, j \in 1 .. Len(a)
    <2> HAVE i < j
    <2>1. i + 1 < j + 1
        BY <1>1, <1>3
    <2> QED
        BY <1>2, <1>3, <2>1 DEF Rises
<1>6. c[1] < s /\ (st # NoByte => c[1] < st /\ st < s /\ \A i \in 1 .. Len(a) : a[i] < st)
    BY <1>2, <1>3 DEF Rises
<1>7. Rises(c[1], a, st, s)
    BY <1>4, <1>5, <1>6 DEF Rises
<1> QED
    BY <1>1, <1>7 DEF a

(* The steps of the ring buffer, as the queue sees them.                       *)
LEMMA StoreMoves ==
    ASSUME RingInv, RingInv', StoreStep
    PROVE  \/ Contents' = Contents /\ storing' \in {storing, NoByte}
           \/ storing \in Bytes /\ Contents' = Append(Contents, storing) /\ storing' = NoByte
<1>1. [Queue!Next]_(Queue!vars)
    BY RefStep DEF RingNext
<1>2. value' = value /\ producer # "idle" /\ NoByte \notin Bytes
    BY RingAssumption DEF StoreStep, StoreFull, StoreRoom, StoreData, StoreIndex, StoreCount, NoByte
<1>3. storing \in Bytes
    BY <1>2 DEF RingInv, RingTypeOK
<1>4. Contents \in Seq(Bytes)
    BY ContentsSeq
<1>5. CASE Queue!Next
    <2>1. ~ (\E v \in Bytes : Queue!Offer(v)) /\ ~ Queue!Clear
        BY <1>2, <1>3 DEF Queue!Offer, Queue!Clear
    <2>2. ~ Queue!Look
        BY <1>2, <1>4 DEF Queue!Look
    <2>3. ~ Queue!Take
        BY <1>2 DEF Queue!Take
    <2> QED
        BY <1>3, <1>5, <2>1, <2>2, <2>3 DEF Queue!Next, Queue!Put, Queue!Drop
<1>6. CASE UNCHANGED Queue!vars
    BY <1>6 DEF Queue!vars
<1> QED
    BY <1>1, <1>5, <1>6

LEMMA ReadMoves ==
    ASSUME RingInv, RingInv', ReadStep
    PROVE  /\ storing' = storing
           /\ consumer = "count" => Contents # <<>> /\ value = Head(Contents) /\ Contents' = Tail(Contents)
           /\ consumer # "count" => Contents' = Contents
<1>1. [Queue!Next]_(Queue!vars)
    BY RefStep DEF RingNext
<1>2. storing' = storing /\ NoByte \notin Bytes
    BY RingAssumption DEF ReadStep, ReadCheck, ReadData, ReadIndex, ReadCount, NoByte
<1>3. ~ (\E v \in Bytes : Queue!Offer(v)) /\ ~ Queue!Put /\ ~ Queue!Drop
    BY <1>2 DEF Queue!Offer, Queue!Put, Queue!Drop
<1>4. CASE consumer = "count"
    <2>1. value # NoByte /\ value' = NoByte
        BY <1>4 DEF ReadStep, ReadCheck, ReadData, ReadIndex, ReadCount, RingInv
    <2>2. Queue!Next /\ ~ Queue!Look /\ ~ Queue!Clear
        BY <1>1, <2>1 DEF Queue!Look, Queue!Clear, Queue!vars
    <2>3. Queue!Take
        BY <1>3, <2>2 DEF Queue!Next
    <2>4. Contents # <<>>
        BY <1>4, ContentsSeq DEF RingInv
    <2> QED
        BY <1>2, <1>4, <2>3, <2>4 DEF Queue!Take
<1>5. CASE consumer # "count"
    <2>1. ReadCheck \/ ReadData \/ ReadIndex
        BY <1>5 DEF ReadStep, ReadCount
    <2>2. ~ Queue!Take
        <3>1. value' = value \/ consumer = "data"
            BY <2>1 DEF ReadCheck, ReadData, ReadIndex
        <3>2. consumer = "data" => value = NoByte
            BY DEF RingInv
        <3> QED
            BY <3>1, <3>2 DEF Queue!Take
    <2>3. Queue!Clear => Contents' = Contents
        <3>1. value = NoByte /\ value' = NoByte => ReadCheck
            <4>1. ReadData => value' # NoByte
                BY DEF ReadData, RingInv
            <4>2. ReadIndex => value # NoByte
                BY DEF ReadIndex, RingInv
            <4> QED
                BY <2>1, <4>1, <4>2
        <3>2. ReadCheck => Contents' = Contents
            BY ContentsSame DEF ReadCheck, Oldest
        <3> QED
            BY <3>1, <3>2 DEF Queue!Clear
    <2>4. Queue!Look => Contents' = Contents
        BY DEF Queue!Look
    <2> QED
        BY <1>1, <1>2, <1>3, <1>5, <2>2, <2>3, <2>4 DEF Queue!Next, Queue!vars
<1> QED
    BY <1>4, <1>5

-------------------------------------------------------------------------------
(* The order of the bytes is kept: one lemma for the steps that leave the      *)
(* device alone, and one step per action.                                      *)
PipeInv == RingInv /\ PortInv /\ last \in Bytes \cup {NoByte} /\ OrderInv

LEMMA PipeTypes ==
    ASSUME PipeInv
    PROVE  /\ last \in Int /\ Contents \in Seq(Bytes) /\ storing \in Int /\ sent \in Nat
           /\ put_index \in Fifo /\ get_index \in Fifo /\ buffer \in [Fifo -> Bytes]
           /\ \A k \in 0 .. Held(put_index, get_index) - 1 : buffer[Cell(get_index, k)] \in Int
<1>1. Bytes \subseteq Int /\ NoByte \in Int
    BY RingAssumption DEF NoByte
<1>2. last \in Int /\ storing \in Int /\ Contents \in Seq(Bytes)
    BY <1>1, ContentsSeq DEF PipeInv, RingInv, RingTypeOK
<1>3. put_index \in Fifo /\ get_index \in Fifo /\ buffer \in [Fifo -> Bytes] /\ sent \in Nat
    BY SerialAssumption DEF PipeInv, PortInv
<1>4. /\ Held(put_index, get_index) \in 0 .. BufSz - 1
      /\ \A k \in 0 .. BufSz - 1 : buffer[Cell(get_index, k)] \in Nat
    BY <1>3, CellBytes
<1>5. \A k \in 0 .. Held(put_index, get_index) - 1 : k \in 0 .. BufSz - 1
    BY <1>4, SerialAssumption
<1> QED
    BY <1>2, <1>3, <1>4, <1>5

LEMMA RingSide ==
    ASSUME PipeInv, UNCHANGED portVars, polling' \in {polling, "idle"},
           \A s \in Int : Rises(last, Contents, storing, s) => Rises(last', Contents', storing', s)
    PROVE  OrderInv'
<1>1. UNCHANGED <<buffer, put_index, get_index, sent>>
    BY DEF portVars
<1>2. sent \in Int /\ \A k \in 0 .. Held(put_index, get_index) - 1 : buffer[Cell(get_index, k)] \in Int
    BY PipeTypes
<1>3. OrderInv
    BY DEF PipeInv
<1>4. Rises(last', Contents', storing', sent')
    BY <1>1, <1>2, <1>3 DEF OrderInv
<1>5. \A k \in 0 .. Held(put_index, get_index) - 1 : Rises(last', Contents', storing', buffer[Cell(get_index, k)])
    BY <1>2, <1>3 DEF OrderInv
<1>6. FifoRises(buffer, put_index, get_index, sent)
    BY <1>3 DEF OrderInv
<1>7. polling' = "read" => Held(put_index, get_index) > 0
    BY <1>3 DEF OrderInv
<1> QED
    BY <1>1, <1>4, <1>5, <1>6, <1>7 DEF OrderInv, Rises, FifoRises, Held, Cell

LEMMA SameContents ==
    ASSUME UNCHANGED ringVars
    PROVE  Contents' = Contents /\ storing' = storing
BY DEF ringVars, Contents, Oldest, At

LEMMA OrderInit == Init => OrderInv
<1> SUFFICES ASSUME Init
             PROVE  OrderInv
    OBVIOUS
<1>1. Contents = <<>> /\ storing = NoByte /\ last = -1 /\ sent = 0 /\ polling = "idle"
    BY DEF Init, RingInit, Contents, NoByte
<1>2. Held(put_index, get_index) = 0
    BY ZeroHeld DEF Init
<1>3. Rises(last, Contents, storing, sent)
    BY <1>1 DEF Rises
<1>4. 0 .. Held(put_index, get_index) - 1 = {}
    BY <1>2
<1> QED
    BY <1>1, <1>3, <1>4 DEF OrderInv, FifoRises

LEMMA OrderStep == PipeInv /\ RingInv' /\ [Next]_vars => OrderInv'
<1> SUFFICES ASSUME PipeInv, RingInv', [Next]_vars
             PROVE  OrderInv'
    OBVIOUS
<1>0. /\ last \in Int /\ Contents \in Seq(Bytes) /\ storing \in Int /\ sent \in Nat
      /\ put_index \in Fifo /\ get_index \in Fifo /\ buffer \in [Fifo -> Bytes]
      /\ \A k \in 0 .. Held(put_index, get_index) - 1 : buffer[Cell(get_index, k)] \in Int
    BY PipeTypes
<1>i. RingInv /\ OrderInv /\ PortInv
    BY DEF PipeInv
<1>1. CASE LineByte
    <2>1. /\ sent' = sent + 1 /\ sent \in Bytes /\ polling' = polling /\ last' = last
          /\ Contents' = Contents /\ storing' = storing
        BY <1>0, <1>1, SameContents, SerialAssumption DEF LineByte
    <2>2. Rises(last, Contents, storing, sent) /\ Rises(last, Contents, storing, sent + 1)
        BY <1>0, <1>i, RisesUp DEF OrderInv
    <2>3. CASE opened
        <3>1. Received
            BY <1>1, <2>3 DEF LineByte
        <3>2. /\ buffer' = Written(buffer, put_index, sent) /\ put_index' = Inc(put_index)
              /\ Inc(put_index) = get_index => get_index' = Inc(get_index)
              /\ Inc(put_index) # get_index => get_index' = get_index
            BY <3>1 DEF Received, Written
        <3>3. FifoRises(buffer, put_index, get_index, sent)
            BY <1>i DEF OrderInv
        <3>4. /\ FifoRises(buffer', put_index', get_index', sent + 1)
              /\ Held(put_index', get_index') > 0
              /\ \A k \in 0 .. Held(put_index', get_index') - 1 :
                   \/ buffer'[Cell(get_index', k)] = sent
                   \/ \E m \in 0 .. Held(put_index, get_index) - 1 :
                        buffer'[Cell(get_index', k)] = buffer[Cell(get_index, m)]
            <4>1. CASE Inc(put_index) # get_index
                BY <1>0, <2>1, <3>2, <3>3, <4>1, RoomRises
            <4>2. CASE Inc(put_index) = get_index
                BY <1>0, <2>1, <3>2, <3>3, <4>2, FullRises
            <4> QED
                BY <4>1, <4>2
        <3>5. \A k \in 0 .. Held(put_index', get_index') - 1 :
                Rises(last, Contents, storing, buffer'[Cell(get_index', k)])
            BY <1>i, <2>2, <3>4 DEF OrderInv
        <3> QED
            BY <2>1, <2>2, <3>4, <3>5 DEF OrderInv, FifoRises, Rises, Held, Cell
    <2>4. CASE ~opened
        <3>1. UNCHANGED <<buffer, put_index, get_index>>
            BY <1>1, <2>4 DEF LineByte
        <3>2. FifoRises(buffer, put_index, get_index, sent + 1)
            BY <1>0, <1>i DEF OrderInv, FifoRises
        <3> QED
            BY <1>i, <2>1, <2>2, <3>1, <3>2 DEF OrderInv, FifoRises, Rises, Held, Cell
    <2> QED
        BY <2>3, <2>4
<1>2. CASE Poll
    <2>1. UNCHANGED <<ringVars, portVars, last>> /\ hal_uart_available > 0
        BY <1>2 DEF Poll
    <2>2. Contents' = Contents /\ storing' = storing
        BY <2>1, SameContents
    <2>3. Held(put_index, get_index) > 0
        BY <2>1 DEF hal_uart_available, Held
    <2> QED
        BY <1>i, <2>1, <2>2, <2>3 DEF OrderInv, FifoRises, Rises, Held, Cell, portVars
<1>3. CASE ReadOne
    <2> DEFINE v == buffer[get_index]
    <2>1. /\ polling = "read" /\ polling' = "idle" /\ get_index' = Inc(get_index) /\ StoreChar(v)
          /\ UNCHANGED <<buffer, put_index, sent, last>>
        BY <1>3 DEF ReadOne
    <2>2. Held(put_index, get_index) > 0 /\ FifoRises(buffer, put_index, get_index, sent)
        BY <1>i, <2>1 DEF OrderInv
    <2>3. /\ FifoRises(buffer, put_index, Inc(get_index), sent)
          /\ v = buffer[Cell(get_index, 0)] /\ v \in Nat /\ v < sent
          /\ \A k \in 0 .. Held(put_index, Inc(get_index)) - 1 :
               buffer[Cell(Inc(get_index), k)] \in Nat /\ v < buffer[Cell(Inc(get_index), k)]
        BY <1>0, <2>2, FifoGives
    <2> HIDE DEF v
    <2>4. Contents' = Contents /\ storing = NoByte /\ storing' = v
        BY <1>i, <2>1, ContentsSame DEF StoreChar, Oldest, RingInv
    <2>5. 0 \in 0 .. Held(put_index, get_index) - 1
        BY <1>0, <2>2, FifoIs
    <2>6. Rises(last, Contents, NoByte, v)
        BY <1>i, <2>3, <2>4, <2>5 DEF OrderInv
    <2>7. /\ Rises(last, Contents, v, sent)
          /\ \A k \in 0 .. Held(put_index, Inc(get_index)) - 1 :
               Rises(last, Contents, v, buffer[Cell(Inc(get_index), k)])
        BY <1>0, <2>3, <2>6, RisesStores
    <2> QED
        BY <2>1, <2>3, <2>4, <2>7 DEF OrderInv, FifoRises, Rises, Held, Cell
<1>4. CASE Store
    <2>1. StoreStep /\ UNCHANGED portVars /\ last' = last /\ polling' = polling
        BY <1>4 DEF Store
    <2>2. ASSUME NEW s \in Int, Rises(last, Contents, storing, s)
          PROVE  Rises(last', Contents', storing', s)
        <3>1. CASE Contents' = Contents /\ storing' \in {storing, NoByte}
            BY <2>1, <2>2, <3>1 DEF Rises
        <3>2. CASE storing \in Bytes /\ Contents' = Append(Contents, storing) /\ storing' = NoByte
            BY <1>0, <2>1, <2>2, <3>2, RisesPuts
        <3> QED
            BY <1>i, <2>1, <3>1, <3>2, StoreMoves
    <2> QED
        BY <2>1, <2>2, RingSide
<1>5. CASE Loop
    <2>1. /\ ReadStep /\ UNCHANGED portVars /\ polling' = polling
          /\ last' = IF consumer = "count" THEN value ELSE last
        BY <1>5 DEF Loop
    <2>2. /\ storing' = storing
          /\ consumer = "count" => Contents # <<>> /\ value = Head(Contents) /\ Contents' = Tail(Contents)
          /\ consumer # "count" => Contents' = Contents
        BY <1>i, <2>1, ReadMoves
    <2>3. ASSUME NEW s \in Int, Rises(last, Contents, storing, s)
          PROVE  Rises(last', Contents', storing', s)
        <3>1. CASE consumer = "count"
            BY <1>0, <2>1, <2>2, <2>3, <3>1, RisesTakes
        <3>2. CASE consumer # "count"
            BY <2>1, <2>2, <2>3, <3>2
        <3> QED
            BY <3>1, <3>2
    <2> QED
        BY <2>1, <2>3, RingSide
<1>6. CASE LoopClear
    <2>1. UNCHANGED portVars /\ last' = last /\ polling' = polling /\ Contents' = <<>> /\ storing' = storing
        BY <1>6 DEF LoopClear, RingClear, Contents
    <2>2. ASSUME NEW s \in Int, Rises(last, Contents, storing, s)
          PROVE  Rises(last', Contents', storing', s)
        BY <2>1, <2>2 DEF Rises
    <2> QED
        BY <2>1, <2>2, RingSide
<1>7. CASE Begin \/ End
    <2>1. /\ put_index' = 0 /\ get_index' = 0 /\ polling' = "idle" /\ UNCHANGED <<ringVars, sent, last>>
        BY <1>7 DEF Begin, End, hal_uart_end, Quiet
    <2>2. Contents' = Contents /\ storing' = storing
        BY <2>1, SameContents
    <2>3. Held(put_index', get_index') = 0
        BY <2>1, ZeroHeld
    <2>4. 0 .. Held(put_index', get_index') - 1 = {}
        BY <2>3
    <2>5. Rises(last', Contents', storing', sent')
        BY <1>i, <2>1, <2>2 DEF OrderInv
    <2> QED
        BY <2>1, <2>4, <2>5 DEF OrderInv, FifoRises, Rises, Held, Cell
<1>8. CASE \E cb \in BOOLEAN : OnReceive(cb)
    <2>1. UNCHANGED <<ringVars, buffer, put_index, get_index, sent, last, polling>>
        BY <1>8 DEF OnReceive
    <2>2. Contents' = Contents /\ storing' = storing
        BY <2>1, SameContents
    <2> QED
        BY <1>i, <2>1, <2>2 DEF OrderInv, FifoRises, Rises, Held, Cell
<1>9. CASE UNCHANGED vars
    <2>1. UNCHANGED <<ringVars, buffer, put_index, get_index, sent, last, polling>>
        BY <1>9 DEF vars, portVars
    <2>2. Contents' = Contents /\ storing' = storing
        BY <2>1, SameContents
    <2> QED
        BY <1>i, <2>1, <2>2 DEF OrderInv, FifoRises, Rises, Held, Cell
<1> QED
    BY <1>1, <1>2, <1>3, <1>4, <1>5, <1>6, <1>7, <1>8, <1>9 DEF Next

-------------------------------------------------------------------------------
(* From the invariant to the pipeline as one sequence.                         *)
Up(s) == \A i, j \in 1 .. Len(s) : i < j => s[i] < s[j]
Below(s, x) == \A i \in 1 .. Len(s) : s[i] < x

LEMMA JoinUp ==
    ASSUME NEW a \in Seq(Int), NEW b \in Seq(Int), Up(a), Up(b),
           \A j \in 1 .. Len(b) : Below(a, b[j])
    PROVE  /\ a \o b \in Seq(Int) /\ Up(a \o b)
           /\ \A x \in Int : Below(a, x) /\ Below(b, x) => Below(a \o b, x)
<1> DEFINE c == a \o b
<1>1. /\ c \in Seq(Int) /\ Len(c) = Len(a) + Len(b) /\ Len(a) \in Nat /\ Len(b) \in Nat
      /\ \A i \in 1 .. Len(c) : c[i] = IF i <= Len(a) THEN a[i] ELSE b[i - Len(a)]
    BY ConcatProperties
<1> HIDE DEF c
<1>2. \A i \in 1 .. Len(c) : /\ i <= Len(a) => i \in 1 .. Len(a)
                             /\ ~ (i <= Len(a)) => i - Len(a) \in 1 .. Len(b)
    BY <1>1
<1>3. ASSUME NEW i \in 1 .. Len(c), NEW j \in 1 .. Len(c), i < j PROVE c[i] < c[j]
    <2>1. CASE j <= Len(a)
        <3>1. i <= Len(a)
            BY <1>1, <1>3, <2>1
        <3> QED
            BY <1>1, <1>2, <1>3, <2>1, <3>1 DEF Up
    <2>2. CASE ~ (j <= Len(a)) /\ i <= Len(a)
        BY <1>1, <1>2, <2>2 DEF Below
    <2>3. CASE ~ (i <= Len(a))
        <3>1. ~ (j <= Len(a)) /\ i - Len(a) < j - Len(a)
            BY <1>1, <1>3, <2>3
        <3> QED
            BY <1>1, <1>2, <2>3, <3>1 DEF Up
    <2> QED
        BY <2>1, <2>2, <2>3
<1>4. \A x \in Int : Below(a, x) /\ Below(b, x) => Below(c, x)
    BY <1>1, <1>2 DEF Below
<1>5. Up(c)
    BY <1>3 DEF Up
<1> QED
    BY <1>1, <1>4, <1>5 DEF c

LEMMA Singleton ==
    ASSUME NEW x \in Int
    PROVE  <<x>> \in Seq(Int) /\ Len(<<x>>) = 1 /\ <<x>>[1] = x /\ Up(<<x>>)
BY DEF Up

LEMMA UnreadIs ==
    ASSUME PipeInv
    PROVE  /\ Unread \in Seq(Int) /\ Len(Unread) = Held(put_index, get_index)
           /\ \A i \in 1 .. Len(Unread) : /\ i - 1 \in 0 .. Held(put_index, get_index) - 1
                                          /\ Unread[i] = buffer[Cell(get_index, i - 1)]
<1>1. /\ put_index \in Fifo /\ get_index \in Fifo
      /\ \A k \in 0 .. Held(put_index, get_index) - 1 : buffer[Cell(get_index, k)] \in Int
    BY PipeTypes
<1>2. Held(put_index, get_index) \in 0 .. BufSz - 1 /\ BufSz \in Nat /\ BufSz > 1
    BY <1>1, FifoIs, SerialAssumption
<1>3. hal_uart_available = Held(put_index, get_index)
    BY DEF hal_uart_available, Held
<1> DEFINE n == Held(put_index, get_index)
<1> HIDE DEF n
<1>4. ASSUME NEW i \in 1 .. n PROVE i - 1 \in 0 .. n - 1 /\ (get_index + i - 1) % BufSz = Cell(get_index, i - 1)
    <2>1. get_index \in 0 .. BufSz - 1 /\ n \in 0 .. BufSz - 1
        BY <1>1, <1>2 DEF Fifo, n
    <2>2. i - 1 \in 0 .. n - 1 /\ get_index + i - 1 \in 0 .. 2 * BufSz - 1 /\ get_index + i - 1 = get_index + (i - 1)
        BY <2>1, <1>2
    <2>3. \A x \in 0 .. 2 * BufSz - 1 : x % BufSz = IF x < BufSz THEN x ELSE x - BufSz
        BY <1>2
    <2>4. PICK x \in 0 .. 2 * BufSz - 1 : x = get_index + i - 1
        BY <2>2
    <2>5. Cell(get_index, i - 1) = IF x < BufSz THEN x ELSE x - BufSz
        <3>1. get_index + (i - 1) = x
            BY <2>1, <2>2, <2>4
        <3> QED
            BY <3>1, <2>1, <1>2 DEF Cell
    <2>6. x % BufSz = Cell(get_index, i - 1)
        BY <2>3, <2>5
    <2> QED
        BY <2>2, <2>4, <2>6
<1>5. Unread = [i \in 1 .. n |-> buffer[(get_index + i - 1) % BufSz]]
    BY <1>3 DEF Unread, n
<1>6. \A i \in 1 .. n : buffer[(get_index + i - 1) % BufSz] = buffer[Cell(get_index, i - 1)] /\ buffer[Cell(get_index, i - 1)] \in Int
    BY <1>1, <1>4 DEF n
<1>7. n \in Nat
    BY <1>2 DEF n
<1>8. Unread \in Seq(Int) /\ Len(Unread) = n
    BY <1>5, <1>6, <1>7
<1> QED
    BY <1>4, <1>5, <1>6, <1>8 DEF n

LEMMA PipeOrdered == PipeInv => \A i, j \in DOMAIN Pipeline : i < j => Pipeline[i] < Pipeline[j]
<1> SUFFICES ASSUME PipeInv
             PROVE  \A i, j \in DOMAIN Pipeline : i < j => Pipeline[i] < Pipeline[j]
    OBVIOUS
<1>0. /\ last \in Int /\ Contents \in Seq(Bytes) /\ storing \in Int
      /\ \A i \in 1 .. Len(Contents) : Contents[i] \in Int
    BY PipeTypes, BytesAreInts
<1>1. Rises(last, Contents, storing, sent) /\ OrderInv
    BY DEF PipeInv, OrderInv
<1>2. Contents \in Seq(Int)
    BY <1>0, RingAssumption, SeqMonotonic
<1>3. Up(Contents) /\ Up(<<last>>) /\ \A j \in 1 .. Len(Contents) : Below(<<last>>, Contents[j])
    BY <1>0, <1>1, Singleton DEF Rises, Up, Below
<1> DEFINE a == <<last>> \o Contents
<1>4. a \in Seq(Int) /\ Up(a) /\ \A x \in Int : Below(<<last>>, x) /\ Below(Contents, x) => Below(a, x)
    BY <1>0, <1>2, <1>3, JoinUp, Singleton
<1> HIDE DEF a
<1>5. \A x \in Int : last < x /\ (\A i \in 1 .. Len(Contents) : Contents[i] < x) => Below(a, x)
    <2> TAKE x \in Int
    <2> HAVE last < x /\ (\A i \in 1 .. Len(Contents) : Contents[i] < x)
    <2>1. Below(Contents, x)
        BY DEF Below
    <2>2. Below(<<last>>, x)
        BY <1>0, Singleton DEF Below
    <2> QED
        BY <1>4, <2>1, <2>2
<1>6. /\ Storing \in Seq(Int) /\ Up(Storing)
      /\ \A j \in 1 .. Len(Storing) : Below(a, Storing[j])
      /\ \A x \in Int : (storing # NoByte => storing < x) => Below(Storing, x)
    <2>1. CASE storing = NoByte
        <3>1. Storing = <<>>
            BY <2>1 DEF Storing
        <3> QED
            BY <3>1 DEF Up, Below
    <2>2. CASE storing # NoByte
        <3>1. Storing = <<storing>>
            BY <2>2 DEF Storing
        <3>2. Below(a, storing)
            BY <1>0, <1>1, <1>5, <2>2 DEF Rises
        <3>3. Storing \in Seq(Int) /\ Len(Storing) = 1 /\ Storing[1] = storing /\ Up(Storing)
            BY <1>0, <3>1, Singleton
        <3> QED
            BY <2>2, <3>2, <3>3 DEF Below
    <2> QED
        BY <2>1, <2>2
<1> DEFINE b == a \o Storing
<1>7. b \in Seq(Int) /\ Up(b) /\ \A x \in Int : Below(a, x) /\ Below(Storing, x) => Below(b, x)
    BY <1>4, <1>6, JoinUp
<1> HIDE DEF b
<1>8. \A x \in Int : Rises(last, Contents, storing, x) => Below(b, x)
    BY <1>5, <1>6, <1>7 DEF Rises
<1>9. /\ Unread \in Seq(Int) /\ Up(Unread)
      /\ \A j \in 1 .. Len(Unread) : Below(b, Unread[j])
    <2>1. /\ Unread \in Seq(Int) /\ Len(Unread) = Held(put_index, get_index)
          /\ \A i \in 1 .. Len(Unread) : /\ i - 1 \in 0 .. Held(put_index, get_index) - 1
                                         /\ Unread[i] = buffer[Cell(get_index, i - 1)]
        BY UnreadIs
    <2>2. \A i \in 1 .. Len(Unread) : Unread[i] \in Int
        BY <2>1
    <2>3. \A j \in 1 .. Len(Unread) : Below(b, Unread[j])
        BY <1>1, <1>8, <2>1, <2>2 DEF OrderInv
    <2>4. ASSUME NEW i \in 1 .. Len(Unread), NEW j \in 1 .. Len(Unread), i < j
          PROVE  Unread[i] < Unread[j]
        <3>1. i - 1 < j - 1
            BY <2>1, <2>4
        <3> QED
            BY <1>1, <2>1, <3>1 DEF OrderInv, FifoRises
    <2> QED
        BY <2>1, <2>3, <2>4 DEF Up
<1> DEFINE c == b \o Unread
<1>10. c \in Seq(Int) /\ Up(c)
    BY <1>7, <1>9, JoinUp
<1>11. Pipeline = c
    BY DEF Pipeline, a, b
<1> HIDE DEF c
<1> QED
    BY <1>10, <1>11 DEF Up

(* Bytes reach the loop in the order of the line and at most once: through a   *)
(* device FIFO that overwrites its oldest byte (rt_hw_serial_isr) and a ring   *)
(* buffer that drops its newest (store_char), across begin, end and clear.     *)
THEOREM BytesStayInOrder == Spec => []PipelineOrdered
<1>1. Spec => []RingInv
    BY PortUsesRing, RingInvariance, PTL
<1>2. Spec => []TypeOK
    BY PortTypeCorrect
<1>3. RingInv /\ PortInv /\ TypeOK /\ OrderInv => PipeInv
    BY DEF PipeInv, TypeOK
<1>4. RingInv /\ RingInv' /\ PortInv /\ TypeOK /\ OrderInv /\ [Next]_vars => OrderInv'
    BY <1>3, OrderStep
<1>5. Spec => []OrderInv
    BY <1>1, <1>2, <1>4, OrderInit, PortInvariance, PTL DEF Spec
<1>6. RingInv /\ PortInv /\ TypeOK /\ OrderInv => PipelineOrdered
    BY <1>3, PipeOrdered DEF PipelineOrdered
<1> QED
    BY <1>1, <1>2, <1>5, <1>6, PortInvariance, PTL

-------------------------------------------------------------------------------
(* Tone: a channel is a pin's, a ticker's or free, and the tone task is the    *)
(* only one that gives channels to pins.                                       *)

(* The task is between two messages or treats one, with a channel from Find.   *)
TaskInv ==
  /\ pc # "recv" => msg \in Messages
  /\ pc \in Treating => chn \in Chns

(* No pin and no placeholder has two channels; a placeholder in the table is   *)
(* held.  A channel a ticker lost to the tone task may leave a placeholder     *)
(* held for ever, so the converse is not true.                                 *)
TableInv ==
  /\ \A c, d \in Chns : map[c] = map[d] /\ map[c] # Unused => c = d
  /\ \A c, i \in Chns : map[c] = Token(i) => held[i]

(* What the task knows of its channel, whatever tickers do: no other one is    *)
(* the pin's, and it is no other pin's.                                        *)
ChannelInv ==
  pc \in Treating =>
    /\ \A c \in Chns : map[c] = msg.pin => c = chn
    /\ map[chn] \in Pins => map[chn] = msg.pin

(* A pin's channel is heard on this pin only, and sounds unless the task is    *)
(* busy with it or a ticker came across it.                                    *)
RouteInv ==
  \A c \in Chns : map[c] \in Pins =>
    /\ \A p \in Pins : route[p] = c <=> p = map[c]
    /\ c \notin contested /\ (pc \in {"recv", "find", "bind"} \/ c # chn) => ctl[c] = "pwm"

(* What a ticker knows in its critical section: the placeholder is its own,    *)
(* and unless the task came across the channel, the entry still is what the    *)
(* scan found or the store put there.                                          *)
JobInv ==
  job # None =>
    /\ pc \in Treating /\ chn = job.chn => chn \in contested
    /\ job.kind = "take" => \E i \in Chns : job.pin = Token(i) /\ ~ held[i]
    /\ job.kind = "start" => job.pin \in Tokens
    /\ job.kind = "release" /\ job.pin \in Tokens =>
         \A c \in Chns : map[c] = job.pin => c = job.chn
    /\ job.chn \notin contested =>
         /\ \A t \in Tickers : owner[t] # job.chn
         /\ map[job.chn] \notin Pins
         /\ map[job.chn] = IF job.kind = "take" THEN Unused ELSE job.pin

(* Channels that were never contested: the task's is its pin's, and a ticker's *)
(* is its own timer, nobody else's and not the one the task treats.            *)
TickerInv ==
  /\ pc \in Treating \ {"bind"} /\ chn \notin contested => map[chn] = msg.pin
  /\ \A t \in Tickers : owner[t] # NoChn /\ owner[t] \notin contested =>
       /\ map[owner[t]] \in Tokens
       /\ ctl[owner[t]] = "timer"
       /\ pc \in Treating => owner[t] # chn
       /\ \A u \in Tickers : owner[u] = owner[t] => u = t

ToneInv ==
  /\ ToneTypeOK
  /\ TaskInv
  /\ TableInv
  /\ ChannelInv
  /\ RouteInv
  /\ JobInv
  /\ TickerInv

(* A scan that meets something returns the first thing it meets.               *)
LEMMA ScanFirst ==
  ASSUME NEW S, S \subseteq Nat, S # {}
  PROVE  First(S) \in S
<1>1. \E x \in S : \A y \in S : ~ (y < x)
  <2>1. PICK x \in S : \A y \in S : ~ (<<y, x>> \in OpToRel(<, Nat))
    BY NatLessThanWellFounded, WFMin, Zenon
  <2>2. \A y \in S : y < x => <<y, x>> \in OpToRel(<, Nat)
    BY DEF OpToRel
  <2> QED BY <2>1, <2>2, Zenon
<1>2. \E x \in S : \A y \in S : x <= y
  BY <1>1
<1> QED BY <1>2 DEF First

(* Channels are naturals; pins, placeholders and Unused are told apart.        *)
LEMMA TableFacts ==
  /\ Chns \subseteq Nat
  /\ NoChn \notin Chns
  /\ Unused \notin Tokens /\ Unused \notin Pins
  /\ \A p \in Pins : p \notin Tokens
  /\ \A i \in Chns : Token(i) \in Tokens
  /\ \A i, j \in Chns : Token(i) = Token(j) => i = j
<1>1. Pins \subseteq Nat \ Tokens
  BY ToneAssumption
<1>2. \A p \in Pins : p \notin Tokens /\ p # Unused
  BY <1>1 DEF Unused
<1>3. Unused \notin Tokens
  BY NumDevAssumption, FirstTokenAssumption DEF Chns, NumChn, Unused, Tokens, Token
<1> QED BY <1>2, <1>3, NumDevAssumption, FirstTokenAssumption
        DEF Chns, NumChn, NoChn, Tokens, Token

(* The scan finds a channel of the pin or, when there is none, a free one.     *)
LEMMA ScanFinds ==
  ASSUME NEW pin, get_free_timer_chn(map, pin) # NoChn
  PROVE  LET c == get_free_timer_chn(map, pin)
         IN  /\ c \in Chns
             /\ \/ map[c] = pin
                \/ map[c] = Unused /\ \A d \in Chns : map[d] # pin
<1> DEFINE mine == {c \in Chns : map[c] = pin}
           free == {c \in Chns : map[c] = Unused}
<1>0. mine \subseteq Nat /\ free \subseteq Nat
  BY TableFacts
<1>1. CASE mine # {}
  <2>1. get_free_timer_chn(map, pin) = First(mine)
    BY <1>1 DEF get_free_timer_chn
  <2> QED BY <2>1, <1>0, <1>1, ScanFirst
<1>2. CASE mine = {}
  <2>1. free # {} /\ get_free_timer_chn(map, pin) = First(free)
    BY <1>2 DEF get_free_timer_chn
  <2> QED BY <2>1, <1>0, <1>2, ScanFirst
<1> QED BY <1>1, <1>2

LEMMA ToneInitInv == ToneInit => ToneInv
<1> SUFFICES ASSUME ToneInit PROVE ToneInv
  OBVIOUS
<1>a. queue \in Seq(Messages) /\ Len(queue) = 0
  BY DEF ToneInit
<1>b. calls \in 0 .. MaxCalls /\ 0 <= QueueLen
  BY ToneAssumption DEF ToneInit
<1>1. ToneTypeOK
  BY <1>a, <1>b DEF ToneInit, ToneTypeOK
<1>2. TableInv
  BY TableFacts DEF ToneInit, TableInv
<1>3. pc = "recv" /\ pc \notin Treating /\ job = None
  BY DEF ToneInit, Treating
<1>4. \A c \in Chns : map[c] \notin Pins
  BY TableFacts DEF ToneInit
<1>5. \A t \in Tickers : owner[t] = NoChn
  BY DEF ToneInit
<1> QED BY <1>1, <1>2, <1>3, <1>4, <1>5
        DEF ToneInv, TaskInv, ChannelInv, RouteInv, JobInv, TickerInv

(* What a call posts is kept or dropped; the task does not see it yet.         *)
LEMMA QueueKeeps ==
  ASSUME ToneTypeOK, NEW m \in Messages
  PROVE  /\ rt_mq_send(queue, m) \in Seq(Messages)
         /\ Len(rt_mq_send(queue, m)) <= QueueLen
<1>1. CASE Len(queue) < QueueLen
  BY <1>1, ToneAssumption DEF ToneTypeOK, rt_mq_send
<1>2. CASE ~ Len(queue) < QueueLen
  BY <1>2 DEF ToneTypeOK, rt_mq_send
<1> QED BY <1>1, <1>2

LEMMA PostInv ==
  ASSUME ToneInv, NEW p \in Pins,
         noTone(p) \/ \E timed, high \in BOOLEAN : tone(p, timed, high)
  PROVE  ToneInv'
<1>1. UNCHANGED <<map, held, owner, ctl, route, job, pc, msg, chn, contested>>
  BY DEF noTone, tone, table, user
<1>2. PICK m \in Messages : queue' = rt_mq_send(queue, m)
  BY DEF noTone, tone, Messages
<1>3. queue' \in Seq(Messages) /\ Len(queue') <= QueueLen
  BY <1>2, QueueKeeps DEF ToneInv
<1>4. calls' \in 0 .. MaxCalls
  <2>1. calls < MaxCalls /\ calls' = calls + 1
    BY DEF noTone, tone
  <2>2. MaxCalls \in Nat /\ calls \in 0 .. MaxCalls
    BY ToneAssumption DEF ToneInv, ToneTypeOK
  <2> QED BY <2>1, <2>2
<1>5. wanted' \in [Pins -> {"sound", "silence"}]
  <2>1. wanted \in [Pins -> {"sound", "silence"}]
    BY DEF ToneInv, ToneTypeOK
  <2>2. PICK w \in {"sound", "silence"} :
          wanted' = IF queue' = queue THEN wanted ELSE [wanted EXCEPT ![p] = w]
    BY DEF noTone, tone
  <2> QED BY <2>1, <2>2
<1>6. ToneTypeOK'
  BY <1>1, <1>3, <1>4, <1>5 DEF ToneInv, ToneTypeOK
<1> QED BY <1>1, <1>6 DEF ToneInv, TaskInv, TableInv, ChannelInv, RouteInv, JobInv, TickerInv

LEMMA ReceiveInv ==
  ASSUME ToneInv, Receive
  PROVE  ToneInv'
<1>1. queue \in Seq(Messages) /\ queue # <<>> /\ Len(queue) <= QueueLen
  BY DEF ToneInv, ToneTypeOK, Receive
<1>2. msg' \in Messages /\ queue' \in Seq(Messages) /\ Len(queue') <= QueueLen
  BY <1>1, ToneAssumption DEF Receive
<1>3. ToneTypeOK'
  BY <1>2 DEF ToneInv, ToneTypeOK, Receive, table, user
<1> QED BY <1>2, <1>3 DEF ToneInv, TaskInv, TableInv, ChannelInv, RouteInv, JobInv, TickerInv,
                          Receive, table, user, Treating

LEMMA FindInv ==
  ASSUME ToneInv, Find
  PROVE  ToneInv'
<1>0. /\ UNCHANGED <<map, held, owner, ctl, route, queue, job, msg, calls, wanted>>
      /\ pc = "find" /\ msg \in Messages /\ msg.pin \in Pins
      /\ contested' = contested \cup {c \in {chn'} : job # None /\ c = job.chn}
      /\ contested \subseteq contested' /\ contested \subseteq Chns
      /\ job # None => job \in Jobs
  BY DEF Find, table, user, ToneInv, ToneTypeOK, TaskInv, Messages
<1>1. CASE chn' = NoChn
  <2>1. pc' = "recv" /\ contested' = contested
    <3>1. job # None => job.chn \in Chns
      BY <1>0 DEF Jobs
    <3> QED BY <1>0, <1>1, <3>1, TableFacts DEF Find
  <2> QED BY <1>0, <1>1, <2>1 DEF ToneInv, ToneTypeOK, TaskInv, TableInv, ChannelInv, RouteInv,
                                  JobInv, TickerInv, Treating
<1>2. CASE chn' # NoChn
  <2>1. /\ chn' \in Chns /\ pc' = "bind"
        /\ \/ map[chn'] = msg.pin
           \/ map[chn'] = Unused /\ \A d \in Chns : map[d] # msg.pin
    BY <1>2, ScanFinds DEF Find
  <2>a. contested' \subseteq Chns
    BY <1>0, <2>1
  <2>2. ToneTypeOK' /\ TaskInv' /\ TableInv'
    BY <1>0, <2>1, <2>a DEF ToneInv, ToneTypeOK, TaskInv, TableInv, Treating
  <2>3. ChannelInv'
    BY <1>0, <2>1, TableFacts DEF ToneInv, TableInv, ChannelInv
  <2>4. RouteInv'
    BY <1>0, <2>1 DEF ToneInv, RouteInv
  <2>5. JobInv'
    BY <1>0, <2>1 DEF ToneInv, JobInv
  <2>6. TickerInv'
    BY <1>0, <2>1, TableFacts DEF ToneInv, TickerInv
  <2> QED BY <2>2, <2>3, <2>4, <2>5, <2>6 DEF ToneInv
<1> QED BY <1>1, <1>2

LEMMA BindInv ==
  ASSUME ToneInv, Bind
  PROVE  ToneInv'
<1>0. /\ UNCHANGED <<held, owner, ctl, queue, job, msg, chn, calls, wanted, contested>>
      /\ pc = "bind" /\ msg \in Messages /\ msg.pin \in Pins /\ chn \in Chns
      /\ map \in [Chns -> Tokens \cup Pins \cup {Unused}]
      /\ map' = [map EXCEPT ![chn] = msg.pin]
      /\ pc' \in {"stop", "play"}
      /\ job # None => job.chn \in Chns
  BY DEF Bind, user, ToneInv, ToneTypeOK, TaskInv, Messages, Treating, Jobs
<1>1. /\ route' \in [Pins -> Chns \cup {NoChn}]
      /\ \A p \in Pins : route'[p] = chn <=> p = msg.pin
      /\ \A p \in Pins, c \in Chns : c # chn =>
           (route'[p] = c <=> route[p] = c /\ p # msg.pin)
  BY <1>0, TableFacts DEF Bind, fpioa_set_function, ToneInv, ToneTypeOK
<1>2. /\ map' \in [Chns -> Tokens \cup Pins \cup {Unused}]
      /\ map'[chn] = msg.pin
      /\ \A c \in Chns : c # chn => map'[c] = map[c] /\ map'[c] # msg.pin
  BY <1>0 DEF ToneInv, ChannelInv, Treating
<1>3. ToneTypeOK' /\ TaskInv'
  BY <1>0, <1>1, <1>2 DEF ToneInv, ToneTypeOK, TaskInv, Treating
<1>4. TableInv'
  BY <1>0, <1>2, TableFacts DEF ToneInv, TableInv
<1>5. ChannelInv'
  BY <1>0, <1>2 DEF ChannelInv
<1>6. RouteInv'
  <2> SUFFICES ASSUME NEW c \in Chns, map'[c] \in Pins
               PROVE  /\ \A p \in Pins : route'[p] = c <=> p = map'[c]
                      /\ c # chn /\ c \notin contested => ctl[c] = "pwm"
    BY <1>0 DEF RouteInv
  <2>1. CASE c = chn
    BY <2>1, <1>1, <1>2
  <2>2. CASE c # chn
    BY <2>2, <1>0, <1>1, <1>2 DEF ToneInv, RouteInv
  <2> QED BY <2>1, <2>2
<1>7. JobInv'
  <2> SUFFICES ASSUME job # None PROVE JobInv'
    BY <1>0 DEF JobInv
  <2>1. job.chn \notin contested => job.chn # chn /\ map'[job.chn] = map[job.chn]
    BY <1>0, <1>2 DEF ToneInv, JobInv, Treating
  <2>2. chn = job.chn => chn \in contested
    BY <1>0 DEF ToneInv, JobInv, Treating
  <2>3. job.pin \in Tokens => \A c \in Chns : map'[c] = job.pin => map[c] = job.pin
    BY <1>0, <1>2, TableFacts
  <2> QED BY <1>0, <2>1, <2>2, <2>3 DEF ToneInv, JobInv
<1>8. TickerInv'
  <2>1. \A t \in Tickers : owner[t] # NoChn /\ owner[t] \notin contested =>
          owner[t] \in Chns /\ owner[t] # chn
    BY <1>0 DEF ToneInv, ToneTypeOK, TickerInv, Treating
  <2> QED BY <1>0, <1>2, <2>1 DEF ToneInv, TickerInv
<1> QED BY <1>3, <1>4, <1>5, <1>6, <1>7, <1>8 DEF ToneInv

(* A step that only sets the control register of the task's channel.           *)
LEMMA DriveInv ==
  ASSUME ToneInv, chn \in Chns, pc \in {"play", "stop"}, NEW v \in {"off", "pwm"},
         UNCHANGED <<map, held, owner, route, queue, job, msg, chn, calls, wanted, contested>>,
         \/ ctl' = [ctl EXCEPT ![chn] = v] /\ pc' = IF v = "off" THEN "clear" ELSE pc'
         \/ ctl' = ctl /\ pc' = "stuck",
         pc' \in {"stop", "clear", "stuck"} \/ (pc' = "recv" /\ v = "pwm")
  PROVE  ToneInv'
<1>1. /\ ctl' \in [Chns -> {"off", "timer", "pwm"}]
      /\ \A c \in Chns : c # chn => ctl'[c] = ctl[c]
      /\ pc' = "recv" => ctl'[chn] = "pwm"
  BY DEF ToneInv, ToneTypeOK
<1>2. pc \in Treating \ {"bind"} /\ pc' \in {"recv"} \cup (Treating \ {"bind"})
  BY DEF Treating
<1>3. ToneTypeOK' /\ TaskInv' /\ TableInv' /\ ChannelInv' /\ RouteInv' /\ JobInv'
  BY <1>1, <1>2 DEF ToneInv, ToneTypeOK, TaskInv, TableInv, ChannelInv, RouteInv, JobInv, Treating
<1>4. TickerInv'
  <2>1. \A t \in Tickers : owner[t] # NoChn /\ owner[t] \notin contested =>
          owner[t] \in Chns /\ owner[t] # chn
    BY <1>2 DEF ToneInv, ToneTypeOK, TickerInv
  <2> QED BY <1>1, <1>2, <2>1 DEF ToneInv, TickerInv, Treating
<1> QED BY <1>3, <1>4 DEF ToneInv

LEMMA PlayInv ==
  ASSUME ToneInv, Play
  PROVE  ToneInv'
<1>1. /\ UNCHANGED <<map, held, owner, route, queue, job, msg, chn, calls, wanted, contested>>
      /\ pc = "play" /\ chn \in Chns
      /\ \/ ctl' = [ctl EXCEPT ![chn] = "pwm"] /\ pc' \in {"stop", "recv"}
         \/ ctl' = ctl /\ pc' = "stuck"
  BY DEF Play, table, user, ToneInv, TaskInv, Treating
<1> QED BY <1>1, DriveInv

LEMMA StopInv ==
  ASSUME ToneInv, Stop
  PROVE  ToneInv'
<1>1. /\ UNCHANGED <<map, held, owner, route, queue, job, msg, chn, calls, wanted, contested>>
      /\ pc = "stop" /\ chn \in Chns
      /\ ctl' = [ctl EXCEPT ![chn] = "off"] /\ pc' = "clear"
  BY DEF Stop, table, user, ToneInv, TaskInv, Treating
<1> QED BY <1>1, DriveInv

LEMMA ClearInv ==
  ASSUME ToneInv, Clear
  PROVE  ToneInv'
<1>0. /\ UNCHANGED <<held, owner, ctl, route, queue, job, msg, chn, calls, wanted, contested>>
      /\ pc = "clear" /\ msg.pin \in Pins /\ chn \in Chns
      /\ pc' = "recv"
      /\ job # None => job.chn \in Chns
  BY DEF Clear, user, ToneInv, ToneTypeOK, TaskInv, Messages, Treating, Jobs
<1>1. /\ map' \in [Chns -> Tokens \cup Pins \cup {Unused}]
      /\ \A c \in Chns : map[c] = msg.pin => map'[c] = Unused
      /\ \A c \in Chns : map[c] # msg.pin => map'[c] = map[c]
  BY DEF Clear, ToneInv, ToneTypeOK
<1>2. ToneTypeOK' /\ TaskInv' /\ ChannelInv'
  BY <1>0, <1>1 DEF ToneInv, ToneTypeOK, TaskInv, ChannelInv, Treating
<1>a. \A c \in Chns : map'[c] # Unused => map'[c] = map[c]
  BY <1>1
<1>3. TableInv'
  <2>1. \A c, d \in Chns : map'[c] = map'[d] /\ map'[c] # Unused => c = d
    BY <1>a DEF ToneInv, TableInv
  <2>2. \A c, i \in Chns : map'[c] = Token(i) => held'[i]
    BY <1>0, <1>a, TableFacts DEF ToneInv, TableInv
  <2> QED BY <2>1, <2>2 DEF TableInv
<1>4. RouteInv'
  <2> SUFFICES ASSUME NEW c \in Chns, map'[c] \in Pins
               PROVE  /\ \A p \in Pins : route[p] = c <=> p = map'[c]
                      /\ c \notin contested => ctl[c] = "pwm"
    BY <1>0 DEF RouteInv
  <2>1. map[c] # msg.pin /\ map'[c] = map[c]
    BY <1>1, TableFacts
  <2>2. c # chn
    BY <1>0, <2>1 DEF ToneInv, ChannelInv, Treating
  <2> QED BY <2>1, <2>2 DEF ToneInv, RouteInv
<1>5. JobInv'
  <2> SUFFICES ASSUME job # None PROVE JobInv'
    BY <1>0 DEF JobInv
  <2>1. job.chn \notin contested => map'[job.chn] = map[job.chn]
    BY <1>0, <1>1 DEF ToneInv, JobInv
  <2>2. job.pin \in Tokens => \A c \in Chns : map'[c] = job.pin => map[c] = job.pin
    BY <1>1, TableFacts
  <2> QED BY <1>0, <2>1, <2>2 DEF ToneInv, JobInv, Treating
<1>6. TickerInv'
  <2>1. \A t \in Tickers : owner[t] # NoChn /\ owner[t] \notin contested =>
          owner[t] \in Chns /\ map'[owner[t]] = map[owner[t]]
    <3>1. \A t \in Tickers : owner[t] # NoChn => owner[t] \in Chns
      BY DEF ToneInv, ToneTypeOK
    <3>2. \A t \in Tickers : owner[t] # NoChn /\ owner[t] \notin contested =>
            map[owner[t]] # msg.pin
      BY <1>0, TableFacts DEF ToneInv, TickerInv
    <3> QED BY <1>1, <3>1, <3>2
  <2> QED BY <1>0, <1>1, <2>1 DEF ToneInv, TickerInv, Treating
<1> QED BY <1>2, <1>3, <1>4, <1>5, <1>6 DEF ToneInv

(* A ticker gets a free channel under a placeholder that is not held.          *)
LEMMA AttachGets ==
  ASSUME ToneTypeOK, TableInv, GetsChannel(map, held)
  PROVE  /\ GotChannel(map, held) \in Chns
         /\ map[GotChannel(map, held)] = Unused
         /\ First(FreeTokens(held)) \in Chns
         /\ ~ held[First(FreeTokens(held))]
<1> DEFINE i == First(FreeTokens(held))
<1>1. FreeTokens(held) \subseteq Nat /\ FreeTokens(held) # {}
  BY TableFacts DEF FreeTokens, GetsChannel
<1>2. i \in Chns /\ ~ held[i]
  BY <1>1, ScanFirst DEF FreeTokens
<1>3. \A c \in Chns : map[c] # Token(i)
  BY <1>2 DEF TableInv
<1>4. get_free_timer_chn(map, Token(i)) # NoChn
  BY DEF GetsChannel
<1> HIDE DEF i
<1>5. LET c == get_free_timer_chn(map, Token(i))
      IN  c \in Chns /\ (map[c] = Token(i) \/ map[c] = Unused)
  BY <1>4, ScanFinds
<1>6. GotChannel(map, held) = get_free_timer_chn(map, Token(i))
  BY DEF GotChannel, i
<1> QED BY <1>2, <1>3, <1>5, <1>6 DEF i

LEMMA AttachInv ==
  ASSUME ToneInv, NEW t \in Tickers, Attach(t)
  PROVE  ToneInv'
<1>1. PICK c \in Chns : c = GotChannel(map, held) /\ map[c] = Unused
  BY AttachGets DEF Attach, ToneInv
<1>2. PICK i \in Chns : i = First(FreeTokens(held)) /\ ~ held[i]
  BY AttachGets DEF Attach, ToneInv
<1>3. /\ job' = [kind |-> "take", ticker |-> t, chn |-> c, pin |-> Token(i)]
      /\ contested' = contested \cup {d \in {c} : pc \in Treating /\ chn = d}
      /\ UNCHANGED <<map, held, owner, ctl, route, queue, pc, msg, chn, calls, wanted>>
  BY <1>1, <1>2 DEF Attach, Meets, table
<1>4. job' \in Jobs
  BY <1>3, TableFacts DEF Jobs
<1>5. contested \subseteq contested' /\ contested' \subseteq Chns
  BY <1>3 DEF ToneInv, ToneTypeOK
<1>6. ToneTypeOK' /\ TaskInv' /\ TableInv' /\ ChannelInv' /\ RouteInv' /\ TickerInv'
  BY <1>3, <1>4, <1>5 DEF ToneInv, ToneTypeOK, TaskInv, TableInv, ChannelInv, RouteInv, TickerInv
<1>7. JobInv'
  <2>1. pc \in Treating /\ chn = c => chn \in contested'
    BY <1>3
  <2>2. c \notin contested' => \A u \in Tickers : owner[u] # c
    BY <1>1, <1>5, TableFacts DEF ToneInv, TickerInv
  <2>3. job'.kind = "take" /\ job'.chn = c /\ job'.pin = Token(i)
    BY <1>3
  <2> QED BY <1>1, <1>2, <1>3, <2>1, <2>2, <2>3, TableFacts DEF JobInv
<1> QED BY <1>6, <1>7 DEF ToneInv

(* The placeholder of a ticker in its critical section is in no entry but the  *)
(* one it works on, so that the store keeps the table without doubles.         *)
LEMMA TakeInv ==
  ASSUME ToneInv, Take
  PROVE  ToneInv'
<1>1. /\ job # None /\ job \in Jobs /\ job.chn \in Chns /\ job.kind = "take"
      /\ UNCHANGED <<owner, ctl, route, queue, pc, msg, chn, calls, wanted, contested>>
  BY DEF Take, ToneInv, ToneTypeOK, Jobs
<1>2. PICK i \in Chns : job.pin = Token(i) /\ ~ held[i]
  BY <1>1 DEF ToneInv, JobInv
<1>3. PICK c \in Chns : c = job.chn
  BY <1>1
<1>4. /\ map' \in [Chns -> Tokens \cup Pins \cup {Unused}]
      /\ map'[c] = Token(i) /\ \A d \in Chns : d # c => map'[d] = map[d]
  BY <1>1, <1>2, <1>3, TableFacts DEF Take, ToneInv, ToneTypeOK
<1>5. /\ held' \in [Chns -> BOOLEAN]
      /\ \A j \in Chns : held'[j] <=> held[j] \/ j = i
  BY <1>2, TableFacts DEF Take, ToneInv, ToneTypeOK
<1>6. /\ job' \in Jobs /\ job'.kind = "start" /\ job'.chn = c /\ job'.pin = Token(i)
  BY <1>1, <1>2, <1>3 DEF Take, Jobs
<1>7. ToneTypeOK' /\ TaskInv'
  BY <1>1, <1>4, <1>5, <1>6 DEF ToneInv, ToneTypeOK, TaskInv
<1>8. \A d \in Chns : map[d] # Token(i)
  BY <1>2 DEF ToneInv, TableInv
<1>9. TableInv'
  <2>1. \A d, e \in Chns : map'[d] = map'[e] /\ map'[d] # Unused => d = e
    BY <1>4, <1>8 DEF ToneInv, TableInv
  <2>2. \A d, j \in Chns : map'[d] = Token(j) => held'[j]
    BY <1>4, <1>5, TableFacts DEF ToneInv, TableInv
  <2> QED BY <2>1, <2>2 DEF TableInv
<1>10. map'[c] \notin Pins
  BY <1>4, TableFacts
<1>11. ChannelInv'
  <2> SUFFICES ASSUME pc \in Treating
               PROVE  /\ \A d \in Chns : map'[d] = msg.pin => d = chn
                      /\ map'[chn] \in Pins => map'[chn] = msg.pin
    BY <1>1 DEF ChannelInv
  <2>1. msg.pin \in Pins /\ chn \in Chns
    BY DEF ToneInv, TaskInv, Treating, Messages
  <2> QED BY <2>1, <1>4, <1>10 DEF ToneInv, ChannelInv
<1>12. RouteInv'
  BY <1>1, <1>4, <1>10 DEF ToneInv, RouteInv
<1>13. c \notin contested =>
         /\ \A u \in Tickers : owner[u] # c
         /\ pc \in Treating => chn # c
  BY <1>1, <1>3 DEF ToneInv, JobInv
<1>14. JobInv'
  BY <1>1, <1>3, <1>4, <1>6, <1>10, <1>13, TableFacts DEF ToneInv, JobInv
<1>15. TickerInv'
  <2>1. pc \in Treating => chn \in Chns
    BY DEF ToneInv, TaskInv
  <2>2. \A u \in Tickers : owner[u] # NoChn => owner[u] \in Chns
    BY DEF ToneInv, ToneTypeOK
  <2> QED BY <1>1, <1>4, <1>13, <2>1, <2>2 DEF ToneInv, TickerInv
<1> QED BY <1>7, <1>9, <1>11, <1>12, <1>14, <1>15 DEF ToneInv

LEMMA StartInv ==
  ASSUME ToneInv, Start
  PROVE  ToneInv'
<1>1. /\ job # None /\ job \in Jobs /\ job.chn \in Chns /\ job.ticker \in Tickers
      /\ job.kind = "start" /\ job.pin \in Tokens /\ job' = None
      /\ UNCHANGED <<map, held, route, queue, pc, msg, chn, calls, wanted, contested>>
  BY DEF Start, table, ToneInv, ToneTypeOK, JobInv, Jobs
<1>2. PICK c \in Chns : c = job.chn
  BY <1>1
<1>3. PICK t \in Tickers : t = job.ticker
  BY <1>1
<1>4. /\ owner' \in [Tickers -> Chns \cup {NoChn}]
      /\ owner'[t] = c /\ \A u \in Tickers : u # t => owner'[u] = owner[u]
  BY <1>2, <1>3 DEF Start, ToneInv, ToneTypeOK
<1>5. /\ ctl' \in [Chns -> {"off", "timer", "pwm"}]
      /\ ctl'[c] = "timer" /\ \A d \in Chns : d # c => ctl'[d] = ctl[d]
  BY <1>2 DEF Start, ToneInv, ToneTypeOK
<1>6. c \notin contested =>
        /\ \A u \in Tickers : owner[u] # c
        /\ map[c] \in Tokens /\ map[c] \notin Pins
        /\ pc \in Treating => chn # c
  BY <1>1, <1>2 DEF ToneInv, JobInv
<1>7. ToneTypeOK' /\ TaskInv' /\ TableInv' /\ ChannelInv' /\ JobInv'
  BY <1>1, <1>4, <1>5 DEF ToneInv, ToneTypeOK, TaskInv, TableInv, ChannelInv, JobInv
<1>8. RouteInv'
  BY <1>1, <1>5, <1>6 DEF ToneInv, RouteInv
<1>9. TickerInv'
  <2> SUFFICES ASSUME NEW u \in Tickers, owner'[u] # NoChn, owner'[u] \notin contested
               PROVE  /\ map[owner'[u]] \in Tokens
                      /\ ctl'[owner'[u]] = "timer"
                      /\ pc \in Treating => owner'[u] # chn
                      /\ \A v \in Tickers : owner'[v] = owner'[u] => v = u
    BY <1>1 DEF ToneInv, TickerInv
  <2>1. CASE u = t
    BY <2>1, <1>4, <1>5, <1>6
  <2>2. CASE u # t
    <3>1. owner'[u] = owner[u] /\ owner[u] \in Chns /\ owner[u] # c
      BY <2>2, <1>4, <1>6 DEF ToneInv, ToneTypeOK
    <3> QED BY <2>2, <3>1, <1>4, <1>5 DEF ToneInv, TickerInv
  <2> QED BY <2>1, <2>2
<1> QED BY <1>7, <1>8, <1>9 DEF ToneInv

LEMMA DetachInv ==
  ASSUME ToneInv, NEW t \in Tickers, Detach(t)
  PROVE  ToneInv'
<1>1. PICK c \in Chns : c = owner[t]
  BY DEF Detach, ToneInv, ToneTypeOK
<1>2. First({d \in Chns : map[d] = map[c]}) \in {d \in Chns : map[d] = map[c]}
  <2>1. {d \in Chns : map[d] = map[c]} \subseteq Nat /\ {d \in Chns : map[d] = map[c]} # {}
    BY TableFacts
  <2> QED BY <2>1, ScanFirst
<1>3. PICK f \in Chns : f = First({d \in Chns : map[d] = map[c]}) /\ map[f] = map[c]
  BY <1>2
<1>4. map[c] # Unused => f = c
  BY <1>3 DEF ToneInv, TableInv
<1>5. /\ job' = [kind |-> "release", ticker |-> t, pin |-> map[c], chn |-> f]
      /\ contested' = contested \cup {d \in {f} : pc \in Treating /\ chn = d}
      /\ UNCHANGED <<map, held, route, queue, pc, msg, chn, calls, wanted>>
  BY <1>1, <1>3 DEF Detach, Meets, table
<1>6. /\ job' \in Jobs /\ job'.kind = "release" /\ job'.pin = map[c] /\ job'.chn = f
      /\ map[c] \in Tokens \cup Pins \cup {Unused}
  BY <1>5 DEF Jobs, ToneInv, ToneTypeOK
<1>7. contested \subseteq contested' /\ contested' \subseteq Chns
  BY <1>5 DEF ToneInv, ToneTypeOK
<1>8. /\ owner' \in [Tickers -> Chns \cup {NoChn}]
      /\ owner'[t] = NoChn /\ \A u \in Tickers : u # t => owner'[u] = owner[u]
  BY DEF Detach, ToneInv, ToneTypeOK
<1>9. /\ ctl' \in [Chns -> {"off", "timer", "pwm"}]
      /\ \A d \in Chns : d # c => ctl'[d] = ctl[d]
  BY <1>1 DEF Detach, ToneInv, ToneTypeOK
<1>10. ToneTypeOK' /\ TaskInv' /\ TableInv' /\ ChannelInv'
  BY <1>5, <1>6, <1>7, <1>8, <1>9 DEF ToneInv, ToneTypeOK, TaskInv, TableInv, ChannelInv
<1>11. c \notin contested =>
         map[c] \in Tokens /\ \A u \in Tickers : owner[u] = c => u = t
  BY <1>1, TableFacts DEF ToneInv, TickerInv
<1>12. RouteInv'
  BY <1>5, <1>7, <1>9, <1>11, TableFacts DEF ToneInv, RouteInv
<1>13. f \notin contested =>
         map[f] \notin Pins /\ \A u \in Tickers : owner'[u] # f
  <2> SUFFICES ASSUME f \notin contested
               PROVE  map[f] \notin Pins /\ \A u \in Tickers : owner'[u] # f
    OBVIOUS
  <2>1. CASE f = c
    BY <2>1, <1>8, <1>11, TableFacts
  <2>2. CASE f # c
    <3>1. map[f] = Unused
      BY <2>2, <1>3, <1>4
    <3>2. \A u \in Tickers : owner[u] # f
      BY <3>1, TableFacts DEF ToneInv, TickerInv
    <3> QED BY <3>1, <3>2, <1>8, TableFacts
  <2> QED BY <2>1, <2>2
<1>14. JobInv'
  <2>1. pc \in Treating /\ chn = f => chn \in contested'
    BY <1>5
  <2>2. map[c] \in Tokens => \A d \in Chns : map[d] = map[c] => d = f
    BY <1>4, TableFacts DEF ToneInv, TableInv
  <2> QED BY <1>3, <1>5, <1>6, <1>7, <1>13, <2>1, <2>2 DEF JobInv
<1>15. TickerInv'
  <2>1. pc \in Treating \ {"bind"} /\ chn \notin contested' => map[chn] = msg.pin
    BY <1>7 DEF ToneInv, TickerInv
  <2> SUFFICES ASSUME NEW u \in Tickers, owner'[u] # NoChn, owner'[u] \notin contested'
               PROVE  /\ map[owner'[u]] \in Tokens
                      /\ ctl'[owner'[u]] = "timer"
                      /\ pc \in Treating => owner'[u] # chn
                      /\ \A v \in Tickers : owner'[v] = owner'[u] => v = u
    BY <1>5, <2>1 DEF TickerInv
  <2>2. u # t /\ owner'[u] = owner[u] /\ owner[u] \in Chns /\ owner[u] \notin contested
    BY <1>7, <1>8 DEF ToneInv, ToneTypeOK
  <2>3. owner[u] # c
    BY <2>2, <1>11
  <2> QED BY <2>2, <2>3, <1>8, <1>9 DEF ToneInv, TickerInv
<1> QED BY <1>10, <1>12, <1>14, <1>15 DEF ToneInv

LEMMA ReleaseInv ==
  ASSUME ToneInv, Release
  PROVE  ToneInv'
<1>1. /\ job # None /\ job \in Jobs /\ job.chn \in Chns /\ job.kind = "release" /\ job' = None
      /\ UNCHANGED <<owner, ctl, route, queue, pc, msg, chn, calls, wanted, contested>>
  BY DEF Release, ToneInv, ToneTypeOK, Jobs
<1>2. PICK c \in Chns : c = job.chn
  BY <1>1
<1>3. /\ map' \in [Chns -> Tokens \cup Pins \cup {Unused}]
      /\ map'[c] = Unused /\ \A d \in Chns : d # c => map'[d] = map[d]
  BY <1>2 DEF Release, ToneInv, ToneTypeOK
<1>4. /\ held' \in [Chns -> BOOLEAN]
      /\ \A j \in Chns : held'[j] <=> held[j] /\ Token(j) # job.pin
  BY DEF Release, ToneInv, ToneTypeOK
<1>5. ToneTypeOK' /\ TaskInv' /\ JobInv'
  BY <1>1, <1>3, <1>4 DEF ToneInv, ToneTypeOK, TaskInv, JobInv
<1>6. TableInv'
  <2>1. \A d, e \in Chns : map'[d] = map'[e] /\ map'[d] # Unused => d = e
    BY <1>3 DEF ToneInv, TableInv
  <2>2. ASSUME NEW d \in Chns, NEW j \in Chns, map'[d] = Token(j)
        PROVE  held'[j]
    <3>1. d # c /\ map[d] = Token(j) /\ held[j]
      BY <2>2, <1>3, TableFacts DEF ToneInv, TableInv
    <3>2. job.pin # Token(j)
      BY <3>1, <1>1, <1>2, TableFacts DEF ToneInv, JobInv
    <3> QED BY <3>1, <3>2, <1>4
  <2> QED BY <2>1, <2>2 DEF TableInv
<1>7. ChannelInv'
  <2> SUFFICES ASSUME pc \in Treating
               PROVE  /\ \A d \in Chns : map'[d] = msg.pin => d = chn
                      /\ map'[chn] \in Pins => map'[chn] = msg.pin
    BY <1>1 DEF ChannelInv
  <2>1. msg.pin \in Pins /\ chn \in Chns
    BY DEF ToneInv, TaskInv, Treating, Messages
  <2> QED BY <2>1, <1>3, TableFacts DEF ToneInv, ChannelInv
<1>8. RouteInv'
  BY <1>1, <1>3, TableFacts DEF ToneInv, RouteInv
<1>9. c \notin contested =>
        /\ \A u \in Tickers : owner[u] # c
        /\ pc \in Treating => chn # c
  BY <1>1, <1>2 DEF ToneInv, JobInv
<1>10. TickerInv'
  <2>1. pc \in Treating => chn \in Chns
    BY DEF ToneInv, TaskInv
  <2>2. \A u \in Tickers : owner[u] # NoChn => owner[u] \in Chns
    BY DEF ToneInv, ToneTypeOK
  <2> QED BY <1>1, <1>3, <1>9, <2>1, <2>2 DEF ToneInv, TickerInv
<1> QED BY <1>5, <1>6, <1>7, <1>8, <1>10 DEF ToneInv

LEMMA ToneStepInv == ToneInv /\ [ToneNext]_toneVars => ToneInv'
<1> SUFFICES ASSUME ToneInv, [ToneNext]_toneVars PROVE ToneInv'
  OBVIOUS
<1>1. CASE ToneTask
  BY <1>1, ReceiveInv, FindInv, BindInv, PlayInv, StopInv, ClearInv DEF ToneTask
<1>2. CASE UserTask
  BY <1>2, PostInv, AttachInv, TakeInv, StartInv, DetachInv, ReleaseInv DEF UserTask
<1>3. CASE UNCHANGED toneVars
  BY <1>3 DEF toneVars, ToneInv, ToneTypeOK, TaskInv, TableInv, ChannelInv, RouteInv, JobInv, TickerInv
<1> QED BY <1>1, <1>2, <1>3 DEF ToneNext

(* What the tone task and a ticker may rely on between their steps is          *)
(* inductive, each of them with the other on the second core.                  *)
THEOREM ToneInvariance == ToneSpec => []ToneInv
BY ToneInitInv, ToneStepInv, PTL DEF ToneSpec

(* For any pins, tickers and channels and a queue of any length: a channel     *)
(* that sounds for a pin is heard on this pin and no other, contested or not,  *)
(* and between two messages a pin has a channel only while it sounds, unless   *)
(* the tone task and a ticker once worked on this channel at the same time.    *)
THEOREM HoldersSound == ToneSpec => []HolderSounds
<1>1. ToneInv => HolderSounds
  BY DEF ToneInv, HolderSounds, RouteInv
<1> QED BY <1>1, ToneInvariance, PTL

(* Tones never disturb an attached ticker's timer, except on a channel that    *)
(* one of them scanned while the other was between its scan and its store.     *)
THEOREM TickersKeepChannels == ToneSpec => []TickerKeepsChannel
<1>1. ToneInv => TickerKeepsChannel
  BY DEF ToneInv, TickerKeepsChannel, TickerInv
<1> QED BY <1>1, ToneInvariance, PTL
===============================================================================
