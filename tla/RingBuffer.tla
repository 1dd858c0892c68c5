------------------------------ MODULE RingBuffer ------------------------------
(* RingBufferN (cores/k210/RingBuffer.h): a producer in store_char and a       *)
(* consumer in read_char, step by step: each access to count_, which both      *)
(* share and change atomically, is a step, and so is each access to data_ and  *)
(* to the side's own index.  clear asks both sides to be quiescent (line 10).  *)
EXTENDS Integers, Sequences

CONSTANTS N,       \* capacity
          Bytes    \* what is stored

ASSUME RingAssumption == N \in Nat \ {0} /\ 0 \in Bytes /\ Bytes \subseteq Nat

Slot == 0 .. N - 1
NoByte == -1

VARIABLES data_, read_, write_, count_,
          producer,    \* "idle", or what store_char does next
          consumer,    \* "idle", or what read_char does next
          storing,     \* the argument of store_char
          value        \* what read_char has read

ringVars == <<data_, read_, write_, count_, producer, consumer, storing, value>>

RingInit == /\ data_ = [i \in Slot |-> 0] /\ read_ = 0 /\ write_ = 0 /\ count_ = 0
            /\ producer = "idle" /\ consumer = "idle" /\ storing = NoByte /\ value = NoByte

-------------------------------------------------------------------------------
(* Seeded fault: one byte too many.                                            *)
F_isFull == count_ = N + 1

isFull == count_ = N

(* store_char: a byte that finds the buffer full is dropped.                   *)
StoreFull == /\ producer = "store" /\ isFull
             /\ producer' = "idle" /\ storing' = NoByte
             /\ UNCHANGED <<data_, read_, write_, count_, consumer, value>>

StoreRoom == /\ producer = "store" /\ ~isFull
             /\ producer' = "data"
             /\ UNCHANGED <<data_, read_, write_, count_, consumer, storing, value>>

StoreData == /\ producer = "data"
             /\ data_' = [data_ EXCEPT ![write_] = storing]
             /\ producer' = "index"
             /\ UNCHANGED <<read_, write_, count_, consumer, storing, value>>

StoreIndex == /\ producer = "index"
              /\ write_' = (write_ + 1) % N
              /\ producer' = "count"
              /\ UNCHANGED <<data_, read_, count_, consumer, storing, value>>

StoreCount == /\ producer = "count"
              /\ count_' = count_ + 1
              /\ producer' = "idle" /\ storing' = NoByte
              /\ UNCHANGED <<data_, read_, write_, consumer, value>>

StoreStep == StoreFull \/ StoreRoom \/ StoreData \/ StoreIndex \/ StoreCount

-------------------------------------------------------------------------------
(* read_char; an empty buffer returns -1 and changes nothing.                  *)
ReadCheck == /\ consumer = "idle" /\ count_ # 0
             /\ consumer' = "data"
             /\ UNCHANGED <<data_, read_, write_, count_, producer, storing, value>>

ReadData == /\ consumer = "data"
            /\ value' = data_[read_]
            /\ consumer' = "index"
            /\ UNCHANGED <<data_, read_, write_, count_, producer, storing>>

(* Seeded fault: the index stays at the end of the array instead of wrapping.  *)
F_ReadIndex == /\ consumer = "index"
               /\ read_' = IF read_ = N - 1 THEN read_ ELSE read_ + 1
               /\ consumer' = "count"
               /\ UNCHANGED <<data_, write_, count_, producer, storing, value>>

ReadIndex == /\ consumer = "index"
             /\ read_' = (read_ + 1) % N
             /\ consumer' = "count"
             /\ UNCHANGED <<data_, write_, count_, producer, storing, value>>

ReadCount == /\ consumer = "count"
             /\ count_' = count_ - 1
             /\ consumer' = "idle" /\ value' = NoByte
             /\ UNCHANGED <<data_, read_, write_, producer, storing>>

ReadStep == ReadCheck \/ ReadData \/ ReadIndex \/ ReadCount

RingClear == /\ producer = "idle" /\ consumer = "idle"
             /\ read_' = 0 /\ write_' = 0 /\ count_' = 0
             /\ UNCHANGED <<data_, producer, consumer, storing, value>>

(* The specification of the buffer on its own, for any producer.               *)
StoreChar(v) == /\ producer = "idle"
                /\ producer' = "store" /\ storing' = v
                /\ UNCHANGED <<data_, read_, write_, count_, consumer, value>>

RingNext == (\E v \in Bytes : StoreChar(v)) \/ StoreStep \/ ReadStep \/ RingClear
RingSpec == RingInit /\ [][RingNext]_ringVars

-------------------------------------------------------------------------------
RingTypeOK ==
    /\ data_ \in [Slot -> Bytes] /\ read_ \in Slot /\ write_ \in Slot /\ count_ \in 0 .. N
    /\ producer \in {"idle", "store", "data", "index", "count"}
    /\ consumer \in {"idle", "data", "index", "count"}
    /\ storing \in Bytes \cup {NoByte} /\ value \in Bytes \cup {NoByte}

(* The i-th slot from h on, counted from 0.                                    *)
At(h, i) == IF h + i < N THEN h + i ELSE h + i - N

(* Where the oldest byte is: read_, which read_char moves before count_.       *)
Oldest == IF consumer = "count" THEN (IF read_ = 0 THEN N - 1 ELSE read_ - 1) ELSE read_
Contents == [i \in 1 .. count_ |-> data_[At(Oldest, i - 1)]]

(* Between any two steps of the producer and the consumer the buffer is a      *)
(* bounded queue: bytes leave in the order in which they were stored, none is  *)
(* overwritten before it was read, none is read twice, and only a full buffer  *)
(* drops one.                                                                  *)
Queue == INSTANCE BoundedQueue WITH q <- Contents, in <- storing, out <- value
RingIsQueue == Queue!Spec
===============================================================================
