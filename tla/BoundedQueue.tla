---------------------------- MODULE BoundedQueue ------------------------------
(* What RingBuffer.h promises its one producer and its one consumer: a queue   *)
(* of at most N bytes, first in first out, that drops a byte only when full.   *)
EXTENDS Sequences, Integers

CONSTANTS N, Bytes, NoByte

VARIABLES q,      \* what is in the queue
          in,     \* what the producer is about to add, or NoByte
          out     \* what the consumer is about to return, or NoByte

vars == <<q, in, out>>

Init == q = <<>> /\ in = NoByte /\ out = NoByte

Offer(v) == in = NoByte /\ in' = v /\ UNCHANGED <<q, out>>
Put == in # NoByte /\ Len(q) < N /\ q' = Append(q, in) /\ in' = NoByte /\ UNCHANGED out
Drop == in # NoByte /\ Len(q) = N /\ in' = NoByte /\ UNCHANGED <<q, out>>
Look == out = NoByte /\ q # <<>> /\ out' = Head(q) /\ UNCHANGED <<q, in>>
Take == out # NoByte /\ out = Head(q) /\ q' = Tail(q) /\ out' = NoByte /\ UNCHANGED in
Clear == in = NoByte /\ out = NoByte /\ q' = <<>> /\ UNCHANGED <<in, out>>

Next == (\E v \in Bytes : Offer(v)) \/ Put \/ Drop \/ Look \/ Take \/ Clear
Spec == Init /\ [][Next]_vars
===============================================================================
