--------------------------- MODULE WireFlashProofs ----------------------------
(***************************************************************************)
(* Proofs about Wire, for any number of tasks, objects and addresses and   *)
(* any buffer length, and, from "The SPI flash" on, about Flash, which     *)
(* shares nothing with it: for any number of sectors and pages and any set *)
(* of erase commands.                                                      *)
(***************************************************************************)
EXTENDS Wire, Flash, TLAPS, WellFoundedInduction

\* Outside a transaction the buffer is empty; no task's share of the buffer is
\* more than all of it.
BufferClean ==
  /\ phase = "idle" => tx = Nothing /\ txSize = 0 /\ ~ overflow
  /\ \A t \in Tasks : tx[t] <= txSize

\* A transaction is the one its task believes to be in.
OwnerKnows ==
  phase # "idle" =>
    /\ owner # None /\ task \in Tasks
    /\ address = to[task]
    /\ stage[task] = IF phase = "pending" THEN "deferred" ELSE "open"

\* As long as every byte was accepted, the buffer holds what was asked for.
BufferIsAsked ==
  (phase # "idle" /\ ~ overflow /\ address # BadAddress) =>
    tx = Just(task, count[task]) /\ txSize = count[task]

\* A deferred command is complete, and is pending until its task is done.
DeferredIsPending ==
  /\ phase = "pending" => ~ overflow /\ address # BadAddress
  /\ \A t \in Tasks : stage[t] = "deferred" => phase = "pending" /\ task = t

IInv == TypeOK /\ BufferClean /\ OwnerKnows /\ BufferIsAsked /\ DeferredIsPending

USE DEF transaction, asked, AnyAddress

\* The initial state, with a free controller, satisfies the invariant.
LEMMA InitIInv == Init => IInv
<1>. SUFFICES ASSUME Init PROVE IInv
  OBVIOUS
<1>1. 0 \in 0 .. BuffLen /\ 0 \in 0 .. MaxAsked
  BY WireAssumption
<1>2. tx = [t \in Tasks |-> 0] /\ tx \in [Tasks -> 0 .. BuffLen]
  BY <1>1 DEF Init, Nothing
<1>3. TypeOK
  BY <1>1, <1>2 DEF Init, TypeOK
<1>4. BufferClean /\ OwnerKnows /\ BufferIsAsked /\ DeferredIsPending
  BY <1>2 DEF Init, BufferClean, OwnerKnows, BufferIsAsked, DeferredIsPending
<1>. QED BY <1>3, <1>4 DEF IInv

\* begin() keeps the invariant: no task is in a transmission.
LEMMA BeginIInv == ASSUME NEW o \in Objects, IInv, begin(o) PROVE IInv'
BY WireAssumption
   DEF begin, Quiescent, IInv, TypeOK, BufferClean, OwnerKnows, BufferIsAsked, DeferredIsPending, Nothing, Just

\* What every call that cancels the transaction shares: it is nobody's or the
\* caller's own, and the caller knows that it is over.
LEMMA CancelIInv ==
  ASSUME IInv, cancel, NEW t \in Tasks, accessible(t), Forgets(t),
         owner' = owner, address' = address, rx' \in 0 .. BuffLen, error' \in BOOLEAN
  PROVE  IInv'
<1>1. /\ phase' = "idle" /\ task' = None /\ overflow' = FALSE
      /\ txSize' = 0 /\ tx' = [u \in Tasks |-> 0]
  BY DEF cancel, Nothing
<1>2. TypeOK'
  <2>1. 0 \in 0 .. BuffLen /\ 0 \in 0 .. MaxAsked
    BY WireAssumption
  <2>2. tx' \in [Tasks -> 0 .. BuffLen]
    BY <1>1, <2>1
  <2>3. /\ stage' \in [Tasks -> {"none", "open", "deferred"}]
        /\ to' \in [Tasks -> AnyAddress]
        /\ count' \in [Tasks -> 0 .. MaxAsked]
    BY <2>1 DEF IInv, TypeOK, Forgets
  <2>. QED BY <1>1, <2>1, <2>2, <2>3 DEF IInv, TypeOK
<1>3. BufferClean'
  BY <1>1 DEF BufferClean, Nothing
<1>4. OwnerKnows' /\ BufferIsAsked'
  BY <1>1 DEF OwnerKnows, BufferIsAsked
<1>5. DeferredIsPending'
  BY <1>1 DEF DeferredIsPending, IInv, TypeOK, accessible, Forgets
<1>. QED BY <1>2, <1>3, <1>4, <1>5 DEF IInv

\* end() keeps the invariant.
LEMMA EndIInv == ASSUME NEW o \in Objects, IInv, end(o) PROVE IInv'
BY WireAssumption
   DEF end, cancel, Quiescent, IInv, TypeOK, BufferClean, OwnerKnows, BufferIsAsked, DeferredIsPending, Nothing

\* beginTransmission opens the caller's transmission, or changes nothing of the
\* one in progress, which is another task's.
LEMMA StartIInv ==
  ASSUME IInv, NEW t \in Tasks, NEW a \in AnyAddress, start(t, a)
  PROVE  IInv'
<1>1. TypeOK'
  <2>1. 0 \in 0 .. BuffLen /\ 0 \in 0 .. MaxAsked
    BY WireAssumption
  <2>2. /\ stage' \in [Tasks -> {"none", "open", "deferred"}]
        /\ to' \in [Tasks -> AnyAddress]
        /\ count' \in [Tasks -> 0 .. MaxAsked]
    BY <2>1 DEF IInv, TypeOK, start
  <2>3. tx' \in [Tasks -> 0 .. BuffLen] /\ txSize' \in 0 .. BuffLen
    BY <2>1 DEF IInv, TypeOK, start, Nothing
  <2>4. error' \in BOOLEAN /\ overflow' \in BOOLEAN
    BY DEF IInv, TypeOK, start
  <2>. QED BY <2>2, <2>3, <2>4 DEF IInv, TypeOK, start
<1>a. CASE accessible(t)
  <2>1. /\ phase' = "collecting" /\ task' = t /\ overflow' = FALSE
        /\ txSize' = 0 /\ tx' = [u \in Tasks |-> 0] /\ address' = a
        /\ stage' = [stage EXCEPT ![t] = "open"]
        /\ to' = [to EXCEPT ![t] = a]
        /\ count' = [count EXCEPT ![t] = 0]
    BY <1>a DEF start, Nothing
  <2>2. BufferClean' /\ OwnerKnows'
    BY <1>a, <2>1 DEF IInv, TypeOK, BufferClean, OwnerKnows, start, accessible
  <2>3. BufferIsAsked'
    BY <2>1 DEF IInv, TypeOK, BufferIsAsked, Just
  <2>4. DeferredIsPending'
    BY <1>a, <2>1 DEF IInv, TypeOK, DeferredIsPending, accessible
  <2>. QED BY <1>1, <2>2, <2>3, <2>4 DEF IInv
<1>b. CASE ~ accessible(t)
  <2>1. /\ UNCHANGED <<owner, transaction, address>>
        /\ stage' = [stage EXCEPT ![t] = "open"]
        /\ to' = [to EXCEPT ![t] = a]
        /\ count' = [count EXCEPT ![t] = 0]
    BY <1>b DEF start
  <2>2. phase # "idle" => task # t
    BY <1>b, WireAssumption DEF IInv, accessible, OwnerKnows
  <2>. QED
    BY <1>1, <2>1, <2>2
    DEF IInv, TypeOK, BufferClean, OwnerKnows, BufferIsAsked, DeferredIsPending, Nothing, Just
<1>. QED BY <1>a, <1>b

\* A write that is accepted, wholly or in part, belongs to the transaction's
\* own task; a partial one marks the transaction.
LEMMA WriteIInv ==
  ASSUME IInv, NEW t \in Tasks, NEW n \in Sizes, write(t, n)
  PROVE  IInv'
<1>. DEFINE k == Accepted(n)
<1>1. n \in Nat /\ BuffLen \in Nat /\ MaxAsked \in Nat
  BY WireAssumption
<1>2. /\ txSize \in 0 .. BuffLen /\ count[t] \in 0 .. MaxAsked
      /\ tx \in [Tasks -> 0 .. BuffLen] /\ count \in [Tasks -> 0 .. MaxAsked]
  BY DEF IInv, TypeOK
<1>3. k \in 0 .. n /\ txSize + k \in 0 .. BuffLen
  BY <1>1, <1>2 DEF Accepted
<1>4. task = t /\ phase = "collecting" /\ address # BadAddress
  BY DEF write, Collects, accessible
<1>5. /\ txSize' = txSize + k /\ tx' = [tx EXCEPT ![t] = tx[t] + k]
      /\ overflow' = (overflow \/ k # n)
      /\ count' = [count EXCEPT ![t] = count[t] + n] /\ count[t] + n <= MaxAsked
      /\ UNCHANGED <<owner, phase, task, address, rx, stage, to>>
  BY DEF write, Asks
<1>6. tx[t] \in 0 .. BuffLen /\ tx[t] <= txSize
  BY <1>2 DEF IInv, BufferClean
<1>. HIDE DEF k
<1>7. TypeOK'
  <2>1. tx' \in [Tasks -> 0 .. BuffLen]
    BY <1>1, <1>2, <1>3, <1>5, <1>6
  <2>2. count' \in [Tasks -> 0 .. MaxAsked]
    BY <1>1, <1>2, <1>5
  <2>3. error' \in BOOLEAN /\ overflow' \in BOOLEAN
    BY DEF write
  <2>. QED BY <1>3, <1>5, <2>1, <2>2, <2>3 DEF IInv, TypeOK
<1>8. BufferClean'
  BY <1>1, <1>2, <1>3, <1>4, <1>5 DEF IInv, BufferClean
<1>9. OwnerKnows' /\ DeferredIsPending'
  BY <1>4, <1>5 DEF IInv, OwnerKnows, DeferredIsPending
<1>10. BufferIsAsked'
  <2>1. SUFFICES ASSUME ~ overflow'
                 PROVE  tx' = Just(t, count'[t]) /\ txSize' = count'[t]
    BY <1>4, <1>5 DEF BufferIsAsked
  <2>2. ~ overflow /\ k = n
    BY <2>1, <1>5
  <2>3. tx = Just(t, count[t]) /\ txSize = count[t]
    BY <1>4, <2>2 DEF IInv, BufferIsAsked
  <2>4. count'[t] = count[t] + n
    BY <1>2, <1>5
  <2>5. tx' = [u \in Tasks |-> IF u = t THEN count[t] + n ELSE 0]
    BY <1>2, <1>5, <2>2, <2>3 DEF Just
  <2>. QED BY <1>5, <2>2, <2>3, <2>4, <2>5 DEF Just
<1>. QED BY <1>7, <1>8, <1>9, <1>10 DEF IInv

\* A write that is refused changes no transaction; if the task is in one, its
\* address is bad and nothing will be sent.
LEMMA WriteRefusedIInv ==
  ASSUME IInv, NEW t \in Tasks, NEW n \in Sizes, writeRefused(t, n)
  PROVE  IInv'
<1>1. n \in Nat /\ MaxAsked \in Nat /\ count \in [Tasks -> 0 .. MaxAsked]
  BY WireAssumption DEF IInv, TypeOK
<1>2. /\ UNCHANGED <<owner, phase, task, txSize, tx, overflow, address, rx, stage, to>>
      /\ count' = [count EXCEPT ![t] = count[t] + n] /\ count[t] + n <= MaxAsked
      /\ stage[t] = "open" /\ error' \in BOOLEAN
  BY DEF writeRefused, Asks
<1>3. (phase # "idle" /\ address # BadAddress) => task # t
  BY <1>2 DEF writeRefused, Collects, accessible, IInv, TypeOK, OwnerKnows
<1>4. count' \in [Tasks -> 0 .. MaxAsked] /\ \A u \in Tasks : u # t => count'[u] = count[u]
  BY <1>1, <1>2
<1>5. TypeOK'
  BY <1>2, <1>4 DEF IInv, TypeOK
<1>6. BufferClean' /\ OwnerKnows' /\ DeferredIsPending'
  BY <1>2 DEF IInv, BufferClean, OwnerKnows, DeferredIsPending
<1>7. BufferIsAsked'
  BY <1>2, <1>3, <1>4 DEF IInv, BufferIsAsked, OwnerKnows, Just
<1>. QED BY <1>5, <1>6, <1>7 DEF IInv

\* endTransmission(false): what is deferred is complete.
LEMMA DeferIInv ==
  ASSUME IInv, NEW t \in Tasks, endTransmissionDeferred(t)
  PROVE  IInv'
<1>1. /\ task = t /\ phase = "collecting" /\ address # BadAddress /\ ~ overflow
      /\ phase' = "pending" /\ stage' = [stage EXCEPT ![t] = "deferred"]
      /\ UNCHANGED <<owner, task, txSize, tx, overflow, address, error, rx, to, count>>
  BY DEF endTransmissionDeferred, accessible, Sendable
<1>2. TypeOK'
  BY <1>1 DEF IInv, TypeOK
<1>3. BufferClean' /\ OwnerKnows'
  BY <1>1 DEF IInv, TypeOK, BufferClean, OwnerKnows
<1>4. BufferIsAsked'
  BY <1>1 DEF IInv, BufferIsAsked
<1>5. DeferredIsPending'
  BY <1>1 DEF IInv, TypeOK, DeferredIsPending
<1>. QED BY <1>2, <1>3, <1>4, <1>5 DEF IInv

\* A refused call leaves the other task's transaction alone.
LEMMA RefusedIInv ==
  ASSUME IInv, NEW t \in Tasks, Refused(t)
  PROVE  IInv'
<1>1. /\ UNCHANGED <<owner, phase, task, txSize, tx, overflow, address, error, rx>>
      /\ stage' = [stage EXCEPT ![t] = "none"]
      /\ to' = [to EXCEPT ![t] = BadAddress]
      /\ count' = [count EXCEPT ![t] = 0]
  BY DEF Refused, Forgets
<1>2. phase # "idle" => task # t
  BY DEF IInv, Refused, accessible, OwnerKnows
<1>3. 0 \in 0 .. MaxAsked
  BY WireAssumption
<1>4. TypeOK'
  BY <1>1, <1>3 DEF IInv, TypeOK
<1>5. BufferClean' /\ OwnerKnows' /\ BufferIsAsked'
  BY <1>1, <1>2 DEF IInv, TypeOK, BufferClean, OwnerKnows, BufferIsAsked, Just, Nothing
<1>6. DeferredIsPending'
  BY <1>1, <1>2 DEF IInv, TypeOK, DeferredIsPending
<1>. QED BY <1>4, <1>5, <1>6 DEF IInv

\* The calls that end a transaction: endTransmission, requestFrom, flush.
LEMMA EndingIInv ==
  ASSUME IInv, NEW t \in Tasks,
         \/ \E ok \in BOOLEAN : endTransmission(t, ok)
         \/ endTransmissionFails(t)
         \/ \E a \in AnyAddress, n \in Sizes, stop, ok \in BOOLEAN : receive(t, a, n, stop, ok)
         \/ flush(t)
  PROVE  IInv'
<1>0. rx \in 0 .. BuffLen /\ error \in BOOLEAN /\ 0 \in 0 .. BuffLen
  BY WireAssumption DEF IInv, TypeOK
<1>1. ASSUME NEW ok \in BOOLEAN, endTransmission(t, ok) PROVE IInv'
  <2>1. rx' \in 0 .. BuffLen
    BY <1>0, <1>1 DEF endTransmission
  <2>2. error' \in BOOLEAN
    BY <1>1 DEF endTransmission
  <2>. QED BY <1>1, <2>1, <2>2, CancelIInv DEF endTransmission
<1>2. ASSUME endTransmissionFails(t) PROVE IInv'
  <2>1. rx' \in 0 .. BuffLen /\ error' \in BOOLEAN
    BY <1>0, <1>2 DEF endTransmissionFails
  <2>. QED BY <1>2, <2>1, CancelIInv DEF endTransmissionFails
<1>3. ASSUME NEW a \in AnyAddress, NEW n \in Sizes, NEW stop \in BOOLEAN, NEW ok \in BOOLEAN,
             receive(t, a, n, stop, ok)
      PROVE  IInv'
  <2>0. n \in Nat /\ BuffLen \in Nat
    BY WireAssumption
  <2>1. rx' \in 0 .. BuffLen
    BY <1>3, <2>0 DEF receive
  <2>2. error' \in BOOLEAN
    BY <1>3 DEF receive
  <2>. QED BY <1>3, <2>1, <2>2, CancelIInv DEF receive
<1>4. ASSUME flush(t) PROVE IInv'
  <2>1. rx' \in 0 .. BuffLen /\ error' \in BOOLEAN
    BY <1>0, <1>4 DEF flush
  <2>. QED BY <1>4, <2>1, CancelIInv DEF flush
<1>. QED BY <1>1, <1>2, <1>3, <1>4

\* read() takes a byte of the receive buffer only.
LEMMA ReadIInv ==
  ASSUME IInv, NEW t \in Tasks, read(t)
  PROVE  IInv'
<1>1. rx' \in 0 .. BuffLen
  BY WireAssumption DEF read, IInv, TypeOK
<1>. QED
  BY <1>1 DEF read, IInv, TypeOK, BufferClean, OwnerKnows, BufferIsAsked, DeferredIsPending, Nothing, Just

\* The invariant is inductive, and holds in every reachable state.
THEOREM Invariance == Spec => []IInv
<1>1. IInv /\ [Next]_vars => IInv'
  <2>. SUFFICES ASSUME IInv, [Next]_vars PROVE IInv'
    OBVIOUS
  <2>1. ASSUME NEW o \in Objects, begin(o) \/ end(o) PROVE IInv'
    BY <2>1, BeginIInv, EndIInv
  <2>2. ASSUME NEW t \in Tasks, Transmits(t) PROVE IInv'
    BY <2>2, StartIInv, WriteIInv, WriteRefusedIInv, DeferIInv, RefusedIInv, EndingIInv DEF Transmits
  <2>3. ASSUME NEW t \in Tasks, Receives(t) PROVE IInv'
    BY <2>3, EndingIInv, ReadIInv DEF Receives
  <2>4. CASE UNCHANGED vars
    BY <2>4 DEF vars, IInv, TypeOK, BufferClean, OwnerKnows, BufferIsAsked, DeferredIsPending, Nothing, Just
  <2>. QED BY <2>1, <2>2, <2>3, <2>4 DEF Next
<1>. QED BY <1>1, InitIInv, PTL DEF Spec

\* Every variable keeps its type: neither buffer of TwoWire overruns.
THEOREM TypeCorrect == Spec => []TypeOK
<1>1. IInv => TypeOK
  BY DEF IInv
<1>. QED BY <1>1, Invariance, PTL

\* A task never sends a frame that is not exactly its own transmission.
THEOREM FramesAreOwn == Spec => []SendsWhatWasAsked
<1>1. IInv => SendsWhatWasAsked
  <2>. SUFFICES ASSUME IInv, NEW t \in Tasks, accessible(t), Sendable
                PROVE  /\ stage[t] = "open" /\ address = to[t]
                       /\ tx = Just(t, count[t]) /\ txSize = count[t]
    BY DEF SendsWhatWasAsked
  <2>1. task = t /\ phase = "collecting" /\ ~ overflow /\ address # BadAddress
    BY DEF accessible, Sendable
  <2>. QED BY <2>1 DEF IInv, OwnerKnows, BufferIsAsked
<1>. QED BY <1>1, Invariance, PTL

\* requestFrom sends the caller's deferred command, whole, or nothing.
THEOREM CommandsAreOwn == Spec => []ReadsCarryOwnCommand
<1>1. IInv => ReadsCarryOwnCommand
  <2>. SUFFICES ASSUME IInv, NEW t \in Tasks, accessible(t), phase # "collecting"
                PROVE  IF stage[t] = "deferred"
                       THEN /\ phase = "pending" /\ address = to[t]
                            /\ tx = Just(t, count[t]) /\ txSize = count[t]
                       ELSE tx = Nothing /\ txSize = 0
    BY DEF ReadsCarryOwnCommand
  <2>1. CASE stage[t] = "deferred"
    BY <2>1 DEF IInv, DeferredIsPending, OwnerKnows, BufferIsAsked
  <2>2. CASE stage[t] # "deferred"
    <3>1. phase = "idle"
      BY <2>2 DEF accessible, IInv, TypeOK, OwnerKnows
    <3>. QED BY <2>2, <3>1 DEF IInv, BufferClean
  <2>. QED BY <2>1, <2>2
<1>. QED BY <1>1, Invariance, PTL

-------------------------------------------------------------------------------
(* The SPI flash: the inductive invariant.                                    *)

(* The range of a call lies inside the chip; it is given up as a whole number  *)
(* of units by an erase, and read no further than the caller's data by a write.*)
RangeInv ==
  /\ pc \in Writing \cup {"read"} =>
       /\ length >= 1 /\ addr + length <= NSec * NPage
       /\ \A c \in addr .. addr + length - 1 : data_buf[c] \in SUBSET Bits
  /\ pc = "erase" =>
       /\ erase_unit \in Nat \ {0} /\ length >= 1 /\ addr + length <= NSec * NPage
       /\ length % erase_unit = 0

(* A command of a write belongs to the call under way, at the step that waits  *)
(* for it; a command cut off from its call is nobody's.                        *)
OpInv ==
  op # Idle /\ op.by = "write" =>
    /\ op.on = {sector}
    /\ \/ pc = "erasing" /\ op.kind = "erase"
       \/ pc = "programming" /\ op.kind = "program"
          /\ op.page = index /\ op.value = Block(index)

(* When the chip was quiet as the sector was read: swap_buf is the sector, the *)
(* chip works for this call only, the pages behind index hold what they        *)
(* should, and the others still have every bit they need.                      *)
CalmInv ==
  calm =>
    /\ pc \in Writing /\ swap_buf = before
    /\ op # Idle => op.by = "write"
    /\ pc = "compare" => mem[sector] = swap_buf
    /\ pc = "erasing" => index = 0 /\ (op = Idle => mem[sector] = Erased)
    /\ pc \in {"program", "programming"} =>
         \A p \in Page :
           /\ p >= index => Block(p) \subseteq mem[sector][p]
           /\ p < index \/ (p = index /\ pc = "programming" /\ op = Idle) =>
                mem[sector][p] = Block(p)

FlashInv == FlashTypeOK /\ RangeInv /\ OpInv /\ CalmInv

-------------------------------------------------------------------------------
(* Arithmetic of sectors and units.                                            *)

LEMMA TimesMonotone ==
  ASSUME NEW m \in Nat \ {0}, NEW r \in Int, NEW s \in Int, r < s
  PROVE  r * m + m <= s * m
OBVIOUS

LEMMA Quotient ==
  ASSUME NEW m \in Nat \ {0}, NEW a \in Nat
  PROVE  a \div m \in Nat
OBVIOUS

LEMMA Modulus ==
  ASSUME NEW m \in Nat \ {0}, NEW a \in Nat
  PROVE  a % m \in 0 .. m - 1
OBVIOUS

LEMMA Division ==
  ASSUME NEW m \in Nat \ {0}, NEW a \in Nat
  PROVE  a = (a \div m) * m + (a % m)
OBVIOUS

(* A multiple that is not zero is no less than what it is a multiple of.       *)
LEMMA MultipleBound ==
  ASSUME NEW m \in Nat \ {0}, NEW n \in Nat \ {0}, n % m = 0
  PROVE  m <= n
OBVIOUS

LEMMA Remainder ==
  ASSUME NEW m \in Nat \ {0}, NEW q \in Nat
  PROVE  (q * m) % m = 0
OBVIOUS

LEMMA MultipleLess ==
  ASSUME NEW m \in Nat \ {0}, NEW n \in Nat, n % m = 0, n >= m
  PROVE  (n - m) % m = 0
<1> DEFINE q == n \div m
<1>1. q \in Nat /\ n = q * m
  BY Quotient, Division
<1> HIDE DEF q
<1>2. q # 0
  BY <1>1
<1>3. q - 1 \in Nat /\ n - m = (q - 1) * m
  BY <1>1, <1>2
<1>4. ((q - 1) * m) % m = 0
  BY <1>3, Remainder
<1> QED BY <1>3, <1>4

(* What is made of units of b sectors is made of sectors.                      *)
LEMMA MultipleOfPart ==
  ASSUME NEW b \in Nat \ {0}, NEW m \in Nat \ {0}, NEW n \in Nat, n % (b * m) = 0
  PROVE  n % m = 0
<1> DEFINE u == b * m
           q == n \div u
<1>1. u \in Nat \ {0} /\ n % u = 0
  OBVIOUS
<1> HIDE DEF u
<1>2. q \in Nat
  BY <1>1, Quotient
<1>3. n = q * u
  BY <1>1, <1>2, Division
<1> HIDE DEF q
<1>4. q * b \in Nat /\ q * (b * m) = (q * b) * m
  BY <1>2
<1>5. ((q * b) * m) % m = 0
  BY <1>4, Remainder
<1> QED BY <1>3, <1>4, <1>5 DEF u

LEMMA SectorOf ==
  ASSUME NEW a \in Nat, a < NSec * NPage
  PROVE  /\ a \div NPage \in Sector /\ a % NPage \in Page
         /\ a = (a \div NPage) * NPage + (a % NPage)
<1> DEFINE q == a \div NPage
           r == a % NPage
<1>0. NPage \in Nat \ {0} /\ NSec \in Nat \ {0}
  BY GeometryAssumption
<1>1. q \in Nat /\ r \in 0 .. NPage - 1 /\ a = q * NPage + r
  BY <1>0, Quotient, Modulus, Division
<1> HIDE DEF q, r
<1>2. q < NSec
  <2>1. NSec < q + 1 => NSec * NPage + NPage <= (q + 1) * NPage
    BY <1>0, <1>1, TimesMonotone
  <2>2. (q + 1) * NPage = q * NPage + NPage /\ q * NPage \in Nat /\ NSec * NPage \in Nat
    BY <1>0, <1>1
  <2> QED BY <2>1, <2>2, <1>0, <1>1
<1> QED BY <1>0, <1>1, <1>2 DEF Sector, Page, q, r

-------------------------------------------------------------------------------
(* Flash: the cursor of a write.                                               *)

Calls == Writing \cup {"read"}

(* The sector of the cursor, and the pages of it that the call writes: those   *)
(* whose address is in the range that is left.                                 *)
LEMMA Cursor ==
  ASSUME FlashTypeOK, RangeInv, pc \in Calls
  PROVE  /\ addr \in Nat /\ length \in Nat \ {0} /\ NPage \in Nat \ {0}
         /\ sector \in Sector /\ sector_offset \in Page
         /\ addr = sector * NPage + sector_offset
         /\ write_len \in 1 .. length /\ sector_offset + write_len <= NPage
         /\ write_len = length \/ sector_offset + write_len = NPage
         /\ Touched \subseteq Page /\ sector_offset \in Touched
         /\ \A p \in Page : p \in Touched <=> sector * NPage + p \in addr .. addr + length - 1
<1>1. /\ addr \in Nat /\ length \in Nat \ {0} /\ addr + length <= NSec * NPage
      /\ NPage \in Nat \ {0} /\ NSec * NPage \in Nat
  BY GeometryAssumption DEF FlashTypeOK, RangeInv, Calls
<1>2. addr < NSec * NPage
  BY <1>1
<1>3. /\ sector \in Sector /\ sector_offset \in Page
      /\ addr = sector * NPage + sector_offset
  BY <1>1, <1>2, SectorOf DEF sector, sector_offset
<1>4. sector \in Nat /\ sector_offset \in 0 .. NPage - 1 /\ sector * NPage \in Nat
  BY <1>1, <1>3, GeometryAssumption DEF Sector, Page
<1>5. /\ write_len \in 1 .. length /\ sector_offset + write_len <= NPage
      /\ write_len = length \/ sector_offset + write_len = NPage
  BY <1>1, <1>4 DEF write_len
<1>6. Touched \subseteq Page /\ sector_offset \in Touched
  BY <1>1, <1>4, <1>5 DEF Touched, Page
<1>7. ASSUME NEW p \in Page
      PROVE  p \in Touched <=> sector * NPage + p \in addr .. addr + length - 1
  BY <1>1, <1>3, <1>4, <1>5 DEF Touched, Page
<1> QED BY <1>1, <1>3, <1>5, <1>6, <1>7

(* What the call programs into a page is a page.                               *)
LEMMA BlockIsPage ==
  ASSUME FlashTypeOK, RangeInv, pc \in Calls, NEW p \in Page
  PROVE  Block(p) \in SUBSET Bits
<1>1. CASE p \in Touched
  <2>1. sector * NPage + p \in addr .. addr + length - 1
    BY <1>1, Cursor
  <2> QED BY <1>1, <2>1 DEF Block, DataAt, RangeInv, Calls
<1>2. CASE p \notin Touched
  BY <1>2 DEF Block, FlashTypeOK, Content
<1> QED BY <1>1, <1>2

(* The registers of the call decide its sector and its pages.                  *)
LEMMA SameCursor ==
  ASSUME UNCHANGED <<addr, length, data_buf, swap_buf>>
  PROVE  sector' = sector /\ \A p : Block(p)' = Block(p)
BY DEF sector, sector_offset, write_len, Touched, DataAt, Block

-------------------------------------------------------------------------------
(* The commands of the chip.                                                   *)

EraseOp(on, by) == [kind |-> "erase", on |-> on, by |-> by]
ProgramOp(on, page, value, by) ==
  [kind |-> "program", on |-> on, page |-> page, value |-> value, by |-> by]

LEMMA EraseIsOp ==
  ASSUME NEW on \in SUBSET Sector, NEW by \in {"write", "erase", "lost"}
  PROVE  /\ EraseOp(on, by) \in Ops /\ EraseOp(on, by) # Idle
         /\ EraseOp(on, by).kind = "erase" /\ EraseOp(on, by).on = on /\ EraseOp(on, by).by = by
BY DEF EraseOp, Ops, Idle

LEMMA ProgramIsOp ==
  ASSUME NEW on \in SUBSET Sector, NEW page \in Page, NEW value \in SUBSET Bits,
         NEW by \in {"write", "lost"}
  PROVE  LET c == ProgramOp(on, page, value, by)
         IN  /\ c \in Ops /\ c # Idle
             /\ c.kind = "program" /\ c.on = on /\ c.page = page /\ c.value = value /\ c.by = by
BY DEF ProgramOp, Ops, Idle

LEMMA OpShape ==
  ASSUME NEW c \in Ops, c # Idle
  PROVE  /\ c.on \in SUBSET Sector
         /\ \/ c.kind = "erase" /\ c.by \in {"write", "erase", "lost"}
            \/ /\ c.kind = "program" /\ c.by \in {"write", "lost"}
               /\ c.page \in Page /\ c.value \in SUBSET Bits
BY DEF Ops, Idle

(* A command that lost its caller is still a command.                          *)
LEMMA OpLost ==
  ASSUME NEW c \in Ops, c # Idle
  PROVE  LET d == [c EXCEPT !.by = "lost"]
         IN  d \in Ops /\ d # Idle /\ d.by = "lost" /\ d.on = c.on
<1>1. CASE c \in [kind : {"erase"}, on : SUBSET Sector, by : {"write", "erase", "lost"}]
  BY <1>1 DEF Ops, Idle
<1>2. CASE c \in [kind : {"program"}, on : SUBSET Sector, page : Page, value : SUBSET Bits,
                  by : {"write", "lost"}]
  BY <1>2 DEF Ops, Idle
<1> QED BY <1>1, <1>2 DEF Ops

(* What a command leaves in a sector.                                          *)
LEMMA EffectIsContent ==
  ASSUME FlashTypeOK, op # Idle, NEW s \in Sector
  PROVE  /\ Effect(s) \in Content
         /\ op.kind = "erase" => Effect(s) = Erased
         /\ op.kind = "program" =>
              \A p \in Page : Effect(s)[p] = IF p = op.page THEN mem[s][p] \cap op.value
                                             ELSE mem[s][p]
<1>1. mem[s] \in Content /\ op \in Ops
  BY DEF FlashTypeOK
<1>2. CASE op.kind = "erase"
  BY <1>2 DEF Effect, Erased, Content
<1>3. CASE op.kind # "erase"
  <2>1. op.kind = "program" /\ op.page \in Page /\ op.value \in SUBSET Bits
    BY <1>1, <1>3, OpShape
  <2>2. Effect(s) = [mem[s] EXCEPT ![op.page] = @ \cap op.value]
    BY <1>3 DEF Effect
  <2> QED BY <2>1, <2>2, <1>1 DEF Content
<1> QED BY <1>2, <1>3

-------------------------------------------------------------------------------
(* Every step keeps the invariant.                                             *)

LEMMA Geometry ==
  /\ NPage \in Nat \ {0} /\ NSec * NPage \in Nat
  /\ 0 \in Page /\ 0 \in 0 .. NSec * NPage /\ Erased \in Content
  /\ Page \subseteq Nat
BY GeometryAssumption DEF Page, Erased, Content

LEMMA FlashInitInv == FlashInit => FlashInv
<1> SUFFICES ASSUME FlashInit PROVE FlashInv
  OBVIOUS
<1>1. FlashTypeOK
  BY Geometry DEF FlashInit, FlashTypeOK, Ops
<1> QED BY <1>1 DEF FlashInit, FlashInv, RangeInv, OpInv, CalmInv, Writing

(* A call that ends, for whatever reason, leaves no command of a write behind. *)
LEMMA ReturnInv ==
  ASSUME Return, mem' \in [Sector -> Content], op' \in Ops,
         op' # Idle => op'.by # "write"
  PROVE  FlashInv'
<1>1. FlashTypeOK'
  BY Geometry DEF Return, FlashTypeOK
<1> QED BY <1>1 DEF Return, FlashInv, RangeInv, OpInv, CalmInv, Writing

LEMMA SendOp ==
  ASSUME FlashTypeOK, NEW c \in Ops, Send(c)
  PROVE  op' \in Ops /\ (op = Idle => op' = c) /\ (op # Idle => op' = op)
BY DEF Send, FlashTypeOK

LEMMA ChipDoneInv ==
  ASSUME FlashInv, ChipDone
  PROVE  FlashInv'
<1>0. /\ FlashTypeOK /\ op # Idle /\ op \in Ops /\ op' = Idle
      /\ UNCHANGED <<pc, addr, length, data_buf, swap_buf, index, erase_unit, calm>>
  BY DEF FlashInv, FlashTypeOK, ChipDone
<1>1. op.on \in SUBSET Sector
  BY <1>0, OpShape
<1>2. /\ mem' = [s \in Sector |-> IF s \in op.on THEN Effect(s) ELSE mem[s]]
      /\ mem' \in [Sector -> Content]
  BY <1>0, <1>1, EffectIsContent DEF ChipDone, FlashTypeOK
<1>3. before' \in Content
  <2>1. CASE op.by # "write" /\ pc # "idle" /\ sector \in op.on
    BY <2>1, <1>1, <1>2 DEF ChipDone
  <2>2. CASE ~ (op.by # "write" /\ pc # "idle" /\ sector \in op.on)
    BY <2>2, <1>0 DEF ChipDone, FlashTypeOK
  <2> QED BY <2>1, <2>2
<1>4. FlashTypeOK'
  BY <1>0, <1>2, <1>3 DEF FlashTypeOK, Ops
<1>5. RangeInv'
  BY <1>0 DEF FlashInv, RangeInv
<1>6. OpInv'
  BY <1>0 DEF OpInv
<1>7. CalmInv'
  <2> SUFFICES ASSUME calm PROVE CalmInv'
    BY <1>0 DEF CalmInv
  <2>1. op.by = "write" /\ pc \in Writing /\ swap_buf = before
    BY <1>0 DEF FlashInv, CalmInv
  <2>2. op.on = {sector} /\ sector \in Sector
    BY <2>1, <1>0, Cursor DEF FlashInv, OpInv, Calls
  <2>3. before' = before /\ mem'[sector] = Effect(sector)
    BY <2>1, <2>2, <1>2 DEF ChipDone
  <2>4. sector' = sector /\ \A p : Block(p)' = Block(p)
    BY <1>0, SameCursor
  <2>5. CASE pc = "erasing" /\ op.kind = "erase"
    <3>1. mem'[sector] = Erased
      BY <2>5, <2>2, <2>3, <1>0, EffectIsContent
    <3>2. index = 0
      BY <2>5 DEF FlashInv, CalmInv
    <3> QED BY <3>1, <3>2, <2>1, <2>3, <2>4, <2>5, <1>0 DEF CalmInv, Writing
  <2>6. CASE pc = "programming" /\ op.kind = "program" /\ op.page = index /\ op.value = Block(index)
    <3>1. \A p \in Page : /\ p >= index => Block(p) \subseteq mem[sector][p]
                          /\ p < index => mem[sector][p] = Block(p)
      BY <2>6, <1>0 DEF FlashInv, CalmInv
    <3>2. \A p \in Page : mem'[sector][p] = IF p = index THEN mem[sector][p] \cap Block(p)
                                            ELSE mem[sector][p]
      <4>1. \A p \in Page : Effect(sector)[p] = IF p = op.page THEN mem[sector][p] \cap op.value
                                                ELSE mem[sector][p]
        BY <2>2, <2>6, <1>0, EffectIsContent
      <4> QED BY <4>1, <2>3, <2>6
    <3>3. index \in Page /\ \A p \in Page : p \in Nat
      BY <1>0, Geometry DEF FlashTypeOK
    <3>4. \A p \in Page : /\ p >= index => Block(p) \subseteq mem'[sector][p]
                          /\ p < index \/ p = index => mem'[sector][p] = Block(p)
      BY <3>1, <3>2, <3>3
    <3> QED BY <3>4, <2>1, <2>3, <2>4, <2>6, <1>0 DEF CalmInv, Writing
  <2> QED BY <2>1, <2>5, <2>6, <1>0 DEF FlashInv, OpInv
<1> QED BY <1>4, <1>5, <1>6, <1>7 DEF FlashInv

(* Between the steps of a call that do not change the chip's contents, only    *)
(* the command matters.                                                        *)
LEMMA WriteCallInv ==
  ASSUME FlashInv, NEW a \in Address, NEW n \in 1 .. NSec * NPage, a + n <= NSec * NPage,
         NEW data \in [a .. a + n - 1 -> SUBSET Bits], Write(a, n, data)
  PROVE  FlashInv'
<1>a. a \in 0 .. NSec * NPage /\ n \in 0 .. NSec * NPage
  BY Geometry DEF Address
<1>1. FlashTypeOK'
  BY <1>a DEF Write, FlashInv, FlashTypeOK
<1>2. RangeInv'
  BY <1>1, Geometry DEF Write, RangeInv, Writing
<1>3. OpInv'
  BY DEF Write, FlashInv, OpInv
<1> QED BY <1>1, <1>2, <1>3 DEF Write, FlashInv, CalmInv

LEMMA ReadSectorInv ==
  ASSUME FlashInv, ReadSector
  PROVE  FlashInv'
<1>0. /\ FlashTypeOK /\ RangeInv /\ pc = "read" /\ pc' = "compare"
      /\ UNCHANGED <<mem, op, addr, length, data_buf, index, erase_unit>>
      /\ calm' = (op = Idle) /\ before' = mem[sector]
      /\ op = Idle => swap_buf' = mem[sector]
      /\ op # Idle => swap_buf' \in Content
  BY DEF FlashInv, ReadSector
<1>1. sector \in Sector /\ mem[sector] \in Content
  BY <1>0, Cursor DEF Calls, FlashTypeOK
<1>2. FlashTypeOK'
  BY <1>0, <1>1 DEF FlashTypeOK, Writing
<1>3. RangeInv'
  BY <1>0 DEF RangeInv, Writing
<1>4. op # Idle => op.by # "write"
  BY <1>0 DEF FlashInv, OpInv
<1>5. sector' = sector
  BY <1>0 DEF sector
<1> QED BY <1>0, <1>2, <1>3, <1>4, <1>5 DEF FlashInv, OpInv, CalmInv, Writing

LEMMA CompareInv ==
  ASSUME FlashInv, Compare
  PROVE  FlashInv'
<1>0. /\ FlashTypeOK /\ RangeInv /\ pc = "compare" /\ index' = 0
      /\ UNCHANGED <<mem, addr, length, data_buf, swap_buf, erase_unit, before, calm>>
  BY DEF FlashInv, Compare
<1>1. sector \in Sector
  BY <1>0, Cursor DEF Calls, Writing
<1>2. op # Idle => op.by # "write"
  BY <1>0 DEF FlashInv, OpInv
<1>3. calm => op = Idle /\ mem[sector] = swap_buf /\ swap_buf = before
  BY <1>0, <1>2 DEF FlashInv, CalmInv
<1>4. sector' = sector /\ \A p : Block(p)' = Block(p)
  BY <1>0, SameCursor
<1>5. CASE NeedsErase
  <2> DEFINE c == EraseOp({sector}, "write")
  <2>1. /\ c \in Ops /\ c # Idle /\ c.kind = "erase" /\ c.on = {sector} /\ c.by = "write"
    BY <1>1, EraseIsOp
  <2>2. Send(c) /\ pc' = "erasing"
    BY <1>5 DEF Compare, EraseOp
  <2> HIDE DEF c
  <2>3. op' \in Ops /\ (op = Idle => op' = c) /\ (op # Idle => op' = op)
    BY <2>1, <2>2, <1>0, SendOp
  <2>4. FlashTypeOK'
    BY <1>0, <2>2, <2>3, Geometry DEF FlashTypeOK, Writing
  <2>5. RangeInv'
    BY <1>0, <2>2 DEF RangeInv, Writing
  <2>6. OpInv'
    BY <1>2, <1>4, <2>1, <2>2, <2>3 DEF OpInv
  <2>7. CalmInv'
    BY <1>0, <1>3, <2>1, <2>2, <2>3 DEF CalmInv, Writing
  <2> QED BY <2>4, <2>5, <2>6, <2>7 DEF FlashInv
<1>6. CASE ~ NeedsErase
  <2>1. pc' = "program" /\ op' = op
    BY <1>6 DEF Compare
  <2>2. FlashTypeOK'
    BY <1>0, <2>1, Geometry DEF FlashTypeOK, Writing
  <2>3. RangeInv'
    BY <1>0, <2>1 DEF RangeInv, Writing
  <2>4. OpInv'
    BY <1>2, <2>1 DEF OpInv
  <2>5. \A p \in Page : Block(p) \subseteq swap_buf[p]
    BY <1>6 DEF NeedsErase, Block
  <2>6. \A p \in Page : ~ (p < 0)
    BY Geometry
  <2>7. CalmInv'
    BY <1>0, <1>3, <1>4, <2>1, <2>5, <2>6 DEF CalmInv, Writing
  <2> QED BY <2>2, <2>3, <2>4, <2>7 DEF FlashInv
<1> QED BY <1>5, <1>6

LEMMA WaitErasedInv ==
  ASSUME FlashInv, WaitErased
  PROVE  FlashInv'
<1>0. /\ FlashTypeOK /\ RangeInv /\ pc = "erasing" /\ op = Idle /\ pc' = "program"
      /\ UNCHANGED <<mem, op, addr, length, data_buf, swap_buf, index, erase_unit, before, calm>>
  BY DEF FlashInv, WaitErased
<1>1. FlashTypeOK' /\ RangeInv' /\ OpInv'
  BY <1>0 DEF FlashTypeOK, RangeInv, OpInv, Writing
<1>2. sector' = sector /\ \A p : Block(p)' = Block(p)
  BY <1>0, SameCursor
<1>3. \A p \in Page : Block(p) \subseteq Bits /\ Erased[p] = Bits
  BY <1>0, BlockIsPage DEF Erased, Calls, Writing
<1>4. CalmInv'
  <2> SUFFICES ASSUME calm PROVE CalmInv'
    BY <1>0 DEF CalmInv
  <2>1. mem[sector] = Erased /\ swap_buf = before
    BY <1>0 DEF FlashInv, CalmInv
  <2>2. \A p \in Page : ~ (p < index)
    BY <1>0, Geometry DEF FlashInv, CalmInv
  <2> QED BY <1>0, <1>2, <1>3, <2>1, <2>2 DEF CalmInv, Writing
<1> QED BY <1>1, <1>4 DEF FlashInv

LEMMA PageProgramInv ==
  ASSUME FlashInv, PageProgram
  PROVE  FlashInv'
<1>0. /\ FlashTypeOK /\ RangeInv /\ pc = "program" /\ pc' = "programming" /\ index \in Page
      /\ UNCHANGED <<mem, addr, length, data_buf, swap_buf, index, erase_unit, before, calm>>
  BY DEF FlashInv, FlashTypeOK, PageProgram
<1>1. sector \in Sector /\ Block(index) \in SUBSET Bits
  BY <1>0, Cursor, BlockIsPage DEF Calls, Writing
<1> DEFINE c == ProgramOp({sector}, index, Block(index), "write")
<1>2. /\ c \in Ops /\ c # Idle /\ c.kind = "program" /\ c.on = {sector} /\ c.by = "write"
      /\ c.page = index /\ c.value = Block(index)
  BY <1>0, <1>1, ProgramIsOp
<1>3. Send(c)
  BY DEF PageProgram, ProgramOp
<1> HIDE DEF c
<1>4. op' \in Ops /\ (op = Idle => op' = c) /\ (op # Idle => op' = op)
  BY <1>0, <1>2, <1>3, SendOp
<1>5. op # Idle => op.by # "write"
  BY <1>0 DEF FlashInv, OpInv
<1>6. sector' = sector /\ \A p : Block(p)' = Block(p)
  BY <1>0, SameCursor
<1>7. FlashTypeOK' /\ RangeInv'
  BY <1>0, <1>4 DEF FlashTypeOK, RangeInv, Writing
<1>8. OpInv'
  BY <1>0, <1>2, <1>4, <1>5, <1>6 DEF OpInv
<1>9. CalmInv'
  <2> SUFFICES ASSUME calm PROVE CalmInv'
    BY <1>0 DEF CalmInv
  <2>1. op = Idle /\ swap_buf = before
    BY <1>5 DEF FlashInv, CalmInv
  <2>2. \A p \in Page : /\ p >= index => Block(p) \subseteq mem[sector][p]
                        /\ p < index => mem[sector][p] = Block(p)
    BY <1>0 DEF FlashInv, CalmInv
  <2>3. op' # Idle /\ op'.by = "write"
    BY <2>1, <1>2, <1>4
  <2> QED BY <1>0, <1>6, <2>1, <2>2, <2>3 DEF CalmInv, Writing
<1> QED BY <1>7, <1>8, <1>9 DEF FlashInv

LEMMA WaitProgrammedInv ==
  ASSUME FlashInv, WaitProgrammed
  PROVE  FlashInv'
<1>0. /\ FlashTypeOK /\ RangeInv /\ pc = "programming" /\ op = Idle /\ op' = Idle
      /\ mem' = mem /\ index \in Page /\ Idle \in Ops
  BY DEF FlashInv, FlashTypeOK, WaitProgrammed, Ops
<1>a. OpInv'
  BY <1>0 DEF OpInv
<1>1. CASE index = NPage - 1 /\ length = write_len
  BY <1>0, <1>1, ReturnInv DEF WaitProgrammed, NextSector, FlashTypeOK
<1>2. CASE index = NPage - 1 /\ length # write_len
  <2>1. /\ length' = length - write_len /\ addr' = addr + write_len /\ pc' = "read"
        /\ index' = 0 /\ calm' = FALSE /\ before' = Erased /\ swap_buf' = Erased
        /\ UNCHANGED <<data_buf, erase_unit>>
    BY <1>2 DEF WaitProgrammed, NextSector
  <2>2. addr \in Nat /\ length \in Nat /\ write_len \in 1 .. length
    BY <1>0, Cursor DEF Calls, Writing
  <2>3. addr + length <= NSec * NPage /\ \A c \in addr .. addr + length - 1 : data_buf[c] \in SUBSET Bits
    BY <1>0 DEF RangeInv, Writing
  <2>4. /\ addr' \in Nat /\ length' \in Nat /\ length' >= 1 /\ addr' + length' <= NSec * NPage
        /\ addr' .. addr' + length' - 1 \subseteq addr .. addr + length - 1
    BY <1>2, <2>1, <2>2, <2>3
  <2>5. addr' \in 0 .. NSec * NPage /\ length' \in 0 .. NSec * NPage
    BY <2>4, Geometry
  <2>6. FlashTypeOK'
    BY <1>0, <2>1, <2>5, Geometry DEF FlashTypeOK
  <2>7. RangeInv'
    BY <2>1, <2>3, <2>4 DEF RangeInv
  <2> QED BY <1>a, <2>1, <2>6, <2>7 DEF FlashInv, CalmInv
<1>3. CASE index # NPage - 1
  <2>1. /\ index' = index + 1 /\ pc' = "program"
        /\ UNCHANGED <<addr, length, data_buf, swap_buf, erase_unit, before, calm>>
    BY <1>3 DEF WaitProgrammed, NextPage
  <2>2. index' \in Page
    BY <1>0, <1>3, <2>1, Geometry DEF Page
  <2>3. FlashTypeOK' /\ RangeInv'
    BY <1>0, <2>1, <2>2 DEF FlashTypeOK, RangeInv, Writing
  <2>4. sector' = sector /\ \A p : Block(p)' = Block(p)
    BY <2>1, SameCursor
  <2>5. CalmInv'
    <3> SUFFICES ASSUME calm PROVE CalmInv'
      BY <2>1 DEF CalmInv
    <3>1. \A p \in Page : /\ p >= index => Block(p) \subseteq mem[sector][p]
                          /\ p < index \/ p = index => mem[sector][p] = Block(p)
      BY <1>0 DEF FlashInv, CalmInv
    <3>2. \A p \in Page : /\ p >= index + 1 => p >= index
                          /\ p < index + 1 => p < index \/ p = index
      BY <1>0, Geometry
    <3>3. swap_buf = before
      BY DEF FlashInv, CalmInv
    <3> QED BY <1>0, <2>1, <2>4, <3>1, <3>2, <3>3 DEF CalmInv, Writing
  <2> QED BY <1>a, <2>3, <2>5 DEF FlashInv
<1> QED BY <1>1, <1>2, <1>3

(* The largest erase command that fits exists: no command is longer than the   *)
(* range, so the search of hal_flash_erase ends.                               *)
LEMMA UnitFits ==
  ASSUME NEW a \in Nat, NEW n \in Nat \ {0}, Fits(a, n) # {}
  PROVE  \E b \in Fits(a, n) : EraseUnit(a, n) = NPage * b
<1> DEFINE F == Fits(a, n)
           S == {n - b : b \in F}
<1>1. \A b \in F : b \in Nat \ {0} /\ b <= n
  <2> SUFFICES ASSUME NEW b \in F PROVE b \in Nat \ {0} /\ b <= n
    OBVIOUS
  <2>1. b \in Nat \ {0} /\ n % (b * NPage) = 0
    BY GeometryAssumption DEF Fits
  <2>2. b * NPage \in Nat \ {0} /\ b <= b * NPage
    BY <2>1, Geometry
  <2>3. b * NPage <= n
    BY <2>1, <2>2, MultipleBound
  <2> QED BY <2>1, <2>2, <2>3
<1>2. S \subseteq Nat /\ S # {}
  BY <1>1
<1> HIDE DEF S
<1>3. PICK x \in S : \A y \in S : ~ (<<y, x>> \in OpToRel(<, Nat))
  BY <1>2, NatLessThanWellFounded, WFMin, Zenon
<1>a. \A y \in S : y < x => <<y, x>> \in OpToRel(<, Nat)
  BY <1>2 DEF OpToRel
<1>b. \A y \in S : ~ (y < x)
  BY <1>3, <1>a, Zenon
<1>4. \A y \in S : x <= y
  BY <1>2, <1>b
<1>5. PICK b \in F : x = n - b
  BY <1>3 DEF S
<1>6. \A c \in F : n - b <= n - c
  BY <1>4, <1>5 DEF S
<1>7. \A c \in F : c <= b
  BY <1>1, <1>5, <1>6
<1>8. (CHOOSE m \in F : \A c \in F : c <= m) \in F
  BY <1>7
<1> QED BY <1>8 DEF EraseUnit

LEMMA EraseCallInv ==
  ASSUME FlashInv, NEW a \in Address, NEW n \in 1 .. NSec * NPage, a + n <= NSec * NPage,
         Erase(a, n)
  PROVE  FlashInv'
<1>1. a \in Nat /\ n \in Nat \ {0} /\ Fits(a, n) # {}
  BY Geometry DEF Erase, Address
<1>2. PICK b \in Fits(a, n) : erase_unit' = NPage * b
  BY <1>1, UnitFits DEF Erase
<1>3. b \in Nat \ {0} /\ n % (b * NPage) = 0
  BY GeometryAssumption DEF Fits
<1>4. erase_unit' \in Nat \ {0} /\ erase_unit' = b * NPage
  BY <1>2, <1>3, Geometry
<1>5. /\ pc = "idle" /\ pc' = "erase" /\ addr' = a /\ length' = n
      /\ UNCHANGED <<mem, op, data_buf, swap_buf, index, before, calm>>
  BY DEF Erase
<1>6. FlashTypeOK'
  BY <1>1, <1>5, Geometry DEF FlashInv, FlashTypeOK
<1>7. RangeInv'
  BY <1>1, <1>3, <1>4, <1>5 DEF RangeInv, Writing
<1>8. OpInv' /\ CalmInv'
  BY <1>5 DEF FlashInv, OpInv, CalmInv, Writing
<1> QED BY <1>6, <1>7, <1>8 DEF FlashInv

LEMMA EraseNextInv ==
  ASSUME FlashInv, EraseNext
  PROVE  FlashInv'
<1>0. /\ FlashTypeOK /\ pc = "erase" /\ mem' = mem /\ mem \in [Sector -> Content]
  BY DEF FlashInv, FlashTypeOK, EraseNext
<1> DEFINE c == EraseOp(UnitAt(addr), "erase")
<1>1. c \in Ops /\ c # Idle /\ c.by = "erase"
  BY EraseIsOp DEF UnitAt
<1>2. Send(c)
  BY DEF EraseNext, EraseOp
<1> HIDE DEF c
<1>3. op' \in Ops /\ (op' = op \/ op' = c)
  BY <1>0, <1>1, <1>2, SendOp
<1>4. op' # Idle => op'.by # "write"
  BY <1>0, <1>1, <1>3 DEF FlashInv, OpInv
<1>5. CASE length = erase_unit
  BY <1>0, <1>3, <1>4, <1>5, ReturnInv DEF EraseNext
<1>6. CASE length # erase_unit
  <2>1. /\ addr' = addr + erase_unit /\ length' = length - erase_unit
        /\ UNCHANGED <<pc, data_buf, swap_buf, index, erase_unit, before, calm>>
    BY <1>6 DEF EraseNext
  <2>2. /\ erase_unit \in Nat \ {0} /\ length \in Nat \ {0} /\ addr \in Nat
        /\ addr + length <= NSec * NPage /\ length % erase_unit = 0
    BY <1>0, Geometry DEF FlashInv, FlashTypeOK, RangeInv
  <2>3. erase_unit <= length
    BY <2>2, MultipleBound
  <2>4. (length - erase_unit) % erase_unit = 0
    BY <2>2, <2>3, MultipleLess
  <2>5. /\ addr' \in 0 .. NSec * NPage /\ length' \in 0 .. NSec * NPage
        /\ length' >= 1 /\ addr' + length' <= NSec * NPage
    BY <1>6, <2>1, <2>2, <2>3, Geometry
  <2>6. FlashTypeOK'
    BY <1>0, <1>3, <2>1, <2>5 DEF FlashTypeOK
  <2>7. RangeInv'
    BY <1>0, <2>1, <2>2, <2>4, <2>5 DEF RangeInv, Writing
  <2>8. OpInv' /\ CalmInv'
    BY <1>0, <1>4, <2>1 DEF FlashInv, OpInv, CalmInv, Writing
  <2> QED BY <2>6, <2>7, <2>8 DEF FlashInv
<1> QED BY <1>5, <1>6

LEMMA ChipEraseInv ==
  ASSUME FlashInv, ChipErase
  PROVE  FlashInv'
<1>0. FlashTypeOK /\ pc = "idle" /\ UNCHANGED <<mem, pc, addr, length, data_buf, swap_buf, index,
                                                erase_unit, before, calm>>
  BY DEF FlashInv, ChipErase, call
<1> DEFINE c == EraseOp(Sector, "erase")
<1>1. c \in Ops /\ c # Idle /\ c.by = "erase"
  BY EraseIsOp
<1>2. Send(c)
  BY DEF ChipErase, EraseOp
<1> HIDE DEF c
<1>3. op' \in Ops /\ (op' = op \/ op' = c)
  BY <1>0, <1>1, <1>2, SendOp
<1>4. op' # Idle => op'.by # "write"
  BY <1>0, <1>1, <1>3 DEF FlashInv, OpInv
<1>5. FlashTypeOK' /\ RangeInv'
  BY <1>0, <1>3 DEF FlashInv, FlashTypeOK, RangeInv
<1> QED BY <1>0, <1>4, <1>5 DEF FlashInv, OpInv, CalmInv, Writing

LEMMA ResetInv ==
  ASSUME FlashInv, Reset
  PROVE  FlashInv'
<1>1. op \in Ops /\ mem' \in [Sector -> Content] /\ Return
  BY DEF FlashInv, FlashTypeOK, Reset
<1>2. op' \in Ops /\ (op' # Idle => op'.by # "write")
  <2>1. CASE op # Idle /\ op.by = "write"
    BY <2>1, <1>1, OpLost DEF Reset
  <2>2. CASE ~ (op # Idle /\ op.by = "write")
    BY <2>2, <1>1 DEF Reset
  <2> QED BY <2>1, <2>2
<1> QED BY <1>1, <1>2, ReturnInv

LEMMA PowerLossInv ==
  ASSUME FlashInv, PowerLoss
  PROVE  FlashInv'
<1>1. mem' \in [Sector -> Content] /\ Return /\ op' = Idle /\ Idle \in Ops
  BY DEF PowerLoss, Ops
<1> QED BY <1>1, ReturnInv

LEMMA FlashStepInv == FlashInv /\ [FlashNext]_flashVars => FlashInv'
<1> SUFFICES ASSUME FlashInv, [FlashNext]_flashVars PROVE FlashInv'
  OBVIOUS
<1>1. CASE \E a \in Address, n \in 1 .. NSec * NPage :
             /\ a + n <= NSec * NPage
             /\ \/ \E data \in [a .. a + n - 1 -> SUBSET Bits] : Write(a, n, data)
                \/ Erase(a, n)
  BY <1>1, WriteCallInv, EraseCallInv
<1>2. CASE ChipErase \/ ChipDone \/ Reset \/ PowerLoss
  BY <1>2, ChipEraseInv, ChipDoneInv, ResetInv, PowerLossInv
<1>3. CASE Step
  BY <1>3, ReadSectorInv, CompareInv, WaitErasedInv, PageProgramInv, WaitProgrammedInv,
     EraseNextInv DEF Step
<1>4. CASE UNCHANGED flashVars
  <2>1. UNCHANGED <<mem, op, pc, addr, length, data_buf, swap_buf, index, erase_unit, before, calm>>
    BY <1>4 DEF flashVars, call
  <2>2. sector' = sector /\ \A p : Block(p)' = Block(p)
    BY <2>1, SameCursor
  <2> QED BY <2>1, <2>2 DEF FlashInv, FlashTypeOK, RangeInv, OpInv, CalmInv
<1> QED BY <1>1, <1>2, <1>3, <1>4 DEF FlashNext

(* The range of every call, the chip's commands and the calls they belong to,  *)
(* and the state of a sector under read-modify-write, in every reachable state.*)
THEOREM FlashInvariance == FlashSpec => []FlashInv
BY FlashInitInv, FlashStepInv, PTL DEF FlashSpec

(* For any chip, page size and set of erase commands, any sequence of calls,   *)
(* resets and power losses: a page that a write programs after it read a quiet *)
(* chip can take its value, because the sector was erased whenever a page of   *)
(* the call needed a bit it did not have, and the other pages are put back as  *)
(* they were read.                                                             *)
THEOREM ProgramsTake == FlashSpec => []ProgramTakes
<1>1. FlashInv => ProgramTakes
  <2> SUFFICES ASSUME FlashInv, calm, op.kind = "program", op.by = "write"
               PROVE  op.value \subseteq mem[sector][op.page]
    BY DEF FlashInv, ProgramTakes
  <2>1. op # Idle
    BY DEF Idle
  <2>2. pc = "programming" /\ op.page = index /\ op.value = Block(index)
    BY <2>1 DEF FlashInv, OpInv
  <2>3. index \in Page /\ index >= index
    BY Geometry DEF FlashInv, FlashTypeOK
  <2> QED BY <2>2, <2>3 DEF FlashInv, CalmInv
<1> QED BY <1>1, FlashInvariance, PTL

-------------------------------------------------------------------------------
(* Flash implements FlashStore, step by step.  The addresses of the call that  *)
(* are left to write determine its sector, so the cell arithmetic of the code  *)
(* (addr / size, addr % size, the shorter of the rest and the sector) is the   *)
(* "lowest sector first" of FlashStore.                                        *)

Left == [c \in addr .. addr + length - 1 |-> data_buf[c]]
WriteJob == [kind |-> "write", sure |-> calm, data |-> Left]
RangeLeft == {s \in Sector : addr <= s * NPage /\ s * NPage < addr + length}
EraseJob == [kind |-> "erase", range |-> RangeLeft]

LEMMA StoreGeometry ==
  /\ Store!Sector = Sector /\ Store!Page = Page /\ Store!Content = Content
  /\ Store!Erased = Erased
  /\ Store!NoJob = [kind |-> "none"] /\ Store!Settled = [kind |-> "none", on |-> {}]
BY DEF Store!Sector, Sector, Store!Page, Page, Store!Content, Content, Store!Erased, Erased,
       Store!NoJob, Store!Settled

LEMMA JobIs ==
  /\ pc \in Calls => Job = WriteJob
  /\ pc = "erase" => Job = EraseJob
  /\ pc = "idle" => Job = Store!NoJob
BY DEF Job, WriteJob, EraseJob, RangeLeft, Left, Calls, Writing, Store!NoJob

LEMMA JobIsNext ==
  /\ pc' \in Calls => Job' = WriteJob'
  /\ pc' = "erase" => Job' = EraseJob'
  /\ pc' = "idle" => Job' = Store!NoJob
BY DEF Job, WriteJob, EraseJob, RangeLeft, Left, Calls, Writing, Store!NoJob

LEMMA WriteJobFields ==
  WriteJob.kind = "write" /\ WriteJob.sure = calm /\ WriteJob.data = Left /\ WriteJob # Store!NoJob
BY DEF WriteJob, Store!NoJob

LEMMA EraseJobFields ==
  EraseJob.kind = "erase" /\ EraseJob.range = RangeLeft /\ EraseJob # Store!NoJob
BY DEF EraseJob, Store!NoJob

LEMMA PendingIs ==
  ASSUME FlashInv
  PROVE  /\ op = Idle \/ op.by = "write" => Pending = Store!Settled
         /\ op # Idle /\ op.by # "write" =>
              /\ Pending = [kind |-> op.by, on |-> op.on] /\ Pending # Store!Settled
              /\ Pending.kind = op.by /\ Pending.on = op.on
         /\ Pending.on \in SUBSET Sector
<1>0. op \in Ops
  BY DEF FlashInv, FlashTypeOK
<1>1. op = Idle \/ op.by = "write" => Pending = Store!Settled
  BY DEF Pending, Store!Settled
<1>2. ASSUME op # Idle, op.by # "write"
      PROVE  /\ Pending = [kind |-> op.by, on |-> op.on] /\ Pending # Store!Settled
             /\ Pending.kind = op.by /\ Pending.on = op.on
             /\ op.on \in SUBSET Sector
  <2>1. op.by \in {"erase", "lost"} /\ op.on \in SUBSET Sector
    BY <1>0, <1>2, OpShape
  <2>2. Pending = [kind |-> op.by, on |-> op.on]
    BY <1>2 DEF Pending
  <2> QED BY <2>1, <2>2 DEF Store!Settled
<1>3. Store!Settled.on = {}
  BY DEF Store!Settled
<1> QED BY <1>1, <1>2, <1>3

(* Cells.                                                                      *)
LEMMA CellsAre ==
  ASSUME NEW s \in Sector
  PROVE  \A c : c \in Store!CellsOf(s) <=> c \in s * NPage .. s * NPage + NPage - 1
<1>1. s * NPage \in Nat /\ NPage \in Nat \ {0}
  BY GeometryAssumption DEF Sector
<1>2. \A c : c \in Store!CellsOf(s) <=> \E p \in 0 .. NPage - 1 : c = s * NPage + p
  BY DEF Store!CellsOf, Store!Cell, Store!Page
<1>3. ASSUME NEW c \in s * NPage .. s * NPage + NPage - 1
      PROVE  c - s * NPage \in 0 .. NPage - 1 /\ c = s * NPage + (c - s * NPage)
  BY <1>1
<1>4. ASSUME NEW p \in 0 .. NPage - 1
      PROVE  s * NPage + p \in s * NPage .. s * NPage + NPage - 1
  BY <1>1
<1> QED BY <1>2, <1>3, <1>4

LEMMA FirstIsSector ==
  ASSUME FlashInv, pc \in Calls
  PROVE  Store!First(Left) = sector
<1>0. /\ sector \in Sector /\ sector_offset \in Page /\ addr = sector * NPage + sector_offset
      /\ addr \in Nat /\ length \in Nat \ {0} /\ NPage \in Nat \ {0}
  BY Cursor DEF FlashInv
<1>a. \A s \in Sector : s \in Nat /\ s * NPage \in Nat
  BY GeometryAssumption DEF Sector
<1>1. DOMAIN Left = addr .. addr + length - 1
  BY DEF Left
<1> DEFINE P(s) == /\ Store!CellsOf(s) \cap DOMAIN Left # {}
                   /\ \A r \in Sector : r < s => Store!CellsOf(r) \cap DOMAIN Left = {}
<1>2. Store!CellsOf(sector) \cap DOMAIN Left # {}
  <2>1. addr \in sector * NPage .. sector * NPage + NPage - 1
    BY <1>0, <1>a DEF Page
  <2>2. addr \in DOMAIN Left
    BY <1>0, <1>1
  <2> QED BY <2>1, <2>2, <1>0, CellsAre
<1>3. ASSUME NEW r \in Sector, r < sector
      PROVE  Store!CellsOf(r) \cap DOMAIN Left = {}
  <2>1. r * NPage + NPage <= sector * NPage
    BY <1>0, <1>a, <1>3, TimesMonotone
  <2>2. \A c \in r * NPage .. r * NPage + NPage - 1 : c \notin addr .. addr + length - 1
    BY <1>0, <1>a, <2>1 DEF Page
  <2> QED BY <2>2, <1>1, CellsAre
<1>4. ASSUME NEW s \in Sector, P(s)
      PROVE  s = sector
  <2>1. ~ (s < sector)
    BY <1>3, <1>4
  <2>2. ~ (sector < s)
    BY <1>0, <1>2, <1>4
  <2> QED BY <1>0, <1>a, <2>1, <2>2
<1>5. P(sector)
  BY <1>2, <1>3
<1>6. Store!First(Left) = CHOOSE s \in Sector : P(s)
  BY StoreGeometry DEF Store!First
<1> HIDE DEF P
<1> QED BY <1>0, <1>4, <1>5, <1>6

(* Merging the data into the sector gives, page by page, what is programmed.   *)
LEMMA MergeIsBlock ==
  ASSUME FlashInv, pc \in Calls, swap_buf = before
  PROVE  Store!Merge(before, Left, sector) = [p \in Page |-> Block(p)]
<1>0. sector \in Sector /\ \A p \in Page : p \in Touched <=> sector * NPage + p \in addr .. addr + length - 1
  BY Cursor DEF FlashInv
<1>1. \A p \in Page : (IF Store!Cell(sector, p) \in DOMAIN Left THEN Left[Store!Cell(sector, p)]
                       ELSE before[p]) = Block(p)
  BY <1>0 DEF Store!Cell, Left, Block, DataAt
<1> QED BY <1>1, StoreGeometry DEF Store!Merge

LEMMA RestIs ==
  ASSUME FlashInv, pc \in Calls
  PROVE  /\ length = write_len => DOMAIN Store!Rest(Left, sector) = {}
         /\ length # write_len =>
              /\ Store!Rest(Left, sector) =
                   [c \in addr + write_len .. addr + length - 1 |-> data_buf[c]]
              /\ DOMAIN Store!Rest(Left, sector) # {}
<1>0. /\ sector \in Sector /\ sector_offset \in Page /\ addr = sector * NPage + sector_offset
      /\ addr \in Nat /\ length \in Nat \ {0} /\ NPage \in Nat \ {0}
      /\ write_len \in 1 .. length /\ sector_offset + write_len <= NPage
      /\ write_len = length \/ sector_offset + write_len = NPage
  BY Cursor DEF FlashInv
<1>a. sector * NPage \in Nat
  BY GeometryAssumption, <1>0 DEF Sector
<1>1. DOMAIN Left = addr .. addr + length - 1 /\ \A c \in DOMAIN Left : Left[c] = data_buf[c]
  BY DEF Left
<1> DEFINE D == DOMAIN Left \ Store!CellsOf(sector)
<1>2. \A c : c \in D <=> /\ c \in addr .. addr + length - 1
                         /\ c \notin sector * NPage .. sector * NPage + NPage - 1
  BY <1>0, <1>1, CellsAre
<1>3. Store!Rest(Left, sector) = [c \in D |-> Left[c]] /\ D \subseteq DOMAIN Left
  BY DEF Store!Rest
<1> HIDE DEF D
<1>b. DOMAIN Store!Rest(Left, sector) = D
  BY <1>3
<1>4. CASE length = write_len
  <2>1. \A c \in addr .. addr + length - 1 : c \in sector * NPage .. sector * NPage + NPage - 1
    BY <1>0, <1>a, <1>4 DEF Page
  <2> QED BY <2>1, <1>2, <1>b, <1>4
<1>5. CASE length # write_len
  <2>1. \A c \in Int : c \in addr + write_len .. addr + length - 1 <=>
          /\ c \in addr .. addr + length - 1
          /\ c \notin sector * NPage .. sector * NPage + NPage - 1
    BY <1>0, <1>a, <1>5 DEF Page
  <2>a. \A c : (c \in addr + write_len .. addr + length - 1 \/ c \in addr .. addr + length - 1)
                  => c \in Int
    BY <1>0
  <2>2. D = addr + write_len .. addr + length - 1
    BY <2>1, <2>a, <1>2
  <2>3. addr + length - 1 \in D
    BY <2>2, <1>0, <1>5
  <2> QED BY <2>2, <2>3, <1>1, <1>3, <1>b, <1>5
<1> QED BY <1>4, <1>5

(* What the mapping shows of the chip.                                         *)
SeenOk ==
  /\ StoreSeen \in [Sector -> Content]
  /\ \A s \in Sector : StoreSeen[s] = IF pc \in Writing /\ s = sector THEN before ELSE mem[s]

LEMMA SeenIs == FlashInv => SeenOk
BY DEF SeenOk, StoreSeen, FlashInv, FlashTypeOK

LEMMA SeenIsNext == FlashInv' => SeenOk'
BY SeenIs, PTL

(* A step that leaves alone what the mapping shows.                            *)
LEMMA Unseen ==
  ASSUME StoreSeen' = StoreSeen, Pending' = Pending, Job' = Job
  PROVE  UNCHANGED Store!svars
BY DEF Store!svars

LEMMA InitStore == FlashInit => Store!Init
<1> SUFFICES ASSUME FlashInit PROVE Store!Init
  OBVIOUS
<1>1. pc = "idle" /\ op = Idle /\ mem \in [Sector -> Content] /\ pc \notin Writing
  BY DEF FlashInit, Writing
<1>2. StoreSeen \in [Sector -> Content]
  BY <1>1 DEF StoreSeen
<1>3. Pending = Store!Settled /\ Job = Store!NoJob
  BY <1>1, JobIs DEF Pending, Store!Settled
<1> QED BY <1>2, <1>3, StoreGeometry DEF Store!Init

LEMMA WriteStore ==
  ASSUME FlashInv, FlashInv', NEW a \in Address, NEW n \in 1 .. NSec * NPage,
         a + n <= NSec * NPage, NEW data \in [a .. a + n - 1 -> SUBSET Bits], Write(a, n, data)
  PROVE  Store!Next
<1>1. /\ pc = "idle" /\ pc' = "read" /\ addr' = a /\ length' = n /\ data_buf' = data
      /\ calm' = FALSE /\ UNCHANGED <<mem, op, before>>
  BY DEF Write
<1>2. StoreSeen' = StoreSeen /\ Pending' = Pending
  BY <1>1 DEF StoreSeen, Pending, Writing
<1>3. Job = Store!NoJob /\ Job' = WriteJob'
  BY <1>1, JobIs, JobIsNext DEF Calls
<1>4. Left' = data
  BY <1>1 DEF Left
<1>5. Job' = [kind |-> "write", data |-> data, sure |-> FALSE]
  BY <1>1, <1>3, <1>4 DEF WriteJob
<1>6. Store!Write(data)
  BY <1>2, <1>3, <1>5 DEF Store!Write
<1> DEFINE b == a + n - 1
<1>7. a \in 0 .. NSec * NPage - 1 /\ b \in 0 .. NSec * NPage - 1 /\ a <= b
  BY Geometry DEF Address
<1>8. data \in [a .. b -> SUBSET Bits]
  OBVIOUS
<1> HIDE DEF b
<1> QED BY <1>6, <1>7, <1>8 DEF Store!Next

LEMMA ReadStore ==
  ASSUME FlashInv, FlashInv', ReadSector
  PROVE  Store!Look
<1>1. /\ pc = "read" /\ pc' = "compare" /\ before' = mem[sector] /\ calm' = (op = Idle)
      /\ UNCHANGED <<mem, op, addr, length, data_buf>>
  BY DEF ReadSector
<1>2. sector' = sector /\ Left' = Left
  BY <1>1 DEF sector, Left
<1>3. StoreSeen' = StoreSeen
  BY <1>1, <1>2 DEF StoreSeen, Writing
<1>4. Pending' = Pending /\ (Pending = Store!Settled <=> op = Idle)
  <2>1. op # Idle => op.by # "write"
    BY <1>1 DEF FlashInv, OpInv
  <2> QED BY <1>1, <2>1, PendingIs DEF Pending
<1>5. Job = WriteJob /\ Job' = WriteJob'
  BY <1>1, JobIs, JobIsNext DEF Calls, Writing
<1>6. WriteJob' = [WriteJob EXCEPT !.sure = (Pending = Store!Settled)]
  BY <1>1, <1>2, <1>4 DEF WriteJob
<1> QED BY <1>3, <1>4, <1>5, <1>6, WriteJobFields DEF Store!Look, Store!InWrite

(* The steps of the read-modify-write that the store does not show.            *)
LEMMA InnerUnseen ==
  ASSUME FlashInv, FlashInv', pc \in Writing, pc' \in Writing,
         UNCHANGED <<mem, addr, length, data_buf, before, calm>>,
         op' = op \/ (op = Idle /\ op' # Idle /\ op'.by = "write")
  PROVE  UNCHANGED Store!svars
<1>1. sector' = sector /\ Left' = Left /\ StoreSeen' = StoreSeen
  BY DEF sector, Left, StoreSeen
<1>2. Job' = Job
  BY <1>1, JobIs, JobIsNext DEF Calls, WriteJob
<1>3. Pending' = Pending
  BY DEF Pending
<1> QED BY <1>1, <1>2, <1>3, Unseen

LEMMA InnerStore ==
  ASSUME FlashInv, FlashInv', Compare \/ WaitErased \/ PageProgram
  PROVE  UNCHANGED Store!svars
<1>0. FlashTypeOK /\ RangeInv
  BY DEF FlashInv
<1>1. CASE Compare
  <2>1. /\ pc \in Writing /\ pc' \in Writing
        /\ UNCHANGED <<mem, addr, length, data_buf, before, calm>>
    BY <1>1 DEF Compare, Writing
  <2>2. sector \in Sector
    BY <1>0, <2>1, Cursor DEF Calls
  <2> DEFINE c == EraseOp({sector}, "write")
  <2>3. c # Idle /\ c.by = "write"
    BY <2>2, EraseIsOp
  <2>4. op' = op \/ (op = Idle /\ op' = c)
    BY <1>1 DEF Compare, Send, EraseOp
  <2> HIDE DEF c
  <2> QED BY <2>1, <2>3, <2>4, InnerUnseen
<1>2. CASE WaitErased
  BY <1>2, InnerUnseen DEF WaitErased, Writing
<1>3. CASE PageProgram
  <2>1. /\ pc \in Writing /\ pc' \in Writing
        /\ UNCHANGED <<mem, addr, length, data_buf, before, calm>>
    BY <1>3 DEF PageProgram, Writing
  <2>2. sector \in Sector /\ index \in Page /\ Block(index) \in SUBSET Bits
    BY <1>0, <2>1, Cursor, BlockIsPage DEF Calls, FlashTypeOK
  <2> DEFINE c == ProgramOp({sector}, index, Block(index), "write")
  <2>3. c # Idle /\ c.by = "write"
    BY <2>2, ProgramIsOp
  <2>4. op' = op \/ (op = Idle /\ op' = c)
    BY <1>3 DEF PageProgram, Send, ProgramOp
  <2> HIDE DEF c
  <2> QED BY <2>1, <2>3, <2>4, InnerUnseen
<1> QED BY <1>1, <1>2, <1>3

(* The last page of a sector is programmed: the sector is replaced.            *)
LEMMA CommitStore ==
  ASSUME FlashInv, FlashInv', pc = "programming", op = Idle, index = NPage - 1, NextSector,
         UNCHANGED <<mem, op>>
  PROVE  Store!Commit
<1>0. FlashTypeOK /\ RangeInv /\ pc \in Writing /\ pc \in Calls /\ pc' \notin Writing
  BY DEF FlashInv, NextSector, Return, Calls, Writing
<1>1. sector \in Sector
  BY <1>0, Cursor
<1>2. /\ Job = WriteJob /\ Job.kind = "write" /\ Job.data = Left /\ Job.sure = calm
      /\ Store!First(Job.data) = sector
  BY <1>0, JobIs, WriteJobFields, FirstIsSector
<1>3. /\ StoreSeen \in [Sector -> Content] /\ StoreSeen' \in [Sector -> Content]
      /\ StoreSeen[sector] = before /\ StoreSeen'[sector] = mem[sector]
      /\ \A s \in Sector \ {sector} : StoreSeen'[s] = StoreSeen[s]
  BY <1>0, <1>1, SeenIs, SeenIsNext DEF SeenOk
<1>4. StoreSeen' \in Store!Harmed({sector})
  BY <1>3, StoreGeometry DEF Store!Harmed
<1>5. calm => StoreSeen'[sector] = Store!Merge(StoreSeen[sector], Left, sector)
  <2> SUFFICES ASSUME calm PROVE mem[sector] = Store!Merge(before, Left, sector)
    BY <1>3
  <2>1. swap_buf = before /\ \A p \in Page : p < index \/ p = index => mem[sector][p] = Block(p)
    BY DEF FlashInv, CalmInv
  <2>2. \A p \in Page : p < index \/ p = index
    BY Geometry DEF Page
  <2>3. mem[sector] \in Content
    BY <1>0, <1>1 DEF FlashTypeOK
  <2>4. mem[sector] = [p \in Page |-> Block(p)]
    BY <2>1, <2>2, <2>3 DEF Content
  <2> QED BY <2>1, <2>4, <1>0, MergeIsBlock
<1>6. Job' = IF DOMAIN Store!Rest(Left, sector) = {} THEN Store!NoJob
             ELSE [kind |-> "write", data |-> Store!Rest(Left, sector), sure |-> FALSE]
  <2>1. CASE length = write_len
    <3>1. Job' = Store!NoJob
      BY <2>1, JobIsNext DEF NextSector, Return
    <3> QED BY <3>1, <2>1, <1>0, RestIs
  <2>2. CASE length # write_len
    <3>1. /\ length' = length - write_len /\ addr' = addr + write_len /\ pc' = "read"
          /\ calm' = FALSE /\ data_buf' = data_buf
      BY <2>2 DEF NextSector
    <3>2. addr \in Nat /\ length \in Nat /\ write_len \in Nat
      BY <1>0, Cursor
    <3>3. addr' + length' - 1 = addr + length - 1
      BY <3>1, <3>2
    <3>4. Left' = [c \in addr + write_len .. addr + length - 1 |-> data_buf[c]]
      BY <3>1, <3>3 DEF Left
    <3>5. Left' = Store!Rest(Left, sector) /\ DOMAIN Store!Rest(Left, sector) # {}
      BY <3>4, <2>2, <1>0, RestIs
    <3>6. Job' = [kind |-> "write", data |-> Left', sure |-> FALSE]
      BY <3>1, JobIsNext DEF Calls, WriteJob
    <3> QED BY <3>5, <3>6
  <2> QED BY <2>1, <2>2
<1>7. Pending' = Pending
  BY DEF Pending
<1> QED BY <1>2, <1>4, <1>5, <1>6, <1>7 DEF Store!Commit, Store!InWrite

LEMMA WaitProgrammedStore ==
  ASSUME FlashInv, FlashInv', WaitProgrammed
  PROVE  Store!Commit \/ UNCHANGED Store!svars
<1>1. CASE index = NPage - 1
  BY <1>1, CommitStore DEF WaitProgrammed
<1>2. CASE index # NPage - 1
  BY <1>2, InnerUnseen DEF WaitProgrammed, NextPage, Writing
<1> QED BY <1>1, <1>2

(* The end of a command of the write is not seen; that of any other command    *)
(* is, on the sector under read-modify-write too.                              *)
LEMMA ChipDoneStore ==
  ASSUME FlashInv, FlashInv', ChipDone
  PROVE  Store!Settle \/ UNCHANGED Store!svars
<1>0. /\ FlashTypeOK /\ RangeInv /\ op # Idle /\ op \in Ops /\ op' = Idle
      /\ UNCHANGED <<pc, addr, length, data_buf, swap_buf, index, erase_unit, calm>>
  BY DEF FlashInv, FlashTypeOK, ChipDone
<1>1. sector' = sector /\ Left' = Left /\ RangeLeft' = RangeLeft
  BY <1>0 DEF sector, Left, RangeLeft
<1>2. Job' = Job
  BY <1>0 DEF Job
<1>3. SeenOk /\ SeenOk' /\ op.on \in SUBSET Sector
  BY <1>0, SeenIs, SeenIsNext, OpShape
<1>4. mem' = [s \in Sector |-> IF s \in op.on THEN Effect(s) ELSE mem[s]]
  BY DEF ChipDone
<1>5. Pending' = Store!Settled
  BY <1>0 DEF Pending, Store!Settled
<1>6. CASE op.by = "write"
  <2>1. pc \in Writing /\ op.on = {sector} /\ before' = before
    BY <1>0, <1>6 DEF FlashInv, OpInv, Writing, ChipDone
  <2>2. \A s \in Sector : s # sector => mem'[s] = mem[s]
    BY <2>1, <1>4
  <2>3. \A s \in Sector : StoreSeen'[s] = StoreSeen[s]
    BY <2>1, <2>2, <1>0, <1>1, <1>3 DEF SeenOk
  <2>4. StoreSeen' = StoreSeen
    BY <2>3, <1>3 DEF SeenOk
  <2>5. Pending' = Pending
    BY <1>5, <1>6, PendingIs
  <2> QED BY <2>4, <2>5, <1>2, Unseen
<1>7. CASE op.by # "write"
  <2>1. Pending # Store!Settled /\ Pending.kind = op.by /\ Pending.on = op.on
    BY <1>0, <1>7, PendingIs
  <2>2. \A s \in Sector \ op.on : StoreSeen'[s] = StoreSeen[s]
    <3> SUFFICES ASSUME NEW s \in Sector, s \notin op.on PROVE StoreSeen'[s] = StoreSeen[s]
      OBVIOUS
    <3>1. mem'[s] = mem[s]
      BY <1>4
    <3>2. s = sector => before' = before
      BY DEF ChipDone
    <3> QED BY <3>1, <3>2, <1>0, <1>1, <1>3 DEF SeenOk
  <2>3. \A s \in op.on : StoreSeen'[s] = mem'[s]
    <3> SUFFICES ASSUME NEW s \in op.on PROVE StoreSeen'[s] = mem'[s]
      OBVIOUS
    <3>1. s = sector /\ pc \in Writing => before' = mem'[sector]
      BY <1>7 DEF ChipDone, Writing
    <3> QED BY <3>1, <1>0, <1>1, <1>3 DEF SeenOk
  <2>4. op.by = "erase" => \A s \in op.on : mem'[s] = Erased
    <3>1. op.by = "erase" => op.kind = "erase"
      BY <1>0, OpShape
    <3> QED BY <3>1, <1>0, <1>3, <1>4, EffectIsContent
  <2>5. StoreSeen' \in Store!Harmed(Pending.on)
    BY <2>1, <2>2, <1>3, StoreGeometry DEF Store!Harmed, SeenOk
  <2>6. Pending.kind = "erase" => \A s \in Pending.on : StoreSeen'[s] = Store!Erased
    BY <2>1, <2>3, <2>4, StoreGeometry
  <2> QED BY <2>1, <2>5, <2>6, <1>2, <1>5 DEF Store!Settle
<1> QED BY <1>6, <1>7

(* A range of whole sectors, as the sectors of FlashStore.                     *)
LEMMA WholeSectors ==
  ASSUME NEW a \in Nat, NEW n \in Nat \ {0}, a + n <= NSec * NPage, Fits(a, n) # {}
  PROVE  \E i, j \in Sector :
           {s \in Sector : a <= s * NPage /\ s * NPage < a + n} = i .. j
<1>0. NPage \in Nat \ {0} /\ NSec \in Nat \ {0} /\ NSec * NPage \in Nat
  BY GeometryAssumption
<1>1. PICK b \in Fits(a, n) : TRUE
  OBVIOUS
<1>2. b \in Nat \ {0} /\ a % (b * NPage) = 0 /\ n % (b * NPage) = 0
  BY GeometryAssumption DEF Fits
<1>3. a % NPage = 0 /\ n % NPage = 0
  BY <1>0, <1>2, MultipleOfPart
<1> DEFINE i == a \div NPage
           k == n \div NPage
           j == i + k - 1
<1>4. i \in Nat /\ k \in Nat /\ a = i * NPage /\ n = k * NPage
  BY <1>0, <1>3, Quotient, Division
<1> HIDE DEF i, k
<1>5. k >= 1
  <2>1. k = 0 => k * NPage = 0
    BY <1>0
  <2> QED BY <2>1, <1>4
<1>6. (i + k) * NPage = a + n /\ i + k \in Nat /\ j \in Nat
  BY <1>0, <1>4, <1>5
<1>7. i + k <= NSec
  <2>1. NSec < i + k => NSec * NPage + NPage <= (i + k) * NPage
    BY <1>0, <1>6, TimesMonotone
  <2> QED BY <2>1, <1>0, <1>6
<1>8. i \in Sector /\ j \in Sector
  BY <1>0, <1>4, <1>5, <1>6, <1>7 DEF Sector
<1>9. ASSUME NEW s \in Sector
      PROVE  a <= s * NPage /\ s * NPage < a + n <=> s \in i .. j
  <2>0. s \in Nat /\ s * NPage \in Nat
    BY <1>0 DEF Sector
  <2>1. s < i => s * NPage + NPage <= i * NPage
    BY <1>0, <1>4, <2>0, TimesMonotone
  <2>2. i < s => i * NPage + NPage <= s * NPage
    BY <1>0, <1>4, <2>0, TimesMonotone
  <2>3. s < i + k => s * NPage + NPage <= (i + k) * NPage
    BY <1>0, <1>6, <2>0, TimesMonotone
  <2>4. i + k < s => (i + k) * NPage + NPage <= s * NPage
    BY <1>0, <1>6, <2>0, TimesMonotone
  <2>5. a <= s * NPage <=> i <= s
    BY <1>0, <1>4, <2>0, <2>1, <2>2
  <2>6. s * NPage < a + n <=> s < i + k
    BY <1>0, <1>4, <1>6, <2>0, <2>3, <2>4
  <2> QED BY <2>0, <2>5, <2>6, <1>4, <1>6
<1>10. i .. j \subseteq Sector
  BY <1>0, <1>4, <1>6, <1>8 DEF Sector
<1> HIDE DEF j
<1>11. {s \in Sector : a <= s * NPage /\ s * NPage < a + n} = i .. j
  BY <1>9, <1>10
<1> QED BY <1>8, <1>11

LEMMA EraseStore ==
  ASSUME FlashInv, FlashInv', NEW a \in Address, NEW n \in 1 .. NSec * NPage,
         a + n <= NSec * NPage, Erase(a, n)
  PROVE  Store!Next
<1>1. /\ pc = "idle" /\ pc' = "erase" /\ addr' = a /\ length' = n /\ Fits(a, n) # {}
      /\ UNCHANGED <<mem, op, before>>
  BY DEF Erase
<1>2. StoreSeen' = StoreSeen /\ Pending' = Pending
  BY <1>1 DEF StoreSeen, Pending, Writing
<1>3. a \in Nat /\ n \in Nat \ {0}
  BY Geometry DEF Address
<1>4. PICK i, j \in Sector : {s \in Sector : a <= s * NPage /\ s * NPage < a + n} = i .. j
  BY <1>1, <1>3, WholeSectors
<1>5. Job = Store!NoJob /\ Job' = [kind |-> "erase", range |-> i .. j]
  BY <1>1, <1>4, JobIs, JobIsNext DEF EraseJob, RangeLeft
<1>6. Store!Erase(i .. j)
  BY <1>2, <1>5 DEF Store!Erase
<1> QED BY <1>4, <1>6, StoreGeometry DEF Store!Next

LEMMA EraseNextStore ==
  ASSUME FlashInv, FlashInv', EraseNext
  PROVE  Store!EraseSome \/ Store!EraseIgnored
<1>0. FlashTypeOK /\ pc = "erase" /\ mem' = mem /\ pc' \in {"erase", "idle"}
  BY DEF FlashInv, EraseNext, Return
<1>1. /\ erase_unit \in Nat \ {0} /\ length \in Nat \ {0} /\ addr \in Nat
      /\ length % erase_unit = 0
  BY <1>0, Geometry DEF FlashInv, FlashTypeOK, RangeInv
<1>2. erase_unit <= length
  BY <1>1, MultipleBound
<1>3. UnitAt(addr) \subseteq RangeLeft
  <2>1. \A s \in Sector : s * NPage \in Nat
    BY GeometryAssumption DEF Sector
  <2> QED BY <2>1, <1>1, <1>2 DEF UnitAt, RangeLeft
<1>4. StoreSeen' = StoreSeen
  BY <1>0 DEF StoreSeen, Writing
<1>5. Job = EraseJob /\ Job.kind = "erase" /\ Job.range = RangeLeft
  BY <1>0, JobIs, EraseJobFields
<1>6. Job' \in Store!Narrower
  <2>1. CASE length = erase_unit
    BY <2>1, JobIsNext DEF EraseNext, Return, Store!Narrower
  <2>2. CASE length # erase_unit
    <3>1. addr' = addr + erase_unit /\ length' = length - erase_unit /\ pc' = "erase"
      BY <2>2, <1>0 DEF EraseNext
    <3>2. \A s \in Sector : s * NPage \in Nat
      BY GeometryAssumption DEF Sector
    <3>3. RangeLeft' \subseteq RangeLeft
      BY <3>1, <3>2, <1>1, <1>2 DEF RangeLeft
    <3>4. Job' = [kind |-> "erase", range |-> RangeLeft']
      BY <3>1, JobIsNext DEF EraseJob
    <3> QED BY <3>3, <3>4, <1>5 DEF Store!Narrower
  <2> QED BY <2>1, <2>2
<1> DEFINE c == EraseOp(UnitAt(addr), "erase")
<1>7. c # Idle /\ c.by = "erase" /\ c.on = UnitAt(addr)
  BY EraseIsOp DEF UnitAt
<1>8. op' = IF op = Idle THEN c ELSE op
  BY DEF EraseNext, Send, EraseOp
<1> HIDE DEF c
<1>9. CASE op = Idle
  <2>1. Pending = Store!Settled
    BY <1>9, PendingIs
  <2>2. Pending' = [kind |-> "erase", on |-> UnitAt(addr)]
    BY <1>7, <1>8, <1>9 DEF Pending
  <2> QED BY <2>1, <2>2, <1>3, <1>4, <1>5, <1>6 DEF Store!EraseSome
<1>10. CASE op # Idle
  <2>1. op.by # "write"
    BY <1>0, <1>10 DEF FlashInv, OpInv
  <2>2. Pending # Store!Settled /\ Pending' = Pending
    BY <2>1, <1>8, <1>10, PendingIs DEF Pending
  <2> QED BY <2>2, <1>4, <1>5, <1>6 DEF Store!EraseIgnored
<1> QED BY <1>9, <1>10

LEMMA ChipEraseStore ==
  ASSUME FlashInv, FlashInv', ChipErase
  PROVE  Store!ChipErase \/ UNCHANGED Store!svars
<1>1. pc = "idle" /\ UNCHANGED <<mem, pc, addr, length, data_buf, before, calm>>
  BY DEF ChipErase, call
<1>2. StoreSeen' = StoreSeen /\ Job' = Job /\ Job = Store!NoJob
  BY <1>1, JobIs, JobIsNext DEF StoreSeen, Writing
<1> DEFINE c == EraseOp(Sector, "erase")
<1>3. c # Idle /\ c.by = "erase" /\ c.on = Sector
  BY EraseIsOp
<1>4. op' = IF op = Idle THEN c ELSE op
  BY DEF ChipErase, Send, EraseOp
<1> HIDE DEF c
<1>5. CASE op = Idle
  <2>1. Pending = Store!Settled
    BY <1>5, PendingIs
  <2>2. Pending' = [kind |-> "erase", on |-> Sector]
    BY <1>3, <1>4, <1>5 DEF Pending
  <2> QED BY <2>1, <2>2, <1>2, StoreGeometry DEF Store!ChipErase
<1>6. CASE op # Idle
  <2>1. Pending' = Pending
    BY <1>4, <1>6 DEF Pending
  <2> QED BY <2>1, <1>2, Unseen
<1> QED BY <1>5, <1>6

(* What a restart may harm of the call under way: its sector.                  *)
LEMMA DoubtfulIs ==
  ASSUME FlashInv
  PROVE  /\ pc \in Writing => Store!Doubtful = {sector} /\ sector \in Sector
         /\ op # Idle /\ op.by = "write" => pc \in Writing /\ op.on = {sector}
<1>1. ASSUME pc \in Writing
      PROVE  Store!Doubtful = {sector} /\ sector \in Sector
  <2>1. pc \in Calls
    BY <1>1 DEF Calls
  <2>2. Job.kind = "write" /\ Job.data = Left
    BY <2>1, JobIs, WriteJobFields
  <2>3. Store!First(Job.data) = sector /\ sector \in Sector
    BY <2>1, <2>2, FirstIsSector, Cursor DEF FlashInv
  <2> QED BY <2>2, <2>3 DEF Store!Doubtful, Store!InWrite
<1>2. op # Idle /\ op.by = "write" => pc \in Writing /\ op.on = {sector}
  BY DEF FlashInv, OpInv, Writing
<1> QED BY <1>1, <1>2

LEMMA ResetStore ==
  ASSUME FlashInv, FlashInv', Reset
  PROVE  Store!Restart
<1>1. Return /\ mem' = mem /\ pc' = "idle" /\ pc' \notin Writing /\ op \in Ops
  BY DEF Reset, Return, Writing, FlashInv, FlashTypeOK
<1>2. Job' = Store!NoJob
  BY <1>1, JobIsNext
<1>3. SeenOk /\ SeenOk'
  BY SeenIs, SeenIsNext
<1>4. StoreSeen' \in Store!Harmed(Store!Doubtful)
  <2>1. \A s \in Sector \ Store!Doubtful : StoreSeen'[s] = StoreSeen[s]
    BY <1>1, <1>3, DoubtfulIs DEF SeenOk
  <2> QED BY <2>1, <1>3, StoreGeometry DEF Store!Harmed, SeenOk
<1>5. \/ Pending' = Pending
      \/ Pending = Store!Settled /\ Pending' = [kind |-> "lost", on |-> Store!Doubtful]
  <2>1. CASE op # Idle /\ op.by = "write"
    <3>1. op' # Idle /\ op'.by = "lost" /\ op'.on = op.on
      BY <2>1, <1>1, OpLost DEF Reset
    <3>2. op.on = Store!Doubtful
      BY <2>1, DoubtfulIs
    <3>3. Pending' = [kind |-> "lost", on |-> op.on]
      BY <3>1 DEF Pending
    <3> QED BY <2>1, <3>2, <3>3, PendingIs
  <2>2. CASE ~ (op # Idle /\ op.by = "write")
    BY <2>2 DEF Reset, Pending
  <2> QED BY <2>1, <2>2
<1> QED BY <1>2, <1>4, <1>5 DEF Store!Restart

LEMMA PowerLossStore ==
  ASSUME FlashInv, FlashInv', PowerLoss
  PROVE  Store!PowerLoss
<1>1. Return /\ op' = Idle /\ pc' = "idle" /\ pc' \notin Writing
  BY DEF PowerLoss, Return, Writing
<1>2. Job' = Store!NoJob /\ Pending' = Store!Settled
  BY <1>1, JobIsNext DEF Pending, Store!Settled
<1>3. SeenOk /\ SeenOk'
  BY SeenIs, SeenIsNext
<1>4. \A s \in Sector : ~ (op # Idle /\ s \in op.on) => mem'[s] = mem[s]
  BY DEF PowerLoss
<1>5. \A s \in Sector \ (Store!Doubtful \cup Pending.on) : StoreSeen'[s] = StoreSeen[s]
  <2> SUFFICES ASSUME NEW s \in Sector, s \notin Store!Doubtful, s \notin Pending.on
               PROVE  StoreSeen'[s] = StoreSeen[s]
    OBVIOUS
  <2>1. ~ (op # Idle /\ s \in op.on)
    <3>1. CASE op # Idle /\ op.by = "write"
      BY <3>1, DoubtfulIs
    <3>2. CASE op # Idle /\ op.by # "write"
      BY <3>2, PendingIs
    <3> QED BY <3>1, <3>2
  <2>2. ~ (pc \in Writing /\ s = sector)
    BY DoubtfulIs
  <2> QED BY <2>1, <2>2, <1>1, <1>3, <1>4 DEF SeenOk
<1>6. StoreSeen' \in Store!Harmed(Store!Doubtful \cup Pending.on)
  BY <1>3, <1>5, StoreGeometry DEF Store!Harmed, SeenOk
<1> QED BY <1>2, <1>6 DEF Store!PowerLoss

LEMMA StepStore ==
  ASSUME FlashInv, FlashInv', [FlashNext]_flashVars
  PROVE  [Store!Next]_(Store!svars)
<1>1. CASE \E a \in Address, n \in 1 .. NSec * NPage :
             /\ a + n <= NSec * NPage
             /\ \/ \E data \in [a .. a + n - 1 -> SUBSET Bits] : Write(a, n, data)
                \/ Erase(a, n)
  BY <1>1, WriteStore, EraseStore
<1>2. CASE ChipErase \/ ChipDone \/ Reset \/ PowerLoss
  BY <1>2, ChipEraseStore, ChipDoneStore, ResetStore, PowerLossStore DEF Store!Next
<1>3. CASE Step
  BY <1>3, ReadStore, InnerStore, WaitProgrammedStore, EraseNextStore DEF Step, Store!Next
<1>4. CASE UNCHANGED flashVars
  <2>1. UNCHANGED <<mem, op, pc, addr, length, data_buf, swap_buf, index, erase_unit, before, calm>>
    BY <1>4 DEF flashVars, call
  <2>2. StoreSeen' = StoreSeen /\ Pending' = Pending /\ Job' = Job
    BY <2>1 DEF StoreSeen, Pending, Job, sector
  <2> QED BY <2>2, Unseen
<1> QED BY <1>1, <1>2, <1>3, <1>4 DEF FlashNext

(* The flash functions implement the safety part of FlashStore, for any chip:  *)
(* across every interleaving with the chip's own work, resets and power losses *)
(* a write replaces exactly its cells, lowest sector first, and each sector at *)
(* once; an erase keeps to its range; a fault harms at most the sector being   *)
(* written and those the chip works on.                                        *)
THEOREM WritesAreAtomic == FlashSpec => Store!Safety
<1>1. FlashInv /\ FlashInv' /\ [FlashNext]_flashVars => [Store!Next]_(Store!svars)
  BY StepStore
<1> QED BY <1>1, InitStore, FlashInvariance, PTL DEF FlashSpec, Store!Safety
===============================================================================
