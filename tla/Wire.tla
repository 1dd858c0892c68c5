--------------------------------- MODULE Wire ---------------------------------
(***************************************************************************)
(* libraries/Wire: TwoWire objects on one I2C controller, used by several  *)
(* tasks.  Every call holds the object's mutex from beginning to end and   *)
(* is one step; a transaction is a sequence of calls, between which other  *)
(* tasks run.  "A pending command belongs to the task that called          *)
(* beginTransmission; other tasks fail until it is completed or cancelled  *)
(* with flush()."                                                          *)
(*                                                                         *)
(* Only the object that owns the controller has a mutex, without which     *)
(* every call fails, and begin() and end() reset all of its state, so one  *)
(* set of variables is the state of the owner.  Of a byte the model keeps  *)
(* which task wrote it.                                                    *)
(***************************************************************************)
EXTENDS Integers

CONSTANTS
  Tasks,        \* threads that use the bus
  Objects,      \* TwoWire instances for the controller
  Addresses,    \* slave addresses (0 .. 1023)
  BadAddress,   \* any address above 1023
  BuffLen,      \* HARDWARE_I2C_BUFF_LEN (64)
  Sizes,        \* byte counts passed to write and requestFrom
  MaxAsked,     \* bound on the bytes a task passes to write in a transmission
  None

ASSUME WireAssumption ==
  /\ None \notin Tasks /\ None \notin Objects
  /\ BadAddress \notin Addresses /\ None \notin Addresses /\ None # BadAddress
  /\ BuffLen \in Nat \ {0}
  /\ Sizes \subseteq Nat
  /\ MaxAsked \in Nat

VARIABLES
  owner,        \* owners[_i2cNum], and the one object that is ready_
  phase,        \* phase_: "idle", "collecting", "pending"
  task,         \* task_
  address,      \* address_
  txSize,       \* txSize_
  tx,           \* tx_: how many of its bytes each task wrote
  overflow,     \* overflow_
  error,        \* Print's write error
  rx,           \* rxSize_ - rxOffset_
  stage, to, count
                \* history, per task: the transmission it believes to be in: "none",
                \* "open" or "deferred" (ended without stop), the address, the
                \* bytes it has passed to write

transaction == <<phase, task, txSize, tx, overflow>>
asked == <<stage, to, count>>
vars == <<owner, phase, task, txSize, tx, overflow, address, error, rx, stage, to, count>>

AnyAddress == Addresses \cup {BadAddress}
Nothing == [t \in Tasks |-> 0]
Just(t, n) == [u \in Tasks |-> IF u = t THEN n ELSE 0]

-------------------------------------------------------------------------------
\* The lock is held, and the transaction is nobody's or the caller's own.
accessible(t) == owner # None /\ (phase = "idle" \/ task = t)

\* Seeded fault: the bytes collected stay in the buffer.
cancel_keeps ==
  /\ phase' = "idle" /\ task' = None /\ overflow' = FALSE
  /\ UNCHANGED <<txSize, tx>>

cancel ==
  /\ phase' = "idle" /\ task' = None /\ overflow' = FALSE
  /\ txSize' = 0 /\ tx' = Nothing

\* The task knows its transmission to be over.
Forgets(t) ==
  /\ stage' = [stage EXCEPT ![t] = "none"]
  /\ to' = [to EXCEPT ![t] = BadAddress]
  /\ count' = [count EXCEPT ![t] = 0]

Init ==
  /\ owner = None
  /\ phase = "idle" /\ task = None /\ overflow = FALSE
  /\ txSize = 0 /\ tx = Nothing
  /\ address = BadAddress /\ error = FALSE /\ rx = 0
  /\ stage = [t \in Tasks |-> "none"]
  /\ to = [t \in Tasks |-> BadAddress]
  /\ count = [t \in Tasks |-> 0]

\* "Call begin/end/destruction with callers quiescent."
Quiescent == \A t \in Tasks : stage[t] = "none"

\* begin() of an object while the controller is free; of the others it fails.
begin(o) ==
  /\ Quiescent /\ owner = None
  /\ owner' = o
  /\ error' = FALSE
  /\ UNCHANGED <<transaction, address, rx, asked>>

end(o) ==
  /\ Quiescent /\ owner = o
  /\ owner' = None
  /\ rx' = 0
  /\ cancel
  /\ UNCHANGED <<address, error, asked>>

\* beginTransmission(a).  The task is not told when it is refused.
start(t, a) ==
  /\ stage' = [stage EXCEPT ![t] = "open"]
  /\ to' = [to EXCEPT ![t] = a]
  /\ count' = [count EXCEPT ![t] = 0]
  /\ IF accessible(t)
     THEN /\ phase' = "collecting" /\ task' = t /\ overflow' = FALSE
          /\ txSize' = 0 /\ tx' = Nothing
          /\ address' = a
          /\ error' = (a = BadAddress)
     ELSE UNCHANGED <<transaction, address, error>>
  /\ UNCHANGED <<owner, rx>>

\* The program passes n more bytes to write, accepted or not.
Asks(t, n) ==
  /\ stage[t] = "open" /\ count[t] + n <= MaxAsked
  /\ count' = [count EXCEPT ![t] = count[t] + n]
  /\ UNCHANGED <<stage, to>>

Collects(t) == accessible(t) /\ phase = "collecting" /\ address # BadAddress
Accepted(n) == IF n < BuffLen - txSize THEN n ELSE BuffLen - txSize

\* Seeded fault: a short write is not remembered.
write_short(t, n) ==
  /\ Asks(t, n) /\ Collects(t)
  /\ txSize' = txSize + Accepted(n)
  /\ tx' = [tx EXCEPT ![t] = tx[t] + Accepted(n)]
  /\ UNCHANGED <<owner, phase, task, overflow, error, address, rx>>

write(t, n) ==
  /\ Asks(t, n) /\ Collects(t)
  /\ txSize' = txSize + Accepted(n)
  /\ tx' = [tx EXCEPT ![t] = tx[t] + Accepted(n)]
  /\ overflow' = (overflow \/ Accepted(n) # n)
  /\ error' = (error \/ Accepted(n) # n)
  /\ UNCHANGED <<owner, phase, task, address, rx>>

\* write outside a transmission of its own, or to a bad address: returns 0.
writeRefused(t, n) ==
  /\ Asks(t, n) /\ ~ Collects(t)
  /\ error' = (error \/ accessible(t))
  /\ UNCHANGED <<owner, transaction, address, rx>>

\* What endTransmission needs to use the bus.
Sendable == phase = "collecting" /\ address # BadAddress /\ ~ overflow /\ ~ error /\ txSize # 0

\* endTransmission(true): the bytes go to the slave, which may not answer.
endTransmission(t, ok) ==
  /\ accessible(t) /\ Sendable
  /\ cancel
  /\ error' = ~ ok
  /\ Forgets(t)
  /\ UNCHANGED <<owner, address, rx>>

\* endTransmission(false): the command waits for its requestFrom.
endTransmissionDeferred(t) ==
  /\ accessible(t) /\ Sendable
  /\ phase' = "pending"
  /\ stage' = [stage EXCEPT ![t] = "deferred"]
  /\ UNCHANGED <<owner, task, txSize, tx, overflow, address, error, rx, to, count>>

\* endTransmission with nothing that can be sent: status 1 or 4.
endTransmissionFails(t) ==
  /\ accessible(t) /\ ~ Sendable
  /\ cancel
  /\ error' = TRUE
  /\ Forgets(t)
  /\ UNCHANGED <<owner, address, rx>>

\* endTransmission, requestFrom or flush of a task that is refused.
Refused(t) ==
  /\ ~ accessible(t)
  /\ Forgets(t)
  /\ UNCHANGED <<owner, transaction, address, error, rx>>

Valid(a, stop) ==
  /\ stop /\ a # BadAddress /\ phase # "collecting"
  /\ phase = "pending" => a = address

\* requestFrom(a, n, stop): a deferred command and the read are one transfer.
receive(t, a, n, stop, ok) ==
  /\ accessible(t)
  /\ cancel
  /\ rx' = IF Valid(a, stop) /\ ok THEN (IF n < BuffLen THEN n ELSE BuffLen) ELSE 0
  /\ error' = (error \/ ~ Valid(a, stop) \/ (n # 0 /\ ~ ok))
  /\ Forgets(t)
  /\ UNCHANGED <<owner, address>>

read(t) ==
  /\ accessible(t) /\ rx > 0
  /\ rx' = rx - 1
  /\ UNCHANGED <<owner, transaction, address, error, asked>>

flush(t) ==
  /\ accessible(t)
  /\ cancel
  /\ rx' = 0
  /\ Forgets(t)
  /\ UNCHANGED <<owner, address, error>>

-------------------------------------------------------------------------------
Transmits(t) ==
  \/ \E a \in AnyAddress : start(t, a)
  \/ \E n \in Sizes : write(t, n) \/ writeRefused(t, n)
  \/ \E ok \in BOOLEAN : endTransmission(t, ok)
  \/ endTransmissionDeferred(t) \/ endTransmissionFails(t) \/ Refused(t)

Receives(t) ==
  \/ \E a \in AnyAddress, n \in Sizes, stop, ok \in BOOLEAN : receive(t, a, n, stop, ok)
  \/ read(t) \/ flush(t)

Next ==
  \/ \E o \in Objects : begin(o) \/ end(o)
  \/ \E t \in Tasks : Transmits(t) \/ Receives(t)

Spec == Init /\ [][Next]_vars

-------------------------------------------------------------------------------
(* Properties.                                                             *)

\* Type invariant.
TypeOK ==
  /\ owner \in Objects \cup {None}
  /\ phase \in {"idle", "collecting", "pending"}
  /\ task \in Tasks \cup {None}
  /\ address \in AnyAddress
  /\ txSize \in 0 .. BuffLen
  /\ tx \in [Tasks -> 0 .. BuffLen]
  /\ overflow \in BOOLEAN /\ error \in BOOLEAN
  /\ rx \in 0 .. BuffLen
  /\ stage \in [Tasks -> {"none", "open", "deferred"}]
  /\ to \in [Tasks -> AnyAddress]
  /\ count \in [Tasks -> 0 .. MaxAsked]

\* endTransmission never reports success, or defers a command, unless what it
\* has is the caller's own transmission, to the caller's address and with every
\* byte the caller passed to write, however other tasks' calls fell in between.
SendsWhatWasAsked ==
  \A t \in Tasks : accessible(t) /\ Sendable =>
    /\ stage[t] = "open"
    /\ address = to[t]
    /\ tx = Just(t, count[t]) /\ txSize = count[t]

\* requestFrom sends the command its own task has deferred, complete and to
\* the address it was meant for, and without one it sends nothing.
ReadsCarryOwnCommand ==
  \A t \in Tasks : accessible(t) /\ phase # "collecting" =>
    IF stage[t] = "deferred"
    THEN /\ phase = "pending" /\ address = to[t]
         /\ tx = Just(t, count[t]) /\ txSize = count[t]
    ELSE tx = Nothing /\ txSize = 0
===============================================================================
