-------------------------------- MODULE SpiBus --------------------------------
(* One hardware SPI bus and the SPIClass objects that may own it               *)
(* (libraries/SPI/src/SPI.cpp), used by several tasks.  begin claims the bus   *)
(* for an object; then calls take the object's recursive mutex.  The two FIFOs *)
(* hold frames; the device on the wire answers each frame with its number.     *)
(* The sketch uses an object while no begin of it is under way (ready_ is set  *)
(* before configure, line 58) and ends it while no other task is in a call.    *)
EXTENDS Integers, Sequences

CONSTANTS Tasks, Objects, None,
          Orders, Modes,   \* _bitOrder; _dataMode and _clock, what configure writes
          SPI_WORK_MODE_0, \* what the display and the SD card initialise the port with
          Depth,           \* slots of each FIFO and bound on outstanding frames
          Sizes            \* of the buffers and words transferred

Settings == [order : Orders, mode : Modes]

ASSUME SpiAssumption == /\ Depth \in Nat \ {0} /\ Sizes \subseteq Nat \ {0}
                        /\ SPI_WORK_MODE_0 \in Modes
                        /\ None \notin Tasks \cup Objects \cup Orders \cup Settings

VARIABLES owner,            \* owners[bus_]
          inUse,            \* g_spi0_in_use, _sdcard_use_hw_spi1
          intruded,         \* ghost: who set it touched the owner's port, not configured since
          ready_, mutex_, transaction_, settings_,   \* of each object
          holder, hold,     \* the mutex of the bus's owner: its holder and depth
          port,             \* mode, enabled, FIFOs
          call,             \* the call each task is in
          chosen,           \* ghost: the settings of the task's transaction, or None
          foreign           \* ghost: since begin a task ended another's transaction

objVars == <<ready_, mutex_, transaction_, settings_>>
lockVars == <<holder, hold>>
outVars == <<inUse, intruded>>
vars == <<owner, outVars, objVars, lockVars, port, call, chosen, foreign>>

-------------------------------------------------------------------------------
(* at: what the call does next; arg: the size of a transfer;                    *)
(* order: the bit order with which wordTransfer packed its word.               *)
NoCall == [at |-> "idle", obj |-> None, arg |-> None, sent |-> 0, received |-> 0, order |-> None]

At(t, l) == call[t].at = l
Self(t) == call[t].obj
Idle(t) == At(t, "idle")

Enter(t, o, l, a) == /\ Idle(t)
                     /\ call' = [call EXCEPT ![t] = [at |-> l, obj |-> o, arg |-> a, sent |-> 0,
                                                     received |-> 0, order |-> None]]
                     /\ UNCHANGED <<owner, outVars, objVars, lockVars, port, chosen, foreign>>
Goto(t, l) == call' = [call EXCEPT ![t].at = l]
Return(t) == call' = [call EXCEPT ![t] = NoCall]

(* RT-Thread's mutex (external): recursive, released by its holder only.       *)
CanTake(t) == holder \in {t, None}
Take(t) == CanTake(t) /\ holder' = t /\ hold' = hold + 1
Release(t) == IF holder = t
              THEN hold' = hold - 1 /\ holder' = IF hold = 1 THEN None ELSE t
              ELSE UNCHANGED lockVars

(* configure: spi_init disables the port, which empties the FIFOs.             *)
spi_init(m) == port' = [mode |-> m, enabled |-> FALSE, tx |-> <<>>, rx |-> <<>>]
configure(s) == spi_init(s.mode) /\ intruded' = FALSE

Init == /\ owner = None /\ inUse = FALSE /\ intruded = FALSE
        /\ ready_ = [o \in Objects |-> FALSE] /\ mutex_ = [o \in Objects |-> FALSE]
        /\ transaction_ = [o \in Objects |-> FALSE]
        /\ \E s \in Settings : /\ settings_ = [o \in Objects |-> s]
                               /\ port = [mode |-> s.mode, enabled |-> FALSE, tx |-> <<>>, rx |-> <<>>]
        /\ holder = None /\ hold = 0
        /\ call = [t \in Tasks |-> NoCall] /\ chosen = [t \in Tasks |-> None] /\ foreign = FALSE

-------------------------------------------------------------------------------
(* begin: refused when the bus is taken, claimed by one compare-and-exchange.  *)
begin(t, o) == ~ready_[o] /\ ~inUse /\ Enter(t, o, "claim", None)

claim(t) ==
    /\ At(t, "claim")
    /\ IF owner = None THEN owner' = Self(t) /\ Goto(t, "mutex")
                       ELSE Return(t) /\ UNCHANGED owner
    /\ UNCHANGED <<outVars, objVars, lockVars, port, chosen, foreign>>

createMutex(t) ==
    /\ At(t, "mutex")
    /\ \/ mutex_' = [mutex_ EXCEPT ![Self(t)] = TRUE] /\ Goto(t, "ready") /\ UNCHANGED owner
       \/ owner' = None /\ Return(t) /\ UNCHANGED mutex_   \* no memory
    /\ UNCHANGED <<outVars, ready_, transaction_, settings_, lockVars, port, chosen, foreign>>

ready(t) ==
    /\ At(t, "ready")
    /\ ready_' = [ready_ EXCEPT ![Self(t)] = TRUE]
    /\ configure(settings_[Self(t)])
    /\ Return(t)
    /\ UNCHANGED <<owner, inUse, mutex_, transaction_, settings_, lockVars, chosen, foreign>>

(* The display or the SD card, which ask nobody, touch the port.               *)
Touched == /\ spi_init(SPI_WORK_MODE_0)
           /\ intruded' = (intruded \/ owner # None)
           /\ UNCHANGED <<owner, objVars, lockVars, call, chosen, foreign>>

(* They take the bus: the port is initialised, then the flag set.  A begin     *)
(* between the two goes on as one that looked at the flag just before.         *)
TakenOutside == ~inUse /\ inUse' = TRUE /\ Touched

(* They send, or the display, not the card, gives the bus back: it stops the   *)
(* port's clock.                                                               *)
UsedOutside == inUse /\ inUse' \in BOOLEAN /\ Touched

(* end: an open transaction is ended first; the mutex goes with its holder.    *)
end(t, o) ==
    /\ ready_[o] /\ \A u \in Tasks : Idle(u)
    /\ transaction_' = [transaction_ EXCEPT ![o] = FALSE]
    /\ port' = [port EXCEPT !.enabled = FALSE, !.tx = <<>>, !.rx = <<>>]
    /\ ready_' = [ready_ EXCEPT ![o] = FALSE]
    /\ mutex_' = [mutex_ EXCEPT ![o] = FALSE]
    /\ holder' = None /\ hold' = 0
    /\ owner' = None
    /\ chosen' = [u \in Tasks |-> None] /\ foreign' = FALSE /\ intruded' = FALSE
    /\ UNCHANGED <<inUse, settings_, call>>

-------------------------------------------------------------------------------
(* setBitOrder, and setDataMode or setFrequency, which configure the port.     *)
(* Before begin there is no mutex, and they only store.                        *)
SetTo(o, s) == settings_' = [settings_ EXCEPT ![o] = s]
Ordered(o) == {[settings_[o] EXCEPT !.order = x] : x \in Orders}
Clocked(o) == {[settings_[o] EXCEPT !.mode = x] : x \in Modes}

(* The caller's own transaction goes on with the new settings.                 *)
Chooses(t, s) == chosen' = [chosen EXCEPT ![t] = IF @ = None THEN None ELSE s]

setUnready(t, o) ==
    /\ Idle(t) /\ ~mutex_[o] /\ owner # o
    /\ \E s \in Ordered(o) \cup Clocked(o) : SetTo(o, s)
    /\ UNCHANGED <<owner, outVars, ready_, mutex_, transaction_, lockVars, port, call, chosen, foreign>>

set(t, o) == ready_[o] /\ Enter(t, o, "set", None)

setBitOrder(t) ==
    /\ At(t, "set") /\ CanTake(t)
    /\ \E s \in Ordered(Self(t)) : SetTo(Self(t), s) /\ Chooses(t, s)
    /\ Return(t)
    /\ UNCHANGED <<owner, outVars, ready_, mutex_, transaction_, lockVars, port, foreign>>

(* Seeded fault: the port is configured without the lock.                      *)
F_setMode(t) ==
    /\ At(t, "set")
    /\ \E s \in Clocked(Self(t)) : SetTo(Self(t), s) /\ Chooses(t, s) /\ configure(s)
    /\ Return(t)
    /\ UNCHANGED <<owner, inUse, ready_, mutex_, transaction_, lockVars, foreign>>

setMode(t) ==
    /\ At(t, "set") /\ CanTake(t)
    /\ \E s \in Clocked(Self(t)) : SetTo(Self(t), s) /\ Chooses(t, s) /\ configure(s)
    /\ Return(t)
    /\ UNCHANGED <<owner, inUse, ready_, mutex_, transaction_, lockVars, foreign>>

-------------------------------------------------------------------------------
(* beginTransaction; one inside the caller's own is refused by a look at       *)
(* transaction_ under the lock, which is given back.  The settings it asks for *)
(* are first looked at where it stores them.                                   *)
beginTransaction(t, o) == ready_[o] /\ Enter(t, o, "transaction", None)

(* Seeded fault: the refused transaction keeps the lock.                       *)
F_nested(t) ==
    /\ At(t, "transaction") /\ transaction_[Self(t)]
    /\ Take(t) /\ Return(t)
    /\ UNCHANGED <<owner, outVars, objVars, port, chosen, foreign>>

nested(t) ==
    /\ At(t, "transaction") /\ CanTake(t) /\ transaction_[Self(t)]
    /\ Return(t)
    /\ UNCHANGED <<owner, outVars, objVars, lockVars, port, chosen, foreign>>

transaction(t) ==
    /\ At(t, "transaction") /\ ~transaction_[Self(t)]
    /\ Take(t)
    /\ transaction_' = [transaction_ EXCEPT ![Self(t)] = TRUE]
    /\ \E s \in Settings : /\ SetTo(Self(t), s) /\ configure(s)
                           /\ chosen' = [chosen EXCEPT ![t] = s]
    /\ Return(t)
    /\ UNCHANGED <<owner, inUse, ready_, mutex_, foreign>>

(* endTransaction: transaction_ is read without the lock, whoever began; the   *)
(* bound MaxForeign is one call of a task that did not, for each begin.        *)
MaxForeign(t) == foreign => holder = t

endTransaction(t, o) ==
    /\ Idle(t) /\ transaction_[o] /\ MaxForeign(t)
    /\ transaction_' = [transaction_ EXCEPT ![o] = FALSE]
    /\ Release(t)
    /\ foreign' = (foreign \/ holder # t)
    /\ chosen' = [chosen EXCEPT ![t] = None]
    /\ UNCHANGED <<owner, outVars, ready_, mutex_, settings_, port, call>>

-------------------------------------------------------------------------------
(* transferBytes, and wordTransfer around it.                                  *)
transfer(t, o, n) == ready_[o] /\ Enter(t, o, "transfer", n)
wordTransfer(t, o, n) == ready_[o] /\ Enter(t, o, "word", n)

pack(t) ==
    /\ At(t, "word")
    /\ Take(t)
    /\ call' = [call EXCEPT ![t].order = settings_[Self(t)].order, ![t].at = "packed"]
    /\ UNCHANGED <<owner, outVars, objVars, port, chosen, foreign>>

(* On a port touched from outside nothing is known of the frames: it is        *)
(* treated as disabled, and answers come or do not (pullOther).                *)
start(t) ==
    /\ call[t].at \in {"transfer", "packed"}
    /\ Take(t)
    /\ port' = [port EXCEPT !.enabled = ~intruded, !.tx = <<>>, !.rx = <<>>]
    /\ Goto(t, "push")
    /\ UNCHANGED <<owner, outVars, objVars, chosen, foreign>>

(* Seeded fault: only the transmit FIFO is looked at.                          *)
F_Room(c) == c.sent < c.arg /\ Len(port.tx) < Depth

Room(c) == c.sent < c.arg /\ c.sent - c.received < Depth /\ Len(port.tx) < Depth

Frame(t) == [n |-> call[t].sent, bits |-> settings_[Self(t)].order]

push(t) ==
    /\ At(t, "push")
    /\ IF Room(call[t])
       THEN /\ port' = IF port.enabled THEN [port EXCEPT !.tx = Append(@, Frame(t))] ELSE port
            /\ call' = [call EXCEPT ![t].sent = @ + 1]
       ELSE Goto(t, "pull") /\ UNCHANGED port
    /\ UNCHANGED <<owner, outVars, objVars, lockVars, chosen, foreign>>

pullOther(t) ==
    /\ At(t, "pull") /\ intruded /\ call[t].received < call[t].sent
    /\ call' = [call EXCEPT ![t].received = @ + 1]
    /\ UNCHANGED <<owner, outVars, objVars, lockVars, port, chosen, foreign>>

pull(t) ==
    /\ At(t, "pull")
    /\ IF call[t].received < call[t].sent /\ port.rx # <<>>
       THEN /\ port' = [port EXCEPT !.rx = Tail(@)]
            /\ call' = [call EXCEPT ![t].received = @ + 1]
       ELSE /\ Goto(t, IF call[t].received < call[t].arg THEN "push" ELSE "last")
            /\ UNCHANGED port
    /\ UNCHANGED <<owner, outVars, objVars, lockVars, chosen, foreign>>

last(t) ==
    /\ At(t, "last") /\ (port.enabled => port.tx = <<>>)
    /\ port' = [port EXCEPT !.enabled = FALSE]
    /\ Release(t)
    /\ IF call[t].order = None THEN Return(t) ELSE Goto(t, "unpack")
    /\ UNCHANGED <<owner, outVars, objVars, chosen, foreign>>

unpack(t) ==
    /\ At(t, "unpack")
    /\ Release(t)
    /\ Return(t)
    /\ UNCHANGED <<owner, outVars, objVars, port, chosen, foreign>>

(* The port (external): a frame goes out and its answer comes in; a full       *)
(* receive FIFO loses it.                                                      *)
Shift ==
    /\ port.enabled /\ port.tx # <<>>
    /\ port' = [port EXCEPT !.tx = Tail(@),
                            !.rx = IF Len(@) < Depth THEN Append(@, Head(port.tx)) ELSE @]
    /\ UNCHANGED <<owner, outVars, objVars, lockVars, call, chosen, foreign>>

-------------------------------------------------------------------------------
Calls(t, o) ==
    \/ begin(t, o) \/ end(t, o) \/ setUnready(t, o) \/ set(t, o)
    \/ beginTransaction(t, o) \/ endTransaction(t, o)
    \/ \E n \in Sizes : transfer(t, o, n) \/ wordTransfer(t, o, n)

(* Steps that wait for the lock, and the others.                               *)
Locks(t) == setBitOrder(t) \/ setMode(t) \/ nested(t) \/ transaction(t) \/ pack(t) \/ start(t)
Steps(t) == claim(t) \/ createMutex(t) \/ ready(t) \/ push(t) \/ pull(t) \/ last(t) \/ unpack(t)

Next == \/ \E t \in Tasks : Locks(t) \/ Steps(t) \/ pullOther(t) \/ \E o \in Objects : Calls(t, o)
        \/ Shift \/ TakenOutside \/ UsedOutside

(* A waiting task gets the lock in its turn (the mutex queues its waiters, and *)
(* tasks of one priority in order of arrival), the port works, and a task ends *)
(* the transaction it has begun.                                               *)
Closes(t) == chosen[t] # None /\ \E o \in Objects : endTransaction(t, o)

Fairness == /\ \A t \in Tasks : SF_vars(Locks(t)) /\ WF_vars(Steps(t)) /\ SF_vars(Closes(t))
            /\ WF_vars(Shift)

Spec == Init /\ [][Next]_vars /\ Fairness

-------------------------------------------------------------------------------
(* The types of the state.                                                     *)
TypeOK ==
    /\ owner \in Objects \cup {None} /\ holder \in Tasks \cup {None}
    /\ hold \in 0 .. 4 /\ inUse \in BOOLEAN /\ intruded \in BOOLEAN /\ foreign \in BOOLEAN
    /\ \A v \in {ready_, mutex_, transaction_} : v \in [Objects -> BOOLEAN]
    /\ settings_ \in [Objects -> Settings] /\ port.mode \in Modes
    /\ \A t \in Tasks : chosen[t] \in Settings \cup {None} /\ call[t].obj \in Objects \cup {None}

Transferring(t) == call[t].at \in {"push", "pull", "last"}

(* From beginTransaction to endTransaction the bus runs with the settings the  *)
(* task asked for, whatever the other tasks call, endTransaction included; and *)
(* wordTransfer packs and unpacks with one byte order ("Keep the byte order    *)
(* stable through packing, transfer and unpacking").  Only the display or the  *)
(* SD card, which ask nobody, change the port, until it is configured again.   *)
SettingsStable ==
    \A t \in Tasks :
        /\ chosen[t] # None => /\ holder = t /\ settings_[owner] = chosen[t]
                               /\ intruded \/ port.mode = chosen[t].mode
        /\ call[t].order # None => call[t].order = settings_[Self(t)].order

(* The loop of transferBytes: frames come back in the order in which they were *)
(* sent, none is lost to a full FIFO, none belongs to another call, and the    *)
(* bits are turned back with the order with which they were turned, on a port  *)
(* that was not touched from outside since it was configured.                  *)
AnswersInOrder ==
    \A t \in Tasks : Transferring(t) /\ ~intruded =>
        /\ Len(port.rx) + Len(port.tx) = call[t].sent - call[t].received
        /\ \A i \in 1 .. Len(port.rx) :
             port.rx[i] = [n |-> call[t].received + i - 1, bits |-> settings_[Self(t)].order]

(* The state keeps its types.  A ready object owns the bus, alone among the    *)
(* objects.  The lock is held once for the open transaction, once for a word   *)
(* and once for a transfer: nothing else keeps it, whatever is done to the     *)
(* port meanwhile, unless a task has ended another's transaction, whose lock   *)
(* stays taken.                                                                *)
Once(p) == IF p THEN 1 ELSE 0
BusAccounted ==
    /\ TypeOK
    /\ \A o \in Objects : ready_[o] => owner = o /\ mutex_[o]
    /\ foreign \/ hold = Once(\E o \in Objects : transaction_[o])
                         + Once(\E t \in Tasks : call[t].order # None)
                         + Once(\E t \in Tasks : Transferring(t))

(* No call waits for ever, unless a task has ended another's transaction, or   *)
(* the port was touched from outside: transferBytes then waits for answers     *)
(* that do not come, and the others for its lock.                              *)
CallsReturn == \A t \in Tasks : ~Idle(t) ~> (Idle(t) \/ foreign \/ intruded)
===============================================================================
