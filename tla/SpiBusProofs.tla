----------------------------- MODULE SpiBusProofs -----------------------------
(* Theorems about SpiBus, for any number of tasks and objects, any depth of    *)
(* the FIFOs and any sizes of transfers.                                       *)
EXTENDS SpiBus, SequenceTheorems, TLAPS

-------------------------------------------------------------------------------
(* The inductive invariant.  First the types, calls and frames included.       *)
InMutex == {"set", "transaction", "transfer", "word", "packed", "push", "pull", "last", "unpack"}
InTransferCall == {"transfer", "word", "packed", "push", "pull", "last", "unpack"}
InWord == {"packed", "push", "pull", "last", "unpack"}
Labels == {"idle", "claim", "mutex", "ready"} \cup InMutex

CallRecords == [at : Labels, obj : Objects \cup {None}, arg : Sizes \cup {None},
                sent : Nat, received : Nat, order : Orders \cup {None}]
Frames == [n : Nat, bits : Orders]
Ports == [mode : Modes, enabled : BOOLEAN, tx : Seq(Frames), rx : Seq(Frames)]

Types ==
    /\ owner \in Objects \cup {None} /\ holder \in Tasks \cup {None}
    /\ hold \in Nat /\ inUse \in BOOLEAN /\ intruded \in BOOLEAN /\ foreign \in BOOLEAN
    /\ ready_ \in [Objects -> BOOLEAN] /\ mutex_ \in [Objects -> BOOLEAN]
    /\ transaction_ \in [Objects -> BOOLEAN] /\ settings_ \in [Objects -> Settings]
    /\ call \in [Tasks -> CallRecords] /\ chosen \in [Tasks -> Settings \cup {None}]
    /\ port \in Ports

(* What a call knows by itself.                                                *)
Local(c) ==
    /\ c.at = "idle" => c = NoCall
    /\ c.at # "idle" => c.obj \in Objects
    /\ c.at \in InTransferCall => c.arg \in Sizes
    /\ c.order # None => c.at \in InWord
    /\ c.at \in {"packed", "unpack"} => c.order # None
    /\ c.at \notin {"push", "pull", "last", "unpack"} => c.sent = 0 /\ c.received = 0

(* A begin that has claimed the bus is the only one, and the object of a call  *)
(* under the mutex is ready, so it owns the bus.                               *)
Claiming(t) == call[t].at \in {"mutex", "ready"}

CallInv ==
    /\ \A t \in Tasks : Local(call[t])
    /\ \A t \in Tasks : Claiming(t) => owner = Self(t) /\ ~ ready_[Self(t)]
    /\ \A t, u \in Tasks : Claiming(t) /\ Claiming(u) => t = u
    /\ \A t \in Tasks : At(t, "ready") => mutex_[Self(t)]
    /\ \A t \in Tasks : call[t].at \in InMutex => ready_[Self(t)]

OwnerInv ==
    /\ \A o \in Objects : /\ ready_[o] => mutex_[o]
                          /\ mutex_[o] => owner = o
                          /\ transaction_[o] => ready_[o]
    /\ \A t \in Tasks : At(t, "mutex") => ~ mutex_[Self(t)]
    /\ holder # None => owner # None /\ ready_[owner]

(* The depth of the mutex is the number of reasons to hold it, one of which is *)
(* the transaction that a task other than its holder has ended.                *)
Word(t) == call[t].order # None
Open == \E o \in Objects : transaction_[o]
Packed == \E t \in Tasks : Word(t)
Moving == \E t \in Tasks : Transferring(t)

LockInv ==
    /\ hold = Once(Open) + Once(foreign) + Once(Packed) + Once(Moving)
    /\ hold = 0 <=> holder = None
    /\ \A t \in Tasks : /\ Word(t) \/ Transferring(t) \/ chosen[t] # None => holder = t
                        /\ chosen[t] # None => Open \/ foreign

(* The FIFOs hold the frames of one call: s sent, r received, with bit order   *)
(* b, unless the port was touched from outside.                                *)
FramesOf(s, r, b, tx, rx) ==
    /\ Len(rx) + Len(tx) = s - r /\ s - r <= Depth
    /\ \A i \in 1 .. Len(rx) : rx[i] = [n |-> r + i - 1, bits |-> b]
    /\ \A i \in 1 .. Len(tx) : tx[i] = [n |-> r + Len(rx) + i - 1, bits |-> b]

FifoInv ==
    /\ port.enabled => Moving /\ ~ intruded
    /\ \A t \in Tasks : Transferring(t) /\ ~ intruded =>
         /\ port.enabled
         /\ FramesOf(call[t].sent, call[t].received, settings_[Self(t)].order, port.tx, port.rx)

IInv == Types /\ CallInv /\ OwnerInv /\ LockInv /\ SettingsStable /\ FifoInv

-------------------------------------------------------------------------------
(* What the three ways to move a call do to it, and to no other.               *)
Others(t) == \A u \in Tasks \ {t} : call'[u] = call[u]

LEMMA NoneIsNone ==
    /\ None \notin Tasks /\ None \notin Objects /\ None \notin Orders /\ None \notin Settings
    /\ Sizes \subseteq Nat /\ Depth \in Nat /\ Depth > 0 /\ SPI_WORK_MODE_0 \in Modes
    BY SpiAssumption

LEMMA NoCallIs == NoCall \in CallRecords /\ Local(NoCall)
    BY NoneIsNone DEF NoCall, CallRecords, Labels, Local, InTransferCall

LEMMA Entered ==
    ASSUME Types, CallInv, NEW t \in Tasks, NEW o \in Objects, NEW l \in Labels,
           NEW a \in Sizes \cup {None}, Enter(t, o, l, a)
    PROVE  /\ call' \in [Tasks -> CallRecords] /\ Others(t) /\ Idle(t)
           /\ call'[t] = [at |-> l, obj |-> o, arg |-> a, sent |-> 0, received |-> 0, order |-> None]
<1>1. call[t] = NoCall /\ Idle(t)
    BY DEF Enter, CallInv, Local, Idle, At
<1>2. call'[t] = [at |-> l, obj |-> o, arg |-> a, sent |-> 0, received |-> 0, order |-> None]
    BY <1>1 DEF Enter, NoCall, Types
<1>3. call'[t] \in CallRecords
    BY <1>2 DEF CallRecords
<1> QED
    BY <1>1, <1>2, <1>3 DEF Enter, Types, Others

LEMMA Gone ==
    ASSUME Types, NEW t \in Tasks, NEW l \in Labels, Goto(t, l)
    PROVE  /\ call' \in [Tasks -> CallRecords] /\ Others(t)
           /\ call'[t] = [call[t] EXCEPT !.at = l]
    BY DEF Goto, Types, Others, CallRecords

LEMMA Returned ==
    ASSUME Types, NEW t \in Tasks, Return(t)
    PROVE  call' \in [Tasks -> CallRecords] /\ Others(t) /\ call'[t] = NoCall
    BY NoCallIs DEF Return, Types, Others

LEMMA PackedCall ==
    ASSUME call \in [Tasks -> CallRecords], NEW t \in Tasks, NEW x \in Orders,
           call' = [call EXCEPT ![t].order = x, ![t].at = "packed"]
    PROVE  /\ call' \in [Tasks -> CallRecords] /\ Others(t)
           /\ call'[t] = [call[t] EXCEPT !.order = x, !.at = "packed"]
<1>1. [call EXCEPT ![t].order = x] \in [Tasks -> CallRecords]
    BY DEF CallRecords
<1>2. "packed" \in Labels
    BY DEF Labels, InMutex
<1>3. call' \in [Tasks -> CallRecords]
    BY <1>1, <1>2 DEF CallRecords
<1> QED
    BY <1>3 DEF Others, CallRecords

(* What the changes of the port do to its fields.                              *)
PortIs(m, e, x, y) == port' = [mode |-> m, enabled |-> e, tx |-> x, rx |-> y]

LEMMA PortTypes ==
    ASSUME NEW m \in Modes, NEW e \in BOOLEAN, NEW x \in Seq(Frames), NEW y \in Seq(Frames),
           PortIs(m, e, x, y)
    PROVE  port' \in Ports
    BY DEF Ports, PortIs

LEMMA PortAll ==
    ASSUME port \in Ports, NEW e, NEW x, NEW y, port' = [port EXCEPT !.enabled = e, !.tx = x, !.rx = y]
    PROVE  PortIs(port.mode, e, x, y)
    BY DEF Ports, PortIs

LEMMA PortFifos ==
    ASSUME port \in Ports, NEW x, NEW y, port' = [port EXCEPT !.tx = x, !.rx = y]
    PROVE  PortIs(port.mode, port.enabled, x, y)
    BY DEF Ports, PortIs

LEMMA PortTx ==
    ASSUME port \in Ports, NEW x, port' = [port EXCEPT !.tx = x]
    PROVE  PortIs(port.mode, port.enabled, x, port.rx)
    BY DEF Ports, PortIs

LEMMA PortRx ==
    ASSUME port \in Ports, NEW y, port' = [port EXCEPT !.rx = y]
    PROVE  PortIs(port.mode, port.enabled, port.tx, y)
    BY DEF Ports, PortIs

LEMMA PortOff ==
    ASSUME port \in Ports, port' = [port EXCEPT !.enabled = FALSE]
    PROVE  PortIs(port.mode, FALSE, port.tx, port.rx)
    BY DEF Ports, PortIs

LEMMA FifosAre ==
    ASSUME Types
    PROVE  port \in Ports /\ port.mode \in Modes /\ port.enabled \in BOOLEAN
           /\ port.tx \in Seq(Frames) /\ port.rx \in Seq(Frames)
    BY DEF Types, Ports

LEMMA Emptied == <<>> \in Seq(Frames)
    OBVIOUS

-------------------------------------------------------------------------------
(* Types.                                                                      *)
LEMMA ReleaseTypes ==
    ASSUME Types, LockInv, NEW t \in Tasks, Release(t)
    PROVE  holder' \in Tasks \cup {None} /\ hold' \in Nat
<1>1. holder = t => hold > 0
    BY NoneIsNone DEF Types, LockInv
<1> QED
    BY <1>1 DEF Types, Release, lockVars

LEMMA TakeTypes ==
    ASSUME Types, NEW t \in Tasks, Take(t)
    PROVE  holder' \in Tasks \cup {None} /\ hold' \in Nat
    BY DEF Types, Take

LEMMA ConfigureTypes ==
    ASSUME NEW s \in Settings, configure(s)
    PROVE  port' \in Ports /\ intruded' = FALSE
    BY DEF configure, spi_init, Ports, Settings

LEMMA TouchedPort ==
    ASSUME Touched
    PROVE  port' \in Ports /\ ~ port'.enabled
    BY NoneIsNone DEF Touched, spi_init, Ports

LEMMA CallTypes == IInv /\ [Next]_vars => call' \in [Tasks -> CallRecords]
<1> SUFFICES ASSUME IInv, [Next]_vars PROVE call' \in [Tasks -> CallRecords]
    OBVIOUS
<1> USE DEF IInv
<1>1. ASSUME NEW t \in Tasks, Locks(t) PROVE call' \in [Tasks -> CallRecords]
    <2>1. CASE Return(t)
        BY <2>1, Returned
    <2>2. CASE pack(t)
        <3>1. settings_[Self(t)].order \in Orders
            BY <2>2 DEF pack, At, Types, CallInv, Local, Self, Settings
        <3>2. PICK x \in Orders : call' = [call EXCEPT ![t].order = x, ![t].at = "packed"]
            BY <2>2, <3>1 DEF pack
        <3> QED
            BY <3>2, PackedCall DEF Types
    <2>3. CASE start(t)
        BY <2>3, Gone DEF start, Labels, InMutex
    <2> QED
        BY <1>1, <2>1, <2>2, <2>3 DEF Locks, setBitOrder, setMode, nested, transaction
<1>2. ASSUME NEW t \in Tasks, Steps(t) \/ pullOther(t) PROVE call' \in [Tasks -> CallRecords]
    <2>1. CASE Return(t)
        BY <2>1, Returned
    <2>2. CASE \E l \in Labels : Goto(t, l)
        BY <2>2, Gone
    <2>3. CASE call' = [call EXCEPT ![t].sent = @ + 1]
        BY <2>3 DEF Types, CallRecords
    <2>4. CASE call' = [call EXCEPT ![t].received = @ + 1]
        BY <2>4 DEF Types, CallRecords
    <2> QED
        BY <1>2, <2>1, <2>2, <2>3, <2>4
        DEF Steps, claim, createMutex, ready, push, pull, pullOther, last, unpack, Labels, InMutex
<1>3. ASSUME NEW t \in Tasks, NEW o \in Objects, Calls(t, o) PROVE call' \in [Tasks -> CallRecords]
    <2>1. CASE \E l \in Labels, a \in Sizes \cup {None} : Enter(t, o, l, a)
        BY <2>1, Entered
    <2>2. CASE UNCHANGED call
        BY <2>2 DEF Types
    <2> QED
        BY <1>3, <2>1, <2>2
        DEF Calls, begin, end, setUnready, set, endTransaction, beginTransaction, transfer,
            wordTransfer, Labels, InMutex
<1>4. CASE UNCHANGED call
    BY <1>4 DEF Types
<1> QED
    BY <1>1, <1>2, <1>3, <1>4 DEF Next, Shift, TakenOutside, UsedOutside, Touched, vars

LEMMA SelfIs ==
    ASSUME IInv, NEW t \in Tasks, ~ Idle(t)
    PROVE  /\ Self(t) \in Objects
           /\ call[t].at \in InMutex => ready_[Self(t)] /\ owner = Self(t)
    BY DEF IInv, CallInv, Local, Idle, At, Self, OwnerInv

LEMMA TypesStep == IInv /\ [Next]_vars => Types'
<1> SUFFICES ASSUME IInv, [Next]_vars PROVE Types'
    OBVIOUS
<1> USE DEF outVars
<1>0. call' \in [Tasks -> CallRecords]
    BY CallTypes
<1> DEFINE Rest == UNCHANGED <<owner, inUse, intruded, ready_, mutex_, transaction_, settings_, holder, hold,
                               port, chosen, foreign>>
<1>r. CASE Rest
    BY <1>r, <1>0 DEF IInv, Types
<1>1. ASSUME NEW t \in Tasks, setBitOrder(t) \/ setMode(t) PROVE Types'
    <2>1. Self(t) \in Objects
        BY <1>1, SelfIs DEF setBitOrder, setMode, At, Idle
    <2>2. PICK s \in Ordered(Self(t)) \cup Clocked(Self(t)) :
            SetTo(Self(t), s) /\ Chooses(t, s) /\ (configure(s) \/ UNCHANGED <<port, intruded>>)
        BY <1>1 DEF setBitOrder, setMode
    <2>3. s \in Settings
        BY <2>1, <2>2 DEF Ordered, Clocked, Settings, IInv, Types
    <2>4. port' \in Ports /\ intruded' \in BOOLEAN
        BY <2>2, <2>3, ConfigureTypes DEF IInv, Types
    <2>5. settings_' \in [Objects -> Settings] /\ chosen' \in [Tasks -> Settings \cup {None}]
        BY <2>1, <2>2, <2>3 DEF SetTo, Chooses, IInv, Types
    <2> QED
        BY <1>0, <1>1, <2>4, <2>5 DEF setBitOrder, setMode, lockVars, IInv, Types
<1>2. ASSUME NEW t \in Tasks, transaction(t) PROVE Types'
    <2>0. Self(t) \in Objects
        BY <1>2, SelfIs DEF transaction, At, Idle
    <2>1. PICK s \in Settings : /\ SetTo(Self(t), s) /\ configure(s)
                                /\ chosen' = [chosen EXCEPT ![t] = s]
        BY <1>2 DEF transaction
    <2>2. port' \in Ports /\ intruded' \in BOOLEAN
        BY <2>1, ConfigureTypes
    <2>3. holder' \in Tasks \cup {None} /\ hold' \in Nat
        BY <1>2, TakeTypes DEF transaction, IInv
    <2>4. settings_' \in [Objects -> Settings] /\ chosen' \in [Tasks -> Settings \cup {None}]
          /\ transaction_' \in [Objects -> BOOLEAN]
        BY <1>2, <2>0, <2>1 DEF transaction, SetTo, IInv, Types
    <2> QED
        BY <1>0, <1>2, <2>2, <2>3, <2>4 DEF transaction, IInv, Types
<1>3. ASSUME NEW t \in Tasks, pack(t) \/ start(t) PROVE Types'
    <2>1. holder' \in Tasks \cup {None} /\ hold' \in Nat
        BY <1>3, TakeTypes DEF pack, start, IInv
    <2>2. CASE start(t)
        <3>1. PortIs(port.mode, ~ intruded, <<>>, <<>>)
            BY <2>2, FifosAre, PortAll DEF start, IInv
        <3>2. port' \in Ports
            BY <3>1, PortTypes, FifosAre, Emptied DEF IInv, Types
        <3> QED
            BY <1>0, <2>2, <2>1, <3>2 DEF start, objVars, IInv, Types
    <2>3. CASE pack(t)
        BY <1>0, <2>3, <2>1 DEF pack, objVars, IInv, Types
    <2> QED
        BY <1>3, <2>2, <2>3 DEF pack, start, objVars, IInv, Types
<1>4. ASSUME NEW t \in Tasks, nested(t) PROVE Types'
    BY <1>4, <1>r DEF nested, objVars, lockVars
<1>5. ASSUME NEW t \in Tasks, claim(t) \/ createMutex(t) \/ ready(t) PROVE Types'
    <2>1. Self(t) \in Objects
        BY <1>5, SelfIs DEF claim, createMutex, ready, At, Idle
    <2>2. owner' \in Objects \cup {None} /\ mutex_' \in [Objects -> BOOLEAN]
          /\ ready_' \in [Objects -> BOOLEAN]
        BY <1>5, <2>1 DEF claim, createMutex, ready, objVars, IInv, Types
    <2>3. port' \in Ports /\ intruded' \in BOOLEAN
        BY <1>5, <2>1, ConfigureTypes DEF claim, createMutex, ready, IInv, Types
    <2> QED
        BY <1>0, <1>5, <2>2, <2>3 DEF claim, createMutex, ready, objVars, lockVars, IInv, Types
<1>6. ASSUME NEW t \in Tasks, push(t) \/ pull(t) \/ pullOther(t) PROVE Types'
    <2>1. CASE UNCHANGED port
        BY <1>6, <2>1, <1>r DEF push, pull, pullOther, objVars, lockVars
    <2>2. CASE port' = [port EXCEPT !.tx = Append(@, Frame(t))]
        <3>1. Self(t) \in Objects
            BY <1>6, SelfIs DEF push, pull, pullOther, At, Idle
        <3>2. Frame(t) \in Frames
            BY <3>1 DEF IInv, Types, CallRecords, Frames, Settings, Frame
        <3>3. PortIs(port.mode, port.enabled, Append(port.tx, Frame(t)), port.rx)
            BY <2>2, FifosAre, PortTx DEF IInv
        <3>4. Append(port.tx, Frame(t)) \in Seq(Frames)
            BY <3>2, FifosAre DEF IInv
        <3>5. port' \in Ports
            BY <3>3, <3>4, PortTypes, FifosAre DEF IInv
        <3> QED
            BY <1>0, <1>6, <3>5 DEF push, pull, pullOther, objVars, lockVars, IInv, Types
    <2>3. CASE port.rx # <<>> /\ port' = [port EXCEPT !.rx = Tail(@)]
        <3>1. PortIs(port.mode, port.enabled, port.tx, Tail(port.rx))
            BY <2>3, FifosAre, PortRx DEF IInv
        <3>2. Tail(port.rx) \in Seq(Frames)
            BY <2>3, FifosAre DEF IInv
        <3>3. port' \in Ports
            BY <3>1, <3>2, PortTypes, FifosAre DEF IInv
        <3> QED
            BY <1>0, <1>6, <3>3 DEF push, pull, pullOther, objVars, lockVars, IInv, Types
    <2> QED
        BY <1>6, <2>1, <2>2, <2>3 DEF push, pull, pullOther
<1>7. ASSUME NEW t \in Tasks, last(t) \/ unpack(t) PROVE Types'
    <2>1. holder' \in Tasks \cup {None} /\ hold' \in Nat
        BY <1>7, ReleaseTypes DEF last, unpack, IInv
    <2>2. port' \in Ports
        BY <1>7 DEF last, unpack, IInv, Types, Ports
    <2> QED
        BY <1>0, <1>7, <2>1, <2>2 DEF last, unpack, objVars, IInv, Types
<1>8. ASSUME NEW t \in Tasks, NEW o \in Objects, Calls(t, o) PROVE Types'
    <2>1. CASE end(t, o)
        <3>1. PortIs(port.mode, FALSE, <<>>, <<>>)
            BY <2>1, FifosAre, PortAll DEF end, IInv
        <3>2. port' \in Ports
            BY <3>1, PortTypes, FifosAre, Emptied DEF IInv
        <3> QED
            BY <1>0, <2>1, <3>2 DEF end, IInv, Types
    <2>2. CASE setUnready(t, o)
        <3>1. PICK s \in Ordered(o) \cup Clocked(o) : SetTo(o, s)
            BY <2>2 DEF setUnready
        <3>2. s \in Settings
            BY <3>1 DEF Ordered, Clocked, Settings, IInv, Types
        <3> QED
            BY <1>0, <2>2, <3>1, <3>2 DEF setUnready, SetTo, lockVars, IInv, Types
    <2>3. CASE endTransaction(t, o)
        <3>1. holder' \in Tasks \cup {None} /\ hold' \in Nat
            BY <2>3, ReleaseTypes DEF endTransaction, IInv
        <3>2. foreign' \in BOOLEAN
            BY <2>3 DEF endTransaction
        <3> QED
            BY <1>0, <2>3, <3>1, <3>2 DEF endTransaction, IInv, Types
    <2>4. CASE \E l, a : Enter(t, o, l, a)
        BY <2>4, <1>r DEF Enter, objVars, lockVars
    <2> QED
        BY <1>8, <2>1, <2>2, <2>3, <2>4 DEF Calls, begin, set, beginTransaction, transfer, wordTransfer
<1>9. CASE Shift
    <2>1. port.tx \in Seq(Frames) /\ port.rx \in Seq(Frames) /\ port.tx # <<>>
        BY <1>9 DEF Shift, IInv, Types, Ports
    <2>2. Head(port.tx) \in Frames /\ Tail(port.tx) \in Seq(Frames)
        BY <2>1
    <2> DEFINE y == IF Len(port.rx) < Depth THEN Append(port.rx, Head(port.tx)) ELSE port.rx
    <2>3. port' = [port EXCEPT !.tx = Tail(port.tx), !.rx = y]
        BY <1>9 DEF Shift
    <2>y. y \in Seq(Frames)
        BY <2>1, <2>2
    <2> HIDE DEF y
    <2>4. PortIs(port.mode, port.enabled, Tail(port.tx), y)
        BY <2>3, FifosAre, PortFifos DEF IInv
    <2>5. port' \in Ports
        BY <2>2, <2>4, <2>y, PortTypes, FifosAre DEF IInv
    <2> QED
        BY <1>0, <1>9, <2>5 DEF Shift, objVars, lockVars, IInv, Types
<1>10. CASE TakenOutside \/ UsedOutside
    BY <1>0, <1>10, TouchedPort DEF TakenOutside, UsedOutside, Touched, objVars, lockVars, IInv, Types
<1>11. CASE UNCHANGED vars
    BY <1>11, <1>r DEF vars, objVars, lockVars
<1> QED
    BY <1>1, <1>2, <1>3, <1>4, <1>5, <1>6, <1>7, <1>8, <1>9, <1>10, <1>11 DEF Next, Locks, Steps

-------------------------------------------------------------------------------
(* The calls.  A call that neither begins nor ends a claim of the bus.         *)
LEMMA PlainCall ==
    ASSUME CallInv, NEW t \in Tasks, Others(t), UNCHANGED <<owner, ready_, mutex_>>,
           Local(call'[t]), call'[t].at \notin {"mutex", "ready"},
           call'[t].at \in InMutex => ready_[call'[t].obj]
    PROVE  CallInv'
<1>1. \A u \in Tasks : Local(call'[u])
    BY DEF CallInv, Others
<1>2. \A u \in Tasks : Claiming(u)' => Claiming(u) /\ call'[u] = call[u]
    BY DEF Others, Claiming
<1>3. \A u \in Tasks : At(u, "ready")' => At(u, "ready") /\ call'[u] = call[u]
    BY DEF Others, At
<1>4. \A u \in Tasks : call'[u].at \in InMutex => ready_'[call'[u].obj]
    BY DEF Others, CallInv, Self
<1> QED
    BY <1>1, <1>2, <1>3, <1>4 DEF CallInv, Self

LEMMA ReturnedPlain ==
    ASSUME Types, CallInv, NEW t \in Tasks, Return(t), UNCHANGED <<owner, ready_, mutex_>>
    PROVE  CallInv'
<1>1. Others(t) /\ call'[t] = NoCall
    BY Returned
<1>2. Local(NoCall) /\ NoCall.at = "idle"
    BY NoCallIs DEF NoCall
<1>3. NoCall.at \notin {"mutex", "ready"} /\ NoCall.at \notin InMutex
    BY <1>2 DEF InMutex
<1> QED
    BY <1>1, <1>2, <1>3, PlainCall

LEMMA CallStep == IInv /\ [Next]_vars => CallInv'
<1> SUFFICES ASSUME IInv, [Next]_vars PROVE CallInv'
    OBVIOUS
<1>i. Types /\ CallInv
    BY DEF IInv
<1>0. ASSUME UNCHANGED <<owner, ready_, mutex_, call>> PROVE CallInv'
    BY <1>0, <1>i DEF CallInv, Claiming, At, Self
<1>1. ASSUME NEW t \in Tasks, setBitOrder(t) \/ setMode(t) \/ nested(t) \/ transaction(t) \/ unpack(t)
      PROVE  CallInv'
    BY <1>1, <1>i, ReturnedPlain DEF setBitOrder, setMode, nested, transaction, unpack, objVars
<1>2. ASSUME NEW t \in Tasks, pack(t) PROVE CallInv'
    <2>1. At(t, "word") /\ Self(t) \in Objects /\ ready_[Self(t)] /\ Local(call[t])
        BY <1>2, <1>i, SelfIs DEF pack, At, Idle, InMutex, CallInv
    <2>2. settings_[Self(t)].order \in Orders
        BY <2>1, <1>i DEF Types, Settings
    <2>3. Others(t) /\ call'[t] = [call[t] EXCEPT !.order = settings_[Self(t)].order, !.at = "packed"]
        BY <1>2, <1>i, <2>2, PackedCall DEF pack, Types
    <2>4. call[t] \in CallRecords
        BY <1>i DEF Types
    <2>5. /\ call'[t].at = "packed" /\ call'[t].obj = Self(t) /\ call'[t].arg = call[t].arg
          /\ call'[t].order # None
          /\ call'[t].sent = call[t].sent /\ call'[t].received = call[t].received
        BY <2>2, <2>3, <2>4, NoneIsNone DEF CallRecords, Self
    <2>6. Local(call'[t])
        BY <2>1, <2>5 DEF Local, InTransferCall, InWord, At, Self
    <2> QED
        BY <1>2, <1>i, <2>1, <2>3, <2>5, <2>6, PlainCall DEF pack, objVars
<1>3. ASSUME NEW t \in Tasks, NEW l \in {"push", "pull", "last", "unpack"}, Goto(t, l),
             call[t].at \in {"transfer", "packed", "push", "pull", "last"},
             l = "unpack" => call[t].order # None, UNCHANGED <<owner, ready_, mutex_>>
      PROVE  CallInv'
    <2>1. l \in Labels
        BY DEF Labels, InMutex
    <2>2. Others(t) /\ call'[t] = [call[t] EXCEPT !.at = l]
        BY <1>3, <1>i, <2>1, Gone
    <2>3. call[t] \in CallRecords /\ Local(call[t])
        BY <1>i DEF Types, CallInv
    <2>4. /\ call'[t].at = l /\ call'[t].obj = Self(t) /\ call'[t].arg = call[t].arg
          /\ call'[t].order = call[t].order
        BY <2>2, <2>3 DEF CallRecords, Self
    <2>5. Local(call'[t])
        BY <1>3, <2>3, <2>4 DEF Local, InTransferCall, InWord, Self
    <2>6. ready_[Self(t)]
        BY <1>3, <1>i DEF CallInv, InMutex
    <2> QED
        BY <1>3, <1>i, <2>2, <2>4, <2>5, <2>6, PlainCall
<1>4. ASSUME NEW t \in Tasks, start(t) PROVE CallInv'
    BY <1>4, <1>3 DEF start, objVars
<1>5. ASSUME NEW t \in Tasks, push(t) \/ pull(t) \/ pullOther(t) PROVE CallInv'
    <2>1. CASE \E l \in {"push", "pull", "last"} : Goto(t, l)
        BY <1>5, <2>1, <1>3 DEF push, pull, pullOther, At, objVars
    <2>2. CASE call' = [call EXCEPT ![t].sent = @ + 1] \/ call' = [call EXCEPT ![t].received = @ + 1]
        <3>1. call[t] \in CallRecords /\ Local(call[t]) /\ ready_[Self(t)]
              /\ call[t].at \in {"push", "pull"}
            BY <1>5, <1>i DEF push, pull, pullOther, At, Types, CallInv, InMutex
        <3>2. /\ call'[t].at = call[t].at /\ call'[t].obj = Self(t) /\ call'[t].arg = call[t].arg
              /\ call'[t].order = call[t].order /\ Others(t)
            BY <2>2, <1>i, <3>1 DEF Types, CallRecords, Others, Self
        <3>3. Local(call'[t])
            BY <3>1, <3>2 DEF Local, InTransferCall, InWord, Self
        <3> QED
            BY <1>5, <1>i, <3>1, <3>2, <3>3, PlainCall DEF push, pull, pullOther, objVars
    <2> QED
        BY <1>5, <2>1, <2>2 DEF push, pull, pullOther
<1>6. ASSUME NEW t \in Tasks, last(t) PROVE CallInv'
    BY <1>6, <1>3, <1>i, ReturnedPlain DEF last, At, objVars
<1>7. ASSUME NEW t \in Tasks, claim(t) PROVE CallInv'
    <2>1. CASE owner # None
        BY <1>7, <2>1, <1>i, ReturnedPlain DEF claim, objVars
    <2>2. CASE owner = None
        <3>1. owner' = Self(t) /\ Goto(t, "mutex") /\ UNCHANGED <<ready_, mutex_>> /\ At(t, "claim")
            BY <1>7, <2>2 DEF claim, objVars
        <3>2. Others(t) /\ call'[t] = [call[t] EXCEPT !.at = "mutex"]
            BY <3>1, <1>i, Gone DEF Labels
        <3>3. call[t] \in CallRecords /\ Local(call[t]) /\ Self(t) \in Objects
            BY <3>1, <1>i, SelfIs DEF Types, CallInv, At, Idle
        <3>4. /\ call'[t].at = "mutex" /\ call'[t].obj = Self(t) /\ call'[t].order = call[t].order
              /\ call'[t].sent = call[t].sent /\ call'[t].received = call[t].received
            BY <3>2, <3>3 DEF CallRecords, Self
        <3>5. Local(call'[t])
            BY <3>1, <3>3, <3>4 DEF Local, InTransferCall, InWord, Self, At
        <3>6. \A u \in Tasks : ~ Claiming(u) /\ ~ At(u, "ready")
            BY <2>2, <1>i, NoneIsNone DEF CallInv, Claiming, At, Local, Self
        <3>7. ~ ready_[Self(t)]
            BY <2>2, <3>3, NoneIsNone DEF IInv, OwnerInv
        <3>8. \A u \in Tasks : Claiming(u)' => u = t
            BY <3>2, <3>6 DEF Claiming, Others
        <3>9. \A u \in Tasks : ~ At(u, "ready")'
            BY <3>2, <3>4, <3>6 DEF At, Others
        <3>10. \A u \in Tasks : call'[u].at \in InMutex => ready_'[call'[u].obj]
            BY <3>1, <3>2, <3>4, <1>i DEF CallInv, Others, InMutex, Self
        <3>11. \A u \in Tasks : Local(call'[u])
            BY <3>2, <3>5, <1>i DEF CallInv, Others
        <3> QED
            BY <3>1, <3>4, <3>7, <3>8, <3>9, <3>10, <3>11 DEF CallInv, Self
    <2> QED
        BY <2>1, <2>2
<1>8. ASSUME NEW t \in Tasks, createMutex(t) PROVE CallInv'
    <2>1. /\ At(t, "mutex") /\ Claiming(t) /\ owner = Self(t) /\ Self(t) \in Objects
          /\ ~ ready_[Self(t)] /\ UNCHANGED ready_
        BY <1>8, <1>i, SelfIs DEF createMutex, At, Idle, Claiming, CallInv
    <2>2. \A u \in Tasks : Claiming(u) => u = t
        BY <2>1, <1>i DEF CallInv
    <2>3. CASE owner' = None /\ Return(t) /\ UNCHANGED mutex_
        <3>1. Others(t) /\ call'[t] = NoCall
            BY <2>3, <1>i, Returned
        <3>2. Local(NoCall) /\ NoCall.at = "idle"
            BY NoCallIs DEF NoCall
        <3>3. \A u \in Tasks : ~ Claiming(u)' /\ ~ At(u, "ready")'
            BY <3>1, <3>2, <2>2 DEF Claiming, Others, At
        <3>4. \A u \in Tasks : Local(call'[u]) /\ (call'[u].at \in InMutex => ready_'[call'[u].obj])
            BY <3>1, <3>2, <2>1, <1>i DEF CallInv, Others, InMutex, Self
        <3> QED
            BY <3>3, <3>4 DEF CallInv, Self
    <2>4. CASE mutex_' = [mutex_ EXCEPT ![Self(t)] = TRUE] /\ Goto(t, "ready") /\ UNCHANGED owner
        <3>1. Others(t) /\ call'[t] = [call[t] EXCEPT !.at = "ready"]
            BY <2>4, <1>i, Gone DEF Labels
        <3>2. call[t] \in CallRecords /\ Local(call[t])
            BY <1>i DEF Types, CallInv
        <3>3. /\ call'[t].at = "ready" /\ call'[t].obj = Self(t) /\ call'[t].order = call[t].order
              /\ call'[t].sent = call[t].sent /\ call'[t].received = call[t].received
            BY <3>1, <3>2 DEF CallRecords, Self
        <3>4. Local(call'[t])
            BY <2>1, <3>2, <3>3 DEF Local, InTransferCall, InWord, Self, At
        <3>5. \A u \in Tasks : Claiming(u)' => u = t
            BY <3>1, <2>2 DEF Claiming, Others
        <3>6. \A u \in Tasks : At(u, "ready")' => u = t
            BY <3>5 DEF At, Claiming
        <3>7. mutex_'[Self(t)]
            BY <2>1, <2>4, <1>i DEF Types
        <3>8. \A u \in Tasks : Local(call'[u]) /\ (call'[u].at \in InMutex => ready_'[call'[u].obj])
            BY <3>1, <3>3, <3>4, <2>1, <1>i DEF CallInv, Others, InMutex, Self
        <3> QED
            BY <2>1, <2>4, <3>3, <3>5, <3>6, <3>7, <3>8 DEF CallInv, Self
    <2> QED
        BY <1>8, <2>3, <2>4 DEF createMutex
<1>9. ASSUME NEW t \in Tasks, ready(t) PROVE CallInv'
    <2>1. /\ Claiming(t) /\ Self(t) \in Objects /\ UNCHANGED <<owner, mutex_>>
          /\ ready_' = [ready_ EXCEPT ![Self(t)] = TRUE] /\ Return(t)
        BY <1>9, SelfIs DEF ready, At, Idle, Claiming
    <2>2. Others(t) /\ call'[t] = NoCall
        BY <2>1, <1>i, Returned
    <2>3. Local(NoCall) /\ NoCall.at = "idle"
        BY NoCallIs DEF NoCall
    <2>4. \A u \in Tasks : ~ Claiming(u)' /\ ~ At(u, "ready")'
        BY <2>1, <2>2, <2>3, <1>i DEF Claiming, Others, At, CallInv
    <2>5. \A o \in Objects : ready_[o] => ready_'[o]
        BY <2>1, <1>i DEF Types
    <2>6. \A u \in Tasks : Local(call'[u]) /\ (call'[u].at \in InMutex => ready_'[call'[u].obj])
        BY <2>2, <2>3, <2>5, <1>i DEF CallInv, Others, InMutex, Self, Local
    <2> QED
        BY <2>4, <2>6 DEF CallInv, Self
<1>10. ASSUME NEW t \in Tasks, NEW o \in Objects, end(t, o) PROVE CallInv'
    <2>1. \A u \in Tasks : call'[u].at = "idle" /\ Local(call'[u])
        BY <1>10, <1>i DEF end, Idle, At, CallInv
    <2> QED
        BY <2>1 DEF CallInv, Claiming, At, InMutex
<1>11. ASSUME NEW t \in Tasks, NEW o \in Objects, NEW l \in {"claim", "set", "transaction", "transfer", "word"},
              NEW a \in Sizes \cup {None}, Enter(t, o, l, a), l # "claim" => ready_[o],
              l \in {"transfer", "word"} => a \in Sizes
       PROVE  CallInv'
    <2>1. l \in Labels
        BY DEF Labels, InMutex
    <2>2. /\ Others(t)
          /\ call'[t] = [at |-> l, obj |-> o, arg |-> a, sent |-> 0, received |-> 0, order |-> None]
        BY <1>11, <1>i, <2>1, Entered
    <2>3. call'[t].at = l /\ call'[t].obj = o
        BY <2>2
    <2>4. Local(call'[t])
        BY <1>11, <2>2 DEF Local, InTransferCall, InWord
    <2>5. call'[t].at \in InMutex => ready_[call'[t].obj]
        BY <1>11, <2>3 DEF InMutex
    <2>6. UNCHANGED <<owner, ready_, mutex_>>
        BY <1>11 DEF Enter, objVars
    <2> QED
        BY <1>i, <2>2, <2>3, <2>4, <2>5, <2>6, PlainCall
<1>12. ASSUME NEW t \in Tasks, NEW o \in Objects, Calls(t, o) PROVE CallInv'
    <2>1. CASE setUnready(t, o) \/ endTransaction(t, o)
        BY <2>1, <1>0 DEF setUnready, endTransaction
    <2>2. CASE begin(t, o) \/ set(t, o) \/ beginTransaction(t, o)
               \/ (\E n \in Sizes : transfer(t, o, n) \/ wordTransfer(t, o, n))
        BY <2>2, <1>11 DEF begin, set, beginTransaction, transfer, wordTransfer
    <2> QED
        BY <1>10, <1>12, <2>1, <2>2 DEF Calls
<1>13. CASE Shift \/ TakenOutside \/ UsedOutside \/ UNCHANGED vars
    BY <1>13, <1>0 DEF Shift, TakenOutside, UsedOutside, Touched, vars, objVars
<1> QED
    BY <1>1, <1>2, <1>4, <1>5, <1>6, <1>7, <1>8, <1>9, <1>12, <1>13 DEF Next, Locks, Steps

-------------------------------------------------------------------------------
(* The ownership of the bus.  A step that leaves the claims alone: what it     *)
(* does to the call of t, and to the lock.                                     *)
Stays(t) == /\ Others(t) /\ UNCHANGED <<owner, ready_, mutex_>>
            /\ call'[t].at # "mutex"

LEMMA OwnerKept ==
    ASSUME OwnerInv, NEW t \in Tasks, Stays(t), \A o \in Objects : transaction_'[o] => ready_[o],
           holder' # None => holder # None \/ (owner # None /\ ready_[owner])
    PROVE  OwnerInv'
<1>1. \A u \in Tasks : At(u, "mutex")' => At(u, "mutex") /\ call'[u] = call[u]
    BY DEF Stays, Others, At
<1> QED
    BY <1>1 DEF OwnerInv, Stays, Self

(* The three ways out of a step, as seen by the lock: a call that returns, one *)
(* that goes on to l, one that moves a frame.                                  *)
LEMMA ReturnStays ==
    ASSUME Types, NEW t \in Tasks, Return(t), UNCHANGED <<owner, ready_, mutex_>>
    PROVE  Stays(t)
    BY Returned DEF Stays, NoCall

LEMMA GotoStays ==
    ASSUME Types, NEW t \in Tasks, NEW l \in InMutex, Goto(t, l), UNCHANGED <<owner, ready_, mutex_>>
    PROVE  Stays(t) /\ call'[t].at = l /\ call'[t].obj = call[t].obj /\ call'[t].order = call[t].order
           /\ call'[t].sent = call[t].sent /\ call'[t].received = call[t].received
<1>1. Others(t) /\ call'[t] = [call[t] EXCEPT !.at = l]
    BY Gone DEF Labels
<1>2. call[t] \in CallRecords
    BY DEF Types
<1> QED
    BY <1>1, <1>2 DEF Stays, CallRecords, InMutex

LEMMA FrameStays ==
    ASSUME Types, NEW t \in Tasks, call[t].at \in InMutex, UNCHANGED <<owner, ready_, mutex_>>,
           call' = [call EXCEPT ![t].sent = @ + 1] \/ call' = [call EXCEPT ![t].received = @ + 1]
    PROVE  Stays(t) /\ call'[t].at = call[t].at /\ call'[t].obj = call[t].obj /\ call'[t].order = call[t].order
<1>1. Others(t)
    BY DEF Types, Others
<1>2. call'[t].at = call[t].at /\ call'[t].obj = call[t].obj /\ call'[t].order = call[t].order
    <2>1. CASE call' = [call EXCEPT ![t].sent = @ + 1]
        BY <2>1 DEF Types, CallRecords
    <2>2. CASE call' = [call EXCEPT ![t].received = @ + 1]
        BY <2>2 DEF Types, CallRecords
    <2> QED
        BY <2>1, <2>2
<1> QED
    BY <1>1, <1>2 DEF Stays, InMutex

LEMMA PackStays ==
    ASSUME IInv, NEW t \in Tasks, pack(t)
    PROVE  Stays(t) /\ call'[t].at = "packed" /\ call'[t].obj = call[t].obj
           /\ call'[t].order = settings_[Self(t)].order /\ call'[t].order # None
<1>1. Self(t) \in Objects
    BY SelfIs DEF pack, At, Idle
<1>2. settings_[Self(t)].order \in Orders
    BY <1>1 DEF IInv, Types, Settings
<1>3. Others(t) /\ call'[t] = [call[t] EXCEPT !.order = settings_[Self(t)].order, !.at = "packed"]
    BY <1>2, PackedCall DEF pack, IInv, Types
<1>4. call[t] \in CallRecords
    BY DEF IInv, Types
<1>5. call'[t].at = "packed" /\ call'[t].obj = call[t].obj
      /\ call'[t].order = settings_[Self(t)].order /\ call'[t].order # None
    BY <1>2, <1>3, <1>4, NoneIsNone DEF CallRecords
<1>6. UNCHANGED <<owner, ready_, mutex_>>
    BY DEF pack, objVars
<1> QED
    BY <1>3, <1>5, <1>6 DEF Stays

LEMMA OwnerStep == IInv /\ [Next]_vars => OwnerInv'
<1> SUFFICES ASSUME IInv, [Next]_vars PROVE OwnerInv'
    OBVIOUS
<1>i. Types /\ CallInv /\ OwnerInv
    BY DEF IInv
<1>0. \A t \in Tasks : ~ Idle(t) /\ call[t].at \in InMutex
                        => owner # None /\ ready_[owner] /\ Self(t) \in Objects /\ ready_[Self(t)]
    BY SelfIs, NoneIsNone
<1>1. ASSUME NEW t \in Tasks, Locks(t) PROVE OwnerInv'
    <2>1. owner # None /\ ready_[owner] /\ Self(t) \in Objects /\ ready_[Self(t)]
        BY <1>0, <1>1 DEF Locks, setBitOrder, setMode, nested, transaction, pack, start, At, Idle, InMutex
    <2>2. Stays(t)
        BY <1>1, <1>i, ReturnStays, GotoStays, PackStays
        DEF Locks, setBitOrder, setMode, nested, transaction, start, objVars, InMutex
    <2>3. \A o \in Objects : transaction_'[o] => ready_[o]
        BY <1>1, <1>i, <2>1
        DEF Locks, setBitOrder, setMode, nested, transaction, pack, start, objVars, OwnerInv, Types
    <2> QED
        BY <1>i, <2>1, <2>2, <2>3, OwnerKept
<1>2. ASSUME NEW t \in Tasks, push(t) \/ pull(t) \/ pullOther(t) \/ last(t) \/ unpack(t) PROVE OwnerInv'
    <2>1. owner # None /\ ready_[owner]
        BY <1>0, <1>2 DEF push, pull, pullOther, last, unpack, At, Idle, InMutex
    <2>2. Stays(t)
        BY <1>2, <1>i, ReturnStays, GotoStays, FrameStays
        DEF push, pull, pullOther, last, unpack, objVars, InMutex, At
    <2>3. \A o \in Objects : transaction_'[o] => ready_[o]
        BY <1>2, <1>i DEF push, pull, pullOther, last, unpack, objVars, OwnerInv
    <2> QED
        BY <1>i, <2>1, <2>2, <2>3, OwnerKept
<1>3. ASSUME NEW t \in Tasks, claim(t) PROVE OwnerInv'
    <2>1. CASE owner # None
        <3>1. Stays(t)
            BY <1>3, <2>1, <1>i, ReturnStays DEF claim, objVars
        <3> QED
            BY <1>3, <1>i, <3>1, OwnerKept DEF claim, objVars, lockVars, OwnerInv
    <2>2. CASE owner = None
        <3>1. owner' = Self(t) /\ Goto(t, "mutex") /\ Self(t) \in Objects /\ holder = None
              /\ UNCHANGED <<ready_, mutex_, transaction_, holder>>
            BY <1>3, <2>2, <1>i, SelfIs DEF claim, objVars, lockVars, OwnerInv, At, Idle
        <3>2. \A o \in Objects : ~ mutex_[o] /\ ~ ready_[o] /\ ~ transaction_[o]
            BY <2>2, <1>i, NoneIsNone DEF OwnerInv
        <3>0. Others(t) /\ call'[t] = [call[t] EXCEPT !.at = "mutex"]
            BY <3>1, <1>i, Gone DEF Labels
        <3>3. Others(t) /\ call'[t].obj = Self(t)
            BY <3>0, <1>i DEF Types, CallRecords, Self
        <3>4. \A u \in Tasks : At(u, "mutex")' => call'[u].obj \in Objects
            BY <3>1, <3>3, <1>i DEF Others, CallInv, Local, At
        <3> QED
            BY <3>1, <3>2, <3>4 DEF OwnerInv, Self
    <2> QED
        BY <2>1, <2>2
<1>4. ASSUME NEW t \in Tasks, createMutex(t) \/ ready(t) PROVE OwnerInv'
    <2>1. /\ Self(t) \in Objects /\ owner = Self(t) /\ ~ ready_[Self(t)]
          /\ \A u \in Tasks : Claiming(u) => u = t
        BY <1>4, <1>i, SelfIs, NoneIsNone
        DEF createMutex, ready, At, Idle, CallInv, Claiming, OwnerInv
    <2>2. holder = None /\ holder' = None /\ ~ transaction_[Self(t)] /\ UNCHANGED transaction_
        BY <1>4, <1>i, <2>1 DEF OwnerInv, createMutex, ready, lockVars
    <2>3. Others(t) /\ call'[t].at \in {"idle", "ready"}
        <3>1. CASE Return(t)
            BY <3>1, <1>i, Returned DEF NoCall
        <3>2. CASE Goto(t, "ready")
            <4>1. Others(t) /\ call'[t] = [call[t] EXCEPT !.at = "ready"]
                BY <3>2, <1>i, Gone DEF Labels
            <4> QED
                BY <4>1, <1>i DEF Types, CallRecords
        <3> QED
            BY <1>4, <3>1, <3>2 DEF createMutex, ready
    <2>4. \A u \in Tasks : ~ At(u, "mutex")'
        BY <2>1, <2>3 DEF Others, At, Claiming
    <2>5. CASE ready(t)
        <3>1. mutex_[Self(t)] /\ UNCHANGED <<owner, mutex_>> /\ ready_' = [ready_ EXCEPT ![Self(t)] = TRUE]
            BY <2>5, <1>i DEF ready, CallInv
        <3>2. \A o \in Objects : /\ ready_'[o] => mutex_'[o]
                                 /\ mutex_'[o] => owner' = o
                                 /\ transaction_'[o] => ready_'[o]
            BY <3>1, <2>1, <2>2, <1>i DEF Types, OwnerInv
        <3> QED
            BY <2>1, <2>2, <2>4, <3>2 DEF OwnerInv
    <2>6. CASE createMutex(t)
        <3>1. ~ mutex_[Self(t)] /\ UNCHANGED ready_
            BY <2>6, <1>i DEF createMutex, OwnerInv
        <3>2. \/ mutex_' = [mutex_ EXCEPT ![Self(t)] = TRUE] /\ UNCHANGED owner
              \/ owner' = None /\ UNCHANGED mutex_
            BY <2>6 DEF createMutex
        <3>3. \A o \in Objects : /\ ready_'[o] => mutex_'[o]
                                 /\ mutex_'[o] => owner' = o
                                 /\ transaction_'[o] => ready_'[o]
            BY <3>1, <3>2, <2>1, <2>2, <1>i DEF Types, OwnerInv
        <3> QED
            BY <2>1, <2>2, <2>4, <3>3 DEF OwnerInv
    <2> QED
        BY <1>4, <2>5, <2>6
<1>5. ASSUME NEW t \in Tasks, NEW o \in Objects, end(t, o) PROVE OwnerInv'
    <2>1. owner = o /\ \A x \in Objects : x # o => ~ mutex_[x] /\ ~ ready_[x] /\ ~ transaction_[x]
        BY <1>5, <1>i DEF end, OwnerInv
    <2>2. \A x \in Objects : ~ mutex_'[x] /\ ~ ready_'[x] /\ ~ transaction_'[x]
        BY <1>5, <2>1, <1>i DEF end, Types
    <2>3. \A u \in Tasks : call'[u].at = "idle"
        BY <1>5 DEF end, Idle, At
    <2> QED
        BY <1>5, <2>2, <2>3 DEF end, OwnerInv, At
<1>6. ASSUME NEW t \in Tasks, NEW o \in Objects, NEW l \in Labels \ {"mutex"}, NEW a \in Sizes \cup {None},
             Enter(t, o, l, a)
      PROVE  OwnerInv'
    <2>0. /\ Others(t)
          /\ call'[t] = [at |-> l, obj |-> o, arg |-> a, sent |-> 0, received |-> 0, order |-> None]
        BY <1>6, <1>i, Entered
    <2>1. Others(t) /\ call'[t].at = l
        BY <2>0
    <2>2. UNCHANGED <<owner, ready_, mutex_, transaction_, holder>>
        BY <1>6 DEF Enter, objVars, lockVars
    <2>3. \A u \in Tasks : At(u, "mutex")' => At(u, "mutex") /\ call'[u] = call[u]
        BY <2>1 DEF Others, At
    <2> QED
        BY <2>2, <2>3, <1>i DEF OwnerInv, Self
<1>7. ASSUME NEW t \in Tasks, NEW o \in Objects, Calls(t, o) PROVE OwnerInv'
    <2>1. CASE begin(t, o) \/ set(t, o) \/ beginTransaction(t, o)
               \/ (\E n \in Sizes : transfer(t, o, n) \/ wordTransfer(t, o, n))
        BY <2>1, <1>6 DEF begin, set, beginTransaction, transfer, wordTransfer, Labels, InMutex
    <2>2. CASE setUnready(t, o)
        BY <2>2, <1>i DEF setUnready, lockVars, OwnerInv, At, Self
    <2>3. CASE endTransaction(t, o)
        <3>1. \A x \in Objects : transaction_'[x] => transaction_[x]
            BY <2>3, <1>i DEF endTransaction, Types
        <3>2. holder' # None => holder # None
            BY <2>3, NoneIsNone DEF endTransaction, Release, lockVars
        <3> QED
            BY <2>3, <3>1, <3>2, <1>i DEF endTransaction, OwnerInv, At, Self
    <2> QED
        BY <1>5, <1>7, <2>1, <2>2, <2>3 DEF Calls
<1>8. CASE Shift \/ UNCHANGED vars
    BY <1>8, <1>i DEF Shift, vars, objVars, lockVars, OwnerInv, At, Self
<1>9. CASE TakenOutside \/ UsedOutside
    BY <1>9, <1>i DEF TakenOutside, UsedOutside, Touched, objVars, lockVars, OwnerInv, At, Self
<1> QED
    BY <1>1, <1>2, <1>3, <1>4, <1>7, <1>8, <1>9 DEF Next, Locks, Steps

-------------------------------------------------------------------------------
(* The lock.  A step that neither takes nor releases it.                       *)
LEMMA LockKept ==
    ASSUME LockInv, NEW t \in Tasks, Others(t), UNCHANGED <<holder, hold, transaction_, foreign>>,
           Word(t)' <=> Word(t), Transferring(t)' <=> Transferring(t),
           \A u \in Tasks : chosen'[u] # None <=> chosen[u] # None
    PROVE  LockInv'
<1>1. \A u \in Tasks : (Word(u)' <=> Word(u)) /\ (Transferring(u)' <=> Transferring(u))
    BY DEF Others, Word, Transferring
<1>2. (Open' <=> Open) /\ (Packed' <=> Packed) /\ (Moving' <=> Moving)
    BY <1>1 DEF Open, Packed, Moving
<1> QED
    BY <1>1, <1>2 DEF LockInv, Once

(* A call outside of a word and of a transfer, and one that has returned.      *)
LEMMA Quiet ==
    ASSUME IInv, NEW t \in Tasks, call[t].at \notin InWord
    PROVE  ~ Word(t) /\ ~ Transferring(t)
    BY DEF IInv, CallInv, Local, Word, Transferring, InWord

LEMMA ReturnQuiet ==
    ASSUME IInv, NEW t \in Tasks, Return(t)
    PROVE  Others(t) /\ ~ Word(t)' /\ ~ Transferring(t)' /\ call'[t] = NoCall
<1>1. Others(t) /\ call'[t] = NoCall
    BY Returned DEF IInv
<1> QED
    BY <1>1 DEF Word, Transferring, NoCall

LEMMA GotoQuiet ==
    ASSUME IInv, NEW t \in Tasks, NEW l \in Labels, Goto(t, l)
    PROVE  /\ Others(t) /\ (Word(t)' <=> Word(t)) /\ (Transferring(t)' <=> l \in {"push", "pull", "last"})
           /\ call'[t].at = l /\ call'[t].obj = call[t].obj /\ call'[t].order = call[t].order
           /\ call'[t].sent = call[t].sent /\ call'[t].received = call[t].received
<1>1. Others(t) /\ call'[t] = [call[t] EXCEPT !.at = l]
    BY Gone DEF IInv
<1>2. call[t] \in CallRecords
    BY DEF IInv, Types
<1>3. /\ call'[t].at = l /\ call'[t].obj = call[t].obj /\ call'[t].order = call[t].order
      /\ call'[t].sent = call[t].sent /\ call'[t].received = call[t].received
    BY <1>1, <1>2 DEF CallRecords
<1> QED
    BY <1>1, <1>3 DEF Word, Transferring

(* Who can take the lock is the only one with a reason to hold it.             *)
LEMMA AloneInLock ==
    ASSUME IInv, NEW t \in Tasks, CanTake(t), NEW u \in Tasks,
           Word(u) \/ Transferring(u) \/ chosen[u] # None
    PROVE  u = t
    BY NoneIsNone DEF IInv, LockInv, CanTake

(* Only the owner of the bus has an open transaction.                          *)
LEMMA OpenIsOwners ==
    ASSUME IInv, NEW o \in Objects, owner = o
    PROVE  Open <=> transaction_[o]
    BY DEF IInv, OwnerInv, Open

LEMMA TransactionLock ==
    ASSUME IInv, NEW t \in Tasks, transaction(t)
    PROVE  LockInv'
<1>1. /\ CanTake(t) /\ holder' = t /\ hold' = hold + 1 /\ Self(t) \in Objects /\ owner = Self(t)
      /\ ~ transaction_[Self(t)] /\ UNCHANGED foreign
    BY SelfIs DEF transaction, Take, At, Idle, InMutex
<1>2. ~ Open /\ Open'
    BY <1>1, OpenIsOwners DEF transaction, IInv, Types, Open
<1>3. Others(t) /\ ~ Word(t) /\ ~ Transferring(t) /\ ~ Word(t)' /\ ~ Transferring(t)'
    BY Quiet, ReturnQuiet DEF transaction, At, InWord
<1>4. \A u \in Tasks : (Word(u)' <=> Word(u)) /\ (Transferring(u)' <=> Transferring(u))
    BY <1>3 DEF Others, Word, Transferring
<1>5. (Packed' <=> Packed) /\ (Moving' <=> Moving)
    BY <1>4 DEF Packed, Moving
<1>6. \A u \in Tasks : Word(u)' \/ Transferring(u)' \/ chosen'[u] # None => u = t
    BY <1>1, <1>4, AloneInLock DEF transaction, IInv, Types
<1>7. hold \in Nat /\ t # None
    BY NoneIsNone DEF IInv, Types
<1>8. hold' = Once(Open') + Once(foreign') + Once(Packed') + Once(Moving')
    BY <1>1, <1>2, <1>5, <1>7 DEF IInv, LockInv, Once
<1>9. hold' # 0 /\ holder' # None
    BY <1>1, <1>7
<1>10. \A u \in Tasks : chosen'[u] # None => Open' \/ foreign'
    BY <1>2
<1> QED
    BY <1>1, <1>6, <1>8, <1>9, <1>10 DEF LockInv

LEMMA PackLock ==
    ASSUME IInv, NEW t \in Tasks, pack(t)
    PROVE  LockInv'
<1>1. /\ CanTake(t) /\ holder' = t /\ hold' = hold + 1
      /\ UNCHANGED <<foreign, transaction_, chosen>> /\ call[t].at = "word"
    BY DEF pack, Take, objVars, At
<1>2. Others(t) /\ call'[t].at = "packed" /\ call'[t].order # None
    BY PackStays DEF Stays
<1>3. ~ Word(t) /\ ~ Transferring(t) /\ Word(t)' /\ ~ Transferring(t)'
    BY <1>1, <1>2, Quiet DEF InWord, Word, Transferring
<1>4. \A u \in Tasks : u # t => (Word(u)' <=> Word(u)) /\ (Transferring(u)' <=> Transferring(u))
    BY <1>2 DEF Others, Word, Transferring
<1>5. (Open' <=> Open) /\ (Moving' <=> Moving) /\ Packed'
    BY <1>1, <1>3, <1>4 DEF Packed, Moving, Open
<1>6. \A u \in Tasks : Word(u) \/ Transferring(u) \/ chosen[u] # None => u = t
    BY <1>1, AloneInLock
<1>7. ~ Packed
    BY <1>3, <1>6 DEF Packed
<1>8. hold \in Nat /\ t # None
    BY NoneIsNone DEF IInv, Types
<1>9. hold' = Once(Open') + Once(foreign') + Once(Packed') + Once(Moving')
    BY <1>1, <1>5, <1>7, <1>8 DEF IInv, LockInv, Once
<1>10. \A u \in Tasks : Word(u)' \/ Transferring(u)' \/ chosen'[u] # None => u = t
    BY <1>1, <1>4, <1>6
<1>11. \A u \in Tasks : chosen'[u] # None => Open' \/ foreign'
    BY <1>1, <1>5 DEF IInv, LockInv
<1> QED
    BY <1>1, <1>8, <1>9, <1>10, <1>11 DEF LockInv

LEMMA StartLock ==
    ASSUME IInv, NEW t \in Tasks, start(t)
    PROVE  LockInv'
<1>1. /\ CanTake(t) /\ holder' = t /\ hold' = hold + 1
      /\ UNCHANGED <<foreign, transaction_, chosen>> /\ call[t].at \in {"transfer", "packed"}
    BY DEF start, Take, objVars
<1>2. Others(t) /\ (Word(t)' <=> Word(t)) /\ Transferring(t)' /\ ~ Transferring(t)
    BY <1>1, GotoQuiet DEF start, Labels, InMutex, Transferring
<1>3. \A u \in Tasks : (Word(u)' <=> Word(u)) /\ (u # t => (Transferring(u)' <=> Transferring(u)))
    BY <1>2 DEF Others, Word, Transferring
<1>4. (Open' <=> Open) /\ (Packed' <=> Packed) /\ Moving'
    BY <1>1, <1>2, <1>3 DEF Packed, Moving, Open
<1>5. \A u \in Tasks : Word(u) \/ Transferring(u) \/ chosen[u] # None => u = t
    BY <1>1, AloneInLock
<1>6. ~ Moving
    BY <1>2, <1>5 DEF Moving
<1>7. hold \in Nat /\ t # None
    BY NoneIsNone DEF IInv, Types
<1>8. hold' = Once(Open') + Once(foreign') + Once(Packed') + Once(Moving')
    BY <1>1, <1>4, <1>6, <1>7 DEF IInv, LockInv, Once
<1>9. \A u \in Tasks : Word(u)' \/ Transferring(u)' \/ chosen'[u] # None => u = t
    BY <1>1, <1>3, <1>5
<1>10. \A u \in Tasks : chosen'[u] # None => Open' \/ foreign'
    BY <1>1, <1>4 DEF IInv, LockInv
<1> QED
    BY <1>1, <1>7, <1>8, <1>9, <1>10 DEF LockInv

(* A holder that gives up one of its reasons, and the lock with the last one.  *)
LEMMA ReleaseLock ==
    ASSUME IInv, NEW t \in Tasks, holder = t, Release(t), UNCHANGED foreign,
           \/ Open /\ ~ Open' /\ (Packed' <=> Packed) /\ (Moving' <=> Moving)
           \/ Packed /\ ~ Packed' /\ (Open' <=> Open) /\ (Moving' <=> Moving)
           \/ Moving /\ ~ Moving' /\ (Open' <=> Open) /\ (Packed' <=> Packed),
           \A u \in Tasks : Word(u)' \/ Transferring(u)' \/ chosen'[u] # None
                              => Word(u) \/ Transferring(u) \/ chosen[u] # None,
           \A u \in Tasks : chosen'[u] # None => Open' \/ foreign'
    PROVE  LockInv'
<1>1. hold \in Nat /\ hold' = hold - 1 /\ holder' = (IF hold = 1 THEN None ELSE t) /\ t # None
    BY NoneIsNone DEF IInv, Types, Release
<1>2. hold' = Once(Open') + Once(foreign') + Once(Packed') + Once(Moving')
    BY <1>1 DEF IInv, LockInv, Once
<1>3. hold = 1 => ~ Open' /\ ~ foreign' /\ ~ Packed' /\ ~ Moving'
    BY <1>1, <1>2 DEF Once
<1>4. hold = 1 => \A u \in Tasks : ~ (Word(u)' \/ Transferring(u)' \/ chosen'[u] # None)
    BY <1>3 DEF Packed, Moving
<1>5. \A u \in Tasks : Word(u)' \/ Transferring(u)' \/ chosen'[u] # None => u = t
    BY AloneInLock DEF CanTake
<1>6. hold # 0
    BY NoneIsNone DEF IInv, LockInv
<1> QED
    BY <1>1, <1>2, <1>4, <1>5, <1>6 DEF LockInv

LEMMA LastLock ==
    ASSUME IInv, NEW t \in Tasks, last(t)
    PROVE  LockInv'
<1>1. /\ Transferring(t) /\ Release(t) /\ UNCHANGED <<transaction_, foreign, chosen>>
      /\ (Return(t) /\ call[t].order = None) \/ Goto(t, "unpack")
    BY DEF last, objVars, At, Transferring
<1>2. holder = t
    BY <1>1 DEF IInv, LockInv
<1>3. Others(t) /\ ~ Transferring(t)' /\ (Word(t)' <=> Word(t))
    BY <1>1, ReturnQuiet, GotoQuiet DEF Word, Labels, InMutex
<1>4. \A u \in Tasks : (Word(u)' <=> Word(u)) /\ (u # t => (Transferring(u)' <=> Transferring(u)))
    BY <1>3 DEF Others, Word, Transferring
<1>5. \A u \in Tasks : Transferring(u) => u = t
    BY <1>2, AloneInLock DEF CanTake
<1>6. Moving /\ ~ Moving' /\ (Open' <=> Open) /\ (Packed' <=> Packed)
    BY <1>1, <1>3, <1>4, <1>5 DEF Moving, Open, Packed
<1>7. \A u \in Tasks : chosen'[u] # None => Open' \/ foreign'
    BY <1>1, <1>6 DEF IInv, LockInv
<1>8. \A u \in Tasks : Word(u)' \/ Transferring(u)' \/ chosen'[u] # None
                         => Word(u) \/ Transferring(u) \/ chosen[u] # None
    BY <1>1, <1>3, <1>4
<1> QED
    BY <1>1, <1>2, <1>6, <1>7, <1>8, ReleaseLock

LEMMA UnpackLock ==
    ASSUME IInv, NEW t \in Tasks, unpack(t)
    PROVE  LockInv'
<1>1. /\ Word(t) /\ ~ Transferring(t) /\ Release(t) /\ Return(t)
      /\ UNCHANGED <<transaction_, foreign, chosen>>
    BY DEF unpack, objVars, At, Word, Transferring, IInv, CallInv, Local
<1>2. holder = t
    BY <1>1 DEF IInv, LockInv
<1>3. Others(t) /\ ~ Transferring(t)' /\ ~ Word(t)'
    BY <1>1, ReturnQuiet
<1>4. \A u \in Tasks : (u # t => (Word(u)' <=> Word(u))) /\ (Transferring(u)' <=> Transferring(u))
    BY <1>1, <1>3 DEF Others, Word, Transferring
<1>5. \A u \in Tasks : Word(u) => u = t
    BY <1>2, AloneInLock DEF CanTake
<1>6. Packed /\ ~ Packed' /\ (Open' <=> Open) /\ (Moving' <=> Moving)
    BY <1>1, <1>3, <1>4, <1>5 DEF Moving, Open, Packed
<1>7. \A u \in Tasks : chosen'[u] # None => Open' \/ foreign'
    BY <1>1, <1>6 DEF IInv, LockInv
<1>8. \A u \in Tasks : Word(u)' \/ Transferring(u)' \/ chosen'[u] # None
                         => Word(u) \/ Transferring(u) \/ chosen[u] # None
    BY <1>1, <1>3, <1>4
<1> QED
    BY <1>1, <1>2, <1>6, <1>7, <1>8, ReleaseLock

(* endTransaction by the holder releases; by another task it makes the lock    *)
(* of the transaction one that nobody accounts for.                            *)
LEMMA EndTransactionLock ==
    ASSUME IInv, NEW t \in Tasks, NEW o \in Objects, endTransaction(t, o)
    PROVE  LockInv'
<1>1. /\ transaction_[o] /\ transaction_' = [transaction_ EXCEPT ![o] = FALSE] /\ Release(t)
      /\ foreign' = (foreign \/ holder # t) /\ chosen' = [chosen EXCEPT ![t] = None]
      /\ UNCHANGED call /\ (foreign => holder = t)
    BY DEF endTransaction, MaxForeign
<1>2. owner = o
    BY <1>1 DEF IInv, OwnerInv
<1>3. Open /\ ~ Open'
    BY <1>1, <1>2 DEF IInv, OwnerInv, Types, Open
<1>4. \A u \in Tasks : (Word(u)' <=> Word(u)) /\ (Transferring(u)' <=> Transferring(u))
    BY <1>1 DEF Word, Transferring
<1>5. (Packed' <=> Packed) /\ (Moving' <=> Moving)
    BY <1>4 DEF Packed, Moving
<1>6. \A u \in Tasks : chosen'[u] # None => chosen[u] # None /\ u # t
    BY <1>1 DEF IInv, Types
<1>7. CASE holder = t
    <2>1. \A u \in Tasks : chosen'[u] = None
        BY <1>6, <1>7, AloneInLock DEF CanTake
    <2>2. \A u \in Tasks : Word(u)' \/ Transferring(u)' \/ chosen'[u] # None
                             => Word(u) \/ Transferring(u) \/ chosen[u] # None
        BY <1>4, <2>1
    <2>3. UNCHANGED foreign
        BY <1>1, <1>7 DEF IInv, Types
    <2> QED
        BY <1>1, <1>3, <1>5, <1>7, <2>1, <2>2, <2>3, ReleaseLock
<1>8. CASE holder # t
    <2>1. UNCHANGED <<holder, hold>> /\ foreign' /\ ~ foreign
        BY <1>1, <1>8 DEF Release, lockVars
    <2>2. hold' = Once(Open') + Once(foreign') + Once(Packed') + Once(Moving')
        BY <1>3, <1>5, <2>1 DEF IInv, LockInv, Once
    <2> QED
        BY <2>1, <2>2, <1>4, <1>6 DEF IInv, LockInv
<1> QED
    BY <1>7, <1>8

LEMMA EndLock ==
    ASSUME IInv, NEW t \in Tasks, NEW o \in Objects, end(t, o)
    PROVE  LockInv'
<1>1. /\ ready_[o] /\ \A u \in Tasks : call[u].at = "idle"
      /\ transaction_' = [transaction_ EXCEPT ![o] = FALSE] /\ UNCHANGED call
      /\ holder' = None /\ hold' = 0 /\ chosen' = [u \in Tasks |-> None] /\ foreign' = FALSE
    BY DEF end, Idle, At
<1>2. owner = o
    BY <1>1 DEF IInv, OwnerInv
<1>3. ~ Open'
    BY <1>1, <1>2 DEF IInv, OwnerInv, Types, Open
<1>4. \A u \in Tasks : ~ Word(u) /\ ~ Transferring(u)
    BY <1>1, Quiet DEF InWord
<1>5. \A u \in Tasks : ~ Word(u)' /\ ~ Transferring(u)' /\ chosen'[u] = None
    BY <1>1, <1>4 DEF Word, Transferring
<1>6. ~ Packed' /\ ~ Moving'
    BY <1>5 DEF Packed, Moving
<1>7. hold' = Once(Open') + Once(foreign') + Once(Packed') + Once(Moving')
    BY <1>1, <1>3, <1>6 DEF Once
<1> QED
    BY <1>1, <1>5, <1>7 DEF LockInv

LEMMA LockStep == IInv /\ [Next]_vars => LockInv'
<1> SUFFICES ASSUME IInv, [Next]_vars PROVE LockInv'
    OBVIOUS
<1>i. Types /\ CallInv /\ LockInv
    BY DEF IInv
<1>0. ASSUME UNCHANGED <<holder, hold, transaction_, foreign, call, chosen>> PROVE LockInv'
    BY <1>0, <1>i DEF LockInv, Open, Packed, Moving, Word, Transferring
<1>1. ASSUME NEW t \in Tasks, Return(t), call[t].at \notin InWord,
             UNCHANGED <<holder, hold, transaction_, foreign>>,
             \A u \in Tasks : chosen'[u] # None <=> chosen[u] # None
      PROVE  LockInv'
    BY <1>1, <1>i, Quiet, ReturnQuiet, LockKept
<1>2. ASSUME NEW t \in Tasks, NEW l \in Labels, Goto(t, l), Transferring(t) <=> l \in {"push", "pull", "last"},
             UNCHANGED <<holder, hold, transaction_, foreign, chosen>>
      PROVE  LockInv'
    BY <1>2, <1>i, GotoQuiet, LockKept
<1>3. ASSUME NEW t \in Tasks, setBitOrder(t) \/ setMode(t) PROVE LockInv'
    <2>1. Self(t) \in Objects
        BY <1>3, SelfIs DEF setBitOrder, setMode, At, Idle
    <2>2. PICK s \in Ordered(Self(t)) \cup Clocked(Self(t)) : Chooses(t, s)
        BY <1>3 DEF setBitOrder, setMode
    <2>3. s \in Settings
        BY <2>1, <2>2, <1>i DEF Ordered, Clocked, Settings, Types
    <2>4. \A u \in Tasks : chosen'[u] # None <=> chosen[u] # None
        BY <2>2, <2>3, <1>i, NoneIsNone DEF Chooses, Types
    <2> QED
        BY <1>1, <1>3, <2>4 DEF setBitOrder, setMode, At, InWord, lockVars
<1>4. ASSUME NEW t \in Tasks, claim(t) \/ createMutex(t) \/ ready(t) \/ nested(t) PROVE LockInv'
    <2>1. call[t].at \in {"claim", "mutex", "ready", "transaction"}
          /\ UNCHANGED <<holder, hold, transaction_, foreign, chosen>>
        BY <1>4 DEF claim, createMutex, ready, nested, At, lockVars, objVars
    <2>2. CASE Return(t)
        BY <2>1, <2>2, <1>1 DEF InWord
    <2>3. CASE \E l \in {"mutex", "ready"} : Goto(t, l)
        BY <2>1, <2>3, <1>2 DEF Transferring, Labels
    <2> QED
        BY <1>4, <2>2, <2>3 DEF claim, createMutex, ready, nested
<1>5. ASSUME NEW t \in Tasks, push(t) \/ pull(t) \/ pullOther(t) PROVE LockInv'
    <2>1. call[t].at \in {"push", "pull"} /\ UNCHANGED <<holder, hold, transaction_, foreign, chosen>>
        BY <1>5 DEF push, pull, pullOther, At, lockVars, objVars
    <2>2. CASE \E l \in {"push", "pull", "last"} : Goto(t, l)
        BY <2>1, <2>2, <1>2 DEF Transferring, Labels, InMutex
    <2>3. CASE call' = [call EXCEPT ![t].sent = @ + 1] \/ call' = [call EXCEPT ![t].received = @ + 1]
        <3>1. UNCHANGED <<owner, ready_, mutex_>>
            BY <1>5 DEF push, pull, pullOther, objVars
        <3>2. Stays(t) /\ call'[t].at = call[t].at /\ call'[t].order = call[t].order
            BY <2>1, <2>3, <3>1, <1>i, FrameStays DEF InMutex
        <3> QED
            BY <2>1, <3>2, <1>i, LockKept DEF Stays, Word, Transferring
    <2> QED
        BY <1>5, <2>2, <2>3 DEF push, pull, pullOther
<1>6. ASSUME NEW t \in Tasks, NEW o \in Objects, NEW l \in {"claim", "set", "transaction", "transfer", "word"},
             NEW a \in Sizes \cup {None}, Enter(t, o, l, a)
      PROVE  LockInv'
    <2>1. l \in Labels
        BY DEF Labels, InMutex
    <2>2. /\ Others(t) /\ Idle(t)
          /\ call'[t] = [at |-> l, obj |-> o, arg |-> a, sent |-> 0, received |-> 0, order |-> None]
        BY <1>6, <1>i, <2>1, Entered
    <2>3. ~ Word(t)' /\ ~ Transferring(t)'
        BY <2>2 DEF Word, Transferring
    <2>4. ~ Word(t) /\ ~ Transferring(t)
        BY <2>2, Quiet DEF Idle, At, InWord
    <2> QED
        BY <1>6, <1>i, <2>2, <2>3, <2>4, LockKept DEF Enter, lockVars, objVars
<1>7. ASSUME NEW t \in Tasks, NEW o \in Objects, Calls(t, o) PROVE LockInv'
    <2>1. CASE begin(t, o) \/ set(t, o) \/ beginTransaction(t, o)
               \/ (\E n \in Sizes : transfer(t, o, n) \/ wordTransfer(t, o, n))
        BY <2>1, <1>6 DEF begin, set, beginTransaction, transfer, wordTransfer
    <2>2. CASE setUnready(t, o)
        BY <2>2, <1>0 DEF setUnready, lockVars
    <2> QED
        BY <1>7, <2>1, <2>2, EndLock, EndTransactionLock DEF Calls
<1>8. CASE Shift \/ TakenOutside \/ UsedOutside \/ UNCHANGED vars
    BY <1>8, <1>0 DEF Shift, TakenOutside, UsedOutside, Touched, vars, objVars, lockVars
<1> QED
    BY <1>3, <1>4, <1>5, <1>7, <1>8, TransactionLock, PackLock, StartLock, LastLock, UnpackLock
    DEF Next, Locks, Steps

-------------------------------------------------------------------------------
(* Settings.  While nobody holds the lock, nothing depends on them; and a step *)
(* that keeps them keeps the words and the transactions right.                 *)
LEMMA NoHolder ==
    ASSUME IInv, holder = None, NEW u \in Tasks
    PROVE  ~ Word(u) /\ ~ Transferring(u) /\ chosen[u] = None
    BY NoneIsNone DEF IInv, LockInv

LEMMA BeginHasNoHolder ==
    ASSUME IInv, NEW t \in Tasks, call[t].at \in {"mutex", "ready"} \/ owner = None
    PROVE  holder = None
<1>1. CASE owner = None
    BY <1>1 DEF IInv, OwnerInv
<1>2. CASE Claiming(t)
    BY <1>2 DEF IInv, OwnerInv, CallInv
<1> QED
    BY <1>1, <1>2 DEF Claiming

LEMMA SettingsKept ==
    ASSUME SettingsStable, LockInv', UNCHANGED <<owner, settings_, intruded>>, port'.mode = port.mode,
           \A u \in Tasks : chosen'[u] \in {None, chosen[u]},
           \A u \in Tasks : Word(u)' => call'[u].order = call[u].order /\ call'[u].obj = call[u].obj
    PROVE  SettingsStable'
<1>1. \A u \in Tasks : chosen'[u] # None => holder' = u
    BY DEF LockInv
<1> QED
    BY <1>1 DEF SettingsStable, Word, Self

LEMMA OthersKeepWord ==
    ASSUME NEW t \in Tasks, Others(t), ~ Word(t)' \/ (call'[t].order = call[t].order /\ call'[t].obj = call[t].obj),
           NEW u \in Tasks, Word(u)'
    PROVE  call'[u].order = call[u].order /\ call'[u].obj = call[u].obj
    BY DEF Others, Word

LEMMA SettingsStep == IInv /\ [Next]_vars => SettingsStable'
<1> SUFFICES ASSUME IInv, [Next]_vars PROVE SettingsStable'
    OBVIOUS
<1>i. Types /\ CallInv /\ OwnerInv /\ LockInv /\ SettingsStable /\ port \in Ports
    BY DEF IInv, Types
<1> USE DEF outVars
<1>l. LockInv'
    BY LockStep
<1>0. ASSUME UNCHANGED <<owner, settings_, intruded, chosen, call>>, port'.mode = port.mode PROVE SettingsStable'
    BY <1>0, <1>i, <1>l, SettingsKept
<1>1. ASSUME NEW t \in Tasks, UNCHANGED <<owner, settings_, intruded, chosen>>, port'.mode = port.mode, Others(t),
             ~ Word(t)' \/ (call'[t].order = call[t].order /\ call'[t].obj = call[t].obj)
      PROVE  SettingsStable'
    <2>1. \A u \in Tasks : chosen'[u] \in {None, chosen[u]}
        BY <1>1
    <2>2. \A u \in Tasks : Word(u)' => call'[u].order = call[u].order /\ call'[u].obj = call[u].obj
        BY <1>1, OthersKeepWord
    <2> QED
        BY <1>1, <1>i, <1>l, <2>1, <2>2, SettingsKept
<1>2. ASSUME NEW t \in Tasks, setBitOrder(t) \/ setMode(t) \/ transaction(t) PROVE SettingsStable'
    <2>1. Self(t) \in Objects /\ owner = Self(t) /\ UNCHANGED owner /\ CanTake(t) /\ Return(t)
        BY <1>2, SelfIs DEF setBitOrder, setMode, transaction, Take, At, Idle, InMutex
    <2>3. PICK s \in Settings :
            /\ settings_' = [settings_ EXCEPT ![Self(t)] = s]
            /\ chosen'[t] \in {None, s}
            /\ \A u \in Tasks : u # t => chosen'[u] = chosen[u]
            /\ chosen'[t] # None => intruded' \/ port'.mode = s.mode
        <3>1. CASE transaction(t)
            <4>1. PICK s \in Settings : /\ SetTo(Self(t), s) /\ configure(s)
                                        /\ chosen' = [chosen EXCEPT ![t] = s]
                BY <3>1 DEF transaction
            <4>2. port'.mode = s.mode
                BY <4>1 DEF configure, spi_init
            <4> QED
                BY <4>1, <4>2, <1>i DEF SetTo, Types
        <3>2. CASE setMode(t)
            <4>1. PICK s \in Clocked(Self(t)) : SetTo(Self(t), s) /\ Chooses(t, s) /\ configure(s)
                BY <3>2 DEF setMode
            <4>2. s \in Settings
                BY <4>1, <2>1, <1>i DEF Clocked, Settings, Types
            <4>3. port'.mode = s.mode
                BY <4>1 DEF configure, spi_init
            <4> QED
                BY <4>1, <4>2, <4>3, <1>i DEF SetTo, Chooses, Types
        <3>3. CASE setBitOrder(t)
            <4>1. PICK s \in Ordered(Self(t)) : SetTo(Self(t), s) /\ Chooses(t, s)
                BY <3>3 DEF setBitOrder
            <4>2. s \in Settings /\ s.mode = settings_[Self(t)].mode
                BY <4>1, <2>1, <1>i DEF Ordered, Settings, Types
            <4>3. chosen[t] # None => intruded' \/ port'.mode = s.mode
                BY <3>3, <4>2, <2>1, <1>i DEF setBitOrder, SettingsStable
            <4>4. chosen' = [chosen EXCEPT ![t] = IF chosen[t] = None THEN None ELSE s]
                BY <4>1 DEF Chooses
            <4> QED
                BY <4>1, <4>2, <4>3, <4>4, <1>i DEF SetTo, Types
        <3> QED
            BY <1>2, <3>1, <3>2, <3>3
    <2>4. Others(t) /\ ~ Word(t)'
        BY <2>1, ReturnQuiet
    <2>5. \A u \in Tasks : ~ Word(u)'
        BY <2>1, <2>4, AloneInLock DEF Others, Word
    <2>6. \A u \in Tasks : chosen'[u] # None => u = t
        BY <2>1, <2>3, AloneInLock
    <2>7. settings_'[owner'] = s
        BY <2>1, <2>3, <1>i DEF Types
    <2>8. \A u \in Tasks : chosen'[u] # None => holder' = u
        BY <1>l DEF LockInv
    <2> QED
        BY <2>3, <2>5, <2>6, <2>7, <2>8 DEF SettingsStable, Word
<1>3. ASSUME NEW t \in Tasks, pack(t) PROVE SettingsStable'
    <2>1. Others(t) /\ call'[t].obj = call[t].obj /\ call'[t].order = settings_[Self(t)].order
        BY <1>3, PackStays DEF Stays
    <2>2. UNCHANGED <<owner, settings_, chosen, port, intruded>>
        BY <1>3 DEF pack, objVars
    <2>3. \A u \in Tasks : call'[u].order # None => call'[u].order = settings_'[call'[u].obj].order
        BY <2>1, <2>2, <1>i DEF Others, SettingsStable, Self
    <2>4. \A u \in Tasks : chosen'[u] # None => holder' = u
        BY <1>l DEF LockInv
    <2> QED
        BY <2>2, <2>3, <2>4, <1>i DEF SettingsStable, Self
<1>4. ASSUME NEW t \in Tasks, nested(t) \/ unpack(t) PROVE SettingsStable'
    BY <1>1, <1>4, ReturnQuiet DEF nested, unpack, objVars
<1>5. ASSUME NEW t \in Tasks, start(t) PROVE SettingsStable'
    <2>1. PortIs(port.mode, ~ intruded, <<>>, <<>>)
        BY <1>5, <1>i, PortAll DEF start
    <2>2. port'.mode = port.mode
        BY <2>1 DEF PortIs
    <2> QED
        BY <1>1, <1>5, <2>2, GotoQuiet DEF start, objVars, Labels, InMutex
<1>6. ASSUME NEW t \in Tasks, push(t) \/ pull(t) \/ pullOther(t) PROVE SettingsStable'
    <2>1. call[t].at \in {"push", "pull"} /\ UNCHANGED <<owner, ready_, mutex_, settings_, intruded, chosen>>
        BY <1>6 DEF push, pull, pullOther, At, objVars
    <2>2. port'.mode = port.mode
        BY <1>6, <1>i DEF push, pull, pullOther, Ports
    <2>3. CASE \E l \in {"push", "pull", "last"} : Goto(t, l)
        BY <2>1, <2>2, <2>3, <1>1, GotoQuiet DEF Labels, InMutex
    <2>4. CASE call' = [call EXCEPT ![t].sent = @ + 1] \/ call' = [call EXCEPT ![t].received = @ + 1]
        BY <2>1, <2>2, <2>4, <1>1, <1>i, FrameStays DEF Stays, InMutex
    <2> QED
        BY <1>6, <2>3, <2>4 DEF push, pull, pullOther
<1>7. ASSUME NEW t \in Tasks, last(t) PROVE SettingsStable'
    <2>1. port'.mode = port.mode /\ UNCHANGED <<owner, settings_, intruded, chosen>> /\ (Return(t) \/ Goto(t, "unpack"))
        BY <1>7, <1>i DEF last, Ports, objVars
    <2>2. Others(t) /\ (~ Word(t)' \/ (call'[t].order = call[t].order /\ call'[t].obj = call[t].obj))
        BY <2>1, ReturnQuiet, GotoQuiet DEF Labels, InMutex
    <2> QED
        BY <1>1, <2>1, <2>2
<1>8. ASSUME NEW t \in Tasks, claim(t) PROVE SettingsStable'
    <2>1. CASE owner # None
        BY <1>1, <1>8, <2>1, ReturnQuiet DEF claim, objVars
    <2>2. CASE owner = None
        <3>1. Goto(t, "mutex") /\ UNCHANGED chosen
            BY <1>8, <2>2 DEF claim
        <3>2. \A u \in Tasks : ~ Word(u) /\ chosen[u] = None
            BY <2>2, BeginHasNoHolder, NoHolder
        <3>3. \A u \in Tasks : ~ Word(u)' /\ chosen'[u] = None
            BY <3>1, <3>2, GotoQuiet DEF Others, Word, Labels
        <3> QED
            BY <3>3 DEF SettingsStable, Word
    <2> QED
        BY <2>1, <2>2
<1>9. ASSUME NEW t \in Tasks, createMutex(t) \/ ready(t) PROVE SettingsStable'
    <2>1. (Return(t) \/ Goto(t, "ready")) /\ UNCHANGED chosen /\ call[t].at \in {"mutex", "ready"}
        BY <1>9 DEF createMutex, ready, At
    <2>2. \A u \in Tasks : ~ Word(u) /\ chosen[u] = None
        BY <2>1, BeginHasNoHolder, NoHolder
    <2>3. \A u \in Tasks : ~ Word(u)' /\ chosen'[u] = None
        BY <2>1, <2>2, GotoQuiet, ReturnQuiet DEF Others, Word, Labels
    <2> QED
        BY <2>3 DEF SettingsStable, Word
<1>10. ASSUME NEW t \in Tasks, NEW o \in Objects, NEW l \in Labels,
              NEW a \in Sizes \cup {None}, Enter(t, o, l, a)
       PROVE  SettingsStable'
    <2>1. /\ Others(t)
          /\ call'[t] = [at |-> l, obj |-> o, arg |-> a, sent |-> 0, received |-> 0, order |-> None]
        BY <1>10, <1>i, Entered
    <2>2. ~ Word(t)'
        BY <2>1 DEF Word
    <2> QED
        BY <1>1, <1>10, <2>1, <2>2 DEF Enter, objVars
<1>11. ASSUME NEW t \in Tasks, NEW o \in Objects, end(t, o) PROVE SettingsStable'
    <2>1. \A u \in Tasks : call'[u] = call[u] /\ call[u].at = "idle" /\ chosen'[u] = None
        BY <1>11 DEF end, Idle, At
    <2>2. \A u \in Tasks : call'[u].order = None
        BY <2>1, Quiet DEF Word, InWord
    <2> QED
        BY <2>1, <2>2 DEF SettingsStable
<1>12. ASSUME NEW t \in Tasks, NEW o \in Objects, setUnready(t, o) PROVE SettingsStable'
    <2>1. /\ ~ mutex_[o] /\ owner # o /\ UNCHANGED <<owner, port, intruded, call, chosen, holder>>
          /\ \A x \in Objects : x # o => settings_'[x] = settings_[x]
        BY <1>12, <1>i DEF setUnready, SetTo, Types, lockVars
    <2>2. \A u \in Tasks : Word(u) => Self(u) \in Objects /\ Self(u) # o
        BY <2>1, <1>i, SelfIs DEF Word, CallInv, Local, InWord, InMutex, Idle, At
    <2>3. \A u \in Tasks : chosen[u] # None => owner \in Objects
        BY <1>i, NoneIsNone DEF Types, OwnerInv, LockInv
    <2> QED
        BY <2>1, <2>2, <2>3, <1>i DEF SettingsStable, Word, Self
<1>13. ASSUME NEW t \in Tasks, NEW o \in Objects, endTransaction(t, o) PROVE SettingsStable'
    <2>1. \A u \in Tasks : chosen'[u] \in {None, chosen[u]}
        BY <1>13, <1>i DEF endTransaction, Types
    <2> QED
        BY <1>13, <2>1, <1>i, <1>l, SettingsKept DEF endTransaction
<1>14. ASSUME NEW t \in Tasks, NEW o \in Objects, Calls(t, o) PROVE SettingsStable'
    <2>1. CASE begin(t, o) \/ set(t, o) \/ beginTransaction(t, o)
               \/ (\E n \in Sizes : transfer(t, o, n) \/ wordTransfer(t, o, n))
        BY <2>1, <1>10 DEF begin, set, beginTransaction, transfer, wordTransfer, Labels, InMutex
    <2> QED
        BY <1>11, <1>12, <1>13, <1>14, <2>1 DEF Calls
<1>15. CASE Shift
    <2>1. port'.mode = port.mode
        BY <1>15, <1>i DEF Shift, Ports
    <2> QED
        BY <1>0, <1>15, <2>1 DEF Shift, objVars
<1>16. CASE UNCHANGED vars
    BY <1>16, <1>0 DEF vars, objVars
<1>17. CASE TakenOutside \/ UsedOutside
    <2>1. UNCHANGED <<owner, settings_, holder, chosen, call>> /\ (owner # None => intruded')
        BY <1>17 DEF TakenOutside, UsedOutside, Touched, objVars, lockVars
    <2>2. \A u \in Tasks : chosen[u] # None => owner # None
        BY <1>i, NoneIsNone DEF LockInv, OwnerInv
    <2> QED
        BY <2>1, <2>2, <1>i DEF SettingsStable, Self
<1> QED
    BY <1>2, <1>3, <1>4, <1>5, <1>6, <1>7, <1>8, <1>9, <1>14, <1>15, <1>16, <1>17 DEF Next, Locks, Steps

-------------------------------------------------------------------------------
(* The FIFOs.  Nobody transfers, or somebody does and nothing has moved.       *)
LEMMA FifoOff ==
    ASSUME ~ port'.enabled, \A u \in Tasks : ~ Transferring(u)'
    PROVE  FifoInv'
    BY DEF FifoInv

LEMMA FifoTouched ==
    ASSUME ~ port'.enabled, intruded'
    PROVE  FifoInv'
    BY DEF FifoInv

LEMMA FifoKept ==
    ASSUME FifoInv, UNCHANGED <<port, intruded>>,
           \A u \in Tasks : Transferring(u)' <=> Transferring(u),
           \A u \in Tasks : Transferring(u) =>
               /\ call'[u].sent = call[u].sent /\ call'[u].received = call[u].received
               /\ call'[u].obj = call[u].obj /\ settings_'[Self(u)] = settings_[Self(u)]
    PROVE  FifoInv'
<1>1. Moving' <=> Moving
    BY DEF Moving
<1> QED
    BY <1>1 DEF FifoInv, Self

(* Who can take the lock without transferring finds the port off.              *)
LEMMA PortIsOff ==
    ASSUME IInv, NEW t \in Tasks, CanTake(t), ~ Transferring(t)
    PROVE  ~ port.enabled /\ \A u \in Tasks : ~ Transferring(u)
<1>1. \A u \in Tasks : ~ Transferring(u)
    BY AloneInLock
<1> QED
    BY <1>1 DEF IInv, FifoInv, Moving

LEMMA StartFifo ==
    ASSUME IInv, NEW t \in Tasks, start(t)
    PROVE  FifoInv'
<1>1. PortIs(port.mode, ~ intruded, <<>>, <<>>)
    BY FifosAre, PortAll DEF start, IInv
<1>2. port'.rx = <<>> /\ port'.tx = <<>> /\ port'.enabled = (~ intruded) /\ UNCHANGED intruded
    BY <1>1 DEF PortIs, start, outVars
<1>3. call[t].at \in {"transfer", "packed"} /\ Goto(t, "push") /\ CanTake(t)
    BY DEF start, Take
<1>4. Others(t) /\ Transferring(t)' /\ call'[t].sent = 0 /\ call'[t].received = 0
    BY <1>3, GotoQuiet DEF Labels, InMutex, IInv, CallInv, Local
<1>5. \A u \in Tasks : Transferring(u)' => u = t
    BY <1>3, <1>4, AloneInLock DEF Others, Transferring
<1>6. Moving'
    BY <1>4 DEF Moving
<1>7. FramesOf(0, 0, settings_'[call'[t].obj].order, <<>>, <<>>)
    BY NoneIsNone DEF FramesOf
<1> QED
    BY <1>2, <1>4, <1>5, <1>6, <1>7 DEF FifoInv, Self

(* What appending to a FIFO and taking from it do to its frames.               *)
LEMMA Appended ==
    ASSUME NEW q \in Seq(Frames), NEW f \in Frames
    PROVE  /\ Len(Append(q, f)) = Len(q) + 1
           /\ \A i \in 1 .. Len(q) + 1 : Append(q, f)[i] = IF i = Len(q) + 1 THEN f ELSE q[i]
    OBVIOUS

LEMMA Tailed ==
    ASSUME NEW q \in Seq(Frames), q # <<>>
    PROVE  /\ Len(Tail(q)) = Len(q) - 1 /\ Len(q) > 0 /\ Head(q) = q[1]
           /\ \A i \in 1 .. Len(q) - 1 : Tail(q)[i] = q[i + 1]
    OBVIOUS

LEMMA FramesPushed ==
    ASSUME NEW s \in Nat, NEW r \in Nat, NEW b \in Orders, NEW tx \in Seq(Frames), NEW rx \in Seq(Frames),
           FramesOf(s, r, b, tx, rx), s - r < Depth
    PROVE  FramesOf(s + 1, r, b, Append(tx, [n |-> s, bits |-> b]), rx)
<1> DEFINE f == [n |-> s, bits |-> b]
<1>1. f \in Frames
    BY DEF Frames
<1>2. f = [n |-> r + Len(rx) + (Len(tx) + 1) - 1, bits |-> b]
    BY DEF FramesOf
<1> HIDE DEF f
<1>3. Depth \in Nat /\ Len(tx) \in Nat /\ Len(rx) \in Nat
    BY NoneIsNone
<1>4. Len(Append(tx, f)) = Len(tx) + 1
    BY <1>1, Appended
<1>5. \A i \in 1 .. Len(tx) + 1 : Append(tx, f)[i] = [n |-> r + Len(rx) + i - 1, bits |-> b]
    <2> TAKE i \in 1 .. Len(tx) + 1
    <2>1. CASE i = Len(tx) + 1
        BY <2>1, <1>1, <1>2, Appended
    <2>2. CASE i # Len(tx) + 1
        <3>1. i \in 1 .. Len(tx)
            BY <2>2, <1>3
        <3>2. Append(tx, f)[i] = tx[i]
            BY <2>2, <1>1, Appended
        <3> QED
            BY <3>1, <3>2 DEF FramesOf
    <2> QED
        BY <2>1, <2>2
<1> DEFINE x == Append(tx, f)
<1>6. Len(x) = Len(tx) + 1 /\ \A i \in 1 .. Len(tx) + 1 : x[i] = [n |-> r + Len(rx) + i - 1, bits |-> b]
    BY <1>4, <1>5
<1> HIDE DEF x
<1>7. FramesOf(s + 1, r, b, x, rx)
    BY <1>3, <1>6 DEF FramesOf
<1> QED
    BY <1>7 DEF f, x

LEMMA FramesPulled ==
    ASSUME NEW s \in Nat, NEW r \in Nat, NEW b \in Orders, NEW tx \in Seq(Frames), NEW rx \in Seq(Frames),
           FramesOf(s, r, b, tx, rx), rx # <<>>
    PROVE  FramesOf(s, r + 1, b, tx, Tail(rx))
<1>1. Len(Tail(rx)) = Len(rx) - 1 /\ Len(rx) > 0 /\ Len(rx) \in Nat /\ Len(tx) \in Nat /\ Depth \in Nat
    BY Tailed, NoneIsNone
<1>2. \A i \in 1 .. Len(rx) - 1 : Tail(rx)[i] = [n |-> (r + 1) + i - 1, bits |-> b]
    <2> TAKE i \in 1 .. Len(rx) - 1
    <2>1. Tail(rx)[i] = rx[i + 1] /\ i + 1 \in 1 .. Len(rx)
        BY <1>1, Tailed
    <2>2. r + (i + 1) - 1 = (r + 1) + i - 1
        OBVIOUS
    <2> QED
        BY <2>1, <2>2 DEF FramesOf
<1>3. \A i \in 1 .. Len(tx) : tx[i] = [n |-> (r + 1) + (Len(rx) - 1) + i - 1, bits |-> b]
    <2> TAKE i \in 1 .. Len(tx)
    <2>1. r + Len(rx) + i - 1 = (r + 1) + (Len(rx) - 1) + i - 1
        BY <1>1
    <2> QED
        BY <2>1 DEF FramesOf
<1>4. (Len(rx) - 1) + Len(tx) = s - (r + 1) /\ s - (r + 1) <= Depth
    BY <1>1 DEF FramesOf
<1> QED
    BY <1>1, <1>2, <1>3, <1>4 DEF FramesOf

LEMMA FramesShifted ==
    ASSUME NEW s \in Nat, NEW r \in Nat, NEW b \in Orders, NEW tx \in Seq(Frames), NEW rx \in Seq(Frames),
           FramesOf(s, r, b, tx, rx), tx # <<>>
    PROVE  Len(rx) < Depth /\ FramesOf(s, r, b, Tail(tx), Append(rx, Head(tx)))
<1>1. /\ Len(Tail(tx)) = Len(tx) - 1 /\ Len(tx) > 0 /\ Len(rx) \in Nat /\ Len(tx) \in Nat /\ Depth \in Nat
      /\ Head(tx) = tx[1]
    BY Tailed, NoneIsNone
<1>2. Head(tx) \in Frames
    BY <1>1
<1>3. Len(Append(rx, Head(tx))) = Len(rx) + 1
    BY <1>2, Appended
<1>4. \A i \in 1 .. Len(rx) + 1 : Append(rx, Head(tx))[i] = [n |-> r + i - 1, bits |-> b]
    <2> TAKE i \in 1 .. Len(rx) + 1
    <2>1. CASE i = Len(rx) + 1
        <3>1. Append(rx, Head(tx))[i] = tx[1]
            BY <2>1, <1>1, <1>2, Appended
        <3>2. tx[1] = [n |-> r + Len(rx) + 1 - 1, bits |-> b]
            BY <1>1 DEF FramesOf
        <3>3. r + Len(rx) + 1 - 1 = r + i - 1
            BY <1>1, <2>1
        <3> QED
            BY <3>1, <3>2, <3>3
    <2>2. CASE i # Len(rx) + 1
        <3>1. i \in 1 .. Len(rx)
            BY <2>2, <1>1
        <3>2. Append(rx, Head(tx))[i] = rx[i]
            BY <2>2, <1>2, Appended
        <3> QED
            BY <3>1, <3>2 DEF FramesOf
    <2> QED
        BY <2>1, <2>2
<1>5. \A i \in 1 .. Len(tx) - 1 : Tail(tx)[i] = [n |-> r + (Len(rx) + 1) + i - 1, bits |-> b]
    <2> TAKE i \in 1 .. Len(tx) - 1
    <2>1. Tail(tx)[i] = tx[i + 1] /\ i + 1 \in 1 .. Len(tx)
        BY <1>1, Tailed
    <2>2. r + Len(rx) + (i + 1) - 1 = r + (Len(rx) + 1) + i - 1
        BY <1>1
    <2> QED
        BY <2>1, <2>2 DEF FramesOf
<1>6. (Len(rx) + 1) + (Len(tx) - 1) = s - r /\ s - r <= Depth /\ Len(rx) < Depth
    <2>1. Len(rx) + Len(tx) = s - r /\ s - r <= Depth
        BY DEF FramesOf
    <2>2. Len(rx) \in Nat /\ Len(tx) \in Nat /\ Len(tx) > 0 /\ Depth \in Nat
        BY <1>1
    <2> QED
        BY <2>1, <2>2
<1> DEFINE x == Tail(tx)
           y == Append(rx, Head(tx))
<1>7. /\ Len(y) = Len(rx) + 1 /\ \A i \in 1 .. Len(rx) + 1 : y[i] = [n |-> r + i - 1, bits |-> b]
      /\ Len(x) = Len(tx) - 1
      /\ \A i \in 1 .. Len(tx) - 1 : x[i] = [n |-> r + (Len(rx) + 1) + i - 1, bits |-> b]
    BY <1>1, <1>3, <1>4, <1>5
<1> HIDE DEF x, y
<1>8. FramesOf(s, r, b, x, y)
    BY <1>1, <1>6, <1>7 DEF FramesOf
<1> QED
    BY <1>6, <1>8 DEF x, y

LEMMA PushFifo ==
    ASSUME IInv, NEW t \in Tasks, push(t), Room(call[t]), ~ intruded
    PROVE  FifoInv'
<1>1. /\ At(t, "push") /\ Transferring(t) /\ holder = t /\ Self(t) \in Objects
      /\ call' = [call EXCEPT ![t].sent = @ + 1] /\ UNCHANGED settings_
    BY SelfIs DEF push, At, Idle, Transferring, IInv, LockInv, objVars
<1> DEFINE b == settings_[Self(t)].order
           s == call[t].sent
           r == call[t].received
<1>2. b \in Orders /\ s \in Nat /\ r \in Nat /\ port.tx \in Seq(Frames) /\ port.rx \in Seq(Frames)
    BY <1>1, FifosAre DEF IInv, Types, Settings, CallRecords
<1>4. FramesOf(s, r, b, port.tx, port.rx) /\ s - r < Depth /\ port.enabled
    BY <1>1 DEF IInv, FifoInv, Room
<1>3. port' = [port EXCEPT !.tx = Append(port.tx, [n |-> s, bits |-> b])] /\ ~ intruded'
    BY <1>4 DEF push, Frame, outVars
<1> DEFINE q == Append(port.tx, [n |-> s, bits |-> b])
<1>5. port' = [port EXCEPT !.tx = q]
    BY <1>3
<1> HIDE DEF q
<1>6. PortIs(port.mode, port.enabled, q, port.rx)
    BY <1>5, FifosAre, PortTx DEF IInv
<1>7. port'.tx = q /\ port'.rx = port.rx /\ port'.enabled /\ ~ intruded'
    BY <1>3, <1>4, <1>6 DEF PortIs
<1>8. /\ Others(t) /\ call'[t].sent = s + 1 /\ call'[t].received = r /\ call'[t].obj = call[t].obj
      /\ call'[t].at = "push"
    BY <1>1 DEF IInv, Types, CallRecords, Others, At
<1> HIDE DEF b, s, r
<1>9. FramesOf(s + 1, r, b, q, port.rx)
    BY <1>2, <1>4, FramesPushed DEF q
<1>10. settings_'[call'[t].obj].order = b /\ Transferring(t)'
    BY <1>1, <1>8 DEF b, Self, Transferring
<1>11. \A u \in Tasks : Transferring(u)' => u = t
    BY <1>1, <1>8, AloneInLock DEF Others, Transferring, CanTake
<1>12. Moving'
    BY <1>10 DEF Moving
<1> QED
    BY <1>7, <1>8, <1>9, <1>10, <1>11, <1>12 DEF FifoInv, Self

LEMMA PullFifo ==
    ASSUME IInv, NEW t \in Tasks, pull(t), call[t].received < call[t].sent, port.rx # <<>>,
           ~ intruded
    PROVE  FifoInv'
<1>1. /\ At(t, "pull") /\ Transferring(t) /\ holder = t /\ Self(t) \in Objects
      /\ call' = [call EXCEPT ![t].received = @ + 1] /\ UNCHANGED settings_
    BY SelfIs DEF pull, At, Idle, Transferring, IInv, LockInv, objVars
<1> DEFINE b == settings_[Self(t)].order
           s == call[t].sent
           r == call[t].received
           q == Tail(port.rx)
<1>2. b \in Orders /\ s \in Nat /\ r \in Nat /\ port.tx \in Seq(Frames) /\ port.rx \in Seq(Frames)
    BY <1>1, FifosAre DEF IInv, Types, Settings, CallRecords
<1>3. FramesOf(s, r, b, port.tx, port.rx) /\ port.enabled
    BY <1>1 DEF IInv, FifoInv
<1>4. port' = [port EXCEPT !.rx = q] /\ ~ intruded'
    BY DEF pull, outVars
<1> HIDE DEF q
<1>5. PortIs(port.mode, port.enabled, port.tx, q)
    BY <1>4, FifosAre, PortRx DEF IInv
<1>6. port'.tx = port.tx /\ port'.rx = q /\ port'.enabled /\ ~ intruded'
    BY <1>3, <1>4, <1>5 DEF PortIs
<1>7. /\ Others(t) /\ call'[t].sent = s /\ call'[t].received = r + 1 /\ call'[t].obj = call[t].obj
      /\ call'[t].at = "pull"
    BY <1>1 DEF IInv, Types, CallRecords, Others, At
<1> HIDE DEF b, s, r
<1>8. FramesOf(s, r + 1, b, port.tx, q)
    BY <1>2, <1>3, FramesPulled DEF q
<1>9. settings_'[call'[t].obj].order = b /\ Transferring(t)'
    BY <1>1, <1>7 DEF b, Self, Transferring
<1>10. \A u \in Tasks : Transferring(u)' => u = t
    BY <1>1, <1>7, AloneInLock DEF Others, Transferring, CanTake
<1>11. Moving'
    BY <1>9 DEF Moving
<1> QED
    BY <1>6, <1>7, <1>8, <1>9, <1>10, <1>11 DEF FifoInv, Self

(* The port works only during a transfer, and finds room for every answer.     *)
LEMMA ShiftFifo ==
    ASSUME IInv, Shift
    PROVE  FifoInv'
<1>1. port.enabled /\ port.tx # <<>> /\ ~ intruded /\ UNCHANGED <<settings_, call, intruded>>
    BY DEF Shift, objVars, outVars, IInv, FifoInv
<1>2. port.tx \in Seq(Frames) /\ port.rx \in Seq(Frames)
    BY FifosAre DEF IInv
<1>3. ASSUME NEW t \in Tasks, Transferring(t)
      PROVE  /\ Len(port.rx) < Depth
             /\ FramesOf(call[t].sent, call[t].received, settings_[Self(t)].order,
                         Tail(port.tx), Append(port.rx, Head(port.tx)))
    <2>1. FramesOf(call[t].sent, call[t].received, settings_[Self(t)].order, port.tx, port.rx)
        BY <1>1, <1>3 DEF IInv, FifoInv
    <2>2. Self(t) \in Objects
        BY <1>3, SelfIs DEF Transferring, Idle, At
    <2>3. call[t].sent \in Nat /\ call[t].received \in Nat /\ settings_[Self(t)].order \in Orders
        BY <2>2 DEF IInv, Types, CallRecords, Settings
    <2> QED
        BY <1>1, <1>2, <2>1, <2>3, FramesShifted
<1>4. PICK t \in Tasks : Transferring(t)
    BY <1>1 DEF IInv, FifoInv, Moving
<1>5. Len(port.rx) < Depth
    BY <1>3, <1>4
<1> DEFINE x == Tail(port.tx)
           y == Append(port.rx, Head(port.tx))
<1>6. port' = [port EXCEPT !.tx = x, !.rx = y]
    BY <1>5 DEF Shift
<1>7. \A u \in Tasks : Transferring(u) =>
         FramesOf(call[u].sent, call[u].received, settings_[Self(u)].order, x, y)
    BY <1>3
<1> HIDE DEF x, y
<1>8. PortIs(port.mode, port.enabled, x, y)
    BY <1>6, FifosAre, PortFifos DEF IInv
<1>9. port'.tx = x /\ port'.rx = y /\ port'.enabled
    BY <1>1, <1>8 DEF PortIs
<1>10. Moving'
    BY <1>1, <1>4 DEF Moving, Transferring
<1> QED
    BY <1>1, <1>7, <1>9, <1>10 DEF FifoInv, Transferring, Self

LEMMA FifoStep == IInv /\ [Next]_vars => FifoInv'
<1> SUFFICES ASSUME IInv, [Next]_vars PROVE FifoInv'
    OBVIOUS
<1>i. Types /\ CallInv /\ OwnerInv /\ LockInv /\ FifoInv /\ port \in Ports
    BY DEF IInv, Types
<1> USE DEF outVars
<1>0. ASSUME UNCHANGED <<settings_, call, port, intruded>> PROVE FifoInv'
    BY <1>0, <1>i, FifoKept DEF Transferring
<1>1. ASSUME NEW t \in Tasks, CanTake(t), call[t].at \notin {"push", "pull", "last"}, Others(t),
             ~ Transferring(t)', ~ port'.enabled \/ UNCHANGED port
      PROVE  FifoInv'
    <2>1. ~ port.enabled /\ \A u \in Tasks : ~ Transferring(u)
        BY <1>1, PortIsOff DEF Transferring
    <2>2. \A u \in Tasks : ~ Transferring(u)'
        BY <1>1, <2>1 DEF Others, Transferring
    <2> QED
        BY <1>1, <2>1, <2>2, FifoOff
<1>2. ASSUME NEW t \in Tasks, setBitOrder(t) \/ setMode(t) \/ nested(t) \/ transaction(t) PROVE FifoInv'
    <2>1. CanTake(t) /\ call[t].at \in {"set", "transaction"} /\ Return(t)
        BY <1>2 DEF setBitOrder, setMode, nested, transaction, Take, At
    <2>2. ~ port'.enabled \/ UNCHANGED port
        BY <1>2 DEF setBitOrder, setMode, nested, transaction, configure, spi_init
    <2> QED
        BY <1>1, <2>1, <2>2, ReturnQuiet
<1>3. ASSUME NEW t \in Tasks, pack(t) PROVE FifoInv'
    <2>1. CanTake(t) /\ call[t].at = "word" /\ UNCHANGED port
        BY <1>3 DEF pack, Take, At
    <2>2. Others(t) /\ call'[t].at = "packed"
        BY <1>3, PackStays DEF Stays
    <2> QED
        BY <1>1, <2>1, <2>2 DEF Transferring
<1>4. ASSUME NEW t \in Tasks, claim(t) \/ createMutex(t) \/ ready(t) PROVE FifoInv'
    <2>1. Return(t) \/ Goto(t, "mutex") \/ Goto(t, "ready")
        BY <1>4 DEF claim, createMutex, ready
    <2>2. Others(t) /\ ~ Transferring(t)'
        BY <2>1, ReturnQuiet, GotoQuiet DEF Labels
    <2>3. CASE holder = None
        <3>1. ~ port'.enabled \/ UNCHANGED port
            BY <1>4 DEF claim, createMutex, ready, configure, spi_init
        <3> QED
            BY <1>1, <1>4, <2>2, <2>3, <3>1 DEF claim, createMutex, ready, At, CanTake
    <2>4. CASE claim(t)
        <3>1. ~ Transferring(t) /\ UNCHANGED <<settings_, port, intruded>>
            BY <2>4 DEF claim, At, Transferring, objVars
        <3> QED
            BY <1>i, <2>2, <3>1, FifoKept DEF Others, Transferring
    <2>5. CASE createMutex(t) \/ ready(t)
        BY <2>5, <2>3, BeginHasNoHolder DEF createMutex, ready, At
    <2> QED
        BY <1>4, <2>4, <2>5
<1>5. ASSUME NEW t \in Tasks, push(t) \/ pull(t) \/ pullOther(t) PROVE FifoInv'
    <2>1. CASE intruded
        <3>1. ~ port.enabled /\ intruded'
            BY <1>5, <1>i, <2>1 DEF FifoInv, push, pull, pullOther
        <3>2. port'.enabled = port.enabled
            BY <1>5, <1>i, <3>1 DEF push, pull, pullOther, Ports
        <3> QED
            BY <3>1, <3>2, FifoTouched
    <2>2. CASE push(t) /\ Room(call[t]) /\ ~ intruded
        BY <2>2, PushFifo
    <2>3. CASE pull(t) /\ call[t].received < call[t].sent /\ port.rx # <<>> /\ ~ intruded
        BY <2>3, PullFifo
    <2>4. CASE (push(t) \/ pull(t)) /\ UNCHANGED port /\ \E l \in {"push", "pull", "last"} : Goto(t, l)
        <3>1. Transferring(t) /\ UNCHANGED <<settings_, intruded>>
            BY <2>4 DEF push, pull, At, Transferring, objVars
        <3>2. /\ Others(t) /\ Transferring(t)' /\ call'[t].sent = call[t].sent
              /\ call'[t].received = call[t].received /\ call'[t].obj = call[t].obj
            BY <2>4, GotoQuiet DEF Labels, InMutex
        <3> QED
            BY <1>i, <2>4, <3>1, <3>2, FifoKept DEF Others, Transferring
    <2> QED
        BY <1>5, <2>1, <2>2, <2>3, <2>4 DEF push, pull, pullOther
<1>6. ASSUME NEW t \in Tasks, last(t) PROVE FifoInv'
    <2>1. holder = t /\ ~ port'.enabled /\ (Return(t) \/ Goto(t, "unpack"))
        BY <1>6, <1>i DEF last, At, Transferring, LockInv, Ports
    <2>2. Others(t) /\ ~ Transferring(t)'
        BY <2>1, ReturnQuiet, GotoQuiet DEF Labels, InMutex
    <2>3. \A u \in Tasks : ~ Transferring(u)'
        BY <2>1, <2>2, AloneInLock DEF Others, Transferring, CanTake
    <2> QED
        BY <2>1, <2>3, FifoOff
<1>7. ASSUME NEW t \in Tasks, unpack(t) PROVE FifoInv'
    <2>1. holder = t /\ call[t].at = "unpack" /\ Return(t) /\ UNCHANGED port
        BY <1>7, <1>i DEF unpack, At, LockInv, CallInv, Local, Word
    <2> QED
        BY <1>1, <2>1, ReturnQuiet DEF CanTake
<1>8. ASSUME NEW t \in Tasks, NEW o \in Objects, NEW l \in {"claim", "set", "transaction", "transfer", "word"},
             NEW a \in Sizes \cup {None}, Enter(t, o, l, a)
      PROVE  FifoInv'
    <2>1. l \in Labels
        BY DEF Labels, InMutex
    <2>2. /\ Others(t) /\ Idle(t)
          /\ call'[t] = [at |-> l, obj |-> o, arg |-> a, sent |-> 0, received |-> 0, order |-> None]
        BY <1>8, <1>i, <2>1, Entered
    <2>3. ~ Transferring(t)' /\ ~ Transferring(t)
        BY <2>2 DEF Transferring, Idle, At
    <2> QED
        BY <1>8, <1>i, <2>2, <2>3, FifoKept DEF Enter, objVars, Others, Transferring
<1>9. ASSUME NEW t \in Tasks, NEW o \in Objects, end(t, o) PROVE FifoInv'
    <2>1. PortIs(port.mode, FALSE, <<>>, <<>>)
        BY <1>9, <1>i, PortAll DEF end
    <2>2. ~ port'.enabled
        BY <2>1 DEF PortIs
    <2>3. \A u \in Tasks : ~ Transferring(u)'
        BY <1>9 DEF end, Idle, At, Transferring
    <2> QED
        BY <2>2, <2>3, FifoOff
<1>10. ASSUME NEW t \in Tasks, NEW o \in Objects, setUnready(t, o) PROVE FifoInv'
    <2>1. /\ owner # o /\ UNCHANGED <<port, call, intruded>>
          /\ \A x \in Objects : x # o => settings_'[x] = settings_[x]
        BY <1>10, <1>i DEF setUnready, SetTo, Types
    <2>2. \A u \in Tasks : Transferring(u) => Self(u) \in Objects /\ Self(u) # o
        BY <2>1, SelfIs DEF Transferring, InMutex, Idle, At
    <2> QED
        BY <1>i, <2>1, <2>2, FifoKept DEF Transferring
<1>11. ASSUME NEW t \in Tasks, NEW o \in Objects, Calls(t, o) PROVE FifoInv'
    <2>1. CASE begin(t, o) \/ set(t, o) \/ beginTransaction(t, o)
               \/ (\E n \in Sizes : transfer(t, o, n) \/ wordTransfer(t, o, n))
        BY <2>1, <1>8 DEF begin, set, beginTransaction, transfer, wordTransfer
    <2>2. CASE endTransaction(t, o)
        BY <2>2, <1>0 DEF endTransaction
    <2> QED
        BY <1>9, <1>10, <1>11, <2>1, <2>2 DEF Calls
<1>12. CASE UNCHANGED vars
    BY <1>12, <1>0 DEF vars, objVars
<1>13. CASE TakenOutside \/ UsedOutside
    <2>1. Touched /\ ~ port'.enabled /\ UNCHANGED <<owner, call>> /\ (owner # None => intruded')
        BY <1>13, TouchedPort DEF TakenOutside, UsedOutside, Touched
    <2>2. \A u \in Tasks : Transferring(u) => owner # None
        BY <1>i, NoneIsNone DEF LockInv, OwnerInv
    <2>3. CASE owner # None
        BY <2>1, <2>3, FifoTouched
    <2>4. CASE owner = None
        BY <2>1, <2>2, <2>4, FifoOff DEF Transferring
    <2> QED
        BY <2>3, <2>4
<1> QED
    BY <1>2, <1>3, <1>4, <1>5, <1>6, <1>7, <1>11, <1>12, <1>13, StartFifo, ShiftFifo DEF Next, Locks, Steps

-------------------------------------------------------------------------------
LEMMA InitIInv == Init => IInv
<1> SUFFICES ASSUME Init PROVE IInv
    OBVIOUS
<1>1. \A t \in Tasks : call[t] = NoCall /\ chosen[t] = None
    BY DEF Init
<1>2. NoCall.at = "idle" /\ NoCall.order = None
    BY DEF NoCall
<1>3. \A t \in Tasks : call[t].at = "idle" /\ ~ Word(t) /\ ~ Transferring(t) /\ Local(call[t])
    BY <1>1, <1>2, NoCallIs DEF Word, Transferring
<1>4. Types
    <2>1. PICK s \in Settings :
            /\ settings_ = [o \in Objects |-> s]
            /\ port = [mode |-> s.mode, enabled |-> FALSE, tx |-> <<>>, rx |-> <<>>]
        BY DEF Init
    <2>2. port \in Ports
        BY <2>1 DEF Ports, Settings
    <2>3. call \in [Tasks -> CallRecords]
        BY NoCallIs DEF Init
    <2> QED
        BY <2>1, <2>2, <2>3 DEF Init, Types
<1>5. CallInv
    BY <1>3 DEF CallInv, Claiming, At, InMutex
<1>6. OwnerInv
    BY <1>3 DEF Init, OwnerInv, At
<1>7. LockInv
    <2>1. ~ Open /\ ~ foreign /\ ~ Packed /\ ~ Moving
        BY <1>3 DEF Open, Packed, Moving, Init
    <2> QED
        BY <1>1, <1>3, <2>1 DEF Init, LockInv, Once
<1>8. SettingsStable
    BY <1>1, <1>2 DEF SettingsStable
<1>9. FifoInv
    <2>1. ~ port.enabled
        BY DEF Init
    <2> QED
        BY <1>3, <2>1 DEF FifoInv
<1> QED
    BY <1>4, <1>5, <1>6, <1>7, <1>8, <1>9 DEF IInv

(* The inductive invariant holds in every reachable state.                     *)
THEOREM Invariance == Spec => []IInv
<1>1. Init => IInv
    BY InitIInv
<1>2. IInv /\ [Next]_vars => IInv'
    BY TypesStep, CallStep, OwnerStep, LockStep, SettingsStep, FifoStep DEF IInv
<1> QED
    BY <1>1, <1>2, PTL DEF Spec

(* A ready object owns the bus alone, and the depth of its mutex is the number *)
(* of reasons to hold it: transaction, word, transfer, also when the display   *)
(* or the SD card touch the port.                                              *)
THEOREM BusIsAccounted == Spec => []BusAccounted
<1>1. IInv => BusAccounted
    <2> SUFFICES ASSUME IInv PROVE BusAccounted
        OBVIOUS
    <2>1. hold = Once(Open) + Once(foreign) + Once(Packed) + Once(Moving)
        BY DEF IInv, LockInv
    <2>2. hold \in 0 .. 4
        BY <2>1 DEF Once
    <2>3. foreign \/ hold = Once(Open) + Once(Packed) + Once(Moving)
        BY <2>1 DEF Once
    <2>4. \A t \in Tasks : chosen[t] \in Settings \cup {None} /\ call[t].obj \in Objects \cup {None}
        BY DEF IInv, Types, CallRecords
    <2>5. port.mode \in Modes
        BY FifosAre DEF IInv
    <2>6. TypeOK
        BY <2>2, <2>4, <2>5 DEF IInv, Types, TypeOK
    <2>7. \A o \in Objects : ready_[o] => owner = o /\ mutex_[o]
        BY NoneIsNone DEF IInv, OwnerInv
    <2> QED
        BY <2>3, <2>6, <2>7 DEF BusAccounted, Open, Packed, Moving, Word
<1> QED
    BY <1>1, Invariance, PTL

(* Between beginTransaction and endTransaction the bus runs with the settings  *)
(* the task asked for, until the port is touched from outside, and a word      *)
(* keeps one byte order from pack to unpack.                                   *)
THEOREM SettingsAreStable == Spec => []SettingsStable
<1>1. IInv => SettingsStable
    BY DEF IInv
<1> QED
    BY <1>1, Invariance, PTL

(* transferBytes: the answers in the receive FIFO are those of the caller's    *)
(* own frames, in order, and none is lost to a full FIFO, on a port nobody     *)
(* touched from outside.                                                       *)
THEOREM AnswersComeInOrder == Spec => []AnswersInOrder
<1>1. IInv => AnswersInOrder
    BY DEF IInv, FifoInv, FramesOf, AnswersInOrder
<1> QED
    BY <1>1, Invariance, PTL
===============================================================================
