--------------------------------- MODULE Pins ---------------------------------
(***************************************************************************)
(* Digital pins: pinMode, digitalWrite, digitalRead, attachInterrupt and   *)
(* detachInterrupt of cores/k210/wiring.c on the table of high-speed GPIO  *)
(* functions of k210-hal-gpio.c.                                           *)
(*                                                                         *)
(* There are fewer GPIOHS functions than pins.  The table binds functions  *)
(* to pins; pinMode takes the function that was used least recently, the   *)
(* other calls look the pin's function up.  The table has a lock, but both *)
(* lookups read the function they return after they have released it, and  *)
(* the caller uses it later still.                                         *)
(*                                                                         *)
(* Only the order of the time stamps matters, so a stamp is its rank; 0 is *)
(* the stamp of an entry that was never used or was cleared.  Two calls    *)
(* may fall into the same microsecond.                                     *)
(***************************************************************************)
EXTENDS Integers, FiniteSets, Fpioa

CONSTANTS
  Pins,        \* pins the program uses
  IrqPins,     \* those it attaches interrupt handlers to
  NumFuncs,    \* entries of gpiohs_func_table (32)
  Threads,     \* threads that call the functions
  NoPin, NoThread, Resv0

ASSUME PinsAssumption ==
  /\ NumFuncs \in Nat \ {0}
  /\ NoPin \notin Pins /\ IrqPins \subseteq Pins
  /\ NoThread \notin Threads
  /\ Resv0 \notin 1 .. NumFuncs

Funcs == 1 .. NumFuncs
Index == 1 .. NumFuncs

VARIABLES
  table,     \* gpiohs_func_table: [Index -> [func, pin, time]]
  lock,      \* holder of _hal_gpio_lock while it sorts, or NoThread
  io,        \* the pin multiplexer
  irq,       \* the pin whose handler is registered for a function, or NoPin
  pc, op, pin, idx, func,   \* per thread: the call it is in
  last,      \* history: the pin used last, if in a microsecond of its own
  handler,   \* history, per pin: "none", "attached", or "lost" once the pin has
             \* lost its function while attached
  moved,     \* history: threads whose call goes on while another thread has
             \* changed the table since
  twice      \* history: pins on which pinMode was called while they were bound

vars == <<table, lock, io, irq, pc, op, pin, idx, func, last, handler, moved, twice>>

Ops == {"mode", "write", "attach", "detach"}
Entries == [func : Funcs, pin : Pins \cup {NoPin}, time : 0 .. NumFuncs]

-------------------------------------------------------------------------------
(* The table.                                                              *)

Bound(p) == \E i \in Index : table[i].pin = p
FirstOf(p) == CHOOSE i \in Index : table[i].pin = p
                 /\ \A j \in Index : table[j].pin = p => i <= j

Stamps(tab) == {tab[i].time : i \in Index}
Latest(tab) == CHOOSE m \in Stamps(tab) : \A s \in Stamps(tab) : s <= m

\* Stamps are replaced by their ranks.
Ranked(tab) ==
  [i \in Index |->
     [tab[i] EXCEPT !.time = Cardinality({s \in Stamps(tab) : 0 < s /\ s <= tab[i].time})]]

\* sysctl_get_time_us(), in the microsecond of the last stamp or a later one.
Stamped(tab, i, tick) ==
  Ranked([tab EXCEPT ![i].time = IF tick \/ Latest(tab) = 0 THEN Latest(tab) + 1 ELSE Latest(tab)])

\* What qsort may leave: the entries in the order of their stamps.
Sorted(tab) ==
  {s \in {[i \in Index |-> tab[f[i]]] :
            f \in {g \in [Index -> Index] : \A i, j \in Index : g[i] = g[j] => i = j}} :
     \A i, j \in Index : i < j => s[i].time <= s[j].time}

-------------------------------------------------------------------------------
\* initPins, hal_fpioa_init.
Init ==
  /\ table = [i \in Index |-> [func |-> i, pin |-> NoPin, time |-> 0]]
  /\ lock = NoThread
  /\ io = [p \in Pins |-> Resv0]
  /\ irq = [f \in Funcs |-> NoPin]
  /\ pc = [t \in Threads |-> "idle"]
  /\ op = [t \in Threads |-> "mode"]
  /\ pin = [t \in Threads |-> NoPin]
  /\ idx = [t \in Threads |-> 1]
  /\ func = [t \in Threads |-> 1]
  /\ last = NoPin
  /\ handler = [p \in Pins |-> "none"]
  /\ moved = {} /\ twice = {}

\* The pin q (if any) loses its function.
Loses(q) ==
  [p \in Pins |-> IF p = q /\ handler[p] = "attached" THEN "lost" ELSE handler[p]]

\* The calls of other threads that are under way may now use a stale entry.
Moves(t) == moved' = moved \cup {u \in Threads \ {t} : pc[u] \in {"return", "apply"}}

Uses(p, tick) == last' = IF tick THEN p ELSE NoPin

\* pinMode(p): hal_gpiohs_set_pin_func takes the lock and starts to sort.
pinMode(t, p) ==
  /\ pc[t] = "idle" /\ lock = NoThread
  /\ lock' = t
  /\ pc' = [pc EXCEPT ![t] = "sorting"]
  /\ op' = [op EXCEPT ![t] = "mode"]
  /\ pin' = [pin EXCEPT ![t] = p]
  /\ twice' = IF Bound(p) THEN twice \cup {p} ELSE twice
  /\ Moves(t)
  /\ UNCHANGED <<table, io, irq, idx, func, last, handler>>

\* Seeded fault: the multiplexer is not set.
bind_unrouted(t, tick) ==
  /\ pc[t] = "sorting"
  /\ \E s \in Sorted(table) :
       /\ table' = Stamped([s EXCEPT ![1].pin = pin[t]], 1, tick)
       /\ handler' = Loses(s[1].pin)
  /\ lock' = NoThread
  /\ idx' = [idx EXCEPT ![t] = 1]
  /\ pc' = [pc EXCEPT ![t] = "return"]
  /\ Uses(pin[t], tick) /\ Moves(t)
  /\ UNCHANGED <<io, irq, op, pin, func, twice>>

\* Seeded fault: the multiplexer is set to the function that was first before
\* the sort.
bind_unsorted(t, tick) ==
  /\ pc[t] = "sorting"
  /\ \E s \in Sorted(table) :
       /\ table' = Stamped([s EXCEPT ![1].pin = pin[t]], 1, tick)
       /\ handler' = Loses(s[1].pin)
  /\ io' = fpioa_set_function(io, pin[t], table[1].func, Resv0)
  /\ lock' = NoThread
  /\ idx' = [idx EXCEPT ![t] = 1]
  /\ pc' = [pc EXCEPT ![t] = "return"]
  /\ Uses(pin[t], tick) /\ Moves(t)
  /\ UNCHANGED <<irq, op, pin, func, twice>>

\* The rest of the locked section: the first entry is given to the pin.
bind(t, tick) ==
  /\ pc[t] = "sorting"
  /\ \E s \in Sorted(table) :
       /\ table' = Stamped([s EXCEPT ![1].pin = pin[t]], 1, tick)
       /\ io' = fpioa_set_function(io, pin[t], s[1].func, Resv0)
       /\ handler' = Loses(s[1].pin)
  /\ lock' = NoThread
  /\ idx' = [idx EXCEPT ![t] = 1]
  /\ pc' = [pc EXCEPT ![t] = "return"]
  /\ Uses(pin[t], tick) /\ Moves(t)
  /\ UNCHANGED <<irq, op, pin, func, twice>>

\* Seeded fault: a lookup does not refresh the stamp.
hal_gpiohs_get_pin_func_stale(t, p, o, tick) ==
  /\ pc[t] = "idle" /\ lock = NoThread /\ Bound(p)
  /\ p \in IrqPins \/ o = "write"
  /\ idx' = [idx EXCEPT ![t] = FirstOf(p)]
  /\ pc' = [pc EXCEPT ![t] = "return"]
  /\ op' = [op EXCEPT ![t] = o]
  /\ pin' = [pin EXCEPT ![t] = p]
  /\ Uses(p, tick)
  /\ UNCHANGED <<table, lock, io, irq, func, handler, moved, twice>>

\* digitalWrite, digitalRead, attachInterrupt and detachInterrupt look the pin
\* up; on a pin that is not bound they do nothing.
hal_gpiohs_get_pin_func(t, p, o, tick) ==
  /\ pc[t] = "idle" /\ lock = NoThread /\ Bound(p)
  /\ p \in IrqPins \/ o = "write"
  /\ table' = Stamped(table, FirstOf(p), tick)
  /\ idx' = [idx EXCEPT ![t] = FirstOf(p)]
  /\ pc' = [pc EXCEPT ![t] = "return"]
  /\ op' = [op EXCEPT ![t] = o]
  /\ pin' = [pin EXCEPT ![t] = p]
  /\ Uses(p, tick)
  /\ UNCHANGED <<lock, io, irq, func, handler, moved, twice>>

\* Both functions read the entry they return without the lock.  While another
\* thread sorts, the entry may hold any function.
return(t) ==
  /\ pc[t] = "return"
  /\ \E f \in Funcs :
       /\ lock = NoThread => f = table[idx[t]].func
       /\ func' = [func EXCEPT ![t] = f]
  /\ idx' = [idx EXCEPT ![t] = 1]
  /\ pc' = [pc EXCEPT ![t] = "apply"]
  /\ UNCHANGED <<table, lock, io, irq, op, pin, last, handler, moved, twice>>

Attached(t) ==
  [handler EXCEPT ![pin[t]] =
     CASE @ = "lost" -> "lost"
       [] @ # "lost" /\ op[t] \in {"attach", "detach"} /\ t \in moved -> "lost"
       [] @ # "lost" /\ op[t] = "attach" /\ t \notin moved -> "attached"
       [] @ # "lost" /\ op[t] = "detach" /\ t \notin moved -> "none"
       [] OTHER -> @]

\* The call returns, or stays in a failed configASSERT.
Returns(t, halts) ==
  /\ pc' = [pc EXCEPT ![t] = IF halts THEN "halt" ELSE "idle"]
  /\ op' = [op EXCEPT ![t] = "mode"] /\ pin' = [pin EXCEPT ![t] = NoPin]
  /\ idx' = [idx EXCEPT ![t] = 1] /\ func' = [func EXCEPT ![t] = 1]
  /\ moved' = IF halts THEN moved ELSE moved \ {t}

\* Seeded fault: detachInterrupt leaves the registration.
apply_attached(t) ==
  /\ pc[t] = "apply"
  /\ irq' = IF op[t] = "attach" THEN [irq EXCEPT ![func[t]] = pin[t]] ELSE irq
  /\ handler' = Attached(t)
  /\ Returns(t, op[t] = "mode" /\ \A p \in Pins : io[p] # func[t])
  /\ UNCHANGED <<table, lock, io, last, twice>>

\* The caller acts on the function.  gpiohs_set_drive_mode asserts that some
\* pin carries it: a failed configASSERT never returns.
apply(t) ==
  /\ pc[t] = "apply"
  /\ irq' = CASE op[t] = "attach" -> [irq EXCEPT ![func[t]] = pin[t]]
              [] op[t] = "detach" -> [irq EXCEPT ![func[t]] = NoPin]
              [] OTHER -> irq
  /\ handler' = Attached(t)
  /\ Returns(t, op[t] = "mode" /\ \A p \in Pins : io[p] # func[t])
  /\ UNCHANGED <<table, lock, io, last, twice>>

\* pinModeClear: the entry is freed; neither the multiplexer nor the interrupt
\* registration changes.
pinModeClear(t, p) ==
  /\ pc[t] = "idle" /\ lock = NoThread /\ Bound(p)
  /\ table' = Ranked([table EXCEPT ![FirstOf(p)].pin = NoPin, ![FirstOf(p)].time = 0])
  /\ last' = NoPin
  /\ handler' = Loses(p)
  /\ Moves(t)
  /\ UNCHANGED <<lock, io, irq, pc, op, pin, idx, func, twice>>

Next ==
  \E t \in Threads :
    \/ \E p \in Pins : pinMode(t, p) \/ pinModeClear(t, p)
    \/ \E tick \in BOOLEAN : bind(t, tick)
    \/ \E p \in Pins, o \in Ops \ {"mode"}, tick \in BOOLEAN :
         hal_gpiohs_get_pin_func(t, p, o, tick)
    \/ return(t)
    \/ apply(t)

Spec == Init /\ [][Next]_vars

-------------------------------------------------------------------------------
(* Properties.                                                             *)

\* Type invariant.
TypeOK ==
  /\ table \in [Index -> Entries]
  /\ lock \in Threads \cup {NoThread}
  /\ io \in [Pins -> Funcs \cup {Resv0}]
  /\ irq \in [Funcs -> Pins \cup {NoPin}]
  /\ pc \in [Threads -> {"idle", "sorting", "return", "apply", "halt"}]
  /\ op \in [Threads -> Ops]
  /\ pin \in [Threads -> Pins \cup {NoPin}]
  /\ idx \in [Threads -> Index]
  /\ func \in [Threads -> Funcs]
  /\ last \in Pins \cup {NoPin}
  /\ handler \in [Pins -> {"none", "attached", "lost"}]
  /\ moved \subseteq Threads /\ twice \subseteq Pins

\* The state keeps its types.  The entries carry every function once, and a bound
\* pin carries the function of its entry, unless pinMode has given it a second one.
TableMatchesMux ==
  /\ TypeOK
  /\ lock = NoThread =>
       /\ \A i, j \in Index : table[i].func = table[j].func => i = j
       /\ \A i \in Index : table[i].pin \in Pins \ twice => io[table[i].pin] = table[i].func

\* A call acts on the function that its pin carries, and gpiohs_set_drive_mode
\* never fails its assertion that some pin carries the function.  Two exceptions
\* are in the code: another thread moved the entries between the lookup and the
\* use, and the pin has two entries since pinMode was called on it again.
CallsReachPin ==
  \A t \in Threads \ moved :
    /\ pc[t] # "halt"
    /\ pc[t] = "apply" /\ (op[t] = "mode" \/ pin[t] \notin twice) => io[pin[t]] = func[t]

\* pinMode does not take the function from the pin that was used last, in a
\* microsecond of its own, while there is another function to take.
LastUsedKeepsFunc ==
  [][\A i \in Index :
       (NumFuncs > 1 /\ table[i].pin # NoPin /\ table[i].pin = last /\ lock # NoThread)
         => \E j \in Index : table'[j].pin = last]_vars

\* An interrupt on a pin runs the handler attached to this pin; it can be the
\* one of another pin only if that pin lost its function (to pinMode, to
\* pinModeClear or to another thread's calls) before it was detached.
InterruptsStayWithPin ==
  \A p \in Pins : io[p] \in Funcs =>
    LET q == irq[io[p]] IN q \in {p, NoPin} \cup twice \/ handler[q] = "lost"
===============================================================================
