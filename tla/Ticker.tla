-------------------------------- MODULE Ticker --------------------------------
(***************************************************************************)
(* libraries/Ticker on the hardware timers: Ticker::schedule, detach and   *)
(* fired, the timer driver's instance table and interrupt handler          *)
(* (k210_timer.c), the PLIC dispatch table (k210_plic.c, board.c) and the  *)
(* channel table (HalTimer).                                               *)
(*                                                                         *)
(* Two contexts run this code: the user's task, bound to core 0, and the   *)
(* timer interrupt of core 0, in which the users' callbacks run and may    *)
(* themselves configure tickers.  A section between                        *)
(* rt_hw_interrupt_disable and _enable is one step; the interrupt may come *)
(* between two sections of the task, never the other way round.            *)
(***************************************************************************)
EXTENDS HalTimer, FiniteSets

CONSTANTS
  Tickers,       \* the Ticker objects
  CbTickers,     \* those that callbacks of other tickers configure, the rest
                 \* belong to the task ("Configure from a single task")
  CbModes,       \* the schedule() modes callbacks use: of {"once", "repeat"}
  Intervals,     \* interval classes the program asks for: of
                 \* {"zero", "ok", "long"}; "long" overflows the 32-bit counter
  RawSurvives,   \* external: the answers of the chip to "does a pending
                 \* expiry survive disabling the channel": of BOOLEAN
  None

ASSUME TickerAssumption ==
  /\ CbTickers \subseteq Tickers
  /\ CbModes \subseteq {"once", "repeat"}
  /\ Intervals \subseteq {"zero", "ok", "long"}
  /\ RawSurvives \subseteq BOOLEAN
  /\ None \notin Tickers

VARIABLES
  map, held,     \* the channel table, see HalTimer
  timer,         \* Ticker::_timer: the channel held, or NoChn
  action,        \* Ticker::action_ holds a callable
  inst,          \* timer_instance: per channel [home, ctx, single]; home is
                 \* the (device, channel) pair stored, ctx the ticker, None
                 \* for a NULL callback
  ctl,           \* control register: "on" (enabled, unmasked), "off"
                 \* (disabled, masked)
  raw,           \* latched expiry of the channel
  plic,          \* plic_instance per interrupt line (two channels): the
                 \* instance entry passed as ctx, NoChn for a NULL callback
  todo,          \* interrupt handler: channels of the snapshot of intr_stat
                 \* it has still to treat
  caller,        \* ticker whose callback is running, or None
  stage,         \* interrupt handler: "idle", "scan", "body", "post"
  cfg,           \* per context, what schedule() will install after detach()
  hung,          \* a configASSERT loop was entered
  life           \* history: what became of the ticker's last schedule

vars == <<map, held, timer, action, inst, ctl, raw, plic,
          todo, caller, stage, cfg, hung, life>>

hw == <<ctl, raw>>
table == <<map, held>>
handler == <<todo, caller, stage>>

Contexts == {"task", "isr"}
Modes == {"once", "repeat"}
Line(c) == c \div 2          \* channels 0,1 -> line A, 2,3 -> line B
Lines == 0 .. 2 * NumDev - 1
OnLine(l) == {2 * l, 2 * l + 1}
Request == [ticker : Tickers, mode : Modes, interval : {"ok", "long"}]
NoRequest == None
Cleared == [home |-> 0, ctx |-> None, single |-> FALSE]

\* timer[device]->intr_stat: latched and not masked.
IntrStat == {c \in Chns : raw[c] /\ ctl[c] = "on"}

\* external: a line is raised as long as one of its channels is, and of the lines
\* that are (all have priority 1) the PLIC hands out the lowest first.
Raised(l) == IntrStat \cap OnLine(l) # {}
FirstRaised(l) == Raised(l) /\ \A k \in Lines : k < l => ~ Raised(k)

-------------------------------------------------------------------------------
Init ==
  /\ map = [c \in Chns |-> Unused]
  /\ held = [i \in Chns |-> FALSE]
  /\ timer = [t \in Tickers |-> NoChn]
  /\ action = [t \in Tickers |-> FALSE]
  /\ inst = [c \in Chns |-> Cleared]
  /\ ctl = [c \in Chns |-> "off"]
  /\ raw = [c \in Chns |-> FALSE]
  /\ plic = [l \in Lines |-> NoChn]
  /\ todo = {}
  /\ caller = None
  /\ stage = "idle"
  /\ cfg = [x \in Contexts |-> NoRequest]
  /\ hung = FALSE
  /\ life = [t \in Tickers |-> "idle"]

\* The task runs while the interrupt handler does not; a callback runs in the
\* body of the handler.
Runs(x) ==
  /\ ~ hung
  /\ IF x = "task" THEN stage = "idle" ELSE stage = "body"

\* Who may configure t: the task its own tickers, a callback the tickers left
\* to callbacks and its own ticker ("its callback detaches or reattaches this
\* ticker").
MayConfigure(x, t) ==
  IF x = "task" THEN t \notin CbTickers ELSE t \in CbTickers \/ t = caller

-------------------------------------------------------------------------------
(* The driver.                                                             *)

\* timer_irq_unregister: clears the instance and, when either pair of the
\* device's channels is without callback, the PLIC entry of this line.
timer_irq_unregister(c) ==
  LET after == [inst EXCEPT ![c] = Cleared]
      dev == 4 * (c \div 4)
      PairEmpty(d) == after[d].ctx = None /\ after[d + 1].ctx = None
  IN  /\ inst' = after
      /\ plic' = IF PairEmpty(dev) \/ PairEmpty(dev + 2)
                 THEN [plic EXCEPT ![Line(c)] = NoChn]
                 ELSE plic

\* Seeded fault: every channel is registered as a single shot.
timer_irq_register_single(c, t, mode) ==
  /\ inst' = [inst EXCEPT ![c] = [home |-> c, ctx |-> t, single |-> TRUE]]
  /\ plic' = [plic EXCEPT ![Line(c)] = c]

timer_irq_register(c, t, mode) ==
  /\ inst' = [inst EXCEPT ![c] = [home |-> c, ctx |-> t, single |-> mode = "once"]]
  /\ plic' = [plic EXCEPT ![Line(c)] = c]

\* The channel counts down to zero and latches its expiry.
Expire(c) ==
  /\ ~ hung
  /\ ctl[c] = "on"
  /\ raw' = [raw EXCEPT ![c] = TRUE]
  /\ life' = [t \in Tickers |->
                IF /\ timer[t] = c
                   /\ \/ life[t] \in {"waiting", "inherits"}
                      \/ life[t] = "fired" /\ ~ inst[c].single
                THEN "due" ELSE life[t]]
  /\ UNCHANGED <<table, timer, action, inst, ctl, plic, handler, cfg, hung>>

-------------------------------------------------------------------------------
(* Ticker.                                                                 *)

\* Seeded fault: the interrupt callback stays registered.
detach_keeps_irq(t) ==
  /\ IF timer[t] = NoChn
     THEN UNCHANGED <<table, timer, ctl>>
     ELSE LET c == timer[t]
          IN  /\ ctl' = [ctl EXCEPT ![c] = "off"]
              /\ map' = MapAfterRelease(map, c)
              /\ held' = HeldAfterRelease(map, held, c)
              /\ timer' = [timer EXCEPT ![t] = NoChn]
  /\ action' = [action EXCEPT ![t] = FALSE]
  /\ life' = [life EXCEPT ![t] = "idle"]
  /\ UNCHANGED <<inst, plic, raw>>

\* The critical section of detach(); schedule() begins with it.
detach(t) ==
  /\ IF timer[t] = NoChn
     THEN UNCHANGED <<table, timer, inst, ctl, raw, plic>>
     ELSE LET c == timer[t]
          IN  /\ ctl' = [ctl EXCEPT ![c] = "off"]
              /\ \E keep \in RawSurvives : raw' = [raw EXCEPT ![c] = raw[c] /\ keep]
              /\ timer_irq_unregister(c)
              /\ map' = MapAfterRelease(map, c)
              /\ held' = HeldAfterRelease(map, held, c)
              /\ timer' = [timer EXCEPT ![t] = NoChn]
  /\ action' = [action EXCEPT ![t] = FALSE]
  /\ life' = [life EXCEPT ![t] = "idle"]

Detach(x, t) ==
  /\ Runs(x) /\ cfg[x] = NoRequest /\ MayConfigure(x, t)
  /\ detach(t)
  /\ UNCHANGED <<handler, cfg, hung>>

\* schedule() up to its second critical section.  A zero interval leaves the
\* ticker detached.
Schedule(x, t, mode, interval) ==
  /\ Runs(x) /\ cfg[x] = NoRequest /\ MayConfigure(x, t)
  /\ x = "isr" => mode \in CbModes
  /\ detach(t)
  /\ cfg' = IF interval = "zero" THEN cfg
            ELSE [cfg EXCEPT ![x] =
                    [ticker |-> t, mode |-> mode, interval |-> interval]]
  /\ UNCHANGED <<handler, hung>>

\* The handler has called for this channel and not acknowledged it yet.
Current == First(todo)
InHand(c) == stage \in {"body", "post"} /\ c = Current

\* An expiry of the channel from before is latched, or in the handler's snapshot.
Leftover(c) == (raw[c] \/ c \in todo) /\ ~ InHand(c)

\* The second critical section of schedule(), with a channel to be had.  An
\* interval the counter cannot hold loops in timer_set_interval's configASSERT,
\* after the channel was taken.
Arm(x) ==
  /\ Runs(x) /\ cfg[x] # NoRequest /\ GetsChannel(map, held)
  /\ LET t == cfg[x].ticker
         c == GotChannel(map, held)
     IN  /\ map' = MapAfterGet(map, held)
         /\ held' = HeldAfterGet(held)
         /\ timer' = [timer EXCEPT ![t] = c]
         /\ action' = [action EXCEPT ![t] = TRUE]
         /\ IF cfg[x].interval = "long"
            THEN /\ hung' = TRUE
                 /\ UNCHANGED <<inst, ctl, plic, raw, life, cfg>>
            ELSE /\ timer_irq_register(c, t, cfg[x].mode)
                 /\ ctl' = [ctl EXCEPT ![c] = "on"]
                 /\ life' = [life EXCEPT ![t] = IF Leftover(c) THEN "inherits" ELSE "waiting"]
                 /\ cfg' = [cfg EXCEPT ![x] = NoRequest]
                 /\ UNCHANGED <<raw, hung>>
  /\ UNCHANGED handler

\* The same with every channel or every placeholder taken: stays detached.
ArmFails(x) ==
  /\ Runs(x) /\ cfg[x] # NoRequest /\ ~ GetsChannel(map, held)
  /\ cfg' = [cfg EXCEPT ![x] = NoRequest]
  /\ UNCHANGED <<table, timer, action, inst, hw, plic, handler, hung, life>>

-------------------------------------------------------------------------------
(* The interrupt: plic_irq_handle, timer_interrupt_handler, Ticker::fired. *)

\* timer_interrupt_handler takes device and pair from the instance entry it is
\* given, which may have been cleared since, and reads intr_stat once.
Snapshot(c) == IntrStat \cap OnLine(Line(inst[c].home))

\* plic_irq_handle for the line the PLIC hands out: nothing is called where the
\* line has no entry.  A pass that treats no channel leaves everything as it is,
\* the line raised: it is handed out again at once, and the lines behind it and
\* the task do not get their turn.
Enter(l) ==
  /\ stage = "idle" /\ ~ hung
  /\ FirstRaised(l)
  /\ todo' = IF plic[l] = NoChn THEN {} ELSE Snapshot(plic[l])
  /\ stage' = IF todo' = {} THEN "idle" ELSE "scan"
  /\ UNCHANGED <<table, timer, action, inst, hw, plic, caller, cfg, hung, life>>

\* The callback of the next channel of the snapshot: Ticker::fired, which runs
\* the user's callable if the ticker has one.
Call ==
  /\ stage = "scan" /\ ~ hung
  /\ inst[Current].ctx # None
  /\ LET t == inst[Current].ctx
     IN  IF action[t]
         THEN /\ caller' = t
              /\ stage' = "body"
              /\ life' = [life EXCEPT ![t] = "fired"]
         ELSE /\ stage' = "post"
              /\ UNCHANGED <<caller, life>>
  /\ UNCHANGED <<table, timer, action, inst, hw, plic, todo, cfg, hung>>

Return ==
  /\ stage = "body" /\ cfg["isr"] = NoRequest /\ ~ hung
  /\ caller' = None
  /\ stage' = "post"
  /\ UNCHANGED <<table, timer, action, inst, hw, plic, todo, cfg, hung, life>>

\* Seeded faults: the single shot is not disabled; every channel is; the expiry
\* is not acknowledged.
Acknowledge_disables(off, latched) ==
  /\ \/ stage = "post"
     \/ stage = "scan" /\ inst[Current].ctx = None
  /\ ~ hung
  /\ ctl' = IF off THEN [ctl EXCEPT ![Current] = "off"] ELSE ctl
  /\ raw' = [raw EXCEPT ![Current] = latched]
  /\ todo' = todo \ {Current}
  /\ stage' = IF todo = {Current} THEN "idle" ELSE "scan"
  /\ UNCHANGED <<table, timer, action, inst, plic, caller, cfg, hung, life>>
Acknowledge_never == Acknowledge_disables(FALSE, FALSE)
Acknowledge_always == Acknowledge_disables(TRUE, FALSE)
Acknowledge_latched == Acknowledge_disables(FALSE, TRUE)

\* After the callback: a channel that is now single-shot is disabled; then the
\* channel's expiry is acknowledged.
Acknowledge ==
  /\ \/ stage = "post"
     \/ stage = "scan" /\ inst[Current].ctx = None
  /\ ~ hung
  /\ ctl' = IF stage = "post" /\ inst[Current].single
            THEN [ctl EXCEPT ![Current] = "off"] ELSE ctl
  /\ raw' = [raw EXCEPT ![Current] = FALSE]
  /\ todo' = todo \ {Current}
  /\ stage' = IF todo = {Current} THEN "idle" ELSE "scan"
  /\ UNCHANGED <<table, timer, action, inst, plic, caller, cfg, hung, life>>

-------------------------------------------------------------------------------
Configure(x) ==
  \/ \E t \in Tickers : Detach(x, t)
  \/ \E t \in Tickers, mode \in Modes, i \in Intervals : Schedule(x, t, mode, i)
  \/ Arm(x)
  \/ ArmFails(x)

Interrupt ==
  \/ \E l \in Lines : Enter(l)
  \/ Call
  \/ Return
  \/ Acknowledge

Next ==
  \/ \E x \in Contexts : Configure(x)
  \/ \E c \in Chns : Expire(c)
  \/ Interrupt

Spec == Init /\ [][Next]_vars

\* Armed channels count down; a line the PLIC keeps handing out is taken, since
\* expiries are at least a millisecond apart; callbacks return.  Nothing is said
\* of the task, which a line that nobody acknowledges can keep from running.
Fairness ==
  /\ \A c \in Chns : WF_vars(Expire(c))
  /\ \A l \in Lines : SF_vars(Enter(l))
  /\ WF_vars(Call) /\ SF_vars(Return) /\ WF_vars(Acknowledge)
  /\ WF_vars(Arm("isr")) /\ WF_vars(ArmFails("isr"))

FairSpec == Spec /\ Fairness

-------------------------------------------------------------------------------
(* Properties.                                                             *)

\* Type invariant.
TypeOK ==
  /\ map \in [Chns -> Tokens \cup {Unused}]
  /\ held \in [Chns -> BOOLEAN]
  /\ timer \in [Tickers -> Chns \cup {NoChn}]
  /\ action \in [Tickers -> BOOLEAN]
  /\ inst \in [Chns -> [home : Chns, ctx : Tickers \cup {None}, single : BOOLEAN]]
  /\ ctl \in [Chns -> {"on", "off"}]
  /\ raw \in [Chns -> BOOLEAN]
  /\ plic \in [Lines -> Chns \cup {NoChn}]
  /\ todo \subseteq Chns
  /\ caller \in Tickers \cup {None}
  /\ stage \in {"idle", "scan", "body", "post"}
  /\ cfg \in [Contexts -> Request \cup {NoRequest}]
  /\ hung \in BOOLEAN
  /\ life \in [Tickers -> {"idle", "waiting", "inherits", "due", "fired"}]

\* The driver never holds a callback into a ticker that is detached, destroyed
\* or armed on another channel: timer_instance[c].ctx is a ticker that owns c
\* and has its callable (fired() dereferences it in the interrupt).
NoStaleCallback ==
  \A c \in Chns : inst[c].ctx # None =>
    timer[inst[c].ctx] = c /\ action[inst[c].ctx]

\* The channel table and the tickers agree: a channel is taken exactly when one
\* ticker holds it, and as many placeholders are held as channels are taken, so
\* nothing leaks and the allocator fails only when all channels are in use.
TableMatchesOwners ==
  /\ \A c \in Chns : map[c] # Unused <=> \E t \in Tickers : timer[t] = c
  /\ \A t, u \in Tickers : t # u /\ timer[t] # NoChn => timer[t] # timer[u]
  /\ \A i \in Chns : held[i] <=> \E c \in Chns : map[c] = Token(i)

\* active() is false once a single shot has fired and the handler has returned
\* (test_once of tests/testcases/ticker).
OnceInactiveAfterFire ==
  \A t \in Tickers :
    (stage = "idle" /\ timer[t] # NoChn /\ life[t] = "fired"
       /\ inst[timer[t]].single) => ctl[timer[t]] = "off"

Fires(t) == caller' = t /\ caller # t

\* once() runs its callback at most once: no second call of a single shot
\* without a new schedule() in between.
OnceFiresOnce ==
  [][\A t \in Tickers :
       Fires(t) => ~ (life[t] = "fired" /\ inst[timer[t]].single)]_vars

\* An armed ticker is only switched off by its own single shot having fired (or
\* by detach): never by the handler's treatment of an earlier schedule.
ArmedUntilFired ==
  \A t \in Tickers :
    (timer[t] # NoChn /\ ctl[timer[t]] = "off" /\ ~ hung) => life[t] = "fired"

\* A callback runs only after the interval of its own schedule has elapsed, and
\* once for each.  The exception is in the code: a channel that was released
\* and taken again while its expiry was latched or in the handler's snapshot of
\* intr_stat hands this expiry to the new schedule, which fires early, once.
FiresWhenDue == [][\A t \in Tickers : Fires(t) => life[t] \in {"due", "inherits"}]_vars

\* The interrupt of every armed channel reaches the handler, and the handler
\* looks at that channel: "Combine 0 and 1 to A interrupt, 2 and 3 to B".
Dispatched(c) ==
  /\ plic[Line(c)] # NoChn
  /\ Line(inst[plic[Line(c)]].home) = Line(c)
ArmedIsDispatched == \A c \in Chns : ctl[c] = "on" => Dispatched(c)

\* A repeating ticker that stays armed and dispatched fires again and again,
\* whatever the other tickers do, unless the core has stopped in a configASSERT
\* or the lines before its own keep the core busy: an expiry there that is not
\* dispatched, and so never acknowledged, or callbacks that take all the time.
HasTurn(t) == stage = "idle" /\ \A k \in Lines : k < Line(timer[t]) => ~ Raised(k)
RepeatKeepsFiring ==
  \A t \in Tickers :
    /\ <>[](timer[t] # NoChn /\ Dispatched(timer[t]) /\ ~ inst[timer[t]].single /\ ~ hung)
    /\ []<>HasTurn(t)
    => []<>(caller = t)
===============================================================================
