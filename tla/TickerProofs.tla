----------------------------- MODULE TickerProofs -----------------------------
(***************************************************************************)
(* Safety of Ticker for every number of timer devices and tickers.         *)
(*                                                                         *)
(* The properties are not inductive alone: that a channel is given to one  *)
(* ticker rests on the channel table agreeing with the tickers, which      *)
(* rests on no context being about to arm a ticker that is already armed,  *)
(* which rests on who may configure which ticker while a callback runs.    *)
(***************************************************************************)
EXTENDS Ticker, TLAPS, WellFoundedInduction

\* The handler's local state: it is active exactly while channels are left, a
\* callback is running exactly in its body, and only a body is mid-schedule.
HandlerInv ==
  /\ stage = "idle" <=> todo = {}
  /\ stage = "body" <=> caller # None
  /\ cfg["isr"] # NoRequest => stage = "body"

\* No two channels carry the same pin.
PinsDistinct ==
  \A c, d \in Chns : map[c] = map[d] /\ map[c] # Unused => c = d

\* What a context is about to arm is detached, and no other context touches it.
RequestInv ==
  /\ \A x \in Contexts : cfg[x] # NoRequest /\ ~ hung =>
       timer[cfg[x].ticker] = NoChn
  /\ cfg["task"] # NoRequest =>
       cfg["task"].ticker \notin CbTickers /\ cfg["task"].ticker # caller
  /\ cfg["isr"] # NoRequest =>
       /\ cfg["isr"].ticker \in CbTickers \/ cfg["isr"].ticker = caller
       /\ cfg["isr"].mode \in CbModes

\* An instance without callback is the cleared one; a channel of the snapshot
\* that still has a callback is still running.
InstanceInv ==
  /\ \A c \in Chns : inst[c].ctx = None => inst[c] = Cleared
  /\ \A c \in todo : inst[c].ctx # None => ctl[c] = "on"

\* A single shot that has fired is disabled, or is the one being treated.
ShotInv ==
  \A t \in Tickers :
    (timer[t] # NoChn /\ life[t] = "fired" /\ inst[timer[t]].single) =>
      \/ ctl[timer[t]] = "off"
      \/ (stage \in {"body", "post"} /\ Current = timer[t])

IInv ==
  /\ TypeOK
  /\ HandlerInv
  /\ PinsDistinct
  /\ TableMatchesOwners
  /\ NoStaleCallback
  /\ RequestInv
  /\ InstanceInv
  /\ ShotInv

\* With callbacks that only re-attach repeating tickers: an armed ticker is
\* only off when it fired, and the single shot being treated has fired.
ArmedInv ==
  /\ ArmedUntilFired
  /\ (stage \in {"body", "post"} /\ inst[Current].single) =>
       life[inst[Current].ctx] = "fired"

-------------------------------------------------------------------------------
(* The channel table.                                                      *)

\* A scan of a table that meets something returns the first thing it meets.
LEMMA FirstIn ==
  ASSUME NEW S, S \subseteq Nat, S # {}
  PROVE  First(S) \in S /\ \A d \in S : First(S) <= d
<1>1. \E x \in S : \A y \in S : ~ (y < x)
  <2>1. PICK x \in S : \A y \in S : ~ (<<y, x>> \in OpToRel(<, Nat))
    BY NatLessThanWellFounded, WFMin, Zenon
  <2>2. \A y \in S : y < x => <<y, x>> \in OpToRel(<, Nat)
    BY DEF OpToRel
  <2> QED BY <2>1, <2>2, Zenon
<1>2. \E x \in S : \A y \in S : x <= y
  BY <1>1
<1> QED BY <1>2 DEF First

\* Channels are naturals, NoChn and Unused are no channel, and placeholder pins
\* determine their index.
LEMMA ChannelFacts ==
  /\ Chns \subseteq Nat
  /\ 0 \in Chns
  /\ NoChn \notin Chns
  /\ Unused \notin Tokens
  /\ \A i \in Chns : Token(i) \in Tokens
  /\ \A i, j \in Chns : Token(i) = Token(j) => i = j
BY NumDevAssumption, FirstTokenAssumption
   DEF Chns, NumChn, NoChn, Unused, Tokens, Token

\* The handler is never without a channel to treat while it is active.
LEMMA CurrentIn ==
  ASSUME TypeOK, HandlerInv, stage # "idle"
  PROVE  Current \in todo /\ Current \in Chns
<1>1. todo # {} /\ todo \subseteq Chns /\ todo \subseteq Nat
  BY ChannelFacts DEF HandlerInv, TypeOK
<1> QED BY <1>1, FirstIn DEF Current

\* hal_timer_get_free_chn hands out an unused channel under a placeholder that
\* is not held.
LEMMA GetFresh ==
  ASSUME map \in [Chns -> Tokens \cup {Unused}],
         held \in [Chns -> BOOLEAN],
         \A i \in Chns : held[i] <=> \E c \in Chns : map[c] = Token(i),
         GetsChannel(map, held)
  PROVE  /\ GotChannel(map, held) \in Chns
         /\ map[GotChannel(map, held)] = Unused
         /\ First(FreeTokens(held)) \in Chns
         /\ ~ held[First(FreeTokens(held))]
<1> DEFINE i == First(FreeTokens(held))
<1>1. FreeTokens(held) \subseteq Nat /\ FreeTokens(held) # {}
  BY ChannelFacts DEF FreeTokens, GetsChannel
<1>2. i \in Chns /\ ~ held[i]
  BY <1>1, FirstIn DEF FreeTokens
<1>3. {c \in Chns : map[c] = Token(i)} = {}
  BY <1>2
<1> DEFINE free == {c \in Chns : map[c] = Unused}
<1>4. GotChannel(map, held) # NoChn
  BY DEF GetsChannel, GotChannel
<1>5. free # {} /\ GotChannel(map, held) = First(free)
  BY <1>3, <1>4 DEF GotChannel, get_free_timer_chn
<1>6. free \subseteq Nat
  BY ChannelFacts
<1>7. First(free) \in free
  BY <1>5, <1>6, FirstIn
<1> QED BY <1>2, <1>5, <1>7

\* hal_timer_release_chn clears the entry it was given.
LEMMA ReleaseClears ==
  ASSUME PinsDistinct, NEW c \in Chns, map[c] # Unused
  PROVE  MapAfterRelease(map, c) = [map EXCEPT ![c] = Unused]
<1> DEFINE S == {d \in Chns : map[d] = map[c]}
<1>1. S = {c}
  BY DEF PinsDistinct
<1>2. S \subseteq Nat /\ S # {}
  BY <1>1, ChannelFacts
<1>3. First(S) = c
  BY <1>1, <1>2, FirstIn
<1> QED BY <1>3 DEF MapAfterRelease

-------------------------------------------------------------------------------
(* detach(), which both Detach and Schedule perform.                       *)

\* What the critical section of detach() does to an armed ticker.
LEMMA DetachArmed ==
  ASSUME IInv, NEW t \in Tickers, detach(t), timer[t] # NoChn
  PROVE  /\ timer[t] \in Chns
         /\ map[timer[t]] # Unused
         /\ map' = [map EXCEPT ![timer[t]] = Unused]
         /\ held' = [i \in Chns |-> held[i] /\ Token(i) # map[timer[t]]]
         /\ timer' = [timer EXCEPT ![t] = NoChn]
         /\ inst' = [inst EXCEPT ![timer[t]] = Cleared]
         /\ ctl' = [ctl EXCEPT ![timer[t]] = "off"]
         /\ raw' \in [Chns -> BOOLEAN]
         /\ plic' \in [Lines -> Chns \cup {NoChn}]
<1> DEFINE c == timer[t]
<1>1. c \in Chns /\ map[c] # Unused
  BY DEF IInv, TypeOK, TableMatchesOwners
<1>2. map' = [map EXCEPT ![c] = Unused]
  BY <1>1, ReleaseClears DEF IInv, detach
<1>3. /\ held' = [i \in Chns |-> held[i] /\ Token(i) # map[c]]
      /\ timer' = [timer EXCEPT ![t] = NoChn]
      /\ ctl' = [ctl EXCEPT ![c] = "off"]
  BY DEF detach, HeldAfterRelease
<1>4. inst' = [inst EXCEPT ![c] = Cleared]
  BY DEF detach, timer_irq_unregister
<1>5. raw' \in [Chns -> BOOLEAN]
  <2>1. PICK keep \in RawSurvives : raw' = [raw EXCEPT ![c] = raw[c] /\ keep]
    BY DEF detach
  <2>2. (raw[c] /\ keep) \in BOOLEAN
    OBVIOUS
  <2>3. raw \in [Chns -> BOOLEAN]
    BY DEF IInv, TypeOK
  <2> QED BY <2>1, <2>2, <2>3
<1>6. plic' \in [Lines -> Chns \cup {NoChn}]
  <2>1. plic' = [plic EXCEPT ![Line(c)] = NoChn] \/ plic' = plic
    BY DEF detach, timer_irq_unregister
  <2> QED BY <2>1 DEF IInv, TypeOK
<1> QED BY <1>1, <1>2, <1>3, <1>4, <1>5, <1>6

\* The invariant's parts that do not mention a pending request survive it.
LEMMA DetachKeeps ==
  ASSUME IInv, NEW t \in Tickers, detach(t), UNCHANGED <<handler, hung>>,
         cfg' \in [Contexts -> Request \cup {NoRequest}]
  PROVE  /\ TypeOK' /\ PinsDistinct' /\ TableMatchesOwners'
         /\ NoStaleCallback' /\ InstanceInv' /\ ShotInv'
         /\ timer' = [timer EXCEPT ![t] = NoChn]
<1> USE ChannelFacts DEF handler
<1>0. /\ action' = [action EXCEPT ![t] = FALSE]
      /\ life' = [life EXCEPT ![t] = "idle"]
  BY DEF detach
<1>1. CASE timer[t] = NoChn
  <2>1. UNCHANGED <<map, held, timer, inst, ctl, raw, plic>>
    BY <1>1 DEF detach, table
  <2>2. timer' = [timer EXCEPT ![t] = NoChn]
    BY <1>1, <2>1 DEF IInv, TypeOK
  <2>3. TypeOK' /\ PinsDistinct' /\ TableMatchesOwners'
    BY <1>0, <2>1 DEF IInv, TypeOK, PinsDistinct, TableMatchesOwners
  <2>4. NoStaleCallback'
    BY <1>0, <1>1, <2>1 DEF IInv, TypeOK, NoStaleCallback
  <2>5. InstanceInv' /\ ShotInv'
    BY <1>0, <1>1, <2>1 DEF IInv, TypeOK, InstanceInv, ShotInv, Current
  <2> QED BY <2>2, <2>3, <2>4, <2>5
<1>2. CASE timer[t] # NoChn
  <2> DEFINE c == timer[t]
  <2>1. /\ c \in Chns
        /\ map[c] # Unused
        /\ map' = [map EXCEPT ![c] = Unused]
        /\ held' = [i \in Chns |-> held[i] /\ Token(i) # map[c]]
        /\ timer' = [timer EXCEPT ![t] = NoChn]
        /\ inst' = [inst EXCEPT ![c] = Cleared]
        /\ ctl' = [ctl EXCEPT ![c] = "off"]
        /\ raw' \in [Chns -> BOOLEAN]
        /\ plic' \in [Lines -> Chns \cup {NoChn}]
    BY <1>2, DetachArmed
  <2>2. TypeOK'
    <3>1. Cleared \in [home : Chns, ctx : Tickers \cup {None}, single : BOOLEAN]
      BY DEF Cleared
    <3>2. held' \in [Chns -> BOOLEAN]
      BY <2>1
    <3> QED BY <1>0, <2>1, <3>1, <3>2 DEF IInv, TypeOK
  <2>3. PinsDistinct'
    BY <2>1 DEF IInv, TypeOK, PinsDistinct
  <2>4. TableMatchesOwners'
    <3>1. \A d \in Chns : map'[d] # Unused <=> \E u \in Tickers : timer'[u] = d
      BY <2>1 DEF IInv, TypeOK, TableMatchesOwners
    <3>2. \A u, v \in Tickers : u # v /\ timer'[u] # NoChn => timer'[u] # timer'[v]
      BY <2>1 DEF IInv, TypeOK, TableMatchesOwners
    <3>3. \A i \in Chns : held'[i] <=> \E d \in Chns : map'[d] = Token(i)
      <4> TAKE i \in Chns
      <4>1. held'[i] <=> held[i] /\ Token(i) # map[c]
        BY <2>1
      <4>2. held[i] <=> \E d \in Chns : map[d] = Token(i)
        BY DEF IInv, TableMatchesOwners
      <4>3. \A d \in Chns : map'[d] = IF d = c THEN Unused ELSE map[d]
        BY <2>1 DEF IInv, TypeOK
      <4>4. \A d \in Chns : map[d] = map[c] => d = c
        BY <2>1 DEF IInv, PinsDistinct
      <4>5. Token(i) # Unused
        OBVIOUS
      <4> QED BY <2>1, <4>1, <4>2, <4>3, <4>4, <4>5
    <3> QED BY <3>1, <3>2, <3>3 DEF TableMatchesOwners
  <2>5. NoStaleCallback'
    BY <1>0, <2>1 DEF IInv, TypeOK, NoStaleCallback, Cleared
  <2>6. InstanceInv'
    BY <2>1 DEF IInv, TypeOK, InstanceInv, Cleared
  <2>7. ShotInv'
    BY <1>0, <2>1 DEF IInv, TypeOK, ShotInv, TableMatchesOwners, Current
  <2> QED BY <2>1, <2>2, <2>3, <2>4, <2>5, <2>6, <2>7
<1> QED BY <1>1, <1>2

-------------------------------------------------------------------------------
(* One lemma per action.                                                   *)

LEMMA InitIInv == Init => IInv
<1> SUFFICES ASSUME Init PROVE IInv
  OBVIOUS
<1> USE ChannelFacts DEF Init
<1>1. TypeOK
  BY DEF TypeOK, Cleared, NoRequest
<1>2. HandlerInv /\ PinsDistinct /\ RequestInv
  BY DEF HandlerInv, PinsDistinct, RequestInv, Contexts
<1>3. TableMatchesOwners
  BY DEF TableMatchesOwners
<1>4. NoStaleCallback /\ InstanceInv /\ ShotInv
  BY DEF NoStaleCallback, InstanceInv, ShotInv, Cleared
<1> QED BY <1>1, <1>2, <1>3, <1>4 DEF IInv

LEMMA DetachIInv ==
  ASSUME IInv, NEW x \in Contexts, NEW t \in Tickers, Detach(x, t)
  PROVE  IInv'
<1>1. UNCHANGED <<handler, cfg, hung>> /\ detach(t)
  BY DEF Detach
<1>2. cfg' \in [Contexts -> Request \cup {NoRequest}]
  BY <1>1 DEF IInv, TypeOK
<1>3. /\ TypeOK' /\ PinsDistinct' /\ TableMatchesOwners'
      /\ NoStaleCallback' /\ InstanceInv' /\ ShotInv'
      /\ timer' = [timer EXCEPT ![t] = NoChn]
  BY <1>1, <1>2, DetachKeeps
<1>4. HandlerInv'
  BY <1>1 DEF IInv, HandlerInv, handler
<1>5. RequestInv'
  BY <1>1, <1>3 DEF IInv, TypeOK, RequestInv, handler, Contexts
<1> QED BY <1>3, <1>4, <1>5 DEF IInv

LEMMA ScheduleIInv ==
  ASSUME IInv, NEW x \in Contexts, NEW t \in Tickers, NEW mode \in Modes,
         NEW i \in Intervals, Schedule(x, t, mode, i)
  PROVE  IInv'
<1> DEFINE r == [ticker |-> t, mode |-> mode, interval |-> i]
<1>1. /\ UNCHANGED <<handler, hung>>
      /\ detach(t)
      /\ cfg' = cfg \/ (i # "zero" /\ cfg' = [cfg EXCEPT ![x] = r])
      /\ Runs(x) /\ MayConfigure(x, t) /\ (x = "isr" => mode \in CbModes)
  BY DEF Schedule
<1>2. cfg' \in [Contexts -> Request \cup {NoRequest}]
  <2>1. i # "zero" => r \in Request
    BY TickerAssumption DEF Request
  <2> QED BY <1>1, <2>1 DEF IInv, TypeOK
<1>3. /\ TypeOK' /\ PinsDistinct' /\ TableMatchesOwners'
      /\ NoStaleCallback' /\ InstanceInv' /\ ShotInv'
      /\ timer' = [timer EXCEPT ![t] = NoChn]
  BY <1>1, <1>2, DetachKeeps
<1>4. HandlerInv'
  BY <1>1 DEF IInv, TypeOK, HandlerInv, handler, Runs, Contexts
<1>5. RequestInv'
  <2>1. \A y \in Contexts : cfg'[y] = cfg[y] \/ (y = x /\ cfg'[y] = r)
    BY <1>1 DEF IInv, TypeOK
  <2>2. \A y \in Contexts : cfg'[y] # NoRequest /\ ~ hung' =>
          timer'[cfg'[y].ticker] = NoChn
    <3> SUFFICES ASSUME NEW y \in Contexts, cfg'[y] # NoRequest, ~ hung'
                 PROVE  timer'[cfg'[y].ticker] = NoChn
      OBVIOUS
    <3>1. cfg'[y].ticker \in Tickers
      BY <1>2 DEF Request
    <3>2. CASE cfg'[y] = r
      BY <1>3, <3>2 DEF IInv, TypeOK
    <3>3. CASE cfg'[y] = cfg[y]
      BY <1>1, <1>3, <3>1, <3>3 DEF IInv, TypeOK, RequestInv
    <3> QED BY <2>1, <3>2, <3>3
  <2>3. cfg'["task"] # NoRequest =>
          cfg'["task"].ticker \notin CbTickers /\ cfg'["task"].ticker # caller'
    <3>1. CASE cfg'["task"] = cfg["task"]
      BY <1>1, <3>1 DEF IInv, RequestInv, handler
    <3>2. CASE x = "task" /\ cfg'["task"] = r
      <4>1. caller = None /\ t \notin CbTickers
        BY <1>1, <3>2 DEF IInv, HandlerInv, Runs, MayConfigure
      <4> QED BY <1>1, <3>2, <4>1, TickerAssumption DEF handler
    <3> QED BY <2>1, <3>1, <3>2 DEF Contexts
  <2>4. cfg'["isr"] # NoRequest =>
          /\ cfg'["isr"].ticker \in CbTickers \/ cfg'["isr"].ticker = caller'
          /\ cfg'["isr"].mode \in CbModes
    <3>1. CASE cfg'["isr"] = cfg["isr"]
      BY <1>1, <3>1 DEF IInv, RequestInv, handler
    <3>2. CASE x = "isr" /\ cfg'["isr"] = r
      BY <1>1, <3>2 DEF MayConfigure, handler
    <3> QED BY <2>1, <3>1, <3>2 DEF Contexts
  <2> QED BY <2>2, <2>3, <2>4 DEF RequestInv
<1> QED BY <1>3, <1>4, <1>5 DEF IInv

LEMMA ArmIInv ==
  ASSUME IInv, NEW x \in Contexts, Arm(x)
  PROVE  IInv'
<1> USE ChannelFacts
<1> DEFINE t == cfg[x].ticker
           c == GotChannel(map, held)
           i == First(FreeTokens(held))
<1>1. /\ t \in Tickers /\ cfg[x] \in Request /\ ~ hung /\ timer[t] = NoChn
      /\ Runs(x) /\ cfg[x] # NoRequest
  BY DEF Arm, Runs, IInv, TypeOK, Request, RequestInv
<1>2. c \in Chns /\ i \in Chns /\ map[c] = Unused /\ ~ held[i]
  BY GetFresh DEF Arm, IInv, TypeOK, TableMatchesOwners
<1>3. /\ map' = [map EXCEPT ![c] = Token(i)]
      /\ held' = [held EXCEPT ![i] = TRUE]
      /\ timer' = [timer EXCEPT ![t] = c]
      /\ action' = [action EXCEPT ![t] = TRUE]
      /\ UNCHANGED <<todo, caller, stage, raw>>
  BY DEF Arm, MapAfterGet, HeldAfterGet, handler
<1>4. \A u \in Tickers : timer[u] # c
  BY <1>2 DEF IInv, TableMatchesOwners
<1>5. inst[c].ctx = None /\ inst[c] = Cleared
  <2>1. inst[c].ctx \in Tickers \cup {None}
    BY <1>2 DEF IInv, TypeOK
  <2>2. inst[c].ctx # None => timer[inst[c].ctx] = c
    BY <1>2 DEF IInv, NoStaleCallback
  <2>3. inst[c].ctx = None => inst[c] = Cleared
    BY <1>2 DEF IInv, InstanceInv
  <2> QED BY <1>4, <2>1, <2>2, <2>3
<1>6. PinsDistinct'
  <2>1. \A d \in Chns : map[d] # Token(i)
    BY <1>2 DEF IInv, TableMatchesOwners
  <2> QED BY <1>2, <1>3, <2>1 DEF IInv, TypeOK, PinsDistinct
<1>7. TableMatchesOwners'
  <2>1. \A d \in Chns : map'[d] # Unused <=> \E u \in Tickers : timer'[u] = d
    <3> TAKE d \in Chns
    <3>1. map'[d] = IF d = c THEN Token(i) ELSE map[d]
      BY <1>2, <1>3 DEF IInv, TypeOK
    <3>2. \A u \in Tickers : timer'[u] = IF u = t THEN c ELSE timer[u]
      BY <1>1, <1>3 DEF IInv, TypeOK
    <3>3. map[d] # Unused <=> \E u \in Tickers : timer[u] = d
      BY DEF IInv, TableMatchesOwners
    <3>4. Token(i) # Unused
      BY <1>2
    <3> QED BY <1>1, <1>4, <3>1, <3>2, <3>3, <3>4
  <2>2. \A u, v \in Tickers : u # v /\ timer'[u] # NoChn => timer'[u] # timer'[v]
    BY <1>1, <1>2, <1>3, <1>4 DEF IInv, TypeOK, TableMatchesOwners
  <2>3. \A j \in Chns : held'[j] <=> \E d \in Chns : map'[d] = Token(j)
    <3> TAKE j \in Chns
    <3>1. held'[j] <=> j = i \/ held[j]
      BY <1>2, <1>3 DEF IInv, TypeOK
    <3>2. held[j] <=> \E d \in Chns : map[d] = Token(j)
      BY DEF IInv, TableMatchesOwners
    <3>3. \A d \in Chns : map'[d] = IF d = c THEN Token(i) ELSE map[d]
      BY <1>2, <1>3 DEF IInv, TypeOK
    <3> QED BY <1>2, <3>1, <3>2, <3>3
  <2> QED BY <2>1, <2>2, <2>3 DEF TableMatchesOwners
<1>8. CASE cfg[x].interval = "long"
  <2>1. hung' = TRUE /\ UNCHANGED <<inst, ctl, plic, life, cfg>>
    BY <1>8 DEF Arm
  <2>2. TypeOK'
    BY <1>1, <1>2, <1>3, <2>1 DEF IInv, TypeOK
  <2>3. HandlerInv' /\ RequestInv'
    BY <1>3, <2>1 DEF IInv, HandlerInv, RequestInv
  <2>4. NoStaleCallback' /\ InstanceInv'
    BY <1>1, <1>3, <2>1 DEF IInv, TypeOK, NoStaleCallback, InstanceInv
  <2>5. ShotInv'
    BY <1>1, <1>2, <1>3, <1>5, <2>1 DEF IInv, TypeOK, ShotInv, Current, Cleared
  <2> QED BY <1>6, <1>7, <2>2, <2>3, <2>4, <2>5 DEF IInv
<1>9. CASE cfg[x].interval # "long"
  <2>1. /\ inst' = [inst EXCEPT ![c] = [home |-> c, ctx |-> t,
                                         single |-> cfg[x].mode = "once"]]
        /\ plic' = [plic EXCEPT ![Line(c)] = c]
        /\ ctl' = [ctl EXCEPT ![c] = "on"]
        /\ life' = [life EXCEPT ![t] = IF Leftover(c) THEN "inherits" ELSE "waiting"]
        /\ cfg' = [cfg EXCEPT ![x] = NoRequest]
        /\ hung' = hung
    BY <1>9 DEF Arm, timer_irq_register
  <2>2. TypeOK'
    BY <1>1, <1>2, <1>3, <2>1 DEF IInv, TypeOK
  <2>3. HandlerInv'
    BY <1>1, <1>3, <2>1 DEF IInv, TypeOK, HandlerInv, Contexts
  <2>4. RequestInv'
    <3>1. \A y \in Contexts : cfg'[y] = IF y = x THEN NoRequest ELSE cfg[y]
      BY <2>1 DEF IInv, TypeOK
    <3>2. \A y \in Contexts : cfg'[y] # NoRequest => cfg[y].ticker # t
      <4> SUFFICES ASSUME NEW y \in Contexts, cfg'[y] # NoRequest
                   PROVE  cfg[y].ticker # t
        OBVIOUS
      <4>1. y # x /\ cfg[y] # NoRequest
        BY <3>1
      <4> QED BY <1>1, <4>1 DEF IInv, RequestInv, Contexts
    <3> QED BY <1>1, <1>3, <2>1, <3>1, <3>2 DEF IInv, TypeOK, RequestInv, Request, Contexts
  <2>5. NoStaleCallback'
    BY <1>1, <1>2, <1>3, <1>4, <2>1 DEF IInv, TypeOK, NoStaleCallback
  <2>6. InstanceInv'
    <3>1. t # None
      BY <1>1, TickerAssumption
    <3> QED BY <1>1, <1>2, <1>3, <2>1, <3>1 DEF IInv, TypeOK, InstanceInv
  <2>7. ShotInv'
    BY <1>1, <1>2, <1>3, <1>4, <2>1 DEF IInv, TypeOK, ShotInv, Current
  <2> QED BY <1>6, <1>7, <2>2, <2>3, <2>4, <2>5, <2>6, <2>7 DEF IInv
<1> QED BY <1>8, <1>9

LEMMA ArmFailsIInv ==
  ASSUME IInv, NEW x \in Contexts, ArmFails(x)
  PROVE  IInv'
<1>1. /\ UNCHANGED <<map, held, timer, action, inst, ctl, raw, plic, todo,
                     caller, stage, hung, life>>
      /\ cfg' = [cfg EXCEPT ![x] = NoRequest]
  BY DEF ArmFails, table, hw, handler
<1>2. TypeOK' /\ PinsDistinct' /\ TableMatchesOwners'
  BY <1>1 DEF IInv, TypeOK, PinsDistinct, TableMatchesOwners
<1>3. HandlerInv' /\ RequestInv'
  BY <1>1 DEF IInv, TypeOK, HandlerInv, RequestInv, Contexts
<1>4. NoStaleCallback' /\ InstanceInv' /\ ShotInv'
  BY <1>1 DEF IInv, NoStaleCallback, InstanceInv, ShotInv, Current
<1> QED BY <1>2, <1>3, <1>4 DEF IInv

LEMMA ExpireIInv ==
  ASSUME IInv, NEW c \in Chns, Expire(c)
  PROVE  IInv'
<1>1. /\ UNCHANGED <<map, held, timer, action, inst, ctl, plic, todo,
                     caller, stage, cfg, hung>>
      /\ raw' = [raw EXCEPT ![c] = TRUE]
      /\ life' \in [Tickers -> {"idle", "waiting", "inherits", "due", "fired"}]
      /\ \A t \in Tickers : life'[t] = "fired" => life[t] = "fired"
  BY DEF Expire, table, handler, IInv, TypeOK
<1>2. TypeOK' /\ PinsDistinct' /\ TableMatchesOwners'
  BY <1>1 DEF IInv, TypeOK, PinsDistinct, TableMatchesOwners
<1>3. HandlerInv' /\ RequestInv'
  BY <1>1 DEF IInv, HandlerInv, RequestInv
<1>4. NoStaleCallback' /\ InstanceInv' /\ ShotInv'
  BY <1>1 DEF IInv, NoStaleCallback, InstanceInv, ShotInv, Current
<1> QED BY <1>2, <1>3, <1>4 DEF IInv

LEMMA EnterIInv ==
  ASSUME IInv, NEW l \in Lines, Enter(l)
  PROVE  IInv'
<1>1. /\ UNCHANGED <<map, held, timer, action, inst, ctl, raw, plic,
                     caller, cfg, hung, life>>
      /\ stage = "idle" /\ stage' = (IF todo' = {} THEN "idle" ELSE "scan")
      /\ todo' \subseteq IntrStat
  BY DEF Enter, table, hw, Snapshot
<1>2. todo' \subseteq Chns /\ \A c \in todo' : ctl[c] = "on"
  BY <1>1 DEF IntrStat
<1>3. TypeOK' /\ PinsDistinct' /\ TableMatchesOwners'
  BY <1>1, <1>2 DEF IInv, TypeOK, PinsDistinct, TableMatchesOwners
<1>4. HandlerInv' /\ RequestInv'
  BY <1>1 DEF IInv, HandlerInv, RequestInv
<1>5. NoStaleCallback' /\ InstanceInv' /\ ShotInv'
  BY <1>1, <1>2 DEF IInv, NoStaleCallback, InstanceInv, ShotInv
<1> QED BY <1>3, <1>4, <1>5 DEF IInv

\* The ticker whose callback runs next owns the channel being treated, and has
\* not fired already if it is a single shot.
LEMMA CallOwner ==
  ASSUME IInv, Call
  PROVE  /\ Current \in todo /\ Current \in Chns
         /\ inst[Current].ctx \in Tickers
         /\ timer[inst[Current].ctx] = Current
         /\ action[inst[Current].ctx]
         /\ ~ (life[inst[Current].ctx] = "fired" /\ inst[Current].single)
<1>1. stage = "scan" /\ inst[Current].ctx # None
  BY DEF Call
<1>2. Current \in todo /\ Current \in Chns
  BY <1>1, CurrentIn DEF IInv
<1>3. inst[Current].ctx \in Tickers
  BY <1>1, <1>2 DEF IInv, TypeOK
<1>4. timer[inst[Current].ctx] = Current /\ action[inst[Current].ctx]
  BY <1>1, <1>2 DEF IInv, NoStaleCallback
<1>5. ctl[Current] = "on"
  BY <1>1, <1>2 DEF IInv, InstanceInv
<1>6. ~ (life[inst[Current].ctx] = "fired" /\ inst[Current].single)
  BY <1>1, <1>2, <1>3, <1>4, <1>5, ChannelFacts DEF IInv, ShotInv
<1> QED BY <1>2, <1>3, <1>4, <1>6

LEMMA CallIInv ==
  ASSUME IInv, Call
  PROVE  IInv'
<1> DEFINE t == inst[Current].ctx
<1>1. /\ Current \in Chns /\ t \in Tickers
      /\ timer[t] = Current /\ action[t]
  BY CallOwner
<1>2. /\ UNCHANGED <<map, held, timer, action, inst, ctl, raw, plic,
                     todo, cfg, hung>>
      /\ stage = "scan" /\ stage' = "body" /\ caller' = t
      /\ life' = [life EXCEPT ![t] = "fired"]
      /\ ~ hung
  BY <1>1 DEF Call, table, hw
<1>3. TypeOK' /\ PinsDistinct' /\ TableMatchesOwners'
  BY <1>1, <1>2 DEF IInv, TypeOK, PinsDistinct, TableMatchesOwners
<1>4. HandlerInv'
  BY <1>1, <1>2, TickerAssumption DEF IInv, HandlerInv
<1>5. RequestInv'
  <2>1. cfg["isr"] = NoRequest
    BY <1>2 DEF IInv, HandlerInv
  <2>2. cfg["task"] # NoRequest => timer[cfg["task"].ticker] = NoChn
    BY <1>2 DEF IInv, RequestInv, Contexts
  <2>3. timer[t] # NoChn
    BY <1>1, ChannelFacts
  <2> QED BY <1>2, <2>1, <2>2, <2>3 DEF IInv, RequestInv
<1>6. NoStaleCallback' /\ InstanceInv'
  BY <1>2 DEF IInv, NoStaleCallback, InstanceInv
<1>7. ShotInv'
  <2>1. Current' = Current
    BY <1>2 DEF Current
  <2> QED BY <1>1, <1>2, <2>1 DEF IInv, TypeOK, ShotInv
<1> QED BY <1>3, <1>4, <1>5, <1>6, <1>7 DEF IInv

LEMMA ReturnIInv ==
  ASSUME IInv, Return
  PROVE  IInv'
<1>1. /\ UNCHANGED <<map, held, timer, action, inst, ctl, raw, plic,
                     todo, cfg, hung, life>>
      /\ stage = "body" /\ stage' = "post" /\ caller' = None
      /\ cfg["isr"] = NoRequest
  BY DEF Return, table, hw
<1>2. TypeOK' /\ PinsDistinct' /\ TableMatchesOwners'
  BY <1>1 DEF IInv, TypeOK, PinsDistinct, TableMatchesOwners
<1>3. HandlerInv'
  BY <1>1 DEF IInv, HandlerInv
<1>4. RequestInv'
  <2>1. cfg["task"] # NoRequest => cfg["task"].ticker \in Tickers
    BY DEF IInv, TypeOK, Contexts, Request
  <2> QED BY <1>1, <2>1, TickerAssumption DEF IInv, RequestInv
<1>5. NoStaleCallback' /\ InstanceInv' /\ ShotInv'
  BY <1>1 DEF IInv, NoStaleCallback, InstanceInv, ShotInv, Current
<1> QED BY <1>2, <1>3, <1>4, <1>5 DEF IInv

LEMMA AcknowledgeIInv ==
  ASSUME IInv, Acknowledge
  PROVE  IInv'
<1>1. /\ UNCHANGED <<map, held, timer, action, inst, plic, caller, cfg, hung, life>>
      /\ stage = "post" \/ (stage = "scan" /\ inst[Current].ctx = None)
      /\ todo' = todo \ {Current}
      /\ stage' = IF todo = {Current} THEN "idle" ELSE "scan"
      /\ raw' = [raw EXCEPT ![Current] = FALSE]
      /\ ctl' = IF stage = "post" /\ inst[Current].single
                THEN [ctl EXCEPT ![Current] = "off"] ELSE ctl
  BY DEF Acknowledge, table
<1>2. Current \in todo /\ Current \in Chns
  BY <1>1, CurrentIn DEF IInv
<1>3. TypeOK' /\ PinsDistinct' /\ TableMatchesOwners'
  <2>1. ctl' \in [Chns -> {"on", "off"}]
    BY <1>1, <1>2 DEF IInv, TypeOK
  <2>2. todo' \subseteq Chns
    BY <1>1 DEF IInv, TypeOK
  <2> QED BY <1>1, <1>2, <2>1, <2>2 DEF IInv, TypeOK, PinsDistinct, TableMatchesOwners
<1>4. HandlerInv'
  BY <1>1, <1>2 DEF IInv, HandlerInv
<1>5. RequestInv' /\ NoStaleCallback'
  BY <1>1 DEF IInv, RequestInv, NoStaleCallback
<1>6. InstanceInv'
  BY <1>1, <1>2 DEF IInv, TypeOK, InstanceInv
<1>7. ShotInv'
  BY <1>1, <1>2 DEF IInv, TypeOK, ShotInv, InstanceInv, Cleared
<1> QED BY <1>3, <1>4, <1>5, <1>6, <1>7 DEF IInv

-------------------------------------------------------------------------------
(* The theorems.                                                           *)

LEMMA StepIInv == IInv /\ [Next]_vars => IInv'
<1> SUFFICES ASSUME IInv, [Next]_vars PROVE IInv'
  OBVIOUS
<1>1. ASSUME NEW x \in Contexts, NEW t \in Tickers, Detach(x, t) PROVE IInv'
  BY <1>1, DetachIInv
<1>2. ASSUME NEW x \in Contexts, NEW t \in Tickers, NEW mode \in Modes,
             NEW i \in Intervals, Schedule(x, t, mode, i)
      PROVE  IInv'
  BY <1>2, ScheduleIInv
<1>3. ASSUME NEW x \in Contexts, Arm(x) \/ ArmFails(x) PROVE IInv'
  BY <1>3, ArmIInv, ArmFailsIInv
<1>4. ASSUME NEW c \in Chns, Expire(c) PROVE IInv'
  BY <1>4, ExpireIInv
<1>5. ASSUME NEW l \in Lines, Enter(l) PROVE IInv'
  BY <1>5, EnterIInv
<1>6. CASE Call \/ Return \/ Acknowledge
  BY <1>6, CallIInv, ReturnIInv, AcknowledgeIInv
<1>7. CASE UNCHANGED vars
  <2>1. UNCHANGED <<map, held, timer, action, inst, ctl, raw, plic,
                    todo, caller, stage, cfg, hung, life>>
    BY <1>7 DEF vars
  <2>2. TypeOK' /\ PinsDistinct' /\ TableMatchesOwners'
    BY <2>1 DEF IInv, TypeOK, PinsDistinct, TableMatchesOwners
  <2>3. HandlerInv' /\ RequestInv'
    BY <2>1 DEF IInv, HandlerInv, RequestInv
  <2>4. NoStaleCallback' /\ InstanceInv' /\ ShotInv'
    BY <2>1 DEF IInv, NoStaleCallback, InstanceInv, ShotInv, Current
  <2> QED BY <2>2, <2>3, <2>4 DEF IInv
<1> QED BY <1>1, <1>2, <1>3, <1>4, <1>5, <1>6, <1>7 DEF Next, Configure, Interrupt

\* The inductive invariant holds in every reachable state.
THEOREM Invariance == Spec => []IInv
BY InitIInv, StepIInv, PTL DEF Spec

\* Every variable keeps its type, for any number of timers and tickers.
THEOREM TypeCorrect == Spec => []TypeOK
<1>1. IInv => TypeOK
  BY DEF IInv
<1> QED BY <1>1, Invariance, PTL

\* timer_instance never points at a ticker that was detached or moved: what the
\* interrupt dereferences is alive.
THEOREM CallbacksAreLive == Spec => []NoStaleCallback
<1>1. IInv => NoStaleCallback
  BY DEF IInv
<1> QED BY <1>1, Invariance, PTL

\* The channel table and the tickers agree in every reachable state: no channel
\* is given out twice and none leaks, whichever contexts schedule and detach.
THEOREM TableIsExact == Spec => []TableMatchesOwners
<1>1. IInv => TableMatchesOwners
  BY DEF IInv
<1> QED BY <1>1, Invariance, PTL

\* A single shot is inactive once it has fired and the handler is done.
THEOREM OnceEndsInactive == Spec => []OnceInactiveAfterFire
<1>1. IInv => OnceInactiveAfterFire
  BY DEF IInv, ShotInv, OnceInactiveAfterFire
<1> QED BY <1>1, Invariance, PTL

\* A single shot's callback never runs twice for one schedule().
THEOREM OnceIsOnce == Spec => OnceFiresOnce
<1>1. IInv /\ [Next]_vars =>
        [\A t \in Tickers :
           Fires(t) => ~ (life[t] = "fired" /\ inst[timer[t]].single)]_vars
  <2> SUFFICES ASSUME IInv, Next, NEW t \in Tickers, Fires(t)
               PROVE  ~ (life[t] = "fired" /\ inst[timer[t]].single)
    BY DEF Fires, vars
  <2>1. Call
    <3>1. t # None /\ caller' = t /\ caller # t
      BY TickerAssumption DEF Fires
    <3> QED BY <3>1 DEF Next, Configure, Interrupt, Detach, Schedule, Arm,
                        ArmFails, Expire, Enter, Return, Acknowledge, handler
  <2>2. t = inst[Current].ctx
    BY <2>1 DEF Call, Fires
  <2> QED BY <2>1, <2>2, CallOwner
<1> QED BY <1>1, Invariance, PTL DEF Spec, OnceFiresOnce

-------------------------------------------------------------------------------
(* Callbacks that only attach repeating tickers.                           *)

LEMMA DetachArmedInv ==
  ASSUME IInv, ArmedInv, NEW t \in Tickers, detach(t), UNCHANGED <<handler, hung>>
  PROVE  ArmedInv'
<1> USE ChannelFacts DEF handler
<1>0. life' = [life EXCEPT ![t] = "idle"] /\ UNCHANGED <<todo, stage, hung>>
  BY DEF detach
<1>1. Current' = Current
  BY <1>0 DEF Current
<1>2. stage \in {"body", "post"} => Current \in Chns
  BY CurrentIn DEF IInv
<1>3. CASE timer[t] = NoChn
  <2>1. UNCHANGED <<timer, inst, ctl>>
    BY <1>3 DEF detach
  <2>2. ArmedUntilFired'
    BY <1>0, <1>3, <2>1 DEF IInv, TypeOK, ArmedInv, ArmedUntilFired
  <2>3. stage \in {"body", "post"} => inst[Current].ctx # t
    <3>1. \A d \in Chns : inst[d].ctx # None => timer[inst[d].ctx] = d
      BY DEF IInv, NoStaleCallback
    <3> QED BY <1>2, <1>3, <3>1, TickerAssumption
  <2> QED BY <1>0, <1>1, <2>1, <2>2, <2>3 DEF IInv, TypeOK, ArmedInv
<1>4. CASE timer[t] # NoChn
  <2> DEFINE c == timer[t]
  <2>1. /\ c \in Chns
        /\ timer' = [timer EXCEPT ![t] = NoChn]
        /\ inst' = [inst EXCEPT ![c] = Cleared]
        /\ ctl' = [ctl EXCEPT ![c] = "off"]
    BY <1>4, DetachArmed
  <2>2. ArmedUntilFired'
    BY <1>0, <2>1 DEF IInv, TypeOK, ArmedInv, ArmedUntilFired, TableMatchesOwners
  <2>3. (stage \in {"body", "post"} /\ inst'[Current].single) =>
           life'[inst'[Current].ctx] = "fired"
    <3> SUFFICES ASSUME stage \in {"body", "post"}, inst'[Current].single
                 PROVE  life'[inst'[Current].ctx] = "fired"
      OBVIOUS
    <3>1. Current # c /\ inst'[Current] = inst[Current]
      BY <1>2, <2>1 DEF IInv, TypeOK, Cleared
    <3>2. inst[Current].ctx # t
      <4>1. inst[Current].ctx # None => timer[inst[Current].ctx] = Current
        BY <1>2 DEF IInv, NoStaleCallback
      <4> QED BY <3>1, <4>1, TickerAssumption
    <3>3. life[inst[Current].ctx] = "fired"
      BY <3>1 DEF ArmedInv
    <3> QED BY <1>0, <3>1, <3>2, <3>3 DEF IInv, TypeOK
  <2> QED BY <1>0, <1>1, <2>2, <2>3 DEF ArmedInv
<1> QED BY <1>3, <1>4

LEMMA ArmArmedInv ==
  ASSUME "once" \notin CbModes, IInv, ArmedInv, NEW x \in Contexts, Arm(x)
  PROVE  ArmedInv'
<1> USE ChannelFacts
<1> DEFINE t == cfg[x].ticker
           c == GotChannel(map, held)
<1>1. /\ t \in Tickers /\ ~ hung /\ timer[t] = NoChn /\ Runs(x)
      /\ cfg[x] # NoRequest
  BY DEF Arm, Runs, IInv, TypeOK, Request, RequestInv
<1>2. c \in Chns /\ map[c] = Unused
  BY GetFresh DEF Arm, IInv, TypeOK, TableMatchesOwners
<1>3. /\ timer' = [timer EXCEPT ![t] = c]
      /\ UNCHANGED <<todo, stage>>
      /\ Current' = Current
  BY DEF Arm, handler, Current
<1>4. stage \in {"body", "post"} => Current \in Chns
  BY CurrentIn DEF IInv
<1>5. CASE cfg[x].interval = "long"
  <2>1. hung' = TRUE /\ UNCHANGED <<inst, ctl, life>>
    BY <1>5 DEF Arm
  <2> QED BY <1>3, <2>1 DEF ArmedInv, ArmedUntilFired
<1>6. CASE cfg[x].interval # "long"
  <2>1. /\ inst' = [inst EXCEPT ![c] = [home |-> c, ctx |-> t,
                                         single |-> cfg[x].mode = "once"]]
        /\ ctl' = [ctl EXCEPT ![c] = "on"]
        /\ life' = [life EXCEPT ![t] = IF Leftover(c) THEN "inherits" ELSE "waiting"]
        /\ hung' = hung
    BY <1>6 DEF Arm, timer_irq_register
  <2>2. \A u \in Tickers : timer[u] # c
    BY <1>2 DEF IInv, TableMatchesOwners
  <2>3. ArmedUntilFired'
    BY <1>1, <1>2, <1>3, <2>1, <2>2 DEF IInv, TypeOK, ArmedInv, ArmedUntilFired
  <2>4. (stage \in {"body", "post"} /\ inst'[Current].single) =>
           life'[inst'[Current].ctx] = "fired"
    <3> SUFFICES ASSUME stage \in {"body", "post"}, inst'[Current].single
                 PROVE  life'[inst'[Current].ctx] = "fired"
      OBVIOUS
    <3>1. cfg[x].mode # "once"
      <4>1. x = "isr"
        BY <1>1 DEF Runs, Contexts
      <4> QED BY <1>1, <4>1 DEF IInv, RequestInv
    <3>2. Current # c /\ inst'[Current] = inst[Current]
      BY <1>4, <2>1, <3>1 DEF IInv, TypeOK
    <3>3. inst[Current].ctx # t
      <4>1. inst[Current].ctx # None => timer[inst[Current].ctx] = Current
        BY <1>4 DEF IInv, NoStaleCallback
      <4> QED BY <1>1, <1>4, <4>1, TickerAssumption
    <3>4. life[inst[Current].ctx] = "fired"
      BY <3>2 DEF ArmedInv
    <3> QED BY <2>1, <3>2, <3>3, <3>4 DEF IInv, TypeOK
  <2> QED BY <1>3, <2>3, <2>4 DEF ArmedInv
<1> QED BY <1>5, <1>6

LEMMA InterruptArmedInv ==
  ASSUME IInv, ArmedInv, Interrupt
  PROVE  ArmedInv'
<1> USE ChannelFacts DEF table, hw
<1>1. ASSUME NEW l \in Lines, Enter(l) PROVE ArmedInv'
  BY <1>1 DEF Enter, ArmedInv, ArmedUntilFired
<1>2. CASE Call
  <2> DEFINE t == inst[Current].ctx
  <2>1. t \in Tickers /\ timer[t] = Current /\ action[t]
    BY <1>2, CallOwner
  <2>2. /\ UNCHANGED <<timer, inst, ctl, todo, hung>>
        /\ life' = [life EXCEPT ![t] = "fired"]
        /\ Current' = Current
    BY <1>2, <2>1 DEF Call, Current
  <2> QED BY <2>1, <2>2 DEF IInv, TypeOK, ArmedInv, ArmedUntilFired
<1>3. CASE Return
  BY <1>3 DEF Return, ArmedInv, ArmedUntilFired, Current
<1>4. CASE Acknowledge
  <2>1. Current \in Chns
    BY <1>4, CurrentIn DEF IInv, Acknowledge
  <2>2. /\ UNCHANGED <<timer, inst, hung, life>>
        /\ stage' \in {"idle", "scan"}
        /\ \/ ctl' = ctl
           \/ /\ ctl' = [ctl EXCEPT ![Current] = "off"]
              /\ stage = "post" /\ inst[Current].single
    BY <1>4 DEF Acknowledge
  <2>3. ASSUME stage = "post", inst[Current].single, NEW u \in Tickers,
               timer[u] = Current
        PROVE  life[u] = "fired"
    <3>1. inst[Current].ctx \in Tickers
      BY <2>1, <2>3 DEF IInv, TypeOK, InstanceInv, Cleared
    <3>2. timer[inst[Current].ctx] = Current
      BY <2>1, <3>1, TickerAssumption DEF IInv, NoStaleCallback
    <3>3. inst[Current].ctx = u
      BY <2>1, <2>3, <3>1, <3>2 DEF IInv, TableMatchesOwners
    <3> QED BY <2>3, <3>3 DEF ArmedInv
  <2>4. ArmedUntilFired'
    <3> SUFFICES ASSUME NEW u \in Tickers, timer[u] # NoChn,
                        ctl'[timer[u]] = "off", ~ hung
                 PROVE  life[u] = "fired"
      BY <2>2 DEF ArmedUntilFired
    <3>1. CASE ctl[timer[u]] = "off"
      BY <3>1 DEF ArmedInv, ArmedUntilFired
    <3>2. CASE ctl[timer[u]] # "off"
      <4>1. ctl' # ctl
        BY <3>2
      <4>2. ctl' = [ctl EXCEPT ![Current] = "off"]
        BY <2>2, <4>1, Zenon
      <4>3. stage = "post" /\ inst[Current].single
        BY <2>2, <4>1, Zenon
      <4>4. timer[u] = Current
        BY <3>2, <4>2 DEF IInv, TypeOK
      <4> QED BY <2>3, <4>3, <4>4, Zenon
    <3> QED BY <3>1, <3>2
  <2> QED BY <2>2, <2>4 DEF ArmedInv
<1> QED BY <1>1, <1>2, <1>3, <1>4 DEF Interrupt

\* If callbacks re-attach tickers only as repeating ones, an armed ticker is
\* switched off by nothing but its own shot.  (The handler reads single_shot after
\* the callback, so one that calls once() on its own ticker breaks this.)
THEOREM StaysArmed ==
  ASSUME "once" \notin CbModes
  PROVE  Spec => []ArmedUntilFired
<1>1. Init => ArmedInv
  BY DEF Init, ArmedInv, ArmedUntilFired
<1>2. IInv /\ ArmedInv /\ [Next]_vars => ArmedInv'
  <2> SUFFICES ASSUME IInv, ArmedInv, [Next]_vars PROVE ArmedInv'
    OBVIOUS
  <2>1. ASSUME NEW x \in Contexts, Configure(x) PROVE ArmedInv'
    <3>1. ASSUME NEW t \in Tickers, detach(t), UNCHANGED <<handler, hung>>
          PROVE  ArmedInv'
      BY <3>1, DetachArmedInv
    <3>2. CASE Arm(x)
      BY <3>2, ArmArmedInv
    <3>3. CASE ArmFails(x)
      BY <3>3 DEF ArmFails, ArmedInv, ArmedUntilFired, Current, handler, hw
    <3> QED BY <2>1, <3>1, <3>2, <3>3 DEF Configure, Detach, Schedule
  <2>2. ASSUME NEW c \in Chns, Expire(c) PROVE ArmedInv'
    <3>1. /\ UNCHANGED <<timer, inst, ctl, todo, stage, hung>>
          /\ Current' = Current
          /\ ctl[c] = "on"
      BY <2>2 DEF Expire, handler, Current
    <3>2. \A t \in Tickers :
            life'[t] = life[t] \/ (timer[t] = c /\ (life[t] = "fired" => ~ inst[c].single))
      BY <2>2 DEF Expire, IInv, TypeOK
    <3>3. ArmedUntilFired'
      BY <3>1, <3>2 DEF ArmedInv, ArmedUntilFired
    <3>4. (stage \in {"body", "post"} /\ inst[Current].single) =>
            life'[inst[Current].ctx] = "fired"
      <4> SUFFICES ASSUME stage \in {"body", "post"}, inst[Current].single
                   PROVE  life'[inst[Current].ctx] = "fired"
        OBVIOUS
      <4>1. Current \in Chns
        BY CurrentIn DEF IInv
      <4>2. inst[Current].ctx \in Tickers
        BY <4>1 DEF IInv, TypeOK, InstanceInv, Cleared
      <4>3. timer[inst[Current].ctx] = Current
        BY <4>1, <4>2, TickerAssumption DEF IInv, NoStaleCallback
      <4>4. life[inst[Current].ctx] = "fired"
        BY DEF ArmedInv
      <4> QED BY <3>2, <4>2, <4>3, <4>4
    <3> QED BY <3>1, <3>3, <3>4 DEF ArmedInv
  <2>3. CASE Interrupt
    BY <2>3, InterruptArmedInv
  <2>4. CASE UNCHANGED vars
    BY <2>4 DEF vars, ArmedInv, ArmedUntilFired, Current
  <2> QED BY <2>1, <2>2, <2>3, <2>4 DEF Next
<1>3. ArmedInv => ArmedUntilFired
  BY DEF ArmedInv
<1> QED BY <1>1, <1>2, <1>3, Invariance, PTL DEF Spec

-------------------------------------------------------------------------------
(* Expiries.                                                               *)

\* A ticker whose channel has an expiry that the handler has still to call for
\* is due, or took the channel with this expiry.
DueInv ==
  /\ \A t \in Tickers : timer[t] # NoChn /\ ~ hung => life[t] # "idle"
  /\ \A t \in Tickers :
       timer[t] # NoChn /\ ~ hung /\ Leftover(timer[t]) => life[t] \in {"due", "inherits"}

\* detach() leaves the other tickers' channels alone.
LEMMA DetachDueInv ==
  ASSUME IInv, DueInv, NEW t \in Tickers, detach(t), UNCHANGED <<handler, hung>>
  PROVE  DueInv'
<1> USE ChannelFacts
<1>0. /\ UNCHANGED <<todo, caller, stage, hung>> /\ Current' = Current
      /\ life' = [life EXCEPT ![t] = "idle"]
      /\ life \in [Tickers -> {"idle", "waiting", "inherits", "due", "fired"}]
      /\ timer \in [Tickers -> Chns \cup {NoChn}] /\ raw \in [Chns -> BOOLEAN]
  BY DEF handler, Current, detach, IInv, TypeOK
<1>1. \A u \in Tickers : u # t => life'[u] = life[u]
  BY <1>0
<1>2. CASE timer[t] = NoChn
  <2>1. UNCHANGED <<timer, raw>>
    BY <1>2 DEF detach
  <2> QED BY <1>0, <1>1, <1>2, <2>1 DEF DueInv, Leftover, InHand
<1>3. CASE timer[t] # NoChn
  <2>1. timer[t] \in Chns /\ timer' = [timer EXCEPT ![t] = NoChn]
    BY <1>3, DetachArmed
  <2>2. timer'[t] = NoChn /\ \A u \in Tickers : u # t => timer'[u] = timer[u]
    BY <1>0, <2>1
  <2>3. PICK keep \in RawSurvives : raw' = [raw EXCEPT ![timer[t]] = raw[timer[t]] /\ keep]
    BY <1>3 DEF detach
  <2>4. \A d \in Chns : d # timer[t] => raw'[d] = raw[d]
    BY <1>0, <2>1, <2>3
  <2>5. \A u \in Tickers : u # t /\ timer[u] # NoChn => timer[u] \in Chns /\ timer[u] # timer[t]
    BY <1>0 DEF IInv, TableMatchesOwners
  <2>6. \A u \in Tickers : u # t /\ timer[u] # NoChn => Leftover(timer[u])' = Leftover(timer[u])
    BY <1>0, <2>2, <2>4, <2>5 DEF Leftover, InHand
  <2> QED BY <1>0, <1>1, <2>2, <2>6 DEF DueInv
<1> QED BY <1>2, <1>3

\* schedule() records what the channel it got has left over.
LEMMA ArmDueInv ==
  ASSUME IInv, DueInv, NEW x \in Contexts, Arm(x)
  PROVE  DueInv'
<1> USE ChannelFacts
<1>0. cfg[x].ticker \in Tickers /\ GotChannel(map, held) \in Chns
  BY GetFresh DEF Arm, Runs, IInv, TypeOK, Request, RequestInv, TableMatchesOwners
<1>a. PICK t \in Tickers : t = cfg[x].ticker
  BY <1>0
<1>1. PICK c \in Chns : c = GotChannel(map, held)
  BY <1>0
<1>2. /\ timer' = [timer EXCEPT ![t] = c]
      /\ UNCHANGED <<raw, todo, stage>> /\ Current' = Current
      /\ hung' \/ /\ hung' = hung
                  /\ life' = [life EXCEPT ![t] = IF Leftover(c) THEN "inherits" ELSE "waiting"]
  BY <1>a, <1>1 DEF Arm, handler, Current
<1>3. /\ timer \in [Tickers -> Chns \cup {NoChn}]
      /\ life \in [Tickers -> {"idle", "waiting", "inherits", "due", "fired"}]
  BY DEF IInv, TypeOK
<1>4. timer'[t] = c /\ \A u \in Tickers : u # t => timer'[u] = timer[u]
  BY <1>1, <1>2, <1>3
<1>5. SUFFICES ASSUME ~ hung' PROVE DueInv'
  BY DEF DueInv
<1>6. /\ ~ hung
      /\ life'[t] = IF Leftover(c) THEN "inherits" ELSE "waiting"
      /\ \A u \in Tickers : u # t => life'[u] = life[u]
  BY <1>1, <1>2, <1>3, <1>5
<1>7. Leftover(timer[t])' <=> Leftover(c)
  BY <1>2, <1>4 DEF Leftover, InHand
<1>8. \A u \in Tickers : u # t => (Leftover(timer[u])' <=> Leftover(timer[u]))
  BY <1>2, <1>4 DEF Leftover, InHand
<1>9. \A u \in Tickers : timer'[u] # NoChn => life'[u] # "idle"
  BY <1>4, <1>6 DEF DueInv
<1>10. \A u \in Tickers : timer'[u] # NoChn /\ Leftover(timer[u])' => life'[u] \in {"due", "inherits"}
  BY <1>4, <1>6, <1>7, <1>8 DEF DueInv
<1> QED BY <1>9, <1>10 DEF DueInv

LEMMA ExpireDueInv ==
  ASSUME IInv, DueInv, NEW c \in Chns, Expire(c)
  PROVE  DueInv'
<1> USE ChannelFacts
<1>1. /\ ctl[c] = "on" /\ ~ hung /\ raw' = [raw EXCEPT ![c] = TRUE]
      /\ UNCHANGED <<timer, todo, stage, hung>> /\ Current' = Current
  BY DEF Expire, handler, Current
<1>2. /\ raw \in [Chns -> BOOLEAN] /\ timer \in [Tickers -> Chns \cup {NoChn}]
      /\ life \in [Tickers -> {"idle", "waiting", "inherits", "due", "fired"}]
  BY DEF IInv, TypeOK
<1>3. \A d \in Chns : d # c => raw'[d] = raw[d]
  BY <1>1, <1>2
<1>4. \A t \in Tickers :
        life'[t] = IF /\ timer[t] = c
                      /\ \/ life[t] \in {"waiting", "inherits"}
                         \/ life[t] = "fired" /\ ~ inst[c].single
                   THEN "due" ELSE life[t]
  BY DEF Expire
<1>5. \A t \in Tickers : timer[t] # NoChn => life'[t] # "idle"
  BY <1>1, <1>4 DEF DueInv
<1>6. \A t \in Tickers : timer[t] # NoChn /\ Leftover(timer[t])' => life'[t] \in {"due", "inherits"}
  <2> SUFFICES ASSUME NEW t \in Tickers, timer[t] # NoChn, Leftover(timer[t])'
               PROVE  life'[t] \in {"due", "inherits"}
    OBVIOUS
  <2>1. ~ InHand(timer[t]) /\ timer'[t] = timer[t]
    BY <1>1 DEF Leftover, InHand
  <2>2. CASE timer[t] = c
    <3>1. life[t] # "idle"
      BY <1>1 DEF DueInv
    <3>2. ~ (life[t] = "fired" /\ inst[c].single)
      BY <1>1, <2>1, <2>2 DEF IInv, ShotInv, InHand
    <3> QED BY <1>2, <1>4, <2>2, <3>1, <3>2
  <2>3. CASE timer[t] # c
    <3>1. Leftover(timer[t]) /\ life'[t] = life[t]
      BY <1>1, <1>2, <1>3, <1>4, <2>1, <2>3 DEF Leftover
    <3> QED BY <1>1, <3>1 DEF DueInv
  <2> QED BY <2>2, <2>3
<1> QED BY <1>1, <1>5, <1>6 DEF DueInv

LEMMA InterruptDueInv ==
  ASSUME IInv, DueInv, Interrupt
  PROVE  DueInv'
<1> USE ChannelFacts
<1>1. ASSUME NEW l \in Lines, Enter(l) PROVE DueInv'
  <2>1. /\ stage = "idle" /\ stage' \in {"idle", "scan"} /\ UNCHANGED <<timer, raw, hung, life>>
        /\ \A c \in todo' : raw[c]
    BY <1>1 DEF Enter, hw, IntrStat, Snapshot
  <2>2. \A t \in Tickers : timer[t] # NoChn /\ Leftover(timer[t])' => Leftover(timer[t])
    BY <2>1 DEF Leftover, InHand
  <2> QED BY <2>1, <2>2 DEF DueInv
<1>2. CASE Call
  <2>0. PICK t \in Tickers : t = inst[Current].ctx
    BY <1>2, CallOwner DEF Call
  <2>1. timer[t] = Current /\ action[t] /\ stage = "scan"
    BY <1>2, <2>0, CallOwner DEF Call
  <2>2. /\ UNCHANGED <<timer, raw, todo, hung>> /\ Current' = Current
        /\ life' = [life EXCEPT ![t] = "fired"] /\ stage' = "body"
    BY <1>2, <2>0, <2>1 DEF Call, Current, hw
  <2>3. life'[t] = "fired" /\ \A u \in Tickers : u # t => life'[u] = life[u]
    BY <2>1, <2>2 DEF IInv, TypeOK
  <2>4. ~ Leftover(timer[t])'
    BY <2>1, <2>2 DEF Leftover, InHand
  <2>5. \A u \in Tickers : Leftover(timer[u])' => Leftover(timer[u])
    BY <2>1, <2>2 DEF Leftover, InHand
  <2>6. \A u \in Tickers : timer'[u] # NoChn /\ ~ hung' => life'[u] # "idle"
    BY <2>2, <2>3 DEF DueInv
  <2>7. \A u \in Tickers :
          timer'[u] # NoChn /\ ~ hung' /\ Leftover(timer[u])' => life'[u] \in {"due", "inherits"}
    BY <2>2, <2>3, <2>4, <2>5 DEF DueInv
  <2> QED BY <2>6, <2>7 DEF DueInv
<1>3. CASE Return
  <2>1. /\ UNCHANGED <<timer, raw, todo, hung, life>> /\ Current' = Current
        /\ stage = "body" /\ stage' = "post"
    BY <1>3 DEF Return, Current, hw
  <2> QED BY <2>1 DEF DueInv, Leftover, InHand
<1>4. CASE Acknowledge
  <2>1. Current \in Chns /\ raw \in [Chns -> BOOLEAN] /\ timer \in [Tickers -> Chns \cup {NoChn}]
    BY <1>4, CurrentIn DEF IInv, TypeOK, Acknowledge
  <2>2. /\ UNCHANGED <<timer, hung, life>> /\ stage' \in {"idle", "scan"}
        /\ raw' = [raw EXCEPT ![Current] = FALSE] /\ todo' = todo \ {Current}
    BY <1>4 DEF Acknowledge
  <2>3. ~ raw'[Current] /\ \A d \in Chns : d # Current => raw'[d] = raw[d]
    BY <2>1, <2>2
  <2>4. \A u \in Tickers : timer[u] # NoChn /\ Leftover(timer[u])' => Leftover(timer[u])
    <3> SUFFICES ASSUME NEW u \in Tickers, timer[u] # NoChn, Leftover(timer[u])'
                 PROVE  Leftover(timer[u])
      OBVIOUS
    <3>1. timer[u] \in Chns /\ (raw'[timer[u]] \/ timer[u] \in todo')
      BY <2>1, <2>2 DEF Leftover
    <3>2. timer[u] # Current
      BY <3>1, <2>2, <2>3
    <3> QED BY <3>1, <3>2, <2>2, <2>3 DEF Leftover, InHand
  <2> QED BY <2>2, <2>4 DEF DueInv
<1> QED BY <1>1, <1>2, <1>3, <1>4 DEF Interrupt

LEMMA StepDueInv ==
  ASSUME IInv, DueInv, [Next]_vars
  PROVE  DueInv'
<1>1. ASSUME NEW x \in Contexts, Configure(x) PROVE DueInv'
  <2>1. ASSUME NEW t \in Tickers, Detach(x, t) PROVE DueInv'
    BY <2>1, DetachDueInv DEF Detach
  <2>2. ASSUME NEW t \in Tickers, NEW mode \in Modes, NEW i \in Intervals, Schedule(x, t, mode, i)
        PROVE  DueInv'
    BY <2>2, DetachDueInv DEF Schedule
  <2>3. CASE Arm(x)
    BY <2>3, ArmDueInv
  <2>4. CASE ArmFails(x)
    <3>1. UNCHANGED <<timer, raw, todo, stage, hung, life>> /\ Current' = Current
      BY <2>4 DEF ArmFails, hw, handler, Current
    <3> QED BY <3>1 DEF DueInv, Leftover, InHand
  <2> QED BY <1>1, <2>1, <2>2, <2>3, <2>4 DEF Configure
<1>2. CASE Interrupt
  BY <1>2, InterruptDueInv
<1>3. CASE UNCHANGED vars
  <2>1. UNCHANGED <<timer, raw, todo, stage, hung, life>> /\ Current' = Current
    BY <1>3 DEF vars, Current
  <2> QED BY <2>1 DEF DueInv, Leftover, InHand
<1> QED BY <1>1, <1>2, <1>3, ExpireDueInv DEF Next

\* Whatever callbacks do, to their own ticker and to others, and whether or not
\* an expiry survives the disabling of its channel: a callback runs only for an
\* expiry of its own schedule, or, once, for one that its channel had left over
\* when it was taken.
THEOREM CallbacksAreDue == Spec => FiresWhenDue
<1>1. Init => DueInv
  BY DEF Init, DueInv
<1>2. IInv /\ DueInv /\ [Next]_vars => DueInv'
  BY StepDueInv
<1>3. IInv /\ DueInv /\ [Next]_vars =>
        [\A t \in Tickers : Fires(t) => life[t] \in {"due", "inherits"}]_vars
  <2> SUFFICES ASSUME IInv, DueInv, Next, NEW t \in Tickers, Fires(t)
               PROVE  life[t] \in {"due", "inherits"}
    BY DEF Fires, vars
  <2>1. Call
    <3>1. t # None /\ caller' = t /\ caller # t
      BY TickerAssumption DEF Fires
    <3> QED BY <3>1 DEF Next, Configure, Interrupt, Detach, Schedule, Arm,
                        ArmFails, Expire, Enter, Return, Acknowledge, handler
  <2>2. t = inst[Current].ctx /\ stage = "scan" /\ ~ hung
    BY <2>1 DEF Call, Fires
  <2>3. Current \in todo /\ Current \in Chns /\ timer[t] = Current
    BY <2>1, <2>2, CallOwner
  <2> QED BY <2>2, <2>3, ChannelFacts DEF DueInv, Leftover, InHand
<1> QED BY <1>1, <1>2, <1>3, Invariance, PTL DEF Spec, FiresWhenDue
===============================================================================
