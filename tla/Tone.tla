--------------------------------- MODULE Tone ---------------------------------
(***************************************************************************)
(* cores/k210/Tone.cpp: tone() and noTone() post messages to the tone      *)
(* task, which takes timer channels from the table of HalTimer without a   *)
(* lock and drives them as PWM.  Tickers take channels from the same table *)
(* with interrupts disabled, which on two cores is the lock of the kernel: *)
(* it keeps other tickers and the queue out, not the tone task, which runs *)
(* on the other core and may step anywhere between a ticker's scan of the  *)
(* table and its store, as the ticker may between its own.                 *)
(***************************************************************************)
EXTENDS HalTimer, Fpioa, Sequences, FiniteSets

CONSTANTS
  Pins,          \* pins the program plays tones on
  Tickers,       \* Ticker objects attached and detached meanwhile
  QueueLen,      \* messages the queue holds (12)
  MaxCalls,      \* bound on the number of tone()/noTone() calls
  None

\* The placeholder numbers are kept for tickers: the table has no other mark to
\* tell a pin from a placeholder.
ASSUME ToneAssumption ==
  /\ Pins \subseteq Nat \ Tokens
  /\ QueueLen \in Nat \ {0} /\ MaxCalls \in Nat

VARIABLES
  map, held,     \* the channel table, see HalTimer
  owner,         \* Ticker::_timer of every ticker, or NoChn
  ctl,           \* control register: "off", "timer" (a ticker's), "pwm"
  route,         \* FPIOA: the channel whose output the pin carries, or NoChn;
                 \* hal_fpioa_clr_pin_func forgets it but does not change it
  queue,         \* _tone_queue
  job,           \* the ticker inside its critical section, the channel its
                 \* scan found and the placeholder it stands for, or None
  pc,            \* the tone task: "recv", "find", "bind", "play", "stop",
                 \* "clear"; "stuck" in a configASSERT
  msg,           \* the message it treats
  chn,           \* the channel get_free_timer_chn found for it
  calls,         \* tone()/noTone() calls made so far
  wanted,        \* history: per pin, what the last call asked for that found
                 \* room in the queue
  contested      \* history: the channels that the tone task and a ticker
                 \* worked on at the same time

toneVars == <<map, held, owner, ctl, route, queue, job, pc, msg, chn, calls, wanted, contested>>

\* high: the frequency is above the timer's clock.
Messages == [cmd : {"start", "timed", "end"}, pin : Pins, high : BOOLEAN]
Jobs == [kind : {"take", "start", "release"}, ticker : Tickers, chn : Chns,
         pin : Tokens \cup Pins \cup {Unused}]
table == <<map, held>>
user == <<owner, job>>

\* The tone task has found its channel and is not done with it.
Treating == {"bind", "play", "stop", "clear", "stuck"}

ToneInit ==
  /\ map = [c \in Chns |-> Unused]
  /\ held = [i \in Chns |-> FALSE]
  /\ owner = [t \in Tickers |-> NoChn]
  /\ ctl = [c \in Chns |-> "off"]
  /\ route = [p \in Pins |-> NoChn]
  /\ queue = <<>>
  /\ job = None
  /\ pc = "recv"
  /\ msg = None
  /\ chn = NoChn
  /\ calls = 0
  /\ wanted = [p \in Pins |-> "silence"]
  /\ contested = {}

-------------------------------------------------------------------------------
(* The user's task.                                                        *)

\* rt_mq_send on a full queue fails, and the result is not looked at.
rt_mq_send(q, m) == IF Len(q) < QueueLen THEN Append(q, m) ELSE q

\* tone(pin, f) and tone(pin, f, duration).
tone(p, timed, high) ==
  /\ calls < MaxCalls /\ job = None
  /\ calls' = calls + 1
  /\ queue' = rt_mq_send(queue, [cmd |-> IF timed THEN "timed" ELSE "start",
                                 pin |-> p, high |-> high])
  /\ wanted' = IF queue' = queue THEN wanted
               ELSE [wanted EXCEPT ![p] = IF timed THEN "silence" ELSE "sound"]
  /\ UNCHANGED <<table, user, ctl, route, pc, msg, chn, contested>>

noTone(p) ==
  /\ calls < MaxCalls /\ job = None
  /\ calls' = calls + 1
  /\ queue' = rt_mq_send(queue, [cmd |-> "end", pin |-> p, high |-> FALSE])
  /\ wanted' = IF queue' = queue THEN wanted
               ELSE [wanted EXCEPT ![p] = "silence"]
  /\ UNCHANGED <<table, user, ctl, route, pc, msg, chn, contested>>

-------------------------------------------------------------------------------
(* Tickers: the critical sections of Ticker::schedule and Ticker::detach.  *)
(* Nobody but the ticker looks at _timer, which changes with the end of    *)
(* the one and the beginning of the other.                                 *)

\* A ticker begins to work on c.
Meets(c) == contested \cup {d \in {c} : pc \in Treating /\ chn = d}

\* schedule, hal_timer_get_free_chn: the scans of the two tables.
Attach(t) ==
  /\ job = None /\ owner[t] = NoChn
  /\ GetsChannel(map, held)
  /\ job' = [kind |-> "take", ticker |-> t, chn |-> GotChannel(map, held),
             pin |-> Token(First(FreeTokens(held)))]
  /\ contested' = Meets(job'.chn)
  /\ UNCHANGED <<table, owner, ctl, route, queue, pc, msg, chn, calls, wanted>>

\* hal_timer_get_free_chn: the stores.
Take ==
  /\ job # None /\ job.kind = "take"
  /\ map' = [map EXCEPT ![job.chn] = job.pin]
  /\ held' = [i \in Chns |-> held[i] \/ Token(i) = job.pin]
  /\ job' = [job EXCEPT !.kind = "start"]
  /\ UNCHANGED <<owner, ctl, route, queue, pc, msg, chn, calls, wanted, contested>>

\* timer_set_enable(1): the control register is overwritten.
Start ==
  /\ job # None /\ job.kind = "start"
  /\ owner' = [owner EXCEPT ![job.ticker] = job.chn]
  /\ ctl' = [ctl EXCEPT ![job.chn] = "timer"]
  /\ job' = None
  /\ UNCHANGED <<table, route, queue, pc, msg, chn, calls, wanted, contested>>

\* detach: timer_set_enable(0), and hal_timer_release_chn's scan for the first
\* channel that carries the pin found in the ticker's entry.
Detach(t) ==
  /\ job = None /\ owner[t] # NoChn
  /\ ctl' = [ctl EXCEPT ![owner[t]] = "off"]
  /\ owner' = [owner EXCEPT ![t] = NoChn]
  /\ job' = [kind |-> "release", ticker |-> t, pin |-> map[owner[t]],
             chn |-> First({d \in Chns : map[d] = map[owner[t]]})]
  /\ contested' = Meets(job'.chn)
  /\ UNCHANGED <<table, route, queue, pc, msg, chn, calls, wanted>>

\* hal_timer_release_chn: the stores.
Release ==
  /\ job # None /\ job.kind = "release"
  /\ map' = [map EXCEPT ![job.chn] = Unused]
  /\ held' = [i \in Chns |-> held[i] /\ Token(i) # job.pin]
  /\ job' = None
  /\ UNCHANGED <<owner, ctl, route, queue, pc, msg, chn, calls, wanted, contested>>

-------------------------------------------------------------------------------
(* The tone task.                                                          *)

Receive ==
  /\ pc = "recv" /\ queue # <<>>
  /\ msg' = Head(queue)
  /\ queue' = Tail(queue)
  /\ pc' = "find"
  /\ UNCHANGED <<table, user, ctl, route, chn, calls, wanted, contested>>

\* hal_timer_set_pin_func, first half: the scan of the table.
Find ==
  /\ pc = "find"
  /\ chn' = get_free_timer_chn(map, msg.pin)
  /\ pc' = IF chn' = NoChn THEN "recv" ELSE "bind"
  /\ contested' = contested \cup {c \in {chn'} : job # None /\ c = job.chn}
  /\ UNCHANGED <<table, user, ctl, route, queue, msg, calls, wanted>>

\* Seeded fault: the pin is not switched to the channel's output.
Bind_unrouted ==
  /\ pc = "bind"
  /\ map' = [map EXCEPT ![chn] = msg.pin]
  /\ pc' = IF msg.cmd = "end" THEN "stop" ELSE "play"
  /\ UNCHANGED <<held, user, ctl, route, queue, msg, chn, calls, wanted, contested>>

\* hal_timer_set_pin_func, second half: the channel it found is taken.
Bind ==
  /\ pc = "bind"
  /\ map' = [map EXCEPT ![chn] = msg.pin]
  /\ route' = fpioa_set_function(route, msg.pin, chn, NoChn)
  /\ pc' = IF msg.cmd = "end" THEN "stop" ELSE "play"
  /\ UNCHANGED <<held, user, ctl, queue, msg, chn, calls, wanted, contested>>

\* pwm_set_frequency, which loops in a configASSERT if the period is less than a
\* tick, and pwm_set_enable(1): the control register is overwritten.
Play ==
  /\ pc = "play"
  /\ ctl' = IF msg.high THEN ctl ELSE [ctl EXCEPT ![chn] = "pwm"]
  /\ pc' = CASE msg.high -> "stuck"
             [] ~ msg.high /\ msg.cmd = "timed" -> "stop"
             [] OTHER -> "recv"
  /\ UNCHANGED <<table, user, route, queue, msg, chn, calls, wanted, contested>>

\* Seeded fault: the channel is released but keeps running.
Stop_running ==
  /\ pc = "stop"
  /\ pc' = "clear"
  /\ UNCHANGED <<table, user, ctl, route, queue, msg, chn, calls, wanted, contested>>

\* After the delay, or for noTone at once: pwm_set_enable(0).
Stop ==
  /\ pc = "stop"
  /\ ctl' = [ctl EXCEPT ![chn] = "off"]
  /\ pc' = "clear"
  /\ UNCHANGED <<table, user, route, queue, msg, chn, calls, wanted, contested>>

\* Seeded fault: every entry is freed.
Clear_all ==
  /\ pc = "clear"
  /\ map' = [c \in Chns |-> Unused]
  /\ pc' = "recv"
  /\ UNCHANGED <<held, user, ctl, route, queue, msg, chn, calls, wanted, contested>>

\* hal_timer_clr_pin_func: every channel of the pin becomes free.
Clear ==
  /\ pc = "clear"
  /\ map' = [c \in Chns |-> IF map[c] = msg.pin THEN Unused ELSE map[c]]
  /\ pc' = "recv"
  /\ UNCHANGED <<held, user, ctl, route, queue, msg, chn, calls, wanted, contested>>

-------------------------------------------------------------------------------
ToneTask == Receive \/ Find \/ Bind \/ Play \/ Stop \/ Clear

UserTask ==
  \/ \E p \in Pins, timed, high \in BOOLEAN : tone(p, timed, high)
  \/ \E p \in Pins : noTone(p)
  \/ \E t \in Tickers : Attach(t) \/ Detach(t)
  \/ Take \/ Start \/ Release

ToneNext == ToneTask \/ UserTask

\* The tone task is ready while it has work and runs when the user's task
\* sleeps, which loop() makes it do after every call.
ToneSpec == ToneInit /\ [][ToneNext]_toneVars /\ WF_toneVars(ToneTask)

-------------------------------------------------------------------------------
(* Properties.                                                             *)

\* Type invariant.
ToneTypeOK ==
  /\ map \in [Chns -> Tokens \cup Pins \cup {Unused}]
  /\ held \in [Chns -> BOOLEAN]
  /\ owner \in [Tickers -> Chns \cup {NoChn}]
  /\ ctl \in [Chns -> {"off", "timer", "pwm"}]
  /\ route \in [Pins -> Chns \cup {NoChn}]
  /\ queue \in Seq(Messages) /\ Len(queue) <= QueueLen
  /\ job \in Jobs \cup {None}
  /\ pc \in {"recv", "find"} \cup Treating
  /\ msg \in Messages \cup {None}
  /\ chn \in Chns \cup {NoChn}
  /\ calls \in 0 .. MaxCalls
  /\ wanted \in [Pins -> {"sound", "silence"}]
  /\ contested \subseteq Chns

\* The state keeps its types.  A channel that sounds for a pin is heard on this
\* pin and no other, and between two messages a pin holds a channel only while it
\* sounds: no tone comes out of a pin that used the channel before, none is
\* inaudible, and silent pins never use up the twelve channels.  The exception is
\* in the code: neither side's scan of the table and store in it are one step for
\* the other, and a channel that the tone task and a ticker work on at the same
\* time may get the pin of the one and the control register of the other.
HolderSounds ==
  /\ ToneTypeOK
  /\ \A c \in Chns : map[c] \in Pins =>
       /\ ctl[c] = "pwm" => \A p \in Pins : route[p] = c <=> p = map[c]
       /\ pc = "recv" /\ c \notin contested => ctl[c] = "pwm"

\* The channel of an attached ticker stays its own timer: the control register
\* is the one schedule() wrote, so it counts and interrupts, whatever tones come
\* and go.  The exception is the same: a channel both worked on at one time.
TickerKeepsChannel ==
  \A t \in Tickers :
    owner[t] # NoChn /\ owner[t] \notin contested => ctl[owner[t]] = "timer"

\* "you must manually call noTone to end output": once the last call for a pin
\* that the queue accepted asks for silence, the pin falls and stays silent, unless
\* the task stopped in the configASSERT.  The exception is the same: a tone whose
\* channel a ticker took is not found again.
Sounds(p) == \E c \in Chns \ contested : ctl[c] = "pwm" /\ route[p] = c
LastCallWins ==
  \A p \in Pins : <>[](wanted[p] = "silence" /\ pc # "stuck") => <>[]~ Sounds(p)
===============================================================================
