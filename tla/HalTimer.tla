------------------------------- MODULE HalTimer -------------------------------
(***************************************************************************)
(* The hardware-timer channel table of cores/k210/k210-hal/                *)
(* k210-hal-timer.c, as operators on its two arrays:                       *)
(*                                                                         *)
(*   map[c]     timer_dev_chn_map[c].pin: the pin that owns channel c, or  *)
(*              Unused (-1);                                               *)
(*   held[i]    _pin_place_holder[i][1]: the i-th placeholder pin is in    *)
(*              use, standing for a channel that drives no pin.            *)
(*                                                                         *)
(* Channel c is channel c % 4 of device c \div 4.  A channel is taken      *)
(* either for a real pin (hal_timer_set_pin_func: tone) or for a           *)
(* placeholder pin (hal_timer_get_free_chn: Ticker).                       *)
(***************************************************************************)
EXTENDS Integers

CONSTANTS
  NumDev,       \* timer devices (3 in the chip), four channels each
  FirstToken    \* first placeholder pin (42)

ASSUME NumDevAssumption == NumDev \in Nat \ {0}
ASSUME FirstTokenAssumption == FirstToken \in Nat

NumChn == 4 * NumDev
Chns == 0 .. NumChn - 1
Unused == -1
NoChn == -1
Token(i) == FirstToken + i
Tokens == {Token(i) : i \in Chns}

\* The element a scan with increasing index meets first.
First(S) == CHOOSE c \in S : \A d \in S : c <= d

\* A channel already bound to the pin, else the first unused one, else NoChn.
get_free_timer_chn(map, pin) ==
  LET mine == {c \in Chns : map[c] = pin}
      free == {c \in Chns : map[c] = Unused}
  IN  CASE mine # {} -> First(mine)
        [] mine = {} /\ free # {} -> First(free)
        [] OTHER -> NoChn

\* hal_timer_get_free_chn: the first placeholder that is not held, and the
\* channel the scan finds for it.  Both must exist for the call to succeed.
FreeTokens(held) == {i \in Chns : ~ held[i]}
GetsChannel(map, held) ==
  /\ FreeTokens(held) # {}
  /\ get_free_timer_chn(map, Token(First(FreeTokens(held)))) # NoChn
GotChannel(map, held) == get_free_timer_chn(map, Token(First(FreeTokens(held))))

MapAfterGet(map, held) ==
  [map EXCEPT ![GotChannel(map, held)] = Token(First(FreeTokens(held)))]
HeldAfterGet(held) == [held EXCEPT ![First(FreeTokens(held))] = TRUE]

\* Seeded fault: the pin is read after the entry was cleared, so that no
\* placeholder matches.
HeldAfterRelease_late(map, held, c) == held

\* hal_timer_release_chn(&timer_dev_chn_map[c]): frees the first channel that
\* carries the pin of entry c, and the placeholder with that number.
MapAfterRelease(map, c) ==
  [map EXCEPT ![First({d \in Chns : map[d] = map[c]})] = Unused]
HeldAfterRelease(map, held, c) ==
  [i \in Chns |-> held[i] /\ Token(i) # map[c]]
===============================================================================
