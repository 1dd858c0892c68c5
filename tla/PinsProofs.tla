------------------------------ MODULE PinsProofs ------------------------------
(***************************************************************************)
(* Theorems about Pins, for any number of threads, pins and functions.     *)
(***************************************************************************)
EXTENDS Pins, FiniteSetTheorems, WellFoundedInduction, TLAPS

(* The entries carry every function once, and a bound pin that was never   *)
(* bound twice carries the function of its entry.                          *)
TableInv ==
  /\ \A i, j \in Index : table[i].func = table[j].func => i = j
  /\ \A i \in Index : table[i].pin \in Pins \ twice => io[table[i].pin] = table[i].func

\* No two pins carry one function.
MuxInv == \A p, q \in Pins : io[p] = io[q] /\ io[p] \in Funcs => p = q

(* A call of a thread knows its pin.  The thread that sorts has the lock,  *)
(* and a call that no other thread disturbed still has its entry, which    *)
(* after pinMode is the one the multiplexer was set to.                    *)
CallInv ==
  /\ \A t \in Threads : pc[t] = "sorting" =>
       lock = t /\ pin[t] \in Pins /\ (Bound(pin[t]) => pin[t] \in twice)
  /\ \A t \in Threads : pc[t] \in {"return", "apply"} =>
       pin[t] \in Pins /\ (t \in moved \/ lock = NoThread)
  /\ \A t \in Threads \ moved :
       /\ pc[t] = "return" => /\ table[idx[t]].pin = pin[t]
                              /\ op[t] = "mode" => io[pin[t]] = table[idx[t]].func
       /\ pc[t] = "apply" => /\ \E i \in Index : table[i].pin = pin[t] /\ table[i].func = func[t]
                             /\ op[t] = "mode" => io[pin[t]] = func[t]
       /\ pc[t] # "halt"

(* A registered handler whose pin has not lost its function is attached,   *)
(* and its pin still has the entry of the function.                        *)
IrqInv ==
  \A f \in Funcs : irq[f] \in Pins \ twice /\ handler[irq[f]] # "lost" =>
    /\ handler[irq[f]] = "attached"
    /\ \E i \in Index : table[i].pin = irq[f] /\ table[i].func = f

\* The pin used last, in a microsecond of its own, has the latest stamp.
LastInv ==
  last # NoPin => \E i \in Index : /\ table[i].pin = last
                                   /\ \A j \in Index \ {i} : table[j].time < table[i].time

IInv == TypeOK /\ TableInv /\ MuxInv /\ CallInv /\ IrqInv /\ LastInv

-------------------------------------------------------------------------------
(* Stamps.  Between the change of a stamp and the ranking it is a natural. *)
Stampable == [func : Funcs, pin : Pins \cup {NoPin}, time : Nat]

LEMMA Numbers == NumFuncs \in Nat /\ NumFuncs > 0 /\ 1 \in Index /\ Index \subseteq Nat /\ Funcs = Index
  BY PinsAssumption DEF Index, Funcs

LEMMA LeastOf ==
  ASSUME NEW S, S \subseteq Nat, S # {}
  PROVE  \E x \in S : \A y \in S : x <= y
<1>1. PICK x \in S : \A y \in S : ~ (<<y, x>> \in OpToRel(<, Nat))
  BY NatLessThanWellFounded, WFMin, Zenon
<1>2. \A y \in S : y < x => <<y, x>> \in OpToRel(<, Nat)
  BY DEF OpToRel
<1>3. \A y \in S : ~ (y < x)
  BY <1>1, <1>2, Zenon
<1> QED BY <1>3

LEMMA GreatestOf ==
  ASSUME NEW S, S \subseteq Nat, S # {}, NEW n \in Nat, \A x \in S : x <= n
  PROVE  \E x \in S : \A y \in S : y <= x
<1> DEFINE T == {n - x : x \in S}
<1>1. T \subseteq Nat /\ T # {}
  <2>1. \A x \in S : n - x \in Nat
    OBVIOUS
  <2>2. PICK x : x \in S
    OBVIOUS
  <2>3. n - x \in T
    BY <2>2
  <2> QED BY <2>1, <2>3
<1>2. PICK z \in T : \A y \in T : z <= y
  <2> HIDE DEF T
  <2> QED BY <1>1, LeastOf
<1>3. PICK x \in S : z = n - x
  BY <1>2
<1>4. \A y \in S : n - x <= n - y
  BY <1>2, <1>3
<1> QED BY <1>4

\* FirstOf: the first entry of a bound pin.
LEMMA FirstIs ==
  ASSUME NEW p, Bound(p)
  PROVE  FirstOf(p) \in Index /\ table[FirstOf(p)].pin = p
<1> DEFINE S == {i \in Index : table[i].pin = p}
<1>1. S \subseteq Nat /\ S # {}
  BY Numbers DEF Bound
<1>2. \E i \in S : \A j \in S : i <= j
  <2> HIDE DEF S
  <2> QED BY <1>1, LeastOf
<1>3. \E i \in Index : table[i].pin = p /\ \A j \in Index : table[j].pin = p => i <= j
  BY <1>2
<1> QED BY <1>3 DEF FirstOf

LEMMA StampsFinite ==
  ASSUME NEW tab
  PROVE  IsFiniteSet(Stamps(tab)) /\ Cardinality(Stamps(tab)) <= NumFuncs
         /\ Cardinality(Stamps(tab)) \in Nat
<1> DEFINE f == [i \in Index |-> tab[i].time]
<1>1. f \in Surjection(Index, Stamps(tab))
  BY DEF Surjection, Stamps
<1>2. IsFiniteSet(Index) /\ Cardinality(Index) = NumFuncs
  BY FS_Interval, Numbers DEF Index
<1>3. IsFiniteSet(Stamps(tab)) /\ Cardinality(Stamps(tab)) <= Cardinality(Index)
  <2> HIDE DEF f
  <2> QED BY <1>1, <1>2, FS_Surjection
<1> QED BY <1>2, <1>3, FS_CardinalityType

\* Ranks keep the entries and the order of the stamps.
Rank(tab, x) == Cardinality({s \in Stamps(tab) : 0 < s /\ s <= x})

LEMMA RankIs ==
  ASSUME NEW tab, NEW x
  PROVE  Rank(tab, x) \in 0 .. NumFuncs
<1> DEFINE R == {s \in Stamps(tab) : 0 < s /\ s <= x}
<1>1. R \in SUBSET Stamps(tab)
  OBVIOUS
<1>2. IsFiniteSet(R) /\ Cardinality(R) <= Cardinality(Stamps(tab))
  BY <1>1, StampsFinite, FS_Subset
<1>3. Cardinality(R) \in Nat
  BY <1>2, FS_CardinalityType
<1>4. Cardinality(R) \in 0 .. NumFuncs
  <2> HIDE DEF R
  <2> QED BY <1>2, <1>3, StampsFinite, Numbers
<1> QED BY <1>4 DEF Rank

LEMMA RankRises ==
  ASSUME NEW tab \in [Index -> Stampable], NEW i \in Index, NEW j \in Index, tab[j].time < tab[i].time
  PROVE  Rank(tab, tab[j].time) < Rank(tab, tab[i].time)
<1> DEFINE A == {s \in Stamps(tab) : 0 < s /\ s <= tab[j].time}
           B == {s \in Stamps(tab) : 0 < s /\ s <= tab[i].time}
<1>1. Stamps(tab) \subseteq Nat /\ tab[i].time \in Stamps(tab) /\ tab[i].time \in Nat /\ tab[j].time \in Nat
  BY DEF Stamps, Stampable
<1>2. A \in SUBSET B /\ tab[i].time \in B /\ tab[i].time \notin A
  BY <1>1
<1>3. IsFiniteSet(B)
  BY StampsFinite, FS_Subset
<1>4. A # B
  BY <1>2
<1>5. IsFiniteSet(A) /\ Cardinality(A) <= Cardinality(B) /\ Cardinality(B) # Cardinality(A)
  <2> HIDE DEF A, B
  <2> QED BY <1>2, <1>3, <1>4, FS_Subset
<1>6. Cardinality(A) \in Nat /\ Cardinality(B) \in Nat
  <2> HIDE DEF A, B
  <2> QED BY <1>3, <1>5, FS_CardinalityType
<1>7. Cardinality(A) < Cardinality(B)
  <2> HIDE DEF A, B
  <2> QED BY <1>5, <1>6
<1> QED BY <1>7 DEF Rank

LEMMA RankedIs ==
  ASSUME NEW tab \in [Index -> Stampable]
  PROVE  /\ Ranked(tab) \in [Index -> Entries]
         /\ \A i \in Index : Ranked(tab)[i].func = tab[i].func /\ Ranked(tab)[i].pin = tab[i].pin
         /\ \A i, j \in Index : tab[j].time < tab[i].time => Ranked(tab)[j].time < Ranked(tab)[i].time
<1>1. Ranked(tab) = [i \in Index |-> [tab[i] EXCEPT !.time = Rank(tab, tab[i].time)]]
  BY DEF Ranked, Rank
<1>2. \A i \in Index : /\ Ranked(tab)[i].time = Rank(tab, tab[i].time)
                       /\ Ranked(tab)[i].func = tab[i].func /\ Ranked(tab)[i].pin = tab[i].pin
                       /\ Ranked(tab)[i] = [tab[i] EXCEPT !.time = Rank(tab, tab[i].time)]
  BY <1>1 DEF Stampable
<1>3. \A i \in Index : Rank(tab, tab[i].time) \in 0 .. NumFuncs
  BY RankIs
<1>4. \A i \in Index : Ranked(tab)[i] \in Entries
  BY <1>2, <1>3 DEF Stampable, Entries
<1>5. Ranked(tab) \in [Index -> Entries]
  BY <1>1, <1>4
<1> QED BY <1>2, <1>5, RankRises

LEMMA LatestIs ==
  ASSUME NEW tab \in [Index -> Entries]
  PROVE  Latest(tab) \in Nat /\ \A i \in Index : tab[i].time <= Latest(tab)
<1>1. Stamps(tab) \subseteq Nat /\ Stamps(tab) # {} /\ \A x \in Stamps(tab) : x <= NumFuncs
  BY Numbers DEF Stamps, Entries
<1>2. \E m \in Stamps(tab) : \A s \in Stamps(tab) : s <= m
  BY <1>1, Numbers, GreatestOf
<1>3. Latest(tab) \in Stamps(tab) /\ \A s \in Stamps(tab) : s <= Latest(tab)
  BY <1>2 DEF Latest
<1> QED BY <1>1, <1>3 DEF Stamps

\* What a stamp changes, and that one of a new microsecond is the latest.
LEMMA StampedIs ==
  ASSUME NEW tab \in [Index -> Entries], NEW i \in Index, NEW tick \in BOOLEAN
  PROVE  /\ Stamped(tab, i, tick) \in [Index -> Entries]
         /\ \A j \in Index : /\ Stamped(tab, i, tick)[j].func = tab[j].func
                             /\ Stamped(tab, i, tick)[j].pin = tab[j].pin
         /\ tick => \A j \in Index \ {i} : Stamped(tab, i, tick)[j].time < Stamped(tab, i, tick)[i].time
<1> DEFINE m == IF tick \/ Latest(tab) = 0 THEN Latest(tab) + 1 ELSE Latest(tab)
           raw == [tab EXCEPT ![i].time = m]
<1>1. m \in Nat
  BY LatestIs
<1>2. tick => \A j \in Index : tab[j].time < m
  BY LatestIs DEF Entries
<1>3. Stamped(tab, i, tick) = Ranked(raw)
  BY DEF Stamped
<1> HIDE DEF m
<1>4. /\ raw \in [Index -> Stampable]
      /\ \A j \in Index : raw[j].func = tab[j].func /\ raw[j].pin = tab[j].pin
      /\ \A j \in Index : raw[j].time = IF j = i THEN m ELSE tab[j].time
  BY <1>1 DEF Entries, Stampable
<1>5. tick => \A j \in Index \ {i} : raw[j].time < raw[i].time
  BY <1>2, <1>4
<1> HIDE DEF raw
<1> QED BY <1>3, <1>4, <1>5, RankedIs

Permutes(g) == /\ g \in [Index -> Index]
               /\ \A i, j \in Index : g[i] = g[j] => i = j
               /\ \A k \in Index : \E i \in Index : g[i] = k

\* Every entry is somewhere after the sort, and the first has the least stamp.
LEMMA SortedIs ==
  ASSUME NEW tab \in [Index -> Entries], NEW s \in Sorted(tab)
  PROVE  /\ s \in [Index -> Entries]
         /\ \E g : Permutes(g) /\ \A i \in Index : s[i] = tab[g[i]]
         /\ \A i \in Index : i # 1 => s[1].time <= s[i].time
<1>1. PICK g \in [Index -> Index] : /\ \A i, j \in Index : g[i] = g[j] => i = j
                                    /\ s = [i \in Index |-> tab[g[i]]]
  BY DEF Sorted
<1>2. \A i, j \in Index : i < j => s[i].time <= s[j].time
  BY DEF Sorted
<1>3. g \in Injection(Index, Index)
  BY <1>1 DEF Injection, IsInjective
<1>4. IsFiniteSet(Index)
  BY FS_Interval, Numbers DEF Index
<1>5. g \in Surjection(Index, Index)
  BY <1>3, <1>4, FS_Injection
<1>6. \A k \in Index : \E i \in Index : g[i] = k
  BY <1>5 DEF Surjection
<1>7. \A i \in Index : i # 1 => 1 < i
  BY Numbers DEF Index
<1>8. Permutes(g) /\ \A i \in Index : s[i] = tab[g[i]]
  BY <1>1, <1>6 DEF Permutes
<1> QED BY <1>1, <1>2, <1>7, <1>8, Numbers

-------------------------------------------------------------------------------
(* What the calls do to the table, the multiplexer and the handlers.       *)
SameEntries == \A i \in Index : table'[i].func = table[i].func /\ table'[i].pin = table[i].pin

LEMMA LookupIs ==
  ASSUME TypeOK, NEW t \in Threads, NEW p \in Pins, NEW o, NEW tick \in BOOLEAN,
         hal_gpiohs_get_pin_func(t, p, o, tick)
  PROVE  /\ FirstOf(p) \in Index /\ table[FirstOf(p)].pin = p
         /\ table' \in [Index -> Entries] /\ SameEntries
         /\ tick => \A j \in Index \ {FirstOf(p)} : table'[j].time < table'[FirstOf(p)].time
<1>1. Bound(p) /\ table' = Stamped(table, FirstOf(p), tick)
  BY DEF hal_gpiohs_get_pin_func
<1>2. FirstOf(p) \in Index /\ table[FirstOf(p)].pin = p
  BY <1>1, FirstIs
<1> QED BY <1>1, <1>2, StampedIs DEF SameEntries, TypeOK

LEMMA ClearedEntry ==
  ASSUME NEW e \in Stampable
  PROVE  /\ [e EXCEPT !.pin = NoPin, !.time = 0] \in Stampable
         /\ [e EXCEPT !.pin = NoPin, !.time = 0].func = e.func
         /\ [e EXCEPT !.pin = NoPin, !.time = 0].pin = NoPin
<1>1. [e EXCEPT !.pin = NoPin, !.time = 0] \in Stampable
  BY DEF Stampable
<1>2. [e EXCEPT !.pin = NoPin, !.time = 0].func = e.func
  BY DEF Stampable
<1>3. [e EXCEPT !.pin = NoPin, !.time = 0].pin = NoPin
  BY DEF Stampable
<1> QED BY <1>1, <1>2, <1>3

LEMMA ClearIs ==
  ASSUME TypeOK, NEW t \in Threads, NEW p \in Pins, pinModeClear(t, p)
  PROVE  /\ FirstOf(p) \in Index /\ table[FirstOf(p)].pin = p
         /\ table' \in [Index -> Entries]
         /\ \A i \in Index : /\ table'[i].func = table[i].func
                             /\ table'[i].pin = IF i = FirstOf(p) THEN NoPin ELSE table[i].pin
<1>1. FirstOf(p) \in Index /\ table[FirstOf(p)].pin = p
  BY FirstIs DEF pinModeClear
<1> DEFINE k == FirstOf(p)
           raw == [table EXCEPT ![k].pin = NoPin, ![k].time = 0]
<1>2. table' = Ranked(raw)
  BY DEF pinModeClear
<1>3. k \in Index
  BY <1>1
<1> HIDE DEF k
<1>4. /\ raw \in [Index -> Stampable]
      /\ \A i \in Index : raw[i].func = table[i].func /\ raw[i].pin = IF i = k THEN NoPin ELSE table[i].pin
  <2>1. \A i \in Index : raw[i] = IF i = k THEN [table[i] EXCEPT !.pin = NoPin, !.time = 0] ELSE table[i]
    BY <1>3 DEF TypeOK
  <2>2. \A i \in Index : table[i] \in Stampable
    BY Numbers DEF TypeOK, Entries, Stampable
  <2>3. \A i \in Index : /\ raw[i] \in Stampable /\ raw[i].func = table[i].func
                         /\ raw[i].pin = IF i = k THEN NoPin ELSE table[i].pin
    <3> HIDE DEF raw
    <3> TAKE i \in Index
    <3>1. CASE i = k
      BY <2>1, <2>2, <3>1, ClearedEntry
    <3>2. CASE i # k
      BY <2>1, <2>2, <3>2
    <3> QED BY <3>1, <3>2
  <2> QED BY <2>3, <1>3 DEF TypeOK
<1> HIDE DEF raw
<1>5. /\ table' \in [Index -> Entries]
      /\ \A i \in Index : /\ table'[i].func = table[i].func
                          /\ table'[i].pin = IF i = k THEN NoPin ELSE table[i].pin
  BY <1>2, <1>4, RankedIs
<1> QED BY <1>1, <1>5 DEF k

(* bind gives the entry that the sort has put first, g[1], to the pin.     *)
Rebinds(g, t) ==
  /\ \A i \in Index : /\ table'[i].func = table[g[i]].func
                      /\ table'[i].pin = IF i = 1 THEN pin[t] ELSE table[g[i]].pin
  /\ \A i \in Index : i # 1 => table[g[1]].time <= table[g[i]].time
  /\ io' = fpioa_set_function(io, pin[t], table[g[1]].func, Resv0)
  /\ handler' = Loses(table[g[1]].pin)

LEMMA BindIs ==
  ASSUME TypeOK, CallInv, NEW t \in Threads, NEW tick \in BOOLEAN, bind(t, tick)
  PROVE  /\ pin[t] \in Pins /\ lock = t
         /\ table' \in [Index -> Entries]
         /\ tick => \A j \in Index \ {1} : table'[j].time < table'[1].time
         /\ \E g : Permutes(g) /\ Rebinds(g, t)
<1>1. pin[t] \in Pins /\ lock = t
  BY DEF bind, CallInv
<1>2. PICK s \in Sorted(table) :
        /\ table' = Stamped([s EXCEPT ![1].pin = pin[t]], 1, tick)
        /\ io' = fpioa_set_function(io, pin[t], s[1].func, Resv0)
        /\ handler' = Loses(s[1].pin)
  BY DEF bind
<1>3. table \in [Index -> Entries] /\ 1 \in Index
  BY Numbers DEF TypeOK
<1>4. s \in [Index -> Entries] /\ \A i \in Index : i # 1 => s[1].time <= s[i].time
  BY <1>3, SortedIs
<1>5. PICK g : Permutes(g) /\ \A i \in Index : s[i] = table[g[i]]
  BY <1>3, SortedIs
<1> DEFINE raw == [s EXCEPT ![1].pin = pin[t]]
<1>6. /\ raw \in [Index -> Entries]
      /\ \A i \in Index : raw[i].func = s[i].func /\ raw[i].pin = IF i = 1 THEN pin[t] ELSE s[i].pin
  <2>1. \A i \in Index : raw[i] = IF i = 1 THEN [s[i] EXCEPT !.pin = pin[t]] ELSE s[i]
    BY <1>3, <1>4
  <2>2. \A i \in Index : s[i] \in Entries
    BY <1>4
  <2>3. \A i \in Index : /\ raw[i] \in Entries /\ raw[i].func = s[i].func
                         /\ raw[i].pin = IF i = 1 THEN pin[t] ELSE s[i].pin
    <3> HIDE DEF raw
    <3> QED BY <2>1, <2>2, <1>1 DEF Entries
  <2> QED BY <2>3, <1>4
<1>7. table' = Stamped(raw, 1, tick)
  BY <1>2
<1> HIDE DEF raw
<1>8. /\ table' \in [Index -> Entries]
      /\ \A i \in Index : table'[i].func = raw[i].func /\ table'[i].pin = raw[i].pin
      /\ tick => \A j \in Index \ {1} : table'[j].time < table'[1].time
  BY <1>3, <1>6, <1>7, StampedIs
<1>9. Rebinds(g, t)
  BY <1>2, <1>3, <1>4, <1>5, <1>6, <1>8 DEF Rebinds
<1> QED BY <1>1, <1>5, <1>8, <1>9

\* fpioa_set_function, where one function drives at most one pin.
LEMMA MuxIs ==
  ASSUME NEW m \in [Pins -> Funcs \cup {Resv0}], NEW p \in Pins, NEW f \in Funcs
  PROVE  /\ fpioa_set_function(m, p, f, Resv0) \in [Pins -> Funcs \cup {Resv0}]
         /\ fpioa_set_function(m, p, f, Resv0)[p] = f
         /\ \A q \in Pins : q # p => fpioa_set_function(m, p, f, Resv0)[q] = IF m[q] = f THEN Resv0 ELSE m[q]
         /\ Resv0 \notin Funcs
<1>1. fpioa_set_function(m, p, f, Resv0)
        = [q \in Pins |-> IF q = p THEN f ELSE IF m[q] = f THEN Resv0 ELSE m[q]]
  BY DEF fpioa_set_function
<1> QED BY <1>1, PinsAssumption DEF Funcs

LEMMA LosesIs ==
  ASSUME TypeOK, NEW q
  PROVE  /\ Loses(q) \in [Pins -> {"none", "attached", "lost"}]
         /\ \A p \in Pins : Loses(q)[p] = IF p = q /\ handler[p] = "attached" THEN "lost" ELSE handler[p]
  BY DEF Loses, TypeOK

LEMMA AttachedIs ==
  ASSUME TypeOK, NEW t \in Threads, pin[t] \in Pins
  PROVE  /\ Attached(t) \in [Pins -> {"none", "attached", "lost"}]
         /\ \A p \in Pins : p # pin[t] => Attached(t)[p] = handler[p]
         /\ handler[pin[t]] = "lost" => Attached(t)[pin[t]] = "lost"
         /\ op[t] \in {"attach", "detach"} /\ t \in moved => Attached(t)[pin[t]] = "lost"
         /\ op[t] = "attach" /\ t \notin moved => Attached(t)[pin[t]] \in {"attached", "lost"}
         /\ op[t] \notin {"attach", "detach"} => Attached(t)[pin[t]] = handler[pin[t]]
  BY DEF Attached, TypeOK

-------------------------------------------------------------------------------
(* Types.                                                                  *)
LEMMA TypesStep == IInv /\ [Next]_vars => TypeOK'
<1> SUFFICES ASSUME IInv, [Next]_vars PROVE TypeOK'
  OBVIOUS
<1>i. TypeOK /\ CallInv
  BY DEF IInv
<1>1. ASSUME NEW t \in Threads, NEW p \in Pins, pinMode(t, p) PROVE TypeOK'
  BY <1>1, <1>i DEF pinMode, Moves, TypeOK, Ops
<1>2. ASSUME NEW t \in Threads, NEW p \in Pins, pinModeClear(t, p) PROVE TypeOK'
  <2>1. table' \in [Index -> Entries] /\ handler' \in [Pins -> {"none", "attached", "lost"}]
    BY <1>2, <1>i, ClearIs, LosesIs DEF pinModeClear
  <2> QED BY <1>2, <1>i, <2>1 DEF pinModeClear, Moves, TypeOK
<1>3. ASSUME NEW t \in Threads, NEW tick \in BOOLEAN, bind(t, tick) PROVE TypeOK'
  <2>1. PICK g : Permutes(g) /\ Rebinds(g, t)
    BY <1>3, <1>i, BindIs
  <2>2. pin[t] \in Pins /\ table' \in [Index -> Entries] /\ 1 \in Index
    BY <1>3, <1>i, BindIs, Numbers
  <2>3. table[g[1]].func \in Funcs
    BY <2>1, <2>2, <1>i DEF Permutes, TypeOK, Entries
  <2>4. io' \in [Pins -> Funcs \cup {Resv0}]
    BY <2>1, <2>2, <2>3, <1>i, MuxIs DEF Rebinds, TypeOK
  <2>5. handler' \in [Pins -> {"none", "attached", "lost"}]
    BY <2>1, <1>i, LosesIs DEF Rebinds
  <2>6. last' \in Pins \cup {NoPin}
    BY <1>3, <2>2 DEF bind, Uses
  <2> QED BY <1>3, <1>i, <2>2, <2>4, <2>5, <2>6 DEF bind, Moves, TypeOK
<1>4. ASSUME NEW t \in Threads, NEW p \in Pins, NEW o \in Ops \ {"mode"}, NEW tick \in BOOLEAN,
             hal_gpiohs_get_pin_func(t, p, o, tick)
      PROVE  TypeOK'
  <2>1. FirstOf(p) \in Index /\ table' \in [Index -> Entries]
    BY <1>4, <1>i, LookupIs
  <2> QED BY <1>4, <1>i, <2>1 DEF hal_gpiohs_get_pin_func, Uses, TypeOK
<1>5. ASSUME NEW t \in Threads, return(t) PROVE TypeOK'
  BY <1>5, <1>i, Numbers DEF return, TypeOK
<1>6. ASSUME NEW t \in Threads, apply(t) PROVE TypeOK'
  <2>1. pin[t] \in Pins /\ func[t] \in Funcs /\ 1 \in Index /\ 1 \in Funcs
    BY <1>6, <1>i, Numbers DEF apply, CallInv, TypeOK
  <2>2. handler' \in [Pins -> {"none", "attached", "lost"}]
    BY <1>6, <1>i, <2>1, AttachedIs DEF apply
  <2>3. irq' \in [Funcs -> Pins \cup {NoPin}]
    <3>1. irq \in [Funcs -> Pins \cup {NoPin}]
      BY <1>i DEF TypeOK
    <3>2. irq' \in {irq, [irq EXCEPT ![func[t]] = pin[t]], [irq EXCEPT ![func[t]] = NoPin]}
      BY <1>6 DEF apply
    <3> QED BY <2>1, <3>1, <3>2
  <2>4. /\ pc' \in [Threads -> {"idle", "sorting", "return", "apply", "halt"}]
        /\ op' \in [Threads -> Ops] /\ pin' \in [Threads -> Pins \cup {NoPin}]
        /\ idx' \in [Threads -> Index] /\ func' \in [Threads -> Funcs] /\ moved' \subseteq Threads
    BY <1>6, <1>i, <2>1 DEF apply, Returns, TypeOK, Ops
  <2> QED BY <1>6, <1>i, <2>2, <2>3, <2>4 DEF apply, TypeOK
<1>7. CASE UNCHANGED vars
  BY <1>7, <1>i DEF vars, TypeOK
<1> QED BY <1>1, <1>2, <1>3, <1>4, <1>5, <1>6, <1>7 DEF Next

-------------------------------------------------------------------------------
(* The table and the multiplexer.  The entry that a bind takes away is the *)
(* only one of its function, and the pin was not bound before unless the   *)
(* call has put it into twice.                                             *)
LEMMA TableStep == IInv /\ [Next]_vars => TableInv' /\ MuxInv'
<1> SUFFICES ASSUME IInv, [Next]_vars PROVE TableInv' /\ MuxInv'
  OBVIOUS
<1>i. TypeOK /\ CallInv /\ TableInv /\ MuxInv
  BY DEF IInv
<1>1. ASSUME NEW t \in Threads, NEW p \in Pins, pinMode(t, p) PROVE TableInv' /\ MuxInv'
  BY <1>1, <1>i DEF pinMode, TableInv, MuxInv
<1>2. ASSUME NEW t \in Threads, NEW p \in Pins, pinModeClear(t, p) PROVE TableInv' /\ MuxInv'
  <2>1. \A i \in Index : /\ table'[i].func = table[i].func
                         /\ table'[i].pin \in {NoPin, table[i].pin}
    BY <1>2, <1>i, ClearIs
  <2>2. UNCHANGED <<io, twice>>
    BY <1>2 DEF pinModeClear
  <2> QED BY <2>1, <2>2, <1>i, PinsAssumption DEF TableInv, MuxInv
<1>3. ASSUME NEW t \in Threads, NEW tick \in BOOLEAN, bind(t, tick) PROVE TableInv' /\ MuxInv'
  <2>1. PICK g : Permutes(g) /\ Rebinds(g, t)
    BY <1>3, <1>i, BindIs
  <2>2. pin[t] \in Pins /\ 1 \in Index /\ g[1] \in Index /\ table[g[1]].func \in Funcs
    BY <1>3, <1>i, <2>1, BindIs, Numbers DEF Permutes, TypeOK, Entries
  <2>3. /\ io \in [Pins -> Funcs \cup {Resv0}]
        /\ io'[pin[t]] = table[g[1]].func
        /\ \A q \in Pins : q # pin[t] => io'[q] = IF io[q] = table[g[1]].func THEN Resv0 ELSE io[q]
        /\ Resv0 \notin Funcs
    BY <2>1, <2>2, <1>i, MuxIs DEF Rebinds, TypeOK
  <2>4. twice' = twice /\ (Bound(pin[t]) => pin[t] \in twice)
    BY <1>3, <1>i DEF bind, CallInv
  <2>5. \A i, j \in Index : table'[i].func = table'[j].func => i = j
    BY <2>1, <1>i DEF Permutes, Rebinds, TableInv
  <2>6. ASSUME NEW i \in Index, table'[i].pin \in Pins \ twice
        PROVE  io'[table'[i].pin] = table'[i].func
    <3>1. CASE i = 1
      BY <2>1, <2>3, <3>1 DEF Rebinds
    <3>2. CASE i # 1
      <4>1. table'[i].pin = table[g[i]].pin /\ table'[i].func = table[g[i]].func /\ g[i] \in Index /\ g[i] # g[1]
        BY <2>1, <2>2, <3>2 DEF Rebinds, Permutes
      <4>2. table[g[i]].pin # pin[t]
        BY <2>4, <2>6, <4>1 DEF Bound
      <4>3. io[table[g[i]].pin] = table[g[i]].func /\ table[g[i]].func # table[g[1]].func
        BY <1>i, <2>2, <2>6, <4>1 DEF TableInv
      <4> QED BY <2>3, <2>6, <4>1, <4>2, <4>3
    <3> QED BY <3>1, <3>2
  <2>7. TableInv'
    BY <2>4, <2>5, <2>6 DEF TableInv
  <2>8. MuxInv'
    BY <2>2, <2>3, <1>i DEF MuxInv
  <2> QED BY <2>7, <2>8
<1>4. ASSUME NEW t \in Threads, NEW p \in Pins, NEW o \in Ops \ {"mode"}, NEW tick \in BOOLEAN,
             hal_gpiohs_get_pin_func(t, p, o, tick)
      PROVE  TableInv' /\ MuxInv'
  <2>1. SameEntries /\ UNCHANGED <<io, twice>>
    BY <1>4, <1>i, LookupIs DEF hal_gpiohs_get_pin_func
  <2> QED BY <2>1, <1>i DEF SameEntries, TableInv, MuxInv
<1>5. ASSUME NEW t \in Threads, return(t) PROVE TableInv' /\ MuxInv'
  BY <1>5, <1>i DEF return, TableInv, MuxInv
<1>6. ASSUME NEW t \in Threads, apply(t) PROVE TableInv' /\ MuxInv'
  BY <1>6, <1>i DEF apply, TableInv, MuxInv
<1>7. CASE UNCHANGED vars
  BY <1>7, <1>i DEF vars, TableInv, MuxInv
<1> QED BY <1>1, <1>2, <1>3, <1>4, <1>5, <1>6, <1>7 DEF Next

(* The calls.  Only the thread that holds the lock sorts, and whoever      *)
(* changes the entries puts the other calls that are under way into moved. *)
LEMMA CallStep == IInv /\ [Next]_vars => CallInv'
<1> SUFFICES ASSUME IInv, [Next]_vars PROVE CallInv'
  OBVIOUS
<1>i. TypeOK /\ CallInv
  BY DEF IInv
<1>f. /\ pc \in [Threads -> {"idle", "sorting", "return", "apply", "halt"}]
      /\ pin \in [Threads -> Pins \cup {NoPin}] /\ op \in [Threads -> Ops]
      /\ idx \in [Threads -> Index] /\ func \in [Threads -> Funcs] /\ NoThread \notin Threads
  BY <1>i, PinsAssumption DEF TypeOK
<1>s. ASSUME lock = NoThread PROVE \A u \in Threads : pc[u] # "sorting"
  BY <1>s, <1>i, <1>f DEF CallInv
<1>1. ASSUME NEW t \in Threads, NEW p \in Pins, pinMode(t, p) PROVE CallInv'
  <2>1. /\ lock' = t /\ pc'[t] = "sorting" /\ pin'[t] = p /\ pc[t] = "idle"
        /\ \A u \in Threads : u # t => pc'[u] = pc[u] /\ pin'[u] = pin[u] /\ pc[u] # "sorting"
    BY <1>1, <1>f, <1>s DEF pinMode
  <2>2. Bound(p)' => p \in twice'
    BY <1>1 DEF pinMode, Bound
  <2>3. \A u \in Threads : u # t /\ pc[u] \in {"return", "apply"} => u \in moved'
    BY <1>1 DEF pinMode, Moves
  <2>4. \A u \in Threads : u \notin moved' => u \notin moved
    BY <1>1 DEF pinMode, Moves
  <2> QED BY <2>1, <2>2, <2>3, <2>4, <1>i DEF CallInv, Bound
<1>2. ASSUME NEW t \in Threads, NEW p \in Pins, pinModeClear(t, p) PROVE CallInv'
  <2>1. /\ lock' = NoThread /\ lock = NoThread /\ UNCHANGED <<pc, pin>> /\ pc[t] = "idle"
        /\ \A u \in Threads : pc[u] # "sorting"
    BY <1>2, <1>s DEF pinModeClear
  <2>2. \A u \in Threads : u # t /\ pc[u] \in {"return", "apply"} => u \in moved'
    BY <1>2 DEF pinModeClear, Moves
  <2>3. \A u \in Threads : u \notin moved' => u \notin moved
    BY <1>2 DEF pinModeClear, Moves
  <2> QED BY <2>1, <2>2, <2>3, <1>i DEF CallInv
<1>3. ASSUME NEW t \in Threads, NEW tick \in BOOLEAN, bind(t, tick) PROVE CallInv'
  <2>1. PICK g : Permutes(g) /\ Rebinds(g, t)
    BY <1>3, <1>i, BindIs
  <2>2. pin[t] \in Pins /\ lock = t /\ 1 \in Index /\ g[1] \in Index /\ table[g[1]].func \in Funcs
    BY <1>3, <1>i, <2>1, BindIs, Numbers DEF Permutes, TypeOK, Entries
  <2>3. io'[pin[t]] = table[g[1]].func
    BY <2>1, <2>2, <1>i, MuxIs DEF Rebinds, TypeOK
  <2>4. table'[1].pin = pin[t] /\ table'[1].func = table[g[1]].func
    BY <2>1, <2>2 DEF Rebinds
  <2>5. /\ lock' = NoThread /\ pc'[t] = "return" /\ idx'[t] = 1 /\ UNCHANGED <<pin, op>>
        /\ \A u \in Threads : u # t => pc'[u] = pc[u]
    BY <1>3, <1>f DEF bind
  <2>6. \A u \in Threads : u # t => pc[u] # "sorting"
    BY <2>2, <1>i DEF CallInv
  <2>7. \A u \in Threads : u # t /\ pc[u] \in {"return", "apply"} => u \in moved'
    BY <1>3 DEF bind, Moves
  <2>8. \A u \in Threads : u \notin moved' => u \notin moved
    BY <1>3 DEF bind, Moves
  <2>9. \A u \in Threads : pc'[u] \in {"return", "apply"} => pin'[u] \in Pins
    BY <2>2, <2>5, <1>i DEF CallInv
  <2>10. \A u \in Threads : u # t /\ u \notin moved' => pc'[u] \notin {"return", "apply", "halt"}
    BY <2>5, <2>7, <2>8, <1>i DEF CallInv
  <2>11. \A u \in Threads : pc'[u] # "sorting"
    BY <2>5, <2>6
  <2>12. ASSUME NEW u \in Threads \ moved'
         PROVE  /\ pc'[u] = "return" => /\ table'[idx'[u]].pin = pin'[u]
                                        /\ op'[u] = "mode" => io'[pin'[u]] = table'[idx'[u]].func
                /\ pc'[u] # "apply" /\ pc'[u] # "halt"
    <3>1. CASE u = t
      BY <3>1, <2>3, <2>4, <2>5
    <3>2. CASE u # t
      BY <3>2, <2>10
    <3> QED BY <3>1, <3>2
  <2> QED BY <2>5, <2>9, <2>11, <2>12 DEF CallInv
<1>4. ASSUME NEW t \in Threads, NEW p \in Pins, NEW o \in Ops \ {"mode"}, NEW tick \in BOOLEAN,
             hal_gpiohs_get_pin_func(t, p, o, tick)
      PROVE  CallInv'
  <2>1. FirstOf(p) \in Index /\ table[FirstOf(p)].pin = p /\ SameEntries
    BY <1>4, <1>i, LookupIs
  <2>2. /\ lock' = NoThread /\ lock = NoThread /\ UNCHANGED <<io, func, moved>>
        /\ pc'[t] = "return" /\ op'[t] = o /\ pin'[t] = p /\ idx'[t] = FirstOf(p)
        /\ \A u \in Threads : u # t => /\ pc'[u] = pc[u] /\ op'[u] = op[u] /\ pin'[u] = pin[u]
                                       /\ idx'[u] = idx[u] /\ pc[u] # "sorting"
    BY <1>4, <1>f, <1>s DEF hal_gpiohs_get_pin_func
  <2>3. \A u \in Threads : pc'[u] # "sorting" /\ (pc'[u] \in {"return", "apply"} => pin'[u] \in Pins)
    BY <2>2, <1>i DEF CallInv
  <2>4. ASSUME NEW u \in Threads \ moved'
        PROVE  /\ pc'[u] = "return" => /\ table'[idx'[u]].pin = pin'[u]
                                       /\ op'[u] = "mode" => io'[pin'[u]] = table'[idx'[u]].func
               /\ pc'[u] = "apply" =>
                    /\ \E i \in Index : table'[i].pin = pin'[u] /\ table'[i].func = func'[u]
                    /\ op'[u] = "mode" => io'[pin'[u]] = func'[u]
               /\ pc'[u] # "halt"
    <3>1. CASE u = t
      BY <3>1, <2>1, <2>2 DEF SameEntries
    <3>2. CASE u # t
      BY <3>2, <2>1, <2>2, <1>f, <1>i DEF SameEntries, CallInv
    <3> QED BY <3>1, <3>2
  <2> QED BY <2>2, <2>3, <2>4 DEF CallInv
<1>5. ASSUME NEW t \in Threads, return(t) PROVE CallInv'
  <2>1. PICK f \in Funcs : (lock = NoThread => f = table[idx[t]].func) /\ func' = [func EXCEPT ![t] = f]
    BY <1>5 DEF return
  <2>2. /\ UNCHANGED <<table, lock, io, op, pin, moved, twice>> /\ pc[t] = "return"
        /\ pc'[t] = "apply" /\ func'[t] = f
        /\ \A u \in Threads : u # t => pc'[u] = pc[u] /\ idx'[u] = idx[u] /\ func'[u] = func[u]
    BY <1>5, <1>f, <2>1 DEF return
  <2>3. ASSUME NEW u \in Threads \ moved'
        PROVE  /\ pc'[u] = "return" => /\ table'[idx'[u]].pin = pin'[u]
                                       /\ op'[u] = "mode" => io'[pin'[u]] = table'[idx'[u]].func
               /\ pc'[u] = "apply" =>
                    /\ \E i \in Index : table'[i].pin = pin'[u] /\ table'[i].func = func'[u]
                    /\ op'[u] = "mode" => io'[pin'[u]] = func'[u]
               /\ pc'[u] # "halt"
    <3>1. CASE u = t
      <4>1. t \notin moved /\ lock = NoThread /\ idx[t] \in Index
        BY <3>1, <2>2, <1>i, <1>f DEF CallInv
      <4>2. table[idx[t]].pin = pin[t] /\ (op[t] = "mode" => io[pin[t]] = table[idx[t]].func)
        BY <4>1, <2>2, <1>i DEF CallInv
      <4> QED BY <3>1, <4>1, <4>2, <2>1, <2>2
    <3>2. CASE u # t
      BY <3>2, <2>2, <1>i DEF CallInv
    <3> QED BY <3>1, <3>2
  <2>4. \A u \in Threads : pc'[u] = "sorting" => lock' = u /\ pin'[u] \in Pins /\ (Bound(pin[u])' => pin'[u] \in twice')
    BY <2>2, <1>i DEF CallInv, Bound
  <2>5. \A u \in Threads : pc'[u] \in {"return", "apply"} => pin'[u] \in Pins /\ (u \in moved' \/ lock' = NoThread)
    BY <2>2, <1>i DEF CallInv
  <2> QED BY <2>3, <2>4, <2>5 DEF CallInv, Bound
<1>6. ASSUME NEW t \in Threads, apply(t) PROVE CallInv'
  <2> DEFINE halts == op[t] = "mode" /\ \A p \in Pins : io[p] # func[t]
  <2>1. /\ UNCHANGED <<table, lock, io, twice>> /\ pc[t] = "apply"
        /\ pc'[t] = IF halts THEN "halt" ELSE "idle"
        /\ moved' = IF halts THEN moved ELSE moved \ {t}
        /\ \A u \in Threads : u # t => /\ pc'[u] = pc[u] /\ op'[u] = op[u] /\ pin'[u] = pin[u]
                                       /\ idx'[u] = idx[u] /\ func'[u] = func[u]
    BY <1>6, <1>f DEF apply, Returns
  <2>2. t \notin moved => ~halts
    BY <2>1, <1>i DEF CallInv
  <2> HIDE DEF halts
  <2>3. pc'[t] \in {"halt", "idle"} /\ (t \notin moved' => pc'[t] # "halt")
    BY <2>1, <2>2
  <2>4. \A u \in Threads : u # t => (u \in moved' <=> u \in moved)
    BY <2>1
  <2>5. \A u \in Threads : pc'[u] = "sorting" => lock' = u /\ pin'[u] \in Pins /\ (Bound(pin[u])' => pin'[u] \in twice')
    BY <2>1, <2>3, <1>i DEF CallInv, Bound
  <2>6. \A u \in Threads : pc'[u] \in {"return", "apply"} => pin'[u] \in Pins /\ (u \in moved' \/ lock' = NoThread)
    BY <2>1, <2>3, <2>4, <1>i DEF CallInv
  <2>7. ASSUME NEW u \in Threads \ moved'
        PROVE  /\ pc'[u] = "return" => /\ table'[idx'[u]].pin = pin'[u]
                                       /\ op'[u] = "mode" => io'[pin'[u]] = table'[idx'[u]].func
               /\ pc'[u] = "apply" =>
                    /\ \E i \in Index : table'[i].pin = pin'[u] /\ table'[i].func = func'[u]
                    /\ op'[u] = "mode" => io'[pin'[u]] = func'[u]
               /\ pc'[u] # "halt"
    <3>1. CASE u = t
      BY <3>1, <2>3
    <3>2. CASE u # t
      BY <3>2, <2>1, <2>4, <1>i DEF CallInv
    <3> QED BY <3>1, <3>2
  <2> QED BY <2>5, <2>6, <2>7 DEF CallInv, Bound
<1>7. CASE UNCHANGED vars
  BY <1>7, <1>i DEF vars, CallInv, Bound
<1> QED BY <1>1, <1>2, <1>3, <1>4, <1>5, <1>6, <1>7 DEF Next

(* The registrations.  Whoever loses an entry while it is attached is      *)
(* lost, so a registration that is not lost still has its entry.           *)
LEMMA IrqStep == IInv /\ [Next]_vars => IrqInv'
<1> SUFFICES ASSUME IInv, [Next]_vars PROVE IrqInv'
  OBVIOUS
<1>i. TypeOK /\ CallInv /\ TableInv /\ IrqInv
  BY DEF IInv
<1>1. ASSUME NEW t \in Threads, NEW p \in Pins, pinMode(t, p) PROVE IrqInv'
  BY <1>1, <1>i DEF pinMode, IrqInv
<1>2. ASSUME NEW t \in Threads, NEW p \in Pins, pinModeClear(t, p) PROVE IrqInv'
  <2>1. /\ table[FirstOf(p)].pin = p
        /\ \A i \in Index : /\ table'[i].func = table[i].func
                            /\ table'[i].pin = IF i = FirstOf(p) THEN NoPin ELSE table[i].pin
    BY <1>2, <1>i, ClearIs
  <2>2. \A q \in Pins : handler'[q] = IF q = p /\ handler[q] = "attached" THEN "lost" ELSE handler[q]
    BY <1>2, <1>i, LosesIs DEF pinModeClear
  <2>3. UNCHANGED <<irq, twice>>
    BY <1>2 DEF pinModeClear
  <2> QED BY <2>1, <2>2, <2>3, <1>i DEF IrqInv
<1>3. ASSUME NEW t \in Threads, NEW tick \in BOOLEAN, bind(t, tick) PROVE IrqInv'
  <2>1. PICK g : Permutes(g) /\ Rebinds(g, t)
    BY <1>3, <1>i, BindIs
  <2>2. \A q \in Pins : handler'[q] = IF q = table[g[1]].pin /\ handler[q] = "attached" THEN "lost" ELSE handler[q]
    BY <2>1, <1>i, LosesIs DEF Rebinds
  <2>3. UNCHANGED <<irq, twice>>
    BY <1>3 DEF bind
  <2>4. ASSUME NEW f \in Funcs, irq[f] \in Pins \ twice, handler'[irq[f]] # "lost"
        PROVE  /\ handler'[irq[f]] = "attached"
               /\ \E i \in Index : table'[i].pin = irq[f] /\ table'[i].func = f
    <3>1. handler[irq[f]] = "attached" /\ handler'[irq[f]] = "attached" /\ irq[f] # table[g[1]].pin
      BY <2>2, <2>4, <1>i DEF IrqInv
    <3>2. PICK k \in Index : table[k].pin = irq[f] /\ table[k].func = f
      BY <2>4, <3>1, <1>i DEF IrqInv
    <3>3. PICK i \in Index : g[i] = k
      BY <2>1 DEF Permutes
    <3>4. i # 1
      BY <3>1, <3>2, <3>3
    <3> QED BY <2>1, <3>1, <3>2, <3>3, <3>4 DEF Rebinds
  <2> QED BY <2>3, <2>4 DEF IrqInv
<1>4. ASSUME NEW t \in Threads, NEW p \in Pins, NEW o \in Ops \ {"mode"}, NEW tick \in BOOLEAN,
             hal_gpiohs_get_pin_func(t, p, o, tick)
      PROVE  IrqInv'
  <2>1. SameEntries /\ UNCHANGED <<irq, handler, twice>>
    BY <1>4, <1>i, LookupIs DEF hal_gpiohs_get_pin_func
  <2> QED BY <2>1, <1>i DEF SameEntries, IrqInv
<1>5. ASSUME NEW t \in Threads, return(t) PROVE IrqInv'
  BY <1>5, <1>i DEF return, IrqInv
<1>6. ASSUME NEW t \in Threads, apply(t) PROVE IrqInv'
  <2>1. pin[t] \in Pins /\ func[t] \in Funcs /\ NoPin \notin Pins /\ op[t] \in Ops
    BY <1>6, <1>i, PinsAssumption DEF apply, CallInv, TypeOK
  <2>2. /\ \A p \in Pins : p # pin[t] => handler'[p] = handler[p]
        /\ handler[pin[t]] = "lost" => handler'[pin[t]] = "lost"
        /\ op[t] \in {"attach", "detach"} /\ t \in moved => handler'[pin[t]] = "lost"
        /\ op[t] = "attach" /\ t \notin moved => handler'[pin[t]] \in {"attached", "lost"}
        /\ op[t] \notin {"attach", "detach"} => handler'[pin[t]] = handler[pin[t]]
    BY <1>6, <1>i, <2>1, AttachedIs DEF apply
  <2>3. UNCHANGED <<table, twice>> /\ irq \in [Funcs -> Pins \cup {NoPin}]
    BY <1>6, <1>i DEF apply, TypeOK
  <2>4. t \notin moved => \E i \in Index : table[i].pin = pin[t] /\ table[i].func = func[t]
    BY <1>6, <1>i DEF apply, CallInv
  <2>5. CASE op[t] = "attach"
    <3>1. irq' = [irq EXCEPT ![func[t]] = pin[t]]
      BY <1>6, <2>5 DEF apply
    <3>2. ASSUME NEW f \in Funcs, irq'[f] \in Pins \ twice, handler'[irq'[f]] # "lost"
          PROVE  /\ handler'[irq'[f]] = "attached"
                 /\ \E i \in Index : table[i].pin = irq'[f] /\ table[i].func = f
      <4>1. CASE f = func[t]
        BY <4>1, <2>1, <2>2, <2>3, <2>4, <2>5, <3>1, <3>2
      <4>2. CASE f # func[t]
        <5>1. irq'[f] = irq[f]
          BY <4>2, <3>1, <2>3
        <5>2. handler[irq[f]] # "lost"
          BY <5>1, <3>2, <2>2
        <5> QED BY <5>1, <5>2, <3>2, <2>2, <2>5, <1>i DEF IrqInv
      <4> QED BY <4>1, <4>2
    <3> QED BY <3>2, <2>3 DEF IrqInv
  <2>6. CASE op[t] = "detach"
    <3>1. irq' = [irq EXCEPT ![func[t]] = NoPin]
      BY <1>6, <2>6 DEF apply
    <3>2. ASSUME NEW f \in Funcs, irq'[f] \in Pins \ twice, handler'[irq'[f]] # "lost"
          PROVE  /\ handler'[irq'[f]] = "attached"
                 /\ \E i \in Index : table[i].pin = irq'[f] /\ table[i].func = f
      <4>1. f # func[t] /\ irq'[f] = irq[f]
        BY <3>1, <3>2, <2>1, <2>3
      <4>2. handler[irq[f]] # "lost"
        BY <4>1, <3>2, <2>2
      <4>3. handler[irq[f]] = "attached" /\ \E i \in Index : table[i].pin = irq[f] /\ table[i].func = f
        BY <4>1, <4>2, <3>2, <1>i DEF IrqInv
      <4>4. irq[f] # pin[t]
        <5>1. t \notin moved \/ irq[f] # pin[t]
          BY <4>1, <3>2, <2>2, <2>6
        <5>2. ASSUME t \notin moved, irq[f] = pin[t] PROVE FALSE
          BY <5>2, <4>1, <4>3, <3>2, <2>4, <1>i DEF TableInv
        <5> QED BY <5>1, <5>2
      <4> QED BY <4>1, <4>3, <4>4, <3>2, <2>2
    <3> QED BY <3>2, <2>3 DEF IrqInv
  <2>7. CASE op[t] \notin {"attach", "detach"}
    <3>1. irq' = irq
      BY <1>6, <2>7 DEF apply
    <3>2. \A p \in Pins : handler'[p] = handler[p]
      BY <2>2, <2>7
    <3> QED BY <3>1, <3>2, <2>3, <1>i DEF IrqInv
  <2> QED BY <2>5, <2>6, <2>7
<1>7. CASE UNCHANGED vars
  BY <1>7, <1>i DEF vars, IrqInv
<1> QED BY <1>1, <1>2, <1>3, <1>4, <1>5, <1>6, <1>7 DEF Next

LEMMA LastStep == IInv /\ [Next]_vars => LastInv'
<1> SUFFICES ASSUME IInv, [Next]_vars PROVE LastInv'
  OBVIOUS
<1>i. TypeOK /\ CallInv /\ LastInv
  BY DEF IInv
<1>1. ASSUME NEW t \in Threads, NEW p \in Pins, pinMode(t, p) PROVE LastInv'
  BY <1>1, <1>i DEF pinMode, LastInv
<1>2. ASSUME NEW t \in Threads, NEW p \in Pins, pinModeClear(t, p) PROVE LastInv'
  BY <1>2 DEF pinModeClear, LastInv
<1>3. ASSUME NEW t \in Threads, NEW tick \in BOOLEAN, bind(t, tick) PROVE LastInv'
  <2>1. PICK g : Permutes(g) /\ Rebinds(g, t)
    BY <1>3, <1>i, BindIs
  <2>2. 1 \in Index /\ table'[1].pin = pin[t]
    BY <2>1, Numbers DEF Rebinds
  <2>3. tick => \A j \in Index \ {1} : table'[j].time < table'[1].time
    BY <1>3, <1>i, BindIs
  <2>4. last' = IF tick THEN pin[t] ELSE NoPin
    BY <1>3 DEF bind, Uses
  <2> QED BY <2>2, <2>3, <2>4 DEF LastInv
<1>4. ASSUME NEW t \in Threads, NEW p \in Pins, NEW o \in Ops \ {"mode"}, NEW tick \in BOOLEAN,
             hal_gpiohs_get_pin_func(t, p, o, tick)
      PROVE  LastInv'
  <2>1. /\ FirstOf(p) \in Index /\ table[FirstOf(p)].pin = p /\ SameEntries
        /\ tick => \A j \in Index \ {FirstOf(p)} : table'[j].time < table'[FirstOf(p)].time
    BY <1>4, <1>i, LookupIs
  <2>2. last' = IF tick THEN p ELSE NoPin
    BY <1>4 DEF hal_gpiohs_get_pin_func, Uses
  <2> QED BY <2>1, <2>2 DEF LastInv, SameEntries
<1>5. ASSUME NEW t \in Threads, return(t) PROVE LastInv'
  BY <1>5, <1>i DEF return, LastInv
<1>6. ASSUME NEW t \in Threads, apply(t) PROVE LastInv'
  BY <1>6, <1>i DEF apply, LastInv
<1>7. CASE UNCHANGED vars
  BY <1>7, <1>i DEF vars, LastInv
<1> QED BY <1>1, <1>2, <1>3, <1>4, <1>5, <1>6, <1>7 DEF Next

LEMMA InitIInv == Init => IInv
<1> SUFFICES ASSUME Init PROVE IInv
  OBVIOUS
<1>1. TypeOK
  <2>1. table \in [Index -> Entries]
    BY Numbers DEF Init, Entries
  <2> QED BY <2>1, Numbers DEF Init, TypeOK, Ops
<1>2. TableInv /\ IrqInv /\ LastInv
  BY PinsAssumption DEF Init, TableInv, IrqInv, LastInv
<1>3. MuxInv
  BY PinsAssumption DEF Init, MuxInv, Funcs
<1>4. CallInv
  BY DEF Init, CallInv
<1> QED BY <1>1, <1>2, <1>3, <1>4 DEF IInv

-------------------------------------------------------------------------------
(* The inductive invariant holds of gpiohs_func_table, the multiplexer and *)
(* the registrations whatever the interleaving of the calls.               *)
THEOREM Invariance == Spec => []IInv
<1>1. IInv /\ [Next]_vars => IInv'
  BY TypesStep, TableStep, CallStep, IrqStep, LastStep DEF IInv
<1> QED BY InitIInv, <1>1, PTL DEF Spec

(* While no thread sorts, the table carries every function once and agrees *)
(* with the multiplexer: hal_gpiohs_set_pin_func keeps the two in step.    *)
THEOREM TableAgrees == Spec => []TableMatchesMux
<1>1. IInv => TableMatchesMux
  BY DEF IInv, TableInv, TableMatchesMux
<1> QED BY Invariance, <1>1, PTL

(* digitalWrite, attachInterrupt, detachInterrupt and pinMode act on the   *)
(* function their pin carries, and gpiohs_set_drive_mode does not fail its *)
(* assertion, in every call that no other thread disturbed.                *)
THEOREM CallsActOnPin == Spec => []CallsReachPin
<1>1. IInv => CallsReachPin
  BY DEF IInv, CallInv, TableInv, CallsReachPin
<1> QED BY Invariance, <1>1, PTL

(* An interrupt runs the handler of its own pin unless the handler's pin   *)
(* has lost its function before detachInterrupt.                           *)
THEOREM InterruptsAreOwn == Spec => []InterruptsStayWithPin
<1>1. IInv => InterruptsStayWithPin
  <2> SUFFICES ASSUME IInv, NEW p \in Pins, io[p] \in Funcs,
                      irq[io[p]] \notin {p, NoPin} \cup twice, handler[irq[io[p]]] # "lost"
               PROVE  FALSE
    BY DEF InterruptsStayWithPin
  <2>1. irq[io[p]] \in Pins \ twice
    BY DEF IInv, TypeOK
  <2>2. PICK i \in Index : table[i].pin = irq[io[p]] /\ table[i].func = io[p]
    BY <2>1 DEF IInv, IrqInv
  <2>3. io[irq[io[p]]] = io[p]
    BY <2>1, <2>2 DEF IInv, TableInv
  <2> QED BY <2>1, <2>3 DEF IInv, MuxInv
<1> QED BY Invariance, <1>1, PTL

(* The sort of hal_gpiohs_set_pin_func never puts the entry used last, in  *)
(* a microsecond of its own, first: pinMode takes another pin's function.  *)
THEOREM LastUsedIsKept == Spec => LastUsedKeepsFunc
<1> DEFINE Keeps == \A i \in Index :
             (NumFuncs > 1 /\ table[i].pin # NoPin /\ table[i].pin = last /\ lock # NoThread)
                => \E j \in Index : table'[j].pin = last
<1>1. IInv /\ [Next]_vars => [Keeps]_vars
  <2> SUFFICES ASSUME IInv, Next, NumFuncs > 1, last # NoPin, lock # NoThread,
                      NEW l \in Index, table[l].pin = last
               PROVE  \E j \in Index : table'[j].pin = last
    OBVIOUS
  <2>1. ASSUME NEW t \in Threads, NEW tick \in BOOLEAN, bind(t, tick)
        PROVE  \E j \in Index : table'[j].pin = last
    <3>1. PICK g : Permutes(g) /\ Rebinds(g, t)
      BY <2>1, BindIs DEF IInv
    <3>2. PICK k \in Index : /\ table[k].pin = last
                             /\ \A j \in Index \ {k} : table[j].time < table[k].time
      BY DEF IInv, LastInv
    <3>3. PICK j \in Index : g[j] = k
      BY <3>1 DEF Permutes
    <3>4. 1 \in Index /\ 2 \in Index
      BY Numbers DEF Index
    <3>5. j # 1
      <4>1. g[2] \in Index /\ g[1] # g[2] /\ table[g[1]].time <= table[g[2]].time
        BY <3>1, <3>4 DEF Permutes, Rebinds
      <4>2. \A i \in Index : table[i].time \in Int
        BY Numbers DEF IInv, TypeOK, Entries
      <4>3. SUFFICES ASSUME j = 1 PROVE FALSE
        OBVIOUS
      <4>4. table[g[2]].time < table[g[1]].time /\ g[1] \in Index
        BY <3>2, <3>3, <4>1, <4>3
      <4> QED BY <4>1, <4>2, <4>4
    <3> QED BY <3>1, <3>2, <3>3, <3>5 DEF Rebinds
  <2>2. ASSUME NEW t \in Threads, return(t) \/ apply(t)
        PROVE  \E j \in Index : table'[j].pin = last
    BY <2>2 DEF return, apply
  <2>3. ASSUME NEW t \in Threads, NEW p \in Pins, pinMode(t, p) \/ pinModeClear(t, p)
        PROVE  FALSE
    BY <2>3 DEF pinMode, pinModeClear
  <2>4. ASSUME NEW t \in Threads, NEW p \in Pins, NEW o, NEW tick, hal_gpiohs_get_pin_func(t, p, o, tick)
        PROVE  FALSE
    BY <2>4 DEF hal_gpiohs_get_pin_func
  <2> QED BY <2>1, <2>2, <2>3, <2>4 DEF Next
<1> QED BY Invariance, <1>1, PTL DEF Spec, LastUsedKeepsFunc
===============================================================================
