------------------------------ MODULE FlashStore ------------------------------
(* What the flash functions promise, whatever their sector arithmetic and      *)
(* read-modify-write do: a write replaces exactly the cells it was given, one  *)
(* sector after the other, lowest first; an erase never leaves the range of    *)
(* its call; power loss or a reset harms at most the sector being written and  *)
(* the sectors the chip is working on.  A sector whose write began while the   *)
(* chip was still busy (the functions do not wait for an earlier erase) may    *)
(* end up with anything, but no other sector does.                             *)
EXTENDS Integers

CONSTANTS NSec,    \* sectors of the chip
          NPage,   \* pages of a sector: the unit of programming
          Bits     \* the bits of a page; a page is the set of its 1 bits

Sector == 0 .. NSec - 1
Page == 0 .. NPage - 1
Content == [Page -> SUBSET Bits]
Erased == [p \in Page |-> Bits]
Cell(s, p) == s * NPage + p

NoJob == [kind |-> "none"]
Settled == [kind |-> "none", on |-> {}]

VARIABLES store,  \* what the chip holds, as seen between the calls
          pend,   \* what the chip is still busy with on its own
          job     \* the call under way: the cells it has still to write, or
                  \* the sectors of its range

svars == <<store, pend, job>>

CellsOf(s) == {Cell(s, p) : p \in Page}

(* The lowest sector that has a cell of data.                                  *)
First(data) == CHOOSE s \in Sector : /\ CellsOf(s) \cap DOMAIN data # {}
                                     /\ \A r \in Sector : r < s => CellsOf(r) \cap DOMAIN data = {}

Merge(content, data, s) ==
    [p \in Page |-> IF Cell(s, p) \in DOMAIN data THEN data[Cell(s, p)] ELSE content[p]]

Rest(data, s) == [c \in DOMAIN data \ CellsOf(s) |-> data[c]]

InWrite == job.kind = "write"
Doubtful == IF InWrite THEN {First(job.data)} ELSE {}

(* Every store that differs from this one only on the sectors of set.          *)
Harmed(set) == {f \in [Sector -> Content] : \A s \in Sector \ set : f[s] = store[s]}

Init == store \in [Sector -> Content] /\ pend = Settled /\ job = NoJob

Write(data) == /\ job = NoJob
               /\ job' = [kind |-> "write", data |-> data, sure |-> FALSE]
               /\ UNCHANGED <<store, pend>>

(* The chip is quiet when the sector is read: its write will be exact.         *)
Look == /\ InWrite
        /\ job' = [job EXCEPT !.sure = (pend = Settled)]
        /\ UNCHANGED <<store, pend>>

Commit == /\ InWrite
          /\ LET s == First(job.data) IN
             /\ store' \in Harmed({s})
             /\ job.sure => store'[s] = Merge(store[s], job.data, s)
             /\ job' = IF DOMAIN Rest(job.data, s) = {} THEN NoJob
                       ELSE [kind |-> "write", data |-> Rest(job.data, s), sure |-> FALSE]
          /\ UNCHANGED pend

Erase(set) == /\ job = NoJob
              /\ job' = [kind |-> "erase", range |-> set]
              /\ UNCHANGED <<store, pend>>

Narrower == {NoJob} \cup [kind : {"erase"}, range : SUBSET job.range]

(* A chip that is quiet begins to erase sectors of the range; a busy chip      *)
(* ignores the command and the call goes on all the same.                      *)
EraseSome == /\ job.kind = "erase"
             /\ pend = Settled
             /\ \E set \in SUBSET job.range : pend' = [kind |-> "erase", on |-> set]
             /\ job' \in Narrower
             /\ UNCHANGED store

EraseIgnored == /\ job.kind = "erase"
                /\ pend # Settled
                /\ job' \in Narrower
                /\ UNCHANGED <<store, pend>>

ChipErase == /\ job = NoJob /\ pend = Settled
             /\ pend' = [kind |-> "erase", on |-> Sector]
             /\ UNCHANGED <<store, job>>

Settle == /\ pend # Settled
          /\ pend' = Settled
          /\ store' \in Harmed(pend.on)
          /\ pend.kind = "erase" => \A s \in pend.on : store'[s] = Erased
          /\ UNCHANGED job

(* The processor restarts; the chip, if it has power, completes what it does.  *)
Restart == /\ store' \in Harmed(Doubtful)
           /\ \/ pend' = pend
              \/ pend = Settled /\ pend' = [kind |-> "lost", on |-> Doubtful]
           /\ job' = NoJob

PowerLoss == /\ store' \in Harmed(Doubtful \cup pend.on)
             /\ pend' = Settled /\ job' = NoJob

Next == \/ \E a \in 0 .. NSec * NPage - 1, b \in 0 .. NSec * NPage - 1 :
              \E data \in [a .. b -> SUBSET Bits] : a <= b /\ Write(data)
        \/ \E a \in Sector, b \in Sector : Erase(a .. b)
        \/ Look \/ Commit \/ EraseSome \/ EraseIgnored \/ ChipErase \/ Settle \/ Restart \/ PowerLoss

(* Every call returns, whatever the chip was doing when it began.             *)
Returns == (job # NoJob) ~> (job = NoJob)

Safety == Init /\ [][Next]_svars
Spec == Safety /\ Returns
===============================================================================
