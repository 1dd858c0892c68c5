-------------------------------- MODULE Flash ---------------------------------
(* The SPI flash (k210-hal/k210-hal-flash.c): hal_flash_write_data, a          *)
(* read-modify-write of each sector it touches with a status poll after every  *)
(* command, and hal_flash_erase, which does not poll.  The chip (external)     *)
(* takes a program or erase command only when it is not busy with one, and a   *)
(* program can only clear bits.  Sectors are NPage pages of Bits, addresses    *)
(* are counted in pages: the functions never treat a part of a page apart.     *)
(* Write-enable and the command it precedes are one step: a chip that is busy  *)
(* at either ignores the pair.  A power loss or a reset may come at any step.  *)
(* The functions have no lock; one task at a time calls them.                  *)
EXTENDS Integers

CONSTANTS NSec,    \* sectors of the chip
          NPage,   \* pages of a sector
          Bits,    \* the bits of a page; a page is the set of its 1 bits
          Blocks   \* sizes, in sectors, of what one erase command can erase

ASSUME GeometryAssumption == /\ NSec \in Nat \ {0} /\ NPage \in Nat \ {0}
                             /\ Blocks \subseteq Nat \ {0} /\ 1 \in Blocks

Sector == 0 .. NSec - 1
Page == 0 .. NPage - 1
Address == 0 .. NSec * NPage - 1
Content == [Page -> SUBSET Bits]
Erased == [p \in Page |-> Bits]

Idle == [kind |-> "idle"]
Ops == {Idle} \cup [kind : {"erase"}, on : SUBSET Sector, by : {"write", "erase", "lost"}]
              \cup [kind : {"program"}, on : SUBSET Sector, page : Page, value : SUBSET Bits,
                    by : {"write", "lost"}]

VARIABLES mem,       \* the chip's array
          op,        \* what the chip is busy with
          pc,        \* where the caller is; "idle" between calls
          addr,      \* the next address of the call
          length,    \* pages left
          data_buf,  \* the caller's data, by address
          swap_buf,  \* the sector as it was read
          index,     \* the page being programmed
          erase_unit, \* what one command of the erase under way covers
          before,    \* ghost: the sector as it would be had its write not begun
          calm       \* ghost: the chip was not busy when the sector was read

call == <<pc, addr, length, data_buf, swap_buf, index, erase_unit, before, calm>>
flashVars == <<mem, op, call>>

sector == addr \div NPage
sector_offset == addr % NPage
write_len == IF length < NPage - sector_offset THEN length ELSE NPage - sector_offset

(* Where data_buf and swap_buf point in the sector: the pages of the call.     *)
Touched == sector_offset .. sector_offset + write_len - 1
DataAt(p) == data_buf[sector * NPage + p]

(* The locals of a call exist while it runs.                                   *)
Return == /\ pc' = "idle"
          /\ addr' = 0 /\ length' = 0 /\ data_buf' = <<>> /\ swap_buf' = Erased /\ index' = 0
          /\ erase_unit' = NPage /\ before' = Erased /\ calm' = FALSE

-------------------------------------------------------------------------------
(* The chip.                                                                   *)

Send(command) == op' = IF op = Idle THEN command ELSE op

(* Completion of the command under way, at any time after it was taken.        *)
Effect(s) == IF op.kind = "erase" THEN Erased
             ELSE [mem[s] EXCEPT ![op.page] = @ \cap op.value]

ChipDone == /\ op # Idle
            /\ op' = Idle
            /\ mem' = [s \in Sector |-> IF s \in op.on THEN Effect(s) ELSE mem[s]]
            /\ before' = IF op.by # "write" /\ pc # "idle" /\ sector \in op.on
                         THEN mem'[sector] ELSE before
            /\ UNCHANGED <<pc, addr, length, data_buf, swap_buf, index, erase_unit, calm>>

-------------------------------------------------------------------------------
(* hal_flash_write_data: w25qxx_write_data_dma.                                *)

Write(a, n, data) ==
    /\ pc = "idle"
    /\ pc' = "read"
    /\ addr' = a /\ length' = n /\ data_buf' = data
    /\ calm' = FALSE
    /\ UNCHANGED <<mem, op, swap_buf, index, erase_unit, before>>

(* A chip that is busy does not answer the read: swap_buf receives anything.   *)
ReadSector ==
    /\ pc = "read"
    /\ swap_buf' \in IF op = Idle THEN {mem[sector]} ELSE Content
    /\ before' = mem[sector]
    /\ calm' = (op = Idle)
    /\ pc' = "compare"
    /\ UNCHANGED <<mem, op, addr, length, data_buf, index, erase_unit>>

(* Seeded fault: only the first page of the data is compared.                  *)
F_NeedsErase == ~ DataAt(sector_offset) \subseteq swap_buf[sector_offset]

NeedsErase == \E p \in Touched : ~ DataAt(p) \subseteq swap_buf[p]

Compare ==
    /\ pc = "compare"
    /\ IF NeedsErase
       THEN /\ Send([kind |-> "erase", on |-> {sector}, by |-> "write"])
            /\ pc' = "erasing"
       ELSE pc' = "program" /\ UNCHANGED op
    /\ index' = 0
    /\ UNCHANGED <<mem, addr, length, data_buf, swap_buf, erase_unit, before, calm>>

WaitErased ==
    /\ pc = "erasing" /\ op = Idle
    /\ pc' = "program"
    /\ UNCHANGED <<mem, op, addr, length, data_buf, swap_buf, index, erase_unit, before, calm>>

(* Seeded fault: the rest of the sector is not put back after its erase.       *)
F_Block(p) == IF p \in Touched THEN DataAt(p) ELSE Bits

(* The page sector_program sends: the data, or swap_buf with the data in it.   *)
Block(p) == IF p \in Touched THEN DataAt(p) ELSE swap_buf[p]

PageProgram ==
    /\ pc = "program"
    /\ Send([kind |-> "program", on |-> {sector}, page |-> index, value |-> Block(index),
             by |-> "write"])
    /\ pc' = "programming"
    /\ UNCHANGED <<mem, addr, length, data_buf, swap_buf, index, erase_unit, before, calm>>

NextSector ==
    IF length = write_len THEN Return
    ELSE /\ length' = length - write_len
         /\ addr' = addr + write_len
         /\ pc' = "read"
         /\ index' = 0 /\ calm' = FALSE /\ before' = Erased /\ swap_buf' = Erased
         /\ UNCHANGED <<data_buf, erase_unit>>

NextPage == /\ index' = index + 1
            /\ pc' = "program"
            /\ UNCHANGED <<addr, length, data_buf, swap_buf, erase_unit, before, calm>>

WaitProgrammed ==
    /\ pc = "programming" /\ op = Idle
    /\ IF index = NPage - 1 THEN NextSector ELSE NextPage
    /\ UNCHANGED <<mem, op>>

-------------------------------------------------------------------------------
(* hal_flash_erase: the largest command that fits, unit after unit, each sent  *)
(* whether or not the chip still works on the one before.                      *)

Fits(a, n) == {b \in Blocks : a % (b * NPage) = 0 /\ n % (b * NPage) = 0}
EraseUnit(a, n) == NPage * (CHOOSE b \in Fits(a, n) : \A c \in Fits(a, n) : c <= b)

(* A range that is not made of whole sectors is refused.                       *)
Erase(a, n) ==
    /\ pc = "idle" /\ Fits(a, n) # {}
    /\ pc' = "erase"
    /\ addr' = a /\ length' = n /\ erase_unit' = EraseUnit(a, n)
    /\ UNCHANGED <<mem, op, data_buf, swap_buf, index, before, calm>>

UnitAt(a) == {s \in Sector : a <= s * NPage /\ s * NPage < a + erase_unit}

EraseNext ==
    /\ pc = "erase"
    /\ Send([kind |-> "erase", on |-> UnitAt(addr), by |-> "erase"])
    /\ IF length = erase_unit THEN Return
       ELSE /\ addr' = addr + erase_unit
            /\ length' = length - erase_unit
            /\ UNCHANGED <<pc, data_buf, swap_buf, index, erase_unit, before, calm>>
    /\ UNCHANGED mem

ChipErase ==
    /\ pc = "idle"
    /\ Send([kind |-> "erase", on |-> Sector, by |-> "erase"])
    /\ UNCHANGED <<mem, call>>

-------------------------------------------------------------------------------
(* Faults.  The registers and buffers of the call are gone; a chip that keeps  *)
(* its power completes its command, one that loses it leaves the command half  *)
(* done: an erase anywhere, a program between the old value and the new one.   *)

Torn(s) == IF op.kind = "erase" THEN Content
           ELSE {c \in Content : /\ \A p \in Page \ {op.page} : c[p] = mem[s][p]
                                 /\ Effect(s)[op.page] \subseteq c[op.page]
                                 /\ c[op.page] \subseteq mem[s][op.page]}

Reset == /\ Return
         /\ op' = IF op # Idle /\ op.by = "write" THEN [op EXCEPT !.by = "lost"] ELSE op
         /\ UNCHANGED mem

PowerLoss == /\ Return
             /\ op' = Idle
             /\ mem' \in {m \in [Sector -> Content] :
                            \A s \in Sector : IF op # Idle /\ s \in op.on THEN m[s] \in Torn(s)
                                              ELSE m[s] = mem[s]}

-------------------------------------------------------------------------------
FlashInit == /\ mem \in [Sector -> Content] /\ op = Idle
             /\ pc = "idle" /\ addr = 0 /\ length = 0 /\ data_buf = <<>>
             /\ swap_buf = Erased /\ index = 0 /\ erase_unit = NPage
             /\ before = Erased /\ calm = FALSE

Step == ReadSector \/ Compare \/ WaitErased \/ PageProgram \/ WaitProgrammed \/ EraseNext

FlashNext ==
    \/ \E a \in Address, n \in 1 .. NSec * NPage :
         /\ a + n <= NSec * NPage
         /\ \/ \E data \in [a .. a + n - 1 -> SUBSET Bits] : Write(a, n, data)
            \/ Erase(a, n)
    \/ ChipErase \/ Step \/ ChipDone \/ Reset \/ PowerLoss

(* The chip completes every command it has taken; the caller runs.             *)
FlashSpec == /\ FlashInit /\ [][FlashNext]_flashVars
             /\ WF_flashVars(ChipDone) /\ WF_flashVars(Step)

-------------------------------------------------------------------------------
Writing == {"compare", "erasing", "program", "programming"}

FlashTypeOK ==
    /\ mem \in [Sector -> Content] /\ op \in Ops
    /\ pc \in {"idle", "read", "erase"} \cup Writing
    /\ addr \in 0 .. NSec * NPage /\ length \in 0 .. NSec * NPage
    /\ swap_buf \in Content /\ index \in Page /\ before \in Content /\ calm \in BOOLEAN

(* The state keeps its types, the cursors of the calls inside the chip.  NOR   *)
(* flash cannot set a bit: when the chip was quiet as the sector was read,     *)
(* every page that is programmed can take its value, so the sector is erased   *)
(* whenever it has to be (line 405 compares only the pages of the call).       *)
ProgramTakes ==
    /\ FlashTypeOK
    /\ calm /\ op.kind = "program" /\ op.by = "write" => op.value \subseteq mem[sector][op.page]

(* The write is the atomic replacement FlashStore describes, sector by sector, *)
(* across every address, every erase still under way, reset and power loss;    *)
(* and every call returns: the polling loops end.                              *)
StoreSeen == [s \in Sector |-> IF pc \in Writing /\ s = sector THEN before ELSE mem[s]]
Pending == IF op = Idle \/ op.by = "write" THEN [kind |-> "none", on |-> {}]
           ELSE [kind |-> op.by, on |-> op.on]
Job == CASE pc \in Writing \cup {"read"} ->
              [kind |-> "write", sure |-> calm,
               data |-> [c \in addr .. addr + length - 1 |-> data_buf[c]]]
         [] pc = "erase" -> [kind |-> "erase",
                             range |-> {s \in Sector : addr <= s * NPage /\ s * NPage < addr + length}]
         [] OTHER -> [kind |-> "none"]
Store == INSTANCE FlashStore WITH store <- StoreSeen, pend <- Pending, job <- Job
ImplementsStore == Store!Spec
===============================================================================
