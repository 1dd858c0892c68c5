--------------------------------- MODULE Dma ----------------------------------
(* The DMA channel allocator (k210-hal/k210-hal-dma.c) and the channels it     *)
(* hands out.  Both functions run under one lock and are one step.  A channel  *)
(* carries the transfer that was programmed last: dmac_set_single_mode first   *)
(* disables the channel, whoever uses it (k210_dmac.c).                        *)
EXTENDS Integers

CONSTANTS NChn,      \* channels in _dma_chn_info
          Users      \* the drivers that ask for channels

ASSUME NChnAssumption == NChn \in Nat \ {0}

Chn == 0 .. NChn - 1
DMAC_CHANNEL_MAX == NChn

VARIABLES chn_sts,   \* _dma_chn_info[i].chn_sts
          chan,      \* the channel each user holds
          load       \* whose transfer each channel carries

dmaVars == <<chn_sts, chan, load>>

DmaInit == /\ chn_sts = [c \in Chn |-> 0]
           /\ chan = [u \in Users |-> DMAC_CHANNEL_MAX]
           /\ load = [c \in Chn |-> "none"]

Free == {c \in Chn : chn_sts[c] = 0}

(* hal_dma_get_free_chn by user u, which then programs its transfer: the       *)
(* lowest free channel.  The caller asks Free = {} for the failure.            *)
GetAndProgram(u) ==
    \E c \in Free :
        /\ \A d \in Free : c <= d
        /\ chn_sts' = [chn_sts EXCEPT ![c] = 1]
        /\ chan' = [chan EXCEPT ![u] = c]
        /\ load' = [load EXCEPT ![c] = u]

(* Seeded fault: the caller forgets the channel without giving it back.        *)
F_Release(u) ==
    /\ chan' = [chan EXCEPT ![u] = DMAC_CHANNEL_MAX]
    /\ load' = [load EXCEPT ![chan[u]] = IF @ = u THEN "none" ELSE @]
    /\ UNCHANGED chn_sts

(* hal_dma_releas_chn by the user that holds the channel, its transfer over.   *)
Release(u) ==
    /\ chn_sts' = [chn_sts EXCEPT ![chan[u]] = 0]
    /\ chan' = [chan EXCEPT ![u] = DMAC_CHANNEL_MAX]
    /\ load' = [load EXCEPT ![chan[u]] = IF @ = u THEN "none" ELSE @]

(* A transfer on channels nobody was asked for.                                *)
ProgramUnasked(u, C) == load' = [c \in Chn |-> IF c \in C THEN u ELSE load[c]]
TransferOver(u) == load' = [c \in Chn |-> IF load[c] = u THEN "none" ELSE load[c]]

Holds(u) == chan[u] # DMAC_CHANNEL_MAX

DmaTypeOK == /\ chn_sts \in [Chn -> {0, 1}]
             /\ chan \in [Users -> 0 .. NChn]
             /\ load \in [Chn -> Users \cup {"none", "flash"}]

(* The table and the drivers agree: a channel is marked used exactly when one  *)
(* driver holds it, and no two drivers hold the same one.  None is lost on an  *)
(* error path and none is given back twice.                                    *)
ChannelsMatchHolders ==
    /\ \A c \in Chn : chn_sts[c] = 1 <=> \E u \in Users : chan[u] = c
    /\ \A u, v \in Users : u # v /\ Holds(u) => chan[u] # chan[v]
===============================================================================
