----------------------------- MODULE VisionProofs -----------------------------
(* Theorems about Vision, for any number of DMA channels, tasks and blocks of  *)
(* the heap, and any channels that flash transfers use or a run is given.      *)
EXTENDS Vision, TLAPS

-------------------------------------------------------------------------------
(* The allocator.  DmaInv is kept by every step on the table, given that a     *)
(* user asks only when it holds no channel and gives back only one it holds.   *)
DmaInv == DmaTypeOK /\ ChannelsMatchHolders

LEMMA GetKeeps ==
    ASSUME DmaInv, NEW u \in Users, ~ Holds(u), GetAndProgram(u)
    PROVE  DmaInv' /\ Holds(u)' /\ \A v \in Users \ {u} : Holds(v)' = Holds(v)
<1>1. PICK c \in Free : /\ chn_sts' = [chn_sts EXCEPT ![c] = 1]
                        /\ chan' = [chan EXCEPT ![u] = c]
                        /\ load' = [load EXCEPT ![c] = u]
    BY DEF GetAndProgram
<1>2. c \in Chn /\ chn_sts[c] = 0 /\ c # NChn
    BY <1>1, NChnAssumption DEF Free, Chn
<1>3. \A v \in Users : chan[v] # c
    BY <1>2 DEF DmaInv, DmaTypeOK, ChannelsMatchHolders
<1>4. DmaTypeOK'
    BY <1>1, <1>2, NChnAssumption DEF DmaInv, DmaTypeOK, Chn
<1>5. Holds(u)' /\ \A v \in Users \ {u} : Holds(v)' = Holds(v) /\ chan'[v] = chan[v]
    BY <1>1, <1>2 DEF DmaInv, DmaTypeOK, Holds, DMAC_CHANNEL_MAX
<1>6. ChannelsMatchHolders'
    <2>1. \A d \in Chn : chn_sts'[d] = 1 <=> \E v \in Users : chan'[v] = d
        <3> TAKE d \in Chn
        <3>1. CASE d = c
            BY <3>1, <1>1, <1>2 DEF DmaInv, DmaTypeOK
        <3>2. CASE d # c
            <4>1. chn_sts'[d] = chn_sts[d]
                BY <3>2, <1>1 DEF DmaInv, DmaTypeOK
            <4>2. chan'[u] = c /\ chan[u] # d
                BY <1>1, NChnAssumption DEF DmaInv, DmaTypeOK, Holds, DMAC_CHANNEL_MAX, Chn
            <4> QED
                BY <4>1, <4>2, <3>2, <1>5 DEF DmaInv, ChannelsMatchHolders
        <3> QED
            BY <3>1, <3>2
    <2>2. \A v, w \in Users : v # w /\ Holds(v)' => chan'[v] # chan'[w]
        BY <1>1, <1>3, <1>5 DEF DmaInv, DmaTypeOK, ChannelsMatchHolders
    <2> QED
        BY <2>1, <2>2 DEF ChannelsMatchHolders
<1> QED
    BY <1>4, <1>5, <1>6 DEF DmaInv

LEMMA ReleaseKeeps ==
    ASSUME DmaInv, NEW u \in Users, Holds(u), Release(u)
    PROVE  DmaInv' /\ ~ Holds(u)' /\ \A v \in Users \ {u} : Holds(v)' = Holds(v)
<1>1. chan[u] \in Chn
    BY NChnAssumption DEF DmaInv, DmaTypeOK, Holds, DMAC_CHANNEL_MAX, Chn
<1>2. \A v \in Users \ {u} : chan[v] # chan[u]
    BY DEF DmaInv, ChannelsMatchHolders
<1>3. DmaTypeOK'
    BY <1>1, NChnAssumption DEF DmaInv, DmaTypeOK, Release, Chn, DMAC_CHANNEL_MAX
<1>4. ~ Holds(u)' /\ \A v \in Users \ {u} : Holds(v)' = Holds(v) /\ chan'[v] = chan[v]
    BY DEF DmaInv, DmaTypeOK, Release, Holds, DMAC_CHANNEL_MAX
<1>5. chan'[u] \notin Chn
    BY NChnAssumption DEF DmaInv, DmaTypeOK, Release, DMAC_CHANNEL_MAX, Chn
<1>6. ChannelsMatchHolders'
    <2>1. \A c \in Chn : chn_sts'[c] = 1 <=> \E v \in Users : chan'[v] = c
        BY <1>1, <1>2, <1>4, <1>5 DEF DmaInv, DmaTypeOK, ChannelsMatchHolders, Release
    <2>2. \A v, w \in Users : v # w /\ Holds(v)' => chan'[v] # chan'[w]
        BY <1>4, NChnAssumption DEF DmaInv, DmaTypeOK, ChannelsMatchHolders, Release, Holds, DMAC_CHANNEL_MAX
    <2> QED
        BY <2>1, <2>2 DEF ChannelsMatchHolders
<1> QED
    BY <1>3, <1>4, <1>6 DEF DmaInv

(* A transfer nobody asked the allocator for leaves the table alone.           *)
Unasked == \/ \E u \in {"flash", "kpu"} : TransferOver(u) \/ \E C : ProgramUnasked(u, C)
           \/ UNCHANGED load

LEMMA UnaskedKeeps ==
    ASSUME DmaInv, UNCHANGED <<chn_sts, chan>>, Unasked
    PROVE  DmaInv' /\ \A v \in Users : Holds(v)' = Holds(v)
<1>1. \A v \in Users : Holds(v)' = Holds(v) /\ chan'[v] = chan[v]
    BY DEF Holds
<1>2. load' \in [Chn -> Users \cup {"none", "flash"}]
    BY VisionAssumption DEF DmaInv, DmaTypeOK, Unasked, ProgramUnasked, TransferOver
<1>3. DmaTypeOK' /\ ChannelsMatchHolders'
    BY <1>2 DEF DmaInv, DmaTypeOK, ChannelsMatchHolders, Holds
<1> QED
    BY <1>1, <1>3 DEF DmaInv

-------------------------------------------------------------------------------
(* The drivers keep the allocator's contract: between calls the KPU and the    *)
(* display hold no channel, within one they hold theirs, except a run whose    *)
(* caller chose the channel.                                                   *)
HolderInv == /\ Holds("kpu") <=> pc[Ai] \in {"run", "ai"} /\ given = NoChannel
             /\ Holds("tft") <=> pc[Ui] = "tft"
             /\ given # NoChannel => pc[Ai] \in {"run", "ai"}
             /\ given \in Chn \cup {NoChannel}

PcOK == pc \in [Tasks -> PCs]

ChannelInv == PcOK /\ DmaInv /\ HolderInv

LEMMA UsersAre == {"kpu", "tft", "i2s"} = Users /\ Ai \in Tasks /\ Ui \in Tasks
    BY VisionAssumption

LEMMA ChannelInit == Init => ChannelInv
<1> SUFFICES ASSUME Init PROVE ChannelInv
    OBVIOUS
<1>1. PcOK
    BY DEF Init, PcOK, PCs
<1>2. \A u \in Users : chan[u] = NChn
    BY DEF Init, DmaInit, DMAC_CHANNEL_MAX
<1>3. DmaInv
    <2>1. DmaTypeOK
        BY NChnAssumption DEF Init, DmaInit, DmaTypeOK, DMAC_CHANNEL_MAX
    <2>2. \A c \in Chn : chn_sts[c] = 0 /\ c # NChn
        BY NChnAssumption DEF Init, DmaInit, Chn
    <2>3. ChannelsMatchHolders
        BY <1>2, <2>2 DEF ChannelsMatchHolders, Holds, DMAC_CHANNEL_MAX
    <2> QED
        BY <2>1, <2>3 DEF DmaInv
<1>4. HolderInv
    BY <1>2, UsersAre DEF HolderInv, Holds, DMAC_CHANNEL_MAX, Init
<1> QED
    BY <1>1, <1>3, <1>4 DEF ChannelInv

(* A step that leaves the channels alone and moves one task, neither into a    *)
(* call of a channel's holder nor out of one.                                  *)
Plain == PCs \ {"run", "ai", "tft"}

LEMMA PlainStep ==
    ASSUME ChannelInv, UNCHANGED <<chn_sts, chan, given>>, Unasked,
           \/ UNCHANGED pc
           \/ \E t \in Tasks : pc[t] \in Plain /\ \E q \in Plain : pc' = [pc EXCEPT ![t] = q]
    PROVE  ChannelInv'
<1>1. DmaInv' /\ \A v \in Users : Holds(v)' = Holds(v)
    BY UnaskedKeeps DEF ChannelInv
<1>2. PcOK'
    BY DEF ChannelInv, PcOK, Plain
<1>3. /\ pc'[Ai] \in {"run", "ai"} <=> pc[Ai] \in {"run", "ai"}
      /\ pc'[Ui] = "tft" <=> pc[Ui] = "tft"
    BY UsersAre DEF ChannelInv, PcOK, Plain
<1> QED
    BY <1>1, <1>2, <1>3, UsersAre DEF ChannelInv, HolderInv

LEMMA ChannelStep == ChannelInv /\ [Next]_vars => ChannelInv'
<1> SUFFICES ASSUME ChannelInv, [Next]_vars PROVE ChannelInv'
    OBVIOUS
<1> USE UsersAre
<1>1. CASE UNCHANGED vars
    BY <1>1, PlainStep DEF vars, dmaVars, kpuVars, Unasked
<1>2. CASE \E t \in Tasks : Camera(t) /\ UNCHANGED <<dmaVars, kpuVars, tftVars>>
    <2>1. PICK t \in Tasks : Camera(t) /\ UNCHANGED <<dmaVars, given>>
        BY <1>2 DEF kpuVars
    <2>2. pc[t] \in Plain /\ \E q \in Plain : pc' = [pc EXCEPT ![t] = q]
        BY <2>1 DEF Camera, BeginCall, BeginLocked, BeginNoMemory, EndCall, EndLocked, CaptureCall,
                    CaptureLocked, CaptureDone, CaptureTimeout, Goto, Plain, PCs
    <2> QED
        BY <2>1, <2>2, PlainStep DEF dmaVars, Unasked
<1>3. CASE (FrameStart \/ FrameFinish) /\ UNCHANGED <<dmaVars, kpuVars, tftVars>>
    <2>1. UNCHANGED <<pc, chn_sts, chan, load, given>>
        BY <1>3 DEF FrameStart, FrameFinish, dmaVars, kpuVars
    <2> QED
        BY <2>1, PlainStep DEF Unasked
<1>4. CASE \E t \in Tasks : FlashRead(t) \/ FlashDone(t)
    <2>1. PICK t \in Tasks : FlashRead(t) \/ FlashDone(t)
        BY <1>4
    <2>2. UNCHANGED <<chn_sts, chan, given>> /\ Unasked
        BY <2>1 DEF FlashRead, FlashDone, kpuVars, Unasked
    <2>3. pc[t] \in Plain /\ \E q \in Plain : pc' = [pc EXCEPT ![t] = q]
        BY <2>1 DEF FlashRead, FlashDone, Goto, Plain, PCs
    <2> QED
        BY <2>2, <2>3, PlainStep
<1>5. CASE LoadCall
    <2>1. UNCHANGED <<chn_sts, chan, given>> /\ Unasked
        BY <1>5 DEF LoadCall, Unasked
    <2>2. pc[Ai] \in Plain /\ \E q \in Plain : pc' = [pc EXCEPT ![Ai] = q]
        BY <1>5 DEF LoadCall, Goto, Plain, PCs
    <2> QED
        BY <2>1, <2>2, PlainStep
<1>6. CASE ReadFails \/ LoadOk \/ LoadRefused
    <2>1. ReadEnds
        BY <1>6 DEF ReadFails, LoadOk, LoadRefused
    <2>2. UNCHANGED <<chn_sts, chan, given>> /\ Unasked
        BY <2>1 DEF ReadEnds, Unasked
    <2>3. pc[Ai] \in Plain /\ \E q \in Plain : pc' = [pc EXCEPT ![Ai] = q]
        BY <2>1 DEF ReadEnds, Loads, Plain, PCs
    <2> QED
        BY <2>2, <2>3, PlainStep
<1>7. CASE Construct \/ KpuEnd \/ TftBegin \/ TftEnd
    <2>1. UNCHANGED <<pc, chn_sts, chan, load, given>>
        BY <1>7 DEF Construct, KpuEnd, TftBegin, TftEnd, dmaVars, kpuVars
    <2> QED
        BY <2>1, PlainStep DEF Unasked
<1>8. CASE RunKmodel
    <2>1. pc[Ai] = "idle" /\ pc' = [pc EXCEPT ![Ai] = "run"] /\ given = NoChannel
        BY <1>8 DEF RunKmodel, Goto, ChannelInv, HolderInv
    <2>2. CASE GetAndProgram("kpu") /\ UNCHANGED given
        <3>1. DmaInv' /\ Holds("kpu")' /\ Holds("tft")' = Holds("tft")
            BY <2>1, <2>2, GetKeeps DEF ChannelInv, HolderInv
        <3> QED
            BY <2>1, <2>2, <3>1 DEF ChannelInv, HolderInv, PcOK, PCs
    <2>3. ASSUME NEW c \in Chn, given' = c, ProgramUnasked("kpu", {c}), UNCHANGED <<chn_sts, chan>>
          PROVE  ChannelInv'
        <3>1. DmaInv' /\ \A v \in Users : Holds(v)' = Holds(v)
            BY <2>3, UnaskedKeeps DEF ChannelInv, Unasked
        <3>2. c # NoChannel
            BY NChnAssumption DEF Chn, NoChannel, DMAC_CHANNEL_MAX
        <3>3. ~ Holds("kpu")
            BY <2>1 DEF ChannelInv, HolderInv
        <3> QED
            BY <2>1, <2>3, <3>1, <3>2, <3>3 DEF ChannelInv, HolderInv, PcOK, PCs
    <2> QED
        BY <1>8, <2>2, <2>3 DEF RunKmodel
<1>9. CASE RunRefused \/ AiDone
    <2>1. RunEnds /\ pc[Ai] \in {"run", "ai"} /\ pc' = [pc EXCEPT ![Ai] = "idle"]
        BY <1>9 DEF RunRefused, AiDone, Goto
    <2>2. DmaInv' /\ ~ Holds("kpu")' /\ Holds("tft")' = Holds("tft")
        <3>1. CASE given = NoChannel
            BY <2>1, <3>1, ReleaseKeeps DEF ChannelInv, HolderInv, RunEnds
        <3>2. CASE given # NoChannel
            BY <2>1, <3>2, UnaskedKeeps DEF ChannelInv, HolderInv, RunEnds, Unasked
        <3> QED
            BY <3>1, <3>2
    <2>3. given' = NoChannel
        BY <2>1 DEF RunEnds
    <2> QED
        BY <2>1, <2>2, <2>3 DEF ChannelInv, HolderInv, PcOK, PCs
<1>10. CASE RunStarts
    <2>1. /\ UNCHANGED <<chn_sts, chan, load, given>>
          /\ pc[Ai] = "run" /\ pc' = [pc EXCEPT ![Ai] = "ai"]
        BY <1>10 DEF RunStarts, Goto, dmaVars, kpuVars
    <2>2. DmaInv' /\ \A v \in Users : Holds(v)' = Holds(v)
        BY <2>1, UnaskedKeeps DEF ChannelInv, Unasked
    <2> QED
        BY <2>1, <2>2 DEF ChannelInv, HolderInv, PcOK, PCs
<1>11. CASE \E k \in Kinds : TftWrite(k)
    <2>0. UNCHANGED given
        BY <1>11 DEF TftWrite, kpuVars
    <2>1. CASE UNCHANGED <<dmaVars, pc>>
        BY <2>0, <2>1, PlainStep DEF dmaVars, Unasked
    <2>2. CASE GetAndProgram("tft") /\ Goto(Ui, "idle", "tft")
        <3>1. DmaInv' /\ Holds("tft")' /\ Holds("kpu")' = Holds("kpu")
            BY <2>2, GetKeeps DEF ChannelInv, HolderInv, Goto
        <3> QED
            BY <2>0, <2>2, <3>1 DEF ChannelInv, HolderInv, PcOK, PCs, Goto
    <2> QED
        BY <1>11, <2>1, <2>2 DEF TftWrite
<1>12. CASE TftDone
    <2>1. /\ Release("tft") /\ pc[Ui] = "tft" /\ pc' = [pc EXCEPT ![Ui] = "idle"]
          /\ UNCHANGED given
        BY <1>12 DEF TftDone, Goto, kpuVars
    <2>2. DmaInv' /\ ~ Holds("tft")' /\ Holds("kpu")' = Holds("kpu")
        BY <2>1, ReleaseKeeps DEF ChannelInv, HolderInv
    <2> QED
        BY <2>1, <2>2 DEF ChannelInv, HolderInv, PcOK, PCs
<1>13. CASE I2sBegin \/ I2sEnd
    <2>1. /\ UNCHANGED <<pc, given>>
          /\ \/ ~ Holds("i2s") /\ GetAndProgram("i2s")
             \/ Holds("i2s") /\ Release("i2s")
        BY <1>13 DEF I2sBegin, I2sEnd, kpuVars
    <2>2. DmaInv' /\ \A v \in {"kpu", "tft"} : Holds(v)' = Holds(v)
        BY <2>1, GetKeeps, ReleaseKeeps DEF ChannelInv
    <2> QED
        BY <2>1, <2>2 DEF ChannelInv, HolderInv, PcOK
<1> QED
    BY <1>1, <1>2, <1>3, <1>4, <1>5, <1>6, <1>7, <1>8, <1>9, <1>10, <1>11, <1>12, <1>13
    DEF Next, KpuStep, UiStep

(* Whatever the tasks do, the allocator's table is exact: a channel is marked  *)
(* used exactly when one driver holds it (hal_dma_get_free_chn,                *)
(* hal_dma_releas_chn and their callers, the error paths included).            *)
THEOREM ChannelsAreHeld == Spec => []ChannelsMatchHolders
<1>1. ChannelInv => ChannelsMatchHolders
    BY DEF ChannelInv, DmaInv
<1> QED
    BY <1>1, ChannelInit, ChannelStep, PTL DEF Spec

-------------------------------------------------------------------------------
(* The camera.  The task that polls holds the lock, and the last capture is    *)
(* under way exactly while a task polls; its frame has ended exactly when the  *)
(* flag is set.                                                                *)
Polling == \E t \in Tasks : pc[t] = "poll"

FrameInv ==
    /\ \A t \in Tasks : pc[t] = "poll" => lock = t
    /\ Polling <=> frame \in {"asked", "ended"}
    /\ frame = "asked" => irq_done_flag = 0
    /\ frame = "ended" => irq_done_flag = 1 /\ ~ converting
    /\ DeliveredFrame

LEMMA FrameInit == Init => FrameInv
    BY DEF Init, DvpInit, FrameInv, DeliveredFrame, Polling

(* A step of a task outside the camera leaves the frame alone.                 *)
LEMMA FrameElsewhere ==
    ASSUME PcOK, FrameInv, UNCHANGED dvpVars,
           \/ UNCHANGED pc
           \/ \E t \in Tasks : pc[t] # "poll" /\ \E q \in PCs \ {"poll"} : pc' = [pc EXCEPT ![t] = q]
    PROVE  FrameInv'
<1>1. \A t \in Tasks : pc'[t] = "poll" <=> pc[t] = "poll"
    BY DEF PcOK
<1>2. Polling' <=> Polling
    BY <1>1 DEF Polling
<1>3. DeliveredFrame'
    BY <1>1 DEF FrameInv, DeliveredFrame, dvpVars
<1> QED
    BY <1>1, <1>2, <1>3 DEF FrameInv, dvpVars

LEMMA FrameStep == ChannelInv /\ FrameInv /\ [Next]_vars => FrameInv'
<1> SUFFICES ASSUME PcOK, FrameInv, [Next]_vars PROVE FrameInv'
    BY DEF ChannelInv
<1> USE UsersAre
<1>1. CASE \E t \in Tasks : Camera(t)
    <2>1. PICK t \in Tasks : Camera(t)
        BY <1>1
    <2>2. lock = NoTask => ~ Polling
        BY DvpAssumption DEF FrameInv, Polling
    <2>3. CASE BeginCall(t) \/ EndCall(t) \/ CaptureCall(t)
        BY <2>3, FrameElsewhere DEF BeginCall, EndCall, CaptureCall, Goto, PCs
    <2>4. CASE BeginLocked(t) \/ EndLocked(t)
        <3>1. lock = NoTask /\ lock' = lock /\ pc[t] # "poll" /\ pc' = [pc EXCEPT ![t] = "idle"]
            BY <2>4 DEF BeginLocked, EndLocked, Goto
        <3>2. frame' = "none" /\ irq_done_flag' = 1 /\ (converting' => overdue')
            <4>1. frame' = "none" /\ irq_done_flag' = 1 /\ overdue' = converting' /\ converting' \in BOOLEAN
                BY <2>4 DEF BeginLocked, EndLocked, TurnOn
            <4> QED
                BY <4>1
        <3>3. ~ Polling'
            BY <2>2, <3>1 DEF Polling, PcOK
        <3> QED
            BY <3>1, <3>2, <3>3 DEF FrameInv, DeliveredFrame, Polling
    <2>5. CASE BeginNoMemory(t)
        <3>1. lock = NoTask /\ pc[t] # "poll" /\ pc' = [pc EXCEPT ![t] = "idle"]
              /\ UNCHANGED <<frame, irq_done_flag, converting, overdue>>
            BY <2>5 DEF BeginNoMemory, Goto
        <3>2. ~ Polling'
            BY <2>2, <3>1 DEF Polling, PcOK
        <3> QED
            BY <2>2, <3>1, <3>2 DEF FrameInv, DeliveredFrame, Polling
    <2>6. CASE CaptureLocked(t)
        <3>1. lock = NoTask /\ lock' = t /\ pc' = [pc EXCEPT ![t] = "poll"]
              /\ frame' = "asked" /\ irq_done_flag' = 0
            BY <2>6 DEF CaptureLocked, Goto
        <3>2. \A v \in Tasks : pc'[v] = "poll" <=> v = t
            BY <2>2, <3>1 DEF Polling, PcOK
        <3> QED
            BY <3>1, <3>2 DEF FrameInv, DeliveredFrame, Polling
    <2>7. CASE CaptureDone(t) \/ CaptureTimeout(t)
        <3>1. pc[t] = "poll" /\ pc' = [pc EXCEPT ![t] = "idle"]
              /\ UNCHANGED <<irq_done_flag, converting>>
            BY <2>7 DEF CaptureDone, CaptureTimeout, Goto
        <3>2. lock = t /\ \A v \in Tasks : pc[v] = "poll" => v = t
            BY <3>1 DEF FrameInv
        <3>3. ~ Polling'
            BY <3>1, <3>2 DEF Polling, PcOK
        <3>4. frame \in {"asked", "ended"}
            BY <3>1 DEF FrameInv, Polling
        <3>5. CASE CaptureDone(t)
            <4>1. irq_done_flag # 0 /\ frame' = (IF frame = "ended" THEN "delivered" ELSE "stale")
                BY <3>5 DEF CaptureDone
            <4>2. frame = "ended" /\ irq_done_flag = 1 /\ ~ converting /\ frame' = "delivered"
                BY <4>1, <3>4 DEF FrameInv
            <4> QED
                BY <4>2, <3>1, <3>3 DEF FrameInv, DeliveredFrame, Polling
        <3>6. CASE CaptureTimeout(t)
            <4>1. overdue' = TRUE /\ frame' = "none"
                BY <3>6 DEF CaptureTimeout
            <4> QED
                BY <4>1, <3>1, <3>3 DEF FrameInv, DeliveredFrame, Polling
        <3> QED
            BY <2>7, <3>5, <3>6
    <2> QED
        BY <2>1, <2>3, <2>4, <2>5, <2>6, <2>7 DEF Camera
<1>2. CASE FrameStart
    <2>1. irq_done_flag = 0 /\ UNCHANGED <<pc, lock, irq_done_flag, frame, overdue>>
        BY <1>2 DEF FrameStart
    <2> QED
        BY <2>1 DEF FrameInv, DeliveredFrame, Polling
<1>3. CASE FrameFinish
    <2>1. converting /\ converting' = FALSE /\ irq_done_flag' = 1 /\ UNCHANGED <<pc, lock>>
          /\ frame' = IF frame = "asked" THEN "ended" ELSE frame
        BY <1>3 DEF FrameFinish
    <2> QED
        BY <2>1 DEF FrameInv, DeliveredFrame, Polling
<1>4. CASE UNCHANGED vars
    BY <1>4, FrameElsewhere DEF vars
<1>5. CASE \E t \in Tasks : FlashRead(t) \/ FlashDone(t)
    BY <1>5, FrameElsewhere DEF FlashRead, FlashDone, Goto, PCs
<1>6. CASE KpuStep
    <2>1. UNCHANGED dvpVars
        BY <1>6 DEF KpuStep, Construct, LoadCall, ReadFails, LoadOk, LoadRefused, ReadEnds, KpuEnd, RunKmodel,
                    RunRefused, RunStarts, AiDone, RunEnds, Loads
    <2>2. \/ UNCHANGED pc
          \/ pc[Ai] # "poll" /\ \E q \in PCs \ {"poll"} : pc' = [pc EXCEPT ![Ai] = q]
        BY <1>6 DEF KpuStep, Construct, LoadCall, ReadFails, LoadOk, LoadRefused, ReadEnds, KpuEnd, RunKmodel,
                    RunRefused, RunStarts, AiDone, RunEnds, Loads, Goto, PCs
    <2> QED
        BY <2>1, <2>2, FrameElsewhere
<1>7. CASE UiStep
    <2>1. UNCHANGED dvpVars
        BY <1>7 DEF UiStep, TftBegin, TftEnd, TftWrite, TftDone, I2sBegin, I2sEnd
    <2>2. \/ UNCHANGED pc
          \/ pc[Ui] # "poll" /\ \E q \in PCs \ {"poll"} : pc' = [pc EXCEPT ![Ui] = q]
        BY <1>7 DEF UiStep, TftBegin, TftEnd, TftWrite, TftDone, I2sBegin, I2sEnd, Goto, PCs
    <2> QED
        BY <2>1, <2>2, FrameElsewhere
<1> QED
    BY <1>1, <1>2, <1>3, <1>4, <1>5, <1>6, <1>7 DEF Next

(* A frame that capture returned was taken after the capture began and is not  *)
(* written again until the next capture, for any number of tasks that capture, *)
(* begin and end, and timeouts at any moment (BusDVP.cpp, capture and          *)
(* _bus_dvp_irq).                                                              *)
THEOREM FramesAreWhole == Spec => []DeliveredFrame
<1>1. FrameInv => DeliveredFrame
    BY DEF FrameInv
<1> QED
    BY <1>1, ChannelInit, ChannelStep, FrameInit, FrameStep, PTL DEF Spec

-------------------------------------------------------------------------------
(* The display.  Unless begin was called again, the remembered mode is the one *)
(* the controller is set to; a write under way suits that mode.                *)
SameWidth(k, mode) == mode = k \/ {k, mode} \subseteq {"command", "byte"}

PanelInv ==
    /\ sending \in Kinds \cup {"none"}
    /\ sending # "none" <=> pc[Ui] = "tft"
    /\ sending # "none" => SameWidth(sending, tft_mode)
    /\ tft_mode \in Kinds \cup {"invalid"}
    /\ width \in {0, 8, 16, 32}
    /\ width = 0 => tft_mode = "invalid"
    /\ ~ rebegun /\ tft_mode # "invalid" => width = WidthOf(tft_mode)
    /\ rebegun \in BOOLEAN

LEMMA KindsAre == Kinds \subseteq {"command", "byte", "half", "word", "fill"}
    BY VisionAssumption

LEMMA PanelInit == Init => PanelInv
    BY UsersAre, KindsAre DEF Init, PanelInv

LEMMA PanelElsewhere ==
    ASSUME PcOK, PanelInv, UNCHANGED tftVars,
           \/ UNCHANGED pc
           \/ \E t \in Tasks : pc[t] # "tft" /\ \E q \in PCs \ {"tft"} : pc' = [pc EXCEPT ![t] = q]
    PROVE  PanelInv'
<1>1. pc'[Ui] = "tft" <=> pc[Ui] = "tft"
    BY UsersAre DEF PcOK
<1> QED
    BY <1>1 DEF PanelInv, tftVars, SameWidth, WidthOf

LEMMA PanelStep == ChannelInv /\ PanelInv /\ [Next]_vars => PanelInv'
<1> SUFFICES ASSUME PcOK, PanelInv, [Next]_vars PROVE PanelInv'
    BY DEF ChannelInv
<1> USE UsersAre, KindsAre
<1>1. CASE UNCHANGED vars
    BY <1>1, PanelElsewhere DEF vars
<1>2. CASE \E t \in Tasks : Camera(t) /\ UNCHANGED <<dmaVars, kpuVars, tftVars>>
    <2>1. PICK t \in Tasks : Camera(t) /\ UNCHANGED tftVars
        BY <1>2
    <2>2. pc[t] # "tft" /\ \E q \in PCs \ {"tft"} : pc' = [pc EXCEPT ![t] = q]
        BY <2>1 DEF Camera, BeginCall, BeginLocked, BeginNoMemory, EndCall, EndLocked, CaptureCall,
                    CaptureLocked, CaptureDone, CaptureTimeout, Goto, PCs
    <2> QED
        BY <2>1, <2>2, PanelElsewhere
<1>3. CASE (FrameStart \/ FrameFinish) /\ UNCHANGED <<dmaVars, kpuVars, tftVars>>
    BY <1>3, PanelElsewhere DEF FrameStart, FrameFinish
<1>4. CASE \E t \in Tasks : FlashRead(t) \/ FlashDone(t)
    BY <1>4, PanelElsewhere DEF FlashRead, FlashDone, Goto, PCs
<1>5. CASE KpuStep
    <2>1. UNCHANGED tftVars
        BY <1>5 DEF KpuStep, Construct, LoadCall, ReadFails, LoadOk, LoadRefused, ReadEnds, KpuEnd, RunKmodel,
                    RunRefused, RunStarts, AiDone, RunEnds, Loads
    <2>2. \/ UNCHANGED pc
          \/ pc[Ai] # "tft" /\ \E q \in PCs \ {"tft"} : pc' = [pc EXCEPT ![Ai] = q]
        BY <1>5 DEF KpuStep, Construct, LoadCall, ReadFails, LoadOk, LoadRefused, ReadEnds, KpuEnd, RunKmodel,
                    RunRefused, RunStarts, AiDone, RunEnds, Loads, Goto, PCs
    <2> QED
        BY <2>1, <2>2, PanelElsewhere
<1>6. CASE I2sBegin \/ I2sEnd
    BY <1>6, PanelElsewhere DEF I2sBegin, I2sEnd
<1>7. CASE TftBegin
    <2>1. sending' = "none" /\ sending = "none" /\ pc'[Ui] = "idle"
        BY <1>7 DEF TftBegin, PanelInv
    <2>2. tft_mode' = tft_mode /\ width' = 8
        BY <1>7 DEF TftBegin
    <2>3. rebegun' \in BOOLEAN /\ (~ rebegun' => width = 0)
        BY <1>7 DEF TftBegin
    <2>4. ~ rebegun' => tft_mode' = "invalid"
        BY <2>2, <2>3 DEF PanelInv
    <2> QED
        BY <2>1, <2>2, <2>3, <2>4 DEF PanelInv
<1>8. CASE TftEnd
    BY <1>8 DEF TftEnd, PanelInv
<1>9. CASE \E k \in Kinds : TftWrite(k)
    <2>1. PICK k \in Kinds : TftWrite(k)
        BY <1>9
    <2>2. width # 0 /\ Configure(k) /\ pc[Ui] = "idle" /\ sending = "none"
        BY <2>1 DEF TftWrite, Goto, PanelInv
    <2>3. \/ pc' = [pc EXCEPT ![Ui] = "tft"] /\ sending' = k
          \/ UNCHANGED <<pc, sending>>
        BY <2>1 DEF TftWrite, Goto
    <2>4. /\ tft_mode' \in Kinds
          /\ SameWidth(k, tft_mode')
          /\ width' \in {8, 16, 32}
          /\ ~ rebegun' => width' = WidthOf(tft_mode')
          /\ rebegun' \in BOOLEAN
        <3>1. CASE Suits(k)
            <4>1. tft_mode' = tft_mode /\ width' = width /\ rebegun' = rebegun
                BY <2>2, <3>1 DEF Configure, PanelInv
            <4>2. SameWidth(k, tft_mode) /\ tft_mode \in Kinds
                BY <3>1 DEF Suits, SameWidth, PanelInv
            <4> QED
                BY <2>2, <4>1, <4>2 DEF PanelInv, SameWidth, WidthOf
        <3>2. CASE ~ Suits(k)
            <4>1. tft_mode' = k /\ width' = WidthOf(k) /\ rebegun' = FALSE
                BY <2>2, <3>2 DEF Configure
            <4>2. WidthOf(k) \in {8, 16, 32}
                BY DEF WidthOf
            <4> QED
                BY <4>1, <4>2 DEF SameWidth
        <3> QED
            BY <3>1, <3>2
    <2> QED
        BY <2>2, <2>3, <2>4 DEF PanelInv, PcOK
<1>10. CASE TftDone
    BY <1>10 DEF TftDone, Goto, PanelInv, PcOK, SameWidth, WidthOf
<1> QED
    BY <1>1, <1>2, <1>3, <1>4, <1>5, <1>6, <1>7, <1>8, <1>9, <1>10 DEF Next, UiStep

(* Every write to the panel is framed by the width of its kind, for any        *)
(* sequence of writes, begins and ends (k210-hal-tft-bus.c), except after a    *)
(* begin on a display that is in use.                                          *)
THEOREM PanelIsFramed == Spec => []PanelWidth
<1>1. PanelInv => PanelWidth
    BY KindsAre DEF PanelInv, PanelWidth, SameWidth, WidthOf
<1> QED
    BY <1>1, ChannelInit, ChannelStep, PanelInit, PanelStep, PTL DEF Spec

-------------------------------------------------------------------------------
(* The heap.  What TypeOK says of the camera, the KPU and the heap.            *)
HeapTypeOK ==
    /\ lock \in Tasks \cup {NoTask} /\ irq_done_flag \in {-1, 0, 1}
    /\ begined \in BOOLEAN /\ converting \in BOOLEAN /\ overdue \in BOOLEAN
    /\ cam_buff \in Blocks \cup {NoBlock, "sketch"} /\ live \subseteq Blocks /\ lost \subseteq Blocks
    /\ frame \in {"none", "asked", "ended", "delivered", "stale"}
    /\ model \in Blocks \cup {NoBlock, "garbage"} /\ loading \in Blocks \cup {NoBlock}
    /\ load_kmodel \in BOOLEAN /\ dangling \in BOOLEAN /\ corrupt \in BOOLEAN

(* Who owns a block: a block is allocated exactly when it has an owner or is   *)
(* lost, no owner's block is lost, and no block has two owners.  The flag that *)
(* load_kmodel tests before it ends the last model is set only for a block     *)
(* that is owned.                                                              *)
Owner(b) == b = cam_buff \/ b = loading \/ (~ dangling /\ b = model)

Sound ==
    /\ \A b \in Blocks : b \in live <=> Owner(b) \/ b \in lost
    /\ \A b \in Blocks : Owner(b) => b \notin lost
    /\ cam_buff \in Blocks => cam_buff # loading /\ (dangling \/ cam_buff # model)
    /\ loading \in Blocks => dangling \/ loading # model
    /\ load_kmodel => ~ dangling /\ model # NoBlock

HeapInv ==
    /\ HeapTypeOK
    /\ loading # NoBlock <=> pc[Ai] \in Loads
    /\ corrupt \/ Sound

LEMMA BlocksAre == /\ NoBlock \notin Blocks /\ "sketch" \notin Blocks /\ NoBlock # "sketch"
                   /\ "garbage" \notin Blocks
    BY DvpAssumption, VisionAssumption DEF NoBlock

LEMMA HeapInit == Init => HeapInv
    BY UsersAre, BlocksAre DEF Init, DvpInit, HeapInv, HeapTypeOK, Sound, Owner, Loads

heapVars == <<live, lost, cam_buff, model, load_kmodel, loading, dangling, corrupt>>

LEMMA HeapElsewhere ==
    ASSUME HeapInv, HeapTypeOK', UNCHANGED heapVars, pc'[Ai] \in Loads <=> pc[Ai] \in Loads
    PROVE  HeapInv'
    BY DEF HeapInv, Sound, Owner, heapVars

LEMMA HeapCamera ==
    ASSUME PcOK, HeapInv, NEW t \in Tasks, Camera(t), UNCHANGED kpuVars
    PROVE  HeapInv'
<1> USE UsersAre, BlocksAre
<1>1. pc'[Ai] \in Loads <=> pc[Ai] \in Loads
    BY DEF Camera, BeginCall, BeginLocked, BeginNoMemory, EndCall, EndLocked, CaptureCall,
           CaptureLocked, CaptureDone, CaptureTimeout, Goto, PcOK, Loads
<1>2. CASE BeginCall(t) \/ EndCall(t) \/ CaptureCall(t) \/ CaptureLocked(t) \/ CaptureDone(t)
           \/ CaptureTimeout(t)
    <2>1. UNCHANGED heapVars /\ UNCHANGED <<begined, converting>>
        BY <1>2 DEF BeginCall, EndCall, CaptureCall, CaptureLocked, CaptureDone, CaptureTimeout,
                    dvpVars, heap, heapVars, kpuVars
    <2>2. /\ lock' \in Tasks \cup {NoTask} /\ irq_done_flag' \in {-1, 0, 1} /\ overdue' \in BOOLEAN
          /\ frame' \in {"none", "asked", "ended", "delivered", "stale"}
        BY <1>2 DEF BeginCall, EndCall, CaptureCall, CaptureLocked, CaptureDone, CaptureTimeout,
                    dvpVars, HeapInv, HeapTypeOK
    <2>3. HeapTypeOK'
        BY <2>1, <2>2 DEF heapVars, HeapInv, HeapTypeOK
    <2> QED
        BY <2>1, <2>3, <1>1, HeapElsewhere
<1>3. CASE BeginLocked(t) \/ BeginNoMemory(t)
    <2>1. lost' = lost \cup (Blocks \cap {cam_buff})
        BY <1>3 DEF BeginLocked, BeginNoMemory, TurnOn, SetBuffer
    <2>2. HeapTypeOK'
        <3>1. CASE BeginLocked(t)
            <4>1. /\ cam_buff' \in Blocks \cup {"sketch"} /\ live' \subseteq Blocks /\ begined' = TRUE
                  /\ irq_done_flag' = 1 /\ converting' \in BOOLEAN /\ frame' = "none"
                  /\ overdue' \in BOOLEAN /\ UNCHANGED lock
                BY <3>1 DEF BeginLocked, TurnOn, SetBuffer, HeapInv, HeapTypeOK
            <4> QED
                BY <2>1, <4>1 DEF kpuVars, HeapInv, HeapTypeOK
        <3>2. CASE BeginNoMemory(t)
            <4>1. /\ cam_buff' = NoBlock /\ lock' = t
                  /\ UNCHANGED <<begined, irq_done_flag, converting, live, frame, overdue>>
                BY <3>2 DEF BeginNoMemory, SetBuffer
            <4> QED
                BY <2>1, <4>1 DEF kpuVars, HeapInv, HeapTypeOK
        <3> QED
            BY <1>3, <3>1, <3>2
    <2>3. ASSUME Sound
          PROVE  Sound'
        <3>1. UNCHANGED <<model, load_kmodel, loading, dangling>>
            BY DEF kpuVars
        <3>2. CASE UNCHANGED live /\ cam_buff' \in {NoBlock, "sketch"}
            BY <2>1, <2>3, <3>1, <3>2 DEF Sound, Owner
        <3>3. CASE \E b \in Blocks \ live : cam_buff' = b /\ live' = live \cup {b}
            BY <2>1, <2>3, <3>1, <3>3 DEF Sound, Owner, HeapInv, HeapTypeOK
        <3> QED
            BY <1>3, <3>2, <3>3 DEF BeginLocked, BeginNoMemory, TurnOn, SetBuffer
    <2> QED
        BY <1>1, <2>2, <2>3 DEF HeapInv, kpuVars
<1>4. CASE EndLocked(t)
    <2>1. HeapTypeOK'
        BY <1>4 DEF EndLocked, kpuVars, HeapInv, HeapTypeOK
    <2>2. live' = live \ {cam_buff} /\ cam_buff' = NoBlock /\ UNCHANGED lost
        BY <1>4 DEF EndLocked
    <2>3. Sound => Sound'
        BY <2>2 DEF Sound, Owner, kpuVars
    <2> QED
        BY <1>1, <2>1, <2>3 DEF HeapInv, kpuVars
<1> QED
    BY <1>2, <1>3, <1>4 DEF Camera

LEMMA HeapKpu ==
    ASSUME PcOK, HeapInv, KpuStep, ~ corrupt
    PROVE  HeapInv'
<1> USE UsersAre, BlocksAre
<1>0. Sound
    BY DEF HeapInv
<1>1. UNCHANGED dvpVars
    BY DEF KpuStep, Construct, LoadCall, ReadFails, LoadOk, LoadRefused, ReadEnds, KpuEnd, RunKmodel,
           RunRefused, RunStarts, AiDone, RunEnds
<1>2. CASE RunKmodel \/ RunRefused \/ RunStarts \/ AiDone
    <2>1. UNCHANGED heapVars
        BY <1>1, <1>2 DEF RunKmodel, RunRefused, RunStarts, AiDone, RunEnds, dvpVars, heap, kpuVars,
                          heapVars
    <2>2. HeapTypeOK'
        BY <1>1, <2>1 DEF dvpVars, heapVars, HeapInv, HeapTypeOK
    <2>3. pc'[Ai] \in Loads <=> pc[Ai] \in Loads
        BY <1>2 DEF RunKmodel, RunRefused, RunStarts, AiDone, Goto, PcOK, Loads
    <2> QED
        BY <2>1, <2>2, <2>3, HeapElsewhere
<1>3. CASE Construct
    <2>1. /\ model = NoBlock /\ model' = "garbage" /\ dangling' = TRUE
          /\ UNCHANGED <<pc, live, lost, load_kmodel, loading, corrupt>>
        BY <1>3 DEF Construct, heap
    <2>2. HeapTypeOK'
        BY <2>1, <1>1 DEF HeapInv, HeapTypeOK, dvpVars
    <2>3. ~ load_kmodel
        BY <1>0, <2>1 DEF Sound
    <2>4. Sound'
        BY <1>0, <2>1, <2>3, <1>1 DEF Sound, Owner, dvpVars
    <2> QED
        BY <2>1, <2>2, <2>4 DEF HeapInv
<1>4. CASE LoadCall
    <2>1. PICK b \in Blocks \ live : loading' = b /\ live' = live \cup {b}
        BY <1>4 DEF LoadCall
    <2>2. pc[Ai] = "idle" /\ pc'[Ai] \in Loads
          /\ UNCHANGED <<lost, model, load_kmodel, dangling, corrupt>>
        BY <1>4 DEF LoadCall, Goto, PcOK, Loads
    <2>3. loading = NoBlock
        BY <2>2 DEF HeapInv, Loads
    <2>4. HeapTypeOK'
        BY <2>1, <2>2, <1>1 DEF HeapInv, HeapTypeOK, dvpVars
    <2>5. Sound'
        BY <1>0, <2>1, <2>2, <2>3, <1>1 DEF Sound, Owner, dvpVars, HeapInv, HeapTypeOK
    <2> QED
        BY <2>1, <2>2, <2>4, <2>5 DEF HeapInv
<1>5. CASE KpuEnd
    <2>1. /\ pc[Ai] = "idle" /\ UNCHANGED <<pc, loading, lost>>
          /\ load_kmodel' = FALSE /\ live' = live \ Freed /\ model' = NoBlock /\ dangling' = FALSE
          /\ corrupt' = (corrupt \/ dangling)
        BY <1>5 DEF KpuEnd
    <2>2. loading = NoBlock
        BY <2>1 DEF HeapInv, Loads
    <2>3. HeapTypeOK'
        BY <2>1, <1>1 DEF HeapInv, HeapTypeOK, dvpVars
    <2>4. ~ dangling => Sound'
        BY <1>0, <2>1, <2>2, <1>1 DEF Sound, Owner, dvpVars, Freed
    <2> QED
        BY <2>1, <2>3, <2>4 DEF HeapInv, HeapTypeOK
<1>6. CASE ReadFails \/ LoadOk \/ LoadRefused
    <2>1. ReadEnds
        BY <1>6 DEF ReadFails, LoadOk, LoadRefused
    <2>2. loading \in Blocks /\ loading' = NoBlock /\ pc'[Ai] \notin Loads /\ UNCHANGED corrupt
        BY <1>6, <2>1 DEF ReadEnds, ReadFails, LoadOk, LoadRefused, HeapInv, HeapTypeOK, PcOK, Loads
    <2>3. HeapTypeOK'
        <3>1. /\ live' \subseteq live /\ lost' \subseteq Blocks
              /\ model' \in {model, loading} /\ load_kmodel' \in BOOLEAN /\ dangling' \in BOOLEAN
            BY <1>6 DEF ReadFails, LoadOk, LoadRefused, LiveAfterEnd, LostByLoad, Freed, HeapInv,
                        HeapTypeOK
        <3> QED
            BY <3>1, <1>1, <2>2 DEF HeapInv, HeapTypeOK, dvpVars
    <2>4. CASE ReadFails
        <3>1. live' = live \ {loading} /\ UNCHANGED <<lost, model, load_kmodel, dangling>>
            BY <2>4 DEF ReadFails
        <3>2. Sound'
            BY <1>0, <2>2, <3>1, <1>1 DEF Sound, Owner, dvpVars
        <3> QED
            BY <2>2, <2>3, <3>2 DEF HeapInv
    <2>5. CASE LoadOk \/ LoadRefused
        <3>1. /\ \A b \in Blocks : b \in LiveAfterEnd <=> b = cam_buff \/ b = loading \/ b \in LostByLoad
              /\ \A b \in Blocks : b = cam_buff \/ b = loading => b \notin LostByLoad
              /\ loading # cam_buff
            BY <1>0, <2>2 DEF Sound, Owner, LiveAfterEnd, LostByLoad, Freed, HeapInv, HeapTypeOK
        <3>2. lost' = LostByLoad /\ model' = loading /\ cam_buff' = cam_buff
            BY <2>5, <1>1 DEF LoadOk, LoadRefused, dvpVars
        <3>3. ASSUME live' = LiveAfterEnd, ~ dangling'
              PROVE  Sound'
            BY <2>2, <3>1, <3>2, <3>3 DEF Sound, Owner
        <3>4. ASSUME live' = LiveAfterEnd \ {loading}, ~ load_kmodel', dangling'
              PROVE  Sound'
            BY <2>2, <3>1, <3>2, <3>4 DEF Sound, Owner
        <3>5. Sound'
            <4>1. CASE LoadOk
                BY <3>3, <4>1 DEF LoadOk
            <4>2. CASE LoadRefused /\ pc[Ai] = "load"
                BY <3>3, <4>2 DEF LoadRefused
            <4>3. CASE LoadRefused /\ pc[Ai] # "load"
                BY <3>4, <4>3 DEF LoadRefused
            <4> QED
                BY <2>5, <4>1, <4>2, <4>3
        <3> QED
            BY <2>2, <2>3, <3>5 DEF HeapInv
    <2> QED
        BY <1>6, <2>4, <2>5
<1> QED
    BY <1>2, <1>3, <1>4, <1>5, <1>6 DEF KpuStep

LEMMA HeapStep == ChannelInv /\ HeapInv /\ [Next]_vars => HeapInv'
<1> SUFFICES ASSUME PcOK, HeapInv, [Next]_vars PROVE HeapInv'
    BY DEF ChannelInv
<1> USE UsersAre
<1>1. CASE UNCHANGED vars
    BY <1>1 DEF vars, dvpVars, kpuVars, heap, HeapInv, HeapTypeOK, Sound, Owner
<1>2. CASE \E t \in Tasks : Camera(t) /\ UNCHANGED <<dmaVars, kpuVars, tftVars>>
    BY <1>2, HeapCamera
<1>3. CASE (FrameStart \/ FrameFinish) /\ UNCHANGED <<dmaVars, kpuVars, tftVars>>
    <2>1. HeapTypeOK' /\ UNCHANGED heapVars /\ UNCHANGED pc
        BY <1>3 DEF FrameStart, FrameFinish, kpuVars, heap, heapVars, HeapInv, HeapTypeOK
    <2> QED
        BY <2>1, HeapElsewhere
<1>4. CASE \E t \in Tasks : FlashRead(t) \/ FlashDone(t)
    <2>1. HeapTypeOK' /\ UNCHANGED heapVars
        BY <1>4 DEF FlashRead, FlashDone, dvpVars, kpuVars, heap, heapVars, HeapInv, HeapTypeOK
    <2>2. pc'[Ai] \in Loads <=> pc[Ai] \in Loads
        BY <1>4 DEF FlashRead, FlashDone, Goto, PcOK, Loads
    <2> QED
        BY <2>1, <2>2, HeapElsewhere
<1>5. CASE KpuStep /\ ~ corrupt
    BY <1>5, HeapKpu
<1>6. CASE UiStep
    <2>1. HeapTypeOK' /\ UNCHANGED heapVars
        BY <1>6 DEF UiStep, TftBegin, TftEnd, TftWrite, TftDone, I2sBegin, I2sEnd, dvpVars, kpuVars,
                    heap, heapVars, HeapInv, HeapTypeOK
    <2>2. pc'[Ai] \in Loads <=> pc[Ai] \in Loads
        BY <1>6 DEF UiStep, TftBegin, TftEnd, TftWrite, TftDone, I2sBegin, I2sEnd, Goto, PcOK, Loads
    <2> QED
        BY <2>1, <2>2, HeapElsewhere
<1> QED
    BY <1>1, <1>2, <1>3, <1>4, <1>5, <1>6 DEF Next

(* Every allocated block has one owner or is lost, and every owner's block is  *)
(* allocated, for any number of blocks and tasks and any sequence of begins,   *)
(* ends and loads, until an end() frees what it does not own (BusDVP.cpp,      *)
(* KPU.cpp).                                                                   *)
THEOREM HeapIsAccounted == Spec => []HeapAccounted
<1>1. ChannelInv /\ PanelInv /\ HeapInv => HeapAccounted
    <2> SUFFICES ASSUME ChannelInv, PanelInv, HeapInv PROVE HeapAccounted
        OBVIOUS
    <2>1. TypeOK
        BY KindsAre DEF TypeOK, ChannelInv, HolderInv, PcOK, DmaInv, PanelInv, HeapInv, HeapTypeOK
    <2>2. Sound => live = Owned \cup lost /\ Owned \cap lost = {}
        BY BlocksAre DEF Sound, Owner, Owned, HeapInv, HeapTypeOK
    <2>3. Sound => (cam_buff \in Blocks => cam_buff \notin {loading, model} \/ dangling)
        BY DEF Sound
    <2> QED
        BY <2>1, <2>2, <2>3 DEF HeapAccounted, HeapInv
<1> QED
    BY <1>1, ChannelInit, ChannelStep, PanelInit, PanelStep, HeapInit, HeapStep, PTL DEF Spec
===============================================================================
