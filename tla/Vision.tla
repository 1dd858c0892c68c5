-------------------------------- MODULE Vision --------------------------------
(* A camera sketch: tasks that capture frames, one of them (Ai) running a      *)
(* model on the KPU (libraries/K210_KPU/src/KPU.cpp), another (Ui) driving the *)
(* display (k210-hal/k210-hal-tft-bus.c) and an I2S stream, and either reading *)
(* the flash.  They share the DMA channels, the heap and the camera.  One      *)
(* KPU_Base object and the display bus have no lock: one task uses each.       *)
EXTENDS Dma, Dvp

CONSTANTS Ai, Ui,        \* two of the tasks
          FlashChn,      \* the channels flash transfers use
          Kinds          \* the kinds of display writes the sketch makes

NoChannel == DMAC_CHANNEL_MAX
ASSUME VisionAssumption ==
    /\ {Ai, Ui} \subseteq Tasks /\ {"kpu", "tft", "i2s"} = Users
    /\ FlashChn \subseteq Chn /\ "garbage" \notin Blocks
    /\ Kinds \subseteq {"command", "byte", "half", "word", "fill"}

VARIABLES model,         \* model.buffer
          load_kmodel,   \* state.load_kmodel
          loading,       \* the block a load_kmodel is given or has allocated
          dangling,      \* ghost: model.buffer was freed by a load that failed, or never set
          corrupt,       \* ghost: end() freed what it does not own
          given,         \* the DMA channel the caller of run_kmodel chose
          tft_mode,      \* tft_bus.mode
          width,         \* frame width the SPI controller is set to, 0 before begin
          sending,       \* the kind of write under way
          rebegun        \* ghost: hal_tft_begin on a display in use, not configured since

kpuVars == <<model, load_kmodel, loading, dangling, corrupt, given>>
tftVars == <<tft_mode, width, sending, rebegun>>
vars == <<pc, heap, dvpVars, dmaVars, kpuVars, tftVars>>

-------------------------------------------------------------------------------
(* Flash transfers: hal_flash_read_data for a file or for a model.             *)
FlashRead(t) ==
    /\ Goto(t, "idle", "flash")
    /\ ProgramUnasked("flash", FlashChn)
    /\ UNCHANGED <<chn_sts, chan, heap, dvpVars, kpuVars, tftVars>>

FlashDone(t) ==
    /\ Goto(t, "flash", "idle")
    /\ TransferOver("flash")
    /\ UNCHANGED <<chn_sts, chan, heap, dvpVars, kpuVars, tftVars>>

-------------------------------------------------------------------------------
(* KPU_Base.  The constructor leaves model.buffer as it finds it; Init is an   *)
(* object in static memory, this step one on the stack after the last is gone. *)
Construct ==
    /\ pc[Ai] = "idle" /\ model = NoBlock
    /\ model' = "garbage" /\ dangling' = TRUE
    /\ UNCHANGED <<pc, heap, dvpVars, dmaVars, load_kmodel, loading, corrupt, given, tftVars>>

(* Two of the load functions allocate, read and hand the block to the third;   *)
(* a block that cannot be read or parsed is freed again.  The sketch may call  *)
(* the third, with a block of its own that the object then owns (KPU.h:25).    *)
Loads == {"flashload", "fileload", "load"}

LoadCall ==
    /\ \E b \in Blocks \ live : loading' = b /\ live' = live \cup {b}
    /\ \/ Goto(Ai, "idle", "flashload") /\ ProgramUnasked("flash", FlashChn)
       \/ (Goto(Ai, "idle", "fileload") \/ Goto(Ai, "idle", "load")) /\ UNCHANGED load
    /\ UNCHANGED <<chn_sts, chan, lost, dvpVars, model, load_kmodel, dangling, corrupt, given, tftVars>>

ReadEnds == /\ pc[Ai] \in Loads
            /\ pc' = [pc EXCEPT ![Ai] = "idle"]
            /\ loading' = NoBlock
            /\ IF pc[Ai] = "flashload" THEN TransferOver("flash") ELSE UNCHANGED load
            /\ UNCHANGED <<chn_sts, chan, dvpVars, given, tftVars>>

ReadFails == /\ pc[Ai] # "load"
             /\ ReadEnds
             /\ live' = live \ {loading}
             /\ UNCHANGED <<lost, model, load_kmodel, dangling, corrupt>>

(* end(), also the destructor, frees what model.buffer points to, its own or   *)
(* not; once it freed another's nothing is promised and the model stops.       *)
Freed == Blocks \cap {model}

KpuEnd ==
    /\ pc[Ai] = "idle"
    /\ load_kmodel' = FALSE
    /\ live' = live \ Freed
    /\ model' = NoBlock
    /\ dangling' = FALSE
    /\ corrupt' = (corrupt \/ dangling)
    /\ UNCHANGED <<pc, lost, dvpVars, dmaVars, loading, given, tftVars>>

(* Seeded fault: a loaded model is replaced without being ended.               *)
F_LiveAfterEnd == live

(* load_kmodel(buffer): a loaded model is ended first.  A block of the sketch  *)
(* that was refused before is not: its pointer is overwritten.                 *)
LiveAfterEnd == IF load_kmodel THEN live \ Freed ELSE live
LostByLoad == lost \cup (IF load_kmodel \/ dangling THEN {} ELSE Freed)

LoadOk == /\ ReadEnds
          /\ live' = LiveAfterEnd
          /\ lost' = LostByLoad
          /\ model' = loading
          /\ load_kmodel' = TRUE
          /\ dangling' = FALSE
          /\ UNCHANGED corrupt

(* The model is refused and model.buffer keeps the block; the two functions    *)
(* that allocated it free it.                                                  *)
LoadRefused == /\ ReadEnds
               /\ live' = IF pc[Ai] = "load" THEN LiveAfterEnd ELSE LiveAfterEnd \ {loading}
               /\ lost' = LostByLoad
               /\ model' = loading
               /\ load_kmodel' = FALSE
               /\ dangling' = (pc[Ai] # "load")
               /\ UNCHANGED corrupt

(* run_kmodel, with a free channel or with the one its caller chose, which the *)
(* allocator is not asked for.  Without a free channel, or when kpu_run_kmodel *)
(* refuses, it returns.                                                        *)
RunKmodel ==
    /\ load_kmodel
    /\ Goto(Ai, "idle", "run")
    /\ \/ GetAndProgram("kpu") /\ UNCHANGED given
       \/ \E c \in Chn : /\ given' = c
                         /\ ProgramUnasked("kpu", {c})
                         /\ UNCHANGED <<chn_sts, chan>>
    /\ UNCHANGED <<heap, dvpVars, model, load_kmodel, loading, dangling, corrupt, tftVars>>

RunChannel == IF given = NoChannel THEN chan["kpu"] ELSE given

(* Only a channel of the allocator is given back.                              *)
RunEnds ==
    /\ IF given = NoChannel THEN Release("kpu") ELSE TransferOver("kpu") /\ UNCHANGED <<chn_sts, chan>>
    /\ given' = NoChannel
    /\ UNCHANGED <<heap, dvpVars, model, load_kmodel, loading, dangling, corrupt, tftVars>>

RunRefused == Goto(Ai, "run", "idle") /\ RunEnds

RunStarts ==
    /\ Goto(Ai, "run", "ai")
    /\ UNCHANGED <<heap, dvpVars, dmaVars, kpuVars, tftVars>>

(* ai_done comes when the KPU's transfers are complete.                        *)
AiDone ==
    /\ Goto(Ai, "ai", "idle")
    /\ load[RunChannel] = "kpu"
    /\ RunEnds

-------------------------------------------------------------------------------
(* The display bus.  The controller is configured again only when the kind of  *)
(* write changes; without a free channel the write is dropped.                 *)
WidthOf(k) == CASE k \in {"command", "byte"} -> 8 [] k = "half" -> 16 [] OTHER -> 32

(* Seeded fault: a command does not look at a mode other than the byte mode.   *)
F_Suits(k) == IF k \in {"command", "byte"} THEN tft_mode \in {"command", "byte", "half"}
              ELSE tft_mode = k

Suits(k) == IF k \in {"command", "byte"} THEN tft_mode \in {"command", "byte"}
            ELSE tft_mode = k

Configure(k) == /\ tft_mode' = IF Suits(k) THEN tft_mode ELSE k
                /\ width' = IF Suits(k) THEN width ELSE WidthOf(k)
                /\ rebegun' = (Suits(k) /\ rebegun)

TftBegin ==
    /\ pc[Ui] = "idle"
    /\ rebegun' = (rebegun \/ width # 0)
    /\ width' = 8
    /\ UNCHANGED <<pc, heap, dvpVars, dmaVars, kpuVars, tft_mode, sending>>

TftEnd ==
    /\ pc[Ui] = "idle"
    /\ tft_mode' = "invalid" /\ width' = 0 /\ rebegun' = FALSE
    /\ UNCHANGED <<pc, heap, dvpVars, dmaVars, kpuVars, sending>>

TftWrite(k) ==
    /\ width # 0
    /\ Configure(k)
    /\ \/ GetAndProgram("tft") /\ Goto(Ui, "idle", "tft") /\ sending' = k
       \/ Free = {} /\ pc[Ui] = "idle" /\ UNCHANGED <<dmaVars, pc, sending>>
    /\ UNCHANGED <<heap, dvpVars, kpuVars>>

(* dmac_wait_done sees an idle channel, also one somebody else made idle.      *)
TftDone ==
    /\ Goto(Ui, "tft", "idle")
    /\ Release("tft")
    /\ sending' = "none"
    /\ UNCHANGED <<heap, dvpVars, kpuVars, tft_mode, width, rebegun>>

-------------------------------------------------------------------------------
(* An I2S stream holds its channel from begin to end.                          *)
I2sBegin == /\ pc[Ui] = "idle" /\ ~ Holds("i2s")
            /\ GetAndProgram("i2s")
            /\ UNCHANGED <<pc, heap, dvpVars, kpuVars, tftVars>>

I2sEnd == /\ pc[Ui] = "idle" /\ Holds("i2s")
          /\ Release("i2s")
          /\ UNCHANGED <<pc, heap, dvpVars, kpuVars, tftVars>>

-------------------------------------------------------------------------------
Camera(t) == BeginCall(t) \/ BeginLocked(t) \/ BeginNoMemory(t) \/ EndCall(t) \/ EndLocked(t)
             \/ CaptureCall(t) \/ CaptureLocked(t) \/ CaptureDone(t) \/ CaptureTimeout(t)

Init == /\ pc = [t \in Tasks |-> "idle"] /\ live = {} /\ lost = {}
        /\ DvpInit /\ DmaInit
        /\ model = NoBlock /\ load_kmodel = FALSE /\ loading = NoBlock
        /\ dangling = FALSE /\ corrupt = FALSE /\ given = NoChannel
        /\ tft_mode = "invalid" /\ width = 0 /\ sending = "none" /\ rebegun = FALSE

KpuStep == Construct \/ LoadCall \/ ReadFails \/ LoadOk \/ LoadRefused \/ KpuEnd
           \/ RunKmodel \/ RunRefused \/ RunStarts \/ AiDone
UiStep == TftBegin \/ TftEnd \/ (\E k \in Kinds : TftWrite(k)) \/ TftDone \/ I2sBegin \/ I2sEnd

Next == /\ ~ corrupt
        /\ \/ \E t \in Tasks : Camera(t) /\ UNCHANGED <<dmaVars, kpuVars, tftVars>>
           \/ (FrameStart \/ FrameFinish) /\ UNCHANGED <<dmaVars, kpuVars, tftVars>>
           \/ \E t \in Tasks : FlashRead(t) \/ FlashDone(t)
           \/ KpuStep \/ UiStep

(* The tasks have the same priority and are scheduled in turn; a poll sees the *)
(* flag or the time; a transfer that is not cut short completes.               *)
Fairness == /\ \A t \in Tasks : WF_vars(/\ CaptureDone(t) \/ CaptureTimeout(t)
                                        /\ UNCHANGED <<dmaVars, kpuVars, tftVars>>)
            /\ WF_vars(AiDone) /\ WF_vars(RunRefused \/ RunStarts)
            /\ WF_vars(ReadFails \/ LoadOk \/ LoadRefused) /\ WF_vars(TftDone)

Spec == Init /\ [][Next]_vars /\ Fairness

-------------------------------------------------------------------------------
PCs == {"idle", "begin", "end", "capture", "poll", "flash", "flashload", "fileload", "load", "run", "ai", "tft"}

TypeOK ==
    /\ pc \in [Tasks -> PCs]
    /\ lock \in Tasks \cup {NoTask} /\ irq_done_flag \in {-1, 0, 1}
    /\ {begined, converting, overdue} \subseteq BOOLEAN
    /\ cam_buff \in Blocks \cup {NoBlock, "sketch"} /\ live \subseteq Blocks /\ lost \subseteq Blocks
    /\ frame \in {"none", "asked", "ended", "delivered", "stale"}
    /\ DmaTypeOK
    /\ model \in Blocks \cup {NoBlock, "garbage"} /\ loading \in Blocks \cup {NoBlock}
    /\ given \in Chn \cup {NoChannel}
    /\ {load_kmodel, dangling, corrupt, rebegun} \subseteq BOOLEAN
    /\ tft_mode \in {"command", "byte", "half", "word", "fill", "invalid"}
    /\ width \in {0, 8, 16, 32} /\ sending \in Kinds \cup {"none"}

(* A frame that capture delivered ended after the capture began, and nothing   *)
(* writes into it until a task captures again or turns the bus off: neither    *)
(* the frame a timed-out capture left behind nor the next one the sensor sends *)
(* (lines 23-40, 206-232).  The buffer is written while nobody waits only      *)
(* after a capture gave up, and then by one frame (line 219 leaves the flag).  *)
DeliveredFrame ==
    /\ frame # "stale"
    /\ frame = "delivered" => ~ converting /\ irq_done_flag = 1
    /\ converting \/ irq_done_flag = 0 => overdue \/ \E t \in Tasks : pc[t] = "poll"

(* The state keeps its types.                                                  *)
(* The camera and the KPU each own their block of the heap: whatever sequence  *)
(* of begin, end and loads that succeed or fail, every allocated block has one *)
(* owner or is lost, and every owner's block is allocated.  A block is lost    *)
(* only where a begin raced another (BusDVP.cpp:67) or where a load follows    *)
(* the refusal of a block the sketch handed over (KPU.cpp:45-52).  Nothing is  *)
(* said after an end() that freed what it does not own: the block of a load    *)
(* that failed, or whatever model.buffer was constructed with (KPU.cpp:12-40). *)
Owned == Blocks \cap ({cam_buff, loading} \cup (IF dangling THEN {} ELSE {model}))
HeapAccounted ==
    /\ TypeOK
    /\ corrupt \/ ( /\ live = Owned \cup lost /\ Owned \cap lost = {}
                    /\ cam_buff \in Blocks => cam_buff \notin {loading, model} \/ dangling )

(* What is sent to the panel is framed by the width of its kind, through any   *)
(* sequence of commands and data, dropped writes included; a second begin      *)
(* without an end loses track (lines 145-173 keep the mode).                   *)
PanelWidth == sending # "none" /\ ~ rebegun => width = WidthOf(sending)

(* Every wait ends: a capture releases the lock, by a frame or by its timeout, *)
(* and a model run ends.  Two exceptions are in the code: begin without memory *)
(* keeps the lock, and a run whose channel another transfer took spins on, one *)
(* of the flash or, where the caller chose the channel, of any user.           *)
Abandoned == lock # NoTask /\ pc[lock] # "poll" /\ cam_buff = NoBlock
WaitsEnd ==
    /\ (lock # NoTask) ~> (lock = NoTask \/ Abandoned)
    /\ (pc[Ai] = "ai") ~> (pc[Ai] = "idle" \/ (RunChannel \in Chn /\ load[RunChannel] # "kpu"))
===============================================================================
