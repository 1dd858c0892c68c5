--------------------------------- MODULE Dvp ----------------------------------
(* The camera bus (libraries/K210_CAMERA/src/BusDVP.cpp): begin, end and       *)
(* capture under a spin lock, against the frame interrupts of the sensor.      *)
(* The steps between taking and releasing the lock are one action, except in   *)
(* capture, which polls with the lock held.  The sensor (external) sends       *)
(* frames while the bus is on; the interrupt at the end of a frame is modelled *)
(* for the frames that were converted into the buffer.                         *)
EXTENDS Integers

CONSTANTS Tasks,     \* the tasks that call the camera
          Blocks     \* blocks of the heap

NoTask == "none"
NoBlock == "none"

ASSUME DvpAssumption == NoTask \notin Tasks /\ {NoBlock, "sketch"} \cap Blocks = {}

VARIABLES pc,              \* where each task is; "idle" between calls
          lock,            \* the task that took _lock last and did not release it
          begined,
          irq_done_flag,   \* _irq_done_flag
          converting,      \* the frame being sent is written into the buffer
          cam_buff,        \* _buff.disply: a heap block, the sketch's, or NULL
          live,            \* the heap blocks allocated
          frame,           \* ghost: the last capture: "asked" while it waits, "ended"
                           \* when its frame has, then "delivered", or "stale"
          overdue,         \* ghost: a capture gave up and no frame has ended since
          lost             \* ghost: the heap blocks whose only pointer was overwritten

dvpVars == <<lock, begined, irq_done_flag, converting, cam_buff, frame, overdue>>
heap == <<live, lost>>

DvpInit == /\ lock = NoTask /\ begined = FALSE /\ irq_done_flag = -1 /\ converting = FALSE
           /\ cam_buff = NoBlock /\ frame = "none" /\ overdue = FALSE

Goto(t, from, to) == pc[t] = from /\ pc' = [pc EXCEPT ![t] = to]

-------------------------------------------------------------------------------
(* begin: begined is looked at before the lock is taken.                      *)
BeginCall(t) == /\ ~ begined
                /\ Goto(t, "idle", "begin")
                /\ UNCHANGED <<dvpVars, heap>>

(* The bus is set up for the buffer b, the DVP reset and its interrupt on.     *)
(* The flag is set after that: where a capture that gave up left it 0, a frame *)
(* that starts in between is converted.  A begin that raced another drops the  *)
(* other's buffer.                                                             *)
SetBuffer(b) == cam_buff' = b /\ lost' = lost \cup (Blocks \cap {cam_buff})

TurnOn(b) == /\ SetBuffer(b)
             /\ begined' = TRUE
             /\ irq_done_flag' = 1
             /\ converting' \in {FALSE, irq_done_flag = 0}
             /\ frame' = "none"
             /\ overdue' = converting'

(* With the sketch's buffers, or with a block of the heap.                     *)
BeginLocked(t) ==
    /\ lock = NoTask
    /\ Goto(t, "begin", "idle")
    /\ \/ TurnOn("sketch") /\ UNCHANGED live
       \/ \E b \in Blocks \ live : TurnOn(b) /\ live' = live \cup {b}
    /\ UNCHANGED lock

(* No memory: begin returns with the lock held.                                *)
BeginNoMemory(t) ==
    /\ lock = NoTask
    /\ Goto(t, "begin", "idle")
    /\ lock' = t
    /\ SetBuffer(NoBlock)
    /\ UNCHANGED <<begined, irq_done_flag, converting, live, frame, overdue>>

EndCall(t) == Goto(t, "idle", "end") /\ UNCHANGED <<dvpVars, heap>>

EndLocked(t) ==
    /\ lock = NoTask
    /\ Goto(t, "end", "idle")
    /\ begined' = FALSE
    /\ converting' = FALSE
    /\ live' = live \ {cam_buff}
    /\ cam_buff' = NoBlock
    /\ irq_done_flag' = 1
    /\ frame' = "none"
    /\ overdue' = FALSE
    /\ UNCHANGED <<lock, lost>>

-------------------------------------------------------------------------------
(* capture                                                                     *)
CaptureCall(t) == Goto(t, "idle", "capture") /\ UNCHANGED <<dvpVars, heap>>

CaptureLocked(t) ==
    /\ lock = NoTask
    /\ Goto(t, "capture", "poll")
    /\ lock' = t
    /\ irq_done_flag' = 0
    /\ frame' = "asked"
    /\ UNCHANGED <<begined, converting, cam_buff, live, overdue, lost>>

(* The loop ends: the frame is in the buffer, and its bytes are put in order.  *)
CaptureDone(t) ==
    /\ irq_done_flag # 0
    /\ Goto(t, "poll", "idle")
    /\ lock' = NoTask
    /\ frame' = IF frame = "ended" THEN "delivered" ELSE "stale"
    /\ UNCHANGED <<begined, irq_done_flag, converting, cam_buff, live, overdue, lost>>

(* Seeded fault: the timeout returns without releasing the lock.               *)
F_CaptureTimeout(t) ==
    /\ irq_done_flag = 0
    /\ Goto(t, "poll", "idle")
    /\ overdue' = TRUE
    /\ frame' = "none"
    /\ UNCHANGED <<lock, begined, irq_done_flag, converting, cam_buff, heap>>

(* The time is over; the flag stays 0 and the next frame is converted all the  *)
(* same.                                                                       *)
CaptureTimeout(t) ==
    /\ irq_done_flag = 0
    /\ Goto(t, "poll", "idle")
    /\ lock' = NoTask
    /\ overdue' = TRUE
    /\ frame' = "none"
    /\ UNCHANGED <<begined, irq_done_flag, converting, cam_buff, heap>>

-------------------------------------------------------------------------------
(* Seeded fault: the conversion is started whoever waits.                      *)
F_FrameStart ==
    /\ begined /\ ~ converting
    /\ converting' = TRUE
    /\ UNCHANGED <<pc, lock, begined, irq_done_flag, cam_buff, live, frame, overdue, lost>>

(* _bus_dvp_irq, at the start and at the end of a frame.                       *)
FrameStart ==
    /\ begined /\ ~ converting
    /\ irq_done_flag = 0
    /\ converting' = TRUE
    /\ UNCHANGED <<pc, lock, begined, irq_done_flag, cam_buff, live, frame, overdue, lost>>

FrameFinish ==
    /\ begined /\ converting
    /\ converting' = FALSE
    /\ irq_done_flag' = 1
    /\ frame' = IF frame = "asked" THEN "ended" ELSE frame
    /\ overdue' = FALSE
    /\ UNCHANGED <<pc, lock, begined, cam_buff, heap>>
===============================================================================
