------------------------------- MODULE Webcam -------------------------------
(***************************************************************************)
(* The webcam program: class VideoDevice, which takes frames from a camera *)
(* through buffers it shares with the driver, the conversion of their      *)
(* pixels in RawImage, and a loop that shows them until the window is      *)
(* closed.                                                                 *)
(***************************************************************************)
EXTENDS Integers, Sequences, FiniteSets

CONSTANTS
  NUM_BUFFERS,             \* asked for; the driver may grant fewer
  cam_width, cam_height,   \* of the camera, the image, the window
  MaxCaptured,             \* bound: frames the camera takes
  MaxEvents,               \* bound: events of the window
  NoBuffer

ASSUME WebcamAssumption ==
  /\ NUM_BUFFERS \in Nat \ {0}
  /\ cam_width \in Nat \ {0} /\ cam_height \in Nat \ {0}
  /\ cam_width % 2 = 0 /\ cam_height % 2 = 0
  /\ MaxCaptured \in Nat
  /\ MaxEvents \in Nat
  /\ NoBuffer \notin Nat

VARIABLES
  cam_pc,      \* where main is
  buf_mem,     \* buf_mem_: buffer -> the frame last written to it, or 0
  queued,      \* buffers the driver may fill, in order
  filled,      \* buffers with a frame to be read, in order
  held,        \* the buffer taken by VIDIOC_DQBUF and not yet given back
  captured,    \* frames taken by the camera so far
  unplugged,   \* the camera is gone
  events,      \* events of the window not yet looked at
  total_events,
  cam_img,     \* raw_img: plane -> byte of the camera's frame at each place
  cam_shown    \* frames delivered by read_frame

deviceVars == <<buf_mem, queued, filled, held, captured, unplugged>>
windowVars == <<events, total_events>>
camVars == <<cam_pc, deviceVars, windowVars, cam_img, cam_shown>>

-----------------------------------------------------------------------------
(* RawImage::copy_from_yuyv.  Byte k of the source is <<frame, k>>.  The   *)
(* pointer p skips two bytes per Y, four per pair of pixels, and after     *)
(* each row of pairs the row below.                                        *)

Chroma == (0..(cam_height \div 2 - 1)) \X (0..(cam_width \div 2 - 1))

SourceY(i) == 2 * i

(* Mutant: the row below is not skipped. *)
SourceUVNextRow(ij) == ij[1] * 4 * (cam_width \div 2) + 4 * ij[2]

SourceUV(ij) == ij[1] * (4 * (cam_width \div 2) + 2 * cam_width) + 4 * ij[2]

CopiedY(f) == [i \in 0..(cam_width * cam_height - 1) |-> <<f, SourceY(i)>>]
CopiedU(f) == [ij \in Chroma |-> <<f, SourceUV(ij) + 1>>]
CopiedV(f) == [ij \in Chroma |-> <<f, SourceUV(ij) + 3>>]

(* What it should be: in YUYV two neighbours in a row share four bytes,    *)
(* the Y of one, U, the Y of the other, V; in I420 a block of two by two   *)
(* pixels has one U and one V, here those of its upper row.                *)
At(row, col) == 2 * (row * cam_width + col)

Picture(f) ==
  [y |-> [i \in 0..(cam_width * cam_height - 1) |->
            <<f, At(i \div cam_width, i % cam_width)>>],
   u |-> [ij \in Chroma |-> <<f, At(2 * ij[1], 2 * ij[2]) + 1>>],
   v |-> [ij \in Chroma |-> <<f, At(2 * ij[1], 2 * ij[2]) + 3>>]]

(* The frame an image shows, 0 if it is not one frame, whole. *)
FrameOfImage(img) == IF \E f \in 1..captured : img = Picture(f)
                     THEN CHOOSE f \in 1..captured : img = Picture(f)
                     ELSE 0

-----------------------------------------------------------------------------
(* The constructor: the driver grants n buffers, all of which are queued,  *)
(* and the camera is started; or something is refused and main throws.     *)
OpenDevice ==
  /\ cam_pc = "open"
  /\ \/ /\ \E n \in 1..NUM_BUFFERS :
             /\ buf_mem' = [b \in 1..n |-> 0]
             /\ queued' = [b \in 1..n |-> b]
        /\ cam_pc' = "top"
     \/ /\ cam_pc' = "ended"
        /\ UNCHANGED <<buf_mem, queued>>
  /\ UNCHANGED <<filled, held, captured, unplugged, windowVars, cam_img,
                 cam_shown>>

-----------------------------------------------------------------------------
(* main and VideoDisplay::signal_quit *)

(* Mutant: only the last event counts. *)
QuitIsLast(evs) == evs # <<>> /\ evs[Len(evs)] = "quit"

SignalQuit(evs) == \E i \in DOMAIN evs : evs[i] = "quit"

(* Looks at the events up to the first that asks to quit. *)
LoopTop ==
  /\ cam_pc = "top"
  /\ cam_pc' = IF SignalQuit(events) THEN "ended" ELSE "poll"
  /\ events' = <<>>
  /\ UNCHANGED <<deviceVars, total_events, cam_img, cam_shown>>

(* poll(2) returns when there is a buffer to read, and runs the callback.  *)
PollReadable ==
  /\ cam_pc = "poll"
  /\ filled # <<>>
  /\ cam_pc' = "dequeue"
  /\ UNCHANGED <<deviceVars, windowVars, cam_img, cam_shown>>

(* A camera that is gone is reported as an error, for which there is no    *)
(* callback.                                                               *)
PollError ==
  /\ cam_pc = "poll"
  /\ unplugged
  /\ filled = <<>>
  /\ cam_pc' = "top"
  /\ UNCHANGED <<deviceVars, windowVars, cam_img, cam_shown>>

-----------------------------------------------------------------------------
(* VideoDevice::read_frame *)

(* VIDIOC_DQBUF fails: "try to read frame from camera later". *)
DequeueFails ==
  /\ cam_pc = "dequeue"
  /\ cam_pc' = "top"
  /\ UNCHANGED <<deviceVars, windowVars, cam_img, cam_shown>>

Dequeue ==
  /\ cam_pc = "dequeue"
  /\ filled # <<>>
  /\ held' = Head(filled)
  /\ filled' = Tail(filled)
  /\ cam_pc' = "copy y"
  /\ UNCHANGED <<buf_mem, queued, captured, unplugged, windowVars, cam_img,
                 cam_shown>>

CopyYPlane ==
  /\ cam_pc = "copy y"
  /\ cam_img' = [cam_img EXCEPT !.y = CopiedY(buf_mem[held])]
  /\ cam_pc' = "copy uv"
  /\ UNCHANGED <<deviceVars, windowVars, cam_shown>>

CopyUVPlanes ==
  /\ cam_pc = "copy uv"
  /\ cam_img' = [cam_img EXCEPT !.u = CopiedU(buf_mem[held]),
                                !.v = CopiedV(buf_mem[held])]
  /\ cam_pc' = "requeue"
  /\ UNCHANGED <<deviceVars, windowVars, cam_shown>>

(* Mutant: the buffer is not given back. *)
RequeueNot ==
  /\ cam_pc = "requeue"
  /\ held' = NoBuffer
  /\ cam_shown' = Append(cam_shown, FrameOfImage(cam_img))
  /\ cam_pc' = "top"
  /\ UNCHANGED <<buf_mem, queued, filled, captured, unplugged, windowVars,
                 cam_img>>

(* VIDIOC_QBUF; read_frame returns true and the frame is shown.  It fails  *)
(* if the camera is gone, and main throws.                                 *)
Requeue ==
  /\ cam_pc = "requeue"
  /\ \/ /\ queued' = Append(queued, held)
        /\ held' = NoBuffer
        /\ cam_shown' = Append(cam_shown, FrameOfImage(cam_img))
        /\ cam_pc' = "top"
     \/ /\ unplugged
        /\ cam_pc' = "ended"
        /\ UNCHANGED <<queued, held, cam_shown>>
  /\ UNCHANGED <<buf_mem, filled, captured, unplugged, windowVars, cam_img>>

-----------------------------------------------------------------------------
(* The camera fills the next buffer, or has none and drops the frame. *)

Streaming == cam_pc \notin {"open", "ended"} /\ ~unplugged

Capture ==
  /\ Streaming
  /\ captured < MaxCaptured
  /\ captured' = captured + 1
  /\ IF queued = <<>>
     THEN UNCHANGED <<buf_mem, queued, filled>>
     ELSE /\ buf_mem' = [buf_mem EXCEPT ![Head(queued)] = captured + 1]
          /\ queued' = Tail(queued)
          /\ filled' = Append(filled, Head(queued))
  /\ UNCHANGED <<cam_pc, held, unplugged, windowVars, cam_img, cam_shown>>

Unplug ==
  /\ Streaming
  /\ unplugged' = TRUE
  /\ UNCHANGED <<cam_pc, buf_mem, queued, filled, held, captured, windowVars,
                 cam_img, cam_shown>>

(* The user does something with the window. *)
WindowEvent ==
  /\ cam_pc \notin {"open", "ended"}
  /\ total_events < MaxEvents
  /\ \E e \in {"quit", "other"} : events' = Append(events, e)
  /\ total_events' = total_events + 1
  /\ UNCHANGED <<cam_pc, deviceVars, cam_img, cam_shown>>

-----------------------------------------------------------------------------
CamInit == /\ cam_pc = "open"
           /\ buf_mem = <<>>
           /\ queued = <<>>
           /\ filled = <<>>
           /\ held = NoBuffer
           /\ captured = 0
           /\ unplugged = FALSE
           /\ events = <<>>
           /\ total_events = 0
           /\ cam_img = [y |-> <<>>, u |-> <<>>, v |-> <<>>]
           /\ cam_shown = <<>>

CamStep == \/ OpenDevice \/ LoopTop \/ PollReadable \/ PollError
           \/ DequeueFails \/ Dequeue \/ CopyYPlane \/ CopyUVPlanes \/ Requeue

-----------------------------------------------------------------------------
(* The images are frames of the camera, later ones after earlier ones, and *)
(* no image is put together from two, although the driver refills the      *)
(* buffers while they are converted.                                       *)
AsCamera == INSTANCE FrameSource WITH frames <- 0, shown <- cam_shown
CameraInOrder == AsCamera!Spec

(* No buffer is lost or with two owners: each is queued, filled or held,   *)
(* once, also after a read that failed.                                    *)
BuffersConserved ==
  LET owned == queued \o filled \o (IF held = NoBuffer THEN <<>> ELSE <<held>>)
  IN /\ Len(owned) = Len(buf_mem)
     /\ {owned[i] : i \in DOMAIN owned} = DOMAIN buf_mem
=============================================================================
