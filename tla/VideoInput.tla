----------------------------- MODULE VideoInput -----------------------------
(***************************************************************************)
(* The two classes behind the interface VideoInput, a file and a camera.   *)
(* A program has one of them; the other one stays as it is.                *)
(***************************************************************************)
EXTENDS Y4MInput, Webcam

VARIABLE input    \* the class of the program's VideoInput

vars == <<input, y4mVars, camVars>>

Init == /\ input \in {"YUV4MPEG", "VideoDevice"}
        /\ Y4MInit
        /\ input # "YUV4MPEG" => file = <<>> /\ ~loop
        /\ CamInit

FileStep == input = "YUV4MPEG" /\ Y4MStep /\ UNCHANGED <<input, camVars>>

CameraStep == input = "VideoDevice" /\ CamStep /\ UNCHANGED <<input, y4mVars>>

Next == \/ FileStep
        \/ CameraStep
        \/ /\ input = "YUV4MPEG"
           /\ BeginReadFrame
           /\ UNCHANGED <<input, camVars>>
        \/ /\ input = "VideoDevice"
           /\ Capture \/ Unplug \/ WindowEvent
           /\ UNCHANGED <<input, y4mVars>>

(* Both programs are scheduled, and the file system answers.  Nothing      *)
(* makes the camera deliver a frame.                                       *)
Fairness == WF_vars(FileStep) /\ WF_vars(CameraStep)

Spec == Init /\ [][Next]_vars /\ Fairness

-----------------------------------------------------------------------------
Reading == /\ input = "YUV4MPEG"
           /\ y4m_pc \notin {"ready", "end", "failed"}

(* read_frame and the constructor return or throw, whatever the file       *)
(* holds: no line and no rewinding goes on for ever.                       *)
ReadReturns == Reading ~> ~Reading

(* The window can be closed: a request to quit is noticed as soon as there *)
(* is another frame to wake the program, or the camera is gone.            *)
QuitNoticed ==
  SignalQuit(events) /\ (filled # <<>> \/ unplugged) ~> cam_pc = "ended"
=============================================================================
