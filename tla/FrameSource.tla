----------------------------- MODULE FrameSource -----------------------------
(***************************************************************************)
(* What class VideoInput promises to whoever calls read_frame: each call   *)
(* that succeeds leaves one whole frame in the image, and one that comes   *)
(* after the frame of the call before: the next one of a file, which       *)
(* begins anew after the last, or a later one of a camera.                 *)
(***************************************************************************)
EXTENDS Integers, Sequences

VARIABLES
  frames,   \* frames of the source, 0 if it has no end
  shown     \* frames delivered, oldest first; 0 is a broken one

LastShown == IF shown = <<>> THEN 0 ELSE shown[Len(shown)]

Follows(f) == IF frames = 0
              THEN f > LastShown
              ELSE f = (LastShown % frames) + 1

Init == frames \in Nat /\ shown = <<>>

Next == /\ shown' # <<>>
        /\ LET f == shown'[Len(shown')]
           IN /\ Follows(f)
              /\ shown' = Append(shown, f)
        /\ UNCHANGED frames

Spec == Init /\ [][Next]_<<frames, shown>>
=============================================================================
