--------------------------- MODULE VideoInputProofs ---------------------------
(***************************************************************************)
(* The camera, for every number of buffers, every size of the picture and  *)
(* every behaviour of the driver: VideoDevice loses no buffer, and its     *)
(* images are whole frames in the order they were taken.                   *)
(*                                                                         *)
(* The file, for every header, every number of frames, every size of the   *)
(* picture, every place where the file may be cut short and every way in   *)
(* which read(2) may cut its answers: YUV4MPEG delivers whole frames in    *)
(* order, and stops for a reason.                                          *)
(***************************************************************************)
EXTENDS VideoInput, FiniteSetTheorems, SequenceTheorems, TLAPS

-----------------------------------------------------------------------------
(* The inductive invariant of the camera.  That a buffer has one owner is  *)
(* more than BuffersConserved says, and what keeps the driver from writing *)
(* to the buffer being converted.  That the frames in the filled buffers   *)
(* are in order, and later than the one being converted and everything     *)
(* shown, gives the order of the images.                                   *)

CamTypes ==
  /\ cam_pc \in {"open", "top", "poll", "dequeue", "copy y", "copy uv",
                 "requeue", "ended"}
  /\ captured \in Nat
  /\ buf_mem \in Seq(Nat)
  /\ queued \in Seq(DOMAIN buf_mem)
  /\ filled \in Seq(DOMAIN buf_mem)
  /\ held \in DOMAIN buf_mem \cup {NoBuffer}
  /\ cam_shown \in Seq(Nat)
  /\ cam_img = [y |-> cam_img.y, u |-> cam_img.u, v |-> cam_img.v]

Converting == cam_pc \in {"copy y", "copy uv", "requeue"}

HeldInTurn ==
  /\ Converting => held # NoBuffer
  /\ cam_pc \in {"open", "top", "poll", "dequeue"} => held = NoBuffer
  /\ cam_pc = "open" => buf_mem = <<>> /\ filled = <<>>

OneOwner ==
  /\ \A i, j \in DOMAIN queued : queued[i] = queued[j] => i = j
  /\ \A i, j \in DOMAIN filled : filled[i] = filled[j] => i = j
  /\ \A i \in DOMAIN queued, j \in DOMAIN filled : queued[i] # filled[j]
  /\ \A i \in DOMAIN queued : queued[i] # held
  /\ \A i \in DOMAIN filled : filled[i] # held

EveryBufferOwned ==
  /\ Len(queued) + Len(filled) + (IF held = NoBuffer THEN 0 ELSE 1)
       = Len(buf_mem)
  /\ \A b \in DOMAIN buf_mem : \/ b = held
                               \/ \E i \in DOMAIN queued : queued[i] = b
                               \/ \E i \in DOMAIN filled : filled[i] = b

(* The frame shown last, and one that was taken after it. *)
LastFrame == IF cam_shown = <<>> THEN 0 ELSE cam_shown[Len(cam_shown)]

Unseen(f) == f \in 1..captured /\ f > LastFrame

TakenInOrder ==
  /\ LastFrame \in 0..captured
  /\ \A i \in DOMAIN filled : Unseen(buf_mem[filled[i]])
  /\ \A i, j \in DOMAIN filled :
       i < j => buf_mem[filled[i]] < buf_mem[filled[j]]
  /\ held # NoBuffer =>
       /\ Unseen(buf_mem[held])
       /\ \A i \in DOMAIN filled : buf_mem[held] < buf_mem[filled[i]]

ImageOfHeld ==
  /\ cam_pc \in {"copy uv", "requeue"} => cam_img.y = CopiedY(buf_mem[held])
  /\ cam_pc = "requeue" => /\ cam_img.u = CopiedU(buf_mem[held])
                           /\ cam_img.v = CopiedV(buf_mem[held])

CamInv == /\ CamTypes /\ HeldInTurn /\ OneOwner /\ EveryBufferOwned
          /\ TakenInOrder /\ ImageOfHeld

-----------------------------------------------------------------------------
(* copy_from_yuyv computes the picture for every even width and height: a  *)
(* pixel of the Y plane is where the quotient and the remainder of its     *)
(* index say, and two pointers that skip every other row meet every block. *)

LEMMA LumaAt ==
  ASSUME NEW i \in Nat
  PROVE  SourceY(i) = At(i \div cam_width, i % cam_width)
  <1> DEFINE w == cam_width
             q == i \div w
             r == i % w
  <1>1. w \in Nat \ {0}
    BY WebcamAssumption
  <1> HIDE DEF w
  <1>2. q \in Int /\ r \in 0..(w - 1) /\ i = w * q + r
    BY <1>1, SMTT(30)
  <1>3. w * q = q * w
    BY <1>1, <1>2
  <1> HIDE DEF q, r
  <1>4. q * w \in Int
    BY <1>1, <1>2
  <1> QED
    BY <1>2, <1>3, <1>4 DEF SourceY, At, w, q, r

LEMMA ChromaAt ==
  ASSUME NEW ij \in Chroma
  PROVE  SourceUV(ij) = At(2 * ij[1], 2 * ij[2])
  <1> DEFINE w == cam_width
             half == w \div 2
  <1>1. w \in Nat /\ w % 2 = 0
    BY WebcamAssumption
  <1>2. PICK a \in Int, b \in Int : ij = <<a, b>>
    BY DEF Chroma
  <1> HIDE DEF w
  <1>3. half \in Int /\ w = 2 * half
    BY <1>1
  <1> HIDE DEF half
  <1>4. /\ a * (4 * half + 2 * w) = a * (4 * w)
        /\ 4 * w = 4 * w
    BY <1>3, <1>2
  <1>5. a * (4 * w) = 4 * (a * w) /\ (2 * a) * w = 2 * (a * w) /\ a * w \in Int
    BY <1>1, <1>2
  <1> QED
    BY <1>2, <1>4, <1>5 DEF SourceUV, At, w, half

LEMMA ConversionRight ==
  ASSUME NEW f
  PROVE  [y |-> CopiedY(f), u |-> CopiedU(f), v |-> CopiedV(f)] = Picture(f)
  <1>1. CopiedY(f) = [i \in 0..(cam_width * cam_height - 1) |->
                        <<f, At(i \div cam_width, i % cam_width)>>]
    <2>1. \A i \in 0..(cam_width * cam_height - 1) : i \in Nat
      OBVIOUS
    <2> QED
      BY <2>1, LumaAt DEF CopiedY
  <1>2. /\ CopiedU(f) = [ij \in Chroma |-> <<f, At(2 * ij[1], 2 * ij[2]) + 1>>]
        /\ CopiedV(f) = [ij \in Chroma |-> <<f, At(2 * ij[1], 2 * ij[2]) + 3>>]
    BY ChromaAt DEF CopiedU, CopiedV
  <1> QED
    BY <1>1, <1>2 DEF Picture

(* The image of a frame shows that frame and no other. *)
LEMMA ImageShows ==
  ASSUME NEW f \in 1..captured
  PROVE  FrameOfImage(Picture(f)) = f
  <1>1. ASSUME NEW g \in 1..captured, Picture(f) = Picture(g)
        PROVE  f = g
    <2>1. cam_width * cam_height - 1 \in Nat
      BY WebcamAssumption, SMTT(30)
    <2>2. 0 \in 0..(cam_width * cam_height - 1)
      BY <2>1
    <2>3. Picture(f).y[0] = Picture(g).y[0]
      BY <1>1
    <2>4. /\ Picture(f).y[0] = <<f, At(0 \div cam_width, 0 % cam_width)>>
          /\ Picture(g).y[0] = <<g, At(0 \div cam_width, 0 % cam_width)>>
      BY <2>2 DEF Picture
    <2>5. \A x : <<f, x>> = <<g, x>> => f = g
      OBVIOUS
    <2> QED
      BY Zenon, <2>3, <2>4, <2>5
  <1> HIDE DEF Picture
  <1> QED
    BY <1>1 DEF FrameOfImage

-----------------------------------------------------------------------------
(* Taking from the front of a queue and adding at its end. *)

Popped(s, t, S) ==
  /\ Len(s) \in Nat /\ Len(s) >= 1
  /\ DOMAIN s = 1..Len(s) /\ 1 \in DOMAIN s
  /\ Head(s) = s[1] /\ s[1] \in S
  /\ t \in Seq(S) /\ Len(t) = Len(s) - 1 /\ DOMAIN t = 1..(Len(s) - 1)
  /\ \A i \in DOMAIN t : t[i] = s[i + 1] /\ i + 1 \in DOMAIN s /\ 1 < i + 1
  /\ \A i \in DOMAIN s : i = 1 \/ \E k \in DOMAIN t : i = k + 1

LEMMA TailFacts ==
  ASSUME NEW S, NEW s \in Seq(S), s # <<>>
  PROVE  Popped(s, Tail(s), S)
  <1>1. Len(s) \in Nat /\ DOMAIN s = 1..Len(s)
    OBVIOUS
  <1>2. Len(s) # 0
    BY <1>1
  <1>3. Tail(s) \in Seq(S) /\ Len(Tail(s)) = Len(s) - 1
    OBVIOUS
  <1>4. \A i \in 1..(Len(s) - 1) : Tail(s)[i] = s[i + 1]
    OBVIOUS
  <1>5. Head(s) = s[1] /\ s[1] \in S
    OBVIOUS
  <1>6. ASSUME NEW i \in 1..Len(s) PROVE i = 1 \/ \E k \in 1..(Len(s) - 1) : i = k + 1
    <2>1. i = 1 \/ (i - 1 \in 1..(Len(s) - 1) /\ i = (i - 1) + 1)
      BY <1>1
    <2> QED
      BY <2>1
  <1>7. \A i \in 1..(Len(s) - 1) : i + 1 \in 1..Len(s) /\ 1 < i + 1
    BY <1>1
  <1>8. DOMAIN Tail(s) = 1..(Len(s) - 1)
    BY <1>3
  <1>9. Len(s) >= 1 /\ 1 \in 1..Len(s)
    BY <1>1, <1>2
  <1> QED
    BY <1>1, <1>3, <1>4, <1>5, <1>6, <1>7, <1>8, <1>9 DEF Popped

Pushed(s, x, t, S) ==
  /\ Len(s) \in Nat
  /\ DOMAIN s = 1..Len(s) /\ DOMAIN s \subseteq DOMAIN t
  /\ t \in Seq(S) /\ t # <<>>
  /\ Len(t) = Len(s) + 1 /\ DOMAIN t = 1..Len(t) /\ Len(t) \in DOMAIN t
  /\ \A i \in DOMAIN s : t[i] = s[i] /\ s[i] \in S /\ i < Len(t)
  /\ t[Len(t)] = x
  /\ \A i \in DOMAIN t : i \in DOMAIN s \/ i = Len(t)

LEMMA AppendFacts ==
  ASSUME NEW S, NEW s \in Seq(S), NEW x \in S
  PROVE  Pushed(s, x, Append(s, x), S)
  <1> DEFINE t == Append(s, x)
  <1>1. /\ Len(s) \in Nat /\ DOMAIN s = 1..Len(s)
        /\ t \in Seq(S)
        /\ Len(t) = Len(s) + 1 /\ DOMAIN t = 1..(Len(s) + 1)
        /\ \A i \in DOMAIN s : t[i] = s[i] /\ s[i] \in S
        /\ t[Len(s) + 1] = x
    OBVIOUS
  <1> HIDE DEF t
  <1>2. t # <<>>
    <2>1. Len(t) # 0
      BY <1>1
    <2>2. Len(<<>>) = 0
      OBVIOUS
    <2> QED
      BY Zenon, <2>1, <2>2
  <1>3. Pushed(s, x, t, S)
    BY <1>1, <1>2 DEF Pushed
  <1> QED
    BY <1>3 DEF t

-----------------------------------------------------------------------------
LEMMA CamInitInv == CamInit => CamInv
  BY WebcamAssumption
     DEF CamInit, CamInv, CamTypes, Converting, HeldInTurn, OneOwner,
         EveryBufferOwned, TakenInOrder, LastFrame, ImageOfHeld

(* Steps that leave the buffers and the image alone. *)
LEMMA QuietStep ==
  ASSUME CamInv,
         UNCHANGED <<buf_mem, queued, filled, held, captured, cam_img, cam_shown>>,
         \/ cam_pc' = cam_pc \/ cam_pc' = "ended"
         \/ {cam_pc, cam_pc'} \subseteq {"top", "poll", "dequeue"}
  PROVE  CamInv'
  <1>1. CamTypes' /\ HeldInTurn'
    BY DEF CamInv, CamTypes, HeldInTurn, Converting
  <1>2. OneOwner' /\ EveryBufferOwned'
    BY DEF CamInv, OneOwner, EveryBufferOwned
  <1>3. TakenInOrder'
    BY DEF CamInv, TakenInOrder, Unseen, LastFrame
  <1>4. ImageOfHeld'
    BY DEF CamInv, ImageOfHeld
  <1> QED
    BY <1>1, <1>2, <1>3, <1>4 DEF CamInv

LEMMA OpenStep ==
  ASSUME CamInv, OpenDevice
  PROVE  CamInv'
  <1>1. /\ cam_pc = "open"
        /\ UNCHANGED <<filled, held, captured, cam_img, cam_shown>>
    BY DEF OpenDevice
  <1>2. held = NoBuffer /\ filled = <<>> /\ buf_mem = <<>>
    BY <1>1 DEF CamInv, HeldInTurn
  <1>3. CASE cam_pc' = "ended" /\ UNCHANGED <<buf_mem, queued>>
    BY <1>1, <1>2, <1>3
       DEF CamInv, CamTypes, Converting, HeldInTurn, OneOwner, EveryBufferOwned,
           TakenInOrder, Unseen, LastFrame, ImageOfHeld
  <1>4. ASSUME NEW n \in 1..NUM_BUFFERS, buf_mem' = [b \in 1..n |-> 0],
               queued' = [b \in 1..n |-> b], cam_pc' = "top"
        PROVE  CamInv'
    <2>1. /\ n \in Nat
          /\ buf_mem' \in Seq(Nat) /\ DOMAIN buf_mem' = 1..n /\ Len(buf_mem') = n
          /\ queued' \in Seq(1..n) /\ DOMAIN queued' = 1..n /\ Len(queued') = n
          /\ \A b \in 1..n : queued'[b] = b
      BY <1>4, WebcamAssumption
    <2>2. NoBuffer \notin 1..n
      BY WebcamAssumption
    <2>3. filled' = <<>> /\ Len(filled') = 0 /\ DOMAIN filled' = {} /\ held' = NoBuffer
      BY <1>1, <1>2
    <2>4. CamTypes'
      BY <1>1, <1>4, <2>1, <2>3 DEF CamInv, CamTypes
    <2>5. HeldInTurn'
      BY <1>4, <2>3 DEF HeldInTurn, Converting
    <2>6. OneOwner'
      BY <2>1, <2>2, <2>3 DEF OneOwner
    <2>7. EveryBufferOwned'
      BY <2>1, <2>3 DEF EveryBufferOwned
    <2>8. TakenInOrder'
      BY <1>1, <2>3 DEF CamInv, TakenInOrder, LastFrame
    <2>9. ImageOfHeld'
      BY <1>4 DEF ImageOfHeld
    <2> QED
      BY <2>4, <2>5, <2>6, <2>7, <2>8, <2>9 DEF CamInv
  <1> QED
    BY <1>3, <1>4 DEF OpenDevice

(* The oldest of the filled buffers is taken. *)
LEMMA DequeueStep ==
  ASSUME CamInv, Dequeue
  PROVE  CamInv'
  <1>1. /\ cam_pc = "dequeue" /\ cam_pc' = "copy y" /\ filled # <<>>
        /\ held' = Head(filled) /\ filled' = Tail(filled)
        /\ UNCHANGED <<buf_mem, queued, captured, cam_img, cam_shown>>
    BY DEF Dequeue
  <1>2. /\ filled \in Seq(DOMAIN buf_mem) /\ queued \in Seq(DOMAIN buf_mem)
        /\ buf_mem \in Seq(Nat)
        /\ held = NoBuffer
    BY <1>1 DEF CamInv, CamTypes, HeldInTurn
  <1> DEFINE B == DOMAIN buf_mem
             n == Len(filled)
  <1>3. Popped(filled, filled', B)
    <2>1. filled \in Seq(B) /\ filled # <<>> /\ filled' = Tail(filled)
      BY <1>1, <1>2
    <2> HIDE DEF B
    <2> QED
      BY <2>1, TailFacts
  <1>4. /\ n \in Nat /\ DOMAIN filled = 1..n /\ 1 \in DOMAIN filled
        /\ filled' \in Seq(B) /\ Len(filled') = n - 1
        /\ DOMAIN filled' = 1..(n - 1)
        /\ \A i \in 1..(n - 1) : /\ filled'[i] = filled[i + 1]
                                 /\ i + 1 \in DOMAIN filled /\ 1 < i + 1
        /\ \A i \in DOMAIN filled : i = 1 \/ \E k \in 1..(n - 1) : i = k + 1
    BY <1>3 DEF Popped
  <1>5. held' = filled[1] /\ held' \in B /\ held' # NoBuffer
    <2>1. held' = filled[1] /\ held' \in B
      BY <1>1, <1>3 DEF Popped
    <2>2. B \subseteq Nat
      BY <1>2
    <2> QED
      BY <2>1, <2>2, WebcamAssumption
  <1>6. UNCHANGED <<buf_mem, queued, captured, cam_shown>>
    BY <1>1
  <1> HIDE DEF n
  <1>7. CamTypes'
    BY <1>1, <1>4, <1>5 DEF CamInv, CamTypes
  <1>8. HeldInTurn'
    BY <1>1, <1>5 DEF HeldInTurn, Converting
  <1>9. OneOwner'
    <2>1. \A i, j \in 1..(n - 1) : filled[i + 1] = filled[j + 1] => i = j
      BY SMTT(30), <1>4 DEF CamInv, OneOwner
    <2>2. \A i \in 1..(n - 1) : filled[i + 1] # filled[1]
      BY <1>4 DEF CamInv, OneOwner
    <2>3. \A i \in DOMAIN queued :
            queued[i] # filled[1] /\ \A j \in 1..(n - 1) : queued[i] # filled[j + 1]
      BY <1>4 DEF CamInv, OneOwner
    <2>4. \A i, j \in DOMAIN queued : queued[i] = queued[j] => i = j
      BY DEF CamInv, OneOwner
    <2> QED
      BY <1>4, <1>5, <1>6, <2>1, <2>2, <2>3, <2>4 DEF OneOwner
  <1>10. EveryBufferOwned'
    <2>1. Len(queued) + n = Len(buf_mem) /\ Len(queued) \in Nat
      BY <1>2, <1>4 DEF CamInv, EveryBufferOwned, n
    <2>2. Len(queued) + (n - 1) + 1 = Len(buf_mem)
      BY <1>4, <2>1
    <2>3. ASSUME NEW b \in DOMAIN buf_mem
          PROVE  \/ b = filled[1]
                 \/ \E i \in DOMAIN queued : queued[i] = b
                 \/ \E i \in 1..(n - 1) : filled[i + 1] = b
      <3>1. \/ \E i \in DOMAIN queued : queued[i] = b
            \/ \E i \in DOMAIN filled : filled[i] = b
            \/ b = held
        BY <2>3 DEF CamInv, EveryBufferOwned
      <3>2. b # held
        BY <1>2, <2>3, WebcamAssumption
      <3> QED
        BY <1>4, <3>1, <3>2
    <2>4. Len(queued') + Len(filled') + 1 = Len(buf_mem')
      BY <1>4, <1>6, <2>2
    <2>5. ASSUME NEW b \in DOMAIN buf_mem'
          PROVE  \/ b = held'
                 \/ \E i \in DOMAIN queued' : queued'[i] = b
                 \/ \E i \in DOMAIN filled' : filled'[i] = b
      BY <1>4, <1>5, <1>6, <2>3
    <2> QED
      BY <1>5, <2>4, <2>5 DEF EveryBufferOwned
  <1>11. TakenInOrder'
    <2>1. /\ \A i \in 1..(n - 1) : /\ Unseen(buf_mem[filled[i + 1]])
                                   /\ buf_mem[filled[1]] < buf_mem[filled[i + 1]]
          /\ \A i, j \in 1..(n - 1) :
               i < j => buf_mem[filled[i + 1]] < buf_mem[filled[j + 1]]
          /\ Unseen(buf_mem[filled[1]])
          /\ LastFrame \in 0..captured
      <3>1. \A i, j \in 1..(n - 1) : i < j => i + 1 < j + 1
        BY <1>4
      <3> QED
        BY <1>4, <3>1 DEF CamInv, TakenInOrder
    <2>2. LastFrame' = LastFrame /\ UNCHANGED <<captured, buf_mem>>
      BY <1>6 DEF LastFrame
    <2>3. \A i \in DOMAIN filled' :
            /\ buf_mem'[filled'[i]] \in 1..captured' /\ buf_mem'[filled'[i]] > LastFrame'
            /\ buf_mem'[held'] < buf_mem'[filled'[i]]
      BY <1>4, <1>5, <2>1, <2>2 DEF Unseen
    <2>4. \A i, j \in DOMAIN filled' :
            i < j => buf_mem'[filled'[i]] < buf_mem'[filled'[j]]
      BY <1>4, <1>5, <2>1, <2>2
    <2>5. buf_mem'[held'] \in 1..captured' /\ buf_mem'[held'] > LastFrame'
      BY <1>4, <1>5, <2>1, <2>2 DEF Unseen
    <2> QED
      BY <2>1, <2>2, <2>3, <2>4, <2>5 DEF TakenInOrder, Unseen
  <1>12. ImageOfHeld'
    BY <1>1 DEF ImageOfHeld
  <1> QED
    BY <1>7, <1>8, <1>9, <1>10, <1>11, <1>12 DEF CamInv

(* The driver may fill other buffers between these two, never this one. *)
LEMMA CopyStep ==
  ASSUME CamInv, CopyYPlane \/ CopyUVPlanes
  PROVE  CamInv'
  <1>1. /\ UNCHANGED <<buf_mem, queued, filled, held, captured, cam_shown>>
        /\ \/ cam_pc = "copy y" /\ cam_pc' = "copy uv"
           \/ cam_pc = "copy uv" /\ cam_pc' = "requeue"
    BY DEF CopyYPlane, CopyUVPlanes, deviceVars
  <1>2. cam_img = [y |-> cam_img.y, u |-> cam_img.u, v |-> cam_img.v]
    BY DEF CamInv, CamTypes
  <1>3. ImageOfHeld' /\ cam_img' = [y |-> cam_img'.y, u |-> cam_img'.u, v |-> cam_img'.v]
    <2>1. CASE CopyYPlane
      <3>1. cam_img' = [y |-> CopiedY(buf_mem[held]), u |-> cam_img.u, v |-> cam_img.v]
        BY <1>2, <2>1 DEF CopyYPlane
      <3>2. cam_pc' = "copy uv"
        BY <2>1 DEF CopyYPlane
      <3> QED
        BY <1>1, <3>1, <3>2 DEF ImageOfHeld, CopiedY
    <2>2. CASE CopyUVPlanes
      <3>1. cam_img' = [y |-> cam_img.y, u |-> CopiedU(buf_mem[held]),
                        v |-> CopiedV(buf_mem[held])]
        BY <1>2, <2>2 DEF CopyUVPlanes
      <3>2. cam_pc = "copy uv" /\ cam_pc' = "requeue"
        BY <2>2 DEF CopyUVPlanes
      <3>3. cam_img.y = CopiedY(buf_mem[held])
        BY <3>2 DEF CamInv, ImageOfHeld
      <3> QED
        BY <1>1, <3>1, <3>2, <3>3 DEF ImageOfHeld, CopiedY, CopiedU, CopiedV
    <2> QED
      BY <2>1, <2>2
  <1>4. CamTypes' /\ HeldInTurn'
    BY <1>1, <1>3 DEF CamInv, CamTypes, HeldInTurn, Converting
  <1>5. OneOwner' /\ EveryBufferOwned'
    BY <1>1 DEF CamInv, OneOwner, EveryBufferOwned
  <1>6. TakenInOrder'
    BY <1>1 DEF CamInv, TakenInOrder, Unseen, LastFrame
  <1> QED
    BY <1>3, <1>4, <1>5, <1>6 DEF CamInv

(* The image shown is the frame in the buffer that is given back. *)
LEMMA ImageIsFrame ==
  ASSUME CamInv, cam_pc = "requeue"
  PROVE  /\ held \in DOMAIN buf_mem
         /\ FrameOfImage(cam_img) = buf_mem[held]
         /\ buf_mem[held] \in Nat /\ buf_mem[held] > LastFrame
         /\ buf_mem[held] \in 1..captured
  <1>1. /\ held \in DOMAIN buf_mem /\ held # NoBuffer
        /\ Unseen(buf_mem[held])
    BY DEF CamInv, CamTypes, HeldInTurn, Converting, TakenInOrder
  <1>2. buf_mem[held] \in 1..captured /\ buf_mem[held] > LastFrame
    BY <1>1 DEF Unseen
  <1>3. cam_img = [y |-> CopiedY(buf_mem[held]), u |-> CopiedU(buf_mem[held]),
                   v |-> CopiedV(buf_mem[held])]
    BY DEF CamInv, CamTypes, ImageOfHeld
  <1>4. cam_img = Picture(buf_mem[held])
    BY <1>3, ConversionRight
  <1>5. FrameOfImage(cam_img) = buf_mem[held]
    BY <1>2, <1>4, ImageShows
  <1> QED
    BY <1>1, <1>2, <1>5

LEMMA RequeueStep ==
  ASSUME CamInv, Requeue
  PROVE  CamInv'
  <1>1. CASE UNCHANGED <<queued, held, cam_shown>> /\ cam_pc' = "ended"
    BY <1>1, QuietStep DEF Requeue
  <1>2. CASE /\ queued' = Append(queued, held)
             /\ held' = NoBuffer
             /\ cam_shown' = Append(cam_shown, FrameOfImage(cam_img))
             /\ cam_pc' = "top"
    <2> DEFINE f == buf_mem[held]
               n == Len(queued)
               B == DOMAIN buf_mem
    <2>1. cam_pc = "requeue" /\ UNCHANGED <<buf_mem, filled, captured, cam_img>>
      BY DEF Requeue
    <2>2. /\ held \in B /\ f \in Nat /\ f > LastFrame /\ f \in 1..captured
          /\ cam_shown' = Append(cam_shown, f)
      BY <1>2, <2>1, ImageIsFrame
    <2>3. /\ queued \in Seq(B) /\ filled \in Seq(B) /\ buf_mem \in Seq(Nat)
          /\ captured \in Nat /\ cam_shown \in Seq(Nat)
      BY DEF CamInv, CamTypes
    <2>4. NoBuffer \notin B /\ held # NoBuffer
      BY <2>2, <2>3, WebcamAssumption
    <2> HIDE DEF B, f
    <2>5. /\ n \in Nat /\ queued' \in Seq(B) /\ Len(queued') = n + 1
          /\ DOMAIN queued = 1..n /\ DOMAIN queued' = 1..(n + 1)
          /\ \A i \in DOMAIN queued : queued'[i] = queued[i]
          /\ queued'[n + 1] = held
          /\ \A i \in DOMAIN queued' : i \in DOMAIN queued \/ i = n + 1
      <3>1. Pushed(queued, held, queued', B)
        BY <1>2, <2>2, <2>3, AppendFacts
      <3> QED
        BY <3>1 DEF Pushed
    <2>6. cam_shown' \in Seq(Nat) /\ LastFrame' = f
      <3>1. cam_shown \in Seq(Nat) /\ f \in Nat /\ cam_shown' = Append(cam_shown, f)
        BY <2>2, <2>3
      <3>2. Pushed(cam_shown, f, cam_shown', Nat)
        BY <3>1, AppendFacts
      <3> QED
        BY <3>2 DEF Pushed, LastFrame
    <2> HIDE DEF n
    <2>7. CamTypes'
      BY <1>2, <2>1, <2>5, <2>6 DEF CamInv, CamTypes, B
    <2>8. HeldInTurn'
      BY <1>2, <2>1 DEF HeldInTurn, Converting
    <2>9. OneOwner'
      <3>1. /\ \A i, j \in DOMAIN queued : queued[i] = queued[j] => i = j
            /\ \A i, j \in DOMAIN filled : filled[i] = filled[j] => i = j
            /\ \A i \in DOMAIN queued, j \in DOMAIN filled : queued[i] # filled[j]
            /\ \A i \in DOMAIN queued : queued[i] # held
            /\ \A i \in DOMAIN filled : filled[i] # held
        BY DEF CamInv, OneOwner
      <3>2. \A i, j \in DOMAIN queued' : queued'[i] = queued'[j] => i = j
        BY <2>5, <3>1
      <3>3. \A i \in DOMAIN queued', j \in DOMAIN filled : queued'[i] # filled[j]
        BY <2>5, <3>1
      <3>4. /\ \A i \in DOMAIN queued' : queued'[i] # NoBuffer
            /\ \A i \in DOMAIN filled : filled[i] # NoBuffer
        BY <2>3, <2>4, <2>5
      <3> QED
        BY <1>2, <2>1, <3>1, <3>2, <3>3, <3>4 DEF OneOwner
    <2>10. EveryBufferOwned'
      <3>1. n + Len(filled) + 1 = Len(buf_mem) /\ Len(filled) \in Nat
        BY <2>3, <2>4 DEF CamInv, EveryBufferOwned, n
      <3>2. (n + 1) + Len(filled) + 0 = Len(buf_mem)
        BY <2>5, <3>1
      <3>3. ASSUME NEW b \in B
            PROVE  \/ \E i \in DOMAIN queued' : queued'[i] = b
                   \/ \E i \in DOMAIN filled : filled[i] = b
        <4>1. \/ b = held
              \/ \E i \in DOMAIN queued : queued[i] = b
              \/ \E i \in DOMAIN filled : filled[i] = b
          BY DEF CamInv, EveryBufferOwned, B
        <4>2. n + 1 \in DOMAIN queued' /\ \A i \in DOMAIN queued : i \in DOMAIN queued'
          BY <2>5
        <4> QED
          BY <2>5, <4>1, <4>2
      <3> QED
        BY <1>2, <2>1, <2>5, <3>2, <3>3 DEF EveryBufferOwned, B
    <2>11. TakenInOrder'
      <3>1. /\ \A i \in DOMAIN filled : /\ buf_mem[filled[i]] \in 1..captured
                                        /\ f < buf_mem[filled[i]]
            /\ \A i, j \in DOMAIN filled :
                 i < j => buf_mem[filled[i]] < buf_mem[filled[j]]
        BY <2>4 DEF CamInv, TakenInOrder, Unseen, f
      <3>2. f \in 0..captured
        BY <2>2
      <3>3. \A i \in DOMAIN filled : buf_mem[filled[i]] > f
        BY <2>2, <2>3, <3>1
      <3> QED
        BY <1>2, <2>1, <2>6, <3>1, <3>2, <3>3 DEF TakenInOrder, Unseen
    <2>12. ImageOfHeld'
      BY <1>2 DEF ImageOfHeld
    <2> QED
      BY <2>7, <2>8, <2>9, <2>10, <2>11, <2>12 DEF CamInv
  <1> QED
    BY <1>1, <1>2 DEF Requeue

(* The driver takes a buffer off the front of its queue and writes a later *)
(* frame to it than any other buffer holds.                                *)
LEMMA CaptureStep ==
  ASSUME CamInv, Capture
  PROVE  CamInv'
  <1>1. /\ cam_pc \notin {"open", "ended"} /\ captured' = captured + 1
        /\ UNCHANGED <<cam_pc, held, cam_img, cam_shown>>
    BY DEF Capture, Streaming
  <1>2. captured \in Nat /\ captured' \in Nat /\ 1..captured \subseteq 1..captured'
    <2>1. captured \in Nat
      BY DEF CamInv, CamTypes
    <2>2. \A f \in 1..captured : f \in 1..captured'
      BY <1>1, <2>1
    <2> QED
      BY <1>1, <2>1, <2>2
  <1>3. CASE queued = <<>>
    <2>1. UNCHANGED <<buf_mem, queued, filled>>
      BY <1>3 DEF Capture
    <2>2. CamTypes' /\ HeldInTurn'
      BY <1>1, <1>2, <2>1 DEF CamInv, CamTypes, HeldInTurn, Converting
    <2>3. OneOwner' /\ EveryBufferOwned' /\ ImageOfHeld'
      <3>1. OneOwner'
        BY <1>1, <2>1 DEF CamInv, OneOwner
      <3>2. EveryBufferOwned'
        BY <1>1, <2>1 DEF CamInv, EveryBufferOwned
      <3>3. ImageOfHeld'
        BY <1>1, <2>1 DEF CamInv, ImageOfHeld
      <3> QED
        BY <3>1, <3>2, <3>3
    <2>4. LastFrame' = LastFrame
      BY <1>1 DEF LastFrame
    <2>5. \A f : Unseen(f) => f \in 1..captured' /\ f > LastFrame'
      BY <1>2, <2>4 DEF Unseen
    <2>6. LastFrame' \in 0..captured'
      BY <1>1, <1>2, <2>4 DEF CamInv, TakenInOrder
    <2>7. TakenInOrder'
      BY <1>1, <2>1, <2>5, <2>6 DEF CamInv, TakenInOrder, Unseen
    <2> QED
      BY <2>2, <2>3, <2>7 DEF CamInv
  <1>4. CASE queued # <<>>
    <2> DEFINE b == Head(queued)
               B == DOMAIN buf_mem
               n == Len(queued)
               k == Len(filled)
    <2>1. /\ buf_mem' = [buf_mem EXCEPT ![b] = captured + 1]
          /\ queued' = Tail(queued) /\ filled' = Append(filled, b)
      BY <1>4 DEF Capture
    <2>2. /\ queued \in Seq(B) /\ filled \in Seq(B) /\ buf_mem \in Seq(Nat)
          /\ held \in B \cup {NoBuffer}
      BY DEF CamInv, CamTypes
    <2>3. /\ b \in B /\ b # NoBuffer
          /\ buf_mem' \in Seq(Nat) /\ DOMAIN buf_mem' = B /\ Len(buf_mem') = Len(buf_mem)
          /\ buf_mem'[b] = captured + 1
          /\ \A c \in B : c # b => buf_mem'[c] = buf_mem[c]
      <3>1. b \in B
        BY <1>4, <2>2
      <3>2. b # NoBuffer
        BY <2>2, <3>1, WebcamAssumption
      <3>3. captured + 1 \in Nat /\ b \in 1..Len(buf_mem) /\ B = 1..Len(buf_mem)
        BY <1>2, <2>2, <3>1
      <3>4. /\ buf_mem' \in Seq(Nat) /\ Len(buf_mem') = Len(buf_mem)
            /\ \A c \in 1..Len(buf_mem) :
                 buf_mem'[c] = IF c = b THEN captured + 1 ELSE buf_mem[c]
        BY <2>1, <2>2, <3>3, ExceptSeq
      <3>5. DOMAIN buf_mem' = B
        BY <3>3, <3>4
      <3> HIDE DEF b, B
      <3> QED
        BY <3>1, <3>2, <3>3, <3>4, <3>5
    <2> HIDE DEF B
    <2>4. /\ n \in Nat /\ DOMAIN queued = 1..n /\ 1 \in DOMAIN queued /\ b = queued[1]
          /\ queued' \in Seq(B) /\ Len(queued') = n - 1
          /\ \A i \in DOMAIN queued' : /\ queued'[i] = queued[i + 1] /\ i \in Int
                                       /\ i + 1 \in DOMAIN queued /\ 1 < i + 1
          /\ \A i \in DOMAIN queued : i = 1 \/ \E j \in DOMAIN queued' : i = j + 1
      <3>1. Popped(queued, queued', B)
        BY <1>4, <2>1, <2>2, TailFacts
      <3> QED
        BY <3>1 DEF Popped
    <2> HIDE DEF b
    <2>5. /\ k \in Nat /\ Len(filled') = k + 1 /\ Len(filled') \in DOMAIN filled'
          /\ DOMAIN filled \subseteq DOMAIN filled'
          /\ filled' \in Seq(B)
          /\ \A i \in DOMAIN filled : /\ filled'[i] = filled[i] /\ filled[i] \in B
                                      /\ i < k + 1 /\ i \in Nat
          /\ filled'[k + 1] = b
          /\ \A i \in DOMAIN filled' : i \in DOMAIN filled \/ i = k + 1
      <3>1. Pushed(filled, b, filled', B)
        BY <2>1, <2>2, <2>3, AppendFacts
      <3> QED
        BY <3>1 DEF Pushed
    <2>6. /\ \A i, j \in DOMAIN queued : queued[i] = queued[j] => i = j
          /\ \A i, j \in DOMAIN filled : filled[i] = filled[j] => i = j
          /\ \A i \in DOMAIN queued, j \in DOMAIN filled : queued[i] # filled[j]
          /\ \A i \in DOMAIN queued : queued[i] # held
          /\ \A i \in DOMAIN filled : filled[i] # held
      BY DEF CamInv, OneOwner
    <2>7. b # held /\ \A i \in DOMAIN filled : filled[i] # b /\ filled[i] \in B
      BY SMTT(30), <2>2, <2>4, <2>5, <2>6
    <2> HIDE DEF n, k
    <2>8. CamTypes'
      BY <1>1, <1>2, <2>2, <2>3, <2>4, <2>5 DEF CamInv, CamTypes
    <2>9. HeldInTurn'
      BY <1>1 DEF CamInv, HeldInTurn, Converting
    <2>10. OneOwner'
      <3>1. \A i \in DOMAIN queued' : queued'[i] # b
        BY <2>4, <2>6
      <3>2. ASSUME NEW i \in DOMAIN queued', NEW j \in DOMAIN queued',
                   queued'[i] = queued'[j]
            PROVE  i = j
        <4>1. i + 1 = j + 1
          BY <2>4, <2>6, <3>2
        <4> QED
          BY <2>4, <4>1
      <3>3. ASSUME NEW i \in DOMAIN filled', NEW j \in DOMAIN filled',
                   filled'[i] = filled'[j]
            PROVE  i = j
        BY <2>5, <2>6, <2>7, <3>3
      <3>4. ASSUME NEW i \in DOMAIN queued', NEW j \in DOMAIN filled'
            PROVE  queued'[i] # filled'[j]
        <4>1. CASE j \in DOMAIN filled
          BY <2>4, <2>5, <2>6, <4>1
        <4>2. CASE j = k + 1
          BY <2>5, <3>1, <4>2
        <4> QED
          BY <2>5, <4>1, <4>2
      <3>5. \A i \in DOMAIN queued' : queued'[i] # held'
        BY <1>1, <2>4, <2>6
      <3>6. \A i \in DOMAIN filled' : filled'[i] # held'
        BY <1>1, <2>5, <2>6, <2>7
      <3> QED
        BY <3>2, <3>3, <3>4, <3>5, <3>6 DEF OneOwner
    <2>11. EveryBufferOwned'
      <3> DEFINE h == IF held = NoBuffer THEN 0 ELSE 1
      <3>1. n + k + h = Len(buf_mem) /\ h \in {0, 1}
        BY DEF CamInv, EveryBufferOwned, n, k
      <3>2. (n - 1) + (k + 1) + h = Len(buf_mem)
        <4> HIDE DEF h
        <4>1. n \in Int /\ k \in Int
          BY <2>4, <2>5
        <4>2. h \in Int
          BY <3>1
        <4> QED
          BY <3>1, <4>1, <4>2
      <3>3. Len(queued') + Len(filled') + (IF held' = NoBuffer THEN 0 ELSE 1)
              = Len(buf_mem')
        BY <1>1, <2>3, <2>4, <2>5, <3>2
      <3>4. ASSUME NEW c \in B
            PROVE  \/ c = held
                   \/ \E i \in DOMAIN queued' : queued'[i] = c
                   \/ \E i \in DOMAIN filled' : filled'[i] = c
        <4>1. \/ c = held
              \/ \E i \in DOMAIN queued : queued[i] = c
              \/ \E i \in DOMAIN filled : filled[i] = c
          BY DEF CamInv, EveryBufferOwned, B
        <4>2. k + 1 \in DOMAIN filled' /\ DOMAIN filled \subseteq DOMAIN filled'
          BY <2>5
        <4>3. CASE \E i \in DOMAIN queued : queued[i] = c
          <5>1. PICK i \in DOMAIN queued : queued[i] = c
            BY <4>3
          <5>2. CASE i = 1
            BY <2>4, <2>5, <4>2, <5>1, <5>2
          <5>3. CASE \E j \in DOMAIN queued' : i = j + 1
            BY <2>4, <5>1, <5>3
          <5> QED
            BY <2>4, <5>2, <5>3
        <4>4. CASE \E i \in DOMAIN filled : filled[i] = c
          BY <2>5, <4>2, <4>4
        <4> QED
          BY <4>1, <4>3, <4>4
      <3> QED
        BY <1>1, <2>3, <3>3, <3>4 DEF EveryBufferOwned
    <2>12. TakenInOrder'
      <3>1. LastFrame' = LastFrame /\ LastFrame \in 0..captured
        BY <1>1 DEF CamInv, TakenInOrder, LastFrame
      <3>2. /\ \A i \in DOMAIN filled : /\ buf_mem[filled[i]] \in 1..captured
                                        /\ buf_mem[filled[i]] > LastFrame
            /\ \A i, j \in DOMAIN filled :
                 i < j => buf_mem[filled[i]] < buf_mem[filled[j]]
            /\ held # NoBuffer =>
                 /\ buf_mem[held] \in 1..captured /\ buf_mem[held] > LastFrame
                 /\ \A i \in DOMAIN filled : buf_mem[held] < buf_mem[filled[i]]
        BY DEF CamInv, TakenInOrder, Unseen
      <3>3. /\ captured + 1 \in 1..captured' /\ captured + 1 > LastFrame
            /\ \A f \in 1..captured : f < captured + 1
            /\ LastFrame \in 0..captured'
        BY <1>1, <1>2, <3>1
      <3>4. \A i \in DOMAIN filled : buf_mem'[filled'[i]] = buf_mem[filled[i]]
        BY <2>3, <2>5, <2>7
      <3>5. buf_mem'[filled'[k + 1]] = captured + 1
        BY <2>3, <2>5
      <3>6. held # NoBuffer => buf_mem'[held] = buf_mem[held]
        BY <2>2, <2>3, <2>7
      <3>7. \A i \in DOMAIN filled' : /\ buf_mem'[filled'[i]] \in 1..captured'
                                      /\ buf_mem'[filled'[i]] > LastFrame'
        BY <1>2, <2>5, <3>1, <3>2, <3>3, <3>4, <3>5
      <3>8. \A i, j \in DOMAIN filled' :
              i < j => buf_mem'[filled'[i]] < buf_mem'[filled'[j]]
        <4>1. SUFFICES ASSUME NEW i \in DOMAIN filled', NEW j \in DOMAIN filled', i < j
                       PROVE  buf_mem'[filled'[i]] < buf_mem'[filled'[j]]
          OBVIOUS
        <4>2. i \in DOMAIN filled
          BY <2>5, <4>1
        <4> QED
          BY <2>5, <3>2, <3>3, <3>4, <3>5, <4>1, <4>2
      <3>9. held # NoBuffer =>
              /\ buf_mem'[held] \in 1..captured' /\ buf_mem'[held] > LastFrame'
              /\ \A i \in DOMAIN filled' : buf_mem'[held] < buf_mem'[filled'[i]]
        BY <1>2, <2>5, <3>1, <3>2, <3>3, <3>4, <3>5, <3>6
      <3> QED
        BY <1>1, <3>1, <3>3, <3>7, <3>8, <3>9 DEF TakenInOrder, Unseen
    <2>13. ImageOfHeld'
      <3>1. Converting => buf_mem'[held'] = buf_mem[held]
        BY <1>1, <2>2, <2>3, <2>7 DEF CamInv, HeldInTurn
      <3> QED
        BY <1>1, <3>1 DEF CamInv, ImageOfHeld, Converting
    <2> QED
      BY <2>8, <2>9, <2>10, <2>11, <2>12, <2>13 DEF CamInv
  <1> QED
    BY <1>3, <1>4

LEMMA CamInductive ==
  ASSUME CamInv, [Next]_vars
  PROVE  CamInv'
  <1>1. CASE UNCHANGED camVars
    BY <1>1, QuietStep DEF camVars, deviceVars
  <1>2. CASE CamStep
    <2>1. CASE LoopTop \/ PollReadable \/ PollError \/ DequeueFails
      <3>1. /\ UNCHANGED <<buf_mem, queued, filled, held, captured, cam_img, cam_shown>>
            /\ \/ cam_pc' = "ended"
               \/ {cam_pc, cam_pc'} \subseteq {"top", "poll", "dequeue"}
        BY <2>1 DEF LoopTop, PollReadable, PollError, DequeueFails, deviceVars
      <3> QED
        BY <3>1, QuietStep
    <2> QED
      BY <1>2, <2>1, OpenStep, DequeueStep, CopyStep, RequeueStep DEF CamStep
  <1>3. CASE Capture
    BY <1>3, CaptureStep
  <1>4. CASE Unplug \/ WindowEvent
    <2>1. UNCHANGED <<buf_mem, queued, filled, held, captured, cam_img, cam_shown, cam_pc>>
      BY <1>4 DEF Unplug, WindowEvent, deviceVars
    <2> QED
      BY <2>1, QuietStep
  <1> QED
    BY <1>1, <1>2, <1>3, <1>4 DEF Next, FileStep, CameraStep, vars

LEMMA CamInvHolds == Spec => []CamInv
  <1>1. Init => CamInv
    BY CamInitInv DEF Init
  <1> QED
    BY <1>1, CamInductive, PTL DEF Spec

(* VideoDevice keeps all the buffers it was granted: read_frame gives back *)
(* what it takes, also when VIDIOC_DQBUF fails, and the driver's queue and *)
(* the program never have the same one.                                    *)
THEOREM NoBufferLost == Spec => []BuffersConserved
  <1>1. ASSUME CamInv PROVE BuffersConserved
    <2> DEFINE B == DOMAIN buf_mem
               mine == IF held = NoBuffer THEN <<>> ELSE <<held>>
               qf == queued \o filled
               owned == qf \o mine
    <2>1. /\ queued \in Seq(B) /\ filled \in Seq(B) /\ held \in B \cup {NoBuffer}
          /\ B \subseteq Nat
      <3>1. buf_mem \in Seq(Nat)
        BY <1>1 DEF CamInv, CamTypes
      <3>2. B \subseteq Nat
        BY <3>1
      <3> QED
        BY <1>1, <3>2 DEF CamInv, CamTypes
    <2> HIDE DEF B
    <2>2. mine \in Seq(B) /\ Len(mine) = (IF held = NoBuffer THEN 0 ELSE 1)
      <3>1. CASE held = NoBuffer
        BY <3>1
      <3>2. CASE held # NoBuffer
        BY <2>1, <3>2
      <3> QED
        BY <3>1, <3>2
    <2>3. /\ qf \in Seq(B) /\ Len(qf) = Len(queued) + Len(filled)
          /\ \A i \in 1..(Len(queued) + Len(filled)) :
               qf[i] = IF i <= Len(queued) THEN queued[i] ELSE filled[i - Len(queued)]
      BY <2>1, ConcatProperties
    <2> HIDE DEF qf, mine
    <2>4. /\ owned \in Seq(B) /\ Len(owned) = Len(qf) + Len(mine)
          /\ \A i \in 1..(Len(qf) + Len(mine)) :
               owned[i] = IF i <= Len(qf) THEN qf[i] ELSE mine[i - Len(qf)]
      <3>1. qf \in Seq(B) /\ mine \in Seq(B)
        BY <2>2, <2>3
      <3> QED
        BY <3>1, ConcatProperties
    <2> HIDE DEF owned
    <2>5. Len(owned) = Len(buf_mem)
      BY <1>1, <2>2, <2>3, <2>4 DEF CamInv, EveryBufferOwned
    <2>6. /\ Len(queued) \in Nat /\ DOMAIN queued = 1..Len(queued)
          /\ Len(filled) \in Nat /\ DOMAIN filled = 1..Len(filled)
          /\ Len(mine) \in Nat /\ DOMAIN owned = 1..Len(owned)
      BY <2>1, <2>2, <2>4
    <2>7. ASSUME NEW b \in B PROVE \E i \in DOMAIN owned : owned[i] = b
      <3>1. \/ b = held
            \/ \E i \in DOMAIN queued : queued[i] = b
            \/ \E i \in DOMAIN filled : filled[i] = b
        BY <1>1 DEF CamInv, EveryBufferOwned, B
      <3>2. ASSUME NEW i \in DOMAIN queued, queued[i] = b
            PROVE  \E j \in DOMAIN owned : owned[j] = b
        <4>1. i \in 1..Len(qf) /\ i \in 1..(Len(queued) + Len(filled)) /\ i <= Len(queued)
          BY <2>3, <2>6
        <4>2. i \in DOMAIN owned /\ i \in 1..(Len(qf) + Len(mine)) /\ i <= Len(qf)
          BY <2>3, <2>4, <2>6, <4>1
        <4> QED
          BY <2>3, <2>4, <3>2, <4>1, <4>2
      <3>3. ASSUME NEW i \in DOMAIN filled, filled[i] = b
            PROVE  \E j \in DOMAIN owned : owned[j] = b
        <4>1. PICK j \in 1..(Len(queued) + Len(filled)) : j = Len(queued) + i
          BY <2>6
        <4>2. ~(j <= Len(queued)) /\ j - Len(queued) = i
          BY <2>6, <4>1
        <4>3. qf[j] = b
          BY <2>3, <3>3, <4>2
        <4>4. j \in DOMAIN owned /\ j \in 1..(Len(qf) + Len(mine)) /\ j <= Len(qf)
          BY <2>3, <2>4, <2>6
        <4> QED
          BY <2>4, <4>3, <4>4
      <3>4. CASE b = held
        <4>1. b # NoBuffer
          BY <2>1, WebcamAssumption
        <4>2. Len(mine) = 1 /\ mine[1] = b
          BY <2>2, <3>4, <4>1 DEF mine
        <4>3. PICK j \in 1..(Len(qf) + Len(mine)) : j = Len(qf) + 1
          BY <2>3, <2>6, <4>2
        <4>4. ~(j <= Len(qf)) /\ j - Len(qf) = 1
          BY <2>3, <2>6, <4>3
        <4>5. j \in DOMAIN owned
          BY <2>4, <2>6
        <4> QED
          BY <2>4, <4>2, <4>4, <4>5
      <3> QED
        BY <3>1, <3>2, <3>3, <3>4
    <2>8. \A i \in DOMAIN owned : owned[i] \in B
      BY <2>4, <2>6
    <2>9. {owned[i] : i \in DOMAIN owned} = B
      BY <2>7, <2>8
    <2> QED
      BY <2>5, <2>9 DEF BuffersConserved, owned, qf, mine, B
  <1> QED
    BY <1>1, CamInvHolds, PTL

(* VideoDevice::read_frame keeps the promise of VideoInput: every image is *)
(* one frame of the camera, whole, although copy_from_yuyv runs while the  *)
(* driver goes on filling buffers, and a later one than the image before.  *)
THEOREM CameraImplements == Spec => CameraInOrder
  <1>1. Init => AsCamera!Init
    BY DEF Init, CamInit, AsCamera!Init
  <1>2. ASSUME CamInv, [Next]_vars
        PROVE  [AsCamera!Next]_<<0, cam_shown>>
    <2>1. CASE cam_shown' = cam_shown
      BY <2>1
    <2>2. CASE cam_shown' # cam_shown
      <3>1. Requeue
        BY <1>2, <2>2 DEF Next, FileStep, CameraStep, vars, camVars, deviceVars,
           CamStep, OpenDevice, LoopTop, PollReadable, PollError, DequeueFails,
           Dequeue, CopyYPlane, CopyUVPlanes, Capture, Unplug, WindowEvent
      <3> DEFINE f == FrameOfImage(cam_img)
      <3>2. cam_pc = "requeue" /\ cam_shown' = Append(cam_shown, f)
        BY <2>2, <3>1 DEF Requeue
      <3>3. f \in Nat /\ f > LastFrame /\ cam_shown \in Seq(Nat)
        BY <1>2, <3>2, ImageIsFrame DEF CamInv, CamTypes
      <3> HIDE DEF f
      <3>4. Pushed(cam_shown, f, cam_shown', Nat)
        BY <3>2, <3>3, AppendFacts
      <3>5. cam_shown' # <<>> /\ cam_shown'[Len(cam_shown')] = f
        BY <3>4 DEF Pushed
      <3> QED
        BY <3>2, <3>3, <3>5
           DEF AsCamera!Next, AsCamera!Follows, AsCamera!LastShown, LastFrame
    <2> QED
      BY <2>1, <2>2
  <1> QED
    BY <1>1, <1>2, CamInvHolds, PTL DEF Spec, CameraInOrder, AsCamera!Spec

-----------------------------------------------------------------------------
(* The inductive invariant of the file.  It is about a header with which   *)
(* the file may have been written: where the frames begin is then known,   *)
(* and the offset of every step of the call in progress.  k is the number  *)
(* of frames read since the file was opened or rewound; it is the last one *)
(* shown, or 0 if that was the last one of the file.                       *)

Start(h, k) == Len(h) + 2 + k * frame_length

(* The file is the beginning of one with header h. *)
WrittenWith(h) == \E n \in 0..Len(FileOf(h, MaxFrames)) :
                    file = SubSeq(FileOf(h, MaxFrames), 1, n)

LastRead == IF y4m_shown = <<>> THEN 0 ELSE y4m_shown[Len(y4m_shown)]

(* The file ends after k frames, or within its header. *)
EndsAfter(h, k) == IF Len(file) < Start(h, 0) THEN k = 0
                                              ELSE Len(file) = Start(h, k)

(* Behind k frames, in front of the next one. *)
Behind(h, k) == IF Len(file) < Start(h, 0) THEN k = 0 /\ offset = Len(file)
                                           ELSE offset = Start(h, k)

Prefix(s, n) == [i \in 1..n |-> s[i]]

InMarker(h, k) == \/ buf = <<>> /\ Behind(h, k)
                  \/ buf = <<Marker>> /\ offset = Start(h, k) + 1

MarkerRead(h, k) ==
  \/ buf = <<>> /\ eof /\ EndsAfter(h, k)
  \/ buf = <<Marker>> /\ offset = Start(h, k) + 2
  \/ buf = <<Marker>> /\ offset = Start(h, k) + 1 /\ Len(file) = offset

(* A plane that begins at position begin is being read, or has been. *)
Filling(plane, size, begin) == /\ Len(buf) < size
                               /\ buf = Prefix(plane, Len(buf))
                               /\ offset = begin + Len(buf)
Filled(plane, size, begin) == buf = plane /\ offset = begin + size

Opening(h) ==
  /\ y4m_pc = "signature" => offset = 0 /\ buf = <<>>
  /\ y4m_pc = "check signature" => offset = 1 /\ buf = <<Signature>>
  /\ y4m_pc = "header" => /\ offset \in 1..(Start(h, 0) - 1)
                          /\ buf = Prefix(h, offset - 1)
  /\ y4m_pc = "check header" => /\ Behind(h, 0)
                                /\ \E n \in 0..Len(h) : buf = Prefix(h, n)
  /\ y4m_pc \in {"signature", "check signature", "header", "check header"}
       => y4m_shown = <<>>

InHeader(h) ==
  /\ y4m_pc = "ready" => buf = <<>> /\ Behind(h, LastRead)
  /\ y4m_pc = "marker" => InMarker(h, LastRead)
  /\ y4m_pc = "check marker" => MarkerRead(h, LastRead)
  /\ y4m_pc \in {"rewind", "skip", "skip header", "marker again",
                 "check marker again"} => loop /\ EndsAfter(h, LastRead)
  /\ y4m_pc = "rewind" => buf = <<>>
  /\ y4m_pc = "skip" => offset < Start(h, 0)
  /\ y4m_pc = "skip header" => Behind(h, 0)
  /\ y4m_pc = "marker again" => InMarker(h, 0)
  /\ y4m_pc = "check marker again" => MarkerRead(h, 0)

Turn(h, k) == \/ k = LastRead
              \/ loop /\ k = 0 /\ EndsAfter(h, LastRead)

InPlanes(h, k) ==
  LET f == k + 1
      y_begin == Start(h, k) + 2
      u_begin == y_begin + y_size
      v_begin == u_begin + uv_size
  IN /\ y4m_pc = "y" => \/ Filling(Plane("y", f), y_size, y_begin)
                        \/ /\ buf = <<>>
                           /\ offset = Start(h, k) + 1 /\ Len(file) = offset
     /\ y4m_pc = "copy y" => Filled(Plane("y", f), y_size, y_begin)
     /\ y4m_pc = "u" => Filling(Plane("u", f), uv_size, u_begin)
     /\ y4m_pc = "copy u" => Filled(Plane("u", f), uv_size, u_begin)
     /\ y4m_pc = "v" => Filling(Plane("v", f), uv_size, v_begin)
     /\ y4m_pc = "copy v" => Filled(Plane("v", f), uv_size, v_begin)
     /\ y4m_pc \in {"u", "copy u", "v", "copy v"} => y4m_img["y"] = Plane("y", f)
     /\ y4m_pc \in {"v", "copy v"} => y4m_img["u"] = Plane("u", f)

InFrame(h) ==
  y4m_pc \in {"y", "copy y", "u", "copy u", "v", "copy v"}
    => \E k \in 0..(MaxFrames - 1) : Turn(h, k) /\ InPlanes(h, k)

Ended(h) ==
  /\ y4m_pc = "end" => ~loop /\ EndsAfter(h, LastRead)
  /\ y4m_pc = "failed" => \A n \in 1..MaxFrames :
                            HeaderFits(h) => Len(file) # Start(h, n)

Call == {"signature", "check signature", "header", "check header", "ready",
         "marker", "check marker", "rewind", "skip", "skip header",
         "marker again", "check marker again",
         "y", "copy y", "u", "copy u", "v", "copy v", "end", "failed"}

FileTypes ==
  /\ y4m_pc \in Call
  /\ offset \in 0..Len(file)
  /\ eof \in BOOLEAN
  /\ eof => offset = Len(file)
  /\ y4m_shown \in Seq(Nat)
  /\ ~loop => Len(y4m_shown) = LastRead
  /\ y4m_img = [p \in {"y", "u", "v"} |-> y4m_img[p]]

Progress(h) == Opening(h) /\ InHeader(h) /\ InFrame(h) /\ Ended(h)

FileInv == /\ file \in Files
           /\ FileTypes
           /\ \A h \in Headers : WrittenWith(h) => Progress(h)
-----------------------------------------------------------------------------
(* Where everything is in a file. *)

LEMMA Sizes ==
  /\ y_size \in Nat \ {0} /\ uv_size \in Nat \ {0}
  /\ frame_length \in Nat /\ frame_length = 2 + y_size + 2 * uv_size
  <1> DEFINE a == display_width \div 2
             b == display_height \div 2
  <1>1. /\ a \in Nat \ {0} /\ display_width = 2 * a
        /\ b \in Nat \ {0} /\ display_height = 2 * b
    BY Y4MAssumption
  <1> HIDE DEF a, b
  <1>2. a * b \in Nat \ {0}
    BY <1>1, SMTT(30)
  <1>3. display_width * display_height = 4 * (a * b)
    BY <1>1, SMTT(30)
  <1>4. y_size = 4 * (a * b)
    BY <1>3 DEF y_size
  <1>5. uv_size = (4 * (a * b)) \div 4
    BY <1>3 DEF uv_size
  <1> DEFINE ab == a * b
  <1>6. ab \in Nat \ {0} /\ y_size = 4 * ab /\ uv_size = (4 * ab) \div 4
    BY <1>2, <1>4, <1>5
  <1> HIDE DEF ab
  <1>7. y_size \in Nat \ {0} /\ uv_size \in Nat \ {0}
    BY <1>6
  <1> QED
    BY <1>7 DEF frame_length

LEMMA StartFacts ==
  ASSUME NEW h \in Headers
  PROVE  /\ Len(h) \in Nat /\ Start(h, 0) = Len(h) + 2
         /\ \A k \in Nat : /\ Start(h, k) \in Nat
                           /\ Start(h, k + 1) = Start(h, k) + frame_length
         /\ \A j, k \in Nat : j < k => Start(h, j) + frame_length <= Start(h, k)
  <1> DEFINE L == frame_length
  <1>1. L \in Nat /\ Len(h) \in Nat
    BY Sizes, HeaderAssumption
  <1> HIDE DEF L
  <1>2. 0 * L = 0
    BY <1>1
  <1>3. ASSUME NEW k \in Nat PROVE k * L \in Nat /\ (k + 1) * L = k * L + L
    BY <1>1, SMTT(30)
  <1>4. ASSUME NEW j \in Nat, NEW k \in Nat, j < k PROVE j * L + L <= k * L
    <2>1. PICK d \in Nat : k = (j + 1) + d
      <3>1. k - (j + 1) \in Nat /\ k = (j + 1) + (k - (j + 1))
        BY <1>4
      <3> QED
        BY <3>1
    <2>2. k * L = (j + 1) * L + d * L
      BY <1>1, <2>1, SMTT(30)
    <2> QED
      BY <1>1, <1>3, <2>2
  <1>5. \A k : Start(h, k) = Len(h) + 2 + k * L
    BY DEF Start, L
  <1>6. Start(h, 0) = Len(h) + 2
    BY <1>1, <1>2, <1>5
  <1>7. ASSUME NEW k \in Nat
        PROVE  Start(h, k) \in Nat /\ Start(h, k + 1) = Start(h, k) + L
    BY <1>1, <1>3, <1>5
  <1>8. ASSUME NEW j \in Nat, NEW k \in Nat, j < k
        PROVE  Start(h, j) + L <= Start(h, k)
    BY <1>1, <1>3, <1>4, <1>5, <1>8
  <1> QED
    BY <1>1, <1>6, <1>7, <1>8 DEF L

LEMMA QuotientAndRest ==
  ASSUME NEW n \in Nat \ {0}, NEW k \in Nat, NEW r \in 0..(n - 1)
  PROVE  (k * n + r) \div n = k /\ (k * n + r) % n = r
  BY SMTT(60)

Pixel(p, f, i) == [kind |-> p, frame |-> f, value |-> i]

Byte == {Signature, Marker, Newline} \cup Token
          \cup {Pixel(p, f, i) : p \in {"y", "u", "v"}, f \in Nat, i \in Nat}

LEMMA PlaneFacts ==
  ASSUME NEW f \in Nat
  PROVE  /\ Plane("y", f) \in Seq(Byte) /\ Len(Plane("y", f)) = y_size
         /\ Plane("u", f) \in Seq(Byte) /\ Len(Plane("u", f)) = uv_size
         /\ Plane("v", f) \in Seq(Byte) /\ Len(Plane("v", f)) = uv_size
         /\ \A i \in 1..y_size : Plane("y", f)[i] = Pixel("y", f, i)
         /\ \A i \in 1..uv_size : Plane("u", f)[i] = Pixel("u", f, i)
         /\ \A i \in 1..uv_size : Plane("v", f)[i] = Pixel("v", f, i)
  <1>1. /\ PlaneSize["y"] = y_size
        /\ PlaneSize["u"] = uv_size
        /\ PlaneSize["v"] = uv_size
    BY DEF PlaneSize
  <1>2. ASSUME NEW p \in {"y", "u", "v"}, NEW n \in Nat, PlaneSize[p] = n
        PROVE  /\ Plane(p, f) \in Seq(Byte) /\ Len(Plane(p, f)) = n
               /\ \A i \in 1..n : Plane(p, f)[i] = Pixel(p, f, i)
    <2>1. Plane(p, f) = [i \in 1..n |-> Pixel(p, f, i)]
      BY <1>2 DEF Plane, Pixel
    <2>2. \A i \in 1..n : Pixel(p, f, i) \in Byte
      BY DEF Byte
    <2> QED
      BY <2>1, <2>2
  <1> QED
    BY <1>1, <1>2, Sizes

(* The bytes of a frame. *)
FrameLayout(s, f) ==
  /\ s \in Seq(Byte) /\ Len(s) = frame_length
  /\ s[1] = Marker /\ s[2] = Newline
  /\ \A i \in 1..y_size : s[2 + i] = Pixel("y", f, i)
  /\ \A i \in 1..uv_size : s[2 + y_size + i] = Pixel("u", f, i)
  /\ \A i \in 1..uv_size : s[2 + y_size + uv_size + i] = Pixel("v", f, i)

Joined(s, t, r, S) ==
  /\ r \in Seq(S) /\ Len(r) = Len(s) + Len(t)
  /\ \A i \in 1..Len(s) : r[i] = s[i]
  /\ \A i \in 1..Len(t) : r[Len(s) + i] = t[i]

LEMMA ConcatFacts ==
  ASSUME NEW S, NEW s \in Seq(S), NEW t \in Seq(S)
  PROVE  Joined(s, t, s \o t, S)
  <1>1. Len(s) \in Nat /\ Len(t) \in Nat
    OBVIOUS
  <1>2. \A i \in 1..(Len(s) + Len(t)) :
          (s \o t)[i] = IF i <= Len(s) THEN s[i] ELSE t[i - Len(s)]
    BY ConcatProperties
  <1>3. ASSUME NEW i \in 1..Len(t) PROVE (s \o t)[Len(s) + i] = t[i]
    <2>1. /\ Len(s) + i \in 1..(Len(s) + Len(t)) /\ ~(Len(s) + i <= Len(s))
          /\ (Len(s) + i) - Len(s) = i
      BY <1>1
    <2> QED
      BY <1>2, <2>1
  <1>4. ASSUME NEW i \in 1..Len(s) PROVE (s \o t)[i] = s[i]
    BY <1>1, <1>2
  <1> QED
    BY <1>3, <1>4, ConcatProperties DEF Joined

LEMMA FrameBytes ==
  ASSUME NEW f \in Nat
  PROVE  FrameLayout(FrameInFile(f), f)
  <1> DEFINE m == <<Marker, Newline>>
             y == Plane("y", f)
             u == Plane("u", f)
             v == Plane("v", f)
             my == m \o y
             myu == my \o u
             all == myu \o v
  <1>1. m \in Seq(Byte) /\ Len(m) = 2 /\ m[1] = Marker /\ m[2] = Newline
    BY DEF Byte
  <1>2. /\ y \in Seq(Byte) /\ u \in Seq(Byte) /\ v \in Seq(Byte)
        /\ Len(y) = y_size /\ Len(u) = uv_size /\ Len(v) = uv_size
        /\ \A i \in 1..y_size : y[i] = Pixel("y", f, i)
        /\ \A i \in 1..uv_size : u[i] = Pixel("u", f, i)
        /\ \A i \in 1..uv_size : v[i] = Pixel("v", f, i)
    BY PlaneFacts
  <1> HIDE DEF m, y, u, v
  <1>3. /\ my \in Seq(Byte) /\ Len(my) = 2 + y_size
        /\ my[1] = Marker /\ my[2] = Newline
        /\ \A i \in 1..y_size : my[2 + i] = Pixel("y", f, i)
    <2>1. Joined(m, y, my, Byte)
      BY <1>1, <1>2, ConcatFacts
    <2> QED
      BY <1>1, <1>2, <2>1 DEF Joined
  <1> HIDE DEF my
  <1>4. /\ myu \in Seq(Byte) /\ Len(myu) = 2 + y_size + uv_size
        /\ \A i \in 1..(2 + y_size) : myu[i] = my[i]
        /\ \A i \in 1..uv_size : myu[2 + y_size + i] = Pixel("u", f, i)
    <2>1. Joined(my, u, myu, Byte)
      BY <1>2, <1>3, ConcatFacts
    <2> QED
      BY <1>2, <1>3, <2>1 DEF Joined
  <1> HIDE DEF myu
  <1>5. /\ all \in Seq(Byte) /\ Len(all) = 2 + y_size + uv_size + uv_size
        /\ \A i \in 1..(2 + y_size + uv_size) : all[i] = myu[i]
        /\ \A i \in 1..uv_size : all[2 + y_size + uv_size + i] = Pixel("v", f, i)
    <2>1. Joined(myu, v, all, Byte)
      BY <1>2, <1>4, ConcatFacts
    <2> QED
      BY <1>2, <1>4, <2>1 DEF Joined
  <1> HIDE DEF all
  <1>6. all[1] = Marker /\ all[2] = Newline
    BY <1>3, <1>4, <1>5, Sizes
  <1>7. \A i \in 1..y_size : all[2 + i] = Pixel("y", f, i)
    BY <1>3, <1>4, <1>5, Sizes
  <1>8. ASSUME NEW i \in 1..uv_size PROVE all[2 + y_size + i] = Pixel("u", f, i)
    <2>1. 2 + y_size + i \in 1..(2 + y_size + uv_size)
      BY Sizes
    <2> QED
      BY <1>4, <1>5, <2>1
  <1>9. FrameLayout(all, f)
    BY <1>5, <1>6, <1>7, <1>8, Sizes DEF FrameLayout
  <1> QED
    BY <1>9 DEF all, myu, my, m, y, u, v, FrameInFile

(* The bytes of the beginning of a file with header h. *)
FileLayout(s, h) ==
  /\ s \in Seq(Byte) /\ Len(s) <= Start(h, MaxFrames)
  /\ 1 <= Len(s) => s[1] = Signature
  /\ \A i \in 1..Len(h) : 1 + i <= Len(s) => s[1 + i] = h[i]
  /\ Start(h, 0) <= Len(s) => s[Start(h, 0)] = Newline
  /\ \A k \in Nat, r \in 1..frame_length :
       Start(h, k) + r <= Len(s) => s[Start(h, k) + r] = FrameInFile(k + 1)[r]

LEMMA FirstLine ==
  ASSUME NEW h \in Headers
  PROVE  LET first == <<Signature>> \o h \o <<Newline>> IN
         /\ first \in Seq(Byte) /\ Len(first) = Start(h, 0)
         /\ first[1] = Signature /\ first[Start(h, 0)] = Newline
         /\ \A i \in 1..Len(h) : first[1 + i] = h[i]
  <1> DEFINE a == <<Signature>>
             b == <<Newline>>
             ah == a \o h
             first == ah \o b
  <1>1. /\ a \in Seq(Byte) /\ Len(a) = 1 /\ a[1] = Signature
        /\ b \in Seq(Byte) /\ Len(b) = 1 /\ b[1] = Newline
    BY DEF Byte
  <1>2. h \in Seq(Byte)
    <2>1. h \in Seq(Token) /\ Token \subseteq Byte
      BY HeaderAssumption DEF Byte
    <2> HIDE DEF Byte
    <2> QED
      BY <2>1
  <1> HIDE DEF a, b
  <1>3. Joined(a, h, ah, Byte)
    BY <1>1, <1>2, ConcatFacts
  <1>4. ah \in Seq(Byte)
    BY <1>3 DEF Joined
  <1> HIDE DEF ah
  <1>5. Joined(ah, b, first, Byte)
    BY <1>1, <1>4, ConcatFacts
  <1> HIDE DEF first
  <1>6. /\ Len(ah) = 1 + Len(h) /\ ah[1] = Signature
        /\ \A i \in 1..Len(h) : ah[1 + i] = h[i]
    BY <1>1, <1>3 DEF Joined
  <1>7. first \in Seq(Byte) /\ Len(first) = Len(h) + 2
    BY <1>1, <1>5, <1>6, StartFacts DEF Joined
  <1>8. first[1] = Signature /\ \A i \in 1..Len(h) : first[1 + i] = h[i]
    <2>1. Len(h) \in Nat
      BY StartFacts
    <2>2. 1 \in 1..Len(ah) /\ \A i \in 1..Len(h) : 1 + i \in 1..Len(ah)
      BY <1>6, <2>1
    <2> QED
      BY <1>5, <1>6, <2>2 DEF Joined
  <1>9. first[Len(h) + 2] = Newline
    <2>1. 1 \in 1..Len(b) /\ Len(ah) + 1 = Len(h) + 2
      BY <1>1, <1>6, StartFacts
    <2> QED
      BY <1>1, <1>5, <2>1 DEF Joined
  <1>10. /\ first \in Seq(Byte) /\ Len(first) = Start(h, 0)
         /\ first[1] = Signature /\ first[Start(h, 0)] = Newline
         /\ \A i \in 1..Len(h) : first[1 + i] = h[i]
    BY <1>7, <1>8, <1>9, StartFacts
  <1> QED
    BY <1>10 DEF first, ah, a, b

(* Every byte behind the header is one of a frame. *)
LEMMA InSomeFrame ==
  ASSUME NEW h \in Headers, NEW i \in Nat, i > Start(h, 0)
  PROVE  \E k \in Nat, r \in 1..frame_length : i = Start(h, k) + r
  <1> DEFINE L == frame_length
             j == i - Start(h, 0) - 1
             q == j \div L
             m == j % L
  <1>1. L \in Nat \ {0} /\ Start(h, 0) \in Nat
    BY Sizes, StartFacts
  <1>2. j \in Nat /\ i = Start(h, 0) + j + 1
    BY <1>1
  <1> HIDE DEF j, L
  <1>3. q \in Nat /\ m \in 0..(L - 1) /\ j = q * L + m
    BY <1>1, <1>2, SMTT(60)
  <1> HIDE DEF q, m
  <1>4. Start(h, q) = Start(h, 0) + q * L
    BY <1>1, <1>3, StartFacts DEF Start, L
  <1>5. q * L \in Nat
    BY <1>1, <1>3, SMTT(30)
  <1>6. m + 1 \in 1..L /\ i = Start(h, q) + (m + 1)
    BY <1>1, <1>2, <1>3, <1>4, <1>5
  <1> QED
    BY <1>3, <1>6 DEF L

LEMMA FileOfLayout ==
  ASSUME NEW h \in Headers, NEW n \in 0..MaxFrames
  PROVE  FileLayout(FileOf(h, n), h) /\ Len(FileOf(h, n)) = Start(h, n)
  <1> DEFINE first == <<Signature>> \o h \o <<Newline>>
             L == frame_length
             F(i) == FrameInFile((i \div L) + 1)[(i % L) + 1]
             N == Start(h, n)
             Z == Start(h, 0)
             B(i) == IF i <= Z THEN first[i] ELSE F(i - Z - 1)
             s == [i \in 1..N |-> B(i)]
  <1>1. /\ first \in Seq(Byte) /\ Len(first) = Z
        /\ first[1] = Signature /\ first[Z] = Newline
        /\ \A i \in 1..Len(h) : first[1 + i] = h[i]
    BY FirstLine
  <1>2. n \in Nat /\ MaxFrames \in Nat /\ N \in Nat /\ Z \in Nat /\ Z = Len(h) + 2
    <2>1. n \in Nat /\ MaxFrames \in Nat
      BY Y4MAssumption
    <2> QED
      BY <2>1, StartFacts
  <1>3. Z + n * L = N
    BY <1>2, StartFacts DEF Start, L
  <1>4. FileOf(h, n) = s
    BY <1>1, <1>3 DEF FileOf, L
  <1> HIDE DEF first
  <1>5. L \in Nat \ {0}
    BY Sizes
  <1>6. ASSUME NEW k \in Nat, NEW r \in 1..L, NEW i, i = Start(h, k) + r
        PROVE  i \in Nat /\ B(i) = FrameInFile(k + 1)[r] /\ B(i) \in Byte
    <2>1. k * L \in Nat /\ Start(h, k) = Z + k * L
      <3>1. k * L \in Nat
        BY <1>5, SMTT(30)
      <3> QED
        BY <1>2, <3>1 DEF Start, L
    <2>2. /\ i \in Nat /\ ~(i <= Z)
          /\ i - Z - 1 = k * L + (r - 1) /\ r - 1 \in 0..(L - 1)
      BY <1>2, <1>5, <1>6, <2>1
    <2>3. (i - Z - 1) \div L = k /\ (i - Z - 1) % L = r - 1
      BY <1>5, <2>2, QuotientAndRest
    <2>4. (r - 1) + 1 = r
      BY <1>5
    <2>5. F(i - Z - 1) = FrameInFile(k + 1)[r]
      BY Zenon, <2>3, <2>4
    <2>6. FrameLayout(FrameInFile(k + 1), k + 1)
      BY FrameBytes
    <2>7. FrameInFile(k + 1)[r] \in Byte
      BY <2>6 DEF FrameLayout, L
    <2> HIDE DEF F
    <2> QED
      BY <2>2, <2>5, <2>7
  <1>7. ASSUME NEW i \in 1..N PROVE B(i) \in Byte
    <2>1. CASE i <= Z
      BY <1>1, <1>2, <2>1
    <2>2. CASE i > Z
      <3>1. PICK k \in Nat, r \in 1..L : i = Start(h, k) + r
        BY <1>2, <2>2, InSomeFrame DEF L
      <3> QED
        BY <1>6, <3>1
    <2> QED
      BY <1>2, <2>1, <2>2
  <1>8. s \in Seq(Byte) /\ Len(s) = N /\ \A i \in 1..N : s[i] = B(i)
    <2> HIDE DEF B
    <2> QED
      BY <1>2, <1>7
  <1> HIDE DEF s, F
  <1>9. N <= Start(h, MaxFrames)
    <2>1. CASE n = MaxFrames
      BY <1>2, <2>1
    <2>2. CASE n < MaxFrames
      <3>1. Start(h, n) + frame_length <= Start(h, MaxFrames)
        BY <1>2, <2>2, StartFacts
      <3>2. Start(h, n) \in Nat /\ Start(h, MaxFrames) \in Nat
        BY <1>2, StartFacts
      <3>3. N = Start(h, n) /\ frame_length \in Nat
        BY <1>2, Sizes
      <3> QED
        BY <3>1, <3>2, <3>3
    <2> QED
      BY <1>2, <2>1, <2>2
  <1>10. 1 <= N => s[1] = Signature
    BY <1>1, <1>2, <1>8, StartFacts
  <1>11. ASSUME NEW i \in 1..Len(h), 1 + i <= N PROVE s[1 + i] = h[i]
    <2>1. 1 + i \in 1..N /\ 1 + i <= Z
      BY <1>2, <1>11, StartFacts
    <2> QED
      BY <1>1, <1>8, <2>1
  <1>12. Z <= N => s[Z] = Newline
    BY <1>1, <1>2, <1>8, StartFacts
  <1>13. ASSUME NEW k \in Nat, NEW r \in 1..L, Start(h, k) + r <= N
         PROVE  s[Start(h, k) + r] = FrameInFile(k + 1)[r]
    <2>1. Start(h, k) \in Nat
      BY StartFacts
    <2>2. Start(h, k) + r \in 1..N
      BY <1>2, <1>5, <1>13, <2>1
    <2> HIDE DEF B
    <2> QED
      BY <1>6, <1>8, <2>2
  <1>14. FileLayout(s, h)
    BY <1>8, <1>9, <1>10, <1>11, <1>12, <1>13 DEF FileLayout, L
  <1> QED
    BY <1>4, <1>8, <1>14

LEMMA BeginningOf ==
  ASSUME NEW h \in Headers, NEW s \in Seq(Byte), FileLayout(s, h),
         NEW n \in 0..Len(s)
  PROVE  FileLayout(SubSeq(s, 1, n), h) /\ Len(SubSeq(s, 1, n)) = n
  <1> DEFINE t == SubSeq(s, 1, n)
  <1>1. n \in Nat /\ Len(s) \in Nat /\ n <= Len(s)
    OBVIOUS
  <1>2. t \in Seq(Byte) /\ Len(t) = n /\ \A i \in 1..n : t[i] = s[i]
    <2> HIDE DEF FileLayout
    <2>1. \A i \in 1..n : i \in 1..Len(s)
      BY <1>1
    <2> QED
      BY <1>1, <2>1
  <1> HIDE DEF t
  <1>3. /\ Start(h, MaxFrames) \in Nat /\ Start(h, 0) \in Nat /\ Start(h, 0) > 0
        /\ Len(h) \in Nat
    <2>1. MaxFrames \in Nat
      BY Y4MAssumption
    <2>2. /\ Start(h, MaxFrames) \in Nat /\ Len(h) \in Nat
          /\ Start(h, 0) = Len(h) + 2
      BY <2>1, StartFacts
    <2> QED
      BY <2>2
  <1>4. n <= Start(h, MaxFrames)
    BY <1>1, <1>3 DEF FileLayout
  <1>5. 1 <= n => t[1] = Signature
    BY <1>1, <1>2 DEF FileLayout
  <1>6. ASSUME NEW i \in 1..Len(h), 1 + i <= n PROVE t[1 + i] = h[i]
    BY <1>1, <1>2, <1>3, <1>6 DEF FileLayout
  <1>7. Start(h, 0) <= n => t[Start(h, 0)] = Newline
    BY <1>1, <1>2, <1>3 DEF FileLayout
  <1>8. ASSUME NEW k \in Nat, NEW r \in 1..frame_length, Start(h, k) + r <= n
        PROVE  t[Start(h, k) + r] = FrameInFile(k + 1)[r]
    <2>1. Start(h, k) \in Nat
      BY StartFacts
    <2>2. Start(h, k) + r \in 1..n /\ Start(h, k) + r <= Len(s)
      BY <1>1, <1>8, <2>1, Sizes
    <2> QED
      BY <1>2, <2>2 DEF FileLayout
  <1>9. FileLayout(t, h)
    BY <1>2, <1>4, <1>5, <1>6, <1>7, <1>8 DEF FileLayout
  <1> QED
    BY <1>2, <1>9 DEF t

LEMMA WrittenLayout ==
  ASSUME NEW h \in Headers, WrittenWith(h)
  PROVE  FileLayout(file, h)
  <1> DEFINE s == FileOf(h, MaxFrames)
  <1>1. FileLayout(s, h)
    BY FileOfLayout, Y4MAssumption
  <1>2. s \in Seq(Byte)
    BY <1>1 DEF FileLayout
  <1>3. PICK n \in 0..Len(s) : file = SubSeq(s, 1, n)
    BY DEF WrittenWith
  <1> HIDE DEF s
  <1> QED
    BY <1>1, <1>2, <1>3, BeginningOf

LEMMA WrittenWithSome ==
  ASSUME file \in Files
  PROVE  \E h \in Headers : WrittenWith(h)
  BY DEF Files, WrittenWith

(* A file of n frames is the beginning of one of MaxFrames. *)
LEMMA WholeIsWritten ==
  ASSUME NEW h \in Headers, NEW n \in 0..MaxFrames, file = FileOf(h, n)
  PROVE  WrittenWith(h) /\ Len(file) = Start(h, n)
  <1> DEFINE s == FileOf(h, MaxFrames)
             N == Start(h, n)
             t == SubSeq(s, 1, N)
  <1>1. MaxFrames \in Nat /\ n \in Nat /\ MaxFrames \in 0..MaxFrames
    BY Y4MAssumption
  <1>2. FileLayout(s, h) /\ Len(s) = Start(h, MaxFrames)
    BY <1>1, FileOfLayout
  <1>3. FileLayout(file, h) /\ Len(file) = N
    BY FileOfLayout
  <1> HIDE DEF s
  <1>4. N \in Nat /\ N <= Len(s)
    <2>1. N \in Nat /\ Len(s) \in Nat
      BY <1>1, <1>2, StartFacts
    <2> QED
      BY <1>2, <1>3, <2>1 DEF FileLayout
  <1>5. N \in 0..Len(s)
    <2>1. Len(s) \in Nat
      BY <1>1, <1>2, StartFacts
    <2> QED
      BY <1>4, <2>1
  <1>6. FileLayout(t, h) /\ Len(t) = N
    <2>1. s \in Seq(Byte)
      BY <1>2 DEF FileLayout
    <2> QED
      BY <1>2, <1>5, <2>1, BeginningOf
  <1>7. ASSUME NEW i \in 1..N PROVE file[i] = t[i]
    <2>1. Len(h) \in Nat /\ Start(h, 0) = Len(h) + 2
      BY StartFacts
    <2>2. CASE i = 1
      BY <1>3, <1>4, <1>6, <2>2 DEF FileLayout
    <2>3. CASE i \in 2..(Len(h) + 1)
      <3>1. PICK j \in 1..Len(h) : i = 1 + j
        <4>1. i - 1 \in 1..Len(h) /\ i = 1 + (i - 1)
          BY <2>1, <2>3
        <4> QED
          BY <4>1
      <3>2. 1 + j <= N
        BY <3>1
      <3> QED
        BY <1>3, <1>6, <3>1, <3>2 DEF FileLayout
    <2>4. CASE i = Start(h, 0)
      BY <1>3, <1>4, <1>6, <2>4 DEF FileLayout
    <2>5. CASE i > Start(h, 0)
      <3>1. PICK k \in Nat, r \in 1..frame_length : i = Start(h, k) + r
        BY <1>4, <2>5, InSomeFrame
      <3>2. Start(h, k) + r <= N
        BY <3>1
      <3> QED
        BY <1>3, <1>6, <3>1, <3>2 DEF FileLayout
    <2> QED
      BY <1>4, <2>1, <2>2, <2>3, <2>4, <2>5
  <1>8. file \in Seq(Byte) /\ t \in Seq(Byte)
    BY <1>3, <1>6 DEF FileLayout
  <1> HIDE DEF t
  <1>9. file = t
    BY <1>3, <1>4, <1>6, <1>7, <1>8, SeqEqual
  <1> QED
    BY <1>3, <1>9, <1>5 DEF WrittenWith, s, t

(* The last byte of the V plane is where a frame ends. *)
IsFrameEnd(b) == b.kind = "v" /\ b.value = uv_size

LEMMA FrameEnds ==
  ASSUME NEW h \in Headers, WrittenWith(h), NEW i \in 1..Len(file)
  PROVE  IsFrameEnd(file[i]) <=> \E k \in Nat : i = Start(h, k + 1)
  <1>1. FileLayout(file, h) /\ Len(file) \in Nat
    BY WrittenLayout DEF FileLayout
  <1>2. Len(h) \in Nat /\ Start(h, 0) = Len(h) + 2
    BY StartFacts
  <1>3. /\ ~IsFrameEnd(Signature) /\ ~IsFrameEnd(Newline) /\ ~IsFrameEnd(Marker)
        /\ \A t \in Token : ~IsFrameEnd(t)
    BY DEF IsFrameEnd, Signature, Newline, Marker, Word, Token
  <1>4. CASE i <= Start(h, 0)
    <2>1. \A k \in Nat : i # Start(h, k + 1)
      <3>1. ASSUME NEW k \in Nat PROVE i # Start(h, k + 1)
        <4>1. k + 1 \in Nat /\ 0 < k + 1 /\ frame_length \in Nat \ {0}
          BY Sizes
        <4>2. Start(h, 0) + frame_length <= Start(h, k + 1) /\ Start(h, k + 1) \in Nat
          BY <4>1, StartFacts
        <4> QED
          BY <1>2, <1>4, <4>1, <4>2
      <3> QED
        BY <3>1
    <2>2. ~IsFrameEnd(file[i])
      <3>1. CASE i = 1
        BY <1>1, <1>3, <3>1 DEF FileLayout
      <3>2. CASE i = Start(h, 0)
        BY <1>1, <1>3, <3>2 DEF FileLayout
      <3>3. CASE i \in 2..(Len(h) + 1)
        <4>1. PICK j \in 1..Len(h) : i = 1 + j
          <5>1. i - 1 \in 1..Len(h) /\ i = 1 + (i - 1)
            BY <1>2, <3>3
          <5> QED
            BY <5>1
        <4>2. h[j] \in Token
          BY HeaderAssumption
        <4>3. file[i] = h[j]
          BY <1>1, <4>1 DEF FileLayout
        <4> QED
          BY <1>3, <4>2, <4>3
      <3> QED
        BY <1>1, <1>2, <1>4, <3>1, <3>2, <3>3
    <2> QED
      BY <2>1, <2>2
  <1>5. CASE i > Start(h, 0)
    <2>1. PICK k \in Nat, r \in 1..frame_length : i = Start(h, k) + r
      BY <1>5, InSomeFrame
    <2> DEFINE s == FrameInFile(k + 1)
    <2>2. FrameLayout(s, k + 1)
      BY FrameBytes
    <2> HIDE DEF s
    <2>3. file[i] = s[r]
      BY <1>1, <2>1 DEF FileLayout, s
    <2>4. /\ y_size \in Nat /\ uv_size \in Nat \ {0} /\ frame_length \in Nat
          /\ frame_length = 2 + y_size + 2 * uv_size
      BY Sizes
    <2>5. IsFrameEnd(s[r]) <=> r = frame_length
      <3>1. CASE r \in {1, 2}
        BY <1>3, <2>2, <2>4, <3>1 DEF FrameLayout
      <3>2. CASE r \in 3..(2 + y_size)
        <4>1. PICK j \in 1..y_size : r = 2 + j
          <5>1. r - 2 \in 1..y_size /\ r = 2 + (r - 2)
            BY <2>4, <3>2
          <5> QED
            BY <5>1
        <4>2. s[r] = Pixel("y", k + 1, j)
          BY <2>2, <4>1 DEF FrameLayout
        <4> QED
          BY <2>4, <3>2, <4>2 DEF Pixel, IsFrameEnd
      <3>3. CASE r \in (3 + y_size)..(2 + y_size + uv_size)
        <4>1. PICK j \in 1..uv_size : r = 2 + y_size + j
          <5>1. r - 2 - y_size \in 1..uv_size /\ r = 2 + y_size + (r - 2 - y_size)
            BY <2>4, <3>3
          <5> QED
            BY <5>1
        <4>2. s[r] = Pixel("u", k + 1, j)
          BY <2>2, <4>1 DEF FrameLayout
        <4> QED
          BY <2>4, <3>3, <4>2 DEF Pixel, IsFrameEnd
      <3>4. CASE r \in (3 + y_size + uv_size)..frame_length
        <4>1. PICK j \in 1..uv_size : r = 2 + y_size + uv_size + j
          <5>1. /\ r - 2 - y_size - uv_size \in 1..uv_size
                /\ r = 2 + y_size + uv_size + (r - 2 - y_size - uv_size)
            BY <2>4, <3>4
          <5> QED
            BY <5>1
        <4>2. s[r] = Pixel("v", k + 1, j)
          BY <2>2, <4>1 DEF FrameLayout
        <4>3. r = frame_length <=> j = uv_size
          BY <2>4, <4>1
        <4> QED
          BY <4>2, <4>3 DEF Pixel, IsFrameEnd
      <3> QED
        BY <2>4, <3>1, <3>2, <3>3, <3>4
    <2>6. Start(h, k) \in Nat /\ Start(h, k + 1) = Start(h, k) + frame_length
      BY StartFacts
    <2>7. ASSUME NEW q \in Nat, i = Start(h, q + 1) PROVE r = frame_length
      <3>1. Start(h, q) \in Nat /\ Start(h, q + 1) = Start(h, q) + frame_length
        BY StartFacts
      <3>2. /\ q < k => Start(h, q) + frame_length <= Start(h, k)
            /\ k < q => Start(h, k) + frame_length <= Start(h, q)
        BY StartFacts
      <3>3. ~(q < k)
        BY <2>1, <2>4, <2>6, <2>7, <3>1, <3>2
      <3>4. ~(k < q)
        BY <2>1, <2>4, <2>6, <2>7, <3>1, <3>2
      <3>5. q = k
        BY <3>3, <3>4
      <3> QED
        BY <2>1, <2>4, <2>6, <2>7, <3>5
    <2>8. r = frame_length => i = Start(h, k + 1)
      BY <2>1, <2>6
    <2> QED
      BY <2>3, <2>5, <2>7, <2>8
  <1> QED
    BY <1>1, <1>2, <1>4, <1>5

LEMMA FrameCount ==
  ASSUME NEW h \in Headers, WrittenWith(h), NEW m \in Nat,
         m = 0 \/ Start(h, m) <= Len(file), Len(file) < Start(h, m + 1)
  PROVE  FramesInFile = m
  <1> DEFINE V == {i \in DOMAIN file : IsFrameEnd(file[i])}
             g == [f \in 1..m |-> Start(h, f)]
  <1>1. Len(file) \in Nat /\ DOMAIN file = 1..Len(file)
    <2>1. file \in Seq(Byte)
      BY WrittenLayout DEF FileLayout
    <2> QED
      BY <2>1
  <1>2. frame_length \in Nat \ {0}
    BY Sizes
  <1>3. ASSUME NEW f \in 1..m PROVE Start(h, f) \in V
    <2>1. f \in Nat /\ 0 < f /\ f <= m /\ f - 1 \in Nat /\ (f - 1) + 1 = f
      OBVIOUS
    <2>2. /\ Start(h, f) \in Nat /\ Start(h, m) \in Nat /\ Start(h, 0) \in Nat
          /\ f < m => Start(h, f) + frame_length <= Start(h, m)
          /\ Start(h, 0) + frame_length <= Start(h, f)
      BY <2>1, StartFacts
    <2>3. Start(h, f) \in 1..Len(file)
      BY <1>1, <1>2, <2>1, <2>2
    <2>4. IsFrameEnd(file[Start(h, f)])
      BY <2>1, <2>3, FrameEnds
    <2> QED
      BY <1>1, <2>3, <2>4
  <1>4. ASSUME NEW i \in V PROVE \E f \in 1..m : i = Start(h, f)
    <2>1. i \in 1..Len(file) /\ IsFrameEnd(file[i])
      BY <1>1
    <2>2. PICK k \in Nat : i = Start(h, k + 1)
      BY <2>1, FrameEnds
    <2>3. /\ Start(h, m + 1) \in Nat /\ Start(h, k + 1) \in Nat
          /\ m + 1 < k + 1 => Start(h, m + 1) + frame_length <= Start(h, k + 1)
      <3>1. m + 1 \in Nat /\ k + 1 \in Nat
        OBVIOUS
      <3> QED
        BY <3>1, StartFacts
    <2>4. ~(m + 1 < k + 1) /\ k + 1 # m + 1
      BY <1>1, <1>2, <2>1, <2>2, <2>3
    <2>5. k + 1 \in 1..m
      BY <2>4
    <2> QED
      BY <2>2, <2>5
  <1>5. ASSUME NEW f \in 1..m, NEW e \in 1..m, Start(h, f) = Start(h, e)
        PROVE  f = e
    <2>1. /\ Start(h, f) \in Nat /\ Start(h, e) \in Nat
          /\ f < e => Start(h, f) + frame_length <= Start(h, e)
          /\ e < f => Start(h, e) + frame_length <= Start(h, f)
      <3>1. f \in Nat /\ e \in Nat
        OBVIOUS
      <3> QED
        BY <3>1, StartFacts
    <2>2. ~(f < e) /\ ~(e < f)
      BY <1>2, <1>5, <2>1
    <2> QED
      BY <2>2
  <1> HIDE DEF V
  <1>6. g \in Bijection(1..m, V)
    <2>1. g \in [1..m -> V]
      BY <1>3
    <2>2. \A f, e \in 1..m : g[f] = g[e] => f = e
      BY <1>5
    <2>3. \A i \in V : \E f \in 1..m : g[f] = i
      BY <1>4
    <2> HIDE DEF g
    <2> QED
      BY <2>1, <2>2, <2>3 DEF Bijection, Injection, Surjection, IsInjective
  <1>7. IsFiniteSet(1..m) /\ Cardinality(1..m) = m
    <2>1. 1 \in Int /\ m \in Int
      OBVIOUS
    <2>2. /\ IsFiniteSet(1..m)
          /\ Cardinality(1..m) = IF 1 > m THEN 0 ELSE m - 1 + 1
      BY <2>1, FS_Interval
    <2>3. (IF 1 > m THEN 0 ELSE m - 1 + 1) = m
      OBVIOUS
    <2> QED
      BY <2>2, <2>3
  <1>8. Cardinality(V) = m
    BY <1>6, <1>7, FS_Bijection DEF ExistsBijection
  <1> QED
    BY <1>8 DEF FramesInFile, V, IsFrameEnd

(* The number of frames is known at every place where the file may end. *)
LEMMA FramesRead ==
  ASSUME NEW h \in Headers, WrittenWith(h)
  PROVE  /\ \A k \in Nat : EndsAfter(h, k) => FramesInFile = k
         /\ FramesInFile \in Nat
         /\ \A k \in Nat : Start(h, k + 1) <= Len(file) => k < FramesInFile
  <1>1. Len(file) \in Nat /\ frame_length \in Nat \ {0} /\ Start(h, 0) \in Nat
    <2>1. file \in Seq(Byte)
      BY WrittenLayout DEF FileLayout
    <2>2. Start(h, 0) \in Nat
      BY StartFacts
    <2> QED
      BY <2>1, <2>2, Sizes
  <1>2. \A k \in Nat : Start(h, k) \in Nat /\ Start(h, k + 1) = Start(h, k) + frame_length
    BY StartFacts
  <1>3. ASSUME NEW k \in Nat, EndsAfter(h, k) PROVE FramesInFile = k
    <2>1. k = 0 \/ Start(h, k) <= Len(file)
      BY <1>1, <1>2, <1>3 DEF EndsAfter
    <2>2. Len(file) < Start(h, k + 1)
      <3>1. 0 + 1 = 1 /\ Start(h, 0 + 1) = Start(h, 0) + frame_length
        BY <1>2
      <3>2. CASE Len(file) < Start(h, 0)
        BY <1>1, <1>3, <3>1, <3>2 DEF EndsAfter
      <3>3. CASE ~(Len(file) < Start(h, 0))
        <4>1. Start(h, k) \in Nat /\ Start(h, k + 1) = Start(h, k) + frame_length
          BY <1>2
        <4> QED
          BY <1>1, <1>3, <3>3, <4>1 DEF EndsAfter
      <3> QED
        BY <3>2, <3>3
    <2> QED
      BY <2>1, <2>2, FrameCount
  <1>4. \E m \in Nat : /\ m = 0 \/ Start(h, m) <= Len(file)
                       /\ Len(file) < Start(h, m + 1)
    <2>1. CASE Len(file) <= Start(h, 0)
      <3>1. Len(file) < Start(h, 0 + 1)
        BY <1>1, <1>2, <2>1
      <3> QED
        BY <3>1
    <2>2. CASE Len(file) > Start(h, 0)
      <3>1. PICK k \in Nat, r \in 1..frame_length : Len(file) = Start(h, k) + r
        BY <1>1, <2>2, InSomeFrame
      <3>2. CASE r = frame_length
        <4>1. k + 1 \in Nat /\ Len(file) = Start(h, k + 1)
          BY <1>2, <3>1, <3>2
        <4>2. Len(file) < Start(h, (k + 1) + 1)
          BY <1>1, <1>2, <4>1
        <4> QED
          BY <1>1, <4>1, <4>2
      <3>3. CASE r # frame_length
        <4>1. Start(h, k) \in Nat /\ Start(h, k + 1) = Start(h, k) + frame_length
          BY <1>2
        <4>2. Start(h, k) <= Len(file) /\ Len(file) < Start(h, k + 1)
          BY <1>1, <3>1, <3>3, <4>1
        <4> QED
          BY <4>2
      <3> QED
        BY <3>2, <3>3
    <2> QED
      BY <1>1, <2>1, <2>2
  <1>5. PICK m \in Nat : /\ m = 0 \/ Start(h, m) <= Len(file)
                         /\ Len(file) < Start(h, m + 1)
    BY <1>4
  <1>6. FramesInFile = m
    BY <1>5, FrameCount
  <1>7. ASSUME NEW k \in Nat, Start(h, k + 1) <= Len(file) PROVE k < m
    <2>1. m < k => Start(h, m) + frame_length <= Start(h, k)
      BY StartFacts
    <2>2. /\ Start(h, k) \in Nat /\ Start(h, k + 1) = Start(h, k) + frame_length
          /\ Start(h, m) \in Nat /\ Start(h, m + 1) = Start(h, m) + frame_length
      BY <1>2
    <2>3. k # m /\ ~(m < k)
      BY <1>1, <1>5, <1>7, <2>1, <2>2
    <2> QED
      BY <2>3
  <1> QED
    BY <1>3, <1>6, <1>7

-----------------------------------------------------------------------------
(* One iteration of getline and of readn. *)

Untouched == UNCHANGED <<file, loop, y4m_img, y4m_shown>>

LEMMA TypesKept ==
  ASSUME FileTypes, Untouched, y4m_pc' \in Call, offset' \in 0..Len(file),
         eof' \in BOOLEAN, eof' => offset' = Len(file)
  PROVE  FileTypes' /\ LastRead' = LastRead
  BY DEF FileTypes, Untouched, LastRead

LEMMA OneByte ==
  ASSUME NEW S, NEW s \in Seq(S), NEW i \in 1..Len(s)
  PROVE  SubSeq(s, i, i) = <<s[i]>>
  <1>1. i \in Nat /\ Len(s) \in Nat /\ i <= Len(s) /\ 1 <= i
    OBVIOUS
  <1>2. /\ SubSeq(s, i, i) \in Seq(S) /\ Len(SubSeq(s, i, i)) = 1
        /\ SubSeq(s, i, i)[1] = s[i]
    BY <1>1
  <1>3. <<s[i]>> \in Seq(S) /\ Len(<<s[i]>>) = 1 /\ <<s[i]>>[1] = s[i]
    BY <1>1
  <1>4. \A j \in 1..1 : j = 1
    OBVIOUS
  <1> QED
    BY <1>2, <1>3, <1>4, SeqEqual

LEMMA GetlineStep ==
  ASSUME FileTypes, file \in Seq(Byte), NEW next \in Call, Getline(next)
  PROVE  /\ Untouched /\ FileTypes' /\ LastRead' = LastRead
         /\ \/ /\ offset = Len(file) /\ offset' = offset /\ eof'
               /\ buf' = buf /\ y4m_pc' = next
            \/ /\ offset < Len(file) /\ offset' = offset + 1
               /\ file[offset + 1] = Newline
               /\ buf' = buf /\ y4m_pc' = next
            \/ /\ offset < Len(file) /\ offset' = offset + 1
               /\ file[offset + 1] # Newline
               /\ buf' = buf \o <<file[offset + 1]>> /\ y4m_pc' = y4m_pc
  <1>1. PICK k \in BytesRead(1) :
          LET byte == SubSeq(file, offset + 1, offset + k)
          IN /\ offset' = offset + k
             /\ eof' = (eof \/ k = 0)
             /\ buf' = IF LineEnds(byte) THEN buf ELSE buf \o byte
             /\ y4m_pc' = IF LineEnds(byte) THEN next ELSE y4m_pc
             /\ UNCHANGED <<file, loop, y4m_img, y4m_shown>>
    BY DEF Getline
  <1> DEFINE byte == SubSeq(file, offset + 1, offset + k)
  <1>2. Len(file) \in Nat /\ offset \in 0..Len(file) /\ eof \in BOOLEAN
        /\ (eof => offset = Len(file)) /\ y4m_pc \in Call
    BY DEF FileTypes
  <1>3. Untouched
    BY <1>1 DEF Untouched
  <1>4. CASE offset = Len(file)
    <2>1. k = 0
      BY <1>4 DEF BytesRead
    <2>2. eof' = TRUE /\ offset' = offset
      <3>1. offset' = offset
        BY <1>1, <1>2, <2>1
      <3>2. eof' = TRUE
        BY Zenon, <1>1, <2>1
      <3> QED
        BY <3>1, <3>2
    <2>3. LineEnds(byte)
      BY <2>2 DEF LineEnds
    <2>4. buf' = buf /\ y4m_pc' = next
      BY <1>1, <2>3
    <2>5. FileTypes' /\ LastRead' = LastRead
      BY <1>2, <1>3, <1>4, <2>2, <2>4, TypesKept
    <2> QED
      BY <1>3, <1>4, <2>2, <2>4, <2>5
  <1>5. CASE offset # Len(file)
    <2>1. k = 1
      BY <1>5 DEF BytesRead
    <2>2. eof' = FALSE /\ offset' = offset + 1 /\ offset < Len(file)
      BY <1>1, <1>2, <1>5, <2>1
    <2>3. byte = <<file[offset + 1]>>
      <3>1. offset + 1 \in 1..Len(file)
        BY <1>2, <2>2
      <3> QED
        BY <2>1, <3>1, OneByte
    <2>4. LineEnds(byte) <=> file[offset + 1] = Newline
      BY <2>2, <2>3 DEF LineEnds
    <2>5. /\ buf' = IF file[offset + 1] = Newline THEN buf
                                                 ELSE buf \o <<file[offset + 1]>>
          /\ y4m_pc' = IF file[offset + 1] = Newline THEN next ELSE y4m_pc
      BY <1>1, <2>3, <2>4
    <2>6. y4m_pc' \in Call /\ offset' \in 0..Len(file) /\ eof' \in BOOLEAN /\ ~eof'
      <3>1. eof' \in BOOLEAN /\ ~eof'
        BY Zenon, <2>2
      <3>2. offset' \in 0..Len(file)
        BY <1>2, <2>2
      <3> QED
        BY <1>2, <2>5, <3>1, <3>2
    <2>7. FileTypes' /\ LastRead' = LastRead
      BY <1>3, <2>6, TypesKept
    <2> QED
      BY <1>3, <2>2, <2>5, <2>7
  <1> QED
    BY <1>4, <1>5

LEMMA FillingFacts ==
  ASSUME NEW size \in Nat, NEW begin \in Nat, NEW plane,
         Filling(plane, size, begin), offset \in Nat
  PROVE  Len(buf) \in Nat /\ begin <= offset /\ offset < begin + size
  <1> DEFINE b == Len(buf)
  <1>1. b < size /\ buf = [i \in 1..b |-> plane[i]] /\ offset = begin + b
    BY DEF Filling, Prefix
  <1>2. b = offset - begin
    BY <1>1
  <1>3. b \in Int
    BY <1>2
  <1>4. b \in Nat
    <2>1. CASE b >= 0
      BY <1>3, <2>1
    <2>2. CASE b < 0
      <3>1. 1..b = {}
        BY <1>3, <2>2
      <3>2. buf = <<>>
        BY <1>1, <3>1
      <3>3. Len(<<>>) = 0
        OBVIOUS
      <3> QED
        BY <3>2, <3>3
    <2> QED
      BY <1>3, <2>1, <2>2
  <1> HIDE DEF b
  <1>5. begin <= offset /\ offset < begin + size
    BY <1>1, <1>4
  <1> QED
    BY <1>4, <1>5 DEF b

(* readn copies a plane, if the file has it from begin on. *)
LEMMA ReadnStep ==
  ASSUME FileTypes, file \in Seq(Byte), NEW next \in Call \ {"failed"},
         y4m_pc # "failed", y4m_pc # next,
         NEW size \in Nat, NEW plane \in Seq(Byte), Len(plane) = size,
         NEW begin \in Nat, Filling(plane, size, begin),
         \A i \in 1..size : begin + i <= Len(file) => file[begin + i] = plane[i],
         Readn(size, next)
  PROVE  /\ Untouched /\ FileTypes' /\ LastRead' = LastRead
         /\ \/ y4m_pc' = "failed" /\ offset = Len(file)
            \/ y4m_pc' = next /\ Filled(plane, size, begin)'
            \/ y4m_pc' = y4m_pc /\ Filling(plane, size, begin)'
  <1>1. PICK k \in BytesRead(size - Len(buf)) :
          /\ buf' = buf \o SubSeq(file, offset + 1, offset + k)
          /\ offset' = offset + k
          /\ eof' = (eof \/ k = 0)
          /\ y4m_pc' = IF k = 0 THEN "failed"
                       ELSE IF Len(buf') = size THEN next ELSE y4m_pc
          /\ UNCHANGED <<file, loop, y4m_img, y4m_shown>>
    BY DEF Readn
  <1> DEFINE b == Len(buf)
             more == SubSeq(file, offset + 1, offset + k)
  <1>2. /\ Len(file) \in Nat /\ offset \in 0..Len(file) /\ eof \in BOOLEAN
        /\ eof => offset = Len(file)
        /\ y4m_pc \in Call /\ "failed" \in Call
    <2>1. "failed" \in Call
      BY DEF Call
    <2> QED
      BY <2>1 DEF FileTypes
  <1>3. b < size /\ buf = [i \in 1..b |-> plane[i]] /\ offset = begin + b
    BY DEF Filling, Prefix
  <1>4. b \in Nat /\ DOMAIN buf = 1..b /\ buf \in Seq(Byte)
    <2>1. b \in Nat
      BY <1>2, FillingFacts
    <2> HIDE DEF b
    <2>2. \A i \in 1..b : plane[i] \in Byte
      BY <1>3, <2>1
    <2> QED
      BY <1>3, <2>1, <2>2
  <1>5. Untouched
    BY <1>1 DEF Untouched
  <1> HIDE DEF b
  <1>6. CASE offset = Len(file)
    <2>1. k = 0
      BY <1>6 DEF BytesRead
    <2>2. y4m_pc' = "failed" /\ offset' = offset /\ eof' = TRUE
      <3>1. offset' = offset
        BY <1>1, <1>2, <2>1
      <3>2. y4m_pc' = "failed" /\ eof' = TRUE
        BY Zenon, <1>1, <2>1
      <3> QED
        BY <3>1, <3>2
    <2>3. FileTypes' /\ LastRead' = LastRead
      BY <1>2, <1>5, <1>6, <2>2, TypesKept
    <2> QED
      BY <1>5, <1>6, <2>2, <2>3
  <1>7. CASE offset # Len(file)
    <2>1. k \in 1..(size - b) /\ offset + k <= Len(file)
      BY <1>7 DEF BytesRead, b
    <2>2. eof' = FALSE /\ offset' = offset + k
      BY <1>1, <1>2, <1>7, <2>1
    <2>3. /\ k \in Nat /\ k >= 1 /\ b + k <= size
      BY <1>3, <1>4, <2>1
    <2>4. /\ more \in Seq(Byte) /\ Len(more) = k
          /\ \A i \in 1..k : more[i] = file[offset + i]
      <3>1. \A i \in 1..k : offset + i \in 1..Len(file) /\ (offset + 1) + i - 1 = offset + i
        BY <1>2, <2>1, <2>3
      <3>2. /\ offset + 1 \in 1..(Len(file) + 1)
            /\ offset + k \in (offset + 1 - 1)..Len(file)
            /\ offset + k - (offset + 1) + 1 = k
        BY <1>2, <2>1, <2>3
      <3>3. more = [i \in 1..k |-> file[(offset + 1) + i - 1]]
        BY <1>2, <3>2, <2>3
      <3>4. more = [i \in 1..k |-> file[offset + i]]
        BY <3>1, <3>3
      <3>5. \A i \in 1..k : file[offset + i] \in Byte
        BY <3>1
      <3> HIDE DEF more
      <3> QED
        BY <2>3, <3>4, <3>5
    <2> HIDE DEF more
    <2>5. Joined(buf, more, buf', Byte)
      BY <1>1, <1>4, <2>4, ConcatFacts DEF more
    <2>6. buf' \in Seq(Byte) /\ Len(buf') = b + k
      BY <2>4, <2>5 DEF Joined, b
    <2>7. ASSUME NEW i \in 1..(b + k) PROVE buf'[i] = plane[i]
      <3>1. CASE i \in 1..b
        <4>1. buf'[i] = buf[i]
          BY <2>5, <3>1 DEF Joined, b
        <4> QED
          BY <1>3, <3>1, <4>1
      <3>2. CASE i \notin 1..b
        <4>1. PICK j \in 1..k : i = b + j
          <5>1. i - b \in 1..k /\ i = b + (i - b)
            BY <1>4, <2>3, <3>2
          <5> QED
            BY <5>1
        <4>2. buf'[i] = more[j]
          BY <2>4, <2>5, <4>1 DEF Joined, b
        <4>3. offset + j = begin + i /\ i \in 1..size /\ begin + i <= Len(file)
          BY <1>2, <1>3, <1>4, <2>1, <2>3, <4>1
        <4> QED
          BY <2>4, <4>2, <4>3
      <3> QED
        BY <3>1, <3>2
    <2>8. buf' = [i \in 1..(b + k) |-> plane[i]]
      BY <2>3, <2>6, <2>7, <1>4
    <2>9. offset' = begin + (b + k)
      BY <1>2, <1>3, <1>4, <2>2, <2>3
    <2>10. /\ y4m_pc' = IF b + k = size THEN next ELSE y4m_pc
           /\ y4m_pc' \in Call
      BY <1>1, <1>2, <2>3, <2>6
    <2>11. FileTypes' /\ LastRead' = LastRead
      <3>1. eof' \in BOOLEAN /\ ~eof'
        BY Zenon, <2>2
      <3>2. offset' \in 0..Len(file)
        BY <1>2, <2>1, <2>2, <2>3
      <3> QED
        BY <1>5, <2>10, <3>1, <3>2, TypesKept
    <2>12. CASE b + k = size
      <3>1. buf' = plane
        BY <2>8, <2>12
      <3> QED
        BY <1>5, <2>9, <2>10, <2>11, <2>12, <3>1 DEF Filled
    <2>13. CASE b + k # size
      <3>1. Len(buf') < size
        BY <1>4, <2>3, <2>6, <2>13
      <3>2. Filling(plane, size, begin)'
        BY <2>6, <2>8, <2>9, <3>1 DEF Filling, Prefix
      <3> QED
        BY <1>5, <2>10, <2>11, <2>13, <3>2
    <2> QED
      BY <2>12, <2>13
  <1> QED
    BY <1>6, <1>7

-----------------------------------------------------------------------------
(* What the calls find where they read. *)

LEMMA LinesInFile ==
  ASSUME NEW h \in Headers, WrittenWith(h)
  PROVE  /\ file \in Seq(Byte) /\ Len(file) \in Nat /\ Marker # Newline
         /\ 1 <= Len(file) => file[1] = Signature
         /\ \A i \in 1..Len(h) :
              1 + i <= Len(file) => file[1 + i] = h[i] /\ h[i] # Newline
         /\ Start(h, 0) <= Len(file) => file[Start(h, 0)] = Newline
         /\ \A k \in Nat :
              /\ Start(h, k) + 1 <= Len(file) => file[Start(h, k) + 1] = Marker
              /\ Start(h, k) + 2 <= Len(file) => file[Start(h, k) + 2] = Newline
              /\ Start(h, k) < Len(file) => k < MaxFrames
  <1>1. FileLayout(file, h)
    BY WrittenLayout
  <1>2. file \in Seq(Byte) /\ Len(file) \in Nat
    BY <1>1 DEF FileLayout
  <1>3. Marker # Newline
    BY DEF Marker, Newline, Word
  <1>4. \A t \in Token : t # Newline
    BY DEF Token, Newline, Word
  <1>5. ASSUME NEW i \in 1..Len(h) PROVE h[i] # Newline
    <2>1. h[i] \in Token
      BY HeaderAssumption
    <2> QED
      BY <1>4, <2>1
  <1>6. ASSUME NEW k \in Nat
        PROVE  /\ Start(h, k) + 1 <= Len(file) => file[Start(h, k) + 1] = Marker
               /\ Start(h, k) + 2 <= Len(file) => file[Start(h, k) + 2] = Newline
    <2>1. FrameInFile(k + 1)[1] = Marker /\ FrameInFile(k + 1)[2] = Newline
      BY FrameBytes DEF FrameLayout
    <2>2. 1 \in 1..frame_length /\ 2 \in 1..frame_length
      BY Sizes
    <2> QED
      BY <1>1, <2>1, <2>2 DEF FileLayout
  <1>7. ASSUME NEW k \in Nat, Start(h, k) < Len(file) PROVE k < MaxFrames
    <2>1. MaxFrames \in Nat
      BY Y4MAssumption
    <2>2. /\ Start(h, k) \in Nat /\ Start(h, MaxFrames) \in Nat
          /\ frame_length \in Nat
          /\ MaxFrames < k => Start(h, MaxFrames) + frame_length <= Start(h, k)
      BY <2>1, StartFacts, Sizes
    <2>3. Len(file) <= Start(h, MaxFrames)
      BY <1>1 DEF FileLayout
    <2>4. ~(MaxFrames < k) /\ k # MaxFrames
      BY <1>2, <1>7, <2>2, <2>3
    <2> QED
      BY <2>1, <2>4
  <1> QED
    BY <1>1, <1>2, <1>3, <1>5, <1>6, <1>7 DEF FileLayout

LEMMA PlanesInFile ==
  ASSUME NEW h \in Headers, WrittenWith(h), NEW k \in Nat
  PROVE  LET y_begin == Start(h, k) + 2
             u_begin == y_begin + y_size
             v_begin == u_begin + uv_size
         IN /\ y_begin \in Nat /\ u_begin \in Nat /\ v_begin \in Nat
            /\ v_begin + uv_size = Start(h, k + 1)
            /\ \A i \in 1..y_size : y_begin + i <= Len(file)
                 => file[y_begin + i] = Plane("y", k + 1)[i]
            /\ \A i \in 1..uv_size : u_begin + i <= Len(file)
                 => file[u_begin + i] = Plane("u", k + 1)[i]
            /\ \A i \in 1..uv_size : v_begin + i <= Len(file)
                 => file[v_begin + i] = Plane("v", k + 1)[i]
  <1> DEFINE b == Start(h, k)
             s == FrameInFile(k + 1)
  <1>1. \A r \in 1..frame_length : b + r <= Len(file) => file[b + r] = s[r]
    BY WrittenLayout DEF FileLayout
  <1>2. b \in Nat /\ Start(h, k + 1) = b + frame_length
    BY StartFacts
  <1>3. FrameLayout(s, k + 1)
    BY FrameBytes
  <1>4. /\ \A i \in 1..y_size : Plane("y", k + 1)[i] = Pixel("y", k + 1, i)
        /\ \A i \in 1..uv_size : Plane("u", k + 1)[i] = Pixel("u", k + 1, i)
        /\ \A i \in 1..uv_size : Plane("v", k + 1)[i] = Pixel("v", k + 1, i)
    BY PlaneFacts
  <1> HIDE DEF b, s
  <1>5. ASSUME NEW i \in 1..y_size, b + 2 + i <= Len(file)
        PROVE  file[b + 2 + i] = Plane("y", k + 1)[i]
    <2>1. b + 2 + i = b + (2 + i) /\ 2 + i \in 1..frame_length
      BY <1>2, Sizes
    <2>2. s[2 + i] = Plane("y", k + 1)[i]
      BY <1>3, <1>4 DEF FrameLayout
    <2> QED
      BY <1>1, <1>5, <2>1, <2>2
  <1>6. ASSUME NEW i \in 1..uv_size, b + 2 + y_size + i <= Len(file)
        PROVE  file[b + 2 + y_size + i] = Plane("u", k + 1)[i]
    <2>1. /\ b + 2 + y_size + i = b + (2 + y_size + i)
          /\ 2 + y_size + i \in 1..frame_length
      BY <1>2, Sizes
    <2>2. s[2 + y_size + i] = Plane("u", k + 1)[i]
      BY <1>3, <1>4 DEF FrameLayout
    <2> QED
      BY <1>1, <1>6, <2>1, <2>2
  <1>7. ASSUME NEW i \in 1..uv_size, b + 2 + y_size + uv_size + i <= Len(file)
        PROVE  file[b + 2 + y_size + uv_size + i] = Plane("v", k + 1)[i]
    <2>1. /\ b + 2 + y_size + uv_size + i = b + (2 + y_size + uv_size + i)
          /\ 2 + y_size + uv_size + i \in 1..frame_length
      BY <1>2, Sizes
    <2>2. s[2 + y_size + uv_size + i] = Plane("v", k + 1)[i]
      BY <1>3, <1>4 DEF FrameLayout
    <2> QED
      BY <1>1, <1>7, <2>1, <2>2
  <1>8. /\ b + 2 \in Nat /\ b + 2 + y_size \in Nat /\ b + 2 + y_size + uv_size \in Nat
        /\ b + 2 + y_size + uv_size + uv_size = Start(h, k + 1)
    BY <1>2, Sizes
  <1> QED
    BY <1>5, <1>6, <1>7, <1>8 DEF b

(* getline finds a marker, and its end or that of the file. *)
LEMMA MarkerStep ==
  ASSUME NEW h \in Headers, WrittenWith(h), FileTypes, NEW k \in Nat,
         InMarker(h, k), NEW next \in Call, Getline(next)
  PROVE  /\ Untouched /\ FileTypes' /\ LastRead' = LastRead
         /\ \/ y4m_pc' = y4m_pc /\ InMarker(h, k)'
            \/ y4m_pc' = next /\ MarkerRead(h, k)'
  <1>1. /\ file \in Seq(Byte) /\ Len(file) \in Nat /\ Marker # Newline
        /\ Start(h, k) \in Nat /\ Start(h, 0) \in Nat /\ offset \in Nat
        /\ Start(h, k) + 1 <= Len(file) => file[Start(h, k) + 1] = Marker
        /\ Start(h, k) + 2 <= Len(file) => file[Start(h, k) + 2] = Newline
    <2>1. Start(h, k) \in Nat /\ Start(h, 0) \in Nat
      BY StartFacts
    <2>2. /\ file \in Seq(Byte) /\ Len(file) \in Nat /\ Marker # Newline
          /\ Start(h, k) + 1 <= Len(file) => file[Start(h, k) + 1] = Marker
          /\ Start(h, k) + 2 <= Len(file) => file[Start(h, k) + 2] = Newline
      BY LinesInFile
    <2>3. offset \in Nat
      BY <2>2 DEF FileTypes
    <2> QED
      BY <2>1, <2>2, <2>3
  <1>2. Untouched /\ FileTypes' /\ LastRead' = LastRead /\ file' = file
    BY <1>1, GetlineStep DEF Untouched
  <1>3. \/ /\ offset = Len(file) /\ offset' = offset /\ eof'
           /\ buf' = buf /\ y4m_pc' = next
        \/ /\ offset < Len(file) /\ offset' = offset + 1
           /\ file[offset + 1] = Newline
           /\ buf' = buf /\ y4m_pc' = next
        \/ /\ offset < Len(file) /\ offset' = offset + 1
           /\ file[offset + 1] # Newline
           /\ buf' = buf \o <<file[offset + 1]>> /\ y4m_pc' = y4m_pc
    BY <1>1, GetlineStep
  <1>4. CASE buf = <<>> /\ Behind(h, k)
    <2>1. CASE offset = Len(file)
      <3>1. offset' = offset /\ eof' /\ buf' = <<>> /\ y4m_pc' = next
        BY <1>1, <1>3, <1>4, <2>1
      <3>2. EndsAfter(h, k)'
        BY <1>1, <1>2, <1>4, <2>1 DEF Behind, EndsAfter
      <3> QED
        BY <1>2, <3>1, <3>2 DEF MarkerRead
    <2>2. CASE offset # Len(file)
      <3>1. offset = Start(h, k) /\ offset < Len(file)
        BY <1>1, <1>3, <1>4, <2>2 DEF Behind
      <3>2. file[offset + 1] = Marker
        BY <1>1, <3>1
      <3>3. offset' = offset + 1 /\ buf' = <<>> \o <<Marker>> /\ y4m_pc' = y4m_pc
        BY <1>1, <1>3, <1>4, <3>1, <3>2
      <3>4. <<>> \o <<Marker>> = <<Marker>>
        OBVIOUS
      <3>5. InMarker(h, k)'
        BY <3>1, <3>3, <3>4 DEF InMarker
      <3> QED
        BY <1>2, <3>3, <3>5
    <2> QED
      BY <2>1, <2>2
  <1>5. CASE buf = <<Marker>> /\ offset = Start(h, k) + 1
    <2>1. CASE offset = Len(file)
      <3>1. offset' = offset /\ buf' = <<Marker>> /\ y4m_pc' = next
        BY <1>1, <1>3, <1>5, <2>1
      <3> QED
        BY <1>2, <1>5, <2>1, <3>1 DEF MarkerRead
    <2>2. CASE offset # Len(file)
      <3>1. offset < Len(file) /\ offset + 1 = Start(h, k) + 2
        BY <1>1, <1>3, <1>5, <2>2
      <3>2. file[offset + 1] = Newline
        BY <1>1, <3>1
      <3>3. offset' = Start(h, k) + 2 /\ buf' = <<Marker>> /\ y4m_pc' = next
        BY <1>3, <1>5, <2>2, <3>1, <3>2
      <3> QED
        BY <1>2, <3>3 DEF MarkerRead
    <2> QED
      BY <2>1, <2>2
  <1> QED
    BY <1>4, <1>5 DEF InMarker

(* getline reads on in the header, or comes to its end. *)
LEMMA HeaderStep ==
  ASSUME NEW h \in Headers, WrittenWith(h), FileTypes,
         offset < Start(h, 0), NEW next \in Call, Getline(next)
  PROVE  /\ Untouched /\ FileTypes' /\ LastRead' = LastRead
         /\ \/ /\ y4m_pc' = y4m_pc /\ offset' = offset + 1 /\ offset' < Start(h, 0)
               /\ buf' = buf \o <<file[offset + 1]>>
               /\ offset >= 1 => offset \in 1..Len(h) /\ file[offset + 1] = h[offset]
            \/ y4m_pc' = next /\ buf' = buf /\ Behind(h, 0)'
  <1>1. /\ file \in Seq(Byte) /\ Len(file) \in Nat
        /\ \A i \in 1..Len(h) :
             1 + i <= Len(file) => file[1 + i] = h[i] /\ h[i] # Newline
        /\ Start(h, 0) <= Len(file) => file[Start(h, 0)] = Newline
        /\ 1 <= Len(file) => file[1] = Signature
    BY LinesInFile
  <1>2. Len(h) \in Nat /\ Start(h, 0) = Len(h) + 2 /\ offset \in 0..Len(file)
    BY StartFacts DEF FileTypes
  <1>3. Untouched /\ FileTypes' /\ LastRead' = LastRead /\ file' = file
    BY <1>1, GetlineStep DEF Untouched
  <1>4. \/ /\ offset = Len(file) /\ offset' = offset /\ eof'
           /\ buf' = buf /\ y4m_pc' = next
        \/ /\ offset < Len(file) /\ offset' = offset + 1
           /\ file[offset + 1] = Newline
           /\ buf' = buf /\ y4m_pc' = next
        \/ /\ offset < Len(file) /\ offset' = offset + 1
           /\ file[offset + 1] # Newline
           /\ buf' = buf \o <<file[offset + 1]>> /\ y4m_pc' = y4m_pc
    BY <1>1, GetlineStep
  <1>5. CASE offset = Len(file)
    <2>1. offset' = Len(file) /\ buf' = buf /\ y4m_pc' = next
      BY <1>1, <1>4, <1>5
    <2>2. Behind(h, 0)'
      BY <1>1, <1>2, <1>3, <1>5, <2>1 DEF Behind
    <2> QED
      BY <1>3, <2>1, <2>2
  <1>6. CASE offset # Len(file) /\ offset + 1 = Start(h, 0)
    <2>1. offset < Len(file) /\ file[offset + 1] = Newline
      BY <1>1, <1>2, <1>6
    <2>2. offset' = Start(h, 0) /\ buf' = buf /\ y4m_pc' = next
      BY <1>4, <1>6, <2>1
    <2>3. Behind(h, 0)'
      BY <1>1, <1>2, <1>3, <1>6, <2>1, <2>2 DEF Behind
    <2> QED
      BY <1>3, <2>2, <2>3
  <1>7. CASE offset # Len(file) /\ offset + 1 # Start(h, 0)
    <2>1. offset < Len(file) /\ offset + 1 < Start(h, 0)
      BY <1>1, <1>2, <1>7
    <2>2. offset >= 1 => /\ offset \in 1..Len(h)
                         /\ file[offset + 1] = h[offset] /\ h[offset] # Newline
      <3>1. SUFFICES ASSUME offset >= 1
                     PROVE  /\ offset \in 1..Len(h) /\ file[offset + 1] = h[offset]
                            /\ h[offset] # Newline
        OBVIOUS
      <3>2. offset \in 1..Len(h) /\ 1 + offset <= Len(file) /\ 1 + offset = offset + 1
        BY <1>1, <1>2, <2>1, <3>1
      <3> QED
        BY <1>1, <3>2
    <2>3. offset = 0 => file[offset + 1] # Newline
      <3>1. Signature # Newline
        BY DEF Signature, Newline, Word
      <3> QED
        BY <1>1, <2>1, <3>1
    <2>4. file[offset + 1] # Newline
      BY <1>1, <1>2, <2>2, <2>3
    <2>5. /\ offset' = offset + 1 /\ y4m_pc' = y4m_pc
          /\ buf' = buf \o <<file[offset + 1]>>
      BY <1>4, <1>7, <2>4
    <2> QED
      BY <1>3, <2>1, <2>2, <2>5
  <1> QED
    BY <1>5, <1>6, <1>7

-----------------------------------------------------------------------------
(* The steps of the constructor. *)

LEMMA EmptyPrefix ==
  ASSUME NEW s
  PROVE  Prefix(s, 0) = <<>> /\ Len(<<>>) = 0
  BY DEF Prefix

LEMMA PrefixGrows ==
  ASSUME NEW S, NEW s \in Seq(S), NEW n \in 1..Len(s)
  PROVE  Prefix(s, n - 1) \o <<s[n]>> = Prefix(s, n)
  <1> DEFINE a == Prefix(s, n - 1)
             b == <<s[n]>>
             c == Prefix(s, n)
  <1>1. n \in Nat /\ n >= 1 /\ n - 1 \in Nat /\ Len(s) \in Nat /\ n <= Len(s)
    OBVIOUS
  <1>2. \A i \in 1..n : s[i] \in S
    BY <1>1
  <1>3. /\ a \in Seq(S) /\ Len(a) = n - 1
        /\ \A i \in 1..(n - 1) : a[i] = s[i]
    BY <1>1, <1>2 DEF Prefix
  <1>4. c \in Seq(S) /\ Len(c) = n /\ \A i \in 1..n : c[i] = s[i]
    BY <1>1, <1>2 DEF Prefix
  <1>5. b \in Seq(S) /\ Len(b) = 1 /\ b[1] = s[n]
    BY <1>1, <1>2
  <1> HIDE DEF a, b, c
  <1>6. Joined(a, b, a \o b, S)
    BY <1>3, <1>5, ConcatFacts
  <1>7. a \o b \in Seq(S) /\ Len(a \o b) = n
    BY <1>1, <1>3, <1>5, <1>6 DEF Joined
  <1>8. ASSUME NEW i \in 1..n PROVE (a \o b)[i] = c[i]
    <2>1. CASE i = n
      <3>1. 1 \in 1..Len(b) /\ Len(a) + 1 = i
        BY <1>1, <1>3, <1>5, <2>1
      <3>2. (a \o b)[Len(a) + 1] = b[1]
        BY <1>6, <3>1 DEF Joined
      <3> QED
        BY <1>4, <1>5, <2>1, <3>1, <3>2
    <2>2. CASE i # n
      <3>1. i \in 1..(n - 1)
        BY <1>1, <2>2
      <3> QED
        BY <1>3, <1>4, <1>6, <3>1 DEF Joined
    <2> QED
      BY <2>1, <2>2
  <1>9. a \o b = c
    BY <1>4, <1>7, <1>8, SeqEqual
  <1> QED
    BY <1>9 DEF a, b, c

(* A file that ends within its header or within a frame is not whole. *)
LEMMA NotWhole ==
  ASSUME NEW h \in Headers, NEW k \in Nat, Len(file) \in Nat,
         Len(file) < Start(h, k + 1), k = 0 \/ Start(h, k) < Len(file)
  PROVE  \A n \in 1..MaxFrames : Len(file) # Start(h, n)
  <1> SUFFICES ASSUME NEW n \in 1..MaxFrames, Len(file) = Start(h, n)
               PROVE  FALSE
    OBVIOUS
  <1>1. n \in Nat /\ n >= 1 /\ k + 1 \in Nat /\ frame_length \in Nat
    BY Y4MAssumption, Sizes
  <1>2. /\ Start(h, n) \in Nat /\ Start(h, k) \in Nat /\ Start(h, k + 1) \in Nat
        /\ k + 1 < n => Start(h, k + 1) + frame_length <= Start(h, n)
        /\ n < k => Start(h, n) + frame_length <= Start(h, k)
    BY <1>1, StartFacts
  <1>3. ~(k + 1 < n) /\ n # k + 1
    BY <1>1, <1>2
  <1>4. n < k \/ n = k
    BY <1>1, <1>3
  <1> QED
    BY <1>1, <1>2, <1>4

LEMMA OpeningStep ==
  ASSUME NEW h \in Headers, WrittenWith(h), FileTypes, Progress(h), OpenFile
  PROVE  FileTypes' /\ Progress(h)'
  <1>1. /\ file \in Seq(Byte) /\ Len(file) \in Nat
        /\ 1 <= Len(file) => file[1] = Signature
        /\ Len(h) \in Nat /\ Start(h, 0) = Len(h) + 2 /\ h \in Seq(Token)
    BY LinesInFile, StartFacts, HeaderAssumption
  <1>2. ASSUME y4m_pc = "signature", Readn(1, "check signature")
        PROVE  FileTypes' /\ Progress(h)'
    <2>1. offset = 0 /\ buf = <<>> /\ y4m_shown = <<>>
      BY <1>2 DEF Progress, Opening
    <2> DEFINE plane == <<Signature>>
    <2>2. /\ plane \in Seq(Byte) /\ Len(plane) = 1 /\ 1 \in Nat /\ 0 \in Nat
          /\ \A i \in 1..1 : 0 + i <= Len(file) => file[0 + i] = plane[i]
      <3>1. plane \in Seq(Byte) /\ Len(plane) = 1 /\ plane[1] = Signature
        BY DEF Byte
      <3>2. \A i \in 1..1 : i = 1 /\ 0 + i = 1
        OBVIOUS
      <3> QED
        BY <1>1, <3>1, <3>2
    <2> HIDE DEF plane
    <2>3. Filling(plane, 1, 0)
      BY <2>1, EmptyPrefix DEF Filling
    <2>4. /\ "check signature" \in Call \ {"failed"}
          /\ y4m_pc # "failed" /\ y4m_pc # "check signature"
      BY <1>2 DEF Call
    <2>5. /\ Untouched /\ FileTypes'
          /\ \/ y4m_pc' = "failed" /\ offset = Len(file)
             \/ y4m_pc' = "check signature" /\ Filled(plane, 1, 0)'
             \/ y4m_pc' = y4m_pc /\ Filling(plane, 1, 0)'
      BY <1>1, <1>2, <2>2, <2>3, <2>4, ReadnStep
    <2>6. file' = file /\ y4m_shown' = <<>>
      BY <2>1, <2>5 DEF Untouched
    <2>7. CASE y4m_pc' = "failed" /\ offset = Len(file)
      <3>1. Len(file) < Start(h, 0 + 1)
        <4>1. Start(h, 0 + 1) = Start(h, 0) + frame_length
          BY StartFacts
        <4> QED
          BY <1>1, <2>1, <2>7, <4>1, Sizes
      <3>2. \A n \in 1..MaxFrames : Len(file') # Start(h, n)
        BY <1>1, <2>6, <3>1, NotWhole
      <3> QED
        BY <2>5, <2>7, <3>2 DEF Progress, Opening, InHeader, InFrame, Ended
    <2>8. CASE y4m_pc' = "check signature" /\ Filled(plane, 1, 0)'
      <3>1. buf' = plane /\ offset' = 0 + 1
        BY <2>8 DEF Filled
      <3>2. buf' = <<Signature>> /\ offset' = 1
        BY <3>1 DEF plane
      <3> QED
        BY <2>5, <2>6, <2>8, <3>2 DEF Progress, Opening, InHeader, InFrame, Ended
    <2>9. CASE y4m_pc' = y4m_pc /\ Filling(plane, 1, 0)'
      <3> DEFINE b == Len(buf')
      <3>1. offset' = 0 + b /\ b < 1 /\ buf' = Prefix(plane, b)
        BY <2>9 DEF Filling
      <3>2. offset' \in 0..Len(file)
        BY <2>5, <2>6 DEF FileTypes
      <3>3. b = 0 /\ offset' = 0
        <4>1. b \in Int
          <5>1. b = offset' - 0
            BY <1>1, <3>1, <3>2
          <5> QED
            BY <1>1, <3>2, <5>1
        <4> HIDE DEF b
        <4> QED
          BY <1>1, <3>1, <3>2, <4>1
      <3>4. buf' = <<>>
        <4> HIDE DEF b
        <4> QED
          BY <3>1, <3>3, EmptyPrefix
      <3> QED
        BY <1>2, <2>5, <2>6, <2>9, <3>3, <3>4
           DEF Progress, Opening, InHeader, InFrame, Ended
    <2> QED
      BY <2>5, <2>7, <2>8, <2>9
  <1>3. CASE CheckSignature
    <2>1. offset = 1 /\ buf = <<Signature>> /\ y4m_shown = <<>>
      BY <1>3 DEF CheckSignature, Take, Progress, Opening
    <2>2. /\ buf' = <<>> /\ y4m_pc' = "header" /\ Untouched
          /\ offset' = offset /\ eof' = eof
      BY <1>3, <2>1 DEF CheckSignature, Take, Untouched
    <2>3. FileTypes'
      BY <2>2, TypesKept DEF FileTypes, Call
    <2>4. offset' \in 1..(Start(h, 0) - 1) /\ offset' - 1 = 0
      BY <1>1, <2>1, <2>2
    <2>5. buf' = Prefix(h, offset' - 1) /\ y4m_shown' = <<>>
      BY <2>1, <2>2, <2>4, EmptyPrefix DEF Untouched
    <2> QED
      BY <2>2, <2>3, <2>4, <2>5 DEF Progress, Opening, InHeader, InFrame, Ended
  <1>4. ASSUME y4m_pc = "header", Getline("check header")
        PROVE  FileTypes' /\ Progress(h)'
    <2>1. /\ offset \in 1..(Start(h, 0) - 1) /\ buf = Prefix(h, offset - 1)
          /\ y4m_shown = <<>>
      BY <1>4 DEF Progress, Opening
    <2>2. offset < Start(h, 0) /\ offset >= 1 /\ "check header" \in Call
      BY <1>1, <2>1 DEF Call
    <2>3. /\ Untouched /\ FileTypes'
          /\ \/ /\ y4m_pc' = y4m_pc /\ offset' = offset + 1 /\ offset' < Start(h, 0)
                /\ buf' = buf \o <<file[offset + 1]>>
                /\ offset >= 1 => offset \in 1..Len(h) /\ file[offset + 1] = h[offset]
             \/ y4m_pc' = "check header" /\ buf' = buf /\ Behind(h, 0)'
      BY <1>4, <2>2, HeaderStep
    <2>4. y4m_shown' = <<>>
      BY <2>1, <2>3 DEF Untouched
    <2>5. CASE y4m_pc' = "check header" /\ buf' = buf /\ Behind(h, 0)'
      <3>1. offset - 1 \in 0..Len(h)
        BY <1>1, <2>1
      <3>2. buf' = Prefix(h, offset - 1)
        BY <2>1, <2>5
      <3> HIDE DEF Prefix
      <3>3. \E n \in 0..Len(h) : buf' = Prefix(h, n)
        BY <3>1, <3>2
      <3> QED
        BY <2>3, <2>4, <2>5, <3>3 DEF Progress, Opening, InHeader, InFrame, Ended
    <2>6. CASE y4m_pc' = y4m_pc
      <3>1. /\ offset' = offset + 1 /\ offset' < Start(h, 0)
            /\ offset \in 1..Len(h) /\ buf' = buf \o <<h[offset]>>
        BY <1>4, <2>2, <2>3, <2>6
      <3>2. buf' = Prefix(h, offset)
        BY <1>1, <2>1, <3>1, PrefixGrows
      <3>3. offset' \in 1..(Start(h, 0) - 1) /\ offset' - 1 = offset
        BY <1>1, <2>1, <3>1
      <3> QED
        BY <1>4, <2>3, <2>4, <2>6, <3>2, <3>3
           DEF Progress, Opening, InHeader, InFrame, Ended
    <2> QED
      BY <2>3, <2>5, <2>6
  <1>5. CASE CheckHeader
    <2>1. /\ Behind(h, 0) /\ y4m_shown = <<>>
          /\ \E n \in 0..Len(h) : buf = Prefix(h, n)
      BY <1>5 DEF CheckHeader, Take, Progress, Opening
    <2>2. /\ buf' = <<>> /\ Untouched /\ offset' = offset /\ eof' = eof
          /\ y4m_pc' = IF HeaderFits(buf) THEN "ready" ELSE "failed"
      BY <1>5 DEF CheckHeader, Take, Untouched
    <2>3. FileTypes'
      BY <2>2, TypesKept DEF FileTypes, Call
    <2>4. LastRead' = 0 /\ Behind(h, 0)'
      BY <2>1, <2>2 DEF LastRead, Untouched, Behind
    <2>5. HeaderFits(h) => HeaderFits(buf)
      <3>1. SUFFICES ASSUME HeaderFits(h) PROVE HeaderFits(buf)
        OBVIOUS
      <3>2. PICK n \in 0..Len(h) : buf = Prefix(h, n)
        BY <2>1
      <3>3. \A i \in DOMAIN buf : i \in DOMAIN h /\ buf[i] = h[i]
        BY <1>1, <3>2 DEF Prefix
      <3> QED
        BY <3>1, <3>3 DEF HeaderFits
    <2>6. CASE HeaderFits(buf)
      BY <2>2, <2>3, <2>4, <2>6 DEF Progress, Opening, InHeader, InFrame, Ended
    <2>7. CASE ~HeaderFits(buf)
      BY <2>2, <2>3, <2>5, <2>7 DEF Progress, Opening, InHeader, InFrame, Ended
    <2> QED
      BY <2>6, <2>7
  <1> QED
    BY <1>2, <1>3, <1>4, <1>5 DEF OpenFile

-----------------------------------------------------------------------------
(* The steps of read_frame up to the planes. *)

LEMMA LastReadType ==
  ASSUME FileTypes
  PROVE  LastRead \in Nat
  BY DEF FileTypes, LastRead

LEMMA MarkerIsMarker ==
  /\ <<Marker>> # <<>> /\ IsMarker(<<Marker>>) /\ ~IsMarker(<<>>)
  BY DEF IsMarker

LEMMA PositionKept ==
  ASSUME Untouched, LastRead' = LastRead, offset' = offset
  PROVE  \A h, k : /\ EndsAfter(h, k) => EndsAfter(h, k)'
                   /\ Behind(h, k) => Behind(h, k)'
                   /\ Turn(h, k) => Turn(h, k)'
  BY DEF Untouched, EndsAfter, Behind, Turn, Start

(* A marker has been read, whole or up to the end of the file. *)
LEMMA EnterFrame ==
  ASSUME NEW h \in Headers, WrittenWith(h), FileTypes, NEW k \in Nat,
         MarkerRead(h, k), buf = <<Marker>>, Turn(h, k),
         y4m_pc' = "y", buf' = <<>>, offset' = offset, eof' = eof, Untouched
  PROVE  FileTypes' /\ Progress(h)'
  <1>1. Len(file) \in Nat /\ (Start(h, k) < Len(file) => k < MaxFrames)
    BY LinesInFile
  <1>2. Start(h, k) \in Nat
    BY StartFacts
  <1>3. offset \in 0..Len(file)
    BY DEF FileTypes
  <1>4. \/ offset = Start(h, k) + 2
        \/ offset = Start(h, k) + 1 /\ Len(file) = offset
    BY MarkerIsMarker DEF MarkerRead
  <1>5. MaxFrames \in Nat
    BY Y4MAssumption
  <1>6. k \in 0..(MaxFrames - 1)
    BY <1>1, <1>2, <1>3, <1>4, <1>5
  <1>7. FileTypes' /\ LastRead' = LastRead
    <2>1. eof' \in BOOLEAN /\ (eof' => offset' = Len(file)) /\ offset' \in 0..Len(file)
      BY DEF FileTypes
    <2> QED
      BY <2>1, TypesKept DEF Call
  <1>8. Turn(h, k)'
    BY <1>7, PositionKept
  <1>9. CASE offset = Start(h, k) + 2
    <2>1. Len(buf') = 0 /\ buf' = Prefix(Plane("y", k + 1), Len(buf'))
      BY EmptyPrefix
    <2>2. 0 < y_size /\ offset' = (Start(h, k) + 2) + 0
      BY <1>2, <1>9, Sizes
    <2>3. Filling(Plane("y", k + 1), y_size, Start(h, k) + 2)'
      BY <2>1, <2>2 DEF Filling
    <2>4. InPlanes(h, k)'
      BY <2>3 DEF InPlanes
    <2> QED
      BY <1>6, <1>7, <1>8, <2>4 DEF Progress, Opening, InHeader, InFrame, Ended
  <1>10. CASE offset = Start(h, k) + 1 /\ Len(file) = offset
    <2>1. file' = file
      BY DEF Untouched
    <2>2. InPlanes(h, k)'
      BY <1>10, <2>1 DEF InPlanes
    <2> QED
      BY <1>6, <1>7, <1>8, <2>2 DEF Progress, Opening, InHeader, InFrame, Ended
  <1> QED
    BY <1>4, <1>9, <1>10

ReadMarker == \/ BeginReadFrame
              \/ y4m_pc = "marker" /\ Getline("check marker")
              \/ CheckMarker

LEMMA MarkerSteps ==
  ASSUME NEW h \in Headers, WrittenWith(h), FileTypes, Progress(h), ReadMarker
  PROVE  FileTypes' /\ Progress(h)'
  <1>1. LastRead \in Nat
    BY LastReadType
  <1>2. CASE BeginReadFrame
    <2>1. buf = <<>> /\ Behind(h, LastRead)
      BY <1>2 DEF BeginReadFrame, Progress, InHeader
    <2>2. /\ Untouched /\ y4m_pc' = "marker" /\ offset' = offset /\ eof' = eof
          /\ buf' = buf
      BY <1>2 DEF BeginReadFrame, Untouched
    <2>3. FileTypes' /\ LastRead' = LastRead
      BY <2>2, TypesKept DEF FileTypes, Call
    <2>4. InMarker(h, LastRead)'
      BY <2>1, <2>2, <2>3, PositionKept DEF InMarker
    <2> QED
      BY <2>2, <2>3, <2>4 DEF Progress, Opening, InHeader, InFrame, Ended
  <1>3. ASSUME y4m_pc = "marker", Getline("check marker")
        PROVE  FileTypes' /\ Progress(h)'
    <2>1. InMarker(h, LastRead) /\ "check marker" \in Call
      BY <1>3 DEF Progress, InHeader, Call
    <2>2. /\ Untouched /\ FileTypes' /\ LastRead' = LastRead
          /\ \/ y4m_pc' = y4m_pc /\ InMarker(h, LastRead)'
             \/ y4m_pc' = "check marker" /\ MarkerRead(h, LastRead)'
      BY <1>1, <1>3, <2>1, MarkerStep
    <2> QED
      BY <1>3, <2>2 DEF Progress, Opening, InHeader, InFrame, Ended
  <1>4. CASE CheckMarker
    <2>1. MarkerRead(h, LastRead)
      BY <1>4 DEF CheckMarker, Take, Progress, InHeader
    <2>2. Untouched /\ offset' = offset /\ eof' = eof /\ buf' = <<>>
      BY <1>4 DEF CheckMarker, Take, Untouched
    <2>3. CASE buf = <<Marker>>
      <3>1. y4m_pc' = "y"
        BY <1>4, <2>3, MarkerIsMarker DEF CheckMarker, Take
      <3>2. Turn(h, LastRead)
        BY DEF Turn
      <3> QED
        BY <1>1, <2>1, <2>2, <2>3, <3>1, <3>2, EnterFrame
    <2>4. CASE buf = <<>> /\ eof /\ EndsAfter(h, LastRead)
      <3>1. y4m_pc' = IF loop THEN "rewind" ELSE "end"
        BY <1>4, <2>4 DEF CheckMarker, Take
      <3>2. FileTypes' /\ LastRead' = LastRead
        BY <2>2, <3>1, TypesKept DEF FileTypes, Call
      <3>3. EndsAfter(h, LastRead)' /\ loop' = loop
        BY <2>2, <2>4, <3>2, PositionKept DEF Untouched
      <3> QED
        BY <2>2, <3>1, <3>2, <3>3 DEF Progress, Opening, InHeader, InFrame, Ended
    <2> QED
      BY <2>1, <2>3, <2>4 DEF MarkerRead
  <1> QED
    BY <1>2, <1>3, <1>4 DEF ReadMarker

BeginAnew == \/ ResetOffset
             \/ y4m_pc = "skip" /\ Getline("skip header")
             \/ SkipHeader
             \/ y4m_pc = "marker again" /\ Getline("check marker again")
             \/ CheckMarkerAgain

LEMMA RewindSteps ==
  ASSUME NEW h \in Headers, WrittenWith(h), FileTypes, Progress(h), BeginAnew
  PROVE  FileTypes' /\ Progress(h)'
  <1>1. LastRead \in Nat /\ 0 \in Nat
    BY LastReadType
  <1>2. loop /\ EndsAfter(h, LastRead)
    BY DEF BeginAnew, ResetOffset, SkipHeader, CheckMarkerAgain, Take, Progress, InHeader
  <1>3. ASSUME Untouched, LastRead' = LastRead
        PROVE  loop' /\ EndsAfter(h, LastRead)'
    BY <1>2, <1>3 DEF Untouched, EndsAfter, Start
  <1>4. CASE ResetOffset
    <2>1. /\ Untouched /\ offset' = 0 /\ y4m_pc' = "skip"
      BY <1>4 DEF ResetOffset, Untouched
    <2>2. eof' \in BOOLEAN /\ ~eof'
      BY Zenon, <1>4 DEF ResetOffset
    <2>3. 0 \in 0..Len(file) /\ 0 < Start(h, 0)
      <3>1. Len(h) \in Nat /\ Start(h, 0) = Len(h) + 2
        BY StartFacts
      <3>2. Len(file) \in Nat
        BY LinesInFile
      <3>3. 0 \in 0..Len(file)
        BY <3>2
      <3>4. 0 < Start(h, 0)
        BY <3>1
      <3> QED
        BY <3>3, <3>4
    <2>4. FileTypes' /\ LastRead' = LastRead
      BY <2>1, <2>2, <2>3, TypesKept DEF Call
    <2> QED
      BY <1>3, <2>1, <2>3, <2>4 DEF Progress, Opening, InHeader, InFrame, Ended
  <1>5. ASSUME y4m_pc = "skip", Getline("skip header")
        PROVE  FileTypes' /\ Progress(h)'
    <2>1. offset < Start(h, 0) /\ "skip header" \in Call
      BY <1>5 DEF Progress, InHeader, Call
    <2>2. /\ Untouched /\ FileTypes' /\ LastRead' = LastRead
          /\ \/ y4m_pc' = y4m_pc /\ offset' < Start(h, 0)
             \/ y4m_pc' = "skip header" /\ Behind(h, 0)'
      BY <1>5, <2>1, HeaderStep
    <2> QED
      BY <1>3, <1>5, <2>2 DEF Progress, Opening, InHeader, InFrame, Ended
  <1>6. CASE SkipHeader
    <2>1. Behind(h, 0)
      BY <1>6 DEF SkipHeader, Take, Progress, InHeader
    <2>2. /\ Untouched /\ y4m_pc' = "marker again" /\ offset' = offset
          /\ eof' = eof /\ buf' = <<>>
      BY <1>6 DEF SkipHeader, Take, Untouched
    <2>3. FileTypes' /\ LastRead' = LastRead
      BY <2>2, TypesKept DEF FileTypes, Call
    <2>4. InMarker(h, 0)'
      BY <2>1, <2>2, <2>3, PositionKept DEF InMarker
    <2> QED
      BY <1>3, <2>2, <2>3, <2>4 DEF Progress, Opening, InHeader, InFrame, Ended
  <1>7. ASSUME y4m_pc = "marker again", Getline("check marker again")
        PROVE  FileTypes' /\ Progress(h)'
    <2>1. InMarker(h, 0) /\ "check marker again" \in Call
      BY <1>7 DEF Progress, InHeader, Call
    <2>2. /\ Untouched /\ FileTypes' /\ LastRead' = LastRead
          /\ \/ y4m_pc' = y4m_pc /\ InMarker(h, 0)'
             \/ y4m_pc' = "check marker again" /\ MarkerRead(h, 0)'
      BY <1>1, <1>7, <2>1, MarkerStep
    <2> QED
      BY <1>3, <1>7, <2>2 DEF Progress, Opening, InHeader, InFrame, Ended
  <1>8. CASE CheckMarkerAgain
    <2>1. MarkerRead(h, 0)
      BY <1>8 DEF CheckMarkerAgain, Take, Progress, InHeader
    <2>2. Untouched /\ offset' = offset /\ eof' = eof /\ buf' = <<>>
      BY <1>8 DEF CheckMarkerAgain, Take, Untouched
    <2>3. CASE buf = <<Marker>>
      <3>1. y4m_pc' = "y"
        BY <1>8, <2>3, MarkerIsMarker DEF CheckMarkerAgain, Take
      <3>2. Turn(h, 0)
        BY <1>2 DEF Turn
      <3> QED
        BY <1>1, <2>1, <2>2, <2>3, <3>1, <3>2, EnterFrame
    <2>4. CASE buf = <<>> /\ EndsAfter(h, 0)
      <3>1. y4m_pc' = "failed"
        BY <1>8, <2>4, MarkerIsMarker DEF CheckMarkerAgain, Take
      <3>2. FileTypes' /\ file' = file
        BY <2>2, <3>1, TypesKept DEF FileTypes, Call, Untouched
      <3>3. Start(h, 0) \in Nat /\ Start(h, 0 + 1) = Start(h, 0) + frame_length
        BY StartFacts
      <3>4. Len(file) \in Nat
        BY LinesInFile
      <3>5. Len(file) < Start(h, 0 + 1)
        <4>1. Len(file) < Start(h, 0) \/ Len(file) = Start(h, 0)
          BY <2>4 DEF EndsAfter
        <4>2. frame_length \in Nat /\ frame_length > 0
          BY Sizes
        <4> QED
          BY <3>3, <3>4, <4>1, <4>2
      <3>6. \A n \in 1..MaxFrames : Len(file') # Start(h, n)
        BY <1>1, <3>2, <3>4, <3>5, NotWhole
      <3> QED
        BY <3>1, <3>2, <3>6 DEF Progress, Opening, InHeader, InFrame, Ended
    <2> QED
      BY <2>1, <2>3, <2>4 DEF MarkerRead
  <1> QED
    BY <1>4, <1>5, <1>6, <1>7, <1>8 DEF BeginAnew

-----------------------------------------------------------------------------
(* The planes of a frame. *)

LEMMA ReadnAtEnd ==
  ASSUME FileTypes, offset = Len(file), NEW size, NEW next, Readn(size, next)
  PROVE  Untouched /\ FileTypes' /\ y4m_pc' = "failed"
  <1>1. PICK k \in BytesRead(size - Len(buf)) :
          /\ buf' = buf \o SubSeq(file, offset + 1, offset + k)
          /\ offset' = offset + k
          /\ eof' = (eof \/ k = 0)
          /\ y4m_pc' = IF k = 0 THEN "failed"
                       ELSE IF Len(buf') = size THEN next ELSE y4m_pc
          /\ UNCHANGED <<file, loop, y4m_img, y4m_shown>>
    BY DEF Readn
  <1>2. k = 0
    BY DEF BytesRead
  <1>3. y4m_pc' = "failed" /\ eof' = TRUE
    BY Zenon, <1>1, <1>2
  <1>4. offset \in 0..Len(file)
    BY DEF FileTypes
  <1>5. offset' = offset
    BY <1>1, <1>2, <1>4
  <1>6. Untouched
    BY <1>1 DEF Untouched
  <1>7. FileTypes'
    BY <1>3, <1>4, <1>5, <1>6, TypesKept DEF Call
  <1> QED
    BY <1>3, <1>6, <1>7

LEMMA PlaneStep ==
  ASSUME NEW h \in Headers, WrittenWith(h), FileTypes, NEW k \in Nat,
         NEW next \in Call \ {"failed"}, y4m_pc # "failed", y4m_pc # next,
         NEW size \in Nat, NEW plane \in Seq(Byte), Len(plane) = size,
         NEW begin \in Nat, Filling(plane, size, begin),
         Start(h, k) < begin, begin + size <= Start(h, k + 1),
         \A i \in 1..size : begin + i <= Len(file) => file[begin + i] = plane[i],
         Readn(size, next)
  PROVE  /\ Untouched /\ FileTypes' /\ LastRead' = LastRead
         /\ \/ /\ y4m_pc' = "failed"
               /\ \A n \in 1..MaxFrames : Len(file) # Start(h, n)
            \/ y4m_pc' = next /\ Filled(plane, size, begin)'
            \/ y4m_pc' = y4m_pc /\ Filling(plane, size, begin)'
  <1>1. file \in Seq(Byte) /\ Len(file) \in Nat
    BY LinesInFile
  <1>2. /\ Untouched /\ FileTypes' /\ LastRead' = LastRead
        /\ \/ y4m_pc' = "failed" /\ offset = Len(file)
           \/ y4m_pc' = next /\ Filled(plane, size, begin)'
           \/ y4m_pc' = y4m_pc /\ Filling(plane, size, begin)'
    BY <1>1, ReadnStep
  <1>3. ASSUME offset = Len(file)
        PROVE  \A n \in 1..MaxFrames : Len(file) # Start(h, n)
    <2>1. begin <= offset /\ offset < begin + size
      BY <1>1, <1>3, FillingFacts
    <2>2. Start(h, k) \in Nat /\ Start(h, k + 1) \in Nat
      BY StartFacts
    <2>3. Start(h, k) < Len(file) /\ Len(file) < Start(h, k + 1)
      BY <1>1, <1>3, <2>1, <2>2
    <2> QED
      BY <1>1, <2>3, NotWhole
  <1> QED
    BY <1>2, <1>3

(* A step within frame k + 1. *)
LEMMA StillInFrame ==
  ASSUME NEW h \in Headers, NEW k \in 0..(MaxFrames - 1), Turn(h, k), Untouched,
         LastRead' = LastRead, InPlanes(h, k)',
         y4m_pc' \in {"y", "copy y", "u", "copy u", "v", "copy v"}
  PROVE  Progress(h)'
  <1>1. Turn(h, k)'
    BY DEF Turn, Untouched, EndsAfter, Start
  <1>2. InFrame(h)'
    BY <1>1 DEF InFrame
  <1> QED
    BY <1>2 DEF Progress, Opening, InHeader, Ended

ReadPlane == \/ y4m_pc = "y" /\ Readn(y_size, "copy y")
             \/ y4m_pc = "u" /\ Readn(uv_size, "copy u")
             \/ y4m_pc = "v" /\ Readn(uv_size, "copy v")

LEMMA ReadPlaneSteps ==
  ASSUME NEW h \in Headers, WrittenWith(h), FileTypes, Progress(h), ReadPlane
  PROVE  FileTypes' /\ Progress(h)'
  <1>1. PICK k \in 0..(MaxFrames - 1) : Turn(h, k) /\ InPlanes(h, k)
    BY DEF ReadPlane, Progress, InFrame
  <1> DEFINE f == k + 1
             y_begin == Start(h, k) + 2
             u_begin == y_begin + y_size
             v_begin == u_begin + uv_size
  <1>2. k \in Nat /\ f \in Nat
    BY Y4MAssumption
  <1>3. /\ y_begin \in Nat /\ u_begin \in Nat /\ v_begin \in Nat
        /\ v_begin + uv_size = Start(h, f)
        /\ \A i \in 1..y_size : y_begin + i <= Len(file)
             => file[y_begin + i] = Plane("y", f)[i]
        /\ \A i \in 1..uv_size : u_begin + i <= Len(file)
             => file[u_begin + i] = Plane("u", f)[i]
        /\ \A i \in 1..uv_size : v_begin + i <= Len(file)
             => file[v_begin + i] = Plane("v", f)[i]
    BY <1>2, PlanesInFile
  <1>4. /\ Plane("y", f) \in Seq(Byte) /\ Len(Plane("y", f)) = y_size
        /\ Plane("u", f) \in Seq(Byte) /\ Len(Plane("u", f)) = uv_size
        /\ Plane("v", f) \in Seq(Byte) /\ Len(Plane("v", f)) = uv_size
    BY <1>2, PlaneFacts
  <1>5. y_size \in Nat /\ uv_size \in Nat /\ Start(h, k) \in Nat /\ Start(h, f) \in Nat
    BY <1>2, Sizes, StartFacts
  <1>6. /\ Start(h, k) < y_begin /\ y_begin + y_size <= Start(h, k + 1)
        /\ Start(h, k) < u_begin /\ u_begin + uv_size <= Start(h, k + 1)
        /\ Start(h, k) < v_begin /\ v_begin + uv_size <= Start(h, k + 1)
    <2> DEFINE begin == Start(h, k)
               end == Start(h, k + 1)
    <2>1. begin \in Nat /\ end \in Nat /\ y_size \in Nat /\ uv_size \in Nat
      BY <1>5
    <2>2. begin + 2 + y_size + uv_size + uv_size = end
      BY <1>3
    <2> HIDE DEF begin, end
    <2>3. /\ begin < begin + 2 /\ begin + 2 + y_size <= end
          /\ begin < begin + 2 + y_size /\ begin + 2 + y_size + uv_size <= end
          /\ begin < begin + 2 + y_size + uv_size
          /\ begin + 2 + y_size + uv_size + uv_size <= end
      BY <2>1, <2>2
    <2> QED
      BY <2>3 DEF begin, end
  <1>7. ASSUME FileTypes', Untouched, y4m_pc' = "failed",
               \A n \in 1..MaxFrames : Len(file) # Start(h, n)
        PROVE  FileTypes' /\ Progress(h)'
    BY <1>7 DEF Untouched, Progress, Opening, InHeader, InFrame, Ended
  <1> HIDE DEF f, y_begin, u_begin, v_begin
  <1>8. CASE y4m_pc = "y" /\ Readn(y_size, "copy y")
    <2>1. CASE Filling(Plane("y", f), y_size, y_begin)
      <3>1. "copy y" \in Call \ {"failed"} /\ y4m_pc # "failed" /\ y4m_pc # "copy y"
        BY <1>8 DEF Call
      <3>2. /\ Untouched /\ FileTypes' /\ LastRead' = LastRead
            /\ \/ /\ y4m_pc' = "failed"
                  /\ \A n \in 1..MaxFrames : Len(file) # Start(h, n)
               \/ y4m_pc' = "copy y" /\ Filled(Plane("y", f), y_size, y_begin)'
               \/ y4m_pc' = y4m_pc /\ Filling(Plane("y", f), y_size, y_begin)'
        BY <1>2, <1>3, <1>4, <1>5, <1>6, <1>8, <2>1, <3>1, PlaneStep
      <3>3. ASSUME y4m_pc' = "copy y" /\ Filled(Plane("y", f), y_size, y_begin)'
            PROVE  InPlanes(h, k)'
        BY <3>3 DEF InPlanes, f, y_begin
      <3>4. ASSUME y4m_pc' = "y" /\ Filling(Plane("y", f), y_size, y_begin)'
            PROVE  InPlanes(h, k)'
        BY <3>4 DEF InPlanes, f, y_begin
      <3> QED
        BY <1>1, <1>7, <1>8, <3>2, <3>3, <3>4, StillInFrame
    <2>2. CASE buf = <<>> /\ offset = Start(h, k) + 1 /\ Len(file) = offset
      <3>1. Untouched /\ FileTypes' /\ y4m_pc' = "failed"
        BY <1>8, <2>2, ReadnAtEnd
      <3>2. Start(h, k + 1) = Start(h, k) + frame_length
        BY <1>2, StartFacts
      <3>3. Start(h, k) < Len(file) /\ Len(file) < Start(h, k + 1) /\ Len(file) \in Nat
        BY <1>5, <2>2, <3>2, Sizes
      <3>4. \A n \in 1..MaxFrames : Len(file) # Start(h, n)
        BY <1>2, <3>3, NotWhole
      <3> QED
        BY <1>7, <3>1, <3>4
    <2> QED
      BY <1>1, <1>8, <2>1, <2>2 DEF InPlanes, f, y_begin
  <1>9. CASE y4m_pc = "u" /\ Readn(uv_size, "copy u")
    <2>1. /\ Filling(Plane("u", f), uv_size, u_begin)
          /\ y4m_img["y"] = Plane("y", f)
      BY <1>1, <1>9 DEF InPlanes, f, y_begin, u_begin
    <2>2. "copy u" \in Call \ {"failed"} /\ y4m_pc # "failed" /\ y4m_pc # "copy u"
      BY <1>9 DEF Call
    <2>3. /\ Untouched /\ FileTypes' /\ LastRead' = LastRead
          /\ \/ /\ y4m_pc' = "failed"
                /\ \A n \in 1..MaxFrames : Len(file) # Start(h, n)
             \/ y4m_pc' = "copy u" /\ Filled(Plane("u", f), uv_size, u_begin)'
             \/ y4m_pc' = y4m_pc /\ Filling(Plane("u", f), uv_size, u_begin)'
      BY <1>2, <1>3, <1>4, <1>5, <1>6, <1>9, <2>1, <2>2, PlaneStep
    <2>4. y4m_img'["y"] = Plane("y", f)
      BY <2>1, <2>3 DEF Untouched
    <2>5. ASSUME y4m_pc' = "copy u" /\ Filled(Plane("u", f), uv_size, u_begin)'
          PROVE  InPlanes(h, k)'
      BY <2>4, <2>5 DEF InPlanes, f, y_begin, u_begin
    <2>6. ASSUME y4m_pc' = "u" /\ Filling(Plane("u", f), uv_size, u_begin)'
          PROVE  InPlanes(h, k)'
      BY <2>4, <2>6 DEF InPlanes, f, y_begin, u_begin
    <2> QED
      BY <1>1, <1>7, <1>9, <2>3, <2>5, <2>6, StillInFrame
  <1>10. CASE y4m_pc = "v" /\ Readn(uv_size, "copy v")
    <2>1. /\ Filling(Plane("v", f), uv_size, v_begin)
          /\ y4m_img["y"] = Plane("y", f) /\ y4m_img["u"] = Plane("u", f)
      BY <1>1, <1>10 DEF InPlanes, f, y_begin, u_begin, v_begin
    <2>2. "copy v" \in Call \ {"failed"} /\ y4m_pc # "failed" /\ y4m_pc # "copy v"
      BY <1>10 DEF Call
    <2>3. /\ Untouched /\ FileTypes' /\ LastRead' = LastRead
          /\ \/ /\ y4m_pc' = "failed"
                /\ \A n \in 1..MaxFrames : Len(file) # Start(h, n)
             \/ y4m_pc' = "copy v" /\ Filled(Plane("v", f), uv_size, v_begin)'
             \/ y4m_pc' = y4m_pc /\ Filling(Plane("v", f), uv_size, v_begin)'
      BY <1>2, <1>3, <1>4, <1>5, <1>6, <1>10, <2>1, <2>2, PlaneStep
    <2>4. y4m_img'["y"] = Plane("y", f) /\ y4m_img'["u"] = Plane("u", f)
      BY <2>1, <2>3 DEF Untouched
    <2>5. ASSUME y4m_pc' = "copy v" /\ Filled(Plane("v", f), uv_size, v_begin)'
          PROVE  InPlanes(h, k)'
      BY <2>4, <2>5 DEF InPlanes, f, y_begin, u_begin, v_begin
    <2>6. ASSUME y4m_pc' = "v" /\ Filling(Plane("v", f), uv_size, v_begin)'
          PROVE  InPlanes(h, k)'
      BY <2>4, <2>6 DEF InPlanes, f, y_begin, u_begin, v_begin
    <2> QED
      BY <1>1, <1>7, <1>10, <2>3, <2>5, <2>6, StillInFrame
  <1> QED
    BY <1>8, <1>9, <1>10 DEF ReadPlane

(* A plane that is complete goes to the image, and the next one begins.    *)
LEMMA NextPlane ==
  ASSUME NEW plane, NEW size \in Nat \ {0}, NEW begin \in Nat,
         buf' = <<>>, offset' = begin
  PROVE  Filling(plane, size, begin)'
  <1>1. Len(buf') = 0 /\ buf' = Prefix(plane, Len(buf'))
    BY EmptyPrefix
  <1>2. 0 < size /\ offset' = begin + 0
    OBVIOUS
  <1> QED
    BY <1>1, <1>2 DEF Filling

LEMMA ImageTypes ==
  ASSUME FileTypes, NEW p \in {"y", "u", "v"}, NEW b,
         y4m_img' = [y4m_img EXCEPT ![p] = b]
  PROVE  /\ y4m_img' = [q \in {"y", "u", "v"} |-> y4m_img'[q]]
         /\ \A q \in {"y", "u", "v"} :
              y4m_img'[q] = IF q = p THEN b ELSE y4m_img[q]
  BY DEF FileTypes

CopyPlane == CopyY \/ CopyU

LEMMA CopyPlaneSteps ==
  ASSUME NEW h \in Headers, WrittenWith(h), FileTypes, Progress(h), CopyPlane
  PROVE  FileTypes' /\ Progress(h)'
  <1>1. PICK k \in 0..(MaxFrames - 1) : Turn(h, k) /\ InPlanes(h, k)
    BY DEF CopyPlane, CopyY, CopyU, Take, Progress, InFrame
  <1> DEFINE f == k + 1
             y_begin == Start(h, k) + 2
             u_begin == y_begin + y_size
             v_begin == u_begin + uv_size
  <1>2. k \in Nat
    BY Y4MAssumption
  <1>3. /\ y_begin \in Nat /\ u_begin \in Nat /\ v_begin \in Nat
        /\ uv_size \in Nat \ {0}
    BY <1>2, PlanesInFile, Sizes
  <1>4. /\ buf' = <<>> /\ offset' = offset /\ eof' = eof
        /\ UNCHANGED <<file, loop, y4m_shown>>
    BY DEF CopyPlane, CopyY, CopyU, Take
  <1>5. ASSUME y4m_pc' \in {"u", "v"},
               y4m_img' = [q \in {"y", "u", "v"} |-> y4m_img'[q]]
        PROVE  FileTypes' /\ LastRead' = LastRead
    BY <1>4, <1>5 DEF FileTypes, LastRead, Call
  <1>6. LastRead' = LastRead => Turn(h, k)'
    BY <1>1, <1>4 DEF Turn, EndsAfter, Start
  <1> HIDE DEF f, y_begin, u_begin, v_begin
  <1>7. CASE CopyY
    <2>1. Filled(Plane("y", f), y_size, y_begin)
      BY <1>1, <1>7 DEF CopyY, Take, InPlanes, f, y_begin
    <2>2. buf = Plane("y", f) /\ offset' = u_begin
      BY <1>4, <2>1 DEF Filled, u_begin
    <2>3. y4m_pc' = "u" /\ y4m_img' = [y4m_img EXCEPT !["y"] = Plane("y", f)]
      BY <1>7, <2>2 DEF CopyY, Take
    <2>4. FileTypes' /\ LastRead' = LastRead /\ y4m_img'["y"] = Plane("y", f)
      BY <1>5, <2>3, ImageTypes
    <2>5. Filling(Plane("u", f), uv_size, u_begin)'
      BY <1>3, <1>4, <2>2, NextPlane
    <2>6. InPlanes(h, k)'
      BY <2>3, <2>4, <2>5 DEF InPlanes, f, y_begin, u_begin
    <2>7. InFrame(h)'
      BY <1>6, <2>4, <2>6 DEF InFrame
    <2> QED
      BY <2>3, <2>4, <2>7 DEF Progress, Opening, InHeader, Ended
  <1>8. CASE CopyU
    <2>1. Filled(Plane("u", f), uv_size, u_begin) /\ y4m_img["y"] = Plane("y", f)
      BY <1>1, <1>8 DEF CopyU, Take, InPlanes, f, y_begin, u_begin
    <2>2. buf = Plane("u", f) /\ offset' = v_begin
      BY <1>4, <2>1 DEF Filled, v_begin
    <2>3. y4m_pc' = "v" /\ y4m_img' = [y4m_img EXCEPT !["u"] = Plane("u", f)]
      BY <1>8, <2>2 DEF CopyU, Take
    <2>4. /\ y4m_img'["y"] = Plane("y", f) /\ y4m_img'["u"] = Plane("u", f)
          /\ FileTypes' /\ LastRead' = LastRead
      BY <1>5, <2>1, <2>3, ImageTypes
    <2>5. Filling(Plane("v", f), uv_size, v_begin)'
      BY <1>3, <1>4, <2>2, NextPlane
    <2>6. InPlanes(h, k)'
      BY <2>3, <2>4, <2>5 DEF InPlanes, f, y_begin, u_begin, v_begin
    <2>7. InFrame(h)'
      BY <1>6, <2>4, <2>6 DEF InFrame
    <2> QED
      BY <2>3, <2>4, <2>7 DEF Progress, Opening, InHeader, Ended
  <1> QED
    BY <1>7, <1>8 DEF CopyPlane

(* The frame delivered is whole, and it is the one whose turn it is. *)
LEMMA FrameDelivered ==
  ASSUME NEW h \in Headers, WrittenWith(h), FileTypes, Progress(h), CopyV
  PROVE  \E k \in 0..(MaxFrames - 1) :
           /\ Turn(h, k) /\ y4m_shown' = Append(y4m_shown, k + 1)
           /\ offset = Start(h, k + 1)
           /\ y4m_img' = [q \in {"y", "u", "v"} |-> Plane(q, k + 1)]
  <1>1. PICK k \in 0..(MaxFrames - 1) : Turn(h, k) /\ InPlanes(h, k)
    BY DEF CopyV, Take, Progress, InFrame
  <1> DEFINE f == k + 1
             v_begin == Start(h, k) + 2 + y_size + uv_size
  <1>2. k \in Nat /\ f \in Nat /\ f \in 1..MaxFrames
    BY Y4MAssumption
  <1>3. Filled(Plane("v", f), uv_size, v_begin)
    BY <1>1 DEF CopyV, Take, InPlanes
  <1>4. y4m_img["y"] = Plane("y", f) /\ y4m_img["u"] = Plane("u", f)
    BY <1>1 DEF CopyV, Take, InPlanes
  <1>5. v_begin + uv_size = Start(h, f)
    BY <1>2, PlanesInFile
  <1>6. buf = Plane("v", f) /\ offset = Start(h, f)
    BY <1>3, <1>5 DEF Filled
  <1> HIDE DEF f, v_begin
  <1>7. y4m_img' = [y4m_img EXCEPT !["v"] = Plane("v", f)]
    BY <1>6 DEF CopyV
  <1>8. /\ y4m_img' = [q \in {"y", "u", "v"} |-> y4m_img'[q]]
        /\ y4m_img'["y"] = Plane("y", f) /\ y4m_img'["u"] = Plane("u", f)
        /\ y4m_img'["v"] = Plane("v", f)
    BY <1>4, <1>7, ImageTypes
  <1>9. y4m_img' = [q \in {"y", "u", "v"} |-> Plane(q, f)]
    BY <1>8
  <1>10. Plane("y", f)[1] = Pixel("y", f, 1)
    BY <1>2, PlaneFacts, Sizes
  <1>11. FrameOfPlanes(y4m_img') = f
    <2>1. y4m_img'["y"][1].frame = f
      BY <1>8, <1>10 DEF Pixel
    <2> QED
      BY <1>2, <1>9, <2>1 DEF FrameOfPlanes
  <1>12. y4m_shown' = Append(y4m_shown, f)
    BY <1>11 DEF CopyV
  <1> QED
    BY <1>1, <1>6, <1>9, <1>12 DEF f

LEMMA CopyVStep ==
  ASSUME NEW h \in Headers, WrittenWith(h), FileTypes, Progress(h), CopyV
  PROVE  FileTypes' /\ Progress(h)'
  <1>1. PICK k \in 0..(MaxFrames - 1) :
          /\ Turn(h, k) /\ y4m_shown' = Append(y4m_shown, k + 1)
          /\ offset = Start(h, k + 1)
          /\ y4m_img' = [q \in {"y", "u", "v"} |-> Plane(q, k + 1)]
    BY FrameDelivered
  <1>2. k \in Nat /\ k + 1 \in Nat /\ y4m_shown \in Seq(Nat)
    BY Y4MAssumption DEF FileTypes
  <1>3. /\ y4m_pc' = "ready" /\ buf' = <<>> /\ offset' = offset /\ eof' = eof
        /\ UNCHANGED <<file, loop>>
    BY DEF CopyV, Take
  <1>4. Pushed(y4m_shown, k + 1, y4m_shown', Nat)
    BY <1>1, <1>2, AppendFacts
  <1>5. /\ LastRead' = k + 1 /\ y4m_shown' \in Seq(Nat)
        /\ Len(y4m_shown') = Len(y4m_shown) + 1
    BY <1>4 DEF Pushed, LastRead
  <1>6. ~loop => Len(y4m_shown') = LastRead'
    <2>1. ~loop => k = LastRead /\ Len(y4m_shown) = LastRead
      BY <1>1 DEF Turn, FileTypes
    <2> QED
      BY <1>2, <1>5, <2>1
  <1>7. FileTypes'
    <2>1. y4m_img' = [q \in {"y", "u", "v"} |-> y4m_img'[q]]
      BY <1>1
    <2> QED
      BY <1>3, <1>5, <1>6, <2>1 DEF FileTypes, Call
  <1>8. Behind(h, k + 1)'
    <2>1. /\ Start(h, 0) \in Nat /\ Start(h, k + 1) \in Nat /\ frame_length \in Nat
          /\ 0 < k + 1 => Start(h, 0) + frame_length <= Start(h, k + 1)
      BY <1>2, StartFacts, Sizes
    <2>2. Len(file) \in Nat /\ offset \in 0..Len(file)
      BY LinesInFile DEF FileTypes
    <2>3. ~(Len(file) < Start(h, 0))
      BY <1>1, <1>2, <2>1, <2>2
    <2> QED
      BY <1>1, <1>3, <2>3 DEF Behind
  <1> QED
    BY <1>3, <1>5, <1>7, <1>8 DEF Progress, Opening, InHeader, InFrame, Ended

-----------------------------------------------------------------------------
LEMMA FileInitInv ==
  ASSUME Y4MInit
  PROVE  FileInv
  <1>1. /\ file \in Files /\ loop \in BOOLEAN /\ offset = 0 /\ y4m_pc = "signature"
        /\ buf = <<>> /\ y4m_shown = <<>>
        /\ y4m_img = [p \in {"y", "u", "v"} |-> <<>>]
    BY DEF Y4MInit
  <1>2. eof \in BOOLEAN /\ ~eof
    BY Zenon DEF Y4MInit
  <1>3. PICK h \in Headers : WrittenWith(h)
    BY <1>1, WrittenWithSome
  <1>4. Len(file) \in Nat
    BY <1>3, LinesInFile
  <1>5. offset \in 0..Len(file)
    BY <1>1, <1>4
  <1>6. y4m_shown \in Seq(Nat) /\ Len(y4m_shown) = LastRead
    BY <1>1 DEF LastRead
  <1>7. y4m_img = [p \in {"y", "u", "v"} |-> y4m_img[p]]
    BY <1>1
  <1>8. FileTypes
    BY <1>1, <1>2, <1>5, <1>6, <1>7 DEF FileTypes, Call
  <1>9. \A g \in Headers : Progress(g)
    BY <1>1 DEF Progress, Opening, InHeader, InFrame, Ended
  <1> QED
    BY <1>1, <1>8, <1>9 DEF FileInv

LEMMA FileStepKeeps ==
  ASSUME NEW h \in Headers, WrittenWith(h), FileTypes, Progress(h),
         Y4MStep \/ BeginReadFrame
  PROVE  FileTypes' /\ Progress(h)'
  <1>1. OpenFile \/ ReadMarker \/ BeginAnew \/ ReadPlane \/ CopyPlane \/ CopyV
    BY DEF Y4MStep, ReadFrame, ReadMarker, BeginAnew, ReadPlane, CopyPlane
  <1> QED
    BY <1>1, OpeningStep, MarkerSteps, RewindSteps, ReadPlaneSteps,
       CopyPlaneSteps, CopyVStep

LEMMA FileKept ==
  ASSUME Y4MStep \/ BeginReadFrame
  PROVE  file' = file /\ loop' = loop
  BY DEF Y4MStep, OpenFile, ReadFrame, BeginReadFrame, Readn, Getline, Take,
     CheckSignature, CheckHeader, CheckMarker, ResetOffset, SkipHeader,
     CheckMarkerAgain, CopyY, CopyU, CopyV

LEMMA FileInductive ==
  ASSUME FileInv, [Next]_vars
  PROVE  FileInv'
  <1>1. CASE UNCHANGED y4mVars
    <2>1. /\ Untouched /\ y4m_pc' = y4m_pc /\ offset' = offset /\ eof' = eof
          /\ buf' = buf
      BY <1>1 DEF y4mVars, Untouched
    <2>2. file' = file /\ y4m_img' = y4m_img /\ loop' = loop /\ y4m_shown' = y4m_shown
      BY <2>1 DEF Untouched
    <2>3. file' \in Files /\ FileTypes' /\ LastRead' = LastRead
      BY <2>1, <2>2 DEF FileInv, FileTypes, LastRead
    <2>4. ASSUME NEW h \in Headers, WrittenWith(h)'
          PROVE  Progress(h)'
      <3>1. Progress(h)
        BY <2>2, <2>4 DEF FileInv, WrittenWith
      <3>2. /\ \A k : EndsAfter(h, k)' = EndsAfter(h, k)
            /\ \A k : Behind(h, k)' = Behind(h, k)
        BY <2>1, <2>2 DEF EndsAfter, Behind
      <3>3. Opening(h)'
        BY <2>1, <2>2, <3>1, <3>2 DEF Progress, Opening
      <3>4. InHeader(h)'
        BY <2>1, <2>2, <2>3, <3>1, <3>2 DEF Progress, InHeader, InMarker, MarkerRead
      <3>5. InFrame(h)'
        BY <2>1, <2>2, <2>3, <3>1, <3>2
           DEF Progress, InFrame, Turn, InPlanes, Filling, Filled
      <3>6. Ended(h)'
        BY <2>1, <2>2, <2>3, <3>1, <3>2 DEF Progress, Ended
      <3> QED
        BY <3>3, <3>4, <3>5, <3>6 DEF Progress
    <2> QED
      BY <2>3, <2>4 DEF FileInv
  <1>2. CASE Y4MStep \/ BeginReadFrame
    <2>1. file' = file
      BY <1>2, FileKept
    <2>2. \A h \in Headers : WrittenWith(h)' => WrittenWith(h)
      BY <2>1 DEF WrittenWith
    <2>3. ASSUME NEW h \in Headers, WrittenWith(h)
          PROVE  FileTypes' /\ Progress(h)'
      BY <1>2, <2>3, FileStepKeeps DEF FileInv
    <2>4. PICK h \in Headers : WrittenWith(h)
      BY WrittenWithSome DEF FileInv
    <2>5. FileTypes'
      BY <2>3, <2>4
    <2>6. file' \in Files
      BY <2>1 DEF FileInv
    <2> QED
      BY <2>2, <2>3, <2>5, <2>6 DEF FileInv
  <1> QED
    BY <1>1, <1>2 DEF Next, FileStep, CameraStep, vars

LEMMA FileInvHolds == Spec => []FileInv
  <1>1. Init => FileInv
    BY FileInitInv DEF Init
  <1> QED
    BY <1>1, FileInductive, PTL DEF Spec

(* class YUV4MPEG gives up for a reason: the constructor or read_frame     *)
(* throws only if the file is cut short, has no frame or another format,   *)
(* and read_frame returns false only after the last frame of a file that   *)
(* is not to be repeated.                                                  *)
THEOREM ReadingEndsForAReason == Spec => []EndsForAReason
  <1>1. ASSUME FileInv PROVE EndsForAReason
    <2>1. ASSUME y4m_pc = "failed", WellFormed PROVE FALSE
      <3>1. PICK h \in Headers, n \in 1..MaxFrames :
              HeaderFits(h) /\ file = FileOf(h, n)
        BY <2>1 DEF WellFormed
      <3>2. n \in 0..MaxFrames
        BY Y4MAssumption
      <3>3. WrittenWith(h) /\ Len(file) = Start(h, n)
        BY <3>1, <3>2, WholeIsWritten
      <3>4. Ended(h)
        BY <1>1, <3>3 DEF FileInv, Progress
      <3> QED
        BY <2>1, <3>1, <3>3, <3>4 DEF Ended
    <2>2. ASSUME y4m_pc = "end"
          PROVE  ~loop /\ Len(y4m_shown) = FramesInFile
      <3>1. PICK h \in Headers : WrittenWith(h)
        BY <1>1, WrittenWithSome DEF FileInv
      <3>2. ~loop /\ EndsAfter(h, LastRead)
        BY <1>1, <2>2, <3>1 DEF FileInv, Progress, Ended
      <3>3. LastRead \in Nat
        BY <1>1, LastReadType DEF FileInv
      <3>4. FramesInFile = LastRead
        BY <3>1, <3>2, <3>3, FramesRead
      <3>5. Len(y4m_shown) = LastRead
        BY <1>1, <3>2 DEF FileInv, FileTypes
      <3> QED
        BY <3>2, <3>4, <3>5
    <2> QED
      BY <2>1, <2>2 DEF EndsForAReason
  <1> QED
    BY <1>1, FileInvHolds, PTL

(* YUV4MPEG::read_frame keeps the promise of VideoInput: every image is a  *)
(* whole frame of the file, and the next one after the image before, or    *)
(* the first one again after the last, however read(2) cuts its answers.   *)
THEOREM FileImplements == Spec => FileInOrder
  <1> DEFINE m == IF FramesInFile = 0 THEN 1 ELSE FramesInFile
  <1>1. ASSUME FileInv PROVE m \in Nat \ {0}
    <2>1. PICK h \in Headers : WrittenWith(h)
      BY <1>1, WrittenWithSome DEF FileInv
    <2>2. FramesInFile \in Nat
      BY <2>1, FramesRead
    <2> QED
      BY <2>2
  <1>2. Init => AsSource!Init
    <2>1. ASSUME Init PROVE AsSource!Init
      <3>1. FileInv /\ y4m_shown = <<>>
        BY <2>1, FileInitInv DEF Init, Y4MInit
      <3> QED
        BY <1>1, <3>1 DEF AsSource!Init
    <2> QED
      BY <2>1
  <1>3. ASSUME FileInv, [Next]_vars
        PROVE  [AsSource!Next]_<<m, y4m_shown>>
    <2>1. file' = file
      BY <1>3, FileKept DEF Next, FileStep, CameraStep, vars, y4mVars
    <2>2. m' = m
      BY <2>1 DEF FramesInFile
    <2>3. CASE y4m_shown' = y4m_shown
      BY <2>2, <2>3
    <2>4. CASE y4m_shown' # y4m_shown
      <3>1. CopyV
        BY <1>3, <2>4 DEF Next, FileStep, CameraStep, vars, y4mVars, Y4MStep,
           OpenFile, ReadFrame, BeginReadFrame, Readn, Getline, Take,
           CheckSignature, CheckHeader, CheckMarker, ResetOffset, SkipHeader,
           CheckMarkerAgain, CopyY, CopyU
      <3>2. PICK h \in Headers : WrittenWith(h)
        BY <1>3, WrittenWithSome DEF FileInv
      <3>3. FileTypes /\ Progress(h)
        BY <1>3, <3>2 DEF FileInv
      <3>4. PICK k \in 0..(MaxFrames - 1) :
              /\ Turn(h, k) /\ y4m_shown' = Append(y4m_shown, k + 1)
              /\ offset = Start(h, k + 1)
        BY <3>1, <3>2, <3>3, FrameDelivered
      <3>5. k \in Nat /\ k + 1 \in Nat /\ y4m_shown \in Seq(Nat)
        BY <3>3, Y4MAssumption DEF FileTypes
      <3>6. Pushed(y4m_shown, k + 1, y4m_shown', Nat)
        BY <3>4, <3>5, AppendFacts
      <3>7. y4m_shown' # <<>> /\ y4m_shown'[Len(y4m_shown')] = k + 1
        BY <3>6 DEF Pushed
      <3>8. k < FramesInFile /\ FramesInFile \in Nat
        <4>1. Start(h, k + 1) \in Nat
          BY <3>2, <3>5, StartFacts
        <4>2. Len(file) \in Nat /\ offset \in 0..Len(file)
          BY <3>2, <3>3, LinesInFile DEF FileTypes
        <4>3. Start(h, k + 1) <= Len(file)
          BY <3>4, <4>1, <4>2
        <4> QED
          BY <3>2, <3>5, <4>3, FramesRead
      <3>9. m = FramesInFile
        BY <3>5, <3>8
      <3> HIDE DEF m
      <3>10. k + 1 = (LastRead % m) + 1
        <4>1. CASE k = LastRead
          <5>1. LastRead % m = LastRead
            BY <3>5, <3>8, <3>9, <4>1
          <5> QED
            BY <4>1, <5>1
        <4>2. CASE k = 0 /\ EndsAfter(h, LastRead)
          <5>1. LastRead \in Nat
            BY <3>3, LastReadType
          <5>2. FramesInFile = LastRead
            BY <3>2, <4>2, <5>1, FramesRead
          <5>3. LastRead % m = 0
            BY <3>8, <3>9, <4>2, <5>1, <5>2
          <5> QED
            BY <4>2, <5>3
        <4> QED
          BY <3>4, <4>1, <4>2 DEF Turn
      <3>11. m # 0
        BY <3>5, <3>8, <3>9
      <3>12. y4m_shown' = Append(y4m_shown, y4m_shown'[Len(y4m_shown')])
        BY <3>4, <3>7
      <3> QED
        BY <2>2, <3>7, <3>10, <3>11, <3>12
           DEF AsSource!Next, AsSource!Follows, AsSource!LastShown, LastRead, m
    <2> QED
      BY <2>3, <2>4
  <1> QED
    BY <1>2, <1>3, FileInvHolds, PTL DEF Spec, FileInOrder, AsSource!Spec
=============================================================================
