------------------------------ MODULE Y4MInput ------------------------------
(***************************************************************************)
(* class YUV4MPEG, which reads raw frames from a file, and the reading     *)
(* half of class FileDescriptor below it.  A step is one call of read(2),  *)
(* which may return less than it was asked for.                            *)
(*                                                                         *)
(* A word that is only compared (the signature, "FRAME", a token of the    *)
(* header) stands for its bytes and is read in one piece.                  *)
(***************************************************************************)
EXTENDS Integers, Sequences, FiniteSets

CONSTANTS
  display_width, display_height,   \* of the file and of the image
  Headers,      \* the tokens after the signature, for each header to try
  MaxFrames,    \* bound: frames in a file
  MaxReads      \* bound: calls of read_frame

ASSUME Y4MAssumption ==
  /\ display_width \in Nat \ {0} /\ display_height \in Nat \ {0}
  /\ display_width % 2 = 0 /\ display_height % 2 = 0
  /\ MaxFrames \in Nat
  /\ MaxReads \in Nat

VARIABLES
  file,      \* what is in the file
  loop,      \* loop_
  offset,    \* of the open file
  eof,       \* eof_ of the FileDescriptor
  y4m_pc,    \* the call in progress
  buf,       \* what this call of readn or getline has read
  y4m_img,   \* raw_img: plane -> bytes
  y4m_shown  \* frames delivered

y4mVars == <<file, loop, offset, eof, y4m_pc, buf, y4m_img, y4m_shown>>

-----------------------------------------------------------------------------
(* Files.  A byte says what it is; a pixel has a frame and a position. *)

Word(kind, value) == [kind |-> kind, frame |-> 0, value |-> value]
Signature == Word("YUV4MPEG2", 0)
Newline   == Word("newline", 0)
Marker    == Word("FRAME", 0)

y_size  == display_width * display_height
uv_size == (display_width * display_height) \div 4
PlaneSize == [y |-> y_size, u |-> uv_size, v |-> uv_size]

(* A token is part of a line, and not of a picture. *)
Token == {t \in [kind : STRING, frame : {0}, value : Nat] :
            t.kind \notin {"newline", "y", "u", "v"}}

ASSUME HeaderAssumption == Headers \subseteq Seq(Token)

Plane(p, f) == [i \in 1..PlaneSize[p] |-> [kind |-> p, frame |-> f, value |-> i]]

(* A frame as it is in a file: "FRAME", and the planes. *)
FrameInFile(f) == <<Marker, Newline>> \o Plane("y", f) \o Plane("u", f)
                                      \o Plane("v", f)
frame_length == 2 + y_size + 2 * uv_size

(* A file with a header and n frames. *)
FileOf(header, n) ==
  LET first == <<Signature>> \o header \o <<Newline>>
      InFrames(i) == FrameInFile((i \div frame_length) + 1)[(i % frame_length) + 1]
  IN [i \in 1..(Len(first) + n * frame_length) |->
        IF i <= Len(first) THEN first[i] ELSE InFrames(i - Len(first) - 1)]

(* Such a file, or the beginning of one. *)
Files == UNION {{SubSeq(FileOf(h, MaxFrames), 1, n) :
                   n \in 0..Len(FileOf(h, MaxFrames))} : h \in Headers}

-----------------------------------------------------------------------------
(* class FileDescriptor: read(2) gives at least one of the bytes that are  *)
(* left, and nothing at the end of the file.                               *)

BytesRead(limit) == IF offset = Len(file)
                    THEN {0}
                    ELSE {k \in 1..limit : offset + k <= Len(file)}

(* One iteration of readn(n), whose caller goes on at next; the end of the *)
(* file is an exception.                                                   *)
Readn(n, next) ==
  \E k \in BytesRead(n - Len(buf)) :
    /\ buf' = buf \o SubSeq(file, offset + 1, offset + k)
    /\ offset' = offset + k
    /\ eof' = (eof \/ k = 0)
    /\ y4m_pc' = IF k = 0 THEN "failed"
                 ELSE IF Len(buf') = n THEN next ELSE y4m_pc
    /\ UNCHANGED <<file, loop, y4m_img, y4m_shown>>

(* Mutant: the end of the file does not end the line. *)
LineEndsAtNewline(byte) == byte = <<Newline>>

(* "if (eof_ or char_read == "\n")", once eof_ has been updated. *)
LineEnds(byte) == eof' \/ byte = <<Newline>>

(* One iteration of getline: a byte, the end of the line or of the file.   *)
Getline(next) ==
  \E k \in BytesRead(1) :
    LET byte == SubSeq(file, offset + 1, offset + k)
    IN /\ offset' = offset + k
       /\ eof' = (eof \/ k = 0)
       /\ buf' = IF LineEnds(byte) THEN buf ELSE buf \o byte
       /\ y4m_pc' = IF LineEnds(byte) THEN next ELSE y4m_pc
       /\ UNCHANGED <<file, loop, y4m_img, y4m_shown>>

(* The caller at pc takes what was read from buf and goes on at next. *)
Take(pc, next) == /\ y4m_pc = pc
                  /\ buf' = <<>>
                  /\ y4m_pc' = next
                  /\ UNCHANGED <<file, loop, offset, eof>>

-----------------------------------------------------------------------------
(* The constructor. *)

HeaderFits(line) ==
  \A i \in DOMAIN line :
    /\ line[i].kind = "W" => line[i].value = display_width
    /\ line[i].kind = "H" => line[i].value = display_height
    /\ line[i].kind = "C" => line[i].value = 420

CheckSignature ==
  /\ Take("check signature", IF buf = <<Signature>> THEN "header" ELSE "failed")
  /\ UNCHANGED <<y4m_img, y4m_shown>>

CheckHeader ==
  /\ Take("check header", IF HeaderFits(buf) THEN "ready" ELSE "failed")
  /\ UNCHANGED <<y4m_img, y4m_shown>>

OpenFile == \/ y4m_pc = "signature" /\ Readn(1, "check signature")
            \/ CheckSignature
            \/ y4m_pc = "header" /\ Getline("check header")
            \/ CheckHeader

-----------------------------------------------------------------------------
(* read_frame *)

BeginReadFrame ==
  /\ y4m_pc = "ready"
  /\ Len(y4m_shown) < MaxReads
  /\ y4m_pc' = "marker"
  /\ UNCHANGED <<file, loop, offset, eof, buf, y4m_img, y4m_shown>>

IsMarker(line) == line # <<>> /\ line[1] = Marker

(* At the end of the file: return false, or start again. *)
CheckMarker ==
  /\ Take("check marker",
          IF eof /\ buf = <<>> THEN IF loop THEN "rewind" ELSE "end"
          ELSE IF IsMarker(buf) THEN "y" ELSE "failed")
  /\ UNCHANGED <<y4m_img, y4m_shown>>

SkipHeader == /\ Take("skip header", "marker again")
              /\ UNCHANGED <<y4m_img, y4m_shown>>

CheckMarkerAgain ==
  /\ Take("check marker again", IF IsMarker(buf) THEN "y" ELSE "failed")
  /\ UNCHANGED <<y4m_img, y4m_shown>>

(* Mutant: the descriptor still says that it is at the end. *)
ResetOffsetOnly ==
  /\ y4m_pc = "rewind"
  /\ offset' = 0
  /\ y4m_pc' = "skip"
  /\ UNCHANGED <<file, loop, eof, buf, y4m_img, y4m_shown>>

ResetOffset ==
  /\ y4m_pc = "rewind"
  /\ offset' = 0
  /\ eof' = FALSE
  /\ y4m_pc' = "skip"
  /\ UNCHANGED <<file, loop, buf, y4m_img, y4m_shown>>

(* The frame an image shows, 0 if it is not one frame, whole. *)
FrameOfPlanes(img) ==
  IF \E f \in 1..MaxFrames : img = [p \in {"y", "u", "v"} |-> Plane(p, f)]
  THEN img["y"][1].frame
  ELSE 0

CopyY == /\ Take("copy y", "u")
         /\ y4m_img' = [y4m_img EXCEPT !["y"] = buf]
         /\ UNCHANGED y4m_shown

CopyU == /\ Take("copy u", "v")
         /\ y4m_img' = [y4m_img EXCEPT !["u"] = buf]
         /\ UNCHANGED y4m_shown

(* Mutant: the V plane goes where the U plane is. *)
CopyVToU == /\ Take("copy v", "ready")
            /\ y4m_img' = [y4m_img EXCEPT !["u"] = buf]
            /\ y4m_shown' = Append(y4m_shown, FrameOfPlanes(y4m_img'))

(* The last plane completes the frame; read_frame returns true. *)
CopyV == /\ Take("copy v", "ready")
         /\ y4m_img' = [y4m_img EXCEPT !["v"] = buf]
         /\ y4m_shown' = Append(y4m_shown, FrameOfPlanes(y4m_img'))

ReadFrame == \/ y4m_pc = "marker" /\ Getline("check marker")
             \/ CheckMarker
             \/ ResetOffset
             \/ y4m_pc = "skip" /\ Getline("skip header")
             \/ SkipHeader
             \/ y4m_pc = "marker again" /\ Getline("check marker again")
             \/ CheckMarkerAgain
             \/ y4m_pc = "y" /\ Readn(y_size, "copy y")
             \/ CopyY
             \/ y4m_pc = "u" /\ Readn(uv_size, "copy u")
             \/ CopyU
             \/ y4m_pc = "v" /\ Readn(uv_size, "copy v")
             \/ CopyV

-----------------------------------------------------------------------------
Y4MInit == /\ file \in Files
           /\ loop \in BOOLEAN
           /\ offset = 0
           /\ eof = FALSE
           /\ y4m_pc = "signature"
           /\ buf = <<>>
           /\ y4m_img = [p \in {"y", "u", "v"} |-> <<>>]
           /\ y4m_shown = <<>>

Y4MStep == OpenFile \/ ReadFrame

-----------------------------------------------------------------------------
(* Whole frames in the file. *)
FramesInFile ==
  Cardinality({i \in DOMAIN file :
                 file[i].kind = "v" /\ file[i].value = uv_size})

(* The file is as long as it should be and holds a frame. *)
WellFormed == \E h \in Headers, n \in 1..MaxFrames :
                HeaderFits(h) /\ file = FileOf(h, n)

(* YUV4MPEG delivers the frames of the file in order, each of them whole,  *)
(* and begins again with the first one.                                    *)
AsSource == INSTANCE FrameSource
              WITH frames <- IF FramesInFile = 0 THEN 1 ELSE FramesInFile,
                   shown <- y4m_shown
FileInOrder == AsSource!Spec

(* Reading ends for a reason: with an exception only if the file is cut    *)
(* short, has no frame or another format, and with "false" only after the  *)
(* last frame of a file that is not to be repeated.                        *)
EndsForAReason ==
  /\ y4m_pc = "failed" => ~WellFormed
  /\ y4m_pc = "end" => ~loop /\ Len(y4m_shown) = FramesInFile
=============================================================================
