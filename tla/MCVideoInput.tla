---------------------------- MODULE MCVideoInput ----------------------------
(* Pictures of two by two pixels from a file, of four by four from a       *)
(* camera.                                                                 *)
EXTENDS VideoInput

(* A full header and an empty one, and one with each mistake. *)
SomeHeaders ==
  {<<Word("W", 2), Word("H", 2), Word("C", 420)>>, <<>>,
   <<Word("W", 4), Word("H", 2)>>, <<Word("W", 2), Word("H", 4)>>,
   <<Word("C", 444)>>}
=============================================================================
