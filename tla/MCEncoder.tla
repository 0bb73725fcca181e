------------------------------ MODULE MCEncoder ------------------------------
(* The sender on its own, acknowledged in any order and any number of      *)
(* times.  The .cfg files give the bounds.                                 *)
EXTENDS Encoder
=============================================================================
