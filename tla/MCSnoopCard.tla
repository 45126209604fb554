---------------------------- MODULE MCSnoopCard ----------------------------
(***************************************************************************)
(* A volume of three sectors of three bytes, written a sector at a time.   *)
(***************************************************************************)
EXTENDS SnoopCard

Prefix == <<"p", ":">>
=============================================================================
