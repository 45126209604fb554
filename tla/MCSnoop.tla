------------------------------ MODULE MCSnoop ------------------------------
(***************************************************************************)
(* A prefix of two bytes that may also be bytes of a value, sectors of     *)
(* four bytes in chunks of one or two: prefixes and values cross chunk and *)
(* sector boundaries, values exceed the two bytes kept of them, and a      *)
(* write may start anywhere else between two chunks.                       *)
(***************************************************************************)
EXTENDS Snoop

Prefix == <<"p", ":">>
=============================================================================
