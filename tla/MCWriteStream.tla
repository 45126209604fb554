---------------------------- MODULE MCWriteStream ----------------------------
(***************************************************************************)
(* Buffers of 3 sectors and commands of 0 to 8: up to three chunks, so     *)
(* that each buffer is used again after the other; full and short last     *)
(* chunks; cards that end before, in and after the command.                *)
(***************************************************************************)
EXTENDS WriteStream
=============================================================================
