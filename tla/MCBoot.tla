------------------------------- MODULE MCBoot -------------------------------
(***************************************************************************)
(* A limit of two ticks for file operations and of three for formatting:   *)
(* enough for one transfer to use up part of the time of the next.  Two    *)
(* partitions, two sectors of FAT: a first, a last and one in between the  *)
(* boot sector and the end.  Two attempts at ACMD41: one that is lost.     *)
(***************************************************************************)
EXTENDS Boot
=============================================================================
