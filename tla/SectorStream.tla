---------------------------- MODULE SectorStream ----------------------------
(***************************************************************************)
(* What READ(10) promises the host, with the ring buffer, the two DMA      *)
(* engines and the polling loop of msc_read.c hidden: the n sectors asked  *)
(* for arrive in order, each exactly once and each in the form Form        *)
(* (decrypted on the hidden volume, as stored on the decoy volume).  The   *)
(* card may fail, after which the stream may stop anywhere but still never *)
(* delivers a wrong sector.                                                *)
(***************************************************************************)
EXTENDS Naturals, Sequences

CONSTANT MAXNUM     \* the most sectors a command asks for

VARIABLES n,        \* sectors the command asks for
          out,      \* what the host has received
          form,     \* "plain" or "raw": what it must receive
          status    \* "streaming", "failed" or "complete"

vars == <<n, out, form, status>>

Init ==
  /\ n \in 1 .. MAXNUM
  /\ out = <<>>
  /\ form \in {"plain", "raw"}
  /\ status = "streaming"

Deliver ==
  /\ status # "complete"
  /\ Len(out) < n
  /\ out' = Append(out, [sec |-> Len(out), form |-> form])
  /\ UNCHANGED <<n, form, status>>

Complete ==
  /\ status = "streaming"
  /\ Len(out) = n
  /\ status' = "complete"
  /\ UNCHANGED <<n, out, form>>

Fail ==
  /\ status = "streaming"
  /\ status' = "failed"
  /\ UNCHANGED <<n, out, form>>

Next == Deliver \/ Complete \/ Fail

Spec == Init /\ [][Next]_vars
=============================================================================
