----------------------------- MODULE SectorSink -----------------------------
(***************************************************************************)
(* What WRITE(10) promises, with the two buffers, the endpoint and the     *)
(* polling loops of msc_write.c hidden: the sectors the host sends reach   *)
(* the medium in order, each once and in the form of its volume, never     *)
(* before the host sent them, and "passed" is only said once all of them   *)
(* are there.  When the card fails, what is there is still a beginning.    *)
(***************************************************************************)
EXTENDS Naturals, Sequences

CONSTANT MAXNUM      \* the most sectors a command writes

VARIABLES n,         \* sectors the command writes
          form,      \* "sealed" or "snooped": what the volume does to a sector
          taken,     \* data packets the drive has taken from the host
          stored,    \* sectors on the medium
          status     \* "writing", "passed" or "failed"

vars == <<n, form, taken, stored, status>>

Init == n = 0 /\ form = "snooped" /\ taken = 0 /\ stored = <<>> /\ status = "passed"

\* The first data packet comes with the command.
Begin ==
  /\ status # "writing"
  /\ n' \in 0 .. MAXNUM
  /\ form' \in {"sealed", "snooped"}
  /\ taken' = 1
  /\ stored' = <<>>
  /\ status' = "writing"

Take ==
  /\ status = "writing" /\ taken < n
  /\ taken' = taken + 1
  /\ UNCHANGED <<n, form, stored, status>>

Store ==
  /\ status = "writing" /\ Len(stored) < taken /\ Len(stored) < n
  /\ stored' = Append(stored, [sec |-> Len(stored), form |-> form])
  /\ UNCHANGED <<n, form, taken, status>>

Pass ==
  /\ status = "writing" /\ Len(stored) = n
  /\ status' = "passed"
  /\ UNCHANGED <<n, form, taken, stored>>

Fail ==
  /\ status = "writing"
  /\ status' = "failed"
  /\ UNCHANGED <<n, form, taken, stored>>

Next == Begin \/ Take \/ Store \/ Pass \/ Fail

Spec == Init /\ [][Next]_vars
=============================================================================
