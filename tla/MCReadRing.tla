----------------------------- MODULE MCReadRing -----------------------------
(***************************************************************************)
(* A ring of 5 slots and commands of 1 to 11 sectors: the shortest never   *)
(* get a sector out of the first loop; in the longer ones the ring fills   *)
(* up, the card is paused and released, and the slots wrap twice.          *)
(***************************************************************************)
EXTENDS ReadRing
=============================================================================
