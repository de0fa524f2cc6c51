------------------------- MODULE MCPicoUartChannel -------------------------
(***************************************************************************)
(* The two directions of a PicoUartChannel share no variable but the flag  *)
(* of a panic, after which nothing runs, so that their interleavings say   *)
(* nothing that each alone does not: every behaviour of this model runs    *)
(* one of them.                                                            *)
(***************************************************************************)
EXTENDS PicoUartChannel

VARIABLE direction

MCInit == Init /\ direction \in {"in", "out"}

MCNext ==
  /\ \/ direction = "in"  /\ Receive
     \/ direction = "out" /\ Transmit
  /\ UNCHANGED direction

MCSpec == MCInit /\ [][MCNext]_<<vars, direction>>
=============================================================================
