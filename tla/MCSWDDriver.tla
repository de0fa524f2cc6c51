---------------------------- MODULE MCSWDDriver ----------------------------
(***************************************************************************)
(* SWDDriver on four words in two increment ranges.  The block of three    *)
(* words, all different, crosses from one range to the other.              *)
(***************************************************************************)
EXTENDS SWDDriver

MCBlocks == {<< <<1, 0>>, <<1, 1>>, <<0, 1>> >>, << <<1, 1>> >>}
=============================================================================
