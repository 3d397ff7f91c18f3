----------------------------- MODULE MCWorkPlan -----------------------------
(***************************************************************************)
(* Small instances of WorkPlan: every u32, from lengths that fit and some  *)
(* that do not; piece sizes of 0, below, equal to, a multiple of and       *)
(* between multiples of the block size; sums up to and beyond U32.         *)
(***************************************************************************)
EXTENDS WorkPlan

MCPieceLengths == -1..12
MCChunkSizes == 1..7

=============================================================================
