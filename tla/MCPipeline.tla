----------------------------- MODULE MCPipeline -----------------------------
(***************************************************************************)
(* Small instances of Pipeline: two pieces of two blocks, or one of one.   *)
(***************************************************************************)
EXTENDS Pipeline

MCPieces == 0..1
MCBlocks == 0..1
MCOnePiece == {0}
MCOneBlock == {0}

=============================================================================
