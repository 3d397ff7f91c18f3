--------------------------- MODULE MCFileAssembly ---------------------------
(***************************************************************************)
(* The pieces and files of test_build_files_from_pieces (pieces.rs 602),   *)
(* and shorter ones.                                                       *)
(***************************************************************************)
EXTENDS FileAssembly

MCPieceLists == {<<5, 5, 5>>, <<2, 1>>, <<>>}
MCFileLists == {<<8, 5, 2>>, <<1, 2>>}

=============================================================================
