---------------------------- MODULE MCBlockFetch ----------------------------
(***************************************************************************)
(* A scaled-down BlockFetch: a reply of 5 bytes can fit in one read, one   *)
(* of 8 needs two or more, and a notice can be shorter or longer than the  *)
(* part of a message that is cut off.                                      *)
(***************************************************************************)
EXTENDS BlockFetch

MCLengths == {1, 4}
MCNoticeLengths == {2, 4}

=============================================================================
