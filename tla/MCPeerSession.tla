---------------------------- MODULE MCPeerSession ----------------------------
(***************************************************************************)
(* A scaled-down session: the handshake and its info hash can be cut, its  *)
(* read can go on into the next message, a notice is longer than a read of *)
(* the set-up and an unchoke is not, and a reply of 5 bytes fits one read, *)
(* one of 8 does not.                                                      *)
(***************************************************************************)
EXTENDS PeerSession

MCLengths == {1, 4}
MCNoticeLengths == {4}

=============================================================================
