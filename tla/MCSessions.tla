----------------------------- MODULE MCSessions -----------------------------
(***************************************************************************)
(* Two workers and up to three peers, two of which may share an address.   *)
(***************************************************************************)
EXTENDS Sessions

MCIpAddrs == {"a", "b"}

=============================================================================
