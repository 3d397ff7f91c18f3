----------------------------- MODULE Connection -----------------------------
(***************************************************************************)
(* A connection as the download worker uses it (src/src/app.rs 251-258 and *)
(* src/src/peer.rs 62-108), without the stream: it is set up once or not   *)
(* at all, then requests are made one at a time, until one of them has no  *)
(* block for an answer, which is the end of the connection.  The Connect,  *)
(* FetchOk, FetchErr and FetchNeverReturns of Pipeline are made of this.   *)
(***************************************************************************)
EXTENDS Naturals

VARIABLES
    state,
    requests    \* requests made

vars == <<state, requests>>

Init == state = "connecting" /\ requests = 0

SetUp ==
    /\ state = "connecting"
    /\ state' \in {"refused", "panicked", "ready"}
    /\ UNCHANGED requests

Ask ==
    /\ state = "ready"
    /\ \/ state' = "fetching" /\ requests' = requests + 1
       \/ state' = "panicked" /\ UNCHANGED requests

\* A block, an error, a panic, or an endless loop.
Resolve ==
    /\ state = "fetching"
    /\ state' \in {"ready", "failed", "panicked", "spinning"}
    /\ UNCHANGED requests

Next == SetUp \/ Ask \/ Resolve

Spec == Init /\ [][Next]_vars
=============================================================================
