----------------------------- MODULE PeerSession -----------------------------
(***************************************************************************)
(* A connection from its start: attempt_peer_connect (src/src/peer.rs      *)
(* 19-59), and then the requests of BlockFetch on the stream it leaves.    *)
(* The set-up reads three times, each time what is there, and looks at the *)
(* start of a zero-filled buffer, wherever in the stream that is.          *)
(*                                                                         *)
(* The peer sends its handshake first; it starts out choking and answers   *)
(* requests only once it has sent unchoke.                                 *)
(***************************************************************************)
EXTENDS BlockFetch

CONSTANTS
    HANDSHAKE,  \* bytes of a handshake (68)
    HASH_END,   \* bytes up to the end of its info hash (48)
    HS_BUF,     \* size of the buffer for the handshake (128)
    SETUP_BUF   \* size of the buffers of recv_garbage and recv_unchoke (512)

ASSUME SessionAssumption ==
    /\ HANDSHAKE \in Nat /\ HASH_END \in Nat /\ HS_BUF \in Nat /\ SETUP_BUF \in Nat
    /\ 0 < HASH_END /\ HASH_END < HANDSHAKE /\ HANDSHAKE =< HS_BUF
    /\ HS_BUF =< READ_BUF /\ SETUP_BUF =< READ_BUF

VARIABLE choking    \* the peer has not sent unchoke

sessionVars == <<vars, choking>>

SetupStates == {"connect", "handshake", "garbage", "interested", "unchoke", "refused"}

SessionTypeOK ==
    /\ StreamTypeOK
    /\ pc \in FetchStates \cup SetupStates
    /\ choking \in BOOLEAN

SessionInit ==
    /\ StartsIn("connect")
    /\ sent = 0
    /\ aligned = TRUE
    /\ choking = TRUE

-----------------------------------------------------------------------------
\* The peer, once it is connected.

Connected == pc \notin {"connect", "refused", "panicked"}

SendHandshake ==
    /\ msgs = <<>>
    /\ Send("handshake", HANDSHAKE, 0)
    /\ UNCHANGED <<answered, choking>>

Unchoke ==
    /\ msgs # <<>>
    /\ choking
    /\ choking' = FALSE
    /\ Send("unchoke", PREFIX + 1, 0)
    /\ UNCHANGED answered

PeerStep ==
    /\ Connected
    /\ \/ SendHandshake
       \/ Unchoke
       \/ msgs # <<>> /\ SendNotice /\ UNCHANGED choking
       \/ ~choking /\ SendPiece /\ UNCHANGED choking
       \/ Close /\ UNCHANGED choking

-----------------------------------------------------------------------------
\* attempt_peer_connect.  Goto leaves what fetch_block_data uses alone.

Goto(states) == pc' \in states /\ UNCHANGED <<peerVars, asked, fetchVars>>

\* Within 2 seconds, or not.
Connect ==
    /\ pc = "connect"
    /\ Goto({"handshake", "refused"})
    /\ UNCHANGED <<rd, history>>

\* A read of the set-up ends without bytes: after 5 seconds, at the end of a
\* closed connection, or because of a reset.
ReadsNothing == (open => rd = sent) /\ UNCHANGED rd

Reads(n) == Bytes(n) /\ rd' = rd + n

\* Faulty variant: the info hash is not compared.
HandshakeUnchecked ==
    /\ pc = "handshake"
    /\ \/ (\E n \in 1..HS_BUF : Reads(n)) /\ Goto({"garbage"})
       \/ ReadsNothing /\ Goto({"refused"})
    /\ UNCHANGED history

\* Faulty variant: the read has no timeout.
HandshakeWaits ==
    /\ pc = "handshake"
    /\ \/ (\E n \in HASH_END..HS_BUF : Reads(n)) /\ Goto({"garbage"})
       \/ (\E n \in 1..(HASH_END - 1) : Reads(n)) /\ Goto({"refused"})
       \/ ~open /\ ReadsNothing /\ Goto({"refused"})
    /\ UNCHANGED history

\* One read has to bring the info hash; the peer's id is not looked at, it may
\* be missing, and the read may go on into the next message.
Handshake ==
    /\ pc = "handshake"
    /\ \/ (\E n \in HASH_END..HS_BUF : Reads(n)) /\ Goto({"garbage"})
       \/ (\E n \in 1..(HASH_END - 1) : Reads(n)) /\ Goto({"refused"})
       \/ ReadsNothing /\ Goto({"refused"})
    /\ UNCHANGED history

\* The host serves another torrent, or speaks another protocol, which may
\* panic in parse_handshake_response.
NoPeer ==
    /\ pc = "handshake"
    /\ msgs = <<>>
    /\ Goto({"refused", "panicked"})
    /\ UNCHANGED <<rd, history>>

RecvGarbage ==
    /\ pc = "garbage"
    /\ ReadsNothing \/ \E n \in 1..SETUP_BUF : Reads(n)
    /\ Goto({"interested"})
    /\ UNCHANGED history

\* Writing to a connection the peer has closed may panic.
SendInterested ==
    /\ pc = "interested"
    /\ Goto({"unchoke"} \cup IF open THEN {} ELSE {"panicked"})
    /\ UNCHANGED <<rd, history>>

\* parse_peer_msg panics on a bitfield longer than the buffer, and may panic on
\* bytes from inside a message.
MayPanic ==
    \/ StartsAt(0)
    \/ \E m \in Range(msgs) : m.start = rd /\ m.end - m.start > SETUP_BUF

InStep(pos) == \A m \in Range(msgs) : ~(m.start < pos /\ pos < m.end)

\* Whatever is read, an unchoke or not, in time or not: the session is ready,
\* the error is only printed.  What is left in the stream is what the first
\* request meets, and that may be the rest of a message.
RecvUnchoke ==
    /\ pc = "unchoke"
    /\ \/ ReadsNothing /\ Goto({"idle"})
       \/ /\ \E n \in 1..SETUP_BUF : Reads(n)
          /\ Goto({"idle"} \cup IF MayPanic THEN {"panicked"} ELSE {})
    /\ aligned' = InStep(rd')
    /\ UNCHANGED clean

AttemptPeerConnect ==
    \/ Connect \/ Handshake \/ RecvGarbage \/ SendInterested \/ RecvUnchoke

-----------------------------------------------------------------------------
SessionNext ==
    \/ PeerStep
    \/ NoPeer /\ UNCHANGED choking
    \/ AttemptPeerConnect /\ UNCHANGED choking
    \/ Request /\ UNCHANGED choking
    \/ Read /\ UNCHANGED choking

\* Connecting and reading have timeouts, writing does not wait.
SessionSpec ==
    /\ SessionInit
    /\ [][SessionNext]_sessionVars
    /\ WF_sessionVars(AttemptPeerConnect /\ UNCHANGED choking)
    /\ WF_sessionVars(Read /\ UNCHANGED choking)

\* Blocks are only requested from a peer that sent a handshake with the info
\* hash of the torrent (peer.rs 493-496), although the peer's messages are cut
\* anywhere and later errors of the set-up are not returned.
HandshakeBeforeRequest ==
    asked # <<>> => msgs # <<>> /\ msgs[1].kind = "handshake" /\ rd >= HASH_END

\* What the worker relies on (app.rs 251-258, peer.rs 69-105): whatever arrives
\* and however it is cut, the connection is set up once, has one request under
\* way at most, and none after an error, a panic or an endless loop.
SessionState ==
    CASE pc \in SetupStates \ {"refused"} -> "connecting"
      [] pc \in {"idle", "ok"} -> "ready"
      [] pc \in {"first", "more"} -> "fetching"
      [] pc = "err" -> "failed"
      [] OTHER -> pc
AsConnection == INSTANCE Connection WITH state <- SessionState, requests <- Len(asked)
ActsAsConnection == AsConnection!Spec

\* Every peer is refused, or ready for requests, or a panic, in the end.
SetupResolves ==
    pc = "connect" ~> pc \in {"refused", "panicked", "idle"}

=============================================================================
