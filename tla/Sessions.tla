------------------------------- MODULE Sessions -------------------------------
(***************************************************************************)
(* What the download workers (src/src/app.rs 244-290) record of their      *)
(* sessions: the set connected_peers, shared under a lock, and the status  *)
(* updates, counted by a thread of its own (src/src/status_update.rs).     *)
(* A peer is its IP address: two peers on the list can have the same one,  *)
(* with different ports.                                                   *)
(***************************************************************************)
EXTENDS Integers, Sequences, SequencesExt, FiniteSets

CONSTANTS
    DL_WORKERS, \* the number of download workers
    IpAddrs,    \* IP addresses
    NumPeers    \* bound: peers on the channel

ASSUME SessionsAssumption == DL_WORKERS \in Nat /\ NumPeers \in Nat

Workers == 1..DL_WORKERS

VARIABLES
    possible_peers,     \* the announced peers, in order
    peer_chan,          \* those not yet taken by a worker
    worker,             \* control state of each worker
    ip,                 \* the peer each worker took last
    connected_peers,    \* addresses, by the workers' account
    status_chan,        \* status updates under way
    shown               \* connected_peers of the status thread

vars == <<possible_peers, peer_chan, worker, ip, connected_peers, status_chan, shown>>

\* "lost": panicked during the download; "panicked": before it.
InSession == {"insert", "download", "remove", "disconnect", "lost"}

Updates == [kind : {"Connected", "Announced"}]
           \cup [kind : {"PeerConnect", "PeerDisconnect"}, ip : IpAddrs]

TypeOK ==
    /\ possible_peers \in Seq(IpAddrs) /\ peer_chan \in Seq(IpAddrs)
    /\ worker \in [Workers -> {"recv", "connect", "connected", "panicked", "exited"} \cup InSession]
    /\ ip \in [Workers -> IpAddrs]
    /\ connected_peers \subseteq IpAddrs
    /\ status_chan \in Seq(Updates)
    /\ shown \in 0..DL_WORKERS

\* After the announce, which has sent two updates; the peers are seeded.
Init ==
    /\ possible_peers \in BoundedSeq(IpAddrs, NumPeers)
    /\ peer_chan = possible_peers
    /\ worker = [w \in Workers |-> "recv"]
    /\ ip \in [Workers -> IpAddrs] /\ \A v, w \in Workers : ip[v] = ip[w]
    /\ connected_peers = {}
    /\ status_chan = <<[kind |-> "Connected"], [kind |-> "Announced"]>>
    /\ shown = 0

-----------------------------------------------------------------------------
\* A download worker.

Goes(w, before, after) == worker[w] = before /\ worker' = [worker EXCEPT ![w] = after]

Tell(kind, w) == status_chan' = Append(status_chan, [kind |-> kind, ip |-> ip[w]])

RecvPeer(w) ==
    /\ peer_chan # <<>>
    /\ Goes(w, "recv", "connect")
    /\ ip' = [ip EXCEPT ![w] = Head(peer_chan)]
    /\ peer_chan' = Tail(peer_chan)
    /\ UNCHANGED <<possible_peers, connected_peers, status_chan, shown>>

\* Main has dropped its sender.
Exit(w) ==
    /\ peer_chan = <<>>
    /\ Goes(w, "recv", "exited")
    /\ UNCHANGED <<possible_peers, peer_chan, ip, connected_peers, status_chan, shown>>

\* attempt_peer_connect: connected, refused, or a panic.
Connect(w) ==
    /\ \E s \in {"connected", "recv", "panicked"} : Goes(w, "connect", s)
    /\ UNCHANGED <<possible_peers, peer_chan, ip, connected_peers, status_chan, shown>>

TellConnect(w) ==
    /\ Goes(w, "connected", "insert")
    /\ Tell("PeerConnect", w)
    /\ UNCHANGED <<possible_peers, peer_chan, ip, connected_peers, shown>>

InsertPeer(w) ==
    /\ Goes(w, "insert", "download")
    /\ connected_peers' = connected_peers \cup {ip[w]}
    /\ UNCHANGED <<possible_peers, peer_chan, ip, status_chan, shown>>

\* Faulty variant: an error of the download skips the clean-up.
DownloadErrorSkips(w) ==
    /\ \E s \in {"remove", "recv", "lost"} : Goes(w, "download", s)
    /\ UNCHANGED <<possible_peers, peer_chan, ip, connected_peers, status_chan, shown>>

\* attempt_peer_download: Ok and Err are handled alike, a panic not at all.
Download(w) ==
    /\ \E s \in {"remove", "lost"} : Goes(w, "download", s)
    /\ UNCHANGED <<possible_peers, peer_chan, ip, connected_peers, status_chan, shown>>

\* Faulty variant: the address is left in the set.
RemovePeerNot(w) ==
    /\ Goes(w, "remove", "disconnect")
    /\ UNCHANGED <<possible_peers, peer_chan, ip, connected_peers, status_chan, shown>>

RemovePeer(w) ==
    /\ Goes(w, "remove", "disconnect")
    /\ connected_peers' = connected_peers \ {ip[w]}
    /\ UNCHANGED <<possible_peers, peer_chan, ip, status_chan, shown>>

TellDisconnect(w) ==
    /\ Goes(w, "disconnect", "recv")
    /\ Tell("PeerDisconnect", w)
    /\ UNCHANGED <<possible_peers, peer_chan, ip, connected_peers, shown>>

Records(w) == Connect(w) \/ TellConnect(w) \/ InsertPeer(w) \/ RemovePeer(w) \/ TellDisconnect(w)

-----------------------------------------------------------------------------
\* The status thread.

Counted(u) ==
    CASE u.kind = "PeerConnect" -> shown + 1
      [] u.kind = "PeerDisconnect" -> shown - 1
      [] OTHER -> shown

\* Faulty variant: the latest update is shown first.
ShowLatest ==
    /\ status_chan # <<>>
    /\ shown' = Counted(Last(status_chan))
    /\ status_chan' = Front(status_chan)
    /\ UNCHANGED <<possible_peers, peer_chan, worker, ip, connected_peers>>

\* Faulty variant: the thread ends when the first peer has been shown.
ShowFirst ==
    /\ status_chan # <<>>
    /\ shown = 0
    /\ shown' = Counted(Head(status_chan))
    /\ status_chan' = Tail(status_chan)
    /\ UNCHANGED <<possible_peers, peer_chan, worker, ip, connected_peers>>

\* Updates are taken in the order they were sent.
Show ==
    /\ status_chan # <<>>
    /\ shown' = Counted(Head(status_chan))
    /\ status_chan' = Tail(status_chan)
    /\ UNCHANGED <<possible_peers, peer_chan, worker, ip, connected_peers>>

Next ==
    \/ Show
    \/ \E w \in Workers : RecvPeer(w) \/ Exit(w) \/ Download(w) \/ Records(w)

\* A thread that does not wait goes on; a download may wait or spin for ever.
Spec ==
    /\ Init /\ [][Next]_vars
    /\ WF_vars(Show)
    /\ \A w \in Workers : WF_vars(Records(w))

-----------------------------------------------------------------------------
Pending(kind) == Cardinality({k \in DOMAIN status_chan : status_chan[k].kind = kind})

Sessions == {w \in Workers : worker[w] \in InSession}

\* The counter is right but for the updates under way: it counts the workers
\* in a session, those that panicked in one included (app.rs 261, 271, 277).
CounterAddsUp ==
    shown + Pending("PeerConnect") - Pending("PeerDisconnect") = Cardinality(Sessions)

\* An address in connected_peers has a worker that put it there and did not
\* remove it, alive or panicked; and the other way round as long as the
\* address is on the list once: with two ports of one host, the first
\* session that ends takes the entry of the other (app.rs 262, 270, 276).
ConnectedPeersTracked ==
    LET Holding(a) == \E w \in Workers : ip[w] = a /\ worker[w] \in {"download", "remove", "lost"}
        Times(a) == Cardinality({k \in DOMAIN possible_peers : possible_peers[k] = a})
    IN  \A a \in IpAddrs :
            /\ a \in connected_peers => Holding(a)
            /\ Times(a) = 1 /\ Holding(a) => a \in connected_peers

\* The number shown settles on the number of sessions.
CounterSettles == <>[](shown = Cardinality(Sessions))

=============================================================================
