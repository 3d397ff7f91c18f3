--------------------------- MODULE TrackerAnnounce ---------------------------
(***************************************************************************)
(* The announce (App::download up to the announce response, src/src/app.rs *)
(* 332-389): choose a URL, open a UDP socket, get a connection id from the *)
(* tracker, announce with it, parse the peers, compare the transaction id. *)
(*                                                                         *)
(* Datagrams may be lost, delayed, reordered and duplicated; the local     *)
(* port is fixed, so answers to an earlier run of the program can still    *)
(* arrive.  A transaction id is named by the request it was made for.      *)
(***************************************************************************)
EXTENDS Integers, Sequences

CONSTANTS
    MAX_ATTEMPTS,   \* max_attempts (5, in three loops)
    HEADER,         \* bytes of an announce response before the peers (20)
    ENTRY,          \* bytes of a peer (6)
    BUFFER,         \* ANNOUNCE_RESP_BUFFER_SIZE (10240)
    Torrents,       \* URLs: the announce list, flattened, <<>> for none, and
                    \* the announce field, NoUrl for none
    Replies,        \* what an announce response has after the header
    MaxDuplicates   \* bound: datagrams duplicated by the network

\* "path": something follows the port.
Url == [protocol : {"udp", "http", "other"}, path : BOOLEAN]
NoUrl == [protocol |-> "none", path |-> FALSE]

Torrent == [announce_list : Seq(Url), announce : Url \cup {NoUrl}]

\* How many bytes a response has after the header, as far as they fit the
\* buffer, and the places of the peers whose address starts with 0.
Reply == [size : 0..(BUFFER - HEADER), zeros : SUBSET Nat]

ASSUME AnnounceAssumption ==
    /\ MAX_ATTEMPTS \in Nat \ {0}
    /\ HEADER \in Nat /\ ENTRY \in Nat \ {0} /\ BUFFER \in Nat
    /\ HEADER < BUFFER
    /\ MaxDuplicates \in Nat
    /\ Torrents \subseteq Torrent
    /\ Replies \subseteq Reply

Request == [action : {"connect", "announce"}, tx : {"connect", "announce"},
            conn : {"none", "issued", "old", "junk"}, n : 1..MAX_ATTEMPTS]

\* n is the attempt that is answered, 0 for one of an earlier run.
Datagram == [action : {"connect", "announce", "error"}, tx : {"connect", "announce", "old"},
             conn : {"none", "issued", "old"}, n : 0..MAX_ATTEMPTS, copy : BOOLEAN]

NoDatagram == [action |-> "none", tx |-> "none", conn |-> "none", n |-> 0, copy |-> FALSE]

\* Answers to an earlier run; an error is handled like an announce response.
OldAnswers ==
    {[action |-> a, tx |-> "old", conn |-> IF a = "connect" THEN "old" ELSE "none",
      n |-> 0, copy |-> FALSE] : a \in {"connect", "announce"}}

VARIABLES
    torrent,                    \* the torrent's URLs
    to_tracker, to_client,      \* datagrams in flight
    duplicates,                 \* datagrams duplicated so far
    stale,                      \* history: answers to an earlier run were in flight
    pc, url, attempt, conn_id,  \* the program
    connects,                   \* history: connect requests sent
    resp,                       \* the datagram taken for the announce response
    reply,                      \* its bytes after the header
    i, addresses                \* parse_announce_response; a peer is its place

netVars == <<to_tracker, to_client, duplicates, stale>>
parseVars == <<resp, reply, i, addresses>>
vars == <<torrent, netVars, pc, url, attempt, conn_id, connects, parseVars>>

Final == {"done", "err", "panicked", "parse_panic", "tx_panic"}

TypeOK ==
    /\ torrent \in Torrent
    /\ to_tracker \subseteq Request /\ to_client \subseteq Datagram
    /\ duplicates \in 0..MaxDuplicates /\ stale \in BOOLEAN
    /\ pc \in {"start", "choose", "http", "open", "socket", "connect", "recv_connect",
               "announce", "recv_announce", "parse", "check"} \cup Final
    /\ url \in Url \cup {NoUrl}
    /\ attempt \in 1..(MAX_ATTEMPTS + 1) /\ connects \in 0..MAX_ATTEMPTS
    /\ conn_id \in {"none", "issued", "old", "junk"}
    /\ resp \in Datagram \cup {NoDatagram}
    /\ reply \in Reply
    /\ i \in HEADER..(BUFFER + ENTRY) /\ addresses \in Seq(HEADER..BUFFER)

NoReply == [size |-> 0, zeros |-> {}]

Init ==
    /\ torrent \in Torrents
    /\ to_tracker = {} /\ to_client \in SUBSET OldAnswers
    /\ stale = (to_client # {}) /\ duplicates = 0
    /\ pc = "start" /\ url = NoUrl /\ attempt = 1
    /\ conn_id = "none" /\ connects = 0
    /\ resp = NoDatagram /\ reply = NoReply
    /\ i = HEADER /\ addresses = <<>>

-----------------------------------------------------------------------------
\* The tracker and the network.  What they do once the program receives no
\* more is left out.

Listening == pc \in {"connect", "recv_connect", "announce", "recv_announce"}

\* A tracker answers a connect request with a connection id, an announce with
\* a connection id it has issued with an announce response, and any request
\* with an error.  All of them carry the transaction id of the request.
Answers(r) ==
    {d \in Datagram :
        /\ d.tx = r.tx /\ d.n = r.n /\ ~d.copy
        /\ \/ d.action = "error" /\ d.conn = "none"
           \/ r.action = "connect" /\ d.action = "connect" /\ d.conn = "issued"
           \/ /\ r.action = "announce" /\ r.conn \in {"issued", "old"}
              /\ d.action = "announce" /\ d.conn = "none"}

Answer ==
    /\ Listening
    /\ \E r \in to_tracker : \E d \in Answers(r) :
        /\ to_tracker' = to_tracker \ {r}
        /\ to_client' = to_client \cup {d}
    /\ UNCHANGED <<torrent, duplicates, stale, pc, url, attempt, conn_id, connects, parseVars>>

Duplicate ==
    /\ Listening
    /\ duplicates < MaxDuplicates
    /\ duplicates' = duplicates + 1
    /\ \E d \in to_client : to_client' = to_client \cup {[d EXCEPT !.copy = TRUE]}
    /\ UNCHANGED <<torrent, to_tracker, stale, pc, url, attempt, conn_id, connects, parseVars>>

-----------------------------------------------------------------------------
\* The choice of the URL, the socket.

IsUdp(u) == u.protocol = "udp"

UdpUrls == {k \in 1..Len(torrent.announce_list) : IsUdp(torrent.announce_list[k])}

\* The torrent file cannot be read, it has no announce field (needed even if
\* it is not used), or the output directory cannot be made: all of them panic.
Prepare ==
    /\ pc = "start"
    /\ \/ torrent.announce # NoUrl /\ pc' = "choose"
       \/ pc' = "panicked"
    /\ UNCHANGED <<torrent, netVars, url, attempt, conn_id, connects, parseVars>>

\* The first UDP URL of the list, else the announce field, as HTTP whatever
\* its protocol.
ChooseUrl ==
    /\ pc = "choose"
    /\ \/ UdpUrls = {} /\ pc' = "http" /\ url' = torrent.announce
       \/ \E k \in UdpUrls :
            /\ \A j \in UdpUrls : k =< j
            /\ pc' = "open" /\ url' = torrent.announce_list[k]
    /\ UNCHANGED <<torrent, netVars, attempt, conn_id, connects, parseVars>>

\* The URL does not parse, or the request is made and then "unimplemented!".
AnnounceHttp ==
    /\ pc = "http"
    /\ pc' \in {"err", "panicked"}
    /\ UNCHANGED <<torrent, netVars, url, attempt, conn_id, connects, parseVars>>

\* Binding and resolving panic on failure; a URL with a path never resolves,
\* because all that follows "://" is taken for host and port.
OpenSocket ==
    /\ pc = "open"
    /\ \/ ~url.path /\ pc' = "socket"
       \/ pc' = "panicked"
    /\ UNCHANGED <<torrent, netVars, url, attempt, conn_id, connects, parseVars>>

ConnectSocket ==
    /\ pc = "socket"
    /\ \/ pc' = "connect" /\ attempt' = 1
       \/ /\ attempt' = attempt + 1
          /\ pc' = IF attempt' > MAX_ATTEMPTS THEN "panicked" ELSE "socket"
    /\ UNCHANGED <<torrent, netVars, url, conn_id, connects, parseVars>>

-----------------------------------------------------------------------------
\* perform_connection and perform_announce: send, receive, try again.

\* Faulty variant: the transaction id made for the announce serves both.
ConnectPacketSharesTx ==
    [action |-> "connect", tx |-> "announce", conn |-> "none", n |-> attempt]

\* One transaction id for all attempts.
ConnectPacket == [action |-> "connect", tx |-> "connect", conn |-> "none", n |-> attempt]

\* Faulty variant: the packet gets a transaction id of its own.
AnnouncePacketOwnTx == [action |-> "announce", tx |-> "connect", conn |-> conn_id, n |-> attempt]

AnnouncePacket == [action |-> "announce", tx |-> "announce", conn |-> conn_id, n |-> attempt]

\* Faulty variant: attempts are not counted against the maximum.
SendUnbounded(packet, recv) ==
    \/ to_tracker' = to_tracker \cup {packet} /\ pc' = recv /\ UNCHANGED attempt
    \/ attempt' = attempt + 1 /\ UNCHANGED <<to_tracker, pc>>

\* The start of both loops: give up, or send; a send may fail.
Send(packet, recv) ==
    \/ attempt > MAX_ATTEMPTS /\ pc' = "err" /\ UNCHANGED <<to_tracker, attempt>>
    \/ /\ attempt =< MAX_ATTEMPTS
       /\ \/ to_tracker' = to_tracker \cup {packet} /\ pc' = recv /\ UNCHANGED attempt
          \/ attempt' = attempt + 1 /\ UNCHANGED <<to_tracker, pc>>

\* Faulty variant: an attempt without an answer does not count.
RecvErrorUncounted(send) == pc' = send /\ UNCHANGED attempt

\* Nothing for 2 seconds, or the host refuses.
RecvError(send) == pc' = send /\ attempt' = attempt + 1

SendConnect ==
    /\ pc = "connect"
    /\ Send(ConnectPacket, "recv_connect")
    /\ connects' = IF pc' = "recv_connect" THEN connects + 1 ELSE connects
    /\ UNCHANGED <<torrent, to_client, duplicates, stale, url, conn_id, parseVars>>

\* Bytes 8 to 16 of whatever arrives.
ConnId(d) == IF d.action = "connect" THEN d.conn ELSE "junk"

RecvConnect ==
    /\ pc = "recv_connect"
    /\ \/ /\ \E d \in to_client : to_client' = to_client \ {d} /\ conn_id' = ConnId(d)
          /\ pc' = "announce" /\ attempt' = 1
       \/ RecvError("connect") /\ UNCHANGED <<to_client, conn_id>>
    /\ UNCHANGED <<torrent, to_tracker, duplicates, stale, url, connects, parseVars>>

SendAnnounce ==
    /\ pc = "announce"
    /\ Send(AnnouncePacket, "recv_announce")
    /\ UNCHANGED <<torrent, to_client, duplicates, stale, url, conn_id, connects, parseVars>>

RecvAnnounce ==
    /\ pc = "recv_announce"
    /\ \/ /\ \E d \in to_client :
               /\ to_client' = to_client \ {d} /\ resp' = d
               /\ reply' \in IF d.action = "connect" THEN {NoReply} ELSE Replies
          /\ pc' = "parse" /\ UNCHANGED attempt
       \/ RecvError("announce") /\ UNCHANGED <<to_client, resp, reply>>
    /\ UNCHANGED <<torrent, to_tracker, duplicates, stale, url, conn_id, connects, i, addresses>>

-----------------------------------------------------------------------------
\* parse_announce_response gets the whole buffer, zeros after what was received.

ZeroAt(k) == k >= HEADER + reply.size \/ k \in reply.zeros

\* Faulty variant: the next place leaves out the bytes of the port.
ParsePeerShort ==
    /\ pc = "parse"
    /\ IF i >= BUFFER THEN pc' = "check" /\ UNCHANGED <<i, addresses>>
       ELSE IF i + ENTRY > BUFFER THEN pc' = "parse_panic" /\ UNCHANGED <<i, addresses>>
       ELSE IF ZeroAt(i) THEN pc' = "check" /\ UNCHANGED <<i, addresses>>
       ELSE i' = i + ENTRY - 1 /\ addresses' = Append(addresses, i) /\ UNCHANGED pc
    /\ UNCHANGED <<torrent, netVars, url, attempt, conn_id, connects, resp, reply>>

\* Faulty variant: a peer is read wherever the list ends.
ParsePeerUnpadded ==
    /\ pc = "parse"
    /\ IF i >= HEADER + reply.size THEN pc' = "check" /\ UNCHANGED <<i, addresses>>
       ELSE IF i + ENTRY > HEADER + reply.size \/ i + ENTRY > BUFFER
       THEN pc' = "parse_panic" /\ UNCHANGED <<i, addresses>>
       ELSE IF ZeroAt(i) THEN pc' = "check" /\ UNCHANGED <<i, addresses>>
       ELSE i' = i + ENTRY /\ addresses' = Append(addresses, i) /\ UNCHANGED pc
    /\ UNCHANGED <<torrent, netVars, url, attempt, conn_id, connects, resp, reply>>

\* One turn of the loop: the end of the buffer, less than a peer left before
\* it, the address that ends the list, or a peer.
ParsePeer ==
    /\ pc = "parse"
    /\ IF i >= BUFFER THEN pc' = "check" /\ UNCHANGED <<i, addresses>>
       ELSE IF i + ENTRY > BUFFER THEN pc' = "parse_panic" /\ UNCHANGED <<i, addresses>>
       ELSE IF ZeroAt(i) THEN pc' = "check" /\ UNCHANGED <<i, addresses>>
       ELSE i' = i + ENTRY /\ addresses' = Append(addresses, i) /\ UNCHANGED pc
    /\ UNCHANGED <<torrent, netVars, url, attempt, conn_id, connects, resp, reply>>

CheckTx ==
    /\ pc = "check"
    /\ pc' = IF resp.tx = "announce" THEN "done" ELSE "tx_panic"
    /\ UNCHANGED <<torrent, netVars, url, attempt, conn_id, connects, parseVars>>

Announce ==
    \/ Prepare \/ ChooseUrl \/ AnnounceHttp \/ OpenSocket \/ ConnectSocket
    \/ SendConnect \/ RecvConnect \/ SendAnnounce \/ RecvAnnounce
    \/ ParsePeer \/ CheckTx

Next == Answer \/ Duplicate \/ Announce

\* The program's own steps: every send and receive returns within 2 seconds.
Spec == Init /\ [][Next]_vars /\ WF_vars(Announce)

-----------------------------------------------------------------------------
\* What is accepted answers an announce of this run: never the answer to a
\* connect request, never one to an earlier run.  The error response of a
\* tracker is accepted, since nobody looks at the action (announce.rs 155-207).
AcceptedAnswersAnnounce ==
    pc = "done" => resp.action \in {"announce", "error"} /\ resp.n \in 1..attempt

\* The transaction id check panics (app.rs 181-185) only on an answer too many:
\* of an earlier run, a duplicate, or the late answer to an attempt that was
\* repeated.
TxPanicNeedsExtraAnswer ==
    pc = "tx_panic" => stale \/ duplicates > 0 \/ connects > 1

\* The peers of an accepted response are those before the first address that
\* starts with 0, in order, up to the end of the response; a rest too short for
\* a peer is taken for one (announce.rs 155-205).
PeersUpToFirstZero ==
    pc \in {"check", "done", "tx_panic"} =>
        /\ addresses = [k \in 1..Len(addresses) |-> HEADER + (k - 1) * ENTRY]
        /\ \A k \in 1..Len(addresses) : addresses[k] \notin reply.zeros
        /\ \/ HEADER + Len(addresses) * ENTRY >= HEADER + reply.size
           \/ HEADER + Len(addresses) * ENTRY \in reply.zeros

\* The parser runs off the buffer only when the response reaches the last place
\* for a peer in it, bytes are left after that place, and no address starts with
\* 0 (announce.rs 171-205).
ParsePanicsOnlyWhenFull ==
    pc = "parse_panic" =>
        LET room == (BUFFER - HEADER) \div ENTRY IN
        /\ room * ENTRY < BUFFER - HEADER
        /\ reply.size > (room - 1) * ENTRY
        /\ reply.zeros \cap {HEADER + k * ENTRY : k \in 0..(room - 1)} = {}

\* The announce comes to an end, whatever the network does.
Resolves == <>(pc \in Final)

=============================================================================
