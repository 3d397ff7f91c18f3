----------------------------- MODULE BlockFetch -----------------------------
(***************************************************************************)
(* Peer::fetch_block_data (src/src/peer.rs) on one connection: the worker  *)
(* requests one block after another and reads the replies from a TCP       *)
(* stream, which cuts and joins the peer's messages as it likes.           *)
(*                                                                         *)
(* The bytes of the stream are numbered from 0; a message, the data of a   *)
(* block and what a read returns are intervals of these numbers.  The peer *)
(* is honest: it answers requests in order, with the bytes asked for, or   *)
(* not at all.  In between it may send messages the worker did not ask     *)
(* for, and the stream may end at any byte.                                *)
(***************************************************************************)
EXTENDS Integers, Sequences, Functions

CONSTANTS
    PREFIX,         \* bytes of the length prefix (4)
    HEADER,         \* bytes of a piece message before its data (13)
    READ_BUF,       \* size of the read buffer (5000)
    NoticeLengths,  \* bytes of the other messages: bitfield, have, choke
    Lengths,        \* lengths of the requested blocks
    MaxRequests,    \* bound: requests on the connection
    MaxNotices      \* bound: messages on the connection that are no answers

ASSUME FetchAssumption ==
    /\ PREFIX \in Nat /\ HEADER \in Nat /\ READ_BUF \in Nat
    /\ 0 < PREFIX /\ PREFIX < HEADER /\ HEADER < READ_BUF
    /\ NoticeLengths \subseteq Nat \ {0}
    /\ Lengths \subseteq Nat \ {0}
    /\ MaxRequests \in Nat /\ MaxNotices \in Nat

VARIABLES
    msgs,       \* the messages of the peer, each with the bytes it would have
    sent,       \* bytes of them that reach the worker
    answered,   \* requests answered by the peer
    asked,      \* the lengths of the requests sent to the peer
    open,       \* the connection has not been closed by the peer, or reset
    rd,         \* bytes read by the worker
    pc,         \* control state of fetch_block_data
    reply,      \* the message the first read starts with, 0 if it starts inside one
    total_msg_size, total_bytes_read,
    from, to,   \* all_data
    aligned,    \* history: the set-up left the stream between two messages
    clean       \* history: every block so far had the length of its request

peerVars == <<msgs, sent, answered, open>>
fetchVars == <<reply, total_msg_size, total_bytes_read, from, to>>
history == <<aligned, clean>>
vars == <<peerVars, asked, rd, pc, fetchVars, history>>

Message == [kind : {"handshake", "unchoke", "piece", "notice"},
            start : Nat, end : Nat, request : Nat]

FetchStates == {"idle", "first", "more", "ok", "err", "panicked", "spinning"}

StreamTypeOK ==
    /\ msgs \in Seq(Message)
    /\ sent \in Nat /\ rd \in 0..sent
    /\ asked \in Seq(Lengths)
    /\ answered \in 0..Len(asked)
    /\ open \in BOOLEAN /\ aligned \in BOOLEAN /\ clean \in BOOLEAN
    /\ reply \in 0..Len(msgs)
    /\ total_msg_size \in Nat /\ total_bytes_read \in Nat
    /\ from \in Nat /\ to \in Nat

TypeOK == StreamTypeOK /\ pc \in FetchStates

-----------------------------------------------------------------------------
StartsIn(state) ==
    /\ msgs = <<>>
    /\ answered = 0
    /\ asked = <<>>
    /\ open = TRUE
    /\ rd = 0
    /\ pc = state
    /\ reply = 0
    /\ total_msg_size = 0
    /\ total_bytes_read = 0
    /\ from = 0
    /\ to = 0
    /\ clean = TRUE

\* The set-up of the connection (PeerSession) may leave the stream inside a
\* message, whose rest is still to come.
Init ==
    /\ StartsIn("idle")
    /\ sent \in {0, 1}
    /\ aligned = (sent = 0)

-----------------------------------------------------------------------------
\* The peer.

Send(kind, n, request) ==
    /\ open
    /\ sent' = sent + n
    /\ msgs' = Append(msgs, [kind |-> kind, start |-> sent, end |-> sent + n,
                             request |-> request])
    /\ UNCHANGED <<open, asked, rd, pc, fetchVars, history>>

SendPiece ==
    /\ answered < Len(asked)
    /\ answered' = answered + 1
    /\ Send("piece", HEADER + asked[answered + 1], answered + 1)

SendNotice ==
    /\ Len(msgs) - answered < MaxNotices
    /\ \E n \in NoticeLengths : Send("notice", n, 0)
    /\ UNCHANGED answered

\* The peer closes the connection or crashes: the stream ends at any byte the
\* worker has not read, which may be in the middle of a message.
Close ==
    /\ open
    /\ open' = FALSE
    /\ sent' \in rd..sent
    /\ UNCHANGED <<msgs, answered, asked, rd, pc, fetchVars, history>>

-----------------------------------------------------------------------------
\* The worker.

\* Faulty variant: the requested length includes the header.
RequestWithHeader ==
    /\ pc \in {"idle", "ok"}
    /\ Len(asked) < MaxRequests
    /\ \E n \in Lengths : asked' = Append(asked, n + HEADER)
    /\ pc' = "first"
    /\ UNCHANGED <<peerVars, rd, fetchVars, history>>

\* Faulty variant: the connection is used on after an error.
RequestAfterError ==
    /\ pc \in {"idle", "ok", "err"}
    /\ Len(asked) < MaxRequests
    /\ \E n \in Lengths : asked' = Append(asked, n)
    /\ pc' = "first"
    /\ UNCHANGED <<peerVars, rd, fetchVars, history>>

\* The request is written; on a closed connection that may panic ("write all
\* failed").
Request ==
    /\ pc \in {"idle", "ok"}
    /\ Len(asked) < MaxRequests
    /\ \/ /\ \E n \in Lengths : asked' = Append(asked, n)
          /\ pc' = "first"
       \/ /\ ~open
          /\ pc' = "panicked"
          /\ UNCHANGED asked
    /\ UNCHANGED <<peerVars, rd, fetchVars, history>>

\* A read returns some of the bytes that are there.
Bytes(n) == n \in 1..READ_BUF /\ rd + n =< sent

\* The first read begins with the message at rd, or inside a message.
StartsAt(k) == IF k = 0 THEN \A m \in Range(msgs) : m.start # rd ELSE msgs[k].start = rd

\* fetch_block_data leaves in state s without data.
Leave(s) == pc' = s /\ UNCHANGED <<fetchVars, history>>

\* Faulty variant: the header is counted twice.
ParsedPieceCountsTwice(k, n, size) ==
    /\ n >= HEADER
    /\ pc' = "more"
    /\ reply' = k
    /\ total_msg_size' = size
    /\ total_bytes_read' = n + HEADER
    /\ from' = rd + HEADER
    /\ to' = rd + n
    /\ UNCHANGED history

\* parse_peer_msg finds a piece message of the claimed size: the rest of the
\* n bytes is data.
ParsedPiece(k, n, size) ==
    /\ n >= HEADER
    /\ pc' = "more"
    /\ reply' = k
    /\ total_msg_size' = size
    /\ total_bytes_read' = n
    /\ from' = rd + HEADER
    /\ to' = rd + n
    /\ UNCHANGED history

\* Faulty variant: the loop goes on after another message.
ParsedNoticeGoesOn(k, n) ==
    /\ pc' = "more"
    /\ total_msg_size' = 0
    /\ total_bytes_read' = 0
    /\ from' = rd + n
    /\ to' = rd + n
    /\ UNCHANGED <<reply, history>>

\* Any other message is refused; cut short, it may panic in parse_peer_msg,
\* which looks at the fields the kind of message has.
ParsedNotice(k, n) ==
    \/ n >= PREFIX /\ Leave("err")
    \/ n < msgs[k].end - msgs[k].start /\ Leave("panicked")

\* The first read.  A piece message cut within its header panics in
\* parse_peer_msg.  Bytes from inside a message can be taken for a message of
\* any kind and size; sizes beyond HEADER + READ_BUF are left out.
FirstRead ==
    /\ pc = "first"
    /\ \E n \in 1..READ_BUF, k \in 0..Len(msgs) :
        /\ Bytes(n) /\ StartsAt(k)
        /\ rd' = rd + n
        /\ IF k = 0
           THEN \/ Leave("err") \/ Leave("panicked")
                \/ \E size \in (HEADER - PREFIX)..(HEADER + READ_BUF) : ParsedPiece(k, n, size)
           ELSE IF msgs[k].kind # "piece" THEN ParsedNotice(k, n)
           ELSE IF n < HEADER THEN Leave("panicked")
           ELSE ParsedPiece(k, n, msgs[k].end - msgs[k].start - PREFIX)
    /\ UNCHANGED <<peerVars, asked>>

\* The block is returned.
Return(end) ==
    /\ pc' = "ok"
    /\ clean' = (clean /\ end - from = asked[Len(asked)])
    /\ UNCHANGED aligned

\* A later read: the prefix was counted as read but is not part of the size.
NextRead ==
    /\ pc = "more"
    /\ \E n \in 1..READ_BUF :
        /\ Bytes(n)
        /\ rd' = rd + n
        /\ to' = to + n
        /\ total_bytes_read' = total_bytes_read + n
        /\ IF total_msg_size - total_bytes_read' =< 0
           THEN Return(to')
           ELSE UNCHANGED <<pc, history>>
    /\ UNCHANGED <<peerVars, asked, reply, total_msg_size, from>>

\* Faulty variant: after an empty read the loop goes on without its test.
ReadAtEndContinues ==
    /\ pc \in {"first", "more"}
    /\ rd = sent
    /\ ~open
    /\ pc' = IF pc = "first" THEN "panicked" ELSE "spinning"
    /\ UNCHANGED <<peerVars, asked, rd, fetchVars, history>>

\* At the end of the stream a read returns 0 bytes, be it after a whole message
\* or within one: nothing to parse at first, then either enough bytes are counted
\* or the loop never ends.
ReadAtEnd ==
    /\ pc \in {"first", "more"}
    /\ rd = sent
    /\ ~open
    /\ IF pc = "first"
       THEN pc' = "panicked" /\ UNCHANGED history
       ELSE IF total_msg_size - total_bytes_read =< 0
       THEN Return(to)
       ELSE pc' = "spinning" /\ UNCHANGED history
    /\ UNCHANGED <<peerVars, asked, rd, fetchVars>>

\* Faulty variant: no read timeout is set.
ReadFailsWithoutTimeout ==
    /\ pc \in {"first", "more"}
    /\ ~open
    /\ Leave("panicked")
    /\ UNCHANGED <<peerVars, asked, rd>>

\* No byte for 5 seconds, or a connection reset: the expect on the read panics.
ReadFails ==
    /\ pc \in {"first", "more"}
    /\ open => rd = sent
    /\ Leave("panicked")
    /\ UNCHANGED <<peerVars, asked, rd>>

Read == FirstRead \/ NextRead \/ ReadAtEnd \/ ReadFails

Next == SendPiece \/ SendNotice \/ Close \/ Request \/ Read

Spec == Init /\ [][Next]_vars

\* A read returns within its timeout of 5 seconds, with bytes or without.
FairSpec == Spec /\ WF_vars(Read)

-----------------------------------------------------------------------------
\* The data are the data of the answer to the last request.
IsAnswer(m) ==
    /\ m.kind = "piece"
    /\ m.request = Len(asked)
    /\ from = m.start + HEADER
    /\ to = m.end

\* On a connection the set-up left between two messages, and as long as every
\* block returned on it has the length that was requested, every block is the
\* right one and the next read starts at a message: the requests put the stream
\* out of step only with a block of another length, which nobody compares
\* (peer.rs 451-458, app.rs 77-85 keep whatever is returned).  The set-up need
\* not leave the stream so (peer.rs 53-56, 387-401); then even a block of the
\* right length can be a wrong one.
LengthTellsTheBlock ==
    pc = "ok" /\ aligned /\ clean => \E m \in Range(msgs) : IsAnswer(m) /\ rd = m.end

\* A reply that is read from its start is never returned with more than the
\* length prefix's number of bytes missing: the end-of-message test counts the
\* prefix on one side only (peer.rs 439, 451-452).
MissesAtMostPrefix ==
    pc = "ok" /\ reply # 0 => to >= msgs[reply].end - PREFIX

\* The loop spins only at the end of a stream that ended within the reply, with
\* more than a prefix's bytes of it missing (peer.rs 431: 0 bytes, again and
\* again): never on a connection that is merely slow, never when the reply is
\* whole or nearly so, and with another message than a reply only if the stream
\* was out of step before.
SpinsOnlyMidMessage ==
    pc = "spinning" =>
        /\ ~open /\ rd = sent
        /\ reply # 0 => to < msgs[reply].end - PREFIX
        /\ aligned /\ clean => reply # 0

\* Every request is resolved: a block, an error, a panic, or the endless loop.
FetchResolves == pc \in {"first", "more"} ~> pc \in {"ok", "err", "panicked", "spinning"}

-----------------------------------------------------------------------------
\* peer.rs:425 "keep reading stream until all data for block has been
\* received": what is returned is all of it ...
AllDataReceived == pc = "ok" /\ reply # 0 => to >= msgs[reply].end

\* ... and once all of it has been received, the loop ends and returns it,
\* unless the peer closes the connection.
WholeReplyReturned ==
    pc = "more" /\ reply # 0 /\ to >= msgs[reply].end ~> pc = "ok" \/ ~open

=============================================================================
