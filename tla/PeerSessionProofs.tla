-------------------------- MODULE PeerSessionProofs --------------------------
(***************************************************************************)
(* Sessions with any sizes of messages and buffers and any number of       *)
(* requests: the properties of the run fetch, but for liveness.            *)
(***************************************************************************)
EXTENDS PeerSession, SequenceTheorems, TLAPS

\* The stream: messages follow each other from the first byte on, all of them
\* in full until the peer closes, and each answer is to a later request than the
\* one before it and as long as that says.
StreamInv ==
    /\ \A k \in 1..Len(msgs) :
        /\ msgs[k].start < msgs[k].end
        /\ open => msgs[k].end =< sent
        /\ msgs[k].kind = "piece" =>
            /\ msgs[k].request \in 1..answered
            /\ msgs[k].end = msgs[k].start + HEADER + asked[msgs[k].request]
    /\ \A j, k \in 1..Len(msgs) : j < k =>
        /\ msgs[j].end =< msgs[k].start
        /\ msgs[j].kind = "piece" /\ msgs[k].kind = "piece" =>
            msgs[j].request < msgs[k].request
    /\ \A b \in Nat : b < sent =>
        \E k \in 1..Len(msgs) : msgs[k].start =< b /\ b < msgs[k].end
    /\ msgs # <<>> => msgs[1].kind = "handshake"
    /\ ~choking => msgs # <<>>

\* The set-up: what has been read when.
SetupInv ==
    /\ pc \in {"connect", "handshake"} => rd = 0
    /\ pc \notin {"connect", "handshake", "refused", "panicked"} \/ asked # <<>> =>
        rd >= HASH_END
    /\ pc \in SetupStates \cup {"idle"} => asked = <<>>

\* The byte counts of fetch_block_data.
FetchInv ==
    /\ pc \in {"first", "more", "ok"} => asked # <<>>
    /\ pc = "more" =>
        /\ to = rd
        /\ total_bytes_read = to - from + HEADER
        /\ reply # 0 =>
            /\ msgs[reply].kind = "piece"
            /\ from = msgs[reply].start + HEADER
            /\ total_msg_size = msgs[reply].end - msgs[reply].start - PREFIX
    /\ MissesAtMostPrefix
    /\ SpinsOnlyMidMessage

\* A stream that is in step: at a message, and the answers still to be read are
\* to the last request.
CleanInv ==
    aligned /\ clean =>
        /\ pc \in {"idle", "first"} => InStep(rd)
        /\ pc = "first" =>
            /\ answered >= Len(asked) - 1
            /\ \A k \in 1..Len(msgs) :
                msgs[k].kind = "piece" /\ msgs[k].start >= rd => msgs[k].request = Len(asked)
        /\ pc = "more" => reply # 0 /\ msgs[reply].request = Len(asked)
        /\ pc = "ok" => \E k \in 1..Len(msgs) : IsAnswer(msgs[k]) /\ rd = msgs[k].end

IInv == SessionTypeOK /\ StreamInv /\ SetupInv /\ FetchInv /\ CleanInv

-----------------------------------------------------------------------------
\* What the peer sends.

Sent(kind, n, request) ==
    /\ Send(kind, n, request)
    /\ n \in Nat \ {0}
    /\ kind \in {"handshake", "unchoke", "piece", "notice"}
    /\ kind = "handshake" <=> msgs = <<>>
    /\ IF kind = "piece"
       THEN /\ answered < Len(asked) /\ answered' = answered + 1
            /\ request = answered' /\ n = HEADER + asked[request]
       ELSE request = 0 /\ answered' = answered

LEMMA Numbers ==
    ASSUME SessionTypeOK
    PROVE  /\ answered \in Nat /\ Len(asked) \in Nat /\ answered =< Len(asked)
           /\ \A q \in 1..Len(asked) : asked[q] \in Nat \ {0}
           /\ Len(msgs) \in Nat /\ sent \in Nat /\ rd \in Nat /\ rd =< sent
           /\ \A k \in 1..Len(msgs) : msgs[k].start \in Nat /\ msgs[k].end \in Nat
<1>1. /\ asked \in Seq(Lengths) /\ answered \in 0..Len(asked)
      /\ msgs \in Seq(Message) /\ sent \in Nat /\ rd \in 0..sent
  BY DEF SessionTypeOK, StreamTypeOK
<1>2. Len(asked) \in Nat /\ Len(msgs) \in Nat
  BY <1>1, LenProperties
<1>3. \A q \in 1..Len(asked) : asked[q] \in Lengths
  BY <1>1, ElementOfSeq
<1>4. \A k \in 1..Len(msgs) : msgs[k] \in Message
  BY <1>1, ElementOfSeq
<1>5. \A q \in 1..Len(asked) : asked[q] \in Nat \ {0}
  BY <1>3, FetchAssumption
<1>6. \A k \in 1..Len(msgs) : msgs[k].start \in Nat /\ msgs[k].end \in Nat
  BY <1>4 DEF Message
<1>7. answered \in Nat /\ answered =< Len(asked) /\ rd \in Nat /\ rd =< sent
  BY <1>1, <1>2
<1> QED BY <1>1, <1>2, <1>5, <1>6, <1>7

LEMMA PeerSends ==
    ASSUME SessionTypeOK, StreamInv, PeerStep
    PROVE  \/ Close /\ UNCHANGED choking
           \/ /\ \E kind, n, request : Sent(kind, n, request)
              /\ ~choking' => ~choking \/ msgs # <<>>
<1>1. CASE SendHandshake
  <2>1. Sent("handshake", HANDSHAKE, 0)
    BY <1>1, SessionAssumption DEF SendHandshake, Sent
  <2> QED BY <1>1, <2>1 DEF SendHandshake
<1>2. CASE Unchoke
  <2>1. Sent("unchoke", PREFIX + 1, 0)
    BY <1>2, FetchAssumption DEF Unchoke, Sent
  <2> QED BY <1>2, <2>1 DEF Unchoke
<1>3. CASE msgs # <<>> /\ SendNotice /\ UNCHANGED choking
  <2>1. PICK n \in NoticeLengths : Send("notice", n, 0)
    BY <1>3 DEF SendNotice
  <2>2. Sent("notice", n, 0)
    BY <1>3, <2>1, FetchAssumption DEF SendNotice, Sent
  <2> QED BY <1>3, <2>2
<1>4. CASE ~choking /\ SendPiece /\ UNCHANGED choking
  <2>1. asked[answered + 1] \in Nat \ {0} /\ answered + 1 \in Nat
    BY <1>4, Numbers DEF SendPiece
  <2>2. HEADER + asked[answered + 1] \in Nat \ {0}
    BY <2>1, FetchAssumption
  <2>3. Sent("piece", HEADER + asked[answered + 1], answered + 1)
    BY <1>4, <2>2, <2>1 DEF SendPiece, Sent, StreamInv
  <2> QED BY <1>4, <2>3
<1>5. CASE Close /\ UNCHANGED choking
  BY <1>5
<1> QED BY <1>1, <1>2, <1>3, <1>4, <1>5 DEF PeerStep

\* The messages after one more was sent.
LEMMA AfterSend ==
    ASSUME SessionTypeOK, NEW kind, NEW n, NEW request, Sent(kind, n, request)
    PROVE  /\ msgs' \in Seq(Message) /\ Len(msgs') = Len(msgs) + 1
           /\ \A k \in 1..Len(msgs) : msgs'[k] = msgs[k]
           /\ msgs'[Len(msgs) + 1] =
                [kind |-> kind, start |-> sent, end |-> sent + n, request |-> request]
           /\ sent' = sent + n /\ n \in Nat \ {0}
           /\ UNCHANGED <<open, asked, rd, pc, fetchVars, aligned, clean>>
<1> DEFINE m == [kind |-> kind, start |-> sent, end |-> sent + n, request |-> request]
<1>1. n \in Nat \ {0} /\ sent \in Nat /\ request \in Nat
  BY DEF Sent, SessionTypeOK, StreamTypeOK
<1>2. m \in Message
  BY <1>1 DEF Sent, Message
<1>3. msgs \in Seq(Message) /\ msgs' = Append(msgs, m)
  BY DEF Sent, Send, SessionTypeOK, StreamTypeOK
<1> HIDE DEF m
<1>4. /\ msgs' \in Seq(Message) /\ Len(msgs') = Len(msgs) + 1
      /\ \A k \in 1..Len(msgs) : msgs'[k] = msgs[k]
      /\ msgs'[Len(msgs) + 1] = m
  BY <1>2, <1>3, AppendProperties
<1> QED BY <1>1, <1>4 DEF Sent, Send, history, m

-----------------------------------------------------------------------------
\* Type correctness and the stream.

LEMMA TypeSent ==
    ASSUME SessionTypeOK, StreamInv, NEW kind, NEW n, NEW request,
           Sent(kind, n, request), choking' \in BOOLEAN
    PROVE  SessionTypeOK'
<1>1. /\ msgs' \in Seq(Message) /\ Len(msgs') = Len(msgs) + 1
      /\ sent' = sent + n /\ n \in Nat
      /\ UNCHANGED <<open, asked, rd, pc, fetchVars, aligned, clean>>
  BY AfterSend
<1>2. answered' \in 0..Len(asked')
  BY <1>1, LenProperties DEF Sent, SessionTypeOK, StreamTypeOK
<1>3. Len(msgs) \in Nat
  BY LenProperties DEF SessionTypeOK, StreamTypeOK
<1> QED BY <1>1, <1>2, <1>3 DEF SessionTypeOK, StreamTypeOK, fetchVars

LEMMA StreamSent ==
    ASSUME SessionTypeOK, StreamInv, NEW kind, NEW n, NEW request, Sent(kind, n, request),
           ~choking' => ~choking \/ msgs # <<>>
    PROVE  StreamInv'
<1> DEFINE L == Len(msgs)
<1>1. /\ Len(msgs') = L + 1 /\ \A k \in 1..L : msgs'[k] = msgs[k]
      /\ msgs'[L + 1] = [kind |-> kind, start |-> sent, end |-> sent + n, request |-> request]
      /\ sent' = sent + n /\ n \in Nat \ {0} /\ asked' = asked
  BY AfterSend
<1>2. L \in Nat /\ sent \in Nat /\ answered \in Nat
  BY LenProperties DEF SessionTypeOK, StreamTypeOK
<1>3. \A k \in 1..L : msgs[k].start \in Nat /\ msgs[k].end \in Nat
  BY Numbers
<1>4. IF kind = "piece"
      THEN answered' = answered + 1 /\ request = answered' /\ n = HEADER + asked[request]
      ELSE answered' = answered
  BY DEF Sent
<1>5. open
  BY DEF Sent, Send
<1>6. \A k \in 1..(L + 1) :
        /\ msgs'[k].start < msgs'[k].end
        /\ open' => msgs'[k].end =< sent'
        /\ msgs'[k].kind = "piece" =>
            /\ msgs'[k].request \in 1..answered'
            /\ msgs'[k].end = msgs'[k].start + HEADER + asked'[msgs'[k].request]
  <2> SUFFICES ASSUME NEW k \in 1..(L + 1)
               PROVE  /\ msgs'[k].start < msgs'[k].end
                      /\ open' => msgs'[k].end =< sent'
                      /\ msgs'[k].kind = "piece" =>
                          /\ msgs'[k].request \in 1..answered'
                          /\ msgs'[k].end = msgs'[k].start + HEADER + asked'[msgs'[k].request]
    OBVIOUS
  <2>1. CASE k \in 1..L
    <3>1. /\ msgs[k].start < msgs[k].end /\ msgs[k].end =< sent
          /\ msgs[k].kind = "piece" =>
              /\ msgs[k].request \in 1..answered
              /\ msgs[k].end = msgs[k].start + HEADER + asked[msgs[k].request]
      BY <2>1, <1>5 DEF StreamInv
    <3> QED BY <2>1, <3>1, <1>1, <1>2, <1>3, <1>4
  <2>2. CASE k = L + 1
    <3>1. kind = "piece" => HEADER \in Nat /\ asked[request] \in Nat
      BY Numbers, FetchAssumption DEF Sent
    <3>2. /\ msgs'[k].kind = kind /\ msgs'[k].start = sent
          /\ msgs'[k].end = sent + n /\ msgs'[k].request = request
      BY <2>2, <1>1
    <3>3. sent + n > sent /\ sent + n =< sent'
      BY <1>1, <1>2
    <3>4. kind = "piece" => request \in 1..answered' /\ sent + n = sent + HEADER + asked'[request]
      BY <3>1, <1>1, <1>2, <1>4
    <3> QED BY <3>2, <3>3, <3>4
  <2> QED BY <2>1, <2>2, <1>2
<1>7. \A j, k \in 1..(L + 1) : j < k =>
        /\ msgs'[j].end =< msgs'[k].start
        /\ msgs'[j].kind = "piece" /\ msgs'[k].kind = "piece" =>
            msgs'[j].request < msgs'[k].request
  <2> SUFFICES ASSUME NEW j \in 1..(L + 1), NEW k \in 1..(L + 1), j < k
               PROVE  /\ msgs'[j].end =< msgs'[k].start
                      /\ msgs'[j].kind = "piece" /\ msgs'[k].kind = "piece" =>
                          msgs'[j].request < msgs'[k].request
    OBVIOUS
  <2>1. j \in 1..L /\ msgs'[j] = msgs[j]
    BY <1>1, <1>2
  <2>2. CASE k \in 1..L
    <3>1. /\ msgs[j].end =< msgs[k].start
          /\ msgs[j].kind = "piece" /\ msgs[k].kind = "piece" =>
              msgs[j].request < msgs[k].request
      BY <2>1, <2>2 DEF StreamInv
    <3> QED BY <2>1, <2>2, <3>1, <1>1
  <2>3. CASE k = L + 1
    <3>1. msgs[j].end =< sent /\ (msgs[j].kind = "piece" => msgs[j].request \in 1..answered)
      BY <2>1, <1>5 DEF StreamInv
    <3> QED BY <2>1, <2>3, <3>1, <1>1, <1>2, <1>4
  <2> QED BY <2>2, <2>3, <1>2
<1>8. \A b \in Nat : b < sent' =>
        \E k \in 1..(L + 1) : msgs'[k].start =< b /\ b < msgs'[k].end
  <2> SUFFICES ASSUME NEW b \in Nat, b < sent'
               PROVE  \E k \in 1..(L + 1) : msgs'[k].start =< b /\ b < msgs'[k].end
    OBVIOUS
  <2>1. CASE b < sent
    <3>1. PICK k \in 1..L : msgs[k].start =< b /\ b < msgs[k].end
      BY <2>1 DEF StreamInv
    <3> QED BY <3>1, <1>1, <1>2
  <2>2. CASE sent =< b
    BY <2>2, <1>1, <1>2
  <2> QED BY <2>1, <2>2, <1>2
<1>9. msgs'[1].kind = "handshake" /\ msgs' # <<>>
  <2>1. CASE msgs = <<>>
    BY <2>1, <1>1 DEF Sent
  <2>2. CASE msgs # <<>>
    <3>1. 1 \in 1..L
      BY <2>2, <1>2, EmptySeq DEF SessionTypeOK, StreamTypeOK
    <3> QED BY <2>2, <3>1, <1>1 DEF StreamInv
  <2>3. Len(msgs') # 0
    BY <1>1, <1>2
  <2> QED BY <2>1, <2>2, <2>3
<1> QED BY <1>1, <1>6, <1>7, <1>8, <1>9 DEF StreamInv

\* The worker's steps leave the stream alone, a request is added at the end.
LEMMA StreamKept ==
    ASSUME SessionTypeOK, StreamInv, UNCHANGED <<peerVars, choking>>,
           asked' = asked \/ \E n \in Lengths : asked' = Append(asked, n)
    PROVE  StreamInv'
<1>1. \A q \in 1..answered : asked'[q] = asked[q]
  BY AppendProperties, LenProperties DEF SessionTypeOK, StreamTypeOK, peerVars
<1>2. UNCHANGED <<msgs, sent, answered, open, choking>>
  BY DEF peerVars
<1> QED BY <1>1, <1>2 DEF StreamInv

\* Every step of the worker leaves the stream as it is.
WorkerStep == AttemptPeerConnect \/ NoPeer \/ Request \/ Read

LEMMA WorkerKeepsStream ==
    ASSUME WorkerStep
    PROVE  /\ UNCHANGED peerVars
           /\ asked' = asked \/ \E n \in Lengths : asked' = Append(asked, n)
BY DEF WorkerStep, AttemptPeerConnect, NoPeer, Connect, Handshake, RecvGarbage,
       SendInterested, RecvUnchoke, Goto, Request, Read, FirstRead, NextRead, ReadAtEnd, ReadFails

LEMMA TypeRequest ==
    ASSUME SessionTypeOK, Request, UNCHANGED choking
    PROVE  SessionTypeOK'
<1>1. /\ asked' = asked \/ \E n \in Lengths : asked' = Append(asked, n)
      /\ pc' \in {"first", "panicked"}
  BY DEF Request
<1>2. asked' \in Seq(Lengths) /\ Len(asked') \in Nat /\ Len(asked) =< Len(asked')
  <2>1. asked \in Seq(Lengths) /\ Len(asked) \in Nat
    BY LenProperties DEF SessionTypeOK, StreamTypeOK
  <2>2. CASE asked' = asked
    BY <2>1, <2>2
  <2>3. CASE \E n \in Lengths : asked' = Append(asked, n)
    BY <2>1, <2>3, AppendProperties
  <2> QED BY <1>1, <2>2, <2>3
<1>3. answered' \in 0..Len(asked')
  BY <1>2, Numbers DEF Request, peerVars
<1> QED BY <1>1, <1>2, <1>3
       DEF Request, SessionTypeOK, StreamTypeOK, FetchStates, peerVars, fetchVars, history

LEMMA TypeSetup ==
    ASSUME SessionTypeOK, AttemptPeerConnect \/ NoPeer, UNCHANGED choking
    PROVE  SessionTypeOK'
<1>1. /\ UNCHANGED <<peerVars, asked, fetchVars>>
      /\ aligned' \in BOOLEAN /\ clean' \in BOOLEAN
      /\ pc' \in {"handshake", "refused", "garbage", "panicked", "interested", "unchoke", "idle"}
  BY DEF AttemptPeerConnect, NoPeer, Connect, Handshake, RecvGarbage, SendInterested,
         RecvUnchoke, Goto, InStep, SessionTypeOK, StreamTypeOK, history
<1>2. rd' \in 0..sent
  <2>1. rd' = rd \/ \E n \in 1..READ_BUF : rd' = rd + n /\ rd + n =< sent
    BY SessionAssumption, FetchAssumption
       DEF AttemptPeerConnect, NoPeer, Connect, Handshake, RecvGarbage, SendInterested,
           RecvUnchoke, Goto, Reads, ReadsNothing, Bytes
  <2> QED BY <2>1, Numbers, FetchAssumption
<1> QED BY <1>1, <1>2
       DEF SessionTypeOK, StreamTypeOK, FetchStates, SetupStates, peerVars, fetchVars

\* What a first read does: it ends the request, or goes on with a piece.
LEMMA FirstReads ==
    ASSUME SessionTypeOK, StreamInv, FirstRead
    PROVE  \E n \in 1..READ_BUF, k \in 0..Len(msgs) :
            /\ rd' = rd + n /\ rd + n =< sent /\ StartsAt(k)
            /\ UNCHANGED <<peerVars, asked, aligned, clean>>
            /\ \/ pc' \in {"err", "panicked"} /\ UNCHANGED fetchVars
               \/ /\ pc' = "more" /\ n >= HEADER
                  /\ reply' = k /\ total_bytes_read' = n
                  /\ from' = rd + HEADER /\ to' = rd + n
                  /\ total_msg_size' \in Nat
                  /\ k # 0 => /\ msgs[k].kind = "piece"
                             /\ total_msg_size' = msgs[k].end - msgs[k].start - PREFIX
<1>1. PICK n \in 1..READ_BUF, k \in 0..Len(msgs) :
        /\ Bytes(n) /\ StartsAt(k) /\ rd' = rd + n
        /\ IF k = 0
           THEN \/ Leave("err") \/ Leave("panicked")
                \/ \E size \in (HEADER - PREFIX)..(HEADER + READ_BUF) : ParsedPiece(k, n, size)
           ELSE IF msgs[k].kind # "piece" THEN ParsedNotice(k, n)
           ELSE IF n < HEADER THEN Leave("panicked")
           ELSE ParsedPiece(k, n, msgs[k].end - msgs[k].start - PREFIX)
  BY DEF FirstRead
<1>2. UNCHANGED <<peerVars, asked>> /\ rd + n =< sent
  BY <1>1 DEF FirstRead, Bytes
<1>3. CASE k = 0
  <2>1. CASE Leave("err") \/ Leave("panicked")
    BY <2>1, <1>1, <1>2, <1>3 DEF Leave, history
  <2>2. CASE \E size \in (HEADER - PREFIX)..(HEADER + READ_BUF) : ParsedPiece(k, n, size)
    <3>1. PICK size \in (HEADER - PREFIX)..(HEADER + READ_BUF) : ParsedPiece(k, n, size)
      BY <2>2
    <3>2. size \in Nat
      BY FetchAssumption
    <3> QED BY <3>1, <3>2, <1>1, <1>2, <1>3 DEF ParsedPiece, history
  <2> QED BY <2>1, <2>2, <1>1, <1>3
<1>4. CASE k # 0 /\ msgs[k].kind = "piece"
  <2>1. k \in 1..Len(msgs)
    BY <1>4, Numbers
  <2>2. msgs[k].end - msgs[k].start - PREFIX \in Nat
    <3>1. /\ msgs[k].request \in 1..answered
          /\ msgs[k].end = msgs[k].start + HEADER + asked[msgs[k].request]
      BY <1>4, <2>1 DEF StreamInv
    <3>2. asked[msgs[k].request] \in Nat /\ msgs[k].start \in Nat
      BY <3>1, <2>1, Numbers
    <3> QED BY <3>1, <3>2, FetchAssumption
  <2>3. CASE n < HEADER
    BY <2>3, <1>1, <1>2, <1>4 DEF Leave, history
  <2>4. CASE ~(n < HEADER)
    <3>1. ParsedPiece(k, n, msgs[k].end - msgs[k].start - PREFIX)
      BY <2>4, <1>1, <1>4
    <3> QED BY <3>1, <2>2, <1>1, <1>2, <1>4 DEF ParsedPiece, history
  <2> QED BY <2>3, <2>4
<1>5. CASE k # 0 /\ msgs[k].kind # "piece"
  BY <1>1, <1>2, <1>5 DEF ParsedNotice, Leave, history
<1> QED BY <1>3, <1>4, <1>5

LEMMA TypeRead ==
    ASSUME SessionTypeOK, StreamInv, Read, UNCHANGED choking
    PROVE  SessionTypeOK'
<1>1. CASE FirstRead
  <2>1. PICK n \in 1..READ_BUF, k \in 0..Len(msgs) :
            /\ rd' = rd + n /\ rd + n =< sent
            /\ UNCHANGED <<peerVars, asked, aligned, clean>>
            /\ \/ pc' \in {"err", "panicked"} /\ UNCHANGED fetchVars
               \/ /\ pc' = "more" /\ n >= HEADER
                  /\ reply' = k /\ total_bytes_read' = n
                  /\ from' = rd + HEADER /\ to' = rd + n
                  /\ total_msg_size' \in Nat
    BY <1>1, FirstReads
  <2>2. rd' \in 0..sent /\ rd + HEADER \in Nat /\ rd + n \in Nat /\ n \in Nat
    BY <2>1, Numbers, FetchAssumption
  <2>3. pc' \in FetchStates
    BY <2>1 DEF FetchStates
  <2>4. /\ reply' \in 0..Len(msgs) /\ total_msg_size' \in Nat /\ total_bytes_read' \in Nat
        /\ from' \in Nat /\ to' \in Nat
    BY <2>1, <2>2 DEF SessionTypeOK, StreamTypeOK, fetchVars
  <2> QED BY <2>1, <2>2, <2>3, <2>4 DEF SessionTypeOK, StreamTypeOK, peerVars
<1>2. CASE NextRead
  <2>1. PICK n \in 1..READ_BUF : /\ Bytes(n) /\ rd' = rd + n /\ to' = to + n
                                /\ total_bytes_read' = total_bytes_read + n
    BY <1>2 DEF NextRead
  <2>2. rd' \in 0..sent /\ n \in Nat
    BY <2>1, Numbers, FetchAssumption DEF Bytes
  <2>3. to' \in Nat /\ total_bytes_read' \in Nat
    BY <2>1, <2>2 DEF SessionTypeOK, StreamTypeOK
  <2>4. pc' \in {"more", "ok"} /\ aligned' \in BOOLEAN /\ clean' \in BOOLEAN
    BY <1>2 DEF NextRead, Return, SessionTypeOK, StreamTypeOK, history
  <2> QED BY <1>2, <2>2, <2>3, <2>4
         DEF NextRead, SessionTypeOK, StreamTypeOK, FetchStates, peerVars
<1>3. CASE ReadAtEnd \/ ReadFails
  BY <1>3 DEF ReadAtEnd, ReadFails, Leave, Return, SessionTypeOK, StreamTypeOK, FetchStates,
              peerVars, fetchVars, history
<1> QED BY <1>1, <1>2, <1>3 DEF Read

-----------------------------------------------------------------------------
\* The set-up.

LEMMA SetupWorker ==
    ASSUME SessionTypeOK, SetupInv, WorkerStep
    PROVE  SetupInv'
<1> USE SessionAssumption, Numbers
<1>1. CASE Connect
  BY <1>1 DEF Connect, Goto, SetupInv, SetupStates
<1>2. CASE Handshake
  BY <1>2 DEF Handshake, Reads, ReadsNothing, Goto, SetupInv, SetupStates
<1>3. CASE NoPeer
  BY <1>3 DEF NoPeer, Goto, SetupInv, SetupStates
<1>4. CASE RecvGarbage
  BY <1>4 DEF RecvGarbage, Reads, ReadsNothing, Goto, SetupInv, SetupStates
<1>5. CASE SendInterested
  BY <1>5 DEF SendInterested, Goto, SetupInv, SetupStates
<1>6. CASE RecvUnchoke
  BY <1>6 DEF RecvUnchoke, Reads, ReadsNothing, Goto, SetupInv, SetupStates
<1>7. CASE Request
  BY <1>7 DEF Request, SetupInv, SetupStates
<1>8. CASE Read
  <2>1. /\ pc \in {"first", "more"} /\ asked' = asked
        /\ pc' \in {"more", "ok", "err", "panicked", "spinning"}
    BY <1>8 DEF Read, FirstRead, NextRead, ReadAtEnd, ReadFails, Leave, Return, ParsedPiece,
                ParsedNotice
  <2>2. rd' = rd \/ \E n \in 1..READ_BUF : rd' = rd + n
    BY <1>8 DEF Read, FirstRead, NextRead, ReadAtEnd, ReadFails
  <2>3. rd' >= rd /\ rd' \in Nat
    BY <2>2, FetchAssumption
  <2> QED BY <2>1, <2>3 DEF SetupInv, SetupStates
<1> QED BY <1>1, <1>2, <1>3, <1>4, <1>5, <1>6, <1>7, <1>8 DEF WorkerStep, AttemptPeerConnect

-----------------------------------------------------------------------------
\* The byte counts.

LEMMA FetchRequest ==
    ASSUME SessionTypeOK, Request
    PROVE  FetchInv'
<1>1. \/ pc' = "first" /\ \E n \in Lengths : asked' = Append(asked, n)
      \/ pc' = "panicked"
  BY DEF Request
<1>2. \A n \in Lengths : Append(asked, n) # <<>>
  BY AppendProperties, LenProperties, EmptySeq DEF SessionTypeOK, StreamTypeOK
<1> QED BY <1>1, <1>2 DEF FetchInv, MissesAtMostPrefix, SpinsOnlyMidMessage

LEMMA FetchFirstRead ==
    ASSUME SessionTypeOK, StreamInv, FetchInv, FirstRead
    PROVE  FetchInv'
<1>1. PICK n \in 1..READ_BUF, k \in 0..Len(msgs) :
            /\ rd' = rd + n /\ StartsAt(k)
            /\ UNCHANGED <<peerVars, asked>>
            /\ \/ pc' \in {"err", "panicked"}
               \/ /\ pc' = "more"
                  /\ reply' = k /\ total_bytes_read' = n
                  /\ from' = rd + HEADER /\ to' = rd + n
                  /\ k # 0 => /\ msgs[k].kind = "piece"
                             /\ total_msg_size' = msgs[k].end - msgs[k].start - PREFIX
  BY FirstReads
<1>2. CASE pc' \in {"err", "panicked"}
  BY <1>2 DEF FetchInv, MissesAtMostPrefix, SpinsOnlyMidMessage
<1>3. CASE pc' = "more"
  <2>1. asked # <<>> /\ asked' = asked /\ msgs' = msgs
    BY <1>1 DEF FirstRead, FetchInv, peerVars
  <2>2. to' = rd' /\ total_bytes_read' = to' - from' + HEADER
    BY <1>1, <1>3, Numbers, FetchAssumption
  <2>3. k # 0 => msgs[k].start = rd
    BY <1>1 DEF StartsAt
  <2>4. reply' = k /\ from' = rd + HEADER
    BY <1>1, <1>3
  <2>5. k # 0 => /\ msgs[k].kind = "piece"
                 /\ total_msg_size' = msgs[k].end - msgs[k].start - PREFIX
    BY <1>1, <1>3
  <2> QED BY <1>3, <2>1, <2>2, <2>3, <2>4, <2>5
         DEF FetchInv, MissesAtMostPrefix, SpinsOnlyMidMessage
<1> QED BY <1>1, <1>2, <1>3

\* What the test of the loop means: at most the bytes of a prefix are missing.
LEMMA Counting ==
    ASSUME NEW start \in Nat, NEW end \in Nat, NEW size \in Nat,
           NEW f \in Nat, NEW t \in Nat, NEW bytes \in Int,
           f = start + HEADER, size = end - start - PREFIX, bytes = t - f + HEADER
    PROVE  size - bytes =< 0 <=> t >= end - PREFIX
BY FetchAssumption

\* The loop ends with as many bytes as the message has, but for the prefix, or
\* goes on with fewer.
LEMMA FetchLaterRead ==
    ASSUME SessionTypeOK, FetchInv, CleanInv, NextRead \/ ReadAtEnd \/ ReadFails
    PROVE  FetchInv'
<1>1. asked' = asked /\ msgs' = msgs /\ reply' = reply /\ from' = from
      /\ total_msg_size' = total_msg_size /\ open' = open
  BY DEF NextRead, ReadAtEnd, ReadFails, Leave, Return, peerVars, fetchVars
<1>2. CASE pc' \in {"err", "panicked"}
  BY <1>2 DEF FetchInv, MissesAtMostPrefix, SpinsOnlyMidMessage
<1>3. CASE pc = "more" /\ pc' \in {"more", "ok", "spinning"}
  <2>1. to' = rd' /\ total_bytes_read' = to' - from + HEADER
    <3>1. /\ to = rd /\ total_bytes_read = to - from + HEADER
          /\ to \in Nat /\ from \in Nat /\ total_bytes_read \in Nat
      BY <1>3 DEF FetchInv, SessionTypeOK, StreamTypeOK
    <3>2. CASE NextRead
      BY <3>1, <3>2, FetchAssumption DEF NextRead
    <3>3. CASE ReadAtEnd \/ ReadFails
      BY <3>1, <3>3 DEF ReadAtEnd, ReadFails, Leave, fetchVars
    <3> QED BY <3>2, <3>3
  <2>2. reply # 0 => /\ msgs[reply].kind = "piece" /\ from = msgs[reply].start + HEADER
                     /\ total_msg_size = msgs[reply].end - msgs[reply].start - PREFIX
    BY <1>3 DEF FetchInv
  <2>3. asked # <<>>
    BY <1>3 DEF FetchInv
  <2>4. reply # 0 => msgs[reply].start \in Nat /\ msgs[reply].end \in Nat
    BY Numbers DEF SessionTypeOK, StreamTypeOK
  <2>5. to' \in Nat /\ from \in Nat /\ total_msg_size \in Nat /\ total_bytes_read' \in Int
    <3>1. to \in Nat /\ from \in Nat /\ total_msg_size \in Nat
      BY DEF SessionTypeOK, StreamTypeOK
    <3>2. to' \in Nat
      BY <3>1, FetchAssumption DEF NextRead, ReadAtEnd, ReadFails, Leave, fetchVars
    <3> QED BY <3>1, <3>2, <2>1, FetchAssumption
  <2>6. reply # 0 => (total_msg_size - total_bytes_read' =< 0 <=> to' >= msgs[reply].end - PREFIX)
    <3> SUFFICES ASSUME reply # 0
                 PROVE  (total_msg_size - total_bytes_read' =< 0 <=> to' >= msgs[reply].end - PREFIX)
      OBVIOUS
    <3> DEFINE start == msgs[reply].start
               end == msgs[reply].end
               t == to'
               bytes == total_bytes_read'
    <3>1. /\ from = start + HEADER /\ total_msg_size = end - start - PREFIX
          /\ bytes = t - from + HEADER
      BY <2>1, <2>2
    <3>2. /\ start \in Nat /\ end \in Nat /\ t \in Nat /\ bytes \in Int
          /\ from \in Nat /\ total_msg_size \in Nat
      BY <2>4, <2>5
    <3> HIDE DEF start, end, t, bytes
    <3>3. total_msg_size - bytes =< 0 <=> t >= end - PREFIX
      BY <3>1, <3>2, Counting
    <3> QED BY <3>3 DEF start, end, t, bytes
  <2>7. CASE pc' = "more"
    BY <2>7, <1>1, <2>1, <2>2, <2>3 DEF FetchInv, MissesAtMostPrefix, SpinsOnlyMidMessage
  <2>8. CASE pc' = "ok"
    <3>1. total_msg_size - total_bytes_read' =< 0
      BY <2>8, <1>3 DEF NextRead, ReadAtEnd, ReadFails, Leave, Return, fetchVars
    <3>2. reply # 0 => to' >= msgs[reply].end - PREFIX
      BY <3>1, <2>6
    <3> QED BY <2>8, <3>2, <1>1, <2>3 DEF FetchInv, MissesAtMostPrefix, SpinsOnlyMidMessage
  <2>9. CASE pc' = "spinning"
    <3>1. ReadAtEnd
      BY <2>9, <1>3 DEF NextRead, ReadFails, Leave, Return
    <3>2. ~open /\ rd' = sent' /\ UNCHANGED <<aligned, clean>>
      BY <2>9, <3>1 DEF ReadAtEnd, Return, peerVars, history
    <3>3. ~(total_msg_size - total_bytes_read' =< 0)
      BY <2>9, <1>3, <2>5, <3>1 DEF ReadAtEnd, Return, fetchVars
    <3>4. reply # 0 => ~(to' >= msgs[reply].end - PREFIX)
      BY <3>3, <2>6
    <3>5. aligned /\ clean => reply # 0
      BY <1>3 DEF CleanInv
    <3>6. reply # 0 => to' < msgs[reply].end - PREFIX
      BY <3>4, <2>4, <2>5, FetchAssumption
    <3> QED BY <2>9, <3>2, <3>5, <3>6, <1>1 DEF FetchInv, MissesAtMostPrefix, SpinsOnlyMidMessage
  <2> QED BY <1>3, <2>7, <2>8, <2>9
<1> QED BY <1>2, <1>3 DEF NextRead, ReadAtEnd, ReadFails, Leave, Return

LEMMA FetchWorker ==
    ASSUME SessionTypeOK, StreamInv, FetchInv, CleanInv, WorkerStep
    PROVE  FetchInv'
<1>1. CASE AttemptPeerConnect \/ NoPeer
  <2>1. pc' \in {"handshake", "refused", "garbage", "panicked", "interested", "unchoke", "idle"}
    BY <1>1 DEF AttemptPeerConnect, NoPeer, Connect, Handshake, RecvGarbage, SendInterested,
                RecvUnchoke, Goto
  <2> QED BY <2>1 DEF FetchInv, MissesAtMostPrefix, SpinsOnlyMidMessage
<1>2. CASE Request
  BY <1>2, FetchRequest
<1>3. CASE FirstRead
  BY <1>3, FetchFirstRead
<1>4. CASE NextRead \/ ReadAtEnd \/ ReadFails
  BY <1>4, FetchLaterRead
<1> QED BY <1>1, <1>2, <1>3, <1>4 DEF WorkerStep, Read

LEMMA FetchSent ==
    ASSUME SessionTypeOK, FetchInv, NEW kind, NEW n, NEW request, Sent(kind, n, request)
    PROVE  FetchInv'
<1>1. reply # 0 => msgs'[reply] = msgs[reply]
  <2>1. reply \in 0..Len(msgs) /\ Len(msgs) \in Nat
    BY Numbers DEF SessionTypeOK, StreamTypeOK
  <2>2. \A k \in 1..Len(msgs) : msgs'[k] = msgs[k]
    BY AfterSend
  <2> QED BY <2>1, <2>2
<1>2. open /\ UNCHANGED <<open, asked, rd, pc, fetchVars>>
  BY AfterSend DEF Sent, Send
<1> QED BY <1>1, <1>2 DEF FetchInv, MissesAtMostPrefix, SpinsOnlyMidMessage, fetchVars

-----------------------------------------------------------------------------
\* The stream in step.

\* What InStep says of the messages by number.
LEMMA InStepByNumber ==
    ASSUME SessionTypeOK, NEW pos
    PROVE  InStep(pos) <=>
            \A k \in 1..Len(msgs) : ~(msgs[k].start < pos /\ pos < msgs[k].end)
<1>1. DOMAIN msgs = 1..Len(msgs)
  BY LenProperties DEF SessionTypeOK, StreamTypeOK
<1> QED BY <1>1 DEF InStep, Range

\* A stream in step with a byte to read has a message that starts there.
LEMMA MessageAtHand ==
    ASSUME SessionTypeOK, StreamInv, InStep(rd), rd < sent
    PROVE  ~StartsAt(0)
<1>1. PICK k \in 1..Len(msgs) : msgs[k].start =< rd /\ rd < msgs[k].end
  BY Numbers DEF StreamInv
<1>2. msgs[k].start = rd
  BY <1>1, InStepByNumber, Numbers
<1>3. msgs[k] \in Range(msgs)
  BY LenProperties DEF Range, SessionTypeOK, StreamTypeOK
<1> QED BY <1>2, <1>3 DEF StartsAt

LEMMA CleanSent ==
    ASSUME SessionTypeOK, StreamInv, CleanInv, FetchInv,
           NEW kind, NEW n, NEW request, Sent(kind, n, request), SessionTypeOK'
    PROVE  CleanInv'
<1> DEFINE L == Len(msgs)
<1>1. /\ Len(msgs') = L + 1 /\ \A k \in 1..L : msgs'[k] = msgs[k]
      /\ msgs'[L + 1] = [kind |-> kind, start |-> sent, end |-> sent + n, request |-> request]
  BY AfterSend
<1>2. UNCHANGED <<asked, rd, pc, fetchVars, aligned, clean>>
  BY AfterSend
<1>3. L \in Nat /\ sent \in Nat /\ rd \in Nat /\ rd =< sent
  BY Numbers
<1> SUFFICES ASSUME aligned, clean
             PROVE  CleanInv'
  BY <1>2 DEF CleanInv
<1>4. pc \in {"idle", "first"} => InStep(rd)'
  <2> SUFFICES ASSUME pc \in {"idle", "first"}, NEW k \in 1..Len(msgs')
               PROVE  ~(msgs'[k].start < rd /\ rd < msgs'[k].end)
    <3>1. InStep(rd)' <=>
            \A k \in 1..Len(msgs') : ~(msgs'[k].start < rd' /\ rd' < msgs'[k].end)
      <4>1. DOMAIN msgs' = 1..Len(msgs')
        BY LenProperties DEF SessionTypeOK, StreamTypeOK
      <4> QED BY <4>1 DEF InStep, Range
    <3> QED BY <3>1, <1>2
  <2>1. CASE k \in 1..L
    BY <2>1, <1>1, InStepByNumber DEF CleanInv
  <2>2. CASE k = L + 1
    BY <2>2, <1>1, <1>3
  <2> QED BY <2>1, <2>2, <1>1, <1>3
<1>5. pc = "first" =>
        /\ answered' >= Len(asked) - 1
        /\ \A k \in 1..Len(msgs') :
            msgs'[k].kind = "piece" /\ msgs'[k].start >= rd => msgs'[k].request = Len(asked)
  <2> SUFFICES ASSUME pc = "first"
               PROVE  /\ answered' >= Len(asked) - 1
                      /\ \A k \in 1..Len(msgs') :
                          msgs'[k].kind = "piece" /\ msgs'[k].start >= rd =>
                            msgs'[k].request = Len(asked)
    OBVIOUS
  <2>1. /\ answered >= Len(asked) - 1
        /\ \A k \in 1..L :
            msgs[k].kind = "piece" /\ msgs[k].start >= rd => msgs[k].request = Len(asked)
    BY DEF CleanInv
  <2>2. answered \in Nat /\ Len(asked) \in Nat
    BY Numbers
  <2>3. answered' >= Len(asked) - 1
    BY <2>1, <2>2 DEF Sent
  <2>4. kind = "piece" => request = Len(asked)
    BY <2>1, <2>2 DEF Sent
  <2> QED BY <2>1, <2>3, <2>4, <1>1, <1>3
<1>6. pc = "more" => reply' # 0 /\ msgs'[reply'].request = Len(asked)
  <2>1. reply \in 0..L /\ reply' = reply
    BY <1>2 DEF SessionTypeOK, StreamTypeOK, fetchVars
  <2> QED BY <2>1, <1>1, <1>3 DEF CleanInv
<1>7. pc = "ok" => \E k \in 1..Len(msgs') : IsAnswer(msgs[k])' /\ rd = msgs'[k].end
  <2> SUFFICES ASSUME pc = "ok"
               PROVE  \E k \in 1..Len(msgs') : IsAnswer(msgs[k])' /\ rd = msgs'[k].end
    OBVIOUS
  <2>1. PICK k \in 1..L : IsAnswer(msgs[k]) /\ rd = msgs[k].end
    BY DEF CleanInv
  <2>2. k \in 1..Len(msgs') /\ msgs'[k] = msgs[k]
    BY <1>1, <1>3
  <2>3. IsAnswer(msgs[k])'
    BY <1>2, <2>1, <2>2 DEF IsAnswer, fetchVars
  <2> QED BY <2>1, <2>2, <2>3
<1> QED BY <1>2, <1>4, <1>5, <1>6, <1>7 DEF CleanInv

\* After a block of the right length nothing but answers to later requests
\* follows in the stream.
LEMMA CleanRequest ==
    ASSUME SessionTypeOK, StreamInv, SetupInv, CleanInv, Request, aligned, clean
    PROVE  CleanInv'
<1>1. CASE pc' = "panicked"
  BY <1>1 DEF CleanInv
<1>2. CASE pc' = "first"
  <2>1. PICK n \in Lengths : asked' = Append(asked, n)
    BY <1>2 DEF Request
  <2>2. Len(asked') = Len(asked) + 1 /\ Len(asked) \in Nat
    BY <2>1, AppendProperties, Numbers DEF SessionTypeOK, StreamTypeOK
  <2>3. UNCHANGED <<msgs, sent, answered, rd, aligned, clean>> /\ pc \in {"idle", "ok"}
    BY DEF Request, peerVars, history
  <2>4. /\ \A j \in 1..Len(msgs) : ~(msgs[j].start < rd /\ rd < msgs[j].end)
        /\ answered >= Len(asked)
        /\ \A j \in 1..Len(msgs) : ~(msgs[j].kind = "piece" /\ msgs[j].start >= rd)
    <3>1. CASE pc = "idle"
      <4>1. asked = <<>>
        BY <3>1 DEF SetupInv
      <4>2. Len(asked) = 0 /\ answered = 0
        BY <4>1, Numbers
      <4>3. \A j \in 1..Len(msgs) : msgs[j].kind # "piece"
        BY <4>2 DEF StreamInv
      <4> QED BY <3>1, <4>2, <4>3, InStepByNumber DEF CleanInv
    <3>2. CASE pc = "ok"
      <4>1. PICK k \in 1..Len(msgs) : IsAnswer(msgs[k]) /\ rd = msgs[k].end
        BY <3>2 DEF CleanInv
      <4>2. /\ msgs[k].kind = "piece" /\ msgs[k].request = Len(asked)
            /\ msgs[k].request \in 1..answered /\ msgs[k].start < rd
        BY <4>1 DEF IsAnswer, StreamInv
      <4>3. answered = Len(asked)
        BY <4>2, Numbers
      <4>4. ASSUME NEW j \in 1..Len(msgs)
            PROVE  /\ ~(msgs[j].start < rd /\ rd < msgs[j].end)
                   /\ ~(msgs[j].kind = "piece" /\ msgs[j].start >= rd)
        <5>1. CASE j < k
          <6>1. msgs[j].end =< msgs[k].start /\ msgs[j].start < msgs[j].end
            BY <5>1 DEF StreamInv
          <6> QED BY <6>1, <4>2, Numbers
        <5>2. CASE j = k
          BY <5>2, <4>1, <4>2, Numbers
        <5>3. CASE k < j
          <6>1. msgs[k].end =< msgs[j].start
            BY <5>3 DEF StreamInv
          <6>2. msgs[j].kind = "piece" =>
                    msgs[k].request < msgs[j].request /\ msgs[j].request \in 1..answered
            BY <5>3, <4>2 DEF StreamInv
          <6> QED BY <6>1, <6>2, <4>1, <4>2, <4>3, Numbers
        <5> QED BY <5>1, <5>2, <5>3, Numbers
      <4> QED BY <4>3, <4>4, Numbers
    <3> QED BY <2>3, <3>1, <3>2
  <2>5. InStep(rd)'
    <3>1. InStep(rd)
      BY <2>4, InStepByNumber
    <3> QED BY <3>1, <2>3 DEF InStep
  <2> QED BY <1>2, <2>2, <2>3, <2>4, <2>5, Numbers DEF CleanInv
<1> QED BY <1>1, <1>2 DEF Request

\* In step, the read that starts a block starts with its answer.
LEMMA CleanFirstRead ==
    ASSUME SessionTypeOK, StreamInv, CleanInv, FirstRead, aligned, clean
    PROVE  CleanInv'
<1>1. PICK n \in 1..READ_BUF, k \in 0..Len(msgs) :
            /\ rd + n =< sent /\ StartsAt(k)
            /\ UNCHANGED <<peerVars, asked, aligned, clean>>
            /\ \/ pc' \in {"err", "panicked"}
               \/ pc' = "more" /\ reply' = k /\ (k # 0 => msgs[k].kind = "piece")
  BY FirstReads
<1>2. CASE pc' = "more"
  <2>1. pc = "first" /\ msgs' = msgs /\ asked' = asked
    BY <1>1 DEF FirstRead, peerVars
  <2>2. rd < sent
    BY <1>1, Numbers, FetchAssumption
  <2>3. InStep(rd)
    BY <2>1 DEF CleanInv
  <2>4. k # 0
    BY <2>2, <2>3, <1>1, MessageAtHand
  <2>5. k \in 1..Len(msgs) /\ msgs[k].start = rd /\ msgs[k].kind = "piece" /\ reply' = k
    BY <2>4, <1>1, <1>2, Numbers DEF StartsAt
  <2>6. msgs[k].request = Len(asked)
    BY <2>1, <2>5, Numbers DEF CleanInv
  <2> QED BY <1>2, <2>1, <2>4, <2>5, <2>6 DEF CleanInv
<1>3. CASE pc' \in {"err", "panicked"}
  BY <1>3 DEF CleanInv
<1> QED BY <1>1, <1>2, <1>3

\* A block that starts where its answer does and has its length is its answer.
LEMMA CleanLaterRead ==
    ASSUME SessionTypeOK, StreamInv, FetchInv, CleanInv, FetchInv',
           NextRead \/ ReadAtEnd \/ ReadFails
    PROVE  CleanInv'
<1>1. asked' = asked /\ msgs' = msgs /\ reply' = reply /\ from' = from
  BY DEF NextRead, ReadAtEnd, ReadFails, Leave, Return, peerVars, fetchVars
<1>2. CASE pc' \in {"err", "panicked", "spinning"}
  BY <1>2 DEF CleanInv
<1>3. CASE pc = "more" /\ pc' = "more"
  <2>1. UNCHANGED <<aligned, clean>>
    BY <1>3 DEF NextRead, ReadAtEnd, ReadFails, Leave, Return, history
  <2> QED BY <1>1, <1>3, <2>1 DEF CleanInv
<1>4. CASE pc = "more" /\ pc' = "ok"
  <2> SUFFICES ASSUME aligned', clean'
               PROVE  \E k \in 1..Len(msgs) : IsAnswer(msgs[k])' /\ rd' = msgs[k].end
    BY <1>1, <1>4 DEF CleanInv
  <2>1. aligned /\ clean /\ to' - from = asked[Len(asked)]
    BY <1>4 DEF NextRead, ReadAtEnd, ReadFails, Leave, Return, fetchVars
  <2>2. /\ reply \in 1..Len(msgs) /\ msgs[reply].request = Len(asked)
        /\ msgs[reply].kind = "piece" /\ from = msgs[reply].start + HEADER
    BY <2>1, <1>4, Numbers DEF CleanInv, FetchInv, SessionTypeOK, StreamTypeOK
  <2>3. /\ msgs[reply].request \in 1..answered
        /\ msgs[reply].end = msgs[reply].start + HEADER + asked[msgs[reply].request]
    BY <2>2 DEF StreamInv
  <2>4. asked[Len(asked)] \in Nat /\ msgs[reply].start \in Nat
    BY <2>2, <2>3, Numbers
  <2>5. to' \in Nat /\ from \in Nat
    <3>1. to \in Nat /\ from \in Nat
      BY DEF SessionTypeOK, StreamTypeOK
    <3>2. to' = to \/ \E n \in 1..READ_BUF : to' = to + n
      BY DEF NextRead, ReadAtEnd, ReadFails, Leave, fetchVars
    <3> QED BY <3>1, <3>2, FetchAssumption
  <2>6. to' = msgs[reply].end
    BY <2>1, <2>2, <2>3, <2>4, <2>5, FetchAssumption
  <2>7. rd' = to'
    <3>1. to = rd
      BY <1>4 DEF FetchInv
    <3> QED BY <3>1, <1>4 DEF NextRead, ReadAtEnd, ReadFails, Leave, fetchVars
  <2> QED BY <1>1, <2>2, <2>6, <2>7 DEF IsAnswer
<1> QED BY <1>2, <1>3, <1>4 DEF NextRead, ReadAtEnd, ReadFails, Leave, Return

LEMMA CleanWorker ==
    ASSUME SessionTypeOK, StreamInv, SetupInv, FetchInv, CleanInv, FetchInv', WorkerStep
    PROVE  CleanInv'
<1>1. CASE AttemptPeerConnect \/ NoPeer
  <2>1. CASE pc' # "idle"
    <3>1. pc' \in {"handshake", "refused", "garbage", "panicked", "interested", "unchoke"}
      BY <1>1, <2>1 DEF AttemptPeerConnect, NoPeer, Connect, Handshake, RecvGarbage,
                        SendInterested, RecvUnchoke, Goto
    <3> QED BY <3>1 DEF CleanInv
  <2>2. CASE pc' = "idle"
    <3>1. aligned' = InStep(rd') /\ msgs' = msgs
      BY <1>1, <2>2 DEF AttemptPeerConnect, NoPeer, Connect, Handshake, RecvGarbage,
                        SendInterested, RecvUnchoke, Goto, peerVars
    <3> QED BY <2>2, <3>1 DEF CleanInv, InStep
  <2> QED BY <2>1, <2>2
<1>2. CASE Request
  <2>1. CASE ~(aligned /\ clean)
    BY <1>2, <2>1 DEF Request, CleanInv, history
  <2> QED BY <1>2, <2>1, CleanRequest
<1>3. CASE FirstRead
  <2>1. CASE ~(aligned /\ clean)
    <3>1. UNCHANGED <<aligned, clean>>
      BY <1>3, FirstReads
    <3> QED BY <2>1, <3>1 DEF CleanInv
  <2> QED BY <1>3, <2>1, CleanFirstRead
<1>4. CASE NextRead \/ ReadAtEnd \/ ReadFails
  BY <1>4, CleanLaterRead
<1> QED BY <1>1, <1>2, <1>3, <1>4 DEF WorkerStep, Read

-----------------------------------------------------------------------------
\* The inductive invariant.

LEMMA InitInv == SessionInit => IInv
<1> SUFFICES ASSUME SessionInit
             PROVE  IInv
  OBVIOUS
<1>1. /\ msgs = <<>> /\ asked = <<>> /\ pc = "connect" /\ rd = 0 /\ sent = 0 /\ answered = 0
      /\ reply = 0 /\ from = 0 /\ to = 0 /\ total_msg_size = 0 /\ total_bytes_read = 0
      /\ open = TRUE /\ aligned = TRUE /\ clean = TRUE /\ choking = TRUE
  BY DEF SessionInit, StartsIn
<1>2. Len(msgs) = 0 /\ Len(asked) = 0 /\ msgs \in Seq(Message) /\ asked \in Seq(Lengths)
  BY <1>1
<1>3. SessionTypeOK
  BY <1>1, <1>2 DEF SessionTypeOK, StreamTypeOK, SetupStates
<1>4. StreamInv
  BY <1>1, <1>2 DEF StreamInv
<1>5. SetupInv /\ FetchInv /\ CleanInv
  BY <1>1 DEF SetupInv, FetchInv, CleanInv, MissesAtMostPrefix, SpinsOnlyMidMessage
<1> QED BY <1>3, <1>4, <1>5 DEF IInv

LEMMA WorkerKeepsInv ==
    ASSUME IInv, WorkerStep, UNCHANGED choking
    PROVE  IInv'
<1>1. SessionTypeOK /\ StreamInv /\ SetupInv /\ FetchInv /\ CleanInv
  BY DEF IInv
<1>2. SessionTypeOK'
  BY <1>1, TypeRequest, TypeSetup, TypeRead DEF WorkerStep
<1>3. StreamInv'
  BY <1>1, WorkerKeepsStream, StreamKept
<1>4. SetupInv'
  BY <1>1, SetupWorker
<1>5. FetchInv'
  BY <1>1, FetchWorker
<1>6. CleanInv'
  BY <1>1, <1>5, CleanWorker
<1> QED BY <1>2, <1>3, <1>4, <1>5, <1>6 DEF IInv

LEMMA PeerKeepsInv ==
    ASSUME IInv, PeerStep
    PROVE  IInv'
<1>1. SessionTypeOK /\ StreamInv /\ SetupInv /\ FetchInv /\ CleanInv
  BY DEF IInv
<1>2. choking' \in BOOLEAN
  BY <1>1 DEF PeerStep, SendHandshake, Unchoke, SessionTypeOK
<1>3. CASE Close /\ UNCHANGED choking
  <2>1. /\ UNCHANGED <<msgs, answered, asked, rd, pc, fetchVars, aligned, clean, choking>>
        /\ open /\ open' = FALSE /\ sent' \in rd..sent
    BY <1>3 DEF Close, history
  <2>2. sent' \in Nat /\ rd \in 0..sent' /\ sent' =< sent
    BY <1>1, <2>1, Numbers
  <2>3. SessionTypeOK'
    BY <1>1, <2>1, <2>2 DEF SessionTypeOK, StreamTypeOK, fetchVars
  <2>4. \A b \in Nat : b < sent' =>
          \E k \in 1..Len(msgs) : msgs[k].start =< b /\ b < msgs[k].end
    <3>1. \A b \in Nat : b < sent' => b < sent
      BY <1>1, <2>2, Numbers
    <3> QED BY <1>1, <3>1 DEF StreamInv
  <2>5. StreamInv' /\ SetupInv'
    BY <1>1, <2>1, <2>4 DEF StreamInv, SetupInv
  <2>6. FetchInv'
    BY <1>1, <2>1 DEF FetchInv, MissesAtMostPrefix, SpinsOnlyMidMessage, fetchVars
  <2>7. CleanInv'
    BY <1>1, <2>1 DEF CleanInv, InStep, IsAnswer, fetchVars
  <2> QED BY <2>3, <2>5, <2>6, <2>7 DEF IInv
<1>4. ASSUME NEW kind, NEW n, NEW request, Sent(kind, n, request),
             ~choking' => ~choking \/ msgs # <<>>
      PROVE  IInv'
  <2>1. SessionTypeOK'
    BY <1>1, <1>2, <1>4, TypeSent
  <2>2. StreamInv'
    BY <1>1, <1>4, StreamSent
  <2>3. UNCHANGED <<pc, rd, asked>>
    BY <1>1, <1>4, AfterSend
  <2>4. SetupInv'
    BY <1>1, <2>3 DEF SetupInv
  <2>5. FetchInv'
    BY <1>1, <1>4, FetchSent
  <2>6. CleanInv'
    BY <1>1, <1>4, <2>1, CleanSent
  <2> QED BY <2>1, <2>2, <2>4, <2>5, <2>6 DEF IInv
<1> QED BY <1>1, <1>3, <1>4, PeerSends

LEMMA NextInv == IInv /\ [SessionNext]_sessionVars => IInv'
<1> SUFFICES ASSUME IInv, [SessionNext]_sessionVars
             PROVE  IInv'
  OBVIOUS
<1>1. CASE PeerStep
  BY <1>1, PeerKeepsInv
<1>2. CASE WorkerStep /\ UNCHANGED choking
  BY <1>2, WorkerKeepsInv
<1>3. CASE UNCHANGED sessionVars
  <2>1. UNCHANGED <<msgs, sent, answered, open, asked, rd, pc, reply, total_msg_size,
                    total_bytes_read, from, to, aligned, clean, choking>>
    BY <1>3 DEF sessionVars, vars, peerVars, fetchVars, history
  <2>2. SessionTypeOK' /\ StreamInv'
    BY <2>1 DEF IInv, SessionTypeOK, StreamTypeOK, StreamInv
  <2>3. SetupInv' /\ FetchInv' /\ CleanInv'
    BY <2>1 DEF IInv, SetupInv, FetchInv, MissesAtMostPrefix, SpinsOnlyMidMessage, CleanInv,
                InStep, IsAnswer
  <2> QED BY <2>2, <2>3 DEF IInv
<1> QED BY <1>1, <1>2, <1>3 DEF SessionNext, WorkerStep

LEMMA Inductive == SessionSpec => []IInv
BY InitInv, NextInv, PTL DEF SessionSpec

-----------------------------------------------------------------------------
\* Every variable keeps its type.
THEOREM SessionTypes == SessionSpec => []SessionTypeOK
<1>1. IInv => SessionTypeOK
  BY DEF IInv
<1> QED BY <1>1, Inductive, PTL

\* No request without a handshake with the right info hash (peer.rs 493-496).
THEOREM HandshakeFirst == SessionSpec => []HandshakeBeforeRequest
<1>1. IInv => HandshakeBeforeRequest
  <2> SUFFICES ASSUME IInv, asked # <<>>
               PROVE  msgs # <<>> /\ msgs[1].kind = "handshake" /\ rd >= HASH_END
    BY DEF HandshakeBeforeRequest
  <2>1. rd >= HASH_END
    BY DEF IInv, SetupInv
  <2>2. sent > 0
    BY <2>1, Numbers, SessionAssumption DEF IInv
  <2>3. Len(msgs) > 0
    <3>1. PICK k \in 1..Len(msgs) : msgs[k].start =< 0
      BY <2>2 DEF IInv, StreamInv
    <3> QED BY Numbers DEF IInv
  <2>4. msgs # <<>>
    BY <2>3
  <2> QED BY <2>1, <2>4 DEF IInv, StreamInv
<1> QED BY <1>1, Inductive, PTL

\* At most the bytes of a length prefix are missing from a reply that was read
\* from its start (peer.rs 439, 451).
THEOREM AtMostPrefixMissing == SessionSpec => []MissesAtMostPrefix
<1>1. IInv => MissesAtMostPrefix
  BY DEF IInv, FetchInv
<1> QED BY <1>1, Inductive, PTL

\* The endless loop takes a stream that ends within the reply, more than a
\* prefix's bytes before its end, or one that is out of step (peer.rs 429-463).
THEOREM SpinNeedsClose == SessionSpec => []SpinsOnlyMidMessage
<1>1. IInv => SpinsOnlyMidMessage
  BY DEF IInv, FetchInv
<1> QED BY <1>1, Inductive, PTL

\* On a connection that the set-up left between two messages, blocks of the
\* right length are the right blocks, whatever the sizes of the messages and the
\* buffers and wherever the stream is cut (peer.rs 436-458).
THEOREM LengthSuffices == SessionSpec => []LengthTellsTheBlock
<1>1. IInv => LengthTellsTheBlock
  <2> SUFFICES ASSUME IInv, pc = "ok", aligned, clean
               PROVE  \E m \in Range(msgs) : IsAnswer(m) /\ rd = m.end
    BY DEF LengthTellsTheBlock
  <2>1. PICK k \in 1..Len(msgs) : IsAnswer(msgs[k]) /\ rd = msgs[k].end
    BY DEF IInv, CleanInv
  <2>2. msgs[k] \in Range(msgs)
    BY LenProperties DEF IInv, SessionTypeOK, StreamTypeOK, Range
  <2> QED BY <2>1, <2>2
<1> QED BY <1>1, Inductive, PTL

-----------------------------------------------------------------------------
\* The session implements the connection of the download worker.

LEMMA ConnectionSteps ==
    ASSUME IInv, [SessionNext]_sessionVars
    PROVE  [AsConnection!Next]_AsConnection!vars
<1> DEFINE Same == SessionState' = SessionState /\ Len(asked') = Len(asked)
<1>1. Same => UNCHANGED AsConnection!vars
  BY DEF AsConnection!vars
<1>2. Len(asked) \in Nat /\ (\A n \in Lengths : Len(Append(asked, n)) = Len(asked) + 1)
  BY Numbers, AppendProperties DEF IInv, SessionTypeOK, StreamTypeOK
<1>3. CASE PeerStep \/ UNCHANGED sessionVars
  <2>1. pc' = pc /\ asked' = asked
    BY <1>3 DEF PeerStep, SendHandshake, Unchoke, SendNotice, SendPiece, Send, Close,
                sessionVars, vars
  <2> QED BY <2>1, <1>1 DEF SessionState
<1>4. CASE AttemptPeerConnect \/ NoPeer
  <2>1. /\ pc \in {"connect", "handshake", "garbage", "interested", "unchoke"}
        /\ pc' \in {"handshake", "refused", "garbage", "panicked", "interested", "unchoke", "idle"}
        /\ asked' = asked
    BY <1>4 DEF AttemptPeerConnect, NoPeer, Connect, Handshake, RecvGarbage, SendInterested,
                RecvUnchoke, Goto
  <2>2. SessionState = "connecting"
    BY <2>1 DEF SessionState, SetupStates
  <2>3. SessionState' \in {"connecting", "refused", "panicked", "ready"}
    BY <2>1 DEF SessionState, SetupStates
  <2> QED BY <2>1, <2>2, <2>3, <1>1 DEF AsConnection!Next, AsConnection!SetUp
<1>5. CASE Request
  <2>1. SessionState = "ready"
    BY <1>5 DEF Request, SessionState, SetupStates
  <2>2. \/ SessionState' = "fetching" /\ Len(asked') = Len(asked) + 1
        \/ SessionState' = "panicked" /\ Len(asked') = Len(asked)
    BY <1>5, <1>2 DEF Request, SessionState, SetupStates
  <2> QED BY <2>1, <2>2 DEF AsConnection!Next, AsConnection!Ask
<1>6. CASE Read
  <2>1. /\ pc \in {"first", "more"} /\ asked' = asked
        /\ pc' \in {"more", "ok", "err", "panicked", "spinning"}
    BY <1>6 DEF Read, FirstRead, NextRead, ReadAtEnd, ReadFails, Leave, Return, ParsedPiece,
                ParsedNotice
  <2>2. SessionState = "fetching"
    BY <2>1 DEF SessionState, SetupStates
  <2>3. SessionState' \in {"fetching", "ready", "failed", "panicked", "spinning"}
    BY <2>1 DEF SessionState, SetupStates
  <2> QED BY <2>1, <2>2, <2>3, <1>1 DEF AsConnection!Next, AsConnection!Resolve
<1> QED BY <1>3, <1>4, <1>5, <1>6 DEF SessionNext

\* However the stream is cut, the worker has a connection that is set up once,
\* has one request under way at most and none after one that failed.
THEOREM SessionIsConnection == SessionSpec => ActsAsConnection
<1>1. SessionInit => AsConnection!Init
  BY DEF SessionInit, StartsIn, SessionState, SetupStates, AsConnection!Init
<1>2. IInv /\ [SessionNext]_sessionVars => [AsConnection!Next]_AsConnection!vars
  BY ConnectionSteps
<1> QED BY <1>1, <1>2, Inductive, PTL DEF SessionSpec, ActsAsConnection, AsConnection!Spec

=============================================================================
