------------------------ MODULE TrackerAnnounceProofs ------------------------
(***************************************************************************)
(* The announce with any number of attempts, any torrent, any size of the  *)
(* buffer and any response: the properties of the run announce, but for    *)
(* liveness.                                                               *)
(***************************************************************************)
EXTENDS TrackerAnnounce, SequenceLemmas

Opening == {"start", "choose", "http", "open", "socket"}
Connecting == Opening \cup {"connect", "recv_connect"}
Announcing == Connecting \cup {"announce", "recv_announce"}

\* An attempt under way is one of those allowed, and each sends one request.
AttemptsInv ==
    /\ pc \in Opening \cup {"recv_connect", "recv_announce"} => attempt =< MAX_ATTEMPTS
    /\ pc \in Opening => connects = 0
    /\ pc = "connect" => connects < attempt
    /\ pc = "recv_connect" => connects =< attempt

\* Datagrams with the id of the announce are its requests and their answers,
\* and there are none before it.
AnnounceTxInv ==
    /\ \A r \in to_tracker :
        /\ r.tx = r.action
        /\ r.tx = "announce" => pc \notin Connecting /\ r.n =< attempt
    /\ \A d \in to_client \cup {resp} : d.tx = "announce" =>
        /\ pc \notin Connecting
        /\ d.action \in {"announce", "error"} /\ d.n \in 1..attempt
    /\ pc = "done" => resp.tx = "announce"

\* One datagram too many.
Extra == stale \/ duplicates > 0 \/ connects > 1

\* As long as there was none, the only request to connect, or its answer, is
\* the only datagram that does not belong to the announce.
ConnectTx(d) == d.tx = "connect"
OneConnect ==
    /\ \A d \in to_client : d.tx # "old"
    /\ connects = 0 \/ pc \in {"announce", "recv_announce"} =>
        \A d \in to_tracker \cup to_client : ~ConnectTx(d)
    /\ \A r \in to_tracker, d \in to_client : ~(ConnectTx(r) /\ ConnectTx(d))
    /\ \A r, s \in to_tracker : ConnectTx(r) /\ ConnectTx(s) => r = s
    /\ \A d, e \in to_client : ConnectTx(d) /\ ConnectTx(e) => d = e
    /\ pc \in {"parse", "check"} => resp.tx = "announce"
    /\ pc # "tx_panic"
ConnectTxInv == ~Extra => OneConnect

\* The peers parsed so far lie next to each other and start before the end of
\* the response; where the parser stops, and why.
ParseInv ==
    /\ pc \in Announcing => addresses = <<>>
    /\ i = HEADER + Len(addresses) * ENTRY
    /\ \A k \in 1..Len(addresses) :
        /\ addresses[k] = HEADER + (k - 1) * ENTRY
        /\ addresses[k] \notin reply.zeros
        /\ addresses[k] < HEADER + reply.size
    /\ pc \in {"check", "done", "tx_panic"} => i >= HEADER + reply.size \/ i \in reply.zeros
    /\ pc = "parse_panic" => i < BUFFER /\ BUFFER < i + ENTRY

IInv == TypeOK /\ AttemptsInv /\ AnnounceTxInv /\ ConnectTxInv /\ ParseInv

-----------------------------------------------------------------------------
LEMMA Numbers ==
    TypeOK =>
        /\ MAX_ATTEMPTS \in Nat \ {0} /\ HEADER \in Nat /\ ENTRY \in Nat \ {0}
        /\ BUFFER \in Nat /\ HEADER < BUFFER
        /\ attempt \in Nat \ {0} /\ connects \in Nat /\ i \in Nat /\ reply.size \in Nat
        /\ reply.size =< BUFFER - HEADER
        /\ duplicates \in Nat
BY AnnounceAssumption DEF TypeOK, Reply

LEMMA InitInv == Init => IInv
<1> SUFFICES ASSUME Init
             PROVE  IInv
  OBVIOUS
<1>1. OldAnswers \subseteq Datagram
  <2>1. ASSUME NEW a \in {"connect", "announce"}
        PROVE  [action |-> a, tx |-> "old", conn |-> IF a = "connect" THEN "old" ELSE "none",
                n |-> 0, copy |-> FALSE] \in Datagram
    BY AnnounceAssumption DEF Datagram
  <2> QED
    BY <2>1 DEF OldAnswers
<1>2. TypeOK
  BY <1>1, AnnounceAssumption, EmptySeq DEF Init, TypeOK, NoReply, Reply
<1>3. AttemptsInv
  BY AnnounceAssumption DEF Init, AttemptsInv, Opening
<1>4. AnnounceTxInv
  BY DEF Init, AnnounceTxInv, OldAnswers, NoDatagram
<1>5. ConnectTxInv
  BY DEF Init, ConnectTxInv, OneConnect, Extra, ConnectTx
<1>6. ParseInv
  <2>1. addresses = <<>> /\ Len(addresses) = 0 /\ i = HEADER /\ pc = "start"
    BY EmptySeq DEF Init
  <2>2. i = HEADER + Len(addresses) * ENTRY
    BY <2>1, AnnounceAssumption
  <2> QED
    BY <2>1, <2>2 DEF ParseInv
<1> QED
  BY <1>2, <1>3, <1>4, <1>5, <1>6 DEF IInv

\* Which parts of the state a step of the program leaves alone.
LEMMA Frames ==
    /\ Prepare \/ ChooseUrl \/ AnnounceHttp \/ OpenSocket \/ ConnectSocket =>
        UNCHANGED <<torrent, netVars, conn_id, connects, parseVars>>
    /\ SendConnect \/ SendAnnounce =>
        UNCHANGED <<torrent, to_client, duplicates, stale, url, conn_id, parseVars>>
    /\ RecvConnect => UNCHANGED <<torrent, to_tracker, duplicates, stale, url, connects, parseVars>>
    /\ RecvAnnounce => UNCHANGED <<torrent, to_tracker, duplicates, stale, url, conn_id, connects, i, addresses>>
    /\ ParsePeer => UNCHANGED <<torrent, netVars, url, attempt, conn_id, connects, resp, reply>>
    /\ CheckTx => UNCHANGED <<torrent, netVars, url, attempt, conn_id, connects, parseVars>>
BY DEF Prepare, ChooseUrl, AnnounceHttp, OpenSocket, ConnectSocket, SendConnect, SendAnnounce,
       RecvConnect, RecvAnnounce, ParsePeer, CheckTx

-----------------------------------------------------------------------------
LEMMA TypeNext ==
    ASSUME TypeOK, AttemptsInv, [Next]_vars
    PROVE  TypeOK'
<1> USE Numbers
<1>1. CASE Answer
  <2>1. PICK r \in to_tracker : \E d \in Answers(r) : to_client' = to_client \cup {d}
    BY <1>1 DEF Answer
  <2>2. Answers(r) \subseteq Datagram
    BY DEF Answers
  <2> QED
    BY <1>1, <2>1, <2>2 DEF Answer, TypeOK, parseVars
<1>2. CASE Duplicate
  <2>1. \A d \in to_client : [d EXCEPT !.copy = TRUE] \in Datagram
    BY DEF TypeOK, Datagram
  <2> QED
    BY <1>2, <2>1, AnnounceAssumption DEF Duplicate, TypeOK, parseVars
<1>3. CASE Prepare \/ AnnounceHttp \/ OpenSocket
  BY <1>3 DEF Prepare, AnnounceHttp, OpenSocket, TypeOK, Final, netVars, parseVars
<1>4. CASE ChooseUrl
  <2>1. \A k \in UdpUrls : torrent.announce_list[k] \in Url
    BY DEF UdpUrls, TypeOK, Torrent
  <2>2. torrent.announce \in Url \cup {NoUrl}
    BY DEF TypeOK, Torrent
  <2> QED
    BY <1>4, <2>1, <2>2 DEF ChooseUrl, TypeOK, netVars, parseVars
<1>5. CASE ConnectSocket
  BY <1>5 DEF ConnectSocket, TypeOK, AttemptsInv, Opening, Final, netVars, parseVars
<1>6. CASE SendConnect \/ SendAnnounce
  <2>1. attempt =< MAX_ATTEMPTS => ConnectPacket \in Request /\ AnnouncePacket \in Request
    BY DEF ConnectPacket, AnnouncePacket, Request, TypeOK
  <2>2. /\ attempt' \in 1..(MAX_ATTEMPTS + 1)
        /\ pc' \in {"connect", "recv_connect", "announce", "recv_announce", "err"}
    BY <1>6 DEF SendConnect, SendAnnounce, Send, TypeOK
  <2>4. to_tracker' \subseteq Request
    <3>1. \/ to_tracker' = to_tracker
          \/ attempt =< MAX_ATTEMPTS /\ to_tracker' = to_tracker \cup {ConnectPacket}
          \/ attempt =< MAX_ATTEMPTS /\ to_tracker' = to_tracker \cup {AnnouncePacket}
      BY <1>6 DEF SendConnect, SendAnnounce, Send
    <3> QED
      BY <2>1, <3>1 DEF TypeOK
  <2>3. connects' \in 0..MAX_ATTEMPTS
    BY <1>6 DEF SendConnect, SendAnnounce, Send, TypeOK, AttemptsInv
  <2> QED
    BY <1>6, <2>2, <2>3, <2>4, Frames DEF TypeOK, Final, parseVars
<1>7. CASE RecvConnect
  <2>1. conn_id' \in {"none", "issued", "old", "junk"} /\ to_client' \subseteq Datagram
    BY <1>7 DEF RecvConnect, RecvError, ConnId, TypeOK, Datagram
  <2>2. attempt' \in 1..(MAX_ATTEMPTS + 1) /\ pc' \in {"announce", "connect"}
    BY <1>7 DEF RecvConnect, RecvError, TypeOK, AttemptsInv
  <2> QED
    BY <1>7, <2>1, <2>2, Frames DEF TypeOK, parseVars
<1>8. CASE RecvAnnounce
  <2>1. /\ to_client' \subseteq Datagram /\ resp' \in Datagram \cup {NoDatagram}
        /\ reply' \in Reply
    BY <1>8, AnnounceAssumption DEF RecvAnnounce, TypeOK, NoReply, Reply
  <2>2. attempt' \in 1..(MAX_ATTEMPTS + 1) /\ pc' \in {"parse", "announce"}
    BY <1>8 DEF RecvAnnounce, RecvError, TypeOK, AttemptsInv
  <2> QED
    BY <1>8, <2>1, <2>2, Frames DEF TypeOK
<1>9. CASE ParsePeer
  <2>1. i' \in HEADER..(BUFFER + ENTRY) /\ addresses' \in Seq(HEADER..BUFFER)
    <3>1. CASE addresses' = addresses /\ i' = i
      BY <3>1 DEF TypeOK
    <3>2. CASE i < BUFFER /\ i' = i + ENTRY /\ addresses' = Append(addresses, i)
      <4>1. i \in HEADER..BUFFER /\ i + ENTRY \in HEADER..(BUFFER + ENTRY)
        BY <3>2 DEF TypeOK
      <4>2. addresses \in Seq(HEADER..BUFFER)
        BY DEF TypeOK
      <4>3. Append(addresses, i) \in Seq(HEADER..BUFFER)
        BY <4>1, <4>2, AppendProperties
      <4> QED
        BY <3>2, <4>1, <4>3
    <3> QED
      BY <1>9, <3>1, <3>2 DEF ParsePeer, TypeOK
  <2>2. pc' \in {"parse", "check", "parse_panic"}
    BY <1>9 DEF ParsePeer
  <2> QED
    BY <1>9, <2>1, <2>2, Frames DEF TypeOK, Final, netVars
<1>10. CASE CheckTx
  BY <1>10 DEF CheckTx, TypeOK, Final, netVars, parseVars
<1>11. CASE UNCHANGED vars
  BY <1>11 DEF vars, TypeOK, netVars, parseVars
<1> QED
  BY <1>1, <1>2, <1>3, <1>4, <1>5, <1>6, <1>7, <1>8, <1>9, <1>10, <1>11 DEF Next, Announce

LEMMA AttemptsNext ==
    ASSUME TypeOK, AttemptsInv, [Next]_vars
    PROVE  AttemptsInv'
<1> USE Numbers DEF AttemptsInv, Opening
<1>1. CASE Answer \/ Duplicate \/ UNCHANGED vars
  BY <1>1 DEF Answer, Duplicate, vars
<1>2. CASE Prepare \/ ChooseUrl \/ AnnounceHttp \/ OpenSocket
  BY <1>2 DEF Prepare, ChooseUrl, AnnounceHttp, OpenSocket
<1>3. CASE ConnectSocket
  BY <1>3 DEF ConnectSocket
<1>4. CASE SendConnect \/ SendAnnounce
  BY <1>4 DEF SendConnect, SendAnnounce, Send
<1>5. CASE RecvConnect \/ RecvAnnounce
  BY <1>5 DEF RecvConnect, RecvAnnounce, RecvError
<1>6. CASE ParsePeer \/ CheckTx
  BY <1>6 DEF ParsePeer, CheckTx
<1> QED
  BY <1>1, <1>2, <1>3, <1>4, <1>5, <1>6 DEF Next, Announce

-----------------------------------------------------------------------------
\* The answer to a request carries its transaction id and its number.
LEMMA AnswerLike ==
    ASSUME NEW r, NEW d \in Answers(r)
    PROVE  /\ d.tx = r.tx /\ d.n = r.n
           /\ r.action = "announce" => d.action \in {"announce", "error"}
BY DEF Answers

LEMMA AnnounceTxNext ==
    ASSUME TypeOK, AnnounceTxInv, [Next]_vars
    PROVE  AnnounceTxInv'
<1> USE Numbers
<1>1. CASE Answer
  <2>1. PICK r \in to_tracker : \E d \in Answers(r) :
            to_tracker' = to_tracker \ {r} /\ to_client' = to_client \cup {d}
    BY <1>1 DEF Answer
  <2> PICK d \in Answers(r) :
            to_tracker' = to_tracker \ {r} /\ to_client' = to_client \cup {d}
    BY <2>1
  <2>2. UNCHANGED <<pc, attempt, resp>>
    BY <1>1 DEF Answer, parseVars
  <2>3. d.tx = "announce" =>
            pc \notin Connecting /\ d.action \in {"announce", "error"} /\ d.n \in 1..attempt
    <3>1. r.n \in 1..MAX_ATTEMPTS
      BY DEF TypeOK, Request
    <3> QED
      BY <3>1, AnswerLike DEF AnnounceTxInv
  <2> QED
    BY <2>1, <2>2, <2>3 DEF AnnounceTxInv
<1>2. CASE Duplicate
  <2>1. PICK d \in to_client : to_client' = to_client \cup {[d EXCEPT !.copy = TRUE]}
    BY <1>2 DEF Duplicate
  <2> DEFINE c == [d EXCEPT !.copy = TRUE]
  <2>2. c.tx = d.tx /\ c.action = d.action /\ c.n = d.n
    BY DEF TypeOK, Datagram
  <2>3. UNCHANGED <<pc, attempt, resp, to_tracker>>
    BY <1>2 DEF Duplicate, parseVars
  <2> HIDE DEF c
  <2>4. c.tx = "announce" =>
            pc \notin Connecting /\ c.action \in {"announce", "error"} /\ c.n \in 1..attempt
    BY <2>2 DEF AnnounceTxInv
  <2> QED
    BY <2>1, <2>3, <2>4 DEF AnnounceTxInv, c
<1>3. CASE Prepare \/ ChooseUrl \/ AnnounceHttp \/ OpenSocket \/ ConnectSocket
  <2>1. UNCHANGED <<to_tracker, to_client, resp>>
    BY <1>3, Frames DEF netVars, parseVars
  <2>2. pc \in Connecting /\ pc' # "done"
    BY <1>3 DEF Prepare, ChooseUrl, AnnounceHttp, OpenSocket, ConnectSocket, Connecting, Opening
  <2>3. /\ \A r \in to_tracker : r.tx # "announce"
        /\ \A d \in to_client \cup {resp} : d.tx # "announce"
    BY <2>2 DEF AnnounceTxInv
  <2> QED
    BY <2>1, <2>2, <2>3 DEF AnnounceTxInv
<1>4. CASE SendConnect
  <2>1. UNCHANGED <<to_client, resp>> /\ to_tracker' \subseteq to_tracker \cup {ConnectPacket}
    BY <1>4 DEF SendConnect, Send, parseVars
  <2>2. pc \in Connecting /\ pc' # "done"
    BY <1>4 DEF SendConnect, Send, Connecting
  <2>3. /\ \A r \in to_tracker : r.tx # "announce"
        /\ \A d \in to_client \cup {resp} : d.tx # "announce"
    BY <2>2 DEF AnnounceTxInv
  <2>4. ConnectPacket.tx = "connect" /\ ConnectPacket.action = "connect"
    BY DEF ConnectPacket
  <2> QED
    BY <2>1, <2>2, <2>3, <2>4 DEF AnnounceTxInv
<1>5. CASE RecvConnect
  <2>1. UNCHANGED <<to_tracker, resp>> /\ to_client' \subseteq to_client
    BY <1>5 DEF RecvConnect, parseVars
  <2>2. pc \in Connecting /\ pc' # "done"
    BY <1>5 DEF RecvConnect, RecvError, Connecting
  <2>3. /\ \A r \in to_tracker : r.tx # "announce"
        /\ \A d \in to_client \cup {resp} : d.tx # "announce"
    BY <2>2 DEF AnnounceTxInv
  <2> QED
    BY <2>1, <2>2, <2>3 DEF AnnounceTxInv
<1>6. CASE SendAnnounce
  <2>1. /\ UNCHANGED <<to_client, resp>> /\ to_tracker' \subseteq to_tracker \cup {AnnouncePacket}
        /\ attempt' \in Nat /\ attempt =< attempt'
    BY <1>6 DEF SendAnnounce, Send, parseVars
  <2>2. pc' \notin Connecting /\ pc' # "done"
    BY <1>6 DEF SendAnnounce, Send, Connecting, Opening
  <2>3. /\ AnnouncePacket.tx = "announce" /\ AnnouncePacket.action = "announce"
        /\ AnnouncePacket.n = attempt
    BY DEF AnnouncePacket
  <2>4. \A r \in to_tracker : r.n \in Nat
    BY DEF TypeOK, Request
  <2> QED
    BY <2>1, <2>2, <2>3, <2>4 DEF AnnounceTxInv
<1>7. CASE RecvAnnounce
  <2>1. /\ to_tracker' = to_tracker
        /\ to_client' \cup {resp'} \subseteq to_client \cup {resp}
        /\ attempt' \in Nat /\ attempt =< attempt'
    BY <1>7, Frames DEF RecvAnnounce, RecvError
  <2>2. pc' \notin Connecting /\ pc' # "done"
    BY <1>7 DEF RecvAnnounce, RecvError, Connecting, Opening
  <2>3. \A r \in to_tracker : r.n \in Nat
    BY DEF TypeOK, Request
  <2> QED
    BY <2>1, <2>2, <2>3 DEF AnnounceTxInv
<1>8. CASE ParsePeer \/ CheckTx \/ UNCHANGED vars
  <2>1. UNCHANGED <<to_tracker, to_client, resp, attempt>>
    BY <1>8, Frames DEF vars, netVars, parseVars
  <2>2. /\ pc' \in Connecting => pc \in Connecting
        /\ pc' = "done" => resp.tx = "announce"
    BY <1>8 DEF ParsePeer, CheckTx, vars, Connecting, Opening, AnnounceTxInv
  <2> QED
    BY <2>1, <2>2 DEF AnnounceTxInv
<1> QED
  BY <1>1, <1>2, <1>3, <1>4, <1>5, <1>6, <1>7, <1>8 DEF Next, Announce

LEMMA ConnectTxNext ==
    ASSUME TypeOK, AttemptsInv, AnnounceTxInv, ConnectTxInv, [Next]_vars
    PROVE  ConnectTxInv'
<1> SUFFICES ASSUME ~Extra'
             PROVE  OneConnect'
  BY DEF ConnectTxInv
<1>1. UNCHANGED stale /\ duplicates =< duplicates' /\ connects =< connects'
  <2>1. UNCHANGED stale /\ (duplicates' = duplicates \/ duplicates' = duplicates + 1)
        /\ (connects' = connects \/ connects' = connects + 1)
    BY Frames DEF Next, Announce, Answer, Duplicate, SendConnect, SendAnnounce, vars, netVars
  <2> QED
    BY <2>1, Numbers
<1>2. ~Extra /\ duplicates = 0 /\ connects \in {0, 1} /\ connects' \in {0, 1}
  BY <1>1, Numbers, TypeNext DEF Extra, TypeOK
<1>3. OneConnect
  BY <1>2 DEF ConnectTxInv
<1>4. CASE Answer
  <2>1. PICK r \in to_tracker : \E d \in Answers(r) :
            to_tracker' = to_tracker \ {r} /\ to_client' = to_client \cup {d}
    BY <1>4 DEF Answer
  <2> PICK d \in Answers(r) :
            to_tracker' = to_tracker \ {r} /\ to_client' = to_client \cup {d}
    BY <2>1
  <2>2. UNCHANGED <<pc, connects, resp>> /\ pc \in {"connect", "recv_connect", "announce", "recv_announce"}
    BY <1>4 DEF Answer, parseVars, Listening
  <2>3. d.tx = r.tx /\ d.tx # "old"
    BY AnswerLike DEF TypeOK, Request
  <2> QED
    BY <1>3, <2>1, <2>2, <2>3 DEF OneConnect, ConnectTx
<1>5. CASE Duplicate
  BY <1>2, <1>5, <1>1, TypeNext DEF Duplicate, Extra, TypeOK
<1>6. CASE Prepare \/ ChooseUrl \/ AnnounceHttp \/ OpenSocket \/ ConnectSocket
  <2>1. UNCHANGED <<to_tracker, to_client, resp, connects>>
    BY <1>6, Frames DEF netVars, parseVars
  <2>2. pc' \notin {"announce", "recv_announce", "parse", "check", "tx_panic"}
    BY <1>6 DEF Prepare, ChooseUrl, AnnounceHttp, OpenSocket, ConnectSocket
  <2> QED
    BY <1>3, <2>1, <2>2 DEF OneConnect, ConnectTx
<1>7. CASE SendConnect
  <2>1. UNCHANGED <<to_client, resp>>
    BY <1>7 DEF SendConnect, parseVars
  <2>2. pc' \notin {"announce", "recv_announce", "parse", "check", "tx_panic"}
    BY <1>7 DEF SendConnect, Send
  <2>3. CASE UNCHANGED <<to_tracker, connects>>
    BY <1>3, <2>1, <2>2, <2>3 DEF OneConnect, ConnectTx
  <2>4. CASE to_tracker' = to_tracker \cup {ConnectPacket} /\ connects' = connects + 1
    <3>1. connects = 0 /\ connects' = 1
      BY <1>2, <2>4
    <3>2. \A d \in to_tracker \cup to_client : ~ConnectTx(d)
      BY <1>3, <3>1 DEF OneConnect
    <3> QED
      BY <1>3, <2>1, <2>2, <2>4, <3>1, <3>2 DEF OneConnect, ConnectTx
  <2> QED
    BY <1>7, <2>3, <2>4 DEF SendConnect, Send
<1>8. CASE RecvConnect
  <2>1. UNCHANGED <<to_tracker, resp, connects>> /\ pc = "recv_connect"
        /\ pc' \in {"announce", "connect"}
    BY <1>8 DEF RecvConnect, RecvError, parseVars
  <2>2. CASE pc' = "connect" /\ to_client' = to_client
    BY <1>3, <2>1, <2>2 DEF OneConnect, ConnectTx
  <2>3. CASE \E d \in to_client : to_client' = to_client \ {d}
    <3>1. PICK d \in to_client : to_client' = to_client \ {d}
      BY <2>3
    <3>2. ConnectTx(d)
      <4>1. d.tx # "announce"
        BY <2>1 DEF AnnounceTxInv, Connecting
      <4>2. d.tx \in {"connect", "announce", "old"}
        BY DEF TypeOK, Datagram
      <4> QED
        BY <1>3, <4>1, <4>2 DEF OneConnect, ConnectTx
    <3>3. \A e \in to_tracker \cup to_client' : ~ConnectTx(e)
      BY <1>3, <3>1, <3>2 DEF OneConnect
    <3> QED
      BY <1>3, <2>1, <3>1, <3>3 DEF OneConnect, ConnectTx
  <2> QED
    BY <1>8, <2>2, <2>3 DEF RecvConnect, RecvError
<1>9. CASE SendAnnounce
  <2>1. UNCHANGED <<to_client, resp, connects>> /\ pc = "announce"
        /\ pc' \in {"announce", "recv_announce", "err"}
        /\ to_tracker' \subseteq to_tracker \cup {AnnouncePacket}
    BY <1>9 DEF SendAnnounce, Send, parseVars
  <2>2. ~ConnectTx(AnnouncePacket)
    BY DEF ConnectTx, AnnouncePacket
  <2>3. \A d \in to_tracker' \cup to_client : ~ConnectTx(d)
    BY <1>3, <2>1, <2>2 DEF OneConnect
  <2> QED
    BY <1>3, <2>1, <2>3 DEF OneConnect, ConnectTx
<1>10. CASE RecvAnnounce
  <2>1. /\ UNCHANGED <<to_tracker, connects>> /\ pc = "recv_announce"
        /\ pc' \in {"announce", "parse"} /\ to_client' \subseteq to_client
        /\ pc' = "parse" => resp' \in to_client
    BY <1>10, Frames DEF RecvAnnounce, RecvError
  <2>2. \A d \in to_client : d.tx = "announce"
    <3>1. \A d \in to_client : d.tx \in {"connect", "announce", "old"}
      BY DEF TypeOK, Datagram
    <3> QED
      BY <1>3, <2>1, <3>1 DEF OneConnect, ConnectTx
  <2>3. \A d \in to_tracker \cup to_client' : ~ConnectTx(d)
    BY <1>3, <2>1 DEF OneConnect
  <2> QED
    BY <1>3, <2>1, <2>2, <2>3 DEF OneConnect, ConnectTx
<1>11. CASE ParsePeer
  <2>1. /\ UNCHANGED <<to_tracker, to_client, resp, connects>> /\ pc = "parse"
        /\ pc' \in {"parse", "check", "parse_panic"}
    BY <1>11, Frames DEF ParsePeer, netVars
  <2> QED
    BY <1>3, <2>1 DEF OneConnect, ConnectTx
<1>12. CASE CheckTx
  <2>1. /\ UNCHANGED <<to_tracker, to_client, resp, connects>> /\ pc = "check"
        /\ pc' = IF resp.tx = "announce" THEN "done" ELSE "tx_panic"
    BY <1>12 DEF CheckTx, netVars, parseVars
  <2> QED
    BY <1>3, <2>1 DEF OneConnect, ConnectTx
<1>13. CASE UNCHANGED vars
  BY <1>3, <1>13 DEF OneConnect, ConnectTx, vars, netVars, parseVars
<1> QED
  BY <1>4, <1>5, <1>6, <1>7, <1>8, <1>9, <1>10, <1>11, <1>12, <1>13 DEF Next, Announce

-----------------------------------------------------------------------------
LEMMA ParseNext ==
    ASSUME TypeOK, ParseInv, [Next]_vars
    PROVE  ParseInv'
<1> USE Numbers
<1>1. CASE RecvAnnounce
  <2>1. /\ addresses = <<>> /\ UNCHANGED <<i, addresses>>
        /\ pc' \in {"announce", "parse"}
    BY <1>1 DEF RecvAnnounce, RecvError, ParseInv, Announcing
  <2>2. Len(addresses) = 0
    BY <2>1, EmptySeq
  <2> QED
    BY <2>1, <2>2 DEF ParseInv, Announcing
<1>2. CASE ParsePeer
  <2>1. UNCHANGED reply /\ pc = "parse" /\ pc' \in {"parse", "check", "parse_panic"}
    BY <1>2 DEF ParsePeer
  <2>2. pc' \notin Announcing
    BY <2>1 DEF Announcing, Connecting, Opening
  <2>3. CASE UNCHANGED <<i, addresses>>
    <3>1. pc' = "check" => i >= HEADER + reply.size \/ i \in reply.zeros
      BY <1>2, <2>3 DEF ParsePeer, ZeroAt
    <3>2. pc' = "parse_panic" => i < BUFFER /\ BUFFER < i + ENTRY
      BY <1>2, <2>3 DEF ParsePeer
    <3> QED
      BY <2>1, <2>2, <2>3, <3>1, <3>2 DEF ParseInv
  <2>4. CASE ~ZeroAt(i) /\ i' = i + ENTRY /\ addresses' = Append(addresses, i) /\ pc' = pc
    <3> DEFINE L == Len(addresses)
    <3>1. /\ L \in Nat /\ Len(addresses') = L + 1 /\ addresses'[L + 1] = i
          /\ \A k \in 1..L : addresses'[k] = addresses[k]
      BY <2>4, AppendProperties, LenProperties DEF TypeOK
    <3> HIDE DEF L
    <3>2. i < HEADER + reply.size /\ i \notin reply.zeros
      BY <2>4 DEF ZeroAt
    <3>3. i = HEADER + L * ENTRY /\ (L + 1) * ENTRY = L * ENTRY + ENTRY /\ L * ENTRY \in Nat
      <4>1. i = HEADER + L * ENTRY
        BY DEF ParseInv, L
      <4>2. (L + 1) * ENTRY = L * ENTRY + ENTRY
        BY <3>1, Multiples
      <4>3. L * ENTRY \in Nat
        BY <3>1
      <4> QED
        BY <4>1, <4>2, <4>3
    <3>4. i' = HEADER + (L + 1) * ENTRY
      BY <2>4, <3>3
    <3>5. ASSUME NEW k \in 1..(L + 1)
          PROVE  /\ addresses'[k] = HEADER + (k - 1) * ENTRY
                 /\ addresses'[k] \notin reply.zeros /\ addresses'[k] < HEADER + reply.size
      <4>1. CASE k \in 1..L
        BY <3>1, <4>1 DEF ParseInv, L
      <4>2. CASE k = L + 1
        <5>1. k - 1 = L
          BY <3>1, <4>2
        <5> QED
          BY <3>1, <3>2, <3>3, <4>2, <5>1
      <4> QED
        BY <3>1, <4>1, <4>2
    <3> QED
      BY <2>1, <2>2, <2>4, <3>1, <3>4, <3>5 DEF ParseInv
  <2> QED
    BY <1>2, <2>3, <2>4 DEF ParsePeer
<1>3. CASE CheckTx
  BY <1>3 DEF CheckTx, parseVars, ParseInv, Announcing, Connecting, Opening
<1>4. CASE ~RecvAnnounce /\ ~ParsePeer /\ ~CheckTx
  <2>1. UNCHANGED <<reply, i, addresses>>
    BY <1>4, Frames DEF Next, Announce, Answer, Duplicate, vars, parseVars
  <2>2. /\ pc' \in Announcing => pc \in Announcing
        /\ pc' \in {"check", "done", "tx_panic", "parse_panic"} => pc' = pc
    BY <1>4 DEF Next, Announce, Answer, Duplicate, vars, Announcing, Connecting, Opening,
                Prepare, ChooseUrl, AnnounceHttp, OpenSocket, ConnectSocket, SendConnect,
                SendAnnounce, Send, RecvConnect, RecvError
  <2> QED
    BY <2>1, <2>2 DEF ParseInv
<1> QED
  BY <1>1, <1>2, <1>3, <1>4

-----------------------------------------------------------------------------
LEMMA Inductive == Spec => []IInv
<1>1. IInv /\ [Next]_vars => IInv'
  BY TypeNext, AttemptsNext, AnnounceTxNext, ConnectTxNext, ParseNext DEF IInv
<1> QED
  BY <1>1, InitInv, PTL DEF Spec

\* The variables keep their types: attempts, the parser's place in the buffer
\* and the datagrams in flight stay in bounds (announce.rs 108, 171).
THEOREM AnnounceTypes == Spec => []TypeOK
<1>1. IInv => TypeOK
  BY DEF IInv
<1> QED
  BY <1>1, Inductive, PTL

\* An accepted response answers an announce of this run, whatever the network
\* does to datagrams (app.rs 181-187).
THEOREM OwnAnswerAccepted == Spec => []AcceptedAnswersAnnounce
<1>1. IInv => AcceptedAnswersAnnounce
  BY DEF IInv, AnnounceTxInv, AcceptedAnswersAnnounce
<1> QED
  BY <1>1, Inductive, PTL

\* The check of the transaction id panics only on an answer too many.
THEOREM TxPanicCause == Spec => []TxPanicNeedsExtraAnswer
<1>1. IInv => TxPanicNeedsExtraAnswer
  BY DEF IInv, ConnectTxInv, OneConnect, Extra, TxPanicNeedsExtraAnswer
<1> QED
  BY <1>1, Inductive, PTL

\* The peers are those before the first address that starts with 0, for every
\* response and every size of the buffer.
THEOREM PeersParsed == Spec => []PeersUpToFirstZero
<1>1. ASSUME IInv, pc \in {"check", "done", "tx_panic"}
      PROVE  /\ addresses = [k \in 1..Len(addresses) |-> HEADER + (k - 1) * ENTRY]
             /\ \A k \in 1..Len(addresses) : addresses[k] \notin reply.zeros
             /\ \/ HEADER + Len(addresses) * ENTRY >= HEADER + reply.size
                \/ HEADER + Len(addresses) * ENTRY \in reply.zeros
  <2>1. \A k \in 1..Len(addresses) :
            addresses[k] = HEADER + (k - 1) * ENTRY /\ addresses[k] \notin reply.zeros
    BY <1>1 DEF IInv, ParseInv
  <2>2. addresses = [k \in 1..Len(addresses) |-> addresses[k]]
    BY <1>1, LenProperties DEF IInv, TypeOK
  <2>3. i = HEADER + Len(addresses) * ENTRY /\ (i >= HEADER + reply.size \/ i \in reply.zeros)
    BY <1>1 DEF IInv, ParseInv
  <2> QED
    BY <2>1, <2>2, <2>3
<1>2. IInv => PeersUpToFirstZero
  BY <1>1 DEF PeersUpToFirstZero
<1> QED
  BY <1>2, Inductive, PTL

\* The number of places between the header and the end of the buffer.
LEMMA Room ==
    ASSUME NEW n \in Nat, NEW e \in Nat \ {0}, NEW l \in Nat, l * e =< n, n < l * e + e
    PROVE  n \div e = l
<1> DEFINE q == n \div e
<1>1. q \in Nat /\ q * e =< n /\ n < q * e + e
  OBVIOUS
<1> HIDE DEF q
<1>2. (q + 1) * e = q * e + e /\ (l + 1) * e = l * e + e
  BY <1>1, Multiples
<1>3. q * e < (l + 1) * e /\ l * e < (q + 1) * e
  <2>1. q * e \in Nat /\ l * e \in Nat
    BY <1>1
  <2> QED
    BY <1>1, <1>2, <2>1
<1>4. q < l + 1 /\ l < q + 1
  BY <1>1, <1>3, Multiples
<1> QED
  BY <1>1, <1>4 DEF q

\* The parser runs off the buffer only on a response that fills it.
THEOREM ParserPanicCause == Spec => []ParsePanicsOnlyWhenFull
<1>1. ASSUME IInv, pc = "parse_panic"
      PROVE  LET room == (BUFFER - HEADER) \div ENTRY IN
             /\ room * ENTRY < BUFFER - HEADER
             /\ reply.size > (room - 1) * ENTRY
             /\ reply.zeros \cap {HEADER + k * ENTRY : k \in 0..(room - 1)} = {}
  <2> DEFINE L == Len(addresses)
  <2>1. L \in Nat
    BY <1>1, LenProperties DEF IInv, TypeOK
  <2>2. /\ HEADER \in Nat /\ ENTRY \in Nat \ {0} /\ BUFFER \in Nat /\ HEADER < BUFFER
        /\ reply.size \in Nat
    BY <1>1, Numbers DEF IInv
  <2>3. i = HEADER + L * ENTRY /\ i < BUFFER /\ BUFFER < i + ENTRY
    BY <1>1 DEF IInv, ParseInv
  <2>4. \A k \in 1..L : /\ addresses[k] = HEADER + (k - 1) * ENTRY
                        /\ addresses[k] \notin reply.zeros
                        /\ addresses[k] < HEADER + reply.size
    BY <1>1 DEF IInv, ParseInv
  <2> HIDE DEF L
  <2>5. L * ENTRY < BUFFER - HEADER /\ BUFFER - HEADER < L * ENTRY + ENTRY /\ L * ENTRY \in Nat
    <3>1. L * ENTRY \in Nat
      BY <2>1, <2>2
    <3> QED
      BY <2>2, <2>3, <3>1
  <2>6. (BUFFER - HEADER) \div ENTRY = L
    <3>1. BUFFER - HEADER \in Nat
      BY <2>2
    <3> QED
      BY <2>1, <2>2, <2>5, <3>1, Room
  <2>7. reply.size > (L - 1) * ENTRY
    <3>1. CASE L = 0
      <4>1. (L - 1) * ENTRY = -ENTRY
        BY <2>2, <3>1
      <4> QED
        BY <2>2, <4>1
    <3>2. CASE L # 0
      <4>1. L \in 1..L /\ (L - 1) * ENTRY \in Nat
        BY <2>1, <2>2, <3>2
      <4>2. HEADER + (L - 1) * ENTRY < HEADER + reply.size
        BY <2>4, <4>1
      <4> QED
        BY <2>2, <4>1, <4>2
    <3> QED
      BY <3>1, <3>2
  <2>8. ASSUME NEW k \in 0..(L - 1)
        PROVE  HEADER + k * ENTRY \notin reply.zeros
    <3>1. k + 1 \in 1..L /\ (k + 1) - 1 = k
      BY <2>1
    <3> QED
      BY <2>4, <3>1
  <2> QED
    BY <2>5, <2>6, <2>7, <2>8
<1>2. IInv => ParsePanicsOnlyWhenFull
  BY <1>1 DEF ParsePanicsOnlyWhenFull
<1> QED
  BY <1>2, Inductive, PTL

=============================================================================
