---------------------------- MODULE SessionsProofs ----------------------------
(***************************************************************************)
(* The records of the sessions with any number of workers and any list of  *)
(* peers: the safety properties of the run sessions.                       *)
(***************************************************************************)
EXTENDS Sessions, SequenceLemmas

Joins == [kind : {"PeerConnect"}, ip : IpAddrs]
Leaves == [kind : {"PeerDisconnect"}, ip : IpAddrs]

\* What counting an update adds.
Delta(u) == IF u \in Joins THEN 1 ELSE IF u \in Leaves THEN -1 ELSE 0

\* The number c when the first n updates of s have been counted.
CountedUpTo(c, s, n) ==
    c + Cardinality(Places(s, n, Joins)) - Cardinality(Places(s, n, Leaves))

\* As the updates under way are counted, the number shown is always one that
\* the workers in a session had, and the last is their number now.
CounterInv ==
    /\ \A n \in 0..Len(status_chan) : CountedUpTo(shown, status_chan, n) \in 0..DL_WORKERS
    /\ CountedUpTo(shown, status_chan, Len(status_chan)) = Cardinality(Sessions)

\* A worker that has a peer.
Took == {"connect", "connected"} \cup InSession
HasPeer(w, a) == worker[w] \in Took /\ ip[w] = a
Holding(a) == \E w \in Workers : HasPeer(w, a) /\ worker[w] \in {"download", "remove", "lost"}

ListedOnce(a) ==
    \A j, k \in DOMAIN possible_peers : possible_peers[j] = a /\ possible_peers[k] = a => j = k

\* The channel holds the end of the list.
ChannelInv ==
    /\ Len(peer_chan) =< Len(possible_peers)
    /\ \A k \in 1..Len(peer_chan) :
        peer_chan[k] = possible_peers[Len(possible_peers) - Len(peer_chan) + k]

\* An address listed once has one worker at most, and none while it waits on
\* the channel.
OneWorkerInv ==
    \A a \in IpAddrs : ListedOnce(a) =>
        /\ \A v, w \in Workers : HasPeer(v, a) /\ HasPeer(w, a) => v = w
        /\ \A w \in Workers : HasPeer(w, a) => \A k \in 1..Len(peer_chan) : peer_chan[k] # a

TrackedInv ==
    \A a \in IpAddrs :
        /\ a \in connected_peers => Holding(a)
        /\ ListedOnce(a) /\ Holding(a) => a \in connected_peers

IInv == TypeOK /\ CounterInv /\ ChannelInv /\ OneWorkerInv /\ TrackedInv

-----------------------------------------------------------------------------
\* The sessions of workers in states f, and how one worker changes their
\* number.

LEMMA CountSessions ==
    ASSUME NEW f
    PROVE  /\ IsFiniteSet({w \in Workers : f[w] \in InSession})
           /\ Cardinality({w \in Workers : f[w] \in InSession}) \in 0..DL_WORKERS
<1> DEFINE S == {w \in Workers : f[w] \in InSession}
<1>1. IsFiniteSet(Workers) /\ Cardinality(Workers) = DL_WORKERS /\ DL_WORKERS \in Nat
  BY SessionsAssumption, FS_Interval DEF Workers
<1>2. S \in SUBSET Workers
  OBVIOUS
<1> HIDE DEF S
<1>3. IsFiniteSet(S) /\ Cardinality(S) =< DL_WORKERS
  BY <1>1, <1>2, FS_Subset
<1>4. Cardinality(S) \in Nat
  BY <1>3, FS_CardinalityType
<1>5. Cardinality(S) \in 0..DL_WORKERS
  BY <1>1, <1>3, <1>4
<1> QED
  BY <1>3, <1>5 DEF S

LEMMA OneWorkerMoves ==
    ASSUME TypeOK, NEW w \in Workers, NEW before, NEW after, Goes(w, before, after)
    PROVE  /\ before \notin InSession /\ after \in InSession =>
                Cardinality(Sessions') = Cardinality(Sessions) + 1
           /\ before \in InSession /\ after \notin InSession =>
                Cardinality(Sessions') = Cardinality(Sessions) - 1
           /\ (before \in InSession <=> after \in InSession) =>
                Cardinality(Sessions') = Cardinality(Sessions)
<1>1. worker[w] = before /\ worker' = [worker EXCEPT ![w] = after] /\ DOMAIN worker = Workers
  BY DEF Goes, TypeOK
<1>2. /\ \A v \in Workers : v # w => worker'[v] = worker[v]
      /\ worker'[w] = after
  BY <1>1
<1>3. IsFiniteSet(Sessions)
  BY CountSessions DEF Sessions
<1>4. ASSUME before \notin InSession, after \in InSession
      PROVE  Cardinality(Sessions') = Cardinality(Sessions) + 1
  <2>1. Sessions' = Sessions \cup {w} /\ w \notin Sessions
    BY <1>1, <1>2, <1>4 DEF Sessions
  <2> QED
    BY <2>1, <1>3, FS_AddElement
<1>5. ASSUME before \in InSession, after \notin InSession
      PROVE  Cardinality(Sessions') = Cardinality(Sessions) - 1
  <2>1. Sessions' = Sessions \ {w} /\ w \in Sessions
    BY <1>1, <1>2, <1>5 DEF Sessions
  <2> QED
    BY <2>1, <1>3, FS_RemoveElement
<1>6. ASSUME before \in InSession <=> after \in InSession
      PROVE  Cardinality(Sessions') = Cardinality(Sessions)
  <2>1. Sessions' = Sessions
    BY <1>1, <1>2, <1>6 DEF Sessions
  <2> QED
    BY <2>1
<1> QED
  BY <1>4, <1>5, <1>6

-----------------------------------------------------------------------------
\* The sums of CounterInv, when an update is sent and when it is counted.

LEMMA CountedIsInt ==
    ASSUME NEW c \in Int, NEW s, NEW n \in Nat
    PROVE  /\ CountedUpTo(c, s, n) \in Int
           /\ CountedUpTo(c, s, 0) = c
<1>1. /\ Cardinality(Places(s, n, Joins)) \in Nat /\ Cardinality(Places(s, 0, Joins)) = 0
      /\ Cardinality(Places(s, n, Leaves)) \in Nat /\ Cardinality(Places(s, 0, Leaves)) = 0
  BY CountPlaces
<1> QED
  BY <1>1 DEF CountedUpTo

LEMMA CountedAppend ==
    ASSUME NEW c \in Int, NEW s \in Seq(Updates), NEW u \in Updates
    PROVE  /\ \A n \in 0..Len(s) : CountedUpTo(c, Append(s, u), n) = CountedUpTo(c, s, n)
           /\ CountedUpTo(c, Append(s, u), Len(s) + 1) = CountedUpTo(c, s, Len(s)) + Delta(u)
<1> DEFINE count(t, n, K) == Cardinality(Places(t, n, K))
           join == IF u \in Joins THEN 1 ELSE 0
           leave == IF u \in Leaves THEN 1 ELSE 0
<1>1. Len(s) \in Nat
  BY LenProperties
<1>2. \A n \in 0..Len(s) : CountedUpTo(c, Append(s, u), n) = CountedUpTo(c, s, n)
  <2>1. \A n \in 0..Len(s) :
            /\ Places(Append(s, u), n, Joins) = Places(s, n, Joins)
            /\ Places(Append(s, u), n, Leaves) = Places(s, n, Leaves)
    BY PlacesOfAppend
  <2> QED
    BY <2>1 DEF CountedUpTo
<1>3. /\ count(s, Len(s), Joins) \in Nat
      /\ count(s, Len(s), Leaves) \in Nat
  BY <1>1, CountPlaces
<1>4. /\ count(Append(s, u), Len(s) + 1, Joins) = count(s, Len(s), Joins) + join
      /\ count(Append(s, u), Len(s) + 1, Leaves) = count(s, Len(s), Leaves) + leave
  BY PlacesOfAppend
<1>5. join \in 0..1 /\ leave \in 0..1 /\ Delta(u) = join - leave
  BY DEF Joins, Leaves, Delta
<1>6. /\ CountedUpTo(c, Append(s, u), Len(s) + 1)
           = c + count(Append(s, u), Len(s) + 1, Joins) - count(Append(s, u), Len(s) + 1, Leaves)
      /\ CountedUpTo(c, s, Len(s)) = c + count(s, Len(s), Joins) - count(s, Len(s), Leaves)
  BY DEF CountedUpTo
<1> HIDE DEF count, join, leave
<1>7. CountedUpTo(c, Append(s, u), Len(s) + 1) = CountedUpTo(c, s, Len(s)) + Delta(u)
  BY <1>3, <1>4, <1>5, <1>6
<1> QED
  BY <1>2, <1>7

LEMMA CountedTail ==
    ASSUME NEW c \in Int, NEW s \in Seq(Updates), s # <<>>, NEW n \in 0..(Len(s) - 1)
    PROVE  CountedUpTo(c + Delta(Head(s)), Tail(s), n) = CountedUpTo(c, s, n + 1)
<1> DEFINE count(t, m, K) == Cardinality(Places(t, m, K))
           join == IF Head(s) \in Joins THEN 1 ELSE 0
           leave == IF Head(s) \in Leaves THEN 1 ELSE 0
<1>1. n \in Nat
  BY LenProperties
<1>2. /\ count(Tail(s), n, Joins) \in Nat
      /\ count(Tail(s), n, Leaves) \in Nat
  BY <1>1, CountPlaces
<1>3. /\ count(s, n + 1, Joins) = count(Tail(s), n, Joins) + join
      /\ count(s, n + 1, Leaves) = count(Tail(s), n, Leaves) + leave
  BY PlacesOfTail
<1>4. join \in 0..1 /\ leave \in 0..1 /\ Delta(Head(s)) = join - leave
  BY DEF Joins, Leaves, Delta
<1>5. /\ CountedUpTo(c + Delta(Head(s)), Tail(s), n)
           = (c + Delta(Head(s))) + count(Tail(s), n, Joins) - count(Tail(s), n, Leaves)
      /\ CountedUpTo(c, s, n + 1) = c + count(s, n + 1, Joins) - count(s, n + 1, Leaves)
  BY DEF CountedUpTo
<1> HIDE DEF count, join, leave
<1> QED
  BY <1>2, <1>3, <1>4, <1>5

-----------------------------------------------------------------------------
\* The steps that touch the counter.

\* An update sent adds to the last number of CounterInv only.
LEMMA Sent ==
    ASSUME TypeOK, CounterInv, NEW kind \in {"PeerConnect", "PeerDisconnect"},
           NEW w \in Workers, Tell(kind, w), UNCHANGED shown,
           Cardinality(Sessions')
             = IF kind = "PeerConnect" THEN Cardinality(Sessions) + 1 ELSE Cardinality(Sessions) - 1
    PROVE  CounterInv'
<1> DEFINE u == [kind |-> kind, ip |-> ip[w]]
           s == status_chan
           sent == status_chan'
<1>1. /\ s \in Seq(Updates) /\ u \in Updates
      /\ sent = Append(s, u)
      /\ shown \in Int /\ shown' = shown
  BY SessionsAssumption DEF TypeOK, Tell, Updates
<1>2. Len(s) \in Nat /\ Len(sent) = Len(s) + 1
  BY <1>1, AppendProperties, LenProperties
<1>3. Delta(u) = IF kind = "PeerConnect" THEN 1 ELSE -1
  BY DEF Joins, Leaves, TypeOK, Delta
<1> HIDE DEF u, s, sent
<1>4. /\ \A n \in 0..Len(s) : CountedUpTo(shown, sent, n) = CountedUpTo(shown, s, n)
      /\ CountedUpTo(shown, sent, Len(s) + 1) = CountedUpTo(shown, s, Len(s)) + Delta(u)
  BY <1>1, CountedAppend
<1>5. /\ Cardinality(Sessions) \in 0..DL_WORKERS
      /\ Cardinality(Sessions') \in 0..DL_WORKERS
  BY CountSessions DEF Sessions
<1>6. /\ \A n \in 0..Len(s) : CountedUpTo(shown, s, n) \in 0..DL_WORKERS
      /\ CountedUpTo(shown, s, Len(s)) = Cardinality(Sessions)
  BY DEF CounterInv, s
<1>7. CountedUpTo(shown, sent, Len(s) + 1) = Cardinality(Sessions')
  BY <1>3, <1>4, <1>5, <1>6
<1>8. \A n \in 0..Len(sent) : n \in 0..Len(s) \/ n = Len(s) + 1
  BY <1>2
<1>9. \A n \in 0..Len(sent) : CountedUpTo(shown, sent, n) \in 0..DL_WORKERS
  BY <1>4, <1>5, <1>6, <1>7, <1>8
<1> QED
  BY <1>1, <1>2, <1>7, <1>9 DEF CounterInv, sent

\* An update shown leaves the numbers that follow.
LEMMA Shown ==
    ASSUME TypeOK, CounterInv, Show
    PROVE  CounterInv'
<1> DEFINE s == status_chan
           rest == status_chan'
<1>1. /\ s \in Seq(Updates) /\ s # <<>> /\ shown \in Int
      /\ rest = Tail(s) /\ Sessions' = Sessions
  BY SessionsAssumption DEF TypeOK, Show, Sessions
<1>2. shown' = shown + Delta(Head(s))
  <2>1. Head(s) \in Updates
    BY <1>1, HeadTailProperties
  <2>2. CASE Head(s).kind = "PeerConnect"
    BY <1>1, <2>1, <2>2 DEF Updates, Show, Counted, Delta, Joins
  <2>3. CASE Head(s).kind = "PeerDisconnect"
    BY <1>1, <2>1, <2>3 DEF Updates, Show, Counted, Delta, Joins, Leaves
  <2>4. CASE Head(s).kind \in {"Connected", "Announced"}
    BY <1>1, <2>1, <2>4 DEF Updates, Show, Counted, Delta, Joins, Leaves
  <2> QED
    BY <2>1, <2>2, <2>3, <2>4 DEF Updates
<1>3. Len(s) \in Nat \ {0} /\ Len(rest) = Len(s) - 1
  BY <1>1, HeadTailProperties, LenProperties, EmptySeq
<1> HIDE DEF s, rest
<1>4. \A n \in 0..Len(rest) : CountedUpTo(shown', rest, n) = CountedUpTo(shown, s, n + 1)
  BY <1>1, <1>2, <1>3, CountedTail
<1>5. /\ \A n \in 0..Len(s) : CountedUpTo(shown, s, n) \in 0..DL_WORKERS
      /\ CountedUpTo(shown, s, Len(s)) = Cardinality(Sessions)
  BY DEF CounterInv, s
<1>6. \A n \in 0..Len(rest) : CountedUpTo(shown', rest, n) \in 0..DL_WORKERS
  BY <1>3, <1>4, <1>5
<1>7. CountedUpTo(shown', rest, Len(rest)) = Cardinality(Sessions')
  <2>1. Len(rest) \in 0..Len(rest) /\ Len(rest) + 1 = Len(s)
    BY <1>3
  <2> QED
    BY <2>1, <1>1, <1>4, <1>5
<1> QED
  BY <1>6, <1>7 DEF CounterInv, rest

-----------------------------------------------------------------------------
\* The invariant holds at the start.

LEMMA InitInv == Init => IInv
<1> SUFFICES ASSUME Init
             PROVE  IInv
  OBVIOUS
<1>1. possible_peers \in Seq(IpAddrs) /\ peer_chan = possible_peers
  <2>1. PICK n \in 0..NumPeers : possible_peers \in [1..n -> IpAddrs]
    BY DEF Init, BoundedSeq, SeqOf
  <2>2. n \in Nat
    BY SessionsAssumption
  <2> QED
    BY <2>1, <2>2 DEF Init
<1>2. /\ status_chan \in Seq(Updates) /\ Len(status_chan) = 2
      /\ \A k \in 1..2 : status_chan[k] \notin Joins \cup Leaves
  BY DEF Init, Updates, Joins, Leaves
<1>3. /\ shown = 0 /\ DL_WORKERS \in Nat
      /\ worker = [w \in Workers |-> "recv"] /\ connected_peers = {}
      /\ Sessions = {}
  BY SessionsAssumption DEF Init, Sessions, InSession
<1>4. TypeOK
  BY <1>1, <1>2, <1>3 DEF Init, TypeOK
<1>5. CounterInv
  <2>1. \A n \in 0..2 : Places(status_chan, n, Joins) = {} /\ Places(status_chan, n, Leaves) = {}
    BY <1>2 DEF Places
  <2>2. \A n \in 0..2 : CountedUpTo(shown, status_chan, n) = 0
    <3>1. Cardinality({}) = 0
      BY FS_EmptySet
    <3>2. \A n \in 0..2 : CountedUpTo(shown, status_chan, n) = 0 + 0 - 0
      BY <2>1, <3>1, <1>3 DEF CountedUpTo
    <3> QED
      BY <3>2
  <2> QED
    BY <2>2, <1>2, <1>3, FS_EmptySet DEF CounterInv
<1>6. ChannelInv
  BY <1>1, LenProperties DEF ChannelInv
<1>7. \A w \in Workers : worker[w] \notin Took
  BY <1>3 DEF Took, InSession
<1>8. OneWorkerInv
  BY <1>7 DEF OneWorkerInv, HasPeer
<1>9. TrackedInv
  BY <1>3, <1>7 DEF TrackedInv, Holding, HasPeer
<1> QED
  BY <1>4, <1>5, <1>6, <1>8, <1>9 DEF IInv

\* Every step keeps the types; the bound on the number shown is CounterInv's.
LEMMA TypesStep ==
    ASSUME TypeOK, [Next]_vars
    PROVE  /\ possible_peers' = possible_peers
           /\ peer_chan' \in Seq(IpAddrs)
           /\ worker' \in [Workers -> {"recv", "connect", "connected", "panicked", "exited"} \cup InSession]
           /\ ip' \in [Workers -> IpAddrs]
           /\ connected_peers' \subseteq IpAddrs
           /\ status_chan' \in Seq(Updates)
           /\ shown' \in Int
<1> USE DEF TypeOK
<1>1. shown \in Int
  BY SessionsAssumption
<1>2. CASE Show
  BY <1>1, <1>2, HeadTailProperties DEF Show, Counted
<1>3. ASSUME NEW w \in Workers, RecvPeer(w)
      PROVE  ip' \in [Workers -> IpAddrs] /\ peer_chan' \in Seq(IpAddrs)
  BY <1>3, HeadTailProperties DEF RecvPeer
<1>4. ASSUME NEW w \in Workers, RecvPeer(w) \/ Exit(w) \/ Download(w) \/ Records(w)
      PROVE  worker' \in [Workers -> {"recv", "connect", "connected", "panicked", "exited"} \cup InSession]
  BY <1>4 DEF RecvPeer, Exit, Download, Records, Connect, TellConnect, InsertPeer, RemovePeer,
              TellDisconnect, Goes, InSession
<1>5. ASSUME NEW w \in Workers, TellConnect(w) \/ TellDisconnect(w)
      PROVE  status_chan' \in Seq(Updates)
  <2>1. PICK kind \in {"PeerConnect", "PeerDisconnect"} : Tell(kind, w)
    BY <1>5 DEF TellConnect, TellDisconnect
  <2>2. [kind |-> kind, ip |-> ip[w]] \in Updates
    BY DEF Updates
  <2> QED
    BY <2>1, <2>2, AppendProperties DEF Tell
<1>6. CASE \E w \in Workers : RecvPeer(w) \/ Exit(w) \/ Download(w) \/ Records(w)
  <2>1. PICK w \in Workers : RecvPeer(w) \/ Exit(w) \/ Download(w) \/ Records(w)
    BY <1>6
  <2> QED
    BY <2>1, <1>1, <1>3, <1>4, <1>5
       DEF RecvPeer, Exit, Download, Records, Connect, TellConnect, InsertPeer, RemovePeer, TellDisconnect
<1>7. CASE UNCHANGED vars
  BY <1>1, <1>7 DEF vars
<1> QED
  BY <1>2, <1>6, <1>7 DEF Next

\* Every step keeps the sums.
LEMMA CounterStep ==
    ASSUME TypeOK, CounterInv, [Next]_vars
    PROVE  CounterInv'
<1>1. CASE Show
  BY <1>1, Shown
<1>2. Cardinality(Sessions) \in Nat
  BY SessionsAssumption, CountSessions DEF Sessions
<1>3. ASSUME NEW w \in Workers, TellConnect(w)
      PROVE  CounterInv'
  <2>1. Cardinality(Sessions') = Cardinality(Sessions) + 1
    BY <1>3, OneWorkerMoves DEF TellConnect, InSession
  <2> QED
    BY <2>1, <1>3, Sent DEF TellConnect
<1>4. ASSUME NEW w \in Workers, TellDisconnect(w)
      PROVE  CounterInv'
  <2>1. Cardinality(Sessions') = Cardinality(Sessions) - 1
    BY <1>4, OneWorkerMoves DEF TellDisconnect, InSession
  <2> QED
    BY <2>1, <1>4, Sent DEF TellDisconnect
<1>5. ASSUME NEW w \in Workers, RecvPeer(w) \/ Exit(w) \/ Download(w) \/ Connect(w)
                                \/ InsertPeer(w) \/ RemovePeer(w)
      PROVE  CounterInv'
  <2>1. UNCHANGED <<status_chan, shown>>
    BY <1>5 DEF RecvPeer, Exit, Download, Connect, InsertPeer, RemovePeer
  <2>2. PICK before, after :
            Goes(w, before, after) /\ (before \in InSession <=> after \in InSession)
    BY <1>5 DEF RecvPeer, Exit, Download, Connect, InsertPeer, RemovePeer, InSession
  <2>3. Cardinality(Sessions') = Cardinality(Sessions)
    BY <2>2, OneWorkerMoves
  <2> QED
    BY <2>1, <2>3 DEF CounterInv, CountedUpTo
<1>6. CASE UNCHANGED vars
  BY <1>6 DEF vars, CounterInv, CountedUpTo, Sessions
<1> QED
  BY <1>1, <1>3, <1>4, <1>5, <1>6 DEF Next, Records

-----------------------------------------------------------------------------
\* The steps that touch the peers.

\* Only a worker without a peer changes its address, to the head of the
\* channel; any other step leaves who has which peer or takes one away.
LEMMA WhoHasAPeer ==
    ASSUME TypeOK, [Next]_vars
    PROVE  \/ /\ UNCHANGED <<possible_peers, peer_chan>>
              /\ \A v \in Workers, a \in IpAddrs : HasPeer(v, a)' => HasPeer(v, a)
           \/ \E w \in Workers : RecvPeer(w)
<1>1. CASE Show \/ UNCHANGED vars
  BY <1>1 DEF Show, vars, HasPeer
<1>2. ASSUME NEW w \in Workers, Exit(w) \/ Download(w) \/ Records(w)
      PROVE  /\ UNCHANGED <<possible_peers, peer_chan, ip>>
             /\ \A v \in Workers : worker'[v] \in Took => worker[v] \in Took
  BY <1>2 DEF TypeOK, Exit, Download, Records, Connect, TellConnect, InsertPeer, RemovePeer,
              TellDisconnect, Goes, Took, InSession
<1> QED
  BY <1>1, <1>2 DEF Next, HasPeer

\* What a worker takes: afterwards it has the head, nobody else has changed,
\* and the channel has moved by one.
LEMMA Taken ==
    ASSUME TypeOK, NEW w \in Workers, RecvPeer(w)
    PROVE  /\ possible_peers' = possible_peers /\ connected_peers' = connected_peers
           /\ peer_chan # <<>> /\ Len(peer_chan) \in Nat \ {0}
           /\ Len(peer_chan') = Len(peer_chan) - 1
           /\ \A k \in 1..Len(peer_chan') : peer_chan'[k] = peer_chan[k + 1]
           /\ \A a \in IpAddrs :
                /\ \A v \in Workers : v # w => (HasPeer(v, a)' <=> HasPeer(v, a))
                /\ HasPeer(w, a)' => a = peer_chan[1]
           /\ ~(worker[w] \in Took) /\ worker'[w] = "connect"
           /\ \A v \in Workers : v # w => worker'[v] = worker[v] /\ ip'[v] = ip[v]
<1>1. /\ peer_chan \in Seq(IpAddrs) /\ peer_chan # <<>> /\ peer_chan' = Tail(peer_chan)
      /\ UNCHANGED <<possible_peers, connected_peers>>
  BY DEF RecvPeer, TypeOK
<1>2. /\ Len(peer_chan) \in Nat \ {0}
      /\ Head(peer_chan) = peer_chan[1]
      /\ Len(peer_chan') = Len(peer_chan) - 1
      /\ \A k \in 1..Len(peer_chan') : peer_chan'[k] = peer_chan[k + 1]
  BY <1>1, HeadTailProperties, LenProperties, EmptySeq
<1>3. /\ worker[w] = "recv" /\ worker'[w] = "connect"
      /\ ip'[w] = Head(peer_chan)
      /\ \A v \in Workers : v # w => worker'[v] = worker[v] /\ ip'[v] = ip[v]
  BY DEF RecvPeer, Goes, TypeOK
<1> QED
  BY <1>1, <1>2, <1>3 DEF HasPeer, Took, InSession

LEMMA ChannelStep ==
    ASSUME TypeOK, ChannelInv, [Next]_vars
    PROVE  ChannelInv'
<1>1. CASE UNCHANGED <<possible_peers, peer_chan>>
  BY <1>1 DEF ChannelInv
<1>2. ASSUME NEW w \in Workers, RecvPeer(w)
      PROVE  ChannelInv'
  <2>1. /\ Len(possible_peers) \in Nat /\ Len(peer_chan) \in Nat \ {0}
        /\ Len(peer_chan') = Len(peer_chan) - 1
        /\ \A k \in 1..Len(peer_chan') : peer_chan'[k] = peer_chan[k + 1]
        /\ possible_peers' = possible_peers
    BY <1>2, Taken, LenProperties DEF TypeOK
  <2>2. \A k \in 1..Len(peer_chan') :
            peer_chan'[k] = possible_peers[Len(possible_peers) - Len(peer_chan') + k]
    <3>1. ASSUME NEW k \in 1..Len(peer_chan')
          PROVE  peer_chan'[k] = possible_peers[Len(possible_peers) - Len(peer_chan') + k]
      <4>1. /\ k + 1 \in 1..Len(peer_chan) /\ peer_chan'[k] = peer_chan[k + 1]
            /\ Len(possible_peers) - Len(peer_chan) + (k + 1)
                 = Len(possible_peers) - Len(peer_chan') + k
        BY <2>1
      <4> QED
        BY <4>1 DEF ChannelInv
    <3> QED
      BY <3>1
  <2>3. Len(peer_chan') =< Len(possible_peers)
    BY <2>1 DEF ChannelInv
  <2> QED
    BY <2>1, <2>2, <2>3 DEF ChannelInv
<1> QED
  BY <1>1, <1>2, WhoHasAPeer

LEMMA OneWorkerStep ==
    ASSUME TypeOK, ChannelInv, OneWorkerInv, [Next]_vars
    PROVE  OneWorkerInv'
<1>1. CASE /\ UNCHANGED <<possible_peers, peer_chan>>
           /\ \A v \in Workers, a \in IpAddrs : HasPeer(v, a)' => HasPeer(v, a)
  BY <1>1 DEF OneWorkerInv, ListedOnce
<1>2. ASSUME NEW u \in Workers, RecvPeer(u), NEW a \in IpAddrs, ListedOnce(a)
      PROVE  /\ \A v, w \in Workers : HasPeer(v, a)' /\ HasPeer(w, a)' => v = w
             /\ \A w \in Workers : HasPeer(w, a)' => \A k \in 1..Len(peer_chan') : peer_chan'[k] # a
  <2>1. /\ Len(peer_chan) \in Nat \ {0} /\ Len(peer_chan') = Len(peer_chan) - 1
        /\ \A k \in 1..Len(peer_chan') : peer_chan'[k] = peer_chan[k + 1]
        /\ \A v \in Workers : v # u => (HasPeer(v, a)' <=> HasPeer(v, a))
        /\ HasPeer(u, a)' => a = peer_chan[1]
    BY <1>2, Taken
  <2>2. CASE a = peer_chan[1]
    <3>1. \A w \in Workers : ~HasPeer(w, a)
      BY <1>2, <2>1, <2>2 DEF OneWorkerInv
    <3>2. ASSUME NEW k \in 1..Len(peer_chan'), peer_chan'[k] = a
          PROVE  FALSE
      <4> DEFINE first == Len(possible_peers) - Len(peer_chan)
      <4>1. /\ Len(possible_peers) \in Nat /\ Len(peer_chan) =< Len(possible_peers)
            /\ DOMAIN possible_peers = 1..Len(possible_peers)
        BY LenProperties DEF TypeOK, ChannelInv
      <4>2. possible_peers[first + 1] = a /\ possible_peers[first + (k + 1)] = a
        <5>1. 1 \in 1..Len(peer_chan) /\ k + 1 \in 1..Len(peer_chan)
          BY <2>1
        <5>2. peer_chan[1] = a /\ peer_chan[k + 1] = a
          BY <2>1, <2>2, <3>2
        <5> QED
          BY <5>1, <5>2 DEF ChannelInv
      <4>3. /\ first + 1 \in DOMAIN possible_peers
            /\ first + (k + 1) \in DOMAIN possible_peers
            /\ first + 1 # first + (k + 1)
        BY <2>1, <4>1
      <4> QED
        BY <1>2, <4>2, <4>3 DEF ListedOnce
    <3> QED
      BY <2>1, <3>1, <3>2
  <2>3. CASE a # peer_chan[1]
    <3>1. \A v \in Workers : HasPeer(v, a)' => HasPeer(v, a)
      BY <2>1, <2>3
    <3>2. \A k \in 1..Len(peer_chan') : k + 1 \in 1..Len(peer_chan)
      BY <2>1
    <3> QED
      BY <1>2, <2>1, <3>1, <3>2 DEF OneWorkerInv
  <2> QED
    BY <2>2, <2>3
<1>3. ASSUME NEW u \in Workers, RecvPeer(u)
      PROVE  OneWorkerInv'
  <2>1. \A a \in IpAddrs : ListedOnce(a)' <=> ListedOnce(a)
    BY <1>3, Taken DEF ListedOnce
  <2> QED
    BY <1>2, <1>3, <2>1 DEF OneWorkerInv
<1> QED
  BY <1>1, <1>3, WhoHasAPeer

\* An address enters the set with its worker, and leaves it with the last one
\* if it is listed once.
LEMMA TrackedStep ==
    ASSUME TypeOK, OneWorkerInv, TrackedInv, [Next]_vars
    PROVE  TrackedInv'
<1> DEFINE HeldBy(w, a) == ip[w] = a /\ worker[w] \in {"download", "remove", "lost"}
<1>1. possible_peers' = possible_peers
  BY TypesStep
<1>2. \A a \in IpAddrs :
        /\ ListedOnce(a)' <=> ListedOnce(a)
        /\ Holding(a) <=> \E w \in Workers : HeldBy(w, a)
        /\ Holding(a)' <=> \E w \in Workers : HeldBy(w, a)'
  BY <1>1 DEF ListedOnce, Holding, HasPeer, Took, InSession
<1>3. \A a \in IpAddrs : a \in connected_peers => \E w \in Workers : HeldBy(w, a)
  BY <1>2 DEF TrackedInv
<1>4. \A a \in IpAddrs : ListedOnce(a) /\ (\E w \in Workers : HeldBy(w, a)) => a \in connected_peers
  BY <1>2 DEF TrackedInv
<1>5. ASSUME \A a \in IpAddrs :
                /\ a \in connected_peers' => \E w \in Workers : HeldBy(w, a)'
                /\ ListedOnce(a) /\ (\E w \in Workers : HeldBy(w, a)') => a \in connected_peers'
      PROVE  TrackedInv'
  BY <1>2, <1>5 DEF TrackedInv
<1>6. ASSUME connected_peers' = connected_peers,
             \A w \in Workers, a \in IpAddrs : HeldBy(w, a)' <=> HeldBy(w, a)
      PROVE  TrackedInv'
  BY <1>3, <1>4, <1>5, <1>6
<1>7. CASE Show \/ UNCHANGED vars
  BY <1>6, <1>7 DEF Show, vars
<1>8. ASSUME NEW w \in Workers, RecvPeer(w)
      PROVE  TrackedInv'
  BY <1>6, <1>8 DEF RecvPeer, Goes, TypeOK
<1>9. ASSUME NEW w \in Workers,
             Exit(w) \/ Connect(w) \/ TellConnect(w) \/ Download(w) \/ TellDisconnect(w)
      PROVE  TrackedInv'
  BY <1>6, <1>9 DEF Exit, Connect, TellConnect, Download, TellDisconnect, Goes, TypeOK
<1>10. ASSUME NEW w \in Workers, InsertPeer(w)
       PROVE  TrackedInv'
  <2>1. /\ connected_peers' = connected_peers \cup {ip[w]} /\ ip' = ip
        /\ \A v \in Workers : v # w => worker'[v] = worker[v]
        /\ worker[w] = "insert" /\ worker'[w] = "download"
    BY <1>10 DEF InsertPeer, Goes, TypeOK
  <2>2. \A v \in Workers, a \in IpAddrs : HeldBy(v, a)' <=> HeldBy(v, a) \/ (v = w /\ a = ip[w])
    BY <2>1
  <2> HIDE DEF HeldBy
  <2> QED
    BY <2>1, <2>2, <1>3, <1>4, <1>5
<1>11. ASSUME NEW w \in Workers, RemovePeer(w)
       PROVE  TrackedInv'
  <2>1. /\ connected_peers' = connected_peers \ {ip[w]} /\ ip' = ip
        /\ \A v \in Workers : v # w => worker'[v] = worker[v]
        /\ worker[w] = "remove" /\ worker'[w] = "disconnect"
    BY <1>11 DEF RemovePeer, Goes, TypeOK
  <2>2. \A v \in Workers, a \in IpAddrs : HeldBy(v, a)' <=> HeldBy(v, a) /\ v # w
    BY <2>1
  <2>3. HeldBy(w, ip[w]) /\ ip[w] \in IpAddrs
    BY <2>1 DEF TypeOK
  <2>4. ASSUME NEW a \in IpAddrs, ListedOnce(a)
        PROVE  \A u, v \in Workers : HeldBy(u, a) /\ HeldBy(v, a) => u = v
    BY <2>4 DEF OneWorkerInv, HasPeer, Took, InSession
  <2>5. \A v \in Workers, a \in IpAddrs : HeldBy(v, a) => a = ip[v]
    OBVIOUS
  <2> HIDE DEF HeldBy
  <2> QED
    BY <2>1, <2>2, <2>3, <2>4, <2>5, <1>3, <1>4, <1>5
<1> QED
  BY <1>7, <1>8, <1>9, <1>10, <1>11 DEF Next, Records

-----------------------------------------------------------------------------
\* The invariant is inductive.

LEMMA NextInv == IInv /\ [Next]_vars => IInv'
<1> SUFFICES ASSUME IInv, [Next]_vars
             PROVE  IInv'
  OBVIOUS
<1>1. CounterInv' /\ ChannelInv' /\ OneWorkerInv' /\ TrackedInv'
  BY CounterStep, ChannelStep, OneWorkerStep, TrackedStep DEF IInv
<1>2. TypeOK'
  <2>1. shown' \in Int /\ status_chan' \in Seq(Updates)
    BY TypesStep DEF IInv
  <2>2. CountedUpTo(shown', status_chan', 0) = shown'
    BY <2>1, CountedIsInt
  <2>3. 0 \in 0..Len(status_chan')
    BY <2>1, LenProperties
  <2>4. shown' \in 0..DL_WORKERS
    BY <1>1, <2>2, <2>3 DEF CounterInv
  <2> QED
    BY <2>4, TypesStep DEF IInv, TypeOK
<1> QED
  BY <1>1, <1>2 DEF IInv

LEMMA Inductive == Spec => []IInv
<1> QED
  BY InitInv, NextInv, PTL DEF Spec

\* What the properties say follows from it.

LEMMA CounterInvAdds == IInv => CounterAddsUp
<1> SUFFICES ASSUME IInv
             PROVE  CounterAddsUp
  OBVIOUS
<1>1. status_chan \in Seq(Updates) /\ DOMAIN status_chan = 1..Len(status_chan)
  BY LenProperties DEF IInv, TypeOK
<1>2. \A k \in 1..Len(status_chan) :
        /\ status_chan[k] \in Joins <=> status_chan[k].kind = "PeerConnect"
        /\ status_chan[k] \in Leaves <=> status_chan[k].kind = "PeerDisconnect"
  <2>1. ASSUME NEW k \in 1..Len(status_chan)
        PROVE  status_chan[k] \in Updates
    BY <1>1
  <2> QED
    BY <2>1 DEF Updates, Joins, Leaves
<1>3. /\ Places(status_chan, Len(status_chan), Joins)
           = {k \in DOMAIN status_chan : status_chan[k].kind = "PeerConnect"}
      /\ Places(status_chan, Len(status_chan), Leaves)
           = {k \in DOMAIN status_chan : status_chan[k].kind = "PeerDisconnect"}
  BY <1>1, <1>2 DEF Places
<1> QED
  BY <1>3 DEF IInv, CounterInv, CountedUpTo, CounterAddsUp, Pending

LEMMA TrackedInvTracks == IInv => ConnectedPeersTracked
<1> SUFFICES ASSUME IInv
             PROVE  ConnectedPeersTracked
  OBVIOUS
<1>1. \A a \in IpAddrs :
        Holding(a) <=> \E w \in Workers : ip[w] = a /\ worker[w] \in {"download", "remove", "lost"}
  BY DEF Holding, HasPeer, Took, InSession
<1>2. ASSUME NEW a \in IpAddrs,
             Cardinality({k \in DOMAIN possible_peers : possible_peers[k] = a}) = 1
      PROVE  ListedOnce(a)
  <2> DEFINE At == {k \in DOMAIN possible_peers : possible_peers[k] = a}
  <2>1. Len(possible_peers) \in Nat /\ DOMAIN possible_peers = 1..Len(possible_peers)
    BY LenProperties DEF IInv, TypeOK
  <2>2. IsFiniteSet(At)
    <3>1. At \in SUBSET (1..Len(possible_peers)) /\ IsFiniteSet(1..Len(possible_peers))
      BY <2>1, FS_Interval
    <3> QED
      BY <3>1, FS_Subset
  <2>3. PICK k : At = {k}
    BY <1>2, <2>2, FS_Singleton
  <2> QED
    BY <2>3 DEF ListedOnce
<1> QED
  BY <1>1, <1>2 DEF IInv, TrackedInv, ConnectedPeersTracked

-----------------------------------------------------------------------------
\* The number the status thread shows is that of a possible set of sessions:
\* never below zero and never more than the workers, however long the updates
\* are under way (src/src/status_update.rs 34-41).
THEOREM SessionsTypes == Spec => []TypeOK
<1>1. IInv => TypeOK
  BY DEF IInv
<1> QED
  BY <1>1, Inductive, PTL

\* The counter is right but for the updates under way, for any number of
\* workers and peers, whoever panics (app.rs 261, 271, 277).
THEOREM CounterIsRight == Spec => []CounterAddsUp
<1> QED
  BY CounterInvAdds, Inductive, PTL

\* An address in connected_peers has a worker that put it there; and one with
\* a worker is in it, if it is listed once (app.rs 262, 270, 276).
THEOREM PeersTracked == Spec => []ConnectedPeersTracked
<1> QED
  BY TrackedInvTracks, Inductive, PTL

=============================================================================
