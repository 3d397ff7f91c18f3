-------------------------- MODULE PipelineRestProofs --------------------------
(***************************************************************************)
(* How a download ends, for every torrent, number of workers and number of *)
(* peers: every step brings it closer to rest, and at rest there is a      *)
(* reason for it.                                                          *)
(***************************************************************************)
EXTENDS PipelineProofs

\* What the inductive invariant of PipelineProofs does not say about a running
\* download: all threads were started, the chunks are on their way once main
\* has sent them, a worker that left holds none, and a piece that was not
\* planned has a file.
RunningInv ==
    Running =>
        /\ asm \notin {"off", "exited"}
        /\ main \in {"sleep", "join_dl", "join_asm"} => to_seed = {}
        /\ \A w \in Workers :
            /\ worker[w] # "off"
            /\ worker[w] = "exited" => hand[w] = NoChunk
        /\ \A p \in Pieces \ planned : disk[p] # "absent"

-----------------------------------------------------------------------------
\* The invariant.

LEMMA RunningWorker ==
    ASSUME IInv, RunningInv, NEW w \in Workers, WorkerStep(w)
    PROVE  RunningInv'
<1>1. UNCHANGED <<asm, main, to_seed, planned, disk>>
  BY DEF WorkerStep, RecvPeer, Connect, RecvWork, FetchOk, FetchErr, FetchNeverReturns,
         othersOfWorkers, pieceVars, memoryVars, mainVars
<1>2. /\ worker \in [Workers -> WorkerStates]
      /\ worker[w] \in {"recv_peer", "connecting"} => hand[w] = NoChunk
      /\ hand \in [Workers -> Chunks \cup {NoChunk}]
  BY DEF IInv, TypeInv, TypeOK, HandMatchesState, WorkerStep, RecvPeer
<1>3. /\ worker' \in [Workers -> WorkerStates]
      /\ worker'[w] # "off"
      /\ worker'[w] = "exited" => hand'[w] = NoChunk
      /\ \A v \in Workers \ {w} : worker'[v] = worker[v] /\ hand'[v] = hand[v]
  BY <1>2 DEF WorkerStep, RecvPeer, Connect, RecvWork, FetchOk, SendBlock, FetchErr, Requeue,
              FetchNeverReturns, Goto, Empty, WorkerStates
<1> QED
  BY <1>1, <1>3 DEF RunningInv, Running

LEMMA RunningNext ==
    ASSUME IInv, RunningInv, [Next]_vars
    PROVE  RunningInv'
<1>1. CASE Start
  BY <1>1 DEF Start, InitWorkQueue, CompletedPieces, RunningInv, Running
<1>2. CASE main' \in {"down", "done"}
  BY <1>2 DEF RunningInv, Running
<1>3. CASE MainStep /\ Running'
  <2>1. UNCHANGED <<asm, worker, hand, planned, disk>>
    BY <1>3 DEF MainStep, SeedPeer, SeedWork, DropPeerSender, JoinDl, JoinAsm, ProcessEnds,
                pieceVars, memoryVars, workerVars, Running
  <2>2. Running /\ (main' \in {"sleep", "join_dl", "join_asm"} => to_seed' = {})
    BY <1>3 DEF MainStep, SeedPeer, SeedWork, DropPeerSender, JoinDl, JoinAsm, ProcessEnds,
                RunningInv, Running
  <2> QED
    BY <2>1, <2>2 DEF RunningInv
<1>4. CASE AsmStep
  <2>1. UNCHANGED <<main, to_seed, worker, hand, planned>>
    BY <1>4 DEF AsmStep, RecvBlock, AddBlock, WriteFile, WritePiece, WriteFails, Unwind,
                mainVars, workerVars, memoryVars
  <2>2. asm' \notin {"off", "exited"}
    BY <1>4 DEF AsmStep, RecvBlock, AddBlock, CreateFile, WriteFile, WritePiece, WriteFails, Unwind
  <2>3. \A p \in Pieces : disk[p] # "absent" => disk'[p] # "absent"
    <3>1. disk \in [Pieces -> FileStates]
      BY DEF IInv, TypeInv, TypeOK, PieceTypeOK
    <3> QED
      BY <1>4, <3>1 DEF AsmStep, RecvBlock, AddBlock, CreateFile, WriteFile, WritePiece, Contents,
                        WriteFails, Unwind
  <2> QED
    BY <2>1, <2>2, <2>3 DEF RunningInv, Running
<1>5. ASSUME NEW w \in Workers, WorkerStep(w)
      PROVE  RunningInv'
  BY <1>5, RunningWorker
<1>6. CASE UNCHANGED vars
  BY <1>6 DEF vars, pieceVars, memoryVars, mainVars, workerVars, RunningInv, Running
<1>7. MainStep => Running' \/ main' \in {"down", "done"}
  BY DEF Running, MainStep, SeedPeer, SeedWork, DropPeerSender, JoinDl, JoinAsm, ProcessEnds
<1> QED
  BY <1>1, <1>2, <1>3, <1>4, <1>5, <1>6, <1>7 DEF Next, StartFails, Kill, ProcessEnds

LEMMA RunningAlways == Spec => []RunningInv
<1>1. Init => RunningInv
  BY DEF Init, RunningInv, Running
<1> QED
  BY <1>1, RunningNext, Inductive, PTL DEF Spec

\* If a download at rest had none of the reasons, a worker would wait for work
\* and the assembly thread for blocks, and nothing would be under way: then
\* every file is there, which is a reason.
THEOREM RestExplained == Spec => []RestHasReason
<1>1. ASSUME IInv, QuietMeansComplete, RunningInv, Rest, ~Reason
      PROVE  FALSE
  <2>1. /\ Running /\ asm # "dead"
        /\ \A w \in Workers : worker[w] \notin {"panicked", "spinning"}
        /\ \E w \in Workers : worker[w] # "exited"
    BY <1>1 DEF Reason, Lost
  <2>2. asm = "recv" /\ block_chan = <<>> /\ to_seed = {}
    BY <1>1, <2>1 DEF Rest, RunningInv, Running
  <2>3. /\ work_chan = <<>>
        /\ \A w \in Workers : worker[w] \in {"exited", "recv_work"}
    BY <1>1, <2>1 DEF Rest, RunningInv
  <2>4. \A w \in Workers : hand[w] = NoChunk
    BY <1>1, <2>1, <2>3 DEF RunningInv, IInv, TypeInv, HandMatchesState
  <2>5. InFlight = {}
    BY <2>2, <2>3, <2>4 DEF InFlight, InHand, InBlocks, ChunksOf, Range
  <2>6. \A p \in planned : disk[p] \in Complete
    BY <1>1, <2>2, <2>5 DEF QuietMeansComplete
  <2>7. AllStored
    BY <1>1, <2>1, <2>6 DEF AllStored, RunningInv, Complete
  <2> QED
    BY <1>1, <2>7 DEF Reason
<1>2. IInv /\ QuietMeansComplete /\ RunningInv => RestHasReason
  BY <1>1 DEF RestHasReason
<1> QED
  BY <1>2, Inductive, NothingLeftBehind, RunningAlways, PTL

\* So a download that comes to rest stops for one of the reasons.
THEOREM RestIsStop == Spec /\ ComesToRest => StopsForAReason
<1>1. RestHasReason => (Rest => Reason)
  BY DEF RestHasReason
<1> QED
  BY <1>1, RestExplained, PTL DEF ComesToRest, StopsForAReason

-----------------------------------------------------------------------------
\* The parts of the measure are numbers.

LEMMA StatesCount ==
    ASSUME NEW f, NEW states
    PROVE  /\ IsFiniteSet({w \in Workers : f[w] \in states})
           /\ Cardinality({w \in Workers : f[w] \in states}) \in Nat
<1>1. IsFiniteSet(Workers) /\ {w \in Workers : f[w] \in states} \in SUBSET Workers
  BY PipelineAssumption, FS_Interval DEF Workers
<1>2. IsFiniteSet({w \in Workers : f[w] \in states})
  BY <1>1, FS_Subset
<1> QED
  BY <1>2, FS_CardinalityType

LEMMA InIsNat ==
    ASSUME NEW states
    PROVE  /\ IsFiniteSet({w \in Workers : worker[w] \in states})
           /\ In(states) \in Nat /\ In(states)' \in Nat
<1>1. In(states)' = Cardinality({w \in Workers : worker'[w] \in states})
  BY DEF In
<1>2. Cardinality({w \in Workers : worker'[w] \in states}) \in Nat
  BY StatesCount
<1> QED
  BY <1>1, <1>2, StatesCount DEF In

LEMMA ChunksFinite == IsFiniteSet(Chunks)
BY FiniteTorrent, FS_Product DEF Chunks

LEMMA MainStepsIsNat ==
    /\ main \in MainStates /\ joined \in 0..DL_WORKERS => MainSteps \in Nat
    /\ main' \in MainStates /\ joined' \in 0..DL_WORKERS => MainSteps' \in Nat
<1>1. DL_WORKERS \in Nat /\ \A j \in 0..DL_WORKERS : DL_WORKERS - j \in Nat
  BY PipelineAssumption
<1>2. main \in MainStates /\ joined \in 0..DL_WORKERS => MainSteps \in Nat
  BY <1>1 DEF MainSteps, MainStates
<1>3. main' \in MainStates /\ joined' \in 0..DL_WORKERS => MainSteps' \in Nat
  BY <1>1 DEF MainSteps, MainStates
<1> QED
  BY <1>2, <1>3

LEMMA PartsAreNat ==
    ASSUME TypeOK
    PROVE  /\ peers_to_seed \in Nat /\ peer_chan \in Nat
           /\ IsFiniteSet(to_seed) /\ Cardinality(to_seed) \in Nat
           /\ Len(work_chan) \in Nat /\ Len(block_chan) \in Nat
           /\ In({"recv_peer", "connecting"}) \in Nat
           /\ In({"connecting", "recv_work", "fetching"}) \in Nat
           /\ In({"fetching"}) \in Nat
           /\ AsmSteps \in 0..2 /\ MainSteps \in Nat
           /\ joined \in 0..DL_WORKERS /\ DL_WORKERS \in Nat
<1>1. IsFiniteSet(to_seed)
  BY ChunksFinite, FS_Subset DEF TypeOK
<1>2. AsmSteps \in 0..2
  BY DEF AsmSteps
<1>3. MainSteps \in Nat
  BY MainStepsIsNat DEF TypeOK
<1> QED
  BY <1>1, <1>2, <1>3, InIsNat, FS_CardinalityType, LenProperties, PipelineAssumption DEF TypeOK

\* A worker that goes from one state to another leaves some counts and enters
\* others.
LEMMA InMoves ==
    ASSUME TypeOK, NEW w \in Workers, NEW s, Goto(w, s), NEW states
    PROVE  In(states)' = In(states)
                         + (IF worker[w] \notin states /\ s \in states THEN 1 ELSE 0)
                         - (IF worker[w] \in states /\ s \notin states THEN 1 ELSE 0)
<1> DEFINE S == {v \in Workers : worker[v] \in states}
           T == {v \in Workers : worker'[v] \in states}
<1>1. /\ worker'[w] = s
      /\ \A v \in Workers : v # w => worker'[v] = worker[v]
  BY DEF Goto, TypeOK
<1>2. IsFiniteSet(S) /\ Cardinality(S) \in Nat /\ In(states) = Cardinality(S)
  BY InIsNat DEF In
<1>3. In(states)' = Cardinality(T)
  BY DEF In
<1>4. CASE worker[w] \notin states /\ s \in states
  <2>1. T = S \cup {w} /\ w \notin S
    BY <1>1, <1>4
  <2> HIDE DEF S, T
  <2>2. Cardinality(T) = Cardinality(S) + 1
    BY <2>1, <1>2, FS_AddElement
  <2> QED
    BY <2>2, <1>2, <1>3, <1>4
<1>5. CASE worker[w] \in states /\ s \notin states
  <2>1. T = S \ {w} /\ w \in S
    BY <1>1, <1>5
  <2> HIDE DEF S, T
  <2>2. Cardinality(T) = Cardinality(S) - 1
    BY <2>1, <1>2, FS_RemoveElement
  <2> QED
    BY <2>2, <1>2, <1>3, <1>5
<1>6. CASE worker[w] \in states <=> s \in states
  <2>1. T = S
    BY <1>1, <1>6
  <2> HIDE DEF S, T
  <2> QED
    BY <2>1, <1>2, <1>3, <1>6
<1> QED
  BY <1>4, <1>5, <1>6

LEMMA InSame ==
    ASSUME UNCHANGED worker, NEW states
    PROVE  In(states)' = In(states)
BY DEF In

\* The measure is made of numbers, and changes with its parts.

LEMMA MeasureIsNat ==
    ASSUME TypeOK
    PROVE  /\ PeersLeft \in Nat
           /\ PeerSteps \in Nat /\ ChunkSteps \in Nat /\ AsmSteps \in Nat /\ MainSteps \in Nat
<1> DEFINE seeds == Cardinality(to_seed)
           fetching == In({"fetching"})
           works == Len(work_chan)
           blocks == Len(block_chan)
<1>1. seeds \in Nat /\ fetching \in Nat /\ works \in Nat /\ blocks \in Nat
  BY PartsAreNat
<1>2. ChunkSteps = 6 * seeds + 5 * works + 4 * fetching + 3 * blocks
  BY DEF ChunkSteps
<1> HIDE DEF seeds, fetching, works, blocks
<1>3. ChunkSteps \in Nat
  BY <1>1, <1>2
<1>4. PeersLeft \in Nat
  BY PartsAreNat DEF PeersLeft
<1>5. PeerSteps \in Nat
  BY PartsAreNat DEF PeerSteps
<1> QED
  BY <1>3, <1>4, <1>5, PartsAreNat

LEMMA PeersChange ==
    ASSUME TypeOK, TypeOK'
    PROVE  PeerSteps' = PeerSteps + 2 * (peers_to_seed' - peers_to_seed) + (peer_chan' - peer_chan)
                        + (In({"recv_peer", "connecting"})' - In({"recv_peer", "connecting"}))
<1> DEFINE n == In({"recv_peer", "connecting"})
<1>1. n \in Nat /\ peers_to_seed \in Nat /\ peer_chan \in Nat
  BY PartsAreNat
<1>2. n' \in Nat /\ peers_to_seed' \in Nat /\ peer_chan' \in Nat
  BY InIsNat DEF TypeOK
<1>3. PeerSteps = 2 * peers_to_seed + peer_chan + n /\ PeerSteps' = 2 * peers_to_seed' + peer_chan' + n'
  BY DEF PeerSteps
<1> HIDE DEF n
<1>4. PeerSteps' = PeerSteps + 2 * (peers_to_seed' - peers_to_seed) + (peer_chan' - peer_chan) + (n' - n)
  BY <1>1, <1>2, <1>3
<1> QED
  BY <1>4 DEF n

LEMMA ChunksChange ==
    ASSUME TypeOK, TypeOK'
    PROVE  ChunkSteps' = ChunkSteps + 6 * (Cardinality(to_seed') - Cardinality(to_seed))
                         + 5 * (Len(work_chan') - Len(work_chan))
                         + 4 * (In({"fetching"})' - In({"fetching"}))
                         + 3 * (Len(block_chan') - Len(block_chan))
<1> DEFINE s == Cardinality(to_seed)
           k == Len(work_chan)
           f == In({"fetching"})
           b == Len(block_chan)
<1>1. s \in Nat /\ k \in Nat /\ f \in Nat /\ b \in Nat
  BY PartsAreNat
<1>2. s' \in Nat /\ k' \in Nat /\ f' \in Nat /\ b' \in Nat
  <2>1. IsFiniteSet(to_seed')
    BY ChunksFinite, FS_Subset DEF TypeOK
  <2>2. work_chan' \in Seq(Chunks) /\ block_chan' \in Seq(Block)
    BY DEF TypeOK
  <2> QED
    BY <2>1, <2>2, InIsNat, FS_CardinalityType, LenProperties
<1>3. ChunkSteps = 6 * s + 5 * k + 4 * f + 3 * b /\ ChunkSteps' = 6 * s' + 5 * k' + 4 * f' + 3 * b'
  BY DEF ChunkSteps
<1> HIDE DEF s, k, f, b
<1>4. ChunkSteps' = ChunkSteps + 6 * (s' - s) + 5 * (k' - k) + 4 * (f' - f) + 3 * (b' - b)
  BY <1>1, <1>2, <1>3
<1> QED
  BY <1>4 DEF s, k, f, b

\* What a step leaves unchanged keeps its part of the measure.
LEMMA PartsSame ==
    /\ UNCHANGED <<peers_to_seed, peer_chan, worker>> => UNCHANGED <<PeersLeft, PeerSteps>>
    /\ UNCHANGED <<to_seed, work_chan, block_chan, worker>> => UNCHANGED ChunkSteps
    /\ UNCHANGED asm => UNCHANGED AsmSteps
    /\ UNCHANGED <<main, joined>> => UNCHANGED MainSteps
BY InSame DEF PeersLeft, PeerSteps, ChunkSteps, AsmSteps, MainSteps

\* The four parts add up.
LEMMA PartsAdd ==
    ASSUME PeersLeft' = PeersLeft,
           PeerSteps' + ChunkSteps' + AsmSteps' + MainSteps'
             < PeerSteps + ChunkSteps + AsmSteps + MainSteps
    PROVE  Closer
BY DEF Closer, StepsLeft

-----------------------------------------------------------------------------
\* Every step of a running download makes the measure smaller.

\* The end of the process leaves nothing to do.
LEMMA EndsCloser ==
    ASSUME TypeOK, Running, NEW m \in {"down", "done"}, ProcessEnds(m)
    PROVE  Closer
<1>1. \A S : "off" \notin S => In(S)' = 0
  <2>1. \A S : "off" \notin S => {w \in Workers : worker'[w] \in S} = {}
    BY DEF ProcessEnds
  <2> QED
    BY <2>1, FS_EmptySet DEF In
<1>2. PeersLeft' = 0
  BY <1>1 DEF ProcessEnds, PeersLeft
<1>3. StepsLeft' = 0
  <2>1. Cardinality(to_seed') = 0 /\ Len(work_chan') = 0 /\ Len(block_chan') = 0
    BY FS_EmptySet DEF ProcessEnds
  <2>2. In({"recv_peer", "connecting"})' = 0 /\ In({"fetching"})' = 0
    BY <1>1
  <2>3. AsmSteps' = 0 /\ MainSteps' = 0
    BY DEF ProcessEnds, AsmSteps, MainSteps
  <2>4. PeerSteps' = 0
    BY <2>2 DEF ProcessEnds, PeerSteps
  <2>5. ChunkSteps' = 0
    BY <2>1, <2>2 DEF ChunkSteps
  <2> QED
    BY <2>3, <2>4, <2>5 DEF StepsLeft
<1>4. MainSteps > 0
  <2>1. DL_WORKERS \in Nat /\ DL_WORKERS - joined \in Nat
    BY PipelineAssumption DEF TypeOK
  <2> QED
    BY <2>1 DEF Running, MainSteps, TypeOK, MainStates
<1> QED
  BY <1>2, <1>3, <1>4, MeasureIsNat DEF Closer, StepsLeft

\* A step of main: to the next of its stages, or within one.
LEMMA MainCloser ==
    ASSUME TypeOK, TypeOK', MainStep
    PROVE  Closer
<1>1. DL_WORKERS \in Nat /\ joined \in 0..DL_WORKERS
  BY PipelineAssumption DEF TypeOK
<1>2. ASSUME UNCHANGED <<worker, asm, peers_to_seed, peer_chan, to_seed, work_chan, block_chan>>,
             MainSteps' < MainSteps
      PROVE  Closer
  <2>1. UNCHANGED <<PeersLeft, PeerSteps, ChunkSteps, AsmSteps>>
    BY <1>2, PartsSame
  <2>2. MainSteps' \in Nat
    BY MainStepsIsNat DEF TypeOK
  <2> QED
    BY <1>2, <2>1, <2>2, MeasureIsNat, PartsAdd
<1>3. CASE SeedPeer
  <2>1. /\ UNCHANGED <<worker, asm, to_seed, work_chan, block_chan, joined>>
        /\ main = "seed_peers"
    BY <1>3 DEF SeedPeer, pieceVars, workerVars
  <2>2. CASE peers_to_seed > 0
    <3>1. /\ peers_to_seed' = peers_to_seed - 1 /\ peer_chan' = peer_chan + 1 /\ main' = main
          /\ peers_to_seed \in Nat /\ peer_chan \in Nat
      BY <1>3, <2>2 DEF SeedPeer, TypeOK
    <3>2. PeersLeft' = PeersLeft
      BY <2>1, <3>1, InSame, InIsNat DEF PeersLeft
    <3>3. PeerSteps' = PeerSteps - 1
      <4> DEFINE n == In({"recv_peer", "connecting"})
      <4>1. n' = n /\ n \in Nat
        BY <2>1, InSame, InIsNat
      <4>2. PeerSteps' = PeerSteps + 2 * (peers_to_seed' - peers_to_seed) + (peer_chan' - peer_chan) + (n' - n)
        BY PeersChange
      <4>3. PeerSteps \in Nat
        BY MeasureIsNat
      <4> HIDE DEF n
      <4>4. peers_to_seed' - peers_to_seed = -1 /\ peer_chan' - peer_chan = 1 /\ n' - n = 0
        BY <3>1, <4>1
      <4>5. PeerSteps' = PeerSteps + 2 * (-1) + 1 + 0
        BY <4>2, <4>4
      <4> QED
        BY <4>3, <4>5
    <3>4. UNCHANGED <<ChunkSteps, AsmSteps, MainSteps>>
      BY <2>1, <3>1, PartsSame
    <3> QED
      BY <3>2, <3>3, <3>4, MeasureIsNat, PartsAdd
  <2>3. CASE ~(peers_to_seed > 0)
    <3>1. UNCHANGED <<peers_to_seed, peer_chan>> /\ main' = "seed_work"
      BY <1>3, <2>3 DEF SeedPeer
    <3>2. MainSteps' < MainSteps
      BY <1>1, <2>1, <3>1 DEF MainSteps
    <3> QED
      BY <1>2, <2>1, <3>1, <3>2
  <2> QED
    BY <2>2, <2>3
<1>4. CASE SeedWork
  <2>1. /\ UNCHANGED <<worker, asm, peers_to_seed, peer_chan, block_chan, joined>>
        /\ main = "seed_work"
    BY <1>4 DEF SeedWork, pieceVars, workerVars
  <2>2. ASSUME NEW c \in to_seed, to_seed' = to_seed \ {c}, work_chan' = Append(work_chan, c),
               UNCHANGED main
        PROVE  Closer
    <3>1. Cardinality(to_seed') = Cardinality(to_seed) - 1 /\ Cardinality(to_seed) \in Nat
      BY <2>2, PartsAreNat, FS_RemoveElement
    <3>2. Len(work_chan') = Len(work_chan) + 1 /\ Len(work_chan) \in Nat
      <4>1. work_chan \in Seq(Chunks) /\ c \in Chunks
        BY <2>2 DEF TypeOK
      <4> QED
        BY <2>2, <4>1, AppendProperties, LenProperties
    <3>3. Len(block_chan') - Len(block_chan) = 0
      BY <2>1, PartsAreNat
    <3>4. In({"fetching"})' = In({"fetching"}) /\ In({"fetching"}) \in Nat
      BY <2>1, InSame, InIsNat
    <3>5. ChunkSteps' = ChunkSteps - 1
      <4>1. /\ Cardinality(to_seed') - Cardinality(to_seed) = -1
            /\ Len(work_chan') - Len(work_chan) = 1
            /\ In({"fetching"})' - In({"fetching"}) = 0
        BY <3>1, <3>2, <3>4
      <4>2. ChunkSteps' = ChunkSteps + 6 * (-1) + 5 * 1 + 4 * 0 + 3 * 0
        BY <3>3, <4>1, ChunksChange
      <4> QED
        BY <4>2, MeasureIsNat
    <3>6. UNCHANGED <<PeersLeft, PeerSteps, AsmSteps, MainSteps>>
      BY <2>1, <2>2, PartsSame
    <3> QED
      BY <3>5, <3>6, MeasureIsNat, PartsAdd
  <2>3. ASSUME UNCHANGED <<to_seed, work_chan>>, main' = "sleep"
        PROVE  Closer
    <3>1. MainSteps' < MainSteps
      BY <1>1, <2>1, <2>3 DEF MainSteps
    <3> QED
      BY <1>2, <2>1, <2>3, <3>1
  <2> QED
    BY <1>4, <2>2, <2>3 DEF SeedWork
<1>5. CASE DropPeerSender
  <2>1. UNCHANGED <<worker, asm, peers_to_seed, peer_chan, to_seed, work_chan, block_chan, joined>>
    BY <1>5 DEF DropPeerSender, pieceVars, workerVars, chanVars
  <2>2. MainSteps' < MainSteps
    BY <1>1, <1>5, <2>1 DEF DropPeerSender, MainSteps
  <2> QED
    BY <1>2, <2>1, <2>2
<1>6. ASSUME ProcessEnds("down") \/ ProcessEnds("done")
      PROVE  Closer
  <2>1. Running
    BY DEF MainStep, SeedPeer, SeedWork, DropPeerSender, JoinDl, JoinAsm, Running
  <2> QED
    BY <1>6, <2>1, EndsCloser
<1>7. CASE JoinDl /\ ~ProcessEnds("down")
  <2>1. /\ UNCHANGED <<worker, asm, peers_to_seed, peer_chan, to_seed, work_chan, block_chan>>
        /\ main = "join_dl"
        /\ \/ joined < DL_WORKERS /\ joined' = joined + 1 /\ main' = main
           \/ joined = DL_WORKERS /\ joined' = joined /\ main' = "join_asm"
    BY <1>7 DEF JoinDl, pieceVars, workerVars, chanVars
  <2>2. MainSteps' < MainSteps
    BY <1>1, <2>1 DEF MainSteps
  <2> QED
    BY <1>2, <2>1, <2>2
<1> QED
  BY <1>3, <1>4, <1>5, <1>6, <1>7 DEF MainStep, JoinAsm

\* A step of the assembly thread takes a block, or ends what it began.
LEMMA AsmCloser ==
    ASSUME TypeOK, TypeOK', AsmStep
    PROVE  Closer
<1>1. /\ UNCHANGED <<worker, main, joined, peers_to_seed, peer_chan, to_seed, work_chan>>
    BY DEF AsmStep, RecvBlock, WriteFile, Unwind, mainVars, workerVars, chanVars
<1>2. UNCHANGED <<PeersLeft, PeerSteps, MainSteps>>
  BY <1>1, PartsSame
<1>3. CASE RecvBlock
  <2>1. Len(block_chan') = Len(block_chan) - 1 /\ Len(block_chan) \in Nat
    <3>1. block_chan \in Seq(Block) /\ block_chan # <<>> /\ block_chan' = Tail(block_chan)
      BY <1>3 DEF RecvBlock, TypeOK
    <3> QED
      BY <3>1, HeadTailProperties, LenProperties
  <2>2. ChunkSteps' = ChunkSteps - 3
    <3>1. /\ In({"fetching"})' - In({"fetching"}) = 0
          /\ Len(work_chan') - Len(work_chan) = 0
          /\ Cardinality(to_seed') - Cardinality(to_seed) = 0
      BY <1>1, InSame, PartsAreNat
    <3> QED
      BY <2>1, <3>1, ChunksChange, MeasureIsNat
  <2>3. AsmSteps = 0 /\ AsmSteps' =< 2
    <3>1. asm = "recv" /\ asm' \in AsmStates
      BY <1>3 DEF RecvBlock, AddBlock, TypeOK, PieceTypeOK
    <3> QED
      BY <3>1 DEF AsmSteps
  <2>4. AsmSteps' \in Nat
    BY DEF AsmSteps
  <2> QED
    BY <1>2, <2>2, <2>3, <2>4, MeasureIsNat, PartsAdd
<1>4. CASE WriteFile
  <2>1. UNCHANGED ChunkSteps
    BY <1>1, <1>4, PartsSame DEF WriteFile, chanVars
  <2>2. AsmSteps = 2 /\ AsmSteps' \in {0, 1}
    BY <1>4 DEF WriteFile, WritePiece, WriteFails, AsmSteps
  <2> QED
    BY <1>2, <2>1, <2>2, MeasureIsNat, PartsAdd
<1>5. CASE Unwind
  <2>1. Len(block_chan') = 0 /\ Len(block_chan) \in Nat
    BY <1>5, PartsAreNat DEF Unwind
  <2>2. ChunkSteps' = ChunkSteps - 3 * Len(block_chan)
    <3>1. /\ In({"fetching"})' - In({"fetching"}) = 0
          /\ Len(work_chan') - Len(work_chan) = 0
          /\ Cardinality(to_seed') - Cardinality(to_seed) = 0
      BY <1>1, InSame, PartsAreNat
    <3> QED
      BY <2>1, <3>1, ChunksChange, MeasureIsNat
  <2>3. AsmSteps = 1 /\ AsmSteps' = 0
    BY <1>5 DEF Unwind, AsmSteps
  <2> QED
    BY <1>2, <2>1, <2>2, <2>3, MeasureIsNat, PartsAdd
<1> QED
  BY <1>3, <1>4, <1>5 DEF AsmStep

\* A step of a worker: to the next of its stages, or the end of a connection.
LEMMA WorkerCloser ==
    ASSUME TypeOK, TypeOK', NEW w \in Workers, WorkerStep(w)
    PROVE  Closer
<1> DEFINE p == In({"recv_peer", "connecting"})
           c == In({"connecting", "recv_work", "fetching"})
           f == In({"fetching"})
<1>1. p \in Nat /\ c \in Nat /\ f \in Nat
  BY InIsNat
<1>2. /\ UNCHANGED <<main, joined, peers_to_seed, to_seed, asm>>
      /\ peers_to_seed \in Nat /\ peer_chan \in Nat
      /\ Len(work_chan) \in Nat /\ Len(block_chan) \in Nat /\ Cardinality(to_seed) \in Nat
  BY PartsAreNat DEF WorkerStep, RecvPeer, Connect, RecvWork, FetchOk, FetchErr, FetchNeverReturns,
                     othersOfWorkers, pieceVars, mainVars
<1>3. UNCHANGED <<AsmSteps, MainSteps>>
  BY <1>2, PartsSame
<1>4. /\ PeersLeft = peers_to_seed + peer_chan + c
      /\ PeersLeft' = peers_to_seed' + peer_chan' + c'
  BY DEF PeersLeft
<1>5. PeerSteps' = PeerSteps + 2 * (peers_to_seed' - peers_to_seed) + (peer_chan' - peer_chan) + (p' - p)
  BY PeersChange
<1>6. ChunkSteps' = ChunkSteps + 6 * (Cardinality(to_seed') - Cardinality(to_seed))
                    + 5 * (Len(work_chan') - Len(work_chan)) + 4 * (f' - f)
                    + 3 * (Len(block_chan') - Len(block_chan))
  BY ChunksChange
\* The worker's stages.
<1>7. ASSUME worker[w] = "recv_peer", Goto(w, "connecting")
      PROVE  p' = p /\ c' = c + 1 /\ f' = f
  BY <1>1, <1>7, InMoves
<1>8. ASSUME worker[w] = "recv_peer", Goto(w, "exited")
      PROVE  p' = p - 1 /\ c' = c /\ f' = f
  BY <1>1, <1>8, InMoves
<1>9. ASSUME worker[w] = "connecting", Goto(w, "recv_work")
      PROVE  p' = p - 1 /\ c' = c /\ f' = f
  BY <1>1, <1>9, InMoves
<1>10. ASSUME worker[w] = "recv_work", Goto(w, "fetching")
       PROVE  p' = p /\ c' = c /\ f' = f + 1
  BY <1>1, <1>10, InMoves
<1>11. ASSUME worker[w] = "fetching", Goto(w, "recv_work")
       PROVE  p' = p /\ c' = c /\ f' = f - 1
  BY <1>1, <1>11, InMoves
<1>12. ASSUME worker[w] \in {"connecting", "fetching"},
              NEW s \in {"recv_peer", "panicked", "spinning"}, Goto(w, s)
       PROVE  c' = c - 1
  BY <1>1, <1>12, InMoves
<1> HIDE DEF p, c, f
\* What they cost.
<1>13. ASSUME c' = c - 1, UNCHANGED peer_chan
       PROVE  Closer
  BY <1>1, <1>2, <1>4, <1>13 DEF Closer
<1>14. ASSUME UNCHANGED <<work_chan, block_chan>>, f' = f, PeersLeft' = PeersLeft,
              (peer_chan' = peer_chan - 1 /\ p' = p) \/ (peer_chan' = peer_chan /\ p' = p - 1)
       PROVE  Closer
  <2>1. /\ Len(work_chan') - Len(work_chan) = 0 /\ Len(block_chan') - Len(block_chan) = 0
        /\ Cardinality(to_seed') - Cardinality(to_seed) = 0 /\ f' - f = 0
    BY <1>1, <1>2, <1>14
  <2>2. ChunkSteps' = ChunkSteps
    BY <1>6, <2>1, MeasureIsNat
  <2>3. PeerSteps' = PeerSteps - 1
    <3>1. /\ peers_to_seed' - peers_to_seed = 0
          /\ \/ peer_chan' - peer_chan = -1 /\ p' - p = 0
             \/ peer_chan' - peer_chan = 0 /\ p' - p = -1
      BY <1>1, <1>2, <1>14
    <3>2. PeerSteps' = PeerSteps + 2 * 0 + (-1) + 0 \/ PeerSteps' = PeerSteps + 2 * 0 + 0 + (-1)
      BY <1>5, <3>1
    <3> QED
      BY <3>2, MeasureIsNat
  <2> QED
    BY <1>3, <1>14, <2>2, <2>3, MeasureIsNat, PartsAdd
<1>15. ASSUME UNCHANGED peer_chan, p' = p, c' = c,
              \/ /\ Len(work_chan') - Len(work_chan) = -1 /\ f' - f = 1
                 /\ Len(block_chan') - Len(block_chan) = 0
              \/ /\ Len(work_chan') - Len(work_chan) = 0 /\ f' - f = -1
                 /\ Len(block_chan') - Len(block_chan) = 1
       PROVE  Closer
  <2>1. PeersLeft' = PeersLeft
    BY <1>1, <1>2, <1>4, <1>15
  <2>2. PeerSteps' = PeerSteps
    <3>1. peers_to_seed' - peers_to_seed = 0 /\ peer_chan' - peer_chan = 0 /\ p' - p = 0
      BY <1>1, <1>2, <1>15
    <3> QED
      BY <1>5, <3>1, MeasureIsNat
  <2>3. ChunkSteps' = ChunkSteps - 1
    <3>1. Cardinality(to_seed') - Cardinality(to_seed) = 0
      BY <1>2
    <3>2. \/ ChunkSteps' = ChunkSteps + 6 * 0 + 5 * (-1) + 4 * 1 + 3 * 0
          \/ ChunkSteps' = ChunkSteps + 6 * 0 + 5 * 0 + 4 * (-1) + 3 * 1
      BY <1>6, <1>15, <3>1
    <3> QED
      BY <3>2, MeasureIsNat
  <2> QED
    BY <1>3, <2>1, <2>2, <2>3, MeasureIsNat, PartsAdd
\* The actions.
<1>16. CASE RecvPeer(w)
  <2>1. worker[w] = "recv_peer" /\ UNCHANGED <<work_chan, block_chan>>
    BY <1>16 DEF RecvPeer
  <2>2. CASE peer_chan' = peer_chan - 1 /\ Goto(w, "connecting")
    BY <1>1, <1>2, <1>4, <1>7, <1>14, <2>1, <2>2
  <2>3. CASE peer_chan' = peer_chan /\ Goto(w, "exited")
    BY <1>1, <1>2, <1>4, <1>8, <1>14, <2>1, <2>3
  <2> QED
    BY <1>16, <2>2, <2>3 DEF RecvPeer
<1>17. CASE Connect(w)
  <2>1. worker[w] = "connecting" /\ UNCHANGED <<work_chan, block_chan, peer_chan>>
    BY <1>17 DEF Connect, chanVars
  <2>2. CASE Goto(w, "recv_work")
    BY <1>1, <1>2, <1>4, <1>9, <1>14, <2>1, <2>2
  <2>3. CASE Goto(w, "recv_peer") \/ Goto(w, "panicked")
    BY <1>12, <1>13, <2>1, <2>3
  <2> QED
    BY <1>17, <2>2, <2>3 DEF Connect
<1>18. CASE RecvWork(w)
  <2>1. /\ worker[w] = "recv_work" /\ Goto(w, "fetching")
        /\ UNCHANGED <<peer_chan, block_chan>>
    BY <1>18 DEF RecvWork
  <2>2. Len(work_chan') - Len(work_chan) = -1
    <3>1. work_chan \in Seq(Chunks) /\ work_chan # <<>> /\ work_chan' = Tail(work_chan)
      BY <1>18 DEF RecvWork, TypeOK
    <3> QED
      BY <1>2, <3>1, HeadTailProperties
  <2>3. f' - f = 1 /\ Len(block_chan') - Len(block_chan) = 0
    BY <1>1, <1>2, <1>10, <2>1
  <2> QED
    BY <1>10, <1>15, <2>1, <2>2, <2>3
<1>19. ASSUME worker[w] = "fetching", NEW ok \in BOOLEAN, SendBlock(w, ok)
       PROVE  Closer
  <2>1. Goto(w, "recv_work") /\ UNCHANGED <<peer_chan, work_chan>>
    BY <1>19 DEF SendBlock
  <2>2. Len(block_chan') - Len(block_chan) = 1
    <3>1. block_chan \in Seq(Block) /\ block_chan' = Append(block_chan, [chunk |-> hand[w], ok |-> ok])
      BY <1>19 DEF SendBlock, TypeOK
    <3> QED
      BY <1>2, <3>1
  <2>3. f' - f = -1 /\ Len(work_chan') - Len(work_chan) = 0
    BY <1>1, <1>2, <1>11, <1>19, <2>1
  <2> QED
    BY <1>11, <1>15, <1>19, <2>1, <2>2, <2>3
<1>20. ASSUME worker[w] = "fetching", Requeue(w)
       PROVE  Closer
  BY <1>12, <1>13, <1>20 DEF Requeue
<1>21. CASE FetchNeverReturns(w)
  BY <1>12, <1>13, <1>21 DEF FetchNeverReturns, chanVars
<1> QED
  BY <1>16, <1>17, <1>18, <1>19, <1>20, <1>21 DEF WorkerStep, FetchOk, FetchErr

\* No download goes on for ever: whatever the threads do and in whatever order,
\* a step of a running download makes the measure smaller, and a lexicographic
\* order of two numbers has no infinite descent.
THEOREM RunsWindDown == Spec => WindsDown
<1>1. ASSUME TypeInv, [Next]_vars, Running
      PROVE  Closer \/ UNCHANGED vars
  <2>1. TypeOK /\ TypeOK'
    BY <1>1, TypeNext DEF TypeInv
  <2>2. CASE Kill
    BY <1>1, <2>1, <2>2, EndsCloser DEF Kill
  <2>3. ASSUME NEW w \in Workers, WorkerStep(w)
        PROVE  Closer
    BY <2>1, <2>3, WorkerCloser
  <2> QED
    BY <1>1, <2>1, <2>2, <2>3, MainCloser, AsmCloser DEF Next, Start, StartFails
<1>2. TypeInv /\ [Next]_vars => [Running => Closer]_vars
  BY <1>1
<1> QED
  BY <1>2, TypeInit, TypeNext, PTL DEF Spec, WindsDown

=============================================================================
