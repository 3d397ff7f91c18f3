--------------------------- MODULE PipelineProofs ---------------------------
(***************************************************************************)
(* Proofs about Pipeline, for every torrent, number of workers, number of  *)
(* peers and number of runs.                                               *)
(***************************************************************************)
EXTENDS Pipeline, SequenceLemmas

\* A worker holds a chunk while it fetches and none while it waits.
HandMatchesState ==
    \A w \in Workers :
        /\ worker[w] \in {"off", "recv_peer", "connecting", "recv_work"}
            => hand[w] = NoChunk
        /\ worker[w] = "fetching" => hand[w] # NoChunk

\* Only chunks of planned pieces are about.
PlannedOnly == InFlight \cup current_block_ids \subseteq WorkQueue(planned)

\* The file of a planned piece exists from the step that receives its last
\* chunk, and is partial only while the assembly thread writes it or died.
FileMatchesIds ==
    \A p \in planned :
        /\ disk[p] # "absent" => AllBlocksReceived(p, current_block_ids)
        /\ asm \in {"recv", "writing"} /\ AllBlocksReceived(p, current_block_ids)
            => disk[p] # "absent"
        /\ asm = "recv" => disk[p] # "partial"
        /\ asm = "writing" => (disk[p] = "partial" <=> p \in open_file)

OneOpenFile ==
    IF asm = "writing" THEN \E p \in planned : open_file = {p} ELSE open_file = {}

\* Types, and what makes them inductive.
TypeInv == TypeOK /\ HandMatchesState

\* The inductive invariant: types, where the chunks are, what the piece
\* manager and the disk hold.
PlacesInv == OnceInEachPlace /\ PlacesDisjoint /\ PlannedOnly /\ NoneLost
FilesInv == OneOpenFile /\ FileMatchesIds /\ MemoryMatchesDisk /\ NoMapPanic
IInv == TypeInv /\ PlacesInv /\ FilesInv

-----------------------------------------------------------------------------
\* What SequenceLemmas says, for a sequence of blocks and the chunks of its blocks.
LEMMA AppendBlock ==
    ASSUME NEW s \in Seq(Block), NEW x \in Block
    PROVE  /\ Append(s, x) \in Seq(Block)
           /\ ChunksOf(Append(s, x)) = ChunksOf(s) \cup {x.chunk}
           /\ AllDifferent(s) /\ x.chunk \notin ChunksOf(s) => AllDifferent(Append(s, x))
<1>1. /\ Append(s, x) \in Seq(Block)
      /\ Len(Append(s, x)) = Len(s) + 1
      /\ \A i \in 1..Len(s) : Append(s, x)[i] = s[i]
      /\ Append(s, x)[Len(s) + 1] = x
  BY AppendProperties
<1>2. /\ Len(s) \in Nat
      /\ DOMAIN s = 1..Len(s)
      /\ DOMAIN Append(s, x) = 1..(Len(s) + 1)
  BY <1>1, LenProperties
<1>3. ChunksOf(Append(s, x)) = ChunksOf(s) \cup {x.chunk}
  BY <1>1, <1>2 DEF ChunksOf
<1>4. AllDifferent(s) /\ x.chunk \notin ChunksOf(s) => AllDifferent(Append(s, x))
  BY <1>1, <1>2 DEF ChunksOf, AllDifferent
<1> QED
  BY <1>1, <1>3, <1>4

LEMMA TakeBlock ==
    ASSUME NEW s \in Seq(Block), s # <<>>
    PROVE  /\ Head(s) \in Block
           /\ Tail(s) \in Seq(Block)
           /\ ChunksOf(s) = ChunksOf(Tail(s)) \cup {Head(s).chunk}
           /\ AllDifferent(s) =>
                /\ AllDifferent(Tail(s))
                /\ Head(s).chunk \notin ChunksOf(Tail(s))
<1>1. /\ Head(s) \in Block
      /\ Head(s) = s[1]
      /\ Tail(s) \in Seq(Block)
      /\ Len(Tail(s)) = Len(s) - 1
      /\ \A i \in 1..Len(Tail(s)) : Tail(s)[i] = s[i + 1]
  BY HeadTailProperties
<1>2. /\ Len(s) \in Nat \ {0}
      /\ DOMAIN s = 1..Len(s)
      /\ DOMAIN Tail(s) = 1..(Len(s) - 1)
  BY <1>1, LenProperties, EmptySeq
<1>3. ChunksOf(s) = ChunksOf(Tail(s)) \cup {Head(s).chunk}
  <2>1. ASSUME NEW i \in DOMAIN s
        PROVE  s[i].chunk \in ChunksOf(Tail(s)) \cup {Head(s).chunk}
    <3>1. CASE i = 1
      BY <3>1, <1>1
    <3>2. CASE i # 1
      <4>1. i - 1 \in DOMAIN Tail(s) /\ Tail(s)[i - 1] = s[i]
        BY <3>2, <1>1, <1>2
      <4> QED
        BY <4>1 DEF ChunksOf
    <3> QED
      BY <3>1, <3>2
  <2>2. ASSUME NEW i \in DOMAIN Tail(s)
        PROVE  Tail(s)[i].chunk \in ChunksOf(s)
    <3>1. i + 1 \in DOMAIN s /\ Tail(s)[i] = s[i + 1]
      BY <1>1, <1>2
    <3> QED
      BY <3>1 DEF ChunksOf
  <2>3. Head(s).chunk \in ChunksOf(s)
    BY <1>1, <1>2 DEF ChunksOf
  <2> QED
    BY <2>1, <2>2, <2>3 DEF ChunksOf
<1>4. ASSUME AllDifferent(s)
      PROVE  AllDifferent(Tail(s)) /\ Head(s).chunk \notin ChunksOf(Tail(s))
  BY <1>1, <1>2, <1>4 DEF AllDifferent, ChunksOf
<1> QED
  BY <1>1, <1>3, <1>4

-----------------------------------------------------------------------------
\* Type correctness.

LEMMA TypeInit == Init => TypeInv
BY PipelineAssumption, EmptySeq
   DEF Init, PieceInit, NoMemory, TypeInv, TypeOK, PieceTypeOK, HandMatchesState,
       FileStates, AsmStates, MainStates, WorkerStates

LEMMA TypeStart ==
    ASSUME TypeInv, Start
    PROVE  TypeInv'
BY PipelineAssumption, EmptySeq
   DEF Start, InitWorkQueue, WorkQueue, CompletedPieces, Chunks, TypeInv, TypeOK,
       PieceTypeOK, HandMatchesState, FileStates, AsmStates, MainStates, WorkerStates

LEMMA TypeEnds ==
    ASSUME TypeInv, NEW m \in MainStates, ProcessEnds(m)
    PROVE  TypeInv'
BY PipelineAssumption, EmptySeq
   DEF ProcessEnds, TypeInv, TypeOK, PieceTypeOK, HandMatchesState,
       FileStates, AsmStates, WorkerStates

LEMMA TypeMain ==
    ASSUME TypeInv, MainStep
    PROVE  TypeInv'
<1> USE DEF TypeInv
<1>1. CASE SeedPeer
  BY <1>1 DEF SeedPeer, TypeOK, PieceTypeOK, HandMatchesState, pieceVars, memoryVars,
              workerVars, MainStates
<1>2. CASE SeedWork
  <2>1. /\ to_seed' \subseteq Chunks
        /\ work_chan' \in Seq(Chunks)
    <3>1. CASE to_seed = {}
      BY <1>2, <3>1 DEF SeedWork, TypeOK
    <3>2. CASE to_seed # {}
      <4>1. PICK c \in to_seed : to_seed' = to_seed \ {c} /\ work_chan' = Append(work_chan, c)
        BY <1>2, <3>2 DEF SeedWork
      <4>2. c \in Chunks /\ work_chan \in Seq(Chunks) /\ to_seed \subseteq Chunks
        BY <4>1 DEF TypeOK
      <4> QED
        BY <4>1, <4>2, AppendProperties
    <3> QED
      BY <3>1, <3>2
  <2> QED
    BY <1>2, <2>1 DEF SeedWork, TypeOK, PieceTypeOK, HandMatchesState, pieceVars,
                      memoryVars, workerVars, MainStates
<1>3. CASE DropPeerSender
  BY <1>3 DEF DropPeerSender, TypeOK, PieceTypeOK, HandMatchesState, pieceVars,
              memoryVars, workerVars, chanVars, MainStates
<1>4. CASE JoinDl
  <2>1. CASE ProcessEnds("down")
    BY <2>1, TypeEnds DEF MainStates
  <2>2. CASE ~ProcessEnds("down")
    BY <1>4, <2>2, PipelineAssumption
       DEF JoinDl, TypeOK, PieceTypeOK, HandMatchesState, pieceVars, memoryVars,
           workerVars, chanVars, MainStates
  <2> QED
    BY <2>1, <2>2
<1>5. CASE JoinAsm
  BY <1>5, TypeEnds DEF JoinAsm, MainStates
<1> QED
  BY <1>1, <1>2, <1>3, <1>4, <1>5 DEF MainStep

LEMMA TypeRequeue ==
    ASSUME TypeInv, NEW w \in Workers, worker[w] = "fetching", Requeue(w),
           UNCHANGED othersOfWorkers
    PROVE  TypeInv'
<1>1. hand[w] \in Chunks
  BY DEF TypeInv, TypeOK, HandMatchesState
<1>2. work_chan' \in Seq(Chunks)
  BY <1>1, AppendProperties DEF Requeue, TypeInv, TypeOK
<1> QED
  BY <1>2 DEF Requeue, Goto, Empty, othersOfWorkers, TypeInv, TypeOK, PieceTypeOK,
              HandMatchesState, pieceVars, memoryVars, mainVars, WorkerStates

LEMMA TypeSend ==
    ASSUME TypeInv, NEW w \in Workers, worker[w] = "fetching", NEW ok \in BOOLEAN,
           SendBlock(w, ok), UNCHANGED othersOfWorkers
    PROVE  TypeInv'
<1>1. [chunk |-> hand[w], ok |-> ok] \in Block
  BY DEF TypeInv, TypeOK, HandMatchesState, Block
<1>2. block_chan' \in Seq(Block)
  BY <1>1, AppendProperties DEF SendBlock, TypeInv, TypeOK
<1> QED
  BY <1>2 DEF SendBlock, Goto, Empty, othersOfWorkers, TypeInv, TypeOK, PieceTypeOK,
              HandMatchesState, pieceVars, memoryVars, mainVars, WorkerStates

LEMMA TypeWorker ==
    ASSUME TypeInv, NEW w \in Workers, WorkerStep(w)
    PROVE  TypeInv'
<1> USE DEF TypeInv
<1>1. CASE RecvPeer(w)
  BY <1>1 DEF RecvPeer, Goto, othersOfWorkers, TypeOK, PieceTypeOK, HandMatchesState,
              pieceVars, memoryVars, mainVars, WorkerStates
<1>2. CASE Connect(w)
  BY <1>2 DEF Connect, Goto, othersOfWorkers, TypeOK, PieceTypeOK, HandMatchesState,
              pieceVars, memoryVars, mainVars, chanVars, WorkerStates
<1>3. CASE RecvWork(w)
  <2>1. Head(work_chan) \in Chunks /\ Tail(work_chan) \in Seq(Chunks)
    BY <1>3, HeadTailProperties DEF RecvWork, TypeOK
  <2>2. Head(work_chan) # NoChunk
    BY <2>1, PipelineAssumption
  <2> QED
    BY <1>3, <2>1, <2>2
       DEF RecvWork, Goto, othersOfWorkers, TypeOK, PieceTypeOK, HandMatchesState,
           pieceVars, memoryVars, mainVars, WorkerStates
<1>4. CASE FetchOk(w)
  BY <1>4, TypeSend, TypeRequeue DEF FetchOk
<1>5. CASE FetchErr(w)
  BY <1>5, TypeRequeue DEF FetchErr
<1>6. CASE FetchNeverReturns(w)
  BY <1>6 DEF FetchNeverReturns, Goto, othersOfWorkers, TypeOK, PieceTypeOK,
              HandMatchesState, pieceVars, memoryVars, mainVars, chanVars, WorkerStates
<1> QED
  BY <1>1, <1>2, <1>3, <1>4, <1>5, <1>6 DEF WorkerStep

LEMMA TypeAsm ==
    ASSUME TypeInv, AsmStep
    PROVE  TypeInv'
<1> USE DEF TypeInv
<1>1. CASE RecvBlock
  <2> DEFINE block == Head(block_chan)
  <2>1. block \in Block /\ Tail(block_chan) \in Seq(Block)
    BY <1>1, HeadTailProperties DEF RecvBlock, TypeOK
  <2>2. block.chunk \in Chunks /\ block.chunk[1] \in Pieces
    BY <2>1 DEF Block, Chunks
  <2>3. /\ current_block_ids' \subseteq Chunks
        /\ piece_map' \subseteq Block
    BY <1>1, <2>1, <2>2 DEF RecvBlock, AddBlock, Inserted, TypeOK, PieceTypeOK
  <2>4. /\ disk' \in [Pieces -> FileStates]
        /\ open_file' \subseteq planned
        /\ asm' \in AsmStates
    BY <1>1, <2>2
       DEF RecvBlock, AddBlock, CreateFile, TypeOK, PieceTypeOK, FileStates, AsmStates
  <2> QED
    BY <1>1, <2>1, <2>3, <2>4
       DEF RecvBlock, AddBlock, TypeOK, PieceTypeOK, HandMatchesState, mainVars, workerVars
<1>2. CASE WriteFile
  BY <1>2 DEF WriteFile, WritePiece, WriteFails, Contents, BlocksOf, TypeOK, PieceTypeOK,
              HandMatchesState, mainVars, chanVars, workerVars, memoryVars, FileStates,
              AsmStates
<1>3. CASE Unwind
  BY <1>3, EmptySeq
     DEF Unwind, TypeOK, PieceTypeOK, HandMatchesState, mainVars, workerVars,
         memoryVars, AsmStates
<1> QED
  BY <1>1, <1>2, <1>3 DEF AsmStep

LEMMA TypeNext ==
    ASSUME TypeInv, [Next]_vars
    PROVE  TypeInv'
<1>1. CASE Start
  BY <1>1, TypeStart
<1>2. CASE Kill
  BY <1>2, TypeEnds DEF Kill, MainStates
<1>3. CASE MainStep
  BY <1>3, TypeMain
<1>4. CASE AsmStep
  BY <1>4, TypeAsm
<1>5. ASSUME NEW w \in Workers, WorkerStep(w)
      PROVE  TypeInv'
  BY <1>5, TypeWorker
<1>6. CASE UNCHANGED vars
  BY <1>6 DEF TypeInv, TypeOK, PieceTypeOK, HandMatchesState, vars, pieceVars, memoryVars,
              mainVars, chanVars, workerVars
<1>7. CASE StartFails
  BY <1>7, PipelineAssumption
     DEF StartFails, TypeInv, TypeOK, PieceTypeOK, HandMatchesState, MainStates, pieceVars,
         memoryVars, chanVars, workerVars
<1> QED
  BY <1>1, <1>2, <1>3, <1>4, <1>5, <1>6, <1>7 DEF Next

\* Every variable keeps its type, for every torrent, worker and peer count.
THEOREM TypeCorrect == Spec => []TypeOK
<1>1. TypeInv => TypeOK
  BY DEF TypeInv
<1> QED
  BY <1>1, TypeInit, TypeNext, PTL DEF Spec

-----------------------------------------------------------------------------
\* Where the chunks are.

LEMMA TakeInHand ==
    ASSUME TypeInv, HandsDiffer, NEW w \in Workers, hand[w] = NoChunk,
           NEW c \in Chunks, c \notin InHand, hand' = [hand EXCEPT ![w] = c]
    PROVE  HandsDiffer' /\ InHand' = InHand \cup {c}
<1>1. hand \in [Workers -> Chunks \cup {NoChunk}] /\ c # NoChunk
  BY PipelineAssumption DEF TypeInv, TypeOK
<1>2. \A v \in Workers : hand'[v] = IF v = w THEN c ELSE hand[v]
  BY <1>1
<1> QED
  BY <1>1, <1>2 DEF HandsDiffer, InHand

LEMMA LeaveHand ==
    ASSUME TypeInv, HandsDiffer, NEW w \in Workers, hand[w] # NoChunk, Empty(w)
    PROVE  HandsDiffer' /\ InHand' = InHand \ {hand[w]} /\ hand[w] \in InHand
<1>1. hand \in [Workers -> Chunks \cup {NoChunk}]
  BY DEF TypeInv, TypeOK
<1>2. \A v \in Workers : hand'[v] = IF v = w THEN NoChunk ELSE hand[v]
  BY <1>1 DEF Empty
<1> QED
  BY <1>1, <1>2 DEF HandsDiffer, InHand

\* Steps that move no chunk.
LEMMA PlacesUnchanged ==
    ASSUME PlacesInv, UNCHANGED <<to_seed, work_chan, block_chan, hand>>,
           UNCHANGED <<planned, current_block_ids>>, ReceiverAlive' => ReceiverAlive
    PROVE  PlacesInv'
BY DEF PlacesInv, OnceInEachPlace, PlacesDisjoint, PlannedOnly, NoneLost, InFlight, InHand,
       InBlocks, HandsDiffer, ChunksOf, AllDifferent, WorkQueue

\* Steps after which no chunk is under way or received.
LEMMA PlacesEmpty ==
    ASSUME work_chan' = <<>>, block_chan' = <<>>, current_block_ids' = {},
           hand' = [w \in Workers |-> NoChunk], to_seed' = WorkQueue(planned')
    PROVE  PlacesInv'
<1>1. InHand' = {}
  BY DEF InHand
<1>2. InBlocks' = {} /\ Range(work_chan') = {}
  BY DEF InBlocks, ChunksOf, Range
<1>3. OnceInEachPlace'
  BY DEF OnceInEachPlace, HandsDiffer, AllDifferent, IsInjective
<1>4. InFlight' = WorkQueue(planned')
  BY <1>1, <1>2 DEF InFlight
<1> QED
  BY <1>1, <1>2, <1>3, <1>4 DEF PlacesInv, PlacesDisjoint, PlannedOnly, NoneLost

LEMMA PlacesEnds ==
    ASSUME NEW m, ProcessEnds(m)
    PROVE  PlacesInv'
<1>1. WorkQueue(planned') = {}
  BY DEF ProcessEnds, WorkQueue
<1> QED
  BY <1>1, PlacesEmpty DEF ProcessEnds

LEMMA PlacesMain ==
    ASSUME TypeInv, PlacesInv, MainStep
    PROVE  PlacesInv'
<1>1. CASE SeedPeer
  BY <1>1, PlacesUnchanged DEF SeedPeer, pieceVars, memoryVars, workerVars, ReceiverAlive
<1>2. CASE SeedWork
  <2>1. CASE to_seed = {}
    BY <1>2, <2>1, PlacesUnchanged
       DEF SeedWork, pieceVars, memoryVars, workerVars, ReceiverAlive
  <2>2. CASE to_seed # {}
    <3>1. PICK c \in to_seed : to_seed' = to_seed \ {c} /\ work_chan' = Append(work_chan, c)
      BY <1>2, <2>2 DEF SeedWork
    <3>2. /\ c \notin Range(work_chan)
          /\ to_seed \subseteq Chunks /\ work_chan \in Seq(Chunks)
      BY <3>1 DEF PlacesInv, PlacesDisjoint, TypeInv, TypeOK
    <3>3. /\ Range(work_chan') = Range(work_chan) \cup {c}
          /\ IsInjective(work_chan) => IsInjective(work_chan')
      BY <3>1, <3>2, AppendToSequence
    <3>4. /\ UNCHANGED <<planned, current_block_ids, block_chan, hand, asm>>
          /\ UNCHANGED <<InHand, InBlocks, HandsDiffer>>
          /\ AllDifferent(block_chan') = AllDifferent(block_chan)
      BY <1>2 DEF SeedWork, pieceVars, memoryVars, workerVars, InHand, InBlocks, HandsDiffer
    <3> QED
      BY <3>1, <3>3, <3>4 DEF PlacesInv, OnceInEachPlace, PlacesDisjoint, PlannedOnly,
                              NoneLost, InFlight, ReceiverAlive, WorkQueue
  <2> QED
    BY <2>1, <2>2
<1>3. CASE DropPeerSender
  BY <1>3, PlacesUnchanged
     DEF DropPeerSender, pieceVars, memoryVars, workerVars, chanVars, ReceiverAlive
<1>4. CASE JoinDl
  <2>1. CASE ProcessEnds("down")
    BY <2>1, PlacesEnds
  <2>2. CASE ~ProcessEnds("down")
    BY <1>4, <2>2, PlacesUnchanged
       DEF JoinDl, pieceVars, memoryVars, workerVars, chanVars, ReceiverAlive
  <2> QED
    BY <2>1, <2>2
<1>5. CASE JoinAsm
  BY <1>5, PlacesEnds DEF JoinAsm
<1> QED
  BY <1>1, <1>2, <1>3, <1>4, <1>5 DEF MainStep

LEMMA PlacesRequeue ==
    ASSUME TypeInv, PlacesInv, NEW w \in Workers, worker[w] = "fetching", Requeue(w),
           UNCHANGED othersOfWorkers
    PROVE  PlacesInv'
<1>1. hand[w] \in Chunks /\ hand[w] # NoChunk
  BY DEF TypeInv, TypeOK, HandMatchesState
<1>2. HandsDiffer' /\ InHand' = InHand \ {hand[w]} /\ hand[w] \in InHand
  BY <1>1, LeaveHand DEF Requeue, PlacesInv, OnceInEachPlace
<1>3. hand[w] \notin Range(work_chan) /\ work_chan \in Seq(Chunks)
  BY <1>2 DEF PlacesInv, PlacesDisjoint, TypeInv, TypeOK
<1>4. /\ Range(work_chan') = Range(work_chan) \cup {hand[w]}
      /\ IsInjective(work_chan) => IsInjective(work_chan')
  BY <1>1, <1>3, AppendToSequence DEF Requeue
<1>5. /\ UNCHANGED <<planned, current_block_ids, block_chan, to_seed, asm, InBlocks>>
      /\ AllDifferent(block_chan') = AllDifferent(block_chan)
  BY DEF Requeue, othersOfWorkers, pieceVars, memoryVars, mainVars, InBlocks
<1> QED
  BY <1>2, <1>4, <1>5 DEF PlacesInv, OnceInEachPlace, PlacesDisjoint, PlannedOnly,
                          NoneLost, InFlight, ReceiverAlive, WorkQueue

LEMMA PlacesSend ==
    ASSUME TypeInv, PlacesInv, NEW w \in Workers, worker[w] = "fetching",
           NEW ok \in BOOLEAN, SendBlock(w, ok), UNCHANGED othersOfWorkers
    PROVE  PlacesInv'
<1> DEFINE block == [chunk |-> hand[w], ok |-> ok]
<1>1. hand[w] \in Chunks /\ hand[w] # NoChunk
  BY DEF TypeInv, TypeOK, HandMatchesState
<1>2. HandsDiffer' /\ InHand' = InHand \ {hand[w]} /\ hand[w] \in InHand
  BY <1>1, LeaveHand DEF SendBlock, PlacesInv, OnceInEachPlace
<1>3. hand[w] \notin ChunksOf(block_chan) /\ block_chan \in Seq(Block) /\ block \in Block
  BY <1>1, <1>2 DEF PlacesInv, PlacesDisjoint, InBlocks, TypeInv, TypeOK, Block
<1>4. /\ ChunksOf(block_chan') = ChunksOf(block_chan) \cup {hand[w]}
      /\ AllDifferent(block_chan) => AllDifferent(block_chan')
  <2> HIDE DEF block
  <2>1. block.chunk = hand[w]
    BY DEF block
  <2>2. block_chan' = Append(block_chan, block)
    BY DEF SendBlock, block
  <2> QED
    BY <1>3, <2>1, <2>2, AppendBlock
<1>5. /\ UNCHANGED <<planned, current_block_ids, work_chan, to_seed, asm>>
      /\ Range(work_chan') = Range(work_chan)
      /\ IsInjective(work_chan') = IsInjective(work_chan)
  BY DEF SendBlock, othersOfWorkers, pieceVars, memoryVars, mainVars
<1> QED
  BY <1>2, <1>4, <1>5 DEF PlacesInv, OnceInEachPlace, PlacesDisjoint, PlannedOnly, InBlocks,
                          NoneLost, InFlight, ReceiverAlive, WorkQueue

LEMMA PlacesRecvWork ==
    ASSUME TypeInv, PlacesInv, NEW w \in Workers, RecvWork(w)
    PROVE  PlacesInv'
<1> DEFINE c == Head(work_chan)
<1>1. /\ c \in Chunks
      /\ Range(work_chan) = Range(work_chan') \cup {c}
      /\ IsInjective(work_chan')
      /\ c \notin Range(work_chan')
  BY TakeFromSequence DEF RecvWork, TypeInv, TypeOK, PlacesInv, OnceInEachPlace
<1>2. HandsDiffer' /\ InHand' = InHand \cup {c}
  <2>1. c \notin InHand
    BY <1>1 DEF PlacesInv, PlacesDisjoint
  <2>2. hand[w] = NoChunk
    BY DEF RecvWork, TypeInv, HandMatchesState
  <2> QED
    BY <1>1, <2>1, <2>2, TakeInHand DEF RecvWork, PlacesInv, OnceInEachPlace
<1>3. /\ UNCHANGED <<planned, current_block_ids, block_chan, to_seed, asm, InBlocks>>
      /\ AllDifferent(block_chan') = AllDifferent(block_chan)
  BY DEF RecvWork, othersOfWorkers, pieceVars, memoryVars, mainVars, InBlocks
<1> HIDE DEF c
<1> QED
  BY <1>1, <1>2, <1>3 DEF PlacesInv, OnceInEachPlace, PlacesDisjoint, PlannedOnly,
                          NoneLost, InFlight, ReceiverAlive, WorkQueue

LEMMA PlacesWorker ==
    ASSUME TypeInv, PlacesInv, NEW w \in Workers, WorkerStep(w)
    PROVE  PlacesInv'
<1>1. CASE RecvPeer(w)
  BY <1>1, PlacesUnchanged
     DEF RecvPeer, othersOfWorkers, pieceVars, memoryVars, mainVars, ReceiverAlive
<1>2. CASE Connect(w)
  BY <1>2, PlacesUnchanged
     DEF Connect, othersOfWorkers, pieceVars, memoryVars, mainVars, chanVars, ReceiverAlive
<1>3. CASE RecvWork(w)
  BY <1>3, PlacesRecvWork
<1>4. CASE FetchOk(w)
  BY <1>4, PlacesSend, PlacesRequeue DEF FetchOk
<1>5. CASE FetchErr(w)
  BY <1>5, PlacesRequeue DEF FetchErr
<1>6. CASE FetchNeverReturns(w)
  BY <1>6, PlacesUnchanged DEF FetchNeverReturns, othersOfWorkers, pieceVars, memoryVars,
                               mainVars, chanVars, ReceiverAlive
<1> QED
  BY <1>1, <1>2, <1>3, <1>4, <1>5, <1>6 DEF WorkerStep

\* The block at the head of the channel is of a planned piece and is new.
LEMMA NextBlock ==
    ASSUME TypeInv, PlacesInv, block_chan # <<>>
    PROVE  /\ Head(block_chan) \in Block
           /\ Head(block_chan).chunk \in WorkQueue(planned)
           /\ Head(block_chan).chunk \notin current_block_ids
           /\ InBlocks = ChunksOf(Tail(block_chan)) \cup {Head(block_chan).chunk}
           /\ Head(block_chan).chunk \notin ChunksOf(Tail(block_chan))
           /\ AllDifferent(Tail(block_chan))
<1>1. block_chan \in Seq(Block) /\ AllDifferent(block_chan)
  BY DEF TypeInv, TypeOK, PlacesInv, OnceInEachPlace
<1>2. /\ Head(block_chan) \in Block
      /\ InBlocks = ChunksOf(Tail(block_chan)) \cup {Head(block_chan).chunk}
      /\ Head(block_chan).chunk \notin ChunksOf(Tail(block_chan))
      /\ AllDifferent(Tail(block_chan))
  BY <1>1, TakeBlock DEF InBlocks
<1> QED
  BY <1>2 DEF PlacesInv, PlacesDisjoint, PlannedOnly, InFlight

LEMMA PlacesAsm ==
    ASSUME TypeInv, PlacesInv, AsmStep
    PROVE  PlacesInv'
<1>1. CASE RecvBlock
  <2> DEFINE c == Head(block_chan).chunk
  <2>1. /\ c \in WorkQueue(planned)
        /\ c \notin current_block_ids
        /\ InBlocks = InBlocks' \cup {c}
        /\ c \notin InBlocks'
        /\ AllDifferent(block_chan')
    BY <1>1, NextBlock DEF RecvBlock, InBlocks
  <2>2. current_block_ids' = current_block_ids \cup {c}
    BY <1>1, <2>1 DEF RecvBlock, AddBlock, WorkQueue
  <2>3. /\ UNCHANGED <<planned, to_seed, work_chan, InHand, HandsDiffer>>
        /\ Range(work_chan') = Range(work_chan)
        /\ IsInjective(work_chan') = IsInjective(work_chan)
        /\ ReceiverAlive
    BY <1>1 DEF RecvBlock, AddBlock, mainVars, workerVars, InHand, HandsDiffer, ReceiverAlive
  <2> HIDE DEF c
  <2> QED
    BY <2>1, <2>2, <2>3 DEF PlacesInv, OnceInEachPlace, PlacesDisjoint, PlannedOnly,
                            NoneLost, InFlight, WorkQueue
<1>2. CASE WriteFile
  BY <1>2, PlacesUnchanged DEF WriteFile, WritePiece, WriteFails, mainVars, chanVars,
                               workerVars, memoryVars, ReceiverAlive
<1>3. CASE Unwind
  <2>1. InBlocks' = {} /\ AllDifferent(block_chan')
    BY <1>3 DEF Unwind, InBlocks, ChunksOf, AllDifferent
  <2>2. /\ UNCHANGED <<planned, current_block_ids, to_seed, work_chan, InHand, HandsDiffer>>
        /\ Range(work_chan') = Range(work_chan)
        /\ IsInjective(work_chan') = IsInjective(work_chan)
        /\ ~ReceiverAlive'
    BY <1>3 DEF Unwind, memoryVars, mainVars, workerVars, InHand, HandsDiffer, ReceiverAlive
  <2> QED
    BY <2>1, <2>2 DEF PlacesInv, OnceInEachPlace, PlacesDisjoint, PlannedOnly, NoneLost,
                      InFlight
<1> QED
  BY <1>1, <1>2, <1>3 DEF AsmStep

LEMMA PlacesNext ==
    ASSUME TypeInv, PlacesInv, [Next]_vars
    PROVE  PlacesInv'
<1>1. CASE Start
  BY <1>1, PlacesEmpty DEF Start, InitWorkQueue
<1>2. CASE Kill
  BY <1>2, PlacesEnds DEF Kill
<1>3. CASE MainStep
  BY <1>3, PlacesMain
<1>4. CASE AsmStep
  BY <1>4, PlacesAsm
<1>5. ASSUME NEW w \in Workers, WorkerStep(w)
      PROVE  PlacesInv'
  BY <1>5, PlacesWorker
<1>6. CASE UNCHANGED vars
  BY <1>6, PlacesUnchanged
     DEF vars, pieceVars, memoryVars, mainVars, chanVars, workerVars, ReceiverAlive
<1>7. CASE StartFails
  BY <1>7, PlacesUnchanged
     DEF StartFails, pieceVars, memoryVars, chanVars, workerVars, ReceiverAlive
<1> QED
  BY <1>1, <1>2, <1>3, <1>4, <1>5, <1>6, <1>7 DEF Next

-----------------------------------------------------------------------------
\* What the piece manager and the disk hold.

LEMMA FilesUnchanged ==
    ASSUME FilesInv, UNCHANGED pieceVars
    PROVE  FilesInv'
BY DEF FilesInv, OneOpenFile, FileMatchesIds, AllBlocksReceived, MemoryMatchesDisk,
       NoMapPanic, pieceVars, memoryVars, ReceiverAlive

LEMMA FilesEnds ==
    ASSUME NEW m, ProcessEnds(m)
    PROVE  FilesInv'
BY DEF ProcessEnds, FilesInv, OneOpenFile, FileMatchesIds, MemoryMatchesDisk, NoMapPanic,
       ReceiverAlive

LEMMA FilesStart ==
    ASSUME TypeInv, Start
    PROVE  FilesInv'
<1>1. \A p \in planned' : disk'[p] = "absent" /\ ~AllBlocksReceived(p, current_block_ids')
  BY PlanAssumption DEF Start, InitWorkQueue, CompletedPieces, AllBlocksReceived
<1> QED
  BY <1>1 DEF Start, InitWorkQueue, FilesInv, OneOpenFile, FileMatchesIds,
              MemoryMatchesDisk, NoMapPanic, ReceiverAlive, Complete

LEMMA FilesRecvBlock ==
    ASSUME TypeInv, PlacesInv, FilesInv, RecvBlock
    PROVE  FilesInv'
<1> DEFINE block == Head(block_chan)
           c == block.chunk
           p == c[1]
           ids == current_block_ids \cup {c}
           map == Inserted(block)
<1>1. /\ block \in Block
      /\ p \in planned /\ c[2] \in Blocks /\ c = <<p, c[2]>>
      /\ c \notin current_block_ids
  BY NextBlock DEF RecvBlock, WorkQueue
<1>2. asm = "recv" /\ AddBlock(block)
  BY DEF RecvBlock, AddBlock
<1>3. disk \in [Pieces -> FileStates] /\ planned \subseteq Pieces
  BY DEF TypeInv, TypeOK, PieceTypeOK
<1>4. disk[p] = "absent" /\ p \in piece_keys
  <2>1. ~AllBlocksReceived(p, current_block_ids)
    BY <1>1 DEF AllBlocksReceived
  <2> QED
    BY <1>1, <1>2, <2>1
       DEF FilesInv, FileMatchesIds, MemoryMatchesDisk, ReceiverAlive, Complete
<1> HIDE DEF block
<1>5. /\ current_block_ids' = ids
      /\ piece_map' = map
      /\ UNCHANGED <<planned, piece_keys>>
  BY <1>1, <1>2, <1>4 DEF AddBlock
<1>6. /\ {b.chunk : b \in map} = {b.chunk : b \in piece_map} \cup {c}
      /\ \A b, d \in map : b.chunk = d.chunk => b = d
  BY <1>2 DEF FilesInv, MemoryMatchesDisk, ReceiverAlive, Inserted
<1>7. {b.chunk : b \in map} = {d \in ids : disk[d[1]] \notin Complete}
  BY <1>2, <1>4, <1>6 DEF FilesInv, MemoryMatchesDisk, ReceiverAlive, Complete
<1>8. \A q \in planned : q # p =>
        (AllBlocksReceived(q, ids) <=> AllBlocksReceived(q, current_block_ids))
  BY <1>1 DEF AllBlocksReceived
<1>9. CASE ~AllBlocksReceived(p, ids)
  <2>1. UNCHANGED <<disk, open_file, asm>>
    BY <1>2, <1>4, <1>9 DEF AddBlock
  <2> QED
    BY <1>2, <1>4, <1>5, <1>6, <1>7, <1>8, <1>9, <2>1
       DEF FilesInv, OneOpenFile, FileMatchesIds, MemoryMatchesDisk, NoMapPanic,
           ReceiverAlive
<1>10. CASE AllBlocksReceived(p, ids)
  <2>1. Assembles(p, map)
    BY <1>4, <1>7, <1>10 DEF AllBlocksReceived, Assembles, Complete
  <2>2. PICK created \in BOOLEAN :
            /\ disk' = IF created THEN [disk EXCEPT ![p] = "partial"] ELSE disk
            /\ open_file' = IF created THEN {p} ELSE {}
            /\ asm' = IF created THEN "writing" ELSE "io_panic"
    BY <1>2, <1>4, <1>10, <2>1 DEF AddBlock, CreateFile
  <2>3. \A q \in Pieces : disk'[q] \in Complete <=> disk[q] \in Complete
    BY <1>3, <1>4, <2>2 DEF Complete
  <2>4. MemoryMatchesDisk'
    <3>1. {d \in ids : disk'[d[1]] \notin Complete} = {d \in ids : disk[d[1]] \notin Complete}
      <4>1. ids \subseteq WorkQueue(planned)
        BY <1>1 DEF PlacesInv, PlannedOnly, WorkQueue
      <4> QED
        BY <1>3, <2>3, <4>1 DEF WorkQueue
    <3>2. {q \in planned : disk'[q] \notin Complete} = {q \in planned : disk[q] \notin Complete}
      BY <1>3, <2>3
    <3> QED
      BY <1>2, <1>5, <1>6, <1>7, <3>1, <3>2 DEF FilesInv, MemoryMatchesDisk, ReceiverAlive
  <2>5. FileMatchesIds'
    <3>1. CASE created
      <4>1. /\ asm' = "writing" /\ open_file' = {p} /\ disk'[p] = "partial"
            /\ \A q \in planned : q # p => disk'[q] = disk[q]
        BY <1>1, <1>3, <2>2, <3>1
      <4> QED
        BY <1>2, <1>5, <1>8, <1>10, <4>1 DEF FilesInv, FileMatchesIds
    <3>2. CASE ~created
      BY <1>2, <1>4, <1>5, <1>8, <2>2, <3>2 DEF FilesInv, FileMatchesIds
    <3> QED
      BY <3>1, <3>2
  <2> QED
    BY <1>1, <1>5, <2>2, <2>4, <2>5 DEF FilesInv, OneOpenFile, NoMapPanic
<1> QED
  BY <1>9, <1>10

LEMMA FilesWrite ==
    ASSUME TypeInv, PlacesInv, FilesInv, WritePiece
    PROVE  FilesInv'
<1>1. PICK p \in planned : open_file = {p}
  BY DEF WritePiece, FilesInv, OneOpenFile
<1>2. /\ disk \in [Pieces -> FileStates]
      /\ planned \subseteq Pieces
      /\ asm = "writing"
  BY DEF TypeInv, TypeOK, PieceTypeOK, WritePiece
<1>3. /\ disk[p] = "partial"
      /\ AllBlocksReceived(p, current_block_ids)
      /\ \A q \in planned : q # p => disk[q] # "partial"
  BY <1>1, <1>2 DEF FilesInv, FileMatchesIds
<1>4. /\ disk'[p] \in Complete
      /\ \A q \in Pieces : q # p => disk'[q] = disk[q]
      /\ piece_map' = piece_map \ BlocksOf(p)
      /\ piece_keys' = piece_keys \ {p}
      /\ open_file' = {} /\ asm' = "recv"
      /\ UNCHANGED <<planned, current_block_ids>>
  BY <1>1, <1>2 DEF WritePiece, Contents, Complete
<1>5. MemoryMatchesDisk'
  <2>1. current_block_ids \subseteq WorkQueue(planned)
    BY DEF PlacesInv, PlannedOnly
  <2>2. {b.chunk : b \in piece_map'} = {c \in current_block_ids : disk'[c[1]] \notin Complete}
    <3>1. {b.chunk : b \in piece_map'} = {d \in {b.chunk : b \in piece_map} : d[1] # p}
      BY <1>4 DEF BlocksOf
    <3>2. {b.chunk : b \in piece_map} = {c \in current_block_ids : disk[c[1]] \notin Complete}
      BY <1>2 DEF FilesInv, MemoryMatchesDisk, ReceiverAlive
    <3> QED
      BY <1>2, <1>4, <2>1, <3>1, <3>2 DEF WorkQueue
  <2>3. piece_keys' = {q \in planned' : disk'[q] \notin Complete}
    BY <1>2, <1>4 DEF FilesInv, MemoryMatchesDisk, ReceiverAlive
  <2>4. \A b, c \in piece_map' : b.chunk = c.chunk => b = c
    BY <1>2, <1>4 DEF FilesInv, MemoryMatchesDisk, ReceiverAlive
  <2> QED
    BY <1>4, <2>2, <2>3, <2>4 DEF MemoryMatchesDisk
<1>6. FileMatchesIds'
  <2>1. /\ disk'[p] # "absent" /\ disk'[p] # "partial"
        /\ \A q \in planned : q # p => disk'[q] = disk[q]
    BY <1>2, <1>4 DEF Complete
  <2> QED
    BY <1>2, <1>3, <1>4, <2>1 DEF FilesInv, FileMatchesIds, AllBlocksReceived
<1> QED
  BY <1>4, <1>5, <1>6 DEF FilesInv, OneOpenFile, NoMapPanic

LEMMA FilesNext ==
    ASSUME TypeInv, PlacesInv, FilesInv, [Next]_vars
    PROVE  FilesInv'
<1>1. CASE Start
  BY <1>1, FilesStart
<1>2. CASE Kill
  BY <1>2, FilesEnds DEF Kill
<1>3. CASE MainStep
  <2>1. ASSUME NEW m, ProcessEnds(m)
        PROVE  FilesInv'
    BY <2>1, FilesEnds
  <2>2. CASE UNCHANGED pieceVars
    BY <2>2, FilesUnchanged
  <2> QED
    BY <1>3, <2>1, <2>2 DEF MainStep, SeedPeer, SeedWork, DropPeerSender, JoinDl, JoinAsm
<1>4. CASE RecvBlock
  BY <1>4, FilesRecvBlock
<1>5. CASE WriteFile
  <2>1. CASE WriteFails
    BY <2>1 DEF WriteFails, FilesInv, OneOpenFile, FileMatchesIds, AllBlocksReceived,
                MemoryMatchesDisk, NoMapPanic, ReceiverAlive, memoryVars
  <2> QED
    BY <1>5, <2>1, FilesWrite DEF WriteFile
<1>6. CASE Unwind
  BY <1>6 DEF Unwind, FilesInv, OneOpenFile, FileMatchesIds, AllBlocksReceived,
              MemoryMatchesDisk, NoMapPanic, ReceiverAlive, memoryVars
<1>7. ASSUME NEW w \in Workers, WorkerStep(w)
      PROVE  FilesInv'
  BY <1>7, FilesUnchanged
     DEF WorkerStep, RecvPeer, Connect, RecvWork, FetchOk, FetchErr, FetchNeverReturns,
         othersOfWorkers
<1>8. CASE UNCHANGED vars
  BY <1>8, FilesUnchanged DEF vars
<1>9. CASE StartFails
  BY <1>9, FilesUnchanged DEF StartFails
<1> QED
  BY <1>1, <1>2, <1>3, <1>4, <1>5, <1>6, <1>7, <1>8, <1>9 DEF Next, AsmStep

-----------------------------------------------------------------------------
\* The inductive invariant and what follows from it.

LEMMA Inductive == Spec => []IInv
<1>1. Init => IInv
  <2>1. ASSUME Init
        PROVE  PlacesInv /\ FilesInv
    <3>1. /\ InHand = {} /\ InBlocks = {} /\ Range(work_chan) = {}
          /\ to_seed = {} /\ current_block_ids = {}
      BY <2>1 DEF Init, PieceInit, NoMemory, InHand, InBlocks, ChunksOf, Range
    <3>2. OnceInEachPlace
      BY <2>1 DEF Init, OnceInEachPlace, HandsDiffer, AllDifferent, IsInjective
    <3>3. FilesInv /\ NoneLost
      BY <2>1 DEF Init, PieceInit, NoMemory, FilesInv, OneOpenFile, FileMatchesIds,
                  MemoryMatchesDisk, NoMapPanic, ReceiverAlive, NoneLost
    <3> QED
      BY <3>1, <3>2, <3>3 DEF PlacesInv, PlacesDisjoint, PlannedOnly, InFlight
  <2> QED
    BY <2>1, TypeInit DEF IInv
<1>2. IInv /\ [Next]_vars => IInv'
  BY TypeNext, PlacesNext, FilesNext DEF IInv
<1> QED
  BY <1>1, <1>2, PTL DEF Spec

\* No interleaving of the threads loses or duplicates a chunk.
THEOREM ChunksConserved == Spec => []OnePlacePerChunk
<1>1. IInv => OnePlacePerChunk
  BY DEF IInv, PlacesInv, OnePlacePerChunk
<1> QED
  BY <1>1, Inductive, PTL

\* The assembly thread never panics on a missing map entry.
THEOREM MapEntriesPresent == Spec => []NoMapPanic
<1>1. IInv => NoMapPanic
  BY DEF IInv, FilesInv
<1> QED
  BY <1>1, Inductive, PTL

\* Blocks are in memory exactly until the file of their piece is complete.
THEOREM BlocksFreedWhenStored == Spec => []MemoryMatchesDisk
<1>1. IInv => MemoryMatchesDisk
  BY DEF IInv, FilesInv
<1> QED
  BY <1>1, Inductive, PTL

\* When nothing is under way every planned piece has a complete file.
THEOREM NothingLeftBehind == Spec => []QuietMeansComplete
<1>1. ASSUME IInv, asm = "recv", InFlight = {}, NEW p \in planned
      PROVE  disk[p] \in Complete
  <2>1. current_block_ids = WorkQueue(planned)
    BY <1>1 DEF IInv, PlacesInv, NoneLost, ReceiverAlive
  <2>2. AllBlocksReceived(p, current_block_ids)
    BY <2>1 DEF WorkQueue, AllBlocksReceived
  <2>3. disk[p] # "absent" /\ disk[p] # "partial"
    BY <1>1, <2>2 DEF IInv, FilesInv, FileMatchesIds
  <2> QED
    BY <1>1, <2>3 DEF IInv, TypeInv, TypeOK, PieceTypeOK, FileStates, Complete
<1>2. IInv => QuietMeansComplete
  BY <1>1 DEF QuietMeansComplete
<1> QED
  BY <1>2, Inductive, PTL

-----------------------------------------------------------------------------
\* What a step does to the files and the received chunks.

\* The steps that change neither, or that end or start the process.
StepKinds ==
    \/ UNCHANGED <<disk, current_block_ids>>
    \/ current_block_ids' = {} /\ UNCHANGED disk
    \/ RecvBlock
    \/ WritePiece

LEMMA KindsOfSteps ==
    ASSUME [Next]_vars
    PROVE  StepKinds
<1>1. CASE Start
  BY <1>1 DEF Start, InitWorkQueue, StepKinds
<1>2. ASSUME NEW m, ProcessEnds(m)
      PROVE  StepKinds
  BY <1>2 DEF ProcessEnds, StepKinds
<1>3. CASE UNCHANGED pieceVars
  BY <1>3 DEF pieceVars, memoryVars, StepKinds
<1>4. CASE Kill
  BY <1>2, <1>4 DEF Kill
<1>5. CASE MainStep
  BY <1>2, <1>3, <1>5 DEF MainStep, SeedPeer, SeedWork, DropPeerSender, JoinDl, JoinAsm
<1>6. CASE AsmStep
  BY <1>6 DEF AsmStep, WriteFile, WriteFails, Unwind, memoryVars, StepKinds
<1>7. ASSUME NEW w \in Workers, WorkerStep(w)
      PROVE  StepKinds
  BY <1>3, <1>7 DEF WorkerStep, RecvPeer, Connect, RecvWork, FetchOk, FetchErr,
                    FetchNeverReturns, othersOfWorkers
<1>8. CASE UNCHANGED vars
  BY <1>3, <1>8 DEF vars
<1>9. CASE StartFails
  BY <1>3, <1>9 DEF StartFails
<1> QED
  BY <1>1, <1>4, <1>5, <1>6, <1>7, <1>8, <1>9 DEF Next

\* Receiving a block is accepting its chunk.
LEMMA RecvAccepts ==
    ASSUME IInv, RecvBlock
    PROVE  \E p \in Pieces, b \in Blocks : Contract!Accept(p, b)
<1> DEFINE block == Head(block_chan)
           c == block.chunk
           p == c[1]
<1>1. /\ p \in planned /\ c[2] \in Blocks /\ c = <<p, c[2]>>
      /\ c \notin current_block_ids
  BY NextBlock DEF RecvBlock, WorkQueue, IInv
<1>2. p \in Pieces
  BY <1>1 DEF IInv, TypeInv, TypeOK, PieceTypeOK
<1>3. asm = "recv" /\ AddBlock(block)
  BY DEF RecvBlock, AddBlock
<1>4. disk[p] = "absent"
  <2>1. ~AllBlocksReceived(p, current_block_ids)
    BY <1>1 DEF AllBlocksReceived
  <2> QED
    BY <1>1, <1>3, <2>1 DEF IInv, FilesInv, FileMatchesIds
<1> HIDE DEF block
<1>5. current_block_ids' = current_block_ids \cup {c}
  BY <1>1, <1>3 DEF AddBlock
<1>6. \/ disk' = disk
      \/ /\ AllBlocksReceived(p, current_block_ids')
         /\ disk' = [disk EXCEPT ![p] = "partial"]
  BY <1>3, <1>5 DEF AddBlock, CreateFile
<1>7. Contract!Accept(p, c[2])
  BY <1>1, <1>4, <1>5, <1>6 DEF Contract!Accept, AllBlocksReceived
<1> QED
  BY <1>1, <1>2, <1>7

\* Writing a file is finishing its piece.
LEMMA WriteFinishes ==
    ASSUME IInv, WritePiece
    PROVE  \E p \in Pieces : Contract!Finish(p)
<1>1. PICK p \in planned : open_file = {p}
  BY DEF WritePiece, IInv, FilesInv, OneOpenFile
<1>2. /\ disk[p] = "partial"
      /\ AllBlocksReceived(p, current_block_ids)
      /\ p \in Pieces
  BY <1>1 DEF WritePiece, IInv, FilesInv, FileMatchesIds, TypeInv, TypeOK, PieceTypeOK
<1>3. /\ disk' = [disk EXCEPT ![p] = Contents(p)]
      /\ Contents(p) \in {"good", "bad"}
      /\ UNCHANGED current_block_ids
  BY <1>1 DEF WritePiece, Contents
<1> QED
  BY <1>2, <1>3 DEF Contract!Finish, AllBlocksReceived

\* The pipeline implements the abstract delivery.
THEOREM PipelineDelivers == Spec => Delivers
<1>1. Init => Contract!Init
  BY DEF Init, PieceInit, NoMemory, Contract!Init
<1>2. ASSUME IInv, [Next]_vars
      PROVE  [Contract!Next]_(Contract!vars)
  <2>1. CASE UNCHANGED <<disk, current_block_ids>>
    BY <2>1 DEF Contract!vars
  <2>2. CASE current_block_ids' = {} /\ UNCHANGED disk
    BY <2>2 DEF Contract!vars, Contract!Next, Contract!Forget
  <2>3. CASE RecvBlock
    BY <1>2, <2>3, RecvAccepts DEF Contract!Next
  <2>4. CASE WritePiece
    BY <1>2, <2>4, WriteFinishes DEF Contract!Next
  <2> QED
    BY <1>2, <2>1, <2>2, <2>3, <2>4, KindsOfSteps DEF StepKinds
<1> QED
  BY <1>1, <1>2, Inductive, PTL DEF Spec, Delivers, Contract!Spec

\* A complete file is never touched again, in this run or a later one.
THEOREM CompleteFilesStay == Spec => CompletePieceImmutable
<1>1. ASSUME IInv, [Next]_vars, NEW p \in Pieces, disk[p] \in Complete
      PROVE  disk'[p] = disk[p]
  <2>1. disk \in [Pieces -> FileStates]
    BY <1>1 DEF IInv, TypeInv, TypeOK, PieceTypeOK
  <2>2. CASE UNCHANGED disk
    BY <2>2
  <2>3. CASE RecvBlock
    <3>1. PICK q \in Pieces, b \in Blocks : Contract!Accept(q, b)
      BY <1>1, <2>3, RecvAccepts
    <3> QED
      BY <1>1, <2>1, <3>1 DEF Contract!Accept, Complete
  <2>4. CASE WritePiece
    <3>1. PICK q \in Pieces : Contract!Finish(q)
      BY <1>1, <2>4, WriteFinishes
    <3> QED
      BY <1>1, <2>1, <3>1 DEF Contract!Finish, Complete
  <2> QED
    BY <1>1, <2>2, <2>3, <2>4, KindsOfSteps DEF StepKinds
<1>2. IInv /\ [Next]_vars =>
        [\A p \in Pieces : disk[p] \in Complete => disk'[p] = disk[p]]_vars
  BY <1>1
<1> QED
  BY <1>2, Inductive, PTL DEF Spec, CompletePieceImmutable

=============================================================================
