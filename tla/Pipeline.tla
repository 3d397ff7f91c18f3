------------------------------ MODULE Pipeline ------------------------------
(***************************************************************************)
(* One download (App::download, src/src/app.rs): the main thread seeds a   *)
(* channel of peers and a channel of work chunks and then joins the other  *)
(* threads; download workers take a peer, then chunks, and send blocks;    *)
(* the assembly thread feeds the blocks to the piece manager.  The process *)
(* may be killed at any point and started again on the files it left.      *)
(*                                                                         *)
(* Peers are indistinguishable here, so their channel is a number.         *)
(***************************************************************************)
EXTENDS PieceManager

CONSTANTS
    DL_WORKERS, \* the number of download workers
    NumPeers,   \* bound: peers in one announce response
    MaxRuns,    \* bound: times the program is started
    NoChunk     \* the hand of a worker that holds no chunk

ASSUME PipelineAssumption ==
    /\ DL_WORKERS \in Nat
    /\ NumPeers \in Nat
    /\ MaxRuns \in Nat
    /\ NoChunk \notin Chunks

Workers == 1..DL_WORKERS

VARIABLES
    main,           \* control state of the main thread
    joined,         \* download workers joined so far
    peers_to_seed,  \* peers not yet put on the peer channel
    to_seed,        \* chunks of the work queue not yet put on the work channel
    peer_chan,      \* peers on the peer channel
    work_chan,      \* chunks on the work channel, in order
    block_chan,     \* blocks on the block channel, in order
    worker,         \* control state of each download worker
    hand,           \* the chunk each download worker has taken
    runs            \* times the program was started

mainVars == <<main, joined, peers_to_seed, to_seed, runs>>
chanVars == <<peer_chan, work_chan, block_chan>>
workerVars == <<worker, hand>>
vars == <<pieceVars, mainVars, chanVars, workerVars>>

\* "down": no process; "done": download returned.
MainStates == {"down", "seed_peers", "seed_work", "sleep", "join_dl", "join_asm", "done"}

WorkerStates == {"off", "recv_peer", "connecting", "recv_work", "fetching",
                 "exited", "panicked", "spinning"}

TypeOK ==
    /\ PieceTypeOK
    /\ main \in MainStates
    /\ joined \in 0..DL_WORKERS
    /\ peers_to_seed \in Nat
    /\ to_seed \subseteq Chunks
    /\ peer_chan \in Nat
    /\ work_chan \in Seq(Chunks)
    /\ block_chan \in Seq(Block)
    /\ worker \in [Workers -> WorkerStates]
    /\ hand \in [Workers -> Chunks \cup {NoChunk}]
    /\ runs \in Nat

Running == main \notin {"down", "done"}

\* The block channel has its receiver until the assembly thread has unwound.
ReceiverAlive == asm \in {"recv", "writing", "io_panic", "map_panic"}

-----------------------------------------------------------------------------
Init ==
    /\ PieceInit
    /\ main = "down"
    /\ joined = 0
    /\ peers_to_seed = 0
    /\ to_seed = {}
    /\ peer_chan = 0
    /\ work_chan = <<>>
    /\ block_chan = <<>>
    /\ worker = [w \in Workers |-> "off"]
    /\ hand = [w \in Workers |-> NoChunk]
    /\ runs = 0

\* The program starts and gets an announce response: the piece manager plans
\* the missing pieces, then the threads start on empty channels.
Start ==
    /\ ~Running
    /\ runs < MaxRuns
    /\ runs' = runs + 1
    /\ InitWorkQueue
    /\ main' = "seed_peers"
    /\ joined' = 0
    /\ peers_to_seed' \in 0..NumPeers
    /\ to_seed' = WorkQueue(planned')
    /\ peer_chan' = 0
    /\ work_chan' = <<>>
    /\ block_chan' = <<>>
    /\ worker' = [w \in Workers |-> "recv_peer"]
    /\ hand' = [w \in Workers |-> NoChunk]

\* The process ends in state m: every thread and everything in memory is gone.
ProcessEnds(m) ==
    /\ main' = m
    /\ joined' = 0
    /\ peers_to_seed' = 0
    /\ to_seed' = {}
    /\ peer_chan' = 0
    /\ work_chan' = <<>>
    /\ block_chan' = <<>>
    /\ worker' = [w \in Workers |-> "off"]
    /\ hand' = [w \in Workers |-> NoChunk]
    /\ planned' = {} /\ current_block_ids' = {}
    /\ piece_map' = {} /\ piece_keys' = {}
    /\ open_file' = {} /\ asm' = "off"
    /\ UNCHANGED <<disk, runs>>

\* A start that reaches no thread: the announce fails, or the directory scan of
\* init_work_queue panics on a file whose name is not a piece number.
StartFails ==
    /\ ~Running
    /\ runs < MaxRuns
    /\ runs' = runs + 1
    /\ main' = "down"
    /\ UNCHANGED <<pieceVars, joined, peers_to_seed, to_seed, chanVars, workerVars>>

\* The user or the system kills the process.
Kill == Running /\ ProcessEnds("down")

-----------------------------------------------------------------------------
\* Main thread.

\* Faulty variant: one peer too many is sent.
SeedPeerOffByOne ==
    /\ main = "seed_peers"
    /\ peers_to_seed' = peers_to_seed - 1
    /\ peer_chan' = peer_chan + 1
    /\ main' = IF peers_to_seed = 0 THEN "seed_work" ELSE main
    /\ UNCHANGED <<pieceVars, joined, to_seed, runs, work_chan, block_chan, workerVars>>

SeedPeer ==
    /\ main = "seed_peers"
    /\ IF peers_to_seed > 0
       THEN /\ peers_to_seed' = peers_to_seed - 1
            /\ peer_chan' = peer_chan + 1
            /\ UNCHANGED main
       ELSE /\ main' = "seed_work"
            /\ UNCHANGED <<peers_to_seed, peer_chan>>
    /\ UNCHANGED <<pieceVars, joined, to_seed, runs, work_chan, block_chan, workerVars>>

\* The work queue is in order of piece, then block.
Before(c, d) == c[1] < d[1] \/ (c[1] = d[1] /\ c[2] =< d[2])

SeedWork ==
    /\ main = "seed_work"
    /\ \/ \E c \in to_seed :
            /\ \A d \in to_seed : Before(c, d)
            /\ to_seed' = to_seed \ {c}
            /\ work_chan' = Append(work_chan, c)
            /\ UNCHANGED main
       \/ /\ to_seed = {}
          /\ main' = "sleep"
          /\ UNCHANGED <<to_seed, work_chan>>
    /\ UNCHANGED <<pieceVars, joined, peers_to_seed, runs, peer_chan, block_chan, workerVars>>

\* After 30 seconds main drops its peer_sender, the last one.
DropPeerSender ==
    /\ main = "sleep"
    /\ main' = "join_dl"
    /\ UNCHANGED <<pieceVars, joined, peers_to_seed, to_seed, runs, chanVars, workerVars>>

\* join_connection_workers on the download workers, in order: the unwrap of a
\* panicked worker's result panics main, which ends the process.
JoinDl ==
    /\ main = "join_dl"
    /\ \/ /\ joined < DL_WORKERS
          /\ worker[joined + 1] = "exited"
          /\ joined' = joined + 1
          /\ UNCHANGED <<pieceVars, main, peers_to_seed, to_seed, runs, chanVars, workerVars>>
       \/ /\ joined < DL_WORKERS
          /\ worker[joined + 1] = "panicked"
          /\ ProcessEnds("down")
       \/ /\ joined = DL_WORKERS
          /\ main' = "join_asm"
          /\ UNCHANGED <<pieceVars, joined, peers_to_seed, to_seed, runs, chanVars, workerVars>>

JoinAsm ==
    /\ main = "join_asm"
    /\ asm \in {"dead", "exited"}
    /\ ProcessEnds(IF asm = "exited" THEN "done" ELSE "down")

MainStep == SeedPeer \/ SeedWork \/ DropPeerSender \/ JoinDl \/ JoinAsm

-----------------------------------------------------------------------------
\* Download worker w.

Goto(w, s) == worker' = [worker EXCEPT ![w] = s]
Empty(w) == hand' = [hand EXCEPT ![w] = NoChunk]
othersOfWorkers == <<pieceVars, mainVars>>

\* peer_recv.recv(): an error once the channel is empty and main dropped its sender.
RecvPeer(w) ==
    /\ worker[w] = "recv_peer"
    /\ \/ /\ peer_chan > 0
          /\ peer_chan' = peer_chan - 1
          /\ Goto(w, "connecting")
       \/ /\ peer_chan = 0
          /\ main \in {"join_dl", "join_asm"}
          /\ Goto(w, "exited")
          /\ UNCHANGED peer_chan
    /\ UNCHANGED <<othersOfWorkers, work_chan, block_chan, hand>>

\* attempt_peer_connect: connected; refused (next peer); or an unwrap panics.
Connect(w) ==
    /\ worker[w] = "connecting"
    /\ \E s \in {"recv_work", "recv_peer", "panicked"} : Goto(w, s)
    /\ UNCHANGED <<othersOfWorkers, chanVars, hand>>

\* work_recv.recv(): it never fails, since main and every worker keep a sender.
RecvWork(w) ==
    /\ worker[w] = "recv_work"
    /\ work_chan # <<>>
    /\ hand' = [hand EXCEPT ![w] = Head(work_chan)]
    /\ work_chan' = Tail(work_chan)
    /\ Goto(w, "fetching")
    /\ UNCHANGED <<othersOfWorkers, peer_chan, block_chan>>

\* The chunk goes to the back of the work channel and the connection ends.
Requeue(w) ==
    /\ work_chan' = Append(work_chan, hand[w])
    /\ Empty(w)
    /\ Goto(w, "recv_peer")
    /\ UNCHANGED <<peer_chan, block_chan>>

\* Faulty variant: the chunk also goes back to the work channel.
SendBlockAndRequeue(w, ok) ==
    /\ block_chan' = Append(block_chan, [chunk |-> hand[w], ok |-> ok])
    /\ work_chan' = Append(work_chan, hand[w])
    /\ Empty(w)
    /\ Goto(w, "recv_work")
    /\ UNCHANGED peer_chan

\* The block of the chunk in hand is sent and the next chunk is received.
SendBlock(w, ok) ==
    /\ block_chan' = Append(block_chan, [chunk |-> hand[w], ok |-> ok])
    /\ Empty(w)
    /\ Goto(w, "recv_work")
    /\ UNCHANGED <<peer_chan, work_chan>>

\* fetch_block_data returns data, which need not be the torrent's bytes.
FetchOk(w) ==
    /\ worker[w] = "fetching"
    /\ \E ok \in BOOLEAN : IF ReceiverAlive THEN SendBlock(w, ok) ELSE Requeue(w)
    /\ UNCHANGED othersOfWorkers

\* Faulty variant: the chunk of a failed fetch is dropped.
FetchErrDropsChunk(w) ==
    /\ worker[w] = "fetching"
    /\ Empty(w)
    /\ Goto(w, "recv_peer")
    /\ UNCHANGED <<othersOfWorkers, chanVars>>

\* Faulty variant: the connection is kept after a failed fetch.
FetchErrSamePeer(w) ==
    /\ worker[w] = "fetching"
    /\ work_chan' = Append(work_chan, hand[w])
    /\ Empty(w)
    /\ Goto(w, "recv_work")
    /\ UNCHANGED <<othersOfWorkers, peer_chan, block_chan>>

\* fetch_block_data returns an error.
FetchErr(w) ==
    /\ worker[w] = "fetching"
    /\ Requeue(w)
    /\ UNCHANGED othersOfWorkers

\* fetch_block_data panics (a read times out, a short message) or reads an
\* ended connection over and over: the chunk stays in the worker's hand.
FetchNeverReturns(w) ==
    /\ worker[w] = "fetching"
    /\ \E s \in {"panicked", "spinning"} : Goto(w, s)
    /\ UNCHANGED <<othersOfWorkers, chanVars, hand>>

WorkerStep(w) ==
    \/ RecvPeer(w) \/ Connect(w) \/ RecvWork(w)
    \/ FetchOk(w) \/ FetchErr(w) \/ FetchNeverReturns(w)

-----------------------------------------------------------------------------
\* Assembly thread.

\* block_recv.recv(): it fails only without senders, and main and every
\* connected worker keep one.
RecvBlock ==
    /\ block_chan # <<>>
    /\ AddBlock(Head(block_chan))
    /\ block_chan' = Tail(block_chan)
    /\ UNCHANGED <<mainVars, peer_chan, work_chan, workerVars>>

WriteFile ==
    /\ WritePiece \/ WriteFails
    /\ UNCHANGED <<mainVars, chanVars, workerVars>>

\* A panicking assembly thread drops the receiver and the blocks on the channel.
Unwind ==
    /\ asm \in {"io_panic", "map_panic"}
    /\ asm' = "dead"
    /\ block_chan' = <<>>
    /\ UNCHANGED <<memoryVars, disk, open_file, mainVars, peer_chan, work_chan, workerVars>>

AsmStep == RecvBlock \/ WriteFile \/ Unwind

-----------------------------------------------------------------------------
Next ==
    \/ Start \/ StartFails \/ Kill
    \/ MainStep \/ AsmStep
    \/ \E w \in Workers : WorkerStep(w)

Spec == Init /\ [][Next]_vars

\* Every thread that can take a step is scheduled eventually, and a connect or
\* a fetch is resolved: connecting is limited to 2 seconds and each read to 5.
\* Nothing makes the user kill or start the program.
Fairness ==
    /\ WF_vars(MainStep)
    /\ WF_vars(AsmStep)
    /\ \A w \in Workers : WF_vars(WorkerStep(w))

FairSpec == Spec /\ Fairness

-----------------------------------------------------------------------------
\* The chunks of a sequence of blocks, and whether they are all different.
ChunksOf(blocks) == {blocks[i].chunk : i \in DOMAIN blocks}
AllDifferent(blocks) ==
    \A i, j \in DOMAIN blocks : i # j => blocks[i].chunk # blocks[j].chunk

HandsDiffer == \A v, w \in Workers : v # w /\ hand[v] # NoChunk => hand[v] # hand[w]

\* The chunks in the hands of the workers, and those on the block channel.
InHand == {hand[w] : w \in Workers} \ {NoChunk}
InBlocks == ChunksOf(block_chan)

\* The chunks not yet received by the assembly thread.
InFlight == to_seed \cup Range(work_chan) \cup InHand \cup InBlocks

\* No place holds a chunk twice.
OnceInEachPlace ==
    /\ IsInjective(work_chan)
    /\ AllDifferent(block_chan)
    /\ HandsDiffer

\* The work queue, the work channel, the hands, the block channel and the
\* received chunks have no chunk in common.
PlacesDisjoint ==
    /\ to_seed \cap (Range(work_chan) \cup InHand \cup InBlocks \cup current_block_ids) = {}
    /\ Range(work_chan) \cap (InHand \cup InBlocks \cup current_block_ids) = {}
    /\ InHand \cap (InBlocks \cup current_block_ids) = {}
    /\ InBlocks \cap current_block_ids = {}

\* While the assembly thread lives no planned chunk is lost and none is invented.
NoneLost ==
    ReceiverAlive => InFlight \cup current_block_ids = WorkQueue(planned)

\* Requeueing, sending and receiving in any interleaving (app.rs 246-286,
\* peer.rs 70-105) neither lose nor duplicate a chunk: the worker that takes a
\* chunk always hands on exactly one copy of it, or dies holding it.
OnePlacePerChunk == OnceInEachPlace /\ PlacesDisjoint /\ NoneLost

\* The assembly thread never meets a missing map entry (the expects at
\* pieces.rs 177, 181 and 333-341): no block arrives for a piece whose entry
\* was removed, in particular none arrives twice.
NoMapPanic == asm # "map_panic"

\* add_block and remove_piece_data keep the blocks of a planned piece exactly
\* until its file is complete: the blocks in memory are the received chunks of
\* the pieces without a complete file (pieces.rs 174-207), one block each.
MemoryMatchesDisk ==
    ReceiverAlive =>
        /\ {b.chunk : b \in piece_map} =
            {c \in current_block_ids : disk[c[1]] \notin Complete}
        /\ \A b, c \in piece_map : b.chunk = c.chunk => b = c
        /\ piece_keys = {p \in planned : disk[p] \notin Complete}

\* Once no chunk is under way and the assembly thread waits for blocks, the
\* file of every planned piece is complete: no piece is left behind.
QuietMeansComplete ==
    asm = "recv" /\ InFlight = {} => \A p \in planned : disk[p] \in Complete

\* A complete file is never opened, rewritten or removed, in this run of the
\* program or a later one (File::create at pieces.rs 80 truncates).
CompletePieceImmutable ==
    [][\A p \in Pieces : disk[p] \in Complete => disk'[p] = disk[p]]_vars

\* The pipeline delivers: chunks are accepted at most once per run, only for
\* pieces without a file, and files are created after the last acceptance.
Contract == INSTANCE Delivery WITH got <- current_block_ids, file <- disk
Delivers == Contract!Spec

-----------------------------------------------------------------------------
\* How a download ends.

Lost(w) == worker[w] \in {"panicked", "spinning"}
AllStored == \A p \in Pieces : disk[p] # "absent"

Reason ==
    \/ AllStored
    \/ asm = "dead"
    \/ \E w \in Workers : Lost(w)
    \/ \A w \in Workers : worker[w] = "exited"
    \/ ~Running

\* Every thread has ended or waits for something nobody will send.
Rest ==
    /\ main \in {"down", "done", "join_dl", "join_asm"}
    /\ \A w \in Workers :
        \/ worker[w] \in {"off", "exited", "panicked", "spinning"}
        \/ worker[w] = "recv_work" /\ work_chan = <<>>
    /\ \/ asm \in {"off", "dead", "exited"}
       \/ asm = "recv" /\ block_chan = <<>>

\* A download comes to rest in one of five ways only: every piece has a file;
\* the assembly thread died; a worker died or spins; every worker ran out of
\* peers; or the process is gone.  It never just stops with a live connection
\* and a piece missing (peer.rs 71, app.rs 309).
RestHasReason == Rest => Reason

\* The workers in one of the given states.
In(states) == Cardinality({w \in Workers : worker[w] \in states})

\* The connections still to be tried or ended.
PeersLeft ==
    peers_to_seed + peer_chan + In({"connecting", "recv_work", "fetching"})

\* The steps the threads can take at most before a connection ends: those of
\* the peers and workers, those of the chunks on their way to the piece
\* manager, those of the assembly thread, those of main.
PeerSteps == 2 * peers_to_seed + peer_chan + In({"recv_peer", "connecting"})
ChunkSteps ==
    6 * Cardinality(to_seed) + 5 * Len(work_chan) + 4 * In({"fetching"}) + 3 * Len(block_chan)
AsmSteps ==
    CASE asm = "writing" -> 2
      [] asm \in {"io_panic", "map_panic"} -> 1
      [] OTHER -> 0
MainSteps ==
    CASE main = "seed_peers" -> DL_WORKERS + 5
      [] main = "seed_work" -> DL_WORKERS + 4
      [] main = "sleep" -> DL_WORKERS + 3
      [] main = "join_dl" -> DL_WORKERS - joined + 2
      [] main = "join_asm" -> 1
      [] OTHER -> 0
StepsLeft == PeerSteps + ChunkSteps + AsmSteps + MainSteps

Closer == PeersLeft' < PeersLeft \/ (PeersLeft' = PeersLeft /\ StepsLeft' < StepsLeft)

\* Every step of a running download brings it closer to its end, whichever
\* thread takes it: retries are paid for with peers (a chunk put back always
\* ends the connection, peer.rs 87, 95), and between two of them chunks only
\* move towards the piece manager.  So no run goes on for ever.
WindsDown == [][Running => Closer]_vars

-----------------------------------------------------------------------------
\* Liveness, under FairSpec.

\* A download left alone ends for one of these reasons.
StopsForAReason == <>[]Reason

\* Retries are bounded by the peers: a chunk is not passed between failing
\* connections for ever, every thread comes to rest.
ComesToRest == <>[]Rest

-----------------------------------------------------------------------------
\* What the comments say and the code does not do (see README).

\* app.rs:441 "// Shutdown": main joins the workers, then the process ends.
ShutsDown == main = "join_dl" ~> main \in {"down", "done"}

\* pieces.rs:327 "assemble a piece from blocks and check its hash".
HashChecked == \A p \in Pieces : disk[p] # "bad"

\* pieces.rs:272 "piece {} was already completed! skipping".
SkippedIsComplete == Running => \A p \in Pieces \ planned : disk[p] \in Complete

=============================================================================
