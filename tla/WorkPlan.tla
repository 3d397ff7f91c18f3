------------------------------ MODULE WorkPlan ------------------------------
(***************************************************************************)
(* PieceManager::init_work_queue (src/src/pieces.rs): the loop that cuts   *)
(* the missing pieces into chunks and records the block ids each piece     *)
(* must receive.  Sizes and offsets are u32: the i64 length of a piece is  *)
(* cut down to one, and a sum that is too large ends the program in a      *)
(* build that checks it and wraps in one that does not.                    *)
(*                                                                         *)
(* Module Pipeline starts from the result of this loop: its WorkQueue      *)
(* assumes the same block ids for every piece, and that the blocks of a    *)
(* piece laid end to end in the order of their ids are the piece.          *)
(***************************************************************************)
EXTENDS Integers, Sequences, Functions

CONSTANTS
    NumPieces,      \* the number of pieces of the torrent
    PieceLengths,   \* the piece lengths a torrent may have, any i64
    ChunkSizes,     \* block sizes: BLOCK_SIZE in the program, others in tests
    U32,            \* 2^32
    MaxChunks       \* bound: chunks that fit in memory

ASSUME SizeAssumption ==
    /\ NumPieces \in Nat
    /\ PieceLengths \subseteq Int
    /\ U32 \in Nat \ {0}
    /\ ChunkSizes \subseteq 1..(U32 - 1)
    /\ MaxChunks \in Nat

VARIABLES
    piece_size, chunk_size,
    overflow_checks,    \* the build checks sums (debug) or not (release)
    completed_pieces,   \* the pieces p with a file p.dave
    piece_index,        \* the outer loop's variable
    i, block_id,        \* offset and id of the next chunk of this piece
    expected_block_id_set,
    expected_block_ids, \* pairs of a piece and an expected block id
    queue,              \* the work queue
    pc                  \* "piece", "chunk", "done", or "aborted"

sizes == <<piece_size, chunk_size, overflow_checks, completed_pieces>>
chunkVars == <<i, block_id, expected_block_id_set>>
vars == <<sizes, piece_index, chunkVars, expected_block_ids, queue, pc>>

AllPieces == 0..(NumPieces - 1)
Planned == AllPieces \ completed_pieces
WorkChunk == [piece_index : AllPieces, begin_index : Nat, length : Nat, block_id : Nat]

TypeOK ==
    /\ piece_size \in 0..(U32 - 1)
    /\ chunk_size \in ChunkSizes
    /\ overflow_checks \in BOOLEAN
    /\ completed_pieces \subseteq AllPieces
    /\ piece_index \in 0..NumPieces
    /\ i \in 0..piece_size
    /\ block_id \in Nat
    /\ expected_block_id_set \subseteq Nat
    /\ expected_block_ids \subseteq AllPieces \X Nat
    /\ queue \in Seq(WorkChunk)
    /\ pc \in {"piece", "chunk", "done", "aborted"}

-----------------------------------------------------------------------------
\* The sum of two u32 values, when it is not checked or not too large.
Plus(a, b) == IF a + b < U32 THEN a + b ELSE a + b - U32

\* The cast of an i64 to u32 keeps its low bits.
AsU32(n) == n % U32

Init ==
    /\ \E n \in PieceLengths : piece_size = AsU32(n)
    /\ chunk_size \in ChunkSizes
    /\ overflow_checks \in BOOLEAN
    /\ completed_pieces \in SUBSET AllPieces
    /\ piece_index = 0
    /\ i = 0
    /\ block_id = 0
    /\ expected_block_id_set = {}
    /\ expected_block_ids = {}
    /\ queue = <<>>
    /\ pc = "piece"

\* A piece with a file gets no chunks.
SkipPiece ==
    /\ pc = "piece"
    /\ piece_index \in completed_pieces
    /\ piece_index' = piece_index + 1
    /\ UNCHANGED <<sizes, chunkVars, expected_block_ids, queue, pc>>

\* Faulty variant: block ids run on from one piece to the next.
BeginPieceKeepsId ==
    /\ pc = "piece"
    /\ piece_index \in Planned
    /\ i' = 0
    /\ expected_block_id_set' = {}
    /\ pc' = "chunk"
    /\ UNCHANGED <<sizes, piece_index, block_id, expected_block_ids, queue>>

BeginPiece ==
    /\ pc = "piece"
    /\ piece_index \in Planned
    /\ i' = 0
    /\ block_id' = 0
    /\ expected_block_id_set' = {}
    /\ pc' = "chunk"
    /\ UNCHANGED <<sizes, piece_index, expected_block_ids, queue>>

Done ==
    /\ pc = "piece"
    /\ piece_index = NumPieces
    /\ pc' = "done"
    /\ UNCHANGED <<sizes, piece_index, chunkVars, expected_block_ids, queue>>

Chunk(len) ==
    [piece_index |-> piece_index, begin_index |-> i, length |-> len, block_id |-> block_id]

\* The loop over the chunks is left: the ids of the piece are recorded.
EndPiece(ids) ==
    /\ expected_block_ids' = expected_block_ids \cup {<<piece_index, b>> : b \in ids}
    /\ piece_index' = piece_index + 1
    /\ pc' = "piece"

\* i == piece_size
NoMoreChunks ==
    /\ pc = "chunk"
    /\ i = piece_size
    /\ EndPiece(expected_block_id_set)
    /\ UNCHANGED <<sizes, chunkVars, queue>>

\* The loop compares the sum of i and chunk_size: it may be too large ...
Overflows == overflow_checks /\ i + chunk_size >= U32

SumOverflows ==
    /\ pc = "chunk"
    /\ i # piece_size
    /\ Overflows
    /\ pc' = "aborted"
    /\ UNCHANGED <<sizes, piece_index, chunkVars, expected_block_ids, queue>>

\* ... and there may be no memory for the chunk that follows.
OutOfMemory ==
    /\ pc = "chunk"
    /\ i # piece_size
    /\ ~Overflows
    /\ Len(queue) >= MaxChunks
    /\ pc' = "aborted"
    /\ UNCHANGED <<sizes, piece_index, chunkVars, expected_block_ids, queue>>

PushesChunk ==
    /\ pc = "chunk"
    /\ i # piece_size
    /\ ~Overflows
    /\ Len(queue) < MaxChunks

\* Faulty variant: the last chunk of a piece does not end the loop.
ShortChunkStays ==
    /\ PushesChunk
    /\ Plus(i, chunk_size) > piece_size
    /\ queue' = Append(queue, Chunk(piece_size - i))
    /\ expected_block_id_set' = expected_block_id_set \cup {block_id}
    /\ UNCHANGED <<sizes, piece_index, i, block_id, expected_block_ids, pc>>

\* Faulty variant: the last chunk of a piece is a full block.
ShortChunkFull ==
    /\ PushesChunk
    /\ Plus(i, chunk_size) > piece_size
    /\ queue' = Append(queue, Chunk(chunk_size))
    /\ expected_block_id_set' = expected_block_id_set \cup {block_id}
    /\ EndPiece(expected_block_id_set')
    /\ UNCHANGED <<sizes, i, block_id>>

\* Faulty variant: the id of the last chunk is not expected.
ShortChunkUnexpected ==
    /\ PushesChunk
    /\ Plus(i, chunk_size) > piece_size
    /\ queue' = Append(queue, Chunk(piece_size - i))
    /\ EndPiece(expected_block_id_set)
    /\ UNCHANGED <<sizes, chunkVars>>

\* i + chunk_size > piece_size: what is left of the piece.
ShortChunk ==
    /\ PushesChunk
    /\ Plus(i, chunk_size) > piece_size
    /\ queue' = Append(queue, Chunk(piece_size - i))
    /\ expected_block_id_set' = expected_block_id_set \cup {block_id}
    /\ EndPiece(expected_block_id_set')
    /\ UNCHANGED <<sizes, i, block_id>>

\* Faulty variant: no check that a full block fits in the piece.
FullChunkUnchecked ==
    /\ PushesChunk
    /\ queue' = Append(queue, Chunk(chunk_size))
    /\ expected_block_id_set' = expected_block_id_set \cup {block_id}
    /\ i' = Plus(i, chunk_size)
    /\ block_id' = block_id + 1
    /\ UNCHANGED <<sizes, piece_index, expected_block_ids, pc>>

\* Faulty variant: chunks are pushed at the front of the queue.
FullChunkInFront ==
    /\ PushesChunk
    /\ Plus(i, chunk_size) =< piece_size
    /\ queue' = <<Chunk(chunk_size)>> \o queue
    /\ expected_block_id_set' = expected_block_id_set \cup {block_id}
    /\ i' = Plus(i, chunk_size)
    /\ block_id' = block_id + 1
    /\ UNCHANGED <<sizes, piece_index, expected_block_ids, pc>>

FullChunk ==
    /\ PushesChunk
    /\ Plus(i, chunk_size) =< piece_size
    /\ queue' = Append(queue, Chunk(chunk_size))
    /\ expected_block_id_set' = expected_block_id_set \cup {block_id}
    /\ i' = Plus(i, chunk_size)
    /\ block_id' = block_id + 1
    /\ UNCHANGED <<sizes, piece_index, expected_block_ids, pc>>

Next ==
    \/ SkipPiece \/ BeginPiece \/ Done
    \/ NoMoreChunks \/ ShortChunk \/ FullChunk
    \/ SumOverflows \/ OutOfMemory

Spec == Init /\ [][Next]_vars
FairSpec == Spec /\ WF_vars(Next)

-----------------------------------------------------------------------------
ChunksOfPiece(p) == {c \in Range(queue) : c.piece_index = p}
EndOf(c) == c.begin_index + c.length
Contains(c, x) == c.begin_index =< x /\ x < EndOf(c)

\* A piece is cut at the multiples of chunk_size below its length.
BlockIds == {b \in 0..piece_size : b * chunk_size < piece_size}

\* The sums that cut a piece so are u32 values.
SizesFit == \A b \in BlockIds : b * chunk_size + chunk_size < U32

\* No sum is too large without notice.
SumsExact == overflow_checks \/ SizesFit

\* The chunks of piece p are its bytes before n, each exactly once, and none
\* is empty or longer than a block.
Tiles(p, n) ==
    /\ \A x \in 0..(n - 1) : \E c \in ChunksOfPiece(p) : Contains(c, x)
    /\ \A c \in ChunksOfPiece(p) : 0 < c.length /\ c.length =< chunk_size /\ EndOf(c) =< n
    /\ \A c, d \in ChunksOfPiece(p) :
        c # d => EndOf(c) =< d.begin_index \/ EndOf(d) =< c.begin_index

\* Laid end to end in the order of their ids, the chunks of p are in place.
LaidInIdOrder(p) ==
    \A c \in ChunksOfPiece(p) :
        IF c.block_id = 0
        THEN c.begin_index = 0
        ELSE \E d \in ChunksOfPiece(p) :
                d.block_id = c.block_id - 1 /\ EndOf(d) = c.begin_index

IdsOf(p) == {c.block_id : c \in ChunksOfPiece(p)}

\* The requests for a missing piece cover it exactly, byte for byte, whatever
\* the ratio of piece and block size, unless a sum wraps; no chunk is queued
\* twice, and none for a piece with a file (pieces.rs 269-318).
PiecesTiled ==
    pc = "done" =>
        /\ SumsExact => \A p \in Planned : Tiles(p, piece_size)
        /\ \A p \in completed_pieces : ChunksOfPiece(p) = {}
        /\ IsInjective(queue)

\* assemble_piece (pieces.rs 336-343) joins the blocks in the order of their
\* ids and never looks at an offset: that order puts each block at the offset
\* it was requested from, and a block id names one chunk of its piece.
AssembledInPlace ==
    pc = "done" /\ SumsExact =>
        \A p \in Planned :
            /\ LaidInIdOrder(p)
            /\ \A c, d \in ChunksOfPiece(p) : c.block_id = d.block_id => c = d

\* add_block (pieces.rs 185) waits for exactly the ids that were queued, and
\* they are one set of ids for every missing piece: what Pipeline starts from
\* (its WorkQueue(ps), with Blocks for that set).
ExpectedIdsQueued ==
    pc = "done" /\ SumsExact =>
        /\ expected_block_ids = Planned \X BlockIds
        /\ \A p \in Planned : IdsOf(p) = BlockIds

\* Workers receive the chunks piece by piece and block by block, even if sums
\* wrap.
QueuedInOrder ==
    \A k, l \in DOMAIN queue :
        k < l => \/ queue[k].piece_index < queue[l].piece_index
                 \/ /\ queue[k].piece_index = queue[l].piece_index
                    /\ queue[k].block_id < queue[l].block_id

\* Given memory for it, the loop ends with a plan if its sums are u32 values.
\* They are not for a piece within a block of 2^32 bytes: with a sum that wraps
\* the loop can cut the same bytes again and again until there is no memory left
\* (pieces.rs 285-314).
Terminates == SizesFit => <>(pc = "done")

=============================================================================
