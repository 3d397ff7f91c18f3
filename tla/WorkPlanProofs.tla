--------------------------- MODULE WorkPlanProofs ---------------------------
(***************************************************************************)
(* Proofs about WorkPlan, for every number and size of pieces, every block *)
(* size, every set of files found on the disk and both kinds of build.     *)
(***************************************************************************)
EXTENDS WorkPlan, SequenceLemmas

\* The chunks of p are the bytes before n, in the order of their ids.
PieceOK(p, n) ==
    /\ Tiles(p, n)
    /\ LaidInIdOrder(p)
    /\ \A c, d \in ChunksOfPiece(p) : c.block_id = d.block_id => c = d

\* The next chunk has an id of its own ...
NewId == \A c \in ChunksOfPiece(piece_index) : c.block_id < block_id

\* ... and continues the piece where its last chunk ends.
NextContinues ==
    IF block_id = 0
    THEN i = 0
    ELSE \E c \in ChunksOfPiece(piece_index) :
            c.block_id = block_id - 1 /\ EndOf(c) = i

\* Only pieces the loop has reached have chunks.
ReachedOnly ==
    \A c \in Range(queue) :
        /\ c.piece_index \in Planned
        /\ \/ c.piece_index < piece_index
           \/ pc \in {"chunk", "aborted"} /\ c.piece_index = piece_index

\* The pieces cut so far, when no sum wraps.
CutExactly ==
    /\ \A p \in Planned : p < piece_index => PieceOK(p, piece_size)
    /\ pc = "chunk" =>
        /\ PieceOK(piece_index, i)
        /\ NextContinues
        /\ i = block_id * chunk_size

\* The inductive invariant.
IInv ==
    /\ TypeOK
    /\ pc = "chunk" => piece_index \in Planned
    /\ pc = "done" => piece_index = NumPieces
    /\ ReachedOnly
    /\ IsInjective(queue)
    /\ pc = "chunk" => NewId
    /\ SumsExact => CutExactly

-----------------------------------------------------------------------------
LEMMA InitInv == Init => IInv
<1> SUFFICES ASSUME Init
             PROVE  IInv
  OBVIOUS
<1>1. Range(queue) = {} /\ IsInjective(queue) /\ queue \in Seq(WorkChunk)
  BY EmptySeq DEF Init, Range, IsInjective
<1>2. \A n \in PieceLengths : AsU32(n) \in 0..(U32 - 1)
  BY SizeAssumption DEF AsU32
<1>3. TypeOK
  BY <1>1, <1>2, SizeAssumption DEF Init, TypeOK
<1> QED
  BY <1>1, <1>3 DEF Init, IInv, ReachedOnly, CutExactly, Planned, AllPieces

\* What the arithmetic of the loop works on.
LEMMA Sizes ==
    ASSUME IInv
    PROVE  /\ NumPieces \in Nat /\ U32 \in Nat /\ piece_index \in 0..NumPieces
           /\ piece_size \in Nat /\ piece_size < U32
           /\ chunk_size \in Nat \ {0} /\ chunk_size < U32
           /\ i \in Nat /\ i =< piece_size /\ block_id \in Nat
BY SizeAssumption DEF IInv, TypeOK

\* The ids fit in the range they are written in.
Ids == {b \in Nat : b * chunk_size < piece_size}

LEMMA IdsAreBlockIds ==
    ASSUME IInv
    PROVE  BlockIds = Ids
<1> SUFFICES \A b : b \in BlockIds <=> b \in Ids
  OBVIOUS
<1>1. piece_size \in Nat /\ chunk_size \in Nat \ {0}
  BY Sizes
<1>2. ASSUME NEW b \in Nat, piece_size < b
      PROVE  piece_size < b * chunk_size
  <2>1. b * chunk_size = b + b * (chunk_size - 1) /\ b * (chunk_size - 1) \in Nat
    BY <1>1, SMTT(30)
  <2> QED
    BY <1>1, <1>2, <2>1
<1>3. ASSUME NEW b \in Nat, b * chunk_size < piece_size
      PROVE  b \in 0..piece_size
  <2>1. b * chunk_size \in Nat
    BY <1>1
  <2> QED
    BY <1>1, <1>2, <1>3, <2>1
<1> QED
  BY <1>1, <1>3 DEF BlockIds, Ids

\* When no sum wraps, the sum that a chunk is cut by is the true one: the build
\* has checked it, or it is one of those of SizesFit.
LEMMA SumIsExact ==
    ASSUME IInv, SumsExact, PushesChunk
    PROVE  Plus(i, chunk_size) = i + chunk_size
<1>1. i < piece_size /\ i \in Nat /\ chunk_size \in Nat /\ U32 \in Nat
  BY Sizes DEF PushesChunk
<1>2. CASE overflow_checks
  BY <1>1, <1>2 DEF PushesChunk, Overflows, Plus
<1>3. CASE SizesFit
  <2>1. i = block_id * chunk_size
    BY DEF IInv, CutExactly, PushesChunk
  <2>2. block_id \in BlockIds
    BY <1>1, <2>1, Sizes, IdsAreBlockIds DEF Ids
  <2>3. i + chunk_size < U32
    BY <1>3, <2>1, <2>2 DEF SizesFit
  <2> QED
    BY <2>3 DEF Plus
<1> QED
  BY <1>2, <1>3 DEF SumsExact

\* Queueing a chunk of the current piece adds a chunk that was not queued before.
LEMMA PushChunk ==
    ASSUME IInv, pc = "chunk", NEW len \in Nat, queue' = Append(queue, Chunk(len))
    PROVE  /\ queue' \in Seq(WorkChunk)
           /\ IsInjective(queue')
           /\ Chunk(len) \notin Range(queue)
           /\ Range(queue') = Range(queue) \cup {Chunk(len)}
<1> DEFINE new == Chunk(len)
<1>1. /\ piece_index \in Planned /\ i \in Nat /\ block_id \in Nat /\ NewId
      /\ queue \in Seq(WorkChunk) /\ IsInjective(queue)
  BY Sizes DEF IInv, TypeOK
<1>2. new \in WorkChunk /\ new.piece_index = piece_index /\ new.block_id = block_id
  BY <1>1 DEF Chunk, WorkChunk, Planned
<1>3. queue' = Append(queue, new)
  OBVIOUS
<1> HIDE DEF new
<1>4. new \notin Range(queue)
  BY <1>1, <1>2 DEF NewId, ChunksOfPiece
<1>5. /\ queue' \in Seq(WorkChunk) /\ IsInjective(queue')
      /\ Range(queue') = Range(queue) \cup {new}
  BY <1>1, <1>2, <1>3, <1>4, AppendToSequence
<1> QED
  BY <1>4, <1>5 DEF new

\* When no sum wraps, queueing the chunk of len bytes at i extends the piece by
\* len bytes.
LEMMA PushTiles ==
    ASSUME IInv, SumsExact, pc = "chunk", NEW len \in 1..chunk_size,
           NEW p0, p0 = piece_index, NEW n, n = i + len,
           queue' = Append(queue, Chunk(len)), UNCHANGED <<piece_size, chunk_size>>
    PROVE  /\ PieceOK(p0, n)'
           /\ \A p \in Planned : p < p0 => PieceOK(p, piece_size)'
<1> DEFINE new == Chunk(len)
<1>1. /\ TypeOK /\ p0 \in Planned /\ p0 \in Nat
      /\ len \in Nat \ {0} /\ len =< chunk_size /\ i \in Nat /\ chunk_size \in Nat
      /\ block_id \in Nat
      /\ PieceOK(p0, i) /\ NextContinues /\ NewId
  BY Sizes DEF IInv, CutExactly, Planned, AllPieces
<1>2. /\ new.piece_index = p0
      /\ new.begin_index = i
      /\ new.length = len
      /\ new.block_id = block_id
  BY DEF Chunk
<1>3. \A c \in Range(queue) : c \in WorkChunk
  BY <1>1, RangeOfSeq DEF TypeOK
<1>4. \A c \in ChunksOfPiece(p0) : /\ c.begin_index \in Nat
                                  /\ c.length \in Nat
                                  /\ c.block_id \in Nat
                                  /\ c.block_id < block_id
                                  /\ EndOf(c) =< i
  BY <1>1, <1>3 DEF ChunksOfPiece, WorkChunk, NewId, PieceOK, Tiles
<1>5. Range(queue') = Range(queue) \cup {new}
  BY <1>1, PushChunk
<1> HIDE DEF new
<1>6. ChunksOfPiece(p0)' = ChunksOfPiece(p0) \cup {new}
  BY <1>2, <1>5 DEF ChunksOfPiece
<1>7. Tiles(p0, n)'
  <2>1. \A x \in 0..(n - 1) : \E c \in ChunksOfPiece(p0)' : Contains(c, x)
    <3>1. ASSUME NEW x \in 0..(n - 1)
          PROVE  \E c \in ChunksOfPiece(p0) \cup {new} : Contains(c, x)
      <4>1. CASE x < i
        BY <1>1, <4>1 DEF PieceOK, Tiles
      <4>2. CASE ~(x < i)
        BY <1>1, <1>2, <4>2 DEF Contains, EndOf
      <4> QED
        BY <4>1, <4>2
    <3> QED
      BY <1>6, <3>1
  <2>2. \A c \in ChunksOfPiece(p0)' : 0 < c.length /\ c.length =< chunk_size /\ EndOf(c) =< n
    BY <1>1, <1>2, <1>4, <1>6 DEF PieceOK, Tiles, EndOf
  <2>3. \A c, d \in ChunksOfPiece(p0)' :
            c # d => EndOf(c) =< d.begin_index \/ EndOf(d) =< c.begin_index
    BY <1>1, <1>2, <1>4, <1>6 DEF PieceOK, Tiles
  <2> QED
    BY <2>1, <2>2, <2>3 DEF Tiles, Contains, EndOf
<1>8. LaidInIdOrder(p0)'
  <2>1. ASSUME NEW c \in ChunksOfPiece(p0) \cup {new}
        PROVE  IF c.block_id = 0
               THEN c.begin_index = 0
               ELSE \E d \in ChunksOfPiece(p0) \cup {new} :
                        d.block_id = c.block_id - 1 /\ EndOf(d) = c.begin_index
    <3>1. CASE c = new
      BY <1>1, <1>2, <3>1 DEF NextContinues
    <3>2. CASE c # new
      BY <1>1, <3>2 DEF PieceOK, LaidInIdOrder
    <3> QED
      BY <3>1, <3>2
  <2> QED
    BY <1>6, <2>1 DEF LaidInIdOrder, EndOf
<1>9. PieceOK(p0, n)'
  <2>1. \A c, d \in ChunksOfPiece(p0)' : c.block_id = d.block_id => c = d
    BY <1>1, <1>2, <1>4, <1>6 DEF PieceOK
  <2> QED
    BY <1>7, <1>8, <2>1 DEF PieceOK
<1>10. ASSUME NEW p \in Planned, p < p0
       PROVE  PieceOK(p, piece_size)'
  <2>1. PieceOK(p, piece_size)
    BY <1>10 DEF IInv, CutExactly
  <2>2. ChunksOfPiece(p)' = ChunksOfPiece(p)
    BY <1>1, <1>2, <1>5, <1>10 DEF ChunksOfPiece, Planned, AllPieces
  <2> QED
    BY <2>1, <2>2 DEF PieceOK, Tiles, LaidInIdOrder, Contains, EndOf
<1> QED
  BY <1>9, <1>10

\* A step that queues nothing keeps the pieces as they are cut.
LEMMA PiecesKept ==
    ASSUME UNCHANGED <<piece_size, chunk_size, queue>>
    PROVE  \A p, n : PieceOK(p, n) => PieceOK(p, n)'
BY DEF PieceOK, Tiles, LaidInIdOrder, ChunksOfPiece, Contains

LEMMA SizesKept ==
    ASSUME [Next]_vars
    PROVE  /\ UNCHANGED <<piece_size, chunk_size, overflow_checks, completed_pieces>>
           /\ SumsExact' <=> SumsExact
<1>1. UNCHANGED <<piece_size, chunk_size, overflow_checks, completed_pieces>>
  BY DEF Next, SkipPiece, BeginPiece, Done, NoMoreChunks, ShortChunk, FullChunk,
         SumOverflows, OutOfMemory, vars, sizes
<1> QED
  BY <1>1 DEF SumsExact, SizesFit, BlockIds

LEMMA FullChunkInv ==
    ASSUME IInv, FullChunk
    PROVE  IInv'
<1>1. /\ TypeOK /\ pc = "chunk" /\ piece_index \in Planned /\ PushesChunk
      /\ i \in Nat /\ chunk_size \in Nat \ {0} /\ piece_size \in Nat /\ U32 \in Nat
      /\ block_id \in Nat
  BY Sizes DEF IInv, FullChunk, PushesChunk
<1>2. i' = Plus(i, chunk_size) /\ i' \in 0..piece_size
  BY <1>1 DEF FullChunk, Plus
<1>3. /\ queue' = Append(queue, Chunk(chunk_size))
      /\ UNCHANGED <<piece_index, pc, expected_block_ids>>
      /\ UNCHANGED <<piece_size, chunk_size, overflow_checks, completed_pieces>>
      /\ block_id' = block_id + 1
      /\ expected_block_id_set' = expected_block_id_set \cup {block_id}
  BY <1>1 DEF FullChunk, sizes
<1>4. /\ queue' \in Seq(WorkChunk)
      /\ IsInjective(queue')
      /\ Range(queue') = Range(queue) \cup {Chunk(chunk_size)}
  BY <1>1, <1>3, PushChunk
<1>5. TypeOK'
  BY <1>1, <1>2, <1>3, <1>4 DEF TypeOK
<1>6. /\ Chunk(chunk_size).piece_index = piece_index
      /\ Chunk(chunk_size).block_id = block_id
      /\ Chunk(chunk_size).begin_index = i
      /\ Chunk(chunk_size).length = chunk_size
  BY DEF Chunk
<1>7. ReachedOnly'
  BY <1>1, <1>3, <1>4, <1>6 DEF IInv, ReachedOnly, Planned
<1>8. ChunksOfPiece(piece_index)' = ChunksOfPiece(piece_index) \cup {Chunk(chunk_size)}
  BY <1>3, <1>4, <1>6 DEF ChunksOfPiece
<1>9. NewId'
  <2>1. \A c \in Range(queue) : c \in WorkChunk
    BY <1>1, RangeOfSeq DEF TypeOK
  <2>2. \A c \in ChunksOfPiece(piece_index) : c.block_id \in Nat /\ c.block_id < block_id
    BY <1>1, <2>1 DEF IInv, NewId, ChunksOfPiece, WorkChunk
  <2> QED
    BY <1>1, <1>3, <1>6, <1>8, <2>2 DEF NewId
<1>10. ASSUME SumsExact
       PROVE  CutExactly'
  <2>1. i' = i + chunk_size
    BY <1>1, <1>2, <1>10, SumIsExact
  <2>2. \A p0, n : p0 = piece_index /\ n = i + chunk_size => PieceOK(p0, n)'
    BY <1>1, <1>3, <1>10, PushTiles
  <2>3. PieceOK(piece_index, i)'
    BY <1>3, <2>1, <2>2
  <2>4. \A p \in Planned : p < piece_index => PieceOK(p, piece_size)'
    BY <1>1, <1>3, <1>10, PushTiles
  <2>5. NextContinues'
    BY <1>1, <1>3, <1>6, <1>8, <2>1 DEF NextContinues, EndOf
  <2>6. i' = block_id' * chunk_size'
    <3>1. i = block_id * chunk_size
      BY <1>1, <1>10 DEF IInv, CutExactly
    <3> QED
      BY <1>1, <1>3, <2>1, <3>1, Multiples
  <2> QED
    BY <1>3, <2>3, <2>4, <2>5, <2>6 DEF CutExactly, Planned
<1> QED
  BY <1>1, <1>3, <1>4, <1>5, <1>7, <1>9, <1>10, SizesKept DEF IInv, Planned, Next

LEMMA ShortChunkInv ==
    ASSUME IInv, ShortChunk
    PROVE  IInv'
<1> DEFINE len == piece_size - i
<1>1. /\ TypeOK /\ pc = "chunk" /\ piece_index \in Planned /\ PushesChunk
      /\ i \in Nat /\ chunk_size \in Nat \ {0} /\ piece_size \in Nat /\ i < piece_size
      /\ block_id \in Nat /\ NumPieces \in Nat /\ U32 \in Nat
  BY Sizes DEF IInv, ShortChunk, PushesChunk
<1>2. len \in Nat /\ len > 0 /\ i + len = piece_size
  BY <1>1
<1>3. /\ queue' = Append(queue, Chunk(len))
      /\ UNCHANGED <<i, block_id>>
      /\ UNCHANGED <<piece_size, chunk_size, overflow_checks, completed_pieces>>
      /\ piece_index' = piece_index + 1 /\ pc' = "piece"
      /\ expected_block_id_set' = expected_block_id_set \cup {block_id}
      /\ expected_block_ids' =
            expected_block_ids \cup {<<piece_index, b>> : b \in expected_block_id_set'}
  BY DEF ShortChunk, EndPiece, sizes
<1>4. /\ queue' \in Seq(WorkChunk)
      /\ IsInjective(queue')
      /\ Range(queue') = Range(queue) \cup {Chunk(len)}
  BY <1>1, <1>2, <1>3, PushChunk
<1>5. TypeOK'
  BY <1>1, <1>3, <1>4 DEF TypeOK, Planned, AllPieces
<1>6. Chunk(len).piece_index = piece_index
  BY DEF Chunk
<1>7. ReachedOnly'
  <2>1. \A c \in Range(queue) : c.piece_index \in Planned /\ c.piece_index =< piece_index
    BY <1>1 DEF IInv, ReachedOnly, Planned, AllPieces
  <2> QED
    BY <1>1, <1>3, <1>4, <1>6, <2>1 DEF ReachedOnly, Planned, AllPieces
<1>8. ASSUME SumsExact
      PROVE  CutExactly'
  <2>1. len \in 1..chunk_size
    BY <1>1, <1>2, <1>8, SumIsExact DEF ShortChunk
  <2> HIDE DEF len
  <2>2. \A p0, n : p0 = piece_index /\ n = i + len => PieceOK(p0, n)'
    BY <1>1, <1>3, <1>8, <2>1, PushTiles
  <2>3. \A p \in Planned : p = piece_index => PieceOK(p, piece_size)'
    BY <1>2, <1>3, <2>2
  <2>4. \A p \in Planned : p < piece_index => PieceOK(p, piece_size)'
    BY <1>1, <1>3, <1>8, <2>1, PushTiles
  <2>5. \A p \in Planned : p < piece_index + 1 => p < piece_index \/ p = piece_index
    BY <1>1 DEF Planned, AllPieces
  <2> QED
    BY <1>3, <2>3, <2>4, <2>5 DEF CutExactly, Planned
<1> QED
  BY <1>3, <1>4, <1>5, <1>7, <1>8, SizesKept DEF IInv, Planned, Next

\* A step that queues nothing and does not begin a piece.
LEMMA CutKept ==
    ASSUME IInv, SumsExact, UNCHANGED <<piece_size, chunk_size, completed_pieces, queue>>,
           pc' # "chunk",
           \A p \in Planned : p < piece_index' =>
                \/ p < piece_index
                \/ p = piece_index /\ pc = "chunk" /\ i = piece_size
    PROVE  CutExactly'
<1>1. ASSUME NEW p \in Planned, p < piece_index'
      PROVE  PieceOK(p, piece_size)'
  <2>1. PieceOK(p, piece_size)
    BY <1>1 DEF IInv, CutExactly
  <2> QED
    BY <2>1, PiecesKept
<1> QED
  BY <1>1 DEF CutExactly, Planned

LEMMA NextInv ==
    ASSUME IInv, [Next]_vars
    PROVE  IInv'
<1> USE SizeAssumption
<1>1. CASE SkipPiece
  <2>1. /\ UNCHANGED <<piece_size, chunk_size, overflow_checks, completed_pieces, queue, pc>>
        /\ UNCHANGED <<i, block_id, expected_block_id_set, expected_block_ids>>
        /\ piece_index' = piece_index + 1 /\ pc = "piece"
        /\ piece_index \in completed_pieces
    BY <1>1 DEF SkipPiece, sizes, chunkVars
  <2>2. TypeOK'
    BY <2>1 DEF IInv, TypeOK, AllPieces
  <2>3. ReachedOnly'
    BY <2>1 DEF IInv, ReachedOnly, Planned, AllPieces, TypeOK
  <2>4. SumsExact => CutExactly'
    <3>1. \A p \in Planned : p < piece_index + 1 => p < piece_index
      BY <2>1 DEF IInv, TypeOK, Planned, AllPieces
    <3> QED
      BY <2>1, <3>1, CutKept
  <2> QED
    BY <2>1, <2>2, <2>3, <2>4, SizesKept DEF IInv, Planned
<1>2. CASE BeginPiece
  <2>1. /\ UNCHANGED <<piece_size, chunk_size, overflow_checks, completed_pieces, queue>>
        /\ UNCHANGED <<piece_index, expected_block_ids>>
        /\ i' = 0 /\ block_id' = 0 /\ expected_block_id_set' = {}
        /\ pc = "piece" /\ pc' = "chunk" /\ piece_index \in Planned
    BY <1>2 DEF BeginPiece, sizes
  <2>2. TypeOK'
    BY <2>1 DEF IInv, TypeOK
  <2>3. ReachedOnly'
    BY <2>1 DEF IInv, ReachedOnly, Planned
  <2>4. ChunksOfPiece(piece_index)' = {}
    BY <2>1 DEF IInv, ReachedOnly, ChunksOfPiece, TypeOK
  <2>5. NewId'
    BY <2>4 DEF NewId
  <2>6. SumsExact => CutExactly'
    <3>1. PieceOK(piece_index, i)' /\ NextContinues'
      BY <2>1, <2>4 DEF PieceOK, Tiles, LaidInIdOrder, NextContinues
    <3>2. SumsExact => \A p \in Planned : p < piece_index => PieceOK(p, piece_size)'
      BY <2>1, PiecesKept DEF IInv, CutExactly
    <3>3. i' = block_id' * chunk_size'
      BY <2>1, Sizes
    <3> QED
      BY <2>1, <3>1, <3>2, <3>3 DEF CutExactly, Planned
  <2> QED
    BY <2>1, <2>2, <2>3, <2>5, <2>6, SizesKept DEF IInv, Planned
<1>3. CASE Done \/ SumOverflows \/ OutOfMemory
  <2>1. /\ UNCHANGED <<piece_size, chunk_size, overflow_checks, completed_pieces, queue>>
        /\ UNCHANGED <<piece_index, i, block_id, expected_block_id_set, expected_block_ids>>
        /\ \/ pc = "piece" /\ pc' = "done" /\ piece_index = NumPieces
           \/ pc = "chunk" /\ pc' = "aborted"
    BY <1>3 DEF Done, SumOverflows, OutOfMemory, sizes, chunkVars
  <2>2. SumsExact => CutExactly'
    BY <2>1, CutKept
  <2>3. TypeOK'
    BY <2>1 DEF IInv, TypeOK
  <2>4. ReachedOnly'
    BY <2>1 DEF IInv, ReachedOnly, Planned
  <2> QED
    BY <2>1, <2>2, <2>3, <2>4, SizesKept DEF IInv, Planned
<1>4. CASE NoMoreChunks
  <2>1. /\ UNCHANGED <<piece_size, chunk_size, overflow_checks, completed_pieces, queue>>
        /\ UNCHANGED <<i, block_id, expected_block_id_set>>
        /\ pc = "chunk" /\ pc' = "piece" /\ i = piece_size
        /\ piece_index' = piece_index + 1
        /\ expected_block_ids' =
            expected_block_ids \cup {<<piece_index, b>> : b \in expected_block_id_set}
    BY <1>4 DEF NoMoreChunks, EndPiece, sizes, chunkVars
  <2>2. TypeOK'
    BY <2>1 DEF IInv, TypeOK, Planned, AllPieces
  <2>3. ReachedOnly'
    BY <2>1 DEF IInv, ReachedOnly, Planned, AllPieces, TypeOK
  <2>4. SumsExact => CutExactly'
    <3>1. \A p \in Planned : p < piece_index + 1 => p < piece_index \/ p = piece_index
      BY DEF IInv, TypeOK, Planned, AllPieces
    <3> QED
      BY <2>1, <3>1, CutKept
  <2> QED
    BY <2>1, <2>2, <2>3, <2>4, SizesKept DEF IInv, Planned
<1>5. CASE ShortChunk
  BY <1>5, ShortChunkInv
<1>6. CASE FullChunk
  BY <1>6, FullChunkInv
<1>7. CASE UNCHANGED vars
  <2>1. UNCHANGED <<piece_size, chunk_size, overflow_checks, completed_pieces, queue, pc,
                    piece_index, i, block_id, expected_block_id_set, expected_block_ids>>
    BY <1>7 DEF vars, sizes, chunkVars
  <2>2. TypeOK' /\ ReachedOnly' /\ (pc' = "chunk" => NewId')
    BY <2>1 DEF IInv, TypeOK, ReachedOnly, Planned, NewId, ChunksOfPiece
  <2>3. SumsExact => CutExactly'
    BY <2>1, PiecesKept DEF IInv, CutExactly, NextContinues, ChunksOfPiece, Planned
  <2> QED
    BY <2>1, <2>2, <2>3, SizesKept DEF IInv, Planned
<1> QED
  BY <1>1, <1>2, <1>3, <1>4, <1>5, <1>6, <1>7 DEF Next

LEMMA Inductive == Spec => []IInv
<1>1. IInv /\ [Next]_vars => IInv'
  BY NextInv
<1> QED
  BY <1>1, InitInv, PTL DEF Spec

\* The loop's variables keep their types: offsets stay within the piece, even if
\* a sum wraps.
THEOREM PlanTypes == Spec => []TypeOK
<1>1. IInv => TypeOK
  BY DEF IInv
<1> QED
  BY <1>1, Inductive, PTL

\* The requests cover every missing piece exactly, for all sizes whose sums do
\* not wrap.
THEOREM PlanTiles == Spec => []PiecesTiled
<1>1. ASSUME IInv, pc = "done"
      PROVE  /\ SumsExact => \A p \in Planned : Tiles(p, piece_size)
             /\ \A p \in completed_pieces : ChunksOfPiece(p) = {}
             /\ IsInjective(queue)
  <2>1. \A p \in Planned : p < piece_index
    BY <1>1, SizeAssumption DEF IInv, Planned, AllPieces
  <2> QED
    BY <1>1, <2>1 DEF IInv, CutExactly, PieceOK, ReachedOnly, ChunksOfPiece, Planned
<1>2. IInv => PiecesTiled
  BY <1>1 DEF PiecesTiled
<1> QED
  BY <1>2, Inductive, PTL

\* Joining the blocks in the order of their ids rebuilds the piece, for all sizes
\* whose sums do not wrap.
THEOREM PlanInIdOrder == Spec => []AssembledInPlace
<1>1. ASSUME IInv, SumsExact, pc = "done", NEW p \in Planned
      PROVE  PieceOK(p, piece_size)
  BY <1>1, SizeAssumption DEF IInv, CutExactly, Planned, AllPieces
<1>2. IInv => AssembledInPlace
  BY <1>1 DEF AssembledInPlace, PieceOK
<1> QED
  BY <1>2, Inductive, PTL

-----------------------------------------------------------------------------
\* The ids: when no sum wraps, chunk number b of a piece starts at b * chunk_size,
\* so the ids of a piece depend on its length alone.
IdsInv ==
    /\ pc = "chunk" =>
        /\ IdsOf(piece_index) = 0..(block_id - 1)
        /\ expected_block_id_set = 0..(block_id - 1)
    /\ \A p \in Planned : p < piece_index => IdsOf(p) = Ids
    /\ expected_block_ids = {p \in Planned : p < piece_index} \X Ids

\* A step that queues nothing keeps the ids, one that queues a chunk of the
\* current piece adds its id.
LEMMA IdsKept ==
    ASSUME queue' = queue
    PROVE  \A p : IdsOf(p)' = IdsOf(p)
BY DEF IdsOf, ChunksOfPiece

LEMMA IdsPushed ==
    ASSUME IInv, pc = "chunk", NEW len \in Nat,
           queue' = Append(queue, Chunk(len)), NEW p \in Planned
    PROVE  IdsOf(p)' = IF p = piece_index THEN IdsOf(p) \cup {block_id} ELSE IdsOf(p)
<1>1. Range(queue') = Range(queue) \cup {Chunk(len)}
  BY PushChunk
<1>2. Chunk(len).piece_index = piece_index /\ Chunk(len).block_id = block_id
  BY DEF Chunk
<1>3. ChunksOfPiece(p)' = {c \in Range(queue) \cup {Chunk(len)} : c.piece_index = p}
  BY <1>1 DEF ChunksOfPiece
<1> HIDE DEF Chunk
<1>4. CASE p = piece_index
  <2>1. ChunksOfPiece(p)' = ChunksOfPiece(p) \cup {Chunk(len)}
    BY <1>2, <1>3, <1>4 DEF ChunksOfPiece
  <2> QED
    BY <1>2, <1>4, <2>1 DEF IdsOf
<1>5. CASE p # piece_index
  <2>1. ChunksOfPiece(p)' = ChunksOfPiece(p)
    BY <1>2, <1>3, <1>5 DEF ChunksOfPiece
  <2> QED
    BY <1>5, <2>1 DEF IdsOf
<1> QED
  BY <1>4, <1>5

LEMMA IdsInit == Init => IdsInv
BY SizeAssumption DEF Init, IdsInv, Planned, AllPieces

\* The ids of a piece whose chunks end at its length, and the pair set that
\* EndPiece makes of them.
LEMMA PieceFinished ==
    ASSUME IInv, IdsInv, NEW ids, ids = Ids,
           piece_index \in Planned, piece_index' = piece_index + 1, UNCHANGED sizes,
           \A p \in Planned : p < piece_index => IdsOf(p)' = IdsOf(p),
           \A p \in Planned : p = piece_index => IdsOf(p)' = ids,
           expected_block_ids' = expected_block_ids \cup {<<piece_index, b>> : b \in ids},
           pc' = "piece"
    PROVE  IdsInv'
<1>1. UNCHANGED <<piece_size, chunk_size, completed_pieces>> /\ Ids' = Ids
  BY DEF sizes, Ids
<1>2. Planned' = Planned
  BY <1>1 DEF Planned
<1>3. \A p \in Planned : p < piece_index + 1 <=> p < piece_index \/ p = piece_index
  BY DEF Planned, AllPieces
<1>4. \A p \in Planned : p < piece_index + 1 => IdsOf(p)' = Ids
  BY <1>3 DEF IdsInv
<1>5. {p \in Planned : p < piece_index + 1} = {p \in Planned : p < piece_index} \cup {piece_index}
  BY <1>3
<1> DEFINE before == {p \in Planned : p < piece_index}
<1>6. expected_block_ids = before \X Ids
  BY DEF IdsInv
<1> HIDE DEF before, Ids
<1>7. expected_block_ids' = (before \cup {piece_index}) \X Ids
  BY <1>6
<1>8. expected_block_ids' = {p \in Planned : p < piece_index + 1} \X Ids
  BY <1>5, <1>7 DEF before
<1> QED
  BY <1>1, <1>2, <1>4, <1>8 DEF IdsInv

LEMMA IdsNext ==
    ASSUME IInv, SumsExact, IdsInv, [Next]_vars
    PROVE  IdsInv'
<1>1. /\ TypeOK /\ piece_size \in Nat /\ chunk_size \in Nat \ {0}
      /\ block_id \in Nat /\ i \in 0..piece_size /\ NumPieces \in Nat
      /\ piece_index \in 0..NumPieces
  BY Sizes DEF IInv
<1>2. CASE SkipPiece
  <2>1. /\ queue' = queue /\ UNCHANGED <<piece_size, chunk_size, completed_pieces, pc>>
        /\ UNCHANGED expected_block_ids
        /\ pc = "piece" /\ piece_index \in completed_pieces /\ piece_index' = piece_index + 1
    BY <1>2 DEF SkipPiece, sizes
  <2>2. \A p \in Planned : p < piece_index + 1 <=> p < piece_index
    BY <1>1, <2>1 DEF Planned, AllPieces
  <2>3. {p \in Planned : p < piece_index + 1} = {p \in Planned : p < piece_index}
    BY <2>2
  <2> QED
    BY <2>1, <2>2, <2>3, IdsKept DEF IdsInv, Planned, Ids
<1>3. CASE BeginPiece
  <2>1. /\ queue' = queue /\ UNCHANGED <<piece_size, chunk_size, completed_pieces>>
        /\ UNCHANGED <<piece_index, expected_block_ids>> /\ piece_index \in Planned
        /\ i' = 0 /\ block_id' = 0 /\ expected_block_id_set' = {} /\ pc = "piece"
    BY <1>3 DEF BeginPiece, sizes
  <2>2. IdsOf(piece_index) = {}
    BY <2>1 DEF IInv, ReachedOnly, IdsOf, ChunksOfPiece, TypeOK
  <2>3. 0..(block_id' - 1) = {}
    BY <1>1, <2>1
  <2> QED
    BY <2>1, <2>2, <2>3, IdsKept DEF IdsInv, Planned, Ids
<1>4. CASE Done \/ SumOverflows \/ OutOfMemory
  <2>1. /\ queue' = queue /\ UNCHANGED <<piece_size, chunk_size, completed_pieces>>
        /\ UNCHANGED <<piece_index, expected_block_ids>> /\ pc' \in {"done", "aborted"}
    BY <1>4 DEF Done, SumOverflows, OutOfMemory, sizes
  <2> QED
    BY <2>1, IdsKept DEF IdsInv, Planned, Ids
<1>5. CASE NoMoreChunks
  <2>1. /\ queue' = queue /\ UNCHANGED sizes /\ pc = "chunk" /\ pc' = "piece"
        /\ i = piece_size /\ piece_index' = piece_index + 1
        /\ expected_block_ids' =
            expected_block_ids \cup {<<piece_index, b>> : b \in expected_block_id_set}
    BY <1>5 DEF NoMoreChunks, EndPiece
  <2>2. piece_index \in Planned
    BY <2>1 DEF IInv
  <2>3. /\ i = block_id * chunk_size /\ expected_block_id_set = 0..(block_id - 1)
        /\ IdsOf(piece_index) = expected_block_id_set
    BY <2>1 DEF IdsInv, IInv, CutExactly
  <2>4. \A b \in Nat : b < block_id <=> b * chunk_size < block_id * chunk_size
    BY <1>1, Multiples
  <2>5. expected_block_id_set = Ids
    <3>1. \A b : b \in 0..(block_id - 1) <=> b \in Nat /\ b < block_id
      BY <1>1
    <3>2. \A b : b \in 0..(block_id - 1) <=> b \in Ids
      BY <2>1, <2>3, <2>4, <3>1 DEF Ids
    <3> QED
      BY <2>3, <3>2
  <2> QED
    BY <2>1, <2>2, <2>3, <2>5, IdsKept, PieceFinished
<1>6. CASE ShortChunk
  <2> DEFINE len == piece_size - i
  <2>1. /\ UNCHANGED sizes /\ UNCHANGED <<piece_size, chunk_size>>
        /\ pc = "chunk" /\ pc' = "piece" /\ piece_index' = piece_index + 1
        /\ queue' = Append(queue, Chunk(len))
        /\ expected_block_id_set' = expected_block_id_set \cup {block_id}
        /\ expected_block_ids' =
            expected_block_ids \cup {<<piece_index, b>> : b \in expected_block_id_set'}
    BY <1>6 DEF ShortChunk, PushesChunk, EndPiece, sizes
  <2>2. piece_index \in Planned
    BY <2>1 DEF IInv
  <2>3. i < piece_size /\ i + chunk_size > piece_size /\ len \in Nat
    BY <1>1, <1>6, SumIsExact DEF ShortChunk, PushesChunk
  <2>4. /\ i = block_id * chunk_size /\ expected_block_id_set = 0..(block_id - 1)
        /\ IdsOf(piece_index) = expected_block_id_set
    BY <2>1 DEF IdsInv, IInv, CutExactly
  <2>5. block_id * chunk_size < piece_size /\ piece_size < (block_id + 1) * chunk_size
    <3>1. (block_id + 1) * chunk_size = block_id * chunk_size + chunk_size
      BY <1>1, Multiples
    <3> QED
      BY <1>1, <2>3, <2>4, <3>1
  <2>6. ASSUME NEW b \in Nat
        PROVE  b =< block_id <=> b * chunk_size < piece_size
    <3>1. /\ b < block_id <=> b * chunk_size < block_id * chunk_size
          /\ block_id + 1 < b <=> (block_id + 1) * chunk_size < b * chunk_size
      BY <1>1, Multiples
    <3>2. b * chunk_size \in Nat /\ block_id * chunk_size \in Nat
          /\ (block_id + 1) * chunk_size \in Nat
      BY <1>1
    <3>3. b = block_id + 1 => b * chunk_size = (block_id + 1) * chunk_size
      OBVIOUS
    <3>4. b = block_id => b * chunk_size = block_id * chunk_size
      OBVIOUS
    <3> QED
      BY <1>1, <2>5, <3>1, <3>2, <3>3, <3>4
  <2>7. expected_block_id_set' = 0..block_id
    BY <1>1, <2>1, <2>4
  <2>8. expected_block_id_set' = Ids
    <3>1. \A b : b \in 0..block_id <=> b \in Nat /\ b =< block_id
      BY <1>1
    <3>2. \A b : b \in 0..block_id <=> b \in Ids
      BY <2>6, <3>1 DEF Ids
    <3> QED
      BY <2>7, <3>2
  <2> HIDE DEF len
  <2>9. \A p \in Planned :
            IdsOf(p)' = IF p = piece_index THEN IdsOf(p) \cup {block_id} ELSE IdsOf(p)
    BY <2>1, <2>3, IdsPushed
  <2>10. \A p \in Planned : p < piece_index => p # piece_index
    BY DEF Planned, AllPieces
  <2> QED
    BY <2>1, <2>2, <2>4, <2>8, <2>9, <2>10, PieceFinished
<1>7. CASE FullChunk
  <2>1. /\ UNCHANGED <<piece_size, chunk_size, completed_pieces>>
        /\ UNCHANGED <<piece_index, expected_block_ids, pc>> /\ pc = "chunk"
        /\ queue' = Append(queue, Chunk(chunk_size))
        /\ expected_block_id_set' = expected_block_id_set \cup {block_id}
        /\ block_id' = block_id + 1
    BY <1>7 DEF FullChunk, PushesChunk, sizes
  <2>2. /\ expected_block_id_set = 0..(block_id - 1)
        /\ IdsOf(piece_index) = expected_block_id_set /\ piece_index \in Planned
    BY <2>1 DEF IdsInv, IInv
  <2>3. \A p \in Planned :
            IdsOf(p)' = IF p = piece_index THEN IdsOf(p) \cup {block_id} ELSE IdsOf(p)
    BY <1>1, <2>1, IdsPushed
  <2>4. (0..(block_id - 1)) \cup {block_id} = 0..(block_id' - 1)
    BY <1>1, <2>1
  <2>5. \A p \in Planned : p < piece_index => p # piece_index
    BY DEF Planned, AllPieces
  <2> QED
    BY <2>1, <2>2, <2>3, <2>4, <2>5 DEF IdsInv, Planned, Ids
<1>8. CASE UNCHANGED vars
  BY <1>8, IdsKept DEF vars, sizes, chunkVars, IdsInv, Planned, Ids
<1> QED
  BY <1>2, <1>3, <1>4, <1>5, <1>6, <1>7, <1>8 DEF Next

\* The loop promises add_block the ids of exactly the chunks it queued, the same
\* ids for every piece, for all sizes whose sums do not wrap.
THEOREM PlanIds == Spec => []ExpectedIdsQueued
<1>1. ASSUME IInv, IdsInv, SumsExact, pc = "done"
      PROVE  /\ expected_block_ids = Planned \X BlockIds
             /\ \A p \in Planned : IdsOf(p) = BlockIds
  <2>1. \A p \in Planned : p < piece_index
    BY <1>1, SizeAssumption DEF IInv, Planned, AllPieces
  <2>2. BlockIds = Ids
    BY <1>1, IdsAreBlockIds
  <2> HIDE DEF Ids, BlockIds
  <2>3. \A p \in Planned : IdsOf(p) = Ids
    BY <1>1, <2>1 DEF IdsInv
  <2>4. expected_block_ids = Planned \X Ids
    BY <1>1, <2>1 DEF IdsInv
  <2> QED
    BY <2>2, <2>3, <2>4
<1> DEFINE I == SumsExact => IdsInv
<1>2. IInv /\ I => ExpectedIdsQueued
  BY <1>1 DEF ExpectedIdsQueued
<1>3. IInv /\ I /\ [Next]_vars => I'
  BY IdsNext, SizesKept
<1>4. Init => I
  BY IdsInit
<1> HIDE DEF I
<1> QED
  BY <1>2, <1>3, <1>4, Inductive, PTL DEF Spec

-----------------------------------------------------------------------------
\* A new chunk comes after all chunks queued before it: they are of earlier
\* pieces, or of this one with smaller ids.
LEMMA OrderPushed ==
    ASSUME IInv, QueuedInOrder, pc = "chunk", NEW len,
           queue' = Append(queue, Chunk(len))
    PROVE  QueuedInOrder'
<1> DEFINE Before(c, d) == \/ c.piece_index < d.piece_index
                           \/ c.piece_index = d.piece_index /\ c.block_id < d.block_id
<1>1. queue \in Seq(WorkChunk) /\ Len(queue) \in Nat
  BY LenProperties DEF IInv, TypeOK
<1>2. Chunk(len).piece_index = piece_index /\ Chunk(len).block_id = block_id
  BY DEF Chunk
<1>3. \A k \in 1..Len(queue) : Before(queue[k], Chunk(len))
  <2> SUFFICES ASSUME NEW k \in 1..Len(queue)
               PROVE  Before(queue[k], Chunk(len))
    OBVIOUS
  <2>1. queue[k] \in Range(queue)
    BY <1>1 DEF Range
  <2>2. queue[k].piece_index < piece_index \/ queue[k].piece_index = piece_index
    BY <2>1 DEF IInv, ReachedOnly
  <2>3. queue[k].piece_index = piece_index => queue[k].block_id < block_id
    BY <2>1 DEF IInv, NewId, ChunksOfPiece
  <2> QED
    BY <1>2, <2>2, <2>3
<1> HIDE DEF Chunk
<1>4. /\ DOMAIN queue' = 1..(Len(queue) + 1) /\ DOMAIN queue = 1..Len(queue)
      /\ \A k \in 1..Len(queue) : queue'[k] = queue[k]
      /\ queue'[Len(queue) + 1] = Chunk(len)
  BY <1>1
<1>5. ASSUME NEW k \in DOMAIN queue', NEW l \in DOMAIN queue', k < l
      PROVE  Before(queue'[k], queue'[l])
  <2>1. k \in 1..Len(queue) /\ queue'[k] = queue[k]
    BY <1>1, <1>4, <1>5
  <2>2. CASE l \in 1..Len(queue)
    BY <1>4, <1>5, <2>1, <2>2 DEF QueuedInOrder
  <2>3. CASE l = Len(queue) + 1
    BY <1>3, <1>4, <2>1, <2>3
  <2> QED
    BY <1>1, <1>4, <2>2, <2>3
<1> QED
  BY <1>5 DEF QueuedInOrder

\* The chunks are queued piece by piece and block by block, for all sizes and even
\* if sums wrap.
THEOREM PlanInOrder == Spec => []QueuedInOrder
<1>1. Init => QueuedInOrder
  BY DEF Init, QueuedInOrder
<1>2. ASSUME IInv, QueuedInOrder, [Next]_vars
      PROVE  QueuedInOrder'
  <2>1. CASE FullChunk
    BY <1>2, <2>1, OrderPushed DEF FullChunk, PushesChunk
  <2>2. CASE ShortChunk
    BY <1>2, <2>2, OrderPushed DEF ShortChunk, PushesChunk
  <2>3. ASSUME queue' = queue
        PROVE  QueuedInOrder'
    BY <1>2, <2>3 DEF QueuedInOrder
  <2> QED
    BY <1>2, <2>1, <2>2, <2>3
       DEF Next, SkipPiece, BeginPiece, Done, NoMoreChunks, SumOverflows, OutOfMemory, vars
<1> QED
  BY <1>1, <1>2, Inductive, PTL DEF Spec

=============================================================================
