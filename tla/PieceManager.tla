---------------------------- MODULE PieceManager ----------------------------
(***************************************************************************)
(* The piece manager (src/src/pieces.rs) and the directory of *.dave files *)
(* it writes.  One assembly thread owns it: it inserts every block it      *)
(* receives, writes a piece to its file once all blocks of that piece are  *)
(* present, and then frees the blocks.                                     *)
(*                                                                         *)
(* A chunk is <<piece_index, block_id>>.  Bytes are abstracted to one bit: *)
(* ok says that the data of a block are the bytes the torrent describes.   *)
(* The actions below are steps of the assembly thread and of start-up;     *)
(* module Pipeline combines them with the channels.                        *)
(***************************************************************************)
EXTENDS Integers, Sequences, FiniteSets, Functions

CONSTANTS
    Pieces,     \* the piece indices of the torrent
    Blocks      \* the block ids of one piece: all pieces have the same number

ASSUME PlanAssumption ==
    /\ Pieces \subseteq Nat
    /\ Blocks \subseteq Nat
    /\ Blocks # {}

ASSUME FiniteTorrent == IsFiniteSet(Pieces) /\ IsFiniteSet(Blocks)

Chunks == Pieces \X Blocks
Block == [chunk : Chunks, ok : BOOLEAN]

VARIABLES
    planned,            \* keys of expected_block_ids: the pieces to download
    current_block_ids,  \* the chunks received for them
    piece_map,          \* the blocks kept in memory
    piece_keys,         \* keys of piece_map
    disk,               \* the file of each piece
    open_file,          \* the piece whose file is being written, if any
    asm                 \* control state of the assembly thread

memoryVars == <<planned, current_block_ids, piece_map, piece_keys>>
pieceVars == <<memoryVars, disk, open_file, asm>>

\* "partial" is a file created and not completely written; "good" and "bad"
\* are complete files with the torrent's bytes or other bytes.
FileStates == {"absent", "partial", "good", "bad"}
Complete == {"good", "bad"}

\* "io_panic" and "map_panic": unwinding after a failed file operation or a
\* missing map entry; "dead": unwound; "exited": the loop was left by break.
AsmStates == {"off", "recv", "writing", "io_panic", "map_panic", "dead", "exited"}

PieceTypeOK ==
    /\ planned \subseteq Pieces
    /\ current_block_ids \subseteq Chunks
    /\ piece_map \subseteq Block
    /\ piece_keys \subseteq planned
    /\ disk \in [Pieces -> FileStates]
    /\ open_file \subseteq planned
    /\ asm \in AsmStates

-----------------------------------------------------------------------------
\* The memory of a process that is not running.
NoMemory ==
    /\ planned = {}
    /\ current_block_ids = {}
    /\ piece_map = {}
    /\ piece_keys = {}
    /\ open_file = {}
    /\ asm = "off"

PieceInit == NoMemory /\ disk = [p \in Pieces |-> "absent"]

\* Faulty variant: files left by an earlier run are not looked at.
CompletedPiecesIgnored == {}

\* init_work_queue counts every p.dave file as a completed piece.
CompletedPieces == {p \in Pieces : disk[p] # "absent"}

\* Planning the pieces whose file is missing, with empty maps for them.
InitWorkQueue ==
    /\ planned' = Pieces \ CompletedPieces
    /\ current_block_ids' = {}
    /\ piece_map' = {}
    /\ piece_keys' = planned'
    /\ open_file' = {}
    /\ asm' = "recv"
    /\ UNCHANGED disk

\* Faulty variant: the loop stops before the last block of a piece.
WorkQueueDropsLast(ps) == {c \in ps \X Blocks : \E b \in Blocks : b > c[2]}

\* The chunks init_work_queue puts on the queue for the pieces in ps.
WorkQueue(ps) == ps \X Blocks

-----------------------------------------------------------------------------
\* expected_block_ids.get(p) == current_block_ids.get(p)
AllBlocksReceived(p, ids) == \A b \in Blocks : <<p, b>> \in ids

\* assemble_piece finds every expected block in the map of the piece.
Assembles(p, map) == \A b \in Blocks : \E block \in map : block.chunk = <<p, b>>

\* Inserting under the block id: a block replaces an earlier one of its chunk.
Inserted(block) == {b \in piece_map : b.chunk # block.chunk} \cup {block}

BlocksOf(p) == {b \in piece_map : b.chunk[1] = p}

\* Faulty variant: the error of File::create is ignored.
CreateFileIgnoresError(p) ==
    \E created \in BOOLEAN :
        /\ disk' = IF created THEN [disk EXCEPT ![p] = "partial"] ELSE disk
        /\ open_file' = IF created THEN {p} ELSE {}
        /\ asm' = IF created THEN "writing" ELSE "recv"

\* write_piece_to_file up to File::create, which may fail: the file exists,
\* empty, from here on.
CreateFile(p) ==
    \E created \in BOOLEAN :
        /\ disk' = IF created THEN [disk EXCEPT ![p] = "partial"] ELSE disk
        /\ open_file' = IF created THEN {p} ELSE {}
        /\ asm' = IF created THEN "writing" ELSE "io_panic"

\* add_block on the received block, up to the creation of the piece's file.
\* The expect calls of the two maps and of assemble_piece panic on a missing key.
AddBlock(block) ==
    LET p == block.chunk[1]
        ids == current_block_ids \cup {block.chunk}
        map == Inserted(block)
    IN  /\ asm = "recv"
        /\ current_block_ids' = IF p \in planned THEN ids ELSE current_block_ids
        /\ piece_map' = IF p \in piece_keys THEN map ELSE piece_map
        /\ IF p \notin piece_keys
           THEN asm' = "map_panic" /\ UNCHANGED <<disk, open_file>>
           ELSE IF ~AllBlocksReceived(p, ids)
           THEN UNCHANGED <<disk, open_file, asm>>
           ELSE IF ~Assembles(p, map)
           THEN asm' = "map_panic" /\ UNCHANGED <<disk, open_file>>
           ELSE CreateFile(p)
        /\ UNCHANGED <<planned, piece_keys>>

\* The bytes of p's file: the hash is computed and printed, never compared.
Contents(p) == IF \A b \in BlocksOf(p) : b.ok THEN "good" ELSE "bad"

\* Faulty variant: remove_piece_data is not called.
WritePieceKeepsBlocks ==
    /\ asm = "writing"
    /\ \E p \in open_file : disk' = [disk EXCEPT ![p] = Contents(p)]
    /\ open_file' = {}
    /\ asm' = "recv"
    /\ UNCHANGED memoryVars

\* Faulty variant: remove_piece_data forgets the received ids as well.
WritePieceForgetsIds ==
    /\ asm = "writing"
    /\ \E p \in open_file :
        /\ disk' = [disk EXCEPT ![p] = Contents(p)]
        /\ piece_map' = piece_map \ BlocksOf(p)
        /\ piece_keys' = piece_keys \ {p}
        /\ current_block_ids' = {c \in current_block_ids : c[1] # p}
    /\ open_file' = {}
    /\ asm' = "recv"
    /\ UNCHANGED planned

\* write_all succeeds; remove_piece_data frees the blocks and keeps the ids.
WritePiece ==
    /\ asm = "writing"
    /\ \E p \in open_file :
        /\ disk' = [disk EXCEPT ![p] = Contents(p)]
        /\ piece_map' = piece_map \ BlocksOf(p)
        /\ piece_keys' = piece_keys \ {p}
    /\ open_file' = {}
    /\ asm' = "recv"
    /\ UNCHANGED <<planned, current_block_ids>>

\* write_all fails: the thread panics and the file stays partial.
WriteFails ==
    /\ asm = "writing"
    /\ open_file' = {}
    /\ asm' = "io_panic"
    /\ UNCHANGED <<memoryVars, disk>>

=============================================================================
