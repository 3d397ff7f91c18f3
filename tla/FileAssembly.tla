---------------------------- MODULE FileAssembly ----------------------------
(***************************************************************************)
(* assemble_files_from_pieces (src/src/pieces.rs 352-406): the piece files *)
(* are read one after another into a buffer, the output files are cut from *)
(* it.  A byte is its number in the torrent, from 0.                       *)
(***************************************************************************)
EXTENDS Integers, Sequences

CONSTANTS
    PieceLists,     \* lengths of the piece files 0.dave, 1.dave, ... that exist
    FileLists       \* lengths of the output files

VARIABLES
    pieces, file_list,  \* the lengths at hand
    current_piece,      \* the next piece to read
    bytes_read,         \* bytes of the torrent read so far
    buf,                \* the outer buffer
    files,              \* the contents of the output files made so far
    pc

vars == <<pieces, file_list, current_piece, bytes_read, buf, files, pc>>

Init ==
    /\ pieces \in PieceLists /\ file_list \in FileLists
    /\ current_piece = 0 /\ bytes_read = 0
    /\ buf = <<>> /\ files = <<>> /\ pc = "loop"

\* The bytes of the next piece file.
PieceData(n) == [i \in 1..n |-> bytes_read + i - 1]

needed_length == file_list[Len(files) + 1]

AtFile == pc = "loop" /\ Len(files) < Len(file_list)

ReadPiece ==
    /\ AtFile /\ Len(buf) < needed_length
    /\ current_piece < Len(pieces)
    /\ buf' = buf \o PieceData(pieces[current_piece + 1])
    /\ bytes_read' = bytes_read + pieces[current_piece + 1]
    /\ current_piece' = current_piece + 1
    /\ UNCHANGED <<pieces, file_list, files, pc>>

\* No further piece, or it cannot be read: return, whatever is left to write.
OutOfPieces ==
    /\ AtFile /\ Len(buf) < needed_length
    /\ pc' = "returned"
    /\ UNCHANGED <<pieces, file_list, current_piece, bytes_read, buf, files>>

\* The file is created, or a panic; the result of the write is ignored, so the
\* file may be short.  The rest of the buffer goes to a new one, also named
\* buf, which is gone at the end of the block: the outer one keeps all.
WriteFile ==
    /\ AtFile /\ Len(buf) >= needed_length
    /\ \/ /\ \E n \in 0..needed_length : files' = Append(files, SubSeq(buf, 1, n))
          /\ UNCHANGED pc
       \/ pc' = "panicked" /\ UNCHANGED files
    /\ UNCHANGED <<pieces, file_list, current_piece, bytes_read, buf>>

AllWritten ==
    /\ pc = "loop" /\ Len(files) = Len(file_list)
    /\ pc' = "returned"
    /\ UNCHANGED <<pieces, file_list, current_piece, bytes_read, buf, files>>

Next == ReadPiece \/ OutOfPieces \/ WriteFile \/ AllWritten

Spec == Init /\ [][Next]_vars

-----------------------------------------------------------------------------
\* Every file starts with the first byte of the torrent, and is no longer than
\* its length: the buffer is never shortened (pieces.rs 400).
FilesStartAtZero ==
    \A k \in DOMAIN files :
        /\ Len(files[k]) =< file_list[k]
        /\ \A i \in 1..Len(files[k]) : files[k][i] = i - 1

\* pieces.rs:396 "update buf such that", 398 "bytes remaining in buf, moving to
\* new buffer": a file goes on where the one before it, fully written, ended.
FilesFollowEachOther ==
    \A k \in 2..Len(files) :
        files[k] # <<>> /\ files[k - 1] # <<>> /\ Len(files[k - 1]) = file_list[k - 1] =>
            files[k][1] = files[k - 1][Len(files[k - 1])] + 1

=============================================================================
