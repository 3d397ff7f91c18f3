------------------------- MODULE FileAssemblyProofs -------------------------
(***************************************************************************)
(* For any pieces and any files: every output file starts with the first   *)
(* byte of the torrent, as far as it goes.                                 *)
(***************************************************************************)
EXTENDS FileAssembly, SequenceTheorems, TLAPS

\* The outer buffer holds all bytes read so far, and no others.
FilesInv ==
    /\ pieces \in Seq(Nat) /\ file_list \in Seq(Nat)
    /\ current_piece \in Nat /\ bytes_read \in Nat
    /\ buf \in Seq(Nat) /\ Len(buf) = bytes_read
    /\ \A i \in 1..bytes_read : buf[i] = i - 1
    /\ files \in Seq(Seq(Nat)) /\ Len(files) =< Len(file_list)
    /\ FilesStartAtZero

LEMMA InitFiles ==
    ASSUME PieceLists \subseteq Seq(Nat), FileLists \subseteq Seq(Nat)
    PROVE  Init => FilesInv
  BY DEF Init, FilesInv, FilesStartAtZero

\* The bytes of a piece continue those in the buffer.
LEMMA ReadPieceContinues ==
    ASSUME FilesInv, ReadPiece
    PROVE  FilesInv'
<1> DEFINE n == pieces[current_piece + 1]
<1>1. n \in Nat
  BY DEF FilesInv, ReadPiece
<1>2. /\ PieceData(n) \in Seq(Nat) /\ Len(PieceData(n)) = n
      /\ \A i \in 1..n : PieceData(n)[i] = bytes_read + i - 1
  <2>1. PieceData(n) \in [1..n -> Nat]
    BY <1>1 DEF FilesInv, PieceData
  <2>2. PieceData(n) \in Seq(Nat)
    BY <1>1, <2>1, SeqDef
  <2>3. Len(PieceData(n)) = n
    <3>1. 1..Len(PieceData(n)) = 1..n /\ Len(PieceData(n)) \in Nat
      BY <2>1, <2>2, LenProperties
    <3> QED BY <3>1, <1>1
  <2> QED BY <2>2, <2>3 DEF PieceData
<1>3. buf' = buf \o PieceData(n) /\ bytes_read' = bytes_read + n
  BY DEF ReadPiece
<1> HIDE DEF n
<1> DEFINE d == PieceData(n)
<1>a. d \in Seq(Nat) /\ Len(d) = n
  BY <1>2
<1>b. \A i \in 1..n : d[i] = bytes_read + i - 1
  BY <1>2
<1>c. buf' = buf \o d
  BY <1>3
<1> HIDE DEF d
<1>d. /\ buf' \in Seq(Nat) /\ Len(buf') = Len(buf) + n
      /\ \A i \in 1..(Len(buf) + n) :
            buf'[i] = IF i =< Len(buf) THEN buf[i] ELSE d[i - Len(buf)]
  BY <1>a, <1>c, ConcatProperties DEF FilesInv
<1>4. buf' \in Seq(Nat) /\ Len(buf') = bytes_read'
  BY <1>3, <1>d DEF FilesInv
<1>5. \A i \in 1..bytes_read' : buf'[i] = i - 1
  <2> SUFFICES ASSUME NEW i \in 1..bytes_read'
               PROVE  buf'[i] = i - 1
    OBVIOUS
  <2>1. CASE i =< bytes_read
    BY <2>1, <1>1, <1>3, <1>d DEF FilesInv
  <2>2. CASE i > bytes_read
    <3>1. i - bytes_read \in 1..n /\ buf'[i] = d[i - bytes_read]
      BY <2>2, <1>1, <1>3, <1>d DEF FilesInv
    <3>2. d[i - bytes_read] = bytes_read + (i - bytes_read) - 1
      BY <3>1, <1>b
    <3> QED BY <3>1, <3>2, <1>1, <1>3 DEF FilesInv
  <2>3. i \in Nat /\ bytes_read \in Nat
    BY <1>1, <1>3 DEF FilesInv
  <2> QED BY <2>1, <2>2, <2>3
<1>6. UNCHANGED <<pieces, file_list, files>> /\ current_piece' = current_piece + 1
  BY DEF ReadPiece
<1>7. current_piece' \in Nat /\ bytes_read' \in Nat
  BY <1>1, <1>3, <1>6 DEF FilesInv
<1>8. FilesStartAtZero'
  <2>1. FilesStartAtZero
    BY DEF FilesInv
  <2> QED BY <1>6, <2>1 DEF FilesStartAtZero
<1>9. /\ pieces' \in Seq(Nat) /\ file_list' \in Seq(Nat)
      /\ files' \in Seq(Seq(Nat)) /\ Len(files') =< Len(file_list')
  <2>1. /\ pieces \in Seq(Nat) /\ file_list \in Seq(Nat)
        /\ files \in Seq(Seq(Nat)) /\ Len(files) =< Len(file_list)
    BY DEF FilesInv
  <2> QED BY <1>6, <2>1
<1> QED BY <1>4, <1>5, <1>7, <1>8, <1>9, Zenon DEF FilesInv

\* A file is cut from the start of the buffer.
LEMMA WriteFileCutsStart ==
    ASSUME FilesInv, NEW n \in 0..needed_length,
           AtFile, Len(buf) >= needed_length,
           files' = Append(files, SubSeq(buf, 1, n)),
           UNCHANGED <<pieces, file_list, current_piece, bytes_read, buf>>
    PROVE  FilesInv'
<1> DEFINE f == SubSeq(buf, 1, n)
<1>1. needed_length \in Nat /\ needed_length = file_list[Len(files) + 1]
  BY DEF FilesInv, AtFile, needed_length
<1>2. f \in Seq(Nat) /\ Len(f) = n /\ \A i \in 1..n : f[i] = i - 1
  <2>1. \A i \in 1..n : buf[i] \in Nat /\ buf[i] = i - 1
    <3>1. \A i \in 1..n : i \in 1..bytes_read
      BY <1>1 DEF FilesInv
    <3>2. \A i \in 1..bytes_read : buf[i] = i - 1
      BY DEF FilesInv
    <3> QED BY <3>1, <3>2, <1>1
  <2>2. n \in Nat
    BY <1>1
  <2>3. /\ f \in Seq(Nat)
        /\ Len(f) = IF 1 =< n THEN n - 1 + 1 ELSE 0
        /\ \A i \in 1..(n - 1 + 1) : f[i] = buf[1 + i - 1]
    BY <2>1, <2>2, SubSeqProperties
  <2> HIDE DEF f
  <2>4. Len(f) = n
    BY <2>2, <2>3
  <2>5. ASSUME NEW i \in 1..n
        PROVE  f[i] = i - 1
    <3>1. i \in 1..(n - 1 + 1) /\ 1 + i - 1 = i
      BY <2>2
    <3> QED BY <3>1, <2>1, <2>3
  <2> QED BY <2>3, <2>4, <2>5
<1>3. files' \in Seq(Seq(Nat)) /\ Len(files') = Len(files) + 1 /\ files'[Len(files) + 1] = f
  BY <1>2, AppendProperties DEF FilesInv
<1>4. \A k \in 1..Len(files) : files'[k] = files[k]
  BY <1>2, AppendProperties DEF FilesInv
<1> HIDE DEF f
<1>5. FilesStartAtZero'
  <2> SUFFICES ASSUME NEW k \in 1..(Len(files) + 1)
               PROVE  /\ Len(files'[k]) =< file_list[k]
                      /\ \A i \in 1..Len(files'[k]) : files'[k][i] = i - 1
    BY <1>3, LenProperties DEF FilesStartAtZero
  <2>1. CASE k =< Len(files)
    <3>1. k \in DOMAIN files /\ files'[k] = files[k]
      <4>1. files \in Seq(Seq(Nat))
        BY DEF FilesInv
      <4>2. k \in 1..Len(files)
        BY <2>1, <4>1, LenProperties
      <4> QED BY <4>1, <4>2, <1>4, LenProperties
    <3>2. FilesStartAtZero
      BY DEF FilesInv
    <3> QED BY <3>1, <3>2, Zenon DEF FilesStartAtZero
  <2>2. CASE k = Len(files) + 1
    BY <2>2, <1>1, <1>2, <1>3
  <2>3. Len(files) \in Nat
    BY LenProperties DEF FilesInv
  <2> QED BY <2>1, <2>2, <2>3
<1> QED BY <1>3, <1>5 DEF FilesInv, AtFile

LEMMA NextFiles == FilesInv /\ [Next]_vars => FilesInv'
<1> SUFFICES ASSUME FilesInv, [Next]_vars
             PROVE  FilesInv'
  OBVIOUS
<1>1. CASE ReadPiece
  BY <1>1, ReadPieceContinues
<1>2. CASE OutOfPieces
  BY <1>2 DEF OutOfPieces, FilesInv, FilesStartAtZero
<1>3. CASE WriteFile
  <2>1. CASE UNCHANGED files
    BY <1>3, <2>1 DEF WriteFile, FilesInv, FilesStartAtZero
  <2>2. CASE \E n \in 0..needed_length : files' = Append(files, SubSeq(buf, 1, n))
    BY <1>3, <2>2, WriteFileCutsStart DEF WriteFile
  <2> QED BY <1>3, <2>1, <2>2 DEF WriteFile
<1>4. CASE AllWritten
  BY <1>4 DEF AllWritten, FilesInv, FilesStartAtZero
<1>5. CASE UNCHANGED vars
  BY <1>5 DEF vars, FilesInv, FilesStartAtZero
<1> QED BY <1>1, <1>2, <1>3, <1>4, <1>5 DEF Next

\* Whatever the pieces and the files, no file has other bytes than the first
\* ones of the torrent (pieces.rs 382-401).
THEOREM FilesAreFirstBytes ==
    ASSUME PieceLists \subseteq Seq(Nat), FileLists \subseteq Seq(Nat)
    PROVE  Spec => []FilesStartAtZero
<1>1. Init => FilesInv
  BY InitFiles
<1>2. FilesInv /\ [Next]_vars => FilesInv'
  BY NextFiles
<1>3. FilesInv => FilesStartAtZero
  BY DEF FilesInv
<1> QED BY <1>1, <1>2, <1>3, PTL DEF Spec

=============================================================================
