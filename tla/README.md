# dave_torrent in TLA+

TLA+ models of dave_torrent, a BitTorrent downloader in Rust: specifications,
TLC instances that check them, and TLAPS proofs. Source references are to
`src/src/`.

## The system

| Component | State it keeps | Operations | Modelled in |
|---|---|---|---|
| download pipeline (`app.rs` 202-326, 391-449, `peer.rs` 62-108, `download.rs`) | three unbounded channels (peers, work chunks, blocks), the chunk each worker holds, who is joined | seed, connect, take work, send a block, requeue, join | `Pipeline` |
| piece manager (`pieces.rs` 25-225, 327-349) | `piece_map`, `current_block_ids`, `expected_block_ids`, the `*.dave` files | `init_work_queue`, `add_block`, `assemble_piece`, `write_piece_to_file`, `remove_piece_data` | `PieceManager` |
| work planning (`pieces.rs` 227-325) | the loop's offset, block id and queue | one step per chunk | `WorkPlan` |
| block transfer (`peer.rs` 405-465, 516-574) | the TCP stream, byte counts, the collected data | request, first read, later reads | `BlockFetch` |
| peer session set-up (`peer.rs` 19-59, 164-184, 314-401, 467-513) | connection, what was read of the stream | connect, handshake, interested, unchoke | `PeerSession`, `Connection` |
| tracker announce (`app.rs` 82-187, 332-389, 452-475, `lib.rs`, `announce.rs`) | UDP socket, transaction ids, attempts, connection id | choose a URL, connect, announce, parse | `TrackerAnnounce` |
| file assembly (`pieces.rs` 352-406) | a buffer, output files | concatenate and split pieces | `FileAssembly` |
| session records and status thread (`app.rs` 244-290, `status_update.rs`) | `connected_peers`, a counter of connections, the status channel | insert, remove, send an update, count | `Sessions` |
| metadata, identity, command line, logging | none | read the torrent, make an id, print | no |

**Interaction.** `App::download` announces to a tracker, plans the missing
pieces (`init_work_queue`), makes the channels and starts one assembly thread
and `DL_WORKERS` download workers. Main sends the peers, then the chunks,
sleeps 30 seconds, drops its peer sender and joins the workers, then the
assembly thread. A worker receives a peer, connects, and then receives chunks
from the shared work channel until a fetch fails; each block it fetches goes to
the block channel, a chunk that failed goes to the back of the work channel. The
assembly thread owns the piece manager: it keeps blocks in memory until all
of a piece are there, writes the file of the piece, and frees them. Files
are the only thing that survives the process; at the next start the pieces
that have a file are skipped.

**What is hard.**
- Several workers share two channels with main and the assembly thread, and the
  same chunk moves back and forth between them.
- Almost every error is a panic: of a worker (with its chunk), of the
  assembly thread (with everything on its channel), of main (with the process).
- Receivers wait without timeouts; whether `recv` ever fails depends on who still
  owns a sender.
- A kill may fall between creating a file and filling it.
- The stream has no message boundaries, and the reader of blocks counts the bytes
  itself; unread bytes of earlier messages shift what follows.
- Nothing checks the data: not the hash, not the length, not the piece index.
- The tracker speaks UDP: datagrams get lost, late or doubled, the local port is
  fixed, and one transaction id serves all attempts.

**What makes each component correct.** The pipeline: a chunk is in exactly one
place until it is received, retries end, the download does not stop without a
cause. The piece manager: no block for a piece that is gone, memory freed exactly
when the piece is stored, a complete file is final. Planning: the chunks are the
missing pieces, byte for byte, and the order of the ids is the order of the
bytes. Block transfer: what is returned is the answer to the request, complete,
and each request is resolved. Set-up: a connection is used only after the
handshake, and leaves `connected_peers` when it ends. Announce: the peers are
those of this announce's answer, attempts are bounded.

## Modules

| Module | What it is |
|---|---|
| `PieceManager` | state and steps of the piece manager and of the `*.dave` files |
| `Pipeline` | extends it with main, the workers, the channels, kill and restart; safety and liveness |
| `Delivery` | the abstract specification: which chunks were accepted, what each file is |
| `WorkPlan` | the planning loop, in bytes |
| `BlockFetch` | one connection: a peer, a stream, `fetch_block_data` |
| `PeerSession` | extends it with the set-up of the connection, on the same stream |
| `Connection` | the abstract specification of a connection, as the worker uses it |
| `TrackerAnnounce` | from the torrent's URLs to the parsed peers, over a faulty network |
| `Sessions` | what several workers record of their sessions, and the status thread |
| `FileAssembly` | the output files, cut from the piece files |
| `MCPipeline`, `MCWorkPlan`, `MCBlockFetch`, `MCPeerSession`, `MCTrackerAnnounce`, `MCSessions`, `MCFileAssembly` | values for the constants |
| `PipelineProofs`, `WorkPlanProofs`, `PeerSessionProofs`, `TrackerAnnounceProofs`, `SessionsProofs`, `FileAssemblyProofs` | proofs about the module named |
| `PipelineRestProofs` | extends `PipelineProofs`: how a download ends |
| `SequenceLemmas` | lemmas they share |

Definitions commented "Faulty variant" stand before the action they vary. They
take no part in any specification; each is a plausible mistake in the code, and
replacing the action by its variant makes one of the properties fail
(`PROJECT.json`, "mutants").

### Pipeline and PieceManager

One action per operation. `Start` is everything `download` does between the
announce response and the seeding loop (app.rs 391-412): planning reads the
files (`CompletedPieces`: any file, complete or not) and fills the three maps.
`StartFails` is its panic on a directory it cannot read or a file whose name is
no number (pieces.rs 247-259).
`SeedPeer`, `SeedWork`, `DropPeerSender`, `JoinDl`, `JoinAsm` are main;
`SeedPeer` and `SeedWork` are one send each, so that workers run between them.
`RecvPeer`, `Connect`, `RecvWork`, `FetchOk`, `FetchErr`, `FetchNeverReturns`
are a worker at its blocking calls. The send in `FetchOk` fails once the
assembly thread has unwound (`ReceiverAlive`), and then requeues, as the code
does. `RecvBlock` is `recv` and all of `add_block` up to `File::create`;
`WriteFile` is `write_all` and `remove_piece_data`, or the panic of `write_all`.
The step between them is where a kill leaves a `"partial"` file. A panic of the
assembly thread takes two steps (`Unwind`): until its receiver is dropped, workers
can still send. A panicked worker is noticed by main's join only, where the `unwrap`
ends the process (`JoinDl`).

State and code: `work_chan`, `block_chan` are the channels in order; peers are
alike here, so `peer_chan` is a count. `hand[w]` is the `next_chunk` of worker
`w`. `planned` is the key set of `expected_block_ids` (and of
`current_block_ids`), `piece_keys` that of `piece_map`, `piece_map` its blocks.
`disk[p]` is `"absent"`, `"partial"`, `"good"` or `"bad"`; a block has one bit,
`ok`, for "these are the torrent's bytes". `DL_WORKERS` is 1 in the code and
a constant here: the code is written for any number.

Abstracted: addresses, the data, the output and status messages, the time of the
sleep. `Connect` has the three outcomes of `attempt_peer_connect` (connected,
refused, panicked) and no state; `PeerSession` has its steps. Dead code (the peer refresh behind
`DO_PEER_REATTEMPT = false`) is left out.

`Delivery` promises, in a dozen lines without threads: within a run a chunk is
accepted at most once and only for a piece without a file, a file appears with
the last chunk of its piece and is completed at most once, and nothing but
"forget what is in memory" happens otherwise. `Delivers` refines it with
`got <- current_block_ids, file <- disk`; kill, restart and the end of the
process map to `Forget` or to a stutter.

### WorkPlan

The loop of `init_work_queue`, one step per branch. The length of a piece is any
`i64`; pieces.rs 230 cuts it to a u32 (`AsU32`), so of a piece of 4 GiB or more only
the rest is planned, and every property speaks of the length after the cast.
`i + chunk_size` is a u32 sum: a build with `overflow_checks` (debug) panics
where it is too large (`SumOverflows`, `pc = "aborted"`), one without wraps
(`Plus`). A sum is too large when the last block of a piece ends beyond 2^32
(`~SizesFit`): with 16384 as block size, a piece in its last block before 4 GiB. With a sum
that wraps the loop can cut the same bytes again and again; it then ends when there is no
memory for another chunk (`OutOfMemory`, after `MaxChunks`). The properties of the
plan hold unless a sum wraps (`SumsExact`); `QueuedInOrder` and that no chunk is
queued twice hold even then. `Terminates` is conditional on `SizesFit`, since
otherwise the loop need not end with a plan. The program plans every piece with `piece_length`, the last one too; the
model does the same. `Pipeline` uses the result in an abstract form: `WorkQueue(ps)`
is `ps \X Blocks`, and a piece is the concatenation of its blocks.
`ExpectedIdsQueued` (the ids queued and expected are `BlockIds` for each missing
piece) and `AssembledInPlace` are what justifies that, by argument: no module
composes the two. `PlanAssumption` (a piece has at least one block) is true
unless the length of a piece is 0 after the cast. That `assemble_piece` sorts its
blocks by id (pieces.rs 336-338) is not modelled: `Contents` of `PieceManager` takes them as
a set, and `AssembledInPlace` says that the order of ids is the right one.

### BlockFetch

Bytes of the stream are numbered; messages, reads and returned data are intervals of
numbers, which is all that short and shifted reads need. `FirstRead` is the
`i == 0` branch with `parse_peer_msg`, `NextRead` the other branch; `pc` is
`"first"` or `"more"` accordingly. A read returns any number of the bytes that
are there. `Close` ends the stream after any byte that is not yet read, inside a
message too; bytes beyond it never arrive. `ReadAtEnd` is a read of 0 bytes at
the end of such a stream, `ReadFails` a timeout or a reset. Bytes read from inside a message can parse as anything:
an error, a panic, or a piece message of any size (up to a cap named there). The
peer (external) is honest: it answers in order with the bytes asked for, may send
other messages, may close at any byte. The stream starts empty or inside a message,
because the reads of the set-up take whatever is there; `PeerSession` starts
earlier and needs no such assumption.

Two history variables serve the properties only: `aligned` says that the set-up left the
stream between two messages, `clean` that every block returned so far had the length
that was requested. `LengthTellsTheBlock` needs both. Nothing in the code ensures
`aligned`: the set-up throws away whatever its reads bring and goes on when
`recv_unchoke` fails (peer.rs 333, 53-56, 387-401). When it leaves the stream inside a message, a wrong
block of the right length is possible, and TLC reaches one in the instance of
`fetch` if `aligned` is dropped from the property.

### PeerSession and Connection

`PeerSession` is `attempt_peer_connect` on a stream of the same kind, followed by
the requests of `BlockFetch` on whatever the set-up leaves unread: the peer's
handshake, unchoke, notices and answers are one stream. `Handshake` is one read
of up to `HS_BUF` bytes, which has to bring the info hash (`HASH_END`) and may
go on into the next message; `RecvGarbage` drops one read; `SendInterested` may
panic on a closed connection; `RecvUnchoke` reads once more and goes on whatever
it got, because `parse_peer_msg` takes every message of at most 4 bytes for a
keep-alive and the error is only printed (peer.rs 53-56, 519). `NoPeer` is a host
that serves another torrent or speaks another protocol. The peer answers requests
only after its unchoke.

`Connection` is what the worker and `Pipeline` use: set up once, one request at a
time, nothing after an error, a panic or an endless loop. `SessionState` maps
the control states to it (`ActsAsConnection`). `Pipeline` has these outcomes in
its own actions (`Connect`, `FetchOk`, `FetchErr`, `FetchNeverReturns`): that they are
`Connection`'s is read off the two modules, not checked.

### TrackerAnnounce

`download` up to the announce response. `ChooseUrl` takes the first UDP URL of the
flattened announce list; without one, the announce field goes to the HTTP
announce, a stub that ends in an error or `unimplemented!` and is one step here.
`SendConnect`, `RecvConnect`, `SendAnnounce`, `RecvAnnounce` are the two retry
loops (lib.rs 123-161, announce.rs 89-138), `ParsePeer` a turn of the parser's
loop, `CheckTx` the panic on a foreign transaction id. Datagrams in flight are two
sets: a request stays until it is answered, an answer until it is received, in any
order and never necessarily; `Duplicate` copies one. Answers to an earlier run may
be in flight at the start. A datagram names the request it answers; `ConnId` says
what bytes 8 to 16 of a datagram are taken for. A response is its size and the
set of places where an address starts with 0. The error response of a tracker is
accepted, as in the code, since nobody looks at the action.

### Sessions

The download workers again, seen from `connected_peers` and the status channel.
One action per lock or send: `TellConnect`, `InsertPeer`, `RemovePeer`,
`TellDisconnect` are separate because other workers and the status thread run in
between. A peer is its IP address here, since that is the key of the set;
addresses may be on the list twice. `Download` ends, or the worker is `"lost"` in
it. `Show` is the status thread.

### FileAssembly

The loop of `assemble_files_from_pieces`, called by its test only. A byte is its
number in the torrent. The buffer made in pieces.rs 400 is a new variable, so the
outer one keeps all bytes; `WriteFile` says so.

## What is checked

| Run | Instance | Shows |
|---|---|---|
| `pipeline_safety` | 2 pieces x 2 blocks, 2 workers, 0-3 peers, 2 starts; 414456 states | the seven safety properties below |
| `pipeline_live` | the same, 1 start, fair; 192895 states | how a download ends: `RestHasReason`, `WindsDown`, `StopsForAReason`, `ComesToRest` |
| `workplan` | 3 pieces of a length from -1 to 12, blocks of 1-7, u32 of 10 values, sums checked or wrapping, 30 chunks in memory, every set of existing files; 10619 states | the planning properties, termination |
| `fetch` | handshake 3, hash end 2, handshake buffer 4, set-up buffer 3, prefix 2, header 4, buffer 5, blocks of 1 or 4 bytes, 2 requests, 3 messages that are no answers, the stream ending at any byte; 635000 states | the set-up and stream properties, `SetupResolves`, `FetchResolves`, `ActsAsConnection` |
| `announce` | 2 attempts, header 2, entry 3, buffer 9, 1 duplicate, 6 torrents, any old answers; 783381 states | the announce properties, `Resolves` |
| `sessions` | 2 workers, up to 3 peers of 2 addresses; 69778 states | the records, `CounterSettles` |
| `pipeline_shutdown`, `pipeline_hash`, `pipeline_resume`, `fetch_short`, `fetch_whole`, `files` | the smallest that shows it | six statements of the sources that do not hold |

Properties of `Pipeline`: `OnePlacePerChunk` (a chunk is in one place and none is
lost while the assembly thread lives), `NoMapPanic`, `MemoryMatchesDisk`,
`QuietMeansComplete`, `CompletePieceImmutable`, `Delivers`; and of how a download
ends: `ComesToRest` (every thread ends or waits for good), `RestHasReason` (and then
every piece has a file, the assembly thread or a worker is lost, all workers ran
out of peers, or the process is gone), `WindsDown` (each step makes a
measure smaller: first the connections still to be tried or ended, then the steps possible
before the next of them ends), `StopsForAReason`. Of `WorkPlan`:
`PiecesTiled`, `AssembledInPlace`, `ExpectedIdsQueued`, `QueuedInOrder`,
`Terminates`. Of `BlockFetch`: `LengthTellsTheBlock` (if the set-up left the
stream between two messages, and as long as every block has the requested length,
the stream is in step: the requests put it out of step only with a block of
another length, which the program does not compare), `MissesAtMostPrefix`,
`SpinsOnlyMidMessage` (the endless loop of 0-byte reads takes a stream that ended
within the reply, more than a prefix before its end, or one that was out of step),
`FetchResolves`. Of `PeerSession`: `HandshakeBeforeRequest`, `SetupResolves`,
`ActsAsConnection`. Of
`TrackerAnnounce`: `AcceptedAnswersAnnounce` (no late, old or duplicated datagram
of another exchange is taken for the answer), `TxPanicNeedsExtraAnswer` (the panic
is only reached by a datagram too many), `PeersUpToFirstZero`,
`ParsePanicsOnlyWhenFull`, `Resolves`. Of `Sessions`:
`CounterAddsUp` (the number shown and the updates under way add up to the sessions,
lost ones included), `ConnectedPeersTracked` (an address in the set has a worker;
the converse holds only for an address that is listed once), `CounterSettles`. Each
module has one type invariant.

**Bounds.** Two workers are enough for two holders of chunks to race on both
channels and with the assembly thread; two blocks make a piece incomplete and
then complete in either order, two pieces let one be freed while the other
arrives; three peers let each worker fail and retry and one retry again;
two starts give a kill, a restart on absent, partial and complete files, and a
second end. `WorkPlan`'s sizes cover every u32 as the length of a piece, a block larger
than the piece, equal to it, dividing it and not, and sums below, at and beyond the
largest u32. In `fetch` a reply of 5 bytes fits one read and one
of 8 does not, every cut of a message occurs, and the second request meets what
the first left unread; the handshake can be cut before and after its hash and be
joined with the next message, and a notice (4 bytes) is longer than a read of the
set-up (3), an unchoke is not.
The announce's buffer has room for two peers and one byte more, as the real
one of 10240 bytes has for 1703 and two; two attempts give a late answer
to the first one. Two sessions are enough to race on `connected_peers`, three peers
to have one address twice and another beside it. `NumPeers`, `MaxRuns`, `MaxRequests`,
`MaxNotices` and `MaxDuplicates` are the bounds on what the environment does,
`MaxChunks` is the memory the work queue has; 30 chunks are more than the 27 of the largest
plan whose sums fit (3 pieces of 9 bytes in blocks of 1).
None of the program's own counters is bounded. The proofs hold for every value of these bounds.

**Deadlock** is not checked: a pipeline with no work left, a spinning worker, a
finished loop, a used-up connection and a finished announce do stop. What may stop
is stated by `StopsForAReason`, `ComesToRest`, `Terminates`, `FetchResolves`,
`SetupResolves` and `Resolves`.

**Fairness.** Weak, per thread: main, the assembly thread and each worker take a
step if they can, which is what the operating system's scheduler gives a
runnable thread. For a worker that connects or fetches, taking a step means that
connect or fetch is resolved: connect has a timeout of 2 seconds (peer.rs 319)
and every read one of 5 (peer.rs 419, 481), and `FetchResolves` shows from
these that a fetch ends or spins. In `BlockFetch` the fairness is on the reads
alone, in `PeerSession` on them and on the set-up, whose connect and reads have
the same timeouts. In `TrackerAnnounce` it is on the program, which never waits
longer than the 2 seconds of its socket timeouts; datagrams need not
arrive. In `Sessions` it is on the status thread and on the records; a download
may wait or spin for ever. The peer, the network, and the user who kills or starts the program are
never fair.

### Statements that do not hold

- `ShutsDown`: app.rs 441 announces the shutdown, app.rs 79 "All {} workers shut
  down/joined". Main owns `block_sender` and `work_sender` until `download`
  returns, so the assembly thread's `recv` never fails and the join never
  returns; a worker that is connected when the work runs out waits as well.
- `HashChecked`: pieces.rs 327 "assemble a piece from blocks and check its
  hash". The hashes are printed (the code has a TODO at 191).
- `SkippedIsComplete`: pieces.rs 272 "piece {} was already completed!
  skipping". A partial file counts as completed.
- `AllDataReceived`: peer.rs 425 "keep reading stream until all data for block
  has been received". The length prefix counts as data read, so the loop can end up
  to 4 bytes early.
- `WholeReplyReturned`, the same line: a reply that fits in the first read is
  returned only after a further read, which times out and panics.
- `FilesFollowEachOther`: pieces.rs 396 "update buf such that", 398 "bytes
  remaining in buf, moving to new buffer". The new buffer shadows the outer one and
  is dropped, so every output file starts with the first byte of the torrent.

## What is proved

TLAPS checks the following for every number of workers, peers, starts, pieces and
blocks (`PlanAssumption`, `PipelineAssumption`: indices are naturals, a piece has
at least one block, `NoChunk` is no chunk; only `RunsWindDown` needs `FiniteTorrent`:
there are finitely many pieces and blocks):

| Theorem | States |
|---|---|
| `TypeCorrect` | `Spec => []TypeOK` |
| `ChunksConserved` | `Spec => []OnePlacePerChunk` |
| `MapEntriesPresent` | `Spec => []NoMapPanic` |
| `BlocksFreedWhenStored` | `Spec => []MemoryMatchesDisk` |
| `NothingLeftBehind` | `Spec => []QuietMeansComplete` |
| `CompleteFilesStay` | `Spec => CompletePieceImmutable` |
| `PipelineDelivers` | `Spec => Delivers`, the refinement |
| `RestExplained` | `Spec => []RestHasReason` |
| `RunsWindDown` | `Spec => WindsDown` |
| `RestIsStop` | `Spec /\ ComesToRest => StopsForAReason` |

The inductive invariant `IInv` has three parts. `TypeInv` is the type
invariant with `HandMatchesState`: a worker that fetches holds a chunk, one that
waits holds none. `PlacesInv` is `OnePlacePerChunk` plus
`PlannedOnly`: every chunk under way belongs to a planned piece; without it a
received block could meet a piece with no map entry. `FilesInv` ties memory,
received ids and files together: at most one file is open and it is partial;
while the assembly thread runs, a planned piece has a file exactly when all its
chunks were received; its blocks are in memory until that file is complete. The argument: a block is received
only once, because the places are disjoint; so a piece becomes full in exactly one
step, when its entry is still there; so its file is created once, while absent. Each
part is proved preserved action by action; `PlacesInv` implies what `FilesInv`
needs of the head of the block channel (lemma `NextBlock`). The refinement maps
each step with lemmas `RecvAccepts` and `WriteFinishes`.

`PipelineRestProofs` takes the liveness of the pipeline as far as it goes without
fairness. `RunningInv` adds to `IInv` that a running download has started all its
threads, that nothing is left to seed once main sleeps, that a worker that left
holds no chunk, and that a piece which was not planned has a file. At rest without a
reason a worker and the assembly thread would wait on empty channels with
no chunk anywhere; then `QuietMeansComplete` gives every piece a file, which is a
reason: `RestExplained`. For `RunsWindDown`, `PeersLeft` counts the connections
still to be tried or ended, `StepsLeft` weighs what can happen before the
next one ends: a chunk costs less with each place it moves to, a
stage of main or of the assembly thread less than the one before. A chunk is put
back only at the price of a connection, which `PeersLeft` counts. The proof has one
lemma per thread (`MainCloser`, `AsmCloser`, `WorkerCloser`) and one for the end of
the process; `InMoves` says how a worker that changes its state changes the counts.
What TLC alone shows is `ComesToRest`: that the threads take their steps.

`WorkPlanProofs` proves `PlanTypes`, `PlanTiles`, `PlanInIdOrder`, `PlanIds`
(`ExpectedIdsQueued`) and `PlanInOrder` (`QueuedInOrder`) for every
number of pieces, piece length, block size, number of u32 values and set of files,
in builds that check sums and that do not. `SizeAssumption` says only that lengths are
integers and that a block size is a u32 other than 0. `PlanTypes` and `PlanInOrder` hold
even when sums wrap, the others under `SumsExact`, as their properties say.
Its invariant says that the chunks of the current piece tile the bytes before
`i`, that the last of them ends at `i` and has id `block_id - 1`, and that finished
pieces are tiled to their end. For the ids, `IdsInv` adds that `i` is
`block_id * chunk_size`: so the ids of a finished piece are the `b` with
`b * chunk_size < piece_size`, the same for all pieces. `SequenceLemmas` has the facts
on `Append`, `Head`/`Tail`, multiples and the number of entries of a kind in a sequence
(`Places`) that the modules share.

`PeerSessionProofs` proves, for every size of message, buffer and block and every
number of requests and notices (`FetchAssumption`, `SessionAssumption`):

| Theorem | States |
|---|---|
| `SessionTypes` | `SessionSpec => []SessionTypeOK` |
| `HandshakeFirst` | `SessionSpec => []HandshakeBeforeRequest` |
| `AtMostPrefixMissing` | `SessionSpec => []MissesAtMostPrefix` |
| `SpinNeedsClose` | `SessionSpec => []SpinsOnlyMidMessage` |
| `LengthSuffices` | `SessionSpec => []LengthTellsTheBlock` |
| `SessionIsConnection` | `SessionSpec => ActsAsConnection`, the refinement |

The invariant has five parts, the types among them. `StreamInv`: messages follow
each other without gaps, a connection that is open carries them whole, and answers are in the order of their requests, so a byte
belongs to one message. `SetupInv`: how much was read in which state of
the set-up. `FetchInv`: in the read loop the bytes counted are the data plus the
header, and `total_msg_size` is the message without its prefix: that difference is
the `PREFIX` of `AtMostPrefixMissing`. `CleanInv` is what `LengthSuffices` needs:
if the set-up left the stream between two messages, and as long as no length was wrong, a request starts between two messages and the
only answer not yet read is its own; an answer returned short ends inside its
message, and then its length is short too.

`TrackerAnnounceProofs` proves all safety properties of `TrackerAnnounce` for every
torrent, number of attempts, buffer and response (`AnnounceAssumption`):

| Theorem | States |
|---|---|
| `AnnounceTypes` | `Spec => []TypeOK` |
| `OwnAnswerAccepted` | `Spec => []AcceptedAnswersAnnounce` |
| `TxPanicCause` | `Spec => []TxPanicNeedsExtraAnswer` |
| `PeersParsed` | `Spec => []PeersUpToFirstZero` |
| `ParserPanicCause` | `Spec => []ParsePanicsOnlyWhenFull` |

Its invariant: nothing in flight carries the announce's transaction id before
the announce is sent (`AnnounceTxInv`); as long as there was no datagram too
many, the one connect request or its answer is the only other datagram in flight,
and none is left once it was received (`ConnectTxInv`); the parsed peers lie side
by side and each starts within the response (`ParseInv`); attempts are counted
before they are used up (`AttemptsInv`).

`SessionsProofs` proves all safety properties of `Sessions` for every number of
workers and every list of peers (`SessionsAssumption`):

| Theorem | States |
|---|---|
| `SessionsTypes` | `Spec => []TypeOK` |
| `CounterIsRight` | `Spec => []CounterAddsUp` |
| `PeersTracked` | `Spec => []ConnectedPeersTracked` |

That the number shown stays between 0 and `DL_WORKERS` (`TypeOK`) is not inductive:
it depends on the order of the updates on the channel. `CounterInv` says that
for every `n` the number shown once the first `n` updates are counted is
such a number, and once all are counted it is the number of sessions. For
`connected_peers`, `ChannelInv` says that the peer channel is the end of the list,
`OneWorkerInv` that an address listed once has one worker, and none while it waits
on the channel: so nobody else removes its entry (`TrackedInv`).

`FileAssemblyProofs` proves `FilesAreFirstBytes` (`Spec => []FilesStartAtZero`) for
all lists of piece and output files: what the run `files` shows on one instance
happens on all.

**Only model-checked:** the liveness properties (`ComesToRest`, with it
`StopsForAReason`, `Terminates`, `FetchResolves`, `SetupResolves`, `Resolves`,
`CounterSettles`), since TLAPS has no proof rule here for fairness and `ENABLED`.
The safety properties of the passing runs are all proved.

## Not modelled

Reading the torrent file, SHA-1, the random peer id, the command line, logging and
printing: straight-line code over external crates without state (their failures
before the announce are `Prepare` of `TrackerAnnounce`). The HTTP announce is a stub
in the code. The bytes of messages (`make_handshake`, `make_peer_msg`, the fields of
a datagram) are named by what their reader does with them. The `choked` field of a
peer is false from the start and no decision reads it; it has no
variable. The peer refresh behind `DO_PEER_REATTEMPT = false` is dead code. What a
peer does with a request past the end of the torrent (the last piece is requested
in full length) is not known to the code; in the models the peer then answers,
closes, or stays silent.

## Plan

Done, in this order: `PieceManager` and `Pipeline` with `Delivery` (the most
important behaviour), `WorkPlan`, `BlockFetch`, `PeerSession` with `Connection`,
`TrackerAnnounce`, `Sessions`, `FileAssembly`, the proofs of their safety
properties, and how a download ends (`PipelineRestProofs`). Left:

1. Measures like `WindsDown` for the other loops (`WorkPlan`, `TrackerAnnounce`), so
   that of their liveness, too, only the fairness is left to TLC.
2. The shortened last piece, once the code plans one: `WorkPlan` with a length of
   its own for it.
