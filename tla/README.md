# Verification of hexz in TLA+

hexz stores data in archives of compressed, deduplicated, optionally encrypted
blocks. An archive can be thin: it refers to blocks of a base archive. Archives
are packed by a multi-threaded pipeline, read at random offsets, mounted through
FUSE with a writable overlay, served over HTTP and NBD, and pushed to and pulled
from an object store. This directory models the parts whose correctness depends
on interleavings, on the order of steps or on indices that must agree, checks
them with TLC and proves the central properties with TLAPS.

Paths below are relative to `src/crates/`.

## Inventory

| Component | State | Operations | What is hard | What makes it correct |
|---|---|---|---|---|
| Pack pipeline `ops/src/pack.rs` 1329-1549 | two bounded channels, a reorder buffer, the results of the threads | reader, N workers, main loop, joins | overtaking, back-pressure, failure of any thread | chunks are written in order, none is lost in silence, every thread ends |
| Archive writer `ops/src/archive_writer.rs`, `write.rs`, `parent_index.rs` | file position, index page, page directories, dedup map, block counter | begin, write block (serial, precompressed), reference, flush, end, finalize | positions, counters and maps that live across files and streams | descriptors point at their bytes, nonces are unique, what is packed can be read |
| Pack and extract `ops/src/pack.rs` 768-1218, `cli/src/cmd/data/convert.rs` | manifest, offset of the next file | pack a file or a directory, convert a tar file, extract | files that change during the pack, two streams, bases, a stream size known before its contents | every unchanged file comes back |
| Archive reader `core/src/api/file.rs` | master index, parents, hash index, caches | `read_at`, page search, block by hash | boundaries, references, chains | any range equals the packed bytes |
| Inode map `vfs/src/lib.rs` | nodes, path-to-inode, inode-to-path | add, rename, remove, list, mount | two maps and a tree kept in step by hand | the maps are inverse to each other |
| Writable mount `fuse/src/fuse/mod.rs` | overlay directory, whiteouts, inode map | create, mkdir, open, read, write, setattr, unlink, rmdir, rename, readdir, remount | copy-up in any order, remount | no write is lost, deleted names stay deleted |
| Push and pull `cli/src/cmd/data/{push,pull}.rs`, `store/src/s3/remote.rs` | local and remote archives | recursive push and pull | races of clients, partial downloads, missing parents | the remote holds complete chains |
| Crash safety `ops/src/archive_writer.rs` 422-469, `pack.rs` 1056-1178 | the file, what of it is on the disk | create, write, sync, power loss | order of writes reaching the disk, a pack over an older archive | an unfinished archive is refused, a finished one survives |
| Signing `ops/src/sign.rs` | the signature fields of the header | sign, verify | two signers, a writer that dies in between | what was signed verifies |
| Caches and prefetch `core/src/cache/`, `core/src/api/file.rs` 560-935 | LRU map of blocks, in-flight flag | get, insert, try_start, warm_blocks, clear | concurrent readers, failing reads | at most one prefetch, a cached block is the block of its key |
| `ops/src/parallel_pack.rs` | two bounded channels | feeder, workers, writer | returns at the first error, with threads at work and an end held | each chunk once, every error passed on, all threads end |
| Workspaces `cli/src/cmd/data/{checkout,workspace,commit}.rs` | base, overlay, the commits | checkout, commit | a commit reads through the mount, which changes the overlay; an overlay that is there from before | a commit has what programs wrote |
| Inspect and diff `ops/src/inspect.rs`, `cli/src/cmd/data/diff.rs` | - | count blocks and bytes, compare two archives | flags of the index that overlap | the counts are those of what was packed |
| NBD `server/src/nbd.rs`, HTTP `server/src/lib.rs` | a session; none | negotiate, serve; range requests | framing with requests on the way, padding, clamping | both sides stay in step, a 206 carries what it says |
| Chunking `core/src/algo/dedup/cdc.rs` | a sliding buffer | refill, next chunk | end of input, buffer boundary, short reads | chunks concatenate to the input and depend on the content |
| Configuration, the other commands, backends, codecs | - | - | mostly input, output or library calls | - |

The components interact by calls: `pack_archive` drives the writer, directly or
through the pipeline; the reader opens its bases through a loader; the mount
reads through the reader and rebuilds its inode map from the manifest and the
overlay; `commit` packs a mount over its base; push and pull move whole files.
`PROJECT.json` lists every component with its status, and every hazard with the
line where it bites.

## Modules

Reference files of the code and the modules that model them:

| Module | Models | State and actions |
|---|---|---|
| `OrderedStream` | the promise of `process_stream` | what the writer accepted, what the call returned; write the next chunk, return Ok after the last, return an error |
| `PackPipeline` | `process_stream_parallel` | a variable for each channel, for the receiver main holds, and the program counter and result of each thread. One action per blocking point: `chunker.next`, `send`, `recv`, `compress`, one turn of the receive loop, one write, the drop of the receiver, each `join` |
| `UnorderedStream` | the promise of `process_chunks_parallel` | the chunks delivered, what the call returned; deliver a chunk, return Ok after all, return an error |
| `ChunkWorkers` | `process_chunks_parallel`, `compress_worker` | as `PackPipeline`: the two channels, the chunk in the hands of each worker, what is written, a program counter and result per thread. One action per blocking point |
| `ChunkWorkersProofs` | - | `TypeOK`, invariant and refinement, proved |
| `MCPackPipeline`, `MCChunkWorkers` | - | instances |
| `PackPipelineProofs` | - | invariants, `Accounted` and refinement, proved |
| `BlockIndex` | `BlockInfo`, `PageEntry`, the objects of a file | values only |
| `ArchiveWriter` | `ArchiveWriter`, `write_block`, `ParentIndex` | its fields as variables, one operator per method |
| `ArchiveReader` | `Archive::read_at` and what it calls | pure operators on an archive's file and index; the loops are folds |
| `PackArchive` | `pack_archive`, `pack_directory`, `convert_tar`, `extract_archive` | the archives finished so far and the job at hand; one action per step of the driver |
| `ArchiveStats` | `inspect_archive`, `diff` | pure operators on the index of an archive |
| `MCPackArchive` | - | inputs |
| `PackArchiveProofs` | - | `TypeOK`, `DedupSound`, `NonceNeverReused`, `ReadBack`, `ExtractUnchanged`, `StatsTrue`, proved |
| `PublishedFile` | the promise of the archive at one path | what a reader gets, what was promised; withdraw, publish, promise, lose power |
| `ArchiveDisk` | `ArchiveWriter`'s writes in order, `sign_archive`, `verify_archive`, the checks of an open | the file as the sequence of its parts, the parts that are synced, the header writes since, the command at hand; one action per write, plus failure, kill and power loss |
| `MCArchiveDisk` | - | two inputs of different length |
| `ArchiveDiskProofs` | - | `SignedVerifies` and the refinement of `PublishedFile`, proved |
| `InodeMap` | `InodeMap` | pure operators on the record of its fields |
| `Overlay` | the FUSE handlers | overlay files, directories, whiteouts, the inode map; one action per handler, and remounting |
| `Workspace` | `hexz checkout`, `hexz commit` | the requests of `Overlay` and the outcome of the last commit; a commit walks the mount and copies up what it opens, a checkout mounts an archive over the overlay that is there |
| `MCOverlay` | - | an archive with two files |
| `OverlayProofs` | - | `TypeOK`, `PathsInverse`, `OverlayHasInodes`, `WritesSurvive`, `WrittenListed`, also through the commands of `Workspace`, proved |
| `RemoteSync` | `hexz push`, `hexz pull`, the S3 transport | per client a directory, a command and the stack of its recursive calls; the remote. One action per call of the transport and per turn of the loop over the parents; any call may fail, a download may be cut off |
| `MCRemoteSync` | - | two lines of archives that share names |
| `RemoteSyncProofs` | - | `TypeOK`, `PushSound`, `PullCloses`, proved |
| `StreamChunker` | `StreamChunker` | the buffer with its cursor, fill and end-of-input flag; one action per read and per step of `next_chunk_len` |
| `MCStreamChunker` | - | inputs and cut places |
| `StreamChunkerProofs` | - | `TypeOK`, `Lossless`, `ChunkBounds`, `ContentDefined`, proved |
| `SharedArchive` | one `Archive` with many readers | the block cache, the flag, the prefetches and the reads in progress; one action per block fetched and per step of a prefetch |
| `NbdSession` | `handle_client`, and an external client | the two ends of each connection and two queues of messages; one action per message received |
| `ArchiveServer` | `serve_nbd`, `handle_request` | the requests of HTTP clients; composes the two modules above |
| `ArchiveServerProofs` | - | `TypeOK`, `OnePrefetch`, `CacheTrue`, `RangeHonoured`, `InSync`, proved |
| `MCArchiveServer` | - | a thin, encrypted archive of two pages and two streams |

`PackArchive` composes `ArchiveWriter` and `ArchiveReader`, and `ArchiveStats` counts
what it packs; `Overlay` composes `InodeMap` with the overlay, and `Workspace` adds
the commands around a mount: what is committed is mounted next; `PackPipeline` is composed with the writer through
`OrderedStream`: `PackArchive` writes the chunks of a file in order, which is
what the pipeline is proved to do. `ArchiveDisk` takes the same writes one by one
and asks what is left when they stop. `ArchiveServer` composes `SharedArchive`, whose
bytes are `ArchiveReader`'s, with NBD sessions and HTTP requests: both read through
the same cache and prefetcher, and in either step may interleave with the other.

An operator named `Def_Change`, just before `Def`, is `Def` with a plausible bug.
For each property of a passing run `PROJECT.json` names one that breaks it.

### Abstractions

* A chunk is the sequence of its bytes; its hash is the chunk itself (BLAKE3 is
  taken to have no collisions), and compression and CRC are left out. A block
  that is read under another nonce than it was encrypted under, or outside the
  file, gives the byte `Unreadable`, which no input has.
* Every object of an archive file (header, block, page, index) takes one unit of
  space. The parent offset `u64::MAX` is -1. The dictionary is left out.
* A file of a directory has the size the walk found and the chunks that were read
  later, so a file may have shrunk or grown in between.
* In `ArchiveDisk` a file is the sequence of the parts it is written in, and the
  header one of them, whose 4096 bytes are written as one. A reader is refused when
  the header or the index is not what the offsets say; blocks are not checked at the
  open, so a lost block is one that a reader may get. What was written is seen at
  once by every process; a power loss keeps, of what was not synced, any prefix of
  the appended parts with any of them replaced by junk, and any of the headers
  written since. That the directory entry is on the disk is taken for granted. The
  digest of a signature is the list of the kinds of parts behind the index offset.
* A tar file is a list of files, each behind a header of one unit; its size, which
  `convert_tar` takes for the size of the stream, counts the headers.
* A workspace is its base and its overlay. A commit is one step, since the mount is
  idle while it walks; the archive it writes is the set of files that it packed with
  their contents (that a packed file reads back is `PackArchive`'s). A commit counts
  for as many requests as `CommitCost`.
* In `RemoteSync` an archive is an identity, and its name what directories and the
  remote know it by; a file is whole, cut off behind its header or cut off in it.
  A client runs one command at a time over one directory.
* In `StreamChunker` a byte is its position, and the places where the rolling hash
  asks for a cut are a set; the first place that is at least `min_size` away cuts.
* In the server the page cache is left out, since pages never change, and the
  pages cover the stream (the writer's `ReadBack`). The block cache is one shard, as
  it is in the code up to 256 entries (`SINGLE_SHARD_CAPACITY_LIMIT`); larger
  caches are several such. Only prefetches fill it, as in the code. A message and
  the data behind it are two messages, so that a side that takes one for the other
  is seen to do so. When a client hangs up, what is on the way is lost.
* In the pipeline a worker that fails drops its chunk; a failed send of a worker
  or of the reader ends its thread without an error, as in the code. A thread's
  panic is the result its join returns.
* The mount serves one request at a time (the FUSE session is single-threaded), so
  a handler is one step. Requests are the ones the kernel makes for programs: it
  walks the path by lookups first. An inode of the initial map is named after its
  path and one made later by a counter, so that equal maps are equal values.
  Directories are one level deep. Paths with the name `.hexz_whiteout` are only
  made by the handlers; a directory of that name stays when its last marker is taken back
  (`marked`), is listed by the next mount, moves with its parent, and keeps a rename from
  replacing the directory it lies in.

## Runs

| Run | Shows | Bounds, and why they are enough |
|---|---|---|
| `pipeline_safety` | order, accounting of chunks, joins, refinement of `OrderedStream`, termination, with all five faults enabled | 3 workers, 5 chunks, channels of 3 slots (`ChannelFactor` 1 where the code has 4): both channels fill up, two workers may fail and one go on, and more than two chunks can wait for their turn |
| `pipeline_worker_error` | finding: a failed worker, and a call that returns Ok | 2 workers, 2 chunks, only `compress` fails |
| `archive_safety` | dedup, nonces, read-back of every range, extraction, what inspect and diff say | 3 archives, each over an earlier one or not, serial or parallel, encrypted or not, or converted from a tar file; pages of 2 descriptors, so that chunks of 4 fill pages, half-fill them and cross them; 7 inputs with zero chunks, repeats, empty chunks at the end of a file, an empty file, a file named `memory`, a directory without files, files that shrank and that grew |
| `archive_chain` | finding: the third archive of a chain reads zeros | 3 archives |
| `overlay_safety` | the maps stay inverse, what programs wrote survives and is listed, also through commits, remounts and checkouts | 6 requests over the 6 paths of two names, of which a commit takes 3; remounts and checkouts at any point: enough for create, write, rename over, remove, make again and write, or for changes before and after a commit |
| `overlay_unlink` | finding: an unlinked file is back after the next mount | same |
| `workspace_commit` | finding: a commit that returns Ok leaves a file out | same |
| `sync_safety` | parents before children, Ok means delivered, a pull that is not cut off leaves nothing without its parents | 2 clients with 2 commands each, one with a line of three archives, the other with the last of another line under the same names; every call of the transport may fail |
| `chunker_safety` | nothing lost, bounds of chunks, chunks depend on content alone, the chunks end | sizes 2 to 4, a buffer of 8, inputs from 0 to 18 bytes, 256 sets of cut places; readers that return any number of bytes, all there is room for, or an error. An input more than twice the buffer shifts it several times |
| `workers_safety` | refinement of `UnorderedStream`, bounds of the channels, termination, with all three faults enabled | 6 chunks, 3 workers, channels of 2: both fill up, two workers may fail and one go on, and the feeder can be blocked when the call returns |
| `disk_safety` | refinement of `PublishedFile`, signatures | inputs of one and two blocks, 4 commands (packs and signatures), each of which may fail, be killed or lose power at every write: enough to pack over a signed archive, and to sign twice |
| `server_safety` | cache, prefetcher, framing, ranges and answers together | one NBD connection with at most 2 requests under way, one HTTP client that asks for ever; a cache of one entry for 3 stored blocks, so that every insertion evicts (that the cache is true is proved for every capacity); reads within and past the export, over several blocks, too long; every read of the file, of a block or of a page, may fail |

The counters bounded by a guard are `MaxArchives`, `MaxRequests` of the overlay,
`MaxCommands` of the archive file,
`MaxCommands` of the clients, and `MaxOptions` and `MaxRequests` of an NBD client,
which end what programs, users and clients do, not what the code does. The runs of
findings stop at their first counterexample. Deadlock is checked in every run but
`server_safety`; what has finished stutters through an explicit `Done` or `Stopped`.
In `server_safety` the connection stops when the client is at its bounds.

### Properties

* `OrderedOutput`, `Accounted`: the writer has a prefix of the input, and while
  main receives, every chunk that was handed over is in exactly one place, except
  at most one for each failed worker.
* `JoinedBeforeReturn`: no thread outlives the call unless one panicked.
* `ImplementsOrderedStream`: with `status` refined to an error when a worker
  failed, the pipeline is the sequential writer. The refinement mapping says
  exactly how far the promise is kept; without the correction it does not hold,
  which is the finding.
* `Termination`: `<>[]Terminated`.
* `DedupSound`, `NonceNeverReused`: about the writer's file and every finished
  archive.
* `ReadBack`: `read_at` for every offset and length around the stream, for
  archives that are not chained. `ExtractUnchanged`: a file that did not change
  is extracted as it was, even when its neighbours shrank.
* `StatsTrue`: the blocks that `inspect_archive` counts, by kind, are those of the
  stream, and their bytes its length; no block is stored twice unless it is encrypted;
  over its base, an archive is all of what `diff` calls shared or new, what it repeats,
  and zeros.
* `ImplementsUnorderedStream`: the writer gets each chunk at most once; Ok means all of
  them were accepted and nothing failed. Here no correction is needed, unlike in the
  pipeline: the code passes on what its workers return.
* `ImplementsPublishedFile`: readers of the path are refused or get the whole of one
  input, whatever fails or is killed; what `pack` returned Ok for is there also after
  a power loss. `SignedVerifies`: once `sign_archive` returned Ok, `verify_archive`
  accepts the file until it is packed over or power is lost.
* `PathsInverse`, `OverlayHasInodes`: relate path-to-inode, inode-to-path and the
  overlay after any series of renames, removals and re-creations.
* `WritesSurvive`, `WrittenListed`: a history of what programs wrote must be
  readable and listed now, after a remount, and in a mount of a commit that returned
  Ok (unless that commit is the finding's).
* `PushSound`: `ParentsFirst`, the comment "Push parents first (so remote always has
  a complete chain)" of `push.rs:85` in the form that holds: unless the pusher warned
  that it has not got the parent itself; and `Delivered`.
* `PullCloses`: what a directory lacks after pulls that were not cut off, it lacked
  before or the remote did not have.
* `Lossless`, `ChunkBounds`, `ContentDefined`: the chunks in order are the input;
  none is too long, and an empty one is the last; with full reads they equal the
  chunking of the whole input, which is written down as a recursive function of the
  content alone. `Termination`: the chunks end.
* `CacheTrue`: an entry holds the block of its stream and number, although lookup,
  read and insertion are three steps and blocks of two streams share numbers.
  `OnePrefetch`: the flag and the prefetches agree.
* `InSync`: each side takes every message for what it is, and the data of a read are
  the export's bytes, padded with zeros. `Answered`: whoever waits for an answer gets
  it. `RangeHonoured`: a 206 starts where the client asked, is not longer than it
  asked or may be, and carries those bytes.

### Fairness

`FairSpec` of `StreamChunker` has weak fairness of its steps but not of a failing
read: one thread asks for chunks in a loop until there are none. `FairSpec` of
`ArchiveServer` has weak fairness of what a connection's task and the reads it
waits for can do, and of a client that takes what has arrived. Each connection is a
task of its own, so nothing is assumed of the others: the HTTP client may go on for
ever, the prefetcher may stop, and the NBD client must still be answered. Nothing
obliges a client to send anything.

`FairSpec` of `PackPipeline` has weak fairness of the reader, of each worker and
of main. The threads are operating system threads, and a crossbeam `send` or
`recv` that can go on does go on; nothing needs strong fairness, since a worker
that is always overtaken at the channel does not keep the others from ending.
`FairSpec` of `ChunkWorkers` is the same for the feeder, each worker and main:
`Termination` says that the call returns and that the threads it leaves behind when
it returns an error end too.
The other specifications have no liveness property and no fairness.

## Findings

1. A worker's error is dropped (`ops/src/pack.rs:1539`): the comment restricts
   this to the case of a write error, the code does not. The call returns Ok with
   the rest of the file missing.
2. A chain of three archives reads zeros (`store/src/lib.rs:64`,
   `core/src/api/file.rs:398`, `:445`): the base's references count as blocks it
   has when packing and as blocks it has not when reading.
3. `unlink` never leaves a whiteout (`fuse/src/fuse/mod.rs:680`), so a deleted
   file of the archive is back in the next mount.
4. `remove_path` leaves the removed name among the children of its directory, with
   the kind it had (`vfs/src/lib.rs:443`), so after `rmdir d; mv a d` a commit, which
   packs what the listing calls files, returns Ok without `d`.

Met while modelling, without a run of their own:

* `refill` of the chunker stops by `filled`, which counts consumed bytes
  (`core/src/algo/dedup/cdc.rs:896`), so with a reader that returns less than there is
  room for, a chunk is cut at what has arrived, possibly below `min_size`; lines
  651-652 and the module's documentation promise independence of the reads.
  `ContentDefined` is therefore stated for full reads, which files give.
* When the input ends with a chunk of `max_size` an empty chunk follows, although
  `next_chunk_len` says "always > 0" (line 910). `ChunkBounds` says that it is the
  last. The serial path makes a sparse block of length 0 of it
  (`ops/src/pack.rs:1383`), the pipeline compresses and stores an empty block. The
  inputs of `PackArchive` have such chunks; a block without bytes takes its place in the
  index and in the block counter, and a page may hold nothing else, so that two pages
  start at one offset and the binary search may meet either (`FindPage`).
* Whether an archive is on the remote is decided by its name alone
  (`cli/src/cmd/data/push.rs:75`): a child may be pushed over an archive of its
  parent's name that is not its parent.
* A request without a `Range` header for an empty stream is answered with
  `bytes 0-0/0` and no bytes; `RangeHonoured` leaves empty streams out.
* After a failed read the NBD server still sends as many bytes as were asked for, "NBD
  protocol requires `length` bytes regardless of error" (`server/src/nbd.rs:269`).
  The client of the model shares that reading of the protocol.
* A root file named `memory` is packed into the memory stream and extracted from the
  Main stream (`ops/src/pack.rs:1187`); `ExtractUnchanged` is about the other files.
* `push_archive` returns for an archive that is on the remote without a look at its
  parents (`cli/src/cmd/data/push.rs:79`), so a chain that was pushed incompletely by
  a client that lacks the parents is not completed by one that has them. A download
  that was cut off counts as pulled (`cli/src/cmd/data/pull.rs:90`): the next pull
  finds the file, reads no header, and returns Ok without the parents.
* Two `sign_archive` of one file at once may both return Ok and leave a file that does
  not verify: the second to append digested the file without the first's signature,
  which is then in front of its own. The model has one command at a time.
* `crash_safety_tests.rs` lines 5-7 call the design header-last. Nothing is synced
  between blocks and header, so a power loss before `sync_all` may leave the header
  and not the blocks (`lost` in `ArchiveDisk`); without a power loss the claim holds.
  `PublishedFile` therefore promises nothing after a power loss before Ok.
  The directory entry of a new archive is not synced at all.
* `commit` opens every file and thereby copies it up, so afterwards `hexz status` shows
  all of them as modified. After a removal that left the name in the listing the next
  commit fails, since the name leads nowhere. A mount over an overlay that has
  `.hexz_whiteout` directories lists and packs them.
* `checkout` takes `~/.hexz/workspaces/<hash>/overlay` as it finds it, so changes of an
  earlier workspace of that path appear over the new base; a commit of a workspace
  that is not mounted packs the empty mount point.
* `cache_capacity_bytes` is used as a number of entries (`core/src/api/file.rs:301`).
* A converted tar file has the size of the tar file as its stream size, so its stream
  ends in zeros, and its metadata is no manifest, so `extract` makes one file of it.
* `diff` takes every reference of the second archive to its base for a block it shares
  with the first (`cli/src/cmd/data/diff.rs:135`), whether the first is its base or not.

## Proofs

`PackPipelineProofs` (every input, number of workers, channel factor and set of
faults; assumptions `InputAssumption`, `SizeAssumption`, `FaultAssumption`):

* `TypeCorrect`: `TypeOK`, which includes the capacity of the channels.
* `Invariance`: the inductive invariant `IInv`. `OrderedOutput` alone is not
  inductive: one must know that an item carries the chunk of its number wherever
  it is (`GenuineItems`), that the write position is `next_seq` (`WrittenInv`),
  how program counters, results and the receiver fit together (`ReaderControl`,
  `WorkerControl`, `MainControl`), and, for the result, that a number below
  `readerSeq` is somewhere as long as no worker failed (`NothingLost`), so that
  when the channels are drained everything has been written (`DrainedInput`,
  `ClosedInv`), and what the joins establish (`JoinInv`). Each part is a lemma of
  its own, with a step for each action.
* `OrderedOutputCorrect`, `JoinedBeforeReturnCorrect` follow from it.
* `AccountedCorrect`: while main receives, the numbers that were handed over are in
  one place each (`OnePlaceStep`), and those in none are no more than the workers that
  failed (`LostInv`): a worker loses its chunk in the step in which it fails, so both
  sets grow by one at most and together.
* `Implementation`: every step is a step of `OrderedStream` or a stutter.

`PackArchiveProofs` (every set of inputs, page size, block size and number of
archives):

* `Invariance`: `Sound` says that pages of the file and the pending page describe
  blocks of the file, the dedup map points at a block with its key as data, and
  every nonce in the file is below the block counter. The last two are the
  strengthening: a map that points elsewhere, or a nonce of the future, would
  break the properties at the next block. Each writer method has a lemma that it
  keeps `Sound`.
* `DedupSoundCorrect`, `NonceNeverReusedCorrect` follow from it.
* `TypeInvariance`: beside the types, entries of the index point at pages that are in the
  file, and the driver is at a file and a chunk it has. `TypeCorrect` follows. The proof
  failed at first: `TypeOK` said in every phase that the file number is within the
  current list of files, but the driver does not reset it after the auxiliary stream, and
  an input with more auxiliary files than main files breaks it once the archive is
  finalised. The instance has no such input. `TypeOK` now says it of the two phases that
  have a current file.
* `ReadInvariance`: the inductive invariant `ReadInv` behind reading back. While a job
  runs (`PackInv`), the pages written so far, and the blocks of the pending page, stand
  for the bytes packed so far, each at its place in the stream (`StreamAt`, `WholeAt`);
  a block stands for a chunk when it is sparse and the chunk is zeros, when it points at
  data of the file that is the chunk, or when it refers to the base and the base's hash
  index has the chunk (`Holds`); sizes, manifest offsets and the parent index are those of
  the job (`SizesAt`, `ManifestAt`, `JobAt`); and a key of the dedup map stands for data
  of the file (`DedupHolds`). Every finished archive holds what was packed on
  a base that was finished before it (`ArchivesHold`). All of it must survive the file's
  growth, and the index of the base must stay as it was when the job began.
* `ReadBackCorrect`: the reader's side, from `ReadInv`. Its loops are folds over pages and
  blocks; a fold is described by the sequence of its rounds (`IsRounds`, `RoundsRun`),
  which `RoundsExist` shows to be there; where an induction theorem would be used, the
  proof takes the least number outside the set of those for which the claim holds
  (`WFMin`, which has no operator as parameter). The
  scan over a page joins up to the stream between two places (`ScanPageReads`), the binary
  search finds a page at or before an offset (`FindPageIs`), the scan over the pages joins the
  parts (`ScanStreamReads`), and a reference to the base is served by the base's own
  index, which needs that the base has no base (`BaseServes`).
* `ExtractUnchangedCorrect`: the offset of a manifest entry is where the chunks of its
  file start (`ManifestAt`, `FilePlaces`), also when files before it came out
  shorter or longer than the walk said, so reading there gives the file as long as the
  stream is no longer than its size.
* `OnceInvariance`: a second invariant, for the statistics. Unless the archive is
  encrypted, some map gives each hash that the Main stream stores the one offset at which
  it is stored, and none of these hashes is in the base (`StoredBy`). While the stream is
  written that map is the dedup map (`OnceInv`); it is forgotten when the Auxiliary stream
  begins, and some map is left; so of finished archives too (`ArchivesOnce`).
* `StatsTrueCorrect`: a sum over a finite set may be taken apart in any order
  (`SumTakes`), over disjoint parts (`SumUnion`) and through a one-to-one map
  (`SumImage`). The lengths of all descriptors add up to the stream (`BytesOfMain`, from
  `ReadInv`) and a descriptor is of exactly one kind (`PartsAdd`), which is the report of
  `inspect_archive`. By `ArchivesOnce` the first descriptors at each offset are one for
  each hash (`FirstsAre`), which makes its unique blocks the hashes `diff` compares; and
  none is a hash of the base.

`RemoteSyncProofs` (every set of clients, archives, names and bases in which a
parent's name is older than its child's; assumptions `BasesAssumption`,
`AgeAssumption`, `OwnedAssumption`):

* `Invariance`: `PushSound` says nothing of a push that is under way, so the
  invariant describes the stack of calls: below a frame that has done `next - 1` of
  its parents, each of these is on the remote, was skipped, or is the call above it;
  frames descend by `Age`, so no archive is on the stack twice; whatever is in the set
  of pushed names is on the remote or on the stack; and the outermost
  call is for the archive of the command. The remote only grows, which makes all of it stable
  under the other clients. Each action has a lemma.
* `PushSoundCorrect` and `TypeCorrect` follow from it.
* `PullsInvariance`: a second invariant for `PullCloses`. Whatever parent an archive of
  the directory lacks was lacking before the command, was warned of, or is being
  fetched: a call on the stack still has it before it, or waits for the call for it
  (`ClosesInv`, `Waits`). With the shape of the stack (`PullInv`), headers that can be
  read unless a client cut a file off (`HeadersInv`) and what is left to list
  (`TodoInv`) it is inductive; at the end nothing waits, which is
  `PullClosesCorrect`.

`StreamChunkerProofs` (every input, set of cuts, buffer size and chunk sizes with
`2 * MaxSize <= BufferSize`, every length of reads; `InputAssumption`,
`SizeAssumption`):

* `Invariance`: what is between `cursor` and `filled` is the input behind what was
  handed out (`BufferInv`), `out` is the input up to there (`OutInv`), the end flag is
  set at the end only (`EofInv`), and a chunk of length 0 is the last (`LensInv`).
  That a cut lies in its window, `CutLengthInWindow`, needs the minimum of a set of
  numbers, from the well-foundedness of the naturals.
* `TypeCorrect`, `LosslessCorrect`, `ChunkBoundsCorrect` follow from it.
* `ContentDefinedCorrect`: the reference is a recursive function, `Chunking`. That it
  has a value (`ChunkingIs`) is shown from the least input for which it would have
  none. With reads that fill the buffer a cut sees as much as a chunk can take
  (`FullInv`), so the chunks so far followed by the chunking of the rest are the
  chunking of the whole (`ContentInv`).

`ArchiveServerProofs` (every archive, cache capacity, set of NBD and HTTP clients, of
extents and of Range headers; `IndexAssumption`: the blocks of a stream adjoin each
other, have numbers of their own and hold what `ArchiveReader` reads in their place,
as a writer leaves them; TLC evaluates it for the archive of the run):

* `Invariance`: the prefetcher is at rest with the flag clear, or the flag is set and
  the list of prefetches has one member, which has positions of its stream to do
  (`PrefetchInv`); and the cache is a sequence of `Entries` with each key once
  (`CacheInv`). `OnePrefetch`, which speaks of lengths, does not say what `Append` and
  `RemoveAt` make of the list, and `CacheTrue` says nothing of the block that a
  prefetch has in hand: the invariant names both. A read that returns spawns only at
  rest (`EndReadKeeps`), a prefetch puts what it took under its own key (`WarmKeeps`),
  a put leaves what was there or is new (`PutKeeps`).
* What a read has got of a block is its `Share` of it or an error, in whatever order
  blocks come and whether from the cache or the file (`ReadsInv`, `FetchItemIs`). The
  shares of all the blocks, joined, are what was asked for (`SharesJoin`): the share of
  a block starts where those before it end, as far as the read goes (`Reach`), which
  holds of the first k blocks for each k, or there would be a least k for which it
  does not. So a read that ends without an error has the bytes of the stream
  (`ResultIs`).
* A session or an HTTP request that is reading has a read under way, of what it asked
  for and no other's (`NbdReadsInv`, `HttpInv`); messages of a connection are what the
  other side can take apart, and flags are the first of them (`NbdInv`).
* A connection is in one of three phases (`TalkInv`). In `Greeting` nothing is on its
  way but the greeting. In `Negotiating` the flags and at most one option are, or the
  replies to that option. In `Serving` there is a number n of which the requests before
  it have been replied to, the one in hand is not before it, and those not read come
  after (`Balanced`). Each queue is `Framed`, a piece of data stands just behind a write
  or behind the reply to a read, failed or not, and nowhere else, and `Ordered` by the numbers of its
  requests. `InSync`, which speaks of the first message of a queue alone, says nothing of
  what is there when it has been taken. Every step is a lemma about queues (a message
  is taken: `FramedRest`; one or two are added) and one about the phase.
* `TypeCorrect`, `OnePrefetchCorrect`, `CacheCorrect`, `RangeHonouredCorrect` and
  `InSyncCorrect` follow from it; `RangeHonouredCorrect` with `RangeIs` and
  `ClampedIs`: a range that parses is in the stream, so that the read is not clamped.

`OverlayProofs` (every set of names, marker name, archive and number of requests and
commits; `NamesAssumption`: the marker is no name that programs use, and no name is a
number, as numbers stand for inodes that are added; `ArchiveAssumption`: the paths of
the archive are of such names, its files of bytes; `BoundAssumption` and
`CostAssumption`: the bounds are numbers):

* `Invariance`: `PathsInverse` alone is not inductive. A new inode must be new, which
  needs the counter (`FreshInv`), and what a rename moves must come back under the
  inverse renaming (`RebaseBack`). For `OverlayHasInodes` one must know that all the
  directories on a path that a walk finds are in the map (`WalkFinds`), as the host
  makes them when it copies a file up. The walk is a fold over a path; that it has a value
  is shown from the least length for which it would have none (`WalkExists`).
  The root stays a directory (`RootNodeInv`).
* `PathsInverseCorrect`, `OverlayHasInodesCorrect` follow from it.
* `WritesAreKept`: the invariant `WInv` for what programs wrote. The overlay is a tree
  (`Tree`): without that a directory made on the way could hide a file. What was written is
  a file of the overlay with the bytes expected, or, after a checkout of a commit, a
  file of the archive that is mounted: then the inode map still has the whole way to it
  as it was mounted, each directory entered in its parent under its own inode, and
  nothing on the overlay stands on that way (`Kept`, `FromArchive`, `FromMap`); and no
  marker lies on the way; a directory with a marker has a marker directory, and a
  rename finds nothing below a directory it replaces (`MarkedThere`, `NothingMarkedBelow`). What was saved by a commit is in the committed archive,
  which has no file below another (`SavedInv`). Every request, the copying up of a
  commit, each checkout and remount has a lemma (`CreateSurvives` to
  `CommitSurvives`, `MountSurvives`); the longest is the rename, which moves files,
  directories, markers and inodes at once (`RenamedTree`, `RenamedKept`).
* `WritesSurviveCorrect`, `WrittenListedCorrect` follow from it, for the mount at hand
  and for the next one. A commit collects all that is written, since the walk over
  the mount goes the way that the map has (`WrittenCollected`).
* `TypeCorrect`: `TypeOK`, whose hard part is that every file and directory of the
  overlay has a name that programs use. A mount over an overlay with whiteouts lists
  their markers as files, a commit opens them and packs them, and the next checkout
  mounts an archive that holds them: nothing in the code keeps markers and files apart
  but the path. `TypesInvariance` has what it takes (`TInv`): a marker directory is the
  last name of a path of the map or the one before it (`Shaped`, kept by renames,
  `RebaseIsShaped`); it is a directory in the map (`MapTyped`), so that no commit reads
  it (`ReadableTyped`) and no archive has it as a file (`Packable`); what lies in it is
  a marker, which opening whites out again and never copies up (`CopyUpTyped`).

`ChunkWorkersProofs` (every number of chunks, of workers from one, every bound of the
channels and set of faults; `SizeAssumption`, `FaultAssumption`):

* `TypeCorrect`: `TypeOK` with the bounds of the channels.
* `Invariance`: a chunk that was fed is in one place (`Once`), a chunk that is in none
  was in the hands of a worker that failed or refused by the writer (`NothingLost`),
  and how program counters and results fit together (`WorkerControl`, `MainControl`,
  `JoinInv`). A queue is used through what is `In` it, its head and its tail.
* `Implementation`: every step is one of `UnorderedStream` or a stutter.

`ArchiveDiskProofs` (all inputs with any number of parts, any number of commands;
`InputAssumption`, `BoundAssumption`):

* `TypeCorrect`, and `Invariance`: a file with a header holds the whole input the header
  is of, unless power was lost before Ok (`FileInv`); a pack has no header until its
  last write (`PackInv`); a signer goes on with the header of the file (`SignInv`); what
  was promised is in the synced part, and headers that were written since are of it
  (`PromiseInv`); and the signature that the header points at is over what lies in
  front of it (`SignatureInv`).
* `SignedVerifiesCorrect` and `Implementation` follow from it.

Only model-checked: `Termination` and `Answered`, liveness, which the prover does not
reach. Every other property of a passing run is a theorem.

## Not modelled

* Codecs, encryption and hashing are libraries; what they promise is in the
  abstractions. The estimation of `dcam.rs` and `predict.rs` is floating point.
* The storage backends answer a positioned read by one call of the system or of an
  HTTP or S3 client. The HTTP and S3 ones do not check that the object stays the same
  between reads; the model has one file per name.
* Hard links and symbolic links of the mount, modes, files opened before they were
  replaced by a rename: the requests of the model are path operations on files and
  directories.
* The page cache and the shards of the block cache (pages never change; a shard is a
  cache of its own), the pool of buffers, and `Prefetcher`'s window, which
  `warm_blocks` does not use.
* `process_chunks_parallel` with no worker: as long as the chunks fit into the channel it
  returns Ok with nothing written; when they do not, its feeder blocks and the call, which
  joins it, hangs. `SizeAssumption` asks for one worker.
* Files of a directory that is renamed (`fuse/src/fuse/mod.rs:774`): the code moves what
  the overlay has and no more. The length of a header (`ops/src/archive_writer.rs:464`),
  which holds the path of the base and is not checked against its 4096 bytes. A
  pack whose output is its own base, which it truncates before it is read.
* Terminal output, argument parsing, bindings and build tools.

What would come next: links in the mount and the hash index that a base builds on demand
with several packs over it.
