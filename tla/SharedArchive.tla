---------------------------- MODULE SharedArchive ----------------------------
(***************************************************************************)
(* Many readers of one opened archive (core/src/api/file.rs): each read     *)
(* takes its blocks one after the other, or in any order when they are      *)
(* decompressed in parallel, from the block cache or from the file.  A read  *)
(* that returns may spawn a prefetch, which puts the blocks that follow in   *)
(* the cache; nothing else does.                                            *)
(*                                                                          *)
(* What the bytes are is ArchiveReader's.  The page cache, whose pages never *)
(* change, is left out; the pages cover the stream.                         *)
(***************************************************************************)
EXTENDS ArchiveReader, FiniteSets

CONSTANTS Readers,
          Archive, Parents,     \* the file, its master index, and its bases
          Capacity,             \* of the block cache
          BlockSize,            \* header.block_size
          PARALLEL_MIN_BLOCKS,
          BackendFails          \* may a read of the file fail?

ASSUME CapacityAssumption == Capacity \in Nat
ASSUME BlockSizeAssumption == BlockSize \in Nat \ {0} /\ PARALLEL_MIN_BLOCKS \in Nat
ASSUME BackendAssumption == BackendFails \in BOOLEAN

VARIABLES
    cache,      \* BlockCache, one shard: entries, the least recently used first
    in_flight,  \* Prefetcher.in_flight
    tasks,      \* prefetches that were spawned and have not ended
    jobs        \* reads: a function from the readers that are in read_at

sharedVars == <<cache, in_flight, tasks, jobs>>

Streams == {"main", "aux"}
Failed == <<-1>>        \* in the place of bytes

Lower(a, b) == IF a <= b THEN a ELSE b
Higher(a, b) == IF a >= b THEN a ELSE b

-----------------------------------------------------------------------------
(* The block cache.                                                         *)

CacheKey_NoStream(stream, idx) == <<"main", idx>>
CacheKey(stream, idx) == <<stream, idx>>

Hits(key) == { e \in Range(cache) : e.key = key }

Without(key) ==
    LET at == { i \in DOMAIN cache : cache[i].key = key }
    IN  IF at = {} THEN cache ELSE RemoveAt(cache, CHOOSE i \in at : TRUE)

\* put, and get of an entry that is there: the newest entry, and the oldest goes if there are too many.
Put_NoEviction(entry) == Append(Without(entry.key), entry)
Put(entry) ==
    LET all == Append(Without(entry.key), entry)
    IN  IF Len(all) <= Capacity THEN all ELSE Tail(all)

-----------------------------------------------------------------------------
(* read_at.                                                                 *)

\* A block that has bytes of its own in the file.
Stored(b) == ~ is_sparse(b) /\ ~ is_parent_ref(b)

\* The blocks of a page and of a stream, each with what is read when it is taken
\* from the file, and the positions of those that overlap n bytes at an offset.
Placed(entry) ==
    LET blocks == BlocksAt(Archive, entry)
    IN  [i \in DOMAIN blocks |->
           [idx |-> entry.start_block + i - 1, start |-> BlockStart(entry, blocks, i),
            block |-> blocks[i],
            data |-> BlockBytes(Archive, Parents, entry.start_block + i - 1, blocks[i])]]
Items == [stream \in Streams |->
    FlattenSeq([k \in DOMAIN Pages(Archive, stream) |-> Placed(Pages(Archive, stream)[k])])]
Overlaps(item, offset, n) ==
    item.start < offset + n /\ offset < item.start + item.block.logical_len
WorkItems(stream, offset, n) ==
    { k \in DOMAIN Items[stream] : Overlaps(Items[stream][k], offset, n) }
StoredAt(stream, k) == Stored(Items[stream][k].block)

\* What a read copies out of the data of a block.
Copied(job, item, data) ==
    LET from == Higher(job.offset, item.start)
        to == Lower(job.offset + job.n, item.start + item.block.logical_len)
    IN  Piece(data, from - item.start, to - from)

Clamped(stream, offset, len) ==
    IF offset >= size(Archive, stream) THEN 0 ELSE Lower(len, size(Archive, stream) - offset)

\* collect_work_items: sparse blocks and those of a parent are copied at once.
NewJob(stream, offset, n) ==
    LET job == [stream |-> stream, offset |-> offset, n |-> n,
                items |-> WorkItems(stream, offset, n), got |-> <<>>]
        at_once == { k \in job.items : ~ StoredAt(stream, k) }
    IN  [job EXCEPT !.got =
            [k \in at_once |-> Copied(job, Items[stream][k], Items[stream][k].data)]]

\* A page that cannot be read ends the read before any block is taken.
PageFails(job) == [job EXCEPT !.got = [k \in job.items |-> Failed]]

StartRead(r, stream, offset, len) ==
    /\ r \notin DOMAIN jobs
    /\ \E fails \in {FALSE, BackendFails} :
          LET job == NewJob(stream, offset, Clamped(stream, offset, len))
          IN  jobs' = [x \in {r} \cup DOMAIN jobs |->
                         IF x # r THEN jobs[x] ELSE IF fails THEN PageFails(job) ELSE job]
    /\ UNCHANGED <<cache, in_flight, tasks>>

StoredItems(job) == { k \in job.items : StoredAt(job.stream, k) }
Todo(job) == job.items \ DOMAIN job.got
HasFailed(job) == \E k \in DOMAIN job.got : job.got[k] = Failed

\* The first error ends a serial read; a parallel one tries every block.
Parallel(job) == Cardinality(StoredItems(job)) >= PARALLEL_MIN_BLOCKS
Finished(job) == Todo(job) = {} \/ (HasFailed(job) /\ ~ Parallel(job))
Ready(job) ==
    IF Parallel(job) THEN Todo(job) ELSE { k \in Todo(job) : \A j \in Todo(job) : k <= j }

Result(job) ==
    IF HasFailed(job) THEN Failed
    ELSE FlattenSeq([k \in DOMAIN Items[job.stream] |->
                        IF k \in job.items THEN job.got[k] ELSE <<>>])

\* fetch_raw_block, decompress_and_verify and the copy, for one block.
FetchItem(r) ==
    /\ r \in DOMAIN jobs /\ ~ Finished(jobs[r])
    /\ \E k \in Ready(jobs[r]) :
          LET job == jobs[r]
              item == Items[job.stream][k]
              Got(bytes) == jobs' = [jobs EXCEPT ![r].got =
                  [x \in {k} \cup DOMAIN job.got |-> IF x = k THEN bytes ELSE job.got[x]]]
          IN  \/ \E e \in Hits(CacheKey(job.stream, item.idx)) :
                    Got(Copied(job, item, e.data)) /\ cache' = Put(e)
              \/ /\ Hits(CacheKey(job.stream, item.idx)) = {}
                 /\ \/ Got(Copied(job, item, item.data))
                    \/ BackendFails /\ Got(Failed)
                 /\ UNCHANGED cache
    /\ UNCHANGED <<in_flight, tasks>>

-----------------------------------------------------------------------------
(* The prefetcher.                                                          *)

\* warm_blocks over four blocks' worth of bytes: the positions in Items that are
\* still to do, and the one whose block is in hand, or 0.
WarmTask(stream, offset) ==
    LET n == Clamped(stream, offset, 4 * BlockSize)
    IN  [stream |-> stream, in_hand |-> 0,
         todo |-> { k \in WorkItems(stream, offset, n) : StoredAt(stream, k) }]

\* A read that got blocks of its own spawns one, if none is in flight.
MayPrefetch_Unguarded(job) == Result(job) # Failed /\ StoredItems(job) # {}
MayPrefetch(job) == Result(job) # Failed /\ StoredItems(job) # {} /\ ~ in_flight

EndRead(r) ==
    /\ r \in DOMAIN jobs /\ Finished(jobs[r])
    /\ jobs' = [x \in DOMAIN jobs \ {r} |-> jobs[x]]
    /\ IF MayPrefetch(jobs[r])
          THEN /\ in_flight' = TRUE
               /\ tasks' = Append(tasks, WarmTask(jobs[r].stream, jobs[r].offset + jobs[r].n))
          ELSE UNCHANGED <<in_flight, tasks>>
    /\ UNCHANGED cache

\* A block is taken from the file, unless it is cached or cannot be read ...
WarmFetch(t) ==
    /\ tasks[t].in_hand = 0
    /\ \E k \in tasks[t].todo :
          LET hits == Hits(CacheKey(tasks[t].stream, Items[tasks[t].stream][k].idx))
              Skipped == tasks' = [tasks EXCEPT ![t].todo = @ \ {k}]
          IN  /\ \A j \in tasks[t].todo : k <= j
              /\ \/ \E e \in hits : Skipped /\ cache' = Put(e)
                 \/ hits = {} /\ BackendFails /\ Skipped /\ UNCHANGED cache
                 \/ /\ hits = {} /\ UNCHANGED cache
                    /\ tasks' = [tasks EXCEPT ![t].in_hand = k]
    /\ UNCHANGED <<in_flight, jobs>>

\* ... and put in the cache afterwards.
WarmInsert(t) ==
    /\ tasks[t].in_hand # 0
    /\ LET item == Items[tasks[t].stream][tasks[t].in_hand]
       IN  cache' = Put([key |-> CacheKey(tasks[t].stream, item.idx), data |-> item.data])
    /\ tasks' = [tasks EXCEPT ![t].in_hand = 0, ![t].todo = @ \ {tasks[t].in_hand}]
    /\ UNCHANGED <<in_flight, jobs>>

\* clear_in_flight, whatever warm_blocks returned.
WarmEnd(t) ==
    /\ tasks[t].in_hand = 0 /\ tasks[t].todo = {}
    /\ tasks' = RemoveAt(tasks, t) /\ in_flight' = FALSE
    /\ UNCHANGED <<cache, jobs>>

Warm == \E t \in DOMAIN tasks : WarmFetch(t) \/ WarmInsert(t) \/ WarmEnd(t)

SharedInit == cache = <<>> /\ in_flight = FALSE /\ tasks = <<>> /\ jobs = <<>>

-----------------------------------------------------------------------------

\* The bytes of the streams, as ArchiveReader reads them.
StreamBytes == [s \in Streams |-> read_at(Archive, Parents, s, 0, size(Archive, s))]

\* The blocks of a stream adjoin each other from its start to its end, have numbers
\* of their own, and hold what the stream has in their place: what a writer leaves.
BlockEnd(s, k) == IF k = 0 THEN 0 ELSE Items[s][k].start + Items[s][k].block.logical_len
ASSUME IndexAssumption ==
    \A s \in Streams :
        /\ StreamBytes[s] \in Seq(Nat) /\ Len(StreamBytes[s]) = size(Archive, s)
        /\ Items[s] \in Seq(Range(Items[s])) /\ BlockEnd(s, Len(Items[s])) = size(Archive, s)
        /\ \A k \in DOMAIN Items[s] :
              /\ Items[s][k].idx \in Nat /\ Items[s][k].block.logical_len \in Nat
              /\ Items[s][k].start \in Nat /\ Items[s][k].start = BlockEnd(s, k - 1)
              /\ BlockEnd(s, k) <= size(Archive, s)
              /\ Items[s][k].data = SubSeq(StreamBytes[s], Items[s][k].start + 1, BlockEnd(s, k))
              /\ \A j \in DOMAIN Items[s] : Items[s][j].idx = Items[s][k].idx => j = k

SharedTypeOK ==
    /\ Len(cache) <= Capacity /\ IsInjective([i \in DOMAIN cache |-> cache[i].key])
    /\ \A e \in Range(cache) : e.key[1] \in Streams /\ e.key[2] \in Nat
    /\ in_flight \in BOOLEAN
    /\ \A t \in DOMAIN tasks : tasks[t].stream \in Streams
    /\ DOMAIN jobs \subseteq Readers
    /\ \A r \in DOMAIN jobs : DOMAIN jobs[r].got \subseteq jobs[r].items

\* A block in the cache is the block of the stream and number it is kept
\* under, whoever put it there and whatever else was read meanwhile.
CacheTrue ==
    \A e \in Range(cache) :
        \E item \in Range(Items[e.key[1]]) :
            e.key[2] = item.idx /\ e.data = item.data

\* There is one prefetch at a time, and the flag says whether there is: it is
\* not left behind by a prefetch that ended, which would be the last one.
OnePrefetch == Len(tasks) = IF in_flight THEN 1 ELSE 0
=============================================================================
