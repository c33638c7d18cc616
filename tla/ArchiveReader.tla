---------------------------- MODULE ArchiveReader ----------------------------
(***************************************************************************)
(* Archive of core/src/api/file.rs: what reading an opened archive returns. *)
(* Every operator is a function of the archive's file and its master index; *)
(* caches, which hold the same bytes, are left out.                         *)
(*                                                                          *)
(* An archive a is the record ArchiveWriter leaves; parents is the sequence *)
(* of archives the loader found for it.  Streams are "main" and "aux".      *)
(***************************************************************************)
EXTENDS BlockIndex, SequencesExt

LOCAL Least(a, b) == IF a <= b THEN a ELSE b

Pages(a, stream) == IF stream = "main" THEN a.main ELSE a.aux
size(a, stream) == IF stream = "main" THEN a.mainSize ELSE a.auxSize

\* get_page
BlocksAt(a, entry) == a.file[entry.offset + 1].blocks

Zeros(n) == [i \in 1..n |-> ZeroByte]

\* A slice of n bytes after the first skip.
Piece(bytes, skip, n) ==
    [i \in 1..n |-> IF skip + i \in DOMAIN bytes THEN bytes[skip + i] ELSE Unreadable]

\* fetch_raw_block and decompress_and_verify: an encrypted block decrypts only
\* under the nonce of the index the reader computes for it.
read_block(a, idx, b) ==
    LET object == a.file[b.offset + 1] IN
    IF object.kind = "block" /\ object.nonce \in {PlainNonce, idx}
       THEN object.data ELSE [i \in 1..b.logical_len |-> Unreadable]

-----------------------------------------------------------------------------
(* Hashes.                                                                  *)

\* get_hash_index: the blocks this archive stores itself.
StoredBlocks(a, entry) ==
    LET blocks == BlocksAt(a, entry)
        stored == { i \in DOMAIN blocks : ~ is_sparse(blocks[i]) /\ ~ is_parent_ref(blocks[i]) }
    IN  { [idx |-> entry.start_block + i - 1, block |-> blocks[i]] : i \in stored }

HashIndex(a) == UNION { StoredBlocks(a, entry) : entry \in Range(a.main) \cup Range(a.aux) }

\* get_block_by_hash, as the set of the blocks the map may hold for a hash.
get_block_by_hash(a, hash) == { x \in HashIndex(a) : x.block.hash = hash }

\* iter_block_hashes of the Main stream: the hashes of references to a parent
\* are among them.
iter_block_hashes(a) ==
    { b.hash : b \in UNION { { x \in Range(BlocksAt(a, e)) :
                                ~ is_sparse(x) /\ x.hash # NoHash } : e \in Range(a.main) } }

-----------------------------------------------------------------------------
(* Finding blocks by position.                                              *)

\* binary_search_by start_logical: whichever page it meets that starts there (two
\* do when the first holds only empty blocks), or the page before the insertion
\* point.
FindPage_OffByOne(pages, offset) ==
    LET before == { i \in DOMAIN pages : pages[i].start_logical <= offset + 1 }
    IN  IF before = {} THEN 1 ELSE CHOOSE i \in before : \A j \in before : j <= i
FindPage(pages, offset) ==
    LET before == { i \in DOMAIN pages : pages[i].start_logical <= offset }
        at == { i \in before : pages[i].start_logical = offset }
    IN  IF at # {} THEN CHOOSE i \in at : TRUE
        ELSE IF before = {} THEN 1 ELSE CHOOSE i \in before : \A j \in before : j <= i

\* Where block i of a page's blocks starts, in the stream.
BlockStart(entry, blocks, i) ==
    FoldLeft(LAMBDA n, b : n + b.logical_len, entry.start_logical, SubSeq(blocks, 1, i - 1))

\* get_block_info(..).is_some()
HasBlockAt(a, stream, offset) ==
    LET pages == Pages(a, stream)
        entry == pages[FindPage(pages, offset)]
        blocks == BlocksAt(a, entry)
    IN  /\ pages # <<>>
        /\ \E i \in DOMAIN blocks :
              /\ BlockStart(entry, blocks, i) <= offset
              /\ offset < BlockStart(entry, blocks, i) + blocks[i].logical_len

-----------------------------------------------------------------------------
(* Reading.                                                                 *)

\* The bytes of one block: zeros for a sparse block, the first parent that
\* stores its hash for a reference, zeros again if none does.
BlockBytes(a, parents, idx, b) ==
    LET holders == { k \in DOMAIN parents : get_block_by_hash(parents[k], b.hash) # {} }
        first == CHOOSE k \in holders : \A j \in holders : k <= j
        found == CHOOSE x \in get_block_by_hash(parents[first], b.hash) : TRUE
    IN  IF b.offset = 0 /\ b.length = 0 THEN Zeros(b.logical_len)
        ELSE IF ~ is_parent_ref(b) THEN read_block(a, idx, b)
        ELSE IF holders = {} THEN Zeros(b.logical_len)
        ELSE read_block(parents[first], found.idx, found.block)

\* One round of the inner loop of collect_work_items, with the copy its work
\* item stands for.  w: position, bytes still wanted, bytes read.
ScanBlock(a, parents, entry, blocks, w, i) ==
    LET b == blocks[i]
        start == BlockStart(entry, blocks, i)
        skip == w.pos - start
        n == Least(w.remaining, b.logical_len - skip)
    IN  IF w.remaining = 0 \/ start + b.logical_len <= w.pos THEN w
        ELSE [pos |-> w.pos + n, remaining |-> w.remaining - n,
              out |-> w.out \o Piece(BlockBytes(a, parents, entry.start_block + i - 1, b),
                                     skip, n)]

\* One round of its outer loop.
ScanPage(a, parents, w, entry) ==
    LET blocks == BlocksAt(a, entry)
    IN  IF w.remaining = 0 \/ entry.start_logical > w.pos + w.remaining THEN w
        ELSE FoldLeft(LAMBDA x, i : ScanBlock(a, parents, entry, blocks, x, i),
                      w, [i \in DOMAIN blocks |-> i])

\* read_at_uninit_inner: the blocks of the pages from the one that holds offset.
ScanStream(a, parents, stream, offset, n) ==
    LET pages == Pages(a, stream)
    IN  FoldLeft(LAMBDA w, e : ScanPage(a, parents, w, e),
                 [pos |-> offset, remaining |-> n, out |-> <<>>],
                 SubSeq(pages, FindPage(pages, offset), Len(pages)))

\* read_at_into_uninit of a parent.  The loader opens a parent with
\* Archive::open, which has no loader: a parent has no parents of its own.
ReadParent(p, stream, offset, len) ==
    IF offset >= size(p, stream) THEN Zeros(len)
    ELSE LET w == ScanStream(p, <<>>, stream, offset, Least(len, size(p, stream) - offset))
         IN  w.out \o Zeros(len - Len(w.out))

\* read_at: at most what the stream still has.  What no block of the archive
\* covers is asked of the first parent that has a block at that position.
read_at(a, parents, stream, offset, len) ==
    LET w == ScanStream(a, parents, stream, offset, Least(len, size(a, stream) - offset))
        able == { k \in DOMAIN parents : HasBlockAt(parents[k], stream, w.pos) }
        first == CHOOSE k \in able : \A j \in able : k <= j
    IN  IF offset >= size(a, stream) THEN <<>>
        ELSE w.out \o (IF w.remaining = 0 THEN <<>>
                       ELSE IF able = {} THEN Zeros(w.remaining)
                       ELSE ReadParent(parents[first], stream, w.pos, w.remaining))
=============================================================================
