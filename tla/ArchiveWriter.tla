--------------------------- MODULE ArchiveWriter ---------------------------
(***************************************************************************)
(* ArchiveWriter of ops/src/archive_writer.rs with write_block and          *)
(* create_zero_block of ops/src/write.rs: the object that lays out one      *)
(* archive file.  Blocks are written as they come, deduplicated against     *)
(* the blocks of this archive and against those of a parent archive, and    *)
(* described in index pages that are written when they are full, when a     *)
(* file of a directory ends and when the stream ends.                       *)
(*                                                                          *)
(* The operators are the methods; PackArchive calls them.  The dictionary   *)
(* is not modelled.                                                         *)
(***************************************************************************)
EXTENDS BlockIndex, FiniteSets

CONSTANTS ENTRIES_PER_PAGE,     \* 4096 in the code
          BlockSize             \* config.block_size, in bytes

ASSUME PageAssumption == ENTRIES_PER_PAGE \in Nat \ {0} /\ BlockSize \in Nat \ {0}

VARIABLES
    file,               \* the objects written so far; current_offset is its length
    mainPages, auxPages, mainSize, auxSize,     \* master
    globalIdx,          \* global_block_idx
    dedup,              \* dedup_map: hash -> offset
    parentHashes,       \* parent_index.hashes, {} without a parent
    encrypt,            \* an encryptor is set
    page,               \* page.blocks
    pageStartBlock, pageStartLogical, logicalPos,
    isMain, active      \* is_main, stream_active

masterVars == <<mainPages, auxPages, mainSize, auxSize>>
configVars == <<parentHashes, encrypt>>
writerVars == <<file, masterVars, globalIdx, dedup, configVars, page,
                pageStartBlock, pageStartLogical, logicalPos, isMain, active>>

current_offset == Len(file)

\* The writer before the first archive, and whenever none is being packed.
NoWriter ==
    /\ file = <<HeaderObject>>
    /\ mainPages = <<>> /\ auxPages = <<>> /\ mainSize = 0 /\ auxSize = 0
    /\ globalIdx = 0 /\ dedup = <<>> /\ parentHashes = {} /\ encrypt = FALSE
    /\ page = <<>> /\ pageStartBlock = 0 /\ pageStartLogical = 0 /\ logicalPos = 0
    /\ isMain = TRUE /\ active = FALSE

\* ArchiveWriter::new, with the hashes ParentIndex::new collected: the file
\* holds the zeros the header will replace.
Create(parents, enc) ==
    /\ file' = <<HeaderObject>>
    /\ mainPages' = <<>> /\ auxPages' = <<>> /\ mainSize' = 0 /\ auxSize' = 0
    /\ globalIdx' = 0 /\ dedup' = <<>> /\ parentHashes' = parents /\ encrypt' = enc
    /\ page' = <<>> /\ pageStartBlock' = 0 /\ pageStartLogical' = 0 /\ logicalPos' = 0
    /\ isMain' = TRUE /\ active' = FALSE

-----------------------------------------------------------------------------
(* Pages.                                                                  *)

\* flush_page on a file f that already holds the blocks of page p, where idx
\* and pos are the block index and the logical position after p.
FlushPage(f, p, idx, pos) ==
    LET entry == PageEntry(Len(f), pageStartBlock, pageStartLogical) IN
    /\ file' = Append(f, PageObject(p))
    /\ IF isMain
          THEN mainPages' = Append(mainPages, entry) /\ UNCHANGED auxPages
          ELSE auxPages' = Append(auxPages, entry) /\ UNCHANGED mainPages
    /\ page' = <<>>
    /\ pageStartBlock' = idx
    /\ pageStartLogical' = pos

\* The end of every write_* method: describe the block, count it, and write
\* the page out once it is full.  f is the file with the block's data.
PushBlock(f, info) ==
    /\ globalIdx' = globalIdx + 1
    /\ logicalPos' = logicalPos + info.logical_len
    /\ LET p == Append(page, info) IN
       IF Len(p) >= ENTRIES_PER_PAGE
          THEN FlushPage(f, p, globalIdx', logicalPos')
          ELSE /\ file' = f /\ page' = p
               /\ UNCHANGED <<mainPages, auxPages, pageStartBlock, pageStartLogical>>
    /\ UNCHANGED <<mainSize, auxSize, configVars, isMain, active>>

-----------------------------------------------------------------------------
(* The methods.                                                            *)

\* begin_stream: the size is added before anything is written, and a dedup
\* map with fewer entries than the stream may have blocks starts afresh.
BeginStream(is_main, total_size) ==
    LET start == IF is_main THEN mainSize ELSE auxSize
        fresh == total_size \div BlockSize > Cardinality(DOMAIN dedup)
    IN  /\ isMain' = is_main /\ active' = TRUE
        /\ page' = <<>>
        /\ pageStartBlock' = globalIdx
        /\ pageStartLogical' = start
        /\ logicalPos' = start
        /\ dedup' = IF fresh THEN <<>> ELSE dedup
        /\ IF is_main THEN mainSize' = mainSize + total_size /\ UNCHANGED auxSize
                      ELSE auxSize' = auxSize + total_size /\ UNCHANGED mainSize
        /\ UNCHANGED <<file, mainPages, auxPages, globalIdx, configVars>>

\* write_parent_ref
WriteParentRef(chunk) ==
    /\ PushBlock(file, ParentRef(chunk, Len(chunk)))
    /\ UNCHANGED dedup

\* Append the block's data, unless the dedup map knows where it is.
Known(chunk) == chunk \in DOMAIN dedup

StoreOnce_LateOffset(chunk) ==
    IF Known(chunk)
       THEN /\ PushBlock(file, Local(dedup[chunk], Len(chunk), chunk))
            /\ UNCHANGED dedup
       ELSE /\ PushBlock(Append(file, BlockObject(chunk, PlainNonce)),
                         Local(current_offset, Len(chunk), chunk))
            /\ dedup' = [h \in DOMAIN dedup \cup {chunk} |->
                             IF h = chunk THEN current_offset + 1 ELSE dedup[h]]
StoreOnce(chunk) ==
    IF Known(chunk)
       THEN /\ PushBlock(file, Local(dedup[chunk], Len(chunk), chunk))
            /\ UNCHANGED dedup
       ELSE /\ PushBlock(Append(file, BlockObject(chunk, PlainNonce)),
                         Local(current_offset, Len(chunk), chunk))
            /\ dedup' = [h \in DOMAIN dedup \cup {chunk} |->
                             IF h = chunk THEN current_offset ELSE dedup[h]]

\* An encrypted block is never shared: its nonce is its block index, and its
\* descriptor keeps the hash buffer nothing has been hashed into.
StoreEncrypted_PageNonce(chunk) ==
    /\ PushBlock(Append(file, BlockObject(chunk, Len(page))),
                 Local(current_offset, Len(chunk), NoHash))
    /\ UNCHANGED dedup
StoreEncrypted(chunk) ==
    /\ PushBlock(Append(file, BlockObject(chunk, globalIdx)),
                 Local(current_offset, Len(chunk), NoHash))
    /\ UNCHANGED dedup

\* write_data_block: the serial path.
WriteDataBlock(chunk) ==
    IF is_zero_chunk(chunk)
       THEN PushBlock(file, Sparse(Len(chunk))) /\ UNCHANGED dedup
    ELSE IF chunk \in parentHashes THEN WriteParentRef(chunk)
    ELSE IF encrypt THEN StoreEncrypted(chunk)
    ELSE StoreOnce(chunk)

\* write_precompressed_block: the parallel path stores a zero chunk like any
\* other, and is never taken by an encrypted archive.
WritePrecompressedBlock(chunk) ==
    IF chunk \in parentHashes THEN WriteParentRef(chunk) ELSE StoreOnce(chunk)

\* Write the pending page, if any, when the stream ends or a file does.
FlushPending ==
    IF page # <<>>
       THEN FlushPage(file, page, globalIdx, logicalPos)
       ELSE UNCHANGED <<file, mainPages, auxPages, page, pageStartBlock, pageStartLogical>>

EndStream ==
    /\ FlushPending
    /\ active' = FALSE
    /\ UNCHANGED <<mainSize, auxSize, globalIdx, dedup, configVars, logicalPos, isMain>>

FlushStream_Forgets ==
    /\ IF active
          THEN FlushPending
          ELSE UNCHANGED <<file, mainPages, auxPages, page, pageStartBlock, pageStartLogical>>
    /\ dedup' = <<>>
    /\ UNCHANGED <<mainSize, auxSize, globalIdx, configVars, logicalPos, isMain, active>>
FlushStream ==
    /\ IF active
          THEN FlushPending
          ELSE UNCHANGED <<file, mainPages, auxPages, page, pageStartBlock, pageStartLogical>>
    /\ UNCHANGED <<mainSize, auxSize, globalIdx, dedup, configVars, logicalPos, isMain, active>>

\* finalize after the stream has ended: the index goes behind the blocks and
\* the header, which points at it, takes the place of the zeros at offset 0.
\* The writer is consumed; what it leaves is the archive.
Finalized == [file |-> Append(file, IndexObject), encrypted |-> encrypt,
              main |-> mainPages, aux |-> auxPages,
              mainSize |-> mainSize, auxSize |-> auxSize]
=============================================================================
