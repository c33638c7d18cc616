----------------------------- MODULE PackArchive -----------------------------
(***************************************************************************)
(* Packing and extraction of ops/src/pack.rs: pack_archive drives an        *)
(* ArchiveWriter over one file or over a directory, archive after archive,  *)
(* and an archive may take an earlier one as its base.  convert_tar of      *)
(* cli/src/cmd/data/convert.rs drives it over the files of a tar file.      *)
(*                                                                          *)
(* The chunker is left out: a file is the sequence of chunks it is cut      *)
(* into, and the order process_stream writes them in is its order (see      *)
(* OrderedStream).  A file has two sizes, the one its metadata gave when    *)
(* the directory was walked and the length of what was read from it later.  *)
(* Every archive is packed to a path of its own.                            *)
(***************************************************************************)
EXTENDS ArchiveWriter, ArchiveReader

CONSTANTS Inputs,           \* what may be packed: see InputType
          MaxArchives       \* bound: archives packed in a behaviour

ASSUME MaxAssumption == MaxArchives \in Nat

\* A file: the size found by the walk, the chunks read.  The chunker ends a file
\* whose last chunk has the largest size with an empty one (see StreamChunker).
FileType == [declared : Nat, chunks : Seq(Seq(Byte))]

\* A file at the root named "memory" goes to the Auxiliary stream; any other
\* file to Main.  A single file is a Main stream without a manifest.
InputType == [dir : BOOLEAN, main : Seq(FileType), aux : Seq(FileType)]
ASSUME InputAssumption == Inputs \subseteq InputType

\* A file that did not change while it was packed.
Contents(f) == FlattenSeq(f.chunks)
Unchanged(f) == f.declared = Len(Contents(f))

VARIABLES
    archives,       \* the archives finalized so far, each one a path
    job,            \* what is being packed: input, base (0: none), parallel, encrypt, tar
    phase,          \* "idle", "begin", "main", "between", "aux", "finalize"
    fileNo, chunkNo,    \* the file of the phase's list, and its next chunk
    entryOffset,    \* current_logical_offset of pack_directory
    manifest        \* the FileEntrys collected

packVars == <<archives, job, phase, fileNo, chunkNo, entryOffset, manifest>>
vars == <<writerVars, packVars>>

-----------------------------------------------------------------------------
(* Opening.                                                                 *)

\* The parents open_local and extract_archive find for an archive.
parents_of(a) == IF a.base = 0 THEN <<>> ELSE << archives[a.base] >>

\* open_local without an encryptor refuses an encrypted archive.
Bases == {0} \cup { i \in DOMAIN archives : ~ archives[i].encrypted }

\* ParentIndex::new over the base.
ParentIndex(base) == IF base = 0 THEN {} ELSE iter_block_hashes(archives[base])

-----------------------------------------------------------------------------
(* Packing.                                                                 *)

NoJob == [input |-> [dir |-> FALSE, main |-> <<>>, aux |-> <<>>],
          base |-> 0, parallel |-> FALSE, encrypt |-> FALSE, tar |-> FALSE]

Init ==
    /\ NoWriter
    /\ archives = <<>> /\ job = NoJob /\ phase = "idle"
    /\ fileNo = 1 /\ chunkNo = 1 /\ entryOffset = 0 /\ manifest = <<>>

Files == IF phase = "aux" THEN job.input.aux ELSE job.input.main

\* The sum of the metadata sizes.
Total(files) == FoldLeft(LAMBDA n, f : n + f.declared, 0, files)

\* pack_archive up to the writer: the base is opened and its hashes collected.
StartPack ==
    /\ phase = "idle" /\ Len(archives) < MaxArchives
    /\ \E input \in Inputs, base \in Bases, parallel \in BOOLEAN, enc \in BOOLEAN :
          /\ job' = [input |-> input, base |-> base, parallel |-> parallel, encrypt |-> enc,
                     tar |-> FALSE]
          /\ Create(ParentIndex(base), enc)
    /\ phase' = "begin" /\ fileNo' = 1 /\ chunkNo' = 1
    /\ entryOffset' = 0 /\ manifest' = <<>>
    /\ UNCHANGED archives

\* convert_tar up to the writer.  A tar file holds regular files of the sizes its
\* headers give, and a header for each makes it longer than they are together.
TarHeader == 1
TarSize(files) == Total(files) + TarHeader * Len(files)
IsTar(input) == input.dir /\ input.aux = <<>> /\ \A i \in DOMAIN input.main : Unchanged(input.main[i])
StartConvert ==
    /\ phase = "idle" /\ Len(archives) < MaxArchives
    /\ \E input \in { x \in Inputs : IsTar(x) } : job' = [NoJob EXCEPT !.input = input, !.tar = TRUE]
    /\ Create({}, FALSE)
    /\ phase' = "begin" /\ fileNo' = 1 /\ chunkNo' = 1
    /\ entryOffset' = 0 /\ manifest' = <<>>
    /\ UNCHANGED archives

\* A conversion takes the tar file's size for the stream's.
BeginMain ==
    /\ phase = "begin"
    /\ BeginStream(TRUE, IF job.tar THEN TarSize(job.input.main) ELSE Total(job.input.main))
    /\ phase' = "main"
    /\ UNCHANGED <<archives, job, fileNo, chunkNo, entryOffset, manifest>>

\* pack_file_to_stream, one chunk: parallel unless the archive is encrypted.
UsesPipeline == job.parallel /\ ~ job.encrypt

PackChunk ==
    /\ phase \in {"main", "aux"}
    /\ fileNo <= Len(Files) /\ chunkNo <= Len(Files[fileNo].chunks)
    /\ LET chunk == Files[fileNo].chunks[chunkNo] IN
       IF UsesPipeline THEN WritePrecompressedBlock(chunk) ELSE WriteDataBlock(chunk)
    /\ chunkNo' = chunkNo + 1
    /\ UNCHANGED <<archives, job, phase, fileNo, entryOffset, manifest>>

\* After a file: a directory starts the next one on a page of its own and
\* records where this one was.  An auxiliary file's offset is recorded as 0.
NextOffset_WalkSizes == entryOffset + Files[fileNo].declared
NextOffset == logicalPos'

EndFile ==
    /\ phase \in {"main", "aux"} /\ ~ job.tar
    /\ fileNo <= Len(Files) /\ chunkNo > Len(Files[fileNo].chunks)
    /\ IF job.input.dir
          THEN /\ FlushStream
               /\ manifest' = Append(manifest,
                    [stream |-> phase, file |-> fileNo, size |-> Files[fileNo].declared,
                     offset |-> IF phase = "main" THEN entryOffset ELSE 0])
               /\ entryOffset' = IF phase = "main" THEN NextOffset ELSE entryOffset
          ELSE UNCHANGED <<writerVars, manifest, entryOffset>>
    /\ fileNo' = fileNo + 1 /\ chunkNo' = 1
    /\ UNCHANGED <<archives, job, phase>>

\* After a file of a tar file: the next one is written right behind it, and the
\* offsets are what the sizes add up to.
EndTarEntry ==
    /\ phase = "main" /\ job.tar
    /\ fileNo <= Len(Files) /\ chunkNo > Len(Files[fileNo].chunks)
    /\ manifest' = Append(manifest, [stream |-> "main", file |-> fileNo,
                                     size |-> Files[fileNo].declared, offset |-> entryOffset])
    /\ entryOffset' = entryOffset + Files[fileNo].declared
    /\ fileNo' = fileNo + 1 /\ chunkNo' = 1
    /\ UNCHANGED <<writerVars, archives, job, phase>>

EndMain ==
    /\ phase = "main" /\ fileNo > Len(Files)
    /\ EndStream
    /\ phase' = IF job.input.aux = <<>> THEN "finalize" ELSE "between"
    /\ UNCHANGED <<archives, job, fileNo, chunkNo, entryOffset, manifest>>

BeginAux_FileKept ==
    /\ phase = "between"
    /\ BeginStream(FALSE, Total(job.input.aux))
    /\ phase' = "aux"
    /\ UNCHANGED <<archives, job, fileNo, chunkNo, entryOffset, manifest>>
BeginAux ==
    /\ phase = "between"
    /\ BeginStream(FALSE, Total(job.input.aux))
    /\ phase' = "aux" /\ fileNo' = 1 /\ chunkNo' = 1
    /\ UNCHANGED <<archives, job, entryOffset, manifest>>

EndAux ==
    /\ phase = "aux" /\ fileNo > Len(Files)
    /\ EndStream
    /\ phase' = "finalize"
    /\ UNCHANGED <<archives, job, fileNo, chunkNo, entryOffset, manifest>>

\* finalize writes the index and the header and drops the writer.
Idle ==
    /\ phase' = "idle" /\ job' = NoJob /\ Create({}, FALSE)
    /\ fileNo' = 1 /\ chunkNo' = 1 /\ entryOffset' = 0 /\ manifest' = <<>>

\* An archive is what the writer leaves, its parent path and its manifest;
\* input is what was packed, for the properties.
Finish ==
    /\ phase = "finalize"
    /\ archives' = Append(archives,
          [file |-> Finalized.file, encrypted |-> encrypt,
           main |-> mainPages, aux |-> auxPages,
           mainSize |-> mainSize, auxSize |-> auxSize,
           base |-> job.base, manifest |-> manifest, input |-> job.input])
    /\ Idle

\* Any read or write may fail; pack_archive returns the error and leaves a
\* file whose header is still zeros, which no reader opens.
PackFails ==
    /\ phase # "idle"
    /\ Idle
    /\ UNCHANGED archives

\* Nothing more is packed.
Done ==
    /\ phase = "idle" /\ Len(archives) = MaxArchives
    /\ UNCHANGED vars

Next == \/ StartPack \/ StartConvert \/ BeginMain \/ PackChunk \/ EndFile \/ EndTarEntry \/ EndMain
        \/ BeginAux \/ EndAux \/ Finish \/ PackFails \/ Done

Spec == Init /\ [][Next]_vars

-----------------------------------------------------------------------------
(* Extraction.                                                              *)

\* extract_archive of one manifest entry: always from the Main stream.
ExtractEntry(a, entry) == read_at(a, parents_of(a), "main", entry.offset, entry.size)

-----------------------------------------------------------------------------
(* What packing and reading promise.                                        *)

BlockInfo == [offset : Int, length : {0, 1}, logical_len : Nat,
              hash : Seq(Byte) \cup {NoHash}]
Object == [kind : {"header", "block", "page", "index"}, data : Seq(Byte),
           nonce : Int, blocks : Seq(BlockInfo)]
PageEntries == Seq([offset : Nat, start_block : Nat, start_logical : Nat])
Manifest == Seq([stream : {"main", "aux"}, file : Nat, size : Nat, offset : Nat])
ArchiveType == [file : Seq(Object), encrypted : BOOLEAN, main : PageEntries, aux : PageEntries,
                mainSize : Nat, auxSize : Nat, base : Nat, manifest : Manifest,
                input : InputType]

WriterTypes ==
    /\ file \in Seq(Object) /\ page \in Seq(BlockInfo)
    /\ mainPages \in PageEntries /\ auxPages \in PageEntries
    /\ {mainSize, auxSize, globalIdx, pageStartBlock, pageStartLogical, logicalPos} \subseteq Nat
    /\ \A h \in DOMAIN dedup : h \in Seq(Byte) /\ dedup[h] \in Nat
    /\ \A h \in parentHashes : h \in Seq(Byte)
    /\ encrypt \in BOOLEAN /\ isMain \in BOOLEAN /\ active \in BOOLEAN

\* The fields of the writer, the archives and the job have their types, and a
\* stream that is packed is at a file and a chunk it has, or just past the last one.
TypeOK ==
    /\ WriterTypes
    /\ archives \in Seq(ArchiveType) /\ manifest \in Manifest
    /\ phase \in {"idle", "begin", "main", "between", "aux", "finalize"}
    /\ job.input \in Inputs \cup {NoJob.input} /\ job.base \in 0..Len(archives)
    /\ {fileNo, chunkNo} \subseteq Nat \ {0} /\ entryOffset \in Nat
    /\ phase \in {"main", "aux"} =>
          /\ fileNo <= Len(Files) + 1
          /\ fileNo <= Len(Files) => chunkNo <= Len(Files[fileNo].chunks) + 1

\* A descriptor of a block the archive stores points at that block's bytes,
\* however many descriptors share it (the dedup map of write_block and
\* write_precompressed_block).
Describes(f, b) ==
    is_sparse(b) \/ is_parent_ref(b) \/
    ( /\ b.offset + 1 \in DOMAIN f
      /\ f[b.offset + 1].kind = "block"
      /\ Len(f[b.offset + 1].data) = b.logical_len
      /\ b.hash \in {NoHash, f[b.offset + 1].data} )

PagesDescribe(f) ==
    \A i \in DOMAIN f : \A k \in DOMAIN f[i].blocks : Describes(f, f[i].blocks[k])

DedupSound ==
    /\ PagesDescribe(file)
    /\ \A k \in DOMAIN page : Describes(file, page[k])
    /\ \A i \in DOMAIN archives : PagesDescribe(archives[i].file)

\* No two blocks of an archive are encrypted under the same nonce
\* (write_block: "Never reuse block_idx values within the same encrypted
\* archive"), over both streams and every page.
NoncesDiffer(f) ==
    \A i, j \in DOMAIN f : i # j /\ f[i].nonce # PlainNonce => f[i].nonce # f[j].nonce

NonceNeverReused ==
    /\ NoncesDiffer(file)
    /\ \A i \in DOMAIN archives : NoncesDiffer(archives[i].file)

Bytes(files) == FlattenSeq(FlattenSeq([i \in DOMAIN files |-> files[i].chunks]))

\* read_at of any range returns exactly the packed bytes of that range: of any
\* range of what was packed, in an archive whose size is that of a tar file.
ReadsBack(a, stream, packed) ==
    \A offset \in 0..(Len(packed) + 1), len \in 0..(Len(packed) + 1) :
        size(a, stream) = Len(packed) \/ offset + len <= Len(packed) =>
            read_at(a, parents_of(a), stream, offset, len)
                = SubSeq(packed, offset + 1, IF offset + len < Len(packed)
                                             THEN offset + len ELSE Len(packed))

StreamsReadBack(a) ==
    /\ (\A i \in DOMAIN a.input.main : Unchanged(a.input.main[i]))
          => ReadsBack(a, "main", Bytes(a.input.main))
    /\ (\A i \in DOMAIN a.input.aux : Unchanged(a.input.aux[i]))
          => ReadsBack(a, "aux", Bytes(a.input.aux))

\* The archive has no base, or a base without one.
Shallow(a) == a.base = 0 \/ archives[a.base].base = 0

\* Every archive whose base has no base of its own reads back as what was
\* packed: through full pages and half-full ones, sparse blocks, shared
\* blocks, encrypted blocks and references to the base.
ReadBack ==
    phase = "idle" => \A i \in DOMAIN archives :
                          Shallow(archives[i]) => StreamsReadBack(archives[i])

\* "Thin Archives: Resolves missing blocks from parent archives"
\* (core/src/api/file.rs:89), "resolving any parent chain"
\* (store/src/lib.rs:29): the same of every archive.
ChainReadBack ==
    phase = "idle" => \A i \in DOMAIN archives : StreamsReadBack(archives[i])

Entries(a, stream) == { a.manifest[k] : k \in { k \in DOMAIN a.manifest :
                                                 a.manifest[k].stream = stream } }

\* A file of a directory that did not change while the directory was packed
\* is extracted as it was, even when files before it shrank meanwhile: its
\* offset is where it was written, not where the walk's sizes would put it.
\* (Not so when files grew: the stream's size is the sum the walk found.)
ExtractUnchanged ==
    phase = "idle" => \A i \in DOMAIN archives :
        LET a == archives[i]
            files == a.input.main
        IN  Shallow(a) /\ Len(Bytes(files)) <= a.mainSize =>
              \A e \in Entries(a, "main") :
                  Unchanged(files[e.file]) => ExtractEntry(a, e) = Contents(files[e.file])
=============================================================================
