-------------------------- MODULE PackArchiveProofs --------------------------
(***************************************************************************)
(* What holds of PackArchive for all inputs, page sizes, block sizes and   *)
(* numbers of archives: descriptors point at the bytes they describe, an   *)
(* archive uses no nonce twice, every field has its type, an archive whose *)
(* base has no base reads back as what was packed, a file that did not     *)
(* change is extracted as it was, and the statistics and the comparison of *)
(* archives are true of what was packed.                                   *)
(*                                                                         *)
(* The writer's side of reading back is the invariant ReadInv: the pages   *)
(* of every finished archive, and those of the stream that is written,     *)
(* hold the bytes that were packed, each at its place.  The reader's side  *)
(* takes such pages apart again, one round of its scans after the other.   *)
(* The statistics need in addition OnceInv and ArchivesOnce: the same      *)
(* bytes are stored in one place only, and not if the base has them.       *)
(***************************************************************************)
EXTENDS ArchiveStats, TLAPS, SequenceTheorems, FiniteSetTheorems, WellFoundedInduction

-----------------------------------------------------------------------------
(* Sequences of anything.                                                  *)

IsSequence(s) == \E S : s \in Seq(S)

\* The empty sequence: TLAPS types a sequence by some set of its elements.
LEMMA EmptySequence == IsSequence(<<>>) /\ DOMAIN <<>> = {} /\ Len(<<>>) = 0
  <1>1. <<>> \in Seq({})
    OBVIOUS
  <1>2. QED
    BY <1>1 DEF IsSequence

\* Append keeps the elements and adds one behind them.
LEMMA AppendFacts ==
  ASSUME NEW s, NEW e, IsSequence(s)
  PROVE  /\ IsSequence(Append(s, e))
         /\ Len(s) \in Nat /\ DOMAIN s = 1..Len(s)
         /\ DOMAIN Append(s, e) = 1..(Len(s) + 1)
         /\ \A i \in DOMAIN s : Append(s, e)[i] = s[i]
         /\ Append(s, e)[Len(s) + 1] = e
         /\ \A i \in DOMAIN Append(s, e) : i \in DOMAIN s \/ i = Len(s) + 1
  <1>1. PICK S : s \in Seq(S)
    BY DEF IsSequence
  <1> DEFINE T == S \cup {e}
  <1>2. s \in Seq(T) /\ e \in T
    BY <1>1
  <1> HIDE DEF T
  <1>3. Append(s, e) \in Seq(T)
    BY <1>2
  <1>4. Len(s) \in Nat /\ DOMAIN s = 1..Len(s) /\ DOMAIN Append(s, e) = 1..(Len(s) + 1)
    BY <1>2
  <1>5. /\ \A i \in DOMAIN s : Append(s, e)[i] = s[i]
        /\ Append(s, e)[Len(s) + 1] = e
    BY <1>2
  <1>6. \A i \in DOMAIN Append(s, e) : i \in DOMAIN s \/ i = Len(s) + 1
    BY <1>4
  <1>7. QED
    BY <1>3, <1>4, <1>5, <1>6 DEF IsSequence

-----------------------------------------------------------------------------
(* The invariant of a file f under construction, its pending page p, the    *)
(* dedup map d and the next block index n.                                  *)

DedupPoints(f, d) ==
    \A h \in DOMAIN d : /\ d[h] \in Nat /\ d[h] + 1 \in DOMAIN f
                        /\ f[d[h] + 1].kind = "block" /\ f[d[h] + 1].data = h

NoncesBelow(f, n) == \A i \in DOMAIN f : f[i].nonce \in Int /\ f[i].nonce < n

Sound(f, p, d, n) ==
    /\ IsSequence(f) /\ IsSequence(p) /\ n \in Nat
    /\ PagesDescribe(f)
    /\ \A k \in DOMAIN p : Describes(f, p[k])
    /\ DedupPoints(f, d)
    /\ NoncesBelow(f, n) /\ NoncesDiffer(f)

ArchivesSound ==
    /\ IsSequence(archives)
    /\ \A i \in DOMAIN archives : PagesDescribe(archives[i].file) /\ NoncesDiffer(archives[i].file)

IInv == Sound(file, page, dedup, globalIdx) /\ ArchivesSound

\* What a descriptor points at stays where it is when the file grows.
LEMMA DescribesGrows ==
  ASSUME NEW f, NEW o, NEW b, IsSequence(f), Describes(f, b)
  PROVE  Describes(Append(f, o), b)
  <1> DEFINE g == Append(f, o)
  <1>1. /\ DOMAIN f = 1..Len(f) /\ DOMAIN g = 1..(Len(f) + 1) /\ Len(f) \in Nat
        /\ \A i \in DOMAIN f : g[i] = f[i]
    BY AppendFacts
  <1>2. DOMAIN f \subseteq DOMAIN g
    BY <1>1
  <1> HIDE DEF g
  <1>3. Describes(g, b)
    BY <1>1, <1>2 DEF Describes
  <1>4. QED
    BY <1>3 DEF g

\* A file may grow by an object with no nonce whose descriptors are right.
LEMMA GrowsPlain ==
  ASSUME NEW f, NEW p, NEW d, NEW n, NEW o, Sound(f, p, d, n),
         o.nonce = PlainNonce, \A k \in DOMAIN o.blocks : Describes(f, o.blocks[k])
  PROVE  Sound(Append(f, o), p, d, n)
  <1> DEFINE g == Append(f, o)
  <1>0. IsSequence(f)
    BY DEF Sound
  <1>1. /\ IsSequence(g) /\ DOMAIN f = 1..Len(f) /\ DOMAIN g = 1..(Len(f) + 1) /\ Len(f) \in Nat
        /\ \A i \in DOMAIN f : g[i] = f[i]
        /\ g[Len(f) + 1] = o
        /\ \A i \in DOMAIN g : i \in DOMAIN f \/ i = Len(f) + 1
    BY <1>0, AppendFacts
  <1>2. \A b : Describes(f, b) => Describes(g, b)
    BY <1>0, DescribesGrows
  <1> HIDE DEF g
  <1>3. PagesDescribe(g)
    BY <1>1, <1>2 DEF Sound, PagesDescribe
  <1>4. \A k \in DOMAIN p : Describes(g, p[k])
    BY <1>2 DEF Sound
  <1>5. DedupPoints(g, d)
    BY <1>1 DEF Sound, DedupPoints
  <1>6. NoncesBelow(g, n)
    BY <1>1 DEF Sound, NoncesBelow, PlainNonce
  <1>7. NoncesDiffer(g)
    BY <1>1 DEF Sound, NoncesDiffer
  <1>8. QED
    BY <1>1, <1>3, <1>4, <1>5, <1>6, <1>7 DEF Sound, g

\* It may grow by a block under the next index as its nonce.
LEMMA GrowsEncrypted ==
  ASSUME NEW f, NEW p, NEW d, NEW n, NEW c, Sound(f, p, d, n)
  PROVE  Sound(Append(f, BlockObject(c, n)), p, d, n + 1)
  <1> DEFINE o == BlockObject(c, n)
             g == Append(f, o)
  <1>0. IsSequence(f) /\ n \in Nat
    BY DEF Sound
  <1>1. /\ IsSequence(g) /\ DOMAIN f = 1..Len(f) /\ DOMAIN g = 1..(Len(f) + 1) /\ Len(f) \in Nat
        /\ \A i \in DOMAIN f : g[i] = f[i]
        /\ g[Len(f) + 1] = o
        /\ \A i \in DOMAIN g : i \in DOMAIN f \/ i = Len(f) + 1
    BY <1>0, AppendFacts
  <1>2. \A b : Describes(f, b) => Describes(g, b)
    BY <1>0, DescribesGrows
  <1>o. o.nonce = n /\ o.blocks = <<>>
    BY DEF BlockObject
  <1> HIDE DEF g, o
  <1>3. PagesDescribe(g)
    BY <1>1, <1>2, <1>o, EmptySequence DEF Sound, PagesDescribe
  <1>4. \A k \in DOMAIN p : Describes(g, p[k])
    BY <1>2 DEF Sound
  <1>5. DedupPoints(g, d)
    BY <1>1 DEF Sound, DedupPoints
  <1>6. NoncesBelow(g, n + 1)
    BY <1>0, <1>1, <1>o DEF Sound, NoncesBelow
  <1>7. NoncesDiffer(g)
    <2> SUFFICES ASSUME NEW i \in DOMAIN g, NEW j \in DOMAIN g, i # j,
                        g[i].nonce # PlainNonce
                 PROVE  g[i].nonce # g[j].nonce
      BY DEF NoncesDiffer
    <2>1. \A k \in DOMAIN f : f[k].nonce \in Int /\ f[k].nonce < n
      BY DEF Sound, NoncesBelow
    <2>2. CASE i \in DOMAIN f /\ j \in DOMAIN f
      BY <1>1, <2>2 DEF Sound, NoncesDiffer
    <2>3. CASE i \in DOMAIN f /\ j = Len(f) + 1
      BY <1>0, <1>1, <1>o, <2>1, <2>3
    <2>4. CASE i = Len(f) + 1 /\ j \in DOMAIN f
      BY <1>0, <1>1, <1>o, <2>1, <2>4
    <2>5. QED
      BY <1>1, <2>2, <2>3, <2>4
  <1>8. QED
    BY <1>0, <1>1, <1>3, <1>4, <1>5, <1>6, <1>7 DEF Sound, g, o

\* The next index may move on.
LEMMA IndexMoves ==
  ASSUME NEW f, NEW p, NEW d, NEW n, Sound(f, p, d, n)
  PROVE  Sound(f, p, d, n + 1)
  <1>1. NoncesBelow(f, n + 1)
    BY DEF Sound, NoncesBelow
  <1>2. n + 1 \in Nat
    BY DEF Sound
  <1>3. QED
    BY <1>1, <1>2 DEF Sound

\* A page may take a descriptor that is right, and be emptied.
LEMMA PageTakes ==
  ASSUME NEW f, NEW p, NEW d, NEW n, NEW b, Sound(f, p, d, n), Describes(f, b)
  PROVE  Sound(f, Append(p, b), d, n)
  <1>1. IsSequence(p)
    BY DEF Sound
  <1>2. \A k \in DOMAIN Append(p, b) : Describes(f, Append(p, b)[k])
    BY <1>1, AppendFacts DEF Sound
  <1>3. QED
    BY <1>1, <1>2, AppendFacts DEF Sound

\* A page may be emptied once it has been written.
LEMMA PageEmpties ==
  ASSUME NEW f, NEW p, NEW d, NEW n, Sound(f, p, d, n)
  PROVE  Sound(f, <<>>, d, n)
  BY EmptySequence DEF Sound

\* The dedup map may start afresh.
LEMMA DedupEmpties ==
  ASSUME NEW f, NEW p, NEW d, NEW n, Sound(f, p, d, n)
  PROVE  Sound(f, p, <<>>, n)
  BY EmptySequence DEF Sound, DedupPoints

\* Map e is d with the block at offset k of file f, which holds c.
Adds(f, d, c, k, e) ==
    /\ k \in Nat /\ k + 1 \in DOMAIN f /\ f[k + 1].kind = "block" /\ f[k + 1].data = c
    /\ DOMAIN e = DOMAIN d \cup {c}
    /\ \A h \in DOMAIN e : e[h] = IF h = c THEN k ELSE d[h]

\* The dedup map may take the block last written.
LEMMA DedupTakes ==
  ASSUME NEW f, NEW p, NEW d, NEW n, NEW c, NEW k, NEW e, Sound(f, p, d, n), Adds(f, d, c, k, e)
  PROVE  Sound(f, p, e, n)
  <1>1. DedupPoints(f, d)
    BY DEF Sound
  <1>2. DedupPoints(f, e)
    BY <1>1 DEF DedupPoints, Adds
  <1>3. QED
    BY <1>2 DEF Sound

-----------------------------------------------------------------------------
(* The methods of the writer.                                              *)

\* Writing the pending page out.
LEMMA FlushPageSound ==
  ASSUME NEW f, NEW p, NEW idx, NEW pos, NEW d, NEW n,
         Sound(f, p, d, n), FlushPage(f, p, idx, pos)
  PROVE  Sound(file', page', d, n)
  <1>1. file' = Append(f, PageObject(p)) /\ page' = <<>>
    BY DEF FlushPage
  <1>2. PageObject(p).nonce = PlainNonce /\ PageObject(p).blocks = p
    BY DEF PageObject
  <1>3. \A k \in DOMAIN p : Describes(f, p[k])
    BY DEF Sound
  <1>4. Sound(Append(f, PageObject(p)), p, d, n)
    BY <1>2, <1>3, GrowsPlain
  <1>5. QED
    BY <1>1, <1>4, PageEmpties

\* Describing a block, with the page written out when it is full.
LEMMA PushBlockSound ==
  ASSUME NEW f, NEW b, NEW d, Sound(f, page, d, globalIdx + 1), Describes(f, b),
         PushBlock(f, b)
  PROVE  Sound(file', page', d, globalIdx')
  <1> DEFINE p == Append(page, b)
  <1>1. globalIdx' = globalIdx + 1
    BY DEF PushBlock
  <1>2. Sound(f, p, d, globalIdx + 1)
    BY PageTakes
  <1>3. \/ FlushPage(f, p, globalIdx', logicalPos')
        \/ file' = f /\ page' = p
    BY DEF PushBlock
  <1> HIDE DEF p
  <1>4. CASE FlushPage(f, p, globalIdx', logicalPos')
    BY <1>1, <1>2, <1>4, FlushPageSound
  <1>5. CASE file' = f /\ page' = p
    BY <1>1, <1>2, <1>5
  <1>6. QED
    BY <1>3, <1>4, <1>5

\* A block that is not stored: zeros, or a reference to the parent.
LEMMA UnstoredSound ==
  ASSUME NEW b, IInv, is_sparse(b) \/ is_parent_ref(b), PushBlock(file, b), UNCHANGED dedup
  PROVE  Sound(file', page', dedup', globalIdx')
  <1>1. Describes(file, b)
    BY DEF Describes
  <1>2. Sound(file, page, dedup, globalIdx + 1)
    BY IndexMoves DEF IInv
  <1>3. QED
    BY <1>1, <1>2, PushBlockSound

\* A block that is stored once, and described again where it was.
LEMMA StoreOnceSound ==
  ASSUME NEW c, IInv, StoreOnce(c)
  PROVE  Sound(file', page', dedup', globalIdx')
  <1> DEFINE o == BlockObject(c, PlainNonce)
             g == Append(file, o)
  <1>0. Sound(file, page, dedup, globalIdx + 1) /\ IsSequence(file)
    BY IndexMoves DEF IInv, Sound
  <1>1. CASE Known(c)
    <2>1. PushBlock(file, Local(dedup[c], Len(c), c)) /\ UNCHANGED dedup
      BY <1>1 DEF StoreOnce
    <2>2. Describes(file, Local(dedup[c], Len(c), c))
      BY <1>0, <1>1 DEF Sound, DedupPoints, Known, Describes, Local
    <2>3. QED
      BY <1>0, <2>1, <2>2, PushBlockSound
  <1>2. CASE ~ Known(c)
    <2>1. /\ PushBlock(g, Local(Len(file), Len(c), c))
          /\ dedup' = [h \in DOMAIN dedup \cup {c} |-> IF h = c THEN Len(file) ELSE dedup[h]]
      BY <1>2 DEF StoreOnce, current_offset
    <2>2. /\ o.kind = "block" /\ o.data = c /\ o.nonce = PlainNonce /\ o.blocks = <<>>
      BY DEF BlockObject
    <2>3. Len(file) \in Nat /\ Len(file) + 1 \in DOMAIN g /\ g[Len(file) + 1] = o
      BY <1>0, AppendFacts
    <2>4. Sound(g, page, dedup, globalIdx + 1)
      BY <1>0, <2>2, GrowsPlain, EmptySequence
    <2> HIDE DEF g, o
    <2>5. Sound(g, page, dedup', globalIdx + 1)
      <3> DEFINE k == Len(file)
                 e == [h \in DOMAIN dedup \cup {c} |-> IF h = c THEN k ELSE dedup[h]]
      <3>1. k \in Nat /\ k + 1 \in DOMAIN g /\ g[k + 1].kind = "block" /\ g[k + 1].data = c
        BY <2>2, <2>3
      <3>2. /\ DOMAIN e = DOMAIN dedup \cup {c}
            /\ \A h \in DOMAIN e : e[h] = IF h = c THEN k ELSE dedup[h]
        OBVIOUS
      <3>3. dedup' = e
        BY <2>1
      <3> HIDE DEF k, e
      <3>4. Adds(g, dedup, c, k, e)
        BY <3>1, <3>2 DEF Adds
      <3>5. QED
        BY <2>4, <3>3, <3>4, DedupTakes
    <2>6. Describes(g, Local(Len(file), Len(c), c))
      BY <2>2, <2>3 DEF Describes, Local
    <2>7. QED
      BY <2>1, <2>5, <2>6, PushBlockSound
  <1>3. QED
    BY <1>1, <1>2

\* A block that is encrypted under its index.
LEMMA StoreEncryptedSound ==
  ASSUME NEW c, IInv, StoreEncrypted(c)
  PROVE  Sound(file', page', dedup', globalIdx')
  <1> DEFINE o == BlockObject(c, globalIdx)
             g == Append(file, o)
  <1>1. /\ PushBlock(g, Local(Len(file), Len(c), NoHash)) /\ dedup' = dedup
    BY DEF StoreEncrypted, current_offset
  <1>2. o.kind = "block" /\ o.data = c
    BY DEF BlockObject
  <1>3. Len(file) \in Nat /\ Len(file) + 1 \in DOMAIN g /\ g[Len(file) + 1] = o
    BY AppendFacts DEF IInv, Sound
  <1>4. Sound(g, page, dedup, globalIdx + 1)
    BY GrowsEncrypted DEF IInv
  <1> HIDE DEF g, o
  <1>5. Describes(g, Local(Len(file), Len(c), NoHash))
    BY <1>2, <1>3 DEF Describes, Local
  <1>6. QED
    BY <1>1, <1>4, <1>5, PushBlockSound

\* A reference to the base (write_parent_ref).
LEMMA WriteParentRefSound ==
  ASSUME NEW c, IInv, WriteParentRef(c)
  PROVE  Sound(file', page', dedup', globalIdx')
  <1>1. is_parent_ref(ParentRef(c, Len(c)))
    BY DEF is_parent_ref, ParentRef
  <1>2. QED
    BY <1>1, UnstoredSound DEF WriteParentRef

\* The serial path (write_data_block).
LEMMA WriteDataBlockSound ==
  ASSUME NEW c, IInv, WriteDataBlock(c)
  PROVE  Sound(file', page', dedup', globalIdx')
  <1>1. is_sparse(Sparse(Len(c)))
    BY DEF is_sparse, Sparse, BLOCK_OFFSET_PARENT
  <1>2. \/ PushBlock(file, Sparse(Len(c))) /\ UNCHANGED dedup
        \/ WriteParentRef(c) \/ StoreEncrypted(c) \/ StoreOnce(c)
    BY DEF WriteDataBlock
  <1>3. QED
    BY <1>1, <1>2, UnstoredSound, WriteParentRefSound, StoreEncryptedSound, StoreOnceSound

\* The parallel path (write_precompressed_block).
LEMMA WritePrecompressedBlockSound ==
  ASSUME NEW c, IInv, WritePrecompressedBlock(c)
  PROVE  Sound(file', page', dedup', globalIdx')
  BY WriteParentRefSound, StoreOnceSound DEF WritePrecompressedBlock

\* A stream begins (begin_stream).
LEMMA BeginStreamSound ==
  ASSUME NEW m, NEW t, IInv, BeginStream(m, t)
  PROVE  Sound(file', page', dedup', globalIdx')
  <1>1. /\ file' = file /\ page' = <<>> /\ globalIdx' = globalIdx
        /\ dedup' = <<>> \/ dedup' = dedup
    BY DEF BeginStream
  <1>2. Sound(file, <<>>, dedup, globalIdx)
    BY PageEmpties DEF IInv
  <1>3. QED
    BY <1>1, <1>2, DedupEmpties

\* The pending page, if there is one, is written.
LEMMA FlushPendingSound ==
  ASSUME IInv, FlushPending, UNCHANGED <<globalIdx, dedup>>
  PROVE  Sound(file', page', dedup', globalIdx')
  <1>1. CASE FlushPage(file, page, globalIdx, logicalPos)
    BY <1>1, FlushPageSound DEF IInv
  <1>2. CASE UNCHANGED <<file, page>>
    BY <1>2 DEF IInv
  <1>3. QED
    BY <1>1, <1>2 DEF FlushPending

\* A stream ends (end_stream).
LEMMA EndStreamSound ==
  ASSUME IInv, EndStream
  PROVE  Sound(file', page', dedup', globalIdx')
  BY FlushPendingSound DEF EndStream

\* A file of a directory ends (flush_stream).
LEMMA FlushStreamSound ==
  ASSUME IInv, FlushStream
  PROVE  Sound(file', page', dedup', globalIdx')
  <1>1. UNCHANGED <<globalIdx, dedup>>
    BY DEF FlushStream
  <1>2. CASE active
    BY <1>1, <1>2, FlushPendingSound DEF FlushStream
  <1>3. CASE ~ active
    <2>1. UNCHANGED <<file, page>>
      BY <1>3 DEF FlushStream
    <2>2. QED
      BY <1>1, <2>1 DEF IInv
  <1>4. QED
    BY <1>2, <1>3

\* A new file holds its header's zeros.
LEMMA NewFileSound == Sound(<< HeaderObject >>, <<>>, <<>>, 0)
  <1> DEFINE f == << HeaderObject >>
  <1>1. /\ DOMAIN f = {1} /\ f[1] = HeaderObject
        /\ f \in Seq({HeaderObject})
    OBVIOUS
  <1>2. HeaderObject.nonce = -1 /\ HeaderObject.blocks = <<>>
    BY DEF HeaderObject, PlainNonce
  <1> HIDE DEF f
  <1>3. PagesDescribe(f)
    BY <1>1, <1>2, EmptySequence DEF PagesDescribe
  <1>4. NoncesBelow(f, 0) /\ NoncesDiffer(f)
    BY <1>1, <1>2 DEF NoncesBelow, NoncesDiffer
  <1>5. IsSequence(f)
    BY <1>1 DEF IsSequence
  <1>6. DedupPoints(f, <<>>)
    BY EmptySequence DEF DedupPoints
  <1>7. Sound(f, <<>>, <<>>, 0)
    BY <1>3, <1>4, <1>5, <1>6, EmptySequence DEF Sound
  <1>8. QED
    BY <1>7 DEF f

\* A new writer (ArchiveWriter::new).
LEMMA CreateSound ==
  ASSUME NEW held, NEW enc, Create(held, enc)
  PROVE  Sound(file', page', dedup', globalIdx')
  BY NewFileSound DEF Create

-----------------------------------------------------------------------------
(* Packing.                                                                *)

\* The invariant holds throughout.
THEOREM Invariance == Spec => []IInv
<1>1. Init => IInv
  <2> SUFFICES ASSUME Init PROVE IInv
    OBVIOUS
  <2>1. Sound(file, page, dedup, globalIdx)
    BY NewFileSound DEF Init, NoWriter
  <2>2. ArchivesSound
    BY EmptySequence DEF Init, ArchivesSound
  <2>3. QED
    BY <2>1, <2>2 DEF IInv
<1>2. IInv /\ [Next]_vars => IInv'
  <2> SUFFICES ASSUME IInv, [Next]_vars PROVE IInv'
    OBVIOUS
  <2>0. /\ Sound(file, page, dedup, globalIdx) /\ ArchivesSound
    BY DEF IInv
  <2>A. archives' = archives => ArchivesSound'
    BY <2>0 DEF ArchivesSound
  <2> DEFINE Good == Sound(file', page', dedup', globalIdx')
  <2>S. Good /\ ArchivesSound' => IInv'
    BY DEF IInv
  <2>U. UNCHANGED writerVars => Good
    BY <2>0 DEF writerVars, masterVars
  <2>1. CASE StartPack
    <3>1. \E held, enc : Create(held, enc)
      BY <2>1 DEF StartPack
    <3>2. Good
      BY <3>1, CreateSound
    <3>3. QED
      BY <2>1, <3>2, <2>A, <2>S DEF StartPack
  <2>1a. CASE StartConvert
    <3>1. Create({}, FALSE)
      BY <2>1a DEF StartConvert
    <3>2. Good
      BY <3>1, CreateSound
    <3>3. QED
      BY <2>1a, <3>2, <2>A, <2>S DEF StartConvert
  <2>2. CASE BeginMain
    <3>1. /\ \E n : BeginStream(TRUE, n)
          /\ archives' = archives
      BY <2>2 DEF BeginMain
    <3>2. QED
      BY <3>1, BeginStreamSound, <2>A, <2>S
  <2>3. CASE PackChunk
    <3>1. /\ \E chunk : WritePrecompressedBlock(chunk) \/ WriteDataBlock(chunk)
          /\ archives' = archives
      BY <2>3 DEF PackChunk
    <3>2. QED
      BY <3>1, WriteDataBlockSound, WritePrecompressedBlockSound, <2>A, <2>S
  <2>4. CASE EndFile
    <3>1. FlushStream \/ UNCHANGED writerVars
      BY <2>4 DEF EndFile
    <3>2. archives' = archives
      BY <2>4 DEF EndFile
    <3>3. QED
      BY <3>1, <3>2, FlushStreamSound, <2>U, <2>A, <2>S
  <2>4a. CASE EndTarEntry
    BY <2>4a, <2>U, <2>A, <2>S DEF EndTarEntry
  <2>5. CASE EndMain
    BY <2>5, EndStreamSound, <2>A, <2>S DEF EndMain
  <2>6. CASE BeginAux
    <3>1. BeginStream(FALSE, Total(job.input.aux)) /\ archives' = archives
      BY <2>6 DEF BeginAux
    <3>2. QED
      BY <3>1, BeginStreamSound, <2>A, <2>S
  <2>7. CASE EndAux
    BY <2>7, EndStreamSound, <2>A, <2>S DEF EndAux
  <2>8. CASE Finish
    <3>1. Good
      BY <2>8, CreateSound DEF Finish, Idle
    <3>2. PICK a : archives' = Append(archives, a) /\ a.file = Finalized.file
      BY <2>8 DEF Finish
    <3>3. a.file = Append(file, IndexObject)
      BY <3>2 DEF Finalized
    <3>4. IndexObject.nonce = PlainNonce /\ IndexObject.blocks = <<>>
      BY DEF IndexObject
    <3>5. Sound(Append(file, IndexObject), page, dedup, globalIdx)
      BY <2>0, <3>4, GrowsPlain, EmptySequence
    <3>6. PagesDescribe(a.file) /\ NoncesDiffer(a.file)
      BY <3>3, <3>5 DEF Sound
    <3>7. /\ IsSequence(archives)
          /\ \A i \in DOMAIN archives : PagesDescribe(archives[i].file)
                                       /\ NoncesDiffer(archives[i].file)
      BY <2>0 DEF ArchivesSound
    <3>8. /\ IsSequence(archives')
          /\ \A i \in DOMAIN archives' : PagesDescribe(archives'[i].file)
                                        /\ NoncesDiffer(archives'[i].file)
      BY <3>2, <3>6, <3>7, AppendFacts
    <3>9. ArchivesSound'
      BY <3>8 DEF ArchivesSound, PagesDescribe, NoncesDiffer, Describes
    <3>10. QED
      BY <3>1, <3>9, <2>S
  <2>9. CASE PackFails
    <3>1. Good
      BY <2>9, CreateSound DEF PackFails, Idle
    <3>2. archives' = archives
      BY <2>9 DEF PackFails
    <3>3. QED
      BY <3>1, <3>2, <2>A, <2>S
  <2>10. CASE Done \/ UNCHANGED vars
    BY <2>10, <2>U, <2>A, <2>S DEF Done, vars, packVars
  <2>11. QED
    BY <2>1, <2>1a, <2>2, <2>3, <2>4, <2>4a, <2>5, <2>6, <2>7, <2>8, <2>9, <2>10 DEF Next
<1>3. QED
  BY <1>1, <1>2, PTL DEF Spec

\* Every descriptor of a stored block points at the bytes it describes,
\* however many descriptors share them.
THEOREM DedupSoundCorrect == Spec => []DedupSound
<1>1. IInv => DedupSound
  BY DEF IInv, Sound, ArchivesSound, DedupSound
<1>2. QED
  BY <1>1, Invariance, PTL

\* No archive encrypts two blocks under one nonce.
THEOREM NonceNeverReusedCorrect == Spec => []NonceNeverReused
<1>1. IInv => NonceNeverReused
  BY DEF IInv, Sound, ArchivesSound, NonceNeverReused
<1>2. QED
  BY <1>1, Invariance, PTL

-----------------------------------------------------------------------------
(* Folds.                                                                  *)

\* A set of numbers has a least one.
LEMMA LeastNumber ==
    ASSUME NEW S, S \subseteq Nat, S # {}
    PROVE  \E x \in S : \A y \in S : x <= y
<1>1. PICK x \in S : \A y \in S : ~ (<<y, x>> \in OpToRel(<, Nat))
  BY WFMin, NatLessThanWellFounded
<1>2. ASSUME NEW y \in S PROVE x <= y
  <2>1. x \in Nat /\ y \in Nat /\ ~ (<<y, x>> \in OpToRel(<, Nat))
    BY <1>1
  <2> QED BY <2>1 DEF OpToRel
<1> QED BY <1>2

\* What FoldLeft chooses, where a step takes what there is so far and a position.
IsFold(g, base, step, n) ==
    g = [s \in SUBSET (1..n) |->
            IF s = {} THEN base ELSE step[g[s \ {Max(s)}], Max(s)]]

\* The greatest of some first numbers.
LEMMA MaxIs ==
    ASSUME NEW n \in Nat, NEW s \in SUBSET (1..n), s # {}
    PROVE  Max(s) \in s /\ \A i \in s : i <= Max(s)
<1> DEFINE above == { n - i : i \in s }
<1>1. above \subseteq Nat /\ above # {}
  <2>1. \A i \in s : i \in 1..n
    OBVIOUS
  <2>2. \A i \in s : n - i \in Nat
    BY <2>1
  <2> QED BY <2>2
<1>2. PICK y \in above : \A z \in above : y <= z
  <2> HIDE DEF above
  <2> QED BY <1>1, LeastNumber
<1>3. PICK x \in s : y = n - x
  BY <1>2
<1>4. ASSUME NEW i \in s PROVE i <= x
  <2>1. y <= n - i
    BY <1>2
  <2>2. i \in 1..n /\ x \in 1..n
    OBVIOUS
  <2> QED BY <1>3, <2>1, <2>2
<1>5. \E x0 \in s : \A i \in s : x0 >= i
  BY <1>4
<1>6. Max(s) = CHOOSE x0 \in s : \A i \in s : x0 >= i
  BY DEF Max
<1>7. Max(s) \in s /\ \A i \in s : Max(s) >= i
  BY <1>5, <1>6, Zenon
<1> QED BY <1>7

\* There is one, for every number of positions.
LEMMA FoldExists ==
    ASSUME NEW T, NEW base \in T, NEW n \in Nat, NEW step \in [T \X (1..n) -> T]
    PROVE  \E g \in [SUBSET (1..n) -> T] : IsFold(g, base, step, n)
<1> DEFINE Good(k) == \E g \in [SUBSET (1..k) -> T] : IsFold(g, base, step, k)
           bad == { k \in 0..n : ~ Good(k) }
<1>1. CASE bad = {}
  <2> HIDE DEF Good
  <2>1. n \in 0..n
    OBVIOUS
  <2>2. Good(n)
    BY <1>1, <2>1
  <2> QED BY <2>2 DEF Good
<1>2. CASE bad # {}
  <2>1. PICK k \in bad : \A j \in bad : k <= j
    <3>1. bad \subseteq Nat
      OBVIOUS
    <3> HIDE DEF bad
    <3> QED BY <1>2, <3>1, LeastNumber
  <2>2. k \in 0..n /\ ~ Good(k)
    BY <2>1
  <2>3. k # 0
    <3> DEFINE g == [s \in SUBSET (1..0) |-> base]
    <3>1. g \in [SUBSET (1..0) -> T]
      OBVIOUS
    <3>2. \A s \in SUBSET (1..0) : s = {}
      OBVIOUS
    <3>3. IsFold(g, base, step, 0)
      BY <3>2, Zenon DEF IsFold
    <3> HIDE DEF g
    <3>4. Good(0)
      BY <3>1, <3>3
    <3> QED BY <2>2, <3>4
  <2>4. PICK j \in 0..n : k = j + 1
    BY <2>2, <2>3
  <2>5. Good(j)
    <3> HIDE DEF Good
    <3>1. j \in 0..n /\ ~ (k <= j)
      BY <2>2, <2>4
    <3>2. j \notin bad
      BY <2>1, <3>1
    <3> QED BY <3>1, <3>2
  <2>6. PICK g \in [SUBSET (1..j) -> T] : IsFold(g, base, step, j)
    BY <2>5
  <2> DEFINE h == [s \in SUBSET (1..k) |->
                     IF k \in s THEN step[g[s \ {k}], k] ELSE g[s]]
  <2>7. ASSUME NEW s \in SUBSET (1..k)
        PROVE  /\ k \notin s => s \in SUBSET (1..j)
               /\ s \ {k} \in SUBSET (1..j)
    BY <2>2, <2>4
  <2>8. h \in [SUBSET (1..k) -> T]
    <3>1. ASSUME NEW s \in SUBSET (1..k) PROVE h[s] \in T
      <4>1. CASE k \in s
        <5>1. g[s \ {k}] \in T
          BY <2>7
        <5>2. <<g[s \ {k}], k>> \in T \X (1..n)
          BY <2>2, <2>3, <5>1
        <5> QED BY <4>1, <5>2
      <4>2. CASE k \notin s
        BY <4>2, <2>7
      <4> QED BY <4>1, <4>2
    <3> QED BY <3>1
  <2>9. ASSUME NEW s \in SUBSET (1..k)
        PROVE  h[s] = IF s = {} THEN base ELSE step[h[s \ {Max(s)}], Max(s)]
    <3>1. CASE k \in s
      <4>1. Max(s) = k
        <5> HIDE DEF h
        <5>1. k \in Nat
          BY <2>2
        <5>2. Max(s) \in s /\ k <= Max(s)
          BY <5>1, <3>1, MaxIs
        <5>3. Max(s) \in 1..k
          BY <5>2
        <5> QED BY <5>1, <5>2, <5>3
      <4>2. s \ {k} \in SUBSET (1..k) /\ k \notin s \ {k}
        OBVIOUS
      <4>3. h[s \ {k}] = g[s \ {k}]
        BY <4>2
      <4> QED BY <3>1, <4>1, <4>3
    <3>2. CASE k \notin s
      <4>1. s \in SUBSET (1..j)
        BY <2>7, <3>2
      <4>2. g[s] = IF s = {} THEN base ELSE step[g[s \ {Max(s)}], Max(s)]
        BY <2>6, <4>1, Zenon DEF IsFold
      <4>3. k \notin s \ {Max(s)} /\ s \ {Max(s)} \in SUBSET (1..k)
        BY <3>2
      <4>4. h[s] = g[s] /\ h[s \ {Max(s)}] = g[s \ {Max(s)}]
        BY <3>2, <4>3
      <4> HIDE DEF h
      <4> QED BY <4>2, <4>4
    <3> QED BY <3>1, <3>2
  <2>10. IsFold(h, base, step, k)
    <3>1. h = [s \in SUBSET (1..k) |-> h[s]]
      OBVIOUS
    <3> HIDE DEF h
    <3>2. h = [s \in SUBSET (1..k) |->
                 IF s = {} THEN base ELSE step[h[s \ {Max(s)}], Max(s)]]
      BY <2>9, <3>1, Zenon
    <3> QED BY <3>2 DEF IsFold
  <2> QED BY <2>2, <2>8, <2>10
<1> QED BY <1>1, <1>2

\* What holds of no position, and of the next one when of one, holds of all.
LEMMA Upwards ==
    ASSUME NEW n \in Nat, NEW S, 0 \in S, \A i \in 1..n : i - 1 \in S => i \in S
    PROVE  0..n \subseteq S
<1> DEFINE bad == { k \in 0..n : k \notin S }
<1>1. CASE bad = {}
  BY <1>1
<1>2. CASE bad # {}
  <2>1. PICK k \in bad : \A j \in bad : k <= j
    <3>1. bad \subseteq Nat
      OBVIOUS
    <3> HIDE DEF bad
    <3> QED BY <1>2, <3>1, LeastNumber
  <2>2. k \in 1..n /\ k \notin S
    BY <2>1
  <2>3. k - 1 \in 0..n /\ ~ (k <= k - 1)
    BY <2>2
  <2>4. k - 1 \in S
    BY <2>1, <2>3
  <2> QED BY <2>2, <2>4
<1> QED BY <1>1, <1>2

\* The first positions, as a fold takes them.
LEMMA FirstOnes ==
    ASSUME NEW n \in Nat
    PROVE  /\ 1..0 = {} /\ 1..0 \in SUBSET (1..n)
           /\ \A i \in 1..n : /\ 1..i \in SUBSET (1..n) /\ 1..i # {} /\ Max(1..i) = i
                             /\ (1..i) \ {i} = 1..(i - 1)
<1>1. ASSUME NEW i \in 1..n PROVE Max(1..i) = i
  <2>1. i \in Nat /\ 1..i \in SUBSET (1..n) /\ i \in 1..i
    OBVIOUS
  <2>2. Max(1..i) \in 1..i /\ i <= Max(1..i)
    BY <2>1, MaxIs
  <2> QED BY <2>2
<1>2. ASSUME NEW i \in 1..n
      PROVE  (1..i) \ {i} = 1..(i - 1) /\ 1..i \in SUBSET (1..n) /\ 1..i # {}
  OBVIOUS
<1>3. 1..0 = {} /\ 1..0 \in SUBSET (1..n)
  OBVIOUS
<1> QED BY <1>1, <1>2, <1>3

-----------------------------------------------------------------------------
(* Sums.                                                                   *)

\* What FoldLeft chooses to add up the numbers d.
IsSum(g, base, d, n) ==
    g = [s \in SUBSET (1..n) |-> IF s = {} THEN base ELSE g[s \ {Max(s)}] + d[Max(s)]]

\* There is such a sum.
LEMMA SumExists ==
    ASSUME NEW n \in Nat, NEW d \in [1..n -> Nat], NEW base \in Nat
    PROVE  \E g : IsSum(g, base, d, n)
<1> DEFINE step == [p \in Nat \X (1..n) |-> p[1] + d[p[2]]]
<1>1. step \in [Nat \X (1..n) -> Nat]
  OBVIOUS
<1>2. \A x \in Nat, i \in 1..n : step[x, i] = x + d[i]
  OBVIOUS
<1> HIDE DEF step
<1>3. PICK g \in [SUBSET (1..n) -> Nat] : IsFold(g, base, step, n)
  BY <1>1, FoldExists
<1>4. ASSUME NEW s \in SUBSET (1..n), s # {}
      PROVE  step[g[s \ {Max(s)}], Max(s)] = g[s \ {Max(s)}] + d[Max(s)]
  <2>1. Max(s) \in 1..n
    BY <1>4, MaxIs
  <2>2. g[s \ {Max(s)}] \in Nat
    OBVIOUS
  <2> QED BY <1>2, <2>1, <2>2
<1>5. \A s \in SUBSET (1..n) :
         (IF s = {} THEN base ELSE step[g[s \ {Max(s)}], Max(s)])
           = IF s = {} THEN base ELSE g[s \ {Max(s)}] + d[Max(s)]
  BY <1>4
<1>6. IsSum(g, base, d, n)
  BY <1>3, <1>5, Zenon DEF IsFold, IsSum
<1> QED BY <1>6

\* The partial sums h of the numbers d, from base.
IsRunning(h, base, d, n) ==
    /\ h \in [0..n -> Nat] /\ h[0] = base
    /\ \A i \in 1..n : h[i] = h[i - 1] + d[i]

\* A sum has its partial sums on the way.
LEMMA SumRuns ==
    ASSUME NEW n \in Nat, NEW d \in [1..n -> Nat], NEW base \in Nat,
           NEW g, IsSum(g, base, d, n)
    PROVE  \E h : IsRunning(h, base, d, n) /\ h[n] = g[1..n]
<1> DEFINE h == [i \in 0..n |-> g[1..i]]
<1>1. \A s \in SUBSET (1..n) : g[s] = IF s = {} THEN base ELSE g[s \ {Max(s)}] + d[Max(s)]
  BY Zenon DEF IsSum
<1>2. 0 \in 0..n /\ n \in 0..n
  OBVIOUS
<1>3. h[0] = base /\ h[n] = g[1..n] /\ h = [i \in 0..n |-> h[i]]
  <2>1. g[1..0] = base
    BY <1>1, FirstOnes
  <2> QED BY <1>2, <2>1
<1>4. ASSUME NEW i \in 1..n PROVE h[i] = h[i - 1] + d[i]
  <2>1. i \in 0..n /\ i - 1 \in 0..n
    OBVIOUS
  <2>2. h[i] = g[1..i] /\ h[i - 1] = g[1..(i - 1)]
    BY <2>1
  <2>3. /\ 1..i \in SUBSET (1..n) /\ 1..i # {} /\ Max(1..i) = i
        /\ (1..i) \ {i} = 1..(i - 1)
    BY FirstOnes
  <2> HIDE DEF h
  <2>4. g[1..i] = g[1..(i - 1)] + d[i]
    BY <1>1, <2>3
  <2> QED BY <2>2, <2>4
<1> HIDE DEF h
<1> DEFINE S == { i \in 0..n : h[i] \in Nat }
<1>5. 0..n \subseteq S
  <2>1. 0 \in S
    BY <1>2, <1>3
  <2>2. \A i \in 1..n : i - 1 \in S => i \in S
    BY <1>4
  <2> HIDE DEF S
  <2> QED BY <2>1, <2>2, Upwards
<1>6. h \in [0..n -> Nat]
  BY <1>3, <1>5
<1> QED BY <1>3, <1>4, <1>6 DEF IsRunning

\* The first n numbers of d are those of e.
IsFirst(d, n, e, m) == n \in Nat /\ m \in Nat /\ n <= m /\ \A i \in 1..n : d[i] = e[i]

\* There is one list of partial sums, as far as two lists of numbers agree.
LEMMA RunningAgree ==
    ASSUME NEW n, NEW m, NEW base, NEW d, NEW e, IsFirst(d, n, e, m),
           NEW h, IsRunning(h, base, d, n), NEW k, IsRunning(k, base, e, m)
    PROVE  h[n] = k[n]
<1> DEFINE S == { i \in 0..n : h[i] = k[i] }
<1>0. n \in Nat /\ m \in Nat /\ n <= m /\ \A i \in 1..n : d[i] = e[i]
  BY DEF IsFirst
<1>1. 0 \in S
  BY <1>0 DEF IsRunning
<1>2. ASSUME NEW i \in 1..n, i - 1 \in S PROVE i \in S
  <2>1. i \in 1..m
    BY <1>0
  <2>2. h[i] = h[i - 1] + d[i] /\ k[i] = k[i - 1] + e[i]
    BY <2>1 DEF IsRunning
  <2> QED BY <1>0, <1>2, <2>2
<1> HIDE DEF S
<1>3. 0..n \subseteq S
  BY <1>0, <1>1, <1>2, Upwards
<1> QED BY <1>0, <1>3 DEF S

\* The sum of the metadata sizes, one file after the other.
LEMMA TotalIs ==
    ASSUME NEW files \in Seq(FileType)
    PROVE  \E h : /\ IsRunning(h, 0, [i \in 1..Len(files) |-> files[i].declared], Len(files))
                  /\ Total(files) = h[Len(files)]
<1> DEFINE d == [i \in 1..Len(files) |-> files[i].declared]
<1>1. Len(files) \in Nat /\ DOMAIN files = 1..Len(files) /\ d \in [1..Len(files) -> Nat]
  <2>1. \A i \in 1..Len(files) : files[i] \in FileType
    OBVIOUS
  <2> QED BY <2>1 DEF FileType
<1> DEFINE Is(g) == g = [s \in SUBSET DOMAIN files |->
                           IF s = {} THEN 0
                           ELSE LET x == Max(s) IN g[s \ {x}] + files[x].declared]
           g == CHOOSE g : Is(g)
<1>2. Total(files) = g[DOMAIN files]
  BY Zenon DEF Total, FoldLeft, MapThenFoldSet
<1>3. \A s \in SUBSET (1..Len(files)) : s # {} => files[Max(s)].declared = d[Max(s)]
  <2>1. \A s \in SUBSET (1..Len(files)) : s # {} => Max(s) \in 1..Len(files)
    BY <1>1, MaxIs
  <2> QED BY <2>1
<1> HIDE DEF d, g
<1>4. ASSUME NEW f PROVE Is(f) <=> IsSum(f, 0, d, Len(files))
  <2>1. \A s \in SUBSET (1..Len(files)) :
           (IF s = {} THEN 0 ELSE f[s \ {Max(s)}] + files[Max(s)].declared)
             = IF s = {} THEN 0 ELSE f[s \ {Max(s)}] + d[Max(s)]
    BY <1>3
  <2> QED BY <1>1, <2>1, Zenon DEF IsSum
<1> HIDE DEF Is
<1>5. Is(g)
  <2>1. \E f : Is(f)
    BY <1>1, <1>4, SumExists
  <2> QED BY <2>1 DEF g
<1>6. PICK h : IsRunning(h, 0, d, Len(files)) /\ h[Len(files)] = g[1..Len(files)]
  BY <1>1, <1>4, <1>5, SumRuns
<1> QED BY <1>1, <1>2, <1>6 DEF d

\* Where a block of a page starts: behind those before it.
LEMMA BlockStartIs ==
    ASSUME NEW blocks \in Seq(BlockInfo), NEW entry, entry.start_logical \in Nat,
           NEW i \in 1..(Len(blocks) + 1)
    PROVE  \E h : /\ IsRunning(h, entry.start_logical,
                              [k \in 1..(i - 1) |-> blocks[k].logical_len], i - 1)
                 /\ BlockStart(entry, blocks, i) = h[i - 1]
<1> DEFINE part == SubSeq(blocks, 1, i - 1)
           n == i - 1
           d == [k \in 1..(i - 1) |-> blocks[k].logical_len]
<1>1. n \in Nat /\ DOMAIN part = 1..n /\ d \in [1..n -> Nat]
      /\ \A k \in 1..n : part[k] = blocks[k]
  <2>1. \A k \in 1..n : blocks[k] \in BlockInfo
    OBVIOUS
  <2> QED BY <2>1 DEF BlockInfo
<1> DEFINE Is(g) == g = [s \in SUBSET DOMAIN part |->
                           IF s = {} THEN entry.start_logical
                           ELSE LET x == Max(s) IN g[s \ {x}] + part[x].logical_len]
           g == CHOOSE g : Is(g)
<1>2. BlockStart(entry, blocks, i) = g[DOMAIN part]
  BY Zenon DEF BlockStart, FoldLeft, MapThenFoldSet
<1>3. \A s \in SUBSET (1..n) : s # {} => part[Max(s)].logical_len = d[Max(s)]
  <2>1. \A s \in SUBSET (1..n) : s # {} => Max(s) \in 1..n
    BY <1>1, MaxIs
  <2> HIDE DEF part
  <2> QED BY <1>1, <2>1
<1> HIDE DEF d, g, part, n
<1>4. ASSUME NEW f PROVE Is(f) <=> IsSum(f, entry.start_logical, d, n)
  <2>1. \A s \in SUBSET (1..n) :
           (IF s = {} THEN entry.start_logical ELSE f[s \ {Max(s)}] + part[Max(s)].logical_len)
             = IF s = {} THEN entry.start_logical ELSE f[s \ {Max(s)}] + d[Max(s)]
    BY <1>3
  <2> QED BY <1>1, <2>1, Zenon DEF IsSum
<1> HIDE DEF Is
<1>5. Is(g)
  <2>1. \E f : Is(f)
    BY <1>1, <1>4, SumExists
  <2> QED BY <2>1 DEF g
<1>6. PICK h : IsRunning(h, entry.start_logical, d, n) /\ h[n] = g[1..n]
  BY <1>1, <1>4, <1>5, SumRuns
<1> QED BY <1>1, <1>2, <1>6 DEF d, n

\* The first block of a page starts where the page does, the next one behind it.
LEMMA BlockStartSteps ==
    ASSUME NEW blocks \in Seq(BlockInfo), NEW entry, entry.start_logical \in Nat
    PROVE  /\ BlockStart(entry, blocks, 1) = entry.start_logical
           /\ \A i \in 1..(Len(blocks) + 1) : BlockStart(entry, blocks, i) \in Nat
           /\ \A i \in 1..Len(blocks) :
                 BlockStart(entry, blocks, i + 1) = BlockStart(entry, blocks, i) + blocks[i].logical_len
<1> DEFINE d(n) == [k \in 1..n |-> blocks[k].logical_len]
<1>1. \A n \in 0..Len(blocks) : d(n) \in [1..n -> Nat]
  <2>1. \A k \in 1..Len(blocks) : blocks[k] \in BlockInfo
    OBVIOUS
  <2>2. \A k \in 1..Len(blocks) : blocks[k].logical_len \in Nat
    BY <2>1 DEF BlockInfo
  <2> QED BY <2>2
<1>2. \A n \in 0..Len(blocks) : \A k \in 1..n : d(n)[k] = blocks[k].logical_len
  OBVIOUS
<1>3. ASSUME NEW i \in 1..(Len(blocks) + 1)
      PROVE  \E h : IsRunning(h, entry.start_logical, d(i - 1), i - 1) /\ BlockStart(entry, blocks, i) = h[i - 1]
  BY BlockStartIs
<1> HIDE DEF d
<1>4. BlockStart(entry, blocks, 1) = entry.start_logical
  <2>1. PICK h : IsRunning(h, entry.start_logical, d(0), 0) /\ BlockStart(entry, blocks, 1) = h[0]
    <3>1. 1 \in 1..(Len(blocks) + 1) /\ 1 - 1 = 0
      OBVIOUS
    <3> QED BY <1>3, <3>1
  <2> QED BY <2>1 DEF IsRunning
<1>5. ASSUME NEW i \in 1..(Len(blocks) + 1) PROVE BlockStart(entry, blocks, i) \in Nat
  <2>1. PICK h : IsRunning(h, entry.start_logical, d(i - 1), i - 1) /\ BlockStart(entry, blocks, i) = h[i - 1]
    BY <1>3
  <2> QED BY <2>1 DEF IsRunning
<1>6. ASSUME NEW i \in 1..Len(blocks)
      PROVE  BlockStart(entry, blocks, i + 1) = BlockStart(entry, blocks, i) + blocks[i].logical_len
  <2>1. PICK h : IsRunning(h, entry.start_logical, d(i - 1), i - 1) /\ BlockStart(entry, blocks, i) = h[i - 1]
    BY <1>3
  <2>2. PICK k : IsRunning(k, entry.start_logical, d(i), i) /\ BlockStart(entry, blocks, i + 1) = k[i]
    <3>1. i + 1 \in 1..(Len(blocks) + 1) /\ (i + 1) - 1 = i
      OBVIOUS
    <3> QED BY <1>3, <3>1
  <2>3. i \in 0..Len(blocks) /\ i - 1 \in 0..Len(blocks) /\ i - 1 <= i
    OBVIOUS
  <2>4. \A j \in 1..(i - 1) : d(i - 1)[j] = d(i)[j]
    BY <1>2, <2>3
  <2>5. h[i - 1] = k[i - 1]
    <3>1. IsFirst(d(i - 1), i - 1, d(i), i)
      BY <2>3, <2>4 DEF IsFirst
    <3>2. IsRunning(h, entry.start_logical, d(i - 1), i - 1)
      BY <2>1
    <3>3. IsRunning(k, entry.start_logical, d(i), i)
      BY <2>2
    <3> QED BY <3>1, <3>2, <3>3, RunningAgree
  <2>6. k[i] = k[i - 1] + d(i)[i]
    BY <2>2, <2>3 DEF IsRunning
  <2>7. d(i)[i] = blocks[i].logical_len
    BY <1>2, <2>3
  <2> QED BY <2>1, <2>2, <2>5, <2>6, <2>7
<1> QED BY <1>4, <1>5, <1>6

\* A block that is added to a page changes the place of none before it.
LEMMA BlockStartAppend ==
    ASSUME NEW blocks \in Seq(BlockInfo), NEW b \in BlockInfo, NEW entry,
           NEW i \in 1..(Len(blocks) + 1)
    PROVE  BlockStart(entry, Append(blocks, b), i) = BlockStart(entry, blocks, i)
<1>1. SubSeq(Append(blocks, b), 1, i - 1) = SubSeq(blocks, 1, i - 1)
  <2>1. \A k \in 1..(i - 1) : Append(blocks, b)[k] = blocks[k]
    OBVIOUS
  <2> QED BY <2>1
<1> QED BY <1>1 DEF BlockStart

-----------------------------------------------------------------------------
(* Sequences of sequences.                                                 *)

\* Joining sequences, one after the other.
IsJoin(f, ss, n) ==
    f = [i \in 1..n |-> IF i = 1 THEN ss[i] ELSE f[i - 1] \o ss[i]]

\* Every list of sequences has a join.
LEMMA JoinExists ==
    ASSUME NEW ss, NEW n \in Nat
    PROVE  \E f : IsJoin(f, ss, n)
<1> DEFINE S == { k \in 0..n : \E f : IsJoin(f, ss, k) }
<1>1. 0 \in S
  <2> DEFINE f == [i \in 1..0 |-> ss[i]]
  <2>1. IsJoin(f, ss, 0)
    BY DEF IsJoin
  <2> HIDE DEF f
  <2> QED BY <2>1
<1>2. ASSUME NEW k \in 1..n, k - 1 \in S PROVE k \in S
  <2>1. PICK f : IsJoin(f, ss, k - 1)
    BY <1>2
  <2> DEFINE new == IF k = 1 THEN ss[k] ELSE f[k - 1] \o ss[k]
             g == [i \in 1..k |-> IF i = k THEN new ELSE f[i]]
  <2>2. ASSUME NEW i \in 1..k PROVE g[i] = IF i = 1 THEN ss[i] ELSE g[i - 1] \o ss[i]
    <3>1. i # 1 => i - 1 \in 1..k /\ i - 1 # k
      OBVIOUS
    <3>2. i # 1 => g[i - 1] = f[i - 1]
      BY <3>1
    <3>3. CASE i = k
      <4> HIDE DEF new
      <4>1. g[i] = new
        BY <3>3
      <4> QED BY <3>2, <3>3, <4>1 DEF new
    <3>4. CASE i # k
      <4>1. i \in 1..(k - 1)
        BY <3>4
      <4>2. f[i] = IF i = 1 THEN ss[i] ELSE f[i - 1] \o ss[i]
        BY <2>1, <4>1 DEF IsJoin
      <4> HIDE DEF new
      <4>3. g[i] = f[i]
        BY <3>4
      <4> QED BY <3>2, <4>2, <4>3
    <3> QED BY <3>3, <3>4
  <2>3. IsJoin(g, ss, k)
    <3>1. g = [i \in 1..k |-> g[i]]
      OBVIOUS
    <3> HIDE DEF g
    <3> QED BY <2>2, <3>1 DEF IsJoin
  <2> HIDE DEF g
  <2> QED BY <2>3
<1> HIDE DEF S
<1>3. 0..n \subseteq S
  BY <1>1, <1>2, Upwards
<1> QED BY <1>3 DEF S

\* at[i] is where the i-th sequence starts in their join, less one.
IsStarts(at, ss) ==
    /\ at \in [1..(Len(ss) + 1) -> Nat] /\ at[1] = 0
    /\ \A i \in 1..Len(ss) : at[i + 1] = at[i] + Len(ss[i])
\* Where the sequences start in their join.
Starts(ss) == CHOOSE at : IsStarts(at, ss)

\* The sequence s holds t behind its first k elements.
HoldsAt(s, k, t) == k + Len(t) <= Len(s) /\ \A i \in 1..Len(t) : s[k + i] = t[i]

\* The starts exist.
LEMMA StartsIs ==
    ASSUME NEW S, NEW ss \in Seq(Seq(S))
    PROVE  IsStarts(Starts(ss), ss)
<1> DEFINE n == Len(ss)
           d == [i \in 1..n |-> Len(ss[i])]
<1>1. n \in Nat /\ d \in [1..n -> Nat]
  <2>1. \A i \in 1..n : ss[i] \in Seq(S)
    OBVIOUS
  <2> QED BY <2>1
<1>2. \A i \in 1..n : d[i] = Len(ss[i])
  OBVIOUS
<1> HIDE DEF d
<1>3. PICK h : IsRunning(h, 0, d, n)
  <2>1. PICK g : IsSum(g, 0, d, n)
    BY <1>1, SumExists
  <2> QED BY <1>1, <2>1, SumRuns
<1> DEFINE at == [i \in 1..(n + 1) |-> h[i - 1]]
<1>4. at \in [1..(n + 1) -> Nat]
  BY <1>1, <1>3 DEF IsRunning
<1>5. at[1] = 0
  BY <1>1, <1>3 DEF IsRunning
<1>6. ASSUME NEW i \in 1..n PROVE at[i + 1] = at[i] + Len(ss[i])
  <2>1. h[i] = h[i - 1] + d[i]
    BY <1>3 DEF IsRunning
  <2>2. at[i + 1] = h[i] /\ at[i] = h[i - 1]
    BY <1>1
  <2> QED BY <1>2, <2>1, <2>2
<1> HIDE DEF at
<1>7. IsStarts(at, ss)
  BY <1>4, <1>5, <1>6 DEF IsStarts
<1> QED BY <1>7 DEF Starts

\* The join of sequences holds each of them at its start.
LEMMA FlattenHolds ==
    ASSUME NEW S, NEW ss \in Seq(Seq(S))
    PROVE  /\ FlattenSeq(ss) \in Seq(S)
           /\ Len(FlattenSeq(ss)) = Starts(ss)[Len(ss) + 1]
           /\ \A i \in 1..Len(ss) : HoldsAt(FlattenSeq(ss), Starts(ss)[i], ss[i])
<1>0. PICK at : IsStarts(at, ss) /\ at = Starts(ss)
  BY StartsIs
<1>1. CASE ss = <<>>
  <2>1. FlattenSeq(ss) = <<>> /\ Len(ss) = 0
    BY <1>1 DEF FlattenSeq
  <2>2. at[Len(ss) + 1] = 0
    BY <1>0, <2>1 DEF IsStarts
  <2> QED BY <1>0, <2>1, <2>2
<1>2. CASE ss # <<>>
  <2> DEFINE n == Len(ss)
  <2>1. n \in Nat \ {0}
    BY <1>2
  <2> DEFINE f == CHOOSE g : IsJoin(g, ss, Len(ss))
  <2>2. IsJoin(f, ss, n)
    BY <2>1, JoinExists
  <2>3. FlattenSeq(ss) = f[n]
    <3>1. ~ (Len(ss) = 0)
      BY <2>1
    <3> QED BY <3>1, Zenon DEF FlattenSeq, IsJoin
  <2> HIDE DEF f
  <2> DEFINE Good(k) == /\ f[k] \in Seq(S) /\ Len(f[k]) = at[k + 1]
                        /\ \A i \in 1..k : HoldsAt(f[k], at[i], ss[i])
             T == { k \in 0..n : k # 0 => Good(k) }
  <2>4. 0 \in T
    BY <2>1
  <2>5. ASSUME NEW k \in 1..n, k - 1 \in T PROVE k \in T
    <3>1. f[k] = IF k = 1 THEN ss[k] ELSE f[k - 1] \o ss[k]
      BY <2>2 DEF IsJoin
    <3>2. /\ ss[k] \in Seq(S) /\ Len(ss[k]) \in Nat /\ at[k] \in Nat /\ at[1] = 0
          /\ at[k + 1] = at[k] + Len(ss[k])
      <4>1. k \in DOMAIN ss /\ k \in 1..(Len(ss) + 1)
        BY <2>1
      <4>2. ss[k] \in Seq(S)
        BY <4>1
      <4> QED BY <1>0, <4>1, <4>2 DEF IsStarts
    <3>3. CASE k = 1
      <4>1. HoldsAt(f[k], at[1], ss[1])
        BY <3>1, <3>2, <3>3 DEF HoldsAt
      <4>2. Good(k)
        BY <3>1, <3>2, <3>3, <4>1
      <4> QED BY <4>2
    <3>4. CASE k # 1
      <4>1. Good(k - 1)
        BY <2>5, <3>4
      <4>2. /\ f[k - 1] \in Seq(S) /\ Len(f[k - 1]) = at[k]
            /\ \A i \in 1..(k - 1) : HoldsAt(f[k - 1], at[i], ss[i])
        BY <4>1
      <4>3. f[k] = f[k - 1] \o ss[k]
        BY <3>1, <3>4
      <4>4. PICK x \in Seq(S), y \in Seq(S) : x = f[k - 1] /\ y = ss[k]
        BY <3>2, <4>2
      <4>5. /\ x \o y \in Seq(S) /\ Len(x \o y) = Len(x) + Len(y)
            /\ \A j \in 1..Len(x) : (x \o y)[j] = x[j]
            /\ \A j \in 1..Len(y) : (x \o y)[Len(x) + j] = y[j]
        OBVIOUS
      <4>6. f[k] \in Seq(S) /\ Len(f[k]) = at[k + 1]
        BY <3>2, <4>2, <4>3, <4>4, <4>5
      <4>7. HoldsAt(f[k], at[k], ss[k])
        <5>1. f[k] = x \o y /\ Len(x) = at[k] /\ ss[k] = y /\ Len(y) \in Nat /\ Len(x) \in Nat
          BY <4>2, <4>3, <4>4
        <5>2. HoldsAt(x \o y, Len(x), y)
          BY <4>5, <5>1 DEF HoldsAt
        <5> QED BY <5>1, <5>2
      <4>8. ASSUME NEW i \in 1..(k - 1) PROVE HoldsAt(f[k], at[i], ss[i])
        <5>1. HoldsAt(x, at[i], ss[i])
          BY <4>2, <4>4
        <5>2. /\ i \in 1..n /\ ss[i] \in Seq(S) /\ Len(ss[i]) \in Nat
              /\ at[i] \in Nat
          <6>1. i \in DOMAIN ss /\ i \in 1..(Len(ss) + 1)
            BY <2>1
          <6>2. ss[i] \in Seq(S)
            BY <6>1
          <6> QED BY <1>0, <6>1, <6>2 DEF IsStarts
        <5>3. at[i] + Len(ss[i]) <= Len(x)
          BY <5>1 DEF HoldsAt
        <5>4. ASSUME NEW j \in 1..Len(ss[i]) PROVE (x \o y)[at[i] + j] = ss[i][j]
          <6>1. at[i] + j \in 1..Len(x)
            BY <5>2, <5>3
          <6>2. x[at[i] + j] = ss[i][j]
            BY <5>1 DEF HoldsAt
          <6> QED BY <4>5, <6>1, <6>2
        <5>5. at[i] + Len(ss[i]) <= Len(x \o y)
          BY <4>5, <5>2, <5>3
        <5> QED BY <4>3, <4>4, <5>4, <5>5 DEF HoldsAt
      <4>9. \A i \in 1..k : i = k \/ i \in 1..(k - 1)
        OBVIOUS
      <4>10. Good(k)
        BY <4>6, <4>7, <4>8, <4>9
      <4> QED BY <4>10
    <3> QED BY <3>3, <3>4
  <2>6. n \in T
    <3> HIDE DEF T
    <3>1. 0..n \subseteq T
      BY <2>1, <2>4, <2>5, Upwards
    <3> QED BY <2>1, <3>1
  <2> QED BY <1>0, <2>1, <2>3, <2>6
<1> QED BY <1>1, <1>2

-----------------------------------------------------------------------------
(* Types.                                                                  *)

\* What is in a sequence after Append was in it, or is new.
LEMMA AppendElements ==
    ASSUME NEW s, NEW e, IsSequence(s)
    PROVE  \A k \in DOMAIN Append(s, e) :
              Append(s, e)[k] = e \/ (k \in DOMAIN s /\ Append(s, e)[k] = s[k])
<1>1. PICK t : t = Append(s, e)
  OBVIOUS
<1>2. PICK n : /\ \A i \in DOMAIN s : t[i] = s[i]
               /\ t[n] = e
               /\ \A i \in DOMAIN t : i \in DOMAIN s \/ i = n
  BY <1>1, AppendFacts
<1>3. \A k \in DOMAIN t : t[k] = e \/ (k \in DOMAIN s /\ t[k] = s[k])
  BY <1>2
<1> QED BY <1>1, <1>3

\* The pages that a list of entries names are in the file.
ThereIn(pages, f) == \A k \in DOMAIN pages : pages[k].offset + 1 \in DOMAIN f

\* The objects that are written are objects.
LEMMA ObjectsAre ==
    /\ HeaderObject \in Object /\ IndexObject \in Object
    /\ \A chunk \in Seq(Byte), n \in Int : BlockObject(chunk, n) \in Object
    /\ \A blocks \in Seq(BlockInfo) : PageObject(blocks) \in Object
<1>1. <<>> \in Seq(Byte) /\ <<>> \in Seq(BlockInfo)
  OBVIOUS
<1>2. PlainNonce \in Int
  BY DEF PlainNonce
<1> QED BY <1>1, <1>2 DEF HeaderObject, IndexObject, BlockObject, PageObject, Object

\* The descriptors of blocks are descriptors.
LEMMA DescriptorsAre ==
    ASSUME NEW chunk \in Seq(Byte)
    PROVE  /\ Len(chunk) \in Nat
           /\ Sparse(Len(chunk)) \in BlockInfo /\ ParentRef(chunk, Len(chunk)) \in BlockInfo
           /\ \A offset \in Nat : /\ Local(offset, Len(chunk), chunk) \in BlockInfo
                                  /\ Local(offset, Len(chunk), NoHash) \in BlockInfo
<1>1. Len(chunk) \in Nat
  OBVIOUS
<1> QED BY <1>1 DEF Sparse, ParentRef, Local, BlockInfo, BLOCK_OFFSET_PARENT

\* The entries of the index.
Entry == [offset : Nat, start_block : Nat, start_logical : Nat]

\* What a file that grows holds, it still holds.
LEMMA ThereGrows ==
    ASSUME NEW f \in Seq(Object), NEW o \in Object, NEW pages, ThereIn(pages, f)
    PROVE  ThereIn(pages, Append(f, o))
BY DEF ThereIn

\* The fields of the writer have their types, and its entries point at pages of the file.
WriterInv ==
    /\ WriterTypes
    /\ ThereIn(mainPages, file) /\ ThereIn(auxPages, file)

\* What WriterInv says after a step, of a file f to which a page may still be added.
Typed(f) ==
    /\ f \in Seq(Object) /\ page \in Seq(BlockInfo)
    /\ mainPages \in PageEntries /\ auxPages \in PageEntries
    /\ pageStartBlock \in Nat /\ pageStartLogical \in Nat
    /\ ThereIn(mainPages, f) /\ ThereIn(auxPages, f)

\* What a page that is written leaves.
Paged ==
    /\ file' \in Seq(Object) /\ page' \in Seq(BlockInfo)
    /\ mainPages' \in PageEntries /\ auxPages' \in PageEntries
    /\ pageStartBlock' \in Nat /\ pageStartLogical' \in Nat
    /\ ThereIn(mainPages', file') /\ ThereIn(auxPages', file')

\* The pending page is written.
LEMMA FlushPageTyped ==
    ASSUME NEW f, Typed(f), NEW p \in Seq(BlockInfo), NEW idx \in Nat, NEW pos \in Nat,
           FlushPage(f, p, idx, pos)
    PROVE  Paged
<1> DEFINE entry == PageEntry(Len(f), pageStartBlock, pageStartLogical)
<1>1. PICK o \in Object : o = PageObject(p)
  BY ObjectsAre
<1>2. file' = Append(f, o) /\ page' = <<>> /\ pageStartBlock' = idx /\ pageStartLogical' = pos
  BY <1>1 DEF FlushPage
<1>3. f \in Seq(Object) /\ mainPages \in PageEntries /\ auxPages \in PageEntries
  BY DEF Typed
<1>4. entry \in Entry /\ entry.offset = Len(f)
  BY <1>3 DEF Typed, PageEntry, Entry
<1>5. PageEntries = Seq(Entry)
  BY DEF PageEntries, Entry
<1>6. ThereIn(mainPages, file') /\ ThereIn(auxPages, file')
  BY <1>2, <1>3, ThereGrows DEF Typed
<1>7. \/ mainPages' = Append(mainPages, entry) /\ auxPages' = auxPages
      \/ auxPages' = Append(auxPages, entry) /\ mainPages' = mainPages
  BY DEF FlushPage
<1>8. entry.offset + 1 \in DOMAIN file'
  BY <1>2, <1>3, <1>4
<1>9. ASSUME NEW pages \in PageEntries, ThereIn(pages, file')
      PROVE  Append(pages, entry) \in PageEntries /\ ThereIn(Append(pages, entry), file')
  <2> HIDE DEF entry
  <2>1. Append(pages, entry) \in PageEntries
    BY <1>4, <1>5
  <2>2. \A k \in DOMAIN Append(pages, entry) :
            Append(pages, entry)[k] = entry \/ (k \in DOMAIN pages /\ Append(pages, entry)[k] = pages[k])
    <3>1. IsSequence(pages)
      BY <1>5 DEF IsSequence
    <3> QED BY <3>1, AppendElements
  <2> QED BY <1>8, <1>9, <2>1, <2>2 DEF ThereIn
<1> HIDE DEF entry
<1>10. page' \in Seq(BlockInfo) /\ file' \in Seq(Object)
  BY <1>2, <1>3
<1> QED BY <1>2, <1>3, <1>6, <1>7, <1>9, <1>10 DEF Paged

\* A block is described, and its page written when it is full.
LEMMA PushBlockTyped ==
    ASSUME WriterTypes, NEW f, Typed(f), NEW b \in BlockInfo, PushBlock(f, b),
           \A h \in DOMAIN dedup' : h \in Seq(Byte) /\ dedup'[h] \in Nat
    PROVE  WriterInv'
<1>1. /\ {mainSize, auxSize, globalIdx, logicalPos} \subseteq Nat
      /\ \A h \in parentHashes : h \in Seq(Byte)
      /\ encrypt \in BOOLEAN /\ isMain \in BOOLEAN /\ active \in BOOLEAN
  BY DEF WriterTypes
<1>2. globalIdx' \in Nat /\ logicalPos' \in Nat
  BY <1>1 DEF PushBlock, BlockInfo
<1>3. UNCHANGED <<mainSize, auxSize, parentHashes, encrypt, isMain, active>>
  BY DEF PushBlock, configVars
<1>4. Append(page, b) \in Seq(BlockInfo)
  BY DEF Typed
<1>5. Paged
  <2>1. CASE FlushPage(f, Append(page, b), globalIdx', logicalPos')
    BY <1>2, <1>4, <2>1, FlushPageTyped
  <2>2. CASE file' = f /\ page' = Append(page, b)
             /\ UNCHANGED <<mainPages, auxPages, pageStartBlock, pageStartLogical>>
    BY <1>4, <2>2 DEF Typed, Paged
  <2> QED BY <2>1, <2>2 DEF PushBlock
<1> QED BY <1>1, <1>2, <1>3, <1>5 DEF WriterInv, WriterTypes, Paged

\* What WriterInv says of the file, and of the file with one more object.
LEMMA WriterIsTyped ==
    ASSUME WriterInv
    PROVE  /\ Typed(file) /\ WriterTypes
           /\ \A o \in Object : Typed(Append(file, o))
           /\ Len(file) \in Nat
           /\ \A h \in DOMAIN dedup : h \in Seq(Byte) /\ dedup[h] \in Nat
<1>1. Typed(file)
  BY DEF WriterInv, WriterTypes, Typed
<1>2. ASSUME NEW o \in Object PROVE Typed(Append(file, o))
  <2>1. file \in Seq(Object)
    BY DEF WriterInv, WriterTypes
  <2> QED BY <1>1, <2>1, ThereGrows DEF Typed
<1> QED BY <1>1, <1>2 DEF WriterInv, WriterTypes

\* A block is stored once.
LEMMA StoreOnceTyped ==
    ASSUME WriterInv, NEW chunk \in Seq(Byte), StoreOnce(chunk)
    PROVE  WriterInv'
<1>1. CASE Known(chunk)
  <2>1. dedup[chunk] \in Nat
    BY <1>1, WriterIsTyped DEF Known
  <2>2. PICK b \in BlockInfo : b = Local(dedup[chunk], Len(chunk), chunk)
    BY <2>1, DescriptorsAre
  <2>3. PushBlock(file, b) /\ dedup' = dedup
    BY <1>1, <2>2 DEF StoreOnce
  <2> QED BY <2>3, WriterIsTyped, PushBlockTyped
<1>2. CASE ~ Known(chunk)
  <2>1. PICK o \in Object : o = BlockObject(chunk, PlainNonce)
    BY ObjectsAre DEF PlainNonce
  <2>2. PICK b \in BlockInfo : b = Local(Len(file), Len(chunk), chunk)
    BY WriterIsTyped, DescriptorsAre
  <2>3. PushBlock(Append(file, o), b)
    BY <1>2, <2>1, <2>2 DEF StoreOnce, current_offset
  <2>4. dedup' = [h \in DOMAIN dedup \cup {chunk} |-> IF h = chunk THEN Len(file) ELSE dedup[h]]
    BY <1>2 DEF StoreOnce, current_offset
  <2>5. \A h \in DOMAIN dedup' : h \in Seq(Byte) /\ dedup'[h] \in Nat
    BY <2>4, WriterIsTyped
  <2> QED BY <2>3, <2>5, WriterIsTyped, PushBlockTyped
<1> QED BY <1>1, <1>2

\* A block is encrypted.
LEMMA StoreEncryptedTyped ==
    ASSUME WriterInv, NEW chunk \in Seq(Byte), StoreEncrypted(chunk)
    PROVE  WriterInv'
<1>1. globalIdx \in Int
  BY DEF WriterInv, WriterTypes
<1>2. PICK o \in Object : o = BlockObject(chunk, globalIdx)
  BY <1>1, ObjectsAre
<1>3. PICK b \in BlockInfo : b = Local(Len(file), Len(chunk), NoHash)
  BY WriterIsTyped, DescriptorsAre
<1>4. PushBlock(Append(file, o), b) /\ dedup' = dedup
  BY <1>2, <1>3 DEF StoreEncrypted, current_offset
<1> QED BY <1>4, WriterIsTyped, PushBlockTyped

\* A block is described that the file does not hold.
LEMMA UnstoredTyped ==
    ASSUME WriterInv, NEW b \in BlockInfo, PushBlock(file, b), UNCHANGED dedup
    PROVE  WriterInv'
BY WriterIsTyped, PushBlockTyped

\* The two paths of a block.
LEMMA WriteBlockTyped ==
    ASSUME WriterInv, NEW chunk \in Seq(Byte),
           WriteDataBlock(chunk) \/ WritePrecompressedBlock(chunk)
    PROVE  WriterInv'
<1>1. \/ PushBlock(file, Sparse(Len(chunk))) /\ UNCHANGED dedup
      \/ WriteParentRef(chunk) \/ StoreEncrypted(chunk) \/ StoreOnce(chunk)
  BY DEF WriteDataBlock, WritePrecompressedBlock
<1> QED BY <1>1, DescriptorsAre, UnstoredTyped, StoreEncryptedTyped, StoreOnceTyped
     DEF WriteParentRef

\* A stream begins.
LEMMA BeginStreamTyped ==
    ASSUME WriterInv, NEW is_main \in BOOLEAN, NEW total \in Nat, BeginStream(is_main, total)
    PROVE  WriterInv'
<1>1. /\ {mainSize, auxSize, globalIdx} \subseteq Nat
      /\ \A h \in parentHashes : h \in Seq(Byte)
      /\ encrypt \in BOOLEAN
  BY DEF WriterInv, WriterTypes
<1>2. UNCHANGED <<file, mainPages, auxPages, globalIdx, parentHashes, encrypt>>
  BY DEF BeginStream, configVars
<1>3. /\ isMain' \in BOOLEAN /\ active' \in BOOLEAN /\ page' = <<>>
      /\ pageStartBlock' \in Nat /\ pageStartLogical' \in Nat /\ logicalPos' \in Nat
      /\ mainSize' \in Nat /\ auxSize' \in Nat
  BY <1>1 DEF BeginStream
<1>4. dedup' = <<>> \/ dedup' = dedup
  BY DEF BeginStream
<1>5. \A h \in DOMAIN dedup' : h \in Seq(Byte) /\ dedup'[h] \in Nat
  <2>1. DOMAIN <<>> = {}
    BY EmptySequence
  <2> QED BY <1>4, <2>1, WriterIsTyped
<1>6. page' \in Seq(BlockInfo)
  BY <1>3
<1> QED BY <1>1, <1>2, <1>3, <1>5, <1>6 DEF WriterInv, WriterTypes

\* The pending page, if there is one, is written.
LEMMA FlushTyped ==
    ASSUME WriterInv,
           \/ FlushPending
           \/ UNCHANGED <<file, mainPages, auxPages, page, pageStartBlock, pageStartLogical>>,
           UNCHANGED <<mainSize, auxSize, globalIdx, dedup, configVars, logicalPos, isMain>>,
           active' \in BOOLEAN
    PROVE  WriterInv'
<1>1. globalIdx \in Nat /\ logicalPos \in Nat /\ page \in Seq(BlockInfo)
  BY DEF WriterInv, WriterTypes
<1>2. Paged
  <2>1. CASE FlushPage(file, page, globalIdx, logicalPos)
    BY <1>1, <2>1, WriterIsTyped, FlushPageTyped
  <2>2. CASE UNCHANGED <<file, mainPages, auxPages, page, pageStartBlock, pageStartLogical>>
    BY <2>2 DEF WriterInv, WriterTypes, Paged
  <2> QED BY <2>1, <2>2 DEF FlushPending
<1> QED BY <1>2 DEF WriterInv, WriterTypes, Paged, configVars

\* A stream or a file of a directory ends.
LEMMA EndTyped ==
    ASSUME WriterInv, EndStream \/ FlushStream
    PROVE  WriterInv'
<1>1. active \in BOOLEAN
  BY DEF WriterInv, WriterTypes
<1> QED BY <1>1, FlushTyped DEF EndStream, FlushStream

\* A new writer.
LEMMA CreateTyped ==
    ASSUME NEW held, \A h \in held : h \in Seq(Byte), NEW enc \in BOOLEAN, Create(held, enc)
    PROVE  WriterInv'
<1>1. file' \in Seq(Object)
  BY ObjectsAre DEF Create
<1>2. DOMAIN <<>> = {}
  BY EmptySequence
<1>3. /\ mainPages' = <<>> /\ auxPages' = <<>> /\ page' = <<>> /\ dedup' = <<>>
      /\ parentHashes' = held /\ encrypt' = enc
      /\ mainSize' = 0 /\ auxSize' = 0 /\ globalIdx' = 0 /\ pageStartBlock' = 0
      /\ pageStartLogical' = 0 /\ logicalPos' = 0 /\ isMain' = TRUE /\ active' = FALSE
  BY DEF Create
<1>4. mainPages' \in PageEntries /\ auxPages' \in PageEntries /\ page' \in Seq(BlockInfo)
  BY <1>3 DEF PageEntries
<1>5. ThereIn(mainPages', file') /\ ThereIn(auxPages', file')
  BY <1>2, <1>3 DEF ThereIn
<1>6. \A h \in DOMAIN dedup' : h \in Seq(Byte) /\ dedup'[h] \in Nat
  BY <1>2, <1>3
<1>7. {mainSize', auxSize', globalIdx', pageStartBlock', pageStartLogical', logicalPos'} \subseteq Nat
  BY <1>3
<1>8. /\ \A h \in parentHashes' : h \in Seq(Byte)
      /\ encrypt' \in BOOLEAN /\ isMain' \in BOOLEAN /\ active' \in BOOLEAN
  BY <1>3
<1> QED BY <1>1, <1>4, <1>5, <1>6, <1>7, <1>8 DEF WriterInv, WriterTypes

\* The hashes of an archive's pages.
LEMMA HashesTyped ==
    ASSUME NEW a \in ArchiveType, ThereIn(a.main, a.file), NEW h \in iter_block_hashes(a)
    PROVE  h \in Seq(Byte)
<1>1. PICK e \in Range(a.main) : \E y \in Range(BlocksAt(a, e)) : h = y.hash /\ y.hash # NoHash
  BY DEF iter_block_hashes
<1>2. PICK k \in DOMAIN a.main : e = a.main[k]
  BY DEF Range
<1>x. PICK x \in Range(BlocksAt(a, e)) : h = x.hash /\ x.hash # NoHash
  BY <1>1
<1>3. a.file \in Seq(Object)
  BY DEF ArchiveType
<1>4. e.offset + 1 \in DOMAIN a.file
  BY <1>2 DEF ThereIn
<1>5. a.file[e.offset + 1] \in Object
  BY <1>3, <1>4
<1>6. BlocksAt(a, e) \in Seq(BlockInfo)
  BY <1>5 DEF BlocksAt, Object
<1>7. x \in BlockInfo
  BY <1>6, <1>x DEF Range
<1> QED BY <1>x, <1>7 DEF BlockInfo

\* A job.
JobType == [input : InputType, base : Nat, parallel : BOOLEAN, encrypt : BOOLEAN, tar : BOOLEAN]

\* Where the job is: at the first file of the first list before it starts, and at the
\* first chunk of no file behind the last one.
AtFile ==
    /\ fileNo \in Nat \ {0} /\ chunkNo \in Nat \ {0}
    /\ phase = "begin" => fileNo = 1 /\ chunkNo = 1
    /\ phase \in {"main", "aux"} =>
          /\ fileNo <= Len(Files) + 1
          /\ IF fileNo <= Len(Files) THEN chunkNo <= Len(Files[fileNo].chunks) + 1
                                     ELSE chunkNo = 1

\* The finished archives have their type, and their entries point at pages of their files.
ArchivesTyped ==
    /\ archives \in Seq(ArchiveType)
    /\ \A i \in DOMAIN archives : /\ ThereIn(archives[i].main, archives[i].file)
                                  /\ ThereIn(archives[i].aux, archives[i].file)

\* The fields of the driver have their types.
JobTyped ==
    /\ job \in JobType /\ job.input \in Inputs \cup {NoJob.input} /\ job.base \in 0..Len(archives)
    /\ manifest \in Manifest /\ entryOffset \in Nat
    /\ phase \in {"idle", "begin", "main", "between", "aux", "finalize"}

\* The types, with where the job is.
TypeInv == WriterInv /\ ArchivesTyped /\ JobTyped /\ AtFile

\* TypeInv is stronger than TypeOK.
LEMMA TypeInvImplies == TypeInv => TypeOK
BY DEF TypeInv, TypeOK, WriterInv, ArchivesTyped, JobTyped, AtFile

\* The files of a job, their chunks and their bytes.
LEMMA FilesTyped ==
    ASSUME JobTyped
    PROVE  /\ Files \in Seq(FileType) /\ Len(Files) \in Nat
           /\ job.input.main \in Seq(FileType) /\ job.input.aux \in Seq(FileType)
           /\ \A k \in 1..Len(Files) :
                 /\ Files[k].declared \in Nat /\ Files[k].chunks \in Seq(Seq(Byte))
                 /\ Len(Files[k].chunks) \in Nat
                 /\ \A j \in 1..Len(Files[k].chunks) : Files[k].chunks[j] \in Seq(Byte)
<1>1. job.input.main \in Seq(FileType) /\ job.input.aux \in Seq(FileType)
  BY DEF JobTyped, JobType, InputType
<1>2. Files \in Seq(FileType) /\ Len(Files) \in Nat
  BY <1>1 DEF Files
<1>3. ASSUME NEW k \in 1..Len(Files)
      PROVE  /\ Files[k].declared \in Nat /\ Files[k].chunks \in Seq(Seq(Byte))
             /\ Len(Files[k].chunks) \in Nat
             /\ \A j \in 1..Len(Files[k].chunks) : Files[k].chunks[j] \in Seq(Byte)
  <2>1. Files[k] \in FileType
    BY <1>2
  <2>2. PICK cs \in Seq(Seq(Byte)) : Files[k].chunks = cs
    BY <2>1 DEF FileType
  <2>3. \A j \in 1..Len(cs) : cs[j] \in Seq(Byte)
    OBVIOUS
  <2> QED BY <2>1, <2>2, <2>3 DEF FileType
<1> QED BY <1>1, <1>2, <1>3

\* Sizes are numbers.
LEMMA SizesAre ==
    ASSUME NEW files \in Seq(FileType)
    PROVE  Total(files) \in Nat /\ TarSize(files) \in Nat
<1>1. PICK n \in Nat : n = Len(files)
  OBVIOUS
<1>2. Total(files) \in Nat
  BY <1>1, TotalIs DEF IsRunning
<1>3. TarHeader * Len(files) = n
  BY <1>1 DEF TarHeader
<1> QED BY <1>2, <1>3 DEF TarSize

\* The first state.
LEMMA InitTyped == Init => TypeInv
<1> SUFFICES ASSUME Init PROVE TypeInv
  OBVIOUS
<1>1. DOMAIN <<>> = {}
  BY EmptySequence
<1>2. WriterInv
  <2>1. file \in Seq(Object)
    BY ObjectsAre DEF Init, NoWriter
  <2>2. mainPages \in PageEntries /\ auxPages \in PageEntries /\ page \in Seq(BlockInfo)
    BY DEF Init, NoWriter, PageEntries
  <2>3. ThereIn(mainPages, file) /\ ThereIn(auxPages, file)
    BY <1>1 DEF Init, NoWriter, ThereIn
  <2>4. \A h \in DOMAIN dedup : h \in Seq(Byte) /\ dedup[h] \in Nat
    BY <1>1 DEF Init, NoWriter
  <2>5. {mainSize, auxSize, globalIdx, pageStartBlock, pageStartLogical, logicalPos} \subseteq Nat
    BY DEF Init, NoWriter
  <2>6. /\ \A h \in parentHashes : h \in Seq(Byte)
        /\ encrypt \in BOOLEAN /\ isMain \in BOOLEAN /\ active \in BOOLEAN
    BY DEF Init, NoWriter
  <2> QED BY <2>1, <2>2, <2>3, <2>4, <2>5, <2>6 DEF WriterInv, WriterTypes
<1>3. ArchivesTyped
  BY <1>1 DEF Init, ArchivesTyped
<1>4. JobTyped
  <2>1. archives = <<>> /\ job = NoJob /\ manifest = <<>> /\ entryOffset = 0 /\ phase = "idle"
    BY DEF Init
  <2>2. <<>> \in Seq(FileType) /\ <<>> \in Manifest
    BY DEF Manifest
  <2>3. NoJob \in JobType /\ NoJob.base = 0
    BY <2>2 DEF NoJob, JobType, InputType
  <2>4. 0 \in 0..Len(archives)
    BY <2>1, EmptySequence
  <2> QED BY <2>1, <2>2, <2>3, <2>4 DEF JobTyped
<1>5. AtFile
  BY DEF Init, AtFile
<1> QED BY <1>2, <1>3, <1>4, <1>5 DEF TypeInv

\* No job.
LEMMA IdleTyped ==
    ASSUME Idle, ArchivesTyped'
    PROVE  TypeInv'
<1>1. WriterInv'
  BY CreateTyped DEF Idle
<1>2. job' = NoJob /\ manifest' = <<>> /\ entryOffset' = 0 /\ phase' = "idle" /\ fileNo' = 1 /\ chunkNo' = 1
  BY DEF Idle
<1>3. JobTyped'
  <2>2. <<>> \in Seq(FileType) /\ <<>> \in Manifest
    BY DEF Manifest
  <2>3. NoJob \in JobType /\ NoJob.base = 0
    BY <2>2 DEF NoJob, JobType, InputType
  <2>4. 0 \in 0..Len(archives')
    BY DEF ArchivesTyped
  <2> QED BY <1>2, <2>2, <2>3, <2>4 DEF JobTyped
<1>4. AtFile'
  BY <1>2 DEF AtFile
<1> QED BY <1>1, <1>3, <1>4 DEF TypeInv

\* A step that leaves the archives alone.
LEMMA ArchivesKeep ==
    ASSUME ArchivesTyped, UNCHANGED archives
    PROVE  ArchivesTyped'
BY DEF ArchivesTyped

\* Packing starts.
LEMMA StartTyped ==
    ASSUME TypeInv, StartPack \/ StartConvert
    PROVE  TypeInv'
<1>1. ArchivesTyped /\ ArchivesTyped'
  BY ArchivesKeep DEF TypeInv, StartPack, StartConvert
<1>2. /\ phase' = "begin" /\ fileNo' = 1 /\ chunkNo' = 1 /\ entryOffset' = 0 /\ manifest' = <<>>
      /\ archives' = archives
  BY DEF StartPack, StartConvert
<1>3. AtFile'
  BY <1>2 DEF AtFile
<1>4. PICK enc \in BOOLEAN :
        /\ \E held : Create(held, enc) /\ \A h \in held : h \in Seq(Byte)
        /\ job' \in JobType /\ job'.input \in Inputs /\ job'.base \in 0..Len(archives)
  <2>1. CASE StartPack
    <3>1. PICK input \in Inputs, base \in Bases, parallel \in BOOLEAN, enc \in BOOLEAN :
            /\ job' = [input |-> input, base |-> base, parallel |-> parallel, encrypt |-> enc, tar |-> FALSE]
            /\ Create(ParentIndex(base), enc)
      BY <2>1 DEF StartPack
    <3>2. base \in 0..Len(archives) /\ (base # 0 => base \in DOMAIN archives)
      BY <1>1 DEF Bases, ArchivesTyped
    <3>3. \A h \in ParentIndex(base) : h \in Seq(Byte)
      <4>1. CASE base = 0
        BY <4>1 DEF ParentIndex
      <4>2. CASE base # 0
        <5>1. archives[base] \in ArchiveType /\ ThereIn(archives[base].main, archives[base].file)
          BY <1>1, <3>2, <4>2 DEF ArchivesTyped
        <5> QED BY <4>2, <5>1, HashesTyped DEF ParentIndex
      <4> QED BY <4>1, <4>2
    <3>4. job' \in JobType
      BY <3>1, <3>2, InputAssumption DEF JobType
    <3>5. \E held : Create(held, enc) /\ \A h \in held : h \in Seq(Byte)
      BY <3>1, <3>3
    <3>6. job'.input \in Inputs /\ job'.base \in 0..Len(archives)
      BY <3>1, <3>2
    <3> QED BY <3>4, <3>5, <3>6
  <2>2. CASE StartConvert
    <3>1. PICK input \in Inputs : job' = [NoJob EXCEPT !.input = input, !.tar = TRUE]
      BY <2>2 DEF StartConvert
    <3>2. job' \in JobType /\ job'.input = input /\ job'.base = 0
      BY <3>1, InputAssumption DEF JobType, NoJob
    <3>3. Create({}, FALSE)
      BY <2>2 DEF StartConvert
    <3>4. 0 \in 0..Len(archives)
      BY <1>1 DEF ArchivesTyped
    <3>5. \E held : Create(held, FALSE) /\ \A h \in held : h \in Seq(Byte)
      <4>1. PICK none : none = {}
        OBVIOUS
      <4>2. Create(none, FALSE) /\ \A h \in none : h \in Seq(Byte)
        BY <3>3, <4>1
      <4> QED BY <4>2
    <3> QED BY <3>2, <3>4, <3>5
  <2> QED BY <2>1, <2>2
<1>5. WriterInv'
  BY <1>4, CreateTyped
<1>6. <<>> \in Manifest
  BY DEF Manifest
<1>7. JobTyped'
  BY <1>2, <1>4, <1>6 DEF JobTyped
<1> QED BY <1>1, <1>3, <1>5, <1>7 DEF TypeInv

\* A stream begins.
LEMMA BeginTyped ==
    ASSUME TypeInv, BeginMain \/ BeginAux
    PROVE  TypeInv'
<1>1. ArchivesTyped' /\ WriterInv /\ JobTyped /\ AtFile
  BY ArchivesKeep DEF TypeInv, BeginMain, BeginAux
<1>2. WriterInv'
  <2>1. /\ Total(job.input.main) \in Nat /\ Total(job.input.aux) \in Nat
        /\ TarSize(job.input.main) \in Nat
    BY <1>1, FilesTyped, SizesAre
  <2>2. \E m \in BOOLEAN, n \in Nat : BeginStream(m, n)
    BY <2>1 DEF BeginMain, BeginAux
  <2> QED BY <1>1, <2>2, BeginStreamTyped
<1>3. UNCHANGED <<job, archives, manifest, entryOffset>> /\ phase' \in {"main", "aux"}
  BY DEF BeginMain, BeginAux
<1>4. JobTyped'
  BY <1>1, <1>3 DEF JobTyped
<1>5. fileNo' = 1 /\ chunkNo' = 1
  BY <1>1 DEF BeginMain, BeginAux, AtFile
<1>6. AtFile'
  <2>1. /\ Files' \in Seq(FileType) /\ Len(Files') \in Nat
        /\ \A k \in 1..Len(Files') : Len(Files'[k].chunks) \in Nat
    <3>1. \A fs \in Seq(FileType) : Len(fs) \in Nat /\ \A k \in 1..Len(fs) : Len(fs[k].chunks) \in Nat
      <4> SUFFICES ASSUME NEW fs \in Seq(FileType), NEW k \in 1..Len(fs) PROVE Len(fs[k].chunks) \in Nat
        OBVIOUS
      <4>1. fs[k] \in FileType
        OBVIOUS
      <4>2. fs[k].chunks \in Seq(Seq(Byte))
        BY <4>1 DEF FileType
      <4> QED BY <4>2
    <3>2. job'.input \in InputType
      BY <1>4 DEF JobTyped, JobType
    <3>3. Files' \in Seq(FileType)
      BY <3>2 DEF Files, InputType
    <3> QED BY <3>1, <3>3
  <2>2. 1 <= Len(Files') => Len(Files'[1].chunks) \in Nat
    BY <2>1
  <2>3. 1 <= Len(Files') + 1
    BY <2>1
  <2> QED BY <1>3, <1>5, <2>2, <2>3 DEF AtFile
<1> QED BY <1>1, <1>2, <1>4, <1>6 DEF TypeInv

\* A chunk is packed.
LEMMA PackChunkTyped ==
    ASSUME TypeInv, PackChunk
    PROVE  TypeInv'
<1>1. ArchivesTyped' /\ WriterInv /\ JobTyped /\ AtFile
  BY ArchivesKeep DEF TypeInv, PackChunk
<1>2. UNCHANGED <<job, archives, manifest, entryOffset, phase, fileNo>> /\ chunkNo' = chunkNo + 1
  BY DEF PackChunk
<1>3. fileNo \in 1..Len(Files) /\ chunkNo \in 1..Len(Files[fileNo].chunks) /\ Len(Files) \in Nat
  BY <1>1, FilesTyped DEF PackChunk, AtFile
<1>4. Len(Files[fileNo].chunks) \in Nat
  BY <1>1, <1>3, FilesTyped
<1>5. Files' = Files
  BY <1>2 DEF Files
<1>6. AtFile'
  <2>1. chunkNo + 1 \in Nat \ {0} /\ chunkNo + 1 <= Len(Files[fileNo].chunks) + 1
    BY <1>3, <1>4
  <2>2. phase # "begin"
    BY DEF PackChunk
  <2> QED BY <1>1, <1>2, <1>3, <1>5, <2>1, <2>2 DEF AtFile
<1>7. WriterInv'
  <2>1. PICK chunk \in Seq(Byte) : chunk = Files[fileNo].chunks[chunkNo]
    BY <1>1, <1>3, FilesTyped
  <2>2. WriteDataBlock(chunk) \/ WritePrecompressedBlock(chunk)
    BY <2>1 DEF PackChunk
  <2> QED BY <1>1, <2>2, WriteBlockTyped
<1>8. JobTyped'
  BY <1>1, <1>2 DEF JobTyped
<1> QED BY <1>1, <1>6, <1>7, <1>8 DEF TypeInv

\* A file ends, in a directory or in a tar file.
LEMMA EndFileTyped ==
    ASSUME TypeInv, EndFile \/ EndTarEntry
    PROVE  TypeInv'
<1>1. ArchivesTyped' /\ WriterInv /\ JobTyped /\ AtFile
  BY ArchivesKeep DEF TypeInv, EndFile, EndTarEntry
<1>2. /\ UNCHANGED <<job, archives, phase>> /\ fileNo' = fileNo + 1 /\ chunkNo' = 1
      /\ phase \in {"main", "aux"}
  BY DEF EndFile, EndTarEntry
<1>3. fileNo \in 1..Len(Files) /\ Len(Files) \in Nat
  BY <1>1, FilesTyped DEF EndFile, EndTarEntry, AtFile
<1>4. Files' = Files
  BY <1>2 DEF Files
<1>5. AtFile'
  <2>1. fileNo + 1 \in Nat \ {0} /\ fileNo + 1 <= Len(Files) + 1
    BY <1>3
  <2>2. fileNo + 1 <= Len(Files) => Len(Files[fileNo + 1].chunks) \in Nat
    BY <1>1, <1>3, FilesTyped
  <2> QED BY <1>2, <1>4, <2>1, <2>2 DEF AtFile
<1>6. WriterInv'
  <2>1. CASE FlushStream
    BY <1>1, <2>1, EndTyped
  <2>2. CASE UNCHANGED writerVars
    BY <1>1, <2>2 DEF writerVars, masterVars, configVars, WriterInv, WriterTypes
  <2> QED BY <2>1, <2>2 DEF EndFile, EndTarEntry
<1>7. Files[fileNo].declared \in Nat /\ entryOffset \in Nat /\ logicalPos' \in Nat
  BY <1>1, <1>3, <1>6, FilesTyped DEF JobTyped, WriterInv, WriterTypes
<1>8. /\ entryOffset' \in Nat
      /\ \/ manifest' = manifest
         \/ \E offset \in Nat : manifest' = Append(manifest,
              [stream |-> phase, file |-> fileNo, size |-> Files[fileNo].declared, offset |-> offset])
  BY <1>7 DEF EndFile, EndTarEntry, NextOffset
<1>9. manifest' \in Manifest
  <2>1. manifest \in Manifest
    BY <1>1 DEF JobTyped
  <2>2. \A offset \in Nat :
          [stream |-> phase, file |-> fileNo, size |-> Files[fileNo].declared, offset |-> offset]
            \in [stream : {"main", "aux"}, file : Nat, size : Nat, offset : Nat]
    BY <1>2, <1>3, <1>7
  <2> DEFINE M == [stream : {"main", "aux"}, file : Nat, size : Nat, offset : Nat]
  <2>3. manifest' = manifest \/ \E e \in M : manifest' = Append(manifest, e)
    BY <1>8, <2>2
  <2> HIDE DEF M
  <2>4. manifest \in Seq(M)
    BY <2>1 DEF Manifest, M
  <2>5. manifest' \in Seq(M)
    BY <2>3, <2>4
  <2> QED BY <2>5 DEF Manifest, M
<1>10. JobTyped'
  BY <1>1, <1>2, <1>8, <1>9 DEF JobTyped
<1> QED BY <1>1, <1>5, <1>6, <1>10 DEF TypeInv

\* A stream ends.
LEMMA EndStreamTyped ==
    ASSUME TypeInv, EndMain \/ EndAux
    PROVE  TypeInv'
<1>1. ArchivesTyped' /\ WriterInv /\ JobTyped /\ AtFile
  BY ArchivesKeep DEF TypeInv, EndMain, EndAux
<1>2. /\ UNCHANGED <<job, archives, fileNo, chunkNo, manifest, entryOffset>>
      /\ phase' \in {"between", "finalize"} /\ EndStream
  BY DEF EndMain, EndAux
<1>3. WriterInv'
  BY <1>1, <1>2, EndTyped
<1>4. JobTyped'
  BY <1>1, <1>2 DEF JobTyped
<1>5. AtFile'
  BY <1>1, <1>2 DEF AtFile
<1> QED BY <1>1, <1>3, <1>4, <1>5 DEF TypeInv

\* An archive is finished.
LEMMA FinishTyped ==
    ASSUME TypeInv, Finish
    PROVE  TypeInv'
<1>1. ArchivesTyped /\ WriterInv /\ JobTyped
  BY DEF TypeInv
<1> DEFINE a == [file |-> Finalized.file, encrypted |-> encrypt,
                 main |-> mainPages, aux |-> auxPages,
                 mainSize |-> mainSize, auxSize |-> auxSize,
                 base |-> job.base, manifest |-> manifest, input |-> job.input]
<1>2. archives' = Append(archives, a)
  BY DEF Finish
<1>3. PICK f \in Seq(Object) : f = Finalized.file /\ f = Append(file, IndexObject)
  <2>1. file \in Seq(Object) /\ IndexObject \in Object
    BY <1>1, ObjectsAre DEF WriterInv, WriterTypes
  <2>2. Append(file, IndexObject) \in Seq(Object)
    BY <2>1
  <2>3. Finalized.file = Append(file, IndexObject)
    BY DEF Finalized
  <2> QED BY <2>2, <2>3
<1>4. a \in ArchiveType
  <2>1. /\ mainPages \in PageEntries /\ auxPages \in PageEntries /\ encrypt \in BOOLEAN
        /\ mainSize \in Nat /\ auxSize \in Nat
    BY <1>1 DEF WriterInv, WriterTypes
  <2>2. job.base \in Nat /\ manifest \in Manifest /\ job.input \in InputType
    BY <1>1 DEF JobTyped, JobType
  <2> QED BY <1>3, <2>1, <2>2 DEF ArchiveType
<1>5. ThereIn(a.main, a.file) /\ ThereIn(a.aux, a.file)
  BY <1>1, <1>3, ObjectsAre, ThereGrows DEF WriterInv, WriterTypes
<1> HIDE DEF a
<1>6. ArchivesTyped'
  <2>1. archives \in Seq(ArchiveType)
    BY <1>1 DEF ArchivesTyped
  <2>2. archives' \in Seq(ArchiveType)
    BY <1>2, <1>4, <2>1
  <2>3. \A i \in DOMAIN archives' : archives'[i] = a \/ (i \in DOMAIN archives /\ archives'[i] = archives[i])
    <3>1. IsSequence(archives)
      BY <2>1 DEF IsSequence
    <3> QED BY <1>2, <3>1, AppendElements
  <2> QED BY <1>1, <1>5, <2>2, <2>3 DEF ArchivesTyped
<1> QED BY <1>6, IdleTyped DEF Finish

\* The type invariant, with what it rests on, holds throughout.
LEMMA TypeInvariance == Spec => []TypeInv
<1>1. TypeInv /\ [Next]_vars => TypeInv'
  <2> SUFFICES ASSUME TypeInv, [Next]_vars PROVE TypeInv'
    OBVIOUS
  <2>1. CASE PackFails
    <3>1. ArchivesTyped'
      BY <2>1, ArchivesKeep DEF PackFails, TypeInv
    <3> QED BY <2>1, <3>1, IdleTyped DEF PackFails
  <2>2. CASE Done \/ UNCHANGED vars
    <3>1. UNCHANGED vars
      BY <2>2 DEF Done
    <3> QED BY <3>1 DEF vars, packVars, writerVars, masterVars, configVars, TypeInv, WriterInv,
                        WriterTypes, ArchivesTyped, JobTyped, AtFile, Files
  <2> QED BY <2>1, <2>2, StartTyped, BeginTyped, PackChunkTyped, EndFileTyped, EndStreamTyped,
             FinishTyped DEF Next
<1> QED BY <1>1, InitTyped, PTL DEF Spec

\* For any inputs, page and block sizes: the fields of the writer, the archives and the
\* job have their types, and what is packed is a file and a chunk that there are.
THEOREM TypeCorrect == Spec => []TypeOK
BY TypeInvariance, TypeInvImplies, PTL

-----------------------------------------------------------------------------
(* Where the chunks of files are.                                          *)

\* The chunks of all the files, one after the other.
ChunkLists(files) == [i \in DOMAIN files |-> files[i].chunks]
\* The chunks of the files, joined.
Chunks(files) == FlattenSeq(ChunkLists(files))

\* The bytes before chunk j of file f.
ChunkAt(files, f, j) == Starts(Chunks(files))[Starts(ChunkLists(files))[f] + j]

\* Every position of a join is in one of the sequences.
LEMMA InSomeOne ==
    ASSUME NEW S, NEW ss \in Seq(Seq(S)), NEW i \in 1..Starts(ss)[Len(ss) + 1]
    PROVE  \E k \in 1..Len(ss) : i \in (Starts(ss)[k] + 1)..(Starts(ss)[k] + Len(ss[k]))
<1>0. PICK at : IsStarts(at, ss) /\ at = Starts(ss)
  BY StartsIs
<1>1. PICK n \in Nat : n = Len(ss)
  OBVIOUS
<1>2. /\ \A k \in 1..(n + 1) : at[k] \in Nat
      /\ at[1] = 0 /\ \A k \in 1..n : at[k + 1] = at[k] + Len(ss[k])
  BY <1>0, <1>1 DEF IsStarts
<1> DEFINE Good(m) == \A j \in 1..at[m + 1] :
                         \E k \in 1..m : j \in (at[k] + 1)..(at[k] + Len(ss[k]))
           T == { m \in 0..n : Good(m) }
<1>3. 0 \in T
  BY <1>2
<1>4. ASSUME NEW m \in 1..n, m - 1 \in T PROVE m \in T
  <2>1. ASSUME NEW j \in 1..at[m + 1]
        PROVE  \E k \in 1..m : j \in (at[k] + 1)..(at[k] + Len(ss[k]))
    <3>0. /\ at[m + 1] = at[m] + Len(ss[m]) /\ at[m] \in Nat /\ at[m + 1] \in Nat /\ Len(ss[m]) \in Nat
          /\ (m - 1) + 1 = m
      <4>1. m \in 1..(n + 1) /\ m + 1 \in 1..(n + 1) /\ m \in DOMAIN ss
        BY <1>1
      <4>2. ss[m] \in Seq(S)
        BY <4>1
      <4> QED BY <1>2, <4>1, <4>2
    <3>1. CASE j <= at[m]
      <4>1. \A i2 \in 1..at[(m - 1) + 1] : \E k \in 1..(m - 1) : i2 \in (at[k] + 1)..(at[k] + Len(ss[k]))
        BY <1>4
      <4>2. j \in 1..at[(m - 1) + 1]
        BY <3>0, <3>1
      <4>3. PICK k \in 1..(m - 1) : j \in (at[k] + 1)..(at[k] + Len(ss[k]))
        BY <4>1, <4>2
      <4>4. k \in 1..m
        OBVIOUS
      <4> QED BY <4>3, <4>4
    <3>2. CASE ~ (j <= at[m])
      <4>1. j \in (at[m] + 1)..(at[m] + Len(ss[m])) /\ m \in 1..m
        BY <3>0, <3>2
      <4> QED BY <4>1
    <3> QED BY <3>1, <3>2
  <2> QED BY <2>1
<1>5. n \in T
  <2> HIDE DEF T
  <2>1. \A m \in 1..n : m - 1 \in T => m \in T
    BY <1>4
  <2>2. 0..n \subseteq T
    BY <1>3, <2>1, Upwards
  <2> QED BY <2>2
<1>6. Good(n)
  BY <1>5
<1> QED BY <1>0, <1>1, <1>6

\* No sequence starts behind the end of the join.
LEMMA StartsBelow ==
    ASSUME NEW S, NEW ss \in Seq(Seq(S)), NEW k \in 1..(Len(ss) + 1)
    PROVE  Starts(ss)[k] <= Starts(ss)[Len(ss) + 1]
<1>0. PICK at : IsStarts(at, ss) /\ at = Starts(ss)
  BY StartsIs
<1>1. PICK n \in Nat : n = Len(ss)
  OBVIOUS
<1>2. /\ \A i \in 1..(n + 1) : at[i] \in Nat
      /\ \A i \in 1..n : at[i + 1] = at[i] + Len(ss[i]) /\ Len(ss[i]) \in Nat
  <2>1. \A i \in 1..n : ss[i] \in Seq(S)
    BY <1>1
  <2>2. \A i \in 1..n : Len(ss[i]) \in Nat
    BY <2>1
  <2> QED BY <1>0, <1>1, <2>2 DEF IsStarts
<1> DEFINE T == { d \in 0..n : at[(n + 1) - d] <= at[n + 1] }
<1>3. 0 \in T
  BY <1>2
<1>4. ASSUME NEW d \in 1..n, d - 1 \in T PROVE d \in T
  <2>1. PICK i \in 1..n : i = (n + 1) - d /\ i + 1 = (n + 1) - (d - 1)
    OBVIOUS
  <2>2. at[i + 1] <= at[n + 1] /\ i + 1 \in 1..(n + 1) /\ i \in 1..(n + 1) /\ n + 1 \in 1..(n + 1)
    BY <1>4, <2>1
  <2>3. at[i + 1] = at[i] + Len(ss[i]) /\ Len(ss[i]) \in Nat /\ at[i] \in Nat /\ at[n + 1] \in Nat
    BY <1>2, <2>2
  <2>4. at[i] <= at[n + 1]
    BY <2>2, <2>3
  <2> QED BY <2>1, <2>4
<1>5. 0..n \subseteq T
  <2> HIDE DEF T
  <2>1. \A d \in 1..n : d - 1 \in T => d \in T
    BY <1>4
  <2> QED BY <1>3, <2>1, Upwards
<1>6. PICK d \in 0..n : d = (n + 1) - k /\ (n + 1) - d = k
  <2>1. k \in 1..(n + 1)
    BY <1>1
  <2>2. (n + 1) - k \in 0..n /\ (n + 1) - ((n + 1) - k) = k
    BY <2>1
  <2> QED BY <2>2
<1>7. at[(n + 1) - d] <= at[n + 1]
  BY <1>5
<1> QED BY <1>0, <1>1, <1>6, <1>7

\* The lists of chunks are lists of chunks, and the chunks are theirs.
LEMMA ChunksAre ==
    ASSUME NEW files \in Seq(FileType)
    PROVE  /\ ChunkLists(files) \in Seq(Seq(Seq(Byte)))
           /\ Chunks(files) \in Seq(Seq(Byte))
           /\ Len(ChunkLists(files)) = Len(files)
           /\ Bytes(files) = FlattenSeq(Chunks(files)) /\ Bytes(files) \in Seq(Byte)
           /\ \A f \in 1..Len(files) : /\ files[f] \in FileType
                                       /\ files[f].chunks \in Seq(Seq(Byte))
                                       /\ Contents(files[f]) \in Seq(Byte)
                                       /\ ChunkLists(files)[f] = files[f].chunks
<1>1. \A f \in 1..Len(files) : files[f] \in FileType
  OBVIOUS
<1>2. ASSUME NEW f \in 1..Len(files)
      PROVE  files[f].chunks \in Seq(Seq(Byte)) /\ Contents(files[f]) \in Seq(Byte)
  <2>1. PICK cs \in Seq(Seq(Byte)) : files[f].chunks = cs
    BY <1>1 DEF FileType
  <2>2. FlattenSeq(cs) \in Seq(Byte)
    BY FlattenHolds
  <2> QED BY <2>1, <2>2 DEF Contents
<1>3. /\ ChunkLists(files) \in Seq(Seq(Seq(Byte))) /\ Len(ChunkLists(files)) = Len(files)
      /\ \A f \in 1..Len(files) : ChunkLists(files)[f] = files[f].chunks
  <2>1. DOMAIN files = 1..Len(files) /\ Len(files) \in Nat
    OBVIOUS
  <2> QED BY <1>2, <2>1 DEF ChunkLists
<1>4. Chunks(files) \in Seq(Seq(Byte))
  BY <1>3, FlattenHolds DEF Chunks
<1>5. Bytes(files) = FlattenSeq(Chunks(files))
  BY Zenon DEF Bytes, Chunks, ChunkLists
<1>6. Bytes(files) \in Seq(Byte)
  BY <1>4, <1>5, FlattenHolds
<1> QED BY <1>1, <1>2, <1>3, <1>4, <1>5, <1>6

\* The chunks of files follow one another, and the files do.
LEMMA ChunkPlaces ==
    ASSUME NEW files \in Seq(FileType)
    PROVE  /\ ChunkAt(files, 1, 1) = 0
           /\ ChunkAt(files, Len(files) + 1, 1) = Len(Bytes(files))
           /\ \A f \in 1..Len(files) :
                 /\ ChunkAt(files, f + 1, 1) = ChunkAt(files, f, Len(files[f].chunks) + 1)
                 /\ \A j \in 1..(Len(files[f].chunks) + 1) : ChunkAt(files, f, j) \in Nat
                 /\ \A j \in 1..Len(files[f].chunks) :
                       /\ ChunkAt(files, f, j + 1) = ChunkAt(files, f, j) + Len(files[f].chunks[j])
                       /\ HoldsAt(Bytes(files), ChunkAt(files, f, j), files[f].chunks[j])
           /\ \A f \in 1..(Len(files) + 1) :
                 ChunkAt(files, f, 1) \in Nat /\ ChunkAt(files, f, 1) <= Len(Bytes(files))
<1> DEFINE ls == ChunkLists(files)
           cs == Chunks(files)
<1>1. PICK n \in Nat : n = Len(files) /\ Len(ls) = n
  BY ChunksAre
<1>2. PICK lat : IsStarts(lat, ls) /\ lat = Starts(ls)
  BY ChunksAre, StartsIs
<1>3. PICK at : IsStarts(at, cs) /\ at = Starts(cs)
  BY ChunksAre, StartsIs
<1>4. PICK c \in Nat : c = Len(cs) /\ c = lat[n + 1]
  BY <1>1, <1>2, ChunksAre, FlattenHolds DEF Chunks
<1>5. /\ lat[1] = 0 /\ at[1] = 0
      /\ \A f \in 1..(n + 1) : lat[f] \in Nat
      /\ \A k \in 1..(c + 1) : at[k] \in Nat
      /\ \A f \in 1..n : lat[f + 1] = lat[f] + Len(ls[f])
      /\ \A k \in 1..c : at[k + 1] = at[k] + Len(cs[k])
  BY <1>1, <1>2, <1>3, <1>4 DEF IsStarts
<1>6. \A f, j : ChunkAt(files, f, j) = at[lat[f] + j]
  BY <1>2, <1>3 DEF ChunkAt
<1>7. ChunkAt(files, 1, 1) = 0
  BY <1>5, <1>6
<1>8. ChunkAt(files, n + 1, 1) = Len(Bytes(files))
  <2>1. Len(Bytes(files)) = at[c + 1]
    BY <1>3, <1>4, ChunksAre, FlattenHolds
  <2> QED BY <1>4, <1>6, <2>1
<1>9. ASSUME NEW f \in 1..n
      PROVE  /\ ChunkAt(files, f + 1, 1) = ChunkAt(files, f, Len(files[f].chunks) + 1)
             /\ \A j \in 1..(Len(files[f].chunks) + 1) : ChunkAt(files, f, j) \in Nat
             /\ \A j \in 1..Len(files[f].chunks) :
                   /\ ChunkAt(files, f, j + 1) = ChunkAt(files, f, j) + Len(files[f].chunks[j])
                   /\ HoldsAt(Bytes(files), ChunkAt(files, f, j), files[f].chunks[j])
  <2>0. files[f].chunks \in Seq(Seq(Byte)) /\ ls[f] = files[f].chunks
    BY <1>1, ChunksAre
  <2>1. PICK m \in Nat : m = Len(files[f].chunks) /\ m = Len(ls[f])
    BY <2>0
  <2>2. PICK p \in Nat : p = lat[f] /\ lat[f + 1] = p + m
    <3>1. f \in 1..(n + 1)
      OBVIOUS
    <3>2. lat[f] \in Nat /\ lat[f + 1] = lat[f] + Len(ls[f])
      BY <1>5, <3>1
    <3> QED BY <2>1, <3>2
  <2>3. HoldsAt(cs, p, ls[f])
    BY <1>1, <1>2, <2>2, ChunksAre, FlattenHolds DEF Chunks
  <2>4. p + m <= c /\ \A j \in 1..m : cs[p + j] = files[f].chunks[j]
    BY <1>4, <2>0, <2>1, <2>3 DEF HoldsAt
  <2>6. \A j \in 1..(m + 1) : p + j \in 1..(c + 1)
    BY <2>4
  <2>7. \A j \in 1..m : p + j \in 1..c /\ p + (j + 1) = (p + j) + 1
    BY <2>4
  <2>e. \A j : ChunkAt(files, f, j) = at[p + j]
    BY <1>6, <2>2
  <2>8. ChunkAt(files, f + 1, 1) = ChunkAt(files, f, m + 1)
    <3>1. (p + m) + 1 = p + (m + 1)
      OBVIOUS
    <3> QED BY <1>6, <2>2, <2>e, <3>1
  <2>9. \A j \in 1..(m + 1) : ChunkAt(files, f, j) \in Nat
    BY <1>5, <2>e, <2>6
  <2>10. ASSUME NEW j \in 1..m
         PROVE  /\ ChunkAt(files, f, j + 1) = ChunkAt(files, f, j) + Len(files[f].chunks[j])
                /\ HoldsAt(Bytes(files), ChunkAt(files, f, j), files[f].chunks[j])
    <3>1. PICK k \in 1..c : k = p + j /\ k + 1 = p + (j + 1)
      BY <2>7
    <3>2. cs[k] = files[f].chunks[j]
      BY <2>4, <3>1
    <3>3. HoldsAt(Bytes(files), at[k], cs[k])
      BY <1>3, <1>4, ChunksAre, FlattenHolds
    <3>4. at[k + 1] = at[k] + Len(cs[k])
      BY <1>5
    <3>5. ChunkAt(files, f, j) = at[k] /\ ChunkAt(files, f, j + 1) = at[k + 1]
      BY <2>e, <3>1
    <3> QED BY <3>2, <3>3, <3>4, <3>5
  <2> QED BY <2>1, <2>8, <2>9, <2>10
<1>10. ASSUME NEW f \in 1..(n + 1)
       PROVE  ChunkAt(files, f, 1) \in Nat /\ ChunkAt(files, f, 1) <= Len(Bytes(files))
  <2>1. PICK p \in Nat : p = lat[f]
    BY <1>5
  <2>2. p <= c
    BY <1>1, <1>2, <1>4, <2>1, ChunksAre, StartsBelow
  <2>3. PICK k \in 1..(c + 1) : k = p + 1
    BY <2>2
  <2>4. at[k] \in Nat /\ at[k] <= at[c + 1]
    BY <1>3, <1>4, <1>5, ChunksAre, StartsBelow
  <2>5. Len(Bytes(files)) = at[c + 1]
    BY <1>3, <1>4, ChunksAre, FlattenHolds
  <2> QED BY <1>6, <2>1, <2>3, <2>4, <2>5
<1> QED BY <1>1, <1>7, <1>8, <1>9, <1>10

\* A file is where its first chunk is, whole.
LEMMA FilePlaces ==
    ASSUME NEW files \in Seq(FileType), NEW f \in 1..Len(files)
    PROVE  /\ ChunkAt(files, f, 1) \in Nat /\ Len(Contents(files[f])) \in Nat
           /\ ChunkAt(files, f + 1, 1) = ChunkAt(files, f, 1) + Len(Contents(files[f]))
           /\ HoldsAt(Bytes(files), ChunkAt(files, f, 1), Contents(files[f]))
<1>1. PICK ss \in Seq(Seq(Byte)) : ss = files[f].chunks
  BY ChunksAre
<1>2. PICK m \in Nat : m = Len(ss)
  OBVIOUS
<1>3. PICK st : IsStarts(st, ss) /\ st = Starts(ss)
  BY StartsIs
<1>4. PICK data \in Seq(Byte) :
         /\ data = Contents(files[f]) /\ Len(data) = st[m + 1]
         /\ \A k \in 1..m : HoldsAt(data, st[k], ss[k])
  <2>1. Contents(files[f]) = FlattenSeq(ss)
    BY <1>1 DEF Contents
  <2> QED BY <1>2, <1>3, <2>1, FlattenHolds
<1>5. /\ st[1] = 0 /\ \A k \in 1..(m + 1) : st[k] \in Nat
      /\ \A k \in 1..m : st[k + 1] = st[k] + Len(ss[k]) /\ Len(ss[k]) \in Nat
  <2>1. \A k \in 1..m : ss[k] \in Seq(Byte)
    BY <1>2
  <2> QED BY <1>2, <1>3, <2>1 DEF IsStarts
<1> DEFINE c(j) == ChunkAt(files, f, j)
           all == Bytes(files)
<1>6. /\ ChunkAt(files, f + 1, 1) = c(m + 1)
      /\ \A j \in 1..(m + 1) : c(j) \in Nat
      /\ \A j \in 1..m : c(j + 1) = c(j) + Len(ss[j]) /\ HoldsAt(all, c(j), ss[j])
  BY <1>1, <1>2, ChunkPlaces
<1>7. c(m + 1) <= Len(all)
  <2>1. f + 1 \in 1..(Len(files) + 1)
    OBVIOUS
  <2> QED BY <1>6, <2>1, ChunkPlaces
<1>8. Len(all) \in Nat
  BY ChunksAre
<1> HIDE DEF c, all
<1> DEFINE T == { k \in 0..m : c(k + 1) = c(1) + st[k + 1] }
<1>9. 0 \in T
  BY <1>5, <1>6
<1>10. ASSUME NEW k \in 1..m, k - 1 \in T PROVE k \in T
  <2>1. (k - 1) + 1 = k /\ k \in 1..(m + 1) /\ 1 \in 1..(m + 1)
    OBVIOUS
  <2>2. c(k) = c(1) + st[k]
    BY <1>10, <2>1
  <2>3. c(1) \in Nat /\ st[k] \in Nat /\ Len(ss[k]) \in Nat
    BY <1>5, <1>6, <2>1
  <2>4. c(k + 1) = c(k) + Len(ss[k]) /\ st[k + 1] = st[k] + Len(ss[k])
    BY <1>5, <1>6
  <2>5. c(k + 1) = c(1) + st[k + 1]
    BY <2>2, <2>3, <2>4
  <2> QED BY <2>5
<1>11. \A k \in 0..m : c(k + 1) = c(1) + st[k + 1]
  <2> HIDE DEF T
  <2>1. \A k \in 1..m : k - 1 \in T => k \in T
    BY <1>10
  <2>2. 0..m \subseteq T
    BY <1>9, <2>1, Upwards
  <2> QED BY <2>2 DEF T
<1>12. c(m + 1) = c(1) + Len(data) /\ c(1) \in Nat
  BY <1>4, <1>6, <1>11
<1>13. ASSUME NEW i \in 1..Len(data) PROVE all[c(1) + i] = data[i]
  <2>1. PICK k \in 1..m : i \in (st[k] + 1)..(st[k] + Len(ss[k]))
    BY <1>2, <1>3, <1>4, InSomeOne
  <2>2. st[k] \in Nat /\ Len(ss[k]) \in Nat /\ k - 1 \in 0..m /\ (k - 1) + 1 = k
    BY <1>5
  <2>3. PICK j \in 1..Len(ss[k]) : i = st[k] + j
    <3>1. PICK x \in Nat, y \in Nat : x = st[k] /\ y = Len(ss[k])
      BY <2>2
    <3>2. i \in (x + 1)..(x + y)
      BY <2>1, <3>1
    <3>3. i - x \in 1..y /\ i = x + (i - x)
      BY <3>2
    <3> QED BY <3>1, <3>3
  <2>4. c(k) = c(1) + st[k]
    BY <1>11, <2>2
  <2>5. data[st[k] + j] = ss[k][j] /\ all[c(k) + j] = ss[k][j]
    BY <1>4, <1>6 DEF HoldsAt
  <2>6. c(k) + j = c(1) + i
    BY <1>12, <2>2, <2>3, <2>4
  <2> QED BY <2>3, <2>5, <2>6
<1>14. HoldsAt(all, c(1), data)
  BY <1>7, <1>12, <1>13 DEF HoldsAt
<1> QED BY <1>4, <1>6, <1>12, <1>14 DEF c, all

\* The sizes of files that did not change add up to what is read from them.
LEMMA TotalIsAll ==
    ASSUME NEW files \in Seq(FileType), \A f \in 1..Len(files) : Unchanged(files[f])
    PROVE  Total(files) = Len(Bytes(files))
<1>1. PICK n \in Nat : n = Len(files)
  OBVIOUS
<1>2. PICK h : /\ IsRunning(h, 0, [i \in 1..n |-> files[i].declared], n) /\ Total(files) = h[n]
  BY <1>1, TotalIs
<1>3. h[0] = 0 /\ \A i \in 1..n : h[i] = h[i - 1] + files[i].declared
  BY <1>2 DEF IsRunning
<1> DEFINE T == { k \in 0..n : h[k] = ChunkAt(files, k + 1, 1) }
<1>4. 0 \in T
  BY <1>3, ChunkPlaces
<1>5. ASSUME NEW k \in 1..n, k - 1 \in T PROVE k \in T
  <2>1. h[k - 1] = ChunkAt(files, k, 1)
    <3>1. (k - 1) + 1 = k
      OBVIOUS
    <3> QED BY <1>5, <3>1
  <2>2. ChunkAt(files, k + 1, 1) = ChunkAt(files, k, 1) + Len(Contents(files[k]))
    BY <1>1, FilePlaces
  <2>3. files[k].declared = Len(Contents(files[k]))
    BY <1>1 DEF Unchanged
  <2>4. h[k] = ChunkAt(files, k + 1, 1)
    BY <1>3, <2>1, <2>2, <2>3
  <2> QED BY <2>4
<1>6. h[n] = ChunkAt(files, n + 1, 1)
  <2> HIDE DEF T
  <2>1. \A k \in 1..n : k - 1 \in T => k \in T
    BY <1>5
  <2>2. 0..n \subseteq T
    BY <1>4, <2>1, Upwards
  <2> QED BY <2>2 DEF T
<1> QED BY <1>1, <1>2, <1>6, ChunkPlaces

-----------------------------------------------------------------------------
(* What a stream's pages describe.                                         *)

\* t is the sequence s with e behind it.
IsAppend(t, S, s, e) ==
    /\ t = Append(s, e) /\ t \in Seq(S) /\ Len(t) = Len(s) + 1 /\ t # <<>>
    /\ t[Len(s) + 1] = e /\ Len(s) + 1 \in DOMAIN t
    /\ \A k \in 1..Len(s) : k \in DOMAIN t /\ t[k] = s[k]

\* There is the sequence with one more element.
LEMMA Appended ==
    ASSUME NEW S, NEW s \in Seq(S), NEW e \in S
    PROVE  \E t : IsAppend(t, S, s, e)
<1> DEFINE t == Append(s, e)
<1>1. /\ t \in Seq(S) /\ Len(t) = Len(s) + 1 /\ t[Len(s) + 1] = e /\ Len(s) + 1 \in DOMAIN t
      /\ t # <<>> /\ \A k \in 1..Len(s) : k \in DOMAIN t /\ t[k] = s[k]
  OBVIOUS
<1> HIDE DEF t
<1>2. t = Append(s, e)
  BY DEF t
<1>3. IsAppend(t, S, s, e)
  BY <1>1, <1>2 DEF IsAppend
<1> QED BY <1>3

\* Where block k of blocks starts when the first one does at from.
At(from, blocks, k) == BlockStart(PageEntry(0, 0, from), blocks, k)

\* Only where a page starts matters to where its blocks do.
LEMMA AtIs ==
    ASSUME NEW blocks \in Seq(BlockInfo), NEW entry, entry.start_logical \in Nat,
           NEW i \in 1..(Len(blocks) + 1)
    PROVE  BlockStart(entry, blocks, i) = At(entry.start_logical, blocks, i)
<1> DEFINE d == [k \in 1..(i - 1) |-> blocks[k].logical_len]
           z == PageEntry(0, 0, entry.start_logical)
<1>1. z.start_logical = entry.start_logical
  BY DEF PageEntry
<1>2. PICK h : IsRunning(h, entry.start_logical, d, i - 1) /\ BlockStart(entry, blocks, i) = h[i - 1]
  BY BlockStartIs
<1> HIDE DEF z
<1>3. PICK k : IsRunning(k, entry.start_logical, d, i - 1) /\ BlockStart(z, blocks, i) = k[i - 1]
  <2>1. \E k : IsRunning(k, z.start_logical, d, i - 1) /\ BlockStart(z, blocks, i) = k[i - 1]
    <3>1. z.start_logical \in Nat
      BY <1>1
    <3> QED BY <3>1, BlockStartIs
  <2> QED BY <1>1, <2>1
<1>4. IsFirst(d, i - 1, d, i - 1)
  BY DEF IsFirst
<1>5. h[i - 1] = k[i - 1]
  BY <1>2, <1>3, <1>4, RunningAgree
<1> QED BY <1>2, <1>3, <1>5 DEF At, z

\* The blocks of a page follow one another.
LEMMA AtSteps ==
    ASSUME NEW blocks \in Seq(BlockInfo), NEW from \in Nat
    PROVE  /\ At(from, blocks, 1) = from
           /\ \A i \in 1..(Len(blocks) + 1) : At(from, blocks, i) \in Nat
           /\ \A i \in 1..Len(blocks) : At(from, blocks, i + 1) = At(from, blocks, i) + blocks[i].logical_len
<1> DEFINE z == PageEntry(0, 0, from)
<1>1. z.start_logical = from
  BY DEF PageEntry
<1> HIDE DEF z
<1>2. z.start_logical \in Nat
  BY <1>1
<1>3. /\ BlockStart(z, blocks, 1) = z.start_logical
      /\ \A i \in 1..(Len(blocks) + 1) : BlockStart(z, blocks, i) \in Nat
      /\ \A i \in 1..Len(blocks) :
            BlockStart(z, blocks, i + 1) = BlockStart(z, blocks, i) + blocks[i].logical_len
  BY <1>2, BlockStartSteps
<1> QED BY <1>1, <1>3 DEF At, z

\* A block that is added changes the place of none before it.
LEMMA AtAppend ==
    ASSUME NEW blocks \in Seq(BlockInfo), NEW b \in BlockInfo, NEW from,
           NEW i \in 1..(Len(blocks) + 1)
    PROVE  At(from, Append(blocks, b), i) = At(from, blocks, i)
BY BlockStartAppend DEF At

\* Descriptor b, of the block with index idx of an archive whose file is f, stands for
\* chunk: zeros that are not stored, a block of f, or a block of the base, hs being the
\* hashes the base has.
Holds(f, hs, idx, b, chunk) ==
    /\ b.logical_len = Len(chunk)
    /\ \/ b.offset = 0 /\ b.length = 0 /\ chunk = Zeros(Len(chunk))
       \/ /\ b.offset \in Nat /\ b.length = 1 /\ b.hash \in {NoHash, chunk}
          /\ b.offset + 1 \in DOMAIN f /\ f[b.offset + 1].kind = "block"
          /\ f[b.offset + 1].data = chunk /\ f[b.offset + 1].nonce \in {PlainNonce, idx}
       \/ b.offset = BLOCK_OFFSET_PARENT /\ b.length = 0 /\ b.hash = chunk /\ chunk \in hs

\* It stands for what the stream holds at its place.
HoldsThere(f, hs, idx, b, place, packed) ==
    \E chunk \in Seq(Byte) : Holds(f, hs, idx, b, chunk) /\ HoldsAt(packed, place, chunk)

\* The blocks from index first on stand for what the stream holds from one place to another.
BlocksHold(f, hs, blocks, first, from, to, packed) ==
    /\ \A k \in 1..Len(blocks) :
          HoldsThere(f, hs, (first + k) - 1, blocks[k], At(from, blocks, k), packed)
    /\ At(from, blocks, Len(blocks) + 1) = to

\* Pages that follow one another from the start of the stream.
PageEnd(pages, k, to) == IF k = Len(pages) THEN to ELSE pages[k + 1].start_logical
\* A page stands for the bytes from where its entry says to the given place.
PageHolds(f, hs, entry, to, packed) ==
    /\ entry.offset + 1 \in DOMAIN f
    /\ BlocksHold(f, hs, f[entry.offset + 1].blocks, entry.start_block, entry.start_logical, to, packed)
\* The pages stand for all bytes of a stream, from 0 to the given place.
PagesHold(f, hs, pages, to, packed) ==
    /\ IF pages = <<>> THEN to = 0 ELSE pages[1].start_logical = 0
    /\ \A k \in 1..Len(pages) : PageHolds(f, hs, pages[k], PageEnd(pages, k, to), packed)

\* A stream under construction: its pages, the pending page, the block index and the
\* position after it.
Building(f, hs, pages, p, first, from, idx, pos, packed) ==
    /\ PagesHold(f, hs, pages, from, packed)
    /\ BlocksHold(f, hs, p, first, from, pos, packed)
    /\ idx = first + Len(p)

\* File g begins with file f.
Begins(f, g) == \A i \in DOMAIN f : i \in DOMAIN g /\ g[i] = f[i]

\* A file with one more object begins with the file it was.
LEMMA AppendBegins ==
    ASSUME NEW f \in Seq(Object), NEW o \in Object
    PROVE  Begins(f, Append(f, o)) /\ Append(f, o) \in Seq(Object)
<1>1. PICK g : IsAppend(g, Object, f, o)
  BY Appended
<1> QED BY <1>1 DEF IsAppend, Begins

\* What descriptors stand for stays when the file grows.
LEMMA HoldsGrows ==
    ASSUME NEW f, NEW g, Begins(f, g), NEW hs, NEW idx, NEW b, NEW chunk,
           Holds(f, hs, idx, b, chunk)
    PROVE  Holds(g, hs, idx, b, chunk)
BY DEF Holds, Begins

\* So it is with the blocks of a page.
LEMMA BlocksHoldGrows ==
    ASSUME NEW f, NEW g, Begins(f, g), NEW hs, NEW blocks, NEW first, NEW from,
           NEW to, NEW packed, BlocksHold(f, hs, blocks, first, from, to, packed)
    PROVE  BlocksHold(g, hs, blocks, first, from, to, packed)
BY HoldsGrows DEF BlocksHold, HoldsThere

\* So it is with pages.
LEMMA PagesHoldGrows ==
    ASSUME NEW f, NEW g, Begins(f, g), NEW hs, NEW pages, NEW to, NEW packed,
           PagesHold(f, hs, pages, to, packed)
    PROVE  PagesHold(g, hs, pages, to, packed)
<1>3. ASSUME NEW k \in 1..Len(pages)
      PROVE  PageHolds(g, hs, pages[k], PageEnd(pages, k, to), packed)
  <2>1. PageHolds(f, hs, pages[k], PageEnd(pages, k, to), packed)
    BY DEF PagesHold
  <2>2. \A blocks, first, from, end : BlocksHold(f, hs, blocks, first, from, end, packed)
                                        => BlocksHold(g, hs, blocks, first, from, end, packed)
    BY BlocksHoldGrows
  <2> QED BY <2>1, <2>2 DEF PageHolds, Begins
<1> QED BY <1>3 DEF PagesHold

\* A stream under construction is not disturbed by objects that are written.
LEMMA BuildingGrows ==
    ASSUME NEW f, NEW g, Begins(f, g), NEW hs, NEW pages, NEW p, NEW first, NEW from,
           NEW idx, NEW pos, NEW packed, Building(f, hs, pages, p, first, from, idx, pos, packed)
    PROVE  Building(g, hs, pages, p, first, from, idx, pos, packed)
BY BlocksHoldGrows, PagesHoldGrows DEF Building

\* A block is described.
LEMMA BuildingTakes ==
    ASSUME NEW f, NEW hs, NEW pages, NEW p \in Seq(BlockInfo), NEW first \in Nat, NEW from \in Nat,
           NEW idx, NEW pos, NEW packed, NEW b \in BlockInfo, NEW chunk \in Seq(Byte),
           Building(f, hs, pages, p, first, from, idx, pos, packed),
           Holds(f, hs, idx, b, chunk), HoldsAt(packed, pos, chunk)
    PROVE  Building(f, hs, pages, Append(p, b), first, from, idx + 1, pos + b.logical_len, packed)
<1>2. PICK n \in Nat : n = Len(p)
  OBVIOUS
<1>0. PICK q : IsAppend(q, BlockInfo, p, b)
  BY Appended
<1>1. q = Append(p, b) /\ q \in Seq(BlockInfo)
  BY <1>0 DEF IsAppend
<1>3. Len(q) = n + 1 /\ q[n + 1] = b /\ \A k \in 1..n : q[k] = p[k]
  BY <1>0, <1>2 DEF IsAppend
<1>4. \A k \in 1..(n + 1) : At(from, q, k) = At(from, p, k)
  BY <1>1, <1>2, AtAppend
<1>5. At(from, p, n + 1) = pos /\ idx = first + n
  BY <1>2 DEF Building, BlocksHold
<1>6. At(from, q, (n + 1) + 1) = pos + b.logical_len
  <2>1. n + 1 \in 1..Len(q) /\ n + 1 \in 1..(n + 1)
    BY <1>3
  <2>2. At(from, q, (n + 1) + 1) = At(from, q, n + 1) + q[n + 1].logical_len
    BY <1>1, <2>1, AtSteps
  <2> QED BY <1>3, <1>4, <1>5, <2>1, <2>2
<1>7. ASSUME NEW k \in 1..(n + 1)
      PROVE  HoldsThere(f, hs, (first + k) - 1, q[k], At(from, q, k), packed)
  <2>1. CASE k \in 1..n
    <3>1. HoldsThere(f, hs, (first + k) - 1, p[k], At(from, p, k), packed)
      BY <1>2, <2>1 DEF Building, BlocksHold
    <3> QED BY <1>3, <1>4, <2>1, <3>1
  <2>2. CASE k = n + 1
    <3>1. (first + k) - 1 = idx /\ q[k] = b /\ At(from, q, k) = pos
      BY <1>3, <1>4, <1>5, <2>2
    <3> QED BY <3>1 DEF HoldsThere
  <2> QED BY <2>1, <2>2
<1>8. BlocksHold(f, hs, q, first, from, pos + b.logical_len, packed)
  BY <1>3, <1>6, <1>7 DEF BlocksHold
<1>9. idx + 1 = first + Len(q)
  BY <1>3, <1>5
<1> QED BY <1>1, <1>8, <1>9 DEF Building

\* The pending page is written.
LEMMA BuildingFlushes ==
    ASSUME NEW f \in Seq(Object), NEW hs, NEW pages \in PageEntries, NEW p \in Seq(BlockInfo),
           NEW first \in Nat, NEW from \in Nat, NEW idx, NEW pos \in Nat, NEW packed,
           Building(f, hs, pages, p, first, from, idx, pos, packed)
    PROVE  /\ PagesHold(Append(f, PageObject(p)), hs,
                        Append(pages, PageEntry(Len(f), first, from)), pos, packed)
           /\ Building(Append(f, PageObject(p)), hs,
                       Append(pages, PageEntry(Len(f), first, from)), <<>>, idx, pos, idx, pos, packed)
<1>1. PICK o \in Object : o = PageObject(p) /\ o.blocks = p
  BY ObjectsAre DEF PageObject
<1>g. PICK g : IsAppend(g, Object, f, o)
  BY Appended
<1>2. g = Append(f, o) /\ g \in Seq(Object) /\ g[Len(f) + 1] = o /\ Len(f) + 1 \in DOMAIN g
  BY <1>g DEF IsAppend
<1>3. PICK e \in Entry : /\ e = PageEntry(Len(f), first, from)
                         /\ e.offset = Len(f) /\ e.start_block = first /\ e.start_logical = from
  <2>1. Len(f) \in Nat
    OBVIOUS
  <2>2. PageEntry(Len(f), first, from) \in Entry
    BY <2>1 DEF PageEntry, Entry
  <2>3. /\ PageEntry(Len(f), first, from).offset = Len(f)
        /\ PageEntry(Len(f), first, from).start_block = first
        /\ PageEntry(Len(f), first, from).start_logical = from
    BY DEF PageEntry
  <2> QED BY <2>2, <2>3
<1>4. pages \in Seq(Entry)
  BY DEF PageEntries, Entry
<1>5. PICK n \in Nat : n = Len(pages)
  BY <1>4
<1>s. PICK s : IsAppend(s, Entry, pages, e)
  BY <1>4, Appended
<1>6. /\ s = Append(pages, e) /\ s \in Seq(Entry) /\ Len(s) = n + 1 /\ s[n + 1] = e /\ s # <<>>
      /\ \A k \in 1..n : s[k] = pages[k]
  BY <1>s, <1>5 DEF IsAppend
<1>7. PagesHold(g, hs, pages, from, packed) /\ BlocksHold(g, hs, p, first, from, pos, packed)
  BY <1>1, <1>2, AppendBegins, BuildingGrows DEF Building
<1>8. PageHolds(g, hs, e, pos, packed)
  BY <1>1, <1>2, <1>3, <1>7 DEF PageHolds
<1>9. ASSUME NEW k \in 1..(n + 1)
      PROVE  PageHolds(g, hs, s[k], PageEnd(s, k, pos), packed)
  <2>1. CASE k = n + 1
    <3>1. PageEnd(s, k, pos) = pos
      BY <1>6, <2>1 DEF PageEnd
    <3> QED BY <1>6, <1>8, <2>1, <3>1
  <2>2. CASE k \in 1..n
    <3>1. PageHolds(g, hs, pages[k], PageEnd(pages, k, from), packed)
      BY <1>5, <1>7, <2>2 DEF PagesHold
    <3>2. PageEnd(s, k, pos) = s[k + 1].start_logical
      BY <1>6, <2>2 DEF PageEnd
    <3>3. PageEnd(pages, k, from) = s[k + 1].start_logical
      <4>1. CASE k = n
        BY <1>3, <1>5, <1>6, <4>1 DEF PageEnd
      <4>2. CASE k # n
        <5>1. k + 1 \in 1..n
          BY <2>2, <4>2
        <5> QED BY <1>5, <1>6, <4>2, <5>1 DEF PageEnd
      <4> QED BY <4>1, <4>2
    <3> QED BY <1>6, <2>2, <3>1, <3>2, <3>3
  <2> QED BY <2>1, <2>2
<1>10. s # <<>> /\ s[1].start_logical = 0
  <2>1. CASE n = 0
    <3>1. pages = <<>>
      <4>1. \A q \in Seq(Entry) : Len(q) = 0 => q = <<>>
        OBVIOUS
      <4> QED BY <1>4, <1>5, <2>1, <4>1
    <3>2. from = 0
      BY <1>7, <3>1 DEF PagesHold
    <3>3. s[1] = e
      BY <1>6, <2>1
    <3> QED BY <1>3, <1>6, <3>2, <3>3
  <2>2. CASE n # 0
    <3>1. pages # <<>> /\ 1 \in 1..n
      BY <1>5, <2>2
    <3>2. pages[1].start_logical = 0
      BY <1>7, <3>1 DEF PagesHold
    <3> QED BY <1>6, <3>1, <3>2
  <2> QED BY <2>1, <2>2
<1>11. PagesHold(g, hs, s, pos, packed)
  BY <1>6, <1>9, <1>10 DEF PagesHold
<1>12. BlocksHold(g, hs, <<>>, idx, pos, pos, packed)
  <2>1. PICK none \in Seq(BlockInfo) : none = <<>> /\ Len(none) = 0
    <3>1. <<>> \in Seq(BlockInfo)
      OBVIOUS
    <3> QED BY <3>1, EmptySequence
  <2>2. At(pos, none, 1) = pos
    BY <2>1, AtSteps
  <2>3. BlocksHold(g, hs, none, idx, pos, pos, packed)
    BY <2>1, <2>2 DEF BlocksHold
  <2> QED BY <2>1, <2>3
<1>13. idx = idx + Len(<<>>)
  BY EmptySequence, <1>5 DEF Building
<1> QED BY <1>1, <1>2, <1>3, <1>6, <1>11, <1>12, <1>13 DEF Building

-----------------------------------------------------------------------------
(* The methods, and what the current stream holds.                         *)

\* The pages of the stream that is written, and those of the other one.
CurPages == IF isMain THEN mainPages ELSE auxPages
OtherPages == IF isMain THEN auxPages ELSE mainPages

\* The current stream holds the bytes packed up to the position.
Cur(packed) ==
    Building(file, parentHashes, CurPages, page, pageStartBlock, pageStartLogical, globalIdx,
             logicalPos, packed)

\* The dedup map points at blocks that are not encrypted.
DedupHolds(f, d) ==
    \A h \in DOMAIN d : /\ h \in Seq(Byte) /\ d[h] \in Nat /\ d[h] + 1 \in DOMAIN f
                        /\ f[d[h] + 1].kind = "block" /\ f[d[h] + 1].data = h
                        /\ f[d[h] + 1].nonce = PlainNonce

\* What a step that writes leaves alone.
Elsewhere ==
    /\ OtherPages' = OtherPages /\ isMain' = isMain /\ parentHashes' = parentHashes
    /\ mainSize' = mainSize /\ auxSize' = auxSize /\ encrypt' = encrypt
    /\ isMain => auxPages' = auxPages
    /\ ~ isMain => mainPages' = mainPages

\* The current stream holds the bytes packed, after a step.
Then(packed) ==
    Building(file', parentHashes', CurPages', page', pageStartBlock', pageStartLogical', globalIdx',
             logicalPos', packed)

\* The fields the proofs below use have their types.
LEMMA CurTyped ==
    ASSUME WriterInv
    PROVE  /\ file \in Seq(Object) /\ page \in Seq(BlockInfo) /\ CurPages \in PageEntries
           /\ pageStartBlock \in Nat /\ pageStartLogical \in Nat /\ logicalPos \in Nat /\ globalIdx \in Nat
           /\ isMain \in BOOLEAN /\ Len(file) \in Nat
BY DEF WriterInv, WriterTypes, CurPages

\* The pending page is written.
LEMMA FlushPageHolds ==
    ASSUME WriterInv, NEW f \in Seq(Object), NEW p \in Seq(BlockInfo), NEW idx, NEW pos \in Nat, NEW packed,
           Building(f, parentHashes, CurPages, p, pageStartBlock, pageStartLogical, idx, pos, packed),
           FlushPage(f, p, idx, pos), isMain' = isMain
    PROVE  /\ PagesHold(file', parentHashes, CurPages', pos, packed)
           /\ Building(file', parentHashes, CurPages', page', pageStartBlock', pageStartLogical', idx, pos, packed)
           /\ Begins(f, file') /\ OtherPages' = OtherPages
           /\ isMain => auxPages' = auxPages
           /\ ~ isMain => mainPages' = mainPages
<1>1. /\ file' = Append(f, PageObject(p)) /\ page' = <<>> /\ pageStartBlock' = idx
      /\ pageStartLogical' = pos
  BY DEF FlushPage
<1>2. CurPages' = Append(CurPages, PageEntry(Len(f), pageStartBlock, pageStartLogical))
  BY DEF FlushPage, CurPages
<1>3. /\ OtherPages' = OtherPages
      /\ isMain => auxPages' = auxPages
      /\ ~ isMain => mainPages' = mainPages
  BY DEF FlushPage, OtherPages
<1>4. Begins(f, file')
  BY <1>1, ObjectsAre, AppendBegins
<1>5. /\ CurPages \in PageEntries /\ pageStartBlock \in Nat /\ pageStartLogical \in Nat
  BY CurTyped
<1>6. PICK pages, first, from, f2, s2 :
        /\ pages = CurPages /\ first = pageStartBlock /\ from = pageStartLogical
        /\ f2 = file' /\ s2 = CurPages'
  OBVIOUS
<1>7. PICK hs : hs = parentHashes
  OBVIOUS
<1>8. PagesHold(f2, hs, s2, pos, packed) /\ Building(f2, hs, s2, <<>>, idx, pos, idx, pos, packed)
  BY <1>1, <1>2, <1>5, <1>6, <1>7, BuildingFlushes
<1> QED BY <1>1, <1>3, <1>4, <1>6, <1>7, <1>8

\* A block is described.
LEMMA PushBlockHolds ==
    ASSUME WriterInv, NEW packed, Cur(packed), NEW f \in Seq(Object), Begins(file, f),
           NEW b \in BlockInfo, NEW chunk \in Seq(Byte),
           Holds(f, parentHashes, globalIdx, b, chunk), HoldsAt(packed, logicalPos, chunk),
           PushBlock(f, b)
    PROVE  /\ Then(packed) /\ Elsewhere /\ Begins(f, file')
           /\ logicalPos' = logicalPos + Len(chunk)
<1>0. /\ page \in Seq(BlockInfo) /\ pageStartBlock \in Nat /\ pageStartLogical \in Nat
      /\ logicalPos \in Nat /\ globalIdx \in Nat
  BY CurTyped
<1>1. /\ globalIdx' = globalIdx + 1 /\ logicalPos' = logicalPos + b.logical_len
      /\ UNCHANGED <<mainSize, auxSize, parentHashes, encrypt, isMain>>
  BY DEF PushBlock, configVars
<1>2. b.logical_len = Len(chunk) /\ Len(chunk) \in Nat
  BY DEF Holds
<1>3. Building(f, parentHashes, CurPages, page, pageStartBlock, pageStartLogical, globalIdx, logicalPos, packed)
  BY BuildingGrows DEF Cur
<1>4. Building(f, parentHashes, CurPages, Append(page, b), pageStartBlock, pageStartLogical,
               globalIdx', logicalPos', packed)
  BY <1>0, <1>1, <1>3, BuildingTakes
<1>5. Append(page, b) \in Seq(BlockInfo) /\ logicalPos' \in Nat
  BY <1>0, <1>1, <1>2
<1>6. CASE FlushPage(f, Append(page, b), globalIdx', logicalPos')
  <2>1. /\ Building(file', parentHashes, CurPages', page', pageStartBlock', pageStartLogical',
                    globalIdx', logicalPos', packed)
        /\ Begins(f, file') /\ OtherPages' = OtherPages
        /\ isMain => auxPages' = auxPages
        /\ ~ isMain => mainPages' = mainPages
    BY <1>1, <1>4, <1>5, <1>6, FlushPageHolds
  <2> QED BY <1>1, <1>2, <2>1 DEF Then, Elsewhere
<1>7. CASE file' = f /\ page' = Append(page, b)
           /\ UNCHANGED <<mainPages, auxPages, pageStartBlock, pageStartLogical>>
  <2>1. CurPages' = CurPages /\ OtherPages' = OtherPages
    BY <1>1, <1>7 DEF CurPages, OtherPages
  <2>2. Begins(f, file')
    BY <1>7 DEF Begins
  <2> QED BY <1>1, <1>2, <1>4, <1>7, <2>1, <2>2 DEF Then, Elsewhere
<1> QED BY <1>6, <1>7 DEF PushBlock

\* What writing a chunk promises of the current stream.
Written(packed, chunk) ==
    /\ Then(packed) /\ Elsewhere /\ Begins(file, file') /\ DedupHolds(file', dedup')
    /\ logicalPos' = logicalPos + Len(chunk)

\* The dedup map still points at its blocks when the file has grown.
LEMMA DedupGrows ==
    ASSUME NEW f, NEW g, Begins(f, g), NEW d, DedupHolds(f, d)
    PROVE  DedupHolds(g, d)
BY DEF DedupHolds, Begins

\* A file that begins with one that begins with a third begins with the third.
LEMMA BeginsTransitive ==
    ASSUME NEW f, NEW g, NEW h, Begins(f, g), Begins(g, h)
    PROVE  Begins(f, h)
BY DEF Begins

\* A block that is not stored.
LEMMA UnstoredHolds ==
    ASSUME WriterInv, NEW packed, Cur(packed), DedupHolds(file, dedup), NEW b \in BlockInfo,
           NEW chunk \in Seq(Byte), Holds(file, parentHashes, globalIdx, b, chunk),
           HoldsAt(packed, logicalPos, chunk), PushBlock(file, b), UNCHANGED dedup
    PROVE  Written(packed, chunk)
<1>1. file \in Seq(Object) /\ Begins(file, file)
  BY CurTyped DEF Begins
<1>2. /\ Then(packed) /\ Elsewhere /\ Begins(file, file')
      /\ logicalPos' = logicalPos + Len(chunk)
  BY <1>1, PushBlockHolds
<1>3. DedupHolds(file', dedup')
  <2>1. dedup' = dedup
    OBVIOUS
  <2> QED BY <1>2, <2>1, DedupGrows
<1> QED BY <1>2, <1>3 DEF Written

\* A block that is stored at the end of the file.
LEMMA NewBlockHolds ==
    ASSUME WriterInv, NEW packed, Cur(packed), DedupHolds(file, dedup),
           NEW chunk \in Seq(Byte), NEW nonce \in {PlainNonce, globalIdx},
           NEW hash \in {NoHash, chunk}, HoldsAt(packed, logicalPos, chunk),
           PushBlock(Append(file, BlockObject(chunk, nonce)), Local(Len(file), Len(chunk), hash)),
           \/ dedup' = dedup
           \/ /\ nonce = PlainNonce
              /\ dedup' = [h \in DOMAIN dedup \cup {chunk} |-> IF h = chunk THEN Len(file) ELSE dedup[h]]
    PROVE  Written(packed, chunk)
<1>1. file \in Seq(Object) /\ Len(file) \in Nat /\ globalIdx \in Nat
  BY CurTyped
<1>2. nonce \in Int
  BY <1>1 DEF PlainNonce
<1>3. PICK o \in Object : /\ o = BlockObject(chunk, nonce) /\ o.kind = "block"
                          /\ o.data = chunk /\ o.nonce = nonce
  BY <1>2, ObjectsAre DEF BlockObject
<1>4. PICK b \in BlockInfo : b = Local(Len(file), Len(chunk), hash)
  BY <1>1, DescriptorsAre
<1>5. PICK f : IsAppend(f, Object, file, o)
  BY <1>1, Appended
<1>6. /\ f = Append(file, o) /\ f \in Seq(Object) /\ Begins(file, f)
      /\ Len(file) + 1 \in DOMAIN f /\ f[Len(file) + 1] = o
  BY <1>1, <1>5 DEF IsAppend, Begins
<1>7. Holds(f, parentHashes, globalIdx, b, chunk)
  BY <1>1, <1>3, <1>4, <1>6 DEF Holds, Local
<1>8. PushBlock(f, b)
  BY <1>3, <1>4, <1>6
<1>9. /\ Then(packed) /\ Elsewhere /\ Begins(f, file')
      /\ logicalPos' = logicalPos + Len(chunk)
  BY <1>6, <1>7, <1>8, PushBlockHolds
<1>10. DedupHolds(f, dedup')
  <2>1. DedupHolds(f, dedup)
    BY <1>6, DedupGrows
  <2>2. CASE dedup' = dedup
    BY <2>1, <2>2
  <2>3. CASE nonce = PlainNonce /\ dedup' = [h \in DOMAIN dedup \cup {chunk} |->
                                               IF h = chunk THEN Len(file) ELSE dedup[h]]
    BY <1>1, <1>3, <1>6, <2>1, <2>3 DEF DedupHolds
  <2> QED BY <2>2, <2>3
<1> QED BY <1>6, <1>9, <1>10, BeginsTransitive, DedupGrows DEF Written

\* A block is stored once.
LEMMA StoreOnceHolds ==
    ASSUME WriterInv, NEW packed, Cur(packed), DedupHolds(file, dedup),
           NEW chunk \in Seq(Byte), HoldsAt(packed, logicalPos, chunk), StoreOnce(chunk)
    PROVE  Written(packed, chunk)
<1>1. CASE Known(chunk)
  <2>1. /\ dedup[chunk] \in Nat /\ dedup[chunk] + 1 \in DOMAIN file
        /\ file[dedup[chunk] + 1].kind = "block" /\ file[dedup[chunk] + 1].data = chunk
        /\ file[dedup[chunk] + 1].nonce = PlainNonce
    BY <1>1 DEF Known, DedupHolds
  <2>2. PICK b \in BlockInfo : b = Local(dedup[chunk], Len(chunk), chunk)
    BY <2>1, DescriptorsAre
  <2>3. Holds(file, parentHashes, globalIdx, b, chunk)
    BY <2>1, <2>2 DEF Holds, Local
  <2> QED BY <1>1, <2>2, <2>3, UnstoredHolds DEF StoreOnce
<1>2. CASE ~ Known(chunk)
  BY <1>2, NewBlockHolds DEF StoreOnce, current_offset
<1> QED BY <1>1, <1>2

\* A reference to the base.
LEMMA ParentRefHolds ==
    ASSUME WriterInv, NEW packed, Cur(packed), DedupHolds(file, dedup),
           NEW chunk \in Seq(Byte), HoldsAt(packed, logicalPos, chunk),
           chunk \in parentHashes, WriteParentRef(chunk)
    PROVE  Written(packed, chunk)
<1>1. PICK b \in BlockInfo : b = ParentRef(chunk, Len(chunk))
  BY DescriptorsAre
<1>2. Holds(file, parentHashes, globalIdx, b, chunk)
  BY <1>1 DEF Holds, ParentRef
<1> QED BY <1>1, <1>2, UnstoredHolds DEF WriteParentRef

\* Zeros.
LEMMA SparseHolds ==
    ASSUME WriterInv, NEW packed, Cur(packed), DedupHolds(file, dedup),
           NEW chunk \in Seq(Byte), HoldsAt(packed, logicalPos, chunk),
           is_zero_chunk(chunk), PushBlock(file, Sparse(Len(chunk))), UNCHANGED dedup
    PROVE  Written(packed, chunk)
<1>1. PICK b \in BlockInfo : b = Sparse(Len(chunk))
  BY DescriptorsAre
<1>2. chunk = Zeros(Len(chunk))
  BY DEF is_zero_chunk, Zeros
<1>3. Holds(file, parentHashes, globalIdx, b, chunk)
  BY <1>1, <1>2 DEF Holds, Sparse
<1> QED BY <1>1, <1>3, UnstoredHolds

\* The two paths of a block: the stream holds what is packed, up to the new position.
LEMMA WriteBlockHolds ==
    ASSUME WriterInv, NEW packed, Cur(packed), DedupHolds(file, dedup),
           NEW chunk \in Seq(Byte), HoldsAt(packed, logicalPos, chunk),
           WriteDataBlock(chunk) \/ WritePrecompressedBlock(chunk)
    PROVE  Written(packed, chunk)
<1>1. CASE is_zero_chunk(chunk) /\ PushBlock(file, Sparse(Len(chunk))) /\ UNCHANGED dedup
  BY <1>1, SparseHolds
<1>2. CASE chunk \in parentHashes /\ WriteParentRef(chunk)
  BY <1>2, ParentRefHolds
<1>3. CASE StoreEncrypted(chunk)
  <2>1. /\ PushBlock(Append(file, BlockObject(chunk, globalIdx)), Local(Len(file), Len(chunk), NoHash))
        /\ dedup' = dedup
    BY <1>3 DEF StoreEncrypted, current_offset
  <2> QED BY <2>1, NewBlockHolds
<1>4. CASE StoreOnce(chunk)
  BY <1>4, StoreOnceHolds
<1> QED BY <1>1, <1>2, <1>3, <1>4 DEF WriteDataBlock, WritePrecompressedBlock

\* A page that is empty starts where it ends.
LEMMA EmptyPage ==
    ASSUME WriterInv, NEW packed, Cur(packed), page = <<>>
    PROVE  pageStartLogical = logicalPos
<1>1. /\ pageStartLogical \in Nat /\ page \in Seq(BlockInfo)
  BY CurTyped
<1>2. Len(page) = 0
  BY EmptySequence
<1>3. At(pageStartLogical, page, Len(page) + 1) = logicalPos
  BY DEF Cur, Building, BlocksHold
<1>4. At(pageStartLogical, page, 1) = pageStartLogical
  BY <1>1, AtSteps
<1> QED BY <1>2, <1>3, <1>4

\* The pending page, if there is one, is written: the pages hold all of the stream.
LEMMA FlushPendingHolds ==
    ASSUME WriterInv, NEW packed, Cur(packed), DedupHolds(file, dedup), FlushPending,
           UNCHANGED <<mainSize, auxSize, globalIdx, dedup, configVars, logicalPos, isMain>>
    PROVE  /\ Then(packed) /\ Elsewhere /\ Begins(file, file') /\ DedupHolds(file', dedup')
           /\ PagesHold(file', parentHashes, CurPages', logicalPos, packed)
<1>1. /\ file \in Seq(Object) /\ page \in Seq(BlockInfo) /\ logicalPos \in Nat
  BY CurTyped
<1>2. UNCHANGED <<mainSize, auxSize, parentHashes, encrypt>>
  BY DEF configVars
<1>3. CASE FlushPage(file, page, globalIdx, logicalPos)
  <2>1. Building(file, parentHashes, CurPages, page, pageStartBlock, pageStartLogical, globalIdx, logicalPos, packed)
    BY DEF Cur
  <2>2. /\ PagesHold(file', parentHashes, CurPages', logicalPos, packed)
        /\ Building(file', parentHashes, CurPages', page', pageStartBlock', pageStartLogical',
                    globalIdx, logicalPos, packed)
        /\ Begins(file, file') /\ OtherPages' = OtherPages
        /\ isMain => auxPages' = auxPages
        /\ ~ isMain => mainPages' = mainPages
    BY <1>1, <1>3, <2>1, FlushPageHolds
  <2>3. DedupHolds(file', dedup')
    BY <2>2, DedupGrows
  <2> QED BY <1>2, <2>2, <2>3 DEF Then, Elsewhere
<1>4. CASE page = <<>> /\ UNCHANGED <<file, mainPages, auxPages, page, pageStartBlock, pageStartLogical>>
  <2>1. CurPages' = CurPages /\ OtherPages' = OtherPages
    BY <1>4 DEF CurPages, OtherPages
  <2>2. Begins(file, file')
    BY <1>4 DEF Begins
  <2>3. Then(packed)
    BY <1>2, <1>4, <2>1 DEF Cur, Then
  <2>4. DedupHolds(file', dedup')
    BY <2>2, DedupGrows
  <2>5. PagesHold(file', parentHashes, CurPages', logicalPos, packed)
    <3>1. pageStartLogical = logicalPos
      BY <1>4, EmptyPage
    <3>2. PagesHold(file, parentHashes, CurPages, pageStartLogical, packed)
      BY DEF Cur, Building
    <3> QED BY <1>4, <2>1, <3>1, <3>2
  <2> QED BY <1>2, <1>4, <2>1, <2>2, <2>3, <2>4, <2>5 DEF Elsewhere
<1> QED BY <1>3, <1>4 DEF FlushPending

\* A file of a directory ends: the stream holds what it held.
LEMMA FlushStreamHolds ==
    ASSUME WriterInv, NEW packed, Cur(packed), DedupHolds(file, dedup), FlushStream
    PROVE  /\ Then(packed) /\ Elsewhere /\ Begins(file, file') /\ DedupHolds(file', dedup')
           /\ logicalPos' = logicalPos
<1>1. UNCHANGED <<mainSize, auxSize, globalIdx, dedup, configVars, logicalPos, isMain>>
  BY DEF FlushStream
<1>2. CASE FlushPending
  BY <1>1, <1>2, FlushPendingHolds
<1>3. CASE UNCHANGED <<file, mainPages, auxPages, page, pageStartBlock, pageStartLogical>>
  <2>1. CurPages' = CurPages /\ OtherPages' = OtherPages
    BY <1>1, <1>3 DEF CurPages, OtherPages
  <2>2. Begins(file, file') /\ DedupHolds(file', dedup')
    BY <1>1, <1>3 DEF Begins, DedupHolds
  <2> QED BY <1>1, <1>3, <2>1, <2>2 DEF Cur, Then, Elsewhere, configVars
<1> QED BY <1>2, <1>3 DEF FlushStream

\* A stream begins: it holds nothing yet.
LEMMA BeginStreamHolds ==
    ASSUME WriterInv, NEW packed, NEW is_main \in BOOLEAN, NEW total, BeginStream(is_main, total),
           DedupHolds(file, dedup),
           is_main => mainPages = <<>> /\ mainSize = 0,
           ~ is_main => auxPages = <<>> /\ auxSize = 0
    PROVE  /\ Then(packed) /\ DedupHolds(file', dedup') /\ logicalPos' = 0
           /\ file' = file /\ mainPages' = mainPages /\ auxPages' = auxPages
           /\ parentHashes' = parentHashes /\ encrypt' = encrypt /\ isMain' = is_main
<1>1. /\ UNCHANGED <<file, mainPages, auxPages, globalIdx, parentHashes, encrypt>>
      /\ isMain' = is_main /\ page' = <<>> /\ pageStartBlock' = globalIdx
      /\ dedup' = <<>> \/ dedup' = dedup
  BY DEF BeginStream, configVars
<1>2. pageStartLogical' = 0 /\ logicalPos' = 0
  BY DEF BeginStream
<1>3. DedupHolds(file', dedup')
  <2>1. DedupHolds(file, <<>>)
    BY EmptySequence DEF DedupHolds
  <2> QED BY <1>1, <2>1
<1>4. CurPages' = <<>>
  BY <1>1 DEF CurPages
<1>5. PICK none \in Seq(BlockInfo) : none = <<>> /\ Len(none) = 0
  <2>1. <<>> \in Seq(BlockInfo)
    OBVIOUS
  <2> QED BY <2>1, EmptySequence
<1>6. At(0, none, 1) = 0
  BY <1>5, AtSteps
<1>7. \A f, hs, first : BlocksHold(f, hs, none, first, 0, 0, packed)
  BY <1>5, <1>6 DEF BlocksHold
<1>8. \A f, hs : PagesHold(f, hs, <<>>, 0, packed)
  BY EmptySequence DEF PagesHold
<1>9. globalIdx \in Nat
  BY CurTyped
<1>10. globalIdx' = pageStartBlock' + Len(page')
  BY <1>1, <1>9, EmptySequence
<1>11. Then(packed)
  BY <1>1, <1>2, <1>4, <1>5, <1>7, <1>8, <1>10 DEF Then, Building
<1> QED BY <1>1, <1>2, <1>3, <1>11

-----------------------------------------------------------------------------
(* Packing, and what the archive holds.                                    *)

\* The entries of a manifest for Main files are where the files are.
EntriesAt(m, files) ==
    \A k \in DOMAIN m : m[k].stream = "main" =>
        /\ m[k].file \in 1..Len(files) /\ m[k].size = files[m[k].file].declared
        /\ m[k].offset = ChunkAt(files, m[k].file, 1)

\* What is packed of the current stream, it holds.
StreamAt ==
    phase \in {"main", "aux"} =>
        /\ isMain <=> phase = "main"
        /\ Cur(Bytes(Files)) /\ logicalPos = ChunkAt(Files, fileNo, chunkNo)

\* The Main stream is whole once it has ended, and the Auxiliary one once it has.
WholeAt ==
    /\ phase = "begin" => mainPages = <<>> /\ mainSize = 0
    /\ phase \in {"begin", "main", "between"} => auxPages = <<>> /\ auxSize = 0
    /\ phase \in {"between", "aux", "finalize"} =>
          PagesHold(file, parentHashes, mainPages, Len(Bytes(job.input.main)), Bytes(job.input.main))
    /\ phase = "finalize" =>
          PagesHold(file, parentHashes, auxPages, Len(Bytes(job.input.aux)), Bytes(job.input.aux))

\* The size of the Main stream: the files', or the tar file's.
SizeOf(j) == IF j.tar THEN TarSize(j.input.main) ELSE Total(j.input.main)
\* The sizes the writer was told.
SizesAt ==
    /\ phase \in {"main", "between", "aux", "finalize"} => mainSize = SizeOf(job)
    /\ phase \in {"aux", "finalize"} => auxSize = Total(job.input.aux)

\* The manifest, and where the next entry is.
ManifestAt ==
    /\ EntriesAt(manifest, job.input.main)
    /\ phase \in {"begin", "main"} /\ job.input.dir
          => entryOffset = ChunkAt(job.input.main, fileNo, 1)

\* The hashes of the base are those of the base of the job, and only a tar file is converted.
JobAt ==
    /\ phase # "idle" => parentHashes = ParentIndex(job.base)
    /\ job.tar => IsTar(job.input)

\* What the writer and the driver have done so far of the job at hand.
PackInv == StreamAt /\ WholeAt /\ SizesAt /\ ManifestAt /\ JobAt /\ DedupHolds(file, dedup)

\* An archive holds what was packed, hs being the hashes of its base.
ArchiveHolds(a, hs) ==
    /\ PagesHold(a.file, hs, a.main, Len(Bytes(a.input.main)), Bytes(a.input.main))
    /\ PagesHold(a.file, hs, a.aux, Len(Bytes(a.input.aux)), Bytes(a.input.aux))
    /\ \/ a.mainSize = Total(a.input.main)
       \/ IsTar(a.input) /\ a.mainSize = TarSize(a.input.main)
    /\ a.auxSize = Total(a.input.aux)
    /\ EntriesAt(a.manifest, a.input.main)

\* Every archive that is finished holds what was packed, on a base that was there before it.
ArchivesHold ==
    \A i \in DOMAIN archives :
        archives[i].base \in 0..(i - 1) /\ ArchiveHolds(archives[i], ParentIndex(archives[i].base))

\* The inductive invariant behind reading back.
ReadInv == TypeInv /\ PackInv /\ ArchivesHold

\* An empty manifest has no entry.
LEMMA NoEntries == \A files : EntriesAt(<<>>, files)
BY EmptySequence DEF EntriesAt

\* A new writer.
LEMMA CreateHolds ==
    ASSUME NEW hs, NEW enc, Create(hs, enc)
    PROVE  /\ mainPages' = <<>> /\ auxPages' = <<>> /\ mainSize' = 0 /\ auxSize' = 0
           /\ DedupHolds(file', dedup') /\ parentHashes' = hs
<1>1. \A f : DedupHolds(f, <<>>)
  BY EmptySequence DEF DedupHolds
<1> QED BY <1>1 DEF Create

\* The index of the same base of the same archives.
LEMMA SameIndex ==
    ASSUME UNCHANGED <<archives, job>>
    PROVE  ParentIndex(job.base)' = ParentIndex(job.base)
BY DEF ParentIndex

\* Nothing is packed.
LEMMA IdleHolds ==
    ASSUME Idle
    PROVE  PackInv'
<1>1. phase' = "idle" /\ job' = NoJob /\ manifest' = <<>>
  BY DEF Idle
<1>2. DedupHolds(file', dedup')
  BY CreateHolds DEF Idle
<1>3. ~ job'.tar
  BY <1>1 DEF NoJob
<1>4. StreamAt' /\ WholeAt' /\ SizesAt'
  BY <1>1 DEF StreamAt, WholeAt, SizesAt
<1>5. ManifestAt' /\ JobAt'
  BY <1>1, <1>3, NoEntries DEF ManifestAt, JobAt
<1> QED BY <1>2, <1>4, <1>5 DEF PackInv

\* Packing starts.
LEMMA StartHolds ==
    ASSUME TypeInv', StartPack \/ StartConvert
    PROVE  PackInv'
<1>1. phase' = "begin" /\ fileNo' = 1 /\ entryOffset' = 0 /\ manifest' = <<>> /\ archives' = archives
  BY DEF StartPack, StartConvert
<1>2. /\ \E enc : Create(ParentIndex(job.base)', enc)
      /\ job'.tar => IsTar(job'.input)
  <2>1. CASE StartPack
    <3>1. PICK base, enc : /\ job'.base = base /\ job'.tar = FALSE /\ Create(ParentIndex(base), enc)
      BY <2>1 DEF StartPack
    <3>2. ParentIndex(job.base)' = ParentIndex(base)
      BY <1>1, <3>1 DEF ParentIndex
    <3> QED BY <3>1, <3>2
  <2>2. CASE StartConvert
    <3>1. PICK input : job' = [NoJob EXCEPT !.input = input, !.tar = TRUE] /\ IsTar(input)
      BY <2>2 DEF StartConvert
    <3>2. job'.base = 0 /\ job'.input = input
      BY <3>1 DEF NoJob
    <3>3. ParentIndex(job.base)' = {}
      BY <3>2 DEF ParentIndex
    <3>4. Create({}, FALSE)
      BY <2>2 DEF StartConvert
    <3> QED BY <3>1, <3>2, <3>3, <3>4
  <2> QED BY <2>1, <2>2
<1>3. /\ mainPages' = <<>> /\ auxPages' = <<>> /\ mainSize' = 0 /\ auxSize' = 0
      /\ DedupHolds(file', dedup') /\ parentHashes' = ParentIndex(job.base)'
  BY <1>2, CreateHolds
<1>4. StreamAt' /\ WholeAt' /\ SizesAt'
  BY <1>1, <1>3 DEF StreamAt, WholeAt, SizesAt
<1>5. JobAt'
  BY <1>2, <1>3 DEF JobAt
<1>6. ManifestAt'
  <2>1. job'.input.main \in Seq(FileType)
    BY DEF TypeInv, JobTyped, JobType, InputType
  <2>2. ChunkAt(job'.input.main, 1, 1) = 0
    BY <2>1, ChunkPlaces
  <2> QED BY <1>1, <2>2, NoEntries DEF ManifestAt
<1> QED BY <1>3, <1>4, <1>5, <1>6 DEF PackInv

\* The Main stream begins.
LEMMA BeginMainHolds ==
    ASSUME TypeInv, PackInv, BeginMain
    PROVE  PackInv'
<1>0. WriterInv /\ job.input.main \in Seq(FileType) /\ fileNo = 1 /\ chunkNo = 1
  BY FilesTyped DEF TypeInv, BeginMain, AtFile
<1>1. /\ phase = "begin" /\ phase' = "main"
      /\ UNCHANGED <<archives, job, fileNo, chunkNo, entryOffset, manifest>>
      /\ BeginStream(TRUE, SizeOf(job))
  BY DEF BeginMain, SizeOf
<1>2. /\ mainPages = <<>> /\ mainSize = 0 /\ auxPages = <<>> /\ auxSize = 0
      /\ DedupHolds(file, dedup)
  BY <1>1 DEF PackInv, WholeAt
<1>3. PICK packed : packed = Bytes(job.input.main)
  OBVIOUS
<1>4. /\ Then(packed) /\ DedupHolds(file', dedup') /\ logicalPos' = 0
      /\ file' = file /\ auxPages' = auxPages
      /\ parentHashes' = parentHashes /\ encrypt' = encrypt /\ isMain' = TRUE
  BY <1>0, <1>1, <1>2, BeginStreamHolds
<1>5. mainSize' = SizeOf(job) /\ auxSize' = 0
  <2>1. SizeOf(job) \in Nat
    BY <1>0, SizesAre DEF SizeOf
  <2> QED BY <1>1, <1>2, <2>1 DEF BeginStream
<1>6. Files' = job.input.main
  BY <1>1 DEF Files
<1>7. StreamAt'
  <2>1. ChunkAt(job.input.main, 1, 1) = 0
    BY <1>0, ChunkPlaces
  <2> QED BY <1>0, <1>1, <1>3, <1>4, <1>6, <2>1 DEF StreamAt, Cur, Then
<1>8. WholeAt' /\ SizesAt'
  BY <1>1, <1>2, <1>4, <1>5 DEF WholeAt, SizesAt
<1>9. ManifestAt' /\ JobAt'
  BY <1>1, <1>4, SameIndex DEF PackInv, ManifestAt, JobAt
<1> QED BY <1>4, <1>7, <1>8, <1>9 DEF PackInv

\* The Auxiliary stream begins.
LEMMA BeginAuxHolds ==
    ASSUME TypeInv, PackInv, BeginAux
    PROVE  PackInv'
<1>0. WriterInv /\ job.input.aux \in Seq(FileType)
  BY FilesTyped DEF TypeInv
<1>1. /\ phase = "between" /\ phase' = "aux" /\ fileNo' = 1 /\ chunkNo' = 1
      /\ UNCHANGED <<archives, job, entryOffset, manifest>>
      /\ BeginStream(FALSE, Total(job.input.aux))
  BY DEF BeginAux
<1>2. /\ auxPages = <<>> /\ auxSize = 0 /\ DedupHolds(file, dedup)
      /\ PagesHold(file, parentHashes, mainPages, Len(Bytes(job.input.main)), Bytes(job.input.main))
      /\ mainSize = SizeOf(job)
  BY <1>1 DEF PackInv, WholeAt, SizesAt
<1>3. PICK packed : packed = Bytes(job.input.aux)
  OBVIOUS
<1>4. /\ Then(packed) /\ DedupHolds(file', dedup') /\ logicalPos' = 0
      /\ file' = file /\ mainPages' = mainPages
      /\ parentHashes' = parentHashes /\ encrypt' = encrypt /\ isMain' = FALSE
  BY <1>0, <1>1, <1>2, BeginStreamHolds
<1>5. auxSize' = Total(job.input.aux) /\ mainSize' = mainSize
  <2>1. Total(job.input.aux) \in Nat
    BY <1>0, SizesAre
  <2> QED BY <1>1, <1>2, <2>1 DEF BeginStream
<1>6. Files' = job.input.aux
  BY <1>1 DEF Files
<1>7. StreamAt'
  <2>1. ChunkAt(job.input.aux, 1, 1) = 0
    BY <1>0, ChunkPlaces
  <2> QED BY <1>1, <1>3, <1>4, <1>6, <2>1 DEF StreamAt, Cur, Then
<1>8. WholeAt' /\ SizesAt'
  BY <1>1, <1>2, <1>4, <1>5 DEF WholeAt, SizesAt
<1>9. ManifestAt' /\ JobAt'
  BY <1>1, <1>4, SameIndex DEF PackInv, ManifestAt, JobAt
<1> QED BY <1>4, <1>7, <1>8, <1>9 DEF PackInv

\* What a step that writes to the current stream leaves of the other one.
LEMMA OthersHold ==
    ASSUME TypeInv, PackInv, phase \in {"main", "aux"}, Elsewhere, Begins(file, file'),
           UNCHANGED <<archives, job, phase>>
    PROVE  WholeAt' /\ SizesAt' /\ JobAt'
<1>1. isMain <=> phase = "main"
  BY DEF PackInv, StreamAt
<1>2. /\ phase = "main" => auxPages' = auxPages
      /\ phase = "aux" => mainPages' = mainPages
      /\ mainSize' = mainSize /\ auxSize' = auxSize /\ parentHashes' = parentHashes
  BY <1>1 DEF Elsewhere
<1>3. phase = "aux" =>
        PagesHold(file', parentHashes, mainPages, Len(Bytes(job.input.main)), Bytes(job.input.main))
  BY PagesHoldGrows DEF PackInv, WholeAt
<1>4. WholeAt'
  BY <1>2, <1>3 DEF PackInv, WholeAt
<1>5. SizesAt' /\ JobAt'
  BY <1>2, SameIndex DEF PackInv, SizesAt, JobAt
<1> QED BY <1>4, <1>5

\* A chunk is packed.
LEMMA PackChunkHolds ==
    ASSUME TypeInv, PackInv, PackChunk
    PROVE  PackInv'
<1>0. /\ WriterInv /\ Files \in Seq(FileType) /\ fileNo \in 1..Len(Files)
      /\ chunkNo \in 1..Len(Files[fileNo].chunks)
  BY FilesTyped DEF TypeInv, PackChunk, AtFile
<1>1. /\ phase \in {"main", "aux"} /\ chunkNo' = chunkNo + 1
      /\ UNCHANGED <<archives, job, phase, fileNo, entryOffset, manifest>>
  BY DEF PackChunk
<1>2. PICK packed : packed = Bytes(Files)
  OBVIOUS
<1>3. PICK chunk \in Seq(Byte) : chunk = Files[fileNo].chunks[chunkNo]
  BY <1>0, FilesTyped DEF TypeInv
<1>4. /\ Cur(packed) /\ logicalPos = ChunkAt(Files, fileNo, chunkNo)
      /\ DedupHolds(file, dedup) /\ (isMain <=> phase = "main")
  BY <1>1, <1>2 DEF PackInv, StreamAt
<1>5. /\ HoldsAt(packed, logicalPos, chunk)
      /\ ChunkAt(Files, fileNo, chunkNo + 1) = logicalPos + Len(chunk)
  BY <1>0, <1>2, <1>3, <1>4, ChunkPlaces
<1>6. WriteDataBlock(chunk) \/ WritePrecompressedBlock(chunk)
  BY <1>3 DEF PackChunk
<1>7. Written(packed, chunk)
  BY <1>0, <1>4, <1>5, <1>6, WriteBlockHolds
<1>8. Files' = Files
  BY <1>1 DEF Files
<1>9. StreamAt'
  BY <1>1, <1>2, <1>4, <1>5, <1>7, <1>8 DEF StreamAt, Written, Then, Cur, Elsewhere
<1>10. WholeAt' /\ SizesAt' /\ JobAt'
  BY <1>1, <1>7, OthersHold DEF Written
<1>11. ManifestAt'
  BY <1>1 DEF PackInv, ManifestAt
<1> QED BY <1>7, <1>9, <1>10, <1>11 DEF PackInv, Written

\* An entry is added to a manifest: it is where its file is.
LEMMA EntryAdded ==
    ASSUME NEW m \in Manifest, NEW files, EntriesAt(m, files), NEW e,
           e.stream = "main" => /\ e.file \in 1..Len(files) /\ e.size = files[e.file].declared
                                /\ e.offset = ChunkAt(files, e.file, 1)
    PROVE  EntriesAt(Append(m, e), files)
<1>1. IsSequence(m)
  BY DEF Manifest, IsSequence
<1>2. PICK t : t = Append(m, e)
  OBVIOUS
<1>3. \A k \in DOMAIN t : t[k] = e \/ (k \in DOMAIN m /\ t[k] = m[k])
  BY <1>1, <1>2, AppendElements
<1>4. EntriesAt(t, files)
  BY <1>3 DEF EntriesAt
<1> QED BY <1>2, <1>4

\* A file of a directory, or the single file, ends.
LEMMA EndFileHolds ==
    ASSUME TypeInv, PackInv, EndFile
    PROVE  PackInv'
<1>0. /\ WriterInv /\ Files \in Seq(FileType) /\ fileNo \in 1..Len(Files)
      /\ chunkNo = Len(Files[fileNo].chunks) + 1 /\ manifest \in Manifest
  <2>1. /\ Files \in Seq(FileType) /\ Len(Files) \in Nat /\ fileNo \in Nat \ {0} /\ chunkNo \in Nat \ {0}
        /\ fileNo <= Len(Files) /\ chunkNo > Len(Files[fileNo].chunks)
    BY FilesTyped DEF TypeInv, EndFile, AtFile
  <2>2. fileNo \in 1..Len(Files)
    BY <2>1
  <2>3. Len(Files[fileNo].chunks) \in Nat
    BY <2>2, FilesTyped DEF TypeInv
  <2>4. chunkNo <= Len(Files[fileNo].chunks) + 1
    BY <2>1 DEF TypeInv, AtFile, EndFile
  <2>5. chunkNo = Len(Files[fileNo].chunks) + 1
    BY <2>1, <2>3, <2>4
  <2> QED BY <2>1, <2>2, <2>5 DEF TypeInv, JobTyped
<1>1. /\ phase \in {"main", "aux"} /\ fileNo' = fileNo + 1 /\ chunkNo' = 1 /\ ~ job.tar
      /\ UNCHANGED <<archives, job, phase>>
  BY DEF EndFile
<1>2. PICK packed : packed = Bytes(Files)
  OBVIOUS
<1>4. /\ Cur(packed) /\ logicalPos = ChunkAt(Files, fileNo, chunkNo)
      /\ DedupHolds(file, dedup) /\ (isMain <=> phase = "main")
  BY <1>1, <1>2 DEF PackInv, StreamAt
<1>5. ChunkAt(Files, fileNo + 1, 1) = logicalPos
  BY <1>0, <1>4, ChunkPlaces
<1>6. /\ Then(packed) /\ Elsewhere /\ Begins(file, file') /\ DedupHolds(file', dedup')
      /\ logicalPos' = logicalPos
  <2>1. CASE FlushStream
    BY <1>0, <1>4, <2>1, FlushStreamHolds
  <2>2. CASE UNCHANGED writerVars
    <3>1. UNCHANGED <<file, mainPages, auxPages, mainSize, auxSize, globalIdx, dedup, parentHashes,
                      encrypt, page, pageStartBlock, pageStartLogical, logicalPos, isMain>>
      BY <2>2 DEF writerVars, masterVars, configVars
    <3>2. CurPages' = CurPages /\ OtherPages' = OtherPages
      BY <3>1 DEF CurPages, OtherPages
    <3> QED BY <1>4, <3>1, <3>2 DEF Then, Cur, Elsewhere, Begins
  <2> QED BY <2>1, <2>2 DEF EndFile
<1>8. Files' = Files
  BY <1>1 DEF Files
<1>9. StreamAt'
  BY <1>1, <1>2, <1>4, <1>5, <1>6, <1>8 DEF StreamAt, Then, Cur, Elsewhere
<1>10. WholeAt' /\ SizesAt' /\ JobAt'
  BY <1>1, <1>6, OthersHold
<1>11. ManifestAt'
  <2>0. EntriesAt(manifest, job.input.main) /\ job'.input = job.input
    BY <1>1 DEF PackInv, ManifestAt
  <2>1. CASE ~ job.input.dir
    <3>1. UNCHANGED <<manifest, entryOffset>>
      BY <2>1 DEF EndFile
    <3> QED BY <1>1, <2>0, <2>1, <3>1 DEF ManifestAt
  <2>2. CASE job.input.dir
    <3>1. PICK e : /\ e.stream = phase /\ e.file = fileNo /\ e.size = Files[fileNo].declared
                   /\ e.offset = IF phase = "main" THEN entryOffset ELSE 0
                   /\ manifest' = Append(manifest, e)
      <4> DEFINE e == [stream |-> phase, file |-> fileNo, size |-> Files[fileNo].declared,
                       offset |-> IF phase = "main" THEN entryOffset ELSE 0]
      <4>1. /\ e.stream = phase /\ e.file = fileNo /\ e.size = Files[fileNo].declared
            /\ e.offset = IF phase = "main" THEN entryOffset ELSE 0
        OBVIOUS
      <4>2. manifest' = Append(manifest, e)
        BY <2>2 DEF EndFile
      <4> HIDE DEF e
      <4> QED BY <4>1, <4>2
    <3>2. phase = "main" => Files = job.input.main /\ entryOffset = ChunkAt(job.input.main, fileNo, 1)
      BY <2>2 DEF PackInv, ManifestAt, Files
    <3>3. PICK fs : fs = job.input.main
      OBVIOUS
    <3>4. e.stream = "main" => /\ e.file \in 1..Len(fs) /\ e.size = fs[e.file].declared
                               /\ e.offset = ChunkAt(fs, e.file, 1)
      BY <1>0, <3>1, <3>2, <3>3
    <3>5. EntriesAt(manifest', fs)
      BY <1>0, <2>0, <3>1, <3>3, <3>4, EntryAdded
    <3>6. phase = "main" => entryOffset' = ChunkAt(job.input.main, fileNo + 1, 1)
      <4>1. phase = "main" => entryOffset' = logicalPos'
        BY <2>2 DEF EndFile, NextOffset
      <4> QED BY <1>5, <1>6, <3>2, <4>1
    <3> QED BY <1>1, <2>0, <3>3, <3>5, <3>6 DEF ManifestAt
  <2> QED BY <2>1, <2>2
<1> QED BY <1>6, <1>9, <1>10, <1>11 DEF PackInv

\* A file of a tar file ends.
LEMMA EndTarEntryHolds ==
    ASSUME TypeInv, PackInv, EndTarEntry
    PROVE  PackInv'
<1>0. /\ phase = "main" /\ Files = job.input.main /\ Files \in Seq(FileType) /\ fileNo \in 1..Len(Files)
      /\ chunkNo = Len(Files[fileNo].chunks) + 1 /\ manifest \in Manifest
  <2>1. /\ Files \in Seq(FileType) /\ Len(Files) \in Nat /\ fileNo \in Nat \ {0} /\ chunkNo \in Nat \ {0}
        /\ fileNo <= Len(Files) /\ chunkNo > Len(Files[fileNo].chunks)
    BY FilesTyped DEF TypeInv, EndTarEntry, AtFile
  <2>2. fileNo \in 1..Len(Files)
    BY <2>1
  <2>3. Len(Files[fileNo].chunks) \in Nat
    BY <2>2, FilesTyped DEF TypeInv
  <2>4. chunkNo <= Len(Files[fileNo].chunks) + 1
    BY <2>1 DEF TypeInv, AtFile, EndTarEntry
  <2>5. chunkNo = Len(Files[fileNo].chunks) + 1
    BY <2>1, <2>3, <2>4
  <2>6. phase = "main" /\ Files = job.input.main
    BY DEF EndTarEntry, Files
  <2> QED BY <2>1, <2>2, <2>5, <2>6 DEF TypeInv, JobTyped
<1>1. /\ fileNo' = fileNo + 1 /\ chunkNo' = 1 /\ job.tar
      /\ UNCHANGED <<archives, job, phase>> /\ UNCHANGED writerVars
      /\ entryOffset' = entryOffset + Files[fileNo].declared
  BY DEF EndTarEntry
<1>2. UNCHANGED <<file, mainPages, auxPages, mainSize, auxSize, globalIdx, dedup, parentHashes,
                  page, pageStartBlock, pageStartLogical, logicalPos, isMain>>
  BY <1>1 DEF writerVars, masterVars, configVars
<1>3. /\ Cur(Bytes(Files)) /\ logicalPos = ChunkAt(Files, fileNo, chunkNo)
      /\ DedupHolds(file, dedup) /\ (isMain <=> phase = "main")
  BY <1>0 DEF PackInv, StreamAt
<1>4. ChunkAt(Files, fileNo + 1, 1) = logicalPos
  BY <1>0, <1>3, ChunkPlaces
<1>5. Files' = Files /\ CurPages' = CurPages
  BY <1>1, <1>2 DEF Files, CurPages
<1>6. StreamAt'
  BY <1>1, <1>2, <1>3, <1>4, <1>5 DEF StreamAt, Cur
<1>7. WholeAt' /\ SizesAt' /\ JobAt'
  BY <1>1, <1>2, SameIndex DEF PackInv, WholeAt, SizesAt, JobAt
<1>8. IsTar(job.input)
  BY <1>1 DEF PackInv, JobAt
<1>9. job.input.dir /\ Files[fileNo].declared = Len(Contents(Files[fileNo]))
  BY <1>0, <1>8 DEF IsTar, Unchanged
<1>10. entryOffset = ChunkAt(Files, fileNo, 1) /\ EntriesAt(manifest, Files)
  BY <1>0, <1>9 DEF PackInv, ManifestAt
<1>11. entryOffset' = ChunkAt(Files, fileNo + 1, 1)
  BY <1>0, <1>1, <1>9, <1>10, FilePlaces
<1>12. EntriesAt(manifest', Files)
  <2>1. PICK fs : fs = Files
    OBVIOUS
  <2> DEFINE e == [stream |-> "main", file |-> fileNo, size |-> Files[fileNo].declared, offset |-> entryOffset]
  <2>2. e.file \in 1..Len(fs) /\ e.size = fs[e.file].declared /\ e.offset = ChunkAt(fs, e.file, 1)
    BY <1>0, <1>10, <2>1
  <2>3. manifest' = Append(manifest, e)
    BY DEF EndTarEntry
  <2>4. PICK x : x = e
    OBVIOUS
  <2> HIDE DEF e
  <2>5. EntriesAt(Append(manifest, x), fs)
    BY <1>0, <1>10, <2>1, <2>2, <2>4, EntryAdded
  <2> QED BY <2>1, <2>3, <2>4, <2>5
<1>13. ManifestAt'
  BY <1>0, <1>1, <1>11, <1>12 DEF ManifestAt
<1> QED BY <1>2, <1>3, <1>6, <1>7, <1>13 DEF PackInv

\* A stream ends: its pages hold all of it.
LEMMA EndStreamHolds ==
    ASSUME TypeInv, PackInv, EndMain \/ EndAux
    PROVE  PackInv'
<1>0. /\ WriterInv /\ phase \in {"main", "aux"} /\ Files \in Seq(FileType)
      /\ fileNo = Len(Files) + 1 /\ chunkNo = 1
  <2>1. /\ Files \in Seq(FileType) /\ Len(Files) \in Nat /\ fileNo \in Nat \ {0}
        /\ fileNo > Len(Files) /\ phase \in {"main", "aux"}
    BY FilesTyped DEF TypeInv, EndMain, EndAux, AtFile
  <2>2. fileNo <= Len(Files) + 1 /\ ~ (fileNo <= Len(Files))
    BY <2>1 DEF TypeInv, AtFile
  <2>3. chunkNo = 1
    BY <2>1, <2>2 DEF TypeInv, AtFile
  <2> QED BY <2>1, <2>2, <2>3 DEF TypeInv
<1>1. /\ UNCHANGED <<archives, job, fileNo, chunkNo, entryOffset, manifest>> /\ EndStream
      /\ phase' \in {"between", "finalize"}
      /\ phase = "main" => phase' = (IF job.input.aux = <<>> THEN "finalize" ELSE "between")
      /\ phase = "aux" => phase' = "finalize"
  BY DEF EndMain, EndAux
<1>2. PICK packed : packed = Bytes(Files)
  OBVIOUS
<1>3. /\ Cur(packed) /\ logicalPos = Len(packed)
      /\ DedupHolds(file, dedup) /\ (isMain <=> phase = "main")
  BY <1>0, <1>2, ChunkPlaces DEF PackInv, StreamAt
<1>4. /\ Elsewhere /\ Begins(file, file') /\ DedupHolds(file', dedup')
      /\ PagesHold(file', parentHashes, CurPages', Len(packed), packed)
  BY <1>0, <1>1, <1>3, FlushPendingHolds DEF EndStream
<1>5. parentHashes' = parentHashes /\ mainSize' = mainSize /\ auxSize' = auxSize /\ isMain' = isMain
  BY <1>4 DEF Elsewhere
<1>6. JobAt'
  <2>1. phase # "idle"
    BY <1>0
  <2> QED BY <1>1, <1>5, <2>1, SameIndex DEF PackInv, JobAt
<1>7. ManifestAt' /\ StreamAt'
  BY <1>1 DEF PackInv, ManifestAt, StreamAt
<1>8. CASE phase = "main"
  <2>1. CurPages' = mainPages' /\ packed = Bytes(job.input.main)
    BY <1>2, <1>3, <1>5, <1>8 DEF CurPages, Files
  <2>2. PagesHold(file', parentHashes', mainPages', Len(Bytes(job.input.main)), Bytes(job.input.main))
    BY <1>4, <1>5, <2>1
  <2>3. auxPages' = <<>> /\ auxSize = 0
    BY <1>3, <1>4, <1>8 DEF Elsewhere, PackInv, WholeAt
  <2>4. phase' = "finalize" =>
          /\ PagesHold(file', parentHashes', auxPages', Len(Bytes(job.input.aux)), Bytes(job.input.aux))
          /\ Total(job.input.aux) = 0
    <3>1. phase' = "finalize" => job.input.aux = <<>>
      BY <1>1, <1>8
    <3>2. PICK none \in Seq(FileType) : none = <<>> /\ Len(none) = 0
      <4>1. <<>> \in Seq(FileType)
        OBVIOUS
      <4> QED BY <4>1, EmptySequence
    <3>3. Len(Bytes(none)) = 0
      <4>1. ChunkAt(none, 1, 1) = 0 /\ ChunkAt(none, Len(none) + 1, 1) = Len(Bytes(none))
        BY ChunkPlaces
      <4> QED BY <3>2, <4>1
    <3>4. Total(none) = 0
      <4>1. \A f \in 1..Len(none) : Unchanged(none[f])
        BY <3>2
      <4> QED BY <3>3, <4>1, TotalIsAll
    <3>5. \A f, hs, bytes : PagesHold(f, hs, <<>>, 0, bytes)
      BY EmptySequence DEF PagesHold
    <3> QED BY <2>3, <3>1, <3>2, <3>3, <3>4, <3>5
  <2>5. mainSize = SizeOf(job)
    BY <1>8 DEF PackInv, SizesAt
  <2>6. WholeAt'
    BY <1>1, <1>5, <2>2, <2>3, <2>4 DEF WholeAt
  <2>7. SizesAt'
    BY <1>1, <1>5, <2>3, <2>4, <2>5 DEF SizesAt
  <2> QED BY <1>4, <1>6, <1>7, <2>6, <2>7 DEF PackInv
<1>9. CASE phase = "aux"
  <2>1. CurPages' = auxPages' /\ packed = Bytes(job.input.aux)
    BY <1>2, <1>3, <1>5, <1>9 DEF CurPages, Files
  <2>2. PagesHold(file', parentHashes', auxPages', Len(Bytes(job.input.aux)), Bytes(job.input.aux))
    BY <1>4, <1>5, <2>1
  <2>3. mainPages' = mainPages
    BY <1>3, <1>4, <1>9 DEF Elsewhere
  <2>4. PagesHold(file', parentHashes', mainPages', Len(Bytes(job.input.main)), Bytes(job.input.main))
    BY <1>4, <1>5, <1>9, <2>3, PagesHoldGrows DEF PackInv, WholeAt
  <2>5. mainSize = SizeOf(job) /\ auxSize = Total(job.input.aux)
    BY <1>9 DEF PackInv, SizesAt
  <2>6. WholeAt'
    BY <1>1, <1>9, <2>2, <2>4 DEF WholeAt
  <2>7. SizesAt'
    BY <1>1, <1>5, <1>9, <2>5 DEF SizesAt
  <2> QED BY <1>4, <1>6, <1>7, <2>6, <2>7 DEF PackInv
<1> QED BY <1>0, <1>8, <1>9

\* Archives that stay hold what they held.
LEMMA ArchivesStay ==
    ASSUME ArchivesHold, UNCHANGED archives
    PROVE  ArchivesHold'
<1>1. \A base : ParentIndex(base)' = ParentIndex(base)
  BY DEF ParentIndex
<1>2. \A i \in DOMAIN archives : ParentIndex(archives[i].base)' = ParentIndex(archives[i].base)
  BY DEF ParentIndex
<1> QED BY <1>2 DEF ArchivesHold

\* An archive is finished.
LEMMA FinishHolds ==
    ASSUME TypeInv, PackInv, ArchivesHold, Finish
    PROVE  ArchivesHold'
<1> DEFINE a == [file |-> Finalized.file, encrypted |-> encrypt,
                 main |-> mainPages, aux |-> auxPages,
                 mainSize |-> mainSize, auxSize |-> auxSize,
                 base |-> job.base, manifest |-> manifest, input |-> job.input]
<1>1. archives' = Append(archives, a) /\ phase = "finalize"
  BY DEF Finish
<1>x. PICK x : x = a
  OBVIOUS
<1>2. /\ x = a /\ x.file = Append(file, IndexObject) /\ x.main = mainPages /\ x.aux = auxPages
      /\ x.mainSize = mainSize /\ x.auxSize = auxSize /\ x.base = job.base
      /\ x.manifest = manifest /\ x.input = job.input
  BY <1>x DEF Finalized
<1> HIDE DEF a
<1>3. /\ archives \in Seq(ArchiveType) /\ job.base \in 0..Len(archives) /\ file \in Seq(Object)
  BY DEF TypeInv, ArchivesTyped, JobTyped, WriterInv, WriterTypes
<1>4. PICK n \in Nat : n = Len(archives) /\ DOMAIN archives = 1..n
  BY <1>3
<1>5. PICK s : s = archives' /\ DOMAIN s = 1..(n + 1) /\ s[n + 1] = x /\ \A i \in 1..n : s[i] = archives[i]
  <2>1. IsSequence(archives)
    BY <1>3 DEF IsSequence
  <2> QED BY <1>1, <1>2, <1>4, <2>1, AppendFacts
<1>6. \A base \in 0..n : ParentIndex(base)' = ParentIndex(base)
  BY <1>5 DEF ParentIndex
<1>7. ArchiveHolds(x, ParentIndex(job.base))
  <2>1. Begins(file, x.file)
    BY <1>2, <1>3, ObjectsAre, AppendBegins
  <2>2. parentHashes = ParentIndex(job.base)
    BY <1>1 DEF PackInv, JobAt
  <2>3. /\ PagesHold(file, parentHashes, mainPages, Len(Bytes(job.input.main)), Bytes(job.input.main))
        /\ PagesHold(file, parentHashes, auxPages, Len(Bytes(job.input.aux)), Bytes(job.input.aux))
    BY <1>1 DEF PackInv, WholeAt
  <2>4. /\ PagesHold(x.file, ParentIndex(job.base), x.main, Len(Bytes(x.input.main)), Bytes(x.input.main))
        /\ PagesHold(x.file, ParentIndex(job.base), x.aux, Len(Bytes(x.input.aux)), Bytes(x.input.aux))
    BY <1>2, <2>1, <2>2, <2>3, PagesHoldGrows
  <2>5. mainSize = SizeOf(job) /\ auxSize = Total(job.input.aux) /\ (job.tar => IsTar(job.input))
    BY <1>1 DEF PackInv, SizesAt, JobAt
  <2>6. EntriesAt(manifest, job.input.main)
    BY DEF PackInv, ManifestAt
  <2> QED BY <1>2, <2>4, <2>5, <2>6 DEF ArchiveHolds, SizeOf
<1>8. ASSUME NEW i \in 1..(n + 1)
      PROVE  s[i].base \in 0..(i - 1) /\ ArchiveHolds(s[i], ParentIndex(s[i].base)')
  <2>1. CASE i = n + 1
    <3>1. s[i] = x /\ i - 1 = n
      BY <1>5, <2>1
    <3>2. x.base \in 0..n /\ ParentIndex(x.base)' = ParentIndex(job.base)
      <4>1. x.base = job.base /\ job.base \in 0..n
        BY <1>2, <1>3, <1>4
      <4> QED BY <1>6, <4>1
    <3> QED BY <1>7, <3>1, <3>2
  <2>2. CASE i \in 1..n
    <3>1. s[i] = archives[i] /\ archives[i].base \in 0..(i - 1)
          /\ ArchiveHolds(archives[i], ParentIndex(archives[i].base))
      BY <1>4, <1>5, <2>2 DEF ArchivesHold
    <3>2. archives[i].base \in 0..n
      BY <2>2, <3>1
    <3> QED BY <1>6, <3>1, <3>2
  <2> QED BY <2>1, <2>2
<1> QED BY <1>5, <1>8 DEF ArchivesHold

\* The archives, and the one that is packed, hold what was packed, throughout.
LEMMA ReadInvariance == Spec => []ReadInv
<1>1. Init => PackInv /\ ArchivesHold
  <2> SUFFICES ASSUME Init PROVE PackInv /\ ArchivesHold
    OBVIOUS
  <2>1. DedupHolds(file, dedup)
    BY EmptySequence DEF Init, NoWriter, DedupHolds
  <2>2. phase = "idle" /\ job = NoJob /\ manifest = <<>> /\ archives = <<>> /\ ~ job.tar
    BY DEF Init, NoJob
  <2>3. StreamAt /\ WholeAt /\ SizesAt
    BY <2>2 DEF StreamAt, WholeAt, SizesAt
  <2>4. ManifestAt /\ JobAt
    BY <2>2, NoEntries DEF ManifestAt, JobAt
  <2>5. ArchivesHold
    BY <2>2, EmptySequence DEF ArchivesHold
  <2> QED BY <2>1, <2>3, <2>4, <2>5 DEF PackInv
<1>2. TypeInv /\ TypeInv' /\ PackInv /\ ArchivesHold /\ [Next]_vars => PackInv' /\ ArchivesHold'
  <2> SUFFICES ASSUME TypeInv, TypeInv', PackInv, ArchivesHold, [Next]_vars
               PROVE  PackInv' /\ ArchivesHold'
    OBVIOUS
  <2>1. CASE StartPack \/ StartConvert
    BY <2>1, StartHolds, ArchivesStay DEF StartPack, StartConvert
  <2>2. CASE BeginMain
    BY <2>2, BeginMainHolds, ArchivesStay DEF BeginMain
  <2>3. CASE PackChunk
    BY <2>3, PackChunkHolds, ArchivesStay DEF PackChunk
  <2>4. CASE EndFile
    BY <2>4, EndFileHolds, ArchivesStay DEF EndFile
  <2>5. CASE EndTarEntry
    BY <2>5, EndTarEntryHolds, ArchivesStay DEF EndTarEntry
  <2>6. CASE EndMain \/ EndAux
    BY <2>6, EndStreamHolds, ArchivesStay DEF EndMain, EndAux
  <2>7. CASE BeginAux
    BY <2>7, BeginAuxHolds, ArchivesStay DEF BeginAux
  <2>8. CASE Finish
    BY <2>8, FinishHolds, IdleHolds DEF Finish
  <2>9. CASE PackFails
    BY <2>9, IdleHolds, ArchivesStay DEF PackFails
  <2>10. CASE Done \/ UNCHANGED vars
    <3>1. UNCHANGED vars
      BY <2>10 DEF Done
    <3>2. UNCHANGED <<file, mainPages, auxPages, mainSize, auxSize, globalIdx, dedup, parentHashes,
                      page, pageStartBlock, pageStartLogical, logicalPos, isMain>>
          /\ UNCHANGED <<archives, job, phase, fileNo, chunkNo, entryOffset, manifest>>
      BY <3>1 DEF vars, packVars, writerVars, masterVars, configVars
    <3>3. StreamAt'
      BY <3>2 DEF PackInv, StreamAt, Cur, CurPages, Files
    <3>4. WholeAt' /\ SizesAt' /\ ManifestAt' /\ JobAt' /\ DedupHolds(file', dedup')
      BY <3>2, SameIndex DEF PackInv, WholeAt, SizesAt, ManifestAt, JobAt
    <3> QED BY <3>2, <3>3, <3>4, ArchivesStay DEF PackInv
  <2> QED BY <2>1, <2>2, <2>3, <2>4, <2>5, <2>6, <2>7, <2>8, <2>9, <2>10 DEF Next
<1> QED BY <1>1, <1>2, TypeInvariance, PTL DEF Spec, ReadInv

-----------------------------------------------------------------------------
(* Scans.                                                                  *)

\* A round of a scan: of the blocks of a page, or of the pages of a stream.
Round(q, w, i) ==
    IF q.ofPage THEN ScanBlock(q.a, q.parents, q.entry, q.blocks, w, i)
                ELSE ScanPage(q.a, q.parents, w, q.pages[i])

\* What FoldLeft chooses for n rounds.
IsRounds(g, q, w, n) ==
    g = [s \in SUBSET (1..n) |-> IF s = {} THEN w ELSE Round(q, g[s \ {Max(s)}], Max(s))]

\* There is such a function.
LEMMA RoundsExist ==
    ASSUME NEW q, NEW w, NEW n \in Nat
    PROVE  \E g : IsRounds(g, q, w, n)
<1> DEFINE T == { k \in 0..n : \E g : IsRounds(g, q, w, k) }
<1>1. 0 \in T
  <2> DEFINE g == [s \in SUBSET (1..0) |-> w]
  <2>1. \A s \in SUBSET (1..0) : s = {}
    OBVIOUS
  <2>2. IsRounds(g, q, w, 0)
    BY <2>1, Zenon DEF IsRounds
  <2> HIDE DEF g
  <2> QED BY <2>2
<1>2. ASSUME NEW k \in 1..n, k - 1 \in T PROVE k \in T
  <2>1. PICK g : IsRounds(g, q, w, k - 1)
    BY <1>2
  <2> DEFINE h == [s \in SUBSET (1..k) |->
                     IF k \in s THEN Round(q, g[s \ {k}], k) ELSE g[s]]
  <2>2. ASSUME NEW s \in SUBSET (1..k)
        PROVE  h[s] = IF s = {} THEN w ELSE Round(q, h[s \ {Max(s)}], Max(s))
    <3>1. CASE k \in s
      <4>1. Max(s) = k
        <5> HIDE DEF h
        <5>1. k \in Nat
          OBVIOUS
        <5>2. Max(s) \in s /\ k <= Max(s)
          BY <5>1, <3>1, MaxIs
        <5>3. Max(s) \in 1..k
          BY <5>2
        <5> QED BY <5>1, <5>2, <5>3
      <4>2. s \ {k} \in SUBSET (1..k) /\ k \notin s \ {k} /\ s # {}
        BY <3>1
      <4>3. h[s \ {k}] = g[s \ {k}] /\ h[s] = Round(q, g[s \ {k}], k)
        BY <3>1, <4>2
      <4> HIDE DEF h
      <4> QED BY <4>1, <4>2, <4>3
    <3>2. CASE k \notin s
      <4>1. s \in SUBSET (1..(k - 1))
        BY <3>2
      <4>2. g[s] = IF s = {} THEN w ELSE Round(q, g[s \ {Max(s)}], Max(s))
        BY <2>1, <4>1, Zenon DEF IsRounds
      <4>3. k \notin s \ {Max(s)} /\ s \ {Max(s)} \in SUBSET (1..k)
        BY <3>2
      <4>4. h[s] = g[s] /\ h[s \ {Max(s)}] = g[s \ {Max(s)}]
        BY <3>2, <4>3
      <4> HIDE DEF h
      <4> QED BY <4>2, <4>4
    <3> QED BY <3>1, <3>2
  <2>3. IsRounds(h, q, w, k)
    <3>1. h = [s \in SUBSET (1..k) |-> h[s]]
      OBVIOUS
    <3> HIDE DEF h
    <3>2. h = [s \in SUBSET (1..k) |->
                 IF s = {} THEN w ELSE Round(q, h[s \ {Max(s)}], Max(s))]
      BY <2>2, <3>1, Zenon
    <3> QED BY <3>2 DEF IsRounds
  <2> HIDE DEF h
  <2> QED BY <2>3
<1> HIDE DEF T
<1>3. 0..n \subseteq T
  BY <1>1, <1>2, Upwards
<1> QED BY <1>3 DEF T

\* The rounds, one after the other.
IsScan(h, q, w, n) == h[0] = w /\ \A i \in 1..n : h[i] = Round(q, h[i - 1], i)

\* What FoldLeft returns is there after the last round.
LEMMA RoundsRun ==
    ASSUME NEW q, NEW w, NEW n \in Nat, NEW g, IsRounds(g, q, w, n)
    PROVE  \E h : IsScan(h, q, w, n) /\ h[n] = g[1..n]
<1> DEFINE h == [i \in 0..n |-> g[1..i]]
<1>1. \A s \in SUBSET (1..n) : g[s] = IF s = {} THEN w ELSE Round(q, g[s \ {Max(s)}], Max(s))
  BY Zenon DEF IsRounds
<1>2. h[0] = w /\ h[n] = g[1..n]
  <2>1. g[1..0] = w
    BY <1>1, FirstOnes
  <2> QED BY <2>1
<1>3. ASSUME NEW i \in 1..n PROVE h[i] = Round(q, h[i - 1], i)
  <2>1. h[i] = g[1..i] /\ h[i - 1] = g[1..(i - 1)]
    OBVIOUS
  <2>2. /\ 1..i \in SUBSET (1..n) /\ 1..i # {} /\ Max(1..i) = i
        /\ (1..i) \ {i} = 1..(i - 1)
    BY FirstOnes
  <2> HIDE DEF h
  <2>3. g[1..i] = Round(q, g[1..(i - 1)], i)
    BY <1>1, <2>2
  <2> QED BY <2>1, <2>3
<1> HIDE DEF h
<1> QED BY <1>2, <1>3 DEF IsScan

\* A page that is scanned is scanned block by block.
LEMMA ScanPageRuns ==
    ASSUME NEW a, NEW parents, NEW w, NEW entry, BlocksAt(a, entry) \in Seq(BlockInfo),
           ~ (w.remaining = 0 \/ entry.start_logical > w.pos + w.remaining)
    PROVE  \E h : /\ h[0] = w
                  /\ \A i \in 1..Len(BlocksAt(a, entry)) :
                        h[i] = ScanBlock(a, parents, entry, BlocksAt(a, entry), h[i - 1], i)
                  /\ ScanPage(a, parents, w, entry) = h[Len(BlocksAt(a, entry))]
<1> DEFINE blocks == BlocksAt(a, entry)
<1>1. PICK n \in Nat : n = Len(blocks) /\ DOMAIN blocks = 1..n
  OBVIOUS
<1> DEFINE q == [ofPage |-> TRUE, a |-> a, parents |-> parents, entry |-> entry, blocks |-> blocks]
<1>2. \A x, i : Round(q, x, i) = ScanBlock(a, parents, entry, blocks, x, i)
  BY DEF Round
<1> HIDE DEF q
<1> DEFINE seq == [i \in DOMAIN blocks |-> i]
           Is(g) == g = [s \in SUBSET DOMAIN seq |->
                           IF s = {} THEN w
                           ELSE LET x == Max(s)
                                IN  ScanBlock(a, parents, entry, blocks, g[s \ {x}], seq[x])]
           g == CHOOSE g : Is(g)
<1>3. ScanPage(a, parents, w, entry) = g[DOMAIN seq]
  BY Zenon DEF ScanPage, FoldLeft, MapThenFoldSet
<1>4. DOMAIN seq = 1..n /\ \A i \in 1..n : seq[i] = i
  BY <1>1
<1> HIDE DEF seq, g
<1>5. ASSUME NEW f PROVE Is(f) <=> IsRounds(f, q, w, n)
  <2>1. \A s \in SUBSET (1..n) :
           (IF s = {} THEN w ELSE ScanBlock(a, parents, entry, blocks, f[s \ {Max(s)}], seq[Max(s)]))
             = IF s = {} THEN w ELSE Round(q, f[s \ {Max(s)}], Max(s))
    <3>1. \A s \in SUBSET (1..n) : s # {} => seq[Max(s)] = Max(s)
      <4>1. \A s \in SUBSET (1..n) : s # {} => Max(s) \in 1..n
        BY <1>1, MaxIs
      <4> QED BY <1>4, <4>1
    <3> QED BY <1>2, <3>1, Zenon
  <2> QED BY <1>4, <2>1, Zenon DEF IsRounds
<1> HIDE DEF Is
<1>6. Is(g)
  <2>1. \E f : Is(f)
    BY <1>1, <1>5, RoundsExist
  <2> QED BY <2>1 DEF g
<1>7. PICK h : IsScan(h, q, w, n) /\ h[n] = g[1..n]
  BY <1>1, <1>5, <1>6, RoundsRun
<1> QED BY <1>1, <1>2, <1>3, <1>4, <1>7 DEF IsScan

\* The pages from the one that holds the offset.
PartFrom(a, stream, offset) ==
    SubSeq(Pages(a, stream), FindPage(Pages(a, stream), offset), Len(Pages(a, stream)))

\* A scan of the pages part of a stream, page by page, that ends with w.
IsStreamScan(h, a, parents, part, offset, len, w) ==
    /\ h[0] = [pos |-> offset, remaining |-> len, out |-> <<>>]
    /\ \A i \in 1..Len(part) : h[i] = ScanPage(a, parents, h[i - 1], part[i])
    /\ w = h[Len(part)]

\* A stream is scanned page by page, from the page that holds the offset.
LEMMA ScanStreamRuns ==
    ASSUME NEW a, NEW parents, NEW stream, NEW offset, NEW len,
           PartFrom(a, stream, offset) \in Seq(Entry)
    PROVE  \E h : IsStreamScan(h, a, parents, PartFrom(a, stream, offset), offset, len,
                               ScanStream(a, parents, stream, offset, len))
<1> DEFINE part == PartFrom(a, stream, offset)
<1>1. PICK n \in Nat : n = Len(part) /\ DOMAIN part = 1..n
  OBVIOUS
<1> DEFINE q == [ofPage |-> FALSE, a |-> a, parents |-> parents, pages |-> part]
           w == [pos |-> offset, remaining |-> len, out |-> <<>>]
<1>2. \A x, i : Round(q, x, i) = ScanPage(a, parents, x, part[i])
  BY DEF Round
<1> HIDE DEF q
<1> DEFINE Is(g) == g = [s \in SUBSET DOMAIN part |->
                           IF s = {} THEN w
                           ELSE LET x == Max(s) IN ScanPage(a, parents, g[s \ {x}], part[x])]
           g == CHOOSE g : Is(g)
<1>3. ScanStream(a, parents, stream, offset, len) = g[DOMAIN part]
  BY Zenon DEF ScanStream, PartFrom, FoldLeft, MapThenFoldSet
<1> HIDE DEF g, w, part
<1>5. ASSUME NEW f PROVE Is(f) <=> IsRounds(f, q, w, n)
  <2>1. \A s \in SUBSET (1..n) :
           (IF s = {} THEN w ELSE ScanPage(a, parents, f[s \ {Max(s)}], part[Max(s)]))
             = IF s = {} THEN w ELSE Round(q, f[s \ {Max(s)}], Max(s))
    BY <1>2, Zenon
  <2> QED BY <1>1, <2>1, Zenon DEF IsRounds
<1> HIDE DEF Is
<1>6. Is(g)
  <2>1. \E f : Is(f)
    BY <1>1, <1>5, RoundsExist
  <2> QED BY <2>1 DEF g
<1>7. PICK h : IsScan(h, q, w, n) /\ h[n] = g[1..n]
  BY <1>1, <1>5, <1>6, RoundsRun
<1>8. /\ h[0] = [pos |-> offset, remaining |-> len, out |-> <<>>]
      /\ \A i \in 1..Len(part) : h[i] = ScanPage(a, parents, h[i - 1], part[i])
      /\ ScanStream(a, parents, stream, offset, len) = h[Len(part)]
  BY <1>1, <1>2, <1>3, <1>7 DEF IsScan, w
<1> QED BY <1>8 DEF IsStreamScan, part

-----------------------------------------------------------------------------
(* The bytes of a block.                                                   *)

\* Of the parents the first one alone knows the hashes hs, and what it has for one is
\* the block of that hash.
Serves(parents, hs) ==
    \A h \in hs :
        /\ { k \in DOMAIN parents : get_block_by_hash(parents[k], h) # {} } = {1}
        /\ \A x \in get_block_by_hash(parents[1], h) : read_block(parents[1], x.idx, x.block) = h

\* The pages of an archive, with the blocks they name.
PagesTyped(pages, f) ==
    /\ pages \in Seq(Entry) /\ ThereIn(pages, f)
    /\ \A k \in 1..Len(pages) : f[pages[k].offset + 1].blocks \in Seq(BlockInfo)

\* The pages of an archive are typed.
LEMMA PagesAreTyped ==
    ASSUME NEW a \in ArchiveType, ThereIn(a.main, a.file), ThereIn(a.aux, a.file)
    PROVE  PagesTyped(a.main, a.file) /\ PagesTyped(a.aux, a.file)
<1>1. a.file \in Seq(Object) /\ a.main \in Seq(Entry) /\ a.aux \in Seq(Entry)
  BY DEF ArchiveType, PageEntries, Entry
<1>2. \A i \in DOMAIN a.file : a.file[i].blocks \in Seq(BlockInfo)
  <2>1. \A i \in DOMAIN a.file : a.file[i] \in Object
    BY <1>1
  <2> QED BY <2>1 DEF Object
<1>3. \A k \in 1..Len(a.main) : k \in DOMAIN a.main
  BY <1>1
<1>4. \A k \in 1..Len(a.aux) : k \in DOMAIN a.aux
  BY <1>1
<1> QED BY <1>1, <1>2, <1>3, <1>4 DEF PagesTyped, ThereIn

\* A block of an archive without a base is sparse, or stored there, and what is stored is
\* read back by its hash.
LEMMA NoBaseBlock ==
    ASSUME NEW a, NEW idx, NEW b, NEW chunk, Holds(a.file, {}, idx, b, chunk)
    PROVE  /\ ~ is_parent_ref(b)
           /\ ~ is_sparse(b) => /\ b.hash \in {NoHash, chunk}
                                /\ read_block(a, idx, b) = chunk
<1>1. CASE b.offset = 0 /\ b.length = 0
  BY <1>1 DEF is_parent_ref, is_sparse, BLOCK_OFFSET_PARENT
<1>2. CASE /\ b.offset \in Nat /\ b.length = 1 /\ b.hash \in {NoHash, chunk}
           /\ a.file[b.offset + 1].kind = "block"
           /\ a.file[b.offset + 1].data = chunk /\ a.file[b.offset + 1].nonce \in {PlainNonce, idx}
  <2>1. ~ is_parent_ref(b)
    BY <1>2 DEF is_parent_ref, BLOCK_OFFSET_PARENT
  <2>2. read_block(a, idx, b) = chunk
    BY <1>2, Zenon DEF read_block
  <2> QED BY <1>2, <2>1, <2>2
<1> QED BY <1>1, <1>2 DEF Holds

\* Block i of a page that holds something.
LEMMA PageBlock ==
    ASSUME NEW f, NEW hs, NEW entry, NEW to, NEW packed, PageHolds(f, hs, entry, to, packed),
           NEW i \in 1..Len(f[entry.offset + 1].blocks)
    PROVE  \E chunk \in Seq(Byte) :
              Holds(f, hs, (entry.start_block + i) - 1, f[entry.offset + 1].blocks[i], chunk)
BY DEF PageHolds, BlocksHold, HoldsThere

\* An archive without a base knows the hashes it gives, and has the blocks.
LEMMA BaseServes ==
    ASSUME NEW p \in ArchiveType, ThereIn(p.main, p.file), ThereIn(p.aux, p.file), ArchiveHolds(p, {})
    PROVE  Serves(<<p>>, iter_block_hashes(p))
<1>0. PagesTyped(p.main, p.file) /\ PagesTyped(p.aux, p.file)
  BY PagesAreTyped
<1>1. ASSUME NEW e \in Range(p.main) \cup Range(p.aux)
      PROVE  /\ BlocksAt(p, e) \in Seq(BlockInfo) /\ e.start_block \in Nat
             /\ \A i \in 1..Len(BlocksAt(p, e)) : \E chunk \in Seq(Byte) :
                   Holds(p.file, {}, (e.start_block + i) - 1, BlocksAt(p, e)[i], chunk)
  <2>1. PICK pages, packed, to : /\ PagesHold(p.file, {}, pages, to, packed) /\ PagesTyped(pages, p.file)
                                 /\ e \in Range(pages)
    <3>1. PagesHold(p.file, {}, p.main, Len(Bytes(p.input.main)), Bytes(p.input.main))
      BY DEF ArchiveHolds
    <3>2. PagesHold(p.file, {}, p.aux, Len(Bytes(p.input.aux)), Bytes(p.input.aux))
      BY DEF ArchiveHolds
    <3>3. CASE e \in Range(p.main)
      BY <1>0, <3>1, <3>3
    <3>4. CASE e \in Range(p.aux)
      BY <1>0, <3>2, <3>4
    <3> QED BY <3>3, <3>4
  <2>2. PICK k \in 1..Len(pages) : e = pages[k]
    BY <2>1 DEF PagesTyped, Range
  <2>3. PageHolds(p.file, {}, e, PageEnd(pages, k, to), packed)
    BY <2>1, <2>2 DEF PagesHold
  <2>4. BlocksAt(p, e) = p.file[e.offset + 1].blocks
    BY DEF BlocksAt
  <2>5. BlocksAt(p, e) \in Seq(BlockInfo)
    BY <2>1, <2>2, <2>4 DEF PagesTyped
  <2>6. \A i \in 1..Len(BlocksAt(p, e)) : \E chunk \in Seq(Byte) :
                   Holds(p.file, {}, (e.start_block + i) - 1, BlocksAt(p, e)[i], chunk)
    BY <2>3, <2>4, PageBlock
  <2>7. e.start_block \in Nat
    <3>1. e \in Entry
      BY <2>1, <2>2 DEF PagesTyped
    <3> QED BY <3>1 DEF Entry
  <2> QED BY <2>5, <2>6, <2>7
<1>2. ASSUME NEW x \in HashIndex(p), x.block.hash # NoHash
      PROVE  read_block(p, x.idx, x.block) = x.block.hash
  <2>1. PICK e \in Range(p.main) \cup Range(p.aux) : x \in StoredBlocks(p, e)
    BY DEF HashIndex
  <2>2. PICK i \in DOMAIN BlocksAt(p, e) :
           /\ ~ is_sparse(BlocksAt(p, e)[i]) /\ ~ is_parent_ref(BlocksAt(p, e)[i])
           /\ x = [idx |-> e.start_block + i - 1, block |-> BlocksAt(p, e)[i]]
    BY <2>1 DEF StoredBlocks
  <2>3. i \in 1..Len(BlocksAt(p, e))
    BY <1>1
  <2>4. PICK chunk \in Seq(Byte) : Holds(p.file, {}, (e.start_block + i) - 1, BlocksAt(p, e)[i], chunk)
    BY <1>1, <2>3
  <2>5. x.idx = (e.start_block + i) - 1 /\ x.block = BlocksAt(p, e)[i]
    <3>1. e.start_block + i - 1 = (e.start_block + i) - 1
      BY <1>1, <2>3
    <3> QED BY <2>2, <3>1
  <2>6. Holds(p.file, {}, x.idx, x.block, chunk) /\ ~ is_sparse(x.block)
    BY <2>2, <2>4, <2>5
  <2>7. x.block.hash \in {NoHash, chunk} /\ read_block(p, x.idx, x.block) = chunk
    BY <2>6, NoBaseBlock
  <2> QED BY <1>2, <2>7
<1>3. ASSUME NEW h \in iter_block_hashes(p)
      PROVE  h # NoHash /\ get_block_by_hash(p, h) # {}
  <2>0. \E e \in Range(p.main) : \E x \in Range(BlocksAt(p, e)) :
           ~ is_sparse(x) /\ x.hash # NoHash /\ h = x.hash
    BY DEF iter_block_hashes
  <2>1. PICK e, x :
           /\ e \in Range(p.main) /\ x \in Range(BlocksAt(p, e))
           /\ ~ is_sparse(x) /\ x.hash # NoHash /\ h = x.hash
    BY <2>0
  <2>2. PICK i \in DOMAIN BlocksAt(p, e) : x = BlocksAt(p, e)[i]
    BY <2>1 DEF Range
  <2>3. i \in 1..Len(BlocksAt(p, e)) /\ e \in Range(p.main) \cup Range(p.aux)
    BY <1>1, <2>1
  <2>4. ~ is_parent_ref(x)
    <3>1. PICK chunk \in Seq(Byte) : Holds(p.file, {}, (e.start_block + i) - 1, BlocksAt(p, e)[i], chunk)
      BY <1>1, <2>3
    <3> QED BY <2>2, <3>1, NoBaseBlock
  <2>y. PICK y : y = [idx |-> e.start_block + i - 1, block |-> x]
    OBVIOUS
  <2>5. y \in StoredBlocks(p, e)
    BY <2>1, <2>2, <2>4, <2>y DEF StoredBlocks
  <2>6. y \in HashIndex(p) /\ y.block.hash = h
    <3>1. y.block = x
      BY <2>y
    <3> QED BY <2>1, <2>3, <2>5, <3>1 DEF HashIndex
  <2> QED BY <2>1, <2>6 DEF get_block_by_hash
<1>4. DOMAIN <<p>> = {1} /\ <<p>>[1] = p
  OBVIOUS
<1>5. ASSUME NEW h \in iter_block_hashes(p)
      PROVE  /\ { k \in DOMAIN <<p>> : get_block_by_hash(<<p>>[k], h) # {} } = {1}
             /\ \A x \in get_block_by_hash(<<p>>[1], h) : read_block(<<p>>[1], x.idx, x.block) = h
  <2>1. h # NoHash /\ get_block_by_hash(p, h) # {}
    BY <1>3
  <2>2. ASSUME NEW x \in get_block_by_hash(p, h) PROVE read_block(p, x.idx, x.block) = h
    <3>1. x \in HashIndex(p) /\ x.block.hash = h
      BY DEF get_block_by_hash
    <3> QED BY <1>2, <2>1, <3>1
  <2> QED BY <1>4, <2>1, <2>2
<1> QED BY <1>5 DEF Serves

\* The bytes of a block are those it stands for.
LEMMA BytesAre ==
    ASSUME NEW a, NEW parents, NEW hs, Serves(parents, hs), NEW idx, NEW b, NEW chunk,
           Holds(a.file, hs, idx, b, chunk)
    PROVE  BlockBytes(a, parents, idx, b) = chunk
<1>1. CASE b.offset = 0 /\ b.length = 0 /\ chunk = Zeros(Len(chunk)) /\ b.logical_len = Len(chunk)
  <2>1. BlockBytes(a, parents, idx, b) = Zeros(b.logical_len)
    BY <1>1, Zenon DEF BlockBytes
  <2> QED BY <1>1, <2>1
<1>2. CASE /\ b.offset \in Nat /\ b.length = 1
           /\ a.file[b.offset + 1].kind = "block"
           /\ a.file[b.offset + 1].data = chunk /\ a.file[b.offset + 1].nonce \in {PlainNonce, idx}
  <2>1. ~ is_parent_ref(b) /\ ~ (b.length = 0)
    BY <1>2 DEF is_parent_ref, BLOCK_OFFSET_PARENT
  <2>2. BlockBytes(a, parents, idx, b) = read_block(a, idx, b)
    BY <2>1, Zenon DEF BlockBytes
  <2>3. read_block(a, idx, b) = chunk
    BY <1>2, Zenon DEF read_block
  <2> QED BY <2>2, <2>3
<1>3. CASE b.offset = BLOCK_OFFSET_PARENT /\ b.length = 0 /\ b.hash = chunk /\ chunk \in hs
  <2>1. is_parent_ref(b) /\ ~ (b.offset = 0)
    BY <1>3 DEF is_parent_ref, BLOCK_OFFSET_PARENT
  <2> DEFINE holders == { k \in DOMAIN parents : get_block_by_hash(parents[k], b.hash) # {} }
             first == CHOOSE k \in holders : \A j \in holders : k <= j
             found == CHOOSE x \in get_block_by_hash(parents[first], b.hash) : TRUE
  <2>2. holders = {1}
    BY <1>3 DEF Serves
  <2>3. BlockBytes(a, parents, idx, b) = read_block(parents[first], found.idx, found.block)
    <3>1. ~ (holders = {})
      BY <2>2
    <3> QED BY <2>1, <3>1, Zenon DEF BlockBytes
  <2>4. first = 1
    <3> HIDE DEF holders
    <3>1. \E k \in holders : \A j \in holders : k <= j
      BY <2>2
    <3>2. first \in holders
      BY <3>1, Zenon
    <3> HIDE DEF first
    <3> QED BY <2>2, <3>2
  <2>5. get_block_by_hash(parents[1], b.hash) # {}
    BY <2>2
  <2> HIDE DEF first, holders
  <2>6. found \in get_block_by_hash(parents[1], b.hash)
    BY <2>4, <2>5, Zenon
  <2> HIDE DEF found
  <2> QED BY <1>3, <2>3, <2>4, <2>6 DEF Serves
<1> QED BY <1>1, <1>2, <1>3 DEF Holds

-----------------------------------------------------------------------------
(* Reading a stream.                                                       *)

\* The bytes of packed from one place to another.
IsRead(o, packed, from, to) ==
    o \in Seq(Byte) /\ Len(o) = to - from /\ \A i \in 1..Len(o) : o[i] = packed[from + i]

\* A scan for n bytes of packed behind the first offset has read those up to its position,
\* and has them all, or is at or behind e.
Reads(w, packed, offset, n, e) ==
    /\ w.pos \in Nat /\ w.remaining \in Nat /\ offset <= w.pos /\ w.pos + w.remaining = offset + n
    /\ IsRead(w.out, packed, offset, w.pos)
    /\ w.remaining = 0 \/ e <= w.pos

\* A slice of a chunk that the stream holds.
LEMMA PieceIs ==
    ASSUME NEW packed, NEW start \in Nat, NEW chunk \in Seq(Byte), HoldsAt(packed, start, chunk),
           NEW skip \in Nat, NEW n \in Nat, skip + n <= Len(chunk),
           NEW pos, pos = start + skip, NEW to, to = pos + n
    PROVE  IsRead(Piece(chunk, skip, n), packed, pos, to)
<1>1. PICK l \in Nat : l = Len(chunk) /\ DOMAIN chunk = 1..l
  OBVIOUS
<1>2. ASSUME NEW i \in 1..n
      PROVE  /\ skip + i \in DOMAIN chunk /\ chunk[skip + i] \in Byte
             /\ chunk[skip + i] = packed[pos + i]
  <2>1. skip + i \in 1..l
    BY <1>1
  <2>2. start + (skip + i) = pos + i
    OBVIOUS
  <2> QED BY <1>1, <2>1, <2>2 DEF HoldsAt
<1> DEFINE p == [i \in 1..n |-> chunk[skip + i]]
<1>3. Piece(chunk, skip, n) = p
  BY <1>2 DEF Piece
<1>4. p \in Seq(Byte) /\ Len(p) = n
  BY <1>2
<1>5. \A i \in 1..n : p[i] = packed[pos + i]
  BY <1>2
<1> HIDE DEF p
<1>6. IsRead(p, packed, pos, to)
  BY <1>4, <1>5 DEF IsRead
<1> QED BY <1>3, <1>6

\* Two sequences of bytes, one behind the other.
LEMMA JoinOfTwo ==
    ASSUME NEW x \in Seq(Byte), NEW y \in Seq(Byte)
    PROVE  /\ x \o y \in Seq(Byte) /\ Len(x \o y) = Len(x) + Len(y)
           /\ \A j \in 1..Len(x) : (x \o y)[j] = x[j]
           /\ \A j \in 1..Len(y) : (x \o y)[Len(x) + j] = y[j]
OBVIOUS

\* What was read, with what is read behind it.
LEMMA ReadsMore ==
    ASSUME NEW packed, NEW offset \in Nat, NEW pos \in Nat, NEW to \in Nat,
           offset <= pos, pos <= to,
           NEW o, IsRead(o, packed, offset, pos), NEW t, IsRead(t, packed, pos, to)
    PROVE  IsRead(o \o t, packed, offset, to)
<1>1. PICK c \in Nat, m \in Nat : c = Len(o) /\ offset + c = pos /\ m = Len(t) /\ pos + m = to
  BY DEF IsRead
<1>2. PICK u : u = o \o t
  OBVIOUS
<1>3. /\ u \in Seq(Byte) /\ Len(u) = c + m
      /\ \A k \in 1..c : u[k] = o[k]
      /\ \A k \in 1..m : u[c + k] = t[k]
  <2>1. /\ o \o t \in Seq(Byte) /\ Len(o \o t) = Len(o) + Len(t)
        /\ \A k \in 1..Len(o) : (o \o t)[k] = o[k]
        /\ \A k \in 1..Len(t) : (o \o t)[Len(o) + k] = t[k]
    BY JoinOfTwo DEF IsRead
  <2> QED BY <1>1, <1>2, <2>1
<1>4. ASSUME NEW k \in 1..(c + m) PROVE u[k] = packed[offset + k]
  <2>1. CASE k \in 1..c
    BY <1>1, <1>3, <2>1 DEF IsRead
  <2>2. CASE k \notin 1..c
    <3>1. PICK j \in 1..m : k = c + j
      <4>1. k - c \in 1..m /\ k = c + (k - c)
        BY <2>2
      <4> QED BY <4>1
    <3>2. u[k] = packed[pos + j]
      BY <1>1, <1>3, <3>1 DEF IsRead
    <3>3. pos + j = offset + k
      BY <1>1, <3>1
    <3> QED BY <3>2, <3>3
  <2> QED BY <2>1, <2>2
<1>5. Len(u) = to - offset
  BY <1>1, <1>3
<1> QED BY <1>2, <1>3, <1>4, <1>5 DEF IsRead

\* How much of a block of l bytes that starts at start is read at pos.
IsPart(pos, rem, start, l, skip, m, to, left) ==
    /\ skip \in Nat /\ skip = pos - start /\ pos = start + skip
    /\ m \in Nat /\ m = (IF rem <= l - skip THEN rem ELSE l - skip) /\ skip + m <= l
    /\ to \in Nat /\ to = pos + m /\ pos <= to
    /\ left \in Nat /\ left = rem - m /\ to + left = pos + rem
    /\ left = 0 \/ start + l <= to

\* There is such a part of a block that is not before the position.
LEMMA PartRead ==
    ASSUME NEW pos \in Nat, NEW rem \in Nat, NEW start \in Nat, NEW l \in Nat,
           start <= pos, pos < start + l
    PROVE  \E skip, m, to, left : IsPart(pos, rem, start, l, skip, m, to, left)
<1>1. PICK skip \in Nat : skip = pos - start /\ skip < l /\ pos = start + skip
  OBVIOUS
<1>2. PICK d \in Nat : d = l - skip /\ l = skip + d
  BY <1>1
<1>3. CASE rem <= d
  <2>1. rem = IF rem <= l - skip THEN rem ELSE l - skip
    BY <1>2, <1>3
  <2>2. PICK to \in Nat : to = pos + rem
    OBVIOUS
  <2>3. /\ skip + rem <= l /\ 0 = rem - rem /\ to + 0 = pos + rem /\ pos <= to
        /\ 0 = 0 \/ start + l <= to
    BY <1>2, <1>3, <2>2
  <2>4. IsPart(pos, rem, start, l, skip, rem, to, 0)
    BY <1>1, <2>1, <2>2, <2>3 DEF IsPart
  <2> QED BY <2>4
<1>4. CASE ~ (rem <= d)
  <2>1. d = IF rem <= l - skip THEN rem ELSE l - skip
    BY <1>2, <1>4
  <2>2. PICK to \in Nat, left \in Nat : to = pos + d /\ left = rem - d
    BY <1>4
  <2>3. skip + d <= l /\ to + left = pos + rem /\ pos <= to /\ start + l <= to
    BY <1>1, <1>2, <2>2
  <2>4. IsPart(pos, rem, start, l, skip, d, to, left)
    BY <1>1, <2>1, <2>2, <2>3 DEF IsPart
  <2> QED BY <2>4
<1> QED BY <1>3, <1>4

\* The scan of one block.
LEMMA ScanBlockReads ==
    ASSUME NEW a, NEW parents, NEW hs, Serves(parents, hs), NEW entry, NEW blocks, NEW i, NEW w,
           NEW packed, NEW offset \in Nat, NEW n \in Nat, BlockStart(entry, blocks, i) \in Nat,
           entry.start_block \in Nat, i \in Nat,
           HoldsThere(a.file, hs, (entry.start_block + i) - 1, blocks[i],
                      BlockStart(entry, blocks, i), packed),
           Reads(w, packed, offset, n, BlockStart(entry, blocks, i))
    PROVE  Reads(ScanBlock(a, parents, entry, blocks, w, i), packed, offset, n,
                 BlockStart(entry, blocks, i) + blocks[i].logical_len)
<1>0. PICK start \in Nat : start = BlockStart(entry, blocks, i)
  OBVIOUS
<1>r. Reads(w, packed, offset, n, start)
  BY <1>0
<1>1. PICK chunk \in Seq(Byte) : /\ Holds(a.file, hs, (entry.start_block + i) - 1, blocks[i], chunk)
                                 /\ HoldsAt(packed, start, chunk)
  BY <1>0 DEF HoldsThere
<1>2. PICK l \in Nat : l = Len(chunk) /\ l = blocks[i].logical_len
  BY <1>1 DEF Holds
<1>3. BlockBytes(a, parents, entry.start_block + i - 1, blocks[i]) = chunk
  <2>1. entry.start_block + i - 1 = (entry.start_block + i) - 1
    OBVIOUS
  <2>2. BlockBytes(a, parents, (entry.start_block + i) - 1, blocks[i]) = chunk
    BY <1>1, BytesAre
  <2> QED BY <2>1, <2>2
<1>4. PICK pos \in Nat, rem \in Nat : pos = w.pos /\ rem = w.remaining
  BY <1>r DEF Reads
<1>v. PICK v : v = ScanBlock(a, parents, entry, blocks, w, i)
  OBVIOUS
<1>5. CASE rem = 0 \/ start + l <= pos
  <2>1. v = w
    BY <1>0, <1>2, <1>4, <1>5, <1>v, Zenon DEF ScanBlock
  <2>2. Reads(v, packed, offset, n, start + l)
    BY <1>4, <1>5, <1>r, <2>1 DEF Reads
  <2> QED BY <1>0, <1>2, <1>v, <2>2, Zenon
<1>6. CASE ~ (rem = 0 \/ start + l <= pos)
  <2>1. start <= pos /\ pos < start + l /\ offset <= pos /\ pos + rem = offset + n
    BY <1>4, <1>6, <1>r DEF Reads
  <2>2. PICK skip, m, to, left : IsPart(pos, rem, start, l, skip, m, to, left)
    BY <2>1, PartRead
  <2>3. IsRead(Piece(chunk, skip, m), packed, pos, to)
    BY <1>1, <1>2, <2>2, PieceIs DEF IsPart
  <2>4. IsRead(w.out, packed, offset, pos)
    BY <1>4, <1>r DEF Reads
  <2>5. to \in Nat /\ left \in Nat /\ pos <= to /\ (left = 0 \/ start + l <= to)
    BY <2>2 DEF IsPart
  <2>6. offset <= to /\ to + left = offset + n
    BY <2>1, <2>2, <2>5 DEF IsPart
  <2>7. PICK out : out = w.out \o Piece(chunk, skip, m) /\ IsRead(out, packed, offset, to)
    BY <2>1, <2>3, <2>4, <2>5, ReadsMore
  <2>8. v = [pos |-> to, remaining |-> left, out |-> out]
    <3>1. /\ skip = pos - start /\ to = pos + m /\ left = rem - m
          /\ m = IF rem <= l - skip THEN rem ELSE l - skip
      BY <2>2 DEF IsPart
    <3> QED BY <1>0, <1>2, <1>3, <1>4, <1>6, <1>v, <2>7, <3>1, Zenon DEF ScanBlock
  <2>9. v.pos = to /\ v.remaining = left /\ v.out = out
    BY <2>8
  <2>10. Reads(v, packed, offset, n, start + l)
    BY <2>5, <2>6, <2>7, <2>9 DEF Reads
  <2> QED BY <1>0, <1>2, <1>v, <2>10, Zenon
<1> QED BY <1>5, <1>6

\* The scan of one page.
LEMMA ScanPageReads ==
    ASSUME NEW a, NEW parents, NEW hs, Serves(parents, hs), NEW entry \in Entry, NEW w,
           BlocksAt(a, entry) \in Seq(BlockInfo), NEW to, NEW packed, NEW offset \in Nat, NEW n \in Nat,
           PageHolds(a.file, hs, entry, to, packed),
           Reads(w, packed, offset, n, entry.start_logical)
    PROVE  Reads(ScanPage(a, parents, w, entry), packed, offset, n, to)
<1>0. w.pos \in Nat /\ w.remaining \in Nat /\ entry.start_logical \in Nat /\ entry.start_block \in Nat
  BY DEF Reads, Entry
<1>1. CASE w.remaining = 0 \/ entry.start_logical > w.pos + w.remaining
  <2>1. w.remaining = 0
    BY <1>0, <1>1 DEF Reads
  <2>2. ScanPage(a, parents, w, entry) = w
    BY <2>1, Zenon DEF ScanPage
  <2> QED BY <2>1, <2>2 DEF Reads
<1>2. CASE ~ (w.remaining = 0 \/ entry.start_logical > w.pos + w.remaining)
  <2>1. PICK blocks \in Seq(BlockInfo) : blocks = BlocksAt(a, entry)
    OBVIOUS
  <2>4. PICK l \in Nat : l = Len(blocks)
    OBVIOUS
  <2>2. PICK h : /\ h[0] = w
                 /\ \A i \in 1..l : h[i] = ScanBlock(a, parents, entry, blocks, h[i - 1], i)
                 /\ ScanPage(a, parents, w, entry) = h[l]
    <3>1. BlocksAt(a, entry) \in Seq(BlockInfo) /\ ~ (w.remaining = 0 \/ entry.start_logical > w.pos + w.remaining)
      BY <1>2
    <3>2. \E h : /\ h[0] = w
                 /\ \A i \in 1..Len(BlocksAt(a, entry)) :
                       h[i] = ScanBlock(a, parents, entry, BlocksAt(a, entry), h[i - 1], i)
                 /\ ScanPage(a, parents, w, entry) = h[Len(BlocksAt(a, entry))]
      BY <3>1, ScanPageRuns
    <3> QED BY <2>1, <2>4, <3>2
  <2>3. BlocksHold(a.file, hs, blocks, entry.start_block, entry.start_logical, to, packed)
    BY <2>1 DEF PageHolds, BlocksAt
  <2> DEFINE at(k) == At(entry.start_logical, blocks, k)
  <2>6. /\ \A k \in 1..l : HoldsThere(a.file, hs, (entry.start_block + k) - 1, blocks[k], at(k), packed)
        /\ at(l + 1) = to
    BY <2>3, <2>4 DEF BlocksHold
  <2>b. \A k \in 1..(l + 1) : BlockStart(entry, blocks, k) = at(k)
    BY <1>0, <2>4, AtIs
  <2>5. /\ at(1) = entry.start_logical
        /\ \A k \in 1..(l + 1) : at(k) \in Nat
        /\ \A k \in 1..l : at(k + 1) = at(k) + blocks[k].logical_len
    BY <1>0, <2>4, AtSteps
  <2> HIDE DEF at
  <2> DEFINE T == { k \in 0..l : Reads(h[k], packed, offset, n, at(k + 1)) }
  <2>7. 0 \in T
    BY <2>2, <2>5
  <2>8. ASSUME NEW k \in 1..l, k - 1 \in T PROVE k \in T
    <3>1. Reads(h[k - 1], packed, offset, n, at(k))
      <4>1. (k - 1) + 1 = k
        OBVIOUS
      <4> QED BY <2>8, <4>1
    <3>2. at(k) \in Nat /\ BlockStart(entry, blocks, k) = at(k)
      BY <2>5, <2>b
    <3>3. HoldsThere(a.file, hs, (entry.start_block + k) - 1, blocks[k], at(k), packed)
      BY <2>6
    <3>4. Reads(ScanBlock(a, parents, entry, blocks, h[k - 1], k), packed, offset, n,
                at(k) + blocks[k].logical_len)
      BY <1>0, <3>1, <3>2, <3>3, ScanBlockReads
    <3>5. Reads(h[k], packed, offset, n, at(k + 1))
      BY <2>2, <2>4, <2>5, <3>4
    <3> QED BY <3>5
  <2>9. Reads(h[l], packed, offset, n, at(l + 1))
    <3> HIDE DEF T
    <3>1. \A k \in 1..l : k - 1 \in T => k \in T
      BY <2>8
    <3>2. 0..l \subseteq T
      BY <2>7, <3>1, Upwards
    <3> QED BY <3>2 DEF T
  <2>10. ScanPage(a, parents, w, entry) = h[l]
    BY <2>2
  <2> QED BY <2>6, <2>9, <2>10
<1> QED BY <1>1, <1>2

\* The page to start from is there, at or before the offset; there is none without pages.
LEMMA FindPageIs ==
    ASSUME NEW pages \in Seq(Entry), NEW offset \in Nat,
           pages # <<>> => pages[1].start_logical = 0
    PROVE  IF pages = <<>> THEN FindPage(pages, offset) = 1
           ELSE /\ FindPage(pages, offset) \in 1..Len(pages)
                /\ pages[FindPage(pages, offset)].start_logical <= offset
<1> DEFINE before == { i \in DOMAIN pages : pages[i].start_logical <= offset }
           at == { i \in before : pages[i].start_logical = offset }
           met == CHOOSE i \in at : TRUE
           last == CHOOSE i \in before : \A j \in before : j <= i
           p == IF at # {} THEN met ELSE last
<1>1. FindPage(pages, offset) = IF at # {} THEN met ELSE IF before = {} THEN 1 ELSE last
  BY Zenon DEF FindPage
<1>2. PICK n \in Nat : n = Len(pages) /\ DOMAIN pages = 1..n /\ (n = 0 <=> pages = <<>>)
  OBVIOUS
<1>3. CASE pages = <<>>
  <2>1. before = {} /\ at = {}
    BY <1>2, <1>3
  <2> QED BY <1>1, <1>3, <2>1
<1>4. CASE pages # <<>>
  <2>1. 1 \in before /\ before \in SUBSET (1..n)
    BY <1>2, <1>4
  <2>6. at \subseteq before
    OBVIOUS
  <2>7. at # {} => met \in at
    BY Zenon
  <2> HIDE DEF before, at, met
  <2>2. Max(before) \in before /\ \A i \in before : i <= Max(before)
    <3>1. before # {}
      BY <2>1
    <3> QED BY <2>1, <3>1, MaxIs
  <2>3. p \in before
    <3>1. last \in before
      BY <2>2, Zenon
    <3> HIDE DEF last
    <3> QED BY <2>6, <2>7, <3>1
  <2>4. FindPage(pages, offset) = p
    <3>1. before # {}
      BY <2>1
    <3> HIDE DEF last
    <3> QED BY <1>1, <3>1
  <2> HIDE DEF p
  <2>5. p \in 1..n /\ pages[p].start_logical <= offset
    BY <2>1, <2>3 DEF before
  <2> QED BY <1>2, <1>4, <2>4, <2>5
<1> QED BY <1>3, <1>4

\* What is left of a list of pages from one of them on, or behind none.
LEMMA PagesFrom ==
    ASSUME NEW pages \in Seq(Entry), NEW p \in 1..(Len(pages) + 1)
    PROVE  \E part \in Seq(Entry), m \in Nat :
              /\ part = SubSeq(pages, p, Len(pages)) /\ Len(part) = m /\ p + m = Len(pages) + 1
              /\ \A i \in 1..m : (p + i) - 1 \in 1..Len(pages) /\ part[i] = pages[(p + i) - 1]
<1>1. PICK n \in Nat : n = Len(pages)
  OBVIOUS
<1>2. PICK m \in Nat : p + m = n + 1
  <2>1. (n + 1) - p \in Nat /\ p + ((n + 1) - p) = n + 1
    BY <1>1
  <2> QED BY <2>1
<1>3. \A i \in 1..m : (p + i) - 1 \in 1..n
  BY <1>1, <1>2
<1> DEFINE s == SubSeq(pages, p, n)
<1>4. s \in Seq(Entry) /\ Len(s) = m /\ \A i \in 1..m : s[i] = pages[(p + i) - 1]
  BY <1>1, <1>2
<1> HIDE DEF s
<1>5. s = SubSeq(pages, p, Len(pages))
  BY <1>1 DEF s
<1> QED BY <1>1, <1>2, <1>3, <1>4, <1>5

\* The scan of a stream reads what is wanted.
LEMMA ScanStreamReads ==
    ASSUME NEW a, NEW parents, NEW hs, Serves(parents, hs), NEW stream, NEW packed \in Seq(Byte),
           PagesTyped(Pages(a, stream), a.file),
           PagesHold(a.file, hs, Pages(a, stream), Len(packed), packed),
           NEW offset \in Nat, NEW n \in Nat, offset + n <= Len(packed)
    PROVE  /\ ScanStream(a, parents, stream, offset, n).remaining = 0
           /\ IsRead(ScanStream(a, parents, stream, offset, n).out, packed, offset, offset + n)
<1>1. PICK pages \in Seq(Entry) : pages = Pages(a, stream)
  BY DEF PagesTyped
<1>2. PICK total \in Nat, c \in Nat : total = Len(packed) /\ c = Len(pages)
  OBVIOUS
<1>3. /\ \A k \in 1..c : PageHolds(a.file, hs, pages[k], PageEnd(pages, k, total), packed)
      /\ pages = <<>> => total = 0
      /\ pages # <<>> => pages[1].start_logical = 0
  BY <1>1, <1>2 DEF PagesHold
<1>4. PICK p \in 1..(c + 1) :
         /\ p = FindPage(pages, offset)
         /\ p <= c => pages[p].start_logical <= offset
         /\ p > c => total = 0
  <2>1. CASE pages = <<>>
    <3>1. c = 0 /\ FindPage(pages, offset) = 1 /\ total = 0
      BY <1>2, <1>3, <2>1, FindPageIs
    <3> QED BY <3>1
  <2>2. CASE pages # <<>>
    <3>1. FindPage(pages, offset) \in 1..c /\ pages[FindPage(pages, offset)].start_logical <= offset
      BY <1>2, <1>3, <2>2, FindPageIs
    <3> QED BY <3>1
  <2> QED BY <2>1, <2>2
<1>5. PICK part \in Seq(Entry), m \in Nat :
         /\ part = SubSeq(pages, p, Len(pages)) /\ Len(part) = m /\ p + m = c + 1
         /\ \A i \in 1..m : (p + i) - 1 \in 1..c /\ part[i] = pages[(p + i) - 1]
  BY <1>2, PagesFrom
<1>6. PICK h : /\ h[0] = [pos |-> offset, remaining |-> n, out |-> <<>>]
               /\ \A i \in 1..m : h[i] = ScanPage(a, parents, h[i - 1], part[i])
               /\ ScanStream(a, parents, stream, offset, n) = h[m]
  <2>1. part = PartFrom(a, stream, offset)
    BY <1>1, <1>4, <1>5 DEF PartFrom
  <2>2. PICK h : IsStreamScan(h, a, parents, part, offset, n, ScanStream(a, parents, stream, offset, n))
    <3>1. PartFrom(a, stream, offset) \in Seq(Entry)
      BY <2>1
    <3> QED BY <2>1, <3>1, ScanStreamRuns
  <2> QED BY <1>5, <2>2 DEF IsStreamScan
<1> DEFINE from(k) == IF k <= c THEN pages[k].start_logical ELSE total
<1>7. \A k \in 1..c : PageEnd(pages, k, total) = from(k + 1)
  BY <1>2 DEF PageEnd
<1>8. from(p) <= offset \/ n = 0
  BY <1>2, <1>4
<1>9. from(c + 1) = total
  BY <1>2
<1>10. \A k \in 1..c : from(k) = pages[k].start_logical
  BY <1>2
<1> HIDE DEF from
<1>11. Reads(h[0], packed, offset, n, from(p))
  <2>1. h[0].pos = offset /\ h[0].remaining = n /\ h[0].out = <<>>
    BY <1>6
  <2>2. IsRead(<<>>, packed, offset, offset)
    <3>1. PICK none \in Seq(Byte) : none = <<>> /\ Len(none) = 0 /\ \A i \in 1..Len(none) : FALSE
      <4>0. <<>> \in Seq(Byte)
        OBVIOUS
      <4>1. PICK none \in Seq(Byte) : none = <<>>
        BY <4>0
      <4>2. Len(none) = 0 /\ 1..0 = {}
        BY <4>1, EmptySequence
      <4> QED BY <4>1, <4>2
    <3>2. offset - offset = 0
      OBVIOUS
    <3> QED BY <3>1, <3>2 DEF IsRead
  <2> QED BY <1>8, <2>1, <2>2 DEF Reads
<1>12. ASSUME NEW i \in 1..m, Reads(h[i - 1], packed, offset, n, from((p + i) - 1))
       PROVE  Reads(h[i], packed, offset, n, from(p + i))
  <2>1. PICK k \in 1..c : k = (p + i) - 1 /\ k + 1 = p + i /\ part[i] = pages[k]
    <3>1. (p + i) - 1 \in 1..c /\ part[i] = pages[(p + i) - 1]
      BY <1>5
    <3>2. ((p + i) - 1) + 1 = p + i
      OBVIOUS
    <3> QED BY <3>1, <3>2
  <2>2. PICK entry \in Entry : entry = pages[k]
    BY <1>2
  <2>3. PageHolds(a.file, hs, entry, from(k + 1), packed)
    BY <1>3, <1>7, <2>2
  <2>4. Reads(h[i - 1], packed, offset, n, entry.start_logical)
    BY <1>10, <1>12, <2>1, <2>2
  <2>5. BlocksAt(a, entry) \in Seq(BlockInfo)
    BY <1>1, <1>2, <2>2 DEF PagesTyped, BlocksAt
  <2>6. Reads(ScanPage(a, parents, h[i - 1], entry), packed, offset, n, from(k + 1))
    BY <2>3, <2>4, <2>5, ScanPageReads
  <2>7. h[i] = ScanPage(a, parents, h[i - 1], entry)
    BY <1>6, <2>1, <2>2
  <2> QED BY <2>1, <2>6, <2>7
<1> DEFINE T == { k \in 0..m : Reads(h[k], packed, offset, n, from(p + k)) }
<1>13. 0 \in T
  <2>1. p + 0 = p
    OBVIOUS
  <2> QED BY <1>11, <2>1
<1>14. ASSUME NEW k \in 1..m, k - 1 \in T PROVE k \in T
  <2>1. p + (k - 1) = (p + k) - 1
    OBVIOUS
  <2>2. Reads(h[k - 1], packed, offset, n, from((p + k) - 1))
    BY <1>14, <2>1
  <2>3. Reads(h[k], packed, offset, n, from(p + k))
    BY <1>12, <2>2
  <2> QED BY <2>3
<1>15. Reads(h[m], packed, offset, n, from(p + m))
  <2> HIDE DEF T
  <2>1. \A k \in 1..m : k - 1 \in T => k \in T
    BY <1>14
  <2>2. 0..m \subseteq T
    BY <1>13, <2>1, Upwards
  <2> QED BY <2>2 DEF T
<1>16. Reads(h[m], packed, offset, n, total)
  BY <1>5, <1>9, <1>15
<1>17. PICK w : w = h[m]
  OBVIOUS
<1>18. w.remaining = 0 /\ w.pos = offset + n
  <2>1. PICK pos \in Nat, rem \in Nat :
           /\ pos = w.pos /\ rem = w.remaining /\ pos + rem = offset + n
           /\ rem = 0 \/ total <= pos
    BY <1>16, <1>17 DEF Reads
  <2>2. offset + n <= total
    BY <1>2
  <2>3. rem = 0 /\ pos = offset + n
    BY <2>1, <2>2
  <2> QED BY <2>1, <2>3
<1>19. IsRead(w.out, packed, offset, offset + n)
  BY <1>16, <1>17, <1>18 DEF Reads
<1> QED BY <1>6, <1>17, <1>18, <1>19

\* What is read is the part of what was packed.
LEMMA ReadIs ==
    ASSUME NEW packed \in Seq(Byte), NEW offset \in Nat, NEW to \in Nat, offset <= to, to <= Len(packed),
           NEW o, IsRead(o, packed, offset, to)
    PROVE  o = SubSeq(packed, offset + 1, to)
<1>1. PICK n \in Nat : offset + n = to
  <2>1. to - offset \in Nat /\ offset + (to - offset) = to
    OBVIOUS
  <2> QED BY <2>1
<1>2. o \in Seq(Byte) /\ Len(o) = n /\ \A i \in 1..n : o[i] = packed[offset + i]
  BY <1>1 DEF IsRead
<1>3. PICK s \in Seq(Byte) : s = SubSeq(packed, offset + 1, to) /\ Len(s) = n
                             /\ \A i \in 1..n : s[i] = packed[offset + i]
  <2>1. PICK f \in Nat, t \in Nat : f = offset + 1 /\ t = to /\ t + 1 = f + n /\ t <= Len(packed) /\ 1 <= f
    BY <1>1
  <2> DEFINE s == SubSeq(packed, f, t)
  <2>2. s \in Seq(Byte) /\ Len(s) = n
    BY <2>1
  <2>3. \A i \in 1..n : s[i] = packed[(f + i) - 1] /\ (f + i) - 1 = offset + i
    BY <2>1
  <2>4. s = SubSeq(packed, offset + 1, to)
    BY <2>1
  <2> HIDE DEF s
  <2> QED BY <2>2, <2>3, <2>4
<1> QED BY <1>2, <1>3

\* read_at returns what was packed.
LEMMA ReadAtIs ==
    ASSUME NEW a, NEW parents, NEW hs, Serves(parents, hs), NEW stream, NEW packed \in Seq(Byte),
           PagesTyped(Pages(a, stream), a.file),
           PagesHold(a.file, hs, Pages(a, stream), Len(packed), packed),
           size(a, stream) \in Nat, Len(packed) <= size(a, stream),
           NEW offset \in Nat, NEW len \in Nat,
           size(a, stream) = Len(packed) \/ offset + len <= Len(packed)
    PROVE  read_at(a, parents, stream, offset, len)
              = SubSeq(packed, offset + 1, IF offset + len < Len(packed) THEN offset + len ELSE Len(packed))
<1>1. PICK total \in Nat, sz \in Nat :
         /\ total = Len(packed) /\ sz = size(a, stream) /\ total <= sz
         /\ sz = total \/ offset + len <= total
  OBVIOUS
<1>2. PICK to \in Nat : to = IF offset + len < total THEN offset + len ELSE total
  OBVIOUS
<1>3. CASE offset >= sz
  <2>1. read_at(a, parents, stream, offset, len) = <<>>
    BY <1>1, <1>3, Zenon DEF read_at
  <2>2. to <= offset /\ to <= total
    BY <1>1, <1>2, <1>3
  <2>3. SubSeq(packed, offset + 1, to) = <<>>
    BY <1>1, <2>2
  <2> QED BY <1>1, <1>2, <2>1, <2>3
<1>4. CASE ~ (offset >= sz)
  <2>1. PICK n \in Nat : /\ n = IF len <= sz - offset THEN len ELSE sz - offset
                         /\ offset + n = to
    <3>1. CASE len <= sz - offset
      BY <1>1, <1>2, <1>4, <3>1
    <3>2. CASE ~ (len <= sz - offset)
      <4>1. PICK n \in Nat : n = sz - offset /\ offset + n = sz
        BY <1>1, <1>4
      <4>2. sz = total /\ to = total
        BY <1>1, <1>2, <4>1, <3>2
      <4> QED BY <3>2, <4>1, <4>2
    <3> QED BY <3>1, <3>2
  <2>2. offset + n <= Len(packed) /\ offset <= to /\ to <= Len(packed)
    BY <1>1, <1>2, <2>1
  <2>3. PICK w : w = ScanStream(a, parents, stream, offset, n)
    OBVIOUS
  <2>4. w.remaining = 0 /\ IsRead(w.out, packed, offset, to)
    <3>1. /\ ScanStream(a, parents, stream, offset, n).remaining = 0
          /\ IsRead(ScanStream(a, parents, stream, offset, n).out, packed, offset, offset + n)
      BY <2>1, <2>2, ScanStreamReads
    <3> QED BY <2>1, <2>3, <3>1
  <2>5. w.out \in Seq(Byte)
    BY <2>4 DEF IsRead
  <2>6. read_at(a, parents, stream, offset, len) = w.out \o <<>>
    BY <1>1, <1>4, <2>1, <2>3, <2>4, Zenon DEF read_at
  <2>7. w.out \o <<>> = w.out
    BY <2>5
  <2>8. w.out = SubSeq(packed, offset + 1, to)
    BY <2>2, <2>4, ReadIs
  <2> QED BY <1>1, <1>2, <2>6, <2>7, <2>8
<1> QED BY <1>3, <1>4

\* The parents of an archive whose base has no base serve the hashes of its base.
LEMMA ShallowServes ==
    ASSUME TypeInv, ArchivesHold, NEW i \in DOMAIN archives, Shallow(archives[i])
    PROVE  Serves(parents_of(archives[i]), ParentIndex(archives[i].base))
<1>1. archives \in Seq(ArchiveType) /\ archives[i].base \in 0..(i - 1)
  BY DEF TypeInv, ArchivesTyped, ArchivesHold
<1>2. CASE archives[i].base = 0
  BY <1>2 DEF ParentIndex, Serves
<1>3. CASE archives[i].base # 0
  <2>1. PICK b \in DOMAIN archives : b = archives[i].base
    BY <1>1, <1>3
  <2>2. PICK p \in ArchiveType : p = archives[b]
    BY <1>1
  <2>3. ThereIn(p.main, p.file) /\ ThereIn(p.aux, p.file)
    BY <2>2 DEF TypeInv, ArchivesTyped
  <2>4. p.base = 0
    BY <1>3, <2>1, <2>2 DEF Shallow
  <2>5. ArchiveHolds(p, {})
    <3>1. ArchiveHolds(p, ParentIndex(p.base))
      BY <2>2 DEF ArchivesHold
    <3> QED BY <2>4, <3>1 DEF ParentIndex
  <2>6. Serves(<<p>>, iter_block_hashes(p))
    BY <2>3, <2>5, BaseServes
  <2>7. parents_of(archives[i]) = <<p>> /\ ParentIndex(archives[i].base) = iter_block_hashes(p)
    BY <1>3, <2>1, <2>2 DEF parents_of, ParentIndex
  <2> QED BY <2>6, <2>7
<1> QED BY <1>2, <1>3

\* A stream that is as long as what was packed, or longer, reads back.
LEMMA StreamReadsBack ==
    ASSUME NEW a, NEW hs, Serves(parents_of(a), hs), NEW stream, NEW packed \in Seq(Byte),
           PagesTyped(Pages(a, stream), a.file),
           PagesHold(a.file, hs, Pages(a, stream), Len(packed), packed),
           size(a, stream) \in Nat, Len(packed) <= size(a, stream)
    PROVE  ReadsBack(a, stream, packed)
<1>1. Len(packed) \in Nat
  OBVIOUS
<1>2. ASSUME NEW offset \in 0..(Len(packed) + 1), NEW len \in 0..(Len(packed) + 1),
             size(a, stream) = Len(packed) \/ offset + len <= Len(packed)
      PROVE  read_at(a, parents_of(a), stream, offset, len)
                = SubSeq(packed, offset + 1, IF offset + len < Len(packed)
                                             THEN offset + len ELSE Len(packed))
  <2>1. offset \in Nat /\ len \in Nat
    BY <1>1
  <2> QED BY <1>2, <2>1, ReadAtIs
<1> QED BY <1>2 DEF ReadsBack

\* What is known of a finished archive whose base has no base.
LEMMA ArchiveIs ==
    ASSUME ReadInv, NEW i \in DOMAIN archives, Shallow(archives[i])
    PROVE  \E a, hs :
              /\ a \in ArchiveType /\ a = archives[i] /\ Serves(parents_of(a), hs) /\ ArchiveHolds(a, hs)
              /\ PagesTyped(a.main, a.file) /\ PagesTyped(a.aux, a.file)
              /\ a.mainSize \in Nat /\ a.auxSize \in Nat
              /\ a.input.main \in Seq(FileType) /\ a.input.aux \in Seq(FileType)
<1>1. TypeInv /\ ArchivesHold /\ archives \in Seq(ArchiveType)
  BY DEF ReadInv, TypeInv, ArchivesTyped
<1>2. PICK a \in ArchiveType : a = archives[i]
  BY <1>1
<1>3. PICK hs : hs = ParentIndex(a.base)
  OBVIOUS
<1>4. Serves(parents_of(a), hs) /\ ArchiveHolds(a, hs)
  BY <1>1, <1>2, <1>3, ShallowServes DEF ArchivesHold
<1>5. PagesTyped(a.main, a.file) /\ PagesTyped(a.aux, a.file)
  <2>1. ThereIn(a.main, a.file) /\ ThereIn(a.aux, a.file)
    BY <1>1, <1>2 DEF TypeInv, ArchivesTyped
  <2> QED BY <2>1, PagesAreTyped
<1>6. a.mainSize \in Nat /\ a.auxSize \in Nat /\ a.input \in InputType
  BY DEF ArchiveType
<1>7. a.input.main \in Seq(FileType) /\ a.input.aux \in Seq(FileType)
  BY <1>6 DEF InputType
<1> QED BY <1>2, <1>4, <1>5, <1>6, <1>7

\* Every archive whose base has no base of its own reads back as what was packed, byte for
\* byte and at every offset, whatever mix of pages, sparse, shared, encrypted and parent
\* blocks it is laid out in (read_at of core/src/api/file.rs over what pack_archive writes).
THEOREM ReadBackCorrect == Spec => []ReadBack
<1>1. ReadInv => ReadBack
  <2> SUFFICES ASSUME ReadInv, NEW i \in DOMAIN archives, Shallow(archives[i])
               PROVE  StreamsReadBack(archives[i])
    BY DEF ReadBack
  <2>1. PICK a, hs :
           /\ a \in ArchiveType /\ a = archives[i] /\ Serves(parents_of(a), hs) /\ ArchiveHolds(a, hs)
           /\ PagesTyped(a.main, a.file) /\ PagesTyped(a.aux, a.file)
           /\ a.mainSize \in Nat /\ a.auxSize \in Nat
           /\ a.input.main \in Seq(FileType) /\ a.input.aux \in Seq(FileType)
    BY ArchiveIs
  <2>2. ASSUME \A k \in DOMAIN a.input.main : Unchanged(a.input.main[k])
        PROVE  ReadsBack(a, "main", Bytes(a.input.main))
    <3>1. PICK files \in Seq(FileType) : files = a.input.main
      BY <2>1
    <3>2. PICK packed \in Seq(Byte) : packed = Bytes(files)
      BY ChunksAre
    <3>3. Total(files) = Len(packed)
      <4>1. \A k \in 1..Len(files) : Unchanged(files[k])
        BY <2>2, <3>1
      <4> QED BY <3>2, <4>1, TotalIsAll
    <3>4. Len(packed) <= a.mainSize
      <4>1. PICK n \in Nat, l \in Nat : n = Len(files) /\ l = Len(packed)
        OBVIOUS
      <4>2. a.mainSize = l \/ a.mainSize = l + TarHeader * n
        BY <2>1, <3>1, <3>3, <4>1 DEF ArchiveHolds, TarSize
      <4>3. TarHeader * n = n
        BY DEF TarHeader
      <4> QED BY <4>1, <4>2, <4>3
    <3>5. Pages(a, "main") = a.main /\ size(a, "main") = a.mainSize
      BY DEF Pages, size
    <3>6. PagesHold(a.file, hs, a.main, Len(packed), packed)
      BY <2>1, <3>1, <3>2 DEF ArchiveHolds
    <3>7. ReadsBack(a, "main", packed)
      BY <2>1, <3>4, <3>5, <3>6, StreamReadsBack
    <3> QED BY <3>1, <3>2, <3>7
  <2>3. ASSUME \A k \in DOMAIN a.input.aux : Unchanged(a.input.aux[k])
        PROVE  ReadsBack(a, "aux", Bytes(a.input.aux))
    <3>1. PICK files \in Seq(FileType) : files = a.input.aux
      BY <2>1
    <3>2. PICK packed \in Seq(Byte) : packed = Bytes(files)
      BY ChunksAre
    <3>3. Total(files) = Len(packed)
      <4>1. \A k \in 1..Len(files) : Unchanged(files[k])
        BY <2>3, <3>1
      <4> QED BY <3>2, <4>1, TotalIsAll
    <3>4. Len(packed) <= a.auxSize
      <4>1. PICK l \in Nat : l = Len(packed)
        OBVIOUS
      <4>2. a.auxSize = l
        BY <2>1, <3>1, <3>3, <4>1 DEF ArchiveHolds
      <4> QED BY <4>1, <4>2
    <3>5. Pages(a, "aux") = a.aux /\ size(a, "aux") = a.auxSize
      BY DEF Pages, size
    <3>6. PagesHold(a.file, hs, a.aux, Len(packed), packed)
      BY <2>1, <3>1, <3>2 DEF ArchiveHolds
    <3>7. ReadsBack(a, "aux", packed)
      BY <2>1, <3>4, <3>5, <3>6, StreamReadsBack
    <3> QED BY <3>1, <3>2, <3>7
  <2>4. StreamsReadBack(a)
    BY <2>2, <2>3 DEF StreamsReadBack
  <2> QED BY <2>1, <2>4
<1> QED BY <1>1, ReadInvariance, PTL

\* A file of a directory that did not change while the directory was packed is extracted
\* as it was, even when files before it shrank (extract_archive over the manifest of
\* pack_directory), as long as the stream is not longer than the size the walk gave it.
THEOREM ExtractUnchangedCorrect == Spec => []ExtractUnchanged
<1>1. ReadInv => ExtractUnchanged
  <2> SUFFICES ASSUME ReadInv, NEW i \in DOMAIN archives, Shallow(archives[i]),
                      Len(Bytes(archives[i].input.main)) <= archives[i].mainSize,
                      NEW e \in Entries(archives[i], "main"),
                      Unchanged(archives[i].input.main[e.file])
               PROVE  ExtractEntry(archives[i], e) = Contents(archives[i].input.main[e.file])
    BY Zenon DEF ExtractUnchanged
  <2>1. PICK a, hs :
           /\ a \in ArchiveType /\ a = archives[i] /\ Serves(parents_of(a), hs) /\ ArchiveHolds(a, hs)
           /\ PagesTyped(a.main, a.file) /\ a.mainSize \in Nat
           /\ a.input.main \in Seq(FileType)
    BY ArchiveIs
  <2>2. PICK files \in Seq(FileType) : files = a.input.main
    BY <2>1
  <2>3. PICK packed \in Seq(Byte) : packed = Bytes(files)
    BY ChunksAre
  <2>4. PICK k \in DOMAIN a.manifest : a.manifest[k] = e /\ e.stream = "main"
    BY <2>1 DEF Entries
  <2>5. PICK f \in 1..Len(files) :
           f = e.file /\ e.size = files[f].declared /\ e.offset = ChunkAt(files, f, 1)
    BY <2>1, <2>2, <2>4 DEF ArchiveHolds, EntriesAt
  <2>6. PICK data \in Seq(Byte) : data = Contents(files[f]) /\ files[f].declared = Len(data)
    <3>1. Unchanged(files[f])
      BY <2>1, <2>2, <2>5
    <3> QED BY <3>1, ChunksAre DEF Unchanged
  <2>7. PICK c \in Nat, l \in Nat : /\ c = ChunkAt(files, f, 1) /\ l = Len(data)
                                    /\ HoldsAt(packed, c, data)
    BY <2>3, <2>6, FilePlaces
  <2>8. c + l <= Len(packed) /\ \A j \in 1..l : packed[c + j] = data[j]
    BY <2>7 DEF HoldsAt
  <2>9. Pages(a, "main") = a.main /\ size(a, "main") = a.mainSize
    BY DEF Pages, size
  <2>10. PagesHold(a.file, hs, a.main, Len(packed), packed) /\ Len(packed) <= a.mainSize
    BY <2>1, <2>2, <2>3 DEF ArchiveHolds
  <2>11. read_at(a, parents_of(a), "main", c, l)
            = SubSeq(packed, c + 1, IF c + l < Len(packed) THEN c + l ELSE Len(packed))
    <3>1. a \in ArchiveType /\ Serves(parents_of(a), hs)
      BY <2>1
    <3>2. PagesTyped(Pages(a, "main"), a.file) /\ size(a, "main") \in Nat
      BY <2>1, <2>9
    <3>3. PagesHold(a.file, hs, Pages(a, "main"), Len(packed), packed) /\ Len(packed) <= size(a, "main")
      BY <2>9, <2>10
    <3>4. packed \in Seq(Byte) /\ c \in Nat /\ l \in Nat /\ c + l <= Len(packed)
      BY <2>3, <2>7, <2>8
    <3>5. PICK parents : parents = parents_of(a)
      OBVIOUS
    <3>6. PICK stream : stream = "main"
      OBVIOUS
    <3>7. Serves(parents, hs) /\ PagesTyped(Pages(a, stream), a.file) /\ size(a, stream) \in Nat
      BY <3>1, <3>2, <3>5, <3>6
    <3>8. PagesHold(a.file, hs, Pages(a, stream), Len(packed), packed) /\ Len(packed) <= size(a, stream)
      BY <3>3, <3>6
    <3>9. read_at(a, parents, stream, c, l)
             = SubSeq(packed, c + 1, IF c + l < Len(packed) THEN c + l ELSE Len(packed))
      BY ONLY <3>4, <3>7, <3>8, ReadAtIs
    <3> QED BY <3>5, <3>6, <3>9
  <2>12. (IF c + l < Len(packed) THEN c + l ELSE Len(packed)) = c + l
    <3>1. PICK n \in Nat, x \in Nat : n = Len(packed) /\ x = c + l
      OBVIOUS
    <3>2. x <= n
      BY <2>8, <3>1
    <3>3. (IF x < n THEN x ELSE n) = x
      BY <3>2
    <3> QED BY <3>1, <3>3
  <2>13. data = SubSeq(packed, c + 1, c + l)
    <3>1. data \in Seq(Byte) /\ Len(data) = (c + l) - c /\ \A j \in 1..Len(data) : data[j] = packed[c + j]
      BY <2>7, <2>8
    <3>2. IsRead(data, packed, c, c + l)
      BY <3>1 DEF IsRead
    <3>3. c + l \in Nat /\ c <= c + l
      OBVIOUS
    <3> QED BY <2>8, <3>2, <3>3, ReadIs
  <2>14. ExtractEntry(a, e) = read_at(a, parents_of(a), "main", c, l)
    BY <2>5, <2>6, <2>7 DEF ExtractEntry
  <2> QED BY <2>1, <2>2, <2>5, <2>6, <2>11, <2>12, <2>13, <2>14
<1> QED BY <1>1, ReadInvariance, PTL

-----------------------------------------------------------------------------
(* Sums over sets.                                                          *)

\* Some sets that are all within a finite one: one of them has no smaller one below it.
LEMMA SmallestSet ==
    ASSUME NEW S, IsFiniteSet(S), NEW B, B \subseteq SUBSET S, B # {}
    PROVE  \E T \in B : \A x \in T : T \ {x} \notin B
<1> DEFINE sizes == { Cardinality(T) : T \in B }
<1>1. \A T \in B : IsFiniteSet(T) /\ Cardinality(T) \in Nat
  <2> SUFFICES ASSUME NEW T \in B PROVE IsFiniteSet(T) /\ Cardinality(T) \in Nat
    OBVIOUS
  <2>1. T \in SUBSET S
    OBVIOUS
  <2>2. IsFiniteSet(T)
    BY <2>1, FS_Subset
  <2> QED BY <2>2, FS_CardinalityType
<1>2. PICK n \in sizes : \A m \in sizes : n <= m
  <2>1. sizes \subseteq Nat /\ sizes # {}
    BY <1>1
  <2> HIDE DEF sizes
  <2> QED BY <2>1, LeastNumber
<1>3. PICK T \in B : n = Cardinality(T)
  BY <1>2
<1>4. ASSUME NEW x \in T, T \ {x} \in B PROVE FALSE
  <2>1. Cardinality(T \ {x}) = Cardinality(T) - 1
    BY <1>1, <1>3, FS_RemoveElement
  <2>2. n <= Cardinality(T \ {x}) /\ n \in Nat
    BY <1>1, <1>2, <1>3, <1>4
  <2> QED BY <1>3, <2>1, <2>2
<1> QED BY <1>4

\* The element that is taken first.
Some(T) == CHOOSE x \in T : TRUE

\* What MapThenSumSet chooses to add up the numbers n of a set.
IsSumOver(g, n, S) ==
    g = [T \in SUBSET S |-> IF T = {} THEN 0 ELSE n[Some(T)] + g[T \ {Some(T)}]]

\* There is such a function.
LEMMA SumOverExists ==
    ASSUME NEW S, IsFiniteSet(S), NEW n
    PROVE  \E g : IsSumOver(g, n, S)
<1> DEFINE Right(g, T) == g[T] = IF T = {} THEN 0 ELSE n[Some(T)] + g[T \ {Some(T)}]
           Good == { k \in Nat : \E g : /\ g = [T \in SUBSET S |-> g[T]]
                                        /\ \A T \in SUBSET S : Cardinality(T) <= k => Right(g, T) }
<1>1. \A T \in SUBSET S : IsFiniteSet(T) /\ Cardinality(T) \in Nat /\ (Cardinality(T) = 0 <=> T = {})
  BY FS_Subset, FS_CardinalityType, FS_EmptySet
<1>2. \A T \in SUBSET S : T # {} => /\ Some(T) \in T /\ T \ {Some(T)} \in SUBSET S
                                    /\ Cardinality(T \ {Some(T)}) = Cardinality(T) - 1
  <2> SUFFICES ASSUME NEW T \in SUBSET S, T # {}
               PROVE  /\ Some(T) \in T /\ T \ {Some(T)} \in SUBSET S
                      /\ Cardinality(T \ {Some(T)}) = Cardinality(T) - 1
    OBVIOUS
  <2>1. Some(T) \in T
    BY DEF Some
  <2> QED BY <1>1, <2>1, FS_RemoveElement
<1>3. 0 \in Good
  <2> DEFINE g == [T \in SUBSET S |-> 0]
  <2>1. g = [T \in SUBSET S |-> g[T]]
    OBVIOUS
  <2>2. ASSUME NEW T \in SUBSET S, Cardinality(T) <= 0 PROVE Right(g, T)
    <3>1. T = {}
      BY <1>1, <2>2
    <3> QED BY <3>1
  <2> HIDE DEF g, Right
  <2> QED BY <2>1, <2>2
<1>4. ASSUME NEW k \in Nat, k \in Good PROVE k + 1 \in Good
  <2>1. PICK g : /\ g = [T \in SUBSET S |-> g[T]]
                 /\ \A T \in SUBSET S : Cardinality(T) <= k => Right(g, T)
    BY <1>4
  <2> DEFINE h == [T \in SUBSET S |-> IF Cardinality(T) = k + 1 THEN n[Some(T)] + g[T \ {Some(T)}]
                                                                ELSE g[T]]
  <2>2. h = [T \in SUBSET S |-> h[T]]
    OBVIOUS
  <2>3. ASSUME NEW T \in SUBSET S, Cardinality(T) <= k + 1 PROVE Right(h, T)
    <3>1. CASE T = {}
      <4>1. h[T] = g[T] /\ Right(g, T)
        <5>1. Cardinality(T) = 0
          BY <1>1, <3>1
        <5>2. Cardinality(T) # k + 1 /\ Cardinality(T) <= k
          BY <5>1
        <5>3. Right(g, T)
          BY <2>1, <5>2
        <5> QED BY <5>2, <5>3
      <4> QED BY <3>1, <4>1
    <3>2. CASE T # {}
      <4>1. PICK U \in SUBSET S : U = T \ {Some(T)} /\ Cardinality(U) = Cardinality(T) - 1
        BY <1>2, <3>2
      <4>2. h[U] = g[U]
        BY <1>1, <2>3, <4>1
      <4>3. h[T] = n[Some(T)] + g[U]
        <5>1. CASE Cardinality(T) = k + 1
          BY <4>1, <5>1
        <5>2. CASE Cardinality(T) # k + 1
          <6>1. Right(g, T)
            <7>1. PICK c \in Nat : c = Cardinality(T)
              BY <1>1
            <7>2. c <= k
              BY <2>3, <5>2, <7>1
            <7> QED BY <2>1, <7>1, <7>2
          <6>2. h[T] = g[T]
            BY <5>2
          <6> QED BY <3>2, <4>1, <6>1, <6>2
        <5> QED BY <5>1, <5>2
      <4> HIDE DEF h
      <4> QED BY <3>2, <4>1, <4>2, <4>3
    <3> QED BY <3>1, <3>2
  <2> HIDE DEF h, Right
  <2>4. k + 1 \in Nat
    OBVIOUS
  <2> QED BY <2>2, <2>3, <2>4
<1>5. Cardinality(S) \in Good
  <2> HIDE DEF Good
  <2>1. PICK c \in Nat : c = Cardinality(S)
    BY <1>1
  <2>2. \A i \in 1..c : i - 1 \in Good => i \in Good
    <3> SUFFICES ASSUME NEW i \in 1..c, i - 1 \in Good PROVE i \in Good
      OBVIOUS
    <3>1. i - 1 \in Nat /\ (i - 1) + 1 = i
      OBVIOUS
    <3> QED BY <1>4, <3>1
  <2>3. 0..c \subseteq Good
    BY <1>3, <2>2, Upwards
  <2> QED BY <2>1, <2>3
<1>6. PICK g : /\ g = [T \in SUBSET S |-> g[T]]
               /\ \A T \in SUBSET S : Cardinality(T) <= Cardinality(S) => Right(g, T)
  BY <1>5
<1>7. \A T \in SUBSET S : Cardinality(T) <= Cardinality(S)
  BY FS_Subset
<1>8. \A T \in SUBSET S : Right(g, T)
  BY <1>6, <1>7
<1>9. IsSumOver(g, n, S)
  BY <1>6, <1>8, Zenon DEF IsSumOver
<1> QED BY <1>9

\* The sum is what such a function, also of a larger set, says.
LEMMA SumOfIs ==
    ASSUME NEW S, IsFiniteSet(S), NEW n, NEW g, IsSumOver(g, n, S), NEW T \in SUBSET S
    PROVE  SumOf(n, T) = g[T]
<1> DEFINE h == CHOOSE f : IsSumOver(f, n, T)
<1>1. IsFiniteSet(T)
  BY FS_Subset
<1>2. IsSumOver(h, n, T)
  BY <1>1, SumOverExists
<1>3. SumOf(n, T) = h[T]
  BY Zenon DEF SumOf, MapThenSumSet, MapThenFoldSet, IsSumOver, Some
<1> HIDE DEF h
<1>4. \A U \in SUBSET S : g[U] = IF U = {} THEN 0 ELSE n[Some(U)] + g[U \ {Some(U)}]
  BY Zenon DEF IsSumOver
<1>5. \A U \in SUBSET T : h[U] = IF U = {} THEN 0 ELSE n[Some(U)] + h[U \ {Some(U)}]
  BY <1>2, Zenon DEF IsSumOver
<1> DEFINE bad == { U \in SUBSET T : g[U] # h[U] }
<1>6. CASE bad # {}
  <2>1. PICK U \in bad : \A x \in U : U \ {x} \notin bad
    <3>1. bad \subseteq SUBSET T
      OBVIOUS
    <3> HIDE DEF bad
    <3> QED BY <1>1, <1>6, <3>1, SmallestSet
  <2>2. U # {}
    BY <1>4, <1>5
  <2>3. Some(U) \in U
    BY <2>2 DEF Some
  <2>4. g[U \ {Some(U)}] = h[U \ {Some(U)}]
    BY <2>1, <2>3
  <2>5. g[U] = h[U]
    BY <1>4, <1>5, <2>2, <2>4
  <2> QED BY <2>5
<1>7. CASE bad = {}
  BY <1>3, <1>7
<1> QED BY <1>6, <1>7

\* The numbers of a set.
Numbers(n, S) == \A x \in S : n[x] \in Nat

\* A sum is a number, of nothing it is 0, and any element may be taken off it.
LEMMA SumTakes ==
    ASSUME NEW S, IsFiniteSet(S), NEW n, Numbers(n, S)
    PROVE  /\ SumOf(n, {}) = 0 /\ SumOf(n, S) \in Nat
           /\ \A x \in S : SumOf(n, S) = n[x] + SumOf(n, S \ {x})
<1>1. PICK g : IsSumOver(g, n, S)
  BY SumOverExists
<1>2. \A T \in SUBSET S : g[T] = IF T = {} THEN 0 ELSE n[Some(T)] + g[T \ {Some(T)}]
  BY <1>1, Zenon DEF IsSumOver
<1>n. \A T \in SUBSET S : g[T] \in Nat
  <2> DEFINE bad == { T \in SUBSET S : g[T] \notin Nat }
  <2>1. CASE bad # {}
    <3>1. PICK T \in bad : \A x \in T : T \ {x} \notin bad
      <4>1. bad \subseteq SUBSET S
        OBVIOUS
      <4> HIDE DEF bad
      <4> QED BY <2>1, <4>1, SmallestSet
    <3>0. T \in SUBSET S /\ g[T] \notin Nat
      BY <3>1
    <3>2. T # {}
      <4>1. g[T] = IF T = {} THEN 0 ELSE n[Some(T)] + g[T \ {Some(T)}]
        BY <1>2, <3>0
      <4> QED BY <3>0, <4>1
    <3>3. Some(T) \in T
      BY <3>2 DEF Some
    <3>4. g[T \ {Some(T)}] \in Nat /\ n[Some(T)] \in Nat
      BY <3>1, <3>3 DEF Numbers
    <3> QED BY <1>2, <3>1, <3>2, <3>4
  <2>2. CASE bad = {}
    BY <2>2
  <2> QED BY <2>1, <2>2
<1> DEFINE Right(T) == \A x \in T : g[T] = n[x] + g[T \ {x}]
           bad == { T \in SUBSET S : ~ Right(T) }
<1>3. CASE bad # {}
  <2>1. PICK T \in bad : \A x \in T : T \ {x} \notin bad
    <3>1. bad \subseteq SUBSET S
      OBVIOUS
    <3> HIDE DEF bad
    <3> QED BY <1>3, <3>1, SmallestSet
  <2>2. T \in SUBSET S /\ \A x \in T : Right(T \ {x})
    BY <2>1
  <2>3. T # {}
    BY <2>1
  <2>4. PICK c \in T : c = Some(T)
    BY <2>3 DEF Some
  <2>5. g[T] = n[c] + g[T \ {c}] /\ n[c] \in Nat /\ g[T \ {c}] \in Nat
    BY <1>2, <1>n, <2>2, <2>3, <2>4 DEF Numbers
  <2>6. ASSUME NEW x \in T, x # c PROVE g[T] = n[x] + g[T \ {x}]
    <3>1. (T \ {c}) \ {x} = (T \ {x}) \ {c} /\ x \in T \ {c} /\ c \in T \ {x}
      BY <2>6
    <3>2. PICK U : U = (T \ {c}) \ {x} /\ U = (T \ {x}) \ {c}
      BY <3>1
    <3>3. g[T \ {c}] = n[x] + g[U]
      BY <2>2, <3>1, <3>2
    <3>4. g[T \ {x}] = n[c] + g[U]
      BY <2>2, <2>6, <3>1, <3>2
    <3>5. g[U] \in Nat
      BY <1>n, <2>2, <3>2
    <3>6. n[x] \in Nat
      BY <2>2 DEF Numbers
    <3> QED BY <2>5, <3>3, <3>4, <3>5, <3>6
  <2>7. Right(T)
    BY <2>4, <2>5, <2>6
  <2> QED BY <2>1, <2>7
<1>4. CASE bad = {}
  <2>1. Right(S)
    BY <1>4
  <2>2. SumOf(n, {}) = g[{}] /\ SumOf(n, S) = g[S] /\ \A x \in S : SumOf(n, S \ {x}) = g[S \ {x}]
    BY <1>1, SumOfIs
  <2>3. g[{}] = 0
    BY <1>2
  <2>4. g[S] \in Nat
    BY <1>n
  <2> QED BY <2>1, <2>2, <2>3, <2>4
<1> QED BY <1>3, <1>4

\* The sum over two sets is the sum of their sums.
LEMMA SumUnion ==
    ASSUME NEW S, IsFiniteSet(S), NEW n, Numbers(n, S),
           NEW A \in SUBSET S, NEW B \in SUBSET S, A \cap B = {}
    PROVE  SumOf(n, A \cup B) = SumOf(n, A) + SumOf(n, B)
<1> DEFINE Right(T) == SumOf(n, A \cup T) = SumOf(n, A) + SumOf(n, T)
           bad == { T \in SUBSET B : ~ Right(T) }
<1>1. \A T \in SUBSET S : /\ IsFiniteSet(T) /\ SumOf(n, T) \in Nat /\ SumOf(n, {}) = 0
                          /\ \A x \in T : SumOf(n, T) = n[x] + SumOf(n, T \ {x})
  <2> SUFFICES ASSUME NEW T \in SUBSET S
               PROVE  /\ IsFiniteSet(T) /\ SumOf(n, T) \in Nat /\ SumOf(n, {}) = 0
                      /\ \A x \in T : SumOf(n, T) = n[x] + SumOf(n, T \ {x})
    OBVIOUS
  <2>1. IsFiniteSet(T)
    BY FS_Subset
  <2>2. Numbers(n, T)
    BY DEF Numbers
  <2> QED BY <2>1, <2>2, SumTakes
<1>2. CASE bad # {}
  <2>1. PICK T \in bad : \A x \in T : T \ {x} \notin bad
    <3>1. bad \subseteq SUBSET B /\ IsFiniteSet(B)
      BY <1>1
    <3> HIDE DEF bad
    <3> QED BY <1>2, <3>1, SmallestSet
  <2>2. T \in SUBSET B /\ ~ Right(T)
    BY <2>1
  <2>3. T # {}
    <3>1. SUFFICES ASSUME T = {} PROVE FALSE
      OBVIOUS
    <3>2. A \cup T = A /\ SumOf(n, T) = 0 /\ SumOf(n, A) \in Nat
      BY <1>1, <3>1
    <3>3. SumOf(n, A \cup T) = SumOf(n, A)
      BY <3>2, Zenon
    <3> HIDE DEF bad
    <3> QED BY <2>2, <3>2, <3>3
  <2>4. PICK x \in T : TRUE
    BY <2>3
  <2>5. Right(T \ {x})
    BY <2>1, <2>2, <2>4
  <2>6. /\ (A \cup T) \ {x} = A \cup (T \ {x}) /\ x \in A \cup T /\ A \cup T \in SUBSET S
        /\ T \in SUBSET S /\ T \ {x} \in SUBSET S
    BY <2>2, <2>4
  <2>7. /\ SumOf(n, A \cup T) = n[x] + SumOf(n, A \cup (T \ {x}))
        /\ SumOf(n, T) = n[x] + SumOf(n, T \ {x})
        /\ n[x] \in Nat /\ SumOf(n, A) \in Nat /\ SumOf(n, T \ {x}) \in Nat
    BY <1>1, <2>4, <2>6 DEF Numbers
  <2> QED BY <2>2, <2>5, <2>7
<1>3. CASE bad = {}
  <2>1. Right(B)
    BY <1>3
  <2> QED BY <2>1
<1> QED BY <1>2, <1>3

\* A set and its image under a one-to-one mapping have sums and sizes in common.
LEMMA SumImage ==
    ASSUME NEW S, IsFiniteSet(S), NEW n, Numbers(n, S), NEW m, NEW f,
           \A x, y \in S : f[x] = f[y] => x = y,
           \A x \in S : m[f[x]] = n[x]
    PROVE  /\ IsFiniteSet({ f[x] : x \in S })
           /\ SumOf(m, { f[x] : x \in S }) = SumOf(n, S)
           /\ Cardinality({ f[x] : x \in S }) = Cardinality(S)
<1> DEFINE Im(T) == { f[x] : x \in T }
           Right(T) == /\ IsFiniteSet(Im(T)) /\ Numbers(m, Im(T)) /\ SumOf(m, Im(T)) = SumOf(n, T)
                       /\ Cardinality(Im(T)) = Cardinality(T)
           bad == { T \in SUBSET S : ~ Right(T) }
<1>1. CASE bad # {}
  <2>1. PICK T \in bad : \A x \in T : T \ {x} \notin bad
    <3>1. bad \subseteq SUBSET S
      OBVIOUS
    <3> HIDE DEF bad
    <3> QED BY <1>1, <3>1, SmallestSet
  <2>2. T \in SUBSET S /\ ~ Right(T)
    BY <2>1
  <2>3. IsFiniteSet(T) /\ Numbers(n, T)
    BY <2>2, FS_Subset DEF Numbers
  <2>4. T # {}
    <3>1. SUFFICES ASSUME T = {} PROVE FALSE
      OBVIOUS
    <3>2. Im(T) = {}
      BY <3>1
    <3>3. SumOf(m, {}) = 0 /\ SumOf(n, {}) = 0
      <4>1. IsFiniteSet({}) /\ Numbers(m, {}) /\ Numbers(n, {})
        BY FS_EmptySet DEF Numbers
      <4> QED BY <4>1, SumTakes
    <3>4. IsFiniteSet({}) /\ Numbers(m, {})
      BY FS_EmptySet DEF Numbers
    <3> QED BY <2>2, <3>1, <3>2, <3>3, <3>4
  <2>5. PICK x \in T : TRUE
    BY <2>4
  <2>6. PICK U \in SUBSET S : U = T \ {x} /\ Right(U)
    BY <2>1, <2>2, <2>5
  <2>7. Im(T) = Im(U) \cup {f[x]} /\ f[x] \notin Im(U) /\ Im(T) \ {f[x]} = Im(U) /\ f[x] \in Im(T)
    <3>1. f[x] \notin Im(U)
      <4>1. SUFFICES ASSUME NEW y \in U, f[y] = f[x] PROVE FALSE
        OBVIOUS
      <4>2. y \in S /\ x \in S /\ y # x
        BY <2>2, <2>5, <2>6
      <4> QED BY <4>1, <4>2
    <3>2. Im(T) = Im(U) \cup {f[x]}
      BY <2>5, <2>6
    <3> QED BY <3>1, <3>2
  <2>8. m[f[x]] = n[x] /\ n[x] \in Nat
    BY <2>2, <2>3, <2>5 DEF Numbers
  <2>9. IsFiniteSet(Im(T)) /\ Numbers(m, Im(T))
    <3>1. IsFiniteSet(Im(U)) /\ Numbers(m, Im(U))
      BY <2>6
    <3>2. Numbers(m, Im(T))
      BY <2>7, <2>8, <3>1 DEF Numbers
    <3>3. IsFiniteSet(Im(U) \cup {f[x]})
      <4> HIDE DEF Im
      <4> QED BY <3>1, FS_AddElement
    <3> HIDE DEF Im
    <3> QED BY <2>7, <3>2, <3>3
  <2>10. SumOf(m, Im(T)) = m[f[x]] + SumOf(m, Im(U)) /\ SumOf(n, T) = n[x] + SumOf(n, U)
    <3>1. SumOf(n, T) = n[x] + SumOf(n, U)
      BY <2>3, <2>5, <2>6, SumTakes
    <3>2. SumOf(m, Im(T)) = m[f[x]] + SumOf(m, Im(U))
      <4> HIDE DEF Im
      <4>1. PICK V : V = Im(T)
        OBVIOUS
      <4>2. IsFiniteSet(V) /\ Numbers(m, V) /\ f[x] \in V /\ V \ {f[x]} = Im(U)
        BY <2>7, <2>9, <4>1
      <4>3. SumOf(m, V) = m[f[x]] + SumOf(m, V \ {f[x]})
        BY <4>2, SumTakes
      <4> QED BY <4>1, <4>2, <4>3
    <3> QED BY <3>1, <3>2
  <2>11. Cardinality(Im(T)) = Cardinality(Im(U)) + 1 /\ Cardinality(T) = Cardinality(U) + 1
    <3>1. IsFiniteSet(Im(U)) /\ IsFiniteSet(U)
      BY <2>3, <2>6, FS_Subset
    <3>2. T = U \cup {x} /\ x \notin U
      BY <2>5, <2>6
    <3>3. Cardinality(U \cup {x}) = Cardinality(U) + 1
      BY <3>1, <3>2, FS_AddElement
    <3>4. Cardinality(Im(U) \cup {f[x]}) = Cardinality(Im(U)) + 1
      <4> HIDE DEF Im
      <4> QED BY <2>7, <3>1, FS_AddElement
    <3> HIDE DEF Im
    <3> QED BY <2>7, <3>2, <3>3, <3>4
  <2>12. Right(T)
    <3>1. SumOf(m, Im(U)) = SumOf(n, U) /\ Cardinality(Im(U)) = Cardinality(U)
      BY <2>6
    <3> HIDE DEF Im
    <3> QED BY <2>8, <2>9, <2>10, <2>11, <3>1
  <2> QED BY <2>2, <2>12
<1>2. CASE bad = {}
  <2>1. Right(S)
    BY <1>2
  <2> QED BY <2>1
<1> QED BY <1>1, <1>2

\* The sum over the first positions, and one more.
LEMMA SumFirst ==
    ASSUME NEW n, NEW k \in Nat, Numbers(n, 1..(k + 1))
    PROVE  SumOf(n, 1..(k + 1)) = SumOf(n, 1..k) + n[k + 1] /\ SumOf(n, 1..k) \in Nat
<1>1. IsFiniteSet(1..(k + 1)) /\ IsFiniteSet(1..k)
  <2>1. 1 \in Int /\ k \in Int /\ k + 1 \in Int
    OBVIOUS
  <2> QED BY <2>1, FS_Interval
<1>2. k + 1 \in 1..(k + 1) /\ (1..(k + 1)) \ {k + 1} = 1..k
  OBVIOUS
<1>3. Numbers(n, 1..k)
  BY DEF Numbers
<1>4. SumOf(n, 1..(k + 1)) = n[k + 1] + SumOf(n, 1..k)
  BY <1>1, <1>2, SumTakes
<1>5. SumOf(n, 1..k) \in Nat /\ n[k + 1] \in Nat
  BY <1>1, <1>2, <1>3, SumTakes DEF Numbers
<1> QED BY <1>4, <1>5

-----------------------------------------------------------------------------
(* The statistics of an archive.                                            *)

\* The lengths of descriptors are numbers, and may be added up one by one.
LEMMA BytesFirst ==
    ASSUME NEW blocks \in Seq(BlockInfo)
    PROVE  /\ IsFiniteSet(DOMAIN blocks) /\ Numbers([i \in DOMAIN blocks |-> blocks[i].logical_len], DOMAIN blocks)
           /\ BytesOf(blocks, 1..0) = 0
           /\ \A k \in 1..Len(blocks) : BytesOf(blocks, 1..k) = BytesOf(blocks, 1..(k - 1)) + blocks[k].logical_len
<1> DEFINE n == [i \in DOMAIN blocks |-> blocks[i].logical_len]
<1>1. DOMAIN blocks = 1..Len(blocks) /\ Len(blocks) \in Nat
  OBVIOUS
<1>2. IsFiniteSet(DOMAIN blocks)
  <2>1. 1 \in Int /\ Len(blocks) \in Int
    BY <1>1
  <2> QED BY <1>1, <2>1, FS_Interval
<1>3. \A i \in DOMAIN blocks : n[i] = blocks[i].logical_len /\ n[i] \in Nat
  <2>1. \A i \in DOMAIN blocks : blocks[i] \in BlockInfo
    OBVIOUS
  <2> QED BY <2>1 DEF BlockInfo
<1>4. Numbers(n, DOMAIN blocks)
  BY <1>3 DEF Numbers
<1> HIDE DEF n
<1>5. SumOf(n, 1..0) = 0
  <2>1. 1..0 = {}
    OBVIOUS
  <2> QED BY <1>2, <1>4, <2>1, SumTakes
<1>6. ASSUME NEW k \in 1..Len(blocks)
      PROVE  SumOf(n, 1..k) = SumOf(n, 1..(k - 1)) + blocks[k].logical_len
  <2>1. PICK j \in Nat : j = k - 1 /\ j + 1 = k
    <3>1. k - 1 \in Nat /\ (k - 1) + 1 = k
      OBVIOUS
    <3> QED BY <3>1
  <2>2. Numbers(n, 1..(j + 1))
    <3>1. 1..(j + 1) \subseteq DOMAIN blocks
      BY <1>1, <2>1
    <3> QED BY <1>4, <3>1 DEF Numbers
  <2>3. SumOf(n, 1..(j + 1)) = SumOf(n, 1..j) + n[j + 1]
    BY <2>2, SumFirst
  <2>4. n[k] = blocks[k].logical_len
    BY <1>1, <1>3
  <2> QED BY <2>1, <2>3, <2>4
<1> QED BY <1>2, <1>4, <1>5, <1>6 DEF BytesOf, n

\* Where a page ends, the lengths of all descriptors before add up to where its last block ends.
LEMMA BytesOfPage ==
    ASSUME NEW whole \in Seq(BlockInfo), NEW blocks \in Seq(BlockInfo), NEW start \in Nat, NEW from \in Nat,
           HoldsAt(whole, start, blocks), BytesOf(whole, 1..start) = from
    PROVE  BytesOf(whole, 1..(start + Len(blocks))) = At(from, blocks, Len(blocks) + 1)
<1>1. PICK n \in Nat : n = Len(blocks)
  OBVIOUS
<1> DEFINE T == { i \in 0..n : BytesOf(whole, 1..(start + i)) = At(from, blocks, i + 1) }
<1>2. 0 \in T
  <2>1. start + 0 = start /\ 0 + 1 = 1 /\ 0 \in 0..n
    OBVIOUS
  <2>2. At(from, blocks, 1) = from
    BY AtSteps
  <2> QED BY <2>1, <2>2
<1>3. ASSUME NEW i \in 1..n, i - 1 \in T PROVE i \in T
  <2>1. /\ i \in 1..Len(blocks) /\ start + i \in 1..Len(whole) /\ (start + i) - 1 = start + (i - 1)
        /\ (i - 1) + 1 = i /\ whole[start + i] = blocks[i]
    BY <1>1 DEF HoldsAt
  <2>2. BytesOf(whole, 1..(start + i)) = BytesOf(whole, 1..((start + i) - 1)) + whole[start + i].logical_len
    BY <2>1, BytesFirst
  <2>3. At(from, blocks, i + 1) = At(from, blocks, i) + blocks[i].logical_len
    BY <2>1, AtSteps
  <2>4. BytesOf(whole, 1..(start + (i - 1))) = At(from, blocks, (i - 1) + 1)
    BY <1>3
  <2>5. BytesOf(whole, 1..(start + i)) = At(from, blocks, i + 1)
    BY <2>1, <2>2, <2>3, <2>4
  <2> QED BY <2>5
<1>4. n \in T
  <2> HIDE DEF T
  <2>1. \A i \in 1..n : i - 1 \in T => i \in T
    BY <1>3
  <2>2. 0..n \subseteq T
    BY <1>2, <2>1, Upwards
  <2> QED BY <2>2
<1> QED BY <1>1, <1>4

\* The blocks of each page of the Main stream.
PageBlocks(a) == [k \in DOMAIN a.main |-> BlocksAt(a, a.main[k])]

\* They are sequences of descriptors, and the descriptors of the stream are their join.
LEMMA MainBlocksAre ==
    ASSUME NEW a, PagesTyped(a.main, a.file)
    PROVE  /\ PageBlocks(a) \in Seq(Seq(BlockInfo)) /\ Len(PageBlocks(a)) = Len(a.main)
           /\ \A k \in 1..Len(a.main) : PageBlocks(a)[k] = a.file[a.main[k].offset + 1].blocks
           /\ MainBlocks(a) = FlattenSeq(PageBlocks(a)) /\ MainBlocks(a) \in Seq(BlockInfo)
<1>1. PICK n \in Nat : n = Len(a.main) /\ DOMAIN a.main = 1..n
  BY DEF PagesTyped
<1>2. \A k \in 1..n : /\ BlocksAt(a, a.main[k]) = a.file[a.main[k].offset + 1].blocks
                      /\ BlocksAt(a, a.main[k]) \in Seq(BlockInfo)
  BY <1>1 DEF PagesTyped, BlocksAt
<1>3. PageBlocks(a) \in [1..n -> Seq(BlockInfo)] /\ \A k \in 1..n : PageBlocks(a)[k] = BlocksAt(a, a.main[k])
  BY <1>1, <1>2 DEF PageBlocks
<1>4. PageBlocks(a) \in Seq(Seq(BlockInfo)) /\ Len(PageBlocks(a)) = n
  BY <1>3
<1>5. MainBlocks(a) = FlattenSeq(PageBlocks(a))
  BY Zenon DEF MainBlocks, PageBlocks
<1>6. FlattenSeq(PageBlocks(a)) \in Seq(BlockInfo)
  BY <1>4, FlattenHolds
<1> QED BY <1>1, <1>2, <1>3, <1>4, <1>5, <1>6

\* Pages that hold a stream have as many bytes as it has.
LEMMA BytesOfMain ==
    ASSUME NEW a, PagesTyped(a.main, a.file), NEW hs, NEW packed \in Seq(Byte),
           PagesHold(a.file, hs, a.main, Len(packed), packed)
    PROVE  BytesOf(MainBlocks(a), DOMAIN MainBlocks(a)) = Len(packed)
<1>1. PICK whole \in Seq(BlockInfo) : whole = MainBlocks(a)
  BY MainBlocksAre
<1>2. PICK n \in Nat : n = Len(a.main) /\ (n = 0 <=> a.main = <<>>)
  BY DEF PagesTyped
<1>3. PICK ss \in Seq(Seq(BlockInfo)) : ss = PageBlocks(a) /\ Len(ss) = n
  BY <1>2, MainBlocksAre
<1>4. PICK at : IsStarts(at, ss) /\ at = Starts(ss)
  BY StartsIs
<1>5. Len(whole) = at[n + 1] /\ \A k \in 1..n : HoldsAt(whole, at[k], ss[k])
  BY <1>1, <1>3, <1>4, FlattenHolds, MainBlocksAre
<1>6. /\ \A k \in 1..(n + 1) : at[k] \in Nat
      /\ at[1] = 0 /\ \A k \in 1..n : at[k + 1] = at[k] + Len(ss[k]) /\ ss[k] \in Seq(BlockInfo)
  BY <1>3, <1>4 DEF IsStarts
<1> DEFINE place(k) == IF k = n + 1 THEN Len(packed) ELSE a.main[k].start_logical
<1>7. ASSUME NEW k \in 1..n
      PROVE  place(k) \in Nat /\ At(place(k), ss[k], Len(ss[k]) + 1) = place(k + 1)
  <2>1. place(k) = a.main[k].start_logical /\ a.main[k].start_logical \in Nat
    <3>1. k # n + 1
      OBVIOUS
    <3>2. a.main[k] \in Entry
      BY <1>2 DEF PagesTyped
    <3> QED BY <3>1, <3>2 DEF Entry
  <2>2. PageHolds(a.file, hs, a.main[k], PageEnd(a.main, k, Len(packed)), packed)
    BY <1>2 DEF PagesHold
  <2>3. At(a.main[k].start_logical, ss[k], Len(ss[k]) + 1) = PageEnd(a.main, k, Len(packed))
    <3>1. ss[k] = a.file[a.main[k].offset + 1].blocks
      BY <1>2, <1>3, MainBlocksAre
    <3> QED BY <2>2, <3>1 DEF PageHolds, BlocksHold
  <2>4. PageEnd(a.main, k, Len(packed)) = place(k + 1)
    <3>1. k = n <=> k + 1 = n + 1
      OBVIOUS
    <3> QED BY <1>2, <3>1 DEF PageEnd
  <2> QED BY <2>1, <2>3, <2>4
<1>8. place(1) = 0
  BY <1>2 DEF PagesHold
<1>9. place(n + 1) = Len(packed)
  OBVIOUS
<1> HIDE DEF place
<1> DEFINE T == { k \in 0..n : BytesOf(whole, 1..at[k + 1]) = place(k + 1) }
<1>10. 0 \in T
  <2>1. BytesOf(whole, 1..0) = 0
    BY BytesFirst
  <2>2. at[0 + 1] = 0 /\ place(0 + 1) = 0 /\ 0 \in 0..n
    BY <1>6, <1>8
  <2> QED BY <2>1, <2>2
<1>11. ASSUME NEW k \in 1..n, k - 1 \in T PROVE k \in T
  <2>1. (k - 1) + 1 = k /\ k \in 1..(n + 1)
    OBVIOUS
  <2>2. BytesOf(whole, 1..at[k]) = place(k)
    BY <1>11, <2>1
  <2>3. BytesOf(whole, 1..(at[k] + Len(ss[k]))) = At(place(k), ss[k], Len(ss[k]) + 1)
    <3>1. /\ ss[k] \in Seq(BlockInfo) /\ at[k] \in Nat /\ place(k) \in Nat
          /\ HoldsAt(whole, at[k], ss[k])
      BY <1>5, <1>6, <1>7, <2>1
    <3> QED BY <2>2, <3>1, BytesOfPage
  <2>4. BytesOf(whole, 1..at[k + 1]) = place(k + 1)
    BY <1>6, <1>7, <2>3
  <2> QED BY <2>4
<1>12. n \in T
  <2> HIDE DEF T
  <2>1. \A k \in 1..n : k - 1 \in T => k \in T
    BY <1>11
  <2>2. 0..n \subseteq T
    BY <1>10, <2>1, Upwards
  <2> QED BY <2>2
<1>13. DOMAIN whole = 1..at[n + 1]
  BY <1>5
<1> QED BY <1>1, <1>9, <1>12, <1>13

-----------------------------------------------------------------------------
(* Of the Main stream nothing is stored twice, and nothing the base has.    *)

\* Descriptor b is in a sequence, or in one of the pages the entries name in file f.
InSeq(s, b) == \E i \in DOMAIN s : b = s[i]
InPages(f, pages, b) == \E k \in DOMAIN pages : InSeq(f[pages[k].offset + 1].blocks, b)

\* It is one of the Main stream that is written.
OfMain(b) == InPages(file, mainPages, b) \/ (isMain /\ InSeq(page, b))

\* A stored block that is not in the base is where d says its bytes are.
StoredBy(d, hs, b) ==
    is_data(b) => b.hash # NoHash /\ b.hash \notin hs /\ b.hash \in DOMAIN d /\ d[b.hash] = b.offset

\* Unless they are encrypted, there is one place for all blocks of the Main stream with the
\* same bytes, and while it is written, the dedup map knows it.
OnceInv ==
    ~ encrypt =>
        /\ phase \in {"begin", "main"} => \A b : OfMain(b) => StoredBy(dedup, parentHashes, b)
        /\ \E d : \A b : OfMain(b) => StoredBy(d, parentHashes, b)

\* The same of the archives that are finished.
ArchivesOnce ==
    \A i \in DOMAIN archives : ~ archives[i].encrypted =>
        \E d : \A b : InPages(archives[i].file, archives[i].main, b)
                         => StoredBy(d, ParentIndex(archives[i].base), b)

\* What is in pages of a file is there when it has grown, and nothing else.
LEMMA InPagesStays ==
    ASSUME NEW f, NEW g, Begins(f, g), NEW pages, ThereIn(pages, f), NEW b
    PROVE  InPages(g, pages, b) <=> InPages(f, pages, b)
BY DEF InPages, Begins, ThereIn

\* An entry that is added names one page more.
LEMMA InMorePages ==
    ASSUME NEW f, NEW pages, IsSequence(pages), NEW e, NEW b, InPages(f, Append(pages, e), b)
    PROVE  InPages(f, pages, b) \/ InSeq(f[e.offset + 1].blocks, b)
<1>1. PICK t : t = Append(pages, e)
  OBVIOUS
<1>2. /\ \A i \in DOMAIN pages : t[i] = pages[i]
      /\ t[Len(pages) + 1] = e /\ \A i \in DOMAIN t : i \in DOMAIN pages \/ i = Len(pages) + 1
  BY <1>1, AppendFacts
<1>3. PICK k \in DOMAIN t : InSeq(f[t[k].offset + 1].blocks, b)
  BY <1>1 DEF InPages
<1> QED BY <1>2, <1>3 DEF InPages

\* A sequence with one more element.
LEMMA InMore ==
    ASSUME NEW s, IsSequence(s), NEW e, NEW b, InSeq(Append(s, e), b)
    PROVE  InSeq(s, b) \/ b = e
<1>1. PICK t : t = Append(s, e)
  OBVIOUS
<1>2. /\ \A i \in DOMAIN s : t[i] = s[i]
      /\ t[Len(s) + 1] = e /\ \A i \in DOMAIN t : i \in DOMAIN s \/ i = Len(s) + 1
  BY <1>1, AppendFacts
<1> QED BY <1>1, <1>2 DEF InSeq

\* A page that is written adds its descriptors, if it is one of the Main stream.
LEMMA FlushPageOf ==
    ASSUME WriterInv, NEW f \in Seq(Object), Begins(file, f), NEW p, NEW idx, NEW pos,
           FlushPage(f, p, idx, pos), isMain' = isMain, NEW b, OfMain(b)'
    PROVE  InPages(file, mainPages, b) \/ (isMain /\ InSeq(p, b))
<1>1. file' = Append(f, PageObject(p)) /\ page' = <<>>
  BY DEF FlushPage
<1>2. /\ IsSequence(f) /\ IsSequence(mainPages) /\ ThereIn(mainPages, file) /\ Len(f) \in Nat
  BY DEF WriterInv, WriterTypes, PageEntries, IsSequence
<1>3. PICK g : g = file' /\ g[Len(f) + 1] = PageObject(p) /\ \A i \in DOMAIN f : i \in DOMAIN g /\ g[i] = f[i]
  <2>1. PICK g : g = Append(f, PageObject(p))
    OBVIOUS
  <2>2. /\ DOMAIN f = 1..Len(f) /\ DOMAIN g = 1..(Len(f) + 1)
        /\ \A i \in DOMAIN f : g[i] = f[i]
        /\ g[Len(f) + 1] = PageObject(p)
    BY <1>2, <2>1, AppendFacts
  <2> QED BY <1>1, <1>2, <2>1, <2>2
<1>4. Begins(file, g)
  BY <1>3 DEF Begins
<1>5. InPages(g, mainPages', b)
  <2>1. ~ InSeq(page', b)
    BY <1>1, EmptySequence DEF InSeq
  <2> QED BY <1>3, <2>1 DEF OfMain
<1>6. CASE ~ isMain
  <2>1. mainPages' = mainPages
    BY <1>6 DEF FlushPage
  <2> QED BY <1>2, <1>4, <1>5, <2>1, InPagesStays
<1>7. CASE isMain
  <2>1. PICK e : e = PageEntry(Len(f), pageStartBlock, pageStartLogical)
    OBVIOUS
  <2>2. mainPages' = Append(mainPages, e) /\ e.offset = Len(f)
    BY <1>7, <2>1 DEF FlushPage, PageEntry
  <2>3. InPages(g, mainPages, b) \/ InSeq(g[e.offset + 1].blocks, b)
    BY <1>2, <1>5, <2>2, InMorePages
  <2>4. g[e.offset + 1].blocks = p
    BY <1>3, <2>2 DEF PageObject
  <2>5. InPages(g, mainPages, b) => InPages(file, mainPages, b)
    BY <1>2, <1>4, InPagesStays
  <2> QED BY <1>7, <2>3, <2>4, <2>5
<1>8. isMain \in BOOLEAN
  BY DEF WriterInv, WriterTypes
<1> QED BY <1>6, <1>7

\* A block that is described is added, if it is one of the Main stream.
LEMMA PushBlockOf ==
    ASSUME WriterInv, NEW f \in Seq(Object), Begins(file, f), NEW x, PushBlock(f, x), NEW b, OfMain(b)'
    PROVE  OfMain(b) \/ (isMain /\ b = x)
<1>1. isMain' = isMain /\ IsSequence(page) /\ ThereIn(mainPages, file)
  BY DEF PushBlock, WriterInv, WriterTypes, IsSequence
<1>2. CASE FlushPage(f, Append(page, x), globalIdx', logicalPos')
  <2>1. InPages(file, mainPages, b) \/ (isMain /\ InSeq(Append(page, x), b))
    BY <1>1, <1>2, FlushPageOf
  <2>2. InSeq(Append(page, x), b) => InSeq(page, b) \/ b = x
    BY <1>1, InMore
  <2> QED BY <2>1, <2>2 DEF OfMain
<1>3. CASE file' = f /\ page' = Append(page, x) /\ mainPages' = mainPages
  <2>1. InPages(f, mainPages, b) \/ (isMain /\ InSeq(Append(page, x), b))
    BY <1>1, <1>3 DEF OfMain
  <2>2. InSeq(Append(page, x), b) => InSeq(page, b) \/ b = x
    BY <1>1, InMore
  <2>3. InPages(f, mainPages, b) => InPages(file, mainPages, b)
    BY <1>1, InPagesStays
  <2> QED BY <2>1, <2>2, <2>3 DEF OfMain
<1> QED BY <1>2, <1>3 DEF PushBlock

\* A page that is written at the end of a file or a stream adds nothing.
LEMMA FlushPendingOf ==
    ASSUME WriterInv, \/ FlushPending
                      \/ UNCHANGED <<file, mainPages, auxPages, page, pageStartBlock, pageStartLogical>>,
           isMain' = isMain, NEW b, OfMain(b)'
    PROVE  OfMain(b)
<1>1. CASE FlushPage(file, page, globalIdx, logicalPos)
  <2>1. file \in Seq(Object) /\ Begins(file, file)
    BY DEF WriterInv, WriterTypes, Begins
  <2> QED BY <1>1, <2>1, FlushPageOf DEF OfMain
<1>2. CASE UNCHANGED <<file, mainPages, auxPages, page, pageStartBlock, pageStartLogical>>
  BY <1>2 DEF OfMain
<1> QED BY <1>1, <1>2 DEF FlushPending

\* A step that adds no block to the Main stream.
LEMMA NothingAdded ==
    ASSUME OnceInv, \A b : OfMain(b)' => OfMain(b), parentHashes' = parentHashes, encrypt' = encrypt,
           phase' \in {"begin", "main"} => phase \in {"begin", "main"} /\ dedup' = dedup
    PROVE  OnceInv'
BY DEF OnceInv

\* There is nothing in the Main stream of a new writer.
LEMMA NothingYet ==
    ASSUME mainPages' = <<>>, page' = <<>>
    PROVE  OnceInv'
<1>1. \A b : ~ OfMain(b)'
  BY EmptySequence DEF OfMain, InPages, InSeq
<1> QED BY <1>1 DEF OnceInv

\* A block of the Main stream that is stored at most once, and only if the base does not have it.
LEMMA StoreOnceOf ==
    ASSUME WriterInv, NEW chunk \in Seq(Byte), chunk # NoHash, chunk \notin parentHashes, StoreOnce(chunk),
           \A b : OfMain(b) => StoredBy(dedup, parentHashes, b)
    PROVE  \A b : OfMain(b)' => StoredBy(dedup', parentHashes, b)
<1>1. file \in Seq(Object) /\ Begins(file, file)
  BY DEF WriterInv, WriterTypes, Begins
<1>2. CASE Known(chunk)
  <2>1. PICK x : x = Local(dedup[chunk], Len(chunk), chunk)
    OBVIOUS
  <2>2. PushBlock(file, x) /\ dedup' = dedup
    BY <1>2, <2>1 DEF StoreOnce
  <2>3. StoredBy(dedup, parentHashes, x)
    BY <1>2, <2>1 DEF StoredBy, Local, Known
  <2> QED BY <1>1, <2>2, <2>3, PushBlockOf
<1>3. CASE ~ Known(chunk)
  <2>1. PICK x : x = Local(Len(file), Len(chunk), chunk)
    OBVIOUS
  <2>2. PICK o \in Object : o = BlockObject(chunk, PlainNonce)
    BY ObjectsAre DEF PlainNonce
  <2>3. PICK f \in Seq(Object) : f = Append(file, o) /\ Begins(file, f)
    BY <1>1, <2>2, AppendBegins
  <2>4. /\ PushBlock(f, x)
        /\ dedup' = [h \in DOMAIN dedup \cup {chunk} |-> IF h = chunk THEN Len(file) ELSE dedup[h]]
    BY <1>3, <2>1, <2>2, <2>3 DEF StoreOnce, current_offset
  <2>5. StoredBy(dedup', parentHashes, x)
    BY <2>1, <2>4 DEF StoredBy, Local
  <2>6. ASSUME NEW b, StoredBy(dedup, parentHashes, b) PROVE StoredBy(dedup', parentHashes, b)
    BY <1>3, <2>4, <2>6 DEF StoredBy, Known
  <2>7. ASSUME NEW b, OfMain(b)' PROVE StoredBy(dedup', parentHashes, b)
    <3>1. OfMain(b) \/ b = x
      BY <2>3, <2>4, <2>7, PushBlockOf
    <3>2. OfMain(b) => StoredBy(dedup, parentHashes, b)
      OBVIOUS
    <3> HIDE DEF OfMain, StoredBy
    <3> QED BY <2>5, <2>6, <3>1, <3>2
  <2> QED BY <2>7
<1> QED BY <1>2, <1>3

\* A block that is not stored, or that is encrypted, is not one to be stored once.
LEMMA WriteBlockOf ==
    ASSUME WriterInv, NEW chunk \in Seq(Byte), chunk # NoHash, ~ encrypt,
           WriteDataBlock(chunk) \/ WritePrecompressedBlock(chunk),
           \A b : OfMain(b) => StoredBy(dedup, parentHashes, b)
    PROVE  \A b : OfMain(b)' => StoredBy(dedup', parentHashes, b)
<1>1. file \in Seq(Object) /\ Begins(file, file)
  BY DEF WriterInv, WriterTypes, Begins
<1>2. CASE PushBlock(file, Sparse(Len(chunk))) /\ dedup' = dedup
  <2>1. ~ is_data(Sparse(Len(chunk)))
    BY DEF is_data, is_sparse, Sparse, BLOCK_OFFSET_PARENT
  <2> QED BY <1>1, <1>2, <2>1, PushBlockOf DEF StoredBy
<1>3. CASE WriteParentRef(chunk)
  <2>1. ~ is_data(ParentRef(chunk, Len(chunk)))
    BY DEF is_data, is_parent_ref, ParentRef
  <2> QED BY <1>1, <1>3, <2>1, PushBlockOf DEF StoredBy, WriteParentRef
<1>4. CASE StoreOnce(chunk) /\ chunk \notin parentHashes
  BY <1>4, StoreOnceOf
<1> QED BY <1>2, <1>3, <1>4 DEF WriteDataBlock, WritePrecompressedBlock

\* No chunk hashes to the hash buffer nothing has been hashed into.
LEMMA NoChunkIsNoHash == \A chunk \in Seq(Byte) : chunk # NoHash
<1>1. ASSUME NEW chunk \in Seq(Byte), chunk = NoHash PROVE FALSE
  <2>1. Len(chunk) = 1 /\ chunk[1] = -1
    BY <1>1 DEF NoHash
  <2>2. chunk[1] \in Byte
    BY <2>1
  <2> QED BY <2>1, <2>2 DEF Byte
<1> QED BY <1>1

\* A chunk is packed.
LEMMA PackChunkOnce ==
    ASSUME TypeInv, PackInv, OnceInv, PackChunk
    PROVE  OnceInv'
<1>0. /\ WriterInv /\ fileNo \in 1..Len(Files) /\ chunkNo \in 1..Len(Files[fileNo].chunks)
  BY FilesTyped DEF TypeInv, PackChunk, AtFile
<1>1. phase \in {"main", "aux"} /\ phase' = phase
  BY DEF PackChunk
<1>2. PICK chunk \in Seq(Byte) : chunk = Files[fileNo].chunks[chunkNo] /\ chunk # NoHash
  BY <1>0, FilesTyped, NoChunkIsNoHash DEF TypeInv
<1>3. WriteDataBlock(chunk) \/ WritePrecompressedBlock(chunk)
  BY <1>2 DEF PackChunk
<1>4. \E f, x : f \in Seq(Object) /\ Begins(file, f) /\ PushBlock(f, x)
  <2>1. file \in Seq(Object) /\ Begins(file, file)
    BY <1>0 DEF WriterInv, WriterTypes, Begins
  <2>2. globalIdx \in Int /\ PlainNonce \in Int
    BY <1>0 DEF WriterInv, WriterTypes, PlainNonce
  <2>3. \A n \in Int : /\ Append(file, BlockObject(chunk, n)) \in Seq(Object)
                       /\ Begins(file, Append(file, BlockObject(chunk, n)))
    <3> SUFFICES ASSUME NEW n \in Int
                 PROVE  /\ Append(file, BlockObject(chunk, n)) \in Seq(Object)
                        /\ Begins(file, Append(file, BlockObject(chunk, n)))
      OBVIOUS
    <3>1. PICK o \in Object : o = BlockObject(chunk, n)
      BY ObjectsAre
    <3>2. Append(file, o) \in Seq(Object) /\ Begins(file, Append(file, o))
      BY <2>1, <3>1, AppendBegins
    <3> QED BY <3>1, <3>2
  <2>4. \/ \E x : PushBlock(file, x)
        \/ \E n \in Int : \E x : PushBlock(Append(file, BlockObject(chunk, n)), x)
    BY <1>3, <2>2 DEF WriteDataBlock, WritePrecompressedBlock, WriteParentRef, StoreOnce, StoreEncrypted
  <2> QED BY <2>1, <2>3, <2>4
<1>5. parentHashes' = parentHashes /\ encrypt' = encrypt /\ isMain' = isMain
  BY <1>4 DEF PushBlock, configVars
<1>6. CASE encrypt
  BY <1>5, <1>6 DEF OnceInv
<1>7. CASE ~ encrypt /\ phase = "main"
  <2>1. \A b : OfMain(b) => StoredBy(dedup, parentHashes, b)
    BY <1>7 DEF OnceInv
  <2>2. \A b : OfMain(b)' => StoredBy(dedup', parentHashes', b)
    BY <1>0, <1>2, <1>3, <1>5, <1>7, <2>1, WriteBlockOf
  <2> HIDE DEF StoredBy
  <2> QED BY <2>2 DEF OnceInv
<1>8. CASE phase = "aux"
  <2>1. ~ isMain
    BY <1>8 DEF PackInv, StreamAt
  <2>2. \A b : OfMain(b)' => OfMain(b)
    BY <1>0, <1>4, <2>1, PushBlockOf
  <2> QED BY <1>1, <1>5, <1>8, <2>2, NothingAdded
<1> QED BY <1>1, <1>6, <1>7, <1>8

\* A file or a stream ends, or the next stream begins.
LEMMA OthersOnce ==
    ASSUME TypeInv, PackInv, OnceInv, BeginMain \/ EndFile \/ EndTarEntry \/ EndMain \/ EndAux \/ BeginAux
    PROVE  OnceInv'
<1>0. WriterInv
  BY DEF TypeInv
<1>1. CASE BeginMain
  <2>1. mainPages = <<>> /\ mainPages' = mainPages /\ page' = <<>>
    BY <1>1 DEF BeginMain, BeginStream, PackInv, WholeAt
  <2> QED BY <2>1, NothingYet
<1>2. CASE BeginAux
  <2>1. /\ phase' = "aux" /\ isMain' = FALSE /\ UNCHANGED <<file, mainPages, parentHashes, encrypt>>
    BY <1>2 DEF BeginAux, BeginStream, configVars
  <2>2. \A b : OfMain(b)' => OfMain(b)
    BY <2>1 DEF OfMain
  <2> QED BY <2>1, <2>2, NothingAdded
<1>3. CASE EndFile
  <2>1. /\ phase \in {"main", "aux"} /\ phase' = phase
        /\ UNCHANGED <<dedup, parentHashes, encrypt, isMain>>
        /\ \/ FlushPending
           \/ UNCHANGED <<file, mainPages, auxPages, page, pageStartBlock, pageStartLogical>>
    BY <1>3 DEF EndFile, FlushStream, configVars, writerVars, masterVars
  <2>2. \A b : OfMain(b)' => OfMain(b)
    BY <1>0, <2>1, FlushPendingOf
  <2> QED BY <2>1, <2>2, NothingAdded
<1>4. CASE EndTarEntry
  <2>1. /\ phase' = phase /\ UNCHANGED <<dedup, parentHashes, encrypt, isMain>>
        /\ UNCHANGED <<file, mainPages, auxPages, page, pageStartBlock, pageStartLogical>>
    BY <1>4 DEF EndTarEntry, configVars, writerVars, masterVars
  <2>2. \A b : OfMain(b)' => OfMain(b)
    BY <2>1 DEF OfMain
  <2> QED BY <2>1, <2>2, NothingAdded
<1>5. CASE EndMain \/ EndAux
  <2>1. /\ phase' \in {"between", "finalize"} /\ FlushPending
        /\ UNCHANGED <<parentHashes, encrypt, isMain>>
    BY <1>5 DEF EndMain, EndAux, EndStream, configVars
  <2>2. \A b : OfMain(b)' => OfMain(b)
    BY <1>0, <2>1, FlushPendingOf
  <2> QED BY <2>1, <2>2, NothingAdded
<1> QED BY <1>1, <1>2, <1>3, <1>4, <1>5

\* Archives that stay are as they were.
LEMMA ArchivesOnceStay ==
    ASSUME ArchivesOnce, UNCHANGED archives
    PROVE  ArchivesOnce'
<1>1. \A i \in DOMAIN archives : ParentIndex(archives[i].base)' = ParentIndex(archives[i].base)
  BY DEF ParentIndex
<1> HIDE DEF StoredBy, InPages
<1> QED BY <1>1 DEF ArchivesOnce

\* An archive is finished.
LEMMA FinishOnce ==
    ASSUME TypeInv, PackInv, ArchivesHold, OnceInv, ArchivesOnce, Finish
    PROVE  ArchivesOnce'
<1> DEFINE a == [file |-> Finalized.file, encrypted |-> encrypt,
                 main |-> mainPages, aux |-> auxPages,
                 mainSize |-> mainSize, auxSize |-> auxSize,
                 base |-> job.base, manifest |-> manifest, input |-> job.input]
<1>1. archives' = Append(archives, a) /\ phase = "finalize"
  BY DEF Finish
<1>x. PICK x : x = a
  OBVIOUS
<1>2. /\ x = a /\ x.file = Append(file, IndexObject) /\ x.main = mainPages
      /\ x.base = job.base /\ x.encrypted = encrypt
  BY <1>x DEF Finalized
<1> HIDE DEF a
<1>3. /\ archives \in Seq(ArchiveType) /\ job.base \in 0..Len(archives) /\ file \in Seq(Object)
      /\ ThereIn(mainPages, file)
  BY DEF TypeInv, ArchivesTyped, JobTyped, WriterInv, WriterTypes
<1>4. PICK n \in Nat : n = Len(archives) /\ DOMAIN archives = 1..n
  BY <1>3
<1>5. PICK s : s = archives' /\ DOMAIN s = 1..(n + 1) /\ s[n + 1] = x /\ \A i \in 1..n : s[i] = archives[i]
  <2>1. IsSequence(archives)
    BY <1>3 DEF IsSequence
  <2> QED BY <1>1, <1>2, <1>4, <2>1, AppendFacts
<1>6. \A base \in 0..n : ParentIndex(base)' = ParentIndex(base)
  BY <1>5 DEF ParentIndex
<1>7. ~ x.encrypted => \E d : \A b : InPages(x.file, x.main, b) => StoredBy(d, ParentIndex(x.base)', b)
  <2> SUFFICES ASSUME ~ encrypt
               PROVE  \E d : \A b : InPages(x.file, x.main, b) => StoredBy(d, ParentIndex(x.base)', b)
    BY <1>2
  <2>1. PICK d : \A b : OfMain(b) => StoredBy(d, parentHashes, b)
    BY DEF OnceInv
  <2>2. Begins(file, x.file)
    BY <1>2, <1>3, ObjectsAre, AppendBegins
  <2>3. \A b : InPages(x.file, x.main, b) => OfMain(b)
    BY <1>2, <1>3, <2>2, InPagesStays DEF OfMain
  <2>4. parentHashes = ParentIndex(x.base)'
    <3>1. parentHashes = ParentIndex(job.base)
      BY <1>1 DEF PackInv, JobAt
    <3>2. x.base = job.base /\ job.base \in 0..n
      BY <1>2, <1>3, <1>4
    <3> QED BY <1>6, <3>1, <3>2
  <2> HIDE DEF StoredBy, InPages, OfMain
  <2> QED BY <2>1, <2>3, <2>4
<1>8. ASSUME NEW i \in 1..(n + 1), ~ s[i].encrypted
      PROVE  \E d : \A b : InPages(s[i].file, s[i].main, b) => StoredBy(d, ParentIndex(s[i].base)', b)
  <2>1. CASE i = n + 1
    BY <1>5, <1>7, <1>8, <2>1
  <2>2. CASE i \in 1..n
    <3>1. s[i] = archives[i] /\ archives[i].base \in 0..(i - 1)
      BY <1>4, <1>5, <2>2 DEF ArchivesHold
    <3>2. archives[i].base \in 0..n
      BY <2>2, <3>1
    <3>3. ParentIndex(s[i].base)' = ParentIndex(archives[i].base)
      BY <1>6, <3>1, <3>2
    <3>4. PICK d : \A b : InPages(archives[i].file, archives[i].main, b)
                            => StoredBy(d, ParentIndex(archives[i].base), b)
      BY <1>4, <1>8, <2>2, <3>1 DEF ArchivesOnce
    <3> QED BY <3>1, <3>3, <3>4
  <2> QED BY <2>1, <2>2
<1> QED BY <1>5, <1>8 DEF ArchivesOnce

\* In no archive that is not encrypted the Main stream stores bytes twice, or bytes that
\* are in its base.
LEMMA OnceInvariance == Spec => [](OnceInv /\ ArchivesOnce)
<1>1. Init => OnceInv /\ ArchivesOnce
  <2> SUFFICES ASSUME Init PROVE OnceInv /\ ArchivesOnce
    OBVIOUS
  <2>1. \A b : ~ OfMain(b)
    BY EmptySequence DEF OfMain, InPages, InSeq, Init, NoWriter
  <2>2. OnceInv
    BY <2>1 DEF OnceInv
  <2>3. ArchivesOnce
    BY EmptySequence DEF ArchivesOnce, Init
  <2> QED BY <2>2, <2>3
<1>2. ReadInv /\ OnceInv /\ ArchivesOnce /\ [Next]_vars => OnceInv' /\ ArchivesOnce'
  <2> SUFFICES ASSUME TypeInv, PackInv, ArchivesHold, OnceInv, ArchivesOnce, [Next]_vars
               PROVE  OnceInv' /\ ArchivesOnce'
    BY DEF ReadInv
  <2>1. CASE StartPack \/ StartConvert \/ PackFails \/ Finish
    <3>1. mainPages' = <<>> /\ page' = <<>>
      BY <2>1 DEF StartPack, StartConvert, PackFails, Finish, Idle, Create
    <3>2. OnceInv'
      BY <3>1, NothingYet
    <3>3. ArchivesOnce'
      BY <2>1, FinishOnce, ArchivesOnceStay DEF StartPack, StartConvert, PackFails
    <3> QED BY <3>2, <3>3
  <2>2. CASE PackChunk
    BY <2>2, PackChunkOnce, ArchivesOnceStay DEF PackChunk
  <2>3. CASE BeginMain \/ EndFile \/ EndTarEntry \/ EndMain \/ EndAux \/ BeginAux
    BY <2>3, OthersOnce, ArchivesOnceStay
       DEF BeginMain, EndFile, EndTarEntry, EndMain, EndAux, BeginAux
  <2>4. CASE Done \/ UNCHANGED vars
    <3>1. UNCHANGED vars
      BY <2>4 DEF Done
    <3>2. UNCHANGED <<file, mainPages, dedup, parentHashes, encrypt, page, isMain, archives, phase>>
      BY <3>1 DEF vars, packVars, writerVars, masterVars, configVars
    <3>3. \A b : OfMain(b)' => OfMain(b)
      BY <3>2 DEF OfMain
    <3>4. OnceInv'
      BY <3>2, <3>3, NothingAdded
    <3> QED BY <3>2, <3>4, ArchivesOnceStay
  <2> QED BY <2>1, <2>2, <2>3, <2>4 DEF Next
<1> QED BY <1>1, <1>2, ReadInvariance, PTL DEF Spec

\* The positions of the stored descriptors, of the sparse ones and of the references, and of
\* those of the stored ones whose offset is or is not that of one before.
DataAt(blocks) == { i \in DOMAIN blocks : is_data(blocks[i]) }
ZerosAt(blocks) == { i \in DOMAIN blocks : is_zero(blocks[i]) }
RefsAt(blocks) == { i \in DOMAIN blocks : is_parent_ref(blocks[i]) }
RepeatedAt(blocks) ==
    { i \in DataAt(blocks) : \E j \in DataAt(blocks) : j < i /\ blocks[j].offset = blocks[i].offset }
FirstsAt(blocks) == DataAt(blocks) \ RepeatedAt(blocks)

\* What inspect_archive counts, in these terms.
LEMMA InspectIs ==
    ASSUME NEW a
    PROVE  LET s == inspect_archive(a)
               blocks == MainBlocks(a)
           IN  /\ s.data_bytes = BytesOf(blocks, DataAt(blocks))
               /\ s.zero_bytes = BytesOf(blocks, ZerosAt(blocks))
               /\ s.parent_ref_bytes = BytesOf(blocks, RefsAt(blocks))
               /\ s.unique_blocks = Cardinality(FirstsAt(blocks))
               /\ s.dedup_bytes_saved = BytesOf(blocks, RepeatedAt(blocks))
BY DEF inspect_archive, DataAt, ZerosAt, RefsAt, RepeatedAt, FirstsAt

\* The lengths of the parts of a sequence of descriptors add up.
LEMMA PartsAdd ==
    ASSUME NEW blocks \in Seq(BlockInfo)
    PROVE  /\ {BytesOf(blocks, DataAt(blocks)), BytesOf(blocks, ZerosAt(blocks)),
               BytesOf(blocks, RefsAt(blocks)), BytesOf(blocks, FirstsAt(blocks)),
               BytesOf(blocks, RepeatedAt(blocks))} \subseteq Nat
           /\ BytesOf(blocks, DataAt(blocks)) + BytesOf(blocks, ZerosAt(blocks))
                + BytesOf(blocks, RefsAt(blocks)) = BytesOf(blocks, DOMAIN blocks)
           /\ BytesOf(blocks, FirstsAt(blocks)) + BytesOf(blocks, RepeatedAt(blocks))
                = BytesOf(blocks, DataAt(blocks))
<1> DEFINE n == [i \in DOMAIN blocks |-> blocks[i].logical_len]
           S == DOMAIN blocks
<1>1. IsFiniteSet(S) /\ Numbers(n, S)
  BY BytesFirst
<1>2. \A T : BytesOf(blocks, T) = SumOf(n, T)
  BY DEF BytesOf
<1>3. PICK D, Z, R, F, P :
         /\ D = DataAt(blocks) /\ Z = ZerosAt(blocks) /\ R = RefsAt(blocks)
         /\ F = FirstsAt(blocks) /\ P = RepeatedAt(blocks)
  OBVIOUS
<1>4. D \in SUBSET S /\ Z \in SUBSET S /\ R \in SUBSET S
  BY <1>3 DEF DataAt, ZerosAt, RefsAt
<1>5. F \in SUBSET S /\ P \in SUBSET S /\ F \cap P = {} /\ F \cup P = D
  BY <1>3, <1>4 DEF FirstsAt, RepeatedAt
<1>6. D \cap Z = {} /\ (D \cup Z) \cap R = {} /\ (D \cup Z) \cup R = S /\ D \cup Z \in SUBSET S
  BY <1>3 DEF DataAt, ZerosAt, RefsAt, is_data, is_zero
<1> HIDE DEF n, S
<1>7. ASSUME NEW T \in SUBSET S PROVE SumOf(n, T) \in Nat
  <2>1. IsFiniteSet(T) /\ Numbers(n, T)
    BY <1>1, FS_Subset DEF Numbers
  <2> QED BY <2>1, SumTakes
<1>8. SumOf(n, D \cup Z) = SumOf(n, D) + SumOf(n, Z)
  BY <1>1, <1>4, <1>6, SumUnion
<1>9. SumOf(n, (D \cup Z) \cup R) = SumOf(n, D \cup Z) + SumOf(n, R)
  BY <1>1, <1>4, <1>6, SumUnion
<1>10. SumOf(n, F \cup P) = SumOf(n, F) + SumOf(n, P)
  BY <1>1, <1>5, SumUnion
<1>11. /\ SumOf(n, D) \in Nat /\ SumOf(n, Z) \in Nat /\ SumOf(n, R) \in Nat
       /\ SumOf(n, F) \in Nat /\ SumOf(n, P) \in Nat
  BY <1>4, <1>5, <1>7
<1>12. /\ SumOf(n, D) + SumOf(n, Z) + SumOf(n, R) = SumOf(n, S)
       /\ SumOf(n, F) + SumOf(n, P) = SumOf(n, D)
  BY <1>5, <1>6, <1>8, <1>9, <1>10
<1> QED BY <1>2, <1>3, <1>11, <1>12 DEF S

\* The descriptors of the Main stream are those of its pages.
LEMMA InMain ==
    ASSUME NEW a, PagesTyped(a.main, a.file), NEW b
    PROVE  InSeq(MainBlocks(a), b) <=> InPages(a.file, a.main, b)
<1>1. PICK n \in Nat : n = Len(a.main) /\ DOMAIN a.main = 1..n
  BY DEF PagesTyped
<1>2. PICK ss \in Seq(Seq(BlockInfo)) : ss = PageBlocks(a) /\ Len(ss) = n
  BY <1>1, MainBlocksAre
<1>3. PICK whole \in Seq(BlockInfo) : whole = MainBlocks(a) /\ whole = FlattenSeq(ss)
  BY <1>2, MainBlocksAre
<1>4. PICK at : IsStarts(at, ss) /\ at = Starts(ss)
  BY StartsIs
<1>5. Len(whole) = at[n + 1] /\ \A k \in 1..n : HoldsAt(whole, at[k], ss[k])
  BY <1>2, <1>3, <1>4, FlattenHolds
<1>6. \A k \in 1..n : /\ ss[k] \in Seq(BlockInfo) /\ at[k] \in Nat
                      /\ ss[k] = a.file[a.main[k].offset + 1].blocks
  <2>1. \A k \in 1..n : at[k] \in Nat /\ ss[k] \in Seq(BlockInfo)
    BY <1>2, <1>4 DEF IsStarts
  <2> QED BY <1>1, <1>2, <2>1, MainBlocksAre
<1>7. ASSUME NEW j \in DOMAIN whole, b = whole[j] PROVE InPages(a.file, a.main, b)
  <2>1. j \in 1..at[n + 1]
    BY <1>5
  <2>2. PICK k \in 1..n : j \in (at[k] + 1)..(at[k] + Len(ss[k]))
    BY <1>2, <1>4, <2>1, InSomeOne
  <2>3. PICK i \in 1..Len(ss[k]) : at[k] + i = j
    <3>1. j - at[k] \in 1..Len(ss[k]) /\ at[k] + (j - at[k]) = j
      BY <1>6, <2>2
    <3> QED BY <3>1
  <2>4. whole[j] = ss[k][i] /\ i \in DOMAIN ss[k]
    BY <1>5, <1>6, <2>3 DEF HoldsAt
  <2> QED BY <1>1, <1>6, <1>7, <2>4 DEF InPages, InSeq
<1>8. ASSUME NEW k \in 1..n, NEW i \in DOMAIN ss[k], b = ss[k][i] PROVE InSeq(whole, b)
  <2>1. i \in 1..Len(ss[k]) /\ at[k] \in Nat /\ Len(ss[k]) \in Nat
    BY <1>6
  <2>2. whole[at[k] + i] = ss[k][i] /\ at[k] + i \in 1..Len(whole)
    <3>1. at[k] + Len(ss[k]) <= Len(whole) /\ \A x \in 1..Len(ss[k]) : whole[at[k] + x] = ss[k][x]
      BY <1>5 DEF HoldsAt
    <3>2. PICK m \in Nat, l \in Nat, p \in Nat : m = at[k] /\ l = Len(ss[k]) /\ p = Len(whole)
      BY <2>1
    <3> QED BY <2>1, <3>1, <3>2
  <2> QED BY <1>8, <2>2 DEF InSeq
<1> QED BY <1>1, <1>3, <1>6, <1>7, <1>8 DEF InPages, InSeq

\* Each of them stands for bytes.
LEMMA MainHolds ==
    ASSUME NEW a, PagesTyped(a.main, a.file), NEW hs, NEW to, NEW packed,
           PagesHold(a.file, hs, a.main, to, packed), NEW i \in DOMAIN MainBlocks(a)
    PROVE  \E idx : \E chunk \in Seq(Byte) : Holds(a.file, hs, idx, MainBlocks(a)[i], chunk)
<1>1. PICK b : b = MainBlocks(a)[i]
  OBVIOUS
<1>2. InPages(a.file, a.main, b)
  BY <1>1, InMain DEF InSeq
<1>3. PICK k \in DOMAIN a.main : \E j \in DOMAIN a.file[a.main[k].offset + 1].blocks :
                                    b = a.file[a.main[k].offset + 1].blocks[j]
  BY <1>2 DEF InPages, InSeq
<1>4. k \in 1..Len(a.main) /\ a.file[a.main[k].offset + 1].blocks \in Seq(BlockInfo)
  BY DEF PagesTyped
<1>5. PICK j \in 1..Len(a.file[a.main[k].offset + 1].blocks) :
         b = a.file[a.main[k].offset + 1].blocks[j]
  BY <1>3, <1>4
<1>6. PICK end : PageHolds(a.file, hs, a.main[k], end, packed)
  BY <1>4 DEF PagesHold
<1>7. PICK e : e = a.main[k]
  OBVIOUS
<1>8. \E chunk \in Seq(Byte) :
        Holds(a.file, hs, (e.start_block + j) - 1, a.file[e.offset + 1].blocks[j], chunk)
  BY <1>5, <1>6, <1>7, PageBlock
<1> QED BY <1>1, <1>5, <1>7, <1>8

\* The stored descriptors at a new offset are as many as the hashes, and as long.
LEMMA FirstsAre ==
    ASSUME NEW a, PagesTyped(a.main, a.file), NEW hs, NEW to, NEW packed,
           PagesHold(a.file, hs, a.main, to, packed),
           NEW d, \A b : InPages(a.file, a.main, b) => StoredBy(d, hs, b)
    PROVE  /\ Cardinality(hashes(a)) = Cardinality(FirstsAt(MainBlocks(a)))
           /\ HashBytes(hashes(a)) = BytesOf(MainBlocks(a), FirstsAt(MainBlocks(a)))
           /\ hashes(a) \cap hs = {}
<1>1. PICK blocks \in Seq(BlockInfo) : blocks = MainBlocks(a)
  BY MainBlocksAre
<1>2. PICK D, F : D = DataAt(blocks) /\ F = FirstsAt(blocks)
  OBVIOUS
<1>3. /\ D \in SUBSET (DOMAIN blocks) /\ F \in SUBSET D
      /\ \A i \in DOMAIN blocks : i \in D <=> is_data(blocks[i])
      /\ \A i \in D : i \in F <=> ~ \E j \in D : j < i /\ blocks[j].offset = blocks[i].offset
  BY <1>2 DEF DataAt, FirstsAt, RepeatedAt
<1>4. \A i \in D : /\ blocks[i].hash # NoHash /\ blocks[i].hash \notin hs
                   /\ d[blocks[i].hash] = blocks[i].offset
  <2>1. \A i \in DOMAIN blocks : InPages(a.file, a.main, blocks[i])
    BY <1>1, InMain DEF InSeq
  <2>2. \A i \in DOMAIN blocks : StoredBy(d, hs, blocks[i])
    BY <2>1
  <2> QED BY <1>3, <2>2 DEF StoredBy
<1>5. \A i \in D : blocks[i].hash = a.file[blocks[i].offset + 1].data
                   /\ blocks[i].logical_len = Len(blocks[i].hash)
  <2> SUFFICES ASSUME NEW i \in D
               PROVE  /\ blocks[i].hash = a.file[blocks[i].offset + 1].data
                      /\ blocks[i].logical_len = Len(blocks[i].hash)
    OBVIOUS
  <2>1. PICK b : b = blocks[i] /\ is_data(b) /\ b.hash # NoHash
    BY <1>3, <1>4
  <2>2. PICK idx : \E chunk \in Seq(Byte) : Holds(a.file, hs, idx, b, chunk)
    BY <1>1, <1>3, <2>1, MainHolds
  <2>3. PICK chunk \in Seq(Byte) : Holds(a.file, hs, idx, b, chunk)
    BY <2>2
  <2>4. b.hash = chunk /\ a.file[b.offset + 1].data = chunk /\ b.logical_len = Len(chunk)
    BY <2>1, <2>3 DEF Holds, is_data, is_sparse, is_parent_ref, BLOCK_OFFSET_PARENT
  <2> QED BY <2>1, <2>4
<1>6. ASSUME NEW i \in D PROVE \E j \in F : blocks[j].offset = blocks[i].offset
  <2> DEFINE same == { j \in D : blocks[j].offset = blocks[i].offset }
  <2>1. same \subseteq Nat /\ same # {}
    BY <1>3
  <2>2. PICK j \in same : \A k \in same : j <= k
    BY <2>1, LeastNumber
  <2>3. \A k \in D : k \in Nat
    BY <1>3
  <2>4. ~ \E k \in D : k < j /\ blocks[k].offset = blocks[j].offset
    BY <2>2, <2>3
  <2> QED BY <1>3, <2>2, <2>4
<1>7. ASSUME NEW i \in F, NEW j \in F, blocks[i].hash = blocks[j].hash PROVE i = j
  <2>1. i \in D /\ j \in D /\ i \in Nat /\ j \in Nat
    BY <1>3
  <2>2. blocks[i].offset = blocks[j].offset
    BY <1>4, <1>7, <2>1
  <2>3. ~ (i < j) /\ ~ (j < i)
    BY <1>3, <2>1, <2>2
  <2> QED BY <2>1, <2>3
<1> DEFINE f == [i \in DOMAIN blocks |-> blocks[i].hash]
           n == [i \in DOMAIN blocks |-> blocks[i].logical_len]
           m == [h \in hashes(a) |-> Len(h)]
<1>8. hashes(a) = { blocks[i].hash : i \in D }
  <2>1. ASSUME NEW h \in hashes(a) PROVE \E i \in D : h = blocks[i].hash
    BY <1>1, <1>3 DEF hashes, Range
  <2>2. ASSUME NEW i \in D PROVE blocks[i].hash \in hashes(a)
    BY <1>1, <1>3, <1>4 DEF hashes, Range
  <2> QED BY <2>1, <2>2
<1>9. \A h \in hashes(a) : \E j \in F : h = blocks[j].hash
  <2> SUFFICES ASSUME NEW h \in hashes(a) PROVE \E j \in F : h = blocks[j].hash
    OBVIOUS
  <2>1. PICK i \in D : h = blocks[i].hash
    BY <1>8
  <2>2. PICK j \in F : blocks[j].offset = blocks[i].offset
    BY <1>6
  <2>3. blocks[j].hash = blocks[i].hash
    BY <1>3, <1>5, <2>2
  <2> QED BY <2>1, <2>3
<1>10. hashes(a) = { f[i] : i \in F }
  <2>1. \A i \in F : f[i] = blocks[i].hash /\ i \in D
    BY <1>3
  <2>2. \A i \in F : f[i] \in hashes(a)
    BY <1>8, <2>1
  <2>3. \A h \in hashes(a) : \E i \in F : h = f[i]
    BY <1>9, <2>1
  <2> QED BY <2>2, <2>3
<1>11. IsFiniteSet(F) /\ Numbers(n, F)
  <2>1. IsFiniteSet(DOMAIN blocks) /\ Numbers(n, DOMAIN blocks)
    BY BytesFirst
  <2>2. F \subseteq DOMAIN blocks
    BY <1>3
  <2> QED BY <2>1, <2>2, FS_Subset DEF Numbers
<1>12. \A x, y \in F : f[x] = f[y] => x = y
  BY <1>3, <1>7
<1>13. \A x \in F : m[f[x]] = n[x]
  <2> SUFFICES ASSUME NEW x \in F PROVE m[f[x]] = n[x]
    OBVIOUS
  <2>1. x \in D /\ x \in DOMAIN blocks /\ blocks[x].hash \in hashes(a)
    BY <1>3, <1>8
  <2>2. m[blocks[x].hash] = Len(blocks[x].hash)
    BY <2>1
  <2> QED BY <1>5, <2>1, <2>2
<1> HIDE DEF f, n, m
<1>14. /\ SumOf(m, { f[x] : x \in F }) = SumOf(n, F)
       /\ Cardinality({ f[x] : x \in F }) = Cardinality(F)
  BY <1>11, <1>12, <1>13, SumImage
<1>15. Cardinality(hashes(a)) = Cardinality(FirstsAt(MainBlocks(a)))
  BY <1>1, <1>2, <1>10, <1>14
<1>16. HashBytes(hashes(a)) = SumOf(m, hashes(a))
  BY DEF HashBytes, m
<1>17. BytesOf(blocks, F) = SumOf(n, F)
  BY DEF BytesOf, n
<1>18. HashBytes(hashes(a)) = BytesOf(MainBlocks(a), FirstsAt(MainBlocks(a)))
  BY <1>1, <1>2, <1>10, <1>14, <1>16, <1>17
<1>19. hashes(a) \cap hs = {}
  BY <1>4, <1>8
<1> QED BY <1>15, <1>18, <1>19

\* The hashes of the blocks an archive stores are among those another takes from it.
LEMMA HashesOfBase ==
    ASSUME NEW p, PagesTyped(p.main, p.file)
    PROVE  hashes(p) \subseteq iter_block_hashes(p)
<1> SUFFICES ASSUME NEW h \in hashes(p) PROVE h \in iter_block_hashes(p)
  OBVIOUS
<1>1. PICK b : b \in Range(MainBlocks(p)) /\ is_data(b) /\ b.hash # NoHash /\ h = b.hash
  BY DEF hashes
<1>2. InSeq(MainBlocks(p), b)
  BY <1>1 DEF Range, InSeq
<1>3. PICK k \in DOMAIN p.main : InSeq(p.file[p.main[k].offset + 1].blocks, b)
  BY <1>2, InMain DEF InPages
<1>4. p.main[k] \in Range(p.main) /\ b \in Range(BlocksAt(p, p.main[k]))
  BY <1>3 DEF Range, InSeq, BlocksAt
<1>5. ~ is_sparse(b)
  BY <1>1 DEF is_data
<1> QED BY <1>1, <1>4, <1>5 DEF iter_block_hashes

\* What is known of a finished archive, whatever it is packed over.
LEMMA FinishedIs ==
    ASSUME ReadInv, NEW i \in DOMAIN archives
    PROVE  \E a, hs :
              /\ a \in ArchiveType /\ a = archives[i] /\ hs = ParentIndex(a.base)
              /\ PagesTyped(a.main, a.file) /\ a.base \in 0..(i - 1)
              /\ Bytes(a.input.main) \in Seq(Byte)
              /\ PagesHold(a.file, hs, a.main, Len(Bytes(a.input.main)), Bytes(a.input.main))
<1>1. TypeInv /\ ArchivesHold /\ archives \in Seq(ArchiveType)
  BY DEF ReadInv, TypeInv, ArchivesTyped
<1>2. PICK a \in ArchiveType : a = archives[i]
  BY <1>1
<1>3. PICK hs : hs = ParentIndex(a.base)
  OBVIOUS
<1>4. ArchiveHolds(a, hs) /\ a.base \in 0..(i - 1)
  BY <1>1, <1>2, <1>3 DEF ArchivesHold
<1>5. PagesTyped(a.main, a.file)
  <2>1. ThereIn(a.main, a.file) /\ ThereIn(a.aux, a.file)
    BY <1>1, <1>2 DEF TypeInv, ArchivesTyped
  <2> QED BY <2>1, PagesAreTyped
<1>6. a.input.main \in Seq(FileType)
  <2>1. a.input \in InputType
    BY DEF ArchiveType
  <2> QED BY <2>1 DEF InputType
<1>7. Bytes(a.input.main) \in Seq(Byte)
  BY <1>6, ChunksAre
<1> QED BY <1>2, <1>3, <1>4, <1>5, <1>7 DEF ArchiveHolds

\* What is reported of an archive and its base from their indexes alone is true of what was
\* packed (inspect_archive of ops/src/inspect.rs, run of cli/src/cmd/data/diff.rs): the
\* report covers the Main stream byte for byte, an archive that is not encrypted stores no
\* block twice and none its base stores, and what the comparison calls shared and new, with
\* what the archive shares with itself, is all of it.
THEOREM StatsTrueCorrect == Spec => []StatsTrue
<1>1. ReadInv /\ ArchivesOnce => StatsTrue
  <2> SUFFICES ASSUME ReadInv, ArchivesOnce, NEW i \in DOMAIN archives
               PROVE  Covers(archives[i]) /\ StoresOnce(archives[i]) /\ Compares(archives[i])
    BY DEF StatsTrue
  <2>1. PICK a, hs :
           /\ a \in ArchiveType /\ a = archives[i] /\ hs = ParentIndex(a.base)
           /\ PagesTyped(a.main, a.file) /\ a.base \in 0..(i - 1)
           /\ Bytes(a.input.main) \in Seq(Byte)
           /\ PagesHold(a.file, hs, a.main, Len(Bytes(a.input.main)), Bytes(a.input.main))
    BY FinishedIs
  <2>2. PICK packed \in Seq(Byte) : packed = Bytes(a.input.main)
    BY <2>1
  <2>3. PICK blocks \in Seq(BlockInfo) : blocks = MainBlocks(a)
    BY <2>1, MainBlocksAre
  <2>4. PICK data, zeros, refs, firsts, repeated, length \in Nat :
           /\ data = BytesOf(blocks, DataAt(blocks)) /\ zeros = BytesOf(blocks, ZerosAt(blocks))
           /\ refs = BytesOf(blocks, RefsAt(blocks)) /\ firsts = BytesOf(blocks, FirstsAt(blocks))
           /\ repeated = BytesOf(blocks, RepeatedAt(blocks)) /\ length = Len(packed)
    <3>1. /\ BytesOf(blocks, DataAt(blocks)) \in Nat /\ BytesOf(blocks, ZerosAt(blocks)) \in Nat
          /\ BytesOf(blocks, RefsAt(blocks)) \in Nat /\ BytesOf(blocks, FirstsAt(blocks)) \in Nat
          /\ BytesOf(blocks, RepeatedAt(blocks)) \in Nat
      BY PartsAdd
    <3>2. Len(packed) \in Nat
      OBVIOUS
    <3> QED BY <3>1, <3>2, Zenon
  <2>5. data + zeros + refs = length /\ firsts + repeated = data
    <3>1. BytesOf(blocks, DOMAIN blocks) = length
      BY <2>1, <2>2, <2>3, <2>4, BytesOfMain
    <3> QED BY <2>4, <3>1, PartsAdd
  <2>6. PICK s : /\ s = inspect_archive(a)
                 /\ s.data_bytes = data /\ s.zero_bytes = zeros /\ s.parent_ref_bytes = refs
                 /\ s.unique_blocks = Cardinality(FirstsAt(blocks)) /\ s.dedup_bytes_saved = repeated
    BY <2>3, <2>4, InspectIs
  <2>7. Covers(a)
    BY <2>2, <2>4, <2>5, <2>6 DEF Covers
  <2>8. ASSUME ~ a.encrypted
        PROVE  /\ Cardinality(hashes(a)) = Cardinality(FirstsAt(blocks))
               /\ HashBytes(hashes(a)) = firsts /\ hashes(a) \cap hs = {}
    <3>1. PICK d : \A b : InPages(a.file, a.main, b) => StoredBy(d, hs, b)
      BY <2>1, <2>8 DEF ArchivesOnce
    <3> HIDE DEF InPages, StoredBy
    <3> QED BY <2>1, <2>3, <2>4, <3>1, FirstsAre
  <2>9. StoresOnce(a)
    BY <2>6, <2>8 DEF StoresOnce
  <2>10. ASSUME a.base # 0, ~ a.encrypted, NEW base, base = archives[a.base]
         PROVE  /\ diff(base, a).shared_data_blocks = 0
                /\ diff(base, a).shared_bytes + diff(base, a).new_b_bytes
                     + s.dedup_bytes_saved + s.zero_bytes = Len(Bytes(a.input.main))
    <3>1. a.base \in DOMAIN archives
      BY <2>1, <2>10 DEF ReadInv, TypeInv, ArchivesTyped
    <3>2. PagesTyped(base.main, base.file)
      BY <2>10, <3>1, FinishedIs
    <3>3. hs = iter_block_hashes(base)
      BY <2>1, <2>10 DEF ParentIndex
    <3>4. hashes(a) \cap hashes(base) = {} /\ hashes(a) \ hashes(base) = hashes(a)
      BY <2>8, <2>10, <3>2, <3>3, HashesOfBase
    <3>5. Cardinality({}) = 0 /\ HashBytes({}) = 0
      <4>1. IsFiniteSet({}) /\ Cardinality({}) = 0
        BY FS_EmptySet
      <4>2. \A m : SumOf(m, {}) = 0
        BY <4>1, SumTakes DEF Numbers
      <4> QED BY <4>1, <4>2 DEF HashBytes
    <3>6. /\ diff(base, a).shared_data_blocks = Cardinality(hashes(a) \cap hashes(base))
          /\ diff(base, a).shared_bytes = HashBytes(hashes(a) \cap hashes(base)) + s.parent_ref_bytes
          /\ diff(base, a).new_b_bytes = HashBytes(hashes(a) \ hashes(base))
      BY <2>6 DEF diff
    <3>7. /\ diff(base, a).shared_data_blocks = 0
          /\ diff(base, a).shared_bytes = refs /\ diff(base, a).new_b_bytes = firsts
      <4>1. HashBytes(hashes(a)) = firsts
        BY <2>8, <2>10
      <4>2. PICK shared, new : shared = hashes(a) \cap hashes(base) /\ new = hashes(a) \ hashes(base)
        OBVIOUS
      <4>3. shared = {} /\ HashBytes(new) = firsts
        BY <3>4, <4>1, <4>2
      <4>4. HashBytes(shared) = 0 /\ Cardinality(shared) = 0
        BY <3>5, <4>3
      <4>5. PICK e : e = diff(base, a)
        OBVIOUS
      <4>6. /\ e.shared_data_blocks = Cardinality(shared)
            /\ e.shared_bytes = HashBytes(shared) + s.parent_ref_bytes
            /\ e.new_b_bytes = HashBytes(new)
        BY <3>6, <4>2, <4>5
      <4>7. e.shared_data_blocks = 0 /\ e.shared_bytes = 0 + refs /\ e.new_b_bytes = firsts
        BY <2>6, <4>3, <4>4, <4>6
      <4>8. 0 + refs = refs
        OBVIOUS
      <4> QED BY <4>5, <4>7, <4>8
    <3>8. refs + firsts + repeated + zeros = length
      BY <2>5
    <3>9. PICK sh, new : sh = diff(base, a).shared_bytes /\ new = diff(base, a).new_b_bytes
      OBVIOUS
    <3>10. sh = refs /\ new = firsts /\ s.dedup_bytes_saved = repeated /\ s.zero_bytes = zeros
      BY <2>6, <3>7, <3>9
    <3>11. sh + new + s.dedup_bytes_saved + s.zero_bytes = length
      BY <3>8, <3>10
    <3>12. Len(Bytes(a.input.main)) = length
      BY <2>2, <2>4
    <3> QED BY <3>7, <3>9, <3>11, <3>12
  <2>11. Compares(a)
    BY <2>6, <2>10 DEF Compares
  <2> QED BY <2>1, <2>7, <2>9, <2>11
<1> QED BY <1>1, ReadInvariance, OnceInvariance, PTL
=============================================================================
