------------------------- MODULE ArchiveServerProofs -------------------------
(***************************************************************************)
(* For any archive, readers and connections: there is never more than one   *)
(* prefetch, and never a flag without one; what is in the block cache is     *)
(* the block it is kept under; and a read, whatever comes between its steps, *)
(* returns the bytes of the stream, as an HTTP answer says it does. An NBD   *)
(* client and its session stay in step: neither takes one message for        *)
(* another, and the data of a reply is what was asked for.                   *)
(***************************************************************************)
EXTENDS ArchiveServer, SequenceTheorems, WellFoundedInduction, TLAPS

\* What may be in the cache: the blocks of the streams, under their keys.
Entries == UNION { { [key |-> CacheKey(s, Items[s][k].idx), data |-> Items[s][k].data] :
                        k \in DOMAIN Items[s] } : s \in Streams }

\* A prefetch has positions of its stream to do, and one of them in hand or none.
IsTask(t) ==
    \E s \in Streams : \E todo \in SUBSET DOMAIN Items[s] : \E k \in {0} \cup todo :
        t = [stream |-> s, in_hand |-> k, todo |-> todo]

\* The prefetcher is at rest, or one prefetch is under way.
AtRest == in_flight = FALSE /\ tasks = <<>>
UnderWay == in_flight = TRUE /\ \E t : tasks = <<t>> /\ IsTask(t)
PrefetchInv == AtRest \/ UnderWay

\* What a read has of a block, when it asks for n bytes at an offset.
Share(s, offset, n, k) ==
    IF k \in WorkItems(s, offset, n)
    THEN Copied([offset |-> offset, n |-> n], Items[s][k], Items[s][k].data)
    ELSE <<>>

\* A read is within the stream, and what it has got of a block is right.
Within(s, offset, n) == offset + n <= size(Archive, s) \/ n = 0
IsRead(job) ==
    /\ job.stream \in Streams /\ job.offset \in Nat /\ job.n \in Nat
    /\ Within(job.stream, job.offset, job.n)
    /\ job.items = WorkItems(job.stream, job.offset, job.n)
    /\ DOMAIN job.got \subseteq job.items
    /\ \A k \in DOMAIN job.got :
          job.got[k] \in {Failed, Share(job.stream, job.offset, job.n, k)}
ReadsInv == \A r \in DOMAIN jobs : IsRead(jobs[r])

\* The cache holds entries, no more than it may, and each key once.
IsCache(s) ==
    /\ s \in Seq(Entries) /\ Len(s) <= Capacity
    /\ \A i, j \in DOMAIN s : s[i].key = s[j].key => i = j
CacheInv == IsCache(cache)

SharedInv == PrefetchInv /\ ReadsInv /\ CacheInv

\* The messages of a connection.
Errors == {"none", "EIO", "EPERM"}
RequestMsgs ==
    [kind : {"request"}, handle : Nat, type : {"read", "write", "flush", "disc"},
     offset : Nat, length : Nat]
ToServer ==
    [kind : {"flags"}, no_zeroes : BOOLEAN] \cup [kind : {"option"}, option : Options]
    \cup RequestMsgs \cup {Msg("data"), Msg("garbage")}
ToClient ==
    { Msg(k) : k \in {"greeting", "info", "ack", "export", "124 zeroes", "unsupported"} }
    \cup [kind : {"reply"}, handle : Nat, error : Errors] \cup [kind : {"data"}, bytes : Seq(Nat)]

\* The two sides of a connection, and its two queues.
SessionPcs ==
    {"start", "flags", "options", "transmission", "reading", "draining", "closed", "bailed"}
Sessions == [pc : SessionPcs, no_zeroes : BOOLEAN, request : RequestMsgs \cup {Nothing}]
Clients ==
    [pc : {"start", "options", "transmission", "data", "confused", "gone"}, no_zeroes : BOOLEAN,
     options : 0..MaxOptions,
     option : {"none", "export_name", "info", "go", "other"},
     sent : 0..MaxRequests, waiting : SUBSET RequestMsgs,
     current : {Nothing} \cup [request : RequestMsgs, error : Errors]]
\* Flags are the first message, and they come before anything else can.
Early(k, q) == \/ k.pc \in {"start", "gone"} /\ q = <<>>
               \/ q # <<>> /\ Head(q).kind = "flags"
NbdInv ==
    /\ session \in [NbdClients -> Sessions] /\ client \in [NbdClients -> Clients]
    /\ to_server \in [NbdClients -> Seq(ToServer)] /\ to_client \in [NbdClients -> Seq(ToClient)]
    /\ \A c \in NbdClients :
          /\ session[c].pc \in {"reading", "draining"} => session[c].request \in RequestMsgs
          /\ session[c].pc \in {"start", "flags"} => Early(client[c], to_server[c])

\* A session that reads has a read under way, of what its request asks for.
IsReadOf(job, s, offset, len) ==
    job.stream = s /\ job.offset = offset /\ job.n = Clamped(s, offset, len)
NbdReadsInv ==
    \A c \in NbdClients :
        /\ session[c].pc = "reading" <=> c \in DOMAIN jobs
        /\ session[c].pc = "reading" =>
              IsReadOf(jobs[c], "main", session[c].request.offset, session[c].request.length)

-----------------------------------------------------------------------------
(* A sequence of one element.                                                *)

LEMMA Single ==
    ASSUME NEW t
    PROVE  /\ Append(<<>>, t) = <<t>>
           /\ RemoveAt(<<t>>, 1) = <<>>
           /\ Len(<<t>>) = 1 /\ DOMAIN <<t>> = {1} /\ <<t>>[1] = t
<1>1. <<t>> \in Seq({t}) /\ Len(<<t>>) = 1 /\ DOMAIN <<t>> = {1} /\ <<t>>[1] = t
  OBVIOUS
<1>2. Append(<<>>, t) = <<t>>
  OBVIOUS
<1>3. SubSeq(<<t>>, 1, 0) = <<>> /\ SubSeq(<<t>>, 2, 1) = <<>>
  BY <1>1
<1>4. RemoveAt(<<t>>, 1) = <<>>
  BY <1>1, <1>3 DEF RemoveAt
<1> QED BY <1>1, <1>2, <1>4

-----------------------------------------------------------------------------
(* The block cache.                                                          *)

\* What is left of a sequence without one of its elements.
LEMMA RemoveAtIs ==
    ASSUME NEW S, NEW s \in Seq(S), NEW i \in 1..Len(s), NEW left, left = RemoveAt(s, i)
    PROVE  /\ left \in Seq(S) /\ Len(left) = Len(s) - 1
           /\ \A j \in 1..(Len(s) - 1) : left[j] = IF j < i THEN s[j] ELSE s[j + 1]
<1>1. PICK n \in Nat : n = Len(s) /\ i \in 1..n
  OBVIOUS
<1>2. PICK a, b : a = SubSeq(s, 1, i - 1) /\ b = SubSeq(s, i + 1, n)
  OBVIOUS
<1>3. a \in Seq(S) /\ Len(a) = i - 1 /\ \A j \in 1..(i - 1) : a[j] = s[j]
  BY <1>1, <1>2
<1>4. b \in Seq(S) /\ Len(b) = n - i /\ \A j \in 1..(n - i) : b[j] = s[i + j]
  BY <1>1, <1>2
<1>5. left = a \o b
  BY <1>1, <1>2 DEF RemoveAt
<1>6. left \in Seq(S) /\ Len(left) = n - 1
  <2>0. a \in Seq(S) /\ b \in Seq(S)
    BY <1>3, <1>4
  <2>1. left \in Seq(S) /\ Len(left) = Len(a) + Len(b)
    BY <1>5, <2>0
  <2>2. Len(a) = i - 1 /\ Len(b) = n - i
    BY <1>3, <1>4
  <2>3. i \in Nat
    BY <1>1
  <2> QED BY <1>1, <2>1, <2>2, <2>3
<1>7. ASSUME NEW j \in 1..(n - 1) PROVE left[j] = IF j < i THEN s[j] ELSE s[j + 1]
  <2>1. CASE j < i
    BY <1>1, <1>3, <1>4, <1>5, <2>1
  <2>2. CASE ~ (j < i)
    <3>1. j - (i - 1) \in 1..(n - i) /\ i + (j - (i - 1)) = j + 1
      BY <1>1, <2>2
    <3>2. left[j] = b[j - (i - 1)]
      BY <1>1, <1>3, <1>4, <1>5, <2>2, <3>1
    <3> QED BY <1>4, <2>2, <3>1, <3>2
  <2> QED BY <2>1, <2>2
<1> QED BY <1>1, <1>6, <1>7

\* A cache without the entry of a key is a cache, which has no entry of it.
LEMMA WithoutKeeps ==
    ASSUME CacheInv, NEW key, NEW left, left = Without(key)
    PROVE  IsCache(left) /\ \A i \in DOMAIN left : left[i].key # key
<1> DEFINE at == { i \in DOMAIN cache : cache[i].key = key }
<1>1. CASE at = {}
  BY <1>1 DEF Without, CacheInv, IsCache
<1>2. CASE at # {}
  <2>1. PICK i \in DOMAIN cache : left = RemoveAt(cache, i) /\ cache[i].key = key
    BY <1>2 DEF Without
  <2>2. PICK n \in Nat : n = Len(cache) /\ DOMAIN cache = 1..n /\ i \in 1..n /\ n <= Capacity
    BY <2>1 DEF CacheInv, IsCache
  <2>3. /\ left \in Seq(Entries) /\ Len(left) = n - 1 /\ DOMAIN left = 1..(n - 1)
        /\ \A j \in 1..(n - 1) : left[j] = IF j < i THEN cache[j] ELSE cache[j + 1]
    BY <2>1, <2>2, RemoveAtIs DEF CacheInv, IsCache
  <2>4. \A j, k \in 1..n : cache[j].key = cache[k].key => j = k
    BY <2>2 DEF CacheInv, IsCache
  <2>5. ASSUME NEW j \in 1..(n - 1), NEW k \in 1..(n - 1), left[j].key = left[k].key
        PROVE  j = k
    <3>1. j \in 1..n /\ j + 1 \in 1..n /\ k \in 1..n /\ k + 1 \in 1..n
      BY <2>2
    <3>2. left[j] = IF j < i THEN cache[j] ELSE cache[j + 1]
      BY <2>3
    <3>3. left[k] = IF k < i THEN cache[k] ELSE cache[k + 1]
      BY <2>3
    <3> QED BY <2>2, <2>4, <2>5, <3>1, <3>2, <3>3
  <2>6. ASSUME NEW j \in 1..(n - 1) PROVE left[j].key # key
    <3>1. j \in 1..n /\ j + 1 \in 1..n
      BY <2>2
    <3>2. left[j] = IF j < i THEN cache[j] ELSE cache[j + 1]
      BY <2>3
    <3> QED BY <2>1, <2>2, <2>4, <3>1, <3>2
  <2>7. Len(left) <= Capacity
    BY <2>2, <2>3, CapacityAssumption
  <2> QED BY <2>3, <2>5, <2>6, <2>7 DEF IsCache
<1> QED BY <1>1, <1>2

\* What put leaves in the cache was there, or is what was put; the oldest entry
\* makes room for it, and an older entry of its key is gone.
LEMMA PutKeeps ==
    ASSUME CacheInv, NEW entry \in Entries
    PROVE  IsCache(Put(entry))
<1>1. PICK left : left = Without(entry.key)
  OBVIOUS
<1>2. IsCache(left) /\ \A i \in DOMAIN left : left[i].key # entry.key
  BY <1>1, WithoutKeeps
<1>3. PICK n \in Nat : n = Len(left) /\ DOMAIN left = 1..n /\ n <= Capacity
  BY <1>2 DEF IsCache
<1>4. PICK all : all = Append(left, entry)
  OBVIOUS
<1>5. /\ all \in Seq(Entries) /\ all # <<>> /\ Len(all) = n + 1 /\ DOMAIN all = 1..(n + 1)
      /\ all[n + 1] = entry /\ \A i \in 1..n : all[i] = left[i]
  BY <1>2, <1>3, <1>4, AppendProperties DEF IsCache
<1>6. ASSUME NEW i \in 1..(n + 1), NEW j \in 1..(n + 1), all[i].key = all[j].key
      PROVE  i = j
  <2>1. \A k \in 1..n : left[k].key # entry.key
    BY <1>2, <1>3
  <2>2. \A k, m \in 1..n : left[k].key = left[m].key => k = m
    BY <1>2, <1>3 DEF IsCache
  <2>3. i \in 1..n \/ i = n + 1
    OBVIOUS
  <2>4. j \in 1..n \/ j = n + 1
    OBVIOUS
  <2> QED BY <1>5, <1>6, <2>1, <2>2, <2>3, <2>4
<1>7. CASE Len(all) <= Capacity
  <2>1. Put(entry) = all
    BY <1>1, <1>4, <1>7 DEF Put
  <2> QED BY <1>5, <1>6, <1>7, <2>1 DEF IsCache
<1>8. CASE ~ (Len(all) <= Capacity)
  <2>1. Put(entry) = Tail(all)
    BY <1>1, <1>4, <1>8 DEF Put
  <2>2. PICK rest : rest = Tail(all)
    OBVIOUS
  <2>3. /\ rest \in Seq(Entries) /\ Len(rest) = n /\ DOMAIN rest = 1..n
        /\ \A i \in 1..n : rest[i] = all[i + 1]
    BY <1>5, <2>2
  <2>4. ASSUME NEW i \in 1..n, NEW j \in 1..n, rest[i].key = rest[j].key
        PROVE  i = j
    <3>1. i + 1 \in 1..(n + 1) /\ j + 1 \in 1..(n + 1)
      OBVIOUS
    <3>2. rest[i] = all[i + 1] /\ rest[j] = all[j + 1]
      BY <2>3
    <3>3. i + 1 = j + 1
      BY <1>6, <2>4, <3>1, <3>2
    <3> QED BY <3>3
  <2> QED BY <1>3, <2>1, <2>2, <2>3, <2>4 DEF IsCache
<1> QED BY <1>7, <1>8

\* What is found in the cache is an entry.
LEMMA HitIsEntry ==
    ASSUME CacheInv, NEW key, NEW e \in Hits(key)
    PROVE  e \in Entries
BY DEF CacheInv, IsCache, Hits, Range

\* A block under its key is an entry, and an entry is a block under its key.
LEMMA BlockIsEntry ==
    ASSUME NEW s \in Streams, NEW k \in DOMAIN Items[s]
    PROVE  [key |-> CacheKey(s, Items[s][k].idx), data |-> Items[s][k].data] \in Entries
BY DEF Entries

\* And an entry is a block of its stream.
LEMMA EntryIsBlock ==
    ASSUME NEW e \in Entries
    PROVE  \E item \in Range(Items[e.key[1]]) : e.key[2] = item.idx /\ e.data = item.data
<1>0. PICK s \in Streams : \E k \in DOMAIN Items[s] :
         e = [key |-> CacheKey(s, Items[s][k].idx), data |-> Items[s][k].data]
  BY DEF Entries
<1>1. PICK k \in DOMAIN Items[s] :
         e = [key |-> CacheKey(s, Items[s][k].idx), data |-> Items[s][k].data]
  BY <1>0
<1>2. e.key[1] = s /\ e.key[2] = Items[s][k].idx /\ e.data = Items[s][k].data
  BY <1>1 DEF CacheKey
<1>3. Items[s][k] \in Range(Items[s])
  BY DEF Range
<1> QED BY <1>2, <1>3

-----------------------------------------------------------------------------
(* What is read.                                                            *)

\* A set of numbers has a least one.
LEMMA LeastNumber ==
    ASSUME NEW S, S \subseteq Nat, S # {}
    PROVE  \E x \in S : \A y \in S : x <= y
<1>1. PICK x \in S : \A y \in S : ~ (<<y, x>> \in OpToRel(<, Nat))
  BY WFMin, NatLessThanWellFounded
<1>2. ASSUME NEW y \in S PROVE x <= y
  <2>1. x \in Nat /\ y \in Nat /\ ~ (<<y, x>> \in OpToRel(<, Nat))
    BY <1>1
  <2> QED BY <2>1 DEF OpToRel
<1> QED BY <1>2

\* Joining sequences, one after the other.
IsJoin(f, seqs, n) ==
    f = [i \in 1..n |-> IF i = 1 THEN seqs[i] ELSE f[i - 1] \o seqs[i]]

\* Every list of sequences has a join.
LEMMA JoinExists ==
    ASSUME NEW seqs, NEW n \in Nat
    PROVE  \E f : IsJoin(f, seqs, n)
<1> DEFINE none == { k \in Nat : ~ \E f : IsJoin(f, seqs, k) }
<1>1. CASE none = {}
  BY <1>1
<1>2. CASE none # {}
  <2>1. PICK k \in none : \A j \in none : k <= j
    <3>1. none \subseteq Nat
      OBVIOUS
    <3> HIDE DEF none
    <3> QED BY <1>2, <3>1, LeastNumber
  <2>2. k # 0
    <3> DEFINE f == [i \in 1..0 |-> seqs[i]]
    <3>1. IsJoin(f, seqs, 0)
      BY DEF IsJoin
    <3> HIDE DEF f
    <3> QED BY <2>1, <3>1
  <2>3. k - 1 \in Nat /\ k - 1 \notin none
    BY <2>1, <2>2
  <2>4. PICK f : IsJoin(f, seqs, k - 1)
    BY <2>3
  <2> DEFINE new == IF k = 1 THEN seqs[k] ELSE f[k - 1] \o seqs[k]
             g == [i \in 1..k |-> IF i = k THEN new ELSE f[i]]
  <2>5. ASSUME NEW i \in 1..k PROVE g[i] = IF i = 1 THEN seqs[i] ELSE g[i - 1] \o seqs[i]
    <3>1. CASE i = k
      <4>1. i # 1 => i - 1 \in 1..k /\ i - 1 # k
        BY <3>1
      <4>2. i # 1 => g[i - 1] = f[i - 1]
        BY <4>1
      <4> QED BY <3>1, <4>2
    <3>2. CASE i # k
      <4>1. i \in 1..(k - 1)
        BY <3>2
      <4>2. f[i] = IF i = 1 THEN seqs[i] ELSE f[i - 1] \o seqs[i]
        BY <2>4, <4>1 DEF IsJoin
      <4>3. i # 1 => i - 1 \in 1..k /\ i - 1 # k
        BY <4>1
      <4>4. i # 1 => g[i - 1] = f[i - 1]
        BY <4>3
      <4> HIDE DEF new
      <4>5. g[i] = f[i]
        BY <3>2
      <4> QED BY <4>2, <4>4, <4>5
    <3> QED BY <3>1, <3>2
  <2>6. IsJoin(g, seqs, k)
    <3>1. g = [i \in 1..k |-> g[i]]
      OBVIOUS
    <3> HIDE DEF g
    <3> QED BY <2>5, <3>1 DEF IsJoin
  <2> QED BY <2>1, <2>6
<1> QED BY <1>1, <1>2

\* Which is what FlattenSeq returns: its value is the join of some length.
LEMMA FlattenIs ==
    ASSUME NEW seqs, Len(seqs) \in Nat \ {0}
    PROVE  \E f : IsJoin(f, seqs, Len(seqs)) /\ FlattenSeq(seqs) = f[Len(seqs)]
<1> DEFINE f == CHOOSE g : IsJoin(g, seqs, Len(seqs))
<1>1. IsJoin(f, seqs, Len(seqs))
  BY JoinExists
<1>2. FlattenSeq(seqs) = f[Len(seqs)]
  BY Zenon DEF FlattenSeq, IsJoin
<1> QED BY <1>1, <1>2

-----------------------------------------------------------------------------
(* What is copied out of the blocks, joined, is what was asked for.          *)

\* The index of a stream, in its parts.
LEMMA IndexFacts ==
    ASSUME NEW s \in Streams
    PROVE  /\ StreamBytes[s] \in Seq(Nat) /\ Len(StreamBytes[s]) = size(Archive, s)
           /\ size(Archive, s) \in Nat
           /\ Len(Items[s]) \in Nat /\ DOMAIN Items[s] = 1..Len(Items[s])
           /\ BlockEnd(s, 0) = 0 /\ BlockEnd(s, Len(Items[s])) = size(Archive, s)
           /\ \A k \in 1..Len(Items[s]) :
                 /\ Items[s][k].idx \in Nat /\ Items[s][k].block.logical_len \in Nat
                 /\ Items[s][k].start \in Nat /\ Items[s][k].start = BlockEnd(s, k - 1)
                 /\ BlockEnd(s, k) = Items[s][k].start + Items[s][k].block.logical_len
                 /\ BlockEnd(s, k) <= size(Archive, s)
                 /\ Items[s][k].data = SubSeq(StreamBytes[s], Items[s][k].start + 1, BlockEnd(s, k))
                 /\ \A j \in 1..Len(Items[s]) : Items[s][j].idx = Items[s][k].idx => j = k
<1> DEFINE items == Items[s]
           bytes == StreamBytes[s]
           total == size(Archive, s)
<1>1. /\ bytes \in Seq(Nat) /\ Len(bytes) = total
      /\ items \in Seq(Range(items)) /\ BlockEnd(s, Len(items)) = total
      /\ \A k \in DOMAIN items :
            /\ items[k].idx \in Nat /\ items[k].block.logical_len \in Nat
            /\ items[k].start \in Nat /\ items[k].start = BlockEnd(s, k - 1)
            /\ BlockEnd(s, k) <= total
            /\ items[k].data = SubSeq(bytes, items[k].start + 1, BlockEnd(s, k))
            /\ \A j \in DOMAIN items : items[j].idx = items[k].idx => j = k
  BY IndexAssumption
<1>2. BlockEnd(s, 0) = 0
  BY DEF BlockEnd
<1>3. ASSUME NEW k \in Nat \ {0}
      PROVE  BlockEnd(s, k) = items[k].start + items[k].block.logical_len
  BY <1>3 DEF BlockEnd
<1> HIDE DEF items, bytes, total
<1>4. Len(items) \in Nat /\ DOMAIN items = 1..Len(items) /\ total \in Nat
  BY <1>1
<1>5. ASSUME NEW k \in 1..Len(items)
      PROVE  /\ items[k].idx \in Nat /\ items[k].block.logical_len \in Nat
             /\ items[k].start \in Nat /\ items[k].start = BlockEnd(s, k - 1)
             /\ BlockEnd(s, k) = items[k].start + items[k].block.logical_len
             /\ BlockEnd(s, k) <= total
             /\ items[k].data = SubSeq(bytes, items[k].start + 1, BlockEnd(s, k))
             /\ \A j \in 1..Len(items) : items[j].idx = items[k].idx => j = k
  <2>1. k \in DOMAIN items /\ k \in Nat \ {0}
    BY <1>4
  <2>2. BlockEnd(s, k) = items[k].start + items[k].block.logical_len
    BY <1>3, <2>1
  <2> QED BY <1>1, <1>4, <2>1, <2>2
<1> QED BY <1>1, <1>2, <1>4, <1>5 DEF items, bytes, total

\* As far as the first k blocks of a stream go into n bytes at an offset.
Reach(s, offset, n, k) == Lower(offset + n, Higher(offset, BlockEnd(s, k)))

\* A read's share of a block is the part of the stream that both are over.
LEMMA ShareIs ==
    ASSUME NEW s \in Streams, NEW offset \in Nat, NEW n \in Nat, Within(s, offset, n),
           NEW k \in 1..Len(Items[s])
    PROVE  /\ Share(s, offset, n, k)
                = SubSeq(StreamBytes[s], Reach(s, offset, n, k - 1) + 1, Reach(s, offset, n, k))
           /\ offset <= Reach(s, offset, n, k - 1)
           /\ Reach(s, offset, n, k - 1) \in Nat /\ Reach(s, offset, n, k) \in Nat
           /\ Reach(s, offset, n, k - 1) <= Reach(s, offset, n, k)
           /\ Reach(s, offset, n, k) <= offset + n
<1>1. PICK item : item = Items[s][k]
  OBVIOUS
<1>2. PICK bytes \in Seq(Nat) : bytes = StreamBytes[s] /\ Len(bytes) = size(Archive, s)
  BY IndexFacts
<1>3. PICK start \in Nat, len \in Nat : start = item.start /\ len = item.block.logical_len
  BY <1>1, IndexFacts
<1>4. PICK end \in Nat : end = start + len
  OBVIOUS
<1>5. /\ start = BlockEnd(s, k - 1) /\ end = BlockEnd(s, k) /\ end <= Len(bytes)
      /\ item.data = SubSeq(bytes, start + 1, end)
  <2>1. /\ item.start = BlockEnd(s, k - 1) /\ BlockEnd(s, k) <= size(Archive, s)
        /\ BlockEnd(s, k) = item.start + item.block.logical_len
        /\ item.data = SubSeq(StreamBytes[s], item.start + 1, BlockEnd(s, k))
    BY <1>1, IndexFacts
  <2> QED BY <1>2, <1>3, <1>4, <2>1
<1>6. PICK before, after : /\ before = Reach(s, offset, n, k - 1)
                           /\ after = Reach(s, offset, n, k)
  OBVIOUS
<1>7. /\ before = Lower(offset + n, Higher(offset, start))
      /\ after = Lower(offset + n, Higher(offset, end)) /\ start <= end
  BY <1>4, <1>5, <1>6 DEF Reach
<1>8. /\ before \in Nat /\ after \in Nat /\ before <= after
      /\ offset <= before /\ after <= offset + n
      /\ start < offset + n /\ offset < end =>
            /\ before = Higher(offset, start) /\ after = Lower(offset + n, end)
            /\ start <= before /\ after <= end
      /\ ~ (start < offset + n /\ offset < end) => before = after
  BY <1>7 DEF Lower, Higher
<1>9. k \in WorkItems(s, offset, n) <=> start < offset + n /\ offset < end
  <2>1. k \in DOMAIN Items[s]
    BY IndexFacts
  <2> QED BY <1>1, <1>3, <1>4, <2>1 DEF WorkItems, Overlaps
<1>10. Share(s, offset, n, k) = SubSeq(bytes, before + 1, after)
  <2>1. CASE k \in WorkItems(s, offset, n)
    <3>1. Share(s, offset, n, k) = Copied([offset |-> offset, n |-> n], item, item.data)
      BY <1>1, <2>1 DEF Share
    <3>2. Copied([offset |-> offset, n |-> n], item, item.data)
             = Piece(item.data, before - start, after - before)
      BY <1>3, <1>4, <1>8, <1>9, <2>1 DEF Copied
    <3>3. Piece(item.data, before - start, after - before) = SubSeq(bytes, before + 1, after)
      <4>1. start <= before /\ before <= after /\ after <= end /\ end <= Len(bytes)
        BY <1>5, <1>8, <1>9, <2>1
      <4>2. before \in Nat /\ after \in Nat
        BY <1>8
      <4> DEFINE part == SubSeq(bytes, start + 1, end)
                 skip == before - start
                 count == after - before
                 piece == Piece(part, skip, count)
                 goal == SubSeq(bytes, before + 1, after)
      <4>3. part \in Seq(Nat) /\ Len(part) = end - start /\ DOMAIN part = 1..(end - start)
            /\ \A i \in 1..(end - start) : part[i] = bytes[start + i]
        <5>1. \A i \in (start + 1)..end : bytes[i] \in Nat
          BY <4>1
        <5> QED BY <1>4, <5>1
      <4>4. goal \in Seq(Nat) /\ Len(goal) = count /\ DOMAIN goal = 1..count
            /\ \A i \in 1..count : goal[i] = bytes[before + i]
        <5>1. \A i \in (before + 1)..after : bytes[i] \in Nat
          BY <4>1, <4>2
        <5> QED BY <4>1, <4>2, <5>1
      <4>5. ASSUME NEW i \in 1..count PROVE piece[i] = goal[i]
        <5> HIDE DEF part, goal
        <5>1. skip + i \in 1..(end - start) /\ start + (skip + i) = before + i
          BY <4>1, <4>2
        <5>2. piece[i] = part[skip + i]
          BY <4>3, <5>1 DEF Piece
        <5>3. part[skip + i] = bytes[before + i]
          BY <4>3, <5>1
        <5> QED BY <4>4, <5>2, <5>3
      <4>6. piece = [i \in 1..count |-> piece[i]]
        BY DEF Piece
      <4>7. goal = [i \in 1..count |-> goal[i]]
        <5> HIDE DEF goal
        <5> QED BY <4>4
      <4>8. piece = goal
        <5> HIDE DEF piece, goal
        <5> QED BY <4>5, <4>6, <4>7
      <4> QED BY <1>5, <4>8
    <3> QED BY <1>5, <3>1, <3>2, <3>3
  <2>2. CASE k \notin WorkItems(s, offset, n)
    <3>1. SubSeq(bytes, before + 1, after) = <<>>
      BY <1>8, <1>9, <2>2, SubSeqEmpty
    <3> QED BY <2>2, <3>1 DEF Share
  <2> QED BY <2>1, <2>2
<1> QED BY <1>2, <1>6, <1>8, <1>10

\* Joined over the blocks, the shares are what was asked for.
LEMMA JoinOfShares ==
    ASSUME NEW s \in Streams, NEW offset \in Nat, NEW n \in Nat, Within(s, offset, n),
           NEW seqs, seqs = [k \in 1..Len(Items[s]) |-> Share(s, offset, n, k)],
           NEW f, IsJoin(f, seqs, Len(Items[s])),
           NEW k \in 1..Len(Items[s])
    PROVE  f[k] = SubSeq(StreamBytes[s], offset + 1, Reach(s, offset, n, k))
<1> DEFINE Is(j) == f[j] = SubSeq(StreamBytes[s], offset + 1, Reach(s, offset, n, j))
           wrong == { j \in 1..Len(Items[s]) : ~ Is(j) }
<1>1. PICK total \in Nat, bytes \in Seq(Nat) : total = Len(Items[s]) /\ bytes = StreamBytes[s]
  BY IndexFacts
<1>4. PICK all \in Nat : all = Len(bytes) /\ (n = 0 \/ offset + n <= all)
  BY <1>1, IndexFacts DEF Within
<1>2. CASE wrong = {}
  BY <1>2
<1>3. CASE wrong # {}
  <2>1. PICK j \in wrong : \A i \in wrong : j <= i
    <3>1. wrong \subseteq Nat
      OBVIOUS
    <3> HIDE DEF wrong
    <3> QED BY <1>3, <3>1, LeastNumber
  <2>2. j \in 1..total /\ ~ Is(j)
    BY <1>1, <2>1
  <2>3. f[j] = IF j = 1 THEN seqs[j] ELSE f[j - 1] \o seqs[j]
    BY <1>1, <2>2 DEF IsJoin
  <2>4. seqs[j] = Share(s, offset, n, j)
    BY <1>1, <2>2
  <2>5. PICK before \in Nat, after \in Nat :
           /\ before = Reach(s, offset, n, j - 1) /\ after = Reach(s, offset, n, j)
           /\ Share(s, offset, n, j) = SubSeq(bytes, before + 1, after)
           /\ offset <= before /\ before <= after /\ after <= offset + n
    BY <1>1, <2>2, ShareIs
  <2>8. offset <= before /\ before <= after /\ after <= offset + n
    BY <2>5
  <2>6. CASE j = 1
    <3>1. before = offset
      <4>1. BlockEnd(s, 0) = 0 /\ j - 1 = 0
        BY <2>6, IndexFacts
      <4> QED BY <2>5, <4>1 DEF Reach, Lower, Higher
    <3>2. f[j] = SubSeq(bytes, offset + 1, after)
      BY <2>3, <2>4, <2>5, <2>6, <3>1
    <3> QED BY <1>1, <2>2, <2>5, <3>2
  <2>7. CASE j # 1
    <3>1. Is(j - 1)
      <4>1. j - 1 \in 1..total
        BY <2>2, <2>7
      <4>2. j - 1 \notin wrong
        <5> HIDE DEF wrong
        <5> QED BY <2>1, <2>2, <4>1
      <4> QED BY <1>1, <4>1, <4>2
    <3>2. f[j] = SubSeq(bytes, offset + 1, before) \o SubSeq(bytes, before + 1, after)
      <4> HIDE DEF wrong
      <4> QED BY <1>1, <2>3, <2>4, <2>5, <2>7, <3>1
    <3>3. CASE before = after
      <4>1. SubSeq(bytes, before + 1, after) = <<>>
        BY <3>3, SubSeqEmpty
      <4>2. CASE offset = before
        <5>1. SubSeq(bytes, offset + 1, before) = <<>>
          BY <4>2, SubSeqEmpty
        <5>2. f[j] = <<>>
          <6>1. <<>> \o <<>> = <<>>
            OBVIOUS
          <6> QED BY <3>2, <4>1, <5>1, <6>1
        <5> QED BY <1>1, <2>2, <2>5, <3>3, <4>2, <5>1, <5>2
      <4>3. CASE offset # before
        <5>1. SubSeq(bytes, offset + 1, before) \in Seq(Nat)
          <6>1. n # 0 /\ before <= Len(bytes)
            BY <1>4, <2>8, <4>3
          <6>2. \A i \in (offset + 1)..before : bytes[i] \in Nat
            <7> SUFFICES ASSUME NEW i \in (offset + 1)..before PROVE bytes[i] \in Nat
              OBVIOUS
            <7>1. i \in 1..Len(bytes)
              BY <1>4, <6>1
            <7> QED BY <7>1
          <6> QED BY <6>2, SubSeqProperties
        <5>2. f[j] = SubSeq(bytes, offset + 1, before)
          <6>1. PICK most \in Seq(Nat) : most = SubSeq(bytes, offset + 1, before)
            BY <5>1
          <6>2. most \o <<>> = most
            OBVIOUS
          <6> QED BY <3>2, <4>1, <6>1, <6>2
        <5> QED BY <1>1, <2>2, <2>5, <3>3, <5>2
      <4> QED BY <4>2, <4>3
    <3>4. CASE before # after
      <4>1. n # 0 /\ after <= Len(bytes)
        BY <1>4, <2>8, <3>4
      <4>2. SubSeq(bytes, offset + 1, before) \o SubSeq(bytes, before + 1, after)
               = SubSeq(bytes, offset + 1, after)
        <5>1. offset + 1 \in 1..Len(bytes) + 1 /\ before \in (offset + 1) - 1..Len(bytes)
              /\ after \in before..Len(bytes)
          BY <1>4, <2>8, <4>1
        <5> QED BY <5>1, ConcatAdjacentSubSeq
      <4> QED BY <1>1, <2>2, <2>5, <3>2, <4>2
    <3> QED BY <3>3, <3>4
  <2> QED BY <2>6, <2>7
<1> QED BY <1>2, <1>3

\* The shares of all blocks, one after the other, are what the read asked for.
LEMMA SharesJoin ==
    ASSUME NEW s \in Streams, NEW offset \in Nat, NEW n \in Nat, Within(s, offset, n)
    PROVE  FlattenSeq([k \in DOMAIN Items[s] |-> Share(s, offset, n, k)])
             = SubSeq(StreamBytes[s], offset + 1, offset + n)
<1> DEFINE shares == [k \in DOMAIN Items[s] |-> Share(s, offset, n, k)]
           bytes == StreamBytes[s]
<1>1. PICK total \in Nat : total = Len(Items[s])
  BY IndexFacts
<1>2. PICK seqs : seqs = shares
  OBVIOUS
<1>3. /\ seqs = [k \in 1..total |-> Share(s, offset, n, k)]
      /\ DOMAIN seqs = 1..total /\ Len(seqs) = total
  BY <1>1, <1>2, IndexFacts
<1>4. CASE total = 0
  <2>1. size(Archive, s) = 0
    BY <1>1, <1>4, IndexFacts
  <2>2. n = 0
    BY <2>1 DEF Within
  <2>3. FlattenSeq(seqs) = seqs
    BY <1>3, <1>4 DEF FlattenSeq
  <2>4. seqs = <<>>
    BY <1>3, <1>4
  <2>5. SubSeq(bytes, offset + 1, offset + n) = <<>>
    BY <2>2, SubSeqEmpty
  <2> QED BY <1>2, <2>3, <2>4, <2>5
<1>5. CASE total # 0
  <2>1. PICK f : IsJoin(f, seqs, total) /\ FlattenSeq(seqs) = f[total]
    BY <1>3, <1>5, FlattenIs
  <2>2. f[total] = SubSeq(bytes, offset + 1, Reach(s, offset, n, total))
    BY <1>1, <1>3, <1>5, <2>1, JoinOfShares
  <2>3. SubSeq(bytes, offset + 1, Reach(s, offset, n, total))
           = SubSeq(bytes, offset + 1, offset + n)
    <3>1. BlockEnd(s, total) = size(Archive, s) /\ size(Archive, s) \in Nat
      BY <1>1, IndexFacts
    <3>2. PICK end \in Nat : end = size(Archive, s)
      BY <3>1
    <3> DEFINE reach == Reach(s, offset, n, total)
    <3>3. reach = Lower(offset + n, Higher(offset, end))
      BY <3>1, <3>2 DEF Reach
    <3> HIDE DEF reach
    <3>4. reach = offset + n
      BY <3>2, <3>3 DEF Within, Lower, Higher
    <3> QED BY <3>4 DEF reach
  <2> QED BY <1>2, <2>1, <2>2, <2>3
<1> QED BY <1>4, <1>5

-----------------------------------------------------------------------------
(* The steps of the reads and of the prefetcher.                             *)

\* A step that touches nothing of the archive.
LEMMA UnchangedKeeps ==
    ASSUME SharedInv, UNCHANGED sharedVars
    PROVE  SharedInv'
BY DEF SharedInv, PrefetchInv, AtRest, UnderWay, ReadsInv, CacheInv, sharedVars

\* A read that starts is within the stream, and has got nothing, or the bytes
\* of the blocks that have none in the file, or an error for every block.
LEMMA ClampedIs ==
    ASSUME NEW s \in Streams, NEW offset \in Nat, NEW len \in Nat
    PROVE  /\ Clamped(s, offset, len) \in Nat /\ Clamped(s, offset, len) <= len
           /\ Within(s, offset, Clamped(s, offset, len))
           /\ offset + len <= size(Archive, s) => Clamped(s, offset, len) = len
<1>1. PICK total \in Nat : total = size(Archive, s)
  BY IndexFacts
<1> QED BY <1>1 DEF Clamped, Within, Lower

\* What is read of a stream is bytes of it, as many as are read.
LEMMA ReadBytes ==
    ASSUME NEW s \in Streams, NEW offset \in Nat, NEW n \in Nat, Within(s, offset, n)
    PROVE  LET read == SubSeq(StreamBytes[s], offset + 1, offset + n)
           IN  read \in Seq(Nat) /\ Len(read) = n
<1>1. StreamBytes[s] \in Seq(Nat) /\ Len(StreamBytes[s]) = size(Archive, s)
  BY IndexFacts
<1>2. \A i \in (offset + 1)..(offset + n) : StreamBytes[s][i] \in Nat
  <2> SUFFICES ASSUME NEW i \in (offset + 1)..(offset + n)
               PROVE  StreamBytes[s][i] \in Nat
    OBVIOUS
  <2>1. i \in 1..Len(StreamBytes[s])
    BY <1>1, IndexFacts DEF Within
  <2> QED BY <1>1, <2>1
<1> QED BY <1>2, SubSeqProperties

\* A new read has got the blocks that have no bytes in the file, or an error for
\* every block.
LEMMA NewJobIsRead ==
    ASSUME NEW s \in Streams, NEW offset \in Nat, NEW n \in Nat, Within(s, offset, n),
           NEW job \in {NewJob(s, offset, n), PageFails(NewJob(s, offset, n))}
    PROVE  IsRead(job) /\ job.stream = s /\ job.offset = offset /\ job.n = n
<1> DEFINE items == WorkItems(s, offset, n)
           start == [stream |-> s, offset |-> offset, n |-> n, items |-> items, got |-> <<>>]
           at_once == { k \in items : ~ StoredAt(s, k) }
           some == [k \in at_once |-> Copied(start, Items[s][k], Items[s][k].data)]
           all == [k \in items |-> Failed]
<1>1. NewJob(s, offset, n) = [start EXCEPT !.got = some]
  BY Zenon DEF NewJob
<1>2. \A x : [start EXCEPT !.got = x]
                = [stream |-> s, offset |-> offset, n |-> n, items |-> items, got |-> x]
  OBVIOUS
<1>3. PageFails(NewJob(s, offset, n)) = [NewJob(s, offset, n) EXCEPT !.got = all]
  <2>1. NewJob(s, offset, n).items = items
    <3> HIDE DEF some, items
    <3> QED BY <1>1, <1>2
  <2> QED BY <2>1 DEF PageFails
<1>4. PICK got \in {some, all} :
         job = [stream |-> s, offset |-> offset, n |-> n, items |-> items, got |-> got]
  <2> HIDE DEF some, all, items
  <2> QED BY <1>1, <1>2, <1>3
<1>5. ASSUME NEW k \in at_once PROVE some[k] = Share(s, offset, n, k)
  BY <1>5 DEF Share, Copied
<1>6. /\ DOMAIN got \subseteq items
      /\ \A k \in DOMAIN got : got[k] \in {Failed, Share(s, offset, n, k)}
  BY <1>5, <1>4
<1> HIDE DEF items, some, all
<1>7. job.stream = s /\ job.offset = offset /\ job.n = n /\ job.items = items /\ job.got = got
  BY <1>4
<1> QED BY <1>6, <1>7 DEF IsRead, items

\* A read that has started: it is in the stream, and touches neither the
\* prefetcher nor the cache.
Started(r, s, offset, len) ==
    \E job : /\ jobs' = [x \in {r} \cup DOMAIN jobs |-> IF x # r THEN jobs[x] ELSE job]
             /\ IsRead(job) /\ IsReadOf(job, s, offset, len)
             /\ UNCHANGED <<cache, in_flight, tasks>>

LEMMA StartReadIs ==
    ASSUME NEW r, NEW s \in Streams, NEW offset \in Nat, NEW len \in Nat,
           StartRead(r, s, offset, len)
    PROVE  Started(r, s, offset, len)
<1>1. PICK n \in Nat : n = Clamped(s, offset, len) /\ Within(s, offset, n)
  BY ClampedIs
<1>2. PICK fails \in {FALSE, BackendFails} :
         LET new == NewJob(s, offset, n)
         IN  jobs' = [x \in {r} \cup DOMAIN jobs |->
                        IF x # r THEN jobs[x] ELSE IF fails THEN PageFails(new) ELSE new]
  BY <1>1 DEF StartRead
<1>3. PICK job \in {NewJob(s, offset, n), PageFails(NewJob(s, offset, n))} :
         jobs' = [x \in {r} \cup DOMAIN jobs |-> IF x # r THEN jobs[x] ELSE job]
  <2>1. CASE fails
    BY <1>2, <2>1
  <2>2. CASE ~ fails
    BY <1>2, <2>2
  <2> QED BY <2>1, <2>2
<1>4. IsRead(job) /\ job.stream = s /\ job.offset = offset /\ job.n = n
  BY <1>1, <1>3, NewJobIsRead
<1> QED BY <1>1, <1>3, <1>4 DEF StartRead, Started, IsReadOf

\* What was true of the reads is true of the new one too.
LEMMA StartReadKeeps ==
    ASSUME SharedInv, NEW r, NEW stream \in Streams, NEW offset \in Nat, NEW len \in Nat,
           StartRead(r, stream, offset, len)
    PROVE  SharedInv'
<1>1. PICK job : /\ jobs' = [x \in {r} \cup DOMAIN jobs |-> IF x # r THEN jobs[x] ELSE job]
                 /\ IsRead(job) /\ UNCHANGED <<cache, in_flight, tasks>>
  <2>1. Started(r, stream, offset, len)
    BY StartReadIs
  <2> QED BY <2>1 DEF Started
<1>2. ASSUME NEW x \in DOMAIN jobs' PROVE IsRead(jobs'[x])
  BY <1>1, <1>2 DEF SharedInv, ReadsInv
<1>3. ReadsInv'
  BY <1>2 DEF ReadsInv, IsRead
<1> QED BY <1>1, <1>3 DEF SharedInv, PrefetchInv, AtRest, UnderWay, CacheInv

\* What a hit has is the block that was looked up, by its stream and its number.
LEMMA HitIsBlock ==
    ASSUME CacheInv, NEW s \in Streams, NEW k \in DOMAIN Items[s],
           NEW e \in Hits(CacheKey(s, Items[s][k].idx))
    PROVE  e.data = Items[s][k].data
<1>1. e.key = CacheKey(s, Items[s][k].idx) /\ e \in Entries
  BY HitIsEntry DEF Hits
<1>2. PICK t \in Streams : \E j \in DOMAIN Items[t] :
         e = [key |-> CacheKey(t, Items[t][j].idx), data |-> Items[t][j].data]
  BY <1>1 DEF Entries
<1>3. PICK j \in DOMAIN Items[t] :
         e = [key |-> CacheKey(t, Items[t][j].idx), data |-> Items[t][j].data]
  BY <1>2
<1>4. t = s /\ Items[t][j].idx = Items[s][k].idx
  <2>1. e.key = <<t, Items[t][j].idx>> /\ e.key = <<s, Items[s][k].idx>>
    BY <1>1, <1>3 DEF CacheKey
  <2> QED BY <2>1
<1>5. j = k
  BY <1>4, IndexFacts
<1> QED BY <1>3, <1>4, <1>5

\* A block that is taken, from the cache or from the file, is the read's share
\* of it, or an error.
LEMMA FetchItemIs ==
    ASSUME SharedInv, NEW r, FetchItem(r)
    PROVE  /\ r \in DOMAIN jobs
           /\ \E job : /\ jobs' = [jobs EXCEPT ![r] = job]
                       /\ IsRead(job) /\ job.stream = jobs[r].stream
                       /\ job.offset = jobs[r].offset /\ job.n = jobs[r].n
<1>1. r \in DOMAIN jobs /\ IsRead(jobs[r])
  BY DEF FetchItem, SharedInv, ReadsInv
<1> DEFINE old == jobs[r]
           s == old.stream
           offset == old.offset
           n == old.n
<1>2. old = jobs[r] /\ s = old.stream /\ offset = old.offset /\ n = old.n
  OBVIOUS
<1>3. PICK k \in Ready(old) : \E bytes :
         /\ jobs' = [jobs EXCEPT ![r].got =
                       [x \in {k} \cup DOMAIN old.got |-> IF x = k THEN bytes ELSE old.got[x]]]
         /\ \/ bytes = Failed
            \/ bytes = Copied(old, Items[s][k], Items[s][k].data)
            \/ \E e \in Hits(CacheKey(s, Items[s][k].idx)) :
                  bytes = Copied(old, Items[s][k], e.data)
  <2> DEFINE Got(k, bytes) ==
                jobs' = [jobs EXCEPT ![r].got =
                    [x \in {k} \cup DOMAIN jobs[r].got |-> IF x = k THEN bytes ELSE jobs[r].got[x]]]
             Item(k) == Items[jobs[r].stream][k]
  <2>1. PICK k \in Ready(jobs[r]) :
           \/ \E e \in Hits(CacheKey(jobs[r].stream, Item(k).idx)) :
                 Got(k, Copied(jobs[r], Item(k), e.data))
           \/ Got(k, Copied(jobs[r], Item(k), Item(k).data))
           \/ Got(k, Failed)
    BY Zenon DEF FetchItem
  <2>2. \E bytes :
           /\ Got(k, bytes)
           /\ \/ bytes = Failed
              \/ bytes = Copied(jobs[r], Item(k), Item(k).data)
              \/ \E e \in Hits(CacheKey(jobs[r].stream, Item(k).idx)) :
                    bytes = Copied(jobs[r], Item(k), e.data)
    <3> HIDE DEF Got
    <3> QED BY <2>1
  <2> QED BY <2>1, <2>2
<1>4. PICK bytes :
         /\ jobs' = [jobs EXCEPT ![r].got =
                       [x \in {k} \cup DOMAIN old.got |-> IF x = k THEN bytes ELSE old.got[x]]]
         /\ \/ bytes = Failed
            \/ bytes = Copied(old, Items[s][k], Items[s][k].data)
            \/ \E e \in Hits(CacheKey(s, Items[s][k].idx)) :
                  bytes = Copied(old, Items[s][k], e.data)
  BY <1>3
<1> HIDE DEF old, s, offset, n
<1>5. k \in old.items /\ k \in WorkItems(s, offset, n) /\ k \in DOMAIN Items[s] /\ s \in Streams
  BY <1>1, <1>2, <1>3 DEF Ready, Todo, IsRead, WorkItems
<1>6. bytes \in {Failed, Share(s, offset, n, k)}
  <2>1. bytes = Failed \/ bytes = Copied(old, Items[s][k], Items[s][k].data)
    BY <1>4, <1>5, HitIsBlock DEF SharedInv
  <2>2. Copied(old, Items[s][k], Items[s][k].data) = Share(s, offset, n, k)
    BY <1>2, <1>5 DEF Copied, Share
  <2> QED BY <2>1, <2>2
<1> DEFINE got == [x \in {k} \cup DOMAIN old.got |-> IF x = k THEN bytes ELSE old.got[x]]
           job == [old EXCEPT !.got = got]
<1>7. jobs' = [jobs EXCEPT ![r] = job]
  BY <1>2, <1>4, Zenon
<1>8. /\ DOMAIN got \subseteq old.items
      /\ \A x \in DOMAIN got : got[x] \in {Failed, Share(s, offset, n, x)}
  BY <1>1, <1>2, <1>5, <1>6 DEF IsRead
<1>9. /\ job.stream = s /\ job.offset = offset /\ job.n = n /\ job.items = old.items
      /\ job.got = got
  <2> HIDE DEF got
  <2> QED BY <1>1, <1>2
<1> HIDE DEF job, got
<1>10. IsRead(job)
  BY <1>1, <1>2, <1>8, <1>9 DEF IsRead
<1> QED BY <1>1, <1>2, <1>7, <1>9, <1>10

\* A block that is found in the cache becomes its newest entry.
LEMMA FetchItemKeeps ==
    ASSUME SharedInv, NEW r, FetchItem(r)
    PROVE  SharedInv'
<1>1. r \in DOMAIN jobs /\ UNCHANGED <<in_flight, tasks>>
  BY DEF FetchItem
<1>2. ReadsInv'
  <2>1. PICK job : jobs' = [jobs EXCEPT ![r] = job] /\ IsRead(job)
    BY FetchItemIs
  <2>2. ASSUME NEW x \in DOMAIN jobs PROVE IsRead(jobs'[x])
    BY <2>1, <2>2 DEF SharedInv, ReadsInv
  <2> QED BY <2>1, <2>2 DEF ReadsInv, IsRead
<1>3. CacheInv'
  <2>1. cache' = cache \/ \E key : \E e \in Hits(key) : cache' = Put(e)
    BY DEF FetchItem
  <2> QED BY <2>1, HitIsEntry, PutKeeps DEF SharedInv, CacheInv
<1> QED BY <1>1, <1>2, <1>3 DEF SharedInv, PrefetchInv, AtRest, UnderWay

\* A read that ends without an error has what it asked for.
LEMMA ResultIs ==
    ASSUME NEW job, IsRead(job), Finished(job), Result(job) # Failed
    PROVE  Result(job) = SubSeq(StreamBytes[job.stream], job.offset + 1, job.offset + job.n)
<1>1. ~ HasFailed(job) /\ Todo(job) = {}
  BY DEF Result, Finished
<1>2. PICK s \in Streams, offset \in Nat, n \in Nat :
         /\ s = job.stream /\ offset = job.offset /\ n = job.n
         /\ Within(s, offset, n) /\ job.items = WorkItems(s, offset, n)
  BY DEF IsRead
<1>3. ASSUME NEW k \in DOMAIN Items[s]
      PROVE  (IF k \in job.items THEN job.got[k] ELSE <<>>) = Share(s, offset, n, k)
  <2>1. CASE k \in job.items
    <3>1. k \in DOMAIN job.got /\ job.got[k] # Failed
      BY <1>1, <2>1 DEF Todo, HasFailed
    <3>2. job.got[k] = Share(s, offset, n, k)
      BY <1>2, <3>1 DEF IsRead
    <3> QED BY <2>1, <3>2
  <2>2. CASE k \notin job.items
    BY <1>2, <2>2 DEF Share
  <2> QED BY <2>1, <2>2
<1> DEFINE parts == [k \in DOMAIN Items[s] |-> IF k \in job.items THEN job.got[k] ELSE <<>>]
           shares == [k \in DOMAIN Items[s] |-> Share(s, offset, n, k)]
<1>4. parts = shares
  BY <1>3
<1>5. Result(job) = FlattenSeq(parts)
  BY <1>1, <1>2 DEF Result
<1> HIDE DEF parts
<1> QED BY <1>2, <1>4, <1>5, SharesJoin

\* A prefetch starts with nothing in hand, and with blocks of its stream to do.
LEMMA WarmTaskIsTask ==
    ASSUME NEW stream \in Streams, NEW offset
    PROVE  IsTask(WarmTask(stream, offset))
BY DEF WarmTask, IsTask, WorkItems

\* A read that returns spawns a prefetch only when there is none.
LEMMA EndReadKeeps ==
    ASSUME SharedInv, NEW r, EndRead(r)
    PROVE  SharedInv'
<1>1. ReadsInv' /\ CacheInv'
  <2>1. \A x \in DOMAIN jobs' : x \in DOMAIN jobs /\ jobs'[x] = jobs[x]
    BY DEF EndRead
  <2>2. \A x \in DOMAIN jobs' : IsRead(jobs'[x])
    BY <2>1 DEF SharedInv, ReadsInv
  <2> QED BY <2>2 DEF EndRead, SharedInv, ReadsInv, IsRead, CacheInv
<1>2. CASE MayPrefetch(jobs[r])
  <2>1. AtRest
    BY <1>2 DEF SharedInv, PrefetchInv, AtRest, UnderWay, MayPrefetch
  <2>2. jobs[r].stream \in Streams
    BY DEF EndRead, SharedInv, ReadsInv, IsRead
  <2>3. PICK t : t = WarmTask(jobs[r].stream, jobs[r].offset + jobs[r].n)
    OBVIOUS
  <2>4. IsTask(t)
    BY <2>2, <2>3, WarmTaskIsTask
  <2>5. in_flight' = TRUE /\ tasks' = Append(<<>>, t)
    BY <1>2, <2>1, <2>3 DEF EndRead, AtRest
  <2>6. tasks' = <<t>>
    BY <2>5, Single
  <2>7. IsTask(t)'
    BY <2>4 DEF IsTask
  <2> QED BY <1>1, <2>5, <2>6, <2>4 DEF SharedInv, PrefetchInv, UnderWay
<1>3. CASE ~ MayPrefetch(jobs[r])
  BY <1>1, <1>3 DEF EndRead, SharedInv, PrefetchInv, AtRest, UnderWay
<1> QED BY <1>2, <1>3

\* A prefetch takes blocks of its stream, and puts them in the cache under
\* their keys; it clears the flag when it ends.
LEMMA WarmKeeps ==
    ASSUME SharedInv, Warm
    PROVE  SharedInv'
<1>1. PICK t \in DOMAIN tasks : WarmFetch(t) \/ WarmInsert(t) \/ WarmEnd(t)
  BY DEF Warm
<1>2. UnderWay
  BY <1>1 DEF SharedInv, PrefetchInv, AtRest
<1>3. PICK x : tasks = <<x>> /\ IsTask(x)
  BY <1>2 DEF UnderWay
<1>4. t = 1 /\ tasks[t] = x
  BY <1>1, <1>3, Single
<1>0. PICK s \in Streams : \E todo \in SUBSET DOMAIN Items[s] : \E k \in {0} \cup todo :
         x = [stream |-> s, in_hand |-> k, todo |-> todo]
  BY <1>3 DEF IsTask
<1>11. PICK todo \in SUBSET DOMAIN Items[s] : \E k \in {0} \cup todo :
         x = [stream |-> s, in_hand |-> k, todo |-> todo]
  BY <1>0
<1>5. PICK k \in {0} \cup todo : x = [stream |-> s, in_hand |-> k, todo |-> todo]
  BY <1>11
<1>6. ReadsInv'
  BY <1>1 DEF WarmFetch, WarmInsert, WarmEnd, SharedInv, ReadsInv
<1>7. ASSUME NEW u, tasks' = [<<x>> EXCEPT ![1] = u], IsTask(u), in_flight' = in_flight
      PROVE  PrefetchInv'
  <2>1. tasks' = <<u>>
    BY <1>7
  <2> QED BY <1>2, <1>7, <2>1 DEF PrefetchInv, UnderWay
<1>8. CASE WarmFetch(t)
  <2>1. in_flight' = in_flight /\ x.in_hand = 0
    BY <1>4, <1>8 DEF WarmFetch
  <2>2. PICK j \in todo :
           \/ tasks' = [<<x>> EXCEPT ![1] = [x EXCEPT !.todo = @ \ {j}]]
           \/ tasks' = [<<x>> EXCEPT ![1] = [x EXCEPT !.in_hand = j]]
    BY <1>3, <1>4, <1>5, <1>8 DEF WarmFetch
  <2>3. IsTask([x EXCEPT !.todo = @ \ {j}]) /\ IsTask([x EXCEPT !.in_hand = j])
    <3>1. [x EXCEPT !.todo = @ \ {j}] = [stream |-> s, in_hand |-> 0, todo |-> todo \ {j}]
      BY <1>5, <2>1
    <3>2. [x EXCEPT !.in_hand = j] = [stream |-> s, in_hand |-> j, todo |-> todo]
      BY <1>5
    <3> QED BY <3>1, <3>2 DEF IsTask
  <2>4. PrefetchInv'
    BY <1>7, <2>1, <2>2, <2>3
  <2>5. cache' = cache \/ \E key : \E e \in Hits(key) : cache' = Put(e)
    BY <1>8 DEF WarmFetch
  <2>6. CacheInv'
    BY <2>5, HitIsEntry, PutKeeps DEF SharedInv, CacheInv
  <2> QED BY <1>6, <2>4, <2>6 DEF SharedInv
<1>9. CASE WarmInsert(t)
  <2>1. in_flight' = in_flight /\ k # 0 /\ k \in DOMAIN Items[s]
    BY <1>4, <1>5, <1>9 DEF WarmInsert
  <2>2. tasks' = [<<x>> EXCEPT ![1] = [x EXCEPT !.in_hand = 0, !.todo = @ \ {k}]]
    BY <1>3, <1>4, <1>5, <1>9 DEF WarmInsert
  <2>3. [x EXCEPT !.in_hand = 0, !.todo = @ \ {k}]
           = [stream |-> s, in_hand |-> 0, todo |-> todo \ {k}]
    <3> DEFINE y == [stream |-> s, in_hand |-> 0, todo |-> todo]
    <3>1. x.todo = todo /\ [x EXCEPT !.in_hand = 0] = y
      BY <1>5
    <3>2. [y EXCEPT !.todo = todo \ {k}] = [stream |-> s, in_hand |-> 0, todo |-> todo \ {k}]
      OBVIOUS
    <3>3. [x EXCEPT !.in_hand = 0, !.todo = todo \ {k}] = [y EXCEPT !.todo = todo \ {k}]
      BY <3>1, Zenon
    <3> QED BY <3>1, <3>2, <3>3, Zenon
  <2>4. IsTask([x EXCEPT !.in_hand = 0, !.todo = @ \ {k}])
    BY <2>3 DEF IsTask
  <2>5. cache' = Put([key |-> CacheKey(s, Items[s][k].idx), data |-> Items[s][k].data])
    BY <1>4, <1>5, <1>9 DEF WarmInsert
  <2>6. CacheInv'
    BY <2>1, <2>5, BlockIsEntry, PutKeeps DEF SharedInv, CacheInv
  <2> QED BY <1>6, <1>7, <2>1, <2>2, <2>4, <2>6 DEF SharedInv
<1>10. CASE WarmEnd(t)
  <2>1. in_flight' = FALSE /\ tasks' = RemoveAt(<<x>>, 1) /\ cache' = cache
    BY <1>3, <1>4, <1>10 DEF WarmEnd
  <2> QED BY <1>6, <2>1, Single DEF SharedInv, PrefetchInv, AtRest, CacheInv
<1> QED BY <1>1, <1>8, <1>9, <1>10

-----------------------------------------------------------------------------
(* The steps of the NBD sessions.                                           *)

\* What the steps are made of.
LEMMA GotoIs ==
    ASSUME NbdInv, NEW c \in NbdClients, NEW pc \in SessionPcs, Goto(c, pc)
    PROVE  /\ session' \in [NbdClients -> Sessions]
           /\ session'[c].pc = pc /\ session'[c].request = Nothing
           /\ session'[c].no_zeroes = (session[c].no_zeroes /\ pc = "options")
           /\ \A d \in NbdClients : d # c => session'[d] = session[d]
BY DEF NbdInv, Goto, Sessions

\* What the helpers of a session do to it, and to its queues.
LEMMA EnterIs ==
    ASSUME NbdInv, NEW c \in NbdClients, NEW pc \in SessionPcs, NEW request \in RequestMsgs,
           session' = [session EXCEPT ![c].pc = pc, ![c].request = request]
    PROVE  /\ session' \in [NbdClients -> Sessions]
           /\ session'[c].pc = pc /\ session'[c].request = request
           /\ \A d \in NbdClients : d # c => session'[d] = session[d]
BY DEF NbdInv, Sessions

LEMMA SendIs ==
    ASSUME NbdInv, NEW c \in NbdClients, NEW msgs \in Seq(ToClient), Send(c, msgs)
    PROVE  /\ to_client' \in [NbdClients -> Seq(ToClient)]
           /\ to_client'[c] = to_client[c] \o msgs
           /\ \A d \in NbdClients : d # c => to_client'[d] = to_client[d]
<1>1. to_client[c] \in Seq(ToClient) /\ to_client[c] \o msgs \in Seq(ToClient)
  BY DEF NbdInv
<1> QED BY <1>1 DEF NbdInv, Send

LEMMA ConsumeIs ==
    ASSUME NbdInv, NEW c \in NbdClients, Arrived(c)
    PROVE  /\ First(c) \in ToServer /\ Tail(to_server[c]) \in Seq(ToServer)
           /\ First(c).kind = "request" => First(c) \in RequestMsgs
           /\ Consume(c) => /\ to_server' \in [NbdClients -> Seq(ToServer)]
                            /\ to_server'[c] = Tail(to_server[c])
                            /\ \A d \in NbdClients : d # c => to_server'[d] = to_server[d]
<1>1. First(c) \in ToServer /\ Tail(to_server[c]) \in Seq(ToServer)
  BY DEF NbdInv, Arrived, First
<1>2. First(c).kind = "request" => First(c) \in RequestMsgs
  BY <1>1 DEF ToServer, Msg
<1>3. Consume(c) => /\ to_server' \in [NbdClients -> Seq(ToServer)]
                    /\ to_server'[c] = Tail(to_server[c])
                    /\ \A d \in NbdClients : d # c => to_server'[d] = to_server[d]
  BY <1>1 DEF NbdInv, Consume
<1> QED BY <1>1, <1>2, <1>3

\* What those of a client do.
LEMMA SendsIs ==
    ASSUME NbdInv, NEW c \in NbdClients, NEW msgs \in Seq(ToServer), Sends(c, msgs)
    PROVE  /\ to_server' \in [NbdClients -> Seq(ToServer)]
           /\ to_server'[c] = to_server[c] \o msgs
           /\ \A d \in NbdClients : d # c => to_server'[d] = to_server[d]
<1>1. to_server[c] \in Seq(ToServer) /\ to_server[c] \o msgs \in Seq(ToServer)
  BY DEF NbdInv
<1> QED BY <1>1 DEF NbdInv, Sends

LEMMA TakesIs ==
    ASSUME NbdInv, NEW c \in NbdClients, NEW n \in Nat, n <= Len(to_client[c]), Takes(c, n)
    PROVE  /\ to_client' \in [NbdClients -> Seq(ToClient)]
           /\ to_client'[c] = SubSeq(to_client[c], n + 1, Len(to_client[c]))
           /\ \A d \in NbdClients : d # c => to_client'[d] = to_client[d]
<1>1. SubSeq(to_client[c], n + 1, Len(to_client[c])) \in Seq(ToClient)
  <2>1. to_client[c] \in Seq(ToClient)
    BY DEF NbdInv
  <2> QED BY <2>1
<1> QED BY <1>1 DEF NbdInv, Takes

LEMMA ClearIs ==
    ASSUME NbdInv, NEW c \in NbdClients,
           to_server' = [to_server EXCEPT ![c] = <<>>], to_client' = [to_client EXCEPT ![c] = <<>>]
    PROVE  /\ to_server' \in [NbdClients -> Seq(ToServer)]
           /\ to_client' \in [NbdClients -> Seq(ToClient)]
           /\ to_server'[c] = <<>> /\ to_client'[c] = <<>>
           /\ \A d \in NbdClients : d # c => /\ to_server'[d] = to_server[d]
                                            /\ to_client'[d] = to_client[d]
BY DEF NbdInv

\* A client's next state, and that of a client that is gone.
LEMMA ClientIs ==
    ASSUME NbdInv, NEW c \in NbdClients, NEW k \in Clients, client' = [client EXCEPT ![c] = k]
    PROVE  /\ client' \in [NbdClients -> Clients] /\ client'[c] = k
           /\ \A d \in NbdClients : d # c => client'[d] = client[d]
BY DEF NbdInv

LEMMA GoneIs == Gone \in Clients /\ Gone.pc = "gone"
BY BoundsAssumption DEF Gone, Clients

\* The messages the server sends.
LEMMA MessagesAre ==
    /\ <<Msg("greeting")>> \in Seq(ToClient) /\ <<Msg("info"), Msg("ack")>> \in Seq(ToClient)
    /\ <<Msg("export")>> \in Seq(ToClient)
    /\ <<Msg("export"), Msg("124 zeroes")>> \in Seq(ToClient)
    /\ <<Msg("unsupported")>> \in Seq(ToClient)
<1>1. \A k \in {"greeting", "info", "ack", "export", "124 zeroes", "unsupported"} :
         Msg(k) \in ToClient
  BY DEF ToClient
<1>2. \A x, y \in ToClient : <<x>> \in Seq(ToClient) /\ <<x, y>> \in Seq(ToClient)
  OBVIOUS
<1> QED BY <1>1, <1>2, Zenon

\* A reply, and data filled up with zeros.
LEMMA ReplyIs ==
    ASSUME NEW request \in RequestMsgs, NEW error \in Errors
    PROVE  /\ Reply(request, error) \in ToClient /\ Reply(request, error).kind = "reply"
           /\ Reply(request, error).handle = request.handle
           /\ Reply(request, error).error = error
BY DEF Reply, RequestMsgs, ToClient

LEMMA PaddedIs ==
    ASSUME NEW bytes \in Seq(Nat), NEW n \in Nat, Len(bytes) <= n
    PROVE  Padded(bytes, n) \in Seq(Nat) /\ Len(Padded(bytes, n)) = n
<1>1. Zeros(n - Len(bytes)) \in Seq(Nat) /\ Len(Zeros(n - Len(bytes))) = n - Len(bytes)
  BY DEF Zeros, ZeroByte
<1> QED BY <1>1 DEF Padded

\* What a session replies to a read: as long as the request, whatever was read.
LEMMA PayloadIs ==
    ASSUME SharedInv, NbdInv, NbdReadsInv, NEW c \in NbdClients, session[c].pc = "reading",
           EndRead(c),
           NEW r, r = session[c].request, NEW result, result = Result(jobs[c])
    PROVE  /\ r \in RequestMsgs
           /\ Payload(r, result) \in ToClient /\ Payload(r, result).kind = "data"
           /\ Expected(r, IF result = Failed THEN "EIO" ELSE "none", Payload(r, result).bytes)
<1>1. r \in RequestMsgs /\ r.offset \in Nat /\ r.length \in Nat
  BY DEF NbdInv, RequestMsgs
<1>2. PICK n \in Nat : n = Clamped("main", r.offset, r.length) /\ n <= r.length
                       /\ Within("main", r.offset, n)
  BY <1>1, ClampedIs DEF Streams
<1>3. c \in DOMAIN jobs /\ IsRead(jobs[c]) /\ Finished(jobs[c]) /\ jobs[c].stream = "main"
      /\ jobs[c].offset = r.offset /\ jobs[c].n = n
  BY <1>2 DEF SharedInv, ReadsInv, NbdReadsInv, EndRead, IsReadOf
<1> DEFINE read == SubSeq(StreamBytes["main"], r.offset + 1, r.offset + n)
           bytes == IF result = Failed THEN <<>> ELSE result
<1>4. result # Failed => result = read
  BY <1>3, ResultIs
<1>5. read \in Seq(Nat) /\ Len(read) = n
  BY <1>1, <1>2, ReadBytes DEF Streams
<1>6. bytes \in Seq(Nat) /\ Len(bytes) <= r.length
  <2>1. CASE result = Failed
    <3>1. bytes = <<>>
      BY <2>1
    <3>2. <<>> \in Seq(Nat) /\ Len(<<>>) = 0
      OBVIOUS
    <3> HIDE DEF bytes
    <3> QED BY <1>1, <3>1, <3>2
  <2>2. CASE result # Failed
    <3>1. bytes = read
      BY <1>4, <2>2
    <3> HIDE DEF bytes, read
    <3> QED BY <1>2, <1>5, <3>1
  <2> QED BY <2>1, <2>2
<1>7. Payload(r, result) = [kind |-> "data", bytes |-> Padded(bytes, r.length)]
  BY DEF Payload
<1> HIDE DEF bytes
<1>8. Padded(bytes, r.length) \in Seq(Nat) /\ Len(Padded(bytes, r.length)) = r.length
  BY <1>1, <1>6, PaddedIs
<1>9. result # Failed => Padded(bytes, r.length) = ExportBytes(r.offset, r.length)
  BY <1>2, <1>4 DEF ExportBytes, bytes
<1>10. PICK padded \in Seq(Nat) : padded = Padded(bytes, r.length) /\ Len(padded) = r.length
  BY <1>8
<1>11. Payload(r, result) = [kind |-> "data", bytes |-> padded]
  BY <1>7, <1>10
<1>12. Payload(r, result) \in ToClient
  <2>1. Payload(r, result) \in [kind : {"data"}, bytes : Seq(Nat)]
    BY <1>11
  <2> QED BY <2>1 DEF ToClient
<1>13. Payload(r, result).kind = "data" /\ Payload(r, result).bytes = padded
  BY <1>11
<1>14. Expected(r, IF result = Failed THEN "EIO" ELSE "none", padded)
  <2>1. CASE result = Failed
    BY <1>10, <2>1 DEF Expected
  <2>2. CASE result # Failed
    BY <1>9, <1>10, <2>2 DEF Expected
  <2> QED BY <2>1, <2>2
<1> QED BY <1>1, <1>12, <1>13, <1>14

\* The steps keep the types of both sides and of what is between them.
LEMMA ServeTypes ==
    ASSUME SharedInv, NbdInv, NbdReadsInv, NEW c \in NbdClients, Serve(c)
    PROVE  NbdInv'
<1>1. ASSUME session' \in [NbdClients -> Sessions], UNCHANGED client,
             to_server' \in [NbdClients -> Seq(ToServer)],
             to_client' \in [NbdClients -> Seq(ToClient)],
             session'[c].pc \in {"reading", "draining"} => session'[c].request \in RequestMsgs,
             session'[c].pc \in {"start", "flags"} => Early(client[c], to_server'[c]),
             \A d \in NbdClients : d # c => to_server'[d] = to_server[d],
             \A d \in NbdClients : d # c => session'[d] = session[d]
      PROVE  NbdInv'
  <2>1. ASSUME NEW d \in NbdClients
        PROVE  /\ session'[d].pc \in {"reading", "draining"} => session'[d].request \in RequestMsgs
               /\ session'[d].pc \in {"start", "flags"} => Early(client[d], to_server'[d])
    <3>1. CASE d = c
      BY <1>1, <3>1
    <3>2. CASE d # c
      BY <1>1, <3>2 DEF NbdInv
    <3> QED BY <3>1, <3>2
  <2> QED BY <1>1, <2>1 DEF NbdInv, Early
<1>10. ASSUME NEW pc \in SessionPcs, Goto(c, pc), UNCHANGED client,
              pc \in {"closed", "bailed", "transmission", "options"},
              to_server' \in [NbdClients -> Seq(ToServer)],
              to_client' \in [NbdClients -> Seq(ToClient)],
              \A d \in NbdClients : d # c => to_server'[d] = to_server[d]
       PROVE  NbdInv'
  <2>1. /\ session' \in [NbdClients -> Sessions] /\ session'[c].pc = pc
        /\ \A d \in NbdClients : d # c => session'[d] = session[d]
    BY <1>10, GotoIs
  <2> QED BY <1>1, <1>10, <2>1
<1>11. /\ "closed" \in SessionPcs /\ "bailed" \in SessionPcs /\ "transmission" \in SessionPcs
       /\ "options" \in SessionPcs /\ "flags" \in SessionPcs
       /\ "reading" \in SessionPcs /\ "draining" \in SessionPcs
  BY DEF SessionPcs
<1>12. /\ session \in [NbdClients -> Sessions]
       /\ to_server \in [NbdClients -> Seq(ToServer)] /\ to_client \in [NbdClients -> Seq(ToClient)]
       /\ session[c].pc \in {"reading", "draining"} => session[c].request \in RequestMsgs
       /\ session[c].pc \in {"start", "flags"} => Early(client[c], to_server[c])
  BY DEF NbdInv
<1>13. ASSUME Arrived(c), Consume(c)
       PROVE  /\ to_server' \in [NbdClients -> Seq(ToServer)]
              /\ \A d \in NbdClients : d # c => to_server'[d] = to_server[d]
  BY <1>13, ConsumeIs
<1>14. ASSUME NEW msgs \in Seq(ToClient), Send(c, msgs)
       PROVE  to_client' \in [NbdClients -> Seq(ToClient)]
  BY <1>14, SendIs
<1>2. CASE Handshake(c)
  <2>1. /\ Goto(c, "flags") /\ Send(c, <<Msg("greeting")>>) /\ UNCHANGED <<client, to_server>>
        /\ session[c].pc = "start"
    BY <1>2 DEF Handshake
  <2>2. /\ session' \in [NbdClients -> Sessions] /\ session'[c].pc = "flags"
        /\ \A d \in NbdClients : d # c => session'[d] = session[d]
    BY <1>11, <2>1, GotoIs
  <2>3. to_client' \in [NbdClients -> Seq(ToClient)]
    BY <1>14, <2>1, MessagesAre
  <2> QED BY <1>1, <1>12, <2>1, <2>2, <2>3
<1>3. CASE ReceiveFlags(c)
  <2>1. /\ Arrived(c) /\ Consume(c) /\ UNCHANGED <<client, to_client>> /\ session[c].pc = "flags"
        /\ session' = [session EXCEPT ![c].pc = "options", ![c].no_zeroes = First(c).no_zeroes]
    BY <1>3 DEF ReceiveFlags
  <2>2. First(c) \in ToServer /\ First(c).kind = "flags"
    BY <2>1, ConsumeIs DEF NbdInv, Early, Arrived, First
  <2>3. First(c).no_zeroes \in BOOLEAN
    BY <2>2 DEF ToServer, RequestMsgs, Msg
  <2>4. /\ session' \in [NbdClients -> Sessions] /\ session'[c].pc = "options"
        /\ \A d \in NbdClients : d # c => session'[d] = session[d]
    BY <2>1, <2>3 DEF NbdInv, Sessions, SessionPcs
  <2> QED BY <1>1, <1>12, <1>13, <2>1, <2>4
<1>4. CASE NegotiateOption(c)
  <2>1. Arrived(c) /\ Consume(c) /\ UNCHANGED client
    BY <1>4 DEF NegotiateOption
  <2>2. session[c].pc = "options"
    BY <1>4 DEF NegotiateOption
  <2>3. \/ Goto(c, "closed") /\ UNCHANGED to_client
        \/ Goto(c, "transmission") /\ Send(c, Export(c))
        \/ \E pc \in {"transmission", "options"} :
              Goto(c, pc) /\ Send(c, <<Msg("info"), Msg("ack")>>)
        \/ UNCHANGED session /\ Send(c, <<Msg("unsupported")>>)
    BY <1>4 DEF NegotiateOption
  <2>4. Export(c) \in Seq(ToClient)
    BY MessagesAre DEF Export
  <2>5. to_client' \in [NbdClients -> Seq(ToClient)]
    BY <1>12, <1>14, <2>3, <2>4, MessagesAre
  <2>6. CASE UNCHANGED session
    BY <1>1, <1>12, <1>13, <2>1, <2>2, <2>5, <2>6
  <2>7. CASE \E pc \in {"closed", "transmission", "options"} : Goto(c, pc)
    BY <1>10, <1>11, <1>13, <2>1, <2>5, <2>7
  <2> QED BY <2>3, <2>6, <2>7
<1>5. CASE ReceiveRequest(c)
  <2>1. Arrived(c) /\ Consume(c) /\ UNCHANGED client /\ First(c).kind = "request"
    BY <1>5 DEF ReceiveRequest
  <2>2. session[c].pc = "transmission"
    BY <1>5 DEF ReceiveRequest
  <2>3. First(c) \in RequestMsgs
    BY <2>1, ConsumeIs
  <2>4. \/ Goto(c, "closed") /\ UNCHANGED to_client
        \/ \E pc \in {"reading", "draining"} :
              /\ session' = [session EXCEPT ![c].pc = pc, ![c].request = First(c)]
              /\ UNCHANGED to_client
        \/ UNCHANGED session /\ Send(c, <<Reply(First(c), "EPERM")>>)
    BY <1>5 DEF ReceiveRequest
  <2>5. CASE Goto(c, "closed") /\ UNCHANGED to_client
    BY <1>10, <1>11, <1>12, <1>13, <2>1, <2>5
  <2>6. CASE \E pc \in {"reading", "draining"} :
              /\ session' = [session EXCEPT ![c].pc = pc, ![c].request = First(c)]
              /\ UNCHANGED to_client
    <3>1. PICK pc \in {"reading", "draining"} :
             /\ session' = [session EXCEPT ![c].pc = pc, ![c].request = First(c)]
             /\ UNCHANGED to_client
      BY <2>6
    <3>2. /\ session' \in [NbdClients -> Sessions] /\ session'[c].pc = pc
          /\ session'[c].request = First(c)
          /\ \A d \in NbdClients : d # c => session'[d] = session[d]
      <4>1. pc \in SessionPcs
        BY <1>11
      <4>2. PICK request \in RequestMsgs : request = First(c)
        BY <2>3
      <4>3. session' = [session EXCEPT ![c].pc = pc, ![c].request = request]
        BY <3>1, <4>2
      <4> QED BY <4>1, <4>2, <4>3, EnterIs
    <3> QED BY <1>1, <1>12, <1>13, <2>1, <2>3, <3>1, <3>2
  <2>7. CASE UNCHANGED session /\ Send(c, <<Reply(First(c), "EPERM")>>)
    <3>1. <<Reply(First(c), "EPERM")>> \in Seq(ToClient)
      <4>1. Reply(First(c), "EPERM") \in ToClient
        BY <2>3, ReplyIs DEF Errors
      <4> QED BY <4>1
    <3> QED BY <1>1, <1>12, <1>13, <1>14, <2>1, <2>2, <2>7, <3>1
  <2> QED BY <2>4, <2>5, <2>6, <2>7
<1>6. CASE Drain(c)
  <2>1. Arrived(c) /\ Consume(c) /\ UNCHANGED client /\ session[c].pc = "draining"
        /\ Goto(c, "transmission") /\ Send(c, <<Reply(session[c].request, "EPERM")>>)
    BY <1>6 DEF Drain
  <2>2. <<Reply(session[c].request, "EPERM")>> \in Seq(ToClient)
    <3>1. Reply(session[c].request, "EPERM") \in ToClient
      BY <1>12, <2>1, ReplyIs DEF Errors
    <3> QED BY <3>1
  <2> QED BY <1>10, <1>11, <1>13, <1>14, <2>1, <2>2
<1>7. CASE ReplyRead(c)
  <2>1. PICK r, result : r = session[c].request /\ result = Result(jobs[c])
    OBVIOUS
  <2>2. /\ session[c].pc = "reading" /\ EndRead(c) /\ Goto(c, "transmission")
        /\ Send(c, <<Reply(r, IF result = Failed THEN "EIO" ELSE "none"), Payload(r, result)>>)
        /\ UNCHANGED <<client, to_server>>
    BY <1>7, <2>1 DEF ReplyRead
  <2>3. Payload(r, result) \in ToClient /\ r \in RequestMsgs
    BY <2>1, <2>2, PayloadIs
  <2>4. PICK reply \in ToClient : reply = Reply(r, IF result = Failed THEN "EIO" ELSE "none")
    BY <2>3, ReplyIs DEF Errors
  <2>5. <<reply, Payload(r, result)>> \in Seq(ToClient)
    BY <2>3
  <2>6. to_client' \in [NbdClients -> Seq(ToClient)]
    BY <1>14, <2>2, <2>4, <2>5
  <2> QED BY <1>10, <1>11, <1>12, <2>2, <2>6
<1>8. CASE Bail(c)
  <2>1. Arrived(c) /\ Consume(c) /\ Goto(c, "bailed") /\ UNCHANGED <<client, to_client>>
    BY <1>8 DEF Bail
  <2> QED BY <1>10, <1>11, <1>12, <1>13, <2>1
<1>9. CASE SocketFails(c)
  <2>1. /\ Goto(c, "closed") /\ UNCHANGED client
        /\ to_server' = [to_server EXCEPT ![c] = <<>>]
        /\ to_client' = [to_client EXCEPT ![c] = <<>>]
    BY <1>9 DEF SocketFails
  <2>2. /\ to_server' \in [NbdClients -> Seq(ToServer)]
        /\ to_client' \in [NbdClients -> Seq(ToClient)]
        /\ \A d \in NbdClients : d # c => to_server'[d] = to_server[d]
    BY <2>1, ClearIs
  <2> QED BY <1>10, <1>11, <2>1, <2>2
<1> QED BY <1>2, <1>3, <1>4, <1>5, <1>6, <1>7, <1>8, <1>9 DEF Serve

\* A client that sends lets the server take the flags first.
LEMMA EarlyKeeps ==
    ASSUME NEW k, NEW k2, NEW q \in Seq(ToServer), NEW msgs \in Seq(ToServer), NEW q2,
           Early(k, q), q2 = q \o msgs,
           q = <<>> => k.pc = "start" /\ msgs # <<>> /\ Head(msgs).kind = "flags"
    PROVE  Early(k2, q2)
<1>1. CASE q = <<>>
  <2>1. q2 = msgs
    BY <1>1
  <2> QED BY <1>1, <2>1 DEF Early
<1>2. CASE q # <<>>
  <2>1. Head(q).kind = "flags"
    BY <1>2 DEF Early
  <2>2. q2 # <<>> /\ Head(q2) = Head(q)
    BY <1>2
  <2> QED BY <2>1, <2>2 DEF Early
<1> QED BY <1>1, <1>2

\* And those of a client: what it sends and takes is a message, and flags come first.
LEMMA ClientTypes ==
    ASSUME NbdInv, NEW c \in NbdClients, Client(c)
    PROVE  NbdInv'
<1>1. ASSUME client' \in [NbdClients -> Clients], UNCHANGED session,
             to_server' \in [NbdClients -> Seq(ToServer)],
             to_client' \in [NbdClients -> Seq(ToClient)],
             session[c].pc \in {"start", "flags"} => Early(client'[c], to_server'[c]),
             \A d \in NbdClients : d # c => client'[d] = client[d] /\ to_server'[d] = to_server[d]
      PROVE  NbdInv'
  <2>1. ASSUME NEW d \in NbdClients
        PROVE  session[d].pc \in {"start", "flags"} => Early(client'[d], to_server'[d])
    <3>1. CASE d = c
      BY <1>1, <3>1
    <3>2. CASE d # c
      BY <1>1, <3>2 DEF NbdInv
    <3> QED BY <3>1, <3>2
  <2> QED BY <1>1, <2>1 DEF NbdInv, Early
<1>2. PICK k \in Clients, q \in Seq(ToServer), p \in Seq(ToClient) :
         k = client[c] /\ q = to_server[c] /\ p = to_client[c]
  BY DEF NbdInv
<1>0. session[c].pc \in {"start", "flags"} => Early(k, q)
  BY <1>2 DEF NbdInv
<1>3. ASSUME NEW n \in Clients, NEW msgs \in Seq(ToServer),
             client' = [client EXCEPT ![c] = n], Sends(c, msgs),
             k.pc # "start" \/ (msgs # <<>> /\ Head(msgs).kind = "flags"), k.pc # "gone",
             to_client' \in [NbdClients -> Seq(ToClient)], UNCHANGED session
      PROVE  NbdInv'
  <2>1. /\ client' \in [NbdClients -> Clients] /\ client'[c] = n
        /\ \A d \in NbdClients : d # c => client'[d] = client[d]
    BY <1>3, ClientIs
  <2>2. /\ to_server' \in [NbdClients -> Seq(ToServer)] /\ to_server'[c] = q \o msgs
        /\ \A d \in NbdClients : d # c => to_server'[d] = to_server[d]
    BY <1>2, <1>3, SendsIs
  <2>3. session[c].pc \in {"start", "flags"} => Early(n, q \o msgs)
    <3>1. Early(k, q) => (q = <<>> => k.pc \in {"start", "gone"})
      BY DEF Early
    <3>2. ASSUME Early(k, q) PROVE Early(n, q \o msgs)
      <4>1. q = <<>> => k.pc = "start" /\ msgs # <<>> /\ Head(msgs).kind = "flags"
        BY <1>3, <3>1, <3>2
      <4> QED BY <3>2, <4>1, EarlyKeeps
    <3> QED BY <1>0, <3>2
  <2> QED BY <1>3, <2>1, <2>2, <2>3, <1>1
<1>4. ASSUME NEW n \in Clients, NEW m \in Nat, m <= Len(p), client' = [client EXCEPT ![c] = n],
             Takes(c, m), UNCHANGED <<session, to_server>>, k.pc \notin {"start", "gone"}
      PROVE  NbdInv'
  <2>1. /\ client' \in [NbdClients -> Clients] /\ client'[c] = n
        /\ \A d \in NbdClients : d # c => client'[d] = client[d]
    BY <1>4, ClientIs
  <2>2. to_client' \in [NbdClients -> Seq(ToClient)]
    BY <1>2, <1>4, TakesIs
  <2>3. session[c].pc \in {"start", "flags"} => Early(n, q)
    BY <1>0, <1>4 DEF Early
  <2> QED BY <1>2, <1>4, <2>1, <2>2, <2>3, <1>1 DEF NbdInv
<1>5. CASE SendFlags(c)
  <2>1. PICK z \in BOOLEAN :
           /\ client' = [client EXCEPT ![c].pc = "options", ![c].no_zeroes = z]
           /\ Sends(c, <<[kind |-> "flags", no_zeroes |-> z]>>)
    BY <1>5 DEF SendFlags
  <2>2. /\ k.pc = "start" /\ UNCHANGED session
        /\ to_client' \in [NbdClients -> Seq(ToClient)]
    <3>1. p # <<>> /\ Takes(c, 1) /\ 1 <= Len(p)
      BY <1>2, <1>5 DEF SendFlags
    <3> QED BY <1>2, <1>5, <3>1, TakesIs DEF SendFlags
  <2> DEFINE msg == [kind |-> "flags", no_zeroes |-> z]
             n == [k EXCEPT !.pc = "options", !.no_zeroes = z]
  <2>3. msg \in ToServer /\ msg.kind = "flags"
    BY DEF ToServer
  <2>4. n \in Clients
    BY DEF Clients
  <2>5. client' = [client EXCEPT ![c] = n]
    BY <1>2, <2>1
  <2>6. Sends(c, <<msg>>)
    BY <2>1
  <2>7. <<msg>> \in Seq(ToServer) /\ <<msg>> # <<>> /\ Head(<<msg>>).kind = "flags"
    <3> HIDE DEF msg
    <3> QED BY <2>3
  <2> HIDE DEF msg, n
  <2> QED BY <1>3, <2>2, <2>4, <2>5, <2>6, <2>7
<1>6. CASE SendOption(c)
  <2>1. PICK o \in Options :
           /\ LET asking == [client[c] EXCEPT !.options = @ + 1, !.option = o]
              IN  client' = [client EXCEPT ![c] = IF o \in {"abort", "too large"} THEN Gone ELSE asking]
           /\ Sends(c, <<[kind |-> "option", option |-> o]>>)
    BY <1>6 DEF SendOption
  <2>2. /\ k.pc = "options" /\ k.options < MaxOptions /\ UNCHANGED session
        /\ to_client' \in [NbdClients -> Seq(ToClient)]
    BY <1>2, <1>6 DEF SendOption, NbdInv
  <2>3. <<[kind |-> "option", option |-> o]>> \in Seq(ToServer)
    <3>1. [kind |-> "option", option |-> o] \in ToServer
      BY DEF ToServer
    <3> QED BY <3>1
  <2> DEFINE n == IF o \in {"abort", "too large"} THEN Gone
                  ELSE [k EXCEPT !.options = @ + 1, !.option = o]
  <2>4. o \notin {"abort", "too large"} => [k EXCEPT !.options = @ + 1, !.option = o] \in Clients
    <3>1. k.options \in 0..MaxOptions
      BY DEF Clients
    <3>2. PICK options \in 0..MaxOptions : options = k.options + 1
      BY <2>2, <3>1, BoundsAssumption
    <3>3. o \notin {"abort", "too large"} => [k EXCEPT !.options = options, !.option = o] \in Clients
      BY DEF Clients, Options
    <3> QED BY <3>2, <3>3
  <2>5. n \in Clients
    BY <2>4, GoneIs
  <2>6. client' = [client EXCEPT ![c] = n]
    <3> DEFINE next(x) == IF o \in {"abort", "too large"} THEN Gone
                          ELSE [x EXCEPT !.options = @ + 1, !.option = o]
    <3>1. client' = [client EXCEPT ![c] = next(client[c])]
      BY <2>1
    <3>2. n = next(k)
      OBVIOUS
    <3> HIDE DEF next, n
    <3> QED BY <1>2, <3>1, <3>2
  <2> HIDE DEF n
  <2> QED BY <1>3, <2>1, <2>2, <2>3, <2>5, <2>6
<1>7. CASE ReceiveReplies(c)
  <2> DEFINE expected == Replies(k.option, k.no_zeroes)
             done == k.option \in {"export_name", "go"}
             pc == IF SubSeq(p, 1, Len(expected)) # expected THEN "confused"
                   ELSE IF done THEN "transmission" ELSE k.pc
             n == [k EXCEPT !.option = "none", !.pc = pc,
                            !.options = IF done THEN 0 ELSE k.options,
                            !.no_zeroes = k.no_zeroes /\ k.option \notin {"export_name", "go"}]
  <2>1. /\ k.pc = "options" /\ k.option # "none" /\ Len(p) >= Len(expected)
        /\ Takes(c, Len(expected)) /\ UNCHANGED <<session, to_server>>
    BY <1>2, <1>7 DEF ReceiveReplies
  <2>2. client' = [client EXCEPT ![c] = n]
    <3>1. client' = [client EXCEPT
                 ![c].option = "none",
                 ![c].pc = pc,
                 ![c].options = IF done THEN 0 ELSE k.options,
                 ![c].no_zeroes = k.no_zeroes /\ k.option \notin {"export_name", "go"}]
      BY <1>2, <1>7, Zenon DEF ReceiveReplies
    <3> HIDE DEF pc, done
    <3> QED BY <1>2, <3>1
  <2>3. pc \in {"confused", "transmission", "options"}
    BY <2>1
  <2>4. n \in Clients
    <3>1. PICK options \in 0..MaxOptions : options = IF done THEN 0 ELSE k.options
      BY BoundsAssumption DEF Clients
    <3>2. PICK no_zeroes \in BOOLEAN :
             no_zeroes = (k.no_zeroes /\ k.option \notin {"export_name", "go"})
      OBVIOUS
    <3>3. n = [k EXCEPT !.option = "none", !.pc = pc, !.options = options,
                        !.no_zeroes = no_zeroes]
      BY <3>1, <3>2, Zenon
    <3> HIDE DEF pc, n
    <3> QED BY <2>3, <3>3 DEF Clients
  <2>5. Len(expected) \in Nat
    <3>1. k.option \in {"export_name", "info", "go", "other"} /\ k.no_zeroes \in BOOLEAN
      BY <2>1 DEF Clients
    <3>2. expected \in Seq(ToClient)
      BY <3>1, MessagesAre DEF Replies
    <3> QED BY <3>2
  <2> HIDE DEF n, expected
  <2> QED BY <1>4, <2>1, <2>2, <2>4, <2>5
<1>8. CASE SendRequest(c)
  <2> DEFINE Request(r) == [kind |-> "request", handle |-> k.sent + 1,
                            type |-> r.type, offset |-> r.offset, length |-> r.length]
             n(r) == IF r.type = "disc" THEN Gone
                     ELSE [k EXCEPT !.sent = @ + 1, !.waiting = @ \cup {Request(r)}]
             msgs(r) == <<Request(r)>> \o (IF r.type = "write" THEN <<Msg("data")>> ELSE <<>>)
  <2>1. /\ k.pc = "transmission" /\ k.sent < MaxRequests /\ UNCHANGED session
        /\ to_client' \in [NbdClients -> Seq(ToClient)]
    BY <1>2, <1>8 DEF SendRequest, NbdInv
  <2>2. PICK r \in Requests :
           /\ LET asking == [client[c] EXCEPT !.sent = @ + 1, !.waiting = @ \cup {Request(r)}]
              IN  client' = [client EXCEPT ![c] = IF r.type = "disc" THEN Gone ELSE asking]
           /\ Sends(c, msgs(r))
    BY <1>2, <1>8 DEF SendRequest
  <2>3. Request(r) \in RequestMsgs
    BY <2>1, ExtentsAssumption, BoundsAssumption DEF Requests, RequestMsgs, Clients
  <2>4. n(r) \in Clients
    <3> HIDE DEF Request
    <3>1. [k EXCEPT !.sent = @ + 1, !.waiting = @ \cup {Request(r)}] \in Clients
      <4>1. k.sent \in 0..MaxRequests
        BY DEF Clients
      <4>2. PICK sent \in 0..MaxRequests : sent = k.sent + 1
        BY <2>1, <4>1, BoundsAssumption
      <4>3. [k EXCEPT !.sent = sent, !.waiting = @ \cup {Request(r)}] \in Clients
        BY <2>3 DEF Clients
      <4> QED BY <4>2, <4>3
    <3> QED BY <3>1, GoneIs
  <2>5. msgs(r) \in Seq(ToServer)
    <3> HIDE DEF Request
    <3>1. Request(r) \in ToServer /\ Msg("data") \in ToServer
      BY <2>3 DEF ToServer
    <3> QED BY <3>1
  <2>6. client' = [client EXCEPT ![c] = n(r)]
    <3> HIDE DEF Request
    <3> DEFINE next(x) == IF r.type = "disc" THEN Gone
                          ELSE [x EXCEPT !.sent = @ + 1, !.waiting = @ \cup {Request(r)}]
    <3>1. client' = [client EXCEPT ![c] = next(client[c])]
      BY <2>2
    <3>2. n(r) = next(k)
      OBVIOUS
    <3> HIDE DEF next, n
    <3> QED BY <1>2, <3>1, <3>2
  <2> HIDE DEF n, msgs
  <2> QED BY <1>3, <2>1, <2>2, <2>4, <2>5, <2>6
<1>9. CASE ReceiveReply(c)
  <2> DEFINE reply == Head(p)
  <2>1. /\ k.pc = "transmission" /\ p # <<>> /\ Takes(c, 1) /\ UNCHANGED <<session, to_server>>
    BY <1>2, <1>9 DEF ReceiveReply
  <2>2. reply \in ToClient /\ 1 <= Len(p)
    BY <2>1
  <2>3. \/ client' = [client EXCEPT ![c].pc = "confused"]
        \/ \E r \in k.waiting :
              /\ reply.kind = "reply"
              /\ \/ client' = [client EXCEPT ![c].pc = "data",
                                      ![c].current = [request |-> r, error |-> reply.error]]
                 \/ client' = [client EXCEPT ![c].waiting = @ \ {r}]
    BY <1>2, <1>9 DEF ReceiveReply
  <2> HIDE DEF reply
  <2>4. CASE client' = [client EXCEPT ![c].pc = "confused"]
    <3>1. [k EXCEPT !.pc = "confused"] \in Clients
      BY DEF Clients
    <3> QED BY <1>2, <1>4, <2>1, <2>2, <2>4, <3>1
  <2>5. CASE \E r \in k.waiting :
              /\ reply.kind = "reply"
              /\ \/ client' = [client EXCEPT ![c].pc = "data",
                                      ![c].current = [request |-> r, error |-> reply.error]]
                 \/ client' = [client EXCEPT ![c].waiting = @ \ {r}]
    <3>1. PICK r \in k.waiting :
              /\ reply.kind = "reply"
              /\ \/ client' = [client EXCEPT ![c].pc = "data",
                                      ![c].current = [request |-> r, error |-> reply.error]]
                 \/ client' = [client EXCEPT ![c].waiting = @ \ {r}]
      BY <2>5
    <3>2. reply.error \in Errors
      <4>1. reply \in [kind : {"reply"}, handle : Nat, error : Errors]
        <5>1. ASSUME NEW w \in {"greeting", "info", "ack", "export", "124 zeroes", "unsupported"}
              PROVE  reply # Msg(w)
          <6>1. Msg(w).kind = w /\ w # "reply"
            BY DEF Msg
          <6>2. reply.kind = "reply"
            BY <3>1
          <6> QED BY <6>1, <6>2
        <5>2. reply \notin [kind : {"data"}, bytes : Seq(Nat)]
          BY <3>1
        <5> QED BY <2>2, <5>1, <5>2 DEF ToClient
      <4> QED BY <4>1
    <3> DEFINE n1 == [k EXCEPT !.pc = "data", !.current = [request |-> r, error |-> reply.error]]
               n2 == [k EXCEPT !.waiting = @ \ {r}]
    <3>3. n1 \in Clients /\ n2 \in Clients
      BY <3>1, <3>2 DEF Clients
    <3>4. client' = [client EXCEPT ![c] = n1] \/ client' = [client EXCEPT ![c] = n2]
      BY <1>2, <3>1 DEF NbdInv
    <3> HIDE DEF n1, n2
    <3> QED BY <1>4, <2>1, <2>2, <3>3, <3>4
  <2> QED BY <2>3, <2>4, <2>5
<1>10. CASE ReceiveData(c)
  <2>1. /\ k.pc = "data" /\ p # <<>> /\ Takes(c, 1) /\ UNCHANGED <<session, to_server>>
    BY <1>2, <1>10 DEF ReceiveData
  <2>2. PICK pc \in {"transmission", "confused"} :
           client' = [client EXCEPT ![c].pc = pc,
                                    ![c].waiting = @ \ {k.current.request},
                                    ![c].current = Nothing]
    BY <1>2, <1>10 DEF ReceiveData
  <2> DEFINE n == [k EXCEPT !.pc = pc, !.waiting = @ \ {k.current.request}, !.current = Nothing]
  <2>3. n \in Clients
    BY DEF Clients
  <2>4. client' = [client EXCEPT ![c] = n]
    BY <1>2, <2>2 DEF NbdInv
  <2>5. 1 <= Len(p)
    BY <2>1
  <2> HIDE DEF n
  <2> QED BY <1>4, <2>1, <2>3, <2>4, <2>5
<1>11. CASE Misspeak(c)
  <2>1. /\ client' = [client EXCEPT ![c] = Gone] /\ Sends(c, <<Msg("garbage")>>)
        /\ k.pc \in {"options", "transmission"} /\ UNCHANGED session
        /\ to_client' \in [NbdClients -> Seq(ToClient)]
    BY <1>2, <1>11 DEF Misspeak, NbdInv
  <2>2. <<Msg("garbage")>> \in Seq(ToServer)
    <3>1. Msg("garbage") \in ToServer
      BY DEF ToServer
    <3> QED BY <3>1
  <2> QED BY <1>3, <2>1, <2>2, GoneIs
<1>12. CASE HangUp(c)
  <2>1. /\ client' = [client EXCEPT ![c] = Gone] /\ UNCHANGED session
        /\ to_server' = [to_server EXCEPT ![c] = <<>>]
        /\ to_client' = [to_client EXCEPT ![c] = <<>>]
    BY <1>12 DEF HangUp
  <2>2. /\ client' \in [NbdClients -> Clients] /\ client'[c] = Gone
        /\ \A d \in NbdClients : d # c => client'[d] = client[d]
    BY <2>1, ClientIs, GoneIs
  <2>3. /\ to_server' \in [NbdClients -> Seq(ToServer)]
        /\ to_client' \in [NbdClients -> Seq(ToClient)]
        /\ to_server'[c] = <<>>
        /\ \A d \in NbdClients : d # c => to_server'[d] = to_server[d]
    BY <2>1, ClearIs
  <2>4. Early(client'[c], to_server'[c])
    BY <2>2, <2>3, GoneIs DEF Early
  <2> QED BY <1>1, <2>1, <2>2, <2>3, <2>4
<1> QED BY <1>5, <1>6, <1>7, <1>8, <1>9, <1>10, <1>11, <1>12 DEF Client, Listen

\* Two reads of a reader are the same, up to what they have got; or there is none.
SameRead(d) ==
    /\ d \in DOMAIN jobs' <=> d \in DOMAIN jobs
    /\ d \in DOMAIN jobs => /\ jobs'[d].stream = jobs[d].stream
                            /\ jobs'[d].offset = jobs[d].offset /\ jobs'[d].n = jobs[d].n

\* A step of one reader leaves the reads of the others.
LEMMA StartReadOthers ==
    ASSUME NEW r, NEW s, NEW offset, NEW len, StartRead(r, s, offset, len), NEW d, d # r
    PROVE  SameRead(d)
<1>1. \E job : jobs' = [x \in {r} \cup DOMAIN jobs |-> IF x # r THEN jobs[x] ELSE job]
  <2>1. PICK fails \in {FALSE, BackendFails} :
           LET new == NewJob(s, offset, Clamped(s, offset, len))
           IN  jobs' = [x \in {r} \cup DOMAIN jobs |->
                          IF x # r THEN jobs[x] ELSE IF fails THEN PageFails(new) ELSE new]
    BY DEF StartRead
  <2> QED BY <2>1
<1> QED BY <1>1 DEF SameRead

\* A read that ends, and one that gets a block.
LEMMA EndReadOthers ==
    ASSUME NEW r, EndRead(r)
    PROVE  r \in DOMAIN jobs /\ r \notin DOMAIN jobs' /\ \A d : d # r => SameRead(d)
BY DEF EndRead, SameRead

LEMMA FetchItemAll ==
    ASSUME SharedInv, NEW r, FetchItem(r), NEW d
    PROVE  SameRead(d)
<1>1. r \in DOMAIN jobs
  BY FetchItemIs
<1>2. PICK job : /\ jobs' = [jobs EXCEPT ![r] = job] /\ job.stream = jobs[r].stream
                 /\ job.offset = jobs[r].offset /\ job.n = jobs[r].n
  BY FetchItemIs
<1> QED BY <1>1, <1>2 DEF SameRead

\* A session whose read is the same, and which is in the same state.
LEMMA SameReadKeeps ==
    ASSUME NbdReadsInv,
           \A d \in NbdClients : SameRead(d) /\ session'[d] = session[d]
    PROVE  NbdReadsInv'
<1> SUFFICES ASSUME NEW d \in NbdClients
             PROVE  /\ session'[d].pc = "reading" <=> d \in DOMAIN jobs'
                    /\ session'[d].pc = "reading" =>
                          IsReadOf(jobs'[d], "main", session'[d].request.offset,
                                   session'[d].request.length)
  BY DEF NbdReadsInv, IsReadOf
<1> QED BY DEF NbdReadsInv, IsReadOf, SameRead

\* An NBD session reads the Main stream.
LEMMA NbdKeeps ==
    ASSUME SharedInv, NbdInv, NbdReadsInv, NEW c \in NbdClients, Serve(c) \/ Client(c)
    PROVE  SharedInv' /\ NbdReadsInv' /\ \A d : d # c => SameRead(d)
<1>1. CASE Client(c)
  <2>1. UNCHANGED <<session, sharedVars>>
    BY <1>1 DEF Client, Listen, SendFlags, ReceiveReplies, ReceiveReply, ReceiveData, SendOption,
       SendRequest, Misspeak, HangUp
  <2>2. \A d : SameRead(d)
    BY <2>1 DEF SameRead, sharedVars
  <2> QED BY <2>1, <2>2, UnchangedKeeps, SameReadKeeps
<1>2. ASSUME UNCHANGED sharedVars, session[c].pc # "reading", session'[c].pc # "reading",
             \A d \in NbdClients : d # c => session'[d] = session[d]
      PROVE  SharedInv' /\ NbdReadsInv' /\ \A d : d # c => SameRead(d)
  <2>1. \A d : SameRead(d)
    BY <1>2 DEF SameRead, sharedVars
  <2>2. ASSUME NEW d \in NbdClients
        PROVE  /\ session'[d].pc = "reading" <=> d \in DOMAIN jobs'
               /\ session'[d].pc = "reading" =>
                     IsReadOf(jobs'[d], "main", session'[d].request.offset,
                              session'[d].request.length)
    <3>1. CASE d = c
      BY <1>2, <2>1, <3>1 DEF NbdReadsInv, SameRead
    <3>2. CASE d # c
      BY <1>2, <2>1, <3>2 DEF NbdReadsInv, SameRead, IsReadOf
    <3> QED BY <3>1, <3>2
  <2> QED BY <1>2, <2>1, <2>2, UnchangedKeeps DEF NbdReadsInv, IsReadOf
<1>3. ASSUME NEW pc \in SessionPcs, Goto(c, pc), pc # "reading", session[c].pc # "reading",
             UNCHANGED sharedVars
      PROVE  SharedInv' /\ NbdReadsInv' /\ \A d : d # c => SameRead(d)
  BY <1>2, <1>3, GotoIs
<1>4. CASE ReceiveRequest(c)
  <2>1. Arrived(c) /\ First(c).kind = "request" /\ session[c].pc = "transmission"
    BY <1>4 DEF ReceiveRequest
  <2>2. PICK request \in RequestMsgs : request = First(c)
    BY <2>1, ConsumeIs
  <2>3. request.offset \in Nat /\ request.length \in Nat
    BY <2>2 DEF RequestMsgs
  <2>4. CASE Goto(c, "closed") /\ UNCHANGED sharedVars
    BY <1>3, <2>1, <2>4 DEF SessionPcs
  <2>5. CASE UNCHANGED <<session, sharedVars>>
    BY <1>2, <2>1, <2>5
  <2>6. CASE /\ session' = [session EXCEPT ![c].pc = "draining", ![c].request = request]
             /\ UNCHANGED sharedVars
    <3>1. "draining" \in SessionPcs
      BY DEF SessionPcs
    <3>2. /\ session'[c].pc = "draining"
          /\ \A d \in NbdClients : d # c => session'[d] = session[d]
      BY <2>6, <3>1, EnterIs
    <3> QED BY <1>2, <2>1, <2>6, <3>2
  <2>7. CASE /\ session' = [session EXCEPT ![c].pc = "reading", ![c].request = request]
             /\ StartRead(c, "main", request.offset, request.length)
    <3>0. "main" \in Streams /\ "reading" \in SessionPcs
      BY DEF Streams, SessionPcs
    <3>1. /\ session'[c].pc = "reading" /\ session'[c].request = request
          /\ \A d \in NbdClients : d # c => session'[d] = session[d]
      BY <2>7 DEF NbdInv, Sessions
    <3>2. SharedInv'
      BY <2>3, <2>7, <3>0, StartReadKeeps
    <3>3. \A d : d # c => SameRead(d)
      BY <2>7, StartReadOthers
    <3>4. c \in DOMAIN jobs' /\ IsReadOf(jobs'[c], "main", request.offset, request.length)
      <4>1. PICK s \in Streams, offset \in Nat, len \in Nat :
               s = "main" /\ offset = request.offset /\ len = request.length
        BY <2>3, <3>0
      <4>2. Started(c, s, offset, len)
        BY <2>7, <4>1, StartReadIs
      <4> QED BY <4>1, <4>2 DEF Started, IsReadOf
    <3>5. ASSUME NEW d \in NbdClients
          PROVE  /\ session'[d].pc = "reading" <=> d \in DOMAIN jobs'
                 /\ session'[d].pc = "reading" =>
                       IsReadOf(jobs'[d], "main", session'[d].request.offset,
                                session'[d].request.length)
      <4>1. CASE d = c
        BY <3>1, <3>4, <4>1
      <4>2. CASE d # c
        BY <3>1, <3>3, <4>2 DEF NbdReadsInv, SameRead, IsReadOf
      <4> QED BY <4>1, <4>2
    <3> QED BY <3>2, <3>3, <3>5 DEF NbdReadsInv, IsReadOf
  <2> QED BY <1>4, <2>2, <2>4, <2>5, <2>6, <2>7 DEF ReceiveRequest
<1>5. CASE ReplyRead(c)
  <2>1. EndRead(c) /\ Goto(c, "transmission") /\ "transmission" \in SessionPcs
    BY <1>5 DEF ReplyRead, SessionPcs
  <2>2. /\ session'[c].pc = "transmission"
        /\ \A d \in NbdClients : d # c => session'[d] = session[d]
    BY <2>1, GotoIs
  <2>3. c \notin DOMAIN jobs' /\ \A d : d # c => SameRead(d)
    BY <2>1, EndReadOthers
  <2>4. ASSUME NEW d \in NbdClients
        PROVE  /\ session'[d].pc = "reading" <=> d \in DOMAIN jobs'
               /\ session'[d].pc = "reading" =>
                     IsReadOf(jobs'[d], "main", session'[d].request.offset,
                              session'[d].request.length)
    <3>1. CASE d = c
      BY <2>2, <2>3, <3>1
    <3>2. CASE d # c
      BY <2>2, <2>3, <3>2 DEF NbdReadsInv, SameRead, IsReadOf
    <3> QED BY <3>1, <3>2
  <2> QED BY <2>1, <2>3, <2>4, EndReadKeeps DEF NbdReadsInv, IsReadOf
<1>6. CASE Handshake(c)
  BY <1>3, <1>6 DEF Handshake, SessionPcs
<1>7. CASE ReceiveFlags(c)
  <2>1. /\ session' = [session EXCEPT ![c].pc = "options", ![c].no_zeroes = First(c).no_zeroes]
        /\ session[c].pc = "flags" /\ UNCHANGED sharedVars
    BY <1>7 DEF ReceiveFlags
  <2>2. /\ session'[c].pc = "options"
        /\ \A d \in NbdClients : d # c => session'[d] = session[d]
    BY <2>1 DEF NbdInv, Sessions
  <2> QED BY <1>2, <2>1, <2>2
<1>8. CASE NegotiateOption(c)
  <2>1. session[c].pc = "options" /\ UNCHANGED sharedVars
    BY <1>8 DEF NegotiateOption
  <2>2. UNCHANGED session \/ \E pc \in {"closed", "transmission", "options"} : Goto(c, pc)
    BY <1>8 DEF NegotiateOption
  <2>3. \A pc \in {"closed", "transmission", "options"} : pc \in SessionPcs /\ pc # "reading"
    BY DEF SessionPcs
  <2> QED BY <1>2, <1>3, <2>1, <2>2, <2>3
<1>9. CASE Drain(c)
  BY <1>3, <1>9 DEF Drain, SessionPcs
<1>10. CASE Bail(c)
  BY <1>3, <1>10 DEF Bail, SessionPcs
<1>11. CASE SocketFails(c)
  BY <1>3, <1>11 DEF SocketFails, SessionPcs
<1> QED BY <1>1, <1>4, <1>5, <1>6, <1>7, <1>8, <1>9, <1>10, <1>11 DEF Serve

\* An HTTP client: what it asks for, and what it gets.
Asks(h) ==
    LET total == size(Archive, h.stream)
        asked == Requested(h.range, total)
    IN  asked # NoRange /\ h.start = asked[1] /\ h.end = LastByte(asked[1], asked[2], total)
Length(h) == h.end - h.start + 1
HttpRecs ==
    [pc : {"idle", "reading", "answered"}, stream : Streams, range : Ranges \cup {NoHeader},
     start : Nat, end : Nat, status : {0, 206, 416, 500}, body : Seq(Nat)]
Serves(h, c, reads) ==
    /\ h.pc = "reading" <=> c \in DOMAIN reads
    /\ h.pc = "reading" =>
          h.status = 0 /\ Asks(h) /\ IsReadOf(reads[c], h.stream, h.start, Length(h))
    /\ h.status = 206 =>
          /\ Asks(h)
          /\ h.body = SubSeq(StreamBytes[h.stream], h.start + 1,
                             h.start + Clamped(h.stream, h.start, Length(h)))
HttpInv == /\ http \in [HttpClients -> HttpRecs]
           /\ \A c \in HttpClients : Serves(http[c], c, jobs)

\* The record of an HTTP client, part by part.
HttpRec(pc, stream, range, start, end, status, body) ==
    [pc |-> pc, stream |-> stream, range |-> range, start |-> start, end |-> end,
     status |-> status, body |-> body]

\* A request, one that is refused, and one that is read.
LEMMA AsksIs ==
    ASSUME NEW s, NEW range
    PROVE  [Idle EXCEPT !.stream = s, !.range = range] = HttpRec("idle", s, range, 0, 0, 0, <<>>)
<1>1. PICK x : x = Idle
  OBVIOUS
<1>2. x = HttpRec("idle", "main", NoHeader, 0, 0, 0, <<>>)
  BY <1>1 DEF Idle, HttpRec
<1>3. PICK y : y = [x EXCEPT !.stream = s]
  OBVIOUS
<1>4. y = HttpRec("idle", s, NoHeader, 0, 0, 0, <<>>)
  BY <1>2, <1>3 DEF HttpRec
<1>5. [y EXCEPT !.range = range] = HttpRec("idle", s, range, 0, 0, 0, <<>>)
  BY <1>4 DEF HttpRec
<1> QED BY <1>1, <1>3, <1>5, Zenon

LEMMA RefusedIs ==
    ASSUME NEW s, NEW range, NEW status,
           NEW k, k = HttpRec("idle", s, range, 0, 0, 0, <<>>)
    PROVE  [k EXCEPT !.pc = "answered", !.status = status]
              = HttpRec("answered", s, range, 0, 0, status, <<>>)
<1>1. PICK x : x = [k EXCEPT !.pc = "answered"]
  OBVIOUS
<1>2. x = HttpRec("answered", s, range, 0, 0, 0, <<>>)
  BY <1>1 DEF HttpRec
<1>3. [x EXCEPT !.status = status] = HttpRec("answered", s, range, 0, 0, status, <<>>)
  BY <1>2 DEF HttpRec
<1> QED BY <1>1, <1>3, Zenon

LEMMA ReadingIs ==
    ASSUME NEW s, NEW range, NEW start, NEW end,
           NEW k, k = HttpRec("idle", s, range, 0, 0, 0, <<>>)
    PROVE  [k EXCEPT !.pc = "reading", !.start = start, !.end = end]
              = HttpRec("reading", s, range, start, end, 0, <<>>)
<1>1. PICK x : x = [k EXCEPT !.pc = "reading"]
  OBVIOUS
<1>2. x = HttpRec("reading", s, range, 0, 0, 0, <<>>)
  BY <1>1 DEF HttpRec
<1>3. PICK y : y = [x EXCEPT !.start = start]
  OBVIOUS
<1>4. y = HttpRec("reading", s, range, start, 0, 0, <<>>)
  BY <1>2, <1>3 DEF HttpRec
<1>5. [y EXCEPT !.end = end] = HttpRec("reading", s, range, start, end, 0, <<>>)
  BY <1>4 DEF HttpRec
<1> QED BY <1>1, <1>3, <1>5, Zenon

\* A range is in the stream, and the answer to it is no longer than it may be,
\* whether it is clamped or not.
LEMMA RangeIs ==
    ASSUME NEW range \in Ranges \cup {NoHeader}, NEW total \in Nat,
           NEW asked, asked = Requested(range, total), asked # NoRange,
           NEW last, last = LastByte(asked[1], asked[2], total)
    PROVE  /\ asked[1] \in Nat /\ asked[2] \in Nat /\ last \in Nat
           /\ asked[1] <= last /\ last <= asked[2]
           /\ last - asked[1] + 1 <= MAX_CHUNK_SIZE
           /\ total > 0 => asked[2] < total
<1>1. PICK a \in Nat, b \in Nat :
         asked = <<a, b>> /\ a <= b /\ (total > 0 => b < total) /\ (total = 0 => b = 0)
  <2>1. CASE range = NoHeader
    BY <2>1 DEF Requested
  <2>2. CASE range # NoHeader
    <3>1. asked = parse_range(range, total)
      BY <2>2 DEF Requested
    <3>2. range # Malformed
      BY <3>1 DEF parse_range
    <3>3. range \in [kind : {"bytes"}, from : Nat, to : Nat \cup {Open}]
      BY <2>2, <3>2, RangesAssumption
    <3>4. PICK b : b = IF range.to # Open THEN range.to ELSE IF total = 0 THEN 0 ELSE total - 1
      OBVIOUS
    <3>5. ~ (range.from > b \/ b >= total) /\ asked = <<range.from, b>>
      BY <3>1, <3>2, <3>4 DEF parse_range
    <3>6. range.from \in Nat /\ b \in Nat
      BY <3>3, <3>4 DEF Open
    <3> QED BY <3>5, <3>6
  <2> QED BY <2>1, <2>2
<1>2. asked[1] = a /\ asked[2] = b
  BY <1>1
<1>3. last = IF b - a + 1 <= MAX_CHUNK_SIZE THEN b
             ELSE IF a + MAX_CHUNK_SIZE - 1 >= total THEN total - 1 ELSE a + MAX_CHUNK_SIZE - 1
  BY <1>2 DEF LastByte
<1>4. CASE total > 0
  BY <1>1, <1>2, <1>3, <1>4, ChunkAssumption
<1>5. CASE ~ (total > 0)
  <2>1. total = 0
    BY <1>5
  <2> QED BY <1>1, <1>2, <1>3, <2>1, ChunkAssumption
<1> QED BY <1>4, <1>5

\* Steps of others leave an HTTP client's read.
LEMMA HttpSame ==
    ASSUME HttpInv, http' = http, \A d \in HttpClients : SameRead(d)
    PROVE  HttpInv'
BY DEF HttpInv, Serves, SameRead, IsReadOf, Asks, Length

\* A step of one HTTP client.
LEMMA HttpStep ==
    ASSUME HttpInv, NEW c \in HttpClients, http' \in [HttpClients -> HttpRecs],
           \A d \in HttpClients : d # c => http'[d] = http[d],
           \A d \in HttpClients : d # c => SameRead(d), Serves(http'[c], c, jobs')
    PROVE  HttpInv'
<1>1. ASSUME NEW d \in HttpClients PROVE Serves(http'[d], d, jobs')
  <2>1. CASE d = c
    BY <2>1
  <2>2. CASE d # c
    <3>1. http'[d] = http[d] /\ Serves(http[d], d, jobs)
      BY <2>2 DEF HttpInv
    <3>2. SameRead(d)
      BY <2>2
    <3> QED BY <3>1, <3>2 DEF Serves, SameRead, IsReadOf
  <2> QED BY <2>1, <2>2
<1> QED BY <1>1 DEF HttpInv, Serves, IsReadOf, Asks, Length

LEMMA HttpIs ==
    ASSUME HttpInv, NEW c \in HttpClients, NEW h \in HttpRecs, http' = [http EXCEPT ![c] = h]
    PROVE  /\ http' \in [HttpClients -> HttpRecs] /\ http'[c] = h
           /\ \A d \in HttpClients : d # c => http'[d] = http[d]
BY DEF HttpInv

\* The client has the answer to what it asked for.
Answers(c, status, body) ==
    http' = [http EXCEPT ![c].pc = "answered", ![c].status = status, ![c].body = body]

LEMMA AnswerIs ==
    ASSUME HttpInv, NEW c \in HttpClients, NEW status \in {206, 500}, NEW body \in Seq(Nat),
           Answers(c, status, body)
    PROVE  /\ http' \in [HttpClients -> HttpRecs]
           /\ http'[c].pc = "answered" /\ http'[c].status = status /\ http'[c].body = body
           /\ http'[c].stream = http[c].stream /\ http'[c].range = http[c].range
           /\ http'[c].start = http[c].start /\ http'[c].end = http[c].end
           /\ \A d \in HttpClients : d # c => http'[d] = http[d]
<1>1. http'[c].pc = "answered" /\ http'[c].status = status /\ http'[c].body = body
  BY DEF HttpInv, HttpRecs, Answers
<1>2. /\ http'[c].stream = http[c].stream /\ http'[c].range = http[c].range
      /\ http'[c].start = http[c].start /\ http'[c].end = http[c].end
  BY DEF HttpInv, HttpRecs, Answers
<1>3. \A d \in HttpClients : d # c => http'[d] = http[d]
  BY DEF HttpInv, HttpRecs, Answers
<1>4. http'[c] \in HttpRecs
  <2>1. PICK k \in HttpRecs : k = http[c]
    BY DEF HttpInv
  <2>2. PICK s \in Streams, range \in Ranges \cup {NoHeader}, start \in Nat, end \in Nat :
           k = HttpRec(k.pc, s, range, start, end, k.status, k.body)
    BY DEF HttpRec, HttpRecs
  <2>3. PICK x : x = [k EXCEPT !.pc = "answered"]
    OBVIOUS
  <2>4. x = HttpRec("answered", s, range, start, end, k.status, k.body)
    BY <2>2, <2>3 DEF HttpRec
  <2>5. PICK y : y = [x EXCEPT !.status = status]
    OBVIOUS
  <2>6. y = HttpRec("answered", s, range, start, end, status, k.body)
    BY <2>4, <2>5 DEF HttpRec
  <2>7. PICK z : z = [y EXCEPT !.body = body]
    OBVIOUS
  <2>8. z = HttpRec("answered", s, range, start, end, status, body)
    BY <2>6, <2>7 DEF HttpRec
  <2>9. http'[c] = [k EXCEPT !.pc = "answered", !.status = status, !.body = body]
    BY <2>1 DEF HttpInv, Answers
  <2>10. http'[c] = z
    BY <2>3, <2>5, <2>7, <2>9, Zenon
  <2>11. z \in HttpRecs
    BY <2>8 DEF HttpRec, HttpRecs
  <2> QED BY <2>10, <2>11
<1>5. http' \in [HttpClients -> HttpRecs]
  BY <1>3, <1>4 DEF HttpInv, Answers
<1> QED BY <1>1, <1>2, <1>3, <1>5

\* An HTTP request reads the stream it names, from where it asked; the answer is
\* what was read.
LEMMA HttpKeeps ==
    ASSUME SharedInv, HttpInv, NEW c \in HttpClients, Get(c) \/ Respond(c) \/ Take(c)
    PROVE  SharedInv' /\ HttpInv' /\ \A d : d # c => SameRead(d)
<1>1. PICK k \in HttpRecs : k = http[c] /\ Serves(k, c, jobs)
  BY DEF HttpInv
<1>2. ASSUME NEW h \in HttpRecs, http' = [http EXCEPT ![c] = h], Serves(h, c, jobs'),
             SharedInv', \A d : d # c => SameRead(d)
      PROVE  SharedInv' /\ HttpInv' /\ \A d : d # c => SameRead(d)
  BY <1>2, HttpIs, HttpStep
<1>3. CASE Take(c)
  <2>1. http[c].pc = "answered" /\ http' = [http EXCEPT ![c] = Idle] /\ UNCHANGED sharedVars
    BY <1>3 DEF Take
  <2>2. Idle \in HttpRecs /\ Idle.pc = "idle" /\ Idle.status = 0
    BY DEF Idle, HttpRecs, Streams
  <2>3. Serves(Idle, c, jobs')
    BY <1>1, <2>1, <2>2 DEF Serves, sharedVars
  <2>4. \A d : SameRead(d)
    BY <2>1 DEF SameRead, sharedVars
  <2>5. SharedInv'
    BY <2>1, UnchangedKeeps
  <2> QED BY <1>2, <2>1, <2>2, <2>3, <2>4, <2>5
<1>4. CASE Respond(c)
  <2>1. PICK result : result = Result(jobs[c])
    OBVIOUS
  <2>2. k.pc = "reading" /\ EndRead(c)
    BY <1>1, <1>4 DEF Respond
  <2>3. /\ c \in DOMAIN jobs /\ Asks(k) /\ IsReadOf(jobs[c], k.stream, k.start, Length(k))
    BY <1>1, <2>2 DEF Serves
  <2>4. PICK s \in Streams, range \in Ranges \cup {NoHeader}, start \in Nat, end \in Nat :
           s = k.stream /\ range = k.range /\ start = k.start /\ end = k.end
    BY DEF HttpRecs
  <2>5. IsRead(jobs[c]) /\ Finished(jobs[c])
    BY <2>2, <2>3 DEF SharedInv, ReadsInv, EndRead
  <2>6. PICK n \in Nat : n = Clamped(s, start, Length(k)) /\ n = jobs[c].n /\ Within(s, start, n)
                         /\ jobs[c].stream = s /\ jobs[c].offset = start
    BY <2>3, <2>4, <2>5 DEF IsReadOf, IsRead
  <2>7. result # Failed => result = SubSeq(StreamBytes[s], start + 1, start + n)
    BY <2>1, <2>5, <2>6, ResultIs
  <2>8. PICK body \in Seq(Nat) : body = IF result = Failed THEN <<>> ELSE result
    <3>1. SubSeq(StreamBytes[s], start + 1, start + n) \in Seq(Nat)
      BY <2>6, ReadBytes
    <3>2. <<>> \in Seq(Nat)
      OBVIOUS
    <3> QED BY <2>7, <3>1, <3>2
  <2>9. PICK status \in {206, 500} : status = IF result = Failed THEN 500 ELSE 206
    OBVIOUS
  <2>10. Answers(c, status, body)
    BY <1>4, <2>1, <2>8, <2>9, Zenon DEF Respond, Answers
  <2>11. /\ http' \in [HttpClients -> HttpRecs]
         /\ \A d \in HttpClients : d # c => http'[d] = http[d]
    BY <2>10, AnswerIs
  <2>12. PICK h \in HttpRecs :
            /\ h = http'[c] /\ h.pc = "answered" /\ h.stream = s /\ h.range = range
            /\ h.start = start /\ h.end = end /\ h.status = status /\ h.body = body
    BY <1>1, <2>4, <2>10, AnswerIs
  <2>13. /\ c \notin DOMAIN jobs' /\ \A d : d # c => SameRead(d)
    BY <2>2, EndReadOthers
  <2>14. Serves(h, c, jobs')
    <3>1. Asks(h) /\ Length(h) = Length(k)
      BY <2>3, <2>4, <2>12 DEF Asks, Length
    <3>2. h.status = 206 => h.body = SubSeq(StreamBytes[s], start + 1, start + n)
      BY <2>7, <2>8, <2>9, <2>12
    <3>3. h.start + Clamped(h.stream, h.start, Length(h)) = start + n
      BY <2>6, <2>12, <3>1
    <3> QED BY <2>9, <2>12, <2>13, <3>1, <3>2, <3>3 DEF Serves
  <2>15. SharedInv' /\ HttpInv'
    BY <2>2, <2>11, <2>12, <2>13, <2>14, EndReadKeeps, HttpStep
  <2> QED BY <2>13, <2>15
<1>5. CASE Get(c)
  <2>1. PICK range \in Ranges \cup {NoHeader}, s \in Streams :
           LET total == size(Archive, s)
               asked == Requested(range, total)
               asks == [Idle EXCEPT !.stream = s, !.range = range]
           IN  IF asked = NoRange
                  THEN /\ http' = [http EXCEPT ![c] =
                                     [asks EXCEPT !.pc = "answered", !.status = 416]]
                       /\ UNCHANGED sharedVars
                  ELSE LET last == LastByte(asked[1], asked[2], total)
                       IN  /\ http' = [http EXCEPT ![c] =
                                 [asks EXCEPT !.pc = "reading", !.start = asked[1], !.end = last]]
                           /\ StartRead(c, s, asked[1], last - asked[1] + 1)
    BY <1>5 DEF Get
  <2>2. c \notin DOMAIN jobs
    BY <1>1, <1>5 DEF Get, Serves
  <2>3. PICK total \in Nat : total = size(Archive, s)
    BY IndexFacts
  <2>4. PICK asked, asks :
           /\ asked = Requested(range, total)
           /\ asks = [Idle EXCEPT !.stream = s, !.range = range]
    OBVIOUS
  <2>5. asks = HttpRec("idle", s, range, 0, 0, 0, <<>>)
    BY <2>4, AsksIs, Zenon
  <2>6. CASE asked = NoRange
    <3>1. PICK h : h = HttpRec("answered", s, range, 0, 0, 416, <<>>)
      OBVIOUS
    <3>2. http' = [http EXCEPT ![c] = [asks EXCEPT !.pc = "answered", !.status = 416]]
          /\ UNCHANGED sharedVars
      BY <2>1, <2>3, <2>4, <2>6, Zenon
    <3>3. http' = [http EXCEPT ![c] = h]
      <4>1. [asks EXCEPT !.pc = "answered", !.status = 416] = h
        <5>1. PICK status : status = 416
          OBVIOUS
        <5>2. [asks EXCEPT !.pc = "answered", !.status = status]
                 = HttpRec("answered", s, range, 0, 0, status, <<>>)
          BY <2>5, RefusedIs, Zenon
        <5> QED BY <3>1, <5>1, <5>2, Zenon
      <4> QED BY <3>2, <4>1, Zenon
    <3>4. h \in HttpRecs /\ h.pc = "answered" /\ h.status = 416
      BY <3>1 DEF HttpRec, HttpRecs
    <3>5. \A d : SameRead(d)
      BY <3>2 DEF SameRead, sharedVars
    <3>6. Serves(h, c, jobs')
      BY <2>2, <3>2, <3>4 DEF Serves, sharedVars
    <3>7. SharedInv'
      BY <3>2, UnchangedKeeps
    <3> QED BY <1>2, <3>3, <3>4, <3>5, <3>6, <3>7
  <2>7. CASE asked # NoRange
    <3>1. PICK a, last : a = asked[1] /\ last = LastByte(asked[1], asked[2], total)
      OBVIOUS
    <3>2. a \in Nat /\ last \in Nat /\ a <= last
      BY <2>4, <2>7, <3>1, RangeIs
    <3>3. PICK len \in Nat : len = last - a + 1
      BY <3>2
    <3>4. PICK h : h = HttpRec("reading", s, range, a, last, 0, <<>>)
      OBVIOUS
    <3>5. /\ http' = [http EXCEPT ![c] = [asks EXCEPT !.pc = "reading", !.start = a, !.end = last]]
          /\ StartRead(c, s, a, last - a + 1)
      BY <2>1, <2>3, <2>4, <2>7, <3>1, Zenon
    <3>6. http' = [http EXCEPT ![c] = h] /\ StartRead(c, s, a, len)
      <4>1. [asks EXCEPT !.pc = "reading", !.start = a, !.end = last] = h
        BY <2>5, <3>4, ReadingIs, Zenon
      <4> QED BY <3>3, <3>5, <4>1, Zenon
    <3>7. /\ h \in HttpRecs /\ h.pc = "reading" /\ h.status = 0 /\ h.stream = s
          /\ h.start = a /\ h.end = last /\ h.range = range
      BY <3>2, <3>4 DEF HttpRec, HttpRecs
    <3>8. Asks(h) /\ Length(h) = len
      BY <2>3, <2>4, <2>7, <3>1, <3>3, <3>7 DEF Asks, Length
    <3>9. Started(c, s, a, len)
      BY <3>2, <3>6, StartReadIs
    <3>10. c \in DOMAIN jobs' /\ IsReadOf(jobs'[c], s, a, len)
      BY <3>9 DEF Started
    <3>11. Serves(h, c, jobs')
      BY <3>7, <3>8, <3>10 DEF Serves
    <3>12. \A d : d # c => SameRead(d)
      BY <3>6, StartReadOthers
    <3>13. SharedInv'
      BY <3>2, <3>6, StartReadKeeps
    <3> QED BY <1>2, <3>6, <3>7, <3>11, <3>12, <3>13
  <2> QED BY <2>6, <2>7
<1> QED BY <1>3, <1>4, <1>5

-----------------------------------------------------------------------------
(* The messages between the two sides.                                       *)

\* A message of heavy is followed by its data, and data follows nothing else; the data
\* of one that has been taken may be the first.
Framed(q, first, heavy) ==
    /\ \A i \in DOMAIN q : q[i].kind = "data" <=> IF i = 1 THEN first ELSE q[i - 1] \in heavy
    /\ \A i \in DOMAIN q : q[i] \in heavy => i + 1 \in DOMAIN q
    /\ first => q # <<>>

\* What is no data is in the order of its numbers.
Ordered(q) ==
    \A i, j \in DOMAIN q :
        i < j /\ q[i].kind # "data" /\ q[j].kind # "data" => q[i].handle < q[j].handle

\* What is left when the first message has been taken.
IsRest(rest, q) ==
    \E m \in Nat : /\ Len(q) = m + 1 /\ DOMAIN q = 1..(m + 1)
                   /\ Len(rest) = m /\ DOMAIN rest = 1..m
                   /\ \A i \in 1..m : rest[i] = q[i + 1]

\* A queue without its first message, as the server and as the client take it.
LEMMA RestIs ==
    ASSUME NEW S, NEW q \in Seq(S), q # <<>>,
           NEW rest, rest \in {Tail(q), SubSeq(q, 2, Len(q))}
    PROVE  IsRest(rest, q) /\ q[1] = Head(q) /\ rest \in Seq(S)
<1>1. PICK m \in Nat : Len(q) = m + 1
  <2>1. Len(q) \in Nat /\ Len(q) # 0
    OBVIOUS
  <2>2. Len(q) - 1 \in Nat /\ Len(q) = (Len(q) - 1) + 1
    BY <2>1
  <2> QED BY <2>2
<1>2. DOMAIN q = 1..(m + 1) /\ q[1] = Head(q)
  BY <1>1
<1>3. CASE rest = Tail(q)
  <2>1. rest \in Seq(S) /\ Len(rest) = m /\ \A i \in 1..m : rest[i] = q[i + 1]
    BY <1>1, <1>3, HeadTailProperties
  <2> QED BY <1>1, <1>2, <2>1 DEF IsRest
<1>4. CASE rest = SubSeq(q, 2, Len(q))
  <2>1. rest \in Seq(S) /\ Len(rest) = m /\ \A i \in 1..m : rest[i] = q[i + 1]
    BY <1>1, <1>4
  <2> QED BY <1>1, <1>2, <2>1 DEF IsRest
<1> QED BY <1>3, <1>4

\* What is left is framed: the message that was taken says whether data comes next.
LEMMA FramedRest ==
    ASSUME NEW q, NEW rest, IsRest(rest, q), NEW first \in BOOLEAN, NEW heavy,
           Framed(q, first, heavy), NEW Q, rest \in Seq(Q)
    PROVE  /\ first <=> q[1].kind = "data"
           /\ Framed(rest, q[1] \in heavy, heavy)
<1>1. PICK m \in Nat : /\ Len(q) = m + 1 /\ DOMAIN q = 1..(m + 1)
                       /\ Len(rest) = m /\ DOMAIN rest = 1..m
                       /\ \A i \in 1..m : rest[i] = q[i + 1]
  BY DEF IsRest
<1>2. first <=> q[1].kind = "data"
  BY <1>1 DEF Framed
<1>3. ASSUME NEW i \in DOMAIN rest
      PROVE  /\ rest[i].kind = "data" <=> IF i = 1 THEN q[1] \in heavy ELSE rest[i - 1] \in heavy
             /\ rest[i] \in heavy => i + 1 \in DOMAIN rest
  <2>1. PICK j \in DOMAIN q : j = i + 1 /\ rest[i] = q[j] /\ j # 1 /\ j - 1 = i
    BY <1>1
  <2>2. rest[i].kind = "data" <=> q[i] \in heavy
    BY <2>1 DEF Framed
  <2>3. i # 1 => rest[i - 1] = q[i]
    BY <1>1
  <2>4. j + 1 \in DOMAIN q => i + 1 \in DOMAIN rest
    BY <1>1, <2>1
  <2>5. rest[i] \in heavy => j + 1 \in DOMAIN q
    BY <2>1 DEF Framed
  <2> QED BY <2>2, <2>3, <2>4, <2>5
<1>4. q[1] \in heavy => rest # <<>>
  <2>1. 1 \in DOMAIN q
    BY <1>1
  <2>2. q[1] \in heavy => 1 + 1 \in DOMAIN q
    BY <2>1 DEF Framed
  <2>3. q[1] \in heavy => m # 0
    BY <1>1, <2>2
  <2>4. Len(<<>>) = 0
    OBVIOUS
  <2> QED BY <1>1, <2>3, <2>4
<1> QED BY <1>2, <1>3, <1>4 DEF Framed

\* And in order, after the message that was taken.
LEMMA OrderedRest ==
    ASSUME NEW q, NEW rest, IsRest(rest, q), Ordered(q)
    PROVE  /\ Ordered(rest)
           /\ q[1].kind # "data" =>
                 \A i \in DOMAIN rest : rest[i].kind # "data" => q[1].handle < rest[i].handle
<1>1. PICK m \in Nat : /\ DOMAIN q = 1..(m + 1) /\ DOMAIN rest = 1..m
                       /\ \A i \in 1..m : rest[i] = q[i + 1]
  BY DEF IsRest
<1>2. ASSUME NEW i \in DOMAIN rest, NEW j \in DOMAIN rest, i < j,
             rest[i].kind # "data", rest[j].kind # "data"
      PROVE  rest[i].handle < rest[j].handle
  <2>1. /\ i + 1 \in DOMAIN q /\ j + 1 \in DOMAIN q /\ i + 1 < j + 1
        /\ rest[i] = q[i + 1] /\ rest[j] = q[j + 1]
    BY <1>1, <1>2
  <2> QED BY <1>2, <2>1 DEF Ordered
<1>3. ASSUME NEW i \in DOMAIN rest, q[1].kind # "data", rest[i].kind # "data"
      PROVE  q[1].handle < rest[i].handle
  <2>1. 1 \in DOMAIN q /\ i + 1 \in DOMAIN q /\ 1 < i + 1 /\ rest[i] = q[i + 1]
    BY <1>1
  <2> QED BY <1>3, <2>1 DEF Ordered
<1> QED BY <1>2, <1>3 DEF Ordered

\* What is there when a message has been sent, with its data if it is heavy.
IsMore(all, q, x, data, heavy) ==
    \E m, l \in Nat :
        /\ Len(q) = m /\ DOMAIN q = 1..m /\ l = IF x \in heavy THEN 2 ELSE 1
        /\ DOMAIN all = 1..(m + l) /\ all # <<>>
        /\ \A i \in 1..m : all[i] = q[i]
        /\ all[m + 1] = x /\ (x \in heavy => all[m + 2] = data)

\* A queue with a message more, and its data.
LEMMA MoreIs ==
    ASSUME NEW S, NEW q \in Seq(S), NEW x \in S, NEW data \in S, NEW heavy,
           NEW all, all = q \o (IF x \in heavy THEN <<x, data>> ELSE <<x>>)
    PROVE  IsMore(all, q, x, data, heavy) /\ all \in Seq(S)
<1>1. PICK m \in Nat : m = Len(q) /\ DOMAIN q = 1..m
  OBVIOUS
<1>2. CASE x \in heavy
  <2>1. all = q \o <<x, data>>
    BY <1>2
  <2>2. /\ <<x, data>> \in Seq(S) /\ Len(<<x, data>>) = 2
        /\ <<x, data>>[1] = x /\ <<x, data>>[2] = data
    OBVIOUS
  <2>3. all \in Seq(S) /\ Len(all) = m + 2 /\ \A i \in 1..m : all[i] = q[i]
    BY <1>1, <2>1, <2>2
  <2>4. all[m + 1] = x /\ all[m + 2] = data
    BY <1>1, <2>1, <2>2
  <2>5. DOMAIN all = 1..(m + 2) /\ all # <<>>
    BY <2>3
  <2> QED BY <1>1, <1>2, <2>3, <2>4, <2>5 DEF IsMore
<1>3. CASE x \notin heavy
  <2>1. all = q \o <<x>>
    BY <1>3
  <2>2. <<x>> \in Seq(S) /\ Len(<<x>>) = 1 /\ <<x>>[1] = x
    OBVIOUS
  <2>3. all \in Seq(S) /\ Len(all) = m + 1 /\ \A i \in 1..m : all[i] = q[i]
    BY <1>1, <2>1, <2>2
  <2>4. all[m + 1] = x
    BY <1>1, <2>1, <2>2
  <2>5. DOMAIN all = 1..(m + 1) /\ all # <<>>
    BY <2>3
  <2> QED BY <1>1, <1>3, <2>3, <2>4, <2>5 DEF IsMore
<1> QED BY <1>2, <1>3

\* It is framed, for nothing is owed to the last message there was.
LEMMA FramedMore ==
    ASSUME NEW q, NEW first \in BOOLEAN, NEW heavy, Framed(q, first, heavy),
           NEW x, NEW data, x.kind # "data", data.kind = "data", data \notin heavy,
           NEW all, IsMore(all, q, x, data, heavy), NEW Q, q \in Seq(Q)
    PROVE  Framed(all, first, heavy)
<1>1. PICK m \in Nat, l \in Nat :
        /\ Len(q) = m /\ DOMAIN q = 1..m /\ l = (IF x \in heavy THEN 2 ELSE 1)
        /\ DOMAIN all = 1..(m + l) /\ all # <<>>
        /\ \A i \in 1..m : all[i] = q[i]
        /\ all[m + 1] = x /\ (x \in heavy => all[m + 2] = data)
  BY DEF IsMore
<1>2. ASSUME NEW i \in DOMAIN all
      PROVE  /\ all[i] \in heavy => i + 1 \in DOMAIN all
             /\ all[i].kind = "data" <=> IF i = 1 THEN first ELSE all[i - 1] \in heavy
  <2>0. i \in 1..m \/ i = m + 1 \/ (x \in heavy /\ i = m + 2)
    BY <1>1
  <2>1. CASE i \in 1..m
    <3>1. all[i] = q[i] /\ i \in DOMAIN q /\ i + 1 \in DOMAIN all
      BY <1>1, <2>1
    <3>2. i # 1 => all[i - 1] = q[i - 1]
      BY <1>1, <2>1
    <3> QED BY <3>1, <3>2 DEF Framed
  <2>2. CASE i = m + 1
    <3>1. all[i] = x
      BY <1>1, <2>2
    <3>2. x \in heavy => i + 1 \in DOMAIN all
      BY <1>1, <2>2
    <3>3. ~ (IF i = 1 THEN first ELSE all[i - 1] \in heavy)
      <4>1. CASE i = 1
        <5>1. q = <<>>
          BY <1>1, <2>2, <4>1
        <5> QED BY <4>1, <5>1 DEF Framed
      <4>2. CASE i # 1
        <5>1. PICK j \in 1..m : j = i - 1 /\ j + 1 \notin DOMAIN q /\ j \in DOMAIN q
          BY <1>1, <2>2, <4>2
        <5>2. q[j] \notin heavy /\ all[j] = q[j]
          BY <1>1, <5>1 DEF Framed
        <5> QED BY <4>2, <5>1, <5>2
      <4> QED BY <4>1, <4>2
    <3> QED BY <3>1, <3>2, <3>3
  <2>3. CASE x \in heavy /\ i = m + 2
    <3>1. all[i] = data /\ i # 1 /\ all[i - 1] = x
      BY <1>1, <2>3
    <3> QED BY <2>3, <3>1
  <2> QED BY <2>0, <2>1, <2>2, <2>3
<1> QED BY <1>1, <1>2 DEF Framed

\* And in order, when the number of the message is higher than those there are.
LEMMA OrderedMore ==
    ASSUME NEW q, Ordered(q), NEW heavy, NEW x, NEW data, data.kind = "data",
           \A i \in DOMAIN q : q[i].kind # "data" => q[i].handle < x.handle,
           NEW all, IsMore(all, q, x, data, heavy)
    PROVE  Ordered(all)
<1>1. PICK m \in Nat, l \in Nat :
        /\ Len(q) = m /\ DOMAIN q = 1..m /\ l = (IF x \in heavy THEN 2 ELSE 1)
        /\ DOMAIN all = 1..(m + l)
        /\ \A i \in 1..m : all[i] = q[i]
        /\ all[m + 1] = x /\ (x \in heavy => all[m + 2] = data)
  BY DEF IsMore
<1>2. \A i \in DOMAIN all : i \in 1..m \/ i = m + 1 \/ (x \in heavy /\ i = m + 2)
  BY <1>1
<1>3. ASSUME NEW i \in DOMAIN all, NEW j \in DOMAIN all, i < j,
             all[i].kind # "data", all[j].kind # "data"
      PROVE  all[i].handle < all[j].handle
  <2>1. i \in 1..m
    BY <1>1, <1>2, <1>3
  <2>2. all[i] = q[i] /\ i \in DOMAIN q
    BY <1>1, <2>1
  <2>3. CASE j \in 1..m
    BY <1>1, <1>3, <2>2, <2>3 DEF Ordered
  <2>4. CASE j = m + 1
    BY <1>1, <1>3, <2>2, <2>4
  <2>5. CASE x \in heavy /\ j = m + 2
    BY <1>1, <1>3, <2>5
  <2> QED BY <1>2, <2>3, <2>4, <2>5
<1> QED BY <1>3 DEF Ordered

\* Requests that wait for a reply: each has a number of its own.
Distinct(w) == \A r, x \in w : r.handle = x.handle => r = x

\* What the server will read: requests that wait, from number n on, and the data of
\* writes.
Writes == { x \in RequestMsgs : x.type = "write" }
Incoming(q, w, n, draining) ==
    /\ Framed(q, draining, Writes) /\ Ordered(q)
    /\ \A i \in DOMAIN q : q[i].kind # "data" => q[i] \in w /\ n <= q[i].handle

\* What the client will read: replies to requests that wait, before number n, and the
\* data of reads; it may be about to read the data.
IsReplyTo(x, r) == x.kind = "reply" /\ x.handle = r.handle
WithData(w) == { x \in ToClient : \E r \in w : IsReplyTo(x, r) /\ r.type = "read" }
Outgoing(p, w, n, current) ==
    /\ Framed(p, current # Nothing, WithData(w)) /\ Ordered(p)
    /\ \A i \in DOMAIN p : p[i].kind # "data" => \E r \in w : IsReplyTo(p[i], r) /\ r.handle < n
    /\ \A i \in DOMAIN p, r \in w :
          IsReplyTo(p[i], r) /\ r.type = "read" => Expected(r, p[i].error, p[i + 1].bytes)
    /\ current # Nothing =>
          /\ current.request \in w /\ current.request.handle < n
          /\ Expected(current.request, current.error, p[1].bytes)
          /\ \A i \in DOMAIN p : p[i].kind # "data" => current.request.handle < p[i].handle

\* What the server reads next: data if it expects data, else a request that waits.
LEMMA IncomingRest ==
    ASSUME NEW q, NEW rest, IsRest(rest, q), rest \in Seq(ToServer), NEW w, NEW n,
           NEW draining \in BOOLEAN, Incoming(q, w, n, draining)
    PROVE  /\ draining <=> q[1].kind = "data"
           /\ ~ draining => /\ q[1] \in w /\ n <= q[1].handle
                            /\ \A i \in DOMAIN rest :
                                  rest[i].kind # "data" => q[1].handle < rest[i].handle
           /\ Incoming(rest, w, n, q[1] \in Writes)
<1>1. PICK m \in Nat : /\ DOMAIN q = 1..(m + 1) /\ DOMAIN rest = 1..m
                       /\ \A i \in 1..m : rest[i] = q[i + 1]
  BY DEF IsRest
<1>2. (draining <=> q[1].kind = "data") /\ Framed(rest, q[1] \in Writes, Writes)
  BY FramedRest DEF Incoming
<1>3. /\ Ordered(rest)
      /\ q[1].kind # "data" =>
            \A i \in DOMAIN rest : rest[i].kind # "data" => q[1].handle < rest[i].handle
  BY OrderedRest DEF Incoming
<1>4. 1 \in DOMAIN q /\ \A i \in DOMAIN rest : i + 1 \in DOMAIN q /\ rest[i] = q[i + 1]
  BY <1>1
<1>5. \A i \in DOMAIN rest : rest[i].kind # "data" => rest[i] \in w /\ n <= rest[i].handle
  BY <1>4 DEF Incoming
<1>6. q[1].kind # "data" => q[1] \in w /\ n <= q[1].handle
  BY <1>4 DEF Incoming
<1> QED BY <1>2, <1>3, <1>5, <1>6 DEF Incoming

\* If no request that is on its way has a number below m, n may be m.
LEMMA IncomingLater ==
    ASSUME NEW q, NEW w, NEW n, NEW m, NEW draining, Incoming(q, w, n, draining),
           \A i \in DOMAIN q : q[i].kind # "data" => m <= q[i].handle
    PROVE  Incoming(q, w, m, draining)
BY DEF Incoming

\* A request that was replied to is not on its way.
LEMMA IncomingWithout ==
    ASSUME NEW q, NEW w \in SUBSET RequestMsgs, NEW n \in Nat, NEW draining,
           Incoming(q, w, n, draining), NEW r \in w, r.handle < n
    PROVE  Incoming(q, w \ {r}, n, draining)
<1>1. r.handle \in Nat
  BY DEF RequestMsgs
<1>2. ASSUME NEW x, n <= x.handle PROVE x # r
  BY <1>1, <1>2
<1> QED BY <1>2 DEF Incoming

\* The number of r is greater than those of w, and not less than n.
IsLast(r, w, n) == n <= r.handle /\ \A x \in w : x.handle < r.handle

\* A request that is sent is the last one.
LEMMA IncomingMore ==
    ASSUME NEW q \in Seq(ToServer), NEW w \in SUBSET RequestMsgs, NEW n \in Nat,
           NEW draining \in BOOLEAN,
           Incoming(q, w, n, draining), NEW r \in RequestMsgs, IsLast(r, w, n),
           NEW all, IsMore(all, q, r, Msg("data"), Writes)
    PROVE  Incoming(all, w \cup {r}, n, draining)
<1>1. /\ r.kind = "request" /\ r.handle \in Nat
      /\ n <= r.handle /\ \A x \in w : x.handle < r.handle
  BY DEF RequestMsgs, IsLast
<1>2. PICK data : data = Msg("data") /\ data.kind = "data" /\ data \notin Writes
  BY DEF Msg, Writes, RequestMsgs
<1>3. Framed(all, draining, Writes)
  BY <1>1, <1>2, FramedMore DEF Incoming
<1>4. Ordered(all)
  <2>1. \A i \in DOMAIN q : q[i].kind # "data" => q[i].handle < r.handle
    BY <1>1 DEF Incoming
  <2> QED BY <1>2, <2>1, OrderedMore DEF Incoming
<1>5. ASSUME NEW i \in DOMAIN all, all[i].kind # "data"
      PROVE  all[i] \in w \cup {r} /\ n <= all[i].handle
  <2>1. PICK m \in Nat, l \in Nat :
          /\ Len(q) = m /\ DOMAIN q = 1..m /\ l = (IF r \in Writes THEN 2 ELSE 1)
          /\ DOMAIN all = 1..(m + l)
          /\ \A j \in 1..m : all[j] = q[j]
          /\ all[m + 1] = r /\ (r \in Writes => all[m + 2] = data)
    BY <1>2 DEF IsMore
  <2>2. i \in 1..m \/ i = m + 1 \/ (r \in Writes /\ i = m + 2)
    BY <2>1
  <2>3. CASE i \in 1..m
    BY <1>5, <2>1, <2>3 DEF Incoming
  <2>4. CASE ~ (i \in 1..m)
    BY <1>1, <1>2, <1>5, <2>1, <2>2, <2>4
  <2> QED BY <2>3, <2>4
<1> QED BY <1>3, <1>4, <1>5 DEF Incoming

\* A frame depends on which of the messages that are there are heavy.
LEMMA FramedSame ==
    ASSUME NEW Q, NEW q \in Seq(Q), NEW first, NEW heavy, Framed(q, first, heavy),
           NEW other, \A i \in DOMAIN q : q[i] \in heavy <=> q[i] \in other
    PROVE  Framed(q, first, other)
<1>1. DOMAIN q = 1..Len(q) /\ Len(q) \in Nat
  OBVIOUS
<1>2. \A i \in DOMAIN q : i # 1 => i - 1 \in DOMAIN q
  BY <1>1
<1> QED BY <1>2 DEF Framed

\* Data has no data.
LEMMA NoData == \A w, x : x \in WithData(w) => x.kind = "reply" /\ x.kind # "data"
BY DEF WithData, IsReplyTo

\* A request that is sent has no reply.
LEMMA OutgoingMore ==
    ASSUME NEW p \in Seq(ToClient), NEW w \in SUBSET RequestMsgs, NEW n \in Nat, NEW current,
           Outgoing(p, w, n, current), NEW r \in RequestMsgs, \A x \in w : x.handle < r.handle
    PROVE  Outgoing(p, w \cup {r}, n, current)
<1>1. \A x \in w : x.handle \in Nat /\ x.handle # r.handle
  BY DEF RequestMsgs
<1>2. ASSUME NEW i \in DOMAIN p PROVE ~ IsReplyTo(p[i], r)
  <2>1. p[i].kind # "data" => \E x \in w : p[i].handle = x.handle
    BY DEF Outgoing, IsReplyTo
  <2> QED BY <1>1, <2>1 DEF IsReplyTo
<1>3. \A i \in DOMAIN p : p[i] \in WithData(w) <=> p[i] \in WithData(w \cup {r})
  BY <1>2 DEF WithData
<1>4. Framed(p, current # Nothing, WithData(w \cup {r}))
  BY <1>3, FramedSame DEF Outgoing
<1> QED BY <1>2, <1>4 DEF Outgoing

\* A reply to the first request that has none, with the data it must have.
LEMMA OutgoingReply ==
    ASSUME NEW p \in Seq(ToClient), NEW w \in SUBSET RequestMsgs, Distinct(w), NEW n \in Nat,
           NEW current, Outgoing(p, w, n, current),
           NEW r \in w, n <= r.handle, NEW x \in ToClient, IsReplyTo(x, r),
           NEW data, data.kind = "data",
           r.type = "read" => Expected(r, x.error, data.bytes),
           NEW all, IsMore(all, p, x, data, WithData(w)),
           NEW next, next = r.handle + 1
    PROVE  Outgoing(all, w, next, current)
<1>1. \A y \in w : y.handle \in Nat
  BY DEF RequestMsgs
<1>2. x.kind # "data" /\ data \notin WithData(w)
  BY NoData DEF IsReplyTo
<1>3. ASSUME NEW i \in DOMAIN p, p[i].kind # "data"
      PROVE  p[i].handle < x.handle /\ \E y \in w : IsReplyTo(p[i], y) /\ y.handle < next
  <2>1. PICK y \in w : IsReplyTo(p[i], y) /\ y.handle < n
    BY <1>3 DEF Outgoing
  <2>2. y.handle < r.handle /\ y.handle < next
    BY <1>1, <2>1
  <2> QED BY <2>1, <2>2 DEF IsReplyTo
<1>4. Framed(all, current # Nothing, WithData(w))
  BY <1>2, FramedMore DEF Outgoing
<1>5. Ordered(all)
  BY <1>3, OrderedMore DEF Outgoing
<1>6. PICK m \in Nat, l \in Nat :
        /\ Len(p) = m /\ DOMAIN p = 1..m /\ l = (IF x \in WithData(w) THEN 2 ELSE 1)
        /\ DOMAIN all = 1..(m + l)
        /\ \A j \in 1..m : all[j] = p[j]
        /\ all[m + 1] = x /\ (x \in WithData(w) => all[m + 2] = data)
  BY DEF IsMore
<1>7. \A i \in DOMAIN all : i \in 1..m \/ i = m + 1 \/ (x \in WithData(w) /\ i = m + 2)
  BY <1>6
<1>8. ASSUME NEW i \in DOMAIN all, all[i].kind # "data"
      PROVE  \E y \in w : IsReplyTo(all[i], y) /\ y.handle < next
  <2>1. CASE i \in 1..m
    BY <1>3, <1>6, <1>8, <2>1
  <2>2. CASE i = m + 1
    BY <1>1, <1>6, <2>2
  <2>3. CASE x \in WithData(w) /\ i = m + 2
    BY <1>6, <1>8, <2>3
  <2> QED BY <1>7, <2>1, <2>2, <2>3
<1>9. ASSUME NEW i \in DOMAIN all, NEW y \in w, IsReplyTo(all[i], y), y.type = "read"
      PROVE  Expected(y, all[i].error, all[i + 1].bytes)
  <2>1. CASE i \in 1..m
    <3>1. all[i] = p[i] /\ i \in DOMAIN p /\ p[i] \in ToClient
      BY <1>6, <2>1
    <3>2. p[i] \in WithData(w)
      BY <1>9, <3>1 DEF WithData
    <3>3. i + 1 \in DOMAIN p
      BY <3>1, <3>2 DEF Outgoing, Framed
    <3>4. all[i + 1] = p[i + 1]
      BY <1>6, <3>3
    <3>5. Expected(y, p[i].error, p[i + 1].bytes)
      BY <1>9, <3>1 DEF Outgoing
    <3> QED BY <3>1, <3>4, <3>5
  <2>2. CASE i = m + 1
    <3>1. all[i] = x
      BY <1>6, <2>2
    <3>2. y = r
      BY <1>9, <3>1 DEF IsReplyTo, Distinct
    <3>3. x \in WithData(w)
      BY <1>9, <3>1 DEF WithData
    <3>4. all[i + 1] = data
      BY <1>6, <2>2, <3>3
    <3> QED BY <1>9, <3>1, <3>2, <3>4
  <2>3. CASE x \in WithData(w) /\ i = m + 2
    BY <1>6, <1>9, <2>3 DEF IsReplyTo
  <2> QED BY <1>7, <2>1, <2>2, <2>3
<1>10. ASSUME current # Nothing
       PROVE  /\ current.request \in w /\ current.request.handle < next
              /\ Expected(current.request, current.error, all[1].bytes)
              /\ \A i \in DOMAIN all : all[i].kind # "data" => current.request.handle < all[i].handle
  <2>1. /\ current.request \in w /\ current.request.handle < n
        /\ Expected(current.request, current.error, p[1].bytes)
        /\ \A i \in DOMAIN p : p[i].kind # "data" => current.request.handle < p[i].handle
    BY <1>10 DEF Outgoing
  <2>2. current.request.handle < r.handle /\ current.request.handle < next
    BY <1>1, <2>1
  <2>3. p # <<>>
    BY <1>10 DEF Outgoing, Framed
  <2>4. all[1] = p[1]
    BY <1>6, <2>3
  <2>5. ASSUME NEW i \in DOMAIN all, all[i].kind # "data"
        PROVE  current.request.handle < all[i].handle
    <3>1. CASE i \in 1..m
      BY <1>6, <2>1, <2>5, <3>1
    <3>2. CASE i = m + 1
      BY <1>6, <2>2, <3>2 DEF IsReplyTo
    <3>3. CASE x \in WithData(w) /\ i = m + 2
      BY <1>6, <2>5, <3>3
    <3> QED BY <1>7, <3>1, <3>2, <3>3
  <2> QED BY <2>1, <2>2, <2>4, <2>5
<1> QED BY <1>4, <1>5, <1>8, <1>9, <1>10 DEF Outgoing

\* What is left when all of a reply has been taken.
LEMMA OutgoingDone ==
    ASSUME NEW p \in Seq(ToClient), NEW rest \in Seq(ToClient), IsRest(rest, p),
           NEW w \in SUBSET RequestMsgs, NEW n \in Nat, NEW current, Outgoing(p, w, n, current),
           p[1] \notin WithData(w), NEW r \in w,
           \A i \in DOMAIN rest : rest[i].kind # "data" => r.handle < rest[i].handle
    PROVE  Outgoing(rest, w \ {r}, n, Nothing)
<1>1. PICK m \in Nat : /\ DOMAIN p = 1..(m + 1) /\ DOMAIN rest = 1..m
                       /\ \A i \in 1..m : rest[i] = p[i + 1]
  BY DEF IsRest
<1>2. \A i \in DOMAIN rest : i + 1 \in DOMAIN p /\ rest[i] = p[i + 1]
  BY <1>1
<1>3. Framed(rest, FALSE, WithData(w))
  <2>1. PICK first \in BOOLEAN : first = (current # Nothing)
    OBVIOUS
  <2>2. Framed(p, first, WithData(w))
    BY <2>1 DEF Outgoing
  <2>3. Framed(rest, p[1] \in WithData(w), WithData(w))
    BY <2>2, FramedRest
  <2>4. (p[1] \in WithData(w)) = FALSE
    OBVIOUS
  <2> QED BY <2>3, <2>4
<1>4. ASSUME NEW i \in DOMAIN rest PROVE ~ IsReplyTo(rest[i], r)
  BY <1>4 DEF IsReplyTo, RequestMsgs
<1>5. \A i \in DOMAIN rest : rest[i] \in WithData(w) <=> rest[i] \in WithData(w \ {r})
  BY <1>4 DEF WithData
<1>6. Framed(rest, Nothing # Nothing, WithData(w \ {r}))
  BY <1>3, <1>5, FramedSame
<1>7. Ordered(rest)
  BY OrderedRest DEF Outgoing
<1>8. ASSUME NEW i \in DOMAIN rest, rest[i].kind # "data"
      PROVE  \E y \in w \ {r} : IsReplyTo(rest[i], y) /\ y.handle < n
  BY <1>2, <1>4, <1>8 DEF Outgoing
<1>9. ASSUME NEW i \in DOMAIN rest, NEW y \in w, IsReplyTo(rest[i], y), y.type = "read"
      PROVE  Expected(y, rest[i].error, rest[i + 1].bytes)
  <2>1. rest[i] \in WithData(w)
    BY <1>9 DEF WithData
  <2>2. i + 1 \in DOMAIN rest
    BY <1>3, <2>1 DEF Framed
  <2>3. PICK j \in DOMAIN p : j = i + 1 /\ rest[i] = p[j] /\ rest[i + 1] = p[j + 1]
    BY <1>2, <2>2
  <2>4. Expected(y, p[j].error, p[j + 1].bytes)
    BY <1>9, <2>3 DEF Outgoing
  <2> QED BY <2>3, <2>4
<1> QED BY <1>6, <1>7, <1>8, <1>9 DEF Outgoing

\* What a client finds that expects a reply: one to a request that waits.
LEMMA OutgoingReplyRest ==
    ASSUME NEW p \in Seq(ToClient), NEW rest \in Seq(ToClient), IsRest(rest, p),
           NEW w \in SUBSET RequestMsgs, Distinct(w), NEW n \in Nat, NEW current,
           Outgoing(p, w, n, current), current = Nothing
    PROVE  /\ p[1].kind # "data"
           /\ \E r \in w : IsReplyTo(p[1], r)
           /\ \A r \in w : IsReplyTo(p[1], r) =>
                 /\ r.handle < n
                 /\ r.type # "read" => Outgoing(rest, w \ {r}, n, Nothing)
                 /\ r.type = "read" =>
                       Outgoing(rest, w, n, [request |-> r, error |-> p[1].error])
<1>1. PICK m \in Nat : /\ DOMAIN p = 1..(m + 1) /\ DOMAIN rest = 1..m
                       /\ \A i \in 1..m : rest[i] = p[i + 1]
  BY DEF IsRest
<1>2. 1 \in DOMAIN p /\ \A i \in DOMAIN rest : i + 1 \in DOMAIN p /\ rest[i] = p[i + 1]
  BY <1>1
<1>3. PICK first \in BOOLEAN : first = (current # Nothing)
  OBVIOUS
<1>4. (first <=> p[1].kind = "data") /\ Framed(rest, p[1] \in WithData(w), WithData(w))
  <2>1. Framed(p, first, WithData(w))
    BY <1>3 DEF Outgoing
  <2> QED BY <2>1, FramedRest
<1>5. /\ Ordered(rest)
      /\ p[1].kind # "data" =>
            \A i \in DOMAIN rest : rest[i].kind # "data" => p[1].handle < rest[i].handle
  BY OrderedRest DEF Outgoing
<1>6. p[1].kind # "data"
  BY <1>3, <1>4
<1>7. PICK x \in w : IsReplyTo(p[1], x) /\ x.handle < n
  BY <1>2, <1>6 DEF Outgoing
<1>8. ASSUME NEW r \in w, IsReplyTo(p[1], r)
      PROVE  /\ r.handle < n
             /\ r.type # "read" => Outgoing(rest, w \ {r}, n, Nothing)
             /\ r.type = "read" =>
                   Outgoing(rest, w, n, [request |-> r, error |-> p[1].error])
  <2>1. r = x
    BY <1>7, <1>8 DEF IsReplyTo, Distinct
  <2>2. \A i \in DOMAIN rest : rest[i].kind # "data" => r.handle < rest[i].handle
    BY <1>5, <1>6, <1>8 DEF IsReplyTo
  <2>3. ASSUME r.type # "read" PROVE Outgoing(rest, w \ {r}, n, Nothing)
    <3>1. p[1] \notin WithData(w)
      BY <1>8, <2>3 DEF WithData, IsReplyTo, Distinct
    <3> QED BY <2>2, <3>1, OutgoingDone
  <2>4. ASSUME r.type = "read", NEW after, after = [request |-> r, error |-> p[1].error]
        PROVE  Outgoing(rest, w, n, after)
    <3>1. p[1] \in WithData(w)
      BY <1>2, <1>8, <2>4 DEF WithData
    <3>2. after # Nothing /\ after.request = r /\ after.error = p[1].error
      <4>1. after.request = r /\ after.error = p[1].error
        BY <2>4
      <4>2. after # Nothing
        <5>1. DOMAIN after = {"request", "error"}
          BY <2>4
        <5>2. DOMAIN Nothing = {"kind"}
          BY DEF Nothing
        <5> QED BY <5>1, <5>2
      <4> QED BY <4>1, <4>2
    <3>3. Framed(rest, after # Nothing, WithData(w))
      <4>1. (p[1] \in WithData(w)) = (after # Nothing)
        BY <3>1, <3>2
      <4> QED BY <1>4, <4>1
    <3>4. ASSUME NEW i \in DOMAIN rest, rest[i].kind # "data"
          PROVE  \E y \in w : IsReplyTo(rest[i], y) /\ y.handle < n
      BY <1>2, <3>4 DEF Outgoing
    <3>5. ASSUME NEW i \in DOMAIN rest, NEW y \in w, IsReplyTo(rest[i], y), y.type = "read"
          PROVE  Expected(y, rest[i].error, rest[i + 1].bytes)
      <4>1. rest[i] \in WithData(w)
        BY <3>5 DEF WithData
      <4>2. i + 1 \in DOMAIN rest
        BY <1>4, <4>1 DEF Framed
      <4>3. PICK j \in DOMAIN p : j = i + 1 /\ rest[i] = p[j] /\ rest[i + 1] = p[j + 1]
        BY <1>2, <4>2
      <4>4. Expected(y, p[j].error, p[j + 1].bytes)
        BY <3>5, <4>3 DEF Outgoing
      <4> QED BY <4>3, <4>4
    <3>6. Expected(r, p[1].error, rest[1].bytes)
      <4>1. 1 + 1 \in DOMAIN p
        BY <1>2, <3>1 DEF Outgoing, Framed
      <4>2. rest[1] = p[1 + 1]
        BY <1>1, <4>1
      <4>3. Expected(r, p[1].error, p[1 + 1].bytes)
        BY <1>2, <1>8, <2>4 DEF Outgoing
      <4> QED BY <4>2, <4>3
    <3> QED BY <1>5, <1>7, <2>1, <2>2, <3>2, <3>3, <3>4, <3>5, <3>6 DEF Outgoing
  <2> QED BY <1>7, <2>1, <2>3, <2>4
<1> QED BY <1>6, <1>7, <1>8

\* What a client finds that expects data: the data of the read it has a reply to.
LEMMA OutgoingDataRest ==
    ASSUME NEW p \in Seq(ToClient), NEW rest \in Seq(ToClient), IsRest(rest, p),
           NEW w \in SUBSET RequestMsgs, Distinct(w), NEW n \in Nat, NEW current,
           Outgoing(p, w, n, current), current # Nothing
    PROVE  /\ p[1].kind = "data" /\ Expected(current.request, current.error, p[1].bytes)
           /\ current.request \in w /\ current.request.handle < n
           /\ Outgoing(rest, w \ {current.request}, n, Nothing)
<1>1. \A i \in DOMAIN rest : i + 1 \in DOMAIN p /\ rest[i] = p[i + 1]
  BY DEF IsRest
<1>2. PICK first \in BOOLEAN : first = (current # Nothing)
  OBVIOUS
<1>3. first <=> p[1].kind = "data"
  <2>1. Framed(p, first, WithData(w))
    BY <1>2 DEF Outgoing
  <2> QED BY <2>1, FramedRest
<1>4. p[1].kind = "data" /\ p[1] \notin WithData(w)
  BY <1>2, <1>3, NoData
<1>5. /\ current.request \in w /\ current.request.handle < n
      /\ Expected(current.request, current.error, p[1].bytes)
      /\ \A i \in DOMAIN p : p[i].kind # "data" => current.request.handle < p[i].handle
  BY DEF Outgoing
<1>6. Outgoing(rest, w \ {current.request}, n, Nothing)
  BY <1>1, <1>4, <1>5, OutgoingDone
<1> QED BY <1>4, <1>5, <1>6

\* The phases of a connection whose client is there.  First nothing is on its way, or
\* the greeting is.
Greeting(s, k, q, p) ==
    /\ k.pc = "start" /\ k.option = "none" /\ k.waiting = {} /\ k.current = Nothing /\ q = <<>>
    /\ \/ s.pc = "start" /\ p = <<>>
       \/ s.pc = "flags" /\ p = <<Msg("greeting")>>

\* Then the client's flags and one option are on their way, or the replies to it.
Asked(option) == IF option = "none" THEN <<>> ELSE <<[kind |-> "option", option |-> option]>>
After(option) == IF option \in {"export_name", "go"} THEN "transmission" ELSE "options"
Negotiating(s, k, q, p) ==
    /\ k.pc = "options" /\ k.waiting = {} /\ k.current = Nothing
    /\ \/ /\ s.pc = "flags" /\ p = <<>>
          /\ q = <<[kind |-> "flags", no_zeroes |-> k.no_zeroes]>> \o Asked(k.option)
       \/ /\ s.pc = "options" /\ s.no_zeroes = k.no_zeroes /\ p = <<>>
          /\ q = Asked(k.option)
       \/ /\ k.option # "none" /\ q = <<>>
          /\ s.pc = After(k.option) /\ (s.pc = "options" => s.no_zeroes = k.no_zeroes)
          /\ p = Replies(k.option, k.no_zeroes)

\* Then requests and their replies are: those before number n have been replied to, the
\* server has one in hand, and the others have not been read.
Busy(s, w, n, q) ==
    /\ s.request \in w /\ n <= s.request.handle
    /\ s.request.type = IF s.pc = "reading" THEN "read" ELSE "write"
    /\ \A i \in DOMAIN q : q[i].kind # "data" => s.request.handle < q[i].handle
Balanced(s, k, q, p, n) ==
    /\ Outgoing(p, k.waiting, n, k.current)
    /\ s.pc # "closed" => Incoming(q, k.waiting, n, s.pc = "draining") /\ n <= k.sent + 1
    /\ s.pc \in {"reading", "draining"} => Busy(s, k.waiting, n, q)
Serving(s, k, q, p) ==
    /\ k.pc \in {"transmission", "data"} /\ k.option = "none"
    /\ k.pc = "data" <=> k.current # Nothing
    /\ Distinct(k.waiting) /\ \A r \in k.waiting : r.handle <= k.sent
    /\ s.pc \in {"transmission", "reading", "draining", "closed"}
    /\ \E n \in Nat : Balanced(s, k, q, p, n)

Talk(s, k, q, p) ==
    \/ k.pc = "gone"
    \/ Greeting(s, k, q, p) \/ Negotiating(s, k, q, p) \/ Serving(s, k, q, p)
TalkInv == \A c \in NbdClients : Talk(session[c], client[c], to_server[c], to_client[c])

\* A reply to the request in hand, which is the first that has none.
LEMMA ReplyBalances ==
    ASSUME NEW s, s.pc = "transmission", NEW k \in Clients,
           Distinct(k.waiting), \A r \in k.waiting : r.handle <= k.sent,
           NEW q \in Seq(ToServer), NEW p \in Seq(ToClient), NEW n \in Nat,
           Outgoing(p, k.waiting, n, k.current), Incoming(q, k.waiting, n, FALSE),
           NEW r \in k.waiting, n <= r.handle,
           \A i \in DOMAIN q : q[i].kind # "data" => r.handle < q[i].handle,
           NEW x \in ToClient, IsReplyTo(x, r), NEW data \in ToClient, data.kind = "data",
           r.type = "read" => Expected(r, x.error, data.bytes),
           NEW all, all = p \o (IF r.type = "read" THEN <<x, data>> ELSE <<x>>)
    PROVE  \E m \in Nat : Balanced(s, k, q, all, m)
<1>1. PICK w \in SUBSET RequestMsgs : w = k.waiting
  BY DEF Clients
<1>2. PICK m \in Nat : m = r.handle + 1 /\ r.handle \in Nat
  BY <1>1 DEF RequestMsgs
<1>3. r.type = "read" <=> x \in WithData(w)
  BY <1>1 DEF WithData, IsReplyTo, Distinct
<1>4. IsMore(all, p, x, data, WithData(w))
  <2>1. PICK heavy : heavy = WithData(w)
    OBVIOUS
  <2>2. all = p \o (IF x \in heavy THEN <<x, data>> ELSE <<x>>)
    BY <1>3, <2>1
  <2>3. IsMore(all, p, x, data, heavy)
    BY <2>2, MoreIs
  <2> QED BY <2>1, <2>3
<1>5. Outgoing(all, w, m, k.current)
  BY <1>1, <1>2, <1>4, OutgoingReply
<1>6. Incoming(q, w, m, FALSE)
  <2>1. ASSUME NEW i \in DOMAIN q, q[i].kind # "data" PROVE m <= q[i].handle
    <3>1. q[i] \in w /\ r.handle < q[i].handle
      BY <1>1, <2>1 DEF Incoming
    <3>2. q[i].handle \in Nat
      BY <3>1 DEF RequestMsgs
    <3> QED BY <1>2, <3>1, <3>2
  <2> QED BY <1>1, <2>1, IncomingLater
<1>7. m <= k.sent + 1
  BY <1>2, BoundsAssumption DEF Clients
<1>8. (s.pc = "draining") = FALSE
  OBVIOUS
<1> QED BY <1>1, <1>5, <1>6, <1>7, <1>8 DEF Balanced

\* The head and the tail of what starts with x.
LEMMA ConsIs ==
    ASSUME NEW S, NEW x \in S, NEW t \in Seq(S), NEW q, q = <<x>> \o t
    PROVE  Head(q) = x /\ Tail(q) = t
<1>1. PICK m \in Nat : m = Len(t)
  OBVIOUS
<1>2. <<x>> \in Seq(S) /\ Len(<<x>>) = 1 /\ <<x>>[1] = x
  OBVIOUS
<1>3. q \in Seq(S) /\ Len(q) = m + 1 /\ q[1] = x /\ \A i \in 1..m : q[i + 1] = t[i]
  BY <1>1, <1>2
<1>4. q # <<>>
  BY <1>3
<1>5. Tail(q) \in Seq(S) /\ Len(Tail(q)) = m /\ \A i \in 1..m : Tail(q)[i] = t[i]
  BY <1>3, <1>4, HeadTailProperties
<1> QED BY <1>1, <1>3, <1>4, <1>5

\* What a session does is in step with its client.
LEMMA ServeTalks ==
    ASSUME SharedInv, NbdInv, NbdReadsInv, TalkInv, NEW c \in NbdClients, Serve(c)
    PROVE  Talk(session'[c], client'[c], to_server'[c], to_client'[c])
<1>1. PICK s \in Sessions, k \in Clients, q \in Seq(ToServer), p \in Seq(ToClient) :
         s = session[c] /\ k = client[c] /\ q = to_server[c] /\ p = to_client[c]
  BY DEF NbdInv
<1>2. PICK s2, k2, q2, p2 :
         s2 = session'[c] /\ k2 = client'[c] /\ q2 = to_server'[c] /\ p2 = to_client'[c]
  OBVIOUS
<1>3. k2 = k
  <2>1. client' = client
    BY DEF Serve, Handshake, ReceiveFlags, NegotiateOption, ReceiveRequest, Drain, ReplyRead, Bail,
       SocketFails
  <2> QED BY <1>1, <1>2, <2>1
<1>4. Talk(s, k, q, p)
  BY <1>1 DEF TalkInv
<1> SUFFICES ASSUME k.pc # "gone" PROVE Talk(s2, k, q2, p2)
  BY <1>2, <1>3 DEF Talk
<1>5. Greeting(s, k, q, p) \/ Negotiating(s, k, q, p) \/ Serving(s, k, q, p)
  BY <1>4 DEF Talk
<1>6. /\ "closed" \in SessionPcs /\ "bailed" \in SessionPcs /\ "transmission" \in SessionPcs
      /\ "options" \in SessionPcs /\ "flags" \in SessionPcs
      /\ "reading" \in SessionPcs /\ "draining" \in SessionPcs
  BY DEF SessionPcs
<1>7. ASSUME NEW pc \in SessionPcs, Goto(c, pc)
      PROVE  s2.pc = pc /\ s2.no_zeroes = (s.no_zeroes /\ pc = "options")
  BY <1>1, <1>2, <1>7, GotoIs
<1>8. ASSUME NEW msgs \in Seq(ToClient), Send(c, msgs) PROVE p2 = p \o msgs
  BY <1>1, <1>2, <1>8, SendIs
<1>9. ASSUME Arrived(c), Consume(c) PROVE q # <<>> /\ q2 = Tail(q) /\ First(c) = Head(q)
  BY <1>1, <1>2, <1>9, ConsumeIs DEF Arrived, First
<1>10. s.pc = "start" => Greeting(s, k, q, p)
  BY <1>5 DEF Negotiating, Serving, After
<1>11. s.pc = "flags" /\ q # <<>> => Negotiating(s, k, q, p)
  BY <1>5 DEF Greeting, Serving
<1>12. s.pc = "options" /\ q # <<>> => Negotiating(s, k, q, p)
  BY <1>5 DEF Greeting, Serving
<1>13. s.pc \in {"reading", "draining"} \/ (s.pc = "transmission" /\ q # <<>>)
          => Serving(s, k, q, p)
  <2>1. q = <<>> \/ s.pc # After(k.option) \/ k.option = "none" \/ ~ Negotiating(s, k, q, p)
          \/ s.pc = "flags" \/ s.pc = "options"
    BY DEF Negotiating
  <2>2. Negotiating(s, k, q, p) => s.pc \in {"flags", "options", After(k.option)}
    BY DEF Negotiating
  <2>3. After(k.option) \in {"transmission", "options"}
    BY DEF After
  <2>4. Negotiating(s, k, q, p) /\ q # <<>> => s.pc \in {"flags", "options"}
    BY DEF Negotiating
  <2> QED BY <1>5, <2>2, <2>3, <2>4 DEF Greeting
<1>14. CASE Handshake(c)
  <2>1. /\ s.pc = "start" /\ Goto(c, "flags") /\ Send(c, <<Msg("greeting")>>) /\ q2 = q
    BY <1>1, <1>2, <1>14 DEF Handshake
  <2>2. Greeting(s, k, q, p) /\ s2.pc = "flags" /\ p2 = p \o <<Msg("greeting")>>
    BY <1>6, <1>7, <1>8, <1>10, <2>1, MessagesAre
  <2>3. p = <<>>
    BY <2>1, <2>2 DEF Greeting
  <2>4. p2 = <<Msg("greeting")>>
    <3> PICK msg : msg = Msg("greeting")
      OBVIOUS
    <3> QED BY <2>2, <2>3
  <2> QED BY <2>1, <2>2, <2>4 DEF Greeting, Talk
<1>15. CASE ReceiveFlags(c)
  <2>1. /\ s.pc = "flags" /\ q # <<>> /\ q2 = Tail(q) /\ First(c) = Head(q) /\ p2 = p
        /\ session' = [session EXCEPT ![c].pc = "options", ![c].no_zeroes = First(c).no_zeroes]
    BY <1>1, <1>2, <1>9, <1>15 DEF ReceiveFlags
  <2>2. Negotiating(s, k, q, p)
    BY <1>11, <2>1
  <2>3. PICK flags : flags = [kind |-> "flags", no_zeroes |-> k.no_zeroes]
    OBVIOUS
  <2>4. q = <<flags>> \o Asked(k.option) /\ p = <<>>
    BY <2>1, <2>2, <2>3 DEF Negotiating, After
  <2>5. Head(q) = flags /\ Tail(q) = Asked(k.option)
    <3>1. PICK option : option = [kind |-> "option", option |-> k.option]
      OBVIOUS
    <3>2. Asked(k.option) \in Seq({flags, option})
      <4>1. <<>> \in Seq({flags, option}) /\ <<option>> \in Seq({flags, option})
        OBVIOUS
      <4> QED BY <3>1, <4>1 DEF Asked
    <3> QED BY <2>4, <3>2, ConsIs
  <2>6. s2.pc = "options" /\ s2.no_zeroes = k.no_zeroes
    <3>1. PICK z : z = First(c).no_zeroes /\ z = k.no_zeroes
      BY <2>1, <2>3, <2>5
    <3>2. session' = [session EXCEPT ![c].pc = "options", ![c].no_zeroes = z]
      BY <2>1, <3>1
    <3> QED BY <1>2, <3>1, <3>2 DEF NbdInv, Sessions
  <2>7. Negotiating(s2, k, q2, p2)
    BY <2>1, <2>2, <2>4, <2>5, <2>6 DEF Negotiating
  <2> QED BY <2>7 DEF Talk
<1>16. CASE NegotiateOption(c)
  <2>1. s.pc = "options" /\ q # <<>> /\ q2 = Tail(q) /\ First(c) = Head(q)
    BY <1>1, <1>9, <1>16 DEF NegotiateOption
  <2>2. Negotiating(s, k, q, p)
    BY <1>12, <2>1
  <2>3. s.no_zeroes = k.no_zeroes /\ p = <<>> /\ q = Asked(k.option)
    BY <2>1, <2>2 DEF Negotiating
  <2>4. PICK option \in {"export_name", "info", "go", "other"} : option = k.option
    BY <2>1, <2>3 DEF Asked, Clients
  <2>5. PICK msg : msg = [kind |-> "option", option |-> option]
    OBVIOUS
  <2>6. q = <<msg>> /\ First(c).option = option /\ q2 = <<>>
    <3>1. q = <<msg>>
      BY <2>3, <2>4, <2>5 DEF Asked
    <3>2. Head(q) = msg /\ Tail(q) = <<>>
      BY <3>1
    <3> QED BY <2>1, <2>5, <3>1, <3>2
  <2>7. \/ option = "export_name" /\ Goto(c, "transmission") /\ Send(c, Export(c))
        \/ /\ option = "go" /\ Goto(c, "transmission")
           /\ Send(c, <<Msg("info"), Msg("ack")>>)
        \/ /\ option = "info" /\ Goto(c, "options")
           /\ Send(c, <<Msg("info"), Msg("ack")>>)
        \/ option = "other" /\ UNCHANGED session /\ Send(c, <<Msg("unsupported")>>)
    BY <1>16, <2>4, <2>6 DEF NegotiateOption
  <2>8. \A msgs \in Seq(ToClient) : p \o msgs = msgs
    BY <2>3
  <2>9. Replies(option, k.no_zeroes) \in Seq(ToClient)
    BY MessagesAre DEF Replies
  <2>10. Send(c, Replies(option, k.no_zeroes))
    <3>1. Export(c) = IF k.no_zeroes THEN <<Msg("export")>>
                      ELSE <<Msg("export"), Msg("124 zeroes")>>
      BY <1>1, <2>3 DEF Export
    <3> QED BY <2>7, <3>1 DEF Replies
  <2>11. p2 = Replies(option, k.no_zeroes)
    BY <1>8, <2>8, <2>9, <2>10
  <2>12. s2.pc = After(option) /\ (s2.pc = "options" => s2.no_zeroes = k.no_zeroes)
    <3>1. CASE UNCHANGED session /\ option = "other"
      BY <1>1, <1>2, <2>1, <2>3, <3>1 DEF After
    <3>2. CASE Goto(c, "transmission") /\ option \in {"export_name", "go"}
      BY <1>6, <1>7, <3>2 DEF After
    <3>3. CASE Goto(c, "options") /\ option = "info"
      BY <1>6, <1>7, <2>3, <3>3 DEF After, Clients
    <3> QED BY <2>7, <3>1, <3>2, <3>3
  <2>13. Negotiating(s2, k, q2, p2)
    BY <2>2, <2>4, <2>6, <2>11, <2>12 DEF Negotiating
  <2> QED BY <2>13 DEF Talk
<1>22. ASSUME Serving(s, k, q, p), s2.pc \in {"transmission", "reading", "draining", "closed"},
              \E m \in Nat : Balanced(s2, k, q2, p2, m)
       PROVE  Talk(s2, k, q2, p2)
  <2>1. Serving(s2, k, q2, p2)
    BY <1>22 DEF Serving
  <2> QED BY <2>1 DEF Talk
<1>23. PICK w \in SUBSET RequestMsgs : w = k.waiting
  BY DEF Clients
<1>24. PICK data \in ToClient : data.kind = "data"
  <2>1. <<>> \in Seq(Nat)
    OBVIOUS
  <2>2. [kind |-> "data", bytes |-> <<>>] \in ToClient
    BY <2>1 DEF ToClient
  <2> QED BY <2>2
<1>25. Serving(s, k, q, p) => /\ Distinct(w) /\ \A r \in w : r.handle <= k.sent
  BY <1>23 DEF Serving
<1>17. CASE ReceiveRequest(c)
  <2>1. /\ s.pc = "transmission" /\ q # <<>> /\ q2 = Tail(q) /\ First(c) = Head(q)
        /\ First(c).kind = "request"
    BY <1>1, <1>9, <1>17 DEF ReceiveRequest
  <2>2. Serving(s, k, q, p)
    BY <1>13, <2>1
  <2>3. PICK n \in Nat : Balanced(s, k, q, p, n)
    BY <2>2 DEF Serving
  <2>4. /\ Outgoing(p, w, n, k.current) /\ Incoming(q, w, n, s.pc = "draining")
        /\ n <= k.sent + 1
    BY <1>23, <2>1, <2>3 DEF Balanced
  <2>5. (s.pc = "draining") = FALSE
    BY <2>1
  <2>6. IsRest(q2, q) /\ q[1] = Head(q) /\ q2 \in Seq(ToServer)
    BY <2>1, RestIs
  <2>7. PICK r \in w :
           /\ r = First(c) /\ n <= r.handle /\ Incoming(q2, w, n, r \in Writes)
           /\ \A i \in DOMAIN q2 : q2[i].kind # "data" => r.handle < q2[i].handle
    <3>1. Incoming(q, w, n, FALSE)
      BY <2>4, <2>5
    <3> QED BY <2>1, <2>6, <3>1, IncomingRest
  <2>8. r \in RequestMsgs /\ (r \in Writes <=> r.type = "write")
    BY DEF Writes
  <2>9. CASE Goto(c, "closed") /\ UNCHANGED to_client
    <3>1. s2.pc = "closed" /\ p2 = p
      BY <1>1, <1>2, <1>6, <1>7, <2>9
    <3>2. Balanced(s2, k, q2, p2, n)
      BY <1>23, <2>4, <3>1 DEF Balanced
    <3> QED BY <1>22, <2>2, <3>1, <3>2
  <2>10. CASE /\ session' = [session EXCEPT ![c].pc = "reading", ![c].request = First(c)]
              /\ r.type = "read" /\ UNCHANGED to_client
    <3>1. s2.pc = "reading" /\ s2.request = r /\ p2 = p
      <4>1. PICK pc \in SessionPcs, request \in RequestMsgs : pc = "reading" /\ request = r
        BY <1>6, <2>8
      <4>2. session' = [session EXCEPT ![c].pc = pc, ![c].request = request]
        BY <2>7, <2>10, <4>1
      <4>3. session'[c].pc = pc /\ session'[c].request = request
        BY <4>2 DEF NbdInv, Sessions
      <4> QED BY <1>1, <1>2, <2>10, <4>1, <4>3
    <3>2. Busy(s2, w, n, q2)
      BY <2>7, <2>10, <3>1 DEF Busy
    <3>3. (s2.pc = "draining") = (r \in Writes)
      BY <2>8, <2>10, <3>1
    <3>4. Balanced(s2, k, q2, p2, n)
      BY <1>23, <2>4, <2>7, <3>1, <3>2, <3>3 DEF Balanced
    <3> QED BY <1>22, <2>2, <3>1, <3>4
  <2>11. CASE /\ session' = [session EXCEPT ![c].pc = "draining", ![c].request = First(c)]
              /\ r.type = "write" /\ UNCHANGED to_client
    <3>1. s2.pc = "draining" /\ s2.request = r /\ p2 = p
      <4>1. PICK pc \in SessionPcs, request \in RequestMsgs : pc = "draining" /\ request = r
        BY <1>6, <2>8
      <4>2. session' = [session EXCEPT ![c].pc = pc, ![c].request = request]
        BY <2>7, <2>11, <4>1
      <4>3. session'[c].pc = pc /\ session'[c].request = request
        BY <4>2 DEF NbdInv, Sessions
      <4> QED BY <1>1, <1>2, <2>11, <4>1, <4>3
    <3>2. Busy(s2, w, n, q2)
      BY <2>7, <2>11, <3>1 DEF Busy
    <3>3. (s2.pc = "draining") = (r \in Writes)
      BY <2>8, <2>11, <3>1
    <3>4. Balanced(s2, k, q2, p2, n)
      BY <1>23, <2>4, <2>7, <3>1, <3>2, <3>3 DEF Balanced
    <3> QED BY <1>22, <2>2, <3>1, <3>4
  <2>12. CASE /\ UNCHANGED session /\ Send(c, <<Reply(First(c), "EPERM")>>)
              /\ r.type = "flush"
    <3>1. PICK x \in ToClient : x = Reply(r, "EPERM") /\ IsReplyTo(x, r)
      BY <2>8, ReplyIs DEF Errors, IsReplyTo
    <3>2. s2.pc = "transmission" /\ p2 = p \o <<x>>
      <4>1. <<x>> \in Seq(ToClient) /\ Send(c, <<x>>)
        BY <2>7, <2>12, <3>1
      <4> QED BY <1>1, <1>2, <1>8, <2>1, <2>12, <4>1
    <3>3. p2 = p \o (IF r.type = "read" THEN <<x, data>> ELSE <<x>>)
      BY <2>12, <3>2
    <3>4. Incoming(q2, w, n, FALSE)
      <4>1. (r \in Writes) = FALSE
        BY <2>8, <2>12
      <4> QED BY <2>7, <4>1
    <3>5. \E m \in Nat : Balanced(s2, k, q2, p2, m)
      BY <1>23, <1>24, <1>25, <2>2, <2>4, <2>6, <2>7, <2>12, <3>1, <3>2, <3>3, <3>4, ReplyBalances
    <3> QED BY <1>22, <2>2, <3>2, <3>5
  <2> QED BY <1>17, <2>7, <2>9, <2>10, <2>11, <2>12 DEF ReceiveRequest, Drained
<1>18. CASE Drain(c)
  <2>1. /\ s.pc = "draining" /\ q # <<>> /\ q2 = Tail(q)
        /\ Goto(c, "transmission") /\ Send(c, <<Reply(s.request, "EPERM")>>)
    BY <1>1, <1>9, <1>18 DEF Drain
  <2>2. Serving(s, k, q, p)
    BY <1>13, <2>1
  <2>3. PICK n \in Nat : Balanced(s, k, q, p, n)
    BY <2>2 DEF Serving
  <2>4. /\ Outgoing(p, w, n, k.current) /\ Incoming(q, w, n, s.pc = "draining")
        /\ Busy(s, w, n, q)
    BY <1>23, <2>1, <2>3 DEF Balanced
  <2>5. PICK r \in w : /\ r = s.request /\ n <= r.handle /\ r.type = "write"
                       /\ \A i \in DOMAIN q : q[i].kind # "data" => r.handle < q[i].handle
    BY <2>1, <2>4 DEF Busy
  <2>6. IsRest(q2, q) /\ q2 \in Seq(ToServer)
    BY <2>1, RestIs
  <2>7. Incoming(q2, w, n, FALSE)
    <3>1. PICK draining \in BOOLEAN : draining = (s.pc = "draining") /\ draining
      BY <2>1
    <3>2. q[1].kind = "data" /\ Incoming(q2, w, n, q[1] \in Writes)
      BY <2>4, <2>6, <3>1, IncomingRest
    <3>3. (q[1] \in Writes) = FALSE
      BY <3>2 DEF Writes, RequestMsgs
    <3> QED BY <3>2, <3>3
  <2>8. ASSUME NEW i \in DOMAIN q2, q2[i].kind # "data" PROVE r.handle < q2[i].handle
    <3>1. i + 1 \in DOMAIN q /\ q2[i] = q[i + 1]
      BY <2>6 DEF IsRest
    <3> QED BY <2>5, <2>8, <3>1
  <2>9. PICK x \in ToClient : x = Reply(r, "EPERM") /\ IsReplyTo(x, r)
    BY <2>5, ReplyIs DEF Errors, IsReplyTo
  <2>10. s2.pc = "transmission" /\ p2 = p \o <<x>>
    <3>1. <<x>> \in Seq(ToClient) /\ Send(c, <<x>>)
      BY <2>1, <2>5, <2>9
    <3> QED BY <1>6, <1>7, <1>8, <2>1, <3>1
  <2>11. p2 = p \o (IF r.type = "read" THEN <<x, data>> ELSE <<x>>)
    BY <2>5, <2>10
  <2>12. \E m \in Nat : Balanced(s2, k, q2, p2, m)
    BY <1>23, <1>24, <1>25, <2>2, <2>4, <2>5, <2>6, <2>7, <2>8, <2>9, <2>10, <2>11, ReplyBalances
  <2> QED BY <1>22, <2>2, <2>10, <2>12
<1>19. CASE ReplyRead(c)
  <2>1. PICK result, error, content :
           /\ result = Result(jobs[c])
           /\ error = (IF result = Failed THEN "EIO" ELSE "none")
           /\ content = Payload(s.request, result)
    OBVIOUS
  <2>2. /\ s.pc = "reading" /\ EndRead(c) /\ q2 = q
        /\ Goto(c, "transmission") /\ Send(c, <<Reply(s.request, error), content>>)
    BY <1>1, <1>2, <1>19, <2>1 DEF ReplyRead
  <2>3. Serving(s, k, q, p)
    BY <1>13, <2>2
  <2>4. PICK n \in Nat : Balanced(s, k, q, p, n)
    BY <2>3 DEF Serving
  <2>5. /\ Outgoing(p, w, n, k.current) /\ Incoming(q, w, n, s.pc = "draining")
        /\ Busy(s, w, n, q)
    BY <1>23, <2>2, <2>4 DEF Balanced
  <2>6. PICK r \in w : /\ r = s.request /\ n <= r.handle /\ r.type = "read"
                       /\ \A i \in DOMAIN q : q[i].kind # "data" => r.handle < q[i].handle
    BY <2>2, <2>5 DEF Busy
  <2>7. Incoming(q2, w, n, FALSE)
    <3>1. (s.pc = "draining") = FALSE
      BY <2>2
    <3> QED BY <2>2, <2>5, <3>1
  <2>8. content \in ToClient /\ content.kind = "data" /\ Expected(r, error, content.bytes)
    BY <1>1, <2>1, <2>2, <2>6, PayloadIs
  <2>9. PICK x \in ToClient : x = Reply(r, error) /\ IsReplyTo(x, r) /\ x.error = error
    <3>1. error \in Errors
      BY <2>1 DEF Errors
    <3> QED BY <3>1, ReplyIs DEF IsReplyTo
  <2>10. s2.pc = "transmission" /\ p2 = p \o <<x, content>>
    <3>1. <<x, content>> \in Seq(ToClient) /\ Send(c, <<x, content>>)
      BY <2>2, <2>6, <2>8, <2>9
    <3> QED BY <1>6, <1>7, <1>8, <2>2, <3>1
  <2>11. p2 = p \o (IF r.type = "read" THEN <<x, content>> ELSE <<x>>)
    BY <2>6, <2>10
  <2>12. \E m \in Nat : Balanced(s2, k, q2, p2, m)
    <3>1. Expected(r, x.error, content.bytes)
      BY <2>8, <2>9
    <3>2. /\ Outgoing(p, k.waiting, n, k.current) /\ Incoming(q2, k.waiting, n, FALSE)
          /\ Distinct(k.waiting) /\ \A y \in k.waiting : y.handle <= k.sent
          /\ r \in k.waiting /\ n <= r.handle /\ q2 \in Seq(ToServer)
          /\ \A i \in DOMAIN q2 : q2[i].kind # "data" => r.handle < q2[i].handle
      BY <1>23, <1>25, <2>2, <2>3, <2>5, <2>6, <2>7
    <3> QED BY <2>8, <2>9, <2>10, <2>11, <3>1, <3>2, ReplyBalances
  <2> QED BY <1>22, <2>3, <2>10, <2>12
<1>20. CASE Bail(c)
  <2>1. q # <<>> /\ First(c) = Head(q)
    BY <1>1, <1>9, <1>20 DEF Bail
  <2>2. CASE s.pc = "options" /\ First(c).kind # "option"
    <3>1. Negotiating(s, k, q, p)
      BY <1>12, <2>1, <2>2
    <3>2. q = Asked(k.option) /\ k.option # "none"
      BY <2>1, <2>2, <3>1 DEF Negotiating, Asked
    <3>3. Head(q).kind = "option"
      BY <3>2 DEF Asked
    <3> QED BY <2>1, <2>2, <3>3
  <2>3. CASE s.pc = "transmission" /\ First(c).kind # "request"
    <3>1. Serving(s, k, q, p)
      BY <1>13, <2>1, <2>3
    <3>2. PICK n \in Nat : Incoming(q, w, n, s.pc = "draining")
      BY <1>23, <2>3, <3>1 DEF Serving, Balanced
    <3>3. (s.pc = "draining") = FALSE
      BY <2>3
    <3>4. Incoming(q, w, n, FALSE)
      BY <3>2, <3>3
    <3>5. PICK rest \in Seq(ToServer) : IsRest(rest, q) /\ q[1] = Head(q)
      BY <2>1, RestIs
    <3>6. q[1] \in w
      BY <3>4, <3>5, IncomingRest
    <3> QED BY <2>1, <2>3, <3>5, <3>6 DEF RequestMsgs
  <2> QED BY <1>1, <1>20, <2>2, <2>3 DEF Bail
<1>21. CASE SocketFails(c)
  BY <1>1, <1>21 DEF SocketFails
<1> QED BY <1>14, <1>15, <1>16, <1>17, <1>18, <1>19, <1>20, <1>21 DEF Serve

\* A request that has been answered was before number n, and is not the one in hand.
LEMMA AnsweredBalances ==
    ASSUME NEW s, NEW k \in Clients, NEW q, NEW p, NEW n \in Nat, Balanced(s, k, q, p, n),
           NEW r \in k.waiting, r.handle < n,
           NEW k2, k2.waiting = k.waiting \ {r}, k2.sent = k.sent,
           NEW p2, Outgoing(p2, k.waiting \ {r}, n, k2.current)
    PROVE  Balanced(s, k2, q, p2, n)
<1>1. PICK w \in SUBSET RequestMsgs, draining \in BOOLEAN :
         w = k.waiting /\ draining = (s.pc = "draining")
  BY DEF Clients
<1>2. s.pc # "closed" => Incoming(q, w \ {r}, n, draining) /\ n <= k.sent + 1
  BY <1>1, IncomingWithout DEF Balanced
<1>3. s.pc \in {"reading", "draining"} => Busy(s, w \ {r}, n, q)
  <2>1. r.handle \in Nat
    BY <1>1 DEF RequestMsgs
  <2>2. \A x : n <= x.handle => x # r
    BY <2>1
  <2> QED BY <1>1, <2>2 DEF Balanced, Busy
<1> QED BY <1>1, <1>2, <1>3 DEF Balanced

\* A request that is sent is the last.
LEMMA AskedBalances ==
    ASSUME NEW s, NEW k \in Clients, NEW q \in Seq(ToServer), NEW p \in Seq(ToClient),
           NEW n \in Nat, Balanced(s, k, q, p, n), \A y \in k.waiting : y.handle <= k.sent,
           NEW r \in RequestMsgs, r.handle = k.sent + 1,
           NEW k2, k2.waiting = k.waiting \cup {r}, k2.sent = k.sent + 1, k2.current = k.current,
           NEW q2, IsMore(q2, q, r, Msg("data"), Writes)
    PROVE  Balanced(s, k2, q2, p, n)
<1>1. PICK w \in SUBSET RequestMsgs, draining \in BOOLEAN :
         w = k.waiting /\ draining = (s.pc = "draining")
  BY DEF Clients
<1>2. PICK sent \in Nat : sent = k.sent
  BY BoundsAssumption DEF Clients
<1>3. \A x \in w : x.handle \in Nat /\ x.handle < r.handle
  BY <1>1, <1>2 DEF RequestMsgs
<1>4. Outgoing(p, w \cup {r}, n, k2.current)
  BY <1>1, <1>3, OutgoingMore DEF Balanced
<1>5. ASSUME s.pc # "closed"
      PROVE  Incoming(q2, w \cup {r}, n, draining) /\ n <= k2.sent + 1
  <2>1. Incoming(q, w, n, draining) /\ n <= sent + 1
    BY <1>1, <1>2, <1>5 DEF Balanced
  <2>2. n <= r.handle
    BY <1>2, <2>1
  <2>3. Incoming(q2, w \cup {r}, n, draining)
    <3>1. IsLast(r, w, n)
      BY <1>3, <2>2 DEF IsLast
    <3> QED BY <2>1, <2>2, <3>1, IncomingMore
  <2> QED BY <1>2, <2>1, <2>3
<1>6. ASSUME s.pc \in {"reading", "draining"} PROVE Busy(s, w \cup {r}, n, q2)
  <2>1. Busy(s, w, n, q)
    BY <1>1, <1>6 DEF Balanced
  <2>2. s.request.handle < r.handle
    BY <1>3, <2>1 DEF Busy
  <2>3. ASSUME NEW i \in DOMAIN q2, q2[i].kind # "data" PROVE s.request.handle < q2[i].handle
    <3>1. PICK m \in Nat, l \in Nat :
            /\ DOMAIN q = 1..m /\ l = (IF r \in Writes THEN 2 ELSE 1)
            /\ DOMAIN q2 = 1..(m + l)
            /\ \A j \in 1..m : q2[j] = q[j]
            /\ q2[m + 1] = r /\ (r \in Writes => q2[m + 2] = Msg("data"))
      BY DEF IsMore
    <3>2. i \in 1..m \/ i = m + 1 \/ (r \in Writes /\ i = m + 2)
      BY <3>1
    <3>3. CASE i \in 1..m
      BY <2>1, <2>3, <3>1, <3>3 DEF Busy
    <3>4. CASE i = m + 1
      BY <2>2, <3>1, <3>4
    <3>5. CASE r \in Writes /\ i = m + 2
      BY <2>3, <3>1, <3>5 DEF Msg
    <3> QED BY <3>2, <3>3, <3>4, <3>5
  <2> QED BY <2>1, <2>3 DEF Busy
<1> QED BY <1>1, <1>4, <1>5, <1>6 DEF Balanced

\* Sequences of one and of two.
LEMMA PairIs ==
    ASSUME NEW x, NEW y
    PROVE  <<x>> \o <<y>> = <<x, y>> /\ <<x>> \o <<>> = <<x>>
<1>1. <<x>> \in Seq({x, y}) /\ Len(<<x>>) = 1 /\ <<x>>[1] = x
  OBVIOUS
<1>2. <<y>> \in Seq({x, y}) /\ Len(<<y>>) = 1 /\ <<y>>[1] = y
  OBVIOUS
<1>3. <<x, y>> \in Seq({x, y}) /\ Len(<<x, y>>) = 2 /\ <<x, y>>[1] = x /\ <<x, y>>[2] = y
  OBVIOUS
<1>4. PICK all : all = <<x>> \o <<y>>
  OBVIOUS
<1>5. all \in Seq({x, y}) /\ Len(all) = 2 /\ all[1] = x /\ all[2] = y
  BY <1>1, <1>2, <1>4
<1>6. all = <<x, y>>
  BY <1>3, <1>5
<1>7. <<x>> \o <<>> = <<x>>
  BY <1>1, ConcatEmptySeq
<1> QED BY <1>4, <1>6, <1>7

\* And what a client does is in step with its session.
LEMMA ClientTalks ==
    ASSUME NbdInv, TalkInv, NEW c \in NbdClients, Client(c)
    PROVE  Talk(session'[c], client'[c], to_server'[c], to_client'[c])
<1>1. PICK s \in Sessions, k \in Clients, q \in Seq(ToServer), p \in Seq(ToClient) :
         s = session[c] /\ k = client[c] /\ q = to_server[c] /\ p = to_client[c]
  BY DEF NbdInv
<1>2. PICK s2, k2, q2, p2 :
         s2 = session'[c] /\ k2 = client'[c] /\ q2 = to_server'[c] /\ p2 = to_client'[c]
  OBVIOUS
<1>3. s2 = s
  <2>1. session' = session
    BY DEF Client, Listen, SendFlags, ReceiveReplies, ReceiveReply, ReceiveData, SendOption,
       SendRequest, Misspeak, HangUp
  <2> QED BY <1>1, <1>2, <2>1
<1>4. Talk(s, k, q, p)
  BY <1>1 DEF TalkInv
<1> SUFFICES ASSUME k2.pc # "gone" PROVE Talk(s, k2, q2, p2)
  BY <1>2, <1>3 DEF Talk
<1>5. k.pc # "gone" =>
         Greeting(s, k, q, p) \/ Negotiating(s, k, q, p) \/ Serving(s, k, q, p)
  BY <1>4 DEF Talk
<1>6. ASSUME NEW n, client' = [client EXCEPT ![c] = n] PROVE k2 = n
  BY <1>1, <1>2, <1>6 DEF NbdInv
<1>7. ASSUME NEW msgs \in Seq(ToServer), Sends(c, msgs) PROVE q2 = q \o msgs
  BY <1>1, <1>2, <1>7, SendsIs
<1>8. ASSUME NEW m \in Nat, m <= Len(p), Takes(c, m) PROVE p2 = SubSeq(p, m + 1, Len(p))
  BY <1>1, <1>2, <1>8, TakesIs
<1>9. ASSUME client' = [client EXCEPT ![c] = Gone] PROVE FALSE
  BY <1>6, <1>9, GoneIs
<1>10. CASE SendFlags(c)
  <2>1. k.pc = "start" /\ p # <<>> /\ Takes(c, 1)
    BY <1>1, <1>10 DEF SendFlags
  <2>2. Greeting(s, k, q, p)
    BY <1>5, <2>1 DEF Negotiating, Serving
  <2>3. s.pc = "flags" /\ p = <<Msg("greeting")>> /\ q = <<>>
    BY <2>1, <2>2 DEF Greeting
  <2>4. p2 = <<>>
    <3>1. PICK msg : p = <<msg>> /\ Len(p) = 1
      BY <2>3
    <3>2. p2 = SubSeq(p, 2, 1)
      BY <1>8, <2>1, <3>1
    <3> QED BY <3>1, <3>2
  <2>5. PICK z \in BOOLEAN :
           /\ client' = [client EXCEPT ![c].pc = "options", ![c].no_zeroes = z]
           /\ Sends(c, <<[kind |-> "flags", no_zeroes |-> z]>>)
    BY <1>10 DEF SendFlags
  <2>6. PICK n : n = [k EXCEPT !.pc = "options", !.no_zeroes = z]
    OBVIOUS
  <2>7. client' = [client EXCEPT ![c] = n]
    BY <1>1, <2>5, <2>6
  <2>8. k2 = n
    BY <1>6, <2>7
  <2>9. /\ k2.pc = "options" /\ k2.no_zeroes = z /\ k2.option = "none" /\ k2.waiting = {}
        /\ k2.current = Nothing
    BY <2>2, <2>6, <2>8 DEF Greeting, Clients
  <2>10. PICK flags \in ToServer : flags = [kind |-> "flags", no_zeroes |-> z]
    BY DEF ToServer
  <2>11. q2 = <<flags>> \o Asked(k2.option)
    <3>1. Asked(k2.option) = <<>>
      BY <2>9 DEF Asked
    <3>2. <<flags>> \in Seq(ToServer) /\ Sends(c, <<flags>>)
      BY <2>5, <2>10
    <3>3. q2 = <<>> \o <<flags>>
      BY <1>7, <2>3, <3>2
    <3> QED BY <3>1, <3>3
  <2>12. Negotiating(s, k2, q2, p2)
    BY <2>3, <2>4, <2>9, <2>10, <2>11 DEF Negotiating
  <2> QED BY <2>12 DEF Talk
<1>11. CASE SendOption(c)
  <2>1. k.pc = "options" /\ k.option = "none" /\ p2 = p
    BY <1>1, <1>2, <1>11 DEF SendOption
  <2>2. Negotiating(s, k, q, p)
    BY <1>5, <2>1 DEF Greeting, Serving
  <2>3. PICK o \in Options :
           /\ LET asking == [client[c] EXCEPT !.options = @ + 1, !.option = o]
              IN  client' = [client EXCEPT ![c] = IF o \in {"abort", "too large"} THEN Gone ELSE asking]
           /\ Sends(c, <<[kind |-> "option", option |-> o]>>)
    BY <1>11 DEF SendOption
  <2>4. o \notin {"abort", "too large"}
    BY <1>9, <2>3
  <2>5. PICK n : n = [k EXCEPT !.options = @ + 1, !.option = o]
    OBVIOUS
  <2>6. k2 = n
    <3>1. client' = [client EXCEPT ![c] = [client[c] EXCEPT !.options = @ + 1, !.option = o]]
      BY <2>3, <2>4
    <3>2. client' = [client EXCEPT ![c] = n]
      BY <1>1, <2>5, <3>1
    <3> QED BY <1>6, <3>2
  <2>7. /\ k2.pc = "options" /\ k2.option = o /\ k2.no_zeroes = k.no_zeroes /\ k2.waiting = {}
        /\ k2.current = Nothing /\ o # "none"
    <3>1. PICK options : n = [k EXCEPT !.options = options, !.option = o]
      BY <2>5
    <3> QED BY <2>1, <2>2, <2>6, <3>1 DEF Negotiating, Clients, Options
  <2>8. PICK msg \in ToServer : msg = [kind |-> "option", option |-> o]
    BY DEF ToServer
  <2>9. Asked(k.option) = <<>> /\ Asked(k2.option) = <<msg>>
    BY <2>1, <2>7, <2>8 DEF Asked
  <2>10. q2 = q \o <<msg>>
    <3>1. <<msg>> \in Seq(ToServer)
      OBVIOUS
    <3>2. Sends(c, <<msg>>)
      BY <2>3, <2>8, Zenon
    <3> QED BY <1>7, <3>1, <3>2
  <2>11. CASE s.pc = "flags" /\ p = <<>> /\
              q = <<[kind |-> "flags", no_zeroes |-> k.no_zeroes]>> \o Asked(k.option)
    <3>1. PICK flags : flags = [kind |-> "flags", no_zeroes |-> k.no_zeroes]
      OBVIOUS
    <3>2. q = <<flags>>
      BY <2>9, <2>11, <3>1
    <3>3. q2 = <<flags>> \o Asked(k2.option)
      BY <2>9, <2>10, <3>2
    <3> QED BY <2>1, <2>7, <2>11, <3>1, <3>3 DEF Negotiating, Talk
  <2>12. CASE s.pc = "options" /\ s.no_zeroes = k.no_zeroes /\ p = <<>> /\ q = Asked(k.option)
    <3>1. q2 = Asked(k2.option)
      BY <2>9, <2>10, <2>12
    <3> QED BY <2>1, <2>7, <2>12, <3>1 DEF Negotiating, Talk
  <2> QED BY <2>1, <2>2, <2>11, <2>12 DEF Negotiating
<1>12. CASE ReceiveReplies(c)
  <2> DEFINE done == k.option \in {"export_name", "go"}
  <2>1. PICK expected : expected = Replies(k.option, k.no_zeroes)
    OBVIOUS
  <2>2. /\ k.pc = "options" /\ k.option # "none" /\ Len(p) >= Len(expected)
        /\ Takes(c, Len(expected)) /\ q2 = q
    BY <1>1, <1>2, <1>12, <2>1 DEF ReceiveReplies
  <2>3. Negotiating(s, k, q, p)
    BY <1>5, <2>2 DEF Greeting, Serving
  <2>4. k.option \in {"export_name", "info", "go", "other"} /\ k.no_zeroes \in BOOLEAN
    BY <2>2 DEF Clients
  <2>5. expected \in Seq(ToClient) /\ Len(expected) \in Nat /\ Len(expected) # 0
    <3>1. \A x, y \in ToClient : Len(<<x>>) = 1 /\ Len(<<x, y>>) = 2
      OBVIOUS
    <3>2. \A kind \in {"info", "ack", "export", "124 zeroes", "unsupported"} : Msg(kind) \in ToClient
      BY DEF ToClient
    <3>3. Len(expected) = 1 \/ Len(expected) = 2
      BY <2>1, <2>4, <3>1, <3>2 DEF Replies
    <3>4. expected \in Seq(ToClient)
      BY <2>1, <2>4, MessagesAre DEF Replies
    <3>5. PICK m \in Nat : m = Len(expected)
      BY <3>4
    <3>6. m # 0
      BY <3>3, <3>5
    <3> QED BY <3>4, <3>5, <3>6
  <2>6. p # <<>>
    BY <2>2, <2>5
  <2>7. /\ q = <<>> /\ p = expected
        /\ s.pc = After(k.option) /\ (s.pc = "options" => s.no_zeroes = k.no_zeroes)
    BY <2>1, <2>3, <2>6 DEF Negotiating
  <2>8. p2 = <<>>
    <3>1. PICK m \in Nat : m = Len(p) /\ p2 = SubSeq(p, m + 1, m)
      BY <1>8, <2>2, <2>5, <2>7
    <3> QED BY <3>1, SubSeqEmpty
  <2>9. SubSeq(p, 1, Len(expected)) = expected
    BY <2>7
  <2>10. PICK pc, o, z :
           /\ pc = (IF done THEN "transmission" ELSE k.pc)
           /\ o = (IF done THEN 0 ELSE k.options)
           /\ z = (k.no_zeroes /\ k.option \notin {"export_name", "go"})
    OBVIOUS
  <2>15. PICK n : n = [k EXCEPT !.option = "none", !.pc = pc, !.options = o, !.no_zeroes = z]
    OBVIOUS
  <2>11. k2 = n
    <3>1. client' = [client EXCEPT
                 ![c].option = "none",
                 ![c].pc = IF SubSeq(p, 1, Len(expected)) # expected THEN "confused"
                           ELSE IF done THEN "transmission" ELSE k.pc,
                 ![c].options = IF done THEN 0 ELSE k.options,
                 ![c].no_zeroes = k.no_zeroes /\ k.option \notin {"export_name", "go"}]
      BY <1>1, <1>12, <2>1, Zenon DEF ReceiveReplies
    <3>2. client' = [client EXCEPT ![c].option = "none", ![c].pc = pc, ![c].options = o,
                                   ![c].no_zeroes = z]
      BY <2>9, <2>10, <3>1, Zenon
    <3>3. client' = [client EXCEPT ![c] = n]
      <4> HIDE DEF done
      <4> QED BY <1>1, <2>15, <3>2
    <3> QED BY <1>6, <3>3
  <2>12. /\ k2.pc = pc /\ k2.option = "none" /\ k2.waiting = {} /\ k2.current = Nothing
         /\ k2.no_zeroes = z
    <3> HIDE DEF done
    <3> QED BY <2>3, <2>11, <2>15 DEF Negotiating, Clients
  <2>13. CASE ~ done
    <3>1. s.pc = "options" /\ k2.pc = "options" /\ k2.no_zeroes = k.no_zeroes
      BY <2>2, <2>4, <2>7, <2>10, <2>12, <2>13 DEF After
    <3>2. Asked(k2.option) = <<>>
      BY <2>12 DEF Asked
    <3>3. Negotiating(s, k2, q2, p2)
      BY <2>2, <2>7, <2>8, <2>12, <3>1, <3>2 DEF Negotiating
    <3> QED BY <3>3 DEF Talk
  <2>14. CASE done
    <3>1. s.pc = "transmission" /\ k2.pc = "transmission"
      BY <2>7, <2>10, <2>12, <2>14 DEF After
    <3>2. k2.sent \in Nat
      <4>1. k2.sent = k.sent
        <5> HIDE DEF done
        <5> QED BY <2>11, <2>15 DEF Clients
      <4> QED BY <4>1, BoundsAssumption DEF Clients
    <3>3. Balanced(s, k2, q2, p2, 0)
      <4>1. DOMAIN <<>> = {}
        OBVIOUS
      <4>2. Outgoing(<<>>, {}, 0, Nothing)
        BY <4>1 DEF Outgoing, Framed, Ordered
      <4>3. Incoming(<<>>, {}, 0, FALSE)
        BY <4>1 DEF Incoming, Framed, Ordered
      <4>4. (s.pc = "draining") = FALSE
        BY <3>1
      <4>5. Outgoing(p2, k2.waiting, 0, k2.current)
        BY <2>8, <2>12, <4>2
      <4>6. Incoming(q2, k2.waiting, 0, s.pc = "draining")
        BY <2>2, <2>7, <2>12, <4>3, <4>4
      <4>7. 0 <= k2.sent + 1
        BY <3>2
      <4> QED BY <3>1, <4>5, <4>6, <4>7 DEF Balanced
    <3>4. Serving(s, k2, q2, p2)
      BY <2>12, <3>1, <3>3 DEF Serving, Distinct
    <3> QED BY <3>4 DEF Talk
  <2> QED BY <2>13, <2>14
<1>18. k.pc \in {"transmission", "data"} => Serving(s, k, q, p)
  BY <1>5 DEF Greeting, Negotiating
<1>19. PICK w \in SUBSET RequestMsgs : w = k.waiting
  BY DEF Clients
<1>13. CASE SendRequest(c)
  <2> DEFINE Request(x) == [kind |-> "request", handle |-> k.sent + 1,
                            type |-> x.type, offset |-> x.offset, length |-> x.length]
             msgs(x) == <<Request(x)>> \o (IF x.type = "write" THEN <<Msg("data")>> ELSE <<>>)
  <2>1. k.pc = "transmission" /\ p2 = p
    BY <1>1, <1>2, <1>13 DEF SendRequest
  <2>2. PICK x \in Requests :
           /\ LET asking == [client[c] EXCEPT !.sent = @ + 1, !.waiting = @ \cup {Request(x)}]
              IN  client' = [client EXCEPT ![c] = IF x.type = "disc" THEN Gone ELSE asking]
           /\ Sends(c, msgs(x))
    BY <1>1, <1>13 DEF SendRequest
  <2>3. x.type # "disc"
    BY <1>9, <2>2
  <2>4. PICK sent \in Nat : sent = k.sent
    BY BoundsAssumption DEF Clients
  <2>5. PICK r \in RequestMsgs : r = Request(x) /\ r.type = x.type /\ r.handle = sent + 1
    <3>1. Request(x) \in RequestMsgs
      BY <2>4, ExtentsAssumption DEF Requests, RequestMsgs
    <3> QED BY <2>4, <3>1
  <2>6. PICK n : n = [k EXCEPT !.sent = sent + 1, !.waiting = w \cup {r}]
    OBVIOUS
  <2>7. k2 = n
    <3>1. client' = [client EXCEPT
             ![c] = [client[c] EXCEPT !.sent = @ + 1, !.waiting = @ \cup {Request(x)}]]
      BY <2>2, <2>3
    <3>2. n = [client[c] EXCEPT !.sent = @ + 1, !.waiting = @ \cup {Request(x)}]
      <4> HIDE DEF Request
      <4> QED BY <1>1, <1>19, <2>4, <2>5, <2>6
    <3>3. client' = [client EXCEPT ![c] = n]
      <4> HIDE DEF Request
      <4> QED BY <3>1, <3>2, Zenon
    <3> QED BY <1>6, <3>3
  <2>8. /\ k2.pc = k.pc /\ k2.option = k.option /\ k2.current = k.current
        /\ k2.sent = sent + 1 /\ k2.waiting = w \cup {r}
    BY <2>6, <2>7 DEF Clients
  <2>9. PICK data \in ToServer : data = Msg("data")
    BY DEF ToServer
  <2>10. IsMore(q2, q, r, data, Writes)
    <3>1. r \in Writes <=> x.type = "write"
      BY <2>5 DEF Writes
    <3>2. r \in ToServer
      BY DEF ToServer
    <3>3. PICK sending : sending = IF r \in Writes THEN <<r, data>> ELSE <<r>>
      OBVIOUS
    <3>4. msgs(x) = sending
      BY <2>5, <2>9, <3>1, <3>3, PairIs
    <3>5. sending \in Seq(ToServer)
      BY <3>2, <3>3
    <3>6. q2 = q \o sending
      BY <1>7, <2>2, <3>4, <3>5
    <3> QED BY <3>2, <3>3, <3>6, MoreIs
  <2>11. Serving(s, k, q, p)
    BY <1>18, <2>1
  <2>12. PICK m \in Nat : Balanced(s, k, q, p, m)
    BY <2>11 DEF Serving
  <2>13. Distinct(w) /\ \A y \in w : y.handle <= sent /\ y.handle \in Nat
    BY <1>19, <2>4, <2>11 DEF Serving, RequestMsgs
  <2>14. Balanced(s, k2, q2, p2, m)
    <3>1. \A y \in k.waiting : y.handle <= k.sent
      BY <1>19, <2>4, <2>13
    <3>2. r.handle = k.sent + 1 /\ k2.sent = k.sent + 1 /\ k2.waiting = k.waiting \cup {r}
      BY <1>19, <2>4, <2>5, <2>8
    <3>3. IsMore(q2, q, r, Msg("data"), Writes)
      BY <2>9, <2>10
    <3> QED BY <2>1, <2>8, <2>12, <3>1, <3>2, <3>3, AskedBalances
  <2>15. Distinct(w \cup {r}) /\ \A y \in w \cup {r} : y.handle <= sent + 1
    BY <2>5, <2>13 DEF Distinct
  <2>16. Serving(s, k2, q2, p2)
    BY <2>8, <2>11, <2>14, <2>15 DEF Serving
  <2> QED BY <2>16 DEF Talk
<1>20. ASSUME k.pc \in {"transmission", "data"}, p # <<>>, Takes(c, 1)
       PROVE  \E m \in Nat :
                 /\ Balanced(s, k, q, p, m) /\ Outgoing(p, w, m, k.current) /\ Distinct(w)
                 /\ IsRest(p2, p) /\ p[1] = Head(p) /\ p2 \in Seq(ToClient)
  <2>1. p2 = SubSeq(p, 2, Len(p))
    BY <1>8, <1>20
  <2>2. Serving(s, k, q, p)
    BY <1>18, <1>20
  <2>3. PICK m \in Nat : Balanced(s, k, q, p, m)
    BY <2>2 DEF Serving
  <2>4. Outgoing(p, w, m, k.current) /\ Distinct(w)
    BY <1>19, <2>2, <2>3 DEF Balanced, Serving
  <2>5. IsRest(p2, p) /\ p[1] = Head(p) /\ p2 \in Seq(ToClient)
    BY <1>20, <2>1, RestIs
  <2> QED BY <2>3, <2>4, <2>5
<1>14. CASE ReceiveReply(c)
  <2>1. k.pc = "transmission" /\ p # <<>> /\ Takes(c, 1) /\ q2 = q
    BY <1>1, <1>2, <1>14 DEF ReceiveReply
  <2>2. PICK m \in Nat :
           /\ Balanced(s, k, q, p, m) /\ Outgoing(p, w, m, k.current) /\ Distinct(w)
           /\ IsRest(p2, p) /\ p[1] = Head(p) /\ p2 \in Seq(ToClient)
    BY <1>20, <2>1
  <2>3. Serving(s, k, q, p) /\ k.current = Nothing
    BY <1>18, <2>1 DEF Serving
  <2>4. /\ \E r \in w : IsReplyTo(p[1], r)
        /\ \A r \in w : IsReplyTo(p[1], r) =>
              /\ r.handle < m
              /\ r.type # "read" => Outgoing(p2, w \ {r}, m, Nothing)
              /\ r.type = "read" => Outgoing(p2, w, m, [request |-> r, error |-> p[1].error])
    BY <2>2, <2>3, OutgoingReplyRest
  <2>5. PICK reply : reply = Head(p) /\ reply = p[1]
    BY <2>2
  <2>6. PICK r \in w :
           /\ IsReplyTo(p[1], r)
           /\ client' = IF r.type = "read"
                          THEN [client EXCEPT ![c].pc = "data",
                                              ![c].current = [request |-> r, error |-> reply.error]]
                          ELSE [client EXCEPT ![c].waiting = @ \ {r}]
    <3>1. PICK mine : mine = { r \in w : reply.kind = "reply" /\ r.handle = reply.handle }
      OBVIOUS
    <3>2. mine # {} /\ \A r \in mine : r \in w /\ IsReplyTo(p[1], r)
      BY <2>4, <2>5, <3>1 DEF IsReplyTo
    <3>3. \/ mine = {} /\ client' = [client EXCEPT ![c].pc = "confused"]
          \/ \E r \in mine :
                client' = IF r.type = "read"
                            THEN [client EXCEPT ![c].pc = "data",
                                                ![c].current = [request |-> r, error |-> reply.error]]
                            ELSE [client EXCEPT ![c].waiting = @ \ {r}]
      BY <1>1, <1>14, <1>19, <2>5, <3>1 DEF ReceiveReply
    <3> QED BY <3>2, <3>3
  <2>7. CASE r.type = "read"
    <3>1. PICK current : current = [request |-> r, error |-> reply.error]
      OBVIOUS
    <3>2. PICK n : n = [k EXCEPT !.pc = "data", !.current = current]
      OBVIOUS
    <3>3. k2 = n
      <4>1. client' = [client EXCEPT ![c].pc = "data", ![c].current = current]
        BY <2>6, <2>7, <3>1
      <4>2. client' = [client EXCEPT ![c] = n]
        BY <1>1, <3>2, <4>1
      <4> QED BY <1>6, <4>2
    <3>4. /\ k2.pc = "data" /\ k2.option = k.option /\ k2.current = current
          /\ k2.sent = k.sent /\ k2.waiting = w
      BY <1>19, <3>2, <3>3 DEF Clients
    <3>5. current # Nothing
      <4>1. DOMAIN current = {"request", "error"}
        BY <3>1
      <4>2. DOMAIN Nothing = {"kind"}
        BY DEF Nothing
      <4> QED BY <4>1, <4>2
    <3>6. Outgoing(p2, w, m, current)
      BY <2>4, <2>5, <2>6, <2>7, <3>1
    <3>7. Balanced(s, k2, q, p2, m)
      BY <1>19, <2>2, <3>4, <3>6 DEF Balanced
    <3>8. Serving(s, k2, q2, p2)
      BY <1>19, <2>1, <2>3, <3>4, <3>5, <3>7 DEF Serving
    <3> QED BY <3>8 DEF Talk
  <2>8. CASE r.type # "read"
    <3>1. PICK n : n = [k EXCEPT !.waiting = w \ {r}]
      OBVIOUS
    <3>2. k2 = n
      <4>1. client' = [client EXCEPT ![c].waiting = @ \ {r}]
        BY <2>6, <2>8
      <4>2. client' = [client EXCEPT ![c] = n]
        BY <1>1, <1>19, <3>1, <4>1
      <4> QED BY <1>6, <4>2
    <3>3. /\ k2.pc = k.pc /\ k2.option = k.option /\ k2.current = k.current
          /\ k2.sent = k.sent /\ k2.waiting = w \ {r}
      BY <3>1, <3>2 DEF Clients
    <3>4. r.handle < m /\ Outgoing(p2, w \ {r}, m, k2.current)
      BY <2>3, <2>4, <2>6, <2>8, <3>3
    <3>5. Balanced(s, k2, q, p2, m)
      BY <1>19, <2>2, <3>3, <3>4, AnsweredBalances
    <3>6. Distinct(w \ {r}) /\ \A y \in w \ {r} : y.handle <= k2.sent
      BY <1>19, <2>2, <2>3, <3>3 DEF Serving, Distinct
    <3>7. Serving(s, k2, q2, p2)
      BY <2>1, <2>3, <3>3, <3>5, <3>6 DEF Serving
    <3> QED BY <3>7 DEF Talk
  <2> QED BY <2>7, <2>8
<1>15. CASE ReceiveData(c)
  <2>1. k.pc = "data" /\ p # <<>> /\ Takes(c, 1) /\ q2 = q
    BY <1>1, <1>2, <1>15 DEF ReceiveData
  <2>2. PICK m \in Nat :
           /\ Balanced(s, k, q, p, m) /\ Outgoing(p, w, m, k.current) /\ Distinct(w)
           /\ IsRest(p2, p) /\ p[1] = Head(p) /\ p2 \in Seq(ToClient)
    BY <1>20, <2>1
  <2>3. Serving(s, k, q, p) /\ k.current # Nothing
    BY <1>18, <2>1 DEF Serving
  <2>4. PICK r \in w : r = k.current.request
    BY <2>2, <2>3 DEF Outgoing
  <2>5. /\ p[1].kind = "data" /\ Expected(r, k.current.error, p[1].bytes)
        /\ r.handle < m /\ Outgoing(p2, w \ {r}, m, Nothing)
    <3>1. PICK current : current = k.current /\ current # Nothing /\ r = current.request
      BY <2>3, <2>4
    <3>2. Outgoing(p, w, m, current)
      BY <2>2, <3>1
    <3>3. /\ p[1].kind = "data" /\ Expected(current.request, current.error, p[1].bytes)
          /\ current.request.handle < m /\ Outgoing(p2, w \ {current.request}, m, Nothing)
      BY <2>2, <3>1, <3>2, OutgoingDataRest
    <3> QED BY <3>1, <3>3
  <2>6. PICK n : n = [k EXCEPT !.pc = "transmission", !.waiting = w \ {r}, !.current = Nothing]
    OBVIOUS
  <2>7. k2 = n
    <3>1. client' = [client EXCEPT ![c].pc = "transmission", ![c].waiting = @ \ {r},
                                   ![c].current = Nothing]
      BY <1>1, <1>15, <2>2, <2>4, <2>5 DEF ReceiveData
    <3>2. client' = [client EXCEPT ![c] = n]
      BY <1>1, <1>19, <2>6, <3>1 DEF NbdInv
    <3> QED BY <1>6, <3>2
  <2>8. /\ k2.pc = "transmission" /\ k2.option = k.option /\ k2.current = Nothing
        /\ k2.sent = k.sent /\ k2.waiting = w \ {r}
    BY <2>6, <2>7 DEF Clients
  <2>9. Balanced(s, k2, q, p2, m)
    BY <1>19, <2>2, <2>5, <2>8, AnsweredBalances
  <2>10. Distinct(w \ {r}) /\ \A y \in w \ {r} : y.handle <= k2.sent
    BY <1>19, <2>2, <2>3, <2>8 DEF Serving, Distinct
  <2>11. Serving(s, k2, q2, p2)
    BY <2>1, <2>3, <2>8, <2>9, <2>10 DEF Serving
  <2> QED BY <2>11 DEF Talk
<1>16. CASE Misspeak(c)
  BY <1>9, <1>16 DEF Misspeak
<1>17. CASE HangUp(c)
  BY <1>9, <1>17 DEF HangUp
<1> QED BY <1>10, <1>11, <1>12, <1>13, <1>14, <1>15, <1>16, <1>17 DEF Client, Listen

\* A step of a connection leaves the others alone.
LEMMA OthersKeep ==
    ASSUME NbdInv, NEW c \in NbdClients, Serve(c) \/ Client(c), NEW d \in NbdClients, d # c
    PROVE  /\ session'[d] = session[d] /\ client'[d] = client[d]
           /\ to_server'[d] = to_server[d] /\ to_client'[d] = to_client[d]
<1>1. /\ session \in [NbdClients -> Sessions] /\ client \in [NbdClients -> Clients]
      /\ to_server \in [NbdClients -> Seq(ToServer)] /\ to_client \in [NbdClients -> Seq(ToClient)]
  BY DEF NbdInv
<1>2. ASSUME NEW n, session' = [session EXCEPT ![c] = n] PROVE session'[d] = session[d]
  BY <1>1, <1>2
<1>3. ASSUME NEW n, client' = [client EXCEPT ![c] = n] PROVE client'[d] = client[d]
  BY <1>1, <1>3
<1>4. ASSUME NEW n, to_server' = [to_server EXCEPT ![c] = n] PROVE to_server'[d] = to_server[d]
  BY <1>1, <1>4
<1>5. ASSUME NEW n, to_client' = [to_client EXCEPT ![c] = n] PROVE to_client'[d] = to_client[d]
  BY <1>1, <1>5
<1>6. ASSUME NEW pc, Goto(c, pc) PROVE session'[d] = session[d]
  BY <1>1, <1>6 DEF Goto
<1>7. Consume(c) => to_server'[d] = to_server[d]
  BY <1>4 DEF Consume
<1>8. ASSUME NEW msgs, Send(c, msgs) PROVE to_client'[d] = to_client[d]
  BY <1>5, <1>8 DEF Send
<1>9. ASSUME NEW msgs, Sends(c, msgs) PROVE to_server'[d] = to_server[d]
  BY <1>4, <1>9 DEF Sends
<1>10. ASSUME NEW n, Takes(c, n) PROVE to_client'[d] = to_client[d]
  BY <1>5, <1>10 DEF Takes
<1>11. CASE Serve(c)
  <2>1. CASE Handshake(c)
    BY <1>6, <1>8, <2>1 DEF Handshake
  <2>2. CASE ReceiveFlags(c)
    BY <1>1, <1>7, <2>2 DEF ReceiveFlags
  <2>3. CASE NegotiateOption(c)
    BY <1>6, <1>7, <1>8, <2>3 DEF NegotiateOption
  <2>4. CASE ReceiveRequest(c)
    <3>1. Consume(c) /\ UNCHANGED client
      BY <2>4 DEF ReceiveRequest
    <3>2. \/ Goto(c, "closed") \/ UNCHANGED session
          \/ \E pc \in {"reading", "draining"} :
                session' = [session EXCEPT ![c].pc = pc, ![c].request = First(c)]
      BY <2>4 DEF ReceiveRequest
    <3>3. UNCHANGED to_client \/ Send(c, <<Reply(First(c), "EPERM")>>)
      BY <2>4 DEF ReceiveRequest
    <3>4. session'[d] = session[d]
      BY <1>1, <1>6, <3>2
    <3> QED BY <1>7, <1>8, <3>1, <3>3, <3>4
  <2>5. CASE Drain(c)
    BY <1>6, <1>7, <1>8, <2>5 DEF Drain
  <2>6. CASE ReplyRead(c)
    BY <1>6, <1>8, <2>6 DEF ReplyRead
  <2>7. CASE Bail(c)
    BY <1>6, <1>7, <2>7 DEF Bail
  <2>8. CASE SocketFails(c)
    BY <1>4, <1>5, <1>6, <2>8 DEF SocketFails
  <2> QED BY <1>11, <2>1, <2>2, <2>3, <2>4, <2>5, <2>6, <2>7, <2>8 DEF Serve
<1>12. CASE Client(c)
  <2>1. CASE SendFlags(c)
    BY <1>1, <1>9, <1>10, <2>1 DEF SendFlags
  <2>2. CASE ReceiveReplies(c)
    BY <1>1, <1>10, <2>2 DEF ReceiveReplies
  <2>3. CASE ReceiveReply(c)
    BY <1>1, <1>10, <2>3 DEF ReceiveReply
  <2>4. CASE ReceiveData(c)
    BY <1>1, <1>10, <2>4 DEF ReceiveData
  <2>5. CASE SendOption(c)
    BY <1>3, <1>9, <2>5 DEF SendOption
  <2>6. CASE SendRequest(c)
    BY <1>3, <1>9, <2>6 DEF SendRequest
  <2>7. CASE Misspeak(c)
    BY <1>3, <1>9, <2>7 DEF Misspeak
  <2>8. CASE HangUp(c)
    BY <1>3, <1>4, <1>5, <2>8 DEF HangUp
  <2> QED BY <1>12, <2>1, <2>2, <2>3, <2>4, <2>5, <2>6, <2>7, <2>8 DEF Client, Listen
<1> QED BY <1>11, <1>12

\* So both sides stay in step.
LEMMA TalkKeeps ==
    ASSUME SharedInv, NbdInv, NbdReadsInv, TalkInv, NEW c \in NbdClients, Serve(c) \/ Client(c)
    PROVE  TalkInv'
<1>1. ASSUME NEW d \in NbdClients
      PROVE  Talk(session'[d], client'[d], to_server'[d], to_client'[d])
  <2>1. CASE d = c
    BY <2>1, ServeTalks, ClientTalks
  <2>2. CASE d # c
    <3>1. Talk(session[d], client[d], to_server[d], to_client[d])
      BY DEF TalkInv
    <3> QED BY <2>2, <3>1, OthersKeep
  <2> QED BY <2>1, <2>2
<1> QED BY <1>1 DEF TalkInv

\* Whatever changes nothing of the connections keeps them so, too.
LEMMA TalkSame ==
    ASSUME TalkInv, UNCHANGED nbdVars
    PROVE  TalkInv'
BY DEF TalkInv, nbdVars

\* They are in step at the start.
LEMMA TalkInit == NbdInit => TalkInv
<1> SUFFICES ASSUME NbdInit, NEW c \in NbdClients
             PROVE  Talk(session[c], client[c], to_server[c], to_client[c])
  BY DEF TalkInv
<1>1. PICK k : k = Gone
  OBVIOUS
<1>2. k = [pc |-> "gone", no_zeroes |-> FALSE, options |-> 0, option |-> "none",
           sent |-> 0, waiting |-> {}, current |-> Nothing]
  BY <1>1 DEF Gone
<1>3. PICK there : there = [k EXCEPT !.pc = "start"]
  OBVIOUS
<1>4. /\ there.pc = "start" /\ there.option = "none" /\ there.waiting = {}
      /\ there.current = Nothing
  BY <1>2, <1>3
<1>5. client[c] = there
  BY <1>1, <1>3 DEF NbdInit
<1>6. session[c].pc = "start" /\ to_server[c] = <<>> /\ to_client[c] = <<>>
  BY DEF NbdInit
<1> QED BY <1>4, <1>5, <1>6 DEF Talk, Greeting

\* And this is to be in sync.
LEMMA TalkInSync == TalkInv => InSync
<1> SUFFICES ASSUME TalkInv, NEW c \in NbdClients
             PROVE  client[c].pc # "confused" /\ (session[c].pc = "bailed" => client[c].pc = "gone")
  BY DEF InSync
<1>1. Talk(session[c], client[c], to_server[c], to_client[c])
  BY DEF TalkInv
<1> QED BY <1>1 DEF Talk, Greeting, Negotiating, Serving, After

-----------------------------------------------------------------------------
(* The servers.                                                             *)

Inv == /\ SharedInv /\ NbdInv /\ NbdReadsInv /\ TalkInv /\ HttpInv
       /\ DOMAIN jobs \subseteq Readers

\* The reads of every client but one are the same; its own may have come or gone.
LEMMA ReadersKeep ==
    ASSUME DOMAIN jobs \subseteq Readers, NEW c \in Readers, \A d : d # c => SameRead(d)
    PROVE  DOMAIN jobs' \subseteq Readers
BY DEF SameRead

LEMMA InitInv == Init => Inv
<1> SUFFICES ASSUME Init PROVE Inv
  OBVIOUS
<1>1. SharedInv /\ DOMAIN jobs = {}
  BY CapacityAssumption DEF Init, SharedInit, SharedInv, PrefetchInv, AtRest, ReadsInv, CacheInv,
     IsCache
<1>2. NbdInv /\ NbdReadsInv
  <2> DEFINE new == [pc |-> "start", no_zeroes |-> FALSE, request |-> Nothing]
             there == [Gone EXCEPT !.pc = "start"]
  <2>1. new \in Sessions /\ new.pc = "start"
    BY DEF Sessions, SessionPcs
  <2>2. there \in Clients /\ there.pc = "start"
    <3>1. PICK k : k = Gone
      OBVIOUS
    <3>2. k = [pc |-> "gone", no_zeroes |-> FALSE, options |-> 0, option |-> "none",
               sent |-> 0, waiting |-> {}, current |-> Nothing]
      BY <3>1 DEF Gone
    <3>3. PICK x : x = [k EXCEPT !.pc = "start"]
      OBVIOUS
    <3>4. x = [pc |-> "start", no_zeroes |-> FALSE, options |-> 0, option |-> "none",
               sent |-> 0, waiting |-> {}, current |-> Nothing]
      BY <3>2, <3>3
    <3>5. x \in Clients /\ x.pc = "start"
      BY <3>4, BoundsAssumption DEF Clients
    <3> QED BY <3>1, <3>3, <3>5
  <2>3. /\ session = [c \in NbdClients |-> new] /\ client = [c \in NbdClients |-> there]
        /\ to_server = [c \in NbdClients |-> <<>>] /\ to_client = [c \in NbdClients |-> <<>>]
    BY DEF Init, NbdInit
  <2> HIDE DEF new, there
  <2>4. NbdInv
    BY <2>1, <2>2, <2>3 DEF NbdInv, Early
  <2> QED BY <1>1, <2>1, <2>3, <2>4 DEF NbdReadsInv
<1>3. HttpInv
  <2>1. Idle \in HttpRecs /\ Idle.pc = "idle" /\ Idle.status = 0
    BY DEF Idle, HttpRecs, Streams
  <2> QED BY <1>1, <2>1 DEF Init, HttpInv, Serves
<1>4. TalkInv
  BY TalkInit DEF Init
<1> QED BY <1>1, <1>2, <1>3, <1>4 DEF Inv

\* The invariant holds throughout: the spawn guard, which tests and sets the
\* flag, and the end of a prefetch, which clears it, keep the two in step; every
\* put is of an entry found before, or of a block under its own key; and what a
\* read has got is what the stream has there, whatever others do meanwhile.
THEOREM Invariance == Spec => []Inv
<1>1. Inv /\ [Next]_vars => Inv'
  <2> SUFFICES ASSUME Inv, [Next]_vars PROVE Inv'
    OBVIOUS
  <2>0. NbdClients \subseteq Readers /\ HttpClients \subseteq Readers
        /\ HttpClients \cap NbdClients = {}
    BY NbdClientsAssumption, HttpClientsAssumption
  <2>1. CASE Fetch
    <3>1. PICK r \in Readers : FetchItem(r) /\ UNCHANGED <<nbdVars, http>>
      BY <2>1 DEF Fetch
    <3>2. \A d : SameRead(d)
      BY <3>1, FetchItemAll DEF Inv
    <3>3. DOMAIN jobs' \subseteq Readers
      BY <3>2 DEF Inv, SameRead
    <3>4. SharedInv'
      BY <3>1, FetchItemKeeps DEF Inv
    <3>5. NbdInv' /\ NbdReadsInv'
      BY <3>1, <3>2, SameReadKeeps DEF Inv, NbdInv, nbdVars
    <3>6. HttpInv'
      BY <3>1, <3>2, HttpSame DEF Inv
    <3>7. TalkInv'
      BY <3>1, TalkSame DEF Inv
    <3> QED BY <3>3, <3>4, <3>5, <3>6, <3>7 DEF Inv
  <2>2. ASSUME SharedInv', UNCHANGED <<jobs, nbdVars, http>> PROVE Inv'
    <3>1. \A d : SameRead(d)
      BY <2>2 DEF SameRead
    <3>2. NbdInv' /\ NbdReadsInv'
      BY <2>2, <3>1, SameReadKeeps DEF Inv, NbdInv, nbdVars
    <3>3. HttpInv'
      BY <2>2, <3>1, HttpSame DEF Inv
    <3>4. TalkInv'
      BY <2>2, TalkSame DEF Inv
    <3> QED BY <2>2, <3>2, <3>3, <3>4 DEF Inv
  <2>3. CASE Prefetch
    <3>1. SharedInv'
      BY <2>3, WarmKeeps DEF Inv, Prefetch
    <3>2. UNCHANGED <<jobs, nbdVars, http>>
      BY <2>3 DEF Prefetch, Warm, WarmFetch, WarmInsert, WarmEnd
    <3> QED BY <2>2, <3>1, <3>2
  <2>4. CASE Nbd
    <3>1. PICK c \in NbdClients : (Serve(c) \/ Client(c)) /\ http' = http
      BY <2>4 DEF Nbd
    <3>2. SharedInv' /\ NbdReadsInv' /\ \A d : d # c => SameRead(d)
      BY <3>1, NbdKeeps DEF Inv
    <3>3. DOMAIN jobs' \subseteq Readers
      BY <2>0, <3>2, ReadersKeep DEF Inv
    <3>4. NbdInv'
      BY <3>1, ServeTypes, ClientTypes DEF Inv
    <3>5. HttpInv'
      BY <2>0, <3>1, <3>2, HttpSame DEF Inv
    <3>6. TalkInv'
      BY <3>1, TalkKeeps DEF Inv
    <3> QED BY <3>2, <3>3, <3>4, <3>5, <3>6 DEF Inv
  <2>5. CASE Http
    <3>1. PICK c \in HttpClients : Get(c) \/ Respond(c) \/ Take(c)
      BY <2>5 DEF Http
    <3>2. SharedInv' /\ HttpInv' /\ \A d : d # c => SameRead(d)
      BY <3>1, HttpKeeps DEF Inv
    <3>3. DOMAIN jobs' \subseteq Readers
      BY <2>0, <3>2, ReadersKeep DEF Inv
    <3>4. UNCHANGED nbdVars
      BY <3>1 DEF Get, Respond, Take
    <3>5. NbdInv' /\ NbdReadsInv'
      BY <2>0, <3>2, <3>4, SameReadKeeps DEF Inv, NbdInv, nbdVars
    <3>6. TalkInv'
      BY <3>4, TalkSame DEF Inv
    <3> QED BY <3>2, <3>3, <3>5, <3>6 DEF Inv
  <2>6. CASE UNCHANGED vars
    <3>1. SharedInv'
      BY <2>6, UnchangedKeeps DEF Inv, vars
    <3> QED BY <2>2, <2>6, <3>1 DEF vars, sharedVars
  <2> QED BY <2>1, <2>3, <2>4, <2>5, <2>6 DEF Next
<1> QED BY <1>1, InitInv, PTL DEF Spec

\* Whatever is read, by whom and in which order, and whatever fails: there is
\* one prefetch at a time, and the flag is set just as long as it runs.
THEOREM OnePrefetchCorrect == Spec => []OnePrefetch
<1>1. PrefetchInv => OnePrefetch
  <2>1. AtRest => OnePrefetch
    BY DEF AtRest, OnePrefetch
  <2>2. UnderWay => OnePrefetch
    BY Single DEF UnderWay, OnePrefetch
  <2> QED BY <2>1, <2>2 DEF PrefetchInv
<1> QED BY <1>1, Invariance, PTL DEF Inv, SharedInv

\* Whatever is read and prefetched, from the two streams at the same time, and
\* whatever is evicted in between: the cache answers with the block it was
\* asked for.
THEOREM CacheCorrect == Spec => []CacheTrue
<1>1. CacheInv => \A e \in Range(cache) : e \in Entries
  BY DEF CacheInv, IsCache, Range
<1>2. CacheInv => CacheTrue
  BY <1>1, EntryIsBlock DEF CacheTrue
<1> QED BY <1>2, Invariance, PTL DEF Inv, SharedInv

\* However the reads of the other clients, the prefetcher and the evictions
\* come in between: an answer 206 carries the bytes of the stream it says it
\* carries, which are bytes the client asked for.
THEOREM RangeHonouredCorrect == Spec => []RangeHonoured
<1>1. Inv => RangeHonoured
  <2> SUFFICES ASSUME Inv, NEW c \in HttpClients,
                      http[c].status = 206, size(Archive, http[c].stream) > 0
               PROVE  LET r == http[c]
                          asked == Requested(r.range, size(Archive, r.stream))
                      IN  /\ r.start = asked[1] /\ r.end <= asked[2]
                          /\ Len(r.body) = r.end - r.start + 1 /\ Len(r.body) <= MAX_CHUNK_SIZE
                          /\ r.body = SubSeq(StreamBytes[r.stream], r.start + 1, r.end + 1)
    BY DEF RangeHonoured
  <2>1. PICK r \in HttpRecs : r = http[c] /\ Serves(r, c, jobs) /\ r.status = 206
    BY DEF Inv, HttpInv
  <2>2. PICK s \in Streams, total \in Nat, range \in Ranges \cup {NoHeader} :
           s = r.stream /\ total = size(Archive, s) /\ total > 0 /\ range = r.range
    BY <2>1, IndexFacts DEF HttpRecs
  <2>3. PICK asked : asked = Requested(range, total) /\ asked # NoRange
    BY <2>1, <2>2 DEF Serves, Asks
  <2>4. PICK last : /\ last = LastByte(asked[1], asked[2], total)
                    /\ r.start = asked[1] /\ r.end = last
    BY <2>1, <2>2, <2>3 DEF Serves, Asks
  <2>5. PICK a \in Nat, b \in Nat :
           /\ a = asked[1] /\ b = asked[2] /\ a <= last /\ last <= b /\ b < total
           /\ last - a + 1 <= MAX_CHUNK_SIZE /\ last \in Nat
    <3>1. /\ asked[1] \in Nat /\ asked[2] \in Nat /\ last \in Nat
          /\ asked[1] <= last /\ last <= asked[2]
          /\ last - asked[1] + 1 <= MAX_CHUNK_SIZE
          /\ total > 0 => asked[2] < total
      BY <2>3, <2>4, RangeIs
    <3> QED BY <2>2, <3>1
  <2>6. PICK n \in Nat : n = last - a + 1
    BY <2>4, <2>5
  <2>7. Clamped(s, a, n) = n /\ Within(s, a, n) /\ a + n = last + 1
    <3>1. a + n = last + 1 /\ a + n <= total
      BY <2>4, <2>5, <2>6
    <3> QED BY <2>2, <3>1, ClampedIs DEF Within
  <2>8. r.body = SubSeq(StreamBytes[s], a + 1, a + n)
    <3>1. r.start = a /\ r.end = last /\ Length(r) = n
      BY <2>4, <2>5, <2>6 DEF Length
    <3> QED BY <2>1, <2>2, <2>7, <3>1 DEF Serves
  <2>9. Len(r.body) = n
    BY <2>7, <2>8, ReadBytes
  <2> QED BY <2>1, <2>2, <2>3, <2>4, <2>5, <2>6, <2>7, <2>8, <2>9
<1> QED BY <1>1, Invariance, PTL

\* However many requests are on their way, whatever each client asks for and
\* whatever of the archive cannot be read: client and server never take one message
\* for another, and the data of every reply is what was asked for.
THEOREM InSyncCorrect == Spec => []InSync
BY Invariance, TalkInSync, PTL DEF Inv

\* The types, which say a little more: no more entries in the cache than it may
\* hold and each key once, and a read for just the sessions and the requests
\* that read.
THEOREM TypeCorrect == Spec => []TypeOK
<1>1. ASSUME SharedInv, DOMAIN jobs \subseteq Readers PROVE SharedTypeOK
  <2>1. Len(cache) <= Capacity /\ IsInjective([i \in DOMAIN cache |-> cache[i].key])
    BY <1>1 DEF SharedInv, CacheInv, IsCache, IsInjective
  <2>2. ASSUME NEW e \in Range(cache) PROVE e.key[1] \in Streams /\ e.key[2] \in Nat
    <3>1. e \in Entries
      BY <1>1, <2>2 DEF SharedInv, CacheInv, IsCache, Range
    <3>2. PICK s \in Streams : \E k \in DOMAIN Items[s] :
             e = [key |-> CacheKey(s, Items[s][k].idx), data |-> Items[s][k].data]
      BY <3>1 DEF Entries
    <3>3. PICK k \in DOMAIN Items[s] :
             e = [key |-> CacheKey(s, Items[s][k].idx), data |-> Items[s][k].data]
      BY <3>2
    <3>4. e.key[1] = s /\ e.key[2] = Items[s][k].idx
      BY <3>3 DEF CacheKey
    <3> QED BY <3>4, IndexAssumption
  <2>3. in_flight \in BOOLEAN /\ \A t \in DOMAIN tasks : tasks[t].stream \in Streams
    <3>1. CASE AtRest
      <4>1. DOMAIN <<>> = {}
        OBVIOUS
      <4> QED BY <3>1, <4>1 DEF AtRest
    <3>2. CASE UnderWay
      BY <3>2, Single DEF UnderWay, IsTask
    <3> QED BY <1>1, <3>1, <3>2 DEF SharedInv, PrefetchInv
  <2>4. \A r \in DOMAIN jobs : DOMAIN jobs[r].got \subseteq jobs[r].items
    BY <1>1 DEF SharedInv, ReadsInv, IsRead
  <2> QED BY <1>1, <2>1, <2>2, <2>3, <2>4 DEF SharedTypeOK
<1>2. NbdInv /\ NbdReadsInv => NbdTypeOK
  <2> SUFFICES ASSUME NbdInv, NbdReadsInv, NEW c \in NbdClients
               PROVE  /\ session[c].pc \in SessionPcs
                      /\ client[c].pc \in {"start", "options", "transmission", "data", "confused",
                                           "gone"}
                      /\ client[c].options \in 0..MaxOptions /\ client[c].sent \in 0..MaxRequests
                      /\ session[c].pc = "reading" <=> c \in DOMAIN jobs
    BY DEF NbdTypeOK, SessionPcs
  <2>1. session[c] \in Sessions /\ client[c] \in Clients
    BY DEF NbdInv
  <2> QED BY <2>1 DEF Sessions, Clients, NbdReadsInv
<1>3. HttpInv => \A c \in HttpClients :
                    /\ http[c].pc \in {"idle", "reading", "answered"}
                    /\ http[c].status \in {0, 206, 416, 500}
                    /\ http[c].pc = "reading" <=> c \in DOMAIN jobs
  BY DEF HttpInv, HttpRecs, Serves
<1> QED BY <1>1, <1>2, <1>3, Invariance, PTL DEF Inv, TypeOK
=============================================================================
