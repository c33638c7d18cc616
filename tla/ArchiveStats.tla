---------------------------- MODULE ArchiveStats ----------------------------
(***************************************************************************)
(* What hexz reports of archives from their index alone: inspect_archive   *)
(* of ops/src/inspect.rs and the comparison of two archives of             *)
(* cli/src/cmd/data/diff.rs.  Both read the pages of the Main stream.       *)
(*                                                                         *)
(* Compressed sizes, averages and the deltas of checkpoints are left out.  *)
(***************************************************************************)
EXTENDS PackArchive

\* The descriptors of the Main stream, in order.
MainBlocks(a) == FlattenSeq([k \in DOMAIN a.main |-> BlocksAt(a, a.main[k])])

\* The sum of the numbers of some positions.
SumOf(n, S) == MapThenSumSet(LAMBDA x : n[x], S)

\* The sum of the logical lengths of some descriptors of a sequence.
BytesOf(blocks, S) == SumOf([i \in DOMAIN blocks |-> blocks[i].logical_len], S)

\* A reference to a parent is told by its offset, before sparse blocks are
\* told by their length; what is left is stored, once for every offset.
is_zero(b) == is_sparse(b) /\ ~ is_parent_ref(b)
is_data(b) == ~ is_parent_ref(b) /\ ~ is_sparse(b)

\* BlockStats
inspect_archive(a) ==
    LET blocks == MainBlocks(a)
        data == { i \in DOMAIN blocks : is_data(blocks[i]) }
        zeros == { i \in DOMAIN blocks : is_zero(blocks[i]) }
        refs == { i \in DOMAIN blocks : is_parent_ref(blocks[i]) }
        repeated == { i \in data : \E j \in data : j < i /\ blocks[j].offset = blocks[i].offset }
    IN  [data_bytes |-> BytesOf(blocks, data),
         zero_bytes |-> BytesOf(blocks, zeros),
         parent_ref_bytes |-> BytesOf(blocks, refs),
         data_blocks |-> Cardinality(data),
         parent_ref_blocks |-> Cardinality(refs),
         unique_blocks |-> Cardinality(data \ repeated),
         dedup_bytes_saved |-> BytesOf(blocks, repeated)]

\* scan: the hashes of the stored blocks, and what refers to a parent.
hashes(a) == { b.hash : b \in { x \in Range(MainBlocks(a)) : is_data(x) /\ x.hash # NoHash } }

\* run: blocks of b that a stores too, or that b's parent has, and the others.  A
\* block is as long as its hash tells.
HashBytes(set) == SumOf([h \in set |-> Len(h)], set)
diff(a, b) ==
    [shared_data_blocks |-> Cardinality(hashes(b) \cap hashes(a)),
     shared_bytes |-> HashBytes(hashes(b) \cap hashes(a)) + inspect_archive(b).parent_ref_bytes,
     new_b_bytes |-> HashBytes(hashes(b) \ hashes(a)),
     only_a_blocks |-> Cardinality(hashes(a) \ hashes(b))]

-----------------------------------------------------------------------------
(* What the reports promise.                                                *)

\* The report of an archive covers what was packed into its Main stream, byte
\* for byte, whatever mix of stored, shared, sparse and referred blocks it became.
Covers(a) ==
    LET s == inspect_archive(a)
    IN  s.data_bytes + s.zero_bytes + s.parent_ref_bytes = Len(Bytes(a.input.main))

\* "Number of unique (non-duplicate) blocks" (ops/src/inspect.rs:36): no block is
\* stored twice unless it is encrypted, in one file or in several.
StoresOnce(a) == a.encrypted \/ inspect_archive(a).unique_blocks = Cardinality(hashes(a))

\* Over a base an archive stores nothing the base stores, and what the comparison
\* of the two calls shared and new, with what b shares with itself, is all of b.
Compares(a) ==
    a.base # 0 /\ ~ a.encrypted =>
        LET base == archives[a.base]
            d == diff(base, a)
            s == inspect_archive(a)
        IN  /\ d.shared_data_blocks = 0
            /\ d.shared_bytes + d.new_b_bytes + s.dedup_bytes_saved + s.zero_bytes
                 = Len(Bytes(a.input.main))

\* What inspect and diff report from the index alone is true of what was packed,
\* in every archive of a series in which each may be packed over an earlier one.
StatsTrue ==
    phase = "idle" => \A i \in DOMAIN archives :
        Covers(archives[i]) /\ StoresOnce(archives[i]) /\ Compares(archives[i])
=============================================================================
