----------------------------- MODULE BlockIndex -----------------------------
(***************************************************************************)
(* The block index of an archive: block descriptors, index pages and the   *)
(* objects an archive file is made of (core/src/format/index/mod.rs).      *)
(*                                                                         *)
(* A chunk is the sequence of its bytes.  BLAKE3 is taken to be injective, *)
(* so a chunk is its own hash.  Every object written to the file takes one *)
(* unit of file space and an offset is the number of objects before it; a  *)
(* block has physical length 1 when it is stored and 0 when it is not.     *)
(***************************************************************************)
EXTENDS Integers, Sequences

Byte == 0..2
ZeroByte == 0

\* A byte no input contains: what a reader would get from a block it cannot
\* decrypt or that is not there.
Unreadable == 9

NoHash == << -1 >>              \* [0u8; 32], which no chunk hashes to
BLOCK_OFFSET_PARENT == -1       \* u64::MAX
PlainNonce == -1                \* a block that is not encrypted

\* BlockInfo; the CRC of a stored block is left out.
Local(offset, len, hash) ==
    [offset |-> offset, length |-> 1, logical_len |-> len, hash |-> hash]
Sparse(len) ==
    [offset |-> 0, length |-> 0, logical_len |-> len, hash |-> NoHash]
ParentRef(hash, len) ==
    [offset |-> BLOCK_OFFSET_PARENT, length |-> 0, logical_len |-> len, hash |-> hash]

is_sparse(b) == b.length = 0 /\ b.offset # BLOCK_OFFSET_PARENT
is_parent_ref(b) == b.offset = BLOCK_OFFSET_PARENT

\* The objects of an archive file.
HeaderObject == [kind |-> "header", data |-> <<>>, nonce |-> PlainNonce, blocks |-> <<>>]
BlockObject(chunk, nonce) ==
    [kind |-> "block", data |-> chunk, nonce |-> nonce, blocks |-> <<>>]
PageObject(blocks) ==
    [kind |-> "page", data |-> <<>>, nonce |-> PlainNonce, blocks |-> blocks]
IndexObject == [kind |-> "index", data |-> <<>>, nonce |-> PlainNonce, blocks |-> <<>>]

\* PageEntry
PageEntry(offset, start_block, start_logical) ==
    [offset |-> offset, start_block |-> start_block, start_logical |-> start_logical]

is_zero_chunk(chunk) == \A i \in 1..Len(chunk) : chunk[i] = ZeroByte
=============================================================================
