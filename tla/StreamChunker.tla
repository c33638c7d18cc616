---------------------------- MODULE StreamChunker ----------------------------
(***************************************************************************)
(* The content-defined chunker of core/src/algo/dedup/cdc.rs: a buffer that *)
(* is filled from a reader, and chunks that are cut off its front.  What a   *)
(* reader returns at a time is its own business, so a chunk may be cut when  *)
(* the buffer holds less than the input still has.                           *)
(*                                                                          *)
(* A byte is its position in the input.  Where the content asks for a cut is *)
(* the set `cuts'; the rolling hash that finds these places is the fastcdc   *)
(* crate's.                                                                  *)
(***************************************************************************)
EXTENDS Integers, Sequences, FiniteSetsExt

CONSTANTS InputSizes,       \* lengths of inputs
          CutSets,          \* sets of positions where the content asks for a cut
          BufferSize,       \* 2 * max(max_size, 1 MiB)
          MinSize, MaxSize

ASSUME InputAssumption ==
    InputSizes \subseteq Nat /\ \A c \in CutSets : c \subseteq Nat
ASSUME SizeAssumption ==
    /\ BufferSize \in Nat /\ MinSize \in Nat \ {0} /\ MaxSize \in Nat
    /\ MinSize <= MaxSize /\ 2 * MaxSize <= BufferSize

VARIABLES
    size, cuts,     \* the input
    fullReads,      \* does a read return as much as there is room for?
    pos,            \* bytes the reader has handed out
    buffer, cursor, filled, eof,
    pc,             \* where next_chunk_len is
    out,            \* history: the bytes of the chunks, one after the other
    lens            \* history: the lengths of the chunks

inputVars == <<size, cuts, fullReads>>
bufferVars == <<buffer, cursor, filled, eof>>
vars == <<inputVars, pos, bufferVars, pc, out, lens>>

Least(a, b) == IF a <= b THEN a ELSE b

-----------------------------------------------------------------------------
(* Cutting.                                                                 *)

\* FastCDC on a window of w bytes after the first s: the length of its chunk.
CutLength(s, w) ==
    LET at == { k \in MinSize..w : s + k \in cuts }
    IN  IF w < MinSize \/ at = {} THEN w ELSE Min(at)

\* The lengths of the chunks of the input from position s on, were all of it
\* in the buffer.
Chunking[s \in 0..size] ==
    IF s = size THEN <<>>
    ELSE LET n == CutLength(s, Least(MaxSize, size - s)) IN <<n>> \o Chunking[s + n]

-----------------------------------------------------------------------------
(* The chunker.                                                             *)

Init ==
    /\ size \in InputSizes /\ cuts \in CutSets /\ fullReads \in BOOLEAN
    /\ pos = 0
    /\ buffer = [i \in 1..BufferSize |-> 0]
    /\ cursor = 0 /\ filled = 0 /\ eof = FALSE
    /\ pc = "idle" /\ out = <<>> /\ lens = <<>>

Available == filled - cursor

\* refill moves what is left to the front once the cursor is past the middle.
MustShift_Full == cursor >= BufferSize
MustShift == cursor > BufferSize \div 2
Shift_NoCopy ==
    IF MustShift
       THEN filled' = filled - cursor /\ cursor' = 0 /\ UNCHANGED buffer
       ELSE UNCHANGED <<buffer, cursor, filled>>
Shift ==
    IF MustShift
       THEN /\ buffer' = [i \in 1..BufferSize |->
                            IF i <= Available THEN buffer[cursor + i] ELSE buffer[i]]
            /\ filled' = filled - cursor /\ cursor' = 0
       ELSE UNCHANGED <<buffer, cursor, filled>>

\* A call when nothing is left in the buffer ...
CallDrained ==
    /\ pc = "idle" /\ cursor >= filled
    /\ IF eof THEN pc' = "end" /\ UNCHANGED <<buffer, cursor, filled>>
              ELSE pc' = "first" /\ Shift
    /\ UNCHANGED <<inputVars, pos, eof, out, lens>>

\* ... and when something is.
Call ==
    /\ pc = "idle" /\ cursor < filled
    /\ pc' = "check"
    /\ UNCHANGED <<inputVars, pos, bufferVars, out, lens>>

\* The second refill, when there is less than a chunk can take.
Check ==
    /\ pc = "check"
    /\ IF filled = 0 THEN pc' = "end" /\ UNCHANGED <<buffer, cursor, filled>>
       ELSE IF Available < MaxSize /\ ~ eof THEN pc' = "more" /\ Shift
       ELSE pc' = "cut" /\ UNCHANGED <<buffer, cursor, filled>>
    /\ UNCHANGED <<inputVars, pos, eof, out, lens>>

Refilling == pc \in {"first", "more"}
AfterRefill == IF pc = "first" THEN "check" ELSE "cut"

\* The reader's next bytes go behind the ones in the buffer; refill stops when
\* the buffer holds a chunk, counting from its start.
Receive(n) ==
    /\ buffer' = [i \in 1..BufferSize |->
                    IF filled < i /\ i <= filled + n THEN pos + i - filled ELSE buffer[i]]
    /\ filled' = filled + n /\ pos' = pos + n
    /\ pc' = IF filled + n >= MaxSize THEN AfterRefill ELSE pc

Room == Least(BufferSize - filled, size - pos)

ReadSome ==
    /\ Refilling /\ filled < BufferSize /\ ~ eof
    /\ \E n \in 1..Room : (fullReads => n = Room) /\ Receive(n)
    /\ UNCHANGED <<inputVars, cursor, eof, out, lens>>

ReadEof_Ignored ==
    /\ Refilling /\ filled < BufferSize /\ ~ eof /\ pos = size
    /\ UNCHANGED vars
ReadEof ==
    /\ Refilling /\ filled < BufferSize /\ ~ eof /\ pos = size
    /\ eof' = TRUE
    /\ UNCHANGED <<inputVars, pos, buffer, cursor, filled, pc, out, lens>>

\* An error ends the pack.
ReadFails ==
    /\ Refilling /\ filled < BufferSize /\ ~ eof
    /\ pc' = "failed"
    /\ UNCHANGED <<inputVars, pos, bufferVars, out, lens>>

RefillDone ==
    /\ Refilling /\ (filled = BufferSize \/ eof)
    /\ pc' = AfterRefill
    /\ UNCHANGED <<inputVars, pos, bufferVars, out, lens>>

\* The window FastCDC sees is what is in the buffer, a chunk at most.
Window_Unbounded == Available
Window == Least(Available, MaxSize)
NextLength_Padded == IF eof THEN MaxSize ELSE CutLength(pos - Available, Window)
NextLength == CutLength(pos - Available, Window)

Cut ==
    /\ pc = "cut"
    /\ out' = out \o SubSeq(buffer, cursor + 1, cursor + NextLength)
    /\ lens' = Append(lens, NextLength)
    /\ cursor' = cursor + NextLength
    /\ pc' = "idle"
    /\ UNCHANGED <<inputVars, pos, buffer, filled, eof>>

Stopped == pc \in {"end", "failed"} /\ UNCHANGED vars

Step ==
    \/ CallDrained \/ Call \/ Check
    \/ ReadSome \/ ReadEof \/ RefillDone
    \/ Cut
Next == Step \/ ReadFails \/ Stopped

Spec == Init /\ [][Next]_vars

\* The thread that asks for chunks goes on until there are none, and its reads
\* return.
FairSpec == Spec /\ WF_vars(Step)

-----------------------------------------------------------------------------
(* What the chunker promises.                                               *)

\* cursor <= filled <= buffer.len(), and nothing is read that is not there.
TypeOK ==
    /\ size \in InputSizes /\ cuts \in CutSets /\ fullReads \in BOOLEAN
    /\ pos \in 0..size
    /\ buffer \in [1..BufferSize -> 0..size]
    /\ filled \in 0..BufferSize /\ cursor \in 0..filled /\ eof \in BOOLEAN
    /\ pc \in {"idle", "first", "check", "more", "cut", "end", "failed"}
    /\ out \in Seq(Nat) /\ lens \in Seq(Nat)

\* The chunks, one after the other, are the input, whatever the reader
\* returned at a time and however often the buffer was shifted, and when there
\* are no more of them all of it has been handed out.
Lossless ==
    /\ \A i \in 1..Len(out) : out[i] = i
    /\ pc = "end" => Len(out) = size

\* No chunk is longer than max_size, and one is empty only when it is the last.
\* (It can be, when the input ends with a chunk of max_size.)
ChunkBounds ==
    \A i \in 1..Len(lens) :
        /\ lens[i] <= MaxSize
        /\ lens[i] = 0 => i = Len(lens) /\ Len(out) = size

\* Chunks depend on the content alone and not on how the buffer was filled, as
\* deduplication needs, if reads return as much as they have room for.  (An
\* empty chunk at the end is not one of the content's.)
CutSoFar ==
    LET n == Len(lens)
    IN  SubSeq(lens, 1, IF lens # <<>> /\ lens[n] = 0 THEN n - 1 ELSE n)
ContentDefined ==
    fullReads =>
        /\ CutSoFar = SubSeq(Chunking[0], 1, Len(CutSoFar))
        /\ pc = "end" => CutSoFar = Chunking[0]

\* The chunks come to an end.
Termination == <>(pc \in {"end", "failed"})
=============================================================================
