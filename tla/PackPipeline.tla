---------------------------- MODULE PackPipeline ----------------------------
(***************************************************************************)
(* process_stream_parallel of ops/src/pack.rs: the pipeline that packs one *)
(* stream.  A reader thread cuts the input into chunks and sends them, with*)
(* their sequence number, over a bounded channel; worker threads compress  *)
(* and hash them and send them over a second bounded channel; the main     *)
(* thread puts them back in order and hands them to the archive writer.    *)
(* Each thread may fail, and a failure travels through the pipeline only as*)
(* the closing of a channel and as what join() returns.                    *)
(*                                                                         *)
(* A chunk is one value: its compressed form, hash, logical offset and size*)
(* travel with it unchanged.                                               *)
(***************************************************************************)
EXTENDS Naturals, Sequences, FiniteSets

CONSTANTS
    Chunk,           \* the possible chunks
    Input,           \* the chunks StreamChunker yields, in order
    NumWorkers,      \* config.num_workers, or the number of CPUs
    ChannelFactor,   \* 4 in the code: slots of each channel per worker
    Faults           \* which operations may fail

AllFaults == {"chunk_error", "reader_panic", "compress_error",
              "worker_panic", "write_error"}

ASSUME InputAssumption == Input \in Seq(Chunk)
ASSUME SizeAssumption  == /\ NumWorkers \in Nat \ {0}
                          /\ ChannelFactor \in Nat \ {0}
ASSUME FaultAssumption == Faults \subseteq AllFaults

Workers == 1..NumWorkers
ChannelSize == NumWorkers * ChannelFactor

\* (seq, RawChunk) in one channel, (seq, CompressedChunk) in the other
Item == [seq : Nat, data : Chunk]

VARIABLES
    rawQ,        \* bounded channel reader -> workers
    compQ,       \* bounded channel workers -> main
    rxOpen,      \* main still holds rx_compressed
    readerPc,    \* "next": ask the chunker, "send": blocked in send, "done"
    readerSeq,   \* the enumerate() index of the chunk in hand
    readerRes,   \* what join() of the reader returns
    workerPc,    \* per worker: "recv", "compress", "send", "done"
    hand,        \* per worker: the chunk it holds, if any
    workerRes,   \* per worker: what join() returns
    mainPc,      \* "recv", "drain", "close", "join_reader", "join_workers", "done"
    nextSeq,     \* next_seq
    reorder,     \* reorder_buf, the entries of the BTreeMap
    written,     \* the chunks write_precompressed_block accepted
    writeError,  \* write_error.is_some()
    joined,      \* workers joined so far, in the order they were spawned
    result       \* "running", or what the call returned

readerVars == <<readerPc, readerSeq, readerRes>>
workerVars == <<workerPc, hand, workerRes>>
mainVars   == <<mainPc, nextSeq, reorder, written, writeError, joined, result>>
vars == <<rawQ, compQ, rxOpen, readerVars, workerVars, mainVars>>

Init ==
    /\ rawQ = <<>> /\ compQ = <<>> /\ rxOpen = TRUE
    /\ readerPc = "next" /\ readerSeq = 0 /\ readerRes = "none"
    /\ workerPc  = [w \in Workers |-> "recv"]
    /\ hand      = [w \in Workers |-> {}]
    /\ workerRes = [w \in Workers |-> "none"]
    /\ mainPc = "recv" /\ nextSeq = 0 /\ reorder = {} /\ written = <<>>
    /\ writeError = FALSE /\ joined = 0 /\ result = "running"

\* A bounded channel accepts a message while it holds fewer than its capacity.
HasRoom_OffByOne(q) == Len(q) <= ChannelSize
HasRoom(q) == Len(q) < ChannelSize

ReaderDone == readerPc = "done"
WorkersDone == \A w \in Workers : workerPc[w] = "done"

-----------------------------------------------------------------------------
(* The reader thread.                                                      *)

ReaderReturn(res) ==
    /\ readerPc' = "done"
    /\ readerRes' = res
    /\ UNCHANGED readerSeq

\* chunker.next(): a chunk, the end of the file, or a failed read.
ReaderNext ==
    /\ readerPc = "next"
    /\ \/ /\ readerSeq < Len(Input)
          /\ readerPc' = "send"
          /\ UNCHANGED <<readerSeq, readerRes>>
       \/ readerSeq = Len(Input) /\ ReaderReturn("ok")
       \/ "chunk_error"  \in Faults /\ ReaderReturn("err")
       \/ "reader_panic" \in Faults /\ ReaderReturn("panic")
    /\ UNCHANGED <<rawQ, compQ, rxOpen, workerVars, mainVars>>

\* tx_raw.send(): blocks while the channel is full, fails once the last
\* worker has dropped its receiver.
ReaderSend ==
    /\ readerPc = "send"
    /\ \/ /\ ~WorkersDone /\ HasRoom(rawQ)
          /\ rawQ' = Append(rawQ, [seq |-> readerSeq, data |-> Input[readerSeq + 1]])
          /\ readerPc' = "next"
          /\ readerSeq' = readerSeq + 1
          /\ UNCHANGED readerRes
       \/ WorkersDone /\ ReaderReturn("ok") /\ UNCHANGED rawQ
    /\ UNCHANGED <<compQ, rxOpen, workerVars, mainVars>>

Reader == ReaderNext \/ ReaderSend

-----------------------------------------------------------------------------
(* A worker thread.                                                        *)

\* The thread ends, and whatever chunk it holds is dropped with it.
WorkerReturn(w, res) ==
    /\ workerPc' = [workerPc EXCEPT ![w] = "done"]
    /\ hand' = [hand EXCEPT ![w] = {}]
    /\ workerRes' = [workerRes EXCEPT ![w] = res]

\* rx.recv(): the oldest chunk, or the end once the reader is gone.
WorkerRecv(w) ==
    /\ workerPc[w] = "recv"
    /\ \/ /\ rawQ # <<>>
          /\ hand' = [hand EXCEPT ![w] = {Head(rawQ)}]
          /\ rawQ' = Tail(rawQ)
          /\ workerPc' = [workerPc EXCEPT ![w] = "compress"]
          /\ UNCHANGED workerRes
       \/ /\ rawQ = <<>> /\ ReaderDone
          /\ WorkerReturn(w, "ok")
          /\ UNCHANGED rawQ
    /\ UNCHANGED <<compQ, rxOpen, readerVars, mainVars>>

\* comp.compress(..)?: an error ends the thread.
WorkerCompress(w) ==
    /\ workerPc[w] = "compress"
    /\ \/ /\ workerPc' = [workerPc EXCEPT ![w] = "send"]
          /\ UNCHANGED <<hand, workerRes>>
       \/ "compress_error" \in Faults /\ WorkerReturn(w, "err")
       \/ "worker_panic" \in Faults /\ WorkerReturn(w, "panic")
    /\ UNCHANGED <<rawQ, compQ, rxOpen, readerVars, mainVars>>

\* tx.send(): blocks while the channel is full, fails once main dropped
\* rx_compressed; a failed send breaks the loop and the thread returns Ok.
WorkerSend(w) ==
    /\ workerPc[w] = "send"
    /\ \/ /\ rxOpen /\ HasRoom(compQ)
          /\ \E it \in hand[w] : compQ' = Append(compQ, it)
          /\ hand' = [hand EXCEPT ![w] = {}]
          /\ workerPc' = [workerPc EXCEPT ![w] = "recv"]
          /\ UNCHANGED workerRes
       \/ ~rxOpen /\ WorkerReturn(w, "ok") /\ UNCHANGED compQ
    /\ UNCHANGED <<rawQ, rxOpen, readerVars, mainVars>>

Worker(w) == WorkerRecv(w) \/ WorkerCompress(w) \/ WorkerSend(w)

-----------------------------------------------------------------------------
(* The calling thread.                                                     *)

\* BTreeMap::insert: an entry with the same key is replaced.
ReorderInsert_Overwrite(it) == {it}
ReorderInsert(it) == {x \in reorder : x.seq # it.seq} \cup {it}

\* Only the chunk with number next_seq may be taken out of the buffer.
IsNext_Any(it) == TRUE
IsNext(it) == it.seq = nextSeq

\* drop(rx_compressed): what is still queued is discarded, and a sender that
\* waits for room fails instead.
DropReceiver_Forgotten == UNCHANGED <<rxOpen, compQ>>
DropReceiver == rxOpen' = FALSE /\ compQ' = <<>>

\* Whether the loop over the worker handles is through.
AllJoined_OffByOne == joined >= NumWorkers - 1
AllJoined == joined = NumWorkers

\* The write error first, then the reader's; the workers' are gone.
StreamResult_NoReader == IF writeError THEN "err" ELSE "ok"
StreamResult == IF writeError \/ readerRes = "err" THEN "err" ELSE "ok"

\* One turn of `for (seq, compressed) in &rx_compressed`, or its end once
\* every worker dropped its sender.
MainRecv ==
    /\ mainPc = "recv"
    /\ \/ /\ compQ # <<>>
          /\ reorder' = ReorderInsert(Head(compQ))
          /\ compQ' = Tail(compQ)
          /\ mainPc' = "drain"
       \/ /\ compQ = <<>> /\ WorkersDone
          /\ mainPc' = "close"
          /\ UNCHANGED <<reorder, compQ>>
    /\ UNCHANGED <<rawQ, rxOpen, readerVars, workerVars,
                   nextSeq, written, writeError, joined, result>>

\* `while let Some(chunk) = reorder_buf.remove(&next_seq)`: write the next
\* chunk, stop at the first write error, or go back for more.
MainDrain ==
    /\ mainPc = "drain"
    /\ \/ \E it \in reorder :
             /\ IsNext(it)
             /\ reorder' = reorder \ {it}
             /\ \/ /\ written' = Append(written, it.data)
                   /\ nextSeq' = nextSeq + 1
                   /\ UNCHANGED <<mainPc, writeError>>
                \/ /\ "write_error" \in Faults
                   /\ writeError' = TRUE
                   /\ mainPc' = "close"
                   /\ UNCHANGED <<written, nextSeq>>
       \/ /\ \A it \in reorder : ~IsNext(it)
          /\ mainPc' = "recv"
          /\ UNCHANGED <<reorder, written, nextSeq, writeError>>
    /\ UNCHANGED <<rawQ, compQ, rxOpen, readerVars, workerVars, joined, result>>

MainClose ==
    /\ mainPc = "close"
    /\ DropReceiver
    /\ mainPc' = "join_reader"
    /\ UNCHANGED <<rawQ, readerVars, workerVars,
                   nextSeq, reorder, written, writeError, joined, result>>

MainReturn(res) == mainPc' = "done" /\ result' = res

\* reader.join(): a panic is returned at once, an error is kept for later.
MainJoinReader ==
    /\ mainPc = "join_reader"
    /\ ReaderDone
    /\ IF readerRes = "panic"
          THEN MainReturn("err")
          ELSE mainPc' = "join_workers" /\ UNCHANGED result
    /\ UNCHANGED <<rawQ, compQ, rxOpen, readerVars, workerVars,
                   nextSeq, reorder, written, writeError, joined>>

\* The workers are joined in the order they were spawned; a panic is
\* returned at once, an error is dropped by .ok().
MainJoinWorker ==
    /\ mainPc = "join_workers"
    /\ ~AllJoined
    /\ workerPc[joined + 1] = "done"
    /\ IF workerRes[joined + 1] = "panic"
          THEN MainReturn("err") /\ UNCHANGED joined
          ELSE joined' = joined + 1 /\ UNCHANGED <<mainPc, result>>
    /\ UNCHANGED <<rawQ, compQ, rxOpen, readerVars, workerVars,
                   nextSeq, reorder, written, writeError>>

MainResult ==
    /\ mainPc = "join_workers"
    /\ AllJoined
    /\ MainReturn(StreamResult)
    /\ UNCHANGED <<rawQ, compQ, rxOpen, readerVars, workerVars,
                   nextSeq, reorder, written, writeError, joined>>

Main == MainRecv \/ MainDrain \/ MainClose \/ MainJoinReader
            \/ MainJoinWorker \/ MainResult

-----------------------------------------------------------------------------
Terminated == mainPc = "done" /\ ReaderDone /\ WorkersDone

\* The only state in which nothing more may happen.
Done == Terminated /\ UNCHANGED vars

Next == Reader \/ (\E w \in Workers : Worker(w)) \/ Main \/ Done

Spec == Init /\ [][Next]_vars

\* The operating system schedules every thread, and a blocked send or recv
\* returns once it can: weak fairness of each thread.
Fairness == /\ WF_vars(Reader)
            /\ \A w \in Workers : WF_vars(Worker(w))
            /\ WF_vars(Main)

FairSpec == Spec /\ Fairness
-----------------------------------------------------------------------------
(* Properties.                                                             *)

\* The shape of the state, and the capacity of the two channels.
QueueTypes ==
    /\ rawQ \in Seq(Item) /\ Len(rawQ) <= ChannelSize
    /\ compQ \in Seq(Item) /\ Len(compQ) <= ChannelSize
    /\ rxOpen \in BOOLEAN
ReaderTypes ==
    /\ readerPc \in {"next", "send", "done"}
    /\ readerSeq \in 0..Len(Input)
    /\ readerRes \in {"none", "ok", "err", "panic"}
WorkerTypes ==
    /\ workerPc \in [Workers -> {"recv", "compress", "send", "done"}]
    /\ hand \in [Workers -> SUBSET Item]
    /\ workerRes \in [Workers -> {"none", "ok", "err", "panic"}]
MainTypes ==
    /\ mainPc \in {"recv", "drain", "close", "join_reader", "join_workers", "done"}
    /\ nextSeq \in Nat
    /\ reorder \in SUBSET Item
    /\ written \in Seq(Chunk)
    /\ writeError \in BOOLEAN
    /\ joined \in 0..NumWorkers
    /\ result \in {"running", "ok", "err"}
TypeOK == QueueTypes /\ ReaderTypes /\ WorkerTypes /\ MainTypes

\* However the workers overtake one another, the archive writer receives the
\* chunks in the order of the file: what it has is a prefix of the input.
OrderedOutput ==
    /\ Len(written) <= Len(Input)
    /\ \A i \in 1..Len(written) : written[i] = Input[i]

\* The places where the chunk with number s is.
InQueue(q, s) == {i \in DOMAIN q : q[i].seq = s}
InHand(s)     == {w \in Workers : \E it \in hand[w] : it.seq = s}
InBuffer(s)   == {it \in reorder : it.seq = s}
Copies(s)     == Cardinality(InQueue(rawQ, s)) + Cardinality(InQueue(compQ, s))
                    + Cardinality(InHand(s)) + Cardinality(InBuffer(s))
                    + (IF s < nextSeq THEN 1 ELSE 0)

FailedWorkers == {w \in Workers : workerRes[w] \in {"err", "panic"}}

\* While main receives, every chunk the reader handed over is in exactly one
\* place - a channel, a worker, the reorder buffer or the archive - except that
\* each worker that failed took at most one with it.
Accounted ==
    mainPc \in {"recv", "drain"} =>
        LET sent == {n \in 0..Len(Input) : n < readerSeq}
        IN  /\ \A s \in sent : Copies(s) <= 1
            /\ Cardinality({s \in sent : Copies(s) = 0})
                  <= Cardinality(FailedWorkers)

Panicked == readerRes = "panic" \/ \E w \in Workers : workerRes[w] = "panic"

\* Unless a thread panicked, the call returns only once every thread it
\* spawned has ended, on the error paths too: nothing reads the input or holds
\* its chunks afterwards.
JoinedBeforeReturn ==
    result # "running" /\ ~Panicked => ReaderDone /\ WorkersDone

\* What the call would return if it passed on the errors of its workers.
ReportedStatus ==
    IF result = "ok" /\ FailedWorkers # {} THEN "err" ELSE result

\* Up to the worker errors it drops, the pipeline is a sequential writer: it
\* writes the chunks in order and returns Ok only after the last one.
Ordered == INSTANCE OrderedStream WITH out <- written, status <- ReportedStatus
ImplementsOrderedStream == Ordered!Spec

\* Whatever fails, the call returns and every thread ends: no thread waits
\* forever on a channel whose other end is gone or full.
Termination == <>[]Terminated

\* The comment at the join of the workers: "Ignore worker errors if we already
\* have a write error".  A worker's error is dropped only under a write error,
\* so a call that returns Ok had no worker that failed.
WorkerErrorReported == result = "ok" => FailedWorkers = {}
=============================================================================
