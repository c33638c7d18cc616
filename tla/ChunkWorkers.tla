---------------------------- MODULE ChunkWorkers ----------------------------
(***************************************************************************)
(* process_chunks_parallel of ops/src/parallel_pack.rs.  A feeder thread   *)
(* sends the chunks over a bounded channel, workers compress them and send *)
(* them over another, and the calling thread hands them to the writer in   *)
(* the order they come.  Unlike the pipeline of pack.rs it keeps a         *)
(* receiver of the first channel itself, returns at the first error        *)
(* without waiting for anybody, and passes on what its workers return.     *)
(***************************************************************************)
EXTENDS Naturals, Sequences

CONSTANTS
    NumChunks,      \* chunks.len(); a chunk is its number
    NumWorkers,     \* config.num_workers
    MaxInFlight,    \* config.max_chunks_in_flight, the slots of each channel
    Faults          \* which operations may fail

AllFaults == {"compress_error", "worker_panic", "write_error"}

ASSUME SizeAssumption == /\ NumChunks \in Nat
                         /\ NumWorkers \in Nat \ {0}
                         /\ MaxInFlight \in Nat \ {0}
ASSUME FaultAssumption == Faults \subseteq AllFaults

Chunks  == 1..NumChunks
Workers == 1..NumWorkers

VARIABLES
    rawQ, compQ,    \* the channels feeder -> workers and workers -> main
    fed,            \* chunks the feeder has sent
    feederPc,       \* "idle" before it is spawned, "send", "done"
    workerPc,       \* per worker: "idle", "recv", "compress", "send", "done"
    hand,           \* per worker: the chunk it holds, if any
    workerRes,      \* per worker: what its join() returns
    mainPc,         \* "start", "recv", "join_workers", "join_feeder", "done"
    rxOpen,         \* rx_compressed has not been dropped
    written,        \* the chunks the writer accepted
    writeError,     \* the writer returned an error
    joined,         \* workers joined so far
    result          \* "running", or what the call returned

feederVars == <<fed, feederPc>>
workerVars == <<workerPc, hand, workerRes>>
mainVars   == <<mainPc, rxOpen, written, writeError, joined, result>>
vars == <<rawQ, compQ, feederVars, workerVars, mainVars>>

Init ==
    /\ rawQ = <<>> /\ compQ = <<>>
    /\ fed = 0 /\ feederPc = "idle"
    /\ workerPc  = [w \in Workers |-> "idle"]
    /\ hand      = [w \in Workers |-> {}]
    /\ workerRes = [w \in Workers |-> "none"]
    /\ mainPc = "start" /\ rxOpen = TRUE /\ written = <<>> /\ writeError = FALSE
    /\ joined = 0 /\ result = "running"

HasRoom_OffByOne(q) == Len(q) <= MaxInFlight
HasRoom(q) == Len(q) < MaxInFlight

FeederDone  == feederPc = "done"
WorkersDone == \A w \in Workers : workerPc[w] = "done"

-----------------------------------------------------------------------------
(* The feeder.                                                             *)

\* Main's own receiver lives until the call returns, so a send can fail only
\* after that, once the workers are gone as well.
ChunksWanted_Leak == TRUE
ChunksWanted == result = "running" \/ ~WorkersDone

\* One turn of `for chunk in chunks`, or its end.
Feed ==
    /\ feederPc = "send"
    /\ \/ /\ fed < NumChunks /\ ChunksWanted /\ HasRoom(rawQ)
          /\ rawQ' = Append(rawQ, fed + 1)
          /\ fed' = fed + 1
          /\ UNCHANGED feederPc
       \/ /\ fed = NumChunks \/ ~ChunksWanted
          /\ feederPc' = "done"
          /\ UNCHANGED <<rawQ, fed>>
    /\ UNCHANGED <<compQ, workerVars, mainVars>>

-----------------------------------------------------------------------------
(* compress_worker.                                                        *)

WorkerReturn(w, res) ==
    /\ workerPc' = [workerPc EXCEPT ![w] = "done"]
    /\ hand' = [hand EXCEPT ![w] = {}]
    /\ workerRes' = [workerRes EXCEPT ![w] = res]

\* The next chunk, or the end when the feeder's sender is gone.
WorkerRecv(w) ==
    /\ workerPc[w] = "recv"
    /\ \/ /\ rawQ # <<>>
          /\ hand' = [hand EXCEPT ![w] = {Head(rawQ)}]
          /\ rawQ' = Tail(rawQ)
          /\ workerPc' = [workerPc EXCEPT ![w] = "compress"]
          /\ UNCHANGED workerRes
       \/ /\ rawQ = <<>> /\ FeederDone
          /\ WorkerReturn(w, "ok")
          /\ UNCHANGED rawQ
    /\ UNCHANGED <<compQ, feederVars, mainVars>>

WorkerCompress(w) ==
    /\ workerPc[w] = "compress"
    /\ \/ /\ workerPc' = [workerPc EXCEPT ![w] = "send"]
          /\ UNCHANGED <<hand, workerRes>>
       \/ "compress_error" \in Faults /\ WorkerReturn(w, "err")
       \/ "worker_panic"   \in Faults /\ WorkerReturn(w, "panic")
    /\ UNCHANGED <<rawQ, compQ, feederVars, mainVars>>

\* A send to a receiver that is gone is an error of the worker.
WorkerSend(w) ==
    /\ workerPc[w] = "send"
    /\ \/ /\ rxOpen /\ HasRoom(compQ)
          /\ \E c \in hand[w] : compQ' = Append(compQ, c)
          /\ hand' = [hand EXCEPT ![w] = {}]
          /\ workerPc' = [workerPc EXCEPT ![w] = "recv"]
          /\ UNCHANGED workerRes
       \/ ~rxOpen /\ WorkerReturn(w, "err") /\ UNCHANGED compQ
    /\ UNCHANGED <<rawQ, feederVars, mainVars>>

Worker(w) == WorkerRecv(w) \/ WorkerCompress(w) \/ WorkerSend(w)

-----------------------------------------------------------------------------
(* The calling thread.                                                     *)

\* Whether join()?? leaves the function.
JoinFails_OnlyPanic(w) == workerRes[w] = "panic"
JoinFails(w) == workerRes[w] # "ok"

MainReturn(res) == mainPc' = "done" /\ result' = res

\* Nothing is spawned for an empty vector.
Start ==
    /\ mainPc = "start"
    /\ IF NumChunks = 0
          THEN /\ MainReturn("ok")
               /\ workerPc' = [w \in Workers |-> "done"] /\ feederPc' = "done"
          ELSE /\ mainPc' = "recv"
               /\ workerPc' = [w \in Workers |-> "recv"] /\ feederPc' = "send"
               /\ UNCHANGED result
    /\ UNCHANGED <<rawQ, compQ, fed, hand, workerRes, rxOpen, written, writeError, joined>>

\* `for compressed in rx_compressed { writer(compressed)?; }`: the loop, and with
\* it the receiver, ends with the first error, or when every worker is gone.
MainRecv ==
    /\ mainPc = "recv"
    /\ \/ /\ compQ # <<>>
          /\ compQ' = Tail(compQ)
          /\ written' = Append(written, Head(compQ))
          /\ UNCHANGED <<mainPc, rxOpen, writeError, result>>
       \/ /\ compQ # <<>> /\ "write_error" \in Faults
          /\ writeError' = TRUE
          /\ rxOpen' = FALSE /\ compQ' = <<>>
          /\ MainReturn("err")
          /\ UNCHANGED written
       \/ /\ compQ = <<>> /\ WorkersDone
          /\ rxOpen' = FALSE
          /\ mainPc' = "join_workers"
          /\ UNCHANGED <<compQ, written, writeError, result>>
    /\ UNCHANGED <<rawQ, feederVars, workerVars, joined>>

MainJoinWorker ==
    /\ mainPc = "join_workers"
    /\ IF joined = NumWorkers
          THEN mainPc' = "join_feeder" /\ UNCHANGED <<joined, result>>
          ELSE /\ workerPc[joined + 1] = "done"
               /\ IF JoinFails(joined + 1)
                     THEN MainReturn("err") /\ UNCHANGED joined
                     ELSE joined' = joined + 1 /\ UNCHANGED <<mainPc, result>>
    /\ UNCHANGED <<rawQ, compQ, feederVars, workerVars, rxOpen, written, writeError>>

MainJoinFeeder ==
    /\ mainPc = "join_feeder"
    /\ FeederDone
    /\ MainReturn("ok")
    /\ UNCHANGED <<rawQ, compQ, feederVars, workerVars, rxOpen, written, writeError, joined>>

Main == Start \/ MainRecv \/ MainJoinWorker \/ MainJoinFeeder

-----------------------------------------------------------------------------
Terminated == mainPc = "done" /\ FeederDone /\ WorkersDone

Done == Terminated /\ UNCHANGED vars

Next == Feed \/ (\E w \in Workers : Worker(w)) \/ Main \/ Done

Spec == Init /\ [][Next]_vars

\* Weak fairness of each thread, as in PackPipeline.
Fairness == WF_vars(Feed) /\ (\A w \in Workers : WF_vars(Worker(w))) /\ WF_vars(Main)

FairSpec == Spec /\ Fairness
-----------------------------------------------------------------------------
(* Properties.                                                             *)

QueueTypes  == /\ rawQ \in Seq(Chunks) /\ Len(rawQ) <= MaxInFlight
               /\ compQ \in Seq(Chunks) /\ Len(compQ) <= MaxInFlight
FeederTypes == fed \in 0..NumChunks /\ feederPc \in {"idle", "send", "done"}
WorkerTypes == /\ workerPc \in [Workers -> {"idle", "recv", "compress", "send", "done"}]
               /\ hand \in [Workers -> SUBSET Chunks]
               /\ workerRes \in [Workers -> {"none", "ok", "err", "panic"}]
MainTypes   == /\ mainPc \in {"start", "recv", "join_workers", "join_feeder", "done"}
               /\ rxOpen \in BOOLEAN /\ written \in Seq(Chunks) /\ writeError \in BOOLEAN
               /\ joined \in 0..NumWorkers /\ result \in {"running", "ok", "err"}

\* The shape of the state, and the capacity of the two channels.
TypeOK == QueueTypes /\ FeederTypes /\ WorkerTypes /\ MainTypes

Failed == writeError \/ \E w \in Workers : workerRes[w] \in {"err", "panic"}

\* "Ok(()) on success, or Error if any worker fails": every chunk reaches the
\* writer once before Ok, and errors are returned when, and only when, the
\* writer or a worker failed, whichever thread is ahead.
Unordered == INSTANCE UnorderedStream WITH out <- written, fault <- Failed, status <- result
ImplementsUnorderedStream == Unordered!Spec

\* The call returns and every thread it spawned ends, also those it left behind
\* when it returned early, with chunks on their way in either channel.
Termination == <>[]Terminated
=============================================================================
