-------------------------- MODULE ChunkWorkersProofs --------------------------
(***************************************************************************)
(* What holds of ChunkWorkers for every number of chunks and workers, every *)
(* channel size and every set of faults.                                   *)
(***************************************************************************)
EXTENDS ChunkWorkers, TLAPS

-----------------------------------------------------------------------------
(* Typing.                                                                 *)

\* The elements of the tail of a queue.
LEMMA TailElements ==
  ASSUME NEW S, NEW q \in Seq(S), q # <<>>
  PROVE  /\ Head(q) = q[1] /\ 1 \in 1..Len(q) /\ Head(q) \in S
         /\ Tail(q) \in Seq(S) /\ Len(Tail(q)) = Len(q) - 1
         /\ \A i \in 1..Len(Tail(q)) : i + 1 \in 1..Len(q) /\ Tail(q)[i] = q[i + 1]
  OBVIOUS

\* The elements of a queue after a send.
LEMMA AppendElements ==
  ASSUME NEW S, NEW q \in Seq(S), NEW x \in S
  PROVE  /\ Append(q, x) \in Seq(S) /\ Len(Append(q, x)) = Len(q) + 1
         /\ \A i \in 1..Len(Append(q, x)) :
               Append(q, x)[i] = IF i = Len(q) + 1 THEN x ELSE q[i]
  OBVIOUS

\* Every state has the shape TypeOK states, whatever fails.
THEOREM TypeCorrect == Spec => []TypeOK
<1>1. Init => TypeOK
  <2> SUFFICES ASSUME Init PROVE TypeOK
    OBVIOUS
  <2>1. <<>> \in Seq(Chunks) /\ Len(<<>>) <= MaxInFlight
    BY SizeAssumption
  <2>2. QueueTypes
    BY <2>1 DEF Init, QueueTypes
  <2>3. FeederTypes /\ WorkerTypes
    BY SizeAssumption DEF Init, FeederTypes, WorkerTypes
  <2>4. MainTypes
    <3>1. written \in Seq(Chunks) /\ joined \in 0..NumWorkers
      BY <2>1, SizeAssumption DEF Init
    <3>2. mainPc = "start" /\ rxOpen = TRUE /\ writeError = FALSE /\ result = "running"
      BY DEF Init
    <3>3. QED
      BY <3>1, <3>2 DEF MainTypes
  <2>5. QED
    BY <2>2, <2>3, <2>4 DEF TypeOK
<1>2. TypeOK /\ [Next]_vars => TypeOK'
  <2> SUFFICES ASSUME QueueTypes, FeederTypes, WorkerTypes, MainTypes, [Next]_vars
               PROVE  TypeOK'
    BY DEF TypeOK
  <2>1. CASE Feed
    <3>1. ASSUME fed < NumChunks, HasRoom(rawQ), rawQ' = Append(rawQ, fed + 1), fed' = fed + 1
          PROVE  /\ rawQ' \in Seq(Chunks) /\ Len(rawQ') <= MaxInFlight
                 /\ fed' \in 0..NumChunks
      BY <3>1, SizeAssumption DEF HasRoom, QueueTypes, FeederTypes, Chunks
    <3>2. QueueTypes' /\ FeederTypes'
      BY <2>1, <3>1 DEF Feed, QueueTypes, FeederTypes
    <3>3. WorkerTypes' /\ MainTypes'
      BY <2>1 DEF Feed, WorkerTypes, MainTypes, workerVars, mainVars
    <3>4. QED
      BY <3>2, <3>3 DEF TypeOK
  <2>2. ASSUME NEW w \in Workers, Worker(w)
        PROVE  TypeOK'
    <3>1. FeederTypes' /\ MainTypes'
      BY <2>2 DEF Worker, WorkerRecv, WorkerCompress, WorkerSend, FeederTypes, MainTypes,
                  feederVars, mainVars
    <3>2. QueueTypes' /\ WorkerTypes'
      <4>1. CASE WorkerRecv(w)
        <5>1. rawQ # <<>> => /\ Head(rawQ) \in Chunks /\ Tail(rawQ) \in Seq(Chunks)
                             /\ Len(Tail(rawQ)) <= MaxInFlight
          BY TailElements, SizeAssumption DEF QueueTypes
        <5>2. QueueTypes'
          BY <4>1, <5>1 DEF WorkerRecv, QueueTypes
        <5>3. WorkerTypes'
          BY <4>1, <5>1 DEF WorkerRecv, WorkerReturn, WorkerTypes
        <5>4. QED
          BY <5>2, <5>3
      <4>2. CASE WorkerCompress(w)
        BY <4>2 DEF WorkerCompress, WorkerReturn, WorkerTypes, QueueTypes
      <4>3. CASE WorkerSend(w)
        <5>1. ASSUME NEW c \in hand[w], HasRoom(compQ), compQ' = Append(compQ, c)
              PROVE  compQ' \in Seq(Chunks) /\ Len(compQ') <= MaxInFlight
          BY <5>1, SizeAssumption DEF HasRoom, QueueTypes, WorkerTypes
        <5>2. QueueTypes'
          BY <4>3, <5>1 DEF WorkerSend, QueueTypes
        <5>3. WorkerTypes'
          BY <4>3 DEF WorkerSend, WorkerReturn, WorkerTypes
        <5>4. QED
          BY <5>2, <5>3
      <4>4. QED
        BY <2>2, <4>1, <4>2, <4>3 DEF Worker
    <3>3. QED
      BY <3>1, <3>2 DEF TypeOK
  <2>3. CASE Start
    <3>1. QueueTypes' /\ FeederTypes'
      BY <2>3 DEF Start, QueueTypes, FeederTypes
    <3>2. WorkerTypes' /\ MainTypes'
      BY <2>3 DEF Start, MainReturn, WorkerTypes, MainTypes
    <3>3. QED
      BY <3>1, <3>2 DEF TypeOK
  <2>4. CASE MainRecv
    <3>1. FeederTypes' /\ WorkerTypes'
      BY <2>4 DEF MainRecv, FeederTypes, WorkerTypes, feederVars, workerVars
    <3>2. compQ # <<>> => /\ Tail(compQ) \in Seq(Chunks) /\ Len(Tail(compQ)) <= MaxInFlight
                          /\ Append(written, Head(compQ)) \in Seq(Chunks)
      BY TailElements, AppendElements, SizeAssumption DEF QueueTypes, MainTypes
    <3>3. <<>> \in Seq(Chunks) /\ Len(<<>>) <= MaxInFlight
      BY SizeAssumption
    <3>4. QueueTypes'
      BY <2>4, <3>2, <3>3 DEF MainRecv, QueueTypes
    <3>5. MainTypes'
      BY <2>4, <3>2 DEF MainRecv, MainReturn, MainTypes
    <3>6. QED
      BY <3>1, <3>4, <3>5 DEF TypeOK
  <2>5. CASE MainJoinWorker \/ MainJoinFeeder
    <3>1. QueueTypes' /\ FeederTypes' /\ WorkerTypes'
      BY <2>5 DEF MainJoinWorker, MainJoinFeeder, QueueTypes, FeederTypes, WorkerTypes,
                  feederVars, workerVars
    <3>2. MainTypes'
      BY <2>5, SizeAssumption DEF MainJoinWorker, MainJoinFeeder, MainReturn, MainTypes
    <3>3. QED
      BY <3>1, <3>2 DEF TypeOK
  <2>6. CASE UNCHANGED vars
    BY <2>6 DEF vars, feederVars, workerVars, mainVars, TypeOK, QueueTypes, FeederTypes,
                WorkerTypes, MainTypes
  <2>7. QED
    BY <2>1, <2>2, <2>3, <2>4, <2>5, <2>6 DEF Next, Main, Done
<1>3. QED
  BY <1>1, <1>2, PTL DEF Spec

-----------------------------------------------------------------------------
(* The inductive invariant.                                                *)

\* How many chunks the workers have taken from the first channel.
Taken == fed - Len(rawQ)

In(q, c) == \E i \in 1..Len(q) : q[i] = c

\* The first channel holds the last chunks fed, in order.
RawInv == /\ Len(rawQ) <= fed
          /\ \A i \in 1..Len(rawQ) : rawQ[i] = Taken + i

\* A chunk that was taken is in one place only: with one worker, in one slot of
\* the second channel, or with the writer.
HandInv == \A w \in Workers : \A c \in hand[w] :
    /\ c <= Taken /\ hand[w] = {c}
    /\ ~In(compQ, c) /\ ~In(written, c)
    /\ \A v \in Workers \ {w} : c \notin hand[v]
CompInv == \A i \in 1..Len(compQ) :
    /\ compQ[i] <= Taken /\ ~In(written, compQ[i])
    /\ \A j \in 1..Len(compQ) : compQ[j] = compQ[i] => j = i
WrittenInv == \A i \in 1..Len(written) : written[i] <= Taken

Once == RawInv /\ HandInv /\ CompInv /\ WrittenInv

\* How the control states of the threads and what they return go together while
\* the call runs.
WorkerControl == \A w \in Workers :
    /\ hand[w] # {} => workerPc[w] \in {"compress", "send"}
    /\ workerPc[w] # "done" => workerRes[w] = "none"
    /\ result = "running" /\ workerPc[w] = "done" => workerRes[w] # "none"
    /\ result = "running" /\ workerRes[w] = "ok" => FeederDone /\ rawQ = <<>>
MainControl ==
    /\ mainPc = "done" <=> result # "running"
    /\ mainPc = "start" => /\ ~Failed /\ feederPc = "idle" /\ written = <<>>
                         /\ \A w \in Workers : workerPc[w] = "idle"
    /\ writeError => result = "err"
    /\ result = "running" /\ FeederDone => fed = NumChunks
JoinInv ==
    /\ mainPc \in {"join_workers", "join_feeder"} => WorkersDone /\ compQ = <<>>
    /\ \A w \in 1..joined : workerRes[w] = "ok"
    /\ mainPc = "join_feeder" => joined = NumWorkers

Somewhere(c) == In(written, c) \/ In(compQ, c) \/ \E w \in Workers : c \in hand[w]

\* Until something fails, no chunk is lost.
NothingLost == result = "running" /\ ~Failed => \A c \in 1..Taken : Somewhere(c)

IInv == Once /\ WorkerControl /\ MainControl /\ JoinInv /\ NothingLost

Typed == QueueTypes /\ FeederTypes /\ WorkerTypes /\ MainTypes

\* Chunks are numbers.
LEMMA ChunkElements ==
  ASSUME NEW q \in Seq(Chunks), NEW i \in 1..Len(q)
  PROVE  q[i] \in Nat
<1>1. q[i] \in Chunks
  OBVIOUS
<1>2. QED
  BY <1>1 DEF Chunks

\* What a queue holds after a send, before a receive, and at its places.
LEMMA InAppend ==
  ASSUME NEW S, NEW q \in Seq(S), NEW x \in S, NEW c
  PROVE  In(Append(q, x), c) <=> In(q, c) \/ c = x
<1>1. Len(Append(q, x)) = Len(q) + 1
  OBVIOUS
<1>2. \A i \in 1..Len(q) : i \in 1..(Len(q) + 1) /\ Append(q, x)[i] = q[i]
  OBVIOUS
<1>3. Append(q, x)[Len(q) + 1] = x /\ Len(q) + 1 \in 1..(Len(q) + 1)
  OBVIOUS
<1>4. \A i \in 1..(Len(q) + 1) : i = Len(q) + 1 \/ i \in 1..Len(q)
  OBVIOUS
<1>5. QED
  BY <1>1, <1>2, <1>3, <1>4 DEF In

\* What is in a queue is its head or in its tail.
LEMMA InTail ==
  ASSUME NEW S, NEW q \in Seq(S), q # <<>>, NEW c
  PROVE  In(q, c) <=> c = Head(q) \/ In(Tail(q), c)
<1>1. \A i \in 1..Len(q) : i = 1 \/ (i - 1 \in 1..Len(Tail(q)) /\ q[i] = Tail(q)[i - 1])
  BY TailElements
<1>2. QED
  BY <1>1, TailElements DEF In

\* An element of a queue is in it.
LEMMA InElement ==
  ASSUME NEW q, NEW i \in 1..Len(q)
  PROVE  In(q, q[i])
  BY DEF In

\* The feeder.
LEMMA FeedStep ==
  ASSUME Typed, IInv, Feed
  PROVE  IInv'
<1> USE DEF Typed, IInv
<1>1. /\ compQ' = compQ /\ hand' = hand /\ workerPc' = workerPc /\ workerRes' = workerRes
      /\ written' = written /\ writeError' = writeError /\ mainPc' = mainPc
      /\ joined' = joined /\ result' = result
  BY DEF Feed, workerVars, mainVars
<1>2. Failed' = Failed
  BY <1>1 DEF Failed
<1>3. CASE /\ fed' = fed /\ rawQ' = rawQ /\ (fed = NumChunks \/ ~ChunksWanted)
           /\ feederPc = "send" /\ feederPc' = "done"
  <2>1. Taken' = Taken
    BY <1>3 DEF Taken
  <2>2. Once' /\ NothingLost'
    BY <1>1, <1>2, <1>3, <2>1 DEF Once, RawInv, HandInv, CompInv, WrittenInv, NothingLost, Somewhere
  <2>3. WorkerControl' /\ MainControl' /\ JoinInv'
    BY <1>1, <1>2, <1>3 DEF WorkerControl, MainControl, JoinInv, FeederDone, ChunksWanted, WorkersDone
  <2>4. QED
    BY <2>2, <2>3
<1>4. CASE /\ fed < NumChunks /\ fed' = fed + 1 /\ rawQ' = Append(rawQ, fed + 1)
           /\ feederPc = "send" /\ feederPc' = "send"
  <2>1. fed + 1 \in Chunks
    BY <1>4, SizeAssumption DEF FeederTypes, Chunks
  <2>2. /\ Len(rawQ') = Len(rawQ) + 1
        /\ \A i \in 1..Len(rawQ') : rawQ'[i] = IF i = Len(rawQ) + 1 THEN fed + 1 ELSE rawQ[i]
    BY <1>4, <2>1, AppendElements DEF QueueTypes
  <2>3. Taken' = Taken
    BY <1>4, <2>2 DEF Taken, QueueTypes, FeederTypes
  <2>4. RawInv'
    BY <1>4, <2>2, <2>3 DEF Once, RawInv, Taken, QueueTypes, FeederTypes
  <2>5. HandInv' /\ CompInv' /\ WrittenInv' /\ NothingLost'
    BY <1>1, <1>2, <2>3 DEF Once, HandInv, CompInv, WrittenInv, NothingLost, Somewhere
  <2>6. mainPc # "start" /\ \A w \in Workers : workerRes[w] = "ok" => result # "running"
    BY <1>4 DEF WorkerControl, MainControl, FeederDone
  <2>7. WorkerControl' /\ MainControl' /\ JoinInv'
    BY <1>1, <1>2, <1>4, <2>6 DEF WorkerControl, MainControl, JoinInv, FeederDone, WorkersDone
  <2>8. QED
    BY <2>4, <2>5, <2>7 DEF Once
<1>5. QED
  BY <1>3, <1>4 DEF Feed

\* Facts every step of a worker shares: only its own entries change.
LEMMA WorkerFrame ==
  ASSUME Typed, NEW w \in Workers, Worker(w)
  PROVE  /\ fed' = fed /\ feederPc' = feederPc /\ mainPc' = mainPc /\ joined' = joined
         /\ result' = result /\ written' = written /\ writeError' = writeError
         /\ \A v \in Workers \ {w} : /\ workerPc'[v] = workerPc[v] /\ hand'[v] = hand[v]
                                     /\ workerRes'[v] = workerRes[v]
         /\ workerPc[w] # "done" /\ workerPc[w] # "idle"
<1>1. fed' = fed /\ feederPc' = feederPc
  BY DEF Worker, WorkerRecv, WorkerCompress, WorkerSend, feederVars
<1>2. /\ mainPc' = mainPc /\ joined' = joined /\ result' = result /\ written' = written
      /\ writeError' = writeError
  BY DEF Worker, WorkerRecv, WorkerCompress, WorkerSend, mainVars
<1>3. \A v \in Workers \ {w} : /\ workerPc'[v] = workerPc[v] /\ hand'[v] = hand[v]
                               /\ workerRes'[v] = workerRes[v]
  BY DEF Worker, WorkerRecv, WorkerCompress, WorkerSend, WorkerReturn, Typed, WorkerTypes
<1>4. workerPc[w] # "done" /\ workerPc[w] # "idle"
  BY DEF Worker, WorkerRecv, WorkerCompress, WorkerSend
<1>5. QED
  BY <1>1, <1>2, <1>3, <1>4

\* A worker that ends leaves its chunk behind, and has failed unless it saw the
\* end of the input.
LEMMA WorkerReturnStep ==
  ASSUME Typed, IInv, NEW w \in Workers, Worker(w), NEW res \in {"ok", "err", "panic"},
         WorkerReturn(w, res), rawQ' = rawQ, compQ' = compQ,
         res = "ok" => rawQ = <<>> /\ FeederDone /\ hand[w] = {}
  PROVE  IInv'
<1> USE DEF Typed, IInv
<1>1. /\ workerPc'[w] = "done" /\ hand'[w] = {} /\ workerRes'[w] = res
  BY DEF WorkerReturn, WorkerTypes
<1>2. /\ Taken' = Taken /\ FeederDone' = FeederDone
      /\ \A c : In(compQ', c) = In(compQ, c) /\ In(written', c) = In(written, c)
  BY WorkerFrame DEF Taken, FeederDone
<1>3. Once'
  <2>1. RawInv' /\ CompInv' /\ WrittenInv'
    BY WorkerFrame, <1>2 DEF Once, RawInv, CompInv, WrittenInv
  <2>2. HandInv'
    BY WorkerFrame, <1>1, <1>2 DEF Once, HandInv
  <2>3. QED
    BY <2>1, <2>2 DEF Once
<1>4. WorkerControl'
  BY WorkerFrame, <1>1, <1>2 DEF WorkerControl
<1>5. mainPc # "start" /\ mainPc \notin {"join_workers", "join_feeder"}
  <2>1. mainPc \notin {"join_workers", "join_feeder"}
    BY WorkerFrame DEF JoinInv, WorkersDone
  <2>2. mainPc # "start"
    BY WorkerFrame DEF MainControl
  <2>3. QED
    BY <2>1, <2>2
<1>6. MainControl'
  BY WorkerFrame, <1>2, <1>5 DEF MainControl
<1>7. JoinInv'
  <2>1. w \notin 1..joined
    BY WorkerFrame DEF JoinInv, WorkerControl
  <2>2. \A v \in 1..joined : v \in Workers \ {w}
    BY <2>1, SizeAssumption DEF MainTypes, Workers
  <2>3. QED
    BY WorkerFrame, <1>5, <2>2 DEF JoinInv
<1>8. NothingLost'
  <2>1. Failed' <=> Failed \/ res # "ok"
    BY WorkerFrame, <1>1 DEF Failed, WorkerControl
  <2>2. QED
    BY WorkerFrame, <1>1, <1>2, <2>1 DEF NothingLost, Somewhere
<1>9. QED
  BY <1>3, <1>4, <1>6, <1>7, <1>8

\* A worker keeps the place of the other workers: what it does in the middle of
\* its loop changes the invariant only where chunks are.
LEMMA WorkerLoopStep ==
  ASSUME Typed, IInv, NEW w \in Workers, Worker(w), workerRes' = workerRes,
         workerPc'[w] \in {"recv", "compress", "send"},
         hand'[w] # {} => workerPc'[w] \in {"compress", "send"},
         rawQ = <<>> => rawQ' = <<>>
  PROVE  WorkerControl' /\ MainControl' /\ JoinInv' /\ Failed' = Failed
<1> USE DEF Typed, IInv
<1>1. mainPc # "start" /\ mainPc \notin {"join_workers", "join_feeder"}
  <2>1. mainPc \notin {"join_workers", "join_feeder"}
    BY WorkerFrame DEF JoinInv, WorkersDone
  <2>2. mainPc # "start"
    BY WorkerFrame DEF MainControl
  <2>3. QED
    BY <2>1, <2>2
<1>2. Failed' = Failed
  BY WorkerFrame DEF Failed
<1>3. WorkerControl'
  BY WorkerFrame DEF WorkerControl, FeederDone
<1>4. MainControl'
  BY WorkerFrame, <1>1 DEF MainControl, FeederDone
<1>5. JoinInv'
  BY WorkerFrame, <1>1 DEF JoinInv
<1>6. QED
  BY <1>2, <1>3, <1>4, <1>5

\* A worker.
LEMMA WorkerStep ==
  ASSUME Typed, IInv, NEW w \in Workers, Worker(w)
  PROVE  IInv'
<1> USE DEF Typed, IInv
<1>1. CASE WorkerRecv(w) /\ rawQ # <<>> /\ rawQ' = Tail(rawQ)
  <2>1. /\ hand' = [hand EXCEPT ![w] = {Head(rawQ)}] /\ compQ' = compQ
        /\ workerPc' = [workerPc EXCEPT ![w] = "compress"] /\ workerRes' = workerRes
        /\ workerPc[w] = "recv"
    BY <1>1, TailElements DEF WorkerRecv, WorkerReturn, QueueTypes
  <2>2. /\ hand'[w] = {Head(rawQ)} /\ workerPc'[w] = "compress"
        /\ \A v \in Workers \ {w} : hand'[v] = hand[v]
    BY <2>1 DEF WorkerTypes
  <2>3. /\ Head(rawQ) = Taken + 1 /\ Taken' = Taken + 1
        /\ Len(rawQ') = Len(rawQ) - 1 /\ fed' = fed /\ Len(rawQ) \in Nat
        /\ \A i \in 1..Len(rawQ') : rawQ'[i] = Taken' + i
    <3>1. /\ fed' = fed /\ fed \in Nat /\ Len(rawQ) \in Nat /\ Len(rawQ) # 0
          /\ Head(rawQ) = rawQ[1] /\ 1 \in 1..Len(rawQ) /\ Len(rawQ') = Len(rawQ) - 1
          /\ \A i \in 1..Len(rawQ') : i + 1 \in 1..Len(rawQ) /\ rawQ'[i] = rawQ[i + 1]
      BY <1>1, TailElements, WorkerFrame DEF QueueTypes, FeederTypes
    <3>2. Taken' = Taken + 1
      BY <3>1 DEF Taken
    <3>3. \A i \in 1..Len(rawQ') : rawQ[i + 1] = Taken + (i + 1)
      BY <3>1 DEF Once, RawInv
    <3>4. \A i \in 1..Len(rawQ') : i \in Nat /\ rawQ'[i] = Taken' + i
      BY <3>1, <3>2, <3>3 DEF Taken
    <3>5. QED
      <4>1. Len(rawQ) >= 1 /\ Head(rawQ) = Taken + 1
        BY <3>1 DEF Once, RawInv
      <4>2. QED
        BY <3>1, <3>2, <3>4, <4>1
  <2>4. Taken \in Nat /\ \A c \in Nat : c <= Taken => c <= Taken' /\ c # Head(rawQ)
    BY <2>3 DEF Once, RawInv, Taken, FeederTypes
  <2>5. RawInv'
    BY <2>3 DEF Once, RawInv, FeederTypes
  <2>6. CompInv' /\ WrittenInv'
    <3>1. \A i \in 1..Len(compQ) : compQ[i] \in Nat
      BY ChunkElements DEF QueueTypes
    <3>2. \A i \in 1..Len(written) : written[i] \in Nat
      BY ChunkElements DEF MainTypes
    <3>3. QED
      BY <2>1, <2>4, <3>1, <3>2, WorkerFrame DEF Once, CompInv, WrittenInv
  <2>7. ~In(compQ, Head(rawQ)) /\ ~In(written, Head(rawQ))
    BY <2>3, <2>4 DEF Once, CompInv, WrittenInv, In, QueueTypes, MainTypes, Chunks
  <2>8. HandInv'
    <3>1. \A v \in Workers : \A c \in hand[v] : c \in Nat
      BY DEF WorkerTypes, Chunks
    <3>2. ASSUME NEW v \in Workers, NEW c \in hand'[v]
          PROVE  /\ c <= Taken' /\ hand'[v] = {c}
                 /\ ~In(compQ', c) /\ ~In(written', c)
                 /\ \A u \in Workers \ {v} : c \notin hand'[u]
      <4>1. CASE v = w
        <5>1. \A u \in Workers \ {w} : Head(rawQ) \notin hand[u]
          BY <2>4, <3>1 DEF Once, HandInv
        <5>2. QED
          BY <4>1, <5>1, <2>1, <2>2, <2>3, <2>4, <2>7, WorkerFrame
      <4>2. CASE v # w
        BY <4>2, <3>1, <3>2, <2>1, <2>2, <2>4, WorkerFrame DEF Once, HandInv
      <4>3. QED
        BY <4>1, <4>2
    <3>3. QED
      BY <3>2 DEF HandInv
  <2>9. NothingLost'
    <3>1. \A c \in 1..Taken' : c \in 1..Taken \/ c = Head(rawQ)
      BY <2>3, <2>4
    <3>2. hand[w] = {}
      BY <2>1 DEF WorkerControl
    <3>3. \A c : Somewhere(c) => Somewhere(c)'
      BY <2>1, <2>2, <3>2, WorkerFrame DEF Somewhere
    <3>4. \A c : c = Head(rawQ) => Somewhere(c)'
      BY <2>2 DEF Somewhere
    <3>5. Failed' = Failed
      BY <2>1, WorkerFrame DEF Failed
    <3>6. QED
      BY <3>1, <3>3, <3>4, <3>5, WorkerFrame DEF NothingLost
  <2>10. QED
    BY <1>1, <2>1, <2>2, <2>5, <2>6, <2>8, <2>9, WorkerLoopStep DEF Once
<1>2. CASE WorkerRecv(w) /\ rawQ = <<>> /\ rawQ' = rawQ
  <2>1. WorkerReturn(w, "ok") /\ FeederDone /\ compQ' = compQ /\ workerPc[w] = "recv"
    BY <1>2 DEF WorkerRecv
  <2>2. hand[w] = {}
    BY <2>1 DEF WorkerControl
  <2>3. QED
    BY <1>2, <2>1, <2>2, WorkerReturnStep
<1>3. CASE WorkerCompress(w)
  <2>1. rawQ' = rawQ /\ compQ' = compQ
    BY <1>3 DEF WorkerCompress
  <2>2. CASE hand' = hand /\ workerRes' = workerRes /\ workerPc' = [workerPc EXCEPT ![w] = "send"]
    <3>1. workerPc'[w] = "send"
      BY <2>2 DEF WorkerTypes
    <3>2. Taken' = Taken
      BY <2>1, WorkerFrame DEF Taken
    <3>3. Once' /\ (NothingLost' <=> (result = "running" /\ ~Failed' => \A c \in 1..Taken : Somewhere(c)))
      BY <2>1, <2>2, <3>2, WorkerFrame
      DEF Once, RawInv, HandInv, CompInv, WrittenInv, NothingLost, Somewhere
    <3>4. QED
      BY <2>1, <2>2, <3>1, <3>3, WorkerLoopStep DEF NothingLost
  <2>3. CASE WorkerReturn(w, "err") \/ WorkerReturn(w, "panic")
    BY <2>1, <2>3, WorkerReturnStep
  <2>4. QED
    BY <1>3, <2>2, <2>3 DEF WorkerCompress
<1>4. CASE WorkerSend(w)
  <2>1. CASE WorkerReturn(w, "err") /\ compQ' = compQ
    BY <1>4, <2>1, WorkerReturnStep DEF WorkerSend
  <2>2. ASSUME NEW c \in hand[w], compQ' = Append(compQ, c), workerRes' = workerRes,
               hand' = [hand EXCEPT ![w] = {}], workerPc' = [workerPc EXCEPT ![w] = "recv"],
               rawQ' = rawQ
        PROVE  IInv'
    <3>1. /\ hand'[w] = {} /\ workerPc'[w] = "recv" /\ Taken' = Taken
          /\ \A v \in Workers \ {w} : hand'[v] = hand[v]
      BY <2>2, WorkerFrame DEF WorkerTypes, Taken
    <3>2. /\ c \in Chunks /\ c <= Taken /\ ~In(compQ, c) /\ ~In(written, c) /\ hand[w] = {c}
          /\ \A v \in Workers \ {w} : c \notin hand[v]
      BY DEF Once, HandInv, WorkerTypes
    <3>3. \A d : In(compQ', d) <=> In(compQ, d) \/ d = c
      BY <2>2, <3>2, InAppend DEF QueueTypes
    <3>4. RawInv' /\ WrittenInv'
      BY <2>2, <3>1, WorkerFrame DEF Once, RawInv, WrittenInv
    <3>5. CompInv'
      <4>1. /\ Len(compQ') = Len(compQ) + 1 /\ Len(compQ) \in Nat
            /\ \A i \in 1..Len(compQ') : compQ'[i] = IF i = Len(compQ) + 1 THEN c ELSE compQ[i]
            /\ \A i \in 1..Len(compQ') : i = Len(compQ) + 1 \/ i \in 1..Len(compQ)
        BY <2>2, <3>2, AppendElements DEF QueueTypes
      <4>2. \A i \in 1..Len(compQ) : compQ[i] # c
        BY <3>2 DEF In
      <4>3. \A i \in 1..Len(compQ') : compQ'[i] <= Taken' /\ ~In(written', compQ'[i])
        BY <3>1, <3>2, <4>1, WorkerFrame DEF Once, CompInv
      <4>4. \A i, j \in 1..Len(compQ') : compQ'[j] = compQ'[i] => j = i
        BY <4>1, <4>2 DEF Once, CompInv
      <4>5. QED
        BY <4>3, <4>4 DEF CompInv
    <3>6. HandInv'
      BY <3>1, <3>2, <3>3, WorkerFrame DEF Once, HandInv
    <3>7. NothingLost'
      <4>1. \A d : Somewhere(d) => Somewhere(d)'
        BY <3>1, <3>2, <3>3, WorkerFrame DEF Somewhere
      <4>2. Failed' = Failed
        BY <2>2, WorkerFrame DEF Failed
      <4>3. QED
        BY <3>1, <4>1, <4>2, WorkerFrame DEF NothingLost
    <3>8. QED
      BY <2>2, <3>1, <3>4, <3>5, <3>6, <3>7, WorkerLoopStep DEF Once
  <2>3. QED
    BY <1>4, <2>1, <2>2 DEF WorkerSend
<1>5. QED
  BY <1>1, <1>2, <1>3, <1>4 DEF Worker, WorkerRecv

\* The main thread.
LEMMA MainStep ==
  ASSUME Typed, IInv, Main
  PROVE  IInv'
<1> USE DEF Typed, IInv
<1>1. CASE Start
  <2>1. /\ rawQ' = rawQ /\ compQ' = compQ /\ fed' = fed /\ hand' = hand
        /\ workerRes' = workerRes /\ written' = written /\ writeError' = writeError
        /\ joined' = joined /\ mainPc = "start"
    BY <1>1 DEF Start
  <2>2. Taken' = Taken /\ Failed' = Failed
    BY <2>1 DEF Taken, Failed
  <2>3. /\ result = "running" /\ ~Failed
        /\ \A w \in Workers : workerRes[w] = "none" /\ hand[w] = {}
    BY <2>1 DEF MainControl, WorkerControl
  <2>4. Once' /\ \A c : Somewhere(c)' = Somewhere(c)
    BY <2>1, <2>2 DEF Once, RawInv, HandInv, CompInv, WrittenInv, Somewhere
  <2>5. NothingLost'
    BY <2>2, <2>3, <2>4 DEF NothingLost
  <2>6. CASE NumChunks = 0
    <3>1. mainPc' = "done" /\ result' = "ok"
      BY <1>1, <2>6 DEF Start, MainReturn
    <3>2. ~writeError'
      BY <2>1, <2>3 DEF Failed
    <3>3. WorkerControl' /\ MainControl' /\ JoinInv'
      BY <1>1, <2>1, <2>3, <2>6, <3>1, <3>2 DEF Start, WorkerControl, MainControl, JoinInv
    <3>4. QED
      BY <2>4, <2>5, <3>3
  <2>7. CASE NumChunks # 0
    <3>1. /\ mainPc' = "recv" /\ result' = "running" /\ feederPc' = "send"
          /\ workerPc' = [w \in Workers |-> "recv"]
      BY <1>1, <2>3, <2>7 DEF Start
    <3>2. ~writeError'
      BY <2>1, <2>3 DEF Failed
    <3>3. WorkerControl' /\ MainControl' /\ JoinInv'
      BY <2>1, <2>3, <3>1, <3>2 DEF WorkerControl, MainControl, JoinInv, FeederDone
    <3>4. QED
      BY <2>4, <2>5, <3>3
  <2>8. QED
    BY <2>6, <2>7
<1>2. CASE MainRecv
  <2>1. /\ rawQ' = rawQ /\ fed' = fed /\ feederPc' = feederPc /\ hand' = hand
        /\ workerPc' = workerPc /\ workerRes' = workerRes /\ joined' = joined
        /\ mainPc = "recv" /\ result = "running" /\ ~writeError
    <3>1. /\ rawQ' = rawQ /\ fed' = fed /\ feederPc' = feederPc /\ hand' = hand
          /\ workerPc' = workerPc /\ workerRes' = workerRes /\ joined' = joined
          /\ mainPc = "recv"
      BY <1>2 DEF MainRecv, feederVars, workerVars
    <3>2. QED
      BY <3>1 DEF MainControl
  <2>2. Taken' = Taken
    BY <2>1 DEF Taken
  <2>3. CASE compQ # <<>> /\ compQ' = Tail(compQ) /\ written' = Append(written, Head(compQ))
             /\ mainPc' = mainPc /\ writeError' = writeError /\ result' = result
    <3>1. /\ Head(compQ) \in Chunks /\ Head(compQ) = compQ[1] /\ 1 \in 1..Len(compQ)
          /\ \A i \in 1..Len(compQ') : i + 1 \in 1..Len(compQ) /\ compQ'[i] = compQ[i + 1]
      BY <2>3, TailElements DEF QueueTypes
    <3>2. \A c : In(written', c) <=> In(written, c) \/ c = Head(compQ)
      BY <2>3, <3>1, InAppend DEF MainTypes
    <3>3. \A c : In(compQ, c) <=> c = Head(compQ) \/ In(compQ', c)
      BY <2>3, InTail DEF QueueTypes
    <3>4. RawInv' /\ HandInv'
      BY <2>1, <2>2, <3>2, <3>3 DEF Once, RawInv, HandInv
    <3>5. CompInv'
      <4>1. ASSUME NEW i \in 1..Len(compQ')
            PROVE  /\ compQ'[i] <= Taken' /\ compQ'[i] # Head(compQ)
                   /\ ~In(written, compQ'[i])
        <5>1. i + 1 \in 1..Len(compQ) /\ i + 1 # 1 /\ compQ'[i] = compQ[i + 1]
          BY <3>1 DEF QueueTypes
        <5>2. QED
          BY <2>2, <3>1, <5>1 DEF Once, CompInv
      <4>2. \A i, j \in 1..Len(compQ') : compQ'[j] = compQ'[i] => j = i
        <5>1. \A i, j \in 1..Len(compQ') : compQ'[j] = compQ'[i] => j + 1 = i + 1
          BY <3>1 DEF Once, CompInv
        <5>2. QED
          BY <5>1
      <4>3. QED
        BY <3>2, <4>1, <4>2 DEF CompInv
    <3>6. WrittenInv'
      <4>1. Head(compQ) <= Taken'
        BY <2>2, <3>1 DEF Once, CompInv
      <4>2. \A i \in 1..Len(written') : written'[i] = Head(compQ) \/ In(written, written'[i])
        BY <3>2, InElement
      <4>3. \A c : In(written, c) => c <= Taken'
        BY <2>2 DEF Once, WrittenInv, In
      <4>4. QED
        BY <4>1, <4>2, <4>3 DEF WrittenInv
    <3>7. Failed' = Failed /\ \A c : Somewhere(c) => Somewhere(c)'
      BY <2>1, <2>3, <3>2, <3>3 DEF Failed, Somewhere
    <3>8. NothingLost'
      BY <2>2, <2>3, <3>7 DEF NothingLost
    <3>9. WorkerControl' /\ MainControl' /\ JoinInv'
      BY <2>1, <2>3 DEF WorkerControl, MainControl, JoinInv, FeederDone
    <3>10. QED
      BY <3>4, <3>5, <3>6, <3>8, <3>9 DEF Once
  <2>4. CASE compQ' = <<>> /\ mainPc' = "done" /\ result' = "err" /\ writeError' = TRUE
             /\ written' = written
    <3>1. Len(compQ') = 0 /\ \A c : ~In(compQ', c)
      BY <2>4 DEF In
    <3>2. Once' /\ NothingLost'
      BY <2>1, <2>2, <2>4, <3>1 DEF Once, RawInv, HandInv, CompInv, WrittenInv, NothingLost
    <3>3. WorkerControl' /\ MainControl' /\ JoinInv'
      BY <2>1, <2>4 DEF WorkerControl, MainControl, JoinInv
    <3>4. QED
      BY <3>2, <3>3
  <2>5. CASE compQ = <<>> /\ WorkersDone /\ mainPc' = "join_workers" /\ compQ' = compQ
             /\ written' = written /\ writeError' = writeError /\ result' = result
    <3>1. Failed' = Failed /\ \A c : Somewhere(c)' = Somewhere(c)
      BY <2>1, <2>5 DEF Failed, Somewhere
    <3>2. Once' /\ NothingLost'
      BY <2>1, <2>2, <2>5, <3>1
      DEF Once, RawInv, HandInv, CompInv, WrittenInv, NothingLost
    <3>3. WorkerControl' /\ MainControl' /\ JoinInv'
      BY <2>1, <2>5 DEF WorkerControl, MainControl, JoinInv, FeederDone, WorkersDone
    <3>4. QED
      BY <3>2, <3>3
  <2>6. QED
    BY <1>2, <2>3, <2>4, <2>5 DEF MainRecv, MainReturn
<1>3. CASE MainJoinWorker \/ MainJoinFeeder
  <2>1. /\ rawQ' = rawQ /\ compQ' = compQ /\ fed' = fed /\ feederPc' = feederPc
        /\ hand' = hand /\ workerPc' = workerPc /\ workerRes' = workerRes
        /\ written' = written /\ writeError' = writeError
        /\ mainPc \in {"join_workers", "join_feeder"}
    BY <1>3 DEF MainJoinWorker, MainJoinFeeder, feederVars, workerVars
  <2>2. /\ Taken' = Taken /\ Failed' = Failed /\ result = "running" /\ ~writeError
        /\ \A c : Somewhere(c)' = Somewhere(c)
    BY <2>1 DEF Taken, Failed, MainControl, Somewhere
  <2>3. /\ \/ mainPc' = mainPc /\ result' = result
           \/ mainPc' = "join_feeder" /\ result' = result /\ joined = NumWorkers
           \/ mainPc' = "done" /\ result' \in {"ok", "err"}
        /\ \/ joined' = joined
           \/ /\ joined' = joined + 1 /\ workerRes[joined + 1] = "ok"
              /\ mainPc' = "join_workers"
    BY <1>3 DEF MainJoinWorker, MainJoinFeeder, MainReturn, JoinFails
  <2>4. Once' /\ NothingLost'
    BY <2>1, <2>2, <2>3 DEF Once, RawInv, HandInv, CompInv, WrittenInv, NothingLost
  <2>5. WorkerControl' /\ MainControl'
    BY <2>1, <2>2, <2>3 DEF WorkerControl, MainControl, FeederDone
  <2>6. JoinInv'
    <3>1. \A v \in 1..(joined + 1) : v \in 1..joined \/ v = joined + 1
      BY DEF MainTypes
    <3>2. \A v \in 1..joined' : workerRes'[v] = "ok"
      BY <2>1, <2>3, <3>1 DEF JoinInv
    <3>3. QED
      BY <2>1, <2>3, <3>2 DEF JoinInv, WorkersDone
  <2>7. QED
    BY <2>4, <2>5, <2>6
<1>4. QED
  BY <1>1, <1>2, <1>3 DEF Main

\* The invariant from which the refinement follows.
THEOREM Invariance == Spec => [](Typed /\ IInv)
<1>1. Init => IInv
  <2> SUFFICES ASSUME Init PROVE IInv
    OBVIOUS
  <2>1. /\ Len(rawQ) = 0 /\ Len(compQ) = 0 /\ Len(written) = 0 /\ fed = 0 /\ joined = 0
        /\ feederPc = "idle" /\ mainPc = "start" /\ result = "running" /\ writeError = FALSE
        /\ \A w \in Workers : workerPc[w] = "idle" /\ hand[w] = {} /\ workerRes[w] = "none"
    BY DEF Init
  <2>2. Once /\ NothingLost
    BY <2>1 DEF Once, RawInv, HandInv, CompInv, WrittenInv, NothingLost, Taken
  <2>3. WorkerControl /\ MainControl /\ JoinInv
    BY <2>1 DEF WorkerControl, MainControl, JoinInv, Failed, FeederDone
  <2>4. QED
    BY <2>2, <2>3 DEF IInv
<1>2. Typed /\ IInv /\ [Next]_vars => IInv'
  <2> SUFFICES ASSUME Typed, IInv, [Next]_vars PROVE IInv'
    OBVIOUS
  <2>1. CASE UNCHANGED vars
    BY <2>1 DEF vars, feederVars, workerVars, mainVars, IInv, Once, RawInv, HandInv, CompInv,
                WrittenInv, WorkerControl, MainControl, JoinInv, NothingLost, Somewhere, In,
                Taken, Failed, FeederDone, WorkersDone
  <2>2. QED
    BY <2>1, FeedStep, WorkerStep, MainStep DEF Next, Done
<1>3. TypeOK <=> Typed
  BY DEF TypeOK, Typed
<1>4. QED
  BY TypeCorrect, <1>1, <1>2, <1>3, PTL DEF Spec

-----------------------------------------------------------------------------
(* The property.                                                           *)

\* Whatever the threads do and whatever fails, the call is UnorderedStream: each
\* chunk reaches the writer once, Ok means all did and nothing failed, and an
\* error means something did.
THEOREM Implementation == Spec => ImplementsUnorderedStream
<1>1. Init => Unordered!Init
  BY DEF Init, Unordered!Init, Failed
<1>2. Typed /\ IInv /\ [Next]_vars => [Unordered!Next]_(Unordered!vars)
  <2> SUFFICES ASSUME Typed, IInv, [Next]_vars
               PROVE  [Unordered!Next]_(Unordered!vars)
    OBVIOUS
  <2> USE DEF Typed, IInv
  <2>1. CASE MainRecv
    <3>1. /\ workerRes' = workerRes /\ result = "running" /\ ~writeError
      BY <2>1 DEF MainRecv, workerVars, MainControl
    <3>2. CASE compQ # <<>> /\ written' = Append(written, Head(compQ))
               /\ writeError' = writeError /\ result' = result
      <4>1. Head(compQ) \in Chunks /\ In(compQ, Head(compQ))
        BY <3>2, TailElements, InElement DEF QueueTypes
      <4>2. ~In(written, Head(compQ))
        BY <4>1 DEF In, Once, CompInv
      <4>3. Head(compQ) \notin Unordered!Range(written)
        BY <4>2 DEF In, Unordered!Range, MainTypes
      <4>4. Failed' = Failed
        BY <3>1, <3>2 DEF Failed
      <4>5. QED
        BY <3>1, <3>2, <4>1, <4>3, <4>4 DEF Unordered!Next, Unordered!Deliver
    <3>3. CASE written' = written /\ writeError' = TRUE /\ result' = "err"
      <4>1. Failed' = TRUE
        BY <3>3 DEF Failed
      <4>2. QED
        BY <3>1, <3>3, <4>1 DEF Unordered!Next, Unordered!ReturnErr
    <3>4. CASE written' = written /\ writeError' = writeError /\ result' = result
      BY <3>1, <3>4 DEF Unordered!vars, Failed
    <3>5. QED
      BY <2>1, <3>2, <3>3, <3>4 DEF MainRecv, MainReturn
  <2>2. CASE Start
    <3>1. /\ written' = written /\ result = "running" /\ ~Failed
          /\ Failed' = Failed /\ written = <<>>
      <4>1. written' = written /\ workerRes' = workerRes /\ writeError' = writeError /\ mainPc = "start"
        BY <2>2 DEF Start
      <4>2. Failed' = Failed /\ ~Failed /\ result = "running"
        BY <4>1 DEF Failed, MainControl
      <4>3. written = <<>>
        BY <4>1 DEF MainControl
      <4>4. QED
        BY <4>1, <4>2, <4>3
    <3>2. CASE NumChunks = 0
      <4>1. result' = "ok" /\ Chunks = {}
        BY <2>2, <3>2 DEF Start, MainReturn, Chunks
      <4>2. Unordered!Range(written) = {}
        BY <3>1 DEF Unordered!Range
      <4>3. QED
        BY <3>1, <4>1, <4>2 DEF Unordered!Next, Unordered!ReturnOk
    <3>3. CASE NumChunks # 0
      BY <2>2, <3>1, <3>3 DEF Start, Unordered!vars
    <3>4. QED
      BY <3>2, <3>3
  <2>3. CASE MainJoinWorker
    <3>1. /\ written' = written /\ workerRes' = workerRes /\ writeError' = writeError
          /\ result = "running"
      BY <2>3 DEF MainJoinWorker, workerVars, MainControl
    <3>2. Failed' = Failed
      BY <3>1 DEF Failed
    <3>3. CASE result' = "err" /\ joined # NumWorkers /\ workerPc[joined + 1] = "done"
               /\ workerRes[joined + 1] # "ok"
      <4>1. joined + 1 \in Workers
        BY <3>3, SizeAssumption DEF MainTypes, Workers
      <4>2. Failed
        BY <3>1, <3>3, <4>1 DEF Failed, WorkerControl, WorkerTypes
      <4>3. QED
        BY <3>1, <3>2, <3>3, <4>2 DEF Unordered!Next, Unordered!ReturnErr
    <3>4. CASE result' = result
      BY <3>1, <3>2, <3>4 DEF Unordered!vars
    <3>5. QED
      BY <2>3, <3>3, <3>4 DEF MainJoinWorker, MainReturn, JoinFails
  <2>4. CASE MainJoinFeeder
    <3>1. /\ written' = written /\ workerRes' = workerRes /\ writeError' = writeError
          /\ result = "running" /\ result' = "ok" /\ FeederDone /\ mainPc = "join_feeder"
      BY <2>4 DEF MainJoinFeeder, MainReturn, workerVars, MainControl
    <3>2. /\ WorkersDone /\ compQ = <<>> /\ \A w \in Workers : workerRes[w] = "ok"
      BY <3>1 DEF JoinInv, Workers
    <3>3. ~Failed /\ Failed' = Failed
      BY <3>1, <3>2 DEF Failed, MainControl
    <3>4. 1 \in Workers
      BY SizeAssumption DEF Workers
    <3>5. rawQ = <<>> /\ fed = NumChunks
      BY <3>1, <3>2, <3>4 DEF WorkerControl, MainControl
    <3>6. Taken = NumChunks
      BY <3>5, SizeAssumption DEF Taken
    <3>7. \A c \in Chunks : In(written, c)
      <4>1. \A c \in Chunks : Somewhere(c)
        BY <3>1, <3>3, <3>6 DEF NothingLost, Chunks
      <4>2. \A w \in Workers : hand[w] = {}
        BY <3>2 DEF WorkersDone, WorkerControl
      <4>3. \A c : ~In(compQ, c)
        BY <3>2 DEF In
      <4>4. QED
        BY <4>1, <4>2, <4>3 DEF Somewhere
    <3>8. Unordered!Range(written) = Chunks
      BY <3>7 DEF In, Unordered!Range, MainTypes
    <3>9. QED
      BY <3>1, <3>3, <3>8 DEF Unordered!Next, Unordered!ReturnOk
  <2>5. ASSUME NEW w \in Workers, Worker(w)
        PROVE  [Unordered!Next]_(Unordered!vars)
    <3>1. written' = written /\ result' = result
      BY <2>5, WorkerFrame
    <3>2. Failed => Failed'
      BY <2>5, WorkerFrame DEF Failed, WorkerControl
    <3>3. Failed' = Failed \/ Failed' = TRUE
      BY <3>2, Zenon DEF Failed
    <3>4. QED
      BY <3>1, <3>3 DEF Unordered!Next, Unordered!Fail, Unordered!vars
  <2>6. CASE Feed \/ UNCHANGED vars
    BY <2>6 DEF Feed, vars, workerVars, mainVars, Failed, Unordered!vars
  <2>7. QED
    BY <2>1, <2>2, <2>3, <2>4, <2>5, <2>6 DEF Next, Main, Done
<1>3. QED
  BY Invariance, <1>1, <1>2, PTL DEF Spec, Unordered!Spec, ImplementsUnorderedStream
=============================================================================
