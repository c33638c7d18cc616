------------------------- MODULE PackPipelineProofs -------------------------
(***************************************************************************)
(* What holds of PackPipeline for every input, number of workers, channel  *)
(* size and set of faults.                                                 *)
(***************************************************************************)
EXTENDS PackPipeline, FiniteSetTheorems, TLAPS

-----------------------------------------------------------------------------
(* Typing.                                                                 *)

\* The channels have at least one slot.
LEMMA ChannelSizeType == ChannelSize \in Nat \ {0}
  BY SizeAssumption DEF ChannelSize

\* The elements of the tail of a queue.
LEMMA TailElements ==
  ASSUME NEW S, NEW q \in Seq(S), q # <<>>
  PROVE  /\ Head(q) = q[1] /\ 1 \in 1..Len(q)
         /\ Tail(q) \in Seq(S) /\ Len(Tail(q)) = Len(q) - 1
         /\ \A i \in 1..Len(Tail(q)) : i + 1 \in 1..Len(q) /\ Tail(q)[i] = q[i + 1]
  OBVIOUS

\* The input has a length, and chunks in its range.
LEMMA InputType == /\ Len(Input) \in Nat
                   /\ \A i \in 1..Len(Input) : Input[i] \in Chunk
  BY InputAssumption

\* While it sends, the reader has a chunk of the input in hand.
ReaderInRange == readerPc = "send" => readerSeq < Len(Input)

\* Every state of the pipeline has the shape TypeOK states, whatever fails.
THEOREM TypeCorrect == Spec => [](TypeOK /\ ReaderInRange)
<1>1. Init => TypeOK /\ ReaderInRange
  <2> SUFFICES ASSUME Init PROVE TypeOK /\ ReaderInRange
    OBVIOUS
  <2>1. QueueTypes
    BY ChannelSizeType DEF Init, QueueTypes
  <2>2. ReaderTypes /\ ReaderInRange
    BY InputType DEF Init, ReaderTypes, ReaderInRange
  <2>3. WorkerTypes
    BY DEF Init, WorkerTypes
  <2>4. MainTypes
    <3>1. written \in Seq(Chunk)
      BY DEF Init
    <3>2. /\ mainPc = "recv" /\ nextSeq = 0 /\ reorder = {}
          /\ writeError = FALSE /\ joined = 0 /\ result = "running"
      BY DEF Init
    <3>3. joined \in 0..NumWorkers
      BY SizeAssumption, <3>2
    <3>4. reorder \in SUBSET Item
      BY <3>2
    <3>5. QED
      BY <3>1, <3>2, <3>3, <3>4 DEF MainTypes
  <2>5. QED
    BY <2>1, <2>2, <2>3, <2>4 DEF TypeOK
<1>2. TypeOK /\ ReaderInRange /\ [Next]_vars => TypeOK' /\ ReaderInRange'
  <2> SUFFICES ASSUME QueueTypes, ReaderTypes, WorkerTypes, MainTypes,
                      ReaderInRange, [Next]_vars
               PROVE  TypeOK' /\ ReaderInRange'
    BY DEF TypeOK
  <2> USE ChannelSizeType, InputType
  <2>1. CASE ReaderNext
    <3>1. ReaderTypes' /\ ReaderInRange'
      BY <2>1 DEF ReaderNext, ReaderReturn, ReaderTypes, ReaderInRange
    <3>2. QueueTypes' /\ WorkerTypes' /\ MainTypes'
      BY <2>1 DEF ReaderNext, QueueTypes, WorkerTypes, MainTypes, workerVars, mainVars
    <3>3. QED
      BY <3>1, <3>2 DEF TypeOK
  <2>2. CASE ReaderSend
    <3>1. ReaderTypes' /\ ReaderInRange'
      BY <2>2 DEF ReaderSend, ReaderReturn, ReaderTypes, ReaderInRange
    <3>2. ASSUME HasRoom(rawQ), ReaderInRange, readerPc = "send",
                 rawQ' = Append(rawQ, [seq |-> readerSeq, data |-> Input[readerSeq + 1]])
          PROVE  rawQ' \in Seq(Item) /\ Len(rawQ') <= ChannelSize
      <4>1. [seq |-> readerSeq, data |-> Input[readerSeq + 1]] \in Item
        BY <3>2 DEF ReaderInRange, ReaderTypes, Item
      <4>2. QED
        BY <3>2, <4>1 DEF HasRoom, QueueTypes
    <3>3. QueueTypes'
      BY <2>2, <3>2 DEF ReaderSend, QueueTypes
    <3>4. WorkerTypes' /\ MainTypes'
      BY <2>2 DEF ReaderSend, WorkerTypes, MainTypes, workerVars, mainVars
    <3>5. QED
      BY <3>1, <3>3, <3>4 DEF TypeOK
  <2>3. ASSUME NEW w \in Workers, Worker(w)
        PROVE  TypeOK' /\ ReaderInRange'
    <3>1. ReaderTypes' /\ ReaderInRange' /\ MainTypes'
      BY <2>3 DEF Worker, WorkerRecv, WorkerCompress, WorkerSend, ReaderTypes,
                  ReaderInRange, MainTypes, readerVars, mainVars
    <3>2. QueueTypes'
      <4>1. CASE WorkerRecv(w)
        <5>1. rawQ # <<>> => /\ Tail(rawQ) \in Seq(Item)
                             /\ Len(Tail(rawQ)) <= ChannelSize
          BY DEF QueueTypes
        <5>2. QED
          BY <4>1, <5>1 DEF WorkerRecv, QueueTypes
      <4>2. CASE WorkerCompress(w)
        BY <4>2 DEF WorkerCompress, QueueTypes
      <4>3. CASE WorkerSend(w)
        <5>1. ASSUME NEW it \in hand[w], HasRoom(compQ), compQ' = Append(compQ, it)
              PROVE  compQ' \in Seq(Item) /\ Len(compQ') <= ChannelSize
          BY <5>1 DEF HasRoom, QueueTypes, WorkerTypes
        <5>2. QED
          BY <4>3, <5>1 DEF WorkerSend, QueueTypes
      <4>4. QED
        BY <2>3, <4>1, <4>2, <4>3 DEF Worker
    <3>3. WorkerTypes'
      <4>1. CASE WorkerRecv(w)
        <5>1. rawQ # <<>> => Head(rawQ) \in Item
          BY DEF QueueTypes
        <5>2. QED
          BY <4>1, <5>1 DEF WorkerRecv, WorkerReturn, WorkerTypes
      <4>2. CASE WorkerCompress(w)
        BY <4>2 DEF WorkerCompress, WorkerReturn, WorkerTypes
      <4>3. CASE WorkerSend(w)
        BY <4>3 DEF WorkerSend, WorkerReturn, WorkerTypes
      <4>4. QED
        BY <2>3, <4>1, <4>2, <4>3 DEF Worker
    <3>4. QED
      BY <3>1, <3>2, <3>3 DEF TypeOK
  <2>4. CASE Main
    <3>1. ReaderTypes' /\ ReaderInRange' /\ WorkerTypes'
      BY <2>4 DEF Main, MainRecv, MainDrain, MainClose, MainJoinReader, MainJoinWorker,
                  MainResult, ReaderTypes, ReaderInRange, WorkerTypes, readerVars, workerVars
    <3>2. QueueTypes' /\ MainTypes'
      <4>1. CASE MainRecv
        <5>1. compQ # <<>> => /\ Head(compQ) \in Item
                              /\ Tail(compQ) \in Seq(Item)
                              /\ Len(Tail(compQ)) <= ChannelSize
          BY DEF QueueTypes
        <5>2. QueueTypes'
          BY <4>1, <5>1 DEF MainRecv, QueueTypes
        <5>3. MainTypes'
          BY <4>1, <5>1 DEF MainRecv, ReorderInsert, MainTypes
        <5>4. QED
          BY <5>2, <5>3
      <4>2. CASE MainDrain
        <5>1. QueueTypes'
          BY <4>2 DEF MainDrain, QueueTypes
        <5>2. ASSUME NEW it \in reorder, written' = Append(written, it.data)
              PROVE  written' \in Seq(Chunk)
          BY <5>2 DEF MainTypes, Item
        <5>3. /\ mainPc' \in {"recv", "drain", "close"}
              /\ nextSeq' \in {nextSeq, nextSeq + 1} /\ writeError' \in {writeError, TRUE}
              /\ \A x \in reorder' : x \in reorder
              /\ joined' = joined /\ result' = result
          BY <4>2 DEF MainDrain
        <5>4. written' \in Seq(Chunk)
          BY <4>2, <5>2 DEF MainDrain, MainTypes
        <5>5. MainTypes'
          <6>1. reorder' \in SUBSET Item
            BY <5>3 DEF MainTypes
          <6>2. writeError' \in BOOLEAN
            BY <5>3, Zenon DEF MainTypes
          <6>3. nextSeq' \in Nat
            BY <5>3 DEF MainTypes
          <6>4. QED
            BY <5>3, <5>4, <6>1, <6>2, <6>3 DEF MainTypes
        <5>6. QED
          BY <5>1, <5>5
      <4>3. CASE MainClose
        <5>1. QueueTypes'
          <6>1. compQ' = <<>> /\ rxOpen' = FALSE /\ rawQ' = rawQ
            BY <4>3 DEF MainClose, DropReceiver
          <6>2. compQ' \in Seq(Item) /\ Len(compQ') <= ChannelSize
            BY <6>1
          <6>3. QED
            BY <6>1, <6>2 DEF QueueTypes
        <5>2. MainTypes'
          BY <4>3 DEF MainClose, MainTypes
        <5>3. QED
          BY <5>1, <5>2
      <4>4. CASE MainJoinReader \/ MainJoinWorker \/ MainResult
        <5>1. QueueTypes'
          BY <4>4 DEF MainJoinReader, MainJoinWorker, MainResult, QueueTypes
        <5>2. MainTypes'
          BY <4>4, SizeAssumption
          DEF MainJoinReader, MainJoinWorker, MainResult, MainReturn, StreamResult,
              AllJoined, MainTypes
        <5>3. QED
          BY <5>1, <5>2
      <4>5. QED
        BY <2>4, <4>1, <4>2, <4>3, <4>4 DEF Main
    <3>3. QED
      BY <3>1, <3>2 DEF TypeOK
  <2>5. CASE UNCHANGED vars
    BY <2>5 DEF vars, readerVars, workerVars, mainVars, TypeOK, QueueTypes, ReaderTypes,
                WorkerTypes, MainTypes, ReaderInRange
  <2>6. QED
    BY <2>1, <2>2, <2>3, <2>4, <2>5 DEF Next, Reader, Done
<1>3. QED
  BY <1>1, <1>2, PTL DEF Spec
-----------------------------------------------------------------------------
(* The inductive invariant.                                                *)

\* An item carries the chunk its number stands for.
Genuine(it) == it.seq < Len(Input) /\ it.data = Input[it.seq + 1]

GenuineItems ==
    /\ \A i \in 1..Len(rawQ)  : Genuine(rawQ[i])
    /\ \A i \in 1..Len(compQ) : Genuine(compQ[i])
    /\ \A w \in Workers : \A it \in hand[w] : Genuine(it)
    /\ \A it \in reorder : Genuine(it)

\* next_seq counts the chunks written.
WrittenInv == Len(written) = nextSeq /\ OrderedOutput

Receiving == mainPc \in {"recv", "drain"}

\* How the control states of the threads, what they return and the channels
\* go together.
ReaderControl == ReaderDone <=> readerRes # "none"
WorkerControl ==
    \A w \in Workers :
        /\ workerPc[w] = "done" <=> workerRes[w] # "none"
        /\ workerPc[w] \in {"recv", "done"} => hand[w] = {}
        /\ \A a, b \in hand[w] : a = b
MainControl ==
    /\ rxOpen <=> mainPc \in {"recv", "drain", "close"}
    /\ writeError => ~Receiving
    /\ mainPc = "done" <=> result # "running"
    /\ mainPc = "recv" => \A it \in reorder : it.seq # nextSeq

\* A worker that ended well while main receives has seen the end of the input.
DrainedInput ==
    Receiving => \A w \in Workers : workerRes[w] = "ok" => ReaderDone /\ rawQ = <<>>

NoWorkerFailed == \A w \in Workers : workerRes[w] \in {"none", "ok"}

Somewhere(s) ==
    \/ s < nextSeq
    \/ \E it \in reorder : it.seq = s
    \/ \E i \in 1..Len(compQ) : compQ[i].seq = s
    \/ \E w \in Workers : \E it \in hand[w] : it.seq = s
    \/ \E i \in 1..Len(rawQ) : rawQ[i].seq = s

\* While main receives and no worker failed, no chunk is lost, and a reader
\* that ended well has sent them all.
NothingLost ==
    Receiving /\ NoWorkerFailed =>
        /\ \A s \in 0..Len(Input) : s < readerSeq => Somewhere(s)
        /\ readerRes = "ok" => readerSeq = Len(Input)

\* The numbers of the chunks in a queue, and in the hands of the workers.
Numbers(q) == { q[i].seq : i \in 1..Len(q) }
HandNumbers == UNION { { it.seq : it \in hand[w] } : w \in Workers }
BufferNumbers == { it.seq : it \in reorder }

Once(q) == \A i, j \in 1..Len(q) : q[i].seq = q[j].seq => i = j

\* Every chunk is in one place, the reader handed it over, and it is not
\* written yet.
OnePlace ==
    /\ Once(rawQ) /\ Once(compQ)
    /\ \A v, w \in Workers : \A x \in hand[v], y \in hand[w] : x.seq = y.seq => v = w
    /\ \A x, y \in reorder : x.seq = y.seq => x = y
    /\ Numbers(rawQ) \cap Numbers(compQ) = {} /\ Numbers(rawQ) \cap HandNumbers = {}
    /\ Numbers(rawQ) \cap BufferNumbers = {} /\ Numbers(compQ) \cap HandNumbers = {}
    /\ Numbers(compQ) \cap BufferNumbers = {} /\ HandNumbers \cap BufferNumbers = {}
    /\ Numbers(rawQ) \cup Numbers(compQ) \cup HandNumbers \cup BufferNumbers
           \subseteq nextSeq..(readerSeq - 1)
    /\ nextSeq <= readerSeq

\* What was handed over and is nowhere: one for each worker that failed, at most.
Lost == { s \in 0..Len(Input) : s < readerSeq /\ ~Somewhere(s) }
LostInv == Receiving => Cardinality(Lost) <= Cardinality(FailedWorkers)

\* Main stops receiving without a write error only once the workers ended,
\* and then everything is written unless a worker or the reader failed.
ClosedInv ==
    ~Receiving /\ ~writeError =>
        /\ WorkersDone
        /\ NoWorkerFailed => ReaderDone /\ (readerRes = "ok" => nextSeq = Len(Input))

JoinInv ==
    /\ mainPc = "join_workers" => ReaderDone /\ readerRes # "panic"
    /\ \A w \in 1..joined : workerPc[w] = "done" /\ workerRes[w] # "panic"
    /\ result # "running" => Panicked \/ (ReaderDone /\ WorkersDone)
    /\ result = "ok" => /\ ReaderDone /\ WorkersDone
                        /\ readerRes = "ok" /\ ~writeError

IInv == /\ GenuineItems /\ WrittenInv
        /\ ReaderControl /\ WorkerControl /\ MainControl
        /\ DrainedInput /\ NothingLost /\ ClosedInv /\ JoinInv
        /\ OnePlace /\ LostInv

Typed == QueueTypes /\ ReaderTypes /\ WorkerTypes /\ MainTypes /\ ReaderInRange

\* Every channel, worker and buffer passes chunks on unchanged.
LEMMA GenuineStep ==
  ASSUME Typed, GenuineItems, [Next]_vars
  PROVE  GenuineItems'
<1> USE DEF Typed
<1>1. CASE ReaderNext \/ UNCHANGED vars
  BY <1>1 DEF ReaderNext, GenuineItems, Genuine, vars, workerVars, mainVars
<1>2. CASE ReaderSend
  <2> DEFINE it == [seq |-> readerSeq, data |-> Input[readerSeq + 1]]
  <2>1. /\ compQ' = compQ /\ hand' = hand /\ reorder' = reorder
        /\ rawQ' = rawQ \/ rawQ' = Append(rawQ, it)
    BY <1>2 DEF ReaderSend, workerVars, mainVars
  <2>2. Genuine(it)
    BY <1>2 DEF ReaderSend, ReaderInRange, Genuine
  <2> HIDE DEF it
  <2>3. \A i \in 1..Len(rawQ') : Genuine(rawQ'[i])
    BY <2>1, <2>2 DEF GenuineItems, QueueTypes
  <2>4. QED
    BY <2>1, <2>3 DEF GenuineItems, Genuine
<1>3. ASSUME NEW w \in Workers, Worker(w)
      PROVE  GenuineItems'
  <2>1. CASE WorkerRecv(w)
    <3>1. /\ compQ' = compQ /\ reorder' = reorder
          /\ \/ rawQ # <<>> /\ rawQ' = Tail(rawQ)
                /\ hand' = [hand EXCEPT ![w] = {Head(rawQ)}]
             \/ rawQ' = rawQ /\ hand' = [hand EXCEPT ![w] = {}]
      BY <2>1 DEF WorkerRecv, WorkerReturn, mainVars
    <3>2. rawQ # <<>> => Genuine(Head(rawQ))
      BY DEF GenuineItems, QueueTypes
    <3>3. \A i \in 1..Len(rawQ') : Genuine(rawQ'[i])
      <4>1. CASE rawQ' = rawQ
        BY <4>1 DEF GenuineItems
      <4>2. CASE rawQ # <<>> /\ rawQ' = Tail(rawQ)
        <5>1. \A i \in 1..Len(rawQ') : i + 1 \in 1..Len(rawQ) /\ rawQ'[i] = rawQ[i + 1]
          BY <4>2, TailElements DEF QueueTypes
        <5>2. QED
          BY <5>1 DEF GenuineItems
      <4>3. QED
        BY <3>1, <4>1, <4>2
    <3>4. \A v \in Workers : \A it \in hand'[v] : Genuine(it)
      BY <3>1, <3>2 DEF GenuineItems, WorkerTypes
    <3>5. QED
      BY <3>1, <3>3, <3>4 DEF GenuineItems, Genuine
  <2>2. CASE WorkerCompress(w)
    <3>1. /\ rawQ' = rawQ /\ compQ' = compQ /\ reorder' = reorder
          /\ hand' = hand \/ hand' = [hand EXCEPT ![w] = {}]
      BY <2>2 DEF WorkerCompress, WorkerReturn, mainVars
    <3>2. \A v \in Workers : \A it \in hand'[v] : Genuine(it)
      BY <3>1 DEF GenuineItems, WorkerTypes
    <3>3. QED
      BY <3>1, <3>2 DEF GenuineItems, Genuine
  <2>3. CASE WorkerSend(w)
    <3>1. /\ rawQ' = rawQ /\ reorder' = reorder
          /\ hand' = [hand EXCEPT ![w] = {}]
          /\ compQ' = compQ \/ \E it \in hand[w] : compQ' = Append(compQ, it)
      BY <2>3 DEF WorkerSend, WorkerReturn, mainVars
    <3>2. \A v \in Workers : \A it \in hand'[v] : Genuine(it)
      BY <3>1 DEF GenuineItems, WorkerTypes
    <3>3. ASSUME NEW it \in hand[w], compQ' = Append(compQ, it)
          PROVE  \A i \in 1..Len(compQ') : Genuine(compQ'[i])
      <4>1. Genuine(it)
        BY DEF GenuineItems
      <4>2. QED
        BY <3>3, <4>1 DEF GenuineItems, QueueTypes
    <3>4. QED
      BY <3>1, <3>2, <3>3 DEF GenuineItems, Genuine
  <2>4. QED
    BY <1>3, <2>1, <2>2, <2>3 DEF Worker
<1>4. CASE Main
  <2>1. CASE MainRecv
    <3>1. /\ rawQ' = rawQ /\ hand' = hand
          /\ \/ compQ # <<>> /\ compQ' = Tail(compQ)
                /\ \A it \in reorder' : it \in reorder \/ it = Head(compQ)
             \/ compQ' = compQ /\ reorder' = reorder
      BY <2>1 DEF MainRecv, ReorderInsert, workerVars
    <3>2. compQ # <<>> => Genuine(Head(compQ))
      BY DEF GenuineItems, QueueTypes
    <3>3. \A i \in 1..Len(compQ') : Genuine(compQ'[i])
      BY <3>1 DEF GenuineItems, QueueTypes
    <3>4. \A it \in reorder' : Genuine(it)
      BY <3>1, <3>2 DEF GenuineItems
    <3>5. QED
      BY <3>1, <3>3, <3>4 DEF GenuineItems, Genuine
  <2>2. CASE MainDrain
    BY <2>2 DEF MainDrain, GenuineItems, Genuine, workerVars
  <2>3. CASE MainClose
    <3>1. rawQ' = rawQ /\ hand' = hand /\ reorder' = reorder /\ compQ' = <<>>
      BY <2>3 DEF MainClose, DropReceiver, workerVars
    <3>2. Len(compQ') = 0
      BY <3>1
    <3>3. QED
      BY <3>1, <3>2 DEF GenuineItems, Genuine
  <2>4. CASE MainJoinReader \/ MainJoinWorker \/ MainResult
    BY <2>4 DEF MainJoinReader, MainJoinWorker, MainResult, GenuineItems, Genuine, workerVars
  <2>5. QED
    BY <1>4, <2>1, <2>2, <2>3, <2>4 DEF Main
<1>5. QED
  BY <1>1, <1>2, <1>3, <1>4 DEF Next, Reader, Done

\* The writer appends chunk number next_seq and counts it.
LEMMA WrittenStep ==
  ASSUME Typed, GenuineItems, WrittenInv, [Next]_vars
  PROVE  WrittenInv'
<1> USE DEF Typed
<1>1. CASE MainDrain
  <2>1. \/ written' = written /\ nextSeq' = nextSeq
        \/ \E it \in reorder : /\ it.seq = nextSeq /\ nextSeq' = nextSeq + 1
                               /\ written' = Append(written, it.data)
    BY <1>1 DEF MainDrain, IsNext
  <2>2. ASSUME NEW it \in reorder, it.seq = nextSeq, nextSeq' = nextSeq + 1,
               written' = Append(written, it.data)
        PROVE  WrittenInv'
    <3>1. nextSeq < Len(Input) /\ it.data = Input[nextSeq + 1]
      BY <2>2 DEF GenuineItems, Genuine
    <3>2. Len(written') = Len(written) + 1
      BY <2>2 DEF MainTypes, Item
    <3>3. \A i \in 1..Len(written') : written'[i] = IF i = Len(written) + 1
                                                     THEN it.data ELSE written[i]
      BY <2>2 DEF MainTypes, Item
    <3>4. Len(written') <= Len(Input)
      BY <3>1, <3>2, InputType DEF WrittenInv, MainTypes
    <3>5. \A i \in 1..Len(written') : written'[i] = Input[i]
      BY <3>1, <3>2, <3>3 DEF WrittenInv, OrderedOutput, MainTypes
    <3>6. QED
      BY <2>2, <3>2, <3>4, <3>5 DEF WrittenInv, OrderedOutput
  <2>3. QED
    BY <2>1, <2>2 DEF WrittenInv, OrderedOutput
<1>2. CASE ~MainDrain
  <2>1. written' = written /\ nextSeq' = nextSeq
    BY <1>2 DEF Next, Reader, ReaderNext, ReaderSend, Worker, WorkerRecv, WorkerCompress,
                WorkerSend, Main, MainRecv, MainClose, MainJoinReader, MainJoinWorker,
                MainResult, Done, vars, mainVars
  <2>2. QED
    BY <2>1 DEF WrittenInv, OrderedOutput
<1>3. QED
  BY <1>1, <1>2

\* The control state of each thread stays in step with what it returns, what
\* it holds and the channels.
LEMMA ControlStep ==
  ASSUME Typed, ReaderControl, WorkerControl, MainControl, [Next]_vars
  PROVE  ReaderControl' /\ WorkerControl' /\ MainControl'
<1> USE DEF Typed
<1>1. CASE ReaderNext \/ ReaderSend
  <2>1. ReaderControl'
    BY <1>1 DEF ReaderNext, ReaderSend, ReaderReturn, ReaderControl, ReaderDone, ReaderTypes
  <2>2. WorkerControl' /\ MainControl'
    BY <1>1 DEF ReaderNext, ReaderSend, WorkerControl, MainControl, Receiving,
                workerVars, mainVars
  <2>3. QED
    BY <2>1, <2>2
<1>2. ASSUME NEW w \in Workers, Worker(w)
      PROVE  ReaderControl' /\ WorkerControl' /\ MainControl'
  <2>1. ReaderControl'
    BY <1>2 DEF Worker, WorkerRecv, WorkerCompress, WorkerSend, ReaderControl, ReaderDone,
                readerVars
  <2>2. MainControl'
    BY <1>2 DEF Worker, WorkerRecv, WorkerCompress, WorkerSend, MainControl, Receiving,
                mainVars
  <2>3. /\ \A v \in Workers : v # w => /\ workerPc'[v] = workerPc[v]
                                      /\ workerRes'[v] = workerRes[v]
                                      /\ hand'[v] = hand[v]
        /\ workerPc'[w] = "done" <=> workerRes'[w] # "none"
        /\ workerPc'[w] \in {"recv", "done"} => hand'[w] = {}
        /\ \A a, b \in hand'[w] : a = b
    <3>1. CASE WorkerRecv(w)
      BY <3>1 DEF WorkerRecv, WorkerReturn, WorkerControl, WorkerTypes
    <3>2. CASE WorkerCompress(w)
      BY <3>2 DEF WorkerCompress, WorkerReturn, WorkerControl, WorkerTypes
    <3>3. CASE WorkerSend(w)
      BY <3>3 DEF WorkerSend, WorkerReturn, WorkerControl, WorkerTypes
    <3>4. QED
      BY <1>2, <3>1, <3>2, <3>3 DEF Worker
  <2>4. WorkerControl'
    BY <2>3 DEF WorkerControl
  <2>5. QED
    BY <2>1, <2>2, <2>4
<1>3. CASE Main
  <2>1. ReaderControl' /\ WorkerControl'
    BY <1>3 DEF Main, MainRecv, MainDrain, MainClose, MainJoinReader, MainJoinWorker,
                MainResult, ReaderControl, ReaderDone, WorkerControl, readerVars, workerVars
  <2>2. MainControl'
    BY <1>3 DEF Main, MainRecv, MainDrain, MainClose, MainJoinReader, MainJoinWorker,
                MainResult, MainReturn, StreamResult, DropReceiver, IsNext, MainControl,
                Receiving, MainTypes, QueueTypes
  <2>3. QED
    BY <2>1, <2>2
<1>4. CASE UNCHANGED vars
  BY <1>4 DEF vars, readerVars, workerVars, mainVars, ReaderControl, ReaderDone,
              WorkerControl, MainControl, Receiving
<1>5. QED
  BY <1>1, <1>2, <1>3, <1>4 DEF Next, Reader, Done

\* A worker ends well only on an empty channel without a sender, or after main
\* stopped receiving.
LEMMA DrainedStep ==
  ASSUME Typed, ReaderControl, WorkerControl, MainControl, DrainedInput, [Next]_vars
  PROVE  DrainedInput'
<1> USE DEF Typed
<1> SUFFICES ASSUME Receiving'
             PROVE  \A w \in Workers : workerRes'[w] = "ok" => ReaderDone' /\ rawQ' = <<>>
  BY DEF DrainedInput
<1>1. Receiving /\ rxOpen
  BY DEF Receiving, MainControl, Next, Reader, ReaderNext, ReaderSend, Worker, WorkerRecv,
         WorkerCompress, WorkerSend, Main, MainRecv, MainDrain, MainClose, MainJoinReader,
         MainJoinWorker, MainResult, MainReturn, Done, vars, mainVars
<1>2. CASE ReaderNext \/ ReaderSend
  <2>1. workerRes' = workerRes
    BY <1>2 DEF ReaderNext, ReaderSend, workerVars
  <2>2. ~ReaderDone
    BY <1>2 DEF ReaderNext, ReaderSend, ReaderDone
  <2>3. QED
    BY <1>1, <2>1, <2>2 DEF DrainedInput
<1>3. ASSUME NEW w \in Workers, Worker(w)
      PROVE  \A v \in Workers : workerRes'[v] = "ok" => ReaderDone' /\ rawQ' = <<>>
  <2>1. ReaderDone' = ReaderDone
    BY <1>3 DEF Worker, WorkerRecv, WorkerCompress, WorkerSend, ReaderDone, readerVars
  <2>2. CASE WorkerRecv(w)
    <3>1. \/ rawQ # <<>> /\ workerRes' = workerRes
          \/ rawQ = <<>> /\ rawQ' = <<>> /\ ReaderDone
      BY <2>2 DEF WorkerRecv
    <3>2. QED
      BY <1>1, <2>1, <3>1 DEF DrainedInput
  <2>3. CASE WorkerCompress(w) \/ WorkerSend(w)
    <3>1. /\ rawQ' = rawQ
          /\ \A v \in Workers : workerRes'[v] = "ok" => workerRes[v] = "ok"
      BY <1>1, <2>3 DEF WorkerCompress, WorkerSend, WorkerReturn, WorkerTypes
    <3>2. QED
      BY <1>1, <2>1, <3>1 DEF DrainedInput
  <2>4. QED
    BY <1>3, <2>2, <2>3 DEF Worker
<1>4. CASE Main \/ UNCHANGED vars
  <2>1. workerRes' = workerRes /\ ReaderDone' = ReaderDone /\ rawQ' = rawQ
    BY <1>4 DEF Main, MainRecv, MainDrain, MainClose, MainJoinReader, MainJoinWorker,
                MainResult, ReaderDone, vars, readerVars, workerVars
  <2>2. QED
    BY <1>1, <2>1 DEF DrainedInput
<1>5. QED
  BY <1>2, <1>3, <1>4 DEF Next, Reader, Done

\* Main is past its loop, without a write error, only when the last sender is
\* gone; a chunk that is not written by then went down with a worker.
LEMMA ClosedStep ==
  ASSUME Typed, WrittenInv, GenuineItems, ReaderControl, WorkerControl, MainControl,
         DrainedInput, NothingLost, ClosedInv, [Next]_vars
  PROVE  ClosedInv'
<1> USE DEF Typed
<1> SUFFICES ASSUME ~Receiving', ~writeError'
             PROVE  /\ WorkersDone'
                    /\ NoWorkerFailed' =>
                          ReaderDone' /\ (readerRes' = "ok" => nextSeq' = Len(Input))
  BY DEF ClosedInv
<1>1. CASE ~Receiving
  <2>1. ~writeError /\ WorkersDone
    BY <1>1 DEF ClosedInv, Next, Reader, ReaderNext, ReaderSend, Worker, WorkerRecv,
                WorkerCompress, WorkerSend, Main, MainRecv, MainDrain, MainClose,
                MainJoinReader, MainJoinWorker, MainResult, Done, vars, mainVars, MainTypes
  <2>2. workerPc' = workerPc /\ workerRes' = workerRes /\ nextSeq' = nextSeq
    BY <1>1, <2>1 DEF WorkersDone, Receiving, Next, Reader, ReaderNext, ReaderSend, Worker,
                WorkerRecv, WorkerCompress, WorkerSend, Main, MainRecv, MainDrain, MainClose,
                MainJoinReader, MainJoinWorker, MainResult, Done, vars, mainVars, workerVars
  <2>3. ReaderDone => ReaderDone' /\ readerRes' = readerRes
    BY DEF ReaderDone, Next, Reader, ReaderNext, ReaderSend, Worker, WorkerRecv,
           WorkerCompress, WorkerSend, Main, MainRecv, MainDrain, MainClose, MainJoinReader,
           MainJoinWorker, MainResult, Done, vars, readerVars
  <2>4. QED
    BY <1>1, <2>1, <2>2, <2>3 DEF ClosedInv, WorkersDone, NoWorkerFailed
<1>2. CASE Receiving
  <2>1. MainRecv /\ compQ = <<>> /\ WorkersDone
    BY <1>2 DEF Receiving, Next, Reader, ReaderNext, ReaderSend, Worker, WorkerRecv,
                WorkerCompress, WorkerSend, Main, MainRecv, MainDrain, MainClose,
                MainJoinReader, MainJoinWorker, MainResult, Done, vars, mainVars
  <2>2. /\ workerPc' = workerPc /\ workerRes' = workerRes /\ nextSeq' = nextSeq
        /\ readerPc' = readerPc /\ readerRes' = readerRes /\ mainPc = "recv"
    BY <2>1 DEF MainRecv, workerVars, readerVars
  <2>3. ASSUME NoWorkerFailed
        PROVE  ReaderDone /\ (readerRes = "ok" => nextSeq = Len(Input))
    <3>1. 1 \in Workers
      BY SizeAssumption DEF Workers
    <3>2. \A w \in Workers : workerRes[w] = "ok" /\ hand[w] = {}
      BY <2>1, <2>3 DEF WorkersDone, WorkerControl, NoWorkerFailed
    <3>3. ReaderDone /\ rawQ = <<>>
      BY <1>2, <3>1, <3>2 DEF DrainedInput
    <3>4. ASSUME readerRes = "ok", nextSeq # Len(Input)
          PROVE  FALSE
      <4>1. nextSeq < Len(Input)
        BY <3>4, InputType DEF WrittenInv, OrderedOutput, MainTypes
      <4>2. Somewhere(nextSeq)
        BY <1>2, <2>3, <3>4, <4>1, InputType DEF NothingLost, MainTypes
      <4>3. Len(compQ) = 0 /\ Len(rawQ) = 0
        BY <2>1, <3>3
      <4>4. \A it \in reorder : it.seq # nextSeq
        BY <2>2 DEF MainControl
      <4>5. QED
        BY <3>2, <4>2, <4>3, <4>4 DEF Somewhere, MainTypes
    <3>5. QED
      BY <3>3, <3>4
  <2>4. QED
    BY <2>1, <2>2, <2>3 DEF WorkersDone, ReaderDone, NoWorkerFailed
<1>3. QED
  BY <1>1, <1>2

\* A chunk leaves one place of the pipeline only for the next one, or goes down
\* with the worker that fails on it.
LEMMA Travels ==
  ASSUME Typed, WorkerControl, MainControl, [Next]_vars, Receiving', NEW s \in Nat,
         Somewhere(s) \/ (s = readerSeq /\ readerSeq' = readerSeq + 1)
  PROVE  \/ Somewhere(s)'
         \/ \E w \in Workers : /\ workerRes[w] = "none" /\ workerRes'[w] \in {"err", "panic"}
                               /\ \E it \in hand[w] : it.seq = s
<1> USE DEF Typed
<1>1. Receiving /\ rxOpen
  BY DEF Receiving, MainControl, Next, Reader, ReaderNext, ReaderSend, Worker, WorkerRecv,
         WorkerCompress, WorkerSend, Main, MainRecv, MainDrain, MainClose, MainJoinReader,
         MainJoinWorker, MainResult, MainReturn, Done, vars, mainVars
<1>2. CASE ReaderNext \/ UNCHANGED vars
  <2>1. /\ rawQ' = rawQ /\ compQ' = compQ /\ hand' = hand /\ reorder' = reorder
        /\ nextSeq' = nextSeq /\ readerSeq' = readerSeq
    BY <1>2 DEF ReaderNext, ReaderReturn, vars, readerVars, workerVars, mainVars
  <2>2. Somewhere(s)
    BY <2>1 DEF ReaderTypes
  <2>3. QED
    BY <2>1, <2>2 DEF Somewhere
<1>3. CASE ReaderSend
  <2> DEFINE it == [seq |-> readerSeq, data |-> Input[readerSeq + 1]]
  <2>1. /\ compQ' = compQ /\ hand' = hand /\ reorder' = reorder /\ nextSeq' = nextSeq
        /\ \/ rawQ' = rawQ /\ readerSeq' = readerSeq
           \/ rawQ' = Append(rawQ, it)
    BY <1>3 DEF ReaderSend, ReaderReturn, workerVars, mainVars
  <2>2. it \in Item /\ it.seq = readerSeq
    BY <1>3, InputType DEF ReaderSend, ReaderTypes, ReaderInRange, Item
  <2> HIDE DEF it
  <2>3. CASE rawQ' = rawQ /\ readerSeq' = readerSeq
    <3>1. Somewhere(s)
      BY <2>3 DEF ReaderTypes
    <3>2. QED
      BY <2>1, <2>3, <3>1 DEF Somewhere
  <2>4. CASE rawQ' = Append(rawQ, it)
    <3>1. /\ rawQ'[Len(rawQ) + 1] = it /\ Len(rawQ) + 1 \in 1..Len(rawQ')
          /\ \A i \in 1..Len(rawQ) : i \in 1..Len(rawQ') /\ rawQ'[i] = rawQ[i]
      BY <2>2, <2>4 DEF QueueTypes
    <3>2. CASE Somewhere(s)
      BY <2>1, <3>1, <3>2 DEF Somewhere
    <3>3. CASE s = readerSeq
      BY <2>2, <3>1, <3>3 DEF Somewhere
    <3>4. QED
      BY <3>2, <3>3
  <2>5. QED
    BY <2>1, <2>3, <2>4
<1>4. ASSUME NEW w \in Workers, Worker(w)
      PROVE  \/ Somewhere(s)'
             \/ /\ workerRes[w] = "none" /\ workerRes'[w] \in {"err", "panic"}
                /\ \E it \in hand[w] : it.seq = s
  <2>1. readerSeq' = readerSeq /\ nextSeq' = nextSeq /\ reorder' = reorder
    BY <1>4 DEF Worker, WorkerRecv, WorkerCompress, WorkerSend, readerVars, mainVars
  <2>2. Somewhere(s)
    BY <2>1 DEF ReaderTypes
  <2>3. CASE WorkerRecv(w)
    <3>1. hand[w] = {}
      BY <2>3 DEF WorkerRecv, WorkerControl
    <3>2. CASE rawQ = <<>>
      <4>1. rawQ' = rawQ /\ compQ' = compQ /\ hand' = [hand EXCEPT ![w] = {}]
        BY <2>3, <3>2 DEF WorkerRecv, WorkerReturn
      <4>2. hand' = hand
        BY <3>1, <4>1 DEF WorkerTypes
      <4>3. QED
        BY <2>1, <2>2, <4>1, <4>2 DEF Somewhere
    <3>3. CASE rawQ # <<>>
      <4>1. /\ rawQ' = Tail(rawQ) /\ compQ' = compQ
            /\ hand' = [hand EXCEPT ![w] = {Head(rawQ)}]
        BY <2>3, <3>3 DEF WorkerRecv
      <4>2. /\ rawQ[1] \in hand'[w]
            /\ \A v \in Workers : \A it \in hand[v] : it \in hand'[v]
        BY <3>1, <3>3, <4>1 DEF WorkerTypes, QueueTypes
      <4>3. \A i \in 1..Len(rawQ) :
               i = 1 \/ (i - 1 \in 1..Len(rawQ') /\ rawQ'[i - 1] = rawQ[i])
        BY <3>3, <4>1, TailElements DEF QueueTypes
      <4>4. QED
        BY <2>1, <2>2, <4>1, <4>2, <4>3 DEF Somewhere
    <3>4. QED
      BY <3>2, <3>3
  <2>4. CASE WorkerCompress(w)
    <3>1. rawQ' = rawQ /\ compQ' = compQ
      BY <2>4 DEF WorkerCompress
    <3>2. CASE hand' = hand
      BY <2>1, <2>2, <3>1, <3>2 DEF Somewhere
    <3>3. CASE hand' # hand
      <4>1. /\ hand' = [hand EXCEPT ![w] = {}] /\ workerRes'[w] \in {"err", "panic"}
            /\ workerRes[w] = "none"
        BY <2>4, <3>3 DEF WorkerCompress, WorkerReturn, WorkerTypes, WorkerControl
      <4>2. \A v \in Workers \ {w} : hand'[v] = hand[v]
        BY <4>1 DEF WorkerTypes
      <4>3. QED
        BY <2>1, <2>2, <3>1, <4>1, <4>2 DEF Somewhere
    <3>4. QED
      BY <3>2, <3>3
  <2>5. CASE WorkerSend(w)
    <3>1. PICK it \in hand[w] : compQ' = Append(compQ, it)
      BY <1>1, <2>5 DEF WorkerSend
    <3>2. rawQ' = rawQ /\ hand' = [hand EXCEPT ![w] = {}]
      BY <1>1, <2>5 DEF WorkerSend
    <3>3. /\ Len(compQ) + 1 \in 1..Len(compQ') /\ compQ'[Len(compQ) + 1] = it
          /\ \A i \in 1..Len(compQ) : i \in 1..Len(compQ') /\ compQ'[i] = compQ[i]
      BY <3>1 DEF QueueTypes
    <3>4. \A v \in Workers : \A x \in hand[v] : x = it \/ x \in hand'[v]
      BY <3>1, <3>2 DEF WorkerControl, WorkerTypes
    <3>5. QED
      BY <2>1, <2>2, <3>2, <3>3, <3>4 DEF Somewhere
  <2>6. QED
    BY <1>4, <2>3, <2>4, <2>5 DEF Worker
<1>5. CASE Main
  <2>1. readerSeq' = readerSeq /\ rawQ' = rawQ /\ hand' = hand
    BY <1>5 DEF Main, MainRecv, MainDrain, MainClose, MainJoinReader, MainJoinWorker,
                MainResult, readerVars, workerVars
  <2>2. Somewhere(s)
    BY <2>1 DEF ReaderTypes
  <2>3. CASE MainRecv
    <3>1. /\ compQ # <<>> /\ compQ' = Tail(compQ) /\ nextSeq' = nextSeq
          /\ reorder' = ReorderInsert(Head(compQ))
      BY <2>3 DEF MainRecv, Receiving
    <3>2. /\ compQ[1] \in reorder'
          /\ \A it \in reorder : it \in reorder' \/ it.seq = compQ[1].seq
      BY <3>1, TailElements DEF ReorderInsert, QueueTypes
    <3>3. \A i \in 1..Len(compQ) :
             i = 1 \/ (i - 1 \in 1..Len(compQ') /\ compQ'[i - 1] = compQ[i])
      BY <3>1, TailElements DEF QueueTypes
    <3>4. QED
      BY <2>1, <2>2, <3>1, <3>2, <3>3 DEF Somewhere
  <2>4. CASE MainDrain
    <3>1. /\ compQ' = compQ
          /\ \/ nextSeq' = nextSeq /\ reorder' = reorder
             \/ /\ nextSeq' = nextSeq + 1
                /\ \A it \in reorder : it.seq = nextSeq \/ it \in reorder'
      BY <2>4 DEF MainDrain, IsNext, Receiving
    <3>2. QED
      BY <2>1, <2>2, <3>1 DEF Somewhere, MainTypes
  <2>5. QED
    BY <1>1, <1>5, <2>3, <2>4 DEF Main, MainClose, MainJoinReader, MainJoinWorker,
       MainResult, Receiving
<1>6. QED
  BY <1>2, <1>3, <1>4, <1>5 DEF Next, Reader, Done

\* What the reader has handed over, after a step.
LEMMA SentStep ==
  ASSUME Typed, [Next]_vars
  PROVE  /\ readerSeq' = readerSeq \/ (readerSeq' = readerSeq + 1 /\ readerPc = "send" /\ ~WorkersDone
                                       /\ readerRes' = readerRes /\ UNCHANGED workerRes)
         /\ readerSeq \in Nat
<1> USE DEF Typed
<1>1. readerSeq \in Nat
  BY DEF ReaderTypes
<1>2. CASE ReaderSend
  BY <1>1, <1>2 DEF ReaderSend, ReaderReturn, workerVars
<1>3. CASE ~ReaderSend
  BY <1>1, <1>3 DEF Next, Reader, ReaderNext, ReaderReturn, Worker, WorkerRecv, WorkerCompress,
                WorkerSend, Main, MainRecv, MainDrain, MainClose, MainJoinReader,
                MainJoinWorker, MainResult, Done, vars, readerVars
<1>4. QED
  BY <1>1, <1>2, <1>3

\* Nothing is lost as long as no worker fails.
LEMMA NothingLostStep ==
  ASSUME Typed, ReaderControl, WorkerControl, MainControl, DrainedInput, NothingLost,
         [Next]_vars
  PROVE  NothingLost'
<1> USE DEF Typed
<1> SUFFICES ASSUME Receiving', NoWorkerFailed'
             PROVE  /\ \A s \in 0..Len(Input) : s < readerSeq' => Somewhere(s)'
                    /\ readerRes' = "ok" => readerSeq' = Len(Input)
  BY DEF NothingLost
<1>1. Receiving
  BY DEF Receiving, MainControl, Next, Reader, ReaderNext, ReaderSend, Worker, WorkerRecv,
         WorkerCompress, WorkerSend, Main, MainRecv, MainDrain, MainClose, MainJoinReader,
         MainJoinWorker, MainResult, MainReturn, Done, vars, mainVars
<1>2. NoWorkerFailed
  BY DEF Next, Reader, ReaderNext, ReaderSend, Worker, WorkerRecv, WorkerCompress, WorkerSend,
         WorkerReturn, Main, MainRecv, MainDrain, MainClose, MainJoinReader, MainJoinWorker,
         MainResult, Done, vars, workerVars, WorkerControl, WorkerTypes, NoWorkerFailed
<1>3. ASSUME NEW s \in 0..Len(Input), s < readerSeq'
      PROVE  Somewhere(s)'
  <2>1. \/ s < readerSeq
        \/ s = readerSeq /\ readerSeq' = readerSeq + 1
    BY <1>3, SentStep, InputType
  <2>2. Somewhere(s) \/ (s = readerSeq /\ readerSeq' = readerSeq + 1)
    BY <1>1, <1>2, <2>1 DEF NothingLost
  <2>3. QED
    BY <2>2, Travels, InputType DEF NoWorkerFailed
<1>4. readerRes' = "ok" => readerSeq' = Len(Input)
  <2> SUFFICES ASSUME readerRes' = "ok" PROVE readerSeq' = Len(Input)
    OBVIOUS
  <2>1. CASE ReaderNext
    BY <1>1, <1>2, <2>1 DEF ReaderNext, ReaderReturn, NothingLost
  <2>2. CASE ReaderSend
    <3>1. 1 \in Workers
      BY SizeAssumption DEF Workers
    <3>2. readerRes # "ok" /\ ~ReaderDone
      BY <2>2 DEF ReaderSend, ReaderControl, ReaderDone
    <3>3. WorkersDone
      BY <2>2, <3>2 DEF ReaderSend
    <3>4. workerRes[1] = "ok"
      BY <1>2, <3>1, <3>3 DEF WorkersDone, WorkerControl, NoWorkerFailed
    <3>5. QED
      BY <1>1, <3>1, <3>2, <3>4 DEF DrainedInput
  <2>3. CASE ~Reader
    <3>1. readerSeq' = readerSeq /\ readerRes' = readerRes
      BY <2>3 DEF Next, Worker, WorkerRecv, WorkerCompress, WorkerSend, Main, MainRecv,
                MainDrain, MainClose, MainJoinReader, MainJoinWorker, MainResult, Done, vars,
                readerVars
    <3>2. QED
      BY <1>1, <1>2, <3>1 DEF NothingLost
  <2>4. QED
    BY <2>1, <2>2, <2>3 DEF Reader
<1>5. QED
  BY <1>3, <1>4

\* The numbers in a queue that a chunk is put in, or taken from.
LEMMA NumbersAppend ==
  ASSUME NEW q \in Seq(Item), NEW it \in Item
  PROVE  /\ Numbers(Append(q, it)) = Numbers(q) \cup {it.seq}
         /\ Once(q) /\ it.seq \notin Numbers(q) => Once(Append(q, it))
<1> DEFINE r == Append(q, it)
<1>1. /\ Len(r) = Len(q) + 1 /\ Len(q) \in Nat /\ r[Len(q) + 1] = it
      /\ \A i \in 1..Len(q) : r[i] = q[i]
  OBVIOUS
<1> HIDE DEF r
<1>2. 1..Len(r) = 1..Len(q) \cup {Len(q) + 1}
  BY <1>1
<1>3. Numbers(r) = Numbers(q) \cup {it.seq}
  BY <1>1, <1>2 DEF Numbers
<1>4. ASSUME Once(q), it.seq \notin Numbers(q), NEW i \in 1..Len(r), NEW j \in 1..Len(r),
             r[i].seq = r[j].seq
      PROVE  i = j
  BY <1>1, <1>2, <1>4 DEF Once, Numbers
<1>5. QED
  BY <1>3, <1>4 DEF r, Once

LEMMA NumbersTail ==
  ASSUME NEW q \in Seq(Item), q # <<>>
  PROVE  /\ Head(q) \in Item /\ Head(q).seq \in Numbers(q)
         /\ Numbers(Tail(q)) \subseteq Numbers(q)
         /\ Once(q) => Once(Tail(q)) /\ Numbers(Tail(q)) = Numbers(q) \ {Head(q).seq}
<1> DEFINE r == Tail(q)
<1>1. /\ Head(q) = q[1] /\ 1 \in 1..Len(q) /\ Len(q) \in Nat /\ Len(r) = Len(q) - 1
      /\ \A i \in 1..Len(r) : i + 1 \in 1..Len(q) /\ r[i] = q[i + 1]
  BY TailElements
<1>2. Head(q) \in Item
  BY <1>1
<1> HIDE DEF r
<1>3. Head(q).seq \in Numbers(q) /\ Numbers(r) \subseteq Numbers(q)
  BY <1>1 DEF Numbers
<1>4. ASSUME Once(q)
      PROVE  Once(r) /\ Numbers(r) = Numbers(q) \ {Head(q).seq}
  <2>1. ASSUME NEW i \in 1..Len(r), NEW j \in 1..Len(r), r[i].seq = r[j].seq
        PROVE  i = j
    <3>1. i + 1 = j + 1
      BY <1>1, <1>4, <2>1 DEF Once
    <3>2. QED
      BY <3>1
  <2>2. Head(q).seq \notin Numbers(r)
    <3> SUFFICES ASSUME NEW i \in 1..Len(r), r[i].seq = q[1].seq PROVE FALSE
      BY <1>1 DEF Numbers
    <3>1. i + 1 = 1
      BY <1>1, <1>4 DEF Once
    <3>2. QED
      BY <3>1
  <2>3. ASSUME NEW n \in Numbers(q), n # Head(q).seq
        PROVE  n \in Numbers(r)
    <3>1. PICK i \in 1..Len(q) : n = q[i].seq
      BY DEF Numbers
    <3>2. i # 1 /\ i - 1 \in 1..Len(r) /\ (i - 1) + 1 = i
      BY <1>1, <2>3, <3>1
    <3>3. r[i - 1] = q[i]
      BY <1>1, <3>2
    <3>4. QED
      BY <3>1, <3>2, <3>3 DEF Numbers
  <2>4. QED
    BY <1>3, <2>1, <2>2, <2>3 DEF Once
<1>5. QED
  BY <1>2, <1>3, <1>4 DEF r

\* No step makes a copy of a chunk.
LEMMA OnePlaceStep ==
  ASSUME Typed, WorkerControl, OnePlace, [Next]_vars
  PROVE  OnePlace'
<1> USE DEF Typed
<1>0. /\ readerSeq \in Nat /\ nextSeq \in Nat /\ rawQ \in Seq(Item) /\ compQ \in Seq(Item)
      /\ hand \in [Workers -> SUBSET Item]
  BY DEF ReaderTypes, MainTypes, QueueTypes, WorkerTypes
<1>1. CASE UNCHANGED <<rawQ, compQ, hand, reorder, nextSeq, readerSeq>>
  <2>1. /\ Numbers(rawQ)' = Numbers(rawQ) /\ Numbers(compQ)' = Numbers(compQ)
        /\ HandNumbers' = HandNumbers /\ BufferNumbers' = BufferNumbers
        /\ Once(rawQ)' = Once(rawQ) /\ Once(compQ)' = Once(compQ)
    BY <1>1 DEF Numbers, HandNumbers, BufferNumbers, Once
  <2>2. QED
    BY <1>1, <2>1 DEF OnePlace
<1>2. CASE ReaderSend
  <2> DEFINE it == [seq |-> readerSeq, data |-> Input[readerSeq + 1]]
  <2>1. /\ compQ' = compQ /\ hand' = hand /\ reorder' = reorder /\ nextSeq' = nextSeq
        /\ \/ rawQ' = rawQ /\ readerSeq' = readerSeq
           \/ rawQ' = Append(rawQ, it) /\ readerSeq' = readerSeq + 1
    BY <1>2 DEF ReaderSend, ReaderReturn, workerVars, mainVars
  <2>2. it \in Item /\ it.seq = readerSeq
    BY <1>2, InputType DEF ReaderSend, ReaderTypes, ReaderInRange, Item
  <2> HIDE DEF it
  <2>3. CASE rawQ' = Append(rawQ, it) /\ readerSeq' = readerSeq + 1
    <3>1. readerSeq \notin Numbers(rawQ) \cup Numbers(compQ) \cup HandNumbers \cup BufferNumbers
      BY <1>0 DEF OnePlace
    <3>2. Numbers(rawQ)' = Numbers(rawQ) \cup {readerSeq} /\ Once(rawQ)'
      BY <1>0, <2>2, <2>3, <3>1, NumbersAppend DEF OnePlace, Numbers, Once
    <3>3. /\ Numbers(compQ)' = Numbers(compQ) /\ HandNumbers' = HandNumbers
          /\ BufferNumbers' = BufferNumbers /\ Once(compQ)' = Once(compQ)
      BY <2>1 DEF Numbers, HandNumbers, BufferNumbers, Once
    <3>4. QED
      BY <1>0, <2>1, <2>3, <3>1, <3>2, <3>3 DEF OnePlace
  <2>4. QED
    BY <1>1, <2>1, <2>3
<1>3. ASSUME NEW w \in Workers, hand' = [hand EXCEPT ![w] = {}],
             UNCHANGED <<rawQ, compQ, reorder, nextSeq, readerSeq>>
      PROVE  OnePlace'
  <2>1. HandNumbers' \subseteq HandNumbers
    BY <1>0, <1>3 DEF HandNumbers
  <2>2. /\ Numbers(rawQ)' = Numbers(rawQ) /\ Numbers(compQ)' = Numbers(compQ)
        /\ BufferNumbers' = BufferNumbers /\ Once(compQ)' = Once(compQ)
        /\ Once(rawQ)' = Once(rawQ)
    BY <1>3 DEF Numbers, BufferNumbers, Once
  <2>3. \A u, v \in Workers : \A x \in hand'[u], y \in hand'[v] : x.seq = y.seq => u = v
    BY <1>0, <1>3 DEF OnePlace
  <2>4. QED
    BY <1>3, <2>1, <2>2, <2>3 DEF OnePlace
<1>4. ASSUME NEW w \in Workers, Worker(w)
      PROVE  OnePlace'
  <2>1. reorder' = reorder /\ nextSeq' = nextSeq /\ readerSeq' = readerSeq
    BY <1>4 DEF Worker, WorkerRecv, WorkerCompress, WorkerSend, readerVars, mainVars
  <2>2. BufferNumbers' = BufferNumbers
    BY <2>1 DEF BufferNumbers
  <2>3. CASE WorkerRecv(w) /\ rawQ # <<>>
    <3>1. /\ hand' = [hand EXCEPT ![w] = {Head(rawQ)}] /\ rawQ' = Tail(rawQ) /\ compQ' = compQ
          /\ hand[w] = {}
      BY <2>3 DEF WorkerRecv, WorkerControl
    <3>2. PICK h \in Item : h = Head(rawQ)
      BY <1>0, <2>3, NumbersTail
    <3>3. /\ h.seq \in Numbers(rawQ) /\ Numbers(rawQ)' = Numbers(rawQ) \ {h.seq} /\ Once(rawQ)'
      <4>1. /\ h.seq \in Numbers(rawQ) /\ Once(Tail(rawQ))
            /\ Numbers(Tail(rawQ)) = Numbers(rawQ) \ {h.seq}
        BY <1>0, <2>3, <3>2, NumbersTail DEF OnePlace
      <4>2. Numbers(rawQ)' = Numbers(Tail(rawQ)) /\ Once(rawQ)' = Once(Tail(rawQ))
        BY <3>1 DEF Numbers, Once
      <4>3. QED
        BY <4>1, <4>2
    <3>4. HandNumbers' = HandNumbers \cup {h.seq}
      BY <1>0, <3>1, <3>2 DEF HandNumbers
    <3>5. Numbers(compQ)' = Numbers(compQ) /\ Once(compQ)' = Once(compQ)
      BY <3>1 DEF Numbers, Once
    <3>6. h.seq \notin HandNumbers
      BY <3>3 DEF OnePlace
    <3>7. \A u, v \in Workers : \A x \in hand'[u], y \in hand'[v] : x.seq = y.seq => u = v
      BY <1>0, <3>1, <3>2, <3>6 DEF OnePlace, HandNumbers
    <3>8. QED
      BY <2>1, <2>2, <3>3, <3>4, <3>5, <3>7 DEF OnePlace
  <2>4. CASE WorkerSend(w) /\ hand' # [hand EXCEPT ![w] = {}]
    BY <2>4 DEF WorkerSend, WorkerReturn
  <2>5. CASE WorkerSend(w) /\ compQ' # compQ
    <3>1. PICK it \in hand[w] : compQ' = Append(compQ, it)
      BY <2>5 DEF WorkerSend
    <3>2. hand' = [hand EXCEPT ![w] = {}] /\ rawQ' = rawQ /\ it \in Item
      BY <1>0, <2>5, <3>1 DEF WorkerSend, WorkerReturn
    <3>3. it.seq \in HandNumbers
      BY <3>1 DEF HandNumbers
    <3>4. Numbers(compQ)' = Numbers(compQ) \cup {it.seq} /\ Once(compQ)'
      BY <1>0, <3>1, <3>2, <3>3, NumbersAppend DEF OnePlace, Numbers, Once
    <3>5. HandNumbers' \subseteq HandNumbers \ {it.seq}
      <4>1. ASSUME NEW v \in Workers, NEW x \in hand'[v]
            PROVE  x.seq \in HandNumbers \ {it.seq}
        <5>1. v # w /\ x \in hand[v]
          BY <1>0, <3>2, <4>1
        <5>2. QED
          BY <3>1, <5>1 DEF OnePlace, HandNumbers
      <4>2. QED
        BY <4>1 DEF HandNumbers
    <3>6. Numbers(rawQ)' = Numbers(rawQ) /\ Once(rawQ)' = Once(rawQ)
      BY <3>2 DEF Numbers, Once
    <3>7. \A u, v \in Workers : \A x \in hand'[u], y \in hand'[v] : x.seq = y.seq => u = v
      BY <1>0, <3>2 DEF OnePlace
    <3>8. QED
      BY <2>1, <2>2, <3>3, <3>4, <3>5, <3>6, <3>7 DEF OnePlace
  <2>6. CASE rawQ' = rawQ /\ compQ' = compQ
    <3>1. hand' = hand \/ hand' = [hand EXCEPT ![w] = {}]
      <4>1. CASE WorkerRecv(w)
        <5>1. rawQ = <<>>
          <6> SUFFICES ASSUME rawQ # <<>> PROVE FALSE
            OBVIOUS
          <6>1. rawQ' = Tail(rawQ)
            BY <4>1 DEF WorkerRecv
          <6>2. Len(Tail(rawQ)) = Len(rawQ) - 1 /\ Len(rawQ) \in Nat
            BY <1>0
          <6>3. QED
            BY <2>6, <6>1, <6>2
        <5>2. QED
          BY <4>1, <5>1 DEF WorkerRecv, WorkerReturn
      <4>2. CASE WorkerCompress(w) \/ WorkerSend(w)
        BY <4>2 DEF WorkerCompress, WorkerSend, WorkerReturn
      <4>3. QED
        BY <1>4, <4>1, <4>2 DEF Worker
    <3>2. QED
      BY <1>1, <1>3, <2>1, <2>6, <3>1
  <2>7. QED
    BY <1>4, <2>3, <2>5, <2>6 DEF Worker, WorkerRecv, WorkerCompress, WorkerSend
<1>5. CASE MainRecv /\ compQ # <<>>
  <2>1. /\ reorder' = ReorderInsert(Head(compQ)) /\ compQ' = Tail(compQ)
        /\ rawQ' = rawQ /\ hand' = hand /\ nextSeq' = nextSeq /\ readerSeq' = readerSeq
    BY <1>5 DEF MainRecv, readerVars, workerVars
  <2>2. PICK h \in Item : h = Head(compQ)
    BY <1>0, <1>5, NumbersTail
  <2>3. /\ h.seq \in Numbers(compQ) /\ Numbers(compQ)' = Numbers(compQ) \ {h.seq} /\ Once(compQ)'
    <3>1. /\ h.seq \in Numbers(compQ) /\ Once(Tail(compQ))
          /\ Numbers(Tail(compQ)) = Numbers(compQ) \ {h.seq}
      BY <1>0, <1>5, <2>2, NumbersTail DEF OnePlace
    <3>2. Numbers(compQ)' = Numbers(Tail(compQ)) /\ Once(compQ)' = Once(Tail(compQ))
      BY <2>1 DEF Numbers, Once
    <3>3. QED
      BY <3>1, <3>2
  <2>4. BufferNumbers' = BufferNumbers \cup {h.seq}
    BY <2>1, <2>2 DEF BufferNumbers, ReorderInsert
  <2>5. \A x, y \in reorder' : x.seq = y.seq => x = y
    BY <2>1, <2>2 DEF OnePlace, ReorderInsert
  <2>6. /\ Numbers(rawQ)' = Numbers(rawQ) /\ HandNumbers' = HandNumbers
        /\ Once(rawQ)' = Once(rawQ)
    BY <2>1 DEF Numbers, HandNumbers, Once
  <2>7. QED
    BY <2>1, <2>3, <2>4, <2>5, <2>6 DEF OnePlace
<1>6. CASE MainDrain
  <2>1. /\ rawQ' = rawQ /\ compQ' = compQ /\ hand' = hand /\ readerSeq' = readerSeq
        /\ \/ reorder' = reorder /\ nextSeq' = nextSeq
           \/ \E it \in reorder : /\ it.seq = nextSeq /\ reorder' = reorder \ {it}
                                  /\ nextSeq' = nextSeq \/ nextSeq' = nextSeq + 1
    BY <1>6 DEF MainDrain, IsNext, readerVars, workerVars
  <2>2. CASE reorder' = reorder /\ nextSeq' = nextSeq
    BY <1>1, <2>1, <2>2
  <2>3. ASSUME NEW it \in reorder, it.seq = nextSeq, reorder' = reorder \ {it},
               nextSeq' = nextSeq \/ nextSeq' = nextSeq + 1
        PROVE  OnePlace'
    <3>1. BufferNumbers' \subseteq BufferNumbers \ {nextSeq} /\ nextSeq \in BufferNumbers
      BY <2>3 DEF BufferNumbers, OnePlace
    <3>2. /\ Numbers(rawQ)' = Numbers(rawQ) /\ Numbers(compQ)' = Numbers(compQ)
          /\ HandNumbers' = HandNumbers /\ Once(rawQ)' = Once(rawQ) /\ Once(compQ)' = Once(compQ)
      BY <2>1 DEF Numbers, HandNumbers, Once
    <3>3. nextSeq < readerSeq
      BY <1>0, <3>1 DEF OnePlace
    <3>4. (Numbers(rawQ) \cup Numbers(compQ) \cup HandNumbers \cup BufferNumbers')
              \subseteq nextSeq'..(readerSeq - 1)
      <4>1. nextSeq \notin Numbers(rawQ) \cup Numbers(compQ) \cup HandNumbers \cup BufferNumbers'
        BY <3>1 DEF OnePlace
      <4>2. ASSUME NEW n \in nextSeq..(readerSeq - 1), n # nextSeq
            PROVE  n \in nextSeq'..(readerSeq - 1)
        BY <1>0, <2>3, <4>2
      <4>3. (Numbers(rawQ) \cup Numbers(compQ) \cup HandNumbers \cup BufferNumbers')
                \subseteq nextSeq..(readerSeq - 1)
        BY <3>1 DEF OnePlace
      <4>4. QED
        BY <4>1, <4>2, <4>3
    <3>5. QED
      BY <1>0, <2>1, <2>3, <3>1, <3>2, <3>3, <3>4 DEF OnePlace
  <2>4. QED
    BY <2>1, <2>2, <2>3
<1>7. CASE MainClose
  <2>1. /\ rawQ' = rawQ /\ hand' = hand /\ reorder' = reorder /\ compQ' = <<>>
        /\ readerSeq' = readerSeq /\ nextSeq' = nextSeq
    BY <1>7 DEF MainClose, DropReceiver, readerVars, workerVars
  <2>2. Numbers(compQ)' = {} /\ Once(compQ)'
    <3>1. Len(compQ') = 0
      BY <2>1
    <3>2. QED
      BY <3>1 DEF Numbers, Once
  <2>3. /\ Numbers(rawQ)' = Numbers(rawQ) /\ HandNumbers' = HandNumbers
        /\ BufferNumbers' = BufferNumbers /\ Once(rawQ)' = Once(rawQ)
    BY <2>1 DEF Numbers, HandNumbers, BufferNumbers, Once
  <2>4. QED
    BY <2>1, <2>2, <2>3 DEF OnePlace
<1>8. CASE ReaderNext \/ (MainRecv /\ compQ = <<>>) \/ MainJoinReader \/ MainJoinWorker
           \/ MainResult \/ UNCHANGED vars
  <2>1. UNCHANGED <<rawQ, compQ, hand, reorder, nextSeq, readerSeq>>
    BY <1>8 DEF ReaderNext, ReaderReturn, MainRecv, MainJoinReader, MainJoinWorker, MainResult,
                vars, readerVars, workerVars, mainVars
  <2>2. QED
    BY <1>1, <2>1
<1>9. QED
  BY <1>2, <1>4, <1>5, <1>6, <1>7, <1>8 DEF Next, Reader, Main, Done

\* The workers, and the chunks handed over, are finitely many.
LEMMA Finite ==
  ASSUME Typed
  PROVE  /\ IsFiniteSet(Workers) /\ IsFiniteSet(FailedWorkers) /\ IsFiniteSet(Lost)
         /\ Cardinality(FailedWorkers) \in Nat /\ Cardinality(Lost) \in Nat
<1>1. IsFiniteSet(Workers) /\ IsFiniteSet(0..Len(Input))
  BY FS_Interval, SizeAssumption, InputType DEF Workers
<1>2. FailedWorkers \in SUBSET Workers /\ Lost \in SUBSET (0..Len(Input))
  BY DEF FailedWorkers, Lost
<1>3. IsFiniteSet(FailedWorkers) /\ IsFiniteSet(Lost)
  BY <1>1, <1>2, FS_Subset
<1>4. QED
  BY <1>1, <1>3, FS_CardinalityType

\* A chunk is lost only when the worker that holds it fails.
LEMMA LostStep ==
  ASSUME Typed, Typed', WorkerControl, MainControl, LostInv, [Next]_vars
  PROVE  LostInv'
<1> SUFFICES ASSUME Receiving' PROVE Cardinality(Lost') <= Cardinality(FailedWorkers')
  BY DEF LostInv
<1>1. Receiving
  BY DEF Receiving, Next, Reader, ReaderNext, ReaderSend, Worker, WorkerRecv, WorkerCompress,
         WorkerSend, Main, MainRecv, MainDrain, MainClose, MainJoinReader, MainJoinWorker,
         MainResult, MainReturn, Done, vars, mainVars
<1>2. /\ IsFiniteSet(FailedWorkers) /\ IsFiniteSet(Lost)
      /\ Cardinality(FailedWorkers) \in Nat /\ Cardinality(Lost) \in Nat
      /\ Cardinality(Lost) <= Cardinality(FailedWorkers)
  BY <1>1, Finite DEF LostInv
<1>3. /\ IsFiniteSet(FailedWorkers') /\ IsFiniteSet(Lost')
      /\ Cardinality(FailedWorkers') \in Nat /\ Cardinality(Lost') \in Nat
  <2>1. /\ IsFiniteSet(Workers) /\ IsFiniteSet(0..Len(Input))
    BY FS_Interval, SizeAssumption, InputType DEF Workers
  <2>2. FailedWorkers' \in SUBSET Workers /\ Lost' \in SUBSET (0..Len(Input))
    BY DEF FailedWorkers, Lost
  <2>3. QED
    BY <2>1, <2>2, FS_Subset, FS_CardinalityType
<1>4. \A w \in Workers : workerRes[w] # "none" => workerRes'[w] = workerRes[w]
  BY DEF Typed, WorkerTypes, WorkerControl, Next, Reader, ReaderNext, ReaderSend, Worker,
         WorkerRecv, WorkerCompress, WorkerSend, WorkerReturn, Main, MainRecv, MainDrain,
         MainClose, MainJoinReader, MainJoinWorker, MainResult, Done, vars, workerVars
<1>5. FailedWorkers \subseteq FailedWorkers'
  BY <1>4 DEF FailedWorkers
<1>6. ASSUME NEW s \in Lost', s \notin Lost
      PROVE  \E w \in Workers : /\ workerRes[w] = "none" /\ workerRes'[w] \in {"err", "panic"}
                                /\ \E it \in hand[w] : it.seq = s
  <2>1. s \in Nat /\ s \in 0..Len(Input) /\ s < readerSeq' /\ ~Somewhere(s)'
    BY <1>6, InputType DEF Lost
  <2>2. s < readerSeq \/ (s = readerSeq /\ readerSeq' = readerSeq + 1)
    BY <2>1, SentStep
  <2>3. Somewhere(s) \/ (s = readerSeq /\ readerSeq' = readerSeq + 1)
    BY <1>6, <2>1, <2>2 DEF Lost
  <2>4. QED
    BY <2>1, <2>3, Travels
<1>7. CASE Lost' \subseteq Lost
  <2>1. Cardinality(Lost') <= Cardinality(Lost)
    BY <1>2, <1>7, FS_Subset
  <2>2. Cardinality(FailedWorkers) <= Cardinality(FailedWorkers')
    BY <1>3, <1>5, FS_Subset
  <2>3. QED
    BY <1>2, <1>3, <2>1, <2>2
<1>8. CASE ~(Lost' \subseteq Lost)
  <2>1. PICK w \in Workers : workerRes[w] = "none" /\ workerRes'[w] \in {"err", "panic"}
    BY <1>6, <1>8
  <2>2. \A v \in Workers : v # w => workerRes'[v] = workerRes[v]
    BY <2>1 DEF Typed, WorkerTypes, Next, Reader, ReaderNext, ReaderSend, Worker, WorkerRecv,
         WorkerCompress, WorkerSend, WorkerReturn, Main, MainRecv, MainDrain, MainClose,
         MainJoinReader, MainJoinWorker, MainResult, Done, vars, workerVars
  <2>3. \A s \in Lost' : s \in Lost \/ \E it \in hand[w] : it.seq = s
    BY <1>6, <2>2
  <2>4. PICK x : Lost' \subseteq Lost \cup {x}
    BY <1>8, <2>3 DEF WorkerControl
  <2>5. Cardinality(Lost \cup {x}) <= Cardinality(Lost) + 1 /\ IsFiniteSet(Lost \cup {x})
    <3>1. /\ IsFiniteSet(Lost \cup {x})
          /\ Cardinality(Lost \cup {x}) = IF x \in Lost THEN Cardinality(Lost)
                                          ELSE Cardinality(Lost) + 1
      BY <1>2, FS_AddElement, Zenon
    <3>2. QED
      BY <1>2, <3>1
  <2>6. Cardinality(Lost') <= Cardinality(Lost \cup {x})
    BY <2>4, <2>5, FS_Subset
  <2>7. w \notin FailedWorkers /\ FailedWorkers \cup {w} \subseteq FailedWorkers'
    BY <1>5, <2>1 DEF FailedWorkers
  <2>8. Cardinality(FailedWorkers \cup {w}) = Cardinality(FailedWorkers) + 1
    BY <1>2, <2>7, FS_AddElement
  <2>9. Cardinality(FailedWorkers \cup {w}) <= Cardinality(FailedWorkers')
    BY <1>3, <2>7, FS_Subset
  <2>10. Cardinality(Lost \cup {x}) \in Nat
    BY <2>5, FS_CardinalityType
  <2>11. QED
    BY <1>2, <1>3, <2>5, <2>6, <2>8, <2>9, <2>10
<1>9. QED
  BY <1>7, <1>8

\* What is joined stays joined, and a normal return means everything was.
LEMMA JoinStep ==
  ASSUME Typed, ReaderControl, WorkerControl, MainControl, ClosedInv, JoinInv, [Next]_vars
  PROVE  JoinInv'
<1> USE DEF Typed
<1>1. CASE Reader
  <2>1. /\ mainPc' = mainPc /\ joined' = joined /\ result' = result
        /\ workerPc' = workerPc /\ workerRes' = workerRes /\ writeError' = writeError
        /\ ~ReaderDone /\ readerRes # "panic"
    BY <1>1 DEF Reader, ReaderNext, ReaderSend, ReaderDone, ReaderControl, workerVars, mainVars
  <2>2. QED
    BY <2>1 DEF JoinInv, WorkersDone, Panicked
<1>2. ASSUME NEW w \in Workers, Worker(w)
      PROVE  JoinInv'
  <2>1. /\ mainPc' = mainPc /\ joined' = joined /\ result' = result
        /\ readerPc' = readerPc /\ readerRes' = readerRes /\ writeError' = writeError
        /\ workerPc[w] # "done"
        /\ \A v \in Workers : v # w => workerPc'[v] = workerPc[v] /\ workerRes'[v] = workerRes[v]
    BY <1>2 DEF Worker, WorkerRecv, WorkerCompress, WorkerSend, WorkerReturn, WorkerTypes,
                readerVars, mainVars
  <2>2. 1..joined \subseteq Workers
    BY SizeAssumption DEF MainTypes, Workers
  <2>3. ~WorkersDone /\ workerRes[w] # "panic" /\ w \notin 1..joined
    BY <2>1 DEF WorkersDone, WorkerControl, JoinInv
  <2>4. Panicked => Panicked'
    BY <2>1, <2>3 DEF Panicked
  <2>5. \A v \in 1..joined' : workerPc'[v] = "done" /\ workerRes'[v] # "panic"
    BY <2>1, <2>2, <2>3 DEF JoinInv
  <2>6. QED
    BY <2>1, <2>3, <2>4, <2>5 DEF JoinInv, ReaderDone
<1>3. CASE Main
  <2>1. /\ readerPc' = readerPc /\ readerRes' = readerRes
        /\ workerPc' = workerPc /\ workerRes' = workerRes
    BY <1>3 DEF Main, MainRecv, MainDrain, MainClose, MainJoinReader, MainJoinWorker,
                MainResult, readerVars, workerVars
  <2>2. ReaderDone' = ReaderDone /\ WorkersDone' = WorkersDone /\ Panicked' = Panicked
    BY <2>1 DEF ReaderDone, WorkersDone, Panicked
  <2>3. CASE MainRecv \/ MainDrain \/ MainClose
    <3>1. joined' = joined /\ result' = result /\ result = "running"
          /\ mainPc' # "join_workers"
      BY <2>3 DEF MainRecv, MainDrain, MainClose, MainControl, MainTypes
    <3>2. QED
      BY <2>1, <2>2, <3>1 DEF JoinInv
  <2>4. CASE MainJoinReader
    BY <2>1, <2>2, <2>4 DEF MainJoinReader, MainReturn, MainControl, JoinInv, Panicked,
                            ReaderDone
  <2>5. CASE MainJoinWorker
    <3>1. joined + 1 \in Workers /\ joined \in Nat
      BY <2>5, SizeAssumption DEF MainJoinWorker, AllJoined, MainTypes, Workers
    <3>2. CASE workerRes[joined + 1] = "panic"
      BY <2>1, <2>2, <2>5, <3>1, <3>2 DEF MainJoinWorker, MainReturn, JoinInv, Panicked
    <3>3. CASE workerRes[joined + 1] # "panic"
      <4>1. /\ joined' = joined + 1 /\ mainPc' = mainPc /\ result' = result
            /\ writeError' = writeError
            /\ workerPc[joined + 1] = "done"
        BY <2>5, <3>3 DEF MainJoinWorker
      <4>2. \A v \in 1..(joined + 1) : v \in 1..joined \/ v = joined + 1
        BY <3>1
      <4>3. QED
        BY <2>1, <2>2, <3>3, <4>1, <4>2 DEF JoinInv
    <3>4. QED
      BY <3>2, <3>3
  <2>6. CASE MainResult
    <3>1. /\ joined = NumWorkers /\ joined' = joined /\ mainPc' = "done"
          /\ mainPc = "join_workers" /\ writeError' = writeError
          /\ result' = "ok" => ~writeError /\ readerRes # "err"
      BY <2>6 DEF MainResult, AllJoined, MainReturn, StreamResult
    <3>2. WorkersDone /\ ReaderDone
      BY <3>1 DEF JoinInv, WorkersDone, Workers
    <3>3. readerRes \notin {"none", "panic"}
      BY <3>1, <3>2 DEF JoinInv, ReaderControl
    <3>4. QED
      BY <2>1, <2>2, <3>1, <3>2, <3>3 DEF JoinInv, ReaderTypes
  <2>7. QED
    BY <1>3, <2>3, <2>4, <2>5, <2>6 DEF Main
<1>4. CASE UNCHANGED vars
  BY <1>4 DEF vars, readerVars, workerVars, mainVars, JoinInv, ReaderDone, WorkersDone, Panicked
<1>5. QED
  BY <1>1, <1>2, <1>3, <1>4 DEF Next, Done

\* The invariant from which the safety properties follow.
THEOREM Invariance == Spec => [](Typed /\ IInv)
<1>1. Init => IInv
  <2> SUFFICES ASSUME Init PROVE IInv
    OBVIOUS
  <2>1. Len(rawQ) = 0 /\ Len(compQ) = 0 /\ Len(written) = 0
    BY DEF Init
  <2>2. /\ hand = [w \in Workers |-> {}] /\ reorder = {} /\ nextSeq = 0 /\ readerSeq = 0
        /\ readerPc = "next" /\ readerRes = "none" /\ rxOpen = TRUE /\ writeError = FALSE
        /\ workerPc = [w \in Workers |-> "recv"] /\ workerRes = [w \in Workers |-> "none"]
        /\ mainPc = "recv" /\ joined = 0 /\ result = "running"
    BY DEF Init
  <2>3. GenuineItems /\ WrittenInv
    BY <2>1, <2>2, InputType DEF GenuineItems, WrittenInv, OrderedOutput
  <2>4. ReaderControl /\ WorkerControl /\ MainControl
    BY <2>2 DEF ReaderControl, ReaderDone, WorkerControl, MainControl, Receiving
  <2>5. DrainedInput /\ NothingLost /\ ClosedInv /\ JoinInv
    BY <2>2, InputType DEF DrainedInput, NothingLost, ClosedInv, JoinInv, Receiving
  <2>6. OnePlace
    BY <2>1, <2>2 DEF OnePlace, Once, Numbers, HandNumbers, BufferNumbers
  <2>7. LostInv
    <3>1. Lost = {} /\ FailedWorkers = {}
      BY <2>2, InputType DEF Lost, FailedWorkers
    <3>2. QED
      BY <3>1, FS_EmptySet DEF LostInv
  <2>8. QED
    BY <2>3, <2>4, <2>5, <2>6, <2>7 DEF IInv
<1>2. Typed /\ Typed' /\ IInv /\ [Next]_vars => IInv'
  BY GenuineStep, WrittenStep, ControlStep, DrainedStep, NothingLostStep, ClosedStep,
     JoinStep, OnePlaceStep, LostStep DEF IInv
<1>3. TypeOK /\ ReaderInRange <=> Typed
  BY DEF TypeOK, Typed
<1>4. QED
  BY TypeCorrect, <1>1, <1>2, <1>3, PTL DEF Spec

-----------------------------------------------------------------------------
(* The properties.                                                         *)

\* The archive writer receives the chunks in file order, in every schedule.
THEOREM OrderedOutputCorrect == Spec => []OrderedOutput
<1>1. IInv => OrderedOutput
  BY DEF IInv, WrittenInv
<1>2. QED
  BY Invariance, <1>1, PTL

\* A place holds a chunk once or not at all.
LEMMA OneOrNone ==
  ASSUME NEW S, \A x, y \in S : x = y
  PROVE  /\ S = {} => Cardinality(S) = 0
         /\ S # {} => Cardinality(S) = 1
<1>1. S # {} => \E x : S = {x}
  OBVIOUS
<1>2. QED
  BY <1>1, FS_EmptySet, FS_Singleton

\* While main receives, no chunk is in two places, and no more chunks are lost
\* than workers failed, whatever the number of workers and however their steps
\* interleave.
THEOREM AccountedCorrect == Spec => []Accounted
<1>1. Typed /\ IInv => Accounted
  <2> SUFFICES ASSUME Typed, IInv, mainPc \in {"recv", "drain"}
               PROVE  LET sent == {n \in 0..Len(Input) : n < readerSeq}
                      IN  /\ \A s \in sent : Copies(s) <= 1
                          /\ Cardinality({s \in sent : Copies(s) = 0})
                                <= Cardinality(FailedWorkers)
    BY DEF Accounted
  <2> DEFINE sent == {n \in 0..Len(Input) : n < readerSeq}
  <2>1. /\ rawQ \in Seq(Item) /\ compQ \in Seq(Item) /\ hand \in [Workers -> SUBSET Item]
        /\ nextSeq \in Nat /\ DOMAIN rawQ = 1..Len(rawQ) /\ DOMAIN compQ = 1..Len(compQ)
    BY DEF Typed, QueueTypes, WorkerTypes, MainTypes
  <2>2. OnePlace /\ LostInv /\ WorkerControl
    BY DEF IInv
  <2>3. ASSUME NEW s \in sent
        PROVE  Copies(s) = IF Somewhere(s) THEN 1 ELSE 0
    <3>1. /\ s \notin Numbers(rawQ) => InQueue(rawQ, s) = {}
          /\ s \in Numbers(rawQ) => InQueue(rawQ, s) # {}
          /\ \A i, j \in InQueue(rawQ, s) : i = j
      BY <2>1, <2>2 DEF Numbers, InQueue, OnePlace, Once
    <3>2. /\ s \notin Numbers(compQ) => InQueue(compQ, s) = {}
          /\ s \in Numbers(compQ) => InQueue(compQ, s) # {}
          /\ \A i, j \in InQueue(compQ, s) : i = j
      BY <2>1, <2>2 DEF Numbers, InQueue, OnePlace, Once
    <3>3. /\ s \notin HandNumbers => InHand(s) = {}
          /\ s \in HandNumbers => InHand(s) # {}
          /\ \A v, w \in InHand(s) : v = w
      BY <2>2 DEF HandNumbers, InHand, OnePlace
    <3>4. /\ s \notin BufferNumbers => InBuffer(s) = {}
          /\ s \in BufferNumbers => InBuffer(s) # {}
          /\ \A x, y \in InBuffer(s) : x = y
      BY <2>2 DEF BufferNumbers, InBuffer, OnePlace
    <3>5. s < nextSeq => s \notin Numbers(rawQ) \cup Numbers(compQ) \cup HandNumbers
                                      \cup BufferNumbers
      <4>1. \A n \in nextSeq..(readerSeq - 1) : n >= nextSeq
        BY <2>1
      <4>2. s \in Nat
        BY InputType
      <4>3. QED
        BY <2>1, <2>2, <4>1, <4>2 DEF OnePlace
    <3>6. Cardinality(InQueue(rawQ, s)) = IF s \in Numbers(rawQ) THEN 1 ELSE 0
      BY <3>1, OneOrNone
    <3>7. Cardinality(InQueue(compQ, s)) = IF s \in Numbers(compQ) THEN 1 ELSE 0
      BY <3>2, OneOrNone
    <3>8. Cardinality(InHand(s)) = IF s \in HandNumbers THEN 1 ELSE 0
      BY <3>3, OneOrNone
    <3>9. Cardinality(InBuffer(s)) = IF s \in BufferNumbers THEN 1 ELSE 0
      BY <3>4, OneOrNone
    <3>10. Copies(s) = IF \/ s < nextSeq
                          \/ s \in Numbers(rawQ) \cup Numbers(compQ) \cup HandNumbers
                                       \cup BufferNumbers
                       THEN 1 ELSE 0
      BY <2>2, <3>5, <3>6, <3>7, <3>8, <3>9 DEF Copies, OnePlace
    <3>11. Somewhere(s) <=> \/ s < nextSeq
                            \/ s \in Numbers(rawQ) \cup Numbers(compQ) \cup HandNumbers
                                       \cup BufferNumbers
      BY DEF Somewhere, Numbers, HandNumbers, BufferNumbers
    <3>12. QED
      BY <3>10, <3>11
  <2>4. {s \in sent : Copies(s) = 0} = Lost
    BY <2>3 DEF Lost
  <2>5. Cardinality(Lost) <= Cardinality(FailedWorkers)
    BY <2>2 DEF LostInv, Receiving
  <2>6. QED
    BY <2>3, <2>4, <2>5
<1>2. QED
  BY <1>1, Invariance, PTL

\* Unless a thread panicked, every thread has ended when the call returns.
THEOREM JoinedBeforeReturnCorrect == Spec => []JoinedBeforeReturn
<1>1. IInv => JoinedBeforeReturn
  BY DEF IInv, JoinInv, JoinedBeforeReturn
<1>2. QED
  BY Invariance, <1>1, PTL

\* Up to the worker errors it drops, the pipeline is a sequential writer of the
\* stream: every step of every thread is a step of OrderedStream or none.
THEOREM Implementation == Spec => ImplementsOrderedStream
<1>1. Init => Ordered!Init
  BY DEF Init, Ordered!Init, ReportedStatus
<1>2. Typed /\ IInv /\ IInv' /\ [Next]_vars => [Ordered!Next]_(Ordered!vars)
  <2> SUFFICES ASSUME Typed, IInv, IInv', [Next]_vars
               PROVE  [Ordered!Next]_(Ordered!vars)
    OBVIOUS
  <2> USE DEF Typed
  <2>1. CASE MainDrain /\ written' # written
    <3>1. PICK it \in reorder : it.seq = nextSeq /\ written' = Append(written, it.data)
      BY <2>1 DEF MainDrain, IsNext
    <3>2. /\ it.data = Input[Len(written) + 1] /\ Len(written) < Len(Input)
      BY <3>1 DEF IInv, GenuineItems, Genuine, WrittenInv
    <3>3. result = "running" /\ result' = result
      BY <2>1 DEF MainDrain, IInv, MainControl, MainTypes
    <3>4. ReportedStatus = "running" /\ ReportedStatus' = "running"
      BY <3>3 DEF ReportedStatus
    <3>5. QED
      BY <3>1, <3>2, <3>4 DEF Ordered!Next, Ordered!Write
  <2>2. CASE MainJoinReader \/ MainJoinWorker \/ MainResult
    <3>1. written' = written /\ result = "running" /\ result' \in {"running", "ok", "err"}
      BY <2>2 DEF MainJoinReader, MainJoinWorker, MainResult, MainReturn, StreamResult, IInv,
                  MainControl, MainTypes
    <3>2. ReportedStatus = "running"
      BY <3>1 DEF ReportedStatus
    <3>3. ReportedStatus' \in {"running", "ok", "err"}
      BY <3>1 DEF ReportedStatus
    <3>4. ASSUME ReportedStatus' = "ok"
          PROVE  written = Input
      <4>1. result' = "ok" /\ FailedWorkers' = {}
        BY <3>1, <3>4 DEF ReportedStatus
      <4>2. /\ mainPc' = "done" /\ ~writeError' /\ readerRes' = "ok" /\ WorkersDone'
        BY <4>1 DEF IInv, JoinInv, MainControl
      <4>3. WorkerTypes'
        BY <2>2 DEF MainJoinReader, MainJoinWorker, MainResult, WorkerTypes, workerVars
      <4>4. NoWorkerFailed'
        BY <4>1, <4>3 DEF FailedWorkers, NoWorkerFailed, WorkerTypes
      <4>5. nextSeq' = Len(Input)
        BY <4>2, <4>4 DEF IInv, ClosedInv, Receiving
      <4>6. Len(written) = Len(Input) /\ \A i \in 1..Len(written) : written[i] = Input[i]
        BY <3>1, <4>5 DEF IInv, WrittenInv, OrderedOutput
      <4>7. QED
        BY <4>6, InputAssumption DEF MainTypes
    <3>5. QED
      BY <3>1, <3>2, <3>3, <3>4 DEF Ordered!Next, Ordered!ReturnOk, Ordered!ReturnErr,
                                    Ordered!vars
  <2>3. CASE ~(MainDrain /\ written' # written)
             /\ ~(MainJoinReader \/ MainJoinWorker \/ MainResult)
    <3>1. written' = written /\ result' = result
      BY <2>3 DEF Next, Reader, ReaderNext, ReaderSend, Worker, WorkerRecv, WorkerCompress,
                  WorkerSend, Main, MainRecv, MainDrain, MainClose, Done, vars, mainVars
    <3>2. result = "ok" => workerRes' = workerRes
      <4> SUFFICES ASSUME result = "ok" PROVE workerRes' = workerRes
        OBVIOUS
      <4>1. \A w \in Workers : workerPc[w] = "done"
        BY DEF IInv, JoinInv, WorkersDone
      <4>2. QED
        BY <4>1 DEF Next, Reader, ReaderNext, ReaderSend, Worker, WorkerRecv, WorkerCompress,
                  WorkerSend, Main, MainRecv, MainDrain, MainClose, MainJoinReader,
                  MainJoinWorker, MainResult, Done, vars, workerVars
    <3>3. ReportedStatus' = ReportedStatus
      BY <3>1, <3>2 DEF ReportedStatus, FailedWorkers
    <3>4. QED
      BY <3>1, <3>3 DEF Ordered!vars
  <2>4. QED
    BY <2>1, <2>2, <2>3
<1>3. QED
  BY Invariance, <1>1, <1>2, PTL DEF Spec, Ordered!Spec, ImplementsOrderedStream
=============================================================================
