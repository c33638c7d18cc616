------------------------- MODULE StreamChunkerProofs -------------------------
(* The chunks are the input, and with full reads those of its content: proofs *)
(* for every input, cuts, buffer and reader.                                  *)
EXTENDS StreamChunker, SequenceTheorems, WellFoundedInduction, TLAPS

\* What a proof by induction on numbers takes: a set of them has a least one.
LEMMA LeastNumber ==
    ASSUME NEW S, S \subseteq Nat, S # {}
    PROVE  \E x \in S : \A y \in S : x <= y
<1>1. PICK x \in S : \A y \in S : ~ (<<y, x>> \in OpToRel(<, Nat))
  BY WFMin, NatLessThanWellFounded
<1>2. ASSUME NEW y \in S PROVE x <= y
  <2>1. x \in Nat /\ y \in Nat /\ ~ (<<y, x>> \in OpToRel(<, Nat))
    BY <1>1
  <2> QED BY <2>1 DEF OpToRel
<1> QED BY <1>2

\* A chunk is some of the window.
LEMMA CutLengthInWindow ==
    ASSUME NEW s, NEW w \in Nat
    PROVE  CutLength(s, w) \in 0..w /\ (CutLength(s, w) = 0 => w = 0)
<1> DEFINE at == { k \in MinSize..w : s + k \in cuts }
<1>1. CASE w < MinSize \/ at = {}
  BY <1>1 DEF CutLength
<1>2. CASE ~ (w < MinSize \/ at = {})
  <2>1. at \subseteq Nat /\ at # {}
    BY <1>2, SizeAssumption
  <2>2. PICK x \in at : \A y \in at : x <= y
    BY <2>1, LeastNumber
  <2>4. Min(at) \in at
    BY <2>2 DEF Min
  <2>5. CutLength(s, w) = Min(at)
    BY <1>2 DEF CutLength
  <2> QED BY <2>4, <2>5, SizeAssumption
<1> QED BY <1>1, <1>2

\* The length of the chunk of the input at s.
LengthAt(s) == CutLength(s, Least(MaxSize, size - s))

LEMMA LengthAtInInput ==
    ASSUME size \in Nat, NEW s \in 0..size, s # size
    PROVE  LengthAt(s) \in 1..(size - s)
<1>1. Least(MaxSize, size - s) \in 1..(size - s)
  BY SizeAssumption DEF Least
<1>2. PICK w \in 1..(size - s) : w = Least(MaxSize, size - s)
  BY <1>1
<1>3. CutLength(s, w) \in 0..w /\ (CutLength(s, w) = 0 => w = 0)
  BY CutLengthInWindow
<1> QED BY <1>2, <1>3 DEF LengthAt

\* Chunking is the function its recursive definition asks for: there is one
\* from every position on, by induction from the end of the input.
LEMMA ChunkingIs ==
    ASSUME size \in Nat
    PROVE  /\ Chunking \in [0..size -> Seq(Nat)]
           /\ Chunking[size] = <<>>
           /\ \A s \in 0..size : s # size =>
                Chunking[s] = <<LengthAt(s)>> \o Chunking[s + LengthAt(s)]
<1> DEFINE Body(g, s) == IF s = size THEN <<>> ELSE <<LengthAt(s)>> \o g[s + LengthAt(s)]
           Is(g, k) == g \in [k..size -> Seq(Nat)] /\ \A s \in k..size : g[s] = Body(g, s)
           bad == { j \in 0..size : ~ \E g : Is(g, size - j) }
<1>1. bad = {}
  <2> SUFFICES ASSUME bad # {} PROVE FALSE
    OBVIOUS
  <2>1. PICK j \in bad : \A i \in bad : j <= i
    <3>1. bad \subseteq Nat
      OBVIOUS
    <3> QED BY <3>1, LeastNumber
  <2>2. j # 0
    <3>0. size - 0 = size
      OBVIOUS
    <3> SUFFICES \E g : Is(g, size)
      BY <2>1, <3>0
    <3> DEFINE g == [s \in size..size |-> <<>>]
    <3>1. Is(g, size)
      BY EmptySeq
    <3> HIDE DEF g
    <3> QED BY <3>1
  <2>3. j - 1 \in 0..size /\ j - 1 \notin bad /\ j \in 1..size
    BY <2>1, <2>2
  <2>4. PICK g : Is(g, size - (j - 1))
    BY <2>3
  <2> DEFINE k == size - j
             n == LengthAt(k)
             h == [s \in k..size |-> IF s = k THEN <<n>> \o g[k + n] ELSE g[s]]
  <2>5. k \in 0..size /\ k # size /\ size - (j - 1) = k + 1
    BY <2>3
  <2>6. n \in 1..(size - k)
    BY <2>5, LengthAtInInput
  <2>7. g \in [(k + 1)..size -> Seq(Nat)] /\ \A s \in (k + 1)..size : g[s] = Body(g, s)
    BY <2>4, <2>5
  <2> HIDE DEF k, n
  <2>8. k + n \in (k + 1)..size /\ h[k] = <<n>> \o g[k + n] /\ <<n>> \o g[k + n] \in Seq(Nat)
    <3>1. k + n \in (k + 1)..size
      BY <2>5, <2>6
    <3>2. g[k + n] \in Seq(Nat) /\ <<n>> \in Seq(Nat)
      BY <3>1, <2>6, <2>7
    <3>3. <<n>> \o g[k + n] \in Seq(Nat)
      BY <3>2, ConcatProperties
    <3> QED BY <3>1, <3>3, <2>5
  <2>9. \A s \in (k + 1)..size : h[s] = g[s]
    BY <2>5
  <2>10. h \in [k..size -> Seq(Nat)]
    BY <2>5, <2>7, <2>8
  <2> HIDE DEF h
  <2>11. ASSUME NEW s \in k..size PROVE h[s] = Body(h, s)
    <3>1. CASE s = k
      BY <3>1, <2>5, <2>8, <2>9 DEF n
    <3>2. CASE s # k /\ s # size
      <4>1. s \in (k + 1)..size /\ s \in 0..size
        BY <3>2, <2>5
      <4>2. LengthAt(s) \in 1..(size - s)
        BY <3>2, <4>1, LengthAtInInput
      <4>3. s + LengthAt(s) \in (k + 1)..size
        BY <4>1, <4>2, <2>5
      <4>4. h[s] = g[s] /\ h[s + LengthAt(s)] = g[s + LengthAt(s)]
        BY <4>1, <4>3, <2>9
      <4>5. g[s] = <<LengthAt(s)>> \o g[s + LengthAt(s)]
        BY <3>2, <4>1, <2>7
      <4> QED BY <3>2, <4>4, <4>5
    <3>3. CASE s # k /\ s = size
      <4>1. s \in (k + 1)..size
        BY <3>3, <2>5
      <4> QED BY <3>3, <4>1, <2>7, <2>9
    <3> QED BY <3>1, <3>2, <3>3
  <2>12. Is(h, k)
    BY <2>10, <2>11
  <2> QED BY <2>1, <2>12 DEF k
<1>2. PICK g : Is(g, 0)
  <2>1. size \in 0..size /\ size - size = 0 /\ size \notin bad
    BY <1>1
  <2> QED BY <2>1
<1>3. g = [s \in 0..size |-> Body(g, s)]
  BY <1>2
<1>4. Chunking = CHOOSE f : f = [s \in 0..size |-> Body(f, s)]
  BY DEF Chunking, LengthAt
<1> HIDE DEF Body
<1>5. Chunking = [s \in 0..size |-> Body(Chunking, s)]
  BY <1>3, <1>4
<1>6. \A s \in 0..size : Chunking[s] = Body(Chunking, s)
  BY <1>5
<1> DEFINE odd == { j \in 0..size : Chunking[size - j] \notin Seq(Nat) }
<1>7. odd = {}
  <2> SUFFICES ASSUME odd # {} PROVE FALSE
    OBVIOUS
  <2>1. PICK j \in odd : \A i \in odd : j <= i
    <3>1. odd \subseteq Nat
      OBVIOUS
    <3> QED BY <3>1, LeastNumber
  <2>2. PICK s \in 0..size : s = size - j
    BY <2>1
  <2>3. Chunking[s] \notin Seq(Nat)
    BY <2>1, <2>2
  <2>4. s # size
    BY <1>6, <2>3, EmptySeq DEF Body
  <2>5. PICK n \in 1..(size - s) : n = LengthAt(s)
    BY <2>4, LengthAtInInput
  <2>6. j - n \in 0..size /\ j - n \notin odd /\ size - (j - n) = s + n
    BY <2>1, <2>2, <2>5
  <2>7. Chunking[s + n] \in Seq(Nat) /\ <<n>> \in Seq(Nat)
    BY <2>5, <2>6
  <2>8. Chunking[s] = <<n>> \o Chunking[s + n]
    BY <1>6, <2>4, <2>5 DEF Body
  <2> QED BY <2>3, <2>7, <2>8, ConcatProperties
<1>8. \A s \in 0..size : Chunking[s] \in Seq(Nat)
  <2> SUFFICES ASSUME NEW s \in 0..size PROVE Chunking[s] \in Seq(Nat)
    OBVIOUS
  <2>1. PICK j \in 0..size : size - j = s
    <3>1. size - s \in 0..size /\ size - (size - s) = s
      OBVIOUS
    <3> QED BY <3>1
  <2>2. j \notin odd
    BY <1>7
  <2> QED BY <2>1, <2>2
<1>9. Chunking \in [0..size -> Seq(Nat)]
  BY <1>5, <1>8
<1>10. Chunking[size] = <<>>
  <2>1. size \in 0..size
    OBVIOUS
  <2> QED BY <1>6, <2>1 DEF Body
<1>11. ASSUME NEW s \in 0..size, s # size
       PROVE  Chunking[s] = <<LengthAt(s)>> \o Chunking[s + LengthAt(s)]
  BY <1>6, <1>11 DEF Body
<1> QED BY <1>9, <1>10, <1>11

-----------------------------------------------------------------------------
(* The invariant.                                                           *)

\* What is in the buffer is the last of what was read, in order.
BufferInv ==
    /\ filled <= pos
    /\ \A i \in 1..filled : buffer[i] = pos - filled + i

\* What was handed out is what was read and is not waiting in the buffer.
OutInv ==
    /\ Len(out) = pos - Available
    /\ \A i \in 1..Len(out) : out[i] = i

\* The end of the input is known when there is nothing left to cut.
EofInv ==
    /\ eof => pos = size
    /\ pc = "check" /\ filled = 0 => eof
    /\ pc = "cut" /\ Available = 0 => eof
    /\ pc = "end" => eof /\ Available = 0
    /\ pc \in {"first", "more"} => cursor <= BufferSize \div 2

\* An empty chunk is cut when everything was.
LensInv ==
    \A i \in 1..Len(lens) :
        /\ lens[i] <= MaxSize
        /\ lens[i] = 0 => i = Len(lens) /\ eof /\ Available = 0 /\ pc \in {"idle", "end"}

IInv == TypeOK /\ BufferInv /\ OutInv /\ EofInv /\ LensInv

LEMMA InitIInv == Init => IInv
<1> SUFFICES ASSUME Init PROVE IInv
  OBVIOUS
<1>1. size \in Nat
  BY InputAssumption DEF Init
<1>2. TypeOK
  <2>1. buffer \in [1..BufferSize -> 0..size]
    BY <1>1 DEF Init
  <2>2. out \in Seq(Nat) /\ lens \in Seq(Nat)
    BY EmptySeq DEF Init
  <2>3. pos \in 0..size /\ filled \in 0..BufferSize /\ cursor \in 0..filled
    BY <1>1, SizeAssumption DEF Init
  <2> QED BY <2>1, <2>2, <2>3 DEF Init, TypeOK
<1>3. BufferInv /\ EofInv
  BY <1>1, SizeAssumption DEF Init, BufferInv, EofInv, Available
<1>4. OutInv /\ LensInv
  BY <1>1 DEF Init, OutInv, LensInv, Available
<1> QED BY <1>2, <1>3, <1>4 DEF IInv

-----------------------------------------------------------------------------
(* Each action.                                                             *)

\* Moving what is left to the front changes none of it.
LEMMA ShiftKeeps ==
    ASSUME IInv, Shift, UNCHANGED <<size, pos>>
    PROVE  /\ buffer' \in [1..BufferSize -> 0..size]
           /\ filled' \in 0..BufferSize /\ cursor' \in 0..filled'
           /\ Available' = Available
           /\ BufferInv'
           /\ cursor' <= BufferSize \div 2
<1> USE DEF IInv, TypeOK, BufferInv, Available
<1>0. size \in Nat /\ BufferSize \in Nat /\ filled \in Nat /\ cursor \in Nat /\ pos \in Nat
  BY InputAssumption, SizeAssumption
<1>1. CASE MustShift
  <2>1. filled' = filled - cursor /\ cursor' = 0
    BY <1>1 DEF Shift
  <2>2. buffer' = [i \in 1..BufferSize |->
                     IF i <= filled - cursor THEN buffer[cursor + i] ELSE buffer[i]]
    BY <1>1 DEF Shift
  <2>3. ASSUME NEW i \in 1..BufferSize
        PROVE  buffer'[i] \in 0..size /\ (i <= filled - cursor => buffer'[i] = buffer[cursor + i])
    <3>1. CASE i <= filled - cursor
      <4>1. cursor + i \in 1..BufferSize
        BY <1>0, <3>1
      <4> QED BY <2>2, <3>1, <4>1
    <3>2. CASE ~ (i <= filled - cursor)
      BY <2>2, <3>2
    <3> QED BY <3>1, <3>2
  <2>4. buffer' \in [1..BufferSize -> 0..size]
    BY <2>2, <2>3
  <2>5. BufferInv'
    <3> SUFFICES ASSUME NEW i \in 1..(filled - cursor)
                 PROVE  buffer'[i] = pos - (filled - cursor) + i
      BY <1>0, <2>1
    <3>1. i \in 1..BufferSize /\ cursor + i \in 1..filled
      BY <1>0
    <3>2. buffer'[i] = buffer[cursor + i]
      BY <2>3, <3>1, <1>0
    <3>3. buffer[cursor + i] = pos - filled + (cursor + i)
      BY <3>1
    <3> QED BY <3>2, <3>3, <1>0
  <2> QED BY <1>0, <2>1, <2>4, <2>5
<1>2. CASE ~ MustShift
  BY <1>0, <1>2 DEF Shift, MustShift
<1> QED BY <1>1, <1>2

LEMMA CallDrainedKeeps == IInv /\ CallDrained => IInv'
<1> SUFFICES ASSUME IInv, CallDrained PROVE IInv'
  OBVIOUS
<1>0. /\ size \in Nat /\ BufferSize \in Nat /\ filled \in Nat /\ cursor \in Nat /\ pos \in Nat
      /\ MaxSize \in Nat \ {0}
  BY InputAssumption, SizeAssumption DEF IInv, TypeOK
<1>1. UNCHANGED <<inputVars, pos, eof, out, lens>> /\ pc = "idle" /\ Available = 0
  BY <1>0 DEF CallDrained, IInv, TypeOK, Available
<1>2. CASE eof
  <2>1. pc' = "end" /\ UNCHANGED <<buffer, cursor, filled>>
    BY <1>2 DEF CallDrained
  <2> QED BY <1>1, <1>2, <2>1 DEF IInv, TypeOK, BufferInv, OutInv, EofInv, LensInv, Available,
                                  inputVars
<1>3. CASE ~ eof
  <2>1. pc' = "first" /\ Shift
    BY <1>3 DEF CallDrained
  <2>2. /\ buffer' \in [1..BufferSize -> 0..size]
        /\ filled' \in 0..BufferSize /\ cursor' \in 0..filled'
        /\ Available' = 0 /\ BufferInv' /\ cursor' <= BufferSize \div 2
    BY <1>1, <2>1, ShiftKeeps DEF inputVars
  <2>3. TypeOK'
    BY <1>1, <2>1, <2>2 DEF IInv, TypeOK, inputVars
  <2>4. OutInv' /\ EofInv'
    BY <1>0, <1>1, <1>3, <2>1, <2>2 DEF IInv, OutInv, EofInv, inputVars
  <2>5. LensInv'
    BY <1>1, <1>3 DEF IInv, LensInv
  <2> QED BY <2>2, <2>3, <2>4, <2>5 DEF IInv
<1> QED BY <1>2, <1>3

LEMMA CallKeeps == IInv /\ Call => IInv'
<1> SUFFICES ASSUME IInv, Call PROVE IInv'
  OBVIOUS
<1>1. /\ UNCHANGED <<inputVars, pos, bufferVars, out, lens>> /\ pc' = "check"
      /\ filled # 0 /\ Available # 0
  BY DEF Call, IInv, TypeOK, Available
<1> QED BY <1>1 DEF IInv, TypeOK, BufferInv, OutInv, EofInv, LensInv, Available,
                    inputVars, bufferVars

LEMMA CheckKeeps == IInv /\ Check => IInv'
<1> SUFFICES ASSUME IInv, Check PROVE IInv'
  OBVIOUS
<1>0. /\ size \in Nat /\ BufferSize \in Nat /\ filled \in Nat /\ cursor \in Nat /\ pos \in Nat
      /\ MaxSize \in Nat \ {0} /\ Available \in Nat
  BY InputAssumption, SizeAssumption DEF IInv, TypeOK, Available
<1>1. UNCHANGED <<inputVars, pos, eof, out, lens>> /\ pc = "check"
  BY DEF Check
<1>2. \A i \in 1..Len(lens) : lens[i] <= MaxSize /\ lens[i] # 0
  BY <1>1 DEF IInv, LensInv
<1>3. CASE filled = 0
  <2>1. pc' = "end" /\ UNCHANGED <<buffer, cursor, filled>> /\ eof /\ Available = 0
    <3>1. eof
      BY <1>1, <1>3 DEF IInv, EofInv
    <3>2. Available = 0
      <4>1. cursor \in 0..filled
        BY DEF IInv, TypeOK
      <4>2. cursor = 0
        BY <4>1, <1>0, <1>3
      <4> QED BY <4>2, <1>0, <1>3 DEF Available
    <3> QED BY <1>3, <3>1, <3>2 DEF Check
  <2> QED BY <1>1, <1>2, <2>1 DEF IInv, TypeOK, BufferInv, OutInv, EofInv, LensInv, Available,
                                  inputVars
<1>4. CASE filled # 0 /\ Available < MaxSize /\ ~ eof
  <2>1. pc' = "more" /\ Shift
    BY <1>4 DEF Check
  <2>2. /\ buffer' \in [1..BufferSize -> 0..size]
        /\ filled' \in 0..BufferSize /\ cursor' \in 0..filled'
        /\ Available' = Available /\ BufferInv' /\ cursor' <= BufferSize \div 2
    BY <1>1, <2>1, ShiftKeeps DEF inputVars
  <2>3. TypeOK'
    BY <1>1, <2>1, <2>2 DEF IInv, TypeOK, inputVars
  <2>4. OutInv' /\ EofInv'
    BY <1>0, <1>1, <1>4, <2>1, <2>2 DEF IInv, OutInv, EofInv, inputVars
  <2>5. LensInv'
    BY <1>1, <1>2 DEF LensInv
  <2> QED BY <2>2, <2>3, <2>4, <2>5 DEF IInv
<1>5. CASE filled # 0 /\ ~ (Available < MaxSize /\ ~ eof)
  <2>1. pc' = "cut" /\ UNCHANGED <<buffer, cursor, filled>>
    BY <1>5 DEF Check
  <2>2. Available = 0 => eof
    BY <1>0, <1>5
  <2> QED BY <1>1, <1>2, <2>1, <2>2 DEF IInv, TypeOK, BufferInv, OutInv, EofInv, LensInv,
                                       Available, inputVars
<1> QED BY <1>3, <1>4, <1>5

LEMMA ReadSomeKeeps == IInv /\ ReadSome => IInv'
<1> SUFFICES ASSUME IInv, ReadSome PROVE IInv'
  OBVIOUS
<1>0. /\ size \in Nat /\ BufferSize \in Nat /\ filled \in 0..BufferSize /\ cursor \in 0..filled
      /\ pos \in 0..size /\ MaxSize \in Nat \ {0} /\ filled <= pos
  BY InputAssumption, SizeAssumption DEF IInv, TypeOK, BufferInv
<1>1. PICK n \in 1..Room : Receive(n)
  BY DEF ReadSome
<1>2. n \in Nat \ {0} /\ filled + n <= BufferSize /\ pos + n <= size
  BY <1>0 DEF Room, Least
<1>3. /\ UNCHANGED <<inputVars, cursor, eof, out, lens>>
      /\ pc \in {"first", "more"} /\ ~ eof
      /\ filled' = filled + n /\ pos' = pos + n
      /\ pc' = pc \/ pc' = AfterRefill
  BY <1>1 DEF ReadSome, Receive, Refilling
<1>4. buffer' = [i \in 1..BufferSize |->
                   IF filled < i /\ i <= filled + n THEN pos + i - filled ELSE buffer[i]]
  BY <1>1 DEF Receive
<1>5. \A i \in 1..BufferSize : buffer[i] \in 0..size
  BY DEF IInv, TypeOK
<1>6. buffer' \in [1..BufferSize -> 0..size]
  <2> SUFFICES ASSUME NEW i \in 1..BufferSize PROVE buffer'[i] \in 0..size
    BY <1>4
  <2>1. CASE filled < i /\ i <= filled + n
    BY <2>1, <1>0, <1>2, <1>4
  <2>2. CASE ~ (filled < i /\ i <= filled + n)
    BY <2>2, <1>4, <1>5
  <2> QED BY <2>1, <2>2
<1>7. BufferInv'
  <2> SUFFICES ASSUME NEW i \in 1..(filled + n) PROVE buffer'[i] = pos - filled + i
    BY <1>0, <1>2, <1>3 DEF BufferInv
  <2>1. i \in 1..BufferSize
    BY <1>0, <1>2
  <2>2. CASE filled < i
    BY <2>1, <2>2, <1>0, <1>2, <1>4
  <2>3. CASE ~ (filled < i)
    <3>1. buffer'[i] = buffer[i] /\ i \in 1..filled
      BY <2>1, <2>3, <1>0, <1>2, <1>4
    <3> QED BY <3>1 DEF IInv, BufferInv
  <2> QED BY <2>2, <2>3
<1>8. /\ Available' = Available + n /\ Available \in Nat
      /\ pos' - Available' = pos - Available
  BY <1>0, <1>2, <1>3 DEF Available
<1>9. TypeOK'
  BY <1>0, <1>2, <1>3, <1>6 DEF IInv, TypeOK, AfterRefill, inputVars
<1>10. OutInv'
  BY <1>3, <1>8 DEF IInv, OutInv
<1>11. EofInv'
  <2>1. Available' # 0 /\ filled' # 0 /\ pc' # "end"
    BY <1>0, <1>2, <1>3, <1>8 DEF AfterRefill
  <2>2. cursor' <= BufferSize \div 2 /\ eof' = FALSE
    BY <1>3 DEF IInv, EofInv, TypeOK
  <2> QED BY <2>1, <2>2 DEF EofInv
<1>12. LensInv'
  BY <1>3 DEF IInv, LensInv
<1> QED BY <1>7, <1>9, <1>10, <1>11, <1>12 DEF IInv

LEMMA ReadEofKeeps == IInv /\ ReadEof => IInv'
<1> SUFFICES ASSUME IInv, ReadEof PROVE IInv'
  OBVIOUS
<1>1. /\ UNCHANGED <<inputVars, pos, buffer, cursor, filled, pc, out, lens>>
      /\ eof' = TRUE /\ pos = size /\ pc \in {"first", "more"} /\ ~ eof
  BY DEF ReadEof, Refilling
<1> QED BY <1>1 DEF IInv, TypeOK, BufferInv, OutInv, EofInv, LensInv, Available, inputVars

LEMMA ReadFailsKeeps == IInv /\ ReadFails => IInv'
<1> SUFFICES ASSUME IInv, ReadFails PROVE IInv'
  OBVIOUS
<1>1. /\ UNCHANGED <<inputVars, pos, bufferVars, out, lens>>
      /\ pc' = "failed" /\ pc \in {"first", "more"}
  BY DEF ReadFails, Refilling
<1> QED BY <1>1 DEF IInv, TypeOK, BufferInv, OutInv, EofInv, LensInv, Available, inputVars,
                    bufferVars

LEMMA RefillDoneKeeps == IInv /\ RefillDone => IInv'
<1> SUFFICES ASSUME IInv, RefillDone PROVE IInv'
  OBVIOUS
<1>0. /\ BufferSize \in Nat /\ MaxSize \in Nat \ {0} /\ 2 * MaxSize <= BufferSize
      /\ filled \in 0..BufferSize /\ cursor \in 0..filled
  BY SizeAssumption DEF IInv, TypeOK
<1>1. /\ UNCHANGED <<inputVars, pos, bufferVars, out, lens>>
      /\ pc' = AfterRefill /\ pc \in {"first", "more"} /\ (filled = BufferSize \/ eof)
  BY DEF RefillDone, Refilling
<1>2. pc' \in {"check", "cut"}
  BY <1>1 DEF AfterRefill
<1>3. filled = 0 => eof
  BY <1>0, <1>1
<1>4. Available = 0 => eof
  <2>1. cursor <= BufferSize \div 2
    BY <1>1 DEF IInv, EofInv
  <2> QED BY <2>1, <1>0, <1>1 DEF Available
<1> QED BY <1>1, <1>2, <1>3, <1>4 DEF IInv, TypeOK, BufferInv, OutInv, EofInv, LensInv,
                                     Available, inputVars, bufferVars, AfterRefill

\* A chunk takes some of what is in the buffer, and at most max_size.
LEMMA NextLengthTakes ==
    ASSUME IInv
    PROVE  /\ NextLength \in 0..Available /\ NextLength <= MaxSize
           /\ NextLength = 0 => Available = 0
<1>0. MaxSize \in Nat \ {0} /\ Available \in Nat
  BY SizeAssumption DEF IInv, TypeOK, Available
<1>1. Window \in Nat /\ Window <= Available /\ Window <= MaxSize /\ (Window = 0 => Available = 0)
  BY <1>0 DEF Window, Least
<1>2. NextLength \in 0..Window /\ (NextLength = 0 => Window = 0)
  BY <1>1, CutLengthInWindow DEF NextLength
<1> QED BY <1>0, <1>1, <1>2

LEMMA CutKeeps == IInv /\ Cut => IInv'
<1> SUFFICES ASSUME IInv, Cut PROVE IInv'
  OBVIOUS
<1>0. /\ size \in Nat /\ BufferSize \in Nat /\ filled \in 0..BufferSize /\ cursor \in 0..filled
      /\ pos \in 0..size /\ MaxSize \in Nat \ {0} /\ filled <= pos /\ eof \in BOOLEAN
      /\ out \in Seq(Nat) /\ lens \in Seq(Nat) /\ Available \in Nat
  BY InputAssumption, SizeAssumption DEF IInv, TypeOK, BufferInv, Available
<1>1. /\ UNCHANGED <<inputVars, pos, buffer, filled, eof>>
      /\ pc = "cut" /\ pc' = "idle"
  BY DEF Cut
<1> DEFINE piece == SubSeq(buffer, cursor + 1, cursor + NextLength)
<1>2. /\ NextLength \in 0..Available /\ NextLength <= MaxSize
      /\ NextLength = 0 => Available = 0
  BY NextLengthTakes
<1>3. PICK n \in 0..Available : n = NextLength
  BY <1>2
<1>4. out' = out \o piece /\ lens' = Append(lens, n) /\ cursor' = cursor + n
  BY <1>3 DEF Cut
<1>5. \A i \in 1..filled : buffer[i] = pos - filled + i /\ buffer[i] \in Nat
  BY <1>0 DEF IInv, BufferInv
<1>6. /\ piece \in Seq(Nat) /\ Len(piece) = n
      /\ \A i \in 1..n : piece[i] = buffer[cursor + i]
  <2>1. \A i \in (cursor + 1)..(cursor + n) : buffer[i] \in Nat
    BY <1>0, <1>5 DEF Available
  <2>2. cursor + 1 \in Int /\ cursor + n \in Int
    BY <1>0
  <2>3. /\ SubSeq(buffer, cursor + 1, cursor + n) \in Seq(Nat)
        /\ Len(SubSeq(buffer, cursor + 1, cursor + n)) =
              IF cursor + 1 <= cursor + n THEN (cursor + n) - (cursor + 1) + 1 ELSE 0
        /\ \A i \in 1..((cursor + n) - (cursor + 1) + 1) :
              SubSeq(buffer, cursor + 1, cursor + n)[i] = buffer[(cursor + 1) + i - 1]
    BY <2>1, <2>2, SubSeqProperties
  <2>4. piece = SubSeq(buffer, cursor + 1, cursor + n)
    BY <1>3
  <2>5. \A i \in 1..n : (cursor + 1) + i - 1 = cursor + i /\ i \in 1..((cursor + n) - (cursor + 1) + 1)
    BY <1>0, <1>3
  <2> QED BY <2>3, <2>4, <2>5, <1>0, <1>3
<1>7. Len(out) = pos - Available /\ \A i \in 1..Len(out) : out[i] = i
  BY DEF IInv, OutInv
<1>8. /\ out' \in Seq(Nat) /\ Len(out') = Len(out) + n
      /\ \A i \in 1..(Len(out) + n) :
           out'[i] = IF i <= Len(out) THEN out[i] ELSE piece[i - Len(out)]
  BY <1>0, <1>4, <1>6, ConcatProperties
<1>9. Available' = Available - n
  BY <1>0, <1>1, <1>4 DEF Available
<1>10. OutInv'
  <2>1. Len(out') = pos' - Available'
    BY <1>0, <1>1, <1>3, <1>7, <1>8, <1>9
  <2>2. ASSUME NEW i \in 1..Len(out') PROVE out'[i] = i
    <3>1. CASE i <= Len(out)
      <4>1. i \in 1..Len(out) /\ i \in 1..(Len(out) + n)
        BY <3>1, <1>0, <1>7, <1>8
      <4> QED BY <3>1, <4>1, <1>7, <1>8
    <3>2. CASE ~ (i <= Len(out))
      <4>1. i - Len(out) \in 1..n /\ out'[i] = piece[i - Len(out)]
        BY <3>2, <2>2, <1>0, <1>3, <1>8
      <4>2. out'[i] = buffer[cursor + (i - Len(out))]
        BY <4>1, <1>6
      <4>3. cursor + (i - Len(out)) \in 1..filled
        BY <4>1, <1>0, <1>3 DEF Available
      <4>4. out'[i] = pos - filled + (cursor + (i - Len(out)))
        BY <4>2, <4>3, <1>5
      <4> QED BY <4>4, <1>0, <1>7 DEF Available
    <3> QED BY <3>1, <3>2
  <2> QED BY <2>1, <2>2 DEF OutInv
<1>11. TypeOK'
  <2>1. cursor' \in 0..filled'
    BY <1>0, <1>1, <1>3, <1>4 DEF Available
  <2>2. lens' \in Seq(Nat)
    BY <1>0, <1>3, <1>4
  <2> QED BY <2>1, <2>2, <1>1, <1>8 DEF IInv, TypeOK, inputVars
<1>12. BufferInv'
  BY <1>1 DEF IInv, BufferInv
<1>13. EofInv'
  BY <1>1 DEF IInv, EofInv, inputVars
<1>14. LensInv'
  <2>1. /\ Len(lens') = Len(lens) + 1 /\ lens'[Len(lens) + 1] = n
        /\ \A i \in 1..Len(lens) : lens'[i] = lens[i]
    BY <1>0, <1>3, <1>4
  <2>2. \A i \in 1..Len(lens) : lens[i] <= MaxSize /\ lens[i] # 0
    BY <1>1 DEF IInv, LensInv
  <2>3. n = 0 => eof /\ Available = 0
    BY <1>1, <1>2, <1>3 DEF IInv, EofInv
  <2>4. ASSUME NEW i \in 1..Len(lens')
        PROVE  /\ lens'[i] <= MaxSize
               /\ lens'[i] = 0 => i = Len(lens') /\ eof' /\ Available' = 0 /\ pc' \in {"idle", "end"}
    <3>1. CASE i \in 1..Len(lens)
      BY <3>1, <2>1, <2>2
    <3>2. CASE i = Len(lens) + 1
      BY <3>2, <2>1, <2>3, <1>1, <1>2, <1>3, <1>9, <1>0
    <3>3. i \in 1..Len(lens) \/ i = Len(lens) + 1
      BY <2>1, <1>0
    <3> QED BY <3>1, <3>2, <3>3
  <2> QED BY <2>4 DEF LensInv
<1> QED BY <1>10, <1>11, <1>12, <1>13, <1>14 DEF IInv

-----------------------------------------------------------------------------
(* What reads that fill the buffer add: where a chunk is cut does not depend *)
(* on them.                                                                 *)

\* When a chunk is cut the buffer holds as much as a chunk can take, or all
\* that is left.
FullInv == fullReads /\ pc = "cut" => Available >= MaxSize \/ pos = size

\* The chunks so far and those of the rest of the input are those of the input.
ContentInv == fullReads => CutSoFar \o Chunking[Len(out)] = Chunking[0]

LEMMA Beginning ==
    ASSUME NEW s \in Seq(Nat), NEW t \in Seq(Nat)
    PROVE  SubSeq(s \o t, 1, Len(s)) = s
<1> DEFINE u == SubSeq(s \o t, 1, Len(s))
<1>1. /\ s \o t \in Seq(Nat) /\ Len(s \o t) = Len(s) + Len(t)
      /\ \A i \in 1..(Len(s) + Len(t)) : (s \o t)[i] = IF i <= Len(s) THEN s[i] ELSE t[i - Len(s)]
  BY ConcatProperties
<1>2. \A i \in 1..Len(s) : (s \o t)[i] = s[i] /\ (s \o t)[i] \in Nat
  BY <1>1
<1>3. /\ u \in Seq(Nat) /\ Len(u) = IF 1 <= Len(s) THEN Len(s) - 1 + 1 ELSE 0
      /\ \A i \in 1..(Len(s) - 1 + 1) : u[i] = (s \o t)[1 + i - 1]
  BY <1>2, SubSeqProperties
<1>4. Len(u) = Len(s) /\ \A i \in 1..Len(u) : u[i] = s[i]
  BY <1>2, <1>3
<1> HIDE DEF u
<1>5. u = s
  BY <1>3, <1>4, SeqEqual
<1> QED BY <1>5 DEF u

LEMMA InitContent == Init => FullInv /\ ContentInv
<1> SUFFICES ASSUME Init PROVE FullInv /\ ContentInv
  OBVIOUS
<1>1. size \in Nat /\ lens = <<>> /\ Len(out) = 0 /\ pc = "idle"
  BY InputAssumption DEF Init
<1>2. Chunking[0] \in Seq(Nat)
  BY <1>1, ChunkingIs
<1>3. CutSoFar = <<>>
  BY <1>1 DEF CutSoFar
<1> QED BY <1>1, <1>2, <1>3 DEF FullInv, ContentInv

LEMMA FullKeeps == IInv /\ FullInv /\ [Next]_vars => FullInv'
<1> SUFFICES ASSUME IInv, FullInv, [Next]_vars PROVE FullInv'
  OBVIOUS
<1>0. /\ size \in Nat /\ BufferSize \in Nat /\ filled \in 0..BufferSize /\ cursor \in 0..filled
      /\ pos \in 0..size /\ MaxSize \in Nat \ {0} /\ 2 * MaxSize <= BufferSize
      /\ eof \in BOOLEAN
  BY InputAssumption, SizeAssumption DEF IInv, TypeOK
<1>1. (eof => pos = size) /\ (pc \in {"first", "more"} => cursor <= BufferSize \div 2)
  BY DEF IInv, EofInv
<1>2. CASE CallDrained \/ Call \/ Cut \/ ReadFails
  <2>1. pc' # "cut"
    BY <1>2 DEF CallDrained, Call, Cut, ReadFails
  <2> QED BY <2>1 DEF FullInv
<1>3. CASE Check
  <2>1. pc' = "cut" => UNCHANGED <<size, pos, cursor, filled>> /\ (Available >= MaxSize \/ eof)
    BY <1>3, <1>0 DEF Check, inputVars, Available
  <2> QED BY <2>1, <1>1 DEF FullInv, Available
<1>4. CASE ReadSome
  <2> SUFFICES ASSUME fullReads', pc' = "cut" PROVE Available' >= MaxSize \/ pos' = size'
    BY DEF FullInv
  <2>1. UNCHANGED <<inputVars, cursor>> /\ pc \in {"first", "more"} /\ filled < BufferSize
    BY <1>4 DEF ReadSome, Refilling
  <2>2. filled' = filled + Room /\ pos' = pos + Room
    BY <1>4, <2>1 DEF ReadSome, Receive, inputVars
  <2>3. filled' = BufferSize \/ pos' = size
    BY <2>2, <1>0 DEF Room, Least
  <2> QED BY <2>1, <2>3, <1>0, <1>1 DEF Available, inputVars
<1>5. CASE ReadEof \/ UNCHANGED vars
  <2>1. UNCHANGED <<size, fullReads, pos, pc, cursor, filled>>
    BY <1>5 DEF ReadEof, vars, inputVars, bufferVars
  <2> QED BY <2>1 DEF FullInv, Available
<1>6. CASE RefillDone
  <2>1. /\ UNCHANGED <<inputVars, pos, bufferVars>> /\ pc \in {"first", "more"}
        /\ (filled = BufferSize \/ eof)
    BY <1>6 DEF RefillDone, Refilling
  <2>2. Available >= MaxSize \/ pos = size
    BY <2>1, <1>0, <1>1 DEF Available
  <2> QED BY <2>1, <2>2 DEF FullInv, Available, inputVars, bufferVars
<1> QED BY <1>2, <1>3, <1>4, <1>5, <1>6 DEF Next, Step, Stopped

\* With such reads the next chunk is that of the content.
LEMMA NextIsOfContent ==
    ASSUME IInv, FullInv, fullReads, pc = "cut", Len(out) # size
    PROVE  NextLength = LengthAt(Len(out))
<1>1. /\ size \in Nat /\ pos \in 0..size /\ MaxSize \in Nat \ {0} /\ filled \in Nat
      /\ cursor \in 0..filled /\ Len(out) = pos - Available
  BY InputAssumption, SizeAssumption DEF IInv, TypeOK, OutInv
<1>2. Available \in Nat /\ (Available >= MaxSize \/ pos = size)
  BY <1>1 DEF Available, FullInv
<1>3. Least(Available, MaxSize) = Least(MaxSize, size - (pos - Available))
  BY <1>1, <1>2 DEF Least
<1> QED BY <1>1, <1>3 DEF NextLength, Window, LengthAt

\* The chunks of an input are the same as long as the input is.
LEMMA ChunkingSame == UNCHANGED <<size, cuts>> => Chunking' = Chunking
BY DEF Chunking, CutLength

LEMMA ContentKeeps == IInv /\ FullInv /\ ContentInv /\ [Next]_vars => ContentInv'
<1> SUFFICES ASSUME IInv, FullInv, ContentInv, [Next]_vars PROVE ContentInv'
  OBVIOUS
<1>0. UNCHANGED <<size, cuts, fullReads>> /\ Chunking' = Chunking
  BY ChunkingSame DEF Next, Step, CallDrained, Call, Check, ReadSome, ReadEof, ReadFails,
                      RefillDone, Cut, Stopped, vars, inputVars
<1>1. CASE ~ Cut
  <2>1. UNCHANGED <<out, lens>>
    BY <1>1 DEF Next, Step, CallDrained, Call, Check, ReadSome, ReadEof, ReadFails,
                RefillDone, Stopped, vars
  <2> QED BY <1>0, <2>1 DEF ContentInv, CutSoFar
<1>2. CASE Cut
  <2> SUFFICES ASSUME fullReads PROVE CutSoFar' \o Chunking[Len(out')] = Chunking[0]
    BY <1>0 DEF ContentInv
  <2>1. /\ pc = "cut" /\ lens' = Append(lens, NextLength) /\ size \in Nat
        /\ lens \in Seq(Nat) /\ Len(out) \in Nat /\ Len(out) <= size
    BY <1>2, InputAssumption DEF Cut, IInv, TypeOK, OutInv, BufferInv, Available
  <2>2. CutSoFar = lens
    <3>1. lens # <<>> => lens[Len(lens)] # 0
      BY <2>1 DEF IInv, LensInv
    <3> QED BY <2>1, <3>1 DEF CutSoFar
  <2>3. lens \o Chunking[Len(out)] = Chunking[0]
    BY <2>2 DEF ContentInv
  <2>4. /\ NextLength \in Nat /\ Len(out') = Len(out) + NextLength
        /\ Len(out) = size => NextLength = 0
    <3>1. NextLength \in 0..Available
      BY NextLengthTakes
    <3>2. /\ Len(out') = pos' - Available' /\ Len(out) = pos - Available
          /\ UNCHANGED <<pos, filled>> /\ cursor' = cursor + NextLength
      BY <1>2, CutKeeps DEF IInv, OutInv, Cut
    <3>3. pos \in 0..size /\ filled \in Nat /\ cursor \in 0..filled
      BY SizeAssumption DEF IInv, TypeOK
    <3> QED BY <3>1, <3>2, <3>3, <2>1 DEF Available
  <2>5. PICK n \in Nat : n = NextLength
    BY <2>4
  <2>6. /\ lens' = Append(lens, n) /\ lens' \in Seq(Nat) /\ Len(lens') = Len(lens) + 1
        /\ lens'[Len(lens')] = n /\ lens' # <<>>
    BY <2>1, <2>5
  <2>7. CASE Len(out) = size
    <3>1. n = 0
      BY <2>4, <2>5, <2>7
    <3>2. CutSoFar' = SubSeq(Append(lens, 0), 1, Len(lens))
      BY <2>1, <2>6, <3>1 DEF CutSoFar
    <3>3. CutSoFar' = lens
      BY <2>1, <3>2
    <3>4. Len(out') = Len(out)
      BY <2>1, <2>4, <2>5, <3>1
    <3> QED BY <2>3, <3>3, <3>4
  <2>8. CASE Len(out) # size
    <3> DEFINE s == Len(out)
    <3>1. s \in 0..size /\ n = LengthAt(s)
      BY <1>2, <2>1, <2>5, <2>8, NextIsOfContent
    <3>2. n \in 1..(size - s)
      BY <2>1, <2>8, <3>1, LengthAtInInput
    <3>3. CutSoFar' = lens'
      <4>1. CutSoFar' = SubSeq(lens', 1, Len(lens'))
        BY <2>6, <3>2 DEF CutSoFar
      <4> QED BY <4>1, <2>6, SubSeqFull
    <3>4. Chunking[s] = <<n>> \o Chunking[s + n] /\ Chunking[s + n] \in Seq(Nat)
      <4>1. s # size /\ s + n \in 0..size
        BY <2>1, <2>8, <3>1, <3>2
      <4>2. Chunking \in [0..size -> Seq(Nat)] /\ Chunking[s] = <<n>> \o Chunking[s + n]
        BY <2>1, <3>1, <4>1, ChunkingIs
      <4> HIDE DEF s
      <4> QED BY <4>1, <4>2
    <3>5. lens' = lens \o <<n>>
      BY <2>1, <2>6, AppendIsConcat
    <3>6. (lens \o <<n>>) \o Chunking[s + n] = lens \o (<<n>> \o Chunking[s + n])
      <4> DEFINE first == <<n>>
                 rest == Chunking[s + n]
      <4>1. first \in Seq(Nat) /\ rest \in Seq(Nat)
        BY <3>4
      <4> HIDE DEF first, rest
      <4>2. \A a, b, c \in Seq(Nat) : (a \o b) \o c = a \o (b \o c)
        BY ConcatAssociative
      <4>3. (lens \o first) \o rest = lens \o (first \o rest)
        BY <2>1, <4>1, <4>2, Zenon
      <4> QED BY <4>3 DEF first, rest
    <3>7. Len(out') = s + n
      BY <2>4, <2>5
    <3> QED BY <2>3, <3>3, <3>4, <3>5, <3>6, <3>7
  <2> QED BY <2>7, <2>8
<1> QED BY <1>1, <1>2

-----------------------------------------------------------------------------
(* The theorems.                                                            *)

\* The invariant holds in every run, for every input and every reader.
THEOREM Invariance == Spec => []IInv
<1>1. IInv /\ [Next]_vars => IInv'
  <2> SUFFICES ASSUME IInv, [Next]_vars PROVE IInv'
    OBVIOUS
  <2>1. CASE CallDrained
    BY <2>1, CallDrainedKeeps
  <2>2. CASE Call
    BY <2>2, CallKeeps
  <2>3. CASE Check
    BY <2>3, CheckKeeps
  <2>4. CASE ReadSome
    BY <2>4, ReadSomeKeeps
  <2>5. CASE ReadEof
    BY <2>5, ReadEofKeeps
  <2>6. CASE ReadFails
    BY <2>6, ReadFailsKeeps
  <2>7. CASE RefillDone
    BY <2>7, RefillDoneKeeps
  <2>8. CASE Cut
    BY <2>8, CutKeeps
  <2>9. CASE UNCHANGED vars
    BY <2>9 DEF IInv, TypeOK, BufferInv, OutInv, EofInv, LensInv, Available, vars, inputVars,
                bufferVars
  <2> QED BY <2>1, <2>2, <2>3, <2>4, <2>5, <2>6, <2>7, <2>8, <2>9 DEF Next, Step, Stopped
<1> QED BY InitIInv, <1>1, PTL DEF Spec

\* For any input and sizes the cursor, the ends and the buffer keep their
\* ranges: cursor <= filled <= the capacity of the buffer, and no read goes
\* beyond the input.
THEOREM TypeCorrect == Spec => []TypeOK
<1>1. IInv => TypeOK
  BY DEF IInv
<1> QED BY <1>1, Invariance, PTL

\* The chunks are the input, byte for byte, for every reader: StreamChunker
\* loses, repeats and reorders nothing when it shifts and refills its buffer.
THEOREM LosslessCorrect == Spec => []Lossless
<1>1. IInv => Lossless
  <2> SUFFICES ASSUME IInv PROVE Lossless
    OBVIOUS
  <2>1. size \in Nat /\ pos \in Nat /\ filled \in Nat /\ cursor \in Nat
    BY InputAssumption, SizeAssumption DEF IInv, TypeOK
  <2> QED BY <2>1 DEF IInv, OutInv, EofInv, Lossless, Available
<1> QED BY Invariance, <1>1, PTL

\* Chunks have at most max_size bytes, and only the last can be empty.
THEOREM ChunkBoundsCorrect == Spec => []ChunkBounds
<1>1. IInv => ChunkBounds
  <2> SUFFICES ASSUME IInv PROVE ChunkBounds
    OBVIOUS
  <2>1. size \in Nat /\ pos \in Nat /\ filled \in Nat /\ cursor \in Nat
    BY InputAssumption, SizeAssumption DEF IInv, TypeOK
  <2> QED BY <2>1 DEF IInv, OutInv, EofInv, LensInv, ChunkBounds, Available
<1> QED BY Invariance, <1>1, PTL

\* For any input, cuts and sizes, and reads that return as much as there is
\* room for, the chunks are those of the content: they do not depend on where
\* the buffer was refilled and shifted.
THEOREM ContentDefinedCorrect == Spec => []ContentDefined
<1>1. IInv /\ FullInv /\ ContentInv => ContentDefined
  <2> SUFFICES ASSUME IInv, FullInv, ContentInv, fullReads
               PROVE  /\ CutSoFar = SubSeq(Chunking[0], 1, Len(CutSoFar))
                      /\ pc = "end" => CutSoFar = Chunking[0]
    BY DEF ContentDefined
  <2>1. size \in Nat /\ pos \in 0..size /\ Len(out) = pos - Available /\ lens \in Seq(Nat)
        /\ Available \in Nat /\ (pc = "end" => eof /\ Available = 0) /\ (eof => pos = size)
    BY InputAssumption, SizeAssumption DEF IInv, TypeOK, OutInv, EofInv, Available
  <2>2. Len(out) \in 0..size
    BY <2>1, SizeAssumption DEF IInv, TypeOK, BufferInv, Available
  <2>3. Chunking[Len(out)] \in Seq(Nat) /\ Chunking[0] \in Seq(Nat) /\ Chunking[size] = <<>>
    BY <2>1, <2>2, ChunkingIs
  <2>4. CutSoFar \in Seq(Nat)
    <3>1. PICK m \in 0..Len(lens) : CutSoFar = SubSeq(lens, 1, m)
      BY <2>1 DEF CutSoFar
    <3>2. \A i \in 1..m : lens[i] \in Nat
      BY <2>1
    <3> QED BY <3>1, <3>2, SubSeqProperties
  <2>5. CutSoFar \o Chunking[Len(out)] = Chunking[0]
    BY DEF ContentInv
  <2>6. SubSeq(CutSoFar \o Chunking[Len(out)], 1, Len(CutSoFar)) = CutSoFar
    BY <2>3, <2>4, Beginning
  <2>7. CutSoFar = SubSeq(Chunking[0], 1, Len(CutSoFar))
    BY <2>5, <2>6
  <2>8. pc = "end" => CutSoFar = Chunking[0]
    <3> SUFFICES ASSUME pc = "end" PROVE CutSoFar = Chunking[0]
      OBVIOUS
    <3>1. Len(out) = size
      BY <2>1
    <3> QED BY <2>3, <2>4, <2>5, <3>1, ConcatEmptySeq
  <2> QED BY <2>7, <2>8
<1>2. FullInv /\ ContentInv /\ IInv /\ [Next]_vars => (FullInv /\ ContentInv)'
  BY FullKeeps, ContentKeeps
<1> QED BY <1>1, <1>2, InitContent, Invariance, PTL DEF Spec
=============================================================================
