-------------------------- MODULE ArchiveDiskProofs --------------------------
(***************************************************************************)
(* What holds of ArchiveDisk for every set of inputs, whatever the number  *)
(* of their blocks and pages.                                              *)
(***************************************************************************)
EXTENDS ArchiveDisk, TLAPS

-----------------------------------------------------------------------------
(* Typing.                                                                 *)

\* Where an archive's index and metadata are.
LEMMA Offsets ==
  ASSUME NEW a \in Inputs
  PROVE  /\ index_offset(a) \in Nat /\ index_offset(a) >= 2
         /\ metadata_offset(a) = index_offset(a) + 1
  BY InputAssumption DEF index_offset, metadata_offset

\* Every part that is written is a part.
LEMMA PartTypes ==
  ASSUME NEW a \in Inputs, NEW n \in Nat, NEW d \in Seq(Kinds)
  PROVE  /\ Junk \in PartSet /\ Header(a, n) \in HeaderSet /\ Header(a, n) \in PartSet
         /\ Part(a, n) \in PartSet /\ Signature(d) \in PartSet
<1>1. Junk \in PartSet /\ Header(a, n) \in HeaderSet /\ Header(a, n) \in PartSet
  BY DEF Junk, Header, HeaderSet, PartSet
<1>2. Part(a, n) \in PartSet
  BY DEF Part, PartSet
<1>3. Signature(d) \in PartSet
  BY DEF Signature, PartSet
<1>4. QED
  BY <1>1, <1>2, <1>3

\* The kinds of the parts, and what a part of the kind "header" is.
LEMMA PartKinds ==
  ASSUME NEW p \in PartSet
  PROVE  /\ p.kind \in Kinds
         /\ p.kind = "header" => p \in HeaderSet /\ p.of \in Inputs /\ p.signature_offset \in Nat
  BY DEF PartSet, HeaderSet, Kinds

\* The elements of a file after a part is appended, and after the header is put.
LEMMA AppendElements ==
  ASSUME NEW f \in Seq(PartSet), NEW p \in PartSet
  PROVE  /\ Append(f, p) \in Seq(PartSet) /\ Len(Append(f, p)) = Len(f) + 1
         /\ Append(f, p) # <<>>
         /\ \A n \in 1..Len(f) : Append(f, p)[n] = f[n]
         /\ Append(f, p)[Len(f) + 1] = p
  OBVIOUS

\* Writing the header over the first part leaves the others as they are.
LEMMA PutElements ==
  ASSUME NEW f \in Seq(PartSet), f # <<>>, NEW p \in PartSet
  PROVE  /\ [f EXCEPT ![1] = p] \in Seq(PartSet) /\ Len([f EXCEPT ![1] = p]) = Len(f)
         /\ [f EXCEPT ![1] = p] # <<>>
         /\ [f EXCEPT ![1] = p][1] = p
         /\ \A n \in 2..Len(f) : [f EXCEPT ![1] = p][n] = f[n]
<1>1. 1 \in 1..Len(f)
  OBVIOUS
<1>2. [f EXCEPT ![1] = p] \in Seq(PartSet) /\ Len([f EXCEPT ![1] = p]) = Len(f)
  OBVIOUS
<1>3. Len(f) # 0
  OBVIOUS
<1>4. QED
  BY <1>1, <1>2, <1>3

\* A digest is a sequence of kinds.
LEMMA DigestType ==
  ASSUME NEW f \in Seq(PartSet), NEW n \in Nat, n >= 1
  PROVE  Digest(f, n, Len(f)) \in Seq(Kinds)
<1> DEFINE m == Len(f) + 1 - n
<1>1. \A i \in 1..m : i + n - 1 \in 1..Len(f)
  OBVIOUS
<1>2. \A i \in 1..m : n + i - 1 \in 1..Len(f)
  BY <1>1
<1>3. \A i \in 1..m : f[n + i - 1].kind \in Kinds
  BY <1>2, PartKinds
<1>4. CASE m \in Nat
  BY <1>3, <1>4 DEF Digest
<1>5. CASE m \notin Nat
  <2>1. 1..m = 1..0
    BY <1>5
  <2>2. [i \in 1..0 |-> f[n + i - 1].kind] \in Seq(Kinds)
    OBVIOUS
  <2>3. QED
    BY <2>1, <2>2 DEF Digest
<1>6. QED
  BY <1>4, <1>5

\* What a command's record holds, by its operation.
LEMMA CmdTypes ==
  ASSUME NEW c \in CmdSet
  PROVE  /\ c = Idle \/ c.op \in {"pack", "sign", "signed"}
         /\ c.op = "pack" => c.input \in Inputs
         /\ c.op \in {"sign", "signed"} => c.header \in HeaderSet /\ c.header.of \in Inputs
         /\ c.op = "sign" => c.digest \in Seq(Kinds)
         /\ c.op = "signed" => c.at \in Nat
  BY DEF CmdSet, HeaderSet, Idle

\* The commands that the actions begin and go on with are commands.
LEMMA CmdMade ==
  ASSUME NEW a \in Inputs, NEW h \in HeaderSet, NEW d \in Seq(Kinds), NEW n \in Nat
  PROVE  /\ Idle \in CmdSet /\ [op |-> "pack", input |-> a] \in CmdSet
         /\ [op |-> "sign", header |-> h, digest |-> d] \in CmdSet
         /\ [op |-> "signed", header |-> h, at |-> n] \in CmdSet
  BY DEF CmdSet, Idle

\* What a loss of power leaves is a file.
LEMMA LossType ==
  ASSUME TypeOK, PowerLoss
  PROVE  file' \in Seq(PartSet)
<1> USE DEF TypeOK
<1>1. CASE file' = synced
  BY <1>1
<1>2. ASSUME NEW len \in OlderLen..Len(file), NEW kept \in SUBSET (2..len),
             NEW h \in headers \cup {Older(1)},
             file' = [n \in 1..len |-> IF n = 1 THEN h
                                       ELSE IF n \in kept THEN file[n] ELSE Older(n)]
      PROVE  file' \in Seq(PartSet)
  <2>1. OlderLen \in Nat /\ len \in Nat
    BY DEF OlderLen
  <2>2. \A n \in 1..len : Older(n) \in PartSet /\ file[n] \in PartSet
    <3>1. Junk \in PartSet
      BY DEF Junk, PartSet
    <3>2. \A n \in 1..len : n \in 1..Len(file)
      BY <2>1
    <3>3. \A n \in 1..len : n <= Len(synced) => n \in 1..Len(synced)
      OBVIOUS
    <3>4. QED
      BY <3>1, <3>2, <3>3 DEF Older
  <2>3. h \in PartSet
    BY DEF Older, PartSet, Junk
  <2>4. QED
    BY <1>2, <2>1, <2>2, <2>3
<1>3. QED
  BY <1>1, <1>2 DEF PowerLoss

\* Every state has the shape TypeOK states.
THEOREM TypeCorrect == Spec => []TypeOK
<1>1. Init => TypeOK
  <2> SUFFICES ASSUME Init PROVE TypeOK
    OBVIOUS
  <2>1. file \in Seq(PartSet) /\ synced \in Seq(PartSet)
    BY DEF Init
  <2>2. cmd \in CmdSet /\ commands \in 0..MaxCommands
    BY BoundAssumption DEF Init, Idle, CmdSet
  <2>3. truncated = FALSE /\ headers = {} /\ promised = None /\ signed = FALSE /\ lost = FALSE
    BY DEF Init
  <2>4. QED
    BY <2>1, <2>2, <2>3 DEF TypeOK
<1>2. TypeOK /\ [Next]_vars => TypeOK'
  <2> SUFFICES ASSUME TypeOK, [Next]_vars PROVE TypeOK'
    OBVIOUS
  <2> USE DEF TypeOK
  <2>1. CASE Create
    <3>1. PICK a \in Inputs : Begin([op |-> "pack", input |-> a])
      BY <2>1 DEF Create
    <3>2. cmd' \in CmdSet /\ commands' \in 0..MaxCommands
      BY <3>1, BoundAssumption DEF Begin, CmdSet
    <3>3. /\ file' = <<>> /\ synced' = synced /\ truncated' = TRUE /\ headers' = {}
          /\ promised' = None /\ signed' = FALSE /\ lost' = FALSE
      BY <2>1 DEF Create
    <3>4. <<>> \in Seq(PartSet)
      OBVIOUS
    <3>5. QED
      BY <3>2, <3>3, <3>4
  <2>2. CASE WriteZeros
    <3>1. Junk \in PartSet
      BY DEF Junk, PartSet
    <3>2. /\ file' = <<Junk>> /\ headers' = {Junk}
          /\ UNCHANGED <<synced, truncated, cmd, commands, promised, signed, lost>>
      BY <2>2 DEF WriteZeros
    <3>3. QED
      BY <3>1, <3>2
  <2>3. CASE WritePart
    <3>1. /\ file' = Append(file, Part(cmd.input, Len(file) + 1)) /\ cmd.op = "pack"
          /\ UNCHANGED <<diskVars, cmd, commands, promised, signed, lost>>
      BY <2>3 DEF WritePart, Packing
    <3>2. Part(cmd.input, Len(file) + 1) \in PartSet
      BY <3>1, CmdTypes DEF Part, PartSet
    <3>3. QED
      BY <3>1, <3>2, AppendElements DEF diskVars
  <2>4. CASE WriteHeader
    <3>1. /\ PutHeader(Header(cmd.input, 0)) /\ cmd.op = "pack"
          /\ Len(file) = metadata_offset(cmd.input)
          /\ UNCHANGED <<synced, truncated, cmd, commands, promised, signed, lost>>
      BY <2>4 DEF WriteHeader, Packing, WriteHeaderAt
    <3>2. cmd.input \in Inputs
      BY <3>1, CmdTypes
    <3>3. file # <<>>
      BY <3>1, <3>2, Offsets
    <3>4. Header(cmd.input, 0) \in PartSet
      BY <3>2 DEF Header, PartSet, HeaderSet
    <3>5. QED
      BY <3>1, <3>3, <3>4, PutElements DEF PutHeader
  <2>5. CASE PackOk
    <3>1. /\ cmd' \in CmdSet /\ promised' \in Inputs
      BY <2>5, CmdTypes DEF PackOk, Packing, Idle, CmdSet
    <3>2. /\ synced' = file /\ truncated' = FALSE /\ headers' = {}
          /\ UNCHANGED <<file, commands, signed, lost>>
      BY <2>5 DEF PackOk, SyncAll
    <3>3. QED
      BY <3>1, <3>2
  <2>6. CASE SignOpen
    <3>1. file # <<>> /\ file[1].kind = "header" /\ file[1] \in PartSet
      BY <2>6 DEF SignOpen, HasHeader
    <3>2. file[1] \in HeaderSet /\ file[1].of \in Inputs
      BY <3>1, PartKinds
    <3>3. Digest(file, index_offset(file[1].of), Len(file)) \in Seq(Kinds)
      <4>1. index_offset(file[1].of) \in Nat /\ index_offset(file[1].of) >= 1
        BY <3>2, Offsets
      <4>2. QED
        BY <4>1, DigestType
    <3>4. cmd' \in CmdSet /\ commands' \in 0..MaxCommands
      BY <2>6, <3>2, <3>3, BoundAssumption DEF SignOpen, Begin, CmdSet, SignedUpto
    <3>5. QED
      BY <2>6, <3>4 DEF SignOpen, diskVars
  <2>7. CASE SignAppend
    <3>1. /\ cmd.op = "sign" /\ file' = Append(file, Signature(cmd.digest))
          /\ cmd' = [op |-> "signed", header |-> cmd.header, at |-> Len(file) + 1]
          /\ UNCHANGED <<diskVars, commands, promised, signed, lost>>
      BY <2>7 DEF SignAppend, Signing
    <3>2. Signature(cmd.digest) \in PartSet
      BY <3>1, CmdTypes DEF Signature, PartSet
    <3>3. cmd' \in CmdSet
      BY <3>1, CmdTypes DEF CmdSet
    <3>4. QED
      BY <3>1, <3>2, <3>3, AppendElements DEF diskVars
  <2>8. CASE SignHeader
    <3>1. /\ cmd.op = "signed" /\ PutHeader(Header(cmd.header.of, cmd.at))
          /\ signed' = TRUE /\ cmd' = Idle
          /\ UNCHANGED <<synced, truncated, commands, promised, lost>>
      BY <2>8 DEF SignHeader
    <3>2. Header(cmd.header.of, cmd.at) \in PartSet
      BY <3>1, CmdTypes DEF Header, HeaderSet, PartSet
    <3>3. file' \in Seq(PartSet)
      <4>1. CASE file = <<>>
        <5>1. file' = file
          BY <3>1, <4>1 DEF PutHeader
        <5>2. QED
          BY <5>1
      <4>2. CASE file # <<>>
        BY <3>1, <3>2, <4>2, PutElements DEF PutHeader
      <4>3. QED
        BY <4>1, <4>2
    <3>4. cmd' \in CmdSet
      BY <3>1 DEF Idle, CmdSet
    <3>5. QED
      BY <3>1, <3>2, <3>3, <3>4 DEF PutHeader
  <2>9. CASE Stop
    <3>1. /\ file' = file \/ file' = Append(file, Junk)
          /\ cmd' = Idle /\ UNCHANGED <<diskVars, commands, promised, signed, lost>>
      BY <2>9 DEF Stop
    <3>2. Junk \in PartSet /\ Idle \in CmdSet
      BY DEF Junk, PartSet, Idle, CmdSet
    <3>3. QED
      BY <3>1, <3>2, AppendElements DEF diskVars
  <2>10. CASE PowerLoss
    <3>1. file' \in Seq(PartSet)
      BY <2>10, LossType
    <3>2. /\ synced' = file' /\ truncated' = FALSE /\ headers' = {} /\ cmd' = Idle
          /\ signed' = FALSE /\ UNCHANGED <<commands, promised>>
          /\ lost' \in BOOLEAN
      BY <2>10 DEF PowerLoss
    <3>3. Idle \in CmdSet
      BY DEF Idle, CmdSet
    <3>4. QED
      BY <3>1, <3>2, <3>3
  <2>11. CASE UNCHANGED vars
    BY <2>11 DEF vars, diskVars
  <2>12. QED
    BY <2>1, <2>2, <2>3, <2>4, <2>5, <2>6, <2>7, <2>8, <2>9, <2>10, <2>11 DEF Next, Pack, Sign
<1>3. QED
  BY <1>1, <1>2, PTL DEF Spec

-----------------------------------------------------------------------------
(* The inductive invariant.                                                *)

\* Unless power was lost, a file with a header holds its whole input.
FileInv == ~lost /\ HasHeader(file) => Holds(file, file[1].of)

\* A pack has written the first parts of its input, and the header last.
PackInv == Packing =>
    /\ ~lost /\ promised = None
    /\ Len(file) <= metadata_offset(cmd.input)
    /\ \A n \in 2..Len(file) : file[n] = Part(cmd.input, n)
    /\ HasHeader(file) => file[1].of = cmd.input

\* The header that sign_archive writes back is the file's own.
SignInv == cmd.op \in {"sign", "signed"} => HasHeader(file) /\ file[1].of = cmd.header.of

\* What was promised is on the disk, and only signatures and headers that point
\* to them were written since.
PromiseInv == promised # None =>
    /\ ~lost /\ ~truncated
    /\ Holds(file, promised) /\ Holds(synced, promised) /\ Len(synced) <= Len(file)
    /\ \A h \in headers : h.kind = "header" /\ h.of = promised

\* The signature that is being written, or is there, covers the index and all
\* that followed it when the archive was signed.
Signs(f, a, at) == /\ at \in 2..Len(f)
                   /\ f[at] = Signature(Digest(f, index_offset(a), at - 1))
SignatureInv ==
    /\ cmd.op = "sign" =>
          cmd.digest = Digest(file, index_offset(cmd.header.of), Len(file))
    /\ cmd.op = "signed" => Signs(file, cmd.header.of, cmd.at)
    /\ signed => HasHeader(file) /\ Signs(file, file[1].of, file[1].signature_offset)

IInv == FileInv /\ PackInv /\ SignInv /\ PromiseInv /\ SignatureInv

\* A digest depends on the parts it is taken over only.
LEMMA DigestSame ==
  ASSUME NEW f, NEW g, NEW n \in Nat, NEW upto \in Nat,
         \A k \in n..upto : g[k] = f[k]
  PROVE  Digest(g, n, upto) = Digest(f, n, upto)
<1>1. \A i \in 1..(upto + 1 - n) : n + i - 1 \in n..upto
  OBVIOUS
<1>2. \A i \in 1..(upto + 1 - n) : g[n + i - 1].kind = f[n + i - 1].kind
  BY <1>1
<1>3. QED
  BY <1>2 DEF Digest

\* Appending a part keeps the header, the input and the signature of a file.
LEMMA AppendKeeps ==
  ASSUME NEW f \in Seq(PartSet), NEW p \in PartSet, HasHeader(f), NEW a \in Inputs
  PROVE  /\ HasHeader(Append(f, p)) /\ Append(f, p)[1] = f[1]
         /\ Holds(f, a) => Holds(Append(f, p), a)
         /\ \A at \in Nat : Signs(f, a, at) => Signs(Append(f, p), a, at)
<1>1. 1 \in 1..Len(f) /\ Len(f) \in Nat
  BY DEF HasHeader
<1>2. HasHeader(Append(f, p)) /\ Append(f, p)[1] = f[1]
  BY <1>1, AppendElements DEF HasHeader
<1>3. Holds(f, a) => Holds(Append(f, p), a)
  <2> SUFFICES ASSUME Holds(f, a) PROVE Holds(Append(f, p), a)
    OBVIOUS
  <2>1. metadata_offset(a) <= Len(f) /\ metadata_offset(a) \in Nat /\ f[1].of = a
    BY Offsets DEF Holds, Opens
  <2>2. Opens(Append(f, p)) /\ Append(f, p)[1].of = a
    BY <1>1, <1>2, <2>1, AppendElements DEF Opens
  <2>3. \A n \in 2..metadata_offset(a) : n \in 1..Len(f)
    BY <1>1, <2>1
  <2>4. \A n \in 2..metadata_offset(a) : Append(f, p)[n] = Part(a, n)
    BY <2>3, AppendElements DEF Holds
  <2>5. QED
    BY <2>2, <2>4 DEF Holds
<1>4. ASSUME NEW at \in Nat, Signs(f, a, at)
      PROVE  Signs(Append(f, p), a, at)
  <2>1. at \in 2..Len(f) /\ at \in 1..Len(f) /\ at - 1 \in Nat /\ index_offset(a) \in Nat
        /\ index_offset(a) >= 2
    BY <1>1, <1>4, Offsets DEF Signs
  <2>2. \A k \in index_offset(a)..(at - 1) : k \in 1..Len(f)
    BY <1>1, <2>1
  <2>3. \A k \in index_offset(a)..(at - 1) : Append(f, p)[k] = f[k]
    BY <2>2, AppendElements
  <2>4. Digest(Append(f, p), index_offset(a), at - 1) = Digest(f, index_offset(a), at - 1)
    BY <2>1, <2>3, DigestSame
  <2>5. Append(f, p)[at] = f[at] /\ at \in 2..Len(Append(f, p))
    BY <1>1, <2>1, AppendElements
  <2>6. QED
    BY <1>4, <2>4, <2>5 DEF Signs
<1>5. QED
  BY <1>2, <1>3, <1>4

\* A signature is not about the header.
LEMMA SignsSame ==
  ASSUME NEW f \in Seq(PartSet), NEW g \in Seq(PartSet), NEW a \in Inputs,
         Len(g) = Len(f), \A n \in 2..Len(f) : g[n] = f[n],
         NEW at \in Nat, Signs(f, a, at)
  PROVE  Signs(g, a, at)
<1>1. at \in 2..Len(f) /\ at - 1 \in Nat /\ index_offset(a) \in Nat /\ index_offset(a) >= 2
  BY Offsets DEF Signs
<1>2. \A k \in index_offset(a)..(at - 1) : k \in 2..Len(f)
  BY <1>1
<1>3. \A k \in index_offset(a)..(at - 1) : g[k] = f[k]
  BY <1>2
<1>4. Digest(g, index_offset(a), at - 1) = Digest(f, index_offset(a), at - 1)
  BY <1>1, <1>3, DigestSame
<1>5. QED
  BY <1>1, <1>4 DEF Signs

\* So does putting another header of the same input over the first part.
LEMMA PutKeeps ==
  ASSUME NEW f \in Seq(PartSet), NEW g \in Seq(PartSet), NEW a \in Inputs, NEW sig \in Nat,
         HasHeader(f), f[1].of = a,
         Len(g) = Len(f), g[1] = Header(a, sig), \A n \in 2..Len(f) : g[n] = f[n]
  PROVE  /\ HasHeader(g) /\ g[1].of = a /\ g[1].signature_offset = sig
         /\ Holds(f, a) => Holds(g, a)
         /\ \A at \in Nat : Signs(f, a, at) => Signs(g, a, at)
<1>1. f # <<>> /\ Len(f) # 0
  BY DEF HasHeader
<1>2. g # <<>>
  BY <1>1
<1>3. HasHeader(g) /\ g[1].of = a /\ g[1].signature_offset = sig
  BY <1>2 DEF HasHeader, Header
<1>4. Holds(f, a) => Holds(g, a)
  <2> SUFFICES ASSUME Holds(f, a) PROVE Holds(g, a)
    OBVIOUS
  <2>1. metadata_offset(a) <= Len(f) /\ metadata_offset(a) \in Nat
    BY Offsets DEF Holds, Opens
  <2>2. \A n \in 2..metadata_offset(a) : n \in 2..Len(f)
    BY <2>1
  <2>3. QED
    BY <1>3, <2>1, <2>2 DEF Holds, Opens
<1>5. \A at \in Nat : Signs(f, a, at) => Signs(g, a, at)
  BY SignsSame
<1>6. QED
  BY <1>3, <1>4, <1>5

\* pack_archive: nothing it writes before the header makes the file readable, and
\* the header finds the whole input in place.
LEMMA PackStep ==
  ASSUME TypeOK, IInv, Pack
  PROVE  IInv'
<1> USE DEF TypeOK, IInv
<1>1. CASE Create
  <2>1. /\ cmd'.op = "pack" /\ file' = <<>> /\ promised' = None /\ signed' = FALSE
        /\ lost' = FALSE
    BY <1>1 DEF Create, Begin
  <2>2. cmd'.input \in Inputs
    BY <1>1 DEF Create, Begin
  <2>3. ~HasHeader(file)' /\ Len(file') = 0
    BY <2>1 DEF HasHeader
  <2>4. PackInv'
    BY <2>1, <2>2, <2>3, Offsets DEF PackInv
  <2>5. QED
    BY <2>1, <2>3, <2>4 DEF FileInv, SignInv, PromiseInv, SignatureInv
<1>2. CASE WriteZeros
  <2>1. /\ cmd.op = "pack" /\ cmd' = cmd /\ file' = <<Junk>> /\ lost' = lost
        /\ promised' = promised /\ signed' = signed /\ file = <<>>
    BY <1>2 DEF WriteZeros, Packing
  <2>2. ~HasHeader(file)' /\ Len(file') = 1
    BY <2>1 DEF HasHeader, Junk
  <2>3. ~HasHeader(file)
    BY <2>1 DEF HasHeader
  <2>4. PackInv'
    BY <2>1, <2>2, CmdTypes, Offsets DEF PackInv, Packing
  <2>5. QED
    BY <2>1, <2>2, <2>3, <2>4 DEF FileInv, SignInv, PackInv, PromiseInv, SignatureInv, Packing
<1>3. CASE WritePart
  <2>1. /\ cmd.op = "pack" /\ cmd' = cmd /\ lost' = lost /\ promised' = promised
        /\ signed' = signed /\ file' = Append(file, Part(cmd.input, Len(file) + 1))
        /\ Len(file) \in 1..(metadata_offset(cmd.input) - 1)
    BY <1>3 DEF WritePart, Packing
  <2>2. cmd.input \in Inputs /\ promised = None
    BY <2>1, CmdTypes DEF PackInv, Packing
  <2>3. Part(cmd.input, Len(file) + 1) \in PartSet
    BY <2>2 DEF Part, PartSet
  <2>4. /\ Len(file') = Len(file) + 1
        /\ \A n \in 1..Len(file) : file'[n] = file[n]
        /\ file'[Len(file) + 1] = Part(cmd.input, Len(file) + 1)
        /\ file # <<>> /\ file' # <<>> /\ 1 \in 1..Len(file)
    BY <2>1, <2>3, AppendElements
  <2>5. \A n \in 2..Len(file') : n = Len(file) + 1 \/ (n \in 2..Len(file) /\ n \in 1..Len(file))
    BY <2>4
  <2>6. \A n \in 2..Len(file') : file'[n] = Part(cmd.input, n)
    BY <2>1, <2>4, <2>5 DEF PackInv, Packing
  <2>7. HasHeader(file)' = HasHeader(file) /\ file'[1] = file[1]
    BY <2>4 DEF HasHeader
  <2>8. Len(file') <= metadata_offset(cmd.input)
    BY <2>1, <2>2, <2>4, Offsets
  <2>9. PackInv'
    BY <2>1, <2>6, <2>7, <2>8 DEF PackInv, Packing
  <2>10. HasHeader(file) => Holds(file, cmd.input)
    BY <2>1 DEF FileInv, PackInv, Packing
  <2>11. ~HasHeader(file)
    <3>1. metadata_offset(cmd.input) > Len(file)
      BY <2>1, <2>2, Offsets
    <3>2. Holds(file, cmd.input) => metadata_offset(cmd.input) <= Len(file)
      BY DEF Holds, Opens
    <3>3. QED
      BY <2>2, <2>10, <3>1, <3>2, Offsets
  <2>12. QED
    BY <2>1, <2>2, <2>7, <2>9, <2>11 DEF FileInv, SignInv, PromiseInv, SignatureInv
<1>4. CASE WriteHeader
  <2>1. /\ cmd.op = "pack" /\ cmd' = cmd /\ lost' = lost /\ promised' = promised
        /\ signed' = signed /\ file' = [file EXCEPT ![1] = Header(cmd.input, 0)]
        /\ Len(file) = metadata_offset(cmd.input) /\ file[1] = Junk
    BY <1>4 DEF WriteHeader, Packing, PutHeader, WriteHeaderAt
  <2>2. cmd.input \in Inputs /\ promised = None
    BY <2>1, CmdTypes DEF PackInv, Packing
  <2>3. file # <<>>
    BY <2>1, <2>2, Offsets
  <2>4. Header(cmd.input, 0) \in PartSet
    BY <2>2 DEF Header, PartSet, HeaderSet
  <2>5. /\ Len(file') = Len(file) /\ file' # <<>> /\ file'[1] = Header(cmd.input, 0)
        /\ \A n \in 2..Len(file) : file'[n] = file[n]
    BY <2>1, <2>3, <2>4, PutElements
  <2>6. HasHeader(file)' /\ file'[1].of = cmd.input
    BY <2>5 DEF HasHeader, Header
  <2>7. \A n \in 2..Len(file') : file'[n] = Part(cmd.input, n)
    BY <2>1, <2>5 DEF PackInv, Packing
  <2>8. PackInv'
    BY <2>1, <2>2, <2>5, <2>6, <2>7, Offsets DEF PackInv, Packing
  <2>9. Holds(file', cmd.input)
    BY <2>1, <2>2, <2>5, <2>6, <2>7, Offsets DEF Holds, Opens, HasHeader
  <2>10. ~signed
    <3>1. ~HasHeader(file)
      BY <2>1 DEF HasHeader, Junk
    <3>2. QED
      BY <3>1 DEF SignatureInv
  <2>11. QED
    BY <2>1, <2>2, <2>6, <2>8, <2>9, <2>10 DEF FileInv, SignInv, PromiseInv, SignatureInv
<1>5. CASE PackOk
  <2>1. /\ cmd.op = "pack" /\ cmd' = Idle /\ lost' = lost /\ promised' = cmd.input
        /\ signed' = signed /\ file' = file /\ HasHeader(file)
        /\ synced' = file /\ truncated' = FALSE /\ headers' = {}
    BY <1>5 DEF PackOk, Packing, SyncAll
  <2>2. ~lost /\ file[1].of = cmd.input /\ Holds(file, cmd.input)
    BY <2>1 DEF PackInv, FileInv, Packing
  <2>3. cmd'.op = "idle"
    BY <2>1 DEF Idle
  <2>4. PromiseInv'
    BY <2>1, <2>2 DEF PromiseInv
  <2>5. QED
    BY <2>1, <2>2, <2>3, <2>4 DEF FileInv, PackInv, SignInv, SignatureInv, Packing
<1>6. QED
  BY <1>1, <1>2, <1>3, <1>4, <1>5 DEF Pack

\* What a file with the header of a holds, when it holds what was promised.
LEMMA PromisedHeader ==
  ASSUME NEW f, NEW a, Holds(f, a)
  PROVE  HasHeader(f) /\ f[1].of = a
  BY DEF Holds, Opens

\* sign_archive: the file keeps what it holds.
LEMMA SignStep ==
  ASSUME TypeOK, IInv, Sign
  PROVE  IInv'
<1> USE DEF TypeOK, IInv
<1>1. CASE SignOpen
  <2>1. /\ cmd' = [op |-> "sign", header |-> file[1],
                   digest |-> Digest(file, index_offset(file[1].of), Len(file))]
        /\ HasHeader(file) /\ file' = file /\ synced' = synced /\ truncated' = truncated
        /\ headers' = headers /\ promised' = promised /\ signed' = signed /\ lost' = lost
    BY <1>1 DEF SignOpen, Begin, SignedUpto, diskVars
  <2>2. cmd'.op = "sign" /\ cmd'.header = file[1]
        /\ cmd'.digest = Digest(file, index_offset(file[1].of), Len(file))
    BY <2>1
  <2>3. QED
    BY <2>1, <2>2 DEF FileInv, PackInv, SignInv, PromiseInv, SignatureInv, Packing
<1>2. CASE SignAppend
  <2>1. /\ cmd.op = "sign" /\ file' = Append(file, Signature(cmd.digest))
        /\ cmd' = [op |-> "signed", header |-> cmd.header, at |-> Len(file) + 1]
        /\ synced' = synced /\ truncated' = truncated
        /\ headers' = headers /\ promised' = promised /\ signed' = signed /\ lost' = lost
    BY <1>2 DEF SignAppend, Signing, diskVars
  <2>2. Signature(cmd.digest) \in PartSet
    BY <2>1, CmdTypes DEF Signature, PartSet
  <2>3. HasHeader(file) /\ file[1].of = cmd.header.of /\ cmd.header.of \in Inputs
    BY <2>1, CmdTypes DEF SignInv
  <2>4. HasHeader(file') /\ file'[1] = file[1] /\ Len(file') = Len(file) + 1
    BY <2>1, <2>2, <2>3, AppendKeeps, AppendElements
  <2>5. FileInv' /\ PackInv' /\ SignInv'
    <3>1. Holds(file, file[1].of) => Holds(file', file[1].of)
      BY <2>1, <2>2, <2>3, AppendKeeps
    <3>2. QED
      BY <2>1, <2>3, <2>4, <3>1 DEF FileInv, PackInv, SignInv, Packing
  <2>6. PromiseInv'
    <3>1. ASSUME promised # None
          PROVE  Holds(file', promised) /\ Len(synced) <= Len(file')
      BY <2>1, <2>2, <2>3, <2>4, <3>1, AppendKeeps DEF PromiseInv
    <3>2. QED
      BY <2>1, <3>1 DEF PromiseInv
  <2>7. SignatureInv'
    <3>1. Signs(file', cmd.header.of, Len(file) + 1)
      <4>1. /\ file'[Len(file) + 1] = Signature(cmd.digest) /\ Len(file) >= 1
            /\ \A k \in 1..Len(file) : file'[k] = file[k]
        BY <2>1, <2>2, <2>3, AppendElements DEF HasHeader
      <4>2. index_offset(cmd.header.of) \in Nat /\ index_offset(cmd.header.of) >= 2
        BY <2>3, Offsets
      <4>3. \A k \in index_offset(cmd.header.of)..Len(file) : file'[k] = file[k]
        BY <4>1, <4>2
      <4>4. Digest(file', index_offset(cmd.header.of), Len(file)) = cmd.digest
        <5>1. Digest(file', index_offset(cmd.header.of), Len(file))
                = Digest(file, index_offset(cmd.header.of), Len(file))
          <6>1. Len(file) \in Nat
            OBVIOUS
          <6>2. QED
            BY <4>2, <4>3, <6>1, DigestSame, Zenon
        <5>2. QED
          BY <2>1, <5>1 DEF SignatureInv
      <4>5. Len(file) + 1 - 1 = Len(file) /\ Len(file) + 1 \in 2..Len(file')
        BY <2>4, <4>1
      <4>6. QED
        BY <4>1, <4>4, <4>5 DEF Signs
    <3>2. signed => Signs(file', file[1].of, file[1].signature_offset)
      <4>1. signed => Signs(file, file[1].of, file[1].signature_offset)
        BY DEF SignatureInv
      <4>2. file[1].of \in Inputs /\ file[1].signature_offset \in Nat
        BY <2>3, PartKinds DEF HasHeader
      <4>3. QED
        BY <2>1, <2>2, <2>3, <4>1, <4>2, AppendKeeps
    <3>3. cmd'.op = "signed" /\ cmd'.header = cmd.header /\ cmd'.at = Len(file) + 1
      BY <2>1
    <3>4. QED
      BY <2>1, <2>4, <3>1, <3>2, <3>3 DEF SignatureInv
  <2>8. QED
    BY <2>5, <2>6, <2>7
<1>3. CASE SignHeader
  <2>1. /\ cmd.op = "signed" /\ file' = [file EXCEPT ![1] = Header(cmd.header.of, cmd.at)]
        /\ headers' = headers \cup {Header(cmd.header.of, cmd.at)}
        /\ cmd' = Idle /\ synced' = synced /\ truncated' = truncated
        /\ promised' = promised /\ signed' = TRUE /\ lost' = lost
    BY <1>3 DEF SignHeader, PutHeader
  <2>2. /\ HasHeader(file) /\ file[1].of = cmd.header.of /\ cmd.header.of \in Inputs
        /\ cmd.at \in Nat
    BY <2>1, CmdTypes DEF SignInv
  <2>3. /\ HasHeader(file') /\ file'[1].of = cmd.header.of
        /\ file'[1].signature_offset = cmd.at
        /\ Holds(file, cmd.header.of) => Holds(file', cmd.header.of)
        /\ Signs(file, cmd.header.of, cmd.at) => Signs(file', cmd.header.of, cmd.at)
    <3>1. Header(cmd.header.of, cmd.at) \in PartSet
      BY <2>2 DEF Header, PartSet, HeaderSet
    <3>2. /\ file' \in Seq(PartSet) /\ Len(file') = Len(file)
          /\ file'[1] = Header(cmd.header.of, cmd.at)
          /\ \A n \in 2..Len(file) : file'[n] = file[n]
      BY <2>1, <2>2, <3>1, PutElements DEF HasHeader
    <3>3. QED
      BY <2>2, <3>2, PutKeeps
  <2>4. cmd'.op = "idle"
    BY <2>1 DEF Idle
  <2>5. FileInv' /\ PackInv' /\ SignInv'
    BY <2>1, <2>2, <2>3, <2>4 DEF FileInv, PackInv, SignInv, Packing
  <2>6. SignatureInv'
    BY <2>1, <2>3, <2>4 DEF SignatureInv
  <2>7. PromiseInv'
    <3>1. ASSUME promised # None
          PROVE  /\ promised = cmd.header.of /\ Holds(file', promised)
                 /\ Len(synced) <= Len(file')
      <4>1. promised = cmd.header.of
        BY <2>2, <3>1, PromisedHeader DEF PromiseInv
      <4>2. Len(file') = Len(file)
        <5>1. Header(cmd.header.of, cmd.at) \in PartSet
          BY <2>2 DEF Header, PartSet, HeaderSet
        <5>2. QED
          BY <2>1, <2>2, <5>1, PutElements DEF HasHeader
      <4>3. QED
        BY <2>3, <3>1, <4>1, <4>2 DEF PromiseInv
    <3>2. QED
      BY <2>1, <3>1 DEF PromiseInv, Header
  <2>8. QED
    BY <2>5, <2>6, <2>7
<1>4. QED
  BY <1>1, <1>2, <1>3 DEF Sign

\* A command that fails or is killed leaves at most the start of a part behind.
LEMMA StopStep ==
  ASSUME TypeOK, IInv, Stop
  PROVE  IInv'
<1> USE DEF TypeOK, IInv
<1>1. /\ cmd'.op = "idle" /\ synced' = synced /\ truncated' = truncated
      /\ headers' = headers /\ promised' = promised /\ signed' = signed /\ lost' = lost
  BY DEF Stop, diskVars, Idle
<1>2. CASE file' = file
  BY <1>1, <1>2 DEF FileInv, PackInv, SignInv, PromiseInv, SignatureInv, Packing
<1>3. CASE file' = Append(file, Junk) /\ Packing /\ ~HasHeader(file)
  <2>1. ~HasHeader(file')
    <3>1. CASE file = <<>>
      <4>1. file' = <<Junk>>
        BY <1>3, <3>1
      <4>2. QED
        BY <4>1 DEF HasHeader, Junk
    <3>2. CASE file # <<>>
      <4>1. file'[1] = file[1]
        BY <1>3, <3>2
      <4>2. QED
        BY <1>3, <3>2, <4>1 DEF HasHeader
    <3>3. QED
      BY <3>1, <3>2
  <2>2. promised = None /\ ~signed
    BY <1>3 DEF PackInv, SignatureInv
  <2>3. QED
    BY <1>1, <2>1, <2>2 DEF FileInv, PackInv, SignInv, PromiseInv, SignatureInv, Packing
<1>4. CASE file' = Append(file, Junk) /\ Signing
  <2>1. Junk \in PartSet /\ HasHeader(file)
    BY <1>4 DEF SignInv, Signing, Junk, PartSet
  <2>2. file[1].of \in Inputs /\ file[1].signature_offset \in Nat
    BY <2>1, PartKinds DEF HasHeader
  <2>3. /\ HasHeader(file') /\ file'[1] = file[1] /\ Len(file') = Len(file) + 1
        /\ Holds(file, file[1].of) => Holds(file', file[1].of)
        /\ Signs(file, file[1].of, file[1].signature_offset) =>
             Signs(file', file[1].of, file[1].signature_offset)
    BY <1>4, <2>1, <2>2, AppendKeeps, AppendElements
  <2>4. PromiseInv'
    <3>1. ASSUME promised # None
          PROVE  promised = file[1].of /\ Len(synced) <= Len(file')
      <4>1. promised = file[1].of
        BY <3>1, PromisedHeader DEF PromiseInv
      <4>2. QED
        BY <2>3, <3>1, <4>1 DEF PromiseInv
    <3>2. QED
      BY <1>1, <2>3, <3>1 DEF PromiseInv
  <2>5. QED
    BY <1>1, <2>1, <2>3, <2>4 DEF FileInv, PackInv, SignInv, SignatureInv, Packing
<1>5. QED
  BY <1>2, <1>3, <1>4 DEF Stop

\* A loss of power: of what was promised, every part is on the disk.
LEMMA LossKeeps ==
  ASSUME TypeOK, IInv, PowerLoss, promised # None
  PROVE  Holds(file', promised)
<1> USE DEF TypeOK, IInv
<1>1. /\ ~truncated /\ Holds(file, promised) /\ Holds(synced, promised)
      /\ Len(synced) <= Len(file) /\ Len(synced) \in Nat /\ promised \in Inputs
      /\ \A h \in headers : h.kind = "header" /\ h.of = promised
  BY DEF PromiseInv
<1>2. /\ metadata_offset(promised) <= Len(synced) /\ metadata_offset(promised) \in Nat
      /\ metadata_offset(promised) >= 3
      /\ HasHeader(synced) /\ synced[1].of = promised
      /\ \A n \in 2..metadata_offset(promised) : synced[n] = Part(promised, n)
                                                 /\ file[n] = Part(promised, n)
  BY <1>1, Offsets DEF Holds, Opens
<1>3. CASE file' = synced
  BY <1>1, <1>3
<1>4. ASSUME NEW len \in OlderLen..Len(file), NEW kept \in SUBSET (2..len),
             NEW h \in headers \cup {Older(1)},
             file' = [n \in 1..len |-> IF n = 1 THEN h
                                       ELSE IF n \in kept THEN file[n] ELSE Older(n)]
      PROVE  Holds(file', promised)
  <2>1. len \in Nat /\ Len(synced) <= len
    BY <1>1 DEF OlderLen
  <2>2. \A n \in 1..metadata_offset(promised) : n \in 1..len /\ Older(n) = synced[n]
    BY <1>1, <1>2, <2>1 DEF Older
  <2>3. h.kind = "header" /\ h.of = promised
    BY <1>1, <1>2, <2>2 DEF HasHeader
  <2>4. 1 \in 1..len /\ file'[1] = h /\ Len(file') = len
    BY <1>2, <1>4, <2>1
  <2>5. \A n \in 2..metadata_offset(promised) : file'[n] = file[n] \/ file'[n] = Older(n)
    BY <1>2, <1>4, <2>2
  <2>6. \A n \in 2..metadata_offset(promised) : n \in 1..metadata_offset(promised)
    BY <1>2
  <2>7. \A n \in 2..metadata_offset(promised) : file'[n] = Part(promised, n)
    BY <1>2, <2>2, <2>5, <2>6
  <2>8. file' # <<>>
    BY <2>1, <2>4
  <2>9. QED
    BY <1>1, <1>2, <2>1, <2>3, <2>4, <2>7, <2>8 DEF Holds, Opens, HasHeader
<1>5. QED
  BY <1>3, <1>4 DEF PowerLoss

\* Power is lost: a promise or the loss is on record.
LEMMA LossStep ==
  ASSUME TypeOK, IInv, PowerLoss
  PROVE  IInv'
<1> USE DEF TypeOK, IInv
<1>1. /\ synced' = file' /\ truncated' = FALSE /\ headers' = {} /\ cmd' = Idle
      /\ signed' = FALSE /\ promised' = promised
      /\ lost' <=> (lost \/ promised = None)
  BY DEF PowerLoss
<1>2. cmd'.op = "idle"
  BY <1>1 DEF Idle
<1>3. promised # None => Holds(file', promised) /\ ~lost
  BY LossKeeps DEF PromiseInv
<1>4. FileInv'
  BY <1>1, <1>3, PromisedHeader DEF FileInv
<1>5. PromiseInv'
  BY <1>1, <1>3, LossType DEF PromiseInv
<1>6. QED
  BY <1>1, <1>2, <1>4, <1>5 DEF PackInv, SignInv, SignatureInv, Packing

\* The invariant from which both properties follow.
THEOREM Invariance == Spec => [](TypeOK /\ IInv)
<1>1. Init => IInv
  BY DEF Init, IInv, FileInv, PackInv, SignInv, PromiseInv, SignatureInv, HasHeader, Idle,
         Packing
<1>2. TypeOK /\ IInv /\ [Next]_vars => IInv'
  <2> SUFFICES ASSUME TypeOK, IInv, [Next]_vars PROVE IInv'
    OBVIOUS
  <2>1. CASE UNCHANGED vars
    BY <2>1 DEF vars, diskVars, IInv, FileInv, PackInv, SignInv, PromiseInv, SignatureInv,
                HasHeader, Holds, Opens, Signs, Digest, Packing
  <2>2. QED
    BY <2>1, PackStep, SignStep, StopStep, LossStep DEF Next
<1>3. QED
  BY TypeCorrect, <1>1, <1>2, PTL DEF Spec

-----------------------------------------------------------------------------
(* The properties.                                                         *)

\* A signed archive verifies from the moment sign_archive returns Ok.
THEOREM SignedVerifiesCorrect == Spec => []SignedVerifies
<1>1. TypeOK /\ IInv => SignedVerifies
  BY DEF TypeOK, IInv, SignatureInv, SignedVerifies, Verifies, Signs
<1>2. QED
  BY Invariance, <1>1, PTL

\* What the view of a file is, by what it holds.
LEMMA ViewHolds ==
  ASSUME NEW f, NEW a, Holds(f, a)
  PROVE  Reads(f) = a
  BY DEF Reads, Holds

\* Without a header there is nothing to read.
LEMMA ViewNone ==
  ASSUME NEW f, ~HasHeader(f)
  PROVE  Reads(f) = None
  BY DEF Reads, Opens

\* The file is PublishedFile: every write, failure, kill and loss of power is one
\* of its steps or none.
THEOREM Implementation == Spec => ImplementsPublishedFile
<1>1. Init => Published!Init
  BY ViewNone DEF Init, Published!Init, View, HasHeader
<1>2. TypeOK /\ IInv /\ IInv' /\ [Next]_vars => [Published!Next]_(Published!vars)
  <2> SUFFICES ASSUME TypeOK, IInv, IInv', [Next]_vars
               PROVE  [Published!Next]_(Published!vars)
    OBVIOUS
  <2> USE DEF TypeOK
  <2>1. CASE Create
    <3>1. file' = <<>> /\ promised' = None /\ lost' = FALSE
      BY <2>1 DEF Create
    <3>2. View' = None
      BY <3>1, ViewNone DEF View, HasHeader
    <3>3. QED
      BY <3>1, <3>2 DEF Published!Next, Published!Withdraw
  <2>2. CASE WriteHeader
    <3>1. cmd.op = "pack" /\ cmd' = cmd /\ file[1] = Junk /\ lost' = lost /\ promised' = promised
          /\ PutHeader(Header(cmd.input, 0)) /\ Len(file) = metadata_offset(cmd.input)
      BY <2>2 DEF WriteHeader, Packing, WriteHeaderAt
    <3>2. ~lost /\ cmd.input \in Inputs
      BY <3>1, CmdTypes DEF IInv, PackInv, Packing
    <3>3. View = None
      BY <3>1, <3>2, ViewNone DEF View, HasHeader, Junk
    <3>4. HasHeader(file') /\ file'[1].of = cmd.input
      <4>1. Header(cmd.input, 0) \in PartSet /\ file # <<>>
        BY <3>1, <3>2, Offsets DEF Header, PartSet, HeaderSet
      <4>2. file' # <<>> /\ file'[1] = Header(cmd.input, 0)
        BY <3>1, <4>1, PutElements DEF PutHeader
      <4>3. QED
        BY <4>2 DEF HasHeader, Header
    <3>5. Holds(file', cmd.input)
      BY <3>1, <3>2, <3>4 DEF IInv, FileInv
    <3>6. View' = cmd.input
      BY <3>1, <3>2, <3>5, ViewHolds DEF View
    <3>7. QED
      BY <3>1, <3>2, <3>3, <3>6 DEF Published!Next, Published!Publish
  <2>3. CASE PackOk
    <3>1. cmd.op = "pack" /\ HasHeader(file) /\ file' = file /\ lost' = lost
          /\ promised' = cmd.input
      BY <2>3 DEF PackOk, Packing
    <3>2. ~lost /\ file[1].of = cmd.input /\ Holds(file, cmd.input) /\ cmd.input \in Inputs
      BY <3>1, CmdTypes DEF IInv, PackInv, FileInv, Packing
    <3>3. View = cmd.input /\ View' = View
      BY <3>1, <3>2, ViewHolds DEF View
    <3>4. QED
      BY <3>1, <3>2, <3>3 DEF Published!Next, Published!Promise
  <2>4. CASE PowerLoss
    <3>1. promised' = promised /\ lost' = (lost \/ promised = None)
      BY <2>4 DEF PowerLoss
    <3>2. CASE promised = None
      BY <3>1, <3>2 DEF View, Published!Next, Published!PowerLoss
    <3>3. CASE promised # None
      <4>1. ~lost /\ ~lost' /\ Holds(file, promised) /\ Holds(file', promised)
        BY <2>4, <3>1, <3>3, LossKeeps DEF IInv, PromiseInv
      <4>2. View = promised /\ View' = promised
        BY <4>1, ViewHolds DEF View
      <4>3. QED
        BY <3>1, <4>2 DEF Published!vars
    <3>4. QED
      BY <3>2, <3>3
  <2>5. CASE WriteZeros \/ WritePart \/ Sign \/ Stop
    <3>1. promised' = promised /\ lost' = lost
      BY <2>5 DEF WriteZeros, WritePart, Sign, SignOpen, SignAppend, SignHeader, Stop
    <3>2. CASE lost
      BY <3>1, <3>2 DEF View, Published!vars
    <3>3. CASE ~lost /\ HasHeader(file)
      <4>1. HasHeader(file') /\ file'[1].of = file[1].of
        <5>1. CASE WriteZeros \/ WritePart
          <6>1. /\ cmd.op = "pack"
                /\ \/ file = <<>>
                   \/ /\ Len(file) \in 1..(metadata_offset(cmd.input) - 1)
            BY <5>1 DEF WriteZeros, WritePart, Packing
          <6>2. cmd.input \in Inputs /\ Holds(file, cmd.input)
            BY <3>3, <6>1, CmdTypes DEF IInv, FileInv, PackInv, Packing
          <6>3. QED
            BY <3>3, <6>1, <6>2, Offsets DEF Holds, Opens, HasHeader
        <5>2. CASE SignOpen \/ file' = file
          BY <3>3, <5>2 DEF SignOpen
        <5>3. CASE SignAppend
          <6>1. cmd'.op = "signed" /\ cmd'.header = cmd.header /\ cmd.op = "sign"
            BY <5>3 DEF SignAppend, Signing
          <6>2. QED
            BY <6>1 DEF IInv, SignInv
        <5>4. CASE SignHeader
          <6>1. /\ cmd.op = "signed"
                /\ file' = [file EXCEPT ![1] = Header(cmd.header.of, cmd.at)]
            BY <5>4 DEF SignHeader, PutHeader
          <6>2. file[1].of = cmd.header.of /\ cmd.header.of \in Inputs /\ cmd.at \in Nat
            BY <6>1, CmdTypes DEF IInv, SignInv
          <6>3. Header(cmd.header.of, cmd.at) \in PartSet
            BY <6>2 DEF Header, PartSet, HeaderSet
          <6>4. file' # <<>> /\ file'[1] = Header(cmd.header.of, cmd.at)
            BY <3>3, <6>1, <6>3, PutElements DEF HasHeader
          <6>5. QED
            BY <6>2, <6>4 DEF HasHeader, Header
        <5>5. CASE Stop /\ file' # file
          <6>1. file' = Append(file, Junk) /\ Junk \in PartSet
            BY <5>5 DEF Stop, Junk, PartSet
          <6>2. file[1].of \in Inputs
            BY <3>3, PartKinds DEF HasHeader
          <6>3. QED
            BY <3>3, <6>1, <6>2, AppendKeeps
        <5>6. QED
          BY <2>5, <5>1, <5>2, <5>3, <5>4, <5>5 DEF Sign
      <4>2. Holds(file, file[1].of) /\ Holds(file', file[1].of)
        BY <3>1, <3>3, <4>1 DEF IInv, FileInv
      <4>3. View = file[1].of /\ View' = file[1].of
        BY <3>1, <3>3, <4>2, ViewHolds DEF View
      <4>4. QED
        BY <3>1, <4>3 DEF Published!vars
    <3>4. CASE ~lost /\ ~HasHeader(file)
      <4>1. ~HasHeader(file')
        <5>1. CASE WriteZeros
          BY <5>1 DEF WriteZeros, HasHeader, Junk
        <5>2. CASE WritePart
          <6>1. /\ cmd.op = "pack" /\ Len(file) >= 1
                /\ file' = Append(file, Part(cmd.input, Len(file) + 1))
            BY <5>2 DEF WritePart, Packing
          <6>2. Part(cmd.input, Len(file) + 1) \in PartSet
            BY <6>1, CmdTypes DEF Part, PartSet
          <6>3. file # <<>> /\ file'[1] = file[1]
            BY <6>1, <6>2, AppendElements
          <6>4. QED
            BY <3>4, <6>3 DEF HasHeader
        <5>3. ~Sign
          BY <3>4 DEF Sign, SignOpen, SignAppend, SignHeader, Signing, IInv, SignInv
        <5>4. CASE Stop
          <6>1. file' = file \/ file' = Append(file, Junk)
            BY <5>4 DEF Stop
          <6>2. CASE file' = Append(file, Junk) /\ file = <<>>
            <7>1. file' = <<Junk>>
              BY <6>2
            <7>2. QED
              BY <7>1 DEF HasHeader, Junk
          <6>3. CASE file' = Append(file, Junk) /\ file # <<>>
            <7>1. file'[1] = file[1]
              BY <6>3
            <7>2. QED
              BY <3>4, <6>3, <7>1 DEF HasHeader
          <6>4. QED
            BY <3>4, <6>1, <6>2, <6>3 DEF HasHeader
        <5>5. QED
          BY <2>5, <5>1, <5>2, <5>3, <5>4
      <4>2. View = None /\ View' = None
        BY <3>1, <3>4, <4>1, ViewNone DEF View
      <4>3. QED
        BY <3>1, <4>2 DEF Published!vars
    <3>5. QED
      BY <3>2, <3>3, <3>4
  <2>6. CASE UNCHANGED vars
    BY <2>6 DEF vars, View, Reads, Holds, Opens, HasHeader, Published!vars
  <2>7. QED
    BY <2>1, <2>2, <2>3, <2>4, <2>5, <2>6 DEF Next, Pack
<1>3. QED
  BY Invariance, <1>1, <1>2, PTL DEF Spec, Published!Spec, ImplementsPublishedFile
=============================================================================
