----------------------------- MODULE ArchiveDisk -----------------------------
(***************************************************************************)
(* The archive file at one path: how ArchiveWriter (ops/src/               *)
(* archive_writer.rs) and sign_archive (ops/src/sign.rs) lay it out write   *)
(* by write, what is left of it when a command fails, is killed or loses    *)
(* power, and what Archive::with_cache_and_loader and verify_archive make   *)
(* of what they find.                                                       *)
(*                                                                          *)
(* A file is the sequence of the parts it was written in: the header's 4096 *)
(* bytes, the blocks and index pages in stream order, the master index, the *)
(* metadata, and one part per signature.  The operating system is external: *)
(* what is written is visible at once to every process, and what is visible *)
(* is on the disk after sync_all only.                                      *)
(***************************************************************************)
EXTENDS Naturals, Sequences

CONSTANTS
    Inputs,         \* what may be packed to the path
    Parts,          \* [Inputs -> Nat]: how many blocks and pages an input becomes
    None, Unknown,  \* the two views that are no input
    MaxCommands     \* bound on the commands that are run, for TLC

ASSUME InputAssumption == /\ Parts \in [Inputs -> Nat]
                          /\ None \notin Inputs /\ Unknown \notin Inputs
                          /\ None # Unknown
ASSUME BoundAssumption == MaxCommands \in Nat

Kinds == {"junk", "header", "data", "index", "metadata", "signature"}

\* The header of a finished archive; signature_offset is 0 for Option::None.
index_offset(a)    == Parts[a] + 2
metadata_offset(a) == Parts[a] + 3
Header(a, sig) == [kind |-> "header", of |-> a, signature_offset |-> sig]

\* Zeros, or the first bytes of a part whose write did not end: a reader takes
\* neither for a header, and a block of them has the wrong checksum.
Junk == [kind |-> "junk"]

\* The part at position n of the archive of a, the header apart.
Part(a, n) == [kind |-> IF n < index_offset(a) THEN "data"
                        ELSE IF n = index_offset(a) THEN "index" ELSE "metadata",
               of |-> a, at |-> n]

Signature(d) == [kind |-> "signature", digest |-> d]

HeaderSet == [kind : {"header"}, of : Inputs, signature_offset : Nat]

PartSet == [kind : {"junk"}] \cup HeaderSet
           \cup [kind : {"data", "index", "metadata"}, of : Inputs, at : Nat]
           \cup [kind : {"signature"}, digest : Seq(Kinds)]

CmdSet == [op : {"idle"}] \cup [op : {"pack"}, input : Inputs]
          \cup [op : {"sign"}, header : HeaderSet, digest : Seq(Kinds)]
          \cup [op : {"signed"}, header : HeaderSet, at : Nat]

VARIABLES
    file,           \* what a process that reads the path finds
    synced,         \* what was on the disk at the last sync_all
    truncated,      \* the path was truncated since
    headers,        \* the values the header took since
    cmd,            \* the command that is running
    commands,       \* how many were started
    promised,       \* the input whose pack_archive returned Ok, or None
    signed,         \* sign_archive returned Ok since
    lost            \* a power loss hit the file before anything was promised

diskVars == <<synced, truncated, headers>>
vars == <<file, diskVars, cmd, commands, promised, signed, lost>>

Idle == [op |-> "idle"]

Init ==
    /\ file = <<>> /\ synced = <<>> /\ truncated = FALSE /\ headers = {}
    /\ cmd = Idle /\ commands = 0
    /\ promised = None /\ signed = FALSE /\ lost = FALSE

-----------------------------------------------------------------------------
(* Readers.                                                                *)

\* Header::read_from_backend: the magic bytes are there.
HasHeader(f) == f # <<>> /\ f[1].kind = "header"

\* with_cache_and_loader: the index and the metadata are read before the archive
\* is usable, and a read past the end of the file is an error.
Opens(f) == HasHeader(f) /\ metadata_offset(f[1].of) <= Len(f)

\* Every block, page, index and metadata that a read of input a can touch is the
\* one its writer wrote.
Holds(f, a) ==
    /\ Opens(f) /\ f[1].of = a
    /\ \A n \in 2..metadata_offset(a) : f[n] = Part(a, n)

\* What reading all of the file gives.  A file that opens and does not hold its
\* input reads as errors, or as zeros where a page or the index is Junk.
Reads(f) == IF ~Opens(f) THEN None
            ELSE IF Holds(f, f[1].of) THEN f[1].of
            ELSE Unknown

\* SHA-256 of the bytes from position n on: the parts they are.
Digest(f, n, upto) == [i \in 1..(upto + 1 - n) |-> f[n + i - 1].kind]

\* verify_archive: the signature the header points to is over index..signature.
Verifies(f) ==
    /\ HasHeader(f)
    /\ f[1].signature_offset \in 1..Len(f)
    /\ f[f[1].signature_offset] =
         Signature(Digest(f, index_offset(f[1].of), f[1].signature_offset - 1))

-----------------------------------------------------------------------------
(* pack_archive.                                                           *)

Begin(c) == cmd = Idle /\ commands < MaxCommands /\ cmd' = c /\ commands' = commands + 1

\* File::create, whatever the path held.
Create ==
    /\ \E a \in Inputs : Begin([op |-> "pack", input |-> a])
    /\ file' = <<>> /\ truncated' = TRUE /\ headers' = {}
    /\ promised' = None /\ signed' = FALSE /\ lost' = FALSE
    /\ UNCHANGED synced

Packing == cmd.op = "pack"

\* The zeros in place of the header, and what finalize puts over them.
WriteZeros ==
    /\ Packing /\ file = <<>>
    /\ file' = <<Junk>> /\ headers' = {Junk}
    /\ UNCHANGED <<synced, truncated, cmd, commands, promised, signed, lost>>

\* The next block, page, index or metadata goes to the end of the file.
WritePart ==
    /\ Packing /\ Len(file) \in 1..(metadata_offset(cmd.input) - 1)
    /\ file' = Append(file, Part(cmd.input, Len(file) + 1))
    /\ UNCHANGED <<diskVars, cmd, commands, promised, signed, lost>>

WriteHeaderAt(a) == metadata_offset(a)

PutHeader(h) == file' = [file EXCEPT ![1] = h] /\ headers' = headers \cup {h}

\* seek(0) and the header, once everything else is written.
WriteHeader ==
    /\ Packing /\ Len(file) = WriteHeaderAt(cmd.input) /\ file[1] = Junk
    /\ PutHeader(Header(cmd.input, 0))
    /\ UNCHANGED <<synced, truncated, cmd, commands, promised, signed, lost>>

\* sync_all, and Ok.
SyncAll_Skipped == UNCHANGED diskVars
SyncAll == synced' = file /\ truncated' = FALSE /\ headers' = {}

PackOk ==
    /\ Packing /\ HasHeader(file)
    /\ SyncAll
    /\ promised' = cmd.input
    /\ cmd' = Idle
    /\ UNCHANGED <<file, commands, signed, lost>>

-----------------------------------------------------------------------------
(* sign_archive, which syncs nothing.                                      *)

\* The header is read, and everything from the index to the end is hashed.
SignedUpto_Before(f) == Len(f) - 1
SignedUpto(f) == Len(f)

SignOpen ==
    /\ HasHeader(file)
    /\ LET h == file[1]
       IN Begin([op |-> "sign", header |-> h,
                 digest |-> Digest(file, index_offset(h.of), SignedUpto(file))])
    /\ UNCHANGED <<file, diskVars, promised, signed, lost>>

Signing == cmd.op = "sign"

\* The signature goes to the end of the file.
SignAppend ==
    /\ Signing
    /\ file' = Append(file, Signature(cmd.digest))
    /\ cmd' = [op |-> "signed", header |-> cmd.header, at |-> Len(file) + 1]
    /\ UNCHANGED <<diskVars, commands, promised, signed, lost>>

\* The header that was read is written back with the place of the signature.
SignHeader ==
    /\ cmd.op = "signed"
    /\ PutHeader(Header(cmd.header.of, cmd.at))
    /\ signed' = TRUE
    /\ cmd' = Idle
    /\ UNCHANGED <<synced, truncated, commands, promised, lost>>

-----------------------------------------------------------------------------
(* Failures.                                                               *)

\* A write fails and the command returns the error, or the command is killed: a
\* part that was being appended may be there in part.  Nothing is cleaned up.
Stop ==
    /\ cmd # Idle
    /\ \/ UNCHANGED file
       \/ /\ (Packing /\ ~HasHeader(file)) \/ Signing
          /\ file' = Append(file, Junk)
    /\ cmd' = Idle
    /\ UNCHANGED <<diskVars, commands, promised, signed, lost>>

\* What was on the disk before the writes that were not synced.
Older(n) == IF ~truncated /\ n <= Len(synced) THEN synced[n] ELSE Junk
OlderLen == IF truncated THEN 0 ELSE Len(synced)

\* Power is lost.  Of a truncation and the writes after it the disk has nothing,
\* or any of the writes, up to some length of the file.
PowerLoss ==
    /\ \/ file' = synced
       \/ \E len \in OlderLen..Len(file) :
             \E kept \in SUBSET (2..len), h \in headers \cup {Older(1)} :
                file' = [n \in 1..len |-> IF n = 1 THEN h
                                          ELSE IF n \in kept THEN file[n]
                                          ELSE Older(n)]
    /\ synced' = file' /\ truncated' = FALSE /\ headers' = {}
    /\ cmd' = Idle
    /\ signed' = FALSE
    /\ lost' = (lost \/ promised = None)
    /\ UNCHANGED <<commands, promised>>

-----------------------------------------------------------------------------
Pack == Create \/ WriteZeros \/ WritePart \/ WriteHeader \/ PackOk

Sign == SignOpen \/ SignAppend \/ SignHeader

Next == Pack \/ Sign \/ Stop \/ PowerLoss

Spec == Init /\ [][Next]_vars
-----------------------------------------------------------------------------
(* Properties.                                                             *)

TypeOK ==
    /\ file \in Seq(PartSet) /\ synced \in Seq(PartSet)
    /\ truncated \in BOOLEAN /\ headers \subseteq PartSet
    /\ cmd \in CmdSet /\ commands \in 0..MaxCommands
    /\ promised \in Inputs \cup {None} /\ signed \in BOOLEAN /\ lost \in BOOLEAN

View == IF lost THEN Unknown ELSE Reads(file)

\* The header is written last and nothing is written before it afterwards, so at
\* every moment, whatever failed or was killed, a reader is refused or gets one
\* whole input; and what was synced before Ok survives a loss of power, with the
\* signatures written over it unsynced.
Published == INSTANCE PublishedFile WITH view <- View
ImplementsPublishedFile == Published!Spec

\* An archive that was signed verifies, also when it is signed again and that
\* command is killed between its two writes.
SignedVerifies == signed => Verifies(file)
=============================================================================
