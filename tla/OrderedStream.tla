--------------------------- MODULE OrderedStream ---------------------------
(***************************************************************************)
(* What packing one stream promises to its caller, whatever runs in        *)
(* parallel underneath: the chunks of the input are handed to the archive  *)
(* writer one at a time and in input order, and a call that returns Ok has *)
(* handed over every one of them.  process_stream of ops/src/pack.rs is    *)
(* the promise; process_stream_serial keeps it by construction and         *)
(* PackPipeline is checked and proved to implement it.                     *)
(***************************************************************************)
EXTENDS Naturals, Sequences

CONSTANT Input          \* the chunks of the stream, in order

VARIABLES out,          \* the chunks the archive writer accepted so far
          status        \* "running", or what the call returned

vars == <<out, status>>

Init == out = <<>> /\ status = "running"

\* The next chunk of the input, and no other, reaches the writer.
Write ==
    /\ status = "running"
    /\ Len(out) < Len(Input)
    /\ out' = Append(out, Input[Len(out) + 1])
    /\ UNCHANGED status

ReturnOk ==
    /\ status = "running"
    /\ out = Input
    /\ status' = "ok"
    /\ UNCHANGED out

ReturnErr ==
    /\ status = "running"
    /\ status' = "err"
    /\ UNCHANGED out

Next == Write \/ ReturnOk \/ ReturnErr

Spec == Init /\ [][Next]_vars
=============================================================================
