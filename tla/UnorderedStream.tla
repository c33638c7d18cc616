-------------------------- MODULE UnorderedStream --------------------------
(***************************************************************************)
(* What process_chunks_parallel of ops/src/parallel_pack.rs promises: the  *)
(* writer is given every chunk once, in any order, before Ok is returned;  *)
(* an error is returned only when something failed, and then always.       *)
(***************************************************************************)
EXTENDS Naturals, Sequences, Functions

CONSTANT Chunks         \* the numbers of the chunks

VARIABLES out,          \* the chunks the writer accepted, in the order it got them
          fault,        \* a worker or the writer has failed
          status        \* "running", or what the call returned

vars == <<out, fault, status>>

Init == out = <<>> /\ fault = FALSE /\ status = "running"

Deliver ==
    /\ status = "running"
    /\ \E c \in Chunks \ Range(out) : out' = Append(out, c)
    /\ UNCHANGED <<fault, status>>

Fail == fault' = TRUE /\ UNCHANGED <<out, status>>

ReturnOk ==
    /\ status = "running"
    /\ Range(out) = Chunks /\ ~fault
    /\ status' = "ok"
    /\ UNCHANGED <<out, fault>>

ReturnErr ==
    /\ status = "running"
    /\ status' = "err" /\ fault' = TRUE
    /\ UNCHANGED out

Next == Deliver \/ Fail \/ ReturnOk \/ ReturnErr

Spec == Init /\ [][Next]_vars
=============================================================================
